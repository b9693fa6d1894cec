------------------------------ MODULE RxFetch ------------------------------
(***************************************************************************)
(* rx fetch (rx.py, fetch_files and Receipts; rx_agent.py, op_send and     *)
(* receive_stream): files a job left on the host come to the user's        *)
(* machine, beside files the user writes there.  Receipts tell the two     *)
(* apart: what matches its receipt was written by rx and may be replaced.  *)
(*                                                                         *)
(* A fetch looks at every file of a listing once, then receives what it    *)
(* needs in rounds.  How one file's bytes arrive, resume and are verified  *)
(* is RxTransfer's; here a file arrives whole or not at all.               *)
(*                                                                         *)
(* Budget bounds what need not happen:                                     *)
(*   "starts" fetches                "overlap" one starts beside another   *)
(*   "host"   changes on the host    "edits"   changes by the user         *)
(*   "window" edits of a file between a fetch's look at it and its receipt *)
(*   "cut"    lost connections       "refused" requests the agent rejects  *)
(*   "busy"   files in use           "late"    retries given up in time    *)
(*   "crash"  fetches that are killed                                      *)
(*   "any"    all of these but "starts", "host" and "edits", together      *)
(***************************************************************************)
EXTENDS Naturals, FiniteSets

CONSTANTS
    Fetches,       \* rx fetch processes
    Files,         \* numbered in the order of their names
    HostContents,  \* what jobs write
    Produced,      \* what a job that ended has left of each file
    UserContents,  \* what only the user writes
    Rounds,        \* rounds of failures before it gives up (delays of 2, 4, .. over 30 s)
    Budget,
    None,          \* no file, no receipt
    Dir            \* a directory in the file's place

Ordinary == {"starts", "host", "edits"}
Kinds == Ordinary \cup {"overlap", "window", "cut", "refused", "busy", "late", "crash", "any"}

\* A local file: its content and which edit left it there (0: rx wrote it, its mtime is the host's).
LocalFiles == [content : HostContents \cup UserContents \cup {None, Dir}, edit : Nat]
\* What a receipt notes: the file as it was left, and the hash of what was listed.
Notes == [of : LocalFiles, sha : HostContents]

ASSUME ConstantsAssumption ==
    /\ Files \subseteq Nat
    /\ Produced \in [Files -> HostContents]
    /\ Rounds \in Nat \ {0}
    /\ Budget \in [Kinds -> Nat]
    /\ HostContents \cap UserContents = {}
    /\ None \notin HostContents \cup UserContents /\ Dir \notin HostContents \cup UserContents
    /\ None # Dir /\ None \notin Notes

VARIABLES
    host,     \* content of each file in the host's workspace
    outputs,  \* the listing recorded when a job ended
    local,    \* each local file
    saved,    \* receipts.json
    at,       \* per fetch: where it is
    force,    \* --overwrite
    want,     \* its listing
    mem,      \* its receipts
    status,   \* what it knows of each file
    trouble,  \* how this round's connections fared
    round,
    left

world == <<host, outputs, local, saved>>
fetch == <<at, force, want, mem, status, trouble, round>>
vars == <<world, fetch, left>>

NoReceipts == [f \in Files |-> None]
Nothing == [f \in Files |-> None]
NotListed == [f \in Files |-> "out"]

Init ==
    /\ host = Produced /\ outputs = Produced
    /\ local = [f \in Files |-> [content |-> None, edit |-> 0]] /\ saved = NoReceipts
    /\ at = [p \in Fetches |-> "idle"] /\ force = [p \in Fetches |-> FALSE]
    /\ want = [p \in Fetches |-> Nothing] /\ mem = [p \in Fetches |-> NoReceipts]
    /\ status = [p \in Fetches |-> NotListed]
    /\ trouble = [p \in Fetches |-> "none"] /\ round = [p \in Fetches |-> 0]
    /\ left = Budget

Spend(kinds) ==
    LET costs == IF kinds \subseteq Ordinary THEN kinds ELSE kinds \cup {"any"}
    IN  /\ \A k \in costs : left[k] > 0
        /\ left' = [k \in Kinds |-> IF k \in costs THEN left[k] - 1 ELSE left[k]]

Spent(k) == left[k] # Budget[k]
-----------------------------------------------------------------------------
(***************************************************************************)
(* The host and the user.                                                  *)
(***************************************************************************)
JobWrites(f) ==
    /\ Spend({"host"})
    /\ \E c \in (HostContents \cup {None}) \ {host[f]} : host' = [host EXCEPT ![f] = c]
    /\ UNCHANGED <<outputs, local, saved, fetch>>

JobEnds ==
    /\ outputs # host
    /\ outputs' = host
    /\ UNCHANGED <<host, local, saved, fetch, left>>

Pending == {"need", "error", "absent"}

\* A fetch has looked at the file and has yet to write it, or its receipt.
InWindow(f) == \E p \in Fetches : status[p][f] \in Pending \cup {"placed"}

Edit(f) ==
    /\ Spend({"edits"} \cup (IF InWindow(f) THEN {"window"} ELSE {}))
    /\ \E c \in HostContents \cup UserContents \cup {None, Dir} :
          local' = [local EXCEPT ![f] = [content |-> c, edit |-> 1 + Budget["edits"] - left["edits"]]]
    /\ UNCHANGED <<host, outputs, saved, fetch>>
-----------------------------------------------------------------------------
(***************************************************************************)
(* The look.                                                               *)
(***************************************************************************)
\* The listing is a job's outputs or, with --glob, the workspace as it is.
Start(p) ==
    /\ at[p] = "idle"
    /\ Spend({"starts"} \cup (IF \A q \in Fetches : at[q] = "idle" THEN {} ELSE {"overlap"}))
    /\ at' = [at EXCEPT ![p] = "look"]
    /\ \E listing \in {host, outputs}, b \in BOOLEAN :
          /\ want' = [want EXCEPT ![p] = listing]
          /\ force' = [force EXCEPT ![p] = b]
          /\ status' = [status EXCEPT ![p] =
                           [f \in Files |-> IF listing[f] = None THEN "out" ELSE "unseen"]]
    /\ mem' = [mem EXCEPT ![p] = saved]
    /\ UNCHANGED <<world, trouble, round>>

\* Mutant: any receipt will do, whatever became of the file.
OursOnce(receipts, f) == receipts[f] # None

\* The file is as rx left it: same size and mtime.
Ours(receipts, f) == receipts[f] # None /\ receipts[f].of = local[f]

\* The content it goes by: the receipt's, or the file's own hash.
Known(p, f) == IF Ours(mem[p], f) THEN mem[p][f].sha ELSE local[f].content

\* Mutant: whatever is in the way is replaced.
VerdictAlways(p, f) ==
    IF local[f].content = Dir THEN "conflict"
    ELSE IF local[f].content # None /\ Known(p, f) = want[p][f] THEN "have"
    ELSE "need"

Verdict(p, f) ==
    IF local[f].content = None THEN "need"
    ELSE IF local[f].content = Dir THEN "conflict"
    ELSE IF Known(p, f) = want[p][f] THEN "have"
    ELSE IF Ours(mem[p], f) \/ force[p] THEN "need"
    ELSE "conflict"

Receipt(p, f) == [of |-> local[f], sha |-> want[p][f]]

\* In the order of their names; a file that is there already gets a receipt, whoever wrote it.
Look(p, f) ==
    /\ at[p] = "look"
    /\ status[p][f] = "unseen" /\ \A g \in Files : g < f => status[p][g] # "unseen"
    /\ status' = [status EXCEPT ![p][f] = Verdict(p, f)]
    /\ mem' = IF Verdict(p, f) = "have" THEN [mem EXCEPT ![p][f] = Receipt(p, f)] ELSE mem
    /\ UNCHANGED <<world, at, force, want, trouble, round, left>>

Stop(p) ==
    /\ at' = [at EXCEPT ![p] = "idle"]
    /\ status' = [status EXCEPT ![p] = NotListed]
    /\ mem' = [mem EXCEPT ![p] = NoReceipts]
    /\ want' = [want EXCEPT ![p] = Nothing] /\ force' = [force EXCEPT ![p] = FALSE]
    /\ trouble' = [trouble EXCEPT ![p] = "none"] /\ round' = [round EXCEPT ![p] = 0]

Having(p, s) == {f \in Files : status[p][f] = s}

\* Nothing to get: it ends, and what it noted of files that were there is not saved.
NothingNeeded(p) ==
    /\ at[p] = "look" /\ Having(p, "unseen") \cup Having(p, "need") = {}
    /\ Stop(p)
    /\ UNCHANGED <<world, left>>

FirstRound(p) ==
    /\ at[p] = "look" /\ Having(p, "unseen") = {} /\ Having(p, "need") # {}
    /\ at' = [at EXCEPT ![p] = "round"] /\ round' = [round EXCEPT ![p] = 1]
    /\ UNCHANGED <<world, force, want, mem, status, trouble, left>>
-----------------------------------------------------------------------------
(***************************************************************************)
(* A round: files arrive over parallel streams, in any order.              *)
(***************************************************************************)
Receiving(p, f) == at[p] = "round" /\ status[p][f] = "need"

\* It hashes to what was listed and is renamed into place, over what is there now.
Place(p, f) ==
    /\ Receiving(p, f)
    /\ host[f] = want[p][f] /\ local[f].content # Dir
    /\ local' = [local EXCEPT ![f] = [content |-> want[p][f], edit |-> 0]]
    /\ status' = [status EXCEPT ![p][f] = "placed"]
    /\ UNCHANGED <<host, outputs, saved, at, force, want, mem, trouble, round, left>>

\* on_done: the receipt names the size and mtime the file has by then.
Noted(p, f) == Receipt(p, f)

Note(p, f) ==
    /\ at[p] = "round" /\ status[p][f] = "placed"
    /\ status' = [status EXCEPT ![p][f] = "done"]
    /\ mem' = [mem EXCEPT ![p][f] = Noted(p, f)]
    /\ UNCHANGED <<world, at, force, want, trouble, round, left>>

\* Other bytes than were listed, or it cannot be renamed.
Reject(p, f) ==
    /\ Receiving(p, f)
    /\ \/ host[f] \notin {want[p][f], None} /\ UNCHANGED left
       \/ host[f] = want[p][f] /\ local[f].content = Dir /\ UNCHANGED left
       \/ host[f] = want[p][f] /\ Spend({"busy"})
    /\ status' = [status EXCEPT ![p][f] = "error"]
    /\ UNCHANGED <<world, at, force, want, mem, trouble, round>>

Missing(p, f) ==
    /\ Receiving(p, f)
    /\ host[f] = None
    /\ status' = [status EXCEPT ![p][f] = "absent"]
    /\ UNCHANGED <<world, at, force, want, mem, trouble, round, left>>

\* A stream breaks off, or the agent answers with an error: its other files stay where they are,
\* and what it said of absent ones is lost.
Break(p) ==
    /\ at[p] = "round" /\ Having(p, "need") # {} /\ trouble[p] = "none"
    /\ \/ Spend({"cut"}) /\ trouble' = [trouble EXCEPT ![p] = "lost"]
       \/ Spend({"refused"}) /\ trouble' = [trouble EXCEPT ![p] = "refused"]
    /\ \E unsaid \in SUBSET Having(p, "absent") :
          status' = [status EXCEPT ![p] = [f \in Files |-> IF f \in unsaid THEN "need" ELSE @[f]]]
    /\ UNCHANGED <<world, at, force, want, mem, round>>
-----------------------------------------------------------------------------
(***************************************************************************)
(* The end of a round: receipts are saved, whole, before anything else.    *)
(***************************************************************************)
Remaining(p) == Having(p, "need") \cup Having(p, "error")

\* Mutant: receipts are saved when the fetch is complete.
KeptAtEnd(p) == IF Remaining(p) = {} THEN mem[p] ELSE saved

Kept(p) == mem[p]

\* Mutant: it never gives up on what does not verify.
GivesUpNever(p) == trouble[p] = "refused"

GivesUp(p) == \/ trouble[p] = "refused"
              \/ trouble[p] = "none" /\ round[p] = Rounds

RoundDone(p) ==
    /\ at[p] = "round" /\ Having(p, "placed") = {}
    /\ Having(p, "need") = {} \/ trouble[p] # "none"

Finish(p) ==
    /\ RoundDone(p)
    /\ Remaining(p) = {} \/ GivesUp(p)
    /\ saved' = Kept(p)
    /\ Stop(p)
    /\ UNCHANGED <<host, outputs, local, left>>

\* The deadline has passed.
TooLate(p) ==
    /\ RoundDone(p) /\ Remaining(p) # {} /\ ~GivesUp(p)
    /\ Spend({"late"})
    /\ saved' = Kept(p)
    /\ Stop(p)
    /\ UNCHANGED <<host, outputs, local>>

Again(p) ==
    /\ RoundDone(p) /\ Remaining(p) # {} /\ ~GivesUp(p)
    /\ saved' = Kept(p)
    /\ status' = [status EXCEPT ![p] = [f \in Files |->
                     IF f \in Remaining(p) THEN "need"
                     ELSE IF f \in Having(p, "absent") THEN "missing" ELSE @[f]]]
    /\ trouble' = [trouble EXCEPT ![p] = "none"]
    /\ round' = [round EXCEPT ![p] = IF @ < Rounds THEN @ + 1 ELSE @]
    /\ UNCHANGED <<host, outputs, local, at, force, want, mem, left>>

Crash(p) ==
    /\ at[p] # "idle"
    /\ Spend({"crash"})
    /\ Stop(p)
    /\ UNCHANGED world
-----------------------------------------------------------------------------
FileStep(p, f) == Look(p, f) \/ Place(p, f) \/ Note(p, f) \/ Reject(p, f) \/ Missing(p, f)

Progress(p) ==
    \/ NothingNeeded(p) \/ FirstRound(p) \/ Finish(p) \/ Again(p)
    \/ \E f \in Files : FileStep(p, f)

Next ==
    \/ \E f \in Files : JobWrites(f) \/ Edit(f)
    \/ JobEnds
    \/ \E p \in Fetches : Start(p) \/ Progress(p) \/ Break(p) \/ TooLate(p) \/ Crash(p)

Spec == Init /\ [][Next]_vars

\* A fetch that runs goes on; nobody has to start one.
FairSpec == Spec /\ \A p \in Fetches : WF_vars(Progress(p))
-----------------------------------------------------------------------------
(***************************************************************************)
(* Properties.                                                             *)
(***************************************************************************)
Receipts == [Files -> {None} \cup Notes]
Listings == [Files -> HostContents \cup {None}]

\* Types; a file is looked at, received or noted only by a fetch that has it in its listing.
TypeOK ==
    /\ host \in Listings /\ outputs \in Listings
    /\ local \in [Files -> LocalFiles] /\ saved \in Receipts
    /\ at \in [Fetches -> {"idle", "look", "round"}] /\ force \in [Fetches -> BOOLEAN]
    /\ want \in [Fetches -> Listings] /\ mem \in [Fetches -> Receipts]
    /\ status \in [Fetches -> [Files -> {"out", "unseen", "need", "have", "conflict", "placed",
                                         "done", "error", "absent", "missing"}]]
    /\ trouble \in [Fetches -> {"none", "lost", "refused"}] /\ round \in [Fetches -> 0 .. Rounds]
    /\ left \in [Kinds -> Nat] /\ \A k \in Kinds : left[k] <= Budget[k]
    /\ \A p \in Fetches, f \in Files : status[p][f] # "out" => want[p][f] # None

UsersOwn(file) == file.content \in UserContents

Replaced(p, f) == status[p][f] = "need" /\ status'[p][f] = "placed"

\* A file of the user's that never came from the host is not replaced without --overwrite: not by
\* a fetch that crashed before, runs beside another or has lost its receipts.  (It may be when the user
\* writes it after the look.)
UsersWorkStays ==
    [][\A p \in Fetches, f \in Files :
          Replaced(p, f) /\ UsersOwn(local[f]) => force[p] \/ Spent("window")]_vars

\* What a fetch counts as fetched or already there is there, as listed, although it goes by a
\* receipt without reading the file (with one fetch at a time, and no edit between rename and receipt).
CountedIsThere ==
    [][\A p \in Fetches, f \in Files :
          status[p][f] # status'[p][f] /\ status'[p][f] \in {"have", "done"}
             => local[f].content = want[p][f] \/ Spent("window") \/ Spent("overlap")]_vars

\* Only a file the user wrote is reported as a conflict (unless a fetch was killed before it saved
\* its receipts, or saved over another's).
ConflictsAreTheUsers ==
    [][\A p \in Fetches, f \in Files :
          status[p][f] = "unseen" /\ status'[p][f] = "conflict"
             => local[f].edit # 0 \/ Spent("crash") \/ Spent("overlap")]_vars

(***************************************************************************)
(* What these rest on (RxFetchProofs).                                     *)
(***************************************************************************)
\* A fetch knows of files only while it runs, and has asked for them only in a round.
KnowsWhileItRuns ==
    \A p \in Fetches, f \in Files :
        /\ at[p] = "idle" => status[p][f] = "out"
        /\ status[p][f] = "unseen" => at[p] = "look"
        /\ status[p][f] \in {"placed", "done"} => at[p] = "round"

OneAtATime ==
    Spent("overlap") \/ \A p, q \in Fetches : at[p] # "idle" /\ at[q] # "idle" => p = q

\* What it means to write over is not the user's own; what it has written is still there.
WindowsAreClean ==
    Spent("window") \/ \A p \in Fetches, f \in Files :
        /\ status[p][f] \in Pending => force[p] \/ ~UsersOwn(local[f])
        /\ status[p][f] = "placed" => ~UsersOwn(local[f])
        /\ status[p][f] = "placed" => local[f].content = want[p][f] \/ Spent("overlap")

Honest(receipts) ==
    \A f \in Files : receipts[f] # None =>
        /\ ~UsersOwn(receipts[f].of)
        /\ receipts[f].of.content = receipts[f].sha \/ Spent("overlap")

\* A receipt tells the truth of a file that still matches it, and never names the user's own.
ReceiptsHonest == Spent("window") \/ (Honest(saved) /\ \A p \in Fetches : Honest(mem[p]))

Covers(receipts, f) == receipts[f] # None /\ receipts[f].of = local[f]

\* Every file rx wrote has its receipt, or is about to.
WrittenIsRecorded ==
    /\ \A f \in Files : local[f].content = Dir => local[f].edit # 0
    /\ \/ Spent("crash") \/ Spent("overlap")
       \/ \A f \in Files : local[f].content # None /\ local[f].edit = 0 =>
              /\ (\A p \in Fetches : at[p] # "round") => Covers(saved, f)
              /\ \A p \in Fetches : at[p] # "idle" => status[p][f] = "placed" \/ Covers(mem[p], f)

IInv == TypeOK /\ KnowsWhileItRuns /\ OneAtATime /\ WindowsAreClean /\ ReceiptsHonest /\ WrittenIsRecorded

\* A fetch comes to an end, also when the host has other bytes than were listed for good.
FetchEnds == \A p \in Fetches : at[p] # "idle" ~> at[p] = "idle"

\* What only the user wrote is never replaced without --overwrite (tools/rx/README.md:123, "rx never
\* overwrites a local file it did not write").
NeverOverwritesUsers ==
    [][\A p \in Fetches, f \in Files : Replaced(p, f) /\ local[f].edit # 0
          => force[p] \/ local[f].content = None \/ Spent("window")]_vars
=============================================================================
