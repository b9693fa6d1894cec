------------------------------ MODULE RxTransfer ------------------------------
(***************************************************************************)
(* rx push of one file: the client's rounds of plan and stream (push of    *)
(* rx.py), the agent's op_plan, op_receive and receive_stream, and the     *)
(* files they work on -- the destination, its .rxpart and .rxpart.json,    *)
(* and its entry in the workspace index.  Beside them a user edits the     *)
(* local file, a job writes the destination, and rx lists or prunes the    *)
(* workspace.                                                              *)
(*                                                                         *)
(* A file's bytes are a sequence of blocks, a block for a chunk; a hash is *)
(* the sequence itself (no collisions).  An mtime is named by the content  *)
(* it came with: every version and the job's output has its own.  An open  *)
(* file is neither renamed nor removed, as on Windows.                     *)
(*                                                                         *)
(* What can go wrong is named by Faults:                                   *)
(*   "drop"    the connection breaks, or the user interrupts the client    *)
(*   "crash"   the receiving process is killed                             *)
(*   "busy"    the destination is in use and cannot be replaced            *)
(*   "edit"    the local file changes, also while it is read               *)
(*   "job"     a job writes the destination                                *)
(*   "race"    it may do so just when rx looks at what it put there        *)
(*   "linger"  a receiver outlives its connection: the next one may start  *)
(*             before it has read what was on the way                      *)
(***************************************************************************)
EXTENDS Integers, Sequences

CONSTANTS
    Blocks,     \* a chunk's bytes
    Versions,   \* the contents the local file may have
    Output,     \* what the job writes
    Elsewhere,  \* versions that another indexed file of the project may hold
    Sessions,   \* rpc processes on the host
    MaxRounds,
    Faults,
    Budget,     \* how many failures, edits, job writes and pushes a behaviour has
    None, Hole  \* an absent file or hash, a block never written

ASSUME ConstantsAssumption ==
    /\ MaxRounds \in Nat
    /\ Elsewhere \subseteq Versions
    /\ Budget \in [{"failures", "edits", "outputs", "pushes"} -> Nat]
    /\ Versions \cup {Output} \subseteq Seq(Blocks)
    /\ Output \notin Versions

ASSUME NamesAssumption ==
    /\ Hole \notin Blocks
    /\ None \notin Sessions /\ None \notin Seq(Blocks \cup {Hole})
    /\ None \notin [data : Seq(Blocks \cup {Hole}), mtime : Versions \cup {Output}]
    /\ None \notin [size : Nat, mtime : Versions \cup {Output}, sha : Seq(Blocks \cup {Hole}),
                    pushed : BOOLEAN]

VARIABLES
    local,  \* the client's file
    push,   \* the push command: where it is, the hash it promised, the round, the
            \* offset the plan gave, and the session it waits for
    ses,    \* ses[r]: the process of a session
    part, side,  \* the .rxpart, and the hash in the .rxpart.json
    dest,   \* the file in the workspace: its data and mtime
    idx,    \* its entry in the index: size, mtime, sha and pushed
    left    \* what is left of the budget

disk == <<part, side, dest, idx>>
vars == <<local, push, ses, disk, left>>

\* A session that is not running.
NoSession == [at |-> "none", sha |-> None, off |-> 0, pipe |-> <<>>, size |-> 0,
              trailer |-> None, got |-> <<>>, entry |-> None]

\* The command was interrupted, succeeded, gave up, or was refused by an exception.
Ended == {"idle", "done", "died", "raised"}

Init ==
    /\ local \in Versions
    /\ push = [at |-> "idle", want |-> None, round |-> 0, off |-> 0, by |-> None]
    /\ ses = [r \in Sessions |-> NoSession]
    /\ part = None /\ side = None /\ dest = None /\ idx = None
    /\ left = Budget

Spend(k) == left[k] > 0 /\ left' = [left EXCEPT ![k] = @ - 1]

\* The next request finds the host's processes of earlier ones ended.
Undisturbed == "linger" \in Faults \/ \A r \in Sessions : ses[r] = NoSession

\* Some other session has the .rxpart open.
InUse(r) == \E q \in Sessions \ {r} : ses[q].at \in {"write", "copy"}
-----------------------------------------------------------------------------
(***************************************************************************)
(* The client, and op_plan as far as it is one step.                       *)
(***************************************************************************)
\* rx push: the manifest is hashed once.
StartPush ==
    /\ push.at \in Ended
    /\ Undisturbed
    /\ Spend("pushes")
    /\ push' = [at |-> "plan", want |-> local, round |-> 1, off |-> 0, by |-> None]
    /\ UNCHANGED <<local, ses, disk>>

Entry(file, sha, pushed) ==
    [size |-> Len(file.data), mtime |-> file.mtime, sha |-> sha, pushed |-> pushed]

\* Mutant: the mtime is not compared.
UnchangedSize == idx # None /\ idx.size = Len(dest.data)

\* The index entry still describes the file.
Unchanged == idx # None /\ idx.size = Len(dest.data) /\ idx.mtime = dest.mtime

\* cached_sha: the index is trusted while size and mtime agree with the file.
Sha == IF Unchanged THEN idx.sha ELSE dest.data

Have(v) == dest # None /\ Len(dest.data) = Len(v) /\ Sha = v

\* partial_offset: where to resume an earlier transfer of the same content.
PartialOffset(v) == IF side = v /\ part # None THEN Len(part) ELSE 0

\* op_plan finds the file in place and the push is over.
PlanHave ==
    /\ push.at = "plan"
    /\ Have(push.want)
    /\ idx' = Entry(dest, push.want, TRUE)
    /\ push' = [push EXCEPT !.at = "done"]
    /\ UNCHANGED <<local, ses, part, side, dest, left>>

\* It finds the same bytes elsewhere in the project, and copies them (copy_via_part).
PlanCopy(r) ==
    /\ push.at = "plan"
    /\ ~Have(push.want)
    /\ push.want \in Elsewhere
    /\ ses[r] = NoSession
    /\ ses' = [ses EXCEPT ![r] = [NoSession EXCEPT !.at = "copy", !.sha = push.want,
                                                  !.pipe = push.want]]
    /\ part' = <<>>
    /\ push' = [push EXCEPT !.at = "copying", !.by = r]
    /\ UNCHANGED <<local, side, dest, idx, left>>

\* It asks for the rest of the file; after too many rounds the client gives up.
PlanNeed ==
    /\ push.at = "plan"
    /\ ~Have(push.want)
    /\ push' = [push EXCEPT !.at = IF push.round > MaxRounds THEN "died" ELSE "stream",
                            !.off = PartialOffset(push.want)]
    /\ UNCHANGED <<local, ses, disk, left>>

\* send_file to a new op_receive: the header promises the hash of the manifest and the
\* size the file has now; `bytes` is what reading it gave.  An offset past the end is
\* ignored.
Stream(r, bytes) ==
    LET off == IF push.off > Len(local) THEN 0 ELSE push.off
    IN  /\ push.at = "stream"
        /\ ses[r] = NoSession
        /\ ses' = [ses EXCEPT ![r] =
                     [NoSession EXCEPT !.at = "open", !.sha = push.want, !.off = off,
                                       !.pipe = SubSeq(bytes, off + 1, Len(bytes)),
                                       !.size = Len(local), !.trailer = bytes]]
        /\ push' = [push EXCEPT !.at = "sent", !.by = r]
        /\ UNCHANGED disk

StreamFile(r) == Stream(r, local) /\ UNCHANGED <<local, left>>

Shorter(m, n) == IF m < n THEN m ELSE n

\* The file becomes v after its first k blocks were read.
StreamEdited(r, v, k) ==
    /\ "edit" \in Faults /\ Spend("edits")
    /\ v # local /\ k < Len(local)
    /\ Stream(r, SubSeq(local, 1, k) \o SubSeq(v, k + 1, Shorter(Len(v), Len(local))))
    /\ local' = v

Awaited(r) == push.by = r /\ push.at \in {"sent", "copying"}

\* The answer arrives: another round after a stream, the end after a copy.
Reply(r) ==
    /\ ses[r].at \in {"ok", "failed"}
    /\ ses' = [ses EXCEPT ![r] = NoSession]
    /\ push' = IF ~Awaited(r) THEN push
               ELSE IF push.at = "sent"
               THEN [push EXCEPT !.at = "plan", !.round = @ + 1, !.by = None]
               ELSE [push EXCEPT !.at = "done", !.by = None]
    /\ UNCHANGED <<local, disk, left>>

\* An exception on the host, which no round repeats.
RemoteError(r) ==
    /\ ses[r].at = "raised"
    /\ ses' = [ses EXCEPT ![r] = NoSession]
    /\ push' = IF Awaited(r) THEN [push EXCEPT !.at = "raised", !.by = None] ELSE push
    /\ UNCHANGED <<local, disk, left>>

\* After a lost connection: call() repeats a plan, a broken stream ends its round.
Resume ==
    /\ push.at \in {"recall", "lost"}
    /\ Undisturbed
    /\ push' = [push EXCEPT !.at = "plan", !.by = None,
                            !.round = IF push.at = "lost" THEN @ + 1 ELSE @]
    /\ UNCHANGED <<local, ses, disk, left>>

(***************************************************************************)
(* Lost connections.  What is on the way may still arrive, then the        *)
(* receiver reads the end of the stream; a plan's copying goes on.         *)
(***************************************************************************)
Receiving == {"open", "sidecar", "write"}

Cut(r, n) ==
    ses' = IF ses[r].at \in Receiving
           THEN [ses EXCEPT ![r].pipe = SubSeq(@, 1, n), ![r].trailer = None] ELSE ses

Notices == push' = [push EXCEPT !.at = IF @ = "copying" THEN "recall" ELSE "lost"]

Drop(r) ==
    /\ "drop" \in Faults /\ Spend("failures")
    /\ Awaited(r)
    /\ \E n \in 0..Len(ses[r].pipe) : Cut(r, n)
    /\ Notices
    /\ UNCHANGED <<local, disk>>

\* The user interrupts the command, or its deadline passes while the host is away.
Interrupt ==
    /\ "drop" \in Faults /\ Spend("failures")
    /\ push.at \notin Ended
    /\ push' = [push EXCEPT !.at = "idle", !.by = None]
    /\ IF push.by \in Sessions
       THEN \E n \in 0..Len(ses[push.by].pipe) : Cut(push.by, n)
       ELSE UNCHANGED ses
    /\ UNCHANGED <<local, disk>>

Crash(r) ==
    /\ "crash" \in Faults /\ Spend("failures")
    /\ ses[r] # NoSession
    /\ ses' = [ses EXCEPT ![r] = NoSession]
    /\ IF Awaited(r) THEN Notices ELSE UNCHANGED push
    /\ UNCHANGED <<local, disk>>
-----------------------------------------------------------------------------
(***************************************************************************)
(* The host: receive_stream for one file, and copy_via_part.               *)
(***************************************************************************)
Go(r, at) == ses' = [ses EXCEPT ![r].at = at]

\* Mutant: the prefix is taken for what the sidecar promises, and not read back.
ResumeBlind(r) ==
    LET s == ses[r]
    IN  /\ s.at = "open" /\ s.off > 0
        /\ IF PartialOffset(s.sha) >= s.off
           THEN /\ ses' = [ses EXCEPT ![r].at = "write", ![r].got = SubSeq(s.sha, 1, Shorter(s.off, Len(s.sha)))]
                /\ part' = SubSeq(part, 1, s.off)
           ELSE Go(r, "failed") /\ UNCHANGED part
        /\ UNCHANGED <<local, push, side, dest, idx, left>>

\* Resuming: the offset must still be there; the prefix is hashed, the rest cut off.
ResumePart(r) ==
    LET s == ses[r]
    IN  /\ s.at = "open" /\ s.off > 0
        /\ IF PartialOffset(s.sha) >= s.off
           THEN /\ ses' = [ses EXCEPT ![r].at = "write", ![r].got = SubSeq(part, 1, s.off)]
                /\ part' = SubSeq(part, 1, s.off)
           ELSE Go(r, "failed") /\ UNCHANGED part
        /\ UNCHANGED <<local, push, side, dest, idx, left>>

\* From the start: first the sidecar is written,
WriteSide(r) ==
    /\ ses[r].at = "open" /\ ses[r].off = 0
    /\ side' = ses[r].sha
    /\ Go(r, "sidecar")
    /\ UNCHANGED <<local, push, part, dest, idx, left>>

\* then the partial file is emptied.
TruncatePart(r) ==
    /\ ses[r].at = "sidecar"
    /\ part' = <<>>
    /\ Go(r, "write")
    /\ UNCHANGED <<local, push, side, dest, idx, left>>

\* File f with block b at position i.
Put(f, i, b) ==
    [n \in 1..(IF i > Len(f) THEN i ELSE Len(f)) |->
        IF n = i THEN b ELSE IF n > Len(f) THEN Hole ELSE f[n]]

\* A chunk arrives; it is written where the session's own handle stands.
Receive(r) ==
    LET s == ses[r]
    IN  /\ s.at \in {"write", "copy"}
        /\ s.pipe # <<>>
        /\ part' = Put(part, Len(s.got) + 1, Head(s.pipe))
        /\ ses' = [ses EXCEPT ![r].pipe = Tail(@), ![r].got = Append(@, Head(s.pipe))]
        /\ UNCHANGED <<local, push, side, dest, idx, left>>

\* The stream ends before the trailer: the partial file is kept.
CutOff(r) ==
    /\ ses[r].at = "write"
    /\ ses[r].pipe = <<>> /\ ses[r].trailer = None
    /\ ses' = [ses EXCEPT ![r] = NoSession]
    /\ UNCHANGED <<local, push, disk, left>>

\* The bytes received are those sent and those promised.
Verified(s) == Len(s.got) = s.size /\ s.got = s.trailer /\ s.got = s.sha

\* Mutant: what does not verify is kept for the next attempt.
CheckKeeps(r) ==
    LET s == ses[r]
    IN  /\ s.at = "write"
        /\ s.pipe = <<>> /\ s.trailer # None
        /\ Go(r, IF Verified(s) THEN "land" ELSE "failed")
        /\ UNCHANGED <<local, push, disk, left>>

\* What does not verify is discarded.
Check(r) ==
    LET s == ses[r]
    IN  /\ s.at = "write"
        /\ s.pipe = <<>> /\ s.trailer # None
        /\ IF Verified(s)
           THEN Go(r, "land") /\ UNCHANGED <<part, side>>
           ELSE /\ Go(r, "failed")
                /\ part' = IF InUse(r) THEN part ELSE None
                /\ side' = None
        /\ UNCHANGED <<local, push, dest, idx, left>>

Copied(r) ==
    /\ ses[r].at = "copy"
    /\ ses[r].pipe = <<>>
    /\ Go(r, "land")
    /\ UNCHANGED <<local, push, disk, left>>

\* The rename fails: a stream reports it, a copy raises.
NotReplaced(r) == Go(r, IF ses[r].trailer = None THEN "raised" ELSE "failed")

\* The rename, impossible while the partial file is open or gone,
Land(r) ==
    /\ ses[r].at = "land"
    /\ IF part = None \/ InUse(r)
       THEN NotReplaced(r) /\ UNCHANGED <<part, dest>>
       ELSE /\ dest' = [data |-> part, mtime |-> ses[r].sha]
            /\ part' = None
            /\ Go(r, "placed")
    /\ UNCHANGED <<local, push, side, idx, left>>

\* or while the destination is in use.
LandBusy(r) ==
    /\ "busy" \in Faults /\ Spend("failures")
    /\ ses[r].at = "land"
    /\ dest # None
    /\ NotReplaced(r)
    /\ UNCHANGED <<local, push, disk>>

\* The sidecar goes, and what stat finds is kept with the hash for the index.
Settle(r) ==
    /\ ses[r].at = "placed"
    /\ side' = None
    /\ IF dest = None
       THEN Go(r, "raised")
       ELSE ses' = [ses EXCEPT ![r].at = "update", ![r].entry = Entry(dest, ses[r].got, TRUE)]
    /\ UNCHANGED <<local, push, part, dest, idx, left>>

UpdateIndex(r) ==
    /\ ses[r].at = "update"
    /\ idx' = ses[r].entry
    /\ Go(r, "ok")
    /\ UNCHANGED <<local, push, part, side, dest, left>>
-----------------------------------------------------------------------------
(***************************************************************************)
(* Others.                                                                 *)
(***************************************************************************)
Edit ==
    /\ "edit" \in Faults /\ Spend("edits")
    /\ \E v \in Versions \ {local} : local' = v
    /\ UNCHANGED <<push, ses, disk>>

JobWrites ==
    /\ "job" \in Faults /\ Spend("outputs")
    /\ \A r \in Sessions : ses[r].at = "placed" => "race" \in Faults
    /\ dest' = [data |-> Output, mtime |-> Output]
    /\ UNCHANGED <<local, push, ses, part, side, idx>>

\* Mutant: a listing refreshes only what stat says.
ManifestKeepsSha ==
    /\ dest # None
    /\ ~Unchanged
    /\ idx' = Entry(dest, IF idx = None THEN dest.data ELSE idx.sha, idx # None /\ idx.pushed)
    /\ UNCHANGED <<local, push, ses, part, side, dest, left>>

\* op_manifest hashes what changed and indexes it, as pushed if it was.
Manifest ==
    /\ dest # None
    /\ ~Unchanged
    /\ idx' = Entry(dest, dest.data, idx # None /\ idx.pushed)
    /\ UNCHANGED <<local, push, ses, part, side, dest, left>>

\* op_plan with prune, of a push that no longer declares the file.
Prune ==
    /\ push.at \in Ended
    /\ Undisturbed
    /\ idx # None /\ idx.pushed
    /\ dest # None => Unchanged
    /\ dest' = None
    /\ idx' = None
    /\ UNCHANGED <<local, push, ses, part, side, left>>
-----------------------------------------------------------------------------
HostStep(r) ==
    \/ ResumePart(r) \/ WriteSide(r) \/ TruncatePart(r) \/ Receive(r) \/ CutOff(r)
    \/ Check(r) \/ Copied(r) \/ Land(r) \/ Settle(r) \/ UpdateIndex(r)

ClientStep ==
    \/ PlanHave \/ PlanNeed \/ Resume
    \/ \E r \in Sessions : PlanCopy(r) \/ StreamFile(r) \/ Reply(r) \/ RemoteError(r)

Next ==
    \/ ClientStep \/ StartPush \/ Interrupt \/ Edit \/ JobWrites \/ Manifest \/ Prune
    \/ \E r \in Sessions :
          \/ HostStep(r) \/ Drop(r) \/ Crash(r) \/ LandBusy(r)
          \/ \E v \in Versions, k \in 1..Len(local) : StreamEdited(r, v, k)

Spec == Init /\ [][Next]_vars

\* A command that nobody interrupts and a process that is not killed go on.
Fairness == WF_vars(ClientStep) /\ \A r \in Sessions : WF_vars(HostStep(r))

FairSpec == Spec /\ Fairness

(***************************************************************************)
(* Properties                                                              *)
(***************************************************************************)
Contents == Versions \cup {Output}
Bytes == Seq(Blocks \cup {Hole})
Files == [data : Bytes, mtime : Contents]
Entries == [size : Nat, mtime : Contents, sha : Bytes, pushed : BOOLEAN]
Pushes == [at : Ended \cup {"plan", "copying", "stream", "sent", "recall", "lost"},
           want : {None} \cup Versions, round : Nat, off : Nat, by : {None} \cup Sessions]
Processes == [at : Receiving \cup {"none", "copy", "land", "placed", "update", "ok", "failed",
                                   "raised"},
              sha : {None} \cup Versions, off : Nat, pipe : Seq(Blocks), size : Nat,
              trailer : {None} \cup Seq(Blocks), got : Bytes, entry : {None} \cup Entries]

\* Every variable has its type.
TypeOK ==
    /\ local \in Versions
    /\ push \in Pushes
    /\ ses \in [Sessions -> Processes]
    /\ part \in {None} \cup Bytes
    /\ side \in {None} \cup Versions
    /\ dest \in {None} \cup Files
    /\ idx \in {None} \cup Entries
    /\ left \in [DOMAIN Budget -> Nat]

\* "Renamed into place only if the size and sha match": the destination is never
\* anything but a whole version that was promised, or what the job wrote, wherever
\* transfers broke off, the file changed under the sender or another content was
\* resumed (receive_stream, partial_offset, copy_via_part).
LandedIsWhole == dest # None => dest.data \in Contents

\* "A cached sha is trusted only while size and mtime_ns still match the file": what
\* is trusted is right, although the index is written after the file and by others.
IndexTruthful == dest # None /\ Unchanged => idx.sha = dest.data

\* A push ends well only when the host has what it promised; while the answer to a
\* copying plan is on its way a job may have written the file again.
DoneMeansThere ==
    [][push.at # "done" /\ push'.at = "done" =>
         /\ dest # None
         /\ dest.data = push.want \/ (push.at = "copying" /\ dest.data = Output)]_vars

\* A push resumes through broken connections, killed receivers and files in use until
\* its file is there; only editing the file under it makes it give up.  (A copy that
\* cannot be placed raises.)
PushLands == push.at = "plan" ~> push.at \in {"done", "idle", "raised"} \/ push.want # local

\* "kept ... that changed on the host (not pruned)": --prune never deletes what a job
\* has written.
OutputsSpared == [][dest # None /\ dest' = None => dest.data # Output]_vars

(***************************************************************************)
(* The inductive invariants behind these (RxTransferProofs).               *)
(***************************************************************************)
Running(r) == ses[r].at # "none"

\* A session works for a version; it has the partial file while it writes, a copy has
\* written or has yet to write each block, and only what is whole is renamed.
SessionsCoherent ==
    /\ push.at \notin Ended => push.want \in Versions
    /\ \A r \in Sessions :
          /\ ~Running(r) => ses[r] = NoSession
          /\ Running(r) => ses[r].sha \in Versions
          /\ ses[r].at \in {"write", "copy"} => part # None
          /\ ses[r].at = "copy" => ses[r].got \o ses[r].pipe = ses[r].sha
          /\ ses[r].at \in {"land", "placed"} => ses[r].got = ses[r].sha

\* Without lingering receivers one process at a time works on the file, the one the
\* client waits for.
OneAtATime ==
    /\ \A q, r \in Sessions : Running(q) /\ Running(r) => q = r
    /\ push.at \in {"plan", "stream"} => \A r \in Sessions : ~Running(r)
    /\ push.at \in {"sent", "copying"} => \A r \in Sessions : Running(r) => push.by = r

\* What was hashed is what is on the disk.
HashedIsWritten ==
    \A r \in Sessions :
       /\ ses[r].at \in {"open", "sidecar"} => ses[r].got = <<>>
       /\ ses[r].at \in {"write", "copy", "land"} => part = ses[r].got

\* An mtime tells the content: of the file, of what is indexed, and of what is about
\* to be.
MtimesTell ==
    /\ dest # None => dest.data = dest.mtime
    /\ idx # None => idx.sha = idx.mtime
    /\ \A r \in Sessions :
          /\ ses[r].at = "placed" /\ dest # None => dest.mtime = ses[r].sha
          /\ ses[r].at = "update" => ses[r].entry # None /\ ses[r].entry.sha = ses[r].entry.mtime

\* A copy the client waits for is of what it wants, and stays once it is placed.
CopyOfWanted ==
    push.at = "copying" =>
       \A r \in Sessions :
          /\ ses[r].at \in {"none", "copy", "land", "placed", "update", "ok", "raised"}
          /\ Running(r) => ses[r].sha = push.want /\ ses[r].trailer = None
          /\ ses[r].at \in {"placed", "update", "ok"} =>
                dest # None /\ dest.data \in {push.want, Output}
=============================================================================
