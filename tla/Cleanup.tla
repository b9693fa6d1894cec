-------------------------------- MODULE Cleanup --------------------------------
(***************************************************************************)
(* outputs/host_ops/auto_cleanup.py, `run --delete --loop`: the cleaner    *)
(* that makes room on the host's drive while the feeder sends jobs, jobs   *)
(* read and write files, and files are archived, restored and released.    *)
(* A cycle reads rx's active jobs, then the feeder's items and state, then *)
(* walks the workspace, and then removes what it found; all the others go  *)
(* on meanwhile.                                                           *)
(*                                                                         *)
(* A write gets a number of its own, the version of the file: size and     *)
(* modification time together.  Numbers order writes, restores and         *)
(* releases; ages are counted in ticks.                                    *)
(*                                                                         *)
(* Budget bounds what need not happen:                                     *)
(*   "write"   a file is written (with a new version)                      *)
(*   "restore" a file comes back from the archive with its old version     *)
(*   "release" somebody releases a set of files                            *)
(*   "read"    a file is read                                              *)
(*   "train"   the record of a training run appears in a build's folder    *)
(*   "window"  one of these happens between the cleaner's last look at the *)
(*             file and its removal                                        *)
(*   "fail"    a job fails                                                 *)
(*   "retry"   the feeder puts a failed item back                          *)
(*   "open"    a file is open elsewhere when the cleaner removes it        *)
(*   "raise"   a cycle ends with an exception                              *)
(*   "any"     all of these but restores and failures together             *)
(***************************************************************************)
EXTENDS Naturals

CONSTANTS
    Files, Items,
    After,          \* item -> the items it waits for
    Named,          \* item -> files that its command or inputs name
    Pinned,         \* item -> files of its family's pins and its scripts' sources
    Path,           \* file -> what its path says it is
    SizeOf,         \* file -> space it takes
    Releasable,     \* sets of files that one release may name
    Levels,         \* free space that a cycle may find
    Emergency, Floor, Ideal,            \* --emergency-gb, --floor-gb, --ideal-gb
    Smoke, Urgent, Cold, Idle,          \* --smoke-h, --urgent-days, --cold-days, --idle-days
    Hours,          \* the six hours in which a launched job counts as running
    Grace,          \* --grace-h
    MaxTime,        \* bound of the clock
    Budget

Kinds == {"write", "restore", "release", "read", "train", "window", "fail", "retry", "open", "raise", "any"}
Paths == {"keep", "smoke", "build", "other"}

ASSUME CleanupAssumption ==
    /\ Files # {} /\ After \in [Items -> SUBSET Items]
    /\ Named \in [Items -> SUBSET Files] /\ Pinned \in [Items -> SUBSET Files]
    /\ Path \in [Files -> Paths] /\ SizeOf \in [Files -> Nat]
    /\ Releasable \subseteq SUBSET Files
    /\ Levels \subseteq Nat
    /\ {Emergency, Floor, Ideal, Smoke, Urgent, Cold, Idle, Hours, Grace, MaxTime} \subseteq Nat
    /\ Budget \in [Kinds -> Nat]

VARIABLES
    now,
    file,       \* the workspace: version, birth and last use of each file
    number,     \* the next number of a write, restore or release
    archived,   \* file -> versions that the archive holds
    hub,        \* hub_index.json: file -> the version it lists
    trained,    \* builds whose folder has the record of a training run
    released,   \* the release records
    it,         \* the feeder's state: item -> unsent, sent, or dropped
    ended,      \* ... and what it has recorded of the item's job
    job,        \* rx: the item's job
    launch,     \* the tick of its launch, which its id begins with
    phase,      \* where the cycle is
    tier, free, \* age limit of the cycle; free space as the cycle counts it
    hubs,       \* what the cycle has read: the index ...
    act,        \* ... the items of the active jobs ...
    refs, pins, \* ... files that are named, files that are pinned ...
    rules,      \* ... and the release records
    found,      \* file -> what the walk made of it
    sure,       \* the file that was looked at again and is to be removed
    due,        \* history: items that have needed their files ever since the cycle began
    left        \* of the budget

worldVars == <<now, file, number, archived, hub, trained, released>>
feederVars == <<it, ended, job, launch>>
readVars == <<tier, hubs, act, refs, pins, rules>>
cleanerVars == <<phase, free, readVars, found, sure>>
vars == <<worldVars, feederVars, cleanerVars, due, left>>

-----------------------------------------------------------------------------
None == [state |-> "none"]
NotWalked == [state |-> "unseen"]
Passed == [state |-> "passed"]

Exists(f) == file[f].state = "file"
File(v, b) == [state |-> "file", version |-> v, birth |-> b, used |-> now]

Init ==
    /\ now = 0
    /\ file = [f \in Files |-> File(1, 1)]
    /\ number = 2
    /\ archived = [f \in Files |-> {}] /\ hub = [f \in Files |-> 0]
    /\ trained = {} /\ released = {}
    /\ it = [i \in Items |-> "unsent"] /\ ended = [i \in Items |-> "none"]
    /\ job = [i \in Items |-> "none"] /\ launch = [i \in Items |-> 0]
    /\ phase = "sleep" /\ tier = "ok" /\ free = 0
    /\ hubs = hub /\ act = {} /\ refs = {} /\ pins = {} /\ rules = {}
    /\ found = [f \in Files |-> Passed] /\ sure = {}
    /\ due = {}
    /\ left = Budget

Spend(kinds) ==
    LET costs == kinds \cup (IF kinds \subseteq {"restore", "fail"} THEN {} ELSE {"any"})
    IN  /\ \A k \in costs : left[k] > 0
        /\ left' = [k \in Kinds |-> IF k \in costs THEN left[k] - 1 ELSE left[k]]

Spent(kind) == left[kind] # Budget[kind]

\* The cleaner has looked at the file, and will not see what happens to it now: a
\* write after the second look, anything else after the walk.
Looked(f) == found[f].state = "candidate"
Late(kind, unseen) == {kind} \cup (IF unseen THEN {"window"} ELSE {})

-----------------------------------------------------------------------------
(* who needs files                                                          *)

Within(i, age) == now - launch[i] < age

EndedBadly(i) == it[i] = "sent" /\ ended[i] = "bad" /\ Within(i, Grace)

\* recent_failure: the items that wait, through dropped items, for a recent failure;
\* the least set, so that a cycle of dependencies finds nothing.
Closed(S) ==
    \A i \in Items : (\E d \in After[i] : EndedBadly(d) \/ (it[d] = "dropped" /\ d \in S)) => i \in S
BehindFailure == {i \in Items : \A S \in SUBSET Items : Closed(S) => i \in S}

\* An item that needs its files: unsent, running, in rx's queue for less than the
\* hours, or dropped behind a recent failure.
Needs(i) ==
    \/ it[i] = "unsent"
    \/ it[i] = "sent" /\ job[i] = "running"
    \/ it[i] = "sent" /\ job[i] = "queued" /\ Within(i, Hours)
    \/ it[i] = "dropped" /\ i \in BehindFailure

\* The history that due keeps, at every step.
Remembers ==
    due' = IF phase' = "sleep" THEN {}
           ELSE {i \in Items : Needs(i)' /\ (phase = "sleep" \/ i \in due)}

-----------------------------------------------------------------------------
(* files                                                                    *)

\* Ticks are hours: what a cycle reads and walks, it reads and walks within one.
Tick ==
    /\ now < MaxTime /\ \A f \in Files : found[f] # NotWalked
    /\ now' = now + 1
    /\ UNCHANGED <<file, number, archived, hub, trained, released, feederVars, cleanerVars, left>>
    /\ Remembers

Write(f) ==
    /\ Spend(Late("write", f \in sure))
    /\ file' = [file EXCEPT ![f] = File(number, IF Exists(f) THEN @.birth ELSE number)]
    /\ number' = number + 1
    /\ UNCHANGED <<now, archived, hub, trained, released, feederVars, cleanerVars>>
    /\ Remembers

\* The file comes back with the modification time it had, as rx push sends it.
Restore(f) ==
    /\ ~Exists(f) /\ hub[f] # 0 /\ Spend({"restore"})
    /\ file' = [file EXCEPT ![f] = File(hub[f], number)]
    /\ number' = number + 1
    /\ UNCHANGED <<now, archived, hub, trained, released, feederVars, cleanerVars>>
    /\ Remembers

Read(f) ==
    /\ Exists(f) /\ file[f].used # now /\ Spend(Late("read", Looked(f)))
    /\ file' = [file EXCEPT ![f] = File(@.version, @.birth)]
    /\ UNCHANGED <<now, number, archived, hub, trained, released, feederVars, cleanerVars>>
    /\ Remembers

Train(f) ==
    /\ Path[f] = "build" /\ f \notin trained /\ Spend(Late("train", Looked(f)))
    /\ trained' = trained \cup {f}
    /\ UNCHANGED <<now, file, number, archived, hub, released, feederVars, cleanerVars>>
    /\ Remembers

\* The archive takes the file as it is, verifies it, and the index of it comes to
\* the host (hub_index lists verified tags only).
Archive(f) ==
    /\ Exists(f) /\ hub[f] # file[f].version
    /\ archived' = [archived EXCEPT ![f] = @ \cup {file[f].version}]
    /\ hub' = [hub EXCEPT ![f] = file[f].version]
    /\ UNCHANGED <<now, file, number, trained, released, feederVars, cleanerVars, left>>
    /\ Remembers

Release(F) ==
    /\ Spend({"release"})
    /\ released' = released \cup {[files |-> F, before |-> number]}
    /\ number' = number + 1
    /\ UNCHANGED <<now, file, archived, hub, trained, feederVars, cleanerVars>>
    /\ Remembers

-----------------------------------------------------------------------------
(* the feeder and rx                                                        *)

\* submit names the job after the time, records the item as sent, and launches.
Send(i) ==
    /\ it[i] = "unsent"
    /\ \A d \in After[i] : it[d] = "sent" /\ ended[d] = "good"
    /\ it' = [it EXCEPT ![i] = "sent"]
    /\ ended' = [ended EXCEPT ![i] = "none"]
    /\ launch' = [launch EXCEPT ![i] = now]
    /\ job' = [job EXCEPT ![i] = "queued"]
    /\ UNCHANGED <<worldVars, cleanerVars, left>>
    /\ Remembers

\* rx admits the job; its entry appears in active/.
Admit(i) ==
    /\ job[i] = "queued"
    /\ job' = [job EXCEPT ![i] = "running"]
    /\ UNCHANGED <<worldVars, it, ended, launch, cleanerVars, left>>
    /\ Remembers

\* ... and is removed from there when the job ends.
End(i) ==
    /\ job[i] = "running"
    /\ \/ job' = [job EXCEPT ![i] = "done"] /\ UNCHANGED left
       \/ job' = [job EXCEPT ![i] = "failed"] /\ Spend({"fail"})
    /\ UNCHANGED <<worldVars, it, ended, launch, cleanerVars>>
    /\ Remembers

\* The feeder learns of it, at its next poll or much later.
RecordEnd(i) ==
    /\ it[i] = "sent" /\ ended[i] = "none" /\ job[i] \in {"done", "failed"}
    /\ ended' = [ended EXCEPT ![i] = IF job[i] = "done" THEN "good" ELSE "bad"]
    /\ UNCHANGED <<worldVars, it, job, launch, cleanerVars, left>>
    /\ Remembers

PutBack(i) ==
    /\ it[i] = "sent" /\ ended[i] = "bad" /\ Spend({"retry"})
    /\ it' = [it EXCEPT ![i] = "unsent"]
    /\ ended' = [ended EXCEPT ![i] = "none"]
    /\ job' = [job EXCEPT ![i] = "none"]
    /\ launch' = [launch EXCEPT ![i] = 0]
    /\ UNCHANGED <<worldVars, cleanerVars>>
    /\ Remembers

Drop(i) ==
    /\ it[i] = "unsent"
    /\ \E d \in After[i] : it[d] = "dropped" \/ (it[d] = "sent" /\ ended[d] = "bad")
    /\ it' = [it EXCEPT ![i] = "dropped"]
    /\ UNCHANGED <<worldVars, ended, job, launch, cleanerVars, left>>
    /\ Remembers

-----------------------------------------------------------------------------
(* a cycle                                                                  *)

\* The drive's free space sets the tier, and the tier the age limit.
TierOf(gb) ==
    IF gb < Emergency THEN "emergency" ELSE IF gb < Floor THEN "urgent"
    ELSE IF gb < Ideal THEN "low" ELSE "ok"

Limit == CASE tier = "emergency" -> 0 [] tier = "urgent" -> Urgent [] tier = "low" -> Cold [] tier = "ok" -> Idle

Begin ==
    /\ phase = "sleep"
    /\ phase' = "active"
    /\ \E gb \in Levels : free' = gb /\ tier' = TierOf(gb)
    /\ hubs' = hub
    /\ found' = [f \in Files |-> NotWalked]
    /\ UNCHANGED <<worldVars, feederVars, act, refs, pins, rules, sure, left>>
    /\ Remembers

ReadActive ==
    /\ phase = "active"
    /\ phase' = "feeder"
    /\ act' = {i \in Items : job[i] = "running"}
    /\ UNCHANGED <<worldVars, feederVars, tier, free, hubs, refs, pins, rules, found, sure, left>>
    /\ Remembers

\* feeder_refs: the items whose files count as referenced.
\* Mutant: without the hours that a job counts after its launch.
CountsActive(i) ==
    /\ it[i] = "dropped" => i \in BehindFailure
    /\ it[i] = "sent" /\ ended[i] # "none" => EndedBadly(i)
    /\ it[i] = "sent" => i \in act
\* Mutant: a sent item counts until its end is recorded.
CountsUnrecorded(i) ==
    /\ it[i] = "dropped" => i \in BehindFailure
    /\ it[i] = "sent" /\ ended[i] # "none" => EndedBadly(i)
Counts(i) ==
    /\ it[i] = "dropped" => i \in BehindFailure
    /\ it[i] = "sent" /\ ended[i] # "none" => EndedBadly(i)
    /\ it[i] = "sent" => i \in act \/ Within(i, Hours)

ReadFeeder ==
    /\ phase = "feeder"
    /\ phase' = "walk"
    /\ LET readers == {i \in Items : Counts(i)} \cup act
       IN  /\ refs' = UNION {Named[i] : i \in readers}
           /\ pins' = UNION {Pinned[i] : i \in readers}
    /\ rules' = released
    /\ UNCHANGED <<worldVars, feederVars, tier, free, hubs, act, found, sure, left>>
    /\ Remembers

\* cycle returns, and what it has read is forgotten.
Return ==
    /\ phase' = "sleep" /\ free' = 0
    /\ hubs' = [f \in Files |-> 0] /\ act' = {} /\ refs' = {} /\ pins' = {} /\ rules' = {}
    /\ UNCHANGED <<worldVars, feederVars, tier>>

\* A file that cannot be read, a record that is half written: main goes on.
Raise ==
    /\ phase \in {"active", "feeder"} /\ Spend({"raise"})
    /\ Return
    /\ found' = [f \in Files |-> Passed] /\ UNCHANGED sure
    /\ Remembers

Class(f) ==
    IF Path[f] = "keep" THEN "keep"
    ELSE IF hubs[f] = file[f].version THEN "hub"
    ELSE IF Path[f] = "smoke" THEN "smoke"
    ELSE IF Path[f] = "build" /\ f \notin trained THEN "regen"
    ELSE "unarchived"

\* born_ns: the later of the file's creation and its modification.
\* Mutant: its modification alone.
BornVersion(f) == file[f].version
Born(f) == IF file[f].birth > file[f].version THEN file[f].birth ELSE file[f].version

ReleasedBy(records, f) == \E r \in records : f \in r.files /\ Born(f) <= r.before

Referenced(f) == f \in refs \/ (f \in pins /\ ~ReleasedBy(rules, f))

Unused(f) == now - file[f].used

Removable(f) ==
    /\ Class(f) \in {"hub", "regen", "smoke"} /\ ~Referenced(f)
    /\ IF Class(f) = "smoke" THEN Unused(f) >= Smoke
       ELSE \/ ReleasedBy(rules, f) /\ tier \in {"urgent", "emergency"}
            \/ Unused(f) >= Limit

Candidate(f) ==
    [state |-> "candidate", version |-> file[f].version,
     smoke |-> Class(f) = "smoke", idle |-> Unused(f) >= Idle]

\* os.scandir comes to the file, or does not find it.
Walk(f) ==
    /\ phase = "walk" /\ found[f] = NotWalked
    /\ found' = [found EXCEPT ![f] = IF Exists(f) /\ Removable(f) THEN Candidate(f) ELSE Passed]
    /\ UNCHANGED <<worldVars, feederVars, phase, readVars, free, sure, left>>
    /\ Remembers

\* When it has come to all of them, the largest candidate is next.
NextIs(f) ==
    /\ phase = "walk" /\ sure = {} /\ \A g \in Files : found[g] # NotWalked
    /\ Looked(f)
    /\ \A g \in Files : Looked(g) => SizeOf[g] <= SizeOf[f]

HasRoom(f) == free >= Ideal /\ ~found[f].smoke /\ ~found[f].idle

\* There is room enough: it stays.
Leave(f) ==
    /\ NextIs(f) /\ HasRoom(f)
    /\ found' = [found EXCEPT ![f] = Passed]
    /\ UNCHANGED <<worldVars, feederVars, phase, readVars, free, sure, left>>
    /\ Remembers

\* The cleaner looks at size and modification time again ...
\* Mutant: it does not.
SameAny(f) == Exists(f)
Same(f) == Exists(f) /\ file[f].version = found[f].version

LookAgain(f) ==
    /\ NextIs(f) /\ ~HasRoom(f)
    /\ \/ /\ Same(f) /\ sure' = {f} /\ UNCHANGED found
       \/ /\ ~Same(f) /\ found' = [found EXCEPT ![f] = Passed] /\ UNCHANGED sure
    /\ UNCHANGED <<worldVars, feederVars, phase, readVars, free, left>>
    /\ Remembers

\* ... and removes the file, unless it is open elsewhere.
\* Mutant: what it has removed counts as taken, not as free.
RemoveTakes(f) ==
    /\ f \in sure
    /\ \/ /\ file' = [file EXCEPT ![f] = None]
          /\ free' = free - SizeOf[f]
          /\ UNCHANGED left
       \/ /\ Spend({"open"}) /\ UNCHANGED <<file, free>>
    /\ found' = [found EXCEPT ![f] = Passed]
    /\ sure' = {}
    /\ UNCHANGED <<now, number, archived, hub, trained, released, feederVars, phase, readVars>>
    /\ Remembers
Remove(f) ==
    /\ f \in sure
    /\ \/ /\ file' = [file EXCEPT ![f] = None]
          /\ free' = free + SizeOf[f]
          /\ UNCHANGED left
       \/ /\ Spend({"open"}) /\ UNCHANGED <<file, free>>
    /\ found' = [found EXCEPT ![f] = Passed]
    /\ sure' = {}
    /\ UNCHANGED <<now, number, archived, hub, trained, released, feederVars, phase, readVars>>
    /\ Remembers

Finish ==
    /\ phase = "walk" /\ sure = {} /\ \A f \in Files : found[f] = Passed
    /\ Return
    /\ UNCHANGED <<found, sure, left>>
    /\ Remembers

-----------------------------------------------------------------------------
CycleStep ==
    \/ Begin \/ ReadActive \/ ReadFeeder \/ Finish
    \/ \E f \in Files : Walk(f) \/ Leave(f) \/ LookAgain(f) \/ Remove(f)

FeederStep == \E i \in Items : Send(i) \/ RecordEnd(i) \/ PutBack(i) \/ Drop(i)

FileStep ==
    \/ \E f \in Files : Write(f) \/ Restore(f) \/ Read(f) \/ Train(f) \/ Archive(f)
    \/ \E F \in Releasable : Release(F)

Next ==
    \/ Tick \/ FileStep \/ FeederStep \/ CycleStep \/ Raise
    \/ \E i \in Items : Admit(i) \/ End(i)

Spec == Init /\ [][Next]_vars

\* The loop goes on; nobody else has to do anything.
FairSpec == Spec /\ WF_vars(CycleStep)

-----------------------------------------------------------------------------
(* Properties                                                               *)

Statuses == {"unsent", "sent", "dropped"}
FileRecords == [state : {"file"}, version : Nat, birth : Nat, used : Nat] \cup {None}
Founds == [state : {"candidate"}, version : Nat, smoke : BOOLEAN, idle : BOOLEAN] \cup {NotWalked, Passed}
Records == [files : SUBSET Files, before : Nat]

\* Every variable keeps its type.
TypeOK ==
    /\ now \in 0..MaxTime /\ number \in Nat
    /\ file \in [Files -> FileRecords]
    /\ archived \in [Files -> SUBSET Nat] /\ hub \in [Files -> Nat] /\ hubs \in [Files -> Nat]
    /\ trained \in SUBSET Files
    /\ released \in SUBSET Records /\ rules \in SUBSET Records
    /\ it \in [Items -> Statuses] /\ ended \in [Items -> {"none", "good", "bad"}]
    /\ job \in [Items -> {"none", "queued", "running", "done", "failed"}]
    /\ launch \in [Items -> 0..MaxTime]
    /\ phase \in {"sleep", "active", "feeder", "walk"}
    /\ tier \in {"emergency", "urgent", "low", "ok"} /\ free \in Nat
    /\ act \in SUBSET Items /\ due \in SUBSET Items
    /\ refs \in SUBSET Files /\ pins \in SUBSET Files
    /\ found \in [Files -> Founds] /\ sure \in SUBSET Files
    /\ left \in [Kinds -> Nat] /\ \A k \in Kinds : left[k] <= Budget[k]

Removes(f) == Exists(f) /\ ~Exists(f)'

\* Nothing is removed that cannot be had again: what goes is in the archive as it
\* was, or a smoke test's, or a build that is no fit ("results and models the
\* archive does not hold yet: never removed"), whatever is written, restored or
\* trained while the cleaner works, unless it happens in the window.
NothingIsLost ==
    [][\A f \in Files : Removes(f) =>
          \/ Spent("window")
          \/ file[f].version \in archived[f]
          \/ Path[f] = "smoke"
          \/ Path[f] = "build" /\ f \notin trained]_vars

\* A file that an item names stays while the item needs it: the item may be sent,
\* admitted or queued between the cleaner's reads.
NamedStays ==
    [][\A i \in due : \A f \in Named[i] : ~Removes(f)]_vars

\* A release names the file, and the file is no younger.
GivenUp(f) ==
    \E r \in released : f \in r.files /\ file[f].birth <= r.before /\ file[f].version <= r.before

\* A file that is pinned for an item goes only by a release, and only if it is no
\* younger than the release: rebuilt or restored, it is not released, unless that
\* happens in the window.
PinnedStays ==
    [][\A i \in due : \A f \in Pinned[i] :
          Removes(f) => GivenUp(f) \/ file[f].version # found[f].version]_vars

\* "a failed item, and every item the feeder dropped behind it, count for grace_h
\* after the failed job's launch" (feeder_refs): the files they name are referenced.
FailedKeepsItsFiles ==
    [][ReadFeeder => \A i \in Items :
          EndedBadly(i) \/ (it[i] = "dropped" /\ i \in BehindFailure) => Named[i] \subseteq refs']_vars

-----------------------------------------------------------------------------
(* The inductive invariant                                                  *)

\* What the cleaner remembers belongs to the cycle it is in.
PhasesFit ==
    /\ phase = "sleep" => due = {} /\ \A f \in Files : found[f] = Passed
    /\ phase \in {"active", "feeder"} => \A f \in Files : found[f] = NotWalked
    /\ \A f \in Files : Looked(f) => phase = "walk"
    /\ sure # {} => phase = "walk"
    /\ rules \subseteq released

\* The archive has what the index lists, and 0 is no version.
IndexIsTrue ==
    /\ number > 0
    /\ \A f \in Files :
          /\ Exists(f) => file[f].version > 0
          /\ {hub[f], hubs[f]} \subseteq archived[f] \cup {0}

\* An end is recorded of an ended job.
EndsAreTrue == \A i \in Items : job[i] \in {"queued", "running"} => ended[i] = "none"

DueNeed == \A i \in due : Needs(i)

\* Before the feeder's state is read: a job that runs was active when the cleaner
\* looked, or is so young that it counts anyway.
RunningIsSeen ==
    phase = "feeder" => \A i \in due : it[i] = "sent" /\ job[i] = "running" => i \in act \/ Within(i, Hours)

DueIsReferenced ==
    phase = "walk" => \A i \in due : Named[i] \subseteq refs /\ Pinned[i] \subseteq pins

\* What the walk found removable still is.
CandidatesMayGo ==
    \A f \in Files : Looked(f) =>
        /\ Exists(f) /\ f \notin refs
        /\ f \in pins => \E r \in released : /\ f \in r.files /\ file[f].birth <= r.before
                                             /\ found[f].version <= r.before
        /\ \/ found[f].version \in archived[f]
           \/ Path[f] = "smoke"
           \/ Path[f] = "build" /\ (f \in trained => Spent("window"))

SureIsLooked ==
    \A f \in sure : Looked(f) /\ (file[f].version # found[f].version => Spent("window"))

IInv ==
    /\ TypeOK /\ PhasesFit /\ IndexIsTrue /\ EndsAreTrue /\ DueNeed /\ RunningIsSeen
    /\ DueIsReferenced /\ CandidatesMayGo /\ SureIsLooked

-----------------------------------------------------------------------------
\* The archive holds the file, and nobody needs it, ran lately or will run again.
Reclaimable(f) ==
    /\ Exists(f) /\ hub[f] = file[f].version /\ Path[f] # "keep"
    /\ \A i \in Items : f \in Named[i] \cup Pinned[i] =>
          it[i] = "sent" /\ job[i] \in {"done", "failed"} /\ ~Within(i, Grace) /\ ~Within(i, Hours)

\* While the drive stays low, such a file goes in the end, even when the feeder never
\* learns that its jobs have ended.
Reclaims == \A f \in Files : ~<>[](Reclaimable(f) /\ tier = "emergency")

=============================================================================
