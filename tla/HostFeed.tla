------------------------------ MODULE HostFeed ------------------------------
(***************************************************************************)
(* The feeder that keeps the host busy (outputs/host_ops/hostfeed2.py): it *)
(* sends the items of a list as rx jobs, each after the items it depends   *)
(* on, takes GPU jobs back when the card cannot hold them, and runs items  *)
(* that ended badly again.  It is itself a job of the host: it may be      *)
(* killed at any point and relaunched (watchdog.py), and carries on from   *)
(* the state it saved.                                                     *)
(*                                                                         *)
(* It works in polls.  A poll starts with an overview of rx, and decides   *)
(* on it while jobs go on: what it reads of the host afterwards is read    *)
(* job by job.  Jobs move as RxLifecycle says.                             *)
(*                                                                         *)
(* Budget bounds what need not happen:                                     *)
(*   "fails"   jobs that end badly        "lost"    jobs that are lost     *)
(*   "cancels" jobs a person cancels      "backs"   jobs the feeder takes  *)
(*   "crash"   the feeder is killed                 back                   *)
(*   "full"    a save fails: the drive is full                             *)
(*   "refused" a launch fails             "deaf"    a cancel's answer is   *)
(*   "unclear" a launch's outcome is not known      lost                   *)
(*   "any"     all but "fails", "full" and "deaf", together                *)
(***************************************************************************)
EXTENDS Naturals, FiniteSets, FiniteSetsExt

CONSTANTS
    Items,
    Deps,     \* Deps[n]: the items n waits for
    MaxJobs,  \* job ids, in the order they are made
    Retries,
    Budget,
    None

Jobs == 1 .. MaxJobs

ASSUME ConstantsAssumption ==
    /\ Deps \in [Items -> SUBSET Items]
    /\ MaxJobs \in Nat /\ Retries \in Nat
    /\ Budget \in [{"fails", "lost", "cancels", "backs", "crash", "full", "refused",
                    "unclear", "deaf", "any"} -> Nat]
    /\ None \notin Items /\ None \notin Jobs

VARIABLES
    state,    \* the jobs as rx status shows them
    asked,    \* jobs with a cancel request
    gone,     \* lost jobs whose last heartbeat is older than --lost-grace
    name,     \* the item a job id was made for
    at,       \* where the feeder is in its poll
    st, disk, \* STATE in memory and as saved
    checked,  \* whether this feeder has looked for orphans
    ov,       \* the jobs in its overview
    todo,     \* items of this poll it has not come to
    cur,      \* the job it launches or cancels
    resting,  \* items whose next run is not due
    left      \* what is left of the budget

Host == INSTANCE RxLifecycle

host == <<state, asked, gone>>
feeder == <<at, st, disk, checked, ov, todo, cur, resting>>
vars == <<host, name, feeder, left>>

\* A job rx calls lost may still run while its heartbeat is young.
View == [j \in Jobs |-> IF state[j] = "lost" /\ j \notin gone THEN "stalled" ELSE state[j]]

NoView == [j \in Jobs |-> "none"]

NoRecord == [sent |-> [n \in Items |-> None], shed |-> {}, dropped |-> {},
             retried |-> [n \in Items |-> {}]]

Init ==
    /\ state = [j \in Jobs |-> "none"] /\ asked = {} /\ gone = {}
    /\ name = [j \in Jobs |-> None]
    /\ at = "poll" /\ st = NoRecord /\ disk = NoRecord /\ checked = FALSE
    /\ ov = NoView /\ todo = {} /\ cur = None /\ resting = {}
    /\ left = Budget

Free == {"fails", "full", "deaf"}

Spent(k) == [left EXCEPT ![k] = @ - 1, !.any = IF k \in Free THEN @ ELSE @ - 1]

May(k) == left[k] > 0 /\ (k \notin Free => left.any > 0)

Spend(k) == May(k) /\ left' = Spent(k)

\* save(): a full drive leaves the old file and the state goes on in memory.
SaveOn(record, budget) ==
    /\ st' = record
    /\ \/ disk' = record /\ left' = budget
       \/ budget.full > 0 /\ left' = [budget EXCEPT !.full = @ - 1] /\ UNCHANGED disk

Save(record) == SaveOn(record, left)

\* op_cancel on the host: nothing for a job that ended, at once for a lost one.
CancelOp(j) ==
    \/ state[j] \in Host!Final /\ UNCHANGED host
    \/ state[j] \in Host!Active /\ asked' = asked \cup {j} /\ UNCHANGED <<state, gone>>
    \/ state[j] = "lost" /\ Host!Cancel(j) /\ asked' = asked \cup {j} /\ UNCHANGED gone
-----------------------------------------------------------------------------
(***************************************************************************)
(* The start of a poll: overview, orphans, adoption.                       *)
(***************************************************************************)
Look ==
    /\ at = "poll"
    /\ ov' = View
    /\ at' = "adopt"
    /\ UNCHANGED <<host, name, st, disk, checked, todo, cur, resting, left>>

\* Mutant: nobody looks for orphans.
OrphansNone == {n \in Items : FALSE}

\* repair_orphans, once: a job recorded as sent that rx has never heard of.
Orphans ==
    {n \in Items : /\ ~checked
                   /\ st.sent[n] \in Jobs
                   /\ ov[st.sent[n]] = "none" /\ state[st.sent[n]] = "none"}

\* The newest job of an item in the overview.
JobsOf(n) == {j \in Jobs : name[j] = n /\ ov[j] # "none"}

\* Mutant: only a job that runs is adopted.
AdoptableRunning(n) ==
    {j \in JobsOf(n) : j = Max(JobsOf(n)) /\ j \notin st.shed /\ ov[j] = "running"}

\* Jobs an item may be taken to have been sent as.
Adoptable(n) ==
    {j \in JobsOf(n) : /\ j = Max(JobsOf(n))
                       /\ j \notin st.shed
                       /\ ov[j] \notin {"failed", "cancelled", "error"}}

Adopt ==
    LET found(n) == IF st.sent[n] \notin {None} /\ n \notin Orphans THEN {st.sent[n]}
                    ELSE IF n \in st.dropped THEN {} ELSE Adoptable(n)
        sent == [n \in Items |-> IF found(n) = {} THEN None ELSE CHOOSE j \in found(n) : TRUE]
    IN  /\ at = "adopt"
        /\ IF sent = st.sent THEN UNCHANGED <<st, disk, left>> ELSE Save([st EXCEPT !.sent = sent])
        /\ checked' = TRUE
        /\ at' = "manage"
        /\ UNCHANGED <<host, name, ov, todo, cur, resting>>
-----------------------------------------------------------------------------
(***************************************************************************)
(* Jobs taken back: withdrawn from rx's queue (go_back) or shed.           *)
(***************************************************************************)
\* go_back: the job was queued in the overview and still is.
Withdraw(j) ==
    /\ at = "manage"
    /\ \E n \in Items : st.sent[n] = j
    /\ ov[j] = "queued" /\ state[j] = "queued"
    /\ Spend("backs")
    /\ at' = "calling" /\ cur' = j
    /\ UNCHANGED <<host, name, st, disk, checked, ov, todo, resting>>

\* The card cannot hold what runs on it: the newest GPU run goes, unlooked.
Shed(j) ==
    /\ at = "manage"
    /\ ov[j] \in {"running", "finishing", "stalled"}
    /\ Spend("backs")
    /\ at' = "calling" /\ cur' = j
    /\ UNCHANGED <<host, name, st, disk, checked, ov, todo, resting>>

CancelCall ==
    /\ at = "calling"
    /\ CancelOp(cur)
    /\ at' = "record"
    /\ UNCHANGED <<name, st, disk, checked, ov, todo, cur, resting, left>>

\* The call raised: nothing is recorded, whatever it did on the host.
CancelUnanswered ==
    /\ at = "calling"
    /\ Spend("deaf")
    /\ CancelOp(cur) \/ UNCHANGED host
    /\ at' = "manage" /\ cur' = None
    /\ UNCHANGED <<name, st, disk, checked, ov, todo, resting>>

\* Its item goes back unsent; after withdraw_late the overview is taken anew.
Record ==
    /\ at = "record"
    /\ Save([st EXCEPT !.shed = @ \cup {cur},
                       !.sent = [n \in Items |-> IF @[n] = cur THEN None ELSE @[n]]])
    /\ ov' \in {ov, View}
    /\ at' = "manage" /\ cur' = None
    /\ UNCHANGED <<host, name, checked, todo, resting>>

-----------------------------------------------------------------------------
(***************************************************************************)
(* Retries and drops.                                                      *)
(***************************************************************************)
Bad == {"failed", "cancelled", "lost", "error"}

\* retry_back(d, s): the item goes back for another run now ...
GoesBack(d, s) ==
    /\ d \notin st.dropped /\ s # "cancelled"
    /\ st.sent[d] # None
    /\ st.sent[d] \notin st.shed \cup st.retried[d]
    /\ Cardinality(st.retried[d]) < Retries
    /\ ov[st.sent[d]] # "none"

\* ... or waits for the run it was put back for.
IsBack(d, s) ==
    /\ d \notin st.dropped /\ s # "cancelled"
    /\ st.sent[d] = None \/ st.sent[d] \in st.retried[d] \ st.shed

\* Mutant: the item is unset before its run is written down.
PutBackUnset(record, back) ==
    [record EXCEPT !.sent = [n \in Items |-> IF n \in back THEN None ELSE @[n]],
                   !.retried = [n \in Items |-> IF n \in back THEN @[n] \cup {None} ELSE @[n]]]

PutBack(record, back) ==
    [record EXCEPT !.sent = [n \in Items |-> IF n \in back THEN None ELSE @[n]],
                   !.retried = [n \in Items |-> IF n \in back THEN @[n] \cup {record.sent[n]}
                                                               ELSE @[n]]]

Unsent(record) == {n \in Items \ record.dropped : record.sent[n] = None}

\* Every bad end in the overview is looked at; then the items not sent are gone through,
\* if there are any.
Scan ==
    LET back == {n \in Items : /\ st.sent[n] # None
                               /\ st.sent[n] \notin st.shed
                               /\ ov[st.sent[n]] \in Bad
                               /\ GoesBack(n, ov[st.sent[n]])}
        new == PutBack(st, back)
    IN  /\ at = "manage"
        /\ IF back = {} THEN UNCHANGED <<st, disk, left>> ELSE Save(new)
        /\ resting' = resting \cup back
        /\ todo' = Unsent(new)
        /\ at' = IF Unsent(new) = {} THEN "ended" ELSE "items"
        /\ UNCHANGED <<host, name, checked, ov, cur>>

\* Mutant: what is not sent any more is judged by its last job.
ItemStateLast(d) ==
    IF st.sent[d] = None /\ JobsOf(d) # {} THEN ov[Max(JobsOf(d))]
    ELSE IF st.sent[d] = None THEN (IF d \in st.dropped THEN "failed" ELSE "pending")
    ELSE IF ov[st.sent[d]] # "none" THEN ov[st.sent[d]] ELSE View[st.sent[d]]

\* job_state: an item not sent is pending (or failed, once dropped); a job the overview
\* does not have is asked for.
ItemState(d) ==
    IF st.sent[d] = None THEN (IF d \in st.dropped THEN "failed" ELSE "pending")
    ELSE IF ov[st.sent[d]] # "none" THEN ov[st.sent[d]] ELSE View[st.sent[d]]

BadDeps(n) == {d \in Deps[n] : ItemState(d) \in Bad}

Turn(n) == at = "items" /\ n \in todo \ resting

Backs(n) == {d \in BadDeps(n) : GoesBack(d, ItemState(d))}

Waits(n) == \A d \in BadDeps(n) : GoesBack(d, ItemState(d)) \/ IsBack(d, ItemState(d))

\* Its failed deps run again first ...
Defer(n) ==
    /\ Turn(n)
    /\ BadDeps(n) # {} /\ Waits(n)
    /\ IF Backs(n) = {} THEN UNCHANGED <<st, disk, left>> ELSE Save(PutBack(st, Backs(n)))
    /\ resting' = resting \cup Backs(n)
    /\ todo' = todo \ {n}
    /\ UNCHANGED <<host, name, at, checked, ov, cur>>

\* ... or it is dropped.
Drop(n) ==
    /\ Turn(n)
    /\ ~Waits(n)
    /\ Save([PutBack(st, Backs(n)) EXCEPT !.dropped = @ \cup {n}])
    /\ resting' = resting \cup Backs(n)
    /\ todo' = todo \ {n}
    /\ UNCHANGED <<host, name, at, checked, ov, cur>>
-----------------------------------------------------------------------------
(***************************************************************************)
(* Sends.  Whether an item fits is open: it may wait for any poll.         *)
(***************************************************************************)
FreeIds == {j \in Jobs : name[j] = None}

\* Mutant: it is enough that the deps have ended.
ReadyEnded(n) == \A d \in Deps[n] : ItemState(d) \in Bad \cup {"done"}

Ready(n) == \A d \in Deps[n] : ItemState(d) = "done"

\* submit: recorded first.
Send(n) ==
    /\ Turn(n)
    /\ Ready(n)
    /\ FreeIds # {}
    /\ cur' = Min(FreeIds)
    /\ name' = [name EXCEPT ![Min(FreeIds)] = n]
    /\ Save([st EXCEPT !.sent[n] = Min(FreeIds)])
    /\ todo' = todo \ {n}
    /\ at' = "launch"
    /\ UNCHANGED <<host, checked, ov, resting>>

LaunchCall ==
    /\ at = "launch"
    /\ Host!Launch(cur)
    /\ at' = "items" /\ cur' = None
    /\ UNCHANGED <<asked, gone, name, st, disk, checked, ov, todo, resting, left>>

\* It raised, and rx says there is no such job: the record is taken back.
LaunchRefused ==
    /\ at = "launch"
    /\ May("refused")
    /\ SaveOn([st EXCEPT !.sent[name[cur]] = None], Spent("refused"))
    /\ at' = "items" /\ cur' = None
    /\ UNCHANGED <<host, name, checked, ov, todo, resting>>

\* It raised, and so did the question whether the job exists: it is kept as sent.
LaunchUnclear ==
    /\ at = "launch"
    /\ Spend("unclear")
    /\ Host!Launch(cur) \/ UNCHANGED state
    /\ at' = "items" /\ cur' = None
    /\ UNCHANGED <<asked, gone, name, st, disk, checked, ov, todo, resting>>

\* The rest waits for the next poll: nothing fits, or the feeder sends nothing (pressure, a
\* queued job of its own, the disk).
EndPoll ==
    /\ at = "items"
    /\ at' = "poll" /\ todo' = {} /\ ov' = NoView
    /\ Save(st)
    /\ UNCHANGED <<host, name, checked, cur, resting>>
-----------------------------------------------------------------------------
(***************************************************************************)
(* The feeder as a job: killed, relaunched.                                *)
(***************************************************************************)
\* With every item handled it lingers, polling, and ends; one that was killed or ended is launched
\* again (watchdog.py).
Down == at \in {"down", "ended"}

Crash ==
    /\ ~Down
    /\ Spend("crash")
    /\ at' = "down"
    /\ st' = disk /\ ov' = NoView /\ todo' = {} /\ cur' = None /\ checked' = FALSE
    /\ UNCHANGED <<host, name, disk, resting>>

Relaunch ==
    /\ Down
    /\ at' = "poll"
    /\ st' = disk /\ ov' = NoView /\ todo' = {} /\ cur' = None /\ checked' = FALSE
    /\ UNCHANGED <<host, name, disk, resting, left>>
-----------------------------------------------------------------------------
(***************************************************************************)
(* The host and time.                                                      *)
(***************************************************************************)
Goes(j) ==
    /\ Host!Queue(j) \/ Host!Start(j) \/ Host!Wind(j)
    /\ UNCHANGED <<asked, gone, name, feeder, left>>

\* A command ends by itself, or is killed because it was asked to stop.
Ends(j) ==
    /\ \/ Host!Finish(j) \/ Host!Fail(j)
       \/ state[j] = "queued" /\ Host!Cancel(j)
    /\ state'[j] = "cancelled" => j \in asked
    /\ IF state'[j] \in {"failed", "error"} THEN Spend("fails") ELSE UNCHANGED left
    /\ UNCHANGED <<asked, gone, name, feeder>>

Lost(j) ==
    /\ Host!Lose(j)
    /\ Spend("lost")
    /\ UNCHANGED <<asked, gone, name, feeder>>

GraceOver(j) ==
    /\ state[j] = "lost" /\ j \notin gone
    /\ gone' = gone \cup {j}
    /\ UNCHANGED <<state, asked, name, feeder, left>>

PersonCancels(j) ==
    /\ state[j] \in Host!Active
    /\ Spend("cancels")
    /\ CancelOp(j)
    /\ UNCHANGED <<name, feeder>>

\* --retry-after-min has passed.
Rested(n) ==
    /\ n \in resting
    /\ resting' = resting \ {n}
    /\ UNCHANGED <<host, name, at, st, disk, checked, ov, todo, cur, left>>
-----------------------------------------------------------------------------
FeederStep ==
    \/ Look \/ Adopt \/ CancelCall \/ CancelUnanswered \/ Record \/ Scan
    \/ LaunchCall \/ LaunchRefused \/ LaunchUnclear \/ EndPoll \/ Crash \/ Relaunch
    \/ \E j \in Jobs : Withdraw(j) \/ Shed(j)
    \/ \E n \in Items : Defer(n) \/ Drop(n) \/ Send(n)

HostStep ==
    \/ \E j \in Jobs : Goes(j) \/ Ends(j) \/ Lost(j) \/ GraceOver(j) \/ PersonCancels(j)
    \/ \E n \in Items : Rested(n)

Next == FeederStep \/ HostStep

Spec == Init /\ [][Next]_vars

\* The feeder goes through its polls and is relaunched, jobs come to their end, time passes.
\* An item that is tried again and again fits in the end: what holds the host's resources ends.
Fairness ==
    /\ WF_vars(Look \/ Adopt \/ CancelCall \/ Record \/ Scan \/ LaunchCall
               \/ EndPoll \/ Relaunch)
    /\ \A j \in Jobs : WF_vars(Goes(j) \/ Ends(j)) /\ WF_vars(GraceOver(j))
    /\ \A n \in Items : /\ WF_vars(Rested(n))
                        /\ SF_vars(Defer(n) \/ Drop(n) \/ Send(n))

FairSpec == Spec /\ Fairness
-----------------------------------------------------------------------------
(***************************************************************************)
(* Properties.                                                             *)
(***************************************************************************)
Record0 == [sent : [Items -> Jobs \cup {None}], shed : SUBSET Jobs, dropped : SUBSET Items,
            retried : [Items -> SUBSET Jobs]]

States == {"none", "lost"} \cup Host!Active \cup Host!Final

\* Types; what the feeder has in hand is a job made for an item.
TypeOK ==
    /\ state \in [Jobs -> States] /\ asked \subseteq Jobs /\ gone \subseteq Jobs
    /\ name \in [Jobs -> Items \cup {None}]
    /\ at \in {"poll", "adopt", "manage", "calling", "record", "items", "launch",
               "ended", "down"}
    /\ st \in Record0 /\ disk \in Record0 /\ checked \in BOOLEAN
    /\ ov \in [Jobs -> States \cup {"stalled"}]
    /\ todo \subseteq Items /\ resting \subseteq Items
    /\ cur \in Jobs \cup {None} /\ (cur # None => name[cur] \in Items)
    /\ left \in [DOMAIN Budget -> Nat]

Wanted(j) == state[j] \in Host!Active /\ j \notin asked

\* An item never has two jobs at once that nobody asked to stop: a launch of unknown outcome,
\* a feeder killed between record and launch, one save that failed do not make it send twice.
OneWantedJob ==
    \A j, k \in Jobs : Wanted(j) /\ Wanted(k) /\ name[j] = name[k] => j = k

\* While an item's job is on the host, every item it depends on has a job that is done, and none
\* that is (again) under way.
RunsAfterDeps ==
    \A j \in Jobs : state[j] \in Host!Active =>
        \A d \in Deps[name[j]] :
            /\ \E k \in Jobs : name[k] = d /\ state[k] = "done"
            /\ ~\E k \in Jobs : name[k] = d /\ Wanted(k)

\* An item is settled: its job is done or ended badly with its retries spent or cancelled, or it was
\* dropped.
Settled(n) ==
    \/ n \in st.dropped
    \/ st.sent[n] # None /\ state[st.sent[n]] \in Host!Final

\* Unless a job is lost for good or the outcome of a launch never known, every item is settled in the
\* end and stays so, through crashes of the feeder between any two steps.
EveryItemSettled ==
    <>(gone # {} \/ left.unclear < Budget.unclear) \/ \A n \in Items : <>[]Settled(n)

\* An item is dropped only behind an item that never came to be done (docstring, 10: "the items
\* behind it wait for its new run and drop only when its retries are spent").
DroppedBehindFailure ==
    \A n \in st.dropped : \E d \in Deps[n] :
        d \in st.dropped \/ ~\E j \in Jobs : name[j] = d /\ state[j] = "done"

\* A job that is lost for good is run again while its item has retries left (docstring, 10:
\* "failed, error, lost past --lost-grace").
LostRunsAgain ==
    \A j \in Jobs : j \in gone /\ Retries > 0 ~> \E k \in Jobs : k > j /\ name[k] = name[j]
                                                              /\ state[k] # "none"
=============================================================================
