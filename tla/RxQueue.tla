------------------------------- MODULE RxQueue -------------------------------
(***************************************************************************)
(* What the rx host scheduler promises: jobs that queue, are admitted by   *)
(* the rule of RxDecide, hold their assignment while they run and give it  *)
(* back when they end.  The supervisors of tools/rx/rx_agent.py take       *)
(* sched.lock around each decision; here a decision is one step on the     *)
(* entries of active/ and queue/, and no supervisor fails.  RxSched opens  *)
(* the step up and lets supervisors stall and die.                         *)
(*                                                                         *)
(* A job that ended may queue again, as rx rerun makes it do, so streams   *)
(* of small jobs that could starve a large one are behaviours of the       *)
(* model.                                                                  *)
(***************************************************************************)
EXTENDS RxDecide

CONSTANTS
    Jobs,    \* job keys, in their string order
    Req,     \* Req[j]: what j asks for, [cpus, gpu]
    Prio     \* Prio[j]: the priority of j's project in host.json

ASSUME JobsAssumption ==
    /\ Jobs \subseteq Nat /\ IsFiniteSet(Jobs)
    /\ Req \in [Jobs -> [cpus : Nat, gpu : Nat]] /\ Prio \in [Jobs -> Int]
    \* op_launch refuses a request that the whole host cannot hold
    /\ \A j \in Jobs : ~Impossible(Req[j])

VARIABLES
    waiting,  \* the keys of the entries of queue/, by enqueue time
    active,   \* active[j]: the assignment in j's entry of active/, {} when there is none
    late      \* the waiting jobs whose hold_after_s has passed

vars == <<waiting, active, late>>

Waiting == {waiting[i] : i \in DOMAIN waiting}
Running == {j \in Jobs : active[j] # {}}

\* j's queue entry, as one made at time enq.
EntryAt(j, enq) == [key |-> j, prio |-> Prio[j], enq |-> enq, late |-> j \in late,
                    cpus |-> Req[j].cpus, gpu |-> Req[j].gpu]

QueueEntries == {EntryAt(waiting[i], i) : i \in DOMAIN waiting}
ActiveEntries == UNION {{[key |-> j, assign |-> a] : a \in active[j]} : j \in Jobs}

\* What decide() gives j now.
Grant(j) ==
    UNION {Decide(me, running, queue) :
              me \in {q \in QueueEntries : q.key = j},
              running \in {ActiveEntries}, queue \in {QueueEntries}}

Init ==
    /\ waiting = <<>>
    /\ active = [j \in Jobs |-> {}]
    /\ late = {}

\* A supervisor writes its entry in queue/.
Enqueue(j) ==
    /\ j \notin Waiting \cup Running
    /\ waiting' = Append(waiting, j)
    /\ UNCHANGED <<active, late>>

\* j's entry of queue/ is removed.
Leave(j) ==
    /\ \E i \in DOMAIN waiting : waiting[i] = j /\ waiting' = RemoveAt(waiting, i)
    /\ late' = late \ {j}

\* Under sched.lock: decide() says yes, the entry moves from queue/ to active/.
Admit(j) ==
    /\ Grant(j) # {}
    /\ active' = [active EXCEPT ![j] = Grant(j)]
    /\ Leave(j)

\* A waiting job has been queued for more than hold_after_s: all older ones have too.
HoldPasses(j) ==
    /\ j \in Waiting \ late
    /\ \A i, k \in DOMAIN waiting : waiting[k] = j /\ i < k => waiting[i] \in late
    /\ late' = late \cup {j}
    /\ UNCHANGED <<waiting, active>>

\* A queued job is cancelled: admit() returns after sched_release.
Withdraw(j) == Leave(j) /\ UNCHANGED active

\* A job ends and sched_release removes its entry of active/.
End(j) ==
    /\ j \in Running
    /\ active' = [active EXCEPT ![j] = {}]
    /\ UNCHANGED <<waiting, late>>

Next == \E j \in Jobs :
    Enqueue(j) \/ Admit(j) \/ HoldPasses(j) \/ Withdraw(j) \/ End(j)

(***************************************************************************)
(* Every queued supervisor polls (admit() sleeps two to three seconds),    *)
(* time passes, and a job ends.  Nothing obliges a job to arrive or a user *)
(* to cancel.                                                              *)
(***************************************************************************)
Fairness == \A j \in Jobs :
    WF_vars(Admit(j)) /\ WF_vars(HoldPasses(j)) /\ WF_vars(End(j))

Spec == Init /\ [][Next]_vars /\ Fairness

-----------------------------------------------------------------------------
(***************************************************************************)
(* Properties                                                              *)
(***************************************************************************)
Assignments == [cpus : 0..Cpus, gpu : [GPUs -> 0..Whole]]

\* The state has its type: no job waits twice, and only waiting jobs are late.
TypeOK ==
    /\ waiting \in Seq(Jobs)
    /\ Cardinality(Waiting) = Len(waiting)
    /\ active \in [Jobs -> {{}} \cup {{a} : a \in Assignments}]
    /\ late \subseteq Waiting
    /\ Waiting \cap Running = {}

\* The assignments of the running jobs never add up to more than the host
\* offers, on the scalar resources and on each GPU (rx_agent.py decide: each
\* admission fits in the pool left by the active entries).
WithinCapacity ==
    LET pool == PoolAfter(ActiveEntries)
    IN  pool.cpus >= 0 /\ \A g \in GPUs : pool.gpu[g] >= 0

\* The queue never wedges: on an idle host some queued job is admitted,
\* whatever holds and priorities are in force.
NeverWedged ==
    Running = {} /\ Waiting # {} => \E j \in Waiting : Grant(j) # {}

FitsNow(j) == Fit(Req[j], PoolAfter(ActiveEntries)) # {}

IsHead(j) == j \in Waiting /\ \A q \in QueueEntries :
    q.key = j \/ Before(EntryAt(j, CHOOSE i \in DOMAIN waiting : waiting[i] = j), q)

\* The head of the queue is never overtaken to its harm ("a younger job may
\* start in resources an older one cannot use yet, but never if that would stop
\* an older job that fits now"): if it fits before another job starts then it
\* still fits after.
HeadKeepsItsFit ==
    [][\A j, k \in Jobs : IsHead(k) /\ FitsNow(k) /\ j # k /\ j \in Running' \ Running
                          => FitsNow(k)']_vars

\* A lower-priority job never takes what a waiting higher-priority job needs:
\* whichever running jobs end next, the higher one fits in what they leave
\* exactly when it would have fitted had the lower one not started.
FitsOnce(k, ended, held) ==
    LET remaining == UNION {{[key |-> i, assign |-> a] : a \in held[i]} : i \in Jobs \ ended}
    IN  Fit(Req[k], PoolAfter(remaining)) # {}

HigherKeepsItsPlace ==
    [][\A j \in Running' \ Running, k \in Waiting :
          Prio[k] > Prio[j] =>
            \A ended \in SUBSET Running :
               FitsOnce(k, ended, active) => FitsOnce(k, ended, active')]_vars

\* No job of the top priority starves, however many younger or smaller jobs
\* keep arriving: it is admitted or withdrawn.
TopPriorityServed == \A j \in Jobs :
    (\A k \in Jobs : Prio[k] <= Prio[j]) => (j \in Waiting ~> j \notin Waiting)
=============================================================================
