------------------------------- MODULE RxSched -------------------------------
(***************************************************************************)
(* The job side of tools/rx/rx_agent.py on one host: rpc sessions that     *)
(* launch and cancel jobs, the detached supervisors they spawn, and the    *)
(* files both work on -- spec.json/status.json, heartbeat.json,            *)
(* cancel.request, the entries of queue/ and active/, supervisor.lock and  *)
(* sched.lock.  There is no scheduler process: a queued supervisor takes   *)
(* sched.lock, reads the entries whose job still beats, and admits itself. *)
(*                                                                         *)
(* What can go wrong is named by Faults:                                   *)
(*   "crash"   a supervisor dies between any two of its steps              *)
(*   "reboot"  every process dies and every heartbeat predates the boot    *)
(*   "lapse"   a live supervisor goes LOST_AFTER_S without a beat, or      *)
(*             takes that long to start, or keeps a lock that long         *)
(*   "write"   a status write raises while the command runs                *)
(*                                                                         *)
(* Time is abstracted to what the code compares it with: a heartbeat is    *)
(* fresh or stale (LOST_AFTER_S, or older than the boot); a launch without *)
(* one is new, settled (30 s) or overdue (LOST_AFTER_S); and whether an    *)
(* entry has waited hold_after_s is a free choice of each decision.  The   *)
(* host's capacity is fixed, so a request that launch accepted stays       *)
(* possible.                                                               *)
(***************************************************************************)
EXTENDS Integers, FiniteSets

CONSTANTS
    Jobs,       \* job ids
    Sups,       \* supervisor processes, bounding how many are ever spawned
    Sessions,   \* rpc sessions running at a time
    GPUs, Whole,
    Assigns,    \* every assignment decide() may make: records with a gpu field
    Decision(_, _, _, _, _),
                \* Decision(j, n, held, queued, late): the assignment, at most one,
                \* of job j enqueued at n, beside the holdings and queue it reads
    Faults,
    KillOnClose,  \* the children die with their supervisor (a Windows Job Object)
    TimeLimited,  \* jobs with a timeout_s
    Respawn,      \* clients repeat a launch whose job does not show
    Free, NoJob   \* a lock nobody holds, the job of a process not yet spawned

Ticks == 1..Cardinality(Sups)
Holdings == [Jobs -> {{}} \cup {{a} : a \in Assigns}]

ASSUME ConstantsAssumption ==
    /\ IsFiniteSet(Sups)
    /\ Whole \in Nat
    /\ \A a \in Assigns : a.gpu \in [GPUs -> 0..Whole]
    /\ KillOnClose \in BOOLEAN /\ Respawn \in BOOLEAN
    /\ TimeLimited \subseteq Jobs

\* The rule never gives out GPU shares that a holding beside it has taken.
ASSUME DecisionAssumption ==
    \A j \in Jobs, n \in {0} \cup Ticks, held \in Holdings, queued \in [Jobs -> {0} \cup Ticks],
       late \in SUBSET Jobs :
         LET given == Decision(j, n, held, queued, late)
         IN  /\ given \in {{}} \cup {{a} : a \in Assigns}
             /\ \A a \in given, k \in Jobs : \A b \in held[k], g \in GPUs :
                   a.gpu[g] + b.gpu[g] <= Whole

ASSUME NamesAssumption == Free \notin Sups /\ NoJob \notin Jobs

ActiveStates == {"launching", "queued", "running", "finishing"}
TerminalStates == {"done", "failed", "cancelled", "error"}

VARIABLES
    \* the job's directory
    status,     \* status.json, "none" before the directory exists
    asked,      \* jobs with a cancel.request
    beat,       \* heartbeat.json: "fresh" or "stale"; while there is none, how long
                \* ago the launch was: "new", "settled" or "overdue"
    \* the scheduler's directories and the locks
    queued,     \* queued[j]: the enqueue tick in j's entry of queue/, 0 without one
    held,       \* held[j]: the assignment in j's entry of active/, {} without one
    schedLock,  \* the supervisor holding sched.lock across several steps, or Free
    supLock,    \* supLock[j]: the supervisor holding j's supervisor.lock, or Free
    \* the processes
    job,        \* job[s]: the job s was spawned for
    pc,         \* pc[s]: where s is
    tick,       \* tick[s]: queued_at of s, 0 before
    grant,      \* grant[s]: the assignment s was admitted with
    child,      \* child[s]: its command: "none", "live", "left" (the command ended,
                \* background processes of it did not) or "dead"
    killed,     \* supervisors that killed their command
    rpc         \* rpc[r]: the step and job of a session

files == <<status, asked, beat>>
sched == <<queued, held, schedLock, supLock>>
procs == <<job, pc, tick, grant, child, killed>>
vars == <<files, sched, procs, rpc>>

Labels == {"none", "spawned", "owner", "announced", "waiting", "asking", "refused", "withdraw",
           "withdrawn", "granted", "entered", "building", "starting", "started",
           "running", "ended",
           "released", "finishing", "raising", "cleanup", "closing", "exited", "crashed"}
Alive == Labels \ {"none", "exited", "crashed"}
Owning == Alive \ {"spawned"}
Beating == Owning \ {"owner", "announced"}

Idle == [at |-> "idle", job |-> NoJob]

Init ==
    /\ status = [j \in Jobs |-> "none"]
    /\ asked = {}
    /\ beat = [j \in Jobs |-> "new"]
    /\ queued = [j \in Jobs |-> 0]
    /\ held = [j \in Jobs |-> {}]
    /\ schedLock = Free
    /\ supLock = [j \in Jobs |-> Free]
    /\ job = [s \in Sups |-> NoJob]
    /\ pc = [s \in Sups |-> "none"]
    /\ tick = [s \in Sups |-> 0]
    /\ grant = [s \in Sups |-> {}]
    /\ child = [s \in Sups |-> "none"]
    /\ killed = {}
    /\ rpc = [r \in Sessions |-> Idle]

\* job_status(): an active state whose heartbeat, or launch without one, is too
\* old is reported as lost.
Lost(j) == status[j] \in ActiveStates /\ beat[j] \in {"stale", "overdue"}
Derived(j) == IF Lost(j) THEN "lost" ELSE status[j]

\* A supervisor of j that may still beat for it.
Keeper(j) == \E s \in Sups : job[s] = j /\ pc[s] \in Beating
\* One that has been asked for and has not shown itself.
Expected(j) == \/ \E s \in Sups : job[s] = j /\ pc[s] \in {"spawned", "owner", "announced"}
               \/ \E r \in Sessions : rpc[r].job = j /\ rpc[r].at \in {"spawn", "respawn"}
-----------------------------------------------------------------------------
(***************************************************************************)
(* Sessions: op_launch and op_cancel.                                      *)
(***************************************************************************)
Call(r, at, j) == rpc' = [rpc EXCEPT ![r] = [at |-> at, job |-> j]]
Return(r) == rpc' = [rpc EXCEPT ![r] = Idle]

\* op_launch finds no directory of this id and prepares one under a temporary name.
LaunchNew(r, j) ==
    /\ rpc[r] = Idle
    /\ status[j] = "none"
    /\ Call(r, "publish", j)
    /\ UNCHANGED <<files, sched, procs>>

\* It renames it into place; when another session was faster the job exists.
Publish(r) ==
    LET j == rpc[r].job
    IN  /\ rpc[r].at = "publish"
        /\ IF status[j] = "none"
           THEN status' = [status EXCEPT ![j] = "launching"] /\ Call(r, "spawn", j)
           ELSE Return(r) /\ UNCHANGED status
        /\ UNCHANGED <<asked, beat, sched, procs>>

\* A retried op_launch spawns again when the first supervisor never showed.
LaunchAgain(r, j) ==
    /\ Respawn
    /\ rpc[r] = Idle
    /\ Derived(j) = "launching"
    /\ beat[j] = "settled"
    /\ Call(r, "respawn", j)
    /\ UNCHANGED <<files, sched, procs>>

Spawn(r) ==
    /\ rpc[r].at \in {"spawn", "respawn"}
    /\ \E s \in Sups :
          /\ pc[s] = "none"
          /\ pc' = [pc EXCEPT ![s] = "spawned"]
          /\ job' = [job EXCEPT ![s] = rpc[r].job]
    /\ Return(r)
    /\ UNCHANGED <<files, sched, tick, grant, child, killed>>

\* Mutant: op_cancel clears every job it is asked to cancel.
CancelOutright(r, j) ==
    /\ rpc[r] = Idle
    /\ Derived(j) \in ActiveStates \cup {"lost"}
    /\ Call(r, "condemn", j)
    /\ UNCHANGED <<files, sched, procs>>

\* op_cancel looks at the state; a final one is left alone.
Cancel(r, j) ==
    /\ rpc[r] = Idle
    /\ Derived(j) \in ActiveStates \cup {"lost"}
    /\ Call(r, IF Lost(j) THEN "condemn" ELSE "ask", j)
    /\ UNCHANGED <<files, sched, procs>>

\* It leaves a request for the supervisor; a job it saw lost it also clears itself.
Request(r) ==
    /\ rpc[r].at \in {"ask", "condemn"}
    /\ asked' = asked \cup {rpc[r].job}
    /\ IF rpc[r].at = "condemn" THEN Call(r, "clear", rpc[r].job) ELSE Return(r)
    /\ UNCHANGED <<status, beat, sched, procs>>

\* Mutant: the derived state is recorded.
RecordLost(r) ==
    /\ rpc[r].at = "clear"
    /\ status' = [status EXCEPT ![rpc[r].job] = "lost"]
    /\ Call(r, "unlock", rpc[r].job)
    /\ UNCHANGED <<asked, beat, sched, procs>>

ClearLost(r) ==
    /\ rpc[r].at = "clear"
    /\ status' = [status EXCEPT ![rpc[r].job] = "cancelled"]
    /\ Call(r, "unlock", rpc[r].job)
    /\ UNCHANGED <<asked, beat, sched, procs>>

\* sched_release: under sched.lock, both entries of the job go.
Release(j) ==
    /\ schedLock = Free
    /\ queued' = [queued EXCEPT ![j] = 0]
    /\ held' = [held EXCEPT ![j] = {}]
    /\ UNCHANGED <<schedLock, supLock>>

ReleaseLost(r) ==
    /\ rpc[r].at = "unlock"
    /\ Release(rpc[r].job)
    /\ Return(r)
    /\ UNCHANGED <<files, procs>>

\* op_overview lists the entries without sched.lock; live_entries finds one whose job
\* no longer beats,
Overview(r, j) ==
    /\ rpc[r] = Idle
    /\ beat[j] # "fresh"
    /\ queued[j] # 0 \/ held[j] # {}
    /\ Call(r, "prune", j)
    /\ UNCHANGED <<files, sched, procs>>

\* and then removes it.
Prune(r) ==
    /\ rpc[r].at = "prune"
    /\ \/ queued' = [queued EXCEPT ![rpc[r].job] = 0] /\ UNCHANGED held
       \/ held' = [held EXCEPT ![rpc[r].job] = {}] /\ UNCHANGED queued
    /\ Return(r)
    /\ UNCHANGED <<files, schedLock, supLock, procs>>

\* A session dies with its connection, or gives up on sched.lock.
SessionEnds(r) ==
    /\ rpc[r] # Idle
    /\ Return(r)
    /\ UNCHANGED <<files, sched, procs>>
-----------------------------------------------------------------------------
(***************************************************************************)
(* A process that is gone remembers nothing; the assignment its command    *)
(* was started with lasts as long as the processes of the command do.      *)
(***************************************************************************)
Busy(s) == child[s] \in {"live", "left"}

Forget(Dying) ==
    /\ tick' = [s \in Sups |-> IF s \in Dying THEN 0 ELSE tick[s]]
    /\ killed' = killed \ Dying
    /\ grant' = [s \in Sups |-> IF s \in Dying /\ ~Busy(s)' THEN {} ELSE grant[s]]

\* The children of Dying end with them when a Job Object holds them.
Orphan(Dying) ==
    child' = [s \in Sups |-> IF KillOnClose /\ s \in Dying /\ Busy(s) THEN "dead" ELSE child[s]]

(***************************************************************************)
(* Supervisors: supervise_main, Supervisor.run, admit and run_child.       *)
(***************************************************************************)
Goto(s, label) == pc' = [pc EXCEPT ![s] = label]
Set(s, state) == status' = [status EXCEPT ![job[s]] = state]

\* Mutant: a supervisor does not look for another one.
OwnUnlocked(s) ==
    /\ pc[s] = "spawned"
    /\ status[job[s]] \notin TerminalStates
    /\ supLock' = [supLock EXCEPT ![job[s]] = s]
    /\ Goto(s, "owner")
    /\ UNCHANGED <<files, queued, held, schedLock, job, tick, grant, child, killed, rpc>>

\* Mutant: a supervisor does not look at the status.
OwnRegardless(s) ==
    /\ pc[s] = "spawned"
    /\ supLock[job[s]] = Free
    /\ supLock' = [supLock EXCEPT ![job[s]] = s]
    /\ Goto(s, "owner")
    /\ UNCHANGED <<files, queued, held, schedLock, job, tick, grant, child, killed, rpc>>

\* supervise_main: supervisor.lock without blocking, then a look at the status.
Own(s) ==
    /\ pc[s] = "spawned"
    /\ supLock[job[s]] = Free
    /\ status[job[s]] \notin TerminalStates
    /\ supLock' = [supLock EXCEPT ![job[s]] = s]
    /\ Goto(s, "owner")
    /\ UNCHANGED <<files, queued, held, schedLock, job, tick, grant, child, killed, rpc>>

StandDown(s) ==
    /\ pc[s] = "spawned"
    /\ supLock[job[s]] # Free \/ status[job[s]] \in TerminalStates
    /\ Goto(s, "exited")
    /\ UNCHANGED <<files, sched, job, tick, grant, child, killed, rpc>>

\* A time after every queued_at that an entry or a supervisor still has.
Later(n) == \A t \in Sups, j \in Jobs : tick[t] < n /\ queued[j] < n

\* run(): the job is queued as of now.
Announce(s) ==
    /\ pc[s] = "owner"
    /\ Set(s, "queued")
    /\ \E now \in Ticks : /\ Later(now) /\ ~Later(now - 1)
                         /\ tick' = [tick EXCEPT ![s] = now]
    /\ Goto(s, "announced")
    /\ UNCHANGED <<asked, beat, sched, job, grant, child, killed, rpc>>

\* The first beat, then admit() writes the entry of queue/.
Enqueue(s) ==
    /\ pc[s] = "announced"
    /\ beat' = [beat EXCEPT ![job[s]] = "fresh"]
    /\ queued' = [queued EXCEPT ![job[s]] = tick[s]]
    /\ Goto(s, "waiting")
    /\ UNCHANGED <<status, asked, held, schedLock, supLock, job, tick, grant, child, killed, rpc>>

\* The head of admit()'s loop.
CheckCancel(s) ==
    /\ pc[s] = "waiting"
    /\ Goto(s, IF job[s] \in asked THEN "withdraw" ELSE "asking")
    /\ UNCHANGED <<files, sched, job, tick, grant, child, killed, rpc>>

Withdraw(s) ==
    /\ pc[s] = "withdraw"
    /\ Release(job[s])
    /\ Goto(s, "withdrawn")
    /\ UNCHANGED <<files, job, tick, grant, child, killed, rpc>>

Withdrawn(s) ==
    /\ pc[s] = "withdrawn"
    /\ Set(s, "cancelled")
    /\ Goto(s, "cleanup")
    /\ UNCHANGED <<asked, beat, sched, job, tick, grant, child, killed, rpc>>

\* live_entries: an entry whose job no longer beats is removed and not counted.  (One
\* younger than 30 s would stay, uncounted; a lapse and a boot both take longer.)
LiveHeld == [j \in Jobs |-> IF beat[j] = "fresh" THEN held[j] ELSE {}]
LiveQueued == [j \in Jobs |-> IF beat[j] = "fresh" THEN queued[j] ELSE 0]

\* Mutant: sched.lock is given back before the entries are written.
AskUnlocked(s) ==
    /\ pc[s] = "asking"
    /\ schedLock = Free
    /\ held' = LiveHeld
    /\ queued' = LiveQueued
    /\ \E late \in SUBSET Jobs :
          LET given == Decision(job[s], tick[s], LiveHeld, LiveQueued, late)
          IN  IF given = {}
              THEN Goto(s, "refused") /\ UNCHANGED grant
              ELSE grant' = [grant EXCEPT ![s] = given] /\ Goto(s, "granted")
    /\ UNCHANGED <<files, schedLock, supLock, job, tick, child, killed, rpc>>

\* Under sched.lock: read the live entries and decide.  On yes the lock is kept
\* until the entries are written, on no it is given back.
Ask(s) ==
    /\ pc[s] = "asking"
    /\ schedLock = Free
    /\ held' = LiveHeld
    /\ queued' = LiveQueued
    /\ \E late \in SUBSET Jobs :
          LET given == Decision(job[s], tick[s], LiveHeld, LiveQueued, late)
          IN  IF given = {}
              THEN Goto(s, "refused") /\ UNCHANGED <<grant, schedLock>>
              ELSE /\ grant' = [grant EXCEPT ![s] = given]
                   /\ schedLock' = s
                   /\ Goto(s, "granted")
    /\ UNCHANGED <<files, supLock, job, tick, child, killed, rpc>>

\* A reason to wait that is new goes to status.json, with the state as s knows it.
Refused(s) ==
    /\ pc[s] = "refused"
    /\ Set(s, "queued") \/ UNCHANGED status
    /\ Goto(s, "waiting")
    /\ UNCHANGED <<asked, beat, sched, job, tick, grant, child, killed, rpc>>

WriteActive(s) ==
    /\ pc[s] = "granted"
    /\ held' = [held EXCEPT ![job[s]] = grant[s]]
    /\ Goto(s, "entered")
    /\ UNCHANGED <<files, queued, schedLock, supLock, job, tick, grant, child, killed, rpc>>

\* Mutant: the lock is not given back.
LeaveQueueLocked(s) ==
    /\ pc[s] = "entered"
    /\ queued' = [queued EXCEPT ![job[s]] = 0]
    /\ Goto(s, "building")
    /\ UNCHANGED <<files, held, schedLock, supLock, job, tick, grant, child, killed, rpc>>

LeaveQueue(s) ==
    /\ pc[s] = "entered"
    /\ queued' = [queued EXCEPT ![job[s]] = 0]
    /\ schedLock' = Free
    /\ Goto(s, "building")
    /\ UNCHANGED <<files, held, supLock, job, tick, grant, child, killed, rpc>>

\* run_child: the environment and the command line are built, or raise.
Build(s) ==
    /\ pc[s] = "building"
    /\ \/ Set(s, "running") /\ Goto(s, "starting")
       \/ Goto(s, "raising") /\ UNCHANGED status
    /\ UNCHANGED <<asked, beat, sched, job, tick, grant, child, killed, rpc>>

\* The command is started, or Popen raises.
Start(s) ==
    /\ pc[s] = "starting"
    /\ \/ child' = [child EXCEPT ![s] = "live"] /\ Goto(s, "started")
       \/ Goto(s, "raising") /\ UNCHANGED child
    /\ UNCHANGED <<files, sched, job, tick, grant, killed, rpc>>

\* Its pid goes to status.json.
Record(s) ==
    /\ pc[s] = "started"
    /\ Set(s, "running")
    /\ Goto(s, "running")
    /\ UNCHANGED <<asked, beat, sched, job, tick, grant, child, killed, rpc>>

\* The command ends by itself; processes it left in the background may not.  It
\* also ends when no supervisor watches it any more.
ChildEnds(s) ==
    /\ child[s] = "live"
    /\ \E rest \in {"dead", "left"} : child' = [child EXCEPT ![s] = rest]
    /\ UNCHANGED <<files, sched, job, pc, tick, grant, killed, rpc>>

\* Mutant: only the timeout ends a command that runs.
KillOnTimeout(s) ==
    /\ pc[s] = "running"
    /\ child[s] = "live"
    /\ s \notin killed
    /\ job[s] \in TimeLimited
    /\ Set(s, "running")
    /\ child' = [child EXCEPT ![s] = "dead"]
    /\ killed' = killed \cup {s}
    /\ UNCHANGED <<asked, beat, sched, job, pc, tick, grant, rpc>>

\* The poll loop sees the cancel request or the timeout, notes it in status.json
\* and kills the tree.
Kill(s) ==
    /\ pc[s] = "running"
    /\ child[s] = "live"
    /\ s \notin killed
    /\ job[s] \in asked \cup TimeLimited
    /\ Set(s, "running")
    /\ child' = [child EXCEPT ![s] = "dead"]
    /\ killed' = killed \cup {s}
    /\ UNCHANGED <<asked, beat, sched, job, pc, tick, grant, rpc>>

\* Mutant: the processes a command left behind are not killed.
ReapLeader(s) ==
    /\ pc[s] = "running"
    /\ child[s] \in {"left", "dead"}
    /\ Goto(s, "ended")
    /\ UNCHANGED <<files, sched, job, tick, grant, child, killed, rpc>>

\* wait() returns.  The leftovers are counted and killed through the Job Object;
\* of a POSIX group nothing is found once its leader is reaped (getpgid fails).
Reap(s) ==
    /\ pc[s] = "running"
    /\ child[s] \in {"left", "dead"}
    /\ child' = IF KillOnClose THEN [child EXCEPT ![s] = "dead"] ELSE child
    /\ Goto(s, "ended")
    /\ UNCHANGED <<files, sched, job, tick, grant, killed, rpc>>

ReleaseEnded(s) ==
    /\ pc[s] = "ended"
    /\ Release(job[s])
    /\ Goto(s, "released")
    /\ UNCHANGED <<files, job, tick, grant, child, killed, rpc>>

\* Mutant: the outputs are collected while the job still shows as running.
FinishingUnsaid(s) ==
    /\ pc[s] = "released"
    /\ Goto(s, "finishing")
    /\ UNCHANGED <<files, sched, job, tick, grant, child, killed, rpc>>

Finishing(s) ==
    /\ pc[s] = "released"
    /\ Set(s, "finishing")
    /\ Goto(s, "finishing")
    /\ UNCHANGED <<asked, beat, sched, job, tick, grant, child, killed, rpc>>

\* The outputs are collected and the final state is set.
Finish(s) ==
    /\ pc[s] = "finishing"
    /\ \E rc \in {"done", "failed"} : Set(s, IF s \in killed THEN "cancelled" ELSE rc)
    /\ Goto(s, "cleanup")
    /\ UNCHANGED <<asked, beat, sched, job, tick, grant, child, killed, rpc>>

\* run()'s except clause.
Raise(s) ==
    /\ pc[s] = "raising"
    /\ Set(s, "error")
    /\ Goto(s, "cleanup")
    /\ UNCHANGED <<asked, beat, sched, job, tick, grant, child, killed, rpc>>

\* run()'s finally clause: the entries go first,
Cleanup(s) ==
    /\ pc[s] = "cleanup"
    /\ Release(job[s])
    /\ Goto(s, "closing")
    /\ UNCHANGED <<files, job, tick, grant, child, killed, rpc>>

\* then the last beat, the Job Object and supervisor.lock.
Close(s) ==
    /\ pc[s] = "closing"
    /\ beat' = [beat EXCEPT ![job[s]] = "fresh"]
    /\ Orphan({s}) /\ Forget({s})
    /\ supLock' = [supLock EXCEPT ![job[s]] = Free]
    /\ Goto(s, "exited")
    /\ UNCHANGED <<status, asked, queued, held, schedLock, job, rpc>>

\* _hb_loop, every HEARTBEAT_S from the first beat to the last.
Beat(s) ==
    /\ pc[s] \in Beating
    /\ beat[job[s]] = "stale"
    /\ beat' = [beat EXCEPT ![job[s]] = "fresh"]
    /\ UNCHANGED <<status, asked, sched, procs, rpc>>

\* FileLock.acquire gives up on sched.lock: an exception, which only the finally
\* clause swallows.
LockTimeout(s) ==
    /\ "lapse" \in Faults
    /\ schedLock \notin {Free, s}
    /\ \/ pc[s] \in {"asking", "withdraw", "ended"} /\ Goto(s, "raising")
       \/ pc[s] = "cleanup" /\ Goto(s, "closing")
    /\ UNCHANGED <<files, sched, job, tick, grant, child, killed, rpc>>

\* A status write beside the command raises (a reader keeps status.json open).
WriteFails(s) ==
    /\ "write" \in Faults
    /\ pc[s] \in {"started", "running"}
    /\ Goto(s, "raising")
    /\ UNCHANGED <<files, sched, job, tick, grant, child, killed, rpc>>
-----------------------------------------------------------------------------
(***************************************************************************)
(* Time and failures.                                                      *)
(***************************************************************************)
\* LOST_AFTER_S since the last beat.
Expire(j) ==
    /\ beat[j] = "fresh"
    /\ Keeper(j) => "lapse" \in Faults
    /\ beat' = [beat EXCEPT ![j] = "stale"]
    /\ UNCHANGED <<status, asked, sched, procs, rpc>>

\* 30 s, then LOST_AFTER_S since the launch, while nothing has beaten.  The supervisor
\* of a repeated launch may have been spawned only just before.
Older(j) ==
    /\ status[j] # "none"
    /\ \/ /\ beat[j] = "new"
          /\ beat' = [beat EXCEPT ![j] = "settled"]
       \/ /\ beat[j] = "settled"
          /\ Expected(j) => Respawn \/ "lapse" \in Faults
          /\ beat' = [beat EXCEPT ![j] = "overdue"]
    /\ UNCHANGED <<status, asked, sched, procs, rpc>>

\* What the death of the supervisors in Dying does at once: the OS drops their
\* locks, and the Job Object closes on their children.
Die(Dying) ==
    /\ pc' = [s \in Sups |-> IF s \in Dying THEN "crashed" ELSE pc[s]]
    /\ schedLock' = IF schedLock \in Dying THEN Free ELSE schedLock
    /\ supLock' = [j \in Jobs |-> IF supLock[j] \in Dying THEN Free ELSE supLock[j]]

Crash(s) ==
    /\ "crash" \in Faults
    /\ pc[s] \in Alive
    /\ Die({s}) /\ Orphan({s}) /\ Forget({s})
    /\ UNCHANGED <<files, queued, held, job, rpc>>

Reboot ==
    /\ "reboot" \in Faults
    /\ \E s \in Sups : Busy(s) \/ pc[s] \in Alive
    /\ child' = [s \in Sups |-> IF Busy(s) THEN "dead" ELSE child[s]]
    /\ Die({s \in Sups : pc[s] \in Alive}) /\ Forget(Sups)
    /\ beat' = [j \in Jobs |-> IF beat[j] \in {"fresh", "stale"} THEN "stale"
                              ELSE IF status[j] = "none" THEN "new" ELSE "overdue"]
    /\ rpc' = [r \in Sessions |-> Idle]
    /\ UNCHANGED <<status, asked, queued, held, job>>
-----------------------------------------------------------------------------
SessionStep(r) ==
    \/ \E j \in Jobs : LaunchNew(r, j) \/ LaunchAgain(r, j) \/ Cancel(r, j) \/ Overview(r, j)
    \/ Publish(r) \/ Spawn(r) \/ Request(r) \/ ClearLost(r) \/ ReleaseLost(r) \/ Prune(r) \/ SessionEnds(r)

\* What a supervisor does of itself.
SupStep(s) ==
    \/ Own(s) \/ StandDown(s) \/ Announce(s) \/ Enqueue(s)
    \/ CheckCancel(s) \/ Withdraw(s) \/ Withdrawn(s)
    \/ Ask(s) \/ Refused(s) \/ WriteActive(s) \/ LeaveQueue(s)
    \/ Build(s) \/ Start(s) \/ Record(s) \/ Kill(s) \/ Reap(s)
    \/ ReleaseEnded(s) \/ Finishing(s) \/ Finish(s)
    \/ Raise(s) \/ Cleanup(s) \/ Close(s)

FaultStep == Reboot \/ \E s \in Sups : Crash(s) \/ LockTimeout(s) \/ WriteFails(s)

Next ==
    \/ \E r \in Sessions : SessionStep(r)
    \/ \E s \in Sups : SupStep(s) \/ ChildEnds(s) \/ Beat(s)
    \/ \E j \in Jobs : Expire(j) \/ Older(j)
    \/ FaultStep

Spec == Init /\ [][Next]_vars

(***************************************************************************)
(* What keeps going of itself: a process that is not dead takes its next   *)
(* step (admit() polls, FileLock.acquire retries), a heartbeat thread      *)
(* beats, and time passes.  Nobody has to launch or cancel, and a command  *)
(* need not end unless a run says so.                                      *)
(***************************************************************************)
Fairness ==
    /\ \A s \in Sups : WF_vars(SupStep(s)) /\ WF_vars(Beat(s))
    /\ \A j \in Jobs : WF_vars(Expire(j)) /\ WF_vars(Older(j))
    /\ \A r \in Sessions : WF_vars(Publish(r) \/ Spawn(r) \/ SessionEnds(r))

FairSpec == Spec /\ Fairness

CommandsEnd == \A s \in Sups : WF_vars(ChildEnds(s))

-----------------------------------------------------------------------------
(***************************************************************************)
(* Properties                                                              *)
(***************************************************************************)
States == {"none"} \cup ActiveStates \cup TerminalStates
Calls == {Idle} \cup [at : {"publish", "spawn", "respawn", "ask", "condemn", "clear", "unlock",
                       "prune"}, job : Jobs]

\* Every variable has its type; a process that was spawned has a job, and only such a
\* process has a command.
TypeOK ==
    /\ status \in [Jobs -> States]
    /\ asked \subseteq Jobs
    /\ beat \in [Jobs -> {"new", "settled", "overdue", "fresh", "stale"}]
    /\ queued \in [Jobs -> {0} \cup Ticks]
    /\ held \in Holdings
    /\ schedLock \in Sups \cup {Free}
    /\ supLock \in [Jobs -> Sups \cup {Free}]
    /\ job \in [Sups -> Jobs \cup {NoJob}]
    /\ pc \in [Sups -> Labels]
    /\ tick \in [Sups -> {0} \cup Ticks]
    /\ grant \in [Sups -> {{}} \cup {{a} : a \in Assigns}]
    /\ child \in [Sups -> {"none", "live", "left", "dead"}]
    /\ killed \subseteq Sups
    /\ rpc \in [Sessions -> Calls]
    /\ \A s \in Sups : /\ pc[s] # "none" => job[s] \in Jobs
                       /\ child[s] # "none" => pc[s] # "none"

Compatible(A, B) == \A a \in A, b \in B, g \in GPUs : a.gpu[g] + b.gpu[g] <= Whole

\* The entries of active/ never promise a GPU twice, whatever fails, although
\* each supervisor decides for itself from files others write and remove
\* (admit, live_entries, sched_release).
ReservationsDisjoint ==
    \A j, k \in Jobs : j # k => Compatible(held[j], held[k])

\* No two commands that run share a GPU beyond one whole: what a job was
\* admitted with stays its own until its processes are gone.
UseDisjoint ==
    \A s, t \in Sups : s # t /\ Busy(s) /\ Busy(t) => Compatible(grant[s], grant[t])

\* A job never has two commands running at once, however often it is launched
\* and whoever dies (supervisor.lock, the rename of op_launch).
OneCommand ==
    \A s, t \in Sups : s # t /\ Busy(s) /\ Busy(t) => job[s] # job[t]

\* A command that was started is never started again under the same job id
\* ("a retried launch with the same id is a no-op, never a duplicate").  It can be:
\* the supervisor that a repeated launch spawned outlives the first one.
NeverRerun ==
    \A s, t \in Sups : s # t /\ child[s] # "none" /\ child[t] # "none" => job[s] # job[t]

\* What does hold of repeated launches and late supervisors: of those that started the
\* command of a job all but one died on the way (supervise_main, supervisor.lock).
RerunsFollowACrash ==
    \A s, t \in Sups :
       s # t /\ job[s] = job[t] /\ child[s] # "none" /\ child[t] # "none" =>
          "crashed" \in {pc[s], pc[t]}

\* An end that a supervisor recorded stays, unless a session that had seen the job
\* lost cancels it: a launch that comes late does not bring the job back.
EndsAreKept ==
    [][\A j \in Jobs : status[j] \in {"done", "failed", "error"} =>
          status'[j] \in {status[j], "cancelled"}]_vars

\* A running command always has its reservation in active/.
RunsWithinReservation ==
    \A s \in Sups : Busy(s) => held[job[s]] = grant[s]

\* A job shown as cancelled has nothing running ("rx cancel: stop the whole
\* process tree"), whether its supervisor stopped it or op_cancel cleared it.
CancelledIsStopped ==
    \A s \in Sups : Busy(s) => status[job[s]] # "cancelled"

(***************************************************************************)
(* The inductive invariants behind these (RxSchedProofs).                  *)
(***************************************************************************)
\* supervisor.lock names the one supervisor of a job that acts, sched.lock the one
\* between its decision and its last write; a process, a call
\* and an entry have a job that exists.
LocksNameTheirHolders ==
    /\ \A s \in Sups, j \in Jobs : supLock[j] = s <=> pc[s] \in Owning /\ job[s] = j
    /\ \A s \in Sups : schedLock = s <=> pc[s] \in {"granted", "entered"}
    /\ \A s \in Sups : pc[s] # "none" => status[job[s]] # "none"
    /\ \A r \in Sessions : rpc[r].at \notin {"idle", "publish"} => status[rpc[r].job] # "none"
    /\ \A j \in Jobs : queued[j] # 0 \/ held[j] # {} => status[j] # "none"

\* An assignment decided on but not yet written is compatible with what is written.
GrantsCompatible ==
    \A s \in Sups, k \in Jobs : pc[s] = "granted" => Compatible(grant[s], held[k])

\* A command lives no longer than the supervisor that started it owns the job.
CommandsOwned == \A s \in Sups : Busy(s) => pc[s] \in Owning

\* Whoever cleans up has recorded an end.  A supervisor that ran its command and left
\* leaves a final state, and then nobody acts for the job; while one that still may
\* start the command acts, no end of the job is recorded but a cancellation.
EndsRecorded ==
    /\ \A s \in Sups : pc[s] \in {"cleanup", "closing"} => status[job[s]] \in TerminalStates
    /\ \A s \in Sups : child[s] # "none" => pc[s] # "spawned"
    /\ \A s \in Sups : child[s] # "none" /\ pc[s] = "exited" =>
          /\ status[job[s]] \in TerminalStates
          /\ \A t \in Sups : pc[t] \in Owning => job[t] # job[s]
    /\ \A s \in Sups : pc[s] \in Owning \ {"cleanup", "closing"} =>
          status[job[s]] \notin {"done", "failed", "error"}

\* A launch that nobody repeats gives its job one supervisor.
OneSupervisor ==
    /\ \A s, t \in Sups : s # t /\ pc[s] # "none" /\ pc[t] # "none" => job[s] # job[t]
    /\ \A r \in Sessions : rpc[r].at = "spawn" =>
          /\ \A s \in Sups : pc[s] # "none" => job[s] # rpc[r].job
          /\ \A q \in Sessions : q # r /\ rpc[q].at = "spawn" => rpc[q].job # rpc[r].job
    /\ \A r \in Sessions : rpc[r].at # "respawn"

\* The supervisor shows itself in time, and from then on is seen to be alive.
SeenAlive ==
    \A j \in Jobs : /\ status[j] = "none" => beat[j] = "new"
                    /\ Expected(j) => beat[j] \in {"new", "settled"}
                    /\ Keeper(j) => beat[j] = "fresh"
                    /\ queued[j] # 0 \/ held[j] # {} => beat[j] \in {"fresh", "stale"}

\* Nobody is left, or to come, to act on a job that a session clears or prunes.
ClearedJobsAreDead ==
    \A r \in Sessions : rpc[r].at \in {"condemn", "clear", "unlock", "prune"} =>
       ~Expected(rpc[r].job) /\ ~Keeper(rpc[r].job)

\* A command runs only while its supervisor watches it, and from its entry in active/
\* to that end the job keeps the entry and its state.
HeldThroughout ==
    \A s \in Sups :
       /\ Busy(s) => pc[s] \in {"started", "running"}
       /\ pc[s] \in {"entered", "building", "starting", "started", "running"} =>
             held[job[s]] = grant[s]
       /\ pc[s] \in {"starting", "started", "running"} => status[job[s]] = "running"

\* status.json says where the one supervisor of the job is, and a session that clears a
\* job clears one that shows as lost, or one that another has cleared.
StatusFollows ==
    /\ \A s \in Sups :
       /\ pc[s] \in {"spawned", "owner"} => status[job[s]] = "launching"
       /\ pc[s] \in {"announced", "waiting", "asking", "refused", "withdraw", "withdrawn",
                    "granted", "entered", "building"} => status[job[s]] = "queued"
       /\ pc[s] \in {"starting", "started", "running", "ended", "released"} =>
             status[job[s]] = "running"
       /\ pc[s] = "finishing" => status[job[s]] = "finishing"
       /\ pc[s] = "raising" => status[job[s]] \in {"queued", "running"}
       /\ pc[s] \in {"cleanup", "closing"} => status[job[s]] \in TerminalStates
    /\ \A r \in Sessions :
       /\ rpc[r].at = "spawn" => status[rpc[r].job] = "launching"
       /\ rpc[r].at \in {"condemn", "clear"} => Derived(rpc[r].job) \in {"lost", "cancelled"}

Final(j) == Derived(j) \in TerminalStates \cup {"lost"}

\* If commands end, every launched job comes to an end a client can see and stays there:
\* done, failed, cancelled, error, or lost with its supervisor.
EveryJobResolves == CommandsEnd => \A j \in Jobs : <>[](status[j] = "none" \/ Final(j))

\* A cancelled job comes to an end although no command need end by itself.
CancelResolves == \A j \in Jobs : j \in asked ~> Final(j)

\* What the client sees of a job follows the states of the README.
Client == INSTANCE RxLifecycle WITH state <- [j \in Jobs |-> Derived(j)]
LifecycleHolds == Client!Spec
=============================================================================
