----------------------------- MODULE RxLifecycle -----------------------------
(***************************************************************************)
(* What an rx client is promised about the states of a job (tools/rx/      *)
(* README.md, "States"): launching, queued, running, finishing, then done, *)
(* failed or cancelled; error when rx itself failed; lost once the         *)
(* supervisor died or the host rebooted.  A final state is final: waits,   *)
(* watches and fetches stop at it.  Only a cancel clears a lost job.       *)
(***************************************************************************)
CONSTANT Jobs

VARIABLE state

Active == {"launching", "queued", "running", "finishing"}
Final == {"done", "failed", "cancelled", "error"}

Init == state = [j \in Jobs |-> "none"]

Move(j, from, to) ==
    /\ state[j] \in from
    /\ \E next \in to : state' = [state EXCEPT ![j] = next]

Launch(j) == Move(j, {"none"}, {"launching"})
Queue(j) == Move(j, {"launching"}, {"queued"})
Start(j) == Move(j, {"queued"}, {"running"})
Wind(j) == Move(j, {"running"}, {"finishing"})
Finish(j) == Move(j, {"finishing"}, {"done", "failed", "cancelled"})
Cancel(j) == Move(j, {"queued", "lost"}, {"cancelled"})
Fail(j) == Move(j, {"queued", "running"}, {"error"})
Lose(j) == Move(j, Active, {"lost"})

\* A reboot loses several jobs at once.
LoseAll ==
    \E gone \in SUBSET {j \in Jobs : state[j] \in Active} :
        state' = [j \in Jobs |-> IF j \in gone THEN "lost" ELSE state[j]]

Next ==
    \/ \E j \in Jobs : \/ Launch(j) \/ Queue(j) \/ Start(j) \/ Wind(j) \/ Finish(j)
                       \/ Cancel(j) \/ Fail(j) \/ Lose(j)
    \/ LoseAll

Spec == Init /\ [][Next]_state
=============================================================================
