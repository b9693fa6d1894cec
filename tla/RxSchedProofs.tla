---------------------------- MODULE RxSchedProofs ----------------------------
(***************************************************************************)
(* Theorems about RxSched, for any number of jobs, supervisors and         *)
(* sessions and any admission rule that DecisionAssumption allows.           *)
(***************************************************************************)
EXTENDS RxSched, TLAPS

USE DEF Holdings, Ticks

(***************************************************************************)
(* What a decision does: it drops the entries that no longer beat, and if  *)
(* it gives an assignment then one that no remaining entry excludes.       *)
(***************************************************************************)
LEMMA AskGives ==
    ASSUME TypeOK, NEW s \in Sups, Ask(s)
    PROVE  /\ pc[s] = "asking" /\ schedLock = Free
           /\ held' = LiveHeld /\ held' \in Holdings
           /\ queued' = LiveQueued /\ queued' \in [Jobs -> {0} \cup Ticks]
           /\ UNCHANGED <<files, supLock, job, tick, child, killed, rpc>>
           /\ \/ Goto(s, "refused") /\ UNCHANGED <<grant, schedLock>>
              \/ \E given \in {{}} \cup {{a} : a \in Assigns} :
                    /\ grant' = [grant EXCEPT ![s] = given]
                    /\ \A k \in Jobs : Compatible(given, held'[k])
                    /\ schedLock' = s
                    /\ Goto(s, "granted")
<1>1. LiveHeld \in Holdings /\ LiveQueued \in [Jobs -> {0} \cup Ticks]
  BY DEF LiveHeld, LiveQueued, TypeOK
<1>2. PICK late \in SUBSET Jobs :
        LET given == Decision(job[s], tick[s], LiveHeld, LiveQueued, late)
        IN  IF given = {}
            THEN Goto(s, "refused") /\ UNCHANGED <<grant, schedLock>>
            ELSE /\ grant' = [grant EXCEPT ![s] = given]
                 /\ schedLock' = s
                 /\ Goto(s, "granted")
  BY DEF Ask
<1> DEFINE given == Decision(job[s], tick[s], LiveHeld, LiveQueued, late)
<1>3. job[s] \in Jobs /\ tick[s] \in {0} \cup Ticks
  BY DEF Ask, TypeOK
<1>4. /\ given \in {{}} \cup {{a} : a \in Assigns}
      /\ \A k \in Jobs : Compatible(given, LiveHeld[k])
  BY <1>1, <1>3, DecisionAssumption DEF Compatible
<1>5. \/ Goto(s, "refused") /\ UNCHANGED <<grant, schedLock>>
      \/ grant' = [grant EXCEPT ![s] = given] /\ schedLock' = s /\ Goto(s, "granted")
  BY <1>2
<1> HIDE DEF given
<1> QED
  BY <1>1, <1>4, <1>5 DEF Ask

(***************************************************************************)
(* Type correctness, one step per action.                                  *)
(***************************************************************************)
\* The initial values have their types.
LEMMA InitTypeOK == Init => TypeOK
BY ConstantsAssumption DEF Init, TypeOK, Labels, States, Calls, Idle

\* Every step keeps every variable in its type.
LEMMA NextTypeOK == TypeOK /\ [Next]_vars => TypeOK'
<1> SUFFICES ASSUME TypeOK, [Next]_vars PROVE TypeOK'
  OBVIOUS
<1> USE DEF TypeOK, Labels, States, Calls, Idle, Call, Return, Goto, Set,
            files, sched, procs, TerminalStates, ActiveStates
<1>1. ASSUME NEW r \in Sessions, NEW j \in Jobs, LaunchNew(r, j) PROVE TypeOK'
  BY <1>1 DEF LaunchNew
<1>2. ASSUME NEW r \in Sessions, Publish(r) PROVE TypeOK'
  BY <1>2 DEF Publish
<1>3. ASSUME NEW r \in Sessions, NEW j \in Jobs, LaunchAgain(r, j) PROVE TypeOK'
  BY <1>3 DEF LaunchAgain
<1>4. ASSUME NEW r \in Sessions, Spawn(r) PROVE TypeOK'
  BY <1>4 DEF Spawn
<1>5. ASSUME NEW r \in Sessions, NEW j \in Jobs, Cancel(r, j) PROVE TypeOK'
  BY <1>5 DEF Cancel
<1>6. ASSUME NEW r \in Sessions, Request(r) PROVE TypeOK'
  BY <1>6 DEF Request
<1>7. ASSUME NEW r \in Sessions, ClearLost(r) PROVE TypeOK'
  BY <1>7 DEF ClearLost
<1>8. ASSUME NEW r \in Sessions, ReleaseLost(r) PROVE TypeOK'
  BY <1>8 DEF ReleaseLost, Release
<1>9. ASSUME NEW r \in Sessions, NEW j \in Jobs, Overview(r, j) PROVE TypeOK'
  BY <1>9 DEF Overview
<1>10. ASSUME NEW r \in Sessions, Prune(r) PROVE TypeOK'
  BY <1>10 DEF Prune
<1>11. ASSUME NEW r \in Sessions, SessionEnds(r) PROVE TypeOK'
  BY <1>11 DEF SessionEnds
<1>12. ASSUME NEW s \in Sups, Own(s) PROVE TypeOK'
  BY <1>12 DEF Own
<1>13. ASSUME NEW s \in Sups, StandDown(s) PROVE TypeOK'
  BY <1>13 DEF StandDown
<1>14. ASSUME NEW s \in Sups, Announce(s) PROVE TypeOK'
  BY <1>14 DEF Announce
<1>15. ASSUME NEW s \in Sups, Enqueue(s) PROVE TypeOK'
  BY <1>15 DEF Enqueue
<1>16. ASSUME NEW s \in Sups, CheckCancel(s) PROVE TypeOK'
  BY <1>16 DEF CheckCancel
<1>17. ASSUME NEW s \in Sups, Withdraw(s) PROVE TypeOK'
  BY <1>17 DEF Withdraw, Release
<1>18. ASSUME NEW s \in Sups, Withdrawn(s) PROVE TypeOK'
  BY <1>18 DEF Withdrawn
<1>19. ASSUME NEW s \in Sups, Ask(s) PROVE TypeOK'
  <2>1. /\ held' \in Holdings /\ queued' \in [Jobs -> {0} \cup Ticks]
        /\ UNCHANGED <<files, supLock, job, tick, child, killed, rpc>>
    BY <1>19, AskGives
  <2>2. /\ pc' \in [Sups -> Labels]
        /\ grant' \in [Sups -> {{}} \cup {{a} : a \in Assigns}]
        /\ schedLock' \in Sups \cup {Free}
        /\ \A t \in Sups : pc'[t] # "none" <=> pc[t] # "none"
    BY <1>19, AskGives
  <2> QED
    BY <2>1, <2>2
<1>20. ASSUME NEW s \in Sups, Refused(s) PROVE TypeOK'
  BY <1>20 DEF Refused
<1>21. ASSUME NEW s \in Sups, WriteActive(s) PROVE TypeOK'
  BY <1>21 DEF WriteActive
<1>22. ASSUME NEW s \in Sups, LeaveQueue(s) PROVE TypeOK'
  BY <1>22 DEF LeaveQueue
<1>23. ASSUME NEW s \in Sups, Build(s) PROVE TypeOK'
  BY <1>23 DEF Build
<1>24. ASSUME NEW s \in Sups, Start(s) PROVE TypeOK'
  BY <1>24 DEF Start
<1>25. ASSUME NEW s \in Sups, Record(s) PROVE TypeOK'
  BY <1>25 DEF Record
<1>26. ASSUME NEW s \in Sups, Kill(s) PROVE TypeOK'
  BY <1>26 DEF Kill
<1>27. ASSUME NEW s \in Sups, Reap(s) PROVE TypeOK'
  BY <1>27 DEF Reap
<1>28. ASSUME NEW s \in Sups, ReleaseEnded(s) PROVE TypeOK'
  BY <1>28 DEF ReleaseEnded, Release
<1>29. ASSUME NEW s \in Sups, Finishing(s) PROVE TypeOK'
  BY <1>29 DEF Finishing
<1>30. ASSUME NEW s \in Sups, Finish(s) PROVE TypeOK'
  <2>1. PICK final \in {"done", "failed", "cancelled"} : Set(s, final)
    BY <1>30 DEF Finish
  <2> QED
    BY <1>30, <2>1 DEF Finish
<1>31. ASSUME NEW s \in Sups, Raise(s) PROVE TypeOK'
  BY <1>31 DEF Raise
<1>32. ASSUME NEW s \in Sups, Cleanup(s) PROVE TypeOK'
  BY <1>32 DEF Cleanup, Release
<1>33. ASSUME NEW s \in Sups, Close(s) PROVE TypeOK'
  BY <1>33 DEF Close, Orphan, Forget
<1>34. ASSUME NEW s \in Sups, ChildEnds(s) PROVE TypeOK'
  BY <1>34 DEF ChildEnds
<1>35. ASSUME NEW s \in Sups, Beat(s) PROVE TypeOK'
  BY <1>35 DEF Beat
<1>36. ASSUME NEW j \in Jobs, Expire(j) PROVE TypeOK'
  BY <1>36 DEF Expire
<1>37. ASSUME NEW j \in Jobs, Older(j) PROVE TypeOK'
  BY <1>37 DEF Older
<1>38. ASSUME NEW s \in Sups, Crash(s) PROVE TypeOK'
  BY <1>38 DEF Crash, Die, Orphan, Forget, Alive
<1>39. ASSUME NEW s \in Sups, LockTimeout(s) PROVE TypeOK'
  BY <1>39 DEF LockTimeout
<1>40. ASSUME NEW s \in Sups, WriteFails(s) PROVE TypeOK'
  BY <1>40 DEF WriteFails
<1>41. ASSUME Reboot PROVE TypeOK'
  <2>1. UNCHANGED <<status, asked, queued, held, job>>
    BY <1>41 DEF Reboot
  <2>2. /\ beat' \in [Jobs -> {"new", "settled", "overdue", "fresh", "stale"}]
        /\ rpc' \in [Sessions -> Calls]
    BY <1>41 DEF Reboot
  <2>3. /\ schedLock' \in Sups \cup {Free}
        /\ supLock' \in [Jobs -> Sups \cup {Free}]
        /\ pc' \in [Sups -> Labels]
        /\ \A t \in Sups : pc'[t] # "none" <=> pc[t] # "none"
    BY <1>41 DEF Reboot, Die, Alive
  <2>4. /\ child' \in [Sups -> {"none", "live", "left", "dead"}]
        /\ \A t \in Sups : child'[t] # "none" => child[t] # "none"
        /\ tick' \in [Sups -> {0} \cup Ticks]
        /\ grant' \in [Sups -> {{}} \cup {{a} : a \in Assigns}]
        /\ killed' \subseteq Sups
    BY <1>41 DEF Reboot, Forget, Busy
  <2> QED
    BY <2>1, <2>2, <2>3, <2>4
<1>42. CASE UNCHANGED vars
  BY <1>42 DEF vars
<1> QED
  BY <1>1, <1>2, <1>3, <1>4, <1>5, <1>6, <1>7, <1>8, <1>9, <1>10, <1>11, <1>12,
     <1>13, <1>14, <1>15, <1>16, <1>17, <1>18, <1>19, <1>20, <1>21, <1>22, <1>23, <1>24,
     <1>25, <1>26, <1>27, <1>28, <1>29, <1>30, <1>31, <1>32, <1>33, <1>34, <1>35, <1>36,
     <1>37, <1>38, <1>39, <1>40, <1>41, <1>42
     DEF Next, SessionStep, SupStep, FaultStep

\* Every variable of RxSched keeps its type.
THEOREM TypeCorrect == Spec => []TypeOK
BY InitTypeOK, NextTypeOK, PTL DEF Spec

(***************************************************************************)
(* The locks: who holds them, for every fault.                             *)
(***************************************************************************)
\* Nobody holds a lock at the start.
LEMMA InitLocks == Init => LocksNameTheirHolders
BY NamesAssumption DEF Init, LocksNameTheirHolders, Owning, Alive, Labels, Idle

\* A lock changes hands only with the program counter of its holder.
LEMMA NextLocks ==
    TypeOK /\ LocksNameTheirHolders /\ [Next]_vars => LocksNameTheirHolders'
<1> SUFFICES ASSUME TypeOK, LocksNameTheirHolders, [Next]_vars
             PROVE  LocksNameTheirHolders'
  OBVIOUS
<1> USE NamesAssumption
    DEF TypeOK, LocksNameTheirHolders, Labels, Alive, Owning, Calls, Idle,
        Call, Return, Goto, Set, files, sched, procs
<1>1. ASSUME NEW r \in Sessions, NEW j \in Jobs, LaunchNew(r, j) PROVE LocksNameTheirHolders'
  BY <1>1 DEF LaunchNew
<1>2. ASSUME NEW r \in Sessions, Publish(r) PROVE LocksNameTheirHolders'
  BY <1>2 DEF Publish
<1>3. ASSUME NEW r \in Sessions, NEW j \in Jobs, LaunchAgain(r, j) PROVE LocksNameTheirHolders'
  BY <1>3 DEF LaunchAgain, Derived, Lost, ActiveStates
<1>4. ASSUME NEW r \in Sessions, Spawn(r) PROVE LocksNameTheirHolders'
  BY <1>4 DEF Spawn
<1>5. ASSUME NEW r \in Sessions, NEW j \in Jobs, Cancel(r, j) PROVE LocksNameTheirHolders'
  BY <1>5 DEF Cancel, Derived, Lost, ActiveStates
<1>6. ASSUME NEW r \in Sessions, Request(r) PROVE LocksNameTheirHolders'
  BY <1>6 DEF Request
<1>7. ASSUME NEW r \in Sessions, ClearLost(r) PROVE LocksNameTheirHolders'
  BY <1>7 DEF ClearLost
<1>8. ASSUME NEW r \in Sessions, ReleaseLost(r) PROVE LocksNameTheirHolders'
  BY <1>8 DEF ReleaseLost, Release
<1>9. ASSUME NEW r \in Sessions, NEW j \in Jobs, Overview(r, j) PROVE LocksNameTheirHolders'
  BY <1>9 DEF Overview
<1>10. ASSUME NEW r \in Sessions, Prune(r) PROVE LocksNameTheirHolders'
  BY <1>10 DEF Prune
<1>11. ASSUME NEW r \in Sessions, SessionEnds(r) PROVE LocksNameTheirHolders'
  BY <1>11 DEF SessionEnds
<1>12. ASSUME NEW s \in Sups, Own(s) PROVE LocksNameTheirHolders'
  BY <1>12 DEF Own
<1>13. ASSUME NEW s \in Sups, StandDown(s) PROVE LocksNameTheirHolders'
  BY <1>13 DEF StandDown
<1>14. ASSUME NEW s \in Sups, Announce(s) PROVE LocksNameTheirHolders'
  BY <1>14 DEF Announce
<1>15. ASSUME NEW s \in Sups, Enqueue(s) PROVE LocksNameTheirHolders'
  BY <1>15 DEF Enqueue
<1>16. ASSUME NEW s \in Sups, CheckCancel(s) PROVE LocksNameTheirHolders'
  BY <1>16 DEF CheckCancel
<1>17. ASSUME NEW s \in Sups, Withdraw(s) PROVE LocksNameTheirHolders'
  BY <1>17 DEF Withdraw, Release
<1>18. ASSUME NEW s \in Sups, Withdrawn(s) PROVE LocksNameTheirHolders'
  BY <1>18 DEF Withdrawn
<1>19. ASSUME NEW s \in Sups, Ask(s) PROVE LocksNameTheirHolders'
  <2>1. \A j \in Jobs : /\ held'[j] # {} => held[j] # {}
                        /\ queued'[j] # 0 => queued[j] # 0
    BY <1>19 DEF Ask, LiveHeld, LiveQueued
  <2>2. status' = status /\ supLock' = supLock /\ job' = job /\ rpc' = rpc
    BY <1>19, AskGives
  <2>3. \A t \in Sups : schedLock' = t <=> pc'[t] \in {"granted", "entered"}
    BY <1>19, AskGives
  <2>4. \A t \in Sups : /\ pc'[t] \in Owning <=> pc[t] \in Owning
                        /\ pc'[t] # "none" <=> pc[t] # "none"
    BY <1>19, AskGives
  <2> QED
    BY <2>1, <2>2, <2>3, <2>4
<1>20. ASSUME NEW s \in Sups, Refused(s) PROVE LocksNameTheirHolders'
  BY <1>20 DEF Refused
<1>21. ASSUME NEW s \in Sups, WriteActive(s) PROVE LocksNameTheirHolders'
  BY <1>21 DEF WriteActive
<1>22. ASSUME NEW s \in Sups, LeaveQueue(s) PROVE LocksNameTheirHolders'
  BY <1>22 DEF LeaveQueue
<1>23. ASSUME NEW s \in Sups, Build(s) PROVE LocksNameTheirHolders'
  BY <1>23 DEF Build
<1>24. ASSUME NEW s \in Sups, Start(s) PROVE LocksNameTheirHolders'
  BY <1>24 DEF Start
<1>25. ASSUME NEW s \in Sups, Record(s) PROVE LocksNameTheirHolders'
  BY <1>25 DEF Record
<1>26. ASSUME NEW s \in Sups, Kill(s) PROVE LocksNameTheirHolders'
  BY <1>26 DEF Kill
<1>27. ASSUME NEW s \in Sups, Reap(s) PROVE LocksNameTheirHolders'
  BY <1>27 DEF Reap
<1>28. ASSUME NEW s \in Sups, ReleaseEnded(s) PROVE LocksNameTheirHolders'
  BY <1>28 DEF ReleaseEnded, Release
<1>29. ASSUME NEW s \in Sups, Finishing(s) PROVE LocksNameTheirHolders'
  BY <1>29 DEF Finishing
<1>30. ASSUME NEW s \in Sups, Finish(s) PROVE LocksNameTheirHolders'
  BY <1>30 DEF Finish
<1>31. ASSUME NEW s \in Sups, Raise(s) PROVE LocksNameTheirHolders'
  BY <1>31 DEF Raise
<1>32. ASSUME NEW s \in Sups, Cleanup(s) PROVE LocksNameTheirHolders'
  BY <1>32 DEF Cleanup, Release
<1>33. ASSUME NEW s \in Sups, Close(s) PROVE LocksNameTheirHolders'
  BY <1>33 DEF Close, Orphan, Forget
<1>34. ASSUME NEW s \in Sups, ChildEnds(s) PROVE LocksNameTheirHolders'
  BY <1>34 DEF ChildEnds
<1>35. ASSUME NEW s \in Sups, Beat(s) PROVE LocksNameTheirHolders'
  BY <1>35 DEF Beat
<1>36. ASSUME NEW j \in Jobs, Expire(j) PROVE LocksNameTheirHolders'
  BY <1>36 DEF Expire
<1>37. ASSUME NEW j \in Jobs, Older(j) PROVE LocksNameTheirHolders'
  BY <1>37 DEF Older
<1>38. ASSUME NEW s \in Sups, Crash(s) PROVE LocksNameTheirHolders'
  BY <1>38 DEF Crash, Die, Orphan, Forget
<1>39. ASSUME NEW s \in Sups, LockTimeout(s) PROVE LocksNameTheirHolders'
  BY <1>39 DEF LockTimeout
<1>40. ASSUME NEW s \in Sups, WriteFails(s) PROVE LocksNameTheirHolders'
  BY <1>40 DEF WriteFails
<1>41. ASSUME Reboot PROVE LocksNameTheirHolders'
  BY <1>41 DEF Reboot, Die, Forget
<1>42. CASE UNCHANGED vars
  BY <1>42 DEF vars
<1> QED
  BY <1>1, <1>2, <1>3, <1>4, <1>5, <1>6, <1>7, <1>8, <1>9, <1>10, <1>11, <1>12,
     <1>13, <1>14, <1>15, <1>16, <1>17, <1>18, <1>19, <1>20, <1>21, <1>22, <1>23, <1>24,
     <1>25, <1>26, <1>27, <1>28, <1>29, <1>30, <1>31, <1>32, <1>33, <1>34, <1>35, <1>36,
     <1>37, <1>38, <1>39, <1>40, <1>41, <1>42
     DEF Next, SessionStep, SupStep, FaultStep

(***************************************************************************)
(* The entries of active/ are pairwise compatible.  What is decided but    *)
(* not yet written is too, and it stays so because its supervisor still    *)
(* holds sched.lock, which everyone else who adds an entry must take.      *)
(***************************************************************************)
Reserved == ReservationsDisjoint /\ GrantsCompatible

\* Nothing conflicts with no assignment, and conflicts are mutual.
LEMMA CompatibleFacts ==
    /\ \A A : Compatible({}, A) /\ Compatible(A, {})
    /\ \A A, B \in {{}} \cup {{a} : a \in Assigns} : Compatible(A, B) <=> Compatible(B, A)
<1>1. \A A : Compatible({}, A) /\ Compatible(A, {})
  BY DEF Compatible
<1>2. \A a, b \in Assigns, g \in GPUs : a.gpu[g] \in Nat /\ b.gpu[g] \in Nat
  BY ConstantsAssumption
<1>3. \A A, B \in {{}} \cup {{a} : a \in Assigns} : Compatible(A, B) <=> Compatible(B, A)
  BY <1>2, ConstantsAssumption DEF Compatible
<1> QED
  BY <1>1, <1>3

\* No entry exists at the start.
LEMMA InitReserved == Init => Reserved
BY CompatibleFacts DEF Init, Reserved, ReservationsDisjoint, GrantsCompatible

\* Only Ask and WriteActive add a promise; all other steps keep or drop entries.
LEMMA NextReserved ==
    TypeOK /\ LocksNameTheirHolders /\ Reserved /\ [Next]_vars => Reserved'
<1> SUFFICES ASSUME TypeOK, LocksNameTheirHolders, Reserved, [Next]_vars
             PROVE  Reserved'
  OBVIOUS
<1> USE CompatibleFacts, NamesAssumption
    DEF TypeOK, LocksNameTheirHolders, Reserved, ReservationsDisjoint, GrantsCompatible,
        Goto, files, sched, procs
<1>1. ASSUME NEW r \in Sessions, NEW j \in Jobs, LaunchNew(r, j) PROVE Reserved'
  BY <1>1 DEF LaunchNew
<1>2. ASSUME NEW r \in Sessions, Publish(r) PROVE Reserved'
  BY <1>2 DEF Publish
<1>3. ASSUME NEW r \in Sessions, NEW j \in Jobs, LaunchAgain(r, j) PROVE Reserved'
  BY <1>3 DEF LaunchAgain
<1>4. ASSUME NEW r \in Sessions, Spawn(r) PROVE Reserved'
  BY <1>4 DEF Spawn
<1>5. ASSUME NEW r \in Sessions, NEW j \in Jobs, Cancel(r, j) PROVE Reserved'
  BY <1>5 DEF Cancel
<1>6. ASSUME NEW r \in Sessions, Request(r) PROVE Reserved'
  BY <1>6 DEF Request
<1>7. ASSUME NEW r \in Sessions, ClearLost(r) PROVE Reserved'
  BY <1>7 DEF ClearLost
<1>8. ASSUME NEW r \in Sessions, ReleaseLost(r) PROVE Reserved'
  BY <1>8 DEF ReleaseLost, Release
<1>9. ASSUME NEW r \in Sessions, NEW j \in Jobs, Overview(r, j) PROVE Reserved'
  BY <1>9 DEF Overview
<1>10. ASSUME NEW r \in Sessions, Prune(r) PROVE Reserved'
  <2>1. \A k \in Jobs : held'[k] = {} \/ held'[k] = held[k]
    BY <1>10 DEF Prune
  <2>2. grant' = grant /\ pc' = pc
    BY <1>10 DEF Prune
  <2>3. ReservationsDisjoint'
    BY <2>1 DEF Compatible
  <2>4. GrantsCompatible'
    BY <2>1, <2>2 DEF Compatible
  <2> QED
    BY <2>3, <2>4
<1>11. ASSUME NEW r \in Sessions, SessionEnds(r) PROVE Reserved'
  BY <1>11 DEF SessionEnds
<1>12. ASSUME NEW s \in Sups, Own(s) PROVE Reserved'
  BY <1>12 DEF Own
<1>13. ASSUME NEW s \in Sups, StandDown(s) PROVE Reserved'
  BY <1>13 DEF StandDown
<1>14. ASSUME NEW s \in Sups, Announce(s) PROVE Reserved'
  BY <1>14 DEF Announce
<1>15. ASSUME NEW s \in Sups, Enqueue(s) PROVE Reserved'
  BY <1>15 DEF Enqueue
<1>16. ASSUME NEW s \in Sups, CheckCancel(s) PROVE Reserved'
  BY <1>16 DEF CheckCancel
<1>17. ASSUME NEW s \in Sups, Withdraw(s) PROVE Reserved'
  BY <1>17 DEF Withdraw, Release
<1>18. ASSUME NEW s \in Sups, Withdrawn(s) PROVE Reserved'
  BY <1>18 DEF Withdrawn
<1>19. ASSUME NEW s \in Sups, Ask(s) PROVE Reserved'
  <2> HIDE CompatibleFacts
  <2>1. \A k \in Jobs : held'[k] = {} \/ held'[k] = held[k]
    BY <1>19 DEF Ask, LiveHeld
  <2>2. ReservationsDisjoint'
    <3> SUFFICES ASSUME NEW j \in Jobs, NEW k \in Jobs, j # k
                 PROVE  Compatible(held'[j], held'[k])
      OBVIOUS
    <3>1. Compatible(held[j], held[k])
      OBVIOUS
    <3> QED
      BY <2>1, <3>1 DEF Compatible
  <2>3. \A t \in Sups : pc[t] # "granted"
    BY <1>19 DEF Ask
  <2>4. GrantsCompatible'
    <3>1. CASE Goto(s, "refused")
      BY <2>3, <3>1
    <3>2. CASE ~Goto(s, "refused")
      <4>1. PICK given \in {{}} \cup {{a} : a \in Assigns} :
              /\ grant' = [grant EXCEPT ![s] = given]
              /\ \A k \in Jobs : Compatible(given, held'[k])
              /\ Goto(s, "granted")
        BY <1>19, <3>2, AskGives
      <4>2. \A t \in Sups : pc'[t] = "granted" => t = s /\ grant'[t] = given
        BY <2>3, <4>1
      <4> QED
        BY <4>1, <4>2
    <3> QED
      BY <3>1, <3>2
  <2> QED
    BY <2>2, <2>4
<1>20. ASSUME NEW s \in Sups, Refused(s) PROVE Reserved'
  BY <1>20 DEF Refused
<1>21. ASSUME NEW s \in Sups, WriteActive(s) PROVE Reserved'
  <2>1. \A k \in Jobs : Compatible(grant[s], held[k]) /\ Compatible(held[k], grant[s])
    BY <1>21 DEF WriteActive
  <2>2. \A k \in Jobs : held'[k] = IF k = job[s] THEN grant[s] ELSE held[k]
    BY <1>21 DEF WriteActive
  <2>3. ReservationsDisjoint'
    BY <2>1, <2>2
  <2>4. \A t \in Sups : pc'[t] # "granted"
    BY <1>21 DEF WriteActive
  <2> QED
    BY <2>3, <2>4
<1>22. ASSUME NEW s \in Sups, LeaveQueue(s) PROVE Reserved'
  BY <1>22 DEF LeaveQueue
<1>23. ASSUME NEW s \in Sups, Build(s) PROVE Reserved'
  BY <1>23 DEF Build
<1>24. ASSUME NEW s \in Sups, Start(s) PROVE Reserved'
  BY <1>24 DEF Start
<1>25. ASSUME NEW s \in Sups, Record(s) PROVE Reserved'
  BY <1>25 DEF Record
<1>26. ASSUME NEW s \in Sups, Kill(s) PROVE Reserved'
  BY <1>26 DEF Kill
<1>27. ASSUME NEW s \in Sups, Reap(s) PROVE Reserved'
  BY <1>27 DEF Reap
<1>28. ASSUME NEW s \in Sups, ReleaseEnded(s) PROVE Reserved'
  BY <1>28 DEF ReleaseEnded, Release
<1>29. ASSUME NEW s \in Sups, Finishing(s) PROVE Reserved'
  BY <1>29 DEF Finishing
<1>30. ASSUME NEW s \in Sups, Finish(s) PROVE Reserved'
  BY <1>30 DEF Finish
<1>31. ASSUME NEW s \in Sups, Raise(s) PROVE Reserved'
  BY <1>31 DEF Raise
<1>32. ASSUME NEW s \in Sups, Cleanup(s) PROVE Reserved'
  BY <1>32 DEF Cleanup, Release
<1>33. ASSUME NEW s \in Sups, Close(s) PROVE Reserved'
  BY <1>33 DEF Close, Orphan, Forget, Busy
<1>34. ASSUME NEW s \in Sups, ChildEnds(s) PROVE Reserved'
  BY <1>34 DEF ChildEnds
<1>35. ASSUME NEW s \in Sups, Beat(s) PROVE Reserved'
  BY <1>35 DEF Beat
<1>36. ASSUME NEW j \in Jobs, Expire(j) PROVE Reserved'
  BY <1>36 DEF Expire
<1>37. ASSUME NEW j \in Jobs, Older(j) PROVE Reserved'
  BY <1>37 DEF Older
<1>38. ASSUME NEW s \in Sups, Crash(s) PROVE Reserved'
  BY <1>38 DEF Crash, Die, Orphan, Forget, Busy, Alive
<1>39. ASSUME NEW s \in Sups, LockTimeout(s) PROVE Reserved'
  BY <1>39 DEF LockTimeout
<1>40. ASSUME NEW s \in Sups, WriteFails(s) PROVE Reserved'
  BY <1>40 DEF WriteFails
<1>41. ASSUME Reboot PROVE Reserved'
  BY <1>41 DEF Reboot, Die, Forget, Busy, Alive
<1>42. CASE UNCHANGED vars
  BY <1>42 DEF vars
<1> QED
  BY <1>1, <1>2, <1>3, <1>4, <1>5, <1>6, <1>7, <1>8, <1>9, <1>10, <1>11, <1>12,
     <1>13, <1>14, <1>15, <1>16, <1>17, <1>18, <1>19, <1>20, <1>21, <1>22, <1>23, <1>24,
     <1>25, <1>26, <1>27, <1>28, <1>29, <1>30, <1>31, <1>32, <1>33, <1>34, <1>35, <1>36,
     <1>37, <1>38, <1>39, <1>40, <1>41, <1>42
     DEF Next, SessionStep, SupStep, FaultStep

\* Whatever fails, no two entries of active/ promise a GPU beyond one whole.
THEOREM ReservationsNeverOverlap == Spec => []ReservationsDisjoint
<1>1. Init => TypeOK /\ LocksNameTheirHolders /\ Reserved
  BY InitTypeOK, InitLocks, InitReserved
<1>2. TypeOK /\ LocksNameTheirHolders /\ Reserved /\ [Next]_vars
      => (TypeOK /\ LocksNameTheirHolders /\ Reserved)'
  BY NextTypeOK, NextLocks, NextReserved
<1>3. Reserved => ReservationsDisjoint
  BY DEF Reserved
<1> QED
  BY <1>1, <1>2, <1>3, PTL DEF Spec

(***************************************************************************)
(* One command of a job: with a Job Object it cannot outlive the           *)
(* supervisor that owns the job, whatever else fails.                      *)
(***************************************************************************)
\* The only step that starts a command is an owner's, and when an owner goes
\* the Job Object takes its command along.
LEMMA NextOwned ==
    ASSUME KillOnClose, TypeOK, CommandsOwned, [Next]_vars
    PROVE  CommandsOwned'
<1> USE DEF TypeOK, CommandsOwned, Busy, Labels, Alive, Owning, Goto, files, sched, procs
<1>1. ASSUME NEW r \in Sessions, NEW j \in Jobs, LaunchNew(r, j) PROVE CommandsOwned'
  BY <1>1 DEF LaunchNew
<1>2. ASSUME NEW r \in Sessions, Publish(r) PROVE CommandsOwned'
  BY <1>2 DEF Publish
<1>3. ASSUME NEW r \in Sessions, NEW j \in Jobs, LaunchAgain(r, j) PROVE CommandsOwned'
  BY <1>3 DEF LaunchAgain
<1>4. ASSUME NEW r \in Sessions, Spawn(r) PROVE CommandsOwned'
  BY <1>4 DEF Spawn
<1>5. ASSUME NEW r \in Sessions, NEW j \in Jobs, Cancel(r, j) PROVE CommandsOwned'
  BY <1>5 DEF Cancel
<1>6. ASSUME NEW r \in Sessions, Request(r) PROVE CommandsOwned'
  BY <1>6 DEF Request
<1>7. ASSUME NEW r \in Sessions, ClearLost(r) PROVE CommandsOwned'
  BY <1>7 DEF ClearLost
<1>8. ASSUME NEW r \in Sessions, ReleaseLost(r) PROVE CommandsOwned'
  BY <1>8 DEF ReleaseLost, Release
<1>9. ASSUME NEW r \in Sessions, NEW j \in Jobs, Overview(r, j) PROVE CommandsOwned'
  BY <1>9 DEF Overview
<1>10. ASSUME NEW r \in Sessions, Prune(r) PROVE CommandsOwned'
  BY <1>10 DEF Prune
<1>11. ASSUME NEW r \in Sessions, SessionEnds(r) PROVE CommandsOwned'
  BY <1>11 DEF SessionEnds
<1>12. ASSUME NEW s \in Sups, Own(s) PROVE CommandsOwned'
  BY <1>12 DEF Own
<1>13. ASSUME NEW s \in Sups, StandDown(s) PROVE CommandsOwned'
  BY <1>13 DEF StandDown
<1>14. ASSUME NEW s \in Sups, Announce(s) PROVE CommandsOwned'
  BY <1>14 DEF Announce
<1>15. ASSUME NEW s \in Sups, Enqueue(s) PROVE CommandsOwned'
  BY <1>15 DEF Enqueue
<1>16. ASSUME NEW s \in Sups, CheckCancel(s) PROVE CommandsOwned'
  BY <1>16 DEF CheckCancel
<1>17. ASSUME NEW s \in Sups, Withdraw(s) PROVE CommandsOwned'
  BY <1>17 DEF Withdraw, Release
<1>18. ASSUME NEW s \in Sups, Withdrawn(s) PROVE CommandsOwned'
  BY <1>18 DEF Withdrawn
<1>19. ASSUME NEW s \in Sups, Ask(s) PROVE CommandsOwned'
  BY <1>19 DEF Ask
<1>20. ASSUME NEW s \in Sups, Refused(s) PROVE CommandsOwned'
  BY <1>20 DEF Refused
<1>21. ASSUME NEW s \in Sups, WriteActive(s) PROVE CommandsOwned'
  BY <1>21 DEF WriteActive
<1>22. ASSUME NEW s \in Sups, LeaveQueue(s) PROVE CommandsOwned'
  BY <1>22 DEF LeaveQueue
<1>23. ASSUME NEW s \in Sups, Build(s) PROVE CommandsOwned'
  BY <1>23 DEF Build
<1>24. ASSUME NEW s \in Sups, Start(s) PROVE CommandsOwned'
  BY <1>24 DEF Start
<1>25. ASSUME NEW s \in Sups, Record(s) PROVE CommandsOwned'
  BY <1>25 DEF Record
<1>26. ASSUME NEW s \in Sups, Kill(s) PROVE CommandsOwned'
  BY <1>26 DEF Kill
<1>27. ASSUME NEW s \in Sups, Reap(s) PROVE CommandsOwned'
  BY <1>27 DEF Reap
<1>28. ASSUME NEW s \in Sups, ReleaseEnded(s) PROVE CommandsOwned'
  BY <1>28 DEF ReleaseEnded, Release
<1>29. ASSUME NEW s \in Sups, Finishing(s) PROVE CommandsOwned'
  BY <1>29 DEF Finishing
<1>30. ASSUME NEW s \in Sups, Finish(s) PROVE CommandsOwned'
  BY <1>30 DEF Finish
<1>31. ASSUME NEW s \in Sups, Raise(s) PROVE CommandsOwned'
  BY <1>31 DEF Raise
<1>32. ASSUME NEW s \in Sups, Cleanup(s) PROVE CommandsOwned'
  BY <1>32 DEF Cleanup, Release
<1>33. ASSUME NEW s \in Sups, Close(s) PROVE CommandsOwned'
  BY <1>33 DEF Close, Orphan
<1>34. ASSUME NEW s \in Sups, ChildEnds(s) PROVE CommandsOwned'
  BY <1>34 DEF ChildEnds
<1>35. ASSUME NEW s \in Sups, Beat(s) PROVE CommandsOwned'
  BY <1>35 DEF Beat
<1>36. ASSUME NEW j \in Jobs, Expire(j) PROVE CommandsOwned'
  BY <1>36 DEF Expire
<1>37. ASSUME NEW j \in Jobs, Older(j) PROVE CommandsOwned'
  BY <1>37 DEF Older
<1>38. ASSUME NEW s \in Sups, Crash(s) PROVE CommandsOwned'
  BY <1>38 DEF Crash, Die, Orphan
<1>39. ASSUME NEW s \in Sups, LockTimeout(s) PROVE CommandsOwned'
  BY <1>39 DEF LockTimeout
<1>40. ASSUME NEW s \in Sups, WriteFails(s) PROVE CommandsOwned'
  BY <1>40 DEF WriteFails
<1>41. ASSUME Reboot PROVE CommandsOwned'
  BY <1>41 DEF Reboot, Die
<1>42. CASE UNCHANGED vars
  BY <1>42 DEF vars
<1> QED
  BY <1>1, <1>2, <1>3, <1>4, <1>5, <1>6, <1>7, <1>8, <1>9, <1>10, <1>11, <1>12,
     <1>13, <1>14, <1>15, <1>16, <1>17, <1>18, <1>19, <1>20, <1>21, <1>22, <1>23, <1>24,
     <1>25, <1>26, <1>27, <1>28, <1>29, <1>30, <1>31, <1>32, <1>33, <1>34, <1>35, <1>36,
     <1>37, <1>38, <1>39, <1>40, <1>41, <1>42
     DEF Next, SessionStep, SupStep, FaultStep

\* However often a job is launched, whoever dies and however late, one command of it runs.
THEOREM OneCommandEver == ASSUME KillOnClose PROVE Spec => []OneCommand
<1> DEFINE Inv == TypeOK /\ LocksNameTheirHolders /\ CommandsOwned
<1>1. Init => Inv
  BY InitTypeOK, InitLocks DEF Init, CommandsOwned, Busy
<1>2. Inv /\ [Next]_vars => Inv'
  BY NextTypeOK, NextLocks, NextOwned
<1>3. ASSUME Inv PROVE OneCommand
  <2> SUFFICES ASSUME NEW s \in Sups, NEW t \in Sups, Busy(s), Busy(t), job[s] = job[t]
               PROVE  s = t
    BY DEF OneCommand
  <2>1. pc[s] \in Owning /\ pc[t] \in Owning /\ job[s] \in Jobs
    BY <1>3 DEF CommandsOwned, TypeOK, Owning, Alive, Labels
  <2>2. supLock[job[s]] = s /\ supLock[job[s]] = t
    BY <1>3, <2>1 DEF LocksNameTheirHolders
  <2> QED
    BY <2>2
<1> QED
  BY <1>1, <1>2, <1>3, PTL DEF Spec

(***************************************************************************)
(* Ends and reruns, whatever fails and however often clients launch.       *)
(***************************************************************************)
\* Nobody has started at the beginning.
LEMMA InitEnds == Init => EndsRecorded
BY DEF Init, EndsRecorded, Owning, Alive, Labels

\* A command that was started has been, also when its supervisor goes.
LEMMA ChildrenStarted ==
    ASSUME TypeOK
    PROVE  /\ \A s \in Sups : Close(s) \/ Crash(s) =>
                 \A t \in Sups : child'[t] # "none" <=> child[t] # "none"
           /\ Reboot => \A t \in Sups : child'[t] # "none" <=> child[t] # "none"
BY DEF TypeOK, Close, Crash, Reboot, Orphan, Busy

\* An end is recorded by the owner of supervisor.lock as it turns to its cleanup, and by
\* sessions, who only record a cancellation; a job with an end is not taken on.
LEMMA NextEndsRecorded ==
    ASSUME TypeOK, LocksNameTheirHolders, EndsRecorded, [Next]_vars
    PROVE  EndsRecorded'
<1> USE DEF TypeOK, LocksNameTheirHolders, EndsRecorded, Owning, Labels, Alive, TerminalStates,
            Calls, Idle, Call, Return, Goto, Set, files, sched, procs
<1>1. ASSUME NEW r \in Sessions, NEW j \in Jobs, LaunchNew(r, j) PROVE EndsRecorded'
  BY <1>1 DEF LaunchNew
<1>2. ASSUME NEW r \in Sessions, Publish(r) PROVE EndsRecorded'
  BY <1>2 DEF Publish
<1>3. ASSUME NEW r \in Sessions, NEW j \in Jobs, LaunchAgain(r, j) PROVE EndsRecorded'
  BY <1>3 DEF LaunchAgain
<1>4. ASSUME NEW r \in Sessions, Spawn(r) PROVE EndsRecorded'
  BY <1>4 DEF Spawn
<1>5. ASSUME NEW r \in Sessions, NEW j \in Jobs, Cancel(r, j) PROVE EndsRecorded'
  BY <1>5 DEF Cancel
<1>6. ASSUME NEW r \in Sessions, Request(r) PROVE EndsRecorded'
  BY <1>6 DEF Request
<1>7. ASSUME NEW r \in Sessions, ClearLost(r) PROVE EndsRecorded'
  BY <1>7 DEF ClearLost
<1>8. ASSUME NEW r \in Sessions, ReleaseLost(r) PROVE EndsRecorded'
  BY <1>8 DEF ReleaseLost, Release
<1>9. ASSUME NEW r \in Sessions, NEW j \in Jobs, Overview(r, j) PROVE EndsRecorded'
  BY <1>9 DEF Overview
<1>10. ASSUME NEW r \in Sessions, Prune(r) PROVE EndsRecorded'
  BY <1>10 DEF Prune
<1>11. ASSUME NEW r \in Sessions, SessionEnds(r) PROVE EndsRecorded'
  BY <1>11 DEF SessionEnds
<1>12. ASSUME NEW s \in Sups, Own(s) PROVE EndsRecorded'
  BY <1>12 DEF Own
<1>13. ASSUME NEW s \in Sups, StandDown(s) PROVE EndsRecorded'
  BY <1>13 DEF StandDown
<1>14. ASSUME NEW s \in Sups, Announce(s) PROVE EndsRecorded'
  BY <1>14 DEF Announce
<1>15. ASSUME NEW s \in Sups, Enqueue(s) PROVE EndsRecorded'
  BY <1>15 DEF Enqueue
<1>16. ASSUME NEW s \in Sups, CheckCancel(s) PROVE EndsRecorded'
  BY <1>16 DEF CheckCancel
<1>17. ASSUME NEW s \in Sups, Withdraw(s) PROVE EndsRecorded'
  BY <1>17 DEF Withdraw, Release
<1>18. ASSUME NEW s \in Sups, Withdrawn(s) PROVE EndsRecorded'
  BY <1>18 DEF Withdrawn
<1>19. ASSUME NEW s \in Sups, Ask(s) PROVE EndsRecorded'
  BY <1>19 DEF Ask
<1>20. ASSUME NEW s \in Sups, Refused(s) PROVE EndsRecorded'
  BY <1>20 DEF Refused
<1>21. ASSUME NEW s \in Sups, WriteActive(s) PROVE EndsRecorded'
  BY <1>21 DEF WriteActive
<1>22. ASSUME NEW s \in Sups, LeaveQueue(s) PROVE EndsRecorded'
  BY <1>22 DEF LeaveQueue
<1>23. ASSUME NEW s \in Sups, Build(s) PROVE EndsRecorded'
  BY <1>23 DEF Build
<1>24. ASSUME NEW s \in Sups, Start(s) PROVE EndsRecorded'
  BY <1>24 DEF Start
<1>25. ASSUME NEW s \in Sups, Record(s) PROVE EndsRecorded'
  BY <1>25 DEF Record
<1>26. ASSUME NEW s \in Sups, Kill(s) PROVE EndsRecorded'
  BY <1>26 DEF Kill
<1>27. ASSUME NEW s \in Sups, Reap(s) PROVE EndsRecorded'
  BY <1>27 DEF Reap
<1>28. ASSUME NEW s \in Sups, ReleaseEnded(s) PROVE EndsRecorded'
  BY <1>28 DEF ReleaseEnded, Release
<1>29. ASSUME NEW s \in Sups, Finishing(s) PROVE EndsRecorded'
  BY <1>29 DEF Finishing
<1>30. ASSUME NEW s \in Sups, Finish(s) PROVE EndsRecorded'
  BY <1>30 DEF Finish
<1>31. ASSUME NEW s \in Sups, Raise(s) PROVE EndsRecorded'
  BY <1>31 DEF Raise
<1>32. ASSUME NEW s \in Sups, Cleanup(s) PROVE EndsRecorded'
  BY <1>32 DEF Cleanup, Release
<1>33. ASSUME NEW s \in Sups, Close(s) PROVE EndsRecorded'
  <2>1. \A t \in Sups : child'[t] # "none" <=> child[t] # "none"
    BY <1>33, ChildrenStarted
  <2>2. /\ status' = status /\ job' = job
        /\ pc[s] = "closing" /\ pc' = [pc EXCEPT ![s] = "exited"]
    BY <1>33 DEF Close
  <2>3. \A t \in Sups : t # s /\ pc[t] \in Owning => job[t] # job[s]
    BY <2>2
  <2> QED
    BY <2>1, <2>2, <2>3
<1>34. ASSUME NEW s \in Sups, ChildEnds(s) PROVE EndsRecorded'
  BY <1>34 DEF ChildEnds
<1>35. ASSUME NEW s \in Sups, Beat(s) PROVE EndsRecorded'
  BY <1>35 DEF Beat
<1>36. ASSUME NEW j \in Jobs, Expire(j) PROVE EndsRecorded'
  BY <1>36 DEF Expire
<1>37. ASSUME NEW j \in Jobs, Older(j) PROVE EndsRecorded'
  BY <1>37 DEF Older
<1>38. ASSUME NEW s \in Sups, Crash(s) PROVE EndsRecorded'
  <2>1. \A t \in Sups : child'[t] # "none" <=> child[t] # "none"
    BY <1>38, ChildrenStarted
  <2>2. /\ status' = status /\ job' = job
        /\ \A t \in Sups : pc'[t] \in {pc[t], "crashed"}
    BY <1>38 DEF Crash, Die
  <2> QED
    BY <2>1, <2>2
<1>39. ASSUME NEW s \in Sups, LockTimeout(s) PROVE EndsRecorded'
  BY <1>39 DEF LockTimeout
<1>40. ASSUME NEW s \in Sups, WriteFails(s) PROVE EndsRecorded'
  BY <1>40 DEF WriteFails
<1>41. ASSUME Reboot PROVE EndsRecorded'
  <2>1. \A t \in Sups : child'[t] # "none" <=> child[t] # "none"
    BY <1>41, ChildrenStarted
  <2>2. /\ status' = status /\ job' = job
        /\ \A t \in Sups : pc'[t] \in {pc[t], "crashed"}
    BY <1>41 DEF Reboot, Die
  <2> QED
    BY <2>1, <2>2
<1>42. CASE UNCHANGED vars
  BY <1>42 DEF vars
<1> QED
  BY <1>1, <1>2, <1>3, <1>4, <1>5, <1>6, <1>7, <1>8, <1>9, <1>10, <1>11, <1>12,
     <1>13, <1>14, <1>15, <1>16, <1>17, <1>18, <1>19, <1>20, <1>21, <1>22, <1>23, <1>24,
     <1>25, <1>26, <1>27, <1>28, <1>29, <1>30, <1>31, <1>32, <1>33, <1>34, <1>35, <1>36,
     <1>37, <1>38, <1>39, <1>40, <1>41, <1>42
     DEF Next, SessionStep, SupStep, FaultStep

\* Who starts a command owns the job, so whoever ran it before has died.
LEMMA NextRerunsFollow ==
    ASSUME TypeOK, LocksNameTheirHolders, EndsRecorded, RerunsFollowACrash, [Next]_vars
    PROVE  RerunsFollowACrash'
<1> USE DEF TypeOK, LocksNameTheirHolders, EndsRecorded, RerunsFollowACrash, Owning,
            Labels, Alive, TerminalStates, Calls, Idle, Call,
            Return, Goto, Set, files, sched, procs
<1>1. ASSUME NEW r \in Sessions, NEW j \in Jobs, LaunchNew(r, j) PROVE RerunsFollowACrash'
  BY <1>1 DEF LaunchNew
<1>2. ASSUME NEW r \in Sessions, Publish(r) PROVE RerunsFollowACrash'
  BY <1>2 DEF Publish
<1>3. ASSUME NEW r \in Sessions, NEW j \in Jobs, LaunchAgain(r, j) PROVE RerunsFollowACrash'
  BY <1>3 DEF LaunchAgain
<1>4. ASSUME NEW r \in Sessions, Spawn(r) PROVE RerunsFollowACrash'
  BY <1>4 DEF Spawn
<1>5. ASSUME NEW r \in Sessions, NEW j \in Jobs, Cancel(r, j) PROVE RerunsFollowACrash'
  BY <1>5 DEF Cancel
<1>6. ASSUME NEW r \in Sessions, Request(r) PROVE RerunsFollowACrash'
  BY <1>6 DEF Request
<1>7. ASSUME NEW r \in Sessions, ClearLost(r) PROVE RerunsFollowACrash'
  BY <1>7 DEF ClearLost
<1>8. ASSUME NEW r \in Sessions, ReleaseLost(r) PROVE RerunsFollowACrash'
  BY <1>8 DEF ReleaseLost, Release
<1>9. ASSUME NEW r \in Sessions, NEW j \in Jobs, Overview(r, j) PROVE RerunsFollowACrash'
  BY <1>9 DEF Overview
<1>10. ASSUME NEW r \in Sessions, Prune(r) PROVE RerunsFollowACrash'
  BY <1>10 DEF Prune
<1>11. ASSUME NEW r \in Sessions, SessionEnds(r) PROVE RerunsFollowACrash'
  BY <1>11 DEF SessionEnds
<1>12. ASSUME NEW s \in Sups, Own(s) PROVE RerunsFollowACrash'
  BY <1>12 DEF Own
<1>13. ASSUME NEW s \in Sups, StandDown(s) PROVE RerunsFollowACrash'
  BY <1>13 DEF StandDown
<1>14. ASSUME NEW s \in Sups, Announce(s) PROVE RerunsFollowACrash'
  BY <1>14 DEF Announce
<1>15. ASSUME NEW s \in Sups, Enqueue(s) PROVE RerunsFollowACrash'
  BY <1>15 DEF Enqueue
<1>16. ASSUME NEW s \in Sups, CheckCancel(s) PROVE RerunsFollowACrash'
  BY <1>16 DEF CheckCancel
<1>17. ASSUME NEW s \in Sups, Withdraw(s) PROVE RerunsFollowACrash'
  BY <1>17 DEF Withdraw, Release
<1>18. ASSUME NEW s \in Sups, Withdrawn(s) PROVE RerunsFollowACrash'
  BY <1>18 DEF Withdrawn
<1>19. ASSUME NEW s \in Sups, Ask(s) PROVE RerunsFollowACrash'
  BY <1>19 DEF Ask
<1>20. ASSUME NEW s \in Sups, Refused(s) PROVE RerunsFollowACrash'
  BY <1>20 DEF Refused
<1>21. ASSUME NEW s \in Sups, WriteActive(s) PROVE RerunsFollowACrash'
  BY <1>21 DEF WriteActive
<1>22. ASSUME NEW s \in Sups, LeaveQueue(s) PROVE RerunsFollowACrash'
  BY <1>22 DEF LeaveQueue
<1>23. ASSUME NEW s \in Sups, Build(s) PROVE RerunsFollowACrash'
  BY <1>23 DEF Build
<1>24. ASSUME NEW s \in Sups, Start(s) PROVE RerunsFollowACrash'
  BY <1>24 DEF Start
<1>25. ASSUME NEW s \in Sups, Record(s) PROVE RerunsFollowACrash'
  BY <1>25 DEF Record
<1>26. ASSUME NEW s \in Sups, Kill(s) PROVE RerunsFollowACrash'
  BY <1>26 DEF Kill
<1>27. ASSUME NEW s \in Sups, Reap(s) PROVE RerunsFollowACrash'
  BY <1>27 DEF Reap
<1>28. ASSUME NEW s \in Sups, ReleaseEnded(s) PROVE RerunsFollowACrash'
  BY <1>28 DEF ReleaseEnded, Release
<1>29. ASSUME NEW s \in Sups, Finishing(s) PROVE RerunsFollowACrash'
  BY <1>29 DEF Finishing
<1>30. ASSUME NEW s \in Sups, Finish(s) PROVE RerunsFollowACrash'
  BY <1>30 DEF Finish
<1>31. ASSUME NEW s \in Sups, Raise(s) PROVE RerunsFollowACrash'
  BY <1>31 DEF Raise
<1>32. ASSUME NEW s \in Sups, Cleanup(s) PROVE RerunsFollowACrash'
  BY <1>32 DEF Cleanup, Release
<1>33. ASSUME NEW s \in Sups, Close(s) PROVE RerunsFollowACrash'
  <2>1. \A t \in Sups : child'[t] # "none" <=> child[t] # "none"
    BY <1>33, ChildrenStarted
  <2>2. /\ job' = job
        /\ pc[s] = "closing" /\ pc' = [pc EXCEPT ![s] = "exited"]
    BY <1>33 DEF Close
  <2> QED
    BY <2>1, <2>2
<1>34. ASSUME NEW s \in Sups, ChildEnds(s) PROVE RerunsFollowACrash'
  BY <1>34 DEF ChildEnds
<1>35. ASSUME NEW s \in Sups, Beat(s) PROVE RerunsFollowACrash'
  BY <1>35 DEF Beat
<1>36. ASSUME NEW j \in Jobs, Expire(j) PROVE RerunsFollowACrash'
  BY <1>36 DEF Expire
<1>37. ASSUME NEW j \in Jobs, Older(j) PROVE RerunsFollowACrash'
  BY <1>37 DEF Older
<1>38. ASSUME NEW s \in Sups, Crash(s) PROVE RerunsFollowACrash'
  BY <1>38, ChildrenStarted DEF Crash, Die
<1>39. ASSUME NEW s \in Sups, LockTimeout(s) PROVE RerunsFollowACrash'
  BY <1>39 DEF LockTimeout
<1>40. ASSUME NEW s \in Sups, WriteFails(s) PROVE RerunsFollowACrash'
  BY <1>40 DEF WriteFails
<1>41. ASSUME Reboot PROVE RerunsFollowACrash'
  BY <1>41, ChildrenStarted DEF Reboot, Die
<1>42. CASE UNCHANGED vars
  BY <1>42 DEF vars
<1> QED
  BY <1>1, <1>2, <1>3, <1>4, <1>5, <1>6, <1>7, <1>8, <1>9, <1>10, <1>11, <1>12,
     <1>13, <1>14, <1>15, <1>16, <1>17, <1>18, <1>19, <1>20, <1>21, <1>22, <1>23, <1>24,
     <1>25, <1>26, <1>27, <1>28, <1>29, <1>30, <1>31, <1>32, <1>33, <1>34, <1>35, <1>36,
     <1>37, <1>38, <1>39, <1>40, <1>41, <1>42
     DEF Next, SessionStep, SupStep, FaultStep

\* However often a launch is repeated and whoever dies: of the supervisors that started
\* the command of a job all but one died on the way.
THEOREM RerunsOnlyAfterACrash == Spec => []RerunsFollowACrash
<1> DEFINE Inv == TypeOK /\ LocksNameTheirHolders /\ EndsRecorded /\ RerunsFollowACrash
<1>1. Init => RerunsFollowACrash
  BY DEF Init, RerunsFollowACrash
<1>2. Init => Inv
  BY <1>1, InitTypeOK, InitLocks, InitEnds
<1>3. Inv /\ [Next]_vars => Inv'
  BY NextTypeOK, NextLocks, NextEndsRecorded, NextRerunsFollow
<1> QED
  BY <1>2, <1>3, PTL DEF Spec

\* The end a supervisor recorded, through every step.
LEMMA EndsStay ==
    ASSUME TypeOK, LocksNameTheirHolders, EndsRecorded, [Next]_vars,
           NEW j \in Jobs, status[j] \in {"done", "failed", "error"}
    PROVE  status'[j] \in {status[j], "cancelled"}
<1> USE DEF TypeOK, LocksNameTheirHolders, EndsRecorded, Owning, Labels, Alive, TerminalStates,
            Calls, Idle, Call, Return, Goto, Set, files, sched, procs
<1> DEFINE Stays == status'[j] \in {status[j], "cancelled"}
<1>1. ASSUME NEW r \in Sessions, NEW k \in Jobs, LaunchNew(r, k) PROVE Stays
  BY <1>1 DEF LaunchNew
<1>2. ASSUME NEW r \in Sessions, Publish(r) PROVE Stays
  BY <1>2 DEF Publish
<1>3. ASSUME NEW r \in Sessions, NEW k \in Jobs, LaunchAgain(r, k) PROVE Stays
  BY <1>3 DEF LaunchAgain
<1>4. ASSUME NEW r \in Sessions, Spawn(r) PROVE Stays
  BY <1>4 DEF Spawn
<1>5. ASSUME NEW r \in Sessions, NEW k \in Jobs, Cancel(r, k) PROVE Stays
  BY <1>5 DEF Cancel
<1>6. ASSUME NEW r \in Sessions, Request(r) PROVE Stays
  BY <1>6 DEF Request
<1>7. ASSUME NEW r \in Sessions, ClearLost(r) PROVE Stays
  BY <1>7 DEF ClearLost
<1>8. ASSUME NEW r \in Sessions, ReleaseLost(r) PROVE Stays
  BY <1>8 DEF ReleaseLost, Release
<1>9. ASSUME NEW r \in Sessions, NEW k \in Jobs, Overview(r, k) PROVE Stays
  BY <1>9 DEF Overview
<1>10. ASSUME NEW r \in Sessions, Prune(r) PROVE Stays
  BY <1>10 DEF Prune
<1>11. ASSUME NEW r \in Sessions, SessionEnds(r) PROVE Stays
  BY <1>11 DEF SessionEnds
<1>12. ASSUME NEW s \in Sups, Own(s) PROVE Stays
  BY <1>12 DEF Own
<1>13. ASSUME NEW s \in Sups, StandDown(s) PROVE Stays
  BY <1>13 DEF StandDown
<1>14. ASSUME NEW s \in Sups, Announce(s) PROVE Stays
  BY <1>14 DEF Announce
<1>15. ASSUME NEW s \in Sups, Enqueue(s) PROVE Stays
  BY <1>15 DEF Enqueue
<1>16. ASSUME NEW s \in Sups, CheckCancel(s) PROVE Stays
  BY <1>16 DEF CheckCancel
<1>17. ASSUME NEW s \in Sups, Withdraw(s) PROVE Stays
  BY <1>17 DEF Withdraw, Release
<1>18. ASSUME NEW s \in Sups, Withdrawn(s) PROVE Stays
  BY <1>18 DEF Withdrawn
<1>19. ASSUME NEW s \in Sups, Ask(s) PROVE Stays
  BY <1>19 DEF Ask
<1>20. ASSUME NEW s \in Sups, Refused(s) PROVE Stays
  BY <1>20 DEF Refused
<1>21. ASSUME NEW s \in Sups, WriteActive(s) PROVE Stays
  BY <1>21 DEF WriteActive
<1>22. ASSUME NEW s \in Sups, LeaveQueue(s) PROVE Stays
  BY <1>22 DEF LeaveQueue
<1>23. ASSUME NEW s \in Sups, Build(s) PROVE Stays
  BY <1>23 DEF Build
<1>24. ASSUME NEW s \in Sups, Start(s) PROVE Stays
  BY <1>24 DEF Start
<1>25. ASSUME NEW s \in Sups, Record(s) PROVE Stays
  BY <1>25 DEF Record
<1>26. ASSUME NEW s \in Sups, Kill(s) PROVE Stays
  BY <1>26 DEF Kill
<1>27. ASSUME NEW s \in Sups, Reap(s) PROVE Stays
  BY <1>27 DEF Reap
<1>28. ASSUME NEW s \in Sups, ReleaseEnded(s) PROVE Stays
  BY <1>28 DEF ReleaseEnded, Release
<1>29. ASSUME NEW s \in Sups, Finishing(s) PROVE Stays
  BY <1>29 DEF Finishing
<1>30. ASSUME NEW s \in Sups, Finish(s) PROVE Stays
  BY <1>30 DEF Finish
<1>31. ASSUME NEW s \in Sups, Raise(s) PROVE Stays
  BY <1>31 DEF Raise
<1>32. ASSUME NEW s \in Sups, Cleanup(s) PROVE Stays
  BY <1>32 DEF Cleanup, Release
<1>33. ASSUME NEW s \in Sups, Close(s) PROVE Stays
  BY <1>33 DEF Close
<1>34. ASSUME NEW s \in Sups, ChildEnds(s) PROVE Stays
  BY <1>34 DEF ChildEnds
<1>35. ASSUME NEW s \in Sups, Beat(s) PROVE Stays
  BY <1>35 DEF Beat
<1>36. ASSUME NEW k \in Jobs, Expire(k) PROVE Stays
  BY <1>36 DEF Expire
<1>37. ASSUME NEW k \in Jobs, Older(k) PROVE Stays
  BY <1>37 DEF Older
<1>38. ASSUME NEW s \in Sups, Crash(s) PROVE Stays
  BY <1>38 DEF Crash, Die
<1>39. ASSUME NEW s \in Sups, LockTimeout(s) PROVE Stays
  BY <1>39 DEF LockTimeout
<1>40. ASSUME NEW s \in Sups, WriteFails(s) PROVE Stays
  BY <1>40 DEF WriteFails
<1>41. ASSUME Reboot PROVE Stays
  BY <1>41 DEF Reboot, Die
<1>42. CASE UNCHANGED vars
  BY <1>42 DEF vars
<1> QED
  BY <1>1, <1>2, <1>3, <1>4, <1>5, <1>6, <1>7, <1>8, <1>9, <1>10, <1>11, <1>12,
     <1>13, <1>14, <1>15, <1>16, <1>17, <1>18, <1>19, <1>20, <1>21, <1>22, <1>23, <1>24,
     <1>25, <1>26, <1>27, <1>28, <1>29, <1>30, <1>31, <1>32, <1>33, <1>34, <1>35, <1>36,
     <1>37, <1>38, <1>39, <1>40, <1>41, <1>42
     DEF Next, SessionStep, SupStep, FaultStep

\* What was recorded as done, failed or error is not taken back.
THEOREM RecordedEndsStay == Spec => EndsAreKept
<1>1. TypeOK /\ LocksNameTheirHolders /\ EndsRecorded /\ [Next]_vars =>
        [\A j \in Jobs : status[j] \in {"done", "failed", "error"} =>
            status'[j] \in {status[j], "cancelled"}]_vars
  BY EndsStay
<1> DEFINE Inv == TypeOK /\ LocksNameTheirHolders /\ EndsRecorded
<1>2. Init => Inv
  BY InitTypeOK, InitLocks, InitEnds
<1>3. Inv /\ [Next]_vars => Inv'
  BY NextTypeOK, NextLocks, NextEndsRecorded
<1> QED
  BY <1>1, <1>2, <1>3, PTL DEF Spec, EndsAreKept

(***************************************************************************)
(* With a Job Object, no lapse, no failing write and no repeated launch,   *)
(* whoever crashes: a command runs only under its supervisor and its own   *)
(* reservation, and nobody clears its job.                                 *)
(***************************************************************************)
Dependable == KillOnClose /\ "lapse" \notin Faults /\ "write" \notin Faults /\ ~Respawn

Watched == OneSupervisor /\ SeenAlive /\ ClearedJobsAreDead /\ HeldThroughout

\* Nothing is launched at the start.
LEMMA InitWatched == Init => Watched
BY DEF Init, Watched, OneSupervisor, SeenAlive, ClearedJobsAreDead, HeldThroughout, Expected,
       Keeper, Beating, Owning, Alive, Labels, Busy, Idle

\* Only the publisher of a directory spawns, and it spawns once.
LEMMA NextOneSupervisor ==
    ASSUME ~Respawn, TypeOK, LocksNameTheirHolders, OneSupervisor, [Next]_vars
    PROVE  OneSupervisor'
<1> USE DEF TypeOK, LocksNameTheirHolders, OneSupervisor, Labels, Alive, Calls,
            Idle, Call, Return, Goto, files, sched, procs
<1>1. ASSUME NEW r \in Sessions, NEW j \in Jobs, LaunchNew(r, j) PROVE OneSupervisor'
  BY <1>1 DEF LaunchNew
<1>2. ASSUME NEW r \in Sessions, Publish(r) PROVE OneSupervisor'
  <2>1. CASE status[rpc[r].job] # "none"
    BY <1>2, <2>1 DEF Publish
  <2>2. CASE status[rpc[r].job] = "none"
    <3>1. /\ \A s \in Sups : pc[s] # "none" => job[s] # rpc[r].job
          /\ \A q \in Sessions : rpc[q].at \notin {"idle", "publish"} => rpc[q].job # rpc[r].job
      BY <2>2
    <3>2. /\ rpc'[r].at = "spawn" /\ rpc'[r].job = rpc[r].job
          /\ \A q \in Sessions : q # r => rpc'[q] = rpc[q]
      BY <1>2, <2>2 DEF Publish
    <3>3. pc' = pc /\ job' = job
      BY <1>2 DEF Publish
    <3> QED
      BY <3>1, <3>2, <3>3
  <2> QED
    BY <2>1, <2>2
<1>3. ASSUME NEW r \in Sessions, NEW j \in Jobs, LaunchAgain(r, j) PROVE OneSupervisor'
  BY <1>3 DEF LaunchAgain
<1>4. ASSUME NEW r \in Sessions, Spawn(r) PROVE OneSupervisor'
  BY <1>4 DEF Spawn
<1>5. ASSUME NEW r \in Sessions, NEW j \in Jobs, Cancel(r, j) PROVE OneSupervisor'
  BY <1>5 DEF Cancel
<1>6. ASSUME NEW r \in Sessions, Request(r) PROVE OneSupervisor'
  BY <1>6 DEF Request
<1>7. ASSUME NEW r \in Sessions, ClearLost(r) PROVE OneSupervisor'
  BY <1>7 DEF ClearLost
<1>8. ASSUME NEW r \in Sessions, ReleaseLost(r) PROVE OneSupervisor'
  BY <1>8 DEF ReleaseLost, Release
<1>9. ASSUME NEW r \in Sessions, NEW j \in Jobs, Overview(r, j) PROVE OneSupervisor'
  BY <1>9 DEF Overview
<1>10. ASSUME NEW r \in Sessions, Prune(r) PROVE OneSupervisor'
  BY <1>10 DEF Prune
<1>11. ASSUME NEW r \in Sessions, SessionEnds(r) PROVE OneSupervisor'
  BY <1>11 DEF SessionEnds
<1>12. ASSUME NEW s \in Sups, Own(s) PROVE OneSupervisor'
  BY <1>12 DEF Own
<1>13. ASSUME NEW s \in Sups, StandDown(s) PROVE OneSupervisor'
  BY <1>13 DEF StandDown
<1>14. ASSUME NEW s \in Sups, Announce(s) PROVE OneSupervisor'
  BY <1>14 DEF Announce
<1>15. ASSUME NEW s \in Sups, Enqueue(s) PROVE OneSupervisor'
  BY <1>15 DEF Enqueue
<1>16. ASSUME NEW s \in Sups, CheckCancel(s) PROVE OneSupervisor'
  BY <1>16 DEF CheckCancel
<1>17. ASSUME NEW s \in Sups, Withdraw(s) PROVE OneSupervisor'
  BY <1>17 DEF Withdraw, Release
<1>18. ASSUME NEW s \in Sups, Withdrawn(s) PROVE OneSupervisor'
  BY <1>18 DEF Withdrawn
<1>19. ASSUME NEW s \in Sups, Ask(s) PROVE OneSupervisor'
  BY <1>19 DEF Ask
<1>20. ASSUME NEW s \in Sups, Refused(s) PROVE OneSupervisor'
  BY <1>20 DEF Refused
<1>21. ASSUME NEW s \in Sups, WriteActive(s) PROVE OneSupervisor'
  BY <1>21 DEF WriteActive
<1>22. ASSUME NEW s \in Sups, LeaveQueue(s) PROVE OneSupervisor'
  BY <1>22 DEF LeaveQueue
<1>23. ASSUME NEW s \in Sups, Build(s) PROVE OneSupervisor'
  BY <1>23 DEF Build
<1>24. ASSUME NEW s \in Sups, Start(s) PROVE OneSupervisor'
  BY <1>24 DEF Start
<1>25. ASSUME NEW s \in Sups, Record(s) PROVE OneSupervisor'
  BY <1>25 DEF Record
<1>26. ASSUME NEW s \in Sups, Kill(s) PROVE OneSupervisor'
  BY <1>26 DEF Kill
<1>27. ASSUME NEW s \in Sups, Reap(s) PROVE OneSupervisor'
  BY <1>27 DEF Reap
<1>28. ASSUME NEW s \in Sups, ReleaseEnded(s) PROVE OneSupervisor'
  BY <1>28 DEF ReleaseEnded, Release
<1>29. ASSUME NEW s \in Sups, Finishing(s) PROVE OneSupervisor'
  BY <1>29 DEF Finishing
<1>30. ASSUME NEW s \in Sups, Finish(s) PROVE OneSupervisor'
  BY <1>30 DEF Finish
<1>31. ASSUME NEW s \in Sups, Raise(s) PROVE OneSupervisor'
  BY <1>31 DEF Raise
<1>32. ASSUME NEW s \in Sups, Cleanup(s) PROVE OneSupervisor'
  BY <1>32 DEF Cleanup, Release
<1>33. ASSUME NEW s \in Sups, Close(s) PROVE OneSupervisor'
  BY <1>33 DEF Close
<1>34. ASSUME NEW s \in Sups, ChildEnds(s) PROVE OneSupervisor'
  BY <1>34 DEF ChildEnds
<1>35. ASSUME NEW s \in Sups, Beat(s) PROVE OneSupervisor'
  BY <1>35 DEF Beat
<1>36. ASSUME NEW j \in Jobs, Expire(j) PROVE OneSupervisor'
  BY <1>36 DEF Expire
<1>37. ASSUME NEW j \in Jobs, Older(j) PROVE OneSupervisor'
  BY <1>37 DEF Older
<1>38. ASSUME NEW s \in Sups, Crash(s) PROVE OneSupervisor'
  BY <1>38 DEF Crash, Die
<1>39. ASSUME NEW s \in Sups, LockTimeout(s) PROVE OneSupervisor'
  BY <1>39 DEF LockTimeout
<1>40. ASSUME NEW s \in Sups, WriteFails(s) PROVE OneSupervisor'
  BY <1>40 DEF WriteFails
<1>41. ASSUME Reboot PROVE OneSupervisor'
  BY <1>41 DEF Reboot, Die
<1>42. CASE UNCHANGED vars
  BY <1>42 DEF vars
<1> QED
  BY <1>1, <1>2, <1>3, <1>4, <1>5, <1>6, <1>7, <1>8, <1>9, <1>10, <1>11, <1>12,
     <1>13, <1>14, <1>15, <1>16, <1>17, <1>18, <1>19, <1>20, <1>21, <1>22, <1>23, <1>24,
     <1>25, <1>26, <1>27, <1>28, <1>29, <1>30, <1>31, <1>32, <1>33, <1>34, <1>35, <1>36,
     <1>37, <1>38, <1>39, <1>40, <1>41, <1>42
     DEF Next, SessionStep, SupStep, FaultStep

\* A job with a supervisor, or one to come, is never seen lost.
LEMMA NextSeenAlive ==
    ASSUME Dependable, TypeOK, LocksNameTheirHolders, OneSupervisor, SeenAlive, [Next]_vars
    PROVE  SeenAlive'
<1> USE DEF Dependable, TypeOK, LocksNameTheirHolders, OneSupervisor, SeenAlive, Expected,
            Keeper, Beating, Owning, Labels, Alive, Calls, Idle, Call, Return, Goto, Set,
            files, sched, procs
<1>1. ASSUME NEW r \in Sessions, NEW j \in Jobs, LaunchNew(r, j) PROVE SeenAlive'
  BY <1>1 DEF LaunchNew
<1>2. ASSUME NEW r \in Sessions, Publish(r) PROVE SeenAlive'
  <2>1. CASE status[rpc[r].job] # "none"
    BY <1>2, <2>1 DEF Publish
  <2>2. CASE status[rpc[r].job] = "none"
    <3>1. /\ \A s \in Sups : pc[s] # "none" => job[s] # rpc[r].job
          /\ \A q \in Sessions : rpc[q].at \notin {"idle", "publish"} => rpc[q].job # rpc[r].job
      BY <2>2
    <3>2. /\ rpc'[r].at = "spawn" /\ rpc'[r].job = rpc[r].job
          /\ \A q \in Sessions : q # r => rpc'[q] = rpc[q]
      BY <1>2, <2>2 DEF Publish
    <3>3. pc' = pc /\ job' = job
      BY <1>2 DEF Publish
    <3> QED
      BY <1>2, <2>2, <3>1, <3>2, <3>3 DEF Publish
  <2> QED
    BY <2>1, <2>2
<1>3. ASSUME NEW r \in Sessions, NEW j \in Jobs, LaunchAgain(r, j) PROVE SeenAlive'
  BY <1>3 DEF LaunchAgain
<1>4. ASSUME NEW r \in Sessions, Spawn(r) PROVE SeenAlive'
  BY <1>4 DEF Spawn
<1>5. ASSUME NEW r \in Sessions, NEW j \in Jobs, Cancel(r, j) PROVE SeenAlive'
  BY <1>5 DEF Cancel
<1>6. ASSUME NEW r \in Sessions, Request(r) PROVE SeenAlive'
  BY <1>6 DEF Request
<1>7. ASSUME NEW r \in Sessions, ClearLost(r) PROVE SeenAlive'
  BY <1>7 DEF ClearLost
<1>8. ASSUME NEW r \in Sessions, ReleaseLost(r) PROVE SeenAlive'
  BY <1>8 DEF ReleaseLost, Release
<1>9. ASSUME NEW r \in Sessions, NEW j \in Jobs, Overview(r, j) PROVE SeenAlive'
  BY <1>9 DEF Overview
<1>10. ASSUME NEW r \in Sessions, Prune(r) PROVE SeenAlive'
  BY <1>10 DEF Prune
<1>11. ASSUME NEW r \in Sessions, SessionEnds(r) PROVE SeenAlive'
  BY <1>11 DEF SessionEnds
<1>12. ASSUME NEW s \in Sups, Own(s) PROVE SeenAlive'
  BY <1>12 DEF Own
<1>13. ASSUME NEW s \in Sups, StandDown(s) PROVE SeenAlive'
  BY <1>13 DEF StandDown
<1>14. ASSUME NEW s \in Sups, Announce(s) PROVE SeenAlive'
  BY <1>14 DEF Announce
<1>15. ASSUME NEW s \in Sups, Enqueue(s) PROVE SeenAlive'
  BY <1>15 DEF Enqueue
<1>16. ASSUME NEW s \in Sups, CheckCancel(s) PROVE SeenAlive'
  BY <1>16 DEF CheckCancel
<1>17. ASSUME NEW s \in Sups, Withdraw(s) PROVE SeenAlive'
  BY <1>17 DEF Withdraw, Release
<1>18. ASSUME NEW s \in Sups, Withdrawn(s) PROVE SeenAlive'
  BY <1>18 DEF Withdrawn
<1>19. ASSUME NEW s \in Sups, Ask(s) PROVE SeenAlive'
  BY <1>19 DEF Ask, LiveHeld, LiveQueued
<1>20. ASSUME NEW s \in Sups, Refused(s) PROVE SeenAlive'
  BY <1>20 DEF Refused
<1>21. ASSUME NEW s \in Sups, WriteActive(s) PROVE SeenAlive'
  BY <1>21 DEF WriteActive
<1>22. ASSUME NEW s \in Sups, LeaveQueue(s) PROVE SeenAlive'
  BY <1>22 DEF LeaveQueue
<1>23. ASSUME NEW s \in Sups, Build(s) PROVE SeenAlive'
  BY <1>23 DEF Build
<1>24. ASSUME NEW s \in Sups, Start(s) PROVE SeenAlive'
  BY <1>24 DEF Start
<1>25. ASSUME NEW s \in Sups, Record(s) PROVE SeenAlive'
  BY <1>25 DEF Record
<1>26. ASSUME NEW s \in Sups, Kill(s) PROVE SeenAlive'
  BY <1>26 DEF Kill
<1>27. ASSUME NEW s \in Sups, Reap(s) PROVE SeenAlive'
  BY <1>27 DEF Reap
<1>28. ASSUME NEW s \in Sups, ReleaseEnded(s) PROVE SeenAlive'
  BY <1>28 DEF ReleaseEnded, Release
<1>29. ASSUME NEW s \in Sups, Finishing(s) PROVE SeenAlive'
  BY <1>29 DEF Finishing
<1>30. ASSUME NEW s \in Sups, Finish(s) PROVE SeenAlive'
  <2>1. PICK final \in {"done", "failed", "cancelled"} : Set(s, final)
    BY <1>30 DEF Finish
  <2> QED
    BY <1>30, <2>1 DEF Finish
<1>31. ASSUME NEW s \in Sups, Raise(s) PROVE SeenAlive'
  BY <1>31 DEF Raise
<1>32. ASSUME NEW s \in Sups, Cleanup(s) PROVE SeenAlive'
  BY <1>32 DEF Cleanup, Release
<1>33. ASSUME NEW s \in Sups, Close(s) PROVE SeenAlive'
  BY <1>33 DEF Close
<1>34. ASSUME NEW s \in Sups, ChildEnds(s) PROVE SeenAlive'
  BY <1>34 DEF ChildEnds
<1>35. ASSUME NEW s \in Sups, Beat(s) PROVE SeenAlive'
  BY <1>35 DEF Beat
<1>36. ASSUME NEW j \in Jobs, Expire(j) PROVE SeenAlive'
  BY <1>36 DEF Expire
<1>37. ASSUME NEW j \in Jobs, Older(j) PROVE SeenAlive'
  BY <1>37 DEF Older
<1>38. ASSUME NEW s \in Sups, Crash(s) PROVE SeenAlive'
  BY <1>38 DEF Crash, Die
<1>39. ASSUME NEW s \in Sups, LockTimeout(s) PROVE SeenAlive'
  BY <1>39 DEF LockTimeout
<1>40. ASSUME NEW s \in Sups, WriteFails(s) PROVE SeenAlive'
  BY <1>40 DEF WriteFails
<1>41. ASSUME Reboot PROVE SeenAlive'
  BY <1>41 DEF Reboot, Die
<1>42. CASE UNCHANGED vars
  BY <1>42 DEF vars
<1> QED
  BY <1>1, <1>2, <1>3, <1>4, <1>5, <1>6, <1>7, <1>8, <1>9, <1>10, <1>11, <1>12,
     <1>13, <1>14, <1>15, <1>16, <1>17, <1>18, <1>19, <1>20, <1>21, <1>22, <1>23, <1>24,
     <1>25, <1>26, <1>27, <1>28, <1>29, <1>30, <1>31, <1>32, <1>33, <1>34, <1>35, <1>36,
     <1>37, <1>38, <1>39, <1>40, <1>41, <1>42
     DEF Next, SessionStep, SupStep, FaultStep

\* A session that clears a job found it lost, and nobody comes back to it.
LEMMA NextClearedDead ==
    ASSUME Dependable, TypeOK, LocksNameTheirHolders, OneSupervisor, SeenAlive,
           ClearedJobsAreDead, [Next]_vars
    PROVE  ClearedJobsAreDead'
<1> USE DEF Dependable, TypeOK, LocksNameTheirHolders, OneSupervisor, SeenAlive,
            ClearedJobsAreDead, Expected, Keeper, Beating, Owning, Labels, Alive, Calls, Idle,
            Call, Return, Goto, files, sched, procs
<1>1. ASSUME NEW r \in Sessions, NEW j \in Jobs, LaunchNew(r, j) PROVE ClearedJobsAreDead'
  BY <1>1 DEF LaunchNew
<1>2. ASSUME NEW r \in Sessions, Publish(r) PROVE ClearedJobsAreDead'
  <2>1. CASE status[rpc[r].job] # "none"
    BY <1>2, <2>1 DEF Publish
  <2>2. CASE status[rpc[r].job] = "none"
    <3>1. /\ \A s \in Sups : pc[s] # "none" => job[s] # rpc[r].job
          /\ \A q \in Sessions : rpc[q].at \notin {"idle", "publish"} => rpc[q].job # rpc[r].job
      BY <2>2
    <3>2. /\ rpc'[r].at = "spawn" /\ rpc'[r].job = rpc[r].job
          /\ \A q \in Sessions : q # r => rpc'[q] = rpc[q]
      BY <1>2, <2>2 DEF Publish
    <3>3. pc' = pc /\ job' = job
      BY <1>2 DEF Publish
    <3> QED
      BY <3>1, <3>2, <3>3
  <2> QED
    BY <2>1, <2>2
<1>3. ASSUME NEW r \in Sessions, NEW j \in Jobs, LaunchAgain(r, j) PROVE ClearedJobsAreDead'
  BY <1>3 DEF LaunchAgain
<1>4. ASSUME NEW r \in Sessions, Spawn(r) PROVE ClearedJobsAreDead'
  BY <1>4 DEF Spawn
<1>5. ASSUME NEW r \in Sessions, NEW j \in Jobs, Cancel(r, j) PROVE ClearedJobsAreDead'
  BY <1>5 DEF Cancel, Derived, Lost
<1>6. ASSUME NEW r \in Sessions, Request(r) PROVE ClearedJobsAreDead'
  <2>1. \A q \in Sessions : rpc'[q].at \in {"condemn", "clear", "unlock", "prune"} =>
          rpc[q].at \in {"condemn", "clear", "unlock", "prune"} /\ rpc'[q].job = rpc[q].job
    <3>1. CASE rpc[r].at = "ask"
      BY <1>6, <3>1 DEF Request
    <3>2. CASE rpc[r].at = "condemn"
      <4>1. rpc' = [rpc EXCEPT ![r] = [at |-> "clear", job |-> rpc[r].job]]
        BY <1>6, <3>2 DEF Request
      <4> QED
        BY <3>2, <4>1
    <3> QED
      BY <1>6, <3>1, <3>2 DEF Request
  <2>2. \A q \in Sessions : rpc'[q].at \in {"spawn", "respawn"} => rpc'[q] = rpc[q]
    BY <1>6 DEF Request
  <2>3. pc' = pc /\ job' = job
    BY <1>6 DEF Request
  <2>4. ASSUME NEW j \in Jobs, ~Expected(j), ~Keeper(j) PROVE ~Expected(j)' /\ ~Keeper(j)'
    BY <2>2, <2>3, <2>4
  <2>5. \A q \in Sessions : rpc'[q].at \in {"condemn", "clear", "unlock", "prune"} => rpc'[q].job \in Jobs
    BY <1>6 DEF Request
  <2> HIDE DEF Expected, Keeper
  <2> QED
    BY <2>1, <2>4, <2>5
<1>7. ASSUME NEW r \in Sessions, ClearLost(r) PROVE ClearedJobsAreDead'
  BY <1>7 DEF ClearLost
<1>8. ASSUME NEW r \in Sessions, ReleaseLost(r) PROVE ClearedJobsAreDead'
  BY <1>8 DEF ReleaseLost, Release
<1>9. ASSUME NEW r \in Sessions, NEW j \in Jobs, Overview(r, j) PROVE ClearedJobsAreDead'
  BY <1>9 DEF Overview
<1>10. ASSUME NEW r \in Sessions, Prune(r) PROVE ClearedJobsAreDead'
  BY <1>10 DEF Prune
<1>11. ASSUME NEW r \in Sessions, SessionEnds(r) PROVE ClearedJobsAreDead'
  BY <1>11 DEF SessionEnds
<1>12. ASSUME NEW s \in Sups, Own(s) PROVE ClearedJobsAreDead'
  BY <1>12 DEF Own
<1>13. ASSUME NEW s \in Sups, StandDown(s) PROVE ClearedJobsAreDead'
  BY <1>13 DEF StandDown
<1>14. ASSUME NEW s \in Sups, Announce(s) PROVE ClearedJobsAreDead'
  BY <1>14 DEF Announce
<1>15. ASSUME NEW s \in Sups, Enqueue(s) PROVE ClearedJobsAreDead'
  BY <1>15 DEF Enqueue
<1>16. ASSUME NEW s \in Sups, CheckCancel(s) PROVE ClearedJobsAreDead'
  BY <1>16 DEF CheckCancel
<1>17. ASSUME NEW s \in Sups, Withdraw(s) PROVE ClearedJobsAreDead'
  BY <1>17 DEF Withdraw, Release
<1>18. ASSUME NEW s \in Sups, Withdrawn(s) PROVE ClearedJobsAreDead'
  BY <1>18 DEF Withdrawn
<1>19. ASSUME NEW s \in Sups, Ask(s) PROVE ClearedJobsAreDead'
  BY <1>19 DEF Ask
<1>20. ASSUME NEW s \in Sups, Refused(s) PROVE ClearedJobsAreDead'
  BY <1>20 DEF Refused
<1>21. ASSUME NEW s \in Sups, WriteActive(s) PROVE ClearedJobsAreDead'
  BY <1>21 DEF WriteActive
<1>22. ASSUME NEW s \in Sups, LeaveQueue(s) PROVE ClearedJobsAreDead'
  BY <1>22 DEF LeaveQueue
<1>23. ASSUME NEW s \in Sups, Build(s) PROVE ClearedJobsAreDead'
  BY <1>23 DEF Build
<1>24. ASSUME NEW s \in Sups, Start(s) PROVE ClearedJobsAreDead'
  BY <1>24 DEF Start
<1>25. ASSUME NEW s \in Sups, Record(s) PROVE ClearedJobsAreDead'
  BY <1>25 DEF Record
<1>26. ASSUME NEW s \in Sups, Kill(s) PROVE ClearedJobsAreDead'
  BY <1>26 DEF Kill
<1>27. ASSUME NEW s \in Sups, Reap(s) PROVE ClearedJobsAreDead'
  BY <1>27 DEF Reap
<1>28. ASSUME NEW s \in Sups, ReleaseEnded(s) PROVE ClearedJobsAreDead'
  BY <1>28 DEF ReleaseEnded, Release
<1>29. ASSUME NEW s \in Sups, Finishing(s) PROVE ClearedJobsAreDead'
  BY <1>29 DEF Finishing
<1>30. ASSUME NEW s \in Sups, Finish(s) PROVE ClearedJobsAreDead'
  BY <1>30 DEF Finish
<1>31. ASSUME NEW s \in Sups, Raise(s) PROVE ClearedJobsAreDead'
  BY <1>31 DEF Raise
<1>32. ASSUME NEW s \in Sups, Cleanup(s) PROVE ClearedJobsAreDead'
  BY <1>32 DEF Cleanup, Release
<1>33. ASSUME NEW s \in Sups, Close(s) PROVE ClearedJobsAreDead'
  BY <1>33 DEF Close
<1>34. ASSUME NEW s \in Sups, ChildEnds(s) PROVE ClearedJobsAreDead'
  BY <1>34 DEF ChildEnds
<1>35. ASSUME NEW s \in Sups, Beat(s) PROVE ClearedJobsAreDead'
  BY <1>35 DEF Beat
<1>36. ASSUME NEW j \in Jobs, Expire(j) PROVE ClearedJobsAreDead'
  BY <1>36 DEF Expire
<1>37. ASSUME NEW j \in Jobs, Older(j) PROVE ClearedJobsAreDead'
  BY <1>37 DEF Older
<1>38. ASSUME NEW s \in Sups, Crash(s) PROVE ClearedJobsAreDead'
  BY <1>38 DEF Crash, Die
<1>39. ASSUME NEW s \in Sups, LockTimeout(s) PROVE ClearedJobsAreDead'
  BY <1>39 DEF LockTimeout
<1>40. ASSUME NEW s \in Sups, WriteFails(s) PROVE ClearedJobsAreDead'
  BY <1>40 DEF WriteFails
<1>41. ASSUME Reboot PROVE ClearedJobsAreDead'
  BY <1>41 DEF Reboot, Die
<1>42. CASE UNCHANGED vars
  BY <1>42 DEF vars
<1> QED
  BY <1>1, <1>2, <1>3, <1>4, <1>5, <1>6, <1>7, <1>8, <1>9, <1>10, <1>11, <1>12,
     <1>13, <1>14, <1>15, <1>16, <1>17, <1>18, <1>19, <1>20, <1>21, <1>22, <1>23, <1>24,
     <1>25, <1>26, <1>27, <1>28, <1>29, <1>30, <1>31, <1>32, <1>33, <1>34, <1>35, <1>36,
     <1>37, <1>38, <1>39, <1>40, <1>41, <1>42
     DEF Next, SessionStep, SupStep, FaultStep

\* Entries and states of a running job are written by its one supervisor only.
LEMMA NextHeld ==
    ASSUME Dependable, TypeOK, LocksNameTheirHolders, Watched, [Next]_vars
    PROVE  HeldThroughout'
<1> USE NamesAssumption
    DEF Dependable, TypeOK, LocksNameTheirHolders, Watched, SeenAlive, ClearedJobsAreDead,
        HeldThroughout, Keeper, Beating, Owning, Labels, Alive, Busy, Calls, Idle, Call,
        Return, Goto, Set, files, sched, procs
<1>1. ASSUME NEW r \in Sessions, NEW j \in Jobs, LaunchNew(r, j) PROVE HeldThroughout'
  BY <1>1 DEF LaunchNew
<1>2. ASSUME NEW r \in Sessions, Publish(r) PROVE HeldThroughout'
  BY <1>2 DEF Publish
<1>3. ASSUME NEW r \in Sessions, NEW j \in Jobs, LaunchAgain(r, j) PROVE HeldThroughout'
  BY <1>3 DEF LaunchAgain
<1>4. ASSUME NEW r \in Sessions, Spawn(r) PROVE HeldThroughout'
  BY <1>4 DEF Spawn
<1>5. ASSUME NEW r \in Sessions, NEW j \in Jobs, Cancel(r, j) PROVE HeldThroughout'
  BY <1>5 DEF Cancel
<1>6. ASSUME NEW r \in Sessions, Request(r) PROVE HeldThroughout'
  BY <1>6 DEF Request
<1>7. ASSUME NEW r \in Sessions, ClearLost(r) PROVE HeldThroughout'
  BY <1>7 DEF ClearLost
<1>8. ASSUME NEW r \in Sessions, ReleaseLost(r) PROVE HeldThroughout'
  BY <1>8 DEF ReleaseLost, Release
<1>9. ASSUME NEW r \in Sessions, NEW j \in Jobs, Overview(r, j) PROVE HeldThroughout'
  BY <1>9 DEF Overview
<1>10. ASSUME NEW r \in Sessions, Prune(r) PROVE HeldThroughout'
  BY <1>10 DEF Prune
<1>11. ASSUME NEW r \in Sessions, SessionEnds(r) PROVE HeldThroughout'
  BY <1>11 DEF SessionEnds
<1>12. ASSUME NEW s \in Sups, Own(s) PROVE HeldThroughout'
  BY <1>12 DEF Own
<1>13. ASSUME NEW s \in Sups, StandDown(s) PROVE HeldThroughout'
  BY <1>13 DEF StandDown
<1>14. ASSUME NEW s \in Sups, Announce(s) PROVE HeldThroughout'
  BY <1>14 DEF Announce
<1>15. ASSUME NEW s \in Sups, Enqueue(s) PROVE HeldThroughout'
  BY <1>15 DEF Enqueue
<1>16. ASSUME NEW s \in Sups, CheckCancel(s) PROVE HeldThroughout'
  BY <1>16 DEF CheckCancel
<1>17. ASSUME NEW s \in Sups, Withdraw(s) PROVE HeldThroughout'
  BY <1>17 DEF Withdraw, Release
<1>18. ASSUME NEW s \in Sups, Withdrawn(s) PROVE HeldThroughout'
  BY <1>18 DEF Withdrawn
<1>19. ASSUME NEW s \in Sups, Ask(s) PROVE HeldThroughout'
  <2>1. /\ held' = LiveHeld /\ status' = status /\ child' = child /\ job' = job
        /\ \A t \in Sups : t # s => pc'[t] = pc[t] /\ grant'[t] = grant[t]
        /\ pc[s] = "asking" /\ pc'[s] \in {"refused", "granted"}
    BY <1>19, AskGives
  <2>2. ASSUME NEW t \in Sups,
               pc[t] \in {"entered", "building", "starting", "started", "running"}
        PROVE  held'[job[t]] = grant[t]
    BY <2>1, <2>2 DEF LiveHeld
  <2> QED
    BY <2>1, <2>2
<1>20. ASSUME NEW s \in Sups, Refused(s) PROVE HeldThroughout'
  BY <1>20 DEF Refused
<1>21. ASSUME NEW s \in Sups, WriteActive(s) PROVE HeldThroughout'
  BY <1>21 DEF WriteActive
<1>22. ASSUME NEW s \in Sups, LeaveQueue(s) PROVE HeldThroughout'
  BY <1>22 DEF LeaveQueue
<1>23. ASSUME NEW s \in Sups, Build(s) PROVE HeldThroughout'
  BY <1>23 DEF Build
<1>24. ASSUME NEW s \in Sups, Start(s) PROVE HeldThroughout'
  BY <1>24 DEF Start
<1>25. ASSUME NEW s \in Sups, Record(s) PROVE HeldThroughout'
  BY <1>25 DEF Record
<1>26. ASSUME NEW s \in Sups, Kill(s) PROVE HeldThroughout'
  BY <1>26 DEF Kill
<1>27. ASSUME NEW s \in Sups, Reap(s) PROVE HeldThroughout'
  BY <1>27 DEF Reap
<1>28. ASSUME NEW s \in Sups, ReleaseEnded(s) PROVE HeldThroughout'
  BY <1>28 DEF ReleaseEnded, Release
<1>29. ASSUME NEW s \in Sups, Finishing(s) PROVE HeldThroughout'
  BY <1>29 DEF Finishing
<1>30. ASSUME NEW s \in Sups, Finish(s) PROVE HeldThroughout'
  BY <1>30 DEF Finish
<1>31. ASSUME NEW s \in Sups, Raise(s) PROVE HeldThroughout'
  BY <1>31 DEF Raise
<1>32. ASSUME NEW s \in Sups, Cleanup(s) PROVE HeldThroughout'
  BY <1>32 DEF Cleanup, Release
<1>33. ASSUME NEW s \in Sups, Close(s) PROVE HeldThroughout'
  BY <1>33 DEF Close, Orphan, Forget
<1>34. ASSUME NEW s \in Sups, ChildEnds(s) PROVE HeldThroughout'
  BY <1>34 DEF ChildEnds
<1>35. ASSUME NEW s \in Sups, Beat(s) PROVE HeldThroughout'
  BY <1>35 DEF Beat
<1>36. ASSUME NEW j \in Jobs, Expire(j) PROVE HeldThroughout'
  BY <1>36 DEF Expire
<1>37. ASSUME NEW j \in Jobs, Older(j) PROVE HeldThroughout'
  BY <1>37 DEF Older
<1>38. ASSUME NEW s \in Sups, Crash(s) PROVE HeldThroughout'
  BY <1>38 DEF Crash, Die, Orphan, Forget
<1>39. ASSUME NEW s \in Sups, LockTimeout(s) PROVE HeldThroughout'
  BY <1>39 DEF LockTimeout
<1>40. ASSUME NEW s \in Sups, WriteFails(s) PROVE HeldThroughout'
  BY <1>40 DEF WriteFails
<1>41. ASSUME Reboot PROVE HeldThroughout'
  BY <1>41 DEF Reboot, Die, Forget
<1>42. CASE UNCHANGED vars
  BY <1>42 DEF vars
<1> QED
  BY <1>1, <1>2, <1>3, <1>4, <1>5, <1>6, <1>7, <1>8, <1>9, <1>10, <1>11, <1>12,
     <1>13, <1>14, <1>15, <1>16, <1>17, <1>18, <1>19, <1>20, <1>21, <1>22, <1>23, <1>24,
     <1>25, <1>26, <1>27, <1>28, <1>29, <1>30, <1>31, <1>32, <1>33, <1>34, <1>35, <1>36,
     <1>37, <1>38, <1>39, <1>40, <1>41, <1>42
     DEF Next, SessionStep, SupStep, FaultStep

\* status.json follows the supervisor: nobody else writes it while there is one.
LEMMA NextFollows ==
    ASSUME Dependable, TypeOK, LocksNameTheirHolders, Watched, StatusFollows, [Next]_vars
    PROVE  StatusFollows'
<1> USE NamesAssumption
    DEF Dependable, TypeOK, LocksNameTheirHolders, Watched, OneSupervisor, SeenAlive,
        ClearedJobsAreDead, StatusFollows, Lost, Derived, ActiveStates, TerminalStates, States,
        Expected, Keeper, Beating, Owning, Labels, Alive, Busy, Calls, Idle, Call,
        Return, Goto, Set, files, sched, procs
<1>1. ASSUME NEW r \in Sessions, NEW j \in Jobs, LaunchNew(r, j) PROVE StatusFollows'
  BY <1>1 DEF LaunchNew
<1>2. ASSUME NEW r \in Sessions, Publish(r) PROVE StatusFollows'
  BY <1>2 DEF Publish
<1>3. ASSUME NEW r \in Sessions, NEW j \in Jobs, LaunchAgain(r, j) PROVE StatusFollows'
  BY <1>3 DEF LaunchAgain
<1>4. ASSUME NEW r \in Sessions, Spawn(r) PROVE StatusFollows'
  BY <1>4 DEF Spawn
<1>5. ASSUME NEW r \in Sessions, NEW j \in Jobs, Cancel(r, j) PROVE StatusFollows'
  BY <1>5 DEF Cancel
<1>6. ASSUME NEW r \in Sessions, Request(r) PROVE StatusFollows'
  BY <1>6 DEF Request
<1>7. ASSUME NEW r \in Sessions, ClearLost(r) PROVE StatusFollows'
  BY <1>7 DEF ClearLost
<1>8. ASSUME NEW r \in Sessions, ReleaseLost(r) PROVE StatusFollows'
  BY <1>8 DEF ReleaseLost, Release
<1>9. ASSUME NEW r \in Sessions, NEW j \in Jobs, Overview(r, j) PROVE StatusFollows'
  BY <1>9 DEF Overview
<1>10. ASSUME NEW r \in Sessions, Prune(r) PROVE StatusFollows'
  BY <1>10 DEF Prune
<1>11. ASSUME NEW r \in Sessions, SessionEnds(r) PROVE StatusFollows'
  BY <1>11 DEF SessionEnds
<1>12. ASSUME NEW s \in Sups, Own(s) PROVE StatusFollows'
  BY <1>12 DEF Own
<1>13. ASSUME NEW s \in Sups, StandDown(s) PROVE StatusFollows'
  BY <1>13 DEF StandDown
<1>14. ASSUME NEW s \in Sups, Announce(s) PROVE StatusFollows'
  BY <1>14 DEF Announce
<1>15. ASSUME NEW s \in Sups, Enqueue(s) PROVE StatusFollows'
  BY <1>15 DEF Enqueue
<1>16. ASSUME NEW s \in Sups, CheckCancel(s) PROVE StatusFollows'
  BY <1>16 DEF CheckCancel
<1>17. ASSUME NEW s \in Sups, Withdraw(s) PROVE StatusFollows'
  BY <1>17 DEF Withdraw, Release
<1>18. ASSUME NEW s \in Sups, Withdrawn(s) PROVE StatusFollows'
  BY <1>18 DEF Withdrawn
<1>19. ASSUME NEW s \in Sups, Ask(s) PROVE StatusFollows'
  <2>1. /\ status' = status /\ beat' = beat /\ rpc' = rpc /\ job' = job
        /\ \A t \in Sups : t # s => pc'[t] = pc[t]
        /\ pc[s] = "asking" /\ pc'[s] \in {"refused", "granted"}
    BY <1>19, AskGives
  <2> QED
    BY <2>1
<1>20. ASSUME NEW s \in Sups, Refused(s) PROVE StatusFollows'
  BY <1>20 DEF Refused
<1>21. ASSUME NEW s \in Sups, WriteActive(s) PROVE StatusFollows'
  BY <1>21 DEF WriteActive
<1>22. ASSUME NEW s \in Sups, LeaveQueue(s) PROVE StatusFollows'
  BY <1>22 DEF LeaveQueue
<1>23. ASSUME NEW s \in Sups, Build(s) PROVE StatusFollows'
  BY <1>23 DEF Build
<1>24. ASSUME NEW s \in Sups, Start(s) PROVE StatusFollows'
  BY <1>24 DEF Start
<1>25. ASSUME NEW s \in Sups, Record(s) PROVE StatusFollows'
  BY <1>25 DEF Record
<1>26. ASSUME NEW s \in Sups, Kill(s) PROVE StatusFollows'
  BY <1>26 DEF Kill
<1>27. ASSUME NEW s \in Sups, Reap(s) PROVE StatusFollows'
  BY <1>27 DEF Reap
<1>28. ASSUME NEW s \in Sups, ReleaseEnded(s) PROVE StatusFollows'
  BY <1>28 DEF ReleaseEnded, Release
<1>29. ASSUME NEW s \in Sups, Finishing(s) PROVE StatusFollows'
  BY <1>29 DEF Finishing
<1>30. ASSUME NEW s \in Sups, Finish(s) PROVE StatusFollows'
  BY <1>30 DEF Finish
<1>31. ASSUME NEW s \in Sups, Raise(s) PROVE StatusFollows'
  BY <1>31 DEF Raise
<1>32. ASSUME NEW s \in Sups, Cleanup(s) PROVE StatusFollows'
  BY <1>32 DEF Cleanup, Release
<1>33. ASSUME NEW s \in Sups, Close(s) PROVE StatusFollows'
  BY <1>33 DEF Close, Orphan, Forget
<1>34. ASSUME NEW s \in Sups, ChildEnds(s) PROVE StatusFollows'
  BY <1>34 DEF ChildEnds
<1>35. ASSUME NEW s \in Sups, Beat(s) PROVE StatusFollows'
  BY <1>35 DEF Beat
<1>36. ASSUME NEW j \in Jobs, Expire(j) PROVE StatusFollows'
  BY <1>36 DEF Expire
<1>37. ASSUME NEW j \in Jobs, Older(j) PROVE StatusFollows'
  BY <1>37 DEF Older
<1>38. ASSUME NEW s \in Sups, Crash(s) PROVE StatusFollows'
  BY <1>38 DEF Crash, Die, Orphan, Forget
<1>39. ASSUME NEW s \in Sups, LockTimeout(s) PROVE StatusFollows'
  BY <1>39 DEF LockTimeout
<1>40. ASSUME NEW s \in Sups, WriteFails(s) PROVE StatusFollows'
  BY <1>40 DEF WriteFails
<1>41. ASSUME Reboot PROVE StatusFollows'
  BY <1>41 DEF Reboot, Die, Forget
<1>42. CASE UNCHANGED vars
  BY <1>42 DEF vars
<1> QED
  BY <1>1, <1>2, <1>3, <1>4, <1>5, <1>6, <1>7, <1>8, <1>9, <1>10, <1>11, <1>12,
     <1>13, <1>14, <1>15, <1>16, <1>17, <1>18, <1>19, <1>20, <1>21, <1>22, <1>23, <1>24,
     <1>25, <1>26, <1>27, <1>28, <1>29, <1>30, <1>31, <1>32, <1>33, <1>34, <1>35, <1>36,
     <1>37, <1>38, <1>39, <1>40, <1>41, <1>42
     DEF Next, SessionStep, SupStep, FaultStep

\* The invariants hold together.
LEMMA DependableInvariant ==
    ASSUME Dependable
    PROVE  Spec => [](TypeOK /\ LocksNameTheirHolders /\ Reserved /\ Watched)
<1> DEFINE Inv == TypeOK /\ LocksNameTheirHolders /\ Reserved /\ Watched
<1>1. Init => Inv
  BY InitTypeOK, InitLocks, InitReserved, InitWatched
<1>2. Inv /\ [Next]_vars => Inv'
  BY NextTypeOK, NextLocks, NextReserved, NextOneSupervisor, NextSeenAlive, NextClearedDead,
     NextHeld DEF Watched, Dependable
<1> QED
  BY <1>1, <1>2, PTL DEF Spec

\* A running command has its reservation in active/, so no one is admitted to it.
THEOREM CommandsKeepTheirReservation ==
    ASSUME Dependable PROVE Spec => []RunsWithinReservation
<1>1. Watched => RunsWithinReservation
  BY DEF Watched, HeldThroughout, RunsWithinReservation
<1> QED
  BY <1>1, DependableInvariant, PTL

\* Two running commands never use a GPU beyond one whole: their reservations
\* are compatible, and each uses what it has reserved.
THEOREM CommandsNeverShareBeyondAWhole ==
    ASSUME Dependable PROVE Spec => []UseDisjoint
<1>1. ASSUME TypeOK, Reserved, Watched PROVE UseDisjoint
  <2> SUFFICES ASSUME NEW s \in Sups, NEW t \in Sups, s # t, Busy(s), Busy(t)
               PROVE  Compatible(grant[s], grant[t])
    BY DEF UseDisjoint
  <2>1. /\ pc[s] # "none" /\ pc[t] # "none"
        /\ held[job[s]] = grant[s] /\ held[job[t]] = grant[t]
    BY <1>1 DEF Watched, HeldThroughout
  <2>2. job[s] \in Jobs /\ job[t] \in Jobs /\ job[s] # job[t]
    BY <1>1, <2>1 DEF TypeOK, Watched, OneSupervisor
  <2> QED
    BY <1>1, <2>1, <2>2 DEF Reserved, ReservationsDisjoint
<1> QED
  BY <1>1, DependableInvariant, PTL

\* A job that shows as cancelled has nothing running, although the session that
\* clears a lost job never speaks to its supervisor.
THEOREM CancelledJobsAreStopped ==
    ASSUME Dependable PROVE Spec => []CancelledIsStopped
<1>1. Watched => CancelledIsStopped
  BY DEF Watched, HeldThroughout, CancelledIsStopped
<1> QED
  BY <1>1, DependableInvariant, PTL

-----------------------------------------------------------------------------
(***************************************************************************)
(* What clients see follows the states of RxLifecycle, step by step.       *)
(***************************************************************************)
View == [j \in Jobs |-> Derived(j)]

\* A step on the directory of one job changes the view of that job at most.
LEMMA OneJobSeen ==
    ASSUME NEW j \in Jobs,
           \A i \in Jobs : i # j => status'[i] = status[i] /\ beat'[i] = beat[i]
    PROVE  View' = [View EXCEPT ![j] = Derived(j)']
<1>1. \A i \in Jobs : i # j => Derived(i)' = Derived(i)
  BY DEF Derived, Lost
<1> QED
  BY <1>1 DEF View

\* A move of one job is a step of the abstract specification.
LEMMA MoveSeen ==
    ASSUME NEW j \in Jobs, View' = [View EXCEPT ![j] = Derived(j)'],
           \/ Derived(j)' = Derived(j)
           \/ Derived(j) = "none" /\ Derived(j)' = "launching"
           \/ Derived(j) = "launching" /\ Derived(j)' = "queued"
           \/ Derived(j) = "queued" /\ Derived(j)' = "running"
           \/ Derived(j) = "running" /\ Derived(j)' = "finishing"
           \/ Derived(j) = "finishing" /\ Derived(j)' \in {"done", "failed", "cancelled"}
           \/ Derived(j) \in {"queued", "lost"} /\ Derived(j)' = "cancelled"
           \/ Derived(j) \in {"queued", "running"} /\ Derived(j)' = "error"
           \/ Derived(j) \in ActiveStates /\ Derived(j)' = "lost"
    PROVE  [Client!Next]_View
<1>1. View[j] = Derived(j)
  BY DEF View
<1>2. CASE Derived(j)' = Derived(j)
  <2>1. View' = View
    BY <1>1, <1>2 DEF View
  <2> QED
    BY <2>1
<1>3. CASE Derived(j) = "none" /\ Derived(j)' = "launching"
  BY <1>1, <1>3 DEF Client!Next, Client!Launch, Client!Move, View
<1>4. CASE Derived(j) = "launching" /\ Derived(j)' = "queued"
  BY <1>1, <1>4 DEF Client!Next, Client!Queue, Client!Move, View
<1>5. CASE Derived(j) = "queued" /\ Derived(j)' = "running"
  BY <1>1, <1>5 DEF Client!Next, Client!Start, Client!Move, View
<1>6. CASE Derived(j) = "running" /\ Derived(j)' = "finishing"
  BY <1>1, <1>6 DEF Client!Next, Client!Wind, Client!Move, View
<1>7. CASE Derived(j) = "finishing" /\ Derived(j)' \in {"done", "failed", "cancelled"}
  BY <1>1, <1>7 DEF Client!Next, Client!Finish, Client!Move, View
<1>8. CASE Derived(j) \in {"queued", "lost"} /\ Derived(j)' = "cancelled"
  BY <1>1, <1>8 DEF Client!Next, Client!Cancel, Client!Move, View
<1>9. CASE Derived(j) \in {"queued", "running"} /\ Derived(j)' = "error"
  BY <1>1, <1>9 DEF Client!Next, Client!Fail, Client!Move, View
<1>10. CASE Derived(j) \in ActiveStates /\ Derived(j)' = "lost"
  BY <1>1, <1>10 DEF Client!Next, Client!Lose, Client!Move, Client!Active, ActiveStates, View
<1> QED
  BY <1>2, <1>3, <1>4, <1>5, <1>6, <1>7, <1>8, <1>9, <1>10

\* Every step of the scheduler is one of those moves or is not seen.
LEMMA StepSeen ==
    ASSUME Dependable, TypeOK, LocksNameTheirHolders, Watched, StatusFollows, [Next]_vars
    PROVE  [Client!Next]_View
<1> USE NamesAssumption
    DEF Dependable, TypeOK, Labels, Alive, Beating, Owning, Calls, Idle, Goto, Set, files
<1>1. ASSUME status' = status, beat' = beat PROVE [Client!Next]_View
  <2>1. View' = View
    BY <1>1 DEF View, Derived, Lost
  <2> QED
    BY <2>1
<1>2. ASSUME NEW r \in Sessions, NEW j \in Jobs, LaunchNew(r, j) PROVE [Client!Next]_View
  BY <1>1, <1>2 DEF LaunchNew
<1>3. ASSUME NEW r \in Sessions, NEW j \in Jobs, LaunchAgain(r, j) PROVE [Client!Next]_View
  BY <1>1, <1>3 DEF LaunchAgain
<1>4. ASSUME NEW r \in Sessions, Spawn(r) PROVE [Client!Next]_View
  BY <1>1, <1>4 DEF Spawn
<1>5. ASSUME NEW r \in Sessions, NEW j \in Jobs, Cancel(r, j) PROVE [Client!Next]_View
  BY <1>1, <1>5 DEF Cancel
<1>6. ASSUME NEW r \in Sessions, Request(r) PROVE [Client!Next]_View
  BY <1>1, <1>6 DEF Request
<1>7. ASSUME NEW r \in Sessions, ReleaseLost(r) PROVE [Client!Next]_View
  BY <1>1, <1>7 DEF ReleaseLost
<1>8. ASSUME NEW r \in Sessions, NEW j \in Jobs, Overview(r, j) PROVE [Client!Next]_View
  BY <1>1, <1>8 DEF Overview
<1>9. ASSUME NEW r \in Sessions, Prune(r) PROVE [Client!Next]_View
  BY <1>1, <1>9 DEF Prune
<1>10. ASSUME NEW r \in Sessions, SessionEnds(r) PROVE [Client!Next]_View
  BY <1>1, <1>10 DEF SessionEnds
<1>11. ASSUME NEW s \in Sups, Own(s) PROVE [Client!Next]_View
  BY <1>1, <1>11 DEF Own
<1>12. ASSUME NEW s \in Sups, StandDown(s) PROVE [Client!Next]_View
  BY <1>1, <1>12 DEF StandDown
<1>13. ASSUME NEW s \in Sups, CheckCancel(s) PROVE [Client!Next]_View
  BY <1>1, <1>13 DEF CheckCancel
<1>14. ASSUME NEW s \in Sups, Withdraw(s) PROVE [Client!Next]_View
  BY <1>1, <1>14 DEF Withdraw
<1>15. ASSUME NEW s \in Sups, Ask(s) PROVE [Client!Next]_View
  BY <1>1, <1>15, AskGives
<1>16. ASSUME NEW s \in Sups, WriteActive(s) PROVE [Client!Next]_View
  BY <1>1, <1>16 DEF WriteActive
<1>17. ASSUME NEW s \in Sups, LeaveQueue(s) PROVE [Client!Next]_View
  BY <1>1, <1>17 DEF LeaveQueue
<1>18. ASSUME NEW s \in Sups, Start(s) PROVE [Client!Next]_View
  BY <1>1, <1>18 DEF Start
<1>19. ASSUME NEW s \in Sups, Reap(s) PROVE [Client!Next]_View
  BY <1>1, <1>19 DEF Reap
<1>20. ASSUME NEW s \in Sups, ReleaseEnded(s) PROVE [Client!Next]_View
  BY <1>1, <1>20 DEF ReleaseEnded
<1>21. ASSUME NEW s \in Sups, Cleanup(s) PROVE [Client!Next]_View
  BY <1>1, <1>21 DEF Cleanup
<1>22. ASSUME NEW s \in Sups, ChildEnds(s) PROVE [Client!Next]_View
  BY <1>1, <1>22 DEF ChildEnds
<1>23. ASSUME NEW s \in Sups, Crash(s) PROVE [Client!Next]_View
  BY <1>1, <1>23 DEF Crash
<1>24. ASSUME NEW s \in Sups, LockTimeout(s) PROVE [Client!Next]_View
  BY <1>1, <1>24 DEF LockTimeout
<1>25. ASSUME NEW s \in Sups, WriteFails(s) PROVE [Client!Next]_View
  BY <1>1, <1>25 DEF WriteFails
<1>26. ASSUME NEW r \in Sessions, Publish(r) PROVE [Client!Next]_View
  <2>1. CASE status[rpc[r].job] # "none"
    BY <1>1, <1>26, <2>1 DEF Publish
  <2>2. CASE status[rpc[r].job] = "none"
    <3>0. PICK j \in Jobs : j = rpc[r].job
      BY <1>26 DEF Publish
    <3>1. status' = [status EXCEPT ![j] = "launching"] /\ beat' = beat
      BY <1>26, <2>2, <3>0 DEF Publish
    <3>2. View' = [View EXCEPT ![j] = Derived(j)']
      BY <3>1, OneJobSeen
    <3>3. Derived(j) = "none" /\ Derived(j)' = "launching"
      BY <2>2, <3>0, <3>1 DEF Watched, SeenAlive, Derived, Lost, ActiveStates
    <3> QED
      BY <3>1, <3>2, <3>3, MoveSeen
  <2> QED
    BY <2>1, <2>2
<1>27. ASSUME NEW r \in Sessions, ClearLost(r) PROVE [Client!Next]_View
  <2>0. PICK j \in Jobs : j = rpc[r].job
    BY <1>27 DEF ClearLost
  <2>1. status' = [status EXCEPT ![j] = "cancelled"] /\ beat' = beat
    BY <1>27, <2>0 DEF ClearLost
  <2>2. View' = [View EXCEPT ![j] = Derived(j)']
    BY <2>1, OneJobSeen
  <2>3. Derived(j) \in {"lost", "cancelled"} /\ Derived(j)' = "cancelled"
    BY <1>27, <2>0, <2>1 DEF ClearLost, StatusFollows, Derived, Lost, ActiveStates
  <2> QED
    BY <2>1, <2>2, <2>3, MoveSeen
<1>28. ASSUME NEW s \in Sups, Announce(s) PROVE [Client!Next]_View
  <2>0. PICK j \in Jobs : j = job[s]
    BY <1>28 DEF Announce
  <2>1. \A i \in Jobs : i # j => status'[i] = status[i] /\ beat'[i] = beat[i]
    BY <1>28, <2>0 DEF Announce
  <2>2. View' = [View EXCEPT ![j] = Derived(j)']
    BY <2>1, OneJobSeen
  <2>3. \/ Derived(j)' = Derived(j)
        \/ Derived(j) = "launching" /\ Derived(j)' = "queued"
        \/ Derived(j) = "queued" /\ Derived(j)' \in {"running", "cancelled", "error"}
        \/ Derived(j) = "running" /\ Derived(j)' \in {"finishing", "error"}
        \/ Derived(j) = "finishing" /\ Derived(j)' \in {"done", "failed", "cancelled"}
    BY <1>28, <2>0 DEF Announce, Watched, SeenAlive, Keeper, Expected, StatusFollows, Derived, Lost,
                  ActiveStates, TerminalStates
  <2> QED
    BY <2>1, <2>2, <2>3, MoveSeen
<1>29. ASSUME NEW s \in Sups, Enqueue(s) PROVE [Client!Next]_View
  <2>0. PICK j \in Jobs : j = job[s]
    BY <1>29 DEF Enqueue
  <2>1. \A i \in Jobs : i # j => status'[i] = status[i] /\ beat'[i] = beat[i]
    BY <1>29, <2>0 DEF Enqueue
  <2>2. View' = [View EXCEPT ![j] = Derived(j)']
    BY <2>1, OneJobSeen
  <2>3. \/ Derived(j)' = Derived(j)
        \/ Derived(j) = "launching" /\ Derived(j)' = "queued"
        \/ Derived(j) = "queued" /\ Derived(j)' \in {"running", "cancelled", "error"}
        \/ Derived(j) = "running" /\ Derived(j)' \in {"finishing", "error"}
        \/ Derived(j) = "finishing" /\ Derived(j)' \in {"done", "failed", "cancelled"}
    BY <1>29, <2>0 DEF Enqueue, Watched, SeenAlive, Keeper, Expected, StatusFollows, Derived, Lost,
                  ActiveStates, TerminalStates
  <2> QED
    BY <2>1, <2>2, <2>3, MoveSeen
<1>30. ASSUME NEW s \in Sups, Withdrawn(s) PROVE [Client!Next]_View
  <2>0. PICK j \in Jobs : j = job[s]
    BY <1>30 DEF Withdrawn
  <2>1. \A i \in Jobs : i # j => status'[i] = status[i] /\ beat'[i] = beat[i]
    BY <1>30, <2>0 DEF Withdrawn
  <2>2. View' = [View EXCEPT ![j] = Derived(j)']
    BY <2>1, OneJobSeen
  <2>3. \/ Derived(j)' = Derived(j)
        \/ Derived(j) = "launching" /\ Derived(j)' = "queued"
        \/ Derived(j) = "queued" /\ Derived(j)' \in {"running", "cancelled", "error"}
        \/ Derived(j) = "running" /\ Derived(j)' \in {"finishing", "error"}
        \/ Derived(j) = "finishing" /\ Derived(j)' \in {"done", "failed", "cancelled"}
    BY <1>30, <2>0 DEF Withdrawn, Watched, SeenAlive, Keeper, Expected, StatusFollows, Derived, Lost,
                  ActiveStates, TerminalStates
  <2> QED
    BY <2>1, <2>2, <2>3, MoveSeen
<1>31. ASSUME NEW s \in Sups, Refused(s) PROVE [Client!Next]_View
  <2>0. PICK j \in Jobs : j = job[s]
    BY <1>31 DEF Refused
  <2>1. \A i \in Jobs : i # j => status'[i] = status[i] /\ beat'[i] = beat[i]
    BY <1>31, <2>0 DEF Refused
  <2>2. View' = [View EXCEPT ![j] = Derived(j)']
    BY <2>1, OneJobSeen
  <2>3. \/ Derived(j)' = Derived(j)
        \/ Derived(j) = "launching" /\ Derived(j)' = "queued"
        \/ Derived(j) = "queued" /\ Derived(j)' \in {"running", "cancelled", "error"}
        \/ Derived(j) = "running" /\ Derived(j)' \in {"finishing", "error"}
        \/ Derived(j) = "finishing" /\ Derived(j)' \in {"done", "failed", "cancelled"}
    BY <1>31, <2>0 DEF Refused, Watched, SeenAlive, Keeper, Expected, StatusFollows, Derived, Lost,
                  ActiveStates, TerminalStates
  <2> QED
    BY <2>1, <2>2, <2>3, MoveSeen
<1>32. ASSUME NEW s \in Sups, Build(s) PROVE [Client!Next]_View
  <2>0. PICK j \in Jobs : j = job[s]
    BY <1>32 DEF Build
  <2>1. \A i \in Jobs : i # j => status'[i] = status[i] /\ beat'[i] = beat[i]
    BY <1>32, <2>0 DEF Build
  <2>2. View' = [View EXCEPT ![j] = Derived(j)']
    BY <2>1, OneJobSeen
  <2>3. \/ Derived(j)' = Derived(j)
        \/ Derived(j) = "launching" /\ Derived(j)' = "queued"
        \/ Derived(j) = "queued" /\ Derived(j)' \in {"running", "cancelled", "error"}
        \/ Derived(j) = "running" /\ Derived(j)' \in {"finishing", "error"}
        \/ Derived(j) = "finishing" /\ Derived(j)' \in {"done", "failed", "cancelled"}
    BY <1>32, <2>0 DEF Build, Watched, SeenAlive, Keeper, Expected, StatusFollows, Derived, Lost,
                  ActiveStates, TerminalStates
  <2> QED
    BY <2>1, <2>2, <2>3, MoveSeen
<1>33. ASSUME NEW s \in Sups, Record(s) PROVE [Client!Next]_View
  <2>0. PICK j \in Jobs : j = job[s]
    BY <1>33 DEF Record
  <2>1. \A i \in Jobs : i # j => status'[i] = status[i] /\ beat'[i] = beat[i]
    BY <1>33, <2>0 DEF Record
  <2>2. View' = [View EXCEPT ![j] = Derived(j)']
    BY <2>1, OneJobSeen
  <2>3. \/ Derived(j)' = Derived(j)
        \/ Derived(j) = "launching" /\ Derived(j)' = "queued"
        \/ Derived(j) = "queued" /\ Derived(j)' \in {"running", "cancelled", "error"}
        \/ Derived(j) = "running" /\ Derived(j)' \in {"finishing", "error"}
        \/ Derived(j) = "finishing" /\ Derived(j)' \in {"done", "failed", "cancelled"}
    BY <1>33, <2>0 DEF Record, Watched, SeenAlive, Keeper, Expected, StatusFollows, Derived, Lost,
                  ActiveStates, TerminalStates
  <2> QED
    BY <2>1, <2>2, <2>3, MoveSeen
<1>34. ASSUME NEW s \in Sups, Kill(s) PROVE [Client!Next]_View
  <2>0. PICK j \in Jobs : j = job[s]
    BY <1>34 DEF Kill
  <2>1. \A i \in Jobs : i # j => status'[i] = status[i] /\ beat'[i] = beat[i]
    BY <1>34, <2>0 DEF Kill
  <2>2. View' = [View EXCEPT ![j] = Derived(j)']
    BY <2>1, OneJobSeen
  <2>3. \/ Derived(j)' = Derived(j)
        \/ Derived(j) = "launching" /\ Derived(j)' = "queued"
        \/ Derived(j) = "queued" /\ Derived(j)' \in {"running", "cancelled", "error"}
        \/ Derived(j) = "running" /\ Derived(j)' \in {"finishing", "error"}
        \/ Derived(j) = "finishing" /\ Derived(j)' \in {"done", "failed", "cancelled"}
    BY <1>34, <2>0 DEF Kill, Watched, SeenAlive, Keeper, Expected, StatusFollows, Derived, Lost,
                  ActiveStates, TerminalStates
  <2> QED
    BY <2>1, <2>2, <2>3, MoveSeen
<1>35. ASSUME NEW s \in Sups, Finishing(s) PROVE [Client!Next]_View
  <2>0. PICK j \in Jobs : j = job[s]
    BY <1>35 DEF Finishing
  <2>1. \A i \in Jobs : i # j => status'[i] = status[i] /\ beat'[i] = beat[i]
    BY <1>35, <2>0 DEF Finishing
  <2>2. View' = [View EXCEPT ![j] = Derived(j)']
    BY <2>1, OneJobSeen
  <2>3. \/ Derived(j)' = Derived(j)
        \/ Derived(j) = "launching" /\ Derived(j)' = "queued"
        \/ Derived(j) = "queued" /\ Derived(j)' \in {"running", "cancelled", "error"}
        \/ Derived(j) = "running" /\ Derived(j)' \in {"finishing", "error"}
        \/ Derived(j) = "finishing" /\ Derived(j)' \in {"done", "failed", "cancelled"}
    BY <1>35, <2>0 DEF Finishing, Watched, SeenAlive, Keeper, Expected, StatusFollows, Derived, Lost,
                  ActiveStates, TerminalStates
  <2> QED
    BY <2>1, <2>2, <2>3, MoveSeen
<1>36. ASSUME NEW s \in Sups, Finish(s) PROVE [Client!Next]_View
  <2>0. PICK j \in Jobs : j = job[s]
    BY <1>36 DEF Finish
  <2>1. \A i \in Jobs : i # j => status'[i] = status[i] /\ beat'[i] = beat[i]
    BY <1>36, <2>0 DEF Finish
  <2>2. View' = [View EXCEPT ![j] = Derived(j)']
    BY <2>1, OneJobSeen
  <2>3. \/ Derived(j)' = Derived(j)
        \/ Derived(j) = "launching" /\ Derived(j)' = "queued"
        \/ Derived(j) = "queued" /\ Derived(j)' \in {"running", "cancelled", "error"}
        \/ Derived(j) = "running" /\ Derived(j)' \in {"finishing", "error"}
        \/ Derived(j) = "finishing" /\ Derived(j)' \in {"done", "failed", "cancelled"}
    BY <1>36, <2>0 DEF Finish, Watched, SeenAlive, Keeper, Expected, StatusFollows, Derived, Lost,
                  ActiveStates, TerminalStates
  <2> QED
    BY <2>1, <2>2, <2>3, MoveSeen
<1>37. ASSUME NEW s \in Sups, Raise(s) PROVE [Client!Next]_View
  <2>0. PICK j \in Jobs : j = job[s]
    BY <1>37 DEF Raise
  <2>1. \A i \in Jobs : i # j => status'[i] = status[i] /\ beat'[i] = beat[i]
    BY <1>37, <2>0 DEF Raise
  <2>2. View' = [View EXCEPT ![j] = Derived(j)']
    BY <2>1, OneJobSeen
  <2>3. \/ Derived(j)' = Derived(j)
        \/ Derived(j) = "launching" /\ Derived(j)' = "queued"
        \/ Derived(j) = "queued" /\ Derived(j)' \in {"running", "cancelled", "error"}
        \/ Derived(j) = "running" /\ Derived(j)' \in {"finishing", "error"}
        \/ Derived(j) = "finishing" /\ Derived(j)' \in {"done", "failed", "cancelled"}
    BY <1>37, <2>0 DEF Raise, Watched, SeenAlive, Keeper, Expected, StatusFollows, Derived, Lost,
                  ActiveStates, TerminalStates
  <2> QED
    BY <2>1, <2>2, <2>3, MoveSeen
<1>38. ASSUME NEW s \in Sups, Close(s) PROVE [Client!Next]_View
  <2>0. PICK j \in Jobs : j = job[s]
    BY <1>38 DEF Close
  <2>1. \A i \in Jobs : i # j => status'[i] = status[i] /\ beat'[i] = beat[i]
    BY <1>38, <2>0 DEF Close
  <2>2. View' = [View EXCEPT ![j] = Derived(j)']
    BY <2>1, OneJobSeen
  <2>3. \/ Derived(j)' = Derived(j)
        \/ Derived(j) = "launching" /\ Derived(j)' = "queued"
        \/ Derived(j) = "queued" /\ Derived(j)' \in {"running", "cancelled", "error"}
        \/ Derived(j) = "running" /\ Derived(j)' \in {"finishing", "error"}
        \/ Derived(j) = "finishing" /\ Derived(j)' \in {"done", "failed", "cancelled"}
    BY <1>38, <2>0 DEF Close, Watched, SeenAlive, Keeper, Expected, StatusFollows, Derived, Lost,
                  ActiveStates, TerminalStates
  <2> QED
    BY <2>1, <2>2, <2>3, MoveSeen
<1>39. ASSUME NEW s \in Sups, Beat(s) PROVE [Client!Next]_View
  <2>0. PICK j \in Jobs : j = job[s]
    BY <1>39 DEF Beat
  <2>1. \A i \in Jobs : i # j => status'[i] = status[i] /\ beat'[i] = beat[i]
    BY <1>39, <2>0 DEF Beat
  <2>2. View' = [View EXCEPT ![j] = Derived(j)']
    BY <2>1, OneJobSeen
  <2>3. \/ Derived(j)' = Derived(j)
        \/ Derived(j) = "launching" /\ Derived(j)' = "queued"
        \/ Derived(j) = "queued" /\ Derived(j)' \in {"running", "cancelled", "error"}
        \/ Derived(j) = "running" /\ Derived(j)' \in {"finishing", "error"}
        \/ Derived(j) = "finishing" /\ Derived(j)' \in {"done", "failed", "cancelled"}
    BY <1>39, <2>0 DEF Beat, Watched, SeenAlive, Keeper, Expected, StatusFollows, Derived, Lost,
                  ActiveStates, TerminalStates
  <2> QED
    BY <2>1, <2>2, <2>3, MoveSeen
<1>40. ASSUME NEW j \in Jobs, Expire(j) PROVE [Client!Next]_View
  <2>1. \A i \in Jobs : i # j => status'[i] = status[i] /\ beat'[i] = beat[i]
    BY <1>40 DEF Expire
  <2>2. View' = [View EXCEPT ![j] = Derived(j)']
    BY <2>1, OneJobSeen
  <2>3. \/ Derived(j)' = Derived(j)
        \/ Derived(j) \in ActiveStates /\ Derived(j)' = "lost"
    BY <1>40 DEF Expire, Derived, Lost, ActiveStates
  <2> QED
    BY <2>2, <2>3, MoveSeen
<1>41. ASSUME NEW j \in Jobs, Older(j) PROVE [Client!Next]_View
  <2>1. \A i \in Jobs : i # j => status'[i] = status[i] /\ beat'[i] = beat[i]
    BY <1>41 DEF Older
  <2>2. View' = [View EXCEPT ![j] = Derived(j)']
    BY <2>1, OneJobSeen
  <2>3. \/ Derived(j)' = Derived(j)
        \/ Derived(j) \in ActiveStates /\ Derived(j)' = "lost"
    BY <1>41 DEF Older, Derived, Lost, ActiveStates
  <2> QED
    BY <2>2, <2>3, MoveSeen
<1>42. ASSUME Reboot PROVE [Client!Next]_View
  <2> DEFINE gone == {j \in Jobs : View[j] \in ActiveStates}
  <2>1. \A j \in Jobs : /\ status'[j] = status[j]
                        /\ status[j] # "none" => beat'[j] \in {"stale", "overdue"}
    BY <1>42 DEF Reboot
  <2>2. ASSUME NEW j \in Jobs
        PROVE  Derived(j)' = IF Derived(j) \in ActiveStates THEN "lost" ELSE Derived(j)
    <3>1. status'[j] = status[j] /\ (status[j] \in ActiveStates => beat'[j] \in {"stale", "overdue"})
      <4>1. status[j] \in ActiveStates => status[j] # "none"
        BY DEF ActiveStates
      <4>2. status'[j] = status[j] /\ (status[j] # "none" => beat'[j] \in {"stale", "overdue"})
        BY <2>1
      <4> QED
        BY <4>1, <4>2
    <3>2. CASE status[j] \in ActiveStates
      BY <3>1, <3>2 DEF Derived, Lost
    <3>3. CASE status[j] \notin ActiveStates
      BY <3>1, <3>3 DEF Derived, Lost
    <3> QED
      BY <3>2, <3>3
  <2>3. View' = [j \in Jobs |-> IF j \in gone THEN "lost" ELSE View[j]]
    BY <2>2 DEF View
  <2>4. Client!LoseAll
    BY <2>3 DEF Client!LoseAll, Client!Active, ActiveStates, View
  <2> QED
    BY <2>4 DEF Client!Next
<1>43. CASE UNCHANGED vars
  BY <1>1, <1>43 DEF vars
<1> QED
  BY <1>1, <1>2, <1>3, <1>4, <1>5, <1>6, <1>7, <1>8, <1>9, <1>10, <1>11, <1>12, <1>13,
     <1>14, <1>15, <1>16, <1>17, <1>18, <1>19, <1>20, <1>21, <1>22, <1>23, <1>24, <1>25,
     <1>26, <1>27, <1>28, <1>29, <1>30, <1>31, <1>32, <1>33, <1>34, <1>35, <1>36, <1>37,
     <1>38, <1>39, <1>40, <1>41, <1>42, <1>43
     DEF Next, SessionStep, SupStep, FaultStep

\* The rpc sessions and supervisors implement the job states of the README: what a
\* client derives from status.json and heartbeat.json only ever takes the steps of
\* RxLifecycle, so a final state is final and only a cancel clears a lost job.
THEOREM ClientsSeeTheLifecycle == ASSUME Dependable PROVE Spec => LifecycleHolds
<1> DEFINE Inv == TypeOK /\ LocksNameTheirHolders /\ Reserved /\ Watched /\ StatusFollows
<1>1. Init => Inv
  BY InitTypeOK, InitLocks, InitReserved, InitWatched, NamesAssumption
     DEF Init, Idle, StatusFollows
<1>2. Inv /\ [Next]_vars => Inv'
  BY NextTypeOK, NextLocks, NextReserved, NextOneSupervisor, NextSeenAlive, NextClearedDead,
     NextHeld, NextFollows DEF Watched, Dependable
<1>3. Init => Client!Init
  BY DEF Init, Client!Init, Derived, Lost, ActiveStates
<1>4. Inv /\ [Next]_vars => [Client!Next]_View
  BY StepSeen
<1> QED
  BY <1>1, <1>2, <1>3, <1>4, PTL DEF Spec, LifecycleHolds, Client!Spec, View
=============================================================================
