--------------------------- MODULE RxFetchProofs ---------------------------
(***************************************************************************)
(* What a fetch counts on and what it leaves alone, for any number of      *)
(* fetches, files and contents and any budget of faults.                   *)
(***************************************************************************)
EXTENDS RxFetch, TLAPS

\* A budget is spent, never refilled.
LEMMA SpendFacts ==
    ASSUME TypeOK, NEW kinds \in SUBSET Kinds, Spend(kinds)
    PROVE  /\ left' \in [Kinds -> Nat]
           /\ \A k \in Kinds : left'[k] <= left[k]
           /\ \A k \in kinds : left'[k] < left[k]
<1> DEFINE costs == IF kinds \subseteq Ordinary THEN kinds ELSE kinds \cup {"any"}
<1>1. costs \subseteq Kinds /\ kinds \subseteq costs
  BY DEF Kinds
<1>2. \A k \in costs : left[k] > 0
  BY DEF Spend
<1>3. left' = [k \in Kinds |-> IF k \in costs THEN left[k] - 1 ELSE left[k]]
  BY DEF Spend
<1>4. left \in [Kinds -> Nat]
  BY DEF TypeOK
<1> HIDE DEF costs
<1>5. \A k \in Kinds : left'[k] \in Nat /\ left'[k] <= left[k] /\ (k \in costs => left'[k] < left[k])
  BY <1>1, <1>2, <1>3, <1>4
<1> QED BY <1>1, <1>3, <1>5

LEMMA FaultKinds ==
    /\ \A k \in {"starts", "overlap", "host", "edits", "window", "cut", "refused", "busy", "late",
                 "crash", "any"} : k \in Kinds
  BY DEF Kinds, Ordinary

\* Every step leaves the budget as it is or spends of it.
LEMMA Spending ==
    ASSUME TypeOK, [Next]_vars
    PROVE  left' = left \/ \E kinds \in SUBSET Kinds : Spend(kinds)
<1>1. CASE vars' = vars
  BY <1>1 DEF vars
<1>2. ASSUME NEW f \in Files, JobWrites(f) \/ Edit(f)
      PROVE  \E kinds \in SUBSET Kinds : Spend(kinds)
  BY <1>2, FaultKinds DEF JobWrites, Edit
<1>3. CASE JobEnds
  BY <1>3 DEF JobEnds
<1>4. ASSUME NEW p \in Fetches, Start(p)
      PROVE  \E kinds \in SUBSET Kinds : Spend(kinds)
  BY <1>4, FaultKinds DEF Start
<1>5. ASSUME NEW p \in Fetches, NEW f \in Files, FileStep(p, f)
      PROVE  left' = left \/ \E kinds \in SUBSET Kinds : Spend(kinds)
  BY <1>5, FaultKinds DEF FileStep, Look, Place, Note, Reject, Missing
<1>6. ASSUME NEW p \in Fetches, NothingNeeded(p) \/ FirstRound(p) \/ Finish(p) \/ Again(p)
      PROVE  left' = left
  BY <1>6 DEF NothingNeeded, FirstRound, Finish, Again
<1>7. ASSUME NEW p \in Fetches, Break(p) \/ TooLate(p) \/ Crash(p)
      PROVE  \E kinds \in SUBSET Kinds : Spend(kinds)
  BY <1>7, FaultKinds DEF Break, TooLate, Crash
<1> QED BY <1>1, <1>2, <1>3, <1>4, <1>5, <1>6, <1>7 DEF Next, Progress

LEMMA SpentStays ==
    ASSUME TypeOK, [Next]_vars
    PROVE  /\ left' \in [Kinds -> Nat] /\ \A k \in Kinds : left'[k] <= Budget[k]
           /\ \A k \in Kinds : Spent(k) => Spent(k)'
<1>1. left \in [Kinds -> Nat] /\ \A k \in Kinds : left[k] <= Budget[k] /\ Budget[k] \in Nat
  BY ConstantsAssumption DEF TypeOK
<1>2. CASE left' = left
  BY <1>1, <1>2 DEF Spent
<1>3. ASSUME NEW kinds \in SUBSET Kinds, Spend(kinds)
      PROVE  /\ left' \in [Kinds -> Nat] /\ \A k \in Kinds : left'[k] <= Budget[k]
             /\ \A k \in Kinds : Spent(k) => Spent(k)'
  <2>1. left' \in [Kinds -> Nat] /\ \A k \in Kinds : left'[k] <= left[k]
    BY <1>3, SpendFacts
  <2> QED BY <1>1, <2>1 DEF Spent
<1> QED BY <1>2, <1>3, Spending
-----------------------------------------------------------------------------
(***************************************************************************)
(* Types.                                                                  *)
(***************************************************************************)
LEMMA TypeInit == Init => TypeOK
<1> SUFFICES ASSUME Init PROVE TypeOK
  OBVIOUS
<1>1. [content |-> None, edit |-> 0] \in LocalFiles
  BY DEF LocalFiles
<1>2. local \in [Files -> LocalFiles] /\ saved \in Receipts /\ mem \in [Fetches -> Receipts]
  BY <1>1 DEF Init, NoReceipts, Receipts
<1>3. host \in Listings /\ outputs \in Listings /\ want \in [Fetches -> Listings]
  BY ConstantsAssumption DEF Init, Nothing, Listings
<1>4. left \in [Kinds -> Nat] /\ \A k \in Kinds : left[k] <= Budget[k]
  BY ConstantsAssumption DEF Init
<1>5. \A p \in Fetches, f \in Files : status[p][f] = "out"
  BY DEF Init, NotListed
<1> QED BY <1>2, <1>3, <1>4, <1>5, ConstantsAssumption DEF Init, TypeOK, NotListed

LEMMA StopTypes ==
    ASSUME TypeOK, NEW p \in Fetches, Stop(p)
    PROVE  /\ at' \in [Fetches -> {"idle", "look", "round"}] /\ force' \in [Fetches -> BOOLEAN]
           /\ want' \in [Fetches -> Listings] /\ mem' \in [Fetches -> Receipts]
           /\ status' \in [Fetches -> [Files -> {"out", "unseen", "need", "have", "conflict", "placed",
                                                "done", "error", "absent", "missing"}]]
           /\ trouble' \in [Fetches -> {"none", "lost", "refused"}]
           /\ round' \in [Fetches -> 0 .. Rounds]
           /\ \A q \in Fetches, f \in Files : status'[q][f] # "out" => want'[q][f] # None
<1>1. Nothing \in Listings /\ NoReceipts \in Receipts
  BY DEF Nothing, NoReceipts, Listings, Receipts
<1>2. NotListed \in [Files -> {"out"}]
  BY DEF NotListed
<1>3. 0 \in 0 .. Rounds
  BY ConstantsAssumption
<1> QED BY <1>1, <1>2, <1>3 DEF Stop, TypeOK

LEMMA ReceiptType ==
    ASSUME TypeOK, NEW p \in Fetches, NEW f \in Files, status[p][f] # "out"
    PROVE  Receipt(p, f) \in Notes /\ want[p][f] \in HostContents
<1>1. want[p][f] \in HostContents /\ local[f] \in LocalFiles
  BY DEF TypeOK, Listings
<1> QED BY <1>1 DEF Receipt, Notes

LEMMA TypeStep ==
    ASSUME TypeOK, [Next]_vars
    PROVE  TypeOK'
<1> USE DEF Receiving
<1>0. left' \in [Kinds -> Nat] /\ \A k \in Kinds : left'[k] <= Budget[k]
  BY SpentStays
<1>1. CASE vars' = vars
  BY <1>1 DEF vars, world, fetch, TypeOK
<1>2. ASSUME NEW f \in Files, JobWrites(f) PROVE TypeOK'
  <2>1. host' \in Listings
    BY <1>2 DEF JobWrites, TypeOK, Listings
  <2> QED BY <1>0, <1>2, <2>1 DEF JobWrites, fetch, TypeOK
<1>3. CASE JobEnds
  BY <1>0, <1>3 DEF JobEnds, fetch, TypeOK
<1>4. ASSUME NEW f \in Files, Edit(f) PROVE TypeOK'
  <2>1. 1 + Budget["edits"] - left["edits"] \in Nat
    BY FaultKinds, ConstantsAssumption DEF TypeOK
  <2>2. PICK c \in HostContents \cup UserContents \cup {None, Dir} :
           local' = [local EXCEPT ![f] = [content |-> c, edit |-> 1 + Budget["edits"] - left["edits"]]]
    BY <1>4 DEF Edit
  <2>3. [content |-> c, edit |-> 1 + Budget["edits"] - left["edits"]] \in LocalFiles
    BY <2>1 DEF LocalFiles
  <2>4. local' \in [Files -> LocalFiles]
    BY <2>2, <2>3 DEF TypeOK
  <2> QED BY <1>0, <1>4, <2>4 DEF Edit, fetch, TypeOK
<1>5. ASSUME NEW p \in Fetches, Start(p) PROVE TypeOK'
  <2>1. PICK listing \in {host, outputs}, b \in BOOLEAN :
           /\ want' = [want EXCEPT ![p] = listing]
           /\ force' = [force EXCEPT ![p] = b]
           /\ status' = [status EXCEPT ![p] =
                           [f \in Files |-> IF listing[f] = None THEN "out" ELSE "unseen"]]
    BY <1>5 DEF Start
  <2>2. listing \in Listings /\ saved \in Receipts
    BY DEF TypeOK
  <2>3. want' \in [Fetches -> Listings] /\ force' \in [Fetches -> BOOLEAN]
        /\ mem' \in [Fetches -> Receipts] /\ at' \in [Fetches -> {"idle", "look", "round"}]
    BY <1>5, <2>1, <2>2 DEF Start, TypeOK
  <2>4. status' \in [Fetches -> [Files -> {"out", "unseen", "need", "have", "conflict", "placed",
                                          "done", "error", "absent", "missing"}]]
    BY <2>1 DEF TypeOK
  <2>5. \A q \in Fetches, f \in Files : status'[q][f] # "out" => want'[q][f] # None
    BY <2>1 DEF TypeOK
  <2> QED BY <1>0, <1>5, <2>3, <2>4, <2>5 DEF Start, world, TypeOK
<1>6. ASSUME NEW p \in Fetches, NEW f \in Files, Look(p, f) PROVE TypeOK'
  <2>1. Verdict(p, f) \in {"need", "have", "conflict"}
    BY DEF Verdict
  <2>2. Receipt(p, f) \in Notes
    BY <1>6, ReceiptType DEF Look
  <2>3. [mem EXCEPT ![p][f] = Receipt(p, f)] \in [Fetches -> Receipts]
    BY <2>2 DEF TypeOK, Receipts
  <2>4. mem' \in [Fetches -> Receipts]
    BY <1>6, <2>3 DEF Look, TypeOK
  <2>5. status' \in [Fetches -> [Files -> {"out", "unseen", "need", "have", "conflict", "placed",
                                          "done", "error", "absent", "missing"}]]
    BY <1>6, <2>1 DEF Look, TypeOK
  <2>6. \A q \in Fetches, g \in Files : status'[q][g] # "out" => want'[q][g] # None
    BY <1>6 DEF Look, TypeOK
  <2> QED BY <1>0, <1>6, <2>4, <2>5, <2>6 DEF Look, world, TypeOK
<1>7. ASSUME NEW p \in Fetches, NothingNeeded(p) \/ Crash(p) PROVE TypeOK'
  <2>1. Stop(p) /\ UNCHANGED world
    BY <1>7 DEF NothingNeeded, Crash
  <2> QED BY <1>0, <2>1, StopTypes DEF world, TypeOK
<1>8. ASSUME NEW p \in Fetches, FirstRound(p) PROVE TypeOK'
  <2>1. round' \in [Fetches -> 0 .. Rounds]
    BY <1>8, ConstantsAssumption DEF FirstRound, TypeOK
  <2> QED BY <1>0, <1>8, <2>1 DEF FirstRound, world, TypeOK
<1>9. ASSUME NEW p \in Fetches, NEW f \in Files, Place(p, f) PROVE TypeOK'
  <2>1. want[p][f] \in HostContents
    BY <1>9, ReceiptType DEF Place
  <2>2. [content |-> want[p][f], edit |-> 0] \in LocalFiles
    BY <2>1 DEF LocalFiles
  <2>3. local' \in [Files -> LocalFiles]
    BY <1>9, <2>2 DEF Place, TypeOK
  <2> QED BY <1>0, <1>9, <2>3 DEF Place, TypeOK
<1>10. ASSUME NEW p \in Fetches, NEW f \in Files, Note(p, f) PROVE TypeOK'
  <2>1. Noted(p, f) \in Notes
    BY <1>10, ReceiptType DEF Note, Noted
  <2>2. mem' \in [Fetches -> Receipts]
    BY <1>10, <2>1 DEF Note, TypeOK, Receipts
  <2> QED BY <1>0, <1>10, <2>2 DEF Note, world, TypeOK
<1>11. ASSUME NEW p \in Fetches, NEW f \in Files, Reject(p, f) \/ Missing(p, f) PROVE TypeOK'
  <2>1. PICK s \in {"error", "absent"} : status' = [status EXCEPT ![p][f] = s]
    BY <1>11 DEF Reject, Missing
  <2>2. status[p][f] = "need" /\ UNCHANGED <<world, at, force, want, mem, trouble, round>>
    BY <1>11 DEF Reject, Missing
  <2> QED BY <1>0, <2>1, <2>2 DEF world, TypeOK
<1>12. ASSUME NEW p \in Fetches, Break(p) PROVE TypeOK'
  <2>1. PICK unsaid \in SUBSET Having(p, "absent") :
          status' = [status EXCEPT ![p] = [f \in Files |-> IF f \in unsaid THEN "need" ELSE @[f]]]
    BY <1>12 DEF Break
  <2>2. status' \in [Fetches -> [Files -> {"out", "unseen", "need", "have", "conflict", "placed",
                                          "done", "error", "absent", "missing"}]]
    BY <2>1 DEF TypeOK
  <2>3. \A q \in Fetches, f \in Files : status'[q][f] # "out" => want'[q][f] # None
    BY <1>12, <2>1 DEF Break, Having, TypeOK
  <2>4. trouble' \in [Fetches -> {"none", "lost", "refused"}]
    BY <1>12 DEF Break, TypeOK
  <2> QED BY <1>0, <1>12, <2>2, <2>3, <2>4 DEF Break, world, TypeOK
<1>13. ASSUME NEW p \in Fetches, Finish(p) \/ TooLate(p) PROVE TypeOK'
  <2>1. Stop(p) /\ saved' = mem[p] /\ UNCHANGED <<host, outputs, local>>
    BY <1>13 DEF Finish, TooLate, Kept
  <2>2. saved' \in Receipts
    BY <2>1 DEF TypeOK
  <2> QED BY <1>0, <2>1, <2>2, StopTypes DEF TypeOK
<1>14. ASSUME NEW p \in Fetches, Again(p) PROVE TypeOK'
  <2>1. saved' \in Receipts
    BY <1>14 DEF Again, Kept, TypeOK
  <2>2. round' \in [Fetches -> 0 .. Rounds]
    BY <1>14, ConstantsAssumption DEF Again, TypeOK
  <2>3. status' \in [Fetches -> [Files -> {"out", "unseen", "need", "have", "conflict", "placed",
                                          "done", "error", "absent", "missing"}]]
    BY <1>14 DEF Again, TypeOK
  <2>4. \A q \in Fetches, f \in Files : status'[q][f] # "out" => want'[q][f] # None
    BY <1>14 DEF Again, Remaining, Having, TypeOK
  <2> QED BY <1>0, <1>14, <2>1, <2>2, <2>3, <2>4 DEF Again, TypeOK
<1> QED
  BY <1>1, <1>2, <1>3, <1>4, <1>5, <1>6, <1>7, <1>8, <1>9, <1>10, <1>11, <1>12, <1>13, <1>14
  DEF Next, Progress, FileStep
-----------------------------------------------------------------------------
(***************************************************************************)
(* What a fetch knows, and that fetches run one at a time.                 *)
(***************************************************************************)
LEMMA KnowsStep ==
    ASSUME TypeOK, KnowsWhileItRuns, [Next]_vars
    PROVE  KnowsWhileItRuns'
<1> USE DEF KnowsWhileItRuns
<1>0. /\ at \in [Fetches -> {"idle", "look", "round"}]
      /\ status \in [Fetches -> [Files -> {"out", "unseen", "need", "have", "conflict", "placed",
                                          "done", "error", "absent", "missing"}]]
  BY DEF TypeOK
<1>1. CASE UNCHANGED <<at, status>>
  BY <1>1
<1>2. ASSUME NEW p \in Fetches, Start(p) PROVE KnowsWhileItRuns'
  BY <1>0, <1>2 DEF Start
<1>3. ASSUME NEW p \in Fetches, Stop(p) PROVE KnowsWhileItRuns'
  BY <1>0, <1>3 DEF Stop, NotListed
<1>4. ASSUME NEW p \in Fetches, FirstRound(p) PROVE KnowsWhileItRuns'
  BY <1>0, <1>4 DEF FirstRound, Having
<1>5. ASSUME NEW p \in Fetches, NEW f \in Files, Look(p, f) PROVE KnowsWhileItRuns'
  <2>1. Verdict(p, f) \in {"need", "have", "conflict"}
    BY DEF Verdict
  <2> QED BY <1>0, <1>5, <2>1 DEF Look
<1>6. ASSUME NEW p \in Fetches, NEW f \in Files, NEW s \in {"placed", "error", "absent", "done"},
             at[p] = "round", status' = [status EXCEPT ![p][f] = s], at' = at
      PROVE  KnowsWhileItRuns'
  BY <1>0, <1>6
<1>7. ASSUME NEW p \in Fetches, Break(p) \/ Again(p) PROVE KnowsWhileItRuns'
  <2>1. at[p] = "round" /\ at' = at
    BY <1>7 DEF Break, Again, RoundDone
  <2>2. \A q \in Fetches, f \in Files :
           /\ q # p => status'[q][f] = status[q][f]
           /\ status'[p][f] \in {status[p][f], "need", "missing"}
    BY <1>0, <1>7 DEF Break, Again
  <2> QED BY <1>0, <2>1, <2>2
<1>8. ASSUME NEW p \in Fetches, NEW f \in Files,
             Place(p, f) \/ Note(p, f) \/ Reject(p, f) \/ Missing(p, f)
      PROVE  KnowsWhileItRuns'
  BY <1>6, <1>8 DEF Place, Note, Reject, Missing, Receiving
<1> QED
  BY <1>1, <1>2, <1>3, <1>4, <1>5, <1>7, <1>8
  DEF Next, Progress, FileStep, vars, fetch, JobWrites, JobEnds, Edit, NothingNeeded, Finish, TooLate,
      Crash

LEMMA OneStep ==
    ASSUME TypeOK, OneAtATime, [Next]_vars
    PROVE  OneAtATime'
<1>0. at \in [Fetches -> {"idle", "look", "round"}]
  BY DEF TypeOK
<1>1. Spent("overlap") => Spent("overlap")'
  BY SpentStays, FaultKinds
<1>2. ASSUME \A q \in Fetches : at'[q] # "idle" => at[q] # "idle" PROVE OneAtATime'
  BY <1>1, <1>2 DEF OneAtATime
<1>3. ASSUME NEW p \in Fetches, Start(p) PROVE OneAtATime'
  <2>1. CASE \A q \in Fetches : at[q] = "idle"
    <3>1. \A q \in Fetches : q # p => at'[q] = "idle"
      BY <1>0, <1>3, <2>1 DEF Start
    <3> QED BY <3>1 DEF OneAtATime
  <2>2. CASE ~\A q \in Fetches : at[q] = "idle"
    <3>1. Spend({"starts"} \cup {"overlap"})
      BY <1>3, <2>2 DEF Start
    <3>2. left'["overlap"] < left["overlap"]
      BY <3>1, SpendFacts, FaultKinds
    <3>3. left["overlap"] <= Budget["overlap"] /\ left["overlap"] \in Nat /\ Budget["overlap"] \in Nat
          /\ left'["overlap"] \in Nat
      BY FaultKinds, SpentStays, ConstantsAssumption DEF TypeOK
    <3>4. Spent("overlap")'
      BY <3>2, <3>3 DEF Spent
    <3> QED BY <3>4 DEF OneAtATime
  <2> QED BY <2>1, <2>2
<1>4. ASSUME NEW p \in Fetches, Stop(p) \/ FirstRound(p) PROVE OneAtATime'
  BY <1>0, <1>2, <1>4 DEF Stop, FirstRound
<1>5. CASE UNCHANGED at
  BY <1>2, <1>5
<1> QED
  BY <1>3, <1>4, <1>5
  DEF Next, Progress, FileStep, vars, fetch, JobWrites, JobEnds, Edit, NothingNeeded, Finish, TooLate,
      Crash, Break, Again, Look, Place, Note, Reject, Missing
-----------------------------------------------------------------------------
(***************************************************************************)
(* Receipts.                                                               *)
(***************************************************************************)
\* A fault that has to be paid for shows from then on.
LEMMA PaidFor ==
    ASSUME TypeOK, NEW kinds \in SUBSET Kinds, NEW k \in kinds, Spend(kinds)
    PROVE  Spent(k)'
<1>1. left'[k] < left[k] /\ left[k] <= Budget[k] /\ left[k] \in Nat /\ left'[k] \in Nat /\ Budget[k] \in Nat
  BY SpendFacts, ConstantsAssumption DEF TypeOK
<1> QED BY <1>1 DEF Spent

\* What Look and Note write down is true of the file as it is.
LEMMA HaveIsThere ==
    ASSUME TypeOK, NEW p \in Fetches, NEW f \in Files, Honest(mem[p]), Verdict(p, f) = "have"
    PROVE  /\ local[f].content = want[p][f] \/ Spent("overlap")
           /\ status[p][f] # "out" => ~UsersOwn(local[f])
<1>1. local[f].content # None /\ Known(p, f) = want[p][f]
  BY DEF Verdict
<1>2. CASE Ours(mem[p], f)
  <2>1. mem[p][f] # None /\ mem[p][f].of = local[f] /\ mem[p][f].sha = want[p][f]
    BY <1>1, <1>2 DEF Ours, Known
  <2> QED BY <2>1 DEF Honest
<1>3. CASE ~Ours(mem[p], f)
  <2>1. local[f].content = want[p][f]
    BY <1>1, <1>3 DEF Known
  <2>2. status[p][f] # "out" => want[p][f] \in HostContents
    BY ReceiptType
  <2> QED BY <2>1, <2>2, ConstantsAssumption DEF UsersOwn
<1> QED BY <1>2, <1>3

LEMMA HonestStep ==
    ASSUME TypeOK, KnowsWhileItRuns, WindowsAreClean, ReceiptsHonest, [Next]_vars
    PROVE  ReceiptsHonest'
<1>1. SUFFICES ASSUME ~Spent("window")' PROVE Honest(saved)' /\ \A p \in Fetches : Honest(mem[p])'
  BY DEF ReceiptsHonest
<1>2. /\ ~Spent("window")
      /\ Spent("overlap") => Spent("overlap")'
  BY <1>1, SpentStays, FaultKinds
<1>3. Honest(saved) /\ \A p \in Fetches : Honest(mem[p])
  BY <1>2 DEF ReceiptsHonest
<1>4. mem \in [Fetches -> Receipts] /\ saved \in Receipts
  BY DEF TypeOK
<1>5. ASSUME saved' = saved \/ \E p \in Fetches : saved' = mem[p]
      PROVE  Honest(saved)'
  BY <1>2, <1>3, <1>5 DEF Honest
<1>6. ASSUME NEW p \in Fetches, mem'[p] \in {mem[p], saved, NoReceipts}
      PROVE  Honest(mem[p])'
  BY <1>2, <1>3, <1>6 DEF Honest, NoReceipts
<1>7. CASE UNCHANGED <<saved, mem>>
  BY <1>5, <1>6, <1>7
<1>8. ASSUME NEW p \in Fetches, Start(p) \/ Stop(p), saved' = saved \/ saved' = mem[p]
      PROVE  Honest(saved)' /\ \A q \in Fetches : Honest(mem[q])'
  <2>1. \A q \in Fetches : mem'[q] \in {mem[q], saved, NoReceipts}
    BY <1>4, <1>8 DEF Start, Stop
  <2> QED BY <1>5, <1>6, <1>8, <2>1
<1>9. ASSUME NEW p \in Fetches, NEW f \in Files, status[p][f] # "out",
             local[f].content = want[p][f] \/ Spent("overlap"), ~UsersOwn(local[f]),
             mem' = [mem EXCEPT ![p][f] = Receipt(p, f)], saved' = saved
      PROVE  Honest(saved)' /\ \A q \in Fetches : Honest(mem[q])'
  <2>1. Honest(saved)' /\ \A q \in Fetches \ {p} : Honest(mem[q])'
    BY <1>4, <1>5, <1>6, <1>9
  <2>2. \A g \in Files : mem'[p][g] = IF g = f THEN Receipt(p, f) ELSE mem[p][g]
    BY <1>4, <1>9 DEF Receipts
  <2>3. Receipt(p, f).of = local[f] /\ Receipt(p, f).sha = want[p][f]
    BY DEF Receipt
  <2>4. Honest(mem[p])'
    BY <1>2, <1>3, <1>9, <2>2, <2>3 DEF Honest, UsersOwn
  <2> QED BY <2>1, <2>4
<1>10. ASSUME NEW p \in Fetches, NEW f \in Files, Look(p, f)
       PROVE  Honest(saved)' /\ \A q \in Fetches : Honest(mem[q])'
  <2>1. CASE Verdict(p, f) = "have"
    BY <1>3, <1>9, <1>10, <2>1, HaveIsThere DEF Look, world
  <2>2. CASE Verdict(p, f) # "have"
    BY <1>7, <1>10, <2>2 DEF Look, world
  <2> QED BY <2>1, <2>2
<1>11. ASSUME NEW p \in Fetches, NEW f \in Files, Note(p, f)
       PROVE  Honest(saved)' /\ \A q \in Fetches : Honest(mem[q])'
  <2>1. local[f].content = want[p][f] \/ Spent("overlap")
    BY <1>2, <1>11 DEF Note, WindowsAreClean
  <2>2. ~UsersOwn(local[f])
    BY <1>2, <1>11 DEF Note, WindowsAreClean
  <2> QED BY <1>9, <1>11, <2>1, <2>2 DEF Note, Noted, world
<1>12. ASSUME NEW p \in Fetches, Again(p)
       PROVE  Honest(saved)' /\ \A q \in Fetches : Honest(mem[q])'
  BY <1>5, <1>6, <1>12 DEF Again, Kept
<1> QED
  BY <1>7, <1>8, <1>10, <1>11, <1>12
  DEF Next, Progress, FileStep, vars, world, fetch, JobWrites, JobEnds, Edit, NothingNeeded, Finish,
      TooLate, Crash, Break, Place, Reject, Missing, FirstRound, Kept, Start
-----------------------------------------------------------------------------
(***************************************************************************)
(* The window between a look and a receipt.                                *)
(***************************************************************************)
LEMMA WindowStep ==
    ASSUME TypeOK, KnowsWhileItRuns, OneAtATime, WindowsAreClean, ReceiptsHonest, [Next]_vars
    PROVE  WindowsAreClean'
<1>1. SUFFICES ASSUME ~Spent("window")', NEW p \in Fetches, NEW f \in Files
      PROVE  /\ status'[p][f] \in Pending => force'[p] \/ ~UsersOwn(local'[f])
             /\ status'[p][f] = "placed" => ~UsersOwn(local'[f])
             /\ status'[p][f] = "placed" => local'[f].content = want'[p][f] \/ Spent("overlap")'
  BY DEF WindowsAreClean, Pending, UsersOwn
<1> DEFINE Goal == /\ status'[p][f] \in Pending => force'[p] \/ ~UsersOwn(local'[f])
                   /\ status'[p][f] = "placed" => ~UsersOwn(local'[f])
                   /\ status'[p][f] = "placed" => local'[f].content = want'[p][f] \/ Spent("overlap")'
<1>2. /\ ~Spent("window")
      /\ Spent("overlap") => Spent("overlap")'
  BY <1>1, SpentStays, FaultKinds
<1>3. /\ status[p][f] \in Pending => force[p] \/ ~UsersOwn(local[f])
      /\ status[p][f] = "placed" => ~UsersOwn(local[f])
      /\ status[p][f] = "placed" => local[f].content = want[p][f] \/ Spent("overlap")
  BY <1>2 DEF WindowsAreClean
<1>4. /\ at \in [Fetches -> {"idle", "look", "round"}]
      /\ status \in [Fetches -> [Files -> {"out", "unseen", "need", "have", "conflict", "placed",
                                          "done", "error", "absent", "missing"}]]
      /\ local \in [Files -> LocalFiles] /\ want \in [Fetches -> Listings]
      /\ force \in [Fetches -> BOOLEAN]
  BY DEF TypeOK
<1>5. ASSUME local'[f] = local[f], want'[p] = want[p], force'[p] = force[p],
             \/ status'[p][f] = status[p][f]
             \/ status'[p][f] \notin Pending \cup {"placed"}
             \/ status[p][f] \in Pending /\ status'[p][f] \in Pending
      PROVE  Goal
  <2>1. "placed" \notin Pending
    BY DEF Pending
  <2> QED BY <1>2, <1>3, <1>5, <2>1
<1>6. ASSUME status'[p][f] \notin Pending \cup {"placed"} PROVE Goal
  BY <1>6
<1> HIDE DEF Goal
<1>7. ASSUME NEW g \in Files, Edit(g) PROVE Goal
  <2>1. UNCHANGED <<status, want, force>> /\ (g # f => local'[f] = local[f])
    BY <1>4, <1>7 DEF Edit, fetch
  <2>2. CASE g # f
    BY <1>5, <2>1, <2>2
  <2>3. CASE g = f /\ InWindow(f)
    <3>1. Spend({"edits"} \cup {"window"})
      BY <1>7, <2>3 DEF Edit
    <3>2. Spent("window")'
      BY <3>1, PaidFor, FaultKinds
    <3> QED BY <1>1, <3>2
  <2>4. CASE g = f /\ ~InWindow(f)
    <3>1. status'[p][f] \notin Pending \cup {"placed"}
      BY <2>1, <2>4 DEF InWindow
    <3> QED BY <1>6, <3>1
  <2> QED BY <2>2, <2>3, <2>4
<1>8. ASSUME NEW q \in Fetches, Start(q) PROVE Goal
  <2>1. local' = local /\ (q # p => status'[p] = status[p] /\ want'[p] = want[p] /\ force'[p] = force[p])
    BY <1>4, <1>8 DEF Start, world
  <2>2. q = p => status'[p][f] \in {"out", "unseen"}
    BY <1>4, <1>8 DEF Start
  <2>3. q = p => status'[p][f] \notin Pending \cup {"placed"}
    BY <2>2 DEF Pending
  <2> QED BY <1>5, <1>6, <2>1, <2>3
<1>9. ASSUME NEW q \in Fetches, Stop(q), local' = local PROVE Goal
  <2>1. q # p => status'[p] = status[p] /\ want'[p] = want[p] /\ force'[p] = force[p]
    BY <1>4, <1>9 DEF Stop
  <2>2. q = p => status'[p][f] = "out"
    BY <1>4, <1>9 DEF Stop, NotListed
  <2>3. q = p => status'[p][f] \notin Pending \cup {"placed"}
    BY <2>2 DEF Pending
  <2> QED BY <1>5, <1>6, <1>9, <2>1, <2>3
<1>10. ASSUME NEW q \in Fetches, NEW g \in Files, Look(q, g) PROVE Goal
  <2>1. UNCHANGED <<local, want, force>>
    BY <1>10 DEF Look, world
  <2>2. CASE q # p \/ g # f
    <3>1. status'[p][f] = status[p][f]
      BY <1>4, <1>10, <2>2 DEF Look
    <3> QED BY <1>5, <2>1, <3>1
  <2>3. CASE q = p /\ g = f /\ Verdict(p, f) # "need"
    <3>1. status'[p][f] \in {"have", "conflict"}
      BY <1>4, <1>10, <2>3 DEF Look, Verdict
    <3>2. status'[p][f] \notin Pending \cup {"placed"}
      BY <3>1 DEF Pending
    <3> QED BY <1>6, <3>2
  <2>4. CASE q = p /\ g = f /\ Verdict(p, f) = "need"
    <3>1. local[f].content = None \/ Ours(mem[p], f) \/ force[p]
      BY <2>4 DEF Verdict
    <3>2. Honest(mem[p])
      BY <1>2 DEF ReceiptsHonest
    <3>3. force[p] \/ ~UsersOwn(local[f])
      BY <3>1, <3>2, ConstantsAssumption DEF Ours, Honest, UsersOwn
    <3>4. status'[p][f] = "need"
      BY <1>4, <1>10, <2>4 DEF Look
    <3> QED BY <2>1, <3>3, <3>4 DEF Goal, UsersOwn
  <2> QED BY <2>2, <2>3, <2>4
<1>11. ASSUME NEW q \in Fetches, NEW g \in Files, Place(q, g) PROVE Goal
  <2>1. UNCHANGED <<want, force>> /\ status' = [status EXCEPT ![q][g] = "placed"]
        /\ local' = [local EXCEPT ![g] = [content |-> want[q][g], edit |-> 0]]
        /\ at[q] = "round" /\ status[q][g] = "need"
    BY <1>11 DEF Place, Receiving
  <2>2. CASE g # f
    <3>1. local'[f] = local[f] /\ status'[p][f] = status[p][f]
      BY <1>4, <2>1, <2>2
    <3> QED BY <1>5, <2>1, <3>1
  <2>3. CASE g = f
    <3>1. local'[f].content = want[q][f]
      BY <1>4, <2>1, <2>3
    <3>2. want[q][f] \in HostContents
      BY <2>1, <2>3, ReceiptType
    <3>3. ~UsersOwn(local'[f])
      BY <3>1, <3>2, ConstantsAssumption DEF UsersOwn
    <3>4. status'[p][f] = "placed" => local'[f].content = want'[p][f] \/ Spent("overlap")'
      <4>1. CASE q = p
        BY <2>1, <3>1, <4>1
      <4>2. CASE q # p
        <5>1. status'[p][f] = status[p][f]
          BY <1>4, <2>1, <4>2
        <5>2. status[p][f] = "placed" => at[p] # "idle"
          BY DEF KnowsWhileItRuns
        <5> QED BY <1>2, <2>1, <4>2, <5>1, <5>2 DEF OneAtATime
      <4> QED BY <4>1, <4>2
    <3> QED BY <3>3, <3>4 DEF Goal
  <2> QED BY <2>2, <2>3
<1>12. ASSUME NEW q \in Fetches, NEW g \in Files, NEW s \in {"done", "error", "absent"},
              status' = [status EXCEPT ![q][g] = s], UNCHANGED <<local, want, force>>,
              s = "done" \/ status[q][g] = "need"
       PROVE  Goal
  <2>1. CASE q # p \/ g # f
    <3>1. status'[p][f] = status[p][f]
      BY <1>4, <1>12, <2>1
    <3> QED BY <1>5, <1>12, <3>1
  <2>2. CASE q = p /\ g = f
    <3>1. status'[p][f] = s
      BY <1>4, <1>12, <2>2
    <3>2. \/ status'[p][f] \notin Pending \cup {"placed"}
          \/ status[p][f] \in Pending /\ status'[p][f] \in Pending
      BY <1>12, <2>2, <3>1 DEF Pending
    <3> QED BY <1>5, <1>12, <3>2
  <2> QED BY <2>1, <2>2
<1>13. ASSUME NEW q \in Fetches, Break(q) \/ Again(q) PROVE Goal
  <2>1. UNCHANGED <<local, want, force>>
    BY <1>13 DEF Break, Again, world
  <2>2. CASE q # p
    <3>1. status'[p] = status[p]
      BY <1>4, <1>13, <2>2 DEF Break, Again
    <3> QED BY <1>5, <2>1, <3>1
  <2>3. CASE q = p
    <3>1. \/ status'[p][f] = status[p][f]
          \/ status[p][f] \in Pending /\ status'[p][f] = "need"
          \/ status'[p][f] = "missing"
      BY <1>4, <1>13, <2>3 DEF Break, Again, Remaining, Having, Pending
    <3>2. \/ status'[p][f] = status[p][f]
          \/ status'[p][f] \notin Pending \cup {"placed"}
          \/ status[p][f] \in Pending /\ status'[p][f] \in Pending
      BY <3>1 DEF Pending
    <3> QED BY <1>5, <2>1, <3>2
  <2> QED BY <2>2, <2>3
<1>14. ASSUME UNCHANGED <<local, want, force, status>> PROVE Goal
  BY <1>5, <1>14
<1>15. ASSUME NEW q \in Fetches, NEW g \in Files, FileStep(q, g) PROVE Goal
  BY <1>10, <1>11, <1>12, <1>15 DEF FileStep, Note, Reject, Missing, Receiving, world
<1>16. ASSUME NEW q \in Fetches, NothingNeeded(q) \/ Finish(q) \/ TooLate(q) \/ Crash(q) PROVE Goal
  BY <1>9, <1>16 DEF NothingNeeded, Finish, TooLate, Crash, world
<1>17. ASSUME NEW q \in Fetches, FirstRound(q) PROVE Goal
  BY <1>14, <1>17 DEF FirstRound, world
<1>18. ASSUME NEW g \in Files, JobWrites(g) PROVE Goal
  BY <1>14, <1>18 DEF JobWrites, fetch
<1>19. CASE JobEnds \/ vars' = vars
  <2>1. Goal
    BY <1>14, <1>19 DEF JobEnds, vars, world, fetch
  <2> QED BY <2>1 DEF Goal
<1>20. Goal
  BY <1>7, <1>8, <1>13, <1>15, <1>16, <1>17, <1>18, <1>19 DEF Next, Progress, Goal
<1> QED BY <1>20 DEF Goal
-----------------------------------------------------------------------------
(***************************************************************************)
(* Every file rx wrote has a receipt that is or will be saved.             *)
(***************************************************************************)
LEMMA NoDirIsOurs ==
    ASSUME TypeOK, \A f \in Files : local[f].content = Dir => local[f].edit # 0, [Next]_vars
    PROVE  \A f \in Files : local'[f].content = Dir => local'[f].edit # 0
<1>0. local \in [Files -> LocalFiles]
  BY DEF TypeOK
<1>1. CASE local' = local
  BY <1>1
<1>2. ASSUME NEW g \in Files, Edit(g)
      PROVE  \A f \in Files : local'[f].content = Dir => local'[f].edit # 0
  <2>1. PICK c \in HostContents \cup UserContents \cup {None, Dir} :
           local' = [local EXCEPT ![g] = [content |-> c, edit |-> 1 + Budget["edits"] - left["edits"]]]
    BY <1>2 DEF Edit
  <2>2. 1 + Budget["edits"] - left["edits"] # 0
    BY FaultKinds, ConstantsAssumption DEF TypeOK
  <2> QED BY <1>0, <2>1, <2>2
<1>3. ASSUME NEW p \in Fetches, NEW g \in Files, Place(p, g)
      PROVE  \A f \in Files : local'[f].content = Dir => local'[f].edit # 0
  <2>1. want[p][g] # Dir
    BY <1>3, ReceiptType, ConstantsAssumption DEF Place, Receiving
  <2> QED BY <1>0, <1>3, <2>1 DEF Place
<1>4. ASSUME NEW p \in Fetches, NEW g \in Files, FileStep(p, g), ~Place(p, g)
      PROVE  local' = local
  BY <1>4 DEF FileStep, Look, Note, Reject, Missing, world
<1>5. ASSUME NEW p \in Fetches,
             Start(p) \/ NothingNeeded(p) \/ FirstRound(p) \/ Finish(p) \/ Again(p) \/ Break(p)
                \/ TooLate(p) \/ Crash(p)
      PROVE  local' = local
  BY <1>5 DEF Start, NothingNeeded, FirstRound, Finish, Again, Break, TooLate, Crash, world
<1>6. ASSUME NEW g \in Files, JobWrites(g) PROVE local' = local
  BY <1>6 DEF JobWrites
<1>7. CASE JobEnds \/ vars' = vars
  BY <1>1, <1>7 DEF JobEnds, vars, world
<1> QED BY <1>1, <1>2, <1>3, <1>4, <1>5, <1>6, <1>7 DEF Next, Progress

LEMMA RecordedStep ==
    ASSUME TypeOK, KnowsWhileItRuns, OneAtATime, WrittenIsRecorded, [Next]_vars
    PROVE  WrittenIsRecorded'
<1>1. \A f \in Files : local'[f].content = Dir => local'[f].edit # 0
  BY NoDirIsOurs DEF WrittenIsRecorded
<1> DEFINE Recorded(f) == /\ (\A p \in Fetches : at[p] # "round") => Covers(saved, f)
                          /\ \A p \in Fetches : at[p] # "idle" =>
                                status[p][f] = "placed" \/ Covers(mem[p], f)
<1>2. SUFFICES ASSUME ~Spent("crash")', ~Spent("overlap")', NEW f \in Files,
                      local'[f].content # None, local'[f].edit = 0
               PROVE  Recorded(f)'
  BY <1>1 DEF WrittenIsRecorded, Covers
<1>3. ~Spent("crash") /\ ~Spent("overlap")
  BY <1>2, SpentStays, FaultKinds
<1>4. \A p, q \in Fetches : at[p] # "idle" /\ at[q] # "idle" => p = q
  BY <1>3 DEF OneAtATime
<1>5. local[f].content # None /\ local[f].edit = 0 => Recorded(f)
  BY <1>3 DEF WrittenIsRecorded
<1>6. /\ at \in [Fetches -> {"idle", "look", "round"}]
      /\ status \in [Fetches -> [Files -> {"out", "unseen", "need", "have", "conflict", "placed",
                                          "done", "error", "absent", "missing"}]]
      /\ local \in [Files -> LocalFiles] /\ mem \in [Fetches -> Receipts]
  BY DEF TypeOK
<1>7. ASSUME local'[f] = local[f], saved' = saved, at' = at,
             \A p \in Fetches :
                 \/ status'[p][f] = status[p][f] /\ mem'[p][f] = mem[p][f]
                 \/ Covers(mem[p], f)'
                 \/ status[p][f] # "placed" /\ mem'[p][f] = mem[p][f]
      PROVE  Recorded(f)'
  BY <1>2, <1>5, <1>7 DEF Covers
<1>8. ASSUME NEW g \in Files, Edit(g) PROVE Recorded(f)'
  <2>1. PICK c \in HostContents \cup UserContents \cup {None, Dir} :
           local' = [local EXCEPT ![g] = [content |-> c, edit |-> 1 + Budget["edits"] - left["edits"]]]
    BY <1>8 DEF Edit
  <2>2. 1 + Budget["edits"] - left["edits"] # 0
    BY FaultKinds, ConstantsAssumption DEF TypeOK
  <2>3. g # f
    BY <1>2, <1>6, <2>1, <2>2
  <2>4. local'[f] = local[f] /\ UNCHANGED <<saved, at, status, mem>>
    BY <1>6, <1>8, <2>1, <2>3 DEF Edit, fetch
  <2> HIDE DEF Recorded
  <2> QED BY <1>7, <2>4
<1>9. ASSUME NEW p \in Fetches, Start(p) PROVE Recorded(f)'
  <2>1. \A q \in Fetches : at[q] = "idle"
    <3>1. SUFFICES ASSUME ~\A q \in Fetches : at[q] = "idle" PROVE FALSE
      OBVIOUS
    <3>2. Spend({"starts"} \cup {"overlap"})
      BY <1>9, <3>1 DEF Start
    <3>3. Spent("overlap")'
      BY <3>2, PaidFor, FaultKinds
    <3> QED BY <1>2, <3>3
  <2>2. /\ local' = local /\ saved' = saved /\ at' = [at EXCEPT ![p] = "look"]
        /\ mem' = [mem EXCEPT ![p] = saved]
    BY <1>9 DEF Start, world
  <2>3. Covers(saved, f)
    BY <1>2, <1>5, <2>1, <2>2
  <2>4. \A q \in Fetches : at'[q] # "idle" => q = p
    BY <1>6, <2>1, <2>2
  <2>5. mem'[p] = saved
    BY <1>6, <2>2
  <2> QED BY <2>2, <2>3, <2>4, <2>5 DEF Covers
<1>10. ASSUME NEW p \in Fetches, Stop(p), at[p] # "idle", local' = local, Covers(saved', f)
       PROVE  Recorded(f)'
  <2>1. \A q \in Fetches : at'[q] = "idle"
    BY <1>4, <1>6, <1>10 DEF Stop
  <2> QED BY <1>10, <2>1 DEF Covers
<1>11. ASSUME NEW p \in Fetches, NothingNeeded(p) PROVE Recorded(f)'
  <2>1. at[p] = "look" /\ Stop(p) /\ local' = local /\ saved' = saved
    BY <1>11 DEF NothingNeeded, world
  <2>2. \A q \in Fetches : at[q] # "round"
    BY <1>4, <2>1
  <2>3. Covers(saved', f)
    BY <1>2, <1>5, <2>1, <2>2
  <2> HIDE DEF Recorded
  <2> QED BY <1>10, <2>1, <2>3
<1>12. ASSUME NEW p \in Fetches, RoundDone(p) PROVE Covers(mem[p], f) \/ local'[f] # local[f]
  <2>1. at[p] = "round" /\ status[p][f] # "placed"
    BY <1>12 DEF RoundDone, Having
  <2> QED BY <1>2, <1>5, <2>1
<1>13. ASSUME NEW p \in Fetches, Finish(p) \/ TooLate(p) PROVE Recorded(f)'
  <2>1. RoundDone(p) /\ Stop(p) /\ local' = local /\ saved' = mem[p]
    BY <1>13 DEF Finish, TooLate, Kept
  <2>2. at[p] # "idle" /\ Covers(saved', f)
    BY <1>12, <2>1 DEF RoundDone
  <2> HIDE DEF Recorded
  <2> QED BY <1>10, <2>1, <2>2
<1>14. ASSUME NEW p \in Fetches, Again(p) PROVE Recorded(f)'
  <2>1. RoundDone(p) /\ local' = local /\ saved' = mem[p] /\ mem' = mem /\ at' = at
    BY <1>14 DEF Again, Kept
  <2>2. at'[p] = "round" /\ Covers(mem'[p], f)
    BY <1>12, <2>1 DEF RoundDone
  <2>3. \A q \in Fetches : at'[q] # "idle" => q = p
    BY <1>4, <2>1, <2>2
  <2> QED BY <2>1, <2>2, <2>3 DEF Covers
<1>15. ASSUME NEW p \in Fetches, FirstRound(p) PROVE Recorded(f)'
  <2>1. UNCHANGED <<local, saved, mem, status>> /\ at[p] = "look" /\ at' = [at EXCEPT ![p] = "round"]
    BY <1>15 DEF FirstRound, world
  <2>2. at'[p] = "round" /\ \A q \in Fetches : at'[q] # "idle" => at[q] # "idle"
    BY <1>6, <2>1
  <2> QED BY <1>2, <1>5, <2>1, <2>2 DEF Covers
<1>16. ASSUME NEW p \in Fetches, NEW g \in Files, Look(p, g) PROVE Recorded(f)'
  <2>1. UNCHANGED <<local, saved, at>> /\ status[p][g] = "unseen"
        /\ status' = [status EXCEPT ![p][g] = Verdict(p, g)]
        /\ (mem' = mem \/ mem' = [mem EXCEPT ![p][g] = Receipt(p, g)])
    BY <1>16 DEF Look, world
  <2>2. mem' = mem \/ mem'[p][g] = Receipt(p, g)
    BY <1>6, <2>1 DEF Receipts
  <2>3. \A q \in Fetches : q # p \/ g # f => status'[q][f] = status[q][f] /\ mem'[q][f] = mem[q][f]
    BY <1>6, <2>1 DEF Receipts
  <2>4. Receipt(p, g) # None /\ Receipt(p, g).of = local[g]
    BY <2>1, ReceiptType, ConstantsAssumption DEF Receipt
  <2>5. g = f => \/ Covers(mem[p], f)'
                 \/ status[p][f] # "placed" /\ mem'[p][f] = mem[p][f]
    BY <2>1, <2>2, <2>4 DEF Covers
  <2> HIDE DEF Recorded
  <2>6. \A q \in Fetches :
                 \/ status'[q][f] = status[q][f] /\ mem'[q][f] = mem[q][f]
                 \/ Covers(mem[q], f)'
                 \/ status[q][f] # "placed" /\ mem'[q][f] = mem[q][f]
    BY <2>3, <2>5
  <2> QED BY <1>7, <2>1, <2>6
<1>17. ASSUME NEW p \in Fetches, NEW g \in Files, Note(p, g) PROVE Recorded(f)'
  <2>1. UNCHANGED <<local, saved, at>> /\ status[p][g] = "placed"
        /\ status' = [status EXCEPT ![p][g] = "done"] /\ mem' = [mem EXCEPT ![p][g] = Receipt(p, g)]
    BY <1>17 DEF Note, Noted, world
  <2>2. mem'[p][g] = Receipt(p, g)
    BY <1>6, <2>1 DEF Receipts
  <2>3. \A q \in Fetches : q # p \/ g # f => status'[q][f] = status[q][f] /\ mem'[q][f] = mem[q][f]
    BY <1>6, <2>1 DEF Receipts
  <2>4. Receipt(p, g) # None /\ Receipt(p, g).of = local[g]
    BY <2>1, ReceiptType, ConstantsAssumption DEF Receipt
  <2>5. g = f => Covers(mem[p], f)'
    BY <2>1, <2>2, <2>4 DEF Covers
  <2> HIDE DEF Recorded
  <2>6. \A q \in Fetches :
                 \/ status'[q][f] = status[q][f] /\ mem'[q][f] = mem[q][f]
                 \/ Covers(mem[q], f)'
                 \/ status[q][f] # "placed" /\ mem'[q][f] = mem[q][f]
    BY <2>3, <2>5
  <2> QED BY <1>7, <2>1, <2>6
<1>18. ASSUME NEW p \in Fetches, NEW g \in Files, Place(p, g) PROVE Recorded(f)'
  <2>1. UNCHANGED <<saved, at, mem>> /\ at[p] = "round"
        /\ status' = [status EXCEPT ![p][g] = "placed"]
        /\ \E c \in {want[p][g]} : local' = [local EXCEPT ![g] = [content |-> c, edit |-> 0]]
    BY <1>18 DEF Place, Receiving
  <2>2. CASE g # f
    <3>1. local'[f] = local[f] /\ \A q \in Fetches : status'[q][f] = status[q][f]
      BY <1>6, <2>1, <2>2
    <3> HIDE DEF Recorded
    <3> QED BY <1>7, <2>1, <3>1
  <2>3. CASE g = f
    <3>1. at'[p] = "round" /\ status'[p][f] = "placed"
      BY <1>6, <2>1, <2>3
    <3>2. \A q \in Fetches : at'[q] # "idle" => q = p
      BY <1>4, <2>1
    <3> QED BY <3>1, <3>2
  <2> QED BY <2>2, <2>3
<1>19. ASSUME NEW p \in Fetches, NEW g \in Files, Reject(p, g) \/ Missing(p, g) PROVE Recorded(f)'
  <2>1. UNCHANGED <<local, saved, at, mem>> /\ status[p][g] = "need"
        /\ (status' = [status EXCEPT ![p][g] = "error"] \/ status' = [status EXCEPT ![p][g] = "absent"])
    BY <1>19 DEF Reject, Missing, Receiving, world
  <2>2. \A q \in Fetches : status'[q][f] = status[q][f] \/ status[q][f] # "placed"
    BY <1>6, <2>1
  <2> HIDE DEF Recorded
  <2> QED BY <1>7, <2>1, <2>2
<1>20. ASSUME NEW p \in Fetches, Break(p) PROVE Recorded(f)'
  <2>1. UNCHANGED <<local, saved, at, mem>>
    BY <1>20 DEF Break, world
  <2>2. \A q \in Fetches : status'[q][f] = status[q][f] \/ status[q][f] # "placed"
    BY <1>6, <1>20 DEF Break, Having
  <2> HIDE DEF Recorded
  <2> QED BY <1>7, <2>1, <2>2
<1>21. ASSUME NEW p \in Fetches, Crash(p) PROVE Recorded(f)'
  <2>1. Spend({"crash"})
    BY <1>21 DEF Crash
  <2>2. Spent("crash")'
    BY <2>1, PaidFor, FaultKinds
  <2> QED BY <1>2, <2>2
<1> HIDE DEF Recorded
<1>22. ASSUME UNCHANGED <<local, saved, at, status, mem>> PROVE Recorded(f)'
  BY <1>7, <1>22
<1>23. CASE JobEnds \/ vars' = vars
  <2>1. Recorded(f)'
    BY <1>22, <1>23 DEF JobEnds, vars, world, fetch
  <2> QED BY <2>1
<1>24. ASSUME NEW g \in Files, JobWrites(g) PROVE Recorded(f)'
  BY <1>22, <1>24 DEF JobWrites, fetch
<1>25. ASSUME NEW p \in Fetches, NEW g \in Files, FileStep(p, g) PROVE Recorded(f)'
  BY <1>16, <1>17, <1>18, <1>19, <1>25 DEF FileStep
<1> QED
  BY <1>8, <1>9, <1>11, <1>13, <1>14, <1>15, <1>20, <1>21, <1>23, <1>24, <1>25 DEF Next, Progress
-----------------------------------------------------------------------------
(***************************************************************************)
(* The invariant, and what follows from it.                                *)
(***************************************************************************)
LEMMA InvariantInit == Init => IInv
<1> SUFFICES ASSUME Init PROVE IInv
  OBVIOUS
<1>1. TypeOK
  BY TypeInit
<1>2. \A p \in Fetches : at[p] = "idle" /\ \A f \in Files : status[p][f] = "out"
  BY DEF Init, NotListed
<1>3. KnowsWhileItRuns /\ OneAtATime
  BY <1>2 DEF KnowsWhileItRuns, OneAtATime
<1>4. WindowsAreClean
  BY <1>2 DEF WindowsAreClean, Pending
<1>5. Honest(saved) /\ \A p \in Fetches : Honest(mem[p])
  BY DEF Init, Honest, NoReceipts
<1>6. \A f \in Files : local[f].content = None
  BY DEF Init
<1>7. WrittenIsRecorded
  BY <1>6, ConstantsAssumption DEF WrittenIsRecorded
<1> QED BY <1>1, <1>3, <1>4, <1>5, <1>7 DEF IInv, ReceiptsHonest

LEMMA InvariantStep == IInv /\ [Next]_vars => IInv'
  BY TypeStep, KnowsStep, OneStep, WindowStep, HonestStep, RecordedStep DEF IInv

\* rx_fetch's inductive invariant: types; what a fetch knows; fetches that run one at a time; what a
\* fetch may write over; receipts that tell the truth; files rx wrote that have one.
THEOREM FetchInvariant == Spec => []IInv
<1> QED BY InvariantInit, InvariantStep, PTL DEF Spec

\* The types hold in every state of the fetches (fetch_files, Receipts).
THEOREM FetchTypeCorrect == Spec => []TypeOK
<1>1. IInv => TypeOK
  BY DEF IInv
<1> QED BY <1>1, FetchInvariant, PTL

\* The two places where a file's status and its receipt change.
LEMMA OnlyPlaceReplaces ==
    ASSUME TypeOK, [Next]_vars, NEW p \in Fetches, NEW f \in Files, status'[p][f] # status[p][f],
           status'[p][f] \in {"have", "done", "conflict", "placed"}
    PROVE  \/ status'[p][f] \in {"have", "conflict"} /\ Look(p, f)
           \/ status'[p][f] = "placed" /\ Place(p, f)
           \/ status'[p][f] = "done" /\ Note(p, f)
<1>0. status \in [Fetches -> [Files -> {"out", "unseen", "need", "have", "conflict", "placed",
                                          "done", "error", "absent", "missing"}]]
  BY DEF TypeOK
<1> DEFINE Goal == \/ status'[p][f] \in {"have", "conflict"} /\ Look(p, f)
                   \/ status'[p][f] = "placed" /\ Place(p, f)
                   \/ status'[p][f] = "done" /\ Note(p, f)
<1>1. ASSUME NEW q \in Fetches, NEW g \in Files, FileStep(q, g) PROVE Goal
  <2>1. PICK s : status' = [status EXCEPT ![q][g] = s]
    BY <1>1 DEF FileStep, Look, Place, Note, Reject, Missing
  <2>2. q = p /\ g = f
    BY <1>0, <2>1
  <2>3. CASE Look(p, f)
    <3>1. status'[p][f] = Verdict(p, f)
      BY <1>0, <2>3 DEF Look
    <3>2. Verdict(p, f) \in {"need", "have", "conflict"}
      BY DEF Verdict
    <3> QED BY <2>3, <3>1, <3>2
  <2>4. CASE Place(p, f)
    BY <1>0, <2>4 DEF Place
  <2>5. CASE Note(p, f)
    BY <1>0, <2>5 DEF Note
  <2>6. CASE Reject(p, f) \/ Missing(p, f)
    BY <1>0, <2>6 DEF Reject, Missing
  <2> HIDE DEF Goal
  <2> QED BY <1>1, <2>2, <2>3, <2>4, <2>5, <2>6 DEF FileStep
<1>2. ASSUME NEW q \in Fetches, Start(q) \/ Stop(q) \/ Break(q) \/ Again(q) PROVE Goal
  <2>1. CASE Start(q)
    BY <1>0, <2>1 DEF Start
  <2>2. CASE Stop(q)
    BY <1>0, <2>2 DEF Stop, NotListed
  <2>3. CASE Break(q)
    BY <1>0, <2>3 DEF Break
  <2>4. CASE Again(q)
    BY <1>0, <2>4 DEF Again
  <2> QED BY <1>2, <2>1, <2>2, <2>3, <2>4
<1>3. status' # status
  OBVIOUS
<1> HIDE DEF Goal
<1>4. ASSUME NEW q \in Fetches,
             NothingNeeded(q) \/ FirstRound(q) \/ Finish(q) \/ TooLate(q) \/ Crash(q)
      PROVE  Goal
  BY <1>2, <1>3, <1>4 DEF NothingNeeded, FirstRound, Finish, TooLate, Crash
<1>5. ASSUME NEW g \in Files, JobWrites(g) \/ Edit(g) PROVE Goal
  BY <1>3, <1>5 DEF JobWrites, Edit, fetch
<1>6. ~JobEnds /\ ~UNCHANGED vars
  BY <1>3 DEF JobEnds, vars, fetch
<1>7. ASSUME NEW q \in Fetches, Progress(q) PROVE Goal
  <2>1. ASSUME NEW g \in Files, FileStep(q, g) PROVE Goal
    BY <1>1, <2>1
  <2>2. NothingNeeded(q) \/ FirstRound(q) \/ Finish(q) \/ Again(q) => Goal
    BY <1>2, <1>4
  <2> QED BY <1>7, <2>1, <2>2 DEF Progress
<1>8. ASSUME NEW q \in Fetches, Start(q) \/ Break(q) \/ TooLate(q) \/ Crash(q) PROVE Goal
  BY <1>2, <1>4, <1>8
<1>9. Goal
  BY <1>5, <1>6, <1>7, <1>8 DEF Next
<1> QED BY <1>9 DEF Goal

\* No fetch replaces a file of the user's that never came from the host, whatever crashed, overlapped
\* or was lost before (the conflict check of fetch_files and the rename of send_file).
THEOREM UsersWorkIsSafe == Spec => UsersWorkStays
<1>1. ASSUME IInv, [Next]_vars, NEW p \in Fetches, NEW f \in Files, Replaced(p, f), UsersOwn(local[f])
      PROVE  force[p] \/ Spent("window")
  <2>1. status[p][f] \in Pending
    BY <1>1 DEF Replaced, Pending
  <2> QED BY <1>1, <2>1 DEF IInv, WindowsAreClean
<1>2. IInv /\ [Next]_vars =>
        [\A p \in Fetches, f \in Files :
          Replaced(p, f) /\ UsersOwn(local[f]) => force[p] \/ Spent("window")]_vars
  BY <1>1
<1> QED BY <1>2, FetchInvariant, PTL DEF Spec, UsersWorkStays

\* What a fetch counts as there or as received is there, as listed, although a receipt's size and
\* mtime are all it goes by (Receipts.ours, on_done).
THEOREM CountsAreTrue == Spec => CountedIsThere
<1>1. ASSUME IInv, [Next]_vars, NEW p \in Fetches, NEW f \in Files, status[p][f] # status'[p][f],
             status'[p][f] \in {"have", "done"}
      PROVE  local[f].content = want[p][f] \/ Spent("window") \/ Spent("overlap")
  <2>1. SUFFICES ASSUME ~Spent("window") PROVE local[f].content = want[p][f] \/ Spent("overlap")
    OBVIOUS
  <2>2. CASE Look(p, f) /\ status'[p][f] = "have"
    <3>1. Verdict(p, f) = "have"
      BY <1>1, <2>2 DEF Look, IInv, TypeOK
    <3>2. Honest(mem[p])
      BY <1>1, <2>1 DEF IInv, ReceiptsHonest
    <3> QED BY <1>1, <3>1, <3>2, HaveIsThere DEF IInv
  <2>3. CASE Note(p, f)
    BY <1>1, <2>1, <2>3 DEF Note, IInv, WindowsAreClean
  <2> QED BY <1>1, <2>2, <2>3, OnlyPlaceReplaces DEF IInv
<1>2. IInv /\ [Next]_vars =>
        [\A p \in Fetches, f \in Files :
          status[p][f] # status'[p][f] /\ status'[p][f] \in {"have", "done"}
             => local[f].content = want[p][f] \/ Spent("window") \/ Spent("overlap")]_vars
  BY <1>1
<1> QED BY <1>2, FetchInvariant, PTL DEF Spec, CountedIsThere

\* Without a kill and without overlap, a conflict is a file the user wrote: rx knows its own files
\* again after lost connections, rejects and retries (Receipts.save after every round).
THEOREM ConflictsAreReal == Spec => ConflictsAreTheUsers
<1>1. ASSUME IInv, [Next]_vars, NEW p \in Fetches, NEW f \in Files, status[p][f] = "unseen",
             status'[p][f] = "conflict"
      PROVE  local[f].edit # 0 \/ Spent("crash") \/ Spent("overlap")
  <2>1. SUFFICES ASSUME ~Spent("crash"), ~Spent("overlap"), local[f].edit = 0 PROVE FALSE
    OBVIOUS
  <2>2. Look(p, f)
    BY <1>1, OnlyPlaceReplaces DEF IInv
  <2>3. Verdict(p, f) = "conflict"
    BY <1>1, <2>2 DEF Look, IInv, TypeOK
  <2>4. local[f].content # None /\ local[f].content # Dir /\ ~Ours(mem[p], f)
    <3>1. local[f].content = Dir => local[f].edit # 0
      BY <1>1 DEF IInv, WrittenIsRecorded
    <3> QED BY <2>1, <2>3, <3>1 DEF Verdict
  <2>5. at[p] # "idle" /\ status[p][f] # "placed"
    BY <1>1, <2>2 DEF Look
  <2>6. Covers(mem[p], f)
    BY <1>1, <2>1, <2>4, <2>5 DEF IInv, WrittenIsRecorded
  <2> QED BY <2>4, <2>6 DEF Covers, Ours
<1>2. IInv /\ [Next]_vars =>
        [\A p \in Fetches, f \in Files :
          status[p][f] = "unseen" /\ status'[p][f] = "conflict"
             => local[f].edit # 0 \/ Spent("crash") \/ Spent("overlap")]_vars
  BY <1>1
<1> QED BY <1>2, FetchInvariant, PTL DEF Spec, ConflictsAreTheUsers
=============================================================================
