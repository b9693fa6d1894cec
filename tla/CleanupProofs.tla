----------------------------- MODULE CleanupProofs -----------------------------
(***************************************************************************)
(* What the cleaner may not remove, for any files, items, limits and any   *)
(* budget of what happens meanwhile.                                       *)
(***************************************************************************)
EXTENDS Cleanup, TLAPS

\* A budget is spent, never refilled.
LEMMA SpendFacts ==
    ASSUME left \in [Kinds -> Nat], NEW kinds \in SUBSET Kinds, Spend(kinds)
    PROVE  /\ left' \in [Kinds -> Nat]
           /\ \A k \in Kinds : left'[k] <= left[k]
           /\ \A k \in kinds : left'[k] < left[k]
<1> DEFINE costs == kinds \cup (IF kinds \subseteq {"restore", "fail"} THEN {} ELSE {"any"})
<1>1. \A k \in costs : left[k] > 0
  BY DEF Spend
<1>2. left' = [k \in Kinds |-> IF k \in costs THEN left[k] - 1 ELSE left[k]]
  BY DEF Spend
<1> HIDE DEF costs
<1>3. \A k \in Kinds : left'[k] \in Nat /\ left'[k] <= left[k] /\ (k \in costs => left'[k] < left[k])
  BY <1>1, <1>2
<1>4. kinds \subseteq costs
  BY DEF costs
<1> QED BY <1>2, <1>3, <1>4

LEMMA KindsAre ==
    /\ {"write"} \in SUBSET Kinds /\ {"restore"} \in SUBSET Kinds /\ {"release"} \in SUBSET Kinds
    /\ {"fail"} \in SUBSET Kinds /\ {"retry"} \in SUBSET Kinds /\ {"open"} \in SUBSET Kinds
    /\ {"raise"} \in SUBSET Kinds /\ "window" \in Kinds
    /\ \A kind \in {"write", "read", "train"}, unseen \in BOOLEAN :
          Late(kind, unseen) \in SUBSET Kinds /\ (unseen => "window" \in Late(kind, unseen))
  BY DEF Kinds, Late

LEMMA LateIs ==
    ASSUME NEW f \in Files
    PROVE  /\ Late("write", f \in sure) \in SUBSET Kinds /\ (f \in sure => "window" \in Late("write", f \in sure))
           /\ Late("read", Looked(f)) \in SUBSET Kinds
           /\ Late("train", Looked(f)) \in SUBSET Kinds /\ (Looked(f) => "window" \in Late("train", Looked(f)))
  BY DEF Kinds, Late, Looked

LEMMA Spending ==
    ASSUME [Next]_vars
    PROVE  left' = left \/ \E kinds \in SUBSET Kinds : Spend(kinds)
<1>1. CASE UNCHANGED vars
  BY <1>1 DEF vars
<1>2. CASE FileStep
  <2>1. ASSUME NEW f \in Files, Write(f) \/ Restore(f) \/ Read(f) \/ Train(f) \/ Archive(f)
        PROVE  left' = left \/ \E kinds \in SUBSET Kinds : Spend(kinds)
    BY <2>1, LateIs, KindsAre DEF Write, Restore, Read, Train, Archive
  <2>2. ASSUME NEW F \in Releasable, Release(F)
        PROVE  \E kinds \in SUBSET Kinds : Spend(kinds)
    BY <2>2, KindsAre DEF Release
  <2> QED BY <1>2, <2>1, <2>2 DEF FileStep
<1>3. CASE FeederStep \/ \E i \in Items : Admit(i) \/ End(i)
  BY <1>3, KindsAre DEF FeederStep, Send, RecordEnd, PutBack, Drop, Admit, End
<1>4. CASE Tick \/ Raise
  BY <1>4, KindsAre DEF Tick, Raise
<1>5. CASE CycleStep
  <2>1. ASSUME NEW f \in Files, Walk(f) \/ Leave(f) \/ LookAgain(f) \/ Remove(f)
        PROVE  left' = left \/ \E kinds \in SUBSET Kinds : Spend(kinds)
    BY <2>1, KindsAre DEF Walk, Leave, LookAgain, Remove
  <2> QED BY <1>5, <2>1 DEF CycleStep, Begin, ReadActive, ReadFeeder, Finish
<1> QED BY <1>1, <1>2, <1>3, <1>4, <1>5 DEF Next

LeftT == left \in [Kinds -> Nat] /\ \A k \in Kinds : left[k] <= Budget[k]

LEMMA SpentStays ==
    ASSUME LeftT, [Next]_vars
    PROVE  LeftT' /\ \A k \in Kinds : Spent(k) => Spent(k)'
<1>1. \A k \in Kinds : left[k] \in Nat /\ left[k] <= Budget[k] /\ Budget[k] \in Nat
  BY CleanupAssumption DEF LeftT
<1>2. left' \in [Kinds -> Nat] /\ \A k \in Kinds : left'[k] <= left[k]
  <2>1. CASE left' = left
    BY <2>1, <1>1 DEF LeftT
  <2>2. CASE \E kinds \in SUBSET Kinds : Spend(kinds)
    BY <2>2, SpendFacts DEF LeftT
  <2> QED BY <2>1, <2>2, Spending
<1> QED BY <1>1, <1>2 DEF LeftT, Spent

\* What happens in the window shows from then on.
LEMMA PaidFor ==
    ASSUME LeftT, NEW kinds \in SUBSET Kinds, Spend(kinds), NEW k \in kinds
    PROVE  Spent(k)'
<1>1. left[k] \in Nat /\ left[k] <= Budget[k] /\ Budget[k] \in Nat
  BY CleanupAssumption DEF LeftT
<1>2. left'[k] < left[k] /\ left'[k] \in Nat
  BY SpendFacts DEF LeftT
<1> QED BY <1>1, <1>2 DEF Spent

-----------------------------------------------------------------------------
(***************************************************************************)
(* Types, one group of variables at a time.                                *)
(***************************************************************************)
WorldT ==
    /\ now \in 0..MaxTime /\ number \in Nat
    /\ file \in [Files -> FileRecords]
    /\ archived \in [Files -> SUBSET Nat] /\ hub \in [Files -> Nat]
    /\ trained \in SUBSET Files
    /\ released \in SUBSET Records

FeederT ==
    /\ it \in [Items -> Statuses] /\ ended \in [Items -> {"none", "good", "bad"}]
    /\ job \in [Items -> {"none", "queued", "running", "done", "failed"}]
    /\ launch \in [Items -> 0..MaxTime]

CleanerT ==
    /\ phase \in {"sleep", "active", "feeder", "walk"}
    /\ tier \in {"emergency", "urgent", "low", "ok"} /\ free \in Nat
    /\ hubs \in [Files -> Nat] /\ act \in SUBSET Items
    /\ refs \in SUBSET Files /\ pins \in SUBSET Files
    /\ rules \in SUBSET Records
    /\ found \in [Files -> Founds] /\ sure \in SUBSET Files

DueT == due \in SUBSET Items

LEMMA TypeParts == TypeOK <=> WorldT /\ FeederT /\ CleanerT /\ DueT /\ LeftT
  BY DEF TypeOK, WorldT, FeederT, CleanerT, DueT, LeftT

LEMMA NextRemembers ==
    ASSUME [Next]_vars
    PROVE  UNCHANGED vars \/ Remembers
<1>1. CASE UNCHANGED vars
  BY <1>1 DEF vars
<1>2. CASE FileStep
  BY <1>2 DEF FileStep, Write, Restore, Read, Train, Archive, Release
<1>3. CASE FeederStep \/ \E i \in Items : Admit(i) \/ End(i)
  BY <1>3 DEF FeederStep, Send, RecordEnd, PutBack, Drop, Admit, End
<1>4. CASE Tick \/ Raise
  BY <1>4 DEF Tick, Raise
<1>5. CASE CycleStep
  BY <1>5 DEF CycleStep, Begin, ReadActive, ReadFeeder, Finish, Walk, Leave, LookAgain, Remove
<1> QED BY <1>1, <1>2, <1>3, <1>4, <1>5 DEF Next

\* Who changes what.
LEMMA WhoWrites ==
    /\ FileStep => UNCHANGED <<feederVars, cleanerVars>>
    /\ FeederStep => UNCHANGED <<worldVars, cleanerVars>>
    /\ \A i \in Items : Admit(i) \/ End(i) => UNCHANGED <<worldVars, cleanerVars>>
    /\ CycleStep \/ Raise => UNCHANGED feederVars
    /\ Tick => UNCHANGED <<feederVars, cleanerVars>>
<1>1. FileStep => UNCHANGED <<feederVars, cleanerVars>>
  BY DEF FileStep, Write, Restore, Read, Train, Archive, Release
<1>2. FeederStep => UNCHANGED <<worldVars, cleanerVars>>
  BY DEF FeederStep, Send, RecordEnd, PutBack, Drop
<1>3. \A i \in Items : Admit(i) \/ End(i) => UNCHANGED <<worldVars, cleanerVars>>
  BY DEF Admit, End
<1>4. CycleStep \/ Raise => UNCHANGED feederVars
  BY DEF CycleStep, Begin, ReadActive, ReadFeeder, Finish, Walk, Leave, LookAgain, Remove, Raise, Return
<1>5. Tick => UNCHANGED <<feederVars, cleanerVars>>
  BY DEF Tick
<1> QED BY <1>1, <1>2, <1>3, <1>4, <1>5

LEMMA FileIs ==
    ASSUME NEW v \in Nat, NEW b \in Nat, now \in Nat
    PROVE  /\ File(v, b) \in FileRecords
           /\ File(v, b).state = "file" /\ File(v, b).version = v /\ File(v, b).birth = b
  BY DEF File, FileRecords

LEMMA RecordsAre ==
    /\ None \in FileRecords /\ None.state = "none"
    /\ \A r \in FileRecords : r.state = "file" => r.version \in Nat /\ r.birth \in Nat /\ r.used \in Nat
    /\ NotWalked \in Founds /\ Passed \in Founds
    /\ NotWalked.state # "candidate" /\ Passed.state # "candidate" /\ NotWalked # Passed
  BY DEF FileRecords, None, Founds, NotWalked, Passed

LEMMA WorldSame ==
    ASSUME WorldT, UNCHANGED worldVars
    PROVE  WorldT'
  BY DEF WorldT, worldVars

LEMMA FeederSame ==
    ASSUME FeederT, UNCHANGED feederVars
    PROVE  FeederT'
  BY DEF FeederT, feederVars

LEMMA CleanerSame ==
    ASSUME CleanerT, UNCHANGED cleanerVars
    PROVE  CleanerT'
  BY DEF CleanerT, cleanerVars, readVars

LEMMA InitTypes == Init => TypeOK
<1>1. \A k \in Kinds : Budget[k] \in Nat
  BY CleanupAssumption
<1>2. ASSUME Init PROVE WorldT
  BY <1>2, FileIs, CleanupAssumption DEF Init, WorldT
<1>3. ASSUME Init PROVE FeederT /\ DueT
  BY <1>3, CleanupAssumption DEF Init, FeederT, DueT, Statuses
<1>4. ASSUME Init PROVE CleanerT
  BY <1>4, RecordsAre DEF Init, CleanerT
<1>5. ASSUME Init PROVE LeftT
  BY <1>5, <1>1, CleanupAssumption DEF Init, LeftT
<1> QED BY <1>2, <1>3, <1>4, <1>5, TypeParts

LEMMA WorldStep ==
    ASSUME WorldT, [Next]_vars
    PROVE  WorldT'
<1> USE DEF WorldT
<1>1. CASE FileStep
  <2>1. ASSUME NEW f \in Files, Write(f)
        PROVE  WorldT'
    <3>1. (IF Exists(f) THEN file[f].birth ELSE number) \in Nat
      BY RecordsAre DEF Exists
    <3>2. File(number, IF Exists(f) THEN file[f].birth ELSE number) \in FileRecords
      BY <3>1, FileIs, CleanupAssumption
    <3> QED BY <2>1, <3>2 DEF Write
  <2>2. ASSUME NEW f \in Files, Restore(f)
        PROVE  WorldT'
    <3>1. File(hub[f], number) \in FileRecords
      BY FileIs, CleanupAssumption
    <3> QED BY <2>2, <3>1 DEF Restore
  <2>3. ASSUME NEW f \in Files, Read(f)
        PROVE  WorldT'
    <3>1. File(file[f].version, file[f].birth) \in FileRecords
      BY <2>3, RecordsAre, FileIs, CleanupAssumption DEF Read, Exists
    <3> QED BY <2>3, <3>1 DEF Read
  <2>4. ASSUME NEW f \in Files, Train(f)
        PROVE  WorldT'
    BY <2>4 DEF Train
  <2>5. ASSUME NEW f \in Files, Archive(f)
        PROVE  WorldT'
    <3>1. file[f].version \in Nat
      BY <2>5, RecordsAre DEF Archive, Exists
    <3> QED BY <2>5, <3>1 DEF Archive
  <2>6. ASSUME NEW F \in Releasable, Release(F)
        PROVE  WorldT'
    <3>1. [files |-> F, before |-> number] \in Records
      BY CleanupAssumption DEF Records
    <3> QED BY <2>6, <3>1 DEF Release
  <2> QED BY <1>1, <2>1, <2>2, <2>3, <2>4, <2>5, <2>6 DEF FileStep
<1>2. CASE UNCHANGED worldVars
  BY <1>2, WorldSame
<1>3. CASE Tick
  BY <1>3, CleanupAssumption DEF Tick
<1>4. ASSUME NEW f \in Files, Remove(f)
      PROVE  WorldT'
  BY <1>4, RecordsAre DEF Remove, worldVars
<1>5. ASSUME CycleStep \/ Raise
      PROVE  UNCHANGED worldVars \/ \E f \in Files : Remove(f)
  BY <1>5 DEF CycleStep, Begin, ReadActive, ReadFeeder, Finish, Walk, Leave, LookAgain, Raise, Return
<1>6. UNCHANGED vars => UNCHANGED worldVars
  BY DEF vars
<1> QED BY <1>1, <1>2, <1>3, <1>4, <1>5, <1>6, WhoWrites DEF Next

LEMMA FeederTypes ==
    ASSUME WorldT, FeederT, [Next]_vars
    PROVE  FeederT'
<1> USE DEF FeederT, Statuses
<1>1. ASSUME NEW i \in Items, Send(i) \/ RecordEnd(i) \/ PutBack(i) \/ Drop(i) \/ Admit(i) \/ End(i)
      PROVE  FeederT'
  <2>1. MaxTime \in Nat /\ now \in 0..MaxTime /\ 0 \in 0..MaxTime
    BY CleanupAssumption DEF WorldT
  <2>2. CASE Send(i)
    BY <2>1, <2>2 DEF Send
  <2>3. CASE RecordEnd(i)
    BY <2>3 DEF RecordEnd
  <2>4. CASE PutBack(i)
    BY <2>1, <2>4 DEF PutBack
  <2>5. CASE Drop(i)
    BY <2>5 DEF Drop
  <2>6. CASE Admit(i)
    BY <2>6 DEF Admit
  <2>7. CASE End(i)
    BY <2>7 DEF End
  <2> QED BY <1>1, <2>2, <2>3, <2>4, <2>5, <2>6, <2>7
<1>2. CASE UNCHANGED feederVars
  BY <1>2, FeederSame
<1>3. UNCHANGED vars => UNCHANGED feederVars
  BY DEF vars
<1> QED BY <1>1, <1>2, <1>3, WhoWrites DEF Next, FeederStep

LEMMA CandidateIs ==
    ASSUME WorldT, NEW f \in Files, Exists(f)
    PROVE  /\ Candidate(f) \in Founds
           /\ Candidate(f).state = "candidate" /\ Candidate(f).version = file[f].version
  BY RecordsAre DEF Candidate, Founds, WorldT, Exists

LEMMA CleanerTypes ==
    ASSUME WorldT, CleanerT, [Next]_vars
    PROVE  CleanerT'
<1> USE DEF CleanerT
<1>1. CASE UNCHANGED cleanerVars
  BY <1>1, CleanerSame
<1>2. CASE Begin
  BY <1>2, RecordsAre, CleanupAssumption DEF Begin, TierOf, WorldT
<1>3. CASE ReadActive
  BY <1>3 DEF ReadActive
<1>4. CASE ReadFeeder
  BY <1>4, CleanupAssumption DEF ReadFeeder, WorldT
<1>5. CASE Finish \/ Raise
  BY <1>5, RecordsAre DEF Finish, Raise, Return
<1>6. ASSUME NEW f \in Files, Walk(f) \/ Leave(f) \/ LookAgain(f)
      PROVE  CleanerT'
  <2>1. (IF Exists(f) /\ Removable(f) THEN Candidate(f) ELSE Passed) \in Founds
    BY CandidateIs, RecordsAre
  <2>2. CASE Walk(f)
    BY <2>1, <2>2 DEF Walk, readVars
  <2>3. CASE Leave(f) \/ LookAgain(f)
    BY <2>3, RecordsAre DEF Leave, LookAgain, readVars
  <2> QED BY <1>6, <2>2, <2>3
<1>7. ASSUME NEW f \in Files, Remove(f)
      PROVE  CleanerT'
  <2>1. SizeOf[f] \in Nat
    BY CleanupAssumption
  <2>2. free' \in Nat
    BY <1>7, <2>1 DEF Remove
  <2>3. found' \in [Files -> Founds] /\ sure' \in SUBSET Files
    BY <1>7, RecordsAre DEF Remove
  <2>4. UNCHANGED <<phase, readVars>>
    BY <1>7 DEF Remove
  <2> QED BY <2>2, <2>3, <2>4 DEF readVars
<1>8. UNCHANGED vars => UNCHANGED cleanerVars
  BY DEF vars
<1> QED BY <1>1, <1>2, <1>3, <1>4, <1>5, <1>6, <1>7, <1>8, WhoWrites DEF Next, CycleStep

LEMMA TypeStep ==
    ASSUME TypeOK, [Next]_vars
    PROVE  TypeOK'
<1>1. WorldT /\ FeederT /\ CleanerT /\ DueT /\ LeftT
  BY TypeParts
<1>2. WorldT' /\ FeederT' /\ CleanerT' /\ LeftT'
  BY <1>1, WorldStep, FeederTypes, CleanerTypes, SpentStays
<1>3. DueT'
  BY <1>1, NextRemembers DEF DueT, Remembers, vars
<1>4. TypeOK' <=> WorldT' /\ FeederT' /\ CleanerT' /\ DueT' /\ LeftT'
  BY TypeParts DEF TypeOK, WorldT, FeederT, CleanerT, DueT, LeftT
<1> QED BY <1>2, <1>3, <1>4

-----------------------------------------------------------------------------
(***************************************************************************)
(* The cycle and what it remembers.                                        *)
(***************************************************************************)

\* Within a cycle nobody becomes due.
LEMMA DueShrinks ==
    ASSUME [Next]_vars
    PROVE  /\ phase # "sleep" => due' \subseteq due
           /\ phase' = "sleep" => due' = {} \/ (due' = due /\ phase' = phase)
  BY NextRemembers DEF Remembers, vars, cleanerVars

LEMMA PhasesStep ==
    ASSUME TypeOK, PhasesFit, [Next]_vars
    PROVE  PhasesFit'
<1> USE DEF PhasesFit, Looked
<1>1. WorldT /\ CleanerT
  BY TypeParts
<1>2. CASE UNCHANGED cleanerVars
  <2>1. phase' = "sleep" => due' = {}
    BY <1>2, DueShrinks DEF cleanerVars
  <2>2. released \subseteq released'
    <3>1. CASE UNCHANGED worldVars
      BY <3>1 DEF worldVars
    <3>2. CASE FileStep
      BY <3>2 DEF FileStep, Write, Restore, Read, Train, Archive, Release
    <3>3. CASE Tick
      BY <3>3 DEF Tick
    <3>4. CycleStep \/ Raise => UNCHANGED released
      BY DEF CycleStep, Begin, ReadActive, ReadFeeder, Finish, Walk, Leave, LookAgain, Remove, Raise, Return, worldVars
    <3> QED BY <3>1, <3>2, <3>3, <3>4, WhoWrites DEF Next, vars
  <2> QED BY <1>2, <2>1, <2>2 DEF cleanerVars, readVars
<1>3. CASE Begin
  BY <1>3, <1>1, RecordsAre, DueShrinks DEF Begin, worldVars, CleanerT
<1>4. CASE ReadActive
  BY <1>4, <1>1, RecordsAre DEF ReadActive, worldVars, CleanerT
<1>5. CASE ReadFeeder
  BY <1>5, <1>1, RecordsAre DEF ReadFeeder, worldVars, CleanerT
<1>6. CASE Finish \/ Raise
  BY <1>6, <1>1, RecordsAre, DueShrinks DEF Finish, Raise, Return, worldVars, CleanerT
<1>7. ASSUME NEW f \in Files, Walk(f) \/ Leave(f) \/ LookAgain(f) \/ Remove(f)
      PROVE  PhasesFit'
  <2>1. phase = "walk" /\ phase' = "walk" /\ UNCHANGED <<released, rules>>
    BY <1>7 DEF Walk, Leave, LookAgain, NextIs, Remove, worldVars, readVars
  <2> QED BY <2>1
<1>8. UNCHANGED vars => UNCHANGED cleanerVars
  BY DEF vars
<1> QED BY <1>2, <1>3, <1>4, <1>5, <1>6, <1>7, <1>8, WhoWrites DEF Next, CycleStep

LEMMA IndexStep ==
    ASSUME TypeOK, IndexIsTrue, [Next]_vars
    PROVE  IndexIsTrue'
<1> USE DEF IndexIsTrue, Exists
<1>1. WorldT /\ CleanerT
  BY TypeParts
<1>2. CASE UNCHANGED <<number, file, hub, hubs, archived>>
  BY <1>2
<1>3. ASSUME NEW f \in Files, Write(f) \/ Restore(f) \/ Read(f)
      PROVE  IndexIsTrue'
  <2>1. UNCHANGED <<hub, hubs, archived>> /\ number \in Nat /\ number' \in Nat /\ number' > 0
    BY <1>1, <1>3 DEF Write, Restore, Read, WorldT, cleanerVars, readVars
  <2>2. \E v \in Nat, b \in Nat : v > 0 /\ file' = [file EXCEPT ![f] = File(v, b)]
    <3>1. CASE Write(f)
      <4>1. (IF Exists(f) THEN file[f].birth ELSE number) \in Nat
        BY <1>1, RecordsAre DEF WorldT
      <4> QED BY <3>1, <4>1, <2>1 DEF Write
    <3>2. CASE Restore(f)
      <4>1. hub[f] \in Nat /\ hub[f] > 0
        BY <3>2, <1>1 DEF Restore, WorldT
      <4>2. file' = [file EXCEPT ![f] = File(hub[f], number)]
        BY <3>2 DEF Restore
      <4> QED BY <4>1, <4>2, <2>1
    <3>3. CASE Read(f)
      BY <3>3, <1>1, RecordsAre DEF Read, WorldT
    <3> QED BY <1>3, <3>1, <3>2, <3>3
  <2>3. PICK v \in Nat, b \in Nat : v > 0 /\ file' = [file EXCEPT ![f] = File(v, b)]
    BY <2>2
  <2>4. file'[f].version > 0 /\ \A g \in Files : g # f => file'[g] = file[g]
    BY <2>3, <1>1, FileIs DEF WorldT
  <2> QED BY <2>1, <2>4
<1>4. ASSUME NEW f \in Files, Archive(f)
      PROVE  IndexIsTrue'
  BY <1>4, <1>1 DEF Archive, WorldT, cleanerVars, readVars
<1>5. CASE Begin
  BY <1>5, <1>1 DEF Begin, WorldT, worldVars
<1>6. CASE Finish \/ Raise
  BY <1>6, <1>1 DEF Finish, Raise, Return, worldVars
<1>7. ASSUME NEW f \in Files, Remove(f)
      PROVE  IndexIsTrue'
  BY <1>7, <1>1, RecordsAre DEF Remove, WorldT, readVars
<1>8. ASSUME NEW F \in Releasable, Release(F)
      PROVE  IndexIsTrue'
  BY <1>8, <1>1 DEF Release, WorldT, cleanerVars, readVars
<1>9. ASSUME \/ UNCHANGED vars \/ FeederStep \/ Tick \/ ReadActive \/ ReadFeeder
             \/ \E i \in Items : Admit(i) \/ End(i)
             \/ \E f \in Files : Train(f) \/ Walk(f) \/ Leave(f) \/ LookAgain(f)
      PROVE  UNCHANGED <<number, file, hub, hubs, archived>>
  BY <1>9, WhoWrites DEF Train, Tick, ReadActive, ReadFeeder, Walk, Leave, LookAgain, vars, worldVars, cleanerVars, readVars
<1> QED BY <1>2, <1>3, <1>4, <1>5, <1>6, <1>7, <1>8, <1>9 DEF Next, FileStep, CycleStep

LEMMA EndsStep ==
    ASSUME TypeOK, EndsAreTrue, [Next]_vars
    PROVE  EndsAreTrue'
<1>1. FeederT
  BY TypeParts
<1>2. CASE UNCHANGED feederVars
  BY <1>2 DEF EndsAreTrue, feederVars
<1>3. ASSUME NEW i \in Items, Send(i) \/ RecordEnd(i) \/ PutBack(i) \/ Drop(i) \/ Admit(i) \/ End(i)
      PROVE  EndsAreTrue'
  BY <1>1, <1>3 DEF EndsAreTrue, FeederT, Send, RecordEnd, PutBack, Drop, Admit, End
<1> QED BY <1>2, <1>3, WhoWrites DEF Next, FeederStep, vars

LEMMA DueNeedStep ==
    ASSUME TypeOK, DueNeed, [Next]_vars
    PROVE  DueNeed'
<1>1. CASE Remembers
  BY <1>1 DEF Remembers, DueNeed
<1>2. CASE UNCHANGED vars
  BY <1>2 DEF DueNeed, Needs, BehindFailure, Closed, EndedBadly, Within, vars, worldVars, feederVars
<1> QED BY <1>1, <1>2, NextRemembers

\* What a feeder's or rx's step does to a job that is running afterwards.
LEMMA RunningStep ==
    ASSUME TypeOK, [Next]_vars, NEW i \in Items, it'[i] = "sent", job'[i] = "running"
    PROVE  /\ it[i] = "sent" /\ launch'[i] = launch[i]
           /\ job[i] = "running" \/ job[i] = "queued"
           /\ job[i] = "running" \/ Admit(i)
<1>1. FeederT
  BY TypeParts
<1>2. CASE UNCHANGED feederVars
  BY <1>2 DEF feederVars
<1>3. ASSUME NEW j \in Items, Send(j) \/ RecordEnd(j) \/ PutBack(j) \/ Drop(j) \/ Admit(j) \/ End(j)
      PROVE  /\ it[i] = "sent" /\ launch'[i] = launch[i]
             /\ job[i] = "running" \/ job[i] = "queued"
             /\ job[i] = "running" \/ (j = i /\ Admit(j))
  BY <1>1, <1>3 DEF FeederT, Send, RecordEnd, PutBack, Drop, Admit, End
<1> QED BY <1>2, <1>3, WhoWrites DEF Next, FeederStep, vars

LEMMA RunningIsSeenStep ==
    ASSUME TypeOK, PhasesFit, DueNeed, RunningIsSeen, [Next]_vars
    PROVE  RunningIsSeen'
<1> SUFFICES ASSUME phase' = "feeder", NEW i \in due', it'[i] = "sent", job'[i] = "running"
             PROVE  i \in act' \/ Within(i, Hours)'
  BY DEF RunningIsSeen
<1>1. i \in Items
  BY TypeStep DEF TypeOK
<1>2. CASE ReadActive
  BY <1>1, <1>2 DEF ReadActive, feederVars
<1>3. CASE phase = "feeder" /\ ~ReadActive
  <2>1. i \in due /\ Needs(i)
    BY <1>3, DueShrinks DEF DueNeed
  <2>2. UNCHANGED <<act, now>>
    <3>1. ~Tick
      BY <1>3, CleanupAssumption DEF PhasesFit, Tick
    <3>2. FileStep => UNCHANGED <<act, now>>
      BY WhoWrites DEF FileStep, Write, Restore, Read, Train, Archive, Release, cleanerVars, readVars
    <3>3. FeederStep \/ (\E j \in Items : Admit(j) \/ End(j)) => UNCHANGED <<act, now>>
      BY WhoWrites DEF worldVars, cleanerVars, readVars
    <3>4. ~CycleStep /\ ~Raise
      <4>1. ~Begin /\ ~ReadFeeder /\ ~Finish /\ ~Raise
        BY <1>3 DEF Begin, ReadFeeder, Finish, Raise, Return
      <4>2. \A f \in Files : ~Walk(f) /\ ~Leave(f) /\ ~LookAgain(f) /\ ~Remove(f)
        BY <1>3 DEF Walk, Leave, LookAgain, NextIs, Remove, PhasesFit
      <4> QED BY <1>3, <4>1, <4>2 DEF CycleStep
    <3> QED BY <3>1, <3>2, <3>3, <3>4 DEF Next, vars, cleanerVars, readVars, worldVars
  <2>3. it[i] = "sent" /\ launch'[i] = launch[i] /\ (job[i] = "running" \/ job[i] = "queued")
    BY <1>1, RunningStep
  <2>4. i \in act \/ Within(i, Hours)
    BY <1>3, <2>1, <2>3 DEF RunningIsSeen, Needs
  <2> QED BY <2>2, <2>3, <2>4 DEF Within
<1>4. phase = "feeder" \/ ReadActive
  <2>1. Begin \/ Finish \/ Raise \/ ReadFeeder => phase' # "feeder"
    BY DEF Begin, Finish, Raise, Return, ReadFeeder
  <2>2. \A f \in Files : Walk(f) \/ Leave(f) \/ LookAgain(f) \/ Remove(f) => phase' = phase
    BY DEF Walk, Leave, LookAgain, Remove
  <2> QED BY <2>1, <2>2, WhoWrites DEF Next, CycleStep, vars, cleanerVars
<1> QED BY <1>2, <1>3, <1>4

\* feeder_refs and active_refs miss nobody who has needed files all along.
LEMMA ReadersAreDue ==
    ASSUME TypeOK, EndsAreTrue, DueNeed, RunningIsSeen, phase = "feeder", NEW i \in due
    PROVE  Counts(i) \/ i \in act
<1>1. i \in Items /\ Needs(i)
  BY DEF TypeOK, DueNeed
<1>2. CASE it[i] = "unsent"
  BY <1>2 DEF Counts
<1>3. CASE it[i] = "sent" /\ job[i] \in {"queued", "running"} /\ (i \in act \/ Within(i, Hours))
  BY <1>1, <1>3 DEF Counts, EndsAreTrue
<1>4. CASE it[i] = "dropped" /\ i \in BehindFailure
  BY <1>4 DEF Counts
<1> QED BY <1>1, <1>2, <1>3, <1>4 DEF Needs, RunningIsSeen

LEMMA DueIsReferencedStep ==
    ASSUME TypeOK, EndsAreTrue, DueNeed, RunningIsSeen, DueIsReferenced, [Next]_vars
    PROVE  DueIsReferenced'
<1>1. CASE ReadFeeder
  <2>1. phase = "feeder" /\ due' \subseteq due
    BY <1>1, DueShrinks DEF ReadFeeder
  <2> SUFFICES ASSUME NEW i \in due'
               PROVE  Named[i] \subseteq refs' /\ Pinned[i] \subseteq pins'
    BY DEF DueIsReferenced
  <2> DEFINE readers == {j \in Items : Counts(j)} \cup act
  <2>2. i \in readers
    BY <2>1, ReadersAreDue DEF TypeOK
  <2>3. refs' = UNION {Named[j] : j \in readers} /\ pins' = UNION {Pinned[j] : j \in readers}
    BY <1>1 DEF ReadFeeder
  <2> HIDE DEF readers
  <2> QED BY <2>2, <2>3
<1>2. CASE phase = "walk" /\ phase' = "walk" /\ UNCHANGED <<refs, pins>>
  BY <1>2, DueShrinks DEF DueIsReferenced
<1>3. CASE phase' # "walk"
  BY <1>3 DEF DueIsReferenced
<1>4. ASSUME phase' = "walk", ~ReadFeeder
      PROVE  phase = "walk" /\ UNCHANGED <<refs, pins>>
  <2>1. ~Begin /\ ~Finish /\ ~Raise /\ ~ReadActive
    BY <1>4 DEF Begin, Finish, Raise, Return, ReadActive
  <2>2. \A f \in Files : Walk(f) \/ Leave(f) \/ LookAgain(f) \/ Remove(f) => phase' = phase /\ UNCHANGED <<refs, pins>>
    BY DEF Walk, Leave, LookAgain, Remove, readVars
  <2> QED BY <1>4, <2>1, <2>2, WhoWrites DEF Next, CycleStep, vars, cleanerVars, readVars
<1> QED BY <1>1, <1>2, <1>3, <1>4

-----------------------------------------------------------------------------
(***************************************************************************)
(* What was found removable, and what happens to it.                       *)
(***************************************************************************)

\* While a file is a candidate, it is neither removed nor restored: it keeps its
\* birth, and all that the decision rests on only grows.
LEMMA CandidateStep ==
    ASSUME TypeOK, PhasesFit, CandidatesMayGo, [Next]_vars,
           NEW f \in Files, Looked(f), found'[f] = found[f]
    PROVE  /\ Exists(f)' /\ file'[f].birth = file[f].birth
           /\ UNCHANGED <<refs, pins>>
           /\ released \subseteq released' /\ archived[f] \subseteq archived'[f]
           /\ f \in trained' => f \in trained \/ Spent("window")'
           /\ file'[f].version # file[f].version => f \notin sure \/ Spent("window")'
<1>1. WorldT /\ CleanerT /\ LeftT /\ Exists(f) /\ phase = "walk"
  BY TypeParts DEF CandidatesMayGo, PhasesFit
<1>2. file[f] \in FileRecords /\ file[f].version \in Nat /\ file[f].birth \in Nat /\ number \in Nat /\ now \in Nat
  BY <1>1, RecordsAre, CleanupAssumption DEF WorldT, Exists
<1>3. CASE UNCHANGED <<file, refs, pins, released, archived, trained>>
  BY <1>3, <1>1 DEF Exists
<1>4. ASSUME NEW g \in Files, Write(g)
      PROVE  /\ Exists(f)' /\ file'[f].birth = file[f].birth
             /\ UNCHANGED <<refs, pins, released, archived, trained>>
             /\ file'[f].version # file[f].version => f \notin sure \/ Spent("window")'
  <2>1. UNCHANGED <<refs, pins, released, archived, trained>>
    BY <1>4 DEF Write, cleanerVars, readVars
  <2>2. CASE g # f
    BY <1>4, <1>1, <2>1, <2>2 DEF Write, WorldT, Exists
  <2>3. CASE g = f
    <3>1. file' = [file EXCEPT ![f] = File(number, file[f].birth)]
      BY <1>4, <1>1, <2>3 DEF Write
    <3>2. file'[f] = File(number, file[f].birth)
      BY <3>1, <1>1 DEF WorldT
    <3>3. Exists(f)' /\ file'[f].birth = file[f].birth
      BY <3>2, <1>2, FileIs DEF Exists
    <3>4. f \in sure => Spent("window")'
      BY <1>4, <2>3, <1>1, LateIs, PaidFor DEF Write
    <3> QED BY <2>1, <3>3, <3>4
  <2> QED BY <2>2, <2>3
<1>5. ASSUME NEW g \in Files, Restore(g) \/ Read(g)
      PROVE  /\ Exists(f)' /\ file'[f].birth = file[f].birth /\ file'[f].version = file[f].version
             /\ UNCHANGED <<refs, pins, released, archived, trained>>
  <2>1. UNCHANGED <<refs, pins, released, archived, trained>>
    BY <1>5 DEF Restore, Read, cleanerVars, readVars
  <2>2. CASE g # f
    BY <1>5, <1>1, <2>1, <2>2 DEF Restore, Read, WorldT, Exists
  <2>3. CASE g = f
    <3>1. file' = [file EXCEPT ![f] = File(file[f].version, file[f].birth)]
      BY <1>5, <1>1, <2>3 DEF Restore, Read
    <3>2. file'[f] = File(file[f].version, file[f].birth)
      BY <3>1, <1>1 DEF WorldT
    <3> QED BY <2>1, <3>2, <1>2, FileIs DEF Exists
  <2> QED BY <2>2, <2>3
<1>6. ASSUME NEW g \in Files, Train(g)
      PROVE  /\ UNCHANGED <<file, refs, pins, released, archived>>
             /\ f \in trained' => f \in trained \/ Spent("window")'
  <2>1. UNCHANGED <<file, refs, pins, released, archived>> /\ trained' = trained \cup {g}
    BY <1>6 DEF Train, cleanerVars, readVars
  <2>2. g = f => Spent("window")'
    BY <1>6, <1>1, LateIs, PaidFor DEF Train
  <2> QED BY <2>1, <2>2
<1>7. ASSUME NEW g \in Files, Archive(g)
      PROVE  UNCHANGED <<file, refs, pins, released, trained>> /\ archived[f] \subseteq archived'[f]
  BY <1>7, <1>1 DEF Archive, cleanerVars, readVars, WorldT
<1>8. ASSUME NEW F \in Releasable, Release(F)
      PROVE  UNCHANGED <<file, refs, pins, archived, trained>> /\ released \subseteq released'
  BY <1>8 DEF Release, cleanerVars, readVars
<1>9. ASSUME NEW g \in Files, Remove(g)
      PROVE  /\ Exists(f)' /\ file'[f] = file[f]
             /\ UNCHANGED <<refs, pins, released, archived, trained>>
  <2>1. g # f
    BY <1>9, <1>1, RecordsAre DEF Remove, CleanerT, Looked
  <2> QED BY <1>9, <1>1, <2>1 DEF Remove, readVars, WorldT, Exists
<1>10. ASSUME NEW g \in Files, Walk(g) \/ Leave(g) \/ LookAgain(g)
       PROVE  UNCHANGED <<file, refs, pins, released, archived, trained>>
  BY <1>10 DEF Walk, Leave, LookAgain, worldVars, readVars
<1>11. ~Begin /\ ~ReadActive /\ ~ReadFeeder /\ ~Raise /\ ~Finish
  BY <1>1, RecordsAre DEF Begin, ReadActive, ReadFeeder, Raise, Finish, Looked
<1>12. UNCHANGED vars \/ FeederStep \/ Tick \/ (\E i \in Items : Admit(i) \/ End(i))
         => UNCHANGED <<file, refs, pins, released, archived, trained>>
  BY WhoWrites DEF vars, Tick, worldVars, cleanerVars, readVars
<1> QED BY <1>1, <1>3, <1>4, <1>5, <1>6, <1>7, <1>8, <1>9, <1>10, <1>11, <1>12 DEF Next, FileStep, CycleStep, Exists

\* What may go, said of a record of the walk.
MayGo(f) ==
    /\ Exists(f) /\ f \notin refs
    /\ f \in pins => \E r \in released : /\ f \in r.files /\ file[f].birth <= r.before
                                         /\ found[f].version <= r.before
    /\ \/ found[f].version \in archived[f]
       \/ Path[f] = "smoke"
       \/ Path[f] = "build" /\ (f \in trained => Spent("window"))

\* classify, referenced and released: what the walk takes as a candidate may go.
LEMMA WalkFinds ==
    ASSUME TypeOK, PhasesFit, IndexIsTrue, NEW f \in Files, Walk(f), Exists(f), Removable(f)
    PROVE  MayGo(f)'
<1>1. WorldT /\ CleanerT
  BY TypeParts
<1>2. found'[f] = Candidate(f) /\ UNCHANGED <<file, refs, pins, released, archived, trained>>
  BY <1>1 DEF Walk, CleanerT, worldVars, readVars
<1>3. found'[f].version = file[f].version /\ file[f].version \in Nat /\ file[f].version > 0 /\ file[f].birth \in Nat
  BY <1>1, <1>2, CandidateIs, RecordsAre DEF IndexIsTrue, WorldT, Exists
<1>4. f \notin refs /\ (f \in pins => ReleasedBy(rules, f))
  BY DEF Removable, Referenced
<1>5. f \in pins => \E r \in released : f \in r.files /\ file[f].birth <= r.before /\ file[f].version <= r.before
  <2> SUFFICES ASSUME f \in pins
               PROVE  \E r \in released : f \in r.files /\ file[f].birth <= r.before /\ file[f].version <= r.before
    OBVIOUS
  <2>1. PICK r \in rules : f \in r.files /\ Born(f) <= r.before
    BY <1>4 DEF ReleasedBy
  <2>2. r \in released /\ r.before \in Nat
    BY <2>1, <1>1 DEF PhasesFit, WorldT, Records
  <2>3. file[f].birth <= r.before /\ file[f].version <= r.before
    BY <2>1, <2>2, <1>3 DEF Born
  <2> QED BY <2>1, <2>2, <2>3
<1>6. \/ file[f].version \in archived[f]
      \/ Path[f] = "smoke"
      \/ Path[f] = "build" /\ f \notin trained
  <2>1. Class(f) \in {"hub", "regen", "smoke"}
    BY DEF Removable
  <2>2. Class(f) = "hub" => hubs[f] = file[f].version
    BY DEF Class
  <2>3. Class(f) = "hub" => file[f].version \in archived[f]
    BY <2>2, <1>3 DEF IndexIsTrue
  <2>4. Class(f) = "smoke" => Path[f] = "smoke"
    BY DEF Class
  <2>5. Class(f) = "regen" => Path[f] = "build" /\ f \notin trained
    BY DEF Class
  <2> QED BY <2>1, <2>3, <2>4, <2>5
<1> QED BY <1>2, <1>3, <1>4, <1>5, <1>6 DEF MayGo, Exists

\* Where a candidate comes from.
LEMMA CandidatesAre ==
    ASSUME TypeOK, PhasesFit, [Next]_vars, NEW f \in Files, Looked(f)'
    PROVE  \/ Looked(f) /\ found'[f] = found[f]
           \/ Walk(f) /\ Exists(f) /\ Removable(f)
<1>1. CleanerT
  BY TypeParts
<1>2. CASE UNCHANGED found
  BY <1>2 DEF Looked
<1>3. ASSUME NEW g \in Files, Walk(g)
      PROVE  \/ Looked(f) /\ found'[f] = found[f]
             \/ Walk(f) /\ Exists(f) /\ Removable(f)
  BY <1>1, <1>3, RecordsAre DEF Walk, CleanerT, Looked
<1>4. ASSUME NEW g \in Files, Leave(g) \/ LookAgain(g) \/ Remove(g)
      PROVE  Looked(f) /\ found'[f] = found[f]
  BY <1>1, <1>4, RecordsAre DEF Leave, LookAgain, Remove, CleanerT, Looked
<1>5. ~Begin /\ ~Raise
  BY RecordsAre DEF Begin, Raise, Looked
<1>6. ReadActive \/ ReadFeeder \/ Finish => UNCHANGED found
  BY DEF ReadActive, ReadFeeder, Finish
<1> QED BY <1>2, <1>3, <1>4, <1>5, <1>6, WhoWrites DEF Next, CycleStep, vars, cleanerVars

LEMMA CandidatesMayGoStep ==
    ASSUME TypeOK, PhasesFit, IndexIsTrue, CandidatesMayGo, [Next]_vars
    PROVE  CandidatesMayGo'
<1> SUFFICES ASSUME NEW f \in Files, Looked(f)'
             PROVE  MayGo(f)'
  BY DEF CandidatesMayGo, MayGo
<1>1. CASE Walk(f) /\ Exists(f) /\ Removable(f)
  BY <1>1, WalkFinds
<1>2. CASE Looked(f) /\ found'[f] = found[f]
  <2>1. MayGo(f)
    BY <1>2 DEF CandidatesMayGo, MayGo
  <2>2. Spent("window") => Spent("window")'
    BY SpentStays, KindsAre, TypeParts
  <2> QED BY <1>2, <2>1, <2>2, CandidateStep DEF MayGo
<1> QED BY <1>1, <1>2, CandidatesAre

LEMMA SureIsLookedStep ==
    ASSUME TypeOK, PhasesFit, CandidatesMayGo, SureIsLooked, [Next]_vars
    PROVE  SureIsLooked'
<1> SUFFICES ASSUME NEW f \in sure'
             PROVE  Looked(f)' /\ (file'[f].version # found'[f].version => Spent("window")')
  BY DEF SureIsLooked
<1>1. CleanerT /\ f \in Files
  BY TypeParts, TypeStep DEF TypeOK
<1>2. Spent("window") => Spent("window")'
  BY SpentStays, KindsAre, TypeParts
<1>3. CASE LookAgain(f) /\ f \notin sure
  <2>1. Looked(f) /\ Same(f) /\ UNCHANGED <<found, file>>
    BY <1>1, <1>3 DEF LookAgain, NextIs, worldVars
  <2> QED BY <2>1 DEF Same, Looked
<1>4. CASE f \in sure /\ found'[f] = found[f]
  <2>1. Looked(f) /\ (file[f].version # found[f].version => Spent("window"))
    BY <1>4 DEF SureIsLooked
  <2>2. file'[f].version # file[f].version => Spent("window")'
    BY <1>1, <1>4, <2>1, CandidateStep
  <2> QED BY <1>2, <1>4, <2>1, <2>2 DEF Looked
<1>5. \/ LookAgain(f) /\ f \notin sure
      \/ f \in sure /\ found'[f] = found[f]
  <2>1. CASE UNCHANGED <<sure, found>>
    BY <2>1
  <2>2. ASSUME NEW g \in Files, Walk(g)
        PROVE  f \in sure /\ found'[f] = found[f]
    <3>1. f \in sure /\ Looked(f) /\ found[g] = NotWalked
      BY <2>2 DEF Walk, SureIsLooked
    <3>2. g # f
      BY <3>1, RecordsAre DEF Looked
    <3> QED BY <2>2, <3>1, <3>2, <1>1 DEF Walk, CleanerT
  <2>3. ASSUME NEW g \in Files, Leave(g)
        PROVE  FALSE
    BY <2>3 DEF Leave, NextIs
  <2>4. ASSUME NEW g \in Files, LookAgain(g)
        PROVE  LookAgain(f) /\ f \notin sure
    BY <2>4 DEF LookAgain, NextIs
  <2>5. ASSUME NEW g \in Files, Remove(g)
        PROVE  FALSE
    BY <2>5 DEF Remove
  <2>6. ~Begin /\ ~Raise
    <3>1. Begin \/ Raise => sure' = sure /\ phase # "walk"
      BY DEF Begin, Raise
    <3> QED BY <3>1 DEF PhasesFit
  <2>7. ReadActive \/ ReadFeeder \/ Finish => UNCHANGED <<sure, found>>
    BY DEF ReadActive, ReadFeeder, Finish
  <2> QED BY <2>1, <2>2, <2>3, <2>4, <2>5, <2>6, <2>7, WhoWrites DEF Next, CycleStep, vars, cleanerVars
<1> QED BY <1>3, <1>4, <1>5

-----------------------------------------------------------------------------
(***************************************************************************)
(* The invariant and the properties.                                       *)
(***************************************************************************)
LEMMA InitInvariant == Init => IInv
<1> SUFFICES ASSUME Init PROVE IInv
  OBVIOUS
<1>1. TypeOK
  BY InitTypes
<1>2. PhasesFit /\ EndsAreTrue /\ DueNeed /\ RunningIsSeen /\ DueIsReferenced
  BY RecordsAre DEF Init, PhasesFit, EndsAreTrue, DueNeed, RunningIsSeen, DueIsReferenced, Looked
<1>3. IndexIsTrue
  BY FileIs, CleanupAssumption DEF Init, IndexIsTrue
<1>4. CandidatesMayGo /\ SureIsLooked
  BY RecordsAre DEF Init, CandidatesMayGo, SureIsLooked, Looked
<1> QED BY <1>1, <1>2, <1>3, <1>4 DEF IInv

LEMMA StepInvariant == IInv /\ [Next]_vars => IInv'
  BY TypeStep, PhasesStep, IndexStep, EndsStep, DueNeedStep, RunningIsSeenStep, DueIsReferencedStep,
     CandidatesMayGoStep, SureIsLookedStep DEF IInv

\* The inductive invariant of the cleaner among the feeder, the jobs and the archive
\* (auto_cleanup.py: cycle).
THEOREM CleanupInvariant == Spec => []IInv
  BY InitInvariant, StepInvariant, PTL DEF Spec

\* Every variable keeps its type.
THEOREM CleanupTypeCorrect == Spec => []TypeOK
<1>1. IInv => TypeOK
  BY DEF IInv
<1> QED BY <1>1, CleanupInvariant, PTL

\* Only the cleaner removes files, and only one that it looked at again.
LEMMA OnlyRemoved ==
    ASSUME IInv, [Next]_vars, NEW f \in Files, Removes(f)
    PROVE  f \in sure /\ Looked(f) /\ phase = "walk"
<1>1. WorldT
  BY TypeParts DEF IInv
<1>2. ASSUME NEW g \in Files, Remove(g)
      PROVE  f \in sure
  BY <1>1, <1>2 DEF Remove, WorldT, Removes, Exists
<1>3. ASSUME NEW g \in Files, Write(g) \/ Restore(g) \/ Read(g)
      PROVE  FALSE
  BY <1>1, <1>3 DEF Write, Restore, Read, File, WorldT, Removes, Exists
<1>4. ASSUME UNCHANGED file
      PROVE  FALSE
  BY <1>4 DEF Removes, Exists
<1>5. ASSUME \E g \in Files : Walk(g) \/ Leave(g) \/ LookAgain(g) \/ Train(g) \/ Archive(g)
      PROVE  UNCHANGED file
  BY <1>5 DEF Walk, Leave, LookAgain, Train, Archive, worldVars
<1>6. Begin \/ ReadActive \/ ReadFeeder \/ Finish \/ Raise \/ Tick \/ (\E F \in Releasable : Release(F)) => UNCHANGED file
  BY DEF Begin, ReadActive, ReadFeeder, Finish, Raise, Return, Tick, Release, worldVars
<1>7. f \in sure
  BY <1>2, <1>3, <1>4, <1>5, <1>6, WhoWrites DEF Next, CycleStep, FileStep, vars, worldVars
<1> QED BY <1>7 DEF IInv, SureIsLooked, PhasesFit

\* What a job or an item has needed since the cycle began, it keeps: cycle reads
\* active/ before the feeder's state, so that no item falls between the two.
THEOREM NamedFilesStay == Spec => NamedStays
<1>1. ASSUME IInv, [Next]_vars
      PROVE  \A i \in due : \A f \in Named[i] : ~Removes(f)
  <2> SUFFICES ASSUME NEW i \in due, NEW f \in Named[i], Removes(f)
               PROVE  FALSE
    OBVIOUS
  <2>1. f \in Files
    BY <1>1, CleanupAssumption DEF IInv, TypeOK
  <2>2. f \notin refs /\ phase = "walk"
    BY <1>1, <2>1, OnlyRemoved DEF IInv, CandidatesMayGo
  <2> QED BY <1>1, <2>2 DEF IInv, DueIsReferenced
<1> QED BY <1>1, CleanupInvariant, PTL DEF Spec, NamedStays

\* A pin is given up by a release only, and a file rebuilt or restored after the
\* release keeps it (born_ns, released).
THEOREM PinnedFilesStay == Spec => PinnedStays
<1>1. ASSUME IInv, [Next]_vars
      PROVE  \A i \in due : \A f \in Pinned[i] :
                Removes(f) => GivenUp(f) \/ file[f].version # found[f].version
  <2> SUFFICES ASSUME NEW i \in due, NEW f \in Pinned[i], Removes(f), file[f].version = found[f].version
               PROVE  GivenUp(f)
    OBVIOUS
  <2>1. f \in Files
    BY <1>1, CleanupAssumption DEF IInv, TypeOK
  <2>2. Looked(f) /\ phase = "walk"
    BY <1>1, <2>1, OnlyRemoved
  <2>3. f \in pins
    BY <1>1, <2>2 DEF IInv, DueIsReferenced
  <2> QED BY <1>1, <2>1, <2>2, <2>3 DEF IInv, CandidatesMayGo, GivenUp
<1> QED BY <1>1, CleanupInvariant, PTL DEF Spec, PinnedStays

\* What is removed can be had again: it is in the archive as it was, or a smoke
\* test's, or a build that is no fit (classify, and the second look in cycle).
THEOREM RemovedCanBeHadAgain == Spec => NothingIsLost
<1>1. ASSUME IInv, [Next]_vars
      PROVE  \A f \in Files : Removes(f) =>
                \/ Spent("window")
                \/ file[f].version \in archived[f]
                \/ Path[f] = "smoke"
                \/ Path[f] = "build" /\ f \notin trained
  <2> SUFFICES ASSUME NEW f \in Files, Removes(f), ~Spent("window")
               PROVE  \/ file[f].version \in archived[f]
                      \/ Path[f] = "smoke"
                      \/ Path[f] = "build" /\ f \notin trained
    OBVIOUS
  <2>1. f \in sure /\ Looked(f)
    BY <1>1, OnlyRemoved
  <2>2. file[f].version = found[f].version
    BY <1>1, <2>1 DEF IInv, SureIsLooked
  <2> QED BY <1>1, <2>1, <2>2 DEF IInv, CandidatesMayGo
<1> QED BY <1>1, CleanupInvariant, PTL DEF Spec, NothingIsLost
=============================================================================
