--------------------------- MODULE HostArchiveProofs ---------------------------
(***************************************************************************)
(* What the cleaner takes from the host, a restore brings back: for any    *)
(* files, contents, tags and budgets.                                      *)
(*                                                                         *)
(* A file is Sure when the cleaner might take it, now or once it has a new *)
(* list.  While no drive has started beside another and no VERIFIED tag    *)
(* has been planned anew, what is Sure is Held: the tree has it, and some  *)
(* VERIFIED tag from which on every manifest has it.  A drive that is      *)
(* under way commits nothing else at its path (PlansAreCurrent), a write   *)
(* makes it unsure (StampsArePast), and the records that made it sure stay *)
(* as they are (NewTags).                                                  *)
(***************************************************************************)
EXTENDS HostArchive, TLAPS

Sure(f) ==
    \/ f \notin here
    \/ index[f] = latest[f]
    \/ \E t \in Tags : commit[t] = "VERIFIED" /\ plan[t][f] = latest[f]

Held(f) ==
    /\ tree[f] = latest[f].content
    /\ \E t \in Tags :
        /\ commit[t] = "VERIFIED"
        /\ manifest[t][f] = latest[f].content
        /\ \A u \in Tags : manifest[u][f] # None /\ order[u] >= order[t] =>
               manifest[u][f] = latest[f].content

OnTheWay == {"sending", "waiting", "posting", "reading"}

BudgetKept == \A k \in Kinds : left[k] <= Budget[k]

StampsArePast ==
    /\ \A f \in Files : latest[f].stamp < clock
    /\ \A f \in Files : index[f] # None => index[f].stamp < clock
    /\ \A t \in Tags, f \in Files : plan[t][f] # None => plan[t][f].stamp < clock
    /\ \A t \in Tags : order[t] < clock

PlanIsMade ==
    \A t \in Tags : /\ at[t] \in OnTheWay => plan[t] # NoFiles
                    /\ plan[t] = NoFiles => commit[t] = "none"

WorksOnThePlan ==
    \A t \in Tags : /\ upload[t] \subseteq Planned(t) /\ rest[t] \subseteq Planned(t)
                    /\ todo[t] \subseteq Planned(t)
                    /\ at[t] # "posting" => todo[t] = {}

ManifestIsPosted ==
    \A t \in Tags : at[t] = "reading" =>
        manifest[t] = [f \in Files |-> IF f \in Ready(t, sent[t]) THEN plan[t][f].content ELSE None]

OneDrive == Undisturbed => \A t, u \in Active : t = u

NewTags == Undisturbed => \A t \in Active : commit[t] # "VERIFIED"

LastManifest ==
    Undisturbed => \A t, u \in Tags : at[t] = "reading" /\ u # t => order[u] < order[t]

PlansAreCurrent ==
    Undisturbed => \A t \in Tags, f \in Files :
        at[t] \in OnTheWay /\ plan[t][f] # None /\ Sure(f) => plan[t][f].content = latest[f].content

SureIsHeld == Undisturbed => \A f \in Files : Sure(f) => Held(f)

IInv ==
    /\ TypeOK
    /\ BudgetKept
    /\ StampsArePast
    /\ PlanIsMade
    /\ WorksOnThePlan
    /\ ManifestIsPosted
    /\ OneDrive
    /\ NewTags
    /\ LastManifest
    /\ PlansAreCurrent
    /\ SureIsHeld

-----------------------------------------------------------------------------
(***************************************************************************)
(* The budget only shrinks, so that what is undisturbed was undisturbed.   *)
(***************************************************************************)
LeftT == left \in [Kinds -> Nat]

LEMMA SpendFacts ==
    ASSUME LeftT, NEW kinds, Spend(kinds)
    PROVE  /\ left' \in [Kinds -> Nat]
           /\ \A k \in Kinds : left'[k] <= left[k]
           /\ \A k \in kinds \cap Kinds : left'[k] = left[k] - 1
<1> DEFINE costs == IF kinds \ {"write"} = {} THEN kinds ELSE kinds \cup {"any"}
<1>1. /\ \A k \in costs : left[k] > 0
      /\ left' = [k \in Kinds |-> IF k \in costs THEN left[k] - 1 ELSE left[k]]
  BY DEF Spend
<1>2. \A k \in Kinds : left[k] \in Nat
  BY DEF LeftT
<1>3. kinds \subseteq costs
  OBVIOUS
<1> QED BY <1>1, <1>2, <1>3

LEMMA Spending ==
    ASSUME [Next]_vars
    PROVE  left' = left \/ \E kinds : Spend(kinds)
<1>1. CASE UNCHANGED vars
  BY <1>1 DEF vars
<1>2. ASSUME NEW f \in Files, Write(f) \/ Settle(f) \/ Remove(f)
      PROVE  left' = left \/ \E kinds : Spend(kinds)
  BY <1>2 DEF Write, Settle, Remove
<1>3. ASSUME NEW t \in Tags, DriveStep(t)
      PROVE  left' = left
  BY <1>3 DEF DriveStep, Plan, LaptopSends, Check, Post, PostManifest, Finish
<1>4. ASSUME NEW t \in Tags, HostSends(t) \/ HostDies(t) \/ GiveUp(t)
      PROVE  left' = left \/ \E kinds : Spend(kinds)
  BY <1>4 DEF HostSends, HostDies, GiveUp
<1>5. ASSUME NEW t \in Tags, NEW f \in Files, Restore(t, f)
      PROVE  \E kinds : Spend(kinds)
  BY <1>5 DEF Restore
<1>6. ASSUME MakeIndex PROVE left' = left
  BY <1>6 DEF MakeIndex
<1>7. ASSUME Cover PROVE left' = left \/ \E kinds : Spend(kinds)
  BY <1>7 DEF Cover
<1>8. ASSUME NEW t \in Tags, DriveByHand(t) PROVE \E kinds : Spend(kinds)
  BY <1>8 DEF DriveByHand
<1> QED BY <1>1, <1>2, <1>3, <1>4, <1>5, <1>6, <1>7, <1>8 DEF Next

LEMMA LeftStep ==
    ASSUME LeftT, BudgetKept, [Next]_vars
    PROVE  LeftT' /\ BudgetKept' /\ (Undisturbed' => Undisturbed)
<1>1. \A k \in Kinds : left[k] \in Nat /\ left[k] <= Budget[k] /\ Budget[k] \in Nat
  BY HostArchiveAssumption DEF LeftT, BudgetKept
<1>2. left' \in [Kinds -> Nat] /\ \A k \in Kinds : left'[k] <= left[k]
  <2>1. CASE left' = left
    BY <2>1, <1>1 DEF LeftT
  <2>2. CASE \E kinds : Spend(kinds)
    BY <2>2, SpendFacts
  <2> QED BY <2>1, <2>2, Spending
<1>3. \A k \in Kinds : left'[k] \in Nat
  BY <1>2
<1>4. "overlap" \in Kinds /\ "replan" \in Kinds
  BY DEF Kinds
<1> QED BY <1>1, <1>2, <1>3, <1>4 DEF LeftT, BudgetKept, Undisturbed, Spent

\* Whoever pays for it disturbs.
LEMMA PaidFor ==
    ASSUME LeftT, BudgetKept, NEW kinds, Spend(kinds), NEW k \in kinds, k \in {"overlap", "replan"}
    PROVE  ~Undisturbed'
<1>1. k \in Kinds
  BY DEF Kinds
<1>2. left[k] \in Nat /\ left[k] <= Budget[k] /\ Budget[k] \in Nat
  BY <1>1, HostArchiveAssumption DEF LeftT, BudgetKept
<1>3. left'[k] = left[k] - 1
  BY <1>1, SpendFacts
<1> QED BY <1>2, <1>3 DEF Undisturbed, Spent

-----------------------------------------------------------------------------
(***************************************************************************)
(* Types, one group of variables at a time.                                *)
(***************************************************************************)
Rows == Row0 \cup {None}

HostT ==
    /\ latest \in [Files -> Row0]
    /\ here \subseteq Files /\ fresh \subseteq Files
    /\ clock \in Nat
    /\ index \in [Files -> Rows]

HubT ==
    /\ objects \subseteq Contents
    /\ tree \in [Files -> Contents \cup {None}]
    /\ manifest \in [Tags -> [Files -> Contents \cup {None}]]
    /\ order \in [Tags -> Nat]

RecordT ==
    /\ plan \in [Tags -> [Files -> Rows]]
    /\ commit \in [Tags -> {"none", "INCOMPLETE", "VERIFIED"}]

DriveT ==
    /\ at \in [Tags -> Phases]
    /\ asked \in [Tags -> SUBSET Files]
    /\ upload \in [Tags -> SUBSET Files]
    /\ sent \in [Tags -> SUBSET Files]
    /\ todo \in [Tags -> SUBSET Files]

JobT == rest \in [Tags -> SUBSET Files] /\ done \in [Tags -> SUBSET Files]

LEMMA TypeParts == TypeOK <=> HostT /\ HubT /\ RecordT /\ DriveT /\ JobT /\ LeftT
  BY DEF TypeOK, HostT, HubT, RecordT, DriveT, JobT, LeftT, Rows

LEMMA RowsAre ==
    /\ \A c \in Contents, n \in Nat : [content |-> c, stamp |-> n] \in Row0
    /\ \A r \in Row0 : r.content \in Contents /\ r.stamp \in Nat /\ r # None
    /\ None \notin Row0 /\ None \notin Contents
  BY HostArchiveAssumption DEF Row0

\* A row of the records is a row of a VERIFIED plan.
LEMMA RowIs ==
    ASSUME NEW f \in Files
    PROVE  \/ Row(f) = None
           \/ \E t \in Tags : commit[t] = "VERIFIED" /\ plan[t][f] # None /\ Row(f) = plan[t][f]
<1> DEFINE t == CHOOSE t \in LastOf(Listing(f)) : TRUE
<1>1. CASE LastOf(Listing(f)) = {}
  BY <1>1 DEF Row
<1>2. CASE LastOf(Listing(f)) # {}
  <2>1. t \in LastOf(Listing(f))
    BY <1>2
  <2>2. t \in Tags /\ commit[t] = "VERIFIED" /\ plan[t][f] # None
    BY <2>1 DEF LastOf, Listing
  <2>3. Row(f) = plan[t][f]
    BY <1>2 DEF Row
  <2> QED BY <2>2, <2>3
<1> QED BY <1>1, <1>2

-----------------------------------------------------------------------------
(***************************************************************************)
(* Who writes what.                                                        *)
(***************************************************************************)
FileStep ==
    \/ MakeIndex
    \/ \E f \in Files : Write(f) \/ Settle(f) \/ Remove(f)
    \/ \E t \in Tags, f \in Files : Restore(t, f)

StartStep(t) == (\E F \in SUBSET Files : Begin(t, F)) \/ (Ends(t) /\ UNCHANGED <<hostVars, hubVars, recordVars, jobVars>>)

LEMMA NextIs ==
    ASSUME HostT, [Next]_vars
    PROVE  \/ UNCHANGED vars
           \/ FileStep
           \/ \E t \in Tags : StartStep(t) \/ DriveStep(t) \/ HostSends(t) \/ HostDies(t)
<1>1. ASSUME Cover PROVE \E t \in Tags : StartStep(t)
  <2>1. Uncovered \in SUBSET Files
    BY DEF HostT, Uncovered
  <2>2. PICK t \in Tags \ ByHand : Begin(t, Uncovered)
    BY <1>1 DEF Cover
  <2> QED BY <2>1, <2>2 DEF StartStep
<1>2. ASSUME NEW t \in Tags, DriveByHand(t) PROVE StartStep(t)
  BY <1>2 DEF DriveByHand, StartStep
<1>3. ASSUME NEW t \in Tags, GiveUp(t) PROVE StartStep(t)
  BY <1>3 DEF GiveUp, StartStep
<1> QED BY <1>1, <1>2, <1>3 DEF Next, FileStep

LEMMA WhoWrites ==
    /\ FileStep => UNCHANGED <<hubVars, recordVars, driveVars, jobVars>>
    /\ \A t \in Tags : StartStep(t) => UNCHANGED <<hostVars, hubVars, recordVars, jobVars>>
    /\ \A t \in Tags : HostSends(t) \/ HostDies(t) => UNCHANGED <<hostVars, tree, manifest, order, recordVars, driveVars>>
<1>1. FileStep => UNCHANGED <<hubVars, recordVars, driveVars, jobVars>>
  BY DEF FileStep, MakeIndex, Write, Settle, Remove, Restore
<1>2. \A t \in Tags : StartStep(t) => UNCHANGED <<hostVars, hubVars, recordVars, jobVars>>
  BY DEF StartStep, Begin
<1>3. \A t \in Tags : HostSends(t) \/ HostDies(t) => UNCHANGED <<hostVars, tree, manifest, order, recordVars, driveVars>>
  BY DEF HostSends, HostDies, hubVars
<1> QED BY <1>1, <1>2, <1>3

LEMMA InitTypes == Init => TypeOK
<1>1. Init => HostT
  <2>1. \A f \in Files : [content |-> Original[f], stamp |-> 0] \in Row0
    BY RowsAre, HostArchiveAssumption
  <2> QED BY <2>1 DEF Init, HostT, Rows, NoFiles
<1>2. Init => HubT /\ RecordT
  BY DEF Init, HubT, RecordT, Rows, NoFiles
<1>3. Init => DriveT /\ JobT
  BY DEF Init, DriveT, JobT, Nothing, Phases
<1>4. Init => LeftT
  BY HostArchiveAssumption DEF Init, LeftT
<1> QED BY <1>1, <1>2, <1>3, <1>4, TypeParts

LEMMA HostStep ==
    ASSUME HostT, HubT, RecordT, [Next]_vars
    PROVE  HostT'
<1> USE DEF HostT
<1>1. CASE UNCHANGED hostVars
  BY <1>1 DEF hostVars
<1>2. ASSUME MakeIndex PROVE HostT'
  <2>1. \A f \in Files : Row(f) \in Rows
    BY RowIs DEF RecordT, Rows
  <2> QED BY <1>2, <2>1 DEF MakeIndex
<1>3. ASSUME NEW f \in Files, Write(f) PROVE HostT'
  BY <1>3, RowsAre DEF Write
<1>4. ASSUME NEW f \in Files, Settle(f) \/ Remove(f) PROVE HostT'
  BY <1>4 DEF Settle, Remove
<1>5. ASSUME NEW t \in Tags, NEW f \in Files, Restore(t, f) PROVE HostT'
  <2>1. tree[f] \in Contents
    BY <1>5 DEF Restore, HubT
  <2> QED BY <1>5, <2>1, RowsAre DEF Restore
<1>6. ASSUME NEW t \in Tags, DriveStep(t) PROVE HostT'
  <2>1. CASE PostManifest(t)
    BY <2>1 DEF PostManifest
  <2>2. CASE Plan(t) \/ LaptopSends(t) \/ Check(t) \/ Post(t) \/ Finish(t)
    BY <2>2, <1>1 DEF Plan, LaptopSends, Check, Post, Finish
  <2> QED BY <1>6, <2>1, <2>2 DEF DriveStep
<1> QED BY <1>1, <1>2, <1>3, <1>4, <1>5, <1>6, NextIs, WhoWrites DEF FileStep, vars, hostVars

LEMMA PlannedIs ==
    ASSUME RecordT, NEW t \in Tags
    PROVE  /\ Planned(t) \subseteq Files
           /\ \A f \in Planned(t) : plan[t][f] \in Row0 /\ plan[t][f].content \in Contents
           /\ \A F \in SUBSET Planned(t) : ContentsOf(t, F) \subseteq Contents
<1>1. Planned(t) \subseteq Files
  BY DEF Planned
<1>2. \A f \in Planned(t) : plan[t][f] \in Row0 /\ plan[t][f].content \in Contents
  BY RowsAre DEF Planned, RecordT, Rows
<1> QED BY <1>1, <1>2 DEF ContentsOf

LEMMA HubStep ==
    ASSUME HostT, HubT, RecordT, WorksOnThePlan, [Next]_vars
    PROVE  HubT'
<1> USE DEF HubT
<1>1. CASE UNCHANGED hubVars
  BY <1>1 DEF hubVars
<1>2. ASSUME NEW t \in Tags, LaptopSends(t) PROVE HubT'
  <2>1. PICK S \in SUBSET upload[t] : objects' = objects \cup ContentsOf(t, S)
    BY <1>2 DEF LaptopSends
  <2>2. S \in SUBSET Planned(t)
    BY DEF WorksOnThePlan
  <2> QED BY <1>2, <2>1, <2>2, PlannedIs DEF LaptopSends
<1>3. ASSUME NEW t \in Tags, HostSends(t) PROVE HubT'
  <2>1. PICK f \in rest[t] : objects' = objects \cup ContentsOf(t, {f}) \/ objects' = objects
    BY <1>3 DEF HostSends
  <2>2. {f} \in SUBSET Planned(t)
    BY DEF WorksOnThePlan
  <2> QED BY <1>3, <2>1, <2>2, PlannedIs DEF HostSends
<1>4. ASSUME NEW t \in Tags, Post(t) PROVE HubT'
  <2>1. PICK F \in SUBSET todo[t] :
            tree' = [f \in Files |-> IF f \in F THEN plan[t][f].content ELSE tree[f]]
    BY <1>4 DEF Post
  <2>2. F \subseteq Planned(t)
    BY DEF WorksOnThePlan
  <2> QED BY <1>4, <2>1, <2>2, PlannedIs DEF Post
<1>5. ASSUME NEW t \in Tags, PostManifest(t) PROVE HubT'
  <2>1. Ready(t, sent[t]) \subseteq Planned(t)
    BY DEF Ready
  <2>2. clock \in Nat
    BY DEF HostT
  <2> QED BY <1>5, <2>1, <2>2, PlannedIs DEF PostManifest
<1>6. ASSUME NEW t \in Tags, Plan(t) \/ Check(t) \/ Finish(t) PROVE HubT'
  BY <1>6, <1>1 DEF Plan, Check, Finish
<1>7. ASSUME NEW t \in Tags, HostDies(t) PROVE HubT'
  BY <1>7, <1>1 DEF HostDies
<1> QED BY <1>1, <1>2, <1>3, <1>4, <1>5, <1>6, <1>7, NextIs, WhoWrites DEF DriveStep, vars, hubVars

LEMMA RecordStep ==
    ASSUME HostT, RecordT, [Next]_vars
    PROVE  RecordT'
<1> USE DEF RecordT
<1>1. CASE UNCHANGED recordVars
  BY <1>1 DEF recordVars
<1>2. ASSUME NEW t \in Tags, Plan(t) PROVE RecordT'
  <2>1. [f \in Files |-> IF f \in asked[t] \cap here THEN latest[f] ELSE None] \in [Files -> Rows]
    BY DEF HostT, Rows
  <2> QED BY <1>2, <2>1 DEF Plan
<1>3. ASSUME NEW t \in Tags, Finish(t) PROVE RecordT'
  BY <1>3 DEF Finish
<1>4. ASSUME NEW t \in Tags, LaptopSends(t) \/ Check(t) \/ Post(t) \/ PostManifest(t) PROVE RecordT'
  BY <1>4, <1>1 DEF LaptopSends, Check, Post, PostManifest
<1> QED BY <1>1, <1>2, <1>3, <1>4, NextIs, WhoWrites DEF DriveStep, vars, recordVars

LEMMA EndsTypes ==
    ASSUME DriveT, NEW t \in Tags, Ends(t)
    PROVE  DriveT'
  BY DEF DriveT, Ends, Goes, Phases

LEMMA DriveTStep ==
    ASSUME HostT, DriveT, JobT, [Next]_vars
    PROVE  DriveT'
<1> USE DEF DriveT
<1>1. CASE UNCHANGED driveVars
  BY <1>1 DEF driveVars
<1>2. ASSUME NEW t \in Tags, StartStep(t) PROVE DriveT'
  <2>1. CASE \E F \in SUBSET Files : Begin(t, F)
    BY <2>1 DEF Begin, Goes, Phases
  <2>2. CASE Ends(t)
    BY <2>2, EndsTypes
  <2> QED BY <1>2, <2>1, <2>2 DEF StartStep
<1>3. ASSUME NEW t \in Tags, Plan(t) PROVE DriveT'
  <2> DEFINE p == [f \in Files |-> IF f \in asked[t] \cap here THEN latest[f] ELSE None]
  <2>1. CASE Ends(t)
    BY <2>1, EndsTypes
  <2>2. CASE ~Ends(t)
    <3>1. /\ Goes(t, "sending")
          /\ upload' = [upload EXCEPT ![t] = {f \in Files :
                 p[f] # None /\ p[f].content \notin objects /\ Owner(p, f) = f}]
          /\ UNCHANGED <<asked, sent, todo>>
      BY <1>3, <2>2 DEF Plan
    <3> HIDE DEF p
    <3> QED BY <3>1 DEF Goes, Phases
  <2> QED BY <2>1, <2>2
<1>4. ASSUME NEW t \in Tags, LaptopSends(t) PROVE DriveT'
  <2>1. PICK S \in SUBSET upload[t] : sent' = [sent EXCEPT ![t] = S]
    BY <1>4 DEF LaptopSends
  <2> QED BY <1>4, <2>1 DEF LaptopSends, Goes, Phases
<1>5. ASSUME NEW t \in Tags, Check(t) PROVE DriveT'
  <2>1. Differs(t, Ready(t, sent[t] \cup done[t])) \in SUBSET Files
    BY DEF Differs, Ready, Planned
  <2>2. sent[t] \cup done[t] \in SUBSET Files
    BY DEF JobT
  <2> QED BY <1>5, <2>1, <2>2 DEF Check, Goes, Phases
<1>6. ASSUME NEW t \in Tags, Post(t) PROVE DriveT'
  <2>1. PICK F \in SUBSET todo[t] : todo' = [todo EXCEPT ![t] = @ \ F]
    BY <1>6 DEF Post
  <2> QED BY <1>6, <2>1 DEF Post
<1>7. ASSUME NEW t \in Tags, PostManifest(t) PROVE DriveT'
  BY <1>7 DEF PostManifest, Goes, Phases
<1>8. ASSUME NEW t \in Tags, Finish(t) PROVE DriveT'
  BY <1>8, EndsTypes DEF Finish
<1> QED BY <1>1, <1>2, <1>3, <1>4, <1>5, <1>6, <1>7, <1>8, NextIs, WhoWrites DEF DriveStep, vars, driveVars

LEMMA JobStep ==
    ASSUME HostT, DriveT, JobT, [Next]_vars
    PROVE  JobT'
<1> USE DEF JobT
<1>1. CASE UNCHANGED jobVars
  BY <1>1 DEF jobVars
<1>2. ASSUME NEW t \in Tags, Plan(t) PROVE JobT'
  <2>1. UNCHANGED jobVars \/ (rest' = [rest EXCEPT ![t] = {}] /\ done' = [done EXCEPT ![t] = {}])
    BY <1>2 DEF Plan
  <2> QED BY <2>1, <1>1
<1>3. ASSUME NEW t \in Tags, LaptopSends(t) PROVE JobT'
  <2>1. PICK S \in SUBSET upload[t] : rest' = [rest EXCEPT ![t] = upload[t] \ S]
    BY <1>3 DEF LaptopSends
  <2> QED BY <1>3, <2>1 DEF LaptopSends, DriveT
<1>4. ASSUME NEW t \in Tags, HostSends(t) PROVE JobT'
  <2>1. PICK f \in rest[t] : /\ rest' = [rest EXCEPT ![t] = @ \ {f}]
                             /\ done' = [done EXCEPT ![t] = @ \cup {f}] \/ done' = done
    BY <1>4 DEF HostSends
  <2> QED BY <2>1
<1>5. ASSUME NEW t \in Tags, HostDies(t) PROVE JobT'
  BY <1>5 DEF HostDies
<1>6. ASSUME NEW t \in Tags, Check(t) \/ Post(t) \/ PostManifest(t) \/ Finish(t) PROVE JobT'
  BY <1>6, <1>1 DEF Check, Post, PostManifest, Finish
<1> QED BY <1>1, <1>2, <1>3, <1>4, <1>5, <1>6, NextIs, WhoWrites DEF DriveStep, vars, jobVars

-----------------------------------------------------------------------------
(***************************************************************************)
(* The parts that hold whoever drives.                                     *)
(***************************************************************************)
LEMMA StampsStep ==
    ASSUME HostT, HubT, RecordT, StampsArePast, [Next]_vars
    PROVE  StampsArePast'
<1> USE DEF StampsArePast, HostT, HubT, RecordT
<1>0. clock \in Nat /\ clock < clock + 1
  OBVIOUS
<1>1. /\ \A f \in Files : latest[f].stamp \in Nat
      /\ \A f \in Files : index[f] # None => index[f].stamp \in Nat
      /\ \A t \in Tags, f \in Files : plan[t][f] # None => plan[t][f].stamp \in Nat
      /\ \A t \in Tags : order[t] \in Nat
  BY RowsAre DEF Rows
<1>2. CASE UNCHANGED <<latest, clock, index, plan, order>>
  BY <1>2
<1>3. ASSUME MakeIndex PROVE StampsArePast'
  <2>1. \A f \in Files : index'[f] # None => index'[f].stamp < clock
    BY <1>3, RowIs DEF MakeIndex
  <2> QED BY <1>3, <2>1 DEF MakeIndex, hubVars, recordVars
<1>4. ASSUME NEW f \in Files, Write(f) PROVE StampsArePast'
  <2>1. PICK c \in Contents : latest' = [latest EXCEPT ![f] = [content |-> c, stamp |-> clock]]
    BY <1>4 DEF Write
  <2>2. /\ clock' = clock + 1
        /\ UNCHANGED <<index, plan, order>>
    BY <1>4 DEF Write, hubVars, recordVars
  <2>3. \A g \in Files : latest'[g].stamp < clock + 1
    BY <2>1, <1>0, <1>1
  <2> QED BY <2>2, <2>3, <1>0, <1>1
<1>5. ASSUME NEW t \in Tags, NEW f \in Files, Restore(t, f) PROVE StampsArePast'
  <2>1. latest' = [latest EXCEPT ![f] = [content |-> tree[f], stamp |-> clock]]
    BY <1>5 DEF Restore
  <2>2. /\ clock' = clock + 1
        /\ UNCHANGED <<index, plan, order>>
    BY <1>5 DEF Restore, hubVars, recordVars
  <2>3. \A g \in Files : latest'[g].stamp < clock + 1
    BY <2>1, <1>0, <1>1
  <2> QED BY <2>2, <2>3, <1>0, <1>1
<1>6. ASSUME NEW t \in Tags, Plan(t) PROVE StampsArePast'
  <2> DEFINE p == [f \in Files |-> IF f \in asked[t] \cap here THEN latest[f] ELSE None]
  <2>1. plan' = plan \/ plan' = [plan EXCEPT ![t] = p]
    BY <1>6 DEF Plan
  <2>2. \A f \in Files : p[f] # None => p[f].stamp < clock
    OBVIOUS
  <2>3. UNCHANGED <<latest, clock, index, order>>
    BY <1>6 DEF Plan, hostVars, hubVars
  <2> HIDE DEF p
  <2> QED BY <2>1, <2>2, <2>3
<1>7. ASSUME NEW t \in Tags, PostManifest(t) PROVE StampsArePast'
  <2>1. /\ order' = [order EXCEPT ![t] = clock] /\ clock' = clock + 1
        /\ UNCHANGED <<latest, index, plan>>
    BY <1>7 DEF PostManifest, recordVars
  <2> QED BY <2>1, <1>0, <1>1
<1>8. ASSUME NEW t \in Tags, LaptopSends(t) \/ Check(t) \/ Post(t) \/ Finish(t)
      PROVE  UNCHANGED <<latest, clock, index, plan, order>>
  BY <1>8 DEF LaptopSends, Check, Post, Finish, hostVars, hubVars, recordVars
<1>9. ASSUME NEW f \in Files, Settle(f) \/ Remove(f)
      PROVE  UNCHANGED <<latest, clock, index, plan, order>>
  BY <1>9 DEF Settle, Remove, hubVars, recordVars
<1> QED BY <1>2, <1>3, <1>4, <1>5, <1>6, <1>7, <1>8, <1>9, NextIs, WhoWrites
        DEF FileStep, DriveStep, vars, hostVars, hubVars, recordVars

LEMMA BeginIs ==
    ASSUME DriveT, NEW t \in Tags, StartStep(t)
    PROVE  /\ at'[t] \in {"idle", "planning"}
           /\ todo[t] = {} => todo'[t] = {}
           /\ upload'[t] \subseteq upload[t] /\ todo'[t] \subseteq todo[t]
           /\ at'[t] = "planning" \/ todo'[t] = {}
           /\ \A u \in Tags \ {t} : /\ at'[u] = at[u] /\ sent'[u] = sent[u]
                                    /\ upload'[u] = upload[u] /\ todo'[u] = todo[u]
  BY DEF DriveT, StartStep, Begin, Ends, Goes

\* A step of a drive touches its own records only.
LEMMA DriveIs ==
    ASSUME HostT, RecordT, DriveT, NEW t \in Tags, DriveStep(t)
    PROVE  /\ at[t] # "idle" /\ at'[t] # "planning"
           /\ \A u \in Tags \ {t} :
                /\ at'[u] = at[u] /\ sent'[u] = sent[u]
                /\ upload'[u] = upload[u] /\ todo'[u] = todo[u]
                /\ plan'[u] = plan[u] /\ commit'[u] = commit[u]
  BY DEF HostT, RecordT, DriveT, DriveStep, Plan, LaptopSends, Check, Post, PostManifest, Finish, Ends, Goes, recordVars

LEMMA PlanMadeStep ==
    ASSUME HostT, RecordT, DriveT, PlanIsMade, [Next]_vars
    PROVE  PlanIsMade'
<1> USE DEF PlanIsMade
<1>1. CASE UNCHANGED <<at, plan, commit>>
  BY <1>1
<1>2. ASSUME NEW t \in Tags, StartStep(t) PROVE PlanIsMade'
  BY <1>2, BeginIs, WhoWrites DEF OnTheWay, recordVars
<1>3. ASSUME NEW t \in Tags, Plan(t) PROVE PlanIsMade'
  <2> DEFINE p == [f \in Files |-> IF f \in asked[t] \cap here THEN latest[f] ELSE None]
  <2>1. \/ plan' = plan /\ at'[t] = "idle"
        \/ plan' = [plan EXCEPT ![t] = p] /\ p # NoFiles
    BY <1>3 DEF Plan, Ends, Goes, DriveT
  <2>2. commit' = commit /\ \A u \in Tags \ {t} : at'[u] = at[u] /\ plan'[u] = plan[u]
    BY <1>3, DriveIs DEF Plan, DriveStep
  <2>3. CASE plan' = plan /\ at'[t] = "idle"
    BY <2>2, <2>3 DEF OnTheWay
  <2>4. CASE plan' = [plan EXCEPT ![t] = p] /\ p # NoFiles
    <3> HIDE DEF p
    <3>1. plan'[t] # NoFiles
      BY <2>4 DEF RecordT
    <3> QED BY <2>2, <3>1 DEF NoFiles
  <2> QED BY <2>1, <2>3, <2>4
<1>4. ASSUME NEW t \in Tags, LaptopSends(t) \/ Check(t) \/ Post(t) \/ PostManifest(t) PROVE PlanIsMade'
  <2>1. at[t] \in OnTheWay /\ UNCHANGED <<plan, commit>>
    BY <1>4 DEF LaptopSends, Check, Post, PostManifest, OnTheWay, recordVars
  <2> QED BY <1>4, <2>1, DriveIs DEF DriveStep
<1>5. ASSUME NEW t \in Tags, Finish(t) PROVE PlanIsMade'
  <2>1. plan[t] # NoFiles /\ plan' = plan /\ at'[t] = "idle"
    BY <1>5 DEF Finish, OnTheWay, Ends, Goes, DriveT
  <2> QED BY <1>5, <2>1, DriveIs DEF DriveStep, OnTheWay
<1> QED BY <1>1, <1>2, <1>3, <1>4, <1>5, NextIs, WhoWrites DEF DriveStep, vars, driveVars, recordVars

LEMMA WorksStep ==
    ASSUME HostT, RecordT, DriveT, JobT, WorksOnThePlan, [Next]_vars
    PROVE  WorksOnThePlan'
<1> USE DEF WorksOnThePlan
<1>1. CASE UNCHANGED <<at, upload, rest, todo, plan>>
  BY <1>1 DEF Planned
<1>2. ASSUME NEW t \in Tags, StartStep(t) PROVE WorksOnThePlan'
  <2>1. plan' = plan /\ rest' = rest
    BY <1>2, WhoWrites DEF recordVars, jobVars
  <2>2. at[t] # "posting" \/ todo'[t] = {}
    BY <1>2 DEF StartStep, Begin, Ends, DriveT
  <2> QED BY <1>2, <2>1, <2>2, BeginIs DEF Planned
<1>3. ASSUME NEW t \in Tags, Plan(t) PROVE WorksOnThePlan'
  <2> DEFINE p == [f \in Files |-> IF f \in asked[t] \cap here THEN latest[f] ELSE None]
             up == {f \in Files : p[f] # None /\ p[f].content \notin objects /\ Owner(p, f) = f}
  <2>1. todo[t] = {}
    BY <1>3 DEF Plan
  <2>2. \/ Ends(t) /\ UNCHANGED <<plan, jobVars>>
        \/ /\ plan' = [plan EXCEPT ![t] = p] /\ upload' = [upload EXCEPT ![t] = up]
           /\ rest' = [rest EXCEPT ![t] = {}] /\ todo' = todo
    BY <1>3 DEF Plan
  <2>3. \A u \in Tags \ {t} : /\ at'[u] = at[u] /\ upload'[u] = upload[u] /\ todo'[u] = todo[u]
                              /\ plan'[u] = plan[u]
    BY <1>3, DriveIs DEF DriveStep
  <2>4. CASE Ends(t) /\ UNCHANGED <<plan, jobVars>>
    BY <2>3, <2>4 DEF Ends, DriveT, jobVars, Planned
  <2>5. CASE /\ plan' = [plan EXCEPT ![t] = p] /\ upload' = [upload EXCEPT ![t] = up]
             /\ rest' = [rest EXCEPT ![t] = {}] /\ todo' = todo
    <3>1. up \subseteq {f \in Files : p[f] # None}
      OBVIOUS
    <3> HIDE DEF p, up
    <3>2. Planned(t)' = {f \in Files : p[f] # None}
      BY <2>5 DEF Planned, RecordT
    <3>3. \A u \in Tags \ {t} : rest'[u] = rest[u]
      BY <2>5 DEF JobT
    <3>4. upload'[t] = up /\ rest'[t] = {} /\ todo'[t] = {}
      BY <2>1, <2>5 DEF DriveT, JobT
    <3> QED BY <2>3, <3>1, <3>2, <3>3, <3>4 DEF Planned
  <2> QED BY <2>2, <2>4, <2>5
<1>4. ASSUME NEW t \in Tags, LaptopSends(t) PROVE WorksOnThePlan'
  <2>1. PICK S \in SUBSET upload[t] : rest' = [rest EXCEPT ![t] = upload[t] \ S]
    BY <1>4 DEF LaptopSends
  <2>2. UNCHANGED <<upload, todo, plan>> /\ at[t] = "sending"
    BY <1>4 DEF LaptopSends, recordVars
  <2> QED BY <1>4, <2>1, <2>2, DriveIs DEF DriveStep, Planned, JobT
<1>5. ASSUME NEW t \in Tags, Check(t) PROVE WorksOnThePlan'
  <2>1. Differs(t, Ready(t, sent[t] \cup done[t])) \subseteq Planned(t)
    BY DEF Differs, Ready
  <2>2. /\ UNCHANGED <<upload, plan, rest>> /\ at'[t] = "posting"
        /\ todo' = [todo EXCEPT ![t] = Differs(t, Ready(t, sent[t] \cup done[t]))]
    BY <1>5 DEF Check, recordVars, jobVars, Goes, DriveT
  <2>3. todo'[t] \subseteq Planned(t)
    BY <2>1, <2>2 DEF DriveT
  <2>4. \A u \in Tags \ {t} : at'[u] = at[u] /\ todo'[u] = todo[u]
    BY <1>5, DriveIs DEF DriveStep
  <2>5. \A u \in Tags : Planned(u)' = Planned(u)
    BY <2>2 DEF Planned
  <2> QED BY <2>2, <2>3, <2>4, <2>5
<1>6. ASSUME NEW t \in Tags, Post(t) PROVE WorksOnThePlan'
  <2>1. PICK F \in SUBSET todo[t] : todo' = [todo EXCEPT ![t] = @ \ F]
    BY <1>6 DEF Post
  <2>2. UNCHANGED <<at, upload, plan, rest>>
    BY <1>6 DEF Post, recordVars, jobVars
  <2> QED BY <2>1, <2>2 DEF Planned, DriveT
<1>7. ASSUME NEW t \in Tags, PostManifest(t) PROVE WorksOnThePlan'
  <2>1. UNCHANGED <<upload, todo, plan, rest>> /\ todo[t] = {}
    BY <1>7 DEF PostManifest, recordVars, jobVars
  <2> QED BY <1>7, <2>1, DriveIs DEF DriveStep, Planned
<1>8. ASSUME NEW t \in Tags, Finish(t) PROVE WorksOnThePlan'
  <2>1. UNCHANGED <<plan, rest>> /\ upload'[t] = {} /\ todo'[t] = {}
    BY <1>8 DEF Finish, jobVars, Ends, DriveT
  <2> QED BY <1>8, <2>1, DriveIs DEF DriveStep, Planned
<1>9. ASSUME NEW t \in Tags, HostSends(t) PROVE WorksOnThePlan'
  <2>1. PICK f \in rest[t] : rest' = [rest EXCEPT ![t] = @ \ {f}]
    BY <1>9 DEF HostSends
  <2> QED BY <1>9, <2>1 DEF HostSends, driveVars, recordVars, Planned, JobT
<1>10. ASSUME NEW t \in Tags, HostDies(t) PROVE WorksOnThePlan'
  BY <1>10 DEF HostDies, driveVars, recordVars, Planned, JobT
<1> QED BY <1>1, <1>2, <1>3, <1>4, <1>5, <1>6, <1>7, <1>8, <1>9, <1>10, NextIs, WhoWrites
        DEF DriveStep, vars, driveVars, jobVars, recordVars

LEMMA ReadySame ==
    ASSUME NEW t \in Tags, plan'[t] = plan[t], upload'[t] = upload[t], sent'[t] = sent[t]
    PROVE  Ready(t, sent[t])' = Ready(t, sent[t]) /\ Planned(t)' = Planned(t)
  BY DEF Ready, Planned

LEMMA PostedStep ==
    ASSUME HostT, HubT, RecordT, DriveT, ManifestIsPosted, [Next]_vars
    PROVE  ManifestIsPosted'
<1> DEFINE Posted(u) == at[u] = "reading" =>
        manifest[u] = [f \in Files |-> IF f \in Ready(u, sent[u]) THEN plan[u][f].content ELSE None]
<1>0. ManifestIsPosted <=> \A u \in Tags : Posted(u)
  BY DEF ManifestIsPosted
<1>00. ManifestIsPosted' <=> \A u \in Tags : Posted(u)'
  BY DEF ManifestIsPosted
<1>1. ASSUME NEW u \in Tags, at'[u] = at[u], sent'[u] = sent[u], upload'[u] = upload[u],
             plan'[u] = plan[u], manifest'[u] = manifest[u]
      PROVE  Posted(u)'
  <2>1. Posted(u)
    BY <1>0
  <2> QED BY <1>1, <2>1, ReadySame
<1>2. CASE UNCHANGED <<at, sent, upload, plan, manifest>>
  BY <1>00, <1>1, <1>2
<1>3. ASSUME NEW t \in Tags, StartStep(t) PROVE ManifestIsPosted'
  <2>1. Posted(t)'
    BY <1>3, BeginIs
  <2>2. \A u \in Tags \ {t} : Posted(u)'
    BY <1>1, <1>3, BeginIs, WhoWrites DEF recordVars, hubVars
  <2> QED BY <1>00, <2>1, <2>2
<1>4. ASSUME NEW t \in Tags, DriveStep(t) PROVE ManifestIsPosted'
  <2>1. \A u \in Tags \ {t} : manifest'[u] = manifest[u]
    BY <1>4 DEF DriveStep, Plan, LaptopSends, Check, Post, PostManifest, Finish, hubVars, HubT
  <2>2. \A u \in Tags \ {t} : Posted(u)'
    BY <1>1, <1>4, <2>1, DriveIs
  <2>3. Posted(t)'
    <3>1. CASE PostManifest(t)
      <4>1. UNCHANGED <<plan, upload, sent>>
        BY <3>1 DEF PostManifest, recordVars
      <4>2. manifest'[t] = [f \in Files |-> IF f \in Ready(t, sent[t]) THEN plan[t][f].content ELSE None]
        BY <3>1 DEF PostManifest, HubT
      <4> QED BY <4>1, <4>2, ReadySame
    <3>2. CASE Plan(t) \/ LaptopSends(t) \/ Check(t) \/ Post(t) \/ Finish(t)
      <4>1. at'[t] # "reading"
        BY <3>2 DEF Plan, LaptopSends, Check, Post, Finish, Ends, Goes, DriveT
      <4> QED BY <4>1
    <3> QED BY <1>4, <3>1, <3>2 DEF DriveStep
  <2> QED BY <1>00, <2>2, <2>3
<1> HIDE DEF Posted
<1> QED BY <1>2, <1>3, <1>4, NextIs, WhoWrites DEF vars, driveVars, recordVars, hubVars

-----------------------------------------------------------------------------
(***************************************************************************)
(* The parts that hold while nothing has disturbed them.                   *)
(***************************************************************************)
Base == TypeOK /\ BudgetKept /\ StampsArePast /\ PlanIsMade /\ WorksOnThePlan /\ ManifestIsPosted

LEMMA BaseStep ==
    ASSUME Base, [Next]_vars
    PROVE  Base' /\ (Undisturbed' => Undisturbed)
<1>1. HostT /\ HubT /\ RecordT /\ DriveT /\ JobT /\ LeftT
  BY TypeParts DEF Base
<1>2. HostT' /\ HubT' /\ RecordT' /\ DriveT' /\ JobT'
  BY <1>1, HostStep, HubStep, RecordStep, DriveTStep, JobStep DEF Base
<1>3. LeftT' /\ BudgetKept' /\ (Undisturbed' => Undisturbed)
  BY <1>1, LeftStep DEF Base
<1>4. TypeOK'
  BY <1>2, <1>3 DEF TypeOK, HostT, HubT, RecordT, DriveT, JobT, LeftT, Rows
<1>5. StampsArePast' /\ PlanIsMade' /\ WorksOnThePlan' /\ ManifestIsPosted'
  BY <1>1, StampsStep, PlanMadeStep, WorksStep, PostedStep DEF Base
<1> QED BY <1>3, <1>4, <1>5 DEF Base

\* A drive begins alone, with a tag that is not VERIFIED.
Fresh(t) ==
    /\ \E F \in SUBSET Files : Begin(t, F)
    /\ Active = {}
    /\ commit[t] # "VERIFIED"

Stop(t) == Ends(t) /\ UNCHANGED <<hostVars, hubVars, recordVars, jobVars>>

LEMMA CalmNext ==
    ASSUME Base, [Next]_vars, Undisturbed'
    PROVE  \/ UNCHANGED vars
           \/ FileStep
           \/ \E t \in Tags : Fresh(t) \/ Stop(t) \/ DriveStep(t) \/ HostSends(t) \/ HostDies(t)
<1>1. HostT /\ LeftT /\ BudgetKept
  BY TypeParts DEF Base
<1>2. ASSUME Cover PROVE \E t \in Tags : Fresh(t)
  <2>1. PICK t \in Tags \ ByHand :
            /\ \A u \in Tags \ ByHand : at[u] = "idle" /\ (Used(u) <=> u < t)
            /\ Begin(t, Uncovered)
            /\ IF Active = {} THEN UNCHANGED left ELSE Spend({"overlap"})
    BY <1>2 DEF Cover
  <2>2. Active = {}
    BY <1>1, <2>1, PaidFor
  <2>3. ~(t < t)
    BY HostArchiveAssumption DEF Tags
  <2>4. plan[t] = NoFiles
    BY <2>1, <2>3 DEF Used
  <2>5. commit[t] # "VERIFIED"
    BY <2>4 DEF Base, PlanIsMade
  <2>6. Uncovered \in SUBSET Files
    BY <1>1 DEF HostT, Uncovered
  <2> QED BY <2>1, <2>2, <2>5, <2>6 DEF Fresh
<1>3. ASSUME NEW t \in Tags, DriveByHand(t) PROVE Fresh(t)
  <2> DEFINE kinds == {"hand"} \cup Only(\E u \in Tags : u \in Active \/ Runs(u), "overlap")
                               \cup Only(commit[t] = "VERIFIED", "replan")
  <2>1. Spend(kinds)
    BY <1>3 DEF DriveByHand
  <2>2. Active = {}
    <3> SUFFICES ASSUME Active # {} PROVE FALSE
      OBVIOUS
    <3>1. "overlap" \in kinds
      BY DEF Active, Only
    <3> QED BY <1>1, <2>1, <3>1, PaidFor
  <2>3. commit[t] # "VERIFIED"
    <3> SUFFICES ASSUME commit[t] = "VERIFIED" PROVE FALSE
      OBVIOUS
    <3>1. "replan" \in kinds
      BY DEF Only
    <3> QED BY <1>1, <2>1, <3>1, PaidFor
  <2> QED BY <1>3, <2>2, <2>3 DEF Fresh, DriveByHand
<1>4. ASSUME NEW t \in Tags, GiveUp(t) PROVE Stop(t)
  BY <1>4 DEF GiveUp, Stop
<1> QED BY <1>2, <1>3, <1>4 DEF Next, FileStep

LEMMA FreshIs ==
    ASSUME DriveT, NEW t \in Tags, Fresh(t) \/ Stop(t)
    PROVE  StartStep(t) /\ at'[t] \notin OnTheWay
  BY DEF Fresh, Stop, StartStep, Begin, Ends, Goes, DriveT, OnTheWay

LEMMA OneDriveStep ==
    ASSUME Base, OneDrive, NewTags, [Next]_vars
    PROVE  OneDrive' /\ NewTags'
<1> SUFFICES ASSUME Undisturbed'
             PROVE  /\ \A t, u \in Active' : t = u
                    /\ \A t \in Active' : commit'[t] # "VERIFIED"
  BY DEF OneDrive, NewTags
<1>1. HostT /\ HubT /\ RecordT /\ DriveT /\ JobT /\ LeftT
  BY TypeParts DEF Base
<1>2. /\ \A t, u \in Active : t = u
      /\ \A t \in Active : commit[t] # "VERIFIED"
  BY BaseStep DEF OneDrive, NewTags
<1>3. CASE UNCHANGED <<at, commit>>
  BY <1>2, <1>3 DEF Active
<1>4. ASSUME NEW t \in Tags, Fresh(t)
      PROVE  /\ \A v, u \in Active' : v = u
             /\ \A v \in Active' : commit'[v] # "VERIFIED"
  <2>1. Active' \subseteq {t}
    BY <1>1, <1>4, FreshIs, BeginIs DEF Active, Fresh
  <2>2. commit' = commit
    BY <1>1, <1>4, FreshIs, WhoWrites DEF recordVars
  <2> QED BY <1>4, <2>1, <2>2 DEF Fresh
<1>5. ASSUME NEW t \in Tags, Stop(t)
      PROVE  /\ \A v, u \in Active' : v = u
             /\ \A v \in Active' : commit'[v] # "VERIFIED"
  <2>1. Active' \subseteq Active /\ commit' = commit
    BY <1>1, <1>5 DEF Stop, Ends, Goes, Active, DriveT, recordVars
  <2> QED BY <1>2, <2>1
<1>6. ASSUME NEW t \in Tags, DriveStep(t)
      PROVE  /\ \A v, u \in Active' : v = u
             /\ \A v \in Active' : commit'[v] # "VERIFIED"
  <2>1. Active' \subseteq Active /\ t \in Active
    BY <1>1, <1>6, DriveIs DEF Active
  <2>2. commit'[t] = commit[t] \/ t \notin Active'
    BY <1>1, <1>6 DEF DriveStep, Plan, LaptopSends, Check, Post, PostManifest, Finish, Ends, Goes, recordVars,
        Active, DriveT
  <2>3. \A v \in Tags \ {t} : commit'[v] = commit[v]
    BY <1>1, <1>6, DriveIs
  <2>4. Active \subseteq Tags
    BY DEF Active
  <2> QED BY <1>2, <2>1, <2>2, <2>3, <2>4
<1> QED BY <1>3, <1>4, <1>5, <1>6, CalmNext, WhoWrites DEF vars, driveVars, recordVars

LEMMA LastManifestStep ==
    ASSUME Base, OneDrive, LastManifest, [Next]_vars
    PROVE  LastManifest'
<1> SUFFICES ASSUME Undisturbed', NEW t \in Tags, NEW u \in Tags, at'[t] = "reading", u # t
             PROVE  order'[u] < order'[t]
  BY DEF LastManifest
<1>1. HostT /\ HubT /\ RecordT /\ DriveT /\ JobT /\ LeftT
  BY TypeParts DEF Base
<1>2. /\ \A v, w \in Active : v = w
      /\ at[t] = "reading" => order[u] < order[t]
  BY BaseStep DEF OneDrive, LastManifest
<1>3. CASE UNCHANGED <<at, order>>
  BY <1>2, <1>3
<1>4. ASSUME NEW v \in Tags, Fresh(v) \/ Stop(v) PROVE order'[u] < order'[t]
  BY <1>1, <1>2, <1>4, FreshIs, BeginIs, WhoWrites DEF hubVars, OnTheWay
<1>5. ASSUME NEW v \in Tags, DriveStep(v) PROVE order'[u] < order'[t]
  <2>1. v = t
    <3> SUFFICES ASSUME v # t PROVE FALSE
      OBVIOUS
    <3>1. at[t] = "reading" /\ at[v] # "idle"
      BY <1>1, <1>5, DriveIs
    <3> QED BY <1>2, <3>1 DEF Active
  <2>2. PostManifest(t)
    BY <1>1, <1>5, <2>1 DEF DriveStep, Plan, LaptopSends, Check, Post, Finish, Ends, Goes, DriveT
  <2>3. order'[t] = clock /\ order'[u] = order[u]
    BY <1>1, <2>2 DEF PostManifest, HubT
  <2> QED BY <2>3 DEF Base, StampsArePast
<1> QED BY <1>3, <1>4, <1>5, CalmNext, WhoWrites DEF vars, driveVars, hubVars

-----------------------------------------------------------------------------
(***************************************************************************)
(* What is sure is held.                                                   *)
(***************************************************************************)
Good(f) ==
    /\ Sure(f) => Held(f)
    /\ \A t \in Tags : at[t] \in OnTheWay /\ plan[t][f] # None /\ Sure(f) =>
           plan[t][f].content = latest[f].content

LEMMA GoodIs ==
    PlansAreCurrent /\ SureIsHeld <=> (Undisturbed => \A f \in Files : Good(f))
  BY DEF PlansAreCurrent, SureIsHeld, Good

\* A step that makes nothing sure and touches neither the hub nor the plans.
LEMMA GoodStays ==
    ASSUME NEW f \in Files, Good(f), Sure(f)' => Sure(f), latest'[f] = latest[f],
           UNCHANGED <<tree, manifest, order, plan, commit>>,
           \A t \in Tags : at'[t] \in OnTheWay => at[t] \in OnTheWay
    PROVE  Good(f)'
<1>1. Held(f) => Held(f)'
  BY DEF Held
<1> QED BY <1>1 DEF Good

LEMMA SureStays ==
    ASSUME NEW f \in Files, latest'[f] = latest[f], f \in here => f \in here', index'[f] = index[f],
           UNCHANGED <<plan, commit>>
    PROVE  Sure(f)' => Sure(f)
  BY DEF Sure

\* A file that has just been written is in no record.
LEMMA WrittenIsUnsure ==
    ASSUME Base, NEW f \in Files, f \in here', latest'[f].stamp = clock, latest'[f] # None,
           UNCHANGED <<index, plan, commit>>
    PROVE  ~Sure(f)'
<1>1. clock \in Nat /\ ~(clock < clock)
  BY TypeParts DEF Base, HostT
<1>2. index[f] # latest'[f]
  BY <1>1 DEF Base, StampsArePast
<1>3. \A t \in Tags : plan[t][f] # latest'[f]
  BY <1>1 DEF Base, StampsArePast
<1> QED BY <1>2, <1>3 DEF Sure

LEMMA FileKeepsGood ==
    ASSUME Base, \A f \in Files : Good(f), FileStep
    PROVE  \A f \in Files : Good(f)'
<1> USE TypeParts DEF Base
<1>1. UNCHANGED <<tree, manifest, order, plan, commit, at>>
  BY WhoWrites DEF hubVars, recordVars, driveVars
<1>2. ASSUME MakeIndex, NEW f \in Files PROVE Good(f)'
  <2>1. UNCHANGED <<latest, here>> /\ index'[f] = Row(f)
    BY <1>2 DEF MakeIndex
  <2>2. latest[f] # None
    BY RowsAre DEF HostT
  <2>3. index'[f] = latest[f] => \E t \in Tags : commit[t] = "VERIFIED" /\ plan[t][f] = latest[f]
    BY <2>1, <2>2, RowIs
  <2>4. Sure(f)' => Sure(f)
    BY <1>1, <2>1, <2>3 DEF Sure
  <2> QED BY <1>1, <2>1, <2>4, GoodStays
<1>3. ASSUME NEW g \in Files, Write(g), NEW f \in Files PROVE Good(f)'
  <2>1. PICK c \in Contents : latest' = [latest EXCEPT ![g] = [content |-> c, stamp |-> clock]]
    BY <1>3 DEF Write
  <2>2. here' = here \cup {g} /\ index' = index
    BY <1>3 DEF Write
  <2>3. CASE f = g
    <3>1. latest'[f] = [content |-> c, stamp |-> clock]
      BY <2>1, <2>3 DEF HostT
    <3>2. latest'[f].stamp = clock /\ latest'[f] # None
      BY <3>1, RowsAre DEF HostT
    <3> QED BY <1>1, <2>2, <2>3, <3>2, WrittenIsUnsure DEF Good
  <2>4. CASE f # g
    <3>1. latest'[f] = latest[f]
      BY <2>1, <2>4 DEF HostT
    <3> QED BY <1>1, <2>2, <3>1, SureStays, GoodStays
  <2> QED BY <2>3, <2>4
<1>4. ASSUME NEW g \in Files, Settle(g), NEW f \in Files PROVE Good(f)'
  BY <1>1, <1>4, SureStays, GoodStays DEF Settle
<1>5. ASSUME NEW g \in Files, Remove(g), NEW f \in Files PROVE Good(f)'
  <2>1. UNCHANGED <<latest, index>> /\ index[g] = latest[g] /\ here' = here \ {g}
    BY <1>5 DEF Remove
  <2>2. Sure(f)' => Sure(f)
    BY <1>1, <2>1 DEF Sure
  <2> QED BY <1>1, <2>1, <2>2, GoodStays
<1>6. ASSUME NEW t \in Tags, NEW g \in Files, Restore(t, g), NEW f \in Files PROVE Good(f)'
  <2>1. latest' = [latest EXCEPT ![g] = [content |-> tree[g], stamp |-> clock]]
    BY <1>6 DEF Restore
  <2>2. here' = here \cup {g} /\ index' = index /\ tree[g] \in Contents
    BY <1>6 DEF Restore, HubT
  <2>3. CASE f = g
    <3>1. latest'[f] = [content |-> tree[g], stamp |-> clock]
      BY <2>1, <2>3 DEF HostT
    <3>2. latest'[f].stamp = clock /\ latest'[f] # None
      BY <2>2, <3>1, RowsAre DEF HostT
    <3> QED BY <1>1, <2>2, <2>3, <3>2, WrittenIsUnsure DEF Good
  <2>4. CASE f # g
    <3>1. latest'[f] = latest[f]
      BY <2>1, <2>4 DEF HostT
    <3> QED BY <1>1, <2>2, <3>1, SureStays, GoodStays
  <2> QED BY <2>3, <2>4
<1> QED BY <1>2, <1>3, <1>4, <1>5, <1>6 DEF FileStep

\* plan: the tag is not VERIFIED, and its plan is of this moment.
LEMMA PlanKeepsGood ==
    ASSUME Base, \A f \in Files : Good(f), NEW t \in Tags, Plan(t), commit[t] # "VERIFIED", NEW f \in Files
    PROVE  Good(f)'
<1> USE TypeParts DEF Base
<1> DEFINE p == [g \in Files |-> IF g \in asked[t] \cap here THEN latest[g] ELSE None]
<1>1. UNCHANGED <<latest, here, index, tree, manifest, order, commit>>
  BY DEF Plan, hostVars, hubVars
<1>2. \A u \in Tags \ {t} : plan'[u] = plan[u] /\ at'[u] = at[u]
  BY DriveIs DEF DriveStep
<1>3. Sure(f)' => Sure(f)
  BY <1>1, <1>2 DEF Sure
<1>4. Held(f) => Held(f)'
  BY <1>1 DEF Held
<1>5. at'[t] \notin OnTheWay \/ plan'[t] = p
  BY DEF Plan, Ends, Goes, DriveT, RecordT, OnTheWay
<1>6. plan'[t] = p /\ plan'[t][f] # None => plan'[t][f] = latest[f]
  OBVIOUS
<1> HIDE DEF p
<1> QED BY <1>1, <1>2, <1>3, <1>4, <1>5, <1>6 DEF Good

\* A commit of what is sure changes nothing.
LEMMA PostKeepsGood ==
    ASSUME Base, \A f \in Files : Good(f), NEW t \in Tags, Post(t), NEW f \in Files
    PROVE  Good(f)'
<1> USE TypeParts DEF Base
<1>1. UNCHANGED <<latest, here, index, manifest, order, plan, commit, at>> /\ at[t] \in OnTheWay
  BY DEF Post, hostVars, recordVars, OnTheWay
<1>2. Sure(f)' => Sure(f)
  BY <1>1, SureStays
<1>3. PICK F \in SUBSET todo[t] : tree' = [g \in Files |-> IF g \in F THEN plan[t][g].content ELSE tree[g]]
  BY DEF Post
<1>4. f \in F => plan[t][f] # None
  BY DEF WorksOnThePlan, Planned
<1>5. Sure(f) => tree'[f] = latest[f].content
  BY <1>1, <1>3, <1>4 DEF Good, Held
<1>6. Sure(f) => Held(f)'
  BY <1>1, <1>5 DEF Good, Held
<1> QED BY <1>1, <1>2, <1>6 DEF Good

\* The manifest names what is sure with the content that it has.
LEMMA PostManifestKeepsGood ==
    ASSUME Base, \A f \in Files : Good(f), NEW t \in Tags, PostManifest(t), commit[t] # "VERIFIED", NEW f \in Files
    PROVE  Good(f)'
<1> USE TypeParts DEF Base
<1>1. UNCHANGED <<latest, here, index, tree, plan, commit>> /\ at[t] \in OnTheWay
  BY DEF PostManifest, recordVars, OnTheWay
<1>2. Sure(f)' => Sure(f)
  BY <1>1, SureStays
<1>3. \A u \in Tags \ {t} : manifest'[u] = manifest[u] /\ order'[u] = order[u] /\ at'[u] = at[u]
  BY DriveIs DEF PostManifest, HubT, DriveStep
<1>4. manifest'[t][f] # None => plan[t][f] # None /\ manifest'[t][f] = plan[t][f].content
  BY DEF PostManifest, HubT, Ready, Planned
<1>5. Sure(f) => Held(f)'
  <2> SUFFICES ASSUME Sure(f) PROVE Held(f)'
    OBVIOUS
  <2>1. manifest'[t][f] # None => manifest'[t][f] = latest[f].content
    BY <1>1, <1>4 DEF Good
  <2>2. PICK v \in Tags :
            /\ commit[v] = "VERIFIED"
            /\ manifest[v][f] = latest[f].content
            /\ \A u \in Tags : manifest[u][f] # None /\ order[u] >= order[v] =>
                   manifest[u][f] = latest[f].content
    BY DEF Good, Held
  <2>3. v # t
    BY <2>2
  <2>4. tree'[f] = latest'[f].content
    BY <1>1 DEF Good, Held
  <2> QED BY <1>1, <1>3, <2>1, <2>2, <2>3, <2>4 DEF Held
<1> QED BY <1>1, <1>2, <1>3, <1>5 DEF Good

\* A VERIFIED tag is the last one, and all of its files are where it says.
LEMMA FinishKeepsGood ==
    ASSUME Base, \A f \in Files : Good(f), NEW t \in Tags, Finish(t), commit[t] # "VERIFIED",
           \A u \in Tags \ {t} : at[u] = "idle" /\ order[u] < order[t], NEW f \in Files
    PROVE  Good(f)'
<1> USE TypeParts DEF Base
<1>1. UNCHANGED <<latest, here, index, tree, manifest, order, plan>> /\ at[t] = "reading" /\ at'[t] = "idle"
  BY DEF Finish, hostVars, hubVars, Ends, Goes, DriveT
<1>2. \A u \in Tags \ {t} : at'[u] = at[u] /\ commit'[u] = commit[u]
  BY DriveIs DEF DriveStep
<1>3. Held(f) => Held(f)'
  BY <1>1, <1>2 DEF Held
<1>4. Sure(f)' => Sure(f) \/ (commit'[t] = "VERIFIED" /\ plan[t][f] = latest[f])
  BY <1>1, <1>2 DEF Sure
<1>5. ASSUME commit'[t] = "VERIFIED", plan[t][f] = latest[f] PROVE Held(f)'
  <2>1. Planned(t) = Ready(t, sent[t]) /\ Differs(t, Planned(t)) = {}
    BY <1>5 DEF Finish, RecordT
  <2>2. f \in Planned(t)
    BY <1>5, RowsAre DEF Planned, HostT
  <2>3. tree[f] = latest[f].content
    BY <1>5, <2>1, <2>2 DEF Differs
  <2>4. manifest[t][f] = latest[f].content
    BY <1>1, <1>5, <2>1, <2>2 DEF ManifestIsPosted
  <2>5. \A u \in Tags \ {t} : ~(order[u] >= order[t])
    BY DEF HubT
  <2> QED BY <1>1, <1>5, <2>3, <2>4, <2>5 DEF Held
<1>6. Sure(f)' => Held(f)'
  BY <1>3, <1>4, <1>5 DEF Good
<1>7. \A u \in Tags : at'[u] \notin OnTheWay
  BY <1>1, <1>2 DEF OnTheWay
<1> QED BY <1>6, <1>7 DEF Good

LEMMA GoodStep ==
    ASSUME IInv, [Next]_vars
    PROVE  PlansAreCurrent' /\ SureIsHeld'
<1> SUFFICES ASSUME Undisturbed' PROVE \A f \in Files : Good(f)'
  BY DEF PlansAreCurrent, SureIsHeld, Good
<1>1. Base /\ Undisturbed
  BY BaseStep DEF IInv, Base
<1>2. \A f \in Files : Good(f)
  BY <1>1, GoodIs DEF IInv
<1>3. HostT /\ HubT /\ RecordT /\ DriveT /\ JobT
  BY TypeParts DEF IInv
<1>4. /\ \A t, u \in Active : t = u
      /\ \A t \in Active : commit[t] # "VERIFIED"
      /\ \A t, u \in Tags : at[t] = "reading" /\ u # t => order[u] < order[t]
  BY <1>1 DEF IInv, OneDrive, NewTags, LastManifest
<1>5. ASSUME NEW f \in Files, UNCHANGED <<latest, here, index, tree, manifest, order, plan, commit>>,
             \A t \in Tags : at'[t] \in OnTheWay => at[t] \in OnTheWay
      PROVE  Good(f)'
  BY <1>2, <1>5, SureStays, GoodStays
<1>6. CASE UNCHANGED vars
  BY <1>5, <1>6 DEF vars
<1>7. CASE FileStep
  BY <1>1, <1>2, <1>7, FileKeepsGood
<1>8. ASSUME NEW t \in Tags, Fresh(t) \/ Stop(t), NEW f \in Files PROVE Good(f)'
  <2>1. StartStep(t) /\ at'[t] \notin OnTheWay
    BY <1>3, <1>8, FreshIs
  <2>2. UNCHANGED <<latest, here, index, tree, manifest, order, plan, commit>>
    BY <2>1, WhoWrites DEF hostVars, hubVars, recordVars
  <2> QED BY <1>3, <1>5, <2>1, <2>2, BeginIs
<1>9. ASSUME NEW t \in Tags, DriveStep(t), NEW f \in Files PROVE Good(f)'
  <2>1. t \in Active /\ commit[t] # "VERIFIED"
    BY <1>3, <1>4, <1>9, DriveIs DEF Active
  <2>2. CASE Plan(t)
    BY <1>1, <1>2, <2>1, <2>2, PlanKeepsGood
  <2>3. CASE LaptopSends(t) \/ Check(t)
    <3>1. UNCHANGED <<latest, here, index, tree, manifest, order, plan, commit>> /\ at[t] \in OnTheWay
      BY <2>3 DEF LaptopSends, Check, hostVars, hubVars, recordVars, OnTheWay
    <3>2. \A u \in Tags \ {t} : at'[u] = at[u]
      BY <1>3, <1>9, DriveIs
    <3> QED BY <1>5, <3>1, <3>2
  <2>4. CASE Post(t)
    BY <1>1, <1>2, <2>4, PostKeepsGood
  <2>5. CASE PostManifest(t)
    BY <1>1, <1>2, <2>1, <2>5, PostManifestKeepsGood
  <2>6. CASE Finish(t)
    <3>1. at[t] = "reading"
      BY <2>6 DEF Finish
    <3>2. \A u \in Tags \ {t} : at[u] = "idle" /\ order[u] < order[t]
      BY <1>4, <2>1, <3>1 DEF Active
    <3> QED BY <1>1, <1>2, <2>1, <2>6, <3>2, FinishKeepsGood
  <2> QED BY <1>9, <2>2, <2>3, <2>4, <2>5, <2>6 DEF DriveStep
<1>10. ASSUME NEW t \in Tags, HostSends(t) \/ HostDies(t), NEW f \in Files PROVE Good(f)'
  <2>1. UNCHANGED <<latest, here, index, tree, manifest, order, plan, commit, at>>
    BY <1>10, WhoWrites DEF hostVars, recordVars, driveVars
  <2> QED BY <1>5, <2>1
<1> QED BY <1>1, <1>6, <1>7, <1>8, <1>9, <1>10, CalmNext

LEMMA InitIInv == Init => IInv
<1> SUFFICES ASSUME Init PROVE IInv
  OBVIOUS
<1>1. TypeOK
  BY InitTypes
<1>2. BudgetKept
  BY HostArchiveAssumption DEF Init, BudgetKept
<1>3. StampsArePast /\ PlanIsMade /\ WorksOnThePlan /\ ManifestIsPosted
  BY DEF Init, StampsArePast, PlanIsMade, WorksOnThePlan, ManifestIsPosted, Nothing, NoFiles, OnTheWay
<1>4. OneDrive /\ NewTags /\ LastManifest
  BY DEF Init, OneDrive, NewTags, LastManifest, Active
<1>5. ASSUME NEW f \in Files PROVE ~Sure(f)
  <2>1. latest[f] # None
    BY <1>1, RowsAre, TypeParts DEF HostT
  <2>2. f \in here /\ index[f] = None
    BY DEF Init, NoFiles
  <2>3. \A t \in Tags : commit[t] # "VERIFIED"
    BY DEF Init
  <2> QED BY <2>1, <2>2, <2>3 DEF Sure
<1>6. PlansAreCurrent /\ SureIsHeld
  BY <1>5 DEF PlansAreCurrent, SureIsHeld
<1> QED BY <1>1, <1>2, <1>3, <1>4, <1>6 DEF IInv

LEMMA IInvStep == IInv /\ [Next]_vars => IInv'
<1> SUFFICES ASSUME IInv, [Next]_vars PROVE IInv'
  OBVIOUS
<1>1. Base
  BY DEF IInv, Base
<1>2. Base'
  BY <1>1, BaseStep
<1>3. OneDrive' /\ NewTags' /\ LastManifest'
  BY <1>1, OneDriveStep, LastManifestStep DEF IInv
<1> QED BY <1>2, <1>3, GoodStep DEF IInv, Base

-----------------------------------------------------------------------------
(***************************************************************************)
(* The theorems.                                                           *)
(***************************************************************************)

\* The inductive invariant of the archive (stage_drive, host_sync's loop,
\* hub_index and the cleaner beside each other).
THEOREM ArchiveInvariant == Spec => []IInv
<1> QED BY InitIInv, IInvStep, PTL DEF Spec

\* Every variable keeps its type, whatever fails.
THEOREM ArchiveTypeCorrect == Spec => []TypeOK
<1>1. IInv => TypeOK
  BY DEF IInv
<1> QED BY <1>1, ArchiveInvariant, PTL

\* No file is removed from the host that a restore of everything would not bring
\* back as it was (auto_cleanup.py 416-418, host_restore.py 8-10), however many
\* files, tags, failures and kills there are.
THEOREM RemovedFilesAreRestorable == Spec => []RemovedIsRestorable
<1>1. IInv => RemovedIsRestorable
  <2> SUFFICES ASSUME IInv, Undisturbed, NEW f \in Files \ here PROVE Restores(f, latest[f].content)
    BY DEF RemovedIsRestorable
  <2>1. Held(f)
    BY DEF IInv, SureIsHeld, Sure
  <2> QED BY <2>1 DEF Held, Restores
<1> QED BY <1>1, ArchiveInvariant, PTL

-----------------------------------------------------------------------------
(***************************************************************************)
(* While contents only grow: what a VERIFIED tag has put in the tree was   *)
(* replaced by nothing older, so that a file that still has the tag's      *)
(* content has it in the tree.                                             *)
(***************************************************************************)
Grown(f) ==
    /\ tree[f] # None => tree[f] <= latest[f].content
    /\ \A t \in Tags : plan[t][f] # None => plan[t][f].content <= latest[f].content
    /\ \A t \in Tags : commit[t] = "VERIFIED" /\ plan[t][f] # None =>
           /\ tree[f] # None /\ plan[t][f].content <= tree[f]
           /\ \A u \in Tags : at[u] \in OnTheWay /\ plan[u][f] # None =>
                  plan[t][f].content <= plan[u][f].content

OnlyGrows == Undisturbed /\ ~Spent("back") => \A f \in Files : Grown(f)

LEMMA ContentsAreNats ==
    ASSUME TypeOK, NEW f \in Files
    PROVE  /\ latest[f].content \in Nat
           /\ tree[f] # None => tree[f] \in Nat
           /\ \A t \in Tags : plan[t][f] # None => plan[t][f].content \in Nat
<1>1. HostT /\ HubT /\ RecordT
  BY TypeParts
<1>2. latest[f] \in Row0 /\ tree[f] \in Contents \cup {None}
  BY <1>1 DEF HostT, HubT
<1>3. \A t \in Tags : plan[t][f] \in Row0 \cup {None}
  BY <1>1 DEF RecordT, Rows
<1> QED BY <1>2, <1>3, HostArchiveAssumption DEF Row0

LEMMA GrownStays ==
    ASSUME TypeOK, TypeOK', NEW f \in Files, Grown(f), UNCHANGED <<plan, commit, tree>>,
           latest[f].content <= latest'[f].content,
           \A t \in Tags : at'[t] \in OnTheWay => at[t] \in OnTheWay
    PROVE  Grown(f)'
<1>1. latest[f].content \in Nat /\ latest'[f].content \in Nat
  <2>1. latest'[f] \in Row0
    BY DEF TypeOK
  <2>2. latest'[f].content \in Contents
    BY <2>1 DEF Row0
  <2> QED BY <2>2, ContentsAreNats, HostArchiveAssumption
<1>2. tree[f] # None => tree[f] <= latest'[f].content
  BY <1>1, ContentsAreNats DEF Grown
<1>3. \A t \in Tags : plan[t][f] # None => plan[t][f].content <= latest'[f].content
  BY <1>1, ContentsAreNats DEF Grown
<1> QED BY <1>2, <1>3 DEF Grown

\* A step of a file brings back nothing older.
LEMMA FileGrows ==
    ASSUME IInv, IInv', Undisturbed, FileStep, ~Spent("back")', \A f \in Files : Grown(f), NEW f \in Files
    PROVE  Grown(f)'
<1>1. TypeOK /\ TypeOK' /\ LeftT /\ BudgetKept
  BY TypeParts DEF IInv
<1>2. UNCHANGED <<plan, commit, tree, at>>
  BY WhoWrites DEF hubVars, recordVars, driveVars
<1>3. \A g \in Files : latest[g].content \in Nat /\ latest[g] \in Row0
  BY <1>1, ContentsAreNats, TypeParts DEF HostT
<1>4. latest[f].content <= latest'[f].content
  <2>1. CASE UNCHANGED latest
    BY <1>3, <2>1
  <2>2. ASSUME NEW g \in Files, Write(g) PROVE latest[f].content <= latest'[f].content
    <3>1. PICK c \in Contents :
              /\ Spend({"write"} \cup Only(c < latest[g].content, "back"))
              /\ latest' = [latest EXCEPT ![g] = [content |-> c, stamp |-> clock]]
      BY <2>2 DEF Write
    <3>2. ~(c < latest[g].content)
      <4> SUFFICES ASSUME c < latest[g].content PROVE FALSE
        OBVIOUS
      <4>1. "back" \in {"write"} \cup Only(c < latest[g].content, "back")
        BY DEF Only
      <4>2. "back" \in Kinds /\ left["back"] \in Nat /\ left["back"] <= Budget["back"] /\ Budget["back"] \in Nat
        BY <1>1, HostArchiveAssumption DEF LeftT, BudgetKept, Kinds
      <4>3. left'["back"] = left["back"] - 1
        BY <1>1, <3>1, <4>1, <4>2, SpendFacts
      <4> QED BY <4>2, <4>3 DEF Spent
    <3>3. c \in Nat
      BY HostArchiveAssumption
    <3>4. latest'[f].content = IF f = g THEN c ELSE latest[f].content
      BY <1>1, <3>1, TypeParts DEF HostT
    <3> QED BY <1>3, <3>2, <3>3, <3>4
  <2>3. ASSUME NEW t \in Tags, NEW g \in Files, Restore(t, g) PROVE latest[f].content <= latest'[f].content
    <3>1. tree[g] = latest[g].content
      BY <2>3 DEF Restore, IInv, SureIsHeld, Sure, Held
    <3>2. latest' = [latest EXCEPT ![g] = [content |-> tree[g], stamp |-> clock]]
      BY <2>3 DEF Restore
    <3>3. latest'[f].content = latest[f].content
      BY <1>1, <3>1, <3>2, TypeParts DEF HostT
    <3> QED BY <1>3, <3>3
  <2> QED BY <2>1, <2>2, <2>3 DEF FileStep, MakeIndex, Settle, Remove
<1> QED BY <1>1, <1>2, <1>4, GrownStays

\* A step of the only drive: it plans what is there, posts what it planned, and
\* is VERIFIED when the tree has it.
LEMMA DriveGrows ==
    ASSUME IInv, IInv', Undisturbed, \A f \in Files : Grown(f), NEW t \in Tags, DriveStep(t), NEW f \in Files
    PROVE  Grown(f)'
<1>1. TypeOK /\ TypeOK' /\ HostT /\ HubT /\ RecordT /\ DriveT
  BY TypeParts DEF IInv
<1>2. /\ t \in Active /\ commit[t] # "VERIFIED"
      /\ \A u \in Tags \ {t} : /\ at[u] = "idle" /\ at'[u] = "idle"
                               /\ plan'[u] = plan[u] /\ commit'[u] = commit[u]
  BY <1>1, DriveIs DEF IInv, OneDrive, NewTags, Active
<1>3. latest' = latest
  BY DEF DriveStep, Plan, LaptopSends, Check, Post, PostManifest, Finish, hostVars
<1>4. Grown(f) /\ latest[f].content \in Nat
  BY <1>1, ContentsAreNats
<1>5. CASE LaptopSends(t) \/ Check(t) \/ PostManifest(t)
  <2>1. UNCHANGED <<plan, commit, tree>> /\ at[t] \in OnTheWay
    BY <1>5 DEF LaptopSends, Check, PostManifest, hubVars, recordVars, OnTheWay
  <2> QED BY <1>1, <1>2, <1>3, <1>4, <2>1, GrownStays DEF OnTheWay
<1>6. CASE Plan(t)
  <2>1. tree' = tree /\ commit' = commit
    BY <1>6 DEF Plan, hubVars
  <2>2. \/ plan'[t] = plan[t] /\ at'[t] = "idle"
        \/ plan'[t][f] \in {latest[f], None}
    BY <1>1, <1>6 DEF Plan, Ends, Goes, DriveT, RecordT
  <2>3. plan'[t][f] # None => plan'[t][f].content <= latest[f].content
    BY <1>4, <2>2 DEF Grown
  <2>4. \A u \in Tags : at'[u] \in OnTheWay => u = t /\ at'[t] # "idle"
    BY <1>2 DEF OnTheWay
  <2>5. \A u \in Tags : commit'[u] = "VERIFIED" => u # t /\ plan'[u] = plan[u]
    BY <1>2, <2>1
  <2>6. \A u \in Tags : plan'[u][f] # None => plan'[u][f].content <= latest[f].content
    BY <1>2, <1>4, <2>3 DEF Grown
  <2>7. \A u, v \in Tags : commit'[u] = "VERIFIED" /\ plan'[u][f] # None /\ at'[v] \in OnTheWay /\ plan'[v][f] # None
                              => plan'[u][f].content <= plan'[v][f].content
    BY <1>4, <2>2, <2>4, <2>5 DEF Grown
  <2>8. \A u \in Tags : commit'[u] = "VERIFIED" /\ plan'[u][f] # None =>
                            tree[f] # None /\ plan'[u][f].content <= tree[f]
    BY <1>4, <2>1, <2>5 DEF Grown
  <2> QED BY <1>3, <1>4, <2>1, <2>6, <2>7, <2>8 DEF Grown
<1>7. CASE Post(t)
  <2>1. UNCHANGED <<plan, commit, at>> /\ at[t] \in OnTheWay
    BY <1>7 DEF Post, recordVars, OnTheWay
  <2>2. tree'[f] = tree[f] \/ (plan[t][f] # None /\ tree'[f] = plan[t][f].content)
    <3>1. todo[t] \subseteq Planned(t)
      BY DEF IInv, WorksOnThePlan
    <3> QED BY <1>7, <3>1 DEF Post, Planned
  <2>3. CASE tree'[f] = tree[f]
    BY <1>3, <1>4, <2>1, <2>3 DEF Grown
  <2>4. CASE plan[t][f] # None /\ tree'[f] = plan[t][f].content
    <3>1. tree'[f] # None
      BY <1>1, <2>4, ContentsAreNats, HostArchiveAssumption
    <3> QED BY <1>3, <1>4, <2>1, <2>4, <3>1 DEF Grown
  <2> QED BY <2>2, <2>3, <2>4
<1>8. CASE Finish(t)
  <2>1. UNCHANGED <<plan, tree>> /\ at'[t] = "idle"
    BY <1>1, <1>8 DEF Finish, hubVars, Ends, Goes, DriveT
  <2>2. \A u \in Tags : at'[u] \notin OnTheWay
    BY <1>2, <2>1 DEF OnTheWay
  <2>3. ASSUME commit'[t] = "VERIFIED", plan[t][f] # None
        PROVE  tree[f] # None /\ plan[t][f].content <= tree[f]
    <3>1. Differs(t, Planned(t)) = {}
      BY <1>1, <1>8, <2>3 DEF Finish, RecordT
    <3>2. tree[f] = plan[t][f].content
      BY <2>3, <3>1 DEF Differs, Planned
    <3> QED BY <1>1, <2>3, <3>2, ContentsAreNats, HostArchiveAssumption
  <2> QED BY <1>2, <1>3, <1>4, <2>1, <2>2, <2>3 DEF Grown
<1> QED BY <1>5, <1>6, <1>7, <1>8 DEF DriveStep

LEMMA OnlyGrowsStep == IInv /\ IInv' /\ OnlyGrows /\ [Next]_vars => OnlyGrows'
<1> SUFFICES ASSUME IInv, IInv', OnlyGrows, [Next]_vars, Undisturbed', ~Spent("back")', NEW f \in Files
             PROVE  Grown(f)'
  BY DEF OnlyGrows
<1>1. Base /\ TypeOK /\ TypeOK' /\ Undisturbed /\ LeftT /\ BudgetKept
  BY BaseStep, TypeParts DEF IInv, Base
<1>2. ~Spent("back")
  <2>1. left["back"] \in Nat /\ left["back"] <= Budget["back"] /\ Budget["back"] \in Nat
    BY <1>1, HostArchiveAssumption DEF LeftT, BudgetKept, Kinds
  <2>2. left'["back"] \in Nat /\ left'["back"] <= left["back"]
    <3>1. CASE left' = left
      BY <2>1, <3>1
    <3>2. CASE \E kinds : Spend(kinds)
      BY <1>1, <3>2, SpendFacts DEF Kinds
    <3> QED BY <3>1, <3>2, Spending
  <2> QED BY <2>1, <2>2 DEF Spent
<1>3. \A g \in Files : Grown(g)
  BY <1>1, <1>2 DEF OnlyGrows
<1>4. latest[f].content \in Nat
  BY <1>1, ContentsAreNats
<1>5. CASE FileStep
  BY <1>1, <1>3, <1>5, FileGrows
<1>6. ASSUME NEW t \in Tags, DriveStep(t) PROVE Grown(f)'
  BY <1>1, <1>3, <1>6, DriveGrows
<1>7. ASSUME NEW t \in Tags, Fresh(t) \/ Stop(t) PROVE Grown(f)'
  <2>1. DriveT /\ StartStep(t) /\ at'[t] \notin OnTheWay
    BY <1>1, <1>7, FreshIs, TypeParts
  <2>2. UNCHANGED <<latest, plan, commit, tree>>
    BY <2>1, WhoWrites DEF hostVars, hubVars, recordVars
  <2> QED BY <1>1, <1>3, <1>4, <2>1, <2>2, BeginIs, GrownStays
<1>8. ASSUME NEW t \in Tags, HostSends(t) \/ HostDies(t) PROVE Grown(f)'
  <2>1. UNCHANGED <<latest, plan, commit, tree, at>>
    BY <1>8, WhoWrites DEF hostVars, recordVars, driveVars
  <2> QED BY <1>1, <1>3, <1>4, <2>1, GrownStays
<1>9. CASE UNCHANGED vars
  BY <1>1, <1>3, <1>4, <1>9, GrownStays DEF vars
<1> QED BY <1>1, <1>5, <1>6, <1>7, <1>8, <1>9, CalmNext

\* A file that coverage() counts as on the hub is there as it stands (host_sync.py
\* 341-349, 360-366), while drives do not overlap, no VERIFIED tag is planned anew
\* and no file goes back to an older content, for any files, tags and faults.
THEOREM CoveredFilesAreHeld == Spec => []CoveredIsHeld
<1>1. Init => OnlyGrows
  <2> SUFFICES ASSUME Init, NEW f \in Files PROVE Grown(f)
    BY DEF OnlyGrows
  <2> QED BY DEF Init, Grown, NoFiles
<1>2. IInv /\ OnlyGrows => CoveredIsHeld
  <2> SUFFICES ASSUME IInv, OnlyGrows, Undisturbed, ~Spent("back"), NEW f \in here, Covered(f)
               PROVE  tree[f] = latest[f].content
    BY DEF CoveredIsHeld
  <2>1. TypeOK /\ f \in Files /\ Grown(f)
    BY TypeParts DEF IInv, OnlyGrows, HostT
  <2>2. PICK t \in Tags : commit[t] = "VERIFIED" /\ plan[t][f] = Row(f)
    BY <2>1, RowIs DEF Covered
  <2>3. plan[t][f] # None /\ plan[t][f].content = latest[f].content
    BY <2>2 DEF Covered
  <2>4. tree[f] # None /\ plan[t][f].content <= tree[f] /\ tree[f] <= latest[f].content
    BY <2>1, <2>2, <2>3 DEF Grown
  <2> QED BY <2>1, <2>3, <2>4, ContentsAreNats
<1> QED BY <1>1, <1>2, OnlyGrowsStep, ArchiveInvariant, PTL DEF Spec
=============================================================================
