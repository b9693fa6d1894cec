--------------------------- MODULE HostFeedProofs ---------------------------
(***************************************************************************)
(* Theorems about HostFeed, for any items, dependencies, job ids, retries  *)
(* and budget: its types, and, when no more than one save fails, that an   *)
(* item has one wanted job and runs after what it depends on.              *)
(***************************************************************************)
EXTENDS HostFeed, FiniteSetTheorems, TLAPS

USE DEF Jobs

-----------------------------------------------------------------------------
(***************************************************************************)
(* The invariant, by parts.                                                *)
(***************************************************************************)
\* Job ids are made in order, and what is known of a job is known of an item's job.
Named ==
    /\ \A i, k \in Jobs : i < k /\ name[k] # None => name[i] # None
    /\ \A j \in Jobs : state[j] # "none" => name[j] # None
    /\ \A n \in Items : /\ st.sent[n] # None => name[st.sent[n]] = n
                        /\ disk.sent[n] # None => name[disk.sent[n]] = n

\* The overview is older than the jobs are.
OverviewIsPast ==
    \A j \in Jobs : /\ ov[j] # "none" => state[j] # "none"
                    /\ ov[j] \in Host!Final => state[j] = ov[j]
                    /\ ov[j] = "lost" => state[j] \in {"lost", "cancelled"}
                    /\ at = "adopt" /\ state[j] # "none" => ov[j] # "none"

\* What the feeder has in hand: a job that it found under way, or one that it is
\* about to launch, the last that was made.
InHand ==
    /\ at \in {"calling", "record"} =>
          cur \in Jobs /\ ov[cur] \in {"queued", "running", "finishing", "stalled"}
    /\ at = "record" => ~Wanted(cur)
    /\ at = "launch" => /\ cur \in Jobs /\ state[cur] = "none"
                        /\ st.sent[name[cur]] = cur
                        /\ \A k \in Jobs : k > cur => name[k] = None

\* Every wanted job is the one its item was sent as, to a feeder that has adopted
\* what it found; one that has not goes by its file.
Recorded ==
    /\ at \notin {"poll", "adopt", "down"} => checked
    /\ checked => \A j \in Jobs : Wanted(j) => st.sent[name[j]] = j
    /\ ~checked => st = disk

\* The file may be behind, but by one save: it never names another job in the place of a wanted one.
OneBehind == left.full <= 1 /\ (disk # st => left.full = 0)

OnDisk ==
    \A j \in Jobs : Wanted(j) \/ (at = "launch" /\ j = cur) =>
        /\ disk.sent[name[j]] \in {j, None}
        /\ name[j] \notin st.dropped \cup disk.dropped

\* Items still to be looked at are unsent; jobs taken back are not wanted; a wanted job is the
\* newest of its item.
Unwanted ==
    /\ at \in {"items", "launch"} => \A n \in todo : st.sent[n] = None /\ n \notin st.dropped
    /\ \A j \in st.shed \cup disk.shed : ~Wanted(j) /\ state[j] # "none"
    /\ \A j, k \in Jobs : Wanted(j) /\ k > j /\ name[k] = name[j] => state[k] = "none"

\* What an item depends on is done, as the job it was sent as, and recorded so.
DepsDone ==
    \A j \in Jobs : state[j] \in Host!Active \/ (at = "launch" /\ j = cur) =>
        \A d \in Deps[name[j]] :
            /\ st.sent[d] # None /\ disk.sent[d] = st.sent[d]
            /\ state[st.sent[d]] = "done" /\ ov[st.sent[d]] \in {"none", "done"}

FeedInv == Named /\ OverviewIsPast /\ InHand
OneJobInv == Recorded /\ OneBehind /\ OnDisk /\ Unwanted /\ DepsDone

-----------------------------------------------------------------------------
(***************************************************************************)
(* Job ids, saves and calls.                                               *)
(***************************************************************************)
Families(U) == SUBSET SUBSET U

\* The induction that finite sets allow: some member of Z has no other below it.
LEMMA LeastSet ==
    ASSUME NEW U, IsFiniteSet(U), NEW Z \in Families(U), Z # {}
    PROVE  \E s \in Z : \A t \in Z : t \subseteq s => t = s
<1>1. IsWellFoundedOn(StrictSubsetOrdering(U), FiniteSubsetsOf(U))
  BY FS_StrictSubsetOrderingWellFounded
<1>2. FiniteSubsetsOf(U) = SUBSET U
  BY FS_FiniteSubsetsOfFinite
<1>3. \E s \in Z : \A t \in Z : <<t, s>> \notin StrictSubsetOrdering(U)
  BY <1>1, <1>2, WFMin DEF Families
<1> QED BY <1>3 DEF Families, StrictSubsetOrdering

\* submit takes the first free id: there is one.
LEMMA MinIsLeast ==
    ASSUME NEW S \in SUBSET Jobs, S # {}
    PROVE  Min(S) \in S /\ \A j \in S : Min(S) <= j
<1> DEFINE Z == {1 .. j : j \in S}
<1>1. IsFiniteSet(Jobs)
  BY FS_Interval, ConstantsAssumption
<1>2. Z \in Families(Jobs) /\ Z # {}
  <2>1. \A j \in S : 1 .. j \in SUBSET Jobs
    BY ConstantsAssumption
  <2> QED BY <2>1 DEF Families
<1>3. PICK s \in Z : \A t \in Z : t \subseteq s => t = s
  <2> HIDE DEF Z
  <2> QED BY <1>1, <1>2, LeastSet
<1>4. PICK m \in S : s = 1 .. m
  OBVIOUS
<1>5. ASSUME NEW j \in S PROVE m <= j
  <2> SUFFICES ASSUME j < m PROVE FALSE
    BY ConstantsAssumption
  <2>1. 1 .. j \in Z /\ 1 .. j \subseteq s
    BY <1>4, ConstantsAssumption
  <2>2. m \in s /\ m \notin 1 .. j
    BY <1>4, ConstantsAssumption
  <2> QED BY <1>3, <2>1, <2>2
<1> QED BY <1>5 DEF Min

\* What the overview shows of a job is what the job is, except that a lost one may show as
\* stalled.
LEMMA ViewIs ==
    ASSUME NEW j \in Jobs
    PROVE  View[j] = IF state[j] = "lost" /\ j \notin gone THEN "stalled" ELSE state[j]
BY DEF View

\* The states of RxLifecycle, spelled out.
LEMMA Words ==
    /\ Host!Active = {"launching", "queued", "running", "finishing"}
    /\ Host!Final = {"done", "failed", "cancelled", "error"}
BY DEF Host!Active, Host!Final

\* What the budget counts.
LEMMA KindsAre ==
    DOMAIN Budget = {"fails", "lost", "cancels", "backs", "crash", "full", "refused",
                     "unclear", "deaf", "any"}
BY ConstantsAssumption

\* Spending leaves naturals.
LEMMA SpendOK ==
    ASSUME left \in [DOMAIN Budget -> Nat], NEW k \in DOMAIN Budget \ {"any"}, May(k)
    PROVE  /\ Spent(k) \in [DOMAIN Budget -> Nat]
           /\ k # "full" => Spent(k).full = left.full
<1>1. "any" \in DOMAIN Budget /\ "full" \in DOMAIN Budget /\ left.any \in Nat /\ left[k] \in Nat /\ left[k] > 0
  BY KindsAre DEF May
<1>2. CASE k \in Free
  <2>1. Spent(k) = [left EXCEPT ![k] = left[k] - 1]
    BY <1>1, <1>2 DEF Spent
  <2> QED BY <1>1, <2>1
<1>3. CASE k \notin Free
  <2> DEFINE one == [left EXCEPT ![k] = left[k] - 1]
  <2>1. left.any > 0 /\ Spent(k) = [one EXCEPT !.any = left.any - 1]
    BY <1>1, <1>3 DEF Spent, May
  <2>2. one \in [DOMAIN Budget -> Nat] /\ (k # "full" => one.full = left.full)
    BY <1>1
  <2> HIDE DEF one
  <2>3. [one EXCEPT !.any = left.any - 1] \in [DOMAIN Budget -> Nat]
    BY <1>1, <2>1, <2>2
  <2>4. [one EXCEPT !.any = left.any - 1].full = one.full
    BY <1>1, <2>2
  <2> QED BY <2>1, <2>2, <2>3, <2>4
<1> QED BY <1>2, <1>3

\* A save writes the record or fails at the cost of the budget, and leaves the old one.
LEMMA SaveOK ==
    ASSUME NEW r, NEW b \in [DOMAIN Budget -> Nat], SaveOn(r, b)
    PROVE  /\ st' = r
           /\ disk' \in {r, disk}
           /\ left' \in [DOMAIN Budget -> Nat]
           /\ \/ disk' = r /\ left'.full = b.full
              \/ b.full > 0 /\ disk' = disk /\ left'.full = b.full - 1
BY KindsAre DEF SaveOn

\* Putting items back leaves a record.
LEMMA PutBackOK ==
    ASSUME NEW r \in Record0, NEW B \in SUBSET Items, \A n \in B : r.sent[n] # None
    PROVE  /\ PutBack(r, B) \in Record0
           /\ PutBack(r, B).shed = r.shed /\ PutBack(r, B).dropped = r.dropped
           /\ \A n \in Items : PutBack(r, B).sent[n] = IF n \in B THEN None ELSE r.sent[n]
<1>1. r.sent \in [Items -> Jobs \cup {None}] /\ r.retried \in [Items -> SUBSET Jobs]
      /\ r.shed \in SUBSET Jobs /\ r.dropped \in SUBSET Items
  BY DEF Record0
<1> DEFINE s == [n \in Items |-> IF n \in B THEN None ELSE r.sent[n]]
           t == [n \in Items |-> IF n \in B THEN r.retried[n] \cup {r.sent[n]} ELSE r.retried[n]]
<1>2. PutBack(r, B) = [r EXCEPT !.sent = s, !.retried = t]
  BY DEF PutBack
<1>3. s \in [Items -> Jobs \cup {None}]
  BY <1>1
<1>4. t \in [Items -> SUBSET Jobs]
  BY <1>1
<1> HIDE DEF s, t
<1>5. PutBack(r, B) \in Record0
  BY <1>1, <1>2, <1>3, <1>4 DEF Record0
<1>6. PutBack(r, B).shed = r.shed /\ PutBack(r, B).dropped = r.dropped /\ PutBack(r, B).sent = s
  BY <1>2 DEF Record0
<1> QED BY <1>5, <1>6 DEF s

-----------------------------------------------------------------------------
(***************************************************************************)
(* What a step may do to the jobs: a job goes on, ends, is lost, or a lost *)
(* one is cancelled; none begins but by the launch of the feeder.          *)
(***************************************************************************)
Moves(j) ==
    \/ state'[j] = state[j]
    \/ state[j] \in Host!Active /\ state'[j] \in States \ {"none"}
    \/ state[j] = "lost" /\ state'[j] = "cancelled"

JobTypes == state \in [Jobs -> States] /\ asked \subseteq Jobs /\ gone \subseteq Jobs

JobsGoOn == JobTypes' /\ asked \subseteq asked' /\ \A j \in Jobs : Moves(j)

Launches(j) ==
    /\ JobTypes' /\ UNCHANGED <<asked, gone>>
    /\ state[j] = "none" /\ state' = [state EXCEPT ![j] = "launching"]

\* A step of the lifecycle that is not a launch.
LEMMA MoveGoesOn ==
    ASSUME state \in [Jobs -> States], NEW j \in Jobs, NEW F, NEW T, Host!Move(j, F, T),
           F \subseteq Host!Active \cup {"lost"}, T \subseteq States \ {"none"},
           "lost" \in F => T = {"cancelled"}
    PROVE  state' \in [Jobs -> States] /\ \A k \in Jobs : Moves(k)
<1>1. PICK next \in T : state' = [state EXCEPT ![j] = next] /\ state[j] \in F
  BY DEF Host!Move
<1>2. state' \in [Jobs -> States]
  BY <1>1
<1>3. Moves(j)
  BY <1>1 DEF Moves
<1>4. \A k \in Jobs \ {j} : Moves(k)
  BY <1>1 DEF Moves
<1> QED BY <1>2, <1>3, <1>4

\* A step of a job that is not a launch moves it as Moves says.
LEMMA StepsGoOn ==
    ASSUME state \in [Jobs -> States], NEW j \in Jobs,
           Host!Queue(j) \/ Host!Start(j) \/ Host!Wind(j) \/ Host!Finish(j) \/ Host!Cancel(j)
             \/ Host!Fail(j) \/ Host!Lose(j)
    PROVE  state' \in [Jobs -> States] /\ \A k \in Jobs : Moves(k)
<1> USE Words DEF States
<1>1. CASE Host!Queue(j)
  BY <1>1, MoveGoesOn DEF Host!Queue
<1>2. CASE Host!Start(j)
  BY <1>2, MoveGoesOn DEF Host!Start
<1>3. CASE Host!Wind(j)
  BY <1>3, MoveGoesOn DEF Host!Wind
<1>4. CASE Host!Finish(j)
  BY <1>4, MoveGoesOn DEF Host!Finish
<1>5. CASE Host!Cancel(j)
  BY <1>5, MoveGoesOn DEF Host!Cancel
<1>6. CASE Host!Fail(j)
  BY <1>6, MoveGoesOn DEF Host!Fail
<1>7. CASE Host!Lose(j)
  BY <1>7, MoveGoesOn DEF Host!Lose
<1> QED BY <1>1, <1>2, <1>3, <1>4, <1>5, <1>6, <1>7

\* A cancel leaves a job that nobody wants.
LEMMA CancelGoesOn ==
    ASSUME JobTypes, NEW j \in Jobs, CancelOp(j)
    PROVE  JobsGoOn /\ state'[j] # "none" /\ ~Wanted(j)' /\ gone' = gone
<1> USE Words DEF JobTypes, JobsGoOn, States, Wanted
<1>1. CASE state[j] \in Host!Final /\ UNCHANGED host
  BY <1>1 DEF host, Moves
<1>2. CASE state[j] \in Host!Active /\ asked' = asked \cup {j} /\ UNCHANGED <<state, gone>>
  BY <1>2 DEF Moves
<1>3. CASE state[j] = "lost" /\ Host!Cancel(j) /\ asked' = asked \cup {j} /\ UNCHANGED gone
  <2>1. state' \in [Jobs -> States] /\ \A k \in Jobs : Moves(k)
    BY <1>3, StepsGoOn
  <2>2. state'[j] = "cancelled"
    BY <1>3, <2>1 DEF Moves, Host!Cancel, Host!Move
  <2> QED BY <1>3, <2>1, <2>2
<1> QED BY <1>1, <1>2, <1>3 DEF CancelOp

\* A launch moves its job alone.
LEMMA LaunchIs ==
    ASSUME JobTypes, NEW j \in Jobs, Host!Launch(j), UNCHANGED <<asked, gone>>
    PROVE  Launches(j)
BY Words DEF Host!Launch, Host!Move, Launches, JobTypes, States

\* A step that leaves the host alone moves no job.
LEMMA NothingMoves == ASSUME JobTypes, UNCHANGED host PROVE JobsGoOn
BY DEF JobTypes, JobsGoOn, host, Moves

\* What the host and time do: jobs go on, and the feeder is left alone but for
\* items whose rest is over.
LEMMA HostStepIs ==
    ASSUME TypeOK, HostStep
    PROVE  /\ JobsGoOn
           /\ UNCHANGED <<name, at, st, disk, checked, ov, todo, cur>>
           /\ resting' \subseteq Items
           /\ left' \in [DOMAIN Budget -> Nat] /\ left'.full = left.full
<1>1. JobTypes /\ resting \subseteq Items /\ left \in [DOMAIN Budget -> Nat]
  BY DEF TypeOK, JobTypes
<1> USE <1>1
<1>2. ASSUME NEW j \in Jobs, Goes(j)
      PROVE  JobsGoOn /\ UNCHANGED <<feeder, name, left>>
  BY <1>2, StepsGoOn DEF Goes, JobTypes, JobsGoOn
<1>3. ASSUME NEW j \in Jobs, Ends(j)
      PROVE  /\ JobsGoOn /\ UNCHANGED <<feeder, name>>
             /\ left' \in [DOMAIN Budget -> Nat] /\ left'.full = left.full
  <2>1. JobsGoOn
    BY <1>3, StepsGoOn DEF Ends, JobTypes, JobsGoOn
  <2>2. left' = left \/ Spend("fails")
    BY <1>3 DEF Ends
  <2> QED BY <1>3, <2>1, <2>2, SpendOK, KindsAre DEF Ends, Spend
<1>4. ASSUME NEW j \in Jobs, Lost(j)
      PROVE  /\ JobsGoOn /\ UNCHANGED <<feeder, name>>
             /\ left' \in [DOMAIN Budget -> Nat] /\ left'.full = left.full
  BY <1>4, StepsGoOn, SpendOK, KindsAre DEF Lost, JobTypes, JobsGoOn, Spend
<1>5. ASSUME NEW j \in Jobs, GraceOver(j)
      PROVE  JobsGoOn /\ UNCHANGED <<feeder, name, left>>
  BY <1>5 DEF GraceOver, JobTypes, JobsGoOn, Moves
<1>6. ASSUME NEW j \in Jobs, PersonCancels(j)
      PROVE  /\ JobsGoOn /\ UNCHANGED <<feeder, name>>
             /\ left' \in [DOMAIN Budget -> Nat] /\ left'.full = left.full
  BY <1>6, CancelGoesOn, SpendOK, KindsAre DEF PersonCancels, Spend
<1>7. ASSUME NEW n \in Items, Rested(n)
      PROVE  /\ JobsGoOn /\ UNCHANGED <<name, at, st, disk, checked, ov, todo, cur, left>>
             /\ resting' \subseteq Items
  BY <1>7, NothingMoves DEF Rested, feeder
<1> QED BY <1>2, <1>3, <1>4, <1>5, <1>6, <1>7 DEF HostStep, feeder

-----------------------------------------------------------------------------
(***************************************************************************)
(* Types.                                                                  *)
(***************************************************************************)
\* A record with other jobs sent is a record.
LEMMA SentOK ==
    ASSUME NEW r \in Record0, NEW s \in [Items -> Jobs \cup {None}]
    PROVE  /\ [r EXCEPT !.sent = s] \in Record0
           /\ [r EXCEPT !.sent = s].sent = s
           /\ [r EXCEPT !.sent = s].shed = r.shed
           /\ [r EXCEPT !.sent = s].dropped = r.dropped
BY DEF Record0

\* What adoption takes an item to be sent as: what is recorded, or what it found, or nothing.
Adopted(n) == IF st.sent[n] \notin {None} /\ n \notin Orphans THEN {st.sent[n]}
              ELSE IF n \in st.dropped THEN {} ELSE Adoptable(n)

\* What adoption leaves in the record.
LEMMA AdoptIs ==
    ASSUME TypeOK, Adopt
    PROVE  \E s \in [Items -> Jobs \cup {None}] :
              /\ \A n \in Items : \/ Adopted(n) = {} /\ s[n] = None
                                  \/ s[n] \in Adopted(n)
              /\ \/ s = st.sent /\ UNCHANGED <<st, disk, left>>
                 \/ Save([st EXCEPT !.sent = s])
<1> DEFINE s == [n \in Items |-> IF Adopted(n) = {} THEN None ELSE CHOOSE j \in Adopted(n) : TRUE]
<1>1. ASSUME NEW n \in Items PROVE Adopted(n) \subseteq Jobs
  BY DEF Adopted, Adoptable, JobsOf, TypeOK, Record0
<1>2. s \in [Items -> Jobs \cup {None}]
  BY <1>1
<1>3. \A n \in Items : \/ Adopted(n) = {} /\ s[n] = None
                       \/ s[n] \in Adopted(n)
  OBVIOUS
<1>4. \/ s = st.sent /\ UNCHANGED <<st, disk, left>>
      \/ Save([st EXCEPT !.sent = s])
  BY DEF Adopt, Adopted
<1> HIDE DEF s
<1> QED BY <1>2, <1>3, <1>4

\* What the feeder puts back in Scan, Defer and Drop was sent.
LEMMA BacksAreSent ==
    ASSUME TypeOK, NEW n \in Items
    PROVE  Backs(n) \in SUBSET Items /\ \A d \in Backs(n) : st.sent[d] # None
BY ConstantsAssumption DEF Backs, BadDeps, GoesBack

ScanBack == {n \in Items : /\ st.sent[n] # None
                           /\ st.sent[n] \notin st.shed
                           /\ ov[st.sent[n]] \in Bad
                           /\ GoesBack(n, ov[st.sent[n]])}

\* The feeder starts with nothing sent.
LEMMA InitTypeOK == Init => TypeOK /\ FeedInv
<1> SUFFICES ASSUME Init PROVE TypeOK /\ FeedInv
  OBVIOUS
<1>1. NoRecord \in Record0 /\ \A n \in Items : NoRecord.sent[n] = None
  BY DEF NoRecord, Record0
<1>2. TypeOK
  BY <1>1, KindsAre, ConstantsAssumption DEF Init, TypeOK, States, NoView
<1>3. FeedInv
  BY <1>1, Words, ConstantsAssumption DEF Init, FeedInv, Named, OverviewIsPast, InHand, NoView
<1> QED BY <1>2, <1>3

\* Every step keeps the types.
LEMMA NextTypeOK ==
    ASSUME TypeOK, FeedInv, [Next]_vars
    PROVE  TypeOK'
<1> USE KindsAre, Words
<1>0. /\ JobTypes
      /\ name \in [Jobs -> Items \cup {None}]
      /\ st \in Record0 /\ disk \in Record0 /\ ov \in [Jobs -> States \cup {"stalled"}]
      /\ todo \subseteq Items /\ resting \subseteq Items
      /\ cur \in Jobs \cup {None} /\ (cur # None => name[cur] \in Items)
      /\ left \in [DOMAIN Budget -> Nat] /\ None \notin Items /\ None \notin Jobs
  BY ConstantsAssumption DEF TypeOK, JobTypes
<1>00. View \in [Jobs -> States \cup {"stalled"}] /\ NoView \in [Jobs -> States \cup {"stalled"}]
  BY <1>0 DEF View, NoView, JobTypes, States
<1>1. CASE HostStep
  BY <1>1, HostStepIs DEF TypeOK, JobsGoOn, JobTypes
<1>2. CASE Look
  BY <1>2, <1>00 DEF Look, TypeOK, host
<1>3. CASE Adopt
  <2>1. PICK s \in [Items -> Jobs \cup {None}] :
              \/ s = st.sent /\ UNCHANGED <<st, disk, left>>
              \/ Save([st EXCEPT !.sent = s])
    BY <1>3, AdoptIs
  <2> DEFINE r == [st EXCEPT !.sent = s]
  <2>2. r \in Record0
    BY <1>0, SentOK
  <2> HIDE DEF r
  <2>3. st' \in Record0 /\ disk' \in Record0 /\ left' \in [DOMAIN Budget -> Nat]
    BY <1>0, <2>1, <2>2, SaveOK DEF Save, r
  <2> QED BY <1>3, <2>3 DEF Adopt, TypeOK, host
<1>4. ASSUME NEW j \in Jobs, Withdraw(j) PROVE TypeOK'
  <2>1. name[j] \in Items
    BY <1>0, <1>4 DEF Withdraw, FeedInv, Named
  <2>2. left' \in [DOMAIN Budget -> Nat]
    BY <1>0, <1>4, SpendOK DEF Withdraw, Spend
  <2> QED BY <1>4, <2>1, <2>2 DEF Withdraw, TypeOK, host
<1>5. ASSUME NEW j \in Jobs, Shed(j) PROVE TypeOK'
  <2>1. name[j] \in Items
    BY <1>0, <1>5 DEF Shed, FeedInv, Named, OverviewIsPast
  <2>2. left' \in [DOMAIN Budget -> Nat]
    BY <1>0, <1>5, SpendOK DEF Shed, Spend
  <2> QED BY <1>5, <2>1, <2>2 DEF Shed, TypeOK, host
<1>6. CASE CancelCall
  <2>1. JobTypes'
    BY <1>0, <1>6, CancelGoesOn DEF CancelCall, FeedInv, InHand, JobsGoOn
  <2> QED BY <1>6, <2>1 DEF CancelCall, TypeOK, JobTypes
<1>7. CASE CancelUnanswered
  <2>1. JobTypes'
    BY <1>0, <1>7, CancelGoesOn, NothingMoves DEF CancelUnanswered, FeedInv, InHand, JobsGoOn
  <2>2. left' \in [DOMAIN Budget -> Nat]
    BY <1>0, <1>7, SpendOK DEF CancelUnanswered, Spend
  <2> QED BY <1>7, <2>1, <2>2 DEF CancelUnanswered, TypeOK, JobTypes
<1>8. CASE Record
  <2>1. cur \in Jobs
    BY <1>8 DEF Record, FeedInv, InHand
  <2> DEFINE s == [n \in Items |-> IF st.sent[n] = cur THEN None ELSE st.sent[n]]
             r == [st EXCEPT !.shed = @ \cup {cur}, !.sent = s]
  <2>2. s \in [Items -> Jobs \cup {None}]
    BY <1>0 DEF Record0
  <2>3. Save(r)
    BY <1>8 DEF Record
  <2>4. r \in Record0
    <3> HIDE DEF s
    <3> QED BY <1>0, <2>1, <2>2 DEF Record0
  <2> HIDE DEF r
  <2>5. st' \in Record0 /\ disk' \in Record0 /\ left' \in [DOMAIN Budget -> Nat]
    BY <1>0, <2>3, <2>4, SaveOK DEF Save
  <2>6. ov' \in [Jobs -> States \cup {"stalled"}]
    BY <1>0, <1>00, <1>8 DEF Record
  <2> QED BY <1>8, <2>5, <2>6 DEF Record, TypeOK, host
<1>9. CASE Scan
  <2>1. ScanBack \in SUBSET Items /\ \A n \in ScanBack : st.sent[n] # None
    BY DEF ScanBack
  <2> DEFINE new == PutBack(st, ScanBack)
  <2>2. new \in Record0 /\ Unsent(new) \subseteq Items
    BY <1>0, <2>1, PutBackOK DEF Unsent
  <2>3. /\ (ScanBack = {} /\ UNCHANGED <<st, disk, left>>) \/ Save(new)
        /\ resting' = resting \cup ScanBack
        /\ todo' = Unsent(new)
        /\ at' \in {"ended", "items"}
        /\ UNCHANGED <<host, name, checked, ov, cur>>
    BY <1>9 DEF Scan, ScanBack
  <2> HIDE DEF new
  <2>4. st' \in Record0 /\ disk' \in Record0 /\ left' \in [DOMAIN Budget -> Nat]
    BY <1>0, <2>2, <2>3, SaveOK DEF Save
  <2> QED BY <2>1, <2>2, <2>3, <2>4 DEF TypeOK, host
<1>10. ASSUME NEW n \in Items, Defer(n) PROVE TypeOK'
  <2>1. Backs(n) \in SUBSET Items /\ PutBack(st, Backs(n)) \in Record0
    BY <1>0, BacksAreSent, PutBackOK
  <2>2. st' \in Record0 /\ disk' \in Record0 /\ left' \in [DOMAIN Budget -> Nat]
    BY <1>0, <1>10, <2>1, SaveOK DEF Defer, Save
  <2> QED BY <1>10, <2>1, <2>2 DEF Defer, TypeOK, host
<1>11. ASSUME NEW n \in Items, Drop(n) PROVE TypeOK'
  <2>1. Backs(n) \in SUBSET Items /\ PutBack(st, Backs(n)) \in Record0
    BY <1>0, BacksAreSent, PutBackOK
  <2> DEFINE r == [PutBack(st, Backs(n)) EXCEPT !.dropped = @ \cup {n}]
  <2>2. r \in Record0
    BY <2>1 DEF Record0
  <2>3. Save(r)
    BY <1>11 DEF Drop
  <2> HIDE DEF r
  <2>4. st' \in Record0 /\ disk' \in Record0 /\ left' \in [DOMAIN Budget -> Nat]
    BY <1>0, <2>2, <2>3, SaveOK DEF Save
  <2> QED BY <1>11, <2>1, <2>4 DEF Drop, TypeOK, host
<1>12. ASSUME NEW n \in Items, Send(n) PROVE TypeOK'
  <2>1. PICK j \in Jobs : j = Min(FreeIds)
    BY <1>12, MinIsLeast DEF Send, FreeIds
  <2> DEFINE r == [st EXCEPT !.sent[n] = j]
  <2>2. r \in Record0
    BY <1>0 DEF Record0
  <2>3. Save(r)
    BY <1>12, <2>1 DEF Send
  <2> HIDE DEF r
  <2>4. st' \in Record0 /\ disk' \in Record0 /\ left' \in [DOMAIN Budget -> Nat]
    BY <1>0, <2>2, <2>3, SaveOK DEF Save
  <2>5. name' \in [Jobs -> Items \cup {None}] /\ cur' = j /\ name'[j] = n
    BY <1>0, <1>12, <2>1 DEF Send
  <2> QED BY <1>12, <2>4, <2>5 DEF Send, TypeOK, host
<1>13. CASE LaunchCall
  <2>1. JobTypes'
    BY <1>0, <1>13, LaunchIs DEF LaunchCall, FeedInv, InHand, Launches
  <2> QED BY <1>13, <2>1 DEF LaunchCall, TypeOK, JobTypes
<1>14. CASE LaunchRefused
  <2> DEFINE r == [st EXCEPT !.sent[name[cur]] = None]
  <2>1. r \in Record0
    BY <1>0 DEF Record0
  <2>2. SaveOn(r, Spent("refused")) /\ Spent("refused") \in [DOMAIN Budget -> Nat]
    BY <1>0, <1>14, SpendOK DEF LaunchRefused
  <2> HIDE DEF r
  <2>3. st' \in Record0 /\ disk' \in Record0 /\ left' \in [DOMAIN Budget -> Nat]
    BY <1>0, <2>1, <2>2, SaveOK
  <2> QED BY <1>14, <2>3 DEF LaunchRefused, TypeOK, host
<1>15. CASE LaunchUnclear
  <2>1. JobTypes'
    BY <1>0, <1>15, LaunchIs DEF LaunchUnclear, FeedInv, InHand, Launches, JobTypes
  <2>2. left' \in [DOMAIN Budget -> Nat]
    BY <1>0, <1>15, SpendOK DEF LaunchUnclear, Spend
  <2> QED BY <1>15, <2>1, <2>2 DEF LaunchUnclear, TypeOK, JobTypes
<1>16. CASE EndPoll
  <2>1. st' \in Record0 /\ disk' \in Record0 /\ left' \in [DOMAIN Budget -> Nat]
    BY <1>0, <1>16, SaveOK DEF EndPoll, Save
  <2> QED BY <1>00, <1>16, <2>1 DEF EndPoll, TypeOK, host
<1>17. CASE Crash
  <2>1. left' \in [DOMAIN Budget -> Nat]
    BY <1>0, <1>17, SpendOK DEF Crash, Spend
  <2> QED BY <1>00, <1>17, <2>1 DEF Crash, TypeOK, host
<1>18. CASE Relaunch
  BY <1>00, <1>18 DEF Relaunch, TypeOK, host
<1>19. CASE UNCHANGED vars
  BY <1>19 DEF vars, host, feeder, TypeOK
<1> QED
  BY <1>1, <1>2, <1>3, <1>4, <1>5, <1>6, <1>7, <1>8, <1>9, <1>10, <1>11, <1>12, <1>13, <1>14,
     <1>15, <1>16, <1>17, <1>18, <1>19 DEF Next, FeederStep

\* The types of the feeder hold in every reachable state once FeedInv does.
LEMMA Types ==
    ASSUME TypeOK
    PROVE  /\ JobTypes
           /\ name \in [Jobs -> Items \cup {None}]
           /\ st \in Record0 /\ disk \in Record0
           /\ st.sent \in [Items -> Jobs \cup {None}] /\ disk.sent \in [Items -> Jobs \cup {None}]
           /\ st.shed \subseteq Jobs /\ disk.shed \subseteq Jobs
           /\ ov \in [Jobs -> States \cup {"stalled"}]
           /\ todo \subseteq Items /\ checked \in BOOLEAN
           /\ left \in [DOMAIN Budget -> Nat] /\ left.full \in Nat
           /\ None \notin Items /\ None \notin Jobs
BY ConstantsAssumption, KindsAre DEF TypeOK, JobTypes, Record0

-----------------------------------------------------------------------------
(***************************************************************************)
(* What is known of a job is known of an item's job.                       *)
(***************************************************************************)
\* The one step that begins a job.
Begins ==
    /\ at = "launch" /\ at' = "items" /\ cur \in Jobs /\ cur' = None
    /\ Launches(cur)
    /\ UNCHANGED <<name, st, disk, checked, ov, todo>>
    /\ left'.full = left.full

\* A step moves jobs on, or begins one for the item in hand.
LEMMA JobsMove ==
    ASSUME TypeOK, InHand, [Next]_vars
    PROVE  JobsGoOn \/ Begins
<1> USE Types, KindsAre
<1>1. CASE HostStep
  BY <1>1, HostStepIs
<1>2. CASE CancelCall
  BY <1>2, CancelGoesOn DEF CancelCall, InHand
<1>3. CASE CancelUnanswered
  BY <1>3, CancelGoesOn, NothingMoves DEF CancelUnanswered, InHand
<1>4. CASE LaunchCall
  BY <1>4, LaunchIs DEF LaunchCall, Begins, InHand
<1>5. CASE LaunchUnclear
  <2>1. left'.full = left.full
    BY <1>5, SpendOK DEF LaunchUnclear, Spend
  <2>2. CASE Host!Launch(cur)
    BY <1>5, <2>1, <2>2, LaunchIs DEF LaunchUnclear, Begins, InHand
  <2>3. CASE UNCHANGED state
    BY <1>5, <2>3, NothingMoves DEF LaunchUnclear, host
  <2> QED BY <1>5, <2>2, <2>3 DEF LaunchUnclear
<1>6. CASE UNCHANGED host
  BY <1>6, NothingMoves
<1> QED
  BY <1>1, <1>2, <1>3, <1>4, <1>5, <1>6 DEF Next, FeederStep, vars, Look, Adopt, Record, Scan,
     LaunchRefused, EndPoll, Crash, Relaunch, Withdraw, Shed, Defer, Drop, Send

\* What a record calls sent was made for that item.
SentNamed(r) == \A n \in Items : r.sent[n] # None => name[r.sent[n]] = n

\* Which records the feeder may write.
LEMMA Records ==
    ASSUME TypeOK, FeedInv, [Next]_vars
    PROVE  /\ disk' \in {st', disk}
           /\ st' # st => \/ at \in {"adopt", "manage", "record", "items", "launch"}
                          \/ st' = disk
<1> USE Types, SaveOK, KindsAre
<1>1. ASSUME NEW r, Save(r) PROVE disk' \in {st', disk}
  BY <1>1 DEF Save
<1>2. CASE LaunchRefused
  BY <1>2, SpendOK DEF LaunchRefused
<1>3. ASSUME NEW n \in Items, Defer(n) \/ Drop(n) \/ Send(n) PROVE disk' \in {st', disk}
  BY <1>1, <1>3 DEF Defer, Drop, Send
<1>4. CASE Adopt \/ Record \/ Scan \/ EndPoll
  BY <1>1, <1>4, AdoptIs DEF Adopt, Record, Scan, EndPoll
<1>5. ASSUME UNCHANGED <<st, disk>> PROVE disk' \in {st', disk} /\ st' = st
  BY <1>5
<1>6. CASE HostStep
  BY <1>5, <1>6, HostStepIs
<1> QED
  BY <1>1, <1>2, <1>3, <1>4, <1>5, <1>6 DEF Next, FeederStep, vars, feeder, Look, CancelCall, CancelUnanswered,
     LaunchCall, LaunchUnclear, Crash, Relaunch, Withdraw, Shed, Defer, Drop, Send, Turn,
     Adopt, Record, Scan, EndPoll, LaunchRefused

\* What an item is recorded as sent as, after a step: as before, as in the file, as
\* adopted, or as the job just made for it.
LEMMA SentIs ==
    ASSUME TypeOK, FeedInv, [Next]_vars, NEW m \in Items
    PROVE  \/ st'.sent[m] \in {None, st.sent[m], disk.sent[m]}
           \/ name' = name /\ st'.sent[m] \in Adoptable(m)
           \/ Send(m) /\ st'.sent[m] = Min(FreeIds)
<1> USE Types, KindsAre, SaveOK DEF Save
<1>1. CASE HostStep
  BY <1>1, HostStepIs
<1>2. CASE Adopt
  <2>1. PICK s \in [Items -> Jobs \cup {None}] :
              /\ \A n \in Items : \/ Adopted(n) = {} /\ s[n] = None
                                  \/ s[n] \in Adopted(n)
              /\ \/ s = st.sent /\ UNCHANGED <<st, disk, left>>
                 \/ Save([st EXCEPT !.sent = s])
    BY <1>2, AdoptIs
  <2>2. [st EXCEPT !.sent = s].sent = s
    BY SentOK
  <2>4. st'.sent = s
    BY <2>1, <2>2
  <2>3. name' = name
    BY <1>2 DEF Adopt
  <2> QED BY <2>1, <2>3, <2>4 DEF Adopted
<1>3. CASE Record
  <2>1. st' = [st EXCEPT !.shed = @ \cup {cur},
                         !.sent = [n \in Items |-> IF @[n] = cur THEN None ELSE @[n]]]
    BY <1>3 DEF Record
  <2>2. st'.sent = [n \in Items |-> IF st.sent[n] = cur THEN None ELSE st.sent[n]]
    BY <2>1 DEF Record0
  <2> QED BY <2>2
<1>4. CASE Scan
  <2>1. st' = st \/ st' = PutBack(st, ScanBack)
    BY <1>4 DEF Scan, ScanBack
  <2>2. ScanBack \in SUBSET Items /\ \A n \in ScanBack : st.sent[n] # None
    BY DEF ScanBack
  <2> QED BY <2>1, <2>2, PutBackOK
<1>5. ASSUME NEW n \in Items, Defer(n) PROVE st'.sent[m] \in {None, st.sent[m]}
  <2>1. st' = st \/ st' = PutBack(st, Backs(n))
    BY <1>5 DEF Defer
  <2> QED BY <2>1, BacksAreSent, PutBackOK
<1>6. ASSUME NEW n \in Items, Drop(n) PROVE st'.sent[m] \in {None, st.sent[m]}
  <2>1. st' = [PutBack(st, Backs(n)) EXCEPT !.dropped = @ \cup {n}]
    BY <1>6 DEF Drop
  <2>2. st'.sent = PutBack(st, Backs(n)).sent
    BY <2>1, BacksAreSent, PutBackOK DEF Record0
  <2> QED BY <2>2, BacksAreSent, PutBackOK
<1>7. ASSUME NEW n \in Items, Send(n)
      PROVE  \/ n = m /\ st'.sent[m] = Min(FreeIds)
             \/ st'.sent[m] = st.sent[m]
  <2>1. st' = [st EXCEPT !.sent[n] = Min(FreeIds)]
    BY <1>7 DEF Send
  <2> QED BY <2>1 DEF Record0
<1>8. CASE LaunchRefused
  <2>1. st' = [st EXCEPT !.sent[name[cur]] = None]
    BY <1>8, SpendOK DEF LaunchRefused
  <2> QED BY <2>1 DEF Record0
<1>9. CASE EndPoll
  BY <1>9 DEF EndPoll
<1>10. CASE Crash \/ Relaunch
  BY <1>10 DEF Crash, Relaunch
<1>11. CASE UNCHANGED st
  BY <1>11
<1> QED
  BY <1>1, <1>2, <1>3, <1>4, <1>5, <1>6, <1>7, <1>8, <1>9, <1>10, <1>11 DEF Next, FeederStep, vars, feeder, Look,
     CancelCall, CancelUnanswered, LaunchCall, LaunchUnclear, Withdraw, Shed

\* Only Send names a job: the first that had no name.
LEMMA NamesAre ==
    ASSUME TypeOK, InHand, [Next]_vars, name' # name
    PROVE  \E n \in Items, j \in Jobs :
              /\ Send(n) /\ j = Min(FreeIds) /\ cur' = j
              /\ name[j] = None /\ name' = [name EXCEPT ![j] = n]
              /\ \A k \in Jobs : k < j => name[k] # None
<1>1. \E n \in Items : Send(n)
  BY HostStepIs DEF Next, FeederStep, vars, feeder, Look, Adopt, Record, Scan,
     LaunchRefused, EndPoll, Crash, Relaunch, Withdraw, Shed, Defer, Drop, CancelCall,
     CancelUnanswered, LaunchCall, LaunchUnclear
<1>2. PICK n \in Items : Send(n)
  BY <1>1
<1>3. FreeIds # {} /\ FreeIds \in SUBSET Jobs
  BY <1>2 DEF Send, FreeIds
<1>4. PICK j \in Jobs : j = Min(FreeIds) /\ j \in FreeIds /\ \A k \in FreeIds : j <= k
  BY <1>3, MinIsLeast
<1>5. \A k \in Jobs : k < j => name[k] # None
  BY <1>4, ConstantsAssumption DEF FreeIds
<1> QED BY <1>2, <1>4, <1>5 DEF Send, FreeIds

\* Every step keeps the names of the records.
LEMMA NextNamed ==
    ASSUME TypeOK, FeedInv, [Next]_vars
    PROVE  Named'
<1> USE Types
<1>0. Named /\ InHand /\ SentNamed(st) /\ SentNamed(disk)
  BY DEF FeedInv, Named, SentNamed
<1>1. CASE name' = name
  <2>1. \A i, k \in Jobs : i < k /\ name'[k] # None => name'[i] # None
    BY <1>0, <1>1 DEF Named
  <2>2. \A j \in Jobs : state'[j] # "none" => name'[j] # None
    <3>1. CASE JobsGoOn
      <4> SUFFICES ASSUME NEW j \in Jobs, state'[j] # "none" PROVE state[j] # "none"
        BY <1>0, <1>1 DEF Named
      <4> QED BY <3>1, Words DEF JobsGoOn, Moves
    <3>2. CASE Begins
      <4>1. name[cur] # None
        BY <3>2 DEF TypeOK, Begins
      <4> QED BY <1>0, <1>1, <3>2, <4>1 DEF Begins, Launches, Named, JobTypes
    <3> QED BY <1>0, <3>1, <3>2, JobsMove
  <2>3. \A n \in Items : st'.sent[n] # None => name'[st'.sent[n]] = n
    <3> SUFFICES ASSUME NEW m \in Items, st'.sent[m] # None PROVE name[st'.sent[m]] = m
      BY <1>1
    <3>1. CASE Send(m)
      <4>1. FreeIds # {} /\ FreeIds \in SUBSET Jobs
        BY <3>1 DEF Send, FreeIds
      <4>2. Min(FreeIds) \in Jobs /\ name[Min(FreeIds)] = None
        BY <4>1, MinIsLeast DEF FreeIds
      <4>3. name'[Min(FreeIds)] = m
        BY <3>1, <4>2 DEF Send
      <4> QED BY <1>1, <4>2, <4>3
    <3>2. CASE ~Send(m)
      BY <1>0, <3>2, SentIs DEF SentNamed, Adoptable, JobsOf
    <3> QED BY <3>1, <3>2
  <2>4. disk' \in {st', disk}
    BY Records
  <2> QED BY <1>0, <1>1, <2>1, <2>2, <2>3, <2>4 DEF Named, SentNamed
<1>2. CASE name' # name
  <2>1. PICK n \in Items, j \in Jobs :
              /\ Send(n) /\ j = Min(FreeIds) /\ cur' = j
              /\ name[j] = None /\ name' = [name EXCEPT ![j] = n]
              /\ \A k \in Jobs : k < j => name[k] # None
    BY <1>0, <1>2, NamesAre
  <2>2. st' = [st EXCEPT !.sent[n] = j] /\ disk' \in {st', disk} /\ state' = state
    BY <2>1, SaveOK DEF Send, Save, host
  <2>3. \A i \in Jobs : name'[i] = IF i = j THEN n ELSE name[i]
    BY <2>1
  <2>4. \A i \in Items : st'.sent[i] = IF i = n THEN j ELSE st.sent[i]
    BY <2>2 DEF Record0
  <2>5. \A i, k \in Jobs : i < k /\ name'[k] # None => name'[i] # None
    BY <1>0, <2>1, <2>3, ConstantsAssumption DEF Named
  <2>6. \A i \in Jobs : state'[i] # "none" => name'[i] # None
    BY <1>0, <2>2, <2>3 DEF Named
  <2>7. \A i \in Items : st'.sent[i] # None => name'[st'.sent[i]] = i
    BY <1>0, <2>1, <2>3, <2>4 DEF SentNamed
  <2>8. \A i \in Items : disk'.sent[i] # None => name'[disk'.sent[i]] = i
    <3>1. CASE disk' = st'
      BY <2>7, <3>1
    <3>2. CASE disk' = disk
      BY <1>0, <2>1, <2>3, <3>2 DEF SentNamed
    <3> QED BY <2>2, <3>1, <3>2
  <2> QED BY <2>5, <2>6, <2>7, <2>8 DEF Named
<1> QED BY <1>1, <1>2

\* The overview is kept, taken anew, or thrown away.
LEMMA OverviewIs ==
    ASSUME TypeOK, [Next]_vars
    PROVE  \/ ov' = ov /\ (at' = "adopt" => at = "adopt")
           \/ ov' = View /\ UNCHANGED host
           \/ ov' = NoView /\ at' # "adopt"
<1>1. CASE HostStep
  BY <1>1, HostStepIs
<1>2. CASE Look \/ Record
  BY <1>2 DEF Look, Record
<1>3. CASE EndPoll \/ Crash \/ Relaunch
  BY <1>3 DEF EndPoll, Crash, Relaunch
<1> QED
  BY <1>1, <1>2, <1>3 DEF Next, FeederStep, vars, feeder, Adopt, Scan, LaunchRefused, Withdraw, Shed,
     Defer, Drop, Send, CancelCall, CancelUnanswered, LaunchCall, LaunchUnclear

\* Every step keeps the overview in the past of the jobs.
LEMMA NextOverview ==
    ASSUME TypeOK, FeedInv, [Next]_vars
    PROVE  OverviewIsPast'
<1> USE Types, Words
<1>0. OverviewIsPast /\ InHand
  BY DEF FeedInv
<1>1. CASE ov' = ov /\ (at' = "adopt" => at = "adopt")
  <2>1. CASE JobsGoOn
    BY <1>0, <1>1, <2>1 DEF OverviewIsPast, JobsGoOn, Moves
  <2>2. CASE Begins
    BY <1>0, <1>1, <2>2 DEF OverviewIsPast, Begins, Launches, JobTypes
  <2> QED BY <1>0, <2>1, <2>2, JobsMove
<1>2. CASE ov' = View /\ UNCHANGED host
  BY <1>2, ViewIs DEF OverviewIsPast, host
<1>3. CASE ov' = NoView /\ at' # "adopt"
  BY <1>3 DEF OverviewIsPast, NoView
<1> QED BY <1>1, <1>2, <1>3, OverviewIs

\* Nobody begins to want a job that goes on.
LEMMA WantedBefore ==
    ASSUME JobsGoOn, NEW j \in Jobs
    PROVE  /\ Wanted(j)' => Wanted(j)
           /\ state[j] = "none" => state'[j] = "none"
           /\ state[j] # "none" => state'[j] # "none"
BY Words DEF JobsGoOn, Moves, Wanted

\* Every step keeps the item in hand and its job.
LEMMA NextInHand ==
    ASSUME TypeOK, FeedInv, [Next]_vars
    PROVE  InHand'
<1> USE Types, Words
<1>0. Named /\ OverviewIsPast /\ InHand
  BY DEF FeedInv
<1>1. CASE JobsGoOn /\ UNCHANGED <<name, at, st, ov, cur>>
  <2>1. CASE at \in {"calling", "record"}
    BY <1>0, <1>1, <2>1, WantedBefore DEF InHand
  <2>2. CASE at = "launch"
    BY <1>0, <1>1, <2>2, WantedBefore DEF InHand
  <2> QED BY <1>1, <2>1, <2>2 DEF InHand
<1>2. ASSUME NEW j \in Jobs, Withdraw(j) \/ Shed(j) PROVE InHand'
  BY <1>2 DEF Withdraw, Shed, InHand
<1>3. CASE CancelCall
  BY <1>0, <1>3, CancelGoesOn DEF CancelCall, InHand
<1>4. ASSUME NEW n \in Items, Send(n) PROVE InHand'
  <2>1. FreeIds # {} /\ FreeIds \in SUBSET Jobs
    BY <1>4 DEF Send, FreeIds
  <2>2. PICK j \in Jobs : j = Min(FreeIds) /\ j \in FreeIds /\ \A k \in FreeIds : j <= k
    BY <2>1, MinIsLeast
  <2>3. name' = [name EXCEPT ![j] = n] /\ st' = [st EXCEPT !.sent[n] = j] /\ cur' = j
        /\ at' = "launch" /\ state' = state
    BY <1>4, <2>2, SaveOK DEF Send, Save, host
  <2>4. st'.sent[n] = j /\ name'[j] = n
    BY <2>3 DEF Record0
  <2>5. state[j] = "none" /\ \A k \in Jobs : k > j => name[k] = None
    BY <1>0, <2>2, ConstantsAssumption DEF Named, FreeIds
  <2> QED BY <2>3, <2>4, <2>5, ConstantsAssumption DEF InHand
<1>5. CASE at' \notin {"calling", "record", "launch"}
  BY <1>5 DEF InHand
<1>6. CASE HostStep
  BY <1>1, <1>6, HostStepIs
<1>7. CASE UNCHANGED vars
  BY <1>1, <1>7, NothingMoves DEF vars, feeder
<1> QED
  BY <1>2, <1>3, <1>4, <1>5, <1>6, <1>7 DEF Next, FeederStep, Look, Adopt, Record, Scan, LaunchRefused,
     EndPoll, Crash, Relaunch, Defer, Drop, Turn, CancelUnanswered, LaunchCall, LaunchUnclear

\* The three together.
LEMMA NextFeedInv ==
    ASSUME TypeOK, FeedInv, [Next]_vars
    PROVE  TypeOK' /\ FeedInv'
BY NextTypeOK, NextNamed, NextOverview, NextInHand DEF FeedInv

\* The types: whatever its steps and the host's, the feeder has a job made for an item in hand,
\* and its two records and the overview speak of jobs and items.
THEOREM FeedTypeCorrect == Spec => []TypeOK
<1>1. Init => TypeOK /\ FeedInv
  BY InitTypeOK
<1>2. (TypeOK /\ FeedInv) /\ [Next]_vars => (TypeOK /\ FeedInv)'
  BY NextFeedInv
<1> QED BY <1>1, <1>2, PTL DEF Spec

-----------------------------------------------------------------------------
(***************************************************************************)
(* One wanted job of an item, as long as no more than one save fails.      *)
(***************************************************************************)
Known == TypeOK /\ FeedInv /\ OneJobInv

\* The job that is recorded and about to be launched.
InFlight(j) == at = "launch" /\ j = cur

\* Only what Send takes in hand comes in flight; what is in flight may begin.
LEMMA InFlightBefore ==
    ASSUME TypeOK, InHand, [Next]_vars, NEW j \in Jobs
    PROVE  /\ Wanted(j)' => Wanted(j) \/ InFlight(j)
           /\ state'[j] \in Host!Active => state[j] \in Host!Active \/ InFlight(j)
           /\ InFlight(j)' => InFlight(j) \/ \E n \in Items : Send(n)
<1> USE Types, Words
<1> DEFINE Q == /\ Wanted(j)' => Wanted(j) \/ InFlight(j)
                /\ state'[j] \in Host!Active => state[j] \in Host!Active \/ InFlight(j)
<1>1. ASSUME JobsGoOn PROVE Q
  BY <1>1 DEF JobsGoOn, Moves, Wanted
<1>2. ASSUME Begins PROVE Q
  BY <1>2 DEF Begins, Launches, Wanted, InFlight, JobTypes
<1>3. InFlight(j)' => InFlight(j) \/ \E n \in Items : Send(n)
  <2>1. CASE HostStep
    BY <2>1, HostStepIs DEF InFlight
  <2>2. CASE at' # "launch"
    BY <2>2 DEF InFlight
  <2> QED
    BY <2>1, <2>2 DEF InFlight, Next, FeederStep, vars, feeder, Look, Adopt, Record, Scan, LaunchRefused,
       EndPoll, Crash, Relaunch, Defer, Drop, Turn, CancelCall, CancelUnanswered, LaunchCall,
       LaunchUnclear, Withdraw, Shed
<1> QED BY <1>1, <1>2, <1>3, JobsMove

\* A save fails once at most.
LEMMA NextOneBehind ==
    ASSUME TypeOK, OneBehind, FeedInv, [Next]_vars
    PROVE  /\ OneBehind'
           /\ st' = disk \/ disk' = st' \/ (disk' = disk /\ st = disk) \/ UNCHANGED <<st, disk>>
<1> DEFINE Q == /\ OneBehind'
                /\ st' = disk \/ disk' = st' \/ (disk' = disk /\ st = disk) \/ UNCHANGED <<st, disk>>
<1>0. left.full \in Nat /\ left.full <= 1 /\ (disk # st => left.full = 0)
  BY Types DEF OneBehind
<1>1. ASSUME NEW r, NEW b \in [DOMAIN Budget -> Nat], b.full = left.full, SaveOn(r, b) PROVE Q
  <2>1. /\ disk' \in {st', disk}
        /\ \/ disk' = st' /\ left'.full = left.full
           \/ left.full > 0 /\ disk' = disk /\ left'.full = left.full - 1
    <3>1. /\ st' = r /\ disk' \in {r, disk}
          /\ \/ disk' = r /\ left'.full = b.full
             \/ b.full > 0 /\ disk' = disk /\ left'.full = b.full - 1
      BY <1>1, SaveOK
    <3> QED BY <1>1, <3>1
  <2>2. CASE disk' = st' /\ left'.full = left.full
    BY <1>0, <2>2 DEF OneBehind
  <2>3. CASE left.full > 0 /\ disk' = disk /\ left'.full = left.full - 1
    <3>1. left.full = 1
      BY <1>0, <2>3
    <3>2. disk = st
      BY <1>0, <3>1
    <3>3. left'.full = 0
      BY <2>3, <3>1
    <3>4. OneBehind'
      BY <3>3 DEF OneBehind
    <3> QED BY <2>3, <3>2, <3>4
  <2> QED BY <2>1, <2>2, <2>3
<1>2. ASSUME UNCHANGED <<st, disk>> \/ (st' = disk /\ disk' = disk), left'.full = left.full PROVE Q
  BY <1>0, <1>2 DEF OneBehind
<1>3. ASSUME NEW k \in DOMAIN Budget \ {"any", "full"}, Spend(k) PROVE left'.full = left.full
  BY <1>3, SpendOK, Types DEF Spend
<1> SUFFICES Q
  OBVIOUS
<1> USE Types, KindsAre
<1> HIDE DEF Q
<1>4. CASE HostStep
  BY <1>2, <1>4, HostStepIs
<1>5. CASE Adopt \/ Record \/ Scan \/ EndPoll
  BY <1>1, <1>2, <1>5, AdoptIs DEF Adopt, Record, Scan, EndPoll, Save
<1>6. CASE LaunchRefused
  BY <1>1, <1>6, SpendOK DEF LaunchRefused
<1>7. ASSUME NEW n \in Items, Defer(n) \/ Drop(n) \/ Send(n) PROVE Q
  BY <1>1, <1>2, <1>7 DEF Defer, Drop, Send, Save
<1>8. CASE Crash \/ Relaunch
  BY <1>2, <1>3, <1>8 DEF Crash, Relaunch
<1>9. CASE Look \/ CancelCall \/ LaunchCall \/ UNCHANGED vars
  BY <1>2, <1>9 DEF Look, CancelCall, LaunchCall, vars, feeder
<1>10. CASE CancelUnanswered \/ LaunchUnclear
  BY <1>2, <1>3, <1>10 DEF CancelUnanswered, LaunchUnclear
<1>11. ASSUME NEW j \in Jobs, Withdraw(j) \/ Shed(j) PROVE Q
  BY <1>2, <1>3, <1>11 DEF Withdraw, Shed
<1> QED BY <1>4, <1>5, <1>6, <1>7, <1>8, <1>9, <1>10, <1>11 DEF Next, FeederStep

\* Jobs the feeder puts back have ended badly, or are lost.
LEMMA BacksAreBad ==
    ASSUME TypeOK, FeedInv, NEW d \in Items, st.sent[d] # None, ov[st.sent[d]] \in Bad
    PROVE  ~Wanted(st.sent[d]) /\ state[st.sent[d]] # "done"
BY Types, Words DEF Bad, FeedInv, OverviewIsPast, Wanted

\* A dependency is put back only when the overview shows its job ended badly.
LEMMA BacksOverview ==
    ASSUME TypeOK, NEW n \in Items, NEW d \in Backs(n)
    PROVE  ov[st.sent[d]] \in Bad
BY ConstantsAssumption DEF Backs, BadDeps, GoesBack, ItemState

\* What a record must not forget: a job that is wanted, and one that is done and was not under way in
\* the overview.
Stays(j) == Wanted(j) \/ (state[j] = "done" /\ ov[j] \in {"none", "done"})

\* A wanted job, or one that is done and not seen otherwise, stays on record while the feeder lives.
LEMMA StaysSent ==
    ASSUME TypeOK, FeedInv, Unwanted, [Next]_vars, ~Crash, ~Relaunch,
           NEW m \in Items, st.sent[m] # None, Stays(st.sent[m])
    PROVE  st'.sent[m] = st.sent[m]
<1> USE Types, KindsAre, SaveOK DEF Save
<1>0. state[st.sent[m]] # "none" /\ ov[st.sent[m]] \notin Bad
  BY BacksAreBad, Words DEF Stays, Wanted, Bad
<1>1. CASE HostStep
  BY <1>1, HostStepIs
<1>2. CASE Adopt
  <2>1. PICK s \in [Items -> Jobs \cup {None}] :
              /\ \A n \in Items : \/ Adopted(n) = {} /\ s[n] = None
                                  \/ s[n] \in Adopted(n)
              /\ \/ s = st.sent /\ UNCHANGED <<st, disk, left>>
                 \/ Save([st EXCEPT !.sent = s])
    BY <1>2, AdoptIs
  <2>2. [st EXCEPT !.sent = s].sent = s
    BY SentOK
  <2>3. st'.sent = s
    BY <2>1, <2>2
  <2>4. Adopted(m) = {st.sent[m]}
    BY <1>0 DEF Adopted, Orphans
  <2> QED BY <2>1, <2>3, <2>4
<1>3. CASE Record
  <2>1. st' = [st EXCEPT !.shed = @ \cup {cur},
                         !.sent = [n \in Items |-> IF @[n] = cur THEN None ELSE @[n]]]
    BY <1>3 DEF Record
  <2>2. st'.sent = [n \in Items |-> IF st.sent[n] = cur THEN None ELSE st.sent[n]]
    BY <2>1 DEF Record0
  <2>3. st.sent[m] # cur
    BY <1>3 DEF Record, Stays, FeedInv, InHand
  <2> QED BY <2>2, <2>3
<1>4. CASE Scan
  <2>1. st' = st \/ st' = PutBack(st, ScanBack)
    BY <1>4 DEF Scan, ScanBack
  <2>2. ScanBack \in SUBSET Items /\ (\A n \in ScanBack : st.sent[n] # None) /\ m \notin ScanBack
    BY <1>0 DEF ScanBack
  <2> QED BY <2>1, <2>2, PutBackOK
<1>5. ASSUME NEW n \in Items, Defer(n) PROVE st'.sent[m] = st.sent[m]
  <2>1. st' = st \/ st' = PutBack(st, Backs(n))
    BY <1>5 DEF Defer
  <2>2. m \notin Backs(n)
    BY <1>0, BacksOverview
  <2> QED BY <2>1, <2>2, BacksAreSent, PutBackOK
<1>6. ASSUME NEW n \in Items, Drop(n) PROVE st'.sent[m] = st.sent[m]
  <2>1. st' = [PutBack(st, Backs(n)) EXCEPT !.dropped = @ \cup {n}]
    BY <1>6 DEF Drop
  <2>2. st'.sent = PutBack(st, Backs(n)).sent
    BY <2>1, BacksAreSent, PutBackOK DEF Record0
  <2>3. m \notin Backs(n)
    BY <1>0, BacksOverview
  <2> QED BY <2>2, <2>3, BacksAreSent, PutBackOK
<1>7. ASSUME NEW n \in Items, Send(n) PROVE st'.sent[m] = st.sent[m]
  <2>1. st' = [st EXCEPT !.sent[n] = Min(FreeIds)]
    BY <1>7 DEF Send
  <2>2. n # m
    BY <1>7 DEF Send, Turn, Unwanted
  <2> QED BY <2>1, <2>2 DEF Record0
<1>8. CASE LaunchRefused
  <2>1. st' = [st EXCEPT !.sent[name[cur]] = None]
    BY <1>8, SpendOK DEF LaunchRefused
  <2>2. name[cur] # m
    BY <1>0, <1>8 DEF LaunchRefused, FeedInv, InHand
  <2> QED BY <2>1, <2>2 DEF Record0
<1>9. CASE EndPoll
  BY <1>9 DEF EndPoll
<1>11. CASE UNCHANGED st
  BY <1>11
<1> QED
  BY <1>1, <1>2, <1>3, <1>4, <1>5, <1>6, <1>7, <1>8, <1>9, <1>11 DEF Next, FeederStep, vars, feeder, Look,
     CancelCall, CancelUnanswered, LaunchCall, LaunchUnclear, Withdraw, Shed

\* Max is the greatest number.
LEMMA MaxIs ==
    ASSUME NEW S \in SUBSET Jobs, NEW j \in S, \A k \in S : k <= j
    PROVE  Max(S) = j
<1>1. \A x \in S : (\A y \in S : x >= y) => x = j
  BY ConstantsAssumption
<1>2. \A y \in S : j >= y
  BY ConstantsAssumption
<1> QED BY <1>1, <1>2 DEF Max

\* A feeder that looks for orphans finds a wanted job again, or has it on file.
LEMMA AdoptsWanted ==
    ASSUME Known, Adopt, NEW j \in Jobs, Wanted(j)
    PROVE  st'.sent[name[j]] = j
<1> USE Types, Words DEF Known
<1> DEFINE n == name[j]
<1>1. /\ FeedInv /\ Recorded /\ OnDisk /\ Unwanted
      /\ n \in Items /\ state[j] \in Host!Active
  BY DEF OneJobInv, FeedInv, Named, Wanted
<1>2. PICK s \in [Items -> Jobs \cup {None}] :
            /\ \A m \in Items : \/ Adopted(m) = {} /\ s[m] = None
                                \/ s[m] \in Adopted(m)
            /\ \/ s = st.sent /\ UNCHANGED <<st, disk, left>>
               \/ Save([st EXCEPT !.sent = s])
  BY AdoptIs
<1>3. [st EXCEPT !.sent = s].sent = s
  BY SentOK
<1>4. st'.sent = s
  BY <1>2, <1>3, SaveOK DEF Save
<1>5. CASE st.sent[n] = j
  <2>1. Adopted(n) = {j}
    BY <1>1, <1>5 DEF Adopted, Orphans
  <2> QED BY <1>1, <1>2, <1>4, <2>1
<1>6. CASE st.sent[n] # j
  <2>1. ~checked /\ st = disk
    BY <1>1, <1>6 DEF Recorded
  <2>2. st.sent[n] = None /\ n \notin st.dropped
    BY <1>1, <1>6, <2>1 DEF OnDisk
  <2>3. ov[j] # "none" /\ ov[j] \notin {"failed", "cancelled", "error"}
    BY <1>1 DEF Adopt, FeedInv, OverviewIsPast
  <2>4. j \notin st.shed
    BY <1>1 DEF Unwanted
  <2>5. j \in JobsOf(n) /\ JobsOf(n) \in SUBSET Jobs
    BY <2>3 DEF JobsOf
  <2>6. ASSUME NEW k \in JobsOf(n) PROVE k <= j
    <3>1. name[k] = name[j] /\ state[k] # "none" /\ k \in Jobs
      BY <1>1 DEF JobsOf, FeedInv, OverviewIsPast
    <3>2. ~(k > j)
      BY <1>1, <3>1 DEF Unwanted
    <3> QED BY <3>1, <3>2, ConstantsAssumption
  <2>7. Max(JobsOf(n)) = j
    BY <2>5, <2>6, MaxIs
  <2>8. Adoptable(n) = {j}
    BY <2>3, <2>4, <2>5, <2>7 DEF Adoptable
  <2>9. Adopted(n) = {j}
    BY <2>2, <2>8 DEF Adopted
  <2> QED BY <1>1, <1>2, <1>4, <2>9
<1> QED BY <1>5, <1>6

\* Every step keeps wanted jobs on record, from adoption on.
LEMMA NextRecorded ==
    ASSUME Known, [Next]_vars
    PROVE  Recorded'
<1> USE Types, Words DEF Known, OneJobInv
<1>0. TypeOK /\ FeedInv /\ Recorded /\ Unwanted /\ InHand /\ Named
  BY DEF FeedInv
<1>1. CASE Crash \/ Relaunch
  BY <1>1 DEF Crash, Relaunch, Recorded
<1>2. CASE Adopt
  BY <1>2, AdoptsWanted, WantedBefore, NothingMoves DEF Adopt, Recorded, host, Wanted
<1>3. CASE ~Crash /\ ~Relaunch /\ ~Adopt
  <2>1. /\ checked' = checked
        /\ at \in {"poll", "adopt", "down"} => at' \in {"poll", "adopt", "down"} /\ UNCHANGED <<st, disk>>
    BY <1>3, HostStepIs DEF Next, FeederStep, vars, feeder, Look, Record, Scan, LaunchRefused,
       EndPoll, Defer, Drop, Send, Turn, CancelCall, CancelUnanswered, LaunchCall, LaunchUnclear,
       Withdraw, Shed
  <2>2. at' \notin {"poll", "adopt", "down"} => checked'
    BY <1>0, <2>1 DEF Recorded
  <2>3. ~checked' => st' = disk'
    BY <1>0, <2>1 DEF Recorded
  <2>4. ASSUME checked', NEW j \in Jobs, Wanted(j)' PROVE st'.sent[name'[j]] = j
    <3>1. Wanted(j) \/ InFlight(j)
      BY <1>0, <2>4, InFlightBefore
    <3>2. CASE Wanted(j)
      <4>1. name[j] \in Items /\ st.sent[name[j]] = j
        BY <1>0, <2>1, <2>4, <3>2 DEF Recorded, Named, Wanted
      <4>2. st'.sent[name[j]] = j
        BY <1>0, <1>3, <3>2, <4>1, StaysSent DEF Stays
      <4>3. name'[j] = name[j]
        BY <1>0, <4>1, NamesAre
      <4> QED BY <4>2, <4>3
    <3>3. CASE InFlight(j) /\ ~Wanted(j)
      <4>1. Begins
        BY <1>0, <2>4, <3>3, JobsMove, WantedBefore
      <4> QED BY <1>0, <3>3, <4>1 DEF Begins, InFlight, InHand
    <3> QED BY <3>1, <3>2, <3>3
  <2> QED BY <2>2, <2>3, <2>4 DEF Recorded
<1> QED BY <1>1, <1>2, <1>3

\* Which items the feeder drops, and which jobs it takes back.
LEMMA DropsAre ==
    ASSUME TypeOK, FeedInv, [Next]_vars
    PROVE  /\ \/ st'.dropped \in {st.dropped, disk.dropped}
              \/ \E n \in Items : Drop(n) /\ st'.dropped = st.dropped \cup {n}
           /\ st'.shed \in {st.shed, disk.shed} \/ (Record /\ st'.shed = st.shed \cup {cur})
<1> USE Types, KindsAre, SaveOK DEF Save
<1> DEFINE Q == /\ \/ st'.dropped \in {st.dropped, disk.dropped}
                   \/ \E n \in Items : Drop(n) /\ st'.dropped = st.dropped \cup {n}
                /\ st'.shed \in {st.shed, disk.shed} \/ (Record /\ st'.shed = st.shed \cup {cur})
<1> SUFFICES Q
  OBVIOUS
<1>1. ASSUME st' \in {st, disk} PROVE Q
  BY <1>1
<1>2. ASSUME st'.dropped = st.dropped, st'.shed = st.shed PROVE Q
  BY <1>2
<1>3. ASSUME Record PROVE Q
  <2>1. st' = [st EXCEPT !.shed = @ \cup {cur},
                         !.sent = [n \in Items |-> IF @[n] = cur THEN None ELSE @[n]]]
    BY <1>3 DEF Record
  <2>2. st'.shed = st.shed \cup {cur} /\ st'.dropped = st.dropped
    BY <2>1 DEF Record0
  <2> QED BY <1>3, <2>2
<1>4. ASSUME NEW n \in Items, Drop(n) PROVE Q
  <2>1. st' = [PutBack(st, Backs(n)) EXCEPT !.dropped = @ \cup {n}]
    BY <1>4 DEF Drop
  <2>2. st'.shed = st.shed /\ st'.dropped = st.dropped \cup {n}
    BY <2>1, BacksAreSent, PutBackOK DEF Record0
  <2> QED BY <1>4, <2>2
<1> HIDE DEF Q
<1>5. CASE HostStep
  BY <1>1, <1>5, HostStepIs
<1>6. CASE Adopt
  <2>1. PICK s \in [Items -> Jobs \cup {None}] :
              \/ s = st.sent /\ UNCHANGED <<st, disk, left>>
              \/ Save([st EXCEPT !.sent = s])
    BY <1>6, AdoptIs
  <2>2. st' = st \/ st' = [st EXCEPT !.sent = s]
    BY <2>1
  <2>3. [st EXCEPT !.sent = s].dropped = st.dropped /\ [st EXCEPT !.sent = s].shed = st.shed
    BY SentOK
  <2> QED BY <1>1, <1>2, <2>2, <2>3
<1>7. CASE Scan
  <2>1. st' = st \/ st' = PutBack(st, ScanBack)
    BY <1>7 DEF Scan, ScanBack
  <2>2. ScanBack \in SUBSET Items /\ \A n \in ScanBack : st.sent[n] # None
    BY DEF ScanBack
  <2> QED BY <1>1, <1>2, <2>1, <2>2, PutBackOK
<1>8. ASSUME NEW n \in Items, Defer(n) PROVE Q
  <2>1. st' = st \/ st' = PutBack(st, Backs(n))
    BY <1>8 DEF Defer
  <2> QED BY <1>1, <1>2, <2>1, BacksAreSent, PutBackOK
<1>9. ASSUME NEW n \in Items, Send(n) PROVE Q
  <2>1. st' = [st EXCEPT !.sent[n] = Min(FreeIds)]
    BY <1>9 DEF Send
  <2> QED BY <1>2, <2>1 DEF Record0
<1>10. CASE LaunchRefused
  <2>1. st' = [st EXCEPT !.sent[name[cur]] = None]
    BY <1>10, SpendOK DEF LaunchRefused
  <2> QED BY <1>2, <2>1 DEF Record0
<1>11. CASE EndPoll
  BY <1>1, <1>11 DEF EndPoll
<1>12. CASE Crash \/ Relaunch
  BY <1>1, <1>12 DEF Crash, Relaunch
<1>13. CASE UNCHANGED st
  BY <1>1, <1>13
<1> QED
  BY <1>3, <1>4, <1>5, <1>6, <1>7, <1>8, <1>9, <1>10, <1>11, <1>12, <1>13 DEF Next, FeederStep,
     vars, feeder, Look, CancelCall, CancelUnanswered, LaunchCall, LaunchUnclear, Withdraw, Shed

\* Items still to be looked at are unsent.
LEMMA NextTodo ==
    ASSUME Known, [Next]_vars, at' \in {"items", "launch"}, NEW m \in todo'
    PROVE  st'.sent[m] = None /\ m \notin st'.dropped
<1> USE Types, KindsAre, SaveOK DEF Known, Save
<1>0. /\ FeedInv
      /\ at \in {"items", "launch"} => \A n \in todo : st.sent[n] = None /\ n \notin st.dropped
  BY DEF OneJobInv, Unwanted
<1>1. ASSUME UNCHANGED <<st, todo>>, at \in {"items", "launch"}
      PROVE  st'.sent[m] = None /\ m \notin st'.dropped
  BY <1>0, <1>1
<1>2. CASE Scan
  <2> DEFINE new == PutBack(st, ScanBack)
  <2>1. ScanBack \in SUBSET Items /\ \A n \in ScanBack : st.sent[n] # None
    BY DEF ScanBack
  <2>2. /\ new.dropped = st.dropped
        /\ \A n \in Items : new.sent[n] = IF n \in ScanBack THEN None ELSE st.sent[n]
    BY <2>1, PutBackOK
  <2>3. /\ (ScanBack = {} /\ st' = st) \/ st' = new
        /\ todo' = Unsent(new)
    BY <1>2 DEF Scan, ScanBack
  <2>4. m \in Items /\ new.sent[m] = None /\ m \notin new.dropped
    BY <2>3 DEF Unsent
  <2> HIDE DEF new
  <2> QED BY <2>2, <2>3, <2>4
<1>3. ASSUME NEW n \in Items, Defer(n) \/ Drop(n) \/ Send(n)
      PROVE  st'.sent[m] = None /\ m \notin st'.dropped
  <2>1. at = "items" /\ todo' = todo \ {n}
    BY <1>3 DEF Defer, Drop, Send, Turn
  <2>2. m # n /\ m \in Items /\ st.sent[m] = None /\ m \notin st.dropped
    BY <1>0, <2>1
  <2>3. CASE Send(n)
    <3>1. st' = [st EXCEPT !.sent[n] = Min(FreeIds)]
      BY <2>3 DEF Send
    <3> QED BY <2>2, <3>1 DEF Record0
  <2>4. CASE Defer(n)
    <3>1. st' = st \/ st' = PutBack(st, Backs(n))
      BY <2>4 DEF Defer
    <3> QED BY <2>2, <3>1, BacksAreSent, PutBackOK
  <2>5. CASE Drop(n)
    <3>1. st' = [PutBack(st, Backs(n)) EXCEPT !.dropped = @ \cup {n}]
      BY <2>5 DEF Drop
    <3>2. st'.sent = PutBack(st, Backs(n)).sent /\ st'.dropped = st.dropped \cup {n}
      BY <3>1, BacksAreSent, PutBackOK DEF Record0
    <3> QED BY <2>2, <3>2, BacksAreSent, PutBackOK
  <2> QED BY <1>3, <2>3, <2>4, <2>5
<1>4. CASE LaunchRefused
  <2>1. st' = [st EXCEPT !.sent[name[cur]] = None] /\ at = "launch" /\ todo' = todo
    BY <1>4, SpendOK DEF LaunchRefused
  <2> QED BY <1>0, <2>1 DEF Record0
<1>5. CASE HostStep
  BY <1>1, <1>5, HostStepIs
<1>6. CASE UNCHANGED vars
  BY <1>1, <1>6 DEF vars, feeder
<1>7. CASE LaunchCall \/ LaunchUnclear
  BY <1>1, <1>7 DEF LaunchCall, LaunchUnclear
<1> QED
  BY <1>2, <1>3, <1>4, <1>5, <1>6, <1>7 DEF Next, FeederStep, Look, Adopt, Record,
     EndPoll, Crash, Relaunch, CancelCall, CancelUnanswered, Withdraw, Shed

\* A save fails only while the file is as the state is.
LEMMA OneBehindSave ==
    ASSUME TypeOK, OneBehind, NEW r, Save(r), disk' # r
    PROVE  disk' = disk /\ disk = st
<1>1. disk' = disk /\ left.full > 0
  BY Types, SaveOK DEF Save
<1>2. left.full # 0
  BY <1>1, Types
<1> QED BY <1>1, <1>2 DEF OneBehind

\* Every step keeps what is to do unsent, what was shed unwanted, and a wanted job its item's last.
LEMMA NextUnwanted ==
    ASSUME Known, [Next]_vars
    PROVE  Unwanted'
<1> USE Types, Words DEF Known, OneJobInv
<1>0. TypeOK /\ FeedInv /\ Recorded /\ Unwanted /\ InHand /\ Named /\ OverviewIsPast
  BY DEF FeedInv
<1>1. at' \in {"items", "launch"} => \A n \in todo' : st'.sent[n] = None /\ n \notin st'.dropped
  BY NextTodo
<1>2. ASSUME NEW j \in st'.shed \cup disk'.shed PROVE ~Wanted(j)' /\ state'[j] # "none"
  <2>1. j \in st.shed \cup disk.shed \/ (Record /\ j = cur)
    BY <1>0, Records, DropsAre
  <2>2. j \in Jobs /\ ~Wanted(j) /\ state[j] # "none"
    BY <1>0, <2>1 DEF Unwanted, Record, InHand, OverviewIsPast
  <2>3. ~InFlight(j)
    BY <1>0, <2>2 DEF InFlight, InHand
  <2>4. ~Wanted(j)'
    BY <1>0, <2>2, <2>3, InFlightBefore
  <2>5. state'[j] # "none"
    BY <1>0, <2>2, JobsMove, WantedBefore DEF Begins, Launches, JobTypes
  <2> QED BY <2>4, <2>5
<1>3. ASSUME NEW j \in Jobs, NEW k \in Jobs, Wanted(j)', k > j, name'[k] = name'[j]
      PROVE  state'[k] = "none"
  <2>1. Wanted(j) \/ InFlight(j)
    BY <1>0, <1>3, InFlightBefore
  <2>2. name[j] # None /\ name[j] \in Items
    BY <1>0, <2>1 DEF Named, Wanted, InFlight, InHand, TypeOK
  <2>3. CASE name' # name
    <3>1. PICK n \in Items, i \in Jobs :
                /\ Send(n) /\ name[i] = None /\ name' = [name EXCEPT ![i] = n]
      BY <1>0, <2>3, NamesAre
    <3>2. state' = state /\ i # j /\ at = "items" /\ state[i] = "none"
      BY <1>0, <2>2, <3>1 DEF Send, Turn, host, Named
    <3>3. name'[j] = name[j] /\ (k # i => name'[k] = name[k])
      BY <3>1, <3>2
    <3>4. Wanted(j)
      BY <2>1, <3>2 DEF InFlight
    <3>5. k = i \/ state[k] = "none"
      BY <1>0, <1>3, <3>3, <3>4 DEF Unwanted
    <3> QED BY <3>2, <3>5
  <2>4. CASE name' = name /\ Wanted(j)
    <3>1. state[k] = "none"
      BY <1>0, <1>3, <2>4 DEF Unwanted
    <3>2. CASE Begins
      <4>1. k # cur
        <5>1. st.sent[name[j]] = j
          BY <1>0, <2>4, <3>2 DEF Recorded, Begins
        <5>2. st.sent[name[cur]] = cur
          BY <1>0, <3>2 DEF InHand, Begins
        <5>3. k # j /\ name[k] = name[j]
          BY <1>3, <2>4, ConstantsAssumption
        <5> QED BY <5>1, <5>2, <5>3
      <4> QED BY <3>1, <3>2, <4>1 DEF Begins, Launches, JobTypes
    <3> QED BY <1>0, <3>1, <3>2, JobsMove, WantedBefore
  <2>5. CASE name' = name /\ ~Wanted(j)
    <3>1. at = "launch" /\ j = cur
      BY <2>1, <2>5 DEF InFlight
    <3>2. name[k] = None
      BY <1>0, <1>3, <3>1 DEF InHand
    <3> QED BY <1>3, <2>2, <2>5, <3>2
  <2> QED BY <2>3, <2>4, <2>5
<1> QED BY <1>1, <1>2, <1>3 DEF Unwanted

\* Every step keeps what the file says of a wanted job: that job or none, and not dropped.
LEMMA NextOnDisk ==
    ASSUME Known, [Next]_vars
    PROVE  OnDisk'
<1> USE Types, Words DEF Known, OneJobInv
<1>0. TypeOK /\ FeedInv /\ Recorded /\ OneBehind /\ OnDisk /\ Unwanted /\ InHand /\ Named
  BY DEF FeedInv
<1>1. TypeOK' /\ FeedInv' /\ Recorded' /\ Unwanted'
  BY NextFeedInv, NextRecorded, NextUnwanted
<1> SUFFICES ASSUME NEW j \in Jobs, Wanted(j)' \/ InFlight(j)'
             PROVE  /\ disk'.sent[name'[j]] \in {j, None}
                    /\ name'[j] \notin st'.dropped \cup disk'.dropped
  BY DEF OnDisk, InFlight
<1>2. (Wanted(j) \/ InFlight(j)) \/ \E n \in Items : Send(n)
  BY <1>0, InFlightBefore
<1>3. ASSUME Wanted(j) \/ InFlight(j)
      PROVE  /\ name[j] \in Items /\ name'[j] = name[j]
             /\ disk.sent[name[j]] \in {j, None}
             /\ name[j] \notin st.dropped \cup disk.dropped
  <2>1. name[j] \in Items
    BY <1>0, <1>3 DEF Named, Wanted, InFlight, InHand, TypeOK
  <2>2. name'[j] = name[j]
    BY <1>0, <2>1, NamesAre
  <2> QED BY <1>0, <1>3, <2>1, <2>2 DEF OnDisk, InFlight
<1>4. CASE Wanted(j) \/ InFlight(j)
  <2>1. name[j] \notin st'.dropped
    <3>1. ASSUME NEW n \in Items, Drop(n) PROVE name[j] # n
      <4>1. at = "items" /\ st.sent[n] = None
        BY <1>0, <3>1 DEF Drop, Turn, Unwanted
      <4>2. Wanted(j) /\ st.sent[name[j]] = j
        BY <1>0, <1>4, <4>1 DEF InFlight, Recorded
      <4> QED BY <4>1, <4>2, ConstantsAssumption
    <3> QED BY <1>0, <1>3, <1>4, <3>1, DropsAre
  <2>2. name[j] \notin disk'.dropped
    BY <1>0, <1>3, <1>4, <2>1, Records
  <2>3. CASE disk' = disk
    BY <1>3, <1>4, <2>1, <2>2, <2>3
  <2>4. CASE disk' = st' /\ checked'
    <3>1. CASE Wanted(j)'
      BY <1>1, <1>3, <1>4, <2>1, <2>2, <2>4, <3>1 DEF Recorded
    <3>2. CASE InFlight(j)'
      BY <1>1, <1>3, <1>4, <2>1, <2>2, <2>4, <3>2 DEF FeedInv, InHand, InFlight
    <3> QED BY <3>1, <3>2
  <2>5. CASE disk' = st' /\ ~checked'
    <3>1. at' # "launch" /\ ~Adopt
      BY <1>1, <2>5 DEF Recorded, Adopt
    <3>2. disk' = disk
      BY <1>0, <2>5, <3>1, HostStepIs DEF Next, FeederStep, vars, feeder, Look, Crash, Relaunch,
         CancelCall, CancelUnanswered, LaunchCall, LaunchUnclear, Withdraw, Shed,
         Record, Scan, LaunchRefused, EndPoll, Defer, Drop, Send, Turn, Recorded
    <3> QED BY <1>3, <1>4, <2>1, <2>2, <3>2
  <2> QED BY <1>0, <2>3, <2>4, <2>5, Records
<1>5. ASSUME NEW n \in Items, Send(n), ~Wanted(j), ~InFlight(j)
      PROVE  /\ disk'.sent[name'[j]] \in {j, None}
             /\ name'[j] \notin st'.dropped \cup disk'.dropped
  <2>1. st' = [st EXCEPT !.sent[n] = Min(FreeIds)] /\ name' = [name EXCEPT ![Min(FreeIds)] = n]
        /\ cur' = Min(FreeIds) /\ state' = state /\ asked' = asked
    BY <1>5, SaveOK DEF Send, Save, host
  <2>2. j = cur'
    BY <1>5, <2>1 DEF InFlight, Wanted
  <2>3. name'[j] = n /\ st'.sent[n] = j
    BY <2>1, <2>2 DEF Record0
  <2>4. st.sent[n] = None /\ n \notin st.dropped
    BY <1>0, <1>5 DEF Send, Turn, Unwanted
  <2>5. st'.dropped = st.dropped
    BY <2>1 DEF Record0
  <2>6. CASE disk' = st'
    BY <2>3, <2>4, <2>5, <2>6
  <2>7. CASE disk' # st'
    <3>1. disk' = disk /\ disk = st
      BY <1>0, <1>5, <2>1, <2>7, OneBehindSave DEF Send
    <3> QED BY <2>3, <2>4, <2>5, <3>1
  <2> QED BY <2>6, <2>7
<1> QED BY <1>2, <1>4, <1>5

\* Every step keeps what a job depends on done.
LEMMA NextDepsDone ==
    ASSUME Known, [Next]_vars
    PROVE  DepsDone'
<1> USE Types, Words DEF Known, OneJobInv
<1>0. TypeOK /\ FeedInv /\ Recorded /\ OneBehind /\ OnDisk /\ Unwanted /\ DepsDone
      /\ InHand /\ Named /\ OverviewIsPast
  BY DEF FeedInv
<1> SUFFICES ASSUME NEW j \in Jobs, state'[j] \in Host!Active \/ InFlight(j)', NEW d \in Deps[name'[j]]
             PROVE  /\ st'.sent[d] # None /\ disk'.sent[d] = st'.sent[d]
                    /\ state'[st'.sent[d]] = "done" /\ ov'[st'.sent[d]] \in {"none", "done"}
  BY DEF DepsDone, InFlight
<1>1. (state[j] \in Host!Active \/ InFlight(j)) \/ \E n \in Items : Send(n)
  BY <1>0, InFlightBefore
<1>2. name'[j] \in Items /\ d \in Items
  <2>1. TypeOK' /\ FeedInv'
    BY <1>0, NextFeedInv
  <2>2. name'[j] \in Items
    BY <2>1 DEF TypeOK, FeedInv, Named, InHand, InFlight
  <2> QED BY <2>2, ConstantsAssumption
<1> DEFINE k == st.sent[d]
\* Before the step: d is done, in the record and in the file, or by what Send saw.
<1>3. /\ k # None /\ k \in Jobs /\ state[k] = "done" /\ ov[k] \in {"none", "done"}
      /\ disk.sent[d] = k \/ (\E n \in Items : Send(n) /\ st'.sent[d] = k /\ disk' # disk)
      /\ (Crash \/ Relaunch) => disk.sent[d] = k
  <2>1. CASE state[j] \in Host!Active \/ InFlight(j)
    <3>1. name[j] # None
      BY <1>0, <2>1 DEF Named, InFlight, InHand, TypeOK
    <3>2. name'[j] = name[j]
      BY <1>0, <3>1, NamesAre
    <3> QED BY <1>0, <1>2, <2>1, <3>2 DEF DepsDone, InFlight
  <2>2. CASE ~(state[j] \in Host!Active \/ InFlight(j))
    <3>1. PICK n \in Items : Send(n)
      BY <1>1, <2>2
    <3>2. st' = [st EXCEPT !.sent[n] = Min(FreeIds)] /\ name' = [name EXCEPT ![Min(FreeIds)] = n]
          /\ cur' = Min(FreeIds) /\ state' = state /\ at = "items" /\ at' = "launch"
      BY <3>1, SaveOK DEF Send, Save, Turn, host
    <3>3. name'[j] = n
      BY <2>2, <3>2 DEF InFlight
    <3>4. ItemState(d) = "done"
      BY <3>1, <3>3 DEF Send, Ready
    <3>5. k # None /\ k \in Jobs
      BY <1>2, <3>4 DEF ItemState
    <3>6. state[k] = "done" /\ ov[k] \in {"none", "done"}
      BY <1>0, <3>4, <3>5, ViewIs DEF ItemState, OverviewIsPast
    <3>7. st.sent[n] = None
      BY <1>0, <3>1 DEF Send, Turn, Unwanted
    <3>8. st'.sent[d] = k
      BY <1>2, <3>2, <3>5, <3>7 DEF Record0
    <3>9. disk.sent[d] = k \/ disk' # disk
      <4>1. CASE disk' = st'
        BY <3>8, <4>1
      <4>2. CASE disk' # st'
        BY <1>0, <3>1, <3>2, <4>2, OneBehindSave DEF Send
      <4> QED BY <4>1, <4>2
    <3>10. ~Crash /\ ~Relaunch
      BY <3>2 DEF Crash, Relaunch
    <3> QED BY <3>1, <3>5, <3>6, <3>8, <3>9, <3>10
  <2> QED BY <2>1, <2>2
<1>4. state'[k] = "done"
  BY <1>0, <1>3, JobsMove DEF JobsGoOn, Moves, Begins, Launches, JobTypes
<1>5. ov'[k] \in {"none", "done"}
  BY <1>0, <1>3, OverviewIs, ViewIs DEF NoView
<1>6. CASE Crash \/ Relaunch
  <2>1. st' = disk /\ disk' = disk
    BY <1>6 DEF Crash, Relaunch
  <2> QED BY <1>3, <1>4, <1>5, <1>6, <2>1
<1>7. CASE ~Crash /\ ~Relaunch
  <2>1. st'.sent[d] = k
    BY <1>0, <1>2, <1>3, <1>7, StaysSent DEF Stays
  <2>2. disk'.sent[d] = k
    BY <1>0, <1>3, <2>1, Records
  <2> QED BY <1>3, <1>4, <1>5, <2>1, <2>2
<1> QED BY <1>6, <1>7

\* The invariant is inductive.
LEMMA KnownStays ==
    /\ Budget.full <= 1 /\ Init => Known
    /\ Known /\ [Next]_vars => Known'
<1>1. ASSUME Budget.full <= 1, Init PROVE Known
  <2>1. TypeOK /\ FeedInv
    BY <1>1, InitTypeOK
  <2>2. OneJobInv
    BY <1>1, Words, ConstantsAssumption DEF Init, OneJobInv, Recorded, OneBehind, OnDisk, Unwanted, DepsDone, Wanted,
       NoRecord
  <2> QED BY <2>1, <2>2 DEF Known
<1>2. ASSUME Known, [Next]_vars PROVE Known'
  BY <1>2, NextFeedInv, NextRecorded, NextOneBehind, NextOnDisk, NextUnwanted, NextDepsDone
     DEF Known, OneJobInv
<1> QED BY <1>1, <1>2

\* The invariant implies the properties.
LEMMA KnownShows == Known => OneWantedJob /\ RunsAfterDeps
<1> SUFFICES ASSUME Known PROVE OneWantedJob /\ RunsAfterDeps
  OBVIOUS
<1> USE Types, Words DEF Known, OneJobInv
<1>0. Recorded /\ OnDisk /\ Unwanted /\ DepsDone /\ Named
  BY DEF FeedInv
<1>1. OneWantedJob
  <2> SUFFICES ASSUME NEW j \in Jobs, NEW k \in Jobs, Wanted(j), Wanted(k), name[j] = name[k], j # k
               PROVE  FALSE
    BY DEF OneWantedJob
  <2>1. state[j] # "none" /\ state[k] # "none"
    BY DEF Wanted
  <2>2. j < k \/ k < j
    BY ConstantsAssumption
  <2> QED BY <1>0, <2>1, <2>2 DEF Unwanted
<1>2. RunsAfterDeps
  <2> SUFFICES ASSUME NEW j \in Jobs, state[j] \in Host!Active, NEW d \in Deps[name[j]]
               PROVE  /\ \E k \in Jobs : name[k] = d /\ state[k] = "done"
                      /\ ~\E k \in Jobs : name[k] = d /\ Wanted(k)
    BY DEF RunsAfterDeps
  <2>1. name[j] \in Items /\ d \in Items
    <3>1. name[j] \in Items
      BY <1>0 DEF Named
    <3> QED BY <3>1, ConstantsAssumption
  <2>2. /\ st.sent[d] \in Jobs /\ disk.sent[d] = st.sent[d] /\ state[st.sent[d]] = "done"
        /\ name[st.sent[d]] = d
    BY <1>0, <2>1 DEF DepsDone, Named
  <2>3. ASSUME NEW k \in Jobs, name[k] = d, Wanted(k) PROVE FALSE
    <3>1. disk.sent[d] = k
      BY <1>0, <2>2, <2>3 DEF OnDisk
    <3> QED BY <2>2, <2>3, <3>1 DEF Wanted
  <2> QED BY <2>2, <2>3
<1> QED BY <1>1, <1>2

\* An item never has two jobs at once that nobody asked to stop, whatever of launches of unknown
\* outcome, lost answers, crashes and relaunches meets the feeder, and however many, as long as no
\* more than one save fails: with two, the file may name an earlier job of an item that was sent
\* again.
THEOREM OneJobPerItem ==
    ASSUME Budget.full <= 1
    PROVE  Spec => []OneWantedJob
<1>1. Init => Known
  BY KnownStays
<1>2. Known /\ [Next]_vars => Known'
  BY KnownStays
<1>3. Known => OneWantedJob
  BY KnownShows
<1> QED BY <1>1, <1>2, <1>3, PTL DEF Spec

\* While an item's job is on the host, what it depends on is done and none of it is under way
\* again, under the same premise.
THEOREM ItemsRunAfterTheirDeps ==
    ASSUME Budget.full <= 1
    PROVE  Spec => []RunsAfterDeps
<1>1. Init => Known
  BY KnownStays
<1>2. Known /\ [Next]_vars => Known'
  BY KnownStays
<1>3. Known => RunsAfterDeps
  BY KnownShows
<1> QED BY <1>1, <1>2, <1>3, PTL DEF Spec
=============================================================================
