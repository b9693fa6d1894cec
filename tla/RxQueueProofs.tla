---------------------------- MODULE RxQueueProofs ----------------------------
(***************************************************************************)
(* Theorems about RxQueue and the admission rule of RxDecide, for any      *)
(* number of jobs and GPUs, any capacity and any requests that the idle    *)
(* host can hold.                                                          *)
(*                                                                         *)
(* The rule adds up the assignments of the jobs that run and goes through  *)
(* the queue in order.  Both are recursive functions: what they compute is *)
(* found by taking a least counterexample (LeastSet), the induction that   *)
(* needs no operator.                                                      *)
(***************************************************************************)
EXTENDS RxQueue, FiniteSetTheorems, SequenceTheorems, TLAPS

Families(U) == SUBSET SUBSET U

\* Some member of Z has no other below it.
LEMMA LeastSet ==
    ASSUME NEW U, IsFiniteSet(U), NEW Z \in Families(U), Z # {}
    PROVE  \E s \in Z : \A t \in Z : t \subseteq s => t = s
<1>1. IsWellFoundedOn(StrictSubsetOrdering(U), FiniteSubsetsOf(U))
  BY FS_StrictSubsetOrderingWellFounded
<1>2. FiniteSubsetsOf(U) = SUBSET U
  BY FS_FiniteSubsetsOfFinite
<1>3. \E s \in Z : \A t \in Z : <<t, s>> \notin StrictSubsetOrdering(U)
  BY <1>1, <1>2, WFMin DEF Families
<1> QED BY <1>3 DEF Families, StrictSubsetOrdering

\* A nonempty set of naturals has a least member.
LEMMA LeastNatural ==
    ASSUME NEW Z \in SUBSET Nat, Z # {}
    PROVE  \E m \in Z : \A k \in Z : ~(k < m)
<1>1. \E x \in Z : \A y \in Z : ~(<<y, x>> \in OpToRel(<, Nat))
  BY NatLessThanWellFounded, WFMin
<1> QED BY <1>1 DEF OpToRel

-----------------------------------------------------------------------------
(***************************************************************************)
(* Sums of weights over finite sets.                                       *)
(***************************************************************************)
OneOf(s) == CHOOSE x \in s : TRUE

\* it[s] is the sum of w over s, for every part s of S: the recursion of MapThenSumSet.
IsSum(w, S, it) ==
    it = [s \in SUBSET S |-> IF s = {} THEN 0 ELSE w[OneOf(s)] + it[s \ {OneOf(s)}]]

\* The recursion, applied.
LEMMA IsSumGives ==
    ASSUME NEW w, NEW S, NEW it, IsSum(w, S, it)
    PROVE  /\ it[{}] = 0
           /\ \A s \in SUBSET S : s # {} =>
                 OneOf(s) \in s /\ it[s] = w[OneOf(s)] + it[s \ {OneOf(s)}]
<1>1. \A s \in SUBSET S : it[s] = IF s = {} THEN 0 ELSE w[OneOf(s)] + it[s \ {OneOf(s)}]
  <2> DEFINE rhs == [s \in SUBSET S |-> IF s = {} THEN 0 ELSE w[OneOf(s)] + it[s \ {OneOf(s)}]]
  <2>1. it = rhs
    BY DEF IsSum
  <2>2. \A s \in SUBSET S : rhs[s] = IF s = {} THEN 0 ELSE w[OneOf(s)] + it[s \ {OneOf(s)}]
    OBVIOUS
  <2> HIDE DEF rhs
  <2> QED BY <2>1, <2>2
<1>2. \A s \in SUBSET S : s # {} => OneOf(s) \in s
  BY DEF OneOf
<1> QED BY <1>1, <1>2

\* Sums over a common part agree.
LEMMA SumUnique ==
    ASSUME NEW w, NEW S, NEW T, NEW f, NEW g, IsFiniteSet(S), IsSum(w, S, f), IsSum(w, T, g)
    PROVE  \A s \in SUBSET (S \cap T) : f[s] = g[s]
<1> DEFINE Z == {s \in SUBSET (S \cap T) : f[s] # g[s]}
<1> SUFFICES ASSUME Z # {} PROVE FALSE
  OBVIOUS
<1>1. IsFiniteSet(S \cap T) /\ Z \in Families(S \cap T)
  BY FS_Intersection DEF Families
<1>2. PICK s \in Z : \A t \in Z : t \subseteq s => t = s
  <2> HIDE DEF Z
  <2> QED BY <1>1, LeastSet
<1>3. s # {}
  BY <1>2, IsSumGives
<1> DEFINE x == OneOf(s)
<1>4. x \in s /\ f[s] = w[x] + f[s \ {x}] /\ g[s] = w[x] + g[s \ {x}]
  <2>1. s \in SUBSET S /\ s \in SUBSET T
    BY <1>2
  <2>2. OneOf(s) \in s /\ f[s] = w[OneOf(s)] + f[s \ {OneOf(s)}]
    BY <1>3, <2>1, IsSumGives
  <2>3. g[s] = w[OneOf(s)] + g[s \ {OneOf(s)}]
    BY <1>3, <2>1, IsSumGives
  <2> QED BY <2>2, <2>3
<1>5. s \ {x} \in SUBSET (S \cap T) /\ s \ {x} # s
  BY <1>2, <1>4
<1>6. f[s \ {x}] = g[s \ {x}]
  BY <1>2, <1>5
<1> QED BY <1>2, <1>4, <1>6

\* There is such a sum.
LEMMA SumExists ==
    ASSUME NEW D, NEW w \in [D -> Int], NEW S \in SUBSET D, IsFiniteSet(S)
    PROVE  \E f \in [SUBSET S -> Int] : IsSum(w, S, f)
<1> DEFINE Z == {s \in SUBSET S : ~\E f \in [SUBSET s -> Int] : IsSum(w, s, f)}
<1> SUFFICES ASSUME Z # {} PROVE FALSE
  OBVIOUS
<1>1. Z \in Families(S)
  BY DEF Families
<1>2. PICK s \in Z : \A t \in Z : t \subseteq s => t = s
  <2> HIDE DEF Z
  <2> QED BY <1>1, LeastSet
<1>3. s \in SUBSET S /\ ~\E f \in [SUBSET s -> Int] : IsSum(w, s, f)
  BY <1>2
<1> DEFINE G(t) == CHOOSE f \in [SUBSET t -> Int] : IsSum(w, t, f)
<1>4. ASSUME NEW t \in SUBSET s, t # s
      PROVE  G(t) \in [SUBSET t -> Int] /\ IsSum(w, t, G(t)) /\ G(t)[t] \in Int
  <2>1. \E f \in [SUBSET t -> Int] : IsSum(w, t, f)
    BY <1>2, <1>4
  <2> QED BY <2>1
<1>5. s # {}
  <2> SUFFICES ASSUME s = {} PROVE FALSE
    OBVIOUS
  <2> DEFINE f == [t \in SUBSET s |-> 0]
  <2>1. IsSum(w, s, f)
    <3>1. \A t \in SUBSET s : t = {}
      OBVIOUS
    <3> QED BY <3>1 DEF IsSum
  <2> QED BY <1>3, <2>1
<1> DEFINE c == OneOf(s)
           h == [t \in SUBSET s |-> IF t = s THEN w[c] + G(s \ {c})[s \ {c}] ELSE G(t)[t]]
           rhs == [t \in SUBSET s |-> IF t = {} THEN 0 ELSE w[OneOf(t)] + h[t \ {OneOf(t)}]]
<1>6. c \in s /\ s \ {c} \in SUBSET s /\ s \ {c} # s /\ w[c] \in Int
  BY <1>3, <1>5 DEF OneOf
<1> HIDE DEF G, c
<1>7. h \in [SUBSET s -> Int]
  <2>1. w[c] + G(s \ {c})[s \ {c}] \in Int
    <3>1. G(s \ {c})[s \ {c}] \in Int
      BY <1>4, <1>6
    <3> QED BY <1>6, <3>1
  <2>2. \A t \in SUBSET s : t # s => G(t)[t] \in Int
    BY <1>4
  <2> QED BY <2>1, <2>2
<1>8. ASSUME NEW t \in SUBSET s PROVE h[t] = rhs[t]
  <2>1. CASE t = {}
    BY <1>4, <1>5, <2>1, IsSumGives
  <2>2. CASE t = s
    BY <1>5, <1>6, <2>2 DEF c
  <2>3. CASE t # {} /\ t # s
    <3> DEFINE d == OneOf(t)
    <3>1. d \in t /\ G(t)[t] = w[d] + G(t)[t \ {d}]
      <4>1. IsSum(w, t, G(t)) /\ t \in SUBSET t
        BY <1>4, <2>3
      <4> QED BY <2>3, <4>1, IsSumGives
    <3>2. t \ {d} \in SUBSET s /\ t \ {d} # s
      BY <2>3
    <3>3. G(t)[t \ {d}] = G(t \ {d})[t \ {d}]
      <4>1. IsFiniteSet(t)
        BY <1>3, FS_Subset
      <4>2. IsSum(w, t, G(t)) /\ IsSum(w, t \ {d}, G(t \ {d}))
        BY <1>4, <2>3, <3>2
      <4>3. t \ {d} \in SUBSET (t \cap (t \ {d}))
        OBVIOUS
      <4> HIDE DEF d
      <4> QED BY <4>1, <4>2, <4>3, SumUnique
    <3>4. h[t] = G(t)[t] /\ h[t \ {d}] = G(t \ {d})[t \ {d}]
      BY <2>3, <3>2
    <3>5. rhs[t] = w[d] + h[t \ {d}]
      BY <2>3
    <3> QED BY <3>1, <3>3, <3>4, <3>5
  <2> QED BY <2>1, <2>2, <2>3
<1>9. IsSum(w, s, h)
  BY <1>7, <1>8 DEF IsSum
<1> QED BY <1>3, <1>7, <1>9

\* What is added up last does not matter.
AddsAny(w, S, f) == \A s \in SUBSET S, x \in S : x \in s => f[s] = w[x] + f[s \ {x}]

\* The order in which a sum takes its elements does not matter.
LEMMA SumTakesAny ==
    ASSUME NEW D, NEW w \in [D -> Int], NEW S \in SUBSET D, IsFiniteSet(S),
           NEW f \in [SUBSET S -> Int], IsSum(w, S, f)
    PROVE  AddsAny(w, S, f)
<1> DEFINE Z == {s \in SUBSET S : \E x \in s : f[s] # w[x] + f[s \ {x}]}
<1> SUFFICES ASSUME Z # {} PROVE FALSE
  BY DEF AddsAny
<1>1. Z \in Families(S)
  BY DEF Families
<1>2. PICK s \in Z : \A t \in Z : t \subseteq s => t = s
  <2> HIDE DEF Z
  <2> QED BY <1>1, LeastSet
<1>3. PICK x \in s : f[s] # w[x] + f[s \ {x}]
  BY <1>2
<1> DEFINE c == OneOf(s)
<1>4. s \in SUBSET S /\ s # {}
  BY <1>2, <1>3
<1>5. c \in s /\ f[s] = w[c] + f[s \ {c}]
  BY <1>4, IsSumGives
<1> HIDE DEF c
<1>6. c # x
  BY <1>3, <1>5
<1>7. s \ {c} \notin Z /\ s \ {x} \notin Z
  BY <1>2, <1>3, <1>5
<1>8. f[s \ {c}] = w[x] + f[(s \ {c}) \ {x}]
  <2>1. s \ {c} \in SUBSET S /\ x \in s \ {c}
    BY <1>3, <1>4, <1>6
  <2> QED BY <1>7, <2>1
<1>9. f[s \ {x}] = w[c] + f[(s \ {x}) \ {c}]
  <2>1. s \ {x} \in SUBSET S /\ c \in s \ {x}
    BY <1>4, <1>5, <1>6
  <2> QED BY <1>7, <2>1
<1>10. (s \ {c}) \ {x} = (s \ {x}) \ {c}
  OBVIOUS
<1>11. w[x] \in Int /\ w[c] \in Int /\ f[(s \ {x}) \ {c}] \in Int
  BY <1>3, <1>4, <1>5
<1> DEFINE v == f[(s \ {x}) \ {c}]
<1>12. f[s] = w[c] + (w[x] + v) /\ f[s \ {x}] = w[c] + v /\ v \in Int
  BY <1>5, <1>8, <1>9, <1>10, <1>11
<1> HIDE DEF v
<1>13. f[s] = w[x] + f[s \ {x}]
  BY <1>11, <1>12
<1> QED BY <1>3, <1>13

Sum(w, S) == (CHOOSE it : IsSum(w, S, it))[S]

\* The sum as one knows it.
LEMMA SumIs ==
    ASSUME NEW D, NEW w \in [D -> Int], NEW S \in SUBSET D, IsFiniteSet(S)
    PROVE  /\ Sum(w, S) \in Int
           /\ Sum(w, {}) = 0
           /\ \A s \in SUBSET S, x \in S : x \in s => Sum(w, s) = w[x] + Sum(w, s \ {x})
<1>1. ASSUME NEW s \in SUBSET S
      PROVE  \E f \in [SUBSET s -> Int] : IsSum(w, s, f) /\ Sum(w, s) = f[s]
  <2>1. s \in SUBSET D /\ IsFiniteSet(s)
    BY FS_Subset
  <2>2. PICK f \in [SUBSET s -> Int] : IsSum(w, s, f)
    BY <2>1, SumExists
  <2> DEFINE g == CHOOSE it : IsSum(w, s, it)
  <2>3. IsSum(w, s, g)
    BY <2>2
  <2>4. Sum(w, s) = g[s]
    BY DEF Sum
  <2> HIDE DEF g
  <2>5. s \in SUBSET (s \cap s)
    OBVIOUS
  <2>6. g[s] = f[s]
    BY <2>1, <2>2, <2>3, <2>5, SumUnique
  <2> QED BY <2>2, <2>4, <2>6
<1>2. Sum(w, S) \in Int
  <2>1. S \in SUBSET S
    OBVIOUS
  <2>2. PICK f \in [SUBSET S -> Int] : IsSum(w, S, f) /\ Sum(w, S) = f[S]
    BY <1>1, <2>1
  <2> QED BY <2>2
<1>3. Sum(w, {}) = 0
  <2>1. PICK f \in [SUBSET {} -> Int] : IsSum(w, {}, f) /\ Sum(w, {}) = f[{}]
    BY <1>1
  <2> QED BY <2>1, IsSumGives
<1>4. ASSUME NEW s \in SUBSET S, NEW x \in S, x \in s
      PROVE  Sum(w, s) = w[x] + Sum(w, s \ {x})
  <2>1. s \in SUBSET D /\ IsFiniteSet(s) /\ s \in SUBSET s
    BY FS_Subset
  <2>2. PICK f \in [SUBSET s -> Int] : IsSum(w, s, f) /\ Sum(w, s) = f[s]
    BY <1>1
  <2>3. f[s] = w[x] + f[s \ {x}]
    <3>1. AddsAny(w, s, f)
      BY <2>1, <2>2, SumTakesAny
    <3> QED BY <1>4, <2>1, <3>1 DEF AddsAny
  <2> DEFINE t == s \ {x}
  <2>4. t \in SUBSET S
    OBVIOUS
  <2>5. PICK g \in [SUBSET t -> Int] : IsSum(w, t, g) /\ Sum(w, t) = g[t]
    BY <1>1, <2>4
  <2>6. t \in SUBSET (s \cap t)
    OBVIOUS
  <2>7. f[t] = g[t]
    <3> HIDE DEF t
    <3> QED BY <2>1, <2>2, <2>5, <2>6, SumUnique
  <2> QED BY <2>2, <2>3, <2>5, <2>7
<1> QED BY <1>2, <1>3, <1>4

\* Sums of what is not negative grow.
LEMMA SumGrows ==
    ASSUME NEW D, NEW w \in [D -> Int], NEW S \in SUBSET D, IsFiniteSet(S),
           \A x \in S : w[x] >= 0, NEW T \in SUBSET S
    PROVE  Sum(w, T) <= Sum(w, S)
<1> DEFINE Z == {s \in SUBSET S : T \subseteq s /\ ~(Sum(w, T) <= Sum(w, s))}
<1> SUFFICES ASSUME Z # {} PROVE FALSE
  OBVIOUS
<1>1. Z \in Families(S)
  BY DEF Families
<1>2. PICK s \in Z : \A t \in Z : t \subseteq s => t = s
  <2> HIDE DEF Z
  <2> QED BY <1>1, LeastSet
<1>3. s \in SUBSET S /\ T \subseteq s /\ ~(Sum(w, T) <= Sum(w, s))
  BY <1>2
<1>4. \A t \in SUBSET S : Sum(w, t) \in Int
  <2> SUFFICES ASSUME NEW t \in SUBSET S PROVE Sum(w, t) \in Int
    OBVIOUS
  <2>1. t \in SUBSET D /\ IsFiniteSet(t)
    BY FS_Subset
  <2> QED BY <2>1, SumIs
<1>5. T # s
  BY <1>3, <1>4
<1>6. PICK x \in s : x \notin T
  BY <1>3, <1>5
<1>7. s \ {x} \in SUBSET S /\ T \subseteq s \ {x} /\ s \ {x} \notin Z
  BY <1>2, <1>3, <1>6
<1>8. Sum(w, T) <= Sum(w, s \ {x})
  BY <1>7
<1>9. Sum(w, s) = w[x] + Sum(w, s \ {x}) /\ w[x] >= 0 /\ w[x] \in Int
  BY <1>3, SumIs
<1>10. Sum(w, T) \in Int /\ Sum(w, s) \in Int /\ Sum(w, s \ {x}) \in Int
  BY <1>3, <1>4, <1>7
<1> QED BY <1>3, <1>8, <1>9, <1>10

\* A sum of weights of at most m.
LEMMA SumAtMost ==
    ASSUME NEW D, NEW w \in [D -> Int], NEW S \in SUBSET D, IsFiniteSet(S),
           NEW m \in Nat, \A x \in S : w[x] <= m
    PROVE  Sum(w, S) <= m * Cardinality(S)
<1> DEFINE Z == {s \in SUBSET S : ~(Sum(w, s) <= m * Cardinality(s))}
<1> SUFFICES ASSUME Z # {} PROVE FALSE
  OBVIOUS
<1>1. Z \in Families(S)
  BY DEF Families
<1>2. PICK s \in Z : \A t \in Z : t \subseteq s => t = s
  <2> HIDE DEF Z
  <2> QED BY <1>1, LeastSet
<1>3. s \in SUBSET S /\ ~(Sum(w, s) <= m * Cardinality(s))
  BY <1>2
<1>4. s # {}
  <2>1. Sum(w, {}) = 0 /\ Cardinality({}) = 0 /\ m * 0 = 0
    BY SumIs, FS_EmptySet
  <2> QED BY <1>3, <2>1
<1>5. PICK x \in s : TRUE
  BY <1>4
<1> DEFINE t == s \ {x}
<1>6. t \in SUBSET S /\ t \notin Z /\ t # s
  BY <1>2, <1>3, <1>5
<1>7. Sum(w, t) <= m * Cardinality(t)
  BY <1>6
<1>8. Sum(w, s) = w[x] + Sum(w, t) /\ w[x] \in Int /\ w[x] <= m
  BY <1>3, <1>5, SumIs
<1> HIDE DEF t
<1>9. Sum(w, t) \in Int
  <2>1. t \in SUBSET D /\ IsFiniteSet(t)
    BY <1>6, FS_Subset
  <2> QED BY <2>1, SumIs
<1>10. Cardinality(s) = Cardinality(t) + 1 /\ Cardinality(t) \in Nat
  <2>1. IsFiniteSet(s)
    BY <1>3, FS_Subset
  <2>2. Cardinality(t) = Cardinality(s) - 1 /\ IsFiniteSet(t)
    BY <1>5, <2>1, FS_RemoveElement DEF t
  <2> QED BY <2>1, <2>2, FS_CardinalityType
<1>11. m * Cardinality(s) = m * Cardinality(t) + m /\ m * Cardinality(t) \in Int
  BY <1>10
<1> QED BY <1>3, <1>7, <1>8, <1>9, <1>11

\* Whatever satisfies the recursion is the sum.
LEMMA SumFound ==
    ASSUME NEW D, NEW w \in [D -> Int], NEW S \in SUBSET D, IsFiniteSet(S), NEW h, IsSum(w, S, h)
    PROVE  h[S] = Sum(w, S)
<1> DEFINE g == CHOOSE it : IsSum(w, S, it)
<1>1. IsSum(w, S, g)
  BY SumExists
<1>2. Sum(w, S) = g[S]
  BY DEF Sum
<1> HIDE DEF g
<1>3. S \in SUBSET (S \cap S)
  OBVIOUS
<1> QED BY <1>1, <1>2, <1>3, SumUnique

-----------------------------------------------------------------------------
(***************************************************************************)
(* The sums of the rule.                                                   *)
(***************************************************************************)
Shares == [GPUs -> 0..Whole]
Entry == [key : Jobs, assign : [cpus : Nat, gpu : Shares]]

CpusOf == [e \in Entry |-> e.assign.cpus]
ShareOf(g) == [e \in Entry |-> e.assign.gpu[g]]

\* Entries weigh what they were given, which is not negative.
LEMMA EntryWeights ==
    /\ CpusOf \in [Entry -> Int] /\ \A e \in Entry : CpusOf[e] = e.assign.cpus /\ CpusOf[e] >= 0
    /\ \A g \in GPUs : /\ ShareOf(g) \in [Entry -> Int]
                       /\ \A e \in Entry : ShareOf(g)[e] = e.assign.gpu[g] /\ ShareOf(g)[e] >= 0
<1>1. \A e \in Entry : e.assign.cpus \in Nat /\ \A g \in GPUs : e.assign.gpu[g] \in 0..Whole
  BY DEF Entry, Shares
<1>2. \A e \in Entry : e.assign.cpus \in Int /\ e.assign.cpus >= 0
  BY <1>1
<1>3. \A e \in Entry, g \in GPUs : e.assign.gpu[g] \in Int /\ e.assign.gpu[g] >= 0
  BY <1>1, CapacityAssumption
<1> QED BY <1>2, <1>3 DEF CpusOf, ShareOf

\* What decide() adds up of the CPUs is the sum.
LEMMA CpusAreSummed ==
    ASSUME NEW E \in SUBSET Entry, IsFiniteSet(E)
    PROVE  MapThenSumSet(LAMBDA a : a.assign.cpus, E) = Sum(CpusOf, E)
<1> DEFINE rhs(it) == [s \in SUBSET E |->
               IF s = {} THEN 0 ELSE (CHOOSE x \in s : TRUE).assign.cpus + it[s \ {CHOOSE x \in s : TRUE}]]
           h == CHOOSE it : it = rhs(it)
<1>1. MapThenSumSet(LAMBDA a : a.assign.cpus, E) = h[E]
  BY DEF MapThenSumSet, MapThenFoldSet
<1>2. ASSUME NEW it PROVE IsSum(CpusOf, E, it) <=> it = rhs(it)
  <2> DEFINE sums == [s \in SUBSET E |-> IF s = {} THEN 0 ELSE CpusOf[OneOf(s)] + it[s \ {OneOf(s)}]]
  <2>1. \A s \in SUBSET E : s # {} => OneOf(s) \in Entry
    BY DEF OneOf
  <2>2. \A s \in SUBSET E : s # {} => CpusOf[OneOf(s)] = OneOf(s).assign.cpus
    BY <2>1 DEF CpusOf
  <2>3. sums = rhs(it)
    BY <2>2 DEF OneOf
  <2> QED BY <2>3 DEF IsSum
<1>3. PICK f : IsSum(CpusOf, E, f)
  BY EntryWeights, SumExists
<1>4. IsSum(CpusOf, E, h)
  <2> HIDE DEF rhs
  <2>1. \E it : it = rhs(it)
    BY <1>2, <1>3
  <2>2. h = rhs(h)
    BY <2>1
  <2> HIDE DEF h
  <2> QED BY <1>2, <2>2
<1> HIDE DEF h, rhs
<1> QED BY <1>1, <1>4, EntryWeights, SumFound

\* What decide() adds up of a GPU is the sum.
LEMMA SharesAreSummed ==
    ASSUME NEW E \in SUBSET Entry, IsFiniteSet(E), NEW g \in GPUs
    PROVE  MapThenSumSet(LAMBDA a : a.assign.gpu[g], E) = Sum(ShareOf(g), E)
<1> DEFINE rhs(it) == [s \in SUBSET E |->
               IF s = {} THEN 0 ELSE (CHOOSE x \in s : TRUE).assign.gpu[g] + it[s \ {CHOOSE x \in s : TRUE}]]
           h == CHOOSE it : it = rhs(it)
<1>1. MapThenSumSet(LAMBDA a : a.assign.gpu[g], E) = h[E]
  BY DEF MapThenSumSet, MapThenFoldSet
<1>2. ASSUME NEW it PROVE IsSum(ShareOf(g), E, it) <=> it = rhs(it)
  <2> DEFINE sums == [s \in SUBSET E |-> IF s = {} THEN 0 ELSE ShareOf(g)[OneOf(s)] + it[s \ {OneOf(s)}]]
  <2>1. \A s \in SUBSET E : s # {} => OneOf(s) \in Entry
    BY DEF OneOf
  <2>2. \A s \in SUBSET E : s # {} => ShareOf(g)[OneOf(s)] = OneOf(s).assign.gpu[g]
    BY <2>1 DEF ShareOf
  <2>3. sums = rhs(it)
    BY <2>2 DEF OneOf
  <2> QED BY <2>3 DEF IsSum
<1>3. PICK f : IsSum(ShareOf(g), E, f)
  BY EntryWeights, SumExists
<1>4. IsSum(ShareOf(g), E, h)
  <2> HIDE DEF rhs
  <2>1. \E it : it = rhs(it)
    BY <1>2, <1>3
  <2>2. h = rhs(h)
    BY <2>1
  <2> HIDE DEF h
  <2> QED BY <1>2, <2>2
<1> HIDE DEF h, rhs
<1> QED BY <1>1, <1>4, EntryWeights, SumFound

FreeOf(free) == [h \in GPUs |-> NonNeg(free[h])]

\* What _hold_back has drained before a GPU is a sum.
LEMMA DrainedIsASum ==
    ASSUME NEW free \in [GPUs -> Int], NEW E \in SUBSET GPUs
    PROVE  /\ MapThenSumSet(LAMBDA h : NonNeg(free[h]), E) = Sum(FreeOf(free), E)
           /\ Sum(FreeOf(free), E) \in Int
           /\ FreeOf(free) \in [GPUs -> Int] /\ IsFiniteSet(E)
<1> DEFINE w == FreeOf(free)
           rhs(it) == [s \in SUBSET E |->
               IF s = {} THEN 0 ELSE NonNeg(free[CHOOSE x \in s : TRUE]) + it[s \ {CHOOSE x \in s : TRUE}]]
           h == CHOOSE it : it = rhs(it)
<1>1. MapThenSumSet(LAMBDA a : NonNeg(free[a]), E) = h[E]
  BY DEF MapThenSumSet, MapThenFoldSet
<1>2. w \in [GPUs -> Int] /\ IsFiniteSet(E)
  <2>1. w \in [GPUs -> Int]
    BY DEF NonNeg, FreeOf
  <2>2. IsFiniteSet(E)
    BY CapacityAssumption, FS_Subset
  <2> QED BY <2>1, <2>2
<1>3. ASSUME NEW it PROVE IsSum(w, E, it) <=> it = rhs(it)
  <2> DEFINE sums == [s \in SUBSET E |-> IF s = {} THEN 0 ELSE w[OneOf(s)] + it[s \ {OneOf(s)}]]
  <2>1. \A s \in SUBSET E : s # {} => OneOf(s) \in GPUs
    BY DEF OneOf
  <2>2. \A s \in SUBSET E : s # {} => w[OneOf(s)] = NonNeg(free[OneOf(s)])
    BY <2>1 DEF FreeOf
  <2>3. sums = rhs(it)
    BY <2>2 DEF OneOf
  <2> QED BY <2>3 DEF IsSum
<1> HIDE DEF w
<1>4. PICK f : IsSum(w, E, f)
  BY <1>2, SumExists
<1>5. IsSum(w, E, h)
  <2> HIDE DEF rhs
  <2>1. \E it : it = rhs(it)
    BY <1>3, <1>4
  <2>2. h = rhs(h)
    BY <2>1
  <2> HIDE DEF h
  <2> QED BY <1>3, <2>2
<1> HIDE DEF h, rhs
<1>6. h[E] = Sum(w, E)
  BY <1>2, <1>5, SumFound
<1>7. Sum(w, E) \in Int
  BY <1>2, SumIs
<1> QED BY <1>1, <1>2, <1>6, <1>7 DEF w

-----------------------------------------------------------------------------
(***************************************************************************)
(* Pools and what _fit takes from them.                                    *)
(***************************************************************************)
Pools == [cpus : Int, gpu : [GPUs -> Int]]
GoodPools == {p \in Pools : p.cpus >= 0}
Grants == [cpus : Nat, gpu : Shares]
Amounts(req) == req.cpus \in Nat /\ req.gpu \in Nat

Below(p, q) == p.cpus <= q.cpus /\ \A g \in GPUs : p.gpu[g] <= q.gpu[g]

\* An assignment that a pool covers: GPUs it does not use do not matter.
Covers(pool, a) ==
    a.cpus <= pool.cpus /\ \A g \in GPUs : a.gpu[g] = 0 \/ a.gpu[g] <= pool.gpu[g]

\* The numbers of the host.
LEMMA WholeIsPositive == Whole \in Nat /\ Whole > 0 /\ Cpus \in Nat
BY CapacityAssumption

\* What a pool covers a larger one covers.
LEMMA BelowOrders ==
    ASSUME NEW p \in Pools, NEW q \in Pools, NEW r \in Pools
    PROVE  /\ Below(p, p)
           /\ Below(p, q) /\ Below(q, r) => Below(p, r)
           /\ \A a \in Grants : Covers(p, a) /\ Below(p, q) => Covers(q, a)
<1>1. /\ p.cpus \in Int /\ q.cpus \in Int /\ r.cpus \in Int
      /\ \A g \in GPUs : p.gpu[g] \in Int /\ q.gpu[g] \in Int /\ r.gpu[g] \in Int
  BY DEF Pools
<1>2. \A a \in Grants : a.cpus \in Int /\ \A g \in GPUs : a.gpu[g] \in Int
  BY WholeIsPositive DEF Grants, Shares
<1>3. Below(p, p)
  BY <1>1 DEF Below
<1>4. Below(p, q) /\ Below(q, r) => Below(p, r)
  BY <1>1 DEF Below
<1>5. ASSUME NEW a \in Grants, Covers(p, a), Below(p, q) PROVE Covers(q, a)
  BY <1>1, <1>2, <1>5 DEF Below, Covers
<1> QED BY <1>3, <1>4, <1>5

\* round(g) of a request is a number of GPUs.
LEMMA RoundedIsNat == \A n \in Nat : Rounded(n) \in Nat
<1> SUFFICES ASSUME NEW n \in Nat PROVE Rounded(n) \in Nat
  OBVIOUS
<1>1. n \div Whole \in Nat
  BY WholeIsPositive
<1> QED BY <1>1 DEF Rounded

\* Of finitely many GPUs one has the least free share, and the lowest index among those.
FullestOf(room, free, b) ==
    b \in room /\ \A g \in room : free[b] < free[g] \/ (free[b] = free[g] /\ b <= g)

\* A fraction has one place to go to.
LEMMA FullestIsOne ==
    ASSUME NEW free \in [GPUs -> Int], NEW room \in SUBSET GPUs, NEW b, NEW c,
           FullestOf(room, free, b), FullestOf(room, free, c)
    PROVE  b = c
<1>1. b \in Int /\ c \in Int /\ free[b] \in Int /\ free[c] \in Int
  BY CapacityAssumption DEF FullestOf
<1>2. free[b] < free[c] \/ (free[b] = free[c] /\ b <= c)
  BY DEF FullestOf
<1>3. free[c] < free[b] \/ (free[c] = free[b] /\ c <= b)
  BY DEF FullestOf
<1> QED BY <1>1, <1>2, <1>3

\* A fraction that has room has a place to go to.
LEMMA FullestExists ==
    ASSUME NEW free \in [GPUs -> Int], NEW room \in SUBSET GPUs, room # {}
    PROVE  \E b : FullestOf(room, free, b)
<1> DEFINE Z == {s \in SUBSET room : s # {} /\ ~\E b : FullestOf(s, free, b)}
<1> SUFFICES ASSUME Z # {} PROVE FALSE
  <2>1. room \in SUBSET room
    OBVIOUS
  <2> QED BY <2>1
<1>1. Z \in Families(GPUs) /\ IsFiniteSet(GPUs)
  BY CapacityAssumption DEF Families
<1>2. PICK s \in Z : \A t \in Z : t \subseteq s => t = s
  <2> HIDE DEF Z
  <2> QED BY <1>1, LeastSet
<1>3. s \in SUBSET room /\ s # {} /\ ~\E b : FullestOf(s, free, b)
  BY <1>2
<1>4. PICK x \in s : TRUE
  BY <1>3
<1>5. \A g \in s : g \in Int /\ free[g] \in Int
  BY <1>3, CapacityAssumption
<1>6. CASE s = {x}
  <2>1. FullestOf(s, free, x)
    BY <1>5, <1>6 DEF FullestOf
  <2> QED BY <1>3, <2>1
<1>7. CASE s # {x}
  <2> DEFINE t == s \ {x}
  <2>1. t \in SUBSET room /\ t # {} /\ t # s /\ t \subseteq s
    BY <1>3, <1>4, <1>7
  <2>2. PICK b : FullestOf(t, free, b)
    BY <1>2, <2>1
  <2>3. b \in t /\ b \in s
    BY <2>2 DEF FullestOf
  <2>4. CASE free[b] < free[x] \/ (free[b] = free[x] /\ b <= x)
    <3>1. FullestOf(s, free, b)
      BY <2>2, <2>3, <2>4 DEF FullestOf
    <3> QED BY <1>3, <3>1
  <2>5. CASE ~(free[b] < free[x] \/ (free[b] = free[x] /\ b <= x))
    <3>1. free[x] < free[b] \/ (free[x] = free[b] /\ x < b)
      BY <1>4, <1>5, <2>3, <2>5
    <3>2. ASSUME NEW g \in s PROVE free[x] < free[g] \/ (free[x] = free[g] /\ x <= g)
      <4>1. CASE g = x
        BY <1>5, <4>1
      <4>2. CASE g # x
        <5>1. free[b] < free[g] \/ (free[b] = free[g] /\ b <= g)
          BY <2>2, <4>2 DEF FullestOf
        <5> QED BY <1>4, <1>5, <2>3, <3>1, <5>1
      <4> QED BY <4>1, <4>2
    <3>3. FullestOf(s, free, x)
      BY <1>4, <3>2 DEF FullestOf
    <3> QED BY <1>3, <3>3
  <2> QED BY <2>4, <2>5
<1> QED BY <1>6, <1>7

\* What a fraction gets.
LEMMA FractionGives ==
    ASSUME NEW free \in [GPUs -> Int], NEW n \in Nat, n < Whole, NEW s \in FractionOf(n, free)
    PROVE  /\ s \in Shares
           /\ \A g \in GPUs : s[g] = 0 \/ s[g] <= free[g]
           /\ \E b \in GPUs : s = [g \in GPUs |-> IF g = b THEN n ELSE 0]
                              /\ FullestOf({g \in GPUs : free[g] >= n}, free, b)
<1> DEFINE room == {g \in GPUs : free[g] >= n}
<1>1. PICK b \in room : /\ s = [g \in GPUs |-> IF g = b THEN n ELSE 0]
                        /\ \A g \in room : free[b] < free[g] \/ (free[b] = free[g] /\ b <= g)
  BY DEF FractionOf
<1>2. FullestOf(room, free, b)
  BY <1>1 DEF FullestOf
<1>3. n \in 0..Whole /\ 0 \in 0..Whole
  BY WholeIsPositive
<1>4. s \in Shares
  BY <1>1, <1>3 DEF Shares
<1>5. \A g \in GPUs : s[g] = 0 \/ s[g] <= free[g]
  BY <1>1
<1> QED BY <1>1, <1>2, <1>4, <1>5

\* What a request for whole GPUs gets.
LEMMA WholeGives ==
    ASSUME NEW free \in [GPUs -> Int], NEW n \in Nat, NEW s \in WholeOf(n, free)
    PROVE  /\ s \in Shares
           /\ \A g \in GPUs : s[g] = 0 \/ s[g] <= free[g]
<1> DEFINE full   == {g \in GPUs : free[g] >= Whole}
           chosen == {g \in full : Cardinality({h \in full : h < g}) < n}
<1>1. s = [g \in GPUs |-> IF g \in chosen THEN Whole ELSE 0]
  BY DEF WholeOf
<1>2. \A g \in chosen : free[g] >= Whole
  OBVIOUS
<1> HIDE DEF chosen
<1>3. Whole \in 0..Whole /\ 0 \in 0..Whole
  BY WholeIsPositive
<1> QED BY <1>1, <1>2, <1>3 DEF Shares

\* The n lowest of at least n GPUs are at least n.
LEMMA LowestAreEnough ==
    ASSUME NEW full \in SUBSET GPUs, NEW n \in Nat, Cardinality(full) >= n
    PROVE  Cardinality({g \in full : Cardinality({h \in full : h < g}) < n}) >= n
<1> DEFINE before(g) == {h \in full : h < g}
           chosen == {g \in full : Cardinality(before(g)) < n}
           rest == full \ chosen
<1>1. IsFiniteSet(full) /\ IsFiniteSet(chosen) /\ full \in SUBSET Nat
  BY CapacityAssumption, FS_Subset
<1>2. Cardinality(chosen) \in Nat
  BY <1>1, FS_CardinalityType
<1>3. CASE rest = {}
  <2>1. chosen = full
    BY <1>3
  <2> QED BY <2>1
<1>4. CASE rest # {}
  <2>1. PICK g \in rest : \A h \in rest : ~(h < g)
    <3> HIDE DEF rest
    <3>1. rest \subseteq Nat
      BY <1>1 DEF rest
    <3>2. \E x \in rest : \A y \in rest : ~(<<y, x>> \in OpToRel(<, Nat))
      BY <1>4, <3>1, NatLessThanWellFounded, WFMin
    <3> QED BY <3>1, <3>2 DEF OpToRel
  <2>2. before(g) \in SUBSET chosen
    BY <2>1
  <2>3. Cardinality(before(g)) <= Cardinality(chosen)
    <3> HIDE DEF before, chosen
    <3> QED BY <1>1, <2>2, FS_Subset
  <2>4. Cardinality(before(g)) \in Nat
    <3> HIDE DEF before, chosen
    <3> QED BY <1>1, <2>2, FS_Subset, FS_CardinalityType
  <2>5. ~(Cardinality(before(g)) < n)
    BY <2>1
  <2> HIDE DEF chosen, before
  <2>6. Cardinality(chosen) >= n
    BY <1>2, <2>3, <2>4, <2>5
  <2> QED BY <2>6 DEF chosen, before
<1> QED BY <1>3, <1>4

\* A request that fits gets what it asks for, out of what is free.
LEMMA FitGives ==
    ASSUME NEW req, Amounts(req), NEW pool \in Pools, NEW a \in Fit(req, pool)
    PROVE  a \in Grants /\ a.cpus = req.cpus /\ Covers(pool, a)
<1> DEFINE some == IF req.cpus > pool.cpus THEN {} ELSE SharesOf(req.gpu, pool.gpu)
<1>1. PICK shares \in some : a = [cpus |-> req.cpus, gpu |-> shares]
  BY DEF Fit
<1>2. ~(req.cpus > pool.cpus) /\ shares \in SharesOf(req.gpu, pool.gpu)
  BY <1>1
<1>3. req.cpus \in Nat /\ req.gpu \in Nat /\ pool.cpus \in Int /\ pool.gpu \in [GPUs -> Int]
  BY DEF Amounts, Pools
<1>4. shares \in Shares /\ \A g \in GPUs : shares[g] = 0 \/ shares[g] <= pool.gpu[g]
  <2>1. CASE req.gpu = 0
    <3>1. shares = NoShares
      BY <1>2, <2>1 DEF SharesOf
    <3>2. 0 \in 0..Whole
      BY WholeIsPositive
    <3> QED BY <3>1, <3>2 DEF NoShares, Shares
  <2>2. CASE req.gpu # 0 /\ req.gpu < Whole
    <3>1. shares \in FractionOf(req.gpu, pool.gpu)
      BY <1>2, <2>2 DEF SharesOf
    <3> QED BY <1>3, <2>2, <3>1, FractionGives
  <2>3. CASE req.gpu # 0 /\ ~(req.gpu < Whole)
    <3>1. shares \in WholeOf(Rounded(req.gpu), pool.gpu)
      BY <1>2, <2>3 DEF SharesOf
    <3> QED BY <1>3, <3>1, RoundedIsNat, WholeGives
  <2> QED BY <2>1, <2>2, <2>3
<1>5. a.cpus = req.cpus /\ a.gpu = shares
  BY <1>1
<1>6. a \in Grants
  BY <1>1, <1>3, <1>4 DEF Grants
<1>7. Covers(pool, a)
  BY <1>2, <1>3, <1>4, <1>5 DEF Covers
<1> QED BY <1>5, <1>6, <1>7

\* _fit gives one assignment.
LEMMA FitIsOne ==
    ASSUME NEW req, Amounts(req), NEW pool \in Pools, NEW a \in Fit(req, pool), NEW b \in Fit(req, pool)
    PROVE  a = b
<1> DEFINE some == IF req.cpus > pool.cpus THEN {} ELSE SharesOf(req.gpu, pool.gpu)
<1>1. PICK s \in some : a = [cpus |-> req.cpus, gpu |-> s]
  BY DEF Fit
<1>2. PICK t \in some : b = [cpus |-> req.cpus, gpu |-> t]
  BY DEF Fit
<1>3. s \in SharesOf(req.gpu, pool.gpu) /\ t \in SharesOf(req.gpu, pool.gpu)
  BY <1>1, <1>2
<1>4. req.gpu \in Nat /\ pool.gpu \in [GPUs -> Int]
  BY DEF Amounts, Pools
<1>5. s = t
  <2>1. CASE req.gpu = 0
    BY <1>3, <2>1 DEF SharesOf
  <2>2. CASE req.gpu # 0 /\ req.gpu < Whole
    <3> DEFINE room == {g \in GPUs : pool.gpu[g] >= req.gpu}
    <3>1. s \in FractionOf(req.gpu, pool.gpu) /\ t \in FractionOf(req.gpu, pool.gpu)
      BY <1>3, <2>2 DEF SharesOf
    <3>2. PICK c \in GPUs : /\ s = [g \in GPUs |-> IF g = c THEN req.gpu ELSE 0]
                            /\ FullestOf(room, pool.gpu, c)
      BY <1>4, <2>2, <3>1, FractionGives
    <3>3. PICK d \in GPUs : /\ t = [g \in GPUs |-> IF g = d THEN req.gpu ELSE 0]
                            /\ FullestOf(room, pool.gpu, d)
      BY <1>4, <2>2, <3>1, FractionGives
    <3>4. room \in SUBSET GPUs
      OBVIOUS
    <3> HIDE DEF room
    <3>5. c = d
      BY <1>4, <3>2, <3>3, <3>4, FullestIsOne
    <3> QED BY <3>2, <3>3, <3>5
  <2>3. CASE req.gpu # 0 /\ ~(req.gpu < Whole)
    <3>1. s \in WholeOf(Rounded(req.gpu), pool.gpu) /\ t \in WholeOf(Rounded(req.gpu), pool.gpu)
      BY <1>3, <2>3 DEF SharesOf
    <3> QED BY <3>1 DEF WholeOf
  <2> QED BY <2>1, <2>2, <2>3
<1> QED BY <1>1, <1>2, <1>5

\* A request that fitted fits wherever its assignment is covered.
LEMMA FitAgain ==
    ASSUME NEW req, Amounts(req), NEW pool \in Pools, NEW a \in Fit(req, pool),
           NEW later \in Pools, Covers(later, a)
    PROVE  Fit(req, later) # {}
<1> DEFINE some == IF req.cpus > pool.cpus THEN {} ELSE SharesOf(req.gpu, pool.gpu)
<1>1. PICK s \in some : a = [cpus |-> req.cpus, gpu |-> s]
  BY DEF Fit
<1>2. s \in SharesOf(req.gpu, pool.gpu)
  BY <1>1
<1>3. /\ req.cpus \in Nat /\ req.gpu \in Nat
      /\ pool.gpu \in [GPUs -> Int] /\ later.gpu \in [GPUs -> Int] /\ later.cpus \in Int
  BY DEF Amounts, Pools
<1>4. ~(req.cpus > later.cpus) /\ \A g \in GPUs : s[g] = 0 \/ s[g] <= later.gpu[g]
  BY <1>1, <1>3 DEF Covers
<1>5. SharesOf(req.gpu, later.gpu) # {}
  <2>1. CASE req.gpu = 0
    BY <2>1 DEF SharesOf
  <2>2. CASE req.gpu # 0 /\ req.gpu < Whole
    <3> DEFINE room == {g \in GPUs : later.gpu[g] >= req.gpu}
    <3>1. s \in FractionOf(req.gpu, pool.gpu)
      BY <1>2, <2>2 DEF SharesOf
    <3>2. PICK c \in GPUs : /\ s = [g \in GPUs |-> IF g = c THEN req.gpu ELSE 0]
                            /\ FullestOf({g \in GPUs : pool.gpu[g] >= req.gpu}, pool.gpu, c)
      <4>1. req.gpu \in Nat /\ req.gpu < Whole /\ pool.gpu \in [GPUs -> Int]
        BY <1>3, <2>2
      <4> HIDE DEF some
      <4> QED BY <3>1, <4>1, FractionGives
    <3>3. s[c] = req.gpu
      BY <3>2
    <3>4. c \in room
      BY <1>3, <1>4, <2>2, <3>3
    <3>5. \E b : FullestOf(room, later.gpu, b)
      <4>1. room \in SUBSET GPUs /\ room # {}
        BY <3>4
      <4> HIDE DEF room
      <4> QED BY <1>3, <4>1, FullestExists
    <3>6. FractionOf(req.gpu, later.gpu) # {}
      <4>1. PICK b \in room : \A g \in room : later.gpu[b] < later.gpu[g]
                                              \/ (later.gpu[b] = later.gpu[g] /\ b <= g)
        BY <3>5 DEF FullestOf
      <4>2. [g \in GPUs |-> IF g = b THEN req.gpu ELSE 0] \in FractionOf(req.gpu, later.gpu)
        BY <4>1 DEF FractionOf
      <4> QED BY <4>2
    <3> QED BY <2>2, <3>6 DEF SharesOf
  <2>3. CASE req.gpu # 0 /\ ~(req.gpu < Whole)
    <3> DEFINE n == Rounded(req.gpu)
               full == {g \in GPUs : pool.gpu[g] >= Whole}
               chosen == {g \in full : Cardinality({h \in full : h < g}) < n}
               fullLater == {g \in GPUs : later.gpu[g] >= Whole}
    <3>1. s \in WholeOf(n, pool.gpu) /\ n \in Nat
      BY <1>2, <1>3, <2>3, RoundedIsNat DEF SharesOf
    <3> HIDE DEF n
    <3>2. ~(Cardinality(full) < n) /\ s = [g \in GPUs |-> IF g \in chosen THEN Whole ELSE 0]
      BY <3>1 DEF WholeOf
    <3>3. IsFiniteSet(full) /\ Cardinality(full) \in Nat /\ IsFiniteSet(fullLater)
          /\ Cardinality(fullLater) \in Nat
      <4>1. full \in SUBSET GPUs /\ fullLater \in SUBSET GPUs
        OBVIOUS
      <4> HIDE DEF full, fullLater
      <4> QED BY <4>1, CapacityAssumption, FS_Subset, FS_CardinalityType
    <3>4. Cardinality(chosen) >= n
      <4>1. full \in SUBSET GPUs
        OBVIOUS
      <4> HIDE DEF full
      <4> QED BY <3>1, <3>2, <3>3, <4>1, LowestAreEnough
    <3>5. chosen \in SUBSET fullLater
      <4> SUFFICES ASSUME NEW g \in chosen PROVE g \in fullLater
        OBVIOUS
      <4>1. g \in GPUs /\ s[g] = Whole
        <5> HIDE DEF chosen
        <5>1. g \in GPUs
          BY DEF chosen
        <5> QED BY <3>2, <5>1
      <4>2. Whole <= later.gpu[g]
        BY <1>4, <4>1, WholeIsPositive
      <4> QED BY <1>3, <4>1, <4>2, WholeIsPositive
    <3>6. ~(Cardinality(fullLater) < n)
      <4> HIDE DEF fullLater, chosen
      <4>1. Cardinality(chosen) <= Cardinality(fullLater) /\ Cardinality(chosen) \in Nat
        BY <3>3, <3>5, FS_Subset, FS_CardinalityType
      <4> QED BY <3>1, <3>3, <3>4, <4>1
    <3>7. WholeOf(n, later.gpu) # {}
      BY <3>6 DEF WholeOf
    <3> QED BY <2>3, <3>7 DEF n, SharesOf
  <2> QED BY <2>1, <2>2, <2>3
<1> QED BY <1>4, <1>5 DEF Fit

\* Whole GPUs in whole amounts.
WholeAmount(n) == n % Whole = 0

\* A request for whole GPUs is given each GPU wholly or not at all.
LEMMA WholeAssignment ==
    ASSUME NEW req, Amounts(req), WholeAmount(req.gpu), NEW pool \in Pools, NEW a \in Fit(req, pool)
    PROVE  \A g \in GPUs : a.gpu[g] \in {0, Whole}
<1> DEFINE some == IF req.cpus > pool.cpus THEN {} ELSE SharesOf(req.gpu, pool.gpu)
<1>1. PICK s \in some : a = [cpus |-> req.cpus, gpu |-> s]
  BY DEF Fit
<1>2. s \in SharesOf(req.gpu, pool.gpu) /\ a.gpu = s
  BY <1>1
<1>3. CASE req.gpu = 0
  BY <1>2, <1>3 DEF SharesOf, NoShares
<1>4. CASE req.gpu # 0
  <2>1. ~(req.gpu < Whole)
    BY <1>4, WholeIsPositive DEF WholeAmount, Amounts
  <2>2. s \in WholeOf(Rounded(req.gpu), pool.gpu)
    BY <1>2, <1>4, <2>1 DEF SharesOf
  <2>3. PICK chosen : s = [g \in GPUs |-> IF g \in chosen THEN Whole ELSE 0]
    BY <2>2 DEF WholeOf
  <2> QED BY <1>2, <2>3
<1> QED BY <1>3, <1>4

\* A whole amount is so many GPUs, and the code's rounding finds how many.
LEMMA WholeIsRounded ==
    ASSUME NEW n \in Nat, WholeAmount(n), NEW c \in Nat, n <= Whole * c
    PROVE  Rounded(n) \in Nat /\ Rounded(n) <= c
<1> DEFINE q == n \div Whole
<1>1. n % Whole = 0 /\ Whole \in Nat /\ Whole > 0
  BY WholeIsPositive DEF WholeAmount
<1>2. Rounded(n) = q
  <2>1. ~(2 * 0 > Whole) /\ 2 * 0 # Whole
    BY <1>1
  <2> QED BY <1>1, <2>1 DEF Rounded
<1>3. q \in Nat /\ n = Whole * q
  BY <1>1
<1> HIDE DEF q
<1>4. ASSUME q > c PROVE FALSE
  <2>1. PICK d \in Nat : q = c + 1 + d
    <3>1. q - c - 1 \in Nat /\ q = c + 1 + (q - c - 1)
      BY <1>3, <1>4
    <3> QED BY <3>1
  <2>2. Whole * q = Whole * c + Whole + Whole * d
    BY <1>1, <2>1
  <2>3. Whole * d >= 0 /\ Whole * d \in Int /\ Whole * c \in Int
    BY <1>1, <2>1
  <2> QED BY <1>1, <1>3, <2>2, <2>3
<1> QED BY <1>2, <1>3, <1>4

\* Enough free GPUs, for a fraction or for whole ones, are enough.
LEMMA EnoughWholes ==
    ASSUME NEW req, Amounts(req), req.gpu < Whole \/ WholeAmount(req.gpu),
           NEW pool \in Pools, req.cpus <= pool.cpus,
           NEW low \in SUBSET GPUs, \A g \in low : pool.gpu[g] >= Whole,
           req.gpu <= Whole * Cardinality(low)
    PROVE  Fit(req, pool) # {}
<1> DEFINE full == {g \in GPUs : pool.gpu[g] >= Whole}
           room == {g \in GPUs : pool.gpu[g] >= req.gpu}
<1>1. req.cpus \in Nat /\ req.gpu \in Nat /\ pool.cpus \in Int /\ pool.gpu \in [GPUs -> Int]
  BY DEF Amounts, Pools
<1>2. IsFiniteSet(full) /\ low \in SUBSET full /\ IsFiniteSet(low)
  BY CapacityAssumption, FS_Subset
<1>3. Cardinality(low) \in Nat /\ Cardinality(full) \in Nat /\ Cardinality(low) <= Cardinality(full)
  <2> HIDE DEF full
  <2> QED BY <1>2, FS_Subset, FS_CardinalityType
<1>4. SharesOf(req.gpu, pool.gpu) # {}
  <2>1. CASE req.gpu = 0
    BY <2>1 DEF SharesOf
  <2>2. CASE req.gpu # 0 /\ req.gpu < Whole
    <3>1. low # {}
      <4>1. Cardinality({}) = 0 /\ Whole * 0 = 0
        BY FS_EmptySet, WholeIsPositive
      <4> QED BY <1>1, <2>2, <4>1
    <3>2. room # {}
      BY <1>1, <2>2, <3>1, WholeIsPositive
    <3>3. room \in SUBSET GPUs
      OBVIOUS
    <3>4. \E b : FullestOf(room, pool.gpu, b)
      <4> HIDE DEF room
      <4> QED BY <1>1, <3>2, <3>3, FullestExists
    <3>5. FractionOf(req.gpu, pool.gpu) # {}
      <4>1. PICK b : FullestOf(room, pool.gpu, b)
        BY <3>4
      <4>2. [g \in GPUs |-> IF g = b THEN req.gpu ELSE 0] \in FractionOf(req.gpu, pool.gpu)
        BY <4>1 DEF FractionOf, FullestOf
      <4> QED BY <4>2
    <3> QED BY <2>2, <3>5 DEF SharesOf
  <2>3. CASE req.gpu # 0 /\ ~(req.gpu < Whole)
    <3>1. WholeAmount(req.gpu)
      BY <2>3
    <3>2. Rounded(req.gpu) \in Nat /\ Rounded(req.gpu) <= Cardinality(low)
      BY <1>1, <1>3, <3>1, WholeIsRounded
    <3>3. ~(Cardinality(full) < Rounded(req.gpu))
      <4> HIDE DEF full
      <4> QED BY <1>3, <3>2
    <3>4. WholeOf(Rounded(req.gpu), pool.gpu) # {}
      BY <3>3 DEF WholeOf
    <3> QED BY <2>3, <3>4 DEF SharesOf
  <2> QED BY <2>1, <2>2, <2>3
<1>5. ~(req.cpus > pool.cpus)
  BY <1>1
<1> QED BY <1>4, <1>5 DEF Fit

-----------------------------------------------------------------------------
(***************************************************************************)
(* One entry ahead: what it leaves.                                        *)
(***************************************************************************)
LEMMA TakeGives ==
    ASSUME NEW pool \in Pools, NEW a \in Grants, Covers(pool, a)
    PROVE  /\ Take(pool, a) \in Pools /\ Below(Take(pool, a), pool)
           /\ Take(pool, a).cpus = pool.cpus - a.cpus /\ Take(pool, a).cpus >= 0
           /\ \A g \in GPUs : Take(pool, a).gpu[g] = pool.gpu[g] - a.gpu[g]
<1>1. /\ pool.cpus \in Int /\ a.cpus \in Nat
      /\ \A g \in GPUs : pool.gpu[g] \in Int /\ a.gpu[g] \in Int /\ a.gpu[g] >= 0
  BY WholeIsPositive DEF Pools, Grants, Shares
<1>2. /\ Take(pool, a).cpus = pool.cpus - a.cpus
      /\ \A g \in GPUs : Take(pool, a).gpu[g] = pool.gpu[g] - a.gpu[g]
  BY DEF Take
<1>3. Take(pool, a) \in Pools
  BY <1>1 DEF Take, Pools
<1>4. Take(pool, a).cpus >= 0
  BY <1>1, <1>2 DEF Covers
<1>5. Below(Take(pool, a), pool)
  BY <1>1, <1>2 DEF Below
<1> QED BY <1>2, <1>3, <1>4, <1>5

\* _hold_back leaves a pool that is no larger.
LEMMA HoldBackGives ==
    ASSUME NEW req, Amounts(req), NEW pool \in Pools, pool.cpus >= 0
    PROVE  /\ HoldBack(pool, req) \in Pools /\ Below(HoldBack(pool, req), pool)
           /\ HoldBack(pool, req).cpus >= 0
<1> DEFINE before(g) == {h \in GPUs : \/ pool.gpu[h] > pool.gpu[g]
                                      \/ pool.gpu[h] = pool.gpu[g] /\ h < g}
           drained(g) == MapThenSumSet(LAMBDA h : NonNeg(pool.gpu[h]), before(g))
           taken(g) == LET want == NonNeg(req.gpu - drained(g))
                           have == NonNeg(pool.gpu[g])
                       IN  IF have < want THEN have ELSE want
<1>1. HoldBack(pool, req) = [cpus |-> NonNeg(pool.cpus - req.cpus),
                             gpu  |-> [g \in GPUs |-> pool.gpu[g] - taken(g)]]
  BY DEF HoldBack
<1>2. pool.cpus \in Int /\ req.cpus \in Nat /\ req.gpu \in Nat /\ pool.gpu \in [GPUs -> Int]
  BY DEF Pools, Amounts
<1>3. ASSUME NEW g \in GPUs PROVE taken(g) \in Int /\ taken(g) >= 0
  <2>1. drained(g) \in Int
    <3>1. before(g) \in SUBSET GPUs
      OBVIOUS
    <3> HIDE DEF before
    <3> QED BY <1>2, <3>1, DrainedIsASum
  <2> HIDE DEF drained
  <2>2. pool.gpu[g] \in Int
    BY <1>2
  <2> QED BY <1>2, <2>1, <2>2 DEF NonNeg
<1> HIDE DEF taken
<1>4. \A g \in GPUs : pool.gpu[g] - taken(g) \in Int /\ pool.gpu[g] - taken(g) <= pool.gpu[g]
  BY <1>2, <1>3
<1>5. /\ NonNeg(pool.cpus - req.cpus) \in Int /\ NonNeg(pool.cpus - req.cpus) >= 0
      /\ NonNeg(pool.cpus - req.cpus) <= pool.cpus
  BY <1>2 DEF NonNeg
<1>6. HoldBack(pool, req) \in Pools
  BY <1>1, <1>4, <1>5 DEF Pools
<1> QED BY <1>1, <1>4, <1>5, <1>6 DEF Below

\* A GPU that _hold_back leaves whole was whole, and so many lower ones were that
\* they cover what is set aside.
LEMMA HoldBackLeaves ==
    ASSUME NEW req, Amounts(req), NEW pool \in Pools, \A g \in GPUs : pool.gpu[g] <= Whole,
           NEW g \in GPUs, HoldBack(pool, req).gpu[g] >= Whole
    PROVE  req.gpu <= Whole * Cardinality({h \in GPUs : pool.gpu[h] = Whole /\ h < g})
<1> DEFINE before(x) == {h \in GPUs : \/ pool.gpu[h] > pool.gpu[x]
                                      \/ pool.gpu[h] = pool.gpu[x] /\ h < x}
           drained(x) == MapThenSumSet(LAMBDA h : NonNeg(pool.gpu[h]), before(x))
           taken(x) == LET want == NonNeg(req.gpu - drained(x))
                           have == NonNeg(pool.gpu[x])
                       IN  IF have < want THEN have ELSE want
           low == {h \in GPUs : pool.gpu[h] = Whole /\ h < g}
           w == FreeOf(pool.gpu)
<1>1. HoldBack(pool, req).gpu[g] = pool.gpu[g] - taken(g)
  BY DEF HoldBack
<1>2. req.gpu \in Nat /\ pool.gpu \in [GPUs -> Int] /\ Whole \in Nat /\ Whole > 0
  BY WholeIsPositive DEF Pools, Amounts
<1>3. /\ drained(g) = Sum(w, before(g)) /\ drained(g) \in Int
      /\ w \in [GPUs -> Int] /\ IsFiniteSet(before(g))
  <2>1. before(g) \in SUBSET GPUs
    OBVIOUS
  <2> HIDE DEF before
  <2> QED BY <1>2, <2>1, DrainedIsASum
<1>4. pool.gpu[g] = Whole /\ req.gpu <= drained(g)
  <2> HIDE DEF drained
  <2>1. pool.gpu[g] \in Int /\ pool.gpu[g] <= Whole
    BY <1>2
  <2> QED BY <1>1, <1>2, <1>3, <2>1 DEF NonNeg
<1>5. before(g) = low
  BY <1>2, <1>4
<1>6. \A h \in before(g) : w[h] <= Whole
  <2> SUFFICES ASSUME NEW h \in GPUs PROVE w[h] <= Whole
    OBVIOUS
  <2>1. pool.gpu[h] \in Int /\ pool.gpu[h] <= Whole
    BY <1>2
  <2> QED BY <1>2, <2>1 DEF FreeOf, NonNeg
<1>7. before(g) \in SUBSET GPUs
  OBVIOUS
<1> HIDE DEF before, w, low, drained
<1>8. Sum(w, before(g)) <= Whole * Cardinality(before(g))
  BY <1>2, <1>3, <1>6, <1>7, SumAtMost
<1>9. Whole * Cardinality(low) \in Int
  BY <1>2, <1>3, <1>5, FS_CardinalityType
<1>10. req.gpu <= Whole * Cardinality(low)
  BY <1>2, <1>3, <1>4, <1>5, <1>8, <1>9
<1> QED BY <1>10 DEF low

\* Whoever takes whole GPUs of what was left of r, after a request was set aside, takes
\* none that the request needs: it fits in more than r as before.
LEMMA SetAsideStays ==
    ASSUME NEW req, Amounts(req), req.gpu < Whole \/ WholeAmount(req.gpu),
           NEW r \in GoodPools, \A g \in GPUs : r.gpu[g] <= Whole,
           NEW a \in Grants, \A g \in GPUs : a.gpu[g] \in {0, Whole}, Covers(HoldBack(r, req), a),
           NEW P \in Pools, Below(r, P), Fit(req, P) # {},
           NEW Q \in Pools, Q.cpus = P.cpus - a.cpus, \A g \in GPUs : Q.gpu[g] = P.gpu[g] - a.gpu[g]
    PROVE  Fit(req, Q) # {}
<1>1. PICK c \in Fit(req, P) : TRUE
  OBVIOUS
<1>2. c \in Grants /\ c.cpus = req.cpus /\ Covers(P, c)
  BY <1>1, FitGives
<1>3. /\ req.cpus \in Nat /\ req.gpu \in Nat /\ a.cpus \in Nat
      /\ r \in Pools /\ r.cpus \in Int /\ P.cpus \in Int /\ Q.cpus \in Int /\ r.cpus >= 0
      /\ \A g \in GPUs : r.gpu[g] \in Int /\ P.gpu[g] \in Int /\ Q.gpu[g] \in Int /\ c.gpu[g] \in Int
  BY <1>2, WholeIsPositive DEF Amounts, GoodPools, Pools, Grants, Shares
<1>4. req.cpus <= Q.cpus
  <2>1. HoldBack(r, req).cpus = NonNeg(r.cpus - req.cpus)
    BY DEF HoldBack
  <2>2. a.cpus <= NonNeg(r.cpus - req.cpus)
    BY <2>1 DEF Covers
  <2>3. r.cpus <= P.cpus /\ req.cpus <= P.cpus
    BY <1>2 DEF Below, Covers
  <2> QED BY <1>3, <2>2, <2>3 DEF NonNeg
<1> DEFINE used == {g \in GPUs : a.gpu[g] # 0}
<1>5. CASE used = {}
  <2>1. \A g \in GPUs : Q.gpu[g] = P.gpu[g]
    BY <1>3, <1>5
  <2>2. Covers(Q, c)
    BY <1>2, <1>4, <2>1 DEF Covers
  <2> QED BY <1>1, <2>2, FitAgain
<1>6. CASE used # {}
  <2>1. PICK g \in used : \A h \in used : ~(h < g)
    <3>1. used \in SUBSET Nat
      BY CapacityAssumption
    <3> HIDE DEF used
    <3> QED BY <1>6, <3>1, LeastNatural
  <2>2. a.gpu[g] = Whole /\ HoldBack(r, req).gpu[g] >= Whole
    <3>1. a.gpu[g] = Whole /\ a.gpu[g] <= HoldBack(r, req).gpu[g]
      BY <2>1 DEF Covers
    <3>2. HoldBack(r, req) \in Pools
      BY <1>3, HoldBackGives
    <3> QED BY <2>1, <3>1, <3>2, WholeIsPositive DEF Pools
  <2> DEFINE low == {h \in GPUs : r.gpu[h] = Whole /\ h < g}
  <2>3. req.gpu <= Whole * Cardinality(low)
    BY <1>3, <2>1, <2>2, HoldBackLeaves
  <2>4. \A h \in low : Q.gpu[h] >= Whole
    <3> SUFFICES ASSUME NEW h \in low PROVE Q.gpu[h] >= Whole
      OBVIOUS
    <3>1. a.gpu[h] = 0
      BY <2>1
    <3>2. r.gpu[h] = Whole /\ r.gpu[h] <= P.gpu[h]
      BY DEF Below
    <3> QED BY <1>3, <3>1, <3>2, WholeIsPositive
  <2>5. low \in SUBSET GPUs
    OBVIOUS
  <2> HIDE DEF low
  <2> QED BY <1>4, <2>3, <2>4, <2>5, EnoughWholes
<1> QED BY <1>5, <1>6

\* Whoever takes of what was left of r, after a request was given its place in it,
\* takes nothing of that place: the request fits in more than r as before.
LEMMA PlaceStays ==
    ASSUME NEW req, Amounts(req), NEW r \in GoodPools, NEW c \in Fit(req, r),
           NEW a \in Grants, Covers(Take(r, c), a),
           NEW P \in Pools, Below(r, P),
           NEW Q \in Pools, Q.cpus = P.cpus - a.cpus, \A g \in GPUs : Q.gpu[g] = P.gpu[g] - a.gpu[g]
    PROVE  Fit(req, Q) # {}
<1>1. r \in Pools /\ c \in Grants /\ Covers(r, c)
  BY FitGives DEF GoodPools
<1>2. /\ Take(r, c).cpus = r.cpus - c.cpus
      /\ \A g \in GPUs : Take(r, c).gpu[g] = r.gpu[g] - c.gpu[g]
  BY <1>1, TakeGives
<1>3. /\ r.cpus \in Int /\ P.cpus \in Int /\ Q.cpus \in Int /\ a.cpus \in Int /\ c.cpus \in Int
      /\ \A g \in GPUs : /\ r.gpu[g] \in Int /\ P.gpu[g] \in Int /\ Q.gpu[g] \in Int
                         /\ a.gpu[g] \in Int /\ c.gpu[g] \in Int
  BY <1>1, WholeIsPositive DEF Pools, Grants, Shares
<1>4. c.cpus <= Q.cpus
  BY <1>2, <1>3 DEF Covers, Below
<1>5. ASSUME NEW g \in GPUs PROVE c.gpu[g] = 0 \/ c.gpu[g] <= Q.gpu[g]
  <2>1. c.gpu[g] = 0 \/ c.gpu[g] <= r.gpu[g]
    BY <1>1 DEF Covers
  <2>2. a.gpu[g] = 0 \/ a.gpu[g] <= r.gpu[g] - c.gpu[g]
    BY <1>2 DEF Covers
  <2>3. r.gpu[g] <= P.gpu[g] /\ Q.gpu[g] = P.gpu[g] - a.gpu[g]
    BY DEF Below
  <2> QED BY <1>3, <2>1, <2>2, <2>3
<1>6. Covers(Q, c)
  BY <1>4, <1>5 DEF Covers
<1> QED BY <1>1, <1>6, FitAgain

\* What an entry ahead leaves is one pool, no larger; none when it holds everyone.
LEMMA ConsiderGives ==
    ASSUME NEW me, NEW q, Amounts(q), NEW pool \in Pools, pool.cpus >= 0
    PROVE  /\ \A p \in Consider(me, q, pool) : p \in Pools /\ p.cpus >= 0 /\ Below(p, pool)
           /\ \A p, r \in Consider(me, q, pool) : p = r
<1>1. CASE Fit(q, pool) # {}
  <2>1. Consider(me, q, pool) = {Take(pool, a) : a \in Fit(q, pool)}
    BY <1>1 DEF Consider
  <2>2. \A a \in Fit(q, pool) : a \in Grants /\ Covers(pool, a)
    BY FitGives
  <2>3. \A a, b \in Fit(q, pool) : a = b
    BY FitIsOne
  <2> QED BY <2>1, <2>2, <2>3, TakeGives
<1>2. CASE Fit(q, pool) = {}
  <2>1. Consider(me, q, pool) \in {{HoldBack(pool, q)}, {}, {pool}}
    BY <1>2 DEF Consider
  <2> QED BY <2>1, HoldBackGives, BelowOrders
<1> QED BY <1>1, <1>2

-----------------------------------------------------------------------------
(***************************************************************************)
(* The loop over the entries ahead, in their order.                        *)
(***************************************************************************)

\* f[n] is what n steps make of v.
IsRun(v, T, N, f) == f = [n \in 0..N |-> IF n = 0 THEN v ELSE T[n][f[n - 1]]]

\* Steps can be taken one after the other.
LEMMA RunExists ==
    ASSUME NEW V, NEW v \in V, NEW N \in Nat, NEW T \in [1..N -> [V -> V]]
    PROVE  \E f \in [0..N -> V] : IsRun(v, T, N, f)
<1> DEFINE Z == {m \in 0..N : ~\E f \in [0..m -> V] : IsRun(v, T, m, f)}
<1> SUFFICES ASSUME Z # {} PROVE FALSE
  OBVIOUS
<1>1. PICK m \in Z : \A k \in Z : ~(k < m)
  <2>1. Z \in SUBSET Nat
    OBVIOUS
  <2> HIDE DEF Z
  <2> QED BY <2>1, LeastNatural
<1>2. m \in 0..N /\ ~\E f \in [0..m -> V] : IsRun(v, T, m, f)
  BY <1>1
<1>3. CASE m = 0
  <2> DEFINE f == [n \in 0..0 |-> v]
  <2>1. f = [n \in 0..0 |-> IF n = 0 THEN v ELSE T[n][f[n - 1]]]
    OBVIOUS
  <2>2. f \in [0..0 -> V] /\ IsRun(v, T, 0, f)
    BY <2>1 DEF IsRun
  <2> QED BY <1>2, <1>3, <2>2
<1>4. CASE m # 0
  <2>1. m - 1 \in 0..N /\ m - 1 < m /\ m \in 1..N
    BY <1>2, <1>4
  <2>2. PICK f \in [0..(m - 1) -> V] : IsRun(v, T, m - 1, f)
    BY <1>1, <2>1
  <2> DEFINE g == [n \in 0..m |-> IF n = m THEN T[m][f[m - 1]] ELSE f[n]]
             rhs == [n \in 0..m |-> IF n = 0 THEN v ELSE T[n][g[n - 1]]]
  <2>3. g \in [0..m -> V]
    <3>1. T[m][f[m - 1]] \in V
      BY <2>1, <2>2
    <3>2. \A n \in 0..m : n # m => n \in 0..(m - 1)
      BY <1>2
    <3> QED BY <2>2, <3>1, <3>2
  <2>4. ASSUME NEW n \in 0..m PROVE g[n] = rhs[n]
    <3>1. CASE n = m
      <4>1. m - 1 \in 0..m /\ m - 1 # m
        BY <1>2, <1>4
      <4>2. g[m - 1] = f[m - 1]
        BY <4>1
      <4> QED BY <1>4, <3>1, <4>2
    <3>2. CASE n # m
      <4>1. n \in 0..(m - 1)
        BY <1>2, <3>2
      <4>2. f[n] = IF n = 0 THEN v ELSE T[n][f[n - 1]]
        <5> DEFINE F == [k \in 0..(m - 1) |-> IF k = 0 THEN v ELSE T[k][f[k - 1]]]
        <5>1. f = F
          BY <2>2 DEF IsRun
        <5>2. F[n] = IF n = 0 THEN v ELSE T[n][f[n - 1]]
          BY <4>1
        <5> HIDE DEF F
        <5> QED BY <5>1, <5>2
      <4>3. n # 0 => n - 1 \in 0..m /\ n - 1 # m
        BY <1>2, <4>1
      <4>4. n # 0 => g[n - 1] = f[n - 1]
        BY <4>3
      <4> QED BY <3>2, <4>2, <4>4
    <3> QED BY <3>1, <3>2
  <2>5. IsRun(v, T, m, g)
    BY <2>3, <2>4 DEF IsRun
  <2> QED BY <1>2, <2>3, <2>5
<1> QED BY <1>3, <1>4

QueueEntry == [key : Jobs, prio : Int, enq : Nat, late : BOOLEAN, cpus : Nat, gpu : Nat]

\* A queue as the directory can hold one: an entry per key.
IsQueue(queue) ==
    /\ queue \in SUBSET QueueEntry
    /\ IsFiniteSet(queue)
    /\ \A p, q \in queue : p.key = q.key => p = q

Ahead(me, queue) == {q \in queue : Before(q, me)}
Ranked(me, queue, n) ==
    {q \in Ahead(me, queue) : Cardinality({p \in Ahead(me, queue) : Before(p, q)}) = n - 1}
Entries(me, queue) == Cardinality(Ahead(me, queue))

\* What the n-th entry ahead of me leaves of the pools in P.
After(me, queue, n, P) ==
    UNION {Consider(me, q, pool) : q \in Ranked(me, queue, n), pool \in P}

\* f[n]: the pools left after the first n entries ahead of me.
IsLeft(me, running, queue, f) ==
    f = [n \in 0..Entries(me, queue) |->
            IF n = 0 THEN {PoolAfter(running)}
            ELSE After(me, queue, n, f[n - 1])]

\* Those ahead can be counted.
LEMMA AheadIsFinite ==
    ASSUME NEW queue, IsQueue(queue), NEW me
    PROVE  /\ Ahead(me, queue) \in SUBSET QueueEntry
           /\ IsFiniteSet(Ahead(me, queue)) /\ Entries(me, queue) \in Nat
<1>1. Ahead(me, queue) \in SUBSET queue
  BY DEF Ahead
<1> QED BY <1>1, FS_Subset, FS_CardinalityType DEF IsQueue, Entries

\* An entry of queue/ is a request.
LEMMA EntriesAskAmounts == \A q \in QueueEntry : Amounts(q)
BY DEF QueueEntry, Amounts

\* The loop leaves something.
LEMMA LeftExists ==
    ASSUME NEW queue, IsQueue(queue), NEW me, NEW running, PoolAfter(running) \in GoodPools
    PROVE  \E f : IsLeft(me, running, queue, f) /\ Turn(me, running, queue) = f[Entries(me, queue)]
<1> DEFINE N == Entries(me, queue)
           V == SUBSET GoodPools
           v == {PoolAfter(running)}
           T == [n \in 1..N |-> [P \in V |-> After(me, queue, n, P)]]
<1>1. N \in Nat
  BY AheadIsFinite
<1>2. ASSUME NEW n \in 1..N, NEW P \in V PROVE After(me, queue, n, P) \in V
  <2> SUFFICES ASSUME NEW q \in Ranked(me, queue, n), NEW pool \in P, NEW p \in Consider(me, q, pool)
               PROVE  p \in GoodPools
    BY DEF After
  <2>1. q \in QueueEntry
    BY AheadIsFinite DEF Ranked
  <2>2. Amounts(q) /\ pool \in Pools /\ pool.cpus >= 0
    BY <2>1, EntriesAskAmounts DEF GoodPools
  <2>3. p \in Pools /\ p.cpus >= 0
    BY <2>2, ConsiderGives
  <2> QED BY <2>3 DEF GoodPools
<1> HIDE DEF V
<1>3. T \in [1..N -> [V -> V]]
  BY <1>2
<1>4. v \in V
  BY DEF V
<1> HIDE DEF N, v
<1>5. PICK f \in [0..N -> V] : IsRun(v, T, N, f)
  <2> HIDE DEF T
  <2> QED BY <1>1, <1>3, <1>4, RunExists
<1>6. f = [n \in 0..N |-> IF n = 0 THEN v ELSE T[n][f[n - 1]]]
  BY <1>5 DEF IsRun
<1>7. ASSUME NEW n \in 0..N, n # 0 PROVE T[n][f[n - 1]] = After(me, queue, n, f[n - 1])
  <2>1. n \in 1..N /\ n - 1 \in 0..N
    BY <1>1, <1>7
  <2>2. f[n - 1] \in V
    BY <1>5, <2>1
  <2> QED BY <2>1, <2>2
<1>8. f = [n \in 0..N |-> IF n = 0 THEN v ELSE After(me, queue, n, f[n - 1])]
  <2> HIDE DEF T
  <2> DEFINE F == [n \in 0..N |-> IF n = 0 THEN v ELSE T[n][f[n - 1]]]
             G == [n \in 0..N |-> IF n = 0 THEN v ELSE After(me, queue, n, f[n - 1])]
  <2>1. F = G
    BY <1>7
  <2> QED BY <1>6, <2>1
<1>9. IsLeft(me, running, queue, f)
  BY <1>8 DEF IsLeft, N, v
<1> DEFINE h == CHOOSE it : IsLeft(me, running, queue, it)
<1>10. IsLeft(me, running, queue, h)
  BY <1>9
<1>11. Turn(me, running, queue) = h[Entries(me, queue)]
  BY DEF Turn, IsLeft, After, Entries, Ranked, Ahead
<1> HIDE DEF h
<1> QED BY <1>10, <1>11

\* What each entry ahead leaves.
LEMMA LeftStep ==
    ASSUME NEW queue, NEW me, NEW running, NEW f, IsLeft(me, running, queue, f),
           Entries(me, queue) \in Nat
    PROVE  /\ f[0] = {PoolAfter(running)}
           /\ \A n \in 1..Entries(me, queue) : f[n] = After(me, queue, n, f[n - 1])
<1> DEFINE N == Entries(me, queue)
           F == [n \in 0..N |-> IF n = 0 THEN {PoolAfter(running)}
                                         ELSE After(me, queue, n, f[n - 1])]
<1>1. f = F
  BY DEF IsLeft
<1>2. F[0] = {PoolAfter(running)}
  OBVIOUS
<1>3. \A n \in 1..N : F[n] = After(me, queue, n, f[n - 1])
  OBVIOUS
<1> HIDE DEF F
<1> QED BY <1>1, <1>2, <1>3

\* The pools only shrink from some entry on.
LEMMA LeftShrinks ==
    ASSUME NEW queue, IsQueue(queue), NEW me, NEW running, NEW f, IsLeft(me, running, queue, f),
           NEW from \in 0..Entries(me, queue), NEW bound \in Pools,
           \A p \in f[from] : p \in GoodPools /\ Below(p, bound)
    PROVE  \A n \in from..Entries(me, queue) : \A p \in f[n] : p \in GoodPools /\ Below(p, bound)
<1> DEFINE N == Entries(me, queue)
           Z == {n \in from..N : \E p \in f[n] : ~(p \in GoodPools /\ Below(p, bound))}
<1> SUFFICES ASSUME Z # {} PROVE FALSE
  OBVIOUS
<1>1. N \in Nat /\ Z \in SUBSET Nat
  BY AheadIsFinite
<1>2. PICK n \in Z : \A k \in Z : ~(k < n)
  <2> HIDE DEF Z
  <2> QED BY <1>1, LeastNatural
<1>3. n \in from..N /\ \E p \in f[n] : ~(p \in GoodPools /\ Below(p, bound))
  BY <1>2
<1>4. n # from
  BY <1>3
<1>5. n \in 1..N /\ n - 1 \in from..N /\ n - 1 < n
  BY <1>1, <1>3, <1>4
<1>6. \A p \in f[n - 1] : p \in GoodPools /\ Below(p, bound)
  BY <1>2, <1>5
<1>7. f[n] = After(me, queue, n, f[n - 1])
  BY <1>1, <1>5, LeftStep
<1>8. ASSUME NEW p \in f[n] PROVE p \in GoodPools /\ Below(p, bound)
  <2>1. PICK q \in Ranked(me, queue, n), pool \in f[n - 1] : p \in Consider(me, q, pool)
    BY <1>7 DEF After
  <2>2. q \in QueueEntry
    BY AheadIsFinite DEF Ranked
  <2>3. Amounts(q) /\ pool \in Pools /\ pool.cpus >= 0 /\ Below(pool, bound)
    BY <1>6, <2>2, EntriesAskAmounts DEF GoodPools
  <2>4. p \in Pools /\ p.cpus >= 0 /\ Below(p, pool)
    BY <2>1, <2>3, ConsiderGives
  <2> QED BY <2>3, <2>4, BelowOrders DEF GoodPools
<1> QED BY <1>3, <1>8

\* The order of the queue is strict and total.
LEMMA BeforeOrders ==
    ASSUME NEW p \in QueueEntry, NEW q \in QueueEntry, NEW r \in QueueEntry
    PROVE  /\ ~Before(p, p)
           /\ Before(p, q) /\ Before(q, r) => Before(p, r)
           /\ p.key # q.key => Before(p, q) \/ Before(q, p)
<1>1. /\ p.prio \in Int /\ p.enq \in Int /\ p.key \in Int
      /\ q.prio \in Int /\ q.enq \in Int /\ q.key \in Int
      /\ r.prio \in Int /\ r.enq \in Int /\ r.key \in Int
  <2>1. Jobs \subseteq Int
    BY JobsAssumption
  <2>2. \A x \in QueueEntry : x.prio \in Int /\ x.enq \in Int /\ x.key \in Int
    <3> SUFFICES ASSUME NEW x \in QueueEntry
                 PROVE  x.prio \in Int /\ x.enq \in Int /\ x.key \in Int
      OBVIOUS
    <3>1. x.prio \in Int /\ x.enq \in Nat /\ x.key \in Jobs
      BY DEF QueueEntry
    <3>2. x.key \in Int
      BY <2>1, <3>1
    <3> QED BY <3>1, <3>2
  <2> QED BY <2>2
<1>2. ~Before(p, p)
  BY <1>1 DEF Before
<1>3. Before(p, q) /\ Before(q, r) => Before(p, r)
  BY <1>1 DEF Before
<1>4. p.key # q.key => Before(p, q) \/ Before(q, p)
  BY <1>1 DEF Before
<1> QED BY <1>2, <1>3, <1>4

\* No two entries have the same rank.
LEMMA RankIsOne ==
    ASSUME NEW queue, IsQueue(queue), NEW me, NEW n \in Int,
           NEW p \in Ranked(me, queue, n), NEW q \in Ranked(me, queue, n)
    PROVE  p = q
<1> DEFINE ahead == Ahead(me, queue)
           preds(x) == {y \in ahead : Before(y, x)}
<1>1. ahead \in SUBSET QueueEntry /\ IsFiniteSet(ahead)
  BY AheadIsFinite
<1>2. p \in ahead /\ q \in ahead /\ Cardinality(preds(p)) = n - 1 /\ Cardinality(preds(q)) = n - 1
  BY DEF Ranked
<1>3. p \in queue /\ q \in queue
  BY <1>2 DEF Ahead
<1> HIDE DEF ahead
<1>4. ASSUME NEW x \in ahead, NEW y \in ahead, Before(x, y),
             Cardinality(preds(x)) = n - 1, Cardinality(preds(y)) = n - 1
      PROVE  FALSE
  <2>1. preds(x) \cup {x} \in SUBSET preds(y) /\ x \notin preds(x)
    BY <1>1, <1>4, BeforeOrders
  <2>2. preds(x) \in SUBSET ahead /\ preds(y) \in SUBSET ahead
    OBVIOUS
  <2> HIDE DEF preds
  <2>3. IsFiniteSet(preds(x)) /\ IsFiniteSet(preds(y))
    BY <1>1, <2>2, FS_Subset
  <2>4. Cardinality(preds(x) \cup {x}) = Cardinality(preds(x)) + 1
    BY <2>1, <2>3, FS_AddElement
  <2>5. Cardinality(preds(x) \cup {x}) <= Cardinality(preds(y))
    BY <2>1, <2>3, FS_Subset
  <2> QED BY <1>4, <2>4, <2>5
<1>5. ~Before(p, q) /\ ~Before(q, p)
  BY <1>2, <1>4
<1>6. p.key = q.key
  BY <1>1, <1>2, <1>5, BeforeOrders
<1> QED BY <1>3, <1>6 DEF IsQueue

\* There is at most one pool left.
LEMMA LeftIsOne ==
    ASSUME NEW queue, IsQueue(queue), NEW me, NEW running, NEW f, IsLeft(me, running, queue, f),
           PoolAfter(running) \in GoodPools
    PROVE  \A n \in 0..Entries(me, queue) : \A p, r \in f[n] : p = r
<1> DEFINE N == Entries(me, queue)
           Z == {n \in 0..N : \E p, r \in f[n] : p # r}
<1> SUFFICES ASSUME Z # {} PROVE FALSE
  OBVIOUS
<1>1. N \in Nat /\ Z \in SUBSET Nat
  BY AheadIsFinite
<1>2. PICK n \in Z : \A k \in Z : ~(k < n)
  <2> HIDE DEF Z
  <2> QED BY <1>1, LeastNatural
<1>3. n \in 0..N /\ \E p, r \in f[n] : p # r
  BY <1>2
<1>4. n # 0
  BY <1>1, <1>3, LeftStep
<1>5. n \in 1..N /\ n - 1 \in 0..N /\ n - 1 < n
  BY <1>1, <1>3, <1>4
<1>6. \A p, r \in f[n - 1] : p = r
  BY <1>2, <1>5
<1>7. f[n] = After(me, queue, n, f[n - 1])
  BY <1>1, <1>5, LeftStep
<1>8. \A p \in f[n - 1] : p \in GoodPools
  <2>1. PoolAfter(running) \in Pools
    BY DEF GoodPools
  <2>2. \A p \in f[0] : p \in GoodPools /\ Below(p, PoolAfter(running))
    BY <1>1, <2>1, LeftStep, BelowOrders
  <2>3. 0 \in 0..N
    BY <1>1
  <2>4. \A k \in 0..N : \A p \in f[k] : p \in GoodPools /\ Below(p, PoolAfter(running))
    BY <2>1, <2>2, <2>3, LeftShrinks
  <2> QED BY <1>5, <2>4
<1>9. ASSUME NEW p \in f[n], NEW r \in f[n] PROVE p = r
  <2>1. PICK q1 \in Ranked(me, queue, n), pool1 \in f[n - 1] : p \in Consider(me, q1, pool1)
    BY <1>7 DEF After
  <2>2. PICK q2 \in Ranked(me, queue, n), pool2 \in f[n - 1] : r \in Consider(me, q2, pool2)
    BY <1>7 DEF After
  <2>3. q1 = q2 /\ pool1 = pool2
    BY <1>5, <1>6, RankIsOne
  <2>4. q1 \in QueueEntry
    BY AheadIsFinite DEF Ranked
  <2>5. Amounts(q1) /\ pool1 \in Pools /\ pool1.cpus >= 0
    BY <1>8, <2>4, EntriesAskAmounts DEF GoodPools
  <2> QED BY <2>1, <2>2, <2>3, <2>5, ConsiderGives
<1> QED BY <1>3, <1>9

\* What the loop leaves for me: at most one pool, within what is free.
LEMMA TurnGives ==
    ASSUME NEW queue, IsQueue(queue), NEW me, NEW running, PoolAfter(running) \in GoodPools
    PROVE  /\ \A p \in Turn(me, running, queue) : p \in GoodPools /\ Below(p, PoolAfter(running))
           /\ \A p, r \in Turn(me, running, queue) : p = r
           /\ Ahead(me, queue) = {} => Turn(me, running, queue) = {PoolAfter(running)}
<1> DEFINE N == Entries(me, queue)
<1>1. PICK f : IsLeft(me, running, queue, f) /\ Turn(me, running, queue) = f[N]
  BY LeftExists
<1>2. N \in Nat
  BY AheadIsFinite
<1>3. f[0] = {PoolAfter(running)}
  BY <1>1, <1>2, LeftStep
<1>4. N \in 0..N /\ 0 \in 0..N
  BY <1>2
<1>5. \A p \in f[N] : p \in GoodPools /\ Below(p, PoolAfter(running))
  <2>1. PoolAfter(running) \in Pools
    BY DEF GoodPools
  <2>2. \A p \in f[0] : p \in GoodPools /\ Below(p, PoolAfter(running))
    BY <1>3, <2>1, BelowOrders
  <2> HIDE DEF N
  <2>3. 0 \in 0..Entries(me, queue) /\ N \in 0..Entries(me, queue)
    BY <1>4 DEF N
  <2> QED BY <1>1, <2>1, <2>2, <2>3, LeftShrinks
<1>6. \A p, r \in f[N] : p = r
  BY <1>1, <1>4, LeftIsOne
<1>7. Ahead(me, queue) = {} => N = 0
  BY FS_EmptySet DEF Entries
<1> QED BY <1>1, <1>3, <1>5, <1>6, <1>7

\* Everyone behind the head of the queue leaves it what it fits in.
LEMMA TurnAfterHead ==
    ASSUME NEW queue, IsQueue(queue), NEW me, NEW running, PoolAfter(running) \in GoodPools,
           NEW k \in Ahead(me, queue), \A p \in queue : p = k \/ Before(k, p),
           NEW a \in Fit(k, PoolAfter(running))
    PROVE  \A p \in Turn(me, running, queue) : Below(p, Take(PoolAfter(running), a))
<1> DEFINE N == Entries(me, queue)
           start == PoolAfter(running)
           bound == Take(start, a)
           preds == {p \in Ahead(me, queue) : Before(p, k)}
<1>1. PICK f : IsLeft(me, running, queue, f) /\ Turn(me, running, queue) = f[N]
  BY LeftExists
<1>2. Ahead(me, queue) \in SUBSET QueueEntry /\ IsFiniteSet(Ahead(me, queue)) /\ N \in Nat
  BY AheadIsFinite
<1>3. N \in 1..N /\ 1 \in 1..N /\ 1 \in 0..N
  <2>1. N # 0
    BY <1>2, FS_EmptySet DEF Entries
  <2> QED BY <1>2, <2>1
<1>4. k \in Ranked(me, queue, 1)
  <2>1. preds = {}
    BY <1>2, BeforeOrders DEF Ahead
  <2>2. Cardinality(preds) = 1 - 1
    BY <2>1, FS_EmptySet
  <2> QED BY <2>2 DEF Ranked
<1>5. \A q \in Ranked(me, queue, 1) : q = k
  BY <1>4, RankIsOne
<1>6. start \in Pools /\ Amounts(k)
  BY <1>2, EntriesAskAmounts DEF GoodPools
<1>7. a \in Grants /\ Covers(start, a) /\ \A b \in Fit(k, start) : b = a
  BY <1>6, FitGives, FitIsOne
<1>8. bound \in Pools /\ bound.cpus >= 0
  BY <1>6, <1>7, TakeGives
<1>9. \A p \in f[1] : p = bound
  <2>1. f[1] = After(me, queue, 1, f[1 - 1]) /\ f[0] = {start}
    BY <1>1, <1>2, <1>3, LeftStep
  <2>2. f[1] = After(me, queue, 1, {start})
    BY <2>1
  <2>3. Consider(me, k, start) = {Take(start, b) : b \in Fit(k, start)}
    BY DEF Consider
  <2>4. \A p \in Consider(me, k, start) : p = bound
    BY <1>7, <2>3
  <2> QED BY <1>5, <2>2, <2>4 DEF After
<1>10. \A p \in f[1] : p \in GoodPools /\ Below(p, bound)
  BY <1>8, <1>9, BelowOrders DEF GoodPools
<1>11. \A n \in 1..N : \A p \in f[n] : p \in GoodPools /\ Below(p, bound)
  <2> HIDE DEF bound
  <2> QED BY <1>1, <1>3, <1>8, <1>10, LeftShrinks
<1> QED BY <1>1, <1>3, <1>11

\* What is left for me was left by each entry ahead of me, at its turn, or is less.
LEMMA TurnAfter ==
    ASSUME NEW queue, IsQueue(queue), NEW me, NEW running, PoolAfter(running) \in GoodPools,
           NEW k \in Ahead(me, queue), NEW p \in Turn(me, running, queue)
    PROVE  \E r \in GoodPools : /\ Below(r, PoolAfter(running))
                                /\ \E s \in Consider(me, k, r) : Below(p, s)
<1> DEFINE N == Entries(me, queue)
           start == PoolAfter(running)
           preds == {q \in Ahead(me, queue) : Before(q, k)}
           n == Cardinality(preds) + 1
<1>1. PICK f : IsLeft(me, running, queue, f) /\ Turn(me, running, queue) = f[N]
  BY LeftExists
<1>2. Ahead(me, queue) \in SUBSET QueueEntry /\ IsFiniteSet(Ahead(me, queue)) /\ N \in Nat
  BY AheadIsFinite
<1>3. n \in 1..N /\ n \in Int
  <2>1. preds \in SUBSET Ahead(me, queue) /\ k \notin preds
    BY <1>2, BeforeOrders
  <2> HIDE DEF preds
  <2>2. IsFiniteSet(preds)
    BY <1>2, <2>1, FS_Subset
  <2>3. Cardinality(preds) \in Nat /\ Cardinality(preds \cup {k}) = Cardinality(preds) + 1
    BY <2>1, <2>2, FS_AddElement, FS_CardinalityType
  <2>4. preds \cup {k} \in SUBSET Ahead(me, queue)
    BY <2>1
  <2>5. Cardinality(preds \cup {k}) <= N
    BY <1>2, <2>4, FS_Subset DEF Entries
  <2> QED BY <1>2, <2>3, <2>5
<1>4. \A q \in Ranked(me, queue, n) : q = k
  <2>1. k \in Ranked(me, queue, n)
    <3>1. Cardinality(preds) = n - 1
      <4>1. Cardinality(preds) \in Nat
        <5>1. preds \in SUBSET Ahead(me, queue)
          OBVIOUS
        <5> HIDE DEF preds
        <5> QED BY <1>2, <5>1, FS_Subset, FS_CardinalityType
      <4> HIDE DEF preds
      <4> QED BY <4>1
    <3> HIDE DEF n
    <3> QED BY <3>1 DEF Ranked
  <2> HIDE DEF n
  <2> QED BY <1>3, <2>1, RankIsOne
<1> HIDE DEF n, preds
<1>5. start \in Pools
  BY DEF GoodPools
<1>6. f[0] = {start} /\ f[n] = After(me, queue, n, f[n - 1])
  BY <1>1, <1>2, <1>3, LeftStep
<1>7. N \in n..N /\ n \in 0..N /\ n - 1 \in 0..N /\ 0 \in 0..N
  BY <1>2, <1>3
<1>8. \A r \in f[n - 1] : r \in GoodPools /\ Below(r, start)
  <2>1. \A r \in f[0] : r \in GoodPools /\ Below(r, start)
    BY <1>5, <1>6, BelowOrders
  <2> HIDE DEF start
  <2>2. \A i \in 0..N : \A r \in f[i] : r \in GoodPools /\ Below(r, start)
    BY <1>1, <1>5, <1>7, <2>1, LeftShrinks DEF start
  <2> QED BY <1>7, <2>2
<1>9. f[n] # {}
  <2> SUFFICES ASSUME f[n] = {} PROVE FALSE
    OBVIOUS
  <2> DEFINE bound == [cpus |-> -1, gpu |-> [g \in GPUs |-> 0]]
  <2>1. bound \in Pools /\ bound.cpus = -1
    BY DEF Pools
  <2> HIDE DEF bound
  <2>2. \A q \in f[n] : q \in GoodPools /\ Below(q, bound)
    OBVIOUS
  <2>3. p \in GoodPools /\ Below(p, bound)
    BY <1>1, <1>7, <2>1, <2>2, LeftShrinks
  <2> QED BY <2>1, <2>3 DEF Below, GoodPools, Pools
<1>10. PICK s \in f[n] : TRUE
  BY <1>9
<1>11. PICK r \in f[n - 1] : s \in Consider(me, k, r)
  BY <1>4, <1>6, <1>10 DEF After
<1>12. k \in QueueEntry /\ Amounts(k)
  BY <1>2, EntriesAskAmounts
<1>13. s \in Pools /\ s.cpus >= 0
  BY <1>8, <1>11, <1>12, ConsiderGives DEF GoodPools
<1>14. \A q \in f[n] : q \in GoodPools /\ Below(q, s)
  <2>1. \A q \in f[n] : q = s
    BY <1>1, <1>7, LeftIsOne
  <2> QED BY <1>13, <2>1, BelowOrders DEF GoodPools
<1>15. Below(p, s)
  BY <1>1, <1>7, <1>13, <1>14, LeftShrinks
<1> QED BY <1>8, <1>11, <1>15

-----------------------------------------------------------------------------
(***************************************************************************)
(* What is free, and decide().                                             *)
(***************************************************************************)
LEMMA PoolAfterIs ==
    ASSUME NEW E \in SUBSET Entry, IsFiniteSet(E)
    PROVE  /\ PoolAfter(E) \in Pools
           /\ PoolAfter(E).cpus = Cpus - Sum(CpusOf, E) /\ Sum(CpusOf, E) \in Int
           /\ \A g \in GPUs : /\ PoolAfter(E).gpu[g] = Whole - Sum(ShareOf(g), E)
                              /\ Sum(ShareOf(g), E) \in Int
<1>1. /\ MapThenSumSet(LAMBDA a : a.assign.cpus, E) = Sum(CpusOf, E)
      /\ Sum(CpusOf, E) \in Int
  BY EntryWeights, CpusAreSummed, SumIs
<1>2. ASSUME NEW g \in GPUs
      PROVE  /\ MapThenSumSet(LAMBDA a : a.assign.gpu[g], E) = Sum(ShareOf(g), E)
             /\ Sum(ShareOf(g), E) \in Int
  BY EntryWeights, SharesAreSummed, SumIs
<1>3. PoolAfter(E) = [cpus |-> Cpus - Sum(CpusOf, E),
                      gpu |-> [g \in GPUs |-> Whole - Sum(ShareOf(g), E)]]
  BY <1>1, <1>2 DEF PoolAfter
<1>4. Sum(CpusOf, E) \in Int /\ \A g \in GPUs : Sum(ShareOf(g), E) \in Int
  BY EntryWeights, SumIs
<1>5. Cpus - Sum(CpusOf, E) \in Int /\ \A g \in GPUs : Whole - Sum(ShareOf(g), E) \in Int
  BY <1>4, WholeIsPositive
<1>6. PoolAfter(E) \in Pools
  BY <1>3, <1>5 DEF Pools
<1>7. /\ PoolAfter(E).cpus = Cpus - Sum(CpusOf, E)
      /\ \A g \in GPUs : PoolAfter(E).gpu[g] = Whole - Sum(ShareOf(g), E)
  BY <1>3
<1> QED BY <1>4, <1>6, <1>7

\* Nothing that runs adds anything.
LEMMA NothingTaken == PoolAfter({}) = AllFree
<1>1. {} \in SUBSET Entry /\ IsFiniteSet({})
  BY FS_EmptySet
<1>2. Sum(CpusOf, {}) = 0 /\ \A g \in GPUs : Sum(ShareOf(g), {}) = 0
  BY <1>1, EntryWeights, SumIs
<1>3. MapThenSumSet(LAMBDA a : a.assign.cpus, {}) = 0
  BY <1>1, <1>2, CpusAreSummed
<1>4. \A g \in GPUs : MapThenSumSet(LAMBDA a : a.assign.gpu[g], {}) = 0
  BY <1>1, <1>2, SharesAreSummed
<1>5. PoolAfter({}) = [cpus |-> Cpus - 0, gpu |-> [g \in GPUs |-> Whole - 0]]
  BY <1>3, <1>4 DEF PoolAfter
<1>6. Cpus - 0 = Cpus /\ Whole - 0 = Whole
  BY WholeIsPositive
<1> QED BY <1>5, <1>6 DEF AllFree

\* The more runs, the less is free.
LEMMA LessIsFree ==
    ASSUME NEW E \in SUBSET Entry, IsFiniteSet(E), NEW T \in SUBSET E
    PROVE  Below(PoolAfter(E), PoolAfter(T))
<1>1. T \in SUBSET Entry /\ IsFiniteSet(T)
  BY FS_Subset
<1>2. Sum(CpusOf, T) <= Sum(CpusOf, E)
  BY EntryWeights, SumGrows
<1>3. \A g \in GPUs : Sum(ShareOf(g), T) <= Sum(ShareOf(g), E)
  BY EntryWeights, SumGrows
<1>4. /\ PoolAfter(E).cpus = Cpus - Sum(CpusOf, E) /\ Sum(CpusOf, E) \in Int
      /\ PoolAfter(T).cpus = Cpus - Sum(CpusOf, T) /\ Sum(CpusOf, T) \in Int
  BY <1>1, PoolAfterIs
<1>5. ASSUME NEW g \in GPUs PROVE PoolAfter(E).gpu[g] <= PoolAfter(T).gpu[g]
  <2>1. /\ PoolAfter(E).gpu[g] = Whole - Sum(ShareOf(g), E) /\ Sum(ShareOf(g), E) \in Int
        /\ PoolAfter(T).gpu[g] = Whole - Sum(ShareOf(g), T) /\ Sum(ShareOf(g), T) \in Int
    BY <1>1, PoolAfterIs
  <2> QED BY <1>3, <2>1, WholeIsPositive
<1>6. PoolAfter(E).cpus <= PoolAfter(T).cpus
  BY <1>2, <1>4, WholeIsPositive
<1> QED BY <1>5, <1>6 DEF Below

\* One more entry takes its assignment from what is free.
LEMMA OneMoreTakes ==
    ASSUME NEW E \in SUBSET Entry, IsFiniteSet(E), NEW e \in Entry, e \notin E
    PROVE  /\ PoolAfter(E \cup {e}).cpus = PoolAfter(E).cpus - e.assign.cpus
           /\ \A g \in GPUs : PoolAfter(E \cup {e}).gpu[g] = PoolAfter(E).gpu[g] - e.assign.gpu[g]
<1> DEFINE F == E \cup {e}
<1>1. F \in SUBSET Entry /\ IsFiniteSet(F) /\ e \in F /\ F \in SUBSET F /\ F \ {e} = E
  BY FS_AddElement
<1> HIDE DEF F
<1>2. ASSUME NEW w \in [Entry -> Int] PROVE Sum(w, F) = w[e] + Sum(w, E) /\ w[e] \in Int
  BY <1>1, SumIs
<1>3. Sum(CpusOf, F) = e.assign.cpus + Sum(CpusOf, E) /\ e.assign.cpus \in Int
  BY <1>2, EntryWeights
<1>4. PoolAfter(F).cpus = PoolAfter(E).cpus - e.assign.cpus
  <2>1. /\ PoolAfter(E).cpus = Cpus - Sum(CpusOf, E) /\ Sum(CpusOf, E) \in Int
        /\ PoolAfter(F).cpus = Cpus - Sum(CpusOf, F) /\ Sum(CpusOf, F) \in Int
    BY <1>1, PoolAfterIs
  <2> QED BY <1>3, <2>1, WholeIsPositive
<1>5. ASSUME NEW g \in GPUs PROVE PoolAfter(F).gpu[g] = PoolAfter(E).gpu[g] - e.assign.gpu[g]
  <2>1. Sum(ShareOf(g), F) = e.assign.gpu[g] + Sum(ShareOf(g), E) /\ e.assign.gpu[g] \in Int
    BY <1>2, EntryWeights
  <2>2. /\ PoolAfter(E).gpu[g] = Whole - Sum(ShareOf(g), E) /\ Sum(ShareOf(g), E) \in Int
        /\ PoolAfter(F).gpu[g] = Whole - Sum(ShareOf(g), F) /\ Sum(ShareOf(g), F) \in Int
    BY <1>1, PoolAfterIs
  <2> QED BY <2>1, <2>2, WholeIsPositive
<1> QED BY <1>4, <1>5 DEF F

\* What decide() gives: one assignment, covered by what is free.
LEMMA DecideGives ==
    ASSUME NEW E \in SUBSET Entry, IsFiniteSet(E), NEW queue, IsQueue(queue),
           NEW me \in QueueEntry, NEW a \in Decide(me, E, queue)
    PROVE  /\ PoolAfter(E) \in GoodPools
           /\ \E p \in Turn(me, E, queue) : p \in Pools /\ Covers(p, a)
           /\ a \in Grants /\ Covers(PoolAfter(E), a)
           /\ a \in Assignments
           /\ \A b \in Decide(me, E, queue) : b = a
<1>1. Fit(me, PoolAfter(E)) # {} /\ Decide(me, E, queue) = UNION {Fit(me, pool) : pool \in Turn(me, E, queue)}
  BY DEF Decide
<1>2. Amounts(me) /\ PoolAfter(E) \in Pools
  BY EntriesAskAmounts, PoolAfterIs
<1>3. PoolAfter(E) \in GoodPools
  <2>1. PICK c \in Fit(me, PoolAfter(E)) : TRUE
    BY <1>1
  <2>2. c.cpus \in Nat /\ c.cpus <= PoolAfter(E).cpus
    BY <1>2, <2>1, FitGives DEF Grants, Covers
  <2>3. PoolAfter(E).cpus \in Int
    BY <1>2 DEF Pools
  <2> QED BY <1>2, <2>2, <2>3 DEF GoodPools
<1>4. PICK p \in Turn(me, E, queue) : a \in Fit(me, p)
  BY <1>1
<1>5. p \in Pools /\ Below(p, PoolAfter(E))
  BY <1>3, TurnGives DEF GoodPools
<1>6. a \in Grants /\ Covers(p, a)
  BY <1>2, <1>4, <1>5, FitGives
<1>7. Covers(PoolAfter(E), a)
  BY <1>2, <1>5, <1>6, BelowOrders
<1>8. a \in Assignments
  <2>1. Below(PoolAfter(E), AllFree)
    <3>1. {} \in SUBSET E
      OBVIOUS
    <3> QED BY <3>1, LessIsFree, NothingTaken
  <2>2. PoolAfter(E).cpus <= Cpus /\ PoolAfter(E).cpus \in Int
    BY <1>2, <2>1 DEF Below, AllFree, Pools
  <2>3. a.cpus \in Nat /\ a.cpus <= Cpus
    BY <1>6, <1>7, <2>2, WholeIsPositive DEF Grants, Covers
  <2>4. a.cpus \in 0..Cpus
    BY <2>3, WholeIsPositive
  <2> QED BY <1>6, <2>4 DEF Grants, Shares, Assignments
<1>9. ASSUME NEW b \in Decide(me, E, queue) PROVE b = a
  <2>1. PICK r \in Turn(me, E, queue) : b \in Fit(me, r)
    BY <1>1
  <2>2. r = p
    BY <1>3, TurnGives
  <2> QED BY <1>2, <1>4, <1>5, <2>1, <2>2, FitIsOne
<1> QED BY <1>3, <1>4, <1>5, <1>6, <1>7, <1>8, <1>9

\* An assignment of decide() fits beside any running entry.
LEMMA NoShareTwice ==
    ASSUME NEW E \in SUBSET Entry, IsFiniteSet(E), NEW queue, IsQueue(queue),
           NEW me \in QueueEntry, NEW a \in Decide(me, E, queue), NEW e \in E, NEW g \in GPUs
    PROVE  a.gpu[g] + e.assign.gpu[g] <= Whole
<1>1. a \in Grants /\ Covers(PoolAfter(E), a)
  BY DecideGives
<1>2. e.assign.gpu[g] \in 0..Whole /\ a.gpu[g] \in 0..Whole
  BY <1>1 DEF Entry, Grants, Shares
<1>3. CASE a.gpu[g] = 0
  BY <1>2, <1>3, WholeIsPositive
<1>4. CASE a.gpu[g] # 0
  <2>1. a.gpu[g] <= PoolAfter(E).gpu[g]
    BY <1>1, <1>4 DEF Covers
  <2>2. {} \in SUBSET Entry /\ IsFiniteSet({}) /\ e \in Entry /\ e \notin {} /\ {e} \in SUBSET E
        /\ {} \cup {e} = {e}
    BY FS_EmptySet
  <2>3. PoolAfter({e}).gpu[g] = Whole - e.assign.gpu[g]
    <3>1. PoolAfter({} \cup {e}).gpu[g] = PoolAfter({}).gpu[g] - e.assign.gpu[g]
      BY <2>2, OneMoreTakes
    <3> QED BY <2>2, <3>1, NothingTaken DEF AllFree
  <2>4. PoolAfter(E).gpu[g] <= PoolAfter({e}).gpu[g] /\ PoolAfter(E).gpu[g] \in Int
    BY <2>2, LessIsFree, PoolAfterIs DEF Below, Pools
  <2> QED BY <1>2, <2>1, <2>3, <2>4, WholeIsPositive
<1> QED BY <1>3, <1>4

\* What RxSched assumes of its Decision is true of decide(): it gives at most one
\* assignment, and never shares of a GPU that, with what a running job has of it, come
\* to more than the whole.
THEOREM RuleIsAsAssumed ==
    ASSUME NEW E \in SUBSET Entry, IsFiniteSet(E), NEW queue, IsQueue(queue), NEW me \in QueueEntry
    PROVE  /\ Decide(me, E, queue) \in {{}} \cup {{a} : a \in Assignments}
           /\ \A a \in Decide(me, E, queue), e \in E, g \in GPUs :
                 a.gpu[g] + e.assign.gpu[g] <= Whole
<1>1. ASSUME NEW a \in Decide(me, E, queue)
      PROVE  a \in Assignments /\ Decide(me, E, queue) = {a}
  <2>1. a \in Assignments /\ \A b \in Decide(me, E, queue) : b = a
    BY DecideGives
  <2> QED BY <2>1
<1>2. Decide(me, E, queue) \in {{}} \cup {{a} : a \in Assignments}
  BY <1>1
<1> QED BY <1>2, NoShareTwice

-----------------------------------------------------------------------------
(***************************************************************************)
(* The directories.                                                        *)
(***************************************************************************)
Injective(s) == \A i, k \in DOMAIN s : s[i] = s[k] => i = k

\* Removing an element of a sequence.
LEMMA RemoveAtProperties ==
    ASSUME NEW S, NEW s \in Seq(S), NEW i \in DOMAIN s, Injective(s)
    PROVE  /\ RemoveAt(s, i) \in Seq(S)
           /\ Injective(RemoveAt(s, i))
           /\ {RemoveAt(s, i)[k] : k \in DOMAIN RemoveAt(s, i)} = {s[k] : k \in DOMAIN s} \ {s[i]}
<1> DEFINE n == Len(s)
           u == SubSeq(s, 1, i - 1)
           v == SubSeq(s, i + 1, n)
           t == RemoveAt(s, i)
<1>1. n \in Nat /\ DOMAIN s = 1..n /\ \A k \in 1..n : s[k] \in S
  BY LenProperties
<1>2. i \in 1..n /\ i \in Int
  BY <1>1
<1>3. u \in Seq(S) /\ Len(u) = i - 1 /\ \A k \in 1..(i - 1) : u[k] = s[k]
  <2>1. \A k \in 1..(i - 1) : s[k] \in S
    BY <1>1, <1>2
  <2>2. /\ u \in Seq(S) /\ Len(u) = IF 1 <= i - 1 THEN (i - 1) - 1 + 1 ELSE 0
        /\ \A k \in 1..((i - 1) - 1 + 1) : u[k] = s[1 + k - 1]
    BY <1>2, <2>1, SubSeqProperties
  <2> QED BY <1>2, <2>2
<1>4. v \in Seq(S) /\ Len(v) = n - i /\ \A k \in 1..(n - i) : v[k] = s[i + k]
  <2>1. \A k \in (i + 1)..n : s[k] \in S
    BY <1>1, <1>2
  <2>2. /\ v \in Seq(S) /\ Len(v) = IF i + 1 <= n THEN n - (i + 1) + 1 ELSE 0
        /\ \A k \in 1..(n - (i + 1) + 1) : v[k] = s[(i + 1) + k - 1]
    BY <1>1, <1>2, <2>1, SubSeqProperties
  <2>3. n - (i + 1) + 1 = n - i /\ \A k \in Int : (i + 1) + k - 1 = i + k
    BY <1>1, <1>2
  <2>4. Len(v) = n - i
    BY <1>1, <1>2, <2>2
  <2>5. ASSUME NEW k \in 1..(n - i) PROVE v[k] = s[i + k]
    <3>1. k \in 1..(n - (i + 1) + 1) /\ (i + 1) + k - 1 = i + k
      BY <2>3
    <3>2. v[k] = s[(i + 1) + k - 1]
      BY <2>2, <3>1
    <3> QED BY <3>1, <3>2
  <2> QED BY <2>2, <2>4, <2>5
<1>5. t = u \o v
  BY DEF RemoveAt
<1> HIDE DEF u, v, t, n
<1>6. /\ t \in Seq(S) /\ Len(t) = n - 1
      /\ \A k \in 1..(n - 1) : t[k] = IF k < i THEN s[k] ELSE s[k + 1]
  <2>1. /\ t \in Seq(S) /\ Len(t) = Len(u) + Len(v)
        /\ \A k \in 1..(Len(u) + Len(v)) : t[k] = IF k <= Len(u) THEN u[k] ELSE v[k - Len(u)]
    BY <1>3, <1>4, <1>5, ConcatProperties
  <2>2. Len(u) + Len(v) = n - 1
    BY <1>1, <1>2, <1>3, <1>4
  <2>3. ASSUME NEW k \in 1..(n - 1) PROVE t[k] = IF k < i THEN s[k] ELSE s[k + 1]
    <3>1. CASE k < i
      <4>1. k \in 1..(i - 1) /\ k <= Len(u)
        BY <1>2, <1>3, <3>1
      <4> QED BY <1>3, <2>1, <2>2, <3>1, <4>1
    <3>2. CASE ~(k < i)
      <4>1. k - (i - 1) \in 1..(n - i) /\ ~(k <= Len(u)) /\ i + (k - (i - 1)) = k + 1
        BY <1>1, <1>2, <1>3, <3>2
      <4>2. t[k] = v[k - (i - 1)]
        BY <1>3, <2>1, <2>2, <4>1
      <4> QED BY <1>4, <3>2, <4>1, <4>2
    <3> QED BY <3>1, <3>2
  <2> QED BY <2>1, <2>2, <2>3
<1>7. DOMAIN t = 1..(n - 1)
  BY <1>6, LenProperties
<1>8. Injective(t)
  <2> SUFFICES ASSUME NEW k \in 1..(n - 1), NEW l \in 1..(n - 1), t[k] = t[l] PROVE k = l
    BY <1>7 DEF Injective
  <2> DEFINE at(x) == IF x < i THEN x ELSE x + 1
  <2>1. at(k) \in 1..n /\ at(l) \in 1..n
    BY <1>1, <1>2
  <2>2. t[k] = s[at(k)] /\ t[l] = s[at(l)]
    BY <1>6
  <2>3. at(k) = at(l)
    <3> HIDE DEF at
    <3> QED BY <1>1, <2>1, <2>2 DEF Injective
  <2> QED BY <1>2, <2>3
<1>9. {t[k] : k \in DOMAIN t} = {s[k] : k \in DOMAIN s} \ {s[i]}
  <2>1. ASSUME NEW k \in 1..(n - 1) PROVE t[k] \in {s[l] : l \in DOMAIN s} \ {s[i]}
    <3> DEFINE at == IF k < i THEN k ELSE k + 1
    <3>1. at \in 1..n /\ at # i
      BY <1>1, <1>2
    <3>2. t[k] = s[at]
      BY <1>6
    <3> HIDE DEF at
    <3> QED BY <1>1, <1>2, <3>1, <3>2 DEF Injective
  <2>2. ASSUME NEW k \in 1..n, s[k] # s[i] PROVE \E l \in 1..(n - 1) : t[l] = s[k]
    <3>1. k # i
      BY <2>2
    <3>2. CASE k < i
      <4>1. k \in 1..(n - 1)
        BY <1>1, <1>2, <3>2
      <4> QED BY <1>6, <3>2, <4>1
    <3>3. CASE i < k
      <4>1. k - 1 \in 1..(n - 1) /\ ~(k - 1 < i) /\ (k - 1) + 1 = k
        BY <1>1, <1>2, <3>3
      <4>2. t[k - 1] = s[k]
        BY <1>6, <4>1
      <4> QED BY <4>1, <4>2
    <3> QED BY <1>1, <1>2, <3>1, <3>2, <3>3
  <2> DEFINE before == {s[k] : k \in DOMAIN s}
             after == {t[k] : k \in DOMAIN t}
  <2>3. \A x \in after : x \in before \ {s[i]}
    <3> HIDE DEF before
    <3> QED BY <1>7, <2>1 DEF before
  <2>4. ASSUME NEW x \in before \ {s[i]} PROVE x \in after
    <3>1. PICK k \in 1..n : x = s[k]
      BY <1>1
    <3>2. PICK l \in 1..(n - 1) : t[l] = s[k]
      BY <2>2, <2>4, <3>1
    <3> QED BY <1>7, <3>1, <3>2
  <2> HIDE DEF before, after
  <2>5. after = before \ {s[i]}
    BY <2>3, <2>4
  <2> QED BY <2>5 DEF before, after
<1> QED BY <1>6, <1>8, <1>9 DEF t

\* A sequence without repetition has as many members as places.
LEMMA NoRepetition ==
    ASSUME NEW s \in Seq(Jobs), Injective(s)
    PROVE  Cardinality({s[i] : i \in DOMAIN s}) = Len(s)
<1> DEFINE T == {s[i] : i \in DOMAIN s}
<1>1. Len(s) \in Nat /\ DOMAIN s = 1..Len(s) /\ s \in [1..Len(s) -> Jobs]
  BY LenProperties
<1>2. s \in [1..Len(s) -> T]
  <2>1. \A i \in 1..Len(s) : s[i] \in T
    BY <1>1
  <2> HIDE DEF T
  <2> QED BY <1>1, <2>1
<1>3. \A t \in T : \E i \in 1..Len(s) : s[i] = t
  BY <1>1
<1> HIDE DEF T
<1>4. \A a, b \in 1..Len(s) : s[a] = s[b] => a = b
  BY <1>1 DEF Injective
<1>5. s \in Bijection(1..Len(s), T)
  BY <1>1, <1>2, <1>3, <1>4 DEF Bijection, Surjection, Injection, IsInjective
<1>6. ExistsBijection(1..Len(s), T)
  BY <1>5 DEF ExistsBijection
<1>7. IsFiniteSet(1..Len(s)) /\ Cardinality(1..Len(s)) = Len(s)
  BY <1>1, FS_Interval
<1>8. Cardinality(T) = Cardinality(1..Len(s))
  BY <1>6, <1>7, FS_Bijection
<1> QED BY <1>7, <1>8 DEF T

\* The entries of queue/ make a queue.
LEMMA QueueIsQueue ==
    ASSUME waiting \in Seq(Jobs), Injective(waiting)
    PROVE  /\ IsQueue(QueueEntries)
           /\ \A i \in DOMAIN waiting :
                 /\ EntryAt(waiting[i], i) \in QueueEntries
                 /\ EntryAt(waiting[i], i) \in QueueEntry
           /\ \A q \in QueueEntries : q.key \in Waiting
<1> DEFINE n == Len(waiting)
           f == [i \in 1..n |-> EntryAt(waiting[i], i)]
<1>1. n \in Nat /\ DOMAIN waiting = 1..n /\ \A i \in 1..n : waiting[i] \in Jobs
  BY LenProperties
<1>2. ASSUME NEW i \in 1..n PROVE EntryAt(waiting[i], i) \in QueueEntry /\ EntryAt(waiting[i], i).key = waiting[i]
  <2>1. waiting[i] \in Jobs /\ i \in Nat
    BY <1>1
  <2>2. Req[waiting[i]].cpus \in Nat /\ Req[waiting[i]].gpu \in Nat /\ Prio[waiting[i]] \in Int
    BY <2>1, JobsAssumption
  <2> QED BY <2>1, <2>2 DEF EntryAt, QueueEntry
<1>3. QueueEntries \in SUBSET QueueEntry
  BY <1>1, <1>2 DEF QueueEntries
<1>4. IsFiniteSet(QueueEntries)
  <2>1. f \in Surjection(1..n, QueueEntries)
    <3>1. \A i \in 1..n : f[i] \in QueueEntries
      BY <1>1 DEF QueueEntries
    <3>2. \A q \in QueueEntries : \E i \in 1..n : f[i] = q
      BY <1>1 DEF QueueEntries
    <3>3. f \in [1..n -> QueueEntries]
      BY <3>1
    <3> HIDE DEF f
    <3> QED BY <3>2, <3>3 DEF Surjection
  <2>2. IsFiniteSet(1..n)
    BY <1>1, FS_Interval
  <2> HIDE DEF f
  <2> QED BY <2>1, <2>2, FS_Surjection
<1>5. \A p, q \in QueueEntries : p.key = q.key => p = q
  <2> SUFFICES ASSUME NEW i \in 1..n, NEW k \in 1..n,
                      EntryAt(waiting[i], i).key = EntryAt(waiting[k], k).key
               PROVE  EntryAt(waiting[i], i) = EntryAt(waiting[k], k)
    BY <1>1 DEF QueueEntries
  <2>1. waiting[i] = waiting[k]
    BY <1>2
  <2>2. i = k
    BY <1>1, <2>1 DEF Injective
  <2> QED BY <2>2
<1>6. \A q \in QueueEntries : q.key \in Waiting
  BY <1>1, <1>2 DEF QueueEntries, Waiting
<1> QED BY <1>1, <1>2, <1>3, <1>4, <1>5, <1>6 DEF IsQueue, QueueEntries

\* Some entry is first.
LEMMA QueueHasHead ==
    ASSUME NEW queue, IsQueue(queue), queue # {}
    PROVE  \E q \in queue : Ahead(q, queue) = {}
<1> DEFINE Z == {Ahead(q, queue) : q \in queue}
<1>1. Z \in Families(queue) /\ Z # {} /\ IsFiniteSet(queue) /\ queue \in SUBSET QueueEntry
  <2>1. \A q \in queue : Ahead(q, queue) \in SUBSET queue
    BY DEF Ahead
  <2>2. Z \in Families(queue) /\ Z # {}
    BY <2>1 DEF Families
  <2> QED BY <2>2 DEF IsQueue
<1>2. PICK s \in Z : \A t \in Z : t \subseteq s => t = s
  <2> HIDE DEF Z
  <2> QED BY <1>1, LeastSet
<1>3. PICK q \in queue : s = Ahead(q, queue)
  BY <1>2
<1>4. ASSUME NEW p \in Ahead(q, queue) PROVE FALSE
  <2>1. p \in queue /\ Before(p, q) /\ p \in QueueEntry /\ q \in QueueEntry
    BY <1>1 DEF Ahead
  <2>2. Ahead(p, queue) \subseteq Ahead(q, queue) /\ p \notin Ahead(p, queue)
    BY <1>1, <2>1, BeforeOrders DEF Ahead
  <2>3. Ahead(p, queue) = Ahead(q, queue)
    BY <1>2, <1>3, <2>1, <2>2
  <2> QED BY <1>4, <2>2, <2>3
<1> QED BY <1>4

EntriesOf(act) == UNION {{[key |-> j, assign |-> a] : a \in act[j]} : j \in Jobs}
Slots == {{}} \cup {{a} : a \in Assignments}

\* An assignment within the host is one that _fit may give.
LEMMA AssignmentsAreGrants == Assignments \subseteq Grants
BY WholeIsPositive DEF Assignments, Grants, Shares

\* The entries of active/ are those of the jobs that have an assignment.
LEMMA EntriesAreEntries ==
    ASSUME NEW act \in [Jobs -> Slots]
    PROVE  /\ EntriesOf(act) \in SUBSET Entry
           /\ \A e : e \in EntriesOf(act) <=>
                 \E j \in Jobs, a \in Assignments : a \in act[j] /\ e = [key |-> j, assign |-> a]
<1>1. \A j \in Jobs : \A a \in act[j] : a \in Assignments /\ a \in Grants
  BY AssignmentsAreGrants DEF Slots
<1>2. EntriesOf(act) \in SUBSET Entry
  BY <1>1 DEF EntriesOf, Entry, Grants
<1>3. \A e : e \in EntriesOf(act) <=>
                 \E j \in Jobs, a \in Assignments : a \in act[j] /\ e = [key |-> j, assign |-> a]
  BY <1>1 DEF EntriesOf
<1> QED BY <1>2, <1>3

\* A job that is admitted adds its entry to active/.
LEMMA AdmissionAdds ==
    ASSUME NEW act \in [Jobs -> Slots], NEW j \in Jobs, act[j] = {}, NEW a \in Assignments
    PROVE  /\ [act EXCEPT ![j] = {a}] \in [Jobs -> Slots]
           /\ EntriesOf([act EXCEPT ![j] = {a}]) = EntriesOf(act) \cup {[key |-> j, assign |-> a]}
           /\ [key |-> j, assign |-> a] \in Entry \ EntriesOf(act)
<1> DEFINE later == [act EXCEPT ![j] = {a}]
<1>1. later \in [Jobs -> Slots] /\ later[j] = {a} /\ \A i \in Jobs : i # j => later[i] = act[i]
  BY DEF Slots
<1> HIDE DEF later
<1>2. [key |-> j, assign |-> a] \in EntriesOf(later)
  BY <1>1, EntriesAreEntries
<1>3. [key |-> j, assign |-> a] \in Entry
  BY <1>1, <1>2, EntriesAreEntries
<1>4. [key |-> j, assign |-> a] \notin EntriesOf(act)
  BY EntriesAreEntries
<1>5. ASSUME NEW e PROVE e \in EntriesOf(later) <=> e \in EntriesOf(act) \cup {[key |-> j, assign |-> a]}
  <2>1. ASSUME e \in EntriesOf(later) PROVE e \in EntriesOf(act) \cup {[key |-> j, assign |-> a]}
    <3>1. PICK i \in Jobs, b \in Assignments : b \in later[i] /\ e = [key |-> i, assign |-> b]
      BY <1>1, <2>1, EntriesAreEntries
    <3>2. CASE i = j
      BY <1>1, <3>1, <3>2
    <3>3. CASE i # j
      BY <1>1, <3>1, <3>3, EntriesAreEntries
    <3> QED BY <3>2, <3>3
  <2>2. ASSUME e \in EntriesOf(act) PROVE e \in EntriesOf(later)
    <3>1. PICK i \in Jobs, b \in Assignments : b \in act[i] /\ e = [key |-> i, assign |-> b]
      BY <2>2, EntriesAreEntries
    <3>2. i # j /\ b \in later[i]
      BY <1>1, <3>1
    <3> QED BY <1>1, <3>1, <3>2, EntriesAreEntries
  <2> QED BY <1>2, <2>1, <2>2
<1>6. EntriesOf(later) = EntriesOf(act) \cup {[key |-> j, assign |-> a]}
  BY <1>5
<1> QED BY <1>1, <1>3, <1>4, <1>6 DEF later

\* A job that ends adds none.
LEMMA EndRemoves ==
    ASSUME NEW act \in [Jobs -> Slots], NEW j \in Jobs
    PROVE  /\ [act EXCEPT ![j] = {}] \in [Jobs -> Slots]
           /\ EntriesOf([act EXCEPT ![j] = {}]) \in SUBSET EntriesOf(act)
<1> DEFINE later == [act EXCEPT ![j] = {}]
<1>1. later \in [Jobs -> Slots] /\ \A i \in Jobs : later[i] \subseteq act[i]
  BY DEF Slots
<1> HIDE DEF later
<1>2. EntriesOf(later) \in SUBSET EntriesOf(act)
  BY <1>1, EntriesAreEntries
<1> QED BY <1>1, <1>2 DEF later

-----------------------------------------------------------------------------
(***************************************************************************)
(* What holds throughout: TypeOK and WithinCapacity, with the two facts    *)
(* that make the queue and the active entries sets one can count.          *)
(***************************************************************************)
Kept == TypeOK /\ Injective(waiting) /\ IsFiniteSet(ActiveEntries) /\ WithinCapacity

\* ActiveEntries, as a function of the assignments.
LEMMA ActiveEntriesOf == ActiveEntries = EntriesOf(active)
BY DEF ActiveEntries, EntriesOf

\* What decide() gives j, when j waits.
LEMMA GrantGives ==
    ASSUME Kept, NEW j \in Jobs, NEW a \in Grant(j)
    PROVE  \E i \in DOMAIN waiting :
              /\ waiting[i] = j
              /\ a \in Decide(EntryAt(j, i), ActiveEntries, QueueEntries)
              /\ a \in Assignments /\ Covers(PoolAfter(ActiveEntries), a)
              /\ Grant(j) = {a}
<1>1. waiting \in Seq(Jobs) /\ Injective(waiting) /\ active \in [Jobs -> Slots] /\ IsFiniteSet(ActiveEntries)
  BY DEF Kept, TypeOK, Slots
<1>2. ActiveEntries \in SUBSET Entry
  BY <1>1, ActiveEntriesOf, EntriesAreEntries
<1>3. IsQueue(QueueEntries)
  BY <1>1, QueueIsQueue
<1>4. PICK me \in QueueEntries : me.key = j /\ a \in Decide(me, ActiveEntries, QueueEntries)
  BY DEF Grant
<1>5. PICK i \in DOMAIN waiting : me = EntryAt(waiting[i], i)
  BY DEF QueueEntries
<1>6. waiting[i] = j
  BY <1>4, <1>5 DEF EntryAt
<1>7. me \in QueueEntry
  BY <1>3 DEF IsQueue
<1>8. a \in Assignments /\ Covers(PoolAfter(ActiveEntries), a)
  BY <1>1, <1>2, <1>3, <1>4, <1>7, DecideGives
<1>9. ASSUME NEW b \in Grant(j) PROVE b = a
  <2>1. PICK you \in QueueEntries : you.key = j /\ b \in Decide(you, ActiveEntries, QueueEntries)
    BY DEF Grant
  <2>2. you = me
    BY <1>3, <1>4, <2>1 DEF IsQueue
  <2> QED BY <1>1, <1>2, <1>3, <1>4, <1>7, <2>1, <2>2, DecideGives
<1>10. Grant(j) = {a}
  BY <1>9
<1> QED BY <1>4, <1>5, <1>6, <1>8, <1>10

\* A job that leaves queue/.
LEMMA LeaveKeeps ==
    ASSUME waiting \in Seq(Jobs), Injective(waiting), late \subseteq Waiting, NEW j \in Jobs, Leave(j)
    PROVE  /\ waiting' \in Seq(Jobs) /\ Injective(waiting')
           /\ j \in Waiting /\ Waiting' = Waiting \ {j} /\ late' \subseteq Waiting'
<1>1. PICK i \in DOMAIN waiting : waiting[i] = j /\ waiting' = RemoveAt(waiting, i)
  BY DEF Leave
<1>2. /\ RemoveAt(waiting, i) \in Seq(Jobs) /\ Injective(RemoveAt(waiting, i))
      /\ {RemoveAt(waiting, i)[k] : k \in DOMAIN RemoveAt(waiting, i)}
            = {waiting[k] : k \in DOMAIN waiting} \ {waiting[i]}
  BY RemoveAtProperties
<1>3. Waiting' = Waiting \ {j} /\ j \in Waiting
  BY <1>1, <1>2 DEF Waiting
<1>4. late' \subseteq Waiting'
  BY <1>3 DEF Leave
<1> QED BY <1>1, <1>2, <1>3, <1>4

\* Nothing waits and nothing runs at first.
LEMMA KeptInit == Init => Kept
<1> SUFFICES ASSUME Init PROVE Kept
  OBVIOUS
<1>1. waiting \in Seq(Jobs) /\ DOMAIN waiting = {} /\ Len(waiting) = 0
  BY EmptySeq, LenProperties DEF Init
<1>2. Waiting = {} /\ Cardinality({}) = 0 /\ Injective(waiting)
  BY <1>1, FS_EmptySet DEF Waiting, Injective
<1>3. active \in [Jobs -> Slots] /\ \A j \in Jobs : active[j] = {}
  BY DEF Init, Slots
<1>4. ActiveEntries = {}
  BY <1>3 DEF ActiveEntries
<1>5. TypeOK
  BY <1>1, <1>2, <1>3 DEF Init, TypeOK, Slots
<1>6. WithinCapacity
  BY <1>4, NothingTaken, WholeIsPositive DEF WithinCapacity, AllFree
<1> QED BY <1>2, <1>4, <1>5, <1>6, FS_EmptySet DEF Kept

\* Every step keeps the invariant; only Admit takes resources, and within what is free.
LEMMA KeptStep == Kept /\ [Next]_vars => Kept'
<1> SUFFICES ASSUME Kept, [Next]_vars PROVE Kept'
  OBVIOUS
<1> USE DEF Slots
<1>1. /\ waiting \in Seq(Jobs) /\ Injective(waiting) /\ Cardinality(Waiting) = Len(waiting)
      /\ active \in [Jobs -> Slots] /\ late \subseteq Waiting /\ Waiting \cap Running = {}
      /\ IsFiniteSet(ActiveEntries) /\ WithinCapacity
  BY DEF Kept, TypeOK
<1>2. ActiveEntries \in SUBSET Entry /\ ActiveEntries = EntriesOf(active)
  BY <1>1, ActiveEntriesOf, EntriesAreEntries
<1>3. PoolAfter(ActiveEntries) \in Pools /\ PoolAfter(ActiveEntries).cpus \in Int
      /\ \A g \in GPUs : PoolAfter(ActiveEntries).gpu[g] \in Int
  BY <1>1, <1>2, PoolAfterIs DEF Pools
\* The queue and the active entries are kept apart, step by step.
<1>4. ASSUME active' = active
      PROVE  Running' = Running /\ IsFiniteSet(ActiveEntries)' /\ WithinCapacity'
  BY <1>1, <1>4 DEF Running, ActiveEntries, WithinCapacity
<1>5. ASSUME waiting' \in Seq(Jobs), Injective(waiting)', late' \subseteq Waiting',
             active' \in [Jobs -> Slots], Waiting' \cap Running' = {},
             IsFiniteSet(ActiveEntries)', WithinCapacity'
      PROVE  Kept'
  <2>1. Cardinality({waiting'[i] : i \in DOMAIN waiting'}) = Len(waiting')
    BY <1>5, NoRepetition DEF Injective
  <2>2. Cardinality(Waiting') = Len(waiting')
    BY <2>1 DEF Waiting
  <2> QED BY <1>5, <2>2 DEF Kept, TypeOK
<1>6. CASE UNCHANGED vars
  <2>1. waiting' = waiting /\ active' = active /\ late' = late /\ Waiting' = Waiting
    BY <1>6 DEF vars, Waiting
  <2>2. Injective(waiting)'
    BY <1>1, <2>1 DEF Injective
  <2> QED BY <1>1, <1>4, <1>5, <2>1, <2>2
<1>7. CASE Next
  <2>0. PICK j \in Jobs : Enqueue(j) \/ Admit(j) \/ HoldPasses(j) \/ Withdraw(j) \/ End(j)
    BY <1>7 DEF Next
  <2>1. CASE Enqueue(j)
    <3>1. j \notin Waiting /\ j \notin Running /\ waiting' = Append(waiting, j) /\ active' = active /\ late' = late
      BY <2>1 DEF Enqueue
    <3> DEFINE n == Len(waiting)
    <3>2. n \in Nat /\ DOMAIN waiting = 1..n
      BY <1>1, LenProperties
    <3>3. /\ waiting' \in Seq(Jobs) /\ Len(waiting') = n + 1
          /\ \A i \in 1..n : waiting'[i] = waiting[i]
          /\ waiting'[n + 1] = j
      BY <1>1, <3>1, AppendProperties
    <3>4. DOMAIN waiting' = 1..(n + 1)
      BY <3>3, LenProperties
    <3>5. \A i \in 1..n : waiting'[i] \in Waiting
      BY <3>2, <3>3 DEF Waiting
    <3> HIDE DEF n
    <3>6. \A i \in 1..(n + 1) : i \in 1..n \/ i = n + 1
      BY <3>2
    <3>7. Injective(waiting)'
      <4> SUFFICES ASSUME NEW i \in 1..(n + 1), NEW k \in 1..(n + 1), waiting'[i] = waiting'[k] PROVE i = k
        BY <3>4 DEF Injective
      <4> QED BY <1>1, <3>1, <3>2, <3>3, <3>5, <3>6 DEF Injective
    <3>8. Waiting' = Waiting \cup {j}
      <4>1. \A x \in Waiting : \E i \in 1..n : x = waiting'[i]
        BY <3>2, <3>3 DEF Waiting
      <4>2. 1..n \subseteq 1..(n + 1) /\ n + 1 \in 1..(n + 1)
        BY <3>2
      <4>3. Waiting \cup {j} \subseteq Waiting'
        BY <3>3, <3>4, <4>1, <4>2 DEF Waiting
      <4>4. \A i \in 1..(n + 1) : waiting'[i] \in Waiting \cup {j}
        BY <3>3, <3>5, <3>6
      <4>5. Waiting' = {waiting'[i] : i \in 1..(n + 1)}
        BY <3>4 DEF Waiting
      <4> QED BY <4>3, <4>4, <4>5
    <3> QED BY <1>1, <1>4, <1>5, <3>1, <3>3, <3>7, <3>8
  <2>2. CASE Admit(j)
    <3>1. PICK a \in Grant(j) : TRUE
      BY <2>2 DEF Admit
    <3>2. Grant(j) = {a} /\ a \in Assignments /\ Covers(PoolAfter(ActiveEntries), a)
      BY <3>1, GrantGives
    <3>3. active' = [active EXCEPT ![j] = {a}] /\ Leave(j)
      BY <2>2, <3>2 DEF Admit
    <3>4. /\ waiting' \in Seq(Jobs) /\ Injective(waiting)' /\ j \in Waiting
          /\ Waiting' = Waiting \ {j} /\ late' \subseteq Waiting'
      BY <1>1, <3>3, LeaveKeeps DEF Injective
    <3>5. active[j] = {}
      BY <1>1, <3>4 DEF Running
    <3> DEFINE e == [key |-> j, assign |-> a]
    <3>6. /\ active' \in [Jobs -> Slots]
          /\ EntriesOf(active') = EntriesOf(active) \cup {e} /\ e \in Entry /\ e \notin EntriesOf(active)
      BY <1>1, <3>2, <3>3, <3>5, AdmissionAdds
    <3>7. ActiveEntries' = ActiveEntries \cup {e} /\ e \notin ActiveEntries
      BY <1>2, <3>6 DEF ActiveEntries, EntriesOf
    <3>8. Waiting' \cap Running' = {}
      BY <1>1, <3>3, <3>4 DEF Running
    <3>9. IsFiniteSet(ActiveEntries)'
      BY <1>1, <3>7, FS_AddElement
    <3>10. WithinCapacity'
      <4> DEFINE pool == PoolAfter(ActiveEntries)
      <4>1. /\ PoolAfter(ActiveEntries').cpus = pool.cpus - a.cpus
            /\ \A g \in GPUs : PoolAfter(ActiveEntries').gpu[g] = pool.gpu[g] - a.gpu[g]
        <5>1. e.assign = a
          OBVIOUS
        <5> HIDE DEF e
        <5> QED BY <1>1, <1>2, <3>6, <3>7, <5>1, OneMoreTakes
      <4>2. a.cpus \in Int /\ \A g \in GPUs : a.gpu[g] \in Int
        BY <3>2, AssignmentsAreGrants, WholeIsPositive DEF Grants, Shares
      <4>3. pool.cpus - a.cpus >= 0
        BY <1>3, <3>2, <4>2 DEF Covers
      <4>4. ASSUME NEW g \in GPUs PROVE pool.gpu[g] - a.gpu[g] >= 0
        <5>1. pool.gpu[g] >= 0
          BY <1>1 DEF WithinCapacity
        <5> QED BY <1>3, <3>2, <4>2, <5>1 DEF Covers
      <4> HIDE DEF pool
      <4>5. /\ PoolAfter(ActiveEntries').cpus >= 0
            /\ \A g \in GPUs : PoolAfter(ActiveEntries').gpu[g] >= 0
        BY <4>1, <4>3, <4>4
      <4> QED BY <4>5 DEF WithinCapacity
    <3> QED BY <1>5, <3>4, <3>6, <3>8, <3>9, <3>10
  <2>3. CASE HoldPasses(j)
    <3>1. waiting' = waiting /\ active' = active /\ late' \subseteq Waiting /\ Waiting' = Waiting
      BY <1>1, <2>3 DEF HoldPasses, Waiting
    <3>2. Injective(waiting)'
      BY <1>1, <3>1 DEF Injective
    <3> QED BY <1>1, <1>4, <1>5, <3>1, <3>2
  <2>4. CASE Withdraw(j)
    <3>1. active' = active /\ Leave(j)
      BY <2>4 DEF Withdraw
    <3>2. /\ waiting' \in Seq(Jobs) /\ Injective(waiting)'
          /\ Waiting' = Waiting \ {j} /\ late' \subseteq Waiting'
      BY <1>1, <3>1, LeaveKeeps DEF Injective
    <3> QED BY <1>1, <1>4, <1>5, <3>1, <3>2
  <2>5. CASE End(j)
    <3>1. waiting' = waiting /\ late' = late /\ active' = [active EXCEPT ![j] = {}] /\ Waiting' = Waiting
      BY <2>5 DEF End, Waiting
    <3>2. Injective(waiting)'
      BY <1>1, <3>1 DEF Injective
    <3>3. active' \in [Jobs -> Slots] /\ EntriesOf(active') \in SUBSET EntriesOf(active)
      BY <1>1, <3>1, EndRemoves
    <3>4. ActiveEntries' \in SUBSET ActiveEntries
      BY <1>2, <3>3 DEF ActiveEntries, EntriesOf
    <3>5. IsFiniteSet(ActiveEntries)'
      BY <1>1, <3>4, FS_Subset
    <3>6. Waiting' \cap Running' = {}
      BY <1>1, <3>1 DEF Running
    <3>7. WithinCapacity'
      <4>1. Below(PoolAfter(ActiveEntries), PoolAfter(ActiveEntries'))
        BY <1>1, <1>2, <3>4, LessIsFree
      <4>2. PoolAfter(ActiveEntries') \in Pools
        BY <1>2, <3>4, <3>5, PoolAfterIs
      <4>3. /\ PoolAfter(ActiveEntries').cpus \in Int
            /\ \A g \in GPUs : PoolAfter(ActiveEntries').gpu[g] \in Int
        BY <4>2 DEF Pools
      <4>4. /\ PoolAfter(ActiveEntries).cpus >= 0
            /\ \A g \in GPUs : PoolAfter(ActiveEntries).gpu[g] >= 0
        BY <1>1 DEF WithinCapacity
      <4>5. /\ PoolAfter(ActiveEntries').cpus >= 0
            /\ \A g \in GPUs : PoolAfter(ActiveEntries').gpu[g] >= 0
        BY <1>3, <4>1, <4>3, <4>4 DEF Below
      <4> QED BY <4>5 DEF WithinCapacity
    <3> QED BY <1>1, <1>5, <3>1, <3>2, <3>3, <3>5, <3>6, <3>7
  <2> QED BY <2>0, <2>1, <2>2, <2>3, <2>4, <2>5
<1> QED BY <1>6, <1>7

\* The invariant holds throughout.
LEMMA KeptAlways == Spec => []Kept
BY KeptInit, KeptStep, PTL DEF Spec

\* The state has its type: no job waits twice, and each running job holds one
\* assignment (the directories queue/ and active/ of the scheduler).
THEOREM QueueTypeCorrect == Spec => []TypeOK
<1>1. Kept => TypeOK
  BY DEF Kept
<1> QED BY <1>1, KeptAlways, PTL

\* The rule never overcommits the host, whatever was admitted, ended, withdrawn and
\* held before (rx_agent.py decide).
THEOREM HostNeverOvercommitted == Spec => []WithinCapacity
<1>1. Kept => WithinCapacity
  BY DEF Kept
<1> QED BY <1>1, KeptAlways, PTL

-----------------------------------------------------------------------------
(***************************************************************************)
(* The head of the queue.                                                  *)
(***************************************************************************)

\* A job's entry asks for what the job asks for.
LEMMA SameFit ==
    ASSUME NEW j, NEW i, NEW pool
    PROVE  Fit(EntryAt(j, i), pool) = Fit(Req[j], pool)
BY DEF EntryAt, Fit

\* On an idle host the head of the queue is considered first, and fits.
LEMMA KeptNeverWedges == Kept => NeverWedged
<1> SUFFICES ASSUME Kept, Running = {}, Waiting # {}
             PROVE  \E j \in Waiting : Grant(j) # {}
  BY DEF NeverWedged
<1>1. waiting \in Seq(Jobs) /\ Injective(waiting) /\ active \in [Jobs -> Slots]
  BY DEF Kept, TypeOK, Slots
<1>2. IsQueue(QueueEntries) /\ QueueEntries # {}
  <2>1. QueueEntries # {}
    BY DEF QueueEntries, Waiting
  <2> QED BY <1>1, <2>1, QueueIsQueue
<1>3. ActiveEntries = {}
  BY DEF Running, ActiveEntries
<1>4. PICK q \in QueueEntries : Ahead(q, QueueEntries) = {}
  BY <1>2, QueueHasHead
<1>5. PICK i \in DOMAIN waiting : q = EntryAt(waiting[i], i)
  BY <1>4 DEF QueueEntries
<1> DEFINE j == waiting[i]
<1>6. j \in Jobs /\ j \in Waiting /\ q.key = j
  BY <1>1, <1>5, LenProperties DEF Waiting, EntryAt
<1>7. Fit(q, AllFree) # {}
  BY <1>5, <1>6, SameFit, JobsAssumption DEF Impossible
<1>8. AllFree \in GoodPools
  BY WholeIsPositive DEF AllFree, GoodPools, Pools
<1>9. Turn(q, {}, QueueEntries) = {AllFree}
  BY <1>2, <1>4, <1>8, NothingTaken, TurnGives
<1>10. Decide(q, {}, QueueEntries) = Fit(q, AllFree)
  BY <1>7, <1>9, NothingTaken DEF Decide, Impossible
<1>11. \A a \in Decide(q, {}, QueueEntries) : a \in Grant(j)
  BY <1>3, <1>6 DEF Grant
<1> QED BY <1>6, <1>7, <1>10, <1>11

\* On an idle host some queued job is admitted, however many wait and whatever holds
\* and priorities are in force: the rule leaves no state it cannot move from.
THEOREM QueueNeverWedges == Spec => []NeverWedged
BY KeptAlways, KeptNeverWedges, PTL

\* A job runs that did not: it was admitted.
LEMMA OnlyAdmits ==
    ASSUME active \in [Jobs -> Slots], [Next]_vars, NEW j \in Jobs, j \in Running' \ Running
    PROVE  Admit(j)
<1>1. active'[j] # {} /\ active[j] = {}
  BY DEF Running
<1>2. ~UNCHANGED vars
  BY <1>1 DEF vars
<1>3. PICK i \in Jobs : Enqueue(i) \/ Admit(i) \/ HoldPasses(i) \/ Withdraw(i) \/ End(i)
  BY <1>2 DEF Next
<1>4. ~Enqueue(i) /\ ~HoldPasses(i) /\ ~Withdraw(i)
  BY <1>1 DEF Enqueue, HoldPasses, Withdraw
<1>5. ~End(i)
  <2>1. End(i) => active' = [active EXCEPT ![i] = {}]
    BY DEF End
  <2> QED BY <1>1, <2>1
<1>6. Admit(i)
  BY <1>3, <1>4, <1>5
<1>7. i = j
  <2>1. active' = [active EXCEPT ![i] = Grant(i)]
    BY <1>6 DEF Admit
  <2> QED BY <1>1, <2>1
<1> QED BY <1>6, <1>7

\* The head that fits before an admission fits after it.
LEMMA HeadStep ==
    ASSUME Kept, [Next]_vars, NEW j \in Jobs, NEW k \in Jobs, IsHead(k), FitsNow(k), j # k,
           j \in Running' \ Running
    PROVE  FitsNow(k)'
<1> DEFINE P == PoolAfter(ActiveEntries)
<1>1. /\ waiting \in Seq(Jobs) /\ Injective(waiting) /\ active \in [Jobs -> Slots]
      /\ IsFiniteSet(ActiveEntries) /\ Waiting \cap Running = {}
  BY DEF Kept, TypeOK, Slots
<1>2. ActiveEntries \in SUBSET Entry /\ ActiveEntries = EntriesOf(active)
  BY <1>1, ActiveEntriesOf, EntriesAreEntries
<1>3. IsQueue(QueueEntries)
  BY <1>1, QueueIsQueue
<1>4. Admit(j)
  BY <1>1, OnlyAdmits
<1>5. PICK a \in Grant(j) : TRUE
  BY <1>4 DEF Admit
<1>6. PICK m \in DOMAIN waiting :
         /\ waiting[m] = j
         /\ a \in Decide(EntryAt(j, m), ActiveEntries, QueueEntries)
         /\ a \in Assignments /\ Grant(j) = {a}
  BY <1>5, GrantGives
<1> DEFINE me == EntryAt(j, m)
           first == CHOOSE i \in DOMAIN waiting : waiting[i] = k
           head == EntryAt(k, first)
<1>7. me \in QueueEntries /\ me \in QueueEntry /\ me.key = j
  BY <1>1, <1>6, QueueIsQueue DEF EntryAt
<1>8. first \in DOMAIN waiting /\ waiting[first] = k
  BY DEF IsHead, Waiting
<1>9. head \in QueueEntries /\ head \in QueueEntry /\ head.key = k
  <2> HIDE DEF first
  <2> QED BY <1>1, <1>8, QueueIsQueue DEF EntryAt
<1>10. \A q \in QueueEntries : q.key = k \/ Before(head, q)
  BY DEF IsHead
<1> HIDE DEF me, head, first
<1>11. \A q \in QueueEntries : q = head \/ Before(head, q)
  BY <1>3, <1>9, <1>10 DEF IsQueue
<1>12. head \in Ahead(me, QueueEntries)
  BY <1>7, <1>9, <1>10 DEF Ahead
<1>13. PICK c \in Fit(head, P) : TRUE
  BY SameFit DEF FitsNow, head
<1>14. /\ P \in GoodPools /\ a \in Grants
       /\ \E p \in Turn(me, ActiveEntries, QueueEntries) : p \in Pools /\ Covers(p, a)
  BY <1>1, <1>2, <1>3, <1>6, <1>7, DecideGives DEF me
<1>15. PICK p \in Turn(me, ActiveEntries, QueueEntries) : p \in Pools /\ Covers(p, a)
  BY <1>14
<1>16. Below(p, Take(P, c))
  BY <1>3, <1>11, <1>12, <1>13, <1>14, <1>15, TurnAfterHead
<1>17. Amounts(head) /\ P \in Pools
  BY <1>9, <1>14, EntriesAskAmounts DEF GoodPools
<1>18. c \in Grants /\ Covers(P, c)
  BY <1>13, <1>17, FitGives
<1>19. /\ Take(P, c) \in Pools /\ Take(P, c).cpus = P.cpus - c.cpus
       /\ \A g \in GPUs : Take(P, c).gpu[g] = P.gpu[g] - c.gpu[g]
  BY <1>17, <1>18, TakeGives
<1>20. Covers(Take(P, c), a)
  BY <1>14, <1>15, <1>16, <1>19, BelowOrders
<1> DEFINE e == [key |-> j, assign |-> a]
<1>21. ActiveEntries' = ActiveEntries \cup {e} /\ e \in Entry \ ActiveEntries
  <2>1. active' = [active EXCEPT ![j] = {a}] /\ active[j] = {}
    BY <1>4, <1>6 DEF Admit, Running
  <2>2. EntriesOf(active') = EntriesOf(active) \cup {e} /\ e \in Entry \ EntriesOf(active)
    BY <1>1, <1>6, <2>1, AdmissionAdds
  <2> QED BY <1>2, <2>2 DEF ActiveEntries, EntriesOf
<1> DEFINE Q == PoolAfter(ActiveEntries')
<1>22. /\ Q.cpus = P.cpus - a.cpus
       /\ \A g \in GPUs : Q.gpu[g] = P.gpu[g] - a.gpu[g]
  <2>1. e.assign = a
    OBVIOUS
  <2> HIDE DEF e
  <2> QED BY <1>1, <1>2, <1>21, <2>1, OneMoreTakes
<1>23. Q \in Pools
  <2> HIDE DEF e
  <2> QED BY <1>1, <1>2, <1>21, PoolAfterIs, FS_AddElement
<1> HIDE DEF P, Q, e
<1>24. Covers(Q, c)
  <2>1. /\ P.cpus \in Int /\ a.cpus \in Int /\ c.cpus \in Int
        /\ \A g \in GPUs : P.gpu[g] \in Int /\ a.gpu[g] \in Int /\ c.gpu[g] \in Int
    BY <1>14, <1>17, <1>18, WholeIsPositive DEF Pools, Grants, Shares
  <2>2. c.cpus <= Q.cpus
    BY <1>19, <1>20, <1>22, <2>1 DEF Covers
  <2>3. ASSUME NEW g \in GPUs PROVE c.gpu[g] = 0 \/ c.gpu[g] <= Q.gpu[g]
    <3>1. c.gpu[g] = 0 \/ c.gpu[g] <= P.gpu[g]
      BY <1>18 DEF Covers
    <3>2. a.gpu[g] = 0 \/ a.gpu[g] <= P.gpu[g] - c.gpu[g]
      BY <1>19, <1>20 DEF Covers
    <3> QED BY <1>22, <2>1, <3>1, <3>2
  <2> QED BY <2>2, <2>3 DEF Covers
<1>25. Fit(head, Q) # {}
  BY <1>13, <1>17, <1>23, <1>24, FitAgain
<1>26. Fit(Req[k], PoolAfter(ActiveEntries')) # {}
  BY <1>25, SameFit DEF head, Q
<1> QED BY <1>26 DEF FitsNow

\* A job that starts never takes what the head of the queue fits in: if the head
\* fitted before, it fits after, whoever was admitted past it.
THEOREM HeadNeverOvertaken == Spec => HeadKeepsItsFit
<1>1. Kept /\ [Next]_vars =>
         [\A j, k \in Jobs : IsHead(k) /\ FitsNow(k) /\ j # k /\ j \in Running' \ Running
                             => FitsNow(k)']_vars
  BY HeadStep
<1> QED BY <1>1, KeptAlways, PTL DEF Spec, HeadKeepsItsFit

-----------------------------------------------------------------------------
(***************************************************************************)
(* A waiting job and the jobs of lower priority.                           *)
(***************************************************************************)
\* The admission of j leaves k what k fits in once the jobs in ended are gone.
LEMMA HigherStep ==
    ASSUME Kept, [Next]_vars, NEW j \in Running' \ Running, NEW k \in Waiting, Prio[k] > Prio[j],
           WholeAmount(Req[j].gpu), Req[k].gpu < Whole \/ WholeAmount(Req[k].gpu),
           NEW ended \in SUBSET Running, FitsOnce(k, ended, active)
    PROVE  FitsOnce(k, ended, active')
<1> DEFINE E == ActiveEntries
           stay(held) == UNION {{[key |-> i, assign |-> a] : a \in held[i]} : i \in Jobs \ ended}
           T == stay(active)
<1>1. /\ waiting \in Seq(Jobs) /\ Injective(waiting) /\ active \in [Jobs -> Slots]
      /\ IsFiniteSet(E) /\ j \in Jobs
  BY DEF Kept, TypeOK, Slots, Running
<1>2. E \in SUBSET Entry /\ E = EntriesOf(active)
  BY <1>1, ActiveEntriesOf, EntriesAreEntries
<1>3. IsQueue(QueueEntries)
  BY <1>1, QueueIsQueue
<1>4. Admit(j) /\ active[j] = {}
  BY <1>1, OnlyAdmits DEF Running
<1>5. PICK a \in Grant(j) : TRUE
  BY <1>4 DEF Admit
<1>6. PICK m \in DOMAIN waiting :
         /\ waiting[m] = j
         /\ a \in Decide(EntryAt(j, m), E, QueueEntries)
         /\ a \in Assignments /\ Grant(j) = {a}
  BY <1>1, <1>5, GrantGives
<1>7. PICK i \in DOMAIN waiting : waiting[i] = k
  BY DEF Waiting
<1> DEFINE me == EntryAt(j, m)
           high == EntryAt(k, i)
           e == [key |-> j, assign |-> a]
<1>8. /\ me \in QueueEntries /\ me \in QueueEntry /\ me.prio = Prio[j] /\ me.gpu = Req[j].gpu
      /\ high \in QueueEntries /\ high \in QueueEntry
      /\ high.prio = Prio[k] /\ high.gpu = Req[k].gpu
  BY <1>1, <1>6, <1>7, QueueIsQueue DEF EntryAt
<1>9. \A pool : Fit(high, pool) = Fit(Req[k], pool)
  BY SameFit
<1> HIDE DEF me, high
<1>10. high \in Ahead(me, QueueEntries) /\ Amounts(high) /\ Amounts(me)
  BY <1>8, EntriesAskAmounts DEF Ahead, Before
<1>11. PoolAfter(E) \in GoodPools /\ a \in Grants
  BY <1>1, <1>2, <1>3, <1>6, <1>8, DecideGives DEF me
<1>12. PICK p \in Turn(me, E, QueueEntries) : a \in Fit(me, p)
  BY <1>6 DEF Decide, me
<1>13. p \in Pools
  BY <1>3, <1>11, <1>12, TurnGives DEF GoodPools
<1>14. Covers(p, a) /\ \A g \in GPUs : a.gpu[g] \in {0, Whole}
  BY <1>8, <1>10, <1>12, <1>13, FitGives, WholeAssignment
<1>15. PICK r \in GoodPools : /\ Below(r, PoolAfter(E))
                               /\ \E s \in Consider(me, high, r) : Below(p, s)
  BY <1>3, <1>10, <1>11, <1>12, TurnAfter
<1>16. PICK s \in Consider(me, high, r) : Below(p, s)
  BY <1>15
<1>17. Covers(s, a)
  <2>1. s \in Pools
    BY <1>10, <1>16, ConsiderGives DEF GoodPools
  <2> QED BY <1>11, <1>13, <1>14, <1>16, <2>1, BelowOrders
<1>18. stay(active') = T \cup {e} /\ T \in SUBSET E /\ e \in Entry /\ e \notin T
  <2>1. active' = [active EXCEPT ![j] = {a}]
    BY <1>4, <1>6 DEF Admit
  <2>2. j \in Jobs \ ended
    BY <1>1, <1>4 DEF Running
  <2>3. active'[j] = {a} /\ \A x \in Jobs \ {j} : active'[x] = active[x]
    BY <1>1, <2>1
  <2>4. stay(active') = T \cup {e}
    BY <1>1, <1>4, <2>2, <2>3
  <2>5. T \in SUBSET E
    BY DEF ActiveEntries
  <2>6. e \in Entry /\ e \notin E
    BY <1>1, <1>2, <1>4, <1>6, AdmissionAdds
  <2> QED BY <2>4, <2>5, <2>6
<1>19. FitsOnce(k, ended, active) = (Fit(Req[k], PoolAfter(T)) # {})
       /\ FitsOnce(k, ended, active') = (Fit(Req[k], PoolAfter(stay(active'))) # {})
  BY DEF FitsOnce
<1> DEFINE P == PoolAfter(T)
           Q == PoolAfter(T \cup {e})
<1>20. e.assign = a
  OBVIOUS
<1> HIDE DEF stay, T, e, E
<1>21. T \in SUBSET Entry /\ IsFiniteSet(T) /\ IsFiniteSet(T \cup {e}) /\ T \cup {e} \in SUBSET Entry
  BY <1>1, <1>2, <1>18, FS_Subset, FS_AddElement
<1>22. P \in Pools /\ Q \in Pools
  BY <1>21, PoolAfterIs
<1>23. Q.cpus = P.cpus - a.cpus /\ \A g \in GPUs : Q.gpu[g] = P.gpu[g] - a.gpu[g]
  BY <1>18, <1>20, <1>21, OneMoreTakes
<1>24. Below(PoolAfter(E), P) /\ Below(PoolAfter(E), AllFree)
  <2>1. {} \in SUBSET E
    OBVIOUS
  <2> QED BY <1>1, <1>2, <1>18, <2>1, LessIsFree, NothingTaken
<1>25. Below(r, P) /\ \A g \in GPUs : r.gpu[g] <= Whole
  <2>1. PoolAfter(E) \in Pools /\ r \in Pools /\ AllFree \in Pools
    BY <1>11, WholeIsPositive DEF GoodPools, AllFree, Pools
  <2>2. Below(r, P) /\ Below(r, AllFree)
    BY <1>15, <1>22, <1>24, <2>1, BelowOrders
  <2> QED BY <2>2 DEF Below, AllFree
<1> HIDE DEF P, Q
<1>26. Fit(high, P) # {}
  BY <1>9, <1>19 DEF P
<1>27. Fit(high, Q) # {}
  <2>1. CASE Fit(high, r) # {}
    <3>1. PICK c \in Fit(high, r) : s = Take(r, c)
      BY <1>16, <2>1 DEF Consider
    <3> QED BY <1>10, <1>11, <1>17, <1>22, <1>23, <1>25, <3>1, PlaceStays
  <2>2. CASE Fit(high, r) = {}
    <3>1. s = HoldBack(r, high)
      BY <1>8, <1>16, <2>2 DEF Consider
    <3> QED BY <1>8, <1>10, <1>11, <1>14, <1>17, <1>22, <1>23, <1>25, <1>26, <3>1, SetAsideStays
  <2> QED BY <2>1, <2>2
<1> QED BY <1>9, <1>18, <1>19, <1>27 DEF Q

\* A job that asks for whole GPUs, or none, never takes what a waiting job of higher
\* priority needs, whichever running jobs end next.  Whether the jobs that run
\* have fractions does not matter (rx_agent.py _hold_back drains the GPUs that are
\* whole first, from the lowest, and _fit gives whole GPUs from the lowest too).
THEOREM WholeJobsKeepBack ==
    Spec => [][\A j \in Running' \ Running, k \in Waiting :
                  /\ Prio[k] > Prio[j]
                  /\ WholeAmount(Req[j].gpu)
                  /\ Req[k].gpu < Whole \/ WholeAmount(Req[k].gpu)
                  => \A ended \in SUBSET Running :
                        FitsOnce(k, ended, active) => FitsOnce(k, ended, active')]_vars
<1>1. Kept /\ [Next]_vars =>
         [\A j \in Running' \ Running, k \in Waiting :
             /\ Prio[k] > Prio[j]
             /\ WholeAmount(Req[j].gpu)
             /\ Req[k].gpu < Whole \/ WholeAmount(Req[k].gpu)
             => \A ended \in SUBSET Running :
                   FitsOnce(k, ended, active) => FitsOnce(k, ended, active')]_vars
  BY HigherStep
<1> QED BY <1>1, KeptAlways, PTL DEF Spec

\* Where every request is for whole GPUs, no job ever takes what one of higher
\* priority waits for.
THEOREM HigherIsNeverOvertaken ==
    ASSUME \A j \in Jobs : WholeAmount(Req[j].gpu)
    PROVE  Spec => HigherKeepsItsPlace
<1>1. Kept /\ [Next]_vars =>
         [\A j \in Running' \ Running, k \in Waiting :
             Prio[k] > Prio[j] =>
               \A ended \in SUBSET Running :
                  FitsOnce(k, ended, active) => FitsOnce(k, ended, active')]_vars
  <2>1. Kept => Running' \subseteq Jobs /\ Waiting \subseteq Jobs
    BY DEF Kept, TypeOK, Running, Waiting
  <2> QED BY <2>1, HigherStep
<1> QED BY <1>1, KeptAlways, PTL DEF Spec, HigherKeepsItsPlace
=============================================================================
