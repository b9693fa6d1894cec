------------------------------ MODULE RxDecide ------------------------------
(***************************************************************************)
(* The admission rule of the rx host scheduler: decide() of                *)
(* tools/rx/rx_agent.py and the helpers it folds over the queue.           *)
(*                                                                         *)
(* Amounts are integers.  A GPU has Whole share units (the code's 1.0), so *)
(* a request of gpu = Whole \div 2 is the code's gpus = 0.5.  cpus stands  *)
(* for the two scalar resources, cpus and mem_gb, which the code compares, *)
(* takes and sets aside in the same way.  The 1e-9 tolerances of the       *)
(* floating-point comparisons disappear with the floats.                   *)
(*                                                                         *)
(* A request is [cpus, gpu].  A queue entry is a request with its key,     *)
(* the priority of its project, its enqueue time enq, and late: whether it *)
(* has waited more than hold_after_s.  An assignment is [cpus, gpu] where  *)
(* gpu maps each GPU to the share taken from it.  A pool of free resources *)
(* has the shape of an assignment.                                         *)
(***************************************************************************)
EXTENDS Integers, FiniteSets, FiniteSetsExt, SequencesExt

CONSTANTS
    GPUs,    \* indices of the host's GPUs
    Cpus,    \* scalar capacity, the reserve already subtracted
    Whole    \* share units of one GPU

ASSUME CapacityAssumption ==
    /\ GPUs \subseteq Nat /\ IsFiniteSet(GPUs)
    /\ Cpus \in Nat /\ Whole \in Nat \ {0}

AllFree == [cpus |-> Cpus, gpu |-> [g \in GPUs |-> Whole]]

NonNeg(n) == IF n > 0 THEN n ELSE 0

(***************************************************************************)
(* round(g) of a request for g >= 1 GPUs: Python rounds halves to even.    *)
(***************************************************************************)
Rounded(n) ==
    LET q == n \div Whole
        r == n % Whole
    IN  IF 2 * r > Whole \/ (2 * r = Whole /\ q % 2 = 1) THEN q + 1 ELSE q

(***************************************************************************)
(* The GPUs a request is given out of the free shares, as a set of share   *)
(* maps: empty when it does not fit, else a singleton.  A fraction goes to *)
(* the fullest GPU that still has room, a whole request to the lowest      *)
(* numbered free ones.                                                     *)
(***************************************************************************)
NoShares == [g \in GPUs |-> 0]

FractionOf(gpu, free) ==
    LET room == {g \in GPUs : free[g] >= gpu}
    IN  {[g \in GPUs |-> IF g = best THEN gpu ELSE 0] :
            best \in {b \in room : \A g \in room :
                         free[b] < free[g] \/ (free[b] = free[g] /\ b <= g)}}

WholeOf(n, free) ==
    LET full   == {g \in GPUs : free[g] >= Whole}
        chosen == {g \in full : Cardinality({h \in full : h < g}) < n}
    IN  IF Cardinality(full) < n THEN {}
        ELSE {[g \in GPUs |-> IF g \in chosen THEN Whole ELSE 0]}

SharesOf(gpu, free) ==
    IF gpu = 0 THEN {NoShares}
    ELSE IF gpu < Whole THEN FractionOf(gpu, free)
    ELSE WholeOf(Rounded(gpu), free)

\* _fit: the assignment a request gets from a pool, none when it does not fit.
Fit(req, pool) ==
    {[cpus |-> req.cpus, gpu |-> shares] :
        shares \in IF req.cpus > pool.cpus THEN {} ELSE SharesOf(req.gpu, pool.gpu)}

\* _take: the pool left once an assignment is subtracted.
Take(pool, assign) ==
    [cpus |-> pool.cpus - assign.cpus,
     gpu  |-> [g \in GPUs |-> pool.gpu[g] - assign.gpu[g]]]

\* Mutant: what waits is not set aside.
HoldNothingBack(pool, req) == pool

(***************************************************************************)
(* _hold_back: the pool left once a waiting request is set aside.  The     *)
(* GPUs are drained from the most free to the least, ties by index, each   *)
(* down to zero, until the request is covered.                             *)
(***************************************************************************)
HoldBack(pool, req) ==
    LET before(g) == {h \in GPUs : \/ pool.gpu[h] > pool.gpu[g]
                                   \/ pool.gpu[h] = pool.gpu[g] /\ h < g}
        drained(g) == MapThenSumSet(LAMBDA h : NonNeg(pool.gpu[h]), before(g))
        taken(g) == LET want == NonNeg(req.gpu - drained(g))
                        have == NonNeg(pool.gpu[g])
                    IN  IF have < want THEN have ELSE want
    IN  [cpus |-> NonNeg(pool.cpus - req.cpus),
         gpu  |-> [g \in GPUs |-> pool.gpu[g] - taken(g)]]

\* The free resources once every active assignment is taken.
PoolAfter(active) ==
    [cpus |-> Cpus - MapThenSumSet(LAMBDA a : a.assign.cpus, active),
     gpu  |-> [g \in GPUs |->
                 Whole - MapThenSumSet(LAMBDA a : a.assign.gpu[g], active)]]

\* order(q): priority first, then enqueue time, then key.
Before(p, q) ==
    \/ p.prio > q.prio
    \/ p.prio = q.prio /\ p.enq < q.enq
    \/ p.prio = q.prio /\ p.enq = q.enq /\ p.key < q.key

\* Mutant: an older job that fits is not given its place.
ConsiderInPassing(me, q, pool) ==
    IF Fit(q, pool) # {} THEN {pool}
    ELSE IF q.prio > me.prio THEN {HoldBack(pool, q)}
    ELSE IF q.late THEN {} ELSE {pool}

\* Mutant: a job that has waited too long holds nobody.
ConsiderUnheld(me, q, pool) ==
    IF Fit(q, pool) # {} THEN {Take(pool, a) : a \in Fit(q, pool)}
    ELSE IF q.prio > me.prio THEN {HoldBack(pool, q)} ELSE {pool}

(***************************************************************************)
(* One turn of the loop over the entries ahead of me: the pools left, at   *)
(* most one.  The entry is given its place when it fits; it is set aside   *)
(* for when it has priority over me; and when it has waited too long it    *)
(* holds everyone behind it, which leaves no pool at all.                  *)
(***************************************************************************)
Consider(me, q, pool) ==
    LET first == Fit(q, pool)
    IN  IF first # {} THEN {Take(pool, a) : a \in first}
        ELSE IF q.prio > me.prio THEN {HoldBack(pool, q)}
        ELSE IF q.late THEN {} ELSE {pool}

\* Mutant: every other job is given its place, not only those ahead.
TurnBehindAll(me, active, queue) ==
    LET others == {q \in queue : q.key # me.key}
        ranked(n) == {q \in others : Cardinality({p \in others : Before(p, q)}) = n - 1}
        left[n \in 0..Cardinality(others)] ==
            IF n = 0 THEN {PoolAfter(active)}
            ELSE UNION {Consider(me, q, pool) : q \in ranked(n), pool \in left[n - 1]}
    IN  left[Cardinality(others)]

\* What is left for me once everyone ahead of me has been considered in order.
Turn(me, active, queue) ==
    LET ahead == {q \in queue : Before(q, me)}
        ranked(n) == {q \in ahead : Cardinality({p \in ahead : Before(p, q)}) = n - 1}
        left[n \in 0..Cardinality(ahead)] ==
            IF n = 0 THEN {PoolAfter(active)}
            ELSE UNION {Consider(me, q, pool) : q \in ranked(n), pool \in left[n - 1]}
    IN  left[Cardinality(ahead)]

(***************************************************************************)
(* decide(me, cap, active, queue, now): the assignment queue entry me is   *)
(* admitted with, none when it must wait.  The several worded reasons to   *)
(* wait are not told apart; the one refusal that ends a job is Impossible. *)
(***************************************************************************)
Impossible(req) == Fit(req, AllFree) = {}

\* Mutant: the jobs that run are forgotten.
DecideUnaware(me, active, queue) ==
    IF Impossible(me) THEN {} ELSE UNION {Fit(me, pool) : pool \in Turn(me, {}, queue)}

Decide(me, active, queue) ==
    IF Impossible(me) \/ Fit(me, PoolAfter(active)) = {} THEN {}
    ELSE UNION {Fit(me, pool) : pool \in Turn(me, active, queue)}
=============================================================================
