------------------------------ MODULE MCRxSched ------------------------------
(***************************************************************************)
(* RxSched with the real admission rule: jobs of one host with two GPUs,   *)
(* decided by RxDecide.                                                    *)
(***************************************************************************)
EXTENDS RxSched, TLC

CONSTANT Cpus

Rule == INSTANCE RxDecide

R(c, g) == [cpus |-> c, gpu |-> g]

\* Three jobs for two GPUs of two units: a whole GPU, both of them (first in
\* priority), and half a one.
Reqs == <<R(1, 2), R(1, 4), R(1, 1)>>
Prios == <<0, 10, 0>>

Shares(a, b) == 0 :> a @@ 1 :> b
Given(c, a, b) == [cpus |-> c, gpu |-> Shares(a, b)]
MCAssigns == {Given(1, 2, 0), Given(1, 0, 2), Given(1, 2, 2), Given(1, 1, 0), Given(1, 0, 1)}

Entry(j, n, late) == [key |-> j, prio |-> Prios[j], enq |-> n, late |-> j \in late,
                      cpus |-> Reqs[j].cpus, gpu |-> Reqs[j].gpu]

MCDecision(j, n, holds, waits, late) ==
    LET active == UNION {{[key |-> k, assign |-> a] : a \in holds[k]} : k \in Jobs}
        queue  == {Entry(k, waits[k], late) : k \in {k \in Jobs : waits[k] # 0}}
    IN  UNION {Rule!Decide(Entry(j, n, late), act, q) : act \in {active}, q \in {queue}}

SupSymmetry == Permutations(Sups)
=============================================================================
