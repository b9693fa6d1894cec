------------------------------ MODULE MCRxQueue ------------------------------
(***************************************************************************)
(* Small hosts for RxQueue: a table of jobs per run, four scalar units and *)
(* two or three GPUs.                                                      *)
(***************************************************************************)
EXTENDS RxQueue

R(c, g) == [cpus |-> c, gpu |-> g]

\* Four jobs of the first project: one wants nearly every cpu, one both GPUs, and
\* two share a GPU and can overtake those.  A job of a second project comes last.
MixedReq == <<R(3, 0), R(1, 4), R(1, 1), R(2, 1), R(1, 2)>>
MixedPrio == <<10, 10, 10, 10, 0>>

\* Quarters of two GPUs: the higher-priority job needs a whole one.
QuartersReq == <<R(1, 4), R(1, 3), R(1, 2), R(1, 1), R(1, 1)>>
QuartersPrio == <<10, 0, 0, 0, 0>>
=============================================================================
