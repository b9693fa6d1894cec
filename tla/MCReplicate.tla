------------------------------ MODULE MCReplicate ------------------------------
(***************************************************************************)
(* Two files: one slice wants one of them, the other both.  Two contents   *)
(* are of one size.  The budgets are constants of the .cfg.                *)
(***************************************************************************)
EXTENDS Replicate

CONSTANTS f1, f2, narrow, full, c1, c2, c3,
          Changes, Overlaps, Cuts, Stalls, Kills, Gaps, Landings, Any

MCWanted == [s \in Slices |-> IF s = narrow THEN {f1} ELSE Files]
MCPrefixes == {{f} : f \in Files}
MCOriginal == [f \in Files |-> c1]
MCSizeOf == [c \in Held |-> CASE c = Torn -> 0 [] c = c3 -> 2 [] OTHER -> 1]
MCBudget == [k \in Kinds |->
    CASE k = "change" -> Changes [] k = "overlap" -> Overlaps [] k = "cut" -> Cuts
      [] k = "stall" -> Stalls [] k = "kill" -> Kills [] k = "listing" -> Gaps
      [] k = "landing" -> Landings [] k = "any" -> Any]
=============================================================================
