------------------------------- MODULE MCCleanup -------------------------------
(***************************************************************************)
(* Two items, the second behind the first; a build that the first names    *)
(* and the second's family pins, and a result that the second names.       *)
(***************************************************************************)
EXTENDS Cleanup

CONSTANTS build, result, first, second,
          Writes, Restores, Releases, Reads, Trains, Windows, Fails, Retries, Opens, Raises, Any

MCAfter == [i \in Items |-> IF i = second THEN {first} ELSE {}]
MCNamed == [i \in Items |-> IF i = first THEN {build} ELSE {result}]
MCPinned == [i \in Items |-> IF i = first THEN {} ELSE {build}]
MCPath == [f \in Files |-> IF f = build THEN "build" ELSE "other"]
MCSizeOf == [f \in Files |-> IF f = build THEN 2 ELSE 1]
MCReleasable == {{build}}
MCBudget == [k \in Kinds |->
    CASE k = "write" -> Writes [] k = "restore" -> Restores [] k = "release" -> Releases
      [] k = "read" -> Reads [] k = "train" -> Trains [] k = "window" -> Windows [] k = "fail" -> Fails
      [] k = "retry" -> Retries [] k = "open" -> Opens [] k = "raise" -> Raises
      [] k = "any" -> Any]
=============================================================================
