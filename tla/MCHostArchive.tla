----------------------------- MODULE MCHostArchive -----------------------------
(***************************************************************************)
(* Two files of one content at first; a tag driven by hand whose name      *)
(* comes before those of host_sync.  The budgets are constants of the .cfg *)
(***************************************************************************)
EXTENDS HostArchive

CONSTANTS Writes, Backs, Fails, Kills, Hands, Overlaps, Replans, Restored, Any

MCOriginal == [f \in Files |-> 1]
MCBudget == [k \in Kinds |->
    CASE k = "write" -> Writes [] k = "back" -> Backs [] k = "fail" -> Fails
      [] k = "kill" -> Kills [] k = "hand" -> Hands [] k = "overlap" -> Overlaps
      [] k = "replan" -> Replans [] k = "restore" -> Restored [] k = "any" -> Any]
=============================================================================
