----------------------------- MODULE MCRxFetch -----------------------------
(***************************************************************************)
(* RxFetch on a few files, with its budgets as constants of the .cfg.      *)
(***************************************************************************)
EXTENDS RxFetch

CONSTANTS Starts, Overlaps, HostChanges, Edits, WindowEdits, Cuts, Refusals, Busies, Lates, Crashes, Any

CONSTANT First

MCProduced == [f \in Files |-> First]
MCBudget == [k \in Kinds |->
    CASE k = "starts" -> Starts [] k = "overlap" -> Overlaps [] k = "host" -> HostChanges
      [] k = "edits" -> Edits [] k = "window" -> WindowEdits [] k = "cut" -> Cuts
      [] k = "refused" -> Refusals [] k = "busy" -> Busies [] k = "late" -> Lates
      [] k = "crash" -> Crashes [] k = "any" -> Any]
=============================================================================
