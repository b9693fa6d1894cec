---------------------------- MODULE MCRxTransfer ----------------------------
(***************************************************************************)
(* RxTransfer with files of two or three blocks.                           *)
(***************************************************************************)
EXTENDS RxTransfer

CONSTANTS Failures, Edits, Outputs, Pushed

MCVersions == {<<1, 2>>, <<3, 4>>, <<1, 2, 5>>}
MCOutput == <<6, 7>>
MCElsewhere == {<<3, 4>>}
MCBudget == [failures |-> Failures, edits |-> Edits, outputs |-> Outputs, pushes |-> Pushed]
=============================================================================
