----------------------------- MODULE MCHostFeed -----------------------------
(***************************************************************************)
(* HostFeed with two items, the second behind the first.                   *)
(***************************************************************************)
EXTENDS HostFeed

CONSTANTS First, Second, Fails, Losses, Cancels, Taken, Crashes, Full, Refused, Unclear, Deaf, Any

MCDeps == [n \in Items |-> IF n = Second THEN {First} ELSE {}]
MCBudget == [fails |-> Fails, lost |-> Losses, cancels |-> Cancels, backs |-> Taken,
             crash |-> Crashes, full |-> Full, refused |-> Refused, unclear |-> Unclear,
             deaf |-> Deaf, any |-> Any]
=============================================================================
