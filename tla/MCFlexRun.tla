----------------------------- MODULE MCFlexRun ------------------------------
(* FlexRun for one organization with two connections.                       *)
EXTENDS FlexRun
=============================================================================
