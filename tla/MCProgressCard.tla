--------------------------- MODULE MCProgressCard ---------------------------
(***************************************************************************)
(* Instances of ProgressCard for TLC.                                      *)
(***************************************************************************)
EXTENDS ProgressCard, TLC

CONSTANTS r1, r2

=============================================================================
