--------------------------- MODULE MCDecisionLog ---------------------------
(***************************************************************************)
(* DecisionLog instances for TLC.                                          *)
(***************************************************************************)
EXTENDS DecisionLog

CONSTANTS d1, d2, tA, tB
=============================================================================
