----------------------------- MODULE MCHostBridge -----------------------------
(* A request and its retry under the same key.                              *)
EXTENDS HostBridge

CONSTANTS r1, r2, k1

MCKeyOf == [q \in Request |-> k1]
==============================================================================
