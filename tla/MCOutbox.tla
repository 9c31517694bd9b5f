------------------------------ MODULE MCOutbox ------------------------------
(***************************************************************************)
(* Outbox instances for TLC.                                               *)
(***************************************************************************)
EXTENDS Outbox, TLC

CONSTANTS w1, w2, tA, tB

OneTenantRows   == [r \in Row |-> tA]
OneTenantRelays == [w \in Relay |-> tA]

\* Row 3 is of a tenant that neither relay works for.
ForeignRow == [r \in Row |-> IF r = 3 THEN tB ELSE tA]

RelaySymmetry == Permutations(Relay)
=============================================================================
