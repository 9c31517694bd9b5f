-------------------------- MODULE MCCreateCustomer --------------------------
(***************************************************************************)
(* CreateCustomer instances for TLC.                                       *)
(***************************************************************************)
EXTENDS CreateCustomer, TLC

CONSTANTS q1, q2, q3, c1, c2, tA, tB, k1, k2

RequestSymmetry ==
    Permutations(Request) \cup Permutations(Client) \cup Permutations(Tenant)
=============================================================================
