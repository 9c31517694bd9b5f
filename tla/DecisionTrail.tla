--------------------------- MODULE DecisionTrail ---------------------------
(***************************************************************************)
(* What the decision log promises an auditor, without callers, heads,      *)
(* transactions or indexes.  Each tenant has one trail.  It grows at its   *)
(* end only, by one entry at a time, and what it holds is never changed,   *)
(* moved or taken back.  A decision becomes known to a caller when its     *)
(* entry is in the trail, never before; an entry may stay whose decision   *)
(* no caller ever learns.                                                  *)
(***************************************************************************)
CONSTANTS Entry, Tenant, Nothing

VARIABLES
    trail,   \* the entries, each with its tenant and the entry it follows
    end,     \* the last entry of each tenant
    known    \* the entries whose decision some caller has been told

vars == <<trail, end, known>>

Recorded == {r.entry : r \in trail}

Init ==
    /\ trail = {} /\ known = {}
    /\ end = [t \in Tenant |-> Nothing]

\* e is put at the end of the trail of t; callers may be told of entries.
Append(t, e) ==
    /\ e \notin Recorded
    /\ trail' = trail \cup {[entry |-> e, tenant |-> t, follows |-> end[t]]}
    /\ end' = [end EXCEPT ![t] = e]
    /\ \E told \in SUBSET Recorded' : known' = known \cup told

Next == \E t \in Tenant, e \in Entry : Append(t, e)

Spec == Init /\ [][Next]_vars
=============================================================================
