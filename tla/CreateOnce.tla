----------------------------- MODULE CreateOnce -----------------------------
(***************************************************************************)
(* What customer.create promises its clients, without pipeline, database   *)
(* or connections: per tenant and idempotency key at most one request      *)
(* creates a customer, 201 is given to that request only, 409 only when    *)
(* another request did create it, and a refused request creates nothing.   *)
(* A request that ended in an error may have created its customer, and may *)
(* still do so after the error: the client has to ask again.               *)
(***************************************************************************)
CONSTANTS Request, Claim    \* a claim stands for (tenant, idempotency key)

VARIABLES
    claim,      \* what each request asks for, {} before it arrives
    created,    \* the requests whose customer exists
    answer      \* what each request was told

vars == <<claim, created, answer>>

Init ==
    /\ claim = [q \in Request |-> {}]
    /\ created = {}
    /\ answer = [q \in Request |-> "none"]

Submit(q) ==
    /\ claim[q] = {}
    /\ \E k \in Claim : claim' = [claim EXCEPT ![q] = {k}]
    /\ UNCHANGED <<created, answer>>

\* Some other request has created the customer q asks for.
Taken(q) == \E r \in created \ {q} : claim[r] = claim[q]

Refused(q) == answer[q] \in {"400", "403", "409"}

\* The customer of q comes into being; the request is told, or had its error.
Create(q) ==
    /\ claim[q] # {} /\ q \notin created /\ ~Taken(q)
    /\ created' = created \cup {q}
    /\ \/ answer[q] = "none" /\ answer' = [answer EXCEPT ![q] = "201"]
       \/ answer[q] = "error" /\ UNCHANGED answer
    /\ UNCHANGED claim

Conflict(q) ==
    /\ answer[q] = "none" /\ q \notin created /\ Taken(q)
    /\ answer' = [answer EXCEPT ![q] = "409"]
    /\ UNCHANGED <<claim, created>>

Refuse(q) ==
    /\ answer[q] = "none" /\ q \notin created
    /\ \E a \in {"400", "403"} : answer' = [answer EXCEPT ![q] = a]
    /\ UNCHANGED <<claim, created>>

\* Some requests end in an error: one by itself, several when the process dies.
Fail ==
    /\ \E Q \in SUBSET {q \in Request : answer[q] = "none"} :
         answer' = [q \in Request |-> IF q \in Q THEN "error" ELSE answer[q]]
    /\ UNCHANGED <<claim, created>>

Next ==
    \/ \E q \in Request : Submit(q) \/ Create(q) \/ Conflict(q) \/ Refuse(q)
    \/ Fail

Spec == Init /\ [][Next]_vars
=============================================================================
