---------------------------- MODULE AtLeastOnce ----------------------------
(***************************************************************************)
(* What the outbox promises the consumers of its entries, without relays,  *)
(* claims, leases, tokens or transactions.  An entry that was put in is    *)
(* attempted again and again until it is done.  Each counted attempt       *)
(* offers it once at most; it is done only after some offer was accepted;  *)
(* from then on it is attempted no more, though an attempt that had begun  *)
(* before may still offer it; and it is reported as done once at most,     *)
(* never before it is.  Nobody is promised that it is offered only once,   *)
(* nor that it is ever reported.                                           *)
(***************************************************************************)
EXTENDS Naturals

CONSTANT Entry

VARIABLES
    queue,      \* the entries that were put in
    attempts,   \* attempts counted for each entry
    offers,     \* how often each entry was offered
    accepted,   \* the entries of which an offer was accepted
    done,       \* the entries marked as done
    reports     \* how often each entry was reported as done

vars == <<queue, attempts, offers, accepted, done, reports>>

Init ==
    /\ queue = {} /\ accepted = {} /\ done = {}
    /\ attempts = [e \in Entry |-> 0]
    /\ offers = [e \in Entry |-> 0]
    /\ reports = [e \in Entry |-> 0]

Put(e) ==
    /\ e \notin queue
    /\ queue' = queue \cup {e}
    /\ UNCHANGED <<attempts, offers, accepted, done, reports>>

\* A batch of waiting entries is attempted.
Attempt ==
    /\ \E S \in SUBSET (queue \ done) :
         attempts' = [e \in Entry |-> IF e \in S THEN attempts[e] + 1 ELSE attempts[e]]
    /\ UNCHANGED <<queue, offers, accepted, done, reports>>

\* One of the attempts on e comes to its offer, which is accepted or not.
Offer(e) ==
    /\ offers[e] < attempts[e]
    /\ offers' = [offers EXCEPT ![e] = @ + 1]
    /\ accepted' \in {accepted, accepted \cup {e}}
    /\ UNCHANGED <<queue, attempts, done, reports>>

Finish(e) ==
    /\ e \in accepted \ done
    /\ done' = done \cup {e}
    /\ UNCHANGED <<queue, attempts, offers, accepted, reports>>

\* A batch of entries is reported to whoever runs the attempts.
Report ==
    /\ \E S \in SUBSET {e \in done : reports[e] = 0} :
         reports' = [e \in Entry |-> IF e \in S THEN reports[e] + 1 ELSE reports[e]]
    /\ UNCHANGED <<queue, attempts, offers, accepted, done>>

Next ==
    \/ Attempt \/ Report
    \/ \E e \in Entry : Put(e) \/ Offer(e) \/ Finish(e)

Spec == Init /\ [][Next]_vars
=============================================================================
