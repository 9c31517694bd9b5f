------------------------------- MODULE Outbox -------------------------------
(***************************************************************************)
(* The transactional outbox and the relay that drains it:                  *)
(* db/metaframer_kernel_db/outbox.py (claim_batch, release_claim,          *)
(* publish_claim), outbox_relay.py (run_outbox_relay_once) and the         *)
(* transaction wrapper of session.py, over the table of migration 0001.    *)
(*                                                                         *)
(* Several relays run passes at the same time.  Each pass opens one        *)
(* transaction to claim a batch, offers the rows one after the other to a  *)
(* delivery callback, and settles every row (publish or release) in a      *)
(* fresh transaction fenced on the row's claim token.  PostgreSQL is       *)
(* modelled by what those statements rely on: READ COMMITTED visibility,   *)
(* row locks held until the end of the transaction, and now() being the    *)
(* time at which the transaction began.                                    *)
(***************************************************************************)
EXTENDS Integers, FiniteSets

CONSTANTS
    Row,          \* outbox row ids; their order stands for (recorded_at, id)
    Relay,        \* processes running run_outbox_relay_once
    Tenant,       \* tenant identities
    RowTenant,    \* the tenant_id column
    RelayTenant,  \* the tenant a relay opens its transactions for
    Limit,        \* claim_batch's limit
    Lease,        \* claim_batch's lease_seconds
    MaxNow,       \* bound: the clock stops here
    MaxFailures   \* bound: crashes, exceptions and refused deliveries

ASSUME OutboxAssumption ==
    /\ Row \subseteq Nat \ {0}
    /\ RowTenant \in [Row -> Tenant]
    /\ RelayTenant \in [Relay -> Tenant]
    /\ Limit \in Nat \ {0}        \* limit <= 0 is a ValueError before any SQL
    /\ Lease \in Nat \ {0}
    /\ MaxNow \in Nat \ {0}
    /\ MaxFailures \in Nat

VARIABLES
    now,        \* the database clock
    availableAt, claimedAt, claimToken,        \* the committed table,
    claimExpiresAt, attempts, publishedAt,     \* a function per column
    minted,     \* how many claim tokens gen_random_uuid() has made for a row
    pc,         \* where each relay is in its pass
    txNow,      \* now() of the relay's open transaction
    locked,     \* row locks held by the relay's open transaction
    rows,       \* rows of the claimed batch the relay has not settled yet
    token,      \* the claim token the relay read for each row of its batch
    leaseEnd,   \* claim_expires_at of the relay's batch
    cur,        \* the row being delivered or settled
    published,  \* the relay's list of published ids
    failed,     \* the relay's list of failed ids
    offers,     \* history: calls of deliver(row)
    delivered,  \* history: <<row, token>> for which deliver returned True
    acked,      \* history: returned results that list the row as published
    failures    \* failures used up so far

outbox == <<availableAt, claimedAt, claimToken, claimExpiresAt, attempts, publishedAt>>
table == <<outbox, minted>>
pass  == <<pc, txNow, locked, rows, token, leaseEnd, cur, published, failed>>
hist  == <<offers, delivered, acked>>
vars  == <<now, table, pass, hist, failures>>

Null == 0   \* SQL NULL; times and tokens start at 1

\* Locations with an open publish or release transaction.
Settling == {"publish", "release", "publishing", "releasing"}
Location == {"idle", "begun", "claimed", "deliver"} \cup Settling

Enqueued(r)    == availableAt[r] # Null
IsPublished(r) == publishedAt[r] # Null
IsClaimed(r)   == claimedAt[r] # Null

TypeOK ==
    /\ now \in Nat \ {0}
    /\ availableAt \in [Row -> Nat] /\ publishedAt \in [Row -> Nat]
    /\ claimedAt \in [Row -> Nat] /\ claimToken \in [Row -> Nat]
    /\ claimExpiresAt \in [Row -> Nat] /\ attempts \in [Row -> Nat]
    /\ minted \in [Row -> Nat]
    /\ pc \in [Relay -> Location]
    /\ txNow \in [Relay -> Nat]
    /\ locked \in [Relay -> SUBSET Row]
    /\ rows \in [Relay -> SUBSET Row]
    /\ token \in [Relay -> [Row -> Nat]]
    /\ leaseEnd \in [Relay -> Nat]
    /\ cur \in [Relay -> Row \cup {Null}]
    /\ \A w \in Relay : cur[w] # Null <=> pc[w] \in Settling
    /\ published \in [Relay -> SUBSET Row]
    /\ failed \in [Relay -> SUBSET Row]
    /\ offers \in [Row -> Nat]
    /\ delivered \subseteq Row \X Nat
    /\ acked \in [Row -> Nat]
    /\ failures \in Nat

Init ==
    /\ now = 1
    /\ availableAt = [r \in Row |-> Null] /\ publishedAt = [r \in Row |-> Null]
    /\ claimedAt = [r \in Row |-> Null] /\ claimToken = [r \in Row |-> Null]
    /\ claimExpiresAt = [r \in Row |-> Null] /\ attempts = [r \in Row |-> 0]
    /\ minted = [r \in Row |-> 0]
    /\ pc = [w \in Relay |-> "idle"]
    /\ txNow = [w \in Relay |-> Null]
    /\ locked = [w \in Relay |-> {}]
    /\ rows = [w \in Relay |-> {}]
    /\ token = [w \in Relay |-> [r \in Row |-> Null]]
    /\ leaseEnd = [w \in Relay |-> Null]
    /\ cur = [w \in Relay |-> Null]
    /\ published = [w \in Relay |-> {}]
    /\ failed = [w \in Relay |-> {}]
    /\ offers = [r \in Row |-> 0]
    /\ delivered = {}
    /\ acked = [r \in Row |-> 0]
    /\ failures = 0

-----------------------------------------------------------------------------
(* The environment: time passes, and the create-customer transaction       *)
(* commits a new row whose available_at is that transaction's now().       *)

Tick ==
    /\ now < MaxNow
    /\ now' = now + 1
    /\ UNCHANGED <<table, pass, hist, failures>>

Enqueue(r, t) ==
    /\ ~Enqueued(r)
    /\ t \in 1..now
    /\ availableAt' = [availableAt EXCEPT ![r] = t]
    /\ UNCHANGED <<now, claimedAt, claimToken, claimExpiresAt, attempts, publishedAt,
                   minted, pass, hist, failures>>

-----------------------------------------------------------------------------
(* claim_batch                                                             *)

\* Row-level security: a transaction sees the rows of its own tenant only.
Visible(w, r) == RowTenant[r] = RelayTenant[w]

LockedByOther(w, r) == \E v \in Relay \ {w} : r \in locked[v]

\* Mutant: a claimed row is claimable without looking at its lease.
ClaimableIgnoringLease(w, r) ==
    /\ Visible(w, r)
    /\ Enqueued(r) /\ availableAt[r] <= txNow[w]
    /\ ~IsPublished(r)

\* Mutant: an expired claim is never handed out again.
ClaimableOnlyIfFree(w, r) ==
    /\ Visible(w, r)
    /\ Enqueued(r) /\ availableAt[r] <= txNow[w]
    /\ ~IsPublished(r) /\ ~IsClaimed(r)

\* Mutant: the claim runs without the tenant's row-level-security policy.
ClaimableOfAnyTenant(w, r) ==
    /\ Enqueued(r) /\ availableAt[r] <= txNow[w]
    /\ ~IsPublished(r)
    /\ IsClaimed(r) => claimExpiresAt[r] <= txNow[w]

\* The WHERE clause of the claimable CTE.
Claimable(w, r) ==
    /\ Visible(w, r)
    /\ Enqueued(r) /\ availableAt[r] <= txNow[w]
    /\ ~IsPublished(r)
    /\ IsClaimed(r) => claimExpiresAt[r] <= txNow[w]

\* ORDER BY available_at, recorded_at, id.
Before(r, s) ==
    \/ availableAt[r] < availableAt[s]
    \/ availableAt[r] = availableAt[s] /\ r < s

\* Mutant: FOR UPDATE without SKIP LOCKED or a lock at all.
ClaimIgnoringLocks(w) ==
    LET found == {r \in Row : Claimable(w, r)}
    IN  {r \in found : Cardinality({s \in found : Before(s, r)}) < Limit}

\* FOR UPDATE SKIP LOCKED LIMIT :limit - the first Limit claimable rows that no
\* other transaction has locked.
ClaimSet(w) ==
    LET found == {r \in Row : Claimable(w, r) /\ ~LockedByOther(w, r)}
    IN  {r \in found : Cardinality({s \in found : Before(s, r)}) < Limit}

\* Open the claiming transaction: now() is fixed from here on.
BeginPass(w) ==
    /\ pc[w] = "idle"
    /\ pc' = [pc EXCEPT ![w] = "begun"]
    /\ txNow' = [txNow EXCEPT ![w] = now]
    /\ UNCHANGED <<now, table, locked, rows, token, leaseEnd, cur, published, failed,
                   hist, failures>>

\* The claim statement.  Its rows are returned to the relay and locked; the new
\* column values become visible to others when the transaction commits.
ClaimBatch(w) ==
    /\ pc[w] = "begun"
    /\ LET S == ClaimSet(w) IN
         /\ locked' = [locked EXCEPT ![w] = S]
         /\ rows' = [rows EXCEPT ![w] = S]
         /\ minted' = [r \in Row |-> IF r \in S THEN minted[r] + 1 ELSE minted[r]]
         /\ token' = [token EXCEPT ![w] =
                        [r \in Row |-> IF r \in S THEN minted[r] + 1 ELSE Null]]
    /\ leaseEnd' = [leaseEnd EXCEPT ![w] = txNow[w] + Lease]
    /\ pc' = [pc EXCEPT ![w] = "claimed"]
    /\ UNCHANGED <<now, outbox, txNow, cur, published, failed, hist, failures>>

\* One SET clause: column = value in the rows the statement has locked.
Set(column, w, value) ==
    [r \in Row |-> IF r \in locked[w] THEN value ELSE column[r]]

\* Mutant: a reclaim forgets to count the attempt.
ClaimWritesUncounted(w) ==
    /\ claimedAt' = Set(claimedAt, w, txNow[w])
    /\ claimToken' = [r \in Row |-> IF r \in locked[w] THEN token[w][r] ELSE claimToken[r]]
    /\ claimExpiresAt' = Set(claimExpiresAt, w, leaseEnd[w])
    /\ UNCHANGED <<availableAt, attempts, publishedAt>>

\* SET claimed_at, claim_token, claim_expires_at, attempts.
ClaimWrites(w) ==
    /\ claimedAt' = Set(claimedAt, w, txNow[w])
    /\ claimToken' = [r \in Row |-> IF r \in locked[w] THEN token[w][r] ELSE claimToken[r]]
    /\ claimExpiresAt' = Set(claimExpiresAt, w, leaseEnd[w])
    /\ attempts' = [r \in Row |-> IF r \in locked[w] THEN attempts[r] + 1 ELSE attempts[r]]
    /\ UNCHANGED <<availableAt, publishedAt>>

CommitClaim(w) ==
    /\ pc[w] = "claimed"
    /\ ClaimWrites(w)
    /\ locked' = [locked EXCEPT ![w] = {}]
    /\ pc' = [pc EXCEPT ![w] = "deliver"]
    /\ UNCHANGED <<now, minted, txNow, rows, token, leaseEnd, cur, published, failed,
                   hist, failures>>

-----------------------------------------------------------------------------
(* The loop of run_outbox_relay_once over the claimed rows.  The order in  *)
(* which UPDATE ... RETURNING yields rows is unspecified, so any row of    *)
(* the rest of the batch may be next.                                      *)

\* deliver(row) is True, and the publishing transaction opens.
DeliverTrue(w, r) ==
    /\ pc[w] = "deliver" /\ r \in rows[w]
    /\ offers' = [offers EXCEPT ![r] = @ + 1]
    /\ delivered' = delivered \cup {<<r, token[w][r]>>}
    /\ cur' = [cur EXCEPT ![w] = r]
    /\ rows' = [rows EXCEPT ![w] = @ \ {r}]
    /\ pc' = [pc EXCEPT ![w] = "publish"]
    /\ txNow' = [txNow EXCEPT ![w] = now]
    /\ UNCHANGED <<now, table, locked, token, leaseEnd, published, failed, acked, failures>>

\* Mutant: a refused delivery is published all the same.
DeliverFalseToPublish(w, r) ==
    /\ pc[w] = "deliver" /\ r \in rows[w]
    /\ failures < MaxFailures /\ failures' = failures + 1
    /\ offers' = [offers EXCEPT ![r] = @ + 1]
    /\ cur' = [cur EXCEPT ![w] = r]
    /\ rows' = [rows EXCEPT ![w] = @ \ {r}]
    /\ pc' = [pc EXCEPT ![w] = "publish"]
    /\ txNow' = [txNow EXCEPT ![w] = now]
    /\ UNCHANGED <<now, table, locked, token, leaseEnd, published, failed, delivered, acked>>

\* deliver(row) returns something else or raises; the releasing transaction opens.
DeliverFalse(w, r) ==
    /\ pc[w] = "deliver" /\ r \in rows[w]
    /\ failures < MaxFailures /\ failures' = failures + 1
    /\ offers' = [offers EXCEPT ![r] = @ + 1]
    /\ cur' = [cur EXCEPT ![w] = r]
    /\ rows' = [rows EXCEPT ![w] = @ \ {r}]
    /\ pc' = [pc EXCEPT ![w] = "release"]
    /\ txNow' = [txNow EXCEPT ![w] = now]
    /\ UNCHANGED <<now, table, locked, token, leaseEnd, published, failed, delivered, acked>>

\* Mutant: the fence compares only the row id.
FencedById(w) ==
    /\ Visible(w, cur[w])
    /\ IsClaimed(cur[w]) /\ ~IsPublished(cur[w])

\* The WHERE clause that publish and release share: still this relay's claim,
\* and not published.
Fenced(w) ==
    /\ Visible(w, cur[w])
    /\ claimToken[cur[w]] = token[w][cur[w]]
    /\ IsClaimed(cur[w]) /\ ~IsPublished(cur[w])

\* A matching UPDATE waits for another transaction's lock on the row and then
\* looks again; a statement that matches nothing waits for nobody.
Unlocked(w) == ~LockedByOther(w, cur[w])

\* publish_claim returns the id, which goes to the published list before COMMIT.
PublishClaim(w) ==
    /\ pc[w] = "publish" /\ Fenced(w) /\ Unlocked(w)
    /\ locked' = [locked EXCEPT ![w] = {cur[w]}]
    /\ published' = [published EXCEPT ![w] = @ \cup {cur[w]}]
    /\ pc' = [pc EXCEPT ![w] = "publishing"]
    /\ UNCHANGED <<now, table, txNow, rows, token, leaseEnd, cur, failed, hist, failures>>

\* Mutant: the relay does not look at what publish_claim returned.
PublishUnchecked(w) ==
    /\ pc[w] = "publish" /\ ~Fenced(w)
    /\ published' = [published EXCEPT ![w] = @ \cup {cur[w]}]
    /\ pc' = [pc EXCEPT ![w] = "publishing"]
    /\ UNCHANGED <<now, table, txNow, rows, token, leaseEnd, cur, locked, failed,
                   hist, failures>>

\* publish_claim returns nothing: the id goes to the failed list.
PublishFencedOut(w) ==
    /\ pc[w] = "publish" /\ ~Fenced(w)
    /\ failed' = [failed EXCEPT ![w] = @ \cup {cur[w]}]
    /\ pc' = [pc EXCEPT ![w] = "publishing"]
    /\ UNCHANGED <<now, table, txNow, rows, token, leaseEnd, cur, locked, published,
                   hist, failures>>

\* SET published_at = now().
PublishWrites(w) ==
    /\ publishedAt' = Set(publishedAt, w, txNow[w])
    /\ UNCHANGED <<availableAt, claimedAt, claimToken, claimExpiresAt, attempts>>

\* release_claim inside its transaction.
ReleaseClaim(w) ==
    /\ pc[w] = "release" /\ (Fenced(w) => Unlocked(w))
    /\ locked' = [locked EXCEPT ![w] = IF Fenced(w) THEN {cur[w]} ELSE {}]
    /\ pc' = [pc EXCEPT ![w] = "releasing"]
    /\ UNCHANGED <<now, table, txNow, rows, token, leaseEnd, cur, published, failed,
                   hist, failures>>

\* SET claimed_at = NULL, claim_token = NULL, claim_expires_at = NULL.
ReleaseWrites(w) ==
    /\ claimedAt' = Set(claimedAt, w, Null)
    /\ claimToken' = Set(claimToken, w, Null)
    /\ claimExpiresAt' = Set(claimExpiresAt, w, Null)
    /\ UNCHANGED <<availableAt, attempts, publishedAt>>

\* Leaving the with-block: COMMIT, and on to the next row.
CommitPublish(w) ==
    /\ pc[w] = "publishing"
    /\ PublishWrites(w)
    /\ locked' = [locked EXCEPT ![w] = {}]
    /\ cur' = [cur EXCEPT ![w] = Null]
    /\ pc' = [pc EXCEPT ![w] = "deliver"]
    /\ UNCHANGED <<now, minted, txNow, rows, token, leaseEnd, published, failed,
                   hist, failures>>

CommitRelease(w) ==
    /\ pc[w] = "releasing"
    /\ ReleaseWrites(w)
    /\ locked' = [locked EXCEPT ![w] = {}]
    /\ failed' = [failed EXCEPT ![w] = @ \cup {cur[w]}]
    /\ cur' = [cur EXCEPT ![w] = Null]
    /\ pc' = [pc EXCEPT ![w] = "deliver"]
    /\ UNCHANGED <<now, minted, txNow, rows, token, leaseEnd, published, hist, failures>>

\* What a relay forgets between two passes (and in a crash).
EndPass(w) ==
    /\ pc' = [pc EXCEPT ![w] = "idle"]
    /\ txNow' = [txNow EXCEPT ![w] = Null]
    /\ locked' = [locked EXCEPT ![w] = {}]
    /\ rows' = [rows EXCEPT ![w] = {}]
    /\ token' = [token EXCEPT ![w] = [r \in Row |-> Null]]
    /\ leaseEnd' = [leaseEnd EXCEPT ![w] = Null]
    /\ cur' = [cur EXCEPT ![w] = Null]
    /\ published' = [published EXCEPT ![w] = {}]
    /\ failed' = [failed EXCEPT ![w] = {}]

\* The loop is over: return OutboxRelayResult(published, failed).
ReturnResult(w) ==
    /\ pc[w] = "deliver" /\ rows[w] = {}
    /\ acked' = [r \in Row |-> IF r \in published[w] THEN acked[r] + 1 ELSE acked[r]]
    /\ EndPass(w)
    /\ UNCHANGED <<now, table, offers, delivered, failures>>

-----------------------------------------------------------------------------
(* Failures.                                                               *)

\* Bounds: finitely many failures, and none so late that the clock stops before
\* the lease of the interrupted batch has run out.
Spend(w) ==
    /\ failures < MaxFailures /\ failures' = failures + 1
    /\ leaseEnd[w] <= MaxNow

\* The process crashes, or an exception leaves run_outbox_relay_once: an open
\* transaction rolls back and nothing is returned.
Abort(w) ==
    /\ pc[w] # "idle" /\ Spend(w)
    /\ EndPass(w)
    /\ UNCHANGED <<now, table, hist>>

\* COMMIT takes effect but the connection dies before the answer: the exception
\* ends the pass all the same.
LoseAnswer(w) ==
    /\ Spend(w)
    /\ \/ pc[w] = "claimed" /\ ClaimWrites(w)
       \/ pc[w] = "publishing" /\ PublishWrites(w)
       \/ pc[w] = "releasing" /\ ReleaseWrites(w)
    /\ EndPass(w)
    /\ UNCHANGED <<now, minted, hist>>

-----------------------------------------------------------------------------

\* The statements of one pass, in program order.
Step(w) ==
    \/ ClaimBatch(w) \/ CommitClaim(w)
    \/ \E r \in Row : DeliverTrue(w, r)
    \/ PublishClaim(w) \/ PublishFencedOut(w) \/ CommitPublish(w)
    \/ ReleaseClaim(w) \/ CommitRelease(w)
    \/ ReturnResult(w)

Next ==
    \/ Tick
    \/ \E r \in Row, t \in 1..now : Enqueue(r, t)
    \/ \E w \in Relay :
         \/ BeginPass(w)
         \/ Step(w)
         \/ \E r \in Row : DeliverFalse(w, r)
         \/ Abort(w)
         \/ LoseAnswer(w)

Spec == Init /\ [][Next]_vars

\* A started pass is sequential code that keeps running unless it fails, time
\* passes, and some caller keeps starting passes for every tenant.
FairSpec ==
    /\ Spec
    /\ WF_vars(Tick)
    /\ \A w \in Relay : WF_vars(BeginPass(w)) /\ WF_vars(Step(w))

-----------------------------------------------------------------------------
(* Properties                                                              *)

\* The row as a whole.
Record(r) == <<availableAt[r], claimedAt[r], claimToken[r], claimExpiresAt[r],
               attempts[r], publishedAt[r]>>

\* The two CHECK constraints of the table are never what stops a statement: a
\* claim is all three columns or none, and a published row is a claimed one
\* whose claim, publication and availability are in order of time.
ClaimCoherent ==
    \A r \in Row :
        /\ claimToken[r] # Null <=> IsClaimed(r)
        /\ claimExpiresAt[r] # Null <=> IsClaimed(r)
        /\ IsClaimed(r) => Enqueued(r) /\ availableAt[r] <= claimedAt[r]
        /\ IsPublished(r) => IsClaimed(r) /\ claimedAt[r] <= publishedAt[r]

\* The rows of a pass that its relay will still deliver or settle.
Carries(w, r) == r \in rows[w] \/ r = cur[w]

\* "Two workers racing for the same batch never overlap": two relays carry the
\* same row only when the lease of one of them is over.
LeaseExclusive ==
    \A w, v \in Relay, r \in Row :
        w # v /\ Carries(w, r) /\ Carries(v, r)
            => leaseEnd[w] <= now \/ leaseEnd[v] <= now

\* A claim token identifies one claim: no two passes ever know the same token
\* for a row, whatever was reclaimed, released or rolled back in between.
TokenIdentifiesClaim ==
    \A w, v \in Relay, r \in Row :
        w # v /\ token[w][r] # Null => token[w][r] # token[v][r]

\* A row is marked published only under the token of a claim whose own delivery
\* returned True: no stale claimant records somebody else's unfinished work.
PublishedWasDelivered ==
    \A r \in Row : IsPublished(r) => <<r, claimToken[r]>> \in delivered

\* The callback is called at most once per counted attempt, so `attempts` tells a
\* consumer how often it may have seen the row.
OfferedAtMostAttempts ==
    \A r \in Row : offers[r] <= attempts[r]

\* The lists of a pass say what happened: every id on the published list whose
\* transaction is over is published under this pass's token, and no id on the
\* failed list is.
ResultTruthful ==
    \A w \in Relay, r \in Row :
        LET mine == IsPublished(r) /\ claimToken[r] = token[w][r] IN
        /\ r \in published[w] /\ r # cur[w] => mine
        /\ r \in failed[w] => ~mine

\* Over all passes of all relays, at most one returned result lists a row as
\* published, and then the row is published.
AckedAtMostOnce ==
    \A r \in Row : acked[r] <= 1 /\ (acked[r] = 1 => IsPublished(r))

\* A relay carries rows of its own tenant only.
TenantIsolation ==
    \A w \in Relay, r \in Row : Carries(w, r) => Visible(w, r)

\* Published is final: no later claim, release or publish touches the row.
PublishedIsFinal ==
    [][\A r \in Row : IsPublished(r) => UNCHANGED Record(r)]_vars

\* A live claim cannot be taken away: while a lease runs, the claim columns of a
\* row change only by the hand of the relay that holds the row's token.
LiveClaimHeld ==
    [][\A r \in Row :
         IsClaimed(r) /\ now < claimExpiresAt[r] /\ Record(r)' # Record(r)
           => \E w \in Relay : token[w][r] = claimToken[r] /\ r = cur[w]]_vars

\* At least once: a row that is in the table is published eventually, however
\* its claims crash, expire or are refused (finitely often).
EventuallyPublished ==
    \A r \in Row : Enqueued(r) ~> IsPublished(r)

\* What outbox.py promises, "at-least-once": the table, the relays' callbacks and
\* their returned results behave like AtLeastOnce.
Abstract == INSTANCE AtLeastOnce WITH
    Entry    <- Row,
    queue    <- {r \in Row : Enqueued(r)},
    attempts <- attempts,
    offers   <- offers,
    accepted <- {d[1] : d \in delivered},
    done     <- {r \in Row : IsPublished(r)},
    reports  <- acked

DeliversAtLeastOnce == Abstract!Spec
=============================================================================
