--------------------------- MODULE CreateCustomer ---------------------------
(***************************************************************************)
(* One customer.create request from the delivery handler to the database   *)
(* and back: CreateCustomerRequestHandler, CreateCustomerPipeline,         *)
(* CreateCustomerCommitService, WriteEnvelope, UnitOfWork, the PostgreSQL  *)
(* unit of work with its pool, and the write of customer, audit and outbox *)
(* rows in one transaction.  Requests run concurrently in one process.     *)
(*                                                                         *)
(* The audited composition also appends every decision to the decision log *)
(* before it acts on it.  That log is a module of its own (DecisionLog);   *)
(* here an append is one step that may fail, which is what DecisionLog's   *)
(* HandedOutIsLogged justifies.                                            *)
(*                                                                         *)
(* A connection that dies leaves its transaction behind on the server,     *)
(* which ends it some time later: by a rollback, or, when COMMIT was on    *)
(* its way, by either.  Until then its rows still block equal keys.        *)
(***************************************************************************)
EXTENDS Naturals

CONSTANTS
    Request,
    Client,      \* connection slots of the unit-of-work pool
    Tenant,
    Key,         \* idempotency fingerprints
    Audited,     \* createAuditedCustomerComposition, or the plain one
    MaxFailures, \* bound: errors, dead connections, crashes and calls of close()
    None

ASSUME CreateCustomerAssumption ==
    /\ Audited \in BOOLEAN
    /\ MaxFailures \in Nat
    /\ None \notin Tenant /\ None \notin Key /\ None \notin Client

VARIABLES
    pc,         \* where each request is
    tenantOf, keyOf,    \* the tenant and the idempotency key it claims
    who,        \* the authenticated tenant
    holds,      \* the client its unit of work holds
    fate,       \* the answer that a rollback leads to
    answer,     \* what the handler answered
    buf,        \* uncommitted rows of each client's transaction
    ctx,        \* its transaction-local tenant context
    db,         \* the committed rows
    log,        \* the decision log
    orphan,     \* what the server does with the transaction of a dead connection
    lost,       \* and the rows of that transaction
    pool,       \* the lazily created pool
    failures

request == <<tenantOf, keyOf, who>>
clients == <<buf, ctx>>
server  == <<orphan, lost>>
vars    == <<pc, request, holds, fate, answer, clients, db, log, server, pool, failures>>

Table  == {"customer", "audit", "outbox"}
Row    == [table : Table, req : Request, tenant : Tenant]
Entry  == [req : Request, tenant : Tenant, effect : {"allow", "deny"}]
Answer == {"none", "201", "400", "403", "409", "error"}

\* Locations with a client in hand, and those inside the body of UnitOfWork.run.
Writing == {"context", "customer", "audit", "outbox"}
Holding == Writing \cup {"commit", "rollback"}
Location == {"new", "identity", "refuse", "decide", "invariants", "begin", "done"} \cup Holding

TypeOK ==
    /\ pc \in [Request -> Location]
    /\ tenantOf \in [Request -> Tenant \cup {None}]
    /\ keyOf \in [Request -> Key \cup {None}]
    /\ who \in [Request -> Tenant \cup {None}]
    /\ holds \in [Request -> Client \cup {None}]
    /\ \A q \in Request : holds[q] # None <=> pc[q] \in Holding
    /\ fate \in [Request -> Answer]
    /\ answer \in [Request -> Answer]
    /\ \A q \in Request : answer[q] = "none" <=> pc[q] # "done"
    /\ buf \in [Client -> SUBSET Row]
    /\ ctx \in [Client -> Tenant \cup {None}]
    /\ db \subseteq Row
    /\ log \subseteq Entry
    /\ orphan \in [Request -> {"none", "aborting", "committing"}]
    /\ lost \in [Request -> SUBSET Row]
    /\ pool \in {"none", "open", "ended"}
    /\ failures \in Nat

Init ==
    /\ pc = [q \in Request |-> "new"]
    /\ tenantOf = [q \in Request |-> None]
    /\ keyOf = [q \in Request |-> None]
    /\ who = [q \in Request |-> None]
    /\ holds = [q \in Request |-> None]
    /\ fate = [q \in Request |-> "none"]
    /\ answer = [q \in Request |-> "none"]
    /\ buf = [c \in Client |-> {}]
    /\ ctx = [c \in Client |-> None]
    /\ db = {}
    /\ log = {}
    /\ orphan = [q \in Request |-> "none"]
    /\ lost = [q \in Request |-> {}]
    /\ pool = "none"
    /\ failures = 0

-----------------------------------------------------------------------------
(* The pipeline                                                            *)

\* The handler's answer, given without a client in hand.
Reply(q, a) ==
    /\ pc' = [pc EXCEPT ![q] = "done"]
    /\ answer' = [answer EXCEPT ![q] = a]

Goto(q, l) == pc' = [pc EXCEPT ![q] = l] /\ UNCHANGED answer

\* handle(request): a request that names tenant t and key k.
Receive(q, t, k) ==
    /\ pc[q] = "new"
    /\ tenantOf' = [tenantOf EXCEPT ![q] = t]
    /\ keyOf' = [keyOf EXCEPT ![q] = k]
    /\ Goto(q, "identity")
    /\ UNCHANGED <<who, holds, fate, clients, db, log, server, pool, failures>>

\* buildCreateCustomerActionSpec or shapeCheck throws: answered without a look
\* at the identity.
Malformed(q) ==
    /\ pc[q] = "new"
    /\ Reply(q, "400")
    /\ UNCHANGED <<request, holds, fate, clients, db, log, server, pool, failures>>

\* identityTenantGuard: identity.current() answers with a principal of tenant t,
\* the claimed actor or another.
Authenticate(q, t, sameActor) ==
    /\ pc[q] = "identity"
    /\ who' = [who EXCEPT ![q] = t]
    /\ Goto(q, IF t = tenantOf[q] /\ sameActor THEN "decide" ELSE "refuse")
    /\ UNCHANGED <<tenantOf, keyOf, holds, fate, clients, db, log, server, pool, failures>>

\* An entry of the decision log, in the composition that has one.
Witness(q, effect) ==
    log' = IF Audited THEN log \cup {[req |-> q, tenant |-> who[q], effect |-> effect]}
           ELSE log

\* #refuseAtGuard: the refusal is witnessed, then handed back.
RefuseAtGuard(q) ==
    /\ pc[q] = "refuse"
    /\ Witness(q, "deny")
    /\ Reply(q, "403")
    /\ UNCHANGED <<request, holds, fate, clients, db, server, pool, failures>>

\* new Command throws: answered before the decision point is asked.
CommandInvalid(q) ==
    /\ pc[q] = "decide"
    /\ Reply(q, "400")
    /\ UNCHANGED <<request, holds, fate, clients, db, log, server, pool, failures>>

\* Mutant: the decision is acted on without waiting for its append.
DecideUnlogged(q, effect) ==
    /\ pc[q] = "decide"
    /\ IF effect = "allow" THEN Goto(q, "invariants") ELSE Reply(q, "403")
    /\ UNCHANGED <<request, holds, fate, clients, db, log, server, pool, failures>>

\* policyDecisionPoint.decide
Decide(q, effect) ==
    /\ pc[q] = "decide"
    /\ Witness(q, effect)
    /\ IF effect = "allow" THEN Goto(q, "invariants") ELSE Reply(q, "403")
    /\ UNCHANGED <<request, holds, fate, clients, db, server, pool, failures>>

\* evaluateInvariants; then the prepared change set goes to the commit port.
EvaluateInvariants(q, ok) ==
    /\ pc[q] = "invariants"
    /\ IF ok THEN Goto(q, "begin") ELSE Reply(q, "400")
    /\ UNCHANGED <<request, holds, fate, clients, db, log, server, pool, failures>>

-----------------------------------------------------------------------------
(* UnitOfWork.run over the PostgreSQL port                                 *)

Free(c) == \A q \in Request : holds[q] # c

\* begin: connect() waits for a free client of the pool, which is made on first
\* use, and BEGIN is answered.
Begin(q, c) ==
    /\ pc[q] = "begin" /\ pool # "ended" /\ Free(c)
    /\ pool' = "open"
    /\ holds' = [holds EXCEPT ![q] = c]
    /\ Goto(q, "context")
    /\ UNCHANGED <<request, fate, clients, db, log, server, failures>>

\* connect() on an ended pool rejects.
BeginRefused(q) ==
    /\ pc[q] = "begin" /\ pool = "ended"
    /\ Reply(q, "error")
    /\ UNCHANGED <<request, holds, fate, clients, db, log, server, pool, failures>>

\* checkPreparedChangeSet, checkTenantId and mfk_begin_tenant_context.
BeginTenantContext(q) ==
    /\ pc[q] = "context"
    /\ ctx' = [ctx EXCEPT ![holds[q]] = tenantOf[q]]
    /\ Goto(q, "customer")
    /\ UNCHANGED <<request, holds, fate, buf, db, log, server, pool, failures>>

\* One INSERT inside the transaction, whose row must be of the context's tenant.
InsertRow(q, table, next) ==
    /\ pc[q] = table /\ ctx[holds[q]] = tenantOf[q]
    /\ buf' = [buf EXCEPT ![holds[q]] =
                 @ \cup {[table |-> table, req |-> q, tenant |-> tenantOf[q]]}]
    /\ Goto(q, next)
    /\ UNCHANGED <<request, holds, fate, ctx, db, log, server, pool, failures>>

InsertCustomer(q) == InsertRow(q, "customer", "audit")
InsertAudit(q)    == InsertRow(q, "audit", "outbox")

\* An outbox row with the tenant and the dedup_key of q.
SameKey(q, row) ==
    row.table = "outbox" /\ row.tenant = tenantOf[q] /\ keyOf[row.req] = keyOf[q]

\* The unique index finds a committed row.
Duplicate(q) == \E row \in db : SameKey(q, row)

\* The unique index makes an insert wait for an uncommitted equal key, also for
\* one of a transaction whose connection is dead.
MustWait(q) ==
    \/ \E c \in Client \ {holds[q]} : \E row \in buf[c] : SameKey(q, row)
    \/ \E r \in Request : orphan[r] # "none" /\ \E row \in lost[r] : SameKey(q, row)

\* Mutant: the outbox row is written by another connection, outside the scope.
InsertOutboxElsewhere(q) ==
    /\ pc[q] = "outbox" /\ ~MustWait(q) /\ ~Duplicate(q)
    /\ db' = db \cup {[table |-> "outbox", req |-> q, tenant |-> tenantOf[q]]}
    /\ Goto(q, "commit")
    /\ UNCHANGED <<request, holds, fate, clients, log, server, pool, failures>>

\* The last insert; the receipt is built, before COMMIT, and checked.
InsertOutbox(q) ==
    /\ ~MustWait(q) /\ ~Duplicate(q)
    /\ InsertRow(q, "outbox", "commit")

\* The body fails: UnitOfWork.run goes to rollback, remembering why.
BodyFails(q, a) ==
    /\ fate' = [fate EXCEPT ![q] = a]
    /\ Goto(q, "rollback")

\* Unique violation on the dedup key: IdempotencyConflictError.
IdempotencyConflict(q) ==
    /\ pc[q] = "outbox" /\ ~MustWait(q) /\ Duplicate(q)
    /\ BodyFails(q, "409")
    /\ UNCHANGED <<request, holds, clients, db, log, server, pool, failures>>

\* A client is given back; its transaction is over.
EndScope(q) ==
    /\ holds' = [holds EXCEPT ![q] = None]
    /\ buf' = [buf EXCEPT ![holds[q]] = {}]
    /\ ctx' = [ctx EXCEPT ![holds[q]] = None]

\* Mutant: the client is given back without ROLLBACK.
RollbackByRelease(q) ==
    /\ pc[q] = "rollback"
    /\ holds' = [holds EXCEPT ![q] = None]
    /\ Reply(q, fate[q])
    /\ UNCHANGED <<request, fate, clients, db, log, server, pool, failures>>

\* rollback: ROLLBACK, or its suppressed failure on a dead connection; release;
\* the body's failure is rethrown, which is a 409 only for the known conflict.
Rollback(q) ==
    /\ pc[q] = "rollback"
    /\ EndScope(q)
    /\ Reply(q, fate[q])
    /\ UNCHANGED <<request, fate, db, log, server, pool, failures>>

\* commit: COMMIT is answered; release; the receipt becomes the 201.
Commit(q) ==
    /\ pc[q] = "commit"
    /\ db' = db \cup buf[holds[q]]
    /\ EndScope(q)
    /\ Reply(q, "201")
    /\ UNCHANGED <<request, fate, log, server, pool, failures>>

-----------------------------------------------------------------------------
(* Failures                                                                *)

Spend == failures < MaxFailures /\ failures' = failures + 1

\* A collaborator throws, connect() or BEGIN fails, or the decision cannot be
\* appended (or was, and its answer got lost): the request is rejected.
PipelineFails(q, appended) ==
    /\ Spend
    /\ pc[q] \in {"identity", "refuse", "decide", "invariants", "begin"}
    /\ IF appended /\ pc[q] \in {"refuse", "decide"}
         THEN \E e \in {"allow", "deny"} : Witness(q, e) ELSE UNCHANGED log
    /\ Reply(q, "error")
    /\ UNCHANGED <<request, holds, fate, clients, db, server, pool>>

\* A check throws or the server refuses a statement: the scope is intact.
QueryFails(q) ==
    /\ Spend /\ pc[q] \in Writing
    /\ BodyFails(q, "error")
    /\ UNCHANGED <<request, holds, clients, db, log, server, pool>>

\* The transactions of the requests in Q lose their connections.
Abandon(Q) ==
    /\ orphan' = [q \in Request |->
         IF q \notin Q THEN orphan[q]
         ELSE IF pc[q] = "commit" THEN "committing" ELSE "aborting"]
    /\ lost' = [q \in Request |-> IF q \in Q THEN buf[holds[q]] ELSE lost[q]]
    /\ buf' = [c \in Client |-> IF \E q \in Q : holds[q] = c THEN {} ELSE buf[c]]
    /\ ctx' = [c \in Client |-> IF \E q \in Q : holds[q] = c THEN None ELSE ctx[c]]

\* The connection dies during a statement of the write.
ConnectionDies(q) ==
    /\ Spend /\ pc[q] \in Writing
    /\ Abandon({q})
    /\ BodyFails(q, "error")
    /\ UNCHANGED <<request, holds, db, log, pool>>

\* It dies during ROLLBACK or COMMIT: the failure is suppressed (rollback) or
\* rethrown (commit), and the client is given back either way.
ScopeDies(q) ==
    /\ Spend /\ pc[q] \in {"rollback", "commit"}
    /\ Abandon({q})
    /\ holds' = [holds EXCEPT ![q] = None]
    /\ Reply(q, IF pc[q] = "rollback" THEN fate[q] ELSE "error")
    /\ UNCHANGED <<request, fate, db, log, pool>>

\* Mutant: a refused COMMIT is not noticed.
CommitRefusedUnnoticed(q) ==
    /\ Spend /\ pc[q] = "commit"
    /\ EndScope(q)
    /\ Reply(q, "201")
    /\ UNCHANGED <<request, fate, db, log, server, pool>>

\* Mutant: after a refused COMMIT the client is given back without ROLLBACK.
CommitRefusedByRelease(q) ==
    /\ Spend /\ pc[q] = "commit"
    /\ holds' = [holds EXCEPT ![q] = None]
    /\ Reply(q, "error")
    /\ UNCHANGED <<request, fate, clients, db, log, server, pool>>

\* The server refuses COMMIT: ROLLBACK, release, rethrow.
CommitRefused(q) ==
    /\ Spend /\ pc[q] = "commit"
    /\ EndScope(q)
    /\ Reply(q, "error")
    /\ UNCHANGED <<request, fate, db, log, server, pool>>

\* The server ends the transaction of a dead connection.
OrphanEnds(q, committed) ==
    /\ orphan[q] = "committing" \/ (orphan[q] = "aborting" /\ ~committed)
    /\ db' = IF committed THEN db \cup lost[q] ELSE db
    /\ orphan' = [orphan EXCEPT ![q] = "none"]
    /\ lost' = [lost EXCEPT ![q] = {}]
    /\ UNCHANGED <<pc, request, holds, fate, answer, clients, log, pool, failures>>

InFlight == {q \in Request : pc[q] \notin {"new", "done"}}

\* The process dies with every request in it, and a new one starts.
Crash ==
    /\ Spend /\ InFlight # {}
    /\ Abandon({q \in Request : holds[q] # None})
    /\ pc' = [q \in Request |-> IF q \in InFlight THEN "done" ELSE pc[q]]
    /\ answer' = [q \in Request |-> IF q \in InFlight THEN "error" ELSE answer[q]]
    /\ holds' = [q \in Request |-> None]
    /\ pool' = "none"
    /\ UNCHANGED <<request, fate, db, log>>

\* close(): ends the pool if there is one.  It may be called at any time.
Close ==
    /\ Spend /\ pool = "open"
    /\ pool' = "ended"
    /\ UNCHANGED <<pc, request, holds, fate, answer, clients, db, log, server>>

-----------------------------------------------------------------------------

\* The code of one request, once it has arrived.
Step(q) ==
    \/ \E t \in Tenant, sameActor \in BOOLEAN : Authenticate(q, t, sameActor)
    \/ RefuseAtGuard(q) \/ CommandInvalid(q)
    \/ \E effect \in {"allow", "deny"} : Decide(q, effect)
    \/ \E ok \in BOOLEAN : EvaluateInvariants(q, ok)
    \/ \E c \in Client : Begin(q, c)
    \/ BeginRefused(q)
    \/ BeginTenantContext(q)
    \/ InsertCustomer(q) \/ InsertAudit(q) \/ InsertOutbox(q)
    \/ IdempotencyConflict(q)
    \/ Commit(q) \/ Rollback(q)

Next ==
    \/ \E q \in Request :
         \/ \E t \in Tenant, k \in Key : Receive(q, t, k)
         \/ Malformed(q)
         \/ Step(q)
         \/ \E appended \in BOOLEAN : PipelineFails(q, appended)
         \/ QueryFails(q) \/ ConnectionDies(q) \/ ScopeDies(q) \/ CommitRefused(q)
         \/ \E committed \in BOOLEAN : OrphanEnds(q, committed)
    \/ Crash \/ Close

Spec == Init /\ [][Next]_vars

\* A request that has arrived is code that keeps running, and the server ends the
\* transactions of dead connections.
FairSpec ==
    /\ Spec
    /\ \A q \in Request :
         WF_vars(Step(q)) /\ WF_vars(\E committed \in BOOLEAN : OrphanEnds(q, committed))

-----------------------------------------------------------------------------
(* Properties                                                              *)

\* The tables in which request q has a committed row.
TablesOf(q) == {row.table : row \in {r \in db : r.req = q}}

\* Customer, audit and outbox rows of a request are durable together or not at
\* all, whatever dies in between.
AllOrNothing == \A q \in Request : TablesOf(q) \in {{}, Table}

\* In the audited composition no row exists without a logged allow, and no 403 is
\* answered without a logged deny, both under the authenticated tenant: that is
\* also the tenant of the row, whatever tenant the request claimed.
EffectsAreWitnessed ==
    Audited =>
        /\ \A row \in db :
             /\ row.tenant = who[row.req]
             /\ [req |-> row.req, tenant |-> row.tenant, effect |-> "allow"] \in log
        /\ \A q \in Request : answer[q] = "403" =>
             [req |-> q, tenant |-> who[q], effect |-> "deny"] \in log

\* A client goes back to the pool with no open transaction and no tenant context,
\* and belongs to one unit of work at a time.
ClientsComeBackClean ==
    /\ \A c \in Client : Free(c) => buf[c] = {} /\ ctx[c] = None
    /\ \A q, r \in Request : holds[q] # None /\ holds[q] = holds[r] => q = r

\* Every request that arrives is answered, unless the pool is ended under it:
\* neither a full pool nor the wait for an equal key, of a dead connection's
\* transaction too, holds it for ever.
EveryRequestAnswered ==
    \A q \in Request : pc[q] = "identity" ~> (pc[q] = "done" \/ pool = "ended")

\* The requests implement what CreateOnce promises.
Abstract == INSTANCE CreateOnce WITH
    Claim   <- Tenant \X Key,
    claim   <- [q \in Request |->
                  IF tenantOf[q] = None THEN {} ELSE {<<tenantOf[q], keyOf[q]>>}],
    created <- {q \in Request : "customer" \in TablesOf(q)},
    answer  <- answer

CreatesOnce == Abstract!Spec
=============================================================================
