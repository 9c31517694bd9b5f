------------------------ MODULE CreateCustomerProofs ------------------------
(***************************************************************************)
(* Machine-checked safety of customer.create, for any number of requests,  *)
(* clients, tenants, keys and failures, and the proof that it implements   *)
(* CreateOnce.                                                             *)
(***************************************************************************)
EXTENDS CreateCustomer, TLAPS

\* The three rows of a request.
RowOf(q, t) == [table |-> t, req |-> q, tenant |-> tenantOf[q]]
RowsOf(q)   == {RowOf(q, t) : t \in Table}

Created(q) == RowsOf(q) \subseteq db

\* The requests that have, or may still get, their outbox row in the database.
Staked(q) == Created(q) \/ orphan[q] = "committing" \/ pc[q] = "commit"

SameClaim(q, r) == tenantOf[q] = tenantOf[r] /\ keyOf[q] = keyOf[r]

\* A request past its arrival has a claim, and past its authentication a tenant.
Claims == \A q \in Request :
    /\ pc[q] \in {"refuse", "decide"} => who[q] # None
    /\ pc[q] = "rollback" => fate[q] # "none"
    /\ pc[q] = "new" => tenantOf[q] = None
    /\ pc[q] \notin {"new", "done"} => tenantOf[q] # None
    /\ tenantOf[q] = None <=> keyOf[q] = None

\* What the transaction of a request has written so far.
Buffers == \A q \in Request : holds[q] # None =>
    /\ buf[holds[q]] \subseteq RowsOf(q)
    /\ pc[q] \in {"audit", "outbox", "commit"} => RowOf(q, "customer") \in buf[holds[q]]
    /\ pc[q] \in {"outbox", "commit"} => RowOf(q, "audit") \in buf[holds[q]]
    /\ pc[q] = "commit" => RowOf(q, "outbox") \in buf[holds[q]]

\* A transaction whose COMMIT was on its way when its connection died.
Orphans == \A q \in Request : orphan[q] = "committing" =>
    /\ lost[q] = RowsOf(q)
    /\ pc[q] = "done" /\ answer[q] = "error"

\* A transaction reached the database whole, and its request is over.
Committed ==
    /\ \A row \in db : row \in RowsOf(row.req) /\ Created(row.req)
    /\ \A q \in Request : Created(q) =>
         pc[q] = "done" /\ answer[q] \in {"201", "error"} /\ orphan[q] # "committing"

\* The unique index, seen from the requests.
OneStake == \A q, r \in Request : Staked(q) /\ Staked(r) /\ SameClaim(q, r) => q = r

\* Why a request rolls back.
Fates == \A q \in Request : pc[q] = "rollback" =>
    /\ fate[q] \in {"409", "error"}
    /\ fate[q] = "409" => \E r \in Request : r # q /\ Created(r) /\ SameClaim(q, r)

\* Past the decision the authenticated tenant is the claimed one, and an allow is
\* in the log.
Witnessed == Audited => \A q \in Request :
    /\ pc[q] = "decide" => who[q] = tenantOf[q]
    /\ pc[q] \in {"invariants", "begin"} \cup Holding \/ Staked(q) =>
         /\ who[q] = tenantOf[q]
         /\ [req |-> q, tenant |-> who[q], effect |-> "allow"] \in log
    /\ answer[q] = "403" => [req |-> q, tenant |-> who[q], effect |-> "deny"] \in log

IndInv ==
    /\ Claims /\ ClientsComeBackClean /\ Buffers /\ Orphans
    /\ Committed /\ OneStake /\ Fates /\ Witnessed

-----------------------------------------------------------------------------

\* What is known of a request that holds a client.
LEMMA HolderFacts ==
    ASSUME TypeOK, NEW q \in Request, pc[q] \in Holding
    PROVE  holds[q] \in Client /\ holds[q] # None /\ answer[q] = "none"
  BY DEF TypeOK, Holding, Writing

\* The transactions of abandoned requests become orphans of the right type.
LEMMA AbandonTyped ==
    ASSUME TypeOK, NEW Q \in SUBSET Request, \A q \in Q : holds[q] \in Client, Abandon(Q)
    PROVE  /\ orphan' \in [Request -> {"none", "aborting", "committing"}]
           /\ lost' \in [Request -> SUBSET Row]
           /\ buf' \in [Client -> SUBSET Row]
           /\ ctx' \in [Client -> Tenant \cup {None}]
  BY DEF TypeOK, Abandon

\* A tenant of a request under way, as the rows and the log need it.
LEMMA TenantFacts ==
    ASSUME TypeOK, Claims, NEW q \in Request
    PROVE  /\ pc[q] \notin {"new", "done"} => tenantOf[q] \in Tenant /\ keyOf[q] \in Key
           /\ pc[q] \in {"refuse", "decide"} => who[q] \in Tenant
  BY DEF TypeOK, Claims

\* Every step writes values of the right type.
LEMMA TypeStep == ASSUME TypeOK, Claims, [Next]_vars PROVE TypeOK'
<1> USE CreateCustomerAssumption DEF CreateCustomerAssumption
<1> DEFINE Control == /\ pc' \in [Request -> Location] /\ answer' \in [Request -> Answer]
                      /\ \A r \in Request : holds'[r] # None <=> pc'[r] \in Holding
                      /\ \A r \in Request : answer'[r] = "none" <=> pc'[r] # "done"
<1>a. ASSUME NEW q \in Request, NEW a \in Answer \ {"none"}, Reply(q, a), holds' = holds,
             pc[q] \notin Holding
      PROVE  Control
  BY <1>a DEF TypeOK, Reply, Location, Holding, Writing
<1>b. ASSUME NEW q \in Request, NEW l \in Location \ {"done"}, Goto(q, l), holds' = holds,
             pc[q] # "done", l \in Holding <=> pc[q] \in Holding
      PROVE  Control
  BY <1>b DEF TypeOK, Goto, Location
<1>c. ASSUME NEW q \in Request, NEW a \in Answer \ {"none"}, Reply(q, a),
             holds' = [holds EXCEPT ![q] = None]
      PROVE  Control /\ holds' \in [Request -> Client \cup {None}]
  BY <1>c DEF TypeOK, Reply, Location, Holding, Writing
<1>d. ASSUME NEW q \in Request, NEW e \in {"allow", "deny"}, Witness(q, e),
             pc[q] \in {"refuse", "decide"}
      PROVE  log' \subseteq Entry
  BY <1>d, TenantFacts DEF TypeOK, Witness, Entry
<1>e. ASSUME NEW q \in Request, NEW l \in Location \ {"done"}, NEW t \in Table, InsertRow(q, t, l),
             t \in Holding, l \in Holding
      PROVE  TypeOK'
  <2>1. [table |-> t, req |-> q, tenant |-> tenantOf[q]] \in Row
    BY <1>e, TenantFacts DEF InsertRow, Row, Holding, Writing
  <2>2. buf' \in [Client -> SUBSET Row]
    BY <1>e, <2>1, HolderFacts DEF TypeOK, InsertRow
  <2>3. pc[q] # "done"
    BY <1>e DEF InsertRow, Holding, Writing
  <2>4. Control
    BY <1>e, <1>b, <2>3 DEF InsertRow
  <2> QED
    BY <1>e, <2>2, <2>4 DEF TypeOK, InsertRow, request, server
<1>f. ASSUME NEW q \in Request, EndScope(q), pc[q] \in Holding
      PROVE  buf' \in [Client -> SUBSET Row] /\ ctx' \in [Client -> Tenant \cup {None}]
  BY <1>f, HolderFacts DEF EndScope, TypeOK
<1>0. CASE UNCHANGED vars
  BY <1>0 DEF vars, request, clients, server, TypeOK
<1>1. ASSUME NEW q \in Request, NEW t \in Tenant, NEW k \in Key, Receive(q, t, k) PROVE TypeOK'
  <2>1. Control
    BY <1>1, <1>b DEF Receive, Location, Holding, Writing
  <2> QED
    BY <1>1, <2>1 DEF Receive, TypeOK, clients, server
<1>2. ASSUME NEW q \in Request, Malformed(q) PROVE TypeOK'
  <2>1. Control
    BY <1>2, <1>a DEF Malformed, Answer, Holding, Writing
  <2> QED
    BY <1>2, <2>1 DEF Malformed, TypeOK, request, clients, server
<1>3. ASSUME NEW q \in Request, NEW t \in Tenant, NEW b \in BOOLEAN, Authenticate(q, t, b)
      PROVE  TypeOK'
  <2>1. Control
    <3>1. CASE t = tenantOf[q] /\ b
      BY <1>3, <3>1, <1>b DEF Authenticate, Location, Holding, Writing
    <3>2. CASE ~(t = tenantOf[q] /\ b)
      BY <1>3, <3>2, <1>b DEF Authenticate, Location, Holding, Writing
    <3> QED
      BY <3>1, <3>2
  <2> QED
    BY <1>3, <2>1 DEF Authenticate, TypeOK, clients, server
<1>4. ASSUME NEW q \in Request, RefuseAtGuard(q) PROVE TypeOK'
  <2>1. Control /\ log' \subseteq Entry
    BY <1>4, <1>a, <1>d DEF RefuseAtGuard, Answer, Holding, Writing
  <2> QED
    BY <1>4, <2>1 DEF RefuseAtGuard, TypeOK, request, clients, server
<1>5. ASSUME NEW q \in Request, CommandInvalid(q) PROVE TypeOK'
  <2>1. Control
    BY <1>5, <1>a DEF CommandInvalid, Answer, Holding, Writing
  <2> QED
    BY <1>5, <2>1 DEF CommandInvalid, TypeOK, request, clients, server
<1>6. ASSUME NEW q \in Request, NEW e \in {"allow", "deny"}, Decide(q, e) PROVE TypeOK'
  <2>1. log' \subseteq Entry
    BY <1>6, <1>d DEF Decide
  <2>2. Control
    <3>1. CASE e = "allow"
      BY <1>6, <3>1, <1>b DEF Decide, Location, Holding, Writing
    <3>2. CASE e # "allow"
      BY <1>6, <3>2, <1>a DEF Decide, Answer, Holding, Writing
    <3> QED
      BY <3>1, <3>2
  <2> QED
    BY <1>6, <2>1, <2>2 DEF Decide, TypeOK, request, clients, server
<1>7. ASSUME NEW q \in Request, NEW ok \in BOOLEAN, EvaluateInvariants(q, ok) PROVE TypeOK'
  <2>1. Control
    <3>1. CASE ok
      BY <1>7, <3>1, <1>b DEF EvaluateInvariants, Location, Holding, Writing
    <3>2. CASE ~ok
      BY <1>7, <3>2, <1>a DEF EvaluateInvariants, Answer, Holding, Writing
    <3> QED
      BY <3>1, <3>2
  <2> QED
    BY <1>7, <2>1 DEF EvaluateInvariants, TypeOK, request, clients, server
<1>8. ASSUME NEW q \in Request, NEW c \in Client, Begin(q, c) PROVE TypeOK'
  <2>1. holds' \in [Request -> Client \cup {None}] /\ Control
    BY <1>8 DEF Begin, Goto, TypeOK, Location, Holding, Writing
  <2> QED
    BY <1>8, <2>1 DEF Begin, TypeOK, request, clients, server
<1>9. ASSUME NEW q \in Request, BeginRefused(q) PROVE TypeOK'
  <2>1. Control
    BY <1>9, <1>a DEF BeginRefused, Answer, Holding, Writing
  <2> QED
    BY <1>9, <2>1 DEF BeginRefused, TypeOK, request, clients, server
<1>10. ASSUME NEW q \in Request, BeginTenantContext(q) PROVE TypeOK'
  <2>1. ctx' \in [Client -> Tenant \cup {None}]
    BY <1>10 DEF BeginTenantContext, TypeOK
  <2>2. Control
    BY <1>10, <1>b DEF BeginTenantContext, Location, Holding, Writing
  <2> QED
    BY <1>10, <2>1, <2>2 DEF BeginTenantContext, TypeOK, request, server
<1>11. ASSUME NEW q \in Request, InsertCustomer(q) \/ InsertAudit(q) \/ InsertOutbox(q) PROVE TypeOK'
  BY <1>11, <1>e DEF InsertCustomer, InsertAudit, InsertOutbox, Location, Holding, Writing, Table
<1>12. ASSUME NEW q \in Request, IdempotencyConflict(q) PROVE TypeOK'
  <2>1. Control
    BY <1>12, <1>b DEF IdempotencyConflict, BodyFails, Location, Holding, Writing
  <2> QED
    BY <1>12, <2>1 DEF IdempotencyConflict, BodyFails, TypeOK, Answer, request, clients, server
<1>13. ASSUME NEW q \in Request, Rollback(q) PROVE TypeOK'
  <2>1. Control /\ holds' \in [Request -> Client \cup {None}]
    <3>1. fate[q] \in Answer \ {"none"}
      BY <1>13 DEF Rollback, TypeOK, Claims
    <3> QED
      BY <1>13, <1>c, <3>1 DEF Rollback, EndScope
  <2>2. buf' \in [Client -> SUBSET Row] /\ ctx' \in [Client -> Tenant \cup {None}]
    BY <1>13, <1>f DEF Rollback, Holding
  <2> QED
    BY <1>13, <2>1, <2>2 DEF Rollback, TypeOK, request, server
<1>14. ASSUME NEW q \in Request, Commit(q) PROVE TypeOK'
  <2>1. Control /\ holds' \in [Request -> Client \cup {None}]
    BY <1>14, <1>c DEF Commit, EndScope, Answer
  <2>2. buf' \in [Client -> SUBSET Row] /\ ctx' \in [Client -> Tenant \cup {None}]
    BY <1>14, <1>f DEF Commit, Holding
  <2>3. db' \subseteq Row
    BY <1>14, HolderFacts DEF Commit, TypeOK, Holding
  <2> QED
    BY <1>14, <2>1, <2>2, <2>3 DEF Commit, TypeOK, request, server
<1>15. ASSUME NEW q \in Request, NEW b \in BOOLEAN, PipelineFails(q, b) PROVE TypeOK'
  <2>1. Control
    BY <1>15, <1>a DEF PipelineFails, Answer, Holding, Writing
  <2>2. log' \subseteq Entry
    BY <1>15, <1>d DEF PipelineFails, TypeOK
  <2> QED
    BY <1>15, <2>1, <2>2 DEF PipelineFails, Spend, TypeOK, request, clients, server
<1>16. ASSUME NEW q \in Request, QueryFails(q) PROVE TypeOK'
  <2>1. Control
    BY <1>16, <1>b DEF QueryFails, BodyFails, Location, Holding, Writing
  <2>2. fate' \in [Request -> Answer]
    BY <1>16 DEF QueryFails, BodyFails, TypeOK, Answer
  <2> QED
    BY <1>16, <2>1, <2>2 DEF QueryFails, Spend, TypeOK, request, clients, server
<1>17. ASSUME NEW q \in Request, ConnectionDies(q) PROVE TypeOK'
  <2>1. Control
    BY <1>17, <1>b DEF ConnectionDies, BodyFails, Location, Holding, Writing
  <2>2. /\ orphan' \in [Request -> {"none", "aborting", "committing"}]
        /\ lost' \in [Request -> SUBSET Row]
        /\ buf' \in [Client -> SUBSET Row] /\ ctx' \in [Client -> Tenant \cup {None}]
    BY <1>17, AbandonTyped, HolderFacts DEF ConnectionDies, Holding
  <2>3. fate' \in [Request -> Answer]
    BY <1>17 DEF ConnectionDies, BodyFails, TypeOK, Answer
  <2> QED
    BY <1>17, <2>1, <2>2, <2>3 DEF ConnectionDies, Spend, TypeOK, request
<1>18. ASSUME NEW q \in Request, ScopeDies(q) PROVE TypeOK'
  <2>1. Control /\ holds' \in [Request -> Client \cup {None}]
    <3>1. (IF pc[q] = "rollback" THEN fate[q] ELSE "error") \in Answer \ {"none"}
      BY <1>18 DEF ScopeDies, TypeOK, Claims, Answer
    <3> QED
      BY <1>18, <1>c, <3>1 DEF ScopeDies
  <2>2. /\ orphan' \in [Request -> {"none", "aborting", "committing"}]
        /\ lost' \in [Request -> SUBSET Row]
        /\ buf' \in [Client -> SUBSET Row] /\ ctx' \in [Client -> Tenant \cup {None}]
    BY <1>18, AbandonTyped, HolderFacts DEF ScopeDies, Holding
  <2> QED
    BY <1>18, <2>1, <2>2 DEF ScopeDies, Spend, TypeOK, request
<1>19. ASSUME NEW q \in Request, CommitRefused(q) PROVE TypeOK'
  <2>1. Control /\ holds' \in [Request -> Client \cup {None}]
    BY <1>19, <1>c DEF CommitRefused, EndScope, Answer
  <2>2. buf' \in [Client -> SUBSET Row] /\ ctx' \in [Client -> Tenant \cup {None}]
    BY <1>19, <1>f DEF CommitRefused, Holding
  <2> QED
    BY <1>19, <2>1, <2>2 DEF CommitRefused, Spend, TypeOK, request, server
<1>20. ASSUME NEW q \in Request, NEW b \in BOOLEAN, OrphanEnds(q, b) PROVE TypeOK'
  <2>1. db' \subseteq Row
    BY <1>20 DEF OrphanEnds, TypeOK
  <2> QED
    BY <1>20, <2>1 DEF OrphanEnds, TypeOK, request, clients
<1>21. CASE Crash
  <2> DEFINE Q == {q \in Request : holds[q] # None}
  <2>1. /\ orphan' \in [Request -> {"none", "aborting", "committing"}]
        /\ lost' \in [Request -> SUBSET Row]
        /\ buf' \in [Client -> SUBSET Row] /\ ctx' \in [Client -> Tenant \cup {None}]
    <3>1. Q \in SUBSET Request /\ \A q \in Q : holds[q] \in Client
      BY DEF TypeOK
    <3> QED
      BY <1>21, <3>1, AbandonTyped DEF Crash
  <2>2. Control /\ holds' \in [Request -> Client \cup {None}]
    BY <1>21 DEF Crash, InFlight, TypeOK, Location, Answer, Holding, Writing
  <2> QED
    BY <1>21, <2>1, <2>2 DEF Crash, Spend, TypeOK, request
<1>22. CASE Close
  BY <1>22 DEF Close, Spend, TypeOK, request, clients, server
<1>23. ASSUME NEW q \in Request, Step(q) PROVE TypeOK'
  BY <1>23, <1>3, <1>4, <1>5, <1>6, <1>7, <1>8, <1>9, <1>10, <1>11, <1>12, <1>13, <1>14 DEF Step
<1> QED
  BY <1>0, <1>1, <1>2, <1>15, <1>16, <1>17, <1>18, <1>19, <1>20, <1>21, <1>22, <1>23 DEF Next

-----------------------------------------------------------------------------

\* A row tells its table, its request and its tenant.
LEMMA RowFacts ==
    /\ \A q : \A t : /\ RowOf(q, t).table = t
                     /\ RowOf(q, t).req = q
                     /\ RowOf(q, t).tenant = tenantOf[q]
                     /\ t \in Table => RowOf(q, t) \in RowsOf(q)
    /\ \A q : \A row \in RowsOf(q) : row.req = q /\ row.tenant = tenantOf[q]
    /\ \A q : \A S : RowsOf(q) \subseteq S <=>
         RowOf(q, "customer") \in S /\ RowOf(q, "audit") \in S /\ RowOf(q, "outbox") \in S
  BY DEF RowOf, RowsOf, Table

\* Rows and claims depend on what was received only.
LEMMA ClaimFrame ==
    ASSUME UNCHANGED <<tenantOf, keyOf>>
    PROVE  /\ \A q : \A t : RowOf(q, t)' = RowOf(q, t)
           /\ \A q : RowsOf(q)' = RowsOf(q)
           /\ \A q, r : SameClaim(q, r)' <=> SameClaim(q, r)
           /\ \A q : db' = db => (Created(q)' <=> Created(q))
  BY DEF RowOf, RowsOf, SameClaim, Created

\* A request that is under way has nothing in the database and no orphan on the
\* way there.
LEMMA UnderWay ==
    ASSUME TypeOK, IndInv, NEW q \in Request, pc[q] # "done"
    PROVE  ~Created(q) /\ orphan[q] # "committing" /\ \A row \in db : row.req # q
  BY DEF IndInv, Orphans, Committed

\* Steps of a request that has no client in hand: the database side stays as it is.
LEMMA PipelineKeeps ==
    ASSUME TypeOK, IndInv, NEW q \in Request,
           UNCHANGED <<tenantOf, keyOf, holds, fate, buf, ctx, db, orphan, lost>>,
           pc[q] \notin Holding \cup {"done"}, pc'[q] \notin Holding,
           \A r \in Request \ {q} : pc'[r] = pc[r] /\ answer'[r] = answer[r]
    PROVE  /\ ClientsComeBackClean' /\ Buffers' /\ Orphans' /\ Committed' /\ OneStake' /\ Fates'
           /\ \A r \in Request : Staked(r)' <=> Staked(r)
<1>1. \A r \in Request : /\ pc'[r] \in Holding \/ pc[r] \in Holding => pc'[r] = pc[r]
                         /\ pc[r] = "done" => pc'[r] = "done" /\ answer'[r] = answer[r]
  BY DEF Holding
<1>2. \A r \in Request : Staked(r)' <=> Staked(r)
  BY <1>1, ClaimFrame DEF Staked, Holding
<1>3. ClientsComeBackClean'
  BY DEF IndInv, ClientsComeBackClean, Free
<1>4. Buffers'
  BY <1>1, ClaimFrame DEF IndInv, Buffers, Holding, TypeOK
<1>5. Orphans'
  BY <1>1, ClaimFrame DEF IndInv, Orphans
<1>6. Committed'
  <2>1. \A r \in Request : Created(r)' <=> Created(r)
    BY ClaimFrame
  <2>2. \A row \in db : row.req \in Request
    BY DEF TypeOK, Row
  <2> QED
    BY <1>1, <2>1, <2>2, ClaimFrame DEF IndInv, Committed
<1>7. OneStake'
  BY <1>2, ClaimFrame DEF IndInv, OneStake
<1>8. Fates'
  BY <1>1, ClaimFrame DEF IndInv, Fates, Holding, Writing
<1> QED
  BY <1>2, <1>3, <1>4, <1>5, <1>6, <1>7, <1>8

\* What a step adds to the log stays, and names the authenticated tenant.
LEMMA WitnessFacts ==
    ASSUME NEW q, NEW e, Witness(q, e)
    PROVE  /\ \A x : x \in log => x \in log'
           /\ Audited => [req |-> q, tenant |-> who[q], effect |-> e] \in log'
  BY DEF Witness

\* Steps before the tenant is authenticated, and answers without an effect.
LEMMA RefusalKeeps ==
    ASSUME TypeOK, IndInv, NEW q \in Request,
           \/ Malformed(q) \/ RefuseAtGuard(q) \/ CommandInvalid(q) \/ BeginRefused(q)
           \/ Decide(q, "deny") \/ EvaluateInvariants(q, FALSE)
           \/ \E b \in BOOLEAN : PipelineFails(q, b)
    PROVE  IndInv'
<1>1. /\ UNCHANGED <<tenantOf, keyOf, who, holds, fate, buf, ctx, db, orphan, lost>>
      /\ pc[q] \notin Holding \cup {"done"} /\ pc'[q] = "done"
      /\ \A r \in Request \ {q} : pc'[r] = pc[r] /\ answer'[r] = answer[r]
  BY DEF TypeOK, Malformed, RefuseAtGuard, CommandInvalid, BeginRefused, Decide, Reply,
         EvaluateInvariants, PipelineFails, request, clients, server, Holding, Writing
<1>2. \A x : x \in log => x \in log'
  BY WitnessFacts DEF Malformed, RefuseAtGuard, CommandInvalid, BeginRefused, Decide, Reply,
         EvaluateInvariants, PipelineFails
<1>3. Audited /\ answer'[q] = "403" => [req |-> q, tenant |-> who[q], effect |-> "deny"] \in log'
  BY WitnessFacts DEF TypeOK, Malformed, RefuseAtGuard, CommandInvalid, BeginRefused, Decide, Reply,
         EvaluateInvariants, PipelineFails
<1>4. /\ ClientsComeBackClean' /\ Buffers' /\ Orphans' /\ Committed' /\ OneStake' /\ Fates'
      /\ \A r \in Request : Staked(r)' <=> Staked(r)
  <2>1. pc'[q] \notin Holding
    BY <1>1 DEF Holding, Writing
  <2> QED
    BY <1>1, <2>1, PipelineKeeps
<1>5. Claims'
  BY <1>1 DEF IndInv, Claims
<1>6. Witnessed'
  <2>1. ~Staked(q)
    BY <1>1, UnderWay DEF Staked, Holding
  <2>2. pc'[q] \notin {"decide", "invariants", "begin"} \cup Holding
    BY <1>1 DEF Holding, Writing
  <2> QED
    BY <1>1, <1>2, <1>3, <1>4, <2>1, <2>2 DEF IndInv, Witnessed
<1> QED
  BY <1>4, <1>5, <1>6 DEF IndInv

\* Steps towards the transaction.
LEMMA AdvanceKeeps ==
    ASSUME TypeOK, IndInv, NEW q \in Request,
           \/ \E t \in Tenant, b \in BOOLEAN : Authenticate(q, t, b)
           \/ Decide(q, "allow") \/ EvaluateInvariants(q, TRUE)
    PROVE  IndInv'
<1>1. /\ UNCHANGED <<tenantOf, keyOf, holds, fate, buf, ctx, db, orphan, lost, answer>>
      /\ pc[q] \in {"identity", "decide", "invariants"}
      /\ pc'[q] \in {"refuse", "decide", "invariants", "begin"}
      /\ \A r \in Request \ {q} : pc'[r] = pc[r] /\ who'[r] = who[r]
      /\ who'[q] = who[q] \/ pc[q] = "identity"
  BY DEF TypeOK, Authenticate, Decide, EvaluateInvariants, Goto, request, clients, server
<1>2. \A x : x \in log => x \in log'
  BY WitnessFacts DEF Authenticate, Decide, EvaluateInvariants
<1>3. /\ pc'[q] \in {"refuse", "decide"} => who'[q] # None
      /\ pc'[q] = "decide" => who'[q] = tenantOf[q]
  BY CreateCustomerAssumption
  DEF TypeOK, Authenticate, Decide, EvaluateInvariants, Goto, CreateCustomerAssumption
<1>4. Audited /\ pc'[q] \in {"invariants", "begin"} =>
        /\ who'[q] = tenantOf[q]
        /\ [req |-> q, tenant |-> who'[q], effect |-> "allow"] \in log'
  <2>1. CASE Decide(q, "allow")
    BY <2>1, WitnessFacts DEF Decide, request, IndInv, Witnessed
  <2>2. CASE EvaluateInvariants(q, TRUE)
    BY <2>2 DEF EvaluateInvariants, request, IndInv, Witnessed
  <2>3. ASSUME NEW t \in Tenant, NEW b \in BOOLEAN, Authenticate(q, t, b)
        PROVE  pc'[q] \notin {"invariants", "begin"}
    BY <2>3 DEF Authenticate, Goto, TypeOK
  <2> QED
    BY <2>1, <2>2, <2>3
<1>5. /\ ClientsComeBackClean' /\ Buffers' /\ Orphans' /\ Committed' /\ OneStake' /\ Fates'
      /\ \A r \in Request : Staked(r)' <=> Staked(r)
  <2>1. pc[q] \notin Holding \cup {"done"} /\ pc'[q] \notin Holding
    BY <1>1 DEF Holding, Writing
  <2>2. \A r \in Request \ {q} : pc'[r] = pc[r] /\ answer'[r] = answer[r]
    BY <1>1
  <2> QED
    BY <1>1, <2>1, <2>2, PipelineKeeps
<1>6. Claims'
  BY <1>1, <1>3 DEF IndInv, Claims
<1>7. Witnessed'
  <2>1. ~Staked(q) /\ pc'[q] \notin Holding /\ answer[q] # "403"
    BY <1>1, UnderWay DEF Staked, Holding, Writing, TypeOK
  <2>2. SUFFICES ASSUME Audited PROVE Witnessed'
    BY DEF Witnessed
  <2>3. ASSUME NEW r \in Request, r # q
        PROVE  /\ pc'[r] = "decide" => who'[r] = tenantOf'[r]
               /\ pc'[r] \in {"invariants", "begin"} \cup Holding \/ Staked(r)' =>
                    /\ who'[r] = tenantOf'[r]
                    /\ [req |-> r, tenant |-> who'[r], effect |-> "allow"] \in log'
               /\ answer'[r] = "403" => [req |-> r, tenant |-> who'[r], effect |-> "deny"] \in log'
    BY <1>1, <1>2, <1>5, <2>2, <2>3 DEF IndInv, Witnessed
  <2> QED
    BY <1>1, <1>3, <1>4, <1>5, <2>1, <2>2, <2>3 DEF Witnessed
<1> QED
  BY <1>5, <1>6, <1>7 DEF IndInv

\* A request arrives: it had no claim, so nothing in the system is its own.
LEMMA ReceiveKeeps ==
    ASSUME TypeOK, IndInv, NEW q \in Request, NEW t \in Tenant, NEW k \in Key, Receive(q, t, k)
    PROVE  IndInv'
<1>1. /\ UNCHANGED <<who, holds, fate, buf, ctx, db, log, orphan, lost, answer>>
      /\ pc[q] = "new" /\ pc'[q] = "identity" /\ tenantOf'[q] = t /\ keyOf'[q] = k
      /\ t # None /\ k # None /\ holds[q] = None /\ answer[q] = "none"
      /\ \A r \in Request \ {q} : pc'[r] = pc[r] /\ tenantOf'[r] = tenantOf[r] /\ keyOf'[r] = keyOf[r]
  BY CreateCustomerAssumption
  DEF Receive, Goto, TypeOK, clients, server, CreateCustomerAssumption, Holding, Writing
<1>2. \A r \in Request : pc'[r] \in Holding \cup {"done"} \/ pc[r] \in Holding \cup {"done"} =>
        pc'[r] = pc[r] /\ r # q
  BY <1>1 DEF Holding, Writing
<1>3. ~Created(q) /\ orphan[q] # "committing" /\ \A row \in db : row.req # q
  BY <1>1, UnderWay
<1>4. /\ \A r \in Request \ {q} : /\ \A u : RowOf(r, u)' = RowOf(r, u)
                                  /\ RowsOf(r)' = RowsOf(r)
                                  /\ Created(r)' <=> Created(r)
                                  /\ Staked(r)' <=> Staked(r)
      /\ \A r, v \in Request \ {q} : SameClaim(r, v)' <=> SameClaim(r, v)
  BY <1>1 DEF RowOf, RowsOf, Created, Staked, SameClaim
<1>5. ~Created(q)' /\ ~Staked(q)'
  <2>1. ~Created(q)'
    <3>1. RowOf(q, "outbox")'.req = q /\ RowOf(q, "outbox")' \in RowsOf(q)'
      BY DEF RowOf, RowsOf, Table
    <3> QED
      BY <1>1, <1>3, <3>1 DEF Created
  <2> QED
    BY <1>1, <1>3, <2>1 DEF Staked
<1>6. Claims'
  BY <1>1 DEF IndInv, Claims
<1>7. ClientsComeBackClean'
  BY <1>1 DEF IndInv, ClientsComeBackClean, Free
<1>8. Buffers'
  BY <1>1, <1>2, <1>4 DEF IndInv, Buffers, TypeOK
<1>9. Orphans'
  BY <1>1, <1>2, <1>3, <1>4 DEF IndInv, Orphans
<1>10. Committed'
  <2>1. \A row \in db : row.req \in Request \ {q}
    BY <1>3 DEF TypeOK, Row
  <2> QED
    BY <1>1, <1>2, <1>4, <1>5, <2>1 DEF IndInv, Committed
<1>11. OneStake'
  BY <1>4, <1>5 DEF IndInv, OneStake
<1>12. Fates'
  <2>1. \A r \in Request : pc'[r] = "rollback" => pc[r] = "rollback" /\ r # q
    BY <1>2 DEF Holding
  <2> QED
    BY <1>1, <1>3, <1>4, <2>1 DEF IndInv, Fates
<1>13. Witnessed'
  <2>1. \A r \in Request : pc'[r] \in {"decide", "invariants", "begin"} => pc[r] = pc'[r] /\ r # q
    BY <1>1
  <2> QED
    BY <1>1, <1>2, <1>4, <1>5, <2>1 DEF IndInv, Witnessed
<1> QED
  BY <1>6, <1>7, <1>8, <1>9, <1>10, <1>11, <1>12, <1>13 DEF IndInv

-----------------------------------------------------------------------------
(* The transaction of a request.                                           *)

\* A step of q that leaves rows, claims and the database alone, and that does not
\* reach the commit: the same requests have a stake.
LEMMA SameStakes ==
    ASSUME UNCHANGED <<tenantOf, keyOf, db, orphan>>, NEW q \in Request,
           pc[q] # "commit", pc'[q] # "commit", \A r \in Request \ {q} : pc'[r] = pc[r]
    PROVE  \A r \in Request : /\ Created(r)' <=> Created(r)
                              /\ Staked(r)' <=> Staked(r)
  BY ClaimFrame DEF Staked

\* begin: the client is nobody else's and clean.
LEMMA BeginKeeps ==
    ASSUME TypeOK, IndInv, NEW q \in Request, NEW c \in Client, Begin(q, c) PROVE IndInv'
<1>1. /\ UNCHANGED <<tenantOf, keyOf, who, fate, buf, ctx, db, log, orphan, lost, answer>>
      /\ pc[q] = "begin" /\ pc'[q] = "context" /\ holds'[q] = c /\ Free(c)
      /\ holds[q] = None /\ None \notin Client
      /\ \A r \in Request \ {q} : pc'[r] = pc[r] /\ holds'[r] = holds[r]
  BY CreateCustomerAssumption
  DEF Begin, Goto, TypeOK, request, clients, server, Holding, Writing, CreateCustomerAssumption
<1>2. \A r \in Request : /\ Created(r)' <=> Created(r)
                         /\ Staked(r)' <=> Staked(r)
  BY <1>1, SameStakes
<1>3. Claims'
  BY <1>1 DEF IndInv, Claims
<1>4. ClientsComeBackClean'
  <2>1. \A d \in Client : Free(d)' => Free(d)
    BY <1>1 DEF Free
  <2>2. \A r \in Request \ {q} : holds'[r] # c
    BY <1>1 DEF Free
  <2> QED
    BY <1>1, <2>1, <2>2 DEF IndInv, ClientsComeBackClean
<1>5. Buffers'
  <2>1. buf[c] = {}
    BY <1>1 DEF IndInv, ClientsComeBackClean
  <2> QED
    BY <1>1, <2>1, ClaimFrame DEF IndInv, Buffers
<1>6. Orphans'
  BY <1>1, ClaimFrame DEF IndInv, Orphans
<1>7. Committed'
  <2>1. \A row \in db : row.req \in Request
    BY DEF TypeOK, Row
  <2> QED
    BY <1>1, <1>2, <2>1, ClaimFrame DEF IndInv, Committed
<1>8. OneStake'
  BY <1>1, <1>2, ClaimFrame DEF IndInv, OneStake
<1>9. Fates'
  BY <1>1, <1>2, ClaimFrame DEF IndInv, Fates
<1>10. Witnessed'
  BY <1>1, <1>2 DEF IndInv, Witnessed
<1> QED
  BY <1>3, <1>4, <1>5, <1>6, <1>7, <1>8, <1>9, <1>10 DEF IndInv

\* The tenant context is written to the client of the request.
LEMMA ContextKeeps ==
    ASSUME TypeOK, IndInv, NEW q \in Request, BeginTenantContext(q) PROVE IndInv'
<1>1. /\ UNCHANGED <<tenantOf, keyOf, who, fate, holds, buf, db, log, orphan, lost, answer>>
      /\ pc[q] = "context" /\ pc'[q] = "customer"
      /\ \A r \in Request \ {q} : pc'[r] = pc[r]
      /\ \A c \in Client : c # holds[q] => ctx'[c] = ctx[c]
  BY DEF BeginTenantContext, Goto, TypeOK, request, server
<1>2. \A r \in Request : /\ Created(r)' <=> Created(r)
                         /\ Staked(r)' <=> Staked(r)
  BY <1>1, SameStakes
<1>3. Claims'
  BY <1>1 DEF IndInv, Claims
<1>4. ClientsComeBackClean'
  <2>1. \A c \in Client : Free(c)' => Free(c) /\ ctx'[c] = ctx[c] /\ buf'[c] = buf[c]
    BY <1>1 DEF Free
  <2> QED
    BY <1>1, <2>1 DEF IndInv, ClientsComeBackClean
<1>5. Buffers'
  BY <1>1, ClaimFrame DEF IndInv, Buffers
<1>6. Orphans'
  BY <1>1, ClaimFrame DEF IndInv, Orphans
<1>7. Committed'
  <2>1. \A row \in db : row.req \in Request
    BY DEF TypeOK, Row
  <2> QED
    BY <1>1, <1>2, <2>1, ClaimFrame DEF IndInv, Committed
<1>8. OneStake'
  BY <1>1, <1>2, ClaimFrame DEF IndInv, OneStake
<1>9. Fates'
  BY <1>1, <1>2, ClaimFrame DEF IndInv, Fates
<1>10. Witnessed'
  BY <1>1, <1>2 DEF IndInv, Witnessed, Holding, Writing
<1> QED
  BY <1>3, <1>4, <1>5, <1>6, <1>7, <1>8, <1>9, <1>10 DEF IndInv

\* One more row in the transaction of q.
LEMMA RowInserted ==
    ASSUME TypeOK, IndInv, NEW q \in Request, NEW t \in Table, NEW l \in {"audit", "outbox", "commit"},
           InsertRow(q, t, l)
    PROVE  /\ UNCHANGED <<tenantOf, keyOf, who, fate, holds, ctx, db, log, orphan, lost, answer>>
           /\ pc[q] = t /\ pc'[q] = l /\ holds[q] \in Client /\ holds[q] # None
           /\ \A r \in Request \ {q} : pc'[r] = pc[r]
           /\ buf'[holds[q]] = buf[holds[q]] \cup {RowOf(q, t)}
           /\ \A c \in Client \ {holds[q]} : buf'[c] = buf[c]
           /\ Claims' /\ ClientsComeBackClean'
<1>1. holds[q] \in Client /\ holds[q] # None /\ pc[q] = t
  <2>1. t \in Holding
    BY DEF Table, Holding, Writing
  <2> QED
    BY <2>1, HolderFacts DEF InsertRow
<1>2. /\ UNCHANGED <<tenantOf, keyOf, who, fate, holds, ctx, db, log, orphan, lost, answer>>
      /\ pc'[q] = l
      /\ \A r \in Request \ {q} : pc'[r] = pc[r]
      /\ buf'[holds[q]] = buf[holds[q]] \cup {RowOf(q, t)}
      /\ \A c \in Client \ {holds[q]} : buf'[c] = buf[c]
  BY <1>1 DEF InsertRow, Goto, TypeOK, request, server, RowOf
<1>3. Claims'
  <2>1. pc[q] \notin {"new", "done"}
    BY <1>1 DEF Table
  <2> QED
    BY <1>1, <1>2, <2>1 DEF IndInv, Claims
<1>4. ClientsComeBackClean'
  BY <1>1, <1>2 DEF IndInv, ClientsComeBackClean, Free
<1> QED
  BY <1>1, <1>2, <1>3, <1>4

\* The customer row and the audit row.
LEMMA InsertKeeps ==
    ASSUME TypeOK, IndInv, NEW q \in Request, InsertCustomer(q) \/ InsertAudit(q) PROVE IndInv'
<1> PICK t \in {"customer", "audit"}, l \in {"audit", "outbox"} :
         InsertRow(q, t, l) /\ (l = "audit" <=> t = "customer")
  BY DEF InsertCustomer, InsertAudit
<1>1. /\ UNCHANGED <<tenantOf, keyOf, who, fate, holds, ctx, db, log, orphan, lost, answer>>
      /\ pc[q] = t /\ pc'[q] = l /\ holds[q] \in Client /\ holds[q] # None
      /\ \A r \in Request \ {q} : pc'[r] = pc[r]
      /\ buf'[holds[q]] = buf[holds[q]] \cup {RowOf(q, t)}
      /\ \A c \in Client \ {holds[q]} : buf'[c] = buf[c]
      /\ Claims' /\ ClientsComeBackClean'
  BY RowInserted DEF Table
<1>2. \A r \in Request : /\ Created(r)' <=> Created(r)
                         /\ Staked(r)' <=> Staked(r)
  BY <1>1, SameStakes
<1>3. Buffers'
  <2>1. ASSUME NEW r \in Request, r # q, holds[r] # None
        PROVE  holds[r] # holds[q] /\ buf'[holds[r]] = buf[holds[r]]
    BY <1>1, <2>1 DEF IndInv, ClientsComeBackClean, TypeOK
  <2>2. RowOf(q, t) \in RowsOf(q)
    BY RowFacts DEF Table
  <2> QED
    BY <1>1, <2>1, <2>2, ClaimFrame DEF IndInv, Buffers
<1>4. Orphans'
  BY <1>1, ClaimFrame DEF IndInv, Orphans
<1>5. Committed'
  <2>1. \A row \in db : row.req \in Request
    BY DEF TypeOK, Row
  <2> QED
    BY <1>1, <1>2, <2>1, ClaimFrame DEF IndInv, Committed
<1>6. OneStake'
  BY <1>1, <1>2, ClaimFrame DEF IndInv, OneStake
<1>7. Fates'
  BY <1>1, <1>2, ClaimFrame DEF IndInv, Fates
<1>8. Witnessed'
  BY <1>1, <1>2 DEF IndInv, Witnessed, Holding, Writing
<1> QED
  BY <1>1, <1>3, <1>4, <1>5, <1>6, <1>7, <1>8 DEF IndInv

\* The outbox row: the unique index found no equal key, committed or waiting.
LEMMA OutboxKeeps ==
    ASSUME TypeOK, IndInv, NEW q \in Request, InsertOutbox(q) PROVE IndInv'
<1>1. /\ UNCHANGED <<tenantOf, keyOf, who, fate, holds, ctx, db, log, orphan, lost, answer>>
      /\ pc[q] = "outbox" /\ pc'[q] = "commit" /\ holds[q] \in Client /\ holds[q] # None
      /\ \A r \in Request \ {q} : pc'[r] = pc[r]
      /\ buf'[holds[q]] = buf[holds[q]] \cup {RowOf(q, "outbox")}
      /\ \A c \in Client \ {holds[q]} : buf'[c] = buf[c]
      /\ Claims' /\ ClientsComeBackClean'
  BY RowInserted DEF InsertOutbox, Table
<1>2. \A r \in Request : /\ Created(r)' <=> Created(r)
                         /\ r # q => (Staked(r)' <=> Staked(r))
  BY <1>1, ClaimFrame DEF Staked
<1>3. ASSUME NEW r \in Request, r # q, Staked(r), SameClaim(q, r) PROVE FALSE
  <2>1. SameKey(q, RowOf(r, "outbox"))
    BY <1>3, RowFacts DEF SameKey, SameClaim
  <2>2. RowOf(r, "outbox") \in RowsOf(r)
    BY RowFacts DEF Table
  <2>3. CASE Created(r)
    BY <2>1, <2>2, <2>3 DEF InsertOutbox, Duplicate, Created
  <2>4. CASE orphan[r] = "committing"
    BY <2>1, <2>2, <2>4 DEF InsertOutbox, MustWait, IndInv, Orphans
  <2>5. CASE pc[r] = "commit"
    <3>1. holds[r] \in Client \ {holds[q]} /\ holds[r] # None
      BY <1>1, <1>3, <2>5, HolderFacts DEF Holding, IndInv, ClientsComeBackClean
    <3>2. RowOf(r, "outbox") \in buf[holds[r]]
      BY <2>5, <3>1 DEF IndInv, Buffers
    <3> QED
      BY <2>1, <3>1, <3>2 DEF InsertOutbox, MustWait
  <2> QED
    BY <1>3, <2>3, <2>4, <2>5 DEF Staked
<1>4. Buffers'
  <2>1. ASSUME NEW r \in Request, r # q, holds[r] # None
        PROVE  holds[r] # holds[q] /\ buf'[holds[r]] = buf[holds[r]]
    BY <1>1, <2>1 DEF IndInv, ClientsComeBackClean, TypeOK
  <2>2. RowOf(q, "outbox") \in RowsOf(q)
    BY RowFacts DEF Table
  <2> QED
    BY <1>1, <2>1, <2>2, ClaimFrame DEF IndInv, Buffers
<1>5. Orphans'
  BY <1>1, ClaimFrame DEF IndInv, Orphans
<1>6. Committed'
  <2>1. \A row \in db : row.req \in Request
    BY DEF TypeOK, Row
  <2> QED
    BY <1>1, <1>2, <2>1, ClaimFrame DEF IndInv, Committed
<1>7. OneStake'
  <2>1. \A r, v \in Request : SameClaim(r, v) <=> SameClaim(v, r)
    BY DEF SameClaim
  <2> QED
    BY <1>1, <1>2, <1>3, <2>1, ClaimFrame DEF IndInv, OneStake
<1>8. Fates'
  BY <1>1, <1>2, ClaimFrame DEF IndInv, Fates
<1>9. Witnessed'
  BY <1>1, <1>2 DEF IndInv, Witnessed, Holding, Writing
<1> QED
  BY <1>1, <1>4, <1>5, <1>6, <1>7, <1>8, <1>9 DEF IndInv

\* The body fails and its scope is intact: on to the rollback, and an equal key in
\* the database is the only reason to answer a conflict.
LEMMA BodyFailureKeeps ==
    ASSUME TypeOK, IndInv, NEW q \in Request, IdempotencyConflict(q) \/ QueryFails(q)
    PROVE  IndInv'
<1>1. /\ UNCHANGED <<tenantOf, keyOf, who, holds, buf, ctx, db, log, orphan, lost, answer>>
      /\ pc[q] \in Writing /\ pc'[q] = "rollback"
      /\ \A r \in Request \ {q} : pc'[r] = pc[r] /\ fate'[r] = fate[r]
      /\ fate'[q] \in {"409", "error"}
  BY DEF IdempotencyConflict, QueryFails, BodyFails, Goto, TypeOK, request, clients, server, Writing
<1>2. \A r \in Request : /\ Created(r)' <=> Created(r)
                         /\ Staked(r)' <=> Staked(r)
  BY <1>1, SameStakes DEF Writing
<1>3. ASSUME fate'[q] = "409" PROVE \E r \in Request : r # q /\ Created(r) /\ SameClaim(q, r)
  <2>1. Duplicate(q)
    BY <1>3 DEF IdempotencyConflict, QueryFails, BodyFails, TypeOK
  <2>2. PICK row \in db : SameKey(q, row)
    BY <2>1 DEF Duplicate
  <2>3. row.req \in Request /\ Created(row.req) /\ row \in RowsOf(row.req)
    BY <2>2 DEF IndInv, Committed, TypeOK, Row
  <2>4. row.req # q
    BY <1>1, <2>3, UnderWay DEF Writing
  <2>5. SameClaim(q, row.req)
    BY <2>2, <2>3, RowFacts DEF SameKey, SameClaim
  <2> QED
    BY <2>3, <2>4, <2>5
<1>4. Claims'
  BY <1>1 DEF IndInv, Claims, Writing
<1>5. ClientsComeBackClean'
  BY <1>1 DEF IndInv, ClientsComeBackClean, Free
<1>6. Buffers'
  BY <1>1, ClaimFrame DEF IndInv, Buffers
<1>7. Orphans'
  BY <1>1, ClaimFrame DEF IndInv, Orphans, Writing
<1>8. Committed'
  <2>1. \A row \in db : row.req \in Request
    BY DEF TypeOK, Row
  <2> QED
    BY <1>1, <1>2, <2>1, ClaimFrame DEF IndInv, Committed, Writing
<1>9. OneStake'
  BY <1>1, <1>2, ClaimFrame DEF IndInv, OneStake
<1>10. Fates'
  BY <1>1, <1>2, <1>3, ClaimFrame DEF IndInv, Fates
<1>11. Witnessed'
  BY <1>1, <1>2 DEF IndInv, Witnessed, Holding
<1> QED
  BY <1>4, <1>5, <1>6, <1>7, <1>8, <1>9, <1>10, <1>11 DEF IndInv

\* What it means that a client is given back: by nobody's else hand, and clean.
LEMMA ScopeEnded ==
    ASSUME TypeOK, IndInv, NEW q \in Request, pc[q] \in Holding, EndScope(q)
    PROVE  /\ ClientsComeBackClean' /\ holds'[q] = None
           /\ \A r \in Request \ {q} : holds'[r] = holds[r] /\
                (holds[r] # None => buf'[holds[r]] = buf[holds[r]])
<1>1. holds[q] \in Client /\ holds[q] # None
  BY HolderFacts
<1>2. /\ holds'[q] = None /\ \A r \in Request \ {q} : holds'[r] = holds[r]
      /\ buf'[holds[q]] = {} /\ ctx'[holds[q]] = None
      /\ \A c \in Client \ {holds[q]} : buf'[c] = buf[c] /\ ctx'[c] = ctx[c]
  BY <1>1 DEF EndScope, TypeOK
<1>3. ASSUME NEW r \in Request \ {q}, holds[r] # None PROVE holds[r] \in Client \ {holds[q]}
  BY <1>1, <1>3 DEF IndInv, ClientsComeBackClean, TypeOK
<1>4. ClientsComeBackClean'
  <2>1. \A c \in Client : Free(c)' => c = holds[q] \/ Free(c)
    BY <1>2 DEF Free
  <2>2. \A r, v \in Request : holds'[r] # None /\ holds'[r] = holds'[v] => r = v
    BY <1>2 DEF IndInv, ClientsComeBackClean
  <2> QED
    BY <1>2, <2>1, <2>2 DEF IndInv, ClientsComeBackClean
<1> QED
  BY <1>2, <1>3, <1>4

\* The unit of work of q ends without a commit.
LEMMA RollbackKeeps ==
    ASSUME TypeOK, IndInv, NEW q \in Request, Rollback(q) \/ CommitRefused(q) PROVE IndInv'
<1>1. /\ UNCHANGED <<tenantOf, keyOf, who, fate, db, log, orphan, lost>>
      /\ pc[q] \in {"rollback", "commit"} /\ pc'[q] = "done" /\ answer'[q] \in {"409", "error"}
      /\ \A r \in Request \ {q} : pc'[r] = pc[r] /\ answer'[r] = answer[r]
  BY DEF Rollback, CommitRefused, Reply, TypeOK, request, server, IndInv, Fates
<1>2. /\ ClientsComeBackClean' /\ holds'[q] = None
      /\ \A r \in Request \ {q} : holds'[r] = holds[r] /\
           (holds[r] # None => buf'[holds[r]] = buf[holds[r]])
  BY <1>1, ScopeEnded DEF Rollback, CommitRefused, Holding
<1>3. \A r \in Request : /\ Created(r)' <=> Created(r)
                         /\ Staked(r)' => Staked(r)
  BY <1>1, ClaimFrame DEF Staked
<1>4. Claims'
  BY <1>1 DEF IndInv, Claims
<1>5. Buffers'
  BY <1>1, <1>2, ClaimFrame DEF IndInv, Buffers
<1>6. Orphans'
  BY <1>1, ClaimFrame DEF IndInv, Orphans
<1>7. Committed'
  <2>1. \A row \in db : row.req \in Request
    BY DEF TypeOK, Row
  <2> QED
    BY <1>1, <1>3, <2>1, ClaimFrame DEF IndInv, Committed
<1>8. OneStake'
  BY <1>1, <1>3, ClaimFrame DEF IndInv, OneStake
<1>9. Fates'
  BY <1>1, <1>3, ClaimFrame DEF IndInv, Fates
<1>10. Witnessed'
  BY <1>1, <1>3 DEF IndInv, Witnessed, Holding, Writing
<1> QED
  BY <1>2, <1>4, <1>5, <1>6, <1>7, <1>8, <1>9, <1>10 DEF IndInv

\* The rows of a transaction that was complete are what reaches the database.
LEMMA RowsLand ==
    ASSUME TypeOK, IndInv, NEW q \in Request, tenantOf' = tenantOf,
           db' = db \cup RowsOf(q)
    PROVE  /\ \A r \in Request : Created(r)' <=> Created(r) \/ r = q
           /\ \A row \in db' : row \in db \/ row.req = q
<1>1. \A r : RowsOf(r)' = RowsOf(r)
  BY DEF RowsOf, RowOf
<1>2. ASSUME NEW r \in Request, r # q PROVE Created(r)' <=> Created(r)
  <2>1. \A t : RowOf(r, t) \notin RowsOf(q)
    BY <1>2, RowFacts
  <2> QED
    BY <1>1, <2>1, RowFacts DEF Created
<1>3. Created(q)'
  BY <1>1 DEF Created
<1> QED
  BY <1>2, <1>3, RowFacts

\* COMMIT is answered.
LEMMA CommitKeeps ==
    ASSUME TypeOK, IndInv, NEW q \in Request, Commit(q) PROVE IndInv'
<1>1. /\ UNCHANGED <<tenantOf, keyOf, who, fate, log, orphan, lost>>
      /\ pc[q] = "commit" /\ pc'[q] = "done" /\ answer'[q] = "201"
      /\ \A r \in Request \ {q} : pc'[r] = pc[r] /\ answer'[r] = answer[r]
  BY DEF Commit, Reply, TypeOK, request, server
<1>2. /\ ClientsComeBackClean' /\ holds'[q] = None
      /\ \A r \in Request \ {q} : holds'[r] = holds[r] /\
           (holds[r] # None => buf'[holds[r]] = buf[holds[r]])
  BY <1>1, ScopeEnded DEF Commit, Holding
<1>3. db' = db \cup RowsOf(q)
  <2>1. holds[q] # None
    BY <1>1, HolderFacts DEF Holding
  <2>2. buf[holds[q]] \subseteq RowsOf(q)
    BY <2>1 DEF IndInv, Buffers
  <2>3. RowsOf(q) \subseteq buf[holds[q]]
    BY <1>1, <2>1, RowFacts DEF IndInv, Buffers
  <2>4. buf[holds[q]] = RowsOf(q)
    BY <2>2, <2>3
  <2> QED
    BY <2>4 DEF Commit
<1>4. /\ \A r \in Request : Created(r)' <=> Created(r) \/ r = q
      /\ \A row \in db' : row \in db \/ row.req = q
  BY <1>1, <1>3, RowsLand
<1>5. \A r \in Request : Staked(r)' <=> Staked(r)
  BY <1>1, <1>4 DEF Staked
<1>6. Claims'
  BY <1>1 DEF IndInv, Claims
<1>7. Buffers'
  BY <1>1, <1>2, ClaimFrame DEF IndInv, Buffers
<1>8. Orphans'
  BY <1>1, ClaimFrame DEF IndInv, Orphans
<1>9. Committed'
  <2>1. \A row \in db : row.req \in Request /\ row \in RowsOf(row.req) /\ Created(row.req)
    BY DEF TypeOK, Row, IndInv, Committed
  <2>2. \A row \in db' : row \in RowsOf(row.req)' /\ Created(row.req)'
    <3>1. ASSUME NEW row \in db', row \in db PROVE row \in RowsOf(row.req)' /\ Created(row.req)'
      BY <1>1, <1>4, <2>1, <3>1, ClaimFrame
    <3>2. ASSUME NEW row \in db', row \notin db PROVE row \in RowsOf(row.req)' /\ Created(row.req)'
      BY <1>1, <1>3, <1>4, <3>2, ClaimFrame
    <3> QED
      BY <3>1, <3>2
  <2>3. orphan[q] # "committing"
    BY <1>1, UnderWay
  <2> QED
    BY <1>1, <1>4, <2>2, <2>3 DEF IndInv, Committed
<1>10. OneStake'
  BY <1>1, <1>5, ClaimFrame DEF IndInv, OneStake
<1>11. Fates'
  BY <1>1, <1>4, ClaimFrame DEF IndInv, Fates
<1>12. Witnessed'
  BY <1>1, <1>5 DEF IndInv, Witnessed, Holding, Writing
<1> QED
  BY <1>2, <1>6, <1>7, <1>8, <1>9, <1>10, <1>11, <1>12 DEF IndInv

\* The server ends the transaction of a dead connection, whole either way.
LEMMA OrphanKeeps ==
    ASSUME TypeOK, IndInv, NEW q \in Request, NEW committed \in BOOLEAN, OrphanEnds(q, committed)
    PROVE  IndInv'
<1>1. /\ UNCHANGED <<pc, tenantOf, keyOf, who, holds, fate, answer, buf, ctx, log>>
      /\ orphan'[q] = "none"
      /\ \A r \in Request \ {q} : orphan'[r] = orphan[r] /\ lost'[r] = lost[r]
  BY DEF OrphanEnds, TypeOK, request, clients
<1>2. \/ /\ ~committed /\ db' = db
      \/ /\ committed /\ orphan[q] = "committing" /\ db' = db \cup RowsOf(q)
         /\ pc[q] = "done" /\ answer[q] = "error"
  BY DEF OrphanEnds, IndInv, Orphans
<1>3. /\ \A r \in Request : Created(r)' <=> Created(r) \/ (committed /\ r = q)
      /\ \A row \in db' : row \in db \/ (committed /\ row.req = q)
  BY <1>1, <1>2, RowsLand, ClaimFrame
<1>4. \A r \in Request : Staked(r)' => Staked(r)
  BY <1>1, <1>2, <1>3 DEF Staked
<1>5. Claims'
  BY <1>1 DEF IndInv, Claims
<1>6. ClientsComeBackClean'
  BY <1>1 DEF IndInv, ClientsComeBackClean, Free
<1>7. Buffers'
  BY <1>1, ClaimFrame DEF IndInv, Buffers
<1>8. Orphans'
  BY <1>1, ClaimFrame DEF IndInv, Orphans
<1>9. Committed'
  <2>1. \A row \in db : row.req \in Request /\ row \in RowsOf(row.req) /\ Created(row.req)
    BY DEF TypeOK, Row, IndInv, Committed
  <2>2. \A row \in db' : row \in RowsOf(row.req)' /\ Created(row.req)'
    <3>1. ASSUME NEW row \in db', row \in db PROVE row \in RowsOf(row.req)' /\ Created(row.req)'
      BY <1>1, <1>3, <2>1, <3>1, ClaimFrame
    <3>2. ASSUME NEW row \in db', row \notin db PROVE row \in RowsOf(row.req)' /\ Created(row.req)'
      BY <1>1, <1>2, <1>3, <3>2, ClaimFrame
    <3> QED
      BY <3>1, <3>2
  <2> QED
    BY <1>1, <1>2, <1>3, <2>2 DEF IndInv, Committed
<1>10. OneStake'
  BY <1>1, <1>4, ClaimFrame DEF IndInv, OneStake
<1>11. Fates'
  BY <1>1, <1>3, ClaimFrame DEF IndInv, Fates
<1>12. Witnessed'
  BY <1>1, <1>4 DEF IndInv, Witnessed
<1> QED
  BY <1>5, <1>6, <1>7, <1>8, <1>9, <1>10, <1>11, <1>12 DEF IndInv

-----------------------------------------------------------------------------
(* Dead connections and dead processes.                                    *)

\* What a request in Q leaves behind, and what the others keep.
LEMMA AbandonFacts ==
    ASSUME TypeOK, IndInv, NEW Q \in SUBSET Request, \A r \in Q : holds[r] # None, Abandon(Q)
    PROVE  /\ \A r \in Q : /\ orphan'[r] = "committing" <=> pc[r] = "commit"
                           /\ pc[r] = "commit" => lost'[r] = RowsOf(r)
                           /\ buf'[holds[r]] = {} /\ ctx'[holds[r]] = None
           /\ \A r \in Request \ Q : /\ orphan'[r] = orphan[r] /\ lost'[r] = lost[r]
                                     /\ holds[r] # None => buf'[holds[r]] = buf[holds[r]]
           /\ \A c \in Client : Free(c) => buf'[c] = {} /\ ctx'[c] = None
<1>1. \A r \in Request : holds[r] # None => holds[r] \in Client
  BY DEF TypeOK
<1>2. ASSUME NEW r \in Q
      PROVE  /\ orphan'[r] = "committing" <=> pc[r] = "commit"
             /\ lost'[r] = buf[holds[r]]
             /\ buf'[holds[r]] = {} /\ ctx'[holds[r]] = None
  BY <1>1, <1>2 DEF Abandon
<1>3. ASSUME NEW r \in Q, pc[r] = "commit" PROVE buf[holds[r]] = RowsOf(r)
  <2>1. buf[holds[r]] \subseteq RowsOf(r) /\ RowsOf(r) \subseteq buf[holds[r]]
    BY <1>3, RowFacts DEF IndInv, Buffers
  <2> QED
    BY <2>1
<1>4. ASSUME NEW r \in Request \ Q
      PROVE  /\ orphan'[r] = orphan[r] /\ lost'[r] = lost[r]
             /\ holds[r] # None => buf'[holds[r]] = buf[holds[r]]
  <2>1. orphan'[r] = orphan[r] /\ lost'[r] = lost[r]
    BY <1>4 DEF Abandon
  <2>2. ASSUME holds[r] # None PROVE ~ \E v \in Q : holds[v] = holds[r]
    BY <1>4, <2>2 DEF IndInv, ClientsComeBackClean
  <2> QED
    BY <1>1, <2>1, <2>2 DEF Abandon
<1>5. ASSUME NEW c \in Client, Free(c) PROVE buf'[c] = {} /\ ctx'[c] = None
  BY <1>5 DEF Abandon, IndInv, ClientsComeBackClean
<1> QED
  BY <1>2, <1>3, <1>4, <1>5

\* The requests in Q lose their connections.  Each request stays as it is, is over,
\* or has still to run the rollback of its body.
LEMMA AbandonKeeps ==
    ASSUME TypeOK, IndInv, NEW Q \in SUBSET Request, \A r \in Q : holds[r] # None, Abandon(Q),
           UNCHANGED <<tenantOf, keyOf, who, db, log>>,
           \A r \in Request :
             \/ r \notin Q /\ pc'[r] = pc[r] /\ answer'[r] = answer[r]
                /\ holds'[r] = holds[r] /\ fate'[r] = fate[r]
             \/ /\ r \in Q \/ holds[r] = None
                /\ pc[r] # "done" /\ pc'[r] = "done" /\ holds'[r] = None
                /\ answer'[r] \in {"409", "error"} /\ (pc[r] = "commit" => answer'[r] = "error")
             \/ r \in Q /\ pc[r] \in Writing /\ pc'[r] = "rollback"
                /\ answer'[r] = answer[r] /\ holds'[r] = holds[r] /\ fate'[r] = "error"
    PROVE  IndInv'
<1>1. /\ \A r \in Q : /\ orphan'[r] = "committing" <=> pc[r] = "commit"
                      /\ pc[r] = "commit" => lost'[r] = RowsOf(r)
                      /\ buf'[holds[r]] = {} /\ ctx'[holds[r]] = None
      /\ \A r \in Request \ Q : /\ orphan'[r] = orphan[r] /\ lost'[r] = lost[r]
                                /\ holds[r] # None => buf'[holds[r]] = buf[holds[r]]
      /\ \A c \in Client : Free(c) => buf'[c] = {} /\ ctx'[c] = None
  BY AbandonFacts
<1>2. \A r \in Request : Created(r)' <=> Created(r)
  BY ClaimFrame
<1>3. \A r \in Request : Staked(r)' => Staked(r)
  BY <1>1, <1>2 DEF Staked
<1>4. Claims'
  BY DEF IndInv, Claims, Writing
<1>5. ClientsComeBackClean'
  <2>1. ASSUME NEW c \in Client, Free(c)' PROVE buf'[c] = {} /\ ctx'[c] = None
    BY <1>1, <2>1 DEF Free
  <2>2. \A r, v \in Request : holds'[r] # None /\ holds'[r] = holds'[v] => r = v
    BY DEF IndInv, ClientsComeBackClean
  <2> QED
    BY <2>1, <2>2 DEF ClientsComeBackClean
<1>6. Buffers'
  BY <1>1, ClaimFrame DEF IndInv, Buffers, Writing
<1>7. Orphans'
  BY <1>1, ClaimFrame DEF IndInv, Orphans, Writing
<1>8. Committed'
  <2>1. \A row \in db : row.req \in Request
    BY DEF TypeOK, Row
  <2>2. \A r \in Request : Created(r) =>
          pc'[r] = "done" /\ answer'[r] = answer[r] /\ orphan'[r] = orphan[r]
    BY <1>1 DEF IndInv, Committed, Writing
  <2> QED
    BY <1>2, <2>1, <2>2, ClaimFrame DEF IndInv, Committed
<1>9. OneStake'
  BY <1>3, ClaimFrame DEF IndInv, OneStake
<1>10. Fates'
  BY <1>2, ClaimFrame DEF IndInv, Fates
<1>11. Witnessed'
  BY <1>3 DEF IndInv, Witnessed, Writing, Holding
<1> QED
  BY <1>4, <1>5, <1>6, <1>7, <1>8, <1>9, <1>10, <1>11 DEF IndInv

\* The three ways to lose connections.
LEMMA DeathKeeps ==
    ASSUME TypeOK, IndInv,
           Crash \/ \E q \in Request : ConnectionDies(q) \/ ScopeDies(q)
    PROVE  IndInv'
<1>1. ASSUME NEW q \in Request, ConnectionDies(q) PROVE IndInv'
  <2>1. holds[q] # None /\ pc[q] \in Writing
    BY <1>1, HolderFacts DEF ConnectionDies, Holding
  <2>2. Abandon({q}) /\ UNCHANGED <<tenantOf, keyOf, who, db, log>>
    BY <1>1 DEF ConnectionDies, request
  <2>3. /\ pc'[q] = "rollback" /\ answer' = answer /\ holds' = holds /\ fate'[q] = "error"
        /\ \A r \in Request \ {q} : pc'[r] = pc[r] /\ fate'[r] = fate[r]
    BY <1>1 DEF ConnectionDies, BodyFails, Goto, TypeOK
  <2> QED
    BY <2>1, <2>2, <2>3, AbandonKeeps
<1>2. ASSUME NEW q \in Request, ScopeDies(q) PROVE IndInv'
  <2>1. holds[q] # None /\ pc[q] # "done"
    BY <1>2, HolderFacts DEF ScopeDies, Holding
  <2>2. Abandon({q}) /\ UNCHANGED <<tenantOf, keyOf, who, db, log, fate>>
    BY <1>2 DEF ScopeDies, request
  <2>3. /\ pc'[q] = "done" /\ holds'[q] = None
        /\ answer'[q] \in {"409", "error"} /\ (pc[q] = "commit" => answer'[q] = "error")
        /\ \A r \in Request \ {q} : pc'[r] = pc[r] /\ answer'[r] = answer[r] /\ holds'[r] = holds[r]
    BY <1>2 DEF ScopeDies, Reply, TypeOK, IndInv, Fates
  <2> QED
    BY <2>1, <2>2, <2>3, AbandonKeeps
<1>3. CASE Crash
  <2> DEFINE Q == {r \in Request : holds[r] # None}
  <2>1. Abandon(Q) /\ UNCHANGED <<tenantOf, keyOf, who, db, log, fate>>
    BY <1>3 DEF Crash, request
  <2>2. /\ \A r \in InFlight : pc[r] # "done" /\ pc'[r] = "done" /\ answer'[r] = "error" /\ holds'[r] = None
        /\ \A r \in Request \ InFlight : /\ pc'[r] = pc[r] /\ answer'[r] = answer[r]
                                         /\ holds'[r] = holds[r] /\ holds[r] = None
    BY <1>3 DEF Crash, InFlight, TypeOK, Holding, Writing
  <2>3. \A r \in Request : r \in Q \/ holds[r] = None
    OBVIOUS
  <2>4. Q \in SUBSET Request /\ \A r \in Q : holds[r] # None
    OBVIOUS
  <2> HIDE DEF Q
  <2> QED
    BY <2>1, <2>2, <2>3, <2>4, AbandonKeeps
<1> QED
  BY <1>1, <1>2, <1>3

-----------------------------------------------------------------------------
(* The invariance proof.                                                   *)

\* No attempt has begun and nothing is stored.
LEMMA InitHolds == ASSUME Init PROVE TypeOK /\ IndInv
<1> USE DEF Init
<1>1. TypeOK
  BY CreateCustomerAssumption
  DEF TypeOK, Location, Holding, Writing, Answer, CreateCustomerAssumption
<1>2. \A q \in Request : ~Created(q) /\ ~Staked(q)
  BY DEF Created, Staked, RowsOf, Table
<1>3. Claims /\ ClientsComeBackClean /\ Buffers /\ Orphans /\ Fates
  BY DEF Claims, ClientsComeBackClean, Buffers, Orphans, Fates
<1>4. Committed /\ OneStake /\ Witnessed
  BY <1>2 DEF Committed, OneStake, Witnessed, Holding, Writing
<1> QED
  BY <1>1, <1>3, <1>4 DEF IndInv

\* A step that leaves everything but the pool and the failures alone.
LEMMA FrameKeeps ==
    ASSUME TypeOK, IndInv, UNCHANGED <<pc, request, holds, fate, answer, clients, db, log, server>>
    PROVE  IndInv'
<1>1. UNCHANGED <<pc, tenantOf, keyOf, who, holds, fate, answer, buf, ctx, db, log, orphan, lost>>
  BY DEF request, clients, server
<1>2. \A q \in Request : (Created(q)' <=> Created(q)) /\ (Staked(q)' <=> Staked(q))
  BY <1>1, ClaimFrame DEF Staked
<1>3. Claims' /\ ClientsComeBackClean'
  BY <1>1 DEF IndInv, Claims, ClientsComeBackClean, Free
<1>4. Buffers' /\ Orphans' /\ OneStake' /\ Fates'
  BY <1>1, <1>2, ClaimFrame DEF IndInv, Buffers, Orphans, OneStake, Fates
<1>5. Committed'
  BY <1>1, <1>2, ClaimFrame DEF IndInv, Committed, TypeOK, Row
<1>6. Witnessed'
  BY <1>1, <1>2 DEF IndInv, Witnessed
<1> QED
  BY <1>3, <1>4, <1>5, <1>6 DEF IndInv

\* Every step keeps the inductive invariant.
LEMMA StepKeeps == ASSUME TypeOK, IndInv, [Next]_vars PROVE TypeOK' /\ IndInv'
<1>1. TypeOK'
  BY TypeStep DEF IndInv
<1>2. ASSUME NEW q \in Request, Step(q) PROVE IndInv'
  <2>1. ASSUME NEW e \in {"allow", "deny"}, Decide(q, e) PROVE IndInv'
    BY <2>1, RefusalKeeps, AdvanceKeeps
  <2>2. ASSUME NEW ok \in BOOLEAN, EvaluateInvariants(q, ok) PROVE IndInv'
    <3>1. ok = TRUE \/ ok = FALSE
      OBVIOUS
    <3> QED
      BY <2>2, <3>1, RefusalKeeps, AdvanceKeeps
  <2> QED
    BY <1>2, <2>1, <2>2, RefusalKeeps, AdvanceKeeps, BeginKeeps, ContextKeeps, InsertKeeps,
       OutboxKeeps, BodyFailureKeeps, RollbackKeeps, CommitKeeps DEF Step
<1>3. CASE Close
  BY <1>1, <1>3, FrameKeeps DEF Close
<1>4. CASE UNCHANGED vars
  BY <1>1, <1>4, FrameKeeps DEF vars
<1> QED
  BY <1>1, <1>2, <1>3, <1>4, ReceiveKeeps, RefusalKeeps, BodyFailureKeeps, RollbackKeeps,
     DeathKeeps, OrphanKeeps DEF Next

\* The inductive invariant holds in every reachable state.
THEOREM Invariance == Spec => [](TypeOK /\ IndInv)
<1>1. Init => TypeOK /\ IndInv
  BY InitHolds
<1>2. (TypeOK /\ IndInv) /\ [Next]_vars => (TypeOK /\ IndInv)'
  BY StepKeeps
<1> QED
  BY <1>1, <1>2, PTL DEF Spec

\* A request has all of its rows in the database, or none.
LEMMA TablesOfCreated ==
    ASSUME TypeOK, IndInv, NEW q \in Request
    PROVE  /\ Created(q) => TablesOf(q) = Table
           /\ ~Created(q) => TablesOf(q) = {}
<1>1. ASSUME Created(q) PROVE TablesOf(q) = Table
  <2>1. TablesOf(q) \subseteq Table
    BY DEF TablesOf, TypeOK, Row
  <2>2. ASSUME NEW t \in Table PROVE t \in TablesOf(q)
    <3>1. RowOf(q, t) \in db /\ RowOf(q, t).req = q /\ RowOf(q, t).table = t
      BY <1>1, RowFacts DEF Created
    <3> QED
      BY <3>1 DEF TablesOf
  <2> QED
    BY <2>1, <2>2
<1>2. ASSUME ~Created(q) PROVE TablesOf(q) = {}
  BY <1>2 DEF TablesOf, IndInv, Committed
<1> QED
  BY <1>1, <1>2

\* Every variable keeps its type: pipeline, transactions, database and log.
THEOREM TypeCorrect == Spec => []TypeOK
  BY Invariance, PTL

\* Customer, audit and outbox rows of a request are durable together or not at
\* all, whatever dies in between.
THEOREM Atomicity == Spec => []AllOrNothing
<1>1. TypeOK /\ IndInv => AllOrNothing
  BY TablesOfCreated DEF AllOrNothing
<1> QED
  BY <1>1, Invariance, PTL

\* In the audited composition every durable row follows a logged allow, and every
\* 403 a logged deny, under the authenticated tenant, which is the row's.
THEOREM Witnessing == Spec => []EffectsAreWitnessed
<1>1. ASSUME TypeOK, IndInv PROVE EffectsAreWitnessed
  <2>1. SUFFICES ASSUME Audited PROVE EffectsAreWitnessed
    BY DEF EffectsAreWitnessed
  <2>2. ASSUME NEW row \in db
        PROVE  /\ row.tenant = who[row.req]
               /\ [req |-> row.req, tenant |-> row.tenant, effect |-> "allow"] \in log
    <3>1. row.req \in Request /\ Created(row.req) /\ row.tenant = tenantOf[row.req]
      BY <1>1, RowFacts DEF IndInv, Committed, TypeOK, Row
    <3> QED
      BY <1>1, <2>1, <3>1 DEF IndInv, Witnessed, Staked
  <2> QED
    BY <1>1, <2>1, <2>2 DEF EffectsAreWitnessed, IndInv, Witnessed
<1> QED
  BY <1>1, Invariance, PTL

\* A client goes back to the pool with no open transaction and no tenant context,
\* and belongs to one unit of work at a time.
THEOREM CleanClients == Spec => []ClientsComeBackClean
<1>1. IndInv => ClientsComeBackClean
  BY DEF IndInv
<1> QED
  BY <1>1, Invariance, PTL

-----------------------------------------------------------------------------
(* The requests implement CreateOnce.                                      *)

\* The claims and the creations that CreateOnce speaks of.
claimed == [q \in Request |-> IF tenantOf[q] = None THEN {} ELSE {<<tenantOf[q], keyOf[q]>>}]
made    == {q \in Request : "customer" \in TablesOf(q)}

\* A claim is a set of one pair.
OneClaim(t, k) == {<<t, k>>}

\* Two claims are equal when both of their parts are.
LEMMA OneClaimFacts ==
    ASSUME NEW a, NEW b, NEW c, NEW d
    PROVE  /\ OneClaim(a, b) # {}
           /\ OneClaim(a, b) = OneClaim(c, d) <=> a = c /\ b = d
<1>1. ASSUME {<<a, b>>} = {<<c, d>>} PROVE a = c /\ b = d
  <2>1. <<a, b>> = <<c, d>>
    BY <1>1, Zenon
  <2> QED
    BY <2>1
<1> QED
  BY <1>1 DEF OneClaim

\* They are the requests' own claims and rows.
LEMMA Mapping ==
    ASSUME TypeOK, IndInv
    PROVE  /\ made = {q \in Request : Created(q)}
           /\ \A q \in Request : claimed[q] = {} <=> tenantOf[q] = None
           /\ \A q, r \in Request : claimed[q] # {} =>
                (claimed[q] = claimed[r] <=> SameClaim(q, r))
<1>1. made = {q \in Request : Created(q)}
  BY TablesOfCreated DEF made, Table
<1>2. \A q \in Request : /\ tenantOf[q] = None => claimed[q] = {}
                         /\ tenantOf[q] # None => claimed[q] = OneClaim(tenantOf[q], keyOf[q])
  BY DEF claimed, OneClaim
<1> QED
  BY <1>1, <1>2, OneClaimFacts DEF SameClaim

\* Nothing that CreateOnce speaks of changes.
LEMMA MappingFrame ==
    ASSUME UNCHANGED <<tenantOf, keyOf, db>>
    PROVE  claimed' = claimed /\ made' = made
  BY DEF claimed, made, TablesOf

\* A request that is answered with a failure, a refusal or a conflict.
LEMMA AnswerImplements ==
    ASSUME TypeOK, IndInv, NEW q \in Request, NEW a \in {"400", "403", "409", "error"},
           answer' = [answer EXCEPT ![q] = a], UNCHANGED <<tenantOf, keyOf, db>>,
           pc[q] # "done",
           a = "409" => pc[q] = "rollback" /\ fate[q] = "409"
    PROVE  Abstract!Next
<1>1. answer[q] = "none" /\ ~Created(q)
  BY UnderWay DEF TypeOK
<1>2. q \notin made
  BY <1>1, Mapping
<1>3. claimed' = claimed /\ made' = made
  BY MappingFrame
<1>4. CASE a \in {"400", "403"}
  <2>1. Abstract!Refuse(q)
    BY <1>1, <1>2, <1>3, <1>4 DEF Abstract!Refuse, claimed, made
  <2> QED
    BY <2>1 DEF Abstract!Next
<1>5. CASE a = "409"
  <2>1. PICK r \in Request : r # q /\ Created(r) /\ SameClaim(q, r)
    BY <1>5 DEF IndInv, Fates
  <2>2. claimed[q] # {}
    BY <1>5, Mapping DEF IndInv, Claims
  <2>3. r \in made \ {q} /\ claimed[r] = claimed[q]
    BY <2>1, <2>2, Mapping
  <2>4. Abstract!Conflict(q)
    BY <1>1, <1>2, <1>3, <1>5, <2>3 DEF Abstract!Conflict, Abstract!Taken, claimed, made
  <2> QED
    BY <2>4 DEF Abstract!Next
<1>6. CASE a = "error"
  <2>1. {q} \in SUBSET {r \in Request : answer[r] = "none"}
    BY <1>1
  <2>2. answer' = [r \in Request |-> IF r \in {q} THEN "error" ELSE answer[r]]
    BY <1>6 DEF TypeOK
  <2>3. Abstract!Fail
    BY <1>3, <2>1, <2>2 DEF Abstract!Fail, claimed, made
  <2> QED
    BY <2>3 DEF Abstract!Next
<1> QED
  BY <1>4, <1>5, <1>6

\* The rows of q reach the database.
LEMMA CreateImplements ==
    ASSUME TypeOK, IndInv, NEW q \in Request,
           UNCHANGED <<tenantOf, keyOf>>, db' = db \cup RowsOf(q),
           pc[q] = "commit" \/ orphan[q] = "committing",
           \/ pc[q] = "commit" /\ answer' = [answer EXCEPT ![q] = "201"]
           \/ orphan[q] = "committing" /\ UNCHANGED answer
    PROVE  Abstract!Next
<1>1. ~Created(q) /\ Staked(q)
  BY UnderWay DEF Staked, IndInv, Committed
<1>2. tenantOf[q] # None /\ claimed[q] # {}
  <2>1. CASE pc[q] = "commit"
    BY <2>1, Mapping DEF IndInv, Claims
  <2>2. CASE orphan[q] = "committing"
    <3>1. RowOf(q, "outbox") \in lost[q]
      BY <2>2, RowFacts DEF IndInv, Orphans, Table
    <3>2. RowOf(q, "outbox").tenant \in Tenant
      BY <3>1 DEF TypeOK, Row
    <3>3. tenantOf[q] # None
      BY <3>2, RowFacts, CreateCustomerAssumption DEF CreateCustomerAssumption
    <3> QED
      BY <3>3, Mapping
  <2> QED
    BY <2>1, <2>2
<1>3. claimed' = claimed
  BY DEF claimed
<1>4. q \notin made
  BY <1>1, Mapping
<1>5. ASSUME NEW r \in Request
      PROVE  "customer" \in TablesOf(r)' <=> "customer" \in TablesOf(r) \/ r = q
  <2>1. RowOf(q, "customer") \in RowsOf(q) /\ RowOf(q, "customer").req = q
        /\ RowOf(q, "customer").table = "customer"
    BY RowFacts DEF Table
  <2>2. \A row \in RowsOf(q) : row.req = q
    BY RowFacts
  <2> QED
    BY <2>1, <2>2 DEF TablesOf
<1>6. made' = made \cup {q}
  BY <1>5 DEF made
<1>7. ~ \E r \in made \ {q} : claimed[r] = claimed[q]
  <2>1. ASSUME NEW r \in Request, r # q, Created(r) PROVE claimed[r] # claimed[q]
    BY <1>1, <1>2, <2>1, Mapping DEF IndInv, OneStake, Staked
  <2> QED
    BY <2>1, Mapping
<1>8. \/ answer[q] = "none" /\ answer' = [answer EXCEPT ![q] = "201"]
      \/ answer[q] = "error" /\ UNCHANGED answer
  BY DEF TypeOK, IndInv, Orphans
<1>9. Abstract!Create(q)
  BY <1>2, <1>3, <1>4, <1>6, <1>7, <1>8 DEF Abstract!Create, Abstract!Taken, claimed, made
<1> QED
  BY <1>9 DEF Abstract!Next

\* A step that CreateOnce does not see.
LEMMA StutterImplements ==
    ASSUME UNCHANGED <<tenantOf, keyOf, db, answer>>
    PROVE  UNCHANGED Abstract!vars
  BY MappingFrame DEF Abstract!vars, claimed, made

\* The arrival of a request.
LEMMA ReceiveImplements ==
    ASSUME TypeOK, IndInv, NEW q \in Request, NEW t \in Tenant, NEW k \in Key, Receive(q, t, k)
    PROVE  Abstract!Next
<1>1. /\ UNCHANGED <<db, answer>> /\ tenantOf[q] = None /\ t # None
      /\ tenantOf'[q] = t /\ keyOf'[q] = k
      /\ \A r \in Request \ {q} : tenantOf'[r] = tenantOf[r] /\ keyOf'[r] = keyOf[r]
  BY CreateCustomerAssumption
  DEF Receive, Goto, TypeOK, IndInv, Claims, CreateCustomerAssumption
<1>2. made' = made
  BY <1>1 DEF made, TablesOf
<1>3. claimed[q] = {}
  BY <1>1 DEF claimed
<1>4. <<t, k>> \in Tenant \X Key
  OBVIOUS
<1>5. claimed' = [claimed EXCEPT ![q] = {<<t, k>>}]
  BY <1>1 DEF claimed
<1>6. Abstract!Submit(q)
  BY <1>1, <1>2, <1>3, <1>4, <1>5 DEF Abstract!Submit, claimed, made
<1> QED
  BY <1>6 DEF Abstract!Next

\* The process dies: every request in it ends in an error.
LEMMA CrashImplements == ASSUME TypeOK, Crash PROVE Abstract!Next
<1>1. claimed' = claimed /\ made' = made
  BY MappingFrame DEF Crash, request
<1>2. InFlight \in SUBSET {r \in Request : answer[r] = "none"}
  BY DEF InFlight, TypeOK
<1>3. answer' = [r \in Request |-> IF r \in InFlight THEN "error" ELSE answer[r]]
  BY DEF Crash
<1>4. Abstract!Fail
  BY <1>1, <1>2, <1>3 DEF Abstract!Fail, claimed, made
<1> QED
  BY <1>4 DEF Abstract!Next

\* Every step of the requests is a step of CreateOnce, or a stutter.
LEMMA StepImplements ==
    ASSUME TypeOK, IndInv, [Next]_vars PROVE [Abstract!Next]_(Abstract!vars)
<1> DEFINE Refined == Abstract!Next \/ UNCHANGED Abstract!vars
<1>1. ASSUME NEW q \in Request, RefuseAtGuard(q) PROVE Refined
  BY <1>1, AnswerImplements DEF RefuseAtGuard, Reply, request
<1>2. ASSUME NEW q \in Request, Malformed(q) \/ CommandInvalid(q) PROVE Refined
  BY <1>2, AnswerImplements DEF Malformed, CommandInvalid, Reply, request
<1>3. ASSUME NEW q \in Request, NEW e \in {"allow", "deny"}, Decide(q, e) PROVE Refined
  BY <1>3, AnswerImplements, StutterImplements DEF Decide, Goto, Reply, request
<1>4. ASSUME NEW q \in Request, NEW ok \in BOOLEAN, EvaluateInvariants(q, ok) PROVE Refined
  BY <1>4, AnswerImplements, StutterImplements DEF EvaluateInvariants, Goto, Reply, request
<1>5. ASSUME NEW q \in Request,
             \/ \E t \in Tenant, b \in BOOLEAN : Authenticate(q, t, b)
             \/ \E c \in Client : Begin(q, c)
             \/ BeginTenantContext(q) \/ InsertCustomer(q) \/ InsertAudit(q) \/ InsertOutbox(q)
             \/ IdempotencyConflict(q) \/ QueryFails(q) \/ ConnectionDies(q)
      PROVE  Refined
  <2>1. UNCHANGED <<tenantOf, keyOf, db, answer>>
    BY <1>5 DEF Authenticate, Begin, BeginTenantContext, InsertCustomer, InsertAudit, InsertOutbox,
       InsertRow, IdempotencyConflict, QueryFails, ConnectionDies, BodyFails, Goto, request
  <2> QED
    BY <2>1, StutterImplements
<1>6. ASSUME NEW q \in Request, BeginRefused(q) \/ \E b \in BOOLEAN : PipelineFails(q, b)
      PROVE  Refined
  BY <1>6, AnswerImplements DEF BeginRefused, PipelineFails, Reply, request
<1>7. ASSUME NEW q \in Request, Rollback(q) \/ CommitRefused(q) \/ ScopeDies(q) PROVE Refined
  <2>1. PICK a \in {"409", "error"} :
          answer' = [answer EXCEPT ![q] = a] /\ (a = "409" => pc[q] = "rollback" /\ fate[q] = "409")
    BY <1>7 DEF Rollback, CommitRefused, ScopeDies, Reply, IndInv, Fates
  <2>2. UNCHANGED <<tenantOf, keyOf, db>> /\ pc[q] # "done"
    BY <1>7 DEF Rollback, CommitRefused, ScopeDies, request
  <2> QED
    BY <2>1, <2>2, AnswerImplements
<1>8. ASSUME NEW q \in Request, Commit(q) PROVE Refined
  <2>1. holds[q] # None /\ pc[q] = "commit"
    BY <1>8, HolderFacts DEF Commit, Holding
  <2>2. buf[holds[q]] \subseteq RowsOf(q) /\ RowsOf(q) \subseteq buf[holds[q]]
    BY <2>1, RowFacts DEF IndInv, Buffers
  <2>3. db' = db \cup RowsOf(q)
    BY <1>8, <2>2 DEF Commit
  <2> QED
    BY <1>8, <2>1, <2>3, CreateImplements DEF Commit, Reply, request
<1>9. ASSUME NEW q \in Request, NEW b \in BOOLEAN, OrphanEnds(q, b) PROVE Refined
  <2>1. CASE b
    BY <1>9, <2>1, CreateImplements DEF OrphanEnds, IndInv, Orphans, request
  <2>2. CASE ~b
    BY <1>9, <2>2, StutterImplements DEF OrphanEnds, request
  <2> QED
    BY <2>1, <2>2
<1>10. ASSUME NEW q \in Request, Step(q) PROVE Refined
  <2> HIDE DEF Refined
  <2> QED
    BY <1>1, <1>2, <1>3, <1>4, <1>5, <1>6, <1>7, <1>8, <1>10 DEF Step
<1>11. ASSUME Close \/ UNCHANGED vars PROVE Refined
  BY <1>11, StutterImplements DEF Close, vars, request
<1>12. ASSUME Crash PROVE Refined
  BY <1>12, CrashImplements
<1>13. ASSUME NEW q \in Request, NEW t \in Tenant, NEW k \in Key, Receive(q, t, k) PROVE Refined
  BY <1>13, ReceiveImplements
<1>14. Refined
  <2> HIDE DEF Refined
  <2> QED
    BY <1>2, <1>5, <1>6, <1>7, <1>9, <1>10, <1>11, <1>12, <1>13 DEF Next
<1> QED
  BY <1>14

\* The requests implement what CreateOnce promises their clients: one customer per
\* tenant and idempotency key, a 201 only to its creator, a 409 only when another
\* request did create it, and nothing created by a refused request.
THEOREM Refinement == Spec => CreatesOnce
<1>1. Init => Abstract!Init
  BY DEF Init, Abstract!Init, TablesOf
<1>2. (TypeOK /\ IndInv) /\ [Next]_vars => [Abstract!Next]_(Abstract!vars)
  BY StepImplements
<1> QED
  BY <1>1, <1>2, Invariance, PTL DEF Spec, CreatesOnce, Abstract!Spec

=============================================================================
