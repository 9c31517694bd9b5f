---------------------------- MODULE DataCutover ----------------------------
(***************************************************************************)
(* The customer application's persistence controller                       *)
(* (consumers/customer-app-core/customer-data-cutover.mjs, with the        *)
(* persistence and records adapters it calls).                             *)
(*                                                                         *)
(* One controller is shared by everything that records customers.  Its     *)
(* insert() reads activeWriter once, synchronously, and then either hands  *)
(* the record to the injected legacyInsert or writes three rows in one     *)
(* transaction of its own.  cutover() flips activeWriter after an awaited  *)
(* verifyCompatibility, rollback() flips it back at once, close() ends the *)
(* pool.  Nothing serialises these calls: every await is a point where     *)
(* another call runs.                                                      *)
(*                                                                         *)
(* Records are seen as their id (primary key of customer_records); a       *)
(* call's options are either absent (the controller then uses the record's *)
(* id as idempotency fingerprint) or a fingerprint.  The options object is *)
(* the caller's and is read only after two awaits: by then a careless      *)
(* caller may have made it one that the persistence adapter refuses.  All  *)
(* calls are of one tenant.                                                *)
(***************************************************************************)
EXTENDS Naturals, FiniteSets

CONSTANTS
    Inserts,       \* calls of insert()
    Cutovers,      \* calls of cutover()
    Records,       \* record ids
    Keys,          \* explicit fingerprints
    Absent,        \* no audit, transactionalOutbox and idempotency options
    RecordOf,      \* the record each call inserts
    OptionsOf,     \* the options of each call
    Careless,      \* calls whose options checkAudit, checkOutbox or checkIdempotency may refuse
    PoolMax        \* clients the pool hands out at a time

ASSUME CallsAssumption ==
    /\ RecordOf \in [Inserts -> Records]
    /\ OptionsOf \in [Inserts -> Keys \cup {Absent}]
    /\ Absent \notin Keys \cup Records
    /\ Careless \subseteq Inserts
    /\ Inserts \cap Cutovers = {}

ASSUME PoolAssumption == PoolMax \in Nat \ {0}

VARIABLES
    activeWriter,  \* "legacy" or "application"
    pool,          \* "none" until first used, "open", "ended"
    pc,            \* where each call of insert() or cutover() is
    answer,        \* what the call was, or will be, answered
    tx,            \* the rows of each call's transaction, and whether a server runs it
    rows,          \* committed rows: the table and the call that wrote it
    legacyRows,    \* calls whose record the legacy writer holds
    verified,      \* some verifyCompatibility returned true
    rolledBack     \* rollback() was called, and cutover() not since

vars == <<activeWriter, pool, pc, answer, tx, rows, legacyRows, verified, rolledBack>>

Tables == {"customer_records", "audit_log", "transactional_outbox"}

(* The statements of an application insert, in the order they are awaited. *)
Statements == {"begin", "context", "customer", "audit", "outbox", "commit"}

(* A call in one of these places holds a client of the pool.               *)
Holding == Statements \cup {"rollback", "verify"}

Calls == Inserts \cup Cutovers

NoTx == [state |-> "none", rows |-> {}]

(* idempotency.fingerprint: given, or the record's id.                     *)
Fingerprint(c) == IF OptionsOf[c] = Absent THEN RecordOf[c] ELSE OptionsOf[c]

(* Another call's row that a unique index compares with a row of call c.   *)
SameIn(table, c, d) ==
    /\ c # d
    /\ CASE table = "customer_records"     -> RecordOf[c] = RecordOf[d]
         [] table = "transactional_outbox" -> Fingerprint(c) = Fingerprint(d)
         [] OTHER                          -> FALSE

(* An INSERT waits while an unfinished transaction holds an equal key ...  *)
MustWait(table, c) ==
    \E d \in Inserts : table \in tx[d].rows /\ SameIn(table, c, d)

DuplicateNever(table, c) == FALSE

(* ... and fails with 23505 when a committed row has it.                   *)
Duplicate(table, c) ==
    \E r \in rows : r.table = table /\ SameIn(table, c, r.by)

----------------------------------------------------------------------------
Init ==
    /\ activeWriter = "legacy"
    /\ pool = "none"
    /\ pc = [c \in Calls |-> "idle"]
    /\ answer = [c \in Calls |-> "none"]
    /\ tx = [c \in Inserts |-> NoTx]
    /\ rows = {}
    /\ legacyRows = {}
    /\ verified = FALSE
    /\ rolledBack = FALSE

Move(c, place) == pc' = [pc EXCEPT ![c] = place]

Finish(c, a) == Move(c, "done") /\ answer' = [answer EXCEPT ![c] = a]

(* getPool().connect(): the first use builds the pool; a pool that was     *)
(* ended refuses, otherwise the call waits for a client.                   *)
AskForClient(c) ==
    \/ /\ pool = "ended"
       /\ Finish(c, "error")
       /\ UNCHANGED pool
    \/ /\ pool # "ended"
       /\ pool' = "open"
       /\ Move(c, "connect")
       /\ UNCHANGED answer

(* insert() by the legacy writer: legacyInsert is called in the same turn. *)
InsertLegacy(c) ==
    /\ pc[c] = "idle" /\ activeWriter = "legacy"
    /\ Move(c, "legacy")
    /\ UNCHANGED <<activeWriter, pool, answer, tx, rows, legacyRows, verified, rolledBack>>

InsertApplication(c) ==
    /\ pc[c] = "idle" /\ activeWriter = "application"
    /\ AskForClient(c)
    /\ UNCHANGED <<activeWriter, tx, rows, legacyRows, verified, rolledBack>>

(* External: what the injected legacyInsert may do.  It resolves when it   *)
(* has the record; when it rejects it may have it all the same.            *)
LegacyResolves(c) ==
    /\ pc[c] = "legacy"
    /\ legacyRows' = legacyRows \cup {c}
    /\ Finish(c, "ok")
    /\ UNCHANGED <<activeWriter, pool, tx, rows, verified, rolledBack>>

LegacyRejects(c) ==
    /\ pc[c] = "legacy"
    /\ legacyRows' \in {legacyRows, legacyRows \cup {c}}
    /\ Finish(c, "error")
    /\ UNCHANGED <<activeWriter, pool, tx, rows, verified, rolledBack>>

----------------------------------------------------------------------------
(* The application transaction.                                            *)

Clients == {c \in Calls : pc[c] \in Holding}

Connect(c) ==
    /\ pc[c] = "connect" /\ pool = "open"
    /\ Cardinality(Clients) < PoolMax
    /\ Move(c, IF c \in Inserts THEN "begin" ELSE "verify")
    /\ UNCHANGED <<activeWriter, pool, answer, tx, rows, legacyRows, verified, rolledBack>>

ConnectFails(c) ==
    /\ pc[c] = "connect" /\ pool = "open"
    /\ Finish(c, "error")
    /\ UNCHANGED <<activeWriter, pool, tx, rows, legacyRows, verified, rolledBack>>

Begin(c) ==
    /\ pc[c] = "begin"
    /\ Move(c, "context")
    /\ tx' = [tx EXCEPT ![c].state = "open"]
    /\ UNCHANGED <<activeWriter, pool, answer, rows, legacyRows, verified, rolledBack>>

(* mfk_begin_tenant_context answers; the adapter then checks its options   *)
(* before its first query, and throws into the catch when it refuses them. *)
TenantContext(c) ==
    /\ pc[c] = "context"
    /\ \/ /\ c \in Careless
          /\ Move(c, "rollback")
          /\ answer' = [answer EXCEPT ![c] = "error"]
       \/ Move(c, "customer") /\ UNCHANGED answer
    /\ UNCHANGED <<activeWriter, pool, tx, rows, legacyRows, verified, rolledBack>>

(* One INSERT of the adapters: the row joins the open transaction, or the  *)
(* index refuses it: the server aborts the transaction and the error is    *)
(* thrown into the catch.                                                  *)
InsertRow(c, place, table, next, error) ==
    /\ pc[c] = place /\ ~MustWait(table, c)
    /\ IF Duplicate(table, c)
       THEN /\ Move(c, "rollback")
            /\ answer' = [answer EXCEPT ![c] = error]
            /\ tx' = [tx EXCEPT ![c].rows = {}]
       ELSE /\ Move(c, next)
            /\ tx' = [tx EXCEPT ![c].rows = @ \cup {table}]
            /\ UNCHANGED answer
    /\ UNCHANGED <<activeWriter, pool, rows, legacyRows, verified, rolledBack>>

(* A primary key violation reported as an idempotency conflict.            *)
InsertCustomerAnyViolation(c) ==
    InsertRow(c, "customer", "customer_records", "audit", "conflict")

InsertCustomer(c) == InsertRow(c, "customer", "customer_records", "audit", "error")

(* The audit row, written outside the transaction.                         *)
InsertAuditElsewhere(c) ==
    /\ pc[c] = "audit"
    /\ Move(c, "outbox")
    /\ rows' = rows \cup {[table |-> "audit_log", by |-> c]}
    /\ UNCHANGED <<activeWriter, pool, answer, tx, legacyRows, verified, rolledBack>>

InsertAudit(c) == InsertRow(c, "audit", "audit_log", "outbox", "error")

(* Only the violation of the dedup key becomes                             *)
(* CustomerIdempotencyConflictError.                                       *)
InsertOutbox(c) == InsertRow(c, "outbox", "transactional_outbox", "commit", "conflict")

RowsOf(c) == {[table |-> t, by |-> c] : t \in tx[c].rows}

Commit(c) ==
    /\ pc[c] = "commit"
    /\ rows' = rows \cup RowsOf(c)
    /\ tx' = [tx EXCEPT ![c] = NoTx]
    /\ Finish(c, "ok")
    /\ UNCHANGED <<activeWriter, pool, legacyRows, verified, rolledBack>>

(* A statement, COMMIT included, that the server refuses: the transaction  *)
(* is aborted and the catch runs.                                          *)
StatementFails(c) ==
    /\ pc[c] \in Statements
    /\ Move(c, "rollback")
    /\ answer' = [answer EXCEPT ![c] = "error"]
    /\ tx' = [tx EXCEPT ![c].rows = {}]
    /\ UNCHANGED <<activeWriter, pool, rows, legacyRows, verified, rolledBack>>

(* ROLLBACK, then the insert once more.                                    *)
RollbackThenRetry(c) ==
    /\ pc[c] = "rollback"
    /\ Move(c, "begin")
    /\ answer' = [answer EXCEPT ![c] = "none"]
    /\ tx' = [tx EXCEPT ![c] = NoTx]
    /\ UNCHANGED <<activeWriter, pool, rows, legacyRows, verified, rolledBack>>

(* catch: ROLLBACK, then the original error, then release().               *)
Rollback(c) ==
    /\ pc[c] = "rollback"
    /\ Finish(c, answer[c])
    /\ tx' = [tx EXCEPT ![c] = NoTx]
    /\ UNCHANGED <<activeWriter, pool, rows, legacyRows, verified, rolledBack>>

(* The connection dies under a statement: the statement rejects, ROLLBACK  *)
(* rejects and is swallowed, the error is rethrown.  The server still runs *)
(* the transaction; a COMMIT may have reached it.                          *)
ConnectionDies(c) ==
    /\ pc[c] \in Statements \cup {"rollback"}
    /\ Finish(c, IF pc[c] = "rollback" THEN answer[c] ELSE "error")
    /\ tx' = [tx EXCEPT ![c].state =
                  IF pc[c] = "commit" THEN "committing"
                  ELSE IF @ = "open" THEN "orphan" ELSE @]
    /\ UNCHANGED <<activeWriter, pool, rows, legacyRows, verified, rolledBack>>

(* External: the server ends the transaction of a dead connection.         *)
OrphanEnds(c) ==
    /\ tx[c].state \in {"orphan", "committing"}
    /\ rows' \in {rows} \cup {rows \cup RowsOf(c) : s \in {tx[c].state} \cap {"committing"}}
    /\ tx' = [tx EXCEPT ![c] = NoTx]
    /\ UNCHANGED <<activeWriter, pool, pc, answer, legacyRows, verified, rolledBack>>

----------------------------------------------------------------------------
(* The switch.                                                             *)

Cutover(k) ==
    /\ pc[k] = "idle"
    /\ AskForClient(k)
    /\ rolledBack' = FALSE
    /\ UNCHANGED <<activeWriter, tx, rows, legacyRows, verified>>

(* verifyCompatibility resolves to true: the writer is switched, whatever  *)
(* happened to it since cutover() was called.                              *)
VerifyTrue(k) ==
    /\ pc[k] = "verify"
    /\ activeWriter' = "application"
    /\ verified' = TRUE
    /\ Finish(k, "ok")
    /\ UNCHANGED <<pool, tx, rows, legacyRows, rolledBack>>

(* The switch made for every answer of verifyCompatibility.                *)
VerifyFalseSwitches(k) ==
    /\ pc[k] = "verify"
    /\ activeWriter' = "application"
    /\ \E a \in {"ok", "error"} : Finish(k, a)
    /\ UNCHANGED <<pool, tx, rows, legacyRows, verified, rolledBack>>

(* It resolves to anything else, or rejects: finally releases the client.  *)
VerifyFalse(k) ==
    /\ pc[k] = "verify"
    /\ \E a \in {"ok", "error"} : Finish(k, a)
    /\ UNCHANGED <<activeWriter, pool, tx, rows, legacyRows, verified, rolledBack>>

(* rollback() is synchronous.                                              *)
RollbackWriter ==
    /\ activeWriter' = "legacy"
    /\ rolledBack' = TRUE
    /\ UNCHANGED <<pool, pc, answer, tx, rows, legacyRows, verified>>

(* close(): only a pool that was built is ended.  Its clients are closed   *)
(* as they are released; connects that wait are left waiting by pg.Pool.   *)
Close ==
    /\ pool = "open"
    /\ pool' = "ended"
    /\ UNCHANGED <<activeWriter, pc, answer, tx, rows, legacyRows, verified, rolledBack>>

Advance(c) ==
    \/ LegacyResolves(c) \/ LegacyRejects(c)
    \/ Begin(c) \/ TenantContext(c)
    \/ InsertCustomer(c) \/ InsertAudit(c) \/ InsertOutbox(c)
    \/ Commit(c) \/ StatementFails(c) \/ Rollback(c) \/ ConnectionDies(c)

Next ==
    \/ \E c \in Calls : Connect(c) \/ ConnectFails(c)
    \/ \E c \in Inserts :
          InsertLegacy(c) \/ InsertApplication(c) \/ Advance(c) \/ OrphanEnds(c)
    \/ \E k \in Cutovers : Cutover(k) \/ VerifyTrue(k) \/ VerifyFalse(k)
    \/ RollbackWriter
    \/ Close

Spec == Init /\ [][Next]_vars

(* Every promise a call waits for settles, and the server ends the         *)
(* transactions of dead connections.  Whether anybody calls cutover(),     *)
(* rollback() or close() is open.  A client that is free again is handed   *)
(* to a waiting connect, in the queue's order: strong fairness.            *)
Fairness ==
    /\ \A c \in Inserts : WF_vars(Advance(c)) /\ WF_vars(OrphanEnds(c))
    /\ \A c \in Calls : SF_vars(Connect(c))
    /\ \A k \in Cutovers : WF_vars(VerifyTrue(k) \/ VerifyFalse(k))

LiveSpec == Spec /\ Fairness

----------------------------------------------------------------------------
(* Every variable has its type, and a call is answered when it is done.    *)
TypeOK ==
    /\ activeWriter \in {"legacy", "application"}
    /\ pool \in {"none", "open", "ended"}
    /\ pc \in [Calls -> {"idle", "legacy", "connect", "done"} \cup Holding]
    /\ answer \in [Calls -> {"none", "ok", "conflict", "error"}]
    /\ tx \in [Inserts -> [state : {"none", "open", "orphan", "committing"},
                           rows : SUBSET Tables]]
    /\ rows \subseteq [table : Tables, by : Inserts]
    /\ legacyRows \subseteq Inserts
    /\ verified \in BOOLEAN
    /\ rolledBack \in BOOLEAN
    /\ \A c \in Calls : pc[c] = "done" => answer[c] # "none"

Recorded(c) == \E r \in rows : r.by = c

(* The customer row, its audit row and its outbox row are committed        *)
(* together or not at all, whichever statement of insert() fails and       *)
(* whenever the connection dies; and insert() "never falls back to         *)
(* legacy": no call leaves its record with both writers, although the      *)
(* writer may be switched while the call waits.                            *)
AllOrNothing ==
    \A c \in Inserts : Recorded(c) =>
        /\ \A t \in Tables : [table |-> t, by |-> c] \in rows
        /\ c \notin legacyRows

(* insert() resolves only when a writer holds the record.  When it rejects *)
(* with CustomerIdempotencyConflictError it has left nothing behind, and   *)
(* another record holds the fingerprint: a repeated insert of the same     *)
(* record meets the primary key first and never gets this error.           *)
AnswerTellsRecord ==
    \A c \in Inserts : pc[c] = "done" =>
        /\ answer[c] = "ok" => Recorded(c) \/ c \in legacyRows
        /\ answer[c] = "conflict" =>
              /\ ~Recorded(c) /\ c \notin legacyRows
              /\ \E r \in rows : /\ r.table = "transactional_outbox"
                                /\ Fingerprint(r.by) = Fingerprint(c)
                                /\ RecordOf[r.by] # RecordOf[c]

(* However calls race, the application writer holds a record and a         *)
(* fingerprint once.                                                       *)
RecordedOnce ==
    \A r, s \in rows : r.table = s.table => ~SameIn(r.table, r.by, s.by)

(* The application writer is used only after verifyCompatibility returned  *)
(* true; a refusal or a failure of the check never opens the gate, however *)
(* cutover(), rollback() and inserts interleave.                           *)
GateKept ==
    \A c \in Inserts : Recorded(c) \/ pc[c] \in Holding => verified

(* rollback() routes inserts to the legacy writer until cutover() is       *)
(* called again.                                                           *)
RollbackHolds == rolledBack => activeWriter = "legacy"

(* Calls that wait for each other's rows or for a client of the pool all   *)
(* end, unless close() is called while they wait.                          *)
EveryCallEnds ==
    \A c \in Calls : pc[c] # "idle" ~> pc[c] = "done" \/ pool = "ended"
============================================================================
