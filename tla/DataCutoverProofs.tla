------------------------- MODULE DataCutoverProofs -------------------------
(***************************************************************************)
(* Machine-checked safety of the customer application's persistence        *)
(* controller, for any number of calls, records, fingerprints and clients. *)
(***************************************************************************)
EXTENDS DataCutover, TLAPS

Row(t, c) == [table |-> t, by |-> c]

\* A call has written a row: it is committed, or waits for the commit.
Wrote(t, c) == t \in tx[c].rows \/ Row(t, c) \in rows

\* How far the transaction of a call is.
Transaction(c) ==
    /\ pc[c] \in {"idle", "legacy", "connect", "begin"} => tx[c].state = "none"
    /\ pc[c] \in {"audit", "outbox", "commit"} \/ tx[c].state = "committing" =>
         "customer_records" \in tx[c].rows
    /\ pc[c] \in {"outbox", "commit"} \/ tx[c].state = "committing" => "audit_log" \in tx[c].rows
    /\ pc[c] = "commit" \/ tx[c].state = "committing" => "transactional_outbox" \in tx[c].rows
    /\ tx[c].state \in {"orphan", "committing"} => pc[c] = "done"
    /\ tx[c].state = "committing" => answer[c] = "error" /\ c \notin legacyRows

\* What is recorded is recorded whole, by a call that is over.
Whole(c) == Recorded(c) =>
    /\ \A t \in Tables : Row(t, c) \in rows
    /\ pc[c] = "done" /\ answer[c] \in {"ok", "error"} /\ c \notin legacyRows
    /\ tx[c].state # "committing"

\* The legacy writer is done with its calls.
Legacy(c) == c \in legacyRows => pc[c] = "done" /\ answer[c] \in {"ok", "error"}

\* What each answer stands on.
Answered(c) ==
    /\ pc[c] = "rollback" => answer[c] \in {"conflict", "error"}
    /\ pc[c] \notin {"rollback", "done"} => answer[c] = "none"
    /\ answer[c] = "ok" => Recorded(c) \/ c \in legacyRows
    /\ answer[c] = "conflict" =>
         \E r \in rows : /\ r.table = "transactional_outbox"
                        /\ Fingerprint(r.by) = Fingerprint(c)
                        /\ RecordOf[r.by] # RecordOf[c]

\* A call that is past the gate went through it.
Gated(c) ==
    Recorded(c) \/ tx[c].state # "none" \/ pc[c] \in Holding \cup {"connect"} => verified

CallOK(c) == Transaction(c) /\ Whole(c) /\ Legacy(c) /\ Answered(c) /\ Gated(c)

\* The two unique indexes, over committed and waiting rows.
OneWriter == \A c, d \in Inserts : \A t \in Tables :
    Wrote(t, c) /\ Wrote(t, d) => ~SameIn(t, c, d)

IndInv ==
    /\ \A c \in Inserts : CallOK(c)
    /\ OneWriter
    /\ activeWriter = "application" => verified

-----------------------------------------------------------------------------

\* Where a call of insert() can be, and what its transaction looks like.
LEMMA CallFacts ==
    ASSUME TypeOK, NEW c \in Inserts
    PROVE  /\ c \in Calls /\ c \notin Cutovers
           /\ tx[c].rows \subseteq Tables
           /\ tx[c] = [state |-> tx[c].state, rows |-> tx[c].rows]
  BY CallsAssumption DEF CallsAssumption, Calls, TypeOK

\* Every step writes values of the right type.
LEMMA TypeStep == ASSUME TypeOK, IndInv, [Next]_vars PROVE TypeOK'
<1> DEFINE State == {"none", "open", "orphan", "committing"}
           Control == /\ pc' \in [Calls -> {"idle", "legacy", "connect", "done"} \cup Holding]
                      /\ answer' \in [Calls -> {"none", "ok", "conflict", "error"}]
                      /\ \A d \in Calls : pc'[d] = "done" => answer'[d] # "none"
<1>a. ASSUME NEW c \in Calls, NEW l \in {"legacy", "connect"} \cup Holding, Move(c, l),
             \/ UNCHANGED answer
             \/ \E a \in {"conflict", "error"} : answer' = [answer EXCEPT ![c] = a]
      PROVE  Control
  BY <1>a DEF TypeOK, Move, Holding, Statements
<1>b. ASSUME NEW c \in Calls, NEW a \in {"ok", "conflict", "error"}, Finish(c, a)
      PROVE  Control
  BY <1>b DEF TypeOK, Finish, Move, Holding, Statements
<1> DEFINE TxTyped == tx' \in [Inserts -> [state : State, rows : SUBSET Tables]]
<1>c. ASSUME NEW c \in Inserts,
             \/ tx' = [tx EXCEPT ![c] = NoTx]
             \/ \E s \in State : tx' = [tx EXCEPT ![c].state = s]
             \/ \E R \in SUBSET Tables : tx' = [tx EXCEPT ![c].rows = R]
      PROVE  TxTyped
  <2>1. ASSUME tx' = [tx EXCEPT ![c] = NoTx] PROVE TxTyped
    BY <2>1 DEF TypeOK, NoTx
  <2>2. ASSUME NEW s \in State, tx' = [tx EXCEPT ![c].state = s] PROVE TxTyped
    BY <2>2 DEF TypeOK
  <2>3. ASSUME NEW R \in SUBSET Tables, tx' = [tx EXCEPT ![c].rows = R] PROVE TxTyped
    BY <2>3 DEF TypeOK
  <2> QED
    BY <1>c, <2>1, <2>2, <2>3
<1>d. ASSUME NEW c \in Inserts PROVE RowsOf(c) \subseteq [table : Tables, by : Inserts]
  <2>1. tx[c].rows \subseteq Tables
    BY DEF TypeOK
  <2> QED
    BY <2>1 DEF RowsOf
<1>e. ASSUME NEW c \in Inserts PROVE tx[c].state \in State /\ tx[c].rows \in SUBSET Tables
  BY DEF TypeOK
<1>0. CASE UNCHANGED vars
  BY <1>0 DEF vars, TypeOK
<1>1. ASSUME NEW c \in Calls, AskForClient(c) PROVE Control /\ pool' \in {"none", "open", "ended"}
  BY <1>1, <1>a, <1>b DEF AskForClient, TypeOK
<1>2. ASSUME NEW c \in Calls, Connect(c) \/ ConnectFails(c) PROVE TypeOK'
  <2>1. Control
    BY <1>2, <1>a, <1>b DEF Connect, ConnectFails, Holding, Statements
  <2> QED
    BY <1>2, <2>1 DEF Connect, ConnectFails, TypeOK
<1>3. ASSUME NEW c \in Inserts, InsertLegacy(c) \/ InsertApplication(c) PROVE TypeOK'
  <2>1. Control /\ pool' \in {"none", "open", "ended"}
    BY <1>3, <1>1, <1>a, CallFacts DEF InsertLegacy, InsertApplication, TypeOK
  <2> QED
    BY <1>3, <2>1 DEF InsertLegacy, InsertApplication, TypeOK
<1>4. ASSUME NEW c \in Inserts, LegacyResolves(c) \/ LegacyRejects(c) PROVE TypeOK'
  <2>1. Control
    BY <1>4, <1>b, CallFacts DEF LegacyResolves, LegacyRejects
  <2>2. legacyRows' \subseteq Inserts
    BY <1>4 DEF LegacyResolves, LegacyRejects, TypeOK
  <2> QED
    BY <1>4, <2>1, <2>2 DEF LegacyResolves, LegacyRejects, TypeOK
<1>5. ASSUME NEW c \in Inserts, Begin(c) PROVE TypeOK'
  <2>1. Control
    BY <1>5, <1>a, CallFacts DEF Begin, Holding, Statements
  <2>2. TxTyped
    BY <1>5, <1>c DEF Begin
  <2> QED
    BY <1>5, <2>1, <2>2 DEF Begin, TypeOK
<1>6. ASSUME NEW c \in Inserts, TenantContext(c) PROVE TypeOK'
  <2>1. Control
    BY <1>6, <1>a, CallFacts DEF TenantContext, Holding, Statements
  <2> QED
    BY <1>6, <2>1 DEF TenantContext, TypeOK
<1>7. ASSUME NEW c \in Inserts, NEW p, NEW t \in Tables, NEW n \in Holding,
             NEW e \in {"conflict", "error"}, InsertRow(c, p, t, n, e) PROVE TypeOK'
  <2>1. Control
    BY <1>7, <1>a, CallFacts DEF InsertRow, Holding
  <2>2. TxTyped
    <3>1. tx[c].rows \cup {t} \in SUBSET Tables /\ {} \in SUBSET Tables
      BY <1>e
    <3>2. \E R \in SUBSET Tables : tx' = [tx EXCEPT ![c].rows = R]
      BY <1>7, <3>1 DEF InsertRow
    <3> QED
      BY <1>c, <3>2
  <2> QED
    BY <1>7, <2>1, <2>2 DEF InsertRow, TypeOK
<1>8. ASSUME NEW c \in Inserts, Commit(c) PROVE TypeOK'
  <2>1. Control
    BY <1>8, <1>b, CallFacts DEF Commit
  <2>2. TxTyped
    BY <1>8, <1>c DEF Commit
  <2>3. rows' \subseteq [table : Tables, by : Inserts]
    BY <1>8, <1>d DEF Commit, TypeOK
  <2> QED
    BY <1>8, <2>1, <2>2, <2>3 DEF Commit, TypeOK
<1>9. ASSUME NEW c \in Inserts, StatementFails(c) PROVE TypeOK'
  <2>1. Control
    BY <1>9, <1>a, CallFacts DEF StatementFails, Holding
  <2>2. TxTyped
    BY <1>9, <1>c DEF StatementFails
  <2> QED
    BY <1>9, <2>1, <2>2 DEF StatementFails, TypeOK
<1>10. ASSUME NEW c \in Inserts, Rollback(c) PROVE TypeOK'
  <2>1. Control
    BY <1>10, <1>b, CallFacts DEF Rollback, IndInv, CallOK, Answered
  <2>2. TxTyped
    BY <1>10, <1>c DEF Rollback
  <2> QED
    BY <1>10, <2>1, <2>2 DEF Rollback, TypeOK
<1>11. ASSUME NEW c \in Inserts, ConnectionDies(c) PROVE TypeOK'
  <2>1. Control
    BY <1>11, <1>b, CallFacts DEF ConnectionDies, IndInv, CallOK, Answered
  <2>2. TxTyped
    <3>1. \E s \in State : tx' = [tx EXCEPT ![c].state = s]
      BY <1>11, <1>e DEF ConnectionDies
    <3> QED
      BY <1>c, <3>1
  <2> QED
    BY <1>11, <2>1, <2>2 DEF ConnectionDies, TypeOK
<1>12. ASSUME NEW c \in Inserts, OrphanEnds(c) PROVE TypeOK'
  <2>1. TxTyped
    BY <1>12, <1>c DEF OrphanEnds
  <2>2. rows' \subseteq [table : Tables, by : Inserts]
    BY <1>12, <1>d DEF OrphanEnds, TypeOK
  <2> QED
    BY <1>12, <2>1, <2>2 DEF OrphanEnds, TypeOK
<1>13. ASSUME NEW k \in Cutovers, Cutover(k) \/ VerifyTrue(k) \/ VerifyFalse(k) PROVE TypeOK'
  <2>1. Control /\ pool' \in {"none", "open", "ended"}
    BY <1>13, <1>1, <1>b DEF Cutover, VerifyTrue, VerifyFalse, TypeOK, Calls
  <2> QED
    BY <1>13, <2>1 DEF Cutover, VerifyTrue, VerifyFalse, TypeOK
<1>14. CASE RollbackWriter \/ Close
  BY <1>14 DEF RollbackWriter, Close, TypeOK
<1>15. ASSUME NEW c \in Inserts, Advance(c) PROVE TypeOK'
  BY <1>15, <1>4, <1>5, <1>6, <1>7, <1>8, <1>9, <1>10, <1>11
  DEF Advance, InsertCustomer, InsertAudit, InsertOutbox, Tables, Holding, Statements
<1> QED
  BY <1>0, <1>2, <1>3, <1>12, <1>13, <1>14, <1>15 DEF Next

-----------------------------------------------------------------------------

\* Rows are told apart by table and call, and an index compares both ways.
LEMMA RowFacts ==
    /\ \A t, c : Row(t, c).table = t /\ Row(t, c).by = c
    /\ \A c : RowsOf(c) = {Row(t, c) : t \in tx[c].rows}
    /\ \A t, c, d : SameIn(t, c, d) => SameIn(t, d, c)
    /\ \A c, d : c # d => /\ SameIn("customer_records", c, d) <=> RecordOf[c] = RecordOf[d]
                          /\ SameIn("transactional_outbox", c, d) <=> Fingerprint(c) = Fingerprint(d)
  BY DEF Row, RowsOf, SameIn

\* What is committed was written by a call of insert(), into one of the tables.
LEMMA CommittedFacts ==
    ASSUME TypeOK, NEW r \in rows
    PROVE  r.by \in Inserts /\ r.table \in Tables /\ r = Row(r.table, r.by) /\ Recorded(r.by)
  BY DEF TypeOK, Row, Recorded

\* A step leaves call d, what it wrote and its answer alone.
Leaves(d) ==
    /\ pc'[d] = pc[d] /\ answer'[d] = answer[d] /\ tx'[d] = tx[d]
    /\ d \in legacyRows' <=> d \in legacyRows
    /\ rows \subseteq rows' /\ \A r \in rows' : r \in rows \/ r.by # d
    /\ verified => verified'

\* A step that leaves a call alone keeps that call's part of the invariant.
LEMMA LeftAlone ==
    ASSUME TypeOK, IndInv, NEW d \in Inserts, Leaves(d)
    PROVE  CallOK(d)' /\ \A t : Wrote(t, d)' <=> Wrote(t, d)
<1>1. \A t : Row(t, d) \in rows' <=> Row(t, d) \in rows
  BY RowFacts DEF Leaves
<1>2. Recorded(d)' <=> Recorded(d)
  BY DEF Leaves, Recorded
<1>3. CallOK(d)
  BY DEF IndInv
<1>4. Transaction(d)' /\ Legacy(d)'
  BY <1>3 DEF CallOK, Transaction, Legacy, Leaves
<1>5. Whole(d)'
  <2>1. \A t \in Tables : Row(t, d)' = Row(t, d)
    BY DEF Row
  <2> QED
    BY <1>1, <1>2, <1>3, <2>1 DEF CallOK, Whole, Leaves
<1>6. Answered(d)'
  <2>1. ASSUME NEW e PROVE Fingerprint(e)' = Fingerprint(e)
    BY DEF Fingerprint
  <2> QED
    BY <1>2, <1>3, <2>1 DEF CallOK, Answered, Leaves
<1>7. Gated(d)'
  BY <1>2, <1>3 DEF CallOK, Gated, Leaves
<1>8. \A t : Wrote(t, d)' <=> Wrote(t, d)
  <2>1. \A t : Row(t, d)' = Row(t, d)
    BY DEF Row
  <2> QED
    BY <1>1, <2>1 DEF Wrote, Leaves
<1> QED
  BY <1>4, <1>5, <1>6, <1>7, <1>8 DEF CallOK

\* A step of call c leaves the others alone.
Touches(c) ==
    /\ \A d \in Inserts \ {c} : /\ pc'[d] = pc[d] /\ answer'[d] = answer[d] /\ tx'[d] = tx[d]
                                /\ d \in legacyRows' <=> d \in legacyRows
    /\ rows \subseteq rows' /\ \A r \in rows' : r \in rows \/ r.by = c
    /\ verified => verified'

\* A step of one call leaves every other call alone.
LEMMA OthersKeep ==
    ASSUME TypeOK, IndInv, NEW c, Touches(c), NEW d \in Inserts \ {c}
    PROVE  CallOK(d)' /\ \A t : Wrote(t, d)' <=> Wrote(t, d)
<1>1. Leaves(d)
  BY DEF Touches, Leaves
<1> QED
  BY <1>1, LeftAlone

\* What is left to show of a step of one call: its own part of the invariant, and
\* that a row it wrote equals nobody else's.
LEMMA CallStep ==
    ASSUME TypeOK, IndInv, NEW c \in Inserts, Touches(c),
           CallOK(c)', activeWriter' = activeWriter,
           \A t \in Tables : Wrote(t, c)' =>
             Wrote(t, c) \/ \A d \in Inserts : Wrote(t, d) => ~SameIn(t, c, d)
    PROVE  IndInv'
<1>1. \A d \in Inserts : CallOK(d)'
  BY OthersKeep
<1>2. OneWriter'
  <2>1. ASSUME NEW d \in Inserts, d # c, NEW t \in Tables, Wrote(t, c)', Wrote(t, d)'
        PROVE  ~SameIn(t, c, d) /\ ~SameIn(t, d, c)
    BY <2>1, OthersKeep, RowFacts DEF IndInv, OneWriter
  <2>2. ASSUME NEW d \in Inserts, NEW e \in Inserts, NEW t \in Tables, Wrote(t, d)', Wrote(t, e)',
               d # c, e # c
        PROVE  ~SameIn(t, d, e)
    BY <2>2, OthersKeep DEF IndInv, OneWriter
  <2>3. ASSUME NEW t \in Tables PROVE ~SameIn(t, c, c)
    BY DEF SameIn
  <2>4. \A t, d, e : SameIn(t, d, e)' <=> SameIn(t, d, e)
    BY DEF SameIn, Fingerprint
  <2> QED
    BY <2>1, <2>2, <2>3, <2>4 DEF OneWriter
<1>3. activeWriter' = "application" => verified'
  BY DEF IndInv, Touches
<1> QED
  BY <1>1, <1>2, <1>3 DEF IndInv

\* A step of a call of cutover(), of rollback() or of close().
LEMMA SwitchStep ==
    ASSUME TypeOK, IndInv, UNCHANGED <<rows, tx, legacyRows>>, verified => verified',
           \A d \in Inserts : pc'[d] = pc[d] /\ answer'[d] = answer[d],
           activeWriter' = "application" => verified'
    PROVE  IndInv'
<1>1. ASSUME NEW d \in Inserts PROVE CallOK(d)' /\ \A t : Wrote(t, d)' <=> Wrote(t, d)
  <2>1. Leaves(d)
    BY DEF Leaves
  <2> QED
    BY <2>1, LeftAlone
<1>2. \A t, d, e : SameIn(t, d, e)' <=> SameIn(t, d, e)
  BY DEF SameIn, Fingerprint
<1>3. OneWriter'
  BY <1>1, <1>2 DEF IndInv, OneWriter
<1> QED
  BY <1>1, <1>3 DEF IndInv

-----------------------------------------------------------------------------

\* Steps of insert() before and beside its transaction: no row is written.
LEMMA RoutingKeeps ==
    ASSUME TypeOK, IndInv, NEW c \in Inserts,
           \/ InsertLegacy(c) \/ InsertApplication(c) \/ LegacyResolves(c) \/ LegacyRejects(c)
           \/ Connect(c) \/ ConnectFails(c)
    PROVE  IndInv'
<1> USE CallFacts
<1>1. /\ UNCHANGED <<rows, tx, verified, activeWriter>>
      /\ \A d \in Inserts \ {c} : /\ pc'[d] = pc[d] /\ answer'[d] = answer[d]
                                  /\ d \in legacyRows' <=> d \in legacyRows
      /\ pc[c] \in {"idle", "legacy", "connect"}
  BY DEF TypeOK, InsertLegacy, InsertApplication, AskForClient, LegacyResolves, LegacyRejects,
         Connect, ConnectFails, Finish, Move
<1>2. /\ pc'[c] \in {"legacy", "connect", "begin", "done"}
      /\ pc'[c] \in {"connect", "begin"} =>
           activeWriter = "application" \/ pc[c] = "connect"
      /\ pc'[c] # "done" => answer'[c] = answer[c] /\ legacyRows' = legacyRows
      /\ pc'[c] = "done" => \/ answer'[c] = "ok" /\ c \in legacyRows'
                            \/ answer'[c] = "error"
  BY DEF TypeOK, InsertLegacy, InsertApplication, AskForClient, LegacyResolves, LegacyRejects,
         Connect, ConnectFails, Finish, Move
<1>3. CallOK(c) /\ tx[c].state = "none" /\ ~Recorded(c) /\ c \notin legacyRows /\ answer[c] = "none"
  BY <1>1 DEF IndInv, CallOK, Transaction, Whole, Legacy, Answered
<1>4. Recorded(c)' <=> Recorded(c)
  BY <1>1 DEF Recorded
<1>5. Touches(c)
  BY <1>1 DEF Touches
<1>6. Transaction(c)' /\ Legacy(c)' /\ Whole(c)' /\ Answered(c)'
  BY <1>1, <1>2, <1>3, <1>4 DEF Transaction, Legacy, Whole, Answered
<1>7. Gated(c)'
  <2>1. pc[c] \in Holding \cup {"connect"} => verified
    BY <1>3 DEF CallOK, Gated
  <2> QED
    BY <1>1, <1>2, <1>3, <1>4, <2>1 DEF Gated, Holding, Statements, IndInv
<1>8. \A t : Wrote(t, c)' => Wrote(t, c)
  BY <1>1 DEF Wrote, Row
<1> QED
  BY <1>1, <1>5, <1>6, <1>7, <1>8, CallStep DEF CallOK

\* Steps inside the transaction that add no row: its begin, its context, a failure.
LEMMA StatementKeeps ==
    ASSUME TypeOK, IndInv, NEW c \in Inserts,
           Begin(c) \/ TenantContext(c) \/ StatementFails(c)
    PROVE  IndInv'
<1> USE CallFacts
<1>1. /\ UNCHANGED <<rows, legacyRows, verified, activeWriter>>
      /\ \A d \in Inserts \ {c} : pc'[d] = pc[d] /\ answer'[d] = answer[d] /\ tx'[d] = tx[d]
      /\ pc[c] \in Statements
      /\ \/ pc'[c] \in {"context", "customer"} /\ answer'[c] = answer[c]
         \/ pc'[c] = "rollback" /\ answer'[c] = "error"
  BY DEF TypeOK, Begin, TenantContext, StatementFails, Move, Statements
<1>2. /\ tx'[c].rows \subseteq tx[c].rows
      /\ tx'[c].state = tx[c].state \/ tx'[c].state = "open"
  BY DEF TypeOK, Begin, TenantContext, StatementFails
<1>3. /\ CallOK(c) /\ ~Recorded(c) /\ c \notin legacyRows /\ answer[c] = "none"
      /\ tx[c].state \notin {"orphan", "committing"} /\ verified
  BY <1>1 DEF IndInv, CallOK, Transaction, Whole, Legacy, Answered, Gated, Statements, Holding
<1>4. Recorded(c)' <=> Recorded(c)
  BY <1>1 DEF Recorded
<1>5. Touches(c)
  BY <1>1 DEF Touches
<1>6. CallOK(c)'
  <2>1. Transaction(c)'
    BY <1>1, <1>2, <1>3 DEF Transaction
  <2> QED
    BY <1>1, <1>3, <1>4, <2>1 DEF CallOK, Legacy, Whole, Answered, Gated
<1>7. \A t : Wrote(t, c)' => Wrote(t, c)
  BY <1>1, <1>2 DEF Wrote, Row
<1> QED
  BY <1>1, <1>5, <1>6, <1>7, CallStep

\* One INSERT: the index lets a row in only when no other call has an equal one.
LEMMA InsertKeeps ==
    ASSUME TypeOK, IndInv, NEW c \in Inserts,
           InsertCustomer(c) \/ InsertAudit(c) \/ InsertOutbox(c)
    PROVE  IndInv'
<1> USE CallFacts
<1> PICK p \in {"customer", "audit", "outbox"}, t \in Tables, n \in {"audit", "outbox", "commit"},
         e \in {"conflict", "error"} :
         /\ InsertRow(c, p, t, n, e)
         /\ p = "customer" => t = "customer_records" /\ n = "audit" /\ e = "error"
         /\ p = "audit" => t = "audit_log" /\ n = "outbox" /\ e = "error"
         /\ p = "outbox" => t = "transactional_outbox" /\ n = "commit" /\ e = "conflict"
  BY DEF InsertCustomer, InsertAudit, InsertOutbox, Tables
<1>1. /\ UNCHANGED <<rows, legacyRows, verified, activeWriter>>
      /\ \A d \in Inserts \ {c} : pc'[d] = pc[d] /\ answer'[d] = answer[d] /\ tx'[d] = tx[d]
      /\ pc[c] = p /\ tx'[c].state = tx[c].state
  BY DEF TypeOK, InsertRow, Move
<1>2. \/ /\ Duplicate(t, c) /\ pc'[c] = "rollback" /\ answer'[c] = e /\ tx'[c].rows = {}
      \/ /\ ~Duplicate(t, c) /\ ~MustWait(t, c) /\ pc'[c] = n /\ answer'[c] = answer[c]
         /\ tx'[c].rows = tx[c].rows \cup {t}
  BY DEF TypeOK, InsertRow, Move
<1>3. /\ CallOK(c) /\ ~Recorded(c) /\ c \notin legacyRows /\ answer[c] = "none"
      /\ tx[c].state # "committing" /\ verified
  BY <1>1 DEF IndInv, CallOK, Transaction, Whole, Legacy, Answered, Gated, Statements, Holding
<1>4. Recorded(c)' <=> Recorded(c)
  BY <1>1 DEF Recorded
<1>5. Touches(c)
  BY <1>1 DEF Touches
<1>6. ASSUME e = "conflict", Duplicate(t, c)
      PROVE  \E r \in rows : /\ r.table = "transactional_outbox"
                             /\ Fingerprint(r.by) = Fingerprint(c)
                             /\ RecordOf[r.by] # RecordOf[c]
  <2>1. p = "outbox" /\ t = "transactional_outbox"
    BY <1>6
  <2>2. PICK r \in rows : r.table = t /\ SameIn(t, c, r.by)
    BY <1>6 DEF Duplicate
  <2>3. r.by \in Inserts /\ r.by # c /\ Recorded(r.by)
    BY <2>2, CommittedFacts DEF SameIn
  <2>4. Fingerprint(r.by) = Fingerprint(c)
    BY <2>1, <2>2, <2>3, RowFacts
  <2>5. Wrote("customer_records", c)
    BY <1>1, <1>3, <2>1 DEF CallOK, Transaction, Wrote
  <2>6. Wrote("customer_records", r.by)
    BY <2>3 DEF IndInv, CallOK, Whole, Wrote, Tables
  <2>7. RecordOf[r.by] # RecordOf[c]
    BY <2>3, <2>5, <2>6, RowFacts DEF IndInv, OneWriter, Tables
  <2> QED
    BY <2>1, <2>2, <2>4, <2>7
<1>7. Transaction(c)'
  BY <1>1, <1>2, <1>3 DEF CallOK, Transaction
<1>8. Legacy(c)' /\ Whole(c)' /\ Gated(c)'
  BY <1>1, <1>3, <1>4 DEF Legacy, Whole, Gated
<1>9. Answered(c)'
  <2>1. \A d : Fingerprint(d)' = Fingerprint(d)
    BY DEF Fingerprint
  <2> QED
    BY <1>1, <1>2, <1>3, <1>6, <2>1 DEF Answered
<1>10. ASSUME NEW u \in Tables, Wrote(u, c)', ~Wrote(u, c), NEW d \in Inserts, Wrote(u, d)
       PROVE  ~SameIn(u, c, d)
  <2>1. u = t /\ ~Duplicate(t, c) /\ ~MustWait(t, c)
    BY <1>1, <1>2, <1>10 DEF Wrote, Row
  <2>2. CASE u \in tx[d].rows
    BY <2>1, <2>2 DEF MustWait
  <2>3. CASE Row(u, d) \in rows
    BY <2>1, <2>3, RowFacts DEF Duplicate
  <2> QED
    BY <1>10, <2>2, <2>3 DEF Wrote
<1> QED
  BY <1>1, <1>5, <1>7, <1>8, <1>9, <1>10, CallStep DEF CallOK

\* The transaction of a call ends without its rows, or the call loses it.
LEMMA RollbackKeeps ==
    ASSUME TypeOK, IndInv, NEW c \in Inserts, Rollback(c) \/ ConnectionDies(c)
    PROVE  IndInv'
<1> USE CallFacts
<1>1. /\ UNCHANGED <<rows, legacyRows, verified, activeWriter>>
      /\ \A d \in Inserts \ {c} : pc'[d] = pc[d] /\ answer'[d] = answer[d] /\ tx'[d] = tx[d]
      /\ pc[c] \in Statements \cup {"rollback"} /\ pc'[c] = "done"
      /\ answer'[c] = IF pc[c] = "rollback" THEN answer[c] ELSE "error"
  BY DEF TypeOK, Rollback, ConnectionDies, Finish, Move
<1>2. /\ tx'[c].rows \subseteq tx[c].rows
      /\ tx'[c].state = "committing" =>
           tx'[c].rows = tx[c].rows /\ (pc[c] = "commit" \/ tx[c].state = "committing")
      /\ tx'[c].state # "none" => tx[c].state # "none" \/ pc[c] \in Statements
  BY DEF TypeOK, Rollback, ConnectionDies, NoTx, Statements
<1>3. /\ CallOK(c) /\ ~Recorded(c) /\ c \notin legacyRows
      /\ answer'[c] \in {"conflict", "error"}
      /\ answer'[c] = "conflict" => answer[c] = "conflict"
      /\ tx[c].state # "committing" /\ verified
  BY <1>1 DEF IndInv, CallOK, Transaction, Whole, Legacy, Answered, Gated, Statements, Holding
<1>4. Recorded(c)' <=> Recorded(c)
  BY <1>1 DEF Recorded
<1>5. Touches(c)
  BY <1>1 DEF Touches
<1>6. Transaction(c)'
  BY <1>1, <1>2, <1>3 DEF CallOK, Transaction
<1>7. Legacy(c)' /\ Whole(c)' /\ Gated(c)'
  BY <1>1, <1>3, <1>4 DEF Legacy, Whole, Gated
<1>8. Answered(c)'
  <2>1. \A d : Fingerprint(d)' = Fingerprint(d)
    BY DEF Fingerprint
  <2> QED
    BY <1>1, <1>3, <2>1 DEF CallOK, Answered
<1>9. \A t : Wrote(t, c)' => Wrote(t, c)
  BY <1>1, <1>2 DEF Wrote, Row
<1> QED
  BY <1>1, <1>5, <1>6, <1>7, <1>8, <1>9, CallStep DEF CallOK

\* The rows of a complete transaction reach the database, all at once.
LEMMA LandingKeeps ==
    ASSUME TypeOK, IndInv, NEW c \in Inserts,
           pc[c] = "commit" \/ tx[c].state = "committing",
           rows' = rows \cup RowsOf(c), tx' = [tx EXCEPT ![c] = NoTx],
           UNCHANGED <<legacyRows, verified, activeWriter>>,
           \A d \in Inserts \ {c} : pc'[d] = pc[d] /\ answer'[d] = answer[d],
           pc'[c] = "done" /\ answer'[c] \in {"ok", "error"}
    PROVE  IndInv'
<1> USE CallFacts
<1>1. CallOK(c) /\ c \notin legacyRows /\ verified
  BY DEF IndInv, CallOK, Transaction, Legacy, Gated, Holding, Statements
<1>2. tx[c].rows = Tables
  <2>1. Tables \subseteq tx[c].rows
    BY <1>1 DEF CallOK, Transaction, Tables
  <2> QED
    BY <2>1
<1>3. tx'[c].state = "none" /\ tx'[c].rows = {}
  BY DEF TypeOK, NoTx
<1>4. \A t \in Tables : Row(t, c) \in rows'
  BY <1>2, RowFacts
<1>5. Recorded(c)'
  <2>1. "audit_log" \in Tables /\ Row("audit_log", c).by = c
    BY RowFacts DEF Tables
  <2> QED
    BY <1>4, <2>1 DEF Recorded
<1>6. Touches(c)
  <2>1. \A d \in Inserts \ {c} : tx'[d] = tx[d]
    BY DEF TypeOK
  <2>2. rows \subseteq rows' /\ \A r \in rows' : r \in rows \/ r.by = c
    BY RowFacts
  <2> QED
    BY <2>1, <2>2 DEF Touches
<1>7. CallOK(c)'
  <2>1. \A t : Row(t, c)' = Row(t, c)
    BY DEF Row
  <2>2. Transaction(c)' /\ Legacy(c)' /\ Answered(c)' /\ Gated(c)'
    BY <1>1, <1>3, <1>5 DEF Transaction, Legacy, Answered, Gated
  <2>3. Whole(c)'
    BY <1>1, <1>3, <1>4, <2>1 DEF Whole
  <2> QED
    BY <2>2, <2>3 DEF CallOK
<1>8. \A t \in Tables : Wrote(t, c)' => Wrote(t, c)
  BY <1>2 DEF Wrote
<1> QED
  BY <1>6, <1>7, <1>8, CallStep

\* COMMIT is answered.
LEMMA CommitKeeps == ASSUME TypeOK, IndInv, NEW c \in Inserts, Commit(c) PROVE IndInv'
<1>1. /\ UNCHANGED <<legacyRows, verified, activeWriter>>
      /\ \A d \in Inserts \ {c} : pc'[d] = pc[d] /\ answer'[d] = answer[d]
      /\ pc[c] = "commit" /\ pc'[c] = "done" /\ answer'[c] = "ok"
      /\ rows' = rows \cup RowsOf(c) /\ tx' = [tx EXCEPT ![c] = NoTx]
  BY CallFacts DEF TypeOK, Commit, Finish, Move
<1> QED
  BY <1>1, LandingKeeps

\* The server ends the transaction of a dead connection, whole either way.
LEMMA OrphanKeeps == ASSUME TypeOK, IndInv, NEW c \in Inserts, OrphanEnds(c) PROVE IndInv'
<1>1. CASE rows' = rows
  <2>1. /\ UNCHANGED <<rows, pc, answer, legacyRows, verified, activeWriter>>
        /\ \A d \in Inserts \ {c} : tx'[d] = tx[d]
        /\ tx'[c].state = "none" /\ tx'[c].rows = {}
    BY <1>1 DEF OrphanEnds, TypeOK, NoTx
  <2>2. CallOK(c) /\ pc[c] = "done"
    BY DEF IndInv, CallOK, Transaction, OrphanEnds
  <2>3. Touches(c)
    BY <2>1 DEF Touches
  <2>4. Recorded(c)' <=> Recorded(c)
    BY <2>1 DEF Recorded
  <2>5. Transaction(c)' /\ Legacy(c)' /\ Whole(c)' /\ Gated(c)'
    BY <2>1, <2>2, <2>4 DEF CallOK, Transaction, Legacy, Whole, Gated, Row
  <2>6. Answered(c)'
    <3>1. \A d : Fingerprint(d)' = Fingerprint(d)
      BY DEF Fingerprint
    <3> QED
      BY <2>1, <2>2, <2>4, <3>1 DEF CallOK, Answered
  <2>7. \A t : Wrote(t, c)' => Wrote(t, c)
    BY <2>1 DEF Wrote, Row
  <2> QED
    BY <2>1, <2>3, <2>5, <2>6, <2>7, CallStep DEF CallOK
<1>2. CASE rows' # rows
  <2>1. tx[c].state = "committing" /\ rows' = rows \cup RowsOf(c)
    BY <1>2 DEF OrphanEnds
  <2>2. pc[c] = "done" /\ answer[c] = "error"
    BY <2>1 DEF IndInv, CallOK, Transaction
  <2> QED
    BY <2>1, <2>2, LandingKeeps DEF OrphanEnds
<1> QED
  BY <1>1, <1>2

\* cutover(), its verification, rollback() and close().
LEMMA SwitchKeeps ==
    ASSUME TypeOK, IndInv,
           \/ \E k \in Cutovers : \/ Cutover(k) \/ VerifyTrue(k) \/ VerifyFalse(k)
                                  \/ Connect(k) \/ ConnectFails(k)
           \/ RollbackWriter \/ Close
    PROVE  IndInv'
<1>1. ASSUME NEW k \in Cutovers, \/ Cutover(k) \/ VerifyTrue(k) \/ VerifyFalse(k)
                                 \/ Connect(k) \/ ConnectFails(k)
      PROVE  IndInv'
  <2>1. k \in Calls /\ k \notin Inserts /\ Inserts \subseteq Calls
    BY CallsAssumption DEF CallsAssumption, Calls
  <2>2. /\ UNCHANGED <<rows, tx, legacyRows>> /\ (verified => verified')
        /\ \A d \in Inserts : pc'[d] = pc[d] /\ answer'[d] = answer[d]
    BY <1>1, <2>1 DEF TypeOK, Cutover, AskForClient, VerifyTrue, VerifyFalse, Connect, ConnectFails,
                      Finish, Move
  <2>3. (activeWriter' = activeWriter /\ verified' = verified) \/ verified'
    BY <1>1 DEF Cutover, AskForClient, VerifyTrue, VerifyFalse, Connect, ConnectFails
  <2> QED
    BY <2>2, <2>3, SwitchStep DEF IndInv
<1>2. CASE RollbackWriter \/ Close
  BY <1>2, SwitchStep DEF RollbackWriter, Close, IndInv
<1> QED
  BY <1>1, <1>2

\* At first no call has begun, and neither store holds a row.
LEMMA InitHolds == ASSUME Init PROVE TypeOK /\ IndInv
<1> USE CallFacts DEF Init, NoTx
<1>1. TypeOK
  BY DEF TypeOK, Holding, Statements
<1>2. ASSUME NEW c \in Inserts PROVE CallOK(c) /\ \A t : ~Wrote(t, c)
  <2>1. c \in Calls
    BY DEF Calls
  <2> QED
    BY <2>1 DEF CallOK, Transaction, Whole, Legacy, Answered, Gated, Recorded, Wrote,
                Holding, Statements
<1> QED
  BY <1>1, <1>2 DEF IndInv, OneWriter

\* Every step keeps the inductive invariant.
LEMMA StepKeeps == ASSUME TypeOK, IndInv, [Next]_vars PROVE TypeOK' /\ IndInv'
<1>1. TypeOK'
  BY TypeStep
<1>2. ASSUME NEW c \in Inserts, Advance(c) PROVE IndInv'
  BY <1>2, RoutingKeeps, StatementKeeps, InsertKeeps, RollbackKeeps, CommitKeeps DEF Advance
<1>3. ASSUME UNCHANGED vars PROVE IndInv'
  BY <1>3, SwitchStep DEF vars, IndInv
<1>4. ASSUME NEW c \in Calls, Connect(c) \/ ConnectFails(c) PROVE IndInv'
  BY <1>4, RoutingKeeps, SwitchKeeps DEF Calls
<1> QED
  BY <1>1, <1>2, <1>3, <1>4, RoutingKeeps, OrphanKeeps, SwitchKeeps DEF Next

\* The inductive invariant holds in every reachable state.
THEOREM Invariance == Spec => [](TypeOK /\ IndInv)
<1>1. Init => TypeOK /\ IndInv
  BY InitHolds
<1>2. (TypeOK /\ IndInv) /\ [Next]_vars => (TypeOK /\ IndInv)'
  BY StepKeeps
<1> QED
  BY <1>1, <1>2, PTL DEF Spec

\* Every variable of the controller keeps its type.
THEOREM TypeCorrect == Spec => []TypeOK
  BY Invariance, PTL

\* The rows of an insert are committed together or not at all, and no call leaves
\* its record with both writers.
THEOREM Atomicity == Spec => []AllOrNothing
<1>1. IndInv => AllOrNothing
  BY DEF IndInv, CallOK, Whole, Row, AllOrNothing
<1> QED
  BY <1>1, Invariance, PTL

\* insert() resolves only for a record that a writer holds, and a conflict means that
\* another record has the fingerprint and that the call left nothing behind.
THEOREM AnswersTrue == Spec => []AnswerTellsRecord
<1>1. IndInv => AnswerTellsRecord
  BY DEF IndInv, CallOK, Whole, Legacy, Answered, AnswerTellsRecord
<1> QED
  BY <1>1, Invariance, PTL

\* However calls race, a record and a fingerprint are recorded once.
THEOREM NoDuplicates == Spec => []RecordedOnce
<1>1. ASSUME TypeOK, IndInv PROVE RecordedOnce
  <2>1. ASSUME NEW r \in rows, NEW s \in rows, r.table = s.table
        PROVE  ~SameIn(r.table, r.by, s.by)
    <3>1. r.by \in Inserts /\ s.by \in Inserts /\ r.table \in Tables
      BY <1>1, CommittedFacts
    <3>2. Wrote(r.table, r.by) /\ Wrote(r.table, s.by)
      BY <1>1, <2>1, CommittedFacts DEF Wrote
    <3> QED
      BY <1>1, <3>1, <3>2 DEF IndInv, OneWriter
  <2> QED
    BY <2>1 DEF RecordedOnce
<1> QED
  BY <1>1, Invariance, PTL

\* The application writer is used only after verifyCompatibility returned true.
THEOREM GateHolds == Spec => []GateKept
<1>1. IndInv => GateKept
  BY DEF IndInv, CallOK, Gated, GateKept
<1> QED
  BY <1>1, Invariance, PTL

=============================================================================
