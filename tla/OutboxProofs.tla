---------------------------- MODULE OutboxProofs ----------------------------
(***************************************************************************)
(* Machine-checked safety of the Outbox module, for every set of rows,     *)
(* relays and tenants and every limit, lease and bound.                    *)
(*                                                                         *)
(* The properties are not inductive by themselves.  IndInv adds what the   *)
(* code keeps true between two statements: the shape of a pass, what a row *)
(* lock protects, where tokens can be, how a relay's lease is tied to the  *)
(* row it was stamped on, and which counted attempts are still unused.     *)
(***************************************************************************)
EXTENDS Outbox, FiniteSetTheorems, TLAPS

\* The local state of a pass at each of its locations.
PassShape ==
    \A w \in Relay :
        /\ txNow[w] <= now
        /\ pc[w] \in {"idle", "begun"} =>
             /\ rows[w] = {} /\ published[w] = {} /\ failed[w] = {}
             /\ \A r \in Row : token[w][r] = Null
        /\ pc[w] # "idle" => txNow[w] # Null
        /\ pc[w] \in {"idle", "begun", "deliver", "publish", "release"} => locked[w] = {}
        /\ pc[w] = "claimed" =>
             /\ locked[w] = rows[w] /\ published[w] = {} /\ failed[w] = {}
             /\ leaseEnd[w] # Null
        /\ pc[w] \in {"publishing", "releasing"} => locked[w] \subseteq {cur[w]}
        /\ pc[w] \in {"publish", "release", "releasing"} =>
             cur[w] \notin published[w] /\ cur[w] \notin failed[w]
        /\ pc[w] = "publishing" => (cur[w] \in published[w] <=> cur[w] \in locked[w])

\* A row of a batch is in one place, and its token is known there.
BatchSplit ==
    \A w \in Relay, r \in Row :
        /\ r \in rows[w] => r \notin published[w] /\ r \notin failed[w] /\ r # cur[w]
        /\ r \in published[w] => r \notin failed[w]
        /\ r \in rows[w] \/ r \in published[w] \/ r \in failed[w] \/ r = cur[w]
             => token[w][r] # Null

\* Tokens come from the mint, and no two passes know the same one.
Tokens ==
    /\ \A r \in Row : claimToken[r] <= minted[r]
    /\ \A w \in Relay, r \in Row : token[w][r] <= minted[r]
    /\ TokenIdentifiesClaim

\* What a lock says about the row until its transaction ends.
Locks ==
    /\ \A w, v \in Relay, r \in Row : r \in locked[w] /\ r \in locked[v] => w = v
    /\ \A w \in Relay : \A r \in locked[w] :
         /\ ~IsPublished(r) /\ Enqueued(r) /\ availableAt[r] <= txNow[w]
         /\ pc[w] = "claimed" => (IsClaimed(r) => claimExpiresAt[r] <= txNow[w])
         /\ pc[w] \in {"publishing", "releasing"} =>
              IsClaimed(r) /\ claimToken[r] = token[w][r]
                /\ claimedAt[r] <= txNow[w]

\* A relay publishes what it has itself delivered.
Deliveries ==
    /\ \A w \in Relay : pc[w] \in {"publish", "publishing"} =>
         <<cur[w], token[w][cur[w]]>> \in delivered
    /\ PublishedWasDelivered

Mine(w, r) == IsPublished(r) /\ claimToken[r] = token[w][r]

\* The published list is exactly what is published under the pass's tokens.
Results ==
    \A w \in Relay, r \in Row :
        /\ r \in published[w] /\ r # cur[w] => Mine(w, r)
        /\ Mine(w, r) => r \in published[w]

\* A result once returned leaves no pass that could return the row again.
Acks ==
    \A r \in Row :
        /\ acked[r] <= 1
        /\ acked[r] # 0 => IsPublished(r) /\ \A w \in Relay : ~Mine(w, r)

\* A relay whose lease still runs is the row's claimant, under that lease.
Leases ==
    /\ \A r \in Row : claimedAt[r] <= now
    /\ \A w \in Relay, r \in Row :
         r = cur[w] /\ claimToken[r] = token[w][r] => claimedAt[r] <= txNow[w]
    /\ \A w \in Relay, r \in Row :
         Carries(w, r) /\ pc[w] # "claimed" /\ now < leaseEnd[w] =>
             /\ IsClaimed(r) /\ claimToken[r] = token[w][r]
             /\ claimExpiresAt[r] = leaseEnd[w]

\* The relays that hold the row under a committed claim and have not offered it yet.
Pending(r) == {w \in Relay : pc[w] # "claimed" /\ r \in rows[w]}

\* Every counted attempt allows one offer, made or still to be made.
Offered ==
    \A r \in Row :
        /\ IsFiniteSet(Pending(r))
        /\ offers[r] + Cardinality(Pending(r)) <= attempts[r]

IndInv ==
    /\ Offered
    /\ PassShape /\ BatchSplit /\ Tokens /\ Locks /\ Deliveries
    /\ Results /\ Acks /\ Leases /\ ClaimCoherent /\ TenantIsolation

-----------------------------------------------------------------------------
(* One lemma per conjunct: every action of Next preserves it.              *)

\* A statement of the relay writes values of the right type only; the row being
\* settled is a row exactly while its transaction is open.
LEMMA TypeStep ==
    ASSUME TypeOK, Next
    PROVE  TypeOK'
<1> USE OutboxAssumption DEF OutboxAssumption, TypeOK, table, outbox, pass, hist, Null,
      Location, Settling, Set
<1>1. CASE Tick
  BY <1>1 DEF Tick
<1>2. ASSUME NEW r \in Row, NEW t \in 1..now, Enqueue(r, t) PROVE TypeOK'
  BY <1>2 DEF Enqueue
<1>3. ASSUME NEW w \in Relay, BeginPass(w) PROVE TypeOK'
  BY <1>3 DEF BeginPass
<1>4. ASSUME NEW w \in Relay, ClaimBatch(w) PROVE TypeOK'
  BY <1>4 DEF ClaimBatch, ClaimSet, Claimable
<1>5. ASSUME NEW w \in Relay, CommitClaim(w) PROVE TypeOK'
  BY <1>5 DEF CommitClaim, ClaimWrites
<1>6. ASSUME NEW w \in Relay, NEW r \in Row, DeliverTrue(w, r) PROVE TypeOK'
  BY <1>6 DEF DeliverTrue
<1>7. ASSUME NEW w \in Relay, NEW r \in Row, DeliverFalse(w, r) PROVE TypeOK'
  BY <1>7 DEF DeliverFalse
<1>8. ASSUME NEW w \in Relay, PublishClaim(w) PROVE TypeOK'
  BY <1>8 DEF PublishClaim, Fenced, Unlocked
<1>9. ASSUME NEW w \in Relay, PublishFencedOut(w) PROVE TypeOK'
  BY <1>9 DEF PublishFencedOut, Fenced
<1>10. ASSUME NEW w \in Relay, CommitPublish(w) PROVE TypeOK'
  BY <1>10 DEF CommitPublish, PublishWrites
<1>11. ASSUME NEW w \in Relay, ReleaseClaim(w) PROVE TypeOK'
  BY <1>11 DEF ReleaseClaim, Fenced, Unlocked
<1>12. ASSUME NEW w \in Relay, CommitRelease(w) PROVE TypeOK'
  BY <1>12 DEF CommitRelease, ReleaseWrites
<1>13. ASSUME NEW w \in Relay, ReturnResult(w) PROVE TypeOK'
  BY <1>13 DEF ReturnResult, EndPass
<1>14. ASSUME NEW w \in Relay, Abort(w) PROVE TypeOK'
  BY <1>14 DEF Abort, EndPass, Spend
<1>15. ASSUME NEW w \in Relay, LoseAnswer(w) PROVE TypeOK'
  <2>1. CASE pc[w] = "claimed" /\ ClaimWrites(w)
    BY <1>15, <2>1 DEF LoseAnswer, EndPass, Spend, ClaimWrites
  <2>2. CASE pc[w] = "publishing" /\ PublishWrites(w)
    BY <1>15, <2>2 DEF LoseAnswer, EndPass, Spend, PublishWrites
  <2>3. CASE pc[w] = "releasing" /\ ReleaseWrites(w)
    BY <1>15, <2>3 DEF LoseAnswer, EndPass, Spend, ReleaseWrites
  <2> QED
    BY <1>15, <2>1, <2>2, <2>3 DEF LoseAnswer
<1> QED
  BY <1>1, <1>2, <1>3, <1>4, <1>5, <1>6, <1>7, <1>8,
     <1>9, <1>10, <1>11, <1>12, <1>13, <1>14, <1>15
  DEF Next, Step

\* A pass goes through its locations in program order.
LEMMA PassShapeStep ==
    ASSUME TypeOK, IndInv, Next, TypeOK'
    PROVE  PassShape'
<1> USE OutboxAssumption DEF OutboxAssumption, TypeOK, table, outbox, pass, hist, Null,
      Location, Settling, Set, IndInv,
      PassShape, BatchSplit
<1>1. CASE Tick
  BY <1>1 DEF Tick
<1>2. ASSUME NEW r \in Row, NEW t \in 1..now, Enqueue(r, t) PROVE PassShape'
  BY <1>2 DEF Enqueue
<1>3. ASSUME NEW w \in Relay, BeginPass(w) PROVE PassShape'
  BY <1>3 DEF BeginPass
<1>4. ASSUME NEW w \in Relay, ClaimBatch(w) PROVE PassShape'
  BY <1>4 DEF ClaimBatch, ClaimSet, Claimable
<1>5. ASSUME NEW w \in Relay, CommitClaim(w) PROVE PassShape'
  BY <1>5 DEF CommitClaim, ClaimWrites
<1>6. ASSUME NEW w \in Relay, NEW r \in Row, DeliverTrue(w, r) PROVE PassShape'
  BY <1>6 DEF DeliverTrue
<1>7. ASSUME NEW w \in Relay, NEW r \in Row, DeliverFalse(w, r) PROVE PassShape'
  BY <1>7 DEF DeliverFalse
<1>8. ASSUME NEW w \in Relay, PublishClaim(w) PROVE PassShape'
  BY <1>8 DEF PublishClaim, Fenced, Unlocked
<1>9. ASSUME NEW w \in Relay, PublishFencedOut(w) PROVE PassShape'
  BY <1>9 DEF PublishFencedOut, Fenced
<1>10. ASSUME NEW w \in Relay, CommitPublish(w) PROVE PassShape'
  BY <1>10 DEF CommitPublish, PublishWrites
<1>11. ASSUME NEW w \in Relay, ReleaseClaim(w) PROVE PassShape'
  BY <1>11 DEF ReleaseClaim, Fenced, Unlocked
<1>12. ASSUME NEW w \in Relay, CommitRelease(w) PROVE PassShape'
  BY <1>12 DEF CommitRelease, ReleaseWrites
<1>13. ASSUME NEW w \in Relay, ReturnResult(w) PROVE PassShape'
  BY <1>13 DEF ReturnResult, EndPass
<1>14. ASSUME NEW w \in Relay, Abort(w) PROVE PassShape'
  BY <1>14 DEF Abort, EndPass, Spend
<1>15. ASSUME NEW w \in Relay, LoseAnswer(w) PROVE PassShape'
  <2>1. CASE pc[w] = "claimed" /\ ClaimWrites(w)
    BY <1>15, <2>1 DEF LoseAnswer, EndPass, Spend, ClaimWrites
  <2>2. CASE pc[w] = "publishing" /\ PublishWrites(w)
    BY <1>15, <2>2 DEF LoseAnswer, EndPass, Spend, PublishWrites
  <2>3. CASE pc[w] = "releasing" /\ ReleaseWrites(w)
    BY <1>15, <2>3 DEF LoseAnswer, EndPass, Spend, ReleaseWrites
  <2> QED
    BY <1>15, <2>1, <2>2, <2>3 DEF LoseAnswer
<1> QED
  BY <1>1, <1>2, <1>3, <1>4, <1>5, <1>6, <1>7, <1>8,
     <1>9, <1>10, <1>11, <1>12, <1>13, <1>14, <1>15
  DEF Next, Step

\* A row of a batch is waiting, being settled, published or failed, never two.
LEMMA BatchSplitStep ==
    ASSUME TypeOK, IndInv, Next, TypeOK'
    PROVE  BatchSplit'
<1> USE OutboxAssumption DEF OutboxAssumption, TypeOK, table, outbox, pass, hist, Null,
      Location, Settling, Set, IndInv,
      PassShape, BatchSplit
<1>1. CASE Tick
  BY <1>1 DEF Tick
<1>2. ASSUME NEW r \in Row, NEW t \in 1..now, Enqueue(r, t) PROVE BatchSplit'
  BY <1>2 DEF Enqueue
<1>3. ASSUME NEW w \in Relay, BeginPass(w) PROVE BatchSplit'
  BY <1>3 DEF BeginPass
<1>4. ASSUME NEW w \in Relay, ClaimBatch(w) PROVE BatchSplit'
  BY <1>4 DEF ClaimBatch, ClaimSet, Claimable
<1>5. ASSUME NEW w \in Relay, CommitClaim(w) PROVE BatchSplit'
  BY <1>5 DEF CommitClaim, ClaimWrites
<1>6. ASSUME NEW w \in Relay, NEW r \in Row, DeliverTrue(w, r) PROVE BatchSplit'
  BY <1>6 DEF DeliverTrue
<1>7. ASSUME NEW w \in Relay, NEW r \in Row, DeliverFalse(w, r) PROVE BatchSplit'
  BY <1>7 DEF DeliverFalse
<1>8. ASSUME NEW w \in Relay, PublishClaim(w) PROVE BatchSplit'
  BY <1>8 DEF PublishClaim, Fenced, Unlocked
<1>9. ASSUME NEW w \in Relay, PublishFencedOut(w) PROVE BatchSplit'
  BY <1>9 DEF PublishFencedOut, Fenced
<1>10. ASSUME NEW w \in Relay, CommitPublish(w) PROVE BatchSplit'
  BY <1>10 DEF CommitPublish, PublishWrites
<1>11. ASSUME NEW w \in Relay, ReleaseClaim(w) PROVE BatchSplit'
  BY <1>11 DEF ReleaseClaim, Fenced, Unlocked
<1>12. ASSUME NEW w \in Relay, CommitRelease(w) PROVE BatchSplit'
  BY <1>12 DEF CommitRelease, ReleaseWrites
<1>13. ASSUME NEW w \in Relay, ReturnResult(w) PROVE BatchSplit'
  BY <1>13 DEF ReturnResult, EndPass
<1>14. ASSUME NEW w \in Relay, Abort(w) PROVE BatchSplit'
  BY <1>14 DEF Abort, EndPass, Spend
<1>15. ASSUME NEW w \in Relay, LoseAnswer(w) PROVE BatchSplit'
  <2>1. CASE pc[w] = "claimed" /\ ClaimWrites(w)
    BY <1>15, <2>1 DEF LoseAnswer, EndPass, Spend, ClaimWrites
  <2>2. CASE pc[w] = "publishing" /\ PublishWrites(w)
    BY <1>15, <2>2 DEF LoseAnswer, EndPass, Spend, PublishWrites
  <2>3. CASE pc[w] = "releasing" /\ ReleaseWrites(w)
    BY <1>15, <2>3 DEF LoseAnswer, EndPass, Spend, ReleaseWrites
  <2> QED
    BY <1>15, <2>1, <2>2, <2>3 DEF LoseAnswer
<1> QED
  BY <1>1, <1>2, <1>3, <1>4, <1>5, <1>6, <1>7, <1>8,
     <1>9, <1>10, <1>11, <1>12, <1>13, <1>14, <1>15
  DEF Next, Step

\* Only the claim statement makes tokens, and it makes new ones.
LEMMA TokensStep ==
    ASSUME TypeOK, IndInv, Next, TypeOK'
    PROVE  Tokens'
<1> USE OutboxAssumption DEF OutboxAssumption, TypeOK, table, outbox, pass, hist, Null,
      Location, Settling, Set, IndInv,
      PassShape, Tokens, TokenIdentifiesClaim
<1>1. CASE Tick
  BY <1>1 DEF Tick
<1>2. ASSUME NEW r \in Row, NEW t \in 1..now, Enqueue(r, t) PROVE Tokens'
  BY <1>2 DEF Enqueue
<1>3. ASSUME NEW w \in Relay, BeginPass(w) PROVE Tokens'
  BY <1>3 DEF BeginPass
<1>4. ASSUME NEW w \in Relay, ClaimBatch(w) PROVE Tokens'
  BY <1>4 DEF ClaimBatch, ClaimSet, Claimable
<1>5. ASSUME NEW w \in Relay, CommitClaim(w) PROVE Tokens'
  BY <1>5 DEF CommitClaim, ClaimWrites
<1>6. ASSUME NEW w \in Relay, NEW r \in Row, DeliverTrue(w, r) PROVE Tokens'
  BY <1>6 DEF DeliverTrue
<1>7. ASSUME NEW w \in Relay, NEW r \in Row, DeliverFalse(w, r) PROVE Tokens'
  BY <1>7 DEF DeliverFalse
<1>8. ASSUME NEW w \in Relay, PublishClaim(w) PROVE Tokens'
  BY <1>8 DEF PublishClaim, Fenced, Unlocked
<1>9. ASSUME NEW w \in Relay, PublishFencedOut(w) PROVE Tokens'
  BY <1>9 DEF PublishFencedOut, Fenced
<1>10. ASSUME NEW w \in Relay, CommitPublish(w) PROVE Tokens'
  BY <1>10 DEF CommitPublish, PublishWrites
<1>11. ASSUME NEW w \in Relay, ReleaseClaim(w) PROVE Tokens'
  BY <1>11 DEF ReleaseClaim, Fenced, Unlocked
<1>12. ASSUME NEW w \in Relay, CommitRelease(w) PROVE Tokens'
  BY <1>12 DEF CommitRelease, ReleaseWrites
<1>13. ASSUME NEW w \in Relay, ReturnResult(w) PROVE Tokens'
  BY <1>13 DEF ReturnResult, EndPass
<1>14. ASSUME NEW w \in Relay, Abort(w) PROVE Tokens'
  BY <1>14 DEF Abort, EndPass, Spend
<1>15. ASSUME NEW w \in Relay, LoseAnswer(w) PROVE Tokens'
  <2>1. CASE pc[w] = "claimed" /\ ClaimWrites(w)
    BY <1>15, <2>1 DEF LoseAnswer, EndPass, Spend, ClaimWrites
  <2>2. CASE pc[w] = "publishing" /\ PublishWrites(w)
    BY <1>15, <2>2 DEF LoseAnswer, EndPass, Spend, PublishWrites
  <2>3. CASE pc[w] = "releasing" /\ ReleaseWrites(w)
    BY <1>15, <2>3 DEF LoseAnswer, EndPass, Spend, ReleaseWrites
  <2> QED
    BY <1>15, <2>1, <2>2, <2>3 DEF LoseAnswer
<1> QED
  BY <1>1, <1>2, <1>3, <1>4, <1>5, <1>6, <1>7, <1>8,
     <1>9, <1>10, <1>11, <1>12, <1>13, <1>14, <1>15
  DEF Next, Step

\* Nobody changes a row that another transaction has locked.
LEMMA LocksStep ==
    ASSUME TypeOK, IndInv, Next, TypeOK'
    PROVE  Locks'
<1> USE OutboxAssumption DEF OutboxAssumption, TypeOK, table, outbox, pass, hist, Null,
      Location, Settling, Set, IndInv,
      PassShape, BatchSplit, Tokens, TokenIdentifiesClaim, Locks, Leases,
      ClaimCoherent, IsPublished, IsClaimed, Enqueued, LockedByOther
<1>1. CASE Tick
  BY <1>1 DEF Tick
<1>2. ASSUME NEW r \in Row, NEW t \in 1..now, Enqueue(r, t) PROVE Locks'
  BY <1>2 DEF Enqueue
<1>3. ASSUME NEW w \in Relay, BeginPass(w) PROVE Locks'
  BY <1>3 DEF BeginPass
<1>4. ASSUME NEW w \in Relay, ClaimBatch(w) PROVE Locks'
  BY <1>4 DEF ClaimBatch, ClaimSet, Claimable
<1>5. ASSUME NEW w \in Relay, CommitClaim(w) PROVE Locks'
  BY <1>5 DEF CommitClaim, ClaimWrites
<1>6. ASSUME NEW w \in Relay, NEW r \in Row, DeliverTrue(w, r) PROVE Locks'
  BY <1>6 DEF DeliverTrue
<1>7. ASSUME NEW w \in Relay, NEW r \in Row, DeliverFalse(w, r) PROVE Locks'
  BY <1>7 DEF DeliverFalse
<1>8. ASSUME NEW w \in Relay, PublishClaim(w) PROVE Locks'
  BY <1>8 DEF PublishClaim, Fenced, Unlocked
<1>9. ASSUME NEW w \in Relay, PublishFencedOut(w) PROVE Locks'
  BY <1>9 DEF PublishFencedOut, Fenced
<1>10. ASSUME NEW w \in Relay, CommitPublish(w) PROVE Locks'
  BY <1>10 DEF CommitPublish, PublishWrites
<1>11. ASSUME NEW w \in Relay, ReleaseClaim(w) PROVE Locks'
  BY <1>11 DEF ReleaseClaim, Fenced, Unlocked
<1>12. ASSUME NEW w \in Relay, CommitRelease(w) PROVE Locks'
  BY <1>12 DEF CommitRelease, ReleaseWrites
<1>13. ASSUME NEW w \in Relay, ReturnResult(w) PROVE Locks'
  BY <1>13 DEF ReturnResult, EndPass
<1>14. ASSUME NEW w \in Relay, Abort(w) PROVE Locks'
  BY <1>14 DEF Abort, EndPass, Spend
<1>15. ASSUME NEW w \in Relay, LoseAnswer(w) PROVE Locks'
  <2>1. CASE pc[w] = "claimed" /\ ClaimWrites(w)
    BY <1>15, <2>1 DEF LoseAnswer, EndPass, Spend, ClaimWrites
  <2>2. CASE pc[w] = "publishing" /\ PublishWrites(w)
    BY <1>15, <2>2 DEF LoseAnswer, EndPass, Spend, PublishWrites
  <2>3. CASE pc[w] = "releasing" /\ ReleaseWrites(w)
    BY <1>15, <2>3 DEF LoseAnswer, EndPass, Spend, ReleaseWrites
  <2> QED
    BY <1>15, <2>1, <2>2, <2>3 DEF LoseAnswer
<1> QED
  BY <1>1, <1>2, <1>3, <1>4, <1>5, <1>6, <1>7, <1>8,
     <1>9, <1>10, <1>11, <1>12, <1>13, <1>14, <1>15
  DEF Next, Step

\* published_at is written after deliver returned True, under the same token.
LEMMA DeliveriesStep ==
    ASSUME TypeOK, IndInv, Next, TypeOK'
    PROVE  Deliveries'
<1> USE OutboxAssumption DEF OutboxAssumption, TypeOK, table, outbox, pass, hist, Null,
      Location, Settling, Set, IndInv,
      PassShape, BatchSplit, Locks, Deliveries, PublishedWasDelivered, IsPublished
<1>1. CASE Tick
  BY <1>1 DEF Tick
<1>2. ASSUME NEW r \in Row, NEW t \in 1..now, Enqueue(r, t) PROVE Deliveries'
  BY <1>2 DEF Enqueue
<1>3. ASSUME NEW w \in Relay, BeginPass(w) PROVE Deliveries'
  BY <1>3 DEF BeginPass
<1>4. ASSUME NEW w \in Relay, ClaimBatch(w) PROVE Deliveries'
  BY <1>4 DEF ClaimBatch, ClaimSet, Claimable
<1>5. ASSUME NEW w \in Relay, CommitClaim(w) PROVE Deliveries'
  BY <1>5 DEF CommitClaim, ClaimWrites
<1>6. ASSUME NEW w \in Relay, NEW r \in Row, DeliverTrue(w, r) PROVE Deliveries'
  BY <1>6 DEF DeliverTrue
<1>7. ASSUME NEW w \in Relay, NEW r \in Row, DeliverFalse(w, r) PROVE Deliveries'
  BY <1>7 DEF DeliverFalse
<1>8. ASSUME NEW w \in Relay, PublishClaim(w) PROVE Deliveries'
  BY <1>8 DEF PublishClaim, Fenced, Unlocked
<1>9. ASSUME NEW w \in Relay, PublishFencedOut(w) PROVE Deliveries'
  BY <1>9 DEF PublishFencedOut, Fenced
<1>10. ASSUME NEW w \in Relay, CommitPublish(w) PROVE Deliveries'
  BY <1>10 DEF CommitPublish, PublishWrites
<1>11. ASSUME NEW w \in Relay, ReleaseClaim(w) PROVE Deliveries'
  BY <1>11 DEF ReleaseClaim, Fenced, Unlocked
<1>12. ASSUME NEW w \in Relay, CommitRelease(w) PROVE Deliveries'
  BY <1>12 DEF CommitRelease, ReleaseWrites
<1>13. ASSUME NEW w \in Relay, ReturnResult(w) PROVE Deliveries'
  BY <1>13 DEF ReturnResult, EndPass
<1>14. ASSUME NEW w \in Relay, Abort(w) PROVE Deliveries'
  BY <1>14 DEF Abort, EndPass, Spend
<1>15. ASSUME NEW w \in Relay, LoseAnswer(w) PROVE Deliveries'
  <2>1. CASE pc[w] = "claimed" /\ ClaimWrites(w)
    BY <1>15, <2>1 DEF LoseAnswer, EndPass, Spend, ClaimWrites
  <2>2. CASE pc[w] = "publishing" /\ PublishWrites(w)
    BY <1>15, <2>2 DEF LoseAnswer, EndPass, Spend, PublishWrites
  <2>3. CASE pc[w] = "releasing" /\ ReleaseWrites(w)
    BY <1>15, <2>3 DEF LoseAnswer, EndPass, Spend, ReleaseWrites
  <2> QED
    BY <1>15, <2>1, <2>2, <2>3 DEF LoseAnswer
<1> QED
  BY <1>1, <1>2, <1>3, <1>4, <1>5, <1>6, <1>7, <1>8,
     <1>9, <1>10, <1>11, <1>12, <1>13, <1>14, <1>15
  DEF Next, Step

\* The published list of a pass and the table agree.
LEMMA ResultsStep ==
    ASSUME TypeOK, IndInv, Next, TypeOK'
    PROVE  Results'
<1> USE OutboxAssumption DEF OutboxAssumption, TypeOK, table, outbox, pass, hist, Null,
      Location, Settling, Set, IndInv,
      PassShape, BatchSplit, Tokens, TokenIdentifiesClaim, Locks, Results, Mine,
      ClaimCoherent, IsPublished, IsClaimed
<1>1. CASE Tick
  BY <1>1 DEF Tick
<1>2. ASSUME NEW r \in Row, NEW t \in 1..now, Enqueue(r, t) PROVE Results'
  BY <1>2 DEF Enqueue
<1>3. ASSUME NEW w \in Relay, BeginPass(w) PROVE Results'
  BY <1>3 DEF BeginPass
<1>4. ASSUME NEW w \in Relay, ClaimBatch(w) PROVE Results'
  BY <1>4 DEF ClaimBatch, ClaimSet, Claimable
<1>5. ASSUME NEW w \in Relay, CommitClaim(w) PROVE Results'
  BY <1>5 DEF CommitClaim, ClaimWrites
<1>6. ASSUME NEW w \in Relay, NEW r \in Row, DeliverTrue(w, r) PROVE Results'
  BY <1>6 DEF DeliverTrue
<1>7. ASSUME NEW w \in Relay, NEW r \in Row, DeliverFalse(w, r) PROVE Results'
  BY <1>7 DEF DeliverFalse
<1>8. ASSUME NEW w \in Relay, PublishClaim(w) PROVE Results'
  BY <1>8 DEF PublishClaim, Fenced, Unlocked
<1>9. ASSUME NEW w \in Relay, PublishFencedOut(w) PROVE Results'
  BY <1>9 DEF PublishFencedOut, Fenced
<1>10. ASSUME NEW w \in Relay, CommitPublish(w) PROVE Results'
  BY <1>10 DEF CommitPublish, PublishWrites
<1>11. ASSUME NEW w \in Relay, ReleaseClaim(w) PROVE Results'
  BY <1>11 DEF ReleaseClaim, Fenced, Unlocked
<1>12. ASSUME NEW w \in Relay, CommitRelease(w) PROVE Results'
  BY <1>12 DEF CommitRelease, ReleaseWrites
<1>13. ASSUME NEW w \in Relay, ReturnResult(w) PROVE Results'
  BY <1>13 DEF ReturnResult, EndPass
<1>14. ASSUME NEW w \in Relay, Abort(w) PROVE Results'
  BY <1>14 DEF Abort, EndPass, Spend
<1>15. ASSUME NEW w \in Relay, LoseAnswer(w) PROVE Results'
  <2>1. CASE pc[w] = "claimed" /\ ClaimWrites(w)
    BY <1>15, <2>1 DEF LoseAnswer, EndPass, Spend, ClaimWrites
  <2>2. CASE pc[w] = "publishing" /\ PublishWrites(w)
    BY <1>15, <2>2 DEF LoseAnswer, EndPass, Spend, PublishWrites
  <2>3. CASE pc[w] = "releasing" /\ ReleaseWrites(w)
    BY <1>15, <2>3 DEF LoseAnswer, EndPass, Spend, ReleaseWrites
  <2> QED
    BY <1>15, <2>1, <2>2, <2>3 DEF LoseAnswer
<1> QED
  BY <1>1, <1>2, <1>3, <1>4, <1>5, <1>6, <1>7, <1>8,
     <1>9, <1>10, <1>11, <1>12, <1>13, <1>14, <1>15
  DEF Next, Step

\* A returned result is the last word on the rows it lists as published.
LEMMA AcksStep ==
    ASSUME TypeOK, IndInv, Next, TypeOK'
    PROVE  Acks'
<1> USE OutboxAssumption DEF OutboxAssumption, TypeOK, table, outbox, pass, hist, Null,
      Location, Settling, Set, IndInv,
      PassShape, BatchSplit, Tokens, TokenIdentifiesClaim, Locks, Results, Acks,
      Mine, ClaimCoherent, IsPublished, IsClaimed
<1>1. CASE Tick
  BY <1>1 DEF Tick
<1>2. ASSUME NEW r \in Row, NEW t \in 1..now, Enqueue(r, t) PROVE Acks'
  BY <1>2 DEF Enqueue
<1>3. ASSUME NEW w \in Relay, BeginPass(w) PROVE Acks'
  BY <1>3 DEF BeginPass
<1>4. ASSUME NEW w \in Relay, ClaimBatch(w) PROVE Acks'
  BY <1>4 DEF ClaimBatch, ClaimSet, Claimable
<1>5. ASSUME NEW w \in Relay, CommitClaim(w) PROVE Acks'
  BY <1>5 DEF CommitClaim, ClaimWrites
<1>6. ASSUME NEW w \in Relay, NEW r \in Row, DeliverTrue(w, r) PROVE Acks'
  BY <1>6 DEF DeliverTrue
<1>7. ASSUME NEW w \in Relay, NEW r \in Row, DeliverFalse(w, r) PROVE Acks'
  BY <1>7 DEF DeliverFalse
<1>8. ASSUME NEW w \in Relay, PublishClaim(w) PROVE Acks'
  BY <1>8 DEF PublishClaim, Fenced, Unlocked
<1>9. ASSUME NEW w \in Relay, PublishFencedOut(w) PROVE Acks'
  BY <1>9 DEF PublishFencedOut, Fenced
<1>10. ASSUME NEW w \in Relay, CommitPublish(w) PROVE Acks'
  BY <1>10 DEF CommitPublish, PublishWrites
<1>11. ASSUME NEW w \in Relay, ReleaseClaim(w) PROVE Acks'
  BY <1>11 DEF ReleaseClaim, Fenced, Unlocked
<1>12. ASSUME NEW w \in Relay, CommitRelease(w) PROVE Acks'
  BY <1>12 DEF CommitRelease, ReleaseWrites
<1>13. ASSUME NEW w \in Relay, ReturnResult(w) PROVE Acks'
  BY <1>13 DEF ReturnResult, EndPass
<1>14. ASSUME NEW w \in Relay, Abort(w) PROVE Acks'
  BY <1>14 DEF Abort, EndPass, Spend
<1>15. ASSUME NEW w \in Relay, LoseAnswer(w) PROVE Acks'
  <2>1. CASE pc[w] = "claimed" /\ ClaimWrites(w)
    BY <1>15, <2>1 DEF LoseAnswer, EndPass, Spend, ClaimWrites
  <2>2. CASE pc[w] = "publishing" /\ PublishWrites(w)
    BY <1>15, <2>2 DEF LoseAnswer, EndPass, Spend, PublishWrites
  <2>3. CASE pc[w] = "releasing" /\ ReleaseWrites(w)
    BY <1>15, <2>3 DEF LoseAnswer, EndPass, Spend, ReleaseWrites
  <2> QED
    BY <1>15, <2>1, <2>2, <2>3 DEF LoseAnswer
<1> QED
  BY <1>1, <1>2, <1>3, <1>4, <1>5, <1>6, <1>7, <1>8,
     <1>9, <1>10, <1>11, <1>12, <1>13, <1>14, <1>15
  DEF Next, Step

\* A row changes its claimant only after the claimant's lease, or by its hand.
LEMMA LeasesStep ==
    ASSUME TypeOK, IndInv, Next, TypeOK'
    PROVE  Leases'
<1> USE OutboxAssumption DEF OutboxAssumption, TypeOK, table, outbox, pass, hist, Null,
      Location, Settling, Set, IndInv,
      PassShape, BatchSplit, Tokens, TokenIdentifiesClaim, Locks, Leases, Carries,
      ClaimCoherent, IsClaimed
<1>1. CASE Tick
  BY <1>1 DEF Tick
<1>2. ASSUME NEW r \in Row, NEW t \in 1..now, Enqueue(r, t) PROVE Leases'
  BY <1>2 DEF Enqueue
<1>3. ASSUME NEW w \in Relay, BeginPass(w) PROVE Leases'
  BY <1>3 DEF BeginPass
<1>4. ASSUME NEW w \in Relay, ClaimBatch(w) PROVE Leases'
  BY <1>4 DEF ClaimBatch, ClaimSet, Claimable
<1>5. ASSUME NEW w \in Relay, CommitClaim(w) PROVE Leases'
  BY <1>5 DEF CommitClaim, ClaimWrites
<1>6. ASSUME NEW w \in Relay, NEW r \in Row, DeliverTrue(w, r) PROVE Leases'
  BY <1>6 DEF DeliverTrue
<1>7. ASSUME NEW w \in Relay, NEW r \in Row, DeliverFalse(w, r) PROVE Leases'
  BY <1>7 DEF DeliverFalse
<1>8. ASSUME NEW w \in Relay, PublishClaim(w) PROVE Leases'
  BY <1>8 DEF PublishClaim, Fenced, Unlocked
<1>9. ASSUME NEW w \in Relay, PublishFencedOut(w) PROVE Leases'
  BY <1>9 DEF PublishFencedOut, Fenced
<1>10. ASSUME NEW w \in Relay, CommitPublish(w) PROVE Leases'
  BY <1>10 DEF CommitPublish, PublishWrites
<1>11. ASSUME NEW w \in Relay, ReleaseClaim(w) PROVE Leases'
  BY <1>11 DEF ReleaseClaim, Fenced, Unlocked
<1>12. ASSUME NEW w \in Relay, CommitRelease(w) PROVE Leases'
  BY <1>12 DEF CommitRelease, ReleaseWrites
<1>13. ASSUME NEW w \in Relay, ReturnResult(w) PROVE Leases'
  BY <1>13 DEF ReturnResult, EndPass
<1>14. ASSUME NEW w \in Relay, Abort(w) PROVE Leases'
  BY <1>14 DEF Abort, EndPass, Spend
<1>15. ASSUME NEW w \in Relay, LoseAnswer(w) PROVE Leases'
  <2>1. CASE pc[w] = "claimed" /\ ClaimWrites(w)
    BY <1>15, <2>1 DEF LoseAnswer, EndPass, Spend, ClaimWrites
  <2>2. CASE pc[w] = "publishing" /\ PublishWrites(w)
    BY <1>15, <2>2 DEF LoseAnswer, EndPass, Spend, PublishWrites
  <2>3. CASE pc[w] = "releasing" /\ ReleaseWrites(w)
    BY <1>15, <2>3 DEF LoseAnswer, EndPass, Spend, ReleaseWrites
  <2> QED
    BY <1>15, <2>1, <2>2, <2>3 DEF LoseAnswer
<1> QED
  BY <1>1, <1>2, <1>3, <1>4, <1>5, <1>6, <1>7, <1>8,
     <1>9, <1>10, <1>11, <1>12, <1>13, <1>14, <1>15
  DEF Next, Step

\* The claim columns are written together.
LEMMA CoherentStep ==
    ASSUME TypeOK, IndInv, Next, TypeOK'
    PROVE  ClaimCoherent'
<1> USE OutboxAssumption DEF OutboxAssumption, TypeOK, table, outbox, pass, hist, Null,
      Location, Settling, Set, IndInv,
      PassShape, BatchSplit, Locks, ClaimCoherent, IsClaimed, IsPublished, Enqueued
<1>1. CASE Tick
  BY <1>1 DEF Tick
<1>2. ASSUME NEW r \in Row, NEW t \in 1..now, Enqueue(r, t) PROVE ClaimCoherent'
  BY <1>2 DEF Enqueue
<1>3. ASSUME NEW w \in Relay, BeginPass(w) PROVE ClaimCoherent'
  BY <1>3 DEF BeginPass
<1>4. ASSUME NEW w \in Relay, ClaimBatch(w) PROVE ClaimCoherent'
  BY <1>4 DEF ClaimBatch, ClaimSet, Claimable
<1>5. ASSUME NEW w \in Relay, CommitClaim(w) PROVE ClaimCoherent'
  BY <1>5 DEF CommitClaim, ClaimWrites
<1>6. ASSUME NEW w \in Relay, NEW r \in Row, DeliverTrue(w, r) PROVE ClaimCoherent'
  BY <1>6 DEF DeliverTrue
<1>7. ASSUME NEW w \in Relay, NEW r \in Row, DeliverFalse(w, r) PROVE ClaimCoherent'
  BY <1>7 DEF DeliverFalse
<1>8. ASSUME NEW w \in Relay, PublishClaim(w) PROVE ClaimCoherent'
  BY <1>8 DEF PublishClaim, Fenced, Unlocked
<1>9. ASSUME NEW w \in Relay, PublishFencedOut(w) PROVE ClaimCoherent'
  BY <1>9 DEF PublishFencedOut, Fenced
<1>10. ASSUME NEW w \in Relay, CommitPublish(w) PROVE ClaimCoherent'
  BY <1>10 DEF CommitPublish, PublishWrites
<1>11. ASSUME NEW w \in Relay, ReleaseClaim(w) PROVE ClaimCoherent'
  BY <1>11 DEF ReleaseClaim, Fenced, Unlocked
<1>12. ASSUME NEW w \in Relay, CommitRelease(w) PROVE ClaimCoherent'
  BY <1>12 DEF CommitRelease, ReleaseWrites
<1>13. ASSUME NEW w \in Relay, ReturnResult(w) PROVE ClaimCoherent'
  BY <1>13 DEF ReturnResult, EndPass
<1>14. ASSUME NEW w \in Relay, Abort(w) PROVE ClaimCoherent'
  BY <1>14 DEF Abort, EndPass, Spend
<1>15. ASSUME NEW w \in Relay, LoseAnswer(w) PROVE ClaimCoherent'
  <2>1. CASE pc[w] = "claimed" /\ ClaimWrites(w)
    BY <1>15, <2>1 DEF LoseAnswer, EndPass, Spend, ClaimWrites
  <2>2. CASE pc[w] = "publishing" /\ PublishWrites(w)
    BY <1>15, <2>2 DEF LoseAnswer, EndPass, Spend, PublishWrites
  <2>3. CASE pc[w] = "releasing" /\ ReleaseWrites(w)
    BY <1>15, <2>3 DEF LoseAnswer, EndPass, Spend, ReleaseWrites
  <2> QED
    BY <1>15, <2>1, <2>2, <2>3 DEF LoseAnswer
<1> QED
  BY <1>1, <1>2, <1>3, <1>4, <1>5, <1>6, <1>7, <1>8,
     <1>9, <1>10, <1>11, <1>12, <1>13, <1>14, <1>15
  DEF Next, Step

\* The claim statement returns rows of the transaction's tenant only.
LEMMA TenantStep ==
    ASSUME TypeOK, IndInv, Next, TypeOK'
    PROVE  TenantIsolation'
<1> USE OutboxAssumption DEF OutboxAssumption, TypeOK, table, outbox, pass, hist, Null,
      Location, Settling, Set, IndInv,
      PassShape, TenantIsolation, Carries
<1>1. CASE Tick
  BY <1>1 DEF Tick
<1>2. ASSUME NEW r \in Row, NEW t \in 1..now, Enqueue(r, t) PROVE TenantIsolation'
  BY <1>2 DEF Enqueue
<1>3. ASSUME NEW w \in Relay, BeginPass(w) PROVE TenantIsolation'
  BY <1>3 DEF BeginPass
<1>4. ASSUME NEW w \in Relay, ClaimBatch(w) PROVE TenantIsolation'
  BY <1>4 DEF ClaimBatch, ClaimSet, Claimable
<1>5. ASSUME NEW w \in Relay, CommitClaim(w) PROVE TenantIsolation'
  BY <1>5 DEF CommitClaim, ClaimWrites
<1>6. ASSUME NEW w \in Relay, NEW r \in Row, DeliverTrue(w, r) PROVE TenantIsolation'
  BY <1>6 DEF DeliverTrue
<1>7. ASSUME NEW w \in Relay, NEW r \in Row, DeliverFalse(w, r) PROVE TenantIsolation'
  BY <1>7 DEF DeliverFalse
<1>8. ASSUME NEW w \in Relay, PublishClaim(w) PROVE TenantIsolation'
  BY <1>8 DEF PublishClaim, Fenced, Unlocked
<1>9. ASSUME NEW w \in Relay, PublishFencedOut(w) PROVE TenantIsolation'
  BY <1>9 DEF PublishFencedOut, Fenced
<1>10. ASSUME NEW w \in Relay, CommitPublish(w) PROVE TenantIsolation'
  BY <1>10 DEF CommitPublish, PublishWrites
<1>11. ASSUME NEW w \in Relay, ReleaseClaim(w) PROVE TenantIsolation'
  BY <1>11 DEF ReleaseClaim, Fenced, Unlocked
<1>12. ASSUME NEW w \in Relay, CommitRelease(w) PROVE TenantIsolation'
  BY <1>12 DEF CommitRelease, ReleaseWrites
<1>13. ASSUME NEW w \in Relay, ReturnResult(w) PROVE TenantIsolation'
  BY <1>13 DEF ReturnResult, EndPass
<1>14. ASSUME NEW w \in Relay, Abort(w) PROVE TenantIsolation'
  BY <1>14 DEF Abort, EndPass, Spend
<1>15. ASSUME NEW w \in Relay, LoseAnswer(w) PROVE TenantIsolation'
  <2>1. CASE pc[w] = "claimed" /\ ClaimWrites(w)
    BY <1>15, <2>1 DEF LoseAnswer, EndPass, Spend, ClaimWrites
  <2>2. CASE pc[w] = "publishing" /\ PublishWrites(w)
    BY <1>15, <2>2 DEF LoseAnswer, EndPass, Spend, PublishWrites
  <2>3. CASE pc[w] = "releasing" /\ ReleaseWrites(w)
    BY <1>15, <2>3 DEF LoseAnswer, EndPass, Spend, ReleaseWrites
  <2> QED
    BY <1>15, <2>1, <2>2, <2>3 DEF LoseAnswer
<1> QED
  BY <1>1, <1>2, <1>3, <1>4, <1>5, <1>6, <1>7, <1>8,
     <1>9, <1>10, <1>11, <1>12, <1>13, <1>14, <1>15
  DEF Next, Step

\* The counts that an offer and a claim change.
LEMMA Smaller ==
    ASSUME NEW S, IsFiniteSet(S), NEW T \in SUBSET S
    PROVE  /\ IsFiniteSet(T) /\ Cardinality(T) \in Nat /\ Cardinality(S) \in Nat
           /\ Cardinality(T) <= Cardinality(S)
           /\ \A x \in S \ T : Cardinality(T) + 1 <= Cardinality(S)
<1>1. IsFiniteSet(T) /\ Cardinality(T) <= Cardinality(S)
  BY FS_Subset
<1>2. Cardinality(T) \in Nat /\ Cardinality(S) \in Nat
  BY <1>1, FS_CardinalityType
<1>3. ASSUME NEW x \in S \ T PROVE Cardinality(T) + 1 <= Cardinality(S)
  <2>1. T \subseteq S \ {x} /\ IsFiniteSet(S \ {x}) /\ Cardinality(S \ {x}) = Cardinality(S) - 1
    BY FS_RemoveElement
  <2>2. Cardinality(T) <= Cardinality(S \ {x})
    BY <2>1, FS_Subset
  <2> QED
    BY <1>2, <2>1, <2>2
<1> QED
  BY <1>1, <1>2, <1>3

\* An attempt is counted before its offer, and no pass offers a row twice.
LEMMA OfferedStep ==
    ASSUME TypeOK, IndInv, Next, TypeOK'
    PROVE  Offered'
<1>0. \A r \in Row : /\ IsFiniteSet(Pending(r)) /\ Cardinality(Pending(r)) \in Nat
                     /\ offers[r] + Cardinality(Pending(r)) <= attempts[r]
  BY FS_CardinalityType DEF IndInv, Offered
<1>1. ASSUME UNCHANGED <<offers, attempts>>, \A r \in Row : Pending(r)' \subseteq Pending(r)
      PROVE  Offered'
  <2> SUFFICES ASSUME NEW r \in Row
               PROVE  /\ IsFiniteSet(Pending(r)')
                      /\ offers[r] + Cardinality(Pending(r)') <= attempts[r]
    BY <1>1 DEF Offered
  <2>1. Pending(r)' \in SUBSET Pending(r)
    BY <1>1
  <2> QED
    BY <1>0, <2>1, Smaller DEF TypeOK
<1>2. ASSUME NEW w \in Relay, pc[w] = "claimed", ClaimWrites(w), UNCHANGED offers,
             \A v \in Relay \ {w} : pc'[v] = pc[v] /\ rows'[v] = rows[v],
             rows'[w] \subseteq rows[w]
      PROVE  Offered'
  <2> SUFFICES ASSUME NEW r \in Row
               PROVE  /\ IsFiniteSet(Pending(r)')
                      /\ offers[r] + Cardinality(Pending(r)') <= attempts'[r]
    BY <1>2 DEF Offered
  <2>1. CASE r \in locked[w]
    <3>1. attempts'[r] = attempts[r] + 1
      BY <1>2, <2>1 DEF ClaimWrites
    <3>2. Pending(r)' \in SUBSET (Pending(r) \cup {w})
      BY <1>2 DEF Pending
    <3>3. /\ IsFiniteSet(Pending(r) \cup {w})
          /\ Cardinality(Pending(r) \cup {w}) <= Cardinality(Pending(r)) + 1
      <4>1. w \notin Pending(r)
        BY <1>2 DEF Pending
      <4>2. /\ IsFiniteSet(Pending(r) \cup {w})
            /\ Cardinality(Pending(r) \cup {w}) = Cardinality(Pending(r)) + 1
        BY <1>0, <4>1, FS_AddElement, Zenon
      <4> QED
        BY <1>0, <4>2
    <3>4. /\ IsFiniteSet(Pending(r)') /\ Cardinality(Pending(r)') \in Nat
          /\ Cardinality(Pending(r) \cup {w}) \in Nat
          /\ Cardinality(Pending(r)') <= Cardinality(Pending(r) \cup {w})
      BY <3>2, <3>3, Smaller
    <3> QED
      BY <1>0, <3>1, <3>3, <3>4 DEF TypeOK
  <2>2. CASE r \notin locked[w]
    <3>1. attempts'[r] = attempts[r]
      BY <1>2, <2>2 DEF ClaimWrites
    <3>2. r \notin rows'[w]
      BY <1>2, <2>2 DEF IndInv, PassShape
    <3>3. Pending(r)' \in SUBSET Pending(r)
      BY <1>2, <3>2 DEF Pending
    <3> QED
      BY <1>0, <3>1, <3>3, Smaller DEF TypeOK
  <2> QED
    BY <2>1, <2>2
<1>3. ASSUME NEW w \in Relay, NEW x \in Row, DeliverTrue(w, x) \/ DeliverFalse(w, x)
      PROVE  Offered'
  <2>1. /\ pc[w] = "deliver" /\ x \in rows[w] /\ UNCHANGED attempts
        /\ offers' = [offers EXCEPT ![x] = @ + 1]
        /\ rows' = [rows EXCEPT ![w] = @ \ {x}]
        /\ \A v \in Relay \ {w} : pc'[v] = pc[v]
    BY <1>3 DEF DeliverTrue, DeliverFalse, TypeOK, table, outbox
  <2> SUFFICES ASSUME NEW r \in Row
               PROVE  /\ IsFiniteSet(Pending(r)')
                      /\ offers'[r] + Cardinality(Pending(r)') <= attempts[r]
    BY <2>1 DEF Offered
  <2>2. Pending(r)' \in SUBSET Pending(r)
    BY <2>1 DEF Pending, TypeOK
  <2>3. r = x => w \in Pending(r) \ Pending(r)'
    BY <2>1 DEF Pending, TypeOK
  <2>4. offers'[r] = IF r = x THEN offers[r] + 1 ELSE offers[r]
    BY <2>1 DEF TypeOK
  <2> QED
    BY <1>0, <2>2, <2>3, <2>4, Smaller DEF TypeOK
<1>4. ASSUME NEW w \in Relay, UNCHANGED <<offers, attempts>>,
             rows' = rows \/ rows' = [rows EXCEPT ![w] = {}],
             \A v \in Relay : pc[v] = "claimed" => pc'[v] = "claimed" \/ rows'[v] = {}
      PROVE  Offered'
  <2>1. \A r \in Row : Pending(r)' \subseteq Pending(r)
    BY <1>4 DEF Pending, TypeOK
  <2> QED
    BY <1>1, <1>4, <2>1
<1>5. ASSUME NEW w \in Relay, CommitClaim(w) PROVE Offered'
  BY <1>2, <1>5 DEF CommitClaim, hist, TypeOK
<1>6. ASSUME NEW w \in Relay, ClaimBatch(w) PROVE Offered'
  <2>1. /\ UNCHANGED <<offers, attempts>> /\ pc'[w] = "claimed"
        /\ \A v \in Relay \ {w} : pc'[v] = pc[v] /\ rows'[v] = rows[v]
    BY <1>6 DEF ClaimBatch, hist, outbox, TypeOK
  <2>2. \A r \in Row : Pending(r)' \subseteq Pending(r)
    BY <2>1 DEF Pending
  <2> QED
    BY <1>1, <2>1, <2>2
<1>7. ASSUME NEW w \in Relay, LoseAnswer(w) PROVE Offered'
  <2>1. /\ UNCHANGED offers /\ rows' = [rows EXCEPT ![w] = {}]
        /\ \A v \in Relay \ {w} : pc'[v] = pc[v] /\ rows'[v] = rows[v]
        /\ rows'[w] = {}
    BY <1>7 DEF LoseAnswer, EndPass, hist, TypeOK
  <2>2. CASE pc[w] = "claimed" /\ ClaimWrites(w)
    BY <1>2, <2>1, <2>2
  <2>3. CASE UNCHANGED attempts
    BY <1>4, <2>1, <2>3
  <2> QED
    BY <1>7, <2>2, <2>3 DEF LoseAnswer, PublishWrites, ReleaseWrites
<1>8. ASSUME NEW w \in Relay, ReturnResult(w) \/ Abort(w) PROVE Offered'
  <2>1. /\ UNCHANGED <<offers, attempts>> /\ rows' = [rows EXCEPT ![w] = {}]
        /\ \A v \in Relay \ {w} : pc'[v] = pc[v]
        /\ rows'[w] = {}
    BY <1>8 DEF ReturnResult, Abort, EndPass, hist, table, outbox, TypeOK
  <2> QED
    BY <1>4, <2>1
<1>9. ASSUME NEW w \in Relay,
             \/ BeginPass(w) \/ PublishClaim(w) \/ PublishFencedOut(w) \/ CommitPublish(w)
             \/ ReleaseClaim(w) \/ CommitRelease(w)
      PROVE  Offered'
  <2>1. /\ UNCHANGED <<offers, attempts>> /\ rows' = rows
        /\ pc[w] # "claimed" /\ \A v \in Relay \ {w} : pc'[v] = pc[v]
    BY <1>9 DEF BeginPass, PublishClaim, PublishFencedOut, CommitPublish, PublishWrites,
                ReleaseClaim, CommitRelease, ReleaseWrites, hist, table, outbox, TypeOK
  <2> QED
    BY <1>4, <2>1
<1>10. ASSUME Tick \/ \E r \in Row, t \in 1..now : Enqueue(r, t) PROVE Offered'
  <2>1. UNCHANGED <<offers, attempts, pc, rows>>
    BY <1>10 DEF Tick, Enqueue, hist, table, outbox, pass
  <2>2. \A r \in Row : Pending(r)' \subseteq Pending(r)
    BY <2>1 DEF Pending
  <2> QED
    BY <1>1, <2>1, <2>2
<1> QED
  BY <1>3, <1>5, <1>6, <1>7, <1>8, <1>9, <1>10 DEF Next, Step

-----------------------------------------------------------------------------
(* The inductive invariant                                                 *)

\* The initial state satisfies it.
LEMMA InitIndInv == ASSUME Init PROVE TypeOK /\ IndInv
<1> USE OutboxAssumption DEF OutboxAssumption, Init, Null
<1>1. TypeOK
  BY DEF TypeOK, Location, Settling
<1>2. PassShape /\ BatchSplit
  BY DEF PassShape, BatchSplit
<1>3. Tokens /\ Locks
  BY DEF Tokens, TokenIdentifiesClaim, Locks
<1>4. Deliveries /\ Results /\ Acks
  BY DEF Deliveries, PublishedWasDelivered, Results, Mine, Acks, IsPublished
<1>5. Leases /\ ClaimCoherent /\ TenantIsolation
  BY DEF Leases, ClaimCoherent, TenantIsolation, Carries, IsClaimed, IsPublished
<1>6. Offered
  <2>1. \A r \in Row : Pending(r) = {}
    BY DEF Pending
  <2>2. \A r \in Row : IsFiniteSet(Pending(r)) /\ Cardinality(Pending(r)) = 0
    BY <2>1, FS_EmptySet, Zenon
  <2>3. \A r \in Row : offers[r] = 0 /\ attempts[r] = 0
    OBVIOUS
  <2> QED
    BY <2>2, <2>3 DEF Offered
<1> QED
  BY <1>1, <1>2, <1>3, <1>4, <1>5, <1>6 DEF IndInv

\* Every step, a stuttering one included, preserves it.
LEMMA StepIndInv == ASSUME TypeOK, IndInv, [Next]_vars PROVE TypeOK' /\ IndInv'
<1>1. CASE Next
  <2>1. TypeOK'
    BY <1>1, TypeStep
  <2> QED
    BY <1>1, <2>1, PassShapeStep, BatchSplitStep, TokensStep, LocksStep, DeliveriesStep,
       ResultsStep, AcksStep, LeasesStep, CoherentStep, TenantStep, OfferedStep DEF IndInv
<1>2. CASE UNCHANGED vars
  <2> USE <1>2 DEF vars, table, outbox, pass, hist
  <2>1. TypeOK'
    BY DEF TypeOK
  <2>2. PassShape' /\ BatchSplit' /\ Tokens' /\ Locks'
    BY DEF IndInv, PassShape, BatchSplit, Tokens, TokenIdentifiesClaim, Locks,
           IsPublished, IsClaimed, Enqueued
  <2>3. Deliveries' /\ Results' /\ Acks'
    BY DEF IndInv, Deliveries, PublishedWasDelivered, Results, Mine, Acks, IsPublished
  <2>4. Leases' /\ ClaimCoherent' /\ TenantIsolation'
    BY DEF IndInv, Leases, ClaimCoherent, TenantIsolation, Visible, Carries, IsClaimed,
           IsPublished, Enqueued
  <2>5. Offered'
    <3>1. \A r \in Row : Pending(r)' = Pending(r)
      BY DEF Pending
    <3> QED
      BY <3>1 DEF IndInv, Offered
  <2> QED
    BY <2>1, <2>2, <2>3, <2>4, <2>5 DEF IndInv
<1> QED
  BY <1>1, <1>2

\* The invariant of every reachable state of the outbox and its relays.
THEOREM Invariance == Spec => [](TypeOK /\ IndInv)
<1>1. Init => TypeOK /\ IndInv
  BY InitIndInv
<1>2. TypeOK /\ IndInv /\ [Next]_vars => TypeOK' /\ IndInv'
  BY StepIndInv
<1> QED
  BY <1>1, <1>2, PTL DEF Spec

-----------------------------------------------------------------------------
(* The properties                                                          *)

\* Every reachable state is well typed (TypeOK).
THEOREM TypeCorrect == Spec => []TypeOK
  BY Invariance, PTL

\* No two passes know the same token for a row (claim_token = gen_random_uuid()
\* in the claim statement, dropped with the pass).
THEOREM TokenSafety == Spec => []TokenIdentifiesClaim
<1>1. IndInv => TokenIdentifiesClaim
  BY DEF IndInv, Tokens
<1> QED
  BY <1>1, Invariance, PTL

\* A relay whose claim is not committed yet has locked all the rows it carries.
LEMMA ClaimedLocks ==
    ASSUME TypeOK, IndInv, NEW w \in Relay, NEW r \in Row,
           pc[w] = "claimed", Carries(w, r)
    PROVE  r \in locked[w]
<1>1. r # cur[w]
  BY OutboxAssumption DEF OutboxAssumption, TypeOK, Settling, Null
<1>2. locked[w] = rows[w]
  BY DEF IndInv, PassShape
<1> QED
  BY <1>1, <1>2 DEF Carries

\* "Two workers racing for the same batch never overlap", except past a lease.
THEOREM LeaseSafety == Spec => []LeaseExclusive
<1>1. TypeOK /\ IndInv => LeaseExclusive
  <2> SUFFICES ASSUME TypeOK, IndInv, NEW w \in Relay, NEW v \in Relay, NEW r \in Row,
                      w # v, Carries(w, r), Carries(v, r),
                      ~(leaseEnd[w] <= now \/ leaseEnd[v] <= now)
               PROVE  FALSE
    BY DEF LeaseExclusive
  <2>0. now < leaseEnd[w] /\ now < leaseEnd[v]
    BY DEF TypeOK
  <2>1. token[w][r] # Null /\ token[v][r] # Null
    BY DEF IndInv, BatchSplit, Carries
  <2>2. ASSUME NEW x \in Relay, NEW y \in Relay, x # y, Carries(x, r), Carries(y, r),
               now < leaseEnd[y], pc[x] = "claimed", pc[y] # "claimed"
        PROVE  FALSE
    <3>1. r \in locked[x]
      BY <2>2, ClaimedLocks
    <3>2. IsClaimed(r) /\ claimExpiresAt[r] = leaseEnd[y]
      BY <2>2 DEF IndInv, Leases
    <3>3. claimExpiresAt[r] <= txNow[x] /\ txNow[x] <= now
      BY <2>2, <3>1, <3>2 DEF IndInv, Locks, PassShape
    <3> QED
      BY <2>2, <3>2, <3>3 DEF TypeOK
  <2>3. CASE pc[w] = "claimed" /\ pc[v] = "claimed"
    <3>1. r \in locked[w] /\ r \in locked[v]
      BY <2>3, ClaimedLocks
    <3> QED
      BY <3>1 DEF IndInv, Locks
  <2>4. CASE pc[w] # "claimed" /\ pc[v] # "claimed"
    <3>1. claimToken[r] = token[w][r] /\ claimToken[r] = token[v][r]
      BY <2>0, <2>4 DEF IndInv, Leases
    <3> QED
      BY <2>1, <3>1 DEF IndInv, Tokens, TokenIdentifiesClaim
  <2> QED
    BY <2>0, <2>2, <2>3, <2>4
<1> QED
  BY <1>1, Invariance, PTL

\* Nothing is marked published that its own claimant has not delivered
\* (publish_claim is fenced on the token deliver was called with).
THEOREM PublishSafety == Spec => []PublishedWasDelivered
<1>1. IndInv => PublishedWasDelivered
  BY DEF IndInv, Deliveries
<1> QED
  BY <1>1, Invariance, PTL

\* The lists run_outbox_relay_once builds are true at every point of the loop.
THEOREM ResultSafety == Spec => []ResultTruthful
<1>1. IndInv => ResultTruthful
  BY DEF IndInv, BatchSplit, Results, Mine, ResultTruthful
<1> QED
  BY <1>1, Invariance, PTL

\* At most one OutboxRelayResult ever lists a row as published.
THEOREM AckSafety == Spec => []AckedAtMostOnce
<1>1. IndInv => AckedAtMostOnce
  BY DEF IndInv, Acks, AckedAtMostOnce
<1> QED
  BY <1>1, Invariance, PTL

\* A row's `attempts` bounds the calls of deliver for it: run_outbox_relay_once
\* offers a row only under a committed claim, once.
THEOREM OfferSafety == Spec => []OfferedAtMostAttempts
<1>1. TypeOK /\ IndInv => OfferedAtMostAttempts
  <2> SUFFICES ASSUME TypeOK, IndInv, NEW r \in Row PROVE offers[r] <= attempts[r]
    BY DEF OfferedAtMostAttempts
  <2>1. /\ Cardinality(Pending(r)) \in Nat
        /\ offers[r] + Cardinality(Pending(r)) <= attempts[r]
    BY FS_CardinalityType DEF IndInv, Offered
  <2> QED
    BY <2>1 DEF TypeOK
<1> QED
  BY <1>1, Invariance, PTL

\* No statement meets the CHECK constraints of the table.
THEOREM CoherenceSafety == Spec => []ClaimCoherent
<1>1. IndInv => ClaimCoherent
  BY DEF IndInv
<1> QED
  BY <1>1, Invariance, PTL

\* Relays work on their own tenant's rows (row-level security on the claim).
THEOREM TenantSafety == Spec => []TenantIsolation
<1>1. IndInv => TenantIsolation
  BY DEF IndInv
<1> QED
  BY <1>1, Invariance, PTL

\* No step writes to a published row.
LEMMA FinalStep ==
    ASSUME TypeOK, IndInv, [Next]_vars, NEW r \in Row, IsPublished(r)
    PROVE  UNCHANGED Record(r)
<1> USE OutboxAssumption DEF OutboxAssumption, TypeOK, Null, IndInv, PassShape,
      Locks, ClaimCoherent, IsPublished, IsClaimed, Enqueued, Record, Set
<1>1. ASSUME NEW x \in Row, NEW t \in 1..now, Enqueue(x, t) PROVE UNCHANGED Record(r)
  BY <1>1 DEF Enqueue
<1>2. ASSUME NEW w \in Relay, ClaimWrites(w), pc[w] = "claimed" PROVE UNCHANGED Record(r)
  BY <1>2 DEF ClaimWrites
<1>3. ASSUME NEW w \in Relay, PublishWrites(w), pc[w] = "publishing" PROVE UNCHANGED Record(r)
  BY <1>3 DEF PublishWrites
<1>4. ASSUME NEW w \in Relay, ReleaseWrites(w), pc[w] = "releasing" PROVE UNCHANGED Record(r)
  BY <1>4 DEF ReleaseWrites
<1>5. CASE UNCHANGED outbox
  BY <1>5 DEF outbox, Record
<1> QED
  BY <1>1, <1>2, <1>3, <1>4, <1>5
  DEF Next, Step, vars, table, Tick, BeginPass, ClaimBatch, CommitClaim, DeliverTrue,
      DeliverFalse, PublishClaim, PublishFencedOut, CommitPublish, ReleaseClaim,
      CommitRelease, ReturnResult, Abort, LoseAnswer

\* Published is final, for every statement of every relay.
THEOREM FinalSafety == Spec => PublishedIsFinal
<1>1. TypeOK /\ IndInv /\ [Next]_vars
        => [\A r \in Row : IsPublished(r) => UNCHANGED Record(r)]_vars
  BY FinalStep
<1> QED
  BY <1>1, Invariance, PTL DEF Spec, PublishedIsFinal

\* Some relay is settling the row under its current token.
Settled(r) == \E w \in Relay : token[w][r] = claimToken[r] /\ r = cur[w]

\* A step that writes to a row under a live lease is the claimant's own.
LEMMA LiveClaimStep ==
    ASSUME TypeOK, IndInv, [Next]_vars, NEW r \in Row,
           IsClaimed(r), now < claimExpiresAt[r], Record(r)' # Record(r)
    PROVE  Settled(r)
<1> USE OutboxAssumption DEF OutboxAssumption, TypeOK, Null, IndInv, PassShape,
      Locks, ClaimCoherent, IsPublished, IsClaimed, Enqueued, Record, Set, Settled
<1>1. ASSUME NEW x \in Row, NEW t \in 1..now, Enqueue(x, t) PROVE Settled(r)
  BY <1>1 DEF Enqueue
<1>2. ASSUME NEW w \in Relay, ClaimWrites(w), pc[w] = "claimed" PROVE Settled(r)
  BY <1>2 DEF ClaimWrites
<1>3. ASSUME NEW w \in Relay, PublishWrites(w), pc[w] = "publishing" PROVE Settled(r)
  BY <1>3 DEF PublishWrites
<1>4. ASSUME NEW w \in Relay, ReleaseWrites(w), pc[w] = "releasing" PROVE Settled(r)
  BY <1>4 DEF ReleaseWrites
<1>5. CASE UNCHANGED outbox
  BY <1>5 DEF outbox, Record
<1> QED
  BY <1>1, <1>2, <1>3, <1>4, <1>5
  DEF Next, Step, vars, table, Tick, BeginPass, ClaimBatch, CommitClaim, DeliverTrue,
      DeliverFalse, PublishClaim, PublishFencedOut, CommitPublish, ReleaseClaim,
      CommitRelease, ReturnResult, Abort, LoseAnswer

\* While a lease runs, only the relay that holds the row's token and is settling
\* that row can change it.
THEOREM LiveClaimSafety == Spec => LiveClaimHeld
<1>1. TypeOK /\ IndInv /\ [Next]_vars
        => [\A r \in Row :
              IsClaimed(r) /\ now < claimExpiresAt[r] /\ Record(r)' # Record(r)
                => \E w \in Relay : token[w][r] = claimToken[r] /\ r = cur[w]]_vars
  BY LiveClaimStep DEF Settled
<1> QED
  BY <1>1, Invariance, PTL DEF Spec, LiveClaimHeld

-----------------------------------------------------------------------------
(* The refinement of AtLeastOnce: one lemma for each kind of step.         *)

\* A step that the consumers cannot see.
LEMMA SilentStep ==
    ASSUME \A r \in Row : /\ availableAt'[r] = availableAt[r]
                         /\ publishedAt'[r] = publishedAt[r],
           UNCHANGED <<attempts, offers, delivered, acked>>
    PROVE  UNCHANGED Abstract!vars
<1>1. {r \in Row : Enqueued(r)}' = {r \in Row : Enqueued(r)}
  BY DEF Enqueued
<1>2. {r \in Row : IsPublished(r)}' = {r \in Row : IsPublished(r)}
  BY DEF IsPublished
<1> QED
  BY <1>1, <1>2 DEF Abstract!vars

\* The transaction that commits a row puts it into the queue.
LEMMA EnqueueImplements ==
    ASSUME TypeOK, NEW r \in Row, NEW t \in 1..now, Enqueue(r, t)
    PROVE  Abstract!Put(r)
<1>1. /\ availableAt[r] = Null /\ availableAt'[r] # Null
      /\ \A s \in Row \ {r} : availableAt'[s] = availableAt[s]
      /\ UNCHANGED <<publishedAt, attempts, offers, delivered, acked>>
  BY DEF Enqueue, Enqueued, hist, TypeOK, Null
<1>2. {s \in Row : Enqueued(s)}' = {s \in Row : Enqueued(s)} \cup {r}
  BY <1>1 DEF Enqueued
<1>3. {s \in Row : IsPublished(s)}' = {s \in Row : IsPublished(s)}
  BY <1>1 DEF IsPublished
<1> QED
  BY <1>1, <1>2, <1>3 DEF Abstract!Put, Enqueued

\* The commit of a claim counts an attempt on rows that wait.
LEMMA ClaimImplements ==
    ASSUME TypeOK, IndInv, NEW w \in Relay, pc[w] = "claimed", ClaimWrites(w),
           UNCHANGED <<offers, delivered, acked>>
    PROVE  Abstract!Attempt
<1>1. /\ UNCHANGED <<availableAt, publishedAt>>
      /\ attempts' = [r \in Row |-> IF r \in locked[w] THEN attempts[r] + 1 ELSE attempts[r]]
  BY DEF ClaimWrites
<1>2. locked[w] \in SUBSET ({r \in Row : Enqueued(r)} \ {r \in Row : IsPublished(r)})
  BY DEF IndInv, Locks, TypeOK
<1>3. {s \in Row : Enqueued(s)}' = {s \in Row : Enqueued(s)}
  BY <1>1 DEF Enqueued
<1>4. {s \in Row : IsPublished(s)}' = {s \in Row : IsPublished(s)}
  BY <1>1 DEF IsPublished
<1> QED
  BY <1>1, <1>2, <1>3, <1>4 DEF Abstract!Attempt

\* deliver(row) is the offer of an attempt that was counted.
LEMMA DeliverImplements ==
    ASSUME TypeOK, IndInv, NEW w \in Relay, NEW r \in Row, DeliverTrue(w, r) \/ DeliverFalse(w, r)
    PROVE  Abstract!Offer(r)
<1>1. offers[r] < attempts[r]
  <2>1. w \in Pending(r)
    BY DEF DeliverTrue, DeliverFalse, Pending
  <2>2. /\ IsFiniteSet(Pending(r)) /\ Cardinality(Pending(r)) \in Nat
        /\ offers[r] + Cardinality(Pending(r)) <= attempts[r]
    BY FS_CardinalityType DEF IndInv, Offered
  <2>3. Cardinality(Pending(r)) # 0
    BY <2>1, <2>2, FS_EmptySet
  <2>4. offers[r] \in Nat /\ attempts[r] \in Nat
    BY DEF TypeOK
  <2> QED
    BY <2>2, <2>3, <2>4
<1>2. /\ UNCHANGED <<availableAt, publishedAt, attempts, acked>>
      /\ offers' = [offers EXCEPT ![r] = @ + 1]
      /\ delivered' = delivered \/ delivered' = delivered \cup {<<r, token[w][r]>>}
  BY DEF DeliverTrue, DeliverFalse, table, outbox
<1>3. {d[1] : d \in delivered}' \in {{d[1] : d \in delivered}, {d[1] : d \in delivered} \cup {r}}
  <2>1. CASE delivered' = delivered
    BY <2>1
  <2>2. CASE delivered' = delivered \cup {<<r, token[w][r]>>}
    <3>1. {d[1] : d \in delivered}' = {d[1] : d \in delivered} \cup {<<r, token[w][r]>>[1]}
      BY <2>2, Zenon
    <3> QED
      BY <3>1
  <2> QED
    BY <1>2, <2>1, <2>2
<1>4. {s \in Row : Enqueued(s)}' = {s \in Row : Enqueued(s)}
  BY <1>2 DEF Enqueued
<1>5. {s \in Row : IsPublished(s)}' = {s \in Row : IsPublished(s)}
  BY <1>2 DEF IsPublished
<1> QED
  BY <1>1, <1>2, <1>3, <1>4, <1>5 DEF Abstract!Offer

\* The commit of a publication finishes an accepted row; one that was fenced out
\* changes nothing.
LEMMA PublishImplements ==
    ASSUME TypeOK, IndInv, NEW w \in Relay, pc[w] = "publishing", PublishWrites(w),
           UNCHANGED <<offers, delivered, acked>>
    PROVE  Abstract!Finish(cur[w]) \/ UNCHANGED Abstract!vars
<1>1. /\ UNCHANGED <<availableAt, attempts>>
      /\ publishedAt' = [r \in Row |-> IF r \in locked[w] THEN txNow[w] ELSE publishedAt[r]]
  BY DEF PublishWrites, Set
<1>2. locked[w] \subseteq {cur[w]} /\ txNow[w] # Null /\ cur[w] \in Row
  BY DEF IndInv, PassShape, TypeOK, Settling
<1>3. CASE locked[w] = {}
  <2>1. \A r \in Row : availableAt'[r] = availableAt[r] /\ publishedAt'[r] = publishedAt[r]
    BY <1>1, <1>3
  <2> QED
    BY <1>1, <2>1, SilentStep
<1>4. CASE locked[w] = {cur[w]}
  <2>1. ~IsPublished(cur[w])
    BY <1>4 DEF IndInv, Locks
  <2>2. cur[w] \in {d[1] : d \in delivered}
    <3>1. <<cur[w], token[w][cur[w]]>> \in delivered
      BY DEF IndInv, Deliveries
    <3>2. <<cur[w], token[w][cur[w]]>>[1] = cur[w]
      OBVIOUS
    <3> QED
      BY <3>1, <3>2, Zenon
  <2>3. {r \in Row : IsPublished(r)}' = {r \in Row : IsPublished(r)} \cup {cur[w]}
    BY <1>1, <1>2, <1>4 DEF IsPublished
  <2>4. {r \in Row : Enqueued(r)}' = {r \in Row : Enqueued(r)}
    BY <1>1 DEF Enqueued
  <2>5. cur[w] \notin {r \in Row : IsPublished(r)}
    BY <2>1
  <2> QED
    BY <1>1, <2>2, <2>3, <2>4, <2>5 DEF Abstract!Finish
<1> QED
  BY <1>2, <1>3, <1>4

\* A returned result reports rows that nobody has reported.
LEMMA ReturnImplements ==
    ASSUME TypeOK, IndInv, NEW w \in Relay, ReturnResult(w)
    PROVE  Abstract!Report
<1>1. /\ UNCHANGED <<availableAt, publishedAt, attempts, offers, delivered>>
      /\ acked' = [r \in Row |-> IF r \in published[w] THEN acked[r] + 1 ELSE acked[r]]
  BY DEF ReturnResult, table, outbox
<1>2. published[w] \in SUBSET {r \in {s \in Row : IsPublished(s)} : acked[r] = 0}
  <2> SUFFICES ASSUME NEW r \in published[w]
               PROVE  r \in Row /\ IsPublished(r) /\ acked[r] = 0
    OBVIOUS
  <2>1. r \in Row /\ r # cur[w]
    BY OutboxAssumption DEF ReturnResult, OutboxAssumption, TypeOK, Settling, Null
  <2>2. Mine(w, r)
    BY <2>1 DEF IndInv, Results
  <2> QED
    BY <2>1, <2>2 DEF IndInv, Acks, Mine
<1>3. {s \in Row : Enqueued(s)}' = {s \in Row : Enqueued(s)}
  BY <1>1 DEF Enqueued
<1>4. {s \in Row : IsPublished(s)}' = {s \in Row : IsPublished(s)}
  BY <1>1 DEF IsPublished
<1> QED
  BY <1>1, <1>2, <1>3, <1>4 DEF Abstract!Report

\* Every step of the relays and of their environment is one of AtLeastOnce or is
\* not seen there.
LEMMA StepImplements ==
    ASSUME TypeOK, IndInv, [Next]_vars
    PROVE  [Abstract!Next]_(Abstract!vars)
<1> DEFINE Refined == Abstract!Next \/ UNCHANGED Abstract!vars
<1>1. ASSUME UNCHANGED vars PROVE Refined
  BY <1>1, SilentStep DEF vars, table, outbox, hist
<1>2. ASSUME Tick PROVE Refined
  BY <1>2, SilentStep DEF Tick, table, outbox, hist
<1>3. ASSUME NEW r \in Row, NEW t \in 1..now, Enqueue(r, t) PROVE Refined
  BY <1>3, EnqueueImplements DEF Abstract!Next
<1>4. ASSUME NEW w \in Relay,
             \/ BeginPass(w) \/ ClaimBatch(w) \/ PublishClaim(w) \/ PublishFencedOut(w)
             \/ ReleaseClaim(w) \/ CommitRelease(w) \/ Abort(w)
      PROVE  Refined
  <2>1. UNCHANGED <<availableAt, publishedAt, attempts, offers, delivered, acked>>
    BY <1>4 DEF BeginPass, ClaimBatch, PublishClaim, PublishFencedOut, ReleaseClaim,
                CommitRelease, ReleaseWrites, Abort, table, outbox, hist
  <2> QED
    BY <2>1, SilentStep
<1>5. ASSUME NEW w \in Relay, CommitClaim(w) PROVE Refined
  BY <1>5, ClaimImplements DEF CommitClaim, hist, Abstract!Next
<1>6. ASSUME NEW w \in Relay, NEW r \in Row, DeliverTrue(w, r) \/ DeliverFalse(w, r)
      PROVE  Refined
  BY <1>6, DeliverImplements DEF Abstract!Next
<1>7. ASSUME NEW w \in Relay, pc[w] = "publishing", PublishWrites(w),
             UNCHANGED <<offers, delivered, acked>>
      PROVE  Refined
  <2>1. cur[w] \in Row
    BY <1>7 DEF TypeOK, Settling
  <2> QED
    BY <1>7, <2>1, PublishImplements DEF Abstract!Next
<1>8. ASSUME NEW w \in Relay, CommitPublish(w) PROVE Refined
  BY <1>7, <1>8 DEF CommitPublish, hist
<1>9. ASSUME NEW w \in Relay, ReturnResult(w) PROVE Refined
  BY <1>9, ReturnImplements DEF Abstract!Next
<1>10. ASSUME NEW w \in Relay, LoseAnswer(w) PROVE Refined
  <2>1. UNCHANGED <<offers, delivered, acked>>
    BY <1>10 DEF LoseAnswer, hist
  <2>2. CASE pc[w] = "claimed" /\ ClaimWrites(w)
    BY <2>1, <2>2, ClaimImplements DEF Abstract!Next
  <2>3. CASE pc[w] = "publishing" /\ PublishWrites(w)
    BY <1>7, <2>1, <2>3
  <2>4. CASE pc[w] = "releasing" /\ ReleaseWrites(w)
    BY <2>1, <2>4, SilentStep DEF ReleaseWrites
  <2> QED
    BY <1>10, <2>2, <2>3, <2>4 DEF LoseAnswer
<1> QED
  <2> HIDE DEF Refined
  <2>1. Refined
    BY <1>1, <1>2, <1>3, <1>4, <1>5, <1>6, <1>8, <1>9, <1>10 DEF Next, Step
  <2> QED
    BY <2>1 DEF Refined

\* The outbox and its relays implement AtLeastOnce (outbox.py, "at-least-once"): one
\* offer per counted attempt, done only when an offer was accepted, no new attempt
\* from then on, and at most one report, of what is done.
THEOREM Refinement == Spec => DeliversAtLeastOnce
<1>1. Init => Abstract!Init
  BY DEF Init, Abstract!Init, Enqueued, IsPublished
<1>2. (TypeOK /\ IndInv) /\ [Next]_vars => [Abstract!Next]_(Abstract!vars)
  BY StepImplements
<1> QED
  BY <1>1, <1>2, Invariance, PTL DEF Spec, DeliversAtLeastOnce, Abstract!Spec

=============================================================================
