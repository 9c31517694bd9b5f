-------------------------- MODULE DecisionLogProofs --------------------------
(***************************************************************************)
(* Machine-checked safety of the DecisionLog module, for any number of     *)
(* callers and tenants and any batches, and that it implements             *)
(* DecisionTrail.                                                          *)
(***************************************************************************)
EXTENDS DecisionLog, TLAPS

\* Entries exist from the mint on, and an entry in flight belongs to its caller.
Entries ==
    /\ \A h \in log : h <= minted
    /\ \A h \in Hash : h <= minted => tsOf[h] <= now
    /\ \A d \in Decider : entry[d] # Null =>
         /\ entry[d] <= minted /\ entry[d] \notin log
         /\ tenantOf[entry[d]] = tenant[d] /\ prevOf[entry[d]] = prev[d]
    /\ \A d, e \in Decider : entry[d] # Null /\ entry[d] = entry[e] => d = e

\* A resolved predecessor is a committed entry of the tenant, older than the
\* entry that will follow it.
Resolved ==
    /\ \A d \in Decider : pc[d] \in {"stamp", "insert", "inserted"} /\ prev[d] # Null =>
         prev[d] \in log /\ tenantOf[prev[d]] = tenant[d]
    /\ \A d \in Decider : entry[d] # Null /\ prev[d] # Null =>
         prev[d] < entry[d] /\ tsOf[prev[d]] <= tsOf[entry[d]]

\* An inserted row has its place to itself.
Inserted ==
    /\ \A d \in Decider : pc[d] = "inserted" =>
         \A k \in log : ~SamePlace(entry[d], k)
    /\ \A d, e \in Decider :
         pc[d] = "inserted" /\ pc[e] = "inserted" /\ SamePlace(entry[d], entry[e]) => d = e

\* The map of heads is the end of the call's own run of entries.
OwnRun ==
    \A d \in Decider :
        /\ own[d] \subseteq log
        /\ pc[d] = "idle" => own[d] = {} /\ heads[d] = NoHeads
        /\ \A t \in Tenant : heads[d][t] # Null =>
             heads[d][t] \in own[d] /\ tenantOf[heads[d][t]] = t
        /\ \A h \in own[d] : tenantOf[h] \in Tenant /\ heads[d][tenantOf[h]] # Null
        /\ pc[d] \in {"stamp", "insert", "inserted"} /\ heads[d][tenant[d]] # Null =>
             prev[d] = heads[d][tenant[d]]

\* A tenant with entries has a first one.
Genesis ==
    \A h \in log : \E k \in log : tenantOf[k] = tenantOf[h] /\ prevOf[k] = Null

\* What a call has committed for a tenant is one run of the chain.
OwnContiguous ==
    \A d \in Decider : \A h, k \in own[d] :
        tenantOf[h] = tenantOf[k] /\ prevOf[h] \notin own[d] /\ prevOf[k] \notin own[d]
            => h = k

IndInv ==
    /\ Entries /\ Resolved /\ Inserted /\ OwnRun /\ Genesis
    /\ ChainLinear /\ HandedOutIsLogged /\ InstantsFollowChain /\ OwnContiguous

\* What the proofs use of the names of entries.
LEMMA HashFacts ==
    /\ Null \notin Hash /\ Null \notin Tenant /\ Hash \subseteq Nat /\ Null \in Nat
    /\ \A n \in 0..MaxHash : n < MaxHash => n + 1 \in Hash /\ n + 1 \in 0..MaxHash
    /\ \A n \in 0..MaxHash : n \in Nat
    /\ \A n \in 1..MaxBatch : n \in Nat
  BY DecisionLogAssumption DEF DecisionLogAssumption, Hash, Null

-----------------------------------------------------------------------------
(* The three actions in which an entry becomes durable have this in common. *)

Appended(d) ==
    /\ pc[d] = "inserted" /\ pc'[d] # "inserted"
    /\ log' = log \cup {entry[d]}
    /\ \A e \in Decider : e # d => pc'[e] = pc[e] /\ entry'[e] = entry[e]
    /\ UNCHANGED fields

\* COMMIT answered, the batch goes on.
LEMMA AppendedByCommitMore ==
    ASSUME TypeOK, NEW d \in Decider, NEW t \in Tenant, CommitMore(d, t) PROVE Appended(d)
  BY DEF TypeOK, CommitMore, Appended

\* COMMIT answered, the call returns.
LEMMA AppendedByCommitLast ==
    ASSUME TypeOK, NEW d \in Decider, CommitLast(d) PROVE Appended(d)
  BY DEF TypeOK, CommitLast, EndCall, Appended

\* COMMIT took effect, the call rejects.
LEMMA AppendedByLoseAnswer ==
    ASSUME TypeOK, NEW d \in Decider, LoseAnswer(d) PROVE Appended(d)
  BY DEF TypeOK, LoseAnswer, EndCall, Appended

\* Another caller's inserted row is not at the place of the new entry.
LEMMA AppendKeepsPlaces ==
    ASSUME TypeOK, IndInv, NEW d \in Decider, Appended(d) PROVE Inserted'
<1>1. /\ tenantOf' = tenantOf /\ prevOf' = prevOf /\ log' = log \cup {entry[d]}
      /\ pc[d] = "inserted" /\ pc'[d] # "inserted"
      /\ \A e \in Decider : e # d => pc'[e] = pc[e] /\ entry'[e] = entry[e]
  BY DEF Appended, fields
<1>2. ASSUME NEW e \in Decider, pc'[e] = "inserted" PROVE e # d /\ pc[e] = "inserted"
  BY <1>1, <1>2
<1>3. ASSUME NEW e \in Decider, pc'[e] = "inserted", NEW k \in log'
      PROVE  ~SamePlace(entry[e], k)
  <2>1. CASE k \in log
    BY <1>2, <1>3, <2>1 DEF IndInv, Inserted
  <2>2. CASE k = entry[d]
    BY <1>1, <1>2, <1>3, <2>2 DEF IndInv, Inserted
  <2> QED
    BY <1>1, <2>1, <2>2
<1>4. \A e \in Decider : pc'[e] = "inserted" =>
        \A k \in log' : ~(tenantOf'[entry'[e]] = tenantOf'[k] /\ prevOf'[entry'[e]] = prevOf'[k])
  BY <1>1, <1>2, <1>3 DEF SamePlace
<1>5. \A e, f \in Decider :
        (/\ pc'[e] = "inserted" /\ pc'[f] = "inserted"
         /\ tenantOf'[entry'[e]] = tenantOf'[entry'[f]] /\ prevOf'[entry'[e]] = prevOf'[entry'[f]])
        => e = f
  <2> SUFFICES ASSUME NEW e \in Decider, NEW f \in Decider,
                      pc'[e] = "inserted", pc'[f] = "inserted",
                      tenantOf'[entry'[e]] = tenantOf'[entry'[f]],
                      prevOf'[entry'[e]] = prevOf'[entry'[f]]
               PROVE  e = f
    OBVIOUS
  <2>1. /\ pc[e] = "inserted" /\ pc[f] = "inserted" /\ entry'[e] = entry[e] /\ entry'[f] = entry[f]
    BY <1>1, <1>2
  <2>2. SamePlace(entry[e], entry[f])
    BY <1>1, <2>1 DEF SamePlace
  <2> QED
    BY <2>1, <2>2 DEF IndInv, Inserted
<1> QED
  BY <1>4, <1>5 DEF Inserted, SamePlace

\* The new entry is a genesis, or its predecessor's tenant has one.
LEMMA AppendKeepsGenesis ==
    ASSUME TypeOK, IndInv, NEW d \in Decider, Appended(d) PROVE Genesis'
<1>1. entry[d] # Null /\ UNCHANGED <<tenantOf, prevOf>> /\ log' = log \cup {entry[d]}
  BY DEF Appended, TypeOK, fields
<1>2. \A h \in log : \E k \in log' : tenantOf'[k] = tenantOf'[h] /\ prevOf'[k] = Null
  BY <1>1 DEF IndInv, Genesis
<1>3. CASE prev[d] = Null
  <2>1. prevOf[entry[d]] = Null
    BY <1>1, <1>3 DEF IndInv, Entries
  <2> QED
    BY <1>1, <1>2, <2>1 DEF Genesis
<1>4. CASE prev[d] # Null
  <2>1. prev[d] \in log /\ tenantOf[prev[d]] = tenantOf[entry[d]]
    BY <1>1, <1>4 DEF IndInv, Entries, Resolved, Appended
  <2> QED
    BY <1>1, <1>2, <2>1 DEF Genesis
<1> QED
  BY <1>3, <1>4

\* What does not touch the committed rows leaves the chain as it is.
LEMMA KeepsLinear ==
    ASSUME IndInv, log' = log,
           \A k \in log : tenantOf'[k] = tenantOf[k] /\ prevOf'[k] = prevOf[k]
    PROVE  ChainLinear'
<1>1. \A k, m \in log' : SamePlace(k, m)' => k = m
  BY DEF IndInv, ChainLinear, SamePlace
<1>2. \A k \in log' : prevOf'[k] # Null =>
        prevOf'[k] \in log' /\ tenantOf'[prevOf'[k]] = tenantOf'[k] /\ prevOf'[k] < k
  BY DEF IndInv, ChainLinear
<1>3. ASSUME NEW k \in log', NEW m \in log', tenantOf'[k] = tenantOf'[m],
             k \in Terminal(tenantOf[k])', m \in Terminal(tenantOf[k])'
      PROVE  k = m
  <2>1. k \in Terminal(tenantOf[k]) /\ m \in Terminal(tenantOf[k]) /\ tenantOf[k] = tenantOf[m]
    BY <1>3 DEF Terminal
  <2> QED
    BY <2>1, <1>3 DEF IndInv, ChainLinear
<1> QED
  BY <1>1, <1>2, <1>3 DEF ChainLinear

\* The heart of the matter: the new entry follows the one terminal entry of its
\* tenant, or there is none and it is the genesis.
LEMMA AppendKeepsLinear ==
    ASSUME TypeOK, IndInv, NEW d \in Decider, Appended(d) PROVE ChainLinear'
<1> DEFINE h == entry[d]
<1>1. /\ h \in Hash /\ h \notin log /\ log' = log \cup {h} /\ h # Null
      /\ UNCHANGED <<tenantOf, prevOf>>
  BY HashFacts DEF TypeOK, IndInv, Entries, Appended, fields
<1>2. \A k \in log : ~SamePlace(h, k)
  BY DEF Appended, IndInv, Inserted
<1>3. prevOf[h] # Null =>
        prevOf[h] \in log /\ tenantOf[prevOf[h]] = tenantOf[h] /\ prevOf[h] < h
  BY <1>1 DEF IndInv, Entries, Resolved, Appended
<1>4. \A k \in log : prevOf[k] # h
  <2> SUFFICES ASSUME NEW k \in log, prevOf[k] = h PROVE FALSE
    OBVIOUS
  <2> QED
    BY <1>1 DEF IndInv, ChainLinear
<1> HIDE DEF h
<1>5. \A k, m \in log' : SamePlace(k, m)' => k = m
  BY <1>1, <1>2 DEF IndInv, ChainLinear, SamePlace
<1>6. \A k \in log' : prevOf'[k] # Null =>
        prevOf'[k] \in log' /\ tenantOf'[prevOf'[k]] = tenantOf'[k] /\ prevOf'[k] < k
  BY <1>1, <1>3 DEF IndInv, ChainLinear
<1>7. ASSUME NEW k \in log, tenantOf[k] = tenantOf[h]
      PROVE  \E m \in log' : tenantOf[m] = tenantOf[h] /\ prevOf[m] = k
  <2>1. CASE prevOf[h] = Null
    <3>1. PICK m \in log : tenantOf[m] = tenantOf[h] /\ prevOf[m] = Null
      BY <1>7 DEF IndInv, Genesis
    <3> QED
      BY <1>2, <2>1, <3>1 DEF SamePlace
  <2>2. CASE prevOf[h] # Null
    <3>1. prevOf[h] \in Terminal(tenantOf[h])
      BY <1>2, <1>3, <2>2 DEF Terminal, SamePlace
    <3>2. k \in Terminal(tenantOf[h]) => k = prevOf[h]
      BY <1>3, <1>7, <2>2, <3>1 DEF IndInv, ChainLinear
    <3>3. CASE k \in Terminal(tenantOf[h])
      BY <1>1, <3>2, <3>3
    <3>4. CASE k \notin Terminal(tenantOf[h])
      BY <1>1, <1>7, <3>4 DEF Terminal
    <3> QED
      BY <3>3, <3>4
  <2> QED
    BY <2>1, <2>2
<1> DEFINE End(k) == ~\E m \in log' : tenantOf[m] = tenantOf[k] /\ prevOf[m] = k
<1>8. ASSUME NEW k \in log', NEW m \in log', tenantOf[k] = tenantOf[m], End(k), End(m)
      PROVE  k = m
  <2>1. CASE tenantOf[k] = tenantOf[h]
    <3>1. k \notin log /\ m \notin log
      BY <1>7, <1>8, <2>1
    <3> QED
      BY <1>1, <1>8, <3>1
  <2>2. CASE tenantOf[k] # tenantOf[h]
    <3>1. k \in log /\ m \in log
      BY <1>1, <1>8, <2>2
    <3>2. k \in Terminal(tenantOf[k]) /\ m \in Terminal(tenantOf[k])
      BY <1>1, <1>8, <3>1 DEF Terminal
    <3> QED
      BY <1>8, <3>1, <3>2 DEF IndInv, ChainLinear
  <2> QED
    BY <2>1, <2>2
<1>9. ASSUME NEW k \in log', NEW m \in log', tenantOf'[k] = tenantOf'[m],
             k \in Terminal(tenantOf[k])', m \in Terminal(tenantOf[k])'
      PROVE  k = m
  <2>1. End(k) /\ End(m)
    BY <1>1, <1>9 DEF Terminal
  <2> HIDE DEF End
  <2> QED
    BY <1>1, <1>8, <1>9, <2>1
<1> QED
  BY <1>5, <1>6, <1>9 DEF ChainLinear

\* A constructed entry is fresh, and nothing that was there changes.
Built(d, h) ==
    /\ h \in Hash /\ h \notin log /\ \A e \in Decider : entry[e] # h
    /\ log' = log /\ now' = now /\ tenant' = tenant /\ prev' = prev /\ minted' = h
    /\ tsOf'[h] = now /\ tenantOf'[h] = tenant[d] /\ prevOf'[h] = prev[d]
    /\ \A k \in Hash : k # h =>
         tsOf'[k] = tsOf[k] /\ tenantOf'[k] = tenantOf[k] /\ prevOf'[k] = prevOf[k]
    /\ entry'[d] = h /\ pc[d] = "stamp" /\ pc'[d] = "insert"
    /\ \A e \in Decider : e # d => entry'[e] = entry[e] /\ pc'[e] = pc[e]
    /\ \A k \in Hash : (k <= h <=> (k <= minted \/ k = h)) /\ (k <= minted => k < h)

\* What the construction of an entry does.
LEMMA StampBuilds ==
    ASSUME TypeOK, IndInv, NEW d \in Decider, Stamp(d) PROVE Built(d, minted + 1)
<1>1. minted + 1 \in Hash /\ minted \in Nat
  BY HashFacts DEF TypeOK, Stamp
<1>2. minted + 1 \notin log
  <2> SUFFICES ASSUME minted + 1 \in log PROVE FALSE
    OBVIOUS
  <2>1. minted + 1 <= minted
    BY DEF IndInv, Entries
  <2> QED
    BY <1>1, <2>1
<1>3. ASSUME NEW e \in Decider, entry[e] = minted + 1 PROVE FALSE
  <2>1. entry[e] # Null
    BY <1>1, <1>3, HashFacts
  <2>2. entry[e] <= minted
    BY <2>1 DEF IndInv, Entries
  <2> QED
    BY <1>1, <1>3, <2>2
<1>4. \A k \in Hash : (k <= minted + 1 <=> (k <= minted \/ k = minted + 1))
                      /\ (k <= minted => k < minted + 1)
  BY <1>1, HashFacts
<1>5. /\ log' = log /\ now' = now /\ tenant' = tenant /\ prev' = prev /\ minted' = minted + 1
      /\ entry'[d] = minted + 1 /\ pc[d] = "stamp" /\ pc'[d] = "insert"
      /\ \A e \in Decider : e # d => entry'[e] = entry[e] /\ pc'[e] = pc[e]
  BY DEF TypeOK, Stamp
<1>6. /\ tsOf'[minted + 1] = now /\ tenantOf'[minted + 1] = tenant[d]
      /\ prevOf'[minted + 1] = prev[d]
      /\ \A k \in Hash : k # minted + 1 =>
           tsOf'[k] = tsOf[k] /\ tenantOf'[k] = tenantOf[k] /\ prevOf'[k] = prevOf[k]
  BY <1>1 DEF TypeOK, Stamp
<1> QED
  BY <1>1, <1>2, <1>3, <1>4, <1>5, <1>6 DEF Built

\* Every invariant about entries survives it.
LEMMA BuildKeeps ==
    ASSUME TypeOK, IndInv, NEW d \in Decider, NEW h, Built(d, h)
    PROVE  Entries' /\ Resolved' /\ Inserted' /\ Genesis' /\ ChainLinear'
<1>1. Entries'
  <2>1. ASSUME NEW k \in log' PROVE k <= minted'
    BY DEF TypeOK, IndInv, Entries, Built
  <2>2. ASSUME NEW k \in Hash, k <= minted' PROVE tsOf'[k] <= now'
    <3>1. CASE k = h
      BY <3>1 DEF TypeOK, Built
    <3>2. CASE k # h
      BY <2>2, <3>2 DEF IndInv, Entries, Built
    <3> QED
      BY <3>1, <3>2
  <2>3. ASSUME NEW e \in Decider, entry'[e] # Null
        PROVE  /\ entry'[e] <= minted' /\ entry'[e] \notin log'
               /\ tenantOf'[entry'[e]] = tenant'[e] /\ prevOf'[entry'[e]] = prev'[e]
    <3>1. CASE e = d
      BY <3>1 DEF Built
    <3>2. CASE e # d
      <4>1. entry[e] \in Hash /\ entry'[e] = entry[e] /\ entry[e] # h
        BY <2>3, <3>2 DEF TypeOK, Built
      <4> QED
        BY <2>3, <3>2, <4>1 DEF IndInv, Entries, Built
    <3> QED
      BY <3>1, <3>2
  <2>4. ASSUME NEW e \in Decider, NEW f \in Decider, entry'[e] # Null, entry'[e] = entry'[f]
        PROVE  e = f
    BY <2>4 DEF IndInv, Entries, Built
  <2> QED
    BY <2>1, <2>2, <2>3, <2>4 DEF Entries
<1>2. Resolved'
  <2>1. ASSUME NEW e \in Decider, pc'[e] \in {"stamp", "insert", "inserted"}, prev'[e] # Null
        PROVE  prev'[e] \in log' /\ tenantOf'[prev'[e]] = tenant'[e]
    <3>1. pc[e] \in {"stamp", "insert", "inserted"}
      BY <2>1 DEF Built
    <3>2. prev[e] \in log /\ tenantOf[prev[e]] = tenant[e]
      BY <2>1, <3>1 DEF IndInv, Resolved, Built
    <3> QED
      BY <3>2 DEF TypeOK, Built
  <2>2. ASSUME NEW e \in Decider, entry'[e] # Null, prev'[e] # Null
        PROVE  prev'[e] < entry'[e] /\ tsOf'[prev'[e]] <= tsOf'[entry'[e]]
    <3>1. CASE e = d
      <4>1. prev[d] \in log /\ prev[d] \in Hash /\ prev[d] <= minted /\ prev[d] # h
        BY <2>2, <3>1 DEF TypeOK, IndInv, Entries, Resolved, Built
      <4>2. prev[d] < h /\ tsOf[prev[d]] <= now
        BY <4>1 DEF IndInv, Entries, Built
      <4> QED
        BY <3>1, <4>1, <4>2 DEF Built
    <3>2. CASE e # d
      <4>1. /\ entry[e] \in Hash /\ entry'[e] = entry[e] /\ entry[e] # h
            /\ pc[e] \in {"stamp", "insert", "inserted"}
        BY <2>2, <3>2 DEF TypeOK, Built
      <4>2. prev[e] \in log /\ prev[e] \in Hash /\ prev[e] # h
        BY <2>2, <4>1 DEF TypeOK, IndInv, Resolved, Built
      <4>3. prev[e] < entry[e] /\ tsOf[prev[e]] <= tsOf[entry[e]]
        BY <2>2, <3>2, <4>1 DEF IndInv, Resolved, Built
      <4> QED
        BY <4>1, <4>2, <4>3 DEF Built
    <3> QED
      BY <3>1, <3>2
  <2> QED
    BY <2>1, <2>2 DEF Resolved
<1>3. Inserted'
  <2>1. ASSUME NEW e \in Decider, pc'[e] = "inserted"
        PROVE  /\ entry'[e] = entry[e] /\ pc[e] = "inserted"
               /\ tenantOf'[entry[e]] = tenantOf[entry[e]] /\ prevOf'[entry[e]] = prevOf[entry[e]]
    BY <2>1 DEF TypeOK, Built
  <2>2. \A k \in log : tenantOf'[k] = tenantOf[k] /\ prevOf'[k] = prevOf[k]
    BY DEF TypeOK, Built
  <2> QED
    BY <2>1, <2>2 DEF IndInv, Inserted, SamePlace, Built
<1>4. \A k \in log : tenantOf'[k] = tenantOf[k] /\ prevOf'[k] = prevOf[k]
  BY DEF TypeOK, Built
<1>5. Genesis'
  BY <1>4 DEF IndInv, Genesis, Built
<1>6. ChainLinear'
  BY <1>4, KeepsLinear DEF Built
<1> QED
  BY <1>1, <1>2, <1>3, <1>5, <1>6

-----------------------------------------------------------------------------
(* One lemma per conjunct: every action of Next preserves it.              *)

\* Every step writes values of the right type, and a call has a request left.
LEMMA TypeStep ==
    ASSUME TypeOK, Next
    PROVE  TypeOK'
<1> USE HashFacts DEF TypeOK, fields, call, bounds, Location, NoHeads
<1>1. CASE Tick
  BY <1>1 DEF Tick
<1>2. ASSUME NEW d \in Decider, NEW n \in 1..MaxBatch, NEW t \in Tenant, Start(d, n, t) PROVE TypeOK'
  BY <1>2 DEF Start
<1>3. ASSUME NEW d \in Decider, Evaluate(d) PROVE TypeOK'
  BY <1>3 DEF Evaluate
<1>4. ASSUME NEW d \in Decider, ResolvePrevHash(d) PROVE TypeOK'
  BY <1>4 DEF ResolvePrevHash, Terminal
<1>5. ASSUME NEW d \in Decider, Stamp(d) PROVE TypeOK'
  BY <1>5 DEF Stamp
<1>6. ASSUME NEW d \in Decider, Insert(d) PROVE TypeOK'
  BY <1>6 DEF Insert, MustWait, Refused
<1>7. ASSUME NEW d \in Decider, Conflict(d) PROVE TypeOK'
  BY <1>7 DEF Conflict, EndCall
<1>8. ASSUME NEW d \in Decider, NEW t \in Tenant, CommitMore(d, t) PROVE TypeOK'
  <2>1. heads' \in [Decider -> [Tenant -> Hash \cup {Null}]]
    BY <1>8 DEF CommitMore
  <2>2. left' \in [Decider -> Nat]
    BY <1>8 DEF CommitMore
  <2> QED
    BY <1>8, <2>1, <2>2 DEF CommitMore
<1>9. ASSUME NEW d \in Decider, CommitLast(d) PROVE TypeOK'
  BY <1>9 DEF CommitLast, EndCall
<1>10. ASSUME NEW d \in Decider, Raise(d) PROVE TypeOK'
  BY <1>10 DEF Raise, EndCall, Spend
<1>11. ASSUME NEW d \in Decider, LoseAnswer(d) PROVE TypeOK'
  <2>1. entry[d] \in Hash
    BY <1>11 DEF LoseAnswer
  <2>2. log' \subseteq Hash
    BY <1>11, <2>1 DEF LoseAnswer
  <2>3. failures' \in Nat
    BY <1>11 DEF LoseAnswer, Spend
  <2> QED
    BY <1>11, <2>2, <2>3 DEF LoseAnswer, EndCall
<1> QED
  BY <1>1, <1>2, <1>3, <1>4, <1>5, <1>6, <1>7, <1>8, <1>9, <1>10, <1>11
  DEF Next, Step

\* A new entry is a fresh one, and stays as it was constructed.
LEMMA EntriesStep ==
    ASSUME TypeOK, IndInv, Next, TypeOK'
    PROVE  Entries'
<1> USE HashFacts DEF TypeOK, fields, call, bounds, Location, NoHeads, IndInv,
      Entries
<1>1. CASE Tick
  BY <1>1 DEF Tick
<1>2. ASSUME NEW d \in Decider, NEW n \in 1..MaxBatch, NEW t \in Tenant, Start(d, n, t) PROVE Entries'
  BY <1>2 DEF Start
<1>3. ASSUME NEW d \in Decider, Evaluate(d) PROVE Entries'
  BY <1>3 DEF Evaluate
<1>4. ASSUME NEW d \in Decider, ResolvePrevHash(d) PROVE Entries'
  BY <1>4 DEF ResolvePrevHash, Terminal
<1>5. ASSUME NEW d \in Decider, Stamp(d) PROVE Entries'
  BY <1>5, StampBuilds, BuildKeeps
<1>6. ASSUME NEW d \in Decider, Insert(d) PROVE Entries'
  BY <1>6 DEF Insert, MustWait, Refused
<1>7. ASSUME NEW d \in Decider, Conflict(d) PROVE Entries'
  BY <1>7 DEF Conflict, EndCall
<1>8. ASSUME NEW d \in Decider, NEW t \in Tenant, CommitMore(d, t) PROVE Entries'
  BY <1>8 DEF CommitMore
<1>9. ASSUME NEW d \in Decider, CommitLast(d) PROVE Entries'
  BY <1>9 DEF CommitLast, EndCall
<1>10. ASSUME NEW d \in Decider, Raise(d) PROVE Entries'
  BY <1>10 DEF Raise, EndCall, Spend
<1>11. ASSUME NEW d \in Decider, LoseAnswer(d) PROVE Entries'
  BY <1>11 DEF LoseAnswer, EndCall, Spend
<1> QED
  BY <1>1, <1>2, <1>3, <1>4, <1>5, <1>6, <1>7, <1>8, <1>9, <1>10, <1>11
  DEF Next, Step

\* Heads are read from committed rows, and committed rows stay.
LEMMA ResolvedStep ==
    ASSUME TypeOK, IndInv, Next, TypeOK'
    PROVE  Resolved'
<1> USE HashFacts DEF TypeOK, fields, call, bounds, Location, NoHeads, IndInv,
      Entries, Resolved, OwnRun
<1>1. CASE Tick
  BY <1>1 DEF Tick
<1>2. ASSUME NEW d \in Decider, NEW n \in 1..MaxBatch, NEW t \in Tenant, Start(d, n, t) PROVE Resolved'
  BY <1>2 DEF Start
<1>3. ASSUME NEW d \in Decider, Evaluate(d) PROVE Resolved'
  BY <1>3 DEF Evaluate
<1>4. ASSUME NEW d \in Decider, ResolvePrevHash(d) PROVE Resolved'
  BY <1>4 DEF ResolvePrevHash, Terminal
<1>5. ASSUME NEW d \in Decider, Stamp(d) PROVE Resolved'
  BY <1>5, StampBuilds, BuildKeeps
<1>6. ASSUME NEW d \in Decider, Insert(d) PROVE Resolved'
  BY <1>6 DEF Insert, MustWait, Refused
<1>7. ASSUME NEW d \in Decider, Conflict(d) PROVE Resolved'
  BY <1>7 DEF Conflict, EndCall
<1>8. ASSUME NEW d \in Decider, NEW t \in Tenant, CommitMore(d, t) PROVE Resolved'
  BY <1>8 DEF CommitMore
<1>9. ASSUME NEW d \in Decider, CommitLast(d) PROVE Resolved'
  BY <1>9 DEF CommitLast, EndCall
<1>10. ASSUME NEW d \in Decider, Raise(d) PROVE Resolved'
  BY <1>10 DEF Raise, EndCall, Spend
<1>11. ASSUME NEW d \in Decider, LoseAnswer(d) PROVE Resolved'
  BY <1>11 DEF LoseAnswer, EndCall, Spend
<1> QED
  BY <1>1, <1>2, <1>3, <1>4, <1>5, <1>6, <1>7, <1>8, <1>9, <1>10, <1>11
  DEF Next, Step

\* The unique indexes keep two rows from one place.
LEMMA InsertedStep ==
    ASSUME TypeOK, IndInv, Next, TypeOK'
    PROVE  Inserted'
<1> USE HashFacts DEF TypeOK, fields, call, bounds, Location, NoHeads, IndInv,
      Entries, Inserted, SamePlace
<1>1. CASE Tick
  BY <1>1 DEF Tick
<1>2. ASSUME NEW d \in Decider, NEW n \in 1..MaxBatch, NEW t \in Tenant, Start(d, n, t) PROVE Inserted'
  BY <1>2 DEF Start
<1>3. ASSUME NEW d \in Decider, Evaluate(d) PROVE Inserted'
  BY <1>3 DEF Evaluate
<1>4. ASSUME NEW d \in Decider, ResolvePrevHash(d) PROVE Inserted'
  BY <1>4 DEF ResolvePrevHash, Terminal
<1>5. ASSUME NEW d \in Decider, Stamp(d) PROVE Inserted'
  BY <1>5, StampBuilds, BuildKeeps
<1>6. ASSUME NEW d \in Decider, Insert(d) PROVE Inserted'
  <2>1. /\ pc'[d] = "inserted" /\ UNCHANGED <<log, tenantOf, prevOf, entry>>
        /\ \A e \in Decider : e # d => pc'[e] = pc[e]
    BY <1>6 DEF Insert
  <2>2. \A k \in log : ~SamePlace(entry[d], k)
    BY <1>6 DEF Insert, Refused
  <2>3. \A e \in Decider : e # d /\ pc[e] = "inserted" => ~SamePlace(entry[e], entry[d])
    BY <1>6 DEF Insert, MustWait
  <2>4. \A e \in Decider : e # d /\ pc[e] = "inserted" => ~SamePlace(entry[d], entry[e])
    BY <2>3
  <2> HIDE HashFacts DEF TypeOK
  <2> QED
    BY <2>1, <2>2, <2>3, <2>4
<1>7. ASSUME NEW d \in Decider, Conflict(d) PROVE Inserted'
  BY <1>7 DEF Conflict, EndCall
<1>8. ASSUME NEW d \in Decider, NEW t \in Tenant, CommitMore(d, t) PROVE Inserted'
  BY <1>8, AppendedByCommitMore, AppendKeepsPlaces
<1>9. ASSUME NEW d \in Decider, CommitLast(d) PROVE Inserted'
  BY <1>9, AppendedByCommitLast, AppendKeepsPlaces
<1>10. ASSUME NEW d \in Decider, Raise(d) PROVE Inserted'
  <2>1. /\ pc'[d] = "idle" /\ UNCHANGED <<log, fields>>
        /\ \A e \in Decider : e # d => entry'[e] = entry[e] /\ pc'[e] = pc[e]
    BY <1>10 DEF Raise, EndCall
  <2>2. tenantOf' = tenantOf /\ prevOf' = prevOf
    BY <2>1
  <2>3. \A e \in Decider : pc'[e] = "inserted" => entry'[e] = entry[e] /\ pc[e] = "inserted"
    BY <2>1
  <2> QED
    BY <2>1, <2>2, <2>3
<1>11. ASSUME NEW d \in Decider, LoseAnswer(d) PROVE Inserted'
  BY <1>11, AppendedByLoseAnswer, AppendKeepsPlaces
<1> QED
  BY <1>1, <1>2, <1>3, <1>4, <1>5, <1>6, <1>7, <1>8, <1>9, <1>10, <1>11
  DEF Next, Step

\* The map of heads follows the call's own entries.
LEMMA OwnRunStep ==
    ASSUME TypeOK, IndInv, Next, TypeOK'
    PROVE  OwnRun'
<1> USE HashFacts DEF TypeOK, fields, call, bounds, Location, NoHeads, IndInv,
      Entries, OwnRun
<1>1. CASE Tick
  BY <1>1 DEF Tick
<1>2. ASSUME NEW d \in Decider, NEW n \in 1..MaxBatch, NEW t \in Tenant, Start(d, n, t) PROVE OwnRun'
  BY <1>2 DEF Start
<1>3. ASSUME NEW d \in Decider, Evaluate(d) PROVE OwnRun'
  BY <1>3 DEF Evaluate
<1>4. ASSUME NEW d \in Decider, ResolvePrevHash(d) PROVE OwnRun'
  BY <1>4 DEF ResolvePrevHash, Terminal
<1>5. ASSUME NEW d \in Decider, Stamp(d) PROVE OwnRun'
  BY <1>5 DEF Stamp
<1>6. ASSUME NEW d \in Decider, Insert(d) PROVE OwnRun'
  BY <1>6 DEF Insert, MustWait, Refused
<1>7. ASSUME NEW d \in Decider, Conflict(d) PROVE OwnRun'
  BY <1>7 DEF Conflict, EndCall
<1>8. ASSUME NEW d \in Decider, NEW t \in Tenant, CommitMore(d, t) PROVE OwnRun'
  BY <1>8 DEF CommitMore
<1>9. ASSUME NEW d \in Decider, CommitLast(d) PROVE OwnRun'
  BY <1>9 DEF CommitLast, EndCall
<1>10. ASSUME NEW d \in Decider, Raise(d) PROVE OwnRun'
  BY <1>10 DEF Raise, EndCall, Spend
<1>11. ASSUME NEW d \in Decider, LoseAnswer(d) PROVE OwnRun'
  BY <1>11 DEF LoseAnswer, EndCall, Spend
<1> QED
  BY <1>1, <1>2, <1>3, <1>4, <1>5, <1>6, <1>7, <1>8, <1>9, <1>10, <1>11
  DEF Next, Step

\* The first entry of a tenant is a genesis.
LEMMA GenesisStep ==
    ASSUME TypeOK, IndInv, Next, TypeOK'
    PROVE  Genesis'
<1> USE HashFacts DEF TypeOK, fields, call, bounds, Location, NoHeads, IndInv,
      Entries, Resolved, Genesis
<1>1. CASE Tick
  BY <1>1 DEF Tick
<1>2. ASSUME NEW d \in Decider, NEW n \in 1..MaxBatch, NEW t \in Tenant, Start(d, n, t) PROVE Genesis'
  BY <1>2 DEF Start
<1>3. ASSUME NEW d \in Decider, Evaluate(d) PROVE Genesis'
  BY <1>3 DEF Evaluate
<1>4. ASSUME NEW d \in Decider, ResolvePrevHash(d) PROVE Genesis'
  <2>1. log' = log /\ tenantOf' = tenantOf /\ prevOf' = prevOf
    BY <1>4 DEF ResolvePrevHash
  <2> QED
    BY <2>1
<1>5. ASSUME NEW d \in Decider, Stamp(d) PROVE Genesis'
  BY <1>5, StampBuilds, BuildKeeps
<1>6. ASSUME NEW d \in Decider, Insert(d) PROVE Genesis'
  BY <1>6 DEF Insert, MustWait, Refused
<1>7. ASSUME NEW d \in Decider, Conflict(d) PROVE Genesis'
  BY <1>7 DEF Conflict, EndCall
<1>8. ASSUME NEW d \in Decider, NEW t \in Tenant, CommitMore(d, t) PROVE Genesis'
  BY <1>8, AppendedByCommitMore, AppendKeepsGenesis
<1>9. ASSUME NEW d \in Decider, CommitLast(d) PROVE Genesis'
  BY <1>9, AppendedByCommitLast, AppendKeepsGenesis
<1>10. ASSUME NEW d \in Decider, Raise(d) PROVE Genesis'
  BY <1>10 DEF Raise, EndCall, Spend
<1>11. ASSUME NEW d \in Decider, LoseAnswer(d) PROVE Genesis'
  BY <1>11, AppendedByLoseAnswer, AppendKeepsGenesis
<1> QED
  BY <1>1, <1>2, <1>3, <1>4, <1>5, <1>6, <1>7, <1>8, <1>9, <1>10, <1>11
  DEF Next, Step

\* The chain grows at its one end.
LEMMA LinearStep ==
    ASSUME TypeOK, IndInv, Next, TypeOK'
    PROVE  ChainLinear'
<1> USE HashFacts DEF TypeOK, fields, call, bounds, Location, NoHeads
<1>1. CASE Tick
  BY <1>1, KeepsLinear DEF Tick
<1>2. ASSUME NEW d \in Decider, NEW n \in 1..MaxBatch, NEW t \in Tenant, Start(d, n, t) PROVE ChainLinear'
  BY <1>2, KeepsLinear DEF Start
<1>3. ASSUME NEW d \in Decider, Evaluate(d) PROVE ChainLinear'
  BY <1>3, KeepsLinear DEF Evaluate
<1>4. ASSUME NEW d \in Decider, ResolvePrevHash(d) PROVE ChainLinear'
  BY <1>4, KeepsLinear DEF ResolvePrevHash, Terminal
<1>5. ASSUME NEW d \in Decider, Stamp(d) PROVE ChainLinear'
  BY <1>5, StampBuilds, BuildKeeps
<1>6. ASSUME NEW d \in Decider, Insert(d) PROVE ChainLinear'
  BY <1>6, KeepsLinear DEF Insert, MustWait, Refused
<1>7. ASSUME NEW d \in Decider, Conflict(d) PROVE ChainLinear'
  BY <1>7, KeepsLinear DEF Conflict, EndCall
<1>8. ASSUME NEW d \in Decider, NEW t \in Tenant, CommitMore(d, t) PROVE ChainLinear'
  BY <1>8, AppendedByCommitMore, AppendKeepsLinear
<1>9. ASSUME NEW d \in Decider, CommitLast(d) PROVE ChainLinear'
  BY <1>9, AppendedByCommitLast, AppendKeepsLinear
<1>10. ASSUME NEW d \in Decider, Raise(d) PROVE ChainLinear'
  BY <1>10, KeepsLinear DEF Raise, EndCall, Spend
<1>11. ASSUME NEW d \in Decider, LoseAnswer(d) PROVE ChainLinear'
  BY <1>11, AppendedByLoseAnswer, AppendKeepsLinear
<1> QED
  BY <1>1, <1>2, <1>3, <1>4, <1>5, <1>6, <1>7, <1>8, <1>9, <1>10, <1>11
  DEF Next, Step

\* Decisions are handed out after their COMMIT was answered.
LEMMA HandedStep ==
    ASSUME TypeOK, IndInv, Next, TypeOK'
    PROVE  HandedOutIsLogged'
<1> USE HashFacts DEF TypeOK, fields, call, bounds, Location, NoHeads, IndInv,
      HandedOutIsLogged, OwnRun
<1>1. CASE Tick
  BY <1>1 DEF Tick
<1>2. ASSUME NEW d \in Decider, NEW n \in 1..MaxBatch, NEW t \in Tenant, Start(d, n, t) PROVE HandedOutIsLogged'
  BY <1>2 DEF Start
<1>3. ASSUME NEW d \in Decider, Evaluate(d) PROVE HandedOutIsLogged'
  BY <1>3 DEF Evaluate
<1>4. ASSUME NEW d \in Decider, ResolvePrevHash(d) PROVE HandedOutIsLogged'
  BY <1>4 DEF ResolvePrevHash, Terminal
<1>5. ASSUME NEW d \in Decider, Stamp(d) PROVE HandedOutIsLogged'
  BY <1>5 DEF Stamp
<1>6. ASSUME NEW d \in Decider, Insert(d) PROVE HandedOutIsLogged'
  BY <1>6 DEF Insert, MustWait, Refused
<1>7. ASSUME NEW d \in Decider, Conflict(d) PROVE HandedOutIsLogged'
  BY <1>7 DEF Conflict, EndCall
<1>8. ASSUME NEW d \in Decider, NEW t \in Tenant, CommitMore(d, t) PROVE HandedOutIsLogged'
  BY <1>8 DEF CommitMore
<1>9. ASSUME NEW d \in Decider, CommitLast(d) PROVE HandedOutIsLogged'
  BY <1>9 DEF CommitLast, EndCall
<1>10. ASSUME NEW d \in Decider, Raise(d) PROVE HandedOutIsLogged'
  BY <1>10 DEF Raise, EndCall, Spend
<1>11. ASSUME NEW d \in Decider, LoseAnswer(d) PROVE HandedOutIsLogged'
  BY <1>11 DEF LoseAnswer, EndCall, Spend
<1> QED
  BY <1>1, <1>2, <1>3, <1>4, <1>5, <1>6, <1>7, <1>8, <1>9, <1>10, <1>11
  DEF Next, Step

\* The clock is read after the head.
LEMMA InstantsStep ==
    ASSUME TypeOK, IndInv, Next, TypeOK'
    PROVE  InstantsFollowChain'
<1> USE HashFacts DEF TypeOK, fields, call, bounds, Location, NoHeads, IndInv,
      Entries, Resolved, ChainLinear, InstantsFollowChain
<1>1. CASE Tick
  BY <1>1 DEF Tick
<1>2. ASSUME NEW d \in Decider, NEW n \in 1..MaxBatch, NEW t \in Tenant, Start(d, n, t) PROVE InstantsFollowChain'
  BY <1>2 DEF Start
<1>3. ASSUME NEW d \in Decider, Evaluate(d) PROVE InstantsFollowChain'
  BY <1>3 DEF Evaluate
<1>4. ASSUME NEW d \in Decider, ResolvePrevHash(d) PROVE InstantsFollowChain'
  BY <1>4 DEF ResolvePrevHash, Terminal
<1>5. ASSUME NEW d \in Decider, Stamp(d) PROVE InstantsFollowChain'
  BY <1>5 DEF Stamp
<1>6. ASSUME NEW d \in Decider, Insert(d) PROVE InstantsFollowChain'
  BY <1>6 DEF Insert, MustWait, Refused
<1>7. ASSUME NEW d \in Decider, Conflict(d) PROVE InstantsFollowChain'
  BY <1>7 DEF Conflict, EndCall
<1>8. ASSUME NEW d \in Decider, NEW t \in Tenant, CommitMore(d, t) PROVE InstantsFollowChain'
  BY <1>8 DEF CommitMore
<1>9. ASSUME NEW d \in Decider, CommitLast(d) PROVE InstantsFollowChain'
  BY <1>9 DEF CommitLast, EndCall
<1>10. ASSUME NEW d \in Decider, Raise(d) PROVE InstantsFollowChain'
  BY <1>10 DEF Raise, EndCall, Spend
<1>11. ASSUME NEW d \in Decider, LoseAnswer(d) PROVE InstantsFollowChain'
  BY <1>11 DEF LoseAnswer, EndCall, Spend
<1> QED
  BY <1>1, <1>2, <1>3, <1>4, <1>5, <1>6, <1>7, <1>8, <1>9, <1>10, <1>11
  DEF Next, Step

\* A second entry of a call follows the first.
LEMMA ContiguousStep ==
    ASSUME TypeOK, IndInv, Next, TypeOK'
    PROVE  OwnContiguous'
<1> USE HashFacts DEF TypeOK, fields, call, bounds, Location, NoHeads, IndInv,
      Entries, OwnRun, OwnContiguous
<1>1. CASE Tick
  BY <1>1 DEF Tick
<1>2. ASSUME NEW d \in Decider, NEW n \in 1..MaxBatch, NEW t \in Tenant, Start(d, n, t) PROVE OwnContiguous'
  BY <1>2 DEF Start
<1>3. ASSUME NEW d \in Decider, Evaluate(d) PROVE OwnContiguous'
  BY <1>3 DEF Evaluate
<1>4. ASSUME NEW d \in Decider, ResolvePrevHash(d) PROVE OwnContiguous'
  BY <1>4 DEF ResolvePrevHash, Terminal
<1>5. ASSUME NEW d \in Decider, Stamp(d) PROVE OwnContiguous'
  BY <1>5 DEF Stamp
<1>6. ASSUME NEW d \in Decider, Insert(d) PROVE OwnContiguous'
  BY <1>6 DEF Insert, MustWait, Refused
<1>7. ASSUME NEW d \in Decider, Conflict(d) PROVE OwnContiguous'
  <2>1. UNCHANGED fields /\ own' = [own EXCEPT ![d] = {}]
    BY <1>7 DEF Conflict, EndCall
  <2> QED
    BY <2>1
<1>8. ASSUME NEW d \in Decider, NEW t \in Tenant, CommitMore(d, t) PROVE OwnContiguous'
  BY <1>8 DEF CommitMore
<1>9. ASSUME NEW d \in Decider, CommitLast(d) PROVE OwnContiguous'
  BY <1>9 DEF CommitLast, EndCall
<1>10. ASSUME NEW d \in Decider, Raise(d) PROVE OwnContiguous'
  BY <1>10 DEF Raise, EndCall, Spend
<1>11. ASSUME NEW d \in Decider, LoseAnswer(d) PROVE OwnContiguous'
  BY <1>11 DEF LoseAnswer, EndCall, Spend
<1> QED
  BY <1>1, <1>2, <1>3, <1>4, <1>5, <1>6, <1>7, <1>8, <1>9, <1>10, <1>11
  DEF Next, Step

-----------------------------------------------------------------------------
(* The theorems.                                                           *)

\* The empty log satisfies the inductive invariant.
LEMMA InitIndInv == Init => TypeOK /\ IndInv
<1> SUFFICES ASSUME Init PROVE TypeOK /\ IndInv
  OBVIOUS
<1> USE HashFacts, DecisionLogAssumption
<1>1. TypeOK
  BY DEF Init, TypeOK, Location, NoHeads, DecisionLogAssumption
<1>2. Entries /\ Resolved /\ Inserted /\ Genesis
  BY DEF Init, Entries, Resolved, Inserted, Genesis
<1>3. OwnRun /\ OwnContiguous
  BY DEF Init, OwnRun, OwnContiguous, NoHeads
<1>4. ChainLinear /\ HandedOutIsLogged /\ InstantsFollowChain
  BY DEF Init, ChainLinear, HandedOutIsLogged, InstantsFollowChain
<1> QED
  BY <1>1, <1>2, <1>3, <1>4 DEF IndInv

\* A step that changes nothing keeps everything.
LEMMA StutterIndInv == TypeOK /\ IndInv /\ UNCHANGED vars => TypeOK' /\ IndInv'
<1> SUFFICES ASSUME TypeOK, IndInv, UNCHANGED vars PROVE TypeOK' /\ IndInv'
  OBVIOUS
<1>1. TypeOK'
  BY DEF TypeOK, vars, fields, call, bounds
<1>2. Entries' /\ Resolved' /\ Inserted' /\ Genesis'
  BY DEF IndInv, Entries, Resolved, Inserted, Genesis, SamePlace, vars, fields, call
<1>3. OwnRun' /\ OwnContiguous' /\ HandedOutIsLogged' /\ InstantsFollowChain'
  BY DEF IndInv, OwnRun, OwnContiguous, HandedOutIsLogged, InstantsFollowChain,
         vars, fields, call
<1>4. ChainLinear'
  BY KeepsLinear DEF vars, fields
<1> QED
  BY <1>1, <1>2, <1>3, <1>4 DEF IndInv

\* The inductive invariant holds in every reachable state.
THEOREM Invariance == Spec => [](TypeOK /\ IndInv)
<1>1. TypeOK /\ IndInv /\ [Next]_vars => TypeOK' /\ IndInv'
  <2> SUFFICES ASSUME TypeOK, IndInv, [Next]_vars PROVE TypeOK' /\ IndInv'
    OBVIOUS
  <2>1. CASE Next
    BY <2>1, TypeStep, EntriesStep, ResolvedStep, InsertedStep, OwnRunStep, GenesisStep,
       LinearStep, HandedStep, InstantsStep, ContiguousStep
    DEF IndInv
  <2>2. CASE UNCHANGED vars
    BY <2>2, StutterIndInv
  <2> QED
    BY <2>1, <2>2
<1> QED
  BY <1>1, InitIndInv, PTL DEF Spec

\* Every variable of the module keeps its type.
THEOREM TypeCorrect == Spec => []TypeOK
  BY Invariance, PTL

\* No interleaving of callers, failures and lost answers forks a tenant's chain.
THEOREM ChainSafety == Spec => []ChainLinear
<1>1. IndInv => ChainLinear
  BY DEF IndInv
<1> QED
  BY <1>1, Invariance, PTL

\* Every decision a caller was given is in the log.
THEOREM HandedSafety == Spec => []HandedOutIsLogged
<1>1. IndInv => HandedOutIsLogged
  BY DEF IndInv
<1> QED
  BY <1>1, Invariance, PTL

\* The instants of a chain never run backwards, if the clock does not.
THEOREM InstantsSafety == Spec => []InstantsFollowChain
<1>1. IndInv => InstantsFollowChain
  BY DEF IndInv
<1> QED
  BY <1>1, Invariance, PTL

\* The entries of one decideAll are never split by another caller's.
THEOREM ContiguousSafety == Spec => []BatchContiguous
<1>1. TypeOK /\ IndInv => BatchContiguous
  <2> SUFFICES ASSUME TypeOK, IndInv, NEW d \in Decider, NEW h \in RunOf(d), NEW k \in RunOf(d),
                      tenantOf[h] = tenantOf[k],
                      prevOf[h] \notin RunOf(d), prevOf[k] \notin RunOf(d)
               PROVE  h = k
    BY DEF BatchContiguous
  <2>1. \A x \in own[d] : x \in log /\ tenantOf[x] \in Tenant /\ heads[d][tenantOf[x]] # Null
    BY DEF IndInv, OwnRun
  \* An entry that continues own entries of its tenant has one of them before it.
  <2>2. ASSUME NEW x \in own[d], pc[d] = "inserted", tenantOf[x] = tenantOf[entry[d]]
        PROVE  prevOf[entry[d]] \in own[d]
    <3>1. entry[d] # Null
      BY <2>2 DEF TypeOK
    <3>2. tenantOf[entry[d]] = tenant[d] /\ prevOf[entry[d]] = prev[d]
      BY <3>1 DEF IndInv, Entries
    <3>3. tenant[d] \in Tenant /\ heads[d][tenant[d]] # Null
      BY <2>1, <2>2, <3>2
    <3>4. prev[d] = heads[d][tenant[d]] /\ heads[d][tenant[d]] \in own[d]
      BY <2>2, <3>3 DEF IndInv, OwnRun
    <3> QED
      BY <3>2, <3>4
  <2>3. CASE h \in own[d] /\ k \in own[d]
    BY <2>3 DEF RunOf, IndInv, OwnContiguous
  <2>4. CASE h \notin own[d] /\ k \in own[d]
    BY <2>2, <2>4 DEF RunOf
  <2>5. CASE h \in own[d] /\ k \notin own[d]
    BY <2>2, <2>5 DEF RunOf
  <2>6. CASE h \notin own[d] /\ k \notin own[d]
    BY <2>6 DEF RunOf
  <2> QED
    BY <2>3, <2>4, <2>5, <2>6
<1> QED
  BY <1>1, Invariance, PTL

\* A resolved predecessor is committed, so the foreign key never refuses.
THEOREM PrevHashSafety == Spec => []PrevHashIsCommitted
<1>1. TypeOK /\ IndInv => PrevHashIsCommitted
  BY DEF TypeOK, IndInv, Entries, Resolved, PrevHashIsCommitted
<1> QED
  BY <1>1, Invariance, PTL

-----------------------------------------------------------------------------
(* The refinement of DecisionTrail.                                        *)

\* Without a change of its ends the end of a chain stays.
LEMMA SameEnds == ASSUME NEW t, Terminal(t)' = Terminal(t) PROVE LastOf(t)' = LastOf(t)
<1>1. PICK ends : ends = Terminal(t) /\ ends = Terminal(t)'
  OBVIOUS
<1>2. LastOf(t) = IF ends = {} THEN Null ELSE CHOOSE h \in ends : TRUE
  BY <1>1 DEF LastOf
<1>3. LastOf(t)' = IF ends = {} THEN Null ELSE CHOOSE h \in ends : TRUE
  BY <1>1 DEF LastOf
<1> QED
  BY <1>2, <1>3

\* A step that an auditor cannot see.
LEMMA SilentStep ==
    ASSUME log' = log, handed' = handed,
           \A h \in log : tenantOf'[h] = tenantOf[h] /\ prevOf'[h] = prevOf[h]
    PROVE  UNCHANGED Abstract!vars
<1>1. {AsRow(h) : h \in log}' = {AsRow(h) : h \in log}
  BY DEF AsRow
<1>2. \A t \in Tenant : Terminal(t)' = Terminal(t)
  BY DEF Terminal
<1>3. \A t \in Tenant : LastOf(t)' = LastOf(t)
  BY <1>2, SameEnds
<1>4. [t \in Tenant |-> LastOf(t)]' = [t \in Tenant |-> LastOf(t)]
  BY <1>3
<1> QED
  BY <1>1, <1>4 DEF Abstract!vars

\* The end of a chain without entries, and of one with one end.
LEMMA LastOfEmpty == ASSUME NEW t, Terminal(t) = {} PROVE LastOf(t) = Null
  BY DEF LastOf
LEMMA LastOfOne == ASSUME NEW t, NEW h, Terminal(t) = {h} PROVE LastOf(t) = h
  BY DEF LastOf

\* An entry that commits follows the end of its tenant's chain and is its new end.
LEMMA AppendedAtEnd ==
    ASSUME TypeOK, IndInv, IndInv', NEW d \in Decider, Appended(d),
           NEW t, t = tenant[d], NEW h, h = entry[d]
    PROVE  /\ LastOf(t) = prevOf[h]
           /\ LastOf(t)' = h
           /\ \A u \in Tenant : u # t => LastOf(u)' = LastOf(u)
<1>1. /\ h \in Hash /\ h \notin log /\ log' = log \cup {h} /\ h # Null /\ tenantOf[h] = t
      /\ UNCHANGED <<tenantOf, prevOf>>
  BY HashFacts DEF TypeOK, IndInv, Entries, Appended, fields
<1>2. \A k \in log : ~SamePlace(h, k)
  BY DEF Appended, IndInv, Inserted
<1>3. prevOf[h] # Null => prevOf[h] \in log /\ tenantOf[prevOf[h]] = t
  BY <1>1 DEF IndInv, Entries, Resolved, Appended
<1>4. LastOf(t) = prevOf[h]
  <2>1. CASE prevOf[h] = Null
    <3>1. Terminal(t) = {}
      <4> SUFFICES ASSUME NEW k \in log, tenantOf[k] = t PROVE FALSE
        BY DEF Terminal
      <4>1. PICK m \in log : tenantOf[m] = tenantOf[k] /\ prevOf[m] = Null
        BY DEF IndInv, Genesis
      <4> QED
        BY <4>1, <1>1, <1>2, <2>1 DEF SamePlace
    <3> QED
      BY <2>1, <3>1, LastOfEmpty
  <2>2. CASE prevOf[h] # Null
    <3>1. prevOf[h] \in Terminal(t)
      BY <1>1, <1>2, <1>3, <2>2 DEF Terminal, SamePlace
    <3>2. \A k \in Terminal(t) : k = prevOf[h]
      BY <1>3, <2>2, <3>1 DEF Terminal, IndInv, ChainLinear
    <3>3. Terminal(t) = {prevOf[h]}
      BY <3>1, <3>2
    <3> QED
      BY <3>3, LastOfOne
  <2> QED
    BY <2>1, <2>2
<1>5. Terminal(t)' = {h}
  <2>1. h \in Terminal(t)'
    <3>1. ASSUME NEW k \in log', prevOf'[k] = h PROVE FALSE
      <4>1. prevOf[k] = h
        BY <1>1, <3>1
      <4>2. CASE k = h
        BY <4>1, <4>2, <1>1, <1>3
      <4>3. CASE k \in log
        BY <4>1, <4>3, <1>1 DEF IndInv, ChainLinear
      <4> QED
        BY <1>1, <4>2, <4>3
    <3> QED
      BY <1>1, <3>1 DEF Terminal
  <2>2. \A k \in Terminal(t)' : k = h
    <3>1. ChainLinear'
      BY DEF IndInv
    <3> QED
      BY <1>1, <2>1, <3>1 DEF Terminal, ChainLinear
  <2> QED
    BY <2>1, <2>2
<1>6. LastOf(t)' = h
  BY <1>5 DEF LastOf
<1>7. ASSUME NEW u \in Tenant, u # t PROVE LastOf(u)' = LastOf(u)
  <2>1. Terminal(u)' = Terminal(u)
    BY <1>1, <1>7 DEF Terminal
  <2> QED
    BY <2>1, SameEnds
<1> QED
  BY <1>4, <1>6, <1>7

\* The commit of an entry is an Append; who is told is told of what is in the log.
LEMMA AppendImplements ==
    ASSUME TypeOK, IndInv, IndInv', NEW d \in Decider, Appended(d), handed \subseteq handed'
    PROVE  Abstract!Append(tenant[d], entry[d])
<1>1. PICK h : h = entry[d]
  OBVIOUS
<1>2. PICK t : t = tenant[d]
  OBVIOUS
<1>3. /\ h \in Hash /\ h \notin log /\ log' = log \cup {h} /\ tenantOf[h] = t /\ t \in Tenant
      /\ UNCHANGED <<tenantOf, prevOf>>
  BY <1>1, <1>2, HashFacts DEF TypeOK, IndInv, Entries, Appended, fields
<1>4. \A k : AsRow(k).entry = k
  BY DEF AsRow
<1>5. {r.entry : r \in {AsRow(k) : k \in log}} = log
  BY <1>4
<1>6. {r.entry : r \in {AsRow(k) : k \in log}}' = log'
  <2>1. \A k : AsRow(k)'.entry = k
    BY DEF AsRow
  <2> QED
    BY <2>1
<1>7. {AsRow(k) : k \in log}'
        = {AsRow(k) : k \in log} \cup {[entry |-> h, tenant |-> t, follows |-> LastOf(t)]}
  <2>1. AsRow(h) = [entry |-> h, tenant |-> t, follows |-> LastOf(t)]
    BY <1>1, <1>2, <1>3, AppendedAtEnd DEF AsRow
  <2>2. {AsRow(k) : k \in log}' = {AsRow(k) : k \in log \cup {h}}
    BY <1>3 DEF AsRow
  <2> QED
    BY <2>1, <2>2
<1>8. [u \in Tenant |-> LastOf(u)]' = [[u \in Tenant |-> LastOf(u)] EXCEPT ![t] = h]
  <2>1. \A u \in Tenant : LastOf(u)' = IF u = t THEN h ELSE LastOf(u)
    <3>1. LastOf(t)' = h /\ \A u \in Tenant : u # t => LastOf(u)' = LastOf(u)
      BY <1>1, <1>2, AppendedAtEnd
    <3> QED
      BY <3>1
  <2> QED
    BY <1>3, <2>1
<1>9. handed' \in SUBSET log' /\ handed' = handed \cup handed'
  BY DEF IndInv, HandedOutIsLogged
<1>10. LastOf(t) = [u \in Tenant |-> LastOf(u)][t]
  BY <1>3
<1> QED
  BY <1>1, <1>2, <1>3, <1>5, <1>6, <1>7, <1>8, <1>9, <1>10
     DEF Abstract!Append, Abstract!Recorded

\* Every step of the callers is an Append or is not seen in the trail.
LEMMA StepImplements ==
    ASSUME TypeOK, IndInv, IndInv', [Next]_vars
    PROVE  [Abstract!Next]_(Abstract!vars)
<1> DEFINE Refined == Abstract!Next \/ UNCHANGED Abstract!vars
<1>1. ASSUME UNCHANGED <<log, fields, handed>> PROVE Refined
  BY <1>1, SilentStep DEF fields
<1>2. ASSUME NEW d \in Decider, Stamp(d) PROVE Refined
  <2>1. PICK h : Built(d, h)
    BY <1>2, StampBuilds
  <2>2. \A k \in log : tenantOf'[k] = tenantOf[k] /\ prevOf'[k] = prevOf[k]
    BY <2>1 DEF Built, TypeOK
  <2> QED
    BY <1>2, <2>1, <2>2, SilentStep DEF Built, Stamp
<1>3. ASSUME NEW d \in Decider, Appended(d), handed \subseteq handed' PROVE Refined
  <2>1. tenant[d] \in Tenant /\ entry[d] \in Hash
    BY <1>3, HashFacts DEF Appended, TypeOK
  <2> QED
    BY <1>3, <2>1, AppendImplements DEF Abstract!Next
<1>4. ASSUME NEW d \in Decider, NEW t \in Tenant, CommitMore(d, t) PROVE Refined
  BY <1>3, <1>4, AppendedByCommitMore DEF CommitMore
<1>5. ASSUME NEW d \in Decider, CommitLast(d) PROVE Refined
  BY <1>3, <1>5, AppendedByCommitLast DEF CommitLast
<1>6. ASSUME NEW d \in Decider, LoseAnswer(d) PROVE Refined
  BY <1>3, <1>6, AppendedByLoseAnswer DEF LoseAnswer
<1>7. ASSUME NEW d \in Decider,
             \/ Evaluate(d) \/ ResolvePrevHash(d) \/ Insert(d) \/ Conflict(d) \/ Raise(d)
             \/ \E n \in 1..MaxBatch, t \in Tenant : Start(d, n, t)
      PROVE  Refined
  <2>1. UNCHANGED <<log, fields, handed>>
    BY <1>7 DEF Evaluate, ResolvePrevHash, Insert, Conflict, Raise, Start
  <2> QED
    BY <1>1, <2>1
<1>8. ASSUME Tick PROVE Refined
  BY <1>1, <1>8 DEF Tick
<1>9. ASSUME UNCHANGED vars PROVE Refined
  BY <1>1, <1>9 DEF vars
<1> QED
  <2> HIDE DEF Refined
  <2>1. Refined
    BY <1>2, <1>4, <1>5, <1>6, <1>7, <1>8, <1>9 DEF Next, Step
  <2> QED
    BY <2>1 DEF Refined

\* The decision log implements DecisionTrail (decision-logging-policy-decision-point.mjs,
\* postgres-decision-log-adapter.mjs): however callers race, fail and lose answers, a
\* tenant's trail grows at its end only, and callers learn of what is in it.
THEOREM Refinement == Spec => KeepsTrail
<1>1. Init => Abstract!Init
  <2> SUFFICES ASSUME Init PROVE Abstract!Init
    OBVIOUS
  <2>1. \A t : Terminal(t) = {}
    BY DEF Init, Terminal
  <2>2. \A t : LastOf(t) = Null
    BY <2>1, LastOfEmpty
  <2> QED
    BY <2>2 DEF Init, Abstract!Init
<1>2. (TypeOK /\ IndInv) /\ (TypeOK /\ IndInv)' /\ [Next]_vars => [Abstract!Next]_(Abstract!vars)
  BY StepImplements
<1> QED
  BY <1>1, <1>2, Invariance, PTL DEF Spec, KeepsTrail, Abstract!Spec
=============================================================================
