----------------------------- MODULE DecisionLog -----------------------------
(***************************************************************************)
(* The hash-chained policy decision log: DecisionLoggingPolicyDecisionPoint*)
(* (decide, decideAll), the identity-guard auditor of the audited          *)
(* composition, PostgresDecisionLogAdapter (chainHead, append) and the     *)
(* constraints of migration 0003.                                          *)
(*                                                                         *)
(* Nothing serialises two callers: the head of the chain is read in one    *)
(* transaction and the new entry is inserted in another, with awaits in    *)
(* between.  What keeps the chain linear is the table's unique indexes and *)
(* foreign key, whose refusal ends the losing call.                        *)
(*                                                                         *)
(* An entry is named by its hash.  The hash covers the entry's unique id,  *)
(* so distinct entries have distinct hashes, and a frozen entry never      *)
(* changes: its fields are functions of the hash, written once.            *)
(***************************************************************************)
EXTENDS Naturals

CONSTANTS
    Decider,    \* concurrent callers of decide, decideAll or the guard auditor
    Tenant,
    MaxBatch,   \* the longest array of requests given to decideAll
    MaxCalls,   \* bound: calls started
    MaxHash,    \* bound: entries constructed
    MaxNow,     \* bound: the clock stops here
    MaxFailures \* bound: errors, crashes and lost answers

Null == 0            \* no predecessor, no cached head, no entry
Hash == 1..MaxHash

ASSUME DecisionLogAssumption ==
    /\ MaxBatch \in Nat /\ Null \notin Tenant
    /\ MaxCalls \in Nat /\ MaxHash \in Nat /\ MaxNow \in Nat /\ MaxFailures \in Nat

VARIABLES
    now,        \* the clock collaborator
    log,        \* hashes of the committed rows of policy_decision_log
    minted,     \* entries constructed so far
    tenantOf, prevOf, tsOf, rankOf,   \* the fields of each constructed entry
    pc, left,   \* where each caller is, and how many requests it has left
    tenant,     \* the tenant of the request being logged
    heads,      \* decideAll's map of heads, per caller and tenant
    prev,       \* the prevHash the caller resolved
    rank,       \* history: when the caller's current decision was made
    entry,      \* the entry being appended
    own,        \* entries this call has appended
    handed,     \* history: entries whose decision was returned to a caller
    decisions,  \* history: decisions made so far
    calls, failures

fields == <<tenantOf, prevOf, tsOf, rankOf>>
call   == <<pc, left, tenant, heads, prev, rank, entry, own>>
bounds == <<calls, failures>>
vars   == <<now, log, minted, fields, call, handed, decisions, bounds>>

Location == {"idle", "evaluate", "head", "stamp", "insert", "inserted"}

TypeOK ==
    /\ now \in Nat
    /\ log \subseteq Hash
    /\ minted \in 0..MaxHash
    /\ tenantOf \in [Hash -> Tenant \cup {Null}]
    /\ prevOf \in [Hash -> Hash \cup {Null}]
    /\ tsOf \in [Hash -> Nat] /\ rankOf \in [Hash -> Nat]
    /\ pc \in [Decider -> Location]
    /\ left \in [Decider -> Nat]
    /\ tenant \in [Decider -> Tenant \cup {Null}]
    /\ \A d \in Decider : tenant[d] = Null <=> pc[d] = "idle"
    /\ heads \in [Decider -> [Tenant -> Hash \cup {Null}]]
    /\ prev \in [Decider -> Hash \cup {Null}]
    /\ rank \in [Decider -> Nat]
    /\ entry \in [Decider -> Hash \cup {Null}]
    /\ \A d \in Decider : pc[d] \in {"insert", "inserted"} <=> entry[d] # Null
    /\ own \in [Decider -> SUBSET Hash]
    /\ handed \subseteq Hash
    /\ decisions \in Nat
    /\ calls \in Nat /\ failures \in Nat

NoHeads == [t \in Tenant |-> Null]

Init ==
    /\ now = 1
    /\ log = {}
    /\ minted = 0
    /\ tenantOf = [h \in Hash |-> Null]
    /\ prevOf = [h \in Hash |-> Null]
    /\ tsOf = [h \in Hash |-> 0]
    /\ rankOf = [h \in Hash |-> 0]
    /\ pc = [d \in Decider |-> "idle"]
    /\ left = [d \in Decider |-> 0]
    /\ tenant = [d \in Decider |-> Null]
    /\ heads = [d \in Decider |-> NoHeads]
    /\ prev = [d \in Decider |-> Null]
    /\ rank = [d \in Decider |-> 0]
    /\ entry = [d \in Decider |-> Null]
    /\ own = [d \in Decider |-> {}]
    /\ handed = {}
    /\ decisions = 0
    /\ calls = 0
    /\ failures = 0

-----------------------------------------------------------------------------

Tick ==
    /\ now < MaxNow
    /\ now' = now + 1
    /\ UNCHANGED <<log, minted, fields, call, handed, decisions, bounds>>

\* decide(request), decideAll(requests), or the guard auditor: a call begins with
\* n requests, the first of tenant t; decideAll(<<>>) returns without a step.
Start(d, n, t) ==
    /\ pc[d] = "idle" /\ calls < MaxCalls
    /\ calls' = calls + 1
    /\ pc' = [pc EXCEPT ![d] = "evaluate"]
    /\ left' = [left EXCEPT ![d] = n]
    /\ tenant' = [tenant EXCEPT ![d] = t]
    /\ UNCHANGED <<now, log, minted, fields, heads, prev, rank, entry, own,
                   handed, decisions, failures>>

\* #logOne: candidatesFor and EVALUATOR.decide; for the guard auditor the deny
\* it was called with.  The decision is made before the chain is looked at.
Evaluate(d) ==
    /\ pc[d] = "evaluate"
    /\ pc' = [pc EXCEPT ![d] = "head"]
    /\ decisions' = decisions + 1
    /\ rank' = [rank EXCEPT ![d] = decisions + 1]
    /\ UNCHANGED <<now, log, minted, fields, left, tenant, heads, prev, entry, own, handed, bounds>>

\* The rows chainHead's query selects: no successor in the same tenant.
Terminal(t) ==
    {h \in log : /\ tenantOf[h] = t
                 /\ ~\E k \in log : tenantOf[k] = t /\ prevOf[k] = h}

\* Mutant: decideAll asks for the head again before every entry.
ResolvePrevHashUncached(d) ==
    /\ pc[d] = "head"
    /\ \E h \in Hash \cup {Null} :
         /\ IF Terminal(tenant[d]) = {} THEN h = Null ELSE h \in Terminal(tenant[d])
         /\ prev' = [prev EXCEPT ![d] = h]
    /\ pc' = [pc EXCEPT ![d] = "stamp"]
    /\ UNCHANGED <<now, log, minted, fields, left, tenant, heads, rank, entry, own,
                   handed, decisions, bounds>>

\* resolvePrevHash: the cached head of this call if there is one, or chainHead
\* (rows[0] of the terminal rows, null without any).
ResolvePrevHash(d) ==
    /\ pc[d] = "head"
    /\ \E h \in Hash \cup {Null} :
         /\ IF heads[d][tenant[d]] # Null THEN h = heads[d][tenant[d]]
            ELSE IF Terminal(tenant[d]) = {} THEN h = Null
            ELSE h \in Terminal(tenant[d])
         /\ prev' = [prev EXCEPT ![d] = h]
    /\ pc' = [pc EXCEPT ![d] = "stamp"]
    /\ UNCHANGED <<now, log, minted, fields, left, tenant, heads, rank, entry, own,
                   handed, decisions, bounds>>

\* Mutant: the clock is read at some earlier await, not after the head.
StampEarlier(d) ==
    /\ pc[d] = "stamp" /\ minted < MaxHash
    /\ minted' = minted + 1
    /\ entry' = [entry EXCEPT ![d] = minted + 1]
    /\ tenantOf' = [tenantOf EXCEPT ![minted + 1] = tenant[d]]
    /\ prevOf' = [prevOf EXCEPT ![minted + 1] = prev[d]]
    /\ \E t \in 1..now : tsOf' = [tsOf EXCEPT ![minted + 1] = t]
    /\ rankOf' = [rankOf EXCEPT ![minted + 1] = rank[d]]
    /\ pc' = [pc EXCEPT ![d] = "insert"]
    /\ UNCHANGED <<now, log, left, tenant, heads, prev, rank, own, handed, decisions, bounds>>

\* idGenerator, clock.now and new DecisionLogEntry: the entry is frozen.
Stamp(d) ==
    /\ pc[d] = "stamp" /\ minted < MaxHash
    /\ minted' = minted + 1
    /\ entry' = [entry EXCEPT ![d] = minted + 1]
    /\ tenantOf' = [tenantOf EXCEPT ![minted + 1] = tenant[d]]
    /\ prevOf' = [prevOf EXCEPT ![minted + 1] = prev[d]]
    /\ tsOf' = [tsOf EXCEPT ![minted + 1] = now]
    /\ rankOf' = [rankOf EXCEPT ![minted + 1] = rank[d]]
    /\ pc' = [pc EXCEPT ![d] = "insert"]
    /\ UNCHANGED <<now, log, left, tenant, heads, prev, rank, own, handed, decisions, bounds>>

\* The unique indexes one_genesis_per_tenant (no predecessor) and
\* one_successor_per_predecessor: two rows may not follow the same one.
SamePlace(h, k) == tenantOf[h] = tenantOf[k] /\ prevOf[h] = prevOf[k]

\* Mutant: the unique index on successors is missing; one genesis remains.
RefusedGenesisOnly(h) ==
    \/ \E k \in log : SamePlace(h, k) /\ prevOf[h] = Null
    \/ prevOf[h] # Null /\ ~\E k \in log : tenantOf[k] = tenantOf[h] /\ prevOf[h] = k

\* A committed row, or a missing predecessor (the foreign key), refuses the row.
Refused(h) ==
    \/ \E k \in log : SamePlace(h, k)
    \/ prevOf[h] # Null /\ ~\E k \in log : tenantOf[k] = tenantOf[h] /\ prevOf[h] = k

\* An insert waits for an uncommitted insert at the same place.
MustWait(d) ==
    \E e \in Decider \ {d} : pc[e] = "inserted" /\ SamePlace(entry[e], entry[d])

\* What a call forgets when it ends.
EndCall(d) ==
    /\ pc' = [pc EXCEPT ![d] = "idle"]
    /\ left' = [left EXCEPT ![d] = 0]
    /\ tenant' = [tenant EXCEPT ![d] = Null]
    /\ heads' = [heads EXCEPT ![d] = NoHeads]
    /\ prev' = [prev EXCEPT ![d] = Null]
    /\ rank' = [rank EXCEPT ![d] = 0]
    /\ entry' = [entry EXCEPT ![d] = Null]
    /\ own' = [own EXCEPT ![d] = {}]

\* append: BEGIN, tenant context, INSERT ... RETURNING, verification.
Insert(d) ==
    /\ pc[d] = "insert" /\ ~MustWait(d) /\ ~Refused(entry[d])
    /\ pc' = [pc EXCEPT ![d] = "inserted"]
    /\ UNCHANGED <<now, log, minted, fields, left, tenant, heads, prev, rank, entry, own,
                   handed, decisions, bounds>>

\* Mutant: a refused append is tried again with the same entry.
ConflictRetried(d) ==
    /\ pc[d] = "insert" /\ ~MustWait(d) /\ Refused(entry[d])
    /\ UNCHANGED vars

\* append: the constraint's refusal, ROLLBACK and DecisionLogChainConflictError,
\* which leaves decide and decideAll alike.
Conflict(d) ==
    /\ pc[d] = "insert" /\ ~MustWait(d) /\ Refused(entry[d])
    /\ EndCall(d)
    /\ UNCHANGED <<now, log, minted, fields, handed, decisions, bounds>>

\* COMMIT is answered and more requests are left, the next of tenant t: remember
\* the head.
CommitMore(d, t) ==
    /\ pc[d] = "inserted" /\ left[d] > 1
    /\ log' = log \cup {entry[d]}
    /\ own' = [own EXCEPT ![d] = @ \cup {entry[d]}]
    /\ heads' = [heads EXCEPT ![d] = [@ EXCEPT ![tenant[d]] = entry[d]]]
    /\ left' = [left EXCEPT ![d] = @ - 1]
    /\ tenant' = [tenant EXCEPT ![d] = t]
    /\ entry' = [entry EXCEPT ![d] = Null]
    /\ pc' = [pc EXCEPT ![d] = "evaluate"]
    /\ UNCHANGED <<now, minted, fields, prev, rank, handed, decisions, bounds>>

\* COMMIT is answered for the last request: the decisions are returned.
CommitLast(d) ==
    /\ pc[d] = "inserted" /\ left[d] <= 1
    /\ log' = log \cup {entry[d]}
    /\ handed' = handed \cup own[d] \cup {entry[d]}
    /\ EndCall(d)
    /\ UNCHANGED <<now, minted, fields, decisions, bounds>>

Spend == failures < MaxFailures /\ failures' = failures + 1

\* Mutant: a failed append does not stop the answer.
RaiseAnswered(d) ==
    /\ pc[d] # "idle" /\ Spend
    /\ handed' = handed \cup own[d] \cup ({entry[d]} \ {Null})
    /\ EndCall(d)
    /\ UNCHANGED <<now, log, minted, fields, decisions, calls>>

\* A collaborator throws, a query fails (ROLLBACK), or the process dies.
Raise(d) ==
    /\ pc[d] # "idle" /\ Spend
    /\ EndCall(d)
    /\ UNCHANGED <<now, log, minted, fields, handed, decisions, calls>>

\* COMMIT takes effect, its answer is lost, and append rejects.
LoseAnswer(d) ==
    /\ pc[d] = "inserted" /\ Spend
    /\ log' = log \cup {entry[d]}
    /\ EndCall(d)
    /\ UNCHANGED <<now, minted, fields, handed, decisions, calls>>

Step(d) ==
    \/ Evaluate(d) \/ ResolvePrevHash(d) \/ Stamp(d)
    \/ Insert(d) \/ Conflict(d) \/ CommitLast(d)
    \/ \E t \in Tenant : CommitMore(d, t)

Next ==
    \/ Tick
    \/ \E d \in Decider :
         \/ \E n \in 1..MaxBatch, t \in Tenant : Start(d, n, t)
         \/ Step(d)
         \/ Raise(d)
         \/ LoseAnswer(d)

Spec == Init /\ [][Next]_vars

\* The steps of a call are awaits that settle; nobody is obliged to call.
FairSpec == Spec /\ \A d \in Decider : WF_vars(Step(d))

-----------------------------------------------------------------------------
(* Properties                                                              *)

\* "The chain never forks", although heads are read without a lock: a tenant's
\* committed entries have one end at most, every predecessor is a committed
\* entry of the same tenant that is older, and no entry has two successors.
ChainLinear ==
    /\ \A h, k \in log : SamePlace(h, k) => h = k
    /\ \A h \in log : prevOf[h] # Null =>
         prevOf[h] \in log /\ tenantOf[prevOf[h]] = tenantOf[h] /\ prevOf[h] < h
    /\ \A h, k \in log :
         tenantOf[h] = tenantOf[k] /\ h \in Terminal(tenantOf[h]) /\ k \in Terminal(tenantOf[h])
           => h = k

\* A decision is handed to a caller only when its entry is durable: "every
\* decision this boundary reaches is appended before the decision is handed back".
HandedOutIsLogged == handed \subseteq log

\* Instants never run backwards along a chain: the clock is read after the head.
InstantsFollowChain ==
    \A h \in log : prevOf[h] # Null => tsOf[prevOf[h]] <= tsOf[h]

\* The entries of a call: committed, and the one its open transaction holds.
RunOf(d) == own[d] \cup (IF pc[d] = "inserted" THEN {entry[d]} ELSE {})

\* The entries one call appends for a tenant form one run of the chain, the entry
\* about to be committed too: another caller's entry in between makes the call
\* fail instead.
BatchContiguous ==
    \A d \in Decider : \A h, k \in RunOf(d) :
        tenantOf[h] = tenantOf[k] /\ prevOf[h] \notin RunOf(d) /\ prevOf[k] \notin RunOf(d)
            => h = k

\* The foreign key is never what refuses an entry: a resolved head is committed.
PrevHashIsCommitted ==
    \A d \in Decider :
        /\ pc[d] = "stamp" /\ prev[d] # Null => prev[d] \in log
        /\ entry[d] # Null /\ prevOf[entry[d]] # Null => prevOf[entry[d]] \in log

\* A started call ends, returned or rejected: an insert waits for another caller's
\* uncommitted entry at most, and a call whose head has become stale is not kept
\* trying with it.
CallEnds == \A d \in Decider : pc[d] # "idle" ~> pc[d] = "idle"

\* What the auditor's comment says: a guard refusal and a policy decision "share
\* one chain in the order they happened".
ChainInOrderOfDecision ==
    \A h \in log : prevOf[h] # Null => rankOf[prevOf[h]] < rankOf[h]

\* The end of a tenant's chain.
LastOf(t) == IF Terminal(t) = {} THEN Null ELSE CHOOSE h \in Terminal(t) : TRUE

AsRow(h) == [entry |-> h, tenant |-> tenantOf[h], follows |-> prevOf[h]]

\* "every decision this boundary reaches is appended before the decision is handed
\* back", each at the end of its tenant's chain: the committed rows and the decisions
\* returned behave like DecisionTrail.
Abstract == INSTANCE DecisionTrail WITH
    Entry   <- Hash,
    Nothing <- Null,
    trail   <- {AsRow(h) : h \in log},
    end     <- [t \in Tenant |-> LastOf(t)],
    known   <- handed

KeepsTrail == Abstract!Spec
=============================================================================
