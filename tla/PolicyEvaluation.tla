--------------------------- MODULE PolicyEvaluation ---------------------------
(***************************************************************************)
(* The policy decision point: PolicyCandidateResolver turns policy         *)
(* statements into candidates, AuthorizationEvaluator combines them        *)
(* (an applicable deny overrides every allow, and the highest priority,    *)
(* then the highest layer, then the smallest id names the decision) and    *)
(* PolicyBatchEvaluator asks for one decision after the other.             *)
(*                                                                         *)
(* Policy ids are numbers in the order of the strings they stand for.  A   *)
(* candidate of the legacy shape carries Null as priority and layer.       *)
(***************************************************************************)
EXTENDS Integers, Sequences

CONSTANTS PolicyId, Priority, Tenant, Actor, ActionName, ResourceType,
          Null,
          Policies,   \* the statement arrays a resolver may be built over
          Answers,    \* the candidate arrays another collaborator may answer
          Batches     \* the request arrays decideAll is called with

Effect == {"allow", "deny"}
Layer  == {"system", "platform", "tenant"}

\* The members an actor target may name; "unknown" is one outside the grammar.
TargetKey == {"tenantId", "actorId", "unknown"}

Statement ==
    [id : PolicyId, effect : Effect, enabled : BOOLEAN,
     targetKeys : SUBSET TargetKey, targetTenant : Tenant, targetActor : Actor,
     targetAction : ActionName, targetResourceType : ResourceType,
     conditionEmpty : BOOLEAN, priority : Priority, layer : Layer]

Request ==
    [genuine : BOOLEAN, tenant : Tenant, actor : Actor,
     action : ActionName, resourceType : ResourceType \cup {Null}]

RawCandidate ==
    [policyId : PolicyId, effect : Effect, applies : BOOLEAN,
     priority : Priority \cup {Null}, layer : Layer \cup {Null}]

Candidate ==
    [policyId : PolicyId, effect : Effect, applies : BOOLEAN,
     priority : Int, layer : Layer]

Decision ==
    [request : Request, candidates : Seq(Candidate), effect : Effect,
     matchedPolicyId : PolicyId \cup {Null}, layerResolved : Layer \cup {Null}]

ASSUME PolicyAssumption ==
    /\ PolicyId \subseteq Int /\ Priority \subseteq Int
    /\ Null \notin Int /\ Null \notin Layer /\ Null \notin Candidate
    /\ Policies \subseteq Seq(Statement)
    /\ Answers \subseteq Seq(RawCandidate)
    /\ Batches \subseteq Seq(Request)

VARIABLES statements,  \* of the resolver
          resolver,    \* whether candidatesFor is the resolver's
          pc, batch, raw, candidates, verdict, index, winner, done

vars == <<statements, resolver, pc, batch, raw, candidates, verdict, index, winner, done>>
scan == <<candidates, verdict, index, winner>>

(***************************************************************************)
(* PolicyCandidateResolver.                                                *)
(***************************************************************************)

\* Mutant: a target with an unknown member is read for the members known.
TargetActorMatchesKnown(s, r) ==
    /\ "tenantId" \in s.targetKeys => s.targetTenant = r.tenant
    /\ "actorId" \in s.targetKeys => s.targetActor = r.actor

\* An unknown member of the target matches nobody; an absent one, everybody.
TargetActorMatches(s, r) ==
    /\ "unknown" \notin s.targetKeys
    /\ "tenantId" \in s.targetKeys => s.targetTenant = r.tenant
    /\ "actorId" \in s.targetKeys => s.targetActor = r.actor

Applies(s, r) ==
    /\ s.enabled
    /\ s.targetAction = r.action
    /\ s.targetResourceType = r.resourceType
    /\ TargetActorMatches(s, r)
    /\ s.conditionEmpty

CandidateFor(s, r) ==
    [policyId |-> s.id, effect |-> s.effect, applies |-> Applies(s, r),
     priority |-> s.priority, layer |-> s.layer]

(***************************************************************************)
(* AuthorizationEvaluator.                                                 *)
(***************************************************************************)

\* Mutant: only applicable candidates are compared for duplicates.
AcceptableIfApplicable(cs) ==
    /\ \A j \in DOMAIN cs : cs[j].priority = Null <=> cs[j].layer = Null
    /\ \A j, k \in {m \in DOMAIN cs : cs[m].applies} :
           cs[j].policyId = cs[k].policyId => j = k

\* Both members of the v2 shape or neither, and no policy id twice, whether
\* its candidates apply or not.
Acceptable(cs) ==
    /\ \A j \in DOMAIN cs : cs[j].priority = Null <=> cs[j].layer = Null
    /\ \A j, k \in DOMAIN cs : cs[j].policyId = cs[k].policyId => j = k

Checked(c) ==
    [policyId |-> c.policyId, effect |-> c.effect, applies |-> c.applies,
     priority |-> IF c.layer = Null THEN 0 ELSE c.priority,
     layer    |-> IF c.layer = Null THEN "tenant" ELSE c.layer]

Rank == [l \in Layer |-> CASE l = "system" -> 2 [] l = "platform" -> 1 [] l = "tenant" -> 0]

Applicable(cs, effect) ==
    {cs[j] : j \in {k \in DOMAIN cs : cs[k].applies /\ cs[k].effect = effect}}

\* Mutant: the layer is compared before the priority.
OutranksLayerFirst(e, w) ==
    \/ Rank[e.layer] > Rank[w.layer]
    \/ e.layer = w.layer /\ e.priority > w.priority
    \/ e.layer = w.layer /\ e.priority = w.priority /\ e.policyId < w.policyId

\* winningPolicyId: whether the next entry replaces the winner so far.
Outranks(e, w) ==
    \/ e.priority > w.priority
    \/ e.priority = w.priority /\ Rank[e.layer] > Rank[w.layer]
    \/ e.priority = w.priority /\ Rank[e.layer] = Rank[w.layer] /\ e.policyId < w.policyId

Find(cs, id) == cs[CHOOSE j \in DOMAIN cs : cs[j].policyId = id]

\* layerOf: the layer the decision log records, from the unchecked candidates.
LayerOf(cs, id) ==
    IF id = Null THEN Null
    ELSE IF Find(cs, id).layer = Null THEN "tenant" ELSE Find(cs, id).layer

(***************************************************************************)
(* decideAll, one request after the other.                                 *)
(***************************************************************************)

Init ==
    /\ statements \in Policies
    /\ resolver \in BOOLEAN
    /\ pc = "idle" /\ batch = <<>> /\ raw = <<>> /\ done = <<>>
    /\ candidates = <<>> /\ verdict = "deny" /\ index = 1 /\ winner = Null

\* The preflight refuses the whole batch before the collaborator is called.
DecideAll(requests) ==
    /\ pc \in {"idle", "returned", "rejected"}
    /\ batch' = requests /\ done' = <<>> /\ raw' = <<>>
    /\ pc' = IF \A k \in DOMAIN requests : requests[k].genuine THEN "next" ELSE "rejected"
    /\ UNCHANGED <<statements, resolver, scan>>

Current == batch[Len(done) + 1]

\* PolicyDecisionPoint.decide awaits candidatesFor once: the resolver's ...
Resolve ==
    /\ pc = "next" /\ Len(done) < Len(batch) /\ resolver
    /\ raw' = [j \in DOMAIN statements |-> CandidateFor(statements[j], Current)]
    /\ pc' = "check"
    /\ UNCHANGED <<statements, resolver, batch, scan, done>>

\* ... or another collaborator's answer ...
Answer(answer) ==
    /\ pc = "next" /\ Len(done) < Len(batch) /\ ~resolver
    /\ raw' = answer
    /\ pc' = "check"
    /\ UNCHANGED <<statements, resolver, batch, scan, done>>

\* ... whose rejection, like every throw of the evaluator, rejects decideAll.
CandidatesFail ==
    /\ pc = "next" /\ Len(done) < Len(batch) /\ ~resolver
    /\ pc' = "rejected"
    /\ UNCHANGED <<statements, resolver, batch, raw, scan, done>>

Refuse ==
    /\ pc = "check" /\ ~Acceptable(raw)
    /\ pc' = "rejected"
    /\ UNCHANGED <<statements, resolver, batch, raw, scan, done>>

\* checkCandidates, and which of the two effects prevails.
Check ==
    /\ pc = "check" /\ Acceptable(raw)
    /\ candidates' = [j \in DOMAIN raw |-> Checked(raw[j])]
    /\ verdict' = IF Applicable(raw, "deny") # {} THEN "deny" ELSE "allow"
    /\ index' = 1 /\ winner' = Null
    /\ pc' = "scan"
    /\ UNCHANGED <<statements, resolver, batch, raw, done>>

\* winningPolicyId over the applicable candidates of the prevailing effect.
Selected(c) == c.applies /\ c.effect = verdict

Scan ==
    /\ pc = "scan" /\ index <= Len(candidates)
    /\ winner' = IF /\ Selected(candidates[index])
                    /\ winner = Null \/ Outranks(candidates[index], winner)
                 THEN candidates[index] ELSE winner
    /\ index' = index + 1
    /\ UNCHANGED <<statements, resolver, pc, batch, raw, candidates, verdict, done>>

\* The decision: the prevailing effect, or the default deny that matches nothing.
Conclude ==
    /\ pc = "scan" /\ index > Len(candidates)
    /\ LET id == IF winner = Null THEN Null ELSE winner.policyId
       IN done' = Append(done,
                         [request |-> Current, candidates |-> candidates,
                          effect |-> IF winner = Null THEN "deny" ELSE verdict,
                          matchedPolicyId |-> id,
                          layerResolved |-> LayerOf(raw, id)])
    /\ pc' = "next"
    /\ UNCHANGED <<statements, resolver, batch, raw, scan>>

Return ==
    /\ pc = "next" /\ Len(done) = Len(batch)
    /\ pc' = "returned"
    /\ UNCHANGED <<statements, resolver, batch, raw, scan, done>>

Next ==
    \/ \E requests \in Batches : DecideAll(requests)
    \/ \E answer \in Answers : Answer(answer)
    \/ Resolve \/ CandidatesFail \/ Refuse \/ Check \/ Scan \/ Conclude \/ Return

Spec == Init /\ [][Next]_vars

(***************************************************************************)
(* Properties.                                                             *)
(***************************************************************************)

\* Each step of a decision leaves the fields it fills with values of their types.
TypeOK ==
    /\ statements \in Policies /\ resolver \in BOOLEAN
    /\ pc \in {"idle", "next", "check", "scan", "returned", "rejected"}
    /\ batch \in Seq(Request) /\ raw \in Seq(RawCandidate)
    /\ candidates \in Seq(Candidate) /\ verdict \in Effect
    /\ index \in 1..Len(candidates) + 1 /\ winner \in Candidate \cup {Null}
    /\ done \in Seq(Decision) /\ Len(done) <= Len(batch)
    /\ pc \in {"check", "scan"} => Len(done) < Len(batch)

\* Reference: of the highest priority, those of the highest layer among them.
Foremost(S) ==
    LET top == {c \in S : \A o \in S : o.priority <= c.priority}
    IN {c \in top : \A o \in top : Rank[o.layer] <= Rank[c.layer]}

\* What one pass over the candidates decided is what the rule says of them as
\* a set, in whatever order the collaborator answered them: an applicable deny
\* overrides, no applicable candidate is a deny that matches nothing, and the
\* smallest id among the foremost candidates is the one reported
\* (AuthorizationEvaluator.decide, winningPolicyId).
DecisionIsReference ==
    \A k \in DOMAIN done :
        LET denies == Applicable(done[k].candidates, "deny")
            allows == Applicable(done[k].candidates, "allow")
            chosen == IF denies # {} THEN denies ELSE allows
        IN /\ done[k].effect = "allow" <=> denies = {} /\ allows # {}
           /\ done[k].matchedPolicyId = Null <=> chosen = {}
           /\ chosen # {} =>
                  \E c \in Foremost(chosen) :
                      /\ c.policyId = done[k].matchedPolicyId
                      /\ \A o \in Foremost(chosen) : c.policyId <= o.policyId

\* Over a resolver, an allow comes from an enabled statement of that id with no
\* condition, for exactly this action, resource type and actor, and no such
\* statement denies (PolicyCandidateResolver.candidatesFor with the evaluator).
AllowedByStatement ==
    resolver =>
        \A k \in DOMAIN done :
            LET r == done[k].request
                governs(s) ==
                    /\ s.enabled /\ s.conditionEmpty
                    /\ s.targetAction = r.action /\ s.targetResourceType = r.resourceType
                    /\ s.targetKeys \subseteq {"tenantId", "actorId"}
                    /\ "tenantId" \notin s.targetKeys \/ s.targetTenant = r.tenant
                    /\ "actorId" \notin s.targetKeys \/ s.targetActor = r.actor
            IN done[k].effect = "allow" =>
                   /\ \E j \in DOMAIN statements :
                          /\ governs(statements[j]) /\ statements[j].effect = "allow"
                          /\ statements[j].id = done[k].matchedPolicyId
                   /\ \A j \in DOMAIN statements :
                          governs(statements[j]) => statements[j].effect = "allow"

\* Two statements of one id leave a resolver without any decision, even where
\* neither applies to the request asked about (checkCandidates).
DuplicateDecidesNothing ==
    resolver /\ done # <<>> =>
        \A j, k \in DOMAIN statements : statements[j].id = statements[k].id => j = k

\* The layer the decision log records is the layer the evaluator ranked the
\* winner by, although the two read it from different lists (layerOf).
LayerIsWinners ==
    \A k \in DOMAIN done :
        done[k].matchedPolicyId # Null =>
            \E j \in DOMAIN done[k].candidates :
                /\ done[k].candidates[j].policyId = done[k].matchedPolicyId
                /\ done[k].candidates[j].layer = done[k].layerResolved
==============================================================================
