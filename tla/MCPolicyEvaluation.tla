-------------------------- MODULE MCPolicyEvaluation --------------------------
(***************************************************************************)
(* Up to three statements out of eight, so that equal ids, priorities and  *)
(* layers meet, and five arrays of a collaborator with legacy, mixed and   *)
(* duplicated candidates; batches of up to two requests.                   *)
(***************************************************************************)
EXTENDS PolicyEvaluation, SequencesExt

CONSTANTS t1, t2, a1, a2, create, delete, customer

St(id, effect, priority, layer) ==
    [id |-> id, effect |-> effect, enabled |-> TRUE, targetKeys |-> {"tenantId"},
     targetTenant |-> t1, targetActor |-> a1, targetAction |-> create,
     targetResourceType |-> customer, conditionEmpty |-> TRUE,
     priority |-> priority, layer |-> layer]

MCPriority == -1..3

MCStatements ==
    {St(1, "allow", 0, "tenant"), St(2, "allow", 0, "system"), St(3, "allow", 1, "tenant"),
     St(2, "deny", -1, "tenant"),
     [St(4, "allow", 2, "system") EXCEPT !.targetKeys = {"tenantId", "unknown"}],
     [St(4, "allow", 0, "tenant") EXCEPT !.targetKeys = {"actorId"}, !.targetActor = a2],
     [St(5, "allow", 3, "platform") EXCEPT !.enabled = FALSE],
     [St(6, "deny", 3, "platform") EXCEPT !.conditionEmpty = FALSE]}

MCPolicies == BoundedSeq(MCStatements, 3)

Rc(id, effect, priority, layer) ==
    [policyId |-> id, effect |-> effect, applies |-> TRUE, priority |-> priority, layer |-> layer]

MCAnswers ==
    {<<>>,
     <<Rc(2, "allow", Null, Null), Rc(1, "allow", 0, "tenant"), Rc(3, "allow", 0, "platform")>>,
     <<Rc(2, "deny", Null, Null), Rc(1, "allow", 0, "system")>>,
     <<Rc(1, "allow", 0, Null)>>,
     <<Rc(1, "allow", 0, "tenant"), Rc(1, "deny", 0, "tenant")>>}

Rq(tenant, actor, action, type) ==
    [genuine |-> TRUE, tenant |-> tenant, actor |-> actor, action |-> action, resourceType |-> type]

MCBatches ==
    {<<>>, <<Rq(t1, a1, create, customer)>>, <<Rq(t2, a2, create, customer)>>,
     <<Rq(t1, a1, create, Null)>>,
     <<Rq(t1, a2, create, customer), Rq(t1, a1, delete, customer)>>,
     <<[Rq(t1, a1, create, customer) EXCEPT !.genuine = FALSE]>>}
==============================================================================
