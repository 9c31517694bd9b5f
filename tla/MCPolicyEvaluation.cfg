SPECIFICATION Spec
CONSTANTS
    Null = Null
    t1 = t1
    t2 = t2
    a1 = a1
    a2 = a2
    create = create
    delete = delete
    customer = customer
    PolicyId = {1, 2, 3, 4, 5, 6}
    Priority <- MCPriority
    Tenant = {t1, t2}
    Actor = {a1, a2}
    ActionName = {create, delete}
    ResourceType = {customer}
    Policies <- MCPolicies
    Answers <- MCAnswers
    Batches <- MCBatches
INVARIANTS DecisionIsReference AllowedByStatement DuplicateDecidesNothing
