-------------------------- MODULE UnitOfWorkProofs --------------------------
(***************************************************************************)
(* Machine-checked safety of UnitOfWork.run, for any number of callers and *)
(* of runs.                                                                *)
(***************************************************************************)
EXTENDS UnitOfWork, TLAPS

\* Which scopes there are, and whose they are: the part that makes the invariants
\* inductive.  Two callers never have the same scope, so closing one leaves the
\* other's result alone.
Scopes ==
    /\ \A u \in Caller : scope[u] <= opened
    /\ \A u \in Caller : pc[u] = "begin" => scope[u] = 0
    /\ \A u, v \in Caller : scope[u] # 0 /\ scope[u] = scope[v] => u = v
    /\ \A s \in Scope : opened < s => closes[s] = 0

IndInv == Scopes /\ OneRunAtATime /\ ScopeClosedOnce /\ ResultMatchesScope

\* The numbers of the scopes.
LEMMA ScopeFacts ==
    /\ Scope \subseteq Nat /\ 0 \notin Scope /\ 0 \in 0..MaxRuns
    /\ \A n \in 0..MaxRuns : n \in Nat /\ (n # 0 => n \in Scope)
    /\ \A n \in 0..MaxRuns : n < MaxRuns =>
         n + 1 \in 0..MaxRuns /\ n + 1 \in Scope /\ n < n + 1 /\ n + 1 # 0
    /\ \A n \in 0..MaxRuns : \A s : s \in 1..n <=> s \in Scope /\ s <= n
    /\ \A n \in 0..MaxRuns : \A s \in Scope : n < s <=> ~(s <= n)
    /\ \A n \in 0..MaxRuns : \A s \in 0..MaxRuns : s <= n + 1 <=> s <= n \/ s = n + 1
  BY UnitOfWorkAssumption DEF UnitOfWorkAssumption, Scope

\* Every step writes values of the right type.
LEMMA TypeStep == ASSUME TypeOK, [Next]_vars PROVE TypeOK'
<1> USE ScopeFacts DEF TypeOK, Running, End, Result
<1>1. ASSUME NEW u \in Caller, Run(u) PROVE TypeOK'
  <2>1. runs' \in 0..MaxRuns /\ scope' \in [Caller -> 0..MaxRuns]
    BY <1>1 DEF Run, Call
  <2>2. /\ pc' \in [Caller -> Running \cup {"idle"}] /\ result' \in [Caller -> Result]
        /\ inFlight' \in BOOLEAN
    BY <1>1 DEF Run
  <2>3. \A v \in Caller : pc'[v] \in Running \ {"begin"} => scope'[v] # 0
    BY <1>1 DEF Run, Call
  <2> QED
    BY <1>1, <2>1, <2>2, <2>3 DEF Run
<1>2. ASSUME NEW u \in Caller, RunRefused(u) PROVE TypeOK'
  <2>1. runs' \in 0..MaxRuns /\ scope' \in [Caller -> 0..MaxRuns]
    BY <1>2 DEF RunRefused, Call
  <2>2. result' \in [Caller -> Result]
    BY <1>2 DEF RunRefused
  <2>3. \A v \in Caller : pc'[v] \in Running \ {"begin"} => scope'[v] # 0
    BY <1>2 DEF RunRefused, Call
  <2> QED
    BY <1>2, <2>1, <2>2, <2>3 DEF RunRefused
<1>3. ASSUME NEW u \in Caller, BeginResolves(u) PROVE TypeOK'
  BY <1>3 DEF BeginResolves
<1>4. ASSUME NEW u \in Caller, BeginRejects(u) PROVE TypeOK'
  <2>1. /\ pc' \in [Caller -> Running \cup {"idle"}] /\ result' \in [Caller -> Result]
        /\ inFlight' \in BOOLEAN
    BY <1>4 DEF BeginRejects, Settle
  <2>2. \A v \in Caller : pc'[v] \in Running \ {"begin"} => scope'[v] # 0
    BY <1>4 DEF BeginRejects, Settle
  <2> QED
    BY <1>4, <2>1, <2>2 DEF BeginRejects
<1>5. ASSUME NEW u \in Caller, NEW ok \in BOOLEAN, Body(u, ok) PROVE TypeOK'
  BY <1>5 DEF Body
<1>6. ASSUME NEW u \in Caller, NEW ok \in BOOLEAN, Commit(u, ok) PROVE TypeOK'
  <2>1. closes' \in [Scope -> Nat]
    <3>1. closes' = [closes EXCEPT ![scope[u]] = closes[scope[u]] + 1]
      BY <1>6 DEF Commit, CloseScope
    <3>2. scope[u] \in Scope => closes[scope[u]] + 1 \in Nat
      OBVIOUS
    <3> HIDE ScopeFacts
    <3> QED
      BY <3>1, <3>2
  <2>2. ended' \in [Scope -> End]
    BY <1>6 DEF Commit, CloseScope
  <2>3. /\ pc' \in [Caller -> Running \cup {"idle"}] /\ result' \in [Caller -> Result]
        /\ inFlight' \in BOOLEAN
    BY <1>6 DEF Commit, Settle
  <2>4. \A v \in Caller : pc'[v] \in Running \ {"begin"} => scope'[v] # 0
    BY <1>6 DEF Commit, Settle, CloseScope
  <2> QED
    BY <1>6, <2>1, <2>2, <2>3, <2>4 DEF Commit, CloseScope
<1>7. ASSUME NEW u \in Caller, NEW ok \in BOOLEAN, Rollback(u, ok) PROVE TypeOK'
  <2>1. closes' \in [Scope -> Nat]
    <3>1. closes' = [closes EXCEPT ![scope[u]] = closes[scope[u]] + 1]
      BY <1>7 DEF Rollback, CloseScope
    <3>2. scope[u] \in Scope => closes[scope[u]] + 1 \in Nat
      OBVIOUS
    <3> HIDE ScopeFacts
    <3> QED
      BY <3>1, <3>2
  <2>2. ended' \in [Scope -> End]
    BY <1>7 DEF Rollback, CloseScope
  <2>3. /\ pc' \in [Caller -> Running \cup {"idle"}] /\ result' \in [Caller -> Result]
        /\ inFlight' \in BOOLEAN
    BY <1>7 DEF Rollback, Settle
  <2>4. \A v \in Caller : pc'[v] \in Running \ {"begin"} => scope'[v] # 0
    BY <1>7 DEF Rollback, Settle, CloseScope
  <2> QED
    BY <1>7, <2>1, <2>2, <2>3, <2>4 DEF Rollback, CloseScope
<1>8. CASE UNCHANGED vars
  BY <1>8 DEF vars
<1> QED
  BY <1>1, <1>2, <1>3, <1>4, <1>5, <1>6, <1>7, <1>8 DEF Next, Step

\* Beginning a run: nobody else is in one, and the caller lets go of its scope.
LEMMA CallKeeps ==
    ASSUME TypeOK, IndInv, NEW u \in Caller, Run(u) \/ RunRefused(u) PROVE IndInv'
<1> USE ScopeFacts DEF TypeOK, IndInv, Running
<1>1. /\ pc[u] = "idle" /\ scope'[u] = 0 /\ UNCHANGED <<opened, closes, ended>>
      /\ result'[u] \in {"none", "refused"}
      /\ \A v \in Caller : v # u => /\ pc'[v] = pc[v] /\ scope'[v] = scope[v]
                                    /\ result'[v] = result[v]
  BY DEF Run, RunRefused, Call
<1>2. \/ ~inFlight /\ inFlight' /\ pc'[u] = "begin"
      \/ inFlight' = inFlight /\ pc'[u] = "idle"
  BY DEF Run, RunRefused, Call
<1>3. Scopes'
  BY <1>1, <1>2 DEF Scopes
<1>4. OneRunAtATime'
  BY <1>1, <1>2 DEF OneRunAtATime
<1>5. ScopeClosedOnce'
  BY <1>1, <1>2 DEF ScopeClosedOnce, Scopes
<1>6. ResultMatchesScope'
  BY <1>1, <1>2 DEF ResultMatchesScope
<1> QED
  BY <1>3, <1>4, <1>5, <1>6

\* begin resolves to a scope nobody has.
LEMMA BeginKeeps ==
    ASSUME TypeOK, IndInv, NEW u \in Caller, BeginResolves(u) PROVE IndInv'
<1> USE ScopeFacts DEF TypeOK, IndInv, Running
<1>1. /\ pc[u] = "begin" /\ pc'[u] = "body" /\ opened' = opened + 1 /\ scope'[u] = opened + 1
      /\ opened + 1 \in Scope /\ opened < opened + 1 /\ opened + 1 # 0
      /\ UNCHANGED <<inFlight, closes, ended, result>>
      /\ \A v \in Caller : v # u => pc'[v] = pc[v] /\ scope'[v] = scope[v]
  BY DEF BeginResolves
<1>2. \A v \in Caller : scope[v] # opened + 1
  BY <1>1 DEF Scopes
<1>3. Scopes'
  BY <1>1, <1>2 DEF Scopes
<1>4. OneRunAtATime'
  BY <1>1 DEF OneRunAtATime
<1>5. ScopeClosedOnce'
  <2>1. \A s : s \in 1..opened' <=> s \in 1..opened \/ s = opened + 1
    <3>1. opened \in Nat
      OBVIOUS
    <3> HIDE ScopeFacts DEF TypeOK, IndInv
    <3> QED
      BY <1>1, <3>1
  <2>2. closes[opened + 1] = 0
    BY <1>1 DEF Scopes
  <2>3. scope[u] = 0
    BY <1>1 DEF Scopes
  <2>4. \A s \in 1..opened : s # opened + 1
    BY <1>1
  <2> HIDE DEF TypeOK
  <2> QED
    BY <1>1, <2>1, <2>2, <2>3, <2>4 DEF ScopeClosedOnce
<1>6. ResultMatchesScope'
  BY <1>1 DEF ResultMatchesScope
<1> QED
  BY <1>3, <1>4, <1>5, <1>6

\* A rejected begin leaves no scope behind.
LEMMA RejectKeeps ==
    ASSUME TypeOK, IndInv, NEW u \in Caller, BeginRejects(u) PROVE IndInv'
<1> USE ScopeFacts DEF TypeOK, IndInv, Running
<1>1. /\ pc[u] = "begin" /\ pc'[u] = "idle" /\ inFlight' = FALSE /\ result'[u] = "beginFailed"
      /\ UNCHANGED <<scope, opened, closes, ended>>
      /\ \A v \in Caller : v # u => pc'[v] = pc[v] /\ result'[v] = result[v]
  BY DEF BeginRejects, Settle
<1>2. Scopes'
  BY <1>1 DEF Scopes
<1>3. OneRunAtATime'
  BY <1>1 DEF OneRunAtATime
<1>4. ScopeClosedOnce'
  BY <1>1 DEF ScopeClosedOnce
<1>5. ResultMatchesScope'
  BY <1>1 DEF ResultMatchesScope, Scopes
<1> QED
  BY <1>2, <1>3, <1>4, <1>5

\* The body decides between commit and rollback; the scope stays open.
LEMMA BodyKeeps ==
    ASSUME TypeOK, IndInv, NEW u \in Caller, NEW ok \in BOOLEAN, Body(u, ok) PROVE IndInv'
<1> USE ScopeFacts DEF TypeOK, IndInv, Running
<1>1. /\ pc[u] = "body" /\ pc'[u] \in {"commit", "rollback"}
      /\ UNCHANGED <<inFlight, scope, opened, closes, ended, result>>
      /\ \A v \in Caller : v # u => pc'[v] = pc[v]
  BY DEF Body
<1>2. Scopes' /\ OneRunAtATime'
  BY <1>1 DEF Scopes, OneRunAtATime
<1>3. ScopeClosedOnce'
  BY <1>1 DEF ScopeClosedOnce
<1>4. ResultMatchesScope'
  BY <1>1 DEF ResultMatchesScope
<1> QED
  BY <1>2, <1>3, <1>4

\* What commit and rollback have in common.
Closed(u) ==
    /\ pc[u] \in {"commit", "rollback"} /\ pc'[u] = "idle" /\ inFlight' = FALSE
    /\ UNCHANGED <<scope, opened>>
    /\ closes'[scope[u]] = closes[scope[u]] + 1
    /\ \A s \in Scope : s # scope[u] => closes'[s] = closes[s] /\ ended'[s] = ended[s]
    /\ \A v \in Caller : v # u => pc'[v] = pc[v] /\ result'[v] = result[v]
    /\ \/ result'[u] = "value" /\ ended'[scope[u]] = "committed"
       \/ result'[u] = "commitFailed" /\ ended'[scope[u]] = "commitFailed"
       \/ result'[u] = "bodyFailed" /\ ended'[scope[u]] \in {"rolledBack", "rollbackFailed"}

\* Both are such a closing.
LEMMA ClosedBy ==
    ASSUME TypeOK, IndInv, NEW u \in Caller, NEW ok \in BOOLEAN, Commit(u, ok) \/ Rollback(u, ok)
    PROVE  Closed(u)
<1>1. scope[u] \in Scope
  BY ScopeFacts DEF TypeOK, IndInv, Scopes, Running, Commit, Rollback
<1>2. CASE Commit(u, ok)
  BY <1>1, <1>2 DEF TypeOK, Commit, CloseScope, Settle, Closed
<1>3. CASE Rollback(u, ok)
  BY <1>1, <1>3 DEF TypeOK, Rollback, CloseScope, Settle, Closed
<1> QED
  BY <1>2, <1>3

\* Closing the scope of a run ends the run, and touches no other scope.
LEMMA CloseKeeps ==
    ASSUME TypeOK, IndInv, NEW u \in Caller, Closed(u) PROVE IndInv'
<1> USE ScopeFacts DEF TypeOK, IndInv, Running
<1>1. scope[u] \in Scope /\ scope[u] \in 1..opened /\ ~(opened < scope[u])
  BY DEF Closed, Scopes
<1>2. Scopes'
  BY <1>1 DEF Closed, Scopes
<1>3. OneRunAtATime'
  BY DEF Closed, OneRunAtATime
<1>4. closes[scope[u]] = 0
  BY <1>1 DEF Closed, ScopeClosedOnce
<1>5. ScopeClosedOnce'
  <2> SUFFICES ASSUME NEW s \in 1..opened
               PROVE  /\ closes'[s] <= 1
                      /\ closes'[s] = 0 <=>
                           \E v \in Caller : pc'[v] \in Running \ {"begin"} /\ scope[v] = s
    BY DEF Closed, ScopeClosedOnce
  <2>1. CASE s = scope[u]
    BY <1>4, <2>1 DEF Closed, Scopes
  <2>2. CASE s # scope[u]
    BY <2>2 DEF Closed, ScopeClosedOnce
  <2> QED
    BY <2>1, <2>2
<1>6. ResultMatchesScope'
  <2> SUFFICES ASSUME NEW v \in Caller, pc'[v] = "idle"
               PROVE  /\ result'[v] \in {"value", "bodyFailed", "commitFailed"} <=> scope[v] # 0
                      /\ result'[v] = "value" => ended'[scope[v]] = "committed"
                      /\ result'[v] = "bodyFailed" =>
                           ended'[scope[v]] \in {"rolledBack", "rollbackFailed"}
                      /\ result'[v] = "commitFailed" => ended'[scope[v]] = "commitFailed"
    BY DEF Closed, ResultMatchesScope
  <2>1. CASE v = u
    BY <1>1, <2>1 DEF Closed
  <2>2. CASE v # u
    <3>1. scope[v] # 0 => scope[v] \in Scope /\ ended'[scope[v]] = ended[scope[v]]
      BY <1>1, <2>2 DEF Closed, Scopes
    <3> QED
      BY <2>2, <3>1 DEF Closed, ResultMatchesScope
  <2> QED
    BY <2>1, <2>2
<1> QED
  BY <1>2, <1>3, <1>5, <1>6

\* The inductive invariant holds in every reachable state.
THEOREM Invariance == Spec => [](TypeOK /\ IndInv)
<1>1. Init => TypeOK /\ IndInv
  <2> SUFFICES ASSUME Init PROVE TypeOK /\ IndInv
    OBVIOUS
  <2>1. TypeOK
    BY ScopeFacts DEF Init, TypeOK, Running, End, Result
  <2>2. Scopes /\ OneRunAtATime /\ ResultMatchesScope
    BY DEF Init, Scopes, OneRunAtATime, ResultMatchesScope, Running
  <2>3. ScopeClosedOnce
    BY DEF Init, ScopeClosedOnce
  <2> QED
    BY <2>1, <2>2, <2>3 DEF IndInv
<1>2. TypeOK /\ IndInv /\ [Next]_vars => TypeOK' /\ IndInv'
  <2> SUFFICES ASSUME TypeOK, IndInv, [Next]_vars PROVE TypeOK' /\ IndInv'
    OBVIOUS
  <2>1. TypeOK'
    BY TypeStep
  <2>2. CASE Next
    <3>1. ASSUME NEW u \in Caller, Run(u) \/ RunRefused(u) PROVE IndInv'
      BY <3>1, CallKeeps
    <3>2. ASSUME NEW u \in Caller, BeginResolves(u) PROVE IndInv'
      BY <3>2, BeginKeeps
    <3>3. ASSUME NEW u \in Caller, BeginRejects(u) PROVE IndInv'
      BY <3>3, RejectKeeps
    <3>4. ASSUME NEW u \in Caller, NEW ok \in BOOLEAN, Body(u, ok) PROVE IndInv'
      BY <3>4, BodyKeeps
    <3>5. ASSUME NEW u \in Caller, NEW ok \in BOOLEAN, Commit(u, ok) \/ Rollback(u, ok)
          PROVE  IndInv'
      BY <3>5, ClosedBy, CloseKeeps
    <3> QED
      BY <2>1, <2>2, <3>1, <3>2, <3>3, <3>4, <3>5 DEF Next, Step
  <2>3. CASE UNCHANGED vars
    <3>1. Scopes' /\ OneRunAtATime'
      BY <2>3 DEF vars, IndInv, Scopes, OneRunAtATime
    <3>2. ScopeClosedOnce' /\ ResultMatchesScope'
      BY <2>3 DEF vars, IndInv, ScopeClosedOnce, ResultMatchesScope
    <3> QED
      BY <2>1, <3>1, <3>2 DEF IndInv
  <2> QED
    BY <2>1, <2>2, <2>3
<1> QED
  BY <1>1, <1>2, PTL DEF Spec

\* Every variable of the module keeps its type.
THEOREM TypeCorrect == Spec => []TypeOK
  BY Invariance, PTL

\* No interleaving of calls lets two runs of one instance overlap.
THEOREM OneRunSafety == Spec => []OneRunAtATime
<1>1. IndInv => OneRunAtATime
  BY DEF IndInv
<1> QED
  BY <1>1, Invariance, PTL

\* commit and rollback are never both called with a scope, and one of them is.
THEOREM ScopeSafety == Spec => []ScopeClosedOnce
<1>1. IndInv => ScopeClosedOnce
  BY DEF IndInv
<1> QED
  BY <1>1, Invariance, PTL

\* What a caller was told is what became of its scope.
THEOREM ResultSafety == Spec => []ResultMatchesScope
<1>1. IndInv => ResultMatchesScope
  BY DEF IndInv
<1> QED
  BY <1>1, Invariance, PTL
=============================================================================
