----------------------------- MODULE UnitOfWork -----------------------------
(***************************************************************************)
(* UnitOfWork.run of application/unit-of-work.mjs: one instance shared by  *)
(* several callers, its private #inFlight flag, and the port's begin,      *)
(* commit and rollback as collaborators that may reject.  Every await is a *)
(* step, so calls of other callers (and of the body itself, which is just  *)
(* one more caller) fall between them.                                     *)
(***************************************************************************)
EXTENDS Naturals

CONSTANTS
    Caller,     \* callers of run on the one instance
    MaxRuns     \* bound: calls of run

ASSUME UnitOfWorkAssumption == MaxRuns \in Nat

VARIABLES
    inFlight,   \* the private flag
    pc,         \* where each caller's run is
    scope,      \* what begin resolved to in the caller's latest run, 0 without
    opened,     \* scopes begun so far
    closes,     \* history: how often commit or rollback was called with a scope
    ended,      \* history: how that call ended
    result,     \* how the caller's latest call of run ended
    runs

vars == <<inFlight, pc, scope, opened, closes, ended, result, runs>>

Scope    == 1..MaxRuns
Running  == {"begin", "body", "commit", "rollback"}
End      == {"open", "committed", "commitFailed", "rolledBack", "rollbackFailed"}
Result   == {"none", "refused", "beginFailed", "bodyFailed", "commitFailed", "value"}

TypeOK ==
    /\ inFlight \in BOOLEAN
    /\ pc \in [Caller -> Running \cup {"idle"}]
    /\ scope \in [Caller -> 0..MaxRuns]
    /\ \A u \in Caller : pc[u] \in Running \ {"begin"} => scope[u] # 0
    /\ opened \in 0..MaxRuns
    /\ closes \in [Scope -> Nat]
    /\ ended \in [Scope -> End]
    /\ result \in [Caller -> Result]
    /\ runs \in 0..MaxRuns

Init ==
    /\ inFlight = FALSE
    /\ pc = [u \in Caller |-> "idle"]
    /\ scope = [u \in Caller |-> 0]
    /\ opened = 0
    /\ closes = [s \in Scope |-> 0]
    /\ ended = [s \in Scope |-> "open"]
    /\ result = [u \in Caller |-> "none"]
    /\ runs = 0

Call(u) == pc[u] = "idle" /\ runs < MaxRuns /\ runs' = runs + 1

\* run(body): no run is in flight; the flag is raised before the first await.
Run(u) ==
    /\ Call(u) /\ ~inFlight
    /\ inFlight' = TRUE
    /\ pc' = [pc EXCEPT ![u] = "begin"]
    /\ scope' = [scope EXCEPT ![u] = 0]
    /\ result' = [result EXCEPT ![u] = "none"]
    /\ UNCHANGED <<opened, closes, ended>>

\* Mutant: the checks stand inside the try, so its finally clears the flag.
RunRefusedClearing(u) ==
    /\ Call(u)
    /\ inFlight' = FALSE
    /\ scope' = [scope EXCEPT ![u] = 0]
    /\ result' = [result EXCEPT ![u] = "refused"]
    /\ UNCHANGED <<pc, opened, closes, ended>>

\* The body is no function, or a run is in flight: rejected outside the try.
RunRefused(u) ==
    /\ Call(u)
    /\ scope' = [scope EXCEPT ![u] = 0]
    /\ result' = [result EXCEPT ![u] = "refused"]
    /\ UNCHANGED <<inFlight, pc, opened, closes, ended>>

\* finally: the flag is lowered, whatever happened.
Settle(u, r) ==
    /\ inFlight' = FALSE
    /\ pc' = [pc EXCEPT ![u] = "idle"]
    /\ result' = [result EXCEPT ![u] = r]

BeginResolves(u) ==
    /\ pc[u] = "begin" /\ opened < MaxRuns
    /\ opened' = opened + 1
    /\ scope' = [scope EXCEPT ![u] = opened + 1]
    /\ pc' = [pc EXCEPT ![u] = "body"]
    /\ UNCHANGED <<inFlight, closes, ended, result, runs>>

BeginRejects(u) ==
    /\ pc[u] = "begin"
    /\ Settle(u, "beginFailed")
    /\ UNCHANGED <<scope, opened, closes, ended, runs>>

\* body(scope) resolves or rejects.
Body(u, ok) ==
    /\ pc[u] = "body"
    /\ pc' = [pc EXCEPT ![u] = IF ok THEN "commit" ELSE "rollback"]
    /\ UNCHANGED <<inFlight, scope, opened, closes, ended, result, runs>>

\* commit or rollback is called with the caller's scope, and ends in e.
CloseScope(u, e) ==
    /\ closes' = [closes EXCEPT ![scope[u]] = @ + 1]
    /\ ended' = [ended EXCEPT ![scope[u]] = e]
    /\ UNCHANGED <<scope, opened, runs>>

\* Mutant: the run is answered without waiting for commit's verdict.
CommitUnawaited(u, ok) ==
    /\ pc[u] = "commit"
    /\ CloseScope(u, IF ok THEN "committed" ELSE "commitFailed")
    /\ Settle(u, "value")

\* commit(scope) is awaited: the body's value, or commit's failure.
Commit(u, ok) ==
    /\ pc[u] = "commit"
    /\ CloseScope(u, IF ok THEN "committed" ELSE "commitFailed")
    /\ Settle(u, IF ok THEN "value" ELSE "commitFailed")

\* Mutant: the flag stays up when rollback rejects.
RollbackPoisons(u, ok) ==
    /\ pc[u] = "rollback"
    /\ CloseScope(u, IF ok THEN "rolledBack" ELSE "rollbackFailed")
    /\ pc' = [pc EXCEPT ![u] = "idle"]
    /\ result' = [result EXCEPT ![u] = "bodyFailed"]
    /\ inFlight' = ~ok

\* rollback(scope) is awaited and its failure suppressed: the body's failure.
Rollback(u, ok) ==
    /\ pc[u] = "rollback"
    /\ CloseScope(u, IF ok THEN "rolledBack" ELSE "rollbackFailed")
    /\ Settle(u, "bodyFailed")

\* What a run in flight does next.
Step(u) ==
    \/ BeginResolves(u) \/ BeginRejects(u)
    \/ \E ok \in BOOLEAN : Body(u, ok) \/ Commit(u, ok) \/ Rollback(u, ok)

Next == \E u \in Caller : Run(u) \/ RunRefused(u) \/ Step(u)

Spec == Init /\ [][Next]_vars

\* The awaited collaborators settle.
FairSpec == Spec /\ \A u \in Caller : WF_vars(Step(u))

-----------------------------------------------------------------------------
(* Properties                                                              *)

\* The flag is up exactly while a run is in flight, and one run is at most:
\* a refused call never lowers the flag of the run it was refused by.
OneRunAtATime ==
    /\ \A u, v \in Caller : pc[u] \in Running /\ pc[v] \in Running => u = v
    /\ inFlight <=> \E u \in Caller : pc[u] \in Running

\* Every scope that begin produced is closed exactly once, by commit or rollback,
\* and is open only as long as its own run is in flight.
ScopeClosedOnce ==
    \A s \in 1..opened :
        /\ closes[s] <= 1
        /\ closes[s] = 0 <=> \E u \in Caller : pc[u] \in Running \ {"begin"} /\ scope[u] = s

\* A caller that got its value has a committed scope; one that got its body's
\* failure has one that was rolled back, or tried to; a refused one has none.
ResultMatchesScope ==
    \A u \in Caller : pc[u] = "idle" =>
        /\ result[u] \in {"value", "bodyFailed", "commitFailed"} <=> scope[u] # 0
        /\ result[u] = "value" => ended[scope[u]] = "committed"
        /\ result[u] = "bodyFailed" => ended[scope[u]] \in {"rolledBack", "rollbackFailed"}
        /\ result[u] = "commitFailed" => ended[scope[u]] = "commitFailed"

\* No failed run leaves a "permanently dead unit of work".
FlagComesDown == inFlight ~> ~inFlight
=============================================================================
