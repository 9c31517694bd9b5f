----------------------------- MODULE TokenGuard -----------------------------
(***************************************************************************)
(* The deterministic gate of the repository's tooling                      *)
(* (tools/token-guard.mjs): nine evaluators over a request and over        *)
(* registries, and decide(), which composes them.                          *)
(*                                                                         *)
(* A registry that cannot be observed is Hidden; that is not an empty one. *)
(* A request's field that is not given is Hidden too.  An evaluator yields *)
(* a set of findings, each a decision and the gate it is routed to (NoGate *)
(* where the code gives none).                                             *)
(***************************************************************************)
EXTENDS Naturals, FiniteSets

CONSTANTS
    RequiredGates,   \* REQUIRED_GATES
    SafeActions,     \* NON_GIT_MUTATING_ACTIONS
    Prose,           \* a signal that is no boolean
    Hidden

NoGate == "none"
Pass == "PASS"
Escalate == "ESCALATE"
Deny == "DENY"
Advise == "ADVISE"

GuardEmittedGates ==
    {"parallel-worker", "writer-assignment", "snapshot-change", "main-promotion", "policy-anomaly"}

ReviewRoles == {"independent-reviewer", "reviewer", "auditor"}
PromotionActions == {"commit", "push", "main-promotion"}

Finding(decision, gate) == {[decision |-> decision, gate |-> gate]}
Nothing == {}

(* A reader that gives back an empty registry when it could not look.      *)
UnobservedAsEmpty(gate) == Nothing

Unobserved(gate) == Finding(Escalate, gate)

----------------------------------------------------------------------------
EvaluateDuplicateWorker(q, f) ==
    IF q.task = Hidden THEN Nothing
    ELSE IF f.liveWorkers = Hidden THEN Unobserved("parallel-worker")
    ELSE LET live == {w \in f.liveWorkers : w.running /\ w.task = q.task}
             same == {w \in live : w.role \in ReviewRoles /\ w.lens = q.lens}
         IN  IF live = {} \/ (q.role \in ReviewRoles /\ same = {}) THEN Nothing
             ELSE Finding(Deny, "parallel-worker")

(* covers: a read without lines is of the whole file.                      *)
Covers(prior, want) ==
    \/ prior.lines = Hidden
    \/ /\ want.lines # Hidden
       /\ prior.lines[1] <= want.lines[1] /\ prior.lines[2] >= want.lines[2]

EvaluateDuplicateFileRead(q, f) ==
    IF q.read = Hidden THEN Nothing
    ELSE IF f.alreadyRead = Hidden THEN Unobserved("policy-anomaly")
    ELSE IF \E r \in f.alreadyRead :
               r.path = q.read.path /\ r.sha256 = q.read.sha256 /\ Covers(r, q.read)
    THEN Finding(Deny, NoGate)
    ELSE Nothing

EvaluateWriterOwnership(q, f) ==
    IF q.changePackage = Hidden THEN Nothing
    ELSE IF f.activeWriters = Hidden THEN Unobserved("writer-assignment")
    ELSE LET on == {w \in f.activeWriters : w.changePackage = q.changePackage}
             self == {w \in on : w.sessionId = q.sessionId}
         IN  CASE on = {}                 -> Nothing
               [] on # {} /\ q.role = "writer" ->
                     IF on = self THEN Nothing ELSE Finding(Deny, "writer-assignment")
               [] on # {} /\ q.role \in ReviewRoles ->
                     IF self = {} THEN Nothing ELSE Finding(Deny, "writer-assignment")
               [] OTHER -> Finding(Escalate, "writer-assignment")

(* dirty is TRUE, FALSE or Hidden: git status may have failed.             *)
EvaluateDirtySnapshot(q, f) ==
    IF q.worktree = Hidden \/ q.role = "writer" THEN Nothing
    ELSE IF q.role \notin ReviewRoles \/ f.worktrees = Hidden THEN Unobserved("snapshot-change")
    ELSE LET found == {w \in f.worktrees : w.path = q.worktree} IN
         CASE \E w \in found : w.dirty = FALSE -> Nothing
           [] \E w \in found : w.dirty = TRUE  -> Finding(Deny, "snapshot-change")
           [] OTHER                            -> Finding(Escalate, "snapshot-change")

EvaluateBranchWorktreeCollision(q, f) ==
    IF q.branch = Hidden THEN Nothing
    ELSE IF f.worktrees = Hidden THEN Unobserved("policy-anomaly")
    ELSE IF \E w \in f.worktrees : w.branch = q.branch /\ w.path # q.worktree
    THEN Finding(Deny, NoGate)
    ELSE Nothing

(* A count or a ceiling that is not given is one.                          *)
EvaluateGuardianAdmission(q, f) ==
    IF ~q.opensWorker THEN Nothing
    ELSE IF f.guardian = Hidden THEN Unobserved("parallel-worker")
    ELSE IF ~f.guardian.allowNewWorker THEN Finding(Deny, "parallel-worker")
    ELSE IF q.requestedWorkerCount > f.guardian.recommendedNewWorkers
    THEN Finding(Escalate, "parallel-worker")
    ELSE Nothing

(* Two unknown snapshots are no match.                                     *)
EvaluateStaleReview(q, f) ==
    IF q.useReviewFrom = Hidden THEN Nothing
    ELSE IF f.reviews = Hidden THEN Unobserved("snapshot-change")
    ELSE LET found == {r \in f.reviews : r.id = q.useReviewFrom} IN
         IF found = {} \/ f.currentSnapshot = Hidden \/ \E r \in found : r.snapshot = Hidden
         THEN Finding(Escalate, "snapshot-change")
         ELSE IF \A r \in found : r.snapshot = f.currentSnapshot THEN Nothing
         ELSE Finding(Deny, "snapshot-change")

----------------------------------------------------------------------------
(* The promotion gate.                                                     *)

(* carriesMutationIntent and malformedMutationSignals: signals maps the    *)
(* fields outside KNOWN_NON_MUTATING_FIELDS to TRUE, FALSE or Prose.       *)
CarriesMutationIntent(q) == \E s \in DOMAIN q.signals : q.signals[s] = TRUE
MalformedSignals(q) == {s \in DOMAIN q.signals : q.signals[s] = Prose}

(* Both halves that are looked at before the action's name.                *)
SignalFindings(q) ==
    (IF "forcePush" \in DOMAIN q.signals /\ q.signals["forcePush"] = TRUE
     THEN Finding(Deny, "main-promotion") ELSE Nothing)
    \cup (IF MalformedSignals(q) # {} THEN Finding(Escalate, "main-promotion") ELSE Nothing)

(* A reported gate that is not true is denied, an unreported one is open.  *)
RequiredGateFindings(gates) ==
    UNION {IF g \notin DOMAIN gates THEN Finding(Escalate, "main-promotion")
           ELSE IF gates[g] # TRUE THEN Finding(Deny, "main-promotion") ELSE Nothing :
              g \in RequiredGates}

(* action is normalised: trimmed and in lower case.                        *)
EvaluatePromotionGate(q, f) ==
    SignalFindings(q) \cup
    IF q.action \notin PromotionActions
    THEN IF \/ CarriesMutationIntent(q)
            \/ f.gates # Hidden /\ DOMAIN f.gates # {}
            \/ q.action # Hidden /\ q.action \notin SafeActions
         THEN Finding(Escalate, "main-promotion") ELSE Nothing
    ELSE IF f.gates = Hidden THEN Finding(Escalate, "main-promotion")
    ELSE RequiredGateFindings(f.gates)

EvaluateCompletedPanelCleanup(f) ==
    IF f.panels = Hidden \/ \E p \in f.panels : p.completed /\ p.open
    THEN Finding(Advise, NoGate) ELSE Nothing

----------------------------------------------------------------------------
Findings(q, f) ==
    EvaluateDuplicateWorker(q, f) \cup EvaluateDuplicateFileRead(q, f)
    \cup EvaluateWriterOwnership(q, f) \cup EvaluateDirtySnapshot(q, f)
    \cup EvaluateBranchWorktreeCollision(q, f) \cup EvaluateGuardianAdmission(q, f)
    \cup EvaluateStaleReview(q, f) \cup EvaluatePromotionGate(q, f)
    \cup EvaluateCompletedPanelCleanup(f)

(* DENY outranks ESCALATE; an advice changes nothing.                      *)
Decide(q, f) ==
    LET all == {x.decision : x \in Findings(q, f)} IN
    IF Deny \in all THEN Deny ELSE IF Escalate \in all THEN Escalate ELSE Pass

(* Only an escalation has reasons; each costs a model call.                *)
EscalationReasons(q, f) ==
    IF Decide(q, f) # Escalate THEN {}
    ELSE {x.gate : x \in {x \in Findings(q, f) : x.decision = Escalate}}

(* readFacts: git and the guardian may fail to answer, the registries of   *)
(* the orchestration layer are never seen.                                 *)
ReadFacts(worktrees, guardian, snapshot) ==
    [worktrees |-> worktrees, guardian |-> guardian, currentSnapshot |-> snapshot,
     alreadyRead |-> Hidden, liveWorkers |-> Hidden, activeWriters |-> Hidden,
     reviews |-> Hidden, panels |-> Hidden, gates |-> Hidden]

(* evaluateGovernorEconomics: may the model be invoked by itself?          *)
AutoInvocationEnabled(ledger, policy) ==
    IF ledger.invocations = Hidden THEN FALSE
    ELSE \/ ledger.invocations < policy.minimumInvocations
         \/ ledger.saved > ledger.spent + policy.minimumNetSaving

(* The exit codes of the command line.                                     *)
EconomicsCommand(ledger, policy) ==
    IF ledger = Hidden \/ policy = Hidden THEN 2
    ELSE IF AutoInvocationEnabled(ledger, policy) THEN 0 ELSE 5

Main(q, f) == CASE Decide(q, f) = Deny -> 3 [] Decide(q, f) = Escalate -> 4 [] OTHER -> 0

----------------------------------------------------------------------------
(* The facts f with registry r unobservable.                               *)
Blind(f, r) == [f EXCEPT ![r] = Hidden]

(* Failing to observe a registry never turns a refusal or an escalation    *)
(* into a PASS, and never makes a DENY: a fact that cannot be read sends   *)
(* the request to a gate that exists.  A gate report on an action that is  *)
(* no promotion is the exception: without it nothing is claimed.           *)
GuardFailsClosed(q, f) ==
    /\ \A r \in DOMAIN f :
          LET blind == Decide(q, Blind(f, r)) IN
          /\ Decide(q, f) # Pass /\ (r = "gates" => q.action \in PromotionActions) => blind # Pass
          /\ blind = Deny => Decide(q, f) = Deny
    /\ Decide(q, f) = Escalate =>
          EscalationReasons(q, f) # {} /\ EscalationReasons(q, f) \subseteq GuardEmittedGates

(* The production reader passes a request only if it names nothing that    *)
(* the orchestration layer would have to answer for.                       *)
ReaderFailsClosed(q, f) ==
    Main(q, ReadFacts(f.worktrees, f.guardian, f.currentSnapshot)) = 0 =>
        /\ {q.task, q.read, q.changePackage, q.useReviewFrom} = {Hidden}
        /\ q.action \notin PromotionActions /\ ~CarriesMutationIntent(q)

(* Once the governor is switched off, invoking it more and spending more   *)
(* without saving more never switches it on again: the ledger alone, which *)
(* every invocation makes worse, cannot do so.                             *)
StaysSwitchedOff(ledger, policy, spent) ==
    LET worse == [ledger EXCEPT !.spent = @ + spent,
                                !.invocations = IF @ = Hidden THEN @ ELSE @ + 1]
    IN  EconomicsCommand(ledger, policy) # 0 => EconomicsCommand(worse, policy) # 0
=============================================================================
