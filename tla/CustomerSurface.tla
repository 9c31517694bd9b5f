-------------------------- MODULE CustomerSurface --------------------------
(***************************************************************************)
(* The customer application above its persistence controller:              *)
(* createCustomerAppCore, createCustomerModuleApi and                      *)
(* createCustomerSurface (consumers/customer-app-core).                    *)
(*                                                                         *)
(* The surface keeps the projection the user sees, the flag of the submit  *)
(* in flight and the arguments of the last one that settled.  Arguments    *)
(* are objects of the caller (forms), kept by reference: the caller may    *)
(* edit a form at any time, also while a submit of it waits and between a  *)
(* rejection and retry().                                                  *)
(*                                                                         *)
(* recordCustomer checks its arguments and calls the controller's insert() *)
(* in the turn of the submit.  The module API has no cutover(), so insert  *)
(* goes to the injected legacy writer, which is external.                  *)
(***************************************************************************)
EXTENDS Naturals, Sequences

CONSTANTS
    Forms,       \* the argument objects the caller has
    Drafts,      \* what a form may contain
    Wirings,     \* arguments of createCustomerModuleApi and createCustomerSurface
    MaxSubmits,  \* bound: accepted calls of submit() and retry()
    MaxEdits,    \* bound: edits of forms
    NoForm,
    NoTenant     \* stands for an action spec the SDK refuses

(* Every record of a draft says its tenant and whether its name is padded. *)
ASSUME DraftsAssumption == \A d \in Drafts : {"tenant", "padded"} \subseteq DOMAIN d.record

VARIABLES
    wired,       \* the wiring the surface was created with
    form,        \* what each form contains
    projection,  \* what project() returns
    pending,     \* a submit is in flight
    lastArgs,    \* the form of the last settled submit
    sent,        \* the runs of runSubmit, as they were when they started
    calls,       \* what legacyInsert was handed, per run
    kept,        \* the runs whose record the legacy writer holds
    edits

surface == <<wired, form, projection, pending, lastArgs, sent, calls, kept, edits>>

(* Nothing is created yet, nothing was handed to the writer.               *)
NoWiring == [contract |-> FALSE]
NoCall == [called |-> FALSE]

----------------------------------------------------------------------------
(* Wiring.                                                                 *)

(* isValidPublicSdkContract, the SDK-derived coordinate, the grant.        *)
AppCoreAccepts(w) ==
    /\ w.contract
    /\ w.coordinate = w.action
    /\ "customer:core" \in w.grants

(* The options of createCustomerDataCutover are sound, and the SDK is the  *)
(* one of customer.create@1.                                               *)
ModuleApiAccepts(w) ==
    /\ AppCoreAccepts(w)
    /\ w.cutoverOptions
    /\ w.action = "customer.create@1"

(* isReadyCustomerModuleApi: a frozen handle that is ready.                *)
SurfaceAccepts(w) == ModuleApiAccepts(w) /\ w.handle

----------------------------------------------------------------------------
(* The arguments.                                                          *)

(* canonicalizeCustomerRecord: six keys, uuids, timestamps, a name that is *)
(* not blank, a payload deepFreezeClone accepts (see CanonicalValues) ...  *)
RecordSound(r) == r.shape /\ r.text # "" /\ r.payload

(* ... cloned and frozen, with the name trimmed.                           *)
Canonical(r) == [r EXCEPT !.padded = FALSE]

(* recordCustomer's checks.  All of them run in the turn of the call.      *)
Accepted(d) ==
    /\ d.keys
    /\ d.options
    /\ d.specTenant # NoTenant
    /\ RecordSound(d.record)
    /\ d.specTenant = d.record.tenant /\ d.specTenant = d.tenant
    /\ d.auditCorrelation = d.outboxCorrelation

(* What legacyInsert is handed for them.                                   *)
CallFor(d) ==
    IF Accepted(d)
    THEN [called |-> TRUE, record |-> Canonical(d.record), tenant |-> d.tenant,
          fingerprint |-> d.fingerprint]
    ELSE NoCall

----------------------------------------------------------------------------
SurfaceInit ==
    /\ wired = NoWiring
    /\ form \in [Forms -> Drafts]
    /\ projection = [state |-> "idle"]
    /\ pending = FALSE
    /\ lastArgs = NoForm
    /\ sent = <<>>
    /\ calls = <<>>
    /\ kept = {}
    /\ edits = 0

(* createCustomerSurface over createCustomerModuleApi; a refusal throws.   *)
CreateSurface(w) ==
    /\ wired = NoWiring
    /\ SurfaceAccepts(w)
    /\ wired' = w
    /\ UNCHANGED <<form, projection, pending, lastArgs, sent, calls, kept, edits>>

(* runSubmit up to its await: recordCustomer checks the arguments and,     *)
(* unless it throws, legacyInsert is called with the canonical clone.      *)
RunSubmit(f, again) ==
    LET d == form[f]
        run == [form |-> f, draft |-> d, retry |-> again,
                edits |-> edits, outcome |-> "pending"]
    IN  /\ Len(sent) < MaxSubmits
        /\ pending' = TRUE
        /\ projection' = [state |-> "submitting"]
        /\ sent' = Append(sent, run)
        /\ calls' = Append(calls, CallFor(d))
        /\ UNCHANGED <<wired, form, lastArgs, kept, edits>>

(* The guard of the surface lost.                                          *)
SubmitAnyTime(f) ==
    /\ wired # NoWiring /\ form[f].keys
    /\ RunSubmit(f, FALSE)

(* submit(): refused while a submit is in flight and for other keys.       *)
Submit(f) ==
    /\ wired # NoWiring
    /\ ~pending
    /\ form[f].keys
    /\ RunSubmit(f, FALSE)

(* retry(): only of a rejected submit; the arguments are the object that   *)
(* was submitted, with what it contains now.                               *)
Retry ==
    /\ ~pending
    /\ projection.state = "rejected" /\ lastArgs # NoForm
    /\ RunSubmit(lastArgs, TRUE)

(* External: the legacy writer has the record when it resolves ...         *)
WriterResolves(i) ==
    /\ sent[i].outcome = "pending" /\ calls[i].called
    /\ sent' = [sent EXCEPT ![i].outcome = "saved"]
    /\ kept' = kept \cup {i}

(* ... and may have it when it rejects; or it was never called.            *)
WriterRejects(i) ==
    /\ sent[i].outcome = "pending"
    /\ sent' = [sent EXCEPT ![i].outcome = "rejected"]
    /\ \/ UNCHANGED kept
       \/ calls[i].called /\ kept' = kept \cup {i}

(* The await of runSubmit resolves.                                        *)
SettleSaved(i) ==
    /\ WriterResolves(i)
    /\ lastArgs' = sent[i].form
    /\ projection' = [state |-> "saved", record |-> calls[i].record]
    /\ pending' = FALSE
    /\ UNCHANGED <<wired, form, calls, edits>>

(* lastArgs not set in the catch.                                          *)
SettleRejectedForgets(i) ==
    /\ WriterRejects(i)
    /\ projection' = [state |-> "rejected"]
    /\ pending' = FALSE
    /\ UNCHANGED <<wired, form, lastArgs, calls, edits>>

(* The flag not lowered in the catch.                                      *)
SettleRejectedPending(i) ==
    /\ WriterRejects(i)
    /\ lastArgs' = sent[i].form
    /\ projection' = [state |-> "rejected"]
    /\ UNCHANGED <<wired, form, pending, calls, edits>>

(* It rejects, by a check of recordCustomer or by the writer.              *)
SettleRejected(i) ==
    /\ WriterRejects(i)
    /\ lastArgs' = sent[i].form
    /\ projection' = [state |-> "rejected"]
    /\ pending' = FALSE
    /\ UNCHANGED <<wired, form, calls, edits>>

Settle(i) == SettleSaved(i) \/ SettleRejected(i)

(* The caller edits its object.                                            *)
Edit(f, d) ==
    /\ edits < MaxEdits /\ d # form[f]
    /\ form' = [form EXCEPT ![f] = d]
    /\ edits' = edits + 1
    /\ UNCHANGED <<wired, projection, pending, lastArgs, sent, calls, kept>>

SurfaceNext ==
    \/ \E w \in Wirings : CreateSurface(w)
    \/ \E f \in Forms : Submit(f)
    \/ Retry
    \/ \E i \in DOMAIN sent : Settle(i)
    \/ \E f \in Forms, d \in Drafts : Edit(f, d)

SurfaceSpec == SurfaceInit /\ [][SurfaceNext]_surface

(* The writer's promise settles; whether the user submits is open.         *)
SurfaceFairness == WF_surface(\E i \in DOMAIN sent : Settle(i))

----------------------------------------------------------------------------
(* A run of runSubmit, what the writer can be handed, and what the parts   *)
(* of the surface may hold.                                                *)
Run ==
    [form : Forms, draft : Drafts, retry : BOOLEAN, edits : Nat,
     outcome : {"pending", "saved", "rejected"}]

Call == {CallFor(d) : d \in Drafts}

SurfaceTypeOK ==
    /\ wired \in Wirings \cup {NoWiring}
    /\ form \in [Forms -> Drafts]
    /\ projection.state \in {"idle", "submitting", "saved", "rejected"}
    /\ pending \in BOOLEAN
    /\ lastArgs \in Forms \cup {NoForm}
    /\ sent \in Seq(Run)
    /\ calls \in Seq(Call) /\ Len(calls) = Len(sent)
    /\ kept \subseteq DOMAIN sent
    /\ edits \in Nat

(* A saved projection shows the record that the writer was handed in this  *)
(* submit and holds, canonical, and of the tenant that the checked action  *)
(* spec and the options name, whatever the caller did to the form while    *)
(* the submit waited; the writer is called by one submit at a time.        *)
SavedIsRecorded ==
    /\ projection.state = "saved" =>
          LET i == Len(sent) IN
          /\ i \in kept /\ projection.record = calls[i].record
          /\ projection.record = Canonical(sent[i].draft.record)
          /\ projection.record.tenant = calls[i].tenant
    /\ \A i \in DOMAIN sent : sent[i].outcome = "pending" => i = Len(sent)

(* retry() repeats the submit that was rejected last, never another one    *)
(* and never one that was saved; unless the caller edited the form since,  *)
(* the writer gets the record and the fingerprint it may already hold, so  *)
(* that it can tell a repetition.                                          *)
RetryRepeats ==
    \A i \in DOMAIN sent : sent[i].retry =>
        /\ i > 1 /\ sent[i - 1].outcome = "rejected"
        /\ sent[i].form = sent[i - 1].form
        /\ sent[i].edits = sent[i - 1].edits => calls[i] = calls[i - 1]

(* A submit in flight settles and the surface takes submits again.         *)
SubmitEnds == pending ~> ~pending
============================================================================
