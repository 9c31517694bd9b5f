---------------------------- MODULE KernelValues ----------------------------
(***************************************************************************)
(* The value classes of the domain and application rings                   *)
(* (identity-primitives.mjs, action-primitives.mjs)                        *)
(* and the ports that recognise them (identity.mjs, clock.mjs, policy.mjs, *)
(* use-case.mjs, decision-log-port.mjs).                                   *)
(*                                                                         *)
(* A value is a record: its class, how it came about, and its parts.       *)
(*   genuine   the class's constructor built it                            *)
(*   hollow    built on the prototype (or a proxy): no private field       *)
(*   dressed   a hollow action with own name and version properties        *)
(*   derived   an instance of a subclass                                   *)
(* Raw inputs are seen as the outcome of the tests made on them.           *)
(***************************************************************************)
EXTENDS Naturals, Sequences, FiniteSets

CONSTANTS
    MaxCauseDepth,   \* MAX_CAUSE_DEPTH
    Null

ASSUME MaxCauseDepthAssumption == MaxCauseDepth \in Nat \ {0}

(* Prototype identity ...                                                  *)
IsExactly(v, class) == v # Null /\ v.class = class /\ v.born # "derived"

(* ... and the private field that only the constructor installs: a getter  *)
(* captured from the prototype returns, or throws.                         *)
CarriesBrand(v, class) == v # Null /\ v.class = class /\ v.born \in {"genuine", "derived"}

(* The prototype taken for the brand.                                      *)
GenuineByPrototype(v, class) == IsExactly(v, class)

Genuine(v, class) == IsExactly(v, class) /\ CarriesBrand(v, class)

----------------------------------------------------------------------------
(* The constructors: which arguments each accepts.                         *)

(* TenantId, CorrelationId, CausationId: a lowercase UUID, not the nil one. *)
CanonicalUuid(raw) == raw.string /\ raw.form /\ ~raw.nil

(* The three classes of that form, alike but for their name.               *)
NewUuid(class, raw) == [class |-> class, born |-> "genuine", value |-> raw]

(* ActorId: 1 to 128 visible ASCII characters.                             *)
CanonicalActor(raw) == raw.string /\ raw.visible /\ raw.length \in 1 .. 128

NewActorId(raw) == [class |-> "ActorId", born |-> "genuine", value |-> raw]

(* IdempotencyKey: 1 to 1024 bytes, no padding, no control character.      *)
FingerprintOf(raw) ==
    raw.string /\ raw.trimmed /\ ~raw.control /\ raw.length \in 1 .. 1024

(* The raw key is not kept: the fingerprint (SHA-256, injective) is.       *)
NewIdempotencyKey(raw) == [class |-> "IdempotencyKey", born |-> "genuine", value |-> raw]

(* Principal takes the two instances, by prototype.                        *)
PrincipalAccepts(tenantId, actorId) ==
    IsExactly(tenantId, "TenantId") /\ IsExactly(actorId, "ActorId")

NewPrincipal(tenantId, actorId) ==
    [class |-> "Principal", born |-> "genuine", tenantId |-> tenantId, actorId |-> actorId]

(* actionName and actionVersion.                                           *)
ActionName(name) == name.string /\ name.dotted /\ name.length <= 128
ActionVersion(version) == version \in Nat /\ version >= 1

OptionalCausation(v) == v = Null \/ IsExactly(v, "CausationId")

(* What Command and Query have in common.                                  *)
ActionAccepts(o) ==
    /\ o.exactOptions /\ ActionName(o.name) /\ ActionVersion(o.version)
    /\ IsExactly(o.principal, "Principal")
    /\ IsExactly(o.correlationId, "CorrelationId")
    /\ OptionalCausation(o.causationId)
    /\ o.canonicalPayload

CommandAccepts(o) == ActionAccepts(o) /\ IsExactly(o.idempotencyKey, "IdempotencyKey")

NewCommand(o) ==
    [class |-> "Command", born |-> "genuine", name |-> o.name, version |-> o.version,
     principal |-> o.principal, correlationId |-> o.correlationId,
     idempotencyKey |-> o.idempotencyKey]

QueryAccepts(o) == ActionAccepts(o)

NewQuery(o) ==
    [class |-> "Query", born |-> "genuine", name |-> o.name, version |-> o.version,
     principal |-> o.principal, correlationId |-> o.correlationId]

(* KernelError: reading the private depth of a hollow cause throws.        *)
KernelErrorAccepts(o) ==
    /\ o.exactOptions /\ o.code /\ o.details
    /\ \/ o.cause = Null
       \/ Genuine(o.cause, "KernelError") /\ o.cause.depth < MaxCauseDepth

NewKernelError(o) ==
    [class |-> "KernelError", born |-> "genuine", cause |-> o.cause,
     depth |-> IF o.cause = Null THEN 1 ELSE o.cause.depth + 1]

(* Result.failure takes an error by prototype.                             *)
ResultFailure(error) == IsExactly(error, "KernelError")

----------------------------------------------------------------------------
(* Rendering and equality.                                                 *)

(* toJSON of the composites: private fields of the receiver and of what it *)
(* holds are read.  toString of the identity values never throws: one that *)
(* is no instance renders as a placeholder.                                *)
PrincipalRenders(v) == CarriesBrand(v, "Principal")

QueryRenders(v) == CarriesBrand(v, "Query") /\ PrincipalRenders(v.principal)

CommandRenders(v) ==
    /\ CarriesBrand(v, "Command") /\ PrincipalRenders(v.principal)
    /\ CarriesBrand(v.idempotencyKey, "IdempotencyKey")

KernelErrorRenders(v) == CarriesBrand(v, "KernelError")

ResultRenders(v) == CarriesBrand(v, "Result") /\ (v.ok \/ KernelErrorRenders(v.error))

Renders(v) ==
    CASE v.class = "Command"     -> CommandRenders(v)
      [] v.class = "Query"       -> QueryRenders(v)
      [] v.class = "KernelError" -> KernelErrorRenders(v)
      [] v.class = "Result"      -> ResultRenders(v)
      [] v.class = "Principal"   -> PrincipalRenders(v)
      [] OTHER                   -> TRUE

Answer(b) == IF b THEN "true" ELSE "false"

(* equals of an identity value: the private fields are compared, and       *)
(* reading one of a hollow value throws.                                   *)
IdentityEquals(a, b, class) ==
    IF ~IsExactly(a, class) \/ ~IsExactly(b, class) THEN "false"
    ELSE IF ~CarriesBrand(a, class) \/ ~CarriesBrand(b, class) THEN "throws"
    ELSE Answer(a = b)

(* Principal.equals: the tenants, and if they are equal the actors.        *)
PrincipalEquals(a, b) ==
    IF ~IsExactly(a, "Principal") \/ ~IsExactly(b, "Principal") THEN "false"
    ELSE IF ~CarriesBrand(a, "Principal") \/ ~CarriesBrand(b, "Principal") THEN "throws"
    ELSE LET tenants == IdentityEquals(a.tenantId, b.tenantId, "TenantId") IN
         IF tenants = "true" THEN IdentityEquals(a.actorId, b.actorId, "ActorId") ELSE tenants

(* equals of an action, an error or a result: a brand check first, then    *)
(* the renderings are compared.                                            *)
RenderingEquals(a, b, class) ==
    IF ~Genuine(a, class) \/ ~Genuine(b, class) THEN "false"
    ELSE IF ~Renders(a) \/ ~Renders(b) THEN "throws"
    ELSE Answer(a = b)

Equals(a, b) ==
    CASE a.class \in {"Command", "Query", "KernelError", "Result"} -> RenderingEquals(a, b, a.class)
      [] a.class = "Principal" -> PrincipalEquals(a, b)
      [] OTHER                 -> IdentityEquals(a, b, a.class)

----------------------------------------------------------------------------
(* The ports.                                                              *)

(* collaboratorOf of Clock and Identity, Policy's constructor and          *)
(* DecisionLogPort's: one ordinary object with exactly one enumerable data *)
(* property, a function.                                                   *)
CollaboratorOf(o) == o.ordinary /\ o.onlyKey /\ o.data /\ o.enumerable /\ o.function

(* declarationOf and the four coordinates of a UseCase: neither            *)
(* ordinariness nor descriptors are looked at.                             *)
DeclarationOf(o) ==
    /\ o.onlyKey /\ o.function
    /\ o.kind \in {"command", "query"} /\ o.name.string /\ o.name.length > 0 /\ ActionVersion(o.version)

(* isGenuineAction of Policy.                                              *)
IsGenuineAction(v) == Genuine(v, "Command") \/ Genuine(v, "Query")

(* isResult of UseCase, isGenuineResult of Policy.                         *)
IsResult(v) == Genuine(v, "Result")

(* UseCase.execute: exact by prototype, then its name and version are      *)
(* read: that throws on a hollow action, a dressed one answers by itself.  *)
UseCaseAdmits(u, v) ==
    /\ IsExactly(v, IF u.kind = "command" THEN "Command" ELSE "Query")
    /\ v.born # "hollow"
    /\ v.name = u.name /\ v.version = u.version

Refusal == [class |-> "TypeError", born |-> "genuine"]

(* The gate, one call of the collaborator, the gate of its answer.  What   *)
(* the collaborator throws travels on.                                     *)
Forward(admitted, accepted, settled) ==
    IF ~admitted
    THEN [called |-> FALSE, rejects |-> TRUE, with |-> Refusal]
    ELSE [called  |-> TRUE,
          rejects |-> settled.throws \/ ~accepted,
          with    |-> IF settled.throws \/ accepted THEN settled.value ELSE Refusal]

Execute(u, v, settled) ==
    Forward(UseCaseAdmits(u, v), IsResult(settled.value), settled)

Consult(v, settled) == Forward(IsGenuineAction(v), IsResult(settled.value), settled)

(* DecisionLogPort looks at the entry only.                                *)
AppendEntry(v, settled) == Forward(Genuine(v, "DecisionLogEntry"), TRUE, settled)

(* Identity and Clock are given nothing.                                   *)
Current(settled) == Forward(TRUE, Genuine(settled.value, "Principal"), settled)

(* namesARealInstant of a primitive string (see Instants).                 *)
Now(settled) == Forward(TRUE, Genuine(settled.value, "Instant"), settled)

Port(port, v, settled) ==
    CASE port.is = "UseCase"         -> Execute(port, v, settled)
      [] port.is = "Policy"          -> Consult(v, settled)
      [] port.is = "DecisionLogPort" -> AppendEntry(v, settled)
      [] port.is = "Identity"        -> Current(settled)
      [] port.is = "Clock"           -> Now(settled)

----------------------------------------------------------------------------
(* A port resolves only with the very answer of its collaborator, and with *)
(* a genuine one where it recognises the class; it calls the collaborator  *)
(* only with a value of the right class that its constructor built, except *)
(* that a UseCase goes by prototype and coordinate.  A refusal is the      *)
(* port's own, unless the collaborator threw.                              *)
PortHandsOnGenuine(port, v, settled) ==
    LET o == Port(port, v, settled) IN
    /\ ~o.rejects => o.called /\ o.with = settled.value
    /\ ~o.rejects /\ port.is # "DecisionLogPort" =>
          o.with.born = "genuine" /\ o.with.class \in {"Result", "Principal", "Instant"}
    /\ o.rejects => o.with = Refusal \/ (o.called /\ settled.throws)
    /\ o.called /\ port.is \in {"Policy", "DecisionLogPort"} => v.born = "genuine"
    /\ o.called /\ port.is = "UseCase" =>
          /\ v.born \in {"genuine", "dressed"}
          /\ v.class = (IF port.kind = "command" THEN "Command" ELSE "Query")
          /\ v.name = port.name /\ v.version = port.version /\ v.version >= 1

(* equals is symmetric; it is true only of two genuine values of one class *)
(* with the same parts, and true of a genuine value and itself when it     *)
(* renders, for a Principal when its parts are genuine.                    *)
EqualsIsEquality(a, b) ==
    /\ Equals(a, b) = "true" =>
          a.class = b.class /\ a.born = "genuine" /\ b.born = "genuine" /\ a = b
    /\ Equals(a, b) = "true" <=> Equals(b, a) = "true"
    /\ a.born = "genuine" /\ Renders(a) =>
          \/ Equals(a, a) = "true"
          \/ a.class = "Principal" /\ "genuine" \notin {a.tenantId.born} \cap {a.actorId.born}
=============================================================================
