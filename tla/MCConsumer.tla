---------------------------- MODULE MCConsumer -----------------------------
(***************************************************************************)
(* The consumer's side of the kernel and the values that cross its         *)
(* boundary: the customer surface and a distribution are state machines,   *)
(* the other modules are definitions that are asked about one subject of a *)
(* bounded set each.                                                       *)
(***************************************************************************)
EXTENDS CustomerSurface, CanonicalValues, Instants, KernelValues, TokenGuard, RunRecords,
        HostLaunch, CompositionFactories, Distribution

(* Drafts: a sound one, the same with a padded name, another customer, and *)
(* four that some check refuses.                                           *)
Sound ==
    [keys |-> TRUE, options |-> TRUE, specTenant |-> "tA", tenant |-> "tA",
     record |-> [shape |-> TRUE, text |-> "ann", padded |-> FALSE, payload |-> TRUE,
                 tenant |-> "tA"],
     auditCorrelation |-> "c", outboxCorrelation |-> "c", fingerprint |-> "k"]

MCDrafts ==
    {Sound,
     [Sound EXCEPT !.record.padded = TRUE],
     [Sound EXCEPT !.record.text = "bob", !.fingerprint = "l"],
     [Sound EXCEPT !.keys = FALSE],
     [Sound EXCEPT !.tenant = "tB"],
     [Sound EXCEPT !.outboxCorrelation = "d"],
     [Sound EXCEPT !.record.payload = FALSE]}

SoundWiring ==
    [contract |-> TRUE, action |-> "customer.create@1", coordinate |-> "customer.create@1",
     grants |-> {"customer:core"}, cutoverOptions |-> TRUE, handle |-> TRUE]

MCWirings ==
    {SoundWiring, [SoundWiring EXCEPT !.coordinate = "customer.create@2"],
     [SoundWiring EXCEPT !.grants = {}], [SoundWiring EXCEPT !.handle = FALSE]}

----------------------------------------------------------------------------
VARIABLE subject

Members == {"n1", "n2", "n3", "fine"}
Heaps ==
    {("n1" :> [kind |-> "object", members |-> a]) @@ ("n2" :> [kind |-> "array", members |-> b])
        @@ ("n3" :> [kind |-> k, members |-> c]) :
        a \in SeqOf(Members, 2), b \in SeqOf(Members, 2),
        c \in SeqOf(Members \cup {"odd"}, 1), k \in Kinds}

Years == (0 .. 5) \cup (99 .. 101) \cup (399 .. 401) \cup (1899 .. 1901) \cup (1999 .. 2001)
           \cup (2023 .. 2025) \cup (2099 .. 2101) \cup {9999}

(* Values the constructors accept, and impostors of each class.            *)
Uuid == [string |-> TRUE, form |-> TRUE, nil |-> FALSE]
Uuids == {Uuid, [Uuid EXCEPT !.nil = TRUE], [Uuid EXCEPT !.form = FALSE]}
Actors == [string : {TRUE}, visible : BOOLEAN, length : {0, 1, 128, 129}]
Raws == [string : {TRUE}, trimmed : BOOLEAN, control : BOOLEAN, length : {0, 1, 1024, 1025}]

Impostors(class) == {[class |-> class, born |-> b] : b \in {"hollow", "derived"}}
TenantIds == Impostors("TenantId") \cup
    {NewUuid("TenantId", v) : v \in {u \in Uuids : CanonicalUuid(u)} \X {1, 2}}
ActorIds == Impostors("ActorId") \cup
    {NewActorId(v) : v \in {a \in Actors : CanonicalActor(a)}}
Keys == Impostors("IdempotencyKey") \cup
    {NewIdempotencyKey(v) : v \in {r \in Raws : FingerprintOf(r)}}
Principals == Impostors("Principal") \cup
    {NewPrincipal(p[1], p[2]) : p \in {p \in TenantIds \X ActorIds : PrincipalAccepts(p[1], p[2])}}

Name == [text |-> "customer.create", string |-> TRUE, dotted |-> TRUE, length |-> 15]
ActionOptions(principals, versions, keys) ==
    [exactOptions : {TRUE}, name : {Name}, version : versions, principal : principals,
     correlationId : {[class |-> "CorrelationId", born |-> "hollow"]}, causationId : {Null},
     canonicalPayload : BOOLEAN, idempotencyKey : keys]

SomePrincipals ==
    {p \in Principals : p.born = "genuine" => p.actorId.born = "hollow" \/ p.actorId.value.length = 1}
MCOptions == ActionOptions(SomePrincipals, {0, 1}, Keys)
Commands == Impostors("Command") \cup
    {NewCommand(o) : o \in {o \in MCOptions : CommandAccepts(o)}}
Queries == Impostors("Query") \cup
    {NewQuery(o) : o \in {o \in MCOptions : QueryAccepts(o)}}
FirstError == NewKernelError([cause |-> Null])
Errors == Impostors("KernelError") \cup {FirstError, NewKernelError([cause |-> FirstError])}
Results == Impostors("Result") \cup
    {[class |-> "Result", born |-> "genuine", ok |-> TRUE]} \cup
    {[class |-> "Result", born |-> "genuine", ok |-> FALSE, error |-> e] :
        e \in {e \in Errors : ResultFailure(e)}}
Entries == Impostors("DecisionLogEntry") \cup {[class |-> "DecisionLogEntry", born |-> "genuine"]}
Readings == Impostors("Instant") \cup {[class |-> "Instant", born |-> "genuine"]}
Dressed == {[class |-> c, born |-> "dressed", name |-> Name, version |-> v] :
               c \in {"Command", "Query"}, v \in {0, 1}}

Actions == Commands \cup Queries
Comparable == TenantIds \cup Principals \cup Actions \cup Errors \cup Results
Given == Actions \cup Dressed \cup Entries
Settled == [throws : BOOLEAN, value : Results \cup Principals \cup Readings]
Collaborators ==
    [is : {"Policy", "DecisionLogPort", "Identity", "Clock"}, ordinary : {TRUE}, onlyKey : {TRUE},
     data : BOOLEAN, enumerable : {TRUE}, function : BOOLEAN]
Declarations ==
    [is : {"UseCase"}, onlyKey : {TRUE}, function : BOOLEAN, kind : {"command", "query", "event"},
     name : {Name}, version : {0, 1}]
PortSet == {o \in Collaborators : CollaboratorOf(o)} \cup {o \in Declarations : DeclarationOf(o)}

(* Requests to the guard: at most two topics at a time, in three roles,    *)
(* with the facts that touch them.                                         *)
AskNothing ==
    [task |-> Hidden, role |-> "writer", lens |-> "l1", read |-> Hidden, changePackage |-> Hidden,
     sessionId |-> "s1", worktree |-> Hidden, branch |-> Hidden, opensWorker |-> FALSE,
     requestedWorkerCount |-> 1, useReviewFrom |-> Hidden, action |-> Hidden, signals |-> <<>>]
FoundNothing ==
    [liveWorkers |-> {}, alreadyRead |-> {}, activeWriters |-> {}, worktrees |-> {},
     guardian |-> [allowNewWorker |-> TRUE, recommendedNewWorkers |-> 1], reviews |-> {},
     currentSnapshot |-> "now", panels |-> {}, gates |-> Hidden]

Topic(asked, found) == [q : asked, f : found]
Worker == [running : BOOLEAN, task : {"t1"}, role : {"writer", "reviewer"}, lens : {"l1", "l2"}]
Worktree == [path : {"w1", "w2"}, branch : {"b1"}, dirty : {TRUE, FALSE, Hidden}]
Topics ==
    Topic([task : {"t1"}], [liveWorkers : {{}} \cup {{w} : w \in Worker}]) \cup
    Topic([read : [path : {"p"}, sha256 : {"h"}, lines : {Hidden, <<1, 2>>}]],
          [alreadyRead : {{[path |-> "p", sha256 |-> "h", lines |-> l]} : l \in {Hidden, <<2, 3>>, <<1, 3>>}}]) \cup
    Topic([changePackage : {"p1"}],
          [activeWriters : {{[changePackage |-> "p1", sessionId |-> s]} : s \in {"s1", "s2"}}]) \cup
    Topic([worktree : {"w1"}, branch : {Hidden, "b1"}], [worktrees : {{}} \cup {{w} : w \in Worktree}]) \cup
    Topic([opensWorker : {TRUE}, requestedWorkerCount : {1, 2}],
          [guardian : [allowNewWorker : BOOLEAN, recommendedNewWorkers : {1}]]) \cup
    Topic([useReviewFrom : {"r1"}],
          [reviews : {{[id |-> "r1", snapshot |-> t]} : t \in {"now", "then", Hidden}}]) \cup
    Topic([action : {"push", "read", "reset"},
           signals : {<<>>, "amend" :> TRUE, "forcePush" :> TRUE, "tag" :> Prose}],
          [gates : {Hidden, <<>>, "g1" :> TRUE} \cup [RequiredGates -> BOOLEAN]]) \cup
    Topic([lens : {"l2"}], [panels : {{[completed |-> TRUE, open |-> TRUE]}}])
Ledger == [invocations : {Hidden, 0, 4, 5, 6}, saved : {0, 2, 4}, spent : {0, 2, 4}]
Economics == [minimumInvocations : {5}, minimumNetSaving : {0, 1}]

(* Contract files: two that share a coordinate, one of another action and  *)
(* without outcomes, and two that are refused.                             *)
List(names) == [safe |-> TRUE, names |-> names]
Offer ==
    [exactOptions |-> TRUE, kind |-> "command", coordinate |-> [sound |-> TRUE, text |-> "a.b@1"],
     fields |-> List(<<"x", "y">>), outcomes |-> List(<<"DONE">>), errorEnvelopeFields |-> List(<<>>)]
MCOffers ==
    {Offer, [Offer EXCEPT !.fields = List(<<"x">>)],
     [Offer EXCEPT !.kind = "query", !.coordinate.text = "a.b@2", !.outcomes = List(<<>>)],
     [Offer EXCEPT !.fields = List(<<"x", "x">>)],
     [Offer EXCEPT !.coordinate.sound = FALSE]}

(* Run records: every one of a kind, and pairs of those of a real team.    *)
HelpEvent == [closed |-> TRUE, usable |-> HelpEventFields]
Evidence ==
    {[form |-> TRUE, sha256 |-> "h", readable |-> TRUE, found |-> f] : f \in {"h", "g"}} \cup
    {[form |-> TRUE, sha256 |-> "list of h", readable |-> TRUE, found |-> "h"],
     [form |-> FALSE, sha256 |-> "H", readable |-> TRUE, found |-> "h"],
     [form |-> TRUE, sha256 |-> "h", readable |-> FALSE, found |-> "h"]}
RunRecord ==
    [fields : BOOLEAN, teamId : {"t1", "t2"}, ownerHelpCount : {0, 1},
     participantKind : {AcceptedParticipant, "agent", "visitor"},
     helpEvents : {<<>>, <<HelpEvent>>, <<[HelpEvent EXCEPT !.usable = {"at"}]>>,
                   <<[HelpEvent EXCEPT !.closed = FALSE]>>},
     evidence : Evidence, outcome : {"completed", "abandoned", "void"},
     outcomeReason : VoidReasons \cup {NoReason, "no time"}]
RecordFile(r) == [readable |-> TRUE, record |-> r]
SomeRecords ==
    {r \in RunRecord : /\ ValidateShape(r) /\ r.evidence.readable
                       /\ r.participantKind = AcceptedParticipant}
RecordFiles ==
    {<<>>, <<[readable |-> FALSE]>>} \cup {<<RecordFile(r)>> : r \in RunRecord}
      \cup {<<RecordFile(p[1]), RecordFile(p[2])>> : p \in SomeRecords \X SomeRecords}

(* Command lines: whole ones with one pair of words replaced by another,   *)
(* put first or put last.  Values may look like flags.                     *)
Line == <<FlagOf.policy, Word("allow"), FlagOf.connectionString, Word("db"),
          FlagOf.trustedTenantId, Word("u1"), FlagOf.trustedActorId, Word("ann"),
          FlagOf.audit, Word("on")>>
Words == {Word("allow"), Word("deny"), Word("on"), Word("off"), Word("u1"), Word("nil"),
          Word("ann"), Word(""), Word("db"), Word("--verbose"),
          [text |-> "u1", newlines |-> 1]} \cup {FlagOf[a] : a \in DOMAIN FlagOf}
Pairs == Words \X Words
Lines ==
    {<<>>, Line} \cup Pairs
      \cup {[Line EXCEPT ![i] = p[1], ![i + 1] = p[2]] : i \in 1 .. 9, p \in Pairs}
      \cup {p \o Line : p \in Pairs} \cup {Line \o p : p \in Pairs}
HeaderLists ==
    {<<>>, <<[name |-> "x-tenant-id", value |-> Word("u2")], [name |-> "x-actor-id", value |-> Empty]>>,
     <<[name |-> "x-actor-id", value |-> Word("bob")], [name |-> "x-actor-id", value |-> Word("ann")]>>}

WrapperWords == PathFlags \cup {Word("c"), Word("d"), Empty, FlagOf.connectionString}
WrapperLines == SeqOf(WrapperWords, 4)
Config ==
    [policy |-> Word("allow"), audit |-> Word("on"), trustedTenantId |-> Word("u1"),
     trustedActorId |-> FlagOf.audit]
Configs ==
    {Config, [Config EXCEPT !.policy = Word("deny")], [Config EXCEPT !.audit = Word("off")],
     [Config EXCEPT !.trustedTenantId = Word("nil")], [Config EXCEPT !.trustedActorId = Empty],
     [Config EXCEPT !.trustedActorId = [text |-> "ann", newlines |-> 1]],
     Config @@ [database |-> Word("db")], [policy |-> Word("allow"), audit |-> Word("on")]}
Secrets == [text : {"", "db", "--policy"}, newlines : 0 .. 2]

(* Options: sound ones of each factory with up to two edits.               *)
Sorts == [text |-> {"connectionString"}, statements |-> {"statements"}, count |-> {"maxBodyBytes"}]
SortOf(k) == IF \E t \in DOMAIN Sorts : k \in Sorts[t]
             THEN CHOOSE t \in DOMAIN Sorts : k \in Sorts[t] ELSE "function"
SoundMembers(keys) == [k \in keys |-> [how |-> "data", type |-> SortOf(k)]]
EditedMembers(members) ==
    {members} \cup {[k \in DOMAIN members \ {d} |-> members[k]] : d \in DOMAIN members}
      \cup {(k :> [how |-> h, type |-> t]) @@ members :
               k \in DOMAIN members \cup {"extra", "maxBodyBytes"},
               h \in {"data", "hidden", "accessor"}, t \in {"function", "count", "impostors"}}
FactoryKeys ==
    [plain |-> PlainKeys, asgi |-> PlainKeys, audited |-> AuditedKeys, auditedAsgi |-> AuditedKeys,
     log |-> LogKeys]
OptionSets(factory) ==
    UNION {EditedMembers(m) : m \in EditedMembers(SoundMembers(FactoryKeys[factory]))}

----------------------------------------------------------------------------
(* A behaviour is about one subject: the customer surface, a distribution, *)
(* a growing chain of errors, or a value that a pure definition is asked   *)
(* about.  The variables of the others stay as they are.                   *)
Init ==
    /\ DistributionInit
    /\ \/ SurfaceInit /\ subject = [of |-> "surface"]
       \/ /\ SurfaceInit /\ form = [f \in Forms |-> Sound]
          /\ \/ subject = [of |-> "distribution"]
             \/ subject = [of |-> "error", error |-> FirstError]
             \/ subject \in [of : {"heap"}, heap : Heaps]
             \/ subject \in [of : {"year"}, year : Years]
             \/ subject \in [of : {"pair"}, a : Comparable, b : Comparable]
             \/ subject \in [of : {"port"}, port : PortSet, given : Given, settled : Settled]
             \/ subject \in [of : {"records"}, files : RecordFiles]
             \/ subject \in [of : {"line"}, argv : Lines, headers : HeaderLists]
             \/ subject \in [of : {"mounts"}, argv : WrapperLines, config : {Config},
                             secret : {[text |-> "db", newlines |-> 1]}]
             \/ subject \in [of : {"mounts"}, argv : {w \in WrapperLines : ParsePaths(w)},
                             config : Configs, secret : Secrets]
             \/ \E factory \in DOMAIN FactoryKeys :
                   subject \in [of : {"options"}, factory : {factory},
                                options : [ordinary : {TRUE}, members : OptionSets(factory)]
                                  \cup {[ordinary |-> FALSE, members |-> SoundMembers(FactoryKeys[factory])]}]
             \/ subject \in [of : {"ledger"}, ledger : Ledger, policy : Economics]
             \/ \E t, u \in Topics, r \in {"writer", "reviewer", "planner"} :
                   subject = [of |-> "guard", q |-> [role |-> r] @@ t.q @@ u.q @@ AskNothing,
                              f |-> t.f @@ u.f @@ FoundNothing]

(* An error becomes the cause of another.                                  *)
Wrap ==
    /\ subject.of = "error"
    /\ LET o == [exactOptions |-> TRUE, code |-> TRUE, details |-> TRUE, cause |-> subject.error]
       IN  /\ KernelErrorAccepts(o)
           /\ subject' = [subject EXCEPT !.error = NewKernelError(o)]
    /\ UNCHANGED <<surface, distribution>>

Next ==
    \/ subject.of = "surface" /\ SurfaceNext /\ UNCHANGED <<distribution, subject>>
    \/ subject.of = "distribution" /\ DistributionNext /\ UNCHANGED <<surface, subject>>
    \/ Wrap

Spec == Init /\ [][Next]_<<surface, distribution, subject>> /\ SurfaceFairness

----------------------------------------------------------------------------
(* Payloads and records are cloned as trees or refused (action-primitives, *)
(* customer-records-schema), and the instants accepted are exactly those   *)
(* of the calendar (clock, commit-receipt).                                *)
DataIsCanonical ==
    /\ subject.of = "heap" => ClonesAreTrees(subject.heap, "n1")
    /\ subject.of = "year" => InstantsAreReal(subject.year)

(* A chain of causes is as long as the depth of its head says and within   *)
(* the bound, however often an error is made the cause of another.         *)
RECURSIVE ChainLength(_)
ChainLength(e) == IF e = Null THEN 0 ELSE 1 + ChainLength(e.cause)

CauseChainBounded(e) == ChainLength(e) = e.depth /\ e.depth <= MaxCauseDepth

(* equals of the value classes is an equality of genuine values, a chain   *)
(* of causes stays bounded, and the ports hand on genuine values only.     *)
ValuesAreGenuine ==
    /\ subject.of = "pair" => EqualsIsEquality(subject.a, subject.b)
    /\ subject.of = "error" => CauseChainBounded(subject.error)
    /\ subject.of = "port" => PortHandsOnGenuine(subject.port, subject.given, subject.settled)

(* token-guard.mjs never passes a request for want of an observation, its  *)
(* governor never switches itself on by spending, and the run record       *)
(* checker counts each team once, for clean completed runs only.           *)
ToolsFailClosed ==
    /\ subject.of = "guard" =>
          GuardFailsClosed(subject.q, subject.f) /\ ReaderFailsClosed(subject.q, subject.f)
    /\ subject.of = "ledger" =>
          \A spent \in 0 .. 3 : StaysSwitchedOff(subject.ledger, subject.policy, spent)
    /\ subject.of = "records" => TeamsCountOnce(subject.files)

(* A host process is what its command line, its mounts and its options say *)
(* (create_customer_asgi_runner, secret_file_runner, the compositions): no *)
(* word is lost, no header becomes an identity next to a database, and a   *)
(* refusal leaves no pool behind.                                          *)
LaunchIsExplicit ==
    /\ subject.of = "line" => LineIsExplicit(subject.argv, subject.headers)
    /\ subject.of = "mounts" => \A headers \in HeaderLists :
          DelegationIsExact(subject.argv, Word("c") :> subject.config, Word("d") :> subject.secret, headers)
    /\ subject.of = "options" => RefusalLeavesNothing(subject.factory, subject.options)
============================================================================
