----------------------------- MODULE HostLaunch -----------------------------
(***************************************************************************)
(* How a host process is put together before its first request: the        *)
(* secret-file wrapper (secret_file_runner.mjs) reads its two mounts and   *)
(* hands a command line to the runner (create_customer_asgi_runner.mjs),   *)
(* which parses it, fixes the identity and chooses a composition (see      *)
(* CompositionFactories).                                                  *)
(*                                                                         *)
(* A word is an argument or a value of a file: its text, and the newlines  *)
(* at its end.                                                             *)
(***************************************************************************)
EXTENDS Integers, Sequences, FiniteSetsExt

CONSTANTS
    UuidForm,    \* texts of the canonical 8-4-4-4-12 form
    NilUuid,     \* the nil UUID, one of them
    ActorForm,   \* texts of 1 to 128 visible ASCII characters
    Missing,     \* undefined
    NoArgs       \* a refusal: exit code 1 before stdin is read

Word(text) == [text |-> text, newlines |-> 0]
Empty == Word("")

NeverConnected == Word("postgres://never-connected")
FallbackTenant == Word("fallback-tenant")
FallbackActor  == Word("fallback-actor")

----------------------------------------------------------------------------
(* The runner's command line.                                              *)

(* A value's form is that of the identity primitives; a newline is no part *)
(* of either form.                                                         *)
CheckTrustedTenantId(w) == w.newlines = 0 /\ w.text \in UuidForm \ {NilUuid}
CheckTrustedActorId(w)  == w.newlines = 0 /\ w.text \in ActorForm

Defaults ==
    [policy |-> Word("deny"), connectionString |-> Missing, trustedTenantId |-> Missing,
     trustedActorId |-> Missing, audit |-> Word("off")]

FlagOf ==
    [policy |-> Word("--policy"), connectionString |-> Word("--connection-string"),
     trustedTenantId |-> Word("--trusted-tenant-id"), trustedActorId |-> Word("--trusted-actor-id"),
     audit |-> Word("--audit")]

(* What the value of an argument must be.                                  *)
ValueAccepted(arg, w) ==
    \/ arg = "policy" /\ w \in {Word("deny"), Word("allow")}
    \/ arg = "connectionString" /\ w # Empty
    \/ arg = "trustedTenantId" /\ CheckTrustedTenantId(w)
    \/ arg = "trustedActorId" /\ CheckTrustedActorId(w)
    \/ arg = "audit" /\ w \in {Word("on"), Word("off")}

(* The loop: a flag, then its value by position, whatever it looks like.   *)
RECURSIVE ReadFlags(_, _)
ReadFlags(argv, args) ==
    IF argv = <<>> THEN args
    ELSE LET named == {a \in DOMAIN FlagOf : FlagOf[a] = argv[1]} IN
         IF named = {} \/ Len(argv) = 1 THEN NoArgs
         ELSE LET arg == CHOOSE a \in named : TRUE IN
              IF ~ValueAccepted(arg, argv[2]) THEN NoArgs
              ELSE ReadFlags(SubSeq(argv, 3, Len(argv)), [args EXCEPT ![arg] = argv[2]])

Allows(args) == args.policy = Word("allow")
Audits(args) == args.audit = Word("on")

(* Mutant: an audit is accepted in deny mode, where none is composed.      *)
ParseArgsAuditAnyPolicy(argv) ==
    LET args == ReadFlags(argv, Defaults) IN
    IF args # NoArgs
       /\ (Allows(args) => Missing \notin {args.connectionString, args.trustedTenantId, args.trustedActorId})
    THEN args ELSE NoArgs

ParseArgs(argv) ==
    LET args == ReadFlags(argv, Defaults) IN
    IF args # NoArgs
       /\ (Audits(args) => Allows(args))
       /\ (Allows(args) => Missing \notin {args.connectionString, args.trustedTenantId, args.trustedActorId})
    THEN args ELSE NoArgs

(* The first header of that name; names come lower-cased here.             *)
HeaderValue(headers, name) ==
    LET hits == {i \in DOMAIN headers : headers[i].name = name} IN
    IF hits = {} THEN Missing ELSE headers[Min(hits)].value

Or(w, fallback) == IF w \in {Missing, Empty} THEN fallback ELSE w

(* Whose request it is: in deny mode whatever the headers claim.           *)
TenantOf(args, headers) ==
    IF Allows(args) THEN args.trustedTenantId
    ELSE Or(HeaderValue(headers, "x-tenant-id"), FallbackTenant)
ActorOf(args, headers) ==
    IF Allows(args) THEN args.trustedActorId
    ELSE Or(HeaderValue(headers, "x-actor-id"), FallbackActor)

(* Which composition is created, over which database.                      *)
Compose(args, headers) ==
    [factory    |-> IF Allows(args) /\ Audits(args) THEN "auditedAsgi" ELSE "asgi",
     connection |-> IF Allows(args) THEN args.connectionString ELSE NeverConnected,
     candidate  |-> IF Allows(args) THEN "allow" ELSE "deny",
     tenant     |-> TenantOf(args, headers),
     actor      |-> ActorOf(args, headers)]

----------------------------------------------------------------------------
(* The wrapper.                                                            *)

PathFlags == {Word("--config-file"), Word("--database-url-file")}

(* Flags at the odd positions, each once, each followed by a path.         *)
ParsePaths(argv) ==
    LET places == {i \in DOMAIN argv : i % 2 = 1} IN
    /\ \A i \in places :
          /\ argv[i] \in PathFlags
          /\ \A j \in places : j < i => argv[j] # argv[i]
          /\ i + 1 \in DOMAIN argv /\ argv[i + 1] # Empty
    /\ \A flag \in PathFlags : \E i \in places : argv[i] = flag

PathOf(argv, flag) == argv[1 + CHOOSE i \in DOMAIN argv : i % 2 = 1 /\ argv[i] = flag]

ConfigFields == {"audit", "policy", "trustedActorId", "trustedTenantId"}

(* The mounted config: an object of exactly these fields.                  *)
CheckConfig(config) ==
    /\ DOMAIN config = ConfigFields
    /\ config.policy = Word("allow") /\ config.audit = Word("on")
    /\ CheckTrustedTenantId(config.trustedTenantId)
    /\ CheckTrustedActorId(config.trustedActorId)

(* One newline is taken off the credential.                                *)
ConnectionString(mounted) == [mounted EXCEPT !.newlines = IF @ > 0 THEN @ - 1 ELSE 0]

(* The command line handed on, or a refusal.  configs and secrets hold the *)
(* files that can be read (and, for a config, parsed), by path.            *)
Delegate(argv, configs, secrets) ==
    IF ~ParsePaths(argv) THEN NoArgs
    ELSE LET configPath == PathOf(argv, Word("--config-file"))
             dbPath == PathOf(argv, Word("--database-url-file"))
         IN  IF \/ configPath \notin DOMAIN configs \/ ~CheckConfig(configs[configPath])
                \/ dbPath \notin DOMAIN secrets \/ ConnectionString(secrets[dbPath]) = Empty
             THEN NoArgs
             ELSE LET config == configs[configPath] IN
                  <<FlagOf.policy, Word("allow"),
                    FlagOf.connectionString, ConnectionString(secrets[dbPath]),
                    FlagOf.trustedTenantId, config.trustedTenantId,
                    FlagOf.trustedActorId, config.trustedActorId,
                    FlagOf.audit, Word("on")>>

----------------------------------------------------------------------------
(* An accepted command line means the last value of each of its flags and  *)
(* loses none of its words unnoticed.  A database is named only together   *)
(* with an identity in canonical form that no header can change, and an    *)
(* audit that was asked for is composed.                                   *)
LineIsExplicit(argv, headers) ==
    LET args == ParseArgs(argv)
        places(a) == {i \in DOMAIN argv : i % 2 = 1 /\ argv[i] = FlagOf[a]}
    IN  args # NoArgs =>
        LET c == Compose(args, headers) IN
        /\ \A a \in DOMAIN args :
              args[a] = IF places(a) = {} THEN Defaults[a] ELSE argv[Max(places(a)) + 1]
        /\ \A i \in DOMAIN argv :
              ParseArgs(SubSeq(argv, 1, i - 1) \o SubSeq(argv, i + 1, Len(argv))) = NoArgs
        /\ c.connection # NeverConnected => c.candidate = "allow"
        /\ c.candidate = "allow" =>
              /\ CheckTrustedTenantId(c.tenant) /\ CheckTrustedActorId(c.actor)
              /\ c = Compose(args, <<>>)
        /\ Audits(args) <=> c.factory = "auditedAsgi"

(* Whatever the wrapper hands on, the runner accepts, and it composes the  *)
(* audited composition over the mounted credential for the principal of    *)
(* the mounted config, under any headers.                                  *)
DelegationIsExact(argv, configs, secrets, headers) ==
    LET line == Delegate(argv, configs, secrets) IN
    line # NoArgs =>
        /\ Len(argv) = 4 /\ ParseArgs(line) # NoArgs
        /\ LET c == Compose(ParseArgs(line), headers)
               config == configs[PathOf(argv, Word("--config-file"))]
               secret == secrets[PathOf(argv, Word("--database-url-file"))]
           IN  /\ c.factory = "auditedAsgi"
               /\ c.tenant = config.trustedTenantId /\ c.actor = config.trustedActorId
               /\ c.connection.text = secret.text
               /\ c.connection.newlines \in {secret.newlines, secret.newlines - 1} \cap Nat
=============================================================================
