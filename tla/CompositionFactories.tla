------------------------ MODULE CompositionFactories ------------------------
(***************************************************************************)
(* The factories of the five compositions (create-customer-composition,    *)
(* create-customer-asgi-composition, policy-decision-log-composition):     *)
(* they check their options and construct their parts, in order.           *)
(*                                                                         *)
(* A member of an options object is how it is declared (data, hidden for a *)
(* data property that is not enumerable, or accessor) and the type that    *)
(* one read of it gives.                                                   *)
(***************************************************************************)
EXTENDS Naturals, Sequences, FiniteSets

PlainKeys   == {"connectionString", "current", "candidatesFor", "evaluateInvariants"}
AuditedKeys == PlainKeys \cup {"idGenerator", "now"}
LogKeys     == {"connectionString", "statements", "idGenerator", "now"}

(* One read of a member gives a value of this type.                        *)
Is(o, key, type) == key \in DOMAIN o.members /\ o.members[key].type = type

AreFunctions(o, keys) == \A key \in keys : Is(o, key, "function")
PlainData(o, keys) == \A key \in keys : key \in DOMAIN o.members /\ o.members[key].how = "data"

(* createCustomerComposition: its members are read as properties.          *)
CheckPlain(o) ==
    /\ o.ordinary /\ DOMAIN o.members = PlainKeys
    /\ Is(o, "connectionString", "text")
    /\ AreFunctions(o, PlainKeys \ {"connectionString"})

BodyLimitSound(o) == "maxBodyBytes" \in DOMAIN o.members => Is(o, "maxBodyBytes", "count")

(* createCustomerAsgiComposition: the same and an optional limit.          *)
CheckAsgi(o) ==
    /\ o.ordinary
    /\ PlainKeys \subseteq DOMAIN o.members /\ DOMAIN o.members \subseteq PlainKeys \cup {"maxBodyBytes"}
    /\ Is(o, "connectionString", "text")
    /\ AreFunctions(o, PlainKeys \ {"connectionString"})
    /\ BodyLimitSound(o)

(* createAuditedCustomerComposition: every member by its descriptor.       *)
CheckAudited(o) ==
    /\ o.ordinary /\ Cardinality(DOMAIN o.members) = Cardinality(AuditedKeys)
    /\ PlainData(o, AuditedKeys)
    /\ Is(o, "connectionString", "text")
    /\ AreFunctions(o, AuditedKeys \ {"connectionString"})

CheckAuditedAsgi(o) ==
    LET admitted == AuditedKeys \cup ({"maxBodyBytes"} \cap DOMAIN o.members) IN
    /\ o.ordinary /\ Cardinality(DOMAIN o.members) = Cardinality(admitted)
    /\ PlainData(o, admitted)
    /\ Is(o, "connectionString", "text")
    /\ AreFunctions(o, AuditedKeys \ {"connectionString"})
    /\ BodyLimitSound(o)

(* policyDecisionLogComposition.  An array of statements may hold an       *)
(* impostor, which its resolver refuses.                                   *)
CheckLog(o) ==
    /\ o.ordinary /\ DOMAIN o.members = LogKeys /\ PlainData(o, LogKeys)
    /\ Is(o, "connectionString", "text")
    /\ Is(o, "statements", "statements") \/ Is(o, "statements", "impostors")
    /\ AreFunctions(o, {"idGenerator", "now"})

(* The constructions of a factory, in order: does the constructor accept   *)
(* its part, and does it create a pool (the log adapter does at once, the  *)
(* unit of work on first use).                                             *)
Part(accepts) == [accepts |-> accepts, pool |-> FALSE]
LogAdapter(o) == [accepts |-> Is(o, "connectionString", "text"), pool |-> TRUE]

PlainParts(o) ==
    <<Part(CheckPlain(o)), Part(Is(o, "current", "function")), Part(Is(o, "candidatesFor", "function")),
      Part(Is(o, "evaluateInvariants", "function")), Part(Is(o, "connectionString", "text"))>>

AuditedParts(o) ==
    <<Part(CheckAudited(o)), Part(Is(o, "current", "function")), Part(Is(o, "now", "function")),
      LogAdapter(o),
      Part(AreFunctions(o, {"candidatesFor", "idGenerator"})),
      Part(Is(o, "evaluateInvariants", "function")), Part(Is(o, "connectionString", "text"))>>

LogParts(o) ==
    <<Part(CheckLog(o)), Part(Is(o, "statements", "statements")), Part(Is(o, "now", "function")),
      LogAdapter(o), Part(Is(o, "idGenerator", "function"))>>

(* The object an outer factory builds for the inner one.                   *)
Rebuilt(o, keys) ==
    [ordinary |-> TRUE,
     members |-> [k \in keys \cap DOMAIN o.members |-> [how |-> "data", type |-> o.members[k].type]]]

PartsOf(factory, o) ==
    CASE factory = "plain"       -> PlainParts(o)
      [] factory = "asgi"        -> <<Part(CheckAsgi(o))>> \o PlainParts(Rebuilt(o, PlainKeys))
      [] factory = "audited"     -> AuditedParts(o)
      [] factory = "auditedAsgi" -> <<Part(CheckAuditedAsgi(o))>> \o AuditedParts(Rebuilt(o, AuditedKeys))
      [] factory = "log"         -> LogParts(o)

(* Construction stops at the first part that refuses.                      *)
Construct(factory, o) ==
    LET parts == PartsOf(factory, o)
        done == {i \in DOMAIN parts : \A j \in 1 .. i : parts[j].accepts}
    IN  [refused |-> done # DOMAIN parts, made |-> Cardinality(done),
         pools |-> Cardinality({i \in done : parts[i].pool})]

----------------------------------------------------------------------------
(* A factory that refuses leaves no pool that nobody could close; an outer *)
(* gate accepts nothing that a later part refuses, but for the statements; *)
(* and the audited and the log factory run no accessor of their caller.    *)
RefusalLeavesNothing(factory, o) ==
    LET c == Construct(factory, o) IN
    /\ c.refused => c.pools = 0
    /\ c.refused /\ c.made > 0 => factory = "log" /\ c.made = 1
    /\ ~c.refused /\ factory \in {"audited", "auditedAsgi", "log"} =>
          /\ c.pools = 1
          /\ \A k \in DOMAIN o.members : o.members[k].how = "data"
=============================================================================
