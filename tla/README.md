# Verification of the metaframer kernel

TLA+ models of the kernel's run-time core, checked with TLC on small instances,
with TLAPS proofs for every value of the constants where they are within reach.
Each definition is translated from the code; `PROJECT.json` ("map") names the
lines behind it.

- [1. The system](#1-the-system)
- [2. Modules and the code they model](#2-modules-and-the-code-they-model)
- [3. Runs](#3-runs)
- [4. Fairness](#4-fairness)
- [5. Proofs](#5-proofs)
- [6. Findings](#6-findings)
- [7. Assumptions and abstractions](#7-assumptions-and-abstractions)
- [8. What is not modelled](#8-what-is-not-modelled)
- [9. Plan](#9-plan)

## 1. The system

The kernel accepts one business action, `customer.create`, over HTTP and makes it
durable in PostgreSQL with an audit row and a message for the outside world.

    HTTP server -> Python host bridge -> one node process per request
      -> ASGI profile -> router -> HTTP adapter -> request handler
      -> pipeline: identity guard, command, policy decision, invariants
      -> commit service -> write envelope -> unit of work -> PostgreSQL
    outbox relay (another process) -> delivery callback

| Component | State | Operations | What is hard about it | What makes it correct |
|---|---|---|---|---|
| Transactional outbox, `db/.../outbox.py` | claim, lease, attempt and publication columns of each row | `claim_batch`, `publish_claim`, `release_claim` | relays race; leases expire while a row is being delivered | one live lease per row, fencing by token |
| Outbox relay, `outbox_relay.py` | the batch in hand, the lists it will report | `run_outbox_relay_once` | crash between delivery and COMMIT; lost COMMIT answers | at-least-once delivery, truthful results |
| Tenant sessions and row-level security, `session.py`, migrations | transaction-local tenant context | `begin_tenant_context` | the statements name no tenant | no row of another tenant is touched |
| Decision-logging policy decision point | the cached head of each tenant during a batch | `decide`, `decideAll`, guard auditor | head read and entry inserted in two transactions, no lock | one chain per tenant; nothing handed out unlogged |
| PostgreSQL decision log | `policy_decision_log` with its unique and foreign keys | `chainHead`, `append` | waits on uncommitted keys, lost answers | as above |
| `UnitOfWork` port | `#inFlight` | `run` | rejections at every await; concurrent and re-entrant calls | one run at a time; the answer matches the scope's end |
| Write envelope, PostgreSQL unit of work and write | clients of a pool, an open transaction | `begin`, INSERTs, `commit`, `rollback` | connection dies under COMMIT; idempotency races | rows all or nothing, one customer per key |
| create-customer pipeline, handler, compositions | none of their own; lazily built pools | `execute`, `handle`, `close` | order of audit and effect; close() under a request | effects are witnessed in the log; answers are true |
| Policy evaluation | none | `candidatesFor`, `evaluate`, `decide`, `decideAll` | a loop with tie-breaks, two candidate shapes | equals the declarative reading: deny prevails |
| Python host bridge, JS runner | body bytes; one process at a time | ASGI call, `main` | subprocess blocks the loop; exit code after COMMIT | an answer other than 502 tells whether it committed |
| Customer data cutover | `activeWriter`, a pool | `insert`, `cutover`, `rollback`, `close` | the switch happens after an await | one writer per call, true answers |
| Customer app core, module API, surface, `customer-surface.mjs` | the projection shown, `pending`, the arguments of the last submit | `submit`, `retry`, `project`, `recordCustomer` | arguments are kept by reference and edited while a submit waits; a retry of what was done | what is shown as saved was recorded; a retry repeats |
| Value types and ports, `identity-primitives.mjs`, `action-primitives.mjs`, `clock.mjs`, `use-case.mjs`, ... | none | constructors, `equals`, `canonicalValue`, `run`/`resolve`/`now`/`evaluate` of the ports | impostors built on a prototype, subclasses, accessors, shared or cyclic data, leap years | only genuine, canonical values pass |
| Action contract and distributions, `materialize-distribution-payload.mjs`, `diagnose.mjs`, reference consumer | a directory of files | materialize, diagnose, import | files are written and read one by one; a writer that dies | healthy means whole |
| Host launch: `secret_file_runner.mjs`, `create_customer_asgi_runner.mjs`, the factories | none | reading mounts, parsing words, option gates, construction | values that look like flags, lost words, a refusal after a pool was built | the process is what its words say |
| Token guard and run records, `token-guard.mjs`, `check-external-consumer-run-record.mjs` | none | `decide`, `economics`, the checker's rules | a registry that cannot be observed, two findings at once, duplicate records | fails closed; a team counts once |
| Observability, performance and migration entry points, the other tools | none at run time | | | not modelled (section 8) |

The components interact by calls and promises inside one JavaScript process, by
rows and locks inside PostgreSQL, and by stdin, stdout and an exit code between
the bridge and the runner. There are no threads in the JavaScript code: every
`await` is a point where another call runs, and only there. The hazards this
gives rise to are listed line by line in `PROJECT.json` ("hazards"), each with
the properties that would catch it, or a note why none of the models reaches it.

## 2. Modules and the code they model

| Module | Models | One action is |
|---|---|---|
| `Outbox` | `outbox.py`, `outbox_relay.py`, `session.py`, table of migration 0001 | one SQL statement, one COMMIT, one call of `deliver` |
| `AtLeastOnce` | what the outbox promises its producers and consumers (abstract) | an entry put in, offered or finished, a batch attempted or reported |
| `DecisionLog` | `decision-logging-policy-decision-point.mjs`, guard auditor of `create-customer-composition.mjs`, `postgres-decision-log-adapter.mjs`, migration 0003 | the code between two awaits |
| `DecisionTrail` | what the decision log promises an auditor (abstract) | an entry put at the end of its tenant's trail |
| `UnitOfWork` | `unit-of-work.mjs` | the code between two awaits |
| `CreateCustomer` | handler, pipeline, commit service, write envelope, PostgreSQL adapters, compositions | a pipeline stage or one statement of the transaction |
| `CreateOnce` | what a client of `customer.create` is promised (abstract) | a request's creation, conflict, refusal or failure |
| `PolicyEvaluation` | resolver, evaluator, decision point, batch evaluator | one phase of `decide`, one iteration of the winner loop |
| `HostBridge` | `metaframer_kernel_host_bridge.py`, `create_customer_asgi_runner.mjs`, ASGI profile, router, HTTP adapter | one event of the bridge, one phase of the process |
| `DataCutover` | `customer-data-cutover.mjs` with persistence and records adapters | the code between two awaits, one statement |
| `CustomerSurface` | `customer-surface.mjs`, `customer-module-api.mjs`, `customer-app-core.mjs` | a call of `submit` or `retry`, the writer's answer, an edit by the caller |
| `Distribution` | `action-contract.mjs`, the renderers, `materialize-distribution-payload.mjs`, `diagnose.mjs`, reference consumer | one file written or read, the writer's death, an act of an operator |
| `CanonicalValues` | `canonicalValue`, `deepFreezeClone` | (definitions) |
| `Instants` | the calendar of `clock.mjs`, `decision-log-entry.mjs`, `commit-receipt.mjs` | (definitions) |
| `KernelValues` | identity, action, error and result primitives; `UseCase`, `Policy`, `Identity`, `Clock`, `DecisionLogPort` | (definitions) |
| `HostLaunch` | `secret_file_runner.mjs`, the runner's start | (definitions) |
| `CompositionFactories` | option gates and construction of the five factories | (definitions) |
| `TokenGuard` | `token-guard.mjs` | (definitions) |
| `RunRecords` | `check-external-consumer-run-record.mjs` | (definitions) |

`MC*` modules give the constants their values; `*Proofs` modules hold the proofs.
Operators whose comment begins with "Mutant", or that stand directly before the
definition they vary, are wrong versions of a definition: a run with the
definition replaced by one of them must violate a property ("mutants").

**Outbox.** A row is a function per column. A relay's `pc` walks through
`run_outbox_relay_once`: `BeginPass` opens the claim transaction and fixes its
`now()`; `ClaimBatch` locks the first `Limit` claimable rows that nobody has
locked (FOR UPDATE SKIP LOCKED) and mints tokens; `CommitClaim` makes the claim
visible; each row is then offered and settled by a transaction of its own, whose
UPDATE is fenced on the token (`Fenced`). `Abort` is an exception or a dead
process at any place, `LoseAnswer` a COMMIT that took effect without an answer.

**DecisionLog.** An entry is named by its hash, and its fields are functions of
it. `Terminal` is the query of `chainHead`. An INSERT waits while another
transaction holds the same place in the chain (`MustWait`), is refused when
a committed row has it (`Refused`) and otherwise goes on to COMMIT. `heads` is
the cache `decideAll` keeps across its loop.

**UnitOfWork.** `run` with its flag; `begin`, the body, `commit` and `rollback`
each resolve or reject. A body that calls `run` again is one more caller.

**CreateCustomer.** One request per `Request`. `Audited` selects the composition.
A client's open transaction is `buf[c]`; a dead connection leaves it to the
server as an `orphan`, whose rows go on blocking equal keys until the server ends
it, by COMMIT too when COMMIT was on its way. `Crash` ends all requests of the
process, `Close` ends the pool.

**PolicyEvaluation.** `resolver` says whether candidates come from
`PolicyCandidateResolver` or from another collaborator whose list is unchecked.
The winner loop keeps `index` and `winner` as the code does; `DecisionIsReference`
compares its result with a declarative definition (`Foremost`).

**HostBridge.** Bodies are lengths. `LoopFree` says that `subprocess.run` holds
the event loop. The process may be killed anywhere, `close()` may reject after
stdout was written.

**DataCutover.** `insert` reads `activeWriter` once; the application branch is a
transaction statement by statement; `cutover` switches after the awaited check.

**CustomerSurface.** A form is an object of the caller: `Edit` changes it at any
time, and the surface holds the form, not what it contained. `sent` and `calls`
record each accepted submit and what the writer was handed in it. The module API
keeps its cutover controller to itself, so `insert` always reaches the legacy
writer, which is external: it may reject what it has carried out.

**Distribution.** `dir` maps a path to what the file contains, a torn file
included. A digest is the value it is computed from. The writer writes its files
in the code's order and may die before or during each; an operator clears the
directory or puts a file of another payload into it; the reader goes through
diagnostics file by file and then imports the module by its path.

**Definitions asked about a subject.** The other seven modules of the consumer's side
have no variables.
The code they model is a function of one input: a heap, a year, a pair of values,
a port with its collaborator's answer, a request to the guard, a list of record
files, a command line, a pair of mounts, an options object. `MCConsumer` picks one
such `subject` in its initial states and asks the module's property about it; the
state space is the set of inputs. The chain of error causes is the one subject
that grows, by `Wrap`. Each property is stated against an independent reading of
the code's promise (`ClonesAreTrees`, `InstantsAreReal`, `EqualsIsEquality`,
`PortHandsOnGenuine`, `LineIsExplicit`, `DelegationIsExact`,
`RefusalLeavesNothing`, `GuardFailsClosed`, `TeamsCountOnce`), not against the
definition itself.

Composition. `CreateCustomer` contains the unit of work (each request has its own
instance, as in the code) and uses the decision log as one step that may fail;
that an append which answered is in the log is `HandedOutIsLogged` of
`DecisionLog` (proved, and part of `KeepsTrail`). `HostBridge` uses `CreateCustomer`'s transaction as one step that
inserts, conflicts or fails; that it does no more is `CreatesOnce`.
`CreateCustomer` is shown to implement `CreateOnce`, `Outbox` to implement
`AtLeastOnce` and `DecisionLog` to implement `DecisionTrail` (INSTANCE with a
refinement mapping, checked by the runs `create_customer`, `outbox_race` and
`decision_chain`, and proved). `AtLeastOnce` knows no relay, lease
or token: an entry that was put in is attempted in batches until it is done, each
offer uses up a counted attempt, it is done only after an offer was accepted, and it
is reported once at most and only then. `AtLeastOnce` states the safety half; that
every entry is done in the end is `EventuallyPublished`. `DecisionTrail` knows no
caller, head or index: a tenant's trail grows at its end only, what it holds never
changes, and a decision is told to a caller only once its entry is in it.

## 3. Runs

| Run | Properties | Bounds, and why they are enough |
|---|---|---|
| `outbox_race` | `LeaseExclusive`, `PublishedWasDelivered`, `OfferedAtMostAttempts`, `ResultTruthful`, `TenantIsolation`, `LiveClaimHeld`, `DeliversAtLeastOnce` | two relays, batches of two rows, a third row of another tenant, a lease of one tick and a clock of two: a claim expires while its holder delivers and the other relay takes the row over; one failure anywhere. The theorems cover the rest |
| `outbox_delivery` | `EventuallyPublished` | two relays, two rows, batches of one, two failures |
| `decision_chain` | `ChainLinear`, `InstantsFollowChain`, `BatchContiguous`, `CallEnds`, `KeepsTrail` | two callers, two tenants, batches of two (same or different tenants), one failure. `MaxHash` = `MaxCalls` * `MaxBatch`, so the bound on entries never stops a call |
| `decision_order` | `ChainInOrderOfDecision` (violated) | two callers, single decisions, no failure |
| `unit_of_work` | `OneRunAtATime`, `ResultMatchesScope`, `FlagComesDown` | three callers, four runs: a run can follow one that was refused while a third is in flight |
| `create_customer` | `AllOrNothing`, `EffectsAreWitnessed`, `ClientsComeBackClean`, `CreatesOnce` | audited composition, three requests, two tenants, one key, two clients, three failures: a request waits for an orphan while another retries |
| `create_answered` | `EveryRequestAnswered` | plain composition, more requests than clients, all for one key |
| `policy_evaluation` | `DecisionIsReference`, `AllowedByStatement`, `DuplicateDecidesNothing` | all lists of up to three of eight statements (ties of priority and layer, equal ids, disabled, conditional and unknown-target statements), five free candidate lists with legacy, mixed and duplicated members; batches of up to two requests |
| `host_bridge` | `AnswerTellsCommit`, `RetryIsSafe`, `EveryRequestAnswered` | a request and its retry with one key, bodies of up to two chunks around a limit of one byte |
| `data_cutover` | `AllOrNothing`, `AnswerTellsRecord`, `RecordedOnce`, `GateKept`, `EveryCallEnds` | three inserts (a record, the same again, another record under its fingerprint) over two clients, one `cutover()`, any number of `rollback()`, `close()` |
| `consumer_side` | `SavedIsRecorded`, `RetryRepeats`, `DataIsCanonical`, `ValuesAreGenuine`, `ToolsFailClosed`, `LaunchIsExplicit`, `HealthyMeansWhole`, `SubmitEnds` | see below |
| `cutover_rollback` | `RollbackHolds` (violated) | two inserts, one `cutover()` |

`consumer_side` is one run over the inputs and machines of section 2:

- surface: two forms, `MaxSubmits` = 3 and `MaxEdits` = 1: a submit, its rejection,
  an edit, a retry and one submit more; seven drafts (five of them refused or
  altered by some check), four wirings;
- distribution: five contract files (two share a coordinate, one has no outcomes,
  two are refused), two versions, `MaxMakes` = 1, `MaxMeddles` = 3: an operator may
  put in all three files of another payload, and a materializer that found the
  directory empty writes over them while they are read (why the second conjunct
  of `HealthyMeansWhole` needs `calm`). The theorem is about any number of both;
- heaps of an object, an array and a container of every kind, with up to two members each, so that
  sharing, cycles and one level too many (`MaxDepth` = 2) all occur; years around
  every century and leap rule;
- all pairs of values, hollow and derived impostors included; every port with
  every answer of its collaborator; error chains up to `MaxCauseDepth`, where the next cause is refused;
- guard requests with two topics at a time in three roles, observed or not; run
  records of every kind alone and in pairs of one or two real teams;
- a full command line with one pair of words replaced, prepended or appended, and
  pairs alone; wrapper lines of up to four words with eight configurations and
  nine secrets; sound options of each factory with up to two edits.

Every type invariant is a theorem (`TypeCorrect`, `SurfaceTypeCorrect`,
`DistributionTypeCorrect`) and needs no run of its own. What the properties say stands before each definition. Bounds
that cap a counter are constants with "bound" in their comment (`MaxNow`,
`MaxFailures`, `MaxCalls`, `MaxHash`, `MaxRuns`, `MaxChunk`, `MaxTotal`,
`MaxSubmits`, `MaxEdits`, `MaxMakes`, `MaxMeddles`); `MaxDepth` and
`MaxCauseDepth` are the code's own limits, the first made small. The runs about
`DecisionLog`, `UnitOfWork`, `CreateCustomer`, `HostBridge`, `DataCutover` and
the consumer's side say CHECK_DEADLOCK FALSE: there are finitely many calls, and
when all have ended the system may stop. `Outbox` and `PolicyEvaluation` are
checked for deadlock.

Relays, requests, clients and tenants are interchangeable in `outbox_race` and
`create_customer` (symmetry); runs that check liveness use none.

## 4. Fairness

- `Outbox!FairSpec`: time passes; a pass that has begun goes on (sequential code);
  `BeginPass` is fair because somebody must go on calling
  `run_outbox_relay_once`. The repository has no loop that does, so the last is
  an assumption on the caller, without which no row need ever be published.
  Failures are finite in number (`MaxFailures`), delivery is otherwise free to
  succeed.
- `DecisionLog!FairSpec`, `UnitOfWork!FairSpec`: a call that has begun goes on:
  every awaited collaborator settles. Nobody is obliged to call.
- `CreateCustomer!FairSpec`: as above, and the server ends the transactions of
  dead connections. `EveryRequestAnswered` makes no promise once `close()` has
  ended the pool: what becomes of a waiting `connect()` is pg.Pool's.
- `HostBridge!LiveSpec`: the loop resumes whoever can go on, the server ends a
  body (http.disconnect at the latest), and every process ends. The last is
  needed: `subprocess.run` has no timeout, and one process that hangs stops the
  whole host.
- `DataCutover!LiveSpec`: promises settle; strong fairness on `Connect` because
  pg.Pool serves its queue in order. `cutover()`, `rollback()` and `close()` are
  nobody's duty.
- `CustomerSurface!SurfaceFairness`: the writer's promise settles. Nobody is
  obliged to submit or to retry.

## 5. Proofs

Eight modules hold proofs, each for any sets of processes, tenants and rows and any
bounds, from the ASSUME of the component's module (types of the constants,
positive limit and lease, distinct null values, records that have their fields, a
module path under `actions/`). Every safety property that a run checks of a state
machine is a theorem, and so are the refinements of `CreateOnce`, `AtLeastOnce` and
`DecisionTrail`.
The arguments share
a shape: an invariant made of named parts, a lemma per action (or per part, where
the parts are many), a lemma for what a step of one actor leaves true of the
others, and `Invariance`, from which each property follows. Every inductive
invariant was checked by TLC on the bounds of section 3 first.

**`OutboxProofs`.** The properties are not inductive: that no two relays hold a
live lease depends on what a relay remembers about rows that have since changed.
`IndInv` adds `PassShape` (what a place in the pass implies for the batch),
`BatchSplit` (a row of a batch is in one place, where its token is known),
`Tokens` (tokens come from the mint, and no two passes know the same one), `Locks`
(a row is locked once, and what was true of it when it was locked still is),
`Deliveries`, `Results`, `Acks`, `Leases` (a relay whose lease still runs is
the row's claimant under that lease) and `Offered`: the offers of a row and the
relays that hold it under a committed claim without having offered it yet are
together no more than its counted attempts. The relays may be infinitely many;
that finitely many hold a row is part of the invariant. One lemma per conjunct has one step per
action; `Invariance` combines them. Theorems: `TypeCorrect`, `TokenSafety`,
`LeaseSafety`, `PublishSafety`, `ResultSafety`, `AckSafety`, `OfferSafety`, `CoherenceSafety`,
`TenantSafety`, the action properties `FinalSafety` and `LiveClaimSafety`, and
`Refinement`: every step of `Outbox` is a step of `AtLeastOnce` or a stutter. A claim
is an attempt on the rows of its batch when it commits, a delivery an offer, the
transaction that publishes finishes its row (or nothing, when the token no longer
fits), and the return of the pass reports its published rows. The invariant supplies
what the abstract guards ask: that a claimed row still waits (`Locks`), that a relay
offers only what a counted attempt entitles it to (`Offered`), that a row to be
published was delivered (`Deliveries`) and that no other pass has reported it (`Acks`).

**`DecisionLogProofs`.** The chain is linear because every committed entry has a
committed predecessor of its tenant and no two have the same one. The invariant
relates callers to the log: `Entries` (an entry in flight belongs to one caller
and has the fields it resolved), `Resolved` (a resolved predecessor is committed),
`Inserted` (an inserted, uncommitted entry has its place in the chain to itself),
`OwnRun` (a cached head is the end of the call's own entries, and the predecessor
it resolves), `OwnContiguous` (what a call has committed for a tenant is one run)
and `Genesis` (a tenant with entries has a first one). Theorems: `TypeCorrect`,
`ChainSafety`, `PrevHashSafety`, `HandedSafety`, `InstantsSafety`,
`ContiguousSafety`, and `Refinement`: a step in which an entry becomes durable, its
answer lost or not, is an `Append` of `DecisionTrail`, and every other step is not seen
there. The end of a trail is the row `chainHead` would select; that a committing entry
follows it (`AppendedAtEnd`) is where `Inserted`, `Resolved` and `Genesis` come
together: the head was read long before, and the place is still free.

**`UnitOfWorkProofs`.** `Scopes` says that two callers never have the same scope
and that a scope not yet begun was never closed: closing one leaves the other's
result alone. Theorems: `TypeCorrect`, `OneRunSafety`, `ScopeSafety`,
`ResultSafety`.

**`PolicyEvaluationProofs`.** `Winning` is the loop invariant: the winner is
selected and outranks every other selected candidate before `index`; `Prepared`
says that the candidates are the checked form of what was answered, `Resolved`
that the resolver's candidates are those of its statements. Theorems:
`TypeCorrect`, `DecisionSafety` (for lists of any length), `LayerSafety`,
`AllowSafety`, `DuplicateSafety`.

**`CreateCustomerProofs`.** A request is followed from its claim to the three rows
of its transaction. `Claims` and `Witnessed` carry tenant, key and logged decision
along the pipeline; `Buffers` says which of the rows the transaction has written
at each place, `Orphans` that a COMMIT on its way when the connection died carries
all of them, `Committed` that whatever is in the database came whole, from a
request that is over and was told 201 or an error. The unique index is `OneStake`:
of two requests with one tenant and key, at most one has its outbox row in the
database, on its way there, or written and about to be committed. An orphan
therefore still excludes its retries. `Fates` says why a request rolls back: its
409 has another request's row behind it. Theorems: `TypeCorrect`, `Atomicity`,
`Witnessing`, `CleanClients`, and `Refinement`: under the mapping of
`CreateCustomer` (a request has created its customer when its customer row is
durable) every step is a step of `CreateOnce` or a stutter. The commit of an
orphan is the abstract creation whose answer was lost.

**`DataCutoverProofs`.** `CallOK` is what is known of one insert: how far its
transaction is (`Transaction`), that what is recorded is recorded whole by a call
that is over and that the legacy writer does not have (`Whole`, `Legacy`), what
its answer stands on (`Answered`) and that it went through the gate if it reached
the database (`Gated`). `OneWriter` speaks of the two unique indexes over
committed and waiting rows at once, because a transaction whose connection died
keeps its rows until the server ends it. Theorems: `TypeCorrect`, `Atomicity`,
`AnswersTrue`, `NoDuplicates`, `GateHolds`, for any number of calls, switches of
the writer and clients.

**`HostBridgeProofs`.** `Place` says what response, stdout, exit code and answer
can be at each place of a request and that a status once computed tells the truth
(`Tells`) about its own transaction and its key; it stays true because no request
takes a fingerprint back (`OneAuthor`). `Bounded` ties the bytes received to the
process that may run. Theorems: `TypeCorrect`, `AnswerSafety`, `RetrySafety`.

**`ConsumerProofs`.** Of the customer surface, `LastShown` ties what is shown, the
flag and the arguments kept to the last submit; `Handed` says that the writer got
what the form contained when its submit began; `Unedited` that without an edit
since the last submit its form still contains that, which is what makes a retry a
repetition. Of the distributions, `Making` and `Alone` describe a materializer
whose directory nobody else touched: each file is written or still to be written.
`Reading` says what diagnostics have accepted; `ModuleStays` that the module read
stays in place while nobody else writes, because a materializer only opens files
that are absent, and `WholeStays` that a complete payload stays complete.
Theorems: `SurfaceTypeCorrect`, `SavedSafety`, `RetrySafety`,
`DistributionTypeCorrect`, `HealthySafety`.

The same module proves what the two checking tools promise, as facts about their
operators, with no state. Of the token guard, a lemma per evaluator (`Holds`) says
that an unobservable registry adds no denial and takes no stop away; `UnionFacts`
carries this to the union of the findings and `DecideFacts` to the decision. The
promotion gate is the one evaluator that keeps it only for promoting actions, hence
the condition in `GuardFailsClosed`. Theorems: `GuardClosed` and `ReaderClosed`, for
any request and any registries, and `GovernorStaysOff`, for natural counts, integer
amounts, a ledger that may lack its count of invocations, and a value for "absent"
that is no number. Of the run records, `DeriveIs` gives the derivation as two
cardinalities, and a bijection between the places of a list and of its reverse shows
that the order of the files is immaterial. Theorem: `TeamsOnce`, for any list of
files whose readable records carry a list of help events.

Three more parts of the definitions are proved for every input. The calendar:
`InstantsReal`, for every year, that a day is accepted exactly when the count of days
of the proleptic Gregorian calendar gives it back. The count is split into an era of
four centuries, a year in it and a day of a year from March (`YearSplit`, `DaySplit`),
`OrdinaryDay` and `LeapDay` find the year of a day again, and the months follow from
the five-month pattern. The values and ports: `EqualsSound`, for any two values whose
genuine Principals hold what their constructor accepts; `PortsAreGenuine`, for any
argument and any answer of the collaborator; `ChainsAreBounded`, the step that makes
every chain of causes as long as its head's depth says and no longer than
`MaxCauseDepth` (that a chain built by steps keeps this is an induction over data, and
checked by `ValuesAreGenuine`). The factories: `RefusalsAreClean`, for any options
object of finitely many members. A factory stops at its gate or goes through
(`GateStops`), what an outer factory hands on passes the inner gate
(`RebuiltPasses`), and the log adapter, the one part that opens a pool at once, is
constructed after everything that can still refuse.

Only model-checked:

- all liveness (`EventuallyPublished`, `CallEnds`, `FlagComesDown`,
  `EveryRequestAnswered`, `EveryCallEnds`, `SubmitEnds`), which is beyond this prover;
- the clones of `CanonicalValues` (half of `DataIsCanonical`), the words of
  `HostLaunch` (most of `LaunchIsExplicit`) and the length of chains of causes (in
  `ValuesAreGenuine`): they walk graphs, words and causes with RECURSIVE operators,
  which no installed prover can unfold, so what they compute is checked over the
  bounded inputs only;
- `DataIsCanonical`, `ValuesAreGenuine`, `ToolsFailClosed` and `LaunchIsExplicit` as
  properties of `MCConsumer`, which reaches those operators. What else they say of each
  subject is proved: `InstantsReal`; `EqualsSound`, `PortsAreGenuine` and
  `ChainsAreBounded`; `GuardClosed`, `ReaderClosed`, `GovernorStaysOff` and
  `TeamsOnce`; `RefusalsAreClean`; for the subjects those theorems admit;
- the two violations, which TLC refutes.

`TokenIdentifiesClaim`, `ClaimCoherent`, `PublishedIsFinal`, `AckedAtMostOnce`,
`HandedOutIsLogged`, `PrevHashIsCommitted`, `ScopeClosedOnce` and `LayerIsWinners` are proved and need
no run of their own.

## 6. Findings

- `decision_order`: the comment at `create-customer-composition.mjs:158-160` says
  a guard refusal and a policy decision share one chain "in the order they
  happened". Decisions are taken before the head is read, so concurrent ones may
  be chained in the opposite order. The chain itself stays linear and its instants
  ascend (`ChainLinear`, `InstantsFollowChain`).
- `cutover_rollback`: the test at `kernel-customer-data-cutover-p13.test.mjs:185`
  says `rollback()` routes future inserts back to legacy. A `rollback()` made
  while `cutover()` awaits `verifyCompatibility` is overwritten when the check
  resolves.

Smaller disagreements met while modelling, which no run is about:

- `docs/external-consumer-intake.md:114` asks for at least one outcome, and the
  comment at `materialize-distribution-payload.mjs:62` says that constructing the
  contract enforces every rule of that document. `ActionContract` accepts an empty
  list, and the payload made of it is refused by the diagnostics that travel with
  it. `HealthyMeansWhole` states this exception.
- `create_customer_host_cli.py:12-14` says that nothing after `--` fails closed.
  `--runner uvicorn node x --` is accepted. `--max-body-bytes -1` passes the
  command line too, and is refused by `create_customer_app`.

## 7. Assumptions and abstractions

- `idGenerator` returns unique ids and SHA-256 has no collisions: entries are
  named by their hashes. The clock never goes back; without this
  `InstantsFollowChain` is not claimed.
- PostgreSQL is READ COMMITTED: a statement sees committed rows and its own;
  unique indexes make an INSERT wait for an uncommitted equal key. `now()` is the
  start of the transaction.
- `DecisionLog` ends the transaction of a dead connection at once.
  `CreateCustomer` and `DataCutover` model the delayed end.
- Policy ids are numbers in the order of the strings. Priorities are integers.
- pg.Pool is external: FIFO, a client is handed out to one holder, connects that
  wait when the pool is ended stay waiting. `close()` before the first use does
  nothing, and a later request opens a pool.
- The delivery callback, `legacyInsert` and `verifyCompatibility` are external:
  they may do all their types allow; `legacyInsert` has a store of its own and may
  keep a record it rejected.
- Rows of one claim are processed in any order: UPDATE ... RETURNING promises none.
- The runner gets its body as one message, so the ASGI profile's loop over
  several messages has one iteration in `HostBridge`.
- `DataCutover` is about one tenant; the records it inserts are their ids.
- `Distribution`: SHA-256 is injective, a digest is what it was computed from. The
  operator's acts are external. A run of the reference consumer keeps nothing, so
  one reader at a time is all there is to see.
- `CanonicalValues`: the two rules differ in what they ask of an array.
  `canonicalValue` wants the prototype of an ordinary one; `deepFreezeClone` takes
  whatever `Array.isArray` does ("derived") and fails only where there is no `map`
  ("mapless"). An array whose own `map` does something else is left out.
- `KernelValues`: raw strings are the outcomes of the tests made on them (form,
  length, trimming, control characters). Two gates go by prototype alone, and the
  model with them: `Command` and `Principal` accept hollow parts, and the input
  gate of `UseCase` asks for the prototype and a readable name and version, while
  its output gate and `Policy` prove the brand. `equals` throws on a hollow
  value. `PortHandsOnGenuine` claims what the code achieves, no more.
- `TokenGuard`: a gate report given with an action that promotes nothing is not
  looked at, the one exception in `GuardFailsClosed`. A ledger without a usable
  count stays off.
- `HostLaunch`: a word is its text and the newlines at its end.
- `CompositionFactories`: a member of an options object is how it is declared and
  the type it reads as. The plain
  factories read members as properties, so an accessor runs; the audited and the
  log factories refuse accessors. The gate of `policyDecisionLogComposition` lets
  a statements array through that its resolver refuses; no pool exists then.

## 8. What is not modelled

- The HMAC attestation of `mfk_begin_tenant_context` and database roles: what they
  guarantee, that a transaction acts for its tenant, is assumed by `Visible` in
  `Outbox` and by the tenant context in `CreateCustomer`.
- What a body says: `HostBridge` takes a body that a disconnected client cut short
  for a whole one, so no property of it is about such bodies. None can commit: the
  parser refuses every part of an object's text but the whole, and the write throws
  for the customer without a name that an empty body makes.
- `verifyPersistedDecisionLogRow` re-checks the row just written (RETURNING); the
  model's rows are what was written.
- Canonicalisation and equality of policy statements, requests and decisions:
  they follow the pattern of `KernelValues` and `CanonicalValues`, which model it
  once. `CommitReceipt` beyond its instant is the payload of an answer.
- The Python command line and the choice of a server: declarations of argparse and
  one call.
- Observability, performance and migration entry points: read-only summaries and
  Alembic's own entry.
- The other checkers under `tools/`: they compare the repository's own files and
  documents with literal expectations, without state, order or any input but
  the working tree. SDK and documentation under `docs/`, `sdk/`: generated.

## 9. Plan

Done, in the order of importance: `Outbox` with `AtLeastOnce`, `DecisionLog` with `DecisionTrail`,
`UnitOfWork`, `CreateCustomer` with `CreateOnce`, `PolicyEvaluation`, `HostBridge`,
`DataCutover`; the consumer's side: `CustomerSurface`, `CanonicalValues`, `Instants`,
`KernelValues`, `Distribution`, `HostLaunch`, `CompositionFactories`, `TokenGuard`,
`RunRecords`; and the proofs of every state machine's safety, with the three refinements,
and of what `Instants`, `KernelValues`, `CompositionFactories`, `TokenGuard` and
`RunRecords` promise.

What would come next: ASGI ingress with several receive messages, and the tenant
context with its attestation as a token that only one transaction can use.
