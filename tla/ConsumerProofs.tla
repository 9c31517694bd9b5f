--------------------------- MODULE ConsumerProofs ---------------------------
(***************************************************************************)
(* Machine-checked safety of what the kernel hands to its consumers: the   *)
(* customer surface, for any forms, drafts and wirings and any number of   *)
(* submits and edits; the distributions of the action contract, for any    *)
(* contract files, versions and number of runs and of acts of the          *)
(* operator; the token guard, for any request and registries; the run      *)
(* record checker, for any list of files; instants, for any year; the      *)
(* value classes and ports, for any values and answers; and the            *)
(* composition factories, for any options.                                 *)
(***************************************************************************)
EXTENDS CustomerSurface, Distribution, TokenGuard, RunRecords, Instants, KernelValues,
        CompositionFactories, FiniteSetTheorems, TLAPS

-----------------------------------------------------------------------------
(* The customer surface.                                                   *)

\* What is shown and what can be retried is about the last submit; only the last
\* one can be in flight, and it is exactly when the surface says so.
LastShown ==
    /\ pending <=> \E i \in DOMAIN sent : sent[i].outcome = "pending"
    /\ \A i \in DOMAIN sent : sent[i].outcome = "pending" => i = Len(sent)
    /\ projection.state \in {"saved", "rejected"} =>
         /\ sent # <<>> /\ sent[Len(sent)].outcome = projection.state
         /\ lastArgs = sent[Len(sent)].form
    /\ projection.state = "saved" =>
         /\ Len(sent) \in kept
         /\ calls[Len(sent)].called
         /\ projection.record = calls[Len(sent)].record

\* The writer is handed what the form contained when the submit began.
Handed == \A i \in DOMAIN sent : calls[i] = CallFor(sent[i].draft)

\* Forms change by edits only: without one since the last submit, its form still
\* contains what was handed over.
Unedited ==
    /\ \A i \in DOMAIN sent : sent[i].edits <= edits
    /\ sent # <<>> /\ sent[Len(sent)].edits = edits =>
         form[sent[Len(sent)].form] = sent[Len(sent)].draft

SurfaceInv == SurfaceTypeOK /\ LastShown /\ Handed /\ Unedited /\ RetryRepeats

\* The handed value is one of those the type of calls allows.
LEMMA CallForType == \A d \in Drafts : CallFor(d) \in Call
  BY DEF Call

\* What the runs that have begun are made of.
LEMMA RunFacts ==
    ASSUME SurfaceTypeOK
    PROVE  /\ Len(sent) \in Nat /\ DOMAIN sent = 1 .. Len(sent) /\ DOMAIN calls = 1 .. Len(sent)
           /\ sent # <<>> <=> Len(sent) \in 1 .. Len(sent)
           /\ \A i \in 1 .. Len(sent) :
                /\ sent[i] \in Run
                /\ sent[i].form \in Forms /\ sent[i].draft \in Drafts /\ sent[i].edits \in Nat
<1>1. /\ Len(sent) \in Nat /\ DOMAIN sent = 1 .. Len(sent) /\ DOMAIN calls = 1 .. Len(sent)
      /\ sent # <<>> <=> Len(sent) \in 1 .. Len(sent)
      /\ \A i \in 1 .. Len(sent) : sent[i] \in Run
  BY DEF SurfaceTypeOK
<1> QED
  BY <1>1 DEF Run

\* What is appended is last, and the rest stays.
LEMMA AppendFacts ==
    ASSUME NEW S, NEW s \in Seq(S), NEW e \in S
    PROVE  /\ Append(s, e) \in Seq(S) /\ Len(Append(s, e)) = Len(s) + 1
           /\ Append(s, e) # <<>> /\ Len(s) \in Nat
           /\ DOMAIN s = 1 .. Len(s) /\ DOMAIN Append(s, e) = 1 .. Len(s) + 1
           /\ \A i \in DOMAIN s : Append(s, e)[i] = s[i]
           /\ Append(s, e)[Len(s) + 1] = e
           /\ s # <<>> => Len(s) \in DOMAIN s
  OBVIOUS

\* Nothing has been submitted yet.
LEMMA SurfaceInitHolds == SurfaceInit => SurfaceInv
<1> SUFFICES ASSUME SurfaceInit PROVE SurfaceInv
  OBVIOUS
<1> USE DEF SurfaceInit
<1>1. <<>> \in Seq(Run) /\ <<>> \in Seq(Call) /\ DOMAIN <<>> = {}
  OBVIOUS
<1>2. SurfaceTypeOK
  BY <1>1 DEF SurfaceTypeOK
<1>3. LastShown /\ Handed /\ Unedited /\ RetryRepeats
  BY <1>1 DEF LastShown, Handed, Unedited, RetryRepeats
<1> QED
  BY <1>2, <1>3 DEF SurfaceInv

\* A submit, or a retry of the form that was rejected last, begins.
LEMMA RunSubmitKeeps ==
    ASSUME SurfaceInv, NEW f \in Forms, NEW again \in BOOLEAN, ~pending, RunSubmit(f, again),
           again => projection.state = "rejected" /\ f = lastArgs
    PROVE  SurfaceInv'
<1> DEFINE run == [form |-> f, draft |-> form[f], retry |-> again,
                   edits |-> edits, outcome |-> "pending"]
           n == Len(sent)
<1>1. run \in Run
  BY DEF SurfaceInv, SurfaceTypeOK, Run
<1>2. /\ sent' = Append(sent, run) /\ calls' = Append(calls, CallFor(form[f]))
      /\ pending' = TRUE /\ projection' = [state |-> "submitting"]
      /\ UNCHANGED <<wired, form, lastArgs, kept, edits>>
  BY DEF RunSubmit
<1>3. /\ sent' \in Seq(Run) /\ n \in Nat /\ Len(sent') = n + 1 /\ sent' # <<>>
      /\ DOMAIN sent = 1 .. n /\ DOMAIN sent' = 1 .. n + 1
      /\ \A i \in 1 .. n : sent'[i] = sent[i]
      /\ sent'[n + 1] = run
      /\ sent # <<>> => n \in 1 .. n
  <2> HIDE DEF run
  <2> QED
    BY <1>1, <1>2, AppendFacts DEF SurfaceInv, SurfaceTypeOK
<1>4. /\ calls' \in Seq(Call) /\ Len(calls') = n + 1
      /\ \A i \in 1 .. n : calls'[i] = calls[i]
      /\ calls'[n + 1] = CallFor(form[f])
  <2>1. CallFor(form[f]) \in Call
    BY CallForType DEF SurfaceInv, SurfaceTypeOK
  <2> QED
    BY <1>2, <2>1, AppendFacts DEF SurfaceInv, SurfaceTypeOK
<1>5. SurfaceTypeOK'
  BY <1>2, <1>3, <1>4 DEF SurfaceInv, SurfaceTypeOK
<1>6. LastShown'
  BY <1>2, <1>3 DEF SurfaceInv, LastShown
<1>7. Handed'
  BY <1>3, <1>4 DEF SurfaceInv, Handed
<1>8. Unedited'
  BY <1>2, <1>3 DEF SurfaceInv, SurfaceTypeOK, Unedited
<1>9. RetryRepeats'
  <2> SUFFICES ASSUME NEW i \in 1 .. n + 1, sent'[i].retry
               PROVE  /\ i > 1 /\ sent'[i - 1].outcome = "rejected"
                      /\ sent'[i].form = sent'[i - 1].form
                      /\ sent'[i].edits = sent'[i - 1].edits => calls'[i] = calls'[i - 1]
    BY <1>3 DEF RetryRepeats
  <2>1. CASE i \in 1 .. n
    <3>1. /\ i > 1 /\ sent[i - 1].outcome = "rejected" /\ sent[i].form = sent[i - 1].form
          /\ sent[i].edits = sent[i - 1].edits => calls[i] = calls[i - 1]
      BY <2>1, <1>3 DEF SurfaceInv, RetryRepeats
    <3>2. i - 1 \in 1 .. n
      BY <2>1, <3>1, <1>3
    <3> QED
      BY <2>1, <3>1, <3>2, <1>3, <1>4
  <2>2. CASE i = n + 1
    <3>1. projection.state = "rejected" /\ f = lastArgs
      BY <2>2, <1>3
    <3>2. n \in 1 .. n /\ sent[n].outcome = "rejected" /\ sent[n].form = f
      BY <3>1, <1>3 DEF SurfaceInv, LastShown
    <3>3. ASSUME sent[n].edits = edits PROVE calls[n] = CallFor(form[f])
      BY <3>2, <3>3, <1>3 DEF SurfaceInv, Unedited, Handed
    <3> QED
      BY <2>2, <3>2, <3>3, <1>3, <1>4
  <2> QED
    BY <2>1, <2>2, <1>3
<1> QED
  BY <1>5, <1>6, <1>7, <1>8, <1>9 DEF SurfaceInv

\* The submit in flight settles: it is the last one.
LEMMA SettleKeeps ==
    ASSUME SurfaceInv, NEW i \in DOMAIN sent, Settle(i) PROVE SurfaceInv'
<1> DEFINE n == Len(sent)
<1>1. /\ sent \in Seq(Run) /\ n \in Nat /\ DOMAIN sent = 1 .. n /\ sent[i] \in Run
      /\ sent # <<>>
  BY RunFacts DEF SurfaceInv, SurfaceTypeOK
<1>2. sent[i].outcome = "pending" /\ i = n
  BY DEF Settle, SettleSaved, SettleRejected, WriterResolves, WriterRejects, SurfaceInv, LastShown
<1>3. PICK o \in {"saved", "rejected"} :
        /\ sent' = [sent EXCEPT ![n].outcome = o]
        /\ projection'.state = o
        /\ o = "saved" => calls[n].called /\ n \in kept' /\ projection'.record = calls[n].record
  BY <1>2 DEF Settle, SettleSaved, SettleRejected, WriterResolves, WriterRejects
<1>4. /\ pending' = FALSE /\ lastArgs' = sent[n].form /\ UNCHANGED <<wired, form, calls, edits>>
      /\ kept' \subseteq kept \cup {n}
  BY <1>2 DEF Settle, SettleSaved, SettleRejected, WriterResolves, WriterRejects
<1>5. /\ sent' \in Seq(Run) /\ Len(sent') = n /\ DOMAIN sent' = 1 .. n /\ sent' # <<>>
      /\ \A j \in 1 .. n : j # n => sent'[j] = sent[j]
      /\ sent'[n].form = sent[n].form /\ sent'[n].draft = sent[n].draft
      /\ sent'[n].retry = sent[n].retry /\ sent'[n].edits = sent[n].edits
      /\ sent'[n].outcome = o
  <2>1. [sent[n] EXCEPT !.outcome = o] \in Run
    BY <1>1, <1>2 DEF Run
  <2>2. sent' = [sent EXCEPT ![n] = [sent[n] EXCEPT !.outcome = o]]
    BY <1>3
  <2>3. sent' \in Seq(Run) /\ Len(sent') = n /\ DOMAIN sent' = 1 .. n
    BY <1>1, <1>2, <2>1, <2>2
  <2> QED
    BY <1>1, <1>2, <2>2, <2>3 DEF Run
<1>6. SurfaceTypeOK'
  BY <1>1, <1>2, <1>3, <1>4, <1>5 DEF SurfaceInv, SurfaceTypeOK, Run
<1>7. LastShown'
  BY <1>1, <1>2, <1>3, <1>4, <1>5 DEF SurfaceInv, LastShown
<1>8. Handed'
  BY <1>1, <1>4, <1>5 DEF SurfaceInv, Handed
<1>9. Unedited'
  BY <1>1, <1>2, <1>4, <1>5 DEF SurfaceInv, Unedited
<1>10. RetryRepeats'
  <2> SUFFICES ASSUME NEW j \in 1 .. n, sent'[j].retry
               PROVE  /\ j > 1 /\ sent'[j - 1].outcome = "rejected"
                      /\ sent'[j].form = sent'[j - 1].form
                      /\ sent'[j].edits = sent'[j - 1].edits => calls'[j] = calls'[j - 1]
    BY <1>5 DEF RetryRepeats
  <2>1. sent[j].retry /\ sent'[j].form = sent[j].form /\ sent'[j].edits = sent[j].edits
    BY <1>5
  <2>2. /\ j > 1 /\ sent[j - 1].outcome = "rejected" /\ sent[j].form = sent[j - 1].form
        /\ sent[j].edits = sent[j - 1].edits => calls[j] = calls[j - 1]
    BY <2>1, <1>1 DEF SurfaceInv, RetryRepeats
  <2>3. sent'[j - 1].outcome = "rejected" /\ sent'[j - 1].form = sent[j - 1].form
        /\ sent'[j - 1].edits = sent[j - 1].edits
    <3>1. j - 1 \in 1 .. n /\ j - 1 # n
      BY <2>2, <1>1
    <3> QED
      BY <2>2, <3>1, <1>5
  <2> QED
    BY <2>1, <2>2, <2>3, <1>4
<1> QED
  BY <1>6, <1>7, <1>8, <1>9, <1>10 DEF SurfaceInv

\* The caller edits a form: no run is younger than the edit.
LEMMA EditKeeps ==
    ASSUME SurfaceInv, NEW f \in Forms, NEW d \in Drafts, Edit(f, d) PROVE SurfaceInv'
<1>1. /\ form' = [form EXCEPT ![f] = d] /\ edits' = edits + 1
      /\ UNCHANGED <<wired, projection, pending, lastArgs, sent, calls, kept>>
  BY DEF Edit
<1>2. SurfaceTypeOK'
  BY <1>1 DEF SurfaceInv, SurfaceTypeOK
<1>3. LastShown' /\ Handed' /\ RetryRepeats'
  BY <1>1 DEF SurfaceInv, LastShown, Handed, RetryRepeats
<1>4. Unedited'
  <2>1. \A i \in DOMAIN sent : sent[i].edits \in Nat /\ sent[i].edits <= edits
    BY RunFacts DEF SurfaceInv, Unedited
  <2>2. edits \in Nat /\ (sent # <<>> => Len(sent) \in DOMAIN sent)
    BY RunFacts DEF SurfaceInv, SurfaceTypeOK
  <2> QED
    BY <1>1, <2>1, <2>2 DEF Unedited
<1> QED
  BY <1>2, <1>3, <1>4 DEF SurfaceInv

\* Each step of the surface keeps its invariant.
LEMMA SurfaceStepKeeps == ASSUME SurfaceInv, [SurfaceNext]_surface PROVE SurfaceInv'
<1>1. ASSUME NEW w \in Wirings, CreateSurface(w) PROVE SurfaceInv'
  BY <1>1 DEF CreateSurface, SurfaceInv, SurfaceTypeOK, LastShown, Handed, Unedited, RetryRepeats
<1>2. ASSUME NEW f \in Forms, Submit(f) PROVE SurfaceInv'
  BY <1>2, RunSubmitKeeps DEF Submit
<1>3. CASE Retry
  <2>1. lastArgs \in Forms
    BY <1>3 DEF Retry, SurfaceInv, SurfaceTypeOK
  <2> QED
    BY <1>3, <2>1, RunSubmitKeeps DEF Retry
<1>4. ASSUME NEW i \in DOMAIN sent, Settle(i) PROVE SurfaceInv'
  BY <1>4, SettleKeeps
<1>5. ASSUME NEW f \in Forms, NEW d \in Drafts, Edit(f, d) PROVE SurfaceInv'
  BY <1>5, EditKeeps
<1>6. CASE UNCHANGED surface
  BY <1>6 DEF surface, SurfaceInv, SurfaceTypeOK, LastShown, Handed, Unedited, RetryRepeats
<1> QED
  BY <1>1, <1>2, <1>3, <1>4, <1>5, <1>6 DEF SurfaceNext

\* The inductive invariant of the surface holds in every reachable state.
THEOREM SurfaceInvariance == SurfaceSpec => []SurfaceInv
<1>1. SurfaceInv /\ [SurfaceNext]_surface => SurfaceInv'
  BY SurfaceStepKeeps
<1> QED
  BY SurfaceInitHolds, <1>1, PTL DEF SurfaceSpec

\* The parts of the surface keep their types (createCustomerSurface).
THEOREM SurfaceTypeCorrect == SurfaceSpec => []SurfaceTypeOK
<1>1. SurfaceInv => SurfaceTypeOK
  BY DEF SurfaceInv
<1> QED
  BY <1>1, SurfaceInvariance, PTL

\* What the surface shows as saved (runSubmit) is what this submit handed to the
\* writer and the writer holds, whatever the caller did to its form meanwhile.
THEOREM SavedSafety == SurfaceSpec => []SavedIsRecorded
<1>1. SurfaceInv => SavedIsRecorded
  <2> SUFFICES ASSUME SurfaceInv, projection.state = "saved"
               PROVE  LET i == Len(sent) IN
                      /\ i \in kept /\ projection.record = calls[i].record
                      /\ projection.record = Canonical(sent[i].draft.record)
                      /\ projection.record.tenant = calls[i].tenant
    BY DEF SavedIsRecorded, SurfaceInv, LastShown
  <2> DEFINE i == Len(sent)
             d == sent[i].draft
  <2>1. i \in kept /\ calls[i].called /\ projection.record = calls[i].record
    BY DEF SurfaceInv, LastShown
  <2>2. i \in DOMAIN sent /\ d \in Drafts /\ calls[i] = CallFor(d)
    BY <2>1, RunFacts DEF SurfaceInv, LastShown, Handed
  <2>3. /\ Accepted(d) /\ calls[i].record = Canonical(d.record) /\ calls[i].tenant = d.tenant
    BY <2>1, <2>2 DEF CallFor, NoCall
  <2>4. Canonical(d.record).tenant = d.record.tenant
    BY <2>2, DraftsAssumption DEF Canonical, DraftsAssumption
  <2> QED
    BY <2>1, <2>3, <2>4 DEF Accepted
<1> QED
  BY <1>1, SurfaceInvariance, PTL

\* retry() hands the writer what the rejected submit did, unless the caller has
\* edited the form since.
THEOREM RetrySafety == SurfaceSpec => []RetryRepeats
<1>1. SurfaceInv => RetryRepeats
  BY DEF SurfaceInv
<1> QED
  BY <1>1, SurfaceInvariance, PTL

-----------------------------------------------------------------------------
(* The distributions.                                                      *)

\* Files still to be written have different paths.
Making ==
    maker.at # "idle" =>
        /\ maker.since <= meddles
        /\ \A i, j \in DOMAIN maker.files : maker.files[i].path = maker.files[j].path => i = j
        /\ maker.at = "materialized" => maker.files = <<>>

\* Unless the operator interfered, each file is written or still to be written, and
\* the latter are not there; only the one that is open is, without its text.
Alone ==
    maker.at # "idle" /\ maker.since = meddles =>
        /\ \A i \in 1 .. 3 : LET f == Files(maker.offer, maker.version)[i] IN
             dir[f.path] = f.text \/ \E j \in DOMAIN maker.files : maker.files[j] = f
        /\ \A j \in DOMAIN maker.files :
             dir[maker.files[j].path] = IF j = 1 /\ maker.open THEN Torn ELSE Absent

\* What diagnostics have accepted so far.
Reading ==
    /\ reader.since <= meddles
    /\ reader.at \in {"module", "runner"} =>
         \E o \in SoundOffers : reader.manifest = Manifest(o, reader.expected)
    /\ reader.at \in {"healthy", "ok"} =>
         \E o \in SoundOffers :
            /\ o.outcomes.names # <<>>
            /\ reader.manifest = Manifest(o, reader.expected)
            /\ reader.module = RenderActionSdk(o)

\* While nobody else touches the directory, the module that was read stays as it is ...
ModuleStays ==
    reader.at # "idle" /\ reader.since = meddles /\ reader.calm =>
        /\ Calm
        /\ reader.at \in {"runner", "healthy"} =>
             /\ reader.module # Absent
             /\ reader.module # Torn => dir[reader.manifest.modulePath] = reader.module
        /\ reader.at = "ok" => reader.used = reader.module

\* ... and so does a payload that was complete.
WholeStays ==
    reader.at # "idle" /\ reader.since = meddles /\ reader.whole =>
        /\ Whole(reader.expected)
        /\ reader.at \in {"module", "runner", "healthy", "ok"} =>
             reader.manifest = Manifest(maker.offer, maker.version)
        /\ reader.at \in {"runner", "healthy", "ok"} =>
             reader.module = RenderActionSdk(maker.offer)
        /\ reader.at = "failed" => maker.offer.outcomes.names = <<>>

DistributionInv == DistributionTypeOK /\ Making /\ Alone /\ Reading /\ ModuleStays /\ WholeStays

\* The parts of what is written into a directory.
LEMMA TextFacts ==
    /\ Absent.is = "absent" /\ Torn.is = "torn" /\ Runner.is = "runner"
    /\ \A o \in SoundOffers :
         /\ RenderActionSdk(o).is = "module" /\ RenderActionSdk(o).kind = o.kind
         /\ RenderActionSdk(o).coordinate = o.coordinate.text
         /\ RenderActionSdk(o).fields = o.fields.names
         /\ RenderActionSdk(o).errorEnvelopeFields = o.errorEnvelopeFields.names
         /\ RenderActionSdk(o).outcomes = o.outcomes.names
  BY DEF Absent, Torn, Runner, RenderActionSdk

\* The fields of a manifest, and the digests it carries.
LEMMA ManifestFacts ==
    ASSUME NEW o \in SoundOffers, NEW v
    PROVE  LET c == o.coordinate.text
               m == Manifest(o, v)
               integrity == Integrity(v, o.kind, c, c, RenderActionSdk(o))
           IN  /\ m.is = "manifest" /\ m.distributionVersion = v
               /\ m.kind = o.kind /\ m.coordinate = c /\ m.modulePath = c
               /\ m.integrity = integrity /\ m.diagnosticsPath = "diagnose.mjs"
               /\ m.diagnostics = DiagnosticsDigest(v, c, integrity, "diagnose.mjs", Runner)
  BY DEF Manifest

\* Every text is told by what it is.
LEMMA TextKinds ==
    /\ Absent \in Texts /\ Torn \in Texts /\ Runner \in Texts
    /\ \A o \in SoundOffers : RenderActionSdk(o) \in Texts
    /\ \A o \in SoundOffers, v \in Versions : Manifest(o, v) \in Texts
    /\ \A t \in Texts : t.is = "manifest" =>
         \E o \in SoundOffers, v \in Versions : t = Manifest(o, v)
<1>1. \A o \in SoundOffers, v \in Versions : Manifest(o, v).is = "manifest"
  BY ManifestFacts
<1> QED
  BY <1>1, TextFacts DEF Texts

\* The three files of a payload.
LEMMA FileFacts ==
    ASSUME NEW o \in SoundOffers, NEW v \in Versions
    PROVE  /\ Files(o, v) \in Seq(FilesToWrite) /\ DOMAIN Files(o, v) = 1 .. 3
           /\ Files(o, v) # <<>>
           /\ \A i, j \in 1 .. 3 : Files(o, v)[i].path = Files(o, v)[j].path => i = j
           /\ \A i \in 1 .. 3 : Files(o, v)[i].text \in Texts \ {Absent, Torn}
           /\ \A i \in 1 .. 3 : Files(o, v)[i].path \in Paths
           /\ Files(o, v)[1].path = o.coordinate.text
           /\ Files(o, v)[1].text = RenderActionSdk(o)
           /\ Files(o, v)[2].path = "diagnose.mjs" /\ Files(o, v)[2].text = Runner
           /\ Files(o, v)[3].path = "manifest.json" /\ Files(o, v)[3].text = Manifest(o, v)
<1> DEFINE c == o.coordinate.text
<1>1. /\ c \in Paths /\ "diagnose.mjs" \in Paths /\ "manifest.json" \in Paths
      /\ c # "diagnose.mjs" /\ c # "manifest.json"
  BY OffersAssumption DEF OffersAssumption, Paths, SoundOffers
<1>2. /\ {RenderActionSdk(o), Runner, Manifest(o, v)} \subseteq Texts
      /\ {RenderActionSdk(o), Runner, Manifest(o, v)} \cap {Absent, Torn} = {}
  BY TextFacts, TextKinds, ManifestFacts
<1>3. Files(o, v) = <<[path |-> c, text |-> RenderActionSdk(o)],
                      [path |-> "diagnose.mjs", text |-> Runner],
                      [path |-> "manifest.json", text |-> Manifest(o, v)]>>
  BY DEF Files
<1>4. /\ [path |-> c, text |-> RenderActionSdk(o)] \in FilesToWrite
      /\ [path |-> "diagnose.mjs", text |-> Runner] \in FilesToWrite
      /\ [path |-> "manifest.json", text |-> Manifest(o, v)] \in FilesToWrite
  BY <1>1, <1>2 DEF FilesToWrite
<1>5. Files(o, v) \in Seq(FilesToWrite) /\ DOMAIN Files(o, v) = 1 .. 3 /\ Files(o, v) # <<>>
  BY <1>3, <1>4
<1>6. /\ Files(o, v)[1] = [path |-> c, text |-> RenderActionSdk(o)]
      /\ Files(o, v)[2] = [path |-> "diagnose.mjs", text |-> Runner]
      /\ Files(o, v)[3] = [path |-> "manifest.json", text |-> Manifest(o, v)]
  BY <1>3
<1>7. \A i \in 1 .. 3 : i = 1 \/ i = 2 \/ i = 3
  OBVIOUS
<1>8. \A i, j \in 1 .. 3 : Files(o, v)[i].path = Files(o, v)[j].path => i = j
  BY <1>1, <1>6, <1>7
<1>9. \A i \in 1 .. 3 : Files(o, v)[i].text \in Texts \ {Absent, Torn}
  <2>1. /\ Files(o, v)[1].text = RenderActionSdk(o) /\ Files(o, v)[2].text = Runner
        /\ Files(o, v)[3].text = Manifest(o, v)
    BY <1>6
  <2> QED
    BY <2>1, <1>2, <1>7
<1>10. \A i \in 1 .. 3 : Files(o, v)[i].path \in Paths
  <2>1. /\ Files(o, v)[1].path = c /\ Files(o, v)[2].path = "diagnose.mjs"
        /\ Files(o, v)[3].path = "manifest.json"
    BY <1>6
  <2> QED
    BY <2>1, <1>1, <1>7
<1> QED
  BY <1>5, <1>6, <1>8, <1>9, <1>10

\* Each of the files a materializer writes is a path and a text.
LEMMA FileType == \A f \in FilesToWrite : f.path \in Paths /\ f.text \in Texts
  BY DEF FilesToWrite

\* What is left to write after one file.
LEMMA TailFacts ==
    ASSUME NEW S, NEW s \in Seq(S), s # <<>>
    PROVE  /\ Head(s) = s[1] /\ s[1] \in S /\ 1 \in DOMAIN s
           /\ Tail(s) \in Seq(S) /\ \A i \in DOMAIN s : s[i] \in S
           /\ \A i \in DOMAIN Tail(s) : i + 1 \in DOMAIN s /\ i + 1 # 1 /\ Tail(s)[i] = s[i + 1]
           /\ \A i \in DOMAIN s : i # 1 => i - 1 \in DOMAIN Tail(s) /\ Tail(s)[i - 1] = s[i]
           /\ \A i, j \in DOMAIN Tail(s) : i + 1 = j + 1 => i = j
  OBVIOUS

\* The fields of a materializer that has begun.
LEMMA MakerFacts ==
    ASSUME DistributionTypeOK, maker.at # "idle"
    PROVE  /\ maker \in [at : {"writing", "materialized"}, offer : SoundOffers,
                         version : Versions, files : Seq(FilesToWrite), open : BOOLEAN,
                         since : Nat]
           /\ maker.at \in {"writing", "materialized"} /\ maker.offer \in SoundOffers
           /\ maker.version \in Versions /\ maker.files \in Seq(FilesToWrite)
           /\ maker.open \in BOOLEAN /\ maker.since \in Nat
  BY DEF DistributionTypeOK, Idle

\* A payload that was written out and left alone is all there.
LEMMA WholeIsThere ==
    ASSUME DistributionInv, maker.at = "materialized", maker.since = meddles
    PROVE  /\ maker.offer \in SoundOffers /\ maker.version \in Versions
           /\ dir[maker.offer.coordinate.text] = RenderActionSdk(maker.offer)
           /\ dir["diagnose.mjs"] = Runner
           /\ dir["manifest.json"] = Manifest(maker.offer, maker.version)
<1>1. maker.offer \in SoundOffers /\ maker.version \in Versions /\ maker.files = <<>>
  BY MakerFacts DEF DistributionInv, Making
<1>2. \A i \in 1 .. 3 : LET f == Files(maker.offer, maker.version)[i] IN dir[f.path] = f.text
  BY <1>1 DEF DistributionInv, Alone
<1>3. /\ 1 \in 1 .. 3 /\ 2 \in 1 .. 3 /\ 3 \in 1 .. 3
  OBVIOUS
<1>4. LET F == Files(maker.offer, maker.version) IN
      /\ F[1].path = maker.offer.coordinate.text /\ F[1].text = RenderActionSdk(maker.offer)
      /\ F[2].path = "diagnose.mjs" /\ F[2].text = Runner
      /\ F[3].path = "manifest.json" /\ F[3].text = Manifest(maker.offer, maker.version)
  BY <1>1, FileFacts
<1> QED
  BY <1>1, <1>2, <1>3, <1>4

\* At first the directory is empty and nobody is at work.
LEMMA DistributionInitHolds == DistributionInit => DistributionInv
<1> SUFFICES ASSUME DistributionInit PROVE DistributionInv
  OBVIOUS
<1> USE DEF DistributionInit
<1>1. DistributionTypeOK
  BY TextKinds DEF DistributionTypeOK, Unread
<1>2. maker.at = "idle" /\ reader.at = "idle" /\ reader.since = 0 /\ meddles = 0
  BY DEF Idle, Unread
<1> QED
  BY <1>1, <1>2 DEF DistributionInv, Making, Alone, Reading, ModuleStays, WholeStays

\* A materializer finds the directory empty, so nobody has read anything from it
\* since the operator touched it last.
LEMMA MaterializeKeeps ==
    ASSUME DistributionInv, NEW o \in Offers, NEW v \in Versions, Materialize(o, v) PROVE DistributionInv'
<1>1. /\ o \in SoundOffers /\ \A p \in Paths : dir[p] = Absent
      /\ maker' = [at |-> "writing", offer |-> o, version |-> v, files |-> Files(o, v),
                   open |-> FALSE, since |-> meddles]
      /\ makes' = makes + 1 /\ UNCHANGED <<dir, reader, meddles>>
  BY DEF Materialize, SoundOffers
<1>2. DistributionTypeOK'
  <2>1. Files(o, v) \in Seq(FilesToWrite)
    BY <1>1, FileFacts
  <2>2. maker' \in [at : {"writing", "materialized"}, offer : SoundOffers, version : Versions,
                    files : Seq(FilesToWrite), open : BOOLEAN, since : Nat]
    BY <1>1, <2>1 DEF DistributionInv, DistributionTypeOK
  <2> QED
    BY <1>1, <2>2 DEF DistributionInv, DistributionTypeOK
<1>3. Making' /\ Alone'
  <2>1. /\ maker'.since = meddles /\ maker'.files = Files(o, v) /\ maker'.at = "writing"
        /\ maker'.offer = o /\ maker'.version = v /\ ~maker'.open
    BY <1>1
  <2>2. DOMAIN Files(o, v) = 1 .. 3 /\ \A i \in 1 .. 3 : Files(o, v)[i].path \in Paths
    BY <1>1, FileFacts
  <2>3. \A i, j \in 1 .. 3 : Files(o, v)[i].path = Files(o, v)[j].path => i = j
    BY <1>1, FileFacts
  <2>4. Making'
    BY <1>1, <2>1, <2>2, <2>3 DEF Making, DistributionInv, DistributionTypeOK
  <2>5. Alone'
    BY <1>1, <2>1, <2>2 DEF Alone
  <2> QED
    BY <2>4, <2>5
<1>4. Reading'
  BY <1>1 DEF DistributionInv, Reading
<1>5. ModuleStays'
  <2>1. Calm'
    BY <1>1 DEF Calm
  <2> QED
    BY <1>1, <2>1 DEF DistributionInv, ModuleStays
<1>6. WholeStays'
  <2>1. ASSUME maker.at = "materialized", maker.since = meddles PROVE FALSE
    BY <1>1, <2>1, WholeIsThere, TextFacts DEF Paths
  <2> QED
    BY <1>1, <2>1 DEF DistributionInv, WholeStays, Whole
<1> QED
  BY <1>2, <1>3, <1>4, <1>5, <1>6 DEF DistributionInv

\* A file is opened.  It was not there before, unless the operator interfered.
LEMMA OpenFileKeeps == ASSUME DistributionInv, OpenFile PROVE DistributionInv'
<1> DEFINE s == maker.files
           p == Head(s).path
<1>1. /\ maker.at = "writing" /\ s # <<>> /\ ~maker.open /\ s \in Seq(FilesToWrite)
      /\ maker.offer \in SoundOffers /\ maker.version \in Versions
      /\ dir' = [dir EXCEPT ![p] = Torn] /\ maker' = [maker EXCEPT !.open = TRUE]
      /\ UNCHANGED <<reader, meddles, makes>>
  BY MakerFacts DEF OpenFile, DistributionInv
<1>2. /\ maker'.at = "writing" /\ maker'.offer = maker.offer /\ maker'.version = maker.version
      /\ maker'.files = s /\ maker'.open = TRUE /\ maker'.since = maker.since
  BY <1>1, MakerFacts DEF DistributionInv
<1>3. /\ p \in Paths /\ 1 \in DOMAIN s /\ Head(s) = s[1]
      /\ \A j \in DOMAIN s : s[j].path \in Paths
  <2>1. /\ 1 \in DOMAIN s /\ Head(s) = s[1] /\ \A j \in DOMAIN s : s[j] \in FilesToWrite
    BY <1>1, TailFacts
  <2> QED
    BY <2>1, FileType
<1>4. /\ dir'[p] = Torn /\ \A q \in Paths : q # p => dir'[q] = dir[q]
  BY <1>1, <1>3 DEF DistributionInv, DistributionTypeOK
<1>5. DistributionTypeOK'
  BY <1>1, MakerFacts, TextKinds DEF DistributionInv, DistributionTypeOK
<1>6. Making'
  BY <1>1, <1>2 DEF DistributionInv, Making
<1>7. maker.since = meddles => dir[p] = Absent
  BY <1>1, <1>3 DEF DistributionInv, Alone
<1>8. Alone'
  <2> SUFFICES ASSUME maker.since = meddles PROVE Alone'
    BY <1>1, <1>2 DEF Alone
  <2>1. ASSUME NEW i \in 1 .. 3
        PROVE  LET f == Files(maker.offer, maker.version)[i] IN
               dir'[f.path] = f.text \/ \E j \in DOMAIN s : s[j] = f
    <3>1. Files(maker.offer, maker.version)[i].path \in Paths
          /\ Files(maker.offer, maker.version)[i].text # Absent
      BY <1>1, FileFacts
    <3> QED
      BY <3>1, <1>1, <1>4, <1>7 DEF DistributionInv, Alone
  <2>2. ASSUME NEW j \in DOMAIN s PROVE dir'[s[j].path] = IF j = 1 THEN Torn ELSE Absent
    <3>1. s[j].path \in Paths
      BY <1>3
    <3>2. j # 1 => s[j].path # p /\ dir[s[j].path] = Absent
      BY <1>1, <1>3 DEF DistributionInv, Making, Alone
    <3> QED
      BY <3>1, <3>2, <1>3, <1>4
  <2> QED
    BY <1>1, <1>2, <2>1, <2>2 DEF Alone
<1>9. Reading'
  BY <1>1 DEF DistributionInv, Reading
<1>10. ModuleStays'
  <2> SUFFICES ASSUME reader.at # "idle", reader.since = meddles, reader.calm PROVE ModuleStays'
    BY <1>1 DEF ModuleStays
  <2>1. maker.since = meddles /\ dir[p] = Absent
    BY <1>1, <1>7 DEF DistributionInv, ModuleStays, Calm
  <2>2. ASSUME reader.at \in {"runner", "healthy"}
        PROVE  reader.manifest.modulePath \in Paths
    BY <2>2, ManifestFacts DEF DistributionInv, Reading, Paths, SoundOffers
  <2> QED
    BY <1>1, <1>2, <1>4, <2>1, <2>2 DEF DistributionInv, ModuleStays, Calm
<1>11. WholeStays'
  BY <1>1 DEF DistributionInv, WholeStays, Whole
<1> QED
  BY <1>5, <1>6, <1>8, <1>9, <1>10, <1>11 DEF DistributionInv

\* Its text is written, unless the operator took the file away.
LEMMA WriteFileKeeps == ASSUME DistributionInv, WriteFile PROVE DistributionInv'
<1> DEFINE s == maker.files
           h == Head(s)
<1>1. /\ maker.at = "writing" /\ s # <<>> /\ maker.open /\ s \in Seq(FilesToWrite)
      /\ maker.offer \in SoundOffers /\ maker.version \in Versions
      /\ dir' = IF dir[h.path] = Torn THEN [dir EXCEPT ![h.path] = h.text] ELSE dir
      /\ maker' = [maker EXCEPT !.files = Tail(s), !.open = FALSE]
      /\ UNCHANGED <<reader, meddles, makes>>
  BY MakerFacts DEF WriteFile, DistributionInv
<1>2. /\ maker'.at = "writing" /\ maker'.offer = maker.offer /\ maker'.version = maker.version
      /\ maker'.files = Tail(s) /\ maker'.open = FALSE /\ maker'.since = maker.since
  BY <1>1, MakerFacts DEF DistributionInv
<1>3. /\ h.path \in Paths /\ h.text \in Texts /\ 1 \in DOMAIN s /\ h = s[1]
      /\ Tail(s) \in Seq(FilesToWrite)
      /\ \A i \in DOMAIN Tail(s) : i + 1 \in DOMAIN s /\ i + 1 # 1 /\ Tail(s)[i] = s[i + 1]
      /\ \A i \in DOMAIN s : i # 1 => i - 1 \in DOMAIN Tail(s) /\ Tail(s)[i - 1] = s[i]
      /\ \A j \in DOMAIN s : s[j].path \in Paths
  <2>1. h = s[1] /\ 1 \in DOMAIN s /\ \A j \in DOMAIN s : s[j] \in FilesToWrite
    BY <1>1, TailFacts
  <2>2. /\ Tail(s) \in Seq(FilesToWrite)
        /\ \A i \in DOMAIN Tail(s) : i + 1 \in DOMAIN s /\ i + 1 # 1 /\ Tail(s)[i] = s[i + 1]
        /\ \A i \in DOMAIN s : i # 1 => i - 1 \in DOMAIN Tail(s) /\ Tail(s)[i - 1] = s[i]
    BY <1>1, TailFacts
  <2> HIDE DEF h
  <2> QED
    BY <2>1, <2>2, FileType
<1>4. /\ \A q \in Paths : dir[q] # Torn \/ q # h.path => dir'[q] = dir[q]
      /\ dir[h.path] = Torn => dir'[h.path] = h.text
  BY <1>1, <1>3 DEF DistributionInv, DistributionTypeOK
<1>5. DistributionTypeOK'
  <2>1. dir' \in [Paths -> Texts]
    BY <1>1, <1>3 DEF DistributionInv, DistributionTypeOK
  <2>2. maker' \in [at : {"writing", "materialized"}, offer : SoundOffers, version : Versions,
                    files : Seq(FilesToWrite), open : BOOLEAN, since : Nat]
    BY <1>1, <1>3, MakerFacts DEF DistributionInv
  <2> QED
    BY <1>1, <2>1, <2>2 DEF DistributionInv, DistributionTypeOK
<1>6. Making'
  <2>1. \A i, j \in DOMAIN Tail(s) : i + 1 = j + 1 => i = j
    BY <1>1, TailFacts
  <2> QED
    BY <1>1, <1>2, <1>3, <2>1 DEF DistributionInv, Making
<1>7. Alone'
  <2> SUFFICES ASSUME maker.since = meddles PROVE Alone'
    BY <1>1, <1>2 DEF Alone
  <2>1. dir[h.path] = Torn
    BY <1>1, <1>3 DEF DistributionInv, Alone
  <2>2. ASSUME NEW i \in 1 .. 3
        PROVE  LET f == Files(maker.offer, maker.version)[i] IN
               dir'[f.path] = f.text \/ \E j \in DOMAIN Tail(s) : Tail(s)[j] = f
    <3> DEFINE f == Files(maker.offer, maker.version)[i]
    <3>1. f.path \in Paths /\ f.text # Torn
      BY <1>1, FileFacts
    <3>2. CASE dir[f.path] = f.text
      BY <3>1, <3>2, <1>4
    <3>3. ASSUME NEW j \in DOMAIN s, s[j] = f
          PROVE  dir'[f.path] = f.text \/ \E k \in DOMAIN Tail(s) : Tail(s)[k] = f
      <4>1. CASE j = 1
        <5>1. f = h
          BY <4>1, <3>3, <1>3
        <5>2. dir'[h.path] = h.text
          BY <2>1, <1>4
        <5> HIDE DEF f, h
        <5> QED
          BY <5>1, <5>2
      <4>2. CASE j # 1
        <5>1. j - 1 \in DOMAIN Tail(s) /\ Tail(s)[j - 1] = f
          BY <4>2, <3>3, <1>3
        <5> HIDE DEF f, s
        <5> QED
          BY <5>1
      <4> QED
        BY <4>1, <4>2
    <3> QED
      BY <3>2, <3>3, <1>1 DEF DistributionInv, Alone
  <2>3. ASSUME NEW j \in DOMAIN Tail(s) PROVE dir'[Tail(s)[j].path] = Absent
    <3>1. /\ j + 1 \in DOMAIN s /\ j + 1 # 1 /\ Tail(s)[j] = s[j + 1]
          /\ s[j + 1].path \in Paths
      BY <1>3
    <3>2. dir[s[j + 1].path] = Absent
      BY <3>1, <1>1 DEF DistributionInv, Alone
    <3> QED
      BY <3>1, <3>2, <1>4, TextFacts
  <2>4. /\ \A i \in 1 .. 3 : LET f == Files(maker.offer, maker.version)[i] IN
             dir'[f.path] = f.text \/ \E j \in DOMAIN Tail(s) : Tail(s)[j] = f
        /\ \A j \in DOMAIN Tail(s) : dir'[Tail(s)[j].path] = Absent
    BY <2>2, <2>3
  <2> HIDE DEF s
  <2> QED
    BY <1>2, <2>4 DEF Alone
<1>8. Reading'
  BY <1>1 DEF DistributionInv, Reading
<1>9. ModuleStays'
  <2>1. ASSUME reader.at \in {"runner", "healthy"}
        PROVE  reader.manifest.modulePath \in Paths
    BY <2>1, ManifestFacts DEF DistributionInv, Reading, Paths, SoundOffers
  <2> QED
    BY <1>1, <1>2, <1>4, <2>1 DEF DistributionInv, ModuleStays, Calm
<1>10. WholeStays'
  BY <1>1 DEF DistributionInv, WholeStays, Whole
<1> QED
  BY <1>5, <1>6, <1>7, <1>8, <1>9, <1>10 DEF DistributionInv

\* A materializer ends; a dead one leaves what it wrote.
LEMMA ReportKeeps == ASSUME DistributionInv, ReportMaterialized PROVE DistributionInv'
<1>1. /\ maker.at = "writing" /\ maker.files = <<>>
      /\ maker' = [maker EXCEPT !.at = "materialized"] /\ UNCHANGED <<dir, reader, meddles, makes>>
  BY DEF ReportMaterialized
<1>2. /\ maker'.at = "materialized" /\ maker'.offer = maker.offer
      /\ maker'.version = maker.version /\ maker'.files = <<>> /\ maker'.open = maker.open
      /\ maker'.since = maker.since
  BY <1>1, MakerFacts DEF DistributionInv
<1>3. DistributionTypeOK'
  BY <1>1, MakerFacts DEF DistributionInv, DistributionTypeOK
<1>4. Making' /\ Alone' /\ Reading'
  BY <1>1, <1>2 DEF DistributionInv, Making, Alone, Reading
<1>5. ModuleStays' /\ WholeStays'
  BY <1>1, <1>2 DEF DistributionInv, ModuleStays, WholeStays, Whole, Calm
<1> QED
  BY <1>3, <1>4, <1>5 DEF DistributionInv

\* A materializer that dies leaves the files it has written.
LEMMA MakerDiesKeeps == ASSUME DistributionInv, MakerDies PROVE DistributionInv'
<1>1. /\ maker.at = "writing" /\ maker' = Idle /\ maker'.at = "idle"
      /\ UNCHANGED <<dir, reader, meddles, makes>>
  BY DEF MakerDies, Idle
<1>2. DistributionTypeOK'
  BY <1>1 DEF DistributionInv, DistributionTypeOK
<1>3. Making' /\ Alone' /\ Reading'
  BY <1>1 DEF DistributionInv, Making, Alone, Reading
<1>4. ModuleStays' /\ WholeStays'
  BY <1>1 DEF DistributionInv, ModuleStays, WholeStays, Whole, Calm
<1> QED
  BY <1>2, <1>3, <1>4 DEF DistributionInv

\* The operator acts: whatever was concluded from an untouched directory is void.
LEMMA MeddleKeeps == ASSUME DistributionInv, Meddle PROVE DistributionInv'
<1>1. /\ meddles' = meddles + 1 /\ UNCHANGED <<maker, reader, makes>>
      /\ meddles \in Nat /\ reader.since \in Nat /\ reader.since <= meddles
  BY DEF Meddle, DistributionInv, DistributionTypeOK, Reading
<1>2. dir' \in [Paths -> Texts]
  <2>1. CASE dir' = [p \in Paths |-> Absent]
    BY <2>1, TextKinds
  <2>2. ASSUME NEW o \in SoundOffers, NEW v \in Versions, NEW i \in 1 .. 3,
               dir' = [dir EXCEPT ![Files(o, v)[i].path] = Files(o, v)[i].text]
        PROVE  dir' \in [Paths -> Texts]
    <3>1. Files(o, v)[i].path \in Paths /\ Files(o, v)[i].text \in Texts
      BY FileFacts
    <3> QED
      BY <2>2, <3>1 DEF DistributionInv, DistributionTypeOK
  <2>3. \A o \in SoundOffers, v \in Versions : DOMAIN Files(o, v) = 1 .. 3
    BY FileFacts
  <2> QED
    BY <2>1, <2>2, <2>3 DEF Meddle, SoundOffers
<1>3. DistributionTypeOK'
  BY <1>1, <1>2 DEF DistributionInv, DistributionTypeOK
<1>4. maker.at # "idle" => maker.since \in Nat /\ maker.since <= meddles
  BY MakerFacts DEF DistributionInv, Making
<1>5. /\ reader.since <= meddles' /\ reader.since # meddles'
      /\ maker.at # "idle" => maker.since <= meddles' /\ maker.since # meddles'
  BY <1>1, <1>4
<1>6. Making' /\ Alone'
  BY <1>1, <1>5 DEF DistributionInv, Making, Alone
<1>7. Reading' /\ ModuleStays' /\ WholeStays'
  BY <1>1, <1>5 DEF DistributionInv, Reading, ModuleStays, WholeStays
<1> QED
  BY <1>3, <1>6, <1>7 DEF DistributionInv

----------------------------------------------------------------------------
\* A step of the reader leaves the directory and the materializer alone.
LEMMA ReaderStep ==
    ASSUME DistributionInv, UNCHANGED <<dir, maker, meddles, makes>>, DistributionTypeOK',
           Reading', ModuleStays', WholeStays'
    PROVE  DistributionInv'
  BY DEF DistributionInv, Making, Alone

\* The fields of the reader.
LEMMA ReaderFacts ==
    ASSUME DistributionTypeOK
    PROVE  /\ reader.since \in Nat /\ reader.whole \in BOOLEAN /\ reader.calm \in BOOLEAN
           /\ \A at : LET r == [reader EXCEPT !.at = at] IN
                /\ r.at = at /\ r.expected = reader.expected /\ r.since = reader.since
                /\ r.whole = reader.whole /\ r.calm = reader.calm
                /\ r.manifest = reader.manifest /\ r.module = reader.module
                /\ r.used = reader.used
  BY DEF DistributionTypeOK

\* A refusal of a whole payload is for its empty list of outcomes; others claim nothing.
LEMMA FailKeeps ==
    ASSUME DistributionInv, reader.at # "idle", Fail, UNCHANGED <<dir, maker, meddles, makes>>,
           reader.whole /\ reader.since = meddles => maker.offer.outcomes.names = <<>>
    PROVE  DistributionInv'
<1>1. /\ reader' = [reader EXCEPT !.at = "failed"] /\ reader'.at = "failed"
      /\ reader'.expected = reader.expected
      /\ reader'.since = reader.since /\ reader'.whole = reader.whole /\ reader'.calm = reader.calm
  BY ReaderFacts DEF Fail, DistributionInv
<1>2. DistributionTypeOK'
  BY <1>1 DEF DistributionInv, DistributionTypeOK
<1>3. Reading'
  BY <1>1 DEF DistributionInv, Reading
<1>4. ModuleStays'
  BY <1>1 DEF DistributionInv, ModuleStays, Calm
<1>5. WholeStays'
  BY <1>1 DEF DistributionInv, WholeStays, Whole
<1> QED
  BY <1>2, <1>3, <1>4, <1>5, ReaderStep

\* A consumer starts reading and knows nothing yet.
LEMMA ConsumeKeeps == ASSUME DistributionInv, NEW v \in Versions, Consume(v) PROVE DistributionInv'
<1>1. UNCHANGED <<dir, maker, meddles, makes>>
  BY DEF Consume
<1>2. Whole(v) \in BOOLEAN /\ Calm \in BOOLEAN
  BY DEF Whole, Calm
<1>3. /\ reader'.at = IF dir["diagnose.mjs"] = Runner THEN "manifest" ELSE "failed"
      /\ reader'.expected = v /\ reader'.since = meddles
      /\ reader'.whole = Whole(v) /\ reader'.calm = Calm
  BY DEF Consume, Unread
<1>4. DistributionTypeOK'
  <2>1. meddles \in Nat /\ dir' \in [Paths -> Texts] /\ UNCHANGED <<maker, meddles, makes>>
    BY <1>1 DEF DistributionInv, DistributionTypeOK
  <2>2. reader' \in [at : {"idle", "manifest", "module", "runner", "healthy", "ok", "failed"},
                     expected : Versions \cup {"none"}, since : Nat, whole : BOOLEAN,
                     calm : BOOLEAN, manifest : Texts, module : Texts, used : Texts]
    BY <1>2, <2>1, TextKinds DEF Consume, Unread
  <2> QED
    BY <1>1, <2>2 DEF DistributionInv, DistributionTypeOK
<1>5. (reader'.whole => Whole(v)) /\ (reader'.calm => Calm)
  BY <1>2, <1>3
<1>6. Reading'
  BY <1>1, <1>3 DEF DistributionInv, DistributionTypeOK, Reading
<1>7. ModuleStays'
  <2>1. Calm' <=> Calm
    BY <1>1 DEF Calm
  <2>2. reader'.at \in {"manifest", "failed"}
    BY <1>3
  <2> QED
    BY <1>5, <2>1, <2>2 DEF ModuleStays
<1>8. WholeStays'
  <2>1. Whole(v) => dir["diagnose.mjs"] = Runner
    BY WholeIsThere DEF Whole
  <2>2. Whole(v)' <=> Whole(v)
    BY <1>1 DEF Whole
  <2> QED
    BY <1>3, <1>5, <2>1, <2>2 DEF WholeStays
<1> QED
  BY <1>1, <1>4, <1>6, <1>7, <1>8, ReaderStep

\* The consumer reads the manifest and checks the version it declares.
LEMMA ReadManifestKeeps == ASSUME DistributionInv, ReadManifest PROVE DistributionInv'
<1> DEFINE t == dir["manifest.json"]
<1>1. reader.at = "manifest" /\ UNCHANGED <<dir, maker, meddles, makes>> /\ t \in Texts
  BY DEF ReadManifest, DistributionInv, DistributionTypeOK, Paths
<1>2. CASE t.is = "manifest" /\ t.distributionVersion = reader.expected
  <2>1. /\ reader' = [reader EXCEPT !.at = "module", !.manifest = t]
        /\ reader'.at = "module" /\ reader'.manifest = t /\ reader'.expected = reader.expected
        /\ reader'.since = reader.since /\ reader'.whole = reader.whole
        /\ reader'.calm = reader.calm
    BY <1>2 DEF ReadManifest, DistributionInv, DistributionTypeOK
  <2>2. DistributionTypeOK'
    BY <1>1, <2>1 DEF DistributionInv, DistributionTypeOK
  <2>3. \E o \in SoundOffers : t = Manifest(o, reader.expected)
    <3>1. PICK o \in SoundOffers, v \in Versions : t = Manifest(o, v)
      BY <1>1, <1>2, TextKinds
    <3>2. v = reader.expected
      BY <1>2, <3>1, ManifestFacts
    <3> QED
      BY <3>1, <3>2
  <2>4. Reading'
    BY <1>1, <2>1, <2>3 DEF DistributionInv, Reading
  <2>5. ModuleStays'
    BY <1>1, <2>1 DEF DistributionInv, ModuleStays, Calm
  <2>6. WholeStays'
    <3>1. Whole(reader.expected) => t = Manifest(maker.offer, maker.version)
      BY WholeIsThere DEF Whole
    <3> QED
      BY <1>1, <2>1, <3>1 DEF DistributionInv, WholeStays, Whole
  <2> QED
    BY <1>1, <2>2, <2>4, <2>5, <2>6, ReaderStep
<1>3. CASE ~(t.is = "manifest" /\ t.distributionVersion = reader.expected)
  <2>1. Fail
    BY <1>3 DEF ReadManifest
  <2>2. ~Whole(reader.expected)
    <3> SUFFICES ASSUME Whole(reader.expected) PROVE FALSE
      OBVIOUS
    <3>1. /\ t = Manifest(maker.offer, maker.version) /\ maker.version = reader.expected
          /\ maker.offer \in SoundOffers
      BY WholeIsThere DEF Whole
    <3> QED
      BY <1>3, <3>1, ManifestFacts
  <2> QED
    BY <1>1, <2>1, <2>2, FailKeeps DEF DistributionInv, WholeStays
<1> QED
  BY <1>2, <1>3

\* The consumer reads the module the manifest names.
LEMMA ReadModuleKeeps == ASSUME DistributionInv, ReadModule PROVE DistributionInv'
<1> DEFINE t == dir[reader.manifest.modulePath]
<1>1. reader.at = "module" /\ UNCHANGED <<dir, maker, meddles, makes>>
  BY DEF ReadModule
<1>2. PICK o \in SoundOffers : reader.manifest = Manifest(o, reader.expected)
  BY <1>1 DEF DistributionInv, Reading
<1>3. reader.manifest.modulePath = o.coordinate.text /\ reader.manifest.modulePath \in Paths
  BY <1>2, ManifestFacts DEF Paths, SoundOffers
<1>4. t \in Texts
  BY <1>3 DEF DistributionInv, DistributionTypeOK
<1>5. reader.whole /\ reader.since = meddles => t = RenderActionSdk(maker.offer)
  <2> SUFFICES ASSUME reader.whole, reader.since = meddles PROVE t = RenderActionSdk(maker.offer)
    OBVIOUS
  <2>1. Whole(reader.expected) /\ reader.manifest = Manifest(maker.offer, maker.version)
    BY <1>1 DEF DistributionInv, WholeStays
  <2>2. maker.offer \in SoundOffers /\ dir[maker.offer.coordinate.text] = RenderActionSdk(maker.offer)
    BY <2>1, WholeIsThere DEF Whole
  <2> QED
    BY <2>1, <2>2, ManifestFacts
<1>6. CASE t # Absent
  <2>1. /\ reader' = [reader EXCEPT !.at = "runner", !.module = t]
        /\ reader'.at = "runner" /\ reader'.manifest = reader.manifest /\ reader'.module = t
        /\ reader'.expected = reader.expected /\ reader'.since = reader.since
        /\ reader'.whole = reader.whole /\ reader'.calm = reader.calm
    BY <1>6 DEF ReadModule, DistributionInv, DistributionTypeOK
  <2>2. DistributionTypeOK'
    BY <1>1, <1>4, <2>1 DEF DistributionInv, DistributionTypeOK
  <2>3. Reading'
    BY <1>1, <2>1 DEF DistributionInv, Reading
  <2>4. ModuleStays'
    BY <1>1, <1>6, <2>1 DEF DistributionInv, ModuleStays, Calm
  <2>5. WholeStays'
    BY <1>1, <1>5, <2>1 DEF DistributionInv, WholeStays, Whole
  <2> QED
    BY <1>1, <2>2, <2>3, <2>4, <2>5, ReaderStep
<1>7. CASE t = Absent
  <2>1. Fail
    BY <1>7 DEF ReadModule
  <2>2. ~(reader.whole /\ reader.since = meddles)
    <3>1. reader.whole /\ reader.since = meddles => maker.offer \in SoundOffers
      BY <1>1, WholeIsThere DEF DistributionInv, WholeStays, Whole
    <3> QED
      BY <1>5, <1>7, <3>1, TextFacts
  <2> QED
    BY <1>1, <2>1, <2>2, FailKeeps
<1> QED
  BY <1>6, <1>7

\* The digests decide: only the module the manifest was rendered with has its digest.
LEMMA DiagnoseKeeps == ASSUME DistributionInv, Diagnose PROVE DistributionInv'
<1> DEFINE m == reader.manifest
           source == dir[m.diagnosticsPath]
           healthy == /\ source # Absent
                      /\ ModuleIntegrity(m, reader.module)
                      /\ DiagnosticsIntegrity(m, source)
                      /\ ModuleEvaluates(m, reader.module)
<1>1. reader.at = "runner" /\ UNCHANGED <<dir, maker, meddles, makes>>
  BY DEF Diagnose
<1>2. PICK o \in SoundOffers : m = Manifest(o, reader.expected)
  BY <1>1 DEF DistributionInv, Reading
<1>3. CASE healthy
  <2>1. /\ reader' = [reader EXCEPT !.at = "healthy"] /\ reader'.at = "healthy"
        /\ reader'.manifest = m /\ reader'.module = reader.module
        /\ reader'.expected = reader.expected /\ reader'.since = reader.since
        /\ reader'.whole = reader.whole /\ reader'.calm = reader.calm
    BY <1>3 DEF Diagnose, DistributionInv, DistributionTypeOK
  <2>2. DistributionTypeOK'
    BY <1>1, <2>1 DEF DistributionInv, DistributionTypeOK
  <2>3. reader.module = RenderActionSdk(o)
    <3>1. /\ m.distributionVersion = reader.expected /\ m.kind = o.kind
          /\ m.coordinate = o.coordinate.text /\ m.modulePath = o.coordinate.text
          /\ m.integrity = Integrity(reader.expected, o.kind, o.coordinate.text,
                                     o.coordinate.text, RenderActionSdk(o))
      BY <1>2, ManifestFacts
    <3>2. m.integrity = Integrity(m.distributionVersion, m.kind, m.coordinate, m.modulePath,
                                  reader.module)
      BY <1>3 DEF ModuleIntegrity
    <3> HIDE DEF m
    <3> QED
      BY <3>1, <3>2 DEF Integrity
  <2>4. o.outcomes.names # <<>>
    BY <1>3, <2>3, TextFacts DEF ModuleEvaluates
  <2>5. Reading'
    BY <1>1, <1>2, <2>1, <2>3, <2>4 DEF DistributionInv, Reading
  <2>6. ModuleStays'
    BY <1>1, <2>1 DEF DistributionInv, ModuleStays, Calm
  <2>7. WholeStays'
    BY <1>1, <2>1 DEF DistributionInv, WholeStays, Whole
  <2> QED
    BY <1>1, <2>2, <2>5, <2>6, <2>7, ReaderStep
<1>4. CASE ~healthy
  <2>1. Fail
    BY <1>4 DEF Diagnose
  <2>2. ASSUME reader.whole, reader.since = meddles PROVE maker.offer.outcomes.names = <<>>
    <3> DEFINE p == maker.offer
    <3>1. /\ Whole(reader.expected) /\ m = Manifest(p, maker.version)
          /\ reader.module = RenderActionSdk(p)
      BY <1>1, <2>2 DEF DistributionInv, WholeStays
    <3>2. p \in SoundOffers /\ dir["diagnose.mjs"] = Runner
      BY <3>1, WholeIsThere DEF Whole
    <3>3. source = Runner /\ source # Absent
      BY <3>1, <3>2, ManifestFacts, TextFacts
    <3>4. ModuleIntegrity(m, reader.module) /\ DiagnosticsIntegrity(m, source)
      <4>1. LET c == p.coordinate.text
                integrity == Integrity(maker.version, p.kind, c, c, RenderActionSdk(p))
            IN  /\ m.distributionVersion = maker.version /\ m.kind = p.kind /\ m.coordinate = c
                /\ m.modulePath = c /\ m.integrity = integrity
                /\ m.diagnosticsPath = "diagnose.mjs"
                /\ m.diagnostics =
                     DiagnosticsDigest(maker.version, c, integrity, "diagnose.mjs", Runner)
        BY <3>1, <3>2, ManifestFacts
      <4> HIDE DEF m, p, source
      <4> QED
        BY <3>1, <3>3, <4>1 DEF ModuleIntegrity, DiagnosticsIntegrity
    <3>5. p.outcomes.names # <<>> => ModuleEvaluates(m, reader.module)
      <4>1. /\ \A a, b \in DOMAIN p.fields.names : p.fields.names[a] = p.fields.names[b] => a = b
            /\ \A a, b \in DOMAIN p.errorEnvelopeFields.names :
                 p.errorEnvelopeFields.names[a] = p.errorEnvelopeFields.names[b] => a = b
        BY <3>2 DEF SoundOffers, ActionContractAccepts, IdentifierList
      <4>2. m.kind = p.kind /\ m.coordinate = p.coordinate.text
        BY <3>1, <3>2, ManifestFacts
      <4> HIDE DEF m, p
      <4> QED
        BY <3>1, <3>2, <4>1, <4>2, TextFacts DEF ModuleEvaluates
    <3> QED
      BY <1>4, <3>3, <3>4, <3>5
  <2> QED
    BY <1>1, <2>1, <2>2, FailKeeps
<1> QED
  BY <1>3, <1>4

\* The consumer imports the module from the directory, after the diagnostics.
LEMMA ImportModuleKeeps == ASSUME DistributionInv, ImportModule PROVE DistributionInv'
<1> DEFINE t == dir[reader.manifest.modulePath]
<1>1. reader.at = "healthy" /\ UNCHANGED <<dir, maker, meddles, makes>>
  BY DEF ImportModule
<1>2. PICK o \in SoundOffers : /\ reader.manifest = Manifest(o, reader.expected)
                               /\ reader.module = RenderActionSdk(o)
  BY <1>1 DEF DistributionInv, Reading
<1>3. reader.manifest.modulePath = o.coordinate.text /\ reader.manifest.modulePath \in Paths
  BY <1>2, ManifestFacts DEF Paths, SoundOffers
<1>4. t \in Texts
  BY <1>3 DEF DistributionInv, DistributionTypeOK
<1>5. CASE t.is \in {"module", "torn"} /\ reader' = [reader EXCEPT !.at = "ok", !.used = t]
  <2>1. /\ reader'.at = "ok" /\ reader'.manifest = reader.manifest
        /\ reader'.module = reader.module /\ reader'.used = t
        /\ reader'.expected = reader.expected /\ reader'.since = reader.since
        /\ reader'.whole = reader.whole /\ reader'.calm = reader.calm
    BY <1>5 DEF DistributionInv, DistributionTypeOK
  <2>2. DistributionTypeOK'
    BY <1>1, <1>4, <1>5 DEF DistributionInv, DistributionTypeOK
  <2>3. Reading'
    BY <1>1, <2>1 DEF DistributionInv, Reading
  <2>4. ModuleStays'
    <3>1. reader.module # Torn
      BY <1>2, TextFacts
    <3> QED
      BY <1>1, <2>1, <3>1 DEF DistributionInv, ModuleStays, Calm
  <2>5. WholeStays'
    BY <1>1, <2>1 DEF DistributionInv, WholeStays, Whole
  <2> QED
    BY <1>1, <2>2, <2>3, <2>4, <2>5, ReaderStep
<1>6. CASE t.is # "module" /\ Fail
  <2>1. ~(reader.whole /\ reader.since = meddles)
    <3> SUFFICES ASSUME reader.whole, reader.since = meddles PROVE FALSE
      OBVIOUS
    <3>1. Whole(reader.expected) /\ reader.manifest = Manifest(maker.offer, maker.version)
      BY <1>1 DEF DistributionInv, WholeStays
    <3>2. /\ maker.offer \in SoundOffers
          /\ dir[maker.offer.coordinate.text] = RenderActionSdk(maker.offer)
      BY <3>1, WholeIsThere DEF Whole
    <3>3. t = RenderActionSdk(maker.offer)
      BY <3>1, <3>2, ManifestFacts
    <3> QED
      BY <1>6, <3>2, <3>3, TextFacts
  <2> QED
    BY <1>1, <1>6, <2>1, FailKeeps
<1> QED
  BY <1>5, <1>6 DEF ImportModule

\* Each step of the distribution keeps its invariant.
LEMMA DistributionStepKeeps == ASSUME DistributionInv, [DistributionNext]_distribution PROVE DistributionInv'
<1>1. CASE UNCHANGED distribution
  BY <1>1 DEF distribution, DistributionInv, DistributionTypeOK, Making, Alone, Reading, ModuleStays,
              WholeStays, Whole, Calm
<1>2. CASE DistributionNext
  BY <1>2, MaterializeKeeps, OpenFileKeeps, WriteFileKeeps, ReportKeeps, MakerDiesKeeps,
     MeddleKeeps, ConsumeKeeps, ReadManifestKeeps, ReadModuleKeeps, DiagnoseKeeps,
     ImportModuleKeeps DEF DistributionNext
<1> QED
  BY <1>1, <1>2

\* So does that of the distributions.
THEOREM DistributionInvariance == DistributionSpec => []DistributionInv
<1>1. DistributionInv /\ [DistributionNext]_distribution => DistributionInv'
  BY DistributionStepKeeps
<1> QED
  BY DistributionInitHolds, <1>1, PTL DEF DistributionSpec

\* Files hold what some step wrote, and the runs of the tools keep their types.
THEOREM DistributionTypeCorrect == DistributionSpec => []DistributionTypeOK
<1>1. DistributionInv => DistributionTypeOK
  BY DEF DistributionInv
<1> QED
  BY <1>1, DistributionInvariance, PTL

\* Diagnostics (diagnose.mjs) call nothing healthy but one rendering of one accepted
\* contract, the consumer imports what was verified, and a payload that was written out
\* is refused for its empty list of outcomes only.
THEOREM HealthySafety == DistributionSpec => []HealthyMeansWhole
<1>1. DistributionInv => HealthyMeansWhole
  <2> SUFFICES ASSUME DistributionInv PROVE HealthyMeansWhole
    OBVIOUS
  <2>1. reader.at \in {"healthy", "ok"} =>
          \E o \in Offers :
             /\ ActionContractAccepts(o) /\ o.outcomes.names # <<>>
             /\ reader.manifest = Manifest(o, reader.expected)
             /\ reader.module = RenderActionSdk(o)
    BY DEF DistributionInv, Reading, SoundOffers
  <2>2. reader.at = "ok" /\ reader.since = meddles /\ reader.calm =>
          reader.used = reader.module
    BY DEF DistributionInv, ModuleStays
  <2>3. reader.at = "failed" /\ reader.whole /\ reader.since = meddles =>
          maker.offer.outcomes.names = <<>>
    BY DEF DistributionInv, WholeStays
  <2> QED
    BY <2>1, <2>2, <2>3 DEF HealthyMeansWhole
<1> QED
  BY <1>1, DistributionInvariance, PTL
-----------------------------------------------------------------------------
(* The token guard.                                                        *)

\* The registries of a fact record, whatever each holds.
Registries == {"liveWorkers", "alreadyRead", "activeWriters", "worktrees", "guardian", "reviews",
               "currentSnapshot", "panels", "gates"}

IsFacts(f) == f = [r \in Registries |-> f[r]]

\* What the decision looks at in a set of findings.
Denies(S) == \E x \in S : x.decision = Deny
Stops(S)  == \E x \in S : x.decision \in {Deny, Escalate}

\* An escalation is routed to a gate that exists.
Routed(S) == \A x \in S : x.decision = Escalate => x.gate \in GuardEmittedGates

\* Blindness neither adds a denial nor takes a stop away.
Holds(S, blind) == (Denies(blind) => Denies(S)) /\ (Stops(S) => Stops(blind))

\* What a single finding of each decision contributes.
LEMMA FindingFacts ==
    /\ ~Denies(Nothing) /\ ~Stops(Nothing) /\ Routed(Nothing)
    /\ \A g : Denies(Finding(Deny, g)) /\ Stops(Finding(Deny, g)) /\ Routed(Finding(Deny, g))
    /\ \A g : ~Denies(Finding(Escalate, g)) /\ Stops(Finding(Escalate, g))
    /\ \A g \in GuardEmittedGates : Routed(Finding(Escalate, g))
    /\ \A g : /\ ~Denies(Finding(Advise, g)) /\ ~Stops(Finding(Advise, g))
              /\ Routed(Finding(Advise, g))
  BY DEF Denies, Stops, Routed, Finding, Nothing, Deny, Escalate, Advise

\* The three readings of a set of findings distribute over unions.
LEMMA UnionFacts ==
    ASSUME NEW S, NEW T
    PROVE  /\ Denies(S \cup T) <=> Denies(S) \/ Denies(T)
           /\ Stops(S \cup T) <=> Stops(S) \/ Stops(T)
           /\ Routed(S \cup T) <=> Routed(S) /\ Routed(T)
  BY DEF Denies, Stops, Routed

\* decide() takes the strongest of the findings.
LEMMA DecideFacts ==
    ASSUME NEW q, NEW f
    PROVE  /\ Decide(q, f) = Deny <=> Denies(Findings(q, f))
           /\ Decide(q, f) # Pass <=> Stops(Findings(q, f))
           /\ Decide(q, f) = Escalate => Stops(Findings(q, f)) /\ ~Denies(Findings(q, f))
  BY DEF Decide, Denies, Stops, Deny, Escalate, Pass

\* What a blind record holds.
LEMMA BlindFacts ==
    ASSUME NEW f, IsFacts(f), NEW r \in Registries
    PROVE  /\ \A s \in Registries : Blind(f, r)[s] = IF s = r THEN Hidden ELSE f[s]
           /\ DOMAIN f = Registries
<1>1. DOMAIN f = Registries
  BY DEF IsFacts
<1> QED
  BY <1>1 DEF Blind
\* A task is worked on once, unless it is reviewed under another lens.
LEMMA WorkerHolds ==
    ASSUME NEW q, NEW f, IsFacts(f), NEW r \in Registries
    PROVE  /\ Holds(EvaluateDuplicateWorker(q, f), EvaluateDuplicateWorker(q, Blind(f, r)))
           /\ Routed(EvaluateDuplicateWorker(q, f))
<1>1. Routed(EvaluateDuplicateWorker(q, f))
  BY FindingFacts DEF EvaluateDuplicateWorker, Unobserved, GuardEmittedGates
<1>2. CASE r # "liveWorkers"
  <2>1. Blind(f, r).liveWorkers = f.liveWorkers
    BY <1>2, BlindFacts DEF Registries
  <2>2. EvaluateDuplicateWorker(q, Blind(f, r)) = EvaluateDuplicateWorker(q, f)
    BY <2>1 DEF EvaluateDuplicateWorker
  <2> QED
    BY <1>1, <2>2 DEF Holds
<1>3. CASE r = "liveWorkers"
  <2>1. Blind(f, r).liveWorkers = Hidden
    BY <1>3, BlindFacts DEF Registries
  <2> QED
    BY <1>1, <2>1, FindingFacts DEF Holds, EvaluateDuplicateWorker, Unobserved
<1> QED
  BY <1>2, <1>3

\* A file is read once.
LEMMA ReadHolds ==
    ASSUME NEW q, NEW f, IsFacts(f), NEW r \in Registries
    PROVE  /\ Holds(EvaluateDuplicateFileRead(q, f), EvaluateDuplicateFileRead(q, Blind(f, r)))
           /\ Routed(EvaluateDuplicateFileRead(q, f))
<1>1. Routed(EvaluateDuplicateFileRead(q, f))
  BY FindingFacts DEF EvaluateDuplicateFileRead, Unobserved, GuardEmittedGates
<1>2. CASE r # "alreadyRead"
  <2>1. Blind(f, r).alreadyRead = f.alreadyRead
    BY <1>2, BlindFacts DEF Registries
  <2>2. EvaluateDuplicateFileRead(q, Blind(f, r)) = EvaluateDuplicateFileRead(q, f)
    BY <2>1 DEF EvaluateDuplicateFileRead
  <2> QED
    BY <1>1, <2>2 DEF Holds
<1>3. CASE r = "alreadyRead"
  <2>1. Blind(f, r).alreadyRead = Hidden
    BY <1>3, BlindFacts DEF Registries
  <2> QED
    BY <1>1, <2>1, FindingFacts DEF Holds, EvaluateDuplicateFileRead, Unobserved
<1> QED
  BY <1>2, <1>3

\* A change package has one writer, who does not review it.
LEMMA WriterHolds ==
    ASSUME NEW q, NEW f, IsFacts(f), NEW r \in Registries
    PROVE  /\ Holds(EvaluateWriterOwnership(q, f), EvaluateWriterOwnership(q, Blind(f, r)))
           /\ Routed(EvaluateWriterOwnership(q, f))
<1>1. Routed(EvaluateWriterOwnership(q, f))
  BY FindingFacts DEF EvaluateWriterOwnership, Unobserved, GuardEmittedGates
<1>2. CASE r # "activeWriters"
  <2>1. Blind(f, r).activeWriters = f.activeWriters
    BY <1>2, BlindFacts DEF Registries
  <2>2. EvaluateWriterOwnership(q, Blind(f, r)) = EvaluateWriterOwnership(q, f)
    BY <2>1 DEF EvaluateWriterOwnership
  <2> QED
    BY <1>1, <2>2 DEF Holds
<1>3. CASE r = "activeWriters"
  <2>1. Blind(f, r).activeWriters = Hidden
    BY <1>3, BlindFacts DEF Registries
  <2> QED
    BY <1>1, <2>1, FindingFacts DEF Holds, EvaluateWriterOwnership, Unobserved
<1> QED
  BY <1>2, <1>3

\* A reviewer looks at a clean worktree.
LEMMA SnapshotHolds ==
    ASSUME NEW q, NEW f, IsFacts(f), NEW r \in Registries
    PROVE  /\ Holds(EvaluateDirtySnapshot(q, f), EvaluateDirtySnapshot(q, Blind(f, r)))
           /\ Routed(EvaluateDirtySnapshot(q, f))
<1>1. Routed(EvaluateDirtySnapshot(q, f))
  BY FindingFacts DEF EvaluateDirtySnapshot, Unobserved, GuardEmittedGates
<1>2. CASE r # "worktrees"
  <2>1. Blind(f, r).worktrees = f.worktrees
    BY <1>2, BlindFacts DEF Registries
  <2>2. EvaluateDirtySnapshot(q, Blind(f, r)) = EvaluateDirtySnapshot(q, f)
    BY <2>1 DEF EvaluateDirtySnapshot
  <2> QED
    BY <1>1, <2>2 DEF Holds
<1>3. CASE r = "worktrees"
  <2>1. Blind(f, r).worktrees = Hidden
    BY <1>3, BlindFacts DEF Registries
  <2> QED
    BY <1>1, <2>1, FindingFacts DEF Holds, EvaluateDirtySnapshot, Unobserved
<1> QED
  BY <1>2, <1>3

\* A branch is checked out once.
LEMMA BranchHolds ==
    ASSUME NEW q, NEW f, IsFacts(f), NEW r \in Registries
    PROVE  /\ Holds(EvaluateBranchWorktreeCollision(q, f), EvaluateBranchWorktreeCollision(q, Blind(f, r)))
           /\ Routed(EvaluateBranchWorktreeCollision(q, f))
<1>1. Routed(EvaluateBranchWorktreeCollision(q, f))
  BY FindingFacts DEF EvaluateBranchWorktreeCollision, Unobserved, GuardEmittedGates
<1>2. CASE r # "worktrees"
  <2>1. Blind(f, r).worktrees = f.worktrees
    BY <1>2, BlindFacts DEF Registries
  <2>2. EvaluateBranchWorktreeCollision(q, Blind(f, r)) = EvaluateBranchWorktreeCollision(q, f)
    BY <2>1 DEF EvaluateBranchWorktreeCollision
  <2> QED
    BY <1>1, <2>2 DEF Holds
<1>3. CASE r = "worktrees"
  <2>1. Blind(f, r).worktrees = Hidden
    BY <1>3, BlindFacts DEF Registries
  <2> QED
    BY <1>1, <2>1, FindingFacts DEF Holds, EvaluateBranchWorktreeCollision, Unobserved
<1> QED
  BY <1>2, <1>3

\* The guardian admits workers.
LEMMA GuardianHolds ==
    ASSUME NEW q, NEW f, IsFacts(f), NEW r \in Registries
    PROVE  /\ Holds(EvaluateGuardianAdmission(q, f), EvaluateGuardianAdmission(q, Blind(f, r)))
           /\ Routed(EvaluateGuardianAdmission(q, f))
<1>1. Routed(EvaluateGuardianAdmission(q, f))
  BY FindingFacts DEF EvaluateGuardianAdmission, Unobserved, GuardEmittedGates
<1>2. CASE r # "guardian"
  <2>1. Blind(f, r).guardian = f.guardian
    BY <1>2, BlindFacts DEF Registries
  <2>2. EvaluateGuardianAdmission(q, Blind(f, r)) = EvaluateGuardianAdmission(q, f)
    BY <2>1 DEF EvaluateGuardianAdmission
  <2> QED
    BY <1>1, <2>2 DEF Holds
<1>3. CASE r = "guardian"
  <2>1. Blind(f, r).guardian = Hidden
    BY <1>3, BlindFacts DEF Registries
  <2> QED
    BY <1>1, <2>1, FindingFacts DEF Holds, EvaluateGuardianAdmission, Unobserved
<1> QED
  BY <1>2, <1>3

\* A review is used for the snapshot it was made of.
LEMMA ReviewHolds ==
    ASSUME NEW q, NEW f, IsFacts(f), NEW r \in Registries
    PROVE  /\ Holds(EvaluateStaleReview(q, f), EvaluateStaleReview(q, Blind(f, r)))
           /\ Routed(EvaluateStaleReview(q, f))
<1>1. Routed(EvaluateStaleReview(q, f))
  BY FindingFacts DEF EvaluateStaleReview, Unobserved, GuardEmittedGates
<1>2. CASE r \notin {"reviews", "currentSnapshot"}
  <2>1. Blind(f, r).reviews = f.reviews /\ Blind(f, r).currentSnapshot = f.currentSnapshot
    BY <1>2, BlindFacts DEF Registries
  <2>2. EvaluateStaleReview(q, Blind(f, r)) = EvaluateStaleReview(q, f)
    BY <2>1 DEF EvaluateStaleReview
  <2> QED
    BY <1>1, <2>2 DEF Holds
<1>3. CASE r = "reviews"
  <2>1. Blind(f, r).reviews = Hidden
    BY <1>3, BlindFacts DEF Registries
  <2> QED
    BY <1>1, <2>1, FindingFacts DEF Holds, EvaluateStaleReview, Unobserved
<1>4. CASE r = "currentSnapshot"
  <2>1. Blind(f, r).currentSnapshot = Hidden /\ Blind(f, r).reviews = f.reviews
    BY <1>4, BlindFacts DEF Registries
  <2>2. \/ EvaluateStaleReview(q, f) = Nothing /\ q.useReviewFrom = Hidden
        \/ EvaluateStaleReview(q, Blind(f, r)) = Finding(Escalate, "snapshot-change")
    BY <2>1 DEF EvaluateStaleReview, Unobserved
  <2>3. CASE EvaluateStaleReview(q, Blind(f, r)) = Finding(Escalate, "snapshot-change")
    BY <1>1, <2>3, FindingFacts DEF Holds
  <2>4. CASE EvaluateStaleReview(q, f) = Nothing /\ q.useReviewFrom = Hidden
    <3>1. EvaluateStaleReview(q, Blind(f, r)) = Nothing
      BY <2>4 DEF EvaluateStaleReview
    <3> QED
      BY <1>1, <2>4, <3>1 DEF Holds
  <2> QED
    BY <2>2, <2>3, <2>4
<1> QED
  BY <1>2, <1>3, <1>4

\* A promotion needs every gate, whatever it is called.  Without a gate report a
\* promotion is escalated; any other action is then asked for less.
LEMMA PromotionHolds ==
    ASSUME NEW q, NEW f, IsFacts(f), NEW r \in Registries
    PROVE  /\ Denies(EvaluatePromotionGate(q, Blind(f, r))) => Denies(EvaluatePromotionGate(q, f))
           /\ r = "gates" /\ q.action \in PromotionActions
                => Stops(EvaluatePromotionGate(q, Blind(f, r)))
           /\ r # "gates" => Holds(EvaluatePromotionGate(q, f), EvaluatePromotionGate(q, Blind(f, r)))
           /\ Routed(EvaluatePromotionGate(q, f))
<1> DEFINE Rest(gates) ==
      IF q.action \notin PromotionActions
      THEN IF \/ CarriesMutationIntent(q)
              \/ gates # Hidden /\ DOMAIN gates # {}
              \/ q.action # Hidden /\ q.action \notin SafeActions
           THEN Finding(Escalate, "main-promotion") ELSE Nothing
      ELSE IF gates = Hidden THEN Finding(Escalate, "main-promotion")
      ELSE RequiredGateFindings(gates)
<1>1. \A g : EvaluatePromotionGate(q, g) = SignalFindings(q) \cup Rest(g.gates)
  BY DEF EvaluatePromotionGate
<1>2. Routed(SignalFindings(q))
  BY FindingFacts, UnionFacts DEF SignalFindings, GuardEmittedGates
<1>3. Routed(RequiredGateFindings(f.gates))
  <2> DEFINE Of(g) == IF g \notin DOMAIN f.gates THEN Finding(Escalate, "main-promotion")
                      ELSE IF f.gates[g] # TRUE THEN Finding(Deny, "main-promotion") ELSE Nothing
  <2>1. \A g : Routed(Of(g))
    BY FindingFacts DEF GuardEmittedGates
  <2> HIDE DEF Of
  <2>2. \A x \in UNION {Of(g) : g \in RequiredGates} : \E g : x \in Of(g)
    OBVIOUS
  <2>3. RequiredGateFindings(f.gates) = UNION {Of(g) : g \in RequiredGates}
    BY DEF RequiredGateFindings, Of
  <2> QED
    BY <2>1, <2>2, <2>3 DEF Routed
<1>4. Routed(Rest(f.gates))
  BY <1>3, FindingFacts DEF GuardEmittedGates
<1>5. ~Denies(Rest(Hidden)) /\ (q.action \in PromotionActions => Stops(Rest(Hidden)))
  BY FindingFacts
<1>6. Blind(f, r).gates = IF r = "gates" THEN Hidden ELSE f.gates
  BY BlindFacts DEF Registries
<1> HIDE DEF Rest
<1>7. Routed(EvaluatePromotionGate(q, f))
  BY <1>1, <1>2, <1>4, UnionFacts
<1>8. CASE r = "gates"
  <2>1. EvaluatePromotionGate(q, Blind(f, r)) = SignalFindings(q) \cup Rest(Hidden)
    BY <1>1, <1>6, <1>8
  <2> QED
    BY <1>1, <1>5, <1>7, <1>8, <2>1, UnionFacts
<1>9. CASE r # "gates"
  <2>1. EvaluatePromotionGate(q, Blind(f, r)) = EvaluatePromotionGate(q, f)
    BY <1>1, <1>6, <1>9
  <2> QED
    BY <1>7, <1>9, <2>1 DEF Holds
<1> QED
  BY <1>8, <1>9

\* Panels left open are an advice.
LEMMA PanelFacts ==
    ASSUME NEW f
    PROVE  /\ ~Denies(EvaluateCompletedPanelCleanup(f)) /\ ~Stops(EvaluateCompletedPanelCleanup(f))
           /\ Routed(EvaluateCompletedPanelCleanup(f))
  BY FindingFacts DEF EvaluateCompletedPanelCleanup

\* The findings of decide() as a whole.
LEMMA FindingsAre ==
    ASSUME NEW q, NEW f
    PROVE  /\ Denies(Findings(q, f)) <=>
                \/ Denies(EvaluateDuplicateWorker(q, f)) \/ Denies(EvaluateDuplicateFileRead(q, f))
                \/ Denies(EvaluateWriterOwnership(q, f)) \/ Denies(EvaluateDirtySnapshot(q, f))
                \/ Denies(EvaluateBranchWorktreeCollision(q, f))
                \/ Denies(EvaluateGuardianAdmission(q, f)) \/ Denies(EvaluateStaleReview(q, f))
                \/ Denies(EvaluatePromotionGate(q, f))
           /\ Stops(Findings(q, f)) <=>
                \/ Stops(EvaluateDuplicateWorker(q, f)) \/ Stops(EvaluateDuplicateFileRead(q, f))
                \/ Stops(EvaluateWriterOwnership(q, f)) \/ Stops(EvaluateDirtySnapshot(q, f))
                \/ Stops(EvaluateBranchWorktreeCollision(q, f))
                \/ Stops(EvaluateGuardianAdmission(q, f)) \/ Stops(EvaluateStaleReview(q, f))
                \/ Stops(EvaluatePromotionGate(q, f))
           /\ Routed(Findings(q, f)) <=>
                /\ Routed(EvaluateDuplicateWorker(q, f)) /\ Routed(EvaluateDuplicateFileRead(q, f))
                /\ Routed(EvaluateWriterOwnership(q, f)) /\ Routed(EvaluateDirtySnapshot(q, f))
                /\ Routed(EvaluateBranchWorktreeCollision(q, f))
                /\ Routed(EvaluateGuardianAdmission(q, f)) /\ Routed(EvaluateStaleReview(q, f))
                /\ Routed(EvaluatePromotionGate(q, f))
<1> DEFINE A == EvaluateDuplicateWorker(q, f) \cup EvaluateDuplicateFileRead(q, f)
           B == A \cup EvaluateWriterOwnership(q, f) \cup EvaluateDirtySnapshot(q, f)
           C == B \cup EvaluateBranchWorktreeCollision(q, f) \cup EvaluateGuardianAdmission(q, f)
           D == C \cup EvaluateStaleReview(q, f) \cup EvaluatePromotionGate(q, f)
<1>1. Findings(q, f) = D \cup EvaluateCompletedPanelCleanup(f)
  BY DEF Findings
<1>2. /\ Denies(A) <=> \/ Denies(EvaluateDuplicateWorker(q, f))
                       \/ Denies(EvaluateDuplicateFileRead(q, f))
      /\ Stops(A) <=> \/ Stops(EvaluateDuplicateWorker(q, f))
                      \/ Stops(EvaluateDuplicateFileRead(q, f))
      /\ Routed(A) <=> /\ Routed(EvaluateDuplicateWorker(q, f))
                       /\ Routed(EvaluateDuplicateFileRead(q, f))
  BY UnionFacts
<1> HIDE DEF A
<1>3. /\ Denies(B) <=> \/ Denies(A) \/ Denies(EvaluateWriterOwnership(q, f))
                       \/ Denies(EvaluateDirtySnapshot(q, f))
      /\ Stops(B) <=> \/ Stops(A) \/ Stops(EvaluateWriterOwnership(q, f))
                      \/ Stops(EvaluateDirtySnapshot(q, f))
      /\ Routed(B) <=> /\ Routed(A) /\ Routed(EvaluateWriterOwnership(q, f))
                       /\ Routed(EvaluateDirtySnapshot(q, f))
  BY UnionFacts
<1> HIDE DEF B
<1>4. /\ Denies(C) <=> \/ Denies(B) \/ Denies(EvaluateBranchWorktreeCollision(q, f))
                       \/ Denies(EvaluateGuardianAdmission(q, f))
      /\ Stops(C) <=> \/ Stops(B) \/ Stops(EvaluateBranchWorktreeCollision(q, f))
                      \/ Stops(EvaluateGuardianAdmission(q, f))
      /\ Routed(C) <=> /\ Routed(B) /\ Routed(EvaluateBranchWorktreeCollision(q, f))
                       /\ Routed(EvaluateGuardianAdmission(q, f))
  BY UnionFacts
<1> HIDE DEF C
<1>5. /\ Denies(D) <=> \/ Denies(C) \/ Denies(EvaluateStaleReview(q, f))
                       \/ Denies(EvaluatePromotionGate(q, f))
      /\ Stops(D) <=> \/ Stops(C) \/ Stops(EvaluateStaleReview(q, f))
                      \/ Stops(EvaluatePromotionGate(q, f))
      /\ Routed(D) <=> /\ Routed(C) /\ Routed(EvaluateStaleReview(q, f))
                       /\ Routed(EvaluatePromotionGate(q, f))
  BY UnionFacts
<1> HIDE DEF D
<1>6. /\ Denies(Findings(q, f)) <=> Denies(D)
      /\ Stops(Findings(q, f)) <=> Stops(D)
      /\ Routed(Findings(q, f)) <=> Routed(D)
  BY <1>1, UnionFacts, PanelFacts
<1> QED
  BY <1>2, <1>3, <1>4, <1>5, <1>6

\* The guard fails closed (decide of token-guard.mjs), for any request and any
\* registries: what cannot be observed never opens a gate and never denies, and an
\* escalation names a gate that exists.
THEOREM GuardClosed == ASSUME NEW q, NEW f, IsFacts(f) PROVE GuardFailsClosed(q, f)
<1>1. ASSUME NEW r \in Registries,
             Decide(q, f) # Pass /\ (r = "gates" => q.action \in PromotionActions)
      PROVE  Decide(q, Blind(f, r)) # Pass
  <2>1. Stops(Findings(q, f))
    BY <1>1, DecideFacts
  <2>2. CASE r = "gates"
    BY <1>1, <2>2, PromotionHolds, FindingsAre, DecideFacts
  <2>3. CASE r # "gates"
    <3>1. Stops(Findings(q, Blind(f, r)))
      BY <2>1, <2>3, FindingsAre, WorkerHolds, ReadHolds, WriterHolds, SnapshotHolds, BranchHolds,
         GuardianHolds, ReviewHolds, PromotionHolds DEF Holds
    <3> QED
      BY <3>1, DecideFacts
  <2> QED
    BY <2>2, <2>3
<1>2. ASSUME NEW r \in Registries, Decide(q, Blind(f, r)) = Deny
      PROVE  Decide(q, f) = Deny
  <2>1. Denies(Findings(q, Blind(f, r)))
    BY <1>2, DecideFacts
  <2>2. Denies(Findings(q, f))
    BY <2>1, FindingsAre, WorkerHolds, ReadHolds, WriterHolds, SnapshotHolds, BranchHolds,
       GuardianHolds, ReviewHolds, PromotionHolds DEF Holds
  <2> QED
    BY <2>2, DecideFacts
<1>3. Routed(Findings(q, f))
  <2>1. "worktrees" \in Registries
    BY DEF Registries
  <2> QED
    BY <2>1, FindingsAre, WorkerHolds, ReadHolds, WriterHolds, SnapshotHolds, BranchHolds,
       GuardianHolds, ReviewHolds, PromotionHolds
<1>4. ASSUME Decide(q, f) = Escalate
      PROVE  EscalationReasons(q, f) # {} /\ EscalationReasons(q, f) \subseteq GuardEmittedGates
  <2>1. \E x \in Findings(q, f) : x.decision = Escalate
    BY <1>4, DecideFacts DEF Stops, Denies
  <2> QED
    BY <1>3, <1>4, <2>1 DEF EscalationReasons, Routed
<1>5. DOMAIN f = Registries
  BY DEF IsFacts
<1>6. \A r \in DOMAIN f :
         /\ Decide(q, f) # Pass /\ (r = "gates" => q.action \in PromotionActions)
              => Decide(q, Blind(f, r)) # Pass
         /\ Decide(q, Blind(f, r)) = Deny => Decide(q, f) = Deny
  BY <1>1, <1>2, <1>5
<1> QED
  BY <1>4, <1>6 DEF GuardFailsClosed

\* With the facts that the production reader has (readFacts), a request passes only
\* if it names nothing that the orchestration layer answers for, and promotes nothing.
THEOREM ReaderClosed == ASSUME NEW q, NEW f PROVE ReaderFailsClosed(q, f)
<1> DEFINE g == ReadFacts(f.worktrees, f.guardian, f.currentSnapshot)
<1>1. /\ g.liveWorkers = Hidden /\ g.alreadyRead = Hidden /\ g.activeWriters = Hidden
      /\ g.reviews = Hidden /\ g.gates = Hidden
  BY DEF ReadFacts
<1> HIDE DEF g
<1> SUFFICES ASSUME Main(q, g) = 0
             PROVE  /\ {q.task, q.read, q.changePackage, q.useReviewFrom} = {Hidden}
                    /\ q.action \notin PromotionActions /\ ~CarriesMutationIntent(q)
  BY DEF ReaderFailsClosed, g
<1>2. ~Stops(Findings(q, g))
  <2>1. Decide(q, g) # Deny /\ Decide(q, g) # Escalate
    BY DEF Main
  <2>2. Decide(q, g) = Pass
    BY <2>1 DEF Decide
  <2> QED
    BY <2>2, DecideFacts
<1>3. q.task = Hidden
  BY <1>1, <1>2, FindingsAre, FindingFacts DEF EvaluateDuplicateWorker, Unobserved
<1>4. q.read = Hidden
  BY <1>1, <1>2, FindingsAre, FindingFacts DEF EvaluateDuplicateFileRead, Unobserved
<1>5. q.changePackage = Hidden
  BY <1>1, <1>2, FindingsAre, FindingFacts DEF EvaluateWriterOwnership, Unobserved
<1>6. q.useReviewFrom = Hidden
  BY <1>1, <1>2, FindingsAre, FindingFacts DEF EvaluateStaleReview, Unobserved
<1>7. q.action \notin PromotionActions /\ ~CarriesMutationIntent(q)
  <2>1. ~Stops(EvaluatePromotionGate(q, g))
    BY <1>2, FindingsAre
  <2> QED
    BY <1>1, <2>1, FindingFacts, UnionFacts DEF EvaluatePromotionGate
<1> QED
  BY <1>3, <1>4, <1>5, <1>6, <1>7

\* The economics of the governor (evaluateGovernorEconomics), for any ledger and any
\* policy: once it is off, spending more never switches it on.
THEOREM GovernorStaysOff ==
    ASSUME Hidden \notin Nat, NEW spent \in Nat,
           NEW ledger \in [invocations : Nat \cup {Hidden}, saved : Int, spent : Int], ledger # Hidden,
           NEW policy \in [minimumInvocations : Nat, minimumNetSaving : Int]
    PROVE  StaysSwitchedOff(ledger, policy, spent)
<1> DEFINE worse == [ledger EXCEPT !.spent = @ + spent,
                                   !.invocations = IF @ = Hidden THEN @ ELSE @ + 1]
<1>1. /\ ledger.invocations \in Nat \cup {Hidden} /\ ledger.saved \in Int /\ ledger.spent \in Int
      /\ policy.minimumInvocations \in Nat /\ policy.minimumNetSaving \in Int
  OBVIOUS
<1>2. worse.saved = ledger.saved /\ worse.spent = ledger.spent + spent
  OBVIOUS
<1>3. worse.invocations = IF ledger.invocations = Hidden THEN Hidden ELSE ledger.invocations + 1
  OBVIOUS
<1> HIDE DEF worse
<1>4. AutoInvocationEnabled(worse, policy) => AutoInvocationEnabled(ledger, policy)
  <2>1. CASE ledger.invocations = Hidden
    BY <1>3, <2>1 DEF AutoInvocationEnabled
  <2>2. CASE ledger.invocations # Hidden
    <3>1. ledger.invocations \in Nat /\ worse.invocations = ledger.invocations + 1
      BY <1>1, <1>3, <2>2
    <3> QED
      BY <1>1, <1>2, <2>2, <3>1 DEF AutoInvocationEnabled
  <2> QED
    BY <2>1, <2>2
<1>5. EconomicsCommand(ledger, policy) # 0 => EconomicsCommand(worse, policy) # 0
  BY <1>4 DEF EconomicsCommand
<1> QED
  BY <1>5 DEF StaysSwitchedOff, worse

-----------------------------------------------------------------------------
(* The run records.                                                        *)

Clean(r)   == ~NonTeam(r) /\ ~HiddenHelp(r) /\ EvidenceMatches(r)
Counts(r)  == Clean(r) /\ ~(Len(r.helpEvents) > 0) /\ r.outcome = "completed"

WellFormed(files) == files # <<>> /\ \A i \in DOMAIN files : DecideRecord(files[i]).wellFormed
AcceptedOf(files) == {i \in DOMAIN files : DecideRecord(files[i]).disposition = "accepted"}
TeamsOf(files)    == {DecideRecord(files[i]).teamId : i \in AcceptedOf(files)}

\* What becomes of one well-formed file.
LEMMA RecordFacts ==
    ASSUME NEW file, DecideRecord(file).wellFormed,
           file.readable => Len(file.record.helpEvents) \in Nat
    PROVE  /\ DecideRecord(file).teamId = file.record.teamId
           /\ DecideRecord(file).disposition = "accepted" <=> Counts(file.record)
           /\ file.record.outcome = "void" <=> ~Clean(file.record)
<1> DEFINE r == file.record
<1>1. file.readable /\ ValidateShape(r) /\ r.evidence.readable
  BY DEF DecideRecord, Refuse
<1>2. CASE r.outcome = "void"
  <2>1. DecideRecord(file) = DecideVoid(r)
    BY <1>1, <1>2 DEF DecideRecord
  <2>2. Shown(r)
    BY <2>1 DEF DecideVoid, Refuse
  <2>3. DecideRecord(file) = Disposed(r, "void")
    BY <2>1, <2>2 DEF DecideVoid
  <2>4. ~Clean(r)
    BY <2>2 DEF Shown, Clean
  <2> QED
    BY <1>2, <2>3, <2>4 DEF Disposed, Counts
<1>3. CASE r.outcome # "void"
  <2>1. DecideRecord(file) = DecideClaim(r)
    BY <1>1, <1>3 DEF DecideRecord
  <2>2. Clean(r)
    BY <2>1 DEF DecideClaim, Refuse, Clean
  <2>3. DecideRecord(file) =
          Disposed(r, IF r.outcome = "abandoned" THEN "not-accepted:abandoned"
                      ELSE IF r.ownerHelpCount = 0 THEN "accepted" ELSE "observed:owner-help")
    BY <2>1, <2>2 DEF DecideClaim, Clean
  <2>4. r.outcome \in {"completed", "abandoned"}
    BY <1>1, <1>3 DEF ValidateShape
  <2>5. r.ownerHelpCount = Len(r.helpEvents) /\ Len(r.helpEvents) \in Nat
    BY <1>1, <2>2 DEF Clean, HiddenHelp, HelpCodes
  <2> QED
    BY <1>3, <2>2, <2>3, <2>4, <2>5 DEF Disposed, Counts
<1> QED
  BY <1>2, <1>3

\* The whole call, in these terms.
LEMMA DeriveIs ==
    ASSUME NEW files
    PROVE  Derive(files) =
             IF WellFormed(files)
             THEN [exit            |-> 0,
                   acceptedRecords |-> Cardinality(AcceptedOf(files)),
                   teams           |-> Cardinality(TeamsOf(files))]
             ELSE [exit |-> 1, acceptedRecords |-> 0, teams |-> 0]
<1> DEFINE decided == [i \in DOMAIN files |-> DecideRecord(files[i])]
<1>1. \A i \in DOMAIN files : decided[i] = DecideRecord(files[i])
  OBVIOUS
<1>2. {i \in DOMAIN files : decided[i].disposition = "accepted"} = AcceptedOf(files)
  BY DEF AcceptedOf
<1>3. {decided[i].teamId : i \in AcceptedOf(files)} = TeamsOf(files)
  BY DEF AcceptedOf, TeamsOf
<1>4. WellFormed(files) <=> ~(files = <<>> \/ \E i \in DOMAIN files : ~decided[i].wellFormed)
  BY DEF WellFormed
<1> HIDE DEF decided
<1> QED
  BY <1>2, <1>3, <1>4 DEF Derive, decided

\* A list has as many accepted records as places at most, and no more teams.
LEMMA CountFacts ==
    ASSUME NEW S, NEW files \in Seq(S)
    PROVE  /\ IsFiniteSet(AcceptedOf(files))
           /\ Cardinality(AcceptedOf(files)) <= Len(files)
           /\ Cardinality(TeamsOf(files)) <= Cardinality(AcceptedOf(files))
<1>1. AcceptedOf(files) \in SUBSET (1 .. Len(files)) /\ Len(files) \in Nat
  BY DEF AcceptedOf
<1>2. IsFiniteSet(1 .. Len(files)) /\ Cardinality(1 .. Len(files)) = Len(files)
  <2>1. Len(files) \in Int /\ 1 \in Int
    BY <1>1
  <2>2. /\ IsFiniteSet(1 .. Len(files))
        /\ Cardinality(1 .. Len(files)) = IF 1 > Len(files) THEN 0 ELSE Len(files) - 1 + 1
    BY <2>1, FS_Interval, Zenon
  <2> QED
    BY <1>1, <2>2
<1>3. IsFiniteSet(AcceptedOf(files)) /\ Cardinality(AcceptedOf(files)) <= Len(files)
  BY <1>1, <1>2, FS_Subset
<1> DEFINE team == [i \in AcceptedOf(files) |-> DecideRecord(files[i]).teamId]
<1>4. team \in Surjection(AcceptedOf(files), TeamsOf(files))
  <2>1. team \in [AcceptedOf(files) -> TeamsOf(files)]
    BY DEF TeamsOf
  <2>2. \A t \in TeamsOf(files) : \E i \in AcceptedOf(files) : team[i] = t
    BY DEF TeamsOf
  <2> QED
    BY <2>1, <2>2 DEF Surjection
<1>5. Cardinality(TeamsOf(files)) <= Cardinality(AcceptedOf(files))
  BY <1>3, <1>4, FS_Surjection
<1> QED
  BY <1>3, <1>5

\* The order of the files does not matter.
LEMMA ReversedCounts ==
    ASSUME NEW S, NEW files \in Seq(S)
    PROVE  Derive([i \in DOMAIN files |-> files[Len(files) + 1 - i]]) = Derive(files)
<1> DEFINE n == Len(files)
           back == [i \in DOMAIN files |-> files[n + 1 - i]]
<1>1. /\ n \in Nat /\ DOMAIN files = 1 .. n /\ DOMAIN back = 1 .. n
      /\ files = <<>> <=> n = 0
  OBVIOUS
<1>2. \A i \in 1 .. n : /\ n + 1 - i \in 1 .. n /\ n + 1 - (n + 1 - i) = i
                        /\ back[i] = files[n + 1 - i] /\ back[n + 1 - i] = files[i]
  BY <1>1
<1>3. back = <<>> <=> files = <<>>
  <2>1. CASE n = 0
    BY <1>1, <2>1
  <2>2. CASE n # 0
    <3>1. 1 \in DOMAIN back
      BY <1>1, <2>2
    <3>2. back # <<>>
      BY <3>1
    <3> QED
      BY <1>1, <2>2, <3>2
  <2> QED
    BY <2>1, <2>2
<1> HIDE DEF back, n
<1>4. WellFormed(back) <=> WellFormed(files)
  BY <1>1, <1>2, <1>3 DEF WellFormed
<1>5. \A i \in 1 .. n : n + 1 - i \in AcceptedOf(back) <=> i \in AcceptedOf(files)
  BY <1>1, <1>2 DEF AcceptedOf
<1>6. AcceptedOf(files) \subseteq 1 .. n /\ AcceptedOf(back) \subseteq 1 .. n
  BY <1>1 DEF AcceptedOf
<1> DEFINE swap == [i \in AcceptedOf(files) |-> n + 1 - i]
<1>7. swap \in Bijection(AcceptedOf(files), AcceptedOf(back))
  <2>1. swap \in [AcceptedOf(files) -> AcceptedOf(back)]
    BY <1>5, <1>6
  <2>2. \A i, j \in AcceptedOf(files) : swap[i] = swap[j] => i = j
    BY <1>1, <1>6
  <2>3. \A j \in AcceptedOf(back) : \E i \in AcceptedOf(files) : swap[i] = j
    <3> SUFFICES ASSUME NEW j \in AcceptedOf(back) PROVE \E i \in AcceptedOf(files) : swap[i] = j
      OBVIOUS
    <3>1. n + 1 - j \in 1 .. n /\ n + 1 - (n + 1 - j) = j
      BY <1>2, <1>6
    <3>2. n + 1 - j \in AcceptedOf(files)
      BY <1>5, <3>1
    <3> QED
      BY <3>1, <3>2
  <2>4. DOMAIN swap = AcceptedOf(files)
    OBVIOUS
  <2> HIDE DEF swap
  <2>5. IsInjective(swap)
    BY <2>2, <2>4 DEF IsInjective
  <2> QED
    BY <2>1, <2>3, <2>5 DEF Bijection, Injection, Surjection
<1>8. Cardinality(AcceptedOf(back)) = Cardinality(AcceptedOf(files))
  <2>1. ExistsBijection(AcceptedOf(files), AcceptedOf(back))
    BY <1>7 DEF ExistsBijection
  <2> QED
    BY <2>1, CountFacts, FS_Bijection
<1>9. TeamsOf(back) = TeamsOf(files)
  <2>1. ASSUME NEW i \in AcceptedOf(files)
        PROVE  \E j \in AcceptedOf(back) : DecideRecord(back[j]).teamId = DecideRecord(files[i]).teamId
    BY <1>2, <1>5, <1>6
  <2>2. ASSUME NEW j \in AcceptedOf(back)
        PROVE  \E i \in AcceptedOf(files) : DecideRecord(files[i]).teamId = DecideRecord(back[j]).teamId
    <3>1. n + 1 - j \in 1 .. n /\ n + 1 - (n + 1 - j) = j /\ back[j] = files[n + 1 - j]
      BY <1>2, <1>6
    <3>2. n + 1 - j \in AcceptedOf(files)
      BY <1>5, <3>1
    <3> QED
      BY <3>1, <3>2
  <2> QED
    BY <2>1, <2>2 DEF TeamsOf
<1>10. Derive(back) = Derive(files)
  BY <1>4, <1>8, <1>9, DeriveIs
<1> QED
  BY <1>10 DEF back, n

\* A well-formed file given twice counts no team more.
LEMMA RepeatedCounts ==
    ASSUME NEW S, NEW files \in Seq(S), WellFormed(files), NEW i \in DOMAIN files
    PROVE  /\ Derive(<<files[i]>> \o files).exit = 0
           /\ Derive(<<files[i]>> \o files).teams = Derive(files).teams
<1> DEFINE more == <<files[i]>> \o files
<1>1. /\ Len(files) \in Nat /\ DOMAIN files = 1 .. Len(files)
      /\ DOMAIN more = 1 .. (Len(files) + 1)
      /\ more[1] = files[i]
      /\ \A k \in 1 .. Len(files) : more[k + 1] = files[k]
  OBVIOUS
<1>2. more # <<>>
  BY <1>1
<1> HIDE DEF more
<1>3. \A k \in DOMAIN more : \E j \in DOMAIN files : more[k] = files[j]
  <2> SUFFICES ASSUME NEW k \in 1 .. (Len(files) + 1)
               PROVE  \E j \in DOMAIN files : more[k] = files[j]
    BY <1>1
  <2>1. CASE k = 1
    BY <1>1, <2>1
  <2>2. CASE k # 1
    <3>1. k - 1 \in 1 .. Len(files) /\ (k - 1) + 1 = k
      BY <1>1, <2>2
    <3> QED
      BY <1>1, <3>1
  <2> QED
    BY <2>1, <2>2
<1>4. \A j \in DOMAIN files : \E k \in DOMAIN more : more[k] = files[j]
  BY <1>1
<1>5. WellFormed(more)
  BY <1>2, <1>3 DEF WellFormed
<1>6. TeamsOf(more) = TeamsOf(files)
  BY <1>3, <1>4 DEF TeamsOf, AcceptedOf
<1>7. Derive(more).exit = 0 /\ Derive(more).teams = Derive(files).teams
  BY <1>5, <1>6, DeriveIs
<1> QED
  BY <1>7 DEF more

\* The run record checker counts each team once, for its clean completed runs only,
\* in whatever order and how often the files are given, for any list of files.
THEOREM TeamsOnce ==
    ASSUME NEW S, NEW files \in Seq(S),
           \A i \in DOMAIN files : files[i].readable => Len(files[i].record.helpEvents) \in Nat
    PROVE  TeamsCountOnce(files)
<1> SUFFICES ASSUME Derive(files).exit = 0
             PROVE  /\ Derive(files).teams = Cardinality({files[i].record.teamId : i \in
                         {j \in DOMAIN files : Counts(files[j].record)}})
                    /\ Derive(files).teams <= Derive(files).acceptedRecords
                    /\ Derive(files).acceptedRecords <= Len(files)
                    /\ \A i \in DOMAIN files :
                         (files[i].record.outcome = "void") <=> ~Clean(files[i].record)
                    /\ \A i \in DOMAIN files :
                         /\ Derive(<<files[i]>> \o files).exit = 0
                         /\ Derive(<<files[i]>> \o files).teams = Derive(files).teams
                    /\ Derive([i \in DOMAIN files |-> files[Len(files) + 1 - i]]) = Derive(files)
  BY DEF TeamsCountOnce, Counts, Clean
<1>1. WellFormed(files)
  BY DeriveIs
<1>2. \A i \in DOMAIN files :
         /\ DecideRecord(files[i]).teamId = files[i].record.teamId
         /\ DecideRecord(files[i]).disposition = "accepted" <=> Counts(files[i].record)
         /\ files[i].record.outcome = "void" <=> ~Clean(files[i].record)
  BY <1>1, RecordFacts DEF WellFormed
<1>3. TeamsOf(files) = {files[i].record.teamId : i \in
                          {j \in DOMAIN files : Counts(files[j].record)}}
  BY <1>2 DEF TeamsOf, AcceptedOf
<1>4. /\ Derive(files).teams = Cardinality(TeamsOf(files))
      /\ Derive(files).acceptedRecords = Cardinality(AcceptedOf(files))
  BY <1>1, DeriveIs
<1>5. \A i \in DOMAIN files : /\ Derive(<<files[i]>> \o files).exit = 0
                              /\ Derive(<<files[i]>> \o files).teams = Derive(files).teams
  BY <1>1, RepeatedCounts
<1> QED
  BY <1>2, <1>3, <1>4, <1>5, CountFacts, ReversedCounts

-----------------------------------------------------------------------------
(* The calendar.                                                           *)

\* The parts of the count of days: where a year starts in its four centuries and a
\* month in its year (months and years count from March), and the way back.
YearStart(y)     == 365 * y + y \div 4 - y \div 100
YearOfEra(doe)   == (doe - doe \div 1460 + doe \div 36524 - doe \div 146096) \div 365
MonthStart(m)    == (153 * m + 2) \div 5
MarchMonth(k)    == (5 * k + 2) \div 153
CivilMonth(m)    == IF m < 10 THEN m + 3 ELSE m - 9
LengthOf(m)      == MonthStart(m + 1) - MonthStart(m)

\* The year from March to March that has a leap day at its end.
LongYear(y) == ((y + 1) % 4 = 0 /\ (y + 1) % 100 # 0) \/ (y + 1) % 400 = 0

\* Day r of era e, from 0 on.
EraDay(e, r) == 146097 * e + r

\* Division by the length of an era gives back the era and the day in it.
LEMMA EraFacts ==
    ASSUME NEW e \in Int, NEW r \in Int, 0 <= r, r < 146097
    PROVE  EraDay(e, r) \div 146097 = e /\ EraDay(e, r) % 146097 = r
  BY DEF EraDay

\* A count of days splits the same way.
LEMMA DaySplit ==
    ASSUME NEW days \in Int
    PROVE  /\ days \div 146097 \in Int /\ days % 146097 \in Int
           /\ 0 <= days % 146097 /\ days % 146097 < 146097
  OBVIOUS

\* A year splits into an era of four centuries and a year in it.
LEMMA YearSplit ==
    ASSUME NEW y \in Int
    PROVE  /\ y \div 400 \in Int /\ y % 400 \in Int /\ 0 <= y % 400 /\ y % 400 < 400
           /\ y = 400 * (y \div 400) + (y % 400)
  OBVIOUS

\* The days before a year, era by era.
LEMMA YearDays ==
    ASSUME NEW y \in Int, NEW k \in Int
    PROVE  365 * y + y \div 4 - y \div 100 + y \div 400 + k = EraDay(y \div 400, YearStart(y % 400) + k)
  BY DEF YearStart, EraDay

\* Any of the first 365 days of a year tells its year.
LEMMA OrdinaryDay ==
    ASSUME NEW y \in Int, 0 <= y, y < 400, NEW k \in Int, 0 <= k, k < 365
    PROVE  /\ YearOfEra(YearStart(y) + k) = y
           /\ 0 <= YearStart(y) + k /\ YearStart(y) + k < 146097
  BY DEF YearOfEra, YearStart

\* So does the leap day.
LEMMA LeapDay ==
    ASSUME NEW y \in Int, 0 <= y, y < 400, LongYear(y)
    PROVE  /\ YearOfEra(YearStart(y) + 365) = y
           /\ 0 <= YearStart(y) + 365 /\ YearStart(y) + 365 < 146097
  BY DEF YearOfEra, YearStart, LongYear

\* Every day of an era is a day of some year, the last one of a long year at most.
LEMMA DayOfEra ==
    ASSUME NEW doe \in Int, 0 <= doe, doe < 146097
    PROVE  /\ YearOfEra(doe) \in Int /\ YearStart(YearOfEra(doe)) \in Int
           /\ 0 <= YearOfEra(doe) /\ YearOfEra(doe) < 400
           /\ 0 <= doe - YearStart(YearOfEra(doe)) /\ doe - YearStart(YearOfEra(doe)) <= 365
           /\ doe - YearStart(YearOfEra(doe)) = 365 => LongYear(YearOfEra(doe))
  BY DEF YearOfEra, YearStart, LongYear

\* The table of months and the months counted from March agree, February apart.
LEMMA MonthFacts ==
    ASSUME NEW month \in 1 .. 12
    PROVE  /\ (month + 9) % 12 \in 0 .. 11
           /\ CivilMonth((month + 9) % 12) = month
           /\ month = 2 <=> (month + 9) % 12 = 11
           /\ MonthLengths[month] = IF month = 2 THEN 28 ELSE LengthOf((month + 9) % 12)
  BY DEF MonthStart, MonthLengths, CivilMonth, LengthOf

\* The month counted from March is one of twelve, and counts back.
LEMMA CivilFacts ==
    ASSUME NEW m \in 0 .. 11
    PROVE  /\ CivilMonth(m) \in 1 .. 12 /\ (CivilMonth(m) + 9) % 12 = m
  BY DEF CivilMonth

\* A day of a month tells its month; only a 29 February is day 365.
LEMMA DayOfMonth ==
    ASSUME NEW m \in 0 .. 11, NEW day \in Int, 1 <= day, day <= LengthOf(m), m = 11 => day <= 29,
           NEW k, k = MonthStart(m) + day - 1
    PROVE  /\ k \in Int /\ 0 <= k /\ k <= 365 /\ (k = 365 => m = 11 /\ day = 29)
           /\ MarchMonth(k) = m /\ k - MonthStart(m) + 1 = day
  BY DEF MonthStart, MarchMonth, LengthOf

\* Every day of a year is a day of some month.
LEMMA DayOfYear ==
    ASSUME NEW k \in Int, 0 <= k, k <= 365
    PROVE  /\ MarchMonth(k) \in 0 .. 11
           /\ k - MonthStart(MarchMonth(k)) + 1 \in Int
           /\ 1 <= k - MonthStart(MarchMonth(k)) + 1
           /\ k - MonthStart(MarchMonth(k)) + 1 <= LengthOf(MarchMonth(k))
           /\ MarchMonth(k) = 11 =>
                /\ k - MonthStart(MarchMonth(k)) + 1 <= 29
                /\ k - MonthStart(MarchMonth(k)) + 1 = 29 => k = 365
  BY DEF MonthStart, MarchMonth, LengthOf

\* A civil year with a leap day ends the long year that began the March before.
LEMMA LeapFacts ==
    ASSUME NEW y \in Int
    PROVE  IsLeapYear(y + 1) <=> LongYear(y % 400)
  BY DEF IsLeapYear, LongYear

\* The way back, in these parts.
CivilOf(e, doe) ==
    LET y == YearOfEra(doe)
        k == doe - YearStart(y)
        m == MarchMonth(k)
    IN  <<e * 400 + y + (IF CivilMonth(m) <= 2 THEN 1 ELSE 0), CivilMonth(m), k - MonthStart(m) + 1>>

\* Which is what CivilFromDays does.
LEMMA CivilIs ==
    ASSUME NEW days
    PROVE  CivilFromDays(days) = CivilOf(days \div 146097, days % 146097)
  BY DEF CivilFromDays, CivilOf, YearStart, YearOfEra, MonthStart, MarchMonth, CivilMonth

\* Counting the days of a day that exists and back is no change.
LEMMA RealDayReturns ==
    ASSUME NEW year \in Int, NEW month \in 1 .. 12, NEW day \in Int,
           1 <= day, day <= LengthOfMonth(year, month)
    PROVE  CivilFromDays(DaysFromCivil(year, month, day)) = <<year, month, day>>
<1>1. PICK y \in Int : y = IF month <= 2 THEN year - 1 ELSE year
  OBVIOUS
<1>2. PICK m \in 0 .. 11 :
         m = (month + 9) % 12 /\ CivilMonth(m) = month /\ (month = 2 <=> m = 11)
  BY MonthFacts
<1>3. day <= LengthOf(m) /\ (m = 11 => day <= 29) /\ (m = 11 /\ day = 29 => IsLeapYear(year))
  <2>1. LengthOf(11) = 30
    BY DEF LengthOf, MonthStart
  <2>2. MonthLengths[month] = IF month = 2 THEN 28 ELSE LengthOf(m)
    BY <1>2, MonthFacts
  <2> QED
    BY <1>2, <2>1, <2>2 DEF LengthOfMonth
<1>4. PICK k : k = MonthStart(m) + day - 1
  OBVIOUS
<1>5. /\ k \in Int /\ 0 <= k /\ k <= 365 /\ (k = 365 => m = 11 /\ day = 29)
      /\ MarchMonth(k) = m /\ k - MonthStart(m) + 1 = day
  BY <1>3, <1>4, DayOfMonth
<1>6. PICK e \in Int, c \in Int :
         e = y \div 400 /\ c = y % 400 /\ 0 <= c /\ c < 400 /\ y = 400 * e + c
  BY YearSplit
<1>7. k = 365 => LongYear(c)
  <2>1. month = 2 => year = y + 1
    BY <1>1
  <2> QED
    BY <1>2, <1>3, <1>5, <1>6, <2>1, LeapFacts
<1>8. PICK r \in Int : r = YearStart(c) + k
  BY <1>5, <1>6 DEF YearStart
<1>9. DaysFromCivil(year, month, day) = EraDay(e, r)
  <2>1. k = MonthStart((month + 9) % 12) + day - 1
    BY <1>2, <1>4
  <2>2. DaysFromCivil(year, month, day) = 365 * y + y \div 4 - y \div 100 + y \div 400 + k
    BY <1>1, <2>1 DEF DaysFromCivil, MonthStart
  <2>3. DaysFromCivil(year, month, day) = EraDay(y \div 400, YearStart(y % 400) + k)
    BY <1>1, <1>5, <2>2, YearDays
  <2> QED
    BY <1>6, <1>8, <2>3
<1>10. YearOfEra(r) = c /\ 0 <= r /\ r < 146097 /\ k = r - YearStart(c)
  <2>1. YearStart(c) \in Int
    BY <1>6 DEF YearStart
  <2>2. CASE k < 365
    BY <1>5, <1>6, <1>8, <2>1, <2>2, OrdinaryDay
  <2>3. CASE k = 365
    BY <1>6, <1>7, <1>8, <2>1, <2>3, LeapDay
  <2> QED
    BY <1>5, <2>2, <2>3
<1>11. EraDay(e, r) \div 146097 = e /\ EraDay(e, r) % 146097 = r
  BY <1>10, EraFacts
<1>12. CivilFromDays(EraDay(e, r)) =
         <<e * 400 + c + (IF month <= 2 THEN 1 ELSE 0), month, day>>
  <2>1. CivilFromDays(EraDay(e, r)) = CivilOf(e, r)
    BY <1>11, CivilIs
  <2> QED
    BY <1>2, <1>5, <1>10, <2>1 DEF CivilOf
<1>13. e * 400 + c + (IF month <= 2 THEN 1 ELSE 0) = year
  BY <1>1, <1>6
<1> QED
  BY <1>9, <1>12, <1>13

\* Counting back gives a day that exists, whatever the count.
LEMMA OnlyRealDays ==
    ASSUME NEW days \in Int
    PROVE  \E year \in Int, month \in 1 .. 12, day \in Int :
              /\ CivilFromDays(days) = <<year, month, day>>
              /\ 1 <= day /\ day <= LengthOfMonth(year, month)
<1> DEFINE e == days \div 146097
           doe == days % 146097
           y == YearOfEra(doe)
           k == doe - YearStart(y)
           m == MarchMonth(k)
           month == CivilMonth(m)
           day == k - MonthStart(m) + 1
           year == e * 400 + y + (IF month <= 2 THEN 1 ELSE 0)
<1>1. e \in Int /\ doe \in Int /\ 0 <= doe /\ doe < 146097
  BY DaySplit
<1>2. CivilFromDays(days) = <<year, month, day>>
  BY CivilIs DEF CivilOf
<1> HIDE DEF e, doe
<1>3. /\ y \in Int /\ 0 <= y /\ y < 400 /\ k \in Int /\ 0 <= k /\ k <= 365
      /\ k = 365 => LongYear(y)
  BY <1>1, DayOfEra
<1> HIDE DEF y, k
<1>4. /\ m \in 0 .. 11 /\ day \in Int /\ 1 <= day /\ day <= LengthOf(m)
      /\ m = 11 => day <= 29 /\ (day = 29 => k = 365)
  BY <1>3, DayOfYear
<1> HIDE DEF m, day
<1>5. month \in 1 .. 12 /\ (month + 9) % 12 = m
  BY <1>4, CivilFacts
<1> HIDE DEF month
<1>6. year \in Int
  BY <1>1, <1>3
<1>7. month = 2 /\ LongYear(y) => IsLeapYear(year)
  <2>1. (400 * e + y) % 400 = y
    BY <1>1, <1>3
  <2>2. month = 2 => year = (400 * e + y) + 1
    BY <1>1, <1>3
  <2> QED
    BY <1>1, <1>3, <2>1, <2>2, LeapFacts
<1> HIDE DEF year
<1>8. day <= LengthOfMonth(year, month)
  <2>1. MonthLengths[month] = IF month = 2 THEN 28 ELSE LengthOf(m)
    BY <1>5, MonthFacts
  <2>2. month = 2 <=> m = 11
    BY <1>5, MonthFacts
  <2> QED
    BY <1>3, <1>4, <1>7, <2>1, <2>2 DEF LengthOfMonth
<1> QED
  BY <1>2, <1>4, <1>5, <1>6, <1>8

\* namesARealInstant, timestampValue and committedAtValue accept a day exactly when
\* the calendar has it: of any year, no day is lost and none is rolled over.
THEOREM InstantsReal == ASSUME NEW year \in Int PROVE InstantsAreReal(year)
<1>1. ASSUME NEW month \in 1 .. 12, NEW day \in Int
      PROVE  NamesARealDay(year, month, day) <=>
               year >= 1 /\ CivilFromDays(DaysFromCivil(year, month, day)) = <<year, month, day>>
  <2>1. NamesARealDay(year, month, day) <=>
          year >= 1 /\ 1 <= day /\ day <= LengthOfMonth(year, month)
    BY DEF NamesARealDay
  <2>2. 1 <= day /\ day <= LengthOfMonth(year, month) =>
          CivilFromDays(DaysFromCivil(year, month, day)) = <<year, month, day>>
    BY RealDayReturns
  <2>3. DaysFromCivil(year, month, day) \in Int
    BY DEF DaysFromCivil
  <2>4. CivilFromDays(DaysFromCivil(year, month, day)) = <<year, month, day>> =>
          1 <= day /\ day <= LengthOfMonth(year, month)
    BY <2>3, OnlyRealDays
  <2> QED
    BY <2>1, <2>2, <2>4
<1>2. \A month \in {0, 13, 99}, day \in {1, 28} : ~NamesARealDay(year, month, day)
  BY DEF NamesARealDay
<1>3. \A day \in 0 .. 32 : day \in Int
  OBVIOUS
<1> QED
  BY <1>1, <1>2, <1>3 DEF InstantsAreReal

-----------------------------------------------------------------------------
(* The kernel's values and ports.                                          *)

Births == {"genuine", "hollow", "dressed", "derived"}

\* A value of a class, built by its constructor or not.  A Principal that was holds
\* what the constructor accepts.
IsValue(v) ==
    /\ v # Null /\ v.born \in Births
    /\ v.class = "Principal" /\ v.born = "genuine" =>
         \E t, c : PrincipalAccepts(t, c) /\ v = NewPrincipal(t, c)

Composite == {"Command", "Query", "KernelError", "Result"}

\* What a constructor built passes the brand check, and nothing else does.
LEMMA GenuineIs ==
    ASSUME NEW v, NEW class, v # Null, v.born \in Births
    PROVE  Genuine(v, class) <=> v.class = class /\ v.born = "genuine"
  BY DEF Genuine, IsExactly, CarriesBrand, Births

\* equals of an identity value is true of one value only.
LEMMA IdentityFacts ==
    ASSUME NEW a, NEW b, NEW class
    PROVE  /\ IdentityEquals(a, b, class) = "true" <=>
                Genuine(a, class) /\ Genuine(b, class) /\ a = b
           /\ IdentityEquals(a, b, class) \in {"true", "false", "throws"}
  BY DEF IdentityEquals, Genuine, Answer

\* So is equals of what is compared by its rendering.
LEMMA RenderingFacts ==
    ASSUME NEW a, NEW b, NEW class
    PROVE  RenderingEquals(a, b, class) = "true" <=>
             Genuine(a, class) /\ Genuine(b, class) /\ Renders(a) /\ Renders(b) /\ a = b
  BY DEF RenderingEquals, Answer

\* Two Principals are equal when both their parts are.
LEMMA PrincipalFacts ==
    ASSUME NEW a, NEW b
    PROVE  PrincipalEquals(a, b) = "true" <=>
             /\ Genuine(a, "Principal") /\ Genuine(b, "Principal")
             /\ IdentityEquals(a.tenantId, b.tenantId, "TenantId") = "true"
             /\ IdentityEquals(a.actorId, b.actorId, "ActorId") = "true"
  BY IdentityFacts DEF PrincipalEquals, Genuine

\* A Principal's parts are what it was built with.
LEMMA PrincipalParts ==
    ASSUME NEW a, IsValue(a), Genuine(a, "Principal")
    PROVE  /\ IsExactly(a.tenantId, "TenantId") /\ IsExactly(a.actorId, "ActorId")
           /\ a = NewPrincipal(a.tenantId, a.actorId)
<1>1. a.class = "Principal" /\ a.born = "genuine"
  BY GenuineIs DEF IsValue
<1>2. PICK t, c : PrincipalAccepts(t, c) /\ a = NewPrincipal(t, c)
  BY <1>1 DEF IsValue
<1>3. a.tenantId = t /\ a.actorId = c
  BY <1>2 DEF NewPrincipal
<1> QED
  BY <1>2, <1>3 DEF PrincipalAccepts

\* When equals says true.
LEMMA EqualsIs ==
    ASSUME NEW a, NEW b, IsValue(a), IsValue(b), Equals(a, b) = "true"
    PROVE  /\ Genuine(a, a.class) /\ Genuine(b, a.class) /\ a = b
           /\ Equals(b, a) = "true"
<1>1. CASE a.class \in Composite
  BY <1>1, RenderingFacts DEF Equals, Composite
<1>2. CASE a.class = "Principal"
  <2>1. PrincipalEquals(a, b) = "true"
    BY <1>2 DEF Equals
  <2>2. /\ Genuine(a, "Principal") /\ Genuine(b, "Principal")
        /\ a.tenantId = b.tenantId /\ a.actorId = b.actorId
    BY <2>1, PrincipalFacts, IdentityFacts
  <2>3. a = b
    BY <2>2, PrincipalParts
  <2> QED
    BY <1>2, <2>1, <2>2, <2>3 DEF Equals
<1>3. CASE a.class \notin Composite \cup {"Principal"}
  BY <1>3, IdentityFacts DEF Equals, Composite
<1> QED
  BY <1>1, <1>2, <1>3

\* equals (identity-primitives.mjs, action-primitives.mjs) is an equality: symmetric,
\* true only of one genuine value, and reflexive on those that render, a Principal
\* around an impostor excepted.
THEOREM EqualsSound ==
    ASSUME NEW a, NEW b, IsValue(a), IsValue(b)
    PROVE  EqualsIsEquality(a, b)
<1>1. Equals(a, b) = "true" =>
         /\ a.class = b.class /\ a.born = "genuine" /\ b.born = "genuine" /\ a = b
         /\ Equals(b, a) = "true"
  BY EqualsIs, GenuineIs DEF IsValue
<1>2. Equals(b, a) = "true" => Equals(a, b) = "true"
  BY EqualsIs
<1>3. ASSUME a.born = "genuine", Renders(a)
      PROVE  \/ Equals(a, a) = "true"
             \/ a.class = "Principal" /\ "genuine" \notin {a.tenantId.born} \cap {a.actorId.born}
  <2>1. Genuine(a, a.class)
    BY <1>3, GenuineIs DEF IsValue
  <2>2. CASE a.class \in Composite
    BY <1>3, <2>1, <2>2, RenderingFacts DEF Equals, Composite
  <2>3. ASSUME a.class = "Principal", "genuine" \in {a.tenantId.born} \cap {a.actorId.born}
        PROVE  Equals(a, a) = "true"
    <3>1. IsExactly(a.tenantId, "TenantId") /\ IsExactly(a.actorId, "ActorId")
      BY <2>1, <2>3, PrincipalParts
    <3>2. Genuine(a.tenantId, "TenantId") /\ Genuine(a.actorId, "ActorId")
      BY <2>3, <3>1 DEF Genuine, IsExactly, CarriesBrand
    <3> QED
      BY <2>1, <2>3, <3>2, PrincipalFacts, IdentityFacts DEF Equals
  <2>4. CASE a.class \notin Composite \cup {"Principal"}
    BY <2>1, <2>4, IdentityFacts DEF Equals, Composite
  <2> QED
    BY <2>2, <2>3, <2>4
<1> QED
  BY <1>1, <1>2, <1>3 DEF EqualsIsEquality

\* A port calls its collaborator for what it admits, and resolves with the very
\* answer when it accepts that.
LEMMA ForwardFacts ==
    ASSUME NEW admitted \in BOOLEAN, NEW accepted \in BOOLEAN, NEW settled,
           settled.throws \in BOOLEAN
    PROVE  LET o == Forward(admitted, accepted, settled) IN
           /\ o.called <=> admitted
           /\ ~o.rejects <=> admitted /\ accepted /\ ~settled.throws
           /\ ~o.rejects => o.with = settled.value
           /\ o.rejects => o.with = Refusal \/ (o.called /\ settled.throws)
  BY DEF Forward

\* The ports (identity.mjs, clock.mjs, policy.mjs, use-case.mjs, decision-log-port.mjs)
\* hand on genuine values only, whatever they are given and whatever their
\* collaborator answers.
THEOREM PortsAreGenuine ==
    ASSUME NEW port, port.is \in {"UseCase", "Policy", "DecisionLogPort", "Identity", "Clock"},
           port.is = "UseCase" => DeclarationOf(port),
           NEW v, v # Null => v.born \in Births,
           NEW settled, settled.throws \in BOOLEAN
    PROVE  PortHandsOnGenuine(port, v, settled)
<1> DEFINE o == Port(port, v, settled)
<1>1. CASE port.is = "UseCase"
  <2>1. o = Forward(UseCaseAdmits(port, v), IsResult(settled.value), settled)
    BY <1>1 DEF Port, Execute
  <2>2. /\ UseCaseAdmits(port, v) \in BOOLEAN /\ IsResult(settled.value) \in BOOLEAN
    BY DEF UseCaseAdmits, IsResult, Genuine, IsExactly, CarriesBrand
  <2>3. IsResult(settled.value) => settled.value.born = "genuine" /\ settled.value.class = "Result"
    BY DEF IsResult, Genuine, IsExactly, CarriesBrand
  <2>4. UseCaseAdmits(port, v) =>
          /\ v.born \in {"genuine", "dressed"}
          /\ v.class = (IF port.kind = "command" THEN "Command" ELSE "Query")
          /\ v.name = port.name /\ v.version = port.version /\ v.version >= 1
    BY <1>1 DEF UseCaseAdmits, IsExactly, Births, DeclarationOf, ActionVersion
  <2> HIDE DEF o
  <2> QED
    BY <1>1, <2>1, <2>2, <2>3, <2>4, ForwardFacts DEF PortHandsOnGenuine, o
<1>2. CASE port.is = "Policy"
  <2>1. o = Forward(IsGenuineAction(v), IsResult(settled.value), settled)
    BY <1>2 DEF Port, Consult
  <2>2. /\ IsGenuineAction(v) \in BOOLEAN /\ IsResult(settled.value) \in BOOLEAN
        /\ IsGenuineAction(v) => v.born = "genuine"
        /\ IsResult(settled.value) => settled.value.born = "genuine" /\ settled.value.class = "Result"
    BY DEF IsGenuineAction, IsResult, Genuine, IsExactly, CarriesBrand
  <2> HIDE DEF o
  <2> QED
    BY <1>2, <2>1, <2>2, ForwardFacts DEF PortHandsOnGenuine, o
<1>3. CASE port.is = "DecisionLogPort"
  <2>1. o = Forward(Genuine(v, "DecisionLogEntry"), TRUE, settled)
    BY <1>3 DEF Port, AppendEntry
  <2>2. /\ Genuine(v, "DecisionLogEntry") \in BOOLEAN
        /\ Genuine(v, "DecisionLogEntry") => v.born = "genuine"
    BY DEF Genuine, IsExactly, CarriesBrand
  <2> HIDE DEF o
  <2>3. /\ o.called => v.born = "genuine"
        /\ ~o.rejects => o.called /\ o.with = settled.value
        /\ o.rejects => o.with = Refusal \/ (o.called /\ settled.throws)
    BY <2>1, <2>2 DEF Forward
  <2> QED
    BY <1>3, <2>3 DEF PortHandsOnGenuine, o
<1>4. CASE port.is \in {"Identity", "Clock"}
  <2>1. PICK class \in {"Principal", "Instant"} :
          o = Forward(TRUE, Genuine(settled.value, class), settled)
    BY <1>4 DEF Port, Current, Now
  <2>2. /\ Genuine(settled.value, class) \in BOOLEAN
        /\ Genuine(settled.value, class) => settled.value.born = "genuine" /\ settled.value.class = class
    BY DEF Genuine, IsExactly, CarriesBrand
  <2> HIDE DEF o
  <2>3. /\ ~o.rejects => /\ o.called /\ o.with = settled.value
                         /\ o.with.born = "genuine" /\ o.with.class = class
        /\ o.rejects => o.with = Refusal \/ (o.called /\ settled.throws)
    BY <2>1, <2>2 DEF Forward
  <2> QED
    BY <1>4, <2>3 DEF PortHandsOnGenuine, o
<1> QED
  BY <1>1, <1>2, <1>3, <1>4

\* The errors from e to the last cause.
IsChainOf(chain, e) ==
    /\ Len(chain) >= 1 /\ chain[1] = e /\ chain[Len(chain)].cause = Null
    /\ \A i \in 1 .. Len(chain) : chain[i] # Null
    /\ \A i \in 1 .. Len(chain) - 1 : chain[i].cause = chain[i + 1]

\* The chain of a KernelError is the error and the chain of its cause.
ChainOf(e, above) == <<e>> \o above

\* A KernelError that its constructor accepts ends a chain one longer than that of its
\* cause, as long as its depth says and never longer than MAX_CAUSE_DEPTH.
THEOREM ChainsAreBounded ==
    ASSUME NEW o, KernelErrorAccepts(o), NewKernelError(o) # Null,
           NEW S, NEW above \in Seq(S),
           IF o.cause = Null THEN above = <<>>
           ELSE IsChainOf(above, o.cause) /\ Len(above) = o.cause.depth
    PROVE  /\ IsChainOf(ChainOf(NewKernelError(o), above), NewKernelError(o))
           /\ Len(ChainOf(NewKernelError(o), above)) = NewKernelError(o).depth
           /\ NewKernelError(o).depth <= MaxCauseDepth
<1>1. PICK e : e = NewKernelError(o)
  OBVIOUS
<1>2. PICK chain : chain = ChainOf(e, above)
  OBVIOUS
<1>3. /\ e # Null /\ e.cause = o.cause
      /\ e.depth = IF o.cause = Null THEN 1 ELSE o.cause.depth + 1
  BY <1>1 DEF NewKernelError
<1>4. o.cause # Null => o.cause.depth < MaxCauseDepth
  BY DEF KernelErrorAccepts
<1>5. /\ Len(chain) = Len(above) + 1 /\ chain[1] = e /\ Len(above) \in Nat
      /\ \A i \in 1 .. Len(above) : chain[i + 1] = above[i]
  BY <1>2 DEF ChainOf
<1>6. Len(chain) = e.depth /\ e.depth <= MaxCauseDepth
  <2>1. CASE o.cause = Null
    BY <2>1, <1>3, <1>5, MaxCauseDepthAssumption
  <2>2. CASE o.cause # Null
    BY <2>2, <1>3, <1>4, <1>5, MaxCauseDepthAssumption
  <2> QED
    BY <2>1, <2>2
<1>7. IsChainOf(chain, e)
  <2>1. CASE o.cause = Null
    <3>1. Len(chain) = 1
      BY <2>1, <1>5
    <3> QED
      BY <2>1, <3>1, <1>3, <1>5 DEF IsChainOf
  <2>2. CASE o.cause # Null
    <3>1. IsChainOf(above, o.cause)
      BY <2>2
    <3>2. \A i \in 2 .. Len(chain) : i - 1 \in 1 .. Len(above) /\ chain[i] = above[i - 1]
      <4> SUFFICES ASSUME NEW i \in 2 .. Len(chain)
                   PROVE  i - 1 \in 1 .. Len(above) /\ chain[i] = above[i - 1]
        OBVIOUS
      <4>1. i - 1 \in 1 .. Len(above) /\ (i - 1) + 1 = i
        BY <1>5
      <4> QED
        BY <4>1, <1>5
    <3>3. \A i \in 1 .. Len(chain) : chain[i] # Null
      <4> SUFFICES ASSUME NEW i \in 1 .. Len(chain) PROVE chain[i] # Null
        OBVIOUS
      <4>1. CASE i = 1
        BY <4>1, <1>3, <1>5
      <4>2. CASE i # 1
        <5>1. i \in 2 .. Len(chain)
          BY <4>2, <1>5
        <5> QED
          BY <5>1, <3>1, <3>2 DEF IsChainOf
      <4> QED
        BY <4>1, <4>2
    <3>4. \A i \in 1 .. Len(chain) - 1 : chain[i].cause = chain[i + 1]
      <4> SUFFICES ASSUME NEW i \in 1 .. Len(above) PROVE chain[i].cause = above[i]
        BY <1>5
      <4>1. CASE i = 1
        BY <4>1, <3>1, <1>3, <1>5 DEF IsChainOf
      <4>2. CASE i # 1
        <5>1. i \in 2 .. Len(chain) /\ i - 1 \in 1 .. Len(above) - 1 /\ (i - 1) + 1 = i
          BY <4>2, <1>5
        <5> QED
          BY <5>1, <3>1, <3>2 DEF IsChainOf
      <4> QED
        BY <4>1, <4>2
    <3>5. chain[Len(chain)].cause = Null
      <4>1. Len(above) >= 1 /\ above[Len(above)].cause = Null
        BY <3>1 DEF IsChainOf
      <4> QED
        BY <4>1, <1>5
    <3> QED
      BY <3>3, <3>4, <3>5, <1>5 DEF IsChainOf
  <2> QED
    BY <2>1, <2>2
<1> QED
  BY <1>1, <1>2, <1>6, <1>7

-----------------------------------------------------------------------------
(* The composition factories.                                              *)

\* The first part is the option gate: what it admits no later part refuses, the
\* parts in the set spared excepted.
GateDecides(parts, spared) ==
    parts[1].accepts => \A i \in DOMAIN parts \ spared : parts[i].accepts

\* A construction of n parts stops at its gate, with nothing made, or goes through.
StopsAtGate(c, parts, n) ==
    /\ c.refused => c.made = 0 /\ c.pools = 0
    /\ ~c.refused => parts[1].accepts /\ c.pools = Cardinality({i \in 1 .. n : parts[i].pool})

\* So does every construction whose gate decides.
LEMMA GateStops ==
    ASSUME NEW factory, NEW o, NEW c, c = Construct(factory, o),
           NEW parts, parts = PartsOf(factory, o),
           NEW n \in Nat \ {0}, DOMAIN parts = 1 .. n, GateDecides(parts, {})
    PROVE  StopsAtGate(c, parts, n)
<1>1. PICK done : done = {i \in DOMAIN parts : \A j \in 1 .. i : parts[j].accepts}
  OBVIOUS
<1>2. PICK r, m, p : r = (done # DOMAIN parts) /\ m = Cardinality(done)
                      /\ p = Cardinality({i \in done : parts[i].pool})
  OBVIOUS
<1>3. /\ c.refused = (done # DOMAIN parts)
      /\ c.made = Cardinality(done)
      /\ c.pools = Cardinality({i \in done : parts[i].pool})
  <2>1. c = [refused |-> r, made |-> m, pools |-> p]
    BY <1>1, <1>2, Zenon DEF Construct
  <2>2. c.refused = r /\ c.made = m /\ c.pools = p
    BY <2>1
  <2> QED
    BY <2>2, <1>2, Zenon
<1>4. DOMAIN parts = 1 .. n /\ GateDecides(parts, {}) /\ 1 \in 1 .. n
  OBVIOUS
<1>5. parts[1].accepts => done = DOMAIN parts
  BY <1>1, <1>4 DEF GateDecides
<1>6. ~parts[1].accepts => done = {}
  BY <1>1, <1>4
<1>7. ~parts[1].accepts => {i \in done : parts[i].pool} = {}
  BY <1>6
<1>8. Cardinality({}) = 0
  BY FS_EmptySet
<1> QED
  BY <1>3, <1>4, <1>5, <1>6, <1>7, <1>8 DEF StopsAtGate

\* An option object of exactly as many members as a set of keys it has has these.
LEMMA ExactMembers ==
    ASSUME NEW o, IsFiniteSet(DOMAIN o.members), NEW keys,
           keys \subseteq DOMAIN o.members, Cardinality(DOMAIN o.members) = Cardinality(keys)
    PROVE  DOMAIN o.members = keys
  BY FS_Subset, Zenon

\* A factory that calls another puts a part, its gate, before the other's parts.
IsPrefixed(parts, p, inner) ==
    /\ DOMAIN parts = 1 .. Len(inner) + 1 /\ parts[1] = p
    /\ \A i \in 1 .. Len(inner) : parts[i + 1] = inner[i]

\* What the concatenation gives.
LEMMA Prefixed ==
    ASSUME NEW p, NEW S, NEW inner \in Seq(S), NEW parts, parts = <<p>> \o inner
    PROVE  IsPrefixed(parts, p, inner)
  BY DEF IsPrefixed

\* What a part is.
LEMMA PartIs ==
    ASSUME NEW b
    PROVE  Part(b).accepts = b /\ ~Part(b).pool
  BY DEF Part

\* The parts of the plain composition: the gate decides, none creates a pool.
LEMMA PlainFacts ==
    ASSUME NEW o
    PROVE  /\ DOMAIN PlainParts(o) = 1 .. 5 /\ Len(PlainParts(o)) = 5
           /\ PlainParts(o) \in Seq({PlainParts(o)[i] : i \in 1 .. 5})
           /\ PlainParts(o)[1] = Part(CheckPlain(o))
           /\ GateDecides(PlainParts(o), {})
<1>1. /\ DOMAIN PlainParts(o) = 1 .. 5 /\ Len(PlainParts(o)) = 5
      /\ PlainParts(o) \in Seq({PlainParts(o)[i] : i \in 1 .. 5})
      /\ PlainParts(o)[1] = Part(CheckPlain(o))
      /\ PlainParts(o)[2] = Part(Is(o, "current", "function"))
      /\ PlainParts(o)[3] = Part(Is(o, "candidatesFor", "function"))
      /\ PlainParts(o)[4] = Part(Is(o, "evaluateInvariants", "function"))
      /\ PlainParts(o)[5] = Part(Is(o, "connectionString", "text"))
  BY DEF PlainParts
<1>2. CheckPlain(o) =>
        /\ Is(o, "current", "function") /\ Is(o, "candidatesFor", "function")
        /\ Is(o, "evaluateInvariants", "function") /\ Is(o, "connectionString", "text")
  BY DEF CheckPlain, AreFunctions, PlainKeys
<1>3. GateDecides(PlainParts(o), {})
  BY <1>1, <1>2, PartIs DEF GateDecides
<1> QED
  BY <1>1, <1>3

\* The parts of the audited composition: the gate decides, the fourth creates the
\* pool of the log.
LEMMA AuditedFacts ==
    ASSUME NEW o
    PROVE  /\ DOMAIN AuditedParts(o) = 1 .. 7 /\ Len(AuditedParts(o)) = 7
           /\ AuditedParts(o) \in Seq({AuditedParts(o)[i] : i \in 1 .. 7})
           /\ AuditedParts(o)[1] = Part(CheckAudited(o))
           /\ GateDecides(AuditedParts(o), {})
           /\ \A i \in 1 .. 7 : AuditedParts(o)[i].pool <=> i = 4
<1>1. /\ DOMAIN AuditedParts(o) = 1 .. 7 /\ Len(AuditedParts(o)) = 7
      /\ AuditedParts(o) \in Seq({AuditedParts(o)[i] : i \in 1 .. 7})
      /\ AuditedParts(o)[1] = Part(CheckAudited(o))
      /\ AuditedParts(o)[2] = Part(Is(o, "current", "function"))
      /\ AuditedParts(o)[3] = Part(Is(o, "now", "function"))
      /\ AuditedParts(o)[4] = LogAdapter(o)
      /\ AuditedParts(o)[5] = Part(AreFunctions(o, {"candidatesFor", "idGenerator"}))
      /\ AuditedParts(o)[6] = Part(Is(o, "evaluateInvariants", "function"))
      /\ AuditedParts(o)[7] = Part(Is(o, "connectionString", "text"))
  BY DEF AuditedParts
<1>2. CheckAudited(o) =>
        /\ Is(o, "current", "function") /\ Is(o, "now", "function")
        /\ AreFunctions(o, {"candidatesFor", "idGenerator"})
        /\ Is(o, "evaluateInvariants", "function") /\ Is(o, "connectionString", "text")
  BY DEF CheckAudited, AreFunctions, AuditedKeys, PlainKeys
<1>3. LogAdapter(o).accepts = Is(o, "connectionString", "text") /\ LogAdapter(o).pool
  BY DEF LogAdapter
<1>4. GateDecides(AuditedParts(o), {})
  BY <1>1, <1>2, <1>3, PartIs DEF GateDecides
<1>5. \A i \in 1 .. 7 : AuditedParts(o)[i].pool <=> i = 4
  BY <1>1, <1>3, PartIs
<1> QED
  BY <1>1, <1>4, <1>5

\* What the outer factories hand on passes the inner gate when it passed the outer.
LEMMA RebuiltPasses ==
    ASSUME NEW o
    PROVE  /\ CheckAsgi(o) => CheckPlain(Rebuilt(o, PlainKeys))
           /\ CheckAuditedAsgi(o) => CheckAudited(Rebuilt(o, AuditedKeys))
<1>1. ASSUME NEW keys, keys \subseteq DOMAIN o.members
      PROVE  /\ Rebuilt(o, keys).ordinary /\ DOMAIN Rebuilt(o, keys).members = keys
             /\ \A k \in keys : Rebuilt(o, keys).members[k].how = "data"
                                /\ Rebuilt(o, keys).members[k].type = o.members[k].type
  BY <1>1 DEF Rebuilt
<1>2. ASSUME CheckAsgi(o) PROVE CheckPlain(Rebuilt(o, PlainKeys))
  <2>1. PlainKeys \subseteq DOMAIN o.members
    BY <1>2 DEF CheckAsgi
  <2> QED
    BY <1>1, <1>2, <2>1 DEF CheckAsgi, CheckPlain, Is, AreFunctions, PlainKeys
<1>3. ASSUME CheckAuditedAsgi(o) PROVE CheckAudited(Rebuilt(o, AuditedKeys))
  <2>1. AuditedKeys \subseteq DOMAIN o.members
    BY <1>3 DEF CheckAuditedAsgi, PlainData
  <2>2. PICK r : r = Rebuilt(o, AuditedKeys)
    OBVIOUS
  <2>3. /\ r.ordinary /\ DOMAIN r.members = AuditedKeys
        /\ \A k \in AuditedKeys : r.members[k].how = "data" /\ r.members[k].type = o.members[k].type
    BY <1>1, <2>1, <2>2
  <2>4. PlainData(r, AuditedKeys) /\ Cardinality(DOMAIN r.members) = Cardinality(AuditedKeys)
    BY <2>3 DEF PlainData
  <2>5. \A type : \A k \in AuditedKeys : Is(o, k, type) => Is(r, k, type)
    BY <2>3 DEF Is
  <2>6. Is(o, "connectionString", "text") /\ AreFunctions(o, AuditedKeys \ {"connectionString"})
    BY <1>3 DEF CheckAuditedAsgi
  <2>7. "connectionString" \in AuditedKeys
    BY DEF AuditedKeys, PlainKeys
  <2>8. Is(r, "connectionString", "text") /\ AreFunctions(r, AuditedKeys \ {"connectionString"})
    BY <2>5, <2>6, <2>7 DEF AreFunctions
  <2> QED
    BY <2>2, <2>3, <2>4, <2>8 DEF CheckAudited
<1> QED
  BY <1>2, <1>3

\* The audited gates admit own data properties only.
LEMMA OnlyData ==
    ASSUME NEW o, IsFiniteSet(DOMAIN o.members), CheckAudited(o) \/ CheckAuditedAsgi(o)
    PROVE  \A k \in DOMAIN o.members : o.members[k].how = "data"
<1>1. PICK keys : /\ Cardinality(DOMAIN o.members) = Cardinality(keys)
                  /\ PlainData(o, keys)
  BY DEF CheckAudited, CheckAuditedAsgi
<1>2. keys \subseteq DOMAIN o.members
  BY <1>1 DEF PlainData
<1>3. DOMAIN o.members = keys
  BY <1>1, <1>2, ExactMembers
<1> QED
  BY <1>1, <1>3 DEF PlainData

\* The log composition: its gate decides but for the statements, which the second
\* part reads before the fourth creates the pool.
LEMMA LogFacts ==
    ASSUME NEW o
    PROVE  /\ DOMAIN LogParts(o) = 1 .. 5
           /\ LogParts(o)[1].accepts = CheckLog(o)
           /\ GateDecides(LogParts(o), {2})
           /\ \A i \in 1 .. 5 : LogParts(o)[i].pool <=> i = 4
<1>1. /\ DOMAIN LogParts(o) = 1 .. 5
      /\ LogParts(o)[1] = Part(CheckLog(o))
      /\ LogParts(o)[2] = Part(Is(o, "statements", "statements"))
      /\ LogParts(o)[3] = Part(Is(o, "now", "function"))
      /\ LogParts(o)[4] = LogAdapter(o)
      /\ LogParts(o)[5] = Part(Is(o, "idGenerator", "function"))
  BY DEF LogParts
<1>2. CheckLog(o) => /\ Is(o, "now", "function") /\ Is(o, "idGenerator", "function")
                     /\ Is(o, "connectionString", "text")
  BY DEF CheckLog, AreFunctions
<1>3. LogAdapter(o).accepts = Is(o, "connectionString", "text") /\ LogAdapter(o).pool
  BY DEF LogAdapter
<1>4. GateDecides(LogParts(o), {2})
  BY <1>1, <1>2, <1>3, PartIs DEF GateDecides
<1>5. \A i \in 1 .. 5 : LogParts(o)[i].pool <=> i = 4
  BY <1>1, <1>3, PartIs
<1> QED
  BY <1>1, <1>4, <1>5, PartIs

\* One pool is created where one part creates it.
LEMMA OnePool ==
    ASSUME NEW parts, NEW n \in Nat, NEW k \in 1 .. n, \A i \in 1 .. n : parts[i].pool <=> i = k
    PROVE  Cardinality({i \in 1 .. n : parts[i].pool}) = 1
<1>1. {i \in 1 .. n : parts[i].pool} = {k}
  OBVIOUS
<1> QED
  BY <1>1, FS_Singleton

\* A composition factory (create-customer-composition, create-customer-asgi-composition,
\* policy-decision-log-composition) that refuses, whatever its options, leaves no
\* pool; what its gate admits it builds, but for the statements of the log; and the
\* audited and the log factories admit plain data properties only.
THEOREM RefusalsAreClean ==
    ASSUME NEW factory \in {"plain", "asgi", "audited", "auditedAsgi", "log"},
           NEW o, IsFiniteSet(DOMAIN o.members)
    PROVE  RefusalLeavesNothing(factory, o)
<1>1. PICK c : c = Construct(factory, o)
  OBVIOUS
<1>2. PICK parts : parts = PartsOf(factory, o)
  OBVIOUS
<1>3. CASE factory = "plain"
  <2>1. parts = PlainParts(o)
    BY <1>2, <1>3 DEF PartsOf
  <2>2. DOMAIN parts = 1 .. 5 /\ GateDecides(parts, {}) /\ 5 \in Nat \ {0}
    <3>1. DOMAIN parts = 1 .. 5 /\ GateDecides(parts, {})
      BY <2>1, PlainFacts, Zenon
    <3> QED
      BY <3>1
  <2>3. c.refused => c.made = 0 /\ c.pools = 0
    <3>1. StopsAtGate(c, parts, 5)
      BY <1>1, <1>2, <2>2, GateStops, Zenon
    <3> QED
      BY <3>1 DEF StopsAtGate
  <2> QED
    BY <1>1, <1>3, <2>3 DEF RefusalLeavesNothing
<1>4. CASE factory = "asgi"
  <2>1. PICK r : r = Rebuilt(o, PlainKeys)
    OBVIOUS
  <2>2. parts = <<Part(CheckAsgi(o))>> \o PlainParts(r)
    BY <1>2, <1>4, <2>1 DEF PartsOf
  <2>3. /\ DOMAIN parts = 1 .. 6 /\ parts[1] = Part(CheckAsgi(o))
        /\ \A i \in 1 .. 5 : parts[i + 1] = PlainParts(r)[i]
    <3>1. PICK S, inner : inner \in Seq(S) /\ inner = PlainParts(r) /\ Len(inner) = 5
      BY PlainFacts
    <3>2. PICK p : p = Part(CheckAsgi(o)) /\ parts = <<p>> \o inner
      BY <2>2, <3>1
    <3>3. IsPrefixed(parts, p, inner)
      <4>1. inner \in Seq(S) /\ parts = <<p>> \o inner
        BY <3>1, <3>2
      <4> QED
        BY <4>1, Prefixed, Zenon
    <3>4. Len(inner) + 1 = 6
      BY <3>1
    <3> QED
      BY <3>1, <3>2, <3>3, <3>4 DEF IsPrefixed
  <2>4. GateDecides(parts, {})
    <3> SUFFICES ASSUME parts[1].accepts, NEW i \in 1 .. 6 PROVE parts[i].accepts
      BY <2>3 DEF GateDecides
    <3>1. CASE i = 1
      BY <3>1
    <3>2. CASE i # 1
      <4>1. i - 1 \in 1 .. 5 /\ (i - 1) + 1 = i
        BY <3>2
      <4>2. CheckPlain(r)
        BY <2>1, <2>3, RebuiltPasses, PartIs
      <4>3. PlainParts(r)[i - 1].accepts
        BY <4>1, <4>2, PlainFacts, PartIs DEF GateDecides
      <4> QED
        BY <2>3, <4>1, <4>3
    <3> QED
      BY <3>1, <3>2
  <2>5. c.refused => c.made = 0 /\ c.pools = 0
    <3>1. DOMAIN parts = 1 .. 6 /\ 6 \in Nat \ {0}
      BY <2>3
    <3> QED
      BY <1>1, <1>2, <2>4, <3>1, GateStops, Zenon DEF StopsAtGate
  <2> QED
    BY <1>1, <1>4, <2>5 DEF RefusalLeavesNothing
<1>5. CASE factory = "audited"
  <2>1. parts = AuditedParts(o)
    BY <1>2, <1>5 DEF PartsOf
  <2>2. /\ c.refused => c.made = 0 /\ c.pools = 0
        /\ ~c.refused => parts[1].accepts /\ c.pools = Cardinality({i \in 1 .. 7 : parts[i].pool})
    <3>1. DOMAIN parts = 1 .. 7 /\ GateDecides(parts, {})
      BY <2>1, AuditedFacts, Zenon
    <3>2. 7 \in Nat \ {0}
      OBVIOUS
    <3>3. StopsAtGate(c, parts, 7)
      BY <1>1, <1>2, <3>1, <3>2, GateStops, Zenon
    <3> QED
      BY <3>3, Zenon DEF StopsAtGate
  <2>3. Cardinality({i \in 1 .. 7 : parts[i].pool}) = 1
    <3>1. \A i \in 1 .. 7 : parts[i].pool <=> i = 4
      BY <2>1, AuditedFacts, Zenon
    <3>2. 4 \in 1 .. 7 /\ 7 \in Nat
      OBVIOUS
    <3> QED
      BY <3>1, <3>2, OnePool, Zenon
  <2>4. ~c.refused => CheckAudited(o)
    <3>1. parts[1].accepts = CheckAudited(o)
      BY <2>1, AuditedFacts, PartIs
    <3> QED
      BY <2>2, <3>1
  <2>5. ~c.refused => \A k \in DOMAIN o.members : o.members[k].how = "data"
    BY <2>4, OnlyData
  <2> QED
    BY <1>1, <1>5, <2>2, <2>3, <2>5 DEF RefusalLeavesNothing
<1>6. CASE factory = "auditedAsgi"
  <2>1. PICK r : r = Rebuilt(o, AuditedKeys)
    OBVIOUS
  <2>2. parts = <<Part(CheckAuditedAsgi(o))>> \o AuditedParts(r)
    BY <1>2, <1>6, <2>1 DEF PartsOf
  <2>3. /\ DOMAIN parts = 1 .. 8 /\ parts[1] = Part(CheckAuditedAsgi(o))
        /\ \A i \in 1 .. 7 : parts[i + 1] = AuditedParts(r)[i]
    <3>1. PICK S, inner : inner \in Seq(S) /\ inner = AuditedParts(r) /\ Len(inner) = 7
      BY AuditedFacts
    <3>2. PICK p : p = Part(CheckAuditedAsgi(o)) /\ parts = <<p>> \o inner
      BY <2>2, <3>1
    <3>3. IsPrefixed(parts, p, inner)
      <4>1. inner \in Seq(S) /\ parts = <<p>> \o inner
        BY <3>1, <3>2
      <4> QED
        BY <4>1, Prefixed, Zenon
    <3>4. Len(inner) + 1 = 8
      BY <3>1
    <3> QED
      BY <3>1, <3>2, <3>3, <3>4 DEF IsPrefixed
  <2>4. \A i \in 1 .. 8 : i # 1 => i - 1 \in 1 .. 7 /\ parts[i] = AuditedParts(r)[i - 1]
    <3> SUFFICES ASSUME NEW i \in 1 .. 8, i # 1
                 PROVE  i - 1 \in 1 .. 7 /\ parts[i] = AuditedParts(r)[i - 1]
      OBVIOUS
    <3>1. i - 1 \in 1 .. 7 /\ (i - 1) + 1 = i
      OBVIOUS
    <3> QED
      BY <2>3, <3>1
  <2>5. GateDecides(parts, {})
    <3> SUFFICES ASSUME parts[1].accepts, NEW i \in 1 .. 8 PROVE parts[i].accepts
      BY <2>3 DEF GateDecides
    <3>1. CASE i = 1
      BY <3>1
    <3>2. CASE i # 1
      <4>1. CheckAudited(r)
        BY <2>1, <2>3, RebuiltPasses, PartIs
      <4>2. AuditedParts(r)[i - 1].accepts
        BY <2>4, <3>2, <4>1, AuditedFacts, PartIs DEF GateDecides
      <4> QED
        BY <2>4, <3>2, <4>2
    <3> QED
      BY <3>1, <3>2
  <2>6. \A i \in 1 .. 8 : parts[i].pool <=> i = 5
    <3> SUFFICES ASSUME NEW i \in 1 .. 8 PROVE parts[i].pool <=> i = 5
      OBVIOUS
    <3>1. CASE i = 1
      BY <2>3, <3>1, PartIs
    <3>2. CASE i # 1
      <4>1. i - 1 \in 1 .. 7 /\ parts[i] = AuditedParts(r)[i - 1] /\ (i - 1 = 4 <=> i = 5)
        BY <2>4, <3>2
      <4>2. AuditedParts(r)[i - 1].pool <=> i - 1 = 4
        BY <4>1, AuditedFacts
      <4> QED
        BY <4>1, <4>2
    <3> QED
      BY <3>1, <3>2
  <2>7. /\ c.refused => c.made = 0 /\ c.pools = 0
        /\ ~c.refused => parts[1].accepts /\ c.pools = Cardinality({i \in 1 .. 8 : parts[i].pool})
    <3>1. DOMAIN parts = 1 .. 8 /\ 8 \in Nat \ {0}
      BY <2>3
    <3>2. StopsAtGate(c, parts, 8)
      BY <1>1, <1>2, <2>5, <3>1, GateStops, Zenon
    <3> QED
      BY <3>2, Zenon DEF StopsAtGate
  <2>8. Cardinality({i \in 1 .. 8 : parts[i].pool}) = 1
    BY <2>6, OnePool
  <2>9. ~c.refused => \A k \in DOMAIN o.members : o.members[k].how = "data"
    BY <2>3, <2>7, OnlyData, PartIs
  <2> QED
    BY <1>1, <1>6, <2>7, <2>8, <2>9 DEF RefusalLeavesNothing
<1>7. CASE factory = "log"
  <2>1. PICK done : done = {i \in DOMAIN parts : \A j \in 1 .. i : parts[j].accepts}
    OBVIOUS
  <2>2. PICK q, m, p : q = (done # DOMAIN parts) /\ m = Cardinality(done)
                       /\ p = Cardinality({i \in done : parts[i].pool})
    OBVIOUS
  <2>3. c = [refused |-> q, made |-> m, pools |-> p]
    BY <1>1, <1>2, <2>1, <2>2, Zenon DEF Construct
  <2>4. c.refused = q /\ c.made = m /\ c.pools = p
    BY <2>3
  <2>5. /\ DOMAIN parts = 1 .. 5 /\ parts[1].accepts = CheckLog(o)
        /\ GateDecides(parts, {2})
        /\ \A i \in 1 .. 5 : parts[i].pool <=> i = 4
    BY <1>2, <1>7, LogFacts DEF PartsOf
  <2>6. CASE ~parts[1].accepts
    <3>1. done = {}
      BY <2>1, <2>5, <2>6
    <3>2. {i \in done : parts[i].pool} = {}
      BY <3>1
    <3>3. m = 0 /\ p = 0
      BY <2>2, <3>1, <3>2, FS_EmptySet
    <3>4. q = TRUE
      <4>1. done # DOMAIN parts
        BY <2>5, <3>1
      <4> QED
        BY <2>2, <4>1, Zenon
    <3>5. c.refused /\ c.made = 0 /\ c.pools = 0
      BY <2>4, <3>3, <3>4
    <3> QED
      BY <1>1, <1>7, <3>5 DEF RefusalLeavesNothing
  <2>7. CASE parts[1].accepts /\ ~parts[2].accepts
    <3>1. done = {1}
      BY <2>1, <2>5, <2>7
    <3>2. {i \in done : parts[i].pool} = {}
      BY <2>5, <3>1
    <3>3. m = 1 /\ p = 0
      BY <2>2, <3>1, <3>2, FS_EmptySet, FS_Singleton
    <3>4. q = TRUE
      <4>1. done # DOMAIN parts
        BY <2>5, <3>1
      <4> QED
        BY <2>2, <4>1, Zenon
    <3>5. c.refused /\ c.made = 1 /\ c.pools = 0
      BY <2>4, <3>3, <3>4
    <3> QED
      BY <1>1, <1>7, <3>5 DEF RefusalLeavesNothing
  <2>8. CASE parts[1].accepts /\ parts[2].accepts
    <3>1. done = 1 .. 5
      BY <2>1, <2>5, <2>8 DEF GateDecides
    <3>2. ~q
      BY <2>2, <2>5, <3>1
    <3>3. Cardinality({i \in 1 .. 5 : parts[i].pool}) = 1
      BY <2>5, OnePool
    <3>4. p = 1
      BY <2>2, <3>1, <3>3
    <3>5. DOMAIN o.members = LogKeys /\ PlainData(o, LogKeys)
      BY <2>5, <2>8 DEF CheckLog
    <3> QED
      BY <1>1, <1>7, <2>4, <3>2, <3>4, <3>5 DEF RefusalLeavesNothing, PlainData
  <2> QED
    BY <2>6, <2>7, <2>8
<1> QED
  BY <1>3, <1>4, <1>5, <1>6, <1>7
=============================================================================
