---------------------------- MODULE Distribution ----------------------------
(***************************************************************************)
(* The way of an action contract to a consumer: ActionContract, the        *)
(* rendering of a payload (tools/generate-*.mjs), the materializer that    *)
(* writes it into a directory, the diagnose.mjs that travels with it, and  *)
(* the reference consumer, which runs diagnose.mjs and then imports the    *)
(* generated module by its path.                                           *)
(*                                                                         *)
(* The materializer writes file by file and may die between two writes or  *)
(* in one.  Diagnostics and the consumer read file by file, at any time.   *)
(* An operator may clear the directory or put a file of another payload    *)
(* into it.  A digest is what it is computed from (SHA-256 is external).   *)
(***************************************************************************)
EXTENDS Naturals, Sequences

CONSTANTS
    Offers,      \* the contract files given to the materializer
    Versions,    \* distribution versions
    MaxMeddles,  \* bound: acts of the operator
    MaxMakes     \* bound: runs of the materializer

(* The module of an action lies under actions/.                            *)
ASSUME OffersAssumption ==
    \A o \in Offers : o.coordinate.text \notin {"diagnose.mjs", "manifest.json"}

VARIABLES
    dir,         \* path -> what the file contains
    maker,       \* the materializer
    reader,      \* a run of the consumer and its diagnostics: it keeps nothing
    meddles,     \* acts of the operator so far
    makes        \* runs of the materializer so far

distribution == <<dir, maker, reader, meddles, makes>>

Absent == [is |-> "absent"]
Torn == [is |-> "torn"]

----------------------------------------------------------------------------
(* The contract.                                                           *)

(* identifierList: safe identifiers without repetition, in order.          *)
IdentifierList(list) ==
    list.safe /\ \A i, j \in DOMAIN list.names : list.names[i] = list.names[j] => i = j

(* exactOptions, kind, actionName, actionVersion.                          *)
CoordinateAccepted(o) ==
    o.exactOptions /\ o.kind \in {"command", "query"} /\ o.coordinate.sound

(* The constructor.                                                        *)
ActionContractAccepts(o) ==
    /\ CoordinateAccepted(o)
    /\ IdentifierList(o.fields) /\ IdentifierList(o.outcomes)
    /\ IdentifierList(o.errorEnvelopeFields)

----------------------------------------------------------------------------
(* The payload.                                                            *)

(* renderActionSdk: the module shows the contract and nothing else.  Name  *)
(* and version are its coordinate, which also names its path.              *)
RenderActionSdk(o) ==
    [is |-> "module", kind |-> o.kind, coordinate |-> o.coordinate.text,
     fields |-> o.fields.names, outcomes |-> o.outcomes.names,
     errorEnvelopeFields |-> o.errorEnvelopeFields.names]

Runner == [is |-> "runner"]

Integrity(version, kind, coordinate, modulePath, moduleSource) ==
    <<version, kind, coordinate, modulePath, moduleSource>>

DiagnosticsDigest(version, coordinate, integrity, path, source) ==
    <<version, coordinate, integrity, path, source>>

(* renderVersionedActionSdkDistribution and the two fields which           *)
(* renderConsumerDiagnosticsDistribution adds.                             *)
Manifest(o, version) ==
    LET c == o.coordinate.text
        integrity == Integrity(version, o.kind, c, c, RenderActionSdk(o))
    IN  [is |-> "manifest", distributionVersion |-> version, kind |-> o.kind,
         coordinate |-> c, modulePath |-> c, integrity |-> integrity,
         diagnosticsPath |-> "diagnose.mjs",
         diagnostics |-> DiagnosticsDigest(version, c, integrity, "diagnose.mjs", Runner)]

(* The files in the order in which they are written: sorted by path.       *)
Files(o, version) ==
    <<[path |-> o.coordinate.text, text |-> RenderActionSdk(o)],
      [path |-> "diagnose.mjs",    text |-> Runner],
      [path |-> "manifest.json",   text |-> Manifest(o, version)]>>

Paths == {o.coordinate.text : o \in Offers} \cup {"diagnose.mjs", "manifest.json"}

----------------------------------------------------------------------------
Idle == [at |-> "idle"]
Unread ==
    [at |-> "idle", expected |-> "none", since |-> 0, whole |-> FALSE, calm |-> FALSE,
     manifest |-> Absent, module |-> Absent, used |-> Absent]

DistributionInit ==
    /\ dir = [p \in Paths |-> Absent]
    /\ maker = Idle
    /\ reader = Unread
    /\ meddles = 0
    /\ makes = 0

(* All arguments, the contract, the target and every path are checked      *)
(* before the first byte is written.  Each refusal leaves the target alone. *)
Materialize(o, version) ==
    /\ maker.at # "writing" /\ makes < MaxMakes
    /\ ActionContractAccepts(o)
    /\ \A p \in Paths : dir[p] = Absent
    /\ maker' = [at |-> "writing", offer |-> o, version |-> version,
                 files |-> Files(o, version), open |-> FALSE, since |-> meddles]
    /\ makes' = makes + 1
    /\ UNCHANGED <<dir, reader, meddles>>

(* writeFileSync: the file is there before its text is.                    *)
OpenFile ==
    /\ maker.at = "writing" /\ maker.files # <<>> /\ ~maker.open
    /\ dir' = [dir EXCEPT ![Head(maker.files).path] = Torn]
    /\ maker' = [maker EXCEPT !.open = TRUE]
    /\ UNCHANGED <<reader, meddles, makes>>

(* The text goes into the file that was opened, if it is still there.      *)
WriteFile ==
    /\ maker.at = "writing" /\ maker.files # <<>> /\ maker.open
    /\ LET f == Head(maker.files) IN
       dir' = IF dir[f.path] = Torn THEN [dir EXCEPT ![f.path] = f.text] ELSE dir
    /\ maker' = [maker EXCEPT !.files = Tail(@), !.open = FALSE]
    /\ UNCHANGED <<reader, meddles, makes>>

ReportMaterialized ==
    /\ maker.at = "writing" /\ maker.files = <<>>
    /\ maker' = [maker EXCEPT !.at = "materialized"]
    /\ UNCHANGED <<dir, reader, meddles, makes>>

(* The process dies; a torn file and the files written so far stay.        *)
MakerDies ==
    /\ maker.at = "writing"
    /\ maker' = Idle
    /\ UNCHANGED <<dir, reader, meddles, makes>>

(* External: the operator empties the directory, or puts in a file of      *)
(* another payload.                                                        *)
Meddle ==
    /\ meddles < MaxMeddles
    /\ \/ dir' = [p \in Paths |-> Absent]
       \/ \E o \in {o \in Offers : ActionContractAccepts(o)}, v \in Versions :
             \E i \in DOMAIN Files(o, v) :
                LET f == Files(o, v)[i] IN
                dir[f.path] # f.text /\ dir' = [dir EXCEPT ![f.path] = f.text]
    /\ meddles' = meddles + 1
    /\ UNCHANGED <<maker, reader, makes>>

----------------------------------------------------------------------------
(* The reference consumer.                                                 *)

(* Every refusal ends the run without a report.                            *)
Fail == reader' = [reader EXCEPT !.at = "failed"]

(* What was materialized and left alone since, for the version asked for.  *)
Whole(expected) ==
    maker.at = "materialized" /\ maker.since = meddles /\ maker.version = expected

(* Nobody has touched the directory since a materializer that is still     *)
(* writing found it empty.                                                 *)
Calm == maker.at = "writing" => maker.since = meddles

(* spawnSync of diagnose.mjs: a torn one prints no report.                 *)
Consume(expected) ==
    /\ reader.at = "idle"
    /\ reader' = [Unread EXCEPT !.at = IF dir["diagnose.mjs"] = Runner THEN "manifest" ELSE "failed",
                                !.expected = expected, !.since = meddles,
                                !.whole = Whole(expected), !.calm = Calm]
    /\ UNCHANGED <<dir, maker, meddles, makes>>

(* manifest_present .. diagnostics_path_safety.                            *)
ReadManifest ==
    /\ reader.at = "manifest"
    /\ LET t == dir["manifest.json"] IN
       IF t.is = "manifest" /\ t.distributionVersion = reader.expected
       THEN reader' = [reader EXCEPT !.at = "module", !.manifest = t]
       ELSE Fail
    /\ UNCHANGED <<dir, maker, meddles, makes>>

(* module_present, its first half.                                         *)
ReadModule ==
    /\ reader.at = "module"
    /\ LET t == dir[reader.manifest.modulePath] IN
       IF t # Absent THEN reader' = [reader EXCEPT !.at = "runner", !.module = t] ELSE Fail
    /\ UNCHANGED <<dir, maker, meddles, makes>>

(* No module digest.                                                       *)
ModuleIntegrityByShape(m, t) == t.is = "module"

ModuleIntegrity(m, t) ==
    m.integrity = Integrity(m.distributionVersion, m.kind, m.coordinate, m.modulePath, t)

DiagnosticsIntegrity(m, t) ==
    m.diagnostics = DiagnosticsDigest(m.distributionVersion, m.coordinate, m.integrity,
                                      m.diagnosticsPath, t)

(* module_evaluation: the sample objects have one key per name.            *)
ModuleEvaluates(m, t) ==
    LET distinct(s) == \A i, j \in DOMAIN s : s[i] = s[j] => i = j IN
    /\ t.kind = m.kind /\ t.coordinate = m.coordinate
    /\ distinct(t.fields) /\ distinct(t.errorEnvelopeFields)
    /\ t.outcomes # <<>>

(* The rest of diagnose.mjs.                                               *)
Diagnose ==
    /\ reader.at = "runner"
    /\ LET m == reader.manifest
           source == dir[m.diagnosticsPath]
       IN  IF /\ source # Absent
              /\ ModuleIntegrity(m, reader.module)
              /\ DiagnosticsIntegrity(m, source)
              /\ ModuleEvaluates(m, reader.module)
           THEN reader' = [reader EXCEPT !.at = "healthy"]
           ELSE Fail
    /\ UNCHANGED <<dir, maker, meddles, makes>>

(* The import reads the file again; a torn one may load.                   *)
ImportModule ==
    /\ reader.at = "healthy"
    /\ LET t == dir[reader.manifest.modulePath] IN
       \/ t.is \in {"module", "torn"} /\ reader' = [reader EXCEPT !.at = "ok", !.used = t]
       \/ t.is # "module" /\ Fail
    /\ UNCHANGED <<dir, maker, meddles, makes>>

DistributionNext ==
    \/ \E o \in Offers, v \in Versions : Materialize(o, v)
    \/ OpenFile \/ WriteFile \/ ReportMaterialized \/ MakerDies
    \/ Meddle
    \/ \E v \in Versions : Consume(v)
    \/ ReadManifest \/ ReadModule \/ Diagnose \/ ImportModule

DistributionSpec == DistributionInit /\ [][DistributionNext]_distribution

----------------------------------------------------------------------------
(* What a file may contain, and what the parts of the system may hold.     *)
SoundOffers == {o \in Offers : ActionContractAccepts(o)}

Texts ==
    {Absent, Torn, Runner} \cup {RenderActionSdk(o) : o \in SoundOffers}
      \cup {Manifest(o, v) : o \in SoundOffers, v \in Versions}

FilesToWrite == [path : Paths, text : Texts]

DistributionTypeOK ==
    /\ dir \in [Paths -> Texts]
    /\ \/ maker = Idle
       \/ maker \in [at : {"writing", "materialized"}, offer : SoundOffers, version : Versions,
                     files : Seq(FilesToWrite), open : BOOLEAN, since : Nat]
    /\ reader \in [at : {"idle", "manifest", "module", "runner", "healthy", "ok", "failed"},
                   expected : Versions \cup {"none"}, since : Nat, whole : BOOLEAN,
                   calm : BOOLEAN, manifest : Texts, module : Texts, used : Texts]
    /\ meddles \in Nat /\ makes \in Nat

(* Diagnostics call a payload healthy only if the manifest and the module  *)
(* they read are of one rendering of an acceptable contract in the version *)
(* asked for, although they read them one by one while they are written,   *)
(* exchanged or left torn; and what the consumer then imports is what was  *)
(* verified, unless the directory was touched in between or the run began  *)
(* while a materializer was writing over files of somebody else.  A payload*)
(* that was materialized and left alone is refused only for its empty list *)
(* of outcomes.                                                            *)
HealthyMeansWhole ==
    /\ reader.at \in {"healthy", "ok"} =>
          \E o \in Offers :
             /\ ActionContractAccepts(o) /\ o.outcomes.names # <<>>
             /\ reader.manifest = Manifest(o, reader.expected)
             /\ reader.module = RenderActionSdk(o)
    /\ reader.at = "ok" /\ reader.since = meddles /\ reader.calm =>
          reader.used = reader.module
    /\ reader.at = "failed" /\ reader.whole /\ reader.since = meddles =>
          maker.offer.outcomes.names = <<>>
=============================================================================
