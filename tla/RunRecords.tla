----------------------------- MODULE RunRecords -----------------------------
(***************************************************************************)
(* check-external-consumer-run-record.mjs: which records of consumer runs  *)
(* are well formed, what becomes of each, and how many teams they count.   *)
(*                                                                         *)
(* A file is unreadable or holds a record.  Of a record, the tests that    *)
(* look at one field alone are summed up in `fields`; a help event is the  *)
(* set of its usable fields and whether it has no others; the evidence is  *)
(* the digest declared (a list of one digest has the form of one and never *)
(* equals one) and the digest of the bytes found, if they can be read.     *)
(***************************************************************************)
EXTENDS Integers, Sequences, FiniteSets

CONSTANT NoReason   \* null

AcceptedParticipant == "real-independent-team"
NeverCounted    == {"agent", "employee", "probe", "worker"}
HelpEventFields == {"at", "channel", "question", "answer"}
VoidReasons     == {"hidden-owner-help", "non-team-participant", "mutated-evidence"}

Refuse(code, disposition) == [wellFormed |-> FALSE, code |-> code, disposition |-> disposition]

(* The closed shape of a record.                                           *)
ValidateShape(r) ==
    /\ r.fields
    /\ r.participantKind \in {AcceptedParticipant} \cup NeverCounted
    /\ \A i \in DOMAIN r.helpEvents : r.helpEvents[i].closed
    /\ r.evidence.form
    /\ \/ r.outcome = "completed" /\ r.outcomeReason = NoReason
       \/ r.outcome = "abandoned" /\ r.outcomeReason # NoReason
       \/ r.outcome = "void" /\ r.outcomeReason \in VoidReasons

(* Help that is not told in full: an event short of a field, or a tally    *)
(* that is not the number of the events.                                   *)
HelpCodes(r) ==
    IF \E i \in DOMAIN r.helpEvents : r.helpEvents[i].usable # HelpEventFields
    THEN {"HELP_EVENT_OMITTED"}
    ELSE IF r.ownerHelpCount # Len(r.helpEvents) THEN {"HELP_COUNT_CONTRADICTION"} ELSE {}

HiddenHelp(r) == HelpCodes(r) # {}

EvidenceMatches(r) == r.evidence.sha256 = r.evidence.found

NonTeam(r) == r.participantKind \in NeverCounted

(* What a void record's reason must be shown by.                           *)
Shown(r) ==
    \/ r.outcomeReason = "hidden-owner-help" /\ HiddenHelp(r)
    \/ r.outcomeReason = "non-team-participant" /\ NonTeam(r)
    \/ r.outcomeReason = "mutated-evidence" /\ ~EvidenceMatches(r)

Disposed(r, disposition) ==
    [wellFormed |-> TRUE, disposition |-> disposition, teamId |-> r.teamId]

(* A record that says it is void.                                          *)
DecideVoid(r) ==
    IF Shown(r) THEN Disposed(r, "void") ELSE Refuse("OUTCOME_REASON_INCOHERENT", NoReason)

(* A record of a run that claims to have happened as recorded.             *)
DecideClaim(r) ==
    IF NonTeam(r) THEN Refuse("PARTICIPANT_NEVER_COUNTED", "non-team-participant")
    ELSE IF HiddenHelp(r) THEN Refuse(CHOOSE code \in HelpCodes(r) : TRUE, "hidden-owner-help")
    ELSE IF ~EvidenceMatches(r) THEN Refuse("EVIDENCE_DIGEST_MISMATCH", "mutated-evidence")
    ELSE Disposed(r, IF r.outcome = "abandoned" THEN "not-accepted:abandoned"
                  ELSE IF r.ownerHelpCount = 0 THEN "accepted" ELSE "observed:owner-help")

DecideRecord(file) ==
    IF ~file.readable THEN Refuse("RECORD_UNREADABLE", NoReason)
    ELSE IF ~ValidateShape(file.record) THEN Refuse("RECORD_SCHEMA_VIOLATION", NoReason)
    ELSE IF ~file.record.evidence.readable THEN Refuse("EVIDENCE_UNREADABLE", NoReason)
    ELSE IF file.record.outcome = "void" THEN DecideVoid(file.record)
    ELSE DecideClaim(file.record)

(* The whole call: the files are decided in turn, and the first refusal    *)
(* ends it with nothing on stdout.  Blank paths are not files.             *)
Derive(files) ==
    LET decided == [i \in DOMAIN files |-> DecideRecord(files[i])]
        accepted == {i \in DOMAIN files : decided[i].disposition = "accepted"}
    IN  IF files = <<>> \/ \E i \in DOMAIN files : ~decided[i].wellFormed
        THEN [exit |-> 1, acceptedRecords |-> 0, teams |-> 0]
        ELSE [exit            |-> 0,
              acceptedRecords |-> Cardinality(accepted),
              teams           |-> Cardinality({decided[i].teamId : i \in accepted})]

----------------------------------------------------------------------------
(* A run counts only if it is a completed run of a real team, without help *)
(* and over the evidence it declares, and then its team counts once.  No   *)
(* falsified record passes for anything but void, none is void that shows  *)
(* no falsification, and the count depends neither on the order of the     *)
(* files nor, once the files are well formed, on a file given twice.       *)
TeamsCountOnce(files) ==
    LET d == Derive(files)
        clean(r) == ~NonTeam(r) /\ ~HiddenHelp(r) /\ EvidenceMatches(r)
        helped(r) == Len(r.helpEvents) > 0
    IN  d.exit = 0 =>
        /\ d.teams = Cardinality({files[i].record.teamId : i \in
              {j \in DOMAIN files : /\ clean(files[j].record) /\ ~helped(files[j].record)
                                    /\ files[j].record.outcome = "completed"}})
        /\ d.teams <= d.acceptedRecords /\ d.acceptedRecords <= Len(files)
        /\ \A i \in DOMAIN files :
              (files[i].record.outcome = "void") <=> ~clean(files[i].record)
        /\ \A i \in DOMAIN files :
              LET again == Derive(<<files[i]>> \o files) IN again.exit = 0 /\ again.teams = d.teams
        /\ Derive([i \in DOMAIN files |-> files[Len(files) + 1 - i]]) = d
=============================================================================
