------------------------ MODULE PolicyEvaluationProofs ------------------------
(***************************************************************************)
(* The combining rule of PolicyEvaluation, proved for every list of        *)
(* candidates.  The argument is the loop invariant of winningPolicyId:     *)
(* the winner so far outranks every other selected candidate before the    *)
(* index (Winning), over a list whose ids are distinct and whose           *)
(* prevailing effect was read off the same list (Prepared).                *)
(***************************************************************************)
EXTENDS PolicyEvaluation, SequenceTheorems, TLAPS

\* While a list is scanned it is the checked form of what was answered, the
\* check has passed, and the prevailing effect is that of the checked list.
Prepared ==
    pc = "scan" =>
        /\ Acceptable(raw)
        /\ Len(candidates) = Len(raw)
        /\ \A j \in 1..Len(raw) : candidates[j] = Checked(raw[j])
        /\ verdict = IF Applicable(candidates, "deny") # {} THEN "deny" ELSE "allow"

\* The loop invariant: winner is selected, comes from before the index, and
\* outranks every other selected candidate from before the index.
Winning ==
    pc = "scan" =>
        /\ winner = Null => \A j \in 1..Len(candidates) : j < index => ~Selected(candidates[j])
        /\ winner # Null =>
               \E j \in 1..Len(candidates) :
                   /\ j < index /\ winner = candidates[j] /\ Selected(candidates[j])
                   /\ \A k \in 1..Len(candidates) :
                          k < index /\ k # j /\ Selected(candidates[k])
                              => Outranks(candidates[j], candidates[k])

\* What a resolver answered about the current request.
Resolved ==
    resolver /\ pc \in {"check", "scan"} =>
        /\ Len(raw) = Len(statements)
        /\ \A j \in 1..Len(raw) : raw[j] = CandidateFor(statements[j], Current)

LoopInv == TypeOK /\ Prepared /\ Winning

\* A function over the indices of a sequence is a sequence.
LEMMA MapIsSeq ==
    ASSUME NEW S, NEW T, NEW s \in Seq(S), NEW f \in [DOMAIN s -> T]
    PROVE  f \in Seq(T) /\ Len(f) = Len(s) /\ DOMAIN f = 1..Len(s)
<1>1. DOMAIN s = 1..Len(s) /\ Len(s) \in Nat
  BY LenProperties
<1>2. f \in Seq(T)
  BY <1>1, SeqDef
<1>3. DOMAIN f = 1..Len(f) /\ Len(f) \in Nat
  BY <1>2, LenProperties
<1>. QED  BY <1>1, <1>2, <1>3

\* Checking an acceptable candidate yields one of the checked type.
LEMMA CheckedType ==
    ASSUME NEW c \in RawCandidate, c.priority = Null <=> c.layer = Null
    PROVE  /\ Checked(c) \in Candidate
           /\ Checked(c).policyId = c.policyId /\ Checked(c).effect = c.effect
           /\ Checked(c).applies = c.applies
<1>1. CASE c.layer = Null
  BY <1>1 DEF Checked, RawCandidate, Candidate, Layer
<1>2. CASE c.layer # Null
  BY <1>2, PolicyAssumption DEF Checked, RawCandidate, Candidate, Layer
<1>. QED  BY <1>1, <1>2

\* Outranks is transitive, and total on candidates of different ids.
LEMMA OutranksTransitive ==
    ASSUME NEW a \in Candidate, NEW b \in Candidate, NEW c \in Candidate,
           Outranks(a, b), Outranks(b, c)
    PROVE  Outranks(a, c)
<1>1. \A x \in Candidate : /\ x.priority \in Int /\ x.policyId \in Int
                           /\ Rank[x.layer] \in Int
  BY PolicyAssumption DEF Candidate, Layer, Rank
<1>. QED  BY <1>1 DEF Outranks

\* Of two policies with different ids one outranks the other.
LEMMA OutranksTotal ==
    ASSUME NEW a \in Candidate, NEW b \in Candidate, a.policyId # b.policyId
    PROVE  Outranks(a, b) \/ Outranks(b, a)
<1>1. \A x \in Candidate : /\ x.priority \in Int /\ x.policyId \in Int
                           /\ Rank[x.layer] \in Int
  BY PolicyAssumption DEF Candidate, Layer, Rank
<1>. QED  BY <1>1 DEF Outranks

\* The checked list of an acceptable answer.
LEMMA CheckedList ==
    ASSUME TypeOK, Acceptable(raw)
    PROVE  LET f == [j \in DOMAIN raw |-> Checked(raw[j])]
           IN /\ f \in Seq(Candidate) /\ Len(f) = Len(raw) /\ DOMAIN f = 1..Len(raw)
              /\ \A j \in 1..Len(raw) : f[j] = Checked(raw[j])
              /\ Applicable(f, "deny") # {} <=> Applicable(raw, "deny") # {}
<1>. DEFINE f == [j \in DOMAIN raw |-> Checked(raw[j])]
<1>1. raw \in Seq(RawCandidate) /\ DOMAIN raw = 1..Len(raw) /\ Len(raw) \in Nat
  BY LenProperties DEF TypeOK
<1>2. \A j \in DOMAIN raw : /\ Checked(raw[j]) \in Candidate
                            /\ Checked(raw[j]).effect = raw[j].effect
                            /\ Checked(raw[j]).applies = raw[j].applies
  BY <1>1, ElementOfSeq, CheckedType DEF Acceptable
<1>3. f \in [DOMAIN raw -> Candidate]
  BY <1>2
<1>4. f \in Seq(Candidate) /\ Len(f) = Len(raw) /\ DOMAIN f = 1..Len(raw)
  BY <1>1, <1>3, MapIsSeq
<1>5. \A j \in 1..Len(raw) : f[j] = Checked(raw[j])
  BY <1>1
<1>6. Applicable(f, "deny") # {} <=> \E k \in DOMAIN f : f[k].applies /\ f[k].effect = "deny"
  BY DEF Applicable
<1>7. Applicable(raw, "deny") # {} <=> \E k \in DOMAIN raw : raw[k].applies /\ raw[k].effect = "deny"
  BY DEF Applicable
<1>8. Applicable(f, "deny") # {} <=> Applicable(raw, "deny") # {}
  BY <1>1, <1>2, <1>4, <1>5, <1>6, <1>7
<1>. QED  BY <1>4, <1>5, <1>8

\* layerOf of the winner is the layer the winner was ranked by.
LEMMA WinnerLayer ==
    ASSUME LoopInv, pc = "scan", winner # Null
    PROVE  /\ LayerOf(raw, winner.policyId) = winner.layer
           /\ winner.policyId # Null
           /\ winner \in Candidate /\ winner.effect = verdict
<1>1. PICK j \in 1..Len(candidates) : winner = candidates[j] /\ Selected(candidates[j])
  BY DEF LoopInv, Winning
<1>2. raw \in Seq(RawCandidate) /\ DOMAIN raw = 1..Len(raw)
  BY LenProperties DEF LoopInv, TypeOK
<1>3. j \in DOMAIN raw /\ winner = Checked(raw[j])
  BY <1>1, <1>2 DEF LoopInv, Prepared
<1>4. /\ winner \in Candidate /\ winner.policyId = raw[j].policyId
      /\ raw[j] \in RawCandidate
  BY <1>2, <1>3, ElementOfSeq, CheckedType DEF LoopInv, Prepared, Acceptable
<1>5. winner.policyId # Null
  BY <1>4, PolicyAssumption DEF Candidate
<1>6. Find(raw, winner.policyId) = raw[j]
  BY <1>3, <1>4 DEF LoopInv, Prepared, Acceptable, Find
<1>7. LayerOf(raw, winner.policyId) = IF raw[j].layer = Null THEN "tenant" ELSE raw[j].layer
  BY <1>5, <1>6 DEF LayerOf
<1>. QED  BY <1>1, <1>3, <1>4, <1>5, <1>7 DEF Checked, Selected

\* The resolver answers candidates of the v2 shape.
LEMMA CandidateType ==
    ASSUME NEW s \in Statement, NEW r
    PROVE  CandidateFor(s, r) \in RawCandidate
<1>1. Applies(s, r) \in BOOLEAN
  BY Zenon DEF Applies
<1>2. /\ s.id \in PolicyId /\ s.effect \in Effect
      /\ s.priority \in Priority \cup {Null} /\ s.layer \in Layer \cup {Null}
  BY DEF Statement
<1>. HIDE DEF Applies
<1>. QED  BY <1>1, <1>2 DEF CandidateFor, RawCandidate

\* Before the first evaluation the loop has seen nothing.
LEMMA LoopInit == Init => LoopInv
<1>. SUFFICES ASSUME Init PROVE LoopInv
  OBVIOUS
<1>1. /\ <<>> \in Seq(Request) /\ <<>> \in Seq(RawCandidate)
      /\ <<>> \in Seq(Candidate) /\ <<>> \in Seq(Decision) /\ Len(<<>>) = 0
  BY EmptySeq
<1>2. TypeOK
  BY <1>1 DEF Init, TypeOK, Effect
<1>. QED  BY <1>2 DEF Init, LoopInv, Prepared, Winning

\* Each step of the evaluation keeps the loop's invariant.
LEMMA LoopStep == LoopInv /\ [Next]_vars => LoopInv'
<1>. SUFFICES ASSUME LoopInv, [Next]_vars PROVE LoopInv'
  OBVIOUS
<1>. USE DEF LoopInv
<1>0. /\ DOMAIN raw = 1..Len(raw) /\ Len(raw) \in Nat
      /\ DOMAIN candidates = 1..Len(candidates) /\ Len(candidates) \in Nat
      /\ DOMAIN batch = 1..Len(batch) /\ Len(batch) \in Nat
      /\ Len(done) \in Nat /\ index \in Nat
  BY LenProperties DEF TypeOK
<1>1. ASSUME NEW requests \in Batches, DecideAll(requests) PROVE LoopInv'
  <2>1. /\ requests \in Seq(Request) /\ Len(requests) \in Nat
        /\ <<>> \in Seq(RawCandidate) /\ <<>> \in Seq(Decision) /\ Len(<<>>) = 0
    BY PolicyAssumption, EmptySeq, LenProperties
  <2>2. TypeOK'
    BY <1>1, <2>1 DEF DecideAll, TypeOK, scan
  <2>. QED  BY <1>1, <2>2 DEF DecideAll, Prepared, Winning
<1>2. CASE Resolve
  <2>1. statements \in Seq(Statement) /\ Len(statements) \in Nat
        /\ DOMAIN statements = 1..Len(statements)
    BY PolicyAssumption, LenProperties DEF TypeOK
  <2>2. \A j \in DOMAIN statements : CandidateFor(statements[j], Current) \in RawCandidate
    BY <2>1, ElementOfSeq, CandidateType
  <2>3. raw' \in Seq(RawCandidate)
    <3>1. [j \in DOMAIN statements |-> CandidateFor(statements[j], Current)]
              \in [DOMAIN statements -> RawCandidate]
      BY <2>2
    <3>. QED  BY <2>1, <3>1, MapIsSeq, <1>2 DEF Resolve
  <2>4. TypeOK'
    BY <1>0, <1>2, <2>3 DEF Resolve, TypeOK, scan
  <2>. QED  BY <1>2, <2>4 DEF Resolve, Prepared, Winning
<1>3. ASSUME NEW answer \in Answers, Answer(answer) PROVE LoopInv'
  <2>1. TypeOK'
    BY <1>0, <1>3, PolicyAssumption DEF Answer, TypeOK, scan
  <2>. QED  BY <1>3, <2>1 DEF Answer, Prepared, Winning
<1>4. CASE CandidatesFail
  BY <1>4 DEF CandidatesFail, TypeOK, Prepared, Winning, scan
<1>5. CASE Refuse
  BY <1>5 DEF Refuse, TypeOK, Prepared, Winning, scan
<1>6. CASE Check
  <2>1. /\ candidates' \in Seq(Candidate) /\ Len(candidates') = Len(raw)
        /\ DOMAIN candidates' = 1..Len(raw)
        /\ \A j \in 1..Len(raw) : candidates'[j] = Checked(raw[j])
        /\ Applicable(candidates', "deny") # {} <=> Applicable(raw, "deny") # {}
    BY <1>6, CheckedList DEF Check
  <2>2. TypeOK'
    BY <1>0, <1>6, <2>1 DEF Check, TypeOK, Effect
  <2>3. Prepared'
    BY <1>6, <2>1 DEF Check, Prepared, Acceptable
  <2>4. Winning'
    BY <1>6, <2>1, <1>0 DEF Check, Winning
  <2>. QED  BY <2>2, <2>3, <2>4
<1>7. CASE Scan
  <2>1. index \in 1..Len(candidates) /\ candidates[index] \in Candidate
    BY <1>0, <1>7, ElementOfSeq DEF Scan, TypeOK
  <2>2. TypeOK'
    BY <1>0, <1>7, <2>1 DEF Scan, TypeOK
  <2>3. Prepared'
    BY <1>7 DEF Scan, Prepared, Acceptable, Applicable
  <2>4. Winning'
    <3>. DEFINE c == candidates[index]
    <3>1. c # Null
      BY <2>1, PolicyAssumption
    <3>2. /\ index' = index + 1 /\ candidates' = candidates /\ verdict' = verdict
          /\ pc = "scan" /\ pc' = "scan"
      BY <1>7 DEF Scan
    <3>3. \A k \in 1..Len(candidates) : k < index' <=> k < index \/ k = index
      BY <1>0, <3>2
    <3>4. \A k \in 1..Len(candidates) :
              /\ candidates[k] \in Candidate
              /\ k # index => candidates[k].policyId # c.policyId
      <4>1. \A k \in 1..Len(candidates) : candidates[k].policyId = raw[k].policyId
        <5>1. \A x : Checked(x).policyId = x.policyId
          BY DEF Checked
        <5>. QED  BY <5>1, <3>2 DEF Prepared
      <4>2. \A k \in 1..Len(candidates) : k # index => raw[k].policyId # raw[index].policyId
        BY <1>0, <2>1, <3>2 DEF Prepared, Acceptable
      <4>3. \A k \in 1..Len(candidates) : candidates[k] \in Candidate
        BY ElementOfSeq DEF TypeOK
      <4>. QED  BY <2>1, <4>1, <4>2, <4>3
    <3>5. CASE ~Selected(c)
      <4>1. winner' = winner
        BY <1>7, <3>5 DEF Scan
      <4>. QED  BY <3>2, <3>3, <3>5, <4>1 DEF Winning, Selected
    <3>6. CASE Selected(c) /\ winner = Null
      <4>1. winner' = c
        BY <1>7, <3>6 DEF Scan
      <4>. QED  BY <2>1, <3>1, <3>2, <3>3, <3>6, <4>1 DEF Winning, Selected
    <3>7. CASE Selected(c) /\ winner # Null
      <4>1. PICK w \in 1..Len(candidates) :
                /\ w < index /\ winner = candidates[w] /\ Selected(candidates[w])
                /\ \A k \in 1..Len(candidates) :
                       k < index /\ k # w /\ Selected(candidates[k])
                           => Outranks(candidates[w], candidates[k])
        BY <3>2, <3>7 DEF Winning
      <4>2. CASE Outranks(c, winner)
        <5>1. winner' = c
          BY <1>7, <3>7, <4>2 DEF Scan
        <5>2. \A k \in 1..Len(candidates) :
                  k < index' /\ k # index /\ Selected(candidates[k]) => Outranks(c, candidates[k])
          BY <2>1, <3>3, <3>4, <4>1, <4>2, OutranksTransitive
        <5>. QED  BY <2>1, <3>1, <3>2, <3>3, <3>7, <5>1, <5>2 DEF Winning, Selected
      <4>3. CASE ~Outranks(c, winner)
        <5>1. winner' = winner
          BY <1>7, <3>7, <4>3 DEF Scan
        <5>2. Outranks(candidates[w], c)
          BY <1>0, <2>1, <3>4, <4>1, <4>3, OutranksTotal
        <5>3. \A k \in 1..Len(candidates) :
                  k < index' /\ k # w /\ Selected(candidates[k])
                      => Outranks(candidates[w], candidates[k])
          BY <3>3, <4>1, <5>2
        <5>4. w < index'
          BY <3>3, <4>1
        <5>. QED  BY <3>2, <3>7, <4>1, <5>1, <5>3, <5>4 DEF Winning, Selected
      <4>. QED  BY <4>2, <4>3
    <3>. QED  BY <3>5, <3>6, <3>7
  <2>. QED  BY <2>2, <2>3, <2>4
<1>8. CASE Conclude
  <2>. DEFINE id == IF winner = Null THEN Null ELSE winner.policyId
              d  == [request |-> Current, candidates |-> candidates,
                     effect |-> IF winner = Null THEN "deny" ELSE verdict,
                     matchedPolicyId |-> id, layerResolved |-> LayerOf(raw, id)]
  <2>1. /\ LayerOf(raw, id) \in Layer \cup {Null} /\ id \in PolicyId \cup {Null}
    <3>1. CASE winner = Null
      BY <3>1 DEF LayerOf
    <3>2. CASE winner # Null
      BY <3>2, <1>8, WinnerLayer DEF Conclude, Candidate
    <3>. QED  BY <3>1, <3>2
  <2>2. Current \in Request
    BY <1>0, <1>8, ElementOfSeq DEF Conclude, Current, TypeOK
  <2>3. d \in Decision
    BY <2>1, <2>2 DEF Decision, TypeOK, Effect
  <2>4. done' = Append(done, d)
    BY <1>8 DEF Conclude
  <2>5. done' \in Seq(Decision) /\ Len(done') = Len(done) + 1
    BY <2>3, <2>4, AppendProperties DEF TypeOK
  <2>6. TypeOK'
    BY <1>0, <1>8, <2>5 DEF Conclude, TypeOK, scan
  <2>. QED  BY <1>8, <2>6 DEF Conclude, Prepared, Winning
<1>9. CASE Return
  BY <1>9 DEF Return, TypeOK, Prepared, Winning, scan
<1>10. CASE UNCHANGED vars
  BY <1>10 DEF vars, TypeOK, Prepared, Winning, Acceptable, Applicable, Selected
<1>. QED  BY <1>1, <1>2, <1>3, <1>4, <1>5, <1>6, <1>7, <1>8, <1>9, <1>10 DEF Next

\* Every reachable state of the decision point is of its type.
THEOREM TypeCorrect == Spec => []TypeOK
<1>1. LoopInv => TypeOK
  BY DEF LoopInv
<1>. QED  BY <1>1, LoopInit, LoopStep, PTL DEF Spec

\* What one decision promises about the list it was made from.
Correct(cs, effect, id) ==
    LET denies == Applicable(cs, "deny")
        allows == Applicable(cs, "allow")
        chosen == IF denies # {} THEN denies ELSE allows
    IN /\ effect = "allow" <=> denies = {} /\ allows # {}
       /\ id = Null <=> chosen = {}
       /\ chosen # {} =>
              \E c \in Foremost(chosen) :
                  c.policyId = id /\ \A o \in Foremost(chosen) : c.policyId <= o.policyId

\* A candidate that outranks all others of a set is the reference's choice.
LEMMA BestIsForemost ==
    ASSUME NEW S \in SUBSET Candidate, NEW w \in S,
           \A o \in S : o = w \/ Outranks(w, o)
    PROVE  w \in Foremost(S) /\ \A o \in Foremost(S) : w.policyId <= o.policyId
<1>1. \A x \in S : /\ x.priority \in Int /\ x.policyId \in Int
                   /\ Rank[x.layer] \in Int
  BY PolicyAssumption DEF Candidate, Layer, Rank
<1>. DEFINE top == {c \in S : \A o \in S : o.priority <= c.priority}
<1>2. w \in top
  BY <1>1 DEF Outranks
<1>3. \A o \in top : o.priority = w.priority
  BY <1>1, <1>2
<1>4. Foremost(S) = {c \in top : \A o \in top : Rank[o.layer] <= Rank[c.layer]}
  BY DEF Foremost
<1>5. \A o \in top : Rank[o.layer] <= Rank[w.layer]
  BY <1>1, <1>3 DEF Outranks
<1>. HIDE DEF top
<1>6. w \in Foremost(S)
  BY <1>2, <1>4, <1>5
<1>7. ASSUME NEW o \in Foremost(S) PROVE w.policyId <= o.policyId
  <2>1. o \in top /\ o \in S
    BY <1>4 DEF top
  <2>2. o.priority = w.priority /\ Rank[o.layer] = Rank[w.layer]
    BY <1>1, <1>2, <1>3, <1>4, <1>5, <2>1
  <2>. QED  BY <1>1, <2>1, <2>2 DEF Outranks
<1>. QED  BY <1>6, <1>7

\* At the end of the loop the decision is the reference's.
LEMMA LoopDecides ==
    ASSUME LoopInv, pc = "scan", index > Len(candidates)
    PROVE  Correct(candidates, IF winner = Null THEN "deny" ELSE verdict,
                   IF winner = Null THEN Null ELSE winner.policyId)
<1>. DEFINE denies == Applicable(candidates, "deny")
            allows == Applicable(candidates, "allow")
            chosen == IF denies # {} THEN denies ELSE allows
<1>1. /\ DOMAIN candidates = 1..Len(candidates) /\ Len(candidates) \in Nat /\ index \in Int
      /\ \A j \in 1..Len(candidates) : candidates[j] \in Candidate /\ j < index
  BY LenProperties, ElementOfSeq DEF LoopInv, TypeOK
<1>2. /\ denies = {} => verdict = "allow"
      /\ denies # {} => verdict = "deny"
  BY DEF LoopInv, Prepared
<1>3. chosen = {candidates[j] : j \in {k \in 1..Len(candidates) : Selected(candidates[k])}}
  <2>1. chosen = Applicable(candidates, verdict)
    BY <1>2
  <2>. QED  BY <1>1, <2>1 DEF Applicable, Selected
<1>4. chosen \in SUBSET Candidate
  BY <1>1, <1>3
<1>5. CASE winner = Null
  <2>1. chosen = {}
    BY <1>1, <1>3, <1>5 DEF LoopInv, Winning
  <2>2. denies = {} /\ allows = {}
    BY <2>1
  <2>. QED  BY <1>5, <2>1, <2>2 DEF Correct
<1>6. CASE winner # Null
  <2>1. PICK j \in 1..Len(candidates) :
            /\ winner = candidates[j] /\ Selected(candidates[j])
            /\ \A k \in 1..Len(candidates) :
                   k # j /\ Selected(candidates[k]) => Outranks(candidates[j], candidates[k])
    BY <1>1, <1>6 DEF LoopInv, Winning
  <2>2. winner \in chosen /\ \A o \in chosen : o = winner \/ Outranks(winner, o)
    BY <1>3, <2>1
  <2>. HIDE DEF chosen
  <2>3. winner \in Foremost(chosen) /\ \A o \in Foremost(chosen) : winner.policyId <= o.policyId
    BY <1>4, <2>2, BestIsForemost
  <2>4. winner.policyId # Null
    BY <1>6, WinnerLayer
  <2>5. verdict = "allow" <=> denies = {} /\ allows # {}
    BY <1>2, <2>2 DEF chosen
  <2>. QED  BY <1>6, <2>2, <2>3, <2>4, <2>5 DEF Correct, chosen
<1>. QED  BY <1>5, <1>6

\* Only Conclude adds a decision, and DecideAll forgets them all.
LEMMA DoneStep ==
    ASSUME LoopInv, [Next]_vars
    PROVE  \/ done' = done \/ done' = <<>>
           \/ /\ Conclude
              /\ \E d \in Decision : done' = Append(done, d)
              /\ DOMAIN done' = 1..Len(done) + 1 /\ DOMAIN done = 1..Len(done)
              /\ \A k \in DOMAIN done : done'[k] = done[k]
<1>1. CASE Conclude
  <2>1. LoopInv'
    BY LoopStep
  <2>2. /\ done \in Seq(Decision) /\ done' \in Seq(Decision)
        /\ Len(done) \in Nat /\ DOMAIN done = 1..Len(done) /\ DOMAIN done' = 1..Len(done')
    BY <2>1, LenProperties DEF LoopInv, TypeOK
  <2>3. PICK d : done' = Append(done, d)
    BY <1>1 DEF Conclude
  <2>4. Len(done') = Len(done) + 1 /\ done'[Len(done) + 1] = d
        /\ \A k \in 1..Len(done) : done'[k] = done[k]
    BY <2>2, <2>3
  <2>5. d \in Decision
    BY <2>2, <2>4, ElementOfSeq
  <2>. QED  BY <1>1, <2>2, <2>3, <2>4, <2>5
<1>2. CASE ~Conclude
  BY <1>2 DEF Next, vars, DecideAll, Resolve, Answer, CandidatesFail, Refuse, Check, Scan, Return
<1>. QED  BY <1>1, <1>2

\* The invariants of the decisions made, over the loop's.
DecisionInv == LoopInv /\ DecisionIsReference /\ LayerIsWinners

\* Each step keeps what is known of the decisions made.
LEMMA DecisionStep == DecisionInv /\ [Next]_vars => DecisionInv'
<1>. SUFFICES ASSUME DecisionInv, [Next]_vars PROVE DecisionInv'
  OBVIOUS
<1>0. LoopInv /\ LoopInv'
  BY LoopStep DEF DecisionInv
<1>1. CASE done' = done
  <2>1. DecisionIsReference'
    BY <1>1 DEF DecisionInv, DecisionIsReference
  <2>2. LayerIsWinners'
    BY <1>1 DEF DecisionInv, LayerIsWinners
  <2>. QED  BY <1>0, <2>1, <2>2 DEF DecisionInv
<1>2. CASE done' = <<>>
  BY <1>0, <1>2 DEF DecisionInv, DecisionIsReference, LayerIsWinners
<1>3. CASE /\ Conclude
           /\ DOMAIN done' = 1..Len(done) + 1 /\ DOMAIN done = 1..Len(done)
           /\ \A k \in DOMAIN done : done'[k] = done[k]
  <2>. DEFINE n  == Len(done) + 1
              id == IF winner = Null THEN Null ELSE winner.policyId
  <2>1. /\ n \in Nat /\ pc = "scan" /\ index > Len(candidates)
        /\ DOMAIN done' = DOMAIN done \cup {n}
    <3>1. Len(done) \in Nat
      BY <1>0, LenProperties DEF LoopInv, TypeOK
    <3>. QED  BY <1>3, <3>1 DEF Conclude
  <2>2. /\ done'[n].candidates = candidates
        /\ done'[n].effect = IF winner = Null THEN "deny" ELSE verdict
        /\ done'[n].matchedPolicyId = id
        /\ done'[n].layerResolved = LayerOf(raw, id)
    <3>1. done \in Seq(Decision)
      BY <1>0 DEF LoopInv, TypeOK
    <3>. QED  BY <1>3, <3>1 DEF Conclude
  <2>3. Correct(done'[n].candidates, done'[n].effect, done'[n].matchedPolicyId)
    BY <1>0, <2>1, <2>2, LoopDecides
  <2>4. \A k \in DOMAIN done :
            Correct(done[k].candidates, done[k].effect, done[k].matchedPolicyId)
    BY DEF DecisionInv, DecisionIsReference, Correct
  <2>5. \A k \in DOMAIN done' :
            Correct(done'[k].candidates, done'[k].effect, done'[k].matchedPolicyId)
    BY <1>3, <2>1, <2>3, <2>4
  <2>6. DecisionIsReference'
    BY <2>5 DEF DecisionIsReference, Correct, Applicable, Foremost
  <2>7. done'[n].matchedPolicyId # Null =>
            \E j \in DOMAIN done'[n].candidates :
                /\ done'[n].candidates[j].policyId = done'[n].matchedPolicyId
                /\ done'[n].candidates[j].layer = done'[n].layerResolved
    <3>. SUFFICES ASSUME winner # Null
                  PROVE  \E j \in DOMAIN candidates :
                            /\ candidates[j].policyId = winner.policyId
                            /\ candidates[j].layer = LayerOf(raw, winner.policyId)
      BY <2>2
    <3>1. PICK j \in 1..Len(candidates) : winner = candidates[j]
      BY <1>0, <2>1 DEF LoopInv, Winning
    <3>2. DOMAIN candidates = 1..Len(candidates)
      BY <1>0, LenProperties DEF LoopInv, TypeOK
    <3>. QED  BY <1>0, <2>1, <3>1, <3>2, WinnerLayer
  <2>8. LayerIsWinners'
    BY <1>3, <2>1, <2>7 DEF DecisionInv, LayerIsWinners
  <2>. QED  BY <1>0, <2>6, <2>8 DEF DecisionInv
<1>. QED  BY <1>0, <1>1, <1>2, <1>3, DoneStep

\* For every list of candidates, in every order, the decision of
\* AuthorizationEvaluator is the one the combining rule says.
THEOREM DecisionSafety == Spec => []DecisionIsReference
<1>1. Init => DecisionInv
  BY LoopInit DEF Init, DecisionInv, DecisionIsReference, LayerIsWinners
<1>2. DecisionInv => DecisionIsReference
  BY DEF DecisionInv
<1>. QED  BY <1>1, <1>2, DecisionStep, PTL DEF Spec

\* The layer the decision log records is the winner's, whatever shapes the
\* candidates came in.
THEOREM LayerSafety == Spec => []LayerIsWinners
<1>1. Init => DecisionInv
  BY LoopInit DEF Init, DecisionInv, DecisionIsReference, LayerIsWinners
<1>2. DecisionInv => LayerIsWinners
  BY DEF DecisionInv
<1>. QED  BY <1>1, <1>2, DecisionStep, PTL DEF Spec

\* The invariants of the decisions made over a resolver.
ResolverInv == LoopInv /\ Resolved /\ AllowedByStatement /\ DuplicateDecidesNothing

\* A statement applies exactly where it governs the request.
Governs(s, r) ==
    /\ s.enabled /\ s.conditionEmpty
    /\ s.targetAction = r.action /\ s.targetResourceType = r.resourceType
    /\ s.targetKeys \subseteq {"tenantId", "actorId"}
    /\ "tenantId" \notin s.targetKeys \/ s.targetTenant = r.tenant
    /\ "actorId" \notin s.targetKeys \/ s.targetActor = r.actor

\* The code's test for applicability is the reference's.
LEMMA AppliesGoverns ==
    ASSUME NEW s \in Statement, NEW r
    PROVE  Applies(s, r) <=> Governs(s, r)
<1>1. s.targetKeys \subseteq {"tenantId", "actorId", "unknown"}
  BY DEF Statement, TargetKey
<1>2. "unknown" \notin s.targetKeys <=> s.targetKeys \subseteq {"tenantId", "actorId"}
  BY <1>1
<1>. QED  BY <1>2 DEF Applies, Governs, TargetActorMatches

\* Each step keeps what is known of the resolver's answers.
LEMMA ResolverStep == ResolverInv /\ [Next]_vars => ResolverInv'
<1>. SUFFICES ASSUME ResolverInv, [Next]_vars PROVE ResolverInv'
  OBVIOUS
<1>0. LoopInv /\ LoopInv'
  BY LoopStep DEF ResolverInv
<1>1. /\ statements' = statements /\ resolver' = resolver
  BY DEF Next, vars, DecideAll, Resolve, Answer, CandidatesFail, Refuse, Check, Scan,
         Conclude, Return
<1>2. /\ statements \in Seq(Statement) /\ DOMAIN statements = 1..Len(statements)
      /\ Len(statements) \in Nat
  BY <1>0, PolicyAssumption, LenProperties DEF LoopInv, TypeOK
<1>3. Resolved'
  <2>1. CASE Resolve
    <3>1. /\ raw' = [j \in DOMAIN statements |-> CandidateFor(statements[j], Current)]
          /\ Current' = Current
      BY <2>1 DEF Resolve, Current
    <3>2. Len(raw') = Len(statements)
      <4>1. raw' \in Seq(RawCandidate) /\ DOMAIN raw' = 1..Len(raw') /\ Len(raw') \in Nat
        BY <1>0, LenProperties DEF LoopInv, TypeOK
      <4>. QED  BY <1>2, <3>1, <4>1
    <3>. QED  BY <1>1, <1>2, <3>1, <3>2 DEF Resolved
  <2>2. CASE ~Resolve
    <3>1. resolver /\ pc' \in {"check", "scan"} =>
              pc \in {"check", "scan"} /\ raw' = raw /\ Current' = Current
      BY <2>2 DEF Next, vars, DecideAll, Answer, CandidatesFail, Refuse, Check, Scan,
                  Conclude, Return, Current
    <3>. QED  BY <1>1, <3>1 DEF ResolverInv, Resolved
  <2>. QED  BY <2>1, <2>2
<1>4. CASE done' = done
  BY <1>0, <1>1, <1>3, <1>4 DEF ResolverInv, AllowedByStatement, DuplicateDecidesNothing
<1>5. CASE done' = <<>>
  BY <1>0, <1>3, <1>5 DEF ResolverInv, AllowedByStatement, DuplicateDecidesNothing
<1>6. CASE /\ Conclude /\ resolver
           /\ DOMAIN done' = 1..Len(done) + 1 /\ DOMAIN done = 1..Len(done)
           /\ \A k \in DOMAIN done : done'[k] = done[k]
  <2>. DEFINE n == Len(done) + 1
  <2>1. /\ n \in Nat /\ pc = "scan"
        /\ DOMAIN done' = DOMAIN done \cup {n}
    <3>1. Len(done) \in Nat
      BY <1>0, LenProperties DEF LoopInv, TypeOK
    <3>. QED  BY <1>6, <3>1 DEF Conclude
  <2>2. /\ done'[n].request = Current
        /\ done'[n].effect = IF winner = Null THEN "deny" ELSE verdict
        /\ done'[n].matchedPolicyId = IF winner = Null THEN Null ELSE winner.policyId
    <3>1. done \in Seq(Decision)
      BY <1>0 DEF LoopInv, TypeOK
    <3>. QED  BY <1>6, <3>1 DEF Conclude
  <2>3. /\ Len(raw) = Len(statements) /\ Len(candidates) = Len(raw)
        /\ \A j \in 1..Len(statements) :
              /\ candidates[j].policyId = statements[j].id
              /\ candidates[j].effect = statements[j].effect
              /\ candidates[j].applies = Applies(statements[j], Current)
    <3>1. \A j \in 1..Len(raw) : /\ candidates[j] = Checked(raw[j])
                                 /\ raw[j] = CandidateFor(statements[j], Current)
      BY <1>0, <1>6, <2>1 DEF ResolverInv, Resolved, LoopInv, Prepared
    <3>2. \A s, r : /\ Checked(CandidateFor(s, r)).policyId = s.id
                    /\ Checked(CandidateFor(s, r)).effect = s.effect
                    /\ Checked(CandidateFor(s, r)).applies = Applies(s, r)
      <4>. HIDE DEF Applies
      <4>. QED  BY DEF Checked, CandidateFor
    <3>. QED  BY <1>0, <1>6, <2>1, <3>1, <3>2 DEF ResolverInv, Resolved, LoopInv, Prepared
  <2>4. \A j \in 1..Len(statements) :
            Applies(statements[j], Current) <=> Governs(statements[j], Current)
    BY <1>2, AppliesGoverns, ElementOfSeq
  <2>5. ASSUME done'[n].effect = "allow"
        PROVE  /\ \E j \in 1..Len(statements) :
                      /\ Governs(statements[j], Current) /\ statements[j].effect = "allow"
                      /\ statements[j].id = done'[n].matchedPolicyId
               /\ \A j \in 1..Len(statements) :
                      Governs(statements[j], Current) => statements[j].effect = "allow"
    <3>1. winner # Null /\ verdict = "allow"
      BY <2>2, <2>5
    <3>2. PICK j \in 1..Len(candidates) : winner = candidates[j] /\ Selected(candidates[j])
      BY <1>0, <2>1, <3>1 DEF LoopInv, Winning
    <3>3. Applicable(candidates, "deny") = {}
      BY <1>0, <2>1, <3>1 DEF LoopInv, Prepared
    <3>4. DOMAIN candidates = 1..Len(candidates)
      BY <1>0, LenProperties DEF LoopInv, TypeOK
    <3>5. \A k \in 1..Len(candidates) : ~(candidates[k].applies /\ candidates[k].effect = "deny")
      BY <3>3, <3>4 DEF Applicable
    <3>6. \A k \in 1..Len(statements) : statements[k].effect \in {"allow", "deny"}
      <4>1. \A s \in Statement : s.effect \in {"allow", "deny"}
        BY DEF Statement, Effect
      <4>. QED  BY <1>2, <4>1, ElementOfSeq
    <3>. QED  BY <2>2, <2>3, <2>4, <3>1, <3>2, <3>5, <3>6 DEF Selected
  <2>6. AllowedByStatement'
    <3>1. \A k \in DOMAIN done' :
              done'[k].effect = "allow" =>
                  /\ \E j \in DOMAIN statements :
                         /\ Governs(statements[j], done'[k].request)
                         /\ statements[j].effect = "allow"
                         /\ statements[j].id = done'[k].matchedPolicyId
                  /\ \A j \in DOMAIN statements :
                         Governs(statements[j], done'[k].request) => statements[j].effect = "allow"
      <4>1. ASSUME NEW k \in DOMAIN done, done[k].effect = "allow"
            PROVE  /\ \E j \in DOMAIN statements :
                          /\ Governs(statements[j], done[k].request)
                          /\ statements[j].effect = "allow"
                          /\ statements[j].id = done[k].matchedPolicyId
                   /\ \A j \in DOMAIN statements :
                          Governs(statements[j], done[k].request) => statements[j].effect = "allow"
        BY <1>6, <4>1 DEF ResolverInv, AllowedByStatement, Governs
      <4>. QED  BY <1>2, <1>6, <2>1, <2>2, <2>5, <4>1
    <3>. QED  BY <1>1, <3>1 DEF AllowedByStatement, Governs
  <2>7. DuplicateDecidesNothing'
    <3>1. \A j \in 1..Len(raw) : raw[j].policyId = statements[j].id
      <4>1. \A s, r : CandidateFor(s, r).policyId = s.id
        BY DEF CandidateFor
      <4>. QED  BY <1>6, <2>1, <4>1 DEF ResolverInv, Resolved
    <3>2. DOMAIN raw = 1..Len(raw)
      BY <1>0, LenProperties DEF LoopInv, TypeOK
    <3>3. \A j, k \in 1..Len(statements) : statements[j].id = statements[k].id => j = k
      BY <1>0, <2>1, <2>3, <3>1, <3>2 DEF LoopInv, Prepared, Acceptable
    <3>. QED  BY <1>1, <1>2, <3>3 DEF DuplicateDecidesNothing
  <2>. QED  BY <1>0, <1>3, <2>6, <2>7 DEF ResolverInv
<1>7. CASE ~resolver
  BY <1>0, <1>1, <1>3, <1>7 DEF ResolverInv, AllowedByStatement, DuplicateDecidesNothing
<1>. QED  BY <1>0, <1>4, <1>5, <1>6, <1>7, DoneStep

\* The resolver has answered nothing yet.
LEMMA ResolverInit == Init => ResolverInv
  BY LoopInit DEF Init, ResolverInv, Resolved, AllowedByStatement, DuplicateDecidesNothing

\* For every set of statements an allow has a governing statement behind it and
\* no governing deny beside it.
THEOREM AllowSafety == Spec => []AllowedByStatement
<1>1. ResolverInv => AllowedByStatement
  BY DEF ResolverInv
<1>. QED  BY <1>1, ResolverInit, ResolverStep, PTL DEF Spec

\* For every set of statements with an id twice, nothing is ever decided.
THEOREM DuplicateSafety == Spec => []DuplicateDecidesNothing
<1>1. ResolverInv => DuplicateDecidesNothing
  BY DEF ResolverInv
<1>. QED  BY <1>1, ResolverInit, ResolverStep, PTL DEF Spec
===============================================================================
