-------------------------- MODULE HostBridgeProofs --------------------------
(***************************************************************************)
(* Machine-checked safety of the host bridge and the process it runs, for  *)
(* any number of requests, any keys, and bodies of any size and limit.     *)
(***************************************************************************)
EXTENDS HostBridge, TLAPS

\* Status s tells q the truth about its own transaction and about its key.
Tells(q, s) ==
    /\ s = 201 <=> q \in authors
    /\ s = 409 => \E p \in authors \ {q} : KeyOf[p] = KeyOf[q]

Undecided == {"receive", "boot", "scope", "decode", "route", "handler"}
Answered  == {"start", "body", "done"}

\* What the process and the bridge have in hand at each place.
Place(q) ==
    /\ pc[q] \notin Answered => answer[q] = Null
    /\ pc[q] \in Undecided => q \notin authors
    /\ pc[q] \in Undecided \cup {"write", "throwing"} => stdout[q] = Null
    /\ pc[q] = "write" => response[q] # Null /\ Tells(q, response[q])
    /\ pc[q] = "close" => stdout[q] # Null /\ Tells(q, stdout[q])
    /\ pc[q] = "exited" =>
         /\ code[q] \in {0, 1}
         /\ code[q] = 0 => stdout[q] # Null /\ Tells(q, stdout[q])
    /\ pc[q] \in Answered => answer[q] = 502 \/ Tells(q, answer[q])

\* How far its events are.
Events(q) ==
    /\ pc[q] \notin {"body", "done"} => sent[q] = 0
    /\ pc[q] = "body" => sent[q] = 1

\* A body that the process was run for is within the limit.
Bounded(q) == pc[q] \in Process \/ q \in authors => ~TooLarge(bytes[q])

RequestOK(q) == Place(q) /\ Events(q) /\ Bounded(q)

\* One request per fingerprint in the database.
OneAuthor ==
    /\ \A p, q \in authors : KeyOf[p] = KeyOf[q] => p = q
    /\ \A k \in Key : k \in rows <=> \E q \in authors : KeyOf[q] = k

IndInv == (\A q \in Request : RequestOK(q)) /\ OneAuthor

-----------------------------------------------------------------------------

\* The places of the process and of the bridge are different.
LEMMA PlaceFacts ==
    /\ Undecided \cap Answered = {} /\ Process \cap Answered = {}
    /\ "receive" \notin Process
    /\ Null \notin Status /\ Null \notin {0, 1}
    /\ {201, 400, 403, 404, 405, 409, 413, 500, 502} = Status
  BY BridgeAssumption DEF BridgeAssumption, Undecided, Answered, Process, Status

\* A step leaves request p alone: what is known of it stays true.
LEMMA OthersKeep ==
    ASSUME NEW q, NEW p \in Request \ {q}, RequestOK(p),
           pc'[p] = pc[p], bytes'[p] = bytes[p], response'[p] = response[p],
           stdout'[p] = stdout[p], code'[p] = code[p], answer'[p] = answer[p], sent'[p] = sent[p],
           authors \subseteq authors', \A r \in authors' : r \in authors \/ r = q
    PROVE  RequestOK(p)'
<1>1. p \in authors' <=> p \in authors
  OBVIOUS
<1>2. ASSUME NEW s, Tells(p, s) PROVE Tells(p, s)'
  BY <1>1, <1>2 DEF Tells
<1>3. Place(p)'
  BY <1>1, <1>2 DEF RequestOK, Place, Tells
<1>4. Events(p)'
  BY DEF RequestOK, Events
<1>5. Bounded(p)'
  BY <1>1 DEF RequestOK, Bounded, TooLarge
<1> QED
  BY <1>3, <1>4, <1>5 DEF RequestOK

\* A step of request q that inserts nothing.
LEMMA QuietStep ==
    ASSUME TypeOK, IndInv, NEW q \in Request, RequestOK(q)', UNCHANGED <<rows, authors>>,
           \A p \in Request \ {q} :
             /\ pc'[p] = pc[p] /\ bytes'[p] = bytes[p] /\ response'[p] = response[p]
             /\ stdout'[p] = stdout[p] /\ code'[p] = code[p] /\ answer'[p] = answer[p]
             /\ sent'[p] = sent[p]
    PROVE  IndInv'
<1>1. \A p \in Request \ {q} : RequestOK(p)'
  BY OthersKeep DEF IndInv
<1>2. OneAuthor'
  BY DEF IndInv, OneAuthor
<1> QED
  BY <1>1, <1>2 DEF IndInv

\* Every step writes values of the right type.
LEMMA TypeStep == ASSUME TypeOK, IndInv, [Next]_vars PROVE TypeOK'
<1> USE PlaceFacts
<1> DEFINE Control == /\ pc' \in [Request -> Process \cup {"receive", "start", "body", "done"}]
                      /\ answer' \in [Request -> Status \cup {Null}]
                      /\ \A p \in Request : pc'[p] \in Answered => answer'[p] # Null
<1>a. ASSUME NEW q \in Request, NEW l \in Process, To(q, l), UNCHANGED answer PROVE Control
  BY <1>a DEF TypeOK, To, Answered
<1>b. ASSUME NEW q \in Request, NEW s \in Status, BridgeError(q, s) PROVE Control
  BY <1>b DEF TypeOK, BridgeError, To, Answered
<1>c. ASSUME NEW q \in Request, NEW n \in {0, 1}, Exit(q, n), UNCHANGED answer
      PROVE  Control /\ code' \in [Request -> {0, 1, Null}]
  BY <1>a, <1>c DEF TypeOK, Exit, Process
<1>d. ASSUME NEW q \in Request, NEW s \in Status, Respond(q, s), UNCHANGED answer
      PROVE  Control /\ response' \in [Request -> Status \cup {Null}]
  BY <1>a, <1>d DEF TypeOK, Respond, Process
<1>e. \A p \in Request : pc[p] \in Answered => answer[p] # Null
  BY DEF TypeOK, Answered
<1>0. CASE UNCHANGED vars
  BY <1>0 DEF vars, process, TypeOK
<1>1. ASSUME NEW q \in Request, NEW n \in 0..MaxChunk, NEW m \in {"true", "false", "junk"},
             Receive(q, n, m) PROVE TypeOK'
  <2>1. Control
    <3>1. 500 \in Status /\ 413 \in Status /\ "boot" \in Process
      BY DEF Status, Process
    <3>2. CASE UNCHANGED <<pc, answer>>
      BY <3>2, <1>e DEF TypeOK
    <3> QED
      BY <1>1, <1>a, <1>b, <3>1, <3>2 DEF Receive
  <2>2. bytes' \in [Request -> Nat]
    <3>1. bytes[q] + n \in Nat
      BY DEF TypeOK
    <3> QED
      BY <1>1, <3>1 DEF Receive, TypeOK
  <2> QED
    BY <1>1, <2>1, <2>2 DEF Receive, process, TypeOK, Answered
<1>2. ASSUME NEW q \in Request, LaunchFails(q) PROVE TypeOK'
  <2>1. Control
    BY <1>2, <1>b DEF LaunchFails, Status
  <2> QED
    BY <1>2, <2>1 DEF LaunchFails, process, TypeOK, Answered
<1>3. ASSUME NEW q \in Request, RunReturns(q) PROVE TypeOK'
  <2>1. (IF code[q] # 0 THEN 502 ELSE stdout[q]) \in Status
    BY <1>3 DEF RunReturns, TypeOK, IndInv, RequestOK, Place, Status
  <2>2. Control
    BY <1>3, <1>b, <2>1 DEF RunReturns
  <2>3. /\ response' \in [Request -> Status \cup {Null}] /\ stdout' \in [Request -> Status \cup {Null}]
        /\ code' \in [Request -> {0, 1, Null}]
    BY <1>3 DEF RunReturns, EndProcess, TypeOK
  <2> QED
    BY <1>3, <2>2, <2>3 DEF RunReturns, TypeOK, Answered
<1>4. ASSUME NEW q \in Request, SendEvent(q) PROVE TypeOK'
  <2>1. sent' \in [Request -> 0..2]
    BY <1>4 DEF SendEvent, TypeOK, IndInv, RequestOK, Events
  <2>2. pc' \in [Request -> Process \cup {"receive", "start", "body", "done"}]
    BY <1>4 DEF SendEvent, To, TypeOK
  <2>3. \A p \in Request : pc'[p] \in Answered => pc[p] \in Answered
    BY <1>4 DEF SendEvent, To, TypeOK, Answered
  <2> QED
    BY <1>4, <1>e, <2>1, <2>2, <2>3 DEF SendEvent, process, TypeOK, Answered
<1>5. ASSUME NEW q \in Request, ParseArgs(q) \/ Killed(q) \/ \E f \in BOOLEAN : Close(q, f) PROVE TypeOK'
  <2>1. Control /\ code' \in [Request -> {0, 1, Null}]
    BY <1>5, <1>a, <1>c DEF ParseArgs, Killed, Close, Process, TypeOK
  <2> QED
    BY <1>5, <2>1 DEF ParseArgs, Killed, Close, TypeOK, Answered
<1>6. ASSUME NEW q \in Request,
             \/ \E v \in BOOLEAN : CheckScope(q, v) \/ DecodeBody(q, v)
             \/ \E s \in {404, 405, Null} : Route(q, s)
             \/ \E s \in {400, 403} : Refuse(q, s)
             \/ Conflict(q) PROVE TypeOK'
  <2>1. Control /\ response' \in [Request -> Status \cup {Null}]
    BY <1>6, <1>a, <1>d DEF CheckScope, DecodeBody, Route, Refuse, Conflict, Process, Status, TypeOK
  <2> QED
    BY <1>6, <2>1 DEF CheckScope, DecodeBody, Route, Refuse, Conflict, TypeOK, Answered
<1>7. ASSUME NEW q \in Request, Commit(q) \/ \E b \in BOOLEAN : HandlerThrows(q, b) PROVE TypeOK'
  <2>1. Control /\ response' \in [Request -> Status \cup {Null}]
    BY <1>7, <1>a, <1>d DEF Commit, HandlerThrows, process, Process, Status, TypeOK
  <2>2. rows' \subseteq Key /\ authors' \subseteq Request
    BY <1>7, BridgeAssumption DEF Commit, HandlerThrows, TypeOK, BridgeAssumption
  <2> QED
    BY <1>7, <2>1, <2>2 DEF Commit, HandlerThrows, process, TypeOK, Answered
<1>8. ASSUME NEW q \in Request, WriteStdout(q) \/ RefuseUnprintable(q) PROVE TypeOK'
  <2>1. Control /\ stdout' \in [Request -> Status \cup {Null}]
    BY <1>8, <1>a DEF WriteStdout, RefuseUnprintable, process, Process, TypeOK
  <2> QED
    BY <1>8, <2>1 DEF WriteStdout, RefuseUnprintable, process, TypeOK, Answered
<1> QED
  BY <1>0, <1>1, <1>2, <1>3, <1>4, <1>5, <1>6, <1>7, <1>8 DEF Next, Bridge, Runner

-----------------------------------------------------------------------------

\* Steps of the bridge.
LEMMA BridgeKeeps == ASSUME TypeOK, IndInv, NEW q \in Request, Bridge(q) PROVE IndInv'
<1> USE PlaceFacts
<1>0. RequestOK(q) /\ pc[q] \in Process \cup {"receive", "start", "body", "done"}
  BY DEF IndInv, TypeOK
<1>1. ASSUME NEW n \in 0..MaxChunk, NEW m \in {"true", "false", "junk"}, Receive(q, n, m)
      PROVE  IndInv'
  <2>1. /\ UNCHANGED <<response, stdout, code, sent, rows, authors>>
        /\ \A p \in Request \ {q} : pc'[p] = pc[p] /\ bytes'[p] = bytes[p] /\ answer'[p] = answer[p]
        /\ pc[q] = "receive" /\ bytes'[q] = bytes[q] + n
        /\ \/ pc'[q] = "start" /\ answer'[q] \in {413, 500}
           \/ pc'[q] = "receive" /\ answer'[q] = answer[q]
           \/ pc'[q] = "boot" /\ answer'[q] = answer[q] /\ ~TooLarge(bytes[q] + n)
    BY <1>1 DEF Receive, BridgeError, To, process, TypeOK
  <2>2. q \notin authors /\ q \notin authors'
    BY <1>0, <2>1 DEF RequestOK, Place, Undecided
  <2>3. Place(q)'
    BY <1>0, <2>1, <2>2 DEF RequestOK, Place, Tells, Undecided, Answered
  <2>4. Events(q)'
    BY <1>0, <2>1 DEF RequestOK, Events
  <2>5. Bounded(q)'
    BY <2>1, <2>2 DEF Bounded, TooLarge, Process
  <2> QED
    BY <2>1, <2>3, <2>4, <2>5, QuietStep DEF RequestOK
<1>2. CASE LaunchFails(q) \/ RunReturns(q)
  <2>1. /\ UNCHANGED <<bytes, sent, rows, authors>>
        /\ \A p \in Request \ {q} : /\ pc'[p] = pc[p] /\ response'[p] = response[p]
                                    /\ stdout'[p] = stdout[p] /\ code'[p] = code[p]
                                    /\ answer'[p] = answer[p]
        /\ pc[q] \in {"boot", "exited"} /\ pc'[q] = "start"
        /\ \/ answer'[q] = 502
           \/ pc[q] = "exited" /\ code[q] = 0 /\ answer'[q] = stdout[q]
    BY <1>2 DEF LaunchFails, RunReturns, BridgeError, EndProcess, To, process, TypeOK
  <2>2. answer'[q] = 502 \/ Tells(q, answer'[q])
    BY <1>0, <2>1 DEF RequestOK, Place
  <2>3. Place(q)'
    BY <2>1, <2>2 DEF Place, Tells, Undecided, Answered
  <2>4. Events(q)'
    BY <1>0, <2>1 DEF RequestOK, Events
  <2>5. Bounded(q)'
    BY <1>0, <2>1 DEF RequestOK, Bounded, TooLarge, Process
  <2> QED
    BY <2>1, <2>3, <2>4, <2>5, QuietStep DEF RequestOK
<1>3. CASE SendEvent(q)
  <2>1. /\ UNCHANGED <<bytes, response, stdout, code, answer, rows, authors>>
        /\ \A p \in Request \ {q} : pc'[p] = pc[p] /\ sent'[p] = sent[p]
        /\ \/ pc[q] = "start" /\ pc'[q] = "body"
           \/ pc[q] = "body" /\ pc'[q] = "done"
        /\ sent'[q] = sent[q] + 1
    BY <1>3 DEF SendEvent, To, process, TypeOK
  <2>2. Place(q)'
    BY <1>0, <2>1 DEF RequestOK, Place, Tells, Undecided, Answered
  <2>3. Events(q)'
    BY <1>0, <2>1 DEF RequestOK, Events
  <2>4. Bounded(q)'
    BY <1>0, <2>1 DEF RequestOK, Bounded, TooLarge, Process
  <2> QED
    BY <2>1, <2>2, <2>3, <2>4, QuietStep DEF RequestOK
<1> QED
  BY <1>1, <1>2, <1>3 DEF Bridge

\* Steps of the process that leave the database alone.
LEMMA ProcessKeeps ==
    ASSUME TypeOK, IndInv, NEW q \in Request,
           \/ ParseArgs(q) \/ \E v \in BOOLEAN : CheckScope(q, v) \/ DecodeBody(q, v)
           \/ \E s \in {404, 405, Null} : Route(q, s)
           \/ \E s \in {400, 403} : Refuse(q, s)
           \/ RefuseUnprintable(q) \/ Conflict(q) \/ WriteStdout(q) \/ Killed(q)
           \/ \E f \in BOOLEAN : Close(q, f)
    PROVE  IndInv'
<1> USE PlaceFacts
<1>0. RequestOK(q) /\ pc[q] \in Process \cup {"receive", "start", "body", "done"}
  BY DEF IndInv, TypeOK
<1>1. /\ UNCHANGED <<bytes, answer, sent, rows, authors>>
      /\ \A p \in Request \ {q} : /\ pc'[p] = pc[p] /\ response'[p] = response[p]
                                  /\ stdout'[p] = stdout[p] /\ code'[p] = code[p]
      /\ pc[q] \in Process /\ pc'[q] \in Process
  BY DEF ParseArgs, CheckScope, DecodeBody, Route, Refuse, RefuseUnprintable, Conflict, WriteStdout,
         Killed, Close, Exit, Respond, To, process, TypeOK, Process
<1>2. \/ /\ pc[q] \in Undecided /\ pc'[q] \in Undecided \cup {"throwing"}
         /\ stdout'[q] = stdout[q]
      \/ /\ pc[q] \in Undecided /\ pc'[q] = "write" /\ stdout'[q] = stdout[q]
         /\ response'[q] \in {400, 403, 404, 405, 409}
         /\ response'[q] = 409 => \E p \in authors : KeyOf[p] = KeyOf[q]
      \/ /\ pc[q] = "write" /\ pc'[q] = "close" /\ stdout'[q] = response[q]
      \/ /\ pc[q] # "exited" /\ pc'[q] = "exited" /\ code'[q] \in {0, 1} /\ stdout'[q] = stdout[q]
         /\ code'[q] = 0 => pc[q] = "close"
  <2>1. CASE \/ ParseArgs(q) \/ RefuseUnprintable(q) \/ WriteStdout(q) \/ Killed(q)
             \/ \E f \in BOOLEAN : Close(q, f)
    BY <2>1 DEF ParseArgs, RefuseUnprintable, WriteStdout, Killed, Close, Exit, To, process, TypeOK,
                Undecided, Process
  <2>2. CASE \/ \E v \in BOOLEAN : CheckScope(q, v) \/ DecodeBody(q, v)
             \/ \E s \in {404, 405, Null} : Route(q, s)
             \/ \E s \in {400, 403} : Refuse(q, s)
    BY <2>2 DEF CheckScope, DecodeBody, Route, Refuse, Respond, To, TypeOK, Undecided
  <2>3. CASE Conflict(q)
    <3>1. KeyOf[q] \in Key
      BY BridgeAssumption DEF BridgeAssumption
    <3> QED
      BY <2>3, <3>1 DEF Conflict, Respond, To, TypeOK, Undecided, IndInv, OneAuthor
  <2> QED
    BY <2>1, <2>2, <2>3
<1>3. Place(q)'
  <2>1. \A s : Tells(q, s)' <=> Tells(q, s)
    BY <1>1 DEF Tells
  <2>2. ASSUME pc[q] \in Undecided, pc'[q] = "write" PROVE response'[q] # Null /\ Tells(q, response'[q])
    <3>1. q \notin authors
      BY <1>0, <2>2 DEF RequestOK, Place
    <3>2. /\ response'[q] \in {400, 403, 404, 405, 409}
          /\ response'[q] = 409 => \E p \in authors : KeyOf[p] = KeyOf[q]
      BY <1>2, <2>2 DEF Undecided
    <3>3. response'[q] = 409 => \E p \in authors \ {q} : KeyOf[p] = KeyOf[q]
      BY <3>1, <3>2
    <3>4. response'[q] # Null /\ response'[q] # 201
      BY <3>2
    <3> QED
      BY <3>1, <3>3, <3>4 DEF Tells
  <2> QED
    BY <1>0, <1>1, <1>2, <2>1, <2>2 DEF RequestOK, Place, Undecided, Answered, Process
<1>4. Events(q)'
  BY <1>0, <1>1 DEF RequestOK, Events, Process
<1>5. Bounded(q)'
  BY <1>0, <1>1 DEF RequestOK, Bounded, TooLarge
<1> QED
  BY <1>1, <1>3, <1>4, <1>5, QuietStep DEF RequestOK

\* The transaction of the handler: the fingerprint was nobody's.
LEMMA CommitKeeps ==
    ASSUME TypeOK, IndInv, NEW q \in Request, Commit(q) \/ \E b \in BOOLEAN : HandlerThrows(q, b)
    PROVE  IndInv'
<1> USE PlaceFacts
<1>0. RequestOK(q) /\ KeyOf[q] \in Key /\ q \notin authors
  BY BridgeAssumption
  DEF IndInv, BridgeAssumption, Commit, HandlerThrows, RequestOK, Place, Undecided
<1>1. /\ UNCHANGED <<bytes, stdout, code, answer, sent>> /\ pc[q] = "handler"
      /\ \A p \in Request \ {q} : pc'[p] = pc[p] /\ response'[p] = response[p]
      /\ pc'[q] = "throwing" \/ (pc'[q] = "write" /\ response'[q] = 201 /\ q \in authors')
  BY DEF Commit, HandlerThrows, Respond, To, process, TypeOK
<1>2. \/ UNCHANGED <<rows, authors>>
      \/ /\ KeyOf[q] \notin rows
         /\ rows' = rows \cup {KeyOf[q]} /\ authors' = authors \cup {q}
  BY DEF Commit, HandlerThrows
<1>3. \A p \in Request \ {q} : RequestOK(p)'
  BY <1>1, <1>2, OthersKeep DEF IndInv
<1>4. Place(q)'
  BY <1>0, <1>1 DEF RequestOK, Place, Tells, Undecided, Answered
<1>5. Events(q)' /\ Bounded(q)'
  BY <1>0, <1>1 DEF RequestOK, Events, Bounded, TooLarge, Process
<1>6. OneAuthor'
  BY <1>0, <1>2 DEF IndInv, OneAuthor
<1> QED
  BY <1>3, <1>4, <1>5, <1>6 DEF IndInv, RequestOK

\* At first every request is still to be received and nothing is stored.
LEMMA InitHolds == ASSUME Init PROVE TypeOK /\ IndInv
<1> USE PlaceFacts DEF Init
<1>1. TypeOK
  BY DEF TypeOK
<1>2. \A q \in Request : RequestOK(q)
  BY DEF RequestOK, Place, Events, Bounded, Undecided, Answered
<1> QED
  BY <1>1, <1>2 DEF IndInv, OneAuthor

\* Every step keeps the inductive invariant.
LEMMA StepKeeps == ASSUME TypeOK, IndInv, [Next]_vars PROVE TypeOK' /\ IndInv'
<1>1. TypeOK'
  BY TypeStep
<1>2. ASSUME UNCHANGED vars PROVE IndInv'
  <2>1. UNCHANGED <<pc, bytes, response, stdout, code, answer, sent, rows, authors>>
    BY <1>2 DEF vars, process
  <2>2. \A q \in Request : RequestOK(q)'
    BY <2>1 DEF IndInv, RequestOK, Place, Events, Bounded, Tells, TooLarge
  <2> QED
    BY <2>1, <2>2 DEF IndInv, OneAuthor
<1>3. ASSUME NEW q \in Request, Runner(q) PROVE IndInv'
  BY <1>3, ProcessKeeps, CommitKeeps DEF Runner
<1> QED
  BY <1>1, <1>2, <1>3, BridgeKeeps, ProcessKeeps DEF Next

\* The inductive invariant holds in every reachable state.
THEOREM Invariance == Spec => [](TypeOK /\ IndInv)
<1>1. Init => TypeOK /\ IndInv
  BY InitHolds
<1>2. (TypeOK /\ IndInv) /\ [Next]_vars => (TypeOK /\ IndInv)'
  BY StepKeeps
<1> QED
  BY <1>1, <1>2, PTL DEF Spec

\* Every variable of the bridge and of its processes keeps its type.
THEOREM TypeCorrect == Spec => []TypeOK
  BY Invariance, PTL

\* A 201 was committed by its own request, every other answer but 502 says that the
\* request inserted nothing, and a body over the limit never commits.
THEOREM AnswerSafety == Spec => []AnswerTellsCommit
<1>1. ASSUME TypeOK, IndInv PROVE AnswerTellsCommit
  <2>1. ASSUME NEW q \in Request, answer[q] # Null
        PROVE  /\ answer[q] = 201 => q \in authors
               /\ q \in authors => answer[q] \in {201, 502}
    BY <1>1, <2>1 DEF IndInv, RequestOK, Place, Tells
  <2>2. \A q \in authors : ~TooLarge(bytes[q])
    BY <1>1 DEF IndInv, RequestOK, Bounded, TypeOK
  <2> QED
    BY <2>1, <2>2 DEF AnswerTellsCommit
<1> QED
  BY <1>1, Invariance, PTL

\* However often a client tries again with the same key, one of its requests
\* creates the customer, and a 409 means that another one did.
THEOREM RetrySafety == Spec => []RetryIsSafe
<1>1. ASSUME TypeOK, IndInv PROVE RetryIsSafe
  <2>1. ASSUME NEW q \in Request, answer[q] = 409
        PROVE  \E p \in authors \ {q} : KeyOf[p] = KeyOf[q]
    BY <1>1, <2>1, PlaceFacts DEF IndInv, RequestOK, Place, Tells
  <2> QED
    BY <1>1, <2>1 DEF IndInv, OneAuthor, RetryIsSafe
<1> QED
  BY <1>1, Invariance, PTL

=============================================================================
