------------------------------ MODULE HostBridge ------------------------------
(***************************************************************************)
(* The Python ASGI host bridge and the JavaScript process it runs for each *)
(* request: the bridge collects a body on its event loop, runs the process *)
(* to its end without giving the loop back, and replays the events the     *)
(* process wrote; the process parses its arguments, passes the request     *)
(* through the ASGI profile, the router and the HTTP message adapter to    *)
(* the CreateCustomer handler, writes the response and closes its pools.   *)
(*                                                                         *)
(* Bodies are their lengths.  The handler's transaction is one step here:  *)
(* CreateCustomer shows what it does.                                      *)
(***************************************************************************)
EXTENDS Integers, FiniteSets

CONSTANTS Request, Key, KeyOf, Null,
          MaxBody,   \* max_body_bytes, or Null for None
          MaxChunk,  \* bound: bytes of one receive() message
          MaxTotal   \* bound: bytes a client may send

ASSUME BridgeAssumption ==
    /\ KeyOf \in [Request -> Key]
    /\ Null \notin Nat /\ MaxBody \in Nat \cup {Null}
    /\ MaxChunk \in Nat /\ MaxTotal \in Nat

VARIABLES mode,      \* the runner's command line: "allow", "deny" or "malformed"
          pc, bytes,
          response,  \* the status the process is about to write
          stdout,    \* the status it has written
          code,      \* the exit code
          answer,    \* the status the bridge sends
          sent,      \* the events sent, as a number
          rows,      \* the idempotency fingerprints in the database
          authors    \* ghost: the requests whose transaction inserted them

process == <<response, stdout, code>>
vars    == <<mode, pc, bytes, process, answer, sent, rows, authors>>

Status == {201, 400, 403, 404, 405, 409, 413, 500, 502}

Process == {"boot", "scope", "decode", "route", "handler", "write", "close", "throwing", "exited"}

\* subprocess.run blocks the loop: no coroutine of the bridge runs meanwhile.
LoopFree == \A q \in Request : pc[q] \notin Process

Init ==
    /\ mode \in {"allow", "deny", "malformed"}
    /\ pc = [q \in Request |-> "receive"]
    /\ bytes = [q \in Request |-> 0]
    /\ response = [q \in Request |-> Null]
    /\ stdout = [q \in Request |-> Null]
    /\ code = [q \in Request |-> Null]
    /\ answer = [q \in Request |-> Null]
    /\ sent = [q \in Request |-> 0]
    /\ rows = {} /\ authors = {}

(***************************************************************************)
(* StdioJsAsgiBridge.                                                      *)
(***************************************************************************)

To(q, place) == pc' = [pc EXCEPT ![q] = place]

\* Answer with an error of the bridge's own.
BridgeError(q, status) ==
    /\ answer' = [answer EXCEPT ![q] = status]
    /\ To(q, "start")

TooLarge(n) == MaxBody # Null /\ n > MaxBody

\* One receive() message.  A message without more_body, http.disconnect among
\* them, ends the body; the process is run before any other coroutine.
Receive(q, size, more) ==
    /\ pc[q] = "receive" /\ LoopFree /\ bytes[q] + size <= MaxTotal
    /\ bytes' = [bytes EXCEPT ![q] = @ + size]
    /\ \/ more = "junk" /\ BridgeError(q, 500)
       \/ more # "junk" /\ TooLarge(bytes[q] + size) /\ BridgeError(q, 413)
       \/ more = "true" /\ ~TooLarge(bytes[q] + size) /\ UNCHANGED <<pc, answer>>
       \/ more = "false" /\ ~TooLarge(bytes[q] + size) /\ To(q, "boot") /\ UNCHANGED answer
    /\ UNCHANGED <<mode, process, sent, rows, authors>>

\* OSError: the command cannot be launched.
LaunchFails(q) ==
    /\ pc[q] = "boot" /\ BridgeError(q, 502)
    /\ UNCHANGED <<mode, bytes, process, sent, rows, authors>>

\* Nothing of the process is left.
EndProcess(q) ==
    /\ response' = [response EXCEPT ![q] = Null]
    /\ stdout' = [stdout EXCEPT ![q] = Null]
    /\ code' = [code EXCEPT ![q] = Null]

\* Mutant: an exit code other than zero is reported as a bad request.
RunReturnsBadRequest(q) ==
    /\ pc[q] = "exited"
    /\ BridgeError(q, IF code[q] # 0 THEN 400 ELSE stdout[q])
    /\ EndProcess(q)
    /\ UNCHANGED <<mode, bytes, sent, rows, authors>>

\* subprocess.run returns: a failure by its exit code, else the events written.
RunReturns(q) ==
    /\ pc[q] = "exited"
    /\ BridgeError(q, IF code[q] # 0 THEN 502 ELSE stdout[q])
    /\ EndProcess(q)
    /\ UNCHANGED <<mode, bytes, sent, rows, authors>>

\* _send_events: the response start, then its body, each awaited.
SendEvent(q) ==
    /\ pc[q] \in {"start", "body"} /\ LoopFree
    /\ sent' = [sent EXCEPT ![q] = @ + 1]
    /\ To(q, IF pc[q] = "start" THEN "body" ELSE "done")
    /\ UNCHANGED <<mode, bytes, process, answer, rows, authors>>

(***************************************************************************)
(* The runner process.                                                     *)
(***************************************************************************)

Respond(q, status) ==
    /\ response' = [response EXCEPT ![q] = status]
    /\ To(q, "write")

Exit(q, n) ==
    /\ code' = [code EXCEPT ![q] = n]
    /\ To(q, "exited")

\* main: arguments that do not parse end the process before stdin is read.
ParseArgs(q) ==
    /\ pc[q] = "boot"
    /\ IF mode = "malformed" THEN Exit(q, 1) ELSE To(q, "scope") /\ UNCHANGED code
    /\ UNCHANGED <<mode, bytes, response, stdout, answer, sent, rows, authors>>

\* callFromReceive: a scope or headers outside the profile, then a body that
\* does not decode; an empty one decodes to the empty object.
CheckScope(q, valid) ==
    /\ pc[q] = "scope"
    /\ IF valid THEN To(q, "decode") /\ UNCHANGED response ELSE Respond(q, 400)
    /\ UNCHANGED <<mode, bytes, stdout, code, answer, sent, rows, authors>>

DecodeBody(q, valid) ==
    /\ pc[q] = "decode"
    /\ bytes[q] = 0 => valid
    /\ IF valid THEN To(q, "route") /\ UNCHANGED response ELSE Respond(q, 400)
    /\ UNCHANGED <<mode, bytes, stdout, code, answer, sent, rows, authors>>

\* StandardRouter.handle with the one route, and the HTTP message adapter.
Route(q, status) ==
    /\ pc[q] = "route"
    /\ IF status = Null THEN To(q, "handler") /\ UNCHANGED response ELSE Respond(q, status)
    /\ UNCHANGED <<mode, bytes, stdout, code, answer, sent, rows, authors>>

\* The handler refuses: an invalid request, an identity or a policy that denies.
Refuse(q, status) ==
    /\ pc[q] = "handler" /\ Respond(q, status)
    /\ UNCHANGED <<mode, bytes, stdout, code, answer, sent, rows, authors>>

\* A refusal that echoes a request id outside printable ASCII is not a response
\* the profile admits: toResponseEvents throws.
RefuseUnprintable(q) ==
    /\ pc[q] = "handler" /\ To(q, "throwing")
    /\ UNCHANGED <<mode, bytes, process, answer, sent, rows, authors>>

\* Mutant: the fingerprint is not unique.
CommitAgain(q) ==
    /\ pc[q] = "handler" /\ mode = "allow"
    /\ rows' = rows \cup {KeyOf[q]} /\ authors' = authors \cup {q}
    /\ Respond(q, 201)
    /\ UNCHANGED <<mode, bytes, stdout, code, answer, sent>>

\* The customer, audit and outbox rows commit ...
Commit(q) ==
    /\ pc[q] = "handler" /\ mode = "allow" /\ KeyOf[q] \notin rows
    /\ rows' = rows \cup {KeyOf[q]} /\ authors' = authors \cup {q}
    /\ Respond(q, 201)
    /\ UNCHANGED <<mode, bytes, stdout, code, answer, sent>>

\* ... or the fingerprint is there already ...
Conflict(q) ==
    /\ pc[q] = "handler" /\ mode = "allow" /\ KeyOf[q] \in rows
    /\ Respond(q, 409)
    /\ UNCHANGED <<mode, bytes, stdout, code, answer, sent, rows, authors>>

\* ... or the handler throws, after a COMMIT whose answer was lost or without; so
\* does, in deny mode, a principal made of the first of two x-tenant-id headers.
HandlerThrows(q, committed) ==
    /\ pc[q] = "handler"
    /\ committed => mode = "allow" /\ KeyOf[q] \notin rows
    /\ rows' = IF committed THEN rows \cup {KeyOf[q]} ELSE rows
    /\ authors' = IF committed THEN authors \cup {q} ELSE authors
    /\ To(q, "throwing")
    /\ UNCHANGED <<mode, bytes, process, answer, sent>>

\* The response goes to stdout before the pools are closed.
WriteStdout(q) ==
    /\ pc[q] = "write"
    /\ stdout' = [stdout EXCEPT ![q] = response[q]]
    /\ To(q, "close")
    /\ UNCHANGED <<mode, bytes, response, code, answer, sent, rows, authors>>

\* Mutant: the pools are closed only after a response, and an open pool keeps
\* the process alive.
CloseAfterResponse(q, fails) ==
    /\ pc[q] = "close"
    /\ Exit(q, IF fails THEN 1 ELSE 0)
    /\ UNCHANGED <<mode, bytes, response, stdout, answer, sent, rows, authors>>

\* finally: close() ends the pools; its own rejection is an unhandled error too,
\* whatever was written before.
Close(q, fails) ==
    /\ pc[q] \in {"close", "throwing"}
    /\ Exit(q, IF pc[q] = "throwing" \/ fails THEN 1 ELSE 0)
    /\ UNCHANGED <<mode, bytes, response, stdout, answer, sent, rows, authors>>

\* The process is killed.
Killed(q) ==
    /\ pc[q] \in Process \ {"exited"} /\ Exit(q, 1)
    /\ UNCHANGED <<mode, bytes, response, stdout, answer, sent, rows, authors>>

Bridge(q) ==
    \/ \E size \in 0..MaxChunk, more \in {"true", "false", "junk"} : Receive(q, size, more)
    \/ LaunchFails(q) \/ RunReturns(q) \/ SendEvent(q)

Runner(q) ==
    \/ ParseArgs(q)
    \/ \E valid \in BOOLEAN : CheckScope(q, valid) \/ DecodeBody(q, valid)
    \/ \E status \in {404, 405, Null} : Route(q, status)
    \/ \E status \in {400, 403} : Refuse(q, status)
    \/ RefuseUnprintable(q) \/ Commit(q) \/ Conflict(q)
    \/ \E committed \in BOOLEAN : HandlerThrows(q, committed)
    \/ WriteStdout(q)
    \/ \E fails \in BOOLEAN : Close(q, fails)

Next == \E q \in Request : Bridge(q) \/ Runner(q) \/ Killed(q)

Spec == Init /\ [][Next]_vars

\* The process ends, the loop resumes whoever can go on, and a client's body
\* ends (the server sends http.disconnect for a client that went away).
Fairness ==
    \A q \in Request :
        /\ WF_vars(Receive(q, 0, "false")) /\ WF_vars(SendEvent(q))
        /\ WF_vars(RunReturns(q)) /\ WF_vars(Runner(q))

LiveSpec == Spec /\ Fairness

(***************************************************************************)
(* Properties.                                                             *)
(***************************************************************************)

\* Each variable keeps to its type, and what a place of the process needs is there.
TypeOK ==
    /\ mode \in {"allow", "deny", "malformed"}
    /\ pc \in [Request -> Process \cup {"receive", "start", "body", "done"}]
    /\ bytes \in [Request -> Nat] /\ sent \in [Request -> 0..2]
    /\ response \in [Request -> Status \cup {Null}]
    /\ stdout \in [Request -> Status \cup {Null}]
    /\ answer \in [Request -> Status \cup {Null}]
    /\ code \in [Request -> {0, 1, Null}]
    /\ rows \subseteq Key /\ authors \subseteq Request
    /\ \A q \in Request : pc[q] \in {"start", "body", "done"} => answer[q] # Null

\* A 201 was committed by its own request, and every other answer but 502 says
\* that this request inserted nothing, whatever failed after the transaction:
\* the exit code of a close() that failed, a kill, a lost answer.  A request whose
\* chunks add up to more than max_body_bytes never commits.
AnswerTellsCommit ==
    /\ \A q \in Request :
           answer[q] # Null =>
               /\ answer[q] = 201 => q \in authors
               /\ q \in authors => answer[q] \in {201, 502}
    /\ \A q \in authors : ~TooLarge(bytes[q])

\* A client that tries again with the same key, while or after its first request
\* was answered 502, creates one customer, and a 409 tells it that another of its
\* requests did.
RetryIsSafe ==
    /\ \A p, q \in authors : KeyOf[p] = KeyOf[q] => p = q
    /\ \A q \in Request :
           answer[q] = 409 => \E p \in authors \ {q} : KeyOf[p] = KeyOf[q]

\* Every request is answered completely although one process stops all others,
\* provided each process ends: there is no timeout.
EveryRequestAnswered ==
    \A q \in Request : <>(pc[q] = "done" /\ sent[q] = 2)
==============================================================================
