------------------------------- MODULE HttpProxy -------------------------------
(***************************************************************************)
(* The host's HTTP proxy towards the enclave: a handler sends each request *)
(* on over a vsock connection of its own, waits for the answer without a   *)
(* deadline (RoundTrip, the plain round tripper) and copies it. The server *)
(* of net/http around it has a write deadline, which it notices only when  *)
(* it writes to the requester.                                             *)
(*                                                                         *)
(* The requester, the enclave's server (which names the length of a short  *)
(* body and sends a long one in chunks) and net/http are external.         *)
(***************************************************************************)
EXTENDS Naturals

CONSTANTS
    Requests,   \* requests that reach the host
    Parts       \* bound: the parts in which a body is read and written

ASSUME ProxyAssumption == Parts \in Nat \ {0}

VARIABLES
    handler,    \* where the handler of each request is
    late,       \* whether the write deadline of the request has passed
    conn,       \* the connection to the enclave: "none", "open", "reset", "closed"
    enclave,    \* the enclave: "none", "working", "answered"
    reply,      \* the enclave's answer: its status, whether with a length
    copied,     \* how many parts of the body were copied
    header,     \* what was written: the status and whether with a length
    client      \* what the requester has got

vars == <<handler, late, conn, enclave, reply, copied, header, client>>

\* The status of the enclave's answer: 500 stands for every one but 200.
Statuses == {200, 500}

NoHeader == [status |-> 0, sized |-> FALSE]
NoResponse == [status |-> 0, parts |-> 0]

Init ==
    /\ handler = [r \in Requests |-> "idle"]
    /\ late = [r \in Requests |-> FALSE]
    /\ conn = [r \in Requests |-> "none"]
    /\ enclave = [r \in Requests |-> "none"]
    /\ reply = [r \in Requests |-> NoHeader]
    /\ copied = [r \in Requests |-> 0]
    /\ header = [r \in Requests |-> NoHeader]
    /\ client = [r \in Requests |-> [state |-> "none", response |-> NoResponse]]

Goto(r, place) == handler' = [handler EXCEPT ![r] = place]
Conn(r, state) == conn' = [conn EXCEPT ![r] = state]

(***************************************************************************)
(* The handler.                                                            *)
(***************************************************************************)
\* http.Error: the handler returns with an answer of its own.
Error(r, status) ==
    /\ header' = [header EXCEPT ![r] = [status |-> status, sized |-> TRUE]]
    /\ Goto(r, "error")

\* A request, of which NewRequestWithContext may not make another.
Arrive(r) ==
    /\ handler[r] = "idle"
    /\ client' = [client EXCEPT ![r].state = "waiting"]
    /\ \/ Goto(r, "dial") /\ UNCHANGED header
       \/ Error(r, 500)
    /\ UNCHANGED <<late, conn, enclave, reply, copied>>

\* vsockClient.Do up to the answer.
Forward(r) ==
    /\ handler[r] = "dial"
    /\ Goto(r, "await") /\ Conn(r, "open")
    /\ enclave' = [enclave EXCEPT ![r] = "working"]
    /\ UNCHANGED <<late, reply, copied, header, client>>

\* Do returns an error: no connection, or none any more. RoundTrip has closed
\* it.
BadGateway(r) ==
    /\ \/ handler[r] = "dial" /\ UNCHANGED conn
       \/ handler[r] = "await" /\ conn[r] = "reset" /\ Conn(r, "closed")
    /\ Error(r, 502)
    /\ UNCHANGED <<late, enclave, reply, copied, client>>

\* Mutant of CopyHead: only the status is copied.
CopyStatus(r) ==
    /\ handler[r] = "await" /\ enclave[r] = "answered" /\ conn[r] = "open"
    /\ header' = [header EXCEPT ![r] = [status |-> reply[r].status, sized |-> FALSE]]
    /\ Goto(r, "copy")
    /\ UNCHANGED <<late, conn, enclave, reply, copied, client>>

\* Mutant of CopyHead: no call of WriteHeader.
CopyNoStatus(r) ==
    /\ handler[r] = "await" /\ enclave[r] = "answered" /\ conn[r] = "open"
    /\ header' = [header EXCEPT ![r] = [status |-> 200, sized |-> reply[r].sized]]
    /\ Goto(r, "copy")
    /\ UNCHANGED <<late, conn, enclave, reply, copied, client>>

\* Do returns: the headers, with the length if there is one, and the status.
CopyHead(r) ==
    /\ handler[r] = "await" /\ enclave[r] = "answered" /\ conn[r] = "open"
    /\ header' = [header EXCEPT ![r] = reply[r]]
    /\ Goto(r, "copy")
    /\ UNCHANGED <<late, conn, enclave, reply, copied, client>>

\* Mutant of CopyPart: a read that finds the end counts as one more part.
CopyPartPastEnd(r) ==
    /\ handler[r] = "copy" /\ copied[r] <= Parts /\ conn[r] = "open"
    /\ copied' = [copied EXCEPT ![r] = @ + 1]
    /\ UNCHANGED <<handler, late, conn, enclave, reply, header, client>>

\* io.Copy takes the next part.
CopyPart(r) ==
    /\ handler[r] = "copy" /\ copied[r] < Parts /\ conn[r] = "open"
    /\ copied' = [copied EXCEPT ![r] = @ + 1]
    /\ UNCHANGED <<handler, late, conn, enclave, reply, header, client>>

\* Mutant of CopyEnds: a read that fails is tried again.
CopyEndsOnlyWhole(r) ==
    /\ handler[r] = "copy"
    /\ copied[r] = Parts \/ late[r]
    /\ Goto(r, "drain")
    /\ UNCHANGED <<late, conn, enclave, reply, copied, header, client>>

\* io.Copy returns: at the end, when the enclave is gone, or when it cannot
\* write. Its error is dropped.
CopyEnds(r) ==
    /\ handler[r] = "copy"
    /\ copied[r] = Parts \/ conn[r] = "reset" \/ late[r]
    /\ Goto(r, "drain")
    /\ UNCHANGED <<late, conn, enclave, reply, copied, header, client>>

\* Mutant of Drain: the body is closed as net/http knows it, and the connection
\* under it is not.
DrainOnly(r) ==
    /\ handler[r] = "drain"
    /\ Goto(r, "return")
    /\ UNCHANGED <<late, conn, enclave, reply, copied, header, client>>

\* The deferred Close: net/http reads the rest of the body, to its end or until the
\* enclave is lost, and only then is the connection closed.
Drain(r) ==
    /\ handler[r] = "drain"
    /\ Goto(r, "return") /\ Conn(r, "closed")
    /\ UNCHANGED <<late, enclave, reply, copied, header, client>>

(***************************************************************************)
(* net/http, once the handler has returned. What it buffered is written if *)
(* the deadline allows; a body shorter than its length breaks the          *)
(* connection, one without a length is taken to be complete. The answers   *)
(* of http.Error are short and whole.                                      *)
(***************************************************************************)
Whole(r) == handler[r] = "error" \/ copied[r] = Parts \/ ~ header[r].sized

Respond(r) ==
    /\ handler[r] \in {"return", "error"}
    /\ Goto(r, "done")
    /\ client' = [client EXCEPT ![r] =
                    IF @.state # "waiting" THEN @
                    ELSE IF late[r] \/ ~ Whole(r)
                         THEN [state |-> "broken", response |-> NoResponse]
                         ELSE [state |-> "answered",
                               response |-> [status |-> header[r].status, parts |-> copied[r]]]]
    /\ UNCHANGED <<late, conn, enclave, reply, copied, header>>

\* WriteTimeout, counted from the end of the request's header. The connection
\* stays, but nothing can be written to it any more.
WriteTimeout(r) ==
    /\ handler[r] \notin {"idle", "done"} /\ ~ late[r]
    /\ late' = [late EXCEPT ![r] = TRUE]
    /\ UNCHANGED <<handler, conn, enclave, reply, copied, header, client>>

(***************************************************************************)
(* The enclave and the requester.                                          *)
(***************************************************************************)
Answer(r, status, sized) ==
    /\ enclave[r] = "working" /\ conn[r] = "open"
    /\ enclave' = [enclave EXCEPT ![r] = "answered"]
    /\ reply' = [reply EXCEPT ![r] = [status |-> status, sized |-> sized]]
    /\ UNCHANGED <<handler, late, conn, copied, header, client>>

\* The enclave ends, or its connection does.
Lost(r) ==
    /\ conn[r] = "open"
    /\ Conn(r, "reset")
    /\ UNCHANGED <<handler, late, enclave, reply, copied, header, client>>

\* The requester stops waiting. The handler, on a connection that does not
\* look at the context, goes on.
GiveUp(r) ==
    /\ client[r].state = "waiting"
    /\ client' = [client EXCEPT ![r].state = "gone"]
    /\ UNCHANGED <<handler, late, conn, enclave, reply, copied, header>>

Answers(r) == \E status \in Statuses, sized \in BOOLEAN : Answer(r, status, sized)

Handle(r) == Forward(r) \/ BadGateway(r) \/ CopyHead(r) \/ CopyPart(r) \/ CopyEnds(r)
                \/ Drain(r) \/ Respond(r)

Terminating == (\A r \in Requests : handler[r] = "done") /\ UNCHANGED vars

Next ==
    \/ \E r \in Requests : Arrive(r) \/ Handle(r) \/ WriteTimeout(r) \/ Answers(r) \/ Lost(r)
                              \/ GiveUp(r)
    \/ Terminating

\* The enclave answers: its own calls have deadlines (RoundTrip).
Spec ==
    /\ Init /\ [][Next]_vars
    /\ \A r \in Requests : WF_vars(Handle(r)) /\ WF_vars(Answers(r))

(***************************************************************************)
(* Properties.                                                             *)
(***************************************************************************)
TypeOK ==
    /\ handler \in [Requests -> {"idle", "dial", "await", "copy", "drain", "return", "error", "done"}]
    /\ late \in [Requests -> BOOLEAN]
    /\ reply \in [Requests -> [status : Statuses \union {0}, sized : BOOLEAN]]
    /\ conn \in [Requests -> {"none", "open", "reset", "closed"}]
    /\ enclave \in [Requests -> {"none", "working", "answered"}]
    /\ copied \in [Requests -> 0 .. Parts]
    /\ header \in [Requests -> [status : Statuses \union {0, 502}, sized : BOOLEAN]]
    /\ client \in [Requests ->
                    [state : {"none", "waiting", "answered", "broken", "gone"},
                     response : [status : Statuses \union {0, 502}, parts : 0 .. Parts]]]

\* The requester has a 200, and nothing that tells it is not all. Only the enclave
\* has written one.
Complete(r) == client[r].state = "answered" /\ client[r].response.status = 200

\* A requester that takes a 200 for complete has the whole body, when the enclave
\* named its length (proxy.go:58, 66).
SizedIsWhole ==
    \A r \in Requests : Complete(r) /\ reply[r].sized => client[r].response.parts = Parts

\* "Copy response body" (proxy.go:65): a requester that takes a 200 for complete
\* has the whole body.
CopiesBody == \A r \in Requests : Complete(r) => client[r].response.parts = Parts

\* The connection to the enclave does not outlive the handler (proxy.go:55).
ClosesConnection ==
    \A r \in Requests : handler[r] \in {"return", "error", "done"} => conn[r] \in {"none", "closed"}

\* A handler ends, when the enclave answers or is lost, whatever the requester
\* does.
HandlerEnds == \A r \in Requests : handler[r] # "idle" ~> handler[r] = "done"
================================================================================
