------------------------------- MODULE RoundTrip -------------------------------
(***************************************************************************)
(* A call of the enclave's HTTP clients: RoundTrip of common/network over  *)
(* a new vsock connection, and the caller, which reads the response body   *)
(* or leaves it, and closes it. The TLS client also runs the handshake in  *)
(* a goroutine of its own, which outlives the call when it loses the race  *)
(* against the context.                                                    *)
(*                                                                         *)
(* The context of every call has a deadline: http.Client.Timeout. It ends  *)
(* the select of handshakeWithTimeout; reads and writes end with it only   *)
(* where it has been set on the connection, which the plain HTTP           *)
(* transport does not do.                                                  *)
(***************************************************************************)
EXTENDS Connections

CONSTANT Scheme \* "https" or "http", for each call

ASSUME SchemeAssumption == Scheme \in [Calls -> {"https", "http"}]

VARIABLES
    pc,      \* where the caller is
    hs,      \* where the handshake goroutine is
    expired, \* the deadline of the call has passed
    sent,    \* what the caller has written
    got,     \* what the caller has read
    result   \* "ok" when the whole response was read

client == <<pc, hs, expired, sent, got, result>>

Message == {"hello", "request", "head", "body"}

RoundTripInit ==
    /\ vs = [c \in Calls |-> NotDialed]
    /\ pc = [c \in Calls |-> "idle"]
    /\ hs = [c \in Calls |-> "none"]
    /\ expired = [c \in Calls |-> FALSE]
    /\ sent = [c \in Calls |-> <<>>]
    /\ got = [c \in Calls |-> <<>>]
    /\ result = [c \in Calls |-> "none"]

\* Mutant of Late: no deadline is set on the connection.
NeverLate(c) == FALSE

\* The deadline makes I/O fail: tlsConn.SetDeadline was called.
Late(c) == Scheme[c] = "https" /\ expired[c]

Goto(c, place) == pc' = [pc EXCEPT ![c] = place]

Fail(c) ==
    /\ vs' = [vs EXCEPT ![c] = Close(@, "dialer")]
    /\ Goto(c, "done")
    /\ result' = [result EXCEPT ![c] = "failed"]

Send(c, m) ==
    /\ vs' = [vs EXCEPT ![c] = Write(@, "dialer", m)]
    /\ sent' = [sent EXCEPT ![c] = Append(@, m)]

Receive(c) ==
    /\ vs' = [vs EXCEPT ![c] = Read(@, "dialer")]
    /\ got' = [got EXCEPT ![c] = Append(@, Head(vs[c].to["dialer"]))]

\* client.Do: the deadline of the context starts to run.
Do(c) ==
    /\ pc[c] = "idle"
    /\ Goto(c, "dialing")
    /\ UNCHANGED <<vs, hs, expired, sent, got, result>>

Expire(c) ==
    /\ pc[c] \notin {"idle", "done"} /\ ~expired[c]
    /\ expired' = [expired EXCEPT ![c] = TRUE]
    /\ UNCHANGED <<vs, pc, hs, sent, got, result>>

\* The kernel connects to a listening socket, accepted or not.
Dial(c) ==
    /\ pc[c] = "dialing"
    /\ vs' = [vs EXCEPT ![c] = Connected]
    /\ IF Scheme[c] = "https"
       THEN Goto(c, "handshake") /\ hs' = [hs EXCEPT ![c] = "sendHello"]
       ELSE Goto(c, "write") /\ UNCHANGED hs
    /\ UNCHANGED <<expired, sent, got, result>>

\* Nobody listens, no descriptor is left, or the kernel's own timeout.
DialFails(c) ==
    /\ pc[c] = "dialing"
    /\ Fail(c)
    /\ UNCHANGED <<hs, expired, sent, got>>

(***************************************************************************)
(* The handshake goroutine, and the select that waits for it.              *)
(***************************************************************************)
SendHello(c) ==
    /\ hs[c] = "sendHello" /\ Writable(vs[c]) /\ ~Late(c)
    /\ Send(c, "hello")
    /\ hs' = [hs EXCEPT ![c] = "awaitHello"]
    /\ UNCHANGED <<pc, expired, got, result>>

ReadHello(c) ==
    /\ hs[c] = "awaitHello" /\ HasData(vs[c], "dialer") /\ ~Late(c)
    /\ Receive(c)
    /\ hs' = [hs EXCEPT ![c] = "succeeded"]
    /\ UNCHANGED <<pc, expired, sent, result>>

\* Mutant of HandshakeFails: the channel has no buffer, so its send waits for a
\* receiver.
HandshakeFailsUnbuffered(c) ==
    /\ pc[c] = "handshake"
    /\ \/ hs[c] = "sendHello" /\ (Late(c) \/ ~Writable(vs[c]))
       \/ hs[c] = "awaitHello" /\ (Late(c) \/ ReadEnds(vs[c], "dialer"))
    /\ hs' = [hs EXCEPT ![c] = "broken"]
    /\ UNCHANGED <<vs, pc, expired, sent, got, result>>

\* An error of the connection, or a certificate that does not verify.
HandshakeFails(c) ==
    /\ \/ hs[c] = "sendHello" /\ (Late(c) \/ ~Writable(vs[c]))
       \/ hs[c] = "awaitHello" /\ (Late(c) \/ ReadEnds(vs[c], "dialer")
                                           \/ HasData(vs[c], "dialer"))
    /\ hs' = [hs EXCEPT ![c] = "broken"]
    /\ UNCHANGED <<vs, pc, expired, sent, got, result>>

\* The result arrives first...
HandshakeWins(c) ==
    /\ pc[c] = "handshake" /\ hs[c] = "succeeded"
    /\ Goto(c, "write")
    /\ UNCHANGED <<vs, hs, expired, sent, got, result>>

\* ... or ctx.Done() does, or the result is an error.
HandshakeLoses(c) ==
    /\ pc[c] = "handshake" /\ (hs[c] = "broken" \/ expired[c])
    /\ Fail(c)
    /\ UNCHANGED <<hs, expired, sent, got>>

(***************************************************************************)
(* The request and the response.                                           *)
(***************************************************************************)
WriteRequest(c) ==
    /\ pc[c] = "write" /\ Writable(vs[c]) /\ ~Late(c)
    /\ Send(c, "request")
    /\ Goto(c, "head")
    /\ UNCHANGED <<hs, expired, got, result>>

ReadHead(c) ==
    /\ pc[c] = "head" /\ HasData(vs[c], "dialer") /\ ~Late(c)
    /\ Receive(c)
    /\ Goto(c, "body")
    /\ UNCHANGED <<hs, expired, sent, result>>

\* Mutant of RoundTripFails: the connection stays open.
RoundTripFailsOpen(c) ==
    /\ \/ pc[c] = "write" /\ (Late(c) \/ ~Writable(vs[c]))
       \/ pc[c] = "head" /\ (Late(c) \/ ReadEnds(vs[c], "dialer"))
    /\ Goto(c, "done")
    /\ result' = [result EXCEPT ![c] = "failed"]
    /\ UNCHANGED <<vs, hs, expired, sent, got>>

\* The round tripper closes the connection itself.
RoundTripFails(c) ==
    /\ \/ pc[c] = "write" /\ (Late(c) \/ ~Writable(vs[c]))
       \/ pc[c] = "head" /\ (Late(c) \/ ReadEnds(vs[c], "dialer"))
    /\ Fail(c)
    /\ UNCHANGED <<hs, expired, sent, got>>

\* From here on the connection belongs to the body. The caller may close it
\* unread (a status other than 200), which reads what is left.
LeaveBody(c) ==
    /\ pc[c] = "body"
    /\ Goto(c, "drain")
    /\ UNCHANGED <<vs, hs, expired, sent, got, result>>

\* Mutant of ReadBody: an unread body has a result of its own.
ReadBodyPartial(c) ==
    /\ pc[c] \in {"body", "drain"} /\ HasData(vs[c], "dialer") /\ ~Late(c)
    /\ Receive(c)
    /\ result' = [result EXCEPT ![c] = IF pc[c] = "body" THEN "ok" ELSE "partial"]
    /\ Goto(c, "close")
    /\ UNCHANGED <<hs, expired, sent>>

ReadBody(c) ==
    /\ pc[c] \in {"body", "drain"} /\ HasData(vs[c], "dialer") /\ ~Late(c)
    /\ Receive(c)
    /\ result' = [result EXCEPT ![c] = IF pc[c] = "body" THEN "ok" ELSE "failed"]
    /\ Goto(c, "close")
    /\ UNCHANGED <<hs, expired, sent>>

\* Mutant of BodyFails: the end of the stream ends the body.
EofEndsBody(c) ==
    /\ pc[c] \in {"body", "drain"}
    /\ Late(c) \/ ReadEnds(vs[c], "dialer")
    /\ result' = [result EXCEPT ![c] = IF Late(c) THEN "failed" ELSE "ok"]
    /\ Goto(c, "close")
    /\ UNCHANGED <<vs, hs, expired, sent, got>>

\* The length of the body is known: an early end of the stream is an error.
BodyFails(c) ==
    /\ pc[c] \in {"body", "drain"}
    /\ Late(c) \/ ReadEnds(vs[c], "dialer")
    /\ result' = [result EXCEPT ![c] = "failed"]
    /\ Goto(c, "close")
    /\ UNCHANGED <<vs, hs, expired, sent, got>>

\* Close of the connection-aware body.
CloseBody(c) ==
    /\ pc[c] = "close"
    /\ vs' = [vs EXCEPT ![c] = Close(@, "dialer")]
    /\ Goto(c, "done")
    /\ UNCHANGED <<hs, expired, sent, got, result>>

CallerStep(c) ==
    \/ DialFails(c)
    \/ HandshakeWins(c) \/ HandshakeLoses(c)
    \/ WriteRequest(c) \/ ReadHead(c) \/ RoundTripFails(c)
    \/ LeaveBody(c) \/ ReadBody(c) \/ BodyFails(c) \/ CloseBody(c)

HandshakeStep(c) == SendHello(c) \/ ReadHello(c) \/ HandshakeFails(c)
================================================================================
