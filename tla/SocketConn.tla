------------------------------ MODULE SocketConn -------------------------------
(***************************************************************************)
(* A connection of the socket package, from dial to close. One goroutine   *)
(* dials; when it has a Conn, others read from it, write to it and close   *)
(* it. The package hands closures to Go's network poller, which runs one   *)
(* again whenever it reported "not ready"; what a closure found it leaves  *)
(* in variables it captures, and the call returns what these hold when the *)
(* poller is done with it.                                                 *)
(*                                                                         *)
(* The kernel (connect, SO_ERROR, the bytes) and the poller (internal/poll *)
(* runs one closure for each direction at a time, wakes it when the        *)
(* descriptor is ready, now and then for nothing, and when it is closed)   *)
(* are external.                                                           *)
(***************************************************************************)
EXTENDS Integers, FiniteSets

CONSTANTS
    Readers,    \* calls of ReadContext
    EmptyReads, \* those of them that have no room for a byte
    Writers,    \* calls of WriteContext
    Closers,    \* calls of Close
    Contexts,   \* the calls whose context may be cancelled
    FirstErrors,\* the errors connect(2) may return at once
    SoErrors,   \* the errors SO_ERROR may hold while the socket connects
    Bytes       \* bound: what the peer sends in all, the room for what it is
                \* sent, and the length of a write

Retry == {"EAGAIN", "EINPROGRESS", "EINTR"}
Failures == {"ECONNRESET", "EPIPE"}

ASSUME SocketAssumption ==
    /\ Readers \intersect Writers = {} /\ EmptyReads \subseteq Readers
    /\ (Readers \union Writers) \intersect Closers = {}
    /\ IsFiniteSet(Closers)
    /\ Contexts \subseteq Readers \union Writers
    /\ FirstErrors \subseteq {"ENODEV", "ENETUNREACH"}
    /\ SoErrors \subseteq {"ECONNRESET", "ETIMEDOUT", "EAGAIN", "EISCONN"}
    /\ Bytes \in Nat \ {0}

Calls == Readers \union Writers

\* Mutant of ready: EAGAIN is an error like any other.
readyAgain(err) == err \notin {"EINPROGRESS", "EINTR"}

\* An error the poller is told of as "not ready": the closure runs again.
ready(err) == err \notin Retry

VARIABLES
    sock,      \* kernel: "new", "connecting", "connected", "failed", "shut"
    soError,   \* kernel: the pending error, cleared when it is read
    sent,      \* kernel: how many bytes the peer has sent
    unread,    \* kernel: how many of them nobody has read
    room,      \* kernel: how many bytes it will take from a writer
    moved,     \* kernel: how many bytes it has moved for each call
    half,      \* kernel: the halves that were shut on this side
    descriptor,\* "none", "open", "loose" (left to the collector), "closing"
               \* (closed, but in use), "closed"
    closed,    \* Conn.closed
    dialer,    \* where dial is
    rsa, cerr, \* the variables the closure of Connect captures
    pc,        \* where each call is
    cancelled, \* the calls whose context is done
    captured,  \* the variables n (or nn) and err a call's closure captures
    doErr,     \* what the poller returned to each call
    result     \* what each call has returned

kernel == <<sock, soError, sent, unread, room, moved, half>>
conn == <<descriptor, closed>>
dial == <<dialer, rsa, cerr>>
calls == <<pc, cancelled, captured, doErr, result>>
vars == <<kernel, conn, dial, calls>>

Nothing == [n |-> 0, err |-> "none"]

Init ==
    /\ sock = "new" /\ soError = "none"
    /\ sent = 0 /\ unread = 0 /\ room = Bytes
    /\ moved = [c \in Calls |-> 0] /\ half = {}
    /\ descriptor = "none" /\ closed = 0
    /\ dialer = "start" /\ rsa = FALSE /\ cerr = "none"
    /\ pc = [c \in Calls \union Closers |-> "idle"]
    /\ cancelled = {}
    /\ captured = [c \in Calls |-> Nothing]
    /\ doErr = [c \in Calls |-> "none"]
    /\ result = [c \in Calls |-> Nothing]

(***************************************************************************)
(* dial: Socket, Connect, Getsockname.                                     *)
(***************************************************************************)
\* socket(2) fails, or New does and forgets the os.File it made.
Socket ==
    /\ dialer = "start"
    /\ \/ descriptor' = "open" /\ dialer' = "connect"
       \/ descriptor' \in {"none", "loose"} /\ dialer' = "failed"
    /\ UNCHANGED <<kernel, closed, rsa, cerr, calls>>

\* Mutant of Fails: the error is returned and the Conn left to itself.
FailsOpen == dialer' = "failed" /\ UNCHANGED conn

\* dial closes the Conn it cannot use; nobody else has it yet.
Fails == dialer' = "failed" /\ descriptor' = "closed" /\ closed' = closed + 1

\* Connect returns what was captured; EISCONN is no error, and nobody is asked for
\* the peer then.
ConnectReturns(err) ==
    IF err \in {"none", "EISCONN"} THEN dialer' = "connected" /\ UNCHANGED conn ELSE Fails

\* The first run of the closure calls connect(2). Its error is returned to
\* the poller, and captured by nothing.
Initiate ==
    /\ dialer = "connect"
    /\ \/ /\ sock' = "connecting" /\ dialer' = "wait"
          /\ UNCHANGED conn
       \/ /\ \/ sock' = "connected"
             \/ FirstErrors # {} /\ sock' = "failed"
          /\ ConnectReturns(cerr)
    /\ UNCHANGED <<soError, sent, unread, room, moved, half, rsa, cerr, calls>>

\* Mutant of SeeError: every errno is taken for "not ready yet".
SeeErrorAndWait ==
    /\ dialer = "wait" /\ soError # "none"
    /\ cerr' = soError /\ soError' = "none"
    /\ UNCHANGED <<sock, sent, unread, room, moved, half, dialer, rsa, conn, calls>>

\* SO_ERROR holds an error: it is captured, and final unless it is one that
\* says "not ready".
SeeError ==
    /\ dialer = "wait" /\ soError # "none"
    /\ cerr' = soError /\ soError' = "none"
    /\ IF ready(soError) THEN ConnectReturns(soError)
                         ELSE UNCHANGED <<dialer, descriptor, closed>>
    /\ UNCHANGED <<sock, sent, unread, room, moved, half, rsa, calls>>

\* Mutant of SeePeer: the poller is taken at its word.
SeeNoPeer ==
    /\ dialer = "wait" /\ soError = "none"
    /\ rsa' = TRUE
    /\ ConnectReturns(cerr)
    /\ UNCHANGED <<kernel, cerr, calls>>

\* No error, and getpeername names the peer.
SeePeer ==
    /\ dialer = "wait" /\ soError = "none" /\ sock \in {"connected", "shut"}
    /\ rsa' = TRUE
    /\ ConnectReturns(cerr)
    /\ UNCHANGED <<kernel, cerr, calls>>

\* The poller woke the closure for nothing: no error and no peer either. The
\* closure reports EAGAIN.
SeeNothing ==
    /\ dialer = "wait" /\ soError = "none" /\ sock \notin {"connected", "shut"}
    /\ UNCHANGED vars

\* Getsockname. The address of the peer, when Connect gave none, is the one
\* that was asked for.
Getsockname ==
    /\ dialer = "connected"
    /\ \/ dialer' = "conn" /\ UNCHANGED conn
       \/ Fails
    /\ UNCHANGED <<kernel, rsa, cerr, calls>>

(***************************************************************************)
(* ReadContext and WriteContext, through read and write.                   *)
(***************************************************************************)
Goto(c, place) == pc' = [pc EXCEPT ![c] = place]

SameWay(c) == IF c \in Readers THEN Readers ELSE Writers

Return(c, n, err) ==
    /\ Goto(c, "done")
    /\ result' = [result EXCEPT ![c] = [n |-> n, err |-> err]]

\* The poller is done with the closure of c.
PollReturns(c, err) ==
    /\ Goto(c, "polled")
    /\ doErr' = [doErr EXCEPT ![c] = err]

Start(c) ==
    /\ dialer = "conn" /\ pc[c] = "idle"
    /\ IF closed # 0 THEN Return(c, 0, "EBADF")
                     ELSE Goto(c, "lock") /\ UNCHANGED result
    /\ UNCHANGED <<kernel, conn, dial, cancelled, captured, doErr>>

\* The poller lets in one call for each direction, and none once the
\* descriptor is closed.
Lock(c) ==
    /\ pc[c] = "lock"
    /\ IF descriptor # "open" THEN PollReturns(c, "closed")
       ELSE /\ \A d \in SameWay(c) : pc[d] \notin {"try", "wait"}
            /\ Goto(c, "try") /\ UNCHANGED doErr
    /\ UNCHANGED <<kernel, conn, dial, cancelled, captured, result>>

\* The closure looks at the context first, and is "ready" if that is done.
SeeCancelled(c) ==
    /\ pc[c] = "try" /\ c \in cancelled
    /\ PollReturns(c, "none")
    /\ UNCHANGED <<kernel, conn, dial, cancelled, captured, result>>

\* A run of the closure: the kernel moves k bytes, or returns an error.
Run(c, n, err) ==
    /\ pc[c] = "try" /\ c \notin cancelled
    /\ captured' = [captured EXCEPT ![c] = [n |-> n, err |-> err]]
    /\ IF ready(err) THEN PollReturns(c, "none")
                     ELSE Goto(c, "wait") /\ UNCHANGED doErr
    /\ UNCHANGED <<sock, soError, sent, half, conn, dial, cancelled, result>>

ReadsNothing(r) == "read" \in half \/ r \in EmptyReads

\* read(2) leaves n = -1 with an error (one name stands for those of a dead
\* socket), and n = 0 without one at the end, once this side has shut its reading
\* half, and when it was given no room.
Read(r) ==
    \/ /\ ~ ReadsNothing(r)
       /\ \E k \in 1 .. unread :
             /\ Run(r, k, "none")
             /\ unread' = unread - k
             /\ moved' = [moved EXCEPT ![r] = @ + k]
             /\ UNCHANGED room
    \/ /\ \/ sock = "connected" /\ unread = 0 /\ ~ ReadsNothing(r) /\ Run(r, -1, "EAGAIN")
          \/ sock = "shut" /\ unread = 0 /\ Run(r, 0, "none")
          \/ sock # "failed" /\ ReadsNothing(r) /\ Run(r, 0, "none")
          \/ sock = "failed" /\ unread = 0 /\ Run(r, -1, "ECONNRESET")
       /\ UNCHANGED <<unread, room, moved>>

\* Mutant of Write: the closure goes on until everything is written.
WriteAll(w) ==
    \/ /\ sock = "connected" /\ "write" \notin half
       /\ \E k \in 1 .. room :
             /\ moved[w] + k <= Bytes
             /\ Run(w, captured[w].n + k,
                    IF moved[w] + k = Bytes THEN "none" ELSE "EAGAIN")
             /\ room' = room - k
             /\ moved' = [moved EXCEPT ![w] = @ + k]
             /\ UNCHANGED unread
    \/ /\ \/ /\ sock = "connected" /\ room = 0 /\ "write" \notin half
             /\ Run(w, captured[w].n, "EAGAIN")
          \/ /\ sock \in {"shut", "failed"} \/ "write" \in half
             /\ Run(w, captured[w].n, "EPIPE")
       /\ UNCHANGED <<unread, room, moved>>

\* write(2) may take a part. The closure keeps count of the parts, but asks
\* for another run only when write(2) did.
Write(w) ==
    \/ /\ sock = "connected" /\ "write" \notin half
       /\ \E k \in 1 .. room :
             /\ moved[w] + k <= Bytes
             /\ Run(w, captured[w].n + k, "none")
             /\ room' = room - k
             /\ moved' = [moved EXCEPT ![w] = @ + k]
             /\ UNCHANGED unread
    \/ /\ \/ /\ sock = "connected" /\ room = 0 /\ "write" \notin half
             /\ Run(w, captured[w].n, "EAGAIN")
          \/ /\ sock \in {"shut", "failed"} \/ "write" \in half
             /\ Run(w, captured[w].n, "EPIPE")
       /\ UNCHANGED <<unread, room, moved>>

\* The poller waits until the descriptor is ready or closed, and may wake
\* the closure for nothing. Nothing of this looks at the context.
Ready(c) ==
    \/ sock # "connected"
    \/ c \in Readers /\ (unread > 0 \/ "read" \in half)
    \/ c \in Writers /\ (room > 0 \/ "write" \in half)

Wake(c) ==
    /\ pc[c] = "wait"
    /\ IF descriptor = "open" THEN Goto(c, "try") /\ UNCHANGED doErr
                              ELSE PollReturns(c, "closed")
    /\ UNCHANGED <<kernel, conn, dial, cancelled, captured, result>>

\* Mutant of doErrOf: the poller's answer is taken as it is.
doErrOfPoller(c) == doErr[c]

\* What read and write return of the poller's answer: the context's error
\* comes first.
doErrOf(c) == IF c \in cancelled THEN "context" ELSE doErr[c]

\* The call returns: an error of read and write, the end, or what it has.
Finish(c) ==
    /\ pc[c] = "polled"
    /\ IF doErrOf(c) # "none" THEN Return(c, 0, doErrOf(c))
       ELSE IF c \in Readers /\ captured[c] = Nothing THEN Return(c, 0, "EOF")
       ELSE Return(c, captured[c].n, captured[c].err)
    /\ UNCHANGED <<kernel, conn, dial, cancelled, captured, doErr>>

Cancel(c) ==
    /\ dialer = "conn" /\ c \in Contexts \ cancelled /\ pc[c] # "done"
    /\ cancelled' = cancelled \union {c}
    /\ UNCHANGED <<kernel, conn, dial, pc, captured, doErr, result>>

\* CloseRead and CloseWrite: shutdown(2) of an established socket.
Shutdown ==
    /\ dialer = "conn" /\ descriptor = "open" /\ sock \in {"connected", "shut"}
    /\ \E way \in {"read", "write"} \ half : half' = half \union {way}
    /\ UNCHANGED <<sock, soError, sent, unread, room, moved, conn, dial, calls>>

\* Mutant of Close: the flag is set and the descriptor forgotten.
CloseFlagOnly(c) ==
    /\ dialer = "conn" /\ pc[c] = "idle"
    /\ closed' = closed + 1
    /\ Goto(c, "done")
    /\ UNCHANGED <<kernel, descriptor, dial, cancelled, captured, doErr, result>>

(***************************************************************************)
(* Close: the counter first, the descriptor after.                         *)
(***************************************************************************)
Close(c) ==
    /\ dialer = "conn" /\ pc[c] = "idle"
    /\ closed' = closed + 1
    /\ Goto(c, IF closed = 0 THEN "close" ELSE "done")
    /\ UNCHANGED <<kernel, descriptor, dial, cancelled, captured, doErr, result>>

\* os.File.Close wakes the waiting closures ...
Evict(c) ==
    /\ pc[c] = "close"
    /\ descriptor' = "closing"
    /\ Goto(c, "evict")
    /\ UNCHANGED <<kernel, closed, dial, cancelled, captured, doErr, result>>

\* ... and returns when no call uses the descriptor any more.
InUse == \E c \in Calls : pc[c] \in {"try", "wait"}

Closed(c) ==
    /\ pc[c] = "evict" /\ ~ InUse
    /\ descriptor' = "closed"
    /\ sock' = "shut"
    /\ Goto(c, "done")
    /\ UNCHANGED <<soError, sent, unread, room, moved, half, closed, dial, cancelled, captured,
                   doErr, result>>

\* The collector closes an os.File that nobody holds.
Collect ==
    /\ descriptor = "loose" /\ descriptor' = "closed"
    /\ UNCHANGED <<kernel, closed, dial, calls>>

(***************************************************************************)
(* The kernel and the peer.                                                *)
(***************************************************************************)
\* An established socket may report EISCONN, says the comment at conn.go:503.
ConnectEnds ==
    /\ sock = "connecting"
    /\ \/ sock' = "connected" /\ soError' \in {soError} \union (SoErrors \intersect {"EISCONN"})
       \/ sock' = "failed" /\ soError' \in {e \in SoErrors \ {"EISCONN"} : ready(e)}
    /\ UNCHANGED <<sent, unread, room, moved, half, conn, dial, calls>>

\* An error that says only that the socket is not ready.
NotReadyYet ==
    /\ sock = "connecting" /\ soError = "none"
    /\ soError' \in SoErrors \intersect Retry
    /\ UNCHANGED <<sock, sent, unread, room, moved, half, conn, dial, calls>>

PeerSends ==
    /\ sock = "connected" /\ sent < Bytes
    /\ sent' = sent + 1 /\ unread' = unread + 1
    /\ UNCHANGED <<sock, soError, room, moved, half, conn, dial, calls>>

PeerReads ==
    /\ sock = "connected" /\ room < Bytes
    /\ room' = Bytes
    /\ UNCHANGED <<sock, soError, sent, unread, moved, half, conn, dial, calls>>

PeerEnds ==
    /\ sock = "connected"
    /\ \/ sock' = "shut" /\ UNCHANGED <<soError, unread>>
       \/ sock' = "failed" /\ soError' = "ECONNRESET" /\ unread' = 0
    /\ UNCHANGED <<sent, room, moved, half, conn, dial, calls>>

(***************************************************************************)
(* The specification. Goroutines run, the poller wakes a closure whose     *)
(* descriptor is ready or closed, and connecting ends one way or another.  *)
(* Nobody has to cancel, to close, to shut a half, to send or to read.     *)
(***************************************************************************)
Dial == Socket \/ Initiate \/ SeeError \/ SeePeer \/ Getsockname
Step(c) == Lock(c) \/ SeeCancelled(c) \/ Finish(c)
            \/ (c \in Readers /\ Read(c)) \/ (c \in Writers /\ Write(c))
CloseStep(c) == Evict(c) \/ Closed(c)
Peer == PeerSends \/ PeerReads \/ PeerEnds

Terminating ==
    /\ \/ dialer = "failed"
       \/ \A c \in Calls \union Closers : pc[c] = "done"
    /\ UNCHANGED vars

Next ==
    \/ Dial \/ Collect \/ SeeNothing \/ ConnectEnds \/ NotReadyYet \/ Peer \/ Shutdown
    \/ \E c \in Calls : Start(c) \/ Step(c) \/ Wake(c) \/ Cancel(c)
    \/ \E c \in Closers : Close(c) \/ CloseStep(c)
    \/ Terminating

Spec ==
    /\ Init /\ [][Next]_vars
    /\ WF_vars(Dial) /\ WF_vars(ConnectEnds)
    /\ \A c \in Calls : /\ WF_vars(Step(c))
                        /\ WF_vars(Wake(c) /\ (Ready(c) \/ descriptor # "open"))
    /\ \A c \in Closers : WF_vars(CloseStep(c))

(***************************************************************************)
(* Properties.                                                             *)
(***************************************************************************)
TypeOK ==
    /\ sock \in {"new", "connecting", "connected", "failed", "shut"}
    /\ soError \in SoErrors \union {"none", "ECONNRESET"}
    /\ sent \in 0 .. Bytes /\ unread \in 0 .. sent /\ room \in 0 .. Bytes
    /\ moved \in [Calls -> 0 .. Bytes] /\ half \subseteq {"read", "write"}
    /\ descriptor \in {"none", "open", "loose", "closing", "closed"}
    /\ closed \in 0 .. Cardinality(Closers) + 1
    /\ dialer \in {"start", "connect", "wait", "connected", "conn", "failed"}
    /\ rsa \in BOOLEAN /\ cerr \in SoErrors \union {"none", "ECONNRESET"}
    /\ \A c \in Calls : pc[c] \in {"idle", "lock", "try", "wait", "polled", "done"}
    /\ \A c \in Closers : pc[c] \in {"idle", "close", "evict", "done"}
    /\ cancelled \subseteq Contexts
    /\ \A c \in Calls :
          /\ captured[c] \in [n : -1 .. Bytes, err : Failures \union {"none", "EAGAIN"}]
          /\ doErr[c] \in {"none", "closed"}
          /\ result[c] \in [n : -1 .. Bytes,
                           err : Failures \union {"none", "EOF", "EBADF", "closed", "context"}]

\* A call that returns success has the exact number of bytes the kernel moved
\* for it, and one that returns an error has moved none, so that its caller may
\* try again. It is the reason why `return 0, doErr` is right. Only a context
\* that ends can hide bytes that were moved (conn.go:120, 160).
CountsExact ==
    \A c \in Calls \ cancelled :
        pc[c] = "done" =>
            moved[c] = IF result[c].err = "none" THEN result[c].n ELSE 0

\* A reader with room for a byte is told of the end only when there is one: the
\* peer has ended the stream and everything it sent was read, or this side has
\* shut the half it reads (conn.go:93, 121), and never because its context ended.
\* A reader without room is told of the end of a stream that has none.
EndIsTheEnd ==
    [][\A r \in Readers \ EmptyReads :
          pc[r] # "done" /\ pc'[r] = "done" /\ result'[r].err = "EOF"
              => (sock = "shut" /\ unread = 0) \/ "read" \in half]_vars

Connects == dialer # "connected" /\ dialer' = "connected"
HasPeer == sock \in {"connected", "shut"}

\* Once it has waited for the poller, Connect succeeds only with a peer: it was
\* named by getpeername, whatever the poller woke the closure for and whatever
\* SO_ERROR held before, or SO_ERROR was EISCONN, and then the peer has not reset
\* the socket since (conn.go:461-507).
WaitVerifies == [][dialer = "wait" /\ Connects => HasPeer']_vars

\* A dial that the kernel answers comes to an end; when it fails it leaves no
\* descriptor behind, but for one that New could not wrap, which waits for the
\* collector (common/vsock/conn.go:32, 45).
DialReturns ==
    <>(dialer = "conn" \/ (dialer = "failed" /\ descriptor \in {"none", "loose", "closed"}))

\* "closes the underlying file descriptor for the Conn, which also causes all
\* in-flight I/O operations to immediately unblock and return errors"
\* (conn.go:73), whatever the peer does.
CloseUnblocks ==
    \A c \in Calls :
        (closed # 0) ~> (pc[c] \in {"idle", "done"} /\ descriptor = "closed")
================================================================================
