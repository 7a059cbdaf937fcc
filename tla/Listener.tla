------------------------------- MODULE Listener --------------------------------
(***************************************************************************)
(* A vsock listener from Listen to Close. One goroutine opens it; then     *)
(* others accept, each until it is told that the listener is closed, one   *)
(* may set a deadline, and several may close it. The socket of an accepted *)
(* connection is a Conn of its own (SocketConn).                           *)
(*                                                                         *)
(* The kernel (socket(2), bind(2), listen(2), accept4(2) and its queue),   *)
(* the poller (as in SocketConn; it learns of an arrival, not of a queue   *)
(* that is not empty) and the collector, which closes an os.File nobody    *)
(* holds any more, are external.                                           *)
(***************************************************************************)
EXTENDS Naturals, Sequences, FiniteSets

CONSTANTS
    Peers,      \* the connections that others make
    Acceptors,  \* the goroutines that call Accept, again and again
    Closers,    \* calls of Close
    MaxFaults,  \* bound: the system calls of Accept that fail in a behaviour
    Nobody      \* no acceptor, no peer

ASSUME ListenerAssumption ==
    /\ Acceptors \intersect Closers = {}
    /\ Nobody \notin Acceptors \union Peers
    /\ IsFiniteSet(Closers)
    /\ MaxFaults \in Nat

VARIABLES
    sock,       \* kernel: "none", "made", "bound", "listening", "shut"
    queue,      \* kernel: the connections nobody has accepted
    arrival,    \* poller: whether one came since a waiting closure was woken
    peer,       \* each: "away", "queued", "taken", "served", "loose" (left to
                \* the collector), "gone"
    owner,      \* who took it from the queue
    descriptor, \* "none", "open", "loose", "closing", "closed"
    closed,     \* Conn.closed
    opener,     \* where Listen is
    deadline,   \* "none", "set", "passed", "cleared": it is set once
    pc,         \* where each acceptor and closer is
    nfd,        \* the variable of that name a call of Accept captures
    result,     \* what the last Accept of each goroutine returned
    faults      \* the failures of Accept's system calls so far

kernel == <<sock, queue, arrival, peer, owner>>
listener == <<descriptor, closed, opener, deadline>>
calls == <<pc, nfd, result>>
vars == <<kernel, listener, calls, faults>>

Init ==
    /\ sock = "none" /\ queue = <<>> /\ arrival = FALSE
    /\ peer = [p \in Peers |-> "away"]
    /\ owner = [p \in Peers |-> Nobody]
    /\ descriptor = "none" /\ closed = 0
    /\ opener = "start" /\ deadline = "none"
    /\ pc = [c \in Acceptors \union Closers |-> "idle"]
    /\ nfd = [a \in Acceptors |-> Nobody]
    /\ result = [a \in Acceptors |-> "none"]
    /\ faults = 0

(***************************************************************************)
(* Listen: ContextID, Socket with New, Bind, Listen, Getsockname.          *)
(***************************************************************************)
\* ContextID or socket(2) fails, or New does: it forgets the os.File it made.
Socket ==
    /\ opener = "start"
    /\ \/ opener' = "failed" /\ UNCHANGED <<sock, descriptor>>
       \/ opener' = "failed" /\ sock' = "made" /\ descriptor' = "loose"
       \/ opener' = "bind" /\ sock' = "made" /\ descriptor' = "open"
    /\ UNCHANGED <<queue, arrival, peer, owner, closed, deadline, calls, faults>>

\* Mutant of listenFails: the error is returned and the Conn left to itself.
listenFailsOpen ==
    /\ opener' = "failed"
    /\ UNCHANGED <<sock, queue, arrival, peer, owner, descriptor, closed>>

\* The kernel closes the socket: nobody waits any more.
Shut ==
    /\ sock' = "shut" /\ queue' = <<>>
    /\ peer' = [p \in Peers |-> IF peer[p] = "queued" THEN "gone" ELSE peer[p]]
    /\ UNCHANGED <<arrival, owner>>

\* listen closes the Conn it cannot use. Peers may be waiting in it by then.
listenFails ==
    /\ opener' = "failed"
    /\ descriptor' = "closed" /\ closed' = closed + 1
    /\ Shut

Bind ==
    /\ opener = "bind"
    /\ \/ /\ opener' = "listen" /\ sock' = "bound"
          /\ UNCHANGED <<queue, arrival, peer, owner, descriptor, closed>>
       \/ listenFails
    /\ UNCHANGED <<deadline, calls, faults>>

Listen ==
    /\ opener = "listen"
    /\ \/ /\ opener' = "name" /\ sock' = "listening"
          /\ UNCHANGED <<queue, arrival, peer, owner, descriptor, closed>>
       \/ listenFails
    /\ UNCHANGED <<deadline, calls, faults>>

\* Getsockname, and the test for an address of the right family.
newListener ==
    /\ opener = "name"
    /\ \/ /\ opener' = "serving"
          /\ UNCHANGED <<kernel, descriptor, closed>>
       \/ listenFails
    /\ UNCHANGED <<deadline, calls, faults>>

(***************************************************************************)
(* Accept, through read.                                                   *)
(***************************************************************************)
Goto(c, place) == pc' = [pc EXCEPT ![c] = place]

\* Accept returns, and its caller calls again unless the listener is closed.
Return(a, what) ==
    /\ result' = [result EXCEPT ![a] = what]
    /\ Goto(a, IF what = "closed" THEN "stopped" ELSE "idle")

Accept(a) ==
    /\ opener = "serving" /\ pc[a] = "idle"
    /\ IF closed # 0 THEN Return(a, "closed")
                     ELSE Goto(a, "lock") /\ UNCHANGED result
    /\ UNCHANGED <<kernel, listener, nfd, faults>>

\* The poller lets in one call, forgets the arrivals it knows of, and lets in
\* none once the descriptor is closed or the deadline has passed.
Lock(a) ==
    /\ pc[a] = "lock"
    /\ IF descriptor # "open" THEN Return(a, "closed") /\ UNCHANGED arrival
       ELSE /\ \A b \in Acceptors : pc[b] \notin {"try", "wait"}
            /\ arrival' = FALSE
            /\ IF deadline = "passed" THEN Return(a, "timeout")
                                      ELSE Goto(a, "try") /\ UNCHANGED result
    /\ UNCHANGED <<sock, queue, peer, owner, listener, nfd, faults>>

\* Mutant of accept4: what it returns is dropped when the listener has been
\* closed meanwhile.
accept4Checked(a) ==
    /\ pc[a] = "try" /\ queue # <<>>
    /\ peer' = [peer EXCEPT ![Head(queue)] = "taken"]
    /\ owner' = [owner EXCEPT ![Head(queue)] = a]
    /\ queue' = Tail(queue)
    /\ IF closed # 0 THEN Return(a, "closed") /\ UNCHANGED nfd
       ELSE /\ nfd' = [nfd EXCEPT ![a] = Head(queue)]
            /\ Goto(a, "wrap") /\ UNCHANGED result
    /\ UNCHANGED <<sock, arrival, listener, faults>>

\* The closure runs: accept4(2) takes the first of the queue, ...
accept4(a) ==
    /\ pc[a] = "try" /\ queue # <<>>
    /\ nfd' = [nfd EXCEPT ![a] = Head(queue)]
    /\ peer' = [peer EXCEPT ![Head(queue)] = "taken"]
    /\ owner' = [owner EXCEPT ![Head(queue)] = a]
    /\ queue' = Tail(queue)
    /\ Goto(a, "wrap")
    /\ UNCHANGED <<sock, arrival, listener, result, faults>>

\* ... finds none, which is "not ready", ...
NotReady(a) ==
    /\ pc[a] = "try" /\ queue = <<>>
    /\ Goto(a, "wait")
    /\ UNCHANGED <<kernel, listener, nfd, result, faults>>

\* ... or fails for want of a descriptor, before it looks at the queue.
accept4Fails(a) ==
    /\ pc[a] = "try" /\ faults < MaxFaults
    /\ faults' = faults + 1
    /\ Return(a, "error")
    /\ UNCHANGED <<kernel, listener, nfd>>

\* The poller wakes the closure for an arrival, for nothing, for the deadline
\* or because the descriptor is closed.
Wake(a) ==
    /\ pc[a] = "wait"
    /\ IF descriptor # "open" THEN Return(a, "closed") /\ UNCHANGED arrival
       ELSE IF deadline = "passed" THEN Return(a, "timeout") /\ UNCHANGED arrival
       ELSE Goto(a, "try") /\ arrival' = FALSE /\ UNCHANGED result
    /\ UNCHANGED <<sock, queue, peer, owner, listener, nfd, faults>>

\* Accept wraps the descriptor in a Conn. When New fails the os.File is left to
\* the collector and the peer served by nobody. No deadline and no Close is
\* looked at any more.
New(a) ==
    /\ pc[a] = "wrap"
    /\ \/ /\ peer' = [peer EXCEPT ![nfd[a]] = "served"]
          /\ Return(a, "conn")
          /\ UNCHANGED faults
       \/ /\ faults < MaxFaults /\ faults' = faults + 1
          /\ peer' = [peer EXCEPT ![nfd[a]] = "loose"]
          /\ Return(a, "error")
    /\ nfd' = [nfd EXCEPT ![a] = Nobody]
    /\ UNCHANGED <<sock, queue, arrival, owner, listener>>

(***************************************************************************)
(* SetDeadline and Close.                                                  *)
(***************************************************************************)
SetDeadline ==
    /\ opener = "serving" /\ descriptor = "open"
    /\ \/ deadline = "none" /\ deadline' = "set"
       \/ deadline \in {"set", "passed"} /\ deadline' = "cleared"
    /\ UNCHANGED <<kernel, descriptor, closed, opener, calls, faults>>

DeadlinePasses ==
    /\ deadline = "set" /\ deadline' = "passed"
    /\ UNCHANGED <<kernel, descriptor, closed, opener, calls, faults>>

\* Mutant of Close: the flag is set and the descriptor stays open.
CloseFlagOnly(c) ==
    /\ opener = "serving" /\ pc[c] = "idle"
    /\ closed' = closed + 1
    /\ Goto(c, "done")
    /\ UNCHANGED <<kernel, descriptor, opener, deadline, nfd, result, faults>>

\* Mutant of Close: a call that is not the first is made again.
CloseAgain(c) ==
    /\ opener = "serving" /\ pc[c] = "idle"
    /\ closed' = closed + 1
    /\ Goto(c, IF closed = 0 THEN "close" ELSE "idle")
    /\ UNCHANGED <<kernel, descriptor, opener, deadline, nfd, result, faults>>

\* The first call closes the descriptor; the others return at once.
Close(c) ==
    /\ opener = "serving" /\ pc[c] = "idle"
    /\ closed' = closed + 1
    /\ Goto(c, IF closed = 0 THEN "close" ELSE "done")
    /\ UNCHANGED <<kernel, descriptor, opener, deadline, nfd, result, faults>>

\* os.File.Close wakes the call that waits ...
Evict(c) ==
    /\ pc[c] = "close"
    /\ descriptor' = "closing"
    /\ Goto(c, "evict")
    /\ UNCHANGED <<kernel, closed, opener, deadline, nfd, result, faults>>

\* ... and closes the descriptor when no closure uses it any more.
Closed(c) ==
    /\ pc[c] = "evict" /\ \A a \in Acceptors : pc[a] \notin {"try", "wait"}
    /\ descriptor' = "closed"
    /\ Shut
    /\ Goto(c, "done")
    /\ UNCHANGED <<closed, opener, deadline, nfd, result, faults>>

(***************************************************************************)
(* The peers and the collector.                                            *)
(***************************************************************************)
Arrive(p) ==
    /\ sock = "listening" /\ peer[p] = "away"
    /\ peer' = [peer EXCEPT ![p] = "queued"]
    /\ queue' = Append(queue, p)
    /\ arrival' = TRUE
    /\ UNCHANGED <<sock, owner, listener, calls, faults>>

Collect ==
    \/ /\ descriptor = "loose" /\ descriptor' = "closed"
       /\ Shut
       /\ UNCHANGED <<closed, opener, deadline, calls, faults>>
    \/ \E p \in Peers :
          /\ peer[p] = "loose"
          /\ peer' = [peer EXCEPT ![p] = "gone"]
          /\ UNCHANGED <<sock, queue, arrival, owner, listener, calls, faults>>

(***************************************************************************)
(* The specification. Goroutines run, an acceptor calls again, and the     *)
(* poller wakes a closure for what it knows of. Nobody has to close, to    *)
(* connect, to set a deadline or to clear it.                              *)
(***************************************************************************)
Opening == Socket \/ Bind \/ Listen \/ newListener
Step(a) == Accept(a) \/ Lock(a) \/ accept4(a) \/ NotReady(a) \/ accept4Fails(a) \/ New(a)
CloseStep(c) == Evict(c) \/ Closed(c)

Terminating ==
    /\ \/ opener = "failed"
       \/ \A c \in Acceptors \union Closers : pc[c] \in {"stopped", "done", "wait", "idle"}
    /\ UNCHANGED vars

Next ==
    \/ Opening \/ SetDeadline \/ DeadlinePasses \/ Collect
    \/ \E p \in Peers : Arrive(p)
    \/ \E a \in Acceptors : Step(a) \/ Wake(a)
    \/ \E c \in Closers : Close(c) \/ CloseStep(c)
    \/ Terminating

\* What the poller knows of.
Woken == arrival \/ deadline = "passed" \/ descriptor # "open"

Spec ==
    /\ Init /\ [][Next]_vars
    /\ WF_vars(Opening)
    /\ \A a \in Acceptors : WF_vars(Step(a)) /\ WF_vars(Wake(a) /\ Woken)
    /\ \A c \in Closers : WF_vars(CloseStep(c))

(***************************************************************************)
(* Properties.                                                             *)
(***************************************************************************)
TypeOK ==
    /\ sock \in {"none", "made", "bound", "listening", "shut"}
    /\ \A i \in DOMAIN queue : queue[i] \in Peers
    /\ arrival \in BOOLEAN
    /\ peer \in [Peers -> {"away", "queued", "taken", "served", "loose", "gone"}]
    /\ owner \in [Peers -> Acceptors \union {Nobody}]
    /\ descriptor \in {"none", "open", "loose", "closing", "closed"}
    /\ closed \in 0 .. Cardinality(Closers) + 1
    /\ opener \in {"start", "bind", "listen", "name", "serving", "failed"}
    /\ deadline \in {"none", "set", "passed", "cleared"}
    /\ \A a \in Acceptors : pc[a] \in {"idle", "lock", "try", "wait", "wrap", "stopped"}
    /\ \A c \in Closers : pc[c] \in {"idle", "close", "evict", "done"}
    /\ nfd \in [Acceptors -> Peers \union {Nobody}]
    /\ result \in [Acceptors -> {"none", "conn", "error", "timeout", "closed"}]
    /\ faults \in 0 .. MaxFaults

\* The listener is an accept queue: whatever deadlines, closes and failures fall
\* between accept4(2) and the return of Accept (conn.go:374-396), a connection
\* taken from the kernel is served once, or broken by a New that failed.
Fate(p) ==
    CASE peer[p] = "served" -> "served"
      [] peer[p] \in {"loose", "gone"} /\ owner[p] # Nobody -> "broken"
      [] peer[p] = "gone" /\ owner[p] = Nobody -> "refused"
      [] OTHER -> "none"

Queue == INSTANCE AcceptQueue WITH
    stage <- IF sock \in {"none", "made", "bound"} THEN "before"
             ELSE IF sock = "listening" THEN "open" ELSE "over",
    waiting <- queue,
    taker <- owner,
    fate <- [p \in Peers |-> Fate(p)]

ImplementsQueue == Queue!Spec

\* A connection that waits is taken or refused, also one that came while Listen
\* was about to fail, or between accept4(2) and the poller's wait, unless the
\* deadline has passed and stays so.
QueuedIsServed ==
    \A p \in Peers : peer[p] = "queued" ~> (peer[p] # "queued" \/ deadline = "passed")

\* "Close stops listening on the VM sockets address" (vsock.go:148): from some
\* time after the first Close the descriptor is closed and every Accept has
\* returned, even if Close is called again.
CloseStops ==
    closed # 0 ~> [](descriptor = "closed" /\ \A a \in Acceptors : pc[a] \in {"idle", "stopped"})
================================================================================
