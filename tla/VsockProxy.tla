------------------------------- MODULE VsockProxy ------------------------------
(***************************************************************************)
(* The stream proxy of the host: NewVsockProxy accepts connections from    *)
(* the enclave, and for each one handleVsock dials the remote and starts   *)
(* two goroutines that copy one way each. Only the one that copies towards *)
(* the remote closes the connections when it ends. A connection whose      *)
(* remote cannot be dialled is not closed: it stays until the garbage      *)
(* collector finds it. The first error of Accept ends the accept loop.     *)
(***************************************************************************)
EXTENDS Connections, FiniteSets

CONSTANT FdLimit \* the descriptors the process may have open for connections

ASSUME FdAssumption == FdLimit \in Nat

VARIABLES
    tcp,  \* the connection to the remote; the proxy is its dialer
    loop, \* the accept loop
    at,   \* where the handling of each connection is
    copy, \* the two copying goroutines of each connection
    held  \* what each has read and not written

proxy == <<tcp, loop, at, copy, held>>

Way == {"up", "down"}  \* to the remote, to the enclave

NoCopy == [way \in Way |-> "none"]

ProxyInit ==
    /\ tcp = [c \in Calls |-> NotDialed]
    /\ loop = "calling"
    /\ at = [c \in Calls |-> "none"]
    /\ copy = [c \in Calls |-> NoCopy]
    /\ held = [c \in Calls |-> [way \in Way |-> <<>>]]

\* The kernel queues a new connection on the listening socket.
Queue(c) ==
    /\ loop # "collected"
    /\ at[c] = "none"
    /\ at' = [at EXCEPT ![c] = "queued"]
    /\ UNCHANGED <<tcp, loop, copy, held>>

Queued == {c \in Calls : at[c] = "queued"}

Descriptors ==
    Cardinality({c \in Calls : at[c] \in {"dialing", "copying", "dropped"}
                                  /\ "acceptor" \in vs[c].open})
      + Cardinality({c \in Calls : "dialer" \in tcp[c].open})

\* accept4 asks for a descriptor before it looks at the queue.
InAccept == loop = "calling" \/ (loop = "parked" /\ Queued # {})

Accept(c) ==
    /\ InAccept /\ c \in Queued
    /\ Descriptors < FdLimit
    /\ at' = [at EXCEPT ![c] = "dialing"]
    /\ loop' = "calling"
    /\ UNCHANGED <<vs, tcp, copy, held>>

Park ==
    /\ loop = "calling" /\ Queued = {}
    /\ Descriptors < FdLimit
    /\ loop' = "parked"
    /\ UNCHANGED <<vs, tcp, at, copy, held>>

\* The loop returns; the listening socket is open and no longer referenced.
AcceptFails ==
    /\ InAccept
    /\ Descriptors >= FdLimit
    /\ loop' = "returned"
    /\ UNCHANGED <<vs, tcp, at, copy, held>>

DialRemote(c) ==
    /\ at[c] = "dialing"
    /\ Descriptors < FdLimit
    /\ tcp' = [tcp EXCEPT ![c] = Connected]
    /\ at' = [at EXCEPT ![c] = "copying"]
    /\ copy' = [copy EXCEPT ![c] = [way \in Way |-> "read"]]
    /\ UNCHANGED <<vs, loop, held>>

DialRemoteFails(c) ==
    /\ at[c] = "dialing"
    /\ at' = [at EXCEPT ![c] = "dropped"]
    /\ UNCHANGED <<vs, tcp, loop, copy, held>>

(***************************************************************************)
(* forward: io.Copy, and for the way up the deferred closes.               *)
(***************************************************************************)
\* Mutant of CopyRead: it does not wait for the write of what it holds.
CopyReadAhead(c, way) ==
    /\ copy[c][way] \in {"read", "write"}
    /\ IF way = "up"
       THEN /\ HasData(vs[c], "acceptor")
            /\ held' = [held EXCEPT ![c][way] = <<Head(vs[c].to["acceptor"])>>]
            /\ vs' = [vs EXCEPT ![c] = Read(@, "acceptor")]
            /\ UNCHANGED tcp
       ELSE /\ HasData(tcp[c], "dialer")
            /\ held' = [held EXCEPT ![c][way] = <<Head(tcp[c].to["dialer"])>>]
            /\ tcp' = [tcp EXCEPT ![c] = Read(@, "dialer")]
            /\ UNCHANGED vs
    /\ copy' = [copy EXCEPT ![c][way] = "write"]
    /\ UNCHANGED <<loop, at>>

CopyRead(c, way) ==
    /\ copy[c][way] = "read"
    /\ IF way = "up"
       THEN /\ HasData(vs[c], "acceptor")
            /\ held' = [held EXCEPT ![c][way] = <<Head(vs[c].to["acceptor"])>>]
            /\ vs' = [vs EXCEPT ![c] = Read(@, "acceptor")]
            /\ UNCHANGED tcp
       ELSE /\ HasData(tcp[c], "dialer")
            /\ held' = [held EXCEPT ![c][way] = <<Head(tcp[c].to["dialer"])>>]
            /\ tcp' = [tcp EXCEPT ![c] = Read(@, "dialer")]
            /\ UNCHANGED vs
    /\ copy' = [copy EXCEPT ![c][way] = "write"]
    /\ UNCHANGED <<loop, at>>

CopyWrite(c, way) ==
    /\ copy[c][way] = "write"
    /\ IF way = "up"
       THEN /\ Writable(tcp[c])
            /\ tcp' = [tcp EXCEPT ![c] = Write(@, "dialer", Head(held[c][way]))]
            /\ UNCHANGED vs
       ELSE /\ Writable(vs[c])
            /\ vs' = [vs EXCEPT ![c] = Write(@, "acceptor", Head(held[c][way]))]
            /\ UNCHANGED tcp
    /\ held' = [held EXCEPT ![c][way] = <<>>]
    /\ copy' = [copy EXCEPT ![c][way] = "read"]
    /\ UNCHANGED <<loop, at>>

CopyStops(c, way) ==
    \/ copy[c][way] = "read" /\ way = "up" /\ ReadEnds(vs[c], "acceptor")
    \/ copy[c][way] = "read" /\ way = "down" /\ ReadEnds(tcp[c], "dialer")
    \/ copy[c][way] = "write" /\ way = "up" /\ ~Writable(tcp[c])
    \/ copy[c][way] = "write" /\ way = "down" /\ ~Writable(vs[c])

\* Mutant of CopyEnds: only the source is closed.
CopyEndsSourceOnly(c, way) ==
    /\ CopyStops(c, way)
    /\ copy' = [copy EXCEPT ![c][way] = "ended"]
    /\ held' = [held EXCEPT ![c][way] = <<>>]
    /\ IF way = "up" THEN vs' = [vs EXCEPT ![c] = Close(@, "acceptor")] ELSE UNCHANGED vs
    /\ UNCHANGED <<tcp, loop, at>>

CopyEnds(c, way) ==
    /\ CopyStops(c, way)
    /\ copy' = [copy EXCEPT ![c][way] = "ended"]
    /\ held' = [held EXCEPT ![c][way] = <<>>]
    /\ IF way = "up"
       THEN /\ vs' = [vs EXCEPT ![c] = Close(@, "acceptor")]
            /\ tcp' = [tcp EXCEPT ![c] = Close(@, "dialer")]
       ELSE UNCHANGED <<vs, tcp>>
    /\ UNCHANGED <<loop, at>>

(***************************************************************************)
(* The garbage collector, whenever it likes, and the operator.             *)
(***************************************************************************)
CollectConnection(c) ==
    /\ at[c] = "dropped"
    /\ vs' = [vs EXCEPT ![c] = Close(@, "acceptor")]
    /\ at' = [at EXCEPT ![c] = "collected"]
    /\ UNCHANGED <<tcp, loop, copy, held>>

\* Connections that were never accepted go with the listening socket.
CollectListener ==
    /\ loop = "returned"
    /\ loop' = "collected"
    /\ vs' = [c \in Calls |-> IF c \in Queued THEN Close(vs[c], "acceptor") ELSE vs[c]]
    /\ at' = [c \in Calls |-> IF c \in Queued THEN "collected" ELSE at[c]]
    /\ UNCHANGED <<tcp, copy, held>>

\* The process ends and is started again; the kernel closes what it had open.
Restart ==
    /\ loop' = "calling"
    /\ vs' = [c \in Calls |-> Close(vs[c], "acceptor")]
    /\ tcp' = [c \in Calls |-> Close(tcp[c], "dialer")]
    /\ at' = [c \in Calls |-> IF at[c] = "none" THEN "none" ELSE "collected"]
    /\ copy' = [c \in Calls |-> NoCopy]
    /\ held' = [c \in Calls |-> [way \in Way |-> <<>>]]

LoopStep == Park \/ AcceptFails \/ \E c \in Calls : Accept(c)

HandleStep(c) == DialRemote(c) \/ DialRemoteFails(c)

CopyStep(c, way) == CopyRead(c, way) \/ CopyWrite(c, way) \/ CopyEnds(c, way)
================================================================================
