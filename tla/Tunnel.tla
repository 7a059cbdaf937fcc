--------------------------------- MODULE Tunnel --------------------------------
(***************************************************************************)
(* The path from a call in the enclave to its remote: the round tripper,   *)
(* a vsock connection, the proxy of the host, a TCP connection and the     *)
(* remote, which may answer, stay silent or close at any time. The host's  *)
(* process may be restarted by its operator.                               *)
(***************************************************************************)
EXTENDS RoundTrip, VsockProxy

CONSTANT MaxRestarts \* bound: the restarts of the host in a behaviour

ASSUME RestartsAssumption == MaxRestarts \in Nat

VARIABLES
    read,     \* what the remote has read of each call
    answers,  \* what it has written
    restarts  \* the restarts of the host so far

remote == <<read, answers>>
vars == <<vs, client, proxy, remote, restarts>>

Init ==
    /\ RoundTripInit
    /\ ProxyInit
    /\ read = [c \in Calls |-> <<>>]
    /\ answers = [c \in Calls |-> <<>>]
    /\ restarts = 0

\* What a remote that serves the call sends.
Response(c) ==
    IF Scheme[c] = "https" THEN <<"hello", "head", "body">> ELSE <<"head", "body">>

Connect(c) == Dial(c) /\ Queue(c) /\ UNCHANGED <<remote, restarts>>

Enclave(A) == A /\ UNCHANGED <<proxy, remote, restarts>>

Host(A) == A /\ UNCHANGED <<client, remote, restarts>>

HostRestarts ==
    /\ restarts < MaxRestarts
    /\ Restart
    /\ restarts' = restarts + 1
    /\ UNCHANGED <<client, remote>>

(***************************************************************************)
(* The remote and the kernels.                                             *)
(***************************************************************************)
RemoteReads(c) ==
    /\ HasData(tcp[c], "acceptor")
    /\ read' = [read EXCEPT ![c] = Append(@, Head(tcp[c].to["acceptor"]))]
    /\ tcp' = [tcp EXCEPT ![c] = Read(@, "acceptor")]
    /\ UNCHANGED <<vs, client, loop, at, copy, held, answers, restarts>>

\* It may answer before it has read the request, not before the client's hello.
RemoteAnswers(c) ==
    /\ Writable(tcp[c])
    /\ Scheme[c] = "https" => read[c] # <<>>
    /\ Len(answers[c]) < Len(Response(c))
    /\ LET m == Response(c)[Len(answers[c]) + 1]
       IN  /\ answers' = [answers EXCEPT ![c] = Append(@, m)]
           /\ tcp' = [tcp EXCEPT ![c] = Write(@, "acceptor", m)]
    /\ UNCHANGED <<vs, client, loop, at, copy, held, read, restarts>>

RemoteCloses(c) ==
    /\ "acceptor" \in tcp[c].open
    /\ tcp' = [tcp EXCEPT ![c] = Close(@, "acceptor")]
    /\ UNCHANGED <<vs, client, loop, at, copy, held, remote, restarts>>

Resets(c) ==
    /\ \/ vs[c].open # End /\ vs' = [vs EXCEPT ![c] = Reset(@)] /\ UNCHANGED tcp
       \/ tcp[c].open # End /\ tcp' = [tcp EXCEPT ![c] = Reset(@)] /\ UNCHANGED vs
    /\ UNCHANGED <<client, loop, at, copy, held, remote, restarts>>

(***************************************************************************)
(* The specification. Goroutines that can run run, time passes, and the    *)
(* kernel ends a dial. The remote, the collector and the operator may do   *)
(* nothing.                                                                *)
(***************************************************************************)
Next ==
    \/ \E c \in Calls :
          \/ Enclave(Do(c)) \/ Connect(c) \/ Enclave(Expire(c))
          \/ Enclave(CallerStep(c)) \/ Enclave(HandshakeStep(c))
          \/ Host(HandleStep(c)) \/ Host(CollectConnection(c))
          \/ \E way \in Way : Host(CopyStep(c, way))
          \/ RemoteReads(c) \/ RemoteAnswers(c) \/ RemoteCloses(c) \/ Resets(c)
    \/ Host(LoopStep) \/ Host(CollectListener) \/ HostRestarts

Spec == Init /\ [][Next]_vars

Fairness ==
    /\ \A c \in Calls :
          /\ WF_vars(Enclave(CallerStep(c))) /\ WF_vars(Enclave(HandshakeStep(c)))
          /\ WF_vars(Enclave(Expire(c)))
          /\ WF_vars(Host(HandleStep(c)))
          /\ \A way \in Way : WF_vars(Host(CopyStep(c, way)))
    /\ WF_vars(Host(LoopStep))

FairSpec == Spec /\ Fairness

(***************************************************************************)
(* Properties.                                                             *)
(***************************************************************************)

\* Type correctness of the enclave's, the host's and the remote's state.
TypeOK ==
    /\ vs \in [Calls -> Connection(Message)]
    /\ tcp \in [Calls -> Connection(Message)]
    /\ pc \in [Calls -> {"idle", "dialing", "handshake", "write", "head",
                          "body", "drain", "close", "done"}]
    /\ hs \in [Calls -> {"none", "sendHello", "awaitHello", "succeeded", "broken"}]
    /\ expired \in [Calls -> BOOLEAN]
    /\ result \in [Calls -> {"none", "ok", "failed"}]
    /\ loop \in {"calling", "parked", "returned", "collected"}
    /\ at \in [Calls -> {"none", "queued", "dialing", "copying", "dropped", "collected"}]
    /\ copy \in [Calls -> [Way -> {"none", "read", "write", "ended"}]]
    /\ held \in [Calls -> [Way -> Seq(Message)]]
    /\ {sent, got, read, answers} \subseteq [Calls -> Seq(Message)]
    /\ restarts \in 0 .. MaxRestarts

\* A call succeeds only with the whole response its remote wrote for it,
\* whatever the proxy dropped and whoever closed a connection first.
OkIsComplete ==
    \A c \in Calls : result[c] = "ok" => got[c] = Response(c) /\ answers[c] = Response(c)

\* However a call ends, its connection is closed (every error path of RoundTrip
\* and the Close of the body) and no message waits on it.
ReturnedIsClosed ==
    \A c \in Calls : pc[c] = "done" => "dialer" \notin vs[c].open

\* A call over TLS ends, even if the host or the remote never says a word
\* (SetDeadline on the connection, the select on the context).
HttpsReturns ==
    \A c \in Calls : Scheme[c] = "https" => (pc[c] = "dialing" ~> pc[c] = "done")

\* The goroutine of a handshake that lost the race ends too.
HandshakeEnds ==
    \A c \in Calls : hs[c] = "sendHello" ~> hs[c] \in {"succeeded", "broken"}

\* Once the enclave has closed its end, the proxy releases both descriptors and
\* both goroutines of the connection, even if the remote keeps its end open.
ProxyReleases ==
    \A c \in Calls :
        at[c] = "copying" /\ "dialer" \notin vs[c].open
            ~> /\ "acceptor" \notin vs[c].open /\ "dialer" \notin tcp[c].open
               /\ \A way \in Way : copy[c][way] \in {"ended", "none"}

\* The comment of the plain transport, "Add timeout to context if not present"
\* (transport.go:163), and client.go:45 give its calls 30 seconds; they must then
\* end, at the latest once their remote has closed the connection.
HttpReturns ==
    \A c \in Calls : pc[c] = "dialing" ~> pc[c] = "done"

\* "It will forward all traffic from this vsock port to the URL provided"
\* (host/network/proxy.go:16): a queued connection is taken care of, also one
\* that is queued behind a loop that has returned (proxy.go:75-78).
AllTrafficForwarded == \A c \in Calls : at[c] = "queued" ~> at[c] # "queued"

(***************************************************************************)
(* Each call is a pair of channels.                                        *)
(***************************************************************************)
Channels == Calls \X Way

Channel == INSTANCE Pipe WITH
    sent <- [k \in Channels |-> IF k[2] = "up" THEN sent[k[1]] ELSE answers[k[1]]],
    received <- [k \in Channels |-> IF k[2] = "up" THEN read[k[1]] ELSE got[k[1]]]

\* Through two connections and two copying goroutines, with resets, closes and
\* restarts at any time, no message is skipped, repeated or reordered.
ImplementsPipe == Channel!Spec
================================================================================
