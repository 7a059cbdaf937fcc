----------------------------- MODULE SocketConnProofs ---------------------------
(***************************************************************************)
(* Proofs about SocketConn, for any calls, any errors of connect(2) and    *)
(* SO_ERROR and any number of bytes: the types, the count a call returns,  *)
(* the end a reader is told of, and the peer Connect has waited for.       *)
(***************************************************************************)
EXTENDS SocketConn, FiniteSetTheorems, TLAPS

(***************************************************************************)
(* The inductive invariant.                                                *)
(***************************************************************************)
\* The functions of the state.
Mapped ==
    /\ pc \in [Calls \union Closers -> {"idle", "lock", "try", "wait", "polled",
                                        "close", "evict", "done"}]
    /\ captured \in [Calls -> [n : -1 .. Bytes, err : Failures \union {"none", "EAGAIN"}]]
    /\ doErr \in [Calls -> {"none", "closed"}]
    /\ result \in [Calls -> [n : -1 .. Bytes,
                             err : Failures \union {"none", "EOF", "EBADF", "closed", "context"}]]

\* Nobody uses the Conn before dial has returned it.
Waiting == dialer # "conn" => \A c \in Calls \union Closers : pc[c] = "idle"

Closing == {c \in Closers : pc[c] # "idle"}

\* Conn.closed counts the calls of Close, or the one of a dial that failed.
Counted ==
    /\ dialer \notin {"conn", "failed"} => closed = 0
    /\ dialer = "failed" => closed \in {0, 1}
    /\ dialer = "conn" => closed = Cardinality(Closing)

\* No byte is read twice.
Drawn == \A r \in Readers : moved[r] + unread <= sent

\* What a read of no bytes stands for: the end, a half that was shut on this side,
\* or no room.
AtEnd(r) == (sock = "shut" /\ unread = 0) \/ ReadsNothing(r)

\* What the captured variables of a call say of the bytes the kernel has moved
\* for it: nothing was moved for a call that is still to be run, and a call the
\* poller has returned from without an error has the number in n, or an error
\* and no bytes.
Accounted(c) ==
    /\ pc[c] \in {"idle", "lock", "try", "wait"} => moved[c] = 0
    /\ c \in Writers => captured[c].n = moved[c]
    /\ pc[c] = "polled" /\ doErr[c] # "none" => moved[c] = 0
    /\ pc[c] = "polled" /\ doErr[c] = "none" /\ c \notin cancelled =>
          /\ captured[c].err # "EAGAIN"
          /\ moved[c] = IF captured[c].err = "none" THEN captured[c].n ELSE 0
          /\ c \in Readers /\ captured[c] = Nothing => AtEnd(c)
    /\ pc[c] = "done" /\ c \notin cancelled =>
          moved[c] = IF result[c].err = "none" THEN result[c].n ELSE 0

Inv ==
    /\ TypeOK /\ Mapped /\ Waiting /\ Counted /\ Drawn
    /\ \A c \in Calls : Accounted(c)

(***************************************************************************)
(* TypeOK by the actors that write what it types.                          *)
(***************************************************************************)
KernelTyped ==
    /\ sock \in {"new", "connecting", "connected", "failed", "shut"}
    /\ soError \in SoErrors \union {"none", "ECONNRESET"}
    /\ sent \in 0 .. Bytes /\ unread \in 0 .. sent /\ room \in 0 .. Bytes
    /\ moved \in [Calls -> 0 .. Bytes] /\ half \subseteq {"read", "write"}

DialTyped ==
    /\ descriptor \in {"none", "open", "loose", "closing", "closed"}
    /\ dialer \in {"start", "connect", "wait", "connected", "conn", "failed"}
    /\ rsa \in BOOLEAN /\ cerr \in SoErrors \union {"none", "ECONNRESET"}

Placed ==
    /\ \A c \in Calls : pc[c] \in {"idle", "lock", "try", "wait", "polled", "done"}
    /\ \A c \in Closers : pc[c] \in {"idle", "close", "evict", "done"}
    /\ cancelled \subseteq Contexts

LEMMA TypeParts ==
    Mapped => (TypeOK <=> /\ KernelTyped /\ DialTyped /\ Placed
                          /\ closed \in 0 .. Cardinality(Closers) + 1)
  BY DEF TypeOK, KernelTyped, DialTyped, Placed, Mapped

\* The counter of Close never passes the number of closers.
LEMMA ClosersBounded ==
    ASSUME NEW S \in SUBSET Closers
    PROVE  IsFiniteSet(S) /\ Cardinality(S) \in 0 .. Cardinality(Closers)
  <1>1. IsFiniteSet(S) /\ Cardinality(S) <= Cardinality(Closers)
    BY SocketAssumption, FS_Subset
  <1>2. Cardinality(S) \in Nat /\ Cardinality(Closers) \in Nat
    BY SocketAssumption, <1>1, FS_CardinalityType
  <1> QED
    BY <1>1, <1>2

\* One more call of Close.
LEMMA OneMore ==
    ASSUME NEW S, NEW T, NEW c, IsFiniteSet(S), c \notin S, T = S \union {c}
    PROVE  Cardinality(T) = Cardinality(S) + 1
  BY FS_AddElement

LEMMA InvInit == Init => Inv
  <1> SUFFICES ASSUME Init PROVE Inv
    OBVIOUS
  <1> USE DEF Init
  <1>1. Mapped
    BY SocketAssumption DEF Mapped, Nothing
  <1>2. KernelTyped /\ DialTyped /\ Placed
    <2>1. KernelTyped
      BY SocketAssumption DEF KernelTyped
    <2>2. DialTyped
      BY DEF DialTyped
    <2>3. Placed
      BY DEF Placed
    <2> QED
      BY <2>1, <2>2, <2>3
  <1>3. Waiting /\ Counted
    BY DEF Waiting, Counted
  <1>4. Drawn
    BY DEF Drawn, Calls
  <1>5. \A c \in Calls : Accounted(c)
    BY DEF Accounted, Nothing
  <1>6. TypeOK
    BY <1>1, <1>2, SocketAssumption, FS_CardinalityType, TypeParts
  <1> QED
    BY <1>1, <1>3, <1>4, <1>5, <1>6 DEF Inv

(***************************************************************************)
(* The steps.                                                              *)
(***************************************************************************)
LEMMA Parts ==
    ASSUME Inv
    PROVE  /\ KernelTyped /\ DialTyped /\ Placed /\ Mapped /\ Waiting /\ Counted /\ Drawn
           /\ \A c \in Calls : Accounted(c)
  BY TypeParts DEF Inv

LEMMA Together ==
    ASSUME KernelTyped', DialTyped', Placed', Mapped', Waiting', Counted', Drawn',
           \A c \in Calls : Accounted(c)'
    PROVE  Inv'
  <1>1. closed' \in 0 .. Cardinality(Closers) + 1
    <2>1. Cardinality(Closing') \in 0 .. Cardinality(Closers)
      BY ClosersBounded DEF Closing
    <2>2. Cardinality(Closers) \in Nat
      BY SocketAssumption, FS_CardinalityType
    <2>3. closed' \in {0, 1, Cardinality(Closing')}
      BY DEF Counted, DialTyped
    <2> QED
      BY <2>1, <2>2, <2>3
  <1>2. TypeOK'
    BY <1>1 DEF TypeOK, KernelTyped, DialTyped, Placed, Mapped
  <1> QED
    BY <1>2 DEF Inv

\* dial and the collector: nobody else has the Conn.
LEMMA DialStep ==
    ASSUME Inv, Dial \/ Collect PROVE Inv'
  <1>1. /\ KernelTyped /\ DialTyped /\ Placed /\ Mapped /\ Waiting /\ Counted /\ Drawn
        /\ \A c \in Calls : Accounted(c)
    BY Parts
  <1>2. /\ UNCHANGED calls /\ sent' = sent /\ unread' = unread /\ room' = room /\ moved' = moved
        /\ half' = half
        /\ dialer = "conn" => sock' = sock /\ closed' = closed /\ dialer' = "conn"
    BY DEF Dial, Socket, Initiate, SeeError, SeePeer, Getsockname, Collect, kernel, dial
  <1> USE DEF calls
  <1>3. KernelTyped'
    <2>1. /\ sock' \in {"new", "connecting", "connected", "failed", "shut"}
          /\ soError' \in SoErrors \union {"none", "ECONNRESET"}
      BY <1>1 DEF Dial, Socket, Initiate, SeeError, SeePeer, Getsockname, Collect, kernel, KernelTyped
    <2> QED
      BY <1>1, <1>2, <2>1 DEF KernelTyped
  <1>4. DialTyped'
    BY <1>1 DEF Dial, Socket, Initiate, SeeError, SeePeer, Getsockname, Collect, Fails, ConnectReturns,
                conn, dial, DialTyped, KernelTyped
  <1>5. Placed' /\ Mapped'
    BY <1>1, <1>2 DEF Placed, Mapped
  <1>6. Waiting'
    BY <1>1, <1>2 DEF Waiting
  <1>7. Counted'
    <2>1. CASE dialer = "conn"
      BY <1>1, <1>2, <2>1 DEF Counted, Closing
    <2>2. CASE dialer = "failed"
      BY <1>1, <2>2 DEF Dial, Socket, Initiate, SeeError, SeePeer, Getsockname, Collect, Counted, dial
    <2>3. CASE dialer \notin {"conn", "failed"}
      <3>1. closed = 0
        BY <1>1, <2>3 DEF Counted
      <3>2. closed' = 0 \/ (dialer' = "failed" /\ closed' = 1)
        BY <2>3, <3>1 DEF Dial, Socket, Initiate, SeeError, SeePeer, Getsockname, Collect, Fails,
                          ConnectReturns, conn
      <3>3. dialer' = "conn" => closed' = 0 /\ Closing' = {}
        BY <1>1, <1>2, <2>3, <3>2 DEF Waiting, Closing
      <3> QED
        BY <3>2, <3>3, FS_EmptySet DEF Counted
    <2> QED
      BY <2>1, <2>2, <2>3
  <1>8. Drawn'
    BY <1>1, <1>2 DEF Drawn
  <1>9. ASSUME NEW c \in Calls PROVE Accounted(c)'
    <2>1. CASE dialer = "conn"
      BY <1>1, <1>2, <2>1 DEF Accounted, AtEnd, ReadsNothing
    <2>2. CASE dialer # "conn"
      <3>1. pc[c] = "idle"
        BY <1>1, <2>2 DEF Waiting
      <3> QED
        BY <1>1, <1>2, <3>1 DEF Accounted
    <2> QED
      BY <2>1, <2>2
  <1> QED
    BY <1>3, <1>4, <1>5, <1>6, <1>7, <1>8, <1>9, Together

\* The kernel and the peer: what a reader has been told of the end stays true.
LEMMA PeerStep ==
    ASSUME Inv, ConnectEnds \/ NotReadyYet \/ Peer \/ Shutdown PROVE Inv'
  <1>1. /\ KernelTyped /\ DialTyped /\ Placed /\ Mapped /\ Waiting /\ Counted /\ Drawn
        /\ \A c \in Calls : Accounted(c)
    BY Parts
  <1>2. UNCHANGED conn /\ UNCHANGED dial /\ UNCHANGED calls /\ moved' = moved
    BY DEF ConnectEnds, NotReadyYet, Peer, PeerSends, PeerReads, PeerEnds, Shutdown
  <1> USE DEF conn, dial, calls
  <1>3. KernelTyped'
    <2>1. CASE ConnectEnds \/ NotReadyYet
      <3>1. /\ sock' \in {sock, "connected", "failed"}
            /\ soError' \in {soError} \union SoErrors
            /\ UNCHANGED <<sent, unread, room, moved, half>>
        BY <2>1 DEF ConnectEnds, NotReadyYet
      <3> QED
        BY <1>1, <3>1 DEF KernelTyped
    <2>2. CASE Shutdown
      <3>1. half' \subseteq half \union {"read", "write"}
            /\ UNCHANGED <<sock, soError, sent, unread, room, moved>>
        BY <2>2 DEF Shutdown
      <3> QED
        BY <1>1, <3>1 DEF KernelTyped
    <2>3. CASE PeerSends
      <3>1. sent' = sent + 1 /\ unread' = unread + 1 /\ sent < Bytes
            /\ UNCHANGED <<sock, soError, room, moved, half>>
        BY <2>3 DEF PeerSends
      <3> QED
        BY <1>1, <3>1, SocketAssumption DEF KernelTyped
    <2>4. CASE PeerReads \/ PeerEnds
      <3>1. /\ sock' \in {sock, "shut", "failed"} /\ soError' \in {soError, "ECONNRESET"}
            /\ unread' \in {unread, 0} /\ room' \in {room, Bytes}
            /\ UNCHANGED <<sent, moved, half>>
        BY <2>4 DEF PeerReads, PeerEnds
      <3> QED
        BY <1>1, <3>1, SocketAssumption DEF KernelTyped
    <2> QED
      BY <2>1, <2>2, <2>3, <2>4 DEF Peer
  <1>4. DialTyped' /\ Placed' /\ Mapped' /\ Waiting' /\ Counted'
    BY <1>1, <1>2 DEF DialTyped, Placed, Mapped, Waiting, Counted, Closing
  <1>5. Drawn'
    <2>1. \A r \in Readers : moved[r] \in Nat
      BY <1>1 DEF KernelTyped, Calls
    <2>2. sent \in Nat /\ unread \in Nat
      BY <1>1, SocketAssumption DEF KernelTyped
    <2>3. \/ sent' = sent /\ unread' \in {unread, 0}
          \/ sent' = sent + 1 /\ unread' = unread + 1
      BY DEF ConnectEnds, NotReadyYet, Peer, PeerSends, PeerReads, PeerEnds, Shutdown
    <2>4. ASSUME NEW r \in Readers PROVE moved'[r] + unread' <= sent'
      <3>1. moved'[r] = moved[r] /\ moved[r] + unread <= sent
        BY <1>1, <1>2 DEF Drawn
      <3> HIDE DEF Drawn
      <3> QED
        BY <2>1, <2>2, <2>3, <3>1
    <2> QED
      BY <2>4 DEF Drawn
  <1>6. ASSUME NEW c \in Calls PROVE Accounted(c)'
    <2>1. (sock = "shut" /\ unread = 0 => sock' = "shut" /\ unread' = 0) /\ half \subseteq half'
      BY DEF ConnectEnds, NotReadyYet, Peer, PeerSends, PeerReads, PeerEnds, Shutdown
    <2> QED
      BY <1>1, <1>2, <2>1 DEF Accounted, AtEnd, ReadsNothing
  <1> QED
    BY <1>3, <1>4, <1>5, <1>6, Together

\* Calls of Close.
LEMMA CloseSteps ==
    ASSUME Inv, NEW c \in Closers, Close(c) \/ CloseStep(c) PROVE Inv'
  <1>1. /\ KernelTyped /\ DialTyped /\ Placed /\ Mapped /\ Waiting /\ Counted /\ Drawn
        /\ \A d \in Calls : Accounted(d)
    BY Parts
  <1>2. /\ UNCHANGED <<soError, sent, unread, room, moved, half>> /\ UNCHANGED dial
        /\ UNCHANGED <<cancelled, captured, doErr, result>>
        /\ sock' \in {sock, "shut"}
    BY DEF Close, CloseStep, Evict, Closed, kernel
  <1>3. pc' = [pc EXCEPT ![c] = pc'[c]] /\ pc'[c] \in {"close", "evict", "done"}
    BY <1>1 DEF Close, CloseStep, Evict, Closed, Goto, Mapped
  <1>4. c \notin Calls
    BY SocketAssumption DEF Calls
  <1>5. dialer = "conn" /\ dialer' = "conn"
    <2>1. CASE Close(c)
      BY <1>2, <2>1 DEF Close, dial
    <2>2. CASE CloseStep(c)
      <3>1. pc[c] # "idle"
        BY <2>2 DEF CloseStep, Evict, Closed
      <3> QED
        BY <1>1, <1>2, <3>1 DEF Waiting, dial
    <2> QED
      BY <2>1, <2>2
  <1>6. KernelTyped' /\ DialTyped'
    <2>1. descriptor' \in {descriptor, "closing", "closed"}
      BY DEF Close, CloseStep, Evict, Closed
    <2> QED
      BY <1>1, <1>2, <2>1 DEF KernelTyped, DialTyped, dial
  <1>7. Mapped'
    <2>1. pc' \in [Calls \union Closers -> {"idle", "lock", "try", "wait", "polled", "close", "evict", "done"}]
      BY <1>1, <1>3 DEF Mapped
    <2> QED
      BY <1>1, <1>2, <2>1 DEF Mapped
  <1>8. \A d \in Calls : pc'[d] = pc[d]
    BY <1>1, <1>3, <1>4 DEF Mapped
  <1>9. Placed'
    BY <1>1, <1>2, <1>3, <1>8 DEF Placed, Mapped
  <1>10. Waiting'
    BY <1>5 DEF Waiting
  <1>11. Counted'
    <2>1. IsFiniteSet(Closing)
      BY SocketAssumption, FS_Subset DEF Closing
    <2>2. \A d \in Closers : pc'[d] # "idle" <=> d = c \/ pc[d] # "idle"
      BY <1>1, <1>3 DEF Mapped
    <2>3. Closing' = Closing \union {c}
      BY <2>2 DEF Closing
    <2>4. CASE Close(c)
      <3>1. c \notin Closing /\ closed' = closed + 1
        BY <2>4 DEF Close, Closing
      <3>2. Cardinality(Closing') = Cardinality(Closing) + 1
        BY <2>1, <2>3, <3>1, OneMore
      <3> QED
        BY <1>1, <1>5, <3>1, <3>2 DEF Counted
    <2>5. CASE CloseStep(c)
      <3>1. c \in Closing /\ closed' = closed
        BY <2>5 DEF CloseStep, Evict, Closed, Closing
      <3>2. Closing' = Closing
        BY <2>3, <3>1
      <3> QED
        BY <1>1, <1>5, <3>1, <3>2 DEF Counted
    <2> QED
      BY <2>4, <2>5
  <1>12. Drawn'
    BY <1>1, <1>2 DEF Drawn
  <1>13. ASSUME NEW d \in Calls PROVE Accounted(d)'
    BY <1>1, <1>2, <1>8 DEF Accounted, AtEnd, ReadsNothing
  <1> QED
    BY <1>6, <1>7, <1>9, <1>10, <1>11, <1>12, <1>13, Together

\* What the steps of a call have in common.
LEMMA CallFrame ==
    ASSUME Inv, NEW c \in Calls, UNCHANGED conn, UNCHANGED dial,
           sock' = sock, soError' = soError, sent' = sent, half' = half,
           dialer = "conn", NEW place \in {"lock", "try", "wait", "polled", "done", pc[c]},
           pc' = [pc EXCEPT ![c] = place], cancelled' \subseteq Contexts,
           KernelTyped', Mapped', Drawn', unread = 0 => unread' = 0,
           \A d \in Calls : d # c => /\ moved'[d] = moved[d] /\ captured'[d] = captured[d]
                                     /\ doErr'[d] = doErr[d] /\ result'[d] = result[d]
                                     /\ d \in cancelled' <=> d \in cancelled,
           Accounted(c)'
    PROVE  Inv'
  <1>1. /\ KernelTyped /\ DialTyped /\ Placed /\ Mapped /\ Waiting /\ Counted /\ Drawn
        /\ \A d \in Calls : Accounted(d)
    BY Parts
  <1>2. c \notin Closers /\ c \in Calls \union Closers
    BY SocketAssumption DEF Calls
  <1>3. \A d \in Calls \union Closers : pc'[d] = IF d = c THEN place ELSE pc[d]
    BY <1>1 DEF Mapped
  <1>4. DialTyped' /\ Waiting'
    BY <1>1 DEF DialTyped, Waiting, dial, conn
  <1>5. Placed'
    BY <1>1, <1>2, <1>3 DEF Placed
  <1>6. Counted'
    <2>1. Closing' = Closing
      BY <1>2, <1>3 DEF Closing
    <2> QED
      BY <1>1, <2>1 DEF Counted, conn, dial
  <1>7. ASSUME NEW d \in Calls, d # c PROVE Accounted(d)'
    <2>1. /\ pc'[d] = pc[d] /\ moved'[d] = moved[d] /\ captured'[d] = captured[d]
          /\ doErr'[d] = doErr[d] /\ result'[d] = result[d] /\ (d \in cancelled' <=> d \in cancelled)
      BY <1>3, <1>7
    <2> QED
      BY <1>1, <2>1 DEF Accounted, AtEnd, ReadsNothing
  <1> QED
    BY <1>4, <1>5, <1>6, <1>7, Together

LEMMA CallSteps ==
    ASSUME Inv, NEW c \in Calls, Start(c) \/ Lock(c) \/ SeeCancelled(c) \/ Wake(c) \/ Finish(c) \/ Cancel(c)
    PROVE  Inv'
  <1>1. /\ KernelTyped /\ DialTyped /\ Placed /\ Mapped /\ Waiting /\ Counted /\ Drawn
        /\ Accounted(c)
    BY Parts
  <1>2. /\ UNCHANGED kernel /\ UNCHANGED conn /\ UNCHANGED dial /\ captured' = captured
    BY DEF Start, Lock, SeeCancelled, Wake, Finish, Cancel
  <1>3. dialer = "conn"
    <2>1. dialer = "conn" \/ pc[c] # "idle"
      BY DEF Start, Lock, SeeCancelled, Wake, Finish, Cancel
    <2> QED
      BY <1>1, <2>1 DEF Waiting
  <1>4. PICK place \in {"lock", "try", "wait", "polled", "done", pc[c]} : pc' = [pc EXCEPT ![c] = place]
    <2>1. pc = [pc EXCEPT ![c] = pc[c]]
      BY <1>1 DEF Mapped
    <2> QED
      BY <2>1 DEF Start, Lock, SeeCancelled, Wake, Finish, Cancel, Return, PollReturns, Goto
  <1>5. KernelTyped' /\ Drawn' /\ (unread = 0 => unread' = 0)
    BY <1>1, <1>2 DEF KernelTyped, Drawn, kernel
  <1>6. cancelled' \subseteq Contexts /\ \A d \in Calls : d # c => (d \in cancelled' <=> d \in cancelled)
    BY <1>1 DEF Start, Lock, SeeCancelled, Wake, Finish, Cancel, Placed
  <1>7. \A d \in Calls : d # c => /\ moved'[d] = moved[d] /\ captured'[d] = captured[d]
                                  /\ doErr'[d] = doErr[d] /\ result'[d] = result[d]
    BY <1>1, <1>2 DEF Start, Lock, SeeCancelled, Wake, Finish, Cancel, Return, PollReturns, Mapped, kernel
  <1>8. Mapped'
    <2>1. pc' \in [Calls \union Closers -> {"idle", "lock", "try", "wait", "polled", "close", "evict", "done"}]
      BY <1>1, <1>4 DEF Mapped
    <2>2. doErr' \in [Calls -> {"none", "closed"}]
      BY <1>1 DEF Start, Lock, SeeCancelled, Wake, Finish, Cancel, PollReturns, Mapped
    <2>3. result' \in [Calls -> [n : -1 .. Bytes,
                                 err : Failures \union {"none", "EOF", "EBADF", "closed", "context"}]]
      <3>1. CASE result' = result
        BY <1>1, <3>1 DEF Mapped
      <3>2. CASE Finish(c)
        <4>1. PICK n \in -1 .. Bytes, err \in Failures \union {"none", "EOF", "closed", "context"} :
                 result' = [result EXCEPT ![c] = [n |-> n, err |-> err]]
          <5>1. doErrOf(c) \in {"none", "closed", "context"} /\ -1 \in -1 .. Bytes /\ 0 \in -1 .. Bytes
            BY <1>1, SocketAssumption DEF doErrOf, Mapped
          <5>2. CASE doErrOf(c) # "none"
            BY <3>2, <5>1, <5>2 DEF Finish, Return
          <5>3. CASE doErrOf(c) = "none" /\ c \in Readers /\ captured[c] = Nothing
            BY <3>2, <5>1, <5>3 DEF Finish, Return
          <5>4. CASE doErrOf(c) = "none" /\ ~ (c \in Readers /\ captured[c] = Nothing)
            <6>1. captured[c].err # "EAGAIN"
              <7>1. c \notin cancelled /\ doErr[c] = "none" /\ pc[c] = "polled"
                BY <3>2, <5>4 DEF doErrOf, Finish
              <7> QED
                BY <1>1, <7>1 DEF Accounted
            <6>2. captured[c].n \in -1 .. Bytes /\ captured[c].err \in Failures \union {"none"}
              BY <1>1, <6>1 DEF Mapped
            <6> QED
              BY <3>2, <5>4, <6>2 DEF Finish, Return
          <5> QED
            BY <5>2, <5>3, <5>4
        <4> QED
          BY <1>1, <4>1 DEF Mapped
      <3>3. CASE Start(c) /\ result' # result
        <4>1. result' = [result EXCEPT ![c] = [n |-> 0, err |-> "EBADF"]] /\ 0 \in -1 .. Bytes
          BY <3>3, SocketAssumption DEF Start, Return
        <4> QED
          BY <1>1, <4>1 DEF Mapped
      <3> QED
        BY <3>1, <3>2, <3>3 DEF Lock, SeeCancelled, Wake, Cancel
    <2> QED
      BY <1>1, <1>2, <2>1, <2>2, <2>3 DEF Mapped
  <1>9. Accounted(c)'
    <2>1. moved' = moved /\ sock' = sock /\ unread' = unread /\ half' = half /\ captured' = captured
      BY <1>2 DEF kernel
    <2>2. c \in DOMAIN pc /\ c \in DOMAIN doErr /\ c \in DOMAIN result
      BY <1>1 DEF Mapped
    <2>3. CASE Start(c)
      <3>1. /\ moved[c] = 0 /\ pc[c] = "idle" /\ pc'[c] \in {"done", "lock"}
            /\ pc'[c] = "done" => result'[c] = [n |-> 0, err |-> "EBADF"]
        BY <1>1, <2>2, <2>3 DEF Start, Return, Goto, Accounted
      <3> QED
        BY <1>1, <2>1, <3>1 DEF Accounted, AtEnd, ReadsNothing
    <2>4. CASE Lock(c) \/ Wake(c)
      <3>1. /\ moved[c] = 0 /\ pc'[c] \in {"try", "polled"}
            /\ pc'[c] = "polled" => doErr'[c] = "closed"
        BY <1>1, <2>2, <2>4 DEF Lock, Wake, PollReturns, Goto, Accounted
      <3> QED
        BY <1>1, <2>1, <3>1 DEF Accounted, AtEnd, ReadsNothing
    <2>5. CASE SeeCancelled(c)
      <3>1. c \in cancelled' /\ pc'[c] = "polled" /\ doErr'[c] = "none"
        BY <2>2, <2>5 DEF SeeCancelled, PollReturns, Goto
      <3> QED
        BY <1>1, <2>1, <3>1 DEF Accounted, AtEnd, ReadsNothing
    <2>6. CASE Cancel(c)
      <3>1. pc' = pc /\ doErr' = doErr /\ result' = result /\ c \in cancelled'
        BY <2>6 DEF Cancel
      <3> QED
        BY <1>1, <2>1, <3>1 DEF Accounted, AtEnd, ReadsNothing
    <2>7. CASE Finish(c)
      <3>1. pc[c] = "polled" /\ pc'[c] = "done" /\ cancelled' = cancelled
        BY <2>2, <2>7 DEF Finish, Return, Goto
      <3>2. ASSUME c \notin cancelled
            PROVE  moved[c] = IF result'[c].err = "none" THEN result'[c].n ELSE 0
        <4>1. doErrOf(c) = doErr[c]
          BY <3>2 DEF doErrOf
        <4>2. CASE doErr[c] # "none"
          <5>1. moved[c] = 0 /\ result'[c] = [n |-> 0, err |-> doErr[c]]
            BY <1>1, <2>2, <2>7, <3>1, <4>1, <4>2 DEF Finish, Return, Accounted
          <5> QED
            BY <4>2, <5>1
        <4>3. CASE doErr[c] = "none" /\ c \in Readers /\ captured[c] = Nothing
          <5>1. result'[c] = [n |-> 0, err |-> "EOF"]
            BY <2>2, <2>7, <4>1, <4>3 DEF Finish, Return
          <5>2. moved[c] = 0
            BY <1>1, <3>1, <3>2, <4>3 DEF Accounted, Nothing
          <5> QED
            BY <5>1, <5>2
        <4>4. CASE doErr[c] = "none" /\ ~ (c \in Readers /\ captured[c] = Nothing)
          <5>1. result'[c] = [n |-> captured[c].n, err |-> captured[c].err]
            BY <2>2, <2>7, <4>1, <4>4 DEF Finish, Return
          <5>2. moved[c] = IF captured[c].err = "none" THEN captured[c].n ELSE 0
            BY <1>1, <3>1, <3>2, <4>4 DEF Accounted
          <5> QED
            BY <5>1, <5>2
        <4> QED
          BY <4>2, <4>3, <4>4
      <3> QED
        BY <1>1, <2>1, <3>1, <3>2 DEF Accounted
    <2> QED
      BY <2>3, <2>4, <2>5, <2>6, <2>7
  <1> QED
    BY <1>2, <1>3, <1>4, <1>5, <1>6, <1>7, <1>8, <1>9, CallFrame DEF kernel

\* A run of a closure. What the kernel moves, it moves for a call that nothing
\* was moved for yet; a closure that is to run again has moved nothing.
LEMMA RunStep ==
    ASSUME Inv, NEW c \in Calls, NEW k \in Nat, NEW err \in Failures \union {"none", "EAGAIN"}, NEW n,
           pc[c] = "try" /\ Run(c, n, err),
           moved' = [moved EXCEPT ![c] = @ + k],
           n \in -1 .. Bytes, k \in 0 .. Bytes, unread' \in 0 .. sent, room' \in 0 .. Bytes,
           err # "none" => k = 0,
           err = "none" => n = k,
           c \in Writers => n = k,
           c \in Readers => unread' = unread - k,
           c \in Writers => unread' = unread,
           c \in Readers /\ k = 0 /\ err = "none" => AtEnd(c)
    PROVE  Inv'
  <1>1. /\ KernelTyped /\ DialTyped /\ Placed /\ Mapped /\ Waiting /\ Counted /\ Drawn
        /\ Accounted(c)
    BY Parts
  <1>2. moved[c] = 0 /\ c \notin cancelled
    BY <1>1 DEF Accounted, Run
  <1>3. moved' = [moved EXCEPT ![c] = k]
    BY <1>2
  <1>4. captured' = [captured EXCEPT ![c] = [n |-> n, err |-> err]]
    BY DEF Run
  <1>5. /\ UNCHANGED conn /\ UNCHANGED dial /\ cancelled' = cancelled /\ result' = result
        /\ sock' = sock /\ soError' = soError /\ sent' = sent /\ half' = half
    BY DEF Run
  <1>6. dialer = "conn"
    BY <1>1 DEF Waiting
  <1>7. ready(err) <=> err # "EAGAIN"
    BY DEF ready, Retry, Failures
  <1>8. PICK place \in {"wait", "polled"} :
           /\ pc' = [pc EXCEPT ![c] = place]
           /\ place = "wait" => doErr' = doErr /\ err = "EAGAIN"
           /\ place = "polled" => doErr' = [doErr EXCEPT ![c] = "none"] /\ err # "EAGAIN"
    BY <1>7 DEF Run, PollReturns, Goto
  <1>9. KernelTyped'
    <2>1. moved' \in [Calls -> 0 .. Bytes]
      BY <1>1, <1>3 DEF KernelTyped
    <2> QED
      BY <1>1, <1>5, <2>1 DEF KernelTyped
  <1>10. Mapped'
    <2>1. pc' \in [Calls \union Closers -> {"idle", "lock", "try", "wait", "polled", "close", "evict", "done"}]
      BY <1>1, <1>8 DEF Mapped
    <2>2. doErr' \in [Calls -> {"none", "closed"}]
      BY <1>1, <1>8 DEF Mapped
    <2>3. captured' \in [Calls -> [n : -1 .. Bytes, err : Failures \union {"none", "EAGAIN"}]]
      BY <1>1, <1>4 DEF Mapped
    <2> QED
      BY <1>1, <1>5, <2>1, <2>2, <2>3 DEF Mapped
  <1>11. Drawn'
    <2>1. /\ unread \in Nat /\ sent \in Nat /\ unread' \in Nat
          /\ \A r \in Calls : moved[r] \in Nat
      BY <1>1, SocketAssumption DEF KernelTyped
    <2>2. ASSUME NEW r \in Readers PROVE moved'[r] + unread' <= sent'
      <3>1. r \in Calls /\ moved[r] \in Nat /\ moved[r] + unread <= sent
        BY <1>1, <2>1 DEF Drawn, Calls
      <3>2. CASE r = c
        <4>1. moved'[r] = k /\ unread' = unread - k
          BY <1>1, <1>3, <3>2 DEF KernelTyped
        <4>2. unread <= sent
          BY <1>1, <2>1 DEF KernelTyped
        <4> QED
          BY <1>5, <2>1, <4>1, <4>2
      <3>3. CASE r # c
        <4>1. moved'[r] = moved[r]
          BY <1>1, <1>3, <3>1, <3>3 DEF KernelTyped
        <4>2. unread' <= unread
          <5>1. c \in Readers \/ c \in Writers
            BY DEF Calls
          <5> QED
            BY <2>1, <5>1
        <4> QED
          BY <1>5, <2>1, <3>1, <4>1, <4>2
      <3> QED
        BY <3>2, <3>3
    <2> QED
      BY <2>2 DEF Drawn
  <1>12. unread = 0 => unread' = 0
    <2>1. c \in Readers \/ c \in Writers
      BY DEF Calls
    <2>2. unread \in Nat /\ unread' \in Nat
      BY <1>1, SocketAssumption DEF KernelTyped
    <2> QED
      BY <2>1, <2>2
  <1>13. \A d \in Calls : d # c => /\ moved'[d] = moved[d] /\ captured'[d] = captured[d]
                                   /\ doErr'[d] = doErr[d] /\ result'[d] = result[d]
                                   /\ (d \in cancelled' <=> d \in cancelled)
    BY <1>1, <1>3, <1>4, <1>5, <1>8 DEF Mapped, KernelTyped
  <1>14. Accounted(c)'
    <2>1. /\ moved'[c] = k /\ captured'[c] = [n |-> n, err |-> err] /\ pc'[c] = place
          /\ place = "polled" => doErr'[c] = "none"
      BY <1>1, <1>3, <1>4, <1>8 DEF Mapped, KernelTyped
    <2>2. captured'[c].n = n /\ captured'[c].err = err
      BY <2>1
    <2>3. (pc'[c] \in {"idle", "lock", "try", "wait"} => moved'[c] = 0)
      BY <1>8, <2>1
    <2>4. (c \in Writers => captured'[c].n = moved'[c])
      BY <2>1, <2>2
    <2>5. moved'[c] = IF err = "none" THEN n ELSE 0
      BY <2>1
    <2>6. (c \in Readers /\ captured'[c] = Nothing => AtEnd(c)')
      BY <1>5, <1>12, <2>2, <2>5 DEF Nothing, AtEnd, ReadsNothing
    <2> QED
      BY <1>8, <2>1, <2>2, <2>3, <2>4, <2>5, <2>6 DEF Accounted
  <1>15. place \in {"lock", "try", "wait", "polled", "done", pc[c]} /\ cancelled' \subseteq Contexts
    BY <1>1, <1>5 DEF Placed
  <1> QED
    BY <1>5, <1>6, <1>8, <1>9, <1>10, <1>11, <1>12, <1>13, <1>14, <1>15, CallFrame

LEMMA ReadStep ==
    ASSUME Inv, NEW r \in Readers, Read(r) PROVE Inv'
  <1>1. /\ KernelTyped /\ Mapped
        /\ r \in Calls /\ r \notin Writers
    BY Parts, SocketAssumption DEF Calls
  <1>2. /\ sent \in 0 .. Bytes /\ unread \in 0 .. sent /\ room \in 0 .. Bytes /\ Bytes \in Nat
        /\ moved \in [Calls -> 0 .. Bytes]
    BY <1>1, SocketAssumption DEF KernelTyped
  <1>3. pc[r] = "try"
    BY DEF Read, Run
  <1>4. CASE \E k \in 1 .. unread : /\ Run(r, k, "none") /\ unread' = unread - k
                                    /\ moved' = [moved EXCEPT ![r] = @ + k] /\ UNCHANGED room
    <2>1. PICK k \in 1 .. unread : /\ Run(r, k, "none") /\ unread' = unread - k
                                   /\ moved' = [moved EXCEPT ![r] = @ + k] /\ room' = room
      BY <1>4
    <2>2. k \in Nat /\ k \in -1 .. Bytes /\ k \in 0 .. Bytes /\ k # 0 /\ unread' \in 0 .. sent
      BY <1>2, <2>1
    <2> QED
      BY <1>1, <1>2, <1>3, <2>1, <2>2, RunStep
  <1>5. CASE /\ UNCHANGED <<unread, room, moved>>
             /\ \/ Run(r, -1, "EAGAIN")
                \/ sock = "shut" /\ unread = 0 /\ Run(r, 0, "none")
                \/ ReadsNothing(r) /\ Run(r, 0, "none")
                \/ Run(r, -1, "ECONNRESET")
    <2>1. PICK n \in {-1, 0}, err \in {"none", "EAGAIN", "ECONNRESET"} :
             /\ Run(r, n, err)
             /\ err = "none" => n = 0 /\ AtEnd(r)
      BY <1>5 DEF AtEnd
    <2>0. unread' = unread /\ room' = room /\ moved' = moved
      BY <1>5
    <2>2. moved' = [moved EXCEPT ![r] = @ + 0]
      BY <1>1, <1>2, <2>0
    <2>3. n \in -1 .. Bytes /\ 0 \in 0 .. Bytes /\ unread' \in 0 .. sent /\ room' \in 0 .. Bytes
          /\ unread' = unread - 0 /\ err \in Failures \union {"none", "EAGAIN"} /\ 0 \in Nat
      BY <1>2, <2>0, <2>1 DEF Failures
    <2> QED
      BY <1>1, <1>3, <2>0, <2>1, <2>2, <2>3, RunStep
  <1> QED
    BY <1>4, <1>5 DEF Read

LEMMA WriteStep ==
    ASSUME Inv, NEW w \in Writers, Write(w) PROVE Inv'
  <1>1. /\ KernelTyped /\ Mapped /\ Accounted(w)
        /\ w \in Calls /\ w \notin Readers
    BY Parts, SocketAssumption DEF Calls
  <1>2. /\ sent \in 0 .. Bytes /\ unread \in 0 .. sent /\ room \in 0 .. Bytes /\ Bytes \in Nat
        /\ moved \in [Calls -> 0 .. Bytes]
    BY <1>1, SocketAssumption DEF KernelTyped
  <1>3. pc[w] = "try"
    BY DEF Write, Run
  <1>4. moved[w] = 0 /\ captured[w].n = 0
    BY <1>1, <1>3 DEF Accounted
  <1>5. CASE \E k \in 1 .. room : /\ moved[w] + k <= Bytes
                                  /\ Run(w, captured[w].n + k, "none") /\ room' = room - k
                                  /\ moved' = [moved EXCEPT ![w] = @ + k] /\ UNCHANGED unread
    <2>1. PICK k \in 1 .. room : /\ Run(w, captured[w].n + k, "none") /\ room' = room - k
                                 /\ moved' = [moved EXCEPT ![w] = @ + k] /\ unread' = unread
      BY <1>5
    <2>2. k \in Nat /\ k \in -1 .. Bytes /\ k \in 0 .. Bytes /\ k # 0 /\ room' \in 0 .. Bytes
          /\ captured[w].n + k = k
      BY <1>2, <1>4, <2>1
    <2>3. Run(w, k, "none")
      BY <2>1, <2>2
    <2> QED
      BY <1>1, <1>2, <1>3, <2>1, <2>2, <2>3, RunStep
  <1>6. CASE /\ UNCHANGED <<unread, room, moved>>
             /\ Run(w, captured[w].n, "EAGAIN") \/ Run(w, captured[w].n, "EPIPE")
    <2>1. PICK err \in {"EAGAIN", "EPIPE"} : Run(w, 0, err)
      BY <1>4, <1>6
    <2>0. unread' = unread /\ room' = room /\ moved' = moved
      BY <1>6
    <2>2. moved' = [moved EXCEPT ![w] = @ + 0]
      BY <1>1, <1>2, <2>0
    <2>3. /\ 0 \in -1 .. Bytes /\ 0 \in 0 .. Bytes /\ unread' \in 0 .. sent /\ room' \in 0 .. Bytes
          /\ unread' = unread /\ err \in Failures \union {"none", "EAGAIN"} /\ 0 \in Nat /\ err # "none"
      BY <1>2, <2>0, <2>1 DEF Failures
    <2> QED
      BY <1>1, <1>3, <2>0, <2>1, <2>2, <2>3, RunStep
  <1> QED
    BY <1>5, <1>6 DEF Write

LEMMA InvStutter == Inv /\ UNCHANGED vars => Inv'
  <1> SUFFICES ASSUME Inv, UNCHANGED vars PROVE Inv'
    OBVIOUS
  <1>1. /\ KernelTyped /\ DialTyped /\ Placed /\ Mapped /\ Waiting /\ Counted /\ Drawn
        /\ \A d \in Calls : Accounted(d)
    BY Parts
  <1> USE DEF vars, kernel, conn, dial, calls
  <1>2. KernelTyped' /\ DialTyped' /\ Placed' /\ Mapped'
    BY <1>1 DEF KernelTyped, DialTyped, Placed, Mapped
  <1>3. Waiting' /\ Counted' /\ Drawn'
    BY <1>1 DEF Waiting, Counted, Drawn, Closing
  <1>4. \A d \in Calls : Accounted(d)'
    BY <1>1 DEF Accounted, AtEnd, ReadsNothing
  <1> QED
    BY <1>2, <1>3, <1>4, Together

LEMMA InvStep == Inv /\ [Next]_vars => Inv'
  <1> SUFFICES ASSUME Inv, [Next]_vars PROVE Inv'
    OBVIOUS
  <1>1. CASE Dial \/ Collect
    BY <1>1, DialStep
  <1>2. CASE ConnectEnds \/ NotReadyYet \/ Peer \/ Shutdown
    BY <1>2, PeerStep
  <1>3. CASE SeeNothing \/ Terminating \/ UNCHANGED vars
    BY <1>3, InvStutter DEF SeeNothing, Terminating
  <1>4. ASSUME NEW c \in Calls, Start(c) \/ Step(c) \/ Wake(c) \/ Cancel(c) PROVE Inv'
    BY <1>4, CallSteps, ReadStep, WriteStep DEF Step
  <1>5. ASSUME NEW c \in Closers, Close(c) \/ CloseStep(c) PROVE Inv'
    BY <1>5, CloseSteps
  <1> QED
    BY <1>1, <1>2, <1>3, <1>4, <1>5 DEF Next

LEMMA AlwaysInv == Spec => []Inv
  BY InvInit, InvStep, PTL DEF Spec

(***************************************************************************)
(* The theorems.                                                           *)
(***************************************************************************)
\* Every variable of the Conn, of the kernel's socket and of the calls keeps
\* its type; no call moves more than it was given, and Conn.closed stays within
\* the number of calls of Close and the one of a failed dial (conn.go:60-85).
THEOREM SocketConnTyped == Spec => []TypeOK
  <1>1. Inv => TypeOK
    BY DEF Inv
  <1> QED
    BY <1>1, AlwaysInv, PTL

\* What ReadContext and WriteContext return is the number of bytes that were
\* moved: a success has them all, an error none, unless the context ended
\* (conn.go:95-165).
THEOREM AlwaysCountsExact == Spec => []CountsExact
  <1>1. Inv => CountsExact
    <2> SUFFICES ASSUME Inv, NEW c \in Calls \ cancelled, pc[c] = "done"
                 PROVE  moved[c] = IF result[c].err = "none" THEN result[c].n ELSE 0
      BY DEF CountsExact
    <2>1. Accounted(c)
      BY Parts
    <2> QED
      BY <2>1 DEF Accounted
  <1> QED
    BY <1>1, AlwaysInv, PTL

\* io.EOF comes to a reader with room only when the peer has ended the stream and
\* all it sent was read, or this side has shut the half it reads, though the
\* closure found it in an earlier step than the one that reports it (conn.go:121).
THEOREM AlwaysEndIsTheEnd == Spec => EndIsTheEnd
  <1>1. ASSUME Inv, [Next]_vars, NEW r \in Readers \ EmptyReads,
               pc[r] # "done", pc'[r] = "done", result'[r].err = "EOF"
        PROVE  (sock = "shut" /\ unread = 0) \/ "read" \in half
    <2>1. Mapped /\ Accounted(r) /\ r \in Calls /\ Placed
      BY <1>1, Parts DEF Calls
    <2>2. r \in DOMAIN pc /\ r \in DOMAIN result /\ doErr[r] \in {"none", "closed"}
          /\ captured[r].err \in Failures \union {"none", "EAGAIN"}
      BY <2>1 DEF Mapped
    <2>3. Start(r) \/ Finish(r)
      <3>1. r \notin Closers
        BY SocketAssumption
      <3>2. ~ UNCHANGED pc
        BY <1>1
      <3>3. \/ \E c \in Calls : Start(c) \/ Step(c) \/ Wake(c) \/ Cancel(c)
            \/ \E c \in Closers : Close(c) \/ CloseStep(c)
        BY <1>1, <3>2 DEF Next, vars, calls, Dial, Socket, Initiate, SeeError, SeePeer, Getsockname,
                          Collect, SeeNothing, ConnectEnds, NotReadyYet, Peer, PeerSends, PeerReads,
                          PeerEnds, Shutdown, Terminating
      <3>4. ASSUME NEW c \in Closers, Close(c) \/ CloseStep(c) PROVE FALSE
        <4>1. pc'[r] = pc[r]
          BY <2>2, <3>1, <3>4 DEF Close, CloseStep, Evict, Closed, Goto
        <4> QED
          BY <1>1, <4>1
      <3>5. ASSUME NEW c \in Calls, Start(c) \/ Step(c) \/ Wake(c) \/ Cancel(c)
            PROVE  Start(r) \/ Finish(r)
        <4>1. \E place : pc' = [pc EXCEPT ![c] = place] \/ pc' = pc
          BY <3>5 DEF Start, Step, Wake, Cancel, Lock, SeeCancelled, Finish, Read, Write, Run,
                      Return, PollReturns, Goto
        <4>2. c = r
          BY <1>1, <2>2, <4>1
        <4>3. Start(c) \/ Finish(c) \/ pc'[c] \in {"try", "polled", "wait", pc[c]}
          BY <2>2, <3>5, <4>2 DEF Step, Wake, Cancel, Lock, SeeCancelled, Read, Write, Run,
                            PollReturns, Goto
        <4> QED
          BY <1>1, <4>2, <4>3
      <3> QED
        BY <3>3, <3>4, <3>5
    <2>4. CASE Start(r)
      <3>1. result'[r] \in {[n |-> 0, err |-> "EBADF"], result[r]}
        BY <2>2, <2>4 DEF Start, Return
      <3>2. pc'[r] = "done" => result'[r] = [n |-> 0, err |-> "EBADF"]
        BY <2>2, <2>4 DEF Start, Return, Goto
      <3> QED
        BY <1>1, <3>2
    <2>5. CASE Finish(r)
      <3>1. pc[r] = "polled"
        BY <2>5 DEF Finish
      <3>2. doErrOf(r) = "none"
        <4>1. doErrOf(r) \in {"none", "closed", "context"}
          BY <2>2 DEF doErrOf
        <4>2. doErrOf(r) # "none" => result'[r] = [n |-> 0, err |-> doErrOf(r)]
          BY <2>2, <2>5 DEF Finish, Return
        <4> QED
          BY <1>1, <4>1, <4>2
      <3>3. captured[r] = Nothing
        <4>1. captured[r] # Nothing => result'[r] = [n |-> captured[r].n, err |-> captured[r].err]
          BY <2>2, <2>5, <3>2 DEF Finish, Return
        <4> QED
          BY <1>1, <2>2, <4>1 DEF Failures
      <3>4. r \notin cancelled /\ doErr[r] = "none"
        BY <3>2 DEF doErrOf
      <3> QED
        BY <2>1, <3>1, <3>3, <3>4 DEF Accounted, AtEnd, ReadsNothing
    <2> QED
      BY <2>3, <2>4, <2>5
  <1>2. Inv /\ [Next]_vars => [\A r \in Readers \ EmptyReads :
          pc[r] # "done" /\ pc'[r] = "done" /\ result'[r].err = "EOF"
              => (sock = "shut" /\ unread = 0) \/ "read" \in half]_vars
    BY <1>1
  <1> QED
    BY <1>2, AlwaysInv, PTL DEF Spec, EndIsTheEnd

\* EISCONN stands in SO_ERROR only of a socket that was established, and a reset
\* puts another error in its place. Before connect(2) there is no error at all.
Established ==
    /\ soError = "EISCONN" => HasPeer
    /\ dialer \in {"start", "connect"} => soError = "none" /\ sock = "new"

LEMMA AlwaysEstablished == Spec => []Established
  <1>1. Init => Established
    BY DEF Init, Established
  <1>2. Inv /\ Established /\ [Next]_vars => Established'
    <2> SUFFICES ASSUME Inv, Established, [Next]_vars PROVE Established'
      OBVIOUS
    <2> USE DEF Established, HasPeer
    <2>1. CASE Dial
      <3>1. CASE Socket
        BY <3>1 DEF Socket, kernel
      <3>2. CASE Initiate
        BY <3>2 DEF Initiate, ConnectReturns, Fails
      <3>3. CASE SeeError
        BY <3>3 DEF SeeError, ConnectReturns, Fails
      <3>4. CASE SeePeer
        BY <3>4 DEF SeePeer, ConnectReturns, Fails, kernel
      <3>5. CASE Getsockname
        BY <3>5 DEF Getsockname, Fails, kernel
      <3> QED
        BY <2>1, <3>1, <3>2, <3>3, <3>4, <3>5 DEF Dial
    <2>5. CASE Collect \/ SeeNothing \/ Terminating \/ UNCHANGED vars
      BY <2>5 DEF Collect, SeeNothing, Terminating, vars, kernel, dial
    <2>2. CASE ConnectEnds \/ NotReadyYet \/ Peer \/ Shutdown
      BY <2>2 DEF ConnectEnds, NotReadyYet, Retry, Peer, PeerSends, PeerReads, PeerEnds, Shutdown, dial
    <2>3. ASSUME NEW c \in Calls, Start(c) \/ Step(c) \/ Wake(c) \/ Cancel(c) PROVE Established'
      BY <2>3 DEF Start, Step, Wake, Cancel, Lock, SeeCancelled, Finish, Read, Write, Run, kernel, dial
    <2>4. ASSUME NEW c \in Closers, Close(c) \/ CloseStep(c) PROVE Established'
      <3>1. dialer = "conn" /\ dialer' = "conn"
        BY <2>4, Parts DEF Close, CloseStep, Evict, Closed, dial, Waiting
      <3>2. soError' = soError /\ sock' \in {sock, "shut"}
        BY <2>4 DEF Close, CloseStep, Evict, Closed, kernel
      <3> QED
        BY <3>1, <3>2
    <2> QED
      BY <2>1, <2>2, <2>3, <2>4, <2>5 DEF Next
  <1> QED
    BY <1>1, <1>2, AlwaysInv, PTL DEF Spec

\* A Connect that has waited succeeds only with a peer, whether getpeername names
\* it or SO_ERROR says EISCONN, which nobody looks behind; an error of SO_ERROR is
\* never passed over (conn.go:461-507).
THEOREM AlwaysWaitVerifies == Spec => WaitVerifies
  <1>1. ASSUME Established, [Next]_vars, dialer = "wait", Connects PROVE HasPeer'
    <2>1. dialer' = "connected" /\ ~ UNCHANGED dialer
      BY <1>1 DEF Connects
    <2>2. Dial
      <3>1. ASSUME NEW c \in Calls, Start(c) \/ Step(c) \/ Wake(c) \/ Cancel(c) PROVE UNCHANGED dialer
        BY <3>1 DEF Start, Step, Wake, Cancel, Lock, SeeCancelled, Finish, Read, Write, Run, dial
      <3>2. ASSUME NEW c \in Closers, Close(c) \/ CloseStep(c) PROVE UNCHANGED dialer
        BY <3>2 DEF Close, CloseStep, Evict, Closed, dial
      <3> QED
        BY <1>1, <2>1, <3>1, <3>2 DEF Next, vars, dial, Collect, SeeNothing, ConnectEnds, NotReadyYet,
                                     Peer, PeerSends, PeerReads, PeerEnds, Shutdown, Terminating
    <2>3. ~ Socket /\ ~ Initiate /\ ~ Getsockname
      BY <1>1 DEF Socket, Initiate, Getsockname
    <2>4. CASE SeeError
      <3>1. soError = "EISCONN"
        BY <1>1, <2>1, <2>4 DEF SeeError, ConnectReturns, Fails
      <3> QED
        BY <1>1, <2>4, <3>1 DEF SeeError, Established, HasPeer
    <2>5. CASE SeePeer
      BY <2>5 DEF SeePeer, HasPeer, kernel
    <2> QED
      BY <2>2, <2>3, <2>4, <2>5 DEF Dial
  <1>2. Established /\ [Next]_vars => [dialer = "wait" /\ Connects => HasPeer']_vars
    BY <1>1
  <1> QED
    BY <1>2, AlwaysEstablished, PTL DEF Spec, WaitVerifies

(***************************************************************************)
(* The descriptor. Only the first call of Close has the descriptor to      *)
(* close, whichever of two counts first, and a descriptor that was closed  *)
(* (whose number the process may use for another file) is not used.        *)
(***************************************************************************)
Leaving == {c \in Closers : pc[c] \in {"close", "evict"}}

Kept ==
    /\ dialer = "start" => descriptor = "none"
    /\ dialer \in {"connect", "wait", "connected"} => descriptor = "open"
    /\ dialer = "conn" => descriptor \in {"open", "closing", "closed"}
    /\ dialer = "conn" /\ closed = 0 => descriptor = "open"
    /\ \A c \in Closers : /\ pc[c] = "close" => descriptor = "open"
                          /\ pc[c] = "evict" => descriptor = "closing"
    /\ \A c, d \in Leaving : c = d
    /\ descriptor = "closed" => ~ InUse

LEMMA KeptInit == Init => Kept
  BY DEF Init, Kept, Leaving, InUse

\* The steps of dial and of the collector, while nobody has the Conn.
LEMMA KeptDial ==
    ASSUME Inv, Kept, Dial \/ Collect PROVE Kept'
  <1>1. UNCHANGED pc
    BY DEF Dial, Socket, Initiate, SeeError, SeePeer, Getsockname, Collect, calls
  <1>2. dialer # "conn" /\ \A c \in Calls \union Closers : pc[c] = "idle"
    <2>1. dialer # "conn"
      BY DEF Dial, Socket, Initiate, SeeError, SeePeer, Getsockname, Collect, Kept
    <2> QED
      BY <2>1, Parts DEF Waiting
  <1>3. (\A c \in Closers : pc'[c] = "idle") /\ Leaving' = {} /\ ~ InUse'
    BY <1>1, <1>2 DEF Leaving, InUse
  <1>4. /\ dialer' = "start" => descriptor' = "none"
        /\ dialer' \in {"connect", "wait", "connected", "conn"} => descriptor' = "open"
    BY <1>2 DEF Dial, Socket, Initiate, SeeError, SeePeer, Getsockname, Collect, Fails, ConnectReturns,
                conn, dial, Kept
  <1> QED
    BY <1>3, <1>4 DEF Kept

\* A call begins to use the descriptor only while it is open.
LEMMA KeptCall ==
    ASSUME Inv, Kept, NEW c \in Calls, Start(c) \/ Step(c) \/ Wake(c) \/ Cancel(c) PROVE Kept'
  <1>1. UNCHANGED conn /\ UNCHANGED dial
    BY DEF Start, Step, Wake, Cancel, Lock, SeeCancelled, Finish, Read, Write, Run
  <1>2. PICK place : pc' = [pc EXCEPT ![c] = place] \/ pc' = pc
    BY DEF Start, Step, Wake, Cancel, Lock, SeeCancelled, Finish, Read, Write, Run,
           Return, PollReturns, Goto
  <1>3. Mapped /\ c \notin Closers /\ c \in Calls \union Closers
    BY Parts, SocketAssumption DEF Calls
  <1>4. \A d \in Closers : pc'[d] = pc[d]
    BY <1>2, <1>3 DEF Mapped
  <1>5. \A d \in Calls : d # c => pc'[d] = pc[d]
    BY <1>2, <1>3 DEF Mapped
  <1>6. pc'[c] \in {"try", "wait"} => pc[c] \in {"try", "wait"} \/ descriptor = "open"
    BY <1>3 DEF Start, Step, Wake, Cancel, Lock, SeeCancelled, Finish, Read, Write, Run,
                Return, PollReturns, Goto, Mapped
  <1>7. Leaving' = Leaving
    BY <1>4 DEF Leaving
  <1>8. descriptor = "closed" => ~ InUse'
    BY <1>5, <1>6 DEF Kept, InUse
  <1> QED
    BY <1>1, <1>4, <1>7, <1>8 DEF Kept, conn, dial

LEMMA KeptClose ==
    ASSUME Inv, Kept, NEW c \in Closers, Close(c) \/ CloseStep(c) PROVE Kept'
  <1>1. Mapped /\ Waiting /\ Counted /\ c \notin Calls /\ c \in Calls \union Closers
    BY Parts, SocketAssumption DEF Calls
  <1>2. UNCHANGED dial /\ dialer = "conn"
    <2>1. dialer = "conn" \/ pc[c] # "idle"
      BY DEF Close, CloseStep, Evict, Closed
    <2>2. UNCHANGED dial
      BY DEF Close, CloseStep, Evict, Closed
    <2> QED
      BY <1>1, <2>1, <2>2 DEF Waiting
  <1>3. PICK place \in {"close", "evict", "done"} : pc' = [pc EXCEPT ![c] = place]
    BY DEF Close, CloseStep, Evict, Closed, Goto
  <1>4. \A d \in Calls \union Closers : pc'[d] = IF d = c THEN place ELSE pc[d]
    BY <1>1, <1>3 DEF Mapped
  <1>5. InUse' <=> InUse
    BY <1>1, <1>4 DEF InUse
  <1>6. CASE Close(c) /\ closed = 0
    <2>1. Closing = {}
      <3>1. IsFiniteSet(Closing) /\ Cardinality(Closing) = 0
        BY <1>1, <1>2, <1>6, ClosersBounded DEF Closing, Counted
      <3> QED
        BY <3>1, FS_EmptySet
    <2>2. \A d \in Closers : pc[d] = "idle"
      BY <2>1 DEF Closing
    <2>3. place = "close" /\ closed' = 1 /\ descriptor' = descriptor /\ descriptor = "open"
      BY <1>1, <1>2, <1>3, <1>4, <1>6 DEF Close, Goto, Kept, Mapped
    <2>4. Leaving' = {c}
      BY <1>4, <2>2, <2>3 DEF Leaving
    <2>5. \A d \in Closers : pc'[d] = "close" \/ pc'[d] = "idle"
      BY <1>4, <2>2, <2>3
    <2> QED
      BY <1>2, <2>3, <2>4, <2>5 DEF Kept, dial
  <1>7. CASE Close(c) /\ closed # 0
    <2>1. pc[c] = "idle" /\ place = "done" /\ closed' # 0 /\ descriptor' = descriptor
      <3>1. closed \in Nat
        BY Parts, ClosersBounded DEF Inv, TypeOK
      <3>2. pc[c] = "idle" /\ closed' = closed + 1 /\ descriptor' = descriptor /\ pc'[c] = "done"
        BY <1>1, <1>7 DEF Close, Goto, Mapped
      <3> QED
        BY <1>4, <1>7, <3>1, <3>2
    <2>2. Leaving' = Leaving
      BY <1>4, <2>1 DEF Leaving
    <2>3. \A d \in Closers : pc'[d] = pc[d] \/ pc'[d] = "done"
      BY <1>4, <2>1
    <2> QED
      BY <1>2, <1>5, <2>1, <2>2, <2>3 DEF Kept, dial
  <1>8. CASE CloseStep(c)
    <2>1. /\ \/ pc[c] = "close" /\ place = "evict" /\ descriptor' = "closing"
             \/ pc[c] = "evict" /\ place = "done" /\ descriptor' = "closed" /\ ~ InUse
          /\ closed' = closed
      BY <1>1, <1>3, <1>4, <1>8 DEF CloseStep, Evict, Closed, Goto, Mapped
    <2>2. \A d \in Closers : d # c => d \notin Leaving
      BY <2>1 DEF Kept, Leaving
    <2>3. closed # 0
      <3>1. IsFiniteSet(Closing) /\ c \in Closing /\ closed = Cardinality(Closing)
        BY <1>1, <1>2, <2>1, ClosersBounded DEF Closing, Counted
      <3> QED
        BY <3>1, FS_EmptySet
    <2>4. Leaving' \subseteq {c} /\ \A d \in Closers : d # c => pc'[d] \notin {"close", "evict"}
      BY <1>4, <2>1, <2>2 DEF Leaving
    <2>5. pc'[c] = place
      BY <1>4
    <2> QED
      BY <1>2, <1>5, <2>1, <2>3, <2>4, <2>5 DEF Kept, dial
  <1> QED
    BY <1>6, <1>7, <1>8

LEMMA AlwaysKept == Spec => []Kept
  <1>1. Inv /\ Kept /\ [Next]_vars => Kept'
    <2> SUFFICES ASSUME Inv, Kept, [Next]_vars PROVE Kept'
      OBVIOUS
    <2>1. CASE UNCHANGED <<conn, dial, calls>>
      BY <2>1 DEF Kept, Leaving, InUse, conn, dial, calls
    <2>2. CASE ConnectEnds \/ NotReadyYet \/ Peer \/ Shutdown \/ SeeNothing \/ Terminating \/ UNCHANGED vars
      BY <2>1, <2>2 DEF ConnectEnds, NotReadyYet, Peer, PeerSends, PeerReads, PeerEnds, Shutdown, SeeNothing,
                        Terminating, vars
    <2>3. ASSUME NEW c \in Calls, Start(c) \/ Step(c) \/ Wake(c) \/ Cancel(c) PROVE Kept'
      BY <2>3, KeptCall
    <2>4. ASSUME NEW c \in Closers, Close(c) \/ CloseStep(c) PROVE Kept'
      BY <2>4, KeptClose
    <2> QED
      BY <2>2, <2>3, <2>4, KeptDial DEF Next
  <1> QED
    BY KeptInit, <1>1, AlwaysInv, PTL DEF Spec

\* A closed descriptor is used by no closure, whichever calls were waiting for
\* their turn when Close came (conn.go:84).
THEOREM ClosedIsUnused == Spec => [](descriptor = "closed" => ~ InUse)
  <1>1. Kept => (descriptor = "closed" => ~ InUse)
    BY DEF Kept
  <1> QED
    BY <1>1, AlwaysKept, PTL

\* It is closed once, though Close may be called by several at the same time: the
\* counter lets one of them through (conn.go:79).
THEOREM ClosesOnce == Spec => [][descriptor = "closed" => descriptor' = "closed"]_vars
  <1>1. ASSUME Kept, [Next]_vars, descriptor = "closed" PROVE descriptor' = "closed"
    <2>1. ~ Socket
      BY <1>1 DEF Kept, Socket
    <2>2. Dial \/ Collect => descriptor' = "closed"
      BY <1>1, <2>1 DEF Dial, Initiate, SeeError, SeePeer, Getsockname, Fails, ConnectReturns, conn,
                        Collect
    <2>3. ASSUME NEW c \in Calls, Start(c) \/ Step(c) \/ Wake(c) \/ Cancel(c) PROVE UNCHANGED conn
      BY <2>3 DEF Start, Step, Wake, Cancel, Lock, SeeCancelled, Finish, Read, Write, Run
    <2>4. ASSUME NEW c \in Closers, Close(c) \/ CloseStep(c) PROVE descriptor' = "closed"
      BY <1>1, <2>4 DEF Close, CloseStep, Evict, Closed, Kept
    <2> QED
      BY <1>1, <2>2, <2>3, <2>4 DEF Next, ConnectEnds, NotReadyYet, Peer, PeerSends, PeerReads,
                                   PeerEnds, Shutdown, SeeNothing, Terminating, vars, conn
  <1>2. Kept /\ [Next]_vars => [descriptor = "closed" => descriptor' = "closed"]_vars
    BY <1>1
  <1> QED
    BY <1>2, AlwaysKept, PTL DEF Spec
================================================================================
