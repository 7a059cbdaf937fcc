------------------------------ MODULE ListenerProofs -----------------------------
(***************************************************************************)
(* Proofs about Listener, for any peers, acceptors, calls of Close and     *)
(* number of failures: the types, and every step of the listener is a step *)
(* of AcceptQueue or leaves it as it is.                                   *)
(***************************************************************************)
EXTENDS Listener, FiniteSetTheorems, SequenceTheorems, TLAPS

(***************************************************************************)
(* The inductive invariant.                                                *)
(***************************************************************************)
\* TypeOK types pc by the kind of the caller and the queue by its places; a
\* step needs them as a function and a sequence.
Mapped ==
    /\ pc \in [Acceptors \union Closers -> {"idle", "lock", "try", "wait", "wrap", "stopped",
                                            "close", "evict", "done"}]
    /\ queue \in Seq(Peers)

\* How far Listen is says what the socket is and who has its descriptor.
Opened ==
    /\ opener = "start" => sock = "none" /\ descriptor = "none"
    /\ opener = "bind" => sock = "made" /\ descriptor = "open"
    /\ opener = "listen" => sock = "bound" /\ descriptor = "open"
    /\ opener = "name" => sock = "listening" /\ descriptor = "open"
    /\ opener = "serving" => sock \in {"listening", "shut"}
                             /\ descriptor \in {"open", "closing", "closed"}
    /\ opener # "serving" => \A c \in Acceptors \union Closers : pc[c] = "idle"

Closing == {c \in Closers : pc[c] # "idle"}

\* Conn.closed counts the calls of Close, or the one of a Listen that failed.
Counted ==
    /\ opener \notin {"serving", "failed"} => closed = 0
    /\ opener = "failed" => closed \in {0, 1}
    /\ opener = "serving" => closed = Cardinality(Closing)

\* The queue of the kernel holds the peers that are queued, each once, and none
\* unless the socket listens.
Lined ==
    /\ queue # <<>> => sock = "listening"
    /\ \A p \in Peers : peer[p] = "queued" <=> \E i \in DOMAIN queue : queue[i] = p
    /\ \A i, j \in DOMAIN queue : queue[i] = queue[j] => i = j

\* A peer is somebody's from accept4(2) on; nobody's before.
Owned ==
    \A p \in Peers :
        /\ peer[p] \in {"away", "queued"} => owner[p] = Nobody
        /\ peer[p] \in {"taken", "served", "loose"} => owner[p] \in Acceptors

\* A peer that is taken is the nfd of the call that took it, and of no other:
\* between accept4(2) and New the captured variable is all that holds it.
Held ==
    /\ \A p \in Peers : peer[p] = "taken" => nfd[owner[p]] = p
    /\ \A a \in Acceptors : pc[a] = "wrap" <=> nfd[a] # Nobody
    /\ \A a \in Acceptors : nfd[a] # Nobody => peer[nfd[a]] = "taken" /\ owner[nfd[a]] = a

Inv == TypeOK /\ Mapped /\ Opened /\ Counted /\ Lined /\ Owned /\ Held

(***************************************************************************)
(* TypeOK by the actors that write what it types.                          *)
(***************************************************************************)
KernelTyped ==
    /\ sock \in {"none", "made", "bound", "listening", "shut"}
    /\ queue \in Seq(Peers)
    /\ arrival \in BOOLEAN
    /\ peer \in [Peers -> {"away", "queued", "taken", "served", "loose", "gone"}]
    /\ owner \in [Peers -> Acceptors \union {Nobody}]

OpenerTyped ==
    /\ descriptor \in {"none", "open", "loose", "closing", "closed"}
    /\ opener \in {"start", "bind", "listen", "name", "serving", "failed"}
    /\ deadline \in {"none", "set", "passed", "cleared"}

CallsTyped ==
    /\ pc \in [Acceptors \union Closers -> {"idle", "lock", "try", "wait", "wrap", "stopped",
                                            "close", "evict", "done"}]
    /\ \A a \in Acceptors : pc[a] \in {"idle", "lock", "try", "wait", "wrap", "stopped"}
    /\ \A c \in Closers : pc[c] \in {"idle", "close", "evict", "done"}
    /\ nfd \in [Acceptors -> Peers \union {Nobody}]
    /\ result \in [Acceptors -> {"none", "conn", "error", "timeout", "closed"}]
    /\ faults \in 0 .. MaxFaults

LEMMA Parts ==
    ASSUME Inv
    PROVE  KernelTyped /\ OpenerTyped /\ CallsTyped /\ Opened /\ Counted /\ Lined /\ Owned /\ Held
  BY DEF Inv, TypeOK, Mapped, KernelTyped, OpenerTyped, CallsTyped

\* The counter of Close never passes the number of closers.
LEMMA ClosersBounded ==
    ASSUME NEW S \in SUBSET Closers
    PROVE  IsFiniteSet(S) /\ Cardinality(S) \in 0 .. Cardinality(Closers)
  <1>1. IsFiniteSet(S) /\ Cardinality(S) <= Cardinality(Closers)
    BY ListenerAssumption, FS_Subset
  <1>2. Cardinality(S) \in Nat /\ Cardinality(Closers) \in Nat
    BY ListenerAssumption, <1>1, FS_CardinalityType
  <1> QED
    BY <1>1, <1>2

\* A queue of peers is typed place by place.
LEMMA Places ==
    ASSUME NEW q \in Seq(Peers)
    PROVE  \A i \in DOMAIN q : q[i] \in Peers
  BY LenProperties

LEMMA Together ==
    ASSUME KernelTyped', OpenerTyped', CallsTyped', Opened', Counted', Lined', Owned', Held'
    PROVE  Inv'
  <1>1. closed' \in 0 .. Cardinality(Closers) + 1
    <2>1. Cardinality(Closing') \in 0 .. Cardinality(Closers)
      BY ClosersBounded DEF Closing
    <2>2. Cardinality(Closers) \in Nat
      BY ListenerAssumption, FS_CardinalityType
    <2>3. closed' \in {0, 1, Cardinality(Closing')}
      BY DEF Counted, OpenerTyped
    <2> QED
      BY <2>1, <2>2, <2>3
  <1>2. \A i \in DOMAIN queue' : queue'[i] \in Peers
    BY Places DEF KernelTyped
  <1>3. TypeOK'
    BY <1>1, <1>2 DEF TypeOK, KernelTyped, OpenerTyped, CallsTyped
  <1>4. Mapped'
    BY DEF Mapped, KernelTyped, CallsTyped
  <1> QED
    BY <1>3, <1>4 DEF Inv

LEMMA InvInit == Init => Inv
  <1> SUFFICES ASSUME Init PROVE Inv
    OBVIOUS
  <1> USE DEF Init
  <1>1. Cardinality(Closers) \in Nat
    BY ListenerAssumption, FS_CardinalityType
  <1>2. Mapped
    BY DEF Mapped
  <1>3. TypeOK
    <2>1. /\ peer \in [Peers -> {"away", "queued", "taken", "served", "loose", "gone"}]
          /\ owner \in [Peers -> Acceptors \union {Nobody}]
          /\ nfd \in [Acceptors -> Peers \union {Nobody}]
          /\ result \in [Acceptors -> {"none", "conn", "error", "timeout", "closed"}]
      OBVIOUS
    <2>2. \A i \in DOMAIN queue : queue[i] \in Peers
      BY <1>2, Places DEF Mapped
    <2>3. \A a \in Acceptors \union Closers : pc[a] = "idle"
      OBVIOUS
    <2>4. closed \in 0 .. Cardinality(Closers) + 1 /\ faults \in 0 .. MaxFaults
      BY <1>1, ListenerAssumption
    <2> QED
      BY <2>1, <2>2, <2>3, <2>4 DEF TypeOK
  <1>4. Opened /\ Counted
    BY DEF Opened, Counted
  <1>5. Lined
    <2>1. DOMAIN queue = {}
      BY EmptySeq, LenProperties
    <2> QED
      BY <2>1 DEF Lined
  <1>6. Owned /\ Held
    BY DEF Owned, Held
  <1> QED
    BY <1>2, <1>3, <1>4, <1>5, <1>6 DEF Inv

(***************************************************************************)
(* What becomes of the queue. Each lemma gives the parts of the invariant  *)
(* that speak of it, and the step of AcceptQueue.                          *)
(***************************************************************************)
Stage == IF sock \in {"none", "made", "bound"} THEN "before"
         ELSE IF sock = "listening" THEN "open" ELSE "over"

Fates == [p \in Peers |-> Fate(p)]

\* The calls that hold a peer are the same.
SameHolders ==
    nfd' = nfd /\ \A a \in Acceptors : pc'[a] = "wrap" <=> pc[a] = "wrap"

\* A step that leaves the queue and the peers as they are.
LEMMA QueueKept ==
    ASSUME Lined, Owned, Held, UNCHANGED <<queue, peer, owner>>, SameHolders,
           queue # <<>> => sock' = "listening"
    PROVE  Lined' /\ Owned' /\ Held'
  BY DEF Lined, Owned, Held, SameHolders

LEMMA QueueStutters ==
    ASSUME UNCHANGED <<queue, peer, owner>>, Stage' = Stage
    PROVE  UNCHANGED Queue!vars
  BY DEF Queue!vars, Stage, Fate

\* The kernel closes the socket and refuses those that wait.
LEMMA ShutRefuses ==
    ASSUME KernelTyped, CallsTyped, Lined, Owned, Held, Shut, SameHolders
    PROVE  KernelTyped' /\ Lined' /\ Owned' /\ Held' /\ Queue!End
  <1>1. /\ sock' = "shut" /\ queue' = <<>> /\ owner' = owner /\ arrival' = arrival
        /\ peer' = [p \in Peers |-> IF peer[p] = "queued" THEN "gone" ELSE peer[p]]
    BY DEF Shut
  <1>2. KernelTyped'
    <2>1. queue' \in Seq(Peers)
      BY <1>1
    <2>2. peer' \in [Peers -> {"away", "queued", "taken", "served", "loose", "gone"}]
      BY <1>1 DEF KernelTyped
    <2> QED
      BY <1>1, <2>1, <2>2 DEF KernelTyped
  <1>3. Lined'
    <2>1. DOMAIN queue' = {}
      BY <1>1
    <2>2. \A p \in Peers : peer'[p] # "queued"
      BY <1>1
    <2> QED
      BY <1>1, <2>1, <2>2 DEF Lined
  <1>4. Owned'
    BY <1>1 DEF Owned
  <1>5. Held'
    <2>1. \A p \in Peers : peer'[p] = "taken" <=> peer[p] = "taken"
      BY <1>1
    <2>2. \A a \in Acceptors : nfd[a] # Nobody /\ peer[nfd[a]] = "taken" => peer'[nfd[a]] = "taken"
      BY <1>1, <2>1 DEF CallsTyped
    <2> QED
      BY <1>1, <2>1, <2>2 DEF Held, SameHolders
  <1>6. Queue!End
    <2>1. Stage' = "over"
      BY <1>1 DEF Stage
    <2>2. ASSUME NEW p \in Peers
          PROVE  Fate(p)' = IF \E i \in DOMAIN queue : queue[i] = p THEN "refused" ELSE Fate(p)
      <3>1. CASE peer[p] = "queued"
        <4>1. peer'[p] = "gone" /\ owner'[p] = Nobody /\ \E i \in DOMAIN queue : queue[i] = p
          BY <1>1, <3>1 DEF Owned, Lined
        <4> QED
          BY <4>1 DEF Fate
      <3>2. CASE peer[p] # "queued"
        <4>1. peer'[p] = peer[p] /\ owner'[p] = owner[p] /\ ~ \E i \in DOMAIN queue : queue[i] = p
          BY <1>1, <3>2 DEF Lined
        <4> QED
          BY <4>1 DEF Fate
      <3> QED
        BY <3>1, <3>2
    <2>3. Fates' = [p \in Peers |-> IF \E i \in DOMAIN queue : queue[i] = p THEN "refused" ELSE Fates[p]]
      BY <2>2 DEF Fates
    <2> QED
      BY <1>1, <2>1, <2>3 DEF Queue!End, Stage, Fates
  <1> QED
    BY <1>2, <1>3, <1>4, <1>5, <1>6

\* A peer comes to the end of the queue.
LEMMA Arrives ==
    ASSUME Inv, NEW p \in Peers, Arrive(p)
    PROVE  KernelTyped' /\ Lined' /\ Owned' /\ Held' /\ Queue!Arrive(p)
  <1>1. KernelTyped /\ CallsTyped /\ Lined /\ Owned /\ Held
    BY Parts
  <1>2. /\ sock = "listening" /\ sock' = "listening" /\ peer[p] = "away" /\ owner' = owner
        /\ peer' = [peer EXCEPT ![p] = "queued"] /\ queue' = Append(queue, p) /\ arrival' = TRUE
        /\ nfd' = nfd /\ pc' = pc
    BY DEF Arrive, calls
  <1>3. /\ queue' \in Seq(Peers)
        /\ DOMAIN queue = 1 .. Len(queue) /\ Len(queue) \in Nat
        /\ DOMAIN queue' = 1 .. (Len(queue) + 1)
        /\ \A i \in 1 .. Len(queue) : queue'[i] = queue[i]
        /\ queue'[Len(queue) + 1] = p
    BY <1>1, <1>2, AppendProperties, LenProperties DEF KernelTyped
  <1>4. \A q \in Peers : peer'[q] = IF q = p THEN "queued" ELSE peer[q]
    BY <1>1, <1>2 DEF KernelTyped
  <1>5. \A i \in DOMAIN queue : queue[i] # p
    BY <1>1, <1>2 DEF Lined
  <1>6. KernelTyped'
    <2>1. peer' \in [Peers -> {"away", "queued", "taken", "served", "loose", "gone"}]
      BY <1>1, <1>2 DEF KernelTyped
    <2> QED
      BY <1>1, <1>2, <1>3, <2>1 DEF KernelTyped
  <1>7. Lined'
    <2>1. ASSUME NEW q \in Peers
          PROVE  peer'[q] = "queued" <=> \E i \in DOMAIN queue' : queue'[i] = q
      <3>1. CASE q = p
        BY <1>3, <1>4, <3>1
      <3>2. CASE q # p
        <4>1. (\E i \in DOMAIN queue' : queue'[i] = q) <=> \E i \in DOMAIN queue : queue[i] = q
          BY <1>3, <3>2
        <4> QED
          BY <1>1, <1>4, <3>2, <4>1 DEF Lined
      <3> QED
        BY <3>1, <3>2
    <2>2. ASSUME NEW i \in DOMAIN queue', NEW j \in DOMAIN queue', queue'[i] = queue'[j] PROVE i = j
      <3>1. i \in DOMAIN queue \/ i = Len(queue) + 1
        BY <1>3
      <3>2. j \in DOMAIN queue \/ j = Len(queue) + 1
        BY <1>3
      <3> QED
        BY <1>1, <1>3, <1>5, <2>2, <3>1, <3>2 DEF Lined
    <2> QED
      BY <1>2, <2>1, <2>2 DEF Lined
  <1>8. Owned' /\ Held'
    <2>1. Owned'
      BY <1>1, <1>2, <1>4 DEF Owned
    <2>2. \A a \in Acceptors : nfd[a] # Nobody => nfd[a] \in Peers /\ nfd[a] # p
      BY <1>1, <1>2 DEF Held, CallsTyped
    <2>3. Held'
      BY <1>1, <1>2, <1>4, <2>2 DEF Held
    <2> QED
      BY <2>1, <2>3
  <1>9. Queue!Arrive(p)
    <2>1. Stage = "open" /\ Stage' = Stage
      BY <1>2 DEF Stage
    <2>2. owner[p] = Nobody /\ Fate(p) = "none"
      BY <1>1, <1>2 DEF Owned, Fate
    <2>3. \A q \in Peers : Fate(q)' = Fate(q)
      BY <1>2, <1>4 DEF Fate
    <2>4. Fates' = Fates /\ Fates[p] = "none"
      BY <2>2, <2>3 DEF Fates
    <2>5. ~ Queue!Came(p)
      BY <1>5, <2>2, <2>4 DEF Queue!Came, Fates
    <2> QED
      BY <1>2, <2>1, <2>4, <2>5 DEF Queue!Arrive, Stage, Fates
  <1> QED
    BY <1>6, <1>7, <1>8, <1>9

\* accept4(2) takes the first of the queue; the caller holds no other.
LEMMA Takes ==
    ASSUME Inv, NEW a \in Acceptors, accept4(a)
    PROVE  KernelTyped' /\ CallsTyped' /\ Lined' /\ Owned' /\ Held' /\ Queue!Take(a)
  <1>1. KernelTyped /\ CallsTyped /\ Lined /\ Owned /\ Held
    BY Parts
  <1> DEFINE p == Head(queue)
  <1>2. /\ pc[a] = "try" /\ queue # <<>> /\ queue' = Tail(queue) /\ sock' = sock
        /\ arrival' = arrival /\ result' = result /\ faults' = faults
        /\ nfd' = [nfd EXCEPT ![a] = p] /\ peer' = [peer EXCEPT ![p] = "taken"]
        /\ owner' = [owner EXCEPT ![p] = a] /\ pc' = [pc EXCEPT ![a] = "wrap"]
    BY DEF accept4, Goto
  <1>3. /\ p \in Peers /\ queue' \in Seq(Peers)
        /\ Len(queue) \in Nat /\ Len(queue) > 0
        /\ DOMAIN queue = 1 .. Len(queue) /\ DOMAIN queue' = 1 .. (Len(queue) - 1)
        /\ \A i \in 1 .. (Len(queue) - 1) : queue'[i] = queue[i + 1]
        /\ queue[1] = p
    <2>1. queue \in Seq(Peers) /\ queue # <<>>
      BY <1>1, <1>2 DEF KernelTyped
    <2>2. /\ p \in Peers /\ queue' \in Seq(Peers) /\ Len(queue') = Len(queue) - 1
          /\ \A i \in 1 .. Len(queue') : queue'[i] = queue[i + 1]
      BY <1>2, <2>1, HeadTailProperties
    <2>3. Len(queue) \in Nat /\ Len(queue) > 0 /\ queue[1] = p
      BY <2>1
    <2> QED
      BY <2>1, <2>2, <2>3, LenProperties
  <1> HIDE DEF p
  <1>4. peer[p] = "queued" /\ owner[p] = Nobody /\ nfd[a] = Nobody
    <2>1. peer[p] = "queued"
      BY <1>1, <1>3 DEF Lined
    <2> QED
      BY <1>1, <1>2, <1>3, <2>1 DEF Owned, Held
  <1>5. /\ a # Nobody /\ p # Nobody
        /\ \A q \in Peers : /\ peer'[q] = IF q = p THEN "taken" ELSE peer[q]
                            /\ owner'[q] = IF q = p THEN a ELSE owner[q]
        /\ \A b \in Acceptors : /\ nfd'[b] = IF b = a THEN p ELSE nfd[b]
                                /\ pc'[b] = IF b = a THEN "wrap" ELSE pc[b]
        /\ \A c \in Closers : pc'[c] = pc[c]
    BY <1>1, <1>2, <1>3, ListenerAssumption DEF KernelTyped, CallsTyped
  <1>6. KernelTyped'
    <2>1. peer' \in [Peers -> {"away", "queued", "taken", "served", "loose", "gone"}]
      BY <1>1, <1>2 DEF KernelTyped
    <2>2. owner' \in [Peers -> Acceptors \union {Nobody}]
      BY <1>1, <1>2 DEF KernelTyped
    <2> QED
      BY <1>1, <1>2, <1>3, <2>1, <2>2 DEF KernelTyped
  <1>7. CallsTyped'
    <2>1. nfd' \in [Acceptors -> Peers \union {Nobody}]
      BY <1>1, <1>2, <1>3 DEF CallsTyped
    <2>2. pc' \in [Acceptors \union Closers -> {"idle", "lock", "try", "wait", "wrap", "stopped",
                                                "close", "evict", "done"}]
      BY <1>1, <1>2 DEF CallsTyped
    <2> QED
      BY <1>1, <1>2, <1>5, <2>1, <2>2 DEF CallsTyped
  <1>8. Lined'
    <2>1. ASSUME NEW q \in Peers
          PROVE  peer'[q] = "queued" <=> \E i \in DOMAIN queue' : queue'[i] = q
      <3>1. CASE q = p
        <4>1. ASSUME NEW i \in DOMAIN queue' PROVE queue'[i] # p
          <5>1. i \in 1 .. (Len(queue) - 1) /\ i + 1 \in DOMAIN queue /\ 1 \in DOMAIN queue /\ i + 1 # 1
            BY <1>3
          <5>2. queue[i + 1] # queue[1]
            BY <1>1, <5>1 DEF Lined
          <5> QED
            BY <1>3, <5>1, <5>2
        <4> QED
          BY <1>5, <3>1, <4>1
      <3>2. CASE q # p
        <4>1. ASSUME NEW i \in DOMAIN queue, queue[i] = q PROVE \E j \in DOMAIN queue' : queue'[j] = q
          <5>1. i # 1
            BY <1>3, <3>2, <4>1
          <5>2. i - 1 \in DOMAIN queue' /\ queue'[i - 1] = queue[(i - 1) + 1] /\ (i - 1) + 1 = i
            BY <1>3, <5>1
          <5> QED
            BY <4>1, <5>2
        <4>2. ASSUME NEW i \in DOMAIN queue', queue'[i] = q PROVE \E j \in DOMAIN queue : queue[j] = q
          <5>1. i + 1 \in DOMAIN queue /\ queue'[i] = queue[i + 1]
            BY <1>3
          <5> QED
            BY <4>2, <5>1
        <4> QED
          BY <1>1, <1>5, <3>2, <4>1, <4>2 DEF Lined
      <3> QED
        BY <3>1, <3>2
    <2>2. ASSUME NEW i \in DOMAIN queue', NEW j \in DOMAIN queue', queue'[i] = queue'[j] PROVE i = j
      <3>1. /\ i + 1 \in DOMAIN queue /\ j + 1 \in DOMAIN queue
            /\ queue[i + 1] = queue[j + 1]
        BY <1>3, <2>2
      <3>2. i + 1 = j + 1
        BY <1>1, <3>1 DEF Lined
      <3> QED
        BY <1>3, <3>2
    <2> QED
      BY <1>1, <1>2, <2>1, <2>2 DEF Lined
  <1>9. Owned'
    BY <1>1, <1>5 DEF Owned
  <1>10. Held'
    <2>1. ASSUME NEW q \in Peers, peer'[q] = "taken" PROVE nfd'[owner'[q]] = q
      <3>1. CASE q = p
        BY <1>5, <3>1
      <3>2. CASE q # p
        <4>1. /\ peer[q] = "taken" /\ nfd[owner[q]] = q /\ owner[q] \in Acceptors /\ q # Nobody
              /\ owner'[q] = owner[q]
          BY <1>1, <1>5, <2>1, <3>2, ListenerAssumption DEF Held, Owned
        <4> QED
          BY <1>4, <1>5, <4>1
      <3> QED
        BY <3>1, <3>2
    <2>2. \A b \in Acceptors : pc'[b] = "wrap" <=> nfd'[b] # Nobody
      BY <1>1, <1>5 DEF Held
    <2>3. ASSUME NEW b \in Acceptors, nfd'[b] # Nobody PROVE peer'[nfd'[b]] = "taken" /\ owner'[nfd'[b]] = b
      <3>1. CASE b = a
        BY <1>3, <1>5, <3>1
      <3>2. CASE b # a
        <4>1. nfd'[b] = nfd[b] /\ nfd[b] \in Peers /\ peer[nfd[b]] = "taken" /\ owner[nfd[b]] = b
          BY <1>1, <1>5, <2>3, <3>2 DEF Held, CallsTyped
        <4>2. nfd[b] # p
          BY <1>4, <4>1
        <4> QED
          BY <1>5, <4>1, <4>2
      <3> QED
        BY <3>1, <3>2
    <2> QED
      BY <2>1, <2>2, <2>3 DEF Held
  <1>11. Queue!Take(a)
    <2>1. Stage = "open" /\ Stage' = Stage
      BY <1>1, <1>2 DEF Stage, Lined
    <2>2. ASSUME NEW q \in Peers, owner[q] = a PROVE Fate(q) # "none"
      <3>1. peer[q] # "taken"
        BY <1>1, <1>4, <2>2, ListenerAssumption DEF Held
      <3>2. peer[q] \notin {"away", "queued"}
        BY <1>1, <1>5, <2>2 DEF Owned
      <3>3. peer[q] \in {"served", "loose", "gone"}
        BY <1>1, <3>1, <3>2 DEF KernelTyped
      <3> QED
        BY <1>5, <2>2, <3>3 DEF Fate
    <2>3. ASSUME NEW q \in Peers PROVE Fate(q)' = Fate(q)
      <3>1. CASE q = p
        BY <1>4, <1>5, <3>1 DEF Fate
      <3>2. CASE q # p
        BY <1>5, <3>2 DEF Fate
      <3> QED
        BY <3>1, <3>2
    <2>4. Fates' = Fates /\ \A q \in Peers : owner[q] = a => Fates[q] # "none"
      BY <2>2, <2>3 DEF Fates
    <2> QED
      BY <1>2, <2>1, <2>4 DEF Queue!Take, Stage, Fates, p
  <1> QED
    BY <1>6, <1>7, <1>8, <1>9, <1>10, <1>11

\* New serves the peer that was taken, or breaks it.
LEMMA Settles ==
    ASSUME Inv, NEW a \in Acceptors, New(a)
    PROVE  KernelTyped' /\ CallsTyped' /\ Lined' /\ Owned' /\ Held' /\ Queue!Settle(nfd[a]) /\ nfd[a] \in Peers
  <1>1. KernelTyped /\ CallsTyped /\ Lined /\ Owned /\ Held
    BY Parts
  <1> DEFINE p == nfd[a]
  <1>2. /\ pc[a] = "wrap" /\ nfd' = [nfd EXCEPT ![a] = Nobody]
        /\ sock' = sock /\ queue' = queue /\ arrival' = arrival /\ owner' = owner
        /\ pc' = [pc EXCEPT ![a] = "idle"]
    BY DEF New, Return, Goto
  <1>3. PICK end \in {"served", "loose"} : peer' = [peer EXCEPT ![p] = end]
    BY DEF New
  <1>4. /\ p \in Peers /\ peer[p] = "taken" /\ owner[p] = a /\ a # Nobody
    BY <1>1, <1>2, ListenerAssumption DEF Held, CallsTyped
  <1> HIDE DEF p
  <1>5. /\ \A q \in Peers : peer'[q] = IF q = p THEN end ELSE peer[q]
        /\ \A b \in Acceptors : /\ nfd'[b] = IF b = a THEN Nobody ELSE nfd[b]
                                /\ pc'[b] = IF b = a THEN "idle" ELSE pc[b]
        /\ \A c \in Closers : pc'[c] = pc[c]
    BY <1>1, <1>2, <1>3, ListenerAssumption DEF KernelTyped, CallsTyped
  <1>6. KernelTyped'
    <2>1. peer' \in [Peers -> {"away", "queued", "taken", "served", "loose", "gone"}]
      BY <1>1, <1>3 DEF KernelTyped
    <2> QED
      BY <1>1, <1>2, <2>1 DEF KernelTyped
  <1>7. CallsTyped'
    <2>1. nfd' \in [Acceptors -> Peers \union {Nobody}]
      BY <1>1, <1>2 DEF CallsTyped
    <2>2. pc' \in [Acceptors \union Closers -> {"idle", "lock", "try", "wait", "wrap", "stopped",
                                                "close", "evict", "done"}]
      BY <1>1, <1>2 DEF CallsTyped
    <2>3. result' \in [Acceptors -> {"none", "conn", "error", "timeout", "closed"}]
      BY <1>1 DEF New, Return, CallsTyped
    <2>4. faults' \in 0 .. MaxFaults
      BY <1>1, ListenerAssumption DEF New, CallsTyped
    <2> QED
      BY <1>1, <1>5, <2>1, <2>2, <2>3, <2>4 DEF CallsTyped
  <1>8. Lined'
    BY <1>1, <1>2, <1>4, <1>5 DEF Lined
  <1>9. Owned'
    BY <1>1, <1>2, <1>4, <1>5 DEF Owned
  <1>10. Held'
    <2>1. ASSUME NEW q \in Peers, peer'[q] = "taken" PROVE nfd'[owner'[q]] = q
      <3>1. q # p /\ peer[q] = "taken" /\ nfd[owner[q]] = q /\ owner[q] \in Acceptors
        BY <1>1, <1>5, <2>1 DEF Held, Owned
      <3>2. owner[q] # a
        BY <3>1 DEF p
      <3> QED
        BY <1>2, <1>5, <3>1, <3>2
    <2>2. \A b \in Acceptors : pc'[b] = "wrap" <=> nfd'[b] # Nobody
      BY <1>1, <1>5 DEF Held
    <2>3. ASSUME NEW b \in Acceptors, nfd'[b] # Nobody PROVE peer'[nfd'[b]] = "taken" /\ owner'[nfd'[b]] = b
      <3>1. b # a /\ nfd'[b] = nfd[b] /\ nfd[b] \in Peers /\ peer[nfd[b]] = "taken" /\ owner[nfd[b]] = b
        BY <1>1, <1>5, <2>3 DEF Held, CallsTyped
      <3>2. nfd[b] # p
        BY <1>4, <3>1
      <3> QED
        BY <1>2, <1>5, <3>1, <3>2
    <2> QED
      BY <2>1, <2>2, <2>3 DEF Held
  <1>11. Queue!Settle(p)
    <2>1. Stage' = Stage
      BY <1>2 DEF Stage
    <2>2. ASSUME NEW q \in Peers, q = p
          PROVE  Fate(q) = "none" /\ Fate(q)' \in {"served", "broken"}
      <3>1. peer'[q] \in {"served", "loose"} /\ owner'[q] # Nobody
        BY <1>2, <1>4, <1>5, <2>2
      <3> QED
        BY <1>4, <2>2, <3>1 DEF Fate
    <2>3. \A q \in Peers : q # p => Fate(q)' = Fate(q)
      BY <1>2, <1>5 DEF Fate
    <2>4. PICK f \in {"served", "broken"} : Fates' = [Fates EXCEPT ![p] = f]
      <3>1. PICK q \in Peers : q = p
        BY <1>4
      <3>2. PICK f \in {"served", "broken"} : Fate(q)' = f
        BY <2>2, <3>1
      <3> QED
        BY <2>3, <3>1, <3>2 DEF Fates
    <2>5. Fates[p] = "none"
      BY <1>4, <2>2 DEF Fates
    <2> QED
      BY <1>2, <1>4, <2>1, <2>4, <2>5 DEF Queue!Settle, Stage, Fates
  <1> QED
    BY <1>4, <1>6, <1>7, <1>8, <1>9, <1>10, <1>11 DEF p

\* The collector closes the descriptor of a peer that New has broken.
LEMMA Collects ==
    ASSUME Inv, NEW p \in Peers, peer[p] = "loose", peer' = [peer EXCEPT ![p] = "gone"],
           UNCHANGED <<sock, queue, arrival, owner, listener, calls, faults>>
    PROVE  KernelTyped' /\ Lined' /\ Owned' /\ Held' /\ UNCHANGED Queue!vars
  <1>1. KernelTyped /\ CallsTyped /\ Lined /\ Owned /\ Held
    BY Parts
  <1>2. /\ sock' = sock /\ queue' = queue /\ arrival' = arrival /\ owner' = owner
        /\ nfd' = nfd /\ pc' = pc
    BY DEF calls
  <1>3. \A q \in Peers : peer'[q] = IF q = p THEN "gone" ELSE peer[q]
    BY <1>1 DEF KernelTyped
  <1>4. KernelTyped'
    <2>1. peer' \in [Peers -> {"away", "queued", "taken", "served", "loose", "gone"}]
      BY <1>1 DEF KernelTyped
    <2> QED
      BY <1>1, <1>2, <2>1 DEF KernelTyped
  <1>5. Lined' /\ Owned'
    BY <1>1, <1>2, <1>3 DEF Lined, Owned
  <1>6. Held'
    <2>1. \A a \in Acceptors : nfd[a] # Nobody => nfd[a] \in Peers /\ nfd[a] # p
      BY <1>1 DEF Held, CallsTyped
    <2> QED
      BY <1>1, <1>2, <1>3, <2>1 DEF Held
  <1>7. UNCHANGED Queue!vars
    <2>1. owner[p] # Nobody
      BY <1>1, ListenerAssumption DEF Owned
    <2>2. ASSUME NEW q \in Peers PROVE Fate(q)' = Fate(q)
      BY <1>2, <1>3, <2>1 DEF Fate
    <2>3. Fates' = Fates /\ Stage' = Stage
      BY <1>2, <2>2 DEF Fates, Stage
    <2> QED
      BY <1>2, <2>3 DEF Queue!vars, Fates, Stage
  <1> QED
    BY <1>4, <1>5, <1>6, <1>7

(***************************************************************************)
(* The steps.                                                              *)
(***************************************************************************)
QueueStep == Queue!Next \/ UNCHANGED Queue!vars

\* One more call of Close.
LEMMA OneMore ==
    ASSUME NEW S, NEW T, NEW c, IsFiniteSet(S), c \notin S, T = S \union {c}
    PROVE  Cardinality(T) = Cardinality(S) + 1
  BY FS_AddElement

\* Listen, up to the Listener that it returns.
LEMMA OpeningStep ==
    ASSUME Inv, Opening PROVE Inv' /\ QueueStep
  <1>1. KernelTyped /\ OpenerTyped /\ CallsTyped /\ Opened /\ Counted /\ Lined /\ Owned /\ Held
    BY Parts
  <1>2. /\ pc' = pc /\ nfd' = nfd /\ result' = result /\ faults' = faults /\ deadline' = deadline
        /\ \A c \in Acceptors \union Closers : pc[c] = "idle"
    BY <1>1 DEF Opening, Socket, Bind, Listen, newListener, calls, Opened
  <1>3. SameHolders /\ CallsTyped'
    BY <1>1, <1>2 DEF SameHolders, CallsTyped
  <1>4. Closing' = {} /\ Cardinality(Closing') = 0
    BY <1>2, FS_EmptySet DEF Closing
  <1>5. closed = 0
    BY <1>1 DEF Counted, Opening, Socket, Bind, Listen, newListener
  <1>6. CASE listenFails
    <2>1. opener' = "failed" /\ descriptor' = "closed" /\ closed' = 1 /\ Shut
      BY <1>5, <1>6 DEF listenFails
    <2>2. KernelTyped' /\ Lined' /\ Owned' /\ Held' /\ Queue!End
      BY <1>1, <1>3, <2>1, ShutRefuses
    <2>3. OpenerTyped' /\ Opened' /\ Counted'
      BY <1>1, <1>2, <2>1 DEF OpenerTyped, Opened, Counted
    <2> QED
      BY <1>3, <2>2, <2>3, Together DEF QueueStep, Queue!Next
  <1>7. CASE ~ listenFails
    <2>1. /\ UNCHANGED <<queue, arrival, peer, owner, closed>>
          /\ \/ opener = "start" /\ opener' = "failed" /\ sock' = sock /\ descriptor' = descriptor
             \/ opener = "start" /\ opener' = "failed" /\ sock' = "made" /\ descriptor' = "loose"
             \/ opener = "start" /\ opener' = "bind" /\ sock' = "made" /\ descriptor' = "open"
             \/ opener = "bind" /\ opener' = "listen" /\ sock' = "bound" /\ descriptor' = descriptor
             \/ opener = "listen" /\ opener' = "name" /\ sock' = "listening" /\ descriptor' = descriptor
             \/ opener = "name" /\ opener' = "serving" /\ sock' = sock /\ descriptor' = descriptor
      BY <1>7 DEF Opening, Socket, Bind, Listen, newListener, kernel
    <2>2. KernelTyped' /\ OpenerTyped'
      BY <1>1, <1>2, <2>1 DEF KernelTyped, OpenerTyped
    <2>3. Opened'
      BY <1>1, <1>2, <2>1 DEF Opened
    <2>4. Counted'
      BY <1>4, <1>5, <2>1 DEF Counted
    <2>5. Lined' /\ Owned' /\ Held'
      <3>1. queue # <<>> => sock' = "listening"
        BY <1>1, <2>1 DEF Lined, Opened
      <3> QED
        BY <1>1, <1>3, <2>1, <3>1, QueueKept
    <2>6. QueueStep
      <3>1. CASE Stage' = Stage
        BY <2>1, <3>1, QueueStutters DEF QueueStep
      <3>2. CASE Stage' # Stage
        <4>1. Stage = "before" /\ Stage' = "open"
          BY <1>1, <2>1, <3>2 DEF Stage, Opened
        <4>2. UNCHANGED <<queue, owner, Fates>>
          BY <2>1 DEF Fates, Fate
        <4> QED
          BY <4>1, <4>2 DEF QueueStep, Queue!Next, Queue!Open, Stage, Fates
      <3> QED
        BY <3>1, <3>2
    <2> QED
      BY <1>3, <2>2, <2>3, <2>4, <2>5, <2>6, Together
  <1> QED
    BY <1>6, <1>7

\* The deadline, the collector and the arrivals.
LEMMA DeadlineStep ==
    ASSUME Inv, SetDeadline \/ DeadlinePasses PROVE Inv' /\ QueueStep
  <1>1. KernelTyped /\ OpenerTyped /\ CallsTyped /\ Opened /\ Counted /\ Lined /\ Owned /\ Held
    BY Parts
  <1>2. /\ UNCHANGED <<sock, queue, arrival, peer, owner, descriptor, closed, opener,
                       pc, nfd, result, faults>>
        /\ deadline' \in {"none", "set", "passed", "cleared"}
    BY DEF SetDeadline, DeadlinePasses, kernel, calls
  <1>3. KernelTyped' /\ OpenerTyped' /\ CallsTyped'
    BY <1>1, <1>2 DEF KernelTyped, OpenerTyped, CallsTyped
  <1>4. Opened' /\ Counted'
    BY <1>1, <1>2 DEF Opened, Counted, Closing
  <1>5. Lined' /\ Owned' /\ Held'
    BY <1>1, <1>2, QueueKept DEF SameHolders, Lined
  <1>6. QueueStep
    BY <1>2, QueueStutters DEF QueueStep, Stage
  <1> QED
    BY <1>3, <1>4, <1>5, <1>6, Together

LEMMA CollectStep ==
    ASSUME Inv, Collect PROVE Inv' /\ QueueStep
  <1>1. KernelTyped /\ OpenerTyped /\ CallsTyped /\ Opened /\ Counted /\ Lined /\ Owned /\ Held
    BY Parts
  <1>2. pc' = pc /\ nfd' = nfd /\ result' = result /\ faults' = faults
        /\ deadline' = deadline /\ opener' = opener /\ closed' = closed
    BY DEF Collect, calls, listener
  <1>3. CallsTyped' /\ SameHolders /\ Counted'
    BY <1>1, <1>2 DEF CallsTyped, SameHolders, Counted, Closing
  <1>4. CASE descriptor = "loose" /\ descriptor' = "closed" /\ Shut
    <2>1. KernelTyped' /\ Lined' /\ Owned' /\ Held' /\ Queue!End
      BY <1>1, <1>3, <1>4, ShutRefuses
    <2>2. opener = "failed"
      BY <1>1, <1>4 DEF Opened, OpenerTyped
    <2>3. OpenerTyped' /\ Opened'
      BY <1>1, <1>2, <1>4, <2>2 DEF OpenerTyped, Opened
    <2> QED
      BY <1>3, <2>1, <2>3, Together DEF QueueStep, Queue!Next
  <1>5. ASSUME NEW p \in Peers, peer[p] = "loose", peer' = [peer EXCEPT ![p] = "gone"],
               UNCHANGED <<sock, queue, arrival, owner, listener, calls, faults>>
        PROVE  Inv' /\ QueueStep
    <2>1. KernelTyped' /\ Lined' /\ Owned' /\ Held' /\ UNCHANGED Queue!vars
      BY <1>5, Collects
    <2>2. OpenerTyped' /\ Opened'
      BY <1>1, <1>2, <1>5 DEF OpenerTyped, Opened, listener
    <2> QED
      BY <1>3, <2>1, <2>2, Together DEF QueueStep
  <1> QED
    BY <1>4, <1>5 DEF Collect

LEMMA ArriveStep ==
    ASSUME Inv, NEW p \in Peers, Arrive(p) PROVE Inv' /\ QueueStep
  <1>1. KernelTyped /\ OpenerTyped /\ CallsTyped /\ Opened /\ Counted /\ Lined /\ Owned /\ Held
    BY Parts
  <1>2. KernelTyped' /\ Lined' /\ Owned' /\ Held' /\ Queue!Arrive(p)
    BY Arrives
  <1>3. UNCHANGED <<sock, descriptor, closed, opener, deadline, pc, nfd, result, faults>>
    BY DEF Arrive, listener, calls
  <1>4. OpenerTyped' /\ CallsTyped' /\ Opened' /\ Counted'
    BY <1>1, <1>3 DEF OpenerTyped, CallsTyped, Opened, Counted, Closing
  <1> QED
    BY <1>2, <1>4, Together DEF QueueStep, Queue!Next

\* The parts that a step of an acceptor keeps.
LEMMA AcceptorFrame ==
    ASSUME Inv, NEW a \in Acceptors, UNCHANGED listener, sock' = sock,
           opener = "serving", NEW place, pc' = [pc EXCEPT ![a] = place]
    PROVE  OpenerTyped' /\ Opened' /\ Counted'
  <1>1. OpenerTyped /\ CallsTyped /\ Opened /\ Counted
    BY Parts
  <1>2. a \notin Closers
    BY ListenerAssumption
  <1>3. \A c \in Closers : pc'[c] = pc[c]
    BY <1>1, <1>2 DEF CallsTyped
  <1>4. Closing' = Closing
    BY <1>3 DEF Closing
  <1> QED
    BY <1>1, <1>4 DEF OpenerTyped, Opened, Counted, listener

\* A call of Accept that does not touch the queue.
LEMMA QuietStep ==
    ASSUME Inv, NEW a \in Acceptors,
           Accept(a) \/ Lock(a) \/ NotReady(a) \/ accept4Fails(a) \/ Wake(a)
    PROVE  Inv' /\ QueueStep
  <1>1. KernelTyped /\ OpenerTyped /\ CallsTyped /\ Opened /\ Counted /\ Lined /\ Owned /\ Held
    BY Parts
  <1>2. /\ UNCHANGED <<sock, queue, peer, owner, nfd>> /\ UNCHANGED listener
        /\ arrival' \in BOOLEAN /\ faults' \in 0 .. MaxFaults
        /\ pc[a] # "wrap" /\ opener = "serving"
    <2>1. /\ UNCHANGED <<sock, queue, peer, owner, nfd>> /\ UNCHANGED listener
          /\ pc[a] # "wrap"
      BY DEF Accept, Lock, NotReady, accept4Fails, Wake, kernel
    <2>2. arrival' \in BOOLEAN
      BY <1>1 DEF Accept, Lock, NotReady, accept4Fails, Wake, kernel, KernelTyped
    <2>3. faults' \in 0 .. MaxFaults
      BY <1>1, ListenerAssumption DEF Accept, Lock, NotReady, accept4Fails, Wake, CallsTyped
    <2>4. pc[a] # "idle" \/ opener = "serving"
      BY DEF Accept, Lock, NotReady, accept4Fails, Wake
    <2> QED
      BY <1>1, <2>1, <2>2, <2>3, <2>4 DEF Opened
  <1>3. PICK place \in {"idle", "lock", "try", "wait", "stopped"} : pc' = [pc EXCEPT ![a] = place]
    BY DEF Accept, Lock, NotReady, accept4Fails, Wake, Return, Goto
  <1>4. result' \in [Acceptors -> {"none", "conn", "error", "timeout", "closed"}]
    BY <1>1 DEF Accept, Lock, NotReady, accept4Fails, Wake, Return, CallsTyped
  <1>5. /\ \A b \in Acceptors : pc'[b] = IF b = a THEN place ELSE pc[b]
        /\ \A c \in Closers : pc'[c] = pc[c]
    BY <1>1, <1>3, ListenerAssumption DEF CallsTyped
  <1>6. CallsTyped'
    <2>1. pc' \in [Acceptors \union Closers -> {"idle", "lock", "try", "wait", "wrap", "stopped",
                                                "close", "evict", "done"}]
      BY <1>1, <1>3 DEF CallsTyped
    <2> QED
      BY <1>1, <1>2, <1>4, <1>5, <2>1 DEF CallsTyped
  <1>7. KernelTyped'
    BY <1>1, <1>2 DEF KernelTyped
  <1>8. SameHolders
    BY <1>2, <1>5 DEF SameHolders
  <1>9. Lined' /\ Owned' /\ Held'
    BY <1>1, <1>2, <1>8, QueueKept DEF Lined
  <1>10. OpenerTyped' /\ Opened' /\ Counted'
    BY <1>2, <1>3, AcceptorFrame
  <1>11. QueueStep
    BY <1>2, QueueStutters DEF QueueStep, Stage
  <1> QED
    BY <1>6, <1>7, <1>9, <1>10, <1>11, Together

LEMMA AcceptorStep ==
    ASSUME Inv, NEW a \in Acceptors, Step(a) \/ Wake(a) PROVE Inv' /\ QueueStep
  <1>1. CASE accept4(a)
    <2>1. /\ UNCHANGED listener /\ sock' = sock /\ pc' = [pc EXCEPT ![a] = "wrap"]
          /\ opener = "serving"
      BY <1>1, Parts DEF accept4, Goto, Opened
    <2>2. KernelTyped' /\ CallsTyped' /\ Lined' /\ Owned' /\ Held' /\ Queue!Take(a)
      BY <1>1, Takes
    <2>3. OpenerTyped' /\ Opened' /\ Counted'
      BY <2>1, AcceptorFrame
    <2> QED
      BY <2>2, <2>3, Together DEF QueueStep, Queue!Next
  <1>2. CASE New(a)
    <2>1. /\ UNCHANGED listener /\ sock' = sock /\ pc' = [pc EXCEPT ![a] = "idle"]
          /\ opener = "serving"
      BY <1>2, Parts DEF New, Return, Goto, Opened
    <2>2. KernelTyped' /\ CallsTyped' /\ Lined' /\ Owned' /\ Held' /\ Queue!Settle(nfd[a]) /\ nfd[a] \in Peers
      BY <1>2, Settles
    <2>3. OpenerTyped' /\ Opened' /\ Counted'
      BY <2>1, AcceptorFrame
    <2> QED
      BY <2>2, <2>3, Together DEF QueueStep, Queue!Next
  <1> QED
    BY <1>1, <1>2, QuietStep DEF Step

\* Calls of Close.
LEMMA CloserStep ==
    ASSUME Inv, NEW c \in Closers, Close(c) \/ CloseStep(c) PROVE Inv' /\ QueueStep
  <1>1. KernelTyped /\ OpenerTyped /\ CallsTyped /\ Opened /\ Counted /\ Lined /\ Owned /\ Held
    BY Parts
  <1>2. /\ nfd' = nfd /\ result' = result /\ faults' = faults /\ deadline' = deadline /\ opener' = opener
    BY DEF Close, CloseStep, Evict, Closed
  <1>3. opener = "serving"
    <2>1. opener = "serving" \/ pc[c] # "idle"
      BY DEF Close, CloseStep, Evict, Closed
    <2> QED
      BY <1>1, <2>1 DEF Opened
  <1>4. PICK place \in {"close", "evict", "done"} : pc' = [pc EXCEPT ![c] = place]
    BY DEF Close, CloseStep, Evict, Closed, Goto
  <1>5. /\ \A a \in Acceptors : pc'[a] = pc[a]
        /\ \A d \in Closers : pc'[d] = IF d = c THEN place ELSE pc[d]
    BY <1>1, <1>4, ListenerAssumption DEF CallsTyped
  <1>6. CallsTyped'
    <2>1. pc' \in [Acceptors \union Closers -> {"idle", "lock", "try", "wait", "wrap", "stopped",
                                                "close", "evict", "done"}]
      BY <1>1, <1>4 DEF CallsTyped
    <2> QED
      BY <1>1, <1>2, <1>5, <2>1 DEF CallsTyped
  <1>7. SameHolders
    BY <1>2, <1>5 DEF SameHolders
  <1>8. Counted'
    <2>1. IsFiniteSet(Closing)
      BY ClosersBounded DEF Closing
    <2>2. Closing' = Closing \union {c}
      BY <1>5 DEF Closing
    <2>3. CASE Close(c)
      <3>1. c \notin Closing /\ closed' = closed + 1
        BY <2>3 DEF Close, Closing
      <3>2. Cardinality(Closing') = Cardinality(Closing) + 1
        BY <2>1, <2>2, <3>1, OneMore
      <3> QED
        BY <1>1, <1>2, <1>3, <3>1, <3>2 DEF Counted
    <2>4. CASE CloseStep(c)
      <3>1. c \in Closing /\ closed' = closed
        BY <2>4 DEF CloseStep, Evict, Closed, Closing
      <3>2. Closing' = Closing
        BY <2>2, <3>1
      <3> QED
        BY <1>1, <1>2, <1>3, <3>1, <3>2 DEF Counted
    <2> QED
      BY <2>3, <2>4
  <1>9. CASE Closed(c)
    <2>1. descriptor' = "closed" /\ Shut /\ sock' = "shut"
      BY <1>9 DEF Closed, Shut
    <2>2. KernelTyped' /\ Lined' /\ Owned' /\ Held' /\ Queue!End
      BY <1>1, <1>7, <2>1, ShutRefuses
    <2>3. OpenerTyped' /\ Opened'
      BY <1>1, <1>2, <1>3, <2>1 DEF OpenerTyped, Opened
    <2> QED
      BY <1>6, <1>8, <2>2, <2>3, Together DEF QueueStep, Queue!Next
  <1>10. CASE Close(c) \/ Evict(c)
    <2>1. /\ UNCHANGED <<sock, queue, arrival, peer, owner>>
          /\ descriptor' \in {descriptor, "closing"}
      BY <1>10 DEF Close, Evict, kernel
    <2>2. KernelTyped' /\ OpenerTyped' /\ Opened'
      BY <1>1, <1>2, <1>3, <2>1 DEF KernelTyped, OpenerTyped, Opened
    <2>3. Lined' /\ Owned' /\ Held'
      BY <1>1, <1>7, <2>1, QueueKept DEF Lined
    <2>4. QueueStep
      BY <2>1, QueueStutters DEF QueueStep, Stage
    <2> QED
      BY <1>6, <1>8, <2>2, <2>3, <2>4, Together
  <1> QED
    BY <1>9, <1>10 DEF CloseStep

LEMMA Stutter ==
    ASSUME Inv, UNCHANGED vars PROVE Inv' /\ QueueStep
  <1>1. KernelTyped /\ OpenerTyped /\ CallsTyped /\ Opened /\ Counted /\ Lined /\ Owned /\ Held
    BY Parts
  <1> USE DEF vars, kernel, listener, calls
  <1>2. KernelTyped' /\ OpenerTyped' /\ CallsTyped'
    BY <1>1 DEF KernelTyped, OpenerTyped, CallsTyped
  <1>3. Opened' /\ Counted'
    BY <1>1 DEF Opened, Counted, Closing
  <1>4. Lined' /\ Owned' /\ Held'
    BY <1>1, QueueKept DEF SameHolders, Lined
  <1>5. QueueStep
    BY QueueStutters DEF QueueStep, Stage
  <1> QED
    BY <1>2, <1>3, <1>4, <1>5, Together

LEMMA InvStep ==
    ASSUME Inv, [Next]_vars PROVE Inv' /\ QueueStep
  <1>1. ASSUME NEW p \in Peers, Arrive(p) PROVE Inv' /\ QueueStep
    BY <1>1, ArriveStep
  <1>2. ASSUME NEW a \in Acceptors, Step(a) \/ Wake(a) PROVE Inv' /\ QueueStep
    BY <1>2, AcceptorStep
  <1>3. ASSUME NEW c \in Closers, Close(c) \/ CloseStep(c) PROVE Inv' /\ QueueStep
    BY <1>3, CloserStep
  <1>4. CASE Opening \/ SetDeadline \/ DeadlinePasses \/ Collect
    BY <1>4, OpeningStep, DeadlineStep, CollectStep
  <1>5. CASE Terminating \/ UNCHANGED vars
    BY <1>5, Stutter DEF Terminating
  <1> QED
    BY <1>1, <1>2, <1>3, <1>4, <1>5 DEF Next

LEMMA AlwaysInv == Spec => []Inv
  <1>1. Inv /\ [Next]_vars => Inv'
    BY InvStep
  <1> QED
    BY InvInit, <1>1, PTL DEF Spec

(***************************************************************************)
(* The theorems.                                                           *)
(***************************************************************************)
\* Every variable of the listener, of its queue and of its callers keeps its
\* type, and Conn.closed stays within the number of calls of Close.
THEOREM ListenerTyped == Spec => []TypeOK
  <1>1. Inv => TypeOK
    BY DEF Inv
  <1> QED
    BY <1>1, AlwaysInv, PTL

\* The part of ImplementsQueue that says what may happen: a connection is taken
\* in its order, by one call of Accept that held no other, and is then served
\* once or broken, whatever deadlines, closes and failures fall between
\* accept4(2) and New (conn.go:374-396).
THEOREM ListenerIsQueue == Spec => Queue!Init /\ [][Queue!Next]_(Queue!vars)
  <1>1. Init => Queue!Init
    BY DEF Init, Queue!Init, Fate
  <1>2. Inv /\ [Next]_vars => [Queue!Next]_(Queue!vars)
    BY InvStep DEF QueueStep
  <1> QED
    BY <1>1, <1>2, AlwaysInv, PTL DEF Spec

(***************************************************************************)
(* The descriptor. Only the first call of Close has it to close, whichever *)
(* of several counts first, and once it is closed no accept4(2) is called  *)
(* with its number.                                                        *)
(***************************************************************************)
InUse == \E a \in Acceptors : pc[a] \in {"try", "wait"}

Leaving == {c \in Closers : pc[c] \in {"close", "evict"}}

Kept ==
    /\ opener = "serving" /\ closed = 0 => descriptor = "open"
    /\ \A c \in Closers : /\ pc[c] = "close" => descriptor = "open"
                          /\ pc[c] = "evict" => descriptor = "closing"
    /\ \A c, d \in Leaving : c = d
    /\ descriptor = "closed" => ~ InUse

\* Listen, the deadline, the collector and the peers.
LEMMA KeptOpening ==
    ASSUME Inv, Kept,
           Opening \/ SetDeadline \/ DeadlinePasses \/ Collect \/ \E p \in Peers : Arrive(p)
    PROVE  Kept'
  <1>1. UNCHANGED pc
    BY DEF Opening, Socket, Bind, Listen, newListener, SetDeadline, DeadlinePasses, Collect, Arrive, calls
  <1>2. Opened /\ Counted /\ OpenerTyped
    BY Parts
  <1>3. Leaving' = Leaving /\ (InUse' <=> InUse)
    BY <1>1 DEF Leaving, InUse
  <1>4. CASE UNCHANGED <<descriptor, closed, opener>>
    BY <1>1, <1>3, <1>4 DEF Kept
  <1>5. CASE opener # "serving"
    <2>1. (\A c \in Closers : pc[c] = "idle") /\ ~ InUse /\ Leaving = {}
      BY <1>2, <1>5 DEF Opened, InUse, Leaving
    <2>2. opener' = "serving" => descriptor' = "open"
      BY <1>2, <1>5 DEF Opening, Socket, Bind, Listen, newListener, listenFails, SetDeadline,
                        DeadlinePasses, Collect, Arrive, listener, Opened
    <2> QED
      BY <1>1, <1>3, <2>1, <2>2 DEF Kept
  <1>6. CASE opener = "serving"
    <2>1. descriptor # "loose"
      BY <1>2, <1>6 DEF Opened
    <2>2. UNCHANGED <<descriptor, closed, opener>>
      BY <1>6, <2>1 DEF Opening, Socket, Bind, Listen, newListener, SetDeadline, DeadlinePasses,
                        Collect, Arrive, listener
    <2> QED
      BY <1>4, <2>2
  <1> QED
    BY <1>5, <1>6

\* A call of Accept begins to use the descriptor only while it is open.
LEMMA KeptAccept ==
    ASSUME Inv, Kept, NEW a \in Acceptors, Step(a) \/ Wake(a) PROVE Kept'
  <1>1. UNCHANGED listener
    BY DEF Step, Wake, Accept, Lock, accept4, NotReady, accept4Fails, New
  <1>2. PICK place : pc' = [pc EXCEPT ![a] = place]
    BY DEF Step, Wake, Accept, Lock, accept4, NotReady, accept4Fails, New, Return, Goto
  <1>3. CallsTyped /\ a \notin Closers /\ a \in Acceptors \union Closers
    BY Parts, ListenerAssumption
  <1>4. /\ \A c \in Closers : pc'[c] = pc[c]
        /\ \A b \in Acceptors : b # a => pc'[b] = pc[b]
    BY <1>2, <1>3 DEF CallsTyped
  <1>5. pc'[a] \in {"try", "wait"} => pc[a] \in {"try", "wait"} \/ descriptor = "open"
    BY <1>3 DEF Step, Wake, Accept, Lock, accept4, NotReady, accept4Fails, New, Return, Goto, CallsTyped
  <1>6. Leaving' = Leaving
    BY <1>4 DEF Leaving
  <1>7. descriptor = "closed" => ~ InUse'
    BY <1>4, <1>5 DEF Kept, InUse
  <1> QED
    BY <1>1, <1>4, <1>6, <1>7 DEF Kept, listener

LEMMA KeptClose ==
    ASSUME Inv, Kept, NEW c \in Closers, Close(c) \/ CloseStep(c) PROVE Kept'
  <1>1. CallsTyped /\ Opened /\ Counted /\ c \notin Acceptors /\ c \in Acceptors \union Closers
    BY Parts, ListenerAssumption
  <1>2. opener' = opener /\ opener = "serving"
    <2>1. opener = "serving" \/ pc[c] # "idle"
      BY DEF Close, CloseStep, Evict, Closed
    <2>2. opener' = opener
      BY DEF Close, CloseStep, Evict, Closed
    <2> QED
      BY <1>1, <2>1, <2>2 DEF Opened
  <1>3. PICK place \in {"close", "evict", "done"} : pc' = [pc EXCEPT ![c] = place]
    BY DEF Close, CloseStep, Evict, Closed, Goto
  <1>4. \A d \in Acceptors \union Closers : pc'[d] = IF d = c THEN place ELSE pc[d]
    BY <1>1, <1>3 DEF CallsTyped
  <1>5. InUse' <=> InUse
    BY <1>1, <1>4 DEF InUse
  <1>6. CASE Close(c) /\ closed = 0
    <2>1. Closing = {}
      <3>1. IsFiniteSet(Closing) /\ Cardinality(Closing) = 0
        BY <1>1, <1>2, <1>6, ClosersBounded DEF Closing, Counted
      <3> QED
        BY <3>1, FS_EmptySet
    <2>2. \A d \in Closers : pc[d] = "idle"
      BY <2>1 DEF Closing
    <2>3. place = "close" /\ closed' = 1 /\ descriptor' = descriptor /\ descriptor = "open"
      BY <1>1, <1>2, <1>3, <1>4, <1>6 DEF Close, Goto, Kept, CallsTyped
    <2>4. Leaving' = {c}
      BY <1>4, <2>2, <2>3 DEF Leaving
    <2>5. \A d \in Closers : pc'[d] = "close" \/ pc'[d] = "idle"
      BY <1>4, <2>2, <2>3
    <2> QED
      BY <1>2, <2>3, <2>4, <2>5 DEF Kept
  <1>7. CASE Close(c) /\ closed # 0
    <2>1. pc[c] = "idle" /\ place = "done" /\ closed' # 0 /\ descriptor' = descriptor
      <3>1. closed \in Nat
        BY Parts, ClosersBounded DEF Inv, TypeOK
      <3>2. pc[c] = "idle" /\ closed' = closed + 1 /\ descriptor' = descriptor /\ pc'[c] = "done"
        BY <1>1, <1>7 DEF Close, Goto, CallsTyped
      <3> QED
        BY <1>4, <1>7, <3>1, <3>2
    <2>2. Leaving' = Leaving
      BY <1>4, <2>1 DEF Leaving
    <2>3. \A d \in Closers : pc'[d] = pc[d] \/ pc'[d] = "done"
      BY <1>4, <2>1
    <2> QED
      BY <1>2, <1>5, <2>1, <2>2, <2>3 DEF Kept
  <1>8. CASE CloseStep(c)
    <2>1. /\ \/ pc[c] = "close" /\ place = "evict" /\ descriptor' = "closing"
             \/ pc[c] = "evict" /\ place = "done" /\ descriptor' = "closed" /\ ~ InUse
          /\ closed' = closed
      BY <1>1, <1>3, <1>4, <1>8 DEF CloseStep, Evict, Closed, Goto, CallsTyped, InUse
    <2>2. \A d \in Closers : d # c => d \notin Leaving
      BY <2>1 DEF Kept, Leaving
    <2>3. closed # 0
      <3>1. IsFiniteSet(Closing) /\ c \in Closing /\ closed = Cardinality(Closing)
        BY <1>1, <1>2, <2>1, ClosersBounded DEF Closing, Counted
      <3> QED
        BY <3>1, FS_EmptySet
    <2>4. Leaving' \subseteq {c} /\ \A d \in Closers : d # c => pc'[d] \notin {"close", "evict"}
      BY <1>4, <2>1, <2>2 DEF Leaving
    <2>5. pc'[c] = place
      BY <1>4
    <2> QED
      BY <1>2, <1>5, <2>1, <2>3, <2>4, <2>5 DEF Kept
  <1> QED
    BY <1>6, <1>7, <1>8

LEMMA AlwaysKept == Spec => []Kept
  <1>1. Init => Kept
    BY DEF Init, Kept, Leaving, InUse
  <1>2. Inv /\ Kept /\ [Next]_vars => Kept'
    <2> SUFFICES ASSUME Inv, Kept, [Next]_vars PROVE Kept'
      OBVIOUS
    <2>1. CASE Terminating \/ UNCHANGED vars
      BY <2>1 DEF Terminating, Kept, Leaving, InUse, vars, listener, calls
    <2>2. ASSUME NEW a \in Acceptors, Step(a) \/ Wake(a) PROVE Kept'
      BY <2>2, KeptAccept
    <2>3. ASSUME NEW c \in Closers, Close(c) \/ CloseStep(c) PROVE Kept'
      BY <2>3, KeptClose
    <2> QED
      BY <2>1, <2>2, <2>3, KeptOpening DEF Next
  <1> QED
    BY <1>1, <1>2, AlwaysInv, PTL DEF Spec

\* A closed descriptor is used by no call of Accept, whichever of them waited for
\* their turn when Close came.
THEOREM ClosedIsUnused == Spec => [](descriptor = "closed" => ~ InUse)
  <1>1. Kept => (descriptor = "closed" => ~ InUse)
    BY DEF Kept
  <1> QED
    BY <1>1, AlwaysKept, PTL

\* It is closed once, though Close may be called by several at the same time.
THEOREM ClosesOnce == Spec => [][descriptor = "closed" => descriptor' = "closed"]_vars
  <1>1. ASSUME Inv, Kept, [Next]_vars, descriptor = "closed" PROVE descriptor' = "closed"
    <2>1. ~ Socket
      BY <1>1, Parts DEF Opened, Socket
    <2>2. Opening \/ SetDeadline \/ DeadlinePasses \/ Collect => descriptor' = "closed"
      BY <1>1, <2>1 DEF Opening, Bind, Listen, newListener, listenFails, SetDeadline, DeadlinePasses,
                        Collect, listener
    <2>3. ASSUME NEW a \in Acceptors, Step(a) \/ Wake(a) PROVE UNCHANGED listener
      BY <2>3 DEF Step, Wake, Accept, Lock, accept4, NotReady, accept4Fails, New
    <2>4. ASSUME NEW c \in Closers, Close(c) \/ CloseStep(c) PROVE descriptor' = "closed"
      BY <1>1, <2>4 DEF Close, CloseStep, Evict, Closed, Kept
    <2> QED
      BY <1>1, <2>2, <2>3, <2>4 DEF Next, Arrive, Terminating, vars, listener
  <1>2. Inv /\ Kept /\ [Next]_vars => [descriptor = "closed" => descriptor' = "closed"]_vars
    BY <1>1
  <1> QED
    BY <1>2, AlwaysInv, AlwaysKept, PTL DEF Spec
================================================================================
