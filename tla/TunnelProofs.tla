------------------------------ MODULE TunnelProofs ------------------------------
(***************************************************************************)
(* Proofs about Tunnel: the types, what a finished call leaves and has     *)
(* read, and that each call is a pair of channels as Pipe describes them.  *)
(*                                                                         *)
(* The argument follows a message. Each way of a call is a line: what the  *)
(* receiver has got, what is on its way to it over the second connection,  *)
(* what the copying goroutine holds, and what is on its way to the proxy   *)
(* over the first. Put one after the other they are a beginning of what    *)
(* was sent, as far as the connections are whole; a close, a reset or a    *)
(* restart only ever cuts a line behind what still reaches the receiver.   *)
(***************************************************************************)
EXTENDS Tunnel, SequencesExt, TLAPS

(***************************************************************************)
(* Connections.                                                            *)
(***************************************************************************)
\* The two ends of a connection.
LEMMA Ends == /\ End = {"dialer", "acceptor"} /\ \A e \in End : Other(e) \in End /\ Other(e) # e
              /\ Other("dialer") = "acceptor" /\ Other("acceptor") = "dialer"
  BY DEF End, Other

\* A connection nobody has dialled, and one that has just been.
LEMMA NotDialedType ==
    ASSUME NEW M
    PROVE  /\ NotDialed \in Connection(M) /\ NotDialed.open = {}
           /\ \A e \in End : NotDialed.to[e] = <<>>
           /\ Connected \in Connection(M) /\ Connected.open = End
           /\ \A e \in End : Connected.to[e] = <<>>
  <1> DEFINE empty == [e \in End |-> <<>>]
  <1>1. NotDialed = [open |-> {}, to |-> empty] /\ Connected = [open |-> End, to |-> empty]
    BY DEF NotDialed, Connected
  <1>2. empty \in [End -> Seq(M)] /\ \A e \in End : empty[e] = <<>>
    OBVIOUS
  <1> HIDE DEF empty
  <1>3. /\ NotDialed \in Connection(M) /\ Connected \in Connection(M)
        /\ NotDialed.open = {} /\ Connected.open = End
        /\ NotDialed.to = empty /\ Connected.to = empty
    BY <1>1, <1>2 DEF Connection
  <1> QED
    BY <1>2, <1>3

\* The parts of a connection.
LEMMA ConnectionType ==
    ASSUME NEW M, NEW k \in Connection(M)
    PROVE  /\ k.open \subseteq End /\ k.to \in [End -> Seq(M)]
           /\ \A e \in End : k.to[e] \in Seq(M)
           /\ k = [open |-> k.open, to |-> k.to]
  BY DEF Connection

\* EXCEPT on both parts of a connection at once, and on one of them.
LEMMA SetLine ==
    ASSUME NEW D, NEW k, k.to \in [End -> D], k = [open |-> k.open, to |-> k.to], NEW e \in End,
           NEW line, NEW O
    PROVE  /\ [k EXCEPT !.to[e] = line] = [open |-> k.open, to |-> [k.to EXCEPT ![e] = line]]
           /\ [k EXCEPT !.open = O, !.to[e] = line] = [open |-> O, to |-> [k.to EXCEPT ![e] = line]]
  <1>1. [k EXCEPT !.to[e] = line] = [open |-> k.open, to |-> [k.to EXCEPT ![e] = line]]
    OBVIOUS
  <1>2. [k EXCEPT !.open = O, !.to[e] = line] = [open |-> O, to |-> [k.to EXCEPT ![e] = line]]
    <2> DEFINE to == [k.to EXCEPT ![e] = line]
               opened == [k EXCEPT !.open = O]
    <2>1. [k EXCEPT !.open = O, !.to[e] = line] = [k EXCEPT !.open = O, !.to = to]
      OBVIOUS
    <2> HIDE DEF to
    <2>2. [k EXCEPT !.open = O, !.to = to] = [opened EXCEPT !.to = to]
      OBVIOUS
    <2>3. opened = [open |-> O, to |-> k.to]
      OBVIOUS
    <2> HIDE DEF opened
    <2>4. [opened EXCEPT !.to = to] = [open |-> O, to |-> to]
      BY <2>3
    <2> QED
      BY <2>1, <2>2, <2>4 DEF to, opened
  <1> QED
    BY <1>1, <1>2

\* Closing an end drops what is on its way to it and nothing else.
LEMMA CloseType ==
    ASSUME NEW M, NEW k \in Connection(M), NEW e \in End
    PROVE  /\ Close(k, e) \in Connection(M)
           /\ Close(k, e).open = k.open \ {e}
           /\ Close(k, e).to[e] = <<>>
           /\ Close(k, e).to[Other(e)] = k.to[Other(e)]
           /\ k = NotDialed => Close(k, e) = k
  <1> DEFINE to == [k.to EXCEPT ![e] = <<>>]
  <1>1. k = [open |-> k.open, to |-> k.to] /\ k.to \in [End -> Seq(M)]
    BY ConnectionType
  <1>2. Close(k, e) = [k EXCEPT !.open = k.open \ {e}, !.to[e] = <<>>]
    BY DEF Close
  <1>3. Close(k, e) = [open |-> k.open \ {e}, to |-> to]
    BY <1>1, <1>2, SetLine
  <1>4. to \in [End -> Seq(M)] /\ to[e] = <<>> /\ to[Other(e)] = k.to[Other(e)]
    BY <1>1, Ends
  <1>5. k = NotDialed => to = [f \in End |-> <<>>] /\ k.open \ {e} = {}
    BY DEF NotDialed
  <1>6. k.open \ {e} \in SUBSET End
    BY ConnectionType
  <1> HIDE DEF to
  <1>7. k = NotDialed => Close(k, e) = k
    BY <1>3, <1>5 DEF NotDialed
  <1> QED
    BY <1>3, <1>4, <1>6, <1>7 DEF Connection

\* Writing at one end adds to what is on its way to the other.
LEMMA WriteType ==
    ASSUME NEW M, NEW k \in Connection(M), NEW e \in End, NEW m \in M
    PROVE  /\ Write(k, e, m) \in Connection(M)
           /\ Write(k, e, m).open = k.open
           /\ Write(k, e, m).to[e] = k.to[e]
           /\ Write(k, e, m).to[Other(e)] = Append(k.to[Other(e)], m)
  <1> DEFINE f == Other(e)
             line == Append(k.to[f], m)
             to == [k.to EXCEPT ![f] = line]
  <1>1. f \in End /\ f # e
    BY Ends
  <1>2. k = [open |-> k.open, to |-> k.to] /\ k.to \in [End -> Seq(M)] /\ k.open \in SUBSET End
    BY ConnectionType
  <1>3. line \in Seq(M)
    BY <1>1, <1>2
  <1>4. Write(k, e, m) = [k EXCEPT !.to[f] = line]
    BY DEF Write
  <1> HIDE DEF line, f
  <1>5. Write(k, e, m) = [open |-> k.open, to |-> to]
    BY <1>1, <1>2, <1>4, SetLine
  <1>6. to \in [End -> Seq(M)] /\ to[e] = k.to[e] /\ to[f] = line
    BY <1>1, <1>2, <1>3
  <1> HIDE DEF to
  <1> QED
    BY <1>2, <1>5, <1>6 DEF Connection, line, f

\* Reading at an end takes the first of what is on its way to it.
LEMMA ReadType ==
    ASSUME NEW M, NEW k \in Connection(M), NEW e \in End, k.to[e] # <<>>
    PROVE  /\ Read(k, e) \in Connection(M)
           /\ Read(k, e).open = k.open
           /\ Read(k, e).to[e] = Tail(k.to[e])
           /\ Read(k, e).to[Other(e)] = k.to[Other(e)]
           /\ Head(k.to[e]) \in M
  <1> DEFINE line == Tail(k.to[e])
             to == [k.to EXCEPT ![e] = line]
  <1>1. Other(e) \in End /\ Other(e) # e
    BY Ends
  <1>2. k = [open |-> k.open, to |-> k.to] /\ k.to \in [End -> Seq(M)] /\ k.open \in SUBSET End
    BY ConnectionType
  <1>3. line \in Seq(M) /\ Head(k.to[e]) \in M
    BY <1>2
  <1>4. Read(k, e) = [k EXCEPT !.to[e] = line]
    BY DEF Read
  <1> HIDE DEF line
  <1>5. Read(k, e) = [open |-> k.open, to |-> to]
    BY <1>2, <1>4, SetLine
  <1>6. to \in [End -> Seq(M)] /\ to[e] = line /\ to[Other(e)] = k.to[Other(e)]
    BY <1>1, <1>2, <1>3
  <1> HIDE DEF to
  <1> QED
    BY <1>2, <1>3, <1>5, <1>6 DEF Connection, line

\* A reset drops what is on its way in both directions.
LEMMA ResetType ==
    ASSUME NEW M, NEW k \in Connection(M)
    PROVE  /\ Reset(k) \in Connection(M)
           /\ Reset(k).open = k.open
           /\ \A e \in End : Reset(k).to[e] = <<>>
           /\ k = NotDialed => Reset(k) = k
  <1>1. Reset(k) = [open |-> k.open, to |-> [e \in End |-> <<>>]]
    BY DEF Reset, Connection
  <1> QED
    BY <1>1 DEF Connection, NotDialed

(***************************************************************************)
(* Sequences.                                                              *)
(***************************************************************************)
\* A prefix agrees with the whole item by item.
LEMMA PrefixItems ==
    ASSUME NEW S, NEW s \in Seq(S), NEW t \in Seq(S)
    PROVE  IsPrefix(s, t) <=> Len(s) <= Len(t) /\ \A n \in 1 .. Len(s) : s[n] = t[n]
  <1>1. CASE Len(s) <= Len(t)
    <2>1. SubSeq(s, 1, Len(s)) = s
      OBVIOUS
    <2>2. /\ SubSeq(t, 1, Len(s)) \in Seq(S)
          /\ Len(SubSeq(t, 1, Len(s))) = Len(s)
          /\ \A n \in 1 .. Len(s) : SubSeq(t, 1, Len(s))[n] = t[n]
      BY <1>1
    <2> DEFINE u == SubSeq(t, 1, Len(s))
    <2>3. s = u <=> \A n \in 1 .. Len(s) : s[n] = u[n]
      BY <2>2
    <2>4. s = u <=> \A n \in 1 .. Len(s) : s[n] = t[n]
      BY <2>2, <2>3
    <2>5. IsPrefix(s, t) <=> s = u
      BY <1>1, <2>1 DEF IsPrefix
    <2> QED
      BY <1>1, <2>4, <2>5
  <1>2. CASE ~ (Len(s) <= Len(t))
    BY <1>2 DEF IsPrefix
  <1> QED
    BY <1>1, <1>2

\* What keeps a sequence a prefix: more at the end of the whole, less at its own.
LEMMA PrefixFacts ==
    ASSUME NEW S, NEW s \in Seq(S), NEW t \in Seq(S)
    PROVE  /\ IsPrefix(s, s)
           /\ s = <<>> => IsPrefix(s, t)
           /\ IsPrefix(s, t) => \A m \in S : IsPrefix(s, Append(t, m))
           /\ \A u \in Seq(S) : IsPrefix(s \o u, t) => IsPrefix(s, t)
           /\ \A u \in Seq(S) : s \o u = t => IsPrefix(s, t)
  <1>1. IsPrefix(s, s)
    BY PrefixItems
  <1>2. s = <<>> => IsPrefix(s, t)
    <2>1. s = <<>> => Len(s) <= Len(t) /\ \A n \in 1 .. Len(s) : s[n] = t[n]
      OBVIOUS
    <2> QED
      BY <2>1, PrefixItems
  <1>3. ASSUME IsPrefix(s, t), NEW m \in S PROVE IsPrefix(s, Append(t, m))
    <2> DEFINE u == Append(t, m)
    <2>1. /\ u \in Seq(S) /\ Len(t) <= Len(u) /\ Len(t) \in Nat /\ Len(u) \in Nat /\ Len(s) \in Nat
          /\ \A n \in 1 .. Len(t) : t[n] = u[n]
      OBVIOUS
    <2> HIDE DEF u
    <2>2. IsPrefix(s, u)
      BY <1>3, <2>1, PrefixItems
    <2> QED
      BY <2>2 DEF u
  <1>4. ASSUME NEW u \in Seq(S)
        PROVE  /\ IsPrefix(s \o u, t) => IsPrefix(s, t)
               /\ s \o u = t => IsPrefix(s, t)
    <2> DEFINE v == s \o u
    <2>1. /\ v \in Seq(S) /\ Len(s) <= Len(v) /\ Len(t) \in Nat /\ Len(v) \in Nat /\ Len(s) \in Nat
          /\ \A n \in 1 .. Len(s) : s[n] = v[n]
      OBVIOUS
    <2> HIDE DEF v
    <2>2. IsPrefix(v, t) => IsPrefix(s, t)
      BY <2>1, PrefixItems
    <2>3. v = t => IsPrefix(s, t)
      BY <2>1, PrefixItems
    <2> QED
      BY <2>2, <2>3 DEF v
  <1> QED
    BY <1>1, <1>2, <1>3, <1>4

\* How appending, taking the first and joining go together.
LEMMA Joins ==
    ASSUME NEW S, NEW s \in Seq(S), NEW t \in Seq(S), NEW u \in Seq(S), NEW m \in S
    PROVE  /\ s \o t \in Seq(S) /\ <<m>> \in Seq(S)
           /\ t # <<>> => Append(s, Head(t)) \o Tail(t) = s \o t
           /\ t # <<>> => <<Head(t)>> \o Tail(t) = t
           /\ s \o Append(t, m) = Append(s \o t, m)
           /\ s \o (<<m>> \o u) = Append(s, m) \o u
           /\ <<>> \o s = s /\ s \o <<>> = s
  <1>1. s \o t \in Seq(S) /\ <<m>> \in Seq(S)
    OBVIOUS
  <1>2. t # <<>> => Append(s, Head(t)) \o Tail(t) = s \o t
    OBVIOUS
  <1>3. t # <<>> => <<Head(t)>> \o Tail(t) = t
    OBVIOUS
  <1>4. s \o Append(t, m) = Append(s \o t, m)
    OBVIOUS
  <1>5. s \o (<<m>> \o u) = Append(s, m) \o u
    OBVIOUS
  <1>6. <<>> \o s = s /\ s \o <<>> = s
    OBVIOUS
  <1> QED
    BY <1>1, <1>2, <1>3, <1>4, <1>5, <1>6


\* The next message of a prefix is the next one of the whole.
LEMMA NextItem ==
    ASSUME NEW S, NEW s \in Seq(S), NEW t \in Seq(S), NEW b \in Seq(S), b # <<>>,
           IsPrefix(s \o b, t)
    PROVE  Len(s) < Len(t) /\ Append(s, Head(b)) = SubSeq(t, 1, Len(s) + 1)
  <1> DEFINE u == s \o b
             n == Len(s) + 1
  <1>1. /\ u \in Seq(S) /\ Len(s) \in Nat /\ n \in 1 .. Len(u) /\ Len(t) \in Nat
        /\ u[n] = Head(b) /\ \A i \in 1 .. Len(s) : u[i] = s[i]
    OBVIOUS
  <1> HIDE DEF u
  <1>2. Len(u) <= Len(t) /\ \A i \in 1 .. Len(u) : u[i] = t[i]
    <2>1. IsPrefix(u, t)
      BY DEF u
    <2> QED
      BY <1>1, <2>1, PrefixItems
  <1>3. n <= Len(t) /\ t[n] = Head(b) /\ \A i \in 1 .. Len(s) : s[i] = t[i]
    BY <1>1, <1>2
  <1>4. Append(s, Head(b)) \in Seq(S) /\ Head(b) \in S
    OBVIOUS
  <1>5. /\ SubSeq(t, 1, n) \in Seq(S) /\ Len(SubSeq(t, 1, n)) = n
        /\ \A i \in 1 .. n : SubSeq(t, 1, n)[i] = t[i]
    BY <1>1, <1>3
  <1>6. /\ Len(Append(s, Head(b))) = n
        /\ \A i \in 1 .. n : Append(s, Head(b))[i] = IF i = n THEN Head(b) ELSE s[i]
    BY <1>4
  <1>7. \A i \in 1 .. n : Append(s, Head(b))[i] = SubSeq(t, 1, n)[i]
    BY <1>1, <1>3, <1>5, <1>6
  <1> QED
    BY <1>1, <1>3, <1>4, <1>5, <1>6, <1>7

(***************************************************************************)
(* A line: what its receiver has got, what is on its way to it over the    *)
(* second connection, what the copying goroutine holds, and what is on its *)
(* way to the proxy over the first.                                        *)
(***************************************************************************)
\* What was received and is still on its way to the receiver is a beginning of
\* what was sent; as long as the second connection is whole (near) so is the rest,
\* and as long as both are, nothing is missing.
Line(received, last, holds, first, whole, near, far) ==
    /\ IsPrefix(received \o last, whole)
    /\ near => IsPrefix((received \o last) \o (holds \o first), whole)
    /\ near /\ far => (received \o last) \o (holds \o first) = whole

\* The parts of a line are sequences of messages.
LineTyped(received, last, holds, first, whole) ==
    /\ received \in Seq(Message) /\ last \in Seq(Message) /\ holds \in Seq(Message)
    /\ first \in Seq(Message) /\ whole \in Seq(Message)

\* A line on which nothing was sent.
LEMMA LineEmpty ==
    ASSUME NEW near, NEW far
    PROVE  Line(<<>>, <<>>, <<>>, <<>>, <<>>, near, far)
  <1>1. <<>> \o <<>> = <<>> /\ <<>> \in Seq(Message)
    OBVIOUS
  <1> QED
    BY <1>1, PrefixFacts DEF Line

\* The sender writes to the first connection while both its ends are open.
LEMMA LineSend ==
    ASSUME NEW x, NEW b, NEW h, NEW a, NEW w, NEW near, NEW far, NEW m \in Message, far,
           LineTyped(x, b, h, a, w), Line(x, b, h, a, w, near, far)
    PROVE  Line(x, b, h, Append(a, m), Append(w, m), near, far)
  <1> DEFINE p == x \o b
             q == h \o a
  <1>1. p \in Seq(Message) /\ q \in Seq(Message) /\ w \in Seq(Message) /\ Append(w, m) \in Seq(Message)
    BY DEF LineTyped
  <1>2. h \o Append(a, m) = Append(q, m)
    BY Joins DEF LineTyped
  <1> HIDE DEF p, q
  <1>3. p \o Append(q, m) = Append(p \o q, m)
    BY <1>1, Joins
  <1>4. IsPrefix(p, w) /\ (near => p \o q = w)
    BY DEF Line, p, q
  <1>5. IsPrefix(p, Append(w, m)) /\ (near => p \o Append(q, m) = Append(w, m))
    BY <1>1, <1>3, <1>4, PrefixFacts
  <1>6. IsPrefix(Append(w, m), Append(w, m))
    BY <1>1, PrefixFacts
  <1> QED
    BY <1>2, <1>5, <1>6 DEF Line, p, q

\* The copying goroutine takes a message from the first connection...
LEMMA LineRead ==
    ASSUME NEW x, NEW b, NEW a, NEW w, NEW near, NEW far, a # <<>>,
           LineTyped(x, b, <<>>, a, w), Line(x, b, <<>>, a, w, near, far)
    PROVE  Line(x, b, <<Head(a)>>, Tail(a), w, near, far)
  <1>1. <<Head(a)>> \o Tail(a) = <<>> \o a
    BY DEF LineTyped
  <1> QED
    BY <1>1 DEF Line

\* ... and writes it to the second, while both ends of that are open.
LEMMA LineWrite ==
    ASSUME NEW x, NEW b, NEW m \in Message, NEW a, NEW w, NEW near, NEW far, near,
           LineTyped(x, b, <<m>>, a, w), Line(x, b, <<m>>, a, w, near, far)
    PROVE  Line(x, Append(b, m), <<>>, a, w, near, far)
  <1> DEFINE p == x \o b
  <1>1. p \in Seq(Message) /\ a \in Seq(Message) /\ w \in Seq(Message)
    BY DEF LineTyped
  <1>2. x \o Append(b, m) = Append(p, m)
    BY Joins DEF LineTyped
  <1> HIDE DEF p
  <1>3. p \o (<<m>> \o a) = Append(p, m) \o a /\ <<>> \o a = a /\ Append(p, m) \in Seq(Message)
    BY <1>1, Joins
  <1>4. IsPrefix(Append(p, m) \o a, w) /\ (far => Append(p, m) \o a = w)
    BY <1>3 DEF Line, p
  <1>5. IsPrefix(Append(p, m), w)
    BY <1>1, <1>3, <1>4, PrefixFacts
  <1> QED
    BY <1>2, <1>3, <1>4, <1>5 DEF Line

\* The receiver reads from the second connection.
LEMMA LineReceive ==
    ASSUME NEW x, NEW b, NEW h, NEW a, NEW w, NEW near, NEW far, b # <<>>,
           LineTyped(x, b, h, a, w), Line(x, b, h, a, w, near, far)
    PROVE  Line(Append(x, Head(b)), Tail(b), h, a, w, near, far)
  <1>1. Append(x, Head(b)) \o Tail(b) = x \o b
    BY DEF LineTyped
  <1> QED
    BY <1>1 DEF Line

\* What is lost behind the receiver leaves a beginning: the second connection breaks
\* before what is on it is dropped, and a line that stays whole has lost nothing.
LEMMA LineLoses ==
    ASSUME NEW x, NEW b, NEW h, NEW a, NEW w, NEW near, NEW far,
           LineTyped(x, b, h, a, w), Line(x, b, h, a, w, near, far),
           NEW b1 \in {b, <<>>}, NEW h1 \in {h, <<>>}, NEW a1 \in {a, <<>>},
           NEW near1, NEW far1,
           near1 => near /\ b1 = b /\ h1 = h,
           near1 /\ far1 => far /\ a1 = a
    PROVE  Line(x, b1, h1, a1, w, near1, far1)
  <1>1. /\ x \in Seq(Message) /\ b \in Seq(Message) /\ h \in Seq(Message)
        /\ a \in Seq(Message) /\ w \in Seq(Message) /\ x \o b \in Seq(Message)
    BY DEF LineTyped
  <1>2. x \o <<>> = x /\ h \o <<>> = h
    BY <1>1, Joins
  <1>3. IsPrefix(x, w) /\ IsPrefix(x \o b, w)
    BY <1>1, PrefixFacts DEF Line
  <1>4. IsPrefix(x \o b1, w)
    BY <1>2, <1>3
  <1>5. ASSUME near1 PROVE IsPrefix((x \o b) \o (h \o a1), w)
    <2>1. IsPrefix((x \o b) \o (h \o a), w)
      BY <1>5 DEF Line
    <2>2. CASE a1 = <<>>
      <3>1. (x \o b) \o (h \o a) = ((x \o b) \o h) \o a
        BY <1>1
      <3>2. (x \o b) \o h \in Seq(Message)
        BY <1>1
      <3>3. IsPrefix((x \o b) \o h, w)
        BY <1>1, <2>1, <3>1, <3>2, PrefixFacts
      <3> QED
        BY <1>2, <2>2, <3>3
    <2> QED
      BY <2>1, <2>2
  <1>6. near1 /\ far1 => (x \o b1) \o (h1 \o a1) = w
    BY DEF Line
  <1> QED
    BY <1>4, <1>5, <1>6 DEF Line

(***************************************************************************)
(* The inductive invariant.                                                *)
(***************************************************************************)
\* The proxy has not yet turned to the connection's remote.
Unserved == {"none", "queued", "dialing"}

\* A connection exists from the moment the kernel queues it on the host, and its
\* remote has been dialled only once it is being copied: until then nothing has
\* reached the remote or come from it.
Begins(c) ==
    /\ pc[c] \in {"idle", "dialing"} => at[c] = "none" /\ hs[c] = "none"
    /\ at[c] = "none" => vs[c] = NotDialed /\ sent[c] = <<>>
    /\ at[c] \in Unserved =>
          /\ tcp[c] = NotDialed /\ vs[c].to["dialer"] = <<>>
          /\ read[c] = <<>> /\ answers[c] = <<>> /\ got[c] = <<>>
          /\ \A way \in Way : copy[c][way] = "none"

\* A copying goroutine holds one message between its read and its write, and none
\* at any other time.
Holds(c) ==
    \A way \in Way :
       /\ copy[c][way] = "write" => \E m \in Message : held[c][way] = <<m>>
       /\ copy[c][way] # "write" => held[c][way] = <<>>

\* The messages of the handshake.
Greeting(c) == IF Scheme[c] = "https" THEN 1 ELSE 0

\* How much the enclave has read, by where its two goroutines are: the one that
\* lost the race can no longer read, for its connection is closed.
Progress(c) ==
    /\ pc[c] = "handshake" => Scheme[c] = "https"
    /\ hs[c] \in {"sendHello", "awaitHello"} =>
          pc[c] \in {"handshake", "done"} /\ got[c] = <<>>
    /\ pc[c] = "handshake" /\ hs[c] = "succeeded" => Len(got[c]) = 1
    /\ pc[c] \in {"write", "head"} => Len(got[c]) = Greeting(c)
    /\ pc[c] \in {"body", "drain"} => Len(got[c]) = Greeting(c) + 1
    /\ result[c] = "ok" => pc[c] \in {"close", "done"} /\ Len(got[c]) = Greeting(c) + 2
    /\ pc[c] = "done" => "dialer" \notin vs[c].open
    /\ IsPrefix(answers[c], Response(c))

\* The remote's connection is whole, or does not exist yet.
Reachable(c) == tcp[c].open = End \/ at[c] \in Unserved

UpLine(c) ==
    Line(read[c], tcp[c].to["acceptor"], held[c]["up"], vs[c].to["acceptor"], sent[c],
         Reachable(c), vs[c].open = End)

DownLine(c) ==
    Line(got[c], vs[c].to["dialer"], held[c]["down"], tcp[c].to["dialer"], answers[c],
         vs[c].open = End, tcp[c].open = End)

Control(c) == Begins(c) /\ Progress(c)

Lines(c) == UpLine(c) /\ DownLine(c)

Inv == TypeOK /\ \A c \in Calls : Holds(c) /\ Control(c) /\ Lines(c)

\* The response of a remote.
LEMMA ResponseType ==
    ASSUME NEW c \in Calls
    PROVE  /\ Response(c) \in Seq(Message) /\ Len(Response(c)) = Greeting(c) + 2
           /\ Greeting(c) \in 0 .. 1
  <1>1. {"hello", "head", "body"} \subseteq Message
    BY DEF Message
  <1>2. CASE Scheme[c] = "https"
    <2>1. Response(c) = <<"hello", "head", "body">> /\ Greeting(c) = 1
      BY <1>2 DEF Response, Greeting
    <2> QED
      BY <1>1, <2>1
  <1>3. CASE Scheme[c] # "https"
    <2>1. Response(c) = <<"head", "body">> /\ Greeting(c) = 0
      BY <1>3 DEF Response, Greeting
    <2> QED
      BY <1>1, <2>1
  <1> QED
    BY <1>2, <1>3

\* The type of a connection after each of the operations on it.
LEMMA Operations ==
    \A k \in Connection(Message), e \in {"dialer", "acceptor"} :
       /\ Close(k, e) \in Connection(Message) /\ Reset(k) \in Connection(Message)
       /\ \A m \in Message : Write(k, e, m) \in Connection(Message)
       /\ HasData(k, e) => Read(k, e) \in Connection(Message) /\ Head(k.to[e]) \in Message
  BY CloseType, ResetType, WriteType, ReadType DEF HasData, End

(***************************************************************************)
(* Types.                                                                  *)
(***************************************************************************)
\* TypeOK by the connections, the places of the processes, what they hold, and
\* the histories of what was sent and received.
ConnectionsTyped ==
    vs \in [Calls -> Connection(Message)] /\ tcp \in [Calls -> Connection(Message)]

EnclaveTyped ==
    /\ pc \in [Calls -> {"idle", "dialing", "handshake", "write", "head",
                          "body", "drain", "close", "done"}]
    /\ hs \in [Calls -> {"none", "sendHello", "awaitHello", "succeeded", "broken"}]
    /\ expired \in [Calls -> BOOLEAN]
    /\ result \in [Calls -> {"none", "ok", "failed"}]

HostTyped ==
    /\ loop \in {"calling", "parked", "returned", "collected"}
    /\ at \in [Calls -> {"none", "queued", "dialing", "copying", "dropped", "collected"}]
    /\ restarts \in 0 .. MaxRestarts

CopiesTyped ==
    /\ copy \in [Calls -> [Way -> {"none", "read", "write", "ended"}]]
    /\ held \in [Calls -> [Way -> Seq(Message)]]

HistoriesTyped ==
    /\ sent \in [Calls -> Seq(Message)] /\ got \in [Calls -> Seq(Message)]
    /\ read \in [Calls -> Seq(Message)] /\ answers \in [Calls -> Seq(Message)]

\* TypeOK is the conjunction of its parts.
LEMMA TypeParts ==
    TypeOK <=> ConnectionsTyped /\ EnclaveTyped /\ HostTyped /\ CopiesTyped /\ HistoriesTyped
  BY DEF TypeOK, ConnectionsTyped, EnclaveTyped, HostTyped, CopiesTyped, HistoriesTyped

\* The types hold at the start.
LEMMA TypeInit == ASSUME Init PROVE TypeOK /\ \A c \in Calls : Holds(c)
  <1>1. NotDialed \in Connection(Message)
    BY NotDialedType
  <1> QED
    BY <1>1, RestartsAssumption DEF Init, RoundTripInit, ProxyInit, TypeOK, Holds, NoCopy

\* The steps of the enclave keep the types.
LEMMA EnclaveTypes ==
    ASSUME TypeOK, \A c \in Calls : Holds(c), NEW c \in Calls, UNCHANGED <<proxy, remote, restarts>>,
           Do(c) \/ Dial(c) \/ Expire(c) \/ CallerStep(c) \/ HandshakeStep(c)
    PROVE  ConnectionsTyped' /\ EnclaveTyped' /\ HistoriesTyped'
  <1> DEFINE k == vs[c]
  <1>1. ConnectionsTyped /\ EnclaveTyped /\ HistoriesTyped /\ k \in Connection(Message)
    BY TypeParts DEF ConnectionsTyped
  <1>2. /\ NotDialed \in Connection(Message) /\ Connected \in Connection(Message)
        /\ {"hello", "request"} \subseteq Message
    BY NotDialedType DEF Message
  <1>3. tcp' = tcp /\ read' = read /\ answers' = answers
    BY DEF proxy, remote
  <1> USE DEF Goto
  <1>4. ASSUME Fail(c) PROVE ConnectionsTyped'
    BY <1>1, <1>3, <1>4, Operations DEF Fail, ConnectionsTyped
  <1>5. ASSUME NEW m \in Message, Send(c, m)
        PROVE  ConnectionsTyped' /\ sent' \in [Calls -> Seq(Message)]
    <2>1. ConnectionsTyped'
      BY <1>1, <1>3, <1>5, Operations DEF Send, ConnectionsTyped
    <2>2. sent' \in [Calls -> Seq(Message)]
      BY <1>1, <1>5 DEF Send, HistoriesTyped
    <2> QED
      BY <2>1, <2>2
  <1>6. ASSUME HasData(k, "dialer"), Receive(c)
        PROVE  ConnectionsTyped' /\ got' \in [Calls -> Seq(Message)]
    <2>1. Read(k, "dialer") \in Connection(Message) /\ Head(k.to["dialer"]) \in Message
      BY <1>1, <1>6, Operations
    <2>2. ConnectionsTyped'
      BY <1>1, <1>3, <1>6, <2>1 DEF Receive, ConnectionsTyped
    <2>3. got' \in [Calls -> Seq(Message)]
      BY <1>1, <1>6, <2>1 DEF Receive, HistoriesTyped
    <2> QED
      BY <2>2, <2>3
  <1>7. CASE Do(c) \/ Expire(c) \/ HandshakeWins(c) \/ LeaveBody(c) \/ BodyFails(c)
             \/ HandshakeFails(c)
    <2>1. EnclaveTyped'
      BY <1>1, <1>7 DEF Do, Expire, HandshakeWins, LeaveBody, BodyFails, HandshakeFails, EnclaveTyped
    <2>2. vs' = vs /\ sent' = sent /\ got' = got
      BY <1>7 DEF Do, Expire, HandshakeWins, LeaveBody, BodyFails, HandshakeFails
    <2> QED
      BY <1>1, <1>3, <2>1, <2>2 DEF ConnectionsTyped, HistoriesTyped
  <1>8. CASE Dial(c)
    <2>1. EnclaveTyped' /\ sent' = sent /\ got' = got
      BY <1>1, <1>8 DEF Dial, EnclaveTyped
    <2>2. ConnectionsTyped'
      BY <1>1, <1>2, <1>3, <1>8 DEF Dial, ConnectionsTyped
    <2> QED
      BY <1>1, <1>3, <2>1, <2>2 DEF HistoriesTyped
  <1>9. CASE DialFails(c) \/ HandshakeLoses(c) \/ RoundTripFails(c)
    <2>1. Fail(c) /\ hs' = hs /\ expired' = expired /\ sent' = sent /\ got' = got
      BY <1>9 DEF DialFails, HandshakeLoses, RoundTripFails
    <2>2. EnclaveTyped'
      BY <1>1, <2>1 DEF Fail, EnclaveTyped
    <2> QED
      BY <1>1, <1>3, <1>4, <2>1, <2>2 DEF HistoriesTyped
  <1>10. CASE WriteRequest(c) \/ SendHello(c)
    <2>1. (Send(c, "request") \/ Send(c, "hello")) /\ got' = got
      BY <1>10 DEF WriteRequest, SendHello
    <2>2. ConnectionsTyped' /\ sent' \in [Calls -> Seq(Message)]
      BY <1>2, <1>5, <2>1
    <2>3. EnclaveTyped'
      BY <1>1, <1>10 DEF WriteRequest, SendHello, EnclaveTyped
    <2> QED
      BY <1>1, <1>3, <2>1, <2>2, <2>3 DEF HistoriesTyped
  <1>11. CASE ReadHello(c) \/ ReadHead(c) \/ ReadBody(c)
    <2>1. HasData(k, "dialer") /\ Receive(c) /\ sent' = sent
      BY <1>11 DEF ReadHello, ReadHead, ReadBody
    <2>2. ConnectionsTyped' /\ got' \in [Calls -> Seq(Message)]
      BY <1>6, <2>1
    <2>3. EnclaveTyped'
      BY <1>1, <1>11 DEF ReadHello, ReadHead, ReadBody, EnclaveTyped
    <2> QED
      BY <1>1, <1>3, <2>1, <2>2, <2>3 DEF HistoriesTyped
  <1>12. CASE CloseBody(c)
    <2>1. EnclaveTyped' /\ sent' = sent /\ got' = got
      BY <1>1, <1>12 DEF CloseBody, EnclaveTyped
    <2>2. ConnectionsTyped'
      BY <1>1, <1>3, <1>12, Operations DEF CloseBody, ConnectionsTyped
    <2> QED
      BY <1>1, <1>3, <2>1, <2>2 DEF HistoriesTyped
  <1> QED
    BY <1>7, <1>8, <1>9, <1>10, <1>11, <1>12 DEF CallerStep, HandshakeStep

\* So do the steps of the copying goroutines...
LEMMA CopyTypes ==
    ASSUME TypeOK, \A c \in Calls : Holds(c), NEW c \in Calls, NEW way \in Way, CopyStep(c, way)
    PROVE  ConnectionsTyped' /\ CopiesTyped' /\ \A d \in Calls : Holds(d)'
  <1>1. /\ ConnectionsTyped /\ CopiesTyped /\ way \in {"up", "down"}
        /\ vs[c] \in Connection(Message) /\ tcp[c] \in Connection(Message)
    BY TypeParts DEF ConnectionsTyped, Way
  <1>2. ASSUME NEW h \in Seq(Message), NEW place \in {"read", "write", "ended"},
               held' = [held EXCEPT ![c][way] = h], copy' = [copy EXCEPT ![c][way] = place],
               IF place = "write" THEN \E m \in Message : h = <<m>> ELSE h = <<>>
        PROVE  CopiesTyped' /\ \A d \in Calls : Holds(d)'
    <2>1. CopiesTyped'
      BY <1>1, <1>2 DEF CopiesTyped
    <2>2. \A d \in Calls, w \in Way :
             /\ held'[d][w] = IF d = c /\ w = way THEN h ELSE held[d][w]
             /\ copy'[d][w] = IF d = c /\ w = way THEN place ELSE copy[d][w]
      BY <1>1, <1>2 DEF CopiesTyped
    <2> QED
      BY <1>2, <2>1, <2>2 DEF Holds
  <1>3. CASE CopyRead(c, way)
    <2>1. CASE way = "up"
      <3> DEFINE m == Head(vs[c].to["acceptor"])
      <3>1. HasData(vs[c], "acceptor") /\ held' = [held EXCEPT ![c][way] = <<m>>]
        BY <1>3, <2>1 DEF CopyRead
      <3>2. Read(vs[c], "acceptor") \in Connection(Message) /\ m \in Message
        BY <1>1, <3>1, Operations
      <3>3. ConnectionsTyped'
        BY <1>1, <1>3, <2>1, <3>2 DEF CopyRead, ConnectionsTyped
      <3>4. copy' = [copy EXCEPT ![c][way] = "write"] /\ <<m>> \in Seq(Message)
        BY <1>3, <3>2 DEF CopyRead
      <3> QED
        BY <1>2, <3>1, <3>2, <3>3, <3>4
    <2>2. CASE way = "down"
      <3> DEFINE m == Head(tcp[c].to["dialer"])
      <3>1. HasData(tcp[c], "dialer") /\ held' = [held EXCEPT ![c][way] = <<m>>]
        BY <1>3, <2>2 DEF CopyRead
      <3>2. Read(tcp[c], "dialer") \in Connection(Message) /\ m \in Message
        BY <1>1, <3>1, Operations
      <3>3. ConnectionsTyped'
        BY <1>1, <1>3, <2>2, <3>2 DEF CopyRead, ConnectionsTyped
      <3>4. copy' = [copy EXCEPT ![c][way] = "write"] /\ <<m>> \in Seq(Message)
        BY <1>3, <3>2 DEF CopyRead
      <3> QED
        BY <1>2, <3>1, <3>2, <3>3, <3>4
    <2> QED
      BY <1>1, <2>1, <2>2
  <1>4. CASE CopyWrite(c, way)
    <2>1. PICK m \in Message : held[c][way] = <<m>>
      BY <1>4 DEF CopyWrite, Holds
    <2>2. Head(held[c][way]) = m
      BY <2>1
    <2>3. ConnectionsTyped'
      BY <1>1, <1>4, <2>2, Operations DEF CopyWrite, ConnectionsTyped
    <2>4. /\ held' = [held EXCEPT ![c][way] = <<>>] /\ copy' = [copy EXCEPT ![c][way] = "read"]
          /\ <<>> \in Seq(Message)
      BY <1>4 DEF CopyWrite
    <2> QED
      BY <1>2, <2>3, <2>4
  <1>5. CASE CopyEnds(c, way)
    <2>1. ConnectionsTyped'
      BY <1>1, <1>5, Operations DEF CopyEnds, ConnectionsTyped
    <2>2. /\ held' = [held EXCEPT ![c][way] = <<>>] /\ copy' = [copy EXCEPT ![c][way] = "ended"]
          /\ <<>> \in Seq(Message)
      BY <1>5 DEF CopyEnds
    <2> QED
      BY <1>2, <2>1, <2>2
  <1> QED
    BY <1>3, <1>4, <1>5 DEF CopyStep

\* ... those of the accept loop, the handling of a connection and the collector...
LEMMA HostTypes ==
    ASSUME TypeOK, \A c \in Calls : Holds(c) /\ Begins(c),
           \/ \E c \in Calls : HandleStep(c) \/ CollectConnection(c)
           \/ LoopStep \/ CollectListener
    PROVE  /\ ConnectionsTyped' /\ CopiesTyped' /\ \A d \in Calls : Holds(d)'
           /\ restarts' = restarts => HostTyped'
  <1>1. ConnectionsTyped /\ CopiesTyped /\ HostTyped
    BY TypeParts
  <1>2. \A c \in Calls : Close(vs[c], "acceptor") \in Connection(Message)
    BY <1>1, Operations DEF ConnectionsTyped
  <1>3. NotDialed \in Connection(Message) /\ Connected \in Connection(Message)
    BY NotDialedType
  <1>4. ASSUME NEW c \in Calls, DialRemote(c)
        PROVE  /\ ConnectionsTyped' /\ CopiesTyped' /\ \A d \in Calls : Holds(d)'
               /\ restarts' = restarts => HostTyped'
    <2>1. ConnectionsTyped'
      BY <1>1, <1>3, <1>4 DEF DialRemote, ConnectionsTyped
    <2>2. restarts' = restarts => HostTyped'
      BY <1>1, <1>4 DEF DialRemote, HostTyped
    <2>3. CopiesTyped'
      BY <1>1, <1>4 DEF DialRemote, CopiesTyped
    <2>4. \A w \in Way : copy[c][w] = "none"
      BY <1>4 DEF DialRemote, Begins, Unserved
    <2>5. \A d \in Calls, w \in Way : copy'[d][w] = IF d = c THEN "read" ELSE copy[d][w]
      BY <1>1, <1>4 DEF DialRemote, CopiesTyped
    <2>6. \A w \in Way : held[c][w] = <<>>
      BY <2>4 DEF Holds
    <2>7. held' = held
      BY <1>4 DEF DialRemote
    <2>8. \A d \in Calls : Holds(d)'
      BY <2>5, <2>6, <2>7 DEF Holds
    <2> QED
      BY <2>1, <2>2, <2>3, <2>8
  <1>5. ASSUME NEW c \in Calls, DialRemoteFails(c) \/ CollectConnection(c) \/ Accept(c)
        PROVE  /\ ConnectionsTyped' /\ CopiesTyped' /\ \A d \in Calls : Holds(d)'
               /\ restarts' = restarts => HostTyped'
    <2>1. ConnectionsTyped'
      BY <1>1, <1>2, <1>5 DEF DialRemoteFails, CollectConnection, Accept, ConnectionsTyped
    <2>2. restarts' = restarts => HostTyped'
      BY <1>1, <1>5 DEF DialRemoteFails, CollectConnection, Accept, HostTyped
    <2>3. copy' = copy /\ held' = held
      BY <1>5 DEF DialRemoteFails, CollectConnection, Accept
    <2> QED
      BY <1>1, <2>1, <2>2, <2>3 DEF CopiesTyped, Holds
  <1>6. ASSUME Park \/ AcceptFails
        PROVE  /\ ConnectionsTyped' /\ CopiesTyped' /\ \A d \in Calls : Holds(d)'
               /\ restarts' = restarts => HostTyped'
    BY <1>1, <1>6 DEF Park, AcceptFails, ConnectionsTyped, HostTyped, CopiesTyped, Holds
  <1>7. ASSUME CollectListener
        PROVE  /\ ConnectionsTyped' /\ CopiesTyped' /\ \A d \in Calls : Holds(d)'
               /\ restarts' = restarts => HostTyped'
    <2>1. ConnectionsTyped'
      BY <1>1, <1>2, <1>7 DEF CollectListener, ConnectionsTyped
    <2>2. restarts' = restarts => HostTyped'
      BY <1>1, <1>7 DEF CollectListener, HostTyped
    <2>3. copy' = copy /\ held' = held
      BY <1>7 DEF CollectListener
    <2> QED
      BY <1>1, <2>1, <2>2, <2>3 DEF CopiesTyped, Holds
  <1> QED
    BY <1>4, <1>5, <1>6, <1>7 DEF HandleStep, LoopStep

\* ... a restart of the host...
LEMMA RestartTypes ==
    ASSUME TypeOK, HostRestarts
    PROVE  /\ ConnectionsTyped' /\ CopiesTyped' /\ HostTyped' /\ \A d \in Calls : Holds(d)'
  <1>1. ConnectionsTyped /\ CopiesTyped /\ HostTyped
    BY TypeParts
  <1>2. \A c \in Calls : /\ Close(vs[c], "acceptor") \in Connection(Message)
                         /\ Close(tcp[c], "dialer") \in Connection(Message)
    BY <1>1, Operations DEF ConnectionsTyped
  <1>3. ConnectionsTyped'
    BY <1>2 DEF HostRestarts, Restart, ConnectionsTyped
  <1>4. CopiesTyped' /\ \A d \in Calls : Holds(d)'
    BY DEF HostRestarts, Restart, NoCopy, CopiesTyped, Holds
  <1>5. HostTyped'
    BY <1>1, RestartsAssumption DEF HostRestarts, Restart, HostTyped
  <1> QED
    BY <1>3, <1>4, <1>5

\* ... and the remote and the kernels.
LEMMA RemoteTypes ==
    ASSUME TypeOK, NEW c \in Calls,
           RemoteReads(c) \/ RemoteAnswers(c) \/ RemoteCloses(c) \/ Resets(c)
    PROVE  ConnectionsTyped' /\ HistoriesTyped'
  <1>1. /\ ConnectionsTyped /\ HistoriesTyped
        /\ vs[c] \in Connection(Message) /\ tcp[c] \in Connection(Message)
    BY TypeParts DEF ConnectionsTyped
  <1>2. CASE RemoteReads(c)
    <2>1. /\ Read(tcp[c], "acceptor") \in Connection(Message)
          /\ Head(tcp[c].to["acceptor"]) \in Message
      BY <1>1, <1>2, Operations DEF RemoteReads
    <2>2. ConnectionsTyped'
      BY <1>1, <1>2, <2>1 DEF RemoteReads, ConnectionsTyped
    <2>3. HistoriesTyped'
      BY <1>1, <1>2, <2>1 DEF RemoteReads, HistoriesTyped, client
    <2> QED
      BY <2>2, <2>3
  <1>3. CASE RemoteAnswers(c)
    <2> DEFINE m == Response(c)[Len(answers[c]) + 1]
    <2>1. /\ answers' = [answers EXCEPT ![c] = Append(@, m)]
          /\ tcp' = [tcp EXCEPT ![c] = Write(@, "acceptor", m)]
          /\ vs' = vs /\ sent' = sent /\ got' = got /\ read' = read
          /\ Len(answers[c]) < Len(Response(c))
      BY <1>3 DEF RemoteAnswers, client
    <2>2. m \in Message
      BY <1>1, <2>1, ResponseType DEF HistoriesTyped
    <2> HIDE DEF m
    <2>3. ConnectionsTyped'
      BY <1>1, <2>1, <2>2, Operations DEF ConnectionsTyped
    <2>4. HistoriesTyped'
      BY <1>1, <2>1, <2>2 DEF HistoriesTyped
    <2> QED
      BY <2>3, <2>4
  <1>4. CASE RemoteCloses(c) \/ Resets(c)
    <2>1. ConnectionsTyped'
      BY <1>1, <1>4, Operations DEF RemoteCloses, Resets, ConnectionsTyped
    <2>2. sent' = sent /\ got' = got /\ read' = read /\ answers' = answers
      BY <1>4 DEF RemoteCloses, Resets, client, remote
    <2> QED
      BY <1>1, <2>1, <2>2 DEF HistoriesTyped
  <1> QED
    BY <1>2, <1>3, <1>4

\* Every step keeps the types and what the copying goroutines hold.
LEMMA TypeStep ==
    ASSUME TypeOK, \A c \in Calls : Holds(c) /\ Begins(c), Next
    PROVE  TypeOK' /\ \A c \in Calls : Holds(c)'
  <1> DEFINE Goal == TypeOK' /\ \A d \in Calls : Holds(d)'
  <1>1. /\ ConnectionsTyped /\ EnclaveTyped /\ HostTyped /\ CopiesTyped /\ HistoriesTyped
        /\ TypeOK' <=> (ConnectionsTyped /\ EnclaveTyped /\ HostTyped /\ CopiesTyped /\ HistoriesTyped)'
    BY TypeParts, PTL
  <1>2. ASSUME UNCHANGED <<copy, held>> PROVE CopiesTyped' /\ \A d \in Calls : Holds(d)'
    BY <1>1, <1>2 DEF CopiesTyped, Holds
  <1>3. ASSUME UNCHANGED <<loop, at, restarts>> PROVE HostTyped'
    BY <1>1, <1>3 DEF HostTyped
  <1>4. ASSUME UNCHANGED client PROVE EnclaveTyped'
    BY <1>1, <1>4 DEF EnclaveTyped, client
  <1>5. ASSUME UNCHANGED <<client, remote>> PROVE HistoriesTyped'
    BY <1>1, <1>5 DEF HistoriesTyped, client, remote
  <1>6. ASSUME NEW c \in Calls,
               \/ Enclave(Do(c)) \/ Enclave(Expire(c)) \/ Enclave(CallerStep(c))
               \/ Enclave(HandshakeStep(c))
        PROVE  Goal
    <2>1. /\ Do(c) \/ Dial(c) \/ Expire(c) \/ CallerStep(c) \/ HandshakeStep(c)
          /\ UNCHANGED <<proxy, remote, restarts>>
      BY <1>6 DEF Enclave
    <2>2. UNCHANGED <<copy, held>> /\ UNCHANGED <<loop, at, restarts>>
      BY <2>1 DEF proxy
    <2> QED
      BY <1>1, <1>2, <1>3, <2>1, <2>2, EnclaveTypes
  <1>7. ASSUME NEW c \in Calls, Connect(c) PROVE Goal
    <2>1. ConnectionsTyped'
      <3>1. Connected \in Connection(Message)
        BY NotDialedType
      <3> QED
        BY <1>1, <1>7, <3>1 DEF Connect, Dial, Queue, ConnectionsTyped
    <2>2. EnclaveTyped' /\ sent' = sent /\ got' = got
      BY <1>1, <1>7 DEF Connect, Dial, Goto, EnclaveTyped
    <2>3. HostTyped' /\ UNCHANGED <<copy, held>> /\ read' = read /\ answers' = answers
      BY <1>1, <1>7 DEF Connect, Queue, HostTyped, remote
    <2>4. HistoriesTyped'
      BY <1>1, <2>2, <2>3 DEF HistoriesTyped
    <2> QED
      BY <1>1, <1>2, <2>1, <2>2, <2>3, <2>4
  <1>8. ASSUME NEW c \in Calls, NEW way \in Way, Host(CopyStep(c, way)) PROVE Goal
    <2>1. CopyStep(c, way) /\ UNCHANGED <<client, remote>> /\ UNCHANGED <<loop, at, restarts>>
      BY <1>8 DEF Host, CopyStep, CopyRead, CopyWrite, CopyEnds
    <2> QED
      BY <1>1, <1>3, <1>4, <1>5, <2>1, CopyTypes
  <1>9. ASSUME \/ \E c \in Calls : Host(HandleStep(c)) \/ Host(CollectConnection(c))
               \/ Host(LoopStep) \/ Host(CollectListener)
        PROVE  Goal
    <2>1. /\ \/ \E c \in Calls : HandleStep(c) \/ CollectConnection(c)
             \/ LoopStep \/ CollectListener
          /\ UNCHANGED <<client, remote>> /\ restarts' = restarts
      BY <1>9 DEF Host
    <2> QED
      BY <1>1, <1>4, <1>5, <2>1, HostTypes
  <1>10. ASSUME HostRestarts PROVE Goal
    <2>1. UNCHANGED <<client, remote>>
      BY <1>10 DEF HostRestarts
    <2> QED
      BY <1>1, <1>4, <1>5, <1>10, <2>1, RestartTypes
  <1>11. ASSUME NEW c \in Calls, RemoteReads(c) \/ RemoteAnswers(c) \/ RemoteCloses(c) \/ Resets(c)
         PROVE  Goal
    <2>1. UNCHANGED client /\ UNCHANGED <<copy, held>> /\ UNCHANGED <<loop, at, restarts>>
      BY <1>11 DEF RemoteReads, RemoteAnswers, RemoteCloses, Resets
    <2> QED
      BY <1>1, <1>2, <1>3, <1>4, <1>11, <2>1, RemoteTypes
  <1> HIDE DEF Goal
  <1>12. Goal
    BY <1>6, <1>7, <1>8, <1>9, <1>10, <1>11 DEF Next
  <1> QED
    BY <1>12 DEF Goal

\* A stuttering step changes nothing.
LEMMA TypeStutters ==
    ASSUME TypeOK, \A c \in Calls : Holds(c), UNCHANGED vars
    PROVE  TypeOK' /\ \A c \in Calls : Holds(c)'
  BY DEF TypeOK, Holds, vars, client, proxy, remote

(***************************************************************************)
(* Lines.                                                                  *)
(***************************************************************************)
\* What closes and resets leave of a connection.
Lost(k, l) == (\A e \in End : l.to[e] \in {k.to[e], <<>>}) /\ (l.open = End => l = k)

\* Closing an end, and resetting what has been closed, lose no more than Lost says.
LEMMA Losses ==
    \A k \in Connection(Message) :
       /\ Lost(k, k)
       /\ \A e \in End : Lost(k, Close(k, e))
       /\ k.open # End => Lost(k, Reset(k))
  <1> SUFFICES ASSUME NEW k \in Connection(Message)
               PROVE  /\ Lost(k, k)
                      /\ \A e \in End : Lost(k, Close(k, e))
                      /\ k.open # End => Lost(k, Reset(k))
    OBVIOUS
  <1>1. Lost(k, k)
    BY DEF Lost
  <1>2. ASSUME NEW e \in End PROVE Lost(k, Close(k, e))
    <2>1. \A f \in End : f = e \/ f = Other(e)
      BY DEF End, Other
    <2>2. Close(k, e).open # End
      BY CloseType
    <2> QED
      BY <2>1, <2>2, CloseType DEF Lost
  <1>3. k.open # End => Lost(k, Reset(k))
    BY ResetType DEF Lost
  <1> QED
    BY <1>1, <1>2, <1>3

\* The state of one call's lines.
LEMMA LineTypes ==
    ASSUME TypeOK, NEW c \in Calls
    PROVE  /\ LineTyped(read[c], tcp[c].to["acceptor"], held[c]["up"], vs[c].to["acceptor"], sent[c])
           /\ LineTyped(got[c], vs[c].to["dialer"], held[c]["down"], tcp[c].to["dialer"], answers[c])
           /\ vs[c] \in Connection(Message) /\ tcp[c] \in Connection(Message)
  <1>1. /\ vs[c] \in Connection(Message) /\ tcp[c] \in Connection(Message)
        /\ held[c] \in [Way -> Seq(Message)]
        /\ sent[c] \in Seq(Message) /\ got[c] \in Seq(Message)
        /\ read[c] \in Seq(Message) /\ answers[c] \in Seq(Message)
    BY TypeParts DEF ConnectionsTyped, CopiesTyped, HistoriesTyped
  <1>2. \A k \in Connection(Message) : k.to["acceptor"] \in Seq(Message) /\ k.to["dialer"] \in Seq(Message)
    BY ConnectionType DEF End
  <1>3. held[c]["up"] \in Seq(Message) /\ held[c]["down"] \in Seq(Message)
    BY <1>1 DEF Way
  <1> QED
    BY <1>1, <1>2, <1>3 DEF LineTyped

\* A step that does not touch the state of a line keeps it.
LEMMA LinesSame ==
    ASSUME NEW c \in Calls, Lines(c), vs'[c] = vs[c], tcp'[c] = tcp[c], at'[c] = at[c],
           held'[c] = held[c], sent'[c] = sent[c], got'[c] = got[c], read'[c] = read[c],
           answers'[c] = answers[c]
    PROVE  Lines(c)'
  BY DEF Lines, UpLine, DownLine, Reachable

\* Closes, resets and goroutines that end with a message in hand lose no more than
\* a line allows.
LEMMA LinesLose ==
    ASSUME TypeOK, NEW c \in Calls, Begins(c), Holds(c), Lines(c),
           sent'[c] = sent[c], got'[c] = got[c], read'[c] = read[c], answers'[c] = answers[c],
           Lost(vs[c], vs'[c]), Lost(tcp[c], tcp'[c]),
           at'[c] \in Unserved => at[c] \in Unserved,
           \A w \in Way : held'[c][w] \in {held[c][w], <<>>},
           tcp'[c].open = End => held'[c]["up"] = held[c]["up"],
           vs'[c].open = End => held'[c]["down"] = held[c]["down"]
    PROVE  Lines(c)'
  <1>1. /\ LineTyped(read[c], tcp[c].to["acceptor"], held[c]["up"], vs[c].to["acceptor"], sent[c])
        /\ LineTyped(got[c], vs[c].to["dialer"], held[c]["down"], tcp[c].to["dialer"], answers[c])
    BY LineTypes
  <1>2. "acceptor" \in End /\ "dialer" \in End /\ "up" \in Way /\ "down" \in Way
    BY DEF End, Way
  <1>3. at[c] \in Unserved => tcp[c].to["acceptor"] = <<>> /\ held[c]["up"] = <<>>
    <2>1. ASSUME at[c] \in Unserved
          PROVE  tcp[c] = NotDialed /\ \A w \in Way : copy[c][w] # "write"
      BY <2>1 DEF Begins
    <2> QED
      BY <1>2, <2>1, NotDialedType DEF Holds
  <1>4. /\ Reachable(c)' => /\ Reachable(c) /\ tcp'[c].to["acceptor"] = tcp[c].to["acceptor"]
                            /\ held'[c]["up"] = held[c]["up"]
        /\ vs'[c].open = End => vs'[c] = vs[c]
        /\ tcp'[c].open = End => tcp'[c] = tcp[c]
    <2>1. tcp'[c].open = End => tcp'[c] = tcp[c]
      BY DEF Lost
    <2>2. tcp'[c].to["acceptor"] \in {tcp[c].to["acceptor"], <<>>}
      BY <1>2 DEF Lost
    <2>3. CASE tcp'[c].open = End
      BY <2>1, <2>3 DEF Lost, Reachable
    <2>4. CASE at'[c] \in Unserved
      BY <1>2, <1>3, <2>2, <2>4 DEF Lost, Reachable
    <2>5. CASE ~(tcp'[c].open = End \/ at'[c] \in Unserved)
      BY <2>5 DEF Reachable, Lost
    <2> QED
      BY <2>3, <2>4, <2>5
  <1>5. Line(read[c], tcp'[c].to["acceptor"], held'[c]["up"], vs'[c].to["acceptor"], sent[c],
             Reachable(c)', vs'[c].open = End)
    <2>1. /\ tcp'[c].to["acceptor"] \in {tcp[c].to["acceptor"], <<>>}
          /\ vs'[c].to["acceptor"] \in {vs[c].to["acceptor"], <<>>}
          /\ held'[c]["up"] \in {held[c]["up"], <<>>}
      BY <1>2 DEF Lost
    <2>2. Line(read[c], tcp[c].to["acceptor"], held[c]["up"], vs[c].to["acceptor"], sent[c],
               Reachable(c), vs[c].open = End)
      BY DEF Lines, UpLine
    <2> DEFINE b == tcp[c].to["acceptor"]
               h == held[c]["up"]
               a == vs[c].to["acceptor"]
               near == Reachable(c)
               far == vs[c].open = End
               b1 == tcp'[c].to["acceptor"]
               h1 == held'[c]["up"]
               a1 == vs'[c].to["acceptor"]
               near1 == Reachable(c)'
               far1 == vs'[c].open = End
    <2>3. /\ LineTyped(read[c], b, h, a, sent[c]) /\ Line(read[c], b, h, a, sent[c], near, far)
          /\ b1 \in {b, <<>>} /\ h1 \in {h, <<>>} /\ a1 \in {a, <<>>}
          /\ near1 => near /\ b1 = b /\ h1 = h
          /\ near1 /\ far1 => far /\ a1 = a
      BY <1>1, <1>4, <2>1, <2>2
    <2> HIDE DEF b, h, a, near, far, b1, h1, a1, near1, far1
    <2>4. Line(read[c], b1, h1, a1, sent[c], near1, far1)
      BY <2>3, LineLoses
    <2> QED
      BY <2>4 DEF b1, h1, a1, near1, far1
  <1>6. Line(got[c], vs'[c].to["dialer"], held'[c]["down"], tcp'[c].to["dialer"], answers[c],
             vs'[c].open = End, tcp'[c].open = End)
    <2>1. /\ tcp'[c].to["dialer"] \in {tcp[c].to["dialer"], <<>>}
          /\ vs'[c].to["dialer"] \in {vs[c].to["dialer"], <<>>}
          /\ held'[c]["down"] \in {held[c]["down"], <<>>}
      BY <1>2 DEF Lost
    <2>2. Line(got[c], vs[c].to["dialer"], held[c]["down"], tcp[c].to["dialer"], answers[c],
               vs[c].open = End, tcp[c].open = End)
      BY DEF Lines, DownLine
    <2> DEFINE b == vs[c].to["dialer"]
               h == held[c]["down"]
               a == tcp[c].to["dialer"]
               near == vs[c].open = End
               far == tcp[c].open = End
               b1 == vs'[c].to["dialer"]
               h1 == held'[c]["down"]
               a1 == tcp'[c].to["dialer"]
               near1 == vs'[c].open = End
               far1 == tcp'[c].open = End
    <2>3. /\ LineTyped(got[c], b, h, a, answers[c]) /\ Line(got[c], b, h, a, answers[c], near, far)
          /\ b1 \in {b, <<>>} /\ h1 \in {h, <<>>} /\ a1 \in {a, <<>>}
          /\ near1 => near /\ b1 = b /\ h1 = h
          /\ near1 /\ far1 => far /\ a1 = a
      BY <1>1, <1>4, <2>1, <2>2
    <2> HIDE DEF b, h, a, near, far, b1, h1, a1, near1, far1
    <2>4. Line(got[c], b1, h1, a1, answers[c], near1, far1)
      BY <2>3, LineLoses
    <2> QED
      BY <2>4 DEF b1, h1, a1, near1, far1
  <1> QED
    BY <1>5, <1>6 DEF Lines, UpLine, DownLine, Reachable

\* A call whose state a step leaves alone.
SameAt(c) ==
    /\ vs'[c] = vs[c] /\ tcp'[c] = tcp[c] /\ pc'[c] = pc[c] /\ hs'[c] = hs[c]
    /\ at'[c] = at[c] /\ copy'[c] = copy[c] /\ held'[c] = held[c] /\ result'[c] = result[c]
    /\ sent'[c] = sent[c] /\ got'[c] = got[c] /\ read'[c] = read[c] /\ answers'[c] = answers[c]

\* A step that leaves a call alone keeps what the invariant says of it.
LEMMA Frame ==
    ASSUME NEW c \in Calls, Control(c), Lines(c), SameAt(c)
    PROVE  Control(c)' /\ Lines(c)'
  <1>1. Begins(c)'
    BY DEF Control, Begins, SameAt
  <1>2. Progress(c)'
    BY DEF Control, Progress, SameAt, Greeting, Response
  <1> QED
    BY <1>1, <1>2, LinesSame DEF Control, SameAt

(***************************************************************************)
(* The enclave.                                                            *)
(***************************************************************************)
\* Writing, by the names of the ends.
LEMMA WriteFacts ==
    ASSUME NEW k \in Connection(Message), NEW m \in Message
    PROVE  /\ Write(k, "dialer", m).to["dialer"] = k.to["dialer"]
           /\ Write(k, "dialer", m).to["acceptor"] = Append(k.to["acceptor"], m)
           /\ Write(k, "dialer", m).open = k.open
           /\ Write(k, "acceptor", m).to["acceptor"] = k.to["acceptor"]
           /\ Write(k, "acceptor", m).to["dialer"] = Append(k.to["dialer"], m)
           /\ Write(k, "acceptor", m).open = k.open
           /\ Writable(k) => k.open = End /\ k # NotDialed
  <1>1. "dialer" \in End /\ "acceptor" \in End
    BY DEF End
  <1>2. Writable(k) => k.open = End /\ k # NotDialed
    <2>1. NotDialed.open # End
      BY <1>1, NotDialedType
    <2> QED
      BY <2>1 DEF Writable
  <1> QED
    BY <1>1, <1>2, Ends, WriteType

\* Reading, by the names of the ends.
LEMMA ReadFacts ==
    ASSUME NEW k \in Connection(Message)
    PROVE  /\ HasData(k, "dialer") => /\ Read(k, "dialer").to["dialer"] = Tail(k.to["dialer"])
                                      /\ Read(k, "dialer").to["acceptor"] = k.to["acceptor"]
                                      /\ Read(k, "dialer").open = k.open
           /\ HasData(k, "acceptor") => /\ Read(k, "acceptor").to["acceptor"] = Tail(k.to["acceptor"])
                                        /\ Read(k, "acceptor").to["dialer"] = k.to["dialer"]
                                        /\ Read(k, "acceptor").open = k.open
           /\ \A e \in End : HasData(k, e) => k # NotDialed /\ k.to[e] # <<>> /\ k.open # {}
  <1>1. "dialer" \in End /\ "acceptor" \in End
    BY DEF End
  <1>2. \A e \in End : HasData(k, e) => k # NotDialed /\ k.to[e] # <<>> /\ k.open # {}
    BY <1>1, NotDialedType DEF HasData
  <1> QED
    BY <1>1, <1>2, Ends, ReadType

\* Closing, by the names of the ends.
LEMMA CloseFacts ==
    ASSUME NEW k \in Connection(Message)
    PROVE  /\ Close(k, "dialer").to["dialer"] = <<>>
           /\ "dialer" \notin Close(k, "dialer").open
           /\ k = NotDialed => Close(k, "dialer") = k /\ Close(k, "acceptor") = k
  <1>1. "dialer" \in End /\ "acceptor" \in End
    BY DEF End
  <1> QED
    BY <1>1, CloseType

\* A step of one call in the enclave leaves every other call alone.
LEMMA EnclaveFrame ==
    ASSUME TypeOK, NEW c \in Calls, NEW d \in Calls, d # c, UNCHANGED <<proxy, remote, restarts>>,
           Do(c) \/ Expire(c) \/ CallerStep(c) \/ HandshakeStep(c)
    PROVE  SameAt(d)
  <1>1. /\ tcp' = tcp /\ at' = at /\ copy' = copy /\ held' = held /\ read' = read
        /\ answers' = answers
    BY DEF proxy, remote
  <1>2. vs'[d] = vs[d] /\ sent'[d] = sent[d] /\ got'[d] = got[d]
    <2>1. /\ vs \in [Calls -> Connection(Message)]
          /\ sent \in [Calls -> Seq(Message)] /\ got \in [Calls -> Seq(Message)]
      BY TypeParts DEF ConnectionsTyped, HistoriesTyped
    <2> QED
      BY <2>1 DEF Do, Expire, CallerStep, HandshakeStep, DialFails, HandshakeWins, HandshakeLoses,
                  WriteRequest, ReadHead, RoundTripFails, LeaveBody, ReadBody, BodyFails, CloseBody,
                  SendHello, ReadHello, HandshakeFails, Fail, Send, Receive
  <1>3. pc'[d] = pc[d] /\ hs'[d] = hs[d] /\ result'[d] = result[d]
    <2>1. EnclaveTyped
      BY TypeParts
    <2> QED
      BY <2>1 DEF EnclaveTyped, Do, Expire, CallerStep, HandshakeStep, DialFails, HandshakeWins,
                  HandshakeLoses, WriteRequest, ReadHead, RoundTripFails, LeaveBody, ReadBody,
                  BodyFails, CloseBody, SendHello, ReadHello, HandshakeFails, Fail, Goto
  <1> QED
    BY <1>1, <1>2, <1>3 DEF SameAt

\* It keeps the places of the call in order...
LEMMA EnclaveControl ==
    ASSUME TypeOK, NEW c \in Calls, Control(c), UNCHANGED <<proxy, remote, restarts>>,
           Do(c) \/ Expire(c) \/ CallerStep(c) \/ HandshakeStep(c)
    PROVE  Control(c)'
  <1>1. EnclaveTyped /\ ConnectionsTyped /\ HistoriesTyped
    BY TypeParts
  <1>2. vs[c] \in Connection(Message) /\ got[c] \in Seq(Message) /\ sent[c] \in Seq(Message)
    BY <1>1 DEF ConnectionsTyped, HistoriesTyped
  <1>3. /\ tcp' = tcp /\ at' = at /\ copy' = copy /\ held' = held /\ read' = read
        /\ answers' = answers
    BY DEF proxy, remote
  <1>4. IsPrefix(answers[c], Response(c)) /\ Response(c)' = Response(c)
    BY DEF Control, Progress, Response
  <1>5. CASE Do(c) \/ Expire(c) \/ HandshakeWins(c) \/ LeaveBody(c) \/ BodyFails(c)
             \/ HandshakeFails(c)
    <2>1. vs' = vs /\ sent' = sent /\ got' = got
      BY <1>5 DEF Do, Expire, HandshakeWins, LeaveBody, BodyFails, HandshakeFails
    <2>2. pc'[c] \in {"idle", "dialing"} => pc[c] \in {"idle", "dialing"} /\ hs'[c] = hs[c]
      BY <1>1, <1>5 DEF Do, Expire, HandshakeWins, LeaveBody, BodyFails, HandshakeFails, Goto,
                        EnclaveTyped, Control, Begins
    <2>3. Begins(c)'
      BY <1>3, <2>1, <2>2 DEF Control, Begins
    <2>4. Progress(c)'
      BY <1>1, <1>2, <1>3, <1>4, <1>5, <2>1
      DEF Do, Expire, HandshakeWins, LeaveBody, BodyFails, HandshakeFails, Goto,
          EnclaveTyped, Control, Progress, Begins, Greeting
    <2> QED
      BY <2>3, <2>4 DEF Control
  <1>6. CASE DialFails(c) \/ HandshakeLoses(c) \/ RoundTripFails(c) \/ CloseBody(c)
    <2>1. /\ vs'[c] = Close(vs[c], "dialer") /\ pc'[c] = "done" /\ hs'[c] = hs[c]
          /\ got'[c] = got[c] /\ sent'[c] = sent[c]
          /\ result'[c] = "failed" \/ (pc[c] = "close" /\ result'[c] = result[c])
      BY <1>1, <1>6 DEF DialFails, HandshakeLoses, RoundTripFails, CloseBody, Fail, Goto,
                        EnclaveTyped, ConnectionsTyped
    <2>2. Begins(c)'
      BY <1>2, <1>3, <2>1, CloseFacts DEF Control, Begins
    <2>3. Progress(c)'
      BY <1>2, <1>3, <1>4, <2>1, CloseFacts DEF Control, Progress, Greeting
    <2> QED
      BY <2>2, <2>3 DEF Control
  <1>7. CASE SendHello(c) \/ WriteRequest(c)
    <2>1. PICK m \in Message : Writable(vs[c]) /\ vs'[c] = Write(vs[c], "dialer", m)
      BY <1>1, <1>7 DEF SendHello, WriteRequest, Send, ConnectionsTyped, Message
    <2>2. /\ vs[c] # NotDialed /\ vs'[c].to["dialer"] = vs[c].to["dialer"]
          /\ vs'[c].open = vs[c].open
      BY <1>2, <2>1, WriteFacts
    <2>3. /\ got'[c] = got[c] /\ result'[c] = result[c]
          /\ \/ hs[c] = "sendHello" /\ hs'[c] = "awaitHello" /\ pc'[c] = pc[c]
             \/ pc[c] = "write" /\ hs'[c] = hs[c] /\ pc'[c] = "head"
      BY <1>1, <1>7 DEF SendHello, WriteRequest, Goto, EnclaveTyped
    <2>4. Begins(c)'
      BY <1>3, <2>2, <2>3 DEF Control, Begins
    <2>5. Progress(c)'
      BY <1>3, <1>4, <2>2, <2>3 DEF Control, Progress, Greeting
    <2> QED
      BY <2>4, <2>5 DEF Control
  <1>8. CASE ReadHello(c) \/ ReadHead(c) \/ ReadBody(c)
    <2>1. HasData(vs[c], "dialer") /\ vs'[c] = Read(vs[c], "dialer")
      BY <1>1, <1>8 DEF ReadHello, ReadHead, ReadBody, Receive, ConnectionsTyped
    <2>2. vs[c] # NotDialed /\ vs[c].to["dialer"] # <<>> /\ vs'[c].open = vs[c].open
      BY <1>2, <2>1, ReadFacts DEF End
    <2>3. "dialer" \in vs[c].open
      BY <2>1 DEF HasData
    <2>4. Head(vs[c].to["dialer"]) \in Message
      BY <1>2, <2>1, Operations
    <2>5. Len(got'[c]) = Len(got[c]) + 1 /\ sent'[c] = sent[c]
      BY <1>1, <1>2, <1>8, <2>4 DEF ReadHello, ReadHead, ReadBody, Receive, HistoriesTyped
    <2>6. \/ hs[c] = "awaitHello" /\ hs'[c] = "succeeded" /\ pc'[c] = pc[c] /\ result'[c] = result[c]
          \/ pc[c] = "head" /\ pc'[c] = "body" /\ hs'[c] = hs[c] /\ result'[c] = result[c]
          \/ pc[c] \in {"body", "drain"} /\ pc'[c] = "close" /\ hs'[c] = hs[c]
      BY <1>1, <1>8 DEF ReadHello, ReadHead, ReadBody, Goto, EnclaveTyped
    <2>7. Begins(c)'
      BY <1>3, <2>2, <2>5, <2>6 DEF Control, Begins
    <2>8. Progress(c)'
      BY <1>2, <1>3, <1>4, <2>2, <2>3, <2>5, <2>6 DEF Control, Progress, Greeting
    <2> QED
      BY <2>7, <2>8 DEF Control
  <1> QED
    BY <1>5, <1>6, <1>7, <1>8 DEF CallerStep, HandshakeStep

\* ... and its lines.
LEMMA EnclaveLines ==
    ASSUME TypeOK, NEW c \in Calls, Control(c), Holds(c), Lines(c),
           UNCHANGED <<proxy, remote, restarts>>,
           Do(c) \/ Expire(c) \/ CallerStep(c) \/ HandshakeStep(c)
    PROVE  Lines(c)'
  <1>1. ConnectionsTyped /\ HistoriesTyped
    BY TypeParts
  <1>2. /\ tcp' = tcp /\ at' = at /\ copy' = copy /\ held' = held /\ read' = read
        /\ answers' = answers
    BY DEF proxy, remote
  <1>3. /\ LineTyped(read[c], tcp[c].to["acceptor"], held[c]["up"], vs[c].to["acceptor"], sent[c])
        /\ LineTyped(got[c], vs[c].to["dialer"], held[c]["down"], tcp[c].to["dialer"], answers[c])
        /\ vs[c] \in Connection(Message) /\ tcp[c] \in Connection(Message)
    BY LineTypes
  <1>4. CASE Do(c) \/ Expire(c) \/ HandshakeWins(c) \/ LeaveBody(c) \/ BodyFails(c)
             \/ HandshakeFails(c)
    <2>1. vs' = vs /\ sent' = sent /\ got' = got
      BY <1>4 DEF Do, Expire, HandshakeWins, LeaveBody, BodyFails, HandshakeFails
    <2> QED
      BY <1>2, <2>1, LinesSame
  <1>5. CASE DialFails(c) \/ HandshakeLoses(c) \/ RoundTripFails(c) \/ CloseBody(c)
    <2>1. vs'[c] = Close(vs[c], "dialer") /\ sent' = sent /\ got' = got
      BY <1>1, <1>5 DEF DialFails, HandshakeLoses, RoundTripFails, CloseBody, Fail,
                        ConnectionsTyped
    <2>2. Lost(vs[c], vs'[c]) /\ Lost(tcp[c], tcp'[c])
      BY <1>2, <1>3, <2>1, Losses DEF End
    <2> QED
      BY <1>2, <2>1, <2>2, LinesLose DEF Control
  <1>6. CASE SendHello(c) \/ WriteRequest(c)
    <2>0. PICK m \in Message : Send(c, m) /\ Writable(vs[c]) /\ got' = got
      <3>1. {"hello", "request"} \subseteq Message
        BY DEF Message
      <3>2. \/ Send(c, "hello") /\ Writable(vs[c]) /\ got' = got
            \/ Send(c, "request") /\ Writable(vs[c]) /\ got' = got
        BY <1>6 DEF SendHello, WriteRequest
      <3> QED
        BY <3>1, <3>2
    <2>1. /\ Writable(vs[c]) /\ vs'[c] = Write(vs[c], "dialer", m)
          /\ sent'[c] = Append(sent[c], m) /\ got' = got
      BY <1>1, <2>0 DEF Send, ConnectionsTyped, HistoriesTyped
    <2>2. /\ vs'[c].to["dialer"] = vs[c].to["dialer"] /\ vs'[c].open = vs[c].open
          /\ vs'[c].to["acceptor"] = Append(vs[c].to["acceptor"], m)
      BY <1>3, <2>1, WriteFacts
    <2> DEFINE b == tcp[c].to["acceptor"]
               h == held[c]["up"]
               a == vs[c].to["acceptor"]
               near == Reachable(c)
               far == vs[c].open = End
    <2>3. LineTyped(read[c], b, h, a, sent[c]) /\ Line(read[c], b, h, a, sent[c], near, far) /\ far
      BY <1>3, <2>1 DEF Lines, UpLine, Writable
    <2> HIDE DEF b, h, a, near, far
    <2>4. Line(read[c], b, h, Append(a, m), Append(sent[c], m), near, far)
      BY <2>3, LineSend
    <2>5. UpLine(c)'
      BY <1>2, <2>1, <2>2, <2>4 DEF UpLine, Reachable, b, h, a, near, far
    <2>6. DownLine(c)'
      BY <1>2, <2>1, <2>2 DEF Lines, DownLine
    <2> QED
      BY <2>5, <2>6 DEF Lines
  <1>7. CASE ReadHello(c) \/ ReadHead(c) \/ ReadBody(c)
    <2>1. /\ HasData(vs[c], "dialer") /\ vs'[c] = Read(vs[c], "dialer")
          /\ got'[c] = Append(got[c], Head(vs[c].to["dialer"])) /\ sent' = sent
      BY <1>1, <1>7 DEF ReadHello, ReadHead, ReadBody, Receive, ConnectionsTyped, HistoriesTyped
    <2>2. /\ vs'[c].to["dialer"] = Tail(vs[c].to["dialer"]) /\ vs'[c].open = vs[c].open
          /\ vs'[c].to["acceptor"] = vs[c].to["acceptor"] /\ vs[c].to["dialer"] # <<>>
      BY <1>3, <2>1, ReadFacts DEF End
    <2> DEFINE b == vs[c].to["dialer"]
               h == held[c]["down"]
               a == tcp[c].to["dialer"]
               near == vs[c].open = End
               far == tcp[c].open = End
    <2>3. LineTyped(got[c], b, h, a, answers[c]) /\ Line(got[c], b, h, a, answers[c], near, far)
          /\ b # <<>>
      BY <1>3, <2>2 DEF Lines, DownLine
    <2> HIDE DEF b, h, a, near, far
    <2>4. Line(Append(got[c], Head(b)), Tail(b), h, a, answers[c], near, far)
      BY <2>3, LineReceive
    <2>5. DownLine(c)'
      BY <1>2, <2>1, <2>2, <2>4 DEF DownLine, b, h, a, near, far
    <2>6. UpLine(c)'
      BY <1>2, <2>1, <2>2 DEF Lines, UpLine, Reachable
    <2> QED
      BY <2>5, <2>6 DEF Lines
  <1> QED
    BY <1>4, <1>5, <1>6, <1>7 DEF CallerStep, HandshakeStep

\* The kernel puts a new connection on the host's queue.
LEMMA ConnectStep ==
    ASSUME TypeOK, \A d \in Calls : Holds(d) /\ Control(d) /\ Lines(d), NEW c \in Calls, Connect(c)
    PROVE  \A d \in Calls : Control(d)' /\ Lines(d)'
  <1>1. ConnectionsTyped /\ EnclaveTyped /\ HostTyped /\ HistoriesTyped
    BY TypeParts
  <1>2. /\ tcp' = tcp /\ copy' = copy /\ held' = held /\ read' = read /\ answers' = answers
        /\ sent' = sent /\ got' = got /\ result' = result
    BY DEF Connect, Dial, Queue, remote
  <1>3. ASSUME NEW d \in Calls, d # c PROVE SameAt(d)
    BY <1>1, <1>2, <1>3 DEF Connect, Dial, Queue, Goto, SameAt, ConnectionsTyped, EnclaveTyped, HostTyped
  <1>4. /\ vs'[c] = Connected /\ at[c] = "none" /\ at'[c] = "queued" /\ pc[c] = "dialing"
        /\ \/ Scheme[c] = "https" /\ pc'[c] = "handshake" /\ hs'[c] = "sendHello"
           \/ Scheme[c] # "https" /\ pc'[c] = "write" /\ hs'[c] = hs[c]
    BY <1>1 DEF Connect, Dial, Queue, Goto, ConnectionsTyped, EnclaveTyped, HostTyped
  <1>5. /\ Connected.to["dialer"] = <<>> /\ Connected.to["acceptor"] = <<>>
        /\ NotDialed.to["dialer"] = <<>> /\ NotDialed.to["acceptor"] = <<>>
    BY NotDialedType DEF End
  <1>6. /\ tcp[c] = NotDialed /\ read[c] = <<>> /\ answers[c] = <<>> /\ got[c] = <<>>
        /\ sent[c] = <<>> /\ hs[c] = "none" /\ \A way \in Way : copy[c][way] = "none"
    BY <1>4 DEF Control, Begins, Unserved
  <1>7. held[c]["up"] = <<>> /\ held[c]["down"] = <<>>
    BY <1>6 DEF Holds, Way
  <1>8. Begins(c)'
    BY <1>2, <1>4, <1>5, <1>6 DEF Begins
  <1>9. Progress(c)'
    <2>1. IsPrefix(answers[c], Response(c)) /\ Response(c)' = Response(c)
      BY DEF Control, Progress, Response
    <2>2. Len(got[c]) = 0
      BY <1>6
    <2> QED
      BY <1>2, <1>4, <1>6, <2>1, <2>2 DEF Control, Progress, Greeting
  <1>10. Lines(c)'
    BY <1>2, <1>4, <1>5, <1>6, <1>7, LineEmpty DEF Lines, UpLine, DownLine
  <1>11. ASSUME NEW d \in Calls, d # c PROVE Control(d)' /\ Lines(d)'
    BY <1>3, <1>11, Frame
  <1> QED
    BY <1>8, <1>9, <1>10, <1>11 DEF Control

(***************************************************************************)
(* The host.                                                               *)
(***************************************************************************)
\* What the enclave's part of the invariant says of a call depends on the host
\* only through its connection and the answers.
LEMMA ProgressKept ==
    ASSUME NEW c \in Calls, Progress(c), pc'[c] = pc[c], hs'[c] = hs[c], got'[c] = got[c],
           result'[c] = result[c], answers'[c] = answers[c],
           "dialer" \notin vs[c].open => "dialer" \notin vs'[c].open
    PROVE  Progress(c)'
  BY DEF Progress, Greeting, Response

\* The accept loop, the handling of a connection, the collector and a restart.
LEMMA HostSteps ==
    ASSUME TypeOK, NEW c \in Calls, Holds(c), Control(c), Lines(c), UNCHANGED <<client, remote>>,
           \/ HandleStep(c) \/ CollectConnection(c) \/ Accept(c) \/ Park \/ AcceptFails
           \/ CollectListener \/ Restart
    PROVE  Control(c)' /\ Lines(c)'
  <1>1. /\ vs \in [Calls -> Connection(Message)] /\ tcp \in [Calls -> Connection(Message)]
        /\ HostTyped /\ CopiesTyped
    BY TypeParts DEF ConnectionsTyped
  <1>2. /\ pc' = pc /\ hs' = hs /\ result' = result /\ sent' = sent /\ got' = got /\ read' = read
        /\ answers' = answers
    BY DEF client, remote
  <1>3. vs[c] \in Connection(Message) /\ tcp[c] \in Connection(Message)
    BY <1>1
  <1>4. "dialer" \in End /\ "acceptor" \in End
    BY DEF End
  <1>5. /\ Lost(vs[c], vs[c]) /\ Lost(tcp[c], tcp[c])
        /\ Lost(vs[c], Close(vs[c], "acceptor")) /\ Lost(tcp[c], Close(tcp[c], "dialer"))
    BY <1>3, <1>4, Losses
  <1>6. /\ NotDialed = vs[c] => Close(vs[c], "acceptor") = vs[c]
        /\ NotDialed = tcp[c] => Close(tcp[c], "dialer") = tcp[c]
        /\ Close(vs[c], "acceptor").to["dialer"] = vs[c].to["dialer"]
        /\ "dialer" \notin vs[c].open => "dialer" \notin Close(vs[c], "acceptor").open
        /\ Close(tcp[c], "dialer").open # End
    BY <1>3, <1>4, Ends, CloseType
  <1>7. CASE DialRemote(c)
    <2>1. /\ vs' = vs /\ held' = held /\ at[c] = "dialing" /\ at'[c] = "copying"
          /\ tcp'[c] = Connected /\ copy'[c] = [way \in Way |-> "read"]
      BY <1>1, <1>7 DEF DialRemote, HostTyped, CopiesTyped
    <2>2. tcp[c] = NotDialed /\ answers[c] = <<>> /\ got[c] = <<>> /\ vs[c].to["dialer"] = <<>>
          /\ copy[c]["down"] = "none"
      BY <2>1 DEF Control, Begins, Unserved, Way
    <2>3. /\ \A e \in End : tcp'[c].to[e] = tcp[c].to[e]
          /\ tcp'[c].open = End /\ tcp'[c].to["dialer"] = <<>>
      BY <1>4, <2>1, <2>2, NotDialedType
    <2>4. Begins(c)'
      BY <1>2, <2>1 DEF Control, Begins, Unserved
    <2>5. UpLine(c)'
      <3>1. Reachable(c) /\ Reachable(c)'
        BY <2>1, <2>3 DEF Reachable, Unserved
      <3> QED
        BY <1>2, <1>4, <2>1, <2>3, <3>1 DEF Lines, UpLine, Line
    <2>6. held[c]["down"] = <<>>
      BY <2>2 DEF Holds, Way
    <2>7. DownLine(c)'
      BY <1>2, <2>1, <2>2, <2>3, <2>6, LineEmpty DEF DownLine
    <2> QED
      BY <1>2, <2>1, <2>4, <2>5, <2>7, ProgressKept DEF Control, Lines
  <1>8. ASSUME vs'[c] = vs[c] \/ vs'[c] = Close(vs[c], "acceptor"),
               tcp'[c] = tcp[c] \/ tcp'[c] = Close(tcp[c], "dialer"),
               at'[c] \in Unserved => at[c] \in Unserved,
               at'[c] = "none" <=> at[c] = "none",
               at'[c] \in Unserved => copy'[c] = copy[c] \/ copy'[c] = NoCopy,
               held'[c] = held[c] \/ (/\ held'[c] = [way \in Way |-> <<>>]
                                      /\ vs'[c] = Close(vs[c], "acceptor")
                                      /\ tcp'[c] = Close(tcp[c], "dialer"))
        PROVE  Control(c)' /\ Lines(c)'
    <2>1. Lost(vs[c], vs'[c]) /\ Lost(tcp[c], tcp'[c])
      BY <1>5, <1>8
    <2>2. Begins(c)'
      BY <1>2, <1>6, <1>8 DEF Control, Begins, NoCopy
    <2>3. Progress(c)'
      BY <1>2, <1>6, <1>8, ProgressKept DEF Control
    <2>4. \A w \in Way : held'[c][w] \in {held[c][w], <<>>}
      BY <1>8
    <2>5. /\ tcp'[c].open = End => held'[c]["up"] = held[c]["up"]
          /\ vs'[c].open = End => held'[c]["down"] = held[c]["down"]
      BY <1>3, <1>4, <1>6, <1>8, CloseType
    <2>6. Lines(c)'
      BY <1>2, <1>8, <2>1, <2>4, <2>5, LinesLose DEF Control
    <2> QED
      BY <2>2, <2>3, <2>6 DEF Control
  <1>9. CASE DialRemoteFails(c) \/ CollectConnection(c) \/ Accept(c)
    <2>1. /\ vs'[c] = vs[c] \/ vs'[c] = Close(vs[c], "acceptor")
          /\ tcp' = tcp /\ copy' = copy /\ held' = held
      BY <1>1, <1>9 DEF DialRemoteFails, CollectConnection, Accept
    <2>2. /\ at'[c] \in Unserved => at[c] \in Unserved
          /\ at'[c] = "none" <=> at[c] = "none"
      BY <1>1, <1>9 DEF DialRemoteFails, CollectConnection, Accept, Queued, HostTyped, Unserved
    <2> QED
      BY <1>8, <2>1, <2>2
  <1>10. CASE Park \/ AcceptFails
    <2>1. vs' = vs /\ tcp' = tcp /\ copy' = copy /\ held' = held /\ at' = at
      BY <1>10 DEF Park, AcceptFails
    <2> QED
      BY <1>8, <2>1
  <1>11. CASE CollectListener
    <2>1. /\ vs'[c] = vs[c] \/ vs'[c] = Close(vs[c], "acceptor")
          /\ tcp' = tcp /\ copy' = copy /\ held' = held
      BY <1>11 DEF CollectListener
    <2>2. /\ at'[c] \in Unserved => at[c] \in Unserved
          /\ at'[c] = "none" <=> at[c] = "none"
      BY <1>11 DEF CollectListener, Queued, Unserved
    <2> QED
      BY <1>8, <2>1, <2>2
  <1>12. CASE Restart
    <2>1. /\ vs'[c] = Close(vs[c], "acceptor") /\ tcp'[c] = Close(tcp[c], "dialer")
          /\ at'[c] = (IF at[c] = "none" THEN "none" ELSE "collected") /\ copy'[c] = NoCopy
          /\ held'[c] = [way \in Way |-> <<>>]
      BY <1>12 DEF Restart
    <2> QED
      BY <1>8, <2>1 DEF Unserved
  <1> QED
    BY <1>7, <1>9, <1>10, <1>11, <1>12 DEF HandleStep

\* What the host does for one connection leaves the others alone.
LEMMA HostFrame ==
    ASSUME TypeOK, NEW c \in Calls, NEW d \in Calls, d # c, UNCHANGED <<client, remote>>,
           HandleStep(c) \/ CollectConnection(c) \/ Accept(c) \/ \E way \in Way : CopyStep(c, way)
    PROVE  SameAt(d)
  <1>1. /\ pc' = pc /\ hs' = hs /\ result' = result /\ sent' = sent /\ got' = got /\ read' = read
        /\ answers' = answers
    BY DEF client, remote
  <1>2. vs'[d] = vs[d] /\ tcp'[d] = tcp[d]
    <2>1. vs \in [Calls -> Connection(Message)] /\ tcp \in [Calls -> Connection(Message)]
      BY TypeParts DEF ConnectionsTyped
    <2> QED
      BY <2>1 DEF HandleStep, DialRemote, DialRemoteFails, CollectConnection, Accept, CopyStep,
                  CopyRead, CopyWrite, CopyEnds
  <1>3. at'[d] = at[d] /\ copy'[d] = copy[d] /\ held'[d] = held[d]
    <2>1. HostTyped /\ CopiesTyped
      BY TypeParts
    <2> QED
      BY <2>1 DEF HandleStep, DialRemote, DialRemoteFails, CollectConnection, Accept, CopyStep,
                  CopyRead, CopyWrite, CopyEnds, HostTyped, CopiesTyped
  <1> QED
    BY <1>1, <1>2, <1>3 DEF SameAt

(***************************************************************************)
(* The copying goroutines.                                                 *)
(***************************************************************************)
\* A copying goroutine carries a message, or ends and lets go of what it holds.
LEMMA CopySteps ==
    ASSUME TypeOK, NEW c \in Calls, Holds(c), Control(c), Lines(c), UNCHANGED <<client, remote>>,
           NEW way \in Way, CopyStep(c, way)
    PROVE  Control(c)' /\ Lines(c)'
  <1>1. /\ vs \in [Calls -> Connection(Message)] /\ tcp \in [Calls -> Connection(Message)]
        /\ CopiesTyped
    BY TypeParts DEF ConnectionsTyped
  <1>2. /\ pc' = pc /\ hs' = hs /\ result' = result /\ sent' = sent /\ got' = got /\ read' = read
        /\ answers' = answers
    BY DEF client, remote
  <1>3. /\ LineTyped(read[c], tcp[c].to["acceptor"], held[c]["up"], vs[c].to["acceptor"], sent[c])
        /\ LineTyped(got[c], vs[c].to["dialer"], held[c]["down"], tcp[c].to["dialer"], answers[c])
        /\ vs[c] \in Connection(Message) /\ tcp[c] \in Connection(Message)
    BY LineTypes
  <1>4. /\ at' = at /\ way \in {"up", "down"} /\ {"up", "down"} = Way
        /\ copy[c][way] \in {"read", "write"}
        /\ "dialer" \in End /\ "acceptor" \in End
    BY DEF CopyStep, CopyRead, CopyWrite, CopyEnds, CopyStops, Way, End
  <1>5. at[c] \notin Unserved /\ at[c] # "none"
    BY <1>4 DEF Control, Begins, Unserved
  <1>6. Begins(c)'
    BY <1>2, <1>4, <1>5 DEF Control, Begins
  <1>7. ASSUME "dialer" \notin vs[c].open => "dialer" \notin vs'[c].open, Lines(c)'
        PROVE  Control(c)' /\ Lines(c)'
    BY <1>2, <1>6, <1>7, ProgressKept DEF Control
  <1>8. CASE CopyRead(c, way)
    <2>1. copy[c][way] = "read" /\ held[c][way] = <<>>
      BY <1>8 DEF CopyRead, Holds
    <2>2. CASE way = "up"
      <3> DEFINE b == tcp[c].to["acceptor"]
                 a == vs[c].to["acceptor"]
                 near == Reachable(c)
                 far == vs[c].open = End
      <3>1. /\ HasData(vs[c], "acceptor") /\ vs'[c] = Read(vs[c], "acceptor") /\ tcp' = tcp
            /\ held'[c]["up"] = <<Head(a)>> /\ held'[c]["down"] = held[c]["down"]
        BY <1>1, <1>4, <1>8, <2>2 DEF CopyRead, CopiesTyped
      <3>2. /\ vs'[c].to["acceptor"] = Tail(a) /\ a # <<>>
            /\ vs'[c].to["dialer"] = vs[c].to["dialer"] /\ vs'[c].open = vs[c].open
        BY <1>3, <1>4, <3>1, ReadFacts
      <3>3. /\ LineTyped(read[c], b, <<>>, a, sent[c]) /\ a # <<>>
            /\ Line(read[c], b, <<>>, a, sent[c], near, far)
        BY <1>3, <2>1, <2>2, <3>2 DEF Lines, UpLine
      <3> HIDE DEF a, b, near, far
      <3>4. Line(read[c], b, <<Head(a)>>, Tail(a), sent[c], near, far)
        BY <3>3, LineRead
      <3>5. UpLine(c)'
        BY <1>2, <1>4, <3>1, <3>2, <3>4 DEF UpLine, Reachable, a, b, near, far
      <3>6. DownLine(c)'
        BY <1>2, <3>1, <3>2 DEF Lines, DownLine
      <3> QED
        BY <1>7, <3>2, <3>5, <3>6 DEF Lines
    <2>3. CASE way = "down"
      <3> DEFINE b == vs[c].to["dialer"]
                 a == tcp[c].to["dialer"]
                 near == vs[c].open = End
                 far == tcp[c].open = End
      <3>1. /\ HasData(tcp[c], "dialer") /\ tcp'[c] = Read(tcp[c], "dialer") /\ vs' = vs
            /\ held'[c]["down"] = <<Head(a)>> /\ held'[c]["up"] = held[c]["up"]
        BY <1>1, <1>4, <1>8, <2>3 DEF CopyRead, CopiesTyped
      <3>2. /\ tcp'[c].to["dialer"] = Tail(a) /\ a # <<>>
            /\ tcp'[c].to["acceptor"] = tcp[c].to["acceptor"] /\ tcp'[c].open = tcp[c].open
        BY <1>3, <1>4, <3>1, ReadFacts
      <3>3. /\ LineTyped(got[c], b, <<>>, a, answers[c]) /\ a # <<>>
            /\ Line(got[c], b, <<>>, a, answers[c], near, far)
        BY <1>3, <2>1, <2>3, <3>2 DEF Lines, DownLine
      <3> HIDE DEF a, b, near, far
      <3>4. Line(got[c], b, <<Head(a)>>, Tail(a), answers[c], near, far)
        BY <3>3, LineRead
      <3>5. DownLine(c)'
        BY <1>2, <3>1, <3>2, <3>4 DEF DownLine, a, b, near, far
      <3>6. UpLine(c)'
        BY <1>2, <1>4, <3>1, <3>2 DEF Lines, UpLine, Reachable
      <3> QED
        BY <1>7, <3>1, <3>5, <3>6 DEF Lines
    <2> QED
      BY <1>4, <2>2, <2>3
  <1>9. CASE CopyWrite(c, way)
    <2>1. PICK m \in Message : held[c][way] = <<m>>
      BY <1>9 DEF CopyWrite, Holds
    <2>2. Head(held[c][way]) = m
      BY <2>1
    <2>3. CASE way = "up"
      <3> DEFINE b == tcp[c].to["acceptor"]
                 a == vs[c].to["acceptor"]
                 near == Reachable(c)
                 far == vs[c].open = End
      <3>1. /\ Writable(tcp[c]) /\ tcp'[c] = Write(tcp[c], "dialer", m) /\ vs' = vs
            /\ held'[c]["up"] = <<>> /\ held'[c]["down"] = held[c]["down"]
        BY <1>1, <1>4, <1>9, <2>2, <2>3 DEF CopyWrite, CopiesTyped
      <3>2. /\ tcp'[c].to["acceptor"] = Append(b, m)
            /\ tcp'[c].to["dialer"] = tcp[c].to["dialer"] /\ tcp'[c].open = tcp[c].open
        <4>1. tcp[c] \in Connection(Message) /\ m \in Message
          BY <1>3, <2>1
        <4> HIDE DEF b
        <4>2. /\ Write(tcp[c], "dialer", m).to["acceptor"] = Append(tcp[c].to["acceptor"], m)
              /\ Write(tcp[c], "dialer", m).to["dialer"] = tcp[c].to["dialer"]
              /\ Write(tcp[c], "dialer", m).open = tcp[c].open
          BY <4>1, WriteFacts
        <4> QED
          BY <3>1, <4>2 DEF b
      <3>3. near
        BY <3>1 DEF Reachable, Writable
      <3>7. /\ LineTyped(read[c], b, <<m>>, a, sent[c])
            /\ Line(read[c], b, <<m>>, a, sent[c], near, far)
        BY <1>3, <2>1, <2>3 DEF Lines, UpLine
      <3> HIDE DEF a, b, near, far
      <3>4. Line(read[c], Append(b, m), <<>>, a, sent[c], near, far)
        BY <3>3, <3>7, LineWrite
      <3>5. UpLine(c)'
        BY <1>2, <1>4, <3>1, <3>2, <3>4 DEF UpLine, Reachable, a, b, near, far
      <3>6. DownLine(c)'
        BY <1>2, <3>1, <3>2 DEF Lines, DownLine
      <3> QED
        BY <1>7, <3>1, <3>5, <3>6 DEF Lines
    <2>4. CASE way = "down"
      <3> DEFINE b == vs[c].to["dialer"]
                 a == tcp[c].to["dialer"]
                 near == vs[c].open = End
                 far == tcp[c].open = End
      <3>1. /\ Writable(vs[c]) /\ vs'[c] = Write(vs[c], "acceptor", m) /\ tcp' = tcp
            /\ held'[c]["down"] = <<>> /\ held'[c]["up"] = held[c]["up"]
        BY <1>1, <1>4, <1>9, <2>2, <2>4 DEF CopyWrite, CopiesTyped
      <3>2. /\ vs'[c].to["dialer"] = Append(b, m)
            /\ vs'[c].to["acceptor"] = vs[c].to["acceptor"] /\ vs'[c].open = vs[c].open
        <4>1. vs[c] \in Connection(Message) /\ m \in Message
          BY <1>3, <2>1
        <4> HIDE DEF b
        <4>2. /\ Write(vs[c], "acceptor", m).to["dialer"] = Append(vs[c].to["dialer"], m)
              /\ Write(vs[c], "acceptor", m).to["acceptor"] = vs[c].to["acceptor"]
              /\ Write(vs[c], "acceptor", m).open = vs[c].open
          BY <4>1, WriteFacts
        <4> QED
          BY <3>1, <4>2 DEF b
      <3>3. /\ LineTyped(got[c], b, <<m>>, a, answers[c]) /\ near
            /\ Line(got[c], b, <<m>>, a, answers[c], near, far)
        BY <1>3, <2>1, <2>4, <3>1 DEF Lines, DownLine, Writable
      <3> HIDE DEF a, b, near, far
      <3>4. Line(got[c], Append(b, m), <<>>, a, answers[c], near, far)
        BY <3>3, LineWrite
      <3>5. DownLine(c)'
        BY <1>2, <3>1, <3>2, <3>4 DEF DownLine, a, b, near, far
      <3>6. UpLine(c)'
        BY <1>2, <1>4, <3>1, <3>2 DEF Lines, UpLine, Reachable
      <3> QED
        BY <1>7, <3>2, <3>5, <3>6 DEF Lines
    <2> QED
      BY <1>4, <2>3, <2>4
  <1>10. CASE CopyEnds(c, way)
    <2>1. /\ Lost(vs[c], vs[c]) /\ Lost(tcp[c], tcp[c])
          /\ Lost(vs[c], Close(vs[c], "acceptor")) /\ Lost(tcp[c], Close(tcp[c], "dialer"))
          /\ Close(tcp[c], "dialer").open # End
          /\ "dialer" \notin vs[c].open => "dialer" \notin Close(vs[c], "acceptor").open
      BY <1>3, <1>4, Losses, CloseType
    <2>2. CASE way = "up"
      <3>1. /\ vs'[c] = Close(vs[c], "acceptor") /\ tcp'[c] = Close(tcp[c], "dialer")
            /\ held'[c]["up"] = <<>> /\ held'[c]["down"] = held[c]["down"]
        BY <1>1, <1>4, <1>10, <2>2 DEF CopyEnds, CopiesTyped
      <3>2. Lines(c)'
        BY <1>2, <1>4, <2>1, <3>1, LinesLose DEF Control
      <3> QED
        BY <1>7, <2>1, <3>1, <3>2
    <2>3. CASE way = "down"
      <3>1. /\ vs' = vs /\ tcp' = tcp
            /\ held'[c]["down"] = <<>> /\ held'[c]["up"] = held[c]["up"]
        BY <1>1, <1>4, <1>10, <2>3 DEF CopyEnds, CopiesTyped
      <3>2. vs[c].open = End => held[c]["down"] = <<>>
        <4>1. copy[c]["down"] = "read" \/ ~Writable(vs[c])
          BY <1>10, <2>3 DEF CopyEnds, CopyStops
        <4> QED
          BY <1>4, <4>1 DEF Holds, Writable
      <3>3. Lines(c)'
        BY <1>2, <1>4, <2>1, <3>1, <3>2, LinesLose DEF Control
      <3> QED
        BY <1>7, <3>1, <3>3
    <2> QED
      BY <1>4, <2>2, <2>3
  <1> QED
    BY <1>8, <1>9, <1>10 DEF CopyStep

(***************************************************************************)
(* The remote and the kernels.                                             *)
(***************************************************************************)
\* The remote of one call leaves the others alone.
LEMMA RemoteFrame ==
    ASSUME TypeOK, NEW c \in Calls, NEW d \in Calls, d # c,
           RemoteReads(c) \/ RemoteAnswers(c) \/ RemoteCloses(c) \/ Resets(c)
    PROVE  SameAt(d)
  <1>1. /\ pc' = pc /\ hs' = hs /\ result' = result /\ sent' = sent /\ got' = got
        /\ at' = at /\ copy' = copy /\ held' = held
    BY DEF RemoteReads, RemoteAnswers, RemoteCloses, Resets, client
  <1>2. vs'[d] = vs[d] /\ tcp'[d] = tcp[d]
    <2>1. vs \in [Calls -> Connection(Message)] /\ tcp \in [Calls -> Connection(Message)]
      BY TypeParts DEF ConnectionsTyped
    <2> QED
      BY <2>1 DEF RemoteReads, RemoteAnswers, RemoteCloses, Resets
  <1>3. read'[d] = read[d] /\ answers'[d] = answers[d]
    <2>1. HistoriesTyped
      BY TypeParts
    <2> QED
      BY <2>1 DEF RemoteReads, RemoteAnswers, RemoteCloses, Resets, remote, HistoriesTyped
  <1> QED
    BY <1>1, <1>2, <1>3 DEF SameAt

\* The remote reads, answers and closes; the kernels reset.
LEMMA RemoteSteps ==
    ASSUME TypeOK, NEW c \in Calls, Holds(c), Control(c), Lines(c),
           RemoteReads(c) \/ RemoteAnswers(c) \/ RemoteCloses(c) \/ Resets(c)
    PROVE  Control(c)' /\ Lines(c)'
  <1>1. /\ vs \in [Calls -> Connection(Message)] /\ tcp \in [Calls -> Connection(Message)]
        /\ HistoriesTyped
    BY TypeParts DEF ConnectionsTyped
  <1>2. /\ pc' = pc /\ hs' = hs /\ result' = result /\ sent' = sent /\ got' = got
        /\ at' = at /\ copy' = copy /\ held' = held
    BY DEF RemoteReads, RemoteAnswers, RemoteCloses, Resets, client
  <1>3. /\ LineTyped(read[c], tcp[c].to["acceptor"], held[c]["up"], vs[c].to["acceptor"], sent[c])
        /\ LineTyped(got[c], vs[c].to["dialer"], held[c]["down"], tcp[c].to["dialer"], answers[c])
        /\ vs[c] \in Connection(Message) /\ tcp[c] \in Connection(Message)
    BY LineTypes
  <1>4. /\ "dialer" \in End /\ "acceptor" \in End
        /\ NotDialed.open = {} /\ \A e \in End : NotDialed.to[e] = <<>>
    BY NotDialedType DEF End
  <1>5. ASSUME tcp[c].open # {} PROVE at[c] \notin Unserved /\ at[c] # "none"
    BY <1>4, <1>5 DEF Control, Begins, Unserved
  <1>6. CASE RemoteReads(c)
    <2> DEFINE b == tcp[c].to["acceptor"]
               h == held[c]["up"]
               a == vs[c].to["acceptor"]
               near == Reachable(c)
               far == vs[c].open = End
    <2>1. /\ HasData(tcp[c], "acceptor") /\ tcp'[c] = Read(tcp[c], "acceptor") /\ vs' = vs
          /\ read'[c] = Append(read[c], Head(b)) /\ answers' = answers
      BY <1>1, <1>6 DEF RemoteReads, HistoriesTyped
    <2>2. /\ tcp'[c].to["acceptor"] = Tail(b) /\ b # <<>> /\ tcp[c].open # {}
          /\ tcp'[c].to["dialer"] = tcp[c].to["dialer"] /\ tcp'[c].open = tcp[c].open
      BY <1>3, <1>4, <2>1, ReadFacts
    <2>3. /\ LineTyped(read[c], b, h, a, sent[c]) /\ b # <<>>
          /\ Line(read[c], b, h, a, sent[c], near, far)
      BY <1>3, <2>2 DEF Lines, UpLine
    <2> HIDE DEF b, h, a, near, far
    <2>4. Line(Append(read[c], Head(b)), Tail(b), h, a, sent[c], near, far)
      BY <2>3, LineReceive
    <2>5. UpLine(c)'
      BY <1>2, <2>1, <2>2, <2>4 DEF UpLine, Reachable, b, h, a, near, far
    <2>6. DownLine(c)'
      BY <1>2, <2>1, <2>2 DEF Lines, DownLine
    <2>7. Begins(c)'
      BY <1>2, <1>5, <2>2 DEF Control, Begins
    <2>8. Progress(c)'
      BY <1>2, <2>1, ProgressKept DEF Control
    <2> QED
      BY <2>5, <2>6, <2>7, <2>8 DEF Control, Lines
  <1>7. CASE RemoteAnswers(c)
    <2> DEFINE n == Len(answers[c]) + 1
               m == Response(c)[n]
               b == vs[c].to["dialer"]
               h == held[c]["down"]
               a == tcp[c].to["dialer"]
               near == vs[c].open = End
               far == tcp[c].open = End
    <2>1. /\ Writable(tcp[c]) /\ tcp'[c] = Write(tcp[c], "acceptor", m) /\ vs' = vs
          /\ answers'[c] = Append(answers[c], m) /\ read' = read
          /\ Len(answers[c]) < Len(Response(c))
      BY <1>1, <1>7 DEF RemoteAnswers, HistoriesTyped
    <2>2. /\ answers[c] \in Seq(Message) /\ Response(c) \in Seq(Message)
          /\ n \in 1 .. Len(Response(c)) /\ m \in Message
      BY <1>1, <2>1, ResponseType DEF HistoriesTyped
    <2>3. IsPrefix(Append(answers[c], m), Response(c))
      <3> DEFINE s == answers[c]
                 t == Response(c)
                 u == Append(s, m)
      <3>1. /\ s \in Seq(Message) /\ t \in Seq(Message) /\ u \in Seq(Message) /\ Len(u) = n
            /\ n <= Len(t) /\ \A i \in 1 .. n : u[i] = IF i = n THEN t[n] ELSE s[i]
        BY <2>1, <2>2
      <3>2. \A i \in 1 .. Len(s) : s[i] = t[i]
        <4>1. IsPrefix(s, t)
          BY DEF Control, Progress
        <4> HIDE DEF s, t
        <4> QED
          BY <3>1, <4>1, PrefixItems
      <3>3. \A i \in 1 .. Len(u) : u[i] = t[i]
        BY <2>2, <3>1, <3>2
      <3> HIDE DEF s, t, u
      <3>4. IsPrefix(u, t)
        BY <3>1, <3>3, PrefixItems
      <3> QED
        BY <3>4 DEF s, t, u
    <2> HIDE DEF m, n
    <2>4. /\ tcp'[c].to["dialer"] = Append(a, m) /\ tcp[c].open # {}
          /\ tcp'[c].to["acceptor"] = tcp[c].to["acceptor"] /\ tcp'[c].open = tcp[c].open
      <3>1. tcp[c] \in Connection(Message) /\ m \in Message /\ tcp[c].open # {}
        BY <1>3, <1>4, <2>1, <2>2 DEF Writable
      <3>2. /\ Write(tcp[c], "acceptor", m).to["dialer"] = Append(tcp[c].to["dialer"], m)
            /\ Write(tcp[c], "acceptor", m).to["acceptor"] = tcp[c].to["acceptor"]
            /\ Write(tcp[c], "acceptor", m).open = tcp[c].open
        BY <3>1, WriteFacts
      <3> QED
        BY <2>1, <3>1, <3>2
    <2>5. /\ LineTyped(got[c], b, h, a, answers[c]) /\ far
          /\ Line(got[c], b, h, a, answers[c], near, far)
      BY <1>3, <2>1 DEF Lines, DownLine, Writable
    <2> HIDE DEF b, h, a, near, far
    <2>6. Line(got[c], b, h, Append(a, m), Append(answers[c], m), near, far)
      BY <2>2, <2>5, LineSend
    <2>7. DownLine(c)'
      BY <1>2, <2>1, <2>4, <2>6 DEF DownLine, b, h, a, near, far
    <2>8. UpLine(c)'
      BY <1>2, <2>1, <2>4 DEF Lines, UpLine, Reachable
    <2>9. Begins(c)'
      BY <1>2, <1>5, <2>1, <2>4 DEF Control, Begins
    <2>10. Progress(c)'
      BY <1>2, <2>1, <2>3 DEF Control, Progress, Greeting, Response
    <2> QED
      BY <2>7, <2>8, <2>9, <2>10 DEF Control, Lines
  <1>8. ASSUME read' = read, answers' = answers, Lost(vs[c], vs'[c]), Lost(tcp[c], tcp'[c]),
               vs[c] = NotDialed => vs'[c] = vs[c], tcp[c] = NotDialed => tcp'[c] = tcp[c],
               "dialer" \notin vs[c].open => "dialer" \notin vs'[c].open
        PROVE  Control(c)' /\ Lines(c)'
    <2>1. vs[c].to["dialer"] = <<>> => vs'[c].to["dialer"] = <<>>
      BY <1>4, <1>8 DEF Lost
    <2>2. Begins(c)'
      BY <1>2, <1>8, <2>1 DEF Control, Begins
    <2>3. Progress(c)'
      BY <1>2, <1>8, ProgressKept DEF Control
    <2>4. Lines(c)'
      BY <1>2, <1>8, LinesLose DEF Control
    <2> QED
      BY <2>2, <2>3, <2>4 DEF Control
  <1>9. Lost(vs[c], vs[c]) /\ Lost(tcp[c], tcp[c])
    BY <1>3, Losses
  <1>10. CASE RemoteCloses(c)
    <2>1. /\ vs' = vs /\ tcp'[c] = Close(tcp[c], "acceptor") /\ read' = read /\ answers' = answers
      BY <1>1, <1>10 DEF RemoteCloses, remote
    <2>2. Lost(tcp[c], tcp'[c]) /\ (tcp[c] = NotDialed => tcp'[c] = tcp[c])
      BY <1>3, <1>4, <2>1, Losses, CloseType
    <2> QED
      BY <1>8, <1>9, <2>1, <2>2
  <1>11. CASE Resets(c)
    <2>1. /\ read' = read /\ answers' = answers
          /\ \/ vs[c].open # End /\ vs'[c] = Reset(vs[c]) /\ tcp' = tcp
             \/ tcp[c].open # End /\ tcp'[c] = Reset(tcp[c]) /\ vs' = vs
      BY <1>1, <1>11 DEF Resets, remote
    <2>2. /\ vs[c].open # End => Lost(vs[c], Reset(vs[c]))
          /\ tcp[c].open # End => Lost(tcp[c], Reset(tcp[c]))
      BY <1>3, Losses
    <2>3. /\ vs[c] = NotDialed => Reset(vs[c]) = vs[c]
          /\ tcp[c] = NotDialed => Reset(tcp[c]) = tcp[c]
          /\ Reset(vs[c]).open = vs[c].open
      BY <1>3, ResetType
    <2> QED
      BY <1>8, <1>9, <2>1, <2>2, <2>3
  <1> QED
    BY <1>6, <1>7, <1>10, <1>11

(***************************************************************************)
(* The invariant holds.                                                    *)
(***************************************************************************)
\* The invariant holds at the start...
LEMMA InvInit == Init => Inv
  <1> SUFFICES ASSUME Init PROVE Inv
    OBVIOUS
  <1>1. TypeOK /\ \A c \in Calls : Holds(c)
    BY TypeInit
  <1>2. ASSUME NEW c \in Calls PROVE Control(c) /\ Lines(c)
    <2>1. /\ vs[c] = NotDialed /\ tcp[c] = NotDialed /\ pc[c] = "idle" /\ hs[c] = "none"
          /\ at[c] = "none" /\ copy[c] = NoCopy /\ result[c] = "none"
          /\ held[c] = [way \in Way |-> <<>>]
          /\ sent[c] = <<>> /\ got[c] = <<>> /\ read[c] = <<>> /\ answers[c] = <<>>
      BY DEF Init, RoundTripInit, ProxyInit
    <2>2. NotDialed.to["dialer"] = <<>> /\ NotDialed.to["acceptor"] = <<>>
      BY NotDialedType DEF End
    <2>3. Begins(c)
      BY <2>1, <2>2 DEF Begins, NoCopy
    <2>4. IsPrefix(answers[c], Response(c))
      <3>1. <<>> \in Seq(Message) /\ Response(c) \in Seq(Message)
        BY ResponseType
      <3> QED
        BY <2>1, <3>1, PrefixFacts
    <2>5. Progress(c)
      BY <2>1, <2>4 DEF Progress
    <2>6. Lines(c)
      BY <2>1, <2>2, LineEmpty DEF Lines, UpLine, DownLine, Way
    <2> QED
      BY <2>3, <2>5, <2>6 DEF Control
  <1> QED
    BY <1>1, <1>2 DEF Inv

\* ... every step keeps it...
LEMMA InvStep == Inv /\ [Next]_vars => Inv'
  <1> SUFFICES ASSUME Inv, [Next]_vars PROVE Inv'
    OBVIOUS
  <1>1. TypeOK /\ \A c \in Calls : Holds(c) /\ Begins(c) /\ Control(c) /\ Lines(c)
    BY DEF Inv, Control
  <1>2. TypeOK' /\ \A c \in Calls : Holds(c)'
    BY <1>1, TypeStep, TypeStutters
  <1> DEFINE Goal == \A d \in Calls : Control(d)' /\ Lines(d)'
  <1>3. ASSUME NEW c \in Calls,
               \A d \in Calls : d # c => SameAt(d), Control(c)' /\ Lines(c)'
        PROVE  Goal
    <2>1. ASSUME NEW d \in Calls, d # c PROVE Control(d)' /\ Lines(d)'
      BY <1>1, <1>3, <2>1, Frame
    <2> QED
      BY <1>3, <2>1
  <1>4. ASSUME NEW c \in Calls,
               \/ Enclave(Do(c)) \/ Enclave(Expire(c)) \/ Enclave(CallerStep(c))
               \/ Enclave(HandshakeStep(c))
        PROVE  Goal
    <2>1. /\ Do(c) \/ Expire(c) \/ CallerStep(c) \/ HandshakeStep(c)
          /\ UNCHANGED <<proxy, remote, restarts>>
      BY <1>4 DEF Enclave
    <2>2. Control(c)' /\ Lines(c)'
      BY <1>1, <2>1, EnclaveControl, EnclaveLines
    <2>3. \A d \in Calls : d # c => SameAt(d)
      BY <1>1, <2>1, EnclaveFrame
    <2> QED
      BY <1>3, <2>2, <2>3
  <1>5. ASSUME NEW c \in Calls, Connect(c) PROVE Goal
    BY <1>1, <1>5, ConnectStep
  <1>6. ASSUME NEW c \in Calls,
               \/ Host(HandleStep(c)) \/ Host(CollectConnection(c)) \/ Host(Accept(c))
               \/ \E way \in Way : Host(CopyStep(c, way))
        PROVE  Goal
    <2>1. /\ UNCHANGED <<client, remote>>
          /\ \/ HandleStep(c) \/ CollectConnection(c) \/ Accept(c)
             \/ \E way \in Way : CopyStep(c, way)
      BY <1>6 DEF Host
    <2>2. Control(c)' /\ Lines(c)'
      BY <1>1, <2>1, HostSteps, CopySteps
    <2>3. \A d \in Calls : d # c => SameAt(d)
      BY <1>1, <2>1, HostFrame
    <2> QED
      BY <1>3, <2>2, <2>3
  <1>7. ASSUME NEW c \in Calls, RemoteReads(c) \/ RemoteAnswers(c) \/ RemoteCloses(c) \/ Resets(c)
        PROVE  Goal
    <2>1. Control(c)' /\ Lines(c)'
      BY <1>1, <1>7, RemoteSteps
    <2>2. \A d \in Calls : d # c => SameAt(d)
      BY <1>1, <1>7, RemoteFrame
    <2> QED
      BY <1>3, <2>1, <2>2
  <1>8. ASSUME Host(Park) \/ Host(AcceptFails) \/ Host(CollectListener) \/ HostRestarts PROVE Goal
    <2>1. /\ UNCHANGED <<client, remote>>
          /\ Park \/ AcceptFails \/ CollectListener \/ Restart
      BY <1>8 DEF Host, HostRestarts
    <2> QED
      BY <1>1, <2>1, HostSteps
  <1>9. ASSUME UNCHANGED vars PROVE Goal
    <2>1. \A d \in Calls : SameAt(d)
      BY <1>9 DEF vars, client, proxy, remote, SameAt
    <2> QED
      BY <1>1, <2>1, Frame
  <1>10. Host(LoopStep) => Host(Park) \/ Host(AcceptFails) \/ \E c \in Calls : Host(Accept(c))
    BY DEF Host, LoopStep
  <1>11. Goal
    <2> HIDE DEF Goal
    <2> QED
      BY <1>4, <1>5, <1>6, <1>7, <1>8, <1>9, <1>10 DEF Next
  <1> QED
    BY <1>2, <1>11 DEF Inv

\* ... and so it always holds.
LEMMA AlwaysInv == Spec => []Inv
  <1> QED
    BY InvInit, InvStep, PTL DEF Spec

(***************************************************************************)
(* Theorems.                                                               *)
(***************************************************************************)
\* The enclave's, the host's and the remote's state keep their types, for any
\* calls, any limit of descriptors and any number of restarts.
THEOREM TunnelTyped == Spec => []TypeOK
  <1>1. Inv => TypeOK
    BY DEF Inv
  <1> QED
    BY <1>1, AlwaysInv, PTL

\* However a call ends, the enclave's end of its connection is closed.
THEOREM AlwaysReturnedIsClosed == Spec => []ReturnedIsClosed
  <1>1. Inv => ReturnedIsClosed
    BY DEF Inv, Control, Progress, ReturnedIsClosed
  <1> QED
    BY <1>1, AlwaysInv, PTL

\* What the enclave has read is a beginning of what the remote wrote, which is a
\* beginning of its response; a call that counts as successful has read as many
\* messages as the response has.
THEOREM AlwaysOkIsComplete == Spec => []OkIsComplete
  <1>1. ASSUME Inv, NEW c \in Calls, result[c] = "ok"
        PROVE  got[c] = Response(c) /\ answers[c] = Response(c)
    <2>1. TypeOK /\ Progress(c) /\ DownLine(c)
      BY <1>1 DEF Inv, Control, Lines
    <2> DEFINE x == got[c]
               b == vs[c].to["dialer"]
               w == answers[c]
               t == Response(c)
    <2>2. x \in Seq(Message) /\ b \in Seq(Message) /\ w \in Seq(Message) /\ t \in Seq(Message)
      BY <2>1, LineTypes, ResponseType DEF LineTyped
    <2>3. IsPrefix(x \o b, w) /\ IsPrefix(w, t) /\ Len(x) = Len(t)
      BY <1>1, <2>1, ResponseType DEF Progress, DownLine, Line
    <2> HIDE DEF x, b, w, t
    <2>4. IsPrefix(x, w)
      BY <2>2, <2>3, PrefixFacts
    <2>5. /\ Len(x) <= Len(w) /\ \A n \in 1 .. Len(x) : x[n] = w[n]
          /\ Len(w) <= Len(t) /\ \A n \in 1 .. Len(w) : w[n] = t[n]
      BY <2>2, <2>3, <2>4, PrefixItems
    <2>6. Len(x) = Len(w) /\ Len(w) = Len(t)
      BY <2>2, <2>3, <2>5
    <2>7. x = w /\ w = t
      BY <2>2, <2>5, <2>6
    <2> QED
      BY <2>7 DEF x, w, t
  <1>2. Inv => OkIsComplete
    BY <1>1 DEF OkIsComplete
  <1> QED
    BY <1>2, AlwaysInv, PTL

(***************************************************************************)
(* Each call is a pair of channels.                                        *)
(***************************************************************************)
\* What the channels of Pipe are mapped to.
SentOn == [k \in Channels |-> IF k[2] = "up" THEN sent[k[1]] ELSE answers[k[1]]]
ReceivedOn == [k \in Channels |-> IF k[2] = "up" THEN read[k[1]] ELSE got[k[1]]]

\* The two channels of a call.
Up(c) == <<c, "up">>
Down(c) == <<c, "down">>

\* Channels are pairs of a call and a way.
LEMMA ChannelParts ==
    /\ \A k \in Channels : \E c \in Calls : k = Up(c) \/ k = Down(c)
    /\ \A c, d \in Calls : /\ Up(c) \in Channels /\ Down(c) \in Channels
                           /\ Up(c) # Down(d) /\ Down(c) # Up(d)
                           /\ Up(c) = Up(d) <=> c = d
                           /\ Down(c) = Down(d) <=> c = d
  <1>1. ASSUME NEW k \in Channels PROVE \E c \in Calls : k = Up(c) \/ k = Down(c)
    <2>1. k[1] \in Calls /\ k[2] \in {"up", "down"} /\ k = <<k[1], k[2]>>
      BY DEF Channels, Way
    <2> QED
      BY <2>1 DEF Up, Down
  <1>2. \A c \in Calls : Up(c) \in Channels /\ Down(c) \in Channels
    BY DEF Channels, Way, Up, Down
  <1>3. \A c, d \in Calls : Up(c) # Down(d) /\ Down(c) # Up(d)
    BY DEF Up, Down
  <1>4. \A c, d \in Calls : (Up(c) = Up(d) <=> c = d) /\ (Down(c) = Down(d) <=> c = d)
    BY DEF Up, Down
  <1> QED
    BY <1>1, <1>2, <1>3, <1>4

\* What a channel carries, before and after a step.
LEMMA ChannelValues ==
    \A c \in Calls : /\ SentOn[Up(c)] = sent[c] /\ SentOn[Down(c)] = answers[c]
                     /\ ReceivedOn[Up(c)] = read[c] /\ ReceivedOn[Down(c)] = got[c]
                     /\ SentOn'[Up(c)] = sent'[c] /\ SentOn'[Down(c)] = answers'[c]
                     /\ ReceivedOn'[Up(c)] = read'[c] /\ ReceivedOn'[Down(c)] = got'[c]
  <1>1. \A c \in Calls : /\ Up(c) \in Channels /\ Down(c) \in Channels
                         /\ Up(c)[1] = c /\ Up(c)[2] = "up" /\ Down(c)[1] = c /\ Down(c)[2] = "down"
    BY ChannelParts DEF Up, Down
  <1>2. \A c \in Calls : SentOn[Up(c)] = sent[c] /\ SentOn[Down(c)] = answers[c]
    BY <1>1 DEF SentOn
  <1>3. \A c \in Calls : SentOn'[Up(c)] = sent'[c] /\ SentOn'[Down(c)] = answers'[c]
    BY <1>1 DEF SentOn
  <1>4. \A c \in Calls : ReceivedOn[Up(c)] = read[c] /\ ReceivedOn[Down(c)] = got[c]
    BY <1>1 DEF ReceivedOn
  <1>5. \A c \in Calls : ReceivedOn'[Up(c)] = read'[c] /\ ReceivedOn'[Down(c)] = got'[c]
    BY <1>1 DEF ReceivedOn
  <1> QED
    BY <1>2, <1>3, <1>4, <1>5

\* One channel at a time.
LEMMA Updates ==
    ASSUME NEW j \in Channels, NEW x
    PROVE  /\ (\A k \in Channels : SentOn'[k] = IF k = j THEN x ELSE SentOn[k])
              => SentOn' = [SentOn EXCEPT ![j] = x]
           /\ (\A k \in Channels : ReceivedOn'[k] = IF k = j THEN x ELSE ReceivedOn[k])
              => ReceivedOn' = [ReceivedOn EXCEPT ![j] = x]
  <1>1. /\ SentOn = [k \in Channels |-> SentOn[k]] /\ SentOn' = [k \in Channels |-> SentOn'[k]]
        /\ ReceivedOn = [k \in Channels |-> ReceivedOn[k]]
        /\ ReceivedOn' = [k \in Channels |-> ReceivedOn'[k]]
    BY DEF SentOn, ReceivedOn
  <1> QED
    BY <1>1

\* A step that sends and receives nothing is a stuttering step of the channels.
LEMMA PipeQuiet ==
    ASSUME UNCHANGED <<sent, got, remote>> PROVE UNCHANGED Channel!vars
  BY DEF Channel!vars, remote

\* A message sent at one end of a call.
LEMMA PipeSends ==
    ASSUME NEW c \in Calls, NEW m \in Message, HistoriesTyped, UNCHANGED <<read, got>>,
           \/ sent' = [sent EXCEPT ![c] = Append(@, m)] /\ answers' = answers
           \/ answers' = [answers EXCEPT ![c] = Append(@, m)] /\ sent' = sent
    PROVE  Channel!Next
  <1>1. ReceivedOn' = ReceivedOn
    BY DEF ReceivedOn
  <1>2. PICK k \in Channels : SentOn' = [SentOn EXCEPT ![k] = Append(@, m)]
    <2>1. CASE sent' = [sent EXCEPT ![c] = Append(@, m)] /\ answers' = answers
      <3>1. Up(c) \in Channels
        BY ChannelParts
      <3>2. \A d \in Calls : sent'[d] = IF d = c THEN Append(sent[c], m) ELSE sent[d]
        BY <2>1 DEF HistoriesTyped
      <3>3. \A k \in Channels :
               SentOn'[k] = IF k = Up(c) THEN Append(SentOn[Up(c)], m) ELSE SentOn[k]
        <4> SUFFICES ASSUME NEW k \in Channels
                     PROVE  SentOn'[k] = IF k = Up(c) THEN Append(SentOn[Up(c)], m)
                                                       ELSE SentOn[k]
          OBVIOUS
        <4>1. PICK d \in Calls : k = Up(d) \/ k = Down(d)
          BY ChannelParts
        <4> QED
          BY <2>1, <3>2, <4>1, ChannelParts, ChannelValues
      <3>4. SentOn' = [SentOn EXCEPT ![Up(c)] = Append(SentOn[Up(c)], m)]
        BY <3>1, <3>3, Updates
      <3> QED
        BY <3>1, <3>4
    <2>2. CASE answers' = [answers EXCEPT ![c] = Append(@, m)] /\ sent' = sent
      <3>1. Down(c) \in Channels
        BY ChannelParts
      <3>2. \A d \in Calls : answers'[d] = IF d = c THEN Append(answers[c], m) ELSE answers[d]
        BY <2>2 DEF HistoriesTyped
      <3>3. \A k \in Channels :
               SentOn'[k] = IF k = Down(c) THEN Append(SentOn[Down(c)], m) ELSE SentOn[k]
        <4> SUFFICES ASSUME NEW k \in Channels
                     PROVE  SentOn'[k] = IF k = Down(c) THEN Append(SentOn[Down(c)], m)
                                                       ELSE SentOn[k]
          OBVIOUS
        <4>1. PICK d \in Calls : k = Up(d) \/ k = Down(d)
          BY ChannelParts
        <4> QED
          BY <2>2, <3>2, <4>1, ChannelParts, ChannelValues
      <3>4. SentOn' = [SentOn EXCEPT ![Down(c)] = Append(SentOn[Down(c)], m)]
        BY <3>1, <3>3, Updates
      <3> QED
        BY <3>1, <3>4
    <2> QED
      BY <2>1, <2>2
  <1>3. Channel!Send(k, m)
    BY <1>1, <1>2 DEF Channel!Send, SentOn, ReceivedOn
  <1> QED
    BY <1>3 DEF Channel!Next

\* A message received at the other end: what is on its way is what comes next.
LEMMA PipeDelivers ==
    ASSUME NEW c \in Calls, HistoriesTyped, UNCHANGED <<sent, answers>>,
           NEW b \in Seq(Message), b # <<>>,
           \/ /\ read' = [read EXCEPT ![c] = Append(@, Head(b))] /\ got' = got
              /\ IsPrefix(read[c] \o b, sent[c])
           \/ /\ got' = [got EXCEPT ![c] = Append(@, Head(b))] /\ read' = read
              /\ IsPrefix(got[c] \o b, answers[c])
    PROVE  Channel!Next
  <1>1. SentOn' = SentOn
    BY DEF SentOn
  <1>2. PICK k \in Channels :
           /\ Len(ReceivedOn[k]) < Len(SentOn[k])
           /\ ReceivedOn' = [ReceivedOn EXCEPT ![k] = SubSeq(SentOn[k], 1, Len(@) + 1)]
    <2>1. CASE /\ read' = [read EXCEPT ![c] = Append(@, Head(b))] /\ got' = got
               /\ IsPrefix(read[c] \o b, sent[c])
      <3> DEFINE k == Up(c)
      <3>1. k \in Channels /\ SentOn[k] = sent[c] /\ ReceivedOn[k] = read[c]
        BY ChannelParts, ChannelValues
      <3>2. read[c] \in Seq(Message) /\ sent[c] \in Seq(Message)
        BY DEF HistoriesTyped
      <3>3. /\ Len(read[c]) < Len(sent[c])
            /\ Append(read[c], Head(b)) = SubSeq(sent[c], 1, Len(read[c]) + 1)
        BY <2>1, <3>2, NextItem
      <3>4. \A d \in Calls : read'[d] = IF d = c THEN Append(read[c], Head(b)) ELSE read[d]
        BY <2>1 DEF HistoriesTyped
      <3>5. \A l \in Channels :
               ReceivedOn'[l] = IF l = k THEN Append(ReceivedOn[l], Head(b)) ELSE ReceivedOn[l]
        BY <2>1, <3>4, ChannelParts, ChannelValues
      <3> HIDE DEF k
      <3>6. \A l \in Channels :
               ReceivedOn'[l] = IF l = k THEN SubSeq(SentOn[k], 1, Len(ReceivedOn[k]) + 1)
                                ELSE ReceivedOn[l]
        BY <3>1, <3>3, <3>5
      <3>7. ReceivedOn' = [ReceivedOn EXCEPT ![k] = SubSeq(SentOn[k], 1, Len(@) + 1)]
        BY <3>1, <3>6, Updates
      <3> QED
        BY <3>1, <3>3, <3>7
    <2>2. CASE /\ got' = [got EXCEPT ![c] = Append(@, Head(b))] /\ read' = read
               /\ IsPrefix(got[c] \o b, answers[c])
      <3> DEFINE k == Down(c)
      <3>1. k \in Channels /\ SentOn[k] = answers[c] /\ ReceivedOn[k] = got[c]
        BY ChannelParts, ChannelValues
      <3>2. got[c] \in Seq(Message) /\ answers[c] \in Seq(Message)
        BY DEF HistoriesTyped
      <3>3. /\ Len(got[c]) < Len(answers[c])
            /\ Append(got[c], Head(b)) = SubSeq(answers[c], 1, Len(got[c]) + 1)
        BY <2>2, <3>2, NextItem
      <3>4. \A d \in Calls : got'[d] = IF d = c THEN Append(got[c], Head(b)) ELSE got[d]
        BY <2>2 DEF HistoriesTyped
      <3>5. \A l \in Channels :
               ReceivedOn'[l] = IF l = k THEN Append(ReceivedOn[l], Head(b)) ELSE ReceivedOn[l]
        BY <2>2, <3>4, ChannelParts, ChannelValues
      <3> HIDE DEF k
      <3>6. \A l \in Channels :
               ReceivedOn'[l] = IF l = k THEN SubSeq(SentOn[k], 1, Len(ReceivedOn[k]) + 1)
                                ELSE ReceivedOn[l]
        BY <3>1, <3>3, <3>5
      <3>7. ReceivedOn' = [ReceivedOn EXCEPT ![k] = SubSeq(SentOn[k], 1, Len(@) + 1)]
        BY <3>1, <3>6, Updates
      <3> QED
        BY <3>1, <3>3, <3>7
    <2> QED
      BY <2>1, <2>2
  <1>3. Channel!Deliver(k)
    BY <1>1, <1>2 DEF Channel!Deliver, SentOn, ReceivedOn
  <1> QED
    BY <1>3 DEF Channel!Next

\* Every step of the tunnel is a step of the channels or a stuttering step.
LEMMA PipeStep ==
    ASSUME Inv, [Next]_vars PROVE Channel!Next \/ UNCHANGED Channel!vars
  <1> DEFINE Goal == Channel!Next \/ UNCHANGED Channel!vars
  <1>1. TypeOK /\ HistoriesTyped
    BY TypeParts DEF Inv
  <1>2. ASSUME NEW c \in Calls,
               \/ Enclave(Do(c)) \/ Enclave(Expire(c)) \/ Enclave(CallerStep(c))
               \/ Enclave(HandshakeStep(c))
        PROVE  Goal
    <2>1. /\ Do(c) \/ Expire(c) \/ CallerStep(c) \/ HandshakeStep(c)
          /\ read' = read /\ answers' = answers
      BY <1>2 DEF Enclave, remote
    <2>2. CASE SendHello(c) \/ WriteRequest(c)
      <3>1. {"hello", "request"} \subseteq Message
        BY DEF Message
      <3>2. PICK m \in Message : sent' = [sent EXCEPT ![c] = Append(@, m)]
        BY <2>2, <3>1 DEF SendHello, WriteRequest, Send
      <3>3. got' = got
        BY <2>2 DEF SendHello, WriteRequest
      <3> QED
        BY <1>1, <2>1, <3>2, <3>3, PipeSends
    <2>3. CASE ReadHello(c) \/ ReadHead(c) \/ ReadBody(c)
      <3> DEFINE b == vs[c].to["dialer"]
      <3>1. /\ got' = [got EXCEPT ![c] = Append(@, Head(b))] /\ sent' = sent
            /\ b # <<>>
        BY <2>3 DEF ReadHello, ReadHead, ReadBody, Receive, HasData
      <3>2. IsPrefix(got[c] \o b, answers[c]) /\ b \in Seq(Message)
        BY <1>1, LineTypes DEF Inv, Lines, DownLine, Line, LineTyped
      <3> HIDE DEF b
      <3> QED
        BY <1>1, <2>1, <3>1, <3>2, PipeDelivers
    <2>4. CASE \/ Do(c) \/ Expire(c) \/ DialFails(c) \/ HandshakeWins(c) \/ HandshakeLoses(c)
               \/ RoundTripFails(c) \/ LeaveBody(c) \/ BodyFails(c) \/ CloseBody(c)
               \/ HandshakeFails(c)
      <3>1. sent' = sent /\ got' = got
        BY <2>4 DEF Do, Expire, DialFails, HandshakeWins, HandshakeLoses, RoundTripFails,
                    LeaveBody, BodyFails, CloseBody, HandshakeFails
      <3> QED
        BY <2>1, <3>1, PipeQuiet DEF remote
    <2> HIDE DEF Goal
    <2> QED
      BY <2>1, <2>2, <2>3, <2>4 DEF CallerStep, HandshakeStep
  <1>3. ASSUME UNCHANGED <<sent, got, remote>> PROVE Goal
    BY <1>3, PipeQuiet
  <1>4. ASSUME NEW c \in Calls, Connect(c) PROVE Goal
    <2>1. UNCHANGED <<sent, got, remote>>
      BY <1>4 DEF Connect, Dial
    <2> QED
      BY <1>3, <2>1
  <1>5. ASSUME UNCHANGED <<client, remote>> PROVE Goal
    BY <1>3, <1>5 DEF client
  <1>6. ASSUME NEW c \in Calls, RemoteReads(c) PROVE Goal
    <2> DEFINE b == tcp[c].to["acceptor"]
    <2>1. /\ read' = [read EXCEPT ![c] = Append(@, Head(b))] /\ got' = got
          /\ sent' = sent /\ answers' = answers /\ b # <<>>
      BY <1>6 DEF RemoteReads, HasData, client
    <2>2. IsPrefix(read[c] \o b, sent[c]) /\ b \in Seq(Message)
      BY <1>1, LineTypes DEF Inv, Lines, UpLine, Line, LineTyped
    <2> HIDE DEF b
    <2> QED
      BY <1>1, <2>1, <2>2, PipeDelivers
  <1>7. ASSUME NEW c \in Calls, RemoteAnswers(c) PROVE Goal
    <2> DEFINE m == Response(c)[Len(answers[c]) + 1]
    <2>1. /\ answers' = [answers EXCEPT ![c] = Append(@, m)] /\ sent' = sent /\ got' = got
          /\ read' = read /\ Len(answers[c]) < Len(Response(c))
      BY <1>7 DEF RemoteAnswers, client
    <2>2. m \in Message
      BY <1>1, <2>1, ResponseType DEF HistoriesTyped
    <2> HIDE DEF m
    <2> QED
      BY <1>1, <2>1, <2>2, PipeSends
  <1>8. ASSUME NEW c \in Calls, RemoteCloses(c) \/ Resets(c) PROVE Goal
    <2>1. UNCHANGED <<client, remote>>
      BY <1>8 DEF RemoteCloses, Resets
    <2> QED
      BY <1>5, <2>1
  <1>9. ASSUME UNCHANGED vars PROVE Goal
    BY <1>5, <1>9 DEF vars
  <1>10. ASSUME NEW c \in Calls, \/ Host(HandleStep(c)) \/ Host(CollectConnection(c))
                                 \/ \E way \in Way : Host(CopyStep(c, way))
         PROVE  Goal
    BY <1>5, <1>10 DEF Host
  <1>11. ASSUME Host(LoopStep) \/ Host(CollectListener) \/ HostRestarts PROVE Goal
    BY <1>5, <1>11 DEF Host, HostRestarts
  <1>12. Goal
    <2> HIDE DEF Goal
    <2> QED
      BY <1>2, <1>4, <1>6, <1>7, <1>8, <1>9, <1>10, <1>11 DEF Next
  <1> QED
    BY <1>12

\* Two connections and two copying goroutines, with resets, closes and restarts at
\* any time, deliver what was sent, in its order and each message once.
THEOREM TunnelIsPipe == Spec => ImplementsPipe
  <1>1. Init => Channel!Init
    BY DEF Init, RoundTripInit, Channel!Init, Channels
  <1>2. Inv /\ [Next]_vars => [Channel!Next]_(Channel!vars)
    BY PipeStep
  <1> QED
    BY <1>1, <1>2, AlwaysInv, PTL DEF Spec, ImplementsPipe, Channel!Spec
================================================================================
