--------------------------- MODULE PrivySignerProofs ---------------------------
(***************************************************************************)
(* Proofs about PrivySigner, for every set of requests and users, every    *)
(* cache capacity and time to live and every answer of Privy.              *)
(***************************************************************************)
EXTENDS PrivySignerInvariant, WellFoundedInduction, TLAPS

(***************************************************************************)
(* Lists of accounts.                                                      *)
(***************************************************************************)

\* The wallet the code selects is one of the accounts of the list.
LEMMA SelectedIsLinked ==
    ASSUME NEW linked \in Seq(Account), HasDelegated(linked)
    PROVE  /\ GetUsersEthDelegatedWallet(linked) \in Account
           /\ \E n \in DOMAIN linked : GetUsersEthDelegatedWallet(linked) = linked[n]
  <1>1. PICK n \in FirstDelegated(linked) :
            GetUsersEthDelegatedWallet(linked) = linked[n]
    BY DEF HasDelegated, GetUsersEthDelegatedWallet
  <1>2. n \in DOMAIN linked
    BY <1>1 DEF FirstDelegated
  <1> QED
    BY <1>1, <1>2

\* Appending an account adds its id and no other.
LEMMA IdsOfAppend ==
    ASSUME NEW linked \in Seq(Account), NEW a \in Account
    PROVE  /\ Append(linked, a) \in Seq(Account)
           /\ Ids(Append(linked, a)) = Ids(linked) \union ({a.id} \ {NoId})
  <1> DEFINE longer == Append(linked, a)
  <1>1. longer \in Seq(Account)
    OBVIOUS
  <1>2. /\ DOMAIN longer = DOMAIN linked \union {Len(linked) + 1}
        /\ longer[Len(linked) + 1] = a
        /\ \A n \in DOMAIN linked : longer[n] = linked[n]
    OBVIOUS
  <1>3. {longer[n].id : n \in DOMAIN longer} = {linked[n].id : n \in DOMAIN linked} \union {a.id}
    BY <1>2
  <1> QED
    BY <1>1, <1>3 DEF Ids

\* The id of a selected wallet is one of the ids of the list.
LEMMA SelectedId ==
    ASSUME NEW linked \in Seq(Account), HasDelegated(linked)
    PROVE  {GetUsersEthDelegatedWallet(linked).id} \ {NoId} \subseteq Ids(linked)
  BY SelectedIsLinked DEF Ids

\* Every set of numbers that is not empty has a least one.
LEMMA LeastNumber ==
    ASSUME NEW T \in SUBSET Nat, T # {}
    PROVE  \E n \in T : \A m \in T : n <= m
  <1> DEFINE R == OpToRel(<, Nat)
  <1>1. IsWellFoundedOn(R, Nat)
    BY NatLessThanWellFounded
  <1>2. \A n, m \in Nat : m < n => <<m, n>> \in R
    BY DEF OpToRel
  <1> HIDE DEF R
  <1>3. PICK n \in T : \A m \in T : ~ (<<m, n>> \in R)
    BY <1>1, WFMin
  <1>4. ASSUME NEW m \in T PROVE n <= m
    <2>1. n \in Nat /\ m \in Nat
      OBVIOUS
    <2>2. ~ (m < n)
      BY <1>2, <1>3, <2>1
    <2> QED
      BY <2>1, <2>2
  <1> QED
    BY <1>4

\* A list has a first delegated account when it has a delegated one at all, and
\* the code selects that one.
LEMMA FirstIsSelected ==
    ASSUME NEW linked \in Seq(Account)
    PROVE  /\ HasDelegated(linked) <=> \E n \in 1 .. Len(linked) : isEthDelegated(linked[n])
           /\ \A n \in FirstDelegated(linked) : GetUsersEthDelegatedWallet(linked) = linked[n]
  <1>1. DOMAIN linked = 1 .. Len(linked) /\ Len(linked) \in Nat
    OBVIOUS
  <1>2. ASSUME NEW n \in 1 .. Len(linked), isEthDelegated(linked[n])
        PROVE  HasDelegated(linked)
    <2> DEFINE T == {m \in 1 .. Len(linked) : isEthDelegated(linked[m])}
    <2>1. T \in SUBSET Nat /\ n \in T
      BY <1>2
    <2>2. PICK k \in T : \A m \in T : k <= m
      BY <2>1, LeastNumber, Zenon
    <2>3. ASSUME NEW m \in 1 .. (k - 1) PROVE ~ isEthDelegated(linked[m])
      BY <1>1, <2>2, <2>3
    <2> QED
      BY <1>1, <2>2, <2>3 DEF HasDelegated, FirstDelegated
  <1>3. HasDelegated(linked) => \E n \in 1 .. Len(linked) : isEthDelegated(linked[n])
    BY <1>1 DEF HasDelegated, FirstDelegated
  <1>4. \A n, m \in FirstDelegated(linked) : n = m
    BY <1>1 DEF FirstDelegated
  <1>5. ASSUME NEW n \in FirstDelegated(linked)
        PROVE  GetUsersEthDelegatedWallet(linked) = linked[n]
    BY <1>4 DEF GetUsersEthDelegatedWallet
  <1> QED
    BY <1>2, <1>3, <1>5

\* One list begins another when it is as long at most and agrees where it is.
LEMMA PrefixItems ==
    ASSUME NEW S, NEW s \in Seq(S), NEW t \in Seq(S)
    PROVE  IsPrefix(s, t) <=> Len(s) <= Len(t) /\ \A n \in 1 .. Len(s) : s[n] = t[n]
  <1>1. CASE Len(s) <= Len(t)
    <2>1. SubSeq(s, 1, Len(s)) = s
      OBVIOUS
    <2>2. /\ SubSeq(t, 1, Len(s)) \in Seq(S)
          /\ Len(SubSeq(t, 1, Len(s))) = Len(s)
          /\ \A n \in 1 .. Len(s) : SubSeq(t, 1, Len(s))[n] = t[n]
      BY <1>1
    <2> QED
      BY <1>1, <2>1, <2>2 DEF IsPrefix
  <1>2. CASE ~ (Len(s) <= Len(t))
    BY <1>2 DEF IsPrefix
  <1> QED
    BY <1>1, <1>2

\* Beginning a list is reflexive and transitive, and appending keeps it.
LEMMA PrefixOrder ==
    ASSUME NEW S, NEW s \in Seq(S), NEW t \in Seq(S)
    PROVE  /\ IsPrefix(t, t) /\ IsPrefix(<<>>, t)
           /\ \A e \in S : IsPrefix(t, Append(t, e))
           /\ \A u \in Seq(S) : IsPrefix(s, t) /\ IsPrefix(t, u) => IsPrefix(s, u)
  <1>1. IsPrefix(t, t) /\ IsPrefix(<<>>, t)
    <2> DEFINE e == <<>>
    <2>1. e \in Seq(S) /\ Len(e) = 0 /\ Len(t) \in Nat
      OBVIOUS
    <2> HIDE DEF e
    <2>2. IsPrefix(t, t)
      BY <2>1, PrefixItems
    <2>3. IsPrefix(e, t)
      <3>1. Len(e) <= Len(t) /\ \A n \in 1 .. Len(e) : e[n] = t[n]
        BY <2>1
      <3> QED
        BY <2>1, <3>1, PrefixItems
    <2> QED
      BY <2>2, <2>3 DEF e
  <1>2. ASSUME NEW e \in S PROVE IsPrefix(t, Append(t, e))
    <2> DEFINE u == Append(t, e)
    <2>1. /\ u \in Seq(S) /\ Len(t) <= Len(u)
          /\ \A n \in 1 .. Len(t) : t[n] = u[n]
      OBVIOUS
    <2> HIDE DEF u
    <2>2. IsPrefix(t, u)
      BY <2>1, PrefixItems
    <2> QED
      BY <2>2 DEF u
  <1>3. ASSUME NEW u \in Seq(S), IsPrefix(s, t), IsPrefix(t, u) PROVE IsPrefix(s, u)
    <2>1. Len(s) \in Nat /\ Len(t) \in Nat /\ Len(u) \in Nat
      OBVIOUS
    <2>2. /\ Len(s) <= Len(t) /\ \A n \in 1 .. Len(s) : s[n] = t[n]
          /\ Len(t) <= Len(u) /\ \A n \in 1 .. Len(t) : t[n] = u[n]
      BY <1>3, PrefixItems
    <2>3. Len(s) <= Len(u) /\ \A n \in 1 .. Len(s) : s[n] = u[n]
      BY <2>1, <2>2
    <2> QED
      BY <2>3, PrefixItems
  <1> QED
    BY <1>1, <1>2, <1>3

\* What a list selects, every longer list selects too.
LEMMA PrefixSelects ==
    ASSUME NEW s \in Seq(Account), NEW t \in Seq(Account), IsPrefix(s, t), HasDelegated(s)
    PROVE  /\ HasDelegated(t)
           /\ GetUsersEthDelegatedWallet(s) = GetUsersEthDelegatedWallet(t)
  <1>1. PICK n \in FirstDelegated(s) : TRUE
    BY DEF HasDelegated
  <1>2. /\ n \in 1 .. Len(s) /\ isEthDelegated(s[n])
        /\ \A m \in 1 .. (n - 1) : ~ isEthDelegated(s[m])
    BY DEF FirstDelegated
  <1>3. Len(s) <= Len(t) /\ \A m \in 1 .. Len(s) : s[m] = t[m]
    BY PrefixItems
  <1>4. n \in DOMAIN t /\ 1 .. (n - 1) \subseteq 1 .. Len(s)
    BY <1>2, <1>3
  <1>5. n \in FirstDelegated(t)
    BY <1>2, <1>3, <1>4 DEF FirstDelegated
  <1> QED
    BY <1>2, <1>3, <1>5, FirstIsSelected DEF HasDelegated

\* Appended to a list without a delegated account, a delegated one is selected.
LEMMA AppendSelects ==
    ASSUME NEW s \in Seq(Account), ~ HasDelegated(s), NEW a \in Account, isEthDelegated(a)
    PROVE  HasDelegated(Append(s, a)) /\ GetUsersEthDelegatedWallet(Append(s, a)) = a
  <1> DEFINE t == Append(s, a)
             n == Len(s) + 1
  <1>1. /\ t \in Seq(Account) /\ DOMAIN t = 1 .. n /\ t[n] = a /\ n \in Nat
        /\ \A m \in 1 .. (n - 1) : m \in 1 .. Len(s) /\ t[m] = s[m]
    OBVIOUS
  <1>2. \A m \in 1 .. Len(s) : ~ isEthDelegated(s[m])
    BY FirstIsSelected
  <1> HIDE DEF t
  <1>3. n \in FirstDelegated(t)
    BY <1>1, <1>2 DEF FirstDelegated
  <1>4. GetUsersEthDelegatedWallet(t) = a
    BY <1>1, <1>3, FirstIsSelected
  <1> QED
    BY <1>3, <1>4 DEF HasDelegated, t

\* The wallet the code selects is delegated.
LEMMA SelectedIsDelegated ==
    ASSUME NEW linked \in Seq(Account), HasDelegated(linked)
    PROVE  isEthDelegated(GetUsersEthDelegatedWallet(linked))
  <1>1. PICK n \in FirstDelegated(linked) : TRUE
    BY DEF HasDelegated
  <1> QED
    BY <1>1, FirstIsSelected DEF FirstDelegated

(***************************************************************************)
(* The cache: Get and Set move records, and never alter them.              *)
(***************************************************************************)

\* Putting a key at the front of the recency order changes ranks only.
LEMMA ToFrontType ==
    ASSUME NEW c \in [Users -> Entry(PrivyUser)], NEW k \in Users
    PROVE  /\ ToFront(c, k) \in [Users -> Entry(PrivyUser)]
           /\ \A u \in Users : ToFront(c, k)[u].value = c[u].value
           /\ \A u \in Users \ {k} : Cached(ToFront(c, k), u) <=> Cached(c, u)
  BY DEF ToFront, Entry, Cached

\* Get keeps every record.
LEMMA TouchType ==
    ASSUME NEW c \in [Users -> Entry(PrivyUser)], NEW k \in Users, NEW now \in Nat,
           Cached(c, k)
    PROVE  /\ Touch(c, k, now) \in [Users -> Entry(PrivyUser)]
           /\ \A u \in Users : Touch(c, k, now)[u].value = c[u].value
           /\ \A u \in Users : Cached(Touch(c, k, now), u) => Cached(c, u)
  <1>1. now + TTL \in Int
    BY CacheAssumption
  <1> QED
    BY <1>1, ToFrontType DEF Touch, Entry, Cached

\* Set stores the record of its key; every other record is kept or dropped.
LEMMA PutType ==
    ASSUME NEW c \in [Users -> Entry(PrivyUser)], NEW k \in Users,
           NEW v \in PrivyUser, NEW now \in Nat
    PROVE  /\ Put(c, k, v, now, NoUser) \in [Users -> Entry(PrivyUser)]
           /\ Put(c, k, v, now, NoUser)[k].value = v
           /\ \A u \in Users \ {k} :
                 /\ Put(c, k, v, now, NoUser)[u].value \in {c[u].value, NoUser}
                 /\ Cached(Put(c, k, v, now, NoUser), u) =>
                       Put(c, k, v, now, NoUser)[u].value = c[u].value /\ Cached(c, u)
  <1> DEFINE room == IF Cached(c, k) THEN c ELSE EvictOldest(c, NoUser)
  <1>1. NoUser \in PrivyUser
    BY DEF NoUser, PrivyUser
  <1>2. /\ room \in [Users -> Entry(PrivyUser)]
        /\ \A u \in Users : /\ room[u].value \in {c[u].value, NoUser}
                            /\ Cached(room, u) => room[u] = c[u]
    BY <1>1 DEF EvictOldest, NoEntry, Entry, Cached
  <1>3. now + TTL \in Int
    BY CacheAssumption
  <1> HIDE DEF room
  <1>4. /\ ToFront(room, k) \in [Users -> Entry(PrivyUser)]
        /\ \A u \in Users : ToFront(room, k)[u].value = room[u].value
        /\ \A u \in Users \ {k} : Cached(ToFront(room, k), u) <=> Cached(room, u)
    BY <1>2, ToFrontType
  <1>5. Put(c, k, v, now, NoUser) =
          [ToFront(room, k) EXCEPT ![k] = [value |-> v, expires |-> now + TTL, rank |-> 1]]
    BY DEF Put, room
  <1> QED
    BY <1>2, <1>3, <1>4, <1>5 DEF Entry, Cached

(***************************************************************************)
(* Types and places.                                                       *)
(***************************************************************************)

\* The initial state is well typed and no handler has started.
LEMMA TypeInit == Init => TypeOK /\ Placed
  <1> SUFFICES ASSUME Init PROVE TypeOK /\ Placed
    OBVIOUS
  <1>1. accounts \in [Users -> Seq(Account)] /\ nextId \in 1 .. MaxWallets + 1
    BY SignerAssumption DEF Init, NoId
  <1>2. NoUser \in PrivyUser
    BY DEF NoUser, PrivyUser
  <1>3. cache \in [Users -> Entry(PrivyUser)]
    BY <1>2 DEF Init, NoEntry, Entry
  <1>4. NoInput \in Input
    BY DEF NoInput, Input, Credential
  <1>5. NoCall \in Call /\ NoReply \in Reply
    BY DEF NoCall, Call, NoReply, Reply, NoId
  <1>6. input \in [Requests -> Input] /\ call \in [Requests -> Call] /\ reply \in [Requests -> Reply]
    BY <1>4, <1>5 DEF Init
  <1>7. record \in [Requests -> PrivyUser]
    BY <1>2 DEF Init
  <1>8. Placed
    BY DEF Init, Placed, Started, Awaiting, NoCall
  <1> QED
    BY <1>1, <1>3, <1>6, <1>7, <1>8 DEF Init, TypeOK

\* Every step keeps the types and the places.
LEMMA TypeStep == TypeOK /\ Placed /\ [Next]_vars => TypeOK' /\ Placed'
  <1> SUFFICES ASSUME TypeOK, Placed, [Next]_vars PROVE TypeOK' /\ Placed'
    OBVIOUS
  <1> USE DEF privy, handler
  <1>1. ASSUME NEW r \in Requests, NEW i \in Inputs, Receive(r, i) PROVE TypeOK' /\ Placed'
    <2>1. Screen(i) \in {0, 400, 401}
      BY DEF Screen
    <2>2. i \in Input
      BY SignerAssumption
    <2> QED
      <3>1. CASE Screen(i) = 0
        BY <1>1, <2>2, <3>1 DEF Receive, Goto, TypeOK, Placed, Started, Awaiting
      <3>2. CASE Screen(i) # 0
        <4>1. pc' = [pc EXCEPT ![r] = "done"] /\ code' = [code EXCEPT ![r] = Screen(i)]
          BY <1>1, <3>2 DEF Receive, Goto, Answer
        <4>2. TypeOK'
          BY <1>1, <2>1, <2>2, <4>1 DEF Receive, TypeOK
        <4>3. Placed'
          BY <1>1, <4>1 DEF Receive, TypeOK, Placed, Started, Awaiting
        <4> QED
          BY <4>2, <4>3
      <3> QED
        BY <3>1, <3>2
  <1>2. ASSUME NEW r \in Requests, NEW u \in Users, Authenticate(r, u) PROVE TypeOK' /\ Placed'
    BY <1>2, NamesAssumption DEF Authenticate, Goto, TypeOK, Placed, Started, Awaiting
  <1>3. ASSUME NEW r \in Requests, Unauthorized(r) PROVE TypeOK' /\ Placed'
    BY <1>3 DEF Unauthorized, Goto, TypeOK, Placed, Started, Awaiting, Answer
  <1>4. ASSUME NEW r \in Requests, CacheHit(r) PROVE TypeOK' /\ Placed'
    BY <1>4, TouchType DEF CacheHit, Goto, TypeOK, Placed, Started, Awaiting, Entry, Fresh
  <1>5. ASSUME NEW r \in Requests, CacheMiss(r) PROVE TypeOK' /\ Placed'
    BY <1>5 DEF CacheMiss, Goto, TypeOK, Placed, Started, Awaiting, Send, Call, NoReply, Reply, NoId
  <1>6. ASSUME NEW r \in Requests, CacheStore(r) PROVE TypeOK' /\ Placed'
    BY <1>6, PutType DEF CacheStore, Goto, TypeOK, Placed, Started, Awaiting
  <1>7. ASSUME NEW r \in Requests, UserHasWallet(r) PROVE TypeOK' /\ Placed'
    <2>1. [id |-> who[r], linked |-> reply[r].linked] \in PrivyUser
      BY DEF TypeOK, PrivyUser, Reply
    <2>2. /\ pc[r] = "awaitUser" /\ Goto(r, "store")
          /\ record' = [record EXCEPT ![r] = [id |-> who[r], linked |-> reply[r].linked]]
          /\ UNCHANGED <<clock, changed, privy, cache, input, who, code, call, reply>>
      BY <1>7 DEF UserHasWallet
    <2>3. TypeOK'
      BY <2>1, <2>2 DEF Goto, TypeOK
    <2>4. Placed'
      BY <2>2 DEF Goto, TypeOK, Placed, Started, Awaiting
    <2> QED
      BY <2>3, <2>4
  <1>8. ASSUME NEW r \in Requests, UserLacksWallet(r) PROVE TypeOK' /\ Placed'
    <2>1. [id |-> who[r], linked |-> reply[r].linked] \in PrivyUser
      BY DEF TypeOK, PrivyUser, Reply
    <2>2. NoReply \in Reply /\ [op |-> "createWallet", wallet |-> NoId] \in Call
      BY DEF NoReply, Reply, Call, NoId
    <2> QED
      BY <1>8, <2>1, <2>2 DEF UserLacksWallet, Goto, TypeOK, Placed, Started, Awaiting, Send
  <1>9. ASSUME NEW r \in Requests, WalletCreated(r) PROVE TypeOK' /\ Placed'
    <2>1. reply[r].linked \in Seq(Account) /\ record[r].linked \in Seq(Account)
      BY DEF TypeOK, PrivyUser, Reply
    <2>2. GetUsersEthDelegatedWallet(reply[r].linked) \in Account
      BY <1>9, <2>1, SelectedIsLinked DEF WalletCreated
    <2>3. Append(record[r].linked, GetUsersEthDelegatedWallet(reply[r].linked)) \in Seq(Account)
      BY <2>1, <2>2
    <2>4. record' \in [Requests -> PrivyUser]
      <3>1. record[r] \in PrivyUser
        BY DEF TypeOK
      <3>2. [record[r] EXCEPT !.linked =
                Append(record[r].linked, GetUsersEthDelegatedWallet(reply[r].linked))] \in PrivyUser
        BY <2>3, <3>1 DEF PrivyUser
      <3> QED
        BY <1>9, <3>2 DEF WalletCreated, TypeOK
    <2> QED
      BY <1>9, <2>4 DEF WalletCreated, Goto, TypeOK, Placed, Started, Awaiting
  <1>10. ASSUME NEW r \in Requests, WalletNotDelegated(r) PROVE TypeOK' /\ Placed'
    BY <1>10 DEF WalletNotDelegated, Goto, TypeOK, Placed, Started, Awaiting, Answer
  <1>11. ASSUME NEW r \in Requests, AnswerUser(r) PROVE TypeOK' /\ Placed'
    BY <1>11 DEF AnswerUser, Goto, TypeOK, Placed, Started, Awaiting, Answer
  <1>12. ASSUME NEW r \in Requests, NoUsableWallet(r) PROVE TypeOK' /\ Placed'
    BY <1>12 DEF NoUsableWallet, Goto, TypeOK, Placed, Started, Awaiting, Answer
  <1>13. ASSUME NEW r \in Requests, SendSign(r) PROVE TypeOK' /\ Placed'
    <2> DEFINE wallet == GetUsersEthDelegatedWallet(record[r].linked)
    <2>1. record[r].linked \in Seq(Account)
      BY DEF TypeOK, PrivyUser
    <2>2. wallet \in Account
      BY <1>13, <2>1, SelectedIsLinked DEF SendSign, CanSign
    <2>3. NoReply \in Reply /\ [op |-> "sign", wallet |-> wallet.id] \in Call
      BY <2>2 DEF NoReply, Reply, Call, Account
    <2> HIDE DEF wallet
    <2>4. /\ call' = [call EXCEPT ![r] = [op |-> "sign", wallet |-> wallet.id]]
          /\ reply' = [reply EXCEPT ![r] = NoReply]
      BY <1>13 DEF SendSign, Send, wallet
    <2>5. pc[r] = "gotUser" /\ Goto(r, "awaitSign")
      BY <1>13 DEF SendSign, Send
    <2>6. UNCHANGED <<clock, changed, privy, cache, input, who, record, code>>
      BY <1>13 DEF SendSign
    <2> QED
      BY <2>3, <2>4, <2>5, <2>6 DEF Goto, TypeOK, Placed, Started, Awaiting
  <1>14. ASSUME NEW r \in Requests, PrepFails(r) PROVE TypeOK' /\ Placed'
    BY <1>14 DEF PrepFails, Goto, TypeOK, Placed, Started, Awaiting, Answer
  <1>15. ASSUME NEW r \in Requests, Signed(r) PROVE TypeOK' /\ Placed'
    BY <1>15 DEF Signed, Goto, TypeOK, Placed, Started, Awaiting, Answer
  <1>16. ASSUME NEW r \in Requests, PrivyRefused(r) PROVE TypeOK' /\ Placed'
    <2>1. reply[r].status \in Nat
      BY DEF TypeOK, Reply
    <2> QED
      BY <1>16, <2>1 DEF PrivyRefused, Goto, TypeOK, Placed, Started, Awaiting, Answer
  <1>17. ASSUME NEW r \in Requests, CallFails(r) PROVE TypeOK' /\ Placed'
    BY <1>17 DEF CallFails, Goto, TypeOK, Placed, Started, Awaiting, Answer
  <1>18. ASSUME NEW r \in Requests, ServeGetUser(r) PROVE TypeOK' /\ Placed'
    BY <1>18 DEF ServeGetUser, Goto, TypeOK, Placed, Started, Awaiting, Respond, NoCall, Call, Reply, NoId
  <1>19. ASSUME NEW r \in Requests, NEW d \in BOOLEAN, ServeCreateWallet(r, d) PROVE TypeOK' /\ Placed'
    <2> DEFINE wallet == [id |-> nextId, delegated |-> d, chain |-> "ethereum"]
               linked == Append(accounts[who[r]], wallet)
    <2>1. who[r] \in Users
      BY <1>19 DEF ServeCreateWallet, Placed
    <2>2. nextId \in 1 .. MaxWallets /\ nextId' \in 1 .. MaxWallets + 1
      BY <1>19, SignerAssumption DEF ServeCreateWallet, TypeOK
    <2>3. wallet \in Account /\ accounts[who[r]] \in Seq(Account)
      BY <2>1, <2>2 DEF Account, TypeOK
    <2>4. linked \in Seq(Account)
      BY <2>3
    <2>5. NoCall \in Call /\ [status |-> 200, linked |-> linked] \in Reply
      BY <2>4 DEF NoCall, Call, Reply, NoId
    <2>6. /\ accounts' = [accounts EXCEPT ![who[r]] = linked]
          /\ reply' = [reply EXCEPT ![r] = [status |-> 200, linked |-> linked]]
          /\ call' = [call EXCEPT ![r] = NoCall]
          /\ UNCHANGED <<clock, changed, signatures, cache, pc, input, who, record, code>>
      BY <1>19 DEF ServeCreateWallet, Respond
    <2> HIDE DEF linked
    <2> QED
      BY <2>2, <2>4, <2>5, <2>6 DEF TypeOK, Placed, NoCall
  <1>20. ASSUME NEW r \in Requests, ServeSign(r) PROVE TypeOK' /\ Placed'
    <2>1. [request |-> r, wallet |-> call[r].wallet, hash |-> input[r].hash] \in Signature
      BY DEF TypeOK, Call, Input, Signature
    <2>2. NoCall \in Call /\ [status |-> 200, linked |-> <<>>] \in Reply
      BY DEF NoCall, Call, Reply, NoId
    <2> QED
      BY <1>20, <2>1, <2>2 DEF ServeSign, Respond, TypeOK, Placed, NoCall
  <1>21. ASSUME NEW r \in Requests, NEW status \in PrivyErrors, Refuse(r, status) PROVE TypeOK' /\ Placed'
    BY <1>21, SignerAssumption DEF Refuse, Goto, TypeOK, Placed, Started, Awaiting, Respond, NoCall, Call, Reply, NoId
  <1>22. ASSUME NEW u \in Users, NEW n \in DOMAIN accounts[u], ChangeDelegation(u, n)
         PROVE TypeOK' /\ Placed'
    <2>1. accounts[u] \in Seq(Account) /\ accounts[u][n] \in Account
      BY DEF TypeOK
    <2>2. [accounts[u][n] EXCEPT !.delegated = ~@] \in Account
      BY <2>1 DEF Account
    <2>3. [accounts[u] EXCEPT ![n].delegated = ~@] \in Seq(Account)
      BY <2>1, <2>2
    <2> QED
      BY <1>22, <2>3 DEF ChangeDelegation, TypeOK, Placed
  <1>23. CASE Tick
    BY <1>23 DEF Tick, TypeOK, Placed
  <1>24. CASE UNCHANGED vars
    BY <1>24 DEF vars, TypeOK, Placed
  <1> QED
    BY <1>1, <1>2, <1>3, <1>4, <1>5, <1>6, <1>7, <1>8, <1>9, <1>10, <1>11, <1>12, <1>13, <1>14, <1>15, <1>16, <1>17, <1>18, <1>19, <1>20, <1>21, <1>22, <1>23, <1>24 DEF Next, HandlerStep, PrivyStep

(***************************************************************************)
(* The steps of a handler from the cache lookup on leave alone the clock,  *)
(* the request, its user and all of Privy.                                 *)
(***************************************************************************)
Working(r) ==
    \/ CacheHit(r) \/ CacheMiss(r) \/ CacheStore(r)
    \/ UserHasWallet(r) \/ UserLacksWallet(r)
    \/ WalletCreated(r) \/ WalletNotDelegated(r)
    \/ AnswerUser(r) \/ NoUsableWallet(r)
    \/ SendSign(r) \/ PrepFails(r) \/ Signed(r)
    \/ PrivyRefused(r) \/ CallFails(r)

\* What such a step does not touch, and where it can lead.
LEMMA WorkingFrame ==
    ASSUME TypeOK, NEW r \in Requests, Working(r)
    PROVE  /\ UNCHANGED <<clock, changed, accounts, nextId, signatures, input, who>>
           /\ pc[r] \in Started
           /\ pc' = [pc EXCEPT ![r] = pc'[r]]
           /\ pc'[r] \in (Started \union {"done"}) \ {"lookup"}
           /\ \A q \in Requests \ {r} :
                 record'[q] = record[q] /\ call'[q] = call[q] /\ reply'[q] = reply[q]
  <1> USE DEF privy, handler, Goto, Answer, Send, Started, Awaiting, TypeOK
  <1>1. CASE CacheHit(r) \/ CacheMiss(r) \/ CacheStore(r)
    BY <1>1 DEF CacheHit, CacheMiss, CacheStore
  <1>2. CASE UserHasWallet(r) \/ UserLacksWallet(r) \/ WalletCreated(r) \/ WalletNotDelegated(r)
    BY <1>2 DEF UserHasWallet, UserLacksWallet, WalletCreated, WalletNotDelegated
  <1>3. CASE AnswerUser(r) \/ NoUsableWallet(r) \/ SendSign(r) \/ PrepFails(r) \/ Signed(r)
    BY <1>3 DEF AnswerUser, NoUsableWallet, SendSign, PrepFails, Signed
  <1>4. CASE PrivyRefused(r) \/ CallFails(r)
    BY <1>4 DEF PrivyRefused, CallFails
  <1> QED
    BY <1>1, <1>2, <1>3, <1>4 DEF Working

(***************************************************************************)
(* A handler acts for a user its request could speak for.                  *)
(***************************************************************************)
\* Only Authenticate settles a user, and time only moves forward.
LEMMA EntitledStep == TypeOK /\ Placed /\ Entitled /\ [Next]_vars => Entitled'
  <1> SUFFICES ASSUME TypeOK, Placed, Entitled, [Next]_vars PROVE Entitled'
    OBVIOUS
  <1> USE DEF privy, handler
  <1>1. ASSUME NEW r \in Requests, NEW i \in Inputs, Receive(r, i) PROVE Entitled'
    BY <1>1, NamesAssumption DEF Receive, Goto, Answer, TypeOK, Placed, Entitled
  <1>2. ASSUME NEW r \in Requests, NEW u \in Users, Authenticate(r, u) PROVE Entitled'
    <2>1. clock \in 0 .. clock
      BY DEF TypeOK
    <2> QED
      BY <1>2, <2>1 DEF Authenticate, Goto, TypeOK, Entitled
  <1>3. ASSUME NEW r \in Requests, Unauthorized(r) PROVE Entitled'
    BY <1>3 DEF Unauthorized, Goto, Answer, TypeOK, Entitled
  <1>4. ASSUME NEW r \in Requests, Working(r) PROVE Entitled'
    BY <1>4, WorkingFrame DEF TypeOK, Entitled, Started, Awaiting
  <1>5. ASSUME NEW r \in Requests, PrivyStep(r) PROVE Entitled'
    BY <1>5 DEF PrivyStep, ServeGetUser, ServeCreateWallet, ServeSign, Refuse, Respond, Entitled
  <1>6. ASSUME NEW u \in Users, NEW n \in DOMAIN accounts[u], ChangeDelegation(u, n)
        PROVE Entitled'
    BY <1>6 DEF ChangeDelegation, Entitled
  <1>7. CASE Tick
    <2>1. 0 .. clock \subseteq 0 .. clock'
      BY <1>7 DEF Tick, TypeOK
    <2> QED
      BY <1>7, <2>1 DEF Tick, Entitled
  <1>8. CASE UNCHANGED vars
    BY <1>8 DEF vars, Entitled
  <1> QED
    BY <1>1, <1>2, <1>3, <1>4, <1>5, <1>6, <1>7, <1>8 DEF Next, HandlerStep, Working

(***************************************************************************)
(* Wallets stay with their users.                                          *)
(***************************************************************************)
\* What is empty holds no wallet.
LEMMA NoIds == Ids(<<>>) = {} /\ Ids(NoUser.linked) = {} /\ Ids(NoReply.linked) = {}
  BY DEF Ids, NoUser, NoReply

\* At the start only Privy holds wallets, as InitialAccounts distributes them.
LEMMA HeldInit == Init => Held
  <1> SUFFICES ASSUME Init PROVE Held
    OBVIOUS
  <1>1. WellOwned(accounts, nextId)
    BY SignerAssumption DEF Init
  <1>2. \A u \in Users : Ids(cache[u].value.linked) = {}
    BY NoIds DEF Init, NoEntry
  <1> QED
    BY <1>1, <1>2, NamesAssumption DEF Init, Held

\* A new wallet adds the next id to the wallets of one user.
LEMMA CreateIds ==
    ASSUME TypeOK, Placed, NEW r \in Requests, NEW d \in BOOLEAN, ServeCreateWallet(r, d)
    PROVE  /\ who[r] \in Users
           /\ Ids(accounts'[who[r]]) = Ids(accounts[who[r]]) \union {nextId}
           /\ \A u \in Users \ {who[r]} : accounts'[u] = accounts[u]
           /\ reply' = [reply EXCEPT ![r] = [status |-> 200, linked |-> accounts'[who[r]]]]
  <1> DEFINE u0 == who[r]
             wallet == [id |-> nextId, delegated |-> d, chain |-> "ethereum"]
             linked == Append(accounts[u0], wallet)
  <1>1. u0 \in Users
    BY DEF ServeCreateWallet, Placed
  <1>2. accounts[u0] \in Seq(Account) /\ wallet \in Account
    BY <1>1 DEF TypeOK, Account
  <1>3. wallet.id = nextId /\ nextId \in Nat \ {NoId}
    BY DEF TypeOK, NoId
  <1>4. Ids(linked) = Ids(accounts[u0]) \union {nextId}
    <2>1. Ids(linked) = Ids(accounts[u0]) \union ({wallet.id} \ {NoId})
      BY <1>2, IdsOfAppend
    <2> QED
      BY <2>1, <1>3
  <1>5. /\ accounts' = [accounts EXCEPT ![u0] = linked]
        /\ reply' = [reply EXCEPT ![r] = [status |-> 200, linked |-> linked]]
    BY DEF ServeCreateWallet, Respond
  <1> HIDE DEF wallet, linked
  <1>6. /\ accounts'[u0] = linked
        /\ \A u \in Users \ {u0} : accounts'[u] = accounts[u]
    BY <1>1, <1>5 DEF TypeOK
  <1> QED
    BY <1>1, <1>4, <1>5, <1>6

\* Delegating or revoking a wallet leaves its id where it is.
LEMMA ChangeIds ==
    ASSUME TypeOK, NEW u \in Users, NEW n \in DOMAIN accounts[u], ChangeDelegation(u, n)
    PROVE  \A v \in Users : Ids(accounts'[v]) = Ids(accounts[v])
  <1>1. accounts[u] \in Seq(Account) /\ accounts[u][n] \in Account
    BY DEF TypeOK
  <1>2. accounts' = [accounts EXCEPT ![u] = [accounts[u] EXCEPT ![n] =
                        [accounts[u][n] EXCEPT !.delegated = ~@]]]
    BY DEF ChangeDelegation
  <1>3. /\ DOMAIN accounts'[u] = DOMAIN accounts[u]
        /\ \A m \in DOMAIN accounts[u] : accounts'[u][m].id = accounts[u][m].id
    BY <1>1, <1>2 DEF TypeOK, Account
  <1>4. Ids(accounts'[u]) = Ids(accounts[u])
    BY <1>3 DEF Ids
  <1>5. \A v \in Users \ {u} : accounts'[v] = accounts[v]
    BY <1>2 DEF TypeOK
  <1> QED
    BY <1>4, <1>5

\* A new wallet goes to one user, with an id nobody has.
LEMMA HeldCreate ==
    ASSUME TypeOK, Placed, Held, NEW r \in Requests, NEW d \in BOOLEAN,
           ServeCreateWallet(r, d)
    PROVE  Held'
  <1> DEFINE u0 == who[r]
  <1>1. /\ u0 \in Users
        /\ Ids(accounts'[u0]) = Ids(accounts[u0]) \union {nextId}
        /\ \A u \in Users \ {u0} : accounts'[u] = accounts[u]
        /\ reply' = [reply EXCEPT ![r] = [status |-> 200, linked |-> accounts'[u0]]]
    BY CreateIds
  <1>2. nextId \in Nat \ {NoId}
    BY DEF TypeOK, NoId
  <1>3. /\ nextId' = nextId + 1
        /\ call' = [call EXCEPT ![r] = NoCall]
        /\ UNCHANGED <<cache, who, record>>
    BY DEF ServeCreateWallet, Respond, handler
  <1> HIDE DEF u0
  <1>4. /\ Ids(accounts'[u0]) = Ids(accounts[u0]) \union {nextId}
        /\ \A u \in Users \ {u0} : Ids(accounts'[u]) = Ids(accounts[u])
    BY <1>1
  <1>5. \A u \in Users : Ids(accounts[u]) \subseteq Ids(accounts'[u])
    BY <1>4
  <1>6. WellOwned(accounts', nextId')
    <2>1. \A u \in Users : \A w \in Ids(accounts[u]) : w \in Nat /\ w < nextId
      <3> TAKE u \in Users
      <3> TAKE w \in Ids(accounts[u])
      <3>1. w < nextId
        BY DEF Held, WellOwned
      <3>2. accounts[u] \in Seq(Account)
        BY DEF TypeOK
      <3>3. \A n \in DOMAIN accounts[u] : accounts[u][n].id \in Nat
        <4>1. \A n \in DOMAIN accounts[u] : accounts[u][n] \in Account
          BY <3>2
        <4> QED
          BY <4>1 DEF Account
      <3> QED
        BY <3>1, <3>3 DEF Ids
    <2>2. \A u \in Users : \A w \in Ids(accounts'[u]) : w < nextId'
      BY <1>2, <1>3, <1>4, <2>1
    <2>3. \A u, v \in Users : u # v => Ids(accounts[u]) \intersect Ids(accounts[v]) = {}
      BY DEF Held, WellOwned
    <2>4. \A u \in Users : nextId \notin Ids(accounts[u])
      <3>1. ~(nextId < nextId)
        BY <1>2
      <3> QED
        BY <2>1, <3>1
    <2>5. \A u, v \in Users : u # v => Ids(accounts'[u]) \intersect Ids(accounts'[v]) = {}
      BY <1>4, <2>3, <2>4
    <2> QED
      BY <2>2, <2>5 DEF WellOwned
  <1>7. Ids(reply'[r].linked) = Ids(accounts'[u0])
    BY <1>1 DEF TypeOK
  <1>8. \A q \in Requests \ {r} : reply'[q] = reply[q] /\ call'[q] = call[q]
    BY <1>1, <1>3 DEF TypeOK
  <1>9. call'[r].op = "none"
    BY <1>3 DEF TypeOK, NoCall
  <1>10. \A u \in Users : Ids(cache'[u].value.linked) \subseteq Ids(accounts'[u])
    BY <1>3, <1>5 DEF Held
  <1>11. ASSUME NEW q \in Requests, who'[q] \in Users
         PROVE  /\ Ids(record'[q].linked) \subseteq Ids(accounts'[who'[q]])
                /\ Ids(reply'[q].linked) \subseteq Ids(accounts'[who'[q]])
                /\ call'[q].op = "sign" => call'[q].wallet \in Ids(accounts'[who'[q]])
    <2>1. /\ Ids(record[q].linked) \subseteq Ids(accounts[who[q]])
          /\ Ids(reply[q].linked) \subseteq Ids(accounts[who[q]])
          /\ call[q].op = "sign" => call[q].wallet \in Ids(accounts[who[q]])
      BY <1>3, <1>11 DEF Held
    <2>2. CASE q = r
      BY <1>3, <1>5, <1>7, <1>9, <1>11, <2>1, <2>2 DEF u0
    <2>3. CASE q # r
      BY <1>3, <1>5, <1>8, <1>11, <2>1, <2>3
    <2> QED
      BY <2>2, <2>3
  <1>12. \A q \in Requests : who'[q] = Empty => record'[q] = NoUser /\ reply'[q] = NoReply
    BY <1>1, <1>3, <1>8, NamesAssumption DEF Held, u0
  <1> QED
    BY <1>6, <1>10, <1>11, <1>12 DEF Held

\* So it changes nothing about who holds what.
LEMMA HeldChange ==
    ASSUME TypeOK, Held, NEW u \in Users, NEW n \in DOMAIN accounts[u], ChangeDelegation(u, n)
    PROVE  Held'
  <1>1. \A v \in Users : Ids(accounts'[v]) = Ids(accounts[v])
    BY ChangeIds
  <1>2. UNCHANGED <<nextId, cache, who, record, reply, call>>
    BY DEF ChangeDelegation, handler
  <1>3. WellOwned(accounts', nextId')
    BY <1>1, <1>2 DEF Held, WellOwned
  <1> QED
    BY <1>1, <1>2, <1>3 DEF Held

\* A handler that works takes wallets only from its user's entry in the cache,
\* its own record and the replies to its own calls.
LEMMA HeldWorking ==
    ASSUME TypeOK, Placed, Held, NEW r \in Requests, Working(r)
    PROVE  Held'
  <1>1. /\ UNCHANGED <<accounts, nextId, who>>
        /\ who[r] \in Users
    BY WorkingFrame DEF Placed
  <1>2. \A q \in Requests \ {r} :
            record'[q] = record[q] /\ call'[q] = call[q] /\ reply'[q] = reply[q]
    BY WorkingFrame
  <1>3. SUFFICES
          /\ \A u \in Users : Ids(cache'[u].value.linked) \subseteq Ids(accounts[u])
          /\ Ids(record'[r].linked) \subseteq Ids(accounts[who[r]])
          /\ Ids(reply'[r].linked) \subseteq Ids(accounts[who[r]])
          /\ call'[r].op = "sign" => call'[r].wallet \in Ids(accounts[who[r]])
    <2>1. \A q \in Requests : who[q] = Empty => q # r
      BY <1>1, NamesAssumption
    <2> QED
      BY <1>1, <1>2, <2>1 DEF Held
  <1>4. /\ record[r] \in PrivyUser /\ record[r].linked \in Seq(Account)
        /\ reply[r].linked \in Seq(Account)
        /\ Ids(record[r].linked) \subseteq Ids(accounts[who[r]])
        /\ Ids(reply[r].linked) \subseteq Ids(accounts[who[r]])
    BY <1>1 DEF TypeOK, PrivyUser, Reply, Held
  <1>5. /\ \A u \in Users : Ids(cache[u].value.linked) \subseteq Ids(accounts[u])
        /\ call[r].op = "sign" => call[r].wallet \in Ids(accounts[who[r]])
    BY <1>1 DEF Held
  <1>6. CASE CacheHit(r)
    <2>1. /\ UNCHANGED <<call, reply>>
          /\ record'[r] = cache[who[r]].value
          /\ cache' = Touch(cache, who[r], clock)
          /\ Cached(cache, who[r])
      BY <1>6 DEF CacheHit, Fresh, TypeOK
    <2>2. \A u \in Users : cache'[u].value = cache[u].value
      <3>1. cache \in [Users -> Entry(PrivyUser)] /\ clock \in Nat
        BY DEF TypeOK
      <3> QED
        BY <1>1, <2>1, <3>1, TouchType
    <2> QED
      BY <1>1, <1>4, <1>5, <2>1, <2>2
  <1>7. CASE CacheMiss(r)
    <2>1. UNCHANGED <<cache, record>> /\ reply'[r] = NoReply /\ call'[r].op = "getUser"
      BY <1>7 DEF CacheMiss, Send, handler, TypeOK
    <2> QED
      BY <1>4, <1>5, <2>1, NoIds
  <1>8. CASE CacheStore(r)
    <2>1. /\ UNCHANGED <<record, call, reply>>
          /\ cache' = Put(cache, who[r], record[r], clock, NoUser)
      BY <1>8 DEF CacheStore
    <2>2. /\ cache'[who[r]].value = record[r]
          /\ \A u \in Users \ {who[r]} : cache'[u].value \in {cache[u].value, NoUser}
      <3>1. cache \in [Users -> Entry(PrivyUser)] /\ clock \in Nat
        BY DEF TypeOK
      <3> QED
        BY <1>1, <1>4, <2>1, <3>1, PutType
    <2>3. \A u \in Users : Ids(cache'[u].value.linked) \subseteq Ids(accounts[u])
      BY <1>4, <1>5, <2>2, NoIds
    <2> QED
      BY <1>4, <1>5, <2>1, <2>3
  <1>9. CASE UserHasWallet(r)
    <2>1. /\ UNCHANGED <<cache, call, reply>>
          /\ record'[r].linked = reply[r].linked
      BY <1>9 DEF UserHasWallet, TypeOK
    <2> QED
      BY <1>4, <1>5, <2>1
  <1>10. CASE UserLacksWallet(r)
    <2>1. /\ UNCHANGED cache /\ reply'[r] = NoReply /\ call'[r].op = "createWallet"
          /\ record'[r].linked = reply[r].linked
      BY <1>10 DEF UserLacksWallet, Send, TypeOK
    <2> QED
      BY <1>4, <1>5, <2>1, NoIds
  <1>11. CASE WalletCreated(r)
    <2> DEFINE a == GetUsersEthDelegatedWallet(reply[r].linked)
               linked == Append(record[r].linked, a)
    <2>1. /\ UNCHANGED <<cache, call, reply>>
          /\ HasDelegated(reply[r].linked)
          /\ record'[r] = [record[r] EXCEPT !.linked = linked]
      BY <1>11 DEF WalletCreated, TypeOK
    <2>2. a \in Account /\ {a.id} \ {NoId} \subseteq Ids(reply[r].linked)
      BY <1>4, <2>1, SelectedIsLinked, SelectedId
    <2> HIDE DEF a
    <2>3. Ids(linked) \subseteq Ids(accounts[who[r]])
      BY <1>4, <2>2, IdsOfAppend
    <2>4. record'[r].linked = linked
      BY <1>4, <2>1 DEF PrivyUser
    <2> QED
      BY <1>4, <1>5, <2>1, <2>3, <2>4
  <1>12. CASE SendSign(r)
    <2> DEFINE w == GetUsersEthDelegatedWallet(record[r].linked).id
    <2>1. /\ UNCHANGED <<cache, record>>
          /\ call'[r].wallet = w /\ reply'[r] = NoReply
          /\ HasDelegated(record[r].linked) /\ w # NoId
      BY <1>12 DEF SendSign, Send, CanSign, handler, TypeOK
    <2>2. w \in Ids(record[r].linked)
      BY <1>4, <2>1, SelectedId
    <2> QED
      BY <1>4, <1>5, <2>1, <2>2, NoIds
  <1>13. CASE \/ WalletNotDelegated(r) \/ AnswerUser(r) \/ NoUsableWallet(r) \/ PrepFails(r)
              \/ Signed(r) \/ PrivyRefused(r) \/ CallFails(r)
    <2>1. UNCHANGED <<cache, record, call, reply>>
      BY <1>13 DEF WalletNotDelegated, AnswerUser, NoUsableWallet, PrepFails, Signed,
                   PrivyRefused, CallFails
    <2> QED
      BY <1>4, <1>5, <2>1
  <1> QED
    BY <1>6, <1>7, <1>8, <1>9, <1>10, <1>11, <1>12, <1>13 DEF Working

\* Privy answers with the accounts of the user the handler acts for.
LEMMA HeldPrivy ==
    ASSUME TypeOK, Placed, Held, NEW r \in Requests, PrivyStep(r)
    PROVE  Held'
  <1>1. ASSUME NEW linked \in Seq(Account), NEW status, Respond(r, status, linked),
               UNCHANGED <<accounts, nextId>>, who[r] \in Users,
               Ids(linked) \subseteq Ids(accounts[who[r]])
        PROVE  Held'
    <2>1. /\ UNCHANGED <<cache, who, record>>
          /\ reply'[r].linked = linked /\ call'[r].op = "none"
          /\ \A q \in Requests \ {r} : reply'[q] = reply[q] /\ call'[q] = call[q]
      BY <1>1 DEF Respond, handler, NoCall, TypeOK
    <2>2. \A q \in Requests : who[q] = Empty => q # r
      BY <1>1, NamesAssumption
    <2> QED
      BY <1>1, <2>1, <2>2 DEF Held
  <1>2. ASSUME ServeGetUser(r) PROVE Held'
    <2>1. who[r] \in Users
      BY <1>2 DEF ServeGetUser, Placed
    <2>2. accounts[who[r]] \in Seq(Account)
      BY <2>1 DEF TypeOK
    <2> QED
      BY <1>1, <1>2, <2>1, <2>2 DEF ServeGetUser, privy
  <1>3. ASSUME NEW d \in BOOLEAN, ServeCreateWallet(r, d) PROVE Held'
    BY <1>3, HeldCreate
  <1>4. <<>> \in Seq(Account) /\ Ids(<<>>) = {}
    BY NoIds
  <1>5. ASSUME ServeSign(r) PROVE Held'
    <2>1. Respond(r, 200, <<>>) /\ UNCHANGED <<accounts, nextId>> /\ who[r] \in Users
      BY <1>5 DEF ServeSign, Placed
    <2> QED
      BY <1>1, <1>4, <2>1
  <1>6. ASSUME NEW status \in PrivyErrors, Refuse(r, status) PROVE Held'
    <2>1. Respond(r, status, <<>>) /\ UNCHANGED <<accounts, nextId>> /\ who[r] \in Users
      BY <1>6 DEF Refuse, Placed, privy
    <2> QED
      BY <1>1, <1>4, <2>1
  <1> QED
    BY <1>2, <1>3, <1>5, <1>6 DEF PrivyStep

\* A handler that has just been given its user holds nothing yet.
LEMMA HeldStep == TypeOK /\ Placed /\ Held /\ [Next]_vars => Held'
  <1> SUFFICES ASSUME TypeOK, Placed, Held, [Next]_vars PROVE Held'
    OBVIOUS
  <1>1. ASSUME UNCHANGED <<accounts, nextId, cache, who, record, call, reply>> PROVE Held'
    BY <1>1 DEF Held
  <1>2. ASSUME NEW r \in Requests, NEW i \in Inputs, Receive(r, i) PROVE Held'
    BY <1>1, <1>2 DEF Receive, privy
  <1>3. ASSUME NEW r \in Requests, NEW u \in Users, Authenticate(r, u) PROVE Held'
    <2>1. who[r] = Empty /\ call[r].op = "none"
      BY <1>3, NamesAssumption DEF Authenticate, Placed
    <2>2. record[r] = NoUser /\ reply[r] = NoReply
      BY <2>1 DEF Held
    <2>3. /\ UNCHANGED <<accounts, nextId, cache, record, call, reply>>
          /\ who'[r] = u
          /\ \A q \in Requests \ {r} : who'[q] = who[q]
      BY <1>3 DEF Authenticate, privy, TypeOK
    <2>4. u # Empty
      BY NamesAssumption
    <2> QED
      BY <2>1, <2>2, <2>3, <2>4, NoIds DEF Held
  <1>4. ASSUME NEW r \in Requests, Unauthorized(r) PROVE Held'
    BY <1>1, <1>4 DEF Unauthorized, privy
  <1>5. ASSUME NEW u \in Users, NEW n \in DOMAIN accounts[u], ChangeDelegation(u, n)
        PROVE Held'
    BY <1>5, HeldChange
  <1>6. CASE Tick \/ UNCHANGED vars
    BY <1>1, <1>6 DEF Tick, vars, handler, privy
  <1> QED
    BY <1>2, <1>3, <1>4, <1>5, <1>6, HeldWorking, HeldPrivy DEF Next, HandlerStep, Working

(***************************************************************************)
(* Records carry the id of their user.                                     *)
(***************************************************************************)
\* The record of a cache entry, of a handler and of the user it acts for agree.
LEMMA NamedStep == TypeOK /\ Placed /\ Named /\ [Next]_vars => Named'
  <1> SUFFICES ASSUME TypeOK, Placed, Named, [Next]_vars PROVE Named'
    OBVIOUS
  <1> DEFINE Bearing == {"awaitCreate", "store", "gotUser", "awaitSign"}
  <1>1. ASSUME NEW r \in Requests, UNCHANGED <<cache, record>>,
               \A q \in Requests \ {r} : pc'[q] = pc[q] /\ who'[q] = who[q],
               pc'[r] \in Bearing => pc[r] \in Bearing /\ who'[r] = who[r]
        PROVE  Named'
    BY <1>1 DEF Named
  <1>2. ASSUME NEW r \in Requests, NEW i \in Inputs, Receive(r, i) PROVE Named'
    BY <1>1, <1>2 DEF Receive, Goto, Answer, TypeOK
  <1>3. ASSUME NEW r \in Requests, NEW u \in Users, Authenticate(r, u) PROVE Named'
    BY <1>1, <1>3 DEF Authenticate, Goto, TypeOK
  <1>4. ASSUME NEW r \in Requests, Unauthorized(r) PROVE Named'
    BY <1>1, <1>4 DEF Unauthorized, Goto, Answer, TypeOK
  <1>5. ASSUME NEW r \in Requests, Working(r) PROVE Named'
    <2>1. /\ UNCHANGED who /\ who[r] \in Users
          /\ \A q \in Requests \ {r} : pc'[q] = pc[q] /\ record'[q] = record[q]
      BY <1>5, WorkingFrame DEF Placed, TypeOK
    <2>2. cache \in [Users -> Entry(PrivyUser)] /\ clock \in Nat /\ record[r] \in PrivyUser
      BY DEF TypeOK
    <2>3. CASE CacheHit(r)
      <3>1. /\ record'[r] = cache[who[r]].value
            /\ cache' = Touch(cache, who[r], clock) /\ Cached(cache, who[r])
        BY <2>3 DEF CacheHit, Fresh, TypeOK
      <3>2. \A u \in Users : /\ cache'[u].value = cache[u].value
                             /\ Cached(cache', u) => Cached(cache, u)
        BY <2>1, <2>2, <3>1, TouchType
      <3> QED
        BY <2>1, <3>1, <3>2 DEF Named
    <2>4. CASE CacheStore(r)
      <3>1. /\ UNCHANGED record /\ record[r].id = who[r]
            /\ cache' = Put(cache, who[r], record[r], clock, NoUser)
        BY <2>4 DEF CacheStore, Named
      <3>2. /\ cache'[who[r]].value = record[r]
            /\ \A u \in Users \ {who[r]} : Cached(cache', u) =>
                  cache'[u].value = cache[u].value /\ Cached(cache, u)
        BY <2>1, <2>2, <3>1, PutType
      <3> QED
        BY <2>1, <3>1, <3>2 DEF Named
    <2>5. CASE UserHasWallet(r) \/ UserLacksWallet(r)
      <3>1. UNCHANGED cache /\ record'[r].id = who[r]
        BY <2>5 DEF UserHasWallet, UserLacksWallet, TypeOK
      <3> QED
        BY <2>1, <3>1 DEF Named
    <2>6. CASE WalletCreated(r)
      <3>1. UNCHANGED cache /\ record[r].id = who[r]
        BY <2>6 DEF WalletCreated, Named
      <3>2. record'[r].id = record[r].id
        BY <2>2, <2>6 DEF WalletCreated, TypeOK, PrivyUser
      <3> QED
        BY <2>1, <3>1, <3>2 DEF Named
    <2>7. CASE CacheMiss(r) \/ SendSign(r)
      BY <1>1, <2>1, <2>7 DEF CacheMiss, SendSign, Send, Goto, handler, TypeOK
    <2>8. CASE \/ WalletNotDelegated(r) \/ AnswerUser(r) \/ NoUsableWallet(r) \/ PrepFails(r)
               \/ Signed(r) \/ PrivyRefused(r) \/ CallFails(r)
      <3>1. UNCHANGED <<cache, record>> /\ pc'[r] = "done"
        BY <2>8 DEF WalletNotDelegated, AnswerUser, NoUsableWallet, PrepFails, Signed,
                    PrivyRefused, CallFails, Goto, Answer, TypeOK
      <3> QED
        BY <1>1, <2>1, <3>1
    <2> QED
      BY <1>5, <2>3, <2>4, <2>5, <2>6, <2>7, <2>8 DEF Working
  <1>6. ASSUME UNCHANGED <<cache, record, pc, who>> PROVE Named'
    BY <1>6 DEF Named
  <1>7. ASSUME NEW r \in Requests, PrivyStep(r) PROVE Named'
    BY <1>6, <1>7 DEF PrivyStep, ServeGetUser, ServeCreateWallet, ServeSign, Refuse, Respond,
                      handler
  <1>8. ASSUME NEW u \in Users, NEW n \in DOMAIN accounts[u], ChangeDelegation(u, n)
        PROVE Named'
    BY <1>6, <1>8 DEF ChangeDelegation, handler
  <1>9. CASE Tick \/ UNCHANGED vars
    BY <1>6, <1>9 DEF Tick, vars, handler
  <1> QED
    BY <1>2, <1>3, <1>4, <1>5, <1>7, <1>8, <1>9 DEF Next, HandlerStep, Working

(***************************************************************************)
(* Signatures.                                                             *)
(***************************************************************************)
\* No user ever loses a wallet.
LEMMA IdsGrow ==
    ASSUME TypeOK, Placed, [Next]_vars
    PROVE  \A u \in Users : Ids(accounts[u]) \subseteq Ids(accounts'[u])
  <1>1. ASSUME UNCHANGED accounts
        PROVE  \A u \in Users : Ids(accounts[u]) \subseteq Ids(accounts'[u])
    BY <1>1
  <1>2. ASSUME NEW r \in Requests, PrivyStep(r)
        PROVE  \A u \in Users : Ids(accounts[u]) \subseteq Ids(accounts'[u])
    <2>1. ASSUME NEW d \in BOOLEAN, ServeCreateWallet(r, d)
          PROVE  \A u \in Users : Ids(accounts[u]) \subseteq Ids(accounts'[u])
      BY <2>1, CreateIds
    <2>2. CASE UNCHANGED accounts
      BY <2>2
    <2> QED
      BY <1>2, <2>1, <2>2 DEF PrivyStep, ServeGetUser, ServeSign, Refuse, privy
  <1>3. ASSUME NEW r \in Requests, NEW i \in Inputs, Receive(r, i) PROVE UNCHANGED accounts
    BY <1>3 DEF Receive, privy
  <1>4. ASSUME NEW r \in Requests, NEW u \in Users, Authenticate(r, u) PROVE UNCHANGED accounts
    BY <1>4 DEF Authenticate, privy
  <1>5. ASSUME NEW r \in Requests, Unauthorized(r) PROVE UNCHANGED accounts
    BY <1>5 DEF Unauthorized, privy
  <1>6. ASSUME NEW r \in Requests, Working(r) PROVE UNCHANGED accounts
    BY <1>6, WorkingFrame
  <1>7. CASE Tick \/ UNCHANGED vars
    BY <1>7 DEF Tick, vars, privy
  <1>8. ASSUME NEW u \in Users, NEW n \in DOMAIN accounts[u], ChangeDelegation(u, n)
        PROVE  \A v \in Users : Ids(accounts[v]) \subseteq Ids(accounts'[v])
    BY <1>8, ChangeIds
  <1> QED
    BY <1>1, <1>2, <1>3, <1>4, <1>5, <1>6, <1>7, <1>8 DEF Next, HandlerStep, Working

\* The part of Signing that is about one request.
SigningOf(r) ==
    /\ call[r].op = "sign" =>
          /\ pc[r] \in {"awaitSign", "done"} /\ input[r].route # "get"
          /\ \A s \in signatures : s.request # r
    /\ pc[r] = "awaitSign" /\ call[r].op # "none" => call[r].op = "sign"
    /\ pc[r] = "awaitSign" => input[r].route # "get"
    /\ pc[r] = "awaitSign" /\ call[r].op # "none" => reply[r].status = 0
    /\ pc[r] = "awaitSign" /\ reply[r].status = 200 => \E s \in signatures : s.request = r

\* ... and the part about one signature.
SigningBy(s) ==
    /\ pc[s.request] \in {"awaitSign", "done"}
    /\ call[s.request].op = "none"
    /\ input[s.request].route # "get"
    /\ s.hash = input[s.request].hash
    /\ who[s.request] \in Users
    /\ s.wallet \in Ids(accounts[who[s.request]])

\* Signing is the conjunction of the two parts and of uniqueness.
LEMMA SigningParts ==
    Signing <=> /\ \A r \in Requests : SigningOf(r)
                /\ \A s \in signatures : SigningBy(s)
                /\ \A s, t \in signatures : s.request = t.request => s = t
  BY DEF Signing, SigningOf, SigningBy

\* A step of one handler, or of Privy for it, that makes no signature: it is
\* enough that the request itself stays in order.
LEMMA SigningFrame ==
    ASSUME TypeOK, Placed, Signing, [Next]_vars, NEW r \in Requests,
           UNCHANGED signatures,
           \A q \in Requests \ {r} : /\ pc'[q] = pc[q] /\ call'[q] = call[q]
                                     /\ reply'[q] = reply[q] /\ input'[q] = input[q]
                                     /\ who'[q] = who[q],
           SigningOf(r)',
           pc[r] \in {"awaitSign", "done"} =>
              /\ pc'[r] \in {"awaitSign", "done"}
              /\ call[r].op = "none" => call'[r].op = "none"
              /\ input'[r] = input[r] /\ who'[r] = who[r]
    PROVE  Signing'
  <1>1. \A u \in Users : Ids(accounts[u]) \subseteq Ids(accounts'[u])
    BY IdsGrow
  <1>2. \A q \in Requests : SigningOf(q)'
    BY SigningParts DEF SigningOf
  <1>3. ASSUME NEW s \in signatures PROVE SigningBy(s)'
    <2>1. SigningBy(s) /\ s.request \in Requests
      BY SigningParts DEF TypeOK, Signature
    <2> QED
      BY <1>1, <2>1 DEF SigningBy
  <1> QED
    BY <1>2, <1>3, SigningParts DEF Signing, SigningOf, SigningBy

\* A signing call goes out once, from a handler that has no other call to wait
\* for, and Privy serves it at most once.
LEMMA SigningStep == TypeOK /\ Placed /\ Held /\ Signing /\ [Next]_vars => Signing'
  <1> SUFFICES ASSUME TypeOK, Placed, Held, Signing, [Next]_vars PROVE Signing'
    OBVIOUS
  <1> USE DEF handler
  <1>1. ASSUME NEW r \in Requests, NEW i \in Inputs, Receive(r, i) PROVE Signing'
    <2>1. pc[r] = "idle" /\ pc'[r] \in {"auth", "done"}
      BY <1>1 DEF Receive, Goto, Answer, TypeOK
    <2>2. call[r].op # "sign" /\ call' = call /\ reply' = reply /\ UNCHANGED signatures
      BY <1>1, <2>1, SigningParts DEF Receive, SigningOf, privy
    <2>3. \A q \in Requests \ {r} : /\ pc'[q] = pc[q] /\ input'[q] = input[q] /\ who'[q] = who[q]
      BY <1>1 DEF Receive, Goto, Answer, TypeOK
    <2>4. SigningOf(r)'
      BY <2>1, <2>2 DEF SigningOf
    <2> QED
      BY <2>1, <2>2, <2>3, <2>4, SigningFrame
  <1>2. ASSUME NEW r \in Requests, NEW u \in Users, Authenticate(r, u) PROVE Signing'
    <2>1. /\ pc[r] = "auth" /\ pc'[r] = "lookup"
          /\ UNCHANGED <<call, reply, signatures, input>>
          /\ \A q \in Requests \ {r} : pc'[q] = pc[q] /\ who'[q] = who[q]
      BY <1>2 DEF Authenticate, Goto, TypeOK, privy
    <2>2. SigningOf(r)'
      BY <2>1, SigningParts DEF SigningOf
    <2> QED
      BY <2>1, <2>2, SigningFrame
  <1>3. ASSUME NEW r \in Requests, Unauthorized(r) PROVE Signing'
    <2>1. /\ pc[r] = "auth" /\ pc'[r] = "done"
          /\ UNCHANGED <<call, reply, signatures, input, who>>
          /\ \A q \in Requests \ {r} : pc'[q] = pc[q]
      BY <1>3 DEF Unauthorized, Answer, Goto, TypeOK, privy
    <2>2. SigningOf(r)'
      BY <2>1, SigningParts DEF SigningOf
    <2> QED
      BY <2>1, <2>2, SigningFrame
  <1>4. ASSUME NEW r \in Requests, Working(r) PROVE Signing'
    <2>1. /\ UNCHANGED <<signatures, input, who>>
          /\ \A q \in Requests \ {r} : /\ pc'[q] = pc[q] /\ call'[q] = call[q]
                                       /\ reply'[q] = reply[q]
          /\ pc[r] \in Started
      BY <1>4, WorkingFrame DEF TypeOK
    <2>2. SigningOf(r) /\ pc[r] # "done"
      BY <2>1, SigningParts DEF Started, Awaiting
    <2>3. ASSUME pc[r] # "awaitSign", pc'[r] # "awaitSign", call'[r].op # "sign" PROVE Signing'
      <3>1. SigningOf(r)'
        BY <2>3 DEF SigningOf
      <3> QED
        BY <2>1, <2>2, <2>3, <3>1, SigningFrame
    <2>4. ASSUME UNCHANGED <<call, reply>>, pc'[r] = "done" PROVE Signing'
      <3>1. SigningOf(r)'
        BY <2>1, <2>2, <2>4 DEF SigningOf
      <3> QED
        BY <2>1, <2>2, <2>4, <3>1, SigningFrame
    <2>5. CASE \/ CacheHit(r) \/ CacheMiss(r) \/ CacheStore(r) \/ UserHasWallet(r)
               \/ UserLacksWallet(r) \/ WalletCreated(r)
      <3>1. pc[r] \in {"lookup", "store", "awaitUser", "awaitCreate"}
        BY <2>5 DEF CacheHit, CacheMiss, CacheStore, UserHasWallet, UserLacksWallet, WalletCreated
      <3>2. call[r].op # "sign"
        BY <2>2, <3>1 DEF SigningOf
      <3>3. pc'[r] # "awaitSign" /\ call'[r].op # "sign"
        BY <2>5, <3>2 DEF CacheHit, CacheMiss, CacheStore, UserHasWallet, UserLacksWallet,
                          WalletCreated, Send, Goto, TypeOK
      <3> QED
        BY <2>3, <3>1, <3>3
    <2>6. CASE SendSign(r)
      <3>1. /\ pc[r] = "gotUser" /\ pc'[r] = "awaitSign" /\ input[r].route # "get"
            /\ call'[r].op = "sign" /\ reply'[r].status = 0
        BY <2>6 DEF SendSign, Send, Goto, NoReply, TypeOK
      <3>2. \A s \in signatures : s.request # r
        BY <3>1, SigningParts DEF SigningBy
      <3>3. SigningOf(r)'
        BY <2>1, <3>1, <3>2 DEF SigningOf
      <3> QED
        BY <2>1, <3>1, <3>3, SigningFrame
    <2>7. CASE \/ WalletNotDelegated(r) \/ AnswerUser(r) \/ NoUsableWallet(r) \/ PrepFails(r)
               \/ Signed(r) \/ PrivyRefused(r) \/ CallFails(r)
      BY <2>4, <2>7 DEF WalletNotDelegated, AnswerUser, NoUsableWallet, PrepFails, Signed,
                        PrivyRefused, CallFails, Goto, Answer, TypeOK
    <2> QED
      BY <1>4, <2>5, <2>6, <2>7 DEF Working
  <1>5. ASSUME NEW r \in Requests, NEW status, NEW linked, Respond(r, status, linked),
               UNCHANGED signatures, call[r].op # "none",
               call[r].op = "sign" => status # 200
        PROVE  Signing'
    <2>1. /\ UNCHANGED <<pc, input, who>> /\ call'[r].op = "none" /\ reply'[r].status = status
          /\ \A q \in Requests \ {r} : call'[q] = call[q] /\ reply'[q] = reply[q]
      BY <1>5 DEF Respond, NoCall, TypeOK
    <2>2. SigningOf(r)
      BY SigningParts
    <2>3. SigningOf(r)'
      BY <1>5, <2>1, <2>2 DEF SigningOf
    <2> QED
      BY <1>5, <2>1, <2>3, SigningFrame
  <1>6. ASSUME NEW r \in Requests, ServeSign(r) PROVE Signing'
    <2> DEFINE new == [request |-> r, wallet |-> call[r].wallet, hash |-> input[r].hash]
    <2>1. /\ signatures' = signatures \union {new} /\ call[r].op = "sign"
          /\ UNCHANGED <<pc, input, who, accounts>>
          /\ call'[r].op = "none" /\ reply'[r].status = 200
          /\ \A q \in Requests \ {r} : call'[q] = call[q] /\ reply'[q] = reply[q]
      BY <1>6 DEF ServeSign, Respond, NoCall, TypeOK
    <2>2. /\ pc[r] \in {"awaitSign", "done"} /\ input[r].route # "get"
          /\ \A s \in signatures : s.request # r
          /\ \A q \in Requests : SigningOf(q)
          /\ \A s \in signatures : SigningBy(s)
          /\ \A s, t \in signatures : s.request = t.request => s = t
      BY <2>1, SigningParts DEF SigningOf
    <2>3. who[r] \in Users /\ call[r].wallet \in Ids(accounts[who[r]])
      BY <2>1 DEF Placed, Held
    <2>4. new.request = r /\ new.wallet = call[r].wallet /\ new.hash = input[r].hash
      OBVIOUS
    <2> HIDE DEF new
    <2>5. ASSUME NEW q \in Requests PROVE SigningOf(q)'
      BY <2>1, <2>2, <2>4 DEF SigningOf
    <2>6. ASSUME NEW s, s = new PROVE SigningBy(s)'
      BY <2>1, <2>2, <2>3, <2>4, <2>6 DEF SigningBy
    <2>7. ASSUME NEW s \in signatures PROVE SigningBy(s)'
      <3>1. s.request \in Requests \ {r}
        BY <2>2 DEF TypeOK, Signature
      <3> QED
        BY <2>1, <2>2, <3>1 DEF SigningBy
    <2>8. \A s \in signatures' : SigningBy(s)'
      BY <2>1, <2>6, <2>7
    <2>9. \A s, t \in signatures' : s.request = t.request => s = t
      BY <2>1, <2>2, <2>4
    <2> QED
      BY <2>5, <2>8, <2>9 DEF Signing, SigningOf, SigningBy
  <1>7. ASSUME NEW r \in Requests, PrivyStep(r) PROVE Signing'
    <2>1. ASSUME ServeGetUser(r) PROVE Signing'
      BY <1>5, <2>1 DEF ServeGetUser, privy
    <2>2. ASSUME NEW d \in BOOLEAN, ServeCreateWallet(r, d) PROVE Signing'
      BY <1>5, <2>2 DEF ServeCreateWallet
    <2>3. ASSUME NEW status \in PrivyErrors, Refuse(r, status) PROVE Signing'
      BY <1>5, <2>3, SignerAssumption DEF Refuse, privy
    <2> QED
      BY <1>6, <1>7, <2>1, <2>2, <2>3 DEF PrivyStep
  <1>8. ASSUME UNCHANGED <<pc, input, who, call, reply, signatures>> PROVE Signing'
    <2>1. \A u \in Users : Ids(accounts[u]) \subseteq Ids(accounts'[u])
      BY IdsGrow
    <2> QED
      BY <1>8, <2>1 DEF Signing
  <1>9. ASSUME NEW u \in Users, NEW n \in DOMAIN accounts[u], ChangeDelegation(u, n)
        PROVE Signing'
    BY <1>8, <1>9 DEF ChangeDelegation
  <1>10. CASE Tick \/ UNCHANGED vars
    BY <1>8, <1>10 DEF Tick, vars, privy
  <1> QED
    BY <1>1, <1>2, <1>3, <1>4, <1>7, <1>9, <1>10 DEF Next, HandlerStep, Working

(***************************************************************************)
(* Answers.                                                                *)
(***************************************************************************)
\* An answer 200 is given only after the reply to the signing call, or with a
\* record that GetUser returned.
LEMMA ReportedStep ==
    TypeOK /\ Placed /\ Named /\ Signing /\ Reported /\ [Next]_vars => Reported'
  <1> SUFFICES ASSUME TypeOK, Placed, Named, Signing, Reported, [Next]_vars PROVE Reported'
    OBVIOUS
  <1> USE DEF handler
  <1> DEFINE Fine(r) ==
               /\ pc[r] # "done" => code[r] = 0
               /\ code[r] = 200 =>
                     /\ who[r] \in Users /\ record[r].id = who[r]
                     /\ input[r].route # "get" => \E s \in signatures : s.request = r
  <1>1. \A r \in Requests : Fine(r)
    BY DEF Reported
  <1>2. ASSUME NEW r \in Requests, signatures \subseteq signatures',
               \A q \in Requests \ {r} : /\ pc'[q] = pc[q] /\ code'[q] = code[q]
                                         /\ who'[q] = who[q] /\ record'[q] = record[q]
                                         /\ input'[q] = input[q],
               Fine(r)'
        PROVE  Reported'
    <2>1. \A q \in Requests \ {r} : Fine(q)'
      BY <1>1, <1>2
    <2> QED
      BY <1>2, <2>1 DEF Reported
  <1>3. ASSUME NEW r \in Requests, NEW i \in Inputs, Receive(r, i) PROVE Reported'
    <2>1. /\ Screen(i) \in {0, 400, 401} /\ pc[r] = "idle" /\ code[r] = 0
          /\ UNCHANGED <<who, record, signatures>>
      BY <1>1, <1>3 DEF Receive, Screen, privy
    <2>2. CASE Screen(i) = 0
      <3>1. /\ pc' = [pc EXCEPT ![r] = "auth"] /\ code' = code
            /\ input' = [input EXCEPT ![r] = i]
        BY <1>3, <2>2 DEF Receive, Goto
      <3>2. code'[r] = 0 /\ \A q \in Requests \ {r} : pc'[q] = pc[q] /\ input'[q] = input[q]
        BY <2>1, <3>1 DEF TypeOK
      <3> QED
        BY <1>2, <2>1, <3>1, <3>2
    <2>3. CASE Screen(i) # 0
      <3>1. /\ pc' = [pc EXCEPT ![r] = "done"] /\ code' = [code EXCEPT ![r] = Screen(i)]
            /\ input' = [input EXCEPT ![r] = i]
        BY <1>3, <2>3 DEF Receive, Goto, Answer
      <3> QED
        BY <1>2, <2>1, <3>1 DEF TypeOK
    <2> QED
      BY <2>2, <2>3
  <1>4. ASSUME NEW r \in Requests, NEW u \in Users, Authenticate(r, u) PROVE Reported'
    <2>1. /\ pc[r] = "auth" /\ UNCHANGED <<code, record, input, signatures>>
          /\ \A q \in Requests \ {r} : pc'[q] = pc[q] /\ who'[q] = who[q]
      BY <1>4 DEF Authenticate, Goto, TypeOK, privy
    <2>2. code[r] = 0
      BY <1>1, <2>1
    <2> QED
      BY <1>2, <2>1, <2>2
  <1>5. ASSUME NEW r \in Requests, Unauthorized(r) PROVE Reported'
    BY <1>1, <1>2, <1>5 DEF Unauthorized, Answer, Goto, TypeOK, privy
  <1>6. ASSUME NEW r \in Requests, Working(r) PROVE Reported'
    <2>1. /\ UNCHANGED <<signatures, input, who>>
          /\ \A q \in Requests \ {r} : pc'[q] = pc[q] /\ record'[q] = record[q]
          /\ who[r] \in Users /\ code[r] = 0
      <3>1. /\ UNCHANGED <<signatures, input, who>> /\ pc[r] \in Started
            /\ pc' = [pc EXCEPT ![r] = pc'[r]]
            /\ \A q \in Requests \ {r} : record'[q] = record[q]
        BY <1>6, WorkingFrame
      <3>2. \A q \in Requests \ {r} : pc'[q] = pc[q]
        BY <3>1 DEF TypeOK
      <3>3. who[r] \in Users /\ pc[r] # "done"
        BY <3>1 DEF Placed, Started, Awaiting
      <3> QED
        BY <1>1, <3>1, <3>2, <3>3
    <2>2. ASSUME UNCHANGED code PROVE Reported'
      BY <1>2, <2>1, <2>2
    <2>3. ASSUME NEW status \in Nat \ {200}, Answer(r, status) PROVE Reported'
      <3>1. /\ pc'[r] = "done" /\ code'[r] = status
            /\ \A q \in Requests \ {r} : code'[q] = code[q]
        BY <2>3 DEF Answer, Goto, TypeOK
      <3> QED
        BY <1>2, <2>1, <2>3, <3>1
    <2>4. ASSUME Answer(r, 200), UNCHANGED record, record[r].id = who[r],
                 input[r].route # "get" => \E s \in signatures : s.request = r
          PROVE  Reported'
      <3>1. /\ pc'[r] = "done"
            /\ \A q \in Requests \ {r} : code'[q] = code[q]
        BY <2>4 DEF Answer, Goto, TypeOK
      <3> QED
        BY <1>2, <2>1, <2>4, <3>1
    <2>5. CASE \/ CacheHit(r) \/ CacheMiss(r) \/ CacheStore(r) \/ UserHasWallet(r)
               \/ UserLacksWallet(r) \/ WalletCreated(r) \/ SendSign(r)
      BY <2>2, <2>5 DEF CacheHit, CacheMiss, CacheStore, UserHasWallet, UserLacksWallet,
                        WalletCreated, SendSign
    <2>6. CASE WalletNotDelegated(r) \/ NoUsableWallet(r) \/ PrepFails(r) \/ CallFails(r)
      BY <2>3, <2>6 DEF WalletNotDelegated, NoUsableWallet, PrepFails, CallFails
    <2>7. CASE PrivyRefused(r)
      BY <2>3, <2>7, SignerAssumption DEF PrivyRefused
    <2>8. CASE AnswerUser(r)
      BY <2>4, <2>8 DEF AnswerUser, Named
    <2>9. CASE Signed(r)
      BY <2>4, <2>9 DEF Signed, Named, Signing
    <2> QED
      BY <1>6, <2>5, <2>6, <2>7, <2>8, <2>9 DEF Working
  <1>7. ASSUME UNCHANGED <<pc, input, who, record, code>>, signatures \subseteq signatures'
        PROVE  Reported'
    BY <1>7 DEF Reported
  <1>8. ASSUME NEW r \in Requests, PrivyStep(r) PROVE Reported'
    BY <1>7, <1>8 DEF PrivyStep, ServeGetUser, ServeCreateWallet, ServeSign, Refuse, Respond,
                      privy
  <1>9. ASSUME NEW u \in Users, NEW n \in DOMAIN accounts[u], ChangeDelegation(u, n)
        PROVE Reported'
    BY <1>7, <1>9 DEF ChangeDelegation
  <1>10. CASE Tick \/ UNCHANGED vars
    BY <1>7, <1>10 DEF Tick, vars, privy
  <1> QED
    BY <1>3, <1>4, <1>5, <1>6, <1>8, <1>9, <1>10 DEF Next, HandlerStep, Working

(***************************************************************************)
(* Which wallet a user signs with.                                         *)
(***************************************************************************)
\* The list of a user who changes no delegation only gets longer.
LEMMA AccountsGrow ==
    ASSUME TypeOK, Placed, [Next]_vars
    PROVE  /\ changed \subseteq changed'
           /\ \A u \in Users \ changed' : IsPrefix(accounts[u], accounts'[u])
  <1>1. \A u \in Users : IsPrefix(accounts[u], accounts[u])
    BY PrefixOrder DEF TypeOK
  <1>2. CASE UNCHANGED <<changed, accounts>>
    BY <1>1, <1>2
  <1>3. ASSUME NEW r \in Requests, NEW i \in Inputs, Receive(r, i) PROVE UNCHANGED <<changed, accounts>>
    BY <1>3 DEF Receive, privy
  <1>4. ASSUME NEW r \in Requests, NEW u \in Users, Authenticate(r, u)
        PROVE  UNCHANGED <<changed, accounts>>
    BY <1>4 DEF Authenticate, privy
  <1>5. ASSUME NEW r \in Requests, Unauthorized(r) PROVE UNCHANGED <<changed, accounts>>
    BY <1>5 DEF Unauthorized, privy
  <1>6. ASSUME NEW r \in Requests, Working(r) PROVE UNCHANGED <<changed, accounts>>
    BY <1>6, WorkingFrame
  <1>7. CASE Tick \/ UNCHANGED vars
    BY <1>2, <1>7 DEF Tick, vars, privy
  <1>8. ASSUME NEW r \in Requests, NEW d \in BOOLEAN, ServeCreateWallet(r, d)
        PROVE  /\ changed \subseteq changed'
               /\ \A u \in Users \ changed' : IsPrefix(accounts[u], accounts'[u])
    <2> DEFINE wallet == [id |-> nextId, delegated |-> d, chain |-> "ethereum"]
    <2>1. who[r] \in Users /\ wallet \in Account
      BY <1>8 DEF ServeCreateWallet, Placed, TypeOK, Account
    <2>2. /\ accounts' = [accounts EXCEPT ![who[r]] = Append(accounts[who[r]], wallet)]
          /\ UNCHANGED changed
      BY <1>8 DEF ServeCreateWallet, Respond
    <2> HIDE DEF wallet
    <2>3. /\ accounts'[who[r]] = Append(accounts[who[r]], wallet)
          /\ \A u \in Users \ {who[r]} : accounts'[u] = accounts[u]
      BY <2>1, <2>2 DEF TypeOK
    <2>4. accounts[who[r]] \in Seq(Account)
      BY <2>1 DEF TypeOK
    <2>5. IsPrefix(accounts[who[r]], accounts'[who[r]])
      BY <2>1, <2>3, <2>4, PrefixOrder
    <2> QED
      BY <1>1, <2>2, <2>3, <2>5
  <1>9. ASSUME NEW r \in Requests, PrivyStep(r)
        PROVE  /\ changed \subseteq changed'
               /\ \A u \in Users \ changed' : IsPrefix(accounts[u], accounts'[u])
    <2>1. CASE ServeGetUser(r) \/ ServeSign(r) \/ \E status \in PrivyErrors : Refuse(r, status)
      BY <1>2, <2>1 DEF ServeGetUser, ServeSign, Refuse, Respond, privy
    <2> QED
      BY <1>8, <1>9, <2>1 DEF PrivyStep
  <1>10. ASSUME NEW u \in Users, NEW n \in DOMAIN accounts[u], ChangeDelegation(u, n)
         PROVE  /\ changed \subseteq changed'
                /\ \A v \in Users \ changed' : IsPrefix(accounts[v], accounts'[v])
    <2>1. changed' = changed \union {u} /\ \A v \in Users \ {u} : accounts'[v] = accounts[v]
      BY <1>10 DEF ChangeDelegation, TypeOK
    <2> QED
      BY <1>1, <2>1
  <1> QED
    BY <1>2, <1>3, <1>4, <1>5, <1>6, <1>7, <1>9, <1>10 DEF Next, HandlerStep, Working

\* So what a record or a signature was chosen by stays the choice.
LEMMA ChoiceKept ==
    ASSUME TypeOK, TypeOK', Placed, [Next]_vars, NEW u \in Users
    PROVE  /\ u \notin changed' /\ HasDelegated(accounts[u]) =>
                 /\ HasDelegated(accounts'[u])
                 /\ GetUsersEthDelegatedWallet(accounts'[u]) = GetUsersEthDelegatedWallet(accounts[u])
           /\ \A linked : Selects(u, linked) => Selects(u, linked)'
           /\ \A w : u \notin changed' /\ Chosen(u, w) => Chosen(u, w)'
           /\ u \notin changed' => u \notin changed
  <1>1. u \notin changed' => u \notin changed /\ IsPrefix(accounts[u], accounts'[u])
    BY AccountsGrow
  <1>2. accounts[u] \in Seq(Account) /\ accounts'[u] \in Seq(Account)
    BY DEF TypeOK
  <1>3. u \notin changed' /\ HasDelegated(accounts[u]) =>
            /\ HasDelegated(accounts'[u])
            /\ GetUsersEthDelegatedWallet(accounts'[u]) = GetUsersEthDelegatedWallet(accounts[u])
    BY <1>1, <1>2, PrefixSelects
  <1>4. \A linked : Selects(u, linked) => Selects(u, linked)'
    BY <1>1, <1>3 DEF Selects
  <1>5. \A w : u \notin changed' /\ Chosen(u, w) => Chosen(u, w)'
    BY <1>1, <1>3 DEF Chosen
  <1> QED
    BY <1>1, <1>3, <1>4, <1>5

\* The part of Selecting that is about one request.
SelectingOf(r) ==
    /\ pc[r] \in {"store", "gotUser"} => Selects(who[r], record[r].linked)
    /\ pc[r] = "awaitCreate" => ~HasDelegated(record[r].linked)
    /\ who[r] \in Users \ changed => IsPrefix(reply[r].linked, accounts[who[r]])

\* ... and the part about the cache.
SelectingCache == \A u \in Users : Cached(cache, u) => Selects(u, cache[u].value.linked)

\* Selecting is the conjunction of the two.
LEMMA SelectingParts == Selecting <=> SelectingCache /\ \A r \in Requests : SelectingOf(r)
  BY DEF Selecting, CacheSelectsSameWallet, SelectingCache, SelectingOf

\* A step that leaves a request where it is leaves its wallet.
LEMMA SelectingFrame ==
    ASSUME TypeOK, TypeOK', Placed, Selecting, [Next]_vars, NEW r \in Requests,
           pc'[r] = pc[r] \/ pc'[r] \notin {"awaitCreate", "store", "gotUser"},
           who'[r] = who[r], record'[r] = record[r], reply'[r] \in {reply[r], NoReply}
    PROVE  SelectingOf(r)'
  <1>1. SelectingOf(r)
    BY SelectingParts
  <1>2. ASSUME pc'[r] \in {"store", "gotUser"} PROVE Selects(who[r], record[r].linked)'
    <2>1. who[r] \in Users /\ Selects(who[r], record[r].linked)
      BY <1>1, <1>2 DEF SelectingOf, Placed, Started
    <2> QED
      BY <2>1, ChoiceKept DEF Selects
  <1>3. ASSUME who[r] \in Users \ changed' PROVE IsPrefix(reply'[r].linked, accounts'[who[r]])
    <2>1. /\ who[r] \notin changed
          /\ IsPrefix(accounts[who[r]], accounts'[who[r]])
      BY <1>3, AccountsGrow
    <2>2. IsPrefix(reply[r].linked, accounts[who[r]])
      BY <1>1, <1>3, <2>1 DEF SelectingOf
    <2>3. /\ accounts[who[r]] \in Seq(Account) /\ accounts'[who[r]] \in Seq(Account)
          /\ reply[r].linked \in Seq(Account)
      BY <1>3 DEF TypeOK, Reply
    <2>4. IsPrefix(reply[r].linked, accounts'[who[r]]) /\ IsPrefix(<<>>, accounts'[who[r]])
      BY <2>1, <2>2, <2>3, PrefixOrder
    <2> QED
      BY <2>4 DEF NoReply
  <1>4. pc'[r] = "awaitCreate" => ~HasDelegated(record'[r].linked)
    BY <1>1 DEF SelectingOf
  <1> QED
    BY <1>2, <1>3, <1>4 DEF SelectingOf, Selects

\* A step that puts nothing in the cache leaves its choices.
LEMMA SelectingKept ==
    ASSUME TypeOK, TypeOK', Placed, Selecting, [Next]_vars,
           \A u \in Users : Cached(cache', u) =>
                  Cached(cache, u) /\ cache'[u].value = cache[u].value
    PROVE  SelectingCache'
  <1> SUFFICES ASSUME NEW u \in Users, Cached(cache', u)
               PROVE  Selects(u, cache[u].value.linked)'
    BY DEF SelectingCache
  <1>1. Selects(u, cache[u].value.linked) /\ cache'[u].value = cache[u].value
    BY SelectingParts DEF SelectingCache
  <1> QED
    BY <1>1, ChoiceKept DEF Selects

\* A handler that works records a wallet that its user's list selects.
LEMMA SelectingWorking ==
    ASSUME TypeOK, TypeOK', Placed, Selecting, [Next]_vars, NEW r \in Requests, Working(r)
    PROVE  Selecting'
  <1>1. /\ UNCHANGED <<changed, accounts, who>> /\ who[r] \in Users /\ pc[r] # "done"
        /\ \A q \in Requests \ {r} : /\ pc'[q] = pc[q] /\ record'[q] = record[q]
                                     /\ reply'[q] = reply[q]
    <2>1. /\ UNCHANGED <<changed, accounts, who>> /\ pc[r] \in Started
          /\ pc' = [pc EXCEPT ![r] = pc'[r]]
          /\ \A q \in Requests \ {r} : record'[q] = record[q] /\ reply'[q] = reply[q]
      BY WorkingFrame
    <2>2. \A q \in Requests \ {r} : pc'[q] = pc[q]
      BY <2>1 DEF TypeOK
    <2> QED
      BY <2>1, <2>2 DEF Placed, Started, Awaiting
  <1>2. \A q \in Requests \ {r} : SelectingOf(q)'
    BY <1>1, SelectingFrame
  <1>3. /\ SelectingOf(r) /\ SelectingCache
        /\ reply[r].linked \in Seq(Account) /\ accounts[who[r]] \in Seq(Account)
        /\ record[r] \in PrivyUser /\ record[r].linked \in Seq(Account)
    BY <1>1, SelectingParts DEF TypeOK, Reply, PrivyUser
  <1>4. cache \in [Users -> Entry(PrivyUser)] /\ clock \in Nat
    BY DEF TypeOK
  <1>5. ASSUME UNCHANGED cache, SelectingOf(r)' PROVE Selecting'
    <2>1. SelectingCache'
      BY <1>5, SelectingKept
    <2> QED
      BY <1>2, <1>5, <2>1, SelectingParts DEF Selecting, CacheSelectsSameWallet,
         SelectingCache, SelectingOf
  <1>6. ASSUME HasDelegated(reply[r].linked)
        PROVE  Selects(who[r], reply[r].linked)
    BY <1>1, <1>3, <1>6, PrefixSelects DEF SelectingOf, Selects
  <1>7. ASSUME UNCHANGED reply, Selects(who[r], record'[r].linked), pc'[r] # "awaitCreate"
        PROVE  SelectingOf(r)'
    BY <1>1, <1>3, <1>7 DEF SelectingOf, Selects
  <1>8. CASE CacheHit(r)
    <2>1. /\ UNCHANGED reply /\ record'[r] = cache[who[r]].value /\ pc'[r] = "gotUser"
          /\ cache' = Touch(cache, who[r], clock) /\ Cached(cache, who[r])
      BY <1>8 DEF CacheHit, Fresh, Goto, TypeOK
    <2>2. \A u \in Users : /\ cache'[u].value = cache[u].value
                           /\ Cached(cache', u) => Cached(cache, u)
      BY <1>1, <1>4, <2>1, TouchType
    <2>3. SelectingCache'
      BY <2>2, SelectingKept
    <2>4. SelectingOf(r)'
      BY <1>1, <1>3, <1>7, <2>1 DEF SelectingCache
    <2> QED
      BY <1>2, <2>3, <2>4, SelectingParts DEF Selecting, CacheSelectsSameWallet,
         SelectingCache, SelectingOf
  <1>9. CASE CacheStore(r)
    <2>1. /\ UNCHANGED <<record, reply>> /\ pc[r] = "store" /\ pc'[r] = "gotUser"
          /\ cache' = Put(cache, who[r], record[r], clock, NoUser)
      BY <1>9 DEF CacheStore, Goto, TypeOK
    <2>2. /\ cache'[who[r]].value = record[r]
          /\ \A u \in Users \ {who[r]} : Cached(cache', u) =>
                cache'[u].value = cache[u].value /\ Cached(cache, u)
      BY <1>1, <1>3, <1>4, <2>1, PutType
    <2>3. Selects(who[r], record[r].linked)
      BY <1>3, <2>1 DEF SelectingOf
    <2>4. SelectingCache'
      BY <1>1, <1>3, <2>2, <2>3 DEF SelectingCache, Selects
    <2>5. SelectingOf(r)'
      BY <1>7, <2>1, <2>3
    <2> QED
      BY <1>2, <2>4, <2>5, SelectingParts DEF Selecting, CacheSelectsSameWallet,
         SelectingCache, SelectingOf
  <1>10. CASE UserHasWallet(r)
    <2>1. /\ UNCHANGED <<cache, reply>> /\ record'[r].linked = reply[r].linked
          /\ HasDelegated(reply[r].linked) /\ pc'[r] = "store"
      BY <1>10 DEF UserHasWallet, Goto, TypeOK
    <2> QED
      BY <1>5, <1>6, <1>7, <2>1
  <1>11. CASE UserLacksWallet(r)
    <2>1. /\ UNCHANGED cache /\ record'[r].linked = reply[r].linked /\ reply'[r] = NoReply
          /\ ~HasDelegated(reply[r].linked) /\ pc'[r] = "awaitCreate"
      BY <1>11 DEF UserLacksWallet, Send, Goto, TypeOK
    <2>2. IsPrefix(<<>>, accounts[who[r]])
      BY <1>3, PrefixOrder
    <2>3. SelectingOf(r)'
      BY <1>1, <2>1, <2>2 DEF SelectingOf, NoReply
    <2> QED
      BY <1>5, <2>1, <2>3
  <1>12. CASE WalletCreated(r)
    <2> DEFINE a == GetUsersEthDelegatedWallet(reply[r].linked)
    <2>1. /\ UNCHANGED <<cache, reply>> /\ HasDelegated(reply[r].linked)
          /\ pc[r] = "awaitCreate" /\ pc'[r] = "store"
          /\ record'[r] = [record[r] EXCEPT !.linked = Append(record[r].linked, a)]
      BY <1>12 DEF WalletCreated, Goto, TypeOK
    <2>2. a \in Account /\ isEthDelegated(a)
      BY <1>3, <2>1, SelectedIsLinked, SelectedIsDelegated
    <2>3. Selects(who[r], reply[r].linked)
      BY <1>6, <2>1
    <2>4. who[r] \notin changed => /\ HasDelegated(accounts[who[r]])
                                  /\ GetUsersEthDelegatedWallet(accounts[who[r]]) = a
      BY <2>3 DEF Selects
    <2> HIDE DEF a
    <2>5. ~HasDelegated(record[r].linked)
      BY <1>3, <2>1 DEF SelectingOf
    <2>6. record'[r].linked = Append(record[r].linked, a)
      BY <1>3, <2>1 DEF PrivyUser
    <2>7. HasDelegated(record'[r].linked) /\ GetUsersEthDelegatedWallet(record'[r].linked) = a
      BY <1>3, <2>2, <2>5, <2>6, AppendSelects
    <2>8. Selects(who[r], record'[r].linked)
      BY <2>4, <2>7 DEF Selects
    <2> QED
      BY <1>5, <1>7, <2>1, <2>8
  <1>13. CASE CacheMiss(r) \/ SendSign(r)
    <2>1. /\ UNCHANGED <<cache, record>> /\ reply'[r] = NoReply
          /\ pc'[r] \in {"awaitUser", "awaitSign"}
      BY <1>13 DEF CacheMiss, SendSign, Send, Goto, TypeOK, handler
    <2>2. SelectingOf(r)'
      BY <1>1, <2>1, SelectingFrame
    <2> QED
      BY <1>5, <2>1, <2>2
  <1>14. CASE \/ WalletNotDelegated(r) \/ AnswerUser(r) \/ NoUsableWallet(r) \/ PrepFails(r)
              \/ Signed(r) \/ PrivyRefused(r) \/ CallFails(r)
    <2>1. UNCHANGED <<cache, record, reply>> /\ pc'[r] = "done"
      BY <1>14 DEF WalletNotDelegated, AnswerUser, NoUsableWallet, PrepFails, Signed,
                   PrivyRefused, CallFails, Answer, Goto, TypeOK
    <2>2. SelectingOf(r)'
      BY <1>1, <2>1, SelectingFrame
    <2> QED
      BY <1>5, <2>1, <2>2
  <1> QED
    BY <1>8, <1>9, <1>10, <1>11, <1>12, <1>13, <1>14 DEF Working

\* Only Authenticate gives a request a user, and only Privy gives it a list.
LEMMA SelectingStep ==
    TypeOK /\ TypeOK' /\ Placed /\ Held /\ Selecting /\ [Next]_vars => Selecting'
  <1> SUFFICES ASSUME TypeOK, TypeOK', Placed, Held, Selecting, [Next]_vars PROVE Selecting'
    OBVIOUS
  <1> USE DEF handler
  <1>1. ASSUME NEW r \in Requests, UNCHANGED <<cache, record>>,
               \A q \in Requests \ {r} : /\ pc'[q] = pc[q] /\ who'[q] = who[q]
                                         /\ reply'[q] = reply[q],
               SelectingOf(r)'
        PROVE  Selecting'
    <2>1. \A q \in Requests \ {r} : SelectingOf(q)'
      BY <1>1, SelectingFrame
    <2>2. SelectingCache'
      BY <1>1, SelectingKept
    <2> QED
      BY <1>1, <2>1, <2>2 DEF Selecting, CacheSelectsSameWallet, SelectingCache, SelectingOf
  <1>2. ASSUME NEW r \in Requests, NEW i \in Inputs, Receive(r, i) PROVE Selecting'
    <2>1. /\ UNCHANGED <<cache, record, who, reply>> /\ pc'[r] \in {"auth", "done"}
          /\ \A q \in Requests \ {r} : pc'[q] = pc[q]
      BY <1>2 DEF Receive, Goto, Answer, TypeOK
    <2>2. SelectingOf(r)'
      BY <2>1, SelectingFrame
    <2> QED
      BY <1>1, <2>1, <2>2
  <1>3. ASSUME NEW r \in Requests, NEW u \in Users, Authenticate(r, u) PROVE Selecting'
    <2>1. /\ UNCHANGED <<cache, record, reply, accounts>> /\ pc[r] = "auth" /\ pc'[r] = "lookup"
          /\ who'[r] = u /\ \A q \in Requests \ {r} : pc'[q] = pc[q] /\ who'[q] = who[q]
      BY <1>3 DEF Authenticate, Goto, TypeOK, privy
    <2>2. reply[r] = NoReply
      BY <2>1 DEF Placed, Held
    <2>3. IsPrefix(<<>>, accounts[u])
      BY PrefixOrder DEF TypeOK
    <2>4. SelectingOf(r)'
      BY <2>1, <2>2, <2>3 DEF SelectingOf, NoReply
    <2> QED
      BY <1>1, <2>1, <2>4
  <1>4. ASSUME NEW r \in Requests, Unauthorized(r) PROVE Selecting'
    <2>1. /\ UNCHANGED <<cache, record, who, reply>> /\ pc'[r] = "done"
          /\ \A q \in Requests \ {r} : pc'[q] = pc[q]
      BY <1>4 DEF Unauthorized, Goto, Answer, TypeOK
    <2>2. SelectingOf(r)'
      BY <2>1, SelectingFrame
    <2> QED
      BY <1>1, <2>1, <2>2
  <1>5. ASSUME NEW r \in Requests, Working(r) PROVE Selecting'
    BY <1>5, SelectingWorking
  <1>6. ASSUME NEW r \in Requests, NEW status, NEW linked, Respond(r, status, linked),
               who[r] \in Users, IsPrefix(linked, accounts'[who[r]])
        PROVE  Selecting'
    <2>1. /\ UNCHANGED <<cache, record, who, pc>> /\ reply'[r].linked = linked
          /\ \A q \in Requests \ {r} : reply'[q] = reply[q]
      BY <1>6 DEF Respond, TypeOK
    <2>2. SelectingOf(r)
      BY SelectingParts
    <2>3. pc[r] \in {"store", "gotUser"} => Selects(who[r], record[r].linked)'
      BY <1>6, <2>1, <2>2, ChoiceKept DEF SelectingOf, Selects
    <2>4. SelectingOf(r)'
      BY <1>6, <2>1, <2>2, <2>3 DEF SelectingOf, Selects
    <2> QED
      BY <1>1, <2>1, <2>4
  <1>7. ASSUME NEW r \in Requests, PrivyStep(r) PROVE Selecting'
    <2>1. who[r] \in Users
      BY <1>7, SignerAssumption DEF PrivyStep, ServeGetUser, ServeCreateWallet, ServeSign,
                                    Refuse, Placed
    <2>2. /\ accounts[who[r]] \in Seq(Account) /\ accounts'[who[r]] \in Seq(Account)
      BY <2>1 DEF TypeOK
    <2>3. IsPrefix(accounts'[who[r]], accounts'[who[r]]) /\ IsPrefix(<<>>, accounts'[who[r]])
      BY <2>2, PrefixOrder
    <2>4. CASE ServeGetUser(r)
      BY <1>6, <2>1, <2>3, <2>4 DEF ServeGetUser, privy
    <2>5. ASSUME NEW d \in BOOLEAN, ServeCreateWallet(r, d) PROVE Selecting'
      <3>1. Respond(r, 200, accounts'[who[r]])
        <4>1. PICK linked : Respond(r, 200, linked) /\ accounts' = [accounts EXCEPT ![who[r]] = linked]
          BY <2>5 DEF ServeCreateWallet
        <4>2. accounts'[who[r]] = linked
          BY <2>1, <4>1 DEF TypeOK
        <4> QED
          BY <4>1, <4>2
      <3> QED
        BY <1>6, <2>1, <2>3, <3>1
    <2>6. CASE ServeSign(r)
      BY <1>6, <2>1, <2>3, <2>6 DEF ServeSign
    <2>7. CASE \E status \in PrivyErrors : Refuse(r, status)
      BY <1>6, <2>1, <2>3, <2>7 DEF Refuse
    <2> QED
      BY <1>7, <2>4, <2>5, <2>6, <2>7 DEF PrivyStep
  <1>8. ASSUME UNCHANGED <<cache, pc, who, record, reply>> PROVE Selecting'
    <2>1. \A q \in Requests : SelectingOf(q)'
      BY <1>8, SelectingFrame
    <2>2. SelectingCache'
      BY <1>8, SelectingKept
    <2> QED
      BY <2>1, <2>2 DEF Selecting, CacheSelectsSameWallet, SelectingCache, SelectingOf
  <1>9. ASSUME NEW u \in Users, NEW n \in DOMAIN accounts[u], ChangeDelegation(u, n)
        PROVE Selecting'
    BY <1>8, <1>9 DEF ChangeDelegation
  <1>10. CASE Tick \/ UNCHANGED vars
    BY <1>8, <1>10 DEF Tick, vars
  <1> QED
    BY <1>2, <1>3, <1>4, <1>5, <1>7, <1>9, <1>10 DEF Next, HandlerStep, Working

\* A choice that was made, by a call or by a signature, stays the choice.
LEMMA SettledKept ==
    ASSUME TypeOK, TypeOK', Placed, Signing, Settled, [Next]_vars,
           \A q \in Requests : call'[q].op = "sign" =>
              \/ call'[q] = call[q] /\ who'[q] = who[q]
              \/ who'[q] \notin changed' => Chosen(who[q], call[q].wallet)',
           \A s \in signatures' :
              \/ s \in signatures /\ who'[s.request] = who[s.request]
              \/ who'[s.request] \notin changed' => Chosen(who[s.request], s.wallet)'
    PROVE  Settled'
  <1>1. ASSUME NEW q \in Requests, call'[q].op = "sign", who'[q] \notin changed',
               call'[q] = call[q], who'[q] = who[q]
        PROVE  Chosen(who[q], call[q].wallet)'
    <2>1. who[q] \in Users /\ who[q] \notin changed
      BY <1>1, ChoiceKept DEF Placed
    <2>2. Chosen(who[q], call[q].wallet)
      BY <1>1, <2>1 DEF Settled
    <2> QED
      BY <1>1, <2>1, <2>2, ChoiceKept DEF Chosen
  <1>2. ASSUME NEW s \in signatures, who'[s.request] \notin changed',
               who'[s.request] = who[s.request]
        PROVE  Chosen(who[s.request], s.wallet)'
    <2>1. who[s.request] \in Users /\ who[s.request] \notin changed
      BY <1>2, ChoiceKept DEF Signing
    <2>2. Chosen(who[s.request], s.wallet)
      BY <2>1 DEF Settled
    <2> QED
      BY <1>2, <2>1, <2>2, ChoiceKept DEF Chosen
  <1>3. \A q \in Requests : call'[q].op = "sign" /\ who'[q] \notin changed' =>
            Chosen(who[q], call[q].wallet)'
    BY <1>1
  <1>4. \A s \in signatures' : who'[s.request] \notin changed' =>
            Chosen(who[s.request], s.wallet)'
    BY <1>2
  <1> QED
    BY <1>3, <1>4 DEF Settled, Chosen

\* A handler asks for a signature with the wallet of its record, and Privy signs
\* with the wallet it is asked for.
LEMMA SettledStep ==
    TypeOK /\ TypeOK' /\ Placed /\ Signing /\ Selecting /\ Settled /\ [Next]_vars => Settled'
  <1> SUFFICES ASSUME TypeOK, TypeOK', Placed, Signing, Selecting, Settled, [Next]_vars
               PROVE  Settled'
    OBVIOUS
  <1> USE DEF handler
  <1>1. ASSUME UNCHANGED <<who, signatures>>,
               \A q \in Requests : call'[q].op = "sign" => call'[q] = call[q]
        PROVE  Settled'
    BY <1>1, SettledKept
  <1>2. ASSUME NEW r \in Requests, NEW i \in Inputs, Receive(r, i) PROVE Settled'
    BY <1>1, <1>2 DEF Receive, privy
  <1>3. ASSUME NEW r \in Requests, NEW u \in Users, Authenticate(r, u) PROVE Settled'
    <2>1. /\ pc[r] = "auth" /\ UNCHANGED <<call, signatures>>
          /\ \A q \in Requests \ {r} : who'[q] = who[q]
      BY <1>3 DEF Authenticate, TypeOK, privy
    <2>2. who[r] \notin Users
      BY <2>1, NamesAssumption DEF Placed
    <2>3. call[r].op = "none"
      BY <2>2 DEF Placed
    <2>4. \A s \in signatures : s.request \in Requests \ {r}
      BY <2>2 DEF Signing, TypeOK, Signature
    <2> QED
      BY <2>1, <2>3, <2>4, SettledKept
  <1>4. ASSUME NEW r \in Requests, Unauthorized(r) PROVE Settled'
    BY <1>1, <1>4 DEF Unauthorized, privy
  <1>5. CASE Tick \/ UNCHANGED vars
    BY <1>1, <1>5 DEF Tick, vars, privy
  <1>6. ASSUME NEW u \in Users, NEW n \in DOMAIN accounts[u], ChangeDelegation(u, n)
        PROVE  Settled'
    BY <1>1, <1>6 DEF ChangeDelegation
  <1>7. ASSUME NEW r \in Requests, SendSign(r) PROVE Settled'
    <2> DEFINE w == GetUsersEthDelegatedWallet(record[r].linked).id
    <2>1. /\ pc[r] = "gotUser" /\ UNCHANGED <<who, signatures, changed, accounts>>
          /\ call' = [call EXCEPT ![r] = [op |-> "sign", wallet |-> w]]
      BY <1>7 DEF SendSign, Send, privy
    <2> HIDE DEF w
    <2>2. call'[r].wallet = w /\ \A q \in Requests \ {r} : call'[q] = call[q]
      BY <2>1 DEF TypeOK
    <2>3. Selects(who[r], record[r].linked)
      BY <2>1 DEF Selecting, CacheSelectsSameWallet
    <2>4. who[r] \notin changed => Chosen(who[r], w)
      BY <2>3 DEF Selects, Chosen, w
    <2>5. who'[r] \notin changed' => Chosen(who[r], call[r].wallet)'
      BY <2>1, <2>2, <2>4 DEF Chosen
    <2> QED
      BY <2>1, <2>2, <2>5, SettledKept
  <1>8. ASSUME NEW r \in Requests, Working(r), ~SendSign(r) PROVE Settled'
    <2>1. UNCHANGED <<who, signatures>>
      BY <1>8, WorkingFrame
    <2>2. call' = call \/ \E op \in {"getUser", "createWallet"} :
                              call' = [call EXCEPT ![r] = [op |-> op, wallet |-> NoId]]
      BY <1>8 DEF Working, CacheHit, CacheMiss, CacheStore, UserHasWallet, UserLacksWallet,
                  WalletCreated, WalletNotDelegated, AnswerUser, NoUsableWallet,
                  PrepFails, Signed, PrivyRefused, CallFails, Send
    <2>3. \A q \in Requests : call'[q].op = "sign" => call'[q] = call[q]
      BY <2>2 DEF TypeOK
    <2> QED
      BY <1>1, <2>1, <2>3
  <1>9. ASSUME NEW r \in Requests, PrivyStep(r), ~ServeSign(r) PROVE Settled'
    <2>1. UNCHANGED <<who, signatures>> /\ call' = [call EXCEPT ![r] = NoCall]
      BY <1>9 DEF PrivyStep, ServeGetUser, ServeCreateWallet, Refuse, Respond, privy
    <2>2. \A q \in Requests : call'[q].op = "sign" => call'[q] = call[q]
      BY <2>1 DEF NoCall, TypeOK
    <2> QED
      BY <1>1, <2>1, <2>2
  <1>10. ASSUME NEW r \in Requests, ServeSign(r) PROVE Settled'
    <2>1. /\ UNCHANGED <<who, changed, accounts>> /\ call[r].op = "sign"
          /\ call' = [call EXCEPT ![r] = NoCall]
          /\ signatures' = signatures \union
                {[request |-> r, wallet |-> call[r].wallet, hash |-> input[r].hash]}
      BY <1>10 DEF ServeSign, Respond
    <2>2. \A q \in Requests : call'[q].op = "sign" => call'[q] = call[q]
      BY <2>1 DEF NoCall, TypeOK
    <2>3. who[r] \notin changed => Chosen(who[r], call[r].wallet)
      BY <2>1 DEF Settled
    <2>4. ASSUME NEW w, who'[r] \notin changed', Chosen(who[r], w) PROVE Chosen(who[r], w)'
      BY <2>1, <2>4 DEF Chosen
    <2>5. \A s \in signatures' :
             \/ s \in signatures /\ who'[s.request] = who[s.request]
             \/ s.request = r /\ s.wallet = call[r].wallet
      BY <2>1
    <2>6. \A s \in signatures' :
             \/ s \in signatures /\ who'[s.request] = who[s.request]
             \/ who'[s.request] \notin changed' => Chosen(who[s.request], s.wallet)'
      BY <2>1, <2>3, <2>4, <2>5
    <2> QED
      BY <2>1, <2>2, <2>6, SettledKept
  <1> QED
    BY <1>2, <1>3, <1>4, <1>5, <1>6, <1>7, <1>8, <1>9, <1>10 DEF Next, HandlerStep, Working

\* At the start nothing is cached, recorded, asked for or signed.
LEMMA SelectingInit == Init => Selecting /\ Settled
  <1> SUFFICES ASSUME Init PROVE Selecting /\ Settled
    OBVIOUS
  <1>1. CacheSelectsSameWallet
    BY DEF Init, CacheSelectsSameWallet, Cached, NoEntry
  <1>2. \A r \in Requests : pc[r] # "awaitCreate" /\ who[r] \notin Users
    BY NamesAssumption DEF Init
  <1>3. Selecting
    BY <1>1, <1>2 DEF Selecting
  <1> QED
    BY <1>3 DEF Init, Settled, NoCall

(***************************************************************************)
(* The theorems.                                                           *)
(***************************************************************************)
\* The invariants hold at the start.
LEMMA ConsistentInit == Init => TypeOK /\ Consistent
  <1> SUFFICES ASSUME Init PROVE TypeOK /\ Consistent
    OBVIOUS
  <1>1. TypeOK /\ Placed /\ Held
    BY TypeInit, HeldInit
  <1>2. Entitled
    BY NamesAssumption DEF Init, Entitled
  <1>3. Named
    BY DEF Init, Named, Cached, NoEntry
  <1>4. Signing
    BY DEF Init, Signing, NoCall
  <1>5. Reported
    BY DEF Init, Reported
  <1>6. Selecting /\ Settled
    BY SelectingInit
  <1> QED
    BY <1>1, <1>2, <1>3, <1>4, <1>5, <1>6 DEF Consistent

\* Together they are kept by every step.
LEMMA ConsistentStep == TypeOK /\ Consistent /\ [Next]_vars => TypeOK' /\ Consistent'
  BY TypeStep, EntitledStep, HeldStep, NamedStep, SigningStep, ReportedStep,
     SelectingStep, SettledStep DEF Consistent

\* In every reachable state the state is well typed, and what each handler,
\* the cache and Privy hold agree (GetUser, executePrivySigningRequest).
THEOREM AlwaysConsistent == Spec => [](TypeOK /\ Consistent)
  <1>1. Init => TypeOK /\ Consistent
    BY ConsistentInit
  <1>2. TypeOK /\ Consistent /\ [Next]_vars => (TypeOK /\ Consistent)'
    BY ConsistentStep
  <1> QED
    BY <1>1, <1>2, PTL DEF Spec

\* Type correctness of every reachable state.
THEOREM AlwaysTypeOK == Spec => []TypeOK
  BY AlwaysConsistent, PTL

\* For any number of concurrent requests, any cache and any behaviour of Privy
\* and of the network, a signature is over the hash of a request that could
\* speak for the owner of the wallet that signed.
THEOREM AlwaysSignedForRequester == Spec => []SignedForRequester
  <1>1. TypeOK /\ Consistent => SignedForRequester
    <2> SUFFICES ASSUME TypeOK, Consistent, NEW s \in signatures
                 PROVE  /\ s.hash = input[s.request].hash /\ s.hash # Empty
                        /\ input[s.request].route # "get"
                        /\ \E u \in Users :
                              /\ s.wallet \in Ids(accounts[u])
                              /\ SpeaksFor(input[s.request], u, s.hash)
      BY DEF SignedForRequester
    <2>1. /\ s.hash = input[s.request].hash /\ input[s.request].route # "get"
          /\ who[s.request] \in Users /\ s.wallet \in Ids(accounts[who[s.request]])
      BY DEF Consistent, Signing
    <2>2. s.request \in Requests
      BY DEF TypeOK, Signature
    <2>3. /\ Screen(input[s.request]) = 0
          /\ \E t \in 0 .. clock : Authenticates(input[s.request], who[s.request], t)
      BY <2>1, <2>2 DEF Consistent, Entitled
    <2>4. s.hash # Empty
      BY <2>1, <2>3 DEF Screen, ValidateTxRequest
    <2>5. SpeaksFor(input[s.request], who[s.request], s.hash)
      <3>1. PICK t \in 0 .. clock : Authenticates(input[s.request], who[s.request], t)
        BY <2>3
      <3>2. input[s.request] \in Input
        BY <2>2 DEF TypeOK
      <3>3. CASE input[s.request].route = "axal"
        BY <2>1, <3>1, <3>3 DEF Authenticates, VerifyAxalSignature, SpeaksFor
      <3>4. CASE input[s.request].route # "axal"
        <4>1. /\ input[s.request].auth.kind = "jwt"
              /\ ValidateJWT(input[s.request].auth, t)
              /\ who[s.request] = input[s.request].auth.sub
          BY <3>1, <3>4 DEF Authenticates
        <4>2. input[s.request].auth \in PrivyClaims
          BY <3>2, <4>1 DEF Input, Credential, NoCredential, Mac
        <4>3. Environment \in {"prod", "staging"} => t <= input[s.request].auth.exp
          BY <4>1, <4>2 DEF ValidateJWT, validatePrivyClaims, PrivyClaims, TypeOK
        <4>4. input[s.request].route = "user"
          BY <2>1, <3>2, <3>4 DEF Input
        <4> QED
          BY <4>1, <4>3, <4>4 DEF ValidateJWT, validatePrivyClaims, SpeaksFor
      <3> QED
        BY <3>3, <3>4
    <2> QED
      BY <2>1, <2>4, <2>5
  <1> QED
    BY <1>1, AlwaysConsistent, PTL

\* A request is signed at most once, and 200 on a signing route means it was.
THEOREM AlwaysSignedOnceAndReported == Spec => []SignedOnceAndReported
  <1>1. TypeOK /\ Consistent => SignedOnceAndReported
    BY DEF Consistent, Signing, Reported, SignedOnceAndReported
  <1> QED
    BY <1>1, AlwaysConsistent, PTL

\* GET /api/v1/user answers with the record of the user who asked.
THEOREM AlwaysGetReturnsOwn == Spec => []GetReturnsOwn
  <1>1. TypeOK /\ Consistent => GetReturnsOwn
    <2> SUFFICES ASSUME TypeOK, Consistent, NEW r \in Requests, code[r] = 200
                 PROVE  /\ record[r].id = who[r]
                        /\ \E t \in 0 .. clock : Authenticates(input[r], record[r].id, t)
                        /\ Ids(record[r].linked) \subseteq Ids(accounts[who[r]])
      BY DEF GetReturnsOwn
    <2>1. who[r] \in Users /\ record[r].id = who[r]
      BY DEF Consistent, Reported
    <2> QED
      BY <2>1 DEF Consistent, Entitled, Held
  <1> QED
    BY <1>1, AlwaysConsistent, PTL

\* The wallet that a record selects, fresh or cached, is the one that Privy's
\* list selects: GetUser and the cache agree with Privy on it.
THEOREM AlwaysCacheSelectsSameWallet == Spec => []CacheSelectsSameWallet
  <1>1. Consistent => CacheSelectsSameWallet
    BY DEF Consistent, Selecting
  <1> QED
    BY <1>1, AlwaysConsistent, PTL

\* Whoever changes no delegation signs with one wallet for ever, whatever wallets
\* concurrent handlers create.
THEOREM AlwaysStableWallet == Spec => []StableWallet
  <1>1. TypeOK /\ Consistent => StableWallet
    <2> SUFFICES ASSUME TypeOK, Consistent, NEW s \in signatures, NEW t \in signatures,
                        NEW u \in Users \ changed,
                        {s.wallet, t.wallet} \subseteq Ids(accounts[u])
                 PROVE  s.wallet = t.wallet
      BY DEF StableWallet
    <2>1. ASSUME NEW x \in signatures, x.wallet \in Ids(accounts[u]) PROVE Chosen(u, x.wallet)
      <3>1. who[x.request] \in Users /\ x.wallet \in Ids(accounts[who[x.request]])
        BY DEF Consistent, Signing
      <3>2. who[x.request] = u
        BY <2>1, <3>1 DEF Consistent, Held, WellOwned
      <3> QED
        BY <3>2 DEF Consistent, Settled
    <2>2. Chosen(u, s.wallet) /\ Chosen(u, t.wallet)
      BY <2>1
    <2> QED
      BY <2>2 DEF Chosen
  <1> QED
    BY <1>1, AlwaysConsistent, PTL

(***************************************************************************)
(* Refinement: the enclave implements SigningService.                      *)
(***************************************************************************)
\* A wallet id is one of those Privy can give out.
LEMMA IdsInRange ==
    ASSUME TypeOK, Held
    PROVE  \A u \in Users : Ids(accounts[u]) \subseteq 1 .. MaxWallets
  <1> SUFFICES ASSUME NEW u \in Users, NEW w \in Ids(accounts[u]) PROVE w \in 1 .. MaxWallets
    OBVIOUS
  <1>1. w < nextId /\ nextId \in 1 .. MaxWallets + 1 /\ MaxWallets \in Nat
    BY SignerAssumption DEF Held, WellOwned, TypeOK
  <1>2. w \in Nat \ {NoId}
    <2>1. \A n \in DOMAIN accounts[u] : accounts[u][n] \in Account
      BY DEF TypeOK
    <2> QED
      BY <2>1 DEF Ids, Account
  <1> QED
    BY <1>1, <1>2 DEF NoId

\* Whatever accounts the users start with, the service can start with them.
LEMMA ServiceInit == Init => Service!Init
  <1> SUFFICES ASSUME Init PROVE Service!Init
    OBVIOUS
  <1>1. TypeOK /\ Held
    BY TypeInit, HeldInit
  <1>2. Holdings \in [Users -> SUBSET (1 .. MaxWallets)]
    BY <1>1, IdsInRange DEF Holdings
  <1>3. \A u, v \in Users : u # v => Holdings[u] \intersect Holdings[v] = {}
    BY <1>1 DEF Held, WellOwned, Holdings
  <1>4. Asked = [r \in Requests |-> Empty] /\ Outcome = [r \in Requests |-> "none"]
    BY DEF Init, Asked, Outcome
  <1> QED
    BY <1>2, <1>3, <1>4 DEF Init, Service!Init

\* A step that settles no user, makes no signature and moves no wallet is a
\* stutter, or the answer to a request.
LEMMA ServiceAnswer ==
    ASSUME TypeOK, Consistent, NEW r \in Requests,
           UNCHANGED <<who, accounts, signatures>>,
           input'[r] = input[r] \/ who[r] = Empty,
           pc[r] # "done",
           \A q \in Requests \ {r} : /\ pc'[q] = pc[q] /\ code'[q] = code[q]
                                     /\ input'[q] = input[q],
           pc'[r] = "done" /\ code'[r] = 200 =>
              /\ who[r] \in Users
              /\ input[r].route # "get" => \E s \in signatures : s.request = r
    PROVE  [Service!Next]_Service!vars
  <1>1. Asked' = Asked /\ Holdings' = Holdings
    BY DEF Asked, Holdings
  <1>2. Outcome[r] = "none"
    BY DEF Outcome
  <1>3. Outcome' = [Outcome EXCEPT ![r] = Outcome'[r]]
    <2>1. \A q \in Requests \ {r} : Outcome'[q] = Outcome[q]
      BY DEF Outcome
    <2>2. /\ Outcome = [q \in Requests |-> Outcome[q]]
          /\ Outcome' = [q \in Requests |-> Outcome'[q]]
      BY DEF Outcome
    <2> QED
      BY <2>1, <2>2
  <1>4. CASE pc'[r] # "done"
    <2>1. Outcome' = Outcome
      BY <1>2, <1>3, <1>4 DEF Outcome
    <2> QED
      BY <1>1, <2>1 DEF Service!vars
  <1>5. CASE pc'[r] = "done" /\ code'[r] # 200
    <2>1. Outcome'[r] = "failed"
      BY <1>5 DEF Outcome
    <2>2. Service!Fail(r)
      BY <1>1, <1>2, <1>3, <2>1 DEF Service!Fail
    <2> QED
      BY <2>2 DEF Service!Next
  <1>6. CASE pc'[r] = "done" /\ code'[r] = 200
    <2>1. Outcome'[r] = "ok"
      BY <1>6 DEF Outcome
    <2>2. who[r] # Empty
      BY <1>6, NamesAssumption
    <2>3. Asked[r] # Foreign => input[r].route # "get"
      BY <2>2 DEF Asked
    <2>4. Asked[r] # Foreign => Service!SignedFor(r) # {}
      BY <1>6, <2>3 DEF Service!SignedFor
    <2>5. Service!Succeed(r)
      BY <1>1, <1>2, <1>3, <2>1, <2>2, <2>4 DEF Service!Succeed
    <2> QED
      BY <2>5 DEF Service!Next
  <1> QED
    BY <1>4, <1>5, <1>6

\* What Privy does for a request is a stutter, a wallet or a signature.
LEMMA ServicePrivy ==
    ASSUME TypeOK, Consistent, TypeOK', NEW r \in Requests, PrivyStep(r)
    PROVE  [Service!Next]_Service!vars
  <1>1. UNCHANGED <<who, pc, code, input>>
    BY DEF PrivyStep, ServeGetUser, ServeCreateWallet, ServeSign, Refuse, Respond, handler
  <1>2. Asked' = Asked /\ Outcome' = Outcome
    BY <1>1 DEF Asked, Outcome
  <1>3. Placed /\ Held /\ Signing
    BY DEF Consistent
  <1>4. ASSUME UNCHANGED <<accounts, signatures>> PROVE [Service!Next]_Service!vars
    BY <1>1, <1>2, <1>4 DEF Service!vars, Holdings
  <1>5. CASE ServeGetUser(r) \/ \E status \in PrivyErrors : Refuse(r, status)
    BY <1>4, <1>5 DEF ServeGetUser, Refuse, privy
  <1>6. ASSUME NEW d \in BOOLEAN, ServeCreateWallet(r, d) PROVE Service!Next
    <2>1. /\ who[r] \in Users
          /\ Ids(accounts'[who[r]]) = Ids(accounts[who[r]]) \union {nextId}
          /\ \A u \in Users \ {who[r]} : accounts'[u] = accounts[u]
      BY <1>3, <1>6, CreateIds
    <2>2. nextId \in 1 .. MaxWallets /\ UNCHANGED signatures
      BY <1>6, SignerAssumption DEF ServeCreateWallet, TypeOK
    <2>3. Holdings' = [Holdings EXCEPT ![who[r]] = @ \union {nextId}]
      BY <2>1 DEF Holdings
    <2>4. ASSUME NEW u \in Users, nextId \in Ids(accounts[u]) PROVE FALSE
      <3>1. nextId < nextId
        BY <1>3, <2>4 DEF Held, WellOwned
      <3> QED
        BY <2>2, <3>1
    <2>5. \A u \in Users : nextId \notin Holdings[u]
      BY <2>4 DEF Holdings
    <2>6. who[r] # Empty
      BY <2>1, NamesAssumption
    <2>7. Service!Provision(r, nextId)
      BY <1>1, <1>2, <2>2, <2>3, <2>5, <2>6 DEF Service!Provision
    <2> QED
      BY <2>2, <2>7 DEF Service!Next
  <1>7. CASE ServeSign(r)
    <2> DEFINE w == call[r].wallet
    <2>1. /\ call[r].op = "sign" /\ who[r] \in Users
          /\ signatures' = signatures \union
                {[request |-> r, wallet |-> w, hash |-> input[r].hash]}
          /\ UNCHANGED accounts
      BY <1>3, <1>7 DEF ServeSign, Placed
    <2>2. /\ w \in Ids(accounts[who[r]])
          /\ input[r].route # "get"
          /\ \A s \in signatures : s.request # r
      BY <1>3, <2>1 DEF Held, Signing
    <2>3. w \in 1 .. MaxWallets
      BY <1>3, <2>1, <2>2, IdsInRange
    <2>4. who[r] # Empty
      BY <2>1, NamesAssumption
    <2>5. Asked[r] = input[r].hash
      BY <2>2, <2>4 DEF Asked
    <2>6. input[r].hash # Foreign
      BY NamesAssumption DEF TypeOK, Input, Empty, Foreign
    <2>7. Holdings' = Holdings /\ w \in Holdings[who[r]]
      BY <2>1, <2>2 DEF Holdings
    <2> HIDE DEF w
    <2>8. Service!Sign(r, w)
      BY <1>1, <1>2, <2>1, <2>2, <2>4, <2>5, <2>6, <2>7 DEF Service!Sign, Service!SignedFor
    <2> QED
      BY <2>3, <2>8 DEF Service!Next
  <1> QED
    BY <1>5, <1>6, <1>7 DEF PrivyStep

\* Every step of the enclave, of Privy and of the users is a step of the
\* service or leaves what its clients see as it is.
LEMMA ServiceStep ==
    TypeOK /\ Consistent /\ [Next]_vars /\ TypeOK' /\ Consistent' => [Service!Next]_Service!vars
  <1> SUFFICES ASSUME TypeOK, Consistent, [Next]_vars, TypeOK', Consistent'
               PROVE  [Service!Next]_Service!vars
    OBVIOUS
  <1> USE DEF handler, privy
  <1>1. Placed /\ Entitled /\ Reported'
    BY DEF Consistent
  <1>2. ASSUME NEW r \in Requests, NEW i \in Inputs, Receive(r, i)
        PROVE  [Service!Next]_Service!vars
    <2>1. /\ pc[r] = "idle" /\ UNCHANGED <<who, accounts, signatures>>
          /\ \A q \in Requests \ {r} : /\ pc'[q] = pc[q] /\ code'[q] = code[q]
                                       /\ input'[q] = input[q]
      BY <1>2 DEF Receive, Goto, Answer, TypeOK
    <2>2. who[r] = Empty /\ Empty \notin Users
      BY <1>1, <2>1, NamesAssumption DEF Placed
    <2>3. code'[r] # 200
      BY <1>1, <2>1, <2>2 DEF Reported
    <2> QED
      BY <2>1, <2>2, <2>3, ServiceAnswer
  <1>3. ASSUME NEW r \in Requests, NEW u \in Users, Authenticate(r, u)
        PROVE  [Service!Next]_Service!vars
    <2> DEFINE thing == IF input[r].route = "get" THEN Foreign ELSE input[r].hash
    <2>1. /\ pc[r] = "auth" /\ who' = [who EXCEPT ![r] = u]
          /\ pc' = [pc EXCEPT ![r] = "lookup"]
          /\ UNCHANGED <<code, input, accounts, signatures>>
      BY <1>3 DEF Authenticate, Goto
    <2>2. who[r] = Empty /\ u # Empty
      BY <1>1, <2>1, NamesAssumption DEF Placed
    <2>3. Outcome[r] = "none" /\ Outcome' = Outcome /\ Holdings' = Holdings
      BY <2>1 DEF Outcome, Holdings, TypeOK
    <2>4. Screen(input[r]) = 0 /\ input[r] \in Input
      BY <1>1, <2>1 DEF Entitled, TypeOK
    <2>5. thing \in Hashes \union {Foreign}
      BY <2>4 DEF Screen, ValidateTxRequest, Input
    <2>6. Asked' = [Asked EXCEPT ![r] = thing]
      BY <2>1, <2>2 DEF Asked, TypeOK
    <2> HIDE DEF thing
    <2>7. Service!Grant(r, u, thing)
      BY <2>1, <2>2, <2>3, <2>6 DEF Service!Grant
    <2> QED
      BY <2>5, <2>7 DEF Service!Next
  <1>4. ASSUME NEW r \in Requests, Unauthorized(r) PROVE [Service!Next]_Service!vars
    <2>1. /\ pc[r] = "auth" /\ UNCHANGED <<who, input, accounts, signatures>>
          /\ \A q \in Requests \ {r} : pc'[q] = pc[q] /\ code'[q] = code[q]
          /\ code'[r] = 401
      BY <1>4 DEF Unauthorized, Goto, Answer, TypeOK
    <2> QED
      BY <2>1, ServiceAnswer
  <1>5. ASSUME NEW r \in Requests, Working(r) PROVE [Service!Next]_Service!vars
    <2>1. /\ UNCHANGED <<who, input, accounts, signatures>>
          /\ pc[r] # "done"
          /\ \A q \in Requests \ {r} : pc'[q] = pc[q]
      BY <1>5, WorkingFrame DEF Started, Awaiting, TypeOK
    <2>2. \A q \in Requests \ {r} : code'[q] = code[q]
      BY <1>5 DEF Working, CacheHit, CacheMiss, CacheStore, UserHasWallet, UserLacksWallet,
                  WalletCreated, WalletNotDelegated, AnswerUser, NoUsableWallet, SendSign,
                  PrepFails, Signed, PrivyRefused, CallFails, Answer, TypeOK
    <2>3. code'[r] = 200 => /\ who[r] \in Users
                            /\ input[r].route # "get" => \E s \in signatures : s.request = r
      BY <1>1, <2>1 DEF Reported
    <2> QED
      BY <2>1, <2>2, <2>3, ServiceAnswer
  <1>6. ASSUME NEW r \in Requests, PrivyStep(r) PROVE [Service!Next]_Service!vars
    BY <1>6, ServicePrivy
  <1>7. ASSUME UNCHANGED <<who, input, pc, code, signatures>>, Holdings' = Holdings
        PROVE  [Service!Next]_Service!vars
    BY <1>7 DEF Service!vars, Asked, Outcome
  <1>8. ASSUME NEW u \in Users, NEW n \in DOMAIN accounts[u], ChangeDelegation(u, n)
        PROVE  [Service!Next]_Service!vars
    <2>1. Holdings' = Holdings
      BY <1>8, ChangeIds DEF Holdings
    <2> QED
      BY <1>7, <1>8, <2>1 DEF ChangeDelegation
  <1>9. CASE Tick \/ UNCHANGED vars
    <2>1. UNCHANGED <<who, input, pc, code, signatures, accounts>>
      BY <1>9 DEF Tick, vars
    <2> QED
      BY <1>7, <2>1 DEF Holdings
  <1> QED
    BY <1>2, <1>3, <1>4, <1>5, <1>6, <1>8, <1>9 DEF Next, HandlerStep, Working

\* The enclave implements the service: caching, retries, timeouts, late answers
\* and concurrently created wallets show its clients nothing it does not allow.
THEOREM EnclaveImplementsService == Spec => ImplementsService
  <1>1. Init => Service!Init
    BY ServiceInit
  <1>2. TypeOK /\ Consistent /\ [Next]_vars /\ (TypeOK /\ Consistent)' =>
            [Service!Next]_Service!vars
    BY ServiceStep
  <1> QED
    BY <1>1, <1>2, AlwaysConsistent, PTL DEF Spec, ImplementsService, Service!Spec
================================================================================
