----------------------------- MODULE EndToEndProofs ----------------------------
(***************************************************************************)
(* Proofs about HttpProxy, and about EndToEnd, which puts the enclave      *)
(* behind it: the proxy keeps its invariant by itself and inside the       *)
(* system, nothing is held by a handler that is done, and what the         *)
(* requester sees is the service of the enclave, for any requests, users   *)
(* and bodies.                                                             *)
(***************************************************************************)
EXTENDS EndToEnd, FiniteSetTheorems, TLAPS

(***************************************************************************)
(* The proxy by itself, for any set of requests and any length of body.    *)
(***************************************************************************)
\* What the handler has written is what its place says: nothing before the
\* answer, then the enclave's status and length, or an error of its own.
Written ==
    \A r \in Requests :
        /\ client[r].state = "answered" => handler[r] = "done"
        /\ handler[r] \in {"idle", "dial", "await"} => header[r].status = 0
        /\ handler[r] \in {"idle", "dial"} => enclave[r] = "none"
        /\ handler[r] = "error" => header[r].status \in {500, 502}
        /\ enclave[r] # "answered" => /\ reply[r].status = 0
                                      /\ header[r].status # 200
                                      /\ ~ Complete(r)
        /\ enclave[r] = "working" => header[r].status # 500 /\ ~ Failed(r)
        /\ enclave[r] = "answered" => reply[r].status \in Statuses
        /\ header[r].status = 200 => header[r].sized = reply[r].sized

\* The connection is opened by Forward and closed by whatever ends the round
\* trip or the copy.
Owned ==
    \A r \in Requests :
        /\ handler[r] \in {"idle", "dial"} => conn[r] = "none"
        /\ handler[r] \in {"return", "error", "done"} => conn[r] \in {"none", "closed"}

ProxyInv == TypeOK /\ Written /\ Owned /\ SizedIsWhole

LEMMA InitProxyInv == Init => ProxyInv
  BY ProxyAssumption
     DEF Init, ProxyInv, TypeOK, Written, Owned, SizedIsWhole, Complete, Failed, NoHeader, NoResponse,
         Statuses

\* Each step of a request keeps the types.
LEMMA TypeStep == TypeOK /\ [Next]_vars => TypeOK'
<1> SUFFICES ASSUME TypeOK, [Next]_vars PROVE TypeOK'
  OBVIOUS
<1>1. CASE UNCHANGED vars
  BY <1>1 DEF vars, TypeOK
<1>2. ASSUME NEW r \in Requests, Arrive(r) PROVE TypeOK'
  <2> DEFINE Headers == [status : Statuses \union {0, 502}, sized : BOOLEAN]
             Responses == [status : Statuses \union {0, 502}, parts : 0 .. Parts]
             Views == [state : {"none", "waiting", "answered", "broken", "gone"},
                       response : Responses]
  <2>1. [status |-> 500, sized |-> TRUE] \in Headers
    BY DEF Statuses
  <2>2. header' = header \/ header' = [header EXCEPT ![r] = [status |-> 500, sized |-> TRUE]]
    BY <1>2 DEF Arrive, Error
  <2>3. header' \in [Requests -> Headers]
    <3>1. header \in [Requests -> Headers]
      BY DEF TypeOK
    <3> HIDE DEF Headers
    <3> QED
      BY <2>1, <2>2, <3>1
  <2>4. handler' = [handler EXCEPT ![r] = "dial"] \/ handler' = [handler EXCEPT ![r] = "error"]
    BY <1>2 DEF Arrive, Error, Goto
  <2>5. handler' \in [Requests -> {"idle", "dial", "await", "copy", "drain", "return", "error",
                                   "done"}]
    BY <2>4 DEF TypeOK
  <2>6. client' = [client EXCEPT ![r] = [client[r] EXCEPT !.state = "waiting"]]
        /\ UNCHANGED <<late, conn, enclave, reply, copied>>
    BY <1>2 DEF Arrive
  <2> HIDE DEF Responses
  <2>7. [client[r] EXCEPT !.state = "waiting"] \in Views
    <3>1. client[r] \in Views
      BY DEF TypeOK, Responses
    <3> QED
      BY <3>1
  <2> USE DEF Responses
  <2> QED
    BY <2>3, <2>5, <2>6, <2>7 DEF TypeOK
<1>3. ASSUME NEW r \in Requests, Forward(r) PROVE TypeOK'
  BY <1>3 DEF Forward, Goto, Conn, TypeOK
<1>4. ASSUME NEW r \in Requests, BadGateway(r) PROVE TypeOK'
  <2>1. [status |-> 502, sized |-> TRUE] \in [status : Statuses \union {0, 502}, sized : BOOLEAN]
    OBVIOUS
  <2>2. conn' \in [Requests -> {"none", "open", "reset", "closed"}]
    <3>1. conn' = conn \/ conn' = [conn EXCEPT ![r] = "closed"]
      BY <1>4 DEF BadGateway, Conn
    <3>2. conn \in [Requests -> {"none", "open", "reset", "closed"}]
      BY DEF TypeOK
    <3> QED
      BY <3>1, <3>2
  <2>3. header' \in [Requests -> [status : Statuses \union {0, 502}, sized : BOOLEAN]]
    BY <1>4, <2>1 DEF BadGateway, Error, TypeOK
  <2> QED
    BY <1>4, <2>2, <2>3 DEF BadGateway, Error, Goto, TypeOK
<1>5. ASSUME NEW r \in Requests, CopyHead(r) PROVE TypeOK'
  <2>1. reply[r] \in [status : Statuses \union {0}, sized : BOOLEAN]
    BY DEF TypeOK
  <2>2. reply[r] \in [status : Statuses \union {0, 502}, sized : BOOLEAN]
    BY <2>1
  <2> QED
    BY <1>5, <2>2 DEF CopyHead, Goto, TypeOK
<1>6. ASSUME NEW r \in Requests, CopyPart(r) PROVE TypeOK'
  BY <1>6, ProxyAssumption DEF CopyPart, TypeOK
<1>7. ASSUME NEW r \in Requests, CopyEnds(r) PROVE TypeOK'
  BY <1>7 DEF CopyEnds, Goto, TypeOK
<1>13. ASSUME NEW r \in Requests, Drain(r) PROVE TypeOK'
  BY <1>13 DEF Drain, Goto, Conn, TypeOK
<1>8. ASSUME NEW r \in Requests, Respond(r) PROVE TypeOK'
  <2>1. [state |-> "broken", response |-> NoResponse] \in
            [state : {"none", "waiting", "answered", "broken", "gone"},
             response : [status : Statuses \union {0, 502}, parts : 0 .. Parts]]
    BY ProxyAssumption DEF NoResponse
  <2>2. [state |-> "answered",
         response |-> [status |-> header[r].status, parts |-> copied[r]]] \in
            [state : {"none", "waiting", "answered", "broken", "gone"},
             response : [status : Statuses \union {0, 502}, parts : 0 .. Parts]]
    BY DEF TypeOK
  <2> QED
    BY <1>8, <2>1, <2>2 DEF Respond, Goto, TypeOK
<1>9. ASSUME NEW r \in Requests, WriteTimeout(r) PROVE TypeOK'
  BY <1>9 DEF WriteTimeout, TypeOK
<1>10. ASSUME NEW r \in Requests, Answers(r) PROVE TypeOK'
  BY <1>10 DEF Answers, Answer, TypeOK
<1>11. ASSUME NEW r \in Requests, Lost(r) PROVE TypeOK'
  BY <1>11 DEF Lost, Conn, TypeOK
<1>12. ASSUME NEW r \in Requests, GiveUp(r) PROVE TypeOK'
  <2> DEFINE Responses == [status : Statuses \union {0, 502}, parts : 0 .. Parts]
             Views == [state : {"none", "waiting", "answered", "broken", "gone"},
                       response : Responses]
  <2> HIDE DEF Responses
  <2>1. [client[r] EXCEPT !.state = "gone"] \in Views
    <3>1. client[r] \in Views
      BY DEF TypeOK, Responses
    <3> QED
      BY <3>1
  <2> USE DEF Responses
  <2>2. /\ client' = [client EXCEPT ![r] = [client[r] EXCEPT !.state = "gone"]]
        /\ UNCHANGED <<handler, late, conn, enclave, reply, copied, header>>
    BY <1>12 DEF GiveUp
  <2> QED
    BY <2>1, <2>2 DEF TypeOK
<1> QED
  BY <1>1, <1>2, <1>3, <1>4, <1>5, <1>6, <1>7, <1>8, <1>9, <1>10, <1>11, <1>12, <1>13
     DEF Next, Handle, Terminating

Rest == Written /\ Owned /\ SizedIsWhole

\* What the end of a handler leaves alone and what it tells the requester.
LEMMA RespondShape ==
    ASSUME TypeOK, NEW r \in Requests, Respond(r)
    PROVE  /\ UNCHANGED <<late, conn, enclave, reply, copied, header>>
           /\ handler[r] \in {"return", "error"} /\ handler'[r] = "done"
           /\ \A q \in Requests \ {r} : client'[q] = client[q] /\ handler'[q] = handler[q]
           /\ \/ client'[r] = client[r]
              \/ client'[r].state = "broken"
              \/ /\ client'[r].state = "answered" /\ Whole(r)
                 /\ client'[r].response.status = header[r].status
                 /\ client'[r].response.parts = copied[r]
<1>1. r \in DOMAIN client /\ r \in DOMAIN handler
  BY DEF TypeOK
<1>2. client' = [client EXCEPT ![r] = client'[r]] /\ handler' = [handler EXCEPT ![r] = "done"]
  BY DEF Respond, Goto, TypeOK
<1>3. \/ client'[r] = client[r]
      \/ client'[r] = [state |-> "broken", response |-> NoResponse]
      \/ /\ Whole(r)
         /\ client'[r] = [state |-> "answered",
                          response |-> [status |-> header[r].status, parts |-> copied[r]]]
  BY <1>1 DEF Respond
<1> QED
  BY <1>1, <1>2, <1>3 DEF Respond

\* Each step of a request keeps what is written, owned and answered.
LEMMA RestStep == TypeOK /\ Rest /\ [Next]_vars => Rest'
<1> SUFFICES ASSUME TypeOK, Rest, [Next]_vars PROVE Rest'
  OBVIOUS
<1> USE DEF Rest, TypeOK, Written, Owned, SizedIsWhole, Complete, Failed, Goto, Conn, Statuses
<1>1. CASE UNCHANGED vars
  BY <1>1 DEF vars
<1>2. ASSUME NEW r \in Requests, Arrive(r) PROVE Rest'
  BY <1>2 DEF Arrive, Error
<1>3. ASSUME NEW r \in Requests, Forward(r) PROVE Rest'
  BY <1>3 DEF Forward
<1>4. ASSUME NEW r \in Requests, BadGateway(r) PROVE Rest'
  BY <1>4 DEF BadGateway, Error
<1>5. ASSUME NEW r \in Requests, CopyHead(r) PROVE Rest'
  BY <1>5 DEF CopyHead
<1>6. ASSUME NEW r \in Requests, CopyPart(r) PROVE Rest'
  BY <1>6 DEF CopyPart
<1>7. ASSUME NEW r \in Requests, CopyEnds(r) PROVE Rest'
  BY <1>7 DEF CopyEnds
<1>13. ASSUME NEW r \in Requests, Drain(r) PROVE Rest'
  BY <1>13 DEF Drain
<1>8. ASSUME NEW r \in Requests, Respond(r) PROVE Rest'
  <2>1. Written' /\ Owned'
    <3>1. Written'
      BY <1>8, RespondShape
    <3>2. Owned'
      BY <1>8, RespondShape
    <3> QED
      BY <3>1, <3>2
  <2>2. client'[r].state = "answered" /\ client'[r].response.status = 200 =>
            \/ /\ header[r].status = 200 /\ Whole(r)
               /\ client'[r].response.parts = copied[r]
            \/ client'[r] = client[r]
    BY <1>8, RespondShape
  <2>3. header[r].status = 200 /\ Whole(r) => copied[r] = Parts \/ ~ reply[r].sized
    <3>1. Whole(r) => handler[r] = "error" \/ copied[r] = Parts \/ ~ header[r].sized
      BY DEF Whole
    <3>2. header[r].status = 200 => handler[r] # "error" /\ header[r].sized = reply[r].sized
      OBVIOUS
    <3> QED
      BY <3>1, <3>2, Zenon
  <2>4. reply' = reply /\ \A q \in Requests \ {r} : client'[q] = client[q]
    BY <1>8, RespondShape
  <2>5. ASSUME NEW q \in Requests, client'[q].state = "answered",
               client'[q].response.status = 200, reply'[q].sized
        PROVE  client'[q].response.parts = Parts
    BY <2>2, <2>3, <2>4, <2>5
  <2> QED
    BY <2>1, <2>5
<1>9. ASSUME NEW r \in Requests, WriteTimeout(r) PROVE Rest'
  BY <1>9 DEF WriteTimeout
<1>10. ASSUME NEW r \in Requests, Answers(r) PROVE Rest'
  <2>1. PICK status \in Statuses, sized \in BOOLEAN : Answer(r, status, sized)
    BY <1>10 DEF Answers
  <2>2. reply'[r].status = status /\ \A q \in Requests \ {r} : reply'[q] = reply[q]
    BY <2>1 DEF Answer
  <2> QED
    BY <2>1, <2>2 DEF Answer
<1>11. ASSUME NEW r \in Requests, Lost(r) PROVE Rest'
  BY <1>11 DEF Lost
<1>12. ASSUME NEW r \in Requests, GiveUp(r) PROVE Rest'
  BY <1>12 DEF GiveUp
<1> HIDE DEF Rest, TypeOK, Written, Owned, SizedIsWhole, Complete, Failed, Goto, Conn, Statuses
<1> QED
  BY <1>1, <1>2, <1>3, <1>4, <1>5, <1>6, <1>7, <1>8, <1>9, <1>10, <1>11, <1>12, <1>13
     DEF Next, Handle, Terminating

\* The handler keeps to its order, whatever becomes of the enclave, of the
\* requester and of the deadline (proxy.go:38-67).
THEOREM AlwaysProxyInv == Spec => []ProxyInv
<1>1. ProxyInv /\ [Next]_vars => ProxyInv'
  BY TypeStep, RestStep DEF ProxyInv, Rest
<1> QED
  BY <1>1, InitProxyInv, PTL DEF Spec

\* A requester who takes a 200 for complete has the whole body, when the
\* enclave named its length: the length is copied with the headers before the
\* status is written (proxy.go:58, 66).
THEOREM AlwaysSizedIsWhole == Spec => []SizedIsWhole
  BY AlwaysProxyInv, PTL DEF ProxyInv

\* No connection to the enclave outlives its handler (proxy.go:55).
THEOREM AlwaysClosesConnection == Spec => []ClosesConnection
<1>1. ProxyInv => ClosesConnection
  BY DEF ProxyInv, Owned, ClosesConnection
<1> QED
  BY <1>1, AlwaysProxyInv, PTL

(***************************************************************************)
(* The proxy in the system.                                                *)
(***************************************************************************)
\* Every step of the system is a step of the proxy or leaves it alone.
LEMMA SystemProxy == [SystemNext]_system => [Next]_vars
<1> SUFFICES ASSUME [SystemNext]_system PROVE [Next]_vars
  OBVIOUS
<1>1. CASE UNCHANGED system
  BY <1>1 DEF system
<1>2. ASSUME NEW r \in Requests, Around(r) PROVE Next
  BY <1>2 DEF Around, Next
<1>3. ASSUME NEW r \in Requests, Proxy(r) PROVE Next
  BY <1>3 DEF Proxy, Next
<1>4. ASSUME NEW r \in Requests, EnclaveAnswers(r) PROVE Next
  <2>1. \E status \in Statuses, sized \in BOOLEAN : Answer(r, status, sized)
    <3>1. \/ Answer(r, 500, TRUE) \/ Answer(r, 200, TRUE) \/ Answer(r, 200, FALSE)
          \/ \E sized \in BOOLEAN : Answer(r, 200, sized)
      BY <1>4 DEF EnclaveAnswers
    <3>2. 200 \in Statuses /\ 500 \in Statuses
      BY DEF Statuses
    <3> QED
      BY <3>1, <3>2, Zenon
  <2>2. Answers(r)
    BY <2>1 DEF Answers
  <2> QED
    BY <2>2 DEF Next
<1>5. ASSUME NEW r \in Requests, Work(r) PROVE UNCHANGED vars
  BY <1>5 DEF Work, Serve, Attest
<1>6. ASSUME NEW r \in Signing, Privy(r) PROVE UNCHANGED vars
  BY <1>6 DEF Privy
<1>7. CASE Terminating /\ UNCHANGED inside
  BY <1>7 DEF Terminating
<1> QED
  BY <1>1, <1>2, <1>3, <1>4, <1>5, <1>6, <1>7 DEF SystemNext

\* In the system, too, the handler of the proxy keeps to its order.
THEOREM SystemProxyInv == SystemSpec => []ProxyInv
<1>1. SystemInit => ProxyInv
  BY InitProxyInv DEF SystemInit
<1>2. ProxyInv /\ [SystemNext]_system => ProxyInv'
  BY SystemProxy, TypeStep, RestStep DEF ProxyInv, Rest
<1> QED
  BY <1>1, <1>2, PTL DEF SystemSpec

(***************************************************************************)
(* Nothing is held.                                                        *)
(***************************************************************************)
\* Which buffers there are, by the place of the call.
Made(r) ==
    CASE at[r] = "key" -> {"auth"}
      [] at[r] = "base64" -> {"auth", "b64"}
      [] at[r] = "decode" -> {"auth", "b64", "pkcs8"}
      [] at[r] = "payload" -> {"payload"}
      [] at[r] = "hash" -> {"payload", "hash"}
      [] OTHER -> {}

Inside ==
    /\ Key!TypeOK /\ Nsm!TypeOK
    /\ \A r \in Signing : buffers[r] = Made(r)
    /\ Nsm!SessionClosed

\* A step of SignPayload makes the next buffer or destroys them all.
LEMMA KeyStep ==
    ASSUME Key!TypeOK, \A r \in Signing : buffers[r] = Made(r),
           NEW r \in Signing, Key!Step(r)
    PROVE  Key!TypeOK' /\ \A q \in Signing : buffers'[q] = Made(q)'
<1>1. \A q \in Signing \ {r} : at'[q] = at[q] /\ buffers'[q] = buffers[q]
  BY DEF Key!Step, Key!parsePrivateKey, Key!SignPayload, Key!Make, Key!Return, Key!Goto,
         Key!TypeOK
<1>2. Key!TypeOK'
  BY DEF Key!Step, Key!parsePrivateKey, Key!SignPayload, Key!Make, Key!Return, Key!Goto,
         Key!TypeOK, Key!Places, Key!Buffers
<1>3. buffers'[r] = Made(r)'
  BY DEF Key!Step, Key!parsePrivateKey, Key!SignPayload, Key!Make, Key!Return, Key!Goto,
         Key!TypeOK, Made
<1>4. \A q \in Signing \ {r} : Made(q)' = Made(q)
  BY <1>1 DEF Made
<1> QED
  BY <1>1, <1>2, <1>3, <1>4

\* A step of an attestation opens the session, closes it or needs none.
LEMMA NsmStep ==
    ASSUME Nsm!TypeOK, Nsm!SessionClosed, NEW r \in Attesting, Nsm!Step(r)
    PROVE  Nsm!TypeOK' /\ Nsm!SessionClosed'
<1> USE DEF Nsm!TypeOK, Nsm!SessionClosed, Nsm!Goto
<1>1. CASE Nsm!BadNonce(r)
  BY <1>1 DEF Nsm!BadNonce
<1>2. CASE Nsm!OpenDefaultSession(r)
  BY <1>2 DEF Nsm!OpenDefaultSession
<1>3. CASE Nsm!Attest(r)
  BY <1>3 DEF Nsm!Attest
<1>4. CASE Nsm!AttestAndVerify(r)
  BY <1>4 DEF Nsm!AttestAndVerify
<1> QED
  BY <1>1, <1>2, <1>3, <1>4 DEF Nsm!Step

LEMMA InsideStep == Inside /\ [SystemNext]_system => Inside'
<1> SUFFICES ASSUME Inside, [SystemNext]_system PROVE Inside'
  OBVIOUS
<1>1. ASSUME UNCHANGED <<at, buffers, step, session>> PROVE Inside'
  BY <1>1 DEF Inside, Made, Key!TypeOK, Nsm!TypeOK, Nsm!SessionClosed
<1>2. ASSUME NEW r \in Signing, Key!Step(r), UNCHANGED <<step, session>> PROVE Inside'
  BY <1>2, KeyStep DEF Inside, Nsm!TypeOK, Nsm!SessionClosed
<1>3. ASSUME NEW r \in Attesting, Nsm!Step(r), UNCHANGED <<at, buffers>> PROVE Inside'
  <2>1. Nsm!TypeOK' /\ Nsm!SessionClosed'
    BY <1>3, NsmStep DEF Inside
  <2>2. Key!TypeOK' /\ \A q \in Signing : buffers'[q] = Made(q)'
    BY <1>3 DEF Inside, Made, Key!TypeOK
  <2> QED
    BY <2>1, <2>2 DEF Inside
<1>4. CASE UNCHANGED system
  BY <1>1, <1>4 DEF system, inside
<1>5. ASSUME NEW r \in Requests, Around(r) \/ Proxy(r) \/ EnclaveAnswers(r) PROVE Inside'
  BY <1>1, <1>5 DEF Around, Proxy, EnclaveAnswers, inside
<1>6. ASSUME NEW r \in Requests, Work(r) PROVE Inside'
  BY <1>1, <1>2, <1>3, <1>6 DEF Work, Serve, Attest
<1>7. ASSUME NEW r \in Signing, Privy(r) PROVE Inside'
  BY <1>1, <1>7 DEF Privy
<1>8. CASE Terminating /\ UNCHANGED inside
  BY <1>1, <1>8 DEF inside
<1> QED
  BY <1>4, <1>5, <1>6, <1>7, <1>8 DEF SystemNext

\* At most three buffers are made, whatever the place.
LEMMA FewBuffers == \A r : Cardinality(Made(r)) <= 3
<1> SUFFICES ASSUME NEW r PROVE Cardinality(Made(r)) <= 3
  OBVIOUS
<1>1. /\ Cardinality({}) = 0 /\ IsFiniteSet({})
  BY FS_EmptySet
<1>2. ASSUME NEW a PROVE Cardinality({a}) = 1 /\ IsFiniteSet({a})
  BY FS_Singleton
<1>3. ASSUME NEW a, NEW b, a # b PROVE Cardinality({a, b}) = 2 /\ IsFiniteSet({a, b})
  <2>1. {a, b} = {a} \union {b} /\ b \notin {a}
    BY <1>3
  <2>2. IsFiniteSet({a} \union {b}) /\ Cardinality({a} \union {b}) = Cardinality({a}) + 1
    BY <1>2, <2>1, FS_AddElement
  <2> QED
    BY <1>2, <2>1, <2>2
<1>4. Cardinality({"auth", "b64", "pkcs8"}) = 3
  <2>1. {"auth", "b64", "pkcs8"} = {"auth", "b64"} \union {"pkcs8"}
        /\ "pkcs8" \notin {"auth", "b64"}
    OBVIOUS
  <2>2. IsFiniteSet({"auth", "b64"}) /\ Cardinality({"auth", "b64"}) = 2
    BY <1>3
  <2>3. Cardinality({"auth", "b64"} \union {"pkcs8"}) = Cardinality({"auth", "b64"}) + 1
    BY <2>1, <2>2, FS_AddElement
  <2> QED
    BY <2>1, <2>2, <2>3
<1>5. /\ Cardinality({"auth"}) = 1 /\ Cardinality({"payload"}) = 1
      /\ Cardinality({"auth", "b64"}) = 2 /\ Cardinality({"payload", "hash"}) = 2
  BY <1>2, <1>3
<1> QED
  BY <1>1, <1>4, <1>5 DEF Made

\* Locked buffers and sessions are those of the place their handler is at.
THEOREM AlwaysInside == SystemSpec => []Inside
<1>1. SystemInit => Inside
  BY DEF SystemInit, Key!Init, Nsm!Init, Inside, Made, Key!TypeOK, Key!Places, Nsm!TypeOK,
         Nsm!SessionClosed
<1> QED
  BY <1>1, InsideStep, PTL DEF SystemSpec

\* A handler of the enclave that is done, or waits for Privy, holds no locked
\* buffer and no session of the security module, and none ever holds more than
\* three buffers (signing.go:70, attestation.go:24).
THEOREM AlwaysNothingHeld == SystemSpec => []NothingHeld
<1>1. Inside => NothingHeld
  <2> SUFFICES ASSUME Inside PROVE NothingHeld
    OBVIOUS
  <2>1. ASSUME NEW r \in Signing
        PROVE  (~ Key!Busy(r) => buffers[r] = {}) /\ Cardinality(buffers[r]) <= 3
    <3>1. ~ Key!Busy(r) => Made(r) = {}
      BY DEF Key!Busy, Made
    <3> QED
      BY <3>1, FewBuffers DEF Inside
  <2> QED
    BY <2>1 DEF NothingHeld, Key!BuffersReturned, Inside
<1> QED
  BY <1>1, AlwaysInside, PTL

(***************************************************************************)
(* What the requester sees.                                                *)
(***************************************************************************)
ServiceOK ==
    /\ grant \in [Signing -> Users \union {Nobody}]
    /\ asked \in [Signing -> Things \union {Nothing}]
    /\ held \in [Users -> SUBSET Wallets]
    /\ signed \subseteq [request : Signing, wallet : Wallets, hash : Hashes]
    /\ answer \in [Signing -> {"none", "ok", "failed"}]

\* Only a request that was granted has asked for anything.
Asking == \A r \in Signing : grant[r] # Nobody => asked[r] \in Things

\* A 200 on its way to the requester is one of the enclave, which has by then
\* done what was asked for.
Truthful ==
    \A r \in Signing :
        /\ answer[r] = "ok" =>
              /\ grant[r] # Nobody
              /\ asked[r] # Record => \E s \in signed : s.request = r
        /\ reply[r].status = 200 => answer[r] = "ok"
        /\ header[r].status = 200 => reply[r].status = 200
        /\ Complete(r) => reply[r].status = 200

Serving == ServiceOK /\ Asking /\ Truthful

\* What a step of the enclave's handlers or of Privy may do to the service.
ServiceStep(r) ==
    \/ /\ enclave[r] = "working" /\ answer[r] = "none"
       /\ \E u \in Users, thing \in Things : Enclave!Grant(r, u, thing)
    \/ Enclave!Succeed(r) \/ Enclave!Fail(r)
    \/ \E w \in Wallets : Enclave!Provision(r, w) \/ Enclave!Sign(r, w)

LEMMA ServiceKept ==
    ASSUME Serving, NEW r \in Signing, ServiceStep(r), UNCHANGED vars
    PROVE  Serving'
<1> USE RoutesAssumption DEF Serving, ServiceOK, Asking, Things, vars, Complete
<1>1. ASSUME NEW u \in Users, NEW thing \in Things, answer[r] = "none",
             Enclave!Grant(r, u, thing)
      PROVE  Serving'
  BY <1>1 DEF Enclave!Grant, Truthful
<1>2. CASE Enclave!Succeed(r)
  BY <1>2 DEF Enclave!Succeed, Enclave!SignedFor, Truthful
<1>3. CASE Enclave!Fail(r)
  BY <1>3 DEF Enclave!Fail, Truthful
<1>4. ASSUME NEW w \in Wallets, Enclave!Provision(r, w) PROVE Serving'
  BY <1>4 DEF Enclave!Provision, Truthful
<1>5. ASSUME NEW w \in Wallets, Enclave!Sign(r, w) PROVE Serving'
  <2>1. asked[r] \in Hashes
    BY <1>5 DEF Enclave!Sign
  <2>2. signed' = signed \union {[request |-> r, wallet |-> w, hash |-> asked[r]]}
        /\ UNCHANGED <<grant, asked, held, answer>>
    BY <1>5 DEF Enclave!Sign
  <2> QED
    BY <2>1, <2>2 DEF Truthful
<1> QED
  BY <1>1, <1>2, <1>3, <1>4, <1>5 DEF ServiceStep

\* The proxy writes the enclave's status or its own, once.
LEMMA ProxyKept ==
    ASSUME ProxyInv, Serving, NEW r \in Requests,
           Handle(r) \/ Arrive(r) \/ WriteTimeout(r) \/ Lost(r) \/ GiveUp(r),
           UNCHANGED service
    PROVE  Serving'
<1>1. /\ UNCHANGED reply
      /\ \A q \in Requests : header'[q] # header[q] =>
            header'[q].status \in {500, 502} \/ header'[q] = reply[q]
      /\ \A q \in Requests : client'[q] # client[q] =>
            client'[q].state # "answered" \/ client'[q].response.status = header[q].status
  <2> USE DEF ProxyInv, TypeOK
  <2>1. CASE Forward(r) \/ CopyPart(r) \/ CopyEnds(r) \/ Drain(r) \/ WriteTimeout(r) \/ Lost(r)
    BY <2>1 DEF Forward, CopyPart, CopyEnds, Drain, WriteTimeout, Lost
  <2>2. CASE Arrive(r) \/ GiveUp(r)
    BY <2>2 DEF Arrive, Error, GiveUp
  <2>3. CASE BadGateway(r) \/ CopyHead(r)
    BY <2>3 DEF BadGateway, Error, CopyHead
  <2>4. CASE Respond(r)
    BY <2>4 DEF Respond
  <2> QED
    BY <2>1, <2>2, <2>3, <2>4 DEF Handle
<1>2. UNCHANGED <<grant, asked, held, signed, answer>>
  BY DEF service
<1>3. Truthful'
  BY <1>1, <1>2, RoutesAssumption DEF Serving, Truthful, Complete
<1> QED
  BY <1>2, <1>3 DEF Serving, ServiceOK, Asking

\* The enclave's 200 stands for what it has done.
LEMMA AnswerKept ==
    ASSUME ProxyInv, Serving, NEW r \in Requests, EnclaveAnswers(r)
    PROVE  Serving'
<1>1. /\ enclave[r] = "working" /\ UNCHANGED <<header, client>>
      /\ \A q \in Requests \ {r} : reply'[q] = reply[q]
      /\ r \in Signing /\ reply'[r].status = 200 => answer[r] = "ok"
  <2> USE DEF Answer, ProxyInv, TypeOK
  <2>1. CASE Answer(r, 500, TRUE)
    BY <2>1
  <2>2. CASE r \in Signing /\ answer[r] = "ok" /\ \E sized \in BOOLEAN : Answer(r, 200, sized)
    BY <2>2
  <2>3. CASE r \in Attesting /\ Answer(r, 200, FALSE)
    BY <2>3, RoutesAssumption
  <2>4. r \in Signing =>
          \/ Answer(r, 500, TRUE)
          \/ answer[r] = "ok" /\ (Answer(r, 200, TRUE) \/ \E sized \in BOOLEAN : Answer(r, 200, sized))
    BY RoutesAssumption DEF EnclaveAnswers
  <2>5. r \in Attesting => Answer(r, 200, FALSE) \/ Answer(r, 500, TRUE)
    BY RoutesAssumption DEF EnclaveAnswers
  <2>6. CASE r \in Signing /\ answer[r] = "ok" /\ Answer(r, 200, TRUE)
    BY <2>6
  <2> QED
    BY <2>1, <2>2, <2>3, <2>4, <2>5, <2>6, RoutesAssumption
<1>2. UNCHANGED <<grant, asked, held, signed, answer>>
  BY DEF EnclaveAnswers, inside, service
<1>3. header[r].status # 200 /\ ~ Complete(r)
  BY <1>1 DEF ProxyInv, Written
<1>4. Truthful'
  BY <1>1, <1>2, <1>3, RoutesAssumption DEF Serving, Truthful, Complete
<1> QED
  BY <1>2, <1>4 DEF Serving, ServiceOK, Asking

\* A step of the system is one of these.
LEMMA Cases ==
    ASSUME SystemNext
    PROVE  \/ \E r \in Signing : ServiceStep(r) /\ UNCHANGED vars
           \/ \E r \in Requests : EnclaveAnswers(r)
           \/ /\ \/ \E r \in Requests : \/ Handle(r) \/ Arrive(r) \/ WriteTimeout(r)
                                        \/ Lost(r) \/ GiveUp(r)
                 \/ UNCHANGED vars
              /\ UNCHANGED service
<1>1. ASSUME NEW r \in Requests, Around(r) \/ Proxy(r)
      PROVE  /\ Handle(r) \/ Arrive(r) \/ WriteTimeout(r) \/ Lost(r) \/ GiveUp(r)
             /\ UNCHANGED service
  BY <1>1 DEF Around, Proxy, inside
<1>2. ASSUME NEW r \in Signing, Serve(r)
      PROVE  UNCHANGED vars /\ (ServiceStep(r) \/ UNCHANGED service)
  BY <1>2 DEF Serve, ServiceStep
<1>3. ASSUME NEW r \in Attesting, Attest(r) PROVE UNCHANGED vars /\ UNCHANGED service
  BY <1>3 DEF Attest
<1>4. ASSUME NEW r \in Signing, Privy(r) PROVE UNCHANGED vars /\ ServiceStep(r)
  BY <1>4 DEF Privy, ServiceStep
<1>5. CASE Terminating /\ UNCHANGED inside
  BY <1>5 DEF Terminating, inside
<1> QED
  BY <1>1, <1>2, <1>3, <1>4, <1>5 DEF SystemNext, Work

LEMMA ServingStep == ProxyInv /\ Serving /\ [SystemNext]_system => Serving'
<1> SUFFICES ASSUME ProxyInv, Serving, [SystemNext]_system PROVE Serving'
  OBVIOUS
<1>1. CASE UNCHANGED vars /\ UNCHANGED service
  BY <1>1 DEF Serving, ServiceOK, Asking, Truthful, vars, service, Complete
<1>2. CASE UNCHANGED system
  BY <1>1, <1>2 DEF system, inside
<1>3. CASE SystemNext
  BY <1>1, <1>3, Cases, ServiceKept, AnswerKept, ProxyKept
<1> QED
  BY <1>2, <1>3

LEMMA InitServing == SystemInit => Serving
<1> SUFFICES ASSUME SystemInit PROVE Serving
  OBVIOUS
<1>1. ServiceOK
  BY DEF SystemInit, Enclave!Init, ServiceOK
<1>2. Asking
  BY DEF SystemInit, Enclave!Init, Asking
<1>3. Truthful
  <2>1. \A r \in Signing : answer[r] = "none"
    BY DEF SystemInit, Enclave!Init
  <2>2. \A r \in Requests : /\ reply[r].status = 0 /\ header[r].status = 0
                            /\ client[r].state = "none"
    BY DEF SystemInit, Init, NoHeader, NoResponse
  <2>3. ASSUME NEW r \in Signing
        PROVE  answer[r] # "ok" /\ reply[r].status # 200 /\ header[r].status # 200
               /\ ~ Complete(r)
    BY <2>1, <2>2, RoutesAssumption DEF Complete
  <2> QED
    BY <2>3 DEF Truthful
<1> QED
  BY <1>1, <1>2, <1>3 DEF Serving

\* Every 200 between the enclave and the requester stands for what the enclave
\* has done.
THEOREM AlwaysServing == SystemSpec => []Serving
<1>1. ProxyInv /\ Serving /\ [SystemNext]_system => Serving'
  BY ServingStep
<1> QED
  BY <1>1, InitServing, SystemProxyInv, PTL DEF SystemSpec

\* The types of the whole system.
THEOREM AlwaysSystemTypeOK == SystemSpec => []SystemTypeOK
<1>1. ProxyInv /\ Serving /\ Inside => SystemTypeOK
  BY DEF ProxyInv, Serving, ServiceOK, Inside, SystemTypeOK
<1> QED
  BY <1>1, SystemProxyInv, AlwaysServing, AlwaysInside, PTL

\* The requester who takes an answer for complete has the whole body, when the
\* enclave named its length, and no connection outlives its handler, also where
\* the enclave is the one that PrivySigner describes (proxy.go:55-66).
THEOREM SystemCopies == SystemSpec => [](SizedIsWhole /\ ClosesConnection)
<1>1. ProxyInv => SizedIsWhole /\ ClosesConnection
  BY DEF ProxyInv, Owned, ClosesConnection
<1> QED
  BY <1>1, SystemProxyInv, PTL

(***************************************************************************)
(* The service behind the proxy.                                           *)
(***************************************************************************)
\* What the requester is told changes when the handler returns, from nothing,
\* and to a success only after a 200 of the enclave.
LEMMA ToldOnce ==
    ASSUME ProxyInv, Serving, NEW r \in Requests,
           Handle(r) \/ Arrive(r) \/ WriteTimeout(r) \/ Lost(r) \/ GiveUp(r)
    PROVE  /\ \A q \in Requests \ {r} : Told(q)' = Told(q)
           /\ \/ Told(r)' = Told(r)
              \/ /\ Told(r) = "none"
                 /\ Told(r)' = "failed" \/ (Told(r)' = "ok" /\ header[r].status = 200)
<1>1. ASSUME NEW q \in Requests, client'[q] = client[q] PROVE Told(q)' = Told(q)
  BY <1>1 DEF Told, Complete, Failed
<1>2. \A q \in Requests \ {r} : client'[q] = client[q]
  BY DEF Handle, Forward, BadGateway, CopyHead, CopyPart, CopyEnds, Drain, Respond, Arrive,
         WriteTimeout, Lost, GiveUp, ProxyInv, TypeOK
<1>3. CASE client' = client
  BY <1>1, <1>3
<1>4. CASE Arrive(r) \/ GiveUp(r)
  <2>1. client[r].state # "answered" /\ client'[r].state # "answered"
    BY <1>4 DEF Arrive, GiveUp, ProxyInv, Written, TypeOK
  <2>2. Told(r) = "none" /\ Told(r)' = "none"
    BY <2>1 DEF Told, Complete, Failed
  <2> QED
    BY <1>1, <1>2, <2>2
<1>6. CASE Respond(r)
  <2>1. CASE client'[r] = client[r]
    BY <1>1, <1>2, <2>1
  <2>2. CASE client'[r] # client[r]
    <3>1. /\ client[r].state = "waiting"
          /\ \/ client'[r].state = "broken"
             \/ client'[r].response.status = header[r].status
      BY <1>6, <2>2 DEF Respond, ProxyInv, TypeOK
    <3>2. Told(r) = "none"
      BY <3>1 DEF Told, Complete, Failed
    <3>3. Told(r)' \in {"none", "failed"} \/ (Told(r)' = "ok" /\ header[r].status = 200)
      BY <3>1 DEF Told, Complete, Failed
    <3> QED
      BY <1>1, <1>2, <3>2, <3>3
  <2> QED
    BY <2>1, <2>2
<1> QED
  BY <1>3, <1>4, <1>6
     DEF Handle, Forward, BadGateway, CopyHead, CopyPart, CopyEnds, Drain, WriteTimeout, Lost

\* A success the requester is told of is one of the enclave.
LEMMA ToldKept ==
    ASSUME ProxyInv, Serving, NEW r \in Requests,
           Handle(r) \/ Arrive(r) \/ WriteTimeout(r) \/ Lost(r) \/ GiveUp(r),
           UNCHANGED service
    PROVE  [AtRequester!Next]_(AtRequester!vars)
<1> DEFINE told == [q \in Signing |-> Told(q)]
<1>1. \A q \in Signing \ {r} : Told(q)' = Told(q)
  BY ToldOnce, RoutesAssumption
<1>2. CASE r \notin Signing \/ Told(r)' = Told(r)
  <2>1. told' = told
    BY <1>1, <1>2
  <2> QED
    BY <2>1 DEF service, AtRequester!vars
<1>3. CASE r \in Signing /\ Told(r) = "none" /\ Told(r)' = "failed"
  <2>1. told' = [told EXCEPT ![r] = "failed"] /\ told[r] = "none"
    BY <1>1, <1>3
  <2>2. AtRequester!Fail(r)
    BY <2>1 DEF service, AtRequester!Fail
  <2> QED
    BY <1>3, <2>2 DEF AtRequester!Next
<1>4. CASE r \in Signing /\ Told(r) = "none" /\ Told(r)' = "ok" /\ header[r].status = 200
  <2>1. told' = [told EXCEPT ![r] = "ok"] /\ told[r] = "none"
    BY <1>1, <1>4
  <2>2. grant[r] # Nobody /\ (asked[r] # Record => \E s \in signed : s.request = r)
    BY <1>4 DEF Serving, Truthful
  <2>3. AtRequester!Succeed(r)
    BY <2>1, <2>2 DEF service, AtRequester!Succeed, AtRequester!SignedFor
  <2> QED
    BY <1>4, <2>3 DEF AtRequester!Next
<1> QED
  BY <1>2, <1>3, <1>4, ToldOnce

\* What the enclave does, the requester not being told of it, is a step of the
\* service too.
LEMMA ServiceSeen ==
    ASSUME ProxyInv, NEW r \in Signing, ServiceStep(r), UNCHANGED vars
    PROVE  [AtRequester!Next]_(AtRequester!vars)
<1> DEFINE told == [q \in Signing |-> Told(q)]
<1>1. told' = told
  BY DEF vars, Told, Complete, Failed
<1>2. ASSUME NEW u \in Users, NEW thing \in Things, enclave[r] = "working",
             Enclave!Grant(r, u, thing)
      PROVE  AtRequester!Next
  <2>1. told[r] = "none"
    BY <1>2, RoutesAssumption DEF Told, ProxyInv, Written
  <2>2. AtRequester!Grant(r, u, thing)
    BY <1>1, <1>2, <2>1 DEF Enclave!Grant, AtRequester!Grant
  <2> QED
    BY <2>2 DEF AtRequester!Next
<1>3. ASSUME NEW w \in Wallets, Enclave!Provision(r, w) PROVE AtRequester!Next
  <2>1. AtRequester!Provision(r, w)
    BY <1>1, <1>3 DEF Enclave!Provision, AtRequester!Provision
  <2> QED
    BY <2>1 DEF AtRequester!Next
<1>4. ASSUME NEW w \in Wallets, Enclave!Sign(r, w) PROVE AtRequester!Next
  <2>1. AtRequester!Sign(r, w)
    BY <1>1, <1>4 DEF Enclave!Sign, AtRequester!Sign, Enclave!SignedFor, AtRequester!SignedFor
  <2> QED
    BY <2>1 DEF AtRequester!Next
<1>5. CASE Enclave!Succeed(r) \/ Enclave!Fail(r)
  BY <1>1, <1>5 DEF Enclave!Succeed, Enclave!Fail, AtRequester!vars
<1> QED
  BY <1>2, <1>3, <1>4, <1>5 DEF ServiceStep

\* The system implements the service: what the requester is told through the
\* proxy, whatever is lost on the way, keeps the promise the enclave makes, and
\* a request is signed once at most (proxy.go:50-66).
THEOREM Refinement == SystemSpec => ServesRequester
<1>1. SystemInit => AtRequester!Init
  <2> SUFFICES ASSUME SystemInit PROVE AtRequester!Init
    OBVIOUS
  <2>1. \A r \in Signing : Told(r) = "none"
    BY RoutesAssumption DEF SystemInit, Init, Told, Complete, Failed
  <2> QED
    BY <2>1 DEF SystemInit, Enclave!Init, AtRequester!Init
<1>2. ProxyInv /\ Serving /\ [SystemNext]_system => [AtRequester!Next]_(AtRequester!vars)
  <2> SUFFICES ASSUME ProxyInv, Serving, [SystemNext]_system
               PROVE  [AtRequester!Next]_(AtRequester!vars)
    OBVIOUS
  <2>1. CASE UNCHANGED client /\ UNCHANGED service
    BY <2>1 DEF service, AtRequester!vars, Told, Complete, Failed
  <2>2. CASE UNCHANGED system
    BY <2>1, <2>2 DEF system, vars, inside
  <2>3. ASSUME NEW r \in Requests, EnclaveAnswers(r) PROVE UNCHANGED client /\ UNCHANGED service
    BY <2>3 DEF EnclaveAnswers, Answer, inside
  <2>4. UNCHANGED vars => UNCHANGED client
    BY DEF vars
  <2>5. CASE SystemNext
    BY <2>1, <2>3, <2>4, <2>5, Cases, ServiceSeen, ToldKept
  <2> QED
    BY <2>2, <2>5
<1> QED
  BY <1>1, <1>2, SystemProxyInv, AlwaysServing, PTL
     DEF SystemSpec, ServesRequester, AtRequester!Spec
================================================================================
