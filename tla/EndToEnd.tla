------------------------------- MODULE EndToEnd --------------------------------
(***************************************************************************)
(* A request from the requester to the enclave and back: the HTTP proxy of *)
(* the host in front of the enclave's handlers, which are the service that *)
(* PrivySigner implements, with the authorization signature each call to   *)
(* Privy needs, and the attestation routes. The handlers do not look at    *)
(* the connection while they work: what the proxy loses, or stops waiting  *)
(* for, goes on inside.                                                    *)
(***************************************************************************)
EXTENDS HttpProxy, FiniteSets

CONSTANTS
    Signing,    \* the requests of the user and signing routes
    Attesting,  \* those of the attestation routes
    Documents, Users, Wallets, Hashes, Record, Nobody, Nothing

ASSUME RoutesAssumption ==
    /\ Signing \union Attesting = Requests
    /\ Signing \intersect Attesting = {}
    /\ Documents \subseteq Attesting
    /\ Record \notin Hashes

VARIABLES
    grant, asked, held, signed, answer, \* of SigningService
    at, buffers,                        \* of AuthorizationKey
    step, session                       \* of Attestation

service == <<grant, asked, held, signed, answer>>
inside == <<service, at, buffers, step, session>>
system == <<vars, inside>>

Things == Hashes \union {Record}

Enclave == INSTANCE SigningService WITH Requests <- Signing
Key == INSTANCE AuthorizationKey WITH Signings <- Signing
Nsm == INSTANCE Attestation WITH Requests <- Attesting

SystemInit == Init /\ Enclave!Init /\ Key!Init /\ Nsm!Init

(***************************************************************************)
(* The enclave's handlers, once the request is there.                      *)
(***************************************************************************)
\* A goroutine grants the request, then makes the authorization signature of a
\* call that signs, and answers.
Serve(r) ==
    /\ enclave[r] = "working" /\ answer[r] = "none"
    /\ \/ /\ ~ Key!Busy(r)
          /\ \/ \E u \in Users, thing \in Things : Enclave!Grant(r, u, thing)
             \/ Enclave!Succeed(r)
             \/ Enclave!Fail(r)
          /\ UNCHANGED <<at, buffers>>
       \/ /\ asked[r] \in Hashes
          /\ Key!Step(r)
          /\ UNCHANGED service
    /\ UNCHANGED <<vars, step, session>>

\* Privy acts on the calls of the handler, which it may have given up by then.
Privy(r) ==
    /\ enclave[r] # "none"
    /\ \E w \in Wallets : \/ Enclave!Provision(r, w)
                          \/ at[r] = "signed" /\ Enclave!Sign(r, w)
    /\ UNCHANGED <<vars, at, buffers, step, session>>

Attest(r) ==
    /\ enclave[r] = "working"
    /\ Nsm!Step(r)
    /\ UNCHANGED <<vars, service, at, buffers>>

Work(r) == (r \in Signing /\ Serve(r)) \/ (r \in Attesting /\ Attest(r))

\* The handler is done. A signature and an error are short; an attestation is
\* longer than what net/http holds back to count it.
EnclaveAnswers(r) ==
    /\ \/ /\ r \in Signing
          /\ \/ answer[r] = "failed" /\ Answer(r, 500, TRUE)
             \/ answer[r] = "ok" /\ asked[r] \in Hashes /\ Answer(r, 200, TRUE)
             \/ answer[r] = "ok" /\ asked[r] = Record
                   /\ \E sized \in BOOLEAN : Answer(r, 200, sized)
       \/ /\ r \in Attesting /\ Nsm!Done(r)
          /\ IF step[r] = "attested" THEN Answer(r, 200, FALSE) ELSE Answer(r, 500, TRUE)
    /\ UNCHANGED inside

(***************************************************************************)
(* The system.                                                             *)
(***************************************************************************)
Proxy(r) == Handle(r) /\ UNCHANGED inside

Around(r) == (Arrive(r) \/ WriteTimeout(r) \/ Lost(r) \/ GiveUp(r)) /\ UNCHANGED inside

SystemNext ==
    \/ \E r \in Requests : Around(r) \/ Proxy(r) \/ Work(r) \/ EnclaveAnswers(r)
    \/ \E r \in Signing : Privy(r)
    \/ Terminating /\ UNCHANGED inside

\* Goroutines run, in the host and in the enclave, where every call has an end
\* (EveryRequestAnswered of PrivySigner).
SystemSpec ==
    /\ SystemInit /\ [][SystemNext]_system
    /\ \A r \in Requests :
          WF_system(Proxy(r)) /\ WF_system(Work(r) \/ EnclaveAnswers(r))

(***************************************************************************)
(* Properties.                                                             *)
(***************************************************************************)
SystemTypeOK ==
    /\ TypeOK /\ Key!TypeOK /\ Nsm!TypeOK
    /\ grant \in [Signing -> Users \union {Nobody}]
    /\ asked \in [Signing -> Things \union {Nothing}]
    /\ held \in [Users -> SUBSET Wallets]
    /\ signed \subseteq [request : Signing, wallet : Wallets, hash : Hashes]
    /\ answer \in [Signing -> {"none", "ok", "failed"}]

\* When a handler of the enclave is done, or waits for Privy, it holds neither
\* locked memory nor a session of the security module, whatever has failed and
\* wherever the requester has gone (signing.go:70, attestation.go:24). None ever
\* holds more than three buffers: the memory that may be locked bounds the calls
\* under way.
NothingHeld ==
    /\ Key!BuffersReturned /\ Nsm!SessionClosed
    /\ \A r \in Signing : Cardinality(buffers[r]) <= 3

Failed(r) == client[r].state = "answered" /\ client[r].response.status = 500

\* What a requester is told. A 500 of the proxy and one of the enclave look the
\* same. A 502, a broken connection and a record that is cut short say nothing.
Told(r) ==
    IF Failed(r) THEN "failed"
    ELSE IF Complete(r) /\ client[r].response.parts = Parts THEN "ok" ELSE "none"

AtRequester == INSTANCE SigningService WITH
    Requests <- Signing, answer <- [r \in Signing |-> Told(r)]

\* The promise of the enclave holds for what the requester sees behind the
\* proxy: one who is told of a signature has one, and a request is signed once
\* at most, also when its answer was lost on the way (proxy.go:50-66).
ServesRequester == AtRequester!Spec
================================================================================
