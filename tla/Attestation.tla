------------------------------ MODULE Attestation ------------------------------
(***************************************************************************)
(* The two attestation routes. Each request opens a session of the         *)
(* security module, asks it for a document and closes the session when     *)
(* Attest returns; one of the routes verifies the document before it       *)
(* answers. The security module and the verification are external.         *)
(***************************************************************************)
CONSTANTS
    Requests,
    Documents   \* those of GET /attest/doc, the others ask for the bytes

VARIABLES
    step,       \* where the handler of each request is
    session     \* the session of the security module: "none", "open", "closed"

vars == <<step, session>>

Init ==
    /\ step = [r \in Requests |-> "nonce"]
    /\ session = [r \in Requests |-> "none"]

Goto(r, place) == step' = [step EXCEPT ![r] = place]

\* The nonce is no number of 64 bits: the request is answered 400.
BadNonce(r) == step[r] = "nonce" /\ Goto(r, "refused") /\ UNCHANGED session

OpenDefaultSession(r) ==
    /\ step[r] = "nonce"
    /\ \/ Goto(r, "failed") /\ UNCHANGED session
       \/ Goto(r, "send") /\ session' = [session EXCEPT ![r] = "open"]

\* Mutant of Attest: the session is closed when there is a document.
AttestLeaks(r) ==
    /\ step[r] = "send"
    /\ \/ Goto(r, "failed") /\ UNCHANGED session
       \/ /\ Goto(r, IF r \in Documents THEN "verify" ELSE "attested")
          /\ session' = [session EXCEPT ![r] = "closed"]

\* Send fails, the answer holds an error or no document, or there is one. On
\* each return the deferred Close runs.
Attest(r) ==
    /\ step[r] = "send"
    /\ \/ Goto(r, "failed")
       \/ Goto(r, IF r \in Documents THEN "verify" ELSE "attested")
    /\ session' = [session EXCEPT ![r] = "closed"]

AttestAndVerify(r) ==
    /\ step[r] = "verify"
    /\ Goto(r, "attested") \/ Goto(r, "failed")
    /\ UNCHANGED session

Step(r) == BadNonce(r) \/ OpenDefaultSession(r) \/ Attest(r) \/ AttestAndVerify(r)

Done(r) == step[r] \in {"refused", "failed", "attested"}

TypeOK ==
    /\ step \in [Requests -> {"nonce", "send", "verify", "refused", "failed", "attested"}]
    /\ session \in [Requests -> {"none", "open", "closed"}]

\* A session is open while the module is asked and at no other time, however
\* the asking ends (attestation.go:24).
SessionClosed == \A r \in Requests : session[r] = "open" <=> step[r] = "send"
================================================================================
