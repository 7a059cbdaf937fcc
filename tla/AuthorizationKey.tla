--------------------------- MODULE AuthorizationKey ----------------------------
(***************************************************************************)
(* The authorization signature of a call to Privy: SignPayload copies the  *)
(* key of the enclave into locked memory, parses it, and signs the payload *)
(* with it. Each locked buffer is destroyed by a defer set where it is     *)
(* made, so a return destroys those its function has made, whichever       *)
(* return it is. Base64, PKCS8, ECDSA and the locked memory itself         *)
(* (memguard) are external.                                                *)
(***************************************************************************)
CONSTANT Signings \* the calls of SignPayload

VARIABLES
    at,      \* where each call is
    buffers  \* the locked buffers it has made and not destroyed

vars == <<at, buffers>>

Places == {"idle", "key", "base64", "decode", "parsed", "payload", "hash", "signed", "failed"}
Buffers == {"auth", "b64", "pkcs8", "payload", "hash"}

Init ==
    /\ at = [r \in Signings |-> "idle"]
    /\ buffers = [r \in Signings |-> {}]

Goto(r, place) == at' = [at EXCEPT ![r] = place]

\* newSecureMemory, newSecureMemoryFromData.
Make(r, from, to, buffer) ==
    /\ at[r] = from /\ Goto(r, to)
    /\ buffers' = [buffers EXCEPT ![r] = @ \union {buffer}]

\* Mutant of Return: a failing function returns before it sets its defers.
ReturnLeaks(r, from, to) ==
    /\ at[r] = from /\ Goto(r, to)
    /\ buffers' = [buffers EXCEPT ![r] = IF to = "failed" THEN @ ELSE {}]

\* A function returns and its deferred calls of destroy run.
Return(r, from, to) ==
    /\ at[r] = from /\ Goto(r, to)
    /\ buffers' = [buffers EXCEPT ![r] = {}]

\* parsePrivateKeyFromAuthorizationKeyBytes: the key as configured, its base64
\* part, room for what that decodes to.
parsePrivateKey(r) ==
    \/ Make(r, "idle", "key", "auth")
    \/ Make(r, "key", "base64", "b64")
    \/ Make(r, "base64", "decode", "pkcs8")
    \/ Return(r, "decode", "parsed")
    \/ Return(r, "decode", "failed") \* no base64, no PKCS8 or no ECDSA key

\* The rest of SignPayload: the payload, its hash, the signature.
SignPayload(r) ==
    \/ Make(r, "parsed", "payload", "payload")
    \/ Make(r, "payload", "hash", "hash")
    \/ Return(r, "hash", "signed")
    \/ Return(r, "hash", "failed")

Step(r) == parsePrivateKey(r) \/ SignPayload(r)

Busy(r) == at[r] \notin {"idle", "signed", "failed"}

TypeOK ==
    /\ at \in [Signings -> Places]
    /\ buffers \in [Signings -> SUBSET Buffers]

\* No buffer outlives its call, on whichever return (signing.go:70-130).
BuffersReturned == \A r \in Signings : ~ Busy(r) => buffers[r] = {}
================================================================================
