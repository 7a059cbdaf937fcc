------------------------------- MODULE PrivyAuth -------------------------------
(***************************************************************************)
(* The checks an HTTP request passes before the enclave does any work for  *)
(* it: the early returns of the gin handlers (enclave/router), the         *)
(* validation of the request body (privy-signer/data) and the two ways of  *)
(* proving an identity (privy-signer/auth): a Privy JWT, or an HMAC of the *)
(* hash to sign made with the key shared with the Axal backend.            *)
(*                                                                         *)
(* Signatures and MACs are abstracted to who could have made them: a token *)
(* "verifies" or not under the configured key, a MAC is the pair of the    *)
(* key and the message it was computed from.                               *)
(***************************************************************************)
EXTENDS Integers

CONSTANTS
    Users,        \* the Privy ids ("did:privy:...") of the users
    Hashes,       \* the hashes a client may ask to have signed
    Environment   \* TEEConfig.Environment

ASSUME EnvironmentAssumption ==
    Environment \in {"prod", "staging", "dev", "local"}

Empty == ""        \* the empty string, in a JSON field or a claim
Foreign == "other" \* any value that is not the one the check asks for

ASSUME NamesAssumption ==
    /\ Empty \notin Users /\ Foreign \notin Users
    /\ Empty \notin Hashes /\ Foreign \notin Hashes

(***************************************************************************)
(* The value of the "auth" header: absent, a JWT, or a MAC.                *)
(***************************************************************************)
NoCredential == [kind |-> "none"]

PrivyClaims ==
    [kind: {"jwt"}, alg: {"ES256", Foreign}, verifies: BOOLEAN,
     aud: {"app", Foreign}, iss: {"privy.io", Foreign},
     exp: Int, nbf: Int, sub: Users \union {Empty, Foreign}]

Mac == [kind: {"hmac"}, key: {"axal", Foreign}, message: Hashes]

Credential == {NoCredential} \union PrivyClaims \union Mac

(***************************************************************************)
(* What a client sends. "get" is GET /api/v1/user, "user" and "axal" are   *)
(* the two secp256k1Sign routes. well_formed says that the JSON binds;     *)
(* privy_id is the field of the axal body, unused on the other routes.     *)
(***************************************************************************)
Input ==
    [route: {"get", "user", "axal"}, auth: Credential, well_formed: BOOLEAN,
     method: {"secp256k1_sign", Foreign}, hash: Hashes \union {Empty},
     privy_id: Users \union {Empty}]

ValidateTxRequest(i) ==
    /\ i.method = "secp256k1_sign"
    /\ i.hash # Empty
    /\ i.route = "axal" => i.privy_id # Empty

\* The status with which a handler refuses a request before any identity is
\* checked, 0 when it goes on.
Screen(i) ==
    IF i.auth = NoCredential THEN 401
    ELSE IF i.route # "get" /\ ~(i.well_formed /\ ValidateTxRequest(i)) THEN 400
    ELSE 0

\* The claims the code checks itself; "now" is the wall clock. In dev and
\* local the expiry is not looked at, so that dummy tokens can be used.
validatePrivyClaims(t, now) ==
    /\ t.aud = "app"
    /\ t.iss = "privy.io"
    /\ Environment \in {"prod", "staging"} => t.exp >= now
    /\ t.sub \notin {Empty, Foreign}

\* The library verifies the signature and nbf. It does not see exp: the field
\* of that name in PrivyClaims hides the one of jwt.RegisteredClaims.
ValidateJWT(t, now) ==
    /\ t.alg = "ES256"
    /\ t.verifies
    /\ t.nbf <= now
    /\ validatePrivyClaims(t, now)

\* Mutant of VerifyAxalSignature: the MAC is not compared with the payload's.
VerifyAxalKey(payload, mac) == mac.kind = "hmac" /\ mac.key = "axal"

VerifyAxalSignature(payload, mac) ==
    mac = [kind |-> "hmac", key |-> "axal", message |-> payload]

\* Input i passes as one of user u at time now. On the user's routes its token says
\* so; on the axal route u is whom the body names, and the MAC over the hash says
\* nothing of u.
Authenticates(i, u, now) ==
    \/ /\ i.route \in {"get", "user"}
       /\ i.auth.kind = "jwt"
       /\ ValidateJWT(i.auth, now)
       /\ u = i.auth.sub
    \/ /\ i.route = "axal"
       /\ VerifyAxalSignature(i.hash, i.auth)
       /\ u = i.privy_id
================================================================================
