----------------------------- MODULE MCPrivySigner -----------------------------
(***************************************************************************)
(* Instances of PrivySigner for TLC.                                       *)
(***************************************************************************)
EXTENDS PrivySignerInvariant, TLC

CONSTANTS u1, u2, h1, h2

MCUsers == {u1, u2}
MCHashes == {h1, h2}

Jwt(user) == [kind |-> "jwt", alg |-> "ES256", verifies |-> TRUE, aud |-> "app",
              iss |-> "privy.io", exp |-> 1, nbf |-> 0, sub |-> user]

MacOf(h) == [kind |-> "hmac", key |-> "axal", message |-> h]

Ask(route, auth, h, id) ==
    [route |-> route, auth |-> auth, well_formed |-> TRUE,
     method |-> "secp256k1_sign", hash |-> h, privy_id |-> id]

\* Requests the clients of the service make.
GoodInputs ==
    {Ask("get", Jwt(u1), Empty, Empty), Ask("user", Jwt(u1), h1, Empty),
     Ask("axal", MacOf(h1), h1, u2)}

UserInputs == {Ask("get", Jwt(u1), Empty, Empty), Ask("user", Jwt(u1), h1, Empty)}

\* Every check of an input that can fail, failing alone.
BadInputs ==
    LET ask == Ask("user", Jwt(u1), h1, Empty)
        axal == Ask("axal", MacOf(h1), h1, u2)
    IN  {[ask EXCEPT !.auth = NoCredential], [ask EXCEPT !.well_formed = FALSE],
         [ask EXCEPT !.method = Foreign], [ask EXCEPT !.hash = Empty],
         [ask EXCEPT !.auth.alg = Foreign], [ask EXCEPT !.auth.verifies = FALSE],
         [ask EXCEPT !.auth.aud = Foreign], [ask EXCEPT !.auth.iss = Foreign],
         [ask EXCEPT !.auth.sub = Foreign], [ask EXCEPT !.auth.nbf = 2],
         [ask EXCEPT !.auth = MacOf(h1)],
         [axal EXCEPT !.auth.key = Foreign], [axal EXCEPT !.hash = h2],
         [axal EXCEPT !.privy_id = Empty], [axal EXCEPT !.auth = Jwt(u2)]}

AllInputs == GoodInputs \union BadInputs

Wallet(id, delegated) == [id |-> id, delegated |-> delegated, chain |-> "ethereum"]

\* u1 has no wallet; u2 has none, has a delegated one, or has an account
\* without an id next to one that is not delegated.
MixedAccounts ==
    {(u1 :> <<>>) @@ (u2 :> <<>>),
     (u1 :> <<[Wallet(2, TRUE) EXCEPT !.chain = "other"]>>)
        @@ (u2 :> <<Wallet(1, TRUE)>>),
     (u1 :> <<Wallet(2, FALSE)>>) @@ (u2 :> <<Wallet(NoId, TRUE), Wallet(1, TRUE)>>)}

NoWallets == {(u1 :> <<>>) @@ (u2 :> <<>>)}

SomeMovers == {u1}
Nobodies == {}
================================================================================
