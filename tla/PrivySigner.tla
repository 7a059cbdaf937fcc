------------------------------ MODULE PrivySigner ------------------------------
(***************************************************************************)
(* The signing service of the enclave: gin runs every HTTP request in a    *)
(* goroutine of its own, and all of them share one PrivyClient, its user   *)
(* cache and the user's account at Privy. A request is screened,           *)
(* authenticated, resolved to the user's record (from the cache, or from   *)
(* Privy, creating a wallet when the user has no delegated one) and, on    *)
(* the two signing routes, signed by Privy with the wallet of the record.  *)
(*                                                                         *)
(* A step of a handler ends where it calls Privy or touches the cache, so  *)
(* handlers interleave there. Privy serves a call in a step of its own, at *)
(* any time or never; when a handler has given up on a call, Privy may     *)
(* still serve it. Nothing is persisted by the enclave: a restart is a     *)
(* behaviour that begins with other accounts.                              *)
(***************************************************************************)
EXTENDS PrivyAuth, UserCache, Sequences

CONSTANTS
    Requests,        \* the HTTP requests of a behaviour
    Inputs,          \* what those requests may hold
    InitialAccounts, \* the linked accounts the users may start with
    FirstId,         \* the first wallet id that Privy has not given out
    PrivyErrors,     \* the statuses, 200 excepted, Privy may answer with
    Movers,          \* users who may, once, change the delegation of a wallet
    MaxWallets,      \* bound: the wallet ids that Privy can give out
    MaxClock         \* bound: the clock stops here

NoId == 0 \* an account without an id: Privy gives none to external wallets

Account == [id: Nat, delegated: BOOLEAN, chain: {"ethereum", "other"}]

\* PrivyUser: what the enclave keeps of a user.
PrivyUser == [id: Users \union {Empty}, linked: Seq(Account)]

NoUser == [id |-> Empty, linked |-> <<>>]

Ids(linked) == {linked[n].id : n \in DOMAIN linked} \ {NoId}

\* No wallet belongs to two users, and the ids from next on are free.
WellOwned(acc, next) ==
    /\ \A u \in Users : \A w \in Ids(acc[u]) : w < next
    /\ \A u, v \in Users : u # v => Ids(acc[u]) \intersect Ids(acc[v]) = {}

ASSUME SignerAssumption ==
    /\ Inputs \subseteq Input
    /\ FirstId \in Nat \ {NoId} /\ MaxWallets \in Nat /\ MaxClock \in Nat
    /\ FirstId <= MaxWallets + 1
    /\ \A acc \in InitialAccounts :
          acc \in [Users -> Seq(Account)] /\ WellOwned(acc, FirstId)
    /\ PrivyErrors \subseteq Nat \ {0, 200}
    /\ Movers \subseteq Users

(***************************************************************************)
(* The first delegated Ethereum wallet of a list of accounts.              *)
(***************************************************************************)
isEthDelegated(a) == a.delegated /\ a.chain = "ethereum"

FirstDelegated(linked) ==
    {n \in DOMAIN linked :
        /\ isEthDelegated(linked[n])
        /\ \A m \in 1 .. (n - 1) : ~isEthDelegated(linked[m])}

HasDelegated(linked) == FirstDelegated(linked) # {}

GetUsersEthDelegatedWallet(linked) == linked[CHOOSE n \in FirstDelegated(linked) : TRUE]

(***************************************************************************)
(* The state.                                                              *)
(***************************************************************************)
VARIABLES
    clock,      \* the wall clock
    accounts,   \* at Privy: the linked accounts of each user, oldest first
    nextId,     \* at Privy: the next wallet id
    changed,    \* the users whose delegation has changed
    signatures, \* every signature Privy has made
    cache,      \* userCache
    pc,         \* where each handler is
    input,      \* the request it serves
    who,        \* the privyId it acts for
    record,     \* the PrivyUser it has got
    call,       \* the call to Privy that Privy has not served yet
    reply,      \* Privy's answer to its last call
    code        \* the HTTP status it answered with

privy == <<accounts, nextId, signatures>>
handler == <<pc, input, who, record, code>>
vars == <<clock, changed, privy, cache, handler, call, reply>>

Awaiting == {"awaitUser", "awaitCreate", "awaitSign"}

NoCall == [op |-> "none", wallet |-> NoId]
Call == [op: {"none", "getUser", "createWallet", "sign"}, wallet: Nat]

NoReply == [status |-> 0, linked |-> <<>>]
Reply == [status: Nat, linked: Seq(Account)]

Signature == [request: Requests, wallet: Nat, hash: Hashes \union {Empty}]

NoInput == [route |-> "get", auth |-> NoCredential, well_formed |-> FALSE,
            method |-> Foreign, hash |-> Empty, privy_id |-> Empty]

Init ==
    /\ clock = 0
    /\ accounts \in InitialAccounts
    /\ nextId = FirstId
    /\ changed = {}
    /\ signatures = {}
    /\ cache = [u \in Users |-> NoEntry(NoUser)]
    /\ pc = [r \in Requests |-> "idle"]
    /\ input = [r \in Requests |-> NoInput]
    /\ who = [r \in Requests |-> Empty]
    /\ record = [r \in Requests |-> NoUser]
    /\ call = [r \in Requests |-> NoCall]
    /\ reply = [r \in Requests |-> NoReply]
    /\ code = [r \in Requests |-> 0]

(***************************************************************************)
(* Steps of the handlers.                                                  *)
(***************************************************************************)
Goto(r, place) == pc' = [pc EXCEPT ![r] = place]

Answer(r, status) ==
    /\ Goto(r, "done")
    /\ code' = [code EXCEPT ![r] = status]

\* Mutant of Send: the answer to the previous call is left where it was.
SendKeepsReply(r, op, wallet, place) ==
    /\ call' = [call EXCEPT ![r] = [op |-> op, wallet |-> wallet]]
    /\ UNCHANGED reply
    /\ Goto(r, place)

\* client.Do: the request leaves for Privy and the handler waits.
Send(r, op, wallet, place) ==
    /\ call' = [call EXCEPT ![r] = [op |-> op, wallet |-> wallet]]
    /\ reply' = [reply EXCEPT ![r] = NoReply]
    /\ Goto(r, place)

\* gin calls the handler; a request it refuses at once is answered.
Receive(r, i) ==
    /\ pc[r] = "idle"
    /\ input' = [input EXCEPT ![r] = i]
    /\ IF Screen(i) = 0
       THEN Goto(r, "auth") /\ UNCHANGED code
       ELSE Answer(r, Screen(i))
    /\ UNCHANGED <<clock, changed, privy, cache, who, record, call, reply>>

Authenticate(r, u) ==
    /\ pc[r] = "auth"
    /\ Authenticates(input[r], u, clock)
    /\ who' = [who EXCEPT ![r] = u]
    /\ Goto(r, "lookup")
    /\ UNCHANGED <<clock, changed, privy, cache, input, record, code, call, reply>>

Unauthorized(r) ==
    /\ pc[r] = "auth"
    /\ \A u \in Users : ~Authenticates(input[r], u, clock)
    /\ Answer(r, 401)
    /\ UNCHANGED <<clock, changed, privy, cache, input, who, record, call, reply>>

\* Mutant of CacheHit: the lookup ignores the key.
CacheHitAnyKey(r) ==
    /\ pc[r] = "lookup"
    /\ \E u \in Users :
          /\ Fresh(cache, u, clock)
          /\ record' = [record EXCEPT ![r] = cache[u].value]
          /\ cache' = Touch(cache, u, clock)
    /\ Goto(r, "gotUser")
    /\ UNCHANGED <<clock, changed, privy, input, who, code, call, reply>>

CacheHit(r) ==
    /\ pc[r] = "lookup"
    /\ Fresh(cache, who[r], clock)
    /\ record' = [record EXCEPT ![r] = cache[who[r]].value]
    /\ cache' = Touch(cache, who[r], clock)
    /\ Goto(r, "gotUser")
    /\ UNCHANGED <<clock, changed, privy, input, who, code, call, reply>>

\* Mutant of CacheMiss: a path Privy does not know.
CacheMissWrongPath(r) ==
    /\ pc[r] = "lookup"
    /\ ~Fresh(cache, who[r], clock)
    /\ Send(r, "getUsers", NoId, "awaitUser")
    /\ UNCHANGED <<clock, changed, privy, cache, input, who, record, code>>

CacheMiss(r) ==
    /\ pc[r] = "lookup"
    /\ ~Fresh(cache, who[r], clock)
    /\ Send(r, "getUser", NoId, "awaitUser")
    /\ UNCHANGED <<clock, changed, privy, cache, input, who, record, code>>

\* createUserWalletsIfNotExists returns the user it is given...
UserHasWallet(r) ==
    /\ pc[r] = "awaitUser" /\ reply[r].status = 200
    /\ HasDelegated(reply[r].linked)
    /\ record' = [record EXCEPT ![r] = [id |-> who[r], linked |-> reply[r].linked]]
    /\ Goto(r, "store")
    /\ UNCHANGED <<clock, changed, privy, cache, input, who, code, call, reply>>

\* ... or asks Privy for a wallet.
UserLacksWallet(r) ==
    /\ pc[r] = "awaitUser" /\ reply[r].status = 200
    /\ ~HasDelegated(reply[r].linked)
    /\ record' = [record EXCEPT ![r] = [id |-> who[r], linked |-> reply[r].linked]]
    /\ Send(r, "createWallet", NoId, "awaitCreate")
    /\ UNCHANGED <<clock, changed, privy, cache, input, who, code>>

\* Mutant of WalletCreated: the last delegated wallet instead of the first.
NewestWalletCreated(r) ==
    /\ pc[r] = "awaitCreate" /\ reply[r].status = 200
    /\ \E n \in DOMAIN reply[r].linked :
          /\ isEthDelegated(reply[r].linked[n])
          /\ \A m \in DOMAIN reply[r].linked : isEthDelegated(reply[r].linked[m]) => m <= n
          /\ record' = [record EXCEPT ![r].linked = Append(@, reply[r].linked[n])]
    /\ Goto(r, "store")
    /\ UNCHANGED <<clock, changed, privy, cache, input, who, code, call, reply>>

WalletCreated(r) ==
    /\ pc[r] = "awaitCreate" /\ reply[r].status = 200
    /\ HasDelegated(reply[r].linked)
    /\ record' = [record EXCEPT ![r].linked =
                     Append(@, GetUsersEthDelegatedWallet(reply[r].linked))]
    /\ Goto(r, "store")
    /\ UNCHANGED <<clock, changed, privy, cache, input, who, code, call, reply>>

WalletNotDelegated(r) ==
    /\ pc[r] = "awaitCreate" /\ reply[r].status = 200
    /\ ~HasDelegated(reply[r].linked)
    /\ Answer(r, 500)
    /\ UNCHANGED <<clock, changed, privy, cache, input, who, record, call, reply>>

\* Mutant of CacheStore: the record is stored under the id of another user.
CacheStoreElsewhere(r) ==
    /\ pc[r] = "store"
    /\ \E u \in Users : cache' = Put(cache, u, record[r], clock, NoUser)
    /\ Goto(r, "gotUser")
    /\ UNCHANGED <<clock, changed, privy, input, who, record, code, call, reply>>

CacheStore(r) ==
    /\ pc[r] = "store"
    /\ cache' = Put(cache, who[r], record[r], clock, NoUser)
    /\ Goto(r, "gotUser")
    /\ UNCHANGED <<clock, changed, privy, input, who, record, code, call, reply>>

AnswerUser(r) ==
    /\ pc[r] = "gotUser" /\ input[r].route = "get"
    /\ Answer(r, 200)
    /\ UNCHANGED <<clock, changed, privy, cache, input, who, record, call, reply>>

CanSign(r) ==
    /\ HasDelegated(record[r].linked)
    /\ GetUsersEthDelegatedWallet(record[r].linked).id # NoId

NoUsableWallet(r) ==
    /\ pc[r] = "gotUser" /\ input[r].route # "get"
    /\ ~CanSign(r)
    /\ Answer(r, 400)
    /\ UNCHANGED <<clock, changed, privy, cache, input, who, record, call, reply>>

SendSign(r) ==
    /\ pc[r] = "gotUser" /\ input[r].route # "get"
    /\ CanSign(r)
    /\ Send(r, "sign", GetUsersEthDelegatedWallet(record[r].linked).id, "awaitSign")
    /\ UNCHANGED <<clock, changed, privy, cache, input, who, record, code>>

\* prepSigningTxRequest fails: no authorization signature can be made.
PrepFails(r) ==
    /\ pc[r] = "gotUser" /\ input[r].route # "get"
    /\ CanSign(r)
    /\ Answer(r, 500)
    /\ UNCHANGED <<clock, changed, privy, cache, input, who, record, call, reply>>

Signed(r) ==
    /\ pc[r] = "awaitSign" /\ reply[r].status = 200
    /\ Answer(r, 200)
    /\ UNCHANGED <<clock, changed, privy, cache, input, who, record, call, reply>>

\* Mutant of PrivyRefused: the error is reported with status 200.
PrivyRefusedOk(r) ==
    /\ pc[r] \in Awaiting /\ reply[r].status \in PrivyErrors
    /\ Answer(r, 200)
    /\ UNCHANGED <<clock, changed, privy, cache, input, who, record, call, reply>>

\* handlePrivyError: the client gets the status of Privy.
PrivyRefused(r) ==
    /\ pc[r] \in Awaiting /\ reply[r].status \in PrivyErrors
    /\ Answer(r, reply[r].status)
    /\ UNCHANGED <<clock, changed, privy, cache, input, who, record, call, reply>>

\* Mutant of CallFails: no timeout, only answers that cannot be read.
CallFailsOnAnswer(r) ==
    /\ pc[r] \in Awaiting /\ reply[r].status # 0
    /\ Answer(r, 500)
    /\ UNCHANGED <<clock, changed, privy, cache, input, who, record, call, reply>>

\* client.Do fails or times out, or the body cannot be read or parsed. The call
\* is not taken back.
CallFails(r) ==
    /\ pc[r] \in Awaiting
    /\ Answer(r, 500)
    /\ UNCHANGED <<clock, changed, privy, cache, input, who, record, call, reply>>

(***************************************************************************)
(* Steps of Privy.                                                         *)
(***************************************************************************)
Respond(r, status, linked) ==
    /\ reply' = [reply EXCEPT ![r] = [status |-> status, linked |-> linked]]
    /\ call' = [call EXCEPT ![r] = NoCall]
    /\ UNCHANGED <<clock, changed, cache, handler>>

ServeGetUser(r) ==
    /\ call[r].op = "getUser"
    /\ Respond(r, 200, accounts[who[r]])
    /\ UNCHANGED privy

\* The new wallet is delegated when DelegatedActionsKeyId names a signer that
\* Privy knows; no check of the configuration says that it does.
ServeCreateWallet(r, delegated) ==
    /\ call[r].op = "createWallet"
    /\ nextId <= MaxWallets
    /\ LET wallet == [id |-> nextId, delegated |-> delegated, chain |-> "ethereum"]
           linked == Append(accounts[who[r]], wallet)
       IN  /\ accounts' = [accounts EXCEPT ![who[r]] = linked]
           /\ Respond(r, 200, linked)
    /\ nextId' = nextId + 1
    /\ UNCHANGED signatures

\* Privy signs with a wallet that is delegated to the enclave's key.
ServeSign(r) ==
    /\ call[r].op = "sign"
    /\ \E u \in Users : \E n \in DOMAIN accounts[u] :
          /\ accounts[u][n].id = call[r].wallet
          /\ accounts[u][n].delegated
    /\ signatures' = signatures \union
          {[request |-> r, wallet |-> call[r].wallet, hash |-> input[r].hash]}
    /\ Respond(r, 200, <<>>)
    /\ UNCHANGED <<accounts, nextId>>

Refuse(r, status) ==
    /\ call[r].op # "none"
    /\ Respond(r, status, <<>>)
    /\ UNCHANGED privy

\* A user delegates or revokes one of the wallets in the app.
ChangeDelegation(u, n) ==
    /\ u \in Movers \ changed
    /\ accounts' = [accounts EXCEPT ![u][n].delegated = ~@]
    /\ changed' = changed \union {u}
    /\ UNCHANGED <<clock, nextId, signatures, cache, handler, call, reply>>

Tick ==
    /\ clock < MaxClock
    /\ clock' = clock + 1
    /\ UNCHANGED <<changed, privy, cache, handler, call, reply>>

(***************************************************************************)
(* The specification. A goroutine that can run runs; a call ends because   *)
(* the connection to Privy has a deadline (tlsConn.SetDeadline). Nothing   *)
(* makes Privy answer, the user change a wallet or a client send.          *)
(***************************************************************************)
HandlerStep(r) ==
    \/ \E u \in Users : Authenticate(r, u)
    \/ Unauthorized(r)
    \/ CacheHit(r) \/ CacheMiss(r) \/ CacheStore(r)
    \/ UserHasWallet(r) \/ UserLacksWallet(r)
    \/ WalletCreated(r) \/ WalletNotDelegated(r)
    \/ AnswerUser(r) \/ NoUsableWallet(r)
    \/ SendSign(r) \/ PrepFails(r) \/ Signed(r)
    \/ PrivyRefused(r) \/ CallFails(r)

PrivyStep(r) ==
    \/ ServeGetUser(r)
    \/ \E delegated \in BOOLEAN : ServeCreateWallet(r, delegated)
    \/ ServeSign(r)
    \/ \E status \in PrivyErrors : Refuse(r, status)

Next ==
    \/ \E r \in Requests : \/ \E i \in Inputs : Receive(r, i)
                           \/ HandlerStep(r)
                           \/ PrivyStep(r)
    \/ \E u \in Users : \E n \in DOMAIN accounts[u] : ChangeDelegation(u, n)
    \/ Tick

Spec == Init /\ [][Next]_vars

FairSpec == Spec /\ \A r \in Requests : WF_vars(HandlerStep(r))

(***************************************************************************)
(* Properties.                                                             *)
(***************************************************************************)

\* Type correctness of the state of the handlers, the cache and Privy.
TypeOK ==
    /\ clock \in Nat
    /\ accounts \in [Users -> Seq(Account)]
    /\ nextId \in 1 .. MaxWallets + 1
    /\ changed \subseteq Users
    /\ signatures \subseteq Signature
    /\ cache \in [Users -> Entry(PrivyUser)]
    /\ pc \in [Requests -> {"idle", "auth", "lookup", "store", "gotUser", "done"}
                             \union Awaiting]
    /\ input \in [Requests -> Input]
    /\ who \in [Requests -> Users \union {Empty}]
    /\ record \in [Requests -> PrivyUser]
    /\ call \in [Requests -> Call]
    /\ reply \in [Requests -> Reply]
    /\ code \in [Requests -> Nat]

\* Request i speaks for u about h. On the user's route it carries a token of the
\* app for u that was valid at some time up to now. On the Axal route it carries
\* a MAC over h by the holder of the Axal key and names u: the backend's word is
\* taken for the user (privy_auth_manager.go:40), whom the MAC does not cover.
SpeaksFor(i, u, h) ==
    \/ /\ i.route = "user" /\ i.auth.kind = "jwt"
       /\ i.auth.verifies /\ i.auth.alg = "ES256"
       /\ i.auth.aud = "app" /\ i.auth.iss = "privy.io" /\ i.auth.sub = u
       /\ \E t \in 0 .. clock :
             /\ i.auth.nbf <= t
             /\ Environment \in {"prod", "staging"} => t <= i.auth.exp
    \/ /\ i.route = "axal" /\ i.privy_id = u
       /\ i.auth = [kind |-> "hmac", key |-> "axal", message |-> h]

\* Whatever the cache holds and however handlers, timeouts and late answers
\* interleave, a signature is over the hash of its request and made with a wallet
\* of the user that request speaks for: the subject of its token, or whom the
\* backend names (executePrivySigningRequest signs with the wallet of the record
\* it got).
SignedForRequester ==
    \A s \in signatures :
        /\ s.hash = input[s.request].hash /\ s.hash # Empty
        /\ input[s.request].route # "get"
        /\ \E u \in Users :
              /\ s.wallet \in Ids(accounts[u])
              /\ SpeaksFor(input[s.request], u, s.hash)

\* A request is signed at most once, and one answered 200 was signed if it
\* asked for a signature: no answer of an earlier call (the user, the created
\* wallet) is taken for the answer to the signing call.
SignedOnceAndReported ==
    /\ \A s, t \in signatures : s.request = t.request => s = t
    /\ \A r \in Requests : code[r] = 200 /\ input[r].route # "get" =>
          \E s \in signatures : s.request = r

\* GET /api/v1/user answers with the record of the authenticated user, never
\* with one that another handler put in the cache for another user, and the
\* wallets in it are that user's.
GetReturnsOwn ==
    \A r \in Requests : code[r] = 200 /\ input[r].route = "get" =>
        /\ record[r].id = who[r]
        /\ \E t \in 0 .. clock : Authenticates(input[r], record[r].id, t)
        /\ Ids(record[r].linked) \subseteq Ids(accounts[who[r]])

\* A record has a delegated Ethereum wallet and, as long as its user changes no
\* delegation, selects the wallet that Privy's list selects now.
Selects(u, linked) ==
    /\ HasDelegated(linked)
    /\ u \notin changed =>
          /\ HasDelegated(accounts[u])
          /\ GetUsersEthDelegatedWallet(linked) = GetUsersEthDelegatedWallet(accounts[u])

\* Concurrent handlers may create several wallets for a user, and a record may
\* be older than some of them: what GetUser returns, and what the cache keeps,
\* still selects the same wallet (so the test ethWallet == nil of
\* executePrivySigningRequest is never true).
CacheSelectsSameWallet ==
    /\ \A u \in Users : Cached(cache, u) => Selects(u, cache[u].value.linked)
    /\ \A r \in Requests :
          pc[r] \in {"store", "gotUser"} => Selects(who[r], record[r].linked)

\* All the signatures of a user who changes no delegation are made with one
\* wallet, whichever handlers created wallets and whichever timed out.
StableWallet ==
    \A s, t \in signatures : \A u \in Users \ changed :
        {s.wallet, t.wallet} \subseteq Ids(accounts[u]) => s.wallet = t.wallet

\* Every request a handler has accepted is answered, even if Privy never is.
EveryRequestAnswered == \A r \in Requests : pc[r] = "auth" ~> pc[r] = "done"

\* What the comment on GetUser says: it creates a wallet for a user who has no
\* delegated one (privy_user_manager.go:15). It must then never add a wallet to
\* a user who has one.
CreatesOnlyIfNone ==
    [][\A u \in Users : HasDelegated(accounts[u]) =>
            Len(accounts'[u]) = Len(accounts[u])]_accounts

(***************************************************************************)
(* The signing service as its clients see it.                              *)
(***************************************************************************)
\* A request has asked for something once its user is known.
Asked ==
    [r \in Requests |->
        IF who[r] = Empty THEN Empty
        ELSE IF input[r].route = "get" THEN Foreign ELSE input[r].hash]

Holdings == [u \in Users |-> Ids(accounts[u])]

Outcome ==
    [r \in Requests |->
        IF pc[r] # "done" THEN "none" ELSE IF code[r] = 200 THEN "ok" ELSE "failed"]

Service == INSTANCE SigningService WITH
    Wallets <- 1 .. MaxWallets,
    Things <- Hashes \union {Foreign},
    Record <- Foreign,
    Nobody <- Empty,
    Nothing <- Empty,
    grant <- who,
    asked <- Asked,
    held <- Holdings,
    signed <- signatures,
    answer <- Outcome

\* The enclave implements the service.
ImplementsService == Service!Spec
================================================================================
