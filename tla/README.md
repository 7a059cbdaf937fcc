# Verification of verified-signer

verified-signer is a signing service that runs in an AWS Nitro enclave. Clients
send it HTTP requests; it checks who they are, finds the user's wallet at
Privy, asks Privy to sign with it and passes the answer on. The enclave has no
network: everything it sends or receives crosses the host over vsock.

This directory holds TLA+ modules translated from the Go source, TLC runs that
check them on small instances, and TLAPS proofs of the main results.

## The system

| part | source | state it keeps | operations | what is hard about it |
|---|---|---|---|---|
| routes and handlers | `enclave/router` | none of its own; one goroutine per request | get user, sign for a user, sign for the Axal backend, attest, health | requests run concurrently and share all that follows |
| authentication | `enclave/privy-signer/auth`, `privy_auth_manager.go` | the Privy verification key, the Axal key | validate a JWT, verify a MAC | which check applies in which environment; two ways to name a user |
| user manager | `privy_user_manager.go`, `privy_client.go` | `userCache`, shared by all requests | `GetUser`, `createUserWalletsIfNotExists` | the check for a wallet and its creation are two calls to Privy; the cache outlives what it copies |
| signing manager | `privy_signing_manager.go`, `privy_eth_signing.go` | none | prepare, send and read a signing call | a call that timed out may still be served |
| authorization signatures | `authorization_signature` | locked buffers with the key, five per signature | decode, sign, destroy | every return must destroy those made so far |
| numbers and batches | `data/big_int.go`, `data/batch_signing.go` | a pointer to a `big.Int` each | parse, compare, compute, validate | nil values, empty strings; reading JSON changes the `big.Int` in place |
| enclave HTTP clients | `common/network` | one connection per call | two round trippers, body wrappers | deadlines; who closes the connection |
| stream proxies | `common/vsock/proxy` | two connections and two goroutines per accepted connection | accept, dial, copy, close | either side may end first; errors end the accept loop |
| host services | `host/cmd`, `host/network` | the HTTP server | forward requests to the enclave, shut down | three timeouts that do not agree |
| vsock sockets | `common/vsock`, `common/vsock/socket` | a descriptor and a closed flag | connect, listen, accept, read, write, close | callbacks of the runtime's poller; close during I/O |
| start of the enclave | `enclave/cmd`, `enclave/config.go` | `TEEConfig` | load the file, the secrets, start the router | partial configuration |
| secret manager client | `common/aws/secret_manager` | the EC2 credentials | fetch a token, a role, credentials, secrets | each call can fail or never end |
| attestation | `enclave/attestation` | a session of the security module per request | open, ask, close, verify | every return must close it |
| scripts | `enclave-scripts`, `host/*.sh` | files and containers | build, run, stop, status | |

A request goes from the client through the host's HTTP proxy and a vsock
connection to the gin router. A handler authenticates it, reads the cache, and
calls Privy through the HTTPS round tripper: a vsock connection to the host,
where a stream proxy copies it to `api.privy.io`. At start the same path, with
plain HTTP first, leads to the EC2 metadata service and to the secrets manager.

## The modules

```
PrivyAuth   UserCache          SigningService
     \        /                  ^ implements
      PrivySigner ----------------
          |
   PrivySignerInvariant
      |            |
MCPrivySigner   PrivySignerProofs
```

**PrivyAuth** holds the checks a request passes, as predicates: `Screen` (the
early returns of the handlers and `ValidateTxRequest`), `ValidateJWT`
(`auth/jwt.go`) and `VerifyAxalSignature` (`auth/hmac.go`). A JWT is a record of
what the code reads from it, plus whether its signature verifies; a MAC is the
key and the message it was made from. The environment decides whether the
expiry of a token is looked at.

**UserCache** is the part of `ttlcache` that `GetUser` relies on: `Fresh` and
`Touch` (a hit restarts the time to live), `Put` (replace, or evict the least
recently used). It is a library, so it is modelled from its use.

**PrivySigner** composes the two with the handlers and with Privy. A handler is
a request identifier with a program counter `pc`; it stops where it waits for
Privy or touches the shared cache:

| `pc` | code |
|---|---|
| `auth` | `ValidateUserAuthForSigningRequest`, `ValidateAxalAuthForSigningRequest` |
| `lookup` | `GetUser`, before `userCache.Get` |
| `awaitUser` | `GetUser`, in `client.Do` |
| `awaitCreate` | `createUserWalletsIfNotExists`, in `client.Do` |
| `store` | `GetUser`, before `userCache.Set` |
| `gotUser` | `GetUserHandler`, `executePrivySigningRequest` |
| `awaitSign` | `executePrivySigningRequest`, in `client.Do` |

`record`, `who`, `input` and `code` are the locals of the handler and what it
writes to the client. `call` and `reply` are the two directions of its current
call to Privy. `accounts`, `nextId` and `signatures` are Privy's; `ServeGetUser`,
`ServeCreateWallet`, `ServeSign` and `Refuse` are its steps, and they may happen
before or after the handler has given up (`CallFails`). `ChangeDelegation` is a
user of the app who delegates or revokes a wallet. `Tick` moves the clock.

**SigningService** is what clients may rely on, without caches, lists of
accounts or calls: a request is granted to one user, at most one signature is
made for it, with a wallet of that user and over the hash it asked for, and it
succeeds only if that was done. `PrivySigner` implements it under the
refinement mapping at the end of its module (`Service`, `ImplementsService`).
`failed` promises nothing: a signing call that timed out here may still be
served.

**PrivySignerInvariant** holds `Consistent`, the inductive invariant.

```
Connections        SocketConn - SocketConnProofs    Deployment - DeploymentProofs
   |      |        Listener -> AcceptQueue          TEEStartup - TEEStartupProofs
RoundTrip VsockProxy   |                            Words - NumbersProofs
    \      /      ListenerProofs                         (on Numbers)
     Tunnel -> Pipe             HttpProxy   AuthorizationKey   Attestation
       |                             \      |               /
  TunnelProofs                       EndToEnd -> SigningService
                                         |
                                   EndToEndProofs
```

**Connections** is what the code sees of a stream connection through `net.Conn`:
two ends, what is on its way to each, `HasData`, `ReadEnds`, `Writable`, `Close`,
`Reset`. The unit is a message (`hello`, `request`, `head`, `body`), because the
properties tell no more apart; a call has four each way at most, so buffers
never fill.

**RoundTrip** is a call of the enclave's HTTP clients (`common/network`): dial,
handshake, write, read the head, read or leave the body, close. `pc` is the
caller, `hs` the goroutine of `handshakeWithTimeout`, which goes on when the
context wins the select. `Expire` is the deadline of `http.Client`; it ends the
select (`HandshakeLoses`), and it ends I/O only where `SetDeadline` has put it on
the connection: `Late` is true of `https` calls alone.

**VsockProxy** is the host's stream proxy: the accept loop (`loop`), the handling
of each connection (`at`), its two copying goroutines (`copy`, with what each
`held` between its read and its write) and the connections to the remote
(`tcp`). `CopyEnds` closes both connections after the copy towards the remote
and nothing after the other, as `forward` does. `AcceptFails` ends the loop at the
limit of descriptors; `DialRemoteFails` leaves the accepted connection to the
collector (`CollectConnection`). `Restart` is a restart of the host process.

**Tunnel** composes the two with a remote that reads, answers, closes and resets
(`RemoteReads`, ..., `Resets`), and maps each direction of a call to a channel of
**Pipe**, which delivers what was sent, in order, once, or stops.

**SocketConn** is a connection of `common/vsock/socket` under the runtime's
poller. The package hands a closure to the poller, which runs it again whenever
it says "not ready" (`ready`); what the closure found is in variables it
captures, and the call returns these. So an action is one run of a closure
(`Initiate`, `SeeError`, `SeePeer` for `Connect`, `Read` and `Write` for the calls)
or a step around it (`Start`, `Lock`, `Wake`, `Finish`), and `captured`, `cerr` and
`rsa` are the captured variables. `Close` counts first and closes the descriptor
later (`Evict`, `Closed`), as `atomic.AddUint32` and `os.File.Close` do.

`Shutdown` is `CloseRead` and `CloseWrite` (`half`); a reader of `EmptyReads` has an empty
buffer. A write of no bytes is not modelled.

`New` may fail after the descriptor is an `os.File`: nobody holds it any more, and
only the collector closes it (`loose`, `Collect`).

**Listener** is a vsock listener from `Listen` to `Close` under the same poller:
`Socket`, `Bind`, `Listen`, `newListener` with the close of each error path
(`listenFails`), then goroutines that accept until they are told of the close.
`Accept` is four steps, because a deadline, a close and an arrival may fall
between them: the look at `Conn.closed`, the poller's lock, the closure around
`accept4(2)` (which takes a connection, finds none or fails), and `New` for what
was taken, which looks at neither deadline nor close. The poller learns of
arrivals only (`arrival`), not of a queue that is not empty, as an edge-triggered
epoll does. It implements **AcceptQueue**: peers are taken in their order, each
by one caller, who serves it or breaks it; none disappears.

**TEEStartup** is `main` of the enclave: one sequential start with `pc` at each
call that leaves the process. `want` is the secret under way, `creds` and `open`
are the credentials of the present secret manager and its open responses, `cfg`
is `TEEConfig`. The four ways the code reads the name of an environment
(`GetEnv`, `NewSecretManager`, `LoadCfgFromSM`, `InitPrivyConfig`) are translated
one by one. `Rotate` and `Expire` are AWS: credentials may become worthless
between their fetch and the request signed with them.

**HttpProxy** is the handler of the host's HTTP proxy towards the enclave within
`net/http`'s write deadline. `late` is the deadline, which the server notices
only when it writes to the requester; `header` and `copied` are what the handler
has written; `Respond` is what net/http makes of it when the handler has
returned: a body shorter than its Content-Length breaks the connection, one
without Content-Length is taken to be complete. A request that cannot be made into
another, and a round trip that fails, end in `http.Error` (`Error`: the proxy's own
500 and 502). Before the connection is closed, the deferred Close reads what is
left of the body (`Drain`). The plain round trip is one
step here (`Forward`), because `Tunnel` has its inside, and it has no deadline.
`reply` is the enclave's answer; `client` is what the requester may conclude.

**AuthorizationKey** is the authorization signature of a call to Privy: which
locked buffers `SignPayload` and the parsing of the key have made (`buffers`) at
each place (`at`). A return runs the deferred `destroy` of each (`Return`).

**Attestation** is the handlers of the two attestation routes with the session of
the security module each opens.

**EndToEnd** composes them: `HttpProxy` in front of the enclave, whose handlers
are the abstract `SigningService` that `PrivySigner` implements, with an
authorization signature before each signing call, and the attestation routes.
`Serve` is a step of a signing handler, `Privy` one of Privy, which may come when
the handler has given up; `EnclaveAnswers` writes the status, `Work` looks at
neither the connection nor the requester. `Told` is what a requester may conclude
from what came through the proxy: a 502, a broken connection and a record cut
short say nothing. `ServesRequester` says that with `Told` in place of the
enclave's answers the service keeps its promise.

**Numbers** is the arithmetic of `BigInt`, whose pointer may be nil, and
`ValidateBatchRequest`, as operators; **Words** its conversions to int64 and uint64,
through 64 bits of a magnitude that wrap around (TLC has no numbers of that size,
so these have theorems only). No registered route takes a BigInt or a batch.

**Deployment** is `run_prod.sh` with `docker_build_prod.sh`, and `stop.sh`, run by
operators side by side. An action is one command of docker or nitro-cli with
what the script makes of its status: `if cmd | tee` has the status of tee
(`DockerBuildEnds`, `BuildEnclave`), `cmd || true` none, and a
`describe-enclaves` that fails looks like an empty list (`Listed`). `Failures`
says which commands may fail; `output` is a run-enclave from whose output no id can
be read (`known`). `left`, `broken` and `alone` are not in the scripts: they record
that the docker build found an image which could not be removed, which builds
failed, and that no other deployment was under way. `StopOrphans` kills the nitro-cli of deployments
under way, as `pgrep -f` finds them.

## The runs

A reader can repeat each with `tlc -config <cfg> <module>`; `PROJECT.json` names
them. Every property of a passing run has a mutant: a definition of the module,
marked "Mutant of", that a plausible mistake in the code would turn the modelled
one into, and with which TLC finds the property violated.

### Signing

| run | question | bounds and why they are enough |
|---|---|---|
| `concurrent_requests` | whose wallet signs, whose record is returned, is a request signed at most once and a user always with the same wallet, what may the cache and a handler's record hold; is every request answered; is `SigningService` implemented | Two requests of any kind, with every single check of an input failing alone. Two users suffice to mix users up, one cache slot makes every second store an eviction, a time to live of 0 makes records expire at the next tick, and the initial accounts cover no wallet, a delegated one, one of another chain, one not delegated and one without an id. |
| `creates_only_if_none` | does `GetUser` create a wallet only for users without one | Violated: see the findings. |

Ids of wallets (`MaxWallets`) and the clock (`MaxClock`) are bounded in the
guards of `ServeCreateWallet` and `Tick`. Two requests are enough for the lasting
effects of a call that timed out: the first leaves a wallet or a signature that
is served late, the second finds it. Deadlock is not checked: a behaviour ends
when its requests are answered.

*Fairness.* `FairSpec` assumes weak fairness of each handler's own steps: the Go
scheduler runs a goroutine that can run, and `CallFails` is always enabled while
a handler waits because the HTTPS round tripper sets a deadline on the
connection (`transport.go:60`). Privy, clients and users get no fairness.

*Findings.* `createUserWalletsIfNotExists` looks at the user that was fetched
before, and nothing holds back another handler: two concurrent requests for a
user without a delegated wallet create two (`CreatesOnlyIfNone`).
`CacheSelectsSameWallet` and `StableWallet` show that this does no further
harm: the first delegated wallet of the list is used by all.

A request of the Axal backend is said to carry a JWT and a MAC
(`privy_eth_tx_data.go:19`). The code asks for the MAC alone, over the hash alone,
and takes the user from the body (`privy_auth_manager.go:28` and `40`). So
`SignedForRequester` says of that route what the code can know: the holder of the
Axal key asked for this hash, and the wallet is one of the user it named
(`SpeaksFor`). That the backend may act for that user is not checked by the
enclave, nor by any property here: the same MAC serves for every user the body
may name.

### Tunnel

| run | question | bounds and why they are enough |
|---|---|---|
| `tunnel` | is a response that was read to its end the one that was written; is every connection closed; is each direction a pipe; does everything a call starts come to an end | One call over TLS with two descriptors, the least that carry a call, so that the next accept meets the limit, and one restart of the host. Calls share nothing but the accept loop and the descriptors, which the next run is about. |
| `accept_loop_ends` | is every connection forwarded | Violated: see the findings. Two plain calls, and the two descriptors that one needs. |
| `plain_call_hangs` | does a plain call return | Violated: see the finding. |

*Fairness.* Weak fairness of the caller, of the handshake goroutine, of the
deadline's timer and of the proxy's goroutines. None of the remote, of resets, of
the garbage collector, of the restart: `HttpsReturns` holds with a remote that is
silent for ever.

*Findings.* The accept loop of `NewVsockProxy` returns at the first error of Accept,
and nothing starts it again: a connection queued behind it is forwarded by nobody,
also when the call that held the descriptors has ended (`AllTrafficForwarded`).
The plain round tripper (used for the metadata service, and by the host towards
the enclave) makes a context with a deadline and never uses it: a
call whose remote says nothing does not return (`HttpReturns`).

### Socket

| run | question | bounds and why they are enough |
|---|---|---|
| `socket` | what a call returns is what the kernel did for it; who is told of the end; a dial ends, with a connection or with its descriptor closed; Close unblocks every call | One reader, one writer, two closers: the poller keeps reads and writes apart, and two closers are the least of which one comes second. The reader's context may end. A reader without room (`EmptyReads`) and readers that wait for each other are in the theorems only. Two bytes allow a write that is taken in part. The errors stand for the ways an errno is treated: final, "not ready", EISCONN. |

*Fairness.* The kernel answers a connect (a vsock connect has its own timeout);
a goroutine that can run does, and the poller wakes a closure when the
descriptor is ready or closed. No fairness of the peer.

A `Connect` that has waited for the poller succeeds only with a peer
(`WaitVerifies`): getpeername named it, or SO_ERROR was EISCONN, which `Connect` does
not look behind; there the property rests on what the kernel means by EISCONN, and
a peer that has closed since counts as one. The model has two ways in which
`Connect` departs from its comments, listed at the end: one that has not waited may
succeed without a peer, and one that finds its peer may fail.

A read of no bytes is `io.EOF`, whatever it stands for (`ReadsNothing`): after
`CloseRead` a reader is told of the end while the peer is alive
(`conn_test.go:268` to `276` expects so), and so is a call of `ReadContext` with an
empty buffer, where `Conn.Read` (`os.File.Read`) returns 0 and no error.
`EndIsTheEnd` says the first and leaves the second out (`EmptyReads`).

### Listener

| run | question | bounds and why they are enough |
|---|---|---|
| `listener` | is each peer taken once, in order, and served or broken; is one that waits left waiting; what holds after Close | Two acceptors, of which one holds the poller's lock while the other waits for it, two peers for an order, two closers, one deadline and one failing system call (`MaxFaults`), which may fall at any step. |

*Fairness.* Goroutines run and call Accept again; the poller wakes a closure for an
arrival it knows of, a passed deadline or a closed descriptor. Nobody has to
connect, close or clear a deadline, and the collector may never run. A queue
behind a deadline that has passed stays, which `QueuedIsServed` excepts. That an
acceptor calls again after an error is the caller's part: `NewVsockProxy` does not
(the finding of `accept_loop_ends`).

### Start

| run | question | bounds and why they are enough |
|---|---|---|
| `startup` | what an enclave that serves has; no response of the metadata service left open; with which credentials a secret is asked for | Every file and every content of both secrets, in the classes the code tells apart; two rotations, one for each secret manager. |

No fairness: all properties are invariants or about a step. That the start ends is
not one of them, for it need not: each of its three calls to the metadata service
may wait for ever (the finding of `plain_call_hangs`). Everything else in it runs
forward or dies, without a loop.

### The host's HTTP proxy and the enclave

| run | question | bounds and why they are enough |
|---|---|---|
| `end_to_end` | what a requester may take for a whole answer and what it may conclude of the enclave; nothing held by a handler that is done; no connection left; a handler ends | One signing request (or one for the record) and one attestation request, a user with or without a wallet, one hash, a body in one part, which may be missing. Handlers share only the users' wallets, of which `concurrent_requests` is about; the safety properties are proved for any instance. |
| `http_proxy_body` | is a body that looks complete the whole body | Violated: see the finding. Two parts, the least of which some may be missing from a body that began. |

*Fairness.* The handlers of the host and of the enclave. The enclave may be lost at
any time; what it may wait for has an end (`EveryRequestAnswered` of the signing
run), and it writes a body it has begun to the end unless it is lost: `HandlerEnds`
rests on both, for the proxy has no deadline of its own towards it.

*Finding.* The error of `io.Copy` is dropped and the handler returns, so that a body
without Content-Length that breaks off ends like a complete one. `SizedIsWhole`
shows that a Content-Length is enough to tell.

### Deployment

| run | question | bounds and why they are enough |
|---|---|---|
| `deployment` | what a deployment that had the machine to itself and reports success has started | Two deployers, who may follow each other or overlap, `stop.sh` beside them, two versions of the source and two enclaves, so that image, EIF file and enclave may each be of the version before. Every command may fail. The invariants name no deployer, so the two are symmetric. |
| `deployment_left` | is what is deployed always built from scratch | Violated: see the findings. |

No fairness: all properties are invariants.

*Finding.* The branches for a failed build are dead, because the status is that of
tee. What saves the day is that image and EIF file were
removed before, so that `run-enclave` finds none: `FreshUnlessLeft` and
`BrokenNeverSucceeds` show that this works in every case but one. An image that
docker cannot remove, which both scripts take for no image, followed by a docker
build that fails, is deployed as a fresh one (`AlwaysFresh`). What the enclave of deployments that
overlap is built from is not promised by any property here: they are held apart by
one look at the beginning.

### Disagreements without a run

Seen while modelling, and not checked by a run. The models have the code's side of
the first seven:

- `privy_eth_tx_data.go:19` says "Axal-initiated signing request (JWT + HMAC auth,
  includes privy_id)"; the code asks for no JWT (`eth_handlers.go:59`) and checks a
  MAC over the hash alone (`privy_auth_manager.go:28`), which settles nothing about
  the user the body names.
- `socket/conn.go:430` to `432` say that `Connect` calls getpeername "in order to
  verify that the underlying socket is connected to a remote peer". The error of a
  first `connect(2)` that fails at once (line 456) is returned to the poller only,
  which takes it for "ready": the captured `err` stays nil, and `Connect` returns
  success without a peer and without that call (`Initiate`).
- `socket/conn.go:469` to `472`: "If errno indicates the socket is not ready, we will
  wait for the next write event. Otherwise we propagate this errno". The errno is
  captured in `err` before `ready` tells the two apart, and stays there: the `Connect`
  that finds its peer in a later run of the closure fails with it (`SeePeer`).
- `run_prod.sh:60` and `71` say "Production Docker build failed" and "EIF build
  failed", each before an exit; both are dead, since `if cmd | tee` asks for the
  status of tee (`docker_build_prod.sh:65`, `run_prod.sh:68`) and no script sets
  pipefail (`DockerBuildEnds`, `BuildEnclave`).
- `run_prod.sh:126` says "Enclave is running and stable"; when no id could be read
  from the output (`run_prod.sh:110` to `113` foresee it) the pattern of the `grep` in
  line 125 is empty, and matches whatever `describe-enclaves` printed (`Verify`).
- `run_prod.sh:37` and `38` refuse to start beside a running enclave, but look once,
  minutes before `terminate-enclave --all` (line 78), and take no lock: of two
  deployments at once the second terminates the enclave the first has reported
  (`Check`, `Terminate`).
- `ReadContext` into an empty buffer returns `io.EOF` with the peer alive
  (`socket/conn.go:121`), where `Conn.Read` returns 0 and no error (`ReadsNothing`).
- `conn.go:682` and `722` say that reads and writes obey the cancellation of their
  context; it is looked at only when the poller runs the closure, so that a call
  which waits for a silent peer stays. Nothing in the repository passes such a
  context.
- The write deadline of the host's HTTP proxy (20 s) is shorter than what the
  enclave may take (three calls of up to 30 s); a late answer is lost, although
  the transaction was signed (`enclave/README.md:78`).
- `config_test.go:146` expects a file without AWS credentials to be accepted for
  the environment "local"; `aws/config.go:36` refuses it.
- `conn.go:707` to `757` name the results of `writeErr` and `readErr` after a
  variable their closures never assign; nothing calls them.
- `conn.go:321` duplicates the descriptor that fcntl has just failed to return, not
  the file's; nothing in the program calls `FileConn`.
- `withNetNS` returns neither a Conn nor an error when its function fails; vsock
  passes no namespace.
- `vsock.go:409` means to turn every error of a closed file into one with the
  text net.TCPConn has; the `*os.SyscallError` with EBADF that `read` returns after
  a close is not unwrapped and keeps its own.
- `New` leaves the descriptor it was given open when it cannot make it
  nonblocking; `Socket` and `Accept` do not close it either.
- `batch_signing.go:18` has an index "for maintaining order in response" in each
  request; `ValidateBatchRequest` does not look at it, so two may be the same.
- `stop.sh:161` confirms that no enclave runs when `describe-enclaves` fails.

## The proofs

`PrivySignerProofs` proves, for every value of the constants that satisfies the
assumptions of the modules (`EnvironmentAssumption`, `NamesAssumption`,
`CacheAssumption`, `SignerAssumption`):

| theorem | statement |
|---|---|
| `AlwaysTypeOK` | `Spec => []TypeOK` |
| `AlwaysConsistent` | `Spec => []Consistent` |
| `AlwaysSignedForRequester` | `Spec => []SignedForRequester` |
| `AlwaysSignedOnceAndReported` | `Spec => []SignedOnceAndReported` |
| `AlwaysGetReturnsOwn` | `Spec => []GetReturnsOwn` |
| `EnclaveImplementsService` | `Spec => ImplementsService` |
| `AlwaysCacheSelectsSameWallet` | `Spec => []CacheSelectsSameWallet` |
| `AlwaysStableWallet` | `Spec => []StableWallet` |

None of the properties is inductive. That a signature is made with a wallet of
the requester depends on what the handler's record held, which depends on what
the cache or Privy's reply held when it was read, at an earlier time and
possibly put there by another handler. `Consistent` says it of all these places
at once: `Placed` (who a handler acts for is settled from `lookup` on),
`Entitled` (it had the right to, at some time up to now), `Held` (every wallet
id under a user's name, in the cache, in a record, in a reply or in a call, is
one of that user's at Privy), `Named` (records carry the id of the user they
are kept for), `Signing` (where a signature and a pending signing call can be,
given the program counter), `Reported` (what 200 stands for), `Selecting` and
`Settled` (which of a user's wallets is used). Each part is
proved preserved by a lemma of its own, with a step per action; the parts that
need another part use it as a hypothesis. The clock enters only through
`Entitled`, which is why it quantifies over times up to now.

`EnclaveImplementsService` uses the same invariant to show that each step of
`PrivySigner` is a step of `SigningService` or leaves its variables alone:
`Authenticate` grants, `ServeCreateWallet` provisions, `ServeSign` signs and the
answering actions succeed or fail.

A record may be older than Privy's list by any number of wallets that other
handlers created. `Selecting` adds what keeps it right: a reply that is under way
is a beginning of the list (`IsPrefix`), because Privy only appends while its user
changes no delegation, and a handler that asks for a wallet has a record without
a delegated one. A list that has a delegated wallet then selects the same one as
every list that continues it: `FirstIsSelected` says that the code's choice is the
first delegated account, and that there is a first one rests on `LeastNumber`, the
least of a set of numbers, from the library's fact that the order of the
naturals is well founded. `Settled` carries the choice over to the calls under way
and to the signatures, so that two of them, made at any two times, agree.

Not proved: `EveryRequestAnswered` (liveness is out of the prover's reach).


`TEEStartupProofs` proves, for any sets of files and secrets and any number of
rotations (`StartupAssumption`):

| theorem | statement |
|---|---|
| `StartInvariant` | `Spec => []StartInv` |
| `ServesItsConfig` | `Spec => []ServedConfig` |
| `ClosesConnections` | `Spec => []NoConnectionLeft` |
| `StartTyped` | `Spec => []TypeOK` |
| `AlwaysFreshCredentials` | `Spec => FreshCredentials` |

`ServedConfig` speaks of the last state only; `StartInv` says what each step before
it must have left: the Axal part once `want` is the Privy secret, the Privy part
before the client, an environment that is known (the Privy secret of any other
is refused), and how many responses are open at each call to the metadata
service. `StartTyped` needs it and `Named`: the file has an environment once it was
loaded, without which the Axal part could come from nowhere.

`TunnelProofs` proves, for any calls, schemes, number of descriptors and restarts
(`SchemeAssumption`, `FdAssumption`, `RestartsAssumption`):

| theorem | statement |
|---|---|
| `TunnelTyped` | `Spec => []TypeOK` |
| `AlwaysReturnedIsClosed` | `Spec => []ReturnedIsClosed` |
| `AlwaysOkIsComplete` | `Spec => []OkIsComplete` |
| `TunnelIsPipe` | `Spec => ImplementsPipe` |

The run has one call over TLS; the theorems are about any number, plain calls
included. The invariant follows a message. Each way of a call is a line
of four pieces: what the receiver has got, what is on the connection to it, what
the copying goroutine holds and what is on the connection to the proxy.
`Line` says that the first two put together are a beginning of what was sent; with
the other two as well while the connection to the receiver is whole; and all
that was sent while both connections are. A step moves a message from a piece
to the one before it (`LineSend`, `LineRead`, `LineWrite`, `LineReceive`), and a close, a
reset, a collected connection or a restart only drops pieces behind a
connection that is no longer whole (`LineLoses`): never one in the middle, which
is what a pipe forbids. `Line` alone is not inductive: `Begins` says that nothing
has come or gone before the remote is dialled, `Holds` that a copying goroutine
holds one message between its read and its write and none otherwise, and
`Progress` how many messages the caller has read at each place, of the two
goroutines of the handshake. `OkIsComplete` is `Progress` (a call that succeeded has
read as many as the response has) with the line towards the enclave (they are a
beginning of the response). `Pipe` has no fairness, so the refinement is proved
whole.

`SocketConnProofs` proves, for any readers, writers, contexts, errors and number of
bytes and finitely many calls of Close (`SocketAssumption`; a program makes finitely
many calls, and `TypeOK` speaks of their number):

| theorem | statement |
|---|---|
| `SocketConnTyped` | `Spec => []TypeOK` |
| `AlwaysCountsExact` | `Spec => []CountsExact` |
| `AlwaysEndIsTheEnd` | `Spec => EndIsTheEnd` |
| `AlwaysWaitVerifies` | `Spec => WaitVerifies` |
| `ClosedIsUnused` | `Spec => [](descriptor = "closed" => ~ InUse)` |
| `ClosesOnce` | `Spec => [][descriptor = "closed" => descriptor' = "closed"]_vars` |

The count a call returns was captured by an earlier run of its closure, and so
was the end of the stream. `Accounted` says what the captured variables stand for
at each place: nothing was moved for a call whose closure is still to run
(so that a retry after EAGAIN is harmless), and one the poller has let go
without an error has in `n` what was moved, or an error and nothing moved; if
it captured nothing at all, then the stream has ended and is read out, or the
reader has no room or no half to read, which no later step undoes (`AtEnd`). `Drawn` (what a reader was given and what is unread were both
sent) is what the type of `moved` needs, `Counted` that of `closed`. `Waiting` says that no call
begins before `dial` has returned, so that the dial's own steps touch none. `AlwaysWaitVerifies`
rests on `Established`: EISCONN is pending on sockets with a peer only, also when it
is read in a later step than the one that put it there.

The last two state what no run checks: the number of a descriptor that was closed
may be another file's, so it must not be used, nor closed again. `Kept` says
which of the closers can still have something to do with it: one at most, because
`closed = 0` (which `Counted` makes a statement about all of them) is true for the
first only. `ListenerProofs` has the same two theorems, by the same argument.

`ListenerProofs` proves, for any peers and acceptors, any number of failures and finitely many
calls of Close (`ListenerAssumption`):

| theorem | statement |
|---|---|
| `ListenerTyped` | `Spec => []TypeOK` |
| `ListenerIsQueue` | `Spec => Queue!Init /\ [][Queue!Next]_(Queue!vars)` |
| `ClosedIsUnused`, `ClosesOnce` | as above |

That is `ImplementsQueue` without its fairness. `Lined` says that the kernel's queue
holds the peers that are queued, each once, and none unless the socket listens;
`Owned` and `Held` tie a peer that was taken to the one call whose captured `nfd` is all
that knows of it until New has wrapped it. A call that takes a peer therefore holds no
other (the guard of `Take`), and New serves or breaks one that nobody has settled
before (that of `Settle`). `Opened` ties how far Listen is to the state of the socket:
without it a Listen that fails late could not be an `End`.

`EndToEndProofs` proves, for any requests, users, wallets, hashes and length of body
(`ProxyAssumption`, `RoutesAssumption`):

| theorem | statement |
|---|---|
| `AlwaysProxyInv` | `Spec => []ProxyInv` |
| `AlwaysSizedIsWhole` | `Spec => []SizedIsWhole` |
| `AlwaysClosesConnection` | `Spec => []ClosesConnection` |
| `SystemProxyInv` | `SystemSpec => []ProxyInv` |
| `AlwaysSystemTypeOK` | `SystemSpec => []SystemTypeOK` |
| `SystemCopies` | `SystemSpec => [](SizedIsWhole /\ ClosesConnection)` |
| `AlwaysNothingHeld` | `SystemSpec => []NothingHeld` |
| `AlwaysServing` | `SystemSpec => []Serving` |
| `Refinement` | `SystemSpec => ServesRequester` |

The first three are about the proxy by itself (`Spec` of `HttpProxy`). What the
requester takes for whole is decided when the handler has returned, from a
length written long before: `Written` says that the length which was written is
the enclave's at every place in between, and `Owned` where the handler can have
an open connection.

Every step of the system is a step of the proxy or leaves it alone
(`SystemProxy`), so the proxy keeps its invariant. `Inside` names the buffers and
the session of each place of a handler (`Made`), from which `NothingHeld` follows.
`Truthful` follows a 200 from the enclave's answer to the header the proxy writes
and to the requester: at each of these places it stands for what the enclave has
done by then. With it, the one step in which a requester is told something
(`ToldOnce`) is a `Succeed` or a `Fail` of the service, and what the enclave grants,
provisions and signs happens before, because a requester is told nothing while
the enclave works (`ServiceSeen`). `SigningService` has no fairness, so the
refinement is proved whole.

`NumbersProofs` proves, for all integers and all sequences of requests:

| theorem | statement |
|---|---|
| `Arithmetic`, `Order` | nil is zero to every operation; `Cmp` is the order of the integers |
| `Fits` | `Int64` fits exactly from -2^63 to 2^63 - 1 and `Uint64` from 0 to 2^64 - 1, and what fits comes back as it is |
| `Batches` | a batch passes exactly when it has 1 to 10000 requests that lack nothing; else there is one error |

`Fits` goes through the words (`WordFits`): low bits that are read as negative, and
the least int64, which is its own negative.

That a bad request has a first one (`First`) rests on the order of the naturals
being well founded (`WFMin` of the library).

`DeploymentProofs` proves, for any deployers, failures, versions and starts
(`DeploymentAssumption`):

| theorem | statement |
|---|---|
| `AlwaysDeploymentInv` | `Spec => []DeploymentInv` |
| `AlwaysFreshUnlessLeft` | `Spec => []FreshUnlessLeft` |
| `AlwaysBrokenNeverSucceeds` | `Spec => []BrokenNeverSucceeds` |
| `DeploymentTyped` | `Spec => []TypeOK` |

`Made` says what a deployment by itself finds at each of its steps: a file is
missing, so that the next command fails, or `Explained`. It holds of a deployment
only while `alone` does, and `Apart` is what carries it: a deployment that is
`alone` and under way is the only one under way, so a step of another finds it
over, when the files no longer matter to it (`OnlyOfKeeps`). `stop.sh` touches
none of the files.

With these, every safety property of a passing run is a theorem,
under the assumptions the modules state. What
TLAPS cannot prove here stays with TLC: liveness under fairness
(`EveryRequestAnswered`, `HttpsReturns`, `HandshakeEnds`, `ProxyReleases`,
`DialReturns`, `CloseUnblocks`, `QueuedIsServed`,
`CloseStops`, `HandlerEnds`, and the fairness in `ImplementsQueue`).
The runs that expect a violation have nothing to prove. No module uses RECURSIVE
operators, so none is closed to a proof. Each inductive invariant was checked by
TLC on the instances of the runs before it was proved.

## Not modelled, and why

- Decoding of keys, ECDSA, the canonical JSON that is signed, memguard, nitrite and
  `signRequest` of the secret manager: cryptography and formatting. memguard panics
  and purges all its buffers when memory cannot be locked; the model has only the
  bound on what is locked at a time.
- `VerifySignature`: called by tests only.
- The constructors of `BigInt` and its decimal and JSON text: no route takes one, and
  what they compute is an induction over digits. With them stays out that
  `UnmarshalJSON` writes into the `big.Int` its receiver has (`big_int.go:78`, `87`,
  `95`), where a text that is no number leaves an undefined one: whoever assigned
  the struct before shares it. No operation of `Numbers` shares one.
- `FileConn`, `Recvmsg`, `Recvfrom`, `Sendmsg`, `Sendto`, the options of
  `conn_linux.go` and the network namespaces of `netns_linux.go`: nothing in the
  program calls them, and vsock passes no namespace. `sockettest` is for tests.
- `opError` only names errors; what a caller is told apart by (closed, timeout,
  error) is in `Listener` and `SocketConn`.
- `NewProxy` and `handle` of `common/vsock/proxy`: nothing starts them.
- `run.sh`, `docker_build.sh` and the host's scripts: the steps of the production
  scripts for development; `status.sh` and `logs.sh` change nothing. The console
  process of `stop.sh` is one of `run.sh`.
- The shutdown goroutine of the host's HTTP proxy: it waits for a context that
  `main` never cancels. A `ListenAndServe` that fails is logged and nothing
  follows.
- Three hazards have no property, each with its reason in `PROJECT.json`: an empty id
  of the delegated key (`config.go:84`), which shows only at Privy, a first connect
  that fails at once (`socket/conn.go:456`), and two deployments at once
  (`run_prod.sh:36`).

## Plan

Models:

1. `Listener` under `VsockProxy` in place of its `InAccept`, and `SocketConn` under
   `Connections`.
2. `PrivySigner` itself under `EndToEnd` in place of `SigningService`, on an instance
   of one request: today the composition rests on `EnclaveImplementsService`.

Theorems:

1. The invariants the liveness properties rest on, as far as they are safety:
   that a call, a handler or a goroutine which has not ended has a step to take.
2. What deployments that overlap may still promise of what they start.
