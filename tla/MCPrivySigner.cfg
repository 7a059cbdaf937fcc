\* Two concurrent requests of any kind, two users, a cache with room for one.
\* No symmetry: it is not sound for EveryRequestAnswered.
CONSTANTS
    u1 = u1
    u2 = u2
    h1 = h1
    h2 = h2
    Users <- MCUsers
    Hashes <- MCHashes
    Environment = "prod"
    TTL = 0
    Capacity = 1
    Requests = {r1, r2}
    Inputs <- AllInputs
    InitialAccounts <- MixedAccounts
    FirstId = 3
    PrivyErrors = {429}
    Movers <- SomeMovers
    MaxWallets = 4
    MaxClock = 2
SPECIFICATION FairSpec
\* The requests of a behaviour are finitely many.
CHECK_DEADLOCK FALSE
INVARIANTS
    TypeOK
    SignedForRequester
    GetReturnsOwn
    SignedOnceAndReported
    StableWallet
    CacheSelectsSameWallet
    Consistent
PROPERTIES
    EveryRequestAnswered
    ImplementsService
