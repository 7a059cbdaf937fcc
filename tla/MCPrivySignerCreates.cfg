\* What the comment on GetUser says, without any change of delegation.
CONSTANTS
    u1 = u1
    u2 = u2
    h1 = h1
    h2 = h2
    Users <- MCUsers
    Hashes <- MCHashes
    Environment = "dev"
    TTL = 0
    Capacity = 1
    Requests = {r1, r2}
    Inputs <- UserInputs
    InitialAccounts <- NoWallets
    FirstId = 1
    PrivyErrors = {}
    Movers <- Nobodies
    MaxWallets = 2
    MaxClock = 0
SPECIFICATION Spec
\* The requests of a behaviour are finitely many.
CHECK_DEADLOCK FALSE
PROPERTIES
    CreatesOnlyIfNone
