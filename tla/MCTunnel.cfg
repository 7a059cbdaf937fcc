\* One call over TLS; the proxy runs out of descriptors; one restart of the host.
CONSTANTS
    c1 = c1
    c2 = c2
    Calls = {c1}
    Scheme <- OneHttps
    FdLimit = 2
    MaxRestarts = 1
SPECIFICATION FairSpec
\* A behaviour ends when its calls have ended.
CHECK_DEADLOCK FALSE
INVARIANTS
    TypeOK
    OkIsComplete
    ReturnedIsClosed
PROPERTIES
    ImplementsPipe
    HttpsReturns
    HandshakeEnds
    ProxyReleases
