\* Two plain calls, and the descriptors one of them needs.
CONSTANTS
    c1 = c1
    c2 = c2
    Calls = {c1, c2}
    Scheme <- TwoHttp
    FdLimit = 2
    MaxRestarts = 0
SPECIFICATION FairSpec
\* A behaviour ends when its calls have ended.
CHECK_DEADLOCK FALSE
PROPERTIES
    AllTrafficForwarded
