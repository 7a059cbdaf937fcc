\* One plain call.
CONSTANTS
    c1 = c1
    c2 = c2
    Calls = {c1}
    Scheme <- OneHttp
    FdLimit = 3
    MaxRestarts = 1
SPECIFICATION FairSpec
\* A behaviour ends when its calls have ended.
CHECK_DEADLOCK FALSE
PROPERTIES
    HttpReturns
