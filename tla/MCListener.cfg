\* Two goroutines accept, two close, two peers connect, one system call fails.
CONSTANTS
    p1 = p1
    p2 = p2
    a1 = a1
    a2 = a2
    c1 = c1
    c2 = c2
    Nobody = Nobody
    Peers = {p1, p2}
    Acceptors = {a1, a2}
    Closers = {c1, c2}
    MaxFaults = 1
SPECIFICATION Spec
INVARIANTS TypeOK
PROPERTIES ImplementsQueue QueuedIsServed CloseStops
