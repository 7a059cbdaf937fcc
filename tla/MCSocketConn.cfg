\* A reader whose context may end, a writer and two closers on a connection whose
\* dial may meet every kind of error the kernel reports, at once or later.
CONSTANTS
    r1 = r1
    w1 = w1
    c1 = c1
    c2 = c2
    Readers = {r1}
    EmptyReads = {}
    Writers = {w1}
    Closers = {c1, c2}
    Contexts = {r1}
    FirstErrors <- MCNoDevice
    SoErrors <- MCSome
    Bytes = 2
SPECIFICATION Spec
INVARIANTS TypeOK CountsExact
PROPERTIES EndIsTheEnd  DialReturns CloseUnblocks
