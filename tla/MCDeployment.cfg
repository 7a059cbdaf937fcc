\* Two deployers and stop.sh; every command may fail.
CONSTANTS
    d1 = d1
    d2 = d2
    Deployers = {d1, d2}
    Failures = {"describe", "rmi", "docker", "eif", "terminate", "run", "output"}
    MaxVersion = 2
    MaxStarts = 2
SPECIFICATION Spec
INVARIANTS TypeOK FreshUnlessLeft BrokenNeverSucceeds
SYMMETRY Symmetry
