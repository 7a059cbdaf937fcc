\* An image that cannot be removed, and a docker build that fails.
CONSTANTS
    d1 = d1
    d2 = d2
    Deployers = {d1}
    Failures = {"rmi", "docker"}
    MaxVersion = 2
    MaxStarts = 2
SPECIFICATION Spec
INVARIANTS AlwaysFresh
