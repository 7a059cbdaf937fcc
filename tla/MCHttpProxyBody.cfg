\* One request, and the body its requester takes for complete.
CONSTANTS
    q1 = q1
    q2 = q2
    Requests = {q1}
    Parts = 2
SPECIFICATION Spec
INVARIANTS CopiesBody
