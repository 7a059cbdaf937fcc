\* A request for a record or a signature and one for an attestation document.
CONSTANTS
    q1 = q1
    q2 = q2
    u1 = u1
    w1 = w1
    h1 = h1
    Requests = {q1, q2}
    Signing = {q1}
    Attesting = {q2}
    Documents = {q2}
    Users = {u1}
    Wallets = {w1}
    Hashes = {h1}
    Record = Record
    Nobody = Nobody
    Nothing = Nothing
    Parts = 1
SPECIFICATION SystemSpec
INVARIANTS SystemTypeOK SizedIsWhole ClosesConnection NothingHeld
PROPERTIES HandlerEnds ServesRequester
