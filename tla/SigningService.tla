---------------------------- MODULE SigningService -----------------------------
(***************************************************************************)
(* What the enclave promises its clients, with no word of caches, calls,   *)
(* wallets lists or timeouts. A request is granted to at most one user;    *)
(* from then on at most one signature is made for it, over the hash it     *)
(* asked for and with a wallet that user holds; it is answered once, with  *)
(* success only when what it asked for was done. The answer "failed"       *)
(* promises nothing: the signature may exist, or be made later.            *)
(***************************************************************************)
CONSTANTS
    Requests, Users, Wallets,
    Things,  \* what a request may ask for: the record of its user or a hash
    Record,  \* the member of Things that is not a hash
    Nobody, Nothing

VARIABLES
    grant,  \* the user each request was granted to
    asked,  \* what it asked for
    held,   \* the wallets of each user
    signed, \* the signatures made
    answer  \* what each request was answered

vars == <<grant, asked, held, signed, answer>>

Init ==
    /\ grant = [r \in Requests |-> Nobody]
    /\ asked = [r \in Requests |-> Nothing]
    /\ held \in [Users -> SUBSET Wallets]
    /\ \A u, v \in Users : u # v => held[u] \intersect held[v] = {}
    /\ signed = {}
    /\ answer = [r \in Requests |-> "none"]

SignedFor(r) == {s \in signed : s.request = r}

Grant(r, u, thing) ==
    /\ grant[r] = Nobody /\ answer[r] = "none"
    /\ grant' = [grant EXCEPT ![r] = u]
    /\ asked' = [asked EXCEPT ![r] = thing]
    /\ UNCHANGED <<held, signed, answer>>

\* A user gets a wallet on behalf of a request granted to that user.
Provision(r, w) ==
    /\ grant[r] # Nobody
    /\ \A u \in Users : w \notin held[u]
    /\ held' = [held EXCEPT ![grant[r]] = @ \union {w}]
    /\ UNCHANGED <<grant, asked, signed, answer>>

Sign(r, w) ==
    /\ grant[r] # Nobody /\ asked[r] # Record
    /\ w \in held[grant[r]]
    /\ SignedFor(r) = {}
    /\ signed' = signed \union {[request |-> r, wallet |-> w, hash |-> asked[r]]}
    /\ UNCHANGED <<grant, asked, held, answer>>

Succeed(r) ==
    /\ grant[r] # Nobody /\ answer[r] = "none"
    /\ asked[r] # Record => SignedFor(r) # {}
    /\ answer' = [answer EXCEPT ![r] = "ok"]
    /\ UNCHANGED <<grant, asked, held, signed>>

Fail(r) ==
    /\ answer[r] = "none"
    /\ answer' = [answer EXCEPT ![r] = "failed"]
    /\ UNCHANGED <<grant, asked, held, signed>>

Next ==
    \E r \in Requests :
        \/ \E u \in Users, thing \in Things : Grant(r, u, thing)
        \/ \E w \in Wallets : Provision(r, w) \/ Sign(r, w)
        \/ Succeed(r) \/ Fail(r)

Spec == Init /\ [][Next]_vars
================================================================================
