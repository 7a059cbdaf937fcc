------------------------------ MODULE AcceptQueue ------------------------------
(***************************************************************************)
(* What a listener promises: the connections of its peers are taken in the *)
(* order they came, each by one caller of Accept, which then serves it or, *)
(* when the connection cannot be set up, breaks it. None disappears while  *)
(* the listener is open, and none is taken once it is over.                *)
(***************************************************************************)
EXTENDS Sequences

CONSTANTS Peers, Acceptors, Nobody

VARIABLES
    stage,    \* the listener: "before", "open", "over"
    waiting,  \* the peers nobody has taken yet, in the order they came
    taker,    \* who took each peer
    fate      \* what became of each: "none", "served", "broken", "refused"

vars == <<stage, waiting, taker, fate>>

Init ==
    /\ stage = "before" /\ waiting = <<>>
    /\ taker = [p \in Peers |-> Nobody]
    /\ fate = [p \in Peers |-> "none"]

Came(p) == taker[p] # Nobody \/ fate[p] # "none" \/ \E i \in DOMAIN waiting : waiting[i] = p

Open == stage = "before" /\ stage' = "open" /\ UNCHANGED <<waiting, taker, fate>>

Arrive(p) ==
    /\ stage = "open" /\ ~ Came(p)
    /\ waiting' = Append(waiting, p)
    /\ UNCHANGED <<stage, taker, fate>>

\* A caller takes the first peer, and no other before it is done with it.
Take(a) ==
    /\ stage = "open" /\ waiting # <<>>
    /\ \A p \in Peers : taker[p] = a => fate[p] # "none"
    /\ taker' = [taker EXCEPT ![Head(waiting)] = a]
    /\ waiting' = Tail(waiting)
    /\ UNCHANGED <<stage, fate>>

Settle(p) ==
    /\ taker[p] # Nobody /\ fate[p] = "none"
    /\ \E f \in {"served", "broken"} : fate' = [fate EXCEPT ![p] = f]
    /\ UNCHANGED <<stage, waiting, taker>>

\* The listener ends and refuses those that wait.
End ==
    /\ stage' = "over" /\ waiting' = <<>>
    /\ fate' = [p \in Peers |-> IF \E i \in DOMAIN waiting : waiting[i] = p
                                THEN "refused" ELSE fate[p]]
    /\ UNCHANGED taker

Next ==
    \/ Open \/ End
    \/ \E p \in Peers : Arrive(p) \/ Settle(p)
    \/ \E a \in Acceptors : Take(a)

\* A caller does not keep a connection without serving or breaking it.
Spec == Init /\ [][Next]_vars /\ \A p \in Peers : WF_vars(Settle(p))
================================================================================
