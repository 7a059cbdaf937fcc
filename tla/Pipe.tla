---------------------------------- MODULE Pipe ---------------------------------
(***************************************************************************)
(* What a tunnel is for: channels that deliver what was sent, in the order *)
(* it was sent, each message once. A channel may stop delivering at any    *)
(* time; it never skips, repeats or invents a message.                     *)
(***************************************************************************)
EXTENDS Naturals, Sequences

CONSTANTS Channels, Message

VARIABLES sent, received

vars == <<sent, received>>

Init == sent = [k \in Channels |-> <<>>] /\ received = [k \in Channels |-> <<>>]

Send(k, m) ==
    /\ sent' = [sent EXCEPT ![k] = Append(@, m)]
    /\ UNCHANGED received

Deliver(k) ==
    /\ Len(received[k]) < Len(sent[k])
    /\ received' = [received EXCEPT ![k] = SubSeq(sent[k], 1, Len(@) + 1)]
    /\ UNCHANGED sent

Next == \E k \in Channels : Deliver(k) \/ \E m \in Message : Send(k, m)

Spec == Init /\ [][Next]_vars
================================================================================
