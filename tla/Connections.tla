------------------------------ MODULE Connections ------------------------------
(***************************************************************************)
(* Stream connections as the code sees them through net.Conn: an end can   *)
(* be read while something is on its way to it, sees the end of the stream *)
(* once the other end is closed and all is read, and can be written to     *)
(* while the other end is open. Operations on an end that another          *)
(* goroutine has closed fail. The connections themselves are the kernel's. *)
(*                                                                         *)
(* What is sent is a message, the unit the properties tell apart; the      *)
(* buffers are large enough for the few messages of a call.                *)
(***************************************************************************)
EXTENDS Naturals, Sequences

CONSTANT Calls \* the calls the enclave makes, each over a connection of its own

VARIABLE vs \* the vsock connection of each call, dialled by the enclave

End == {"dialer", "acceptor"}

Other(e) == IF e = "dialer" THEN "acceptor" ELSE "dialer"

Connection(Messages) == [open: SUBSET End, to: [End -> Seq(Messages)]]

NotDialed == [open |-> {}, to |-> [e \in End |-> <<>>]]

Connected == [NotDialed EXCEPT !.open = End]

HasData(c, e) == e \in c.open /\ c.to[e] # <<>>

\* A read returns io.EOF, or an error because this end is closed.
ReadEnds(c, e) == e \notin c.open \/ (c.to[e] = <<>> /\ Other(e) \notin c.open)

Writable(c) == c.open = End

Write(c, e, m) == [c EXCEPT !.to[Other(e)] = Append(@, m)]

Read(c, e) == [c EXCEPT !.to[e] = Tail(@)]

\* Closing an end drops what was on its way to it.
Close(c, e) == [c EXCEPT !.open = @ \ {e}, !.to[e] = <<>>]

\* Once an end is closed, a reset may drop what the other has not read.
Reset(c) == [c EXCEPT !.to = [e \in End |-> <<>>]]
================================================================================
