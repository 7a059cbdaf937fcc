------------------------------ MODULE MCListener -------------------------------
(***************************************************************************)
(* An instance of Listener for TLC.                                        *)
(***************************************************************************)
EXTENDS Listener, TLC

CONSTANTS p1, p2, a1, a2, c1, c2
================================================================================
