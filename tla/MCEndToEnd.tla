------------------------------ MODULE MCEndToEnd -------------------------------
(***************************************************************************)
(* An instance of EndToEnd for TLC.                                        *)
(***************************************************************************)
EXTENDS EndToEnd

CONSTANTS q1, q2, u1, w1, h1
================================================================================
