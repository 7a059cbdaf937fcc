------------------------------ MODULE MCHttpProxy ------------------------------
(***************************************************************************)
(* Instances of HttpProxy for TLC.                                         *)
(***************************************************************************)
EXTENDS HttpProxy

CONSTANTS q1, q2
================================================================================
