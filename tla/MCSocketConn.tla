----------------------------- MODULE MCSocketConn ------------------------------
(***************************************************************************)
(* Instances of SocketConn for TLC.                                        *)
(***************************************************************************)
EXTENDS SocketConn, TLC

CONSTANTS r1, w1, c1, c2

MCSome == {"ECONNRESET", "EAGAIN", "EISCONN"}
MCNoDevice == {"ENODEV"}
================================================================================
