----------------------------- MODULE MCTEEStartup ------------------------------
(***************************************************************************)
(* Instances of TEEStartup for TLC.                                        *)
(***************************************************************************)
EXTENDS TEEStartup

\* Every file and every secret there is.
MCFiles == File
MCAxal == {"full", "partial", "empty", "malformed", "absent"}
MCPrivy == {"full", "noKeyId", "partial", "empty", "malformed", "absent"}
================================================================================
