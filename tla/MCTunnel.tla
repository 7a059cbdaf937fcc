-------------------------------- MODULE MCTunnel -------------------------------
(***************************************************************************)
(* Instances of Tunnel for TLC.                                            *)
(***************************************************************************)
EXTENDS Tunnel, TLC

CONSTANTS c1, c2

OneHttps == c1 :> "https"
OneHttp == c1 :> "http"
TwoHttp == c1 :> "http" @@ c2 :> "http"
================================================================================
