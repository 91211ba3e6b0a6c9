--------------------------- MODULE MCProxyWorker ---------------------------
(* Instances of ProxyWorker for TLC. *)
EXTENDS ProxyWorker

CONSTANTS w1, w2, p1, p2
=============================================================================
