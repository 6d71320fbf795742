------------------------------ MODULE MCSocket ------------------------------
(* The socket with small bounds: one call less for WebSockets. *)
EXTENDS Socket

MCEngines == {"tcp", "web"}
MCModes == {"none", "ssl"}
MCCalls == [tcp |-> 4, web |-> 3]
=============================================================================
