--------------------------- MODULE MCStreamerHost ---------------------------
(* Model-checking instance of StreamerHost and of StreamerService. *)
EXTENDS StreamerHost
=============================================================================
