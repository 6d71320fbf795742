--------------------------- MODULE MCRuntimeFrame ---------------------------
(* The frame with a few jobs and promises, which are interchangeable. *)
EXTENDS RuntimeFrame
=============================================================================
