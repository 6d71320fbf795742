-------------------------- MODULE MCRuntimeModulator --------------------------
(* Three files that may request each other or a web server.                *)
EXTENDS RuntimeModulator

CONSTANTS a, b, c

MCPaths == {a, b, c}
MCContents == [p \in MCPaths |->
                 CASE p = a -> {<<b, c>>, <<>>}
                   [] p = b -> {<<>>, <<a>>, <<c, a>>, Bad}
                   [] p = c -> {<<>>, <<b>>, <<Http>>, Missing}]
MCClearable == {{b}, {a, b, c}}
=============================================================================
