-------------------------- MODULE MCStreamerSelect --------------------------
(***************************************************************************)
(* Model-checking instance of StreamerSelect: entities on a line, of which *)
(* each player sees a stretch from one end or the other, so that players   *)
(* share none, some or all of theirs.                                      *)
(***************************************************************************)
EXTENDS StreamerSelect

Line == <<1, 2, 3, 4, 5, 6, 7, 8>>

Stretches == {SubSeq(Line, a, b) : a \in {1, 4}, b \in {3, 4, 5, 8}}

MCSurroundings == Stretches \cup {Reverse(seq) : seq \in Stretches}
=============================================================================
