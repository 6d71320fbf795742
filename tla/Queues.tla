-------------------------------- MODULE Queues --------------------------------
(***************************************************************************)
(* Vectors from which the program erases every entry that equals another,  *)
(* for the modules whose theorems depend on what is left.                  *)
(***************************************************************************)
EXTENDS Integers, Sequences

\* The entries of q that are not e, in their order: one after the other is
\* looked at, and kept or erased.
Without(q, e) ==
  LET kept[n \in 0 .. Len(q)] ==
        IF n = 0 THEN <<>>
        ELSE IF q[n] = e THEN kept[n - 1]
        ELSE Append(kept[n - 1], q[n])
  IN  kept[Len(q)]
=============================================================================
