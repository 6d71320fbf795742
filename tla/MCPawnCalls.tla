----------------------------- MODULE MCPawnCalls -----------------------------
(* Natives with a few signatures: a text and a string reference, two       *)
(* references, an array with its length and without, and a type that is    *)
(* refused.                                                                *)
EXTENDS PawnCalls

MCSignatures == {<<"s", "S">>, <<"I", "I">>, <<"a", "i">>, <<"s", "a">>, <<"I", "a">>}
MCProvided == {<<"I", "I">>, <<"I", "s">>}

(* An integer reference in the slot that the length of a string takes.     *)
MCDeclared == {<<"I", "S">>, <<"i", "I", "I">>}

(* Texts of one to three cells, arrays of as many or none.                 *)
MCAmount ==
  [x \in (1 .. MaxCalls) \X (1 .. MaxSlots) |->
     IF x = <<2, 2>> THEN 0 ELSE 1 + ((x[1] + x[2]) % 3)]
=============================================================================
