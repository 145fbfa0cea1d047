---------------------------- MODULE MCPreparation ----------------------------
(* The algorithms that turn a theme's text into styles, side by side: every *)
(* behaviour builds the inputs of one of them and leaves the others alone.  *)
EXTENDS Selectors, Expressions, StyleConstants

Identifiers == {<<"a">>, <<"b">>, <<"a", "b">>, <<"b", "b">>}
Word == <<"a">>
SomeValues == {Number(0), Number(2), Text("x")}
Two == [word \in {"2"} |-> 2]

preparationVars == <<chain, path, bound, operands, growth, declared>>

PreparationInit == SelectorInit /\ ExpressionInit /\ ConstantsInit

PreparationNext ==
  \/ /\ operands = <<>> /\ bound = <<>> /\ declared = <<>>
     /\ SelectorNext
     /\ UNCHANGED <<bound, operands, growth, declared>>
  \/ /\ chain = <<>> /\ declared = <<>>
     /\ ExpressionNext
     /\ UNCHANGED <<chain, path, declared>>
  \/ /\ chain = <<>> /\ operands = <<>> /\ bound = <<>>
     /\ ConstantsNext
     /\ UNCHANGED <<chain, path, bound, operands, growth>>
=============================================================================
