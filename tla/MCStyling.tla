------------------------------ MODULE MCStyling ------------------------------
(* The algorithms of the preparation and the style variables, side by side: *)
(* a behaviour is one of the ones or of the others, and leaves the rest     *)
(* where it starts.                                                         *)
EXTENDS MCStyleVariables, MCPreparation

StylingInit == Init /\ PreparationInit

StylingNext ==
  \/ PreparationInit /\ Next /\ UNCHANGED preparationVars
  \/ Init /\ position[b] = <<1, 2, 4>> /\ PreparationNext /\ UNCHANGED vars

StylingSpec == StylingInit /\ [][StylingNext]_<<vars, preparationVars>>
=============================================================================
