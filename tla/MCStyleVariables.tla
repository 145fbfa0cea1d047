------------------------- MODULE MCStyleVariables --------------------------
(* Two variables.  `b` (a task list button) captures width and reads it,    *)
(* and its own property is captured as height; `w` captures width further   *)
(* away; `t` reads width or height depending on width, and feeds width      *)
(* back, so that the cycle width, height, width may reach the depth limit.  *)
EXTENDS StyleVariables

CONSTANTS w, b, t, width, height

MCElements == {w, b, t}
MCNames == {width, height}
MCCaptures == [e \in MCElements |->
  IF e = b THEN <<width, height>> ELSE <<width>>]
MCFirst == [e \in MCElements |-> IF e = w THEN Nothing ELSE width]
MCSecond == [e \in MCElements |-> IF e = t THEN height ELSE Nothing]
MCOffset == [e \in MCElements |-> IF e = b THEN 1 ELSE 0]
MCFeeds == [e \in MCElements |->
  IF e = w THEN Nothing ELSE IF e = b THEN height ELSE width]
MCPositions == [e \in MCElements |->
  IF e = w THEN {<<1, 2>>} ELSE IF e = b THEN {<<1, 3, 4>>, <<1, 2, 4>>} ELSE {<<1, 3, 5>>}]
=============================================================================
