--------------------------- MODULE MCStyleEngine ---------------------------
(* A button and its label under two themes.  Under the first, the button's  *)
(* fill has a value of a variable in the state "over" of the group, with a  *)
(* capture; a rule without a group comes too late for the fill, but adds a  *)
(* bucket for the size.  Under the second the fill has a variable's value,  *)
(* and another one in a state.  The label's fill is a variable's under the  *)
(* first; under the second it has an inert style and a rule of captures.    *)
EXTENDS StyleEngine, TLC

CONSTANTS button, label

S(p, s, d) == [property |-> p, state |-> s, dynamic |-> d]
R(g, styles, c) == [group |-> g, styles |-> styles, captures |-> c]

MCRules ==
  << (button :> << R("g", <<S("fill", "over", TRUE)>>, TRUE),
                   R("none", <<S("fill", "", FALSE), S("size", "", FALSE)>>, FALSE) >>
      @@ label :> << R("none", <<S("fill", "", TRUE)>>, FALSE) >>),
     (button :> << R("g", <<S("fill", "", TRUE), S("fill", "over", FALSE)>>, FALSE) >>
      @@ label :> << R("none", <<S("size", "over", FALSE)>>, FALSE),
                     R("none", <<>>, TRUE) >>) >>

(* Both themes have a reference; the second one's key is the application's  *)
(* to define, so that the merge skips it.                                   *)
MCEntries == << << <<"accent", "value">>, <<"accent", "reference">> >>,
                << <<"missing", "reference">> >> >>
=============================================================================
