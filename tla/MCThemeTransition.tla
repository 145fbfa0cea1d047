------------------------- MODULE MCThemeTransition --------------------------
(* One host thread beside the control thread, two calls of SetSite and one   *)
(* signal.  Themes are interchangeable.                                      *)
EXTENDS ThemeTransition, TLC

CONSTANTS host, a, b

ThemeSymmetry == Permutations(Themes)
=============================================================================
