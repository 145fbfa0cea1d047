---------------------------- MODULE MCDiagnostics ----------------------------
(* The handle ledger and the theme transitions, side by side: a behaviour is *)
(* one of the ledger's or one of the control thread's, and leaves the other  *)
(* where it starts.                                                          *)
(*                                                                           *)
(* For the ledger, two sessions, one of them replaced by the other, two      *)
(* threads and the four revisions after which the counter is exhausted.      *)
EXTENDS HandleLedger, MCThemeTransition

Symmetry == Permutations(Callers) \cup Permutations(Themes)

(* The ledger at its start, its threads' locals in one of their values.      *)
LedgerRests ==
  /\ LedgerInit
  /\ \A t \in Callers : arg[t][1] \in Hookless /\ victim[t] \in Hookless

DiagnosticsInit == LedgerInit /\ Init

DiagnosticsNext ==
  \/ Init /\ LedgerNext /\ UNCHANGED vars
  \/ LedgerRests /\ Next /\ UNCHANGED handleVars

DiagnosticsSpec == DiagnosticsInit /\ [][DiagnosticsNext]_<<handleVars, vars>>
=============================================================================
