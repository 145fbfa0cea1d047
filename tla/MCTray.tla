------------------------------ MODULE MCTray -------------------------------
(* One theme, two Explorer processes, two actions of the user and one       *)
(* command.                                                                 *)
EXTENDS Tray

CONSTANTS a
=============================================================================
