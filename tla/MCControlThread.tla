-------------------------- MODULE MCControlThread ---------------------------
(* What comes to an end on the control thread: a wake-up for the mailbox,   *)
(* and a transition.  A behaviour is of the one or of the other, and leaves *)
(* the rest where it starts, where no fair step of it is possible.          *)
(*                                                                          *)
(* Three callers, two commands and three generations: a caller of a retired *)
(* generation meets one of the current generation, at every step of both.   *)
EXTENDS CommandMailbox, MCThemeTransition

CONSTANTS p1, p2, p3, reload, continue

ControlThreadInit == MailboxInit /\ Init

ControlThreadNext ==
  \/ Init /\ MailboxNext /\ UNCHANGED vars
  \/ MailboxInit /\ pushed = [p \in Callers |-> reload] /\ Next /\ UNCHANGED mailboxVars

ControlThreadSpec ==
  ControlThreadInit /\ [][ControlThreadNext]_<<mailboxVars, vars>> /\ MailboxFairness /\ Fairness
=============================================================================
