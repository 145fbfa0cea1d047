--------------------------- MODULE MCSubscription ---------------------------
(***************************************************************************)
(* Two subscriptions, the second a replacement of the first, and up to two *)
(* reports at a time inside each callback.                                 *)
(***************************************************************************)
EXTENDS Subscription
=============================================================================
