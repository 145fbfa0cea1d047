-------------------------- MODULE MCReleaseQueue ---------------------------
(* An element and its parent, two sessions, and an address that may be used *)
(* a second time.                                                           *)
EXTENDS ReleaseQueue

CONSTANTS h1, h2
=============================================================================
