--------------------------- MODULE MCPublication ---------------------------
(* Publication on small instances.                                         *)
EXTENDS Publication, TLC

CONSTANTS h1, h2, d1

=============================================================================
