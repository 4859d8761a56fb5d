------------------------------- MODULE MCPool -------------------------------
(* Pool for TLC: four threads share two connections.                       *)
EXTENDS Pool

CONSTANTS t1, t2, t3, t4

=============================================================================
