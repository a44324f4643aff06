-------------------------- MODULE MCCircuitBreaker --------------------------
(***************************************************************************)
(* Instance of CircuitBreaker for TLC: three calls may be in flight, enough*)
(* for results of two earlier states to land in a third.                   *)
(***************************************************************************)
EXTENDS CircuitBreaker

CONSTANTS q1, q2, q3
=============================================================================
