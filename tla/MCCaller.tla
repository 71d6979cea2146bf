------------------------------ MODULE MCCaller ------------------------------
(* A small instance of Caller for TLC. *)
EXTENDS Caller

CONSTANTS w1, w2, w3

ThreeWorkers == {w1, w2, w3}
=============================================================================
