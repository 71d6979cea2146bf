--------------------------- MODULE MCRegistration ---------------------------
(* A small instance of Registration for TLC. *)
EXTENDS Registration

CONSTANTS h1, h2, h3, m1, m2

TwoHosts == {h1, h2}
TwoMethods == {m1, m2}
=============================================================================
