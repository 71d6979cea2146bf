----------------------------- MODULE MCAsyncLog -----------------------------
(* A small instance of AsyncLog for TLC. *)
EXTENDS AsyncLog

CONSTANTS w1, w2

TwoWriters == {w1, w2}
=============================================================================
