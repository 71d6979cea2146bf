----------------------------- MODULE MCConnPool -----------------------------
(* Small instances of ConnPool for TLC. *)
EXTENDS ConnPool, TLC

CONSTANTS c1, c2, c3, k1, k2, f1, f2, f3

ThreeCalls == {c1, c2, c3}
TwoCalls   == {c1, c2}
TwoKeys    == {k1, k2}
OneKey     == {k1}
TwoFds     == {f1, f2}
ThreeFds   == {f1, f2, f3}
NoCalls    == {}

Symmetry == Permutations(TwoFds) \cup Permutations(TwoKeys)
=============================================================================
