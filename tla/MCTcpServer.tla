---------------------------- MODULE MCTcpServer ----------------------------
(* Small instances of TcpServer for TLC. *)
EXTENDS TcpServer

CONSTANTS f1, f2

OneFd       == {f1}
TwoFds      == {f1, f2}
TwoTimers   == 1 .. 2
ThreeTimers == 1 .. 3
=============================================================================
