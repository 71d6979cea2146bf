--------------------------- MODULE MCRpcExchange ---------------------------
(* Small instances of RpcExchange for TLC. *)
EXTENDS RpcExchange

CONSTANTS c1, c2, c3, n1, n2

TwoCalls   == {c1, c2}
ThreeCalls == {c1, c2, c3}
NoCalls    == {}
OneRefused == {c3}
OneConn    == {n1}
TwoConns   == {n1, n2}

ResponseBytes == UNION {Range(Response(c)) : c \in Calls} \cup {Zero}
=============================================================================
