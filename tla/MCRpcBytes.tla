----------------------------- MODULE MCRpcBytes -----------------------------
(* A small instance of RpcBytes for TLC. *)
EXTENDS RpcBytes

Characters == {"sp", "nl", "=", "#", "p", "8"}

SmallFiles == BoundedSeq(Characters, 6)
PKey       == <<"p">>
Eight      == {"8"}

S  == <<85, 115>>
M  == <<76>>

Text(n) == [i \in 1 .. n |-> 97 + (i % 7)]

SmallRequests == {NewRequest, [NewRequest EXCEPT !.name = Text(3), !.pwd = Text(4)]}
TwoTargets    == {<<S, M>>, <<S, <<88>> >>}

(* Every field at its default, and a negative number, which takes ten bytes. *)
SmallVerdicts == {[errcode |-> 0, errmsg |-> <<>>, success |-> FALSE],
                  [errcode |-> -2, errmsg |-> Text(3), success |-> TRUE]}
=============================================================================
