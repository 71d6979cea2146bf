----------------------------- MODULE ConnLease -----------------------------
(***************************************************************************)
(* What the client's connection pool promises to the RPC calls that use it *)
(* (class ConnectionPool), stated without its lock, its counter, its       *)
(* condition variable and its clock:                                       *)
(*                                                                         *)
(*   - a connection is either leased to exactly one call or idle under the *)
(*     host it is connected to;                                            *)
(*   - a call is leased an idle connection of the host it asked for, or a  *)
(*     new one, and a new one is made only below the limit;                *)
(*   - only idle connections are reclaimed behind the calls' back.         *)
(*                                                                         *)
(* ConnPool implements this specification.                                 *)
(***************************************************************************)
EXTENDS Naturals, FiniteSets

CONSTANTS Calls,           \* the RPC calls
          Keys,            \* the hosts, "ip:port"
          Fds,             \* socket descriptors
          NoFd,            \* "holds no descriptor"
          MaxConnections   \* the limit on open connections

VARIABLES want,    \* the host each call asks for
          idle,    \* idle[k]: the idle connections to host k
          lease    \* lease[c]: the connection call c holds, or NoFd

vars == <<want, idle, lease>>

Idle   == UNION {idle[k] : k \in Keys}
Leased == {lease[c] : c \in Calls} \ {NoFd}
Open   == Idle \cup Leased

Init ==
    /\ want \in [Calls -> Keys]
    /\ idle = [k \in Keys |-> {}]
    /\ lease = [c \in Calls |-> NoFd]

(* A call without a connection leases an idle one of its host. *)
Reuse(c) ==
    /\ lease[c] = NoFd
    /\ \E fd \in idle[want[c]] :
          /\ lease' = [lease EXCEPT ![c] = fd]
          /\ idle' = [idle EXCEPT ![want[c]] = @ \ {fd}]

(* A call without a connection opens one, below the limit. *)
Dial(c) ==
    /\ lease[c] = NoFd
    /\ Cardinality(Open) < MaxConnections
    /\ \E fd \in Fds \ Open : lease' = [lease EXCEPT ![c] = fd]
    /\ UNCHANGED idle

(* A call hands its connection back, to the host it was leased for. *)
GiveBack(c) ==
    /\ lease[c] # NoFd
    /\ idle' = [idle EXCEPT ![want[c]] = @ \cup {lease[c]}]
    /\ lease' = [lease EXCEPT ![c] = NoFd]

(* A call closes the connection it holds. *)
Discard(c) ==
    /\ lease[c] # NoFd
    /\ lease' = [lease EXCEPT ![c] = NoFd]
    /\ UNCHANGED idle

(* Any set of idle connections is closed. *)
Reclaim ==
    /\ \E gone \in SUBSET Idle : idle' = [k \in Keys |-> idle[k] \ gone]
    /\ UNCHANGED lease

Next ==
    /\ \/ \E c \in Calls : Reuse(c) \/ Dial(c) \/ GiveBack(c) \/ Discard(c)
       \/ Reclaim
    /\ UNCHANGED want

Spec == Init /\ [][Next]_vars
=============================================================================
