------------------------------ MODULE HashRing ------------------------------
(***************************************************************************)
(* The hash ring of src/src/include/ConsistentHash.h.  A host stands on    *)
(* it in as many places as it has virtual nodes, and a key belongs to the  *)
(* host of the first place at or after the key's hash.                     *)
(*                                                                         *)
(* m_ring is a function from places to hosts.  Of two virtual nodes with   *)
(* one hash the later in the list would win; they are assumed apart, so    *)
(* that a ring depends on the set of hosts only.                           *)
(***************************************************************************)
EXTENDS Naturals, FiniteSets

CONSTANTS Hosts,          \* provider nodes, "ip:port"
          VirtualNodes,   \* m_virtual_node_num
          Hash,           \* Hash[h, i], of the name of virtual node i of h
          Keys,           \* the hashes of the keys that are looked up
          NoHost          \* ""

VirtualIds == 1 .. VirtualNodes

ASSUME RingAssumption ==
    /\ VirtualNodes \in Nat \ {0}
    /\ Hash \in [Hosts \X VirtualIds -> Nat]
    /\ \A u, v \in Hosts \X VirtualIds : Hash[u] = Hash[v] => u = v
    /\ Keys \subseteq Nat
    /\ NoHost \notin Hosts

Places(h) == {Hash[h, i] : i \in VirtualIds}

AddNodes(hosts) ==
    [p \in UNION {Places(h) : h \in hosts} |-> CHOOSE h \in hosts : p \in Places(h)]

Least(S) == CHOOSE p \in S : \A q \in S : p <= q

(* Mutant: the host is found by the remainder of the hash. *)
GetTargetHostModulo(m_ring, k) ==
    LET before(p) == {q \in DOMAIN m_ring : q < p}
        n == Cardinality(DOMAIN m_ring)
    IN  IF DOMAIN m_ring = {} THEN NoHost
        ELSE m_ring[CHOOSE p \in DOMAIN m_ring : Cardinality(before(p)) = k % n]

(* lower_bound, and around the end of the ring to its beginning. *)
GetTargetHost(m_ring, k) ==
    LET after == {p \in DOMAIN m_ring : p >= k}
    IN  IF DOMAIN m_ring = {} THEN NoHost
        ELSE m_ring[Least(IF after = {} THEN DOMAIN m_ring ELSE after)]

(* The host that each key has on the ring of each set of hosts. *)
TargetOf == [hosts \in SUBSET Hosts |-> [k \in Keys |-> GetTargetHost(AddNodes(hosts), k)]]

=============================================================================
