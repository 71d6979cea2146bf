-------------------------- MODULE RouteCacheProofs --------------------------
(***************************************************************************)
(* What holds of RouteCache for every number of calls, hosts and changes:  *)
(* its types, that while the session lives a cached list never goes        *)
(* unwatched unless the watcher's own fetch has failed, and that calls     *)
(* with one key agree on its host.                                         *)
(***************************************************************************)
EXTENDS RouteCache, WellFoundedInduction, TLAPS

(* A list is cached or about to be, by a call or by the watcher. *)
Listed == cache # NoRing \/ watcher = "store" \/ \E c \in Calls : pc[c] = "store"

(* Its next change will reach the watcher, or a fetch has failed. *)
NewsComing == watched \/ fired > 0 \/ watcher = "fetch" \/ blind

(* WatchKept leaves out the list the watcher is about to store, which the  *)
(* induction needs, and the number of events, which is below that of the   *)
(* changes.  A live session owes no notice.                                *)
Inv ==
    /\ TypeOK
    /\ fired <= changes
    /\ ~expired /\ Listed => NewsComing
    /\ notice => expired

LEMMA InitHolds == Init => Inv
<1> SUFFICES ASSUME Init PROVE Inv
    OBVIOUS
<1> {} \in Ring
    BY DEF Ring
<1>1. /\ pc \in [Calls -> {"start", "fetch", "store", "route", "routed", "failed"}]
      /\ ring \in [Calls -> Ring]
  BY DEF Init
<1>2. changes \in 0 .. MaxChanges /\ fired \in 0 .. MaxChanges
  BY RouteAssumption DEF Init
<1>3. /\ children \in Ring /\ newList \in Ring /\ cache \in Ring \cup {NoRing}
      /\ watched \in BOOLEAN /\ blind \in BOOLEAN
      /\ expired \in BOOLEAN /\ notice \in BOOLEAN
      /\ watcher \in {"idle", "fetch", "store"}
  BY DEF Init, Ring
<1>4. TypeOK
  BY <1>1, <1>2, <1>3 DEF TypeOK
<1>5. fired <= changes /\ ~Listed /\ ~notice
  BY DEF Init, Listed
<1> QED
  BY <1>4, <1>5 DEF Inv

LEMMA StepHolds == Inv /\ [Next]_vars => Inv'
<1> SUFFICES ASSUME Inv, [Next]_vars PROVE Inv'
    OBVIOUS
<1> USE RouteAssumption
<1>1. CASE ProvidersChange
  <2>1. children' \in Ring
    <3>1. PICK h \in Hosts :
             children' = IF h \in children THEN children \ {h} ELSE children \cup {h}
      BY <1>1 DEF ProvidersChange
    <3> QED
      BY <3>1 DEF Inv, TypeOK, Ring
  <2>2. changes' \in 0 .. MaxChanges /\ fired' \in 0 .. MaxChanges /\ fired' <= changes'
    BY <1>1 DEF Inv, TypeOK, ProvidersChange
  <2>3. TypeOK'
    BY <1>1, <2>1, <2>2 DEF Inv, TypeOK, Ring, ProvidersChange
  <2>4. NewsComing => NewsComing'
    BY <1>1 DEF Inv, TypeOK, ProvidersChange, NewsComing
  <2>5. Listed' => Listed
    BY <1>1 DEF ProvidersChange, Listed
  <2>6. UNCHANGED <<expired, notice>>
    BY <1>1 DEF ProvidersChange
  <2> QED
    BY <2>2, <2>3, <2>4, <2>5, <2>6 DEF Inv
<1>2. CASE WatcherCalled
  BY <1>2 DEF Inv, TypeOK, Ring, WatcherCalled, Listed, NewsComing
<1>3. CASE WatcherFetch
  BY <1>3 DEF Inv, TypeOK, Ring, WatcherFetch, Fetched, Listed, NewsComing
<1>4. CASE WatcherFetchFails
  BY <1>4 DEF Inv, TypeOK, Ring, WatcherFetchFails, zk, Listed, NewsComing
<1>5. CASE WatcherStore
  BY <1>5 DEF Inv, TypeOK, Ring, WatcherStore, zk, Listed, NewsComing
<1>6. ASSUME NEW c \in Calls, CallStep(c) PROVE Inv'
  <2>1. CASE LookupHit(c)
    BY <2>1 DEF Inv, TypeOK, Ring, LookupHit, Goto, zk, Listed, NewsComing
  <2>2. CASE LookupMiss(c)
    BY <2>2 DEF Inv, TypeOK, Ring, LookupMiss, Goto, zk, Listed, NewsComing
  <2>3. CASE Fetch(c)
    BY <2>3 DEF Inv, TypeOK, Ring, Fetch, Fetched, Goto, Listed, NewsComing
  <2>4. CASE FetchFails(c)
    BY <2>4 DEF Inv, TypeOK, Ring, FetchFails, Goto, zk, Listed, NewsComing
  <2>5. CASE Store(c)
    BY <2>5 DEF Inv, TypeOK, Ring, Store, Goto, zk, Listed, NewsComing
  <2>6. CASE Route(c)
    BY <2>6 DEF Inv, TypeOK, Ring, Route, Goto, zk, Listed, NewsComing
  <2> QED
    BY <1>6, <2>1, <2>2, <2>3, <2>4, <2>5, <2>6 DEF CallStep
<1>7. CASE UNCHANGED vars
  BY <1>7 DEF Inv, TypeOK, Ring, vars, zk, Listed, NewsComing
<1>8. CASE SessionExpires
  BY <1>8 DEF Inv, TypeOK, Ring, SessionExpires
<1>9. CASE WatcherIgnores
  BY <1>9 DEF Inv, TypeOK, Ring, WatcherIgnores, Listed, NewsComing
<1> QED
  BY <1>1, <1>2, <1>3, <1>4, <1>5, <1>6, <1>7, <1>8, <1>9 DEF Next, WatcherStep

THEOREM Invariance == Spec => []Inv
<1>1. Init => Inv
  BY InitHolds
<1>2. Inv /\ [Next]_vars => Inv'
  BY StepHolds
<1> QED
  BY <1>1, <1>2, PTL DEF Spec

(* Every variable keeps its type, for every instance. *)
THEOREM TypeCorrect == Spec => []TypeOK
<1>1. Inv => TypeOK
  BY DEF Inv
<1> QED
  BY <1>1, Invariance, PTL

(* While the session lives a cached list is watched, or its change is on   *)
(* the way, or the watcher's last fetch failed (mprpcchannel.cc:43, 149).  *)
THEOREM Watched == Spec => []WatchKept
<1>1. Inv => WatchKept
  BY DEF Inv, WatchKept, Listed, NewsComing
<1> QED
  BY <1>1, Invariance, PTL
-----------------------------------------------------------------------------
(* The ring.                                                                *)

LEMMA LeastIsLeast ==
    ASSUME NEW S \in SUBSET Nat, S # {}
    PROVE  Least(S) \in S /\ \A q \in S : Least(S) <= q
<1>1. PICK p \in S : \A q \in S : <<q, p>> \notin OpToRel(<, Nat)
  BY NatLessThanWellFounded, WFMin, Zenon
<1>2. ASSUME NEW q \in S PROVE p <= q
  <2>1. p \in Nat /\ q \in Nat
    OBVIOUS
  <2>2. q < p => <<q, p>> \in OpToRel(<, Nat)
    BY <2>1 DEF OpToRel
  <2>3. ~(q < p)
    BY <1>1, <2>2, Zenon
  <2> QED
    BY <2>1, <2>3
<1> QED
  BY <1>2 DEF Least

LEMMA PlacesApart ==
    ASSUME NEW h \in Hosts
    PROVE  /\ Places(h) \in SUBSET Nat
           /\ Places(h) # {}
           /\ \A g \in Hosts : \A p \in Places(h) : p \in Places(g) => g = h
<1>1. \A g \in Hosts : \A i \in VirtualIds : <<g, i>> \in Hosts \X VirtualIds
  OBVIOUS
<1>2. \A i \in VirtualIds : Hash[h, i] \in Nat
  BY <1>1, RingAssumption
<1>3. 1 \in VirtualIds
  BY RingAssumption DEF VirtualIds
<1>4. ASSUME NEW g \in Hosts, NEW p \in Places(h), p \in Places(g)
      PROVE  g = h
  <2>1. PICK i \in VirtualIds : p = Hash[h, i]
    BY DEF Places
  <2>2. PICK j \in VirtualIds : p = Hash[g, j]
    BY <1>4 DEF Places
  <2>3. <<h, i>> = <<g, j>>
    BY <1>1, <2>1, <2>2, RingAssumption
  <2> QED
    BY <2>3
<1> QED
  BY <1>2, <1>3, <1>4 DEF Places

AllPlaces(hosts) == UNION {Places(h) : h \in hosts}

(* A ring has the places of its hosts and leads from each to the host it   *)
(* belongs to.                                                             *)
LEMMA RingOfHosts ==
    ASSUME NEW hosts \in SUBSET Hosts
    PROVE  /\ DOMAIN AddNodes(hosts) = AllPlaces(hosts)
           /\ AllPlaces(hosts) \in SUBSET Nat
           /\ hosts # {} => AllPlaces(hosts) # {}
           /\ \A h \in hosts : \A p \in Places(h) : AddNodes(hosts)[p] = h
<1>1. DOMAIN AddNodes(hosts) = AllPlaces(hosts)
  BY DEF AddNodes, AllPlaces
<1>2. AllPlaces(hosts) \in SUBSET Nat
  BY PlacesApart DEF AllPlaces
<1>3. hosts # {} => AllPlaces(hosts) # {}
  BY PlacesApart DEF AllPlaces
<1>4. ASSUME NEW h \in hosts, NEW p \in Places(h)
      PROVE  AddNodes(hosts)[p] = h
  <2>1. \A g \in hosts : p \in Places(g) => g = h
    BY <1>4, PlacesApart
  <2>2. p \in AllPlaces(hosts)
    BY <1>4 DEF AllPlaces
  <2> QED
    BY <1>4, <2>1, <2>2 DEF AddNodes, AllPlaces
<1> QED
  BY <1>1, <1>2, <1>3, <1>4

(* The place at which GetTargetHost stops. *)
After(hosts, k) == {p \in AllPlaces(hosts) : p >= k}
Stop(hosts, k)  ==
    Least(IF After(hosts, k) = {} THEN AllPlaces(hosts) ELSE After(hosts, k))

LEMMA TargetAtStop ==
    ASSUME NEW hosts \in SUBSET Hosts, hosts # {}, NEW k \in Keys
    PROVE  \E h \in hosts : /\ Stop(hosts, k) \in Places(h)
                            /\ TargetOf[hosts][k] = h
<1> DEFINE S == IF After(hosts, k) = {} THEN AllPlaces(hosts) ELSE After(hosts, k)
<1>1. S \in SUBSET Nat /\ S # {} /\ S \subseteq AllPlaces(hosts)
  BY RingOfHosts DEF After
<1>2. Stop(hosts, k) \in AllPlaces(hosts)
  BY <1>1, LeastIsLeast DEF Stop
<1>3. PICK h \in hosts : Stop(hosts, k) \in Places(h)
  BY <1>2 DEF AllPlaces
<1>4. TargetOf[hosts][k] = GetTargetHost(AddNodes(hosts), k)
  BY DEF TargetOf
<1>5. GetTargetHost(AddNodes(hosts), k) = AddNodes(hosts)[Stop(hosts, k)]
  BY RingOfHosts DEF GetTargetHost, Stop, After
<1> QED
  BY <1>3, <1>4, <1>5, RingOfHosts

LEMMA EmptyHasNoTarget ==
    ASSUME NEW k \in Keys
    PROVE  /\ TargetOf[{}][k] = NoHost
           /\ GetTargetHost(AddNodes({}), k) = NoHost
<1>1. DOMAIN AddNodes({}) = {}
  BY DEF AddNodes
<1>2. GetTargetHost(AddNodes({}), k) = NoHost
  BY <1>1 DEF GetTargetHost
<1> QED
  BY <1>2 DEF TargetOf

LEMMA TargetType == TargetOf \in [SUBSET Hosts -> [Keys -> Hosts \cup {NoHost}]]
<1>1. ASSUME NEW hosts \in SUBSET Hosts, NEW k \in Keys
      PROVE  GetTargetHost(AddNodes(hosts), k) \in Hosts \cup {NoHost}
  <2>1. CASE hosts = {}
    BY <2>1, EmptyHasNoTarget
  <2>2. CASE hosts # {}
    BY <2>2, TargetAtStop DEF TargetOf
  <2> QED
    BY <2>1, <2>2
<1> QED
  BY <1>1 DEF TargetOf

(* If each ring has the host of the other then they stop at one place.     *)
LEMMA SameTarget ==
    ASSUME NEW A \in SUBSET Hosts, NEW B \in SUBSET Hosts, NEW k \in Keys,
           A # {}, B # {}, TargetOf[A][k] \in B, TargetOf[B][k] \in A
    PROVE  TargetOf[A][k] = TargetOf[B][k]
<1> DEFINE a == TargetOf[A][k]
           b == TargetOf[B][k]
           p == Stop(A, k)
           q == Stop(B, k)
<1>1. a \in A /\ p \in Places(a) /\ b \in B /\ q \in Places(b)
  BY TargetAtStop
<1>2. /\ p \in AllPlaces(A) /\ p \in AllPlaces(B)
      /\ q \in AllPlaces(A) /\ q \in AllPlaces(B)
  BY <1>1 DEF AllPlaces
<1>3. /\ AllPlaces(A) \in SUBSET Nat /\ AllPlaces(B) \in SUBSET Nat
      /\ k \in Nat
  BY RingOfHosts, RingAssumption
<1>4. After(A, k) # {} => p \in After(A, k) /\ \A r \in After(A, k) : p <= r
  <2>1. After(A, k) \in SUBSET Nat
    BY <1>3 DEF After
  <2> QED
    BY <2>1, LeastIsLeast DEF Stop
<1>5. After(B, k) # {} => q \in After(B, k) /\ \A r \in After(B, k) : q <= r
  <2>1. After(B, k) \in SUBSET Nat
    BY <1>3 DEF After
  <2> QED
    BY <2>1, LeastIsLeast DEF Stop
<1>6. After(A, k) = {} => \A r \in AllPlaces(A) : p <= r
  BY <1>2, <1>3, LeastIsLeast DEF Stop
<1>7. After(B, k) = {} => \A r \in AllPlaces(B) : q <= r
  BY <1>2, <1>3, LeastIsLeast DEF Stop
<1>8. p = q
  <2>1. CASE p >= k
    <3>1. p \in After(A, k) /\ p \in After(B, k)
      BY <2>1, <1>2 DEF After
    <3>2. q \in After(B, k) /\ q <= p
      BY <3>1, <1>5
    <3>3. q \in After(A, k)
      BY <3>2, <1>2 DEF After
    <3> QED
      BY <1>2, <1>3, <1>4, <3>2, <3>3
  <2>2. CASE ~(p >= k)
    <3>1. After(A, k) = {}
      BY <2>2, <1>4 DEF After
    <3>2. q \notin After(A, k)
      BY <3>1
    <3>3. After(B, k) = {}
      BY <3>2, <1>2, <1>5 DEF After
    <3> QED
      BY <1>2, <1>3, <1>6, <1>7, <3>1, <3>3
  <2> QED
    BY <2>1, <2>2
<1>9. PICK h \in Hosts : h = a
  BY <1>1
<1>10. AddNodes(A)[p] = a /\ AddNodes(A)[q] = b
  BY <1>1, RingOfHosts
<1> QED
  BY <1>8, <1>10

(* A call that has a host has a list that is not empty.                    *)
Listing == \A c \in Calls : pc[c] = "routed" => ring[c] # {}

LEMMA RoutedHasList == Spec => []Listing
<1>1. Init => Listing
  BY DEF Init, Listing
<1>2. Inv /\ Listing /\ [Next]_vars => Listing'
  <2> SUFFICES ASSUME Inv, Listing, [Next]_vars, NEW d \in Calls,
                      pc'[d] = "routed"
               PROVE  ring'[d] # {}
    BY DEF Listing
  <2>1. CASE UNCHANGED <<pc, ring>>
    BY <2>1 DEF Listing
  <2>2. ASSUME NEW c \in Calls, CallStep(c) PROVE ring'[d] # {}
    <3>1. CASE Route(c)
      <4>1. CASE c = d
        <5>1. PICK k \in Keys : Goto(c, IF TargetHost(c, k) = NoHost
                                        THEN "failed" ELSE "routed")
          BY <3>1 DEF Route
        <5>2. TargetHost(c, k) # NoHost
          BY <4>1, <5>1 DEF Goto, Inv, TypeOK
        <5>3. ring[c] # {}
          BY <5>2, EmptyHasNoTarget DEF TargetHost
        <5> QED
          BY <3>1, <4>1, <5>3 DEF Route
      <4>2. CASE c # d
        BY <3>1, <4>2 DEF Route, Goto, Inv, TypeOK, Listing
      <4> QED
        BY <4>1, <4>2
    <3>2. CASE LookupHit(c)
      BY <3>2 DEF LookupHit, Goto, Inv, TypeOK, Listing
    <3>3. CASE LookupMiss(c)
      BY <3>3 DEF LookupMiss, Goto, Inv, TypeOK, Listing
    <3>4. CASE Fetch(c)
      BY <3>4 DEF Fetch, Goto, Inv, TypeOK, Listing
    <3>5. CASE FetchFails(c)
      BY <3>5 DEF FetchFails, Goto, Inv, TypeOK, Listing
    <3>6. CASE Store(c)
      BY <3>6 DEF Store, Goto, Inv, TypeOK, Listing
    <3> QED
      BY <2>2, <3>1, <3>2, <3>3, <3>4, <3>5, <3>6 DEF CallStep
  <2>3. ProvidersChange \/ SessionExpires \/ WatcherStep => UNCHANGED <<pc, ring>>
    BY DEF ProvidersChange, SessionExpires, WatcherStep, WatcherCalled, WatcherIgnores,
           WatcherFetch, WatcherFetchFails, WatcherStore
  <2> QED
    BY <2>1, <2>2, <2>3 DEF Next, vars
<1> QED
  BY <1>1, <1>2, Invariance, PTL DEF Spec

(* Whatever the lists and the hashes, two calls with one key choose one    *)
(* host if each knows the other's (ConsistentHash.h:28).                   *)
THEOREM KeysStay == Spec => []RoutesAgree
<1>1. Inv /\ Listing => RoutesAgree
  <2> SUFFICES ASSUME Inv, Listing, NEW c \in Calls, NEW d \in Calls,
                      pc[c] = "routed", pc[d] = "routed", NEW k \in Keys,
                      TargetHost(c, k) \in ring[d], TargetHost(d, k) \in ring[c]
               PROVE  TargetHost(c, k) = TargetHost(d, k)
    BY TargetType DEF RoutesAgree
  <2>1. /\ ring[c] \in SUBSET Hosts /\ ring[c] # {}
        /\ ring[d] \in SUBSET Hosts /\ ring[d] # {}
    BY DEF Inv, TypeOK, Ring, Listing
  <2> QED
    BY <2>1, SameTarget DEF TargetHost
<1> QED
  BY <1>1, Invariance, RoutedHasList, PTL

=============================================================================
