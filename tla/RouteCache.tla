----------------------------- MODULE RouteCache -----------------------------
(***************************************************************************)
(* Service discovery on the client (src/src/mprpcchannel.cc): CallMethod   *)
(* looks up the providers of a method in g_route_cache, fetches them from  *)
(* ZooKeeper on a miss, and ZkChildWatcher, on the ZooKeeper client's own  *)
(* thread, replaces the cached list when the providers change.             *)
(*                                                                         *)
(* The process has one session with ZooKeeper (g_zkCli, made once).  When  *)
(* it expires its watches go and nothing sets them again: the watcher      *)
(* drops the event that says so, and every later fetch fails.              *)
(*                                                                         *)
(* g_cache_mutex covers a single lookup or store.  A list is fetched before*)
(* the lock is taken, so lists may be stored in another order than the one *)
(* they were fetched in.  One method is modelled.  A list is a set of      *)
(* hosts, which says all about the ring AddNodes makes of it; the ring is  *)
(* built where a host is looked up in it.                                  *)
(***************************************************************************)
EXTENDS Naturals, FiniteSets, HashRing

CONSTANTS Calls,         \* threads in CallMethod
          NoRing,        \* the method is not in g_route_cache
          MaxChanges,    \* bound: how often the providers change
          FetchMayFail   \* may zoo_wget_children fail?

ASSUME RouteAssumption ==
    /\ \A r \in SUBSET Hosts : r # NoRing
    /\ MaxChanges \in Nat
    /\ FetchMayFail \in BOOLEAN

VARIABLES
    \* ZooKeeper and its client library
    children,   \* the children of the method's node
    changes,    \* how often they have changed
    watched,    \* a child watch is set
    fired,      \* ZOO_CHILD_EVENTs not handled yet
    expired,    \* the session of g_zkCli has expired
    notice,     \* the watcher has not yet been told that it has
    \* the process
    cache,      \* g_route_cache[method_path]
    watcher,    \* ZkChildWatcher: "idle", "fetch" or "store"
    newList,    \* new_host_list
    pc,         \* where each call is
    ring,       \* ch of each call
    \* history
    blind       \* the last fetch there was is one of the watcher's that failed

zk   == <<children, changes, watched, fired, expired, notice>>
vars == <<zk, cache, watcher, newList, pc, ring, blind>>

Init ==
    /\ children \in SUBSET Hosts
    /\ changes = 0 /\ watched = FALSE /\ fired = 0
    /\ expired = FALSE /\ notice = FALSE
    /\ cache = NoRing
    /\ watcher = "idle" /\ newList = {}
    /\ pc = [c \in Calls |-> "start"]
    /\ ring = [c \in Calls |-> {}]
    /\ blind = FALSE

-----------------------------------------------------------------------------
(* A provider comes up or goes down.  A watch fires once. *)
ProvidersChange ==
    /\ changes < MaxChanges
    /\ changes' = changes + 1
    /\ \E h \in Hosts :
          children' = IF h \in children THEN children \ {h} ELSE children \cup {h}
    /\ fired' = IF watched THEN fired + 1 ELSE fired
    /\ watched' = FALSE
    /\ UNCHANGED <<expired, notice, cache, watcher, newList, pc, ring, blind>>

(* The session expires, once, for nothing makes another.  A watch that is   *)
(* set will not fire; its watcher is called with ZOO_SESSION_EVENT instead. *)
SessionExpires ==
    /\ ~expired /\ expired' = TRUE
    /\ notice' = watched
    /\ watched' = FALSE
    /\ UNCHANGED <<children, changes, fired, cache, watcher, newList, pc, ring, blind>>

(* zoo_wget_children: the list, and a watch on its next change. *)
Fetched ==
    /\ ~expired
    /\ watched' = TRUE /\ blind' = FALSE
    /\ UNCHANGED <<children, changes, expired, notice>>

(* It may fail at any time, and with an expired session it does. *)
NotFetched == FetchMayFail \/ expired

-----------------------------------------------------------------------------
(* ZkChildWatcher                                                           *)

WatcherCalled ==
    /\ watcher = "idle" /\ fired > 0
    /\ fired' = fired - 1
    /\ watcher' = "fetch"
    /\ UNCHANGED <<children, changes, watched, expired, notice, cache, newList, pc, ring, blind>>

(* type is not ZOO_CHILD_EVENT: nothing is done.  Events come in the order  *)
(* they happened.  (The watcher is also told of a lost connection; that     *)
(* changes nothing here, and the library keeps the watch.)                  *)
WatcherIgnores ==
    /\ watcher = "idle" /\ fired = 0 /\ notice
    /\ notice' = FALSE
    /\ UNCHANGED <<children, changes, watched, fired, expired, cache, watcher, newList,
                   pc, ring, blind>>

(* Mutant: zoo_get_children, which sets no watch. *)
WatcherFetchUnwatched ==
    /\ watcher = "fetch" /\ ~expired
    /\ newList' = children
    /\ watcher' = "store"
    /\ UNCHANGED <<zk, cache, pc, ring, blind>>

WatcherFetch ==
    /\ watcher = "fetch"
    /\ newList' = children
    /\ Fetched
    /\ watcher' = "store"
    /\ UNCHANGED <<fired, cache, pc, ring>>

(* flag is not ZOK: the watcher returns and no watch is set. *)
WatcherFetchFails ==
    /\ watcher = "fetch" /\ NotFetched
    /\ watcher' = "idle"
    /\ blind' = TRUE
    /\ UNCHANGED <<zk, cache, newList, pc, ring>>

(* Mutant: emplace, which keeps an entry that is there. *)
WatcherStoreIfAbsent ==
    /\ watcher = "store"
    /\ cache' = IF cache = NoRing THEN newList ELSE cache
    /\ watcher' = "idle"
    /\ UNCHANGED <<zk, newList, pc, ring, blind>>

WatcherStore ==
    /\ watcher = "store"
    /\ cache' = newList
    /\ watcher' = "idle"
    /\ UNCHANGED <<zk, newList, pc, ring, blind>>

-----------------------------------------------------------------------------
(* CallMethod                                                               *)

Goto(c, p) == pc' = [pc EXCEPT ![c] = p]

LookupHit(c) ==
    /\ pc[c] = "start" /\ cache # NoRing
    /\ ring' = [ring EXCEPT ![c] = cache]
    /\ Goto(c, "route")
    /\ UNCHANGED <<zk, cache, watcher, newList, blind>>

LookupMiss(c) ==
    /\ pc[c] = "start" /\ cache = NoRing
    /\ Goto(c, "fetch")
    /\ UNCHANGED <<zk, cache, watcher, newList, ring, blind>>

Fetch(c) ==
    /\ pc[c] = "fetch"
    /\ ring' = [ring EXCEPT ![c] = children]
    /\ Fetched
    /\ Goto(c, IF children = {} THEN "failed" ELSE "store")
    /\ UNCHANGED <<fired, cache, watcher, newList>>

FetchFails(c) ==
    /\ pc[c] = "fetch" /\ NotFetched
    /\ Goto(c, "failed")
    /\ UNCHANGED <<zk, cache, watcher, newList, ring, blind>>

(* Stored whatever is in the cache by now. *)
Store(c) ==
    /\ pc[c] = "store"
    /\ cache' = ring[c]
    /\ Goto(c, "route")
    /\ UNCHANGED <<zk, watcher, newList, ring, blind>>

TargetHost(c, k) == TargetOf[ring[c]][k]

(* hash_key is the method's name, or the user's for Login; no host is no   *)
(* address.                                                                *)
Route(c) ==
    /\ pc[c] = "route"
    /\ \E k \in Keys : Goto(c, IF TargetHost(c, k) = NoHost THEN "failed" ELSE "routed")
    /\ UNCHANGED <<zk, cache, watcher, newList, ring, blind>>

CallStep(c) ==
    \/ LookupHit(c) \/ LookupMiss(c)
    \/ Fetch(c) \/ FetchFails(c)
    \/ Store(c)
    \/ Route(c)

WatcherStep ==
    \/ WatcherCalled \/ WatcherIgnores
    \/ WatcherFetch \/ WatcherFetchFails \/ WatcherStore

Next == ProvidersChange \/ SessionExpires \/ WatcherStep \/ \E c \in Calls : CallStep(c)

(* Threads run and ZooKeeper answers; providers need not change, nor the    *)
(* session expire.                                                          *)
Fairness == WF_vars(WatcherStep) /\ \A c \in Calls : WF_vars(CallStep(c))

Spec     == Init /\ [][Next]_vars
FairSpec == Spec /\ Fairness

-----------------------------------------------------------------------------
(* Properties.                                                              *)

Ring == SUBSET Hosts

TypeOK ==
    /\ children \in Ring /\ changes \in 0 .. MaxChanges
    /\ watched \in BOOLEAN /\ fired \in 0 .. MaxChanges
    /\ expired \in BOOLEAN /\ notice \in BOOLEAN
    /\ cache \in Ring \cup {NoRing}
    /\ watcher \in {"idle", "fetch", "store"} /\ newList \in Ring
    /\ pc \in [Calls -> {"start", "fetch", "store", "route", "routed", "failed"}]
    /\ ring \in [Calls -> Ring]
    /\ blind \in BOOLEAN

(* While the session lives, a list that is cached, or about to be, does    *)
(* not go unwatched: its next change will reach the watcher because a      *)
(* watch is set, or has fired, or is about to be set again.  The exception *)
(* is a watcher whose own fetch failed and after which nobody has fetched. *)
(* Once the session has expired no list is watched any more, since the     *)
(* watcher drops every event but ZOO_CHILD_EVENT (mprpcchannel.cc:36).     *)
WatchKept ==
    ~expired /\ (cache # NoRing \/ \E c \in Calls : pc[c] = "store") =>
        watched \/ fired > 0 \/ watcher = "fetch" \/ blind

(* Two calls with one key go to one host, although one of them may have an *)
(* older list: they differ only if the host of one is not in the list of   *)
(* the other.  So users stay where they are while providers come and go.   *)
RoutesAgree ==
    /\ TargetOf \in [SUBSET Hosts -> [Keys -> Hosts \cup {NoHost}]]
    /\ \A c, d \in Calls : pc[c] = "routed" /\ pc[d] = "routed" =>
           \A k \in Keys :
               TargetHost(c, k) \in ring[d] /\ TargetHost(d, k) \in ring[c] =>
                   TargetHost(c, k) = TargetHost(d, k)

Storing == {c \in Calls : pc[c] \in {"fetch", "store"}}

(* Once no first fetch is in progress, an event on its way to the watcher  *)
(* leads to a cache that holds the providers of that moment, or to a       *)
(* failed fetch, or the session expires, after which changes go unseen.    *)
NewsArrives ==
    cache # NoRing /\ Storing = {} /\ (fired > 0 \/ watcher # "idle") 
        ~> cache = children \/ blind \/ expired

=============================================================================
