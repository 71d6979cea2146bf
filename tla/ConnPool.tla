------------------------------ MODULE ConnPool ------------------------------
(***************************************************************************)
(* The client's connection pool (src/src/connpool.cc) and the part of an   *)
(* RPC call that uses it (rpc_task, src/src/mprpcchannel.cc).              *)
(*                                                                         *)
(* Every step is what a thread does between two points where another one   *)
(* may run: a critical section of m_mutex, the system calls made outside   *)
(* it, and the notify_one that follows the unlock.  The descriptor table   *)
(* of the process is modelled too, because a descriptor is reused as soon  *)
(* as it is closed.                                                        *)
(***************************************************************************)
EXTENDS Integers, Sequences, FiniteSets

CONSTANTS Calls,           \* the threads that run an rpc_task
          Faulty,          \* the calls whose send or recv may fail
          Keys,            \* the hosts, "ip:port"
          Fds,             \* the socket descriptors of the process
          NoFd,            \* -1: the call holds no descriptor
          Closed,          \* a descriptor that is not open
          Unconnected,     \* a socket that is open and not connected yet
          MaxConnections,  \* m_maxConnections
          MaxIdleTime      \* m_maxIdleTime, in clock ticks

ASSUME CallsAssumption == IsFiniteSet(Calls) /\ Faulty \subseteq Calls
ASSUME FdsAssumption   == IsFiniteSet(Fds) /\ NoFd \notin Fds
ASSUME KeysAssumption  == /\ Closed \notin Keys
                          /\ Unconnected \notin Keys
                          /\ Closed # Unconnected
ASSUME LimitAssumption == MaxConnections \in Nat \ {0} /\ MaxIdleTime \in Nat

VARIABLES curConnCount,  \* m_curConnCount
          connMap,       \* m_connMap: per host, a queue of [fd, age]; age is
                         \* the time since last_active_time
          stop,          \* m_stop
          cleaner,       \* where the cleaning thread is
          destroyed,     \* ~ConnectionPool has returned
          pc,            \* where each call is
          key,           \* the host each call wants
          held,          \* clientfd of each call
          sock           \* the kernel's table: where each descriptor leads

pool == <<curConnCount, connMap>>
life == <<stop, cleaner, destroyed>>
call == <<pc, key, held>>
vars == <<pool, life, call, sock>>

PcStates == {"start", "waiting", "woken", "creating", "connecting",
             "rollback", "using", "notify", "done"}

(* The clock saturates one tick after the limit: an older item is stale too. *)
Ages == 0 .. MaxIdleTime + 1
Item == [fd : Fds, age : Ages]

Init ==
    /\ curConnCount = 0
    /\ connMap = [k \in Keys |-> <<>>]
    /\ stop = FALSE /\ cleaner = "check" /\ destroyed = FALSE
    /\ pc = [c \in Calls |-> "start"]
    /\ key \in [Calls -> Keys]
    /\ held = [c \in Calls |-> NoFd]
    /\ sock = [fd \in Fds |-> Closed]

-----------------------------------------------------------------------------
(* GetConnection, up to the point where it unlocks m_mutex.                 *)

Queue(c) == connMap[key[c]]

(* Mutant: front() without pop(). *)
TakeIdleNoPop(c) ==
    /\ Queue(c) # <<>>
    /\ held' = [held EXCEPT ![c] = Head(Queue(c)).fd]
    /\ pc' = [pc EXCEPT ![c] = "using"]
    /\ UNCHANGED <<curConnCount, connMap, key>>

(* Mutant: any host's idle connection will do. *)
TakeIdleAnyHost(c) ==
    \E k \in Keys :
        /\ connMap[k] # <<>>
        /\ held' = [held EXCEPT ![c] = Head(connMap[k]).fd]
        /\ connMap' = [connMap EXCEPT ![k] = Tail(@)]
        /\ pc' = [pc EXCEPT ![c] = "using"]
        /\ UNCHANGED <<curConnCount, key>>

TakeIdle(c) ==
    /\ Queue(c) # <<>>
    /\ held' = [held EXCEPT ![c] = Head(Queue(c)).fd]
    /\ connMap' = [connMap EXCEPT ![key[c]] = Tail(@)]
    /\ pc' = [pc EXCEPT ![c] = "using"]
    /\ UNCHANGED <<curConnCount, key>>

(* Mutant: the slot is not counted before the unlock. *)
ReserveSlotUncounted(c) ==
    /\ Queue(c) = <<>>
    /\ curConnCount < MaxConnections
    /\ pc' = [pc EXCEPT ![c] = "creating"]
    /\ UNCHANGED <<pool, key, held>>

(* "Take the place first": the slot is counted before the socket exists. *)
ReserveSlot(c) ==
    /\ Queue(c) = <<>>
    /\ curConnCount < MaxConnections
    /\ curConnCount' = curConnCount + 1
    /\ pc' = [pc EXCEPT ![c] = "creating"]
    /\ UNCHANGED <<connMap, key, held>>

(* The predicate of m_cv.wait is false: the thread sleeps on m_cv. *)
Block(c) ==
    /\ Queue(c) = <<>>
    /\ curConnCount >= MaxConnections
    /\ pc' = [pc EXCEPT ![c] = "waiting"]
    /\ UNCHANGED <<pool, key, held>>

GetConnection(c) ==
    /\ pc[c] = "start"
    /\ ~stop
    /\ TakeIdle(c) \/ ReserveSlot(c) \/ Block(c)
    /\ UNCHANGED <<life, sock>>

(* A notified thread has the mutex again and evaluates the predicate. *)
Resume(c) ==
    /\ pc[c] = "woken"
    /\ TakeIdle(c) \/ ReserveSlot(c) \/ Block(c)
    /\ UNCHANGED <<life, sock>>

SpuriousWake(c) ==
    /\ pc[c] = "waiting"
    /\ pc' = [pc EXCEPT ![c] = "woken"]
    /\ UNCHANGED <<pool, life, key, held, sock>>

(* notify_one, by call c which goes on to pc "done": one waiter, whatever  *)
(* its host, or nobody.                                                    *)
Waiters == {c \in Calls : pc[c] = "waiting"}

NotifyOneThenDone(c) ==
    \/ /\ Waiters = {}
       /\ pc' = [pc EXCEPT ![c] = "done"]
    \/ \E w \in Waiters : pc' = [pc EXCEPT ![c] = "done", ![w] = "woken"]

-----------------------------------------------------------------------------
(* CreateRealSocket, outside the lock.                                      *)

(* socket() returns any descriptor that is not open. *)
SocketOpen(c) ==
    /\ pc[c] = "creating"
    /\ \E fd \in Fds :
          /\ sock[fd] = Closed
          /\ sock' = [sock EXCEPT ![fd] = Unconnected]
          /\ held' = [held EXCEPT ![c] = fd]
    /\ pc' = [pc EXCEPT ![c] = "connecting"]
    /\ UNCHANGED <<pool, life, key>>

SocketFail(c) ==
    /\ pc[c] = "creating"
    /\ pc' = [pc EXCEPT ![c] = "rollback"]
    /\ UNCHANGED <<pool, life, key, held, sock>>

ConnectOk(c) ==
    /\ pc[c] = "connecting"
    /\ sock' = [sock EXCEPT ![held[c]] = key[c]]
    /\ pc' = [pc EXCEPT ![c] = "using"]
    /\ UNCHANGED <<pool, life, key, held>>

(* Mutant: the descriptor is closed and still used. *)
CloseHeldOnly(c) ==
    /\ sock' = [sock EXCEPT ![held[c]] = Closed]
    /\ UNCHANGED held

CloseHeld(c) ==
    /\ sock' = [sock EXCEPT ![held[c]] = Closed]
    /\ held' = [held EXCEPT ![c] = NoFd]

ConnectFail(c) ==
    /\ pc[c] = "connecting"
    /\ CloseHeld(c)
    /\ pc' = [pc EXCEPT ![c] = "rollback"]
    /\ UNCHANGED <<pool, life, key>>

(* Mutant: the place is given back silently. *)
RollbackSilent(c) ==
    /\ pc[c] = "rollback"
    /\ curConnCount' = curConnCount - 1
    /\ pc' = [pc EXCEPT ![c] = "done"]
    /\ UNCHANGED <<connMap, life, key, held, sock>>

(* GetConnection gives its place back and notifies, under the lock. *)
Rollback(c) ==
    /\ pc[c] = "rollback"
    /\ curConnCount' = curConnCount - 1
    /\ NotifyOneThenDone(c)
    /\ UNCHANGED <<connMap, life, key, held, sock>>

-----------------------------------------------------------------------------
(* rpc_task with the connection.                                            *)

(* send or recv failed: the task closes the descriptor and returns.  The   *)
(* pool is not told.                                                       *)
UseFail(c) ==
    /\ pc[c] = "using"
    /\ c \in Faulty
    /\ CloseHeld(c)
    /\ pc' = [pc EXCEPT ![c] = "done"]
    /\ UNCHANGED <<pool, life, key>>

(* Mutant: filed under the wrong host. *)
ReleasePushAnyHost(c) ==
    /\ pc[c] = "using"
    /\ \E k \in Keys :
          connMap' = [connMap EXCEPT ![k] = Append(@, [fd |-> held[c], age |-> 0])]
    /\ held' = [held EXCEPT ![c] = NoFd]
    /\ pc' = [pc EXCEPT ![c] = "notify"]
    /\ UNCHANGED <<curConnCount, life, key, sock>>

(* An answer, even one that does not parse: ReleaseConnection. *)
ReleasePush(c) ==
    /\ pc[c] = "using"
    /\ connMap' = [connMap EXCEPT ![key[c]] = Append(@, [fd |-> held[c], age |-> 0])]
    /\ held' = [held EXCEPT ![c] = NoFd]
    /\ pc' = [pc EXCEPT ![c] = "notify"]
    /\ UNCHANGED <<curConnCount, life, key, sock>>

(* Mutant: nobody is notified. *)
ReleaseSilent(c) ==
    /\ pc[c] = "notify"
    /\ pc' = [pc EXCEPT ![c] = "done"]
    /\ UNCHANGED <<pool, life, key, held, sock>>

(* The notify_one of ReleaseConnection comes after the unlock. *)
ReleaseNotify(c) ==
    /\ pc[c] = "notify"
    /\ NotifyOneThenDone(c)
    /\ UNCHANGED <<pool, life, key, held, sock>>

-----------------------------------------------------------------------------
(* Time and the cleaning thread.                                            *)

Tick ==
    /\ connMap' = [k \in Keys |-> [i \in DOMAIN connMap[k] |->
          [connMap[k][i] EXCEPT !.age = IF @ <= MaxIdleTime THEN @ + 1 ELSE @]]]
    /\ UNCHANGED <<curConnCount, life, call, sock>>

Stale(item) == item.age > MaxIdleTime

(* Mutant: an if in place of the inner while. *)
StaleCountAtMostOne(q) == IF q # <<>> /\ Stale(Head(q)) THEN 1 ELSE 0

(* How many items the inner loop pops: it stops at the first fresh one. *)
StaleCount(q) ==
    Cardinality({n \in 1 .. Len(q) : \A i \in 1 .. n : Stale(q[i])})

Swept(k)   == {connMap[k][i].fd : i \in 1 .. StaleCount(connMap[k])}
SweptFds   == UNION {Swept(k) : k \in Keys}
AfterSweep(q) == SubSeq(q, StaleCount(q) + 1, Len(q))

(* Mutant: the thread does not look at m_stop. *)
CleanerIgnoresStop ==
    /\ cleaner = "check"
    /\ cleaner' = "sleeping"
    /\ UNCHANGED <<pool, stop, destroyed, call, sock>>

CleanerCheck ==
    /\ cleaner = "check"
    /\ cleaner' = IF stop THEN "exited" ELSE "sleeping"
    /\ UNCHANGED <<pool, stop, destroyed, call, sock>>

(* Mutant: one sweep in the life of the thread. *)
CleanerSweepOnce ==
    /\ cleaner = "sleeping"
    /\ cleaner' = "exited"
    /\ connMap' = [k \in Keys |-> AfterSweep(connMap[k])]
    /\ sock' = [fd \in Fds |-> IF fd \in SweptFds THEN Closed ELSE sock[fd]]
    /\ curConnCount' = curConnCount - Cardinality(SweptFds)
    /\ UNCHANGED <<stop, destroyed, call>>

(* CleanIdleConnections after its sleep, one critical section over every   *)
(* host.  It frees slots and does not touch m_cv.                          *)
CleanerSweep ==
    /\ cleaner = "sleeping"
    /\ cleaner' = "check"
    /\ connMap' = [k \in Keys |-> AfterSweep(connMap[k])]
    /\ sock' = [fd \in Fds |-> IF fd \in SweptFds THEN Closed ELSE sock[fd]]
    /\ curConnCount' = curConnCount - Cardinality(SweptFds)
    /\ UNCHANGED <<stop, destroyed, call>>

-----------------------------------------------------------------------------
(* ~ConnectionPool, at exit of a client that has waited for its calls.      *)

IdleOf(k) == {connMap[k][i].fd : i \in DOMAIN connMap[k]}
IdleFds   == UNION {IdleOf(k) : k \in Keys}

DtorStop ==
    /\ ~stop
    /\ \A c \in Calls : pc[c] \in {"start", "done"}
    /\ stop' = TRUE
    /\ UNCHANGED <<pool, cleaner, destroyed, call, sock>>

(* After the join. *)
DtorDrain ==
    /\ stop
    /\ cleaner = "exited"
    /\ ~destroyed
    /\ sock' = [fd \in Fds |-> IF fd \in IdleFds THEN Closed ELSE sock[fd]]
    /\ connMap' = [k \in Keys |-> <<>>]
    /\ destroyed' = TRUE
    /\ UNCHANGED <<curConnCount, stop, cleaner, call>>

-----------------------------------------------------------------------------
CreateSocket(c) == SocketOpen(c) \/ SocketFail(c)
Connect(c)      == ConnectOk(c) \/ ConnectFail(c)
Use(c)          == UseFail(c) \/ ReleasePush(c)

(* What call c does by itself once it has called GetConnection. *)
CallStep(c) ==
    \/ Resume(c)
    \/ CreateSocket(c)
    \/ Connect(c)
    \/ Rollback(c)
    \/ Use(c)
    \/ ReleaseNotify(c)

Next ==
    \/ \E c \in Calls : GetConnection(c) \/ CallStep(c) \/ SpuriousWake(c)
    \/ Tick
    \/ CleanerCheck \/ CleanerSweep
    \/ DtorStop \/ DtorDrain

(* Every thread that can run runs: the mutex is held for a bounded time,   *)
(* connect, send and recv return, the clock advances.  Nothing makes a     *)
(* spurious wake-up, a new call or the end of the process happen.          *)
Fairness ==
    /\ \A c \in Calls : WF_vars(CallStep(c))
    /\ WF_vars(Tick)
    /\ WF_vars(CleanerCheck \/ CleanerSweep)
    /\ WF_vars(DtorDrain)

Spec     == Init /\ [][Next]_vars
FairSpec == Spec /\ Fairness

-----------------------------------------------------------------------------
(* Properties.                                                              *)

OpenFds == {fd \in Fds : sock[fd] # Closed}
HeldFds == {held[c] : c \in Calls} \ {NoFd}

(* Slots that are counted while no socket exists for them. *)
Reserved == {c \in Calls : pc[c] \in {"creating", "rollback"}}

(* A call holds a descriptor exactly between socket() or the fast path and *)
(* close() or the push.                                                    *)
TypeOK ==
    /\ curConnCount \in 0 .. MaxConnections
    /\ connMap \in [Keys -> Seq(Item)]
    /\ stop \in BOOLEAN
    /\ cleaner \in {"check", "sleeping", "exited"}
    /\ destroyed \in BOOLEAN
    /\ pc \in [Calls -> PcStates]
    /\ key \in [Calls -> Keys]
    /\ held \in [Calls -> Fds \cup {NoFd}]
    /\ sock \in [Fds -> Keys \cup {Closed, Unconnected}]
    /\ \A c \in Calls : held[c] # NoFd <=> pc[c] \in {"connecting", "using"}

(* No two calls ever write to one socket, and no socket is both in use and *)
(* in the pool, or in the pool twice.                                      *)
OneHolder ==
    \A c, d \in Calls : held[c] # NoFd /\ held[c] = held[d] => c = d

OnePlace ==
    \A k, l \in Keys : \A i \in DOMAIN connMap[k], j \in DOMAIN connMap[l] :
        connMap[k][i].fd = connMap[l][j].fd => k = l /\ i = j

(* Every open descriptor has one owner, a call or the pool, and what a     *)
(* call or the pool owns is open: nothing leaks and nothing is used after  *)
(* close, although the kernel hands closed numbers out again at once.      *)
FdConservation ==
    /\ OpenFds = IdleFds \cup HeldFds
    /\ IdleFds \cap HeldFds = {}
    /\ OneHolder
    /\ OnePlace

(* GetConnection returns a connection to the host it was asked for: the    *)
(* pool files every descriptor under the host it leads to.                 *)
RightEndpoint ==
    /\ \A k \in Keys : \A fd \in IdleOf(k) : sock[fd] = k
    /\ \A c \in Calls : pc[c] = "using" => sock[held[c]] = key[c]
    /\ \A c \in Calls : pc[c] = "connecting" => sock[held[c]] = Unconnected

(* The counter never undercounts: it covers every open connection and      *)
(* every place taken for one that is being made or given back, however the *)
(* unlocked connect of one call overlaps with the others.                  *)
SlotsAccounted ==
    Cardinality(OpenFds) + Cardinality(Reserved) <= curConnCount

(* The process never has more than m_maxConnections connections open. *)
ConnLimit == Cardinality(OpenFds) <= MaxConnections

(* The inner loop of the cleaner may stop at the first fresh item, because *)
(* no stale item is ever behind it: one sweep leaves nothing stale.        *)
SweepMissesNothing ==
    [][CleanerSweep => \A k \in Keys : \A i \in DOMAIN connMap'[k] :
           connMap'[k][i].age <= MaxIdleTime]_vars

(* Connections a waiting call could have: idle ones and free places. *)
Available == Cardinality(IdleFds) + (MaxConnections - curConnCount)

(* Calls that have been told, or are about to tell a waiter, that there is *)
(* something to have.                                                      *)
Pending == {c \in Calls : pc[c] \in {"woken", "notify"}}

(* While a call sleeps on m_cv, everything a waiter could have is covered  *)
(* by a wake-up on its way, although notify_one comes after the unlock and *)
(* reaches one waiter only.  This needs a single host.                     *)
NoLostWakeup == Waiters # {} => Available <= Cardinality(Pending)

(* Every call of GetConnection returns and its rpc_task ends, when no send *)
(* or recv fails and there is a single host.                               *)
EveryCallReturns == \A c \in Calls : pc[c] # "start" ~> pc[c] = "done"

(* A connection nobody uses is closed in the end. *)
IdleReclaimed == \A fd \in Fds : fd \in IdleFds ~> fd \notin IdleFds

(* The destructor gets past the join, and nothing stays open after it. *)
DestructorEnds == stop ~> destroyed
DestructorCloses == destroyed => OpenFds = {}

(* The pool does what ConnLease promises. *)
Lease == INSTANCE ConnLease
             WITH want  <- key,
                  idle  <- [k \in Keys |-> IdleOf(k)],
                  lease <- held
LeaseSpec == Lease!Spec

=============================================================================
