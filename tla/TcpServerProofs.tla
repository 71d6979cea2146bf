-------------------------- MODULE TcpServerProofs --------------------------
(* Proofs about TcpServer, for any descriptors, timers and heartbeat.      *)
EXTENDS TcpServer, FiniteSetTheorems, WellFoundedInduction, TLAPS

Timer == [left : 0 .. Timeout, live : BOOLEAN, user : Fds \cup {NoFd}]

TypeOK ==
    /\ owner \in [Fds -> {"free", "conn", "other"}]
    /\ data \in [Fds -> BOOLEAN]
    /\ fin \in [Fds -> BOOLEAN]
    /\ armed \in [Fds -> BOOLEAN]
    /\ backlog \in Nat
    /\ ready \subseteq {"listen", "pipe"}
    /\ signals \subseteq {"alrm", "term"}
    /\ silent \in [Fds -> 0 .. Timeout]
    /\ phase \in {"wait", "batch", "tick", "stopped"}
    /\ events \in [in : SUBSET Fds, hup : SUBSET Fds, ctl : SUBSET {"listen", "pipe"}]
    /\ closing \in Fds \cup {NoFd}
    /\ heap \subseteq Timers
    /\ timer \in [Timers -> Timer]
    /\ \A t \in Timers : timer[t].live => timer[t].user \in Fds
    /\ timerOf \in [Fds -> Nat]
    /\ due \subseteq Timers

(* The connections that have data, each of which will renew its timer.     *)
WithData == {fd \in Fds : data[fd]}

(* There is an address for every timer still to be made.                   *)
TimersSuffice == Cardinality(heap) + backlog + Cardinality(WithData) <= Cardinality(Timers)

(* An event of the batch is that of an open connection which epoll will    *)
(* not report again, and whose request is still to be read.                *)
BatchIsCurrent ==
    /\ events.in \subseteq Conns /\ events.hup \subseteq Conns
    /\ events.in \cap events.hup = {}
    /\ \A fd \in events.in : data[fd]
    /\ phase # "batch" => events = NoEvents

(* The object that is still to be erased is that of a closed connection.   *)
ClosingIsClosed == closing # NoFd => closing \notin Conns

IInv == /\ TypeOK /\ TimersSuffice /\ BatchIsCurrent /\ ClosingIsClosed
        /\ TimerCoverage /\ NoLostEdge

-----------------------------------------------------------------------------
(* The addresses of timers.                                                *)

LEMMA MinInSet ==
    ASSUME NEW S \in SUBSET Nat, S # {}
    PROVE  Min(S) \in S
<1>1. PICK p \in S : \A q \in S : <<q, p>> \notin OpToRel(<, Nat)
  BY NatLessThanWellFounded, WFMin, Zenon
<1>2. ASSUME NEW q \in S PROVE p <= q
  <2>1. p \in Nat /\ q \in Nat
    OBVIOUS
  <2>2. q < p => <<q, p>> \in OpToRel(<, Nat)
    BY <2>1 DEF OpToRel
  <2>3. ~(q < p)
    BY <1>1, <2>2, Zenon
  <2> QED
    BY <2>1, <2>3
<1> QED
  BY <1>2 DEF Min

LEMMA Sizes ==
    ASSUME TypeOK
    PROVE  /\ IsFiniteSet(heap) /\ Cardinality(heap) \in Nat
           /\ IsFiniteSet(WithData) /\ Cardinality(WithData) \in Nat
           /\ IsFiniteSet(Timers) /\ Cardinality(Timers) \in Nat
           /\ backlog \in Nat
<1>1. heap \in SUBSET Timers /\ WithData \in SUBSET Fds /\ backlog \in Nat
  BY DEF TypeOK, WithData
<1> QED
  BY <1>1, ReactorAssumption, FS_Subset, FS_CardinalityType

LEMMA AddressFree ==
    ASSUME TypeOK, TimersSuffice, backlog > 0 \/ WithData # {}
    PROVE  Min(Timers \ heap) \in Timers /\ Min(Timers \ heap) \notin heap
<1>1. Cardinality(heap) < Cardinality(Timers)
  <2>1. WithData # {} => Cardinality(WithData) # 0
    BY Sizes, FS_EmptySet
  <2> QED
    BY <2>1, Sizes DEF TimersSuffice
<1>2. Timers \ heap # {}
  <2>1. Timers \ heap = {} => heap = Timers
    BY DEF TypeOK
  <2> QED
    BY <1>1, <2>1, Sizes
<1> QED
  BY <1>2, ReactorAssumption, MinInSet

(* What AddTimer does: an address that was free gets a new timer.          *)
NewTimer(t, old, user) ==
    /\ t \in Timers \ heap
    /\ heap' = heap \cup {t}
    /\ timer' = [old EXCEPT ![t] = [left |-> Timeout, live |-> TRUE, user |-> user]]
    /\ timerOf' = [timerOf EXCEPT ![user] = t]
    /\ due' = due

LEMMA TimeoutIsNat == Timeout \in Nat \ {0}
  BY ReactorAssumption DEF Timeout

LEMMA Added ==
    ASSUME TypeOK, TimersSuffice, backlog > 0 \/ WithData # {},
           NEW old, NEW user, AddTimer(old, TRUE, user)
    PROVE  /\ \E t : NewTimer(t, old, user)
           /\ Cardinality(heap') = Cardinality(heap) + 1
<1>1. NewTimer(Min(Timers \ heap), old, user)
  BY AddressFree DEF AddTimer, NewTimer
<1>2. Cardinality(heap') = Cardinality(heap) + 1
  BY <1>1, Sizes, FS_AddElement DEF NewTimer
<1> QED
  BY <1>1, <1>2

(* adjust_timer, for a connection whose timer is its own.                  *)
LEMMA Adjusted ==
    ASSUME TypeOK, TimersSuffice, TimerCoverage, NEW fd \in Conns, data[fd], AdjustTimer(fd)
    PROVE  /\ \E t : NewTimer(t, Retired(timerOf[fd]), fd)
           /\ Cardinality(heap') = Cardinality(heap) + 1
<1>1. timer[timerOf[fd]].live = TRUE /\ timer[timerOf[fd]].user = fd
  <2>1. timer[timerOf[fd]] = [left |-> Timeout - silent[fd], live |-> TRUE, user |-> fd]
    BY DEF TimerCoverage
  <2> QED
    BY <2>1
<1>2. AddTimer(Retired(timerOf[fd]), TRUE, fd)
  BY <1>1 DEF AdjustTimer
<1>3. WithData # {}
  BY DEF WithData, Conns
<1> QED
  BY <1>2, <1>3, Added

LEMMA LiveCleared ==
    ASSUME NEW n, NEW b, NEW u
    PROVE  [[left |-> n, live |-> b, user |-> u] EXCEPT !.live = FALSE]
              = [left |-> n, live |-> FALSE, user |-> u]
<1>1. PICK f : f = FALSE
  BY Zenon
<1>2. [[left |-> n, live |-> b, user |-> u] EXCEPT !.live = f]
         = [left |-> n, live |-> f, user |-> u]
  OBVIOUS
<1> QED
  BY <1>1, <1>2, Zenon

LEMMA RetiredType ==
    ASSUME TypeOK, NEW t \in Timers
    PROVE  /\ Retired(t) \in [Timers -> Timer]
           /\ \A u \in Timers : Retired(t)[u].live => Retired(t)[u].user \in Fds
           /\ \A u \in Timers \ {t} : Retired(t)[u] = timer[u]
<1> DEFINE r == [left |-> timer[t].left, live |-> FALSE, user |-> timer[t].user]
<1>1. timer[t] \in Timer /\ timer \in [Timers -> Timer]
  BY DEF TypeOK
<1>2. r \in Timer /\ ~r.live
  BY <1>1 DEF Timer
<1>3. [timer[t] EXCEPT !.live = FALSE] = r
  <2>1. PICK n \in 0 .. Timeout, b \in BOOLEAN, u \in Fds \cup {NoFd} :
           timer[t] = [left |-> n, live |-> b, user |-> u]
    BY <1>1 DEF Timer
  <2>2. r = [left |-> n, live |-> FALSE, user |-> u]
    BY <2>1
  <2>3. [[left |-> n, live |-> b, user |-> u] EXCEPT !.live = FALSE]
           = [left |-> n, live |-> FALSE, user |-> u]
    BY LiveCleared, Zenon
  <2> HIDE DEF r
  <2> QED
    BY <2>1, <2>2, <2>3, Zenon
<1>4. Retired(t) = [timer EXCEPT ![t] = r]
  BY <1>1, <1>3 DEF Retired
<1> HIDE DEF r
<1>5. Retired(t)[t] = r /\ \A u \in Timers \ {t} : Retired(t)[u] = timer[u]
  BY <1>1, <1>4
<1>6. Retired(t) \in [Timers -> Timer]
  BY <1>1, <1>2, <1>4
<1>7. \A u \in Timers : Retired(t)[u].live => Retired(t)[u].user \in Fds
  BY <1>2, <1>5 DEF TypeOK
<1> QED
  BY <1>5, <1>6, <1>7

LEMMA NewTimerType ==
    ASSUME TypeOK, NEW old \in [Timers -> Timer], NEW user \in Fds, NEW t,
           \A u \in Timers : old[u].live => old[u].user \in Fds,
           NewTimer(t, old, user)
    PROVE  /\ heap' \subseteq Timers /\ due' \subseteq Timers
           /\ timer' \in [Timers -> Timer]
           /\ \A u \in Timers : timer'[u].live => timer'[u].user \in Fds
           /\ timerOf' \in [Fds -> Nat]
<1>1. [left |-> Timeout, live |-> TRUE, user |-> user] \in Timer
  BY TimeoutIsNat DEF Timer
<1>2. t \in Timers /\ t \in Nat
  BY ReactorAssumption DEF NewTimer
<1>3. timer' \in [Timers -> Timer] /\ \A u \in Timers \ {t} : timer'[u] = old[u]
  BY <1>1, <1>2 DEF NewTimer
<1>4. timer'[t].live => timer'[t].user \in Fds
  BY <1>2 DEF NewTimer
<1> QED
  BY <1>2, <1>3, <1>4 DEF NewTimer, TypeOK

LEMMA RemovedType ==
    ASSUME TypeOK, NEW fd \in Fds, RemoveFd(fd)
    PROVE  /\ owner' \in [Fds -> {"free", "conn", "other"}]
           /\ data' \in [Fds -> BOOLEAN]
           /\ fin' \in [Fds -> BOOLEAN]
           /\ armed' \in [Fds -> BOOLEAN]
           /\ silent' \in [Fds -> 0 .. Timeout]
           /\ closing' \in Fds \cup {NoFd}
  BY TimeoutIsNat DEF TypeOK, RemoveFd

-----------------------------------------------------------------------------
(* The handlers, in the terms of the invariant.                            *)

LEMMA AcceptParts ==
    ASSUME IInv, NEW fd \in Fds, Accept(fd)
    PROVE  /\ \E t : NewTimer(t, timer, fd)
           /\ Cardinality(heap') = Cardinality(heap) + 1
           /\ backlog > 0
<1>1. /\ backlog > 0 /\ AddTimer(timer, TRUE, fd)
      /\ TypeOK /\ TimersSuffice
  BY DEF Accept, IInv
<1> QED
  BY <1>1, Added

LEMMA HandleInParts ==
    ASSUME IInv, NEW fd \in Fds, HandleIn(fd)
    PROVE  /\ fd \in Conns /\ fd \in events.in /\ data[fd] /\ timerOf[fd] \in heap
           /\ \E t : NewTimer(t, Retired(timerOf[fd]), fd)
           /\ Cardinality(heap') = Cardinality(heap) + 1
<1>1. /\ fd \in Conns /\ fd \in events.in /\ data[fd] /\ AdjustTimer(fd)
      /\ TypeOK /\ TimersSuffice /\ TimerCoverage
  BY DEF HandleIn, IInv, BatchIsCurrent
<1>2. timerOf[fd] \in heap
  BY <1>1 DEF TimerCoverage
<1> QED
  BY <1>1, <1>2, Adjusted

LEMMA HandleHupParts ==
    ASSUME IInv, NEW fd \in Fds, HandleHup(fd)
    PROVE  fd \in Conns /\ fd \in events.hup /\ timerOf[fd] \in heap
  BY DEF HandleHup, IInv, BatchIsCurrent, TimerCoverage

LEMMA TypeStep ==
    ASSUME IInv, [Next]_vars
    PROVE  TypeOK'
<1>0. TypeOK
  BY DEF IInv
<1> USE DEF TypeOK
<1>1. CASE EpollWait
  BY <1>0, <1>1 DEF EpollWait, timers
<1>2. CASE AcceptEnds \/ ReadSignals
  BY <1>0, <1>2 DEF AcceptEnds, ReadSignals, kernel, control, timers
<1>3. CASE BatchEnds
  BY <1>0, <1>3 DEF BatchEnds, Expired, kernel, control
<1>4. CASE TickEnds
  BY <1>0, <1>4 DEF TickEnds, kernel, timers
<1>5. CASE EraseConnection
  BY <1>0, <1>5 DEF EraseConnection, control, loop, timers
<1>6. ASSUME NEW fd \in Fds, Accept(fd) PROVE TypeOK'
  <2>1. PICK t : NewTimer(t, timer, fd)
    BY <1>6, AcceptParts
  <2>2. /\ heap' \subseteq Timers /\ due' \subseteq Timers /\ timer' \in [Timers -> Timer]
        /\ \A u \in Timers : timer'[u].live => timer'[u].user \in Fds
        /\ timerOf' \in [Fds -> Nat]
    BY <1>0, <2>1, NewTimerType
  <2>3. backlog' \in Nat
    BY <1>0, <1>6 DEF Accept
  <2>4. /\ owner' \in [Fds -> {"free", "conn", "other"}]
        /\ silent' \in [Fds -> 0 .. Timeout] /\ armed' \in [Fds -> BOOLEAN]
    BY <1>0, <1>6, TimeoutIsNat DEF Accept
  <2> QED
    BY <1>0, <1>6, <2>2, <2>3, <2>4 DEF Accept, loop
<1>7. ASSUME NEW fd \in Fds, HandleHup(fd) PROVE TypeOK'
  <2>1. timerOf[fd] \in Timers
    BY <1>0, <1>7, HandleHupParts
  <2>2. /\ timer' \in [Timers -> Timer]
        /\ \A u \in Timers : timer'[u].live => timer'[u].user \in Fds
    BY <1>0, <1>7, <2>1, RetiredType DEF HandleHup
  <2>3. RemoveFd(fd)
    BY <1>7 DEF HandleHup
  <2> QED
    BY <1>0, <1>7, <2>2, <2>3, RemovedType DEF HandleHup, control
<1>8. ASSUME NEW fd \in Fds, HandleIn(fd) PROVE TypeOK'
  <2>1. timerOf[fd] \in Timers
    BY <1>0, <1>8, HandleInParts
  <2>2. PICK t : NewTimer(t, Retired(timerOf[fd]), fd)
    BY <1>8, HandleInParts
  <2>3. /\ heap' \subseteq Timers /\ due' \subseteq Timers /\ timer' \in [Timers -> Timer]
        /\ \A u \in Timers : timer'[u].live => timer'[u].user \in Fds
        /\ timerOf' \in [Fds -> Nat]
    BY <1>0, <2>1, <2>2, RetiredType, NewTimerType
  <2>4. /\ owner' \in [Fds -> {"free", "conn", "other"}]
        /\ data' \in [Fds -> BOOLEAN]
        /\ fin' \in [Fds -> BOOLEAN]
        /\ armed' \in [Fds -> BOOLEAN]
        /\ silent' \in [Fds -> 0 .. Timeout]
        /\ closing' \in Fds \cup {NoFd}
    <3>1. CASE fin[fd]
      BY <1>0, <1>8, <3>1, RemovedType DEF HandleIn
    <3>2. CASE ~fin[fd]
      <4>1. /\ data' = [data EXCEPT ![fd] = FALSE] /\ armed' = [armed EXCEPT ![fd] = TRUE]
            /\ silent' = [silent EXCEPT ![fd] = 0]
            /\ owner' = owner /\ fin' = fin /\ closing' = closing
        BY <1>8, <3>2 DEF HandleIn
      <4>2. data' \in [Fds -> BOOLEAN]
        BY <1>0, <4>1
      <4>3. armed' \in [Fds -> BOOLEAN]
        BY <1>0, <4>1
      <4>4. silent' \in [Fds -> 0 .. Timeout]
        BY <1>0, <4>1, TimeoutIsNat
      <4> QED
        BY <1>0, <4>1, <4>2, <4>3, <4>4
    <3> QED
      BY <3>1, <3>2
  <2> QED
    BY <1>0, <1>8, <2>3, <2>4 DEF HandleIn, control
<1>9. ASSUME NEW t \in Timers, TickOne(t) PROVE TypeOK'
  <2>1. NoTimer \in Timer /\ ~NoTimer.live
    BY TimeoutIsNat DEF NoTimer, Timer
  <2>2. /\ timer' \in [Timers -> Timer]
        /\ \A u \in Timers : timer'[u].live => timer'[u].user \in Fds
    BY <1>0, <1>9, <2>1 DEF TickOne
  <2>3. /\ owner' \in [Fds -> {"free", "conn", "other"}]
        /\ data' \in [Fds -> BOOLEAN]
        /\ fin' \in [Fds -> BOOLEAN]
        /\ armed' \in [Fds -> BOOLEAN]
        /\ silent' \in [Fds -> 0 .. Timeout]
        /\ closing' \in Fds \cup {NoFd}
    <3>1. CASE timer[t].live
      BY <1>0, <1>9, <3>1, RemovedType DEF TickOne
    <3>2. CASE ~timer[t].live
      BY <1>0, <1>9, <3>2 DEF TickOne, kernel
    <3> QED
      BY <3>1, <3>2
  <2> QED
    BY <1>0, <1>9, <2>2, <2>3 DEF TickOne, control, loop
<1>10. CASE PeerConnect \/ Terminate
  <2>1. backlog' \in Nat
    BY <1>0, <1>10 DEF PeerConnect, Terminate
  <2>2. ready' \subseteq {"listen", "pipe"}
    BY <1>0, <1>10 DEF PeerConnect, Terminate
  <2>3. signals' \subseteq {"alrm", "term"}
    BY <1>0, <1>10 DEF PeerConnect, Terminate
  <2>4. UNCHANGED <<kernel, silent, loop, closing, timers>>
    BY <1>10 DEF PeerConnect, Terminate
  <2> QED
    BY <1>0, <2>1, <2>2, <2>3, <2>4 DEF kernel, loop, timers
<1>11. CASE Clock
  <2>1. ASSUME NEW t \in Timers
        PROVE  timer'[t] \in Timer /\ (timer'[t].live => timer'[t].user \in Fds)
    <3>1. timer[t] \in Timer
      BY <1>0
    <3>2. timer[t].left \in Nat
      BY <3>1, TimeoutIsNat DEF Timer
    <3>3. CASE t \in heap /\ timer[t].left > 0
      BY <1>0, <1>11, <3>1, <3>2, <3>3, TimeoutIsNat DEF Clock, Timer
    <3>4. CASE ~(t \in heap /\ timer[t].left > 0)
      BY <1>0, <1>11, <3>1, <3>4 DEF Clock
    <3> QED
      BY <3>3, <3>4
  <2>2. timer' \in [Timers -> Timer]
    BY <1>11, <2>1 DEF Clock
  <2>3. silent' \in [Fds -> 0 .. Timeout]
    BY <1>0, <1>11, TimeoutIsNat DEF Clock
  <2>4. ready' \subseteq {"listen", "pipe"} /\ signals' \subseteq {"alrm", "term"}
    BY <1>0, <1>11 DEF Clock
  <2> QED
    BY <1>0, <1>11, <2>1, <2>2, <2>3, <2>4 DEF Clock, kernel, loop
<1>12. ASSUME NEW fd \in Fds, PeerSend(fd) \/ PeerClose(fd) PROVE TypeOK'
  BY <1>0, <1>12 DEF PeerSend, PeerClose, control, loop, timers
<1>13. ASSUME NEW fd \in Fds, OtherOpen(fd) \/ OtherClose(fd) PROVE TypeOK'
  BY <1>0, <1>13 DEF OtherOpen, OtherClose, control, loop, timers
<1>14. CASE UNCHANGED vars
  BY <1>0, <1>14 DEF vars, kernel, control, loop, timers
<1> QED
  BY <1>1, <1>2, <1>3, <1>4, <1>5, <1>6, <1>7, <1>8, <1>9, <1>10, <1>11, <1>12, <1>13, <1>14
     DEF Next, Reactor, Environment

(* A step that makes no timer and brings no request leaves room enough.    *)
LEMMA FewerTimers ==
    ASSUME TypeOK, TimersSuffice, heap' \subseteq heap, backlog' = backlog,
           WithData' \subseteq WithData
    PROVE  TimersSuffice'
<1>1. Cardinality(heap') \in Nat /\ Cardinality(heap') <= Cardinality(heap)
  BY Sizes, FS_Subset, FS_CardinalityType
<1>2. Cardinality(WithData') \in Nat /\ Cardinality(WithData') <= Cardinality(WithData)
  BY Sizes, FS_Subset, FS_CardinalityType
<1> QED
  BY <1>1, <1>2, Sizes DEF TimersSuffice

LEMMA DataRead ==
    ASSUME TypeOK, NEW fd \in Fds, data' = [data EXCEPT ![fd] = FALSE]
    PROVE  /\ WithData' = WithData \ {fd}
           /\ \A u \in Fds \ {fd} : data'[u] = data[u]
<1>1. ~data'[fd]
  BY Zenon DEF TypeOK
<1>2. \A u \in Fds \ {fd} : data'[u] = data[u]
  BY DEF TypeOK
<1> QED
  BY <1>1, <1>2 DEF WithData

LEMMA TimersStep ==
    ASSUME IInv, [Next]_vars
    PROVE  TimersSuffice'
<1>0. TypeOK /\ TimersSuffice /\ TypeOK'
  BY TypeStep DEF IInv
<1>1. ASSUME heap' = heap, backlog' = backlog, data' = data PROVE TimersSuffice'
  BY <1>0, <1>1 DEF TimersSuffice, WithData
<1>2. CASE EpollWait \/ AcceptEnds \/ ReadSignals \/ BatchEnds
  BY <1>1, <1>2 DEF EpollWait, AcceptEnds, ReadSignals, BatchEnds, kernel, control, timers
<1>3. CASE TickEnds \/ EraseConnection \/ Terminate \/ Clock \/ UNCHANGED vars
  BY <1>1, <1>3 DEF TickEnds, EraseConnection, Terminate, Clock, kernel, control, timers, vars
<1>4. ASSUME NEW fd \in Fds, Accept(fd) PROVE TimersSuffice'
  <2>1. WithData' = WithData /\ backlog' = backlog - 1
    BY <1>4 DEF Accept, WithData
  <2> QED
    BY <1>0, <1>4, <2>1, AcceptParts, Sizes DEF TimersSuffice
<1>5. ASSUME NEW fd \in Fds, HandleHup(fd) PROVE TimersSuffice'
  <2>1. data' = [data EXCEPT ![fd] = FALSE] /\ heap' = heap /\ backlog' = backlog
    BY <1>5 DEF HandleHup, RemoveFd, control
  <2> QED
    BY <1>0, <2>1, DataRead, FewerTimers
<1>6. ASSUME NEW fd \in Fds, HandleIn(fd) PROVE TimersSuffice'
  <2>1. data' = [data EXCEPT ![fd] = FALSE] /\ backlog' = backlog
    BY <1>6 DEF HandleIn, RemoveFd, control
  <2>2. fd \in WithData
    BY <1>6, HandleInParts DEF WithData
  <2>3. Cardinality(WithData') = Cardinality(WithData) - 1
    BY <1>0, <2>1, <2>2, DataRead, Sizes, FS_RemoveElement
  <2> QED
    BY <1>0, <1>6, <2>1, <2>3, HandleInParts, Sizes DEF TimersSuffice
<1>7. ASSUME NEW t \in Timers, TickOne(t) PROVE TimersSuffice'
  <2>1. heap' \subseteq heap /\ backlog' = backlog
    BY <1>7 DEF TickOne, control
  <2>2. WithData' \subseteq WithData
    <3>1. CASE timer[t].live
      <4>1. timer[t].user \in Fds
        BY <1>0, <3>1 DEF TypeOK
      <4> QED
        BY <1>0, <1>7, <3>1, <4>1, DataRead DEF TickOne, RemoveFd
    <3>2. CASE ~timer[t].live
      BY <1>7, <3>2 DEF TickOne, kernel, WithData
    <3> QED
      BY <3>1, <3>2
  <2> QED
    BY <1>0, <2>1, <2>2, FewerTimers
<1>8. CASE PeerConnect
  <2>1. heap' = heap /\ WithData' = WithData /\ backlog' = backlog + 1
    BY <1>8 DEF PeerConnect, kernel, timers, WithData
  <2>2. Cardinality(heap) + backlog + Cardinality(WithData) < Cardinality(Timers)
    BY <1>8 DEF PeerConnect, RoomForTimer, WithData
  <2> QED
    BY <2>1, <2>2, <1>0, Sizes DEF TimersSuffice
<1>9. ASSUME NEW fd \in Fds, PeerSend(fd) PROVE TimersSuffice'
  <2>1. heap' = heap /\ backlog' = backlog /\ data' = [data EXCEPT ![fd] = TRUE] /\ ~data[fd]
    BY <1>9 DEF PeerSend, control, timers
  <2>2. Cardinality(heap) + backlog + Cardinality(WithData) < Cardinality(Timers)
    BY <1>9 DEF PeerSend, RoomForTimer, WithData
  <2>3. WithData' = WithData \cup {fd} /\ fd \notin WithData
    <3>1. data'[fd]
      BY <1>0, <2>1, Zenon DEF TypeOK
    <3>2. \A u \in Fds \ {fd} : data'[u] = data[u]
      BY <1>0, <2>1 DEF TypeOK
    <3> QED
      BY <2>1, <3>1, <3>2 DEF WithData
  <2>4. Cardinality(WithData') = Cardinality(WithData) + 1
    BY <1>0, <2>3, Sizes, FS_AddElement
  <2> QED
    BY <2>1, <2>2, <2>4, <1>0, Sizes DEF TimersSuffice
<1>10. ASSUME NEW fd \in Fds, PeerClose(fd) \/ OtherOpen(fd) \/ OtherClose(fd)
       PROVE  TimersSuffice'
  BY <1>1, <1>10 DEF PeerClose, OtherOpen, OtherClose, control, timers
<1> QED
  BY <1>2, <1>3, <1>4, <1>5, <1>6, <1>7, <1>8, <1>9, <1>10 DEF Next, Reactor, Environment

-----------------------------------------------------------------------------
(* The batch, and the connections that are removed from under it.          *)

(* removefd leaves the other descriptors as they are.                      *)
LEMMA Removed ==
    ASSUME TypeOK, NEW fd \in Fds, RemoveFd(fd)
    PROVE  /\ Conns' = Conns \ {fd}
           /\ \A u \in Fds \ {fd} :
                 data'[u] = data[u] /\ armed'[u] = armed[u] /\ silent'[u] = silent[u]
           /\ closing' # NoFd => closing' = fd
<1>1. owner' = [owner EXCEPT ![fd] = "free"]
  BY DEF RemoveFd
<1>2. Conns' = Conns \ {fd}
  BY <1>1 DEF Conns, TypeOK
<1>3. \A u \in Fds \ {fd} : data'[u] = data[u]
  BY DEF RemoveFd, TypeOK
<1>4. \A u \in Fds \ {fd} : armed'[u] = armed[u]
  BY DEF RemoveFd, TypeOK
<1>5. \A u \in Fds \ {fd} : silent'[u] = silent[u]
  BY DEF RemoveFd, TypeOK
<1>6. closing' # NoFd => closing' = fd
  BY DEF RemoveFd
<1> QED
  BY <1>2, <1>3, <1>4, <1>5, <1>6

(* Accept makes one connection more.                                       *)
LEMMA Accepted ==
    ASSUME TypeOK, NEW fd \in Fds, Accept(fd)
    PROVE  /\ Conns' = Conns \cup {fd} /\ fd \notin Conns
           /\ silent'[fd] = 0 /\ \A u \in Fds \ {fd} : silent'[u] = silent[u]
<1>1. /\ owner' = [owner EXCEPT ![fd] = "conn"] /\ owner[fd] = "free"
      /\ silent' = [silent EXCEPT ![fd] = 0]
  BY DEF Accept
<1> QED
  BY <1>1 DEF Conns, TypeOK

(* What the other threads do, and the end of a removal, touch no connection. *)
LEMMA ConnsKept ==
    ASSUME TypeOK, ClosingIsClosed, NEW fd \in Fds,
           OtherOpen(fd) \/ OtherClose(fd) \/ EraseConnection
    PROVE  Conns' = Conns
<1>1. CASE OtherOpen(fd) \/ OtherClose(fd)
  BY <1>1 DEF OtherOpen, OtherClose, Conns, TypeOK
<1>2. CASE EraseConnection
  <2>1. closing \in Fds /\ owner' = [owner EXCEPT ![closing] = "free"] /\ closing \notin Conns
    BY <1>2 DEF EraseConnection, TypeOK, ClosingIsClosed
  <2> QED
    BY <2>1 DEF Conns, TypeOK
<1> QED
  BY <1>1, <1>2

LEMMA EpollTakesAll ==
    ASSUME IInv, EpollWait
    PROVE  /\ events = NoEvents
           /\ events'.in = {fd \in Conns : armed[fd] /\ data[fd] /\ ~fin[fd]}
           /\ events'.hup = {fd \in Conns : armed[fd] /\ fin[fd]}
           /\ events'.ctl = ready
           /\ \A fd \in Conns : armed'[fd] \/ ~armed[fd] \/ fd \in events'.in \cup events'.hup
<1>1. events = NoEvents
  BY DEF IInv, BatchIsCurrent, EpollWait
<1>2. /\ events'.in = {fd \in Conns : armed[fd] /\ data[fd] /\ ~fin[fd]}
      /\ events'.hup = {fd \in Conns : armed[fd] /\ fin[fd]}
      /\ events'.ctl = ready
  BY DEF EpollWait, Readable, Conns
<1>3. ASSUME NEW fd \in Conns
      PROVE  armed'[fd] \/ ~armed[fd] \/ fd \in events'.in \cup events'.hup
  <2>1. fd \in Fds
    BY DEF Conns
  <2>2. armed'[fd] <=> armed[fd] /\ ~Readable(fd)
    BY <2>1, Zenon DEF EpollWait
  <2> QED
    BY <1>2, <2>2 DEF Readable
<1> QED
  BY <1>1, <1>2, <1>3

LEMMA BatchStep ==
    ASSUME IInv, [Next]_vars
    PROVE  BatchIsCurrent' /\ ClosingIsClosed'
<1>0. TypeOK /\ BatchIsCurrent /\ ClosingIsClosed
  BY DEF IInv
<1>a. ASSUME Conns' = Conns, events' = events, phase' = phase,
             \A fd \in Fds : data[fd] => data'[fd], closing' = closing \/ closing' = NoFd
      PROVE  BatchIsCurrent' /\ ClosingIsClosed'
  <2>1. BatchIsCurrent'
    BY <1>0, <1>a DEF BatchIsCurrent, Conns
  <2>2. ClosingIsClosed'
    BY <1>0, <1>a DEF ClosingIsClosed
  <2> QED
    BY <2>1, <2>2
<1>b. ASSUME UNCHANGED <<owner, data, closing, events.in, events.hup>>,
             phase' = "batch" \/ events' = NoEvents
      PROVE  BatchIsCurrent' /\ ClosingIsClosed'
  <2>1. Conns' = Conns
    BY <1>b DEF Conns
  <2> QED
    BY <1>0, <1>b, <2>1 DEF BatchIsCurrent, ClosingIsClosed
<1>1. CASE EpollWait
  <2>1. owner' = owner /\ data' = data /\ closing' = closing /\ phase' = "batch"
    BY <1>1 DEF EpollWait
  <2>2. Conns' = Conns
    BY <2>1 DEF Conns
  <2> QED
    BY <1>0, <1>1, <2>1, <2>2, EpollTakesAll DEF BatchIsCurrent, ClosingIsClosed
<1>2. CASE AcceptEnds \/ ReadSignals
  <2>1. events'.in = events.in /\ events'.hup = events.hup /\ phase' = "batch"
    BY <1>0, <1>2 DEF AcceptEnds, ReadSignals, InBatch, TypeOK
  <2>2. UNCHANGED <<owner, data, closing>>
    BY <1>2 DEF AcceptEnds, ReadSignals, kernel
  <2> QED
    BY <1>b, <2>1, <2>2
<1>3. CASE BatchEnds \/ TickEnds
  <2>1. events' = NoEvents /\ events = NoEvents
    BY <1>0, <1>3 DEF BatchEnds, TickEnds, Ticking, BatchIsCurrent
  <2>2. UNCHANGED <<owner, data, closing>>
    BY <1>3 DEF BatchEnds, TickEnds, kernel
  <2> QED
    BY <1>b, <2>1, <2>2
<1>4. ASSUME NEW fd \in Fds, Accept(fd) PROVE BatchIsCurrent' /\ ClosingIsClosed'
  <2>1. closing' = NoFd /\ data' = data /\ events' = events /\ phase' = phase
    BY <1>4 DEF Accept, InBatch, loop
  <2> QED
    BY <1>0, <1>4, <2>1, Accepted DEF BatchIsCurrent, ClosingIsClosed
<1>5. ASSUME NEW fd \in Fds, HandleHup(fd) PROVE BatchIsCurrent' /\ ClosingIsClosed'
  <2>1. RemoveFd(fd) /\ phase' = "batch" /\ fd \in events.hup
    BY <1>5 DEF HandleHup, InBatch
  <2>2. events'.in = events.in /\ events'.hup = events.hup \ {fd}
    BY <1>0, <1>5 DEF HandleHup, TypeOK
  <2>3. fd \notin events.in
    BY <1>0, <2>1 DEF BatchIsCurrent
  <2>4. BatchIsCurrent'
    BY <1>0, <2>1, <2>2, <2>3, Removed DEF BatchIsCurrent, TypeOK
  <2> QED
    BY <1>0, <2>1, <2>4, Removed DEF ClosingIsClosed
<1>6. ASSUME NEW fd \in Fds, HandleIn(fd) PROVE BatchIsCurrent' /\ ClosingIsClosed'
  <2>1. /\ phase' = "batch" /\ fd \in events.in /\ closing = NoFd
        /\ data' = [data EXCEPT ![fd] = FALSE]
    BY <1>6 DEF HandleIn, InBatch, RemoveFd
  <2>2. events'.in = events.in \ {fd} /\ events'.hup = events.hup
    BY <1>0, <1>6 DEF HandleIn, TypeOK
  <2>3. fd \notin events.hup
    BY <1>0, <2>1 DEF BatchIsCurrent
  <2>4. /\ Conns \ {fd} \subseteq Conns'
        /\ closing' # NoFd => closing' \notin Conns'
    <3>1. CASE fin[fd]
      BY <1>0, <1>6, <3>1, Removed DEF HandleIn
    <3>2. CASE ~fin[fd]
      BY <1>6, <2>1, <3>2 DEF HandleIn, Conns
    <3> QED
      BY <3>1, <3>2
  <2>5. \A u \in Fds \ {fd} : data'[u] = data[u]
    BY <1>0, <2>1, DataRead
  <2>6. BatchIsCurrent'
    BY <1>0, <2>1, <2>2, <2>3, <2>4, <2>5 DEF BatchIsCurrent, TypeOK
  <2> QED
    BY <2>4, <2>6 DEF ClosingIsClosed
<1>7. ASSUME NEW t \in Timers, TickOne(t) PROVE BatchIsCurrent' /\ ClosingIsClosed'
  <2>1. phase' = "tick" /\ events' = NoEvents /\ closing = NoFd
    BY <1>0, <1>7 DEF TickOne, Ticking, loop, BatchIsCurrent
  <2>2. BatchIsCurrent'
    BY <2>1 DEF BatchIsCurrent, NoEvents
  <2>3. ClosingIsClosed'
    <3>1. CASE timer[t].live
      <4>1. timer[t].user \in Fds /\ RemoveFd(timer[t].user)
        BY <1>0, <1>7, <3>1 DEF TickOne, TypeOK
      <4> QED
        BY <1>0, <4>1, Removed DEF ClosingIsClosed
    <3>2. CASE ~timer[t].live
      BY <1>7, <2>1, <3>2 DEF TickOne, ClosingIsClosed
    <3> QED
      BY <3>1, <3>2
  <2> QED
    BY <2>2, <2>3
<1>8. CASE PeerConnect \/ Clock \/ Terminate \/ UNCHANGED vars
  BY <1>a, <1>8 DEF PeerConnect, Clock, Terminate, kernel, loop, vars, Conns
<1>9. ASSUME NEW fd \in Fds, PeerSend(fd) \/ PeerClose(fd)
      PROVE  BatchIsCurrent' /\ ClosingIsClosed'
  <2>1. UNCHANGED <<owner, events, phase, closing>>
    BY <1>9 DEF PeerSend, PeerClose, loop
  <2>2. \A u \in Fds : data[u] => data'[u]
    <3>1. CASE PeerSend(fd)
      BY <1>0, <3>1, Zenon DEF PeerSend, TypeOK
    <3>2. CASE PeerClose(fd)
      BY <3>2 DEF PeerClose
    <3> QED
      BY <1>9, <3>1, <3>2
  <2> QED
    BY <1>a, <2>1, <2>2 DEF Conns
<1>10. ASSUME NEW fd \in Fds, OtherOpen(fd) \/ OtherClose(fd) \/ EraseConnection
       PROVE  BatchIsCurrent' /\ ClosingIsClosed'
  <2>1. UNCHANGED <<events, phase, data>> /\ (closing' = closing \/ closing' = NoFd)
    BY <1>10 DEF OtherOpen, OtherClose, EraseConnection, loop
  <2> QED
    BY <1>0, <1>10, <1>a, <2>1, ConnsKept
<1>11. CASE EraseConnection
  <2>1. closing \in Fds
    BY <1>0, <1>11 DEF EraseConnection, TypeOK
  <2> QED
    BY <1>10, <1>11, <2>1
<1> QED
  BY <1>1, <1>2, <1>3, <1>4, <1>5, <1>6, <1>7, <1>8, <1>9, <1>10, <1>11
     DEF Next, Reactor, Environment

-----------------------------------------------------------------------------
(* Every connection has its timer.                                         *)

Covered(fd) ==
    /\ timerOf[fd] \in heap
    /\ timer[timerOf[fd]] = [left |-> Timeout - silent[fd], live |-> TRUE, user |-> fd]

LEMMA CoverageIs == TimerCoverage <=> \A fd \in Conns : Covered(fd)
  BY DEF TimerCoverage, Covered

(* Two connections never share a timer: it names its user.                 *)
LEMMA TimersDiffer ==
    ASSUME NEW a \in Conns, NEW b \in Conns, Covered(a), Covered(b), timerOf[a] = timerOf[b]
    PROVE  a = b
<1>1. timer[timerOf[a]].user = a /\ timer[timerOf[b]].user = b
  BY DEF Covered
<1> QED
  BY <1>1

LEMMA StaysCovered ==
    ASSUME NEW fd, Covered(fd), timerOf'[fd] = timerOf[fd], timerOf[fd] \in heap',
           timer'[timerOf[fd]] = timer[timerOf[fd]], silent'[fd] = silent[fd]
    PROVE  Covered(fd)'
  BY DEF Covered

(* A fresh timer covers its user and takes nothing from the others.        *)
LEMMA FreshCovers ==
    ASSUME TypeOK, NEW fd \in Fds, NEW old \in [Timers -> Timer], NEW t,
           NewTimer(t, old, fd), silent'[fd] = 0,
           \A u \in Conns \ {fd} :
              /\ Covered(u) /\ silent'[u] = silent[u]
              /\ old[timerOf[u]] = timer[timerOf[u]]
    PROVE  Covered(fd)' /\ \A u \in Conns \ {fd} : Covered(u)'
<1>1. /\ t \in Timers /\ t \notin heap /\ heap' = heap \cup {t}
      /\ timer' = [old EXCEPT ![t] = [left |-> Timeout, live |-> TRUE, user |-> fd]]
      /\ timerOf' = [timerOf EXCEPT ![fd] = t]
  BY DEF NewTimer
<1>2. Covered(fd)'
  <2>1. timerOf'[fd] = t
    BY <1>1 DEF TypeOK
  <2>2. timer'[t] = [left |-> Timeout, live |-> TRUE, user |-> fd]
    BY <1>1
  <2>3. Timeout = Timeout - silent'[fd]
    BY TimeoutIsNat
  <2>4. timer'[t] = [left |-> Timeout - silent'[fd], live |-> TRUE, user |-> fd]
    BY <2>2, <2>3, Zenon
  <2> QED
    BY <1>1, <2>1, <2>4 DEF Covered
<1>3. ASSUME NEW u \in Conns \ {fd} PROVE Covered(u)'
  <2>1. Covered(u) /\ timerOf[u] \in heap /\ u \in Fds
    BY DEF Covered, Conns
  <2>2. timerOf'[u] = timerOf[u]
    BY <1>1, <2>1 DEF TypeOK
  <2>3. timer'[timerOf[u]] = timer[timerOf[u]]
    BY <1>1, <2>1 DEF TypeOK
  <2> QED
    BY <1>1, <2>1, <2>2, <2>3, StaysCovered
<1> QED
  BY <1>2, <1>3

LEMMA OneLess ==
    ASSUME NEW r, NEW b, NEW u, r = [left |-> r.left, live |-> b, user |-> u]
    PROVE  [r EXCEPT !.left = @ - 1] = [left |-> r.left - 1, live |-> b, user |-> u]
  OBVIOUS

LEMMA CoverageStep ==
    ASSUME IInv, [Next]_vars
    PROVE  TimerCoverage'
<1>0. TypeOK /\ ClosingIsClosed /\ \A fd \in Conns : Covered(fd)
  BY CoverageIs DEF IInv
<1>a. ASSUME Conns' \subseteq Conns, UNCHANGED <<heap, timer, timerOf, silent>>
      PROVE  TimerCoverage'
  BY <1>0, <1>a DEF TimerCoverage, Covered
<1>1. CASE EpollWait \/ AcceptEnds \/ ReadSignals \/ BatchEnds \/ TickEnds
  <2>1. UNCHANGED <<owner, heap, timer, timerOf, silent>>
    BY <1>1 DEF EpollWait, AcceptEnds, ReadSignals, BatchEnds, TickEnds, kernel, timers
  <2> QED
    BY <1>a, <2>1 DEF Conns
<1>2. CASE PeerConnect \/ Terminate \/ UNCHANGED vars
  <2>1. UNCHANGED <<owner, heap, timer, timerOf, silent>>
    BY <1>2 DEF PeerConnect, Terminate, vars, kernel, timers
  <2> QED
    BY <1>a, <2>1 DEF Conns
<1>3. ASSUME NEW fd \in Fds, PeerSend(fd) \/ PeerClose(fd) PROVE TimerCoverage'
  <2>1. UNCHANGED <<owner, heap, timer, timerOf, silent>>
    BY <1>3 DEF PeerSend, PeerClose, timers
  <2> QED
    BY <1>a, <2>1 DEF Conns
<1>4. ASSUME NEW fd \in Fds, OtherOpen(fd) \/ OtherClose(fd) \/ EraseConnection
      PROVE  TimerCoverage'
  <2>1. UNCHANGED <<heap, timer, timerOf, silent>>
    BY <1>4 DEF OtherOpen, OtherClose, EraseConnection, timers
  <2> QED
    BY <1>0, <1>4, <1>a, <2>1, ConnsKept
<1>5. CASE EraseConnection
  <2>1. closing \in Fds
    BY <1>0, <1>5 DEF EraseConnection, TypeOK
  <2> QED
    BY <1>4, <1>5, <2>1
<1>6. ASSUME NEW fd \in Fds, Accept(fd) PROVE TimerCoverage'
  <2>1. PICK t : NewTimer(t, timer, fd)
    BY <1>6, AcceptParts
  <2>2. /\ Conns' = Conns \cup {fd} /\ silent'[fd] = 0
        /\ \A u \in Conns \ {fd} : silent'[u] = silent[u]
    BY <1>0, <1>6, Accepted DEF Conns
  <2>3. Covered(fd)' /\ \A u \in Conns \ {fd} : Covered(u)'
    BY <1>0, <2>1, <2>2, FreshCovers DEF TypeOK
  <2> QED
    BY <2>2, <2>3 DEF TimerCoverage, Covered
<1>7. ASSUME NEW fd \in Fds, HandleIn(fd) PROVE TimerCoverage'
  <2>1. PICK t : NewTimer(t, Retired(timerOf[fd]), fd)
    BY <1>7, HandleInParts
  <2>2. fd \in Conns /\ timerOf[fd] \in Timers
    BY <1>0, <1>7, HandleInParts DEF TypeOK
  <2>3. /\ Conns' \subseteq Conns /\ silent'[fd] = 0
        /\ \A u \in Conns \ {fd} : silent'[u] = silent[u]
    <3>1. silent' = [silent EXCEPT ![fd] = 0]
      BY <1>7 DEF HandleIn, RemoveFd
    <3>2. Conns' \subseteq Conns
      BY <1>0, <1>7, Removed DEF HandleIn, Conns
    <3> QED
      BY <1>0, <3>1, <3>2 DEF Conns, TypeOK
  <2>4. ASSUME NEW u \in Conns \ {fd}
        PROVE  Retired(timerOf[fd])[timerOf[u]] = timer[timerOf[u]]
    <3>1. timerOf[u] # timerOf[fd] /\ timerOf[u] \in Timers
      BY <1>0, <2>2, TimersDiffer DEF Covered, TypeOK
    <3> QED
      BY <1>0, <2>2, <3>1, RetiredType
  <2>5. Covered(fd)' /\ \A u \in Conns \ {fd} : Covered(u)'
    BY <1>0, <2>1, <2>2, <2>3, <2>4, RetiredType, FreshCovers
  <2> QED
    BY <2>3, <2>5 DEF TimerCoverage, Covered
<1>8. ASSUME NEW fd \in Fds, HandleHup(fd) PROVE TimerCoverage'
  <2>1. /\ RemoveFd(fd) /\ timer' = Retired(timerOf[fd])
        /\ heap' = heap /\ timerOf' = timerOf
    BY <1>8 DEF HandleHup
  <2>2. fd \in Conns /\ timerOf[fd] \in Timers
    BY <1>0, <1>8, HandleHupParts DEF TypeOK
  <2>3. Conns' = Conns \ {fd}
    BY <1>0, <2>1, Removed
  <2>4. ASSUME NEW u \in Conns \ {fd} PROVE Covered(u)'
    <3>1. timerOf[u] # timerOf[fd] /\ timerOf[u] \in heap /\ timerOf[u] \in Timers
      BY <1>0, <2>2, TimersDiffer DEF Covered, TypeOK
    <3>2. timer'[timerOf[u]] = timer[timerOf[u]]
      BY <1>0, <2>1, <2>2, <3>1, RetiredType
    <3>3. silent'[u] = silent[u]
      BY <1>0, <2>1, Removed DEF Conns
    <3> QED
      BY <1>0, <2>1, <3>1, <3>2, <3>3, StaysCovered
  <2> QED
    BY <2>3, <2>4 DEF TimerCoverage, Covered
<1>9. ASSUME NEW t \in Timers, TickOne(t) PROVE TimerCoverage'
  <2>1. /\ heap' = heap \ {t} /\ timer' = [timer EXCEPT ![t] = NoTimer]
        /\ timerOf' = timerOf
    BY <1>9 DEF TickOne
  <2>2. ASSUME NEW u \in Conns, timerOf[u] # t, silent'[u] = silent[u] PROVE Covered(u)'
    <3>1. timerOf[u] \in heap /\ timerOf[u] \in Timers /\ Covered(u)
      BY <1>0 DEF Covered, TypeOK
    <3>2. timer'[timerOf[u]] = timer[timerOf[u]]
      BY <1>0, <2>1, <2>2, <3>1 DEF TypeOK
    <3> QED
      BY <2>1, <2>2, <3>1, <3>2, StaysCovered
  <2>3. ASSUME NEW u \in Conns, timerOf[u] = t PROVE timer[t].live /\ timer[t].user = u
    <3>1. timer[t] = [left |-> Timeout - silent[u], live |-> TRUE, user |-> u]
      BY <1>0, <2>3 DEF Covered
    <3> QED
      BY <3>1
  <2>4. CASE timer[t].live
    <3>1. timer[t].user \in Fds /\ RemoveFd(timer[t].user)
      BY <1>0, <1>9, <2>4 DEF TickOne, TypeOK
    <3>2. /\ Conns' = Conns \ {timer[t].user}
          /\ \A u \in Conns' : silent'[u] = silent[u] /\ timerOf[u] # t
      BY <1>0, <2>3, <3>1, Removed DEF Conns
    <3> QED
      BY <2>2, <3>2 DEF TimerCoverage, Covered
  <2>5. CASE ~timer[t].live
    <3>1. Conns' = Conns /\ silent' = silent
      BY <1>9, <2>5 DEF TickOne, kernel, Conns
    <3> QED
      BY <2>2, <2>3, <2>5, <3>1 DEF TimerCoverage, Covered
  <2> QED
    BY <2>4, <2>5
<1>10. CASE Clock
  <2>1. Conns' = Conns /\ heap' = heap /\ timerOf' = timerOf
    BY <1>10 DEF Clock, kernel, Conns
  <2>2. ASSUME NEW u \in Conns PROVE Covered(u)'
    <3> DEFINE t == timerOf[u]
    <3>1. t \in heap /\ t \in Timers /\ u \in Fds /\ silent[u] \in 0 .. Timeout
      BY <1>0 DEF Covered, TypeOK, Conns
    <3>2. timer[t] = [left |-> Timeout - silent[u], live |-> TRUE, user |-> u]
      BY <1>0 DEF Covered
    <3>3. timer'[t] = IF timer[t].left > 0 THEN [timer[t] EXCEPT !.left = @ - 1] ELSE timer[t]
      BY <1>10, <3>1 DEF Clock
    <3>4. silent'[u] = IF silent[u] < Timeout THEN silent[u] + 1 ELSE silent[u]
      BY <1>10, <3>1 DEF Clock
    <3> HIDE DEF t
    <3>5. timer'[t] = [left |-> Timeout - silent'[u], live |-> TRUE, user |-> u]
      <4>1. timer[t].left = Timeout - silent[u]
        BY <3>2
      <4>2. CASE silent[u] < Timeout
        <5>1. timer'[t] = [timer[t] EXCEPT !.left = @ - 1]
          BY <3>1, <3>3, <4>1, <4>2, TimeoutIsNat
        <5>2. timer'[t] = [left |-> Timeout - silent[u] - 1, live |-> TRUE, user |-> u]
          <6>1. timer[t].left - 1 = Timeout - silent[u] - 1
            BY <4>1
          <6>2. PICK b : b = TRUE
            BY Zenon
          <6>3. timer[t] = [left |-> timer[t].left, live |-> b, user |-> u]
            BY <3>2, <4>1, <6>2, Zenon
          <6>4. timer'[t] = [left |-> timer[t].left - 1, live |-> b, user |-> u]
            BY <5>1, <6>3, OneLess
          <6> QED
            BY <6>1, <6>2, <6>4, Zenon
        <5>3. Timeout - silent[u] - 1 = Timeout - silent'[u]
          BY <3>1, <3>4, <4>2, TimeoutIsNat
        <5> QED
          BY <5>2, <5>3
      <4>3. CASE ~(silent[u] < Timeout)
        <5>1. timer'[t] = timer[t] /\ silent'[u] = silent[u]
          BY <3>1, <3>3, <3>4, <4>1, <4>3, TimeoutIsNat
        <5> QED
          BY <3>2, <5>1
      <4> QED
        BY <4>2, <4>3
    <3> QED
      BY <2>1, <3>1, <3>5 DEF t, Covered
  <2> QED
    BY <2>1, <2>2 DEF TimerCoverage, Covered
<1> QED
  BY <1>1, <1>2, <1>3, <1>4, <1>5, <1>6, <1>7, <1>8, <1>9, <1>10
     DEF Next, Reactor, Environment

-----------------------------------------------------------------------------
(* No readiness is lost.                                                   *)

Watched(fd) == armed[fd] \/ fd \in events.in \cup events.hup

ControlKept ==
    /\ signals # {} => "pipe" \in ready \cup events.ctl
    /\ backlog > 0 => "listen" \in ready \cup events.ctl

LEMMA EdgeIs == NoLostEdge <=> (\A fd \in Conns : Watched(fd)) /\ ControlKept
  BY DEF NoLostEdge, Watched, ControlKept

(* removefd, while the batch loses at most the event of that descriptor.   *)
LEMMA RemovedWatched ==
    ASSUME TypeOK, NEW fd \in Fds, RemoveFd(fd), \A u \in Conns : Watched(u),
           events.in \ {fd} \subseteq events'.in, events.hup \ {fd} \subseteq events'.hup
    PROVE  \A u \in Conns' : Watched(u)'
<1>1. Conns' = Conns \ {fd} /\ Conns \subseteq Fds
  BY Removed DEF Conns
<1>2. ASSUME NEW u \in Conns \ {fd} PROVE Watched(u)'
  <2>1. armed'[u] = armed[u]
    BY <1>1, Removed
  <2> QED
    BY <2>1 DEF Watched
<1> QED
  BY <1>1, <1>2

LEMMA EdgeStep ==
    ASSUME IInv, [Next]_vars
    PROVE  NoLostEdge'
<1>0. TypeOK /\ ClosingIsClosed /\ ControlKept /\ \A fd \in Conns : Watched(fd)
  BY EdgeIs DEF IInv
<1>a. ASSUME Conns' = Conns, armed' = armed,
             events.in = events'.in, events.hup = events'.hup, ControlKept'
      PROVE  NoLostEdge'
  BY <1>0, <1>a DEF NoLostEdge, Watched, ControlKept
<1>b. ASSUME UNCHANGED <<signals, ready, backlog>>, events'.ctl = events.ctl
      PROVE  ControlKept'
  BY <1>0, <1>b DEF ControlKept
<1>1. CASE EpollWait
  <2>1. /\ UNCHANGED <<owner, signals, backlog>> /\ events'.ctl = ready
        /\ events.in = {} /\ events.hup = {} /\ events.ctl = {}
    BY <1>1, EpollTakesAll DEF EpollWait, NoEvents
  <2>2. ControlKept'
    BY <1>0, <2>1 DEF ControlKept
  <2>3. ASSUME NEW fd \in Conns PROVE Watched(fd)'
    BY <1>0, <1>1, <2>1, EpollTakesAll DEF Watched
  <2> QED
    BY <2>1, <2>2, <2>3 DEF NoLostEdge, Watched, ControlKept, Conns
<1>2. CASE AcceptEnds \/ ReadSignals
  <2>1. /\ UNCHANGED <<owner, armed, ready, backlog>>
        /\ events'.in = events.in /\ events'.hup = events.hup
    BY <1>0, <1>2 DEF AcceptEnds, ReadSignals, kernel, control, TypeOK
  <2>2. ControlKept'
    <3>1. CASE AcceptEnds
      <4>1. backlog = 0 /\ signals' = signals /\ events'.ctl = events.ctl \ {"listen"}
        BY <1>0, <3>1 DEF AcceptEnds, control, TypeOK
      <4> QED
        BY <1>0, <2>1, <4>1 DEF ControlKept
    <3>2. CASE ReadSignals
      <4>1. signals' = {} /\ events'.ctl = events.ctl \ {"pipe"}
        BY <1>0, <3>2 DEF ReadSignals, TypeOK
      <4> QED
        BY <1>0, <2>1, <4>1 DEF ControlKept
    <3> QED
      BY <1>2, <3>1, <3>2
  <2> QED
    BY <1>a, <2>1, <2>2 DEF Conns
<1>3. CASE BatchEnds \/ TickEnds \/ UNCHANGED vars
  <2>1. UNCHANGED <<owner, armed, events, ready, signals, backlog>>
    BY <1>3 DEF BatchEnds, TickEnds, vars, kernel, control, loop
  <2> QED
    BY <1>a, <1>b, <2>1 DEF Conns
<1>4. ASSUME NEW fd \in Fds, Accept(fd) PROVE NoLostEdge'
  <2>1. /\ UNCHANGED <<events, ready, signals>> /\ "listen" \in events.ctl
        /\ armed' = [armed EXCEPT ![fd] = TRUE]
    BY <1>4 DEF Accept, loop
  <2>2. armed'[fd]
    BY <1>0, <2>1, Zenon DEF TypeOK
  <2>3. \A u \in Fds \ {fd} : armed'[u] = armed[u]
    BY <1>0, <2>1 DEF TypeOK
  <2>4. \A u \in Conns \cup {fd} : Watched(u)'
    BY <1>0, <2>1, <2>2, <2>3 DEF Watched, Conns
  <2>5. ControlKept'
    BY <1>0, <2>1 DEF ControlKept
  <2> QED
    BY <1>0, <1>4, <2>4, <2>5, Accepted DEF NoLostEdge, Watched, ControlKept
<1>5. ASSUME NEW fd \in Fds, HandleHup(fd) PROVE NoLostEdge'
  <2>1. UNCHANGED <<ready, signals, backlog>> /\ RemoveFd(fd)
    BY <1>5 DEF HandleHup, control
  <2>2. events'.in = events.in /\ events'.hup = events.hup \ {fd} /\ events'.ctl = events.ctl
    BY <1>0, <1>5 DEF HandleHup, TypeOK
  <2>3. \A u \in Conns' : Watched(u)'
    BY <1>0, <2>1, <2>2, RemovedWatched
  <2> QED
    BY <1>b, <2>1, <2>2, <2>3 DEF NoLostEdge, Watched, ControlKept
<1>6. ASSUME NEW fd \in Fds, HandleIn(fd) PROVE NoLostEdge'
  <2>1. UNCHANGED <<ready, signals, backlog>>
    BY <1>6 DEF HandleIn, control
  <2>2. events'.in = events.in \ {fd} /\ events'.hup = events.hup /\ events'.ctl = events.ctl
    BY <1>0, <1>6 DEF HandleIn, TypeOK
  <2>3. \A u \in Conns' : Watched(u)'
    <3>1. CASE fin[fd]
      BY <1>0, <1>6, <2>2, <3>1, RemovedWatched DEF HandleIn
    <3>2. CASE ~fin[fd]
      <4>1. Conns' = Conns /\ armed' = [armed EXCEPT ![fd] = TRUE]
        BY <1>6, <3>2 DEF HandleIn, Conns
      <4>2. armed'[fd]
        BY <1>0, <4>1, Zenon DEF TypeOK
      <4>3. \A u \in Fds \ {fd} : armed'[u] = armed[u]
        BY <1>0, <4>1 DEF TypeOK
      <4> QED
        BY <1>0, <2>2, <4>1, <4>2, <4>3 DEF Watched, Conns
    <3> QED
      BY <3>1, <3>2
  <2> QED
    BY <1>b, <2>1, <2>2, <2>3 DEF NoLostEdge, Watched, ControlKept
<1>7. ASSUME NEW t \in Timers, TickOne(t) PROVE NoLostEdge'
  <2>1. UNCHANGED <<events, ready, signals, backlog>>
    BY <1>7 DEF TickOne, control, loop
  <2>2. CASE timer[t].live
    <3>1. timer[t].user \in Fds /\ RemoveFd(timer[t].user)
      BY <1>0, <1>7, <2>2 DEF TickOne, TypeOK
    <3>2. \A u \in Conns' : Watched(u)'
      BY <1>0, <2>1, <3>1, RemovedWatched
    <3> QED
      BY <1>b, <2>1, <3>2 DEF NoLostEdge, Watched, ControlKept
  <2>3. CASE ~timer[t].live
    BY <1>7, <1>a, <1>b, <2>1, <2>3 DEF TickOne, kernel, Conns
  <2> QED
    BY <2>2, <2>3
<1>8. CASE PeerConnect \/ Clock \/ Terminate
  <2>1. UNCHANGED <<owner, armed, events>>
    BY <1>8 DEF PeerConnect, Clock, Terminate, kernel, loop
  <2>2. ControlKept'
    <3>1. CASE PeerConnect
      BY <1>0, <2>1, <3>1 DEF PeerConnect, ControlKept
    <3>2. CASE Clock
      BY <1>0, <2>1, <3>2 DEF Clock, ControlKept
    <3>3. CASE Terminate
      BY <1>0, <2>1, <3>3 DEF Terminate, ControlKept
    <3> QED
      BY <1>8, <3>1, <3>2, <3>3
  <2> QED
    BY <1>a, <2>1, <2>2 DEF Conns
<1>9. ASSUME NEW fd \in Fds, PeerSend(fd) \/ PeerClose(fd) PROVE NoLostEdge'
  <2>1. UNCHANGED <<owner, armed, events, ready, signals, backlog>>
    BY <1>9 DEF PeerSend, PeerClose, control, loop
  <2> QED
    BY <1>a, <1>b, <2>1 DEF Conns
<1>10. ASSUME NEW fd \in Fds, OtherOpen(fd) \/ OtherClose(fd) \/ EraseConnection
       PROVE  NoLostEdge'
  <2>1. UNCHANGED <<armed, events, ready, signals, backlog>>
    BY <1>10 DEF OtherOpen, OtherClose, EraseConnection, control, loop
  <2> QED
    BY <1>0, <1>10, <1>a, <1>b, <2>1, ConnsKept
<1>11. CASE EraseConnection
  <2>1. closing \in Fds
    BY <1>0, <1>11 DEF EraseConnection, TypeOK
  <2> QED
    BY <1>10, <1>11, <2>1
<1> QED
  BY <1>1, <1>2, <1>3, <1>4, <1>5, <1>6, <1>7, <1>8, <1>9, <1>10, <1>11
     DEF Next, Reactor, Environment

-----------------------------------------------------------------------------
LEMMA InitInv == Init => IInv
<1> SUFFICES ASSUME Init PROVE IInv
  OBVIOUS
<1>1. Conns = {} /\ WithData = {} /\ heap = {} /\ backlog = 0 /\ signals = {}
  <2>1. \A fd \in Fds : data[fd] = FALSE /\ owner[fd] = "free"
    BY Zenon DEF Init
  <2> QED
    BY <2>1 DEF Init, Conns, WithData
<1>2. TypeOK
  <2>1. NoTimer \in Timer /\ ~NoTimer.live
    BY TimeoutIsNat DEF NoTimer, Timer
  <2>2. timer \in [Timers -> Timer] /\ \A t \in Timers : ~timer[t].live
    BY <2>1 DEF Init
  <2>3. data \in [Fds -> BOOLEAN]
    BY DEF Init
  <2>4. fin \in [Fds -> BOOLEAN]
    BY DEF Init
  <2>5. armed \in [Fds -> BOOLEAN]
    BY DEF Init
  <2>6. silent \in [Fds -> 0 .. Timeout] /\ timerOf \in [Fds -> Nat]
    BY TimeoutIsNat DEF Init
  <2>7. owner \in [Fds -> {"free", "conn", "other"}]
    BY DEF Init
  <2>8. events \in [in : SUBSET Fds, hup : SUBSET Fds, ctl : SUBSET {"listen", "pipe"}]
    BY DEF Init, NoEvents
  <2>9. /\ backlog = 0 /\ ready = {} /\ signals = {} /\ heap = {} /\ due = {}
        /\ phase = "wait" /\ closing = NoFd
    BY DEF Init
  <2> QED
    BY <2>2, <2>3, <2>4, <2>5, <2>6, <2>7, <2>8, <2>9 DEF TypeOK
<1>3. TimersSuffice
  BY <1>1, <1>2, Sizes, FS_EmptySet DEF TimersSuffice
<1>4. BatchIsCurrent /\ ClosingIsClosed
  BY <1>1 DEF Init, BatchIsCurrent, ClosingIsClosed, NoEvents
<1>5. TimerCoverage /\ NoLostEdge
  BY <1>1 DEF TimerCoverage, NoLostEdge
<1> QED
  BY <1>2, <1>3, <1>4, <1>5 DEF IInv

THEOREM Invariance == Spec => []IInv
<1>1. IInv /\ [Next]_vars => IInv'
  BY TypeStep, TimersStep, BatchStep, CoverageStep, EdgeStep DEF IInv
<1> QED
  BY InitInv, <1>1, PTL DEF Spec

(* lst_timer.h and users_timer: through renewal, lazy deletion, reuse of   *)
(* descriptors and of addresses, whatever the order of events, every open  *)
(* connection has a living timer of its own that measures its silence.     *)
THEOREM TimersCover == Spec => []TimerCoverage
<1>1. IInv => TimerCoverage
  BY DEF IInv
<1> QED
  BY Invariance, <1>1, PTL

(* EPOLLONESHOT, EPOLLET and the socketpair lose no readiness, whatever    *)
(* comes between epoll_wait and the handlers.                              *)
THEOREM EdgesKept == Spec => []NoLostEdge
<1>1. IInv => NoLostEdge
  BY DEF IInv
<1> QED
  BY Invariance, <1>1, PTL

(* The handlers of a batch find every descriptor that epoll_wait reported  *)
(* still open, in one list only, and its request still unread, although    *)
(* earlier handlers, the clock and other threads have acted in between.    *)
THEOREM BatchesAreCurrent == Spec => [](TypeOK /\ BatchIsCurrent /\ ClosingIsClosed)
<1>1. IInv => TypeOK /\ BatchIsCurrent /\ ClosingIsClosed
  BY DEF IInv
<1> QED
  BY Invariance, <1>1, PTL
=============================================================================
