--------------------------- MODULE ConnPoolProofs ---------------------------
(***************************************************************************)
(* What ConnPool guarantees for any number of calls, hosts and descriptors *)
(* and for any limit: type correctness, ownership of the descriptors, the  *)
(* accounting of the slots, and with it the limit itself.                  *)
(***************************************************************************)
EXTENDS ConnPool, FiniteSetTheorems, SequenceTheorems, WellFoundedInduction, TLAPS

(* The inductive invariant. *)
IInv == TypeOK /\ FdConservation /\ RightEndpoint /\ SlotsAccounted

-----------------------------------------------------------------------------
(* Lemmas about finiteness and about the queues.                            *)

LEMMA Finite ==
    /\ IsFiniteSet(OpenFds) /\ Cardinality(OpenFds) \in Nat
    /\ IsFiniteSet(Reserved) /\ Cardinality(Reserved) \in Nat
<1>1. IsFiniteSet(OpenFds) /\ IsFiniteSet(Reserved)
  <2>1. OpenFds \in SUBSET Fds /\ Reserved \in SUBSET Calls
    BY DEF OpenFds, Reserved
  <2> QED  BY <2>1, FS_Subset, CallsAssumption, FdsAssumption
<1> QED  BY <1>1, FS_CardinalityType

LEMMA StaleCountRange ==
    ASSUME NEW q \in Seq(Item)
    PROVE  StaleCount(q) \in 0 .. Len(q)
<1> DEFINE S == {n \in 1 .. Len(q) : \A i \in 1 .. n : Stale(q[i])}
<1>1. Len(q) \in Nat  BY LenProperties
<1>2. IsFiniteSet(1 .. Len(q)) /\ Cardinality(1 .. Len(q)) = Len(q)
  BY <1>1, FS_Interval, 1 \in Int
<1>3. S \in SUBSET (1 .. Len(q))  OBVIOUS
<1> HIDE DEF S
<1>4. IsFiniteSet(S) /\ Cardinality(S) <= Len(q)
  BY <1>2, <1>3, FS_Subset
<1>5. Cardinality(S) \in Nat  BY <1>4, FS_CardinalityType
<1> QED  BY <1>1, <1>4, <1>5 DEF StaleCount, S

LEMMA SweepQueue ==
    ASSUME NEW q \in Seq(Item)
    PROVE  /\ AfterSweep(q) \in Seq(Item)
           /\ Len(AfterSweep(q)) = Len(q) - StaleCount(q)
           /\ \A i \in 1 .. Len(q) - StaleCount(q) :
                 AfterSweep(q)[i] = q[i + StaleCount(q)]
<1> DEFINE n == StaleCount(q)
<1>1. n \in 0 .. Len(q) /\ Len(q) \in Nat  BY StaleCountRange, LenProperties
<1> HIDE DEF n
<1>2. \A i \in n + 1 .. Len(q) : q[i] \in Item
  BY <1>1, ElementOfSeq
<1>3. /\ SubSeq(q, n + 1, Len(q)) \in Seq(Item)
      /\ Len(SubSeq(q, n + 1, Len(q))) =
            IF n + 1 <= Len(q) THEN Len(q) - (n + 1) + 1 ELSE 0
      /\ \A i \in 1 .. Len(q) - (n + 1) + 1 :
            SubSeq(q, n + 1, Len(q))[i] = q[n + 1 + i - 1]
  BY <1>1, <1>2, n + 1 \in Int, Len(q) \in Int, SubSeqProperties
<1>4. Len(SubSeq(q, n + 1, Len(q))) = Len(q) - n
  BY <1>1, <1>3
<1>5. \A i \in 1 .. Len(q) - n : SubSeq(q, n + 1, Len(q))[i] = q[i + n]
  BY <1>1, <1>3
<1> QED  BY <1>3, <1>4, <1>5 DEF AfterSweep, n

-----------------------------------------------------------------------------
(* Slots: while a place is taken, the counter is positive.                  *)

LEMMA CountCoversReserved ==
    ASSUME TypeOK, SlotsAccounted
    PROVE  /\ Cardinality(OpenFds) <= curConnCount
           /\ \A c \in Reserved : Cardinality(OpenFds) + 1 <= curConnCount
<1>1. curConnCount \in Nat  BY LimitAssumption DEF TypeOK
<1>2. ASSUME NEW c \in Reserved  PROVE 1 <= Cardinality(Reserved)
  <2>1. Cardinality(Reserved) # 0  BY <1>2, Finite, FS_EmptySet
  <2> QED  BY <2>1, Finite
<1> QED  BY <1>1, <1>2, Finite DEF SlotsAccounted

LEMMA SweptAreOpen ==
    ASSUME TypeOK, FdConservation
    PROVE  /\ SweptFds \subseteq IdleFds
           /\ SweptFds \subseteq OpenFds
           /\ IsFiniteSet(SweptFds)
           /\ Cardinality(SweptFds) \in Nat
           /\ Cardinality(SweptFds) <= Cardinality(OpenFds)
<1>1. ASSUME NEW k \in Keys  PROVE Swept(k) \subseteq IdleOf(k)
  <2>1. connMap[k] \in Seq(Item)  BY DEF TypeOK
  <2>2. StaleCount(connMap[k]) \in 0 .. Len(connMap[k])  BY <2>1, StaleCountRange
  <2>3. DOMAIN connMap[k] = 1 .. Len(connMap[k]) /\ Len(connMap[k]) \in Nat
    BY <2>1, LenProperties
  <2> QED  BY <2>2, <2>3 DEF Swept, IdleOf
<1>2. SweptFds \subseteq IdleFds  BY <1>1 DEF SweptFds, IdleFds
<1>3. SweptFds \in SUBSET OpenFds  BY <1>2 DEF FdConservation
<1> QED  BY <1>2, <1>3, Finite, FS_Subset, FS_CardinalityType

-----------------------------------------------------------------------------
(* Type correctness.                                                        *)

LEMMA InitType == Init => TypeOK
<1> SUFFICES ASSUME Init PROVE TypeOK
  OBVIOUS
<1>1. connMap \in [Keys -> Seq(Item)]  BY EmptySeq DEF Init
<1>2. curConnCount \in 0 .. MaxConnections  BY LimitAssumption DEF Init
<1>3. held \in [Calls -> Fds \cup {NoFd}]  BY DEF Init
<1>4. pc \in [Calls -> PcStates]  BY DEF Init, PcStates
<1>5. sock \in [Fds -> Keys \cup {Closed, Unconnected}]  BY DEF Init
<1>6. \A c \in Calls : held[c] # NoFd <=> pc[c] \in {"connecting", "using"}
  BY DEF Init
<1> QED  BY <1>1, <1>2, <1>3, <1>4, <1>5, <1>6 DEF Init, TypeOK

LEMMA TakeIdleType ==
    ASSUME TypeOK, NEW c \in Calls, TakeIdle(c), UNCHANGED <<life, sock>>,
           pc[c] \in {"start", "woken"}
    PROVE  TypeOK'
<1>1. key[c] \in Keys /\ Queue(c) \in Seq(Item) /\ Queue(c) # <<>>
  BY DEF TypeOK, Queue, TakeIdle
<1>2. Head(Queue(c)) \in Item /\ Tail(Queue(c)) \in Seq(Item)
  BY <1>1, HeadTailProperties
<1>3. Head(Queue(c)).fd \in Fds  BY <1>2 DEF Item
<1>4. connMap' \in [Keys -> Seq(Item)]  BY <1>1, <1>2 DEF TypeOK, TakeIdle, Queue
<1>5. held' \in [Calls -> Fds \cup {NoFd}]  BY <1>3 DEF TypeOK, TakeIdle
<1>6. pc' \in [Calls -> PcStates]  BY DEF TypeOK, TakeIdle, PcStates
<1>7. \A d \in Calls : held'[d] # NoFd <=> pc'[d] \in {"connecting", "using"}
  BY <1>3, FdsAssumption DEF TypeOK, TakeIdle
<1> QED  BY <1>4, <1>5, <1>6, <1>7 DEF TypeOK, TakeIdle, life

LEMMA AttemptType ==
    ASSUME TypeOK, NEW c \in Calls, UNCHANGED <<life, sock>>,
           pc[c] \in {"start", "woken"},
           TakeIdle(c) \/ ReserveSlot(c) \/ Block(c)
    PROVE  TypeOK'
<1>1. CASE TakeIdle(c)  BY <1>1, TakeIdleType
<1>2. CASE ReserveSlot(c)
  BY <1>2, LimitAssumption DEF TypeOK, ReserveSlot, PcStates, life
<1>3. CASE Block(c)  BY <1>3 DEF TypeOK, Block, PcStates, life, pool
<1> QED  BY <1>1, <1>2, <1>3

LEMMA NotifyType ==
    ASSUME TypeOK, NEW c \in Calls, NotifyOneThenDone(c),
           pc[c] \in {"rollback", "notify"}, UNCHANGED held
    PROVE  /\ pc' \in [Calls -> PcStates]
           /\ \A d \in Calls : held'[d] # NoFd <=> pc'[d] \in {"connecting", "using"}
  BY DEF TypeOK, NotifyOneThenDone, Waiters, PcStates

LEMMA NextType ==
    ASSUME IInv, Next
    PROVE  TypeOK'
<1> USE DEF IInv
<1>1. ASSUME NEW c \in Calls, GetConnection(c)  PROVE TypeOK'
  BY <1>1, AttemptType DEF GetConnection
<1>2. ASSUME NEW c \in Calls, Resume(c)  PROVE TypeOK'
  BY <1>2, AttemptType DEF Resume
<1>3. ASSUME NEW c \in Calls, SpuriousWake(c)  PROVE TypeOK'
  BY <1>3 DEF SpuriousWake, TypeOK, PcStates, pool, life
<1>4. ASSUME NEW c \in Calls, SocketOpen(c)  PROVE TypeOK'
  BY <1>4, FdsAssumption DEF SocketOpen, TypeOK, PcStates, pool, life
<1>5. ASSUME NEW c \in Calls, SocketFail(c)  PROVE TypeOK'
  BY <1>5 DEF SocketFail, TypeOK, PcStates, pool, life
<1>6. ASSUME NEW c \in Calls, ConnectOk(c)  PROVE TypeOK'
  BY <1>6 DEF ConnectOk, TypeOK, PcStates, pool, life
<1>7. ASSUME NEW c \in Calls, ConnectFail(c)  PROVE TypeOK'
  BY <1>7 DEF ConnectFail, CloseHeld, TypeOK, PcStates, pool, life
<1>8. ASSUME NEW c \in Calls, UseFail(c)  PROVE TypeOK'
  BY <1>8 DEF UseFail, CloseHeld, TypeOK, PcStates, pool, life
<1>9. ASSUME NEW c \in Calls, Rollback(c)  PROVE TypeOK'
  <2>1. c \in Reserved  BY <1>9 DEF Rollback, Reserved
  <2>2. curConnCount >= 1  BY <2>1, CountCoversReserved, Finite, LimitAssumption DEF TypeOK
  <2>3. curConnCount' \in 0 .. MaxConnections
    BY <1>9, <2>2, LimitAssumption DEF Rollback, TypeOK
  <2>4. /\ pc' \in [Calls -> PcStates]
        /\ \A d \in Calls : held'[d] # NoFd <=> pc'[d] \in {"connecting", "using"}
    BY <1>9, NotifyType DEF Rollback
  <2> QED  BY <1>9, <2>3, <2>4 DEF Rollback, TypeOK, life
<1>10. ASSUME NEW c \in Calls, ReleaseNotify(c)  PROVE TypeOK'
  <2>1. /\ pc' \in [Calls -> PcStates]
        /\ \A d \in Calls : held'[d] # NoFd <=> pc'[d] \in {"connecting", "using"}
    BY <1>10, NotifyType DEF ReleaseNotify
  <2> QED  BY <1>10, <2>1 DEF ReleaseNotify, TypeOK, pool, life
<1>11. ASSUME NEW c \in Calls, ReleasePush(c)  PROVE TypeOK'
  <2> DEFINE it == [fd |-> held[c], age |-> 0]
  <2>1. it \in Item  BY <1>11, LimitAssumption DEF ReleasePush, TypeOK, Item, Ages
  <2>2. connMap[key[c]] \in Seq(Item) /\ key[c] \in Keys  BY DEF TypeOK
  <2>3. Append(connMap[key[c]], it) \in Seq(Item)  BY <2>1, <2>2, AppendProperties
  <2>4. connMap' = [connMap EXCEPT ![key[c]] = Append(connMap[key[c]], it)]
    BY <1>11 DEF ReleasePush
  <2>5. connMap' \in [Keys -> Seq(Item)]  BY <2>2, <2>3, <2>4 DEF TypeOK
  <2> QED  BY <1>11, <2>5 DEF ReleasePush, TypeOK, PcStates, life
<1>12. ASSUME Tick  PROVE TypeOK'
  <2>1. ASSUME NEW k \in Keys  PROVE connMap'[k] \in Seq(Item)
    <3> DEFINE aged(i) == [connMap[k][i] EXCEPT !.age =
                             IF @ <= MaxIdleTime THEN @ + 1 ELSE @]
    <3>1. connMap[k] \in Seq(Item)  BY DEF TypeOK
    <3>2. Len(connMap[k]) \in Nat /\ DOMAIN connMap[k] = 1 .. Len(connMap[k])
      BY <3>1, LenProperties
    <3>3. connMap'[k] = [i \in 1 .. Len(connMap[k]) |-> aged(i)]
      BY <1>12, <3>2 DEF Tick
    <3>4. \A i \in 1 .. Len(connMap[k]) : aged(i) \in Item
      <4> SUFFICES ASSUME NEW i \in 1 .. Len(connMap[k])  PROVE aged(i) \in Item
        OBVIOUS
      <4>1. connMap[k][i] \in Item  BY <3>1, ElementOfSeq
      <4> QED  BY <4>1, LimitAssumption DEF Item, Ages
    <3> HIDE DEF aged
    <3> QED  BY <3>2, <3>3, <3>4
  <2>2. connMap' \in [Keys -> Seq(Item)]  BY <1>12, <2>1 DEF Tick
  <2> QED  BY <1>12, <2>2 DEF Tick, TypeOK, life, call
<1>13. ASSUME CleanerCheck  PROVE TypeOK'
  BY <1>13 DEF CleanerCheck, TypeOK, pool, call
<1>14. ASSUME CleanerSweep  PROVE TypeOK'
  <2>1. \A k \in Keys : AfterSweep(connMap[k]) \in Seq(Item)
    BY SweepQueue DEF TypeOK
  <2>2. connMap' \in [Keys -> Seq(Item)]  BY <1>14, <2>1 DEF CleanerSweep
  <2>3. curConnCount' \in 0 .. MaxConnections
    BY <1>14, SweptAreOpen, CountCoversReserved, Finite, LimitAssumption
       DEF CleanerSweep, TypeOK
  <2>4. sock' \in [Fds -> Keys \cup {Closed, Unconnected}]
    BY <1>14 DEF CleanerSweep, TypeOK
  <2> QED  BY <1>14, <2>2, <2>3, <2>4 DEF CleanerSweep, TypeOK, call
<1>15. ASSUME DtorStop  PROVE TypeOK'
  BY <1>15 DEF DtorStop, TypeOK, pool, call
<1>16. ASSUME DtorDrain  PROVE TypeOK'
  <2>1. connMap' \in [Keys -> Seq(Item)]  BY <1>16, EmptySeq DEF DtorDrain
  <2>2. sock' \in [Fds -> Keys \cup {Closed, Unconnected}]
    BY <1>16 DEF DtorDrain, TypeOK
  <2> QED  BY <1>16, <2>1, <2>2 DEF DtorDrain, TypeOK, call
<1> QED
  BY <1>1, <1>2, <1>3, <1>4, <1>5, <1>6, <1>7, <1>8, <1>9, <1>10, <1>11, <1>12,
     <1>13, <1>14, <1>15, <1>16
     DEF Next, CallStep, CreateSocket, Connect, Use

-----------------------------------------------------------------------------
(* Ownership of the descriptors.                                            *)

LEMMA QueueDomain ==
    ASSUME TypeOK, NEW k \in Keys
    PROVE  /\ connMap[k] \in Seq(Item)
           /\ Len(connMap[k]) \in Nat
           /\ DOMAIN connMap[k] = 1 .. Len(connMap[k])
           /\ \A i \in 1 .. Len(connMap[k]) : connMap[k][i].fd \in Fds
<1>1. connMap[k] \in Seq(Item)  BY DEF TypeOK
<1>2. \A i \in 1 .. Len(connMap[k]) : connMap[k][i] \in Item  BY <1>1, ElementOfSeq
<1> QED  BY <1>1, <1>2, LenProperties DEF Item

LEMMA NextQueueDomain ==
    ASSUME TypeOK', NEW k \in Keys
    PROVE  /\ Len(connMap'[k]) \in Nat
           /\ DOMAIN connMap'[k] = 1 .. Len(connMap'[k])
<1>1. connMap'[k] \in Seq(Item)  BY DEF TypeOK
<1> QED  BY <1>1, LenProperties

LEMMA IdleMember ==
    \A fd : fd \in IdleFds <=> \E k \in Keys : \E i \in DOMAIN connMap[k] :
                                   connMap[k][i].fd = fd
  BY DEF IdleFds, IdleOf

LEMMA NextIdleMember ==
    \A fd : fd \in IdleFds' <=> \E k \in Keys : \E i \in DOMAIN connMap'[k] :
                                   connMap'[k][i].fd = fd
  BY DEF IdleFds, IdleOf

(* A step that drops the first n[k] items of each queue. *)
LEMMA DropFront ==
    ASSUME TypeOK, TypeOK', OnePlace, NEW n \in [Keys -> Nat],
           \A k \in Keys : Len(connMap'[k]) = Len(connMap[k]) - n[k],
           \A k \in Keys : \A i \in 1 .. Len(connMap[k]) - n[k] :
               connMap'[k][i].fd = connMap[k][i + n[k]].fd
    PROVE  /\ OnePlace'
           /\ \A k \in Keys : IdleOf(k)' \subseteq IdleOf(k)
           /\ \A fd : fd \in IdleFds' <=>
                /\ fd \in IdleFds
                /\ \A k \in Keys : \A i \in 1 .. n[k] : connMap[k][i].fd # fd
<1>1. ASSUME NEW k \in Keys
      PROVE  /\ DOMAIN connMap[k] = 1 .. Len(connMap[k])
             /\ DOMAIN connMap'[k] = 1 .. Len(connMap[k]) - n[k]
             /\ Len(connMap[k]) \in Nat /\ n[k] \in 0 .. Len(connMap[k])
  <2>1. n[k] \in Nat /\ Len(connMap[k]) \in Nat /\ Len(connMap'[k]) \in Nat
    BY QueueDomain, NextQueueDomain
  <2>2. n[k] <= Len(connMap[k])  BY <2>1
  <2> QED  BY <2>1, <2>2, QueueDomain, NextQueueDomain
<1>2. ASSUME NEW k \in Keys, NEW i \in DOMAIN connMap'[k]
      PROVE  i + n[k] \in DOMAIN connMap[k] /\ connMap'[k][i].fd = connMap[k][i + n[k]].fd
  <2>1. i \in 1 .. Len(connMap[k]) - n[k]  BY <1>1
  <2>2. i + n[k] \in 1 .. Len(connMap[k])  BY <1>1, <2>1
  <2>3. connMap'[k][i].fd = connMap[k][i + n[k]].fd  BY <2>1
  <2> QED  BY <1>1, <2>2, <2>3
<1>3. OnePlace'
  <2> SUFFICES ASSUME NEW k \in Keys, NEW l \in Keys,
                      NEW i \in DOMAIN connMap'[k], NEW j \in DOMAIN connMap'[l],
                      connMap'[k][i].fd = connMap'[l][j].fd
               PROVE  k = l /\ i = j
    BY DEF OnePlace
  <2>1. /\ i + n[k] \in DOMAIN connMap[k] /\ j + n[l] \in DOMAIN connMap[l]
        /\ connMap[k][i + n[k]].fd = connMap[l][j + n[l]].fd
    BY <1>2
  <2>2. k = l /\ i + n[k] = j + n[l]  BY <2>1 DEF OnePlace
  <2>3. i \in Nat /\ j \in Nat /\ n[k] \in Nat /\ n[l] = n[k]  BY <2>2, <1>1
  <2> QED  BY <2>2, <2>3
<1>4. ASSUME NEW k \in Keys, NEW fd, fd \in IdleOf(k)'  PROVE fd \in IdleOf(k)
  <2>1. PICK i \in DOMAIN connMap'[k] : connMap'[k][i].fd = fd  BY <1>4 DEF IdleOf
  <2>2. i + n[k] \in DOMAIN connMap[k] /\ connMap[k][i + n[k]].fd = fd  BY <2>1, <1>2
  <2> QED  BY <2>2 DEF IdleOf
<1>5. ASSUME NEW fd, fd \in IdleFds'
      PROVE  fd \in IdleFds /\ \A k \in Keys : \A i \in 1 .. n[k] : connMap[k][i].fd # fd
  <2>1. PICK l \in Keys : \E j \in DOMAIN connMap'[l] : connMap'[l][j].fd = fd
    BY <1>5, NextIdleMember
  <2>2. PICK j \in DOMAIN connMap'[l] : connMap'[l][j].fd = fd  BY <2>1
  <2>3. j + n[l] \in DOMAIN connMap[l] /\ connMap[l][j + n[l]].fd = fd  BY <2>2, <1>2
  <2>4. fd \in IdleFds  BY <2>3, IdleMember
  <2>5. ASSUME NEW k \in Keys, NEW i \in 1 .. n[k], connMap[k][i].fd = fd  PROVE FALSE
    <3>1. i \in DOMAIN connMap[k]  BY <1>1
    <3>2. k = l /\ i = j + n[l]  BY <3>1, <2>3, <2>5, SMTT(30) DEF OnePlace
    <3> QED  BY <3>2, <2>2, <1>1
  <2> QED  BY <2>4, <2>5
<1>6. ASSUME NEW fd, fd \in IdleFds,
             \A k \in Keys : \A i \in 1 .. n[k] : connMap[k][i].fd # fd
      PROVE  fd \in IdleFds'
  <2>1. PICK l \in Keys : \E j \in DOMAIN connMap[l] : connMap[l][j].fd = fd
    BY <1>6, IdleMember
  <2>2. PICK j \in DOMAIN connMap[l] : connMap[l][j].fd = fd  BY <2>1
  <2>3. j \in 1 .. Len(connMap[l]) /\ j \notin 1 .. n[l]  BY <1>1, <1>6, <2>2
  <2>4. j - n[l] \in DOMAIN connMap'[l]  BY <1>1, <2>3
  <2>5. connMap'[l][j - n[l]].fd = connMap[l][(j - n[l]) + n[l]].fd  BY <1>2, <2>4
  <2>6. (j - n[l]) + n[l] = j  BY <1>1, <2>3
  <2>7. connMap'[l][j - n[l]].fd = fd  BY <2>2, <2>5, <2>6
  <2> QED  BY <2>4, <2>7, NextIdleMember
<1> QED  BY <1>3, <1>4, <1>5, <1>6

(* A step that leaves the descriptors in the queues alone. *)
LEMMA SameQueues ==
    ASSUME UNCHANGED connMap
    PROVE  /\ OnePlace <=> OnePlace'
           /\ IdleFds' = IdleFds
           /\ \A k \in Keys : IdleOf(k)' = IdleOf(k)
  BY DEF OnePlace, IdleFds, IdleOf

(* Owners, in terms of single descriptors. *)
LEMMA OwnerFacts ==
    ASSUME TypeOK, FdConservation
    PROVE  /\ \A c \in Calls : held[c] # NoFd =>
                 held[c] \in Fds /\ sock[held[c]] # Closed /\ held[c] \notin IdleFds
           /\ \A fd \in IdleFds : fd \in Fds /\ sock[fd] # Closed
           /\ \A fd \in Fds : sock[fd] # Closed =>
                 fd \in IdleFds \/ \E c \in Calls : held[c] = fd
  BY FdsAssumption DEF FdConservation, OpenFds, HeldFds, TypeOK

LEMMA NextOwners ==
    ASSUME OneHolder', OnePlace',
           \A c \in Calls : held'[c] # NoFd =>
                 held'[c] \in Fds /\ sock'[held'[c]] # Closed /\ held'[c] \notin IdleFds',
           \A fd \in IdleFds' : fd \in Fds /\ sock'[fd] # Closed,
           \A fd \in Fds : sock'[fd] # Closed =>
                 fd \in IdleFds' \/ \E c \in Calls : held'[c] = fd
    PROVE  FdConservation'
<1>1. OpenFds' = IdleFds' \cup HeldFds'  BY FdsAssumption DEF OpenFds, HeldFds
<1>2. IdleFds' \cap HeldFds' = {}  BY DEF HeldFds
<1> QED  BY <1>1, <1>2 DEF FdConservation

Owned == FdConservation /\ RightEndpoint

(* A step that moves no descriptor, opens none and closes none. *)
LEMMA OwnedFrame ==
    ASSUME Owned, UNCHANGED <<connMap, key, held, sock>>,
           \A c \in Calls : pc'[c] \in {"connecting", "using"} => pc'[c] = pc[c]
    PROVE  Owned'
<1>1. FdConservation'
  BY SameQueues DEF Owned, FdConservation, OpenFds, HeldFds, OneHolder
<1>2. RightEndpoint'  BY SameQueues DEF Owned, RightEndpoint
<1> QED  BY <1>1, <1>2 DEF Owned

LEMMA IdleOfPart ==
    ASSUME RightEndpoint, NEW gone,
           \A k \in Keys : IdleOf(k)' \subseteq IdleOf(k),
           \A fd : fd \in IdleFds' <=> fd \in IdleFds /\ fd \notin gone
    PROVE  \A k \in Keys : IdleOf(k)' = IdleOf(k) \ gone
<1> SUFFICES ASSUME NEW k \in Keys, NEW fd, fd \in IdleOf(k)
             PROVE  fd \in IdleOf(k)' <=> fd \notin gone
  OBVIOUS
<1>1. fd \in IdleFds  BY DEF IdleFds
<1>2. ASSUME fd \in IdleOf(k)'  PROVE fd \notin gone
  BY <1>2 DEF IdleFds
<1>3. ASSUME fd \notin gone  PROVE fd \in IdleOf(k)'
  <2>1. fd \in IdleFds'  BY <1>1, <1>3
  <2>2. PICK l \in Keys : fd \in IdleOf(l)'  BY <2>1 DEF IdleFds
  <2>3. k = l  BY <2>2 DEF RightEndpoint
  <2> QED  BY <2>2, <2>3
<1> QED  BY <1>2, <1>3

LEMMA OwnedTakeIdle ==
    ASSUME TypeOK, TypeOK', Owned, NEW c \in Calls, TakeIdle(c), UNCHANGED sock,
           pc[c] \in {"start", "woken"}
    PROVE  /\ Owned'
           /\ held' = [held EXCEPT ![c] = held'[c]]
           /\ held'[c] \in IdleOf(key[c])
           /\ \A k \in Keys : IdleOf(k)' = IdleOf(k) \ {held'[c]}
<1> DEFINE n == [k \in Keys |-> IF k = key[c] THEN 1 ELSE 0]
           fd == connMap[key[c]][1].fd
<1> USE DEF Owned
<1>1. /\ key[c] \in Keys /\ connMap[key[c]] \in Seq(Item) /\ connMap[key[c]] # <<>>
      /\ held[c] = NoFd
  BY DEF TypeOK, TakeIdle, Queue
<1>2. Head(connMap[key[c]]).fd = fd /\ 1 \in DOMAIN connMap[key[c]]
  BY <1>1, EmptySeq, LenProperties
<1>3. \A k \in Keys : Len(connMap'[k]) = Len(connMap[k]) - n[k]
  BY <1>1, HeadTailProperties, QueueDomain DEF TakeIdle, TypeOK
<1>4. \A k \in Keys : \A i \in 1 .. Len(connMap[k]) - n[k] :
          connMap'[k][i].fd = connMap[k][i + n[k]].fd
  <2>1. ASSUME NEW i \in 1 .. Len(connMap[key[c]]) - 1
        PROVE  connMap'[key[c]][i] = connMap[key[c]][i + 1]
    BY <1>1, HeadTailProperties DEF TakeIdle, TypeOK
  <2>2. ASSUME NEW k \in Keys, k # key[c]  PROVE connMap'[k] = connMap[k]
    BY <2>2 DEF TakeIdle, TypeOK
  <2>3. ASSUME NEW k \in Keys, k # key[c], NEW i \in 1 .. Len(connMap[k]) - n[k]
        PROVE  connMap'[k][i].fd = connMap[k][i + n[k]].fd
    BY <2>2, <2>3, QueueDomain
  <2> QED  BY <2>1, <2>3, <1>1
<1>5. n \in [Keys -> Nat] /\ OnePlace  BY DEF FdConservation
<1>6. /\ OnePlace'
      /\ \A k \in Keys : IdleOf(k)' \subseteq IdleOf(k)
      /\ \A x : x \in IdleFds' <=>
            x \in IdleFds /\ \A k \in Keys : \A i \in 1 .. n[k] : connMap[k][i].fd # x
  <2> HIDE DEF n
  <2> QED  BY <1>3, <1>4, <1>5, DropFront
<1>7. \A x : x \in IdleFds' <=> x \in IdleFds /\ x # fd
  <2>1. \A k \in Keys : \A i \in 1 .. n[k] : k = key[c] /\ i = 1
    OBVIOUS
  <2>2. n[key[c]] = 1  BY <1>1
  <2> QED  BY <1>1, <1>6, <2>1, <2>2
<1> HIDE DEF n, fd
<1>8. fd \in IdleOf(key[c]) /\ fd \in IdleFds /\ fd # NoFd
  BY <1>1, <1>2, OwnerFacts, FdsAssumption DEF IdleOf, IdleFds, fd
<1>9. held' = [held EXCEPT ![c] = fd]  BY <1>2 DEF TakeIdle, Queue
<1>10. FdConservation'
  <2>1. OneHolder'
    BY <1>1, <1>8, <1>9, OwnerFacts DEF FdConservation, OneHolder, TypeOK
  <2>2. \A d \in Calls : held'[d] # NoFd =>
            held'[d] \in Fds /\ sock'[held'[d]] # Closed /\ held'[d] \notin IdleFds'
    BY <1>7, <1>8, <1>9, OwnerFacts DEF TypeOK
  <2>3. \A x \in IdleFds' : x \in Fds /\ sock'[x] # Closed
    BY <1>7, OwnerFacts
  <2>4. ASSUME NEW x \in Fds, sock'[x] # Closed
        PROVE  x \in IdleFds' \/ \E d \in Calls : held'[d] = x
    BY <1>1, <1>7, <1>9, <2>4, OwnerFacts, FdsAssumption DEF TypeOK
  <2> QED  BY <1>6, <2>1, <2>2, <2>3, <2>4, NextOwners
<1>11. RightEndpoint'
  <2>1. sock[fd] = key[c]  BY <1>1, <1>8 DEF RightEndpoint
  <2>2. \A k \in Keys : \A x \in IdleOf(k)' : sock'[x] = k
    BY <1>6 DEF RightEndpoint
  <2>3. \A d \in Calls : pc'[d] = "using" => sock'[held'[d]] = key'[d]
    BY <1>9, <2>1 DEF TakeIdle, TypeOK, RightEndpoint
  <2>4. \A d \in Calls : pc'[d] = "connecting" => sock'[held'[d]] = Unconnected
    BY <1>9 DEF TakeIdle, TypeOK, RightEndpoint
  <2> QED  BY <2>2, <2>3, <2>4 DEF RightEndpoint
<1>12. held'[c] = fd  BY <1>9 DEF TypeOK
<1>13. \A k \in Keys : IdleOf(k)' = IdleOf(k) \ {held'[c]}
  BY <1>6, <1>7, <1>12, IdleOfPart
<1> QED  BY <1>8, <1>9, <1>10, <1>11, <1>12, <1>13

LEMMA OwnedSocketOpen ==
    ASSUME TypeOK, Owned, NEW c \in Calls, SocketOpen(c)
    PROVE  Owned'
<1> USE DEF Owned
<1>1. PICK fd \in Fds : /\ sock[fd] = Closed
                        /\ sock' = [sock EXCEPT ![fd] = Unconnected]
                        /\ held' = [held EXCEPT ![c] = fd]
  BY DEF SocketOpen
<1>2. UNCHANGED <<connMap, key>> /\ pc' = [pc EXCEPT ![c] = "connecting"]
  BY DEF SocketOpen, pool
<1>3. held[c] = NoFd  BY DEF SocketOpen, TypeOK
<1>4. fd \notin IdleFds /\ \A d \in Calls : held[d] # fd
  BY <1>1, OwnerFacts, FdsAssumption
<1>5. OnePlace' /\ IdleFds' = IdleFds  BY <1>2, SameQueues DEF FdConservation
<1>6. OneHolder'  BY <1>1, <1>4 DEF FdConservation, OneHolder, TypeOK
<1>7. /\ \A d \in Calls : held'[d] # NoFd =>
            held'[d] \in Fds /\ sock'[held'[d]] # Closed /\ held'[d] \notin IdleFds'
      /\ \A x \in IdleFds' : x \in Fds /\ sock'[x] # Closed
  BY <1>1, <1>4, <1>5, OwnerFacts, KeysAssumption DEF TypeOK
<1>8. ASSUME NEW x \in Fds, sock'[x] # Closed
      PROVE  x \in IdleFds' \/ \E d \in Calls : held'[d] = x
  BY <1>1, <1>3, <1>5, <1>8, OwnerFacts, FdsAssumption DEF TypeOK
<1>9. FdConservation'  BY <1>5, <1>6, <1>7, <1>8, NextOwners
<1>10. \A k \in Keys : \A x \in IdleOf(k)' : sock'[x] = k
  <2>1. \A k \in Keys : \A x \in IdleOf(k)' : x \in IdleOf(k) /\ x \in IdleFds
    BY <1>2, SameQueues DEF IdleFds
  <2> QED  BY <2>1, <1>1, <1>4 DEF RightEndpoint
<1>11. \A d \in Calls : /\ pc'[d] = "using" => sock'[held'[d]] = key'[d]
                        /\ pc'[d] = "connecting" => sock'[held'[d]] = Unconnected
  BY <1>1, <1>2, <1>4 DEF TypeOK, RightEndpoint
<1>12. RightEndpoint'  BY <1>10, <1>11 DEF RightEndpoint
<1> QED  BY <1>9, <1>12

LEMMA OwnedConnectOk ==
    ASSUME TypeOK, Owned, NEW c \in Calls, ConnectOk(c)
    PROVE  Owned'
<1> USE DEF Owned
<1>1. /\ sock' = [sock EXCEPT ![held[c]] = key[c]] /\ key[c] \in Keys
      /\ UNCHANGED <<connMap, key, held>> /\ pc' = [pc EXCEPT ![c] = "using"]
      /\ held[c] \in Fds /\ held[c] # NoFd /\ held[c] \notin IdleFds
  BY OwnerFacts DEF ConnectOk, pool, TypeOK
<1>2. \A d \in Calls : held[d] = held[c] => d = c
  BY <1>1 DEF FdConservation, OneHolder
<1>3. sock[held[c]] # Closed /\ sock'[held[c]] # Closed
  BY <1>1, OwnerFacts, KeysAssumption DEF TypeOK
<1>4. OpenFds' = OpenFds  BY <1>1, <1>3 DEF OpenFds, TypeOK
<1>5. FdConservation'
  BY <1>1, <1>4, SameQueues DEF FdConservation, HeldFds, OneHolder
<1>6. \A k \in Keys : \A x \in IdleOf(k)' : sock'[x] = k
  <2>1. \A k \in Keys : \A x \in IdleOf(k)' : x \in IdleOf(k) /\ x \in IdleFds
    BY <1>1, SameQueues DEF IdleFds
  <2> QED  BY <2>1, <1>1, OwnerFacts DEF RightEndpoint, TypeOK
<1>7. \A d \in Calls : /\ pc'[d] = "using" => sock'[held'[d]] = key'[d]
                       /\ pc'[d] = "connecting" => sock'[held'[d]] = Unconnected
  BY <1>1, <1>2, OwnerFacts DEF TypeOK, RightEndpoint
<1>8. RightEndpoint'  BY <1>6, <1>7 DEF RightEndpoint
<1> QED  BY <1>5, <1>8

(* rpc_task or CreateRealSocket closes the descriptor of the call. *)
LEMMA OwnedClose ==
    ASSUME TypeOK, Owned, NEW c \in Calls, CloseHeld(c), UNCHANGED <<connMap, key>>,
           pc[c] \in {"connecting", "using"}, NEW p \in {"rollback", "done"},
           pc' = [pc EXCEPT ![c] = p]
    PROVE  Owned'
<1> USE DEF Owned
<1>1. /\ sock' = [sock EXCEPT ![held[c]] = Closed]
      /\ held' = [held EXCEPT ![c] = NoFd]
      /\ held[c] \in Fds /\ held[c] # NoFd /\ held[c] \notin IdleFds
  BY OwnerFacts DEF CloseHeld, TypeOK
<1>2. \A d \in Calls : held[d] = held[c] => d = c
  BY <1>1 DEF FdConservation, OneHolder
<1>3. OnePlace' /\ IdleFds' = IdleFds  BY SameQueues DEF FdConservation
<1>4. OneHolder'  BY <1>1 DEF FdConservation, OneHolder, TypeOK
<1>5. /\ \A d \in Calls : held'[d] # NoFd =>
            held'[d] \in Fds /\ sock'[held'[d]] # Closed /\ held'[d] \notin IdleFds'
      /\ \A x \in IdleFds' : x \in Fds /\ sock'[x] # Closed
  BY <1>1, <1>2, <1>3, OwnerFacts DEF TypeOK
<1>6. ASSUME NEW x \in Fds, sock'[x] # Closed
      PROVE  x \in IdleFds' \/ \E d \in Calls : held'[d] = x
  BY <1>1, <1>3, <1>6, OwnerFacts DEF TypeOK
<1>7. FdConservation'  BY <1>3, <1>4, <1>5, <1>6, NextOwners
<1>8. \A k \in Keys : \A x \in IdleOf(k)' : sock'[x] = k
  <2>1. \A k \in Keys : \A x \in IdleOf(k)' : x \in IdleOf(k) /\ x \in IdleFds
    BY SameQueues DEF IdleFds
  <2> QED  BY <2>1, <1>1, OwnerFacts DEF RightEndpoint, TypeOK
<1>9. \A d \in Calls : /\ pc'[d] = "using" => sock'[held'[d]] = key'[d]
                       /\ pc'[d] = "connecting" => sock'[held'[d]] = Unconnected
  BY <1>1, <1>2, OwnerFacts DEF TypeOK, RightEndpoint
<1>10. RightEndpoint'  BY <1>8, <1>9 DEF RightEndpoint
<1> QED  BY <1>7, <1>10

LEMMA OwnedReleasePush ==
    ASSUME TypeOK, TypeOK', Owned, NEW c \in Calls, ReleasePush(c)
    PROVE  /\ Owned'
           /\ \A k \in Keys : IdleOf(k)' =
                 IF k = key[c] THEN IdleOf(k) \cup {held[c]} ELSE IdleOf(k)
<1> DEFINE fd == held[c]
           it == [fd |-> held[c], age |-> 0]
           q  == connMap[key[c]]
<1> USE DEF Owned
<1>1. /\ pc[c] = "using" /\ key[c] \in Keys /\ UNCHANGED <<key, sock>>
      /\ fd \in Fds /\ fd # NoFd /\ fd \notin IdleFds
      /\ held' = [held EXCEPT ![c] = NoFd]
      /\ pc' = [pc EXCEPT ![c] = "notify"]
      /\ connMap' = [connMap EXCEPT ![key[c]] = Append(q, it)]
  BY OwnerFacts DEF ReleasePush, TypeOK
<1>2. it \in Item /\ it.fd = fd /\ q \in Seq(Item) /\ Len(q) \in Nat
  <2>1. 0 \in Ages  BY LimitAssumption DEF Ages
  <2>2. it \in Item /\ it.fd = fd  BY <1>1, <2>1 DEF Item
  <2>3. q \in Seq(Item) /\ Len(q) \in Nat  BY <1>1, QueueDomain
  <2> QED  BY <2>2, <2>3
<1>3. /\ Len(Append(q, it)) = Len(q) + 1
      /\ \A i \in 1 .. Len(q) : Append(q, it)[i] = q[i]
      /\ Append(q, it)[Len(q) + 1] = it
  BY <1>2, AppendProperties
<1>4. /\ DOMAIN connMap'[key[c]] = 1 .. Len(q) + 1 /\ DOMAIN q = 1 .. Len(q)
      /\ \A i \in DOMAIN q : connMap'[key[c]][i] = q[i]
      /\ connMap'[key[c]][Len(q) + 1] = it
      /\ \A k \in Keys : k # key[c] => connMap'[k] = connMap[k]
  BY <1>1, <1>3, NextQueueDomain, QueueDomain DEF TypeOK
<1>5. \A k \in Keys : \A i \in DOMAIN connMap'[k] :
          \/ i \in DOMAIN connMap[k] /\ connMap'[k][i] = connMap[k][i]
          \/ k = key[c] /\ i = Len(q) + 1 /\ connMap'[k][i].fd = fd
  <2>1. 1 .. Len(q) + 1 = 1 .. Len(q) \cup {Len(q) + 1}  BY <1>2
  <2> QED  BY <1>2, <1>4, <2>1
<1>6. \A k \in Keys : \A i \in DOMAIN connMap[k] :
          i \in DOMAIN connMap'[k] /\ connMap'[k][i] = connMap[k][i]
  BY <1>2, <1>4, SMTT(30)
<1> HIDE DEF it, q, fd
<1>7. \A k \in Keys : \A i \in DOMAIN connMap[k] : connMap[k][i].fd # fd
  BY <1>1, IdleMember
<1>8. OnePlace'
  <2> SUFFICES ASSUME NEW k \in Keys, NEW l \in Keys,
                      NEW i \in DOMAIN connMap'[k], NEW j \in DOMAIN connMap'[l],
                      connMap'[k][i].fd = connMap'[l][j].fd
               PROVE  k = l /\ i = j
    BY DEF OnePlace
  <2> QED  BY <1>5, <1>7 DEF FdConservation, OnePlace
<1>9. \A x : x \in IdleFds' <=> x \in IdleFds \/ x = fd
  <2>1. ASSUME NEW x, x \in IdleFds'  PROVE x \in IdleFds \/ x = fd
    BY <1>5, <2>1, IdleMember, NextIdleMember
  <2>2. ASSUME NEW x, x \in IdleFds  PROVE x \in IdleFds'
    BY <1>6, <2>2, IdleMember, NextIdleMember
  <2>3. fd \in IdleFds'
    <3>1. Len(q) + 1 \in DOMAIN connMap'[key[c]] /\ connMap'[key[c]][Len(q) + 1].fd = fd
      BY <1>2, <1>4
    <3> QED  BY <1>1, <3>1, NextIdleMember
  <2> QED  BY <2>1, <2>2, <2>3
<1>10. \A d \in Calls : held[d] = fd => d = c
  BY <1>1 DEF FdConservation, OneHolder, fd
<1>11. OneHolder'  BY <1>1 DEF FdConservation, OneHolder, TypeOK
<1>12. /\ \A d \in Calls : held'[d] # NoFd =>
            held'[d] \in Fds /\ sock'[held'[d]] # Closed /\ held'[d] \notin IdleFds'
       /\ \A x \in IdleFds' : x \in Fds /\ sock'[x] # Closed
  <2>1. sock[fd] # Closed  BY <1>1, OwnerFacts DEF fd
  <2> QED  BY <1>1, <1>9, <1>10, <2>1, OwnerFacts DEF TypeOK
<1>13. ASSUME NEW x \in Fds, sock'[x] # Closed
       PROVE  x \in IdleFds' \/ \E d \in Calls : held'[d] = x
  BY <1>1, <1>9, <1>13, OwnerFacts DEF TypeOK, fd
<1>14. FdConservation'  BY <1>8, <1>11, <1>12, <1>13, NextOwners
<1>15. \A k \in Keys : \A x \in IdleOf(k)' : sock'[x] = k
  <2> SUFFICES ASSUME NEW k \in Keys, NEW i \in DOMAIN connMap'[k]
               PROVE  sock'[connMap'[k][i].fd] = k
    BY DEF IdleOf
  <2>1. CASE i \in DOMAIN connMap[k] /\ connMap'[k][i] = connMap[k][i]
    BY <1>1, <2>1 DEF RightEndpoint, IdleOf
  <2>2. CASE k = key[c] /\ connMap'[k][i].fd = fd
    BY <1>1, <2>2 DEF RightEndpoint, fd
  <2> QED  BY <1>5, <2>1, <2>2
<1>16. \A d \in Calls : /\ pc'[d] = "using" => sock'[held'[d]] = key'[d]
                        /\ pc'[d] = "connecting" => sock'[held'[d]] = Unconnected
  BY <1>1 DEF TypeOK, RightEndpoint
<1>17. RightEndpoint'  BY <1>15, <1>16 DEF RightEndpoint
<1>18. ASSUME NEW k \in Keys
       PROVE  IdleOf(k)' = IF k = key[c] THEN IdleOf(k) \cup {fd} ELSE IdleOf(k)
  <2>1. CASE k = key[c]
    <3>1. ASSUME NEW x, x \in IdleOf(k)'  PROVE x \in IdleOf(k) \cup {fd}
      BY <1>5, <3>1 DEF IdleOf
    <3>2. ASSUME NEW x, x \in IdleOf(k)  PROVE x \in IdleOf(k)'
      BY <1>6, <3>2 DEF IdleOf
    <3>3. Len(q) + 1 \in DOMAIN connMap'[k] /\ connMap'[k][Len(q) + 1].fd = fd
      BY <1>2, <1>4, <2>1
    <3>4. fd \in IdleOf(k)'  BY <3>3 DEF IdleOf
    <3> QED  BY <2>1, <3>1, <3>2, <3>4
  <2>2. CASE k # key[c]  BY <1>4, <2>2 DEF IdleOf
  <2> QED  BY <2>1, <2>2
<1> QED  BY <1>14, <1>17, <1>18 DEF fd

(* The cleaner and the destructor close the descriptors they drop. *)
LEMMA OwnedReclaim ==
    ASSUME TypeOK, TypeOK', Owned, UNCHANGED call, NEW n \in [Keys -> Nat],
           \A k \in Keys : Len(connMap'[k]) = Len(connMap[k]) - n[k],
           \A k \in Keys : \A i \in 1 .. Len(connMap[k]) - n[k] :
               connMap'[k][i].fd = connMap[k][i + n[k]].fd,
           NEW gone,
           \A fd : fd \in gone <=> \E k \in Keys : \E i \in 1 .. n[k] :
                                       connMap[k][i].fd = fd,
           gone \subseteq IdleFds,
           sock' = [fd \in Fds |-> IF fd \in gone THEN Closed ELSE sock[fd]]
    PROVE  Owned' /\ \A k \in Keys : IdleOf(k)' = IdleOf(k) \ gone
<1> USE DEF Owned
<1>1. OnePlace  BY DEF FdConservation
<1>2. /\ OnePlace'
      /\ \A k \in Keys : IdleOf(k)' \subseteq IdleOf(k)
      /\ \A fd : fd \in IdleFds' <=>
            fd \in IdleFds /\ \A k \in Keys : \A i \in 1 .. n[k] : connMap[k][i].fd # fd
  BY <1>1, DropFront
<1>3. \A fd : fd \in IdleFds' <=> fd \in IdleFds /\ fd \notin gone  BY <1>2
<1>4. UNCHANGED <<pc, key, held>>  BY DEF call
<1>5. OneHolder'  BY <1>4 DEF FdConservation, OneHolder
<1>6. /\ \A d \in Calls : held'[d] # NoFd =>
            held'[d] \in Fds /\ sock'[held'[d]] # Closed /\ held'[d] \notin IdleFds'
      /\ \A fd \in IdleFds' : fd \in Fds /\ sock'[fd] # Closed
  BY <1>3, <1>4, OwnerFacts
<1>7. ASSUME NEW fd \in Fds, sock'[fd] # Closed
      PROVE  fd \in IdleFds' \/ \E d \in Calls : held'[d] = fd
  BY <1>3, <1>4, <1>7, OwnerFacts
<1>8. FdConservation'  BY <1>2, <1>5, <1>6, <1>7, NextOwners
<1>9. \A k \in Keys : \A fd \in IdleOf(k)' : sock'[fd] = k
  <2> SUFFICES ASSUME NEW k \in Keys, NEW fd \in IdleOf(k)'  PROVE sock'[fd] = k
    OBVIOUS
  <2>1. fd \in IdleOf(k) /\ fd \in IdleFds'  BY <1>2 DEF IdleFds
  <2>2. fd \notin gone /\ fd \in Fds  BY <1>3, <2>1, OwnerFacts
  <2> QED  BY <2>1, <2>2 DEF RightEndpoint
<1>10. \A d \in Calls : /\ pc'[d] = "using" => sock'[held'[d]] = key'[d]
                        /\ pc'[d] = "connecting" => sock'[held'[d]] = Unconnected
  <2> SUFFICES ASSUME NEW d \in Calls, pc[d] \in {"using", "connecting"}
               PROVE  sock'[held[d]] = sock[held[d]]
    BY <1>4 DEF RightEndpoint
  <2>1. held[d] # NoFd  BY DEF TypeOK
  <2> QED  BY <2>1, OwnerFacts
<1>11. RightEndpoint'  BY <1>9, <1>10 DEF RightEndpoint
<1>12. \A k \in Keys : IdleOf(k)' = IdleOf(k) \ gone  BY <1>2, <1>3, IdleOfPart
<1> QED  BY <1>8, <1>11, <1>12

LEMMA OwnedTick ==
    ASSUME TypeOK, TypeOK', Owned, Tick
    PROVE  Owned' /\ \A k \in Keys : IdleOf(k)' = IdleOf(k)
<1> DEFINE n    == [k \in Keys |-> 0]
           gone == {x \in Fds : FALSE}
<1>1. ASSUME NEW k \in Keys
      PROVE  /\ Len(connMap'[k]) = Len(connMap[k]) - n[k]
             /\ \A i \in 1 .. Len(connMap[k]) - n[k] :
                   connMap'[k][i].fd = connMap[k][i + n[k]].fd
  <2> DEFINE aged(i) == [connMap[k][i] EXCEPT !.age =
                           IF @ <= MaxIdleTime THEN @ + 1 ELSE @]
  <2>1. connMap'[k] = [i \in DOMAIN connMap[k] |-> aged(i)]  BY DEF Tick
  <2>2. /\ DOMAIN connMap[k] = 1 .. Len(connMap[k]) /\ Len(connMap[k]) \in Nat
        /\ DOMAIN connMap'[k] = 1 .. Len(connMap'[k]) /\ Len(connMap'[k]) \in Nat
    BY QueueDomain, NextQueueDomain
  <2>3. \A i \in DOMAIN connMap[k] : aged(i).fd = connMap[k][i].fd
    <3> SUFFICES ASSUME NEW i \in DOMAIN connMap[k]
                 PROVE  aged(i).fd = connMap[k][i].fd
      OBVIOUS
    <3>1. connMap[k][i] \in Item  BY <2>2, QueueDomain, ElementOfSeq
    <3> QED  BY <3>1 DEF Item
  <2> HIDE DEF aged
  <2>4. Len(connMap'[k]) = Len(connMap[k])  BY <2>1, <2>2
  <2> QED  BY <2>1, <2>2, <2>3, <2>4
<1>2. n \in [Keys -> Nat]  OBVIOUS
<1>3. \A fd : fd \in gone <=> \E k \in Keys : \E i \in 1 .. n[k] : connMap[k][i].fd = fd
  OBVIOUS
<1>4. /\ sock' = [fd \in Fds |-> IF fd \in gone THEN Closed ELSE sock[fd]]
      /\ gone \subseteq IdleFds
  BY DEF Tick, TypeOK
<1>5. UNCHANGED call  BY DEF Tick
<1>6. \A k \in Keys : IdleOf(k) \ gone = IdleOf(k)  OBVIOUS
<1> HIDE DEF n, gone
<1> QED  BY <1>1, <1>2, <1>3, <1>4, <1>5, <1>6, OwnedReclaim

LEMMA OwnedSweep ==
    ASSUME TypeOK, TypeOK', Owned, CleanerSweep
    PROVE  Owned' /\ \A k \in Keys : IdleOf(k)' = IdleOf(k) \ SweptFds
<1> DEFINE n == [k \in Keys |-> StaleCount(connMap[k])]
<1>1. ASSUME NEW k \in Keys
      PROVE  /\ n[k] \in Nat
             /\ Len(connMap'[k]) = Len(connMap[k]) - n[k]
             /\ \A i \in 1 .. Len(connMap[k]) - n[k] :
                   connMap'[k][i].fd = connMap[k][i + n[k]].fd
  <2>1. connMap[k] \in Seq(Item) /\ Len(connMap[k]) \in Nat  BY QueueDomain
  <2>2. StaleCount(connMap[k]) \in 0 .. Len(connMap[k])  BY <2>1, StaleCountRange
  <2>3. connMap'[k] = AfterSweep(connMap[k])  BY DEF CleanerSweep
  <2> QED  BY <2>1, <2>2, <2>3, SweepQueue, SMTT(30)
<1>2. n \in [Keys -> Nat]  BY <1>1
<1>3. \A fd : fd \in SweptFds <=> \E k \in Keys : \E i \in 1 .. n[k] :
                                     connMap[k][i].fd = fd
  BY DEF SweptFds, Swept
<1>4. /\ sock' = [fd \in Fds |-> IF fd \in SweptFds THEN Closed ELSE sock[fd]]
      /\ UNCHANGED call
  BY DEF CleanerSweep
<1>5. SweptFds \subseteq IdleFds  BY SweptAreOpen DEF Owned
<1> HIDE DEF n
<1> QED  BY <1>1, <1>2, <1>3, <1>4, <1>5, OwnedReclaim

LEMMA OwnedDrain ==
    ASSUME TypeOK, TypeOK', Owned, DtorDrain
    PROVE  Owned' /\ \A k \in Keys : IdleOf(k)' = IdleOf(k) \ IdleFds
<1> DEFINE n == [k \in Keys |-> Len(connMap[k])]
<1>1. ASSUME NEW k \in Keys
      PROVE  /\ n[k] \in Nat
             /\ Len(connMap'[k]) = Len(connMap[k]) - n[k]
             /\ \A i \in 1 .. Len(connMap[k]) - n[k] :
                   connMap'[k][i].fd = connMap[k][i + n[k]].fd
  <2>1. Len(connMap[k]) \in Nat  BY QueueDomain
  <2>2. connMap'[k] = <<>>  BY DEF DtorDrain
  <2> QED  BY <2>1, <2>2
<1>2. n \in [Keys -> Nat]  BY <1>1
<1>3. \A fd : fd \in IdleFds <=> \E k \in Keys : \E i \in 1 .. n[k] :
                                     connMap[k][i].fd = fd
  <2>1. \A k \in Keys : DOMAIN connMap[k] = 1 .. n[k]  BY QueueDomain
  <2> QED  BY <2>1, IdleMember
<1>4. /\ sock' = [fd \in Fds |-> IF fd \in IdleFds THEN Closed ELSE sock[fd]]
      /\ UNCHANGED call
  BY DEF DtorDrain
<1> HIDE DEF n
<1> QED  BY <1>1, <1>2, <1>3, <1>4, OwnedReclaim

LEMMA NextOwned ==
    ASSUME IInv, Next
    PROVE  Owned'
<1>1. TypeOK /\ Owned /\ TypeOK'  BY NextType DEF IInv, Owned
<1>2. ASSUME NEW c \in Calls, UNCHANGED <<life, sock>>, pc[c] \in {"start", "woken"},
             TakeIdle(c) \/ ReserveSlot(c) \/ Block(c)
      PROVE  Owned'
  <2>1. CASE TakeIdle(c)  BY <1>1, <1>2, <2>1, OwnedTakeIdle
  <2>2. CASE ReserveSlot(c)
    BY <1>1, <1>2, <2>2, OwnedFrame DEF ReserveSlot, TypeOK
  <2>3. CASE Block(c)  BY <1>1, <1>2, <2>3, OwnedFrame DEF Block, pool, TypeOK
  <2> QED  BY <1>2, <2>1, <2>2, <2>3
<1>3. ASSUME NEW c \in Calls, GetConnection(c) \/ Resume(c)  PROVE Owned'
  BY <1>2, <1>3 DEF GetConnection, Resume
<1>4. ASSUME NEW c \in Calls, SpuriousWake(c) \/ SocketFail(c)  PROVE Owned'
  BY <1>1, <1>4, OwnedFrame DEF SpuriousWake, SocketFail, pool, TypeOK
<1>5. ASSUME NEW c \in Calls, Rollback(c) \/ ReleaseNotify(c)  PROVE Owned'
  <2>1. UNCHANGED <<connMap, key, held, sock>>
    BY <1>5 DEF Rollback, ReleaseNotify, pool
  <2>2. \A d \in Calls : pc'[d] \in {"connecting", "using"} => pc'[d] = pc[d]
    BY <1>1, <1>5 DEF Rollback, ReleaseNotify, NotifyOneThenDone, Waiters, TypeOK
  <2> QED  BY <1>1, <2>1, <2>2, OwnedFrame
<1>6. ASSUME NEW c \in Calls, CreateSocket(c) \/ Connect(c) \/ Use(c)  PROVE Owned'
  <2>1. CASE SocketOpen(c)  BY <1>1, <2>1, OwnedSocketOpen
  <2>2. CASE ConnectOk(c)  BY <1>1, <2>2, OwnedConnectOk
  <2>3. CASE ConnectFail(c)  BY <1>1, <2>3, OwnedClose DEF ConnectFail, pool
  <2>4. CASE UseFail(c)  BY <1>1, <2>4, OwnedClose DEF UseFail, pool
  <2>5. CASE ReleasePush(c)  BY <1>1, <2>5, OwnedReleasePush
  <2> QED  BY <1>4, <1>6, <2>1, <2>2, <2>3, <2>4, <2>5 DEF CreateSocket, Connect, Use
<1>7. ASSUME CleanerCheck \/ DtorStop  PROVE Owned'
  BY <1>1, <1>7, OwnedFrame DEF CleanerCheck, DtorStop, pool, call
<1>8. ASSUME Tick \/ CleanerSweep \/ DtorDrain  PROVE Owned'
  BY <1>1, <1>8, OwnedTick, OwnedSweep, OwnedDrain
<1> QED  BY <1>3, <1>4, <1>5, <1>6, <1>7, <1>8 DEF Next, CallStep

-----------------------------------------------------------------------------
(* The accounting of the slots.                                             *)

LEMMA SlotsFrame ==
    ASSUME SlotsAccounted, OpenFds' = OpenFds, Reserved' = Reserved,
           curConnCount' = curConnCount
    PROVE  SlotsAccounted'
  BY DEF SlotsAccounted

LEMMA NextSlots ==
    ASSUME IInv, Next
    PROVE  SlotsAccounted'
<1> USE DEF IInv
<1> USE CallsAssumption, FdsAssumption
<1>1. curConnCount \in Nat  BY LimitAssumption DEF TypeOK
<1>2. ASSUME NEW c \in Calls, UNCHANGED sock, TakeIdle(c) \/ ReserveSlot(c) \/ Block(c),
             pc[c] \in {"start", "woken"}
      PROVE  SlotsAccounted'
  <2>1. OpenFds' = OpenFds  BY <1>2 DEF OpenFds
  <2>2. CASE TakeIdle(c) \/ Block(c)
    <3>1. Reserved' = Reserved
      BY <1>2, <2>2 DEF TakeIdle, Block, Reserved, TypeOK
    <3>2. curConnCount' = curConnCount  BY <2>2 DEF TakeIdle, Block, pool
    <3> QED  BY <2>1, <3>1, <3>2, SlotsFrame
  <2>3. CASE ReserveSlot(c)
    <3>1. Reserved' = Reserved \cup {c} /\ c \notin Reserved
      BY <1>2, <2>3 DEF ReserveSlot, Reserved, TypeOK
    <3>2. Cardinality(Reserved') = Cardinality(Reserved) + 1
      BY <3>1, Finite, FS_AddElement
    <3> QED  BY <1>1, <2>1, <2>3, <3>2, Finite DEF ReserveSlot, SlotsAccounted
  <2> QED  BY <1>2, <2>2, <2>3
<1>3. ASSUME NEW c \in Calls, GetConnection(c) \/ Resume(c)  PROVE SlotsAccounted'
  BY <1>2, <1>3 DEF GetConnection, Resume
<1>4. ASSUME NEW c \in Calls, SpuriousWake(c) \/ SocketFail(c) \/ ReleasePush(c)
      PROVE  SlotsAccounted'
  <2>1. OpenFds' = OpenFds /\ curConnCount' = curConnCount
    BY <1>4 DEF SpuriousWake, SocketFail, ReleasePush, OpenFds, pool
  <2>2. Reserved' = Reserved
    BY <1>4 DEF SpuriousWake, SocketFail, ReleasePush, Reserved, TypeOK
  <2> QED  BY <2>1, <2>2, SlotsFrame
<1>5. ASSUME NEW c \in Calls, ReleaseNotify(c)  PROVE SlotsAccounted'
  <2>1. OpenFds' = OpenFds /\ curConnCount' = curConnCount
    BY <1>5 DEF ReleaseNotify, OpenFds, pool
  <2>2. Reserved' = Reserved
    BY <1>5 DEF ReleaseNotify, NotifyOneThenDone, Waiters, Reserved, TypeOK
  <2> QED  BY <2>1, <2>2, SlotsFrame
<1>6. ASSUME NEW c \in Calls, Rollback(c)  PROVE SlotsAccounted'
  <2>1. OpenFds' = OpenFds /\ curConnCount' = curConnCount - 1
    BY <1>6 DEF Rollback, OpenFds
  <2>2. Reserved' = Reserved \ {c} /\ c \in Reserved
    BY <1>6 DEF Rollback, NotifyOneThenDone, Waiters, Reserved, TypeOK
  <2>3. Cardinality(Reserved') = Cardinality(Reserved) - 1
    BY <2>2, Finite, FS_RemoveElement
  <2> QED  BY <1>1, <2>1, <2>3, Finite DEF SlotsAccounted
<1>7. ASSUME NEW c \in Calls, SocketOpen(c)  PROVE SlotsAccounted'
  <2>1. PICK fd \in Fds : sock[fd] = Closed /\ sock' = [sock EXCEPT ![fd] = Unconnected]
    BY <1>7 DEF SocketOpen
  <2>2. OpenFds' = OpenFds \cup {fd} /\ fd \notin OpenFds
    BY <2>1, KeysAssumption DEF OpenFds, TypeOK
  <2>3. Reserved' = Reserved \ {c} /\ c \in Reserved
    BY <1>7 DEF SocketOpen, Reserved, TypeOK
  <2>4. /\ Cardinality(OpenFds') = Cardinality(OpenFds) + 1
        /\ Cardinality(Reserved') = Cardinality(Reserved) - 1
    BY <2>2, <2>3, Finite, FS_AddElement, FS_RemoveElement
  <2>5. curConnCount' = curConnCount  BY <1>7 DEF SocketOpen, pool
  <2> QED  BY <1>1, <2>4, <2>5, Finite DEF SlotsAccounted
<1>8. ASSUME NEW c \in Calls, ConnectOk(c)  PROVE SlotsAccounted'
  <2>1. held[c] # NoFd /\ key[c] \in Keys  BY <1>8 DEF ConnectOk, TypeOK
  <2>2. sock[held[c]] # Closed  BY <2>1, OwnerFacts
  <2>3. OpenFds' = OpenFds
    BY <1>8, <2>1, <2>2, KeysAssumption DEF ConnectOk, OpenFds, TypeOK
  <2>4. Reserved' = Reserved /\ curConnCount' = curConnCount
    BY <1>8 DEF ConnectOk, Reserved, TypeOK, pool
  <2> QED  BY <2>3, <2>4, SlotsFrame
<1>9. ASSUME NEW c \in Calls, CloseHeld(c), pc[c] \in {"connecting", "using"}
      PROVE  Cardinality(OpenFds') = Cardinality(OpenFds) - 1
  <2>1. held[c] # NoFd  BY <1>9 DEF TypeOK
  <2>2. held[c] \in OpenFds  BY <2>1, OwnerFacts DEF OpenFds
  <2>3. OpenFds' = OpenFds \ {held[c]}  BY <1>9 DEF CloseHeld, OpenFds, TypeOK
  <2> QED  BY <2>2, <2>3, Finite, FS_RemoveElement
<1>10. ASSUME NEW c \in Calls, ConnectFail(c)  PROVE SlotsAccounted'
  <2>1. Cardinality(OpenFds') = Cardinality(OpenFds) - 1  BY <1>9, <1>10 DEF ConnectFail
  <2>2. Reserved' = Reserved \cup {c} /\ c \notin Reserved
    BY <1>10 DEF ConnectFail, Reserved, TypeOK
  <2>3. Cardinality(Reserved') = Cardinality(Reserved) + 1
    BY <2>2, Finite, FS_AddElement
  <2>4. curConnCount' = curConnCount  BY <1>10 DEF ConnectFail, pool
  <2> QED  BY <1>1, <2>1, <2>3, <2>4, Finite DEF SlotsAccounted
<1>11. ASSUME NEW c \in Calls, UseFail(c)  PROVE SlotsAccounted'
  <2>1. Cardinality(OpenFds') = Cardinality(OpenFds) - 1  BY <1>9, <1>11 DEF UseFail
  <2>2. Reserved' = Reserved /\ curConnCount' = curConnCount
    BY <1>11 DEF UseFail, Reserved, TypeOK, pool
  <2> QED  BY <1>1, <2>1, <2>2, Finite DEF SlotsAccounted
<1>12. ASSUME Tick \/ CleanerCheck \/ DtorStop  PROVE SlotsAccounted'
  <2>1. OpenFds' = OpenFds /\ curConnCount' = curConnCount /\ Reserved' = Reserved
    BY <1>12 DEF Tick, CleanerCheck, DtorStop, OpenFds, Reserved, pool, call
  <2> QED  BY <2>1, SlotsFrame
<1>13. ASSUME CleanerSweep  PROVE SlotsAccounted'
  <2>1. OpenFds' = OpenFds \ SweptFds  BY <1>13 DEF CleanerSweep, OpenFds
  <2>2. /\ SweptFds \subseteq OpenFds /\ IsFiniteSet(SweptFds)
        /\ Cardinality(SweptFds) \in Nat
    BY SweptAreOpen
  <2>3. Cardinality(OpenFds') = Cardinality(OpenFds) - Cardinality(SweptFds)
    <3>1. OpenFds \cap SweptFds = SweptFds  BY <2>2
    <3>2. IsFiniteSet(OpenFds)  BY Finite
    <3>3. Cardinality(OpenFds \ SweptFds)
             = Cardinality(OpenFds) - Cardinality(OpenFds \cap SweptFds)
      BY <3>2, FS_Difference, Zenon
    <3> QED  BY <2>1, <3>1, <3>3, Zenon
  <2>4. /\ Reserved' = Reserved
        /\ curConnCount' = curConnCount - Cardinality(SweptFds)
    BY <1>13 DEF CleanerSweep, Reserved, call
  <2> QED  BY <1>1, <2>2, <2>3, <2>4, Finite DEF SlotsAccounted
<1>14. ASSUME DtorDrain  PROVE SlotsAccounted'
  <2>1. OpenFds' \in SUBSET OpenFds  BY <1>14 DEF DtorDrain, OpenFds
  <2>2. /\ Cardinality(OpenFds') <= Cardinality(OpenFds)
        /\ Cardinality(OpenFds') \in Nat
    BY <2>1, Finite, FS_Subset, FS_CardinalityType
  <2>3. Reserved' = Reserved /\ curConnCount' = curConnCount
    BY <1>14 DEF DtorDrain, Reserved, call
  <2> QED  BY <1>1, <2>2, <2>3, Finite DEF SlotsAccounted
<1> QED
  BY <1>3, <1>4, <1>5, <1>6, <1>7, <1>8, <1>10, <1>11, <1>12, <1>13, <1>14
     DEF Next, CallStep, CreateSocket, Connect, Use

-----------------------------------------------------------------------------
(* The theorems.                                                            *)

LEMMA InitInv == Init => IInv
<1> SUFFICES ASSUME Init PROVE IInv
  OBVIOUS
<1>1. TypeOK  BY InitType
<1>2. \A k \in Keys : connMap[k] = <<>> /\ DOMAIN connMap[k] = {}  BY DEF Init
<1>3. IdleFds = {} /\ OnePlace /\ \A k \in Keys : IdleOf(k) = {}
  BY <1>2 DEF IdleFds, IdleOf, OnePlace
<1>4. HeldFds = {} /\ OpenFds = {} /\ OneHolder
  BY DEF Init, HeldFds, OpenFds, OneHolder
<1>5. FdConservation  BY <1>3, <1>4 DEF FdConservation
<1>6. RightEndpoint  BY <1>3 DEF RightEndpoint, Init
<1>7. Reserved = {}  BY DEF Reserved, Init
<1>8. SlotsAccounted  BY <1>4, <1>7, FS_EmptySet DEF SlotsAccounted, Init
<1> QED  BY <1>1, <1>5, <1>6, <1>8 DEF IInv

LEMMA NextInv == IInv /\ [Next]_vars => IInv'
<1> SUFFICES ASSUME IInv, [Next]_vars PROVE IInv'
  OBVIOUS
<1>1. CASE Next  BY <1>1, NextType, NextOwned, NextSlots DEF IInv, Owned
<1>2. CASE UNCHANGED vars
  <2>1. UNCHANGED <<curConnCount, connMap, stop, cleaner, destroyed, pc, key, held, sock>>
    BY <1>2 DEF vars, pool, life, call
  <2>2. TypeOK'  BY <2>1 DEF IInv, TypeOK
  <2>3. Owned'  BY <2>1, OwnedFrame DEF IInv, Owned
  <2>4. OpenFds' = OpenFds /\ Reserved' = Reserved  BY <2>1 DEF OpenFds, Reserved
  <2>5. SlotsAccounted'  BY <2>1, <2>4, SlotsFrame DEF IInv
  <2> QED  BY <2>2, <2>3, <2>5 DEF IInv, Owned
<1> QED  BY <1>1, <1>2

THEOREM Invariance == Spec => []IInv
  BY InitInv, NextInv, PTL DEF Spec

(* Every variable of the pool keeps its type; a call holds a descriptor    *)
(* exactly while it connects or uses it.                                   *)
THEOREM TypeCorrect == Spec => []TypeOK
<1>1. IInv => TypeOK  BY DEF IInv
<1> QED  BY <1>1, Invariance, PTL

(* However many calls run, each open descriptor has one owner, a call or   *)
(* one place in the pool, and nothing that is owned is closed.             *)
THEOREM Ownership == Spec => []FdConservation
<1>1. IInv => FdConservation  BY DEF IInv
<1> QED  BY <1>1, Invariance, PTL

(* GetConnection returns connections to the host it was asked for. *)
THEOREM Endpoint == Spec => []RightEndpoint
<1>1. IInv => RightEndpoint  BY DEF IInv
<1> QED  BY <1>1, Invariance, PTL

(* The counter covers what is open and what is being opened, however many  *)
(* calls connect, fail and release at once.                                *)
THEOREM SlotsHold == Spec => []SlotsAccounted
<1>1. IInv => SlotsAccounted  BY DEF IInv
<1> QED  BY <1>1, Invariance, PTL

(* The number of open connections never exceeds m_maxConnections, although *)
(* the sockets are made outside the lock and failed calls close theirs     *)
(* behind the pool's back.                                                 *)
THEOREM LimitHolds == Spec => []ConnLimit
<1>1. IInv => ConnLimit
  <2> SUFFICES ASSUME IInv PROVE ConnLimit
    OBVIOUS
  <2>1. Cardinality(OpenFds) <= curConnCount  BY CountCoversReserved DEF IInv
  <2>2. curConnCount \in Nat /\ curConnCount <= MaxConnections
    BY LimitAssumption DEF IInv, TypeOK
  <2> QED  BY <2>1, <2>2, Finite, LimitAssumption DEF ConnLimit
<1> QED  BY <1>1, Invariance, PTL

(* After m_stop no call is inside the pool, and ~ConnectionPool has        *)
(* emptied every queue.                                                    *)
Shutdown ==
    /\ stop => \A c \in Calls : pc[c] \in {"start", "done"}
    /\ destroyed => /\ stop
                    /\ cleaner = "exited"
                    /\ \A k \in Keys : connMap[k] = <<>>

LEMMA NextShutdown ==
    ASSUME IInv, Shutdown, [Next]_vars
    PROVE  Shutdown'
<1> USE DEF Shutdown
<1>1. ASSUME NEW c \in Calls, GetConnection(c)  PROVE Shutdown'
  BY <1>1 DEF GetConnection, life
<1>2. ASSUME NEW c \in Calls, CallStep(c) \/ SpuriousWake(c)  PROVE Shutdown'
  <2>1. pc[c] \notin {"start", "done"}
    BY <1>2 DEF CallStep, SpuriousWake, Resume, CreateSocket, SocketOpen, SocketFail,
       Connect, ConnectOk, ConnectFail, Rollback, Use, UseFail, ReleasePush, ReleaseNotify
  <2>2. ~stop  BY <2>1
  <2>3. UNCHANGED life
    BY <1>2 DEF CallStep, SpuriousWake, Resume, CreateSocket, SocketOpen, SocketFail,
       Connect, ConnectOk, ConnectFail, Rollback, Use, UseFail, ReleasePush, ReleaseNotify
  <2> QED  BY <2>2, <2>3 DEF life
<1>3. CASE Tick
  <2>1. \A k \in Keys : connMap[k] = <<>> => connMap'[k] = <<>>
    BY <1>3 DEF Tick
  <2> QED  BY <1>3, <2>1 DEF Tick, life, call
<1>4. CASE CleanerCheck  BY <1>4 DEF CleanerCheck, pool, call
<1>5. CASE CleanerSweep  BY <1>5 DEF CleanerSweep, call
<1>6. CASE DtorStop  BY <1>6 DEF DtorStop, pool, call
<1>7. CASE DtorDrain  BY <1>7 DEF DtorDrain, call
<1>8. CASE UNCHANGED vars  BY <1>8 DEF vars, pool, life, call
<1> QED  BY <1>1, <1>2, <1>3, <1>4, <1>5, <1>6, <1>7, <1>8 DEF Next

(* When the destructor has returned, the process holds no connection: none *)
(* is forgotten in a queue or by a call.                                   *)
THEOREM NothingLeftOpen == Spec => []DestructorCloses
<1>1. Init => Shutdown  BY DEF Init, Shutdown
<1>2. IInv /\ Shutdown => DestructorCloses
  <2> SUFFICES ASSUME IInv, Shutdown, destroyed  PROVE OpenFds = {}
    BY DEF DestructorCloses
  <2>1. \A k \in Keys : connMap[k] = <<>>  BY DEF Shutdown
  <2>2. IdleFds = {}  BY <2>1 DEF IdleFds, IdleOf
  <2>3. \A c \in Calls : held[c] = NoFd  BY DEF Shutdown, IInv, TypeOK
  <2>4. HeldFds = {}  BY <2>3 DEF HeldFds
  <2> QED  BY <2>2, <2>4 DEF IInv, FdConservation
<1> QED  BY <1>1, <1>2, NextShutdown, Invariance, PTL DEF Spec

-----------------------------------------------------------------------------
(* ConnPool implements ConnLease.                                           *)

LEMMA LeaseOpen == FdConservation => Lease!Open = OpenFds
  BY DEF FdConservation, Lease!Open, Lease!Idle, Lease!Leased, IdleFds, HeldFds

LEMMA LeaseStutter ==
    ASSUME UNCHANGED <<key, held>>, \A k \in Keys : IdleOf(k)' = IdleOf(k)
    PROVE  UNCHANGED Lease!vars
  BY DEF Lease!vars

LEMMA LeaseNext ==
    ASSUME IInv, [Next]_vars
    PROVE  [Lease!Next]_(Lease!vars)
<1>1. CASE UNCHANGED vars
  BY <1>1, LeaseStutter DEF vars, pool, call, IdleOf
<1>2. CASE Next
  <2> SUFFICES Lease!Next \/ UNCHANGED Lease!vars
    OBVIOUS
  <2>1. TypeOK /\ TypeOK' /\ Owned /\ UNCHANGED key
    BY <1>2, NextType DEF IInv, Owned, Next, GetConnection, CallStep, SpuriousWake,
       Resume, CreateSocket, SocketOpen, SocketFail, Connect, ConnectOk, ConnectFail,
       Rollback, Use, UseFail, ReleasePush, ReleaseNotify, TakeIdle, ReserveSlot,
       Block, CloseHeld, Tick, CleanerCheck, CleanerSweep, DtorStop, DtorDrain, call
  <2>2. ASSUME NEW c \in Calls, TakeIdle(c), UNCHANGED sock, pc[c] \in {"start", "woken"}
        PROVE  Lease!Next
    <3> DEFINE fd == held'[c]
    <3>1. /\ held' = [held EXCEPT ![c] = fd]
          /\ fd \in IdleOf(key[c])
          /\ \A k \in Keys : IdleOf(k)' = IdleOf(k) \ {fd}
      BY <2>1, <2>2, OwnedTakeIdle
    <3>2. key[c] \in Keys /\ held[c] = NoFd  BY <2>1, <2>2 DEF TypeOK
    <3>3. \A k \in Keys : k # key[c] => fd \notin IdleOf(k)
      BY <2>1, <3>1, <3>2 DEF Owned, RightEndpoint
    <3> HIDE DEF fd
    <3>4. [k \in Keys |-> IdleOf(k)'] =
             [[k \in Keys |-> IdleOf(k)] EXCEPT ![key[c]] = @ \ {fd}]
      BY <3>1, <3>2, <3>3
    <3>5. Lease!Reuse(c)
      BY <3>1, <3>2, <3>4 DEF Lease!Reuse
    <3> QED  BY <2>1, <3>5 DEF Lease!Next
  <2>3. ASSUME NEW c \in Calls, SocketOpen(c)  PROVE Lease!Next
    <3>1. PICK fd \in Fds : sock[fd] = Closed /\ held' = [held EXCEPT ![c] = fd]
      BY <2>3 DEF SocketOpen
    <3>2. held[c] = NoFd /\ c \in Reserved  BY <2>1, <2>3 DEF SocketOpen, TypeOK, Reserved
    <3>3. Cardinality(OpenFds) < MaxConnections
      <4>1. Cardinality(OpenFds) + 1 <= curConnCount
        BY <3>2, CountCoversReserved DEF IInv
      <4> QED  BY <4>1, <2>1, Finite, LimitAssumption DEF TypeOK
    <3>4. fd \in Fds \ OpenFds  BY <3>1 DEF OpenFds
    <3>5. \A k \in Keys : IdleOf(k)' = IdleOf(k)
      BY <2>3 DEF SocketOpen, pool, IdleOf
    <3>6. Lease!Open = OpenFds  BY LeaseOpen DEF IInv
    <3>7. Lease!Dial(c)
      <4>1. Cardinality(Lease!Open) < MaxConnections  BY <3>3, <3>6
      <4>2. fd \in Fds \ Lease!Open  BY <3>4, <3>6
      <4>3. [k \in Keys |-> IdleOf(k)'] = [k \in Keys |-> IdleOf(k)]  BY <3>5
      <4>4. \E x \in Fds \ Lease!Open : held' = [held EXCEPT ![c] = x]
        BY <3>1, <4>2
      <4>5. Lease!Cardinality(Lease!Open) < MaxConnections
        BY <4>1 DEF Cardinality, Lease!Cardinality
      <4> QED  BY <3>2, <4>3, <4>4, <4>5 DEF Lease!Dial
    <3> QED  BY <2>1, <3>7 DEF Lease!Next
  <2>4. ASSUME NEW c \in Calls, ConnectFail(c) \/ UseFail(c)  PROVE Lease!Next
    <3>1. held' = [held EXCEPT ![c] = NoFd] /\ held[c] # NoFd /\ connMap' = connMap
      BY <2>1, <2>4 DEF ConnectFail, UseFail, CloseHeld, pool, TypeOK
    <3>2. \A k \in Keys : IdleOf(k)' = IdleOf(k)  BY <3>1 DEF IdleOf
    <3>3. Lease!Discard(c)  BY <3>1, <3>2 DEF Lease!Discard
    <3> QED  BY <2>1, <3>3 DEF Lease!Next
  <2>5. ASSUME NEW c \in Calls, ReleasePush(c)  PROVE Lease!Next
    <3>1. \A k \in Keys : IdleOf(k)' =
              IF k = key[c] THEN IdleOf(k) \cup {held[c]} ELSE IdleOf(k)
      BY <2>1, <2>5, OwnedReleasePush
    <3>2. held' = [held EXCEPT ![c] = NoFd] /\ held[c] # NoFd /\ key[c] \in Keys
      BY <2>1, <2>5 DEF ReleasePush, TypeOK
    <3>3. [k \in Keys |-> IdleOf(k)'] =
             [[k \in Keys |-> IdleOf(k)] EXCEPT ![key[c]] = @ \cup {held[c]}]
      BY <3>1, <3>2
    <3>4. Lease!GiveBack(c)  BY <3>2, <3>3 DEF Lease!GiveBack
    <3> QED  BY <2>1, <3>4 DEF Lease!Next
  <2>6. ASSUME NEW gone, gone \subseteq IdleFds, UNCHANGED held,
               \A k \in Keys : IdleOf(k)' = IdleOf(k) \ gone
        PROVE  Lease!Next
    <3>1. Lease!Idle = IdleFds  BY DEF Lease!Idle, IdleFds
    <3>2. [k \in Keys |-> IdleOf(k)'] = [k \in Keys |-> [l \in Keys |-> IdleOf(l)][k] \ gone]
      BY <2>6
    <3>3. Lease!Reclaim  BY <2>6, <3>1, <3>2 DEF Lease!Reclaim
    <3> QED  BY <2>1, <3>3 DEF Lease!Next
  <2>7. CASE CleanerSweep
    <3>1. \A k \in Keys : IdleOf(k)' = IdleOf(k) \ SweptFds
      BY <2>1, <2>7, OwnedSweep
    <3>2. SweptFds \subseteq IdleFds  BY <2>1, SweptAreOpen DEF Owned
    <3> QED  BY <2>6, <2>7, <3>1, <3>2 DEF CleanerSweep, call
  <2>8. CASE DtorDrain
    <3>1. \A k \in Keys : IdleOf(k)' = IdleOf(k) \ IdleFds
      BY <2>1, <2>8, OwnedDrain
    <3> QED  BY <2>6, <2>8, <3>1 DEF DtorDrain, call
  <2>9. CASE Tick
    BY <2>1, <2>9, OwnedTick, LeaseStutter DEF Tick, call
  <2>10. ASSUME UNCHANGED <<connMap, held>>  PROVE UNCHANGED Lease!vars
    BY <2>1, <2>10, LeaseStutter DEF IdleOf
  <2>11. CASE CleanerCheck \/ DtorStop
    BY <2>10, <2>11 DEF CleanerCheck, DtorStop, pool, call
  <2>12. ASSUME NEW c \in Calls, GetConnection(c) \/ Resume(c)
         PROVE  Lease!Next \/ UNCHANGED Lease!vars
    <3>1. UNCHANGED sock /\ pc[c] \in {"start", "woken"}
      BY <2>12 DEF GetConnection, Resume
    <3>2. CASE TakeIdle(c)  BY <2>2, <3>1, <3>2
    <3>3. CASE ReserveSlot(c) \/ Block(c)
      BY <2>10, <3>3 DEF ReserveSlot, Block, pool
    <3> QED  BY <2>12, <3>2, <3>3 DEF GetConnection, Resume
  <2>13. ASSUME NEW c \in Calls,
                SpuriousWake(c) \/ SocketFail(c) \/ ConnectOk(c) \/ Rollback(c) \/ ReleaseNotify(c)
         PROVE  UNCHANGED Lease!vars
    BY <2>10, <2>13 DEF SpuriousWake, SocketFail, ConnectOk, Rollback, ReleaseNotify, pool
  <2> QED
    BY <1>2, <2>3, <2>4, <2>5, <2>7, <2>8, <2>9, <2>11, <2>12, <2>13
       DEF Next, CallStep, CreateSocket, Connect, Use
<1> QED  BY <1>1, <1>2

(* Seen from its calls, the pool with its lock, counter, condition         *)
(* variable, cleaner and descriptor table is the pool of ConnLease.        *)
THEOREM PoolImplementsLease == Spec => LeaseSpec
<1>1. Init => Lease!Init
  <2> SUFFICES ASSUME Init PROVE Lease!Init
    OBVIOUS
  <2>1. \A k \in Keys : connMap[k] = <<>>  BY DEF Init
  <2>2. \A k \in Keys : IdleOf(k) = {}  BY <2>1 DEF IdleOf
  <2> QED  BY <2>2 DEF Init, Lease!Init
<1> QED  BY <1>1, LeaseNext, Invariance, PTL DEF Spec, LeaseSpec, Lease!Spec

-----------------------------------------------------------------------------
(* The sweep.  A queue is filled at its end with items of age 0 and emptied *)
(* from its front, so that it is ordered by age.                            *)
Falling(q) == \A i, j \in 1 .. Len(q) : i < j => q[j].age <= q[i].age

OldestFirst == \A k \in Keys : Falling(connMap[k])

LEMMA QueueItem ==
    ASSUME NEW q \in Seq(Item)
    PROVE  /\ Len(q) \in Nat /\ DOMAIN q = 1 .. Len(q)
           /\ \A i \in 1 .. Len(q) : q[i] \in Item /\ q[i].age \in 0 .. MaxIdleTime + 1
<1>1. \A it \in Item : it.age \in 0 .. MaxIdleTime + 1
  BY DEF Item, Ages
<1> QED  BY <1>1, LenProperties, ElementOfSeq

LEMMA FallingTail ==
    ASSUME NEW q \in Seq(Item), q # <<>>, Falling(q)
    PROVE  Falling(Tail(q))
<1>1. /\ Len(Tail(q)) = Len(q) - 1 /\ Len(q) \in Nat
      /\ \A i \in 1 .. Len(q) - 1 : Tail(q)[i] = q[i + 1]
  BY HeadTailProperties, LenProperties
<1> SUFFICES ASSUME NEW i \in 1 .. Len(q) - 1, NEW j \in 1 .. Len(q) - 1, i < j
             PROVE  Tail(q)[j].age <= Tail(q)[i].age
  BY <1>1 DEF Falling
<1>2. i + 1 \in 1 .. Len(q) /\ j + 1 \in 1 .. Len(q) /\ i + 1 < j + 1
  BY <1>1
<1> QED  BY <1>1, <1>2 DEF Falling

LEMMA FallingAppend ==
    ASSUME NEW q \in Seq(Item), NEW it \in Item, it.age = 0, Falling(q)
    PROVE  Falling(Append(q, it))
<1>1. /\ Len(Append(q, it)) = Len(q) + 1 /\ Len(q) \in Nat
      /\ \A i \in 1 .. Len(q) : Append(q, it)[i] = q[i]
      /\ Append(q, it)[Len(q) + 1] = it
  BY AppendProperties, LenProperties
<1> SUFFICES ASSUME NEW i \in 1 .. Len(q) + 1, NEW j \in 1 .. Len(q) + 1, i < j
             PROVE  Append(q, it)[j].age <= Append(q, it)[i].age
  BY <1>1 DEF Falling
<1>2. i \in 1 .. Len(q)
  BY <1>1
<1>3. CASE j \in 1 .. Len(q)
  BY <1>1, <1>2, <1>3 DEF Falling
<1>4. CASE j = Len(q) + 1
  <2>1. q[i].age \in 0 .. MaxIdleTime + 1
    BY <1>2, QueueItem
  <2> QED  BY <1>1, <1>2, <1>4, <2>1
<1> QED  BY <1>1, <1>3, <1>4

LEMMA FallingAged ==
    ASSUME NEW q \in Seq(Item), NEW r \in Seq(Item), Falling(q),
           r = [i \in DOMAIN q |->
                  [q[i] EXCEPT !.age = IF @ <= MaxIdleTime THEN @ + 1 ELSE @]]
    PROVE  Falling(r)
<1>1. /\ Len(q) \in Nat /\ DOMAIN q = 1 .. Len(q) /\ Len(r) \in Nat /\ DOMAIN r = 1 .. Len(r)
      /\ \A i \in 1 .. Len(q) : q[i] \in Item /\ q[i].age \in 0 .. MaxIdleTime + 1
  BY QueueItem
<1>2. Len(r) = Len(q)
  <2>1. DOMAIN r = DOMAIN q
    OBVIOUS
  <2> QED  BY <1>1, <2>1
<1>3. \A i \in 1 .. Len(q) :
         r[i].age = IF q[i].age <= MaxIdleTime THEN q[i].age + 1 ELSE q[i].age
  BY <1>1 DEF Item
<1> SUFFICES ASSUME NEW i \in 1 .. Len(q), NEW j \in 1 .. Len(q), i < j
             PROVE  r[j].age <= r[i].age
  BY <1>2 DEF Falling
<1>4. q[j].age <= q[i].age
  BY DEF Falling
<1>5. q[j].age \in Nat /\ q[i].age \in Nat /\ q[i].age <= MaxIdleTime + 1
  BY <1>1, LimitAssumption
<1> QED  BY <1>3, <1>4, <1>5, LimitAssumption, SMTT(30)

LEMMA FallingSwept ==
    ASSUME NEW q \in Seq(Item), Falling(q)
    PROVE  Falling(AfterSweep(q))
<1> DEFINE n == StaleCount(q)
<1>1. n \in 0 .. Len(q) /\ Len(q) \in Nat
  BY StaleCountRange, QueueItem
<1>2. /\ Len(AfterSweep(q)) = Len(q) - n
      /\ \A i \in 1 .. Len(q) - n : AfterSweep(q)[i] = q[i + n]
  BY SweepQueue
<1> HIDE DEF n
<1> SUFFICES ASSUME NEW i \in 1 .. Len(q) - n, NEW j \in 1 .. Len(q) - n, i < j
             PROVE  AfterSweep(q)[j].age <= AfterSweep(q)[i].age
  BY <1>2 DEF Falling
<1>3. i + n \in 1 .. Len(q) /\ j + n \in 1 .. Len(q) /\ i + n < j + n
  BY <1>1
<1> QED  BY <1>2, <1>3 DEF Falling

(* What the inner loop counts: the stale items before the first fresh one. *)
LEMMA StaleCountMeaning ==
    ASSUME NEW q \in Seq(Item)
    PROVE  /\ \A i \in 1 .. StaleCount(q) : Stale(q[i])
           /\ StaleCount(q) < Len(q) => ~Stale(q[StaleCount(q) + 1])
<1> DEFINE fresh == {i \in 1 .. Len(q) : ~Stale(q[i])}
           S     == {n \in 1 .. Len(q) : \A i \in 1 .. n : Stale(q[i])}
<1>0. Len(q) \in Nat
  BY QueueItem
<1>1. CASE fresh = {}
  <2>1. S = 1 .. Len(q)
    BY <1>0, <1>1
  <2>2. StaleCount(q) = Len(q)
    <3>1. Cardinality(1 .. Len(q)) = Len(q)
      BY <1>0, FS_Interval, 1 \in Int, SMTT(30)
    <3> QED  BY <2>1, <3>1 DEF StaleCount
  <2> QED  BY <1>0, <1>1, <2>2
<1>2. CASE fresh # {}
  <2>1. PICK m \in fresh : \A i \in fresh : <<i, m>> \notin OpToRel(<, Nat)
    <3>1. fresh \in SUBSET Nat
      BY <1>0
    <3> HIDE DEF fresh
    <3> QED  BY <1>2, <3>1, NatLessThanWellFounded, WFMin, Zenon
  <2>2. ASSUME NEW i \in 1 .. Len(q), i < m  PROVE Stale(q[i])
    <3>1. i \in Nat /\ m \in Nat /\ <<i, m>> \in OpToRel(<, Nat)
      BY <1>0, <2>2 DEF OpToRel
    <3> QED  BY <2>1, <3>1
  <2>3. m \in 1 .. Len(q) /\ ~Stale(q[m])
    OBVIOUS
  <2>4. S = 1 .. m - 1
    BY <1>0, <2>2, <2>3
  <2>5. StaleCount(q) = m - 1
    <3>1. Cardinality(1 .. m - 1) = m - 1
      BY <1>0, <2>3, FS_Interval, 1 \in Int, m - 1 \in Int
    <3> QED  BY <2>4, <3>1 DEF StaleCount
  <2> QED  BY <1>0, <2>2, <2>3, <2>5
<1> QED  BY <1>1, <1>2

LEMMA NextOldestFirst ==
    ASSUME IInv, OldestFirst, [Next]_vars
    PROVE  OldestFirst'
<1>0. /\ TypeOK /\ TypeOK'
      /\ \A k \in Keys : connMap[k] \in Seq(Item) /\ connMap'[k] \in Seq(Item)
  BY NextInv DEF IInv, TypeOK
<1>1. CASE UNCHANGED connMap
  BY <1>1 DEF OldestFirst
<1>2. ASSUME NEW c \in Calls, TakeIdle(c)  PROVE OldestFirst'
  BY <1>0, <1>2, FallingTail DEF OldestFirst, TakeIdle, Queue, TypeOK
<1>3. ASSUME NEW c \in Calls, ReleasePush(c)  PROVE OldestFirst'
  <2>1. held[c] \in Fds /\ key[c] \in Keys
    BY <1>0, <1>3 DEF TypeOK, ReleasePush
  <2>2. [fd |-> held[c], age |-> 0] \in Item
    BY <2>1, LimitAssumption DEF Item, Ages
  <2> QED  BY <1>0, <1>3, <2>1, <2>2, FallingAppend DEF OldestFirst, ReleasePush, TypeOK
<1>4. CASE Tick
  BY <1>0, <1>4, FallingAged DEF Tick, OldestFirst
<1>5. CASE CleanerSweep
  BY <1>0, <1>5, FallingSwept DEF CleanerSweep, OldestFirst
<1>6. CASE DtorDrain
  BY <1>6 DEF DtorDrain, OldestFirst, Falling
<1> QED
  BY <1>1, <1>2, <1>3, <1>4, <1>5, <1>6
     DEF Next, GetConnection, CallStep, SpuriousWake, Resume, ReserveSlot, Block,
         CreateSocket, SocketOpen, SocketFail, Connect, ConnectOk, ConnectFail, Rollback,
         Use, UseFail, ReleaseNotify, CleanerCheck, DtorStop, pool, vars

(* The cleaner looks no further than the first fresh item of a host, and    *)
(* yet no stale one is left behind by a sweep.                              *)
THEOREM SweepIsThorough == Spec => SweepMissesNothing
<1> DEFINE A == CleanerSweep => \A k \in Keys : \A i \in DOMAIN connMap'[k] :
                   connMap'[k][i].age <= MaxIdleTime
<1>1. ASSUME IInv, OldestFirst, CleanerSweep, NEW k \in Keys, NEW i \in DOMAIN connMap'[k]
      PROVE  connMap'[k][i].age <= MaxIdleTime
  <2> DEFINE q == connMap[k]
             n == StaleCount(q)
  <2>1. q \in Seq(Item) /\ Falling(q) /\ connMap'[k] = AfterSweep(q)
    BY <1>1 DEF IInv, TypeOK, OldestFirst, CleanerSweep
  <2>2. /\ Len(q) \in Nat /\ n \in 0 .. Len(q)
        /\ \A j \in 1 .. Len(q) : q[j].age \in 0 .. MaxIdleTime + 1
        /\ n < Len(q) => ~Stale(q[n + 1])
    BY <2>1, QueueItem, StaleCountRange, StaleCountMeaning
  <2>3. /\ Len(AfterSweep(q)) = Len(q) - n
        /\ DOMAIN AfterSweep(q) = 1 .. Len(AfterSweep(q))
        /\ \A j \in 1 .. Len(q) - n : AfterSweep(q)[j] = q[j + n]
    BY <2>1, SweepQueue, QueueItem
  <2> HIDE DEF n, q
  <2>4. i \in 1 .. Len(q) - n /\ AfterSweep(q)[i] = q[i + n]
    BY <2>1, <2>2, <2>3
  <2>5. i + n \in 1 .. Len(q) /\ n + 1 \in 1 .. Len(q) /\ n + 1 <= i + n /\ n < Len(q)
    BY <2>2, <2>4
  <2>6. q[i + n].age <= q[n + 1].age
    BY <2>1, <2>2, <2>5 DEF Falling
  <2>7. q[n + 1].age <= MaxIdleTime
    BY <2>2, <2>5, LimitAssumption DEF Stale
  <2> QED  BY <2>1, <2>2, <2>4, <2>5, <2>6, <2>7, LimitAssumption
<1>2. IInv /\ OldestFirst /\ [Next]_vars => [A]_vars
  BY <1>1
<1>3. Init => OldestFirst
  BY DEF Init, OldestFirst, Falling
<1>4. Spec => [][A]_vars
  BY <1>2, <1>3, NextOldestFirst, Invariance, PTL DEF Spec
<1> QED  BY <1>4 DEF SweepMissesNothing

-----------------------------------------------------------------------------
(* The wake-ups, for a pool with one host.  A call goes to sleep only when  *)
(* there is nothing to have; whatever gives something back has a wake-up in *)
(* its hands until it has passed it on.                                     *)
OneHost == \A k, l \in Keys : k = l

LEMMA WakeupCounts ==
    ASSUME TypeOK
    PROVE  /\ IdleFds \in SUBSET Fds /\ IsFiniteSet(IdleFds) /\ Cardinality(IdleFds) \in Nat
           /\ IsFiniteSet(Pending) /\ Cardinality(Pending) \in Nat
           /\ curConnCount \in Nat /\ MaxConnections \in Nat
<1>1. IdleFds \in SUBSET Fds
  BY QueueDomain, IdleMember
<1>2. Pending \in SUBSET Calls
  BY DEF Pending
<1>3. curConnCount \in Nat /\ MaxConnections \in Nat
  BY LimitAssumption DEF TypeOK
<1> QED  BY <1>1, <1>2, <1>3, FS_Subset, FS_CardinalityType, CallsAssumption, FdsAssumption

(* A step after which no less is on its way to the waiters than before,     *)
(* reckoned against what there is to have.                                  *)
LEMMA WakeupFrame ==
    ASSUME TypeOK, NoLostWakeup, Waiters' # {} => Waiters # {},
           curConnCount' = curConnCount, IdleFds' = IdleFds, Pending \subseteq Pending',
           IsFiniteSet(Pending')
    PROVE  NoLostWakeup'
<1>1. Cardinality(Pending) <= Cardinality(Pending')
  BY FS_Subset
<1> QED  BY <1>1, WakeupCounts, FS_CardinalityType DEF NoLostWakeup, Available

(* notify_one: c, which had a wake-up to give or not, goes on to done.      *)
LEMMA WakeupGiven ==
    ASSUME TypeOK, NEW c \in Calls, NotifyOneThenDone(c), Waiters' # {},
           pc[c] \in {"notify", "rollback"}
    PROVE  /\ Waiters # {}
           /\ \E w \in Calls \ {c} : w \notin Pending /\ Pending' = (Pending \ {c}) \cup {w}
           /\ Cardinality(Pending') =
                 Cardinality(Pending) + IF pc[c] = "notify" THEN 0 ELSE 1
<1>1. PICK w \in Waiters : pc' = [pc EXCEPT ![c] = "done", ![w] = "woken"]
  <2>1. Waiters = {} /\ pc' = [pc EXCEPT ![c] = "done"] => Waiters' = {}
    BY DEF Waiters, TypeOK
  <2> QED  BY <2>1 DEF NotifyOneThenDone
<1>2. w \in Calls \ {c} /\ w \notin Pending
  BY <1>1 DEF Waiters, Pending
<1>3. Pending' = (Pending \ {c}) \cup {w}
  BY <1>1, <1>2 DEF Pending, TypeOK
<1>4. IsFiniteSet(Pending \ {c}) /\ Cardinality(Pending \ {c}) =
         IF c \in Pending THEN Cardinality(Pending) - 1 ELSE Cardinality(Pending)
  BY WakeupCounts, FS_RemoveElement
<1>5. Cardinality(Pending') = Cardinality(Pending \ {c}) + 1
  BY <1>2, <1>3, <1>4, FS_AddElement
<1>6. c \in Pending <=> pc[c] = "notify"
  BY DEF Pending
<1> QED  BY <1>1, <1>2, <1>3, <1>4, <1>5, <1>6, WakeupCounts

LEMMA NextWakeup ==
    ASSUME OneHost, IInv, IInv', Shutdown, NoLostWakeup, [Next]_vars
    PROVE  NoLostWakeup'
<1>0. TypeOK /\ TypeOK' /\ FdConservation /\ Owned
  BY DEF IInv, Owned
<1>f. IsFiniteSet(Pending') /\ Cardinality(Pending') \in Nat
  <2>1. Pending' \in SUBSET Calls
    BY DEF Pending
  <2> QED  BY <2>1, FS_Subset, FS_CardinalityType, CallsAssumption
<1>1. ASSUME NEW c \in Calls, UNCHANGED <<life, sock>>, pc[c] \in {"start", "woken"},
             TakeIdle(c) \/ ReserveSlot(c) \/ Block(c)
      PROVE  NoLostWakeup'
  <2>1. CASE Block(c)
    <3>1. \A k \in Keys : connMap'[k] = <<>>
      BY <1>0, <2>1 DEF OneHost, Block, Queue, TypeOK, pool
    <3>2. IdleFds' = {}
      BY <3>1 DEF IdleFds, IdleOf
    <3>3. MaxConnections - curConnCount' <= 0
      BY <1>0, <2>1, WakeupCounts DEF Block, pool
    <3> QED
      BY <1>0, <1>f, <2>1, <3>2, <3>3, FS_EmptySet, WakeupCounts
         DEF NoLostWakeup, Available, Block, pool
  <2>2. CASE TakeIdle(c) \/ ReserveSlot(c)
    <3>1. Waiters' = Waiters
      BY <1>0, <1>1, <2>2 DEF TakeIdle, ReserveSlot, Waiters, TypeOK
    <3>2. Pending' = Pending \ {c}
      BY <1>0, <1>1, <2>2 DEF TakeIdle, ReserveSlot, Pending, TypeOK
    <3>3. Cardinality(Pending') >= Cardinality(Pending) - 1
      <4>1. Cardinality(Pending \ {c}) =
               IF c \in Pending THEN Cardinality(Pending) - 1 ELSE Cardinality(Pending)
        BY <1>0, WakeupCounts, FS_RemoveElement
      <4> QED  BY <1>0, <3>2, <4>1, WakeupCounts
    <3>4. Available' = Available - 1
      <4>1. CASE TakeIdle(c)
        <5>1. /\ \A k \in Keys : IdleOf(k)' = IdleOf(k) \ {held'[c]}
              /\ held'[c] \in IdleOf(key[c]) /\ key[c] \in Keys
          BY <1>0, <1>1, <4>1, OwnedTakeIdle DEF TypeOK
        <5>2. IdleFds' = IdleFds \ {held'[c]} /\ held'[c] \in IdleFds
          BY <5>1 DEF IdleFds
        <5>3. Cardinality(IdleFds') = Cardinality(IdleFds) - 1
          BY <1>0, <5>2, WakeupCounts, FS_RemoveElement
        <5> QED  BY <1>0, <4>1, <5>3, WakeupCounts DEF Available, TakeIdle
      <4>2. CASE ReserveSlot(c)
        <5>1. IdleFds' = IdleFds /\ curConnCount' = curConnCount + 1
          BY <4>2, SameQueues DEF ReserveSlot
        <5> QED  BY <1>0, <5>1, WakeupCounts DEF Available
      <4> QED  BY <2>2, <4>1, <4>2
    <3> QED  BY <1>0, <1>f, <3>1, <3>3, <3>4, WakeupCounts DEF NoLostWakeup, Available
  <2> QED  BY <1>1, <2>1, <2>2
<1>2. ASSUME NEW c \in Calls, GetConnection(c) \/ Resume(c)  PROVE NoLostWakeup'
  BY <1>1, <1>2 DEF GetConnection, Resume
<1>3. ASSUME NEW c \in Calls,
             SpuriousWake(c) \/ CreateSocket(c) \/ Connect(c) \/ UseFail(c)
      PROVE  NoLostWakeup'
  <2>1. UNCHANGED pool
    BY <1>3 DEF SpuriousWake, CreateSocket, SocketOpen, SocketFail, Connect, ConnectOk,
                ConnectFail, UseFail
  <2>2. Waiters' \subseteq Waiters /\ Pending \subseteq Pending'
    BY <1>0, <1>3 DEF SpuriousWake, CreateSocket, SocketOpen, SocketFail, Connect, ConnectOk,
                ConnectFail, UseFail, Waiters, Pending, TypeOK
  <2> QED  BY <1>0, <1>f, <2>1, <2>2, SameQueues, WakeupFrame DEF pool
<1>4. ASSUME NEW c \in Calls, ReleasePush(c)  PROVE NoLostWakeup'
  <2>1. /\ held[c] \in Fds /\ held[c] \notin IdleFds /\ key[c] \in Keys
    BY <1>0, <1>4, OwnerFacts DEF ReleasePush, TypeOK
  <2>2. IdleFds' = IdleFds \cup {held[c]}
    BY <1>0, <1>4, <2>1, OwnedReleasePush DEF IdleFds
  <2>3. Cardinality(IdleFds') = Cardinality(IdleFds) + 1
    BY <1>0, <2>1, <2>2, WakeupCounts, FS_AddElement
  <2>4. Waiters' = Waiters /\ Pending' = Pending \cup {c} /\ c \notin Pending
    BY <1>0, <1>4 DEF ReleasePush, Waiters, Pending, TypeOK
  <2>5. Cardinality(Pending') = Cardinality(Pending) + 1
    BY <1>0, <2>4, WakeupCounts, FS_AddElement
  <2>6. curConnCount' = curConnCount
    BY <1>4 DEF ReleasePush
  <2> QED  BY <1>0, <2>3, <2>4, <2>5, <2>6, WakeupCounts DEF NoLostWakeup, Available
<1>5. ASSUME NEW c \in Calls, ReleaseNotify(c)  PROVE NoLostWakeup'
  <2>1. UNCHANGED pool /\ pc[c] = "notify" /\ NotifyOneThenDone(c)
    BY <1>5 DEF ReleaseNotify
  <2>2. CASE Waiters' = {}
    BY <2>2 DEF NoLostWakeup
  <2>3. CASE Waiters' # {}
    <3>1. Waiters # {} /\ Cardinality(Pending') = Cardinality(Pending)
      BY <1>0, <2>1, <2>3, WakeupGiven, WakeupCounts
    <3>2. curConnCount' = curConnCount /\ IdleFds' = IdleFds
      BY <2>1, SameQueues DEF pool
    <3> QED  BY <3>1, <3>2 DEF NoLostWakeup, Available
  <2> QED  BY <2>2, <2>3
<1>6. ASSUME NEW c \in Calls, Rollback(c)  PROVE NoLostWakeup'
  <2>1. /\ UNCHANGED connMap /\ pc[c] = "rollback" /\ NotifyOneThenDone(c)
        /\ curConnCount' = curConnCount - 1
    BY <1>6 DEF Rollback
  <2>2. CASE Waiters' = {}
    BY <2>2 DEF NoLostWakeup
  <2>3. CASE Waiters' # {}
    <3>1. Waiters # {} /\ Cardinality(Pending') = Cardinality(Pending) + 1
      BY <1>0, <2>1, <2>3, WakeupGiven, WakeupCounts
    <3>2. IdleFds' = IdleFds
      BY <2>1, SameQueues
    <3> QED  BY <1>0, <2>1, <3>1, <3>2, WakeupCounts DEF NoLostWakeup, Available
  <2> QED  BY <2>2, <2>3
<1>7. CASE Tick
  <2>1. IdleFds' = IdleFds
    BY <1>0, <1>7, OwnedTick DEF IdleFds
  <2>2. Waiters' = Waiters /\ Pending' = Pending /\ curConnCount' = curConnCount
    BY <1>7 DEF Tick, call, Waiters, Pending
  <2> QED  BY <2>1, <2>2 DEF NoLostWakeup, Available
<1>8. CASE CleanerSweep
  <2>1. IdleFds' = IdleFds \ SweptFds
    BY <1>0, <1>8, OwnedSweep DEF IdleFds
  <2>2. /\ SweptFds \subseteq IdleFds /\ IsFiniteSet(SweptFds)
        /\ Cardinality(SweptFds) \in Nat
    BY <1>0, SweptAreOpen
  <2>3. Cardinality(IdleFds') = Cardinality(IdleFds) - Cardinality(SweptFds)
    <3>1. IdleFds \cap SweptFds = SweptFds
      BY <2>2
    <3>2. Cardinality(IdleFds \ SweptFds) = Cardinality(IdleFds) - Cardinality(IdleFds \cap SweptFds)
      BY <1>0, WakeupCounts, FS_Difference
    <3> QED  BY <2>1, <3>1, <3>2
  <2>4. /\ Waiters' = Waiters /\ Pending' = Pending
        /\ curConnCount' = curConnCount - Cardinality(SweptFds)
    BY <1>8 DEF CleanerSweep, call, Waiters, Pending
  <2> QED  BY <1>0, <2>2, <2>3, <2>4, WakeupCounts DEF NoLostWakeup, Available
<1>9. CASE CleanerCheck \/ DtorStop \/ UNCHANGED vars
  <2>1. UNCHANGED <<pool, call>>
    BY <1>9 DEF CleanerCheck, DtorStop, vars
  <2>2. Waiters' = Waiters /\ Pending' = Pending
    BY <2>1 DEF call, Waiters, Pending
  <2> QED  BY <1>0, <1>f, <2>1, <2>2, SameQueues, WakeupFrame DEF pool
<1>10. CASE DtorDrain
  <2>1. Waiters' = {}
    BY <1>10 DEF DtorDrain, Shutdown, call, Waiters
  <2> QED  BY <2>1 DEF NoLostWakeup
<1> QED
  BY <1>2, <1>3, <1>4, <1>5, <1>6, <1>7, <1>8, <1>9, <1>10 DEF Next, CallStep, Use

(* With one host, the notify_one that comes after the unlock and reaches    *)
(* one waiter only is enough: as long as a call sleeps, as many wake-ups    *)
(* are on their way as there are connections or places to have.             *)
THEOREM WakeupsSuffice ==
    ASSUME OneHost
    PROVE  Spec => []NoLostWakeup
<1>1. Init => Shutdown /\ NoLostWakeup
  BY DEF Init, Shutdown, NoLostWakeup, Waiters
<1>2. IInv /\ IInv' /\ Shutdown /\ NoLostWakeup /\ [Next]_vars => Shutdown' /\ NoLostWakeup'
  BY NextShutdown, NextWakeup
<1> QED  BY <1>1, <1>2, Invariance, PTL DEF Spec
=============================================================================
