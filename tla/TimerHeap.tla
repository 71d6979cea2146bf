------------------------------ MODULE TimerHeap ------------------------------
(***************************************************************************)
(* The array heap of src/src/include/lst_timer.h, with its percolations    *)
(* and its growth.  One thread uses it.  Expiry times come from the wall   *)
(* clock, which may be set back: a new timer may run out before those that *)
(* are in the heap.                                                        *)
(*                                                                         *)
(* The slots from cur_size on are left out.  A read there is an error of   *)
(* the model, whatever stale pointer the code would find.                  *)
(***************************************************************************)
EXTENDS Integers, FiniteSets, Functions

CONSTANTS Timers,           \* addresses of util_timer objects
          Times,            \* what time(NULL) may return
          Idle,             \* no tick is running
          InitialCapacity   \* the constructor's capacity

ASSUME HeapAssumption ==
    /\ Times \subseteq Int /\ Idle \notin Times
    /\ InitialCapacity \in Nat \ {0}

VARIABLES array,      \* array[0 .. cur_size - 1]
          capacity,
          timer,      \* the objects that exist: [expire, live]; live: cb_func # NULL
          cur,        \* the time tick has read
          called      \* the timer its last step called back, if any

vars == <<array, capacity, timer, cur, called>>

curSize == Cardinality(DOMAIN array)
Allocated == DOMAIN timer

Init ==
    /\ array = [i \in {} |-> 0]
    /\ capacity = InitialCapacity
    /\ timer = [t \in {} |-> 0]
    /\ cur = Idle /\ called = {}

Parent(i) == (i - 1) \div 2

(* The array after the hole has risen, from each place where it may start:  *)
(* it stops below the first parent that runs out no later than t, and every *)
(* parent on its way has come down by one.                                  *)
PercolateUp(a, objects, t) ==
    LET up[hole \in DOMAIN a] ==
          IF hole = 0 \/ objects[a[Parent(hole)]].expire <= objects[t].expire
          THEN [a EXCEPT ![hole] = t]
          ELSE [up[Parent(hole)] EXCEPT ![hole] = a[Parent(hole)]]
    IN  up

(* Mutant: the left child only. *)
LeftChild(a, hole) == 2 * hole + 1

(* The child that runs out first.  The right one is looked at only if it    *)
(* is not behind the last element.                                          *)
FirstChild(a, hole) ==
    LET left == 2 * hole + 1
    IN  IF left < Cardinality(DOMAIN a) - 1
           /\ timer[a[left + 1]].expire < timer[a[left]].expire
        THEN left + 1 ELSE left

(* The array after the hole has sunk, from each place: while a child runs   *)
(* out before t, it goes up by one.                                         *)
PercolateDown(a, t) ==
    LET down[hole \in DOMAIN a] ==
          LET child == FirstChild(a, hole)
          IN  IF 2 * hole + 1 >= Cardinality(DOMAIN a)
                 \/ timer[a[child]].expire >= timer[t].expire
              THEN [a EXCEPT ![hole] = t]
              ELSE [down[child] EXCEPT ![hole] = a[child]]
    IN  down

(* resize: twice as large, with the same contents. *)
Grown == 2 * capacity

(* The new timer comes behind the others. *)
Extended(t) == [i \in 0 .. curSize |-> IF i = curSize THEN t ELSE array[i]]

(* Mutant: grown one timer too late. *)
InsertGrowsLate(t, objects) ==
    /\ capacity' = IF curSize > capacity THEN Grown ELSE capacity
    /\ array' = PercolateUp(Extended(t), objects, t)[curSize]
    /\ timer' = objects

(* add_timer, with resize when the array is full. *)
Insert(t, objects) ==
    /\ capacity' = IF curSize >= capacity THEN Grown ELSE capacity
    /\ array' = PercolateUp(Extended(t), objects, t)[curSize]
    /\ timer' = objects

With(t, object) == [u \in Allocated \cup {t} |-> IF u = t THEN object ELSE timer[u]]

(* A new connection. *)
AddTimer(t) ==
    /\ cur = Idle /\ t \notin Allocated
    /\ \E time \in Times : Insert(t, With(t, [expire |-> time, live |-> TRUE]))
    /\ UNCHANGED <<cur, called>>

(* A connection that has hung up.  The object stays where it is. *)
DelTimer(t) ==
    /\ cur = Idle /\ t \in Allocated
    /\ timer' = [timer EXCEPT ![t].live = FALSE]
    /\ UNCHANGED <<array, capacity, cur, called>>

(* A connection that was active: its timer is cleared and a new one takes  *)
(* its callback.                                                           *)
AdjustTimer(t, new) ==
    /\ cur = Idle /\ t \in Allocated /\ new \notin Allocated
    /\ \E time \in Times :
          Insert(new, [With(new, [expire |-> time, live |-> timer[t].live])
                         EXCEPT ![t].live = FALSE])
    /\ UNCHANGED <<cur, called>>

(* pop_timer: the object is freed, and the last element sinks from the top. *)
Pop ==
    LET last == curSize - 1
        rest == [i \in 0 .. last - 1 |-> IF i = 0 THEN array[last] ELSE array[i]]
    IN  /\ array' = IF last = 0 THEN rest ELSE PercolateDown(rest, rest[0])[0]
        /\ timer' = [t \in Allocated \ {array[0]} |-> timer[t]]

(* tick reads the clock once. *)
TickStarts ==
    /\ cur = Idle
    /\ cur' \in Times
    /\ UNCHANGED <<array, capacity, timer, called>>

(* Mutant: cleared timers are called back too. *)
TickOneAll ==
    /\ cur # Idle /\ curSize > 0
    /\ timer[array[0]].expire <= cur
    /\ called' = {array[0]}
    /\ Pop
    /\ UNCHANGED <<capacity, cur>>

(* The top has run out: call it back if it is alive, and pop it. *)
TickOne ==
    /\ cur # Idle /\ curSize > 0
    /\ timer[array[0]].expire <= cur
    /\ called' = IF timer[array[0]].live THEN {array[0]} ELSE {}
    /\ Pop
    /\ UNCHANGED <<capacity, cur>>

TickEnds ==
    /\ cur # Idle
    /\ curSize > 0 => timer[array[0]].expire > cur
    /\ cur' = Idle /\ called' = {}
    /\ UNCHANGED <<array, capacity, timer>>

Next ==
    \/ \E t \in Timers : AddTimer(t) \/ DelTimer(t)
    \/ \E t, new \in Timers : AdjustTimer(t, new)
    \/ TickStarts
    \/ TickOne
    \/ TickEnds

Spec == Init /\ [][Next]_vars

-----------------------------------------------------------------------------
(* Every object that exists is in the array exactly once, and nothing else *)
(* is: the lazy deletion neither leaks an object nor leaves a pointer to a *)
(* freed one, and neither percolation nor growth loses or repeats one.     *)
HoldsEachOnce ==
    /\ array \in Bijection(0 .. curSize - 1, Allocated)
    /\ curSize <= capacity

(* No timer runs out before its parent, which is what lets tick stop at    *)
(* the first top that has not run out.                                     *)
HeapOrdered ==
    \A i \in 1 .. curSize - 1 :
        timer[array[Parent(i)]].expire <= timer[array[i]].expire

(* Seen from outside, the heap is a set of timers from which tick takes    *)
(* those that have run out, earliest first and each once, calls back the   *)
(* live ones, and leaves none that has run out.                            *)
Queue == INSTANCE TimerQueue WITH pending <- timer
ImplementsQueue == Queue!Spec
=============================================================================
