----------------------------- MODULE TimerQueue -----------------------------
(***************************************************************************)
(* What a timer container promises the reactor, whatever it is made of: a  *)
(* tick takes the timers that have run out, earliest first, calls back     *)
(* those that are still alive, and ends when none that has run out is      *)
(* left.  TimerHeap implements it.                                         *)
(***************************************************************************)
EXTENDS Integers

CONSTANTS Timers,   \* addresses of util_timer objects
          Times,    \* what time(NULL) may return
          Idle      \* no tick is running

VARIABLES pending,  \* the timers, each with [expire, live]
          cur,      \* the time of the tick that is running
          called    \* the timer its last step called back, if any

vars == <<pending, cur, called>>

Entries == [expire : Times, live : BOOLEAN]

Added(t, entry) == [u \in DOMAIN pending \cup {t} |-> IF u = t THEN entry ELSE pending[u]]
Without(t) == [u \in DOMAIN pending \ {t} |-> pending[u]]

Init == pending = [t \in {} |-> 0] /\ cur = Idle /\ called = {}

Add(t) ==
    /\ cur = Idle /\ t \notin DOMAIN pending
    /\ \E e \in Entries : pending' = Added(t, e)
    /\ UNCHANGED <<cur, called>>

Cancel(t) ==
    /\ cur = Idle /\ t \in DOMAIN pending
    /\ pending' = [pending EXCEPT ![t].live = FALSE]
    /\ UNCHANGED <<cur, called>>

(* The new timer does what the old one would have done. *)
Renew(t, new) ==
    /\ cur = Idle /\ t \in DOMAIN pending /\ new \notin DOMAIN pending
    /\ \E time \in Times :
          pending' = [Added(new, [expire |-> time, live |-> pending[t].live])
                        EXCEPT ![t].live = FALSE]
    /\ UNCHANGED <<cur, called>>

StartTick ==
    /\ cur = Idle
    /\ cur' \in Times
    /\ UNCHANGED <<pending, called>>

RunOut(t) == t \in DOMAIN pending /\ pending[t].expire <= cur

TakeFirst(t) ==
    /\ cur # Idle /\ RunOut(t)
    /\ \A u \in DOMAIN pending : pending[t].expire <= pending[u].expire
    /\ called' = IF pending[t].live THEN {t} ELSE {}
    /\ pending' = Without(t)
    /\ UNCHANGED cur

EndTick ==
    /\ cur # Idle /\ ~\E t \in Timers : RunOut(t)
    /\ cur' = Idle /\ called' = {}
    /\ UNCHANGED pending

Next ==
    \/ \E t \in Timers : Add(t) \/ Cancel(t) \/ TakeFirst(t)
    \/ \E t, new \in Timers : Renew(t, new)
    \/ StartTick
    \/ EndTick

Spec == Init /\ [][Next]_vars
=============================================================================
