------------------------------- MODULE Caller -------------------------------
(***************************************************************************)
(* The asynchronous caller (src/example/caller/calluserservice.cc): main   *)
(* gives its requests to the workers of a pool and waits for the last      *)
(* response; a worker runs CallMethod (src/src/mprpcchannel.cc), which     *)
(* starts a detached thread or returns early; that thread runs done.       *)
(*                                                                         *)
(* main tests its predicate under a mutex that whoever notifies does not   *)
(* take: test and sleep are two steps.                                     *)
(***************************************************************************)
EXTENDS WorkerPool, FiniteSets, SequencesExt

CONSTANTS Total   \* total_requests

ASSUME CallerAssumption == Total \in Nat \ {0} /\ NoTask \notin 1 .. Total

VARIABLES
    main,       \* "enqueue", "notify", "test", "gap", "asleep", "stop",
                \* "wakeall", "join", "done"
    sent,       \* tasks enqueued
    call,       \* each call: "new", "flying" (its thread runs), "last" (has
                \* counted and will notify), "done", "dropped" (early return)
    completed,  \* completed_count
    missed      \* history: the notification came between test and sleep

vars == <<pool, main, sent, call, completed, missed>>

Calls == 1 .. Total

Init ==
    /\ PoolInit
    /\ main = "enqueue" /\ sent = 0
    /\ call = [t \in Calls |-> "new"]
    /\ completed = 0 /\ missed = FALSE

MainTo(where) == main' = where

-----------------------------------------------------------------------------
Enqueue ==
    /\ main = "enqueue" /\ sent < Total
    /\ Emplace(sent + 1)
    /\ sent' = sent + 1
    /\ MainTo("notify")
    /\ UNCHANGED <<call, completed, missed>>

Notify ==
    /\ main = "notify"
    /\ NotifyOne
    /\ MainTo(IF sent < Total THEN "enqueue" ELSE "test")
    /\ UNCHANGED <<sent, call, completed, missed>>

(* The predicate of cv.wait. *)
Test ==
    /\ main = "test"
    /\ MainTo(IF completed = Total THEN "stop" ELSE "gap")
    /\ UNCHANGED <<pool, sent, call, completed, missed>>

Asleep ==
    /\ main = "gap"
    /\ MainTo("asleep")
    /\ UNCHANGED <<pool, sent, call, completed, missed>>

(* Mutant: a wait without predicate, any wake-up ends it. *)
MainWakesForGood ==
    /\ main = "asleep"
    /\ MainTo("stop")
    /\ UNCHANGED <<pool, sent, call, completed, missed>>

(* Spuriously; LastNotifies is the other way. *)
MainWakes ==
    /\ main = "asleep"
    /\ MainTo("test")
    /\ UNCHANGED <<pool, sent, call, completed, missed>>

(* main returns: the pool is destroyed. *)
Destroy ==
    \/ /\ main = "stop" /\ SetStop /\ MainTo("wakeall")
       /\ UNCHANGED <<sent, call, completed, missed>>
    \/ /\ main = "wakeall" /\ NotifyAll /\ MainTo("join")
       /\ UNCHANGED <<sent, call, completed, missed>>
    \/ /\ main = "join" /\ Joined /\ MainTo("done")
       /\ UNCHANGED <<pool, sent, call, completed, missed>>

-----------------------------------------------------------------------------
WorkerStep(w) ==
    /\ Take(w) \/ Sleep(w) \/ Leave(w)
    /\ UNCHANGED <<main, sent, call, completed, missed>>

WorkerWakes(w) ==
    /\ SpuriousWake(w)
    /\ UNCHANGED <<main, sent, call, completed, missed>>

(* CallMethod starts the thread of rpc_task and detaches it, *)
StartCall(w) ==
    /\ wpc[w] = "busy"
    /\ call' = [call EXCEPT ![job[w]] = "flying"]
    /\ Finish(w)
    /\ UNCHANGED <<main, sent, completed, missed>>

(* or returns early and never runs done: it cannot serialize, finds no      *)
(* provider, cannot fetch the list, or has no valid address.                *)
DropCall(w) ==
    /\ wpc[w] = "busy"
    /\ call' = [call EXCEPT ![job[w]] = "dropped"]
    /\ Finish(w)
    /\ UNCHANGED <<main, sent, completed, missed>>

(* Mutant: the last one does not notice that it is. *)
RespondNotLast(t) ==
    /\ call[t] = "flying"
    /\ completed' = completed + 1
    /\ call' = [call EXCEPT ![t] = "done"]
    /\ UNCHANGED <<pool, main, sent, missed>>

(* rpc_task ends, however it ends, by running done. *)
Respond(t) ==
    /\ call[t] = "flying"
    /\ completed' = completed + 1
    /\ call' = [call EXCEPT ![t] = IF completed + 1 = Total THEN "last" ELSE "done"]
    /\ UNCHANGED <<pool, main, sent, missed>>

(* cv.notify_one.  Wakes main if it is asleep. *)
LastNotifies(t) ==
    /\ call[t] = "last"
    /\ call' = [call EXCEPT ![t] = "done"]
    /\ MainTo(IF main = "asleep" THEN "test" ELSE main)
    /\ missed' = (missed \/ main = "gap")
    /\ UNCHANGED <<pool, sent, completed>>

Next ==
    \/ Enqueue \/ Notify \/ Test \/ Asleep \/ MainWakes \/ Destroy
    \/ \E w \in Workers : WorkerStep(w) \/ WorkerWakes(w) \/ StartCall(w) \/ DropCall(w)
    \/ \E t \in Calls : Respond(t) \/ LastNotifies(t)

Spec == Init /\ [][Next]_vars

(* Threads run and rpc_task ends; nothing wakes main but a notification. *)
Fairness ==
    /\ WF_vars(Enqueue \/ Notify \/ Test \/ Asleep \/ Destroy)
    /\ \A w \in Workers : WF_vars(WorkerStep(w)) /\ WF_vars(StartCall(w) \/ DropCall(w))
    /\ \A t \in Calls : WF_vars(Respond(t)) /\ WF_vars(LastNotifies(t))

FairSpec == Spec /\ Fairness

-----------------------------------------------------------------------------
TypeOK ==
    /\ tasks \in Seq(Calls) /\ stop \in BOOLEAN
    /\ wpc \in [Workers -> {"ready", "waiting", "busy", "exited"}]
    /\ job \in [Workers -> Calls \cup {NoTask}]
    /\ \A w \in Workers : wpc[w] = "busy" => job[w] \in Calls
    /\ main \in {"enqueue", "notify", "test", "gap", "asleep", "stop", "wakeall", "join", "done"}
    /\ sent \in 0 .. Total
    /\ call \in [Calls -> {"new", "flying", "last", "done", "dropped"}]
    /\ completed \in 0 .. Total
    /\ missed \in BOOLEAN

(* Workers are notified one at a time and after the lock is released: still *)
(* not all of them sleep beside a task, unless a notification is under way. *)
NobodySleepsOnWork ==
    tasks # <<>> => main \in {"notify", "wakeall"} \/ \E w \in Workers : wpc[w] \in {"ready", "busy"}

(* Whatever wakes main, it takes the results only when every call has run   *)
(* done.                                                                    *)
ResultsComplete ==
    main \in {"stop", "wakeall", "join", "done"}
        => \A t \in Calls : call[t] \in {"last", "done"}

(* main returns, unless CallMethod has dropped a call or the notification   *)
(* came between main's test and its sleep.                                  *)
MainReturns ==
    <>(main = "done" \/ missed \/ \E t \in Calls : call[t] = "dropped")
=============================================================================
