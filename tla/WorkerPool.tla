----------------------------- MODULE WorkerPool -----------------------------
(***************************************************************************)
(* The thread pool of src/src/include/ThreadPool.h: a queue of tasks, a    *)
(* mutex and a condition variable.  This module has the pool's own steps;  *)
(* Caller composes them with those who use it.                             *)
(***************************************************************************)
EXTENDS Integers, Sequences

CONSTANTS Workers,
          NoTask       \* not a task

ASSUME WorkersAssumption == Workers # {}

VARIABLES tasks,   \* the queue
          stop,
          wpc,     \* each worker: "ready" (to lock and look), "waiting" in the
                   \* condition variable, "busy" with its task, "exited"
          job      \* the task of a busy worker

pool == <<tasks, stop, wpc, job>>

PoolInit ==
    /\ tasks = <<>> /\ stop = FALSE
    /\ wpc = [w \in Workers |-> "ready"]
    /\ job = [w \in Workers |-> NoTask]

WorkerTo(w, where) == wpc' = [wpc EXCEPT ![w] = where]
Waiting == {w \in Workers : wpc[w] = "waiting"}

(* enqueue, the section.  It throws when the pool is stopped. *)
Emplace(t) ==
    /\ ~stop
    /\ tasks' = Append(tasks, t)
    /\ UNCHANGED <<stop, wpc, job>>

(* notify_one, after the section. *)
NotifyOne ==
    /\ IF Waiting = {} THEN UNCHANGED wpc ELSE \E w \in Waiting : WorkerTo(w, "ready")
    /\ UNCHANGED <<tasks, stop, job>>

(* A worker has the lock and looks: there is a task, *)
Take(w) ==
    /\ wpc[w] = "ready" /\ tasks # <<>>
    /\ job' = [job EXCEPT ![w] = Head(tasks)]
    /\ tasks' = Tail(tasks)
    /\ WorkerTo(w, "busy")
    /\ UNCHANGED stop

(* Mutant: sleeps whatever there is, when it has been woken for nothing. *)
SleepAlways(w) ==
    /\ wpc[w] = "ready" /\ ~stop
    /\ WorkerTo(w, "waiting")
    /\ UNCHANGED <<tasks, stop, job>>

(* none, *)
Sleep(w) ==
    /\ wpc[w] = "ready" /\ tasks = <<>> /\ ~stop
    /\ WorkerTo(w, "waiting")
    /\ UNCHANGED <<tasks, stop, job>>

(* or none and never again. *)
Leave(w) ==
    /\ wpc[w] = "ready" /\ tasks = <<>> /\ stop
    /\ WorkerTo(w, "exited")
    /\ UNCHANGED <<tasks, stop, job>>

Finish(w) ==
    /\ WorkerTo(w, "ready")
    /\ job' = [job EXCEPT ![w] = NoTask]
    /\ UNCHANGED <<tasks, stop>>

SpuriousWake(w) ==
    /\ wpc[w] = "waiting"
    /\ WorkerTo(w, "ready")
    /\ UNCHANGED <<tasks, stop, job>>

(* ~ThreadPool: the section, notify_all, join. *)
SetStop ==
    /\ stop' = TRUE
    /\ UNCHANGED <<tasks, wpc, job>>

NotifyAll ==
    /\ wpc' = [w \in Workers |-> IF wpc[w] = "waiting" THEN "ready" ELSE wpc[w]]
    /\ UNCHANGED <<tasks, stop, job>>

Joined == \A w \in Workers : wpc[w] = "exited"
=============================================================================
