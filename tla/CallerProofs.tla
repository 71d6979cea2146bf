---------------------------- MODULE CallerProofs ----------------------------
(* Proofs about Caller, for any number of workers and calls.                *)
EXTENDS Caller, FiniteSetTheorems, TLAPS

(* completed_count counts the calls that have run done, so that it reaches  *)
(* Total only when all have; workers leave only an empty queue that stays   *)
(* empty, so that one of the others is left for a task.                     *)
Finished == {t \in Calls : call[t] \in {"last", "done"}}

Counted == completed = Cardinality(Finished)

Leaving == {"stop", "wakeall", "join", "done"}

MainKnows == main \in Leaving => completed = Total

StopsLate == stop => main \in {"wakeall", "join", "done"}

ExitedLeaveNothing == (\E w \in Workers : wpc[w] = "exited") => stop /\ tasks = <<>>

(* A task stands at one place of the queue or with one worker until its     *)
(* call is made: a call that has run done is not made again.                *)
InQueue ==
    /\ \A i \in 1 .. Len(tasks) : tasks[i] <= sent /\ call[tasks[i]] = "new"
    /\ \A i, j \in 1 .. Len(tasks) : i # j => tasks[i] # tasks[j]

WithWorker ==
    \A w \in Workers : wpc[w] = "busy" =>
        /\ job[w] <= sent /\ call[job[w]] = "new"
        /\ \A i \in 1 .. Len(tasks) : tasks[i] # job[w]
        /\ \A v \in Workers : v # w /\ wpc[v] = "busy" => job[v] # job[w]

NotSent == \A t \in Calls : t > sent => call[t] = "new"

MadeOnce == InQueue /\ WithWorker /\ NotSent

IInv ==
    /\ TypeOK /\ Counted /\ MadeOnce
    /\ MainKnows /\ StopsLate /\ ExitedLeaveNothing
    /\ NobodySleepsOnWork

-----------------------------------------------------------------------------
LEMMA CallsFinite == IsFiniteSet(Calls) /\ Cardinality(Calls) = Total
  BY CallerAssumption, FS_Interval DEF Calls

LEMMA FinishedBounded ==
    /\ IsFiniteSet(Finished)
    /\ Cardinality(Finished) \in 0 .. Total
    /\ Cardinality(Finished) = Total => Finished = Calls
<1>1. Finished \subseteq Calls
  BY DEF Finished
<1>2. /\ IsFiniteSet(Finished) /\ Cardinality(Finished) <= Cardinality(Calls)
      /\ Cardinality(Calls) = Cardinality(Finished) => Calls = Finished
  BY <1>1, CallsFinite, FS_Subset
<1>3. Cardinality(Finished) \in Nat
  BY <1>2, FS_CardinalityType
<1> QED  BY <1>2, <1>3, CallsFinite, CallerAssumption

LEMMA InitInv == Init => IInv
<1> SUFFICES ASSUME Init PROVE IInv
  OBVIOUS
<1> USE DEF Init, PoolInit
<1>1. TypeOK
  <2>1. tasks \in Seq(Calls)
    OBVIOUS
  <2>2. /\ wpc \in [Workers -> {"ready", "waiting", "busy", "exited"}]
        /\ job \in [Workers -> Calls \cup {NoTask}]
        /\ \A w \in Workers : wpc[w] = "busy" => job[w] \in Calls
    OBVIOUS
  <2>3. call \in [Calls -> {"new", "flying", "last", "done", "dropped"}]
    OBVIOUS
  <2>4. sent \in 0 .. Total /\ completed \in 0 .. Total
    BY CallerAssumption
  <2> QED  BY <2>1, <2>2, <2>3, <2>4 DEF TypeOK
<1>2. Counted
  <2>1. Finished = {}
    BY DEF Finished
  <2> QED  BY <2>1, FS_EmptySet DEF Counted
<1>3. MainKnows /\ StopsLate /\ ExitedLeaveNothing /\ NobodySleepsOnWork
  BY DEF MainKnows, Leaving, StopsLate, ExitedLeaveNothing, NobodySleepsOnWork
<1>4. MadeOnce
  BY DEF MadeOnce, InQueue, WithWorker, NotSent, Calls
<1> QED  BY <1>1, <1>2, <1>3, <1>4 DEF IInv

(* Steps that neither move a task nor make a call. *)
LEMMA MadeOnceKept ==
    ASSUME MadeOnce, TypeOK, UNCHANGED <<tasks, job, sent, call>>,
           \A w \in Workers : wpc'[w] = "busy" => wpc[w] = "busy"
    PROVE  MadeOnce'
<1>1. InQueue' /\ NotSent'
  BY DEF MadeOnce, InQueue, NotSent
<1>2. WithWorker'
  BY DEF MadeOnce, WithWorker
<1> QED  BY <1>1, <1>2 DEF MadeOnce

LEMMA MainStep ==
    ASSUME IInv, Enqueue \/ Notify \/ Test \/ Asleep \/ MainWakes
    PROVE  IInv'
<1> USE CallerAssumption, WorkersAssumption
<1> USE DEF IInv, MainTo
<1>1. CASE Enqueue
  <2>1. TypeOK'
    BY <1>1 DEF Enqueue, Emplace, TypeOK, Calls
  <2>2. Counted'
    BY <1>1 DEF Enqueue, Counted, Finished
  <2>3. MainKnows' /\ StopsLate' /\ ExitedLeaveNothing' /\ NobodySleepsOnWork'
    BY <1>1 DEF Enqueue, Emplace, MainKnows, Leaving, StopsLate, ExitedLeaveNothing,
                NobodySleepsOnWork
  <2>4. MadeOnce'
    <3>1. /\ tasks' = Append(tasks, sent + 1) /\ sent' = sent + 1 /\ sent \in Nat
          /\ sent + 1 \in Calls /\ UNCHANGED <<wpc, job, call>> /\ tasks \in Seq(Calls)
      BY <1>1 DEF Enqueue, Emplace, TypeOK, Calls
    <3>2. /\ Len(tasks') = Len(tasks) + 1 /\ Len(tasks) \in Nat
          /\ \A i \in 1 .. Len(tasks) : tasks'[i] = tasks[i] /\ tasks[i] \in Calls
          /\ tasks'[Len(tasks) + 1] = sent + 1
      BY <3>1
    <3>3. InQueue'
      BY <3>1, <3>2 DEF MadeOnce, InQueue, NotSent, Calls
    <3>4. WithWorker'
      BY <3>1, <3>2 DEF MadeOnce, WithWorker, TypeOK, Calls
    <3>5. NotSent'
      BY <3>1 DEF MadeOnce, NotSent, Calls
    <3> QED  BY <3>3, <3>4, <3>5 DEF MadeOnce
  <2> QED  BY <2>1, <2>2, <2>3, <2>4
<1>2. CASE Notify
  <2>1. TypeOK'
    BY <1>2 DEF Notify, NotifyOne, Waiting, WorkerTo, TypeOK, Calls
  <2>2. Counted'
    BY <1>2 DEF Notify, Counted, Finished
  <2>3. ~stop
    BY <1>2 DEF Notify, StopsLate
  <2>4. MainKnows' /\ StopsLate' /\ ExitedLeaveNothing'
    BY <1>2, <2>3 DEF Notify, NotifyOne, Waiting, WorkerTo, MainKnows, Leaving, StopsLate,
                ExitedLeaveNothing, TypeOK
  <2>5. \E w \in Workers : wpc'[w] \in {"ready", "busy"}
    <3>1. CASE Waiting = {}
      BY <1>2, <2>3, <3>1 DEF Notify, NotifyOne, Waiting, ExitedLeaveNothing, TypeOK
    <3>2. CASE Waiting # {}
      BY <1>2, <3>2 DEF Notify, NotifyOne, Waiting, WorkerTo, TypeOK
    <3> QED  BY <3>1, <3>2
  <2>6. MadeOnce'
    <3>1. \A w \in Workers : wpc'[w] = "busy" => wpc[w] = "busy"
      BY <1>2 DEF Notify, NotifyOne, Waiting, WorkerTo, TypeOK
    <3> QED  BY <1>2, <3>1, MadeOnceKept DEF Notify, NotifyOne
  <2> QED  BY <2>1, <2>2, <2>4, <2>5, <2>6 DEF NobodySleepsOnWork
<1>3. CASE Test \/ Asleep \/ MainWakes
  <2> USE DEF Test, Asleep, MainWakes, pool
  <2>1. TypeOK'
    BY <1>3 DEF TypeOK, Calls
  <2>2. Counted'
    BY <1>3 DEF Counted, Finished
  <2>3. MainKnows' /\ StopsLate' /\ ExitedLeaveNothing' /\ NobodySleepsOnWork'
    BY <1>3 DEF MainKnows, Leaving, StopsLate, ExitedLeaveNothing, NobodySleepsOnWork
  <2>4. MadeOnce'
    BY <1>3, MadeOnceKept
  <2> QED  BY <2>1, <2>2, <2>3, <2>4
<1> QED  BY <1>1, <1>2, <1>3

LEMMA DestroyStep ==
    ASSUME IInv, Destroy
    PROVE  IInv'
<1> USE CallerAssumption, WorkersAssumption
<1> USE DEF IInv, MainTo
<1>1. Counted'
  BY DEF Destroy, Counted, Finished
<1>0. MadeOnce'
  <2>1. UNCHANGED <<tasks, job, sent, call>>
    BY DEF Destroy, SetStop, NotifyAll, pool
  <2>2. \A w \in Workers : wpc'[w] = "busy" => wpc[w] = "busy"
    BY DEF Destroy, SetStop, NotifyAll, pool
  <2> QED  BY <2>1, <2>2, MadeOnceKept
<1>2. CASE main = "stop" /\ SetStop /\ MainTo("wakeall")
           /\ UNCHANGED <<sent, call, completed, missed>>
  <2>1. TypeOK'
    BY <1>2 DEF SetStop, TypeOK, Calls
  <2>2. MainKnows' /\ StopsLate' /\ ExitedLeaveNothing' /\ NobodySleepsOnWork'
    BY <1>2 DEF SetStop, MainKnows, Leaving, StopsLate, ExitedLeaveNothing, NobodySleepsOnWork
  <2> QED  BY <1>0, <1>1, <2>1, <2>2
<1>3. CASE main = "wakeall" /\ NotifyAll /\ MainTo("join")
           /\ UNCHANGED <<sent, call, completed, missed>>
  <2>1. TypeOK'
    BY <1>3 DEF NotifyAll, TypeOK, Calls
  <2>2. MainKnows' /\ StopsLate' /\ ExitedLeaveNothing'
    BY <1>3 DEF NotifyAll, MainKnows, Leaving, StopsLate, ExitedLeaveNothing, TypeOK
  <2>3. NobodySleepsOnWork'
    BY <1>3 DEF NotifyAll, ExitedLeaveNothing, NobodySleepsOnWork, TypeOK
  <2> QED  BY <1>0, <1>1, <2>1, <2>2, <2>3
<1>4. CASE main = "join" /\ Joined /\ MainTo("done")
           /\ UNCHANGED <<pool, sent, call, completed, missed>>
  <2>1. TypeOK'
    BY <1>4 DEF pool, TypeOK, Calls
  <2>2. MainKnows' /\ StopsLate' /\ ExitedLeaveNothing' /\ NobodySleepsOnWork'
    BY <1>4 DEF pool, MainKnows, Leaving, StopsLate, ExitedLeaveNothing, NobodySleepsOnWork
  <2> QED  BY <1>0, <1>1, <2>1, <2>2
<1> QED  BY <1>2, <1>3, <1>4 DEF Destroy

LEMMA WorkerInv ==
    ASSUME IInv, NEW w \in Workers,
           WorkerStep(w) \/ WorkerWakes(w) \/ StartCall(w) \/ DropCall(w)
    PROVE  IInv'
<1> USE CallerAssumption, WorkersAssumption
<1> USE DEF IInv, WorkerTo
<1>1. CASE Take(w) /\ UNCHANGED <<main, sent, call, completed, missed>>
  <2>1. Head(tasks) \in Calls /\ Tail(tasks) \in Seq(Calls)
    BY <1>1 DEF Take, TypeOK
  <2>2. TypeOK'
    BY <1>1, <2>1 DEF Take, TypeOK, Calls
  <2>3. Counted'
    BY <1>1 DEF Counted, Finished
  <2>4. MainKnows' /\ StopsLate'
    BY <1>1 DEF Take, MainKnows, Leaving, StopsLate
  <2>5. ExitedLeaveNothing' /\ NobodySleepsOnWork'
    BY <1>1 DEF Take, ExitedLeaveNothing, NobodySleepsOnWork, TypeOK
  <2>6. MadeOnce'
    <3>1. /\ tasks' = Tail(tasks) /\ job' = [job EXCEPT ![w] = Head(tasks)]
          /\ wpc' = [wpc EXCEPT ![w] = "busy"] /\ UNCHANGED <<sent, call>>
          /\ wpc[w] = "ready" /\ tasks # <<>> /\ tasks \in Seq(Calls)
      BY <1>1 DEF Take, TypeOK
    <3>2. /\ Len(tasks') = Len(tasks) - 1 /\ Len(tasks) \in Nat \ {0}
          /\ Head(tasks) = tasks[1]
          /\ \A i \in 1 .. Len(tasks') : tasks'[i] = tasks[i + 1]
      BY <3>1
    <3>3. InQueue'
      BY <3>1, <3>2 DEF MadeOnce, InQueue
    <3>4. WithWorker'
      BY <3>1, <3>2 DEF MadeOnce, InQueue, WithWorker, TypeOK
    <3>5. NotSent'
      BY <3>1 DEF MadeOnce, NotSent
    <3> QED  BY <3>3, <3>4, <3>5 DEF MadeOnce
  <2> QED  BY <2>2, <2>3, <2>4, <2>5, <2>6
<1>2. CASE (Sleep(w) \/ Leave(w)) /\ UNCHANGED <<main, sent, call, completed, missed>>
  <2>1. TypeOK'
    BY <1>2 DEF Sleep, Leave, TypeOK, Calls
  <2>2. Counted'
    BY <1>2 DEF Counted, Finished
  <2>3. MainKnows' /\ StopsLate'
    BY <1>2 DEF Sleep, Leave, MainKnows, Leaving, StopsLate
  <2>4. ExitedLeaveNothing' /\ NobodySleepsOnWork'
    BY <1>2 DEF Sleep, Leave, ExitedLeaveNothing, NobodySleepsOnWork, TypeOK
  <2>5. MadeOnce'
    BY <1>2, MadeOnceKept DEF Sleep, Leave, TypeOK
  <2> QED  BY <2>1, <2>2, <2>3, <2>4, <2>5
<1>3. CASE WorkerWakes(w)
  <2>1. TypeOK'
    BY <1>3 DEF WorkerWakes, SpuriousWake, TypeOK, Calls
  <2>2. Counted'
    BY <1>3 DEF WorkerWakes, Counted, Finished
  <2>3. MainKnows' /\ StopsLate'
    BY <1>3 DEF WorkerWakes, SpuriousWake, MainKnows, Leaving, StopsLate
  <2>4. ExitedLeaveNothing' /\ NobodySleepsOnWork'
    BY <1>3 DEF WorkerWakes, SpuriousWake, ExitedLeaveNothing, NobodySleepsOnWork, TypeOK
  <2>5. MadeOnce'
    BY <1>3, MadeOnceKept DEF WorkerWakes, SpuriousWake, TypeOK
  <2> QED  BY <2>1, <2>2, <2>3, <2>4, <2>5
<1>4. CASE StartCall(w) \/ DropCall(w)
  <2> DEFINE t == job[w]
  <2>1. /\ t \in Calls /\ wpc[w] = "busy" /\ call[t] = "new" /\ t <= sent
        /\ call' = [call EXCEPT ![t] = call'[t]] /\ call'[t] \in {"flying", "dropped"}
        /\ wpc' = [wpc EXCEPT ![w] = "ready"] /\ job' = [job EXCEPT ![w] = NoTask]
        /\ UNCHANGED <<tasks, stop, main, sent, completed, missed>>
    BY <1>4 DEF StartCall, DropCall, Finish, TypeOK, MadeOnce, WithWorker
  <2> HIDE DEF t
  <2>2. TypeOK'
    BY <2>1 DEF TypeOK, Calls
  <2>3. Counted'
    <3>1. Finished' = Finished
      BY <2>1 DEF Finished, TypeOK
    <3> QED  BY <2>1, <3>1 DEF Counted
  <2>4. MainKnows' /\ StopsLate'
    BY <2>1 DEF MainKnows, Leaving, StopsLate
  <2>5. ExitedLeaveNothing' /\ NobodySleepsOnWork'
    BY <2>1 DEF ExitedLeaveNothing, NobodySleepsOnWork, TypeOK
  <2>6. MadeOnce'
    <3>1. \A i \in 1 .. Len(tasks) : tasks[i] # t /\ tasks[i] \in Calls
      BY <2>1 DEF MadeOnce, WithWorker, TypeOK, t
    <3>2. InQueue'
      BY <2>1, <3>1 DEF MadeOnce, InQueue, TypeOK
    <3>3. WithWorker'
      BY <2>1 DEF MadeOnce, WithWorker, TypeOK, t
    <3>4. NotSent'
      BY <2>1 DEF MadeOnce, NotSent, TypeOK, Calls
    <3> QED  BY <3>2, <3>3, <3>4 DEF MadeOnce
  <2> QED  BY <2>2, <2>3, <2>4, <2>5, <2>6
<1> QED  BY <1>1, <1>2, <1>3, <1>4 DEF WorkerStep

(* What the threads of the calls do: a call that flies or has counted is no *)
(* longer in the queue or with a worker.                                    *)
LEMMA CallInv ==
    ASSUME IInv, NEW t \in Calls, Respond(t) \/ LastNotifies(t)
    PROVE  IInv'
<1> USE CallerAssumption
<1> USE DEF IInv
<1>1. /\ UNCHANGED <<pool, sent>> /\ call[t] \in {"flying", "last"}
      /\ call' = [call EXCEPT ![t] = call'[t]] /\ call'[t] \in {"last", "done"}
  BY DEF Respond, LastNotifies, TypeOK
<1>2. MadeOnce'
  <2>1. InQueue'
    BY <1>1 DEF pool, MadeOnce, InQueue, TypeOK
  <2>2. WithWorker'
    BY <1>1 DEF pool, MadeOnce, WithWorker, TypeOK
  <2>3. NotSent'
    BY <1>1 DEF MadeOnce, NotSent, TypeOK
  <2> QED  BY <2>1, <2>2, <2>3 DEF MadeOnce
<1>3. Counted' /\ completed' \in 0 .. Total /\ (completed = Total => completed' = Total)
  <2>1. CASE Respond(t)
    <3>1. t \notin Finished /\ Finished' = Finished \cup {t}
      BY <2>1, <1>1 DEF Respond, Finished, TypeOK
    <3>2. Cardinality(Finished') = Cardinality(Finished) + 1
      BY <3>1, FinishedBounded, FS_AddElement
    <3>3. Finished # Calls
      BY <3>1
    <3> QED  BY <2>1, <3>2, <3>3, FinishedBounded DEF Respond, Counted
  <2>2. CASE LastNotifies(t)
    <3>1. Finished' = Finished
      BY <2>2, <1>1 DEF LastNotifies, Finished, TypeOK
    <3> QED  BY <2>2, <3>1 DEF LastNotifies, Counted, TypeOK
  <2> QED  BY <2>1, <2>2
<1>4. TypeOK'
  BY <1>1, <1>3 DEF Respond, LastNotifies, MainTo, pool, TypeOK
<1>5. MainKnows' /\ StopsLate' /\ ExitedLeaveNothing' /\ NobodySleepsOnWork'
  <2>1. CASE Respond(t)
    BY <2>1, <1>3 DEF Respond, pool, MainKnows, Leaving, StopsLate, ExitedLeaveNothing,
                      NobodySleepsOnWork
  <2>2. CASE LastNotifies(t)
    BY <2>2, <1>3 DEF LastNotifies, MainTo, pool, MainKnows, Leaving, StopsLate,
                      ExitedLeaveNothing, NobodySleepsOnWork
  <2> QED  BY <2>1, <2>2
<1> QED  BY <1>2, <1>3, <1>4, <1>5

LEMMA Step == IInv /\ [Next]_vars => IInv'
<1> SUFFICES ASSUME IInv, [Next]_vars PROVE IInv'
  OBVIOUS
<1>1. CASE UNCHANGED vars
  BY <1>1 DEF vars, pool, IInv, TypeOK, Counted, Finished, MadeOnce, InQueue, WithWorker,
              NotSent, MainKnows, Leaving, StopsLate, ExitedLeaveNothing, NobodySleepsOnWork
<1> QED  BY <1>1, MainStep, DestroyStep, WorkerInv, CallInv DEF Next

LEMMA CountTells == IInv => ResultsComplete
<1> SUFFICES ASSUME IInv, main \in Leaving PROVE Finished = Calls
  BY DEF ResultsComplete, Leaving, Finished
<1> QED  BY FinishedBounded DEF IInv, MainKnows, Counted

(* Every variable of the caller and its pool keeps its type. *)
THEOREM TypeCorrect == Spec => []TypeOK
<1>1. IInv => TypeOK
  BY DEF IInv
<1> QED  BY InitInv, Step, <1>1, PTL DEF Spec

(* However many workers and tasks, the workers do not all sleep beside a    *)
(* task once its notification is out.                                       *)
THEOREM NoSleepOnWork == Spec => []NobodySleepsOnWork
<1>1. IInv => NobodySleepsOnWork
  BY DEF IInv
<1> QED  BY InitInv, Step, <1>1, PTL DEF Spec

(* However many calls and in whatever order they end, main goes on only     *)
(* when every one has run done.                                             *)
THEOREM CompleteResults == Spec => []ResultsComplete
<1> QED  BY InitInv, Step, CountTells, PTL DEF Spec
=============================================================================
