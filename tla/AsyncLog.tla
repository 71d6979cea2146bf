------------------------------ MODULE AsyncLog ------------------------------
(***************************************************************************)
(* The asynchronous log (src/src/log.cpp, src/src/include/log.h) over its  *)
(* BlockQueue: writers put formatted lines into a bounded queue, one       *)
(* thread writes them to the file; when the queue is full a writer writes  *)
(* itself.  The file is reopened when the day changes and after every      *)
(* SplitLines lines.                                                       *)
(*                                                                         *)
(* A step is a critical section of m_mutex or of the queue, or the reading *)
(* of the clock before them.  The section that formats the line touches    *)
(* nothing but m_buf and is part of the step before it.                    *)
(***************************************************************************)
EXTENDS Integers, Sequences, FiniteSets, SequencesExt

CONSTANTS Writers,
          NoLine,       \* not a line
          LinesEach,    \* bound: lines of each writer
          MaxQueue,     \* m_max_size
          SplitLines,   \* m_split_lines
          MaxDay,       \* bound: days
          MaxFailures   \* bound: how often fopen fails

ASSUME LogAssumption ==
    /\ IsFiniteSet(Writers)
    /\ LinesEach \in Nat /\ MaxDay \in Nat /\ MaxFailures \in Nat
    /\ MaxQueue \in Nat \ {0} /\ SplitLines \in Nat \ {0}

Lines == Writers \X (1 .. LinesEach)
ASSUME NoLineIsNone == NoLine \notin Lines

VARIABLES
    phase,      \* "new", "init" (the thread runs), "up", "exited", "crashed"
    day,        \* of the wall clock
    open,       \* m_fp # NULL
    today,      \* m_today
    count,      \* m_count
    queue,      \* m_log_queue
    taken,      \* the line the writing thread has popped
    pc,         \* each writer: "idle", "rotate", "test", "push", "direct"
    next,       \* the number of its line
    stamp,      \* the day it has read from the clock, until it is used
    written,    \* lines in files, with the way they took: "queue" or "direct"
    lost,       \* lines that found no file or no room
    failures    \* fopen calls that failed

writers == <<pc, next, stamp>>
fate    == <<written, lost>>
fileVars == <<open, today, count, failures>>
vars    == <<phase, day, fileVars, queue, taken, writers, fate>>

Running == phase \notin {"exited", "crashed"}

Init ==
    /\ phase = "new" /\ day = 1
    /\ open = FALSE /\ today = 0 /\ count = 0 /\ failures = 0
    /\ queue = <<>> /\ taken = NoLine
    /\ pc = [w \in Writers |-> "idle"]
    /\ next = [w \in Writers |-> 1]
    /\ stamp = [w \in Writers |-> 0]
    /\ written = {} /\ lost = {}

(* fopen(..., "a"). *)
Open ==
    \/ open' = TRUE /\ UNCHANGED failures
    \/ open' = FALSE /\ failures < MaxFailures /\ failures' = failures + 1

(* A null FILE pointer given to fputs or fclose. *)
Crash ==
    /\ phase' = "crashed"
    /\ UNCHANGED <<day, fileVars, queue, taken, writers, fate>>

-----------------------------------------------------------------------------
(* Log::init starts the writing thread before it opens the file. *)
InitThread ==
    /\ phase = "new"
    /\ phase' = "init"
    /\ UNCHANGED <<day, fileVars, queue, taken, writers, fate>>

InitOpen ==
    /\ phase = "init"
    /\ phase' = "up"
    /\ today' = day
    /\ Open
    /\ UNCHANGED <<day, count, queue, taken, writers, fate>>

(* exit: ~Log closes the file, with whatever is still in the queue. *)
Exit ==
    /\ phase = "up"
    /\ phase' = "exited"
    /\ UNCHANGED <<day, fileVars, queue, taken, writers, fate>>

Midnight ==
    /\ Running /\ day < MaxDay
    /\ day' = day + 1
    /\ UNCHANGED <<phase, fileVars, queue, taken, writers, fate>>

-----------------------------------------------------------------------------
(* Log::write_log.                                                          *)

Line(w) == <<w, next[w]>>

Done(w) ==
    /\ pc' = [pc EXCEPT ![w] = "idle"]
    /\ next' = [next EXCEPT ![w] = @ + 1]
    /\ UNCHANGED stamp

Goto(w, where) == pc' = [pc EXCEPT ![w] = where] /\ UNCHANGED <<next, stamp>>

(* Mutant: without the test of m_fp. *)
StampUnchecked(w) ==
    /\ Running /\ pc[w] = "idle" /\ next[w] <= LinesEach
    /\ pc' = [pc EXCEPT ![w] = "rotate"]
    /\ stamp' = [stamp EXCEPT ![w] = day]
    /\ UNCHANGED <<phase, day, fileVars, queue, taken, next, fate>>

(* Without a file the line is given up; otherwise the clock is read. *)
Stamp(w) ==
    /\ Running /\ pc[w] = "idle" /\ next[w] <= LinesEach
    /\ \/ /\ ~open
          /\ Done(w)
          /\ lost' = lost \cup {Line(w)}
       \/ /\ open
          /\ pc' = [pc EXCEPT ![w] = "rotate"]
          /\ stamp' = [stamp EXCEPT ![w] = day]
          /\ UNCHANGED <<next, lost>>
    /\ UNCHANGED <<phase, day, fileVars, queue, taken, written>>

(* Another day than that of the last line, earlier or later, or enough      *)
(* lines.                                                                   *)
Due(w) == stamp[w] # today \/ (count + 1) % SplitLines = 0

Rotate(w) ==
    /\ Running /\ pc[w] = "rotate"
    /\ open \/ ~Due(w)
    /\ count' = IF stamp[w] # today THEN 0 ELSE count + 1
    /\ today' = stamp[w]
    /\ IF Due(w) THEN Open ELSE UNCHANGED <<open, failures>>
    /\ pc' = [pc EXCEPT ![w] = "test"]
    /\ stamp' = [stamp EXCEPT ![w] = 0]
    /\ UNCHANGED <<phase, day, queue, taken, next, fate>>

RotateCrashes(w) ==
    /\ Running /\ pc[w] = "rotate"
    /\ ~open /\ Due(w)
    /\ Crash

Full == Len(queue) >= MaxQueue

(* full: the answer is used after the queue's lock is released. *)
TestFull(w) ==
    /\ Running /\ pc[w] = "test"
    /\ Goto(w, IF Full THEN "direct" ELSE "push")
    /\ UNCHANGED <<phase, day, fileVars, queue, taken, fate>>

(* Mutant: in front of what is waiting. *)
PushFront(w) ==
    /\ Running /\ pc[w] = "push"
    /\ IF Full
       THEN lost' = lost \cup {Line(w)} /\ UNCHANGED queue
       ELSE queue' = <<Line(w)>> \o queue /\ UNCHANGED lost
    /\ Done(w)
    /\ UNCHANGED <<phase, day, fileVars, taken, written>>

(* Mutant: a line that is refused has gone unnoticed. *)
PushUnlessFull(w) ==
    /\ Running /\ pc[w] = "push"
    /\ queue' = IF Full THEN queue ELSE Append(queue, Line(w))
    /\ Done(w)
    /\ UNCHANGED <<phase, day, fileVars, taken, fate>>

(* push: refused if the queue has filled up since; nobody looks at the      *)
(* answer.                                                                  *)
Push(w) ==
    /\ Running /\ pc[w] = "push"
    /\ IF Full
       THEN lost' = lost \cup {Line(w)} /\ UNCHANGED queue
       ELSE queue' = Append(queue, Line(w)) /\ UNCHANGED lost
    /\ Done(w)
    /\ UNCHANGED <<phase, day, fileVars, taken, written>>

(* fputs under m_mutex. *)
Direct(w) ==
    /\ Running /\ pc[w] = "direct" /\ open
    /\ written' = written \cup {<<Line(w), "direct">>}
    /\ Done(w)
    /\ UNCHANGED <<phase, day, fileVars, queue, taken, lost>>

DirectCrashes(w) ==
    /\ Running /\ pc[w] = "direct" /\ ~open
    /\ Crash

-----------------------------------------------------------------------------
(* Log::async_write_log, in the thread init has started.                    *)

(* Mutant: only a refused push wakes the thread. *)
PopWhenFull ==
    /\ Running /\ phase # "new"
    /\ taken = NoLine /\ Full
    /\ taken' = Head(queue) /\ queue' = Tail(queue)
    /\ UNCHANGED <<phase, day, fileVars, writers, fate>>

Pop ==
    /\ Running /\ phase # "new"
    /\ taken = NoLine /\ queue # <<>>
    /\ taken' = Head(queue) /\ queue' = Tail(queue)
    /\ UNCHANGED <<phase, day, fileVars, writers, fate>>

Put ==
    /\ Running /\ taken # NoLine /\ open
    /\ written' = written \cup {<<taken, "queue">>}
    /\ taken' = NoLine
    /\ UNCHANGED <<phase, day, fileVars, queue, writers, lost>>

PutCrashes ==
    /\ Running /\ taken # NoLine /\ ~open
    /\ Crash

Next ==
    \/ InitThread \/ InitOpen \/ Exit \/ Midnight
    \/ \E w \in Writers :
        \/ Stamp(w) \/ Rotate(w) \/ RotateCrashes(w) \/ TestFull(w)
        \/ Push(w) \/ Direct(w) \/ DirectCrashes(w)
    \/ Pop \/ Put \/ PutCrashes

(* The writing thread runs.  Nothing is asked of the writers. *)
Spec == Init /\ [][Next]_vars /\ WF_vars(Pop) /\ WF_vars(Put \/ PutCrashes)

-----------------------------------------------------------------------------
Places(line) ==
    <<line \in ToSet(queue), line = taken, <<line, "queue">> \in written,
      <<line, "direct">> \in written, line \in lost>>

(* Every line that write_log is done with is in exactly one place: waiting, *)
(* in the writing thread's hand, in a file once, or lost for want of room   *)
(* or of a file; and the queue keeps to its limit.                          *)
LineInOnePlace ==
    /\ Len(queue) <= MaxQueue
    /\ \A w \in Writers, n \in 1 .. LinesEach :
          n < next[w] => Cardinality({i \in 1 .. 5 : Places(<<w, n>>)[i]}) = 1

(* Full and push are two sections, and direct writing overtakes; yet the    *)
(* lines of one writer that went through the queue are written in the order *)
(* in which it logged them.                                                 *)
QueueKeepsOrder ==
    [][\A line \in Lines :
          <<line, "queue">> \in written' \ written
            => \A n \in line[2] + 1 .. LinesEach : <<<<line[1], n>>, "queue">> \notin written]_vars

(* The thread that starts before the file is open, and writers that come    *)
(* before init is done, do no harm: only a failed fopen leads to a null     *)
(* pointer in fputs or fclose.                                              *)
NullOnlyByFailure == phase = "crashed" => failures > 0

(* A line in the queue is written, unless the process ends first.           *)
QueuedGetsWritten ==
    \A line \in Lines :
        line \in ToSet(queue) ~> (<<line, "queue">> \in written \/ ~Running)
=============================================================================
