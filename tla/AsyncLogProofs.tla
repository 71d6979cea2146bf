--------------------------- MODULE AsyncLogProofs ---------------------------
(* Proofs about AsyncLog, for any number of writers, lines and days and any *)
(* size of the queue.                                                       *)
EXTENDS AsyncLog, SequenceTheorems, FiniteSetTheorems, TLAPS

(* The places where write_log can have left a line. *)
Waiting(line)  == \E i \in 1 .. Len(queue) : queue[i] = line
Queued(line)   == <<line, "queue">> \in written
Straight(line) == <<line, "direct">> \in written

TypeOK ==
    /\ phase \in {"new", "init", "up", "exited", "crashed"}
    /\ open \in BOOLEAN
    /\ queue \in Seq(Lines) /\ Len(queue) <= MaxQueue
    /\ taken \in Lines \cup {NoLine}
    /\ pc \in [Writers -> {"idle", "rotate", "test", "push", "direct"}]
    /\ next \in [Writers -> 1 .. LinesEach + 1]
    /\ \A w \in Writers : pc[w] # "idle" => next[w] <= LinesEach
    /\ failures \in Nat
    /\ written \subseteq Lines \X {"queue", "direct"}
    /\ lost \subseteq Lines

(* What has been logged, and nothing else, has a place. *)
Logged(line) == line[2] < next[line[1]]

Somewhere(line) ==
    Waiting(line) \/ line = taken \/ Queued(line) \/ Straight(line) \/ line \in lost

OnlyLogged == \A line \in Lines : Somewhere(line) <=> Logged(line)

(* The ways that do not pass through the queue exclude it and each other. *)
OneWay ==
    /\ \A line \in Lines :
          Straight(line) => ~Waiting(line) /\ line # taken /\ ~Queued(line)
    /\ \A line \in lost :
          ~Waiting(line) /\ line # taken /\ ~Queued(line) /\ ~Straight(line)

(* Written, then in the thread's hand, then the queue from its front: along *)
(* this way the numbers of one writer's lines grow.                         *)
Before(a, b) == a[1] = b[1] => a[2] < b[2]

InOrder ==
    /\ \A i, j \in 1 .. Len(queue) : i < j => Before(queue[i], queue[j])
    /\ taken # NoLine => \A i \in 1 .. Len(queue) : Before(taken, queue[i])
    /\ \A line \in Lines : Queued(line) =>
          /\ \A i \in 1 .. Len(queue) : Before(line, queue[i])
          /\ taken # NoLine => Before(line, taken)

(* As long as fopen has not failed, only the time before init has opened    *)
(* the file is without one, and then nothing depends on it.                 *)
FileUnlessFailed ==
    failures = 0 =>
        /\ phase # "crashed"
        /\ ~open => /\ phase \in {"new", "init"}
                    /\ queue = <<>> /\ taken = NoLine
                    /\ \A w \in Writers : pc[w] = "idle"

IInv == TypeOK /\ OnlyLogged /\ OneWay /\ InOrder /\ FileUnlessFailed

-----------------------------------------------------------------------------
(* What a step can do to the lines. *)
Next1(w) == next' = [next EXCEPT ![w] = @ + 1]

GivenUp(w) ==
    /\ next[w] <= LinesEach /\ Next1(w)
    /\ lost' = lost \cup {Line(w)}
    /\ UNCHANGED <<queue, taken, written>>

Enqueued(w) ==
    /\ next[w] <= LinesEach /\ Next1(w)
    /\ ~Full
    /\ queue' = Append(queue, Line(w))
    /\ UNCHANGED <<taken, written, lost>>

WrittenStraight(w) ==
    /\ next[w] <= LinesEach /\ Next1(w)
    /\ written' = written \cup {<<Line(w), "direct">>}
    /\ UNCHANGED <<queue, taken, lost>>

Popped ==
    /\ taken = NoLine /\ queue # <<>>
    /\ taken' = Head(queue) /\ queue' = Tail(queue)
    /\ UNCHANGED <<next, written, lost>>

Written ==
    /\ taken # NoLine
    /\ written' = written \cup {<<taken, "queue">>}
    /\ taken' = NoLine
    /\ UNCHANGED <<queue, next, lost>>

NothingMoves == UNCHANGED <<queue, taken, next, written, lost>>

LEMMA Moves ==
    ASSUME TypeOK, [Next]_vars
    PROVE  \/ NothingMoves \/ Popped \/ Written
           \/ \E w \in Writers : GivenUp(w) \/ Enqueued(w) \/ WrittenStraight(w)
<1>1. CASE UNCHANGED vars
  BY <1>1 DEF vars, writers, fate, NothingMoves
<1>2. CASE InitThread \/ InitOpen \/ Exit \/ Midnight \/ PutCrashes
  BY <1>2 DEF InitThread, InitOpen, Exit, Midnight, PutCrashes, Crash, writers, fate, NothingMoves
<1>3. CASE Pop
  BY <1>3 DEF Pop, Popped, writers, fate
<1>4. CASE Put
  BY <1>4 DEF Put, Written, writers
<1>5. ASSUME NEW w \in Writers, RotateCrashes(w) \/ DirectCrashes(w) \/ Rotate(w) \/ TestFull(w)
      PROVE  NothingMoves
  BY <1>5 DEF RotateCrashes, DirectCrashes, Rotate, TestFull, Goto, Crash, writers, fate, NothingMoves
<1>6. ASSUME NEW w \in Writers, Stamp(w)
      PROVE  NothingMoves \/ GivenUp(w)
  BY <1>6 DEF Stamp, Done, NothingMoves, GivenUp, Next1
<1>7. ASSUME NEW w \in Writers, Push(w)
      PROVE  Enqueued(w) \/ GivenUp(w)
  <2>1. next[w] <= LinesEach
    BY <1>7 DEF Push, TypeOK
  <2> QED
    BY <1>7, <2>1 DEF Push, Done, Enqueued, GivenUp, Next1
<1>8. ASSUME NEW w \in Writers, Direct(w)
      PROVE  WrittenStraight(w)
  BY <1>8 DEF Direct, Done, WrittenStraight, Next1, TypeOK
<1> QED
  BY <1>1, <1>2, <1>3, <1>4, <1>5, <1>6, <1>7, <1>8 DEF Next

-----------------------------------------------------------------------------
LEMMA LineIsNew ==
    ASSUME TypeOK, NEW w \in Writers, next[w] <= LinesEach
    PROVE  /\ Line(w) \in Lines /\ Line(w) # NoLine /\ ~Logged(Line(w))
           /\ Line(w)[1] = w /\ Line(w)[2] = next[w]
  BY LogAssumption, NoLineIsNone DEF Line, Lines, TypeOK, Logged

LEMMA AppendParts ==
    ASSUME NEW S, NEW q \in Seq(S), NEW e \in S
    PROVE  /\ Append(q, e) \in Seq(S) /\ Len(Append(q, e)) = Len(q) + 1
           /\ Len(q) \in Nat
           /\ \A i \in 1 .. Len(q) : Append(q, e)[i] = q[i]
           /\ Append(q, e)[Len(q) + 1] = e
  BY AppendProperties, LenProperties

LEMMA TailParts ==
    ASSUME NEW S, NEW q \in Seq(S), q # <<>>
    PROVE  /\ Tail(q) \in Seq(S) /\ Len(Tail(q)) = Len(q) - 1
           /\ Len(q) \in Nat \ {0}
           /\ \A i \in 1 .. Len(q) - 1 : Tail(q)[i] = q[i + 1]
           /\ Head(q) = q[1] /\ Head(q) \in S
  BY HeadTailProperties, EmptySeq, LenProperties

LEMMA FileOpened ==
    ASSUME TypeOK, Open \/ UNCHANGED <<open, failures>>
    PROVE  open' \in BOOLEAN /\ failures' \in Nat
<1>1. failures' = failures \/ failures' = failures + 1
  BY DEF Open
<1>2. failures' \in Nat
  BY <1>1 DEF TypeOK
<1>3. open' = TRUE \/ open' = FALSE \/ open' = open
  BY DEF Open
<1> QED
  BY <1>2, <1>3 DEF TypeOK

LEMMA TypeInv ==
    ASSUME TypeOK, [Next]_vars
    PROVE  TypeOK'
<1> USE DEF TypeOK
<1>1. CASE UNCHANGED vars
  BY <1>1 DEF vars, fileVars, writers, fate
<1>2. CASE InitThread \/ Exit \/ Midnight \/ PutCrashes
  BY <1>2 DEF InitThread, Exit, Midnight, PutCrashes, Crash, fileVars, writers, fate
<1>3. CASE InitOpen
  <2>1. open' \in BOOLEAN /\ failures' \in Nat
    BY <1>3, FileOpened DEF InitOpen
  <2> QED
    BY <1>3, <2>1 DEF InitOpen, writers, fate
<1>4. CASE Pop
  BY <1>4, TailParts, LogAssumption DEF Pop, fileVars, writers, fate
<1>5. CASE Put
  BY <1>5 DEF Put, fileVars, writers
<1>6. ASSUME NEW w \in Writers, RotateCrashes(w) \/ DirectCrashes(w)
      PROVE  TypeOK'
  BY <1>6 DEF RotateCrashes, DirectCrashes, Crash, fileVars, writers, fate
<1>7. ASSUME NEW w \in Writers, Stamp(w)
      PROVE  TypeOK'
  BY <1>7, LineIsNew, LogAssumption DEF Stamp, Done, fileVars
<1>8. ASSUME NEW w \in Writers, Rotate(w)
      PROVE  TypeOK'
  <2>1. open' \in BOOLEAN /\ failures' \in Nat
    BY <1>8, FileOpened DEF Rotate
  <2> QED
    BY <1>8, <2>1 DEF Rotate, fate
<1>9. ASSUME NEW w \in Writers, TestFull(w)
      PROVE  TypeOK'
  BY <1>9 DEF TestFull, Goto, fileVars, fate
<1>10. ASSUME NEW w \in Writers, Push(w)
       PROVE  TypeOK'
  <2>1. Line(w) \in Lines
    BY <1>10, LineIsNew DEF Push
  <2>2. Append(queue, Line(w)) \in Seq(Lines) /\ Len(Append(queue, Line(w))) = Len(queue) + 1
    BY <2>1, AppendParts
  <2>3. Len(queue) \in Nat
    BY LenProperties
  <2>4. /\ queue' \in Seq(Lines) /\ Len(queue') <= MaxQueue /\ lost' \subseteq Lines
    <3>1. queue \in Seq(Lines) /\ Len(queue) <= MaxQueue /\ lost \subseteq Lines /\ MaxQueue \in Nat
      BY LogAssumption
    <3> HIDE DEF TypeOK
    <3>2. CASE Full
      BY <1>10, <2>1, <3>1, <3>2 DEF Push
    <3>3. CASE ~Full
      <4>1. queue' = Append(queue, Line(w)) /\ lost' = lost /\ Len(queue) < MaxQueue
        BY <1>10, <2>3, <3>1, <3>3 DEF Push, Full
      <4> QED
        BY <2>2, <2>3, <3>1, <4>1
    <3> QED
      BY <3>2, <3>3
  <2> QED
    BY <1>10, <2>4, LogAssumption DEF Push, Done, fileVars
<1>11. ASSUME NEW w \in Writers, Direct(w)
       PROVE  TypeOK'
  <2>1. Line(w) \in Lines
    BY <1>11, LineIsNew DEF Direct
  <2> QED
    BY <1>11, <2>1, LogAssumption DEF Direct, Done, fileVars
<1> QED
  BY <1>1, <1>2, <1>3, <1>4, <1>5, <1>6, <1>7, <1>8, <1>9, <1>10, <1>11 DEF Next

LEMMA FileInv ==
    ASSUME TypeOK, FileUnlessFailed, [Next]_vars
    PROVE  FileUnlessFailed'
<1> USE DEF TypeOK, FileUnlessFailed
<1>1. CASE UNCHANGED vars
  BY <1>1 DEF vars, fileVars, writers, fate
<1>2. CASE InitThread \/ Exit \/ Midnight \/ PutCrashes
  BY <1>2 DEF InitThread, Exit, Midnight, PutCrashes, Crash, fileVars, writers, fate
<1>3. CASE InitOpen
  BY <1>3 DEF InitOpen, Open, writers, fate
<1>4. CASE Pop
  BY <1>4 DEF Pop, fileVars, writers, fate
<1>5. CASE Put
  BY <1>5 DEF Put, fileVars, writers
<1>6. ASSUME NEW w \in Writers, RotateCrashes(w) \/ DirectCrashes(w)
      PROVE  FileUnlessFailed'
  BY <1>6 DEF RotateCrashes, DirectCrashes, Crash, fileVars, writers, fate
<1>7. ASSUME NEW w \in Writers, Stamp(w)
      PROVE  FileUnlessFailed'
  BY <1>7 DEF Stamp, Done, fileVars
<1>8. ASSUME NEW w \in Writers, Rotate(w)
      PROVE  FileUnlessFailed'
  BY <1>8 DEF Rotate, Open, fate
<1>9. ASSUME NEW w \in Writers, TestFull(w)
      PROVE  FileUnlessFailed'
  BY <1>9 DEF TestFull, Goto, fileVars, fate
<1>10. ASSUME NEW w \in Writers, Push(w)
       PROVE  FileUnlessFailed'
  BY <1>10 DEF Push, Done, fileVars
<1>11. ASSUME NEW w \in Writers, Direct(w)
       PROVE  FileUnlessFailed'
  BY <1>11 DEF Direct, Done, fileVars
<1> QED
  BY <1>1, <1>2, <1>3, <1>4, <1>5, <1>6, <1>7, <1>8, <1>9, <1>10, <1>11 DEF Next

-----------------------------------------------------------------------------
(* Where the lines are after a step. *)

LEMMA LineParts ==
    ASSUME NEW line \in Lines
    PROVE  /\ line[1] \in Writers /\ line[2] \in 1 .. LinesEach
           /\ line = <<line[1], line[2]>>
  BY DEF Lines

LEMMA QueueParts ==
    ASSUME TypeOK
    PROVE  Len(queue) \in Nat /\ \A i \in 1 .. Len(queue) : queue[i] \in Lines
  BY LenProperties, ElementOfSeq DEF TypeOK

LEMMA LinesInv ==
    ASSUME TypeOK, TypeOK', OnlyLogged, OneWay, InOrder, [Next]_vars
    PROVE  OnlyLogged' /\ OneWay' /\ InOrder'
<1>0. lost \subseteq Lines /\ lost' \subseteq Lines /\ taken \in Lines \cup {NoLine}
  BY DEF TypeOK
<1>1. CASE NothingMoves
  BY <1>1 DEF NothingMoves, OnlyLogged, OneWay, InOrder, Somewhere, Waiting, Queued, Straight,
              Logged
<1>2. ASSUME NEW w \in Writers, GivenUp(w) \/ Enqueued(w) \/ WrittenStraight(w)
      PROVE  OnlyLogged' /\ OneWay' /\ InOrder'
  <2> DEFINE new == Line(w)
  <2>1. /\ new \in Lines /\ new # NoLine /\ new[1] = w /\ new[2] = next[w]
        /\ ~Somewhere(new)
    BY <1>2, LineIsNew DEF GivenUp, Enqueued, WrittenStraight, OnlyLogged
  <2>2. \A line \in Lines : Logged(line)' <=> Logged(line) \/ line = new
    <3>1. /\ next \in [Writers -> 1 .. LinesEach + 1]
          /\ next' = [next EXCEPT ![w] = next[w] + 1]
      BY <1>2 DEF GivenUp, Enqueued, WrittenStraight, Next1, TypeOK
    <3> SUFFICES ASSUME NEW line \in Lines
                 PROVE  Logged(line)' <=> Logged(line) \/ line = new
      OBVIOUS
    <3>2. CASE line[1] # w
      BY <2>1, <3>1, <3>2, LineParts DEF Logged
    <3>3. CASE line[1] = w
      <4>1. /\ next[w] \in Nat /\ line[2] \in Nat /\ next'[line[1]] = next[w] + 1
            /\ line = <<w, line[2]>> /\ new = <<w, next[w]>>
        BY <3>1, <3>3, LineParts, LogAssumption DEF Line
      <4> QED
        BY <3>3, <4>1 DEF Logged
    <3> QED
      BY <3>2, <3>3
  <2>3. \A line \in Lines : Somewhere(line) /\ line[1] = w => line[2] < new[2]
    BY <2>1 DEF OnlyLogged, Logged
  <2> HIDE DEF new
  <2>4. CASE GivenUp(w)
    BY <2>1, <2>2, <2>4 DEF GivenUp, OnlyLogged, OneWay, InOrder, Somewhere, Waiting, Queued,
                            Straight, new
  <2>5. CASE WrittenStraight(w)
    BY <2>1, <2>2, <2>5 DEF WrittenStraight, OnlyLogged, OneWay, InOrder, Somewhere, Waiting,
                            Queued, Straight, new
  <2>6. CASE Enqueued(w)
    <3>1. /\ Len(queue') = Len(queue) + 1 /\ Len(queue) \in Nat
          /\ \A i \in 1 .. Len(queue) : queue'[i] = queue[i] /\ queue[i] \in Lines
          /\ queue'[Len(queue) + 1] = new
      BY <2>1, <2>6, AppendParts, QueueParts DEF Enqueued, TypeOK, new
    <3>2. /\ UNCHANGED <<taken, written, lost>>
          /\ \A line : Queued(line)' = Queued(line) /\ Straight(line)' = Straight(line)
      BY <2>6 DEF Enqueued, Queued, Straight
    <3>3. \A line \in Lines : Waiting(line)' <=> Waiting(line) \/ line = new
      BY <3>1 DEF Waiting
    <3>4. OnlyLogged' /\ OneWay'
      BY <1>0, <2>1, <2>2, <3>2, <3>3 DEF OnlyLogged, OneWay, Somewhere
    <3>5. \A i \in 1 .. Len(queue) : Before(queue[i], new)
      BY <2>1, <2>3, <3>1 DEF Before, Somewhere, Waiting
    <3>6. taken # NoLine => Before(taken, new)
      BY <1>0, <2>1, <2>3 DEF Before, Somewhere
    <3>7. \A line \in Lines : Queued(line) => Before(line, new)
      BY <2>1, <2>3 DEF Before, Somewhere
    <3>8. InOrder'
      BY <3>1, <3>2, <3>5, <3>6, <3>7 DEF InOrder
    <3> QED
      BY <3>4, <3>8
  <2> QED
    BY <1>2, <2>4, <2>5, <2>6
<1>3. CASE Popped
  <2>1. /\ Len(queue') = Len(queue) - 1 /\ Len(queue) \in Nat \ {0}
        /\ \A i \in 1 .. Len(queue) - 1 : queue'[i] = queue[i + 1]
        /\ taken' = queue[1] /\ taken' \in Lines /\ taken' # NoLine
        /\ \A i \in 1 .. Len(queue) : queue[i] \in Lines
    BY <1>3, TailParts, QueueParts, NoLineIsNone DEF Popped, TypeOK
  <2>2. /\ UNCHANGED <<next, written, lost>> /\ taken = NoLine
        /\ \A line : Queued(line)' = Queued(line) /\ Straight(line)' = Straight(line)
                     /\ Logged(line)' = Logged(line)
    BY <1>3 DEF Popped, Queued, Straight, Logged
  <2>3. \A line \in Lines : Waiting(line) <=> Waiting(line)' \/ line = taken'
    <3> SUFFICES ASSUME NEW line \in Lines
                 PROVE  Waiting(line) <=> Waiting(line)' \/ line = taken'
      OBVIOUS
    <3>1. ASSUME Waiting(line) PROVE Waiting(line)' \/ line = taken'
      <4>1. PICK i \in 1 .. Len(queue) : queue[i] = line
        BY <3>1 DEF Waiting
      <4>2. CASE i = 1
        BY <2>1, <4>1, <4>2
      <4>3. CASE i # 1
        <5>1. i - 1 \in 1 .. Len(queue') /\ queue'[i - 1] = line
          BY <2>1, <4>1, <4>3
        <5> QED
          BY <5>1 DEF Waiting
      <4> QED
        BY <4>2, <4>3
    <3>2. ASSUME Waiting(line)' PROVE Waiting(line)
      <4>1. PICK i \in 1 .. Len(queue') : queue'[i] = line
        BY <3>2 DEF Waiting
      <4>2. i + 1 \in 1 .. Len(queue) /\ queue[i + 1] = line
        BY <2>1, <4>1
      <4> QED
        BY <4>2 DEF Waiting
    <3>3. line = taken' => Waiting(line)
      <4>1. 1 \in 1 .. Len(queue)
        BY <2>1
      <4> QED
        BY <2>1, <4>1 DEF Waiting
    <3> QED
      BY <3>1, <3>2, <3>3
  <2>4. OnlyLogged' /\ OneWay'
    BY <1>0, <2>2, <2>3, NoLineIsNone DEF OnlyLogged, OneWay, Somewhere
  <2>5. \A i, j \in 1 .. Len(queue) - 1 : i < j => Before(queue'[i], queue'[j])
    BY <2>1 DEF InOrder
  <2>6. \A i \in 1 .. Len(queue) - 1 : Before(taken', queue'[i])
    BY <2>1 DEF InOrder
  <2>7. \A line \in Lines : Queued(line) =>
           /\ \A i \in 1 .. Len(queue) - 1 : Before(line, queue'[i])
           /\ Before(line, taken')
    BY <2>1 DEF InOrder
  <2>8. InOrder'
    BY <2>1, <2>2, <2>5, <2>6, <2>7 DEF InOrder
  <2> QED
    BY <2>4, <2>8
<1>4. CASE Written
  <2>1. /\ UNCHANGED <<queue, next, lost>> /\ taken' = NoLine
        /\ taken \in Lines /\ NoLine \notin Lines
        /\ \A line : Queued(line)' <=> Queued(line) \/ line = taken
        /\ \A line : /\ Straight(line)' = Straight(line) /\ Waiting(line)' = Waiting(line)
                     /\ Logged(line)' = Logged(line)
    BY <1>4, NoLineIsNone DEF Written, TypeOK, Queued, Straight, Waiting, Logged
  <2>2. OnlyLogged' /\ OneWay'
    BY <1>0, <2>1 DEF OnlyLogged, OneWay, Somewhere
  <2>3. InOrder'
    BY <2>1 DEF InOrder
  <2> QED
    BY <2>2, <2>3
<1> QED
  BY <1>1, <1>2, <1>3, <1>4, Moves

-----------------------------------------------------------------------------
LEMMA InitInv == Init => IInv
<1> SUFFICES ASSUME Init PROVE IInv
  OBVIOUS
<1>1. TypeOK
  <2>1. queue \in Seq(Lines) /\ Len(queue) = 0 /\ 0 <= MaxQueue
    BY LogAssumption, EmptySeq DEF Init
  <2>2. next \in [Writers -> 1 .. LinesEach + 1] /\ \A w \in Writers : pc[w] = "idle"
    BY LogAssumption DEF Init
  <2> QED
    BY <2>1, <2>2 DEF Init, TypeOK
<1>2. \A line : ~Waiting(line)
  BY EmptySeq DEF Init, Waiting
<1>3. \A line \in Lines : ~Somewhere(line) /\ ~Logged(line)
  <2> SUFFICES ASSUME NEW line \in Lines PROVE ~Somewhere(line) /\ ~Logged(line)
    OBVIOUS
  <2>1. ~Somewhere(line)
    BY <1>2, NoLineIsNone DEF Init, Somewhere, Queued, Straight
  <2>2. ~Logged(line)
    BY LineParts, LogAssumption DEF Init, Logged
  <2> QED
    BY <2>1, <2>2
<1>4. OnlyLogged /\ OneWay
  BY <1>3 DEF OnlyLogged, OneWay, Somewhere, Init
<1>5. InOrder
  BY <1>3, EmptySeq DEF InOrder, Init, Somewhere
<1>6. FileUnlessFailed
  BY DEF Init, FileUnlessFailed
<1> QED
  BY <1>1, <1>4, <1>5, <1>6 DEF IInv

LEMMA NextInv == IInv /\ [Next]_vars => IInv'
  BY TypeInv, FileInv, LinesInv DEF IInv

LEMMA AlwaysInv == Spec => []IInv
  BY InitInv, NextInv, PTL DEF Spec

-----------------------------------------------------------------------------
(* The tuple of LineInOnePlace, in the terms of the invariant. *)
LEMMA SamePlaces ==
    ASSUME TypeOK, NEW line
    PROVE  /\ Places(line)[1] <=> Waiting(line)
           /\ Places(line)[2] <=> line = taken
           /\ Places(line)[3] <=> Queued(line)
           /\ Places(line)[4] <=> Straight(line)
           /\ Places(line)[5] <=> line \in lost
<1>1. DOMAIN queue = 1 .. Len(queue)
  BY LenProperties DEF TypeOK
<1>2. line \in ToSet(queue) <=> Waiting(line)
  BY <1>1 DEF ToSet, Waiting
<1> QED
  BY <1>2, Zenon DEF Places, Queued, Straight

LEMMA OnePlace ==
    ASSUME IInv, NEW line \in Lines, Logged(line)
    PROVE  Cardinality({i \in 1 .. 5 : Places(line)[i]}) = 1
<1> DEFINE P == Places(line)
           H == {i \in 1 .. 5 : P[i]}
<1>1. /\ P[1] <=> Waiting(line)
      /\ P[2] <=> line = taken
      /\ P[3] <=> Queued(line)
      /\ P[4] <=> Straight(line)
      /\ P[5] <=> line \in lost
  BY SamePlaces DEF IInv
<1>2. /\ Waiting(line) => line # taken /\ ~Queued(line)
      /\ line = taken => ~Queued(line)
  <2>1. line[2] \in Nat /\ ~Before(line, line)
    BY LineParts, LogAssumption DEF Before
  <2>2. line # NoLine
    BY NoLineIsNone
  <2> QED
    BY <2>1, <2>2 DEF IInv, InOrder, Waiting
<1>3. Somewhere(line)
  BY DEF IInv, OnlyLogged
<1>4. /\ Straight(line) => ~Waiting(line) /\ line # taken /\ ~Queued(line)
      /\ line \in lost => ~Waiting(line) /\ line # taken /\ ~Queued(line) /\ ~Straight(line)
  BY DEF IInv, OneWay
<1> HIDE DEF P
<1>5. \E n \in 1 .. 5 : P[n] /\ \A m \in 1 .. 5 : P[m] => m = n
  <2>1. \A m \in 1 .. 5 : m = 1 \/ m = 2 \/ m = 3 \/ m = 4 \/ m = 5
    OBVIOUS
  <2>2. \E n \in {1, 2, 3, 4, 5} : P[n] /\ \A m \in {1, 2, 3, 4, 5} : P[m] => m = n
    BY <1>1, <1>2, <1>3, <1>4, Zenon DEF Somewhere
  <2> QED
    BY <2>1, <2>2
<1>6. \E n : H = {n}
  BY <1>5
<1> QED
  BY <1>6, FS_Singleton DEF P

(* Every line that write_log is done with is in exactly one place, and the  *)
(* queue keeps to its limit.                                                *)
THEOREM LineInOnePlaceAlways == Spec => []LineInOnePlace
<1>1. ASSUME IInv PROVE LineInOnePlace
  <2>1. Len(queue) <= MaxQueue
    BY <1>1 DEF IInv, TypeOK
  <2>2. ASSUME NEW w \in Writers, NEW n \in 1 .. LinesEach, n < next[w]
        PROVE  Cardinality({i \in 1 .. 5 : Places(<<w, n>>)[i]}) = 1
    <3>1. <<w, n>> \in Lines /\ Logged(<<w, n>>)
      BY <2>2 DEF Lines, Logged
    <3> QED
      BY <1>1, <3>1, OnePlace
  <2> QED
    BY <2>1, <2>2 DEF LineInOnePlace
<1> QED
  BY <1>1, AlwaysInv, PTL

(* The lines of one writer that go through the queue are written in the     *)
(* order in which it logged them, whatever overtakes them directly.         *)
THEOREM QueueKeepsOrderAlways == Spec => QueueKeepsOrder
<1> DEFINE Q == \A line \in Lines :
                   <<line, "queue">> \in written' \ written
                     => \A n \in line[2] + 1 .. LinesEach :
                           <<<<line[1], n>>, "queue">> \notin written
<1>1. ASSUME IInv, [Next]_vars PROVE Q
  <2> SUFFICES ASSUME NEW line \in Lines, <<line, "queue">> \in written',
                      <<line, "queue">> \notin written,
                      NEW n \in line[2] + 1 .. LinesEach,
                      <<<<line[1], n>>, "queue">> \in written
               PROVE  FALSE
    OBVIOUS
  <2>1. line = taken /\ taken # NoLine
    BY <1>1, Moves DEF IInv, NothingMoves, Popped, Written, GivenUp, Enqueued, WrittenStraight
  <2>2. <<line[1], n>> \in Lines
    BY <1>1 DEF IInv, TypeOK
  <2>3. Before(<<line[1], n>>, taken)
    BY <1>1, <2>1, <2>2 DEF IInv, InOrder, Queued
  <2>4. n < line[2] /\ line[2] \in Nat /\ n \in Int /\ n > line[2]
    BY <2>1, <2>3, LineParts, LogAssumption DEF Before
  <2> QED
    BY <2>4
<1>2. ASSUME IInv, [Next]_vars PROVE [Q]_vars
  BY <1>1, <1>2
<1>3. IInv /\ [Next]_vars => [Q]_vars
  BY <1>2
<1>4. Spec => [][Q]_vars
  BY <1>3, AlwaysInv, PTL DEF Spec
<1> QED
  BY <1>4 DEF QueueKeepsOrder

(* Neither the thread that starts before the file is open nor a writer that *)
(* comes before init is done gives a null pointer to fputs or fclose: only  *)
(* after a failed fopen can that happen.                                    *)
THEOREM NullOnlyByFailureAlways == Spec => []NullOnlyByFailure
<1>1. ASSUME IInv PROVE NullOnlyByFailure
  BY <1>1 DEF IInv, TypeOK, FileUnlessFailed, NullOnlyByFailure
<1> QED
  BY <1>1, AlwaysInv, PTL
=============================================================================
