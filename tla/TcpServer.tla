----------------------------- MODULE TcpServer -----------------------------
(***************************************************************************)
(* The provider's reactor (src/src/tcpserver.cc): one thread that waits    *)
(* in epoll, handles a batch of events, and at every heartbeat closes the  *)
(* connections whose timer has run out (src/src/include/lst_timer.h).      *)
(*                                                                         *)
(* Beside it act the peers, the clock with its SIGALRM, and the other      *)
(* threads of the process (log, ZooKeeper client), which take their        *)
(* descriptors from the same table.  The reactor reads readiness when      *)
(* epoll_wait returns and acts on it later; peers do not wait for it.      *)
(***************************************************************************)
EXTENDS Integers, FiniteSets, FiniteSetsExt

CONSTANTS Fds,           \* descriptors
          NoFd,          \* not a descriptor
          Timers,        \* addresses of util_timer objects, 1 .. n
          TIMESLOT,      \* period of the heartbeat, in clock ticks
          OtherThreads   \* do other threads open and close files?

ASSUME ReactorAssumption ==
    /\ IsFiniteSet(Fds) /\ NoFd \notin Fds
    /\ Timers \subseteq Nat /\ IsFiniteSet(Timers) /\ Timers # {}
    /\ TIMESLOT \in Nat \ {0}
    /\ OtherThreads \in BOOLEAN

(* A connection may be silent for three heartbeats. *)
Timeout == 3 * TIMESLOT

VARIABLES
    \* the kernel
    owner,     \* who has each descriptor: "free", "conn" or "other"
    data,      \* unread bytes on a connection
    fin,       \* the peer has closed
    armed,     \* registered in epoll and not disabled by EPOLLONESHOT
    backlog,   \* connections waiting for accept
    ready,     \* control events epoll_wait will report: "listen", "pipe"
    signals,   \* bytes in the socketpair: "alrm", "term"
    alarmIn,   \* ticks until SIGALRM, 0 when no alarm is set
    silent,    \* ticks since each connection was accepted or last handled
    \* the reactor
    phase,     \* "wait", "batch", "tick", "stopped"
    events,    \* the events of this batch still to be handled
    closing,   \* removefd has closed it and not yet erased its object
    timeout,   \* the flag timeout
    stop,      \* the flag stop_server
    \* the timers
    heap,      \* the timers in the heap
    timer,     \* each util_timer: [left, live, user]; live: cb_func # NULL
    timerOf,   \* users_timer[fd].timer
    due        \* the timers tick found run out when it read the clock

kernel  == <<owner, data, fin, armed>>
control == <<backlog, ready, signals, alarmIn>>
loop    == <<phase, events, timeout, stop>>
timers  == <<heap, timer, timerOf, due>>
vars    == <<kernel, control, silent, loop, closing, timers>>

Conns == {fd \in Fds : owner[fd] = "conn"}
NoTimer == [left |-> 0, live |-> FALSE, user |-> NoFd]   \* no object there
NoEvents == [in |-> {}, hup |-> {}, ctl |-> {}]

Init ==
    /\ owner = [fd \in Fds |-> "free"]
    /\ data = [fd \in Fds |-> FALSE]
    /\ fin = [fd \in Fds |-> FALSE]
    /\ armed = [fd \in Fds |-> FALSE]
    /\ backlog = 0 /\ ready = {} /\ signals = {}
    /\ alarmIn = TIMESLOT
    /\ silent = [fd \in Fds |-> 0]
    /\ phase = "wait" /\ events = NoEvents /\ closing = NoFd
    /\ timeout = FALSE /\ stop = FALSE
    /\ heap = {}
    /\ timer = [t \in Timers |-> NoTimer]
    /\ timerOf = [fd \in Fds |-> 0]
    /\ due = {}

-----------------------------------------------------------------------------
(* The peers, the clock and the other threads.                              *)

(* Bound: every connect and every request makes a timer, and no more are   *)
(* made than there are addresses.                                          *)
RoomForTimer ==
    Cardinality(heap) + backlog + Cardinality({fd \in Fds : data[fd]})
        < Cardinality(Timers)

(* Bound: the process does not run out of descriptors. *)
RoomForFd ==
    backlog + Cardinality(Conns) < Cardinality({fd \in Fds : owner[fd] # "other"})

PeerConnect ==
    /\ phase # "stopped"
    /\ RoomForTimer
    /\ RoomForFd
    /\ backlog' = backlog + 1
    /\ ready' = ready \cup {"listen"}
    /\ UNCHANGED <<kernel, signals, alarmIn, silent, loop, closing, timers>>

PeerSend(fd) ==
    /\ fd \in Conns /\ ~fin[fd] /\ ~data[fd]
    /\ RoomForTimer
    /\ data' = [data EXCEPT ![fd] = TRUE]
    /\ UNCHANGED <<owner, fin, armed, control, silent, loop, closing, timers>>

PeerClose(fd) ==
    /\ fd \in Conns /\ ~fin[fd]
    /\ fin' = [fin EXCEPT ![fd] = TRUE]
    /\ UNCHANGED <<owner, data, armed, control, silent, loop, closing, timers>>

(* A second passes.  SIGALRM writes a byte to the socketpair. *)
Clock ==
    /\ phase # "stopped"
    /\ timer' = [t \in Timers |->
          IF t \in heap /\ timer[t].left > 0
          THEN [timer[t] EXCEPT !.left = @ - 1] ELSE timer[t]]
    /\ silent' = [fd \in Fds |->
          IF fd \in Conns /\ silent[fd] < Timeout THEN silent[fd] + 1 ELSE silent[fd]]
    /\ alarmIn' = IF alarmIn = 0 THEN 0 ELSE alarmIn - 1
    /\ IF alarmIn = 1
       THEN signals' = signals \cup {"alrm"} /\ ready' = ready \cup {"pipe"}
       ELSE UNCHANGED <<signals, ready>>
    /\ UNCHANGED <<kernel, backlog, loop, closing, heap, timerOf, due>>

(* SIGTERM or SIGINT. *)
Terminate ==
    /\ phase # "stopped" /\ "term" \notin signals /\ ~stop
    /\ signals' = signals \cup {"term"} /\ ready' = ready \cup {"pipe"}
    /\ UNCHANGED <<kernel, backlog, alarmIn, silent, loop, closing, timers>>

OtherOpen(fd) ==
    /\ OtherThreads /\ owner[fd] = "free"
    /\ RoomForFd
    /\ owner' = [owner EXCEPT ![fd] = "other"]
    /\ UNCHANGED <<data, fin, armed, control, silent, loop, closing, timers>>

OtherClose(fd) ==
    /\ owner[fd] = "other"
    /\ owner' = [owner EXCEPT ![fd] = "free"]
    /\ UNCHANGED <<data, fin, armed, control, silent, loop, closing, timers>>

-----------------------------------------------------------------------------
(* Timers.                                                                  *)

(* new util_timer, put into the heap and into users_timer[user]. *)
AddTimer(old, live, user) ==
    LET t == Min(Timers \ heap)
    IN  /\ heap' = heap \cup {t}
        /\ timer' = [old EXCEPT ![t] = [left |-> Timeout, live |-> live, user |-> user]]
        /\ timerOf' = [timerOf EXCEPT ![user] = t]
        /\ UNCHANGED due

(* del_timer: the callback is cleared, the timer stays in the heap. *)
Retired(t) == [timer EXCEPT ![t].live = FALSE]

(* Mutant: the pointer in users_timer is not updated. *)
AdjustTimerOldPointer(fd) ==
    LET old == timerOf[fd]
        t   == Min(Timers \ heap)
    IN  /\ heap' = heap \cup {t}
        /\ timer' = [Retired(old) EXCEPT ![t] = [timer[old] EXCEPT !.left = Timeout]]
        /\ UNCHANGED <<timerOf, due>>

(* adjust_timer: the old timer is retired and a new one takes over its     *)
(* callback and its user.                                                  *)
AdjustTimer(fd) ==
    LET old == timerOf[fd] IN AddTimer(Retired(old), timer[old].live, timer[old].user)

-----------------------------------------------------------------------------
(* removefd: closes the descriptor, then erases the connection object,      *)
(* whose destructor closes the same number again.                           *)

RemoveFd(fd) ==
    /\ owner' = [owner EXCEPT ![fd] = "free"]
    /\ data' = [data EXCEPT ![fd] = FALSE]
    /\ fin' = [fin EXCEPT ![fd] = FALSE]
    /\ armed' = [armed EXCEPT ![fd] = FALSE]
    /\ silent' = [silent EXCEPT ![fd] = 0]
    /\ closing' = IF owner[fd] = "conn" THEN fd ELSE NoFd

EraseConnection ==
    /\ closing # NoFd
    /\ owner' = [owner EXCEPT ![closing] = "free"]
    /\ closing' = NoFd
    /\ UNCHANGED <<data, fin, armed, control, silent, loop, timers>>

-----------------------------------------------------------------------------
(* The event loop.                                                          *)

(* epoll_wait returns every event there is; EPOLLONESHOT disables the      *)
(* connections it reports, EPOLLET forgets the control events.             *)
Readable(fd) == owner[fd] = "conn" /\ armed[fd] /\ (data[fd] \/ fin[fd])

EpollWait ==
    /\ phase = "wait"
    /\ LET hot == {fd \in Fds : Readable(fd)}
       IN  /\ hot # {} \/ ready # {}
           /\ events' = [in  |-> {fd \in hot : ~fin[fd]},
                         hup |-> {fd \in hot : fin[fd]},
                         ctl |-> ready]
           /\ armed' = [fd \in Fds |-> armed[fd] /\ fd \notin hot]
    /\ ready' = {}
    /\ phase' = "batch"
    /\ UNCHANGED <<owner, data, fin, backlog, signals, alarmIn, silent, closing,
                   timeout, stop, timers>>

InBatch == phase = "batch" /\ closing = NoFd

(* One turn of the accept loop. *)
Accept(fd) ==
    /\ InBatch /\ "listen" \in events.ctl
    /\ backlog > 0
    /\ owner[fd] = "free"
    /\ backlog' = backlog - 1
    /\ owner' = [owner EXCEPT ![fd] = "conn"]
    /\ armed' = [armed EXCEPT ![fd] = TRUE]
    /\ silent' = [silent EXCEPT ![fd] = 0]
    /\ AddTimer(timer, TRUE, fd)
    /\ UNCHANGED <<data, fin, ready, signals, alarmIn, loop, closing>>

(* accept fails: nobody is waiting. *)
AcceptEnds ==
    /\ InBatch /\ "listen" \in events.ctl
    /\ backlog = 0
    /\ events' = [events EXCEPT !.ctl = @ \ {"listen"}]
    /\ UNCHANGED <<kernel, control, silent, phase, closing, timeout, stop, timers>>

(* Mutant: SIGTERM is overlooked when SIGALRM came with it. *)
ReadOneSignal ==
    /\ InBatch /\ "pipe" \in events.ctl
    /\ timeout' = (timeout \/ "alrm" \in signals)
    /\ stop' = (stop \/ signals = {"term"})
    /\ signals' = {}
    /\ events' = [events EXCEPT !.ctl = @ \ {"pipe"}]
    /\ UNCHANGED <<kernel, backlog, ready, alarmIn, silent, phase, closing, timers>>

(* One recv empties the socketpair. *)
ReadSignals ==
    /\ InBatch /\ "pipe" \in events.ctl
    /\ timeout' = (timeout \/ "alrm" \in signals)
    /\ stop' = (stop \/ "term" \in signals)
    /\ signals' = {}
    /\ events' = [events EXCEPT !.ctl = @ \ {"pipe"}]
    /\ UNCHANGED <<kernel, backlog, ready, alarmIn, silent, phase, closing, timers>>

(* EPOLLRDHUP, EPOLLHUP or EPOLLERR: unread requests are dropped. *)
HandleHup(fd) ==
    /\ InBatch /\ fd \in events.hup
    /\ timer' = Retired(timerOf[fd])
    /\ RemoveFd(fd)
    /\ events' = [events EXCEPT !.hup = @ \ {fd}]
    /\ UNCHANGED <<control, phase, timeout, stop, heap, timerOf, due>>

(* Mutant: EPOLLONESHOT is not armed again. *)
HandleInOnce(fd) ==
    /\ InBatch /\ fd \in events.in
    /\ AdjustTimer(fd)
    /\ IF fin[fd]
       THEN RemoveFd(fd)
       ELSE /\ data' = [data EXCEPT ![fd] = FALSE]
            /\ silent' = [silent EXCEPT ![fd] = 0]
            /\ UNCHANGED <<owner, fin, armed, closing>>
    /\ events' = [events EXCEPT !.in = @ \ {fd}]
    /\ UNCHANGED <<control, phase, timeout, stop>>

(* EPOLLIN: the timer is renewed, then HandleRead reads to the end.  When  *)
(* it meets the end of the stream the connection is removed, with its new  *)
(* timer alive; otherwise the descriptor is armed again.                   *)
HandleIn(fd) ==
    /\ InBatch /\ fd \in events.in
    /\ AdjustTimer(fd)
    /\ IF fin[fd]
       THEN RemoveFd(fd)
       ELSE /\ data' = [data EXCEPT ![fd] = FALSE]
            /\ armed' = [armed EXCEPT ![fd] = TRUE]
            /\ silent' = [silent EXCEPT ![fd] = 0]
            /\ UNCHANGED <<owner, fin, closing>>
    /\ events' = [events EXCEPT !.in = @ \ {fd}]
    /\ UNCHANGED <<control, phase, timeout, stop>>

Expired == {t \in heap : timer[t].left = 0}

(* After the batch comes tick if the flag is up; it reads the clock once. *)
BatchEnds ==
    /\ InBatch /\ events = NoEvents
    /\ IF timeout
       THEN phase' = "tick" /\ due' = Expired
       ELSE phase' = (IF stop THEN "stopped" ELSE "wait") /\ UNCHANGED due
    /\ UNCHANGED <<kernel, control, silent, events, closing, timeout, stop,
                   heap, timer, timerOf>>

Ticking == phase = "tick" /\ closing = NoFd

(* tick pops a timer that has run out; the order among them makes no       *)
(* difference.  cb_func is removefd on the descriptor the timer was made   *)
(* for, whoever has it now.                                                *)
TickOne(t) ==
    /\ Ticking /\ t \in due
    /\ due' = due \ {t}
    /\ heap' = heap \ {t}
    /\ timer' = [timer EXCEPT ![t] = NoTimer]
    /\ IF timer[t].live
       THEN RemoveFd(timer[t].user)
       ELSE UNCHANGED <<kernel, silent, closing>>
    /\ UNCHANGED <<control, loop, timerOf>>

(* Mutant: no new alarm is set. *)
TickEndsNoAlarm ==
    /\ Ticking /\ due = {}
    /\ timeout' = FALSE
    /\ phase' = IF stop THEN "stopped" ELSE "wait"
    /\ UNCHANGED <<kernel, control, silent, events, closing, stop, timers>>

(* alarm(TIMESLOT) for the next heartbeat. *)
TickEnds ==
    /\ Ticking /\ due = {}
    /\ alarmIn' = TIMESLOT
    /\ timeout' = FALSE
    /\ phase' = IF stop THEN "stopped" ELSE "wait"
    /\ UNCHANGED <<kernel, backlog, ready, signals, silent, events, closing, stop, timers>>

-----------------------------------------------------------------------------
Reactor ==
    \/ EpollWait
    \/ AcceptEnds
    \/ ReadSignals
    \/ BatchEnds
    \/ TickEnds
    \/ EraseConnection
    \/ \E fd \in Fds : Accept(fd) \/ HandleHup(fd) \/ HandleIn(fd)
    \/ \E t \in Timers : TickOne(t)

Environment ==
    \/ PeerConnect
    \/ Clock
    \/ Terminate
    \/ \E fd \in Fds : PeerSend(fd) \/ PeerClose(fd) \/ OtherOpen(fd) \/ OtherClose(fd)

Next == Reactor \/ Environment

(* The thread runs and the clock advances. *)
Fairness == WF_vars(Reactor) /\ WF_vars(Clock)

Spec     == Init /\ [][Next]_vars
FairSpec == Spec /\ Fairness

-----------------------------------------------------------------------------
(* Properties.                                                              *)

(* The timer users_timer points to for an open connection is in the heap,  *)
(* so the pointer the reactor follows is good, it is alive and the         *)
(* connection's own, and it runs out exactly when the connection has been  *)
(* silent for the timeout, through every renewal, lazy deletion and reuse. *)
TimerCoverage ==
    \A fd \in Conns :
        /\ timerOf[fd] \in heap
        /\ timer[timerOf[fd]] = [left |-> Timeout - silent[fd], live |-> TRUE, user |-> fd]

(* No readiness is lost between epoll_wait, the handlers and the new arm:  *)
(* a connection is armed or its event is in the batch, and the             *)
(* edge-triggered descriptors have an event left while there is something  *)
(* to read or to accept.                                                   *)
NoLostEdge ==
    /\ \A fd \in Conns : armed[fd] \/ fd \in events.in \cup events.hup
    /\ signals # {} => "pipe" \in ready \cup events.ctl
    /\ backlog > 0 => "listen" \in ready \cup events.ctl

(* README.md:36 "timers to manage dead connections", lst_timer.h:209 "only *)
(* a living timer runs its callback": when a timer is about to close a     *)
(* connection, that connection has been silent for the whole timeout.      *)
NoEarlyKick ==
    \A t \in due : timer[t].live /\ timer[t].user \in Conns =>
        silent[timer[t].user] = Timeout

Ended == phase = "stopped"

(* A silent connection is closed. *)
SilentClosed ==
    \A fd \in Fds : fd \in Conns /\ silent[fd] > 0
                        ~> fd \notin Conns \/ silent[fd] = 0 \/ Ended

(* SIGTERM ends the loop, whatever else is going on. *)
ShutdownCompletes == "term" \in signals ~> Ended

=============================================================================
