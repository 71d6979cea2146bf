---------------------------- MODULE Registration ----------------------------
(***************************************************************************)
(* How providers publish their methods: ZkClient::Start and ::Create       *)
(* (src/src/zookeeperutil.cc) in the order of RpcProvider::Run             *)
(* (src/src/rpcprovider.cc), against ZooKeeper's nodes and sessions.       *)
(*                                                                         *)
(* A path is created by two requests, exists and create, and other         *)
(* providers act between them.  Service and method nodes stay; the node of *)
(* a host is ephemeral and goes with the session that made it, which       *)
(* outlives a process that exits or crashes.                               *)
(***************************************************************************)
EXTENDS Integers

CONSTANTS Hosts,       \* providers, one for each ip:port
          NoHost,      \* none of them
          Methods,     \* the methods of the service
          Service,     \* the service's own node
          MaxLives,    \* bound: how often a provider is started
          MaxFaults    \* bound: faults of the environment

ASSUME RegistrationAssumption ==
    /\ Hosts # {} /\ NoHost \notin Hosts
    /\ Methods # {} /\ Service \notin Methods
    /\ MaxLives \in Nat /\ MaxFaults \in Nat

VARIABLES
    \* ZooKeeper
    dirs,       \* the permanent nodes: Service, and methods below it
    node,       \* node[m][h]: the life of h whose session made m/h, 0: no node
    live,       \* live[h]: the lives of h whose session has not ended
    \* the providers
    pc,         \* "down", "init", "waiting", "exists", "create", "binding",
                \* "serving", "deaf" (its loop runs and nothing listens),
                \* "exited" (exit(EXIT_FAILURE)), "dead" (crashed)
    life,       \* how often it was started
    kind,       \* the path it is at: a "dir" or the node of the "host" in it
    target,     \* the directory that path names
    todo,       \* methods the loop has not come to
    \* history
    faults,     \* faults so far
    skipped,    \* methods of this life whose exists failed
    inherited,  \* methods where this life found a node of an earlier one
    lastMaker   \* who made the last directory

zookeeper == <<dirs, node, live>>
place     == <<kind, target, todo>>
history   == <<skipped, inherited, lastMaker>>
vars      == <<zookeeper, pc, life, place, faults, history>>

Running == {"init", "waiting", "exists", "create", "binding", "serving", "deaf"}
NoNode == [m \in Methods |-> [h \in Hosts |-> 0]]

Init ==
    /\ dirs = {} /\ node = NoNode
    /\ live = [h \in Hosts |-> {}]
    /\ pc = [h \in Hosts |-> "down"]
    /\ life = [h \in Hosts |-> 0]
    /\ kind = [h \in Hosts |-> "dir"]
    /\ target = [h \in Hosts |-> Service]
    /\ todo = [h \in Hosts |-> Methods]
    /\ faults = 0
    /\ skipped = [h \in Hosts |-> {}]
    /\ inherited = [h \in Hosts |-> {}]
    /\ lastMaker = NoHost

Goto(h, where) == pc' = [pc EXCEPT ![h] = where]
HasSession(h) == life[h] \in live[h]
PathExists(h) == IF kind[h] = "dir" THEN target[h] \in dirs ELSE node[target[h]][h] # 0
ParentExists(h) ==
    IF kind[h] = "host" THEN target[h] \in dirs
    ELSE target[h] = Service \/ Service \in dirs

(* Bound: the environment fails MaxFaults times. *)
Fault == faults < MaxFaults /\ faults' = faults + 1

(* The nodes of life n of h go with its session. *)
EndSession(h, n) ==
    /\ live' = [live EXCEPT ![h] = @ \ {n}]
    /\ node' = [m \in Methods |->
                 IF node[m][h] = n THEN [node[m] EXCEPT ![h] = 0] ELSE node[m]]
    /\ UNCHANGED dirs

-----------------------------------------------------------------------------
(* ZkClient::Start.                                                         *)

(* A new life of h, which zookeeper_init takes to the place where. *)
Begin(h, where) ==
    /\ pc[h] \in {"down", "exited", "dead"} /\ life[h] < MaxLives
    /\ life' = [life EXCEPT ![h] = @ + 1]
    /\ Goto(h, where)
    /\ kind' = [kind EXCEPT ![h] = "dir"]
    /\ target' = [target EXCEPT ![h] = Service]
    /\ todo' = [todo EXCEPT ![h] = Methods]
    /\ skipped' = [skipped EXCEPT ![h] = {}]
    /\ inherited' = [inherited EXCEPT ![h] = {}]
    /\ UNCHANGED <<zookeeper, lastMaker>>

(* zookeeper_init starts the client's threads; the context is still null. *)
Start(h) == Begin(h, "init") /\ UNCHANGED faults

(* It returns null, and Start exits. *)
InitFails(h) == Begin(h, "exited") /\ Fault

(* zoo_set_context, then sem_wait. *)
SetContext(h) ==
    /\ pc[h] = "init"
    /\ Goto(h, "waiting")
    /\ UNCHANGED <<zookeeper, life, place, faults, history>>

(* Mutant: the watcher does not post the semaphore. *)
ConnectedUnseen(h) ==
    /\ pc[h] = "waiting" /\ ~HasSession(h)
    /\ live' = [live EXCEPT ![h] = @ \cup {life[h]}]
    /\ UNCHANGED <<dirs, node, pc, life, place, faults, history>>

(* global_watcher posts the semaphore, and Start returns. *)
Connected(h) ==
    /\ pc[h] = "waiting" /\ ~HasSession(h)
    /\ live' = [live EXCEPT ![h] = @ \cup {life[h]}]
    /\ Goto(h, "exists")
    /\ UNCHANGED <<dirs, node, life, place, faults, history>>

(* The session is there before the context is set: sem_post of null. *)
ConnectedEarly(h) ==
    /\ pc[h] = "init" /\ Fault
    /\ live' = [live EXCEPT ![h] = @ \cup {life[h]}]
    /\ Goto(h, "dead")
    /\ UNCHANGED <<dirs, node, life, place, history>>

(* After a short disconnection global_watcher runs again and posts a        *)
(* semaphore that was on Start's stack.  The process lives on (no step) or  *)
(* is lost.                                                                 *)
Reconnected(h) ==
    /\ pc[h] \in Running \ {"init", "waiting"} /\ HasSession(h) /\ Fault
    /\ Goto(h, "dead")
    /\ UNCHANGED <<zookeeper, life, place, history>>

-----------------------------------------------------------------------------
(* RpcProvider::Run: the service, then for each method, in the order of an  *)
(* unordered_map, its directory and the host in it.                         *)

(* From a path to the next one; a new directory begins with step first. *)
GoOn(h, first) ==
    \/ /\ kind[h] = "dir" /\ target[h] # Service
       /\ kind' = [kind EXCEPT ![h] = "host"]
       /\ Goto(h, "exists")
       /\ UNCHANGED <<target, todo>>
    \/ /\ kind[h] = "host" \/ target[h] = Service
       /\ \E m \in todo[h] :
             /\ kind' = [kind EXCEPT ![h] = "dir"]
             /\ target' = [target EXCEPT ![h] = m]
             /\ todo' = [todo EXCEPT ![h] = @ \ {m}]
       /\ Goto(h, first)
    \/ /\ kind[h] = "host" /\ todo[h] = {}
       /\ Goto(h, "binding")
       /\ UNCHANGED place

(* Mutant: the result of an earlier exists is used for the next directory. *)
AdvanceUnchecked(h) == GoOn(h, "create")

Advance(h) == GoOn(h, "exists")

(* zoo_exists: a path that is there is left as it is, whoever made it. *)
Exists(h) ==
    /\ pc[h] = "exists" /\ HasSession(h)
    /\ IF PathExists(h)
       THEN /\ Advance(h)
            /\ inherited' = [inherited EXCEPT ![h] =
                  IF kind[h] = "host" THEN @ \cup {target[h]} ELSE @]
       ELSE /\ Goto(h, "create")
            /\ UNCHANGED <<place, inherited>>
    /\ UNCHANGED <<zookeeper, life, faults, skipped, lastMaker>>

(* Any answer but ZNONODE counts as there, a failed request too. *)
ExistsFails(h) ==
    /\ pc[h] = "exists"
    /\ IF HasSession(h) THEN Fault ELSE UNCHANGED faults
    /\ Advance(h)
    /\ skipped' = [skipped EXCEPT ![h] = @ \cup {target[h]}]
    /\ UNCHANGED <<zookeeper, life, inherited, lastMaker>>

(* Mutant: without ZOO_EPHEMERAL, the node belongs to no session. *)
MakeForGood(h) ==
    IF kind[h] = "dir"
    THEN /\ dirs' = dirs \cup {target[h]}
         /\ lastMaker' = h
         /\ UNCHANGED <<node, live>>
    ELSE /\ node' = [node EXCEPT ![target[h]][h] = -1]
         /\ UNCHANGED <<dirs, live, lastMaker>>

(* ZooKeeper makes the node of the path h is at. *)
Make(h) ==
    IF kind[h] = "dir"
    THEN /\ dirs' = dirs \cup {target[h]}
         /\ lastMaker' = h
         /\ UNCHANGED <<node, live>>
    ELSE /\ node' = [node EXCEPT ![target[h]][h] = life[h]]
         /\ UNCHANGED <<dirs, live, lastMaker>>

(* zoo_create. *)
Create(h) ==
    /\ pc[h] = "create"
    /\ HasSession(h) /\ ~PathExists(h) /\ ParentExists(h)
    /\ Make(h)
    /\ Advance(h)
    /\ UNCHANGED <<life, faults, skipped, inherited>>

(* Anything but ZOK ends the process: the path is there by now, its parent  *)
(* is not, or the session is gone.  exit runs no destructor of Run's        *)
(* objects, so the session stays.                                           *)
CreateRefused(h) ==
    /\ pc[h] = "create"
    /\ ~HasSession(h) \/ PathExists(h) \/ ~ParentExists(h)
    /\ Goto(h, "exited")
    /\ UNCHANGED <<zookeeper, life, place, faults, history>>

(* The answer is lost, and ZooKeeper may have made the node. *)
CreateFails(h) ==
    /\ pc[h] = "create"
    /\ HasSession(h) /\ ~PathExists(h) /\ ParentExists(h) /\ Fault
    /\ Make(h) \/ UNCHANGED <<zookeeper, lastMaker>>
    /\ Goto(h, "exited")
    /\ UNCHANGED <<life, place, skipped, inherited>>

(* TcpServer::Start: only now is there a socket that listens. *)
Listen(h) ==
    /\ pc[h] = "binding"
    /\ Goto(h, "serving")
    /\ UNCHANGED <<zookeeper, life, place, faults, history>>

(* bind or listen fails.  Start looks at neither result: the loop runs, the *)
(* session lives and the nodes stay, and nothing listens on the port.       *)
ListenFails(h) ==
    /\ pc[h] = "binding" /\ Fault
    /\ Goto(h, "deaf")
    /\ UNCHANGED <<zookeeper, life, place, history>>

(* SIGTERM: Start and Run return, ~ZkClient closes the session. *)
Stop(h) ==
    /\ pc[h] \in {"serving", "deaf"}
    /\ Goto(h, "down")
    /\ EndSession(h, life[h])
    /\ UNCHANGED <<life, place, faults, history>>

-----------------------------------------------------------------------------
Kill(h) ==
    /\ pc[h] \in Running /\ Fault
    /\ Goto(h, "dead")
    /\ UNCHANGED <<zookeeper, life, place, history>>

(* A session ends for want of heartbeats: that of a process that is gone,   *)
(* or of one that was cut off for too long.                                 *)
Expire(h, n) ==
    /\ n \in live[h]
    /\ IF n = life[h] /\ pc[h] \in Running THEN Fault ELSE UNCHANGED faults
    /\ EndSession(h, n)
    /\ UNCHANGED <<pc, life, place, history>>

Orphan(h, n) == n \in live[h] /\ ~(n = life[h] /\ pc[h] \in Running)

Progress(h) ==
    \/ SetContext(h) \/ Connected(h) \/ Exists(h) \/ ExistsFails(h)
    \/ Create(h) \/ CreateRefused(h) \/ Listen(h)

Next ==
    \/ \E h \in Hosts :
        \/ Start(h) \/ InitFails(h) \/ SetContext(h) \/ Connected(h) \/ ConnectedEarly(h) \/ Reconnected(h)
        \/ Exists(h) \/ ExistsFails(h) \/ Create(h) \/ CreateRefused(h) \/ CreateFails(h)
        \/ Listen(h) \/ ListenFails(h) \/ Stop(h) \/ Kill(h)
    \/ \E h \in Hosts, n \in 1 .. MaxLives : Expire(h, n)

Spec == Init /\ [][Next]_vars

(* A provider that runs goes on, and ZooKeeper ends the sessions of those   *)
(* that do not.                                                             *)
Fairness ==
    \A h \in Hosts :
        /\ WF_vars(Progress(h))
        /\ \A n \in 1 .. MaxLives : WF_vars(Orphan(h, n) /\ Expire(h, n))

FairSpec == Spec /\ Fairness

-----------------------------------------------------------------------------
TypeOK ==
    /\ dirs \subseteq Methods \cup {Service}
    /\ node \in [Methods -> [Hosts -> 0 .. MaxLives]]
    /\ live \in [Hosts -> SUBSET (0 .. MaxLives)]
    /\ pc \in [Hosts -> Running \cup {"down", "exited", "dead"}]
    /\ life \in [Hosts -> 0 .. MaxLives]
    /\ kind \in [Hosts -> {"dir", "host"}]
    /\ target \in [Hosts -> Methods \cup {Service}]
    /\ \A h \in Hosts : kind[h] = "host" => target[h] \in Methods
    /\ todo \in [Hosts -> SUBSET Methods]
    /\ faults \in 0 .. MaxFaults
    /\ skipped \in [Hosts -> SUBSET (Methods \cup {Service})]
    /\ inherited \in [Hosts -> SUBSET Methods]
    /\ lastMaker \in Hosts \cup {NoHost}

(* Providers that race for the directories make each other exit, but never  *)
(* all of them: without a fault somebody is left.                           *)
SomeoneSurvives == faults = 0 => \E h \in Hosts : pc[h] # "exited"

(* What a provider that serves has published: every method, under its own   *)
(* session while it has one, unless an exists failed or an earlier life's   *)
(* node was still there and it made none of its own.                        *)
ServesWhatItPublished ==
    \A h \in Hosts, m \in Methods :
        pc[h] = "serving" /\ HasSession(h)
            => \/ node[m][h] = life[h]
               \/ m \in inherited[h]
               \/ m \in skipped[h]

(* A node leads clients to a provider that listens, or goes: those of a     *)
(* process that exited, crashed, or has not come to listen do not stay.     *)
(* The exception is a process whose bind or listen failed, which TcpServer  *)
(* does not notice: it keeps its nodes as long as it runs.                  *)
NodesLeadSomewhere ==
    \A h \in Hosts, m \in Methods :
        node[m][h] # 0 ~> (pc[h] \in {"serving", "deaf"} \/ node[m][h] = 0)

(* When all have been started and nothing fails, somebody comes to serve.   *)
SomeoneServes ==
    (\A h \in Hosts : pc[h] # "down")
        ~> (faults > 0 \/ \E h \in Hosts : pc[h] = "serving")
=============================================================================
