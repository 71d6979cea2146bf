-------------------------- MODULE RegistrationProofs --------------------------
(* Proofs about Registration, for any number of providers and methods.       *)
EXTENDS Registration, TLAPS

(* Before the first fault.  Who made the last directory has not exited, for  *)
(* a provider exits only at a directory that was made after its own last     *)
(* one: it found the directory missing, and somebody else has made it since. *)
InTouch ==
    \A h \in Hosts :
        pc[h] \in {"exists", "create", "binding", "serving"} => HasSession(h)

ParentsThere ==
    \A h \in Hosts :
        pc[h] \in {"exists", "create"} => ParentExists(h) /\ (kind[h] = "host" => Service \in dirs)

StartsAtService ==
    \A h \in Hosts :
        pc[h] \in {"init", "waiting"} => kind[h] = "dir" /\ target[h] = Service

HostPathFree ==
    \A h \in Hosts :
        pc[h] = "create" /\ kind[h] = "host" => node[target[h]][h] = 0

BeatenByAnother ==
    \A h \in Hosts :
        pc[h] = "create" /\ kind[h] = "dir" /\ target[h] \in dirs => lastMaker # h

MakerLives ==
    /\ lastMaker \in Hosts => pc[lastMaker] # "exited"
    /\ dirs # {} => lastMaker \in Hosts
    /\ (\E h \in Hosts : pc[h] = "exited") => dirs # {}

Calm == InTouch /\ StartsAtService /\ ParentsThere /\ HostPathFree /\ BeatenByAnother /\ MakerLives

IInv == TypeOK /\ (faults = 0 => Calm)

-----------------------------------------------------------------------------
LEMMA GoOnType ==
    ASSUME TypeOK, NEW h \in Hosts, Advance(h)
    PROVE  /\ pc' \in [Hosts -> Running \cup {"down", "exited", "dead"}]
           /\ kind' \in [Hosts -> {"dir", "host"}]
           /\ target' \in [Hosts -> Methods \cup {Service}]
           /\ \A g \in Hosts : kind'[g] = "host" => target'[g] \in Methods
           /\ todo' \in [Hosts -> SUBSET Methods]
<1>1. CASE kind[h] = "dir" /\ target[h] # Service
          /\ kind' = [kind EXCEPT ![h] = "host"] /\ Goto(h, "exists")
          /\ UNCHANGED <<target, todo>>
  BY <1>1 DEF TypeOK, Goto, Running
<1>2. CASE /\ Goto(h, "exists")
           /\ \E m \in todo[h] :
                 /\ kind' = [kind EXCEPT ![h] = "dir"]
                 /\ target' = [target EXCEPT ![h] = m]
                 /\ todo' = [todo EXCEPT ![h] = @ \ {m}]
  BY <1>2 DEF TypeOK, Goto, Running
<1>3. CASE Goto(h, "binding") /\ UNCHANGED place
  BY <1>3 DEF TypeOK, Goto, Running, place
<1> QED  BY <1>1, <1>2, <1>3 DEF Advance, GoOn

LEMMA MakeType ==
    ASSUME TypeOK, NEW h \in Hosts, Make(h)
    PROVE  /\ dirs' \subseteq Methods \cup {Service}
           /\ node' \in [Methods -> [Hosts -> 0 .. MaxLives]]
           /\ live' = live
           /\ lastMaker' \in Hosts \cup {NoHost}
  BY SMTT(30) DEF TypeOK, Make

LEMMA EndSessionType ==
    ASSUME TypeOK, NEW h \in Hosts, NEW n \in Int, EndSession(h, n)
    PROVE  /\ dirs' \subseteq Methods \cup {Service}
           /\ node' \in [Methods -> [Hosts -> 0 .. MaxLives]]
           /\ live' \in [Hosts -> SUBSET (0 .. MaxLives)]
<1>1. ASSUME NEW m \in Methods PROVE node'[m] \in [Hosts -> 0 .. MaxLives]
  BY RegistrationAssumption DEF TypeOK, EndSession
<1> QED  BY <1>1 DEF TypeOK, EndSession

LEMMA FaultType ==
    ASSUME TypeOK, Fault PROVE faults' \in 0 .. MaxFaults /\ faults' # 0
  BY RegistrationAssumption DEF TypeOK, Fault

LEMMA BeginType ==
    ASSUME TypeOK, NEW h \in Hosts, NEW where \in {"init", "exited"}, Begin(h, where),
           faults' \in 0 .. MaxFaults
    PROVE  TypeOK'
<1>1. life[h] + 1 \in 0 .. MaxLives
  BY RegistrationAssumption DEF Begin, TypeOK
<1> QED  BY <1>1 DEF Begin, Goto, TypeOK, Running, zookeeper

LEMMA TypeStep == TypeOK /\ [Next]_vars => TypeOK'
<1> SUFFICES ASSUME TypeOK, [Next]_vars PROVE TypeOK'
  OBVIOUS
<1> USE RegistrationAssumption
<1>1. ASSUME NEW h \in Hosts, Start(h) \/ InitFails(h) PROVE TypeOK'
  <2>1. CASE Start(h)
    BY <2>1, BeginType DEF Start, TypeOK
  <2>2. CASE InitFails(h)
    BY <2>2, BeginType, FaultType DEF InitFails
  <2> QED  BY <1>1, <2>1, <2>2
<1>2. ASSUME NEW h \in Hosts, SetContext(h) \/ Listen(h) \/ CreateRefused(h) PROVE TypeOK'
  BY <1>2 DEF SetContext, Listen, CreateRefused, Goto, TypeOK, Running, zookeeper, place, history
<1>3. ASSUME NEW h \in Hosts, Connected(h) PROVE TypeOK'
  <2>1. life[h] \in 0 .. MaxLives
    BY DEF TypeOK
  <2> QED  BY <1>3, <2>1 DEF Connected, Goto, TypeOK, Running, place, history
<1>4. ASSUME NEW h \in Hosts, ConnectedEarly(h) PROVE TypeOK'
  <2>1. life[h] \in 0 .. MaxLives
    BY DEF TypeOK
  <2>2. faults' \in 0 .. MaxFaults
    BY <1>4, FaultType DEF ConnectedEarly
  <2> QED  BY <1>4, <2>1, <2>2 DEF ConnectedEarly, Goto, TypeOK, Running, place, history
<1>5. ASSUME NEW h \in Hosts, Reconnected(h) \/ ListenFails(h) \/ Kill(h) PROVE TypeOK'
  <2>1. faults' \in 0 .. MaxFaults
    BY <1>5, FaultType DEF Reconnected, ListenFails, Kill
  <2> QED
    BY <1>5, <2>1 DEF Reconnected, ListenFails, Kill, Goto, TypeOK, Running, zookeeper, place, history
<1>6. ASSUME NEW h \in Hosts, Exists(h) PROVE TypeOK'
  <2>1. CASE PathExists(h)
    <3>1. Advance(h)
      BY <1>6, <2>1 DEF Exists
    <3>2. inherited' \in [Hosts -> SUBSET Methods]
      BY <1>6, <2>1 DEF Exists, TypeOK
    <3> QED  BY <1>6, <3>1, <3>2, GoOnType DEF Exists, TypeOK, zookeeper
  <2>2. CASE ~PathExists(h)
    BY <1>6, <2>2 DEF Exists, Goto, TypeOK, Running, zookeeper, place
  <2> QED  BY <2>1, <2>2
<1>7. ASSUME NEW h \in Hosts, ExistsFails(h) PROVE TypeOK'
  <2>1. faults' \in 0 .. MaxFaults
    BY <1>7, FaultType DEF ExistsFails, TypeOK
  <2>2. skipped' \in [Hosts -> SUBSET (Methods \cup {Service})]
    BY <1>7 DEF ExistsFails, TypeOK
  <2>3. Advance(h)
    BY <1>7 DEF ExistsFails
  <2> QED  BY <1>7, <2>1, <2>2, <2>3, GoOnType DEF ExistsFails, TypeOK, zookeeper
<1>8. ASSUME NEW h \in Hosts, Create(h) PROVE TypeOK'
  <2>1. Advance(h) /\ Make(h)
    BY <1>8 DEF Create
  <2> QED  BY <1>8, <2>1, GoOnType, MakeType DEF Create, TypeOK
<1>9. ASSUME NEW h \in Hosts, CreateFails(h) PROVE TypeOK'
  <2>1. faults' \in 0 .. MaxFaults
    BY <1>9, FaultType DEF CreateFails
  <2>2. /\ dirs' \subseteq Methods \cup {Service}
        /\ node' \in [Methods -> [Hosts -> 0 .. MaxLives]]
        /\ live' = live
        /\ lastMaker' \in Hosts \cup {NoHost}
    <3>1. CASE Make(h)
      BY <3>1, MakeType
    <3>2. CASE UNCHANGED <<zookeeper, lastMaker>>
      BY <3>2 DEF zookeeper, TypeOK
    <3> QED  BY <1>9, <3>1, <3>2 DEF CreateFails
  <2> QED  BY <1>9, <2>1, <2>2 DEF CreateFails, Goto, TypeOK, Running, place
<1>10. ASSUME NEW h \in Hosts, Stop(h) PROVE TypeOK'
  <2>1. life[h] \in Int /\ EndSession(h, life[h])
    BY <1>10 DEF Stop, TypeOK
  <2> QED  BY <1>10, <2>1, EndSessionType DEF Stop, Goto, TypeOK, Running, place, history
<1>11. ASSUME NEW h \in Hosts, NEW n \in 1 .. MaxLives, Expire(h, n) PROVE TypeOK'
  <2>1. faults' \in 0 .. MaxFaults
    BY <1>11, FaultType DEF Expire, TypeOK
  <2>2. n \in Int /\ EndSession(h, n)
    BY <1>11 DEF Expire
  <2> QED  BY <1>11, <2>1, <2>2, EndSessionType DEF Expire, TypeOK, place, history
<1>12. ASSUME UNCHANGED vars PROVE TypeOK'
  BY <1>12 DEF vars, zookeeper, place, history, TypeOK
<1> QED
  BY <1>1, <1>2, <1>3, <1>4, <1>5, <1>6, <1>7, <1>8, <1>9, <1>10, <1>11, <1>12 DEF Next

-----------------------------------------------------------------------------
LEMMA InitInv == Init => IInv
<1> SUFFICES ASSUME Init PROVE IInv
  OBVIOUS
<1>1. TypeOK
  BY RegistrationAssumption DEF Init, TypeOK, NoNode, Running
<1>2. Calm
  BY RegistrationAssumption
     DEF Init, Calm, InTouch, StartsAtService, ParentsThere, HostPathFree, BeatenByAnother, MakerLives
<1> QED  BY <1>1, <1>2 DEF IInv

(* A directory or a host goes on to its successor: what Calm says of the     *)
(* place of h holds there, if the path h leaves is there by then.            *)
LEMMA GoOnCalm ==
    ASSUME TypeOK, NEW h \in Hosts, Advance(h),
           ParentExists(h), kind[h] = "host" => Service \in dirs,
           dirs \subseteq dirs',
           kind[h] = "dir" => target[h] \in dirs'
    PROVE  /\ \A g \in Hosts \ {h} : /\ pc'[g] = pc[g]
                                     /\ kind'[g] = kind[g] /\ target'[g] = target[g]
           /\ pc'[h] \in {"exists", "binding"}
           /\ pc'[h] = "exists"
                => ParentExists(h)' /\ (kind'[h] = "host" => Service \in dirs')
<1>1. CASE kind[h] = "dir" /\ target[h] # Service
          /\ kind' = [kind EXCEPT ![h] = "host"] /\ Goto(h, "exists")
          /\ UNCHANGED <<target, todo>>
  BY <1>1 DEF TypeOK, Goto, ParentExists
<1>2. CASE /\ Goto(h, "exists") /\ (kind[h] = "host" \/ target[h] = Service)
           /\ \E m \in todo[h] :
                 /\ kind' = [kind EXCEPT ![h] = "dir"]
                 /\ target' = [target EXCEPT ![h] = m]
                 /\ todo' = [todo EXCEPT ![h] = @ \ {m}]
  BY <1>2 DEF TypeOK, Goto, ParentExists
<1>3. CASE Goto(h, "binding") /\ UNCHANGED place
  BY <1>3 DEF TypeOK, Goto, place
<1> QED  BY <1>1, <1>2, <1>3 DEF Advance, GoOn

LEMMA CalmStep == IInv /\ [Next]_vars /\ faults' = 0 => Calm'
<1> SUFFICES ASSUME IInv, [Next]_vars, faults' = 0 PROVE Calm'
  OBVIOUS
<1>0. TypeOK /\ TypeOK' /\ faults = 0 /\ Calm /\ ~Fault
  <2>1. TypeOK /\ TypeOK'
    BY TypeStep DEF IInv
  <2>2. ~Fault
    BY <2>1, FaultType
  <2>3. faults = 0
    BY <2>1, <2>2 DEF Next, vars, Start, InitFails, SetContext, Connected, ConnectedEarly, Reconnected,
          Exists, ExistsFails, Create, CreateRefused, CreateFails, Listen, ListenFails,
          Stop, Kill, Expire
  <2> QED  BY <2>1, <2>2, <2>3 DEF IInv
<1> USE <1>0
<1> USE DEF Calm
<1>1. ASSUME NEW h \in Hosts, Start(h) PROVE Calm'
  <2> USE DEF Start, Begin, Goto, zookeeper, TypeOK
  <2>1. InTouch' /\ StartsAtService'
    BY <1>1 DEF InTouch, HasSession, StartsAtService
  <2>2. ParentsThere' /\ HostPathFree' /\ BeatenByAnother'
    BY <1>1 DEF ParentsThere, HostPathFree, BeatenByAnother, ParentExists
  <2>3. MakerLives'
    BY <1>1 DEF MakerLives
  <2> QED  BY <2>1, <2>2, <2>3
<1>2. ASSUME NEW h \in Hosts, SetContext(h) \/ Listen(h) PROVE Calm'
  <2> USE DEF SetContext, Listen, Goto, zookeeper, place, history, TypeOK
  <2>1. InTouch' /\ StartsAtService'
    BY <1>2 DEF InTouch, HasSession, StartsAtService
  <2>2. ParentsThere' /\ HostPathFree' /\ BeatenByAnother'
    BY <1>2 DEF ParentsThere, HostPathFree, BeatenByAnother, ParentExists
  <2>3. MakerLives'
    BY <1>2 DEF MakerLives
  <2> QED  BY <2>1, <2>2, <2>3
<1>3. ASSUME NEW h \in Hosts, Connected(h) PROVE Calm'
  <2> USE DEF Connected, Goto, place, history, TypeOK
  <2>1. InTouch' /\ StartsAtService'
    BY <1>3 DEF InTouch, HasSession, StartsAtService
  <2>2. ParentsThere' /\ HostPathFree' /\ BeatenByAnother'
    BY <1>3 DEF StartsAtService, ParentsThere, HostPathFree, BeatenByAnother, ParentExists
  <2>3. MakerLives'
    BY <1>3 DEF MakerLives
  <2> QED  BY <2>1, <2>2, <2>3
<1>4. ASSUME NEW h \in Hosts,
             \/ InitFails(h) \/ ConnectedEarly(h) \/ Reconnected(h)
             \/ CreateFails(h) \/ ListenFails(h) \/ Kill(h)
      PROVE  Calm'
  BY <1>4 DEF InitFails, ConnectedEarly, Reconnected, CreateFails, ListenFails, Kill
<1>5. ASSUME NEW h \in Hosts, Exists(h) PROVE Calm'
  <2> USE DEF Exists, zookeeper
  <2>1. CASE PathExists(h)
    <3>1. Advance(h) /\ UNCHANGED <<zookeeper, life, lastMaker>>
      BY <1>5, <2>1
    <3>2. /\ \A g \in Hosts \ {h} : /\ pc'[g] = pc[g]
                                    /\ kind'[g] = kind[g] /\ target'[g] = target[g]
          /\ pc'[h] \in {"exists", "binding"}
          /\ pc'[h] = "exists"
               => ParentExists(h)' /\ (kind'[h] = "host" => Service \in dirs')
      BY <1>5, <2>1, <3>1, GoOnCalm DEF ParentsThere, PathExists
    <3>3. InTouch' /\ StartsAtService'
      BY <1>5, <3>1, <3>2 DEF InTouch, HasSession, StartsAtService
    <3>4. ParentsThere' /\ HostPathFree' /\ BeatenByAnother'
      BY <3>1, <3>2 DEF ParentsThere, HostPathFree, BeatenByAnother, ParentExists
    <3>5. MakerLives'
      BY <1>5, <3>1, <3>2 DEF MakerLives
    <3> QED  BY <3>3, <3>4, <3>5
  <2>2. CASE ~PathExists(h)
    <3> USE DEF Goto, place, TypeOK
    <3>1. InTouch' /\ StartsAtService'
      BY <1>5, <2>2 DEF InTouch, HasSession, StartsAtService
    <3>2. ParentsThere' /\ HostPathFree' /\ BeatenByAnother'
      BY <1>5, <2>2 DEF ParentsThere, HostPathFree, BeatenByAnother, ParentExists, PathExists
    <3>3. MakerLives'
      BY <1>5, <2>2 DEF MakerLives
    <3> QED  BY <3>1, <3>2, <3>3
  <2> QED  BY <2>1, <2>2
<1>6. ASSUME NEW h \in Hosts, ExistsFails(h) PROVE Calm'
  BY <1>6 DEF ExistsFails, InTouch
<1>7. ASSUME NEW h \in Hosts, Create(h) PROVE Calm'
  <2>1. Advance(h) /\ Make(h) /\ UNCHANGED life /\ pc[h] = "create"
    BY <1>7 DEF Create
  <2>2. /\ live' = live /\ dirs \subseteq dirs'
        /\ kind[h] = "dir" => target[h] \in dirs' /\ lastMaker' = h /\ node' = node
        /\ kind[h] = "host"
             => dirs' = dirs /\ lastMaker' = lastMaker
                /\ \A m \in Methods, g \in Hosts \ {h} : node'[m][g] = node[m][g]
    BY <2>1 DEF Make, TypeOK
  <2>3. /\ \A g \in Hosts \ {h} : /\ pc'[g] = pc[g]
                                  /\ kind'[g] = kind[g] /\ target'[g] = target[g]
        /\ pc'[h] \in {"exists", "binding"}
        /\ pc'[h] = "exists"
             => ParentExists(h)' /\ (kind'[h] = "host" => Service \in dirs')
    BY <2>1, <2>2, GoOnCalm DEF ParentsThere
  <2>4. InTouch' /\ StartsAtService'
    BY <2>1, <2>2, <2>3 DEF InTouch, HasSession, StartsAtService
  <2>5. ParentsThere'
    BY <2>2, <2>3 DEF ParentsThere, ParentExists
  <2>6. HostPathFree'
    BY <2>2, <2>3 DEF HostPathFree, TypeOK
  <2>7. BeatenByAnother'
    BY <2>1, <2>2, <2>3 DEF BeatenByAnother, TypeOK, Make
  <2>8. MakerLives'
    BY <2>1, <2>2, <2>3 DEF MakerLives, TypeOK
  <2> QED  BY <2>4, <2>5, <2>6, <2>7, <2>8
<1>8. ASSUME NEW h \in Hosts, CreateRefused(h) PROVE Calm'
  <2> USE DEF Goto, zookeeper, place, history, TypeOK
  <2>1. kind[h] = "dir" /\ target[h] \in dirs /\ lastMaker # h
    BY <1>8 DEF CreateRefused, PathExists, InTouch, ParentsThere, HostPathFree, BeatenByAnother
  <2>2. InTouch' /\ StartsAtService'
    BY <1>8 DEF CreateRefused, InTouch, HasSession, StartsAtService
  <2>3. ParentsThere' /\ HostPathFree' /\ BeatenByAnother'
    BY <1>8 DEF CreateRefused, ParentsThere, HostPathFree, BeatenByAnother, ParentExists
  <2>4. MakerLives'
    BY <1>8, <2>1 DEF CreateRefused, MakerLives
  <2> QED  BY <2>2, <2>3, <2>4
<1>9. ASSUME NEW h \in Hosts, Stop(h) PROVE Calm'
  <2> USE DEF Stop, EndSession, Goto, place, history, TypeOK
  <2>1. InTouch' /\ StartsAtService'
    BY <1>9 DEF InTouch, HasSession, StartsAtService
  <2>2. ParentsThere' /\ BeatenByAnother'
    BY <1>9 DEF ParentsThere, BeatenByAnother, ParentExists
  <2>3. HostPathFree'
    BY <1>9 DEF HostPathFree
  <2>4. MakerLives'
    BY <1>9 DEF MakerLives
  <2> QED  BY <2>1, <2>2, <2>3, <2>4
<1>10. ASSUME NEW h \in Hosts, NEW n \in 1 .. MaxLives, Expire(h, n) PROVE Calm'
  <2>1. ~(n = life[h] /\ pc[h] \in Running) /\ EndSession(h, n)
        /\ UNCHANGED <<pc, life, place, history>>
    BY <1>10 DEF Expire
  <2> USE DEF EndSession, place, history, TypeOK
  <2>2. InTouch' /\ StartsAtService'
    BY <2>1 DEF InTouch, HasSession, StartsAtService, Running
  <2>3. ParentsThere' /\ BeatenByAnother'
    BY <2>1 DEF ParentsThere, BeatenByAnother, ParentExists
  <2>4. HostPathFree'
    BY <2>1 DEF HostPathFree
  <2>5. MakerLives'
    BY <2>1 DEF MakerLives
  <2> QED  BY <2>2, <2>3, <2>4, <2>5
<1>11. ASSUME UNCHANGED vars PROVE Calm'
  BY <1>11 DEF vars, zookeeper, place, history, InTouch, HasSession, StartsAtService,
               ParentsThere, ParentExists, HostPathFree, BeatenByAnother, MakerLives
<1> QED
  BY <1>1, <1>2, <1>3, <1>4, <1>5, <1>6, <1>7, <1>8, <1>9, <1>10, <1>11 DEF Next

LEMMA CalmSurvives == IInv => SomeoneSurvives
  BY RegistrationAssumption DEF IInv, Calm, MakerLives, SomeoneSurvives

(* Every variable of Registration keeps its type, whatever the number of     *)
(* providers, methods, lives and faults.                                     *)
THEOREM TypeCorrect == Spec => []TypeOK
<1>1. Init => TypeOK
  BY InitInv DEF IInv
<1>2. TypeOK /\ [Next]_vars => TypeOK'
  BY TypeStep
<1> QED  BY <1>1, <1>2, PTL DEF Spec

(* However many providers race for the directories: while nothing fails,     *)
(* not all of them exit.                                                     *)
THEOREM RaceLeavesOne == Spec => []SomeoneSurvives
<1>1. IInv /\ [Next]_vars => IInv'
  BY TypeStep, CalmStep DEF IInv
<1> QED  BY InitInv, <1>1, CalmSurvives, PTL DEF Spec

-----------------------------------------------------------------------------
(* What h has left behind: all it has passed while it goes through the       *)
(* methods, everything once it has come to the end.                          *)
Published(h, m) ==
    \/ node[m][h] = life[h]
    \/ m \in inherited[h]
    \/ m \in skipped[h]

Passed(h, m) ==
    \/ pc[h] \in {"exists", "create"} /\ m \notin todo[h] /\ m # target[h]
    \/ pc[h] \in {"binding", "serving"}

AllToDo == \A h \in Hosts : pc[h] \in {"init", "waiting"} => todo[h] = Methods

PassedIsPublished ==
    \A h \in Hosts, m \in Methods : Passed(h, m) /\ HasSession(h) => Published(h, m)

PublishInv == TypeOK /\ AllToDo /\ PassedIsPublished

(* Advance passes a method only with the node of the host in it.             *)
LEMMA GoOnPasses ==
    ASSUME TypeOK, NEW h \in Hosts, Advance(h)
    PROVE  /\ \A g \in Hosts \ {h} : /\ pc'[g] = pc[g] /\ todo'[g] = todo[g]
                                     /\ target'[g] = target[g]
           /\ pc'[h] \in {"exists", "binding"}
           /\ \A m \in Methods :
                 \/ pc'[h] = "exists" /\ (m \in todo'[h] \/ m = target'[h])
                 \/ kind[h] = "host" /\ m = target[h]
                 \/ m \notin todo[h] /\ m # target[h]
<1>1. CASE kind[h] = "dir" /\ target[h] # Service
          /\ kind' = [kind EXCEPT ![h] = "host"] /\ Goto(h, "exists")
          /\ UNCHANGED <<target, todo>>
  BY <1>1 DEF TypeOK, Goto
<1>2. CASE /\ Goto(h, "exists") /\ (kind[h] = "host" \/ target[h] = Service)
           /\ \E m \in todo[h] :
                 /\ kind' = [kind EXCEPT ![h] = "dir"]
                 /\ target' = [target EXCEPT ![h] = m]
                 /\ todo' = [todo EXCEPT ![h] = @ \ {m}]
  BY <1>2, RegistrationAssumption DEF TypeOK, Goto
<1>3. CASE kind[h] = "host" /\ todo[h] = {} /\ Goto(h, "binding") /\ UNCHANGED place
  BY <1>3 DEF TypeOK, Goto, place
<1> QED  BY <1>1, <1>2, <1>3 DEF Advance, GoOn

(* The end of a session takes no node of another life.                       *)
LEMMA SessionEnds ==
    ASSUME TypeOK, NEW h \in Hosts, NEW n \in Int, EndSession(h, n)
    PROVE  /\ \A g \in Hosts \ {h} :
                 live'[g] = live[g] /\ \A m \in Methods : node'[m][g] = node[m][g]
           /\ \A k \in live'[h] :
                 k \in live[h] /\ \A m \in Methods : node[m][h] = k => node'[m][h] = k
  BY DEF TypeOK, EndSession

LEMMA PublishStep == PublishInv /\ [Next]_vars => PublishInv'
<1> SUFFICES ASSUME PublishInv, [Next]_vars PROVE AllToDo' /\ PassedIsPublished'
  BY TypeStep DEF PublishInv
<1>0. TypeOK /\ AllToDo /\ PassedIsPublished
  BY DEF PublishInv
<1> USE <1>0
<1> USE DEF AllToDo, PassedIsPublished, Passed, Published, HasSession
<1>1. ASSUME NEW h \in Hosts, Start(h) \/ InitFails(h) PROVE AllToDo' /\ PassedIsPublished'
  <2>1. CASE Start(h)
    BY <2>1 DEF Start, Begin, Goto, zookeeper, TypeOK
  <2>2. CASE InitFails(h)
    BY <2>2 DEF InitFails, Begin, Goto, zookeeper, TypeOK
  <2> QED  BY <1>1, <2>1, <2>2
<1>2. ASSUME NEW h \in Hosts, SetContext(h) \/ Listen(h) \/ CreateRefused(h)
      PROVE  AllToDo' /\ PassedIsPublished'
  BY <1>2 DEF SetContext, Listen, CreateRefused, Goto, zookeeper, place, history, TypeOK
<1>3. ASSUME NEW h \in Hosts, Connected(h) PROVE AllToDo' /\ PassedIsPublished'
  BY <1>3 DEF Connected, Goto, place, history, TypeOK
<1>4. ASSUME NEW h \in Hosts, ConnectedEarly(h) PROVE AllToDo' /\ PassedIsPublished'
  BY <1>4 DEF ConnectedEarly, Goto, place, history, TypeOK
<1>5. ASSUME NEW h \in Hosts, Reconnected(h) \/ ListenFails(h) \/ Kill(h)
      PROVE  AllToDo' /\ PassedIsPublished'
  BY <1>5 DEF Reconnected, ListenFails, Kill, Goto, zookeeper, place, history, TypeOK
<1>6. ASSUME NEW h \in Hosts, Exists(h) PROVE AllToDo' /\ PassedIsPublished'
  <2>1. CASE PathExists(h)
    <3>1. Advance(h) /\ UNCHANGED <<zookeeper, life, skipped>> /\ pc[h] = "exists"
          /\ inherited' = [inherited EXCEPT ![h] =
                             IF kind[h] = "host" THEN @ \cup {target[h]} ELSE @]
      BY <1>6, <2>1 DEF Exists
    <3>2. /\ \A g \in Hosts, m \in Methods : m \in inherited[g] => m \in inherited'[g]
          /\ kind[h] = "host" => target[h] \in inherited'[h]
      BY <3>1 DEF TypeOK
    <3> QED  BY <3>1, <3>2, GoOnPasses DEF zookeeper
  <2>2. CASE ~PathExists(h)
    BY <1>6, <2>2 DEF Exists, Goto, zookeeper, place, TypeOK
  <2> QED  BY <2>1, <2>2
<1>7. ASSUME NEW h \in Hosts, ExistsFails(h) PROVE AllToDo' /\ PassedIsPublished'
  <2>1. Advance(h) /\ UNCHANGED <<zookeeper, life, inherited>> /\ pc[h] = "exists"
        /\ skipped' = [skipped EXCEPT ![h] = @ \cup {target[h]}]
    BY <1>7 DEF ExistsFails
  <2>2. /\ \A g \in Hosts, m \in Methods : m \in skipped[g] => m \in skipped'[g]
        /\ target[h] \in skipped'[h]
    BY <2>1 DEF TypeOK
  <2> QED  BY <2>1, <2>2, GoOnPasses DEF zookeeper
<1>8. ASSUME NEW h \in Hosts, Create(h) PROVE AllToDo' /\ PassedIsPublished'
  <2>1. Advance(h) /\ Make(h) /\ UNCHANGED <<life, skipped, inherited>> /\ pc[h] = "create"
    BY <1>8 DEF Create
  <2>2. /\ live' = live
        /\ \A g \in Hosts, m \in Methods : node[m][g] = life[g] => node'[m][g] = life[g]
        /\ kind[h] = "host" => node'[target[h]][h] = life[h]
    BY <2>1 DEF Make, TypeOK
  <2> QED  BY <2>1, <2>2, GoOnPasses
<1>9. ASSUME NEW h \in Hosts, CreateFails(h) PROVE AllToDo' /\ PassedIsPublished'
  <2>1. /\ live' = live
        /\ \A g \in Hosts \ {h}, m \in Methods : node'[m][g] = node[m][g]
    BY <1>9 DEF CreateFails, Make, zookeeper, TypeOK
  <2> QED  BY <1>9, <2>1 DEF CreateFails, Goto, place, TypeOK
<1>10. ASSUME NEW h \in Hosts, Stop(h) PROVE AllToDo' /\ PassedIsPublished'
  <2>1. life[h] \in Int /\ EndSession(h, life[h])
    BY <1>10 DEF Stop, TypeOK
  <2> QED  BY <1>10, <2>1, SessionEnds DEF Stop, Goto, place, history, TypeOK
<1>11. ASSUME NEW h \in Hosts, NEW n \in 1 .. MaxLives, Expire(h, n)
       PROVE  AllToDo' /\ PassedIsPublished'
  <2>1. n \in Int /\ EndSession(h, n) /\ UNCHANGED <<pc, life, place, history>>
    BY <1>11 DEF Expire
  <2> QED  BY <2>1, SessionEnds DEF place, history
<1>12. ASSUME UNCHANGED vars PROVE AllToDo' /\ PassedIsPublished'
  BY <1>12 DEF vars, zookeeper, place, history
<1> QED
  BY <1>1, <1>2, <1>3, <1>4, <1>5, <1>6, <1>7, <1>8, <1>9, <1>10, <1>11, <1>12 DEF Next

(* A provider that serves with a session has its node in every method, but   *)
(* where an exists failed or found the node of an earlier life.              *)
THEOREM ServingIsPublished == Spec => []ServesWhatItPublished
<1>1. Init => PublishInv
  BY InitInv DEF IInv, Init, PublishInv, AllToDo, PassedIsPublished, Passed
<1>2. PublishInv => ServesWhatItPublished
  BY DEF PublishInv, PassedIsPublished, Passed, Published, ServesWhatItPublished
<1> QED  BY <1>1, <1>2, PublishStep, PTL DEF Spec
=============================================================================
