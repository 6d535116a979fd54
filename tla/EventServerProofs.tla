------------------------- MODULE EventServerProofs -------------------------
(* Theorems about EventServer for any sockets, commands, devices and sizes, *)
(* first with commands that overlap at will, then with commands one at a time. *)
EXTENDS EventServer, GroupingProofs

USE DEF Goto, Proceed

----------------------------------------------------------------------------
(* The assignment loop always has a participant to turn to: the index it    *)
(* reads the membership of is one of the listed.                            *)
LoopHasWork ==
  \A c \in Command : pc[c] \in {"getMembership", "assign"} => left[c] # {}

(* What a partition is going to store are groups, one for every participant *)
(* it listed; only a partition stores any.                                  *)
PlanComplete ==
  \A c \in Command :
    /\ pc[c] = "idle" => listed[c] = {}
    /\ op[c] = "partition" => \A p \in listed[c] : plan[c][p] \in Gid
    /\ pc[c] = "putGroups" => op[c] = "partition"

TaskInv == TaskTypeOK /\ LoopHasWork /\ PlanComplete

IndType == StoreTypeOK /\ HubTypeOK /\ TaskInv /\ GatewayTypeOK

LEMMA FirstSocket ==
  ASSUME NEW P \in SUBSET Socket, P # {}
  PROVE  First(P, KeyOrder) \in P
<1>1. \A p \in P : KeyOrder[p] \in Nat
  BY ServerAssumption
<1> QED
  BY <1>1, FirstInSet

LEMMA PlanType ==
  ASSUME TaskTypeOK, NEW c \in Command, NEW P \in SUBSET Socket
  PROVE  /\ PlanFor(c, P) \in [Socket -> Gid \cup {NoGroup}]
         /\ op[c] = "partition" => \A p \in P : PlanFor(c, P)[p] \in Gid
<1>1. IsFiniteSet(P)
  BY ServerAssumption, FS_Subset
<1>2. size[c] \in Nat \ {0}
  BY DEF TaskTypeOK
<1>3. \A p \in P : GroupIndex(p, P, joinedAt, KeyOrder, size[c]) \in Nat
  BY <1>1, <1>2, GroupIndexType
<1> QED
  BY <1>3 DEF PlanFor, Gid

LEMMA InitIndType == Init => IndType
<1> SUFFICES ASSUME Init PROVE IndType
  OBVIOUS
<1>1. StoreTypeOK
  BY DEF Init, StoreInit, StoreTypeOK, Phase
<1>2. HubTypeOK
  BY DEF Init, HubInit, HubTypeOK
<1>3. TaskInv
  BY DEF Init, TaskInit, TaskInv, TaskTypeOK, LoopHasWork, PlanComplete, Phase
<1>4. GatewayTypeOK
  BY DEF Init, GatewayInit, GatewayTypeOK
<1> QED
  BY <1>1, <1>2, <1>3, <1>4 DEF IndType

\* Which of the four parts of the state a step leaves alone.
LEMMA StoreTypeUnchanged == StoreTypeOK /\ UNCHANGED storeVars => StoreTypeOK'
  BY DEF StoreTypeOK, storeVars
LEMMA HubTypeUnchanged == HubTypeOK /\ UNCHANGED hubVars => HubTypeOK'
  BY DEF HubTypeOK, hubVars
LEMMA TaskInvUnchanged == TaskInv /\ UNCHANGED taskVars => TaskInv'
  BY DEF TaskInv, TaskTypeOK, LoopHasWork, PlanComplete, taskVars, request
LEMMA GatewayTypeUnchanged ==
  GatewayTypeOK /\ UNCHANGED gatewayVars => GatewayTypeOK'
  BY DEF GatewayTypeOK, gatewayVars

LEMMA ReceiveType ==
  ASSUME IndType, NEW c \in Command, ReceiveCommand(c)
  PROVE  StoreTypeOK' /\ HubTypeOK' /\ TaskInv'
<1>1. PICK kind \in {"partition", "merge", "phase"}, new \in Phase, n \in Nat \ {0} :
         Receive(c, kind, new, n)
  BY ServerAssumption
     DEF ReceiveCommand, ReceivePartition, ReceiveMerge, ReceivePhase, Phase
<1>2. StoreTypeOK' /\ HubTypeOK'
  BY <1>1, StoreTypeUnchanged, HubTypeUnchanged DEF Receive, IndType
<1>3. TaskTypeOK'
  BY <1>1 DEF Receive, IndType, TaskInv, TaskTypeOK, Steps, StoreSteps
<1>4. LoopHasWork' /\ PlanComplete'
  BY <1>1 DEF Receive, IndType, TaskInv, TaskTypeOK, LoopHasWork, PlanComplete
<1> QED
  BY <1>2, <1>3, <1>4 DEF TaskInv

LEMMA StoreOpType ==
  ASSUME StoreTypeOK
  PROVE  /\ \A new \in Phase, b \in BOOLEAN : SetEventPhase(new, b) => StoreTypeOK'
         /\ \A p \in Socket : UpsertParticipant(p) => StoreTypeOK'
         /\ \A p \in Socket, g \in Gid \cup {NoGroup} :
              UpsertMembership(p, g) => StoreTypeOK'
         /\ \A P \in SUBSET Socket, m \in [Socket -> Gid \cup {NoGroup}] :
              SetMemberships(P, m) => StoreTypeOK'
         /\ \A g : DeleteGroup(g) => StoreTypeOK'
         /\ \A G \in SUBSET Gid : PutGroups(G) => StoreTypeOK'
<1>1. ASSUME NEW new \in Phase, NEW b \in BOOLEAN, SetEventPhase(new, b)
      PROVE  StoreTypeOK'
  BY <1>1 DEF SetEventPhase, StoreTypeOK
<1>2. ASSUME NEW p \in Socket, UpsertParticipant(p) PROVE StoreTypeOK'
  BY <1>2 DEF UpsertParticipant, StoreTypeOK
<1>3. ASSUME NEW p \in Socket, NEW g \in Gid \cup {NoGroup}, UpsertMembership(p, g)
      PROVE  StoreTypeOK'
  BY <1>3 DEF UpsertMembership, StoreTypeOK
<1>4. ASSUME NEW P \in SUBSET Socket, NEW m \in [Socket -> Gid \cup {NoGroup}],
             SetMemberships(P, m)
      PROVE  StoreTypeOK'
  BY <1>4 DEF SetMemberships, StoreTypeOK
<1>5. ASSUME NEW g, DeleteGroup(g) PROVE StoreTypeOK'
  BY <1>5 DEF DeleteGroup, StoreTypeOK
<1>6. ASSUME NEW G \in SUBSET Gid, PutGroups(G) PROVE StoreTypeOK'
  BY <1>6 DEF PutGroups, StoreTypeOK
<1> QED
  BY <1>1, <1>2, <1>3, <1>4, <1>5, <1>6

LEMMA HubOpType ==
  ASSUME HubTypeOK
  PROVE  /\ \A new \in Phase : SendPhaseChanged(new) => HubTypeOK'
         /\ \A p, g : g \in Gid \cup {NoGroup} /\ AssignGroup(p, g) => HubTypeOK'
         /\ DisconnectParticipants => HubTypeOK'
         /\ \A s \in Socket : Close(s) => HubTypeOK'
<1>1. ASSUME NEW new \in Phase, SendPhaseChanged(new) PROVE HubTypeOK'
  BY <1>1 DEF SendPhaseChanged, HubTypeOK
<1>2. ASSUME NEW p, NEW g \in Gid \cup {NoGroup}, AssignGroup(p, g) PROVE HubTypeOK'
  BY <1>2 DEF AssignGroup, HubTypeOK
<1>3. ASSUME DisconnectParticipants PROVE HubTypeOK'
  BY <1>3 DEF DisconnectParticipants, HubTypeOK
<1>4. ASSUME NEW s \in Socket, Close(s) PROVE HubTypeOK'
  BY <1>4 DEF Close, HubTypeOK
<1> QED
  BY <1>1, <1>2, <1>3, <1>4

LEMMA HandlerType ==
  ASSUME IndType, NEW c \in Command, HandlerStep(c)
  PROVE  StoreTypeOK' /\ HubTypeOK' /\ TaskInv'
<1> USE DEF IndType, TaskInv
<1>1. CASE CheckNotClosed(c)
  <2>1. StoreTypeOK' /\ HubTypeOK'
    BY <1>1, StoreTypeUnchanged, HubTypeUnchanged DEF CheckNotClosed
  <2> QED
    BY <1>1, <2>1 DEF CheckNotClosed, TaskTypeOK, LoopHasWork, PlanComplete,
                       Steps, StoreSteps, Ended, request
<1>2. CASE RejectClosed(c)
  <2>1. StoreTypeOK' /\ HubTypeOK'
    BY <1>2, StoreTypeUnchanged, HubTypeUnchanged DEF RejectClosed
  <2> QED
    BY <1>2, <2>1 DEF RejectClosed, TaskTypeOK, LoopHasWork, PlanComplete,
                       Steps, StoreSteps, Ended, request
<1>3. CASE ListParticipants(c)
  <2>1. StoreTypeOK' /\ HubTypeOK'
    BY <1>3, StoreTypeUnchanged, HubTypeUnchanged DEF ListParticipants
  <2>2. Participants \in SUBSET Socket
    BY DEF Participants
  <2>3. /\ PlanFor(c, Participants) \in [Socket -> Gid \cup {NoGroup}]
        /\ op[c] = "partition" =>
             \A p \in Participants : PlanFor(c, Participants)[p] \in Gid
    BY <2>2, PlanType
  <2> QED
    BY <1>3, <2>1, <2>2, <2>3 DEF ListParticipants, TaskTypeOK, LoopHasWork, PlanComplete,
                       Steps, StoreSteps, Ended, request
<1>4. CASE ListGroups(c)
  <2>1. StoreTypeOK' /\ HubTypeOK'
    BY <1>4, StoreTypeUnchanged, HubTypeUnchanged DEF ListGroups
  <2>2. groups \in SUBSET Gid
    BY DEF StoreTypeOK
  <2> QED
    BY <1>4, <2>1, <2>2 DEF ListGroups, TaskTypeOK, LoopHasWork, PlanComplete,
                       Steps, StoreSteps, Ended, request, AfterClear
<1>5. CASE DeleteOneGroup(c)
  <2>1. HubTypeOK'
    BY <1>5, HubTypeUnchanged DEF DeleteOneGroup
  <2>2. PICK g \in doomed[c] :
          /\ DeleteGroup(g)
          /\ doomed' = [doomed EXCEPT ![c] = @ \ {g}]
          /\ Goto(c, IF doomed[c] = {g} THEN AfterClear(c) ELSE "delete")
    BY <1>5 DEF DeleteOneGroup
  <2>3. StoreTypeOK'
    BY <2>2, StoreOpType
  <2> QED
    BY <1>5, <2>1, <2>2, <2>3 DEF DeleteOneGroup, TaskTypeOK, LoopHasWork, PlanComplete,
                       Steps, StoreSteps, Ended, request, AfterClear
<1>6. CASE WriteGroups(c)
  <2>1. HubTypeOK'
    BY <1>6, HubTypeUnchanged DEF WriteGroups
  <2>2. {plan[c][p] : p \in listed[c]} \in SUBSET Gid
    BY <1>6 DEF WriteGroups, PlanComplete
  <2>3. StoreTypeOK'
    BY <1>6, <2>2, StoreOpType DEF WriteGroups
  <2> QED
    BY <1>6, <2>1, <2>3 DEF WriteGroups, TaskTypeOK, LoopHasWork, PlanComplete,
                       Steps, StoreSteps, Ended, request
<1>7. CASE WriteMemberships(c)
  <2>1. HubTypeOK'
    BY <1>7, HubTypeUnchanged DEF WriteMemberships
  <2>2. listed[c] \in SUBSET Socket /\ plan[c] \in [Socket -> Gid \cup {NoGroup}]
    BY DEF TaskTypeOK
  <2>3. StoreTypeOK'
    BY <1>7, <2>2, StoreOpType DEF WriteMemberships
  <2> QED
    BY <1>7, <2>1, <2>3 DEF WriteMemberships, TaskTypeOK, LoopHasWork, PlanComplete,
                       Steps, StoreSteps, Ended, request
<1>8. CASE ReadEvent(c)
  <2>1. StoreTypeOK' /\ HubTypeOK'
    BY <1>8, StoreTypeUnchanged, HubTypeUnchanged DEF ReadEvent
  <2>2. closedAt \in BOOLEAN
    BY DEF StoreTypeOK
  <2> QED
    BY <1>8, <2>1, <2>2 DEF ReadEvent, TaskTypeOK, LoopHasWork, PlanComplete,
                       Steps, StoreSteps, Ended, request
<1>9. CASE WritePhase(c)
  <2>1. HubTypeOK'
    BY <1>9, HubTypeUnchanged DEF WritePhase
  <2>2. goal[c] \in Phase /\ stamped[c] \in BOOLEAN
    BY DEF TaskTypeOK
  <2>3. StoreTypeOK'
    BY <1>9, <2>2, StoreOpType DEF WritePhase
  <2> QED
    BY <1>9, <2>1, <2>3 DEF WritePhase, TaskTypeOK, LoopHasWork, PlanComplete,
                       Steps, StoreSteps, Ended, request
<1>10. CASE BroadcastPhase(c)
  <2>1. StoreTypeOK'
    BY <1>10, StoreTypeUnchanged DEF BroadcastPhase
  <2>2. goal[c] \in Phase
    BY DEF TaskTypeOK
  <2>3. HubTypeOK'
    BY <1>10, <2>2, HubOpType DEF BroadcastPhase
  <2> QED
    BY <1>10, <2>1, <2>3 DEF BroadcastPhase, TaskTypeOK, LoopHasWork, PlanComplete,
                       Steps, StoreSteps, Ended, request, TellStep
<1>11. CASE ReadMembership(c)
  <2>1. StoreTypeOK' /\ HubTypeOK'
    BY <1>11, StoreTypeUnchanged, HubTypeUnchanged DEF ReadMembership
  <2>2. left[c] \in SUBSET Socket /\ left[c] # {}
    BY <1>11 DEF ReadMembership, TaskTypeOK, LoopHasWork
  <2>3. First(left[c], KeyOrder) \in Socket
    BY <2>2, FirstSocket
  <2>4. membership[First(left[c], KeyOrder)] \in Gid \cup {NoGroup}
    BY <2>3 DEF StoreTypeOK
  <2> QED
    BY <1>11, <2>1, <2>4 DEF ReadMembership, TaskTypeOK, LoopHasWork, PlanComplete,
                       Steps, StoreSteps, Ended, request
<1>12. CASE TellGroup(c)
  <2>1. StoreTypeOK'
    BY <1>12, StoreTypeUnchanged DEF TellGroup
  <2> DEFINE p == First(left[c], KeyOrder)
  <2>2. left[c] \in SUBSET Socket /\ left[c] # {} /\ got[c] \in Gid \cup {NoGroup}
    BY <1>12 DEF TellGroup, TaskTypeOK, LoopHasWork
  <2>3. p \in left[c]
    BY <2>2, FirstSocket
  <2>4. HubTypeOK'
    BY <1>12, <2>2, HubOpType DEF TellGroup
  <2>5. /\ AssignGroup(p, got[c])
        /\ left' = [left EXCEPT ![c] = @ \ {p}]
        /\ Goto(c, IF left[c] = {p} THEN "done" ELSE TellStep(c))
    BY <1>12 DEF TellGroup
  <2> HIDE DEF p
  <2> QED
    BY <1>12, <2>1, <2>2, <2>3, <2>4, <2>5 DEF TellGroup, TaskTypeOK, LoopHasWork, PlanComplete,
                       Steps, StoreSteps, Ended, request, TellStep
<1>13. CASE Disconnect(c)
  <2>1. StoreTypeOK'
    BY <1>13, StoreTypeUnchanged DEF Disconnect
  <2>2. HubTypeOK'
    BY <1>13, HubOpType DEF Disconnect
  <2> QED
    BY <1>13, <2>1, <2>2 DEF Disconnect, TaskTypeOK, LoopHasWork, PlanComplete,
                       Steps, StoreSteps, Ended, request
<1> QED
  BY <1>1, <1>2, <1>3, <1>4, <1>5, <1>6, <1>7, <1>8, <1>9, <1>10, <1>11, <1>12,
     <1>13 DEF HandlerStep

LEMMA AttachFailedType ==
  ASSUME HubTypeOK, StoreTypeOK, GatewayTypeOK, NEW s \in Socket, AttachFailed(s)
  PROVE  StoreTypeOK' /\ HubTypeOK' /\ GatewayTypeOK'
<1>1. StoreTypeOK'
  BY StoreTypeUnchanged DEF AttachFailed
<1>2. HubTypeOK'
  BY DEF AttachFailed, HubTypeOK
<1>3. GatewayTypeOK'
  BY DEF AttachFailed, GatewayTypeOK
<1> QED
  BY <1>1, <1>2, <1>3

LEMMA AttachType ==
  ASSUME IndType, NEW s \in Socket, AttachStep(s)
  PROVE  StoreTypeOK' /\ HubTypeOK' /\ GatewayTypeOK'
<1> USE DEF IndType
<1>1. CASE AdmitToEvent(s)
  BY <1>1, StoreTypeUnchanged, HubTypeUnchanged DEF AdmitToEvent, GatewayTypeOK, AttachSteps
<1>2. CASE RefuseClosed(s)
  BY <1>2, AttachFailedType DEF RefuseClosed
<1>3. CASE FindParticipant(s)
  <2>1. SameDevice(s) \in SUBSET Socket /\ SameDevice(s) # {}
    BY <1>3 DEF FindParticipant, SameDevice, Participants
  <2>2. First(SameDevice(s), KeyOrder) \in Socket
    BY <2>1, FirstSocket
  <2>3. HubTypeOK'
    BY <1>3, <2>2 DEF FindParticipant, HubTypeOK
  <2> QED
    BY <1>3, <2>3, StoreTypeUnchanged DEF FindParticipant, GatewayTypeOK, AttachSteps
<1>4. CASE NewParticipant(s)
  BY <1>4, StoreTypeUnchanged, HubTypeUnchanged DEF NewParticipant, GatewayTypeOK, AttachSteps
<1>5. CASE PutParticipant(s)
  <2>1. pid[s] \in Socket
    BY DEF HubTypeOK
  <2> QED
    BY <1>5, <2>1, StoreOpType, HubTypeUnchanged
       DEF PutParticipant, GatewayTypeOK, AttachSteps
<1>6. CASE PutMembership(s)
  <2>1. pid[s] \in Socket /\ NoGroup \in Gid \cup {NoGroup}
    BY DEF HubTypeOK
  <2> QED
    BY <1>6, <2>1, StoreOpType, HubTypeUnchanged
       DEF PutMembership, GatewayTypeOK, AttachSteps
<1>7. CASE LoadGroup(s)
  <2>1. HubTypeOK'
    BY <1>7 DEF LoadGroup, HubTypeOK, StoreTypeOK, GatewayTypeOK
  <2> QED
    BY <1>7, <2>1, StoreTypeUnchanged DEF LoadGroup, GatewayTypeOK, AttachSteps
<1>8. CASE HubAttach(s)
  <2>1. HubTypeOK'
    BY <1>8 DEF HubAttach, HubTypeOK, StoreTypeOK, GatewayTypeOK
  <2> QED
    BY <1>8, <2>1, StoreTypeUnchanged DEF HubAttach, GatewayTypeOK, AttachSteps
<1>9. CASE WelcomeReadEvent(s)
  BY <1>9, StoreTypeUnchanged, HubTypeUnchanged
     DEF WelcomeReadEvent, StoreTypeOK, GatewayTypeOK, AttachSteps
<1>10. CASE SendWelcome(s)
  <2>1. HubTypeOK'
    BY <1>10 DEF SendWelcome, HubTypeOK, StoreTypeOK, GatewayTypeOK
  <2> QED
    BY <1>10, <2>1, StoreTypeUnchanged DEF SendWelcome, GatewayTypeOK, AttachSteps
<1> QED
  BY <1>1, <1>2, <1>3, <1>4, <1>5, <1>6, <1>7, <1>8, <1>9, <1>10 DEF AttachStep

LEMMA NextIndType == IndType /\ [Next]_vars => IndType'
<1> SUFFICES ASSUME IndType, [Next]_vars PROVE IndType'
  OBVIOUS
<1> USE DEF IndType
<1>1. ASSUME NEW c \in Command, CommandArrives(c) PROVE IndType'
  BY <1>1, ReceiveType, GatewayTypeUnchanged DEF CommandArrives
<1>2. ASSUME NEW c \in Command, CommandRuns(c) PROVE IndType'
  BY <1>2, HandlerType, GatewayTypeUnchanged DEF CommandRuns
<1>3. ASSUME NEW c \in Command, CommandFails(c) PROVE IndType'
  <2>1. StoreTypeOK' /\ HubTypeOK' /\ GatewayTypeOK'
    BY <1>3, StoreTypeUnchanged, HubTypeUnchanged, GatewayTypeUnchanged
       DEF CommandFails, FailCommand
  <2>2. TaskInv'
    BY <1>3 DEF CommandFails, FailCommand, TaskInv, TaskTypeOK, LoopHasWork,
                PlanComplete, Ended, request
  <2> QED
    BY <2>1, <2>2
<1>4. ASSUME NEW s \in Socket, SocketArrives(s) PROVE IndType'
  <2>1. StoreTypeOK' /\ TaskInv'
    BY <1>4, StoreTypeUnchanged, TaskInvUnchanged DEF SocketArrives, Connect
  <2>2. HubTypeOK' /\ GatewayTypeOK'
    BY <1>4 DEF SocketArrives, Connect, HubTypeOK, GatewayTypeOK, AttachSteps
  <2> QED
    BY <2>1, <2>2
<1>5. ASSUME NEW s \in Socket, SocketAttaches(s) PROVE IndType'
  BY <1>5, AttachType, TaskInvUnchanged DEF SocketAttaches
<1>6. ASSUME NEW s \in Socket, AttachFails(s) PROVE IndType'
  BY <1>6, AttachFailedType, TaskInvUnchanged DEF AttachFails, FailAttach
<1>7. ASSUME NEW s \in Socket, SocketCloses(s) PROVE IndType'
  <2>1. StoreTypeOK' /\ TaskInv' /\ HubTypeOK'
    BY <1>7, StoreTypeUnchanged, TaskInvUnchanged, HubOpType
       DEF SocketCloses, CloseEvent
  <2>2. GatewayTypeOK'
    BY <1>7 DEF SocketCloses, CloseEvent, GatewayTypeOK
  <2> QED
    BY <2>1, <2>2
<1>8. CASE Crash
  <2>1. StoreTypeOK'
    BY <1>8, StoreTypeUnchanged DEF Crash
  <2>2. HubTypeOK'
    BY <1>8 DEF Crash, HubTypeOK
  <2>3. TaskInv'
    BY <1>8 DEF Crash, TaskInv, TaskTypeOK, LoopHasWork, PlanComplete, Ended, request
  <2>4. GatewayTypeOK'
    BY <1>8 DEF Crash, GatewayTypeOK
  <2> QED
    BY <2>1, <2>2, <2>3, <2>4
<1>9. CASE UNCHANGED vars
  BY <1>9, StoreTypeUnchanged, HubTypeUnchanged, TaskInvUnchanged,
     GatewayTypeUnchanged DEF vars
<1> QED
  BY <1>1, <1>2, <1>3, <1>4, <1>5, <1>6, <1>7, <1>8, <1>9 DEF Next, Rest

THEOREM IndTypeCorrect == Spec => []IndType
<1>1. Init => IndType
  BY InitIndType
<1>2. IndType /\ [Next]_vars => IndType'
  BY NextIndType
<1> QED
  BY <1>1, <1>2, PTL DEF Spec

(* The state is well formed whatever overlaps and whatever fails: in        *)
(* particular what the server stores as groups and memberships are groups,  *)
(* and a handler that looks up a participant finds one.                     *)
THEOREM TypeCorrect == Spec => []TypeOK
<1>1. IndType => TypeOK
  BY DEF IndType, TaskInv, TypeOK
<1> QED
  BY <1>1, IndTypeCorrect, PTL

----------------------------------------------------------------------------
(* GroupCapacity.  A group of the store belongs to one command, and so to   *)
(* one computation of partitionIntoGroups, kept in plan.  A membership is   *)
(* never anything but what that plan says of the participant, so the        *)
(* members of a group are among those the plan put there, who are at most   *)
(* `size' by GroupsWithinSize.                                              *)
BeforePlan == {"idle", "check", "list"}

PlanWithinSize ==
  \A c \in Command : \A i \in Nat :
    Cardinality({p \in Socket : plan[c][p] = <<c, i>>}) <= size[c]

PlanTagged ==
  \A c \in Command : \A p \in Socket :
    plan[c][p] # NoGroup => pc[c] \notin BeforePlan /\ plan[c][p] \in {c} \X Nat

MembershipPlanned ==
  \A p \in Socket : membership[p] # NoGroup =>
    \E c \in Command : membership[p] = plan[c][p]

CapacityInv == PlanWithinSize /\ PlanTagged /\ MembershipPlanned

LEMMA NoGroupIsNoPair == \A c \in Command : \A i \in Nat : NoGroup # <<c, i>>
  BY SentinelAssumption DEF Gid

LEMMA InitCapacity == Init => CapacityInv
<1> SUFFICES ASSUME Init PROVE CapacityInv
  OBVIOUS
<1>1. \A c \in Command : \A p \in Socket : plan[c][p] = NoGroup
  BY DEF Init, TaskInit
<1>2. \A c \in Command : \A i \in Nat : {p \in Socket : plan[c][p] = <<c, i>>} = {}
  BY <1>1, NoGroupIsNoPair
<1>3. PlanWithinSize
  <2> SUFFICES ASSUME NEW c \in Command, NEW i \in Nat
               PROVE  Cardinality({p \in Socket : plan[c][p] = <<c, i>>}) <= size[c]
    BY DEF PlanWithinSize
  <2>1. size[c] = 1
    BY DEF Init, TaskInit
  <2>2. Cardinality({p \in Socket : plan[c][p] = <<c, i>>}) = 0
    BY <1>2, FS_EmptySet, Zenon
  <2> QED
    BY <2>1, <2>2
<1>4. PlanTagged /\ MembershipPlanned
  BY <1>1 DEF Init, StoreInit, PlanTagged, MembershipPlanned
<1> QED
  BY <1>3, <1>4 DEF CapacityInv

\* The steps that touch neither plans nor memberships.
LEMMA CapacityUnchanged ==
  ASSUME CapacityInv, UNCHANGED <<membership, plan, size>>,
         \A c \in Command : pc[c] \notin BeforePlan => pc'[c] \notin BeforePlan
  PROVE  CapacityInv'
<1>1. PlanWithinSize'
  <2> SUFFICES ASSUME NEW d \in Command, NEW i \in Nat
               PROVE  Cardinality({p \in Socket : plan'[d][p] = <<d, i>>}) <= size'[d]
    BY DEF PlanWithinSize
  <2>1. {p \in Socket : plan'[d][p] = <<d, i>>} = {p \in Socket : plan[d][p] = <<d, i>>}
    OBVIOUS
  <2> QED
    BY <2>1 DEF CapacityInv, PlanWithinSize
<1>2. PlanTagged'
  BY DEF CapacityInv, PlanTagged
<1>3. MembershipPlanned'
  BY DEF CapacityInv, MembershipPlanned
<1> QED
  BY <1>1, <1>2, <1>3 DEF CapacityInv

LEMMA ReceiveCapacity ==
  ASSUME IndType, CapacityInv, NEW c \in Command, ReceiveCommand(c)
  PROVE  CapacityInv'
<1>1. PICK kind \in {"partition", "merge", "phase"}, new \in Phase, n \in Nat \ {0} :
         Receive(c, kind, new, n)
  BY ServerAssumption
     DEF ReceiveCommand, ReceivePartition, ReceiveMerge, ReceivePhase, Phase
<1>2. /\ plan' = plan /\ membership' = membership
      /\ size' = [size EXCEPT ![c] = n]
      /\ pc[c] = "idle" /\ pc' = [pc EXCEPT ![c] = "check"]
  BY <1>1 DEF Receive, storeVars
<1>3. \A p \in Socket : plan[c][p] = NoGroup
  BY <1>2 DEF CapacityInv, PlanTagged, BeforePlan
<1>4. \A i \in Nat : {p \in Socket : plan[c][p] = <<c, i>>} = {}
  BY <1>3, NoGroupIsNoPair
<1>5. size'[c] \in Nat /\ \A d \in Command : d # c => size'[d] = size[d]
  BY <1>2 DEF IndType, TaskInv, TaskTypeOK
<1>6. PlanWithinSize'
  <2> SUFFICES ASSUME NEW d \in Command, NEW i \in Nat
               PROVE  Cardinality({p \in Socket : plan'[d][p] = <<d, i>>}) <= size'[d]
    BY DEF PlanWithinSize
  <2>1. CASE d = c
    <3>1. Cardinality({p \in Socket : plan[c][p] = <<c, i>>}) = 0
      BY <1>4, FS_EmptySet, Zenon
    <3> QED
      BY <2>1, <3>1, <1>2, <1>5
  <2>2. CASE d # c
    BY <2>2, <1>2, <1>5 DEF CapacityInv, PlanWithinSize
  <2> QED
    BY <2>1, <2>2
<1>7. PlanTagged'
  <2> SUFFICES ASSUME NEW d \in Command, NEW p \in Socket, plan'[d][p] # NoGroup
               PROVE  pc'[d] \notin BeforePlan /\ plan'[d][p] \in {d} \X Nat
    BY DEF PlanTagged
  <2>1. d # c
    BY <1>2, <1>3
  <2>2. pc'[d] = pc[d] /\ plan'[d] = plan[d]
    BY <2>1, <1>2 DEF IndType, TaskInv, TaskTypeOK
  <2> QED
    BY <2>2 DEF CapacityInv, PlanTagged
<1>8. MembershipPlanned'
  BY <1>2 DEF CapacityInv, MembershipPlanned
<1> QED
  BY <1>6, <1>7, <1>8 DEF CapacityInv

\* The step that computes a plan: here the arithmetic of Grouping is used.
LEMMA ListCapacity ==
  ASSUME IndType, CapacityInv, NEW c \in Command, ListParticipants(c)
  PROVE  CapacityInv'
<1> DEFINE P == Participants
<1>1. P \in SUBSET Socket /\ IsFiniteSet(P)
  BY ServerAssumption, FS_Subset DEF Participants
<1>2. /\ pc[c] = "list" /\ pc' = [pc EXCEPT ![c] = "listGroups"]
      /\ plan' = [plan EXCEPT ![c] = PlanFor(c, P)]
      /\ membership' = membership /\ size' = size
  BY DEF ListParticipants, storeVars, request
<1>3. size[c] \in Nat \ {0}
  BY DEF IndType, TaskInv, TaskTypeOK
<1>4. plan'[c] = PlanFor(c, P) /\ \A d \in Command : d # c => plan'[d] = plan[d]
  BY <1>2 DEF IndType, TaskInv, TaskTypeOK
<1>5. \A p \in Socket : plan[c][p] = NoGroup
  BY <1>2 DEF CapacityInv, PlanTagged, BeforePlan
<1>6. \A p \in P : GroupIndex(p, P, joinedAt, KeyOrder, size[c]) \in Nat
  BY <1>1, <1>3, GroupIndexType
<1>7. PlanWithinSize'
  <2> SUFFICES ASSUME NEW d \in Command, NEW i \in Nat
               PROVE  Cardinality({p \in Socket : plan'[d][p] = <<d, i>>}) <= size[d]
    BY <1>2 DEF PlanWithinSize
  <2>1. CASE d # c
    BY <2>1, <1>4 DEF CapacityInv, PlanWithinSize
  <2>2. CASE d = c
    <3> DEFINE M == {p \in P : GroupIndex(p, P, joinedAt, KeyOrder, size[c]) = i}
               L == {p \in Socket : plan'[c][p] = <<c, i>>}
    <3>1. /\ \A x \in P : joinedAt[x] \in Nat /\ KeyOrder[x] \in Nat
          /\ \A x, y \in P : KeyOrder[x] = KeyOrder[y] => x = y
      BY <1>1, ServerAssumption DEF IndType, StoreTypeOK
    <3>2. Cardinality(M) <= size[c]
      BY <3>1, <1>1, <1>3, GroupsWithinSize
    <3>3. \A p \in L : p \in M
      BY <1>4, NoGroupIsNoPair DEF PlanFor
    <3>4. IsFiniteSet(M) /\ L \in SUBSET M
      BY <3>3, <1>1, FS_Subset
    <3> HIDE DEF M, L
    <3>5. Cardinality(L) <= Cardinality(M) /\ Cardinality(L) \in Nat /\ Cardinality(M) \in Nat
      BY <3>4, FS_Subset, FS_CardinalityType
    <3>6. Cardinality(L) <= size[c]
      BY <3>2, <3>5, <1>3
    <3> QED
      BY <3>6, <2>2 DEF L
  <2> QED
    BY <2>1, <2>2
<1>8. PlanTagged'
  <2> SUFFICES ASSUME NEW d \in Command, NEW p \in Socket, plan'[d][p] # NoGroup
               PROVE  pc'[d] \notin BeforePlan /\ plan'[d][p] \in {d} \X Nat
    BY DEF PlanTagged
  <2>1. CASE d # c
    BY <2>1, <1>2, <1>4 DEF CapacityInv, PlanTagged
  <2>2. CASE d = c
    <3>1. plan'[d][p] \in {d} \X Nat
      BY <2>2, <1>4, <1>6 DEF PlanFor
    <3>2. pc'[d] = "listGroups"
      BY <2>2, <1>2 DEF IndType, TaskInv, TaskTypeOK
    <3> QED
      BY <3>1, <3>2 DEF BeforePlan
  <2> QED
    BY <2>1, <2>2
<1>9. MembershipPlanned'
  BY <1>2, <1>4, <1>5 DEF CapacityInv, MembershipPlanned
<1> QED
  BY <1>7, <1>8, <1>9 DEF CapacityInv

LEMMA HandlerCapacity ==
  ASSUME IndType, CapacityInv, NEW c \in Command, HandlerStep(c)
  PROVE  CapacityInv'
<1> USE DEF IndType, TaskInv, TaskTypeOK
<1>1. CASE ListParticipants(c)
  BY <1>1, ListCapacity
<1>2. CASE WriteMemberships(c)
  <2>1. /\ membership' = [p \in Socket |-> IF p \in listed[c] THEN plan[c][p] ELSE membership[p]]
        /\ plan' = plan /\ size' = size
        /\ pc' = [pc EXCEPT ![c] = "getEvent"]
    BY <1>2 DEF WriteMemberships, SetMemberships, request
  <2>2. MembershipPlanned'
    BY <2>1 DEF CapacityInv, MembershipPlanned
  <2>3. PlanWithinSize'
    BY <2>1 DEF CapacityInv, PlanWithinSize
  <2>4. PlanTagged'
    <3> SUFFICES ASSUME NEW d \in Command, NEW p \in Socket, plan[d][p] # NoGroup
                 PROVE  pc'[d] \notin BeforePlan /\ plan[d][p] \in {d} \X Nat
      BY <2>1 DEF PlanTagged
    <3> QED
      BY <2>1 DEF CapacityInv, PlanTagged, BeforePlan
  <2> QED
    BY <2>2, <2>3, <2>4 DEF CapacityInv
<1>3. CASE CheckNotClosed(c)
  <2>1. /\ UNCHANGED <<membership, plan, size>>
        /\ pc[c] = "check" /\ \E step : pc' = [pc EXCEPT ![c] = step]
    BY <1>3 DEF CheckNotClosed, storeVars, request
  <2> QED
    BY <2>1, CapacityUnchanged DEF BeforePlan
<1>4. ASSUME /\ UNCHANGED <<membership, plan, size>>
             /\ \E step : step \notin BeforePlan /\ pc' = [pc EXCEPT ![c] = step]
      PROVE  CapacityInv'
  BY <1>4, CapacityUnchanged
<1>5. CASE RejectClosed(c)
  BY <1>5, <1>4 DEF RejectClosed, BeforePlan, storeVars, request
<1>6. CASE ListGroups(c)
  BY <1>6, <1>4 DEF ListGroups, BeforePlan, storeVars, request, AfterClear
<1>7. CASE DeleteOneGroup(c)
  BY <1>7, <1>4 DEF DeleteOneGroup, BeforePlan, storeVars, request, AfterClear, DeleteGroup
<1>8. CASE WriteGroups(c)
  BY <1>8, <1>4 DEF WriteGroups, BeforePlan, storeVars, request, PutGroups
<1>9. CASE ReadEvent(c)
  BY <1>9, <1>4 DEF ReadEvent, BeforePlan, storeVars, request
<1>10. CASE WritePhase(c)
  BY <1>10, <1>4 DEF WritePhase, BeforePlan, storeVars, request, SetEventPhase
<1>11. CASE BroadcastPhase(c)
  BY <1>11, <1>4 DEF BroadcastPhase, BeforePlan, storeVars, request, TellStep
<1>12. CASE ReadMembership(c)
  BY <1>12, <1>4 DEF ReadMembership, BeforePlan, storeVars, request
<1>13. CASE TellGroup(c)
  BY <1>13, <1>4 DEF TellGroup, BeforePlan, storeVars, request, TellStep
<1>14. CASE Disconnect(c)
  BY <1>14, <1>4 DEF Disconnect, BeforePlan, storeVars, request
<1> QED
  BY <1>1, <1>2, <1>3, <1>5, <1>6, <1>7, <1>8, <1>9, <1>10, <1>11,
     <1>12, <1>13, <1>14 DEF HandlerStep

LEMMA AttachCapacity ==
  ASSUME IndType, CapacityInv, NEW s \in Socket, AttachStep(s), UNCHANGED taskVars
  PROVE  CapacityInv'
<1>1. pc' = pc /\ plan' = plan /\ size' = size
  BY DEF taskVars, request
<1>2. CASE PutMembership(s)
  <2>1. membership' = [membership EXCEPT ![pid[s]] = NoGroup]
    BY <1>2 DEF PutMembership, UpsertMembership
  <2>2. MembershipPlanned'
    BY <1>1, <2>1 DEF CapacityInv, MembershipPlanned, IndType, StoreTypeOK
  <2> QED
    BY <1>1, <2>2 DEF CapacityInv, PlanWithinSize, PlanTagged
<1>3. ASSUME membership' = membership PROVE CapacityInv'
  BY <1>1, <1>3, CapacityUnchanged
<1> QED
  BY <1>2, <1>3
     DEF AttachStep, AdmitToEvent, RefuseClosed, AttachFailed, FindParticipant,
         NewParticipant, PutParticipant, UpsertParticipant, LoadGroup, HubAttach,
         WelcomeReadEvent, SendWelcome, storeVars

LEMMA NextCapacity == IndType /\ CapacityInv /\ [Next]_vars => CapacityInv'
<1> SUFFICES ASSUME IndType, CapacityInv, [Next]_vars PROVE CapacityInv'
  OBVIOUS
<1>1. ASSUME NEW c \in Command, CommandArrives(c) PROVE CapacityInv'
  BY <1>1, ReceiveCapacity DEF CommandArrives
<1>2. ASSUME NEW c \in Command, CommandRuns(c) PROVE CapacityInv'
  BY <1>2, HandlerCapacity DEF CommandRuns
<1>3. ASSUME NEW s \in Socket, SocketAttaches(s) PROVE CapacityInv'
  BY <1>3, AttachCapacity DEF SocketAttaches
<1>4. ASSUME NEW c \in Command, CommandFails(c) PROVE CapacityInv'
  BY <1>4, CapacityUnchanged
     DEF CommandFails, FailCommand, storeVars, request, BeforePlan,
         IndType, TaskInv, TaskTypeOK
<1>5. ASSUME UNCHANGED <<storeVars, taskVars>> PROVE CapacityInv'
  BY <1>5, CapacityUnchanged DEF storeVars, taskVars, request
<1>6. ASSUME NEW s \in Socket, SocketArrives(s) \/ AttachFails(s) \/ SocketCloses(s)
      PROVE  CapacityInv'
  BY <1>5, <1>6 DEF SocketArrives, Connect, AttachFails, FailAttach, AttachFailed,
                    SocketCloses, CloseEvent
<1>7. CASE Crash
  BY <1>7, CapacityUnchanged
     DEF Crash, storeVars, request, BeforePlan, IndType, TaskInv, TaskTypeOK
<1>8. CASE UNCHANGED vars
  BY <1>5, <1>8 DEF vars
<1> QED
  BY <1>1, <1>2, <1>3, <1>4, <1>6, <1>7, <1>8 DEF Next, Rest

LEMMA CapacityInvCorrect == Spec => []CapacityInv
<1>1. Init => CapacityInv
  BY InitCapacity
<1>2. IndType /\ CapacityInv /\ [Next]_vars => CapacityInv'
  BY NextCapacity
<1> QED
  BY <1>1, <1>2, IndTypeCorrect, PTL DEF Spec

(* No group in the store is ever over the size it was made with: for any    *)
(* number of participants, any sizes, commands that overlap each other and  *)
(* the attaches, store calls that fail and crashes.                         *)
THEOREM CapacityCorrect == Spec => []GroupCapacity
<1>1. IndType /\ CapacityInv => GroupCapacity
  <2> SUFFICES ASSUME IndType, CapacityInv, NEW p \in Socket, membership[p] # NoGroup
               PROVE  Cardinality({q \in Socket : membership[q] = membership[p]})
                        <= size[membership[p][1]]
    BY DEF GroupCapacity
  <2>1. PICK c \in Command : membership[p] = plan[c][p]
    BY DEF CapacityInv, MembershipPlanned
  <2>2. PICK i \in Nat : membership[p] = <<c, i>>
    BY <2>1 DEF CapacityInv, PlanTagged
  <2> DEFINE M == {q \in Socket : membership[q] = <<c, i>>}
             L == {q \in Socket : plan[c][q] = <<c, i>>}
  <2>3. \A q \in M : q \in L
    <3> SUFFICES ASSUME NEW q \in Socket, membership[q] = <<c, i>>
                 PROVE  plan[c][q] = <<c, i>>
      OBVIOUS
    <3>1. PICK d \in Command : membership[q] = plan[d][q]
      BY NoGroupIsNoPair DEF CapacityInv, MembershipPlanned
    <3>2. d = c
      BY <3>1, NoGroupIsNoPair DEF CapacityInv, PlanTagged
    <3> QED
      BY <3>1, <3>2
  <2>4. IsFiniteSet(L) /\ M \in SUBSET L
    BY <2>3, ServerAssumption, FS_Subset
  <2>5. Cardinality(L) <= size[c]
    BY DEF CapacityInv, PlanWithinSize
  <2>6. size[c] \in Nat
    BY DEF IndType, TaskInv, TaskTypeOK
  <2> HIDE DEF M, L
  <2>7. Cardinality(M) <= Cardinality(L) /\ Cardinality(L) \in Nat /\ Cardinality(M) \in Nat
    BY <2>4, FS_Subset, FS_CardinalityType
  <2>8. Cardinality(M) <= size[c]
    BY <2>5, <2>6, <2>7
  <2> QED
    BY <2>2, <2>8 DEF M
<1> QED
  BY <1>1, IndTypeCorrect, CapacityInvCorrect, PTL

----------------------------------------------------------------------------
(* From here on a host sends its next command only after the last one has   *)
(* been handled; sockets may attach at any time, calls may fail and the     *)
(* process may crash.                                                       *)

----------------------------------------------------------------------------
(* The handlers take turns, and one that has passed its check is still      *)
(* entitled to write: the phase it found is the phase there is.             *)
OneAtATime ==
  \A c, d \in Command : InFlight(c) /\ InFlight(d) => c = d

Committed ==
  \A c \in Command :
    InFlight(c) /\ pc[c] # "check" => phase # "closed" \/ goal[c] = "closed"

SerialInv == OneAtATime /\ Committed

\* What a step of a handler does to the other handlers and to the phase.
LEMMA HandlerFrame ==
  ASSUME IndType, NEW c \in Command, HandlerStep(c)
  PROVE  /\ InFlight(c)
         /\ \A d \in Command : d # c => pc'[d] = pc[d]
         /\ pc'[c] \in (Steps \cup Ended) \ {"check"}
         /\ op' = op /\ goal' = goal /\ size' = size
         /\ \/ phase' = phase
            \/ pc[c] = "setEvent" /\ phase' = goal[c]
<1> USE DEF IndType, TaskInv, TaskTypeOK, InFlight, Steps, StoreSteps, Ended, request
<1>1. CASE CheckNotClosed(c)
  BY <1>1 DEF CheckNotClosed, storeVars
<1>2. CASE RejectClosed(c)
  BY <1>2 DEF RejectClosed, storeVars
<1>3. CASE ListParticipants(c)
  BY <1>3 DEF ListParticipants, storeVars
<1>4. CASE ListGroups(c)
  BY <1>4 DEF ListGroups, storeVars, AfterClear
<1>5. CASE DeleteOneGroup(c)
  BY <1>5 DEF DeleteOneGroup, DeleteGroup, AfterClear
<1>6. CASE WriteGroups(c)
  BY <1>6 DEF WriteGroups, PutGroups
<1>7. CASE WriteMemberships(c)
  BY <1>7 DEF WriteMemberships, SetMemberships
<1>8. CASE ReadEvent(c)
  BY <1>8 DEF ReadEvent, storeVars
<1>9. CASE WritePhase(c)
  BY <1>9 DEF WritePhase, SetEventPhase
<1>10. CASE BroadcastPhase(c)
  BY <1>10 DEF BroadcastPhase, storeVars, TellStep
<1>11. CASE ReadMembership(c)
  BY <1>11 DEF ReadMembership, storeVars
<1>12. CASE TellGroup(c)
  BY <1>12 DEF TellGroup, storeVars, TellStep
<1>13. CASE Disconnect(c)
  BY <1>13 DEF Disconnect, storeVars
<1> QED
  BY <1>1, <1>2, <1>3, <1>4, <1>5, <1>6, <1>7, <1>8, <1>9, <1>10, <1>11, <1>12,
     <1>13 DEF HandlerStep

\* The other tasks leave the phase and the handlers alone.
LEMMA SocketFrame ==
  ASSUME NEW s \in Socket,
         SocketArrives(s) \/ SocketAttaches(s) \/ AttachFails(s) \/ SocketCloses(s)
  PROVE  /\ UNCHANGED taskVars
         /\ phase' = phase /\ groups' = groups
         /\ \/ UNCHANGED <<membership, joinedAt>>
            \/ UpsertParticipant(pid[s])
            \/ UpsertMembership(pid[s], NoGroup)
  BY DEF SocketArrives, Connect, SocketAttaches, AttachStep, AdmitToEvent,
         RefuseClosed, AttachFailed, FindParticipant, NewParticipant,
         PutParticipant, UpsertParticipant, PutMembership, UpsertMembership,
         LoadGroup, HubAttach, WelcomeReadEvent, SendWelcome, AttachFails,
         FailAttach, SocketCloses, CloseEvent, storeVars

LEMMA ArriveFrame ==
  ASSUME ~CommandsOverlap, IndType, NEW c \in Command, CommandArrives(c)
  PROVE  /\ NoCommandInFlight
         /\ pc'[c] = "check" /\ pc[c] = "idle"
         /\ \A d \in Command : d # c => pc'[d] = pc[d]
         /\ UNCHANGED <<storeVars, listed, plan, doomed>>
  BY DEF CommandArrives, ReceiveCommand, ReceivePartition, ReceiveMerge,
         ReceivePhase, Receive, IndType, TaskInv, TaskTypeOK

\* A call that fails and a crash only end handlers.
LEMMA FailFrame ==
  ASSUME IndType, (\E c \in Command : CommandFails(c)) \/ Crash
  PROVE  /\ UNCHANGED <<storeVars, request, listed, plan, doomed>>
         /\ \A d \in Command : pc'[d] = pc[d] \/ pc'[d] = "failed"
         /\ (\E d \in Command : pc'[d] = "failed") \/ pc' = pc
<1>1. CASE \E c \in Command : CommandFails(c)
  BY <1>1 DEF CommandFails, FailCommand, IndType, TaskInv, TaskTypeOK
<1>2. CASE Crash
  BY <1>2 DEF Crash, IndType, TaskInv, TaskTypeOK
<1> QED
  BY <1>1, <1>2

LEMMA NextSerial ==
  ASSUME ~CommandsOverlap, IndType, SerialInv, [Next]_vars
  PROVE  SerialInv' /\ (phase = "closed" => phase' = "closed")
<1> USE DEF SerialInv
<1>1. ASSUME NEW c \in Command, CommandArrives(c)
      PROVE  SerialInv' /\ phase' = phase
  BY <1>1, ArriveFrame
     DEF OneAtATime, Committed, NoCommandInFlight, InFlight, storeVars
<1>2. ASSUME NEW c \in Command, CommandRuns(c)
      PROVE  SerialInv' /\ (phase = "closed" => phase' = "closed")
  <2>1. HandlerStep(c)
    BY <1>2 DEF CommandRuns
  <2>2. OneAtATime'
    BY <2>1, HandlerFrame DEF OneAtATime, InFlight
  <2>3. phase = "closed" => phase' = "closed"
    BY <2>1, HandlerFrame DEF Committed, InFlight
  <2>4. Committed'
    <3> SUFFICES ASSUME NEW d \in Command, InFlight(d)', pc'[d] # "check"
                 PROVE  phase' # "closed" \/ goal'[d] = "closed"
      BY DEF Committed
    <3>1. d = c
      BY <2>1, HandlerFrame DEF OneAtATime, InFlight
    <3>2. CASE pc[c] = "check"
      BY <2>1, <3>1, <3>2 DEF HandlerStep, CheckNotClosed, RejectClosed,
         ListParticipants, ListGroups, DeleteOneGroup, WriteGroups, WriteMemberships,
         ReadEvent, WritePhase, BroadcastPhase, ReadMembership, TellGroup, Disconnect,
         storeVars, request, InFlight, Steps, StoreSteps, IndType, TaskInv, TaskTypeOK
    <3>3. CASE pc[c] # "check"
      BY <2>1, <3>1, <3>3, HandlerFrame DEF Committed
    <3> QED
      BY <3>2, <3>3
  <2> QED
    BY <2>2, <2>3, <2>4
<1>3. ASSUME NEW s \in Socket,
             SocketArrives(s) \/ SocketAttaches(s) \/ AttachFails(s) \/ SocketCloses(s)
      PROVE  SerialInv' /\ phase' = phase
  BY <1>3, SocketFrame DEF OneAtATime, Committed, InFlight, taskVars, request
<1>4. CASE (\E c \in Command : CommandFails(c)) \/ Crash
  BY <1>4, FailFrame
     DEF OneAtATime, Committed, InFlight, Steps, StoreSteps, request, storeVars
<1>5. CASE UNCHANGED vars
  BY <1>5 DEF OneAtATime, Committed, InFlight, vars, taskVars, request, storeVars
<1> QED
  BY <1>1, <1>2, <1>3, <1>4, <1>5 DEF Next, Rest

LEMMA SerialInvCorrect ==
  ASSUME ~CommandsOverlap
  PROVE  Spec => []SerialInv
<1>1. Init => SerialInv
  BY DEF Init, TaskInit, SerialInv, OneAtATime, Committed, InFlight, Steps, StoreSteps
<1>2. IndType /\ SerialInv /\ [Next]_vars => SerialInv'
  BY NextSerial
<1> QED
  BY <1>1, <1>2, IndTypeCorrect, PTL DEF Spec

(* With commands one at a time a concluded event stays concluded, whatever  *)
(* the sockets do, whatever fails, and across restarts: the test every      *)
(* handler begins with still holds when its setEventPhase writes.           *)
THEOREM ClosedIsFinalCorrect ==
  ASSUME ~CommandsOverlap
  PROVE  Spec => ClosedIsFinal
<1>1. IndType /\ SerialInv /\ [Next]_vars => [phase = "closed" => phase' = "closed"]_vars
  BY NextSerial
<1> QED
  BY <1>1, IndTypeCorrect, SerialInvCorrect, PTL DEF Spec, ClosedIsFinal

----------------------------------------------------------------------------
(* OneGeneration, MembershipsResolve and RewriteResolves.  From its list of *)
(* the participants to its last write a handler knows everyone who is in a  *)
(* group, so that its setMemberships moves all of them; when it begins to   *)
(* write, the store is empty of groups.  An attach meanwhile only adds a    *)
(* participant in no group.                                                 *)
Clearing == {"listGroups", "delete", "putGroups", "setMemberships"}

Resolved == \A p \in Socket : membership[p] \in groups \cup {NoGroup}

ClearsAll ==
  \A c \in Command :
    /\ pc[c] = "delete" => groups \subseteq doomed[c]
    /\ pc[c] = "putGroups" => groups = {}

MembersJoined ==
  /\ \A p \in Socket : membership[p] # NoGroup => joinedAt[p] # 0
  /\ \A c \in Command : \A p \in listed[c] : joinedAt[p] # 0

ListsAll ==
  \A c \in Command :
    /\ pc[c] \in {"list"} \cup Clearing => op[c] # "phase"
    /\ pc[c] \in Clearing => \A p \in Socket : membership[p] # NoGroup => p \in listed[c]

PlanStored ==
  \A c \in Command :
    /\ op[c] # "partition" => \A p \in Socket : plan[c][p] = NoGroup
    /\ pc[c] = "setMemberships" =>
         \A p \in listed[c] : plan[c][p] \in groups \cup {NoGroup}

ResolvedUnlessRewriting ==
  (\A c \in Command : pc[c] \notin {"failed", "delete", "putGroups", "setMemberships"})
    => Resolved

ResolveInv ==
  /\ OneGeneration
  /\ ClearsAll
  /\ MembersJoined
  /\ ListsAll
  /\ PlanStored
  /\ ResolvedUnlessRewriting
  /\ RewriteResolves

LEMMA InitResolve == Init => ResolveInv
  BY DEF Init, StoreInit, TaskInit, ResolveInv, OneGeneration, ClearsAll,
         MembersJoined, ListsAll, PlanStored, ResolvedUnlessRewriting, Resolved,
         RewriteResolves, TellingSteps, Clearing

\* The steps between which the writes of a handler lie.
LEMMA HandlerResolve ==
  ASSUME IndType, CapacityInv, OneAtATime, ResolveInv, NEW c \in Command, HandlerStep(c)
  PROVE  ResolveInv'
<1> USE DEF IndType, TaskInv, TaskTypeOK, InFlight, Steps, StoreSteps, Ended, request
<1>1. /\ pc[c] \in Steps
      /\ \A d \in Command : d # c => pc[d] \notin Steps /\ pc'[d] = pc[d]
  BY HandlerFrame DEF OneAtATime
<1> DEFINE Quiet == /\ UNCHANGED <<membership, groups, joinedAt, op, plan, listed>>
                    /\ \A d \in Command : d # c => doomed'[d] = doomed[d]
<1>2. ASSUME Quiet, pc[c] \notin Clearing, pc'[c] \notin Clearing,
             pc'[c] = "list" => op[c] # "phase",
             pc'[c] \in TellingSteps /\ op[c] # "phase" => pc[c] \in TellingSteps
      PROVE  ResolveInv'
  <2>1. OneGeneration' /\ ClearsAll' /\ MembersJoined'
    BY <1>1, <1>2 DEF ResolveInv, OneGeneration, ClearsAll, MembersJoined, Clearing
  <2>2. ListsAll' /\ PlanStored'
    BY <1>1, <1>2 DEF ResolveInv, ListsAll, PlanStored, Clearing
  <2>3. ResolvedUnlessRewriting'
    BY <1>1, <1>2 DEF ResolveInv, ResolvedUnlessRewriting, Resolved, Clearing
  <2>4. RewriteResolves'
    BY <1>1, <1>2 DEF ResolveInv, RewriteResolves, TellingSteps
  <2> QED
    BY <2>1, <2>2, <2>3, <2>4 DEF ResolveInv
<1>3. CASE CheckNotClosed(c)
  BY <1>2, <1>3 DEF CheckNotClosed, storeVars, Clearing, TellingSteps
<1>4. CASE RejectClosed(c)
  BY <1>2, <1>4 DEF RejectClosed, storeVars, Clearing, TellingSteps
<1>5. CASE ReadEvent(c)
  BY <1>2, <1>5 DEF ReadEvent, storeVars, Clearing, TellingSteps
<1>6. CASE WritePhase(c)
  BY <1>2, <1>6 DEF WritePhase, SetEventPhase, Clearing, TellingSteps
<1>7. CASE BroadcastPhase(c)
  BY <1>2, <1>7 DEF BroadcastPhase, storeVars, Clearing, TellingSteps, TellStep
<1>8. CASE ReadMembership(c)
  BY <1>2, <1>8 DEF ReadMembership, storeVars, Clearing, TellingSteps
<1>9. CASE TellGroup(c)
  BY <1>2, <1>9 DEF TellGroup, storeVars, Clearing, TellingSteps, TellStep
<1>10. CASE Disconnect(c)
  BY <1>2, <1>10 DEF Disconnect, storeVars, Clearing, TellingSteps
<1>11. CASE ListParticipants(c)
  <2> USE <1>11 DEF ListParticipants, storeVars, ResolveInv
  <2>1. OneGeneration' /\ MembersJoined' /\ ClearsAll'
    BY <1>1 DEF OneGeneration, MembersJoined, ClearsAll, Participants
  <2>2. ListsAll'
    BY <1>1 DEF ListsAll, MembersJoined, Participants, Clearing
  <2>3. PlanStored'
    BY <1>1 DEF PlanStored, PlanFor
  <2>4. ResolvedUnlessRewriting' /\ RewriteResolves'
    BY <1>1 DEF ResolvedUnlessRewriting, Resolved, RewriteResolves, TellingSteps
  <2> QED
    BY <2>1, <2>2, <2>3, <2>4
<1>12. CASE ListGroups(c)
  <2> USE <1>12 DEF ListGroups, storeVars, ResolveInv, AfterClear
  <2>1. OneGeneration' /\ MembersJoined' /\ ClearsAll'
    BY <1>1 DEF OneGeneration, MembersJoined, ClearsAll
  <2>2. ListsAll'
    BY <1>1 DEF ListsAll, Clearing
  <2>3. PlanStored'
    BY <1>1 DEF PlanStored
  <2>4. pc'[c] = "getEvent" => Resolved
    BY DEF ListsAll, Clearing, Resolved
  <2>5. ResolvedUnlessRewriting' /\ RewriteResolves'
    BY <1>1, <2>4 DEF ResolvedUnlessRewriting, Resolved, RewriteResolves, TellingSteps
  <2> QED
    BY <2>1, <2>2, <2>3, <2>5
<1>13. CASE DeleteOneGroup(c)
  <2>1. PICK g \in doomed[c] :
          /\ groups' = groups \ {g}
          /\ doomed' = [doomed EXCEPT ![c] = @ \ {g}]
          /\ pc' = [pc EXCEPT ![c] = IF doomed[c] = {g} THEN AfterClear(c) ELSE "delete"]
    BY <1>13 DEF DeleteOneGroup, DeleteGroup
  <2>2. pc[c] = "delete" /\ UNCHANGED <<membership, joinedAt, op, plan, listed>>
    BY <1>13 DEF DeleteOneGroup, DeleteGroup
  <2> USE <2>1, <2>2 DEF ResolveInv, AfterClear
  <2>3. groups \subseteq doomed[c]
    BY DEF ClearsAll
  <2>4. OneGeneration' /\ MembersJoined' /\ ClearsAll'
    BY <1>1, <2>3 DEF OneGeneration, MembersJoined, ClearsAll
  <2>5. ListsAll'
    BY <1>1 DEF ListsAll, Clearing
  <2>6. PlanStored'
    BY <1>1 DEF PlanStored
  <2>7. pc'[c] = "getEvent" => Resolved'
    BY DEF ListsAll, Clearing, Resolved
  <2>8. ResolvedUnlessRewriting' /\ RewriteResolves'
    BY <1>1, <2>7 DEF ResolvedUnlessRewriting, Resolved, RewriteResolves, TellingSteps
  <2> QED
    BY <2>4, <2>5, <2>6, <2>8
<1>14. CASE WriteGroups(c)
  <2>1. /\ pc[c] = "putGroups" /\ pc' = [pc EXCEPT ![c] = "setMemberships"]
        /\ groups' = groups \cup {plan[c][p] : p \in listed[c]}
        /\ UNCHANGED <<membership, joinedAt, op, plan, listed, doomed>>
    BY <1>14 DEF WriteGroups, PutGroups
  <2>2. groups = {} /\ op[c] = "partition"
    BY <2>1 DEF ResolveInv, ClearsAll, PlanComplete
  <2> USE <2>1, <2>2 DEF ResolveInv
  <2>3. \A p \in listed[c] : plan[c][p] \in {c} \X Nat
    <3> SUFFICES ASSUME NEW p \in listed[c] PROVE plan[c][p] \in {c} \X Nat
      OBVIOUS
    <3>1. plan[c][p] \in Gid /\ p \in Socket
      BY DEF PlanComplete
    <3>2. plan[c][p] # NoGroup
      BY <3>1, SentinelAssumption
    <3> QED
      BY <3>1, <3>2 DEF CapacityInv, PlanTagged
  <2>4. OneGeneration' /\ MembersJoined' /\ ClearsAll'
    BY <1>1, <2>3 DEF OneGeneration, MembersJoined, ClearsAll
  <2>5. ListsAll'
    BY <1>1 DEF ListsAll, Clearing
  <2>6. PlanStored'
    BY <1>1 DEF PlanStored
  <2>7. ResolvedUnlessRewriting' /\ RewriteResolves'
    BY <1>1 DEF ResolvedUnlessRewriting, RewriteResolves, TellingSteps
  <2> QED
    BY <2>4, <2>5, <2>6, <2>7
<1>15. CASE WriteMemberships(c)
  <2>1. /\ pc[c] = "setMemberships" /\ pc' = [pc EXCEPT ![c] = "getEvent"]
        /\ membership' = [p \in Socket |->
              IF p \in listed[c] THEN plan[c][p] ELSE membership[p]]
        /\ UNCHANGED <<groups, joinedAt, op, plan, listed, doomed>>
    BY <1>15 DEF WriteMemberships, SetMemberships
  <2> USE <2>1 DEF ResolveInv
  <2>2. \A p \in Socket : p \notin listed[c] => membership[p] = NoGroup
    BY DEF ListsAll, Clearing
  <2>3. Resolved'
    BY <2>2 DEF Resolved, PlanStored
  <2>4. OneGeneration' /\ ClearsAll'
    BY <1>1 DEF OneGeneration, ClearsAll
  <2>5. MembersJoined'
    BY DEF MembersJoined
  <2>6. ListsAll'
    BY <1>1 DEF ListsAll, Clearing
  <2>7. PlanStored'
    BY <1>1 DEF PlanStored
  <2>8. ResolvedUnlessRewriting' /\ RewriteResolves'
    BY <2>3 DEF ResolvedUnlessRewriting, RewriteResolves, Resolved
  <2> QED
    BY <2>4, <2>5, <2>6, <2>7, <2>8
<1> QED
  BY <1>3, <1>4, <1>5, <1>6, <1>7, <1>8, <1>9, <1>10, <1>11, <1>12, <1>13, <1>14,
     <1>15 DEF HandlerStep

LEMMA SocketResolve ==
  ASSUME IndType, ResolveInv, NEW s \in Socket,
         SocketArrives(s) \/ SocketAttaches(s) \/ AttachFails(s) \/ SocketCloses(s)
  PROVE  ResolveInv'
<1>1. UNCHANGED taskVars /\ groups' = groups /\ pid[s] \in Socket
  BY SocketFrame DEF IndType, HubTypeOK
<1> USE <1>1 DEF taskVars, request
<1>2. /\ \A p \in Socket : membership'[p] \in {membership[p], NoGroup}
      /\ \A p \in Socket : joinedAt[p] # 0 => joinedAt'[p] # 0
  <2>1. CASE UNCHANGED <<membership, joinedAt>>
    BY <2>1
  <2>2. CASE UpsertParticipant(pid[s])
    BY <2>2 DEF UpsertParticipant, IndType, StoreTypeOK
  <2>3. CASE UpsertMembership(pid[s], NoGroup)
    BY <2>3 DEF UpsertMembership, IndType, StoreTypeOK
  <2> QED
    BY <2>1, <2>2, <2>3, SocketFrame
<1>3. OneGeneration' /\ ClearsAll' /\ PlanStored'
  BY DEF ResolveInv, OneGeneration, ClearsAll, PlanStored
<1>4. MembersJoined'
  BY <1>2 DEF ResolveInv, MembersJoined, IndType, TaskInv, TaskTypeOK
<1>5. ListsAll'
  BY <1>2 DEF ResolveInv, ListsAll
<1>6. Resolved => Resolved'
  BY <1>2 DEF Resolved
<1>7. ResolvedUnlessRewriting' /\ RewriteResolves'
  BY <1>6 DEF ResolveInv, ResolvedUnlessRewriting, RewriteResolves, Resolved
<1> QED
  BY <1>3, <1>4, <1>5, <1>7 DEF ResolveInv

LEMMA NextResolve ==
  ASSUME ~CommandsOverlap, IndType, CapacityInv, SerialInv, ResolveInv, [Next]_vars
  PROVE  ResolveInv'
<1>1. ASSUME NEW c \in Command, CommandArrives(c) PROVE ResolveInv'
  <2>1. PICK kind \in {"partition", "merge", "phase"}, new \in Phase, n \in Nat \ {0} :
          Receive(c, kind, new, n)
    BY <1>1, ServerAssumption
       DEF CommandArrives, ReceiveCommand, ReceivePartition, ReceiveMerge, ReceivePhase, Phase
  <2>2. /\ pc[c] = "idle" /\ pc' = [pc EXCEPT ![c] = "check"]
        /\ op' = [op EXCEPT ![c] = kind]
        /\ UNCHANGED <<membership, groups, joinedAt, listed, plan, doomed>>
    BY <2>1 DEF Receive, storeVars
  <2>3. \A p \in Socket : plan[c][p] = NoGroup
    BY <2>2 DEF CapacityInv, PlanTagged, BeforePlan
  <2>4. \A d \in Command : d # c => pc[d] \notin Steps /\ pc'[d] = pc[d] /\ op'[d] = op[d]
    BY <1>1, <2>2, ArriveFrame DEF NoCommandInFlight, InFlight, IndType, TaskInv, TaskTypeOK
  <2>5. pc'[c] = "check"
    BY <2>2 DEF IndType, TaskInv, TaskTypeOK
  <2> USE DEF ResolveInv, Steps, StoreSteps
  <2>6. OneGeneration' /\ ClearsAll' /\ MembersJoined'
    BY <2>2, <2>4, <2>5 DEF OneGeneration, ClearsAll, MembersJoined
  <2>7. ListsAll' /\ PlanStored'
    BY <2>2, <2>3, <2>4, <2>5 DEF ListsAll, PlanStored, Clearing
  <2>8. ResolvedUnlessRewriting' /\ RewriteResolves'
    BY <2>2, <2>4, <2>5 DEF ResolvedUnlessRewriting, RewriteResolves, Resolved, TellingSteps
  <2> QED
    BY <2>6, <2>7, <2>8
<1>2. ASSUME NEW c \in Command, CommandRuns(c) PROVE ResolveInv'
  BY <1>2, HandlerResolve DEF CommandRuns, SerialInv
<1>3. ASSUME NEW s \in Socket,
             SocketArrives(s) \/ SocketAttaches(s) \/ AttachFails(s) \/ SocketCloses(s)
      PROVE  ResolveInv'
  BY <1>3, SocketResolve
<1>4. CASE (\E c \in Command : CommandFails(c)) \/ Crash
  BY <1>4, FailFrame
     DEF ResolveInv, OneGeneration, ClearsAll, MembersJoined, ListsAll, PlanStored,
         ResolvedUnlessRewriting, RewriteResolves, Resolved, Clearing, TellingSteps,
         storeVars, request
<1>5. CASE UNCHANGED vars
  BY <1>5
     DEF ResolveInv, OneGeneration, ClearsAll, MembersJoined, ListsAll, PlanStored,
         ResolvedUnlessRewriting, RewriteResolves, Resolved, vars, storeVars, taskVars,
         request
<1> QED
  BY <1>1, <1>2, <1>3, <1>4, <1>5 DEF Next, Rest

LEMMA ResolveInvCorrect ==
  ASSUME ~CommandsOverlap
  PROVE  Spec => []ResolveInv
<1>1. Init => ResolveInv
  BY InitResolve
<1>2. IndType /\ CapacityInv /\ SerialInv /\ ResolveInv /\ [Next]_vars => ResolveInv'
  BY NextResolve
<1> QED
  BY <1>1, <1>2, IndTypeCorrect, CapacityInvCorrect, SerialInvCorrect, PTL DEF Spec

(* With commands one at a time the groups of the store all come from one    *)
(* partition, also after partitions that failed half way.                   *)
THEOREM OneGenerationCorrect ==
  ASSUME ~CommandsOverlap
  PROVE  Spec => []OneGeneration
  BY ResolveInvCorrect, PTL DEF ResolveInv

(* With commands one at a time a partition or merge leaves every membership *)
(* naming a group that is stored, although sockets join all the while and   *)
(* whatever a failed command before it left behind.                         *)
THEOREM RewriteResolvesCorrect ==
  ASSUME ~CommandsOverlap
  PROVE  Spec => []RewriteResolves
  BY ResolveInvCorrect, PTL DEF ResolveInv

(* ... and it stays so between commands as long as none fails.              *)
THEOREM MembershipsResolveCorrect ==
  ASSUME ~CommandsOverlap
  PROVE  Spec => []MembershipsResolve
<1>1. ResolveInv => MembershipsResolve
  BY DEF ResolveInv, ResolvedUnlessRewriting, MembershipsResolve, Resolved,
         NoCommandInFlight, InFlight, Steps, StoreSteps
<1> QED
  BY <1>1, ResolveInvCorrect, PTL
----------------------------------------------------------------------------
(* ClosedStamped.  The record a setEventPhase has read is the one it        *)
(* overwrites, as no other handler has written the event in between.        *)
StampInv ==
  /\ phase = "closed" => closedAt
  /\ \A c \in Command : pc[c] = "setEvent" => stamped[c] = closedAt

LEMMA HandlerStamped ==
  ASSUME IndType, OneAtATime, StampInv, NEW c \in Command, HandlerStep(c)
  PROVE  StampInv' /\ (closedAt => closedAt')
<1> USE DEF IndType, TaskInv, TaskTypeOK
<1>1. \A d \in Command : d # c => pc'[d] = pc[d] /\ pc[d] # "setEvent"
  BY HandlerFrame DEF OneAtATime, InFlight, Steps, StoreSteps
<1>2. CASE ReadEvent(c)
  BY <1>1, <1>2 DEF ReadEvent, storeVars, StampInv
<1>3. CASE WritePhase(c)
  <2>1. /\ pc[c] = "setEvent" /\ pc'[c] = "broadcast" /\ stamped' = stamped
        /\ phase' = goal[c] /\ closedAt' = (stamped[c] \/ goal[c] = "closed")
    BY <1>3 DEF WritePhase, SetEventPhase
  <2>2. stamped[c] = closedAt
    BY <2>1 DEF StampInv
  <2> QED
    BY <1>1, <2>1, <2>2 DEF StampInv
<1>4. CASE ~ReadEvent(c) /\ ~WritePhase(c)
  <2>1. UNCHANGED <<phase, closedAt, stamped>> /\ pc'[c] # "setEvent"
    BY <1>4 DEF HandlerStep, CheckNotClosed, RejectClosed, ListParticipants, ListGroups,
       DeleteOneGroup, DeleteGroup, AfterClear, WriteGroups, PutGroups, WriteMemberships,
       SetMemberships, BroadcastPhase, TellStep, ReadMembership, TellGroup, Disconnect,
       storeVars
  <2> QED
    BY <1>1, <2>1 DEF StampInv
<1> QED
  BY <1>2, <1>3, <1>4

LEMMA NextStamped ==
  ASSUME ~CommandsOverlap, IndType, SerialInv, StampInv, [Next]_vars
  PROVE  StampInv' /\ (closedAt => closedAt')
<1>1. ASSUME NEW c \in Command, CommandArrives(c)
      PROVE  StampInv' /\ (closedAt => closedAt')
  <2>1. stamped' = stamped
    BY <1>1 DEF CommandArrives, ReceiveCommand, ReceivePartition, ReceiveMerge,
       ReceivePhase, Receive
  <2> QED
    BY <1>1, <2>1, ArriveFrame DEF StampInv, storeVars
<1>2. ASSUME NEW c \in Command, CommandRuns(c)
      PROVE  StampInv' /\ (closedAt => closedAt')
  BY <1>2, HandlerStamped DEF CommandRuns, SerialInv
<1>3. ASSUME NEW s \in Socket,
             SocketArrives(s) \/ SocketAttaches(s) \/ AttachFails(s) \/ SocketCloses(s)
      PROVE  StampInv' /\ (closedAt => closedAt')
  <2>1. UNCHANGED <<phase, closedAt, pc, stamped>>
    BY <1>3 DEF SocketArrives, Connect, SocketAttaches, AttachStep, AdmitToEvent,
       RefuseClosed, AttachFailed, FindParticipant, NewParticipant, PutParticipant,
       UpsertParticipant, PutMembership, UpsertMembership, LoadGroup, HubAttach,
       WelcomeReadEvent, SendWelcome, AttachFails, FailAttach, SocketCloses, CloseEvent,
       storeVars, taskVars
  <2> QED
    BY <2>1 DEF StampInv
<1>4. CASE (\E c \in Command : CommandFails(c)) \/ Crash
  <2>1. stamped' = stamped
    BY <1>4 DEF CommandFails, FailCommand, Crash
  <2> QED
    BY <1>4, <2>1, FailFrame DEF StampInv, storeVars
<1>5. CASE UNCHANGED vars
  BY <1>5 DEF StampInv, vars, storeVars, taskVars
<1> QED
  BY <1>1, <1>2, <1>3, <1>4, <1>5 DEF Next, Rest

(* With commands one at a time an event that is closed always says since    *)
(* when, and never forgets it: setEventPhase, which writes back the record  *)
(* it has read, has read the latest one.                                    *)
THEOREM ClosedStampedCorrect ==
  ASSUME ~CommandsOverlap
  PROVE  Spec => ClosedStamped
<1>1. Init => StampInv
  BY DEF Init, StoreInit, TaskInit, StampInv
<1>2. IndType /\ SerialInv /\ StampInv /\ [Next]_vars => StampInv'
  BY NextStamped
<1>3. IndType /\ SerialInv /\ StampInv /\ [Next]_vars
        => [(phase' = "closed" => closedAt') /\ (closedAt => closedAt')]_vars
  BY NextStamped DEF StampInv
<1> QED
  BY <1>1, <1>2, <1>3, IndTypeCorrect, SerialInvCorrect, PTL DEF Spec, ClosedStamped
----------------------------------------------------------------------------
(* The room, when attaches and commands are apart as well.  An attach that  *)
(* has passed its look at the phase finds it unchanged in the end, because  *)
(* no command has run meanwhile; a socket that has yet to connect is in     *)
(* nobody's way.                                                            *)
RoomInv ==
  /\ NoCommandInFlight \/ NoAttachInFlight
  /\ \A s \in Socket : Attaching(s) => at[s] = "getEvent" \/ phase # "closed"
  /\ \A s \in Socket : conn[s] = "new" => s \notin hub /\ at[s] = "idle"

LEMMA RoomStutters ==
  UNCHANGED <<phase, hub, conn>> => UNCHANGED <<phase, Reached>>
  BY DEF Reached

\* Whatever takes sockets out, or closes them, is a Leave.
LEMMA RoomLeaves ==
  ASSUME phase' = phase, Reached' \subseteq Reached
  PROVE  [Room!Next]_<<phase, Reached>>
  BY DEF Room!Next, Room!Leave

LEMMA HandlerRoom ==
  ASSUME IndType, SerialInv, RoomInv, NEW c \in Command, CommandRuns(c)
  PROVE  RoomInv' /\ [Room!Next]_<<phase, Reached>>
<1> USE DEF IndType, TaskInv, TaskTypeOK, HubTypeOK, StoreTypeOK
<1>1. HandlerStep(c) /\ UNCHANGED <<at, welcomePhase>> /\ InFlight(c)
  BY HandlerFrame DEF CommandRuns, gatewayVars
<1>2. NoAttachInFlight /\ NoAttachInFlight'
  BY <1>1 DEF RoomInv, NoCommandInFlight, NoAttachInFlight, Attaching
<1>3. CASE Disconnect(c)
  <2>1. phase' = phase /\ hub' = hub
        /\ conn' = [s \in Socket |-> IF s \in Reached THEN "closing" ELSE conn[s]]
    BY <1>3 DEF Disconnect, DisconnectParticipants, storeVars
  <2>2. Reached' \subseteq Reached
    BY <2>1 DEF Reached
  <2>3. RoomInv'
    BY <1>1, <1>2, <2>1 DEF RoomInv, NoAttachInFlight, Reached
  <2> QED
    BY <2>1, <2>2, <2>3, RoomLeaves
<1>4. CASE ~Disconnect(c)
  <2>1. UNCHANGED <<hub, conn>>
    BY <1>1, <1>4 DEF HandlerStep, CheckNotClosed, RejectClosed, ListParticipants,
       ListGroups, DeleteOneGroup, WriteGroups, WriteMemberships, ReadEvent, WritePhase,
       BroadcastPhase, SendPhaseChanged, ReadMembership, TellGroup, AssignGroup, hubVars
  <2>2. RoomInv'
    BY <1>1, <1>2, <2>1 DEF RoomInv, NoAttachInFlight
  <2>3. Reached' = Reached
    BY <2>1 DEF Reached
  <2>4. phase' = phase \/ (phase # "closed" /\ phase' \in Phase)
                       \/ (phase = "closed" /\ phase' = "closed")
    BY <1>1, HandlerFrame DEF SerialInv, Committed, InFlight
  <2> QED
    BY <2>2, <2>3, <2>4 DEF Room!Next, Room!Move, Room!Phase, Phase
<1> QED
  BY <1>3, <1>4

LEMMA SocketRoom ==
  ASSUME ~AttachesOverlap, IndType, RoomInv, NEW s \in Socket,
         SocketArrives(s) \/ SocketAttaches(s) \/ AttachFails(s) \/ SocketCloses(s)
  PROVE  RoomInv' /\ [Room!Next]_<<phase, Reached>>
<1> USE DEF IndType, HubTypeOK, GatewayTypeOK
<1>1. UNCHANGED taskVars /\ phase' = phase
  BY SocketFrame
<1>2. NoCommandInFlight' <=> NoCommandInFlight
  BY <1>1 DEF taskVars, NoCommandInFlight, InFlight
<1>3. CASE SocketArrives(s)
  <2>1. /\ NoCommandInFlight /\ conn[s] = "new" /\ hub' = hub
        /\ conn' = [conn EXCEPT ![s] = "open"] /\ at' = [at EXCEPT ![s] = "getEvent"]
    BY <1>3 DEF SocketArrives, Connect
  <2>2. Reached' = Reached
    BY <2>1 DEF Reached, RoomInv
  <2>3. RoomInv'
    BY <1>1, <1>2, <2>1 DEF RoomInv, Attaching
  <2> QED
    BY <1>1, <2>2, <2>3
<1>4. CASE SocketCloses(s)
  <2>1. /\ conn' = [conn EXCEPT ![s] = "closed"] /\ hub' = hub \ {s} /\ at' = at
        /\ conn[s] # "new"
    BY <1>4 DEF SocketCloses, CloseEvent, Close
  <2>2. RoomInv'
    BY <1>1, <1>2, <2>1 DEF RoomInv, NoAttachInFlight, Attaching
  <2>3. Reached' \subseteq Reached
    BY <2>1 DEF Reached
  <2> QED
    BY <1>1, <2>2, <2>3, RoomLeaves
<1>5. CASE HubAttach(s)
  <2>1. /\ at[s] = "attach" /\ at' = [at EXCEPT ![s] = "welcomeEvent"]
        /\ hub' = hub \cup {s} /\ conn' = conn
    BY <1>5 DEF HubAttach
  <2>2. phase # "closed" /\ conn[s] # "new" /\ NoCommandInFlight
    BY <2>1 DEF RoomInv, Attaching, AttachSteps, NoAttachInFlight
  <2>3. RoomInv'
    BY <1>1, <1>2, <2>1, <2>2 DEF RoomInv, Attaching, AttachSteps
  <2>4. Reached' = Reached \/ (s \notin Reached /\ Reached' = Reached \cup {s})
    BY <2>1 DEF Reached
  <2> QED
    BY <1>1, <2>2, <2>3, <2>4 DEF Room!Next, Room!Enter
<1>6. CASE (SocketAttaches(s) \/ AttachFails(s)) /\ ~HubAttach(s)
  <2>1. /\ hub' = hub /\ Attaching(s)
        /\ conn' \in {conn, [conn EXCEPT ![s] = IF @ = "open" THEN "closing" ELSE @]}
        /\ \E step : at' = [at EXCEPT ![s] = step]
                     /\ (step \in AttachSteps => at[s] # "getEvent" \/ phase # "closed")
    BY <1>6 DEF SocketAttaches, AttachStep, AdmitToEvent, RefuseClosed, AttachFailed,
       FindParticipant, NewParticipant, PutParticipant, PutMembership, LoadGroup,
       WelcomeReadEvent, SendWelcome, AttachFails, FailAttach, Attaching, AttachSteps, hubVars
  <2>2. NoCommandInFlight /\ conn[s] # "new"
    BY <2>1 DEF RoomInv, NoAttachInFlight, Attaching, AttachSteps
  <2>3. RoomInv'
    BY <1>1, <1>2, <2>1, <2>2 DEF RoomInv, Attaching
  <2>4. Reached' \subseteq Reached
    BY <2>1 DEF Reached
  <2> QED
    BY <1>1, <2>3, <2>4, RoomLeaves
<1> QED
  BY <1>3, <1>4, <1>5, <1>6

LEMMA NextRoom ==
  ASSUME ~CommandsOverlap, ~AttachesOverlap, IndType, SerialInv, RoomInv, [Next]_vars
  PROVE  RoomInv' /\ [Room!Next]_<<phase, Reached>>
<1> USE DEF IndType, TaskInv, TaskTypeOK, HubTypeOK, GatewayTypeOK
<1>1. ASSUME NEW c \in Command, CommandArrives(c)
      PROVE  RoomInv' /\ [Room!Next]_<<phase, Reached>>
  <2>1. NoAttachInFlight /\ UNCHANGED <<phase, hub, conn, at>>
    BY <1>1, ArriveFrame
       DEF CommandArrives, ReceiveCommand, ReceivePartition, ReceiveMerge, ReceivePhase,
           Receive, storeVars, hubVars, gatewayVars
  <2>2. RoomInv'
    BY <2>1 DEF RoomInv, NoAttachInFlight, Attaching
  <2> QED
    BY <2>1, <2>2, RoomStutters
<1>2. ASSUME NEW c \in Command, CommandRuns(c)
      PROVE  RoomInv' /\ [Room!Next]_<<phase, Reached>>
  BY <1>2, HandlerRoom
<1>3. ASSUME NEW s \in Socket,
             SocketArrives(s) \/ SocketAttaches(s) \/ AttachFails(s) \/ SocketCloses(s)
      PROVE  RoomInv' /\ [Room!Next]_<<phase, Reached>>
  BY <1>3, SocketRoom
<1>4. ASSUME NEW c \in Command, CommandFails(c)
      PROVE  RoomInv' /\ [Room!Next]_<<phase, Reached>>
  <2>1. UNCHANGED <<phase, hub, conn, at>> /\ (NoCommandInFlight => NoCommandInFlight')
    BY <1>4, FailFrame
       DEF CommandFails, FailCommand, storeVars, hubVars, gatewayVars, NoCommandInFlight,
           InFlight, Steps, StoreSteps
  <2>2. RoomInv'
    BY <2>1 DEF RoomInv, NoAttachInFlight, Attaching
  <2> QED
    BY <2>1, <2>2, RoomStutters
<1>5. CASE Crash
  <2>1. phase' = phase /\ hub' = {} /\ Reached' = {}
    BY <1>5 DEF Crash, storeVars, Reached
  <2>2. \A s \in Socket : ~Attaching(s)'
                          /\ (conn'[s] = "new" => conn[s] = "new" /\ at'[s] = at[s])
    BY <1>5 DEF Crash, Attaching, AttachSteps, RoomInv
  <2>3. RoomInv'
    BY <2>1, <2>2 DEF RoomInv, NoAttachInFlight
  <2> QED
    BY <2>1, <2>3, RoomLeaves
<1>6. CASE UNCHANGED vars
  <2>1. UNCHANGED <<phase, hub, conn, at, pc>>
    BY <1>6 DEF vars, storeVars, hubVars, gatewayVars, taskVars
  <2>2. RoomInv'
    BY <2>1 DEF RoomInv, NoAttachInFlight, NoCommandInFlight, InFlight, Attaching
  <2> QED
    BY <2>1, <2>2, RoomStutters
<1> QED
  BY <1>1, <1>2, <1>3, <1>4, <1>5, <1>6 DEF Next, Rest

LEMMA RoomInvCorrect ==
  ASSUME ~CommandsOverlap, ~AttachesOverlap
  PROVE  Spec => []RoomInv
<1>1. Init => RoomInv
  BY DEF Init, HubInit, GatewayInit, TaskInit, RoomInv, NoCommandInFlight, InFlight,
         Steps, StoreSteps, Attaching, AttachSteps
<1>2. IndType /\ SerialInv /\ RoomInv /\ [Next]_vars => RoomInv'
  BY NextRoom
<1> QED
  BY <1>1, <1>2, IndTypeCorrect, SerialInvCorrect, PTL DEF Spec

(* With commands one at a time and apart from the attaches the server       *)
(* implements the room, up to its fairness: every step of a handler, of an  *)
(* attach, of a socket that closes or of a crash is an Enter, a Leave, a    *)
(* Move or nothing to those in the room.                                    *)
THEOREM ImplementsRoom ==
  ASSUME ~CommandsOverlap, ~AttachesOverlap
  PROVE  Spec => Room!Init /\ [][Room!Next]_<<phase, Reached>>
<1>1. Init => Room!Init
  BY DEF Init, StoreInit, HubInit, Room!Init, Reached
<1>2. IndType /\ SerialInv /\ RoomInv /\ [Next]_vars => [Room!Next]_<<phase, Reached>>
  BY NextRoom
<1> QED
  BY <1>1, <1>2, IndTypeCorrect, SerialInvCorrect, RoomInvCorrect, PTL DEF Spec

----------------------------------------------------------------------------
(* NobodyLeftOut, again with attaches and commands apart.  Whoever is still *)
(* on the way to its participant's record is not among those a handler has  *)
(* listed, and its membership is null already, so that setting it to null   *)
(* changes nothing.  The listing of a handler is therefore complete to its  *)
(* end, and what it has written of those it listed stays until the next     *)
(* handler writes, which has deleted the groups before.                     *)
Unjoined == {"idle", "getEvent", "listParticipants", "upsertParticipant"}

NewcomersFresh ==
  \A s \in Socket :
    /\ at[s] \in Unjoined \cup {"upsertMembership"} => pid[s] = s /\ membership[s] = NoGroup
    /\ at[s] \in Unjoined => joinedAt[s] = 0

ListedAll ==
  \A c \in Command :
    pc[c] \in Clearing \cup TellingSteps /\ op[c] # "phase" => Participants \subseteq listed[c]

OwnGroupsStored ==
  \A c \in Command : pc[c] = "setMemberships" =>
    /\ \A g \in groups : g[1] = c
    /\ op[c] = "partition" => \A p \in listed[c] : plan[c][p] \in groups

PlanWritten ==
  \A c \in Command : pc[c] \in TellingSteps /\ op[c] # "phase" =>
    \A p \in listed[c] : /\ membership[p] = plan[c][p]
                         /\ op[c] = "partition" => plan[c][p] \in groups

PlanKept ==
  \A c \in Command : pc[c] = "done" /\ op[c] = "partition" /\ (\E g \in groups : g[1] = c) =>
    \A p \in listed[c] : membership[p] = plan[c][p]

OnlyPhaseDisconnects == \A c \in Command : pc[c] = "disconnect" => op[c] = "phase"

LeftInv ==
  NewcomersFresh /\ ListedAll /\ OwnGroupsStored /\ PlanWritten /\ PlanKept /\ OnlyPhaseDisconnects

LEMMA InitLeft == Init => LeftInv
  BY DEF Init, StoreInit, HubInit, TaskInit, GatewayInit, LeftInv, NewcomersFresh, ListedAll,
         OwnGroupsStored, PlanWritten, PlanKept, OnlyPhaseDisconnects, Unjoined, Clearing, TellingSteps

\* What a handler leaves alone in every step.
LEMMA HandlerLeaves ==
  ASSUME NEW c \in Command, CommandRuns(c)
  PROVE  UNCHANGED <<joinedAt, pid, at, welcomePhase, op, goal>>
  BY DEF CommandRuns, HandlerStep, CheckNotClosed, RejectClosed, ListParticipants, ListGroups,
         DeleteOneGroup, DeleteGroup, WriteGroups, PutGroups, WriteMemberships, SetMemberships,
         ReadEvent, WritePhase, SetEventPhase, BroadcastPhase, SendPhaseChanged, ReadMembership,
         TellGroup, AssignGroup, Disconnect, DisconnectParticipants, storeVars, hubVars,
         gatewayVars, request

LEMMA HandlerLeft ==
  ASSUME IndType, CapacityInv, OneAtATime, ResolveInv, RoomInv, LeftInv,
         NEW c \in Command, CommandRuns(c)
  PROVE  LeftInv'
<1> USE DEF IndType, TaskInv, TaskTypeOK, InFlight, Steps, StoreSteps, Ended, request
<1>1. /\ HandlerStep(c) /\ pc[c] \in Steps
      /\ \A d \in Command : d # c => pc[d] \notin Steps /\ pc'[d] = pc[d]
  BY HandlerFrame DEF OneAtATime, CommandRuns
<1>2. UNCHANGED <<joinedAt, pid, at, op>> /\ Participants' = Participants
  BY HandlerLeaves DEF Participants
<1>3. NoAttachInFlight
  BY <1>1 DEF RoomInv, NoCommandInFlight
<1>4. ASSUME UNCHANGED <<membership, groups, plan, listed>>,
             pc'[c] # "setMemberships",
             op[c] # "phase" => (pc'[c] \in Clearing \cup TellingSteps => pc[c] \in Clearing \cup TellingSteps),
             op[c] # "phase" /\ pc'[c] \in TellingSteps => pc[c] \in TellingSteps \/ listed[c] = {},
             op[c] = "partition" /\ pc'[c] = "done" => pc[c] \in TellingSteps,
             pc'[c] = "disconnect" => op[c] = "phase"
      PROVE  LeftInv'
  <2> USE <1>1, <1>2, <1>4 DEF LeftInv
  <2>1. NewcomersFresh'
    BY DEF NewcomersFresh
  <2>2. ListedAll'
    BY DEF ListedAll, Clearing, TellingSteps
  <2>3. OwnGroupsStored'
    BY DEF OwnGroupsStored
  <2>4. PlanWritten'
    BY DEF PlanWritten, TellingSteps
  <2>5. PlanKept' /\ OnlyPhaseDisconnects'
    BY DEF OnlyPhaseDisconnects, PlanKept, PlanWritten, TellingSteps
  <2> QED
    BY <2>1, <2>2, <2>3, <2>4, <2>5
<1>5. CASE ListParticipants(c)
  <2>1. /\ pc' = [pc EXCEPT ![c] = "listGroups"] /\ pc[c] = "list"
        /\ listed' = [listed EXCEPT ![c] = Participants]
        /\ \A d \in Command : d # c => plan'[d] = plan[d]
        /\ UNCHANGED <<membership, groups>>
    BY <1>5 DEF ListParticipants, storeVars
  <2> USE <1>1, <1>2, <2>1 DEF LeftInv
  <2>2. NewcomersFresh' /\ OwnGroupsStored'
    BY DEF NewcomersFresh, OwnGroupsStored
  <2>3. ListedAll'
    BY DEF ListedAll, Clearing, TellingSteps
  <2>4. PlanWritten'
    BY DEF PlanWritten, TellingSteps
  <2>5. PlanKept' /\ OnlyPhaseDisconnects'
    BY DEF OnlyPhaseDisconnects, PlanKept
  <2> QED
    BY <2>2, <2>3, <2>4, <2>5
<1>6. ASSUME pc[c] \in {"listGroups", "delete"}, UNCHANGED <<membership, plan, listed>>,
             groups' \subseteq groups,
             \/ pc'[c] = "delete"
             \/ pc'[c] = AfterClear(c) /\ groups' = {}
      PROVE  LeftInv'
  <2> USE <1>1, <1>2, <1>6 DEF LeftInv, AfterClear
  <2>1. NewcomersFresh'
    BY DEF NewcomersFresh
  <2>2. ListedAll'
    BY DEF ListedAll, Clearing, TellingSteps
  <2>3. OwnGroupsStored'
    BY DEF OwnGroupsStored
  <2>4. PlanWritten'
    BY DEF PlanWritten, TellingSteps
  <2>5. PlanKept' /\ OnlyPhaseDisconnects'
    BY DEF OnlyPhaseDisconnects, PlanKept
  <2> QED
    BY <2>1, <2>2, <2>3, <2>4, <2>5
<1>7. CASE ListGroups(c)
  <2>1. /\ pc[c] = "listGroups" /\ UNCHANGED <<membership, plan, listed, groups>>
        /\ pc'[c] = IF groups = {} THEN AfterClear(c) ELSE "delete"
    BY <1>7 DEF ListGroups, storeVars
  <2> QED
    BY <2>1, <1>6
<1>8. CASE DeleteOneGroup(c)
  <2>1. PICK g \in doomed[c] : /\ groups' = groups \ {g}
                               /\ pc'[c] = IF doomed[c] = {g} THEN AfterClear(c) ELSE "delete"
    BY <1>8 DEF DeleteOneGroup, DeleteGroup
  <2>2. pc[c] = "delete" /\ UNCHANGED <<membership, plan, listed>>
    BY <1>8 DEF DeleteOneGroup, DeleteGroup
  <2>3. groups \subseteq doomed[c]
    BY <2>2 DEF ResolveInv, ClearsAll
  <2> QED
    BY <2>1, <2>2, <2>3, <1>6
<1>9. CASE WriteGroups(c)
  <2>1. /\ pc[c] = "putGroups" /\ pc' = [pc EXCEPT ![c] = "setMemberships"]
        /\ groups' = groups \cup {plan[c][p] : p \in listed[c]}
        /\ UNCHANGED <<membership, plan, listed>>
    BY <1>9 DEF WriteGroups, PutGroups
  <2>2. groups = {} /\ op[c] = "partition"
    BY <2>1 DEF ResolveInv, ClearsAll, PlanComplete
  <2>3. \A p \in listed[c] : plan[c][p] \in {c} \X Nat
    BY <2>2, SentinelAssumption DEF PlanComplete, CapacityInv, PlanTagged
  <2>4. \A g \in groups' : g[1] = c
    BY <2>1, <2>2, <2>3
  <2> USE <1>1, <1>2, <2>1 DEF LeftInv
  <2>5. NewcomersFresh' /\ ListedAll'
    BY DEF NewcomersFresh, ListedAll, Clearing, TellingSteps
  <2>6. OwnGroupsStored'
    BY <2>4 DEF OwnGroupsStored
  <2>7. PlanWritten'
    BY DEF PlanWritten, TellingSteps
  <2>8. PlanKept' /\ OnlyPhaseDisconnects'
    BY <2>4 DEF OnlyPhaseDisconnects, PlanKept
  <2> QED
    BY <2>5, <2>6, <2>7, <2>8
<1>10. CASE WriteMemberships(c)
  <2>1. /\ pc[c] = "setMemberships" /\ pc' = [pc EXCEPT ![c] = "getEvent"]
        /\ membership' = [p \in Socket |->
              IF p \in listed[c] THEN plan[c][p] ELSE membership[p]]
        /\ UNCHANGED <<groups, plan, listed>>
    BY <1>10 DEF WriteMemberships, SetMemberships
  <2> USE <1>1, <1>2, <2>1 DEF LeftInv
  <2>2. \A s \in Socket : at[s] \in Unjoined \cup {"upsertMembership"} => s \notin listed[c]
    BY <1>3 DEF NewcomersFresh, Unjoined, NoAttachInFlight, Attaching, AttachSteps,
                ResolveInv, MembersJoined
  <2>3. NewcomersFresh'
    BY <2>2 DEF NewcomersFresh, StoreTypeOK
  <2>4. ListedAll'
    BY DEF ListedAll, Clearing, TellingSteps
  <2>5. OwnGroupsStored'
    BY DEF OwnGroupsStored
  <2>6. PlanWritten'
    BY DEF PlanWritten, TellingSteps, OwnGroupsStored
  <2>7. PlanKept' /\ OnlyPhaseDisconnects'
    BY DEF OnlyPhaseDisconnects, PlanKept, OwnGroupsStored
  <2> QED
    BY <2>3, <2>4, <2>5, <2>6, <2>7
<1>11. CASE CheckNotClosed(c)
  BY <1>11, <1>4 DEF CheckNotClosed, storeVars, Clearing, TellingSteps
<1>12. CASE RejectClosed(c)
  BY <1>12, <1>4 DEF RejectClosed, storeVars, Clearing, TellingSteps
<1>13. CASE ReadEvent(c)
  BY <1>13, <1>4 DEF ReadEvent, storeVars, Clearing, TellingSteps
<1>14. CASE WritePhase(c)
  BY <1>14, <1>4 DEF WritePhase, SetEventPhase, Clearing, TellingSteps
<1>15. CASE BroadcastPhase(c)
  BY <1>15, <1>4 DEF BroadcastPhase, TellStep, storeVars, Clearing, TellingSteps
<1>16. CASE ReadMembership(c)
  BY <1>16, <1>4 DEF ReadMembership, storeVars, Clearing, TellingSteps
<1>17. CASE TellGroup(c)
  BY <1>17, <1>4 DEF TellGroup, TellStep, storeVars, Clearing, TellingSteps
<1>18. CASE Disconnect(c)
  <2>1. /\ pc[c] = "disconnect" /\ pc'[c] = "done" /\ UNCHANGED <<membership, groups, plan, listed>>
    BY <1>18 DEF Disconnect, storeVars
  <2>2. op[c] # "partition"
    BY <2>1 DEF LeftInv, OnlyPhaseDisconnects
  <2> QED
    BY <2>1, <2>2, <1>4 DEF Clearing, TellingSteps
<1> QED
  BY <1>1, <1>5, <1>7, <1>8, <1>9, <1>10, <1>11, <1>12, <1>13, <1>14, <1>15, <1>16, <1>17,
     <1>18 DEF HandlerStep

\* One who is still joining has no membership but null, so that its
\* upsertMembership changes nothing; and it joins while no handler runs.
LEMMA SocketLeft ==
  ASSUME ~AttachesOverlap, IndType, ResolveInv, RoomInv, LeftInv, NEW s \in Socket,
         SocketArrives(s) \/ SocketAttaches(s) \/ AttachFails(s) \/ SocketCloses(s)
  PROVE  LeftInv' /\ membership' = membership
<1> USE DEF IndType, TaskInv, TaskTypeOK, HubTypeOK, GatewayTypeOK, StoreTypeOK
<1>1. UNCHANGED <<pc, op, listed, plan, groups>>
  BY SocketFrame DEF taskVars, request
<1>2. ASSUME membership' = membership, Participants' = Participants \/ NoCommandInFlight,
             NewcomersFresh'
      PROVE  LeftInv' /\ membership' = membership
  <2> USE <1>1, <1>2 DEF LeftInv
  <2>1. ListedAll'
    <3>1. NoCommandInFlight => \A c \in Command : pc[c] \notin Clearing \cup TellingSteps
      BY DEF NoCommandInFlight, InFlight, Steps, StoreSteps, Clearing, TellingSteps
    <3> QED
      BY <3>1 DEF ListedAll
  <2>2. OwnGroupsStored' /\ PlanWritten' /\ PlanKept' /\ OnlyPhaseDisconnects'
    BY DEF OwnGroupsStored, PlanWritten, PlanKept, OnlyPhaseDisconnects
  <2> QED
    BY <2>1, <2>2
<1>3. CASE PutParticipant(s)
  <2>1. /\ at[s] = "upsertParticipant" /\ at' = [at EXCEPT ![s] = "upsertMembership"]
        /\ pid' = pid /\ membership' = membership
        /\ \E now : joinedAt' = [joinedAt EXCEPT ![pid[s]] = now]
    BY <1>3 DEF PutParticipant, UpsertParticipant, hubVars
  <2>2. pid[s] = s
    BY <2>1 DEF LeftInv, NewcomersFresh, Unjoined
  <2>3. NewcomersFresh'
    BY <2>1, <2>2 DEF LeftInv, NewcomersFresh, Unjoined
  <2>4. NoCommandInFlight
    BY <2>1 DEF RoomInv, NoAttachInFlight, Attaching, AttachSteps
  <2> QED
    BY <2>1, <2>3, <2>4, <1>2
<1>4. CASE PutMembership(s)
  <2>1. /\ at[s] = "upsertMembership" /\ at' = [at EXCEPT ![s] = "getMembership"]
        /\ pid' = pid /\ joinedAt' = joinedAt
        /\ membership' = [membership EXCEPT ![pid[s]] = NoGroup]
    BY <1>4 DEF PutMembership, UpsertMembership, hubVars
  <2>2. membership[pid[s]] = NoGroup
    BY <2>1 DEF LeftInv, NewcomersFresh
  <2>3. membership' = membership
    BY <2>1, <2>2
  <2>4. NewcomersFresh'
    BY <2>1, <2>3 DEF LeftInv, NewcomersFresh, Unjoined
  <2> QED
    BY <2>1, <2>3, <2>4, <1>2 DEF Participants
<1>5. ASSUME UNCHANGED <<membership, joinedAt>>,
             \A r \in Socket : r # s => at'[r] = at[r] /\ pid'[r] = pid[r],
             at'[s] \in Unjoined => at[s] \in Unjoined /\ pid'[s] = pid[s],
             at'[s] # "upsertMembership"
      PROVE  LeftInv' /\ membership' = membership
  BY <1>2, <1>5 DEF LeftInv, NewcomersFresh, Participants, Unjoined
<1>6. CASE SocketArrives(s)
  <2>1. conn[s] = "new" /\ at'[s] = "getEvent" /\ UNCHANGED <<membership, joinedAt, pid>>
        /\ \A r \in Socket : r # s => at'[r] = at[r]
    BY <1>6 DEF SocketArrives, Connect, storeVars
  <2>2. at[s] = "idle"
    BY <2>1 DEF RoomInv
  <2> QED
    BY <2>1, <2>2, <1>5 DEF Unjoined
<1>7. CASE AttachFails(s) \/ RefuseClosed(s)
  BY <1>5, <1>7 DEF AttachFails, FailAttach, RefuseClosed, AttachFailed, Unjoined, storeVars
<1>8. CASE SocketCloses(s)
  <2>1. UNCHANGED <<membership, joinedAt, pid, at>>
    BY <1>8 DEF SocketCloses, CloseEvent, Close, storeVars
  <2> QED
    BY <2>1, <1>2 DEF LeftInv, NewcomersFresh, Participants
<1>9. CASE AdmitToEvent(s) \/ NewParticipant(s)
  BY <1>5, <1>9 DEF AdmitToEvent, NewParticipant, Unjoined, storeVars, hubVars
<1>10. CASE FindParticipant(s)
  BY <1>5, <1>10 DEF FindParticipant, Unjoined, storeVars
<1>11. CASE LoadGroup(s) \/ HubAttach(s)
  BY <1>5, <1>11 DEF LoadGroup, HubAttach, Unjoined, storeVars
<1>12. CASE WelcomeReadEvent(s) \/ SendWelcome(s)
  BY <1>5, <1>12 DEF WelcomeReadEvent, SendWelcome, Unjoined, storeVars, hubVars
<1> QED
  BY <1>3, <1>4, <1>6, <1>7, <1>8, <1>9, <1>10, <1>11, <1>12 DEF SocketAttaches, AttachStep

LEMMA NextLeft ==
  ASSUME ~CommandsOverlap, ~AttachesOverlap, IndType, CapacityInv, SerialInv, ResolveInv,
         RoomInv, LeftInv, [Next]_vars
  PROVE  LeftInv'
<1> USE DEF IndType, TaskInv, TaskTypeOK
<1>1. ASSUME NEW c \in Command, CommandArrives(c) PROVE LeftInv'
  <2>1. /\ pc'[c] = "check"
        /\ \A d \in Command : d # c => pc[d] \notin Steps /\ pc'[d] = pc[d] /\ op'[d] = op[d]
        /\ UNCHANGED <<membership, groups, joinedAt, listed, plan, pid, at>>
    BY <1>1, ArriveFrame
       DEF CommandArrives, ReceiveCommand, ReceivePartition, ReceiveMerge, ReceivePhase, Receive,
           NoCommandInFlight, InFlight, storeVars, hubVars, gatewayVars
  <2> USE <2>1 DEF LeftInv
  <2>2. NewcomersFresh' /\ ListedAll'
    BY DEF NewcomersFresh, ListedAll, Participants, Clearing, TellingSteps
  <2>3. OwnGroupsStored'
    BY DEF OwnGroupsStored
  <2>4. PlanWritten'
    BY DEF PlanWritten, TellingSteps
  <2>5. PlanKept' /\ OnlyPhaseDisconnects'
    BY DEF PlanKept, OnlyPhaseDisconnects
  <2> QED
    BY <2>2, <2>3, <2>4, <2>5
<1>2. ASSUME NEW c \in Command, CommandRuns(c) PROVE LeftInv'
  BY <1>2, HandlerLeft DEF SerialInv
<1>3. ASSUME NEW s \in Socket,
             SocketArrives(s) \/ SocketAttaches(s) \/ AttachFails(s) \/ SocketCloses(s)
      PROVE  LeftInv'
  BY <1>3, SocketLeft
<1>4. CASE (\E c \in Command : CommandFails(c)) \/ Crash
  <2>1. /\ UNCHANGED <<membership, joinedAt, groups, op, listed, plan, pid>>
        /\ \A d \in Command : pc'[d] = pc[d] \/ pc'[d] = "failed"
        /\ \A s \in Socket : at'[s] = at[s] \/ at'[s] = "failed"
    BY <1>4, FailFrame DEF CommandFails, FailCommand, Crash, storeVars, request, hubVars,
       gatewayVars, GatewayTypeOK
  <2> USE <2>1 DEF LeftInv
  <2>2. NewcomersFresh' /\ ListedAll'
    BY DEF NewcomersFresh, ListedAll, Participants, Clearing, TellingSteps, Unjoined
  <2>3. OwnGroupsStored'
    BY DEF OwnGroupsStored
  <2>4. PlanWritten'
    BY DEF PlanWritten, TellingSteps
  <2>5. PlanKept' /\ OnlyPhaseDisconnects'
    BY DEF PlanKept, OnlyPhaseDisconnects
  <2> QED
    BY <2>2, <2>3, <2>4, <2>5
<1>5. CASE UNCHANGED vars
  BY <1>5 DEF LeftInv, NewcomersFresh, ListedAll, Participants, OwnGroupsStored, PlanWritten,
     PlanKept, OnlyPhaseDisconnects, vars, storeVars, hubVars, taskVars, gatewayVars, request
<1> QED
  BY <1>1, <1>2, <1>3, <1>4, <1>5 DEF Next, Rest

LEMMA LeftInvCorrect ==
  ASSUME ~CommandsOverlap, ~AttachesOverlap
  PROVE  Spec => []LeftInv
<1>1. IndType /\ CapacityInv /\ SerialInv /\ ResolveInv /\ RoomInv /\ LeftInv /\ [Next]_vars
        => LeftInv'
  BY NextLeft
<1> QED
  BY <1>1, InitLeft, IndTypeCorrect, CapacityInvCorrect, SerialInvCorrect, ResolveInvCorrect,
     RoomInvCorrect, PTL DEF Spec

(* With attaches and commands apart nobody is left out of a partition: while*)
(* it tells its assignments everybody who has joined is in a stored group,  *)
(* and as long as a group of it is stored everybody keeps what it assigned, *)
(* although sockets come back and go, calls fail and the process crashes.   *)
THEOREM NobodyLeftOutCorrect ==
  ASSUME ~CommandsOverlap, ~AttachesOverlap
  PROVE  Spec => []NobodyLeftOut
<1>1. LeftInv => NobodyLeftOut
  BY DEF LeftInv, ListedAll, PlanWritten, PlanKept, NobodyLeftOut, Participants, TellingSteps
<1> QED
  BY <1>1, LeftInvCorrect, PTL

----------------------------------------------------------------------------
(* ScreensCurrent.  A page shows what is stored unless somebody is going to *)
(* tell it: a handler that has written the phase and not yet broadcast it,  *)
(* or one that has written the memberships and not yet come to this         *)
(* participant in its loop.  A handler that has failed owes it for ever, so *)
(* the two facts about what is shown hold until then.                       *)
GroupDue(s) ==
  \E c \in Command : op[c] # "phase" /\
    \/ pc[c] \in {"getEvent", "setEvent", "broadcast"} /\ pid[s] \in listed[c]
    \/ pc[c] \in {"getMembership", "assign"} /\ pid[s] \in left[c]

PhaseDue == \E c \in Command : pc[c] = "broadcast"

\* A session enters the hub knowing no group on its page, and leaves the
\* attach with its welcome sent or its socket closing.
SessionsAttached ==
  \A s \in Socket :
    /\ s \in hub => at[s] \in {"welcomeEvent", "welcome", "ready", "failed"}
    /\ s \in hub /\ at[s] = "failed" => conn[s] # "open"
    /\ at[s] \in Unjoined \cup {"upsertMembership", "getMembership", "attach"} =>
         shownGroup[s] = Unknown

\* What the loop is about to tell is what is stored.
LoopTellsStored ==
  \A c \in Command :
    /\ pc[c] \in {"getMembership", "assign"} => left[c] \subseteq listed[c] /\ op[c] # "phase"
    /\ pc[c] = "getMembership" => op[c] = "partition"
    /\ pc[c] = "assign" /\ op[c] = "partition" => got[c] = membership[First(left[c], KeyOrder)]
    /\ got[c] # NoGroup => op[c] = "partition" /\ pc[c] \in {"assign", "failed"}
    /\ pc[c] = "broadcast" => goal[c] = phase

\* The page has what the cache has, or nothing.
ShownFromCache == \A s \in Reached : shownGroup[s] \in {Unknown, groupIdCache[s]}

PhaseShown ==
  \A s \in Socket :
    /\ at[s] = "welcome" => welcomePhase[s] = phase
    /\ s \in Reached /\ at[s] = "ready" => shownPhase[s] = phase \/ PhaseDue

CacheCurrent ==
  \A s \in Socket :
    s \in hub \/ at[s] = "attach" => groupIdCache[s] = membership[pid[s]] \/ GroupDue(s)

Unfailed == \A c \in Command : pc[c] # "failed"

ScreenInv ==
  /\ SessionsAttached
  /\ LoopTellsStored
  /\ ShownFromCache
  /\ Unfailed => PhaseShown /\ CacheCurrent

LEMMA InitScreen == Init => ScreenInv
  BY DEF Init, StoreInit, HubInit, TaskInit, GatewayInit, ScreenInv, SessionsAttached,
         LoopTellsStored, ShownFromCache, PhaseShown, CacheCurrent, Reached, Unjoined

LEMMA HandlerScreen ==
  ASSUME IndType, OneAtATime, ResolveInv, RoomInv, LeftInv, ScreenInv,
         NEW c \in Command, CommandRuns(c)
  PROVE  ScreenInv'
<1> USE DEF IndType, TaskInv, TaskTypeOK, HubTypeOK, InFlight, Steps, StoreSteps, Ended, request
<1>1. /\ HandlerStep(c) /\ pc[c] \in Steps
      /\ \A d \in Command : d # c => pc[d] \notin Steps /\ pc'[d] = pc[d]
  BY HandlerFrame DEF OneAtATime, CommandRuns
<1>2. UNCHANGED <<joinedAt, pid, at, welcomePhase, op, goal>>
  BY HandlerLeaves
<1>3. \A s \in Socket : at[s] \notin AttachSteps
  BY <1>1 DEF RoomInv, NoCommandInFlight, NoAttachInFlight, Attaching
<1>4. /\ \A d \in Command : d # c => left'[d] = left[d] /\ got'[d] = got[d]
                                     /\ listed'[d] = listed[d]
      /\ pc'[c] # "failed" /\ Unfailed' = Unfailed
  <2>1. \A d \in Command : d # c => left'[d] = left[d] /\ got'[d] = got[d]
                                    /\ listed'[d] = listed[d]
    BY <1>1 DEF HandlerStep, CheckNotClosed, RejectClosed, ListParticipants, ListGroups,
         DeleteOneGroup, WriteGroups, WriteMemberships, ReadEvent, WritePhase, BroadcastPhase,
         ReadMembership, TellGroup, Disconnect
  <2>2. pc'[c] # "failed"
    BY <1>1 DEF HandlerStep, CheckNotClosed, RejectClosed, ListParticipants, ListGroups,
         DeleteOneGroup, WriteGroups, WriteMemberships, ReadEvent, WritePhase, BroadcastPhase,
         ReadMembership, TellGroup, Disconnect, AfterClear, TellStep
  <2> QED
    BY <2>1, <2>2, <1>1 DEF Unfailed
\* Whom the handlers owe something, told of the one that runs.
<1>5. /\ PhaseDue <=> pc[c] = "broadcast"
      /\ PhaseDue' <=> pc'[c] = "broadcast"
      /\ \A s \in Socket : GroupDue(s) <=> op[c] # "phase" /\
           \/ pc[c] \in {"getEvent", "setEvent", "broadcast"} /\ pid[s] \in listed[c]
           \/ pc[c] \in {"getMembership", "assign"} /\ pid[s] \in left[c]
      /\ \A s \in Socket : GroupDue(s)' <=> op[c] # "phase" /\
           \/ pc'[c] \in {"getEvent", "setEvent", "broadcast"} /\ pid[s] \in listed'[c]
           \/ pc'[c] \in {"getMembership", "assign"} /\ pid[s] \in left'[c]
  BY <1>1, <1>2, <1>4 DEF PhaseDue, GroupDue
\* The steps up to the memberships.
<1>6. ASSUME UNCHANGED <<phase, membership, hubVars, left, got>>,
             pc[c] \in {"check", "list", "listGroups", "delete", "putGroups"},
             pc'[c] \notin {"broadcast", "getMembership", "assign", "failed"}
      PROVE  ScreenInv'
  <2> USE <1>1, <1>2, <1>4, <1>6 DEF ScreenInv, hubVars
  <2>1. SessionsAttached' /\ ShownFromCache'
    BY DEF SessionsAttached, ShownFromCache, Reached
  <2>2. LoopTellsStored'
    BY DEF LoopTellsStored
  <2>3. ASSUME Unfailed PROVE PhaseShown' /\ CacheCurrent'
    BY <2>3, <1>5 DEF PhaseShown, CacheCurrent, Reached
  <2> QED
    BY <2>1, <2>2, <2>3
<1>7. CASE CheckNotClosed(c) \/ RejectClosed(c) \/ ListParticipants(c)
  BY <1>6, <1>7 DEF CheckNotClosed, RejectClosed, ListParticipants, storeVars
<1>8. CASE ListGroups(c) \/ DeleteOneGroup(c) \/ WriteGroups(c)
  BY <1>6, <1>8 DEF ListGroups, DeleteOneGroup, DeleteGroup, WriteGroups, PutGroups, AfterClear,
                    storeVars
<1>9. CASE WriteMemberships(c)
  <2>1. /\ pc[c] = "setMemberships" /\ pc'[c] = "getEvent"
        /\ \A p \in Socket : p \notin listed[c] => membership'[p] = membership[p]
        /\ UNCHANGED <<phase, conn, hub, pid, groupIdCache, shownPhase, shownGroup, left, got, listed>>
    BY <1>9 DEF WriteMemberships, SetMemberships, hubVars
  <2>2. op[c] # "phase"
    BY <2>1 DEF ResolveInv, ListsAll, Clearing
  <2> USE <1>1, <1>2, <1>4, <2>1, <2>2 DEF ScreenInv
  <2>3. SessionsAttached' /\ ShownFromCache'
    BY DEF SessionsAttached, ShownFromCache, Reached
  <2>4. LoopTellsStored'
    BY DEF LoopTellsStored
  <2>5. ASSUME Unfailed PROVE PhaseShown' /\ CacheCurrent'
    BY <2>5, <1>5 DEF PhaseShown, CacheCurrent, Reached
  <2> QED
    BY <2>3, <2>4, <2>5
<1>10. CASE ReadEvent(c) \/ WritePhase(c)
  <2>1. /\ pc[c] \in {"getEvent", "setEvent"}
        /\ pc[c] = "getEvent" => pc'[c] = "setEvent" /\ phase' = phase
        /\ pc[c] = "setEvent" => pc'[c] = "broadcast" /\ phase' = goal[c]
        /\ UNCHANGED <<membership, hubVars, left, got, listed>>
    BY <1>10 DEF ReadEvent, WritePhase, SetEventPhase, storeVars
  <2> USE <1>1, <1>2, <1>4, <2>1 DEF ScreenInv, hubVars
  <2>2. SessionsAttached' /\ ShownFromCache'
    BY DEF SessionsAttached, ShownFromCache, Reached
  <2>3. LoopTellsStored'
    BY DEF LoopTellsStored
  <2>4. ASSUME Unfailed PROVE PhaseShown' /\ CacheCurrent'
    BY <2>4, <1>3, <1>5 DEF PhaseShown, CacheCurrent, Reached, AttachSteps
  <2> QED
    BY <2>2, <2>3, <2>4
<1>11. CASE BroadcastPhase(c)
  <2>1. /\ pc[c] = "broadcast"
        /\ shownPhase' = [s \in Socket |-> IF s \in Reached THEN goal[c] ELSE shownPhase[s]]
        /\ left' = [left EXCEPT ![c] = listed[c]]
        /\ pc'[c] \in {"disconnect", "done", "getMembership", "assign"}
        /\ op[c] # "phase" => pc'[c] = IF listed[c] = {} THEN "done" ELSE TellStep(c)
        /\ op[c] = "phase" => pc'[c] \in {"disconnect", "done"}
        /\ UNCHANGED <<phase, membership, conn, hub, pid, groupIdCache, shownGroup, got, listed>>
    BY <1>11 DEF BroadcastPhase, SendPhaseChanged, TellStep, storeVars
  <2>2. goal[c] = phase
    BY <2>1 DEF ScreenInv, LoopTellsStored
  <2> USE <1>1, <1>2, <1>4, <2>1, <2>2 DEF ScreenInv, TellStep
  <2>3. SessionsAttached' /\ ShownFromCache'
    BY DEF SessionsAttached, ShownFromCache, Reached
  <2>4. LoopTellsStored'
    BY DEF LoopTellsStored
  <2>5. ASSUME Unfailed PROVE PhaseShown'
    BY <2>5, <1>3 DEF PhaseShown, Reached, AttachSteps
  <2>6. ASSUME Unfailed PROVE CacheCurrent'
    BY <2>6, <1>5 DEF CacheCurrent
  <2> QED
    BY <2>3, <2>4, <2>5, <2>6
<1>12. CASE ReadMembership(c)
  <2>1. /\ pc[c] = "getMembership" /\ pc'[c] = "assign"
        /\ got' = [got EXCEPT ![c] = membership[First(left[c], KeyOrder)]]
        /\ UNCHANGED <<phase, membership, hubVars, left, listed>>
    BY <1>12 DEF ReadMembership, storeVars
  <2> USE <1>1, <1>2, <1>4, <2>1 DEF ScreenInv, hubVars
  <2>2. SessionsAttached' /\ ShownFromCache'
    BY DEF SessionsAttached, ShownFromCache, Reached
  <2>3. LoopTellsStored'
    BY DEF LoopTellsStored
  <2>4. ASSUME Unfailed PROVE PhaseShown' /\ CacheCurrent'
    BY <2>4, <1>5 DEF PhaseShown, CacheCurrent, Reached
  <2> QED
    BY <2>2, <2>3, <2>4
<1>13. CASE TellGroup(c)
  <2> DEFINE p == First(left[c], KeyOrder)
  <2>1. /\ pc[c] = "assign" /\ AssignGroup(p, got[c])
        /\ left' = [left EXCEPT ![c] = @ \ {p}] /\ got' = [got EXCEPT ![c] = NoGroup]
        /\ pc'[c] = IF left[c] = {p} THEN "done" ELSE TellStep(c)
        /\ UNCHANGED <<phase, membership, listed>>
    BY <1>13 DEF TellGroup, storeVars
  <2>2. p \in left[c] /\ left[c] \subseteq listed[c] /\ op[c] # "phase"
    BY <2>1, FirstSocket DEF LoopHasWork, ScreenInv, LoopTellsStored
  <2>3. got[c] = membership[p]
    <3>1. CASE op[c] = "partition"
      BY <2>1, <3>1 DEF ScreenInv, LoopTellsStored
    <3>2. CASE op[c] # "partition"
      <4>1. got[c] = NoGroup
        BY <3>2 DEF ScreenInv, LoopTellsStored
      <4>2. membership[p] = plan[c][p]
        BY <2>1, <2>2 DEF LeftInv, PlanWritten, TellingSteps
      <4>3. plan[c][p] = NoGroup
        BY <2>2, <3>2 DEF ResolveInv, PlanStored
      <4> QED
        BY <4>1, <4>2, <4>3
    <3> QED
      BY <3>1, <3>2
  <2> HIDE DEF p
  <2> USE <1>1, <1>2, <1>4, <2>1 DEF ScreenInv, AssignGroup, SessionsOf, TellStep
  <2>4. SessionsAttached'
    BY DEF SessionsAttached, Unjoined, Reached
  <2>5. ShownFromCache'
    BY DEF ShownFromCache, Reached
  <2>6. LoopTellsStored'
    BY <2>2 DEF LoopTellsStored
  <2>7. ASSUME Unfailed PROVE PhaseShown'
    BY <2>7, <1>5 DEF PhaseShown, Reached
  <2>8. ASSUME Unfailed PROVE CacheCurrent'
    <3> SUFFICES ASSUME NEW s \in Socket, s \in hub, ~GroupDue(s)'
                 PROVE  groupIdCache'[s] = membership[pid[s]]
      BY <1>3 DEF CacheCurrent, AttachSteps
    <3>1. CASE pid[s] = p
      BY <3>1, <2>3
    <3>2. CASE pid[s] # p
      <4>1. ~GroupDue(s)
        BY <3>2, <2>2, <1>5
      <4> QED
        BY <3>2, <4>1, <2>8 DEF CacheCurrent
    <3> QED
      BY <3>1, <3>2
  <2> QED
    BY <2>4, <2>5, <2>6, <2>7, <2>8
<1>14. CASE Disconnect(c)
  <2>1. /\ pc[c] = "disconnect" /\ pc'[c] = "done"
        /\ conn' = [s \in Socket |-> IF s \in Reached THEN "closing" ELSE conn[s]]
        /\ UNCHANGED <<phase, membership, hub, pid, groupIdCache, shownPhase, shownGroup, left, got,
                       listed>>
    BY <1>14 DEF Disconnect, DisconnectParticipants, storeVars
  <2>2. Reached' = {}
    BY <2>1 DEF Reached
  <2> USE <1>1, <1>2, <1>4, <2>1, <2>2 DEF ScreenInv
  <2>3. SessionsAttached'
    BY DEF SessionsAttached, Reached
  <2>4. LoopTellsStored' /\ ShownFromCache'
    BY DEF LoopTellsStored, ShownFromCache
  <2>5. ASSUME Unfailed PROVE PhaseShown' /\ CacheCurrent'
    BY <2>5, <1>3, <1>5 DEF PhaseShown, CacheCurrent, AttachSteps
  <2> QED
    BY <2>3, <2>4, <2>5
<1> QED
  BY <1>1, <1>7, <1>8, <1>9, <1>10, <1>11, <1>12, <1>13, <1>14 DEF HandlerStep

LEMMA SocketScreen ==
  ASSUME ~AttachesOverlap, IndType, ResolveInv, RoomInv, LeftInv, ScreenInv, NEW s \in Socket,
         SocketArrives(s) \/ SocketAttaches(s) \/ AttachFails(s) \/ SocketCloses(s)
  PROVE  ScreenInv'
<1> USE DEF IndType, HubTypeOK, GatewayTypeOK
<1>1. UNCHANGED <<pc, op, goal, listed, left, got, phase, membership>>
  BY SocketFrame, SocketLeft DEF taskVars, request
<1>2. LoopTellsStored' /\ PhaseDue' = PhaseDue /\ Unfailed' = Unfailed
  BY <1>1 DEF ScreenInv, LoopTellsStored, PhaseDue, Unfailed
\* The others are as they were: what remains is to look at the socket itself.
<1>3. ASSUME \A r \in Socket : r # s =>
               /\ conn'[r] = conn[r] /\ (r \in hub' <=> r \in hub) /\ pid'[r] = pid[r]
               /\ groupIdCache'[r] = groupIdCache[r] /\ shownPhase'[r] = shownPhase[r]
               /\ shownGroup'[r] = shownGroup[r]
               /\ at'[r] = at[r] /\ welcomePhase'[r] = welcomePhase[r],
             hub' \subseteq hub \cup {s},
             s \in hub' => at'[s] \in {"welcomeEvent", "welcome", "ready", "failed"},
             s \in hub' /\ at'[s] = "failed" => conn'[s] # "open",
             at'[s] \in Unjoined \cup {"upsertMembership", "getMembership", "attach"} =>
               shownGroup'[s] = Unknown,
             s \in hub' /\ conn'[s] = "open" => shownGroup'[s] \in {Unknown, groupIdCache'[s]},
             Unfailed /\ at'[s] = "welcome" => welcomePhase'[s] = phase,
             Unfailed /\ s \in hub' /\ conn'[s] = "open" /\ at'[s] = "ready" =>
               shownPhase'[s] = phase \/ PhaseDue,
             Unfailed /\ (s \in hub' \/ at'[s] = "attach") =>
               groupIdCache'[s] = membership[pid'[s]] \/ GroupDue(s)'
      PROVE  ScreenInv'
  <2> USE <1>1, <1>2, <1>3 DEF ScreenInv
  <2>1. SessionsAttached'
    BY DEF SessionsAttached
  <2>2. ShownFromCache'
    BY DEF ShownFromCache, Reached
  <2>3. ASSUME Unfailed PROVE PhaseShown'
    BY <2>3 DEF PhaseShown, Reached
  <2>4. ASSUME Unfailed PROVE CacheCurrent'
    <3> SUFFICES ASSUME NEW r \in Socket, r # s, r \in hub \/ at[r] = "attach"
                 PROVE  groupIdCache[r] = membership[pid[r]] \/ GroupDue(r)'
      BY <2>4 DEF CacheCurrent
    <3>1. GroupDue(r) => GroupDue(r)'
      BY DEF GroupDue
    <3> QED
      BY <3>1, <2>4 DEF CacheCurrent
  <2> QED
    BY <2>1, <2>2, <2>3, <2>4
<1>4. /\ at[s] \in Unjoined \cup {"upsertMembership", "getMembership", "attach"} =>
           s \notin hub /\ shownGroup[s] = Unknown
      /\ s \in hub => at[s] \in {"welcomeEvent", "welcome", "ready", "failed"}
      /\ s \in hub /\ at[s] = "failed" => conn[s] # "open"
      /\ s \in hub /\ conn[s] = "open" => shownGroup[s] \in {Unknown, groupIdCache[s]}
      /\ Unfailed /\ at[s] = "welcome" => welcomePhase[s] = phase
      /\ Unfailed /\ s \in hub /\ conn[s] = "open" /\ at[s] = "ready" =>
           shownPhase[s] = phase \/ PhaseDue
      /\ Unfailed /\ (s \in hub \/ at[s] = "attach") =>
           groupIdCache[s] = membership[pid[s]] \/ GroupDue(s)
  BY DEF ScreenInv, SessionsAttached, ShownFromCache, PhaseShown, CacheCurrent, Reached, Unjoined
<1>5. pid'[s] = pid[s] => (GroupDue(s)' <=> GroupDue(s))
  BY <1>1 DEF GroupDue
<1>6. CASE SocketArrives(s)
  <2>1. /\ conn[s] = "new" /\ at' = [at EXCEPT ![s] = "getEvent"]
        /\ conn' = [conn EXCEPT ![s] = "open"]
        /\ UNCHANGED <<hub, pid, groupIdCache, shownPhase, shownGroup, welcomePhase>>
    BY <1>6 DEF SocketArrives, Connect
  <2>2. at[s] = "idle"
    BY <2>1 DEF RoomInv
  <2> QED
    BY <2>1, <2>2, <1>3, <1>4 DEF Unjoined
<1>7. CASE AttachFails(s) \/ RefuseClosed(s)
  <2>1. /\ at' = [at EXCEPT ![s] = "failed"]
        /\ conn' = [conn EXCEPT ![s] = IF @ = "open" THEN "closing" ELSE @]
        /\ UNCHANGED <<hub, pid, groupIdCache, shownPhase, shownGroup, welcomePhase>>
    BY <1>7 DEF AttachFails, FailAttach, RefuseClosed, AttachFailed
  <2> QED
    BY <2>1, <1>3, <1>4, <1>5 DEF Unjoined
<1>8. CASE SocketCloses(s)
  <2>1. /\ conn' = [conn EXCEPT ![s] = "closed"] /\ hub' = hub \ {s}
        /\ shownPhase' = [shownPhase EXCEPT ![s] = Unknown]
        /\ shownGroup' = [shownGroup EXCEPT ![s] = Unknown]
        /\ UNCHANGED <<pid, groupIdCache, at, welcomePhase>>
    BY <1>8 DEF SocketCloses, CloseEvent, Close
  <2> QED
    BY <2>1, <1>3, <1>4, <1>5
<1>9. CASE AdmitToEvent(s) \/ NewParticipant(s) \/ PutParticipant(s) \/ PutMembership(s)
  <2>1. /\ at[s] \in Unjoined \cup {"upsertMembership"}
        /\ \E step \in {"listParticipants", "upsertParticipant", "upsertMembership", "getMembership"} :
             at' = [at EXCEPT ![s] = step]
        /\ UNCHANGED <<hubVars, welcomePhase>>
    BY <1>9 DEF AdmitToEvent, NewParticipant, PutParticipant, PutMembership, Unjoined
  <2> QED
    BY <2>1, <1>3, <1>4 DEF hubVars, Unjoined
<1>10. CASE FindParticipant(s)
  <2>1. /\ at[s] = "listParticipants" /\ at' = [at EXCEPT ![s] = "getMembership"]
        /\ \E p : pid' = [pid EXCEPT ![s] = p]
        /\ UNCHANGED <<conn, hub, groupIdCache, shownPhase, shownGroup, welcomePhase>>
    BY <1>10 DEF FindParticipant
  <2> QED
    BY <2>1, <1>3, <1>4 DEF Unjoined
<1>11. CASE LoadGroup(s)
  <2>1. /\ at[s] = "getMembership" /\ at' = [at EXCEPT ![s] = "attach"]
        /\ groupIdCache' = [groupIdCache EXCEPT ![s] = membership[pid[s]]]
        /\ UNCHANGED <<conn, hub, pid, shownPhase, shownGroup, welcomePhase>>
    BY <1>11 DEF LoadGroup
  <2> QED
    BY <2>1, <1>3, <1>4 DEF Unjoined
<1>12. CASE HubAttach(s)
  <2>1. /\ at[s] = "attach" /\ at' = [at EXCEPT ![s] = "welcomeEvent"] /\ hub' = hub \cup {s}
        /\ UNCHANGED <<conn, pid, groupIdCache, shownPhase, shownGroup, welcomePhase>>
    BY <1>12 DEF HubAttach
  <2> QED
    BY <2>1, <1>3, <1>4, <1>5 DEF Unjoined
<1>13. CASE WelcomeReadEvent(s)
  <2>1. /\ at[s] = "welcomeEvent" /\ at' = [at EXCEPT ![s] = "welcome"]
        /\ welcomePhase' = [welcomePhase EXCEPT ![s] = phase] /\ UNCHANGED hubVars
    BY <1>13 DEF WelcomeReadEvent
  <2> QED
    BY <2>1, <1>3, <1>4, <1>5 DEF hubVars, Unjoined
<1>14. CASE SendWelcome(s)
  <2>1. /\ at[s] = "welcome" /\ at' = [at EXCEPT ![s] = "ready"]
        /\ shownPhase' = [shownPhase EXCEPT ![s] =
                            IF conn[s] = "open" THEN welcomePhase[s] ELSE @]
        /\ welcomePhase' = [welcomePhase EXCEPT ![s] = Unknown]
        /\ UNCHANGED <<conn, hub, pid, groupIdCache, shownGroup>>
    BY <1>14 DEF SendWelcome
  <2> QED
    BY <2>1, <1>3, <1>4, <1>5 DEF Unjoined
<1> QED
  BY <1>6, <1>7, <1>8, <1>9, <1>10, <1>11, <1>12, <1>13, <1>14 DEF SocketAttaches, AttachStep

LEMMA NextScreen ==
  ASSUME ~CommandsOverlap, ~AttachesOverlap, IndType, SerialInv, ResolveInv, RoomInv, LeftInv,
         ScreenInv, [Next]_vars
  PROVE  ScreenInv'
<1> USE DEF IndType, TaskInv, TaskTypeOK, HubTypeOK, GatewayTypeOK
<1>1. ASSUME NEW c \in Command, CommandArrives(c) PROVE ScreenInv'
  <2>1. /\ pc[c] = "idle" /\ pc'[c] = "check"
        /\ \A d \in Command : d # c => /\ pc[d] \notin Steps /\ pc'[d] = pc[d]
                                       /\ op'[d] = op[d] /\ goal'[d] = goal[d]
        /\ UNCHANGED <<phase, membership, hubVars, at, welcomePhase, listed, left, got>>
    BY <1>1, ArriveFrame
       DEF CommandArrives, ReceiveCommand, ReceivePartition, ReceiveMerge, ReceivePhase, Receive,
           NoCommandInFlight, InFlight, storeVars, gatewayVars
  <2>2. /\ ~PhaseDue /\ (Unfailed' => Unfailed)
        /\ \A s \in Socket : ~GroupDue(s)
    BY <2>1 DEF PhaseDue, GroupDue, Unfailed, Steps, StoreSteps
  <2> USE <2>1, <2>2 DEF ScreenInv, hubVars
  <2>3. SessionsAttached' /\ ShownFromCache'
    BY DEF SessionsAttached, ShownFromCache, Reached
  <2>4. LoopTellsStored'
    BY DEF LoopTellsStored, Steps, StoreSteps
  <2>5. ASSUME Unfailed PROVE PhaseShown' /\ CacheCurrent'
    BY <2>5 DEF PhaseShown, CacheCurrent, Reached
  <2> QED
    BY <2>3, <2>4, <2>5
<1>2. ASSUME NEW c \in Command, CommandRuns(c) PROVE ScreenInv'
  BY <1>2, HandlerScreen DEF SerialInv
<1>3. ASSUME NEW s \in Socket,
             SocketArrives(s) \/ SocketAttaches(s) \/ AttachFails(s) \/ SocketCloses(s)
      PROVE  ScreenInv'
  BY <1>3, SocketScreen
<1>4. ASSUME NEW c \in Command, CommandFails(c) PROVE ScreenInv'
  <2>1. /\ pc[c] \in StoreSteps /\ pc' = [pc EXCEPT ![c] = "failed"]
        /\ UNCHANGED <<phase, membership, hubVars, at, welcomePhase, op, goal, listed, left, got>>
    BY <1>4 DEF CommandFails, FailCommand, storeVars, gatewayVars, request
  <2>2. ~Unfailed'
    BY <2>1 DEF Unfailed
  <2>3. SessionsAttached' /\ ShownFromCache'
    BY <2>1 DEF ScreenInv, SessionsAttached, ShownFromCache, Reached, hubVars
  <2>4. LoopTellsStored'
    BY <2>1 DEF ScreenInv, LoopTellsStored
  <2> QED
    BY <2>2, <2>3, <2>4 DEF ScreenInv
<1>5. CASE Crash
  <2>1. /\ hub' = {} /\ UNCHANGED <<phase, membership, shownGroup, op, goal, listed, left, got>>
        /\ \A d \in Command : pc'[d] = pc[d] \/ pc'[d] = "failed"
        /\ \A s \in Socket : at'[s] \notin AttachSteps /\ (at'[s] = at[s] \/ at'[s] = "failed")
    BY <1>5 DEF Crash, storeVars, request, Attaching, AttachSteps
  <2> USE <2>1 DEF ScreenInv
  <2>2. SessionsAttached' /\ ShownFromCache'
    BY DEF SessionsAttached, ShownFromCache, Reached, Unjoined
  <2>3. LoopTellsStored'
    BY DEF LoopTellsStored
  <2>4. PhaseShown' /\ CacheCurrent'
    BY DEF PhaseShown, CacheCurrent, Reached, AttachSteps
  <2> QED
    BY <2>2, <2>3, <2>4
<1>6. CASE UNCHANGED vars
  <2>1. UNCHANGED <<phase, membership, hubVars, at, welcomePhase, pc, op, goal, listed, left, got>>
    BY <1>6 DEF vars, storeVars, taskVars, gatewayVars, request
  <2> USE <2>1 DEF ScreenInv, hubVars
  <2>2. SessionsAttached' /\ ShownFromCache' /\ LoopTellsStored'
    BY DEF SessionsAttached, ShownFromCache, LoopTellsStored, Reached
  <2>3. (Unfailed' => PhaseShown' /\ CacheCurrent')
    BY DEF Unfailed, PhaseShown, CacheCurrent, Reached, PhaseDue, GroupDue
  <2> QED
    BY <2>2, <2>3
<1> QED
  BY <1>1, <1>2, <1>3, <1>4, <1>5, <1>6 DEF Next, Rest

(* With attaches and commands apart every connected page shows, between     *)
(* tasks, the phase and the group that are stored, and its session filters  *)
(* by that group, as long as no command has failed half way: for any number *)
(* of sockets, of sessions of one participant and of commands, sockets that *)
(* close at will, attaches that fail and restarts.                          *)
THEOREM ScreensCurrentCorrect ==
  ASSUME ~CommandsOverlap, ~AttachesOverlap
  PROVE  Spec => []ScreensCurrent
<1>1. IndType /\ SerialInv /\ ResolveInv /\ RoomInv /\ LeftInv /\ ScreenInv /\ [Next]_vars
        => ScreenInv'
  BY NextScreen
<1>2. IndType /\ ScreenInv => ScreensCurrent
  <2> SUFFICES ASSUME IndType, ScreenInv, NoCommandInFlight, NoAttachInFlight,
                      \A c \in Command : pc[c] # "failed", NEW s \in Reached
               PROVE  /\ shownPhase[s] = phase
                      /\ groupIdCache[s] = membership[pid[s]]
                      /\ shownGroup[s] \in {Unknown, membership[pid[s]]}
    BY DEF ScreensCurrent
  <2>1. ~PhaseDue /\ ~GroupDue(s) /\ Unfailed
    BY DEF PhaseDue, GroupDue, Unfailed, NoCommandInFlight, InFlight, Steps, StoreSteps
  <2>2. s \in Socket /\ s \in hub /\ conn[s] = "open"
    BY DEF Reached, IndType, HubTypeOK
  <2>3. at[s] = "ready"
    BY <2>2 DEF ScreenInv, SessionsAttached, NoAttachInFlight, Attaching, AttachSteps
  <2> QED
    BY <2>1, <2>2, <2>3 DEF ScreenInv, PhaseShown, CacheCurrent, ShownFromCache
<1> QED
  BY <1>1, <1>2, InitScreen, IndTypeCorrect, SerialInvCorrect, ResolveInvCorrect, RoomInvCorrect,
     LeftInvCorrect, PTL DEF Spec
=============================================================================
