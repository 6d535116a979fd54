---------------------------- MODULE HostCommands ----------------------------
(***************************************************************************)
(* The three messages of a host that rearrange an event: partition, merge  *)
(* and phase (apps/realtime/src/ws/handlers.ts).                           *)
(*                                                                         *)
(* A handler is an async function and the message listener does not wait   *)
(* for the previous one, so several handlers may be under way.  pc[c] is   *)
(* where the handler of command c stands: one step up to the next await on *)
(* the store, and one for each stretch of code that touches the hub.  The  *)
(* task variables are the locals a handler keeps across its awaits.  A     *)
(* handler outlives the socket its message came on.                        *)
(***************************************************************************)
EXTENDS Hub

CONSTANTS
  Sizes,         \* the group sizes a host asks for
  HostPhases     \* the phases a host sets by name

VARIABLES
  pc,            \* the next step of the handler
  op,            \* which handler it is
  goal,          \* the phase the handler is going to set
  size,          \* partition: payload.size
  listed,        \* participants: the result of listParticipants
  plan,          \* memberships: the group each of them is to be in
  doomed,        \* the groups clearGroupsForEvent has still to delete
  stamped,       \* the closedAt that setEventPhase's get returned
  left,          \* the participants the assignment loop has still to tell
  got            \* the group getMembership returned for the first of them

request  == <<op, goal, size>>
taskVars == <<pc, request, listed, plan, doomed, stamped, left, got>>

\* The steps that wait for the store, where its promise may be rejected, and
\* those that run on without it.
StoreSteps == {"check", "list", "listGroups", "delete", "putGroups",
               "setMemberships", "getEvent", "setEvent", "broadcast",
               "getMembership"}
Steps == StoreSteps \cup {"assign", "disconnect"}
Ended == {"done", "rejected", "failed"}

TaskTypeOK ==
  /\ pc \in [Command -> {"idle"} \cup Steps \cup Ended]
  /\ op \in [Command -> {"none", "partition", "merge", "phase"}]
  /\ goal \in [Command -> Phase]
  /\ size \in [Command -> Nat \ {0}]
  /\ listed \in [Command -> SUBSET Socket]
  /\ plan \in [Command -> [Socket -> Gid \cup {NoGroup}]]
  /\ doomed \in [Command -> SUBSET Gid]
  /\ stamped \in [Command -> BOOLEAN]
  /\ left \in [Command -> SUBSET Socket]
  /\ got \in [Command -> Gid \cup {NoGroup}]

TaskInit ==
  /\ pc = [c \in Command |-> "idle"]
  /\ op = [c \in Command |-> "none"]
  /\ goal = [c \in Command |-> "lobby"]
  /\ size = [c \in Command |-> 1]
  /\ listed = [c \in Command |-> {}]
  /\ plan = [c \in Command |-> [p \in Socket |-> NoGroup]]
  /\ doomed = [c \in Command |-> {}]
  /\ stamped = [c \in Command |-> FALSE]
  /\ left = [c \in Command |-> {}]
  /\ got = [c \in Command |-> NoGroup]

InFlight(c) == pc[c] \in Steps

Goto(c, step) == pc' = [pc EXCEPT ![c] = step]

----------------------------------------------------------------------------
(* The message arrives.                                                    *)

Receive(c, kind, new, n) ==
  /\ pc[c] = "idle"
  /\ Goto(c, "check")
  /\ op' = [op EXCEPT ![c] = kind]
  /\ goal' = [goal EXCEPT ![c] = new]
  /\ size' = [size EXCEPT ![c] = n]
  /\ UNCHANGED <<listed, plan, doomed, stamped, left, got, storeVars, hubVars>>

\* host.group.partition; the codec admits sizes from 1 on.
ReceivePartition(c) == \E n \in Sizes : Receive(c, "partition", "breakout", n)

\* host.group.merge
ReceiveMerge(c) == Receive(c, "merge", "plenary", 1)

\* host.event.phase
ReceivePhase(c) == \E new \in HostPhases : Receive(c, "phase", new, 1)

----------------------------------------------------------------------------
(* The check every handler begins with.                                    *)

\* Defect: the handler does not look at the phase.
CheckNotClosed_Missing(c) ==
  /\ pc[c] = "check"
  /\ Goto(c, IF op[c] = "phase" THEN "getEvent" ELSE "list")
  /\ UNCHANGED <<request, listed, plan, doomed, stamped, left, got, storeVars, hubVars>>

\* requireEventNotClosed, and the test of handleHostPhase, which lets an event
\* be closed again.
CheckNotClosed(c) ==
  /\ pc[c] = "check"
  /\ phase # "closed" \/ goal[c] = "closed"
  /\ Goto(c, IF op[c] = "phase" THEN "getEvent" ELSE "list")
  /\ UNCHANGED <<request, listed, plan, doomed, stamped, left, got, storeVars, hubVars>>

\* ProtocolError EVENT_CLOSED goes back to the host.
RejectClosed(c) ==
  /\ pc[c] = "check"
  /\ phase = "closed" /\ goal[c] # "closed"
  /\ Goto(c, "rejected")
  /\ UNCHANGED <<request, listed, plan, doomed, stamped, left, got, storeVars, hubVars>>

----------------------------------------------------------------------------
(* Partition and merge: the groups and the memberships.                    *)

\* The memberships partitionIntoGroups returns for the participants P, and
\* those handleHostMerge writes.
PlanFor(c, P) ==
  [p \in Socket |->
     IF op[c] = "partition" /\ p \in P
       THEN <<c, GroupIndex(p, P, joinedAt, KeyOrder, size[c])>>
       ELSE NoGroup]

\* listParticipants and the computation on its result.  handleHostMerge lists
\* the groups too, for a world nobody reads afterwards.
ListParticipants(c) ==
  /\ pc[c] = "list"
  /\ listed' = [listed EXCEPT ![c] = Participants]
  /\ plan' = [plan EXCEPT ![c] = PlanFor(c, Participants)]
  /\ Goto(c, "listGroups")
  /\ UNCHANGED <<request, doomed, stamped, left, got, storeVars, hubVars>>

\* Defect: a merge deletes the groups and leaves the memberships.
AfterClear_MergeKeeps(c) ==
  IF listed[c] = {} \/ op[c] = "merge" THEN "getEvent" ELSE "putGroups"

\* What follows the clearing: putGroups and setMemberships return at once when
\* they are given nothing.
AfterClear(c) ==
  IF listed[c] = {} THEN "getEvent"
  ELSE IF op[c] = "partition" THEN "putGroups" ELSE "setMemberships"

\* Defect: the groups of the partition before are left in the store.
ListGroups_ClearsNothing(c) ==
  /\ pc[c] = "listGroups"
  /\ Goto(c, AfterClear(c))
  /\ UNCHANGED <<request, listed, plan, doomed, stamped, left, got, storeVars, hubVars>>

\* The kv.list of clearGroupsForEvent.
ListGroups(c) ==
  /\ pc[c] = "listGroups"
  /\ doomed' = [doomed EXCEPT ![c] = groups]
  /\ Goto(c, IF groups = {} THEN AfterClear(c) ELSE "delete")
  /\ UNCHANGED <<request, listed, plan, stamped, left, got, storeVars, hubVars>>

\* The kv.delete of clearGroupsForEvent, one group after the other; the keys
\* are random, so any order.
DeleteOneGroup(c) ==
  /\ pc[c] = "delete"
  /\ \E g \in doomed[c] :
       /\ DeleteGroup(g)
       /\ doomed' = [doomed EXCEPT ![c] = @ \ {g}]
       /\ Goto(c, IF doomed[c] = {g} THEN AfterClear(c) ELSE "delete")
  /\ UNCHANGED <<request, listed, plan, stamped, left, got, hubVars>>

\* Defect: only the first group reaches the store.
WriteGroups_First(c) ==
  /\ pc[c] = "putGroups"
  /\ PutGroups({plan[c][First(listed[c], KeyOrder)]})
  /\ Goto(c, "setMemberships")
  /\ UNCHANGED <<request, listed, plan, doomed, stamped, left, got, hubVars>>

WriteGroups(c) ==
  /\ pc[c] = "putGroups"
  /\ PutGroups({plan[c][p] : p \in listed[c]})
  /\ Goto(c, "setMemberships")
  /\ UNCHANGED <<request, listed, plan, doomed, stamped, left, got, hubVars>>

WriteMemberships(c) ==
  /\ pc[c] = "setMemberships"
  /\ SetMemberships(listed[c], plan[c])
  /\ Goto(c, "getEvent")
  /\ UNCHANGED <<request, listed, plan, doomed, stamped, left, got, hubVars>>

----------------------------------------------------------------------------
(* setEventPhase, and the broadcast of the phase.                          *)

ReadEvent(c) ==
  /\ pc[c] = "getEvent"
  /\ stamped' = [stamped EXCEPT ![c] = closedAt]
  /\ Goto(c, "setEvent")
  /\ UNCHANGED <<request, listed, plan, doomed, left, got, storeVars, hubVars>>

WritePhase(c) ==
  /\ pc[c] = "setEvent"
  /\ SetEventPhase(goal[c], stamped[c])
  /\ Goto(c, "broadcast")
  /\ UNCHANGED <<request, listed, plan, doomed, stamped, left, got, hubVars>>

\* The next step for a participant whose turn it is in the loop.
TellStep(c) == IF op[c] = "partition" THEN "getMembership" ELSE "assign"

\* appendOutbox has returned: phase.changed goes to every open socket.  What
\* follows is the loop over the participants, or the disconnection.
BroadcastPhase(c) ==
  /\ pc[c] = "broadcast"
  /\ SendPhaseChanged(goal[c])
  /\ left' = [left EXCEPT ![c] = listed[c]]
  /\ Goto(c, IF op[c] = "phase"
               THEN (IF goal[c] = "closed" THEN "disconnect" ELSE "done")
               ELSE (IF listed[c] = {} THEN "done" ELSE TellStep(c)))
  /\ UNCHANGED <<request, listed, plan, doomed, stamped, got, storeVars>>

----------------------------------------------------------------------------
(* fanOutGroupAssignments, and the loop at the end of handleHostMerge.     *)

ReadMembership(c) ==
  /\ pc[c] = "getMembership"
  /\ got' = [got EXCEPT ![c] = membership[First(left[c], KeyOrder)]]
  /\ Goto(c, "assign")
  /\ UNCHANGED <<request, listed, plan, doomed, stamped, left, storeVars, hubVars>>

\* One turn of the loop; handleHostMerge tells null without reading.
TellGroup(c) ==
  /\ pc[c] = "assign"
  /\ LET p == First(left[c], KeyOrder)
     IN /\ AssignGroup(p, got[c])
        /\ left' = [left EXCEPT ![c] = @ \ {p}]
        /\ Goto(c, IF left[c] = {p} THEN "done" ELSE TellStep(c))
  /\ got' = [got EXCEPT ![c] = NoGroup]
  /\ UNCHANGED <<request, listed, plan, doomed, stamped, storeVars>>

----------------------------------------------------------------------------
\* Defect: concluding leaves the participants connected.
Disconnect_Nobody(c) ==
  /\ pc[c] = "disconnect"
  /\ Goto(c, "done")
  /\ UNCHANGED <<request, listed, plan, doomed, stamped, left, got, storeVars, hubVars>>

\* The last lines of handleHostPhase.
Disconnect(c) ==
  /\ pc[c] = "disconnect"
  /\ DisconnectParticipants
  /\ Goto(c, "done")
  /\ UNCHANGED <<request, listed, plan, doomed, stamped, left, got, storeVars>>

\* The store rejects: the handler ends where it stands, what it has written
\* stays, and the listener answers the host with an error.
FailCommand(c) ==
  /\ pc[c] \in StoreSteps
  /\ Goto(c, "failed")
  /\ UNCHANGED <<request, listed, plan, doomed, stamped, left, got, storeVars, hubVars>>

HandlerStep(c) ==
  \/ CheckNotClosed(c) \/ RejectClosed(c)
  \/ ListParticipants(c) \/ ListGroups(c) \/ DeleteOneGroup(c)
  \/ WriteGroups(c) \/ WriteMemberships(c)
  \/ ReadEvent(c) \/ WritePhase(c) \/ BroadcastPhase(c)
  \/ ReadMembership(c) \/ TellGroup(c) \/ Disconnect(c)

ReceiveCommand(c) == ReceivePartition(c) \/ ReceiveMerge(c) \/ ReceivePhase(c)
=============================================================================
