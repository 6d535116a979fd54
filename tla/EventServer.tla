---------------------------- MODULE EventServer ----------------------------
(***************************************************************************)
(* One event on the realtime server: the commands of its hosts and the     *)
(* attaching sockets of its participants, over the store and the hub they  *)
(* share.  One isolate runs them all, a task yields at every await, so the *)
(* steps of the tasks interleave.                                          *)
(*                                                                         *)
(* Nothing in the code orders two tasks.  The constants say what the       *)
(* environment does, so that a run can tell what depends on it.            *)
(***************************************************************************)
EXTENDS HostCommands, Gateway

CONSTANTS
  CommandsOverlap,  \* a host sends a command while another is being handled
  AttachesOverlap,  \* a socket attaches while a command is being handled
  Faults            \* the store rejects calls; the process crashes

ASSUME ServerAssumption ==
  /\ IsFiniteSet(Socket)
  /\ KeyOrder \in [Socket -> Nat]
  /\ \A p, q \in Socket : KeyOrder[p] = KeyOrder[q] => p = q
  /\ Sizes \subseteq Nat \ {0}
  /\ HostPhases \subseteq Phase
  /\ CommandsOverlap \in BOOLEAN
  /\ AttachesOverlap \in BOOLEAN
  /\ Faults \in BOOLEAN

ASSUME SentinelAssumption ==
  /\ NoGroup \notin Gid
  /\ Unknown \notin Gid \cup {NoGroup}

vars == <<storeVars, hubVars, taskVars, gatewayVars>>

TypeOK == StoreTypeOK /\ HubTypeOK /\ TaskTypeOK /\ GatewayTypeOK

Init == StoreInit /\ HubInit /\ TaskInit /\ GatewayInit

NoCommandInFlight == \A c \in Command : ~InFlight(c)
NoAttachInFlight == \A s \in Socket : ~Attaching(s)

----------------------------------------------------------------------------
CommandArrives(c) ==
  /\ CommandsOverlap \/ NoCommandInFlight
  /\ AttachesOverlap \/ NoAttachInFlight
  /\ ReceiveCommand(c)
  /\ UNCHANGED gatewayVars

CommandRuns(c) == HandlerStep(c) /\ UNCHANGED gatewayVars

CommandFails(c) == Faults /\ FailCommand(c) /\ UNCHANGED gatewayVars

SocketArrives(s) ==
  /\ AttachesOverlap \/ NoCommandInFlight
  /\ Connect(s)
  /\ UNCHANGED taskVars

SocketAttaches(s) == AttachStep(s) /\ UNCHANGED taskVars

AttachFails(s) == Faults /\ FailAttach(s) /\ UNCHANGED taskVars

SocketCloses(s) == CloseEvent(s) /\ UNCHANGED taskVars

\* The process dies and is started again: the tasks and the hub are gone, the
\* connections are cut, the store is as the last call left it.
Crash ==
  /\ Faults
  /\ pc' = [c \in Command |-> IF InFlight(c) THEN "failed" ELSE pc[c]]
  /\ at' = [s \in Socket |-> IF Attaching(s) THEN "failed" ELSE at[s]]
  /\ conn' = [s \in Socket |-> IF conn[s] = "new" THEN "new" ELSE "closed"]
  /\ hub' = {}
  /\ UNCHANGED <<storeVars, pid, groupIdCache, shownPhase, shownGroup,
                 request, listed, plan, doomed, stamped, left, got, welcomePhase>>

\* No task under way: the server waits.  A task that could not go on would
\* be a deadlock.
Rest == NoCommandInFlight /\ NoAttachInFlight /\ UNCHANGED vars

Next ==
  \/ \E c \in Command : CommandArrives(c) \/ CommandRuns(c) \/ CommandFails(c)
  \/ \E s \in Socket : \/ SocketArrives(s) \/ SocketAttaches(s)
                       \/ AttachFails(s) \/ SocketCloses(s)
  \/ Crash
  \/ Rest

Spec == Init /\ [][Next]_vars

\* A task that can go on does: the store answers every call it is sent.
Fairness ==
  /\ \A c \in Command : WF_vars(CommandRuns(c))
  /\ \A s \in Socket : WF_vars(SocketAttaches(s))

FairSpec == Spec /\ Fairness

----------------------------------------------------------------------------
(* No group ever has more members in the store than the host asked for,    *)
(* whatever overlaps and whatever fails: memberships are only ever written *)
(* from one computation of partitionIntoGroups per group id.               *)
GroupCapacity ==
  \A g \in {membership[p] : p \in Socket} \ {NoGroup} :
    Cardinality({p \in Socket : membership[p] = g}) <= size[g[1]]

(* The stored groups all come from one partition: clearGroupsForEvent is   *)
(* done before putGroups, and the list it works from is fresh, also after  *)
(* a partition that failed half way.  Needs commands one at a time.        *)
OneGeneration ==
  \A g, h \in groups : g[1] = h[1]

(* Between commands no membership names a group that is gone, unless a     *)
(* command failed between clearGroupsForEvent and setMemberships.  Needs   *)
(* commands one at a time; sockets may attach meanwhile.                   *)
MembershipsResolve ==
  NoCommandInFlight /\ (\A c \in Command : pc[c] # "failed")
    => \A p \in Socket : membership[p] \in groups \cup {NoGroup}

(* A partition or merge repairs what a failed one left behind: from its    *)
(* setMemberships to its end every membership resolves, so that            *)
(* fanOutGroupAssignments reads back groups that exist.                    *)
TellingSteps == {"getEvent", "setEvent", "broadcast", "getMembership", "assign"}

RewriteResolves ==
  (\E c \in Command : op[c] # "phase" /\ pc[c] \in TellingSteps)
    => \A p \in Socket : membership[p] \in groups \cup {NoGroup}

(* A concluded event stays concluded (handleHostPhase, requireEventNotClosed).*)
(* Needs commands one at a time: the check is several awaits before the    *)
(* write.                                                                  *)
ClosedIsFinal == [][phase = "closed" => phase' = "closed"]_vars

(* An event that is closed says since when, and never forgets it again: no *)
(* write of the event starts from a record without closedAt while there is *)
(* one with it (setEventPhase reads, then writes the whole record).        *)
ClosedStamped ==
  [][(phase' = "closed" => closedAt') /\ (closedAt => closedAt')]_vars

(* Nobody gets into the hub of a concluded event: createSession refuses,   *)
(* and what it found is still so when Hub.attach runs.  Needs attaches and *)
(* commands apart.                                                         *)
AttachOnlyWhileOpen ==
  [][\A s \in Socket : s \in hub' \ hub => phase # "closed"]_vars

(* While a partition tells its assignments, everybody who has joined is in *)
(* a group that is stored; and when it is done, as long as a group of it is*)
(* stored, everybody it has assigned keeps the group, also who comes back  *)
(* with a new socket (ensureParticipant writes no membership for a device  *)
(* it knows), and whatever fails later.  Needs attaches and commands apart:*)
(* one who joins after listParticipants is in no group, and the membership *)
(* null of an attach under way erases one.                                 *)
NobodyLeftOut ==
  \A c \in Command : op[c] = "partition" =>
    /\ pc[c] \in TellingSteps => \A p \in Participants : membership[p] \in groups
    /\ pc[c] = "done" /\ (\E g \in groups : g[1] = c) =>
         \A p \in listed[c] : membership[p] = plan[c][p]

(* Between tasks, every session that is connected has been told the phase  *)
(* and keeps the group that is stored: what toGroup filters by, and what   *)
(* the page shows; unless a command has failed before it told all of it.   *)
(* Needs attaches and commands apart.                                      *)
ScreensCurrent ==
  NoCommandInFlight /\ NoAttachInFlight /\ (\A c \in Command : pc[c] # "failed") =>
    \A s \in Reached :
      /\ shownPhase[s] = phase
      /\ groupIdCache[s] = membership[pid[s]]
      /\ shownGroup[s] \in {Unknown, membership[pid[s]]}

(* ... and has been told its group.                                        *)
GroupShown ==
  NoCommandInFlight /\ NoAttachInFlight =>
    \A s \in Reached :
      membership[pid[s]] # NoGroup => shownGroup[s] = membership[pid[s]]

(* The room of the event: those a broadcast reaches.  With the commands    *)
(* one at a time and apart from the attaches the server is an EventRoom:   *)
(* concluding is final, closes the door and sends everyone home.           *)
Room == INSTANCE EventRoom WITH Person <- Socket, phase <- phase, room <- Reached
RoomSpec == Room!Spec
=============================================================================
