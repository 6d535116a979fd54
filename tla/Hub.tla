-------------------------------- MODULE Hub --------------------------------
(***************************************************************************)
(* The participants' sockets of one event in the process that serves them: *)
(* the in-process Hub (apps/realtime/src/ws/hub.ts), the mutable part of a *)
(* SocketSession (ws/session.ts) and what the Broadcaster (ws/broadcaster. *)
(* ts) puts on a socket.                                                   *)
(*                                                                         *)
(* A WebSocket keeps the order of its messages, so what a page shows once  *)
(* it has read everything is what was sent to it last: shownPhase and      *)
(* shownGroup change at the send.  Host sockets receive the same broadcasts*)
(* but no decision of the server depends on them; they are left out.       *)
(***************************************************************************)
EXTENDS EventStore

CONSTANT Unknown \* what a page shows before it has been told anything

VARIABLES
  conn,          \* readyState of the socket: "new", "open", "closing", "closed"
  hub,           \* the sessions in Hub.eventSockets
  pid,           \* SocketSession.participantId
  groupIdCache,  \* SocketSession.groupIdCache
  shownPhase,    \* the last phase the page was sent (welcome, phase.changed)
  shownGroup     \* the last group it was sent (group.assigned)

hubVars == <<conn, hub, pid, groupIdCache, shownPhase, shownGroup>>

HubTypeOK ==
  /\ conn \in [Socket -> {"new", "open", "closing", "closed"}]
  /\ hub \subseteq Socket
  /\ pid \in [Socket -> Socket]
  /\ groupIdCache \in [Socket -> Gid \cup {NoGroup}]
  /\ shownPhase \in [Socket -> Phase \cup {Unknown}]
  /\ shownGroup \in [Socket -> Gid \cup {NoGroup, Unknown}]

HubInit ==
  /\ conn = [s \in Socket |-> "new"]
  /\ hub = {}
  /\ pid = [s \in Socket |-> s]
  /\ groupIdCache = [s \in Socket |-> NoGroup]
  /\ shownPhase = [s \in Socket |-> Unknown]
  /\ shownGroup = [s \in Socket |-> Unknown]

----------------------------------------------------------------------------
\* The sessions a broadcast to the event reaches.
Reached == {s \in hub : conn[s] = "open"}

\* The sessions of one participant.
SessionsOf(p) == {s \in hub : pid[s] = p}

\* Broadcaster.toEvent of a phase.changed: fanOut skips a socket not open.
SendPhaseChanged(new) ==
  /\ shownPhase' = [s \in Socket |-> IF s \in Reached THEN new ELSE shownPhase[s]]
  /\ UNCHANGED <<conn, hub, pid, groupIdCache, shownGroup>>

\* The body of the assignment loops: set the cache of every session of the
\* participant, send group.assigned to those that are open.
AssignGroup(p, g) ==
  /\ groupIdCache' = [s \in Socket |-> IF s \in SessionsOf(p) THEN g ELSE groupIdCache[s]]
  /\ shownGroup' = [s \in Socket |-> IF s \in SessionsOf(p) \cap Reached
                                      THEN g ELSE shownGroup[s]]
  /\ UNCHANGED <<conn, hub, pid, shownPhase>>

\* Hub.disconnectParticipants.
DisconnectParticipants ==
  /\ conn' = [s \in Socket |-> IF s \in Reached THEN "closing" ELSE conn[s]]
  /\ UNCHANGED <<hub, pid, groupIdCache, shownPhase, shownGroup>>

\* The close event: the listener that detaches the session is registered in
\* the same turn as Hub.attach, so a session that is not attached yet has none.
\* Whoever began the closing, readyState is CLOSED when the event fires.  What
\* the page showed is of no interest once its socket is closed.
Close(s) ==
  /\ conn[s] \in {"open", "closing"}
  /\ conn' = [conn EXCEPT ![s] = "closed"]
  /\ hub' = hub \ {s}
  /\ shownPhase' = [shownPhase EXCEPT ![s] = Unknown]
  /\ shownGroup' = [shownGroup EXCEPT ![s] = Unknown]
  /\ UNCHANGED <<pid, groupIdCache>>
=============================================================================
