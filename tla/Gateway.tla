------------------------------ MODULE Gateway ------------------------------
(***************************************************************************)
(* How the socket of a participant becomes a session of the event          *)
(* (apps/realtime/src/ws/gateway.ts): attachSession, with createSession,   *)
(* ensureParticipant and sendWelcome, one step up to each await.           *)
(*                                                                         *)
(* The module starts where the token has been verified and the socket is   *)
(* open; the claims carry the device.  The upgrade, the token and the      *)
(* connection cap come before (ConnectionCap).                             *)
(***************************************************************************)
EXTENDS Hub

CONSTANT DeviceOf  \* claims.deviceId of each socket

VARIABLES
  at,            \* the next step of attachSession
  welcomePhase   \* the phase sendWelcome's getEvent returned

gatewayVars == <<at, welcomePhase>>

AttachSteps == {"getEvent", "listParticipants", "upsertParticipant",
                "upsertMembership", "getMembership", "attach",
                "welcomeEvent", "welcome"}

GatewayTypeOK ==
  /\ at \in [Socket -> {"idle", "ready", "failed"} \cup AttachSteps]
  /\ welcomePhase \in [Socket -> Phase \cup {Unknown}]

GatewayInit ==
  /\ at = [s \in Socket |-> "idle"]
  /\ welcomePhase = [s \in Socket |-> Unknown]

Attaching(s) == at[s] \in AttachSteps

Proceed(s, step) == at' = [at EXCEPT ![s] = step]

----------------------------------------------------------------------------
\* A token verified, the socket open: attachSession is called.
Connect(s) ==
  /\ conn[s] = "new"
  /\ conn' = [conn EXCEPT ![s] = "open"]
  /\ Proceed(s, "getEvent")
  /\ UNCHANGED <<hub, pid, groupIdCache, shownPhase, shownGroup, welcomePhase, storeVars>>

\* The getEvent of createSession, for an event that is not closed.
AdmitToEvent(s) ==
  /\ at[s] = "getEvent"
  /\ phase # "closed"
  /\ Proceed(s, "listParticipants")
  /\ UNCHANGED <<welcomePhase, storeVars, hubVars>>

\* The catch of attachSession: an error is sent and the socket closed, which
\* does nothing on one that is closed already.  A session that is in the hub
\* stays there until the close event.
AttachFailed(s) ==
  /\ Proceed(s, "failed")
  /\ conn' = [conn EXCEPT ![s] = IF @ = "open" THEN "closing" ELSE @]
  /\ UNCHANGED <<hub, pid, groupIdCache, shownPhase, shownGroup, welcomePhase, storeVars>>

\* The getEvent of createSession: EVENT_CLOSED.
RefuseClosed(s) ==
  /\ at[s] = "getEvent"
  /\ phase = "closed"
  /\ AttachFailed(s)

\* The records ensureParticipant's find would accept.
SameDevice(s) == {p \in Participants : DeviceOf[p] = DeviceOf[s]}

\* Defect: the membership of a known participant is set to null, too.
FindParticipant_Resets(s) ==
  /\ at[s] = "listParticipants"
  /\ SameDevice(s) # {}
  /\ pid' = [pid EXCEPT ![s] = First(SameDevice(s), KeyOrder)]
  /\ Proceed(s, "upsertMembership")
  /\ UNCHANGED <<conn, hub, groupIdCache, shownPhase, shownGroup, welcomePhase, storeVars>>

\* listParticipants: a participant of this device, in key order.
FindParticipant(s) ==
  /\ at[s] = "listParticipants"
  /\ SameDevice(s) # {}
  /\ pid' = [pid EXCEPT ![s] = First(SameDevice(s), KeyOrder)]
  /\ Proceed(s, "getMembership")
  /\ UNCHANGED <<conn, hub, groupIdCache, shownPhase, shownGroup, welcomePhase, storeVars>>

\* listParticipants: none, so a new id is drawn; pid[s] is s.
NewParticipant(s) ==
  /\ at[s] = "listParticipants"
  /\ SameDevice(s) = {}
  /\ Proceed(s, "upsertParticipant")
  /\ UNCHANGED <<welcomePhase, storeVars, hubVars>>

PutParticipant(s) ==
  /\ at[s] = "upsertParticipant"
  /\ UpsertParticipant(pid[s])
  /\ Proceed(s, "upsertMembership")
  /\ UNCHANGED <<welcomePhase, hubVars>>

PutMembership(s) ==
  /\ at[s] = "upsertMembership"
  /\ UpsertMembership(pid[s], NoGroup)
  /\ Proceed(s, "getMembership")
  /\ UNCHANGED <<welcomePhase, hubVars>>

\* Defect: no record leaves the cache undefined, which is not null.
LoadGroup_Undefined(s) ==
  /\ at[s] = "getMembership"
  /\ groupIdCache' = [groupIdCache EXCEPT ![s] =
                         IF membership[pid[s]] = NoGroup THEN Unknown ELSE membership[pid[s]]]
  /\ Proceed(s, "attach")
  /\ UNCHANGED <<conn, hub, pid, shownPhase, shownGroup, welcomePhase, storeVars>>

\* Defect: the session starts without a group, as if every participant were new.
LoadGroup_Nobody(s) ==
  /\ at[s] = "getMembership"
  /\ groupIdCache' = [groupIdCache EXCEPT ![s] = NoGroup]
  /\ Proceed(s, "attach")
  /\ UNCHANGED <<conn, hub, pid, shownPhase, shownGroup, welcomePhase, storeVars>>

\* The getMembership of createSession fills the cache of the session.
LoadGroup(s) ==
  /\ at[s] = "getMembership"
  /\ groupIdCache' = [groupIdCache EXCEPT ![s] = membership[pid[s]]]
  /\ Proceed(s, "attach")
  /\ UNCHANGED <<conn, hub, pid, shownPhase, shownGroup, welcomePhase, storeVars>>

\* Hub.attach and registerHandlers, in one turn, whatever became of the socket.
HubAttach(s) ==
  /\ at[s] = "attach"
  /\ hub' = hub \cup {s}
  /\ Proceed(s, "welcomeEvent")
  /\ UNCHANGED <<conn, pid, groupIdCache, shownPhase, shownGroup, welcomePhase, storeVars>>

\* The getEvent of sendWelcome.
WelcomeReadEvent(s) ==
  /\ at[s] = "welcomeEvent"
  /\ welcomePhase' = [welcomePhase EXCEPT ![s] = phase]
  /\ Proceed(s, "welcome")
  /\ UNCHANGED <<storeVars, hubVars>>

\* sendWelcome goes on after its getMembership.  The page takes the phase from
\* the welcome; the group in it is kept and never shown.
SendWelcome(s) ==
  /\ at[s] = "welcome"
  /\ shownPhase' = [shownPhase EXCEPT ![s] = IF conn[s] = "open" THEN welcomePhase[s] ELSE @]
  /\ welcomePhase' = [welcomePhase EXCEPT ![s] = Unknown]
  /\ Proceed(s, "ready")
  /\ UNCHANGED <<conn, hub, pid, groupIdCache, shownGroup, storeVars>>

\* The store rejects one of the calls.
FailAttach(s) ==
  /\ at[s] \in AttachSteps \ {"attach"}
  /\ AttachFailed(s)

\* The peer goes away, or the close the server began completes.
CloseEvent(s) ==
  /\ Close(s)
  /\ UNCHANGED <<at, welcomePhase, storeVars>>

AttachStep(s) ==
  \/ AdmitToEvent(s) \/ RefuseClosed(s)
  \/ FindParticipant(s) \/ NewParticipant(s)
  \/ PutParticipant(s) \/ PutMembership(s) \/ LoadGroup(s)
  \/ HubAttach(s)
  \/ WelcomeReadEvent(s) \/ SendWelcome(s)
=============================================================================
