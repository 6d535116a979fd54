----------------------------- MODULE EventStore -----------------------------
(***************************************************************************)
(* What the realtime server keeps of one event in Deno KV, and the store   *)
(* operations that change it (apps/realtime/src/kv/store.ts).              *)
(*                                                                         *)
(* A get, a set, a delete or an atomic commit takes effect at one point,   *)
(* so each operator below is the whole effect of one storage call.  An     *)
(* operation of the Store class that makes two calls (setEventPhase,       *)
(* clearGroupsForEvent) is two operators, and other work may run between.  *)
(*                                                                         *)
(* A participant id is random and made by the attach that stores the       *)
(* record: the model names the participant after the socket of that attach.*)
(* A group id is random and made by the partition that stores the group:   *)
(* the model names the group after the command and the group's index.      *)
(***************************************************************************)
EXTENDS Grouping

CONSTANTS
  Socket,        \* participant connections, and the participants they create
  Command,       \* messages of hosts
  KeyOrder,      \* [Socket -> Nat]: the order of the participants' keys
  NoGroup        \* groupId: null, and no membership record at all

VARIABLES
  phase,         \* EventMeta.phase
  closedAt,      \* whether EventMeta.closedAt is set
  clock,         \* Date.now() at the last joining; 0 before the first
  joinedAt,      \* Participant.joinedAt; 0 when there is no such record
  membership,    \* Membership.groupId of a participant
  groups         \* the stored Group records

storeVars == <<phase, closedAt, clock, joinedAt, membership, groups>>

Phase == {"lobby", "plenary", "breakout", "closed"}

Gid == Command \X Nat

StoreTypeOK ==
  /\ phase \in Phase
  /\ closedAt \in BOOLEAN
  /\ clock \in Nat
  /\ joinedAt \in [Socket -> Nat]
  /\ membership \in [Socket -> Gid \cup {NoGroup}]
  /\ groups \subseteq Gid

\* POST /host/events has stored the event, in the lobby; nobody has joined.
StoreInit ==
  /\ phase = "lobby"
  /\ closedAt = FALSE
  /\ clock = 0
  /\ joinedAt = [p \in Socket |-> 0]
  /\ membership = [p \in Socket |-> NoGroup]
  /\ groups = {}

----------------------------------------------------------------------------
\* Defect: an event that is closed again loses its closedAt.
SetEventPhase_DropsStamp(new, stamped) ==
  /\ phase' = new
  /\ closedAt' = (~stamped /\ new = "closed")
  /\ UNCHANGED <<clock, joinedAt, membership, groups>>

\* The set of setEventPhase; `stamped' is the closedAt its get returned.
SetEventPhase(new, stamped) ==
  /\ phase' = new
  /\ closedAt' = (stamped \/ new = "closed")
  /\ UNCHANGED <<clock, joinedAt, membership, groups>>

\* listParticipants.
Participants == {p \in Socket : joinedAt[p] # 0}

\* Date.now() at a new record: the millisecond of the last one, or a later.
UpsertParticipant(p) ==
  \E now \in {clock, clock + 1} \ {0} :
    /\ clock' = now
    /\ joinedAt' = [joinedAt EXCEPT ![p] = now]
    /\ UNCHANGED <<phase, closedAt, membership, groups>>

UpsertMembership(p, g) ==
  /\ membership' = [membership EXCEPT ![p] = g]
  /\ UNCHANGED <<phase, closedAt, clock, joinedAt, groups>>

\* One atomic commit for the memberships of P.
SetMemberships(P, plan) ==
  /\ membership' = [p \in Socket |-> IF p \in P THEN plan[p] ELSE membership[p]]
  /\ UNCHANGED <<phase, closedAt, clock, joinedAt, groups>>

\* One turn of the loop of clearGroupsForEvent.
DeleteGroup(g) ==
  /\ groups' = groups \ {g}
  /\ UNCHANGED <<phase, closedAt, clock, joinedAt, membership>>

\* One atomic commit.
PutGroups(G) ==
  /\ groups' = groups \cup G
  /\ UNCHANGED <<phase, closedAt, clock, joinedAt, membership>>
=============================================================================
