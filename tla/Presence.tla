------------------------------ MODULE Presence ------------------------------
(***************************************************************************)
(* Who the panel of the host counts as online, away and offline: the        *)
(* heartbeat of a page (startHeartbeat and stopHeartbeat of both clients),  *)
(* the presence record it stores (handleHeartbeat, Store.putPresence), and  *)
(* the summaries for the panel (Store.summarizePresence), made by the       *)
(* sweeper (systems/presenceSweeper.ts) and by the host's own heartbeat.    *)
(*                                                                         *)
(* Time passes in units of 5 s.  The system promises no delay at all; that  *)
(* a heartbeat is stored, and a summary sent, within MaxLag is an assumption *)
(* of the model, and the properties say what the panel is worth under it.   *)
(* The host's page stays connected; as its heartbeat is one more reason to   *)
(* make a summary, and the host may have several pages, one may begin at any *)
(* time.  That page is counted, too, like any device that stays on.         *)
(***************************************************************************)
EXTENDS Naturals

CONSTANTS
  Device,      \* what has a presence record
  Beat,        \* heartbeatIntervalMs
  Interval,    \* SWEEP_INTERVAL_MS
  Away, Offline,  \* the ages of summarizePresence
  Expiry,      \* expireIn
  MaxLag,      \* longest time of a heartbeat to the store and of a summary to the panel
  MaxFaults    \* bound of the model on summaries that fail

ASSUME PresenceAssumption ==
  /\ {Beat, Interval, Away, Offline, Expiry} \subseteq Nat \ {0}
  /\ MaxLag \in Nat /\ MaxFaults \in Nat
  /\ MaxLag < Beat      \* a heartbeat is stored before the next one is sent
  /\ Beat + MaxLag < Away /\ Away <= Offline /\ Offline + MaxLag < Expiry

VARIABLES
  on,       \* the devices whose page has an open socket
  steady,   \* for how long that has not changed, nor a heartbeat been lost
  sinceBeat,  \* time since the interval of the page's heartbeat started
  beats,    \* heartbeats under way: since when
  recorded, age,  \* the presence records, with the time since lastSeenAt
  sinceSweep,  \* time since the interval of the sweeper started
  making,   \* summaries being made, and since when their task runs
  panel,    \* HostRealtimeState.presence: what each device counts as
  stale,    \* the age of the panel: since the `now' of its summary
  faults

pageVars   == <<on, steady, sinceBeat>>
recordVars == <<recorded, age>>
panelVars  == <<panel, stale>>
vars == <<pageVars, beats, recordVars, sinceSweep, making, panelVars, faults>>

Maker == {"sweeper", "host"}
Status == {"online", "away", "offline"}

\* When the panel's summary is older than that, no sweep has come through: an
\* interval, twice the lag, as a summary may overtake a newer one, and an interval
\* for each sweep that failed.
Freshness == Interval * (1 + faults) + 2 * MaxLag

\* Long enough for the panel to show that a page beats, or that it is gone.
Settled == Beat + Freshness
Departed == MaxLag + Offline + Freshness

\* The clocks stop where no property looks any further.
Horizon == MaxLag + Offline + Interval * (1 + MaxFaults) + 2 * MaxLag + 1

TypeOK ==
  /\ on \subseteq Device
  /\ steady \in [Device -> 0..Horizon]
  /\ sinceBeat \in [Device -> 0..Beat]
  /\ beats \in [Device -> SUBSET (0..MaxLag)]
  /\ recorded \subseteq Device
  /\ age \in [Device -> 0..Expiry]
  /\ sinceSweep \in 0..Interval
  /\ making \subseteq Maker \X (0..MaxLag)
  /\ panel \in [Device -> Status \cup {"unseen"}]
  /\ stale \in 0..Horizon
  /\ faults \in 0..MaxFaults

Init ==
  /\ on = {} /\ steady = [d \in Device |-> 0] /\ sinceBeat = [d \in Device |-> 0]
  /\ beats = [d \in Device |-> {}]
  /\ recorded = {} /\ age = [d \in Device |-> 0]
  /\ sinceSweep = 0 /\ making = {}
  /\ panel = [d \in Device |-> "unseen"] /\ stale = 0
  /\ faults = 0

----------------------------------------------------------------------------
(* The page.                                                               *)

\* The open event: startHeartbeat.  The first heartbeat comes an interval later.
Open(d) ==
  /\ d \notin on
  /\ on' = on \cup {d}
  /\ steady' = [steady EXCEPT ![d] = 0] /\ sinceBeat' = [sinceBeat EXCEPT ![d] = 0]
  /\ UNCHANGED <<beats, recordVars, sinceSweep, making, panelVars, faults>>

\* The close event: stopHeartbeat.
Close(d) ==
  /\ d \in on
  /\ on' = on \ {d}
  /\ steady' = [steady EXCEPT ![d] = 0] /\ sinceBeat' = [sinceBeat EXCEPT ![d] = 0]
  /\ UNCHANGED <<beats, recordVars, sinceSweep, making, panelVars, faults>>

\* The interval of the heartbeat is over.
SendBeat(d) ==
  /\ d \in on /\ sinceBeat[d] = Beat
  /\ sinceBeat' = [sinceBeat EXCEPT ![d] = 0]
  /\ beats' = [beats EXCEPT ![d] = @ \cup {0}]
  /\ UNCHANGED <<on, steady, recordVars, sinceSweep, making, panelVars, faults>>

----------------------------------------------------------------------------
(* The server.                                                             *)

\* handleHeartbeat: putPresence with the time `late' units ago at which the handler
\* began.
PutPresence(d, lag, late) ==
  /\ lag \in beats[d] /\ late <= lag
  /\ beats' = [beats EXCEPT ![d] = @ \ {lag}]
  /\ recorded' = recorded \cup {d} /\ age' = [age EXCEPT ![d] = late]
  /\ UNCHANGED <<pageVars, sinceSweep, making, panelVars, faults>>

\* handleHeartbeat of the host, after its putPresence; one at a time.
HostBeat ==
  /\ \A task \in making : task[1] # "host"
  /\ making' = making \cup {<<"host", 0>>}
  /\ UNCHANGED <<pageVars, beats, recordVars, sinceSweep, panelVars, faults>>

\* The store drops a record some time after it expires.
Expire(d) ==
  /\ d \in recorded /\ age[d] = Expiry
  /\ recorded' = recorded \ {d}
  /\ UNCHANGED <<pageVars, beats, age, sinceSweep, making, panelVars, faults>>

\* Defect: every other sweep is left out.
SweepInterval_Double == 2 * Interval

SweepInterval == Interval

\* The timer of the sweeper, which does not wait for the sweep before.
StartSweep ==
  /\ sinceSweep = SweepInterval /\ sinceSweep' = 0
  /\ making' = making \cup {<<"sweeper", 0>>}
  /\ UNCHANGED <<pageVars, beats, recordVars, panelVars, faults>>

\* Defect: away after one interval of the heartbeat.
StatusFromAge_Hasty(a) ==
  IF a >= Offline THEN "offline" ELSE IF a >= Beat THEN "away" ELSE "online"

\* Defect: nobody is offline.
StatusFromAge_NoOffline(a) == IF a >= Away THEN "away" ELSE "online"

StatusFromAge(a) ==
  IF a >= Offline THEN "offline" ELSE IF a >= Away THEN "away" ELSE "online"

\* summarizePresence and the presence.delta with it.  `now' was read `late' units
\* ago, when the sweeper had come to the event; a record may be younger than that.
Summarize(task, late) ==
  /\ task \in making /\ late <= task[2]
  /\ making' = making \ {task}
  /\ panel' = [d \in Device |-> IF d \notin recorded THEN "unseen"
                                ELSE StatusFromAge(IF age[d] > late THEN age[d] - late ELSE 0)]
  /\ stale' = late
  /\ UNCHANGED <<pageVars, beats, recordVars, sinceSweep, faults>>

----------------------------------------------------------------------------
(* Faults.                                                                 *)

\* A heartbeat is lost with a socket that nobody has found broken yet, or the store
\* rejects it.
LoseBeat(d, lag) ==
  /\ lag \in beats[d]
  /\ beats' = [beats EXCEPT ![d] = @ \ {lag}]
  /\ steady' = IF d \in on THEN [steady EXCEPT ![d] = 0] ELSE steady
  /\ UNCHANGED <<on, sinceBeat, recordVars, sinceSweep, making, panelVars, faults>>

\* The store rejects the summary: the sweeper goes on with the next event.
FailSummary(task) ==
  /\ faults < MaxFaults /\ faults' = faults + 1
  /\ task \in making
  /\ making' = making \ {task}
  /\ UNCHANGED <<pageVars, beats, recordVars, sinceSweep, panelVars>>

----------------------------------------------------------------------------
(* Time.  Timers are on time, and nothing takes longer than MaxLag.        *)

Older(t, limit) == IF t < limit THEN t + 1 ELSE t

\* Defect: stopHeartbeat does not clear the interval.
Beating_Always(d) == TRUE

\* The heartbeat is not null.
Beating(d) == d \in on

Tick ==
  /\ \A d \in on : sinceBeat[d] < Beat
  /\ \A d \in Device : MaxLag \notin beats[d]
  /\ sinceSweep < SweepInterval
  /\ \A task \in making : task[2] < MaxLag
  /\ steady' = [d \in Device |-> Older(steady[d], Horizon)]
  /\ sinceBeat' = [d \in Device |-> IF Beating(d) THEN sinceBeat[d] + 1 ELSE sinceBeat[d]]
  /\ beats' = [d \in Device |-> {lag + 1 : lag \in beats[d]}]
  /\ age' = [d \in Device |-> IF d \in recorded THEN Older(age[d], Expiry) ELSE 0]
  /\ sinceSweep' = sinceSweep + 1
  /\ making' = {<<task[1], task[2] + 1>> : task \in making}
  /\ stale' = Older(stale, Horizon)
  /\ UNCHANGED <<on, recorded, panel, faults>>

Next ==
  \/ \E d \in Device : Open(d) \/ Close(d) \/ SendBeat(d) \/ Expire(d)
  \/ \E d \in Device, lag \in 0..MaxLag :
       \/ \E late \in 0..MaxLag : PutPresence(d, lag, late)
       \/ LoseBeat(d, lag)
  \/ HostBeat \/ StartSweep
  \/ \E task \in making :
       \/ \E late \in 0..MaxLag : Summarize(task, late)
       \/ FailSummary(task)
  \/ Tick

Spec == Init /\ [][Next]_vars

----------------------------------------------------------------------------
(* Properties.                                                             *)

\* The panel is never older than an interval and twice the lag, with sweeps that
\* overlap and send their summaries in the wrong order (startPresenceSweeper does not
\* wait for the sweep before); the store has to work for that.
PanelFresh == stale <= Freshness

\* A page that has been beating for a while counts as online, and goes on to, although
\* its heartbeats are late and the summaries overtake each other.
BeatingIsOnline ==
  \A d \in on : steady[d] > Settled => panel[d] = "online"

\* A page that is gone counts as offline in the end, or no longer counts, once its
\* record has expired; a last heartbeat that comes late does not bring it back for long.
GoneIsOffline ==
  \A d \in Device \ on : steady[d] >= Departed => panel[d] \in {"offline", "unseen"}
=============================================================================
