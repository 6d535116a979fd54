-------------------------- MODULE ParticipantClient --------------------------
(***************************************************************************)
(* A participant's page and the server's end of its sockets: the           *)
(* RealtimeClient with its reconnects, the SubmitQueue and what the page    *)
(* makes of the messages (apps/client), the attach of each socket           *)
(* (ws/gateway.ts), response.submit, the issue of a form and the conclusion *)
(* of the event (ws/handlers.ts).                                          *)
(*                                                                         *)
(* A socket is two queues of frames, close frames included.  When it is cut *)
(* what is under way is lost and both ends get the close event.  The page   *)
(* stays in one session, from the join to the end of it, and the host       *)
(* issues one form.                                                        *)
(***************************************************************************)
EXTENDS Naturals, Sequences, SequencesExt

CONSTANTS
  Answer,       \* the questions of the form
  Slot,         \* the sockets that may exist at a time, ending ones included
  MaxAttempts,  \* opts.maxReconnectAttempts
  MaxFaults,    \* bound of the model on Fault
  None          \* this.socket = null

ASSUME ClientAssumption ==
  /\ MaxAttempts \in Nat /\ MaxFaults \in Nat /\ None \notin Slot
  /\ Answer \cap {"bye", "reject"} = {}      \* an answer is no close frame

VARIABLES
  socket,       \* RealtimeClient.socket
  attempts,     \* RealtimeClient.reconnectAttempts
  timer,        \* "new" before the first connect(); whether reconnectTimer is set
  page,         \* "live"; "thanks" once the phase is closed; "join" for the form
  stopped,      \* closedByUser or terminalStop
  form,         \* the page has the form
  given,        \* the questions answered on the page
  queue,        \* SubmitQueue.queue
  near,         \* readyState of the page's end: "free" when there is none
  up, down,     \* the frames under way
  cut,          \* the connection is gone
  far,          \* readyState of the server's end
  at,           \* the next step of bindSocket and attachSession
  sawClosed,    \* whether the phase that sendWelcome has read is closed
  handling,     \* the handlers of response.submit: <<socket, answer, next step>>
  stored,       \* how often each answer has been stored
  issued,       \* how far the issue of the form is
  closed,       \* EventMeta.phase is closed
  host,         \* the next step of the handler that concludes the event
  faults,       \* how many there were
  spoiled,      \* history: answers a cut, a failure or the conclusion excuses
  unheard,      \* history: answers that arrived before the session listened
  barren        \* history: sockets in a row that ended without a welcome

clientVars  == <<socket, attempts, timer, page, stopped>>
queueVars   == <<form, given, queue>>
wireVars    == <<near, up, down, cut, far>>
handlerVars == <<handling, stored>>
hostVars    == <<issued, closed, host>>
history     == <<spoiled, unheard, barren>>
vars == <<clientVars, queueVars, wireVars, at, sawClosed, handlerVars, hostVars,
          faults, history>>

\* The frames the page reads, and the close frames: "reject" is code 1008.
Message == {"welcome", "welcomeClosed", "phaseClosed", "eventClosed", "form"}
Goodbye == {"bye", "reject"}

\* registerHandlers has run.
Listening == {"bound", "welcoming", "ready"}

TypeOK ==
  /\ socket \in Slot \cup {None}
  /\ attempts \in 0..MaxAttempts
  /\ timer \in {"new", "set", "off"}
  /\ page \in {"live", "thanks", "join"}
  /\ {stopped, form, closed} \subseteq BOOLEAN
  /\ issued \in {"no", "stored", "sent"}
  /\ given \subseteq Answer
  /\ queue \in Seq(Answer)
  /\ near \in [Slot -> {"free", "connecting", "open", "closing"}]
  /\ up \in [Slot -> Seq(Answer \cup Goodbye)]
  /\ down \in [Slot -> Seq(Message \cup Goodbye)]
  /\ cut \in [Slot -> BOOLEAN]
  /\ far \in [Slot -> {"none", "open", "closing", "closed"}]
  /\ at \in [Slot -> {"none", "getEvent", "admitted", "failed"} \cup Listening]
  /\ sawClosed \in [Slot -> BOOLEAN]
  /\ handling \subseteq Slot \X Answer \X {"check", "put"}
  /\ stored \in [Answer -> Nat]
  /\ host \in {"idle", "broadcast", "disconnect", "done"}
  /\ faults \in 0..MaxFaults
  /\ spoiled \subseteq Answer /\ unheard \subseteq Answer
  /\ barren \in Nat

Init ==
  /\ socket = None /\ attempts = 0 /\ timer = "new"
  /\ page = "live" /\ stopped = FALSE
  /\ form = FALSE /\ given = {} /\ queue = <<>>
  /\ near = [k \in Slot |-> "free"]
  /\ up = [k \in Slot |-> <<>>] /\ down = [k \in Slot |-> <<>>]
  /\ cut = [k \in Slot |-> FALSE]
  /\ far = [k \in Slot |-> "none"]
  /\ at = [k \in Slot |-> "none"]
  /\ sawClosed = [k \in Slot |-> FALSE]
  /\ handling = {} /\ stored = [a \in Answer |-> 0]
  /\ issued = "no" /\ closed = FALSE /\ host = "idle"
  /\ faults = 0
  /\ spoiled = {} /\ unheard = {} /\ barren = 0

----------------------------------------------------------------------------
(* RealtimeClient: connecting, and the events of its socket.               *)

\* Nothing is left of the socket that used the slot before.
Free(k) ==
  /\ near[k] = "free" /\ far[k] \in {"none", "closed"}
  /\ at[k] \in {"none", "failed", "ready"}
  /\ \A h \in handling : h[1] # k

\* connect(), on the mount of the page and from the timer.
Connect(k) ==
  /\ timer \in {"new", "set"} /\ ~stopped
  /\ socket = None /\ Free(k)
  /\ socket' = k
  /\ timer' = "off"
  /\ near' = [near EXCEPT ![k] = "connecting"]
  /\ far' = [far EXCEPT ![k] = "none"]
  /\ at' = [at EXCEPT ![k] = "none"]
  /\ up' = [up EXCEPT ![k] = <<>>]
  /\ down' = [down EXCEPT ![k] = <<>>]
  /\ cut' = [cut EXCEPT ![k] = FALSE]
  /\ UNCHANGED <<attempts, page, stopped, queueVars, sawClosed, handlerVars,
                 hostVars, faults, history>>

\* Defect: one more attempt than the maximum.
ScheduleReconnect_OneMore ==
  IF attempts <= MaxAttempts
    THEN attempts' = attempts + 1 /\ timer' = "set" /\ UNCHANGED <<page, stopped>>
    ELSE stopped' = TRUE /\ page' = "join" /\ UNCHANGED <<attempts, timer>>

\* scheduleReconnect; at the maximum, onTerminal, which ends the session.
ScheduleReconnect ==
  IF attempts < MaxAttempts
    THEN attempts' = attempts + 1 /\ timer' = "set" /\ UNCHANGED <<page, stopped>>
    ELSE stopped' = TRUE /\ page' = "join" /\ UNCHANGED <<attempts, timer>>

\* What send() puts on a socket that is open; a cut one takes it and loses it.
SendAll(q, k) ==
  IF cut[k] THEN spoiled' = spoiled \cup ToSet(q) /\ UNCHANGED up
            ELSE up' = [up EXCEPT ![k] = @ \o q] /\ UNCHANGED spoiled

\* Defect: a message is taken off the queue whether it was sent or not.
Drain_Drops(q, k, open) ==
  /\ queue' = <<>>
  /\ IF open THEN SendAll(q, k) ELSE UNCHANGED <<up, spoiled>>

\* Defect: the queue is not shifted.
Drain_Keeps(q, k, open) ==
  /\ queue' = q
  /\ IF open THEN SendAll(q, k) ELSE UNCHANGED <<up, spoiled>>

\* SubmitQueue.drain on the queue q: send() does nothing unless the socket is
\* open, and the loop stops there.
Drain(q, k, open) ==
  IF open THEN queue' = <<>> /\ SendAll(q, k)
          ELSE queue' = q /\ UNCHANGED <<up, spoiled>>

\* The open event, with onOpen: the queue is drained at once.
OpenEvent(k) ==
  /\ near[k] = "connecting" /\ far[k] # "none" /\ ~cut[k]
  /\ near' = [near EXCEPT ![k] = "open"]
  /\ attempts' = 0
  /\ Drain(queue, k, TRUE)
  /\ UNCHANGED <<socket, timer, page, stopped, form, given, down, cut, far, at, sawClosed,
                 handlerVars, hostVars, faults, unheard, barren>>

\* FormRunner.record: an answer is enqueued and the queue drained.
Enqueue(a) ==
  /\ page = "live" /\ form /\ a \notin given
  /\ given' = given \cup {a}
  /\ Drain(Append(queue, a), socket, socket # None /\ near[socket] = "open")
  /\ UNCHANGED <<clientVars, form, near, down, cut, far, at, sawClosed, handlerVars,
                 hostVars, faults, unheard, barren>>

\* The page closes its end: the close frame follows what is under way.
CloseNear(k) ==
  /\ socket' = None /\ stopped' = TRUE
  /\ near' = [near EXCEPT ![k] = "closing"]
  /\ up' = [up EXCEPT ![k] = Append(@, "bye")]

\* The errors modelled that are in TERMINAL_ERROR_CODES.
TerminalCodes == {"eventClosed"}

\* Defect: of the welcome the page does not take the phase.
PageAfter_WelcomeKeeps(m) ==
  IF m \in TerminalCodes THEN "join" ELSE IF m = "phaseClosed" THEN "thanks" ELSE page

\* What the page shows: a phase that is closed, the thanks; a terminal error ends
\* the session.
PageAfter(m) ==
  IF m \in TerminalCodes THEN "join"
  ELSE IF m \in {"phaseClosed", "welcomeClosed"} THEN "thanks"
  ELSE IF m = "welcome" THEN "live"
  ELSE page

\* The message event.  Told by phase.changed that the event is closed, the client
\* concludes; told by the welcome, it stays connected.  The cleanup of a session
\* that has ended closes the client.
ReceiveMessage(k) ==
  /\ near[k] = "open" /\ down[k] # <<>> /\ Head(down[k]) \in Message
  /\ down' = [down EXCEPT ![k] = Tail(@)]
  /\ LET m == Head(down[k]) IN
       /\ page' = PageAfter(m)
       /\ IF m \in TerminalCodes \cup {"phaseClosed"}
            THEN CloseNear(k)
            ELSE UNCHANGED <<socket, stopped, near, up>>
       /\ form' = (form \/ m = "form")
       /\ barren' = IF m \in {"welcome", "welcomeClosed"} THEN 0 ELSE barren
  /\ UNCHANGED <<attempts, timer, given, queue, cut, far, at, sawClosed,
                 handlerVars, hostVars, faults, spoiled, unheard>>

\* What the close event does to the client.  A close the page began has
\* stopped it.
AfterClose(k, rejected) ==
  /\ near' = [near EXCEPT ![k] = "free"]
  /\ down' = [down EXCEPT ![k] = <<>>]
  /\ socket' = None
  /\ barren' = IF near[k] = "closing" THEN barren ELSE barren + 1
  /\ IF stopped
       THEN UNCHANGED <<attempts, timer, page, stopped>>
       ELSE IF rejected
         THEN stopped' = TRUE /\ page' = "join" /\ UNCHANGED <<attempts, timer>>
         ELSE ScheduleReconnect

\* No connection: the server is not there, or answers 401 or 429.
ConnectFails(k) ==
  /\ near[k] = "connecting" /\ far[k] = "none"
  /\ AfterClose(k, FALSE)
  /\ UNCHANGED <<queueVars, up, cut, far, at, sawClosed, handlerVars, hostVars,
                 faults, spoiled, unheard>>

\* The close frame of the server, which the browser answers with its own.  A
\* page that is closing reads no message that comes before it.
ReceiveGoodbye(k) ==
  /\ \/ near[k] = "open" /\ down[k] # <<>> /\ Head(down[k]) \in Goodbye
     \/ near[k] = "closing" /\ down[k] # <<>> /\ Last(down[k]) \in Goodbye
  /\ AfterClose(k, Last(down[k]) = "reject")
  /\ up' = IF near[k] = "open" THEN [up EXCEPT ![k] = Append(@, "bye")] ELSE up
  /\ UNCHANGED <<queueVars, cut, far, at, sawClosed, handlerVars, hostVars,
                 faults, spoiled, unheard>>

NearCut(k) ==
  /\ near[k] # "free" /\ cut[k]
  /\ AfterClose(k, FALSE)
  /\ UNCHANGED <<queueVars, up, cut, far, at, sawClosed, handlerVars, hostVars,
                 faults, spoiled, unheard>>

----------------------------------------------------------------------------
(* The gateway.                                                            *)

Send(k, frames) == down' = IF cut[k] THEN down ELSE [down EXCEPT ![k] = @ \o frames]

\* The server's end is closed, if it is open, after the frames sent before.
CloseFar(k, frames) ==
  IF far[k] = "open"
    THEN far' = [far EXCEPT ![k] = "closing"] /\ Send(k, frames)
    ELSE UNCHANGED <<far, down>>

AttachUnchanged == UNCHANGED <<clientVars, queueVars, near, up, cut, handlerVars,
                               hostVars, history>>

\* upgradeWebSocket: the token is verified next.
Accept(k) ==
  /\ near[k] = "connecting" /\ far[k] = "none"
  /\ far' = [far EXCEPT ![k] = "open"]
  /\ at' = [at EXCEPT ![k] = "getEvent"]
  /\ UNCHANGED <<down, sawClosed, faults>> /\ AttachUnchanged

\* The token has expired: code 1008.
RejectToken(k) ==
  /\ at[k] = "getEvent"
  /\ at' = [at EXCEPT ![k] = "failed"]
  /\ CloseFar(k, <<"reject">>)
  /\ UNCHANGED <<sawClosed, faults>> /\ AttachUnchanged

\* The token is verified, the socket is not closed; createSession reads the
\* event, which is not closed.  One step for the two awaits, as neither has a
\* listener for messages.
Admit(k) ==
  /\ at[k] = "getEvent" /\ ~closed
  /\ at' = [at EXCEPT ![k] = "admitted"]
  /\ UNCHANGED <<down, far, sawClosed, faults>> /\ AttachUnchanged

\* bindSocket finds the socket closed once the token is verified.
BailOut(k) ==
  /\ at[k] = "getEvent" /\ far[k] = "closed"
  /\ at' = [at EXCEPT ![k] = "failed"]
  /\ UNCHANGED <<down, far, sawClosed, faults>> /\ AttachUnchanged

\* createSession throws EVENT_CLOSED.
RefuseClosed(k) ==
  /\ at[k] = "getEvent" /\ closed
  /\ at' = [at EXCEPT ![k] = "failed"]
  /\ CloseFar(k, <<"eventClosed", "bye">>)
  /\ UNCHANGED <<sawClosed, faults>> /\ AttachUnchanged

\* The participant is found or stored: Hub.attach and registerHandlers.
Bind(k) ==
  /\ at[k] = "admitted"
  /\ at' = [at EXCEPT ![k] = "bound"]
  /\ UNCHANGED <<down, far, sawClosed, faults>> /\ AttachUnchanged

\* sendWelcome reads the event, then the membership, and sends.
WelcomeRead(k) ==
  /\ at[k] = "bound"
  /\ at' = [at EXCEPT ![k] = "welcoming"]
  /\ sawClosed' = [sawClosed EXCEPT ![k] = closed]
  /\ UNCHANGED <<down, far, faults>> /\ AttachUnchanged

SendWelcome(k) ==
  /\ at[k] = "welcoming"
  /\ at' = [at EXCEPT ![k] = "ready"]
  /\ IF far[k] = "open"
       THEN Send(k, <<IF sawClosed[k] THEN "welcomeClosed" ELSE "welcome">>)
       ELSE UNCHANGED down
  /\ sawClosed' = [sawClosed EXCEPT ![k] = FALSE]
  /\ UNCHANGED <<far, faults>> /\ AttachUnchanged

\* The store rejects a call: "attach failed", code 1011, after an error that
\* the page only displays.  Handlers that are registered stay.
AttachFails(k) ==
  /\ faults < MaxFaults /\ faults' = faults + 1
  /\ at[k] \in {"getEvent", "admitted", "bound", "welcoming"}
  /\ at' = [at EXCEPT ![k] = IF @ \in Listening THEN "ready" ELSE "failed"]
  /\ CloseFar(k, <<"bye">>)
  /\ sawClosed' = [sawClosed EXCEPT ![k] = FALSE]
  /\ AttachUnchanged

\* The close event of the server's end.
FarClosed(k) ==
  /\ far[k] \in {"open", "closing"}
  /\ cut[k] \/ (up[k] # <<>> /\ Head(up[k]) \in Goodbye)
  /\ far' = [far EXCEPT ![k] = "closed"]
  /\ IF far[k] = "open" THEN Send(k, <<"bye">>) ELSE UNCHANGED down
  /\ up' = [up EXCEPT ![k] = <<>>]
  /\ UNCHANGED <<clientVars, queueVars, near, cut, at, sawClosed, handlerVars, hostVars,
                 faults, history>>

\* The connection breaks.
Cut(k) ==
  /\ faults < MaxFaults /\ faults' = faults + 1
  /\ near[k] # "free" /\ far[k] \in {"open", "closing"} /\ ~cut[k]
  /\ cut' = [cut EXCEPT ![k] = TRUE]
  /\ spoiled' = spoiled \cup (Answer \cap ToSet(up[k]))
  /\ up' = [up EXCEPT ![k] = <<>>]
  /\ down' = [down EXCEPT ![k] = <<>>]
  /\ UNCHANGED <<clientVars, queueVars, near, far, at, sawClosed, handlerVars, hostVars,
                 unheard, barren>>

----------------------------------------------------------------------------
(* The handlers.                                                           *)

\* The message event of the server's end.  There is no listener, and the frame
\* is dropped, until registerHandlers has run.
Deliver(k) ==
  /\ far[k] \in {"open", "closing"} /\ up[k] # <<>> /\ Head(up[k]) \in Answer
  /\ up' = [up EXCEPT ![k] = Tail(@)]
  /\ LET a == Head(up[k]) IN
       /\ handling' = IF at[k] \in Listening
                        THEN handling \cup {<<k, a, "check">>} ELSE handling
       /\ unheard' = IF at[k] \in {"getEvent", "admitted"} THEN unheard \cup {a} ELSE unheard
       /\ spoiled' = IF at[k] = "failed" THEN spoiled \cup {a} ELSE spoiled
  /\ UNCHANGED <<clientVars, queueVars, near, down, cut, far, at, sawClosed, stored,
                 hostVars, faults, barren>>

\* requireEventNotClosed of handleResponseSubmit; the error goes to the page.
Check(h) ==
  /\ h \in handling /\ h[3] = "check"
  /\ handling' = (handling \ {h}) \cup (IF closed THEN {} ELSE {<<h[1], h[2], "put">>})
  /\ spoiled' = IF closed THEN spoiled \cup {h[2]} ELSE spoiled
  /\ IF closed /\ far[h[1]] = "open" THEN Send(h[1], <<"eventClosed">>) ELSE UNCHANGED down
  /\ UNCHANGED <<clientVars, queueVars, near, up, cut, far, at, sawClosed, stored,
                 hostVars, faults, unheard, barren>>

\* putResponse, under a new id.  The rollups that follow are for the hosts.
Put(h) ==
  /\ h \in handling /\ h[3] = "put"
  /\ handling' = handling \ {h}
  /\ stored' = [stored EXCEPT ![h[2]] = @ + 1]
  /\ UNCHANGED <<clientVars, queueVars, wireVars, at, sawClosed, hostVars, faults, history>>

\* The store rejects the call: the page displays an error.
HandlerFails(h) ==
  /\ faults < MaxFaults /\ faults' = faults + 1
  /\ h \in handling
  /\ handling' = handling \ {h}
  /\ spoiled' = spoiled \cup {h[2]}
  /\ UNCHANGED <<clientVars, queueVars, wireVars, at, sawClosed, stored, hostVars,
                 unheard, barren>>

\* broadcast: to the open sockets of the hub.
ToParticipants(frame) ==
  down' = [k \in Slot |->
             IF at[k] \in Listening /\ far[k] = "open" /\ ~cut[k]
               THEN Append(down[k], frame) ELSE down[k]]

HostUnchanged == UNCHANGED <<clientVars, queueVars, near, up, cut, at, sawClosed,
                             handlerVars, faults, history>>

\* handleHostFormIssue up to putForm, and from the outbox append on.
IssueForm ==
  /\ issued = "no" /\ ~closed
  /\ issued' = "stored"
  /\ UNCHANGED <<down, far, closed, host>> /\ HostUnchanged

SendForm ==
  /\ issued = "stored"
  /\ issued' = "sent"
  /\ ToParticipants("form")
  /\ UNCHANGED <<far, closed, host>> /\ HostUnchanged

\* handleHostPhase: the phase is stored, broadcast, the participants disconnected.
Conclude ==
  /\ host = "idle"
  /\ closed' = TRUE /\ host' = "broadcast"
  /\ UNCHANGED <<down, far, issued>> /\ HostUnchanged

BroadcastClosed ==
  /\ host = "broadcast" /\ host' = "disconnect"
  /\ ToParticipants("phaseClosed")
  /\ UNCHANGED <<far, issued, closed>> /\ HostUnchanged

DisconnectParticipants ==
  /\ host = "disconnect" /\ host' = "done"
  /\ ToParticipants("bye")
  /\ far' = [k \in Slot |-> IF at[k] \in Listening /\ far[k] = "open" THEN "closing" ELSE far[k]]
  /\ UNCHANGED <<issued, closed>> /\ HostUnchanged

----------------------------------------------------------------------------
PageStep(k) == \/ OpenEvent(k) \/ ReceiveMessage(k) \/ ReceiveGoodbye(k) \/ NearCut(k)

AttachStep(k) == \/ Admit(k) \/ BailOut(k) \/ RefuseClosed(k) \/ Bind(k) \/ WelcomeRead(k) \/ SendWelcome(k)

HandlerStep == \E h \in handling : Check(h) \/ Put(h)

HostStep == BroadcastClosed \/ DisconnectParticipants

Fault == \/ \E k \in Slot : AttachFails(k) \/ Cut(k)
         \/ \E h \in handling : HandlerFails(h)

Next ==
  \/ \E k \in Slot : Connect(k) \/ Accept(k) \/ ConnectFails(k) \/ RejectToken(k)
  \/ \E k \in Slot : PageStep(k) \/ AttachStep(k) \/ Deliver(k) \/ FarClosed(k)
  \/ \E a \in Answer : Enqueue(a)
  \/ HandlerStep \/ HostStep \/ Conclude \/ IssueForm \/ SendForm
  \/ Fault

Spec == Init /\ [][Next]_vars

\* Timers fire, frames travel, promises settle.  Nothing is assumed of people,
\* nor of which way an attempt to connect turns out.
FairSpec ==
  /\ Spec
  /\ WF_vars(\E k \in Slot : Connect(k))
  /\ \A k \in Slot : /\ WF_vars(Accept(k) \/ ConnectFails(k))
                     /\ WF_vars(PageStep(k)) /\ WF_vars(AttachStep(k))
                     /\ WF_vars(Deliver(k)) /\ WF_vars(FarClosed(k))
  /\ WF_vars(HandlerStep) /\ WF_vars(HostStep)

----------------------------------------------------------------------------
(* Properties.                                                             *)

\* An answer is stored at most once, through reconnects and drains of the queue
\* (SubmitQueue.drain shifts what it has sent; putResponse draws a new id for
\* every message).
StoredOnce == \A a \in Answer : stored[a] <= 1

\* An answer given on the page is stored, unless a cut, a failed store call or
\* the end of the session excuses it, or it reached the server before
\* registerHandlers (SubmitQueue, the open event, the message listener).
AnswersArrive ==
  \A a \in Answer : a \in given ~> \/ stored[a] > 0 \/ a \in spoiled \cup unheard
                                   \/ page # "live"

\* The page keeps what it cannot send and sends it when it is connected again
\* (SubmitQueue): nothing but a cut, a failed call or the end excuses a loss.
OfflineAnswersKept ==
  \A a \in Answer : a \in given ~> \/ stored[a] > 0 \/ a \in spoiled
                                   \/ page # "live"

\* Once the event is concluded no page goes on as if it were live, wherever its
\* socket was: bound, between admission and welcome, or waiting for the timer.
PageLearns == closed ~> page # "live"

\* The client gives up: without a welcome it tries MaxAttempts times, and as many
\* again for each opening that came to nothing, through a fault or the conclusion
\* (scheduleReconnect; the open event starts the count again).
RetriesBounded == barren <= MaxAttempts * (1 + faults + (IF closed THEN 1 ELSE 0)) + 1
=============================================================================
