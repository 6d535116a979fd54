----------------------------- MODULE Responses ------------------------------
(***************************************************************************)
(* From an answer to the host's page: response.submit with its rollups and  *)
(* the progress it reports, the issue of the form and the conclusion of the *)
(* event (ws/handlers.ts), and the RealtimeClient of the host with what its *)
(* page makes of the messages (apps/host).                                  *)
(*                                                                         *)
(* A handler is a task that loses the processor at each call of the store.  *)
(* The host has one page; of its sockets the last one is modelled, as what  *)
(* is sent to an older one nobody reads.  The way of an answer to the       *)
(* server is the subject of ParticipantClient.                             *)
(***************************************************************************)
EXTENDS Naturals, Sequences, FiniteSets, SequencesExt

CONSTANTS
  Participant,
  Questions,     \* form.questions
  Willing,       \* the answers the model lets the participants give
  MaxAttempts,   \* opts.maxReconnectAttempts
  Budget,        \* bound of the model on answers and faults together
  MaxHandlers,   \* bound of the model on handlers at a time
  MaxFrames,     \* bound of the model on frames under way
  MaxFaults,     \* bound of the model on faults
  None           \* in place of an answer, in the task that issues the form

Question == ToSet(Questions)
Answer == Participant \X Question

ASSUME ResponsesAssumption ==
  {MaxAttempts, Budget, MaxHandlers, MaxFrames, MaxFaults} \subseteq Nat
  /\ Questions \in Seq(Question) /\ Questions # <<>>
  /\ Willing \subseteq Answer /\ None \notin Answer

VARIABLES
  given,       \* the answers given on the pages of participants
  issued,      \* the form is stored and announced
  stored,      \* the responses stored
  closed,      \* EventMeta.phase is closed
  tasks,       \* the handlers of response.submit and host.form.issue
  concluding,  \* the next step of handleHostPhase: "no" when none runs
  near,        \* the page's end of the socket: "none" when RealtimeClient.socket is null
  far,         \* the server's end: the next step of attachSession, "ready" after it
  sawClosed,   \* the phase that sendWelcome has read
  down,        \* the frames on their way to the page
  attempts,    \* RealtimeClient.attempts
  session,     \* the page has a session
  phase,       \* HostRealtimeState.phase is closed
  shown,       \* HostRealtimeState.rollups: the participants counted, by question
  progress,    \* the FormProgress sent last to the participants: who has finished
  faults,
  clean,       \* history: the last response had the server and the link for itself
  allowed,     \* history: stored or checked before the conclusion
  unsaid       \* history: an overtaken welcome or a failed handler hides the conclusion

formVars  == <<given, issued>>
storeVars == <<stored, closed>>
linkVars  == <<near, far, sawClosed, down>>
pageVars  == <<attempts, session, phase, shown>>
history   == <<clean, allowed, unsaid>>
vars == <<formVars, storeVars, tasks, concluding, linkVars, pageVars, progress, faults, history>>

\* The frames the page reads.
Signal == {"welcome", "welcomeClosed", "phaseClosed"}
Frame == [type : Signal] \cup [type : {"rollup"}, question : Question, who : SUBSET Participant]

\* The steps of a task with a response, and of the one that issues the form.  `seen'
\* is what it has read of the responses, `next' the question to report.
Step == {"check", "put", "list", "send", "progress", "report", "announce"}
Task == [answer : Answer \cup {None}, step : Step, seen : SUBSET Answer,
         next : 1..Len(Questions)]

\* Hub.attach has run for the host's session.
InHub == far \in {"bound", "welcoming", "ready"}

TypeOK ==
  /\ given \subseteq Answer /\ stored \subseteq Answer /\ allowed \subseteq Answer
  /\ {issued, closed, sawClosed, session, phase, clean, unsaid} \subseteq BOOLEAN
  /\ tasks \subseteq Task
  /\ concluding \in {"no", "read", "tell"}
  /\ near \in {"none", "connecting", "open", "dead"}
  /\ far \in {"none", "admitting", "bound", "welcoming", "ready"}
  /\ down \in Seq(Frame)
  /\ attempts \in 0..MaxAttempts
  /\ shown \in [Question -> SUBSET Participant]
  /\ progress \subseteq Participant
  /\ faults \in 0..MaxFaults

Init ==
  /\ given = {} /\ issued = FALSE /\ stored = {} /\ closed = FALSE
  /\ tasks = {} /\ concluding = "no"
  /\ near = "none" /\ far = "none" /\ sawClosed = FALSE /\ down = <<>>
  /\ attempts = 0 /\ session = TRUE
  /\ phase = FALSE /\ shown = [q \in Question |-> {}] /\ progress = {}
  /\ faults = 0
  /\ clean = FALSE /\ allowed = {} /\ unsaid = FALSE

----------------------------------------------------------------------------
(* The host's RealtimeClient.  With a session, a page without a socket has the  *)
(* timer of the next attempt set, or connects for the first time.             *)

ServerUnchanged == UNCHANGED <<formVars, storeVars, tasks, concluding, progress>>

Connect ==
  /\ session /\ near = "none"
  /\ near' = "connecting" /\ far' = "none" /\ down' = <<>>
  /\ UNCHANGED <<sawClosed, attempts, session, phase, shown, faults, history>> /\ ServerUnchanged

\* The open event.
OpenEvent ==
  /\ near = "connecting" /\ far # "none"
  /\ near' = "open" /\ attempts' = 0
  /\ UNCHANGED <<far, sawClosed, down, session, phase, shown, faults, history>>
  /\ ServerUnchanged

\* Defect: one attempt too many.
ScheduleReconnect_OffByOne ==
  IF attempts <= MaxAttempts
    THEN attempts' = attempts + 1 /\ UNCHANGED session
    ELSE session' = FALSE /\ UNCHANGED attempts

\* scheduleReconnect; at the maximum, onTerminal, and the page drops its session.
ScheduleReconnect ==
  IF attempts < MaxAttempts
    THEN attempts' = attempts + 1 /\ UNCHANGED session
    ELSE session' = FALSE /\ UNCHANGED attempts

\* The close event; code 1008 is terminal.
AfterClose(rejected) ==
  /\ near' = "none" /\ far' = "none" /\ down' = <<>>
  /\ clean' = FALSE
  /\ IF rejected THEN session' = FALSE /\ UNCHANGED attempts ELSE ScheduleReconnect
  /\ UNCHANGED <<sawClosed, phase, shown, faults, allowed, unsaid>> /\ ServerUnchanged

\* No connection: the server is not there, or answers 429.
ConnectFails == near = "connecting" /\ far = "none" /\ AfterClose(FALSE)

\* The token has expired.
RejectToken == far = "admitting" /\ near \in {"connecting", "open"} /\ AfterClose(TRUE)

CloseEvent == near = "dead" /\ AfterClose(FALSE)

\* Defect: the phase in the welcome is not taken.
PhaseAfter_WelcomeIgnored(type) == phase \/ type = "phaseClosed"

\* applyMessage: welcome and phase.changed set the phase.
PhaseAfter(type) ==
  IF type = "welcome" THEN FALSE ELSE phase \/ type \in {"welcomeClosed", "phaseClosed"}

\* The message event, with applyMessage: a rollup replaces that of its question.
ReceiveMessage ==
  /\ near = "open" /\ down # <<>>
  /\ down' = Tail(down)
  /\ LET m == Head(down) IN
       /\ phase' = PhaseAfter(m.type)
       /\ shown' = IF m.type = "rollup" THEN [shown EXCEPT ![m.question] = m.who] ELSE shown
  /\ UNCHANGED <<near, far, sawClosed, attempts, session, faults, history>>
  /\ ServerUnchanged

----------------------------------------------------------------------------
(* The gateway, for the host.                                              *)

Push(frame) == down' = IF InHub THEN Append(down, frame) ELSE down

AttachUnchanged == UNCHANGED <<near, pageVars, faults, clean, allowed>> /\ ServerUnchanged

\* upgradeWebSocket.
Accept ==
  /\ near = "connecting" /\ far = "none"
  /\ far' = "admitting"
  /\ UNCHANGED <<sawClosed, down, unsaid>> /\ AttachUnchanged

\* createSession has read the event, which is the host's own; Hub.attach and
\* registerHandlers.
Bind ==
  /\ far = "admitting" /\ far' = "bound"
  /\ UNCHANGED <<sawClosed, down, unsaid>> /\ AttachUnchanged

\* sendWelcome: the phase is read, then the membership, then the welcome sent.
WelcomeRead ==
  /\ far = "bound" /\ far' = "welcoming"
  /\ sawClosed' = closed
  /\ UNCHANGED <<down, unsaid>> /\ AttachUnchanged

SendWelcome ==
  /\ far = "welcoming" /\ far' = "ready"
  /\ Push([type |-> IF sawClosed THEN "welcomeClosed" ELSE "welcome"])
  /\ unsaid' = (unsaid \/ (closed /\ ~sawClosed /\ concluding # "tell"))
  /\ sawClosed' = FALSE
  /\ AttachUnchanged

----------------------------------------------------------------------------
(* The handlers.                                                           *)

LinkUnchanged == UNCHANGED <<near, far, sawClosed, pageVars, faults>>

Move(t, step) == tasks' = (tasks \ {t}) \cup {[t EXCEPT !.step = step]}
At(t, step) == t \in tasks /\ t.step = step

Affordable == Cardinality(given) + faults < Budget

\* A participant answers on a page that has the form.
Submit(a) ==
  /\ issued /\ a \notin given
  /\ Affordable /\ Cardinality(tasks) < MaxHandlers
  /\ given' = given \cup {a}
  /\ tasks' = tasks \cup {[answer |-> a, step |-> "check", seen |-> {}, next |-> 1]}
  /\ UNCHANGED <<issued, storeVars, concluding, down, progress, clean, allowed, unsaid>>
  /\ LinkUnchanged

\* Defect: the phase is not looked at.
MayStore_Always == TRUE

\* requireEventNotClosed.
MayStore == ~closed

Check(t) ==
  /\ At(t, "check")
  /\ IF MayStore THEN Move(t, "put") ELSE tasks' = tasks \ {t}
  /\ UNCHANGED <<formVars, storeVars, concluding, down, progress, clean, allowed, unsaid>>
  /\ LinkUnchanged

\* The tasks that have read the responses, or are about to.
Reporting == {t \in tasks : t.step \in {"list", "send", "progress", "report"}}

\* Defect: the rollup is made of what was stored before.
PutNext_Send == "send"

\* What follows putResponse: pushRollup lists the responses.
PutNext == "list"

\* putResponse.
Put(t) ==
  /\ At(t, "put")
  /\ stored' = stored \cup {t.answer}
  /\ Move(t, PutNext)
  /\ clean' = (Reporting = {} /\ InHub /\ near # "dead")
  /\ UNCHANGED <<formVars, closed, concluding, down, progress, allowed, unsaid>>
  /\ LinkUnchanged

\* Defect: the responses come from a cache that has an answer before the store has.
Listed_Early == stored \cup {u.answer : u \in {t \in tasks : t.step = "put"}}

\* listResponses.
Listed == stored

\* listForms and listResponses; a stored form does not change.
List(t) ==
  /\ At(t, "list")
  /\ tasks' = (tasks \ {t}) \cup {[t EXCEPT !.step = "send", !.seen = Listed]}
  /\ UNCHANGED <<formVars, storeVars, concluding, down, progress, clean, allowed, unsaid>>
  /\ LinkUnchanged

\* Who has answered q, according to what was read.
Rollup(q, seen) == {p \in Participant : <<p, q>> \in seen}

\* Broadcaster.toHosts, for one question after the other.
SendRollup(t) ==
  /\ At(t, "send") /\ Len(down) < MaxFrames
  /\ LET q == Questions[t.next]
     IN Push([type |-> "rollup", question |-> q, who |-> Rollup(q, t.seen)])
  /\ tasks' = (tasks \ {t}) \cup
       {[t EXCEPT !.next = IF @ < Len(Questions) THEN @ + 1 ELSE 1,
                  !.step = IF t.next < Len(Questions) THEN "send" ELSE "progress",
                  !.seen = IF t.next < Len(Questions) THEN @ ELSE {}]}
  /\ UNCHANGED <<formVars, storeVars, concluding, progress, clean, allowed, unsaid>>
  /\ LinkUnchanged

\* Who has a response to every question.
Finished(seen) == {p \in Participant : \A q \in Question : <<p, q>> \in seen}

\* pushFormProgress: computeFormProgress reads the responses; the payload goes
\* out after the append to the outbox.
ComputeProgress(t) ==
  /\ At(t, "progress")
  /\ tasks' = (tasks \ {t}) \cup {[t EXCEPT !.step = "report", !.seen = Listed]}
  /\ UNCHANGED <<formVars, storeVars, concluding, down, progress, clean, allowed, unsaid>>
  /\ LinkUnchanged

ReportProgress(t) ==
  /\ At(t, "report")
  /\ progress' = Finished(t.seen)
  /\ tasks' = tasks \ {t}
  /\ UNCHANGED <<formVars, storeVars, concluding, down, clean, allowed, unsaid>>
  /\ LinkUnchanged

\* send() reaches the handlers: the socket is open, the session listens.
Heard == near = "open" /\ InHub

\* handleHostFormIssue: the check; putForm and form.issued, after the append to the
\* outbox, which are a step here; the progress.
IssueForm ==
  /\ Heard /\ ~issued /\ \A t \in tasks : t.answer # None
  /\ ~closed
  /\ tasks' = tasks \cup {[answer |-> None, step |-> "announce", seen |-> {}, next |-> 1]}
  /\ UNCHANGED <<formVars, storeVars, concluding, down, progress, clean, allowed, unsaid>>
  /\ LinkUnchanged

AnnounceForm(t) ==
  /\ At(t, "announce")
  /\ issued' = TRUE
  /\ Move(t, "progress")
  /\ UNCHANGED <<given, storeVars, concluding, down, progress, clean, allowed, unsaid>>
  /\ LinkUnchanged

\* The button Conclude, disabled while not connected or once the phase is closed.
\* Of two commands under way the second does nothing new.
ConcludeEvent ==
  /\ Heard /\ ~phase /\ concluding = "no"
  /\ concluding' = "read"
  /\ UNCHANGED <<formVars, storeVars, tasks, down, progress, clean, allowed, unsaid>>
  /\ LinkUnchanged

\* setEventPhase.
SetClosed ==
  /\ concluding = "read" /\ concluding' = "tell"
  /\ closed' = TRUE
  /\ allowed' = IF closed THEN allowed
                ELSE stored \cup {t.answer : t \in {u \in tasks : u.step = "put"}}
  /\ UNCHANGED <<formVars, stored, tasks, down, progress, clean, unsaid>>
  /\ LinkUnchanged

\* phase.changed to the event, hosts included, after the append to the outbox.
TellClosed ==
  /\ concluding = "tell" /\ concluding' = "no" /\ Len(down) < MaxFrames
  /\ Push([type |-> "phaseClosed"])
  /\ UNCHANGED <<formVars, storeVars, tasks, progress, clean, allowed, unsaid>>
  /\ LinkUnchanged

----------------------------------------------------------------------------
(* Faults.                                                                 *)

Fault == faults < MaxFaults /\ Affordable /\ faults' = faults + 1

\* The connection breaks, or the attach fails: the page learns it later.
Cut ==
  /\ Fault
  /\ far # "none" /\ near \in {"connecting", "open"}
  /\ near' = "dead" /\ far' = "none" /\ down' = <<>> /\ sawClosed' = FALSE
  /\ clean' = FALSE
  /\ UNCHANGED <<pageVars, allowed, unsaid>> /\ ServerUnchanged

\* The store rejects a call of a handler.
TaskFails(t) ==
  /\ Fault
  /\ t \in tasks /\ tasks' = tasks \ {t}
  /\ clean' = FALSE
  /\ UNCHANGED <<formVars, storeVars, concluding, linkVars, pageVars, progress,
                 allowed, unsaid>>

ConcludeFails ==
  /\ Fault
  /\ concluding # "no" /\ concluding' = "no"
  /\ unsaid' = (unsaid \/ concluding = "tell")
  /\ UNCHANGED <<formVars, storeVars, tasks, linkVars, pageVars, progress,
                 clean, allowed>>

\* The server restarts: handlers and sockets are gone.
Crash ==
  /\ Fault
  /\ tasks' = {} /\ concluding' = "no"
  /\ near' = IF near = "none" THEN "none" ELSE "dead"
  /\ far' = "none" /\ down' = <<>> /\ sawClosed' = FALSE
  /\ clean' = FALSE
  /\ UNCHANGED <<formVars, storeVars, pageVars, progress, allowed, unsaid>>

PageStep == OpenEvent \/ ReceiveMessage \/ CloseEvent
AttachStep == Bind \/ WelcomeRead \/ SendWelcome
TaskStep == \E t \in tasks :
  \/ Check(t) \/ Put(t) \/ List(t) \/ SendRollup(t)
  \/ ComputeProgress(t) \/ ReportProgress(t) \/ AnnounceForm(t)
ConcludeStep == SetClosed \/ TellClosed

Next ==
  \/ Connect \/ Accept \/ ConnectFails \/ RejectToken
  \/ PageStep \/ AttachStep \/ TaskStep \/ ConcludeStep
  \/ \E a \in Willing : Submit(a)
  \/ IssueForm \/ ConcludeEvent
  \/ Cut \/ ConcludeFails \/ Crash
  \/ \E t \in tasks : TaskFails(t)

Spec == Init /\ [][Next]_vars

\* Timers fire, frames travel, promises settle; nothing is assumed of people, nor
\* of which way an attempt to connect turns out.
FairSpec ==
  /\ Spec
  /\ WF_vars(Connect) /\ WF_vars(Accept \/ ConnectFails)
  /\ WF_vars(PageStep) /\ WF_vars(AttachStep)
  /\ WF_vars(TaskStep) /\ WF_vars(ConcludeStep)

----------------------------------------------------------------------------
(* Properties.                                                             *)

\* Neither the host nor a participant is told of an answer that is not stored,
\* whatever overtakes what (pushRollup and pushFormProgress after putResponse).
NeverAhead ==
  /\ \A q \in Question : shown[q] \subseteq Rollup(q, stored)
  /\ progress \subseteq Finished(stored)

\* A rollup is made from all responses, so one response that is handled alone,
\* while the host is connected, makes the page right again, whatever was lost or
\* overtaken before; the same goes for the progress.
RollupsRepair ==
  clean /\ Reporting = {} /\ down = <<>> =>
    /\ \A q \in Question : shown[q] = Rollup(q, stored)
    /\ progress = Finished(stored)

\* After the conclusion nothing is stored but what had passed its check before
\* (handleResponseSubmit does not check again at putResponse).
LateOnlyIfUnderWay == closed => stored \subseteq allowed

\* Whatever happens to the socket, the page learns that the event is concluded, by
\* phase.changed or by the next welcome, or its session ends; an older welcome
\* that comes last, or a handler that fails, is the exception.
HostLearns == closed ~> phase \/ ~session \/ unsaid
=============================================================================
