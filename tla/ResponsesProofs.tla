--------------------------- MODULE ResponsesProofs ---------------------------
(* What the host is shown, and what is stored late, for any number of          *)
(* participants, questions and handlers.                                      *)
EXTENDS Responses, TLAPS

LEMMA QuestionAt ==
  ASSUME NEW i \in 1..Len(Questions)
  PROVE  Questions[i] \in Question
BY ResponsesAssumption DEF ResponsesAssumption

LEMMA SomeQuestion == 1 \in 1..Len(Questions) /\ Len(Questions) \in Nat
BY ResponsesAssumption DEF ResponsesAssumption

\* What the task of a handler becomes.
LEMMA TaskNext ==
  ASSUME NEW t \in Task, NEW step \in Step, NEW seen \in SUBSET Answer,
         NEW n \in 1..Len(Questions)
  PROVE  /\ [t EXCEPT !.step = step] \in Task
         /\ [t EXCEPT !.step = step, !.seen = seen] \in Task
         /\ [t EXCEPT !.next = n, !.step = step, !.seen = seen] \in Task
BY DEF Task

LEMMA PushType ==
  ASSUME TypeOK, NEW frame \in Frame, Push(frame)
  PROVE  down' \in Seq(Frame)
BY DEF TypeOK, Push

LEMMA RollupType ==
  ASSUME NEW q \in Question, NEW seen
  PROVE  /\ Rollup(q, seen) \in SUBSET Participant
         /\ [type |-> "rollup", question |-> q, who |-> Rollup(q, seen)] \in Frame
BY DEF Rollup, Frame

LEMMA CloseType ==
  ASSUME TypeOK, NEW rejected \in BOOLEAN, AfterClose(rejected)
  PROVE  TypeOK'
<1>1. MaxAttempts \in Nat
  BY ResponsesAssumption DEF ResponsesAssumption
<1>2. attempts' \in 0..MaxAttempts
  BY <1>1 DEF AfterClose, ScheduleReconnect, TypeOK
<1>3. session' \in BOOLEAN
  BY DEF AfterClose, ScheduleReconnect, TypeOK
<1>4. down' \in Seq(Frame)
  BY DEF AfterClose
<1> QED
  BY <1>2, <1>3, <1>4 DEF AfterClose, ServerUnchanged, formVars, storeVars, TypeOK

LEMMA PageType ==
  ASSUME TypeOK,
         Connect \/ OpenEvent \/ ConnectFails \/ RejectToken \/ CloseEvent \/ ReceiveMessage
  PROVE  TypeOK'
<1>1. CASE Connect
  BY <1>1 DEF Connect, ServerUnchanged, formVars, storeVars, history, TypeOK
<1>2. CASE OpenEvent
  BY <1>2, ResponsesAssumption DEF ResponsesAssumption, OpenEvent, ServerUnchanged, formVars,
       storeVars, history, TypeOK
<1>3. CASE ConnectFails \/ RejectToken \/ CloseEvent
  BY <1>3, CloseType DEF ConnectFails, RejectToken, CloseEvent
<1>4. CASE ReceiveMessage
  <2>1. Head(down) \in Frame /\ down' \in Seq(Frame)
    BY <1>4 DEF ReceiveMessage, TypeOK
  <2>2. phase' \in BOOLEAN
    BY <1>4 DEF ReceiveMessage, PhaseAfter, TypeOK
  <2>3. shown' \in [Question -> SUBSET Participant]
    <3>1. CASE Head(down).type = "rollup"
      <4>1. Head(down).question \in Question /\ Head(down).who \in SUBSET Participant
        BY <2>1, <3>1 DEF Frame, Signal
      <4> QED
        BY <1>4, <3>1, <4>1 DEF ReceiveMessage, TypeOK
    <3>2. CASE Head(down).type # "rollup"
      BY <1>4, <3>2 DEF ReceiveMessage, TypeOK
    <3> QED
      BY <3>1, <3>2
  <2> QED
    BY <1>4, <2>1, <2>2, <2>3 DEF ReceiveMessage, ServerUnchanged, formVars, storeVars, history, TypeOK
<1> QED
  BY <1>1, <1>2, <1>3, <1>4

LEMMA AttachType ==
  ASSUME TypeOK, Accept \/ AttachStep
  PROVE  TypeOK'
<1>1. CASE Accept \/ Bind \/ WelcomeRead
  BY <1>1 DEF Accept, Bind, WelcomeRead, AttachUnchanged, ServerUnchanged, formVars, storeVars,
       pageVars, TypeOK
<1>2. CASE SendWelcome
  <2>1. [type |-> IF sawClosed THEN "welcomeClosed" ELSE "welcome"] \in Frame
    BY DEF Frame, Signal
  <2>2. down' \in Seq(Frame)
    BY <1>2, <2>1, PushType DEF SendWelcome
  <2>3. unsaid' \in BOOLEAN
    BY <1>2 DEF SendWelcome, TypeOK
  <2> QED
    BY <1>2, <2>2, <2>3 DEF SendWelcome, AttachUnchanged, ServerUnchanged, formVars, storeVars,
       pageVars, TypeOK
<1> QED
  BY <1>1, <1>2 DEF AttachStep


----------------------------------------------------------------------------
(* What is under way is never ahead of what is stored: the task of a handler   *)
(* has read nothing else, a frame reports nothing else; and once the event is  *)
(* closed, a task that is about to store may still do so.                     *)
Sound(t, st, cl, al) ==
  /\ t.seen \subseteq st
  /\ t.step \in {"check", "put"} => t.answer \in Answer
  /\ cl /\ t.step = "put" => t.answer \in al

Covered(frame, st) ==
  frame.type = "rollup" => frame.who \subseteq Rollup(frame.question, st)

Inv ==
  /\ TypeOK
  /\ \A t \in tasks : Sound(t, stored, closed, allowed)
  /\ \A i \in 1..Len(down) : Covered(down[i], stored)
  /\ NeverAhead
  /\ LateOnlyIfUnderWay

\* What is stored stays, so what was not ahead of it never is.
LEMMA RollupGrows ==
  ASSUME NEW q \in Question, NEW st, NEW more, st \subseteq more
  PROVE  Rollup(q, st) \subseteq Rollup(q, more) /\ Finished(st) \subseteq Finished(more)
BY DEF Rollup, Finished

LEMMA PushCovered ==
  ASSUME Inv, stored' = stored, NEW frame \in Frame, Covered(frame, stored), Push(frame)
  PROVE  down' \in Seq(Frame) /\ \A i \in 1..Len(down') : Covered(down'[i], stored')
<1>1. down' \in Seq(Frame)
  BY PushType DEF Inv
<1>2. down \in Seq(Frame)
  BY DEF Inv, TypeOK
<1>3. CASE InHub
  <2>1. /\ Len(down') = Len(down) + 1
        /\ \A i \in 1..Len(down') : down'[i] = IF i <= Len(down) THEN down[i] ELSE frame
    BY <1>2, <1>3 DEF Push
  <2> QED
    BY <1>1, <1>2, <2>1 DEF Inv
<1>4. CASE ~InHub
  BY <1>1, <1>4 DEF Push, Inv
<1> QED
  BY <1>3, <1>4

\* A handler goes on, or ends, and the store is as before.
LEMMA TaskInv ==
  ASSUME Inv, NEW t, NEW u \in Task, tasks' \subseteq (tasks \ {t}) \cup {u},
         Sound(u, stored, closed, allowed),
         down' \in Seq(Frame), \A i \in 1..Len(down') : Covered(down'[i], stored'),
         progress' = progress \/ progress' \in SUBSET Finished(stored),
         given' \subseteq Answer, {issued', clean'} \subseteq BOOLEAN,
         UNCHANGED <<storeVars, concluding, allowed, unsaid>>, LinkUnchanged
  PROVE  Inv'
<1>1. Finished(stored) \subseteq Participant
  BY DEF Finished
<1>2. tasks' \subseteq Task /\ progress' \subseteq Participant
  BY <1>1 DEF Inv, TypeOK
<1>3. TypeOK'
  BY <1>2 DEF Inv, TypeOK, storeVars, LinkUnchanged, pageVars
<1>4. \A v \in tasks' : Sound(v, stored', closed', allowed')
  BY DEF Inv, storeVars
<1>5. NeverAhead'
  BY DEF Inv, NeverAhead, storeVars, LinkUnchanged, pageVars
<1>6. LateOnlyIfUnderWay'
  BY DEF Inv, LateOnlyIfUnderWay, storeVars
<1> QED
  BY <1>3, <1>4, <1>5, <1>6 DEF Inv

\* The frames are as before.
LEMMA DownKept ==
  ASSUME Inv, UNCHANGED <<down, stored>>
  PROVE  down' \in Seq(Frame) /\ \A i \in 1..Len(down') : Covered(down'[i], stored')
BY DEF Inv, TypeOK

LEMMA BeginInv ==
  ASSUME Inv, IssueForm \/ \E a \in Willing : Submit(a)
  PROVE  Inv'
<1>1. 1 \in 1..Len(Questions) /\ Willing \subseteq Answer
  BY SomeQuestion, ResponsesAssumption DEF ResponsesAssumption
<1>2. ASSUME NEW a \in Willing, Submit(a)
      PROVE  Inv'
  <2> DEFINE u == [answer |-> a, step |-> "check", seen |-> {}, next |-> 1]
  <2>1. u \in Task /\ u.step = "check" /\ u.seen = {} /\ u.answer \in Answer
    BY <1>1 DEF Task, Step
  <2>2. tasks' = tasks \cup {u} /\ UNCHANGED <<down, stored>>
    BY <1>2 DEF Submit, storeVars
  <2> HIDE DEF u
  <2>3. Sound(u, stored, closed, allowed)
    BY <2>1 DEF Sound
  <2>4. tasks' \subseteq (tasks \ {u}) \cup {u}
    BY <2>2
  <2>5. given' \subseteq Answer /\ {issued', clean'} \subseteq BOOLEAN
    BY <1>1, <1>2 DEF Submit, Inv, TypeOK
  <2> QED
    BY <1>2, <2>1, <2>2, <2>3, <2>4, <2>5, DownKept, TaskInv DEF Submit
<1>3. ASSUME IssueForm
      PROVE  Inv'
  <2> DEFINE u == [answer |-> None, step |-> "announce", seen |-> {}, next |-> 1]
  <2>1. u \in Task /\ u.step = "announce" /\ u.seen = {}
    BY <1>1 DEF Task, Step
  <2>2. tasks' = tasks \cup {u} /\ UNCHANGED <<down, stored>>
    BY <1>3 DEF IssueForm, storeVars
  <2> HIDE DEF u
  <2>3. Sound(u, stored, closed, allowed)
    BY <2>1 DEF Sound
  <2>4. tasks' \subseteq (tasks \ {u}) \cup {u}
    BY <2>2
  <2>5. given' \subseteq Answer /\ {issued', clean'} \subseteq BOOLEAN
    BY <1>3 DEF IssueForm, formVars, Inv, TypeOK
  <2> QED
    BY <1>3, <2>1, <2>2, <2>3, <2>4, <2>5, DownKept, TaskInv DEF IssueForm
<1> QED
  BY <1>2, <1>3

LEMMA CheckInv ==
  ASSUME Inv, NEW t \in tasks, Check(t)
  PROVE  Inv'
<1> DEFINE u == [t EXCEPT !.step = "put"]
<1>1. t \in Task /\ Sound(t, stored, closed, allowed) /\ t.step = "check"
  BY DEF Inv, TypeOK, Check, At
<1>2. u \in Task /\ u.step = "put" /\ u.seen = t.seen /\ u.answer = t.answer
  BY <1>1 DEF Task, Step
<1>3. UNCHANGED <<down, stored>> /\ given' \subseteq Answer /\ {issued', clean'} \subseteq BOOLEAN
  BY DEF Check, formVars, storeVars, Inv, TypeOK
<1>4. CASE MayStore
  <2>1. tasks' = (tasks \ {t}) \cup {u}
    BY <1>4 DEF Check, Move
  <2> HIDE DEF u
  <2>2. Sound(u, stored, closed, allowed)
    BY <1>1, <1>2, <1>4 DEF Sound, MayStore
  <2> QED
    BY <1>2, <1>3, <2>1, <2>2, DownKept, TaskInv DEF Check
<1>5. CASE ~MayStore
  <2>1. tasks' \subseteq (tasks \ {t}) \cup {t}
    BY <1>5 DEF Check
  <2> QED
    BY <1>1, <1>3, <2>1, DownKept, TaskInv DEF Check
<1> QED
  BY <1>4, <1>5

LEMMA PutInv ==
  ASSUME Inv, NEW t \in tasks, Put(t)
  PROVE  Inv'
<1> DEFINE u == [t EXCEPT !.step = "list"]
<1>1. t \in Task /\ Sound(t, stored, closed, allowed) /\ t.step = "put" /\ t.answer \in Answer
  BY DEF Inv, TypeOK, Put, At, Sound
<1>2. u \in Task /\ u.step = "list" /\ u.seen = t.seen
  BY <1>1 DEF Task, Step
<1>3. /\ stored' = stored \cup {t.answer} /\ tasks' = (tasks \ {t}) \cup {u}
      /\ UNCHANGED <<formVars, closed, concluding, down, progress, allowed, unsaid>>
      /\ UNCHANGED <<near, far, sawClosed, pageVars, faults>> /\ clean' \in BOOLEAN
  BY DEF Put, Move, PutNext, LinkUnchanged
<1> HIDE DEF u
<1>4. TypeOK'
  BY <1>1, <1>2, <1>3 DEF Inv, TypeOK, formVars, pageVars
<1>5. \A v \in tasks' : Sound(v, stored', closed', allowed')
  <2>1. \A v \in tasks : Sound(v, stored', closed', allowed')
    BY <1>3 DEF Inv, Sound
  <2>2. Sound(u, stored', closed', allowed')
    BY <1>1, <1>2, <1>3 DEF Sound
  <2> QED
    BY <1>3, <2>1, <2>2
<1>6. \A i \in 1..Len(down') : Covered(down'[i], stored')
  BY <1>3 DEF Inv, Covered, Rollup
<1>7. NeverAhead'
  <2>1. \A q \in Question : shown'[q] \subseteq Rollup(q, stored')
    BY <1>3, RollupGrows DEF Inv, NeverAhead, pageVars
  <2>2. progress' \subseteq Finished(stored')
    BY <1>3, RollupGrows DEF Inv, NeverAhead, Finished
  <2> QED
    BY <2>1, <2>2 DEF NeverAhead
<1>8. LateOnlyIfUnderWay'
  BY <1>1, <1>3 DEF Inv, LateOnlyIfUnderWay, Sound
<1> QED
  BY <1>4, <1>5, <1>6, <1>7, <1>8 DEF Inv

LEMMA ReadInv ==
  ASSUME Inv, NEW t \in tasks, List(t) \/ ComputeProgress(t)
  PROVE  Inv'
<1>1. t \in Task
  BY DEF Inv, TypeOK
<1>2. ASSUME NEW step \in {"send", "report"},
             tasks' = (tasks \ {t}) \cup {[t EXCEPT !.step = step, !.seen = stored]},
             UNCHANGED <<formVars, storeVars, concluding, down, progress, clean, allowed, unsaid>>,
             LinkUnchanged
      PROVE  Inv'
  <2> DEFINE u == [t EXCEPT !.step = step, !.seen = stored]
  <2>1. u \in Task /\ u.step = step /\ u.seen = stored
    BY <1>1 DEF Task, Step, Inv, TypeOK
  <2>2. tasks' = (tasks \ {t}) \cup {u}
    BY <1>2
  <2> HIDE DEF u
  <2>3. Sound(u, stored, closed, allowed)
    BY <2>1 DEF Sound
  <2>4. UNCHANGED <<down, stored>> /\ given' \subseteq Answer /\ {issued', clean'} \subseteq BOOLEAN
    BY <1>2 DEF formVars, storeVars, Inv, TypeOK
  <2> QED
    BY <1>2, <2>1, <2>2, <2>3, <2>4, DownKept, TaskInv
<1> QED
  BY <1>2 DEF List, ComputeProgress, Listed

LEMMA SendInv ==
  ASSUME Inv, NEW t \in tasks, SendRollup(t)
  PROVE  Inv'
<1> DEFINE q == Questions[t.next]
           frame == [type |-> "rollup", question |-> q, who |-> Rollup(q, t.seen)]
           last == t.next = Len(Questions)
<1>1. /\ t \in Task /\ t.next \in 1..Len(Questions) /\ t.seen \subseteq stored
      /\ Len(Questions) \in Nat /\ 1 \in 1..Len(Questions)
  BY SomeQuestion DEF Inv, TypeOK, Task, Sound
<1>2. frame \in Frame /\ frame.type = "rollup" /\ frame.question = q
      /\ frame.who = Rollup(q, t.seen) /\ q \in Question
  BY <1>1, QuestionAt, RollupType
<1>3. Push(frame) /\ LinkUnchanged
      /\ UNCHANGED <<formVars, storeVars, concluding, progress, clean, allowed, unsaid>>
  BY DEF SendRollup
<1>4. PICK u \in Task : /\ tasks' = (tasks \ {t}) \cup {u}
                        /\ u.step \in {"send", "progress"} /\ u.seen \subseteq stored
  <2>1. CASE t.next < Len(Questions)
    <3> DEFINE u == [t EXCEPT !.next = t.next + 1, !.step = "send", !.seen = t.seen]
    <3>1. t.next + 1 \in 1..Len(Questions) /\ t.seen \in SUBSET Answer /\ "send" \in Step
      BY <1>1, <2>1 DEF Task, Step
    <3>2. u \in Task /\ u.step = "send" /\ u.seen = t.seen
      BY <1>1, <3>1 DEF Task
    <3>3. tasks' = (tasks \ {t}) \cup {u}
      BY <2>1 DEF SendRollup
    <3> QED
      BY <1>1, <3>2, <3>3
  <2>2. CASE ~(t.next < Len(Questions))
    <3> DEFINE u == [t EXCEPT !.next = 1, !.step = "progress", !.seen = {}]
    <3>1. u \in Task /\ u.step = "progress" /\ u.seen = {}
      BY <1>1 DEF Task, Step
    <3>2. tasks' = (tasks \ {t}) \cup {u}
      BY <2>2 DEF SendRollup
    <3> QED
      BY <3>1, <3>2
  <2> QED
    BY <2>1, <2>2
<1> HIDE DEF frame, q
<1>5. Covered(frame, stored)
  <2>1. Rollup(q, t.seen) \subseteq Rollup(q, stored)
    BY <1>1, <1>2, RollupGrows
  <2> QED
    BY <1>2, <2>1 DEF Covered
<1>6. Sound(u, stored, closed, allowed)
  BY <1>4 DEF Sound
<1>7. stored' = stored /\ given' \subseteq Answer /\ {issued', clean'} \subseteq BOOLEAN
  BY <1>3 DEF storeVars, formVars, Inv, TypeOK
<1> QED
  BY <1>2, <1>3, <1>4, <1>5, <1>6, <1>7, PushCovered, TaskInv

LEMMA ReportInv ==
  ASSUME Inv, NEW t \in tasks, ReportProgress(t)
  PROVE  Inv'
<1>1. t \in Task /\ Sound(t, stored, closed, allowed) /\ t.seen \subseteq stored
  BY DEF Inv, TypeOK, Sound
<1>2. progress' \in SUBSET Finished(stored)
  BY <1>1, RollupGrows DEF ReportProgress, Finished
<1>3. tasks' \subseteq (tasks \ {t}) \cup {t}
  BY DEF ReportProgress
<1>4. UNCHANGED <<down, stored>> /\ given' \subseteq Answer /\ {issued', clean'} \subseteq BOOLEAN
  BY DEF ReportProgress, formVars, storeVars, Inv, TypeOK
<1> QED
  BY <1>1, <1>2, <1>3, <1>4, DownKept, TaskInv DEF ReportProgress

LEMMA AnnounceInv ==
  ASSUME Inv, NEW t \in tasks, AnnounceForm(t)
  PROVE  Inv'
<1> DEFINE u == [t EXCEPT !.step = "progress"]
<1>1. t \in Task /\ Sound(t, stored, closed, allowed)
  BY DEF Inv, TypeOK
<1>2. u \in Task /\ u.step = "progress" /\ u.seen = t.seen
  BY <1>1 DEF Task, Step
<1>3. tasks' = (tasks \ {t}) \cup {u}
  BY DEF AnnounceForm, Move
<1> HIDE DEF u
<1>4. Sound(u, stored, closed, allowed)
  BY <1>1, <1>2 DEF Sound
<1>5. UNCHANGED <<down, stored>> /\ given' \subseteq Answer /\ {issued', clean'} \subseteq BOOLEAN
  BY DEF AnnounceForm, storeVars, Inv, TypeOK
<1> QED
  BY <1>2, <1>3, <1>4, <1>5, DownKept, TaskInv DEF AnnounceForm

\* A step of the link or of the page, with the server's side as before.
LEMMA LinkInv ==
  ASSUME Inv, TypeOK', UNCHANGED <<stored, closed, tasks, progress, allowed>>,
         \A i \in 1..Len(down') : Covered(down'[i], stored),
         \A q \in Question : shown'[q] \subseteq Rollup(q, stored)
  PROVE  Inv'
BY DEF Inv, NeverAhead, LateOnlyIfUnderWay

LEMMA PageInv ==
  ASSUME Inv,
         Connect \/ OpenEvent \/ ConnectFails \/ RejectToken \/ CloseEvent \/ ReceiveMessage
  PROVE  Inv'
<1>1. TypeOK'
  BY PageType DEF Inv
<1>2. UNCHANGED <<stored, closed, tasks, progress, allowed>>
  BY DEF Connect, OpenEvent, ConnectFails, RejectToken, CloseEvent, ReceiveMessage, AfterClose,
         ServerUnchanged, storeVars, history
<1>3. \A q \in Question : shown[q] \subseteq Rollup(q, stored)
  BY DEF Inv, NeverAhead
<1>4. CASE Connect \/ OpenEvent \/ ConnectFails \/ RejectToken \/ CloseEvent
  <2>1. shown' = shown /\ (down' = down \/ down' = <<>>)
    BY <1>4 DEF Connect, OpenEvent, ConnectFails, RejectToken, CloseEvent, AfterClose
  <2>2. \A i \in 1..Len(down') : Covered(down'[i], stored)
    BY <2>1 DEF Inv
  <2> QED
    BY <1>1, <1>2, <1>3, <2>1, <2>2, LinkInv
<1>5. CASE ReceiveMessage
  <2>1. down \in Seq(Frame) /\ down # <<>> /\ down' = Tail(down)
    BY <1>5 DEF ReceiveMessage, Inv, TypeOK
  <2>2. \A i \in 1..Len(down') : down'[i] = down[i + 1] /\ i + 1 \in 1..Len(down)
    BY <2>1
  <2>3. \A i \in 1..Len(down') : Covered(down'[i], stored)
    BY <2>2 DEF Inv
  <2>4. Head(down) \in Frame /\ Covered(Head(down), stored)
    <3>1. Head(down) = down[1] /\ 1 \in 1..Len(down)
      BY <2>1
    <3> QED
      BY <2>1, <3>1 DEF Inv
  <2>5. \A q \in Question : shown'[q] \subseteq Rollup(q, stored)
    BY <1>3, <1>5, <2>4 DEF ReceiveMessage, Covered, Inv, TypeOK
  <2> QED
    BY <1>1, <1>2, <2>3, <2>5, LinkInv
<1> QED
  BY <1>4, <1>5

LEMMA AttachInv ==
  ASSUME Inv, Accept \/ AttachStep
  PROVE  Inv'
<1>1. TypeOK'
  BY AttachType DEF Inv
<1>2. UNCHANGED <<stored, closed, tasks, progress, allowed, shown>>
  BY DEF Accept, AttachStep, Bind, WelcomeRead, SendWelcome, AttachUnchanged, ServerUnchanged,
         storeVars, pageVars
<1>3. \A q \in Question : shown'[q] \subseteq Rollup(q, stored)
  BY <1>2 DEF Inv, NeverAhead
<1>4. CASE Accept \/ Bind \/ WelcomeRead
  <2>1. down' = down
    BY <1>4 DEF Accept, Bind, WelcomeRead
  <2> QED
    BY <1>1, <1>2, <1>3, <2>1, LinkInv DEF Inv
<1>5. CASE SendWelcome
  <2> DEFINE frame == [type |-> IF sawClosed THEN "welcomeClosed" ELSE "welcome"]
  <2>1. frame \in Frame /\ frame.type # "rollup"
    BY DEF Frame, Signal
  <2>2. Push(frame)
    BY <1>5 DEF SendWelcome
  <2> HIDE DEF frame
  <2>3. \A i \in 1..Len(down') : Covered(down'[i], stored)
    BY <1>2, <2>1, <2>2, PushCovered DEF Covered
  <2> QED
    BY <1>1, <1>2, <1>3, <2>3, LinkInv
<1> QED
  BY <1>4, <1>5 DEF AttachStep

LEMMA ConcludeInv ==
  ASSUME Inv, ConcludeEvent \/ ConcludeStep
  PROVE  Inv'
<1>1. CASE ConcludeEvent
  <2>1. TypeOK'
    BY <1>1 DEF ConcludeEvent, LinkUnchanged, formVars, storeVars, pageVars, Inv, TypeOK
  <2>2. UNCHANGED <<stored, closed, tasks, progress, allowed, down, shown>>
    BY <1>1 DEF ConcludeEvent, LinkUnchanged, storeVars, pageVars
  <2> QED
    BY <2>1, <2>2, LinkInv DEF Inv, NeverAhead
<1>2. CASE SetClosed
  <2>1. /\ UNCHANGED <<formVars, stored, tasks, down, progress, clean, unsaid>> /\ closed' = TRUE
        /\ UNCHANGED <<near, far, sawClosed, pageVars, faults>> /\ concluding' = "tell"
    BY <1>2 DEF SetClosed, LinkUnchanged
  <2>2. /\ stored \subseteq allowed'
        /\ \A t \in tasks : t.step = "put" => t.answer \in allowed'
    BY <1>2 DEF SetClosed, Inv, LateOnlyIfUnderWay, Sound
  <2>3. allowed' \subseteq Answer
    BY <1>2 DEF SetClosed, Inv, TypeOK, Sound
  <2>4. TypeOK'
    BY <2>1, <2>3 DEF Inv, TypeOK, formVars, pageVars
  <2>5. \A t \in tasks' : Sound(t, stored', closed', allowed')
    BY <2>1, <2>2 DEF Inv, Sound
  <2>6. NeverAhead'
    BY <2>1 DEF Inv, NeverAhead, pageVars
  <2> QED
    BY <2>1, <2>2, <2>4, <2>5, <2>6 DEF Inv, LateOnlyIfUnderWay
<1>3. CASE TellClosed
  <2> DEFINE frame == [type |-> "phaseClosed"]
  <2>1. frame \in Frame /\ frame.type # "rollup"
    BY DEF Frame, Signal
  <2>2. /\ Push(frame) /\ concluding' = "no"
        /\ UNCHANGED <<formVars, stored, closed, tasks, progress, clean, allowed, unsaid>>
        /\ UNCHANGED <<near, far, sawClosed, pageVars, faults>>
    BY <1>3 DEF TellClosed, LinkUnchanged, storeVars
  <2> HIDE DEF frame
  <2>3. down' \in Seq(Frame) /\ \A i \in 1..Len(down') : Covered(down'[i], stored)
    BY <2>1, <2>2, PushCovered DEF Covered
  <2>4. TypeOK'
    BY <2>2, <2>3 DEF Inv, TypeOK, formVars, pageVars
  <2> QED
    BY <2>2, <2>3, <2>4, LinkInv DEF Inv, NeverAhead, pageVars
<1> QED
  BY <1>1, <1>2, <1>3 DEF ConcludeStep

LEMMA FaultInv ==
  ASSUME Inv, Cut \/ ConcludeFails \/ Crash \/ \E t \in tasks : TaskFails(t)
  PROVE  Inv'
<1>1. MaxFaults \in Nat
  BY ResponsesAssumption DEF ResponsesAssumption
<1>2. faults' \in 0..MaxFaults
  BY <1>1 DEF Fault, Cut, ConcludeFails, Crash, TaskFails, Inv, TypeOK
<1>3. /\ tasks' \subseteq tasks /\ (down' = down \/ down' = <<>>)
      /\ UNCHANGED <<formVars, storeVars, progress, pageVars, allowed>>
  BY DEF Cut, ConcludeFails, Crash, TaskFails, ServerUnchanged, linkVars
<1>4. unsaid' \in BOOLEAN /\ clean' \in BOOLEAN
  <2>1. CASE Cut \/ Crash \/ \E t \in tasks : TaskFails(t)
    BY <2>1 DEF Cut, Crash, TaskFails, Inv, TypeOK
  <2>2. CASE ConcludeFails
    BY <2>2 DEF ConcludeFails, Inv, TypeOK
  <2> QED
    BY <2>1, <2>2
<1>5. /\ near' \in {"none", "connecting", "open", "dead"} /\ concluding' \in {"no", "read", "tell"}
      /\ far' \in {"none", "admitting", "bound", "welcoming", "ready"} /\ sawClosed' \in BOOLEAN
  BY DEF Cut, ConcludeFails, Crash, TaskFails, ServerUnchanged, linkVars, Inv, TypeOK
<1>6. TypeOK'
  <2>1. down' \in Seq(Frame)
    <3>1. down \in Seq(Frame) /\ <<>> \in Seq(Frame)
      BY DEF Inv, TypeOK
    <3> QED
      BY <1>3, <3>1
  <2>2. UNCHANGED <<given, issued, stored, closed, progress, attempts, session, phase, shown, allowed>>
    BY <1>3 DEF formVars, storeVars, pageVars
  <2>3. tasks' \subseteq Task
    BY <1>3 DEF Inv, TypeOK
  <2> QED
    BY <1>2, <1>4, <1>5, <2>1, <2>2, <2>3 DEF Inv, TypeOK
<1>7. \A t \in tasks' : Sound(t, stored', closed', allowed')
  BY <1>3 DEF Inv, storeVars
<1>8. \A i \in 1..Len(down') : Covered(down'[i], stored')
  BY <1>3 DEF Inv, storeVars
<1>9. NeverAhead' /\ LateOnlyIfUnderWay'
  BY <1>3 DEF Inv, NeverAhead, LateOnlyIfUnderWay, storeVars, pageVars
<1> QED
  BY <1>6, <1>7, <1>8, <1>9 DEF Inv

LEMMA InvNext ==
  ASSUME Inv, [Next]_vars
  PROVE  Inv'
<1>1. CASE UNCHANGED vars
  BY <1>1 DEF Inv, TypeOK, NeverAhead, LateOnlyIfUnderWay, vars, formVars, storeVars, linkVars,
       pageVars, history
<1>2. ASSUME NEW t \in tasks,
             \/ Check(t) \/ Put(t) \/ List(t) \/ SendRollup(t)
             \/ ComputeProgress(t) \/ ReportProgress(t) \/ AnnounceForm(t)
      PROVE  Inv'
  BY <1>2, CheckInv, PutInv, ReadInv, SendInv, ReportInv, AnnounceInv
<1>3. CASE TaskStep
  BY <1>2, <1>3 DEF TaskStep
<1> QED
  BY <1>1, <1>3, PageInv, AttachInv, BeginInv, ConcludeInv, FaultInv DEF Next, PageStep

LEMMA InvInit ==
  ASSUME Init
  PROVE  Inv
<1>1. MaxAttempts \in Nat /\ MaxFaults \in Nat
  BY ResponsesAssumption DEF ResponsesAssumption
<1>2. TypeOK
  <2>1. down \in Seq(Frame)
    BY DEF Init
  <2>2. shown \in [Question -> SUBSET Participant]
    BY DEF Init
  <2>3. {issued, closed, sawClosed, session, phase, clean, unsaid} \subseteq BOOLEAN
    BY DEF Init
  <2>4. attempts \in 0..MaxAttempts /\ faults \in 0..MaxFaults
    BY <1>1 DEF Init
  <2>5. /\ given \subseteq Answer /\ stored \subseteq Answer /\ allowed \subseteq Answer
        /\ tasks \subseteq Task /\ progress \subseteq Participant
        /\ concluding \in {"no", "read", "tell"}
        /\ near \in {"none", "connecting", "open", "dead"}
        /\ far \in {"none", "admitting", "bound", "welcoming", "ready"}
    BY DEF Init
  <2> QED
    BY <2>1, <2>2, <2>3, <2>4, <2>5 DEF TypeOK
<1> QED
  BY <1>2 DEF Init, Inv, NeverAhead, LateOnlyIfUnderWay

\* Every variable has its type, whatever breaks and whatever overlaps.
THEOREM TypeCorrect == Spec => []TypeOK
<1>1. Inv => TypeOK
  BY DEF Inv
<1> QED
  BY <1>1, InvInit, InvNext, PTL DEF Spec

\* Nobody is ever told of an answer that is not stored, for any number of handlers at a
\* time, in any order, with any loss.
THEOREM NeverAheadOfStore == Spec => []NeverAhead
<1>1. Inv => NeverAhead
  BY DEF Inv
<1> QED
  BY <1>1, InvInit, InvNext, PTL DEF Spec

\* What is stored after the conclusion had passed its check before.
THEOREM OnlyUnderWayIsLate == Spec => []LateOnlyIfUnderWay
<1>1. Inv => LateOnlyIfUnderWay
  BY DEF Inv
<1> QED
  BY <1>1, InvInit, InvNext, PTL DEF Spec

----------------------------------------------------------------------------
(* A response that was handled alone makes the page right again.  As long as    *)
(* nothing else is stored and the link holds (`clean'), whatever a handler has   *)
(* read is what is stored; so for every question the last frame under way tells   *)
(* what is stored, or the page shows it and no frame says otherwise, or a handler *)
(* will still send it.                                                        *)
Tells(frame, q) == frame.type = "rollup" /\ frame.question = q
Right(frame, q, st) == Tells(frame, q) /\ frame.who = Rollup(q, st)

Current(q) ==
  \E i \in 0..Len(down) :
    /\ IF i = 0 THEN shown[q] = Rollup(q, stored) ELSE Right(down[i], q, stored)
    /\ \A j \in i + 1..Len(down) : Tells(down[j], q) => Right(down[j], q, stored)

WillSend(t, q) ==
  \/ t.step = "list"
  \/ t.step = "send" /\ \E n \in t.next..Len(Questions) : Questions[n] = q

\* What holds while the response is clean.
Repairing ==
  /\ InHub
  /\ \A t \in tasks : t.step \in {"send", "report"} => t.seen = stored
  /\ \A q \in Question : Current(q) \/ \E t \in tasks : WillSend(t, q)
  /\ Reporting = {} => progress = Finished(stored)

RepairInv ==
  /\ \A t \in tasks : t.step # "send" => t.next = 1
  /\ far # "none" => near # "none"
  /\ clean => Repairing

LEMMA PushCurrent ==
  ASSUME TypeOK, NEW q \in Question, NEW frame \in Frame, Push(frame), UNCHANGED <<stored, shown>>,
         Tells(frame, q) => Right(frame, q, stored),
         Current(q) \/ (InHub /\ Right(frame, q, stored))
  PROVE  Current(q)'
<1>1. down \in Seq(Frame) /\ Len(down) \in Nat
  BY DEF TypeOK
<1>2. CASE ~InHub
  <2>1. down' = down /\ Current(q)
    BY <1>2 DEF Push
  <2> QED
    BY <2>1 DEF Current
<1>3. CASE InHub
  <2>1. /\ Len(down') = Len(down) + 1 /\ down'[Len(down) + 1] = frame
        /\ \A i \in 1..Len(down) : down'[i] = down[i]
    BY <1>1, <1>3 DEF Push
  <2>2. CASE Right(frame, q, stored)
    <3> DEFINE k == Len(down) + 1
    <3>1. k \in 0..Len(down') /\ k # 0 /\ Right(down'[k], q, stored) /\ k + 1..Len(down') = {}
      BY <1>1, <2>1, <2>2
    <3> QED
      BY <3>1 DEF Current
  <2>3. CASE Current(q) /\ ~Tells(frame, q)
    <3>1. PICK i \in 0..Len(down) :
             /\ IF i = 0 THEN shown[q] = Rollup(q, stored) ELSE Right(down[i], q, stored)
             /\ \A j \in i + 1..Len(down) : Tells(down[j], q) => Right(down[j], q, stored)
      BY <2>3 DEF Current
    <3>2. i \in 0..Len(down') /\ (i # 0 => down'[i] = down[i])
      BY <1>1, <2>1
    <3>3. \A j \in i + 1..Len(down') : Tells(down'[j], q) => Right(down'[j], q, stored)
      <4> SUFFICES ASSUME NEW j \in i + 1..Len(down'), Tells(down'[j], q)
                   PROVE  Right(down'[j], q, stored)
        OBVIOUS
      <4>1. j # Len(down) + 1
        BY <2>1, <2>3
      <4>2. j \in i + 1..Len(down) /\ j \in 1..Len(down)
        BY <1>1, <2>1, <4>1
      <4> QED
        BY <2>1, <3>1, <4>2
    <3>4. IF i = 0 THEN shown'[q] = Rollup(q, stored') ELSE Right(down'[i], q, stored)
      BY <3>1, <3>2
    <3> QED
      BY <3>2, <3>3, <3>4 DEF Current
  <2> QED
    BY <1>3, <2>2, <2>3
<1> QED
  BY <1>2, <1>3

LEMMA ReceiveCurrent ==
  ASSUME TypeOK, NEW q \in Question, ReceiveMessage, Current(q)
  PROVE  Current(q)'
<1>1. /\ down \in Seq(Frame) /\ down # <<>> /\ down' = Tail(down) /\ stored' = stored
      /\ shown \in [Question -> SUBSET Participant]
      /\ shown' = IF Head(down).type = "rollup"
                    THEN [shown EXCEPT ![Head(down).question] = Head(down).who] ELSE shown
  BY DEF ReceiveMessage, TypeOK, ServerUnchanged, storeVars
<1>2. /\ Len(down) \in Nat /\ Len(down') = Len(down) - 1 /\ Head(down) = down[1]
      /\ \A j \in 1..Len(down') : down'[j] = down[j + 1]
  BY <1>1
<1>3. PICK i \in 0..Len(down) :
         /\ IF i = 0 THEN shown[q] = Rollup(q, stored) ELSE Right(down[i], q, stored)
         /\ \A j \in i + 1..Len(down) : Tells(down[j], q) => Right(down[j], q, stored)
  BY DEF Current
<1>4. ASSUME NEW k \in 0..Len(down'), k = i - 1 \/ (i = 0 /\ k = 0)
      PROVE  \A j \in k + 1..Len(down') : Tells(down'[j], q) => Right(down'[j], q, stored)
  <2> SUFFICES ASSUME NEW j \in k + 1..Len(down'), Tells(down'[j], q)
               PROVE  Right(down'[j], q, stored)
    OBVIOUS
  <2>1. j \in 1..Len(down') /\ j + 1 \in i + 1..Len(down)
    BY <1>2, <1>4
  <2> QED
    BY <1>2, <1>3, <2>1
<1>5. CASE i \in {0, 1}
  <2>1. shown'[q] = Rollup(q, stored)
    <3>1. CASE Tells(down[1], q)
      <4>1. down[1].who = Rollup(q, stored)
        <5>1. i = 0 => 1 \in i + 1..Len(down)
          BY <1>1, <1>2
        <5> QED
          BY <1>3, <1>5, <3>1, <5>1 DEF Right
      <4> QED
        BY <1>1, <1>2, <3>1, <4>1 DEF Tells
    <3>2. CASE ~Tells(down[1], q)
      <4>1. i = 0 /\ shown'[q] = shown[q]
        BY <1>1, <1>2, <1>3, <1>5, <3>2 DEF Tells, Right
      <4> QED
        BY <1>3, <4>1
    <3> QED
      BY <3>1, <3>2
  <2>2. 0 \in 0..Len(down')
    BY <1>1, <1>2
  <2>3. \A j \in 0 + 1..Len(down') : Tells(down'[j], q) => Right(down'[j], q, stored)
    BY <1>4, <1>5, <2>2
  <2> QED
    BY <1>1, <2>1, <2>2, <2>3 DEF Current
<1>6. CASE i \notin {0, 1}
  <2>1. i - 1 \in 0..Len(down') /\ i - 1 # 0 /\ i - 1 \in 1..Len(down') /\ i - 1 + 1 = i
    BY <1>2, <1>6
  <2>2. Right(down'[i - 1], q, stored)
    BY <1>2, <1>3, <1>6, <2>1
  <2>3. \A j \in (i - 1) + 1..Len(down') : Tells(down'[j], q) => Right(down'[j], q, stored)
    BY <1>4, <2>1
  <2> QED
    BY <1>1, <2>1, <2>2, <2>3 DEF Current
<1> QED
  BY <1>5, <1>6

\* Nothing that counts here changes, but for frames sent that are no rollups.
LEMMA RepairFrame ==
  ASSUME TypeOK, RepairInv, UNCHANGED <<stored, tasks, shown, progress, clean>>,
         (far' = far \/ (InHub /\ far' \in {"welcoming", "ready"})),
         near' = near \/ near' # "none",
         \/ down' = down
         \/ \E frame \in Frame : frame.type # "rollup" /\ Push(frame)
  PROVE  RepairInv'
<1>1. \A q \in Question : Current(q) => Current(q)'
  <2> SUFFICES ASSUME NEW q \in Question, Current(q)
               PROVE  Current(q)'
    OBVIOUS
  <2>1. CASE down' = down
    BY <2>1 DEF Current
  <2>2. ASSUME NEW frame \in Frame, frame.type # "rollup", Push(frame)
        PROVE  Current(q)'
    BY <2>2, PushCurrent DEF Tells
  <2> QED
    BY <2>1, <2>2
<1>2. Reporting' = Reporting
  BY DEF Reporting
<1>3. InHub => InHub'
  BY DEF InHub
<1>4. far' # "none" => near' # "none"
  BY DEF RepairInv, InHub
<1>5. \A t, q : WillSend(t, q)' <=> WillSend(t, q)
  BY DEF WillSend
<1>6. clean' => Repairing'
  BY <1>1, <1>2, <1>3, <1>5 DEF RepairInv, Repairing
<1> QED
  BY <1>4, <1>6 DEF RepairInv

LEMMA PageRepair ==
  ASSUME TypeOK, RepairInv,
         Connect \/ OpenEvent \/ ConnectFails \/ RejectToken \/ CloseEvent \/ ReceiveMessage
  PROVE  RepairInv'
<1>1. CASE Connect
  <2>1. near = "none" /\ far' = "none" /\ UNCHANGED <<tasks, clean>>
    BY <1>1 DEF Connect, ServerUnchanged, history
  <2> QED
    BY <2>1 DEF RepairInv, Repairing, InHub
<1>2. CASE OpenEvent
  BY <1>2, RepairFrame DEF OpenEvent, ServerUnchanged, storeVars, history
<1>3. CASE ConnectFails \/ RejectToken \/ CloseEvent
  BY <1>3 DEF ConnectFails, RejectToken, CloseEvent, AfterClose, ServerUnchanged, RepairInv
<1>4. CASE ReceiveMessage
  <2>1. UNCHANGED <<stored, tasks, progress, clean, near, far>>
    BY <1>4 DEF ReceiveMessage, ServerUnchanged, storeVars, history
  <2>2. \A q \in Question : Current(q) => Current(q)'
    BY <1>4, ReceiveCurrent
  <2>3. Reporting' = Reporting /\ InHub' = InHub /\ \A t, q : WillSend(t, q)' <=> WillSend(t, q)
    BY <2>1 DEF Reporting, InHub, WillSend
  <2>4. clean' => Repairing'
    BY <2>1, <2>2, <2>3 DEF RepairInv, Repairing
  <2> QED
    BY <2>1, <2>4 DEF RepairInv
<1> QED
  BY <1>1, <1>2, <1>3, <1>4

LEMMA ServerRepair ==
  ASSUME TypeOK, RepairInv, Accept \/ AttachStep \/ ConcludeEvent \/ ConcludeStep
  PROVE  RepairInv'
<1> USE DEF AttachUnchanged, ServerUnchanged, LinkUnchanged, storeVars, pageVars
<1>1. CASE Accept \/ Bind
  <2>1. /\ far \in {"none", "admitting"} /\ near # "none" /\ near' = near
        /\ UNCHANGED <<tasks, clean>>
    BY <1>1 DEF Accept, Bind, RepairInv
  <2> QED
    BY <2>1 DEF RepairInv, Repairing, InHub
<1>2. CASE WelcomeRead
  BY <1>2, RepairFrame DEF WelcomeRead, InHub
<1>3. CASE SendWelcome
  <2>1. [type |-> IF sawClosed THEN "welcomeClosed" ELSE "welcome"] \in Frame
    BY DEF Frame, Signal
  <2> QED
    BY <1>3, <2>1, RepairFrame DEF SendWelcome, InHub
<1>4. CASE ConcludeEvent \/ SetClosed
  BY <1>4, RepairFrame DEF ConcludeEvent, SetClosed
<1>5. CASE TellClosed
  <2>1. [type |-> "phaseClosed"] \in Frame
    BY DEF Frame, Signal
  <2> QED
    BY <1>5, <2>1, RepairFrame DEF TellClosed
<1> QED
  BY <1>1, <1>2, <1>3, <1>4, <1>5 DEF AttachStep, ConcludeStep

LEMMA FaultRepair ==
  ASSUME TypeOK, RepairInv, Cut \/ ConcludeFails \/ Crash \/ \E t \in tasks : TaskFails(t)
  PROVE  RepairInv'
<1>1. CASE Cut \/ Crash \/ \E t \in tasks : TaskFails(t)
  <2>1. clean' = FALSE /\ tasks' \subseteq tasks
        /\ (far' = "none" \/ (far' = far /\ near' = near))
    BY <1>1 DEF Cut, Crash, TaskFails, ServerUnchanged, linkVars
  <2> QED
    BY <2>1 DEF RepairInv
<1>2. CASE ConcludeFails
  BY <1>2, RepairFrame DEF ConcludeFails, storeVars, linkVars, pageVars
<1> QED
  BY <1>1, <1>2

\* A handler goes on, and the store is as before.
LEMMA TaskRepair ==
  ASSUME TypeOK, RepairInv, NEW t, NEW u \in Task, tasks' = (tasks \ {t}) \cup {u},
         u.step # "send" => u.next = 1,
         clean /\ u.step \in {"send", "report"} => u.seen = stored,
         u \in Reporting' \/ t \notin Reporting,
         \A q \in Question : clean /\ (Current(q) \/ WillSend(t, q)) => Current(q)' \/ WillSend(u, q),
         UNCHANGED <<stored, shown, progress, clean, near, far>>
  PROVE  RepairInv'
<1>1. \A v, q : WillSend(v, q)' <=> WillSend(v, q)
  BY DEF WillSend
<1>2. Reporting' = {} => Reporting = {}
  BY DEF Reporting
<1>3. ASSUME clean PROVE Repairing'
  <2>1. InHub'
    BY <1>3 DEF RepairInv, Repairing, InHub
  <2>2. \A v \in tasks' : v.step \in {"send", "report"} => v.seen = stored'
    BY <1>3 DEF RepairInv, Repairing
  <2>3. \A q \in Question : Current(q)' \/ \E v \in tasks' : WillSend(v, q)'
    <3> SUFFICES ASSUME NEW q \in Question, ~Current(q)'
                 PROVE  \E v \in tasks' : WillSend(v, q)
      BY <1>1
    <3>1. Current(q) \/ \E v \in tasks : WillSend(v, q)
      BY <1>3 DEF RepairInv, Repairing
    <3>2. CASE Current(q) \/ WillSend(t, q)
      BY <1>3, <3>2
    <3>3. CASE \E v \in tasks : WillSend(v, q) /\ v # t
      BY <3>3
    <3> QED
      BY <3>1, <3>2, <3>3
  <2>4. Reporting' = {} => progress' = Finished(stored')
    BY <1>2, <1>3 DEF RepairInv, Repairing
  <2> QED
    BY <2>1, <2>2, <2>3, <2>4 DEF Repairing
<1>4. \A v \in tasks' : v.step # "send" => v.next = 1
  BY DEF RepairInv
<1>5. far' # "none" => near' # "none"
  BY DEF RepairInv
<1> QED
  BY <1>3, <1>4, <1>5 DEF RepairInv

\* A handler begins: it is not yet about to store or to report.
LEMMA BeginRepair ==
  ASSUME TypeOK, RepairInv, IssueForm \/ \E a \in Willing : Submit(a)
  PROVE  RepairInv'
<1>1. PICK u : /\ tasks' = tasks \cup {u} /\ u.step \in {"check", "announce"} /\ u.next = 1
  <2>1. CASE IssueForm
    <3> DEFINE u == [answer |-> None, step |-> "announce", seen |-> {}, next |-> 1]
    <3>1. tasks' = tasks \cup {u} /\ u.step = "announce" /\ u.next = 1
      BY <2>1 DEF IssueForm
    <3> QED
      BY <3>1
  <2>2. ASSUME NEW a \in Willing, Submit(a)
        PROVE  \E u : /\ tasks' = tasks \cup {u} /\ u.step \in {"check", "announce"} /\ u.next = 1
    <3> DEFINE u == [answer |-> a, step |-> "check", seen |-> {}, next |-> 1]
    <3>1. tasks' = tasks \cup {u} /\ u.step = "check" /\ u.next = 1
      BY <2>2 DEF Submit
    <3> QED
      BY <3>1
  <2> QED
    BY <2>1, <2>2
<1>2. UNCHANGED <<stored, shown, progress, clean, near, far, down>>
  BY DEF IssueForm, Submit, LinkUnchanged, storeVars, pageVars
<1>3. /\ \A q : Current(q)' <=> Current(q)
      /\ \A v, q : WillSend(v, q)' <=> WillSend(v, q)
  BY <1>2 DEF Current, WillSend
<1>4. Reporting' = Reporting /\ InHub' = InHub
  BY <1>1, <1>2 DEF Reporting, InHub
<1>5. clean' => Repairing'
  BY <1>1, <1>2, <1>3, <1>4 DEF RepairInv, Repairing
<1> QED
  BY <1>1, <1>2, <1>5 DEF RepairInv

LEMMA CheckRepair ==
  ASSUME TypeOK, RepairInv, NEW t \in tasks, Check(t)
  PROVE  RepairInv'
<1>1. /\ UNCHANGED <<stored, shown, progress, clean, near, far, down>>
      /\ t \in Task /\ t.step = "check" /\ t.next = 1
  BY DEF Check, At, LinkUnchanged, storeVars, pageVars, TypeOK, RepairInv
<1>2. \A q : Current(q)' <=> Current(q)
  BY <1>1 DEF Current
<1>3. CASE MayStore
  <2> DEFINE u == [t EXCEPT !.step = "put"]
  <2>1. u \in Task /\ u.step = "put" /\ u.next = 1 /\ tasks' = (tasks \ {t}) \cup {u}
    BY <1>1, <1>3 DEF Check, Move, Task, Step
  <2> HIDE DEF u
  <2> QED
    BY <1>1, <1>2, <2>1, TaskRepair DEF Reporting, WillSend
<1>4. CASE ~MayStore
  <2>1. tasks' = tasks \ {t}
    BY <1>4 DEF Check
  <2>2. Reporting' = Reporting /\ InHub' = InHub
    BY <1>1, <2>1 DEF Reporting, InHub
  <2>3. \A v, q : WillSend(v, q)' <=> WillSend(v, q)
    BY DEF WillSend
  <2>4. \A q : ~WillSend(t, q)
    BY <1>1 DEF WillSend
  <2>5. clean' => Repairing'
    BY <1>1, <1>2, <2>1, <2>2, <2>3, <2>4 DEF RepairInv, Repairing
  <2> QED
    BY <1>1, <2>1, <2>5 DEF RepairInv
<1> QED
  BY <1>3, <1>4

\* The response is stored; if it is alone, its handler will send every rollup.
LEMMA PutRepair ==
  ASSUME TypeOK, RepairInv, NEW t \in tasks, Put(t)
  PROVE  RepairInv'
<1> DEFINE u == [t EXCEPT !.step = "list"]
<1>1. /\ t \in Task /\ t.step = "put" /\ t.next = 1
      /\ clean' => Reporting = {} /\ InHub
      /\ UNCHANGED <<near, far>>
      /\ tasks' = (tasks \ {t}) \cup {u}
  BY DEF Put, At, Move, PutNext, LinkUnchanged, TypeOK, RepairInv
<1>2. u.step = "list" /\ u.next = 1
  BY <1>1 DEF Task
<1> HIDE DEF u
<1>3. ASSUME clean' PROVE Repairing'
  <2>1. InHub'
    BY <1>1, <1>3 DEF InHub
  <2>2. \A v \in tasks' : v.step \notin {"send", "report"}
    BY <1>1, <1>2, <1>3 DEF Reporting
  <2>3. \A q \in Question : WillSend(u, q)'
    BY <1>2 DEF WillSend
  <2>4. u \in Reporting'
    BY <1>1, <1>2 DEF Reporting
  <2> QED
    BY <1>1, <2>1, <2>2, <2>3, <2>4 DEF Repairing
<1> QED
  BY <1>1, <1>2, <1>3 DEF RepairInv

\* What is read is what is stored.
LEMMA ReadRepair ==
  ASSUME TypeOK, RepairInv, NEW t \in tasks, List(t) \/ ComputeProgress(t)
  PROVE  RepairInv'
<1>1. /\ UNCHANGED <<stored, shown, progress, clean, near, far, down>>
      /\ t \in Task /\ t.step \in {"list", "progress"} /\ t.next = 1
  BY DEF List, ComputeProgress, At, LinkUnchanged, storeVars, pageVars, TypeOK, RepairInv
<1>2. \A q : Current(q)' <=> Current(q)
  BY <1>1 DEF Current
<1>3. PICK u \in Task : /\ tasks' = (tasks \ {t}) \cup {u} /\ u.seen = stored /\ u.next = 1
                        /\ \/ t.step = "list" /\ u.step = "send"
                           \/ t.step = "progress" /\ u.step = "report"
  <2>1. stored \in SUBSET Answer
    BY DEF TypeOK
  <2>2. CASE List(t)
    <3> DEFINE u == [t EXCEPT !.step = "send", !.seen = stored]
    <3>1. u \in Task /\ u.seen = stored /\ u.next = 1 /\ u.step = "send"
      BY <1>1, <2>1 DEF Task, Step
    <3>2. tasks' = (tasks \ {t}) \cup {u} /\ t.step = "list"
      BY <2>2 DEF List, Listed, At
    <3> QED
      BY <3>1, <3>2
  <2>3. CASE ComputeProgress(t)
    <3> DEFINE u == [t EXCEPT !.step = "report", !.seen = stored]
    <3>1. u \in Task /\ u.seen = stored /\ u.next = 1 /\ u.step = "report"
      BY <1>1, <2>1 DEF Task, Step
    <3>2. tasks' = (tasks \ {t}) \cup {u} /\ t.step = "progress"
      BY <2>3 DEF ComputeProgress, Listed, At
    <3> QED
      BY <3>1, <3>2
  <2> QED
    BY <2>2, <2>3
<1>4. u \in Reporting'
  BY <1>3 DEF Reporting
<1>5. \A q \in Question : WillSend(t, q) => WillSend(u, q)
  <2> SUFFICES ASSUME NEW q \in Question, t.step = "list"
               PROVE  WillSend(u, q)
    BY <1>1 DEF WillSend
  <2>1. \E n \in 1..Len(Questions) : Questions[n] = q
    BY ResponsesAssumption DEF Question, ToSet
  <2> QED
    BY <1>3, <2>1 DEF WillSend
<1> QED
  BY <1>1, <1>2, <1>3, <1>4, <1>5, TaskRepair

\* A rollup is sent: what it tells is what is stored.
LEMMA SendRepair ==
  ASSUME TypeOK, RepairInv, NEW t \in tasks, SendRollup(t)
  PROVE  RepairInv'
<1> DEFINE q == Questions[t.next]
           frame == [type |-> "rollup", question |-> q, who |-> Rollup(q, t.seen)]
<1>1. /\ UNCHANGED <<stored, shown, progress, clean, near, far>> /\ Push(frame)
      /\ t \in Task /\ t.step = "send" /\ t.next \in 1..Len(Questions)
      /\ Len(Questions) \in Nat /\ 1 \in 1..Len(Questions)
  BY SomeQuestion DEF SendRollup, At, LinkUnchanged, storeVars, pageVars, TypeOK, Task
<1>2. q \in Question /\ frame \in Frame
  BY <1>1, QuestionAt, RollupType
<1>3. /\ frame.type = "rollup" /\ frame.question = q /\ frame.who = Rollup(q, t.seen)
      /\ clean => t.seen = stored /\ InHub
  BY <1>1 DEF RepairInv, Repairing
<1>4. PICK u \in Task :
        /\ tasks' = (tasks \ {t}) \cup {u}
        /\ \/ t.next < Len(Questions) /\ u.step = "send" /\ u.next = t.next + 1 /\ u.seen = t.seen
           \/ t.next = Len(Questions) /\ u.step = "progress" /\ u.next = 1
  <2>1. CASE t.next < Len(Questions)
    <3> DEFINE u == [t EXCEPT !.next = t.next + 1, !.step = "send", !.seen = t.seen]
    <3>1. t.next + 1 \in 1..Len(Questions) /\ t.seen \in SUBSET Answer /\ "send" \in Step
      BY <1>1, <2>1 DEF Task, Step
    <3>2. u \in Task /\ u.step = "send" /\ u.seen = t.seen /\ u.next = t.next + 1
      BY <1>1, <3>1 DEF Task
    <3>3. tasks' = (tasks \ {t}) \cup {u}
      BY <2>1 DEF SendRollup
    <3> QED
      BY <2>1, <3>2, <3>3
  <2>2. CASE ~(t.next < Len(Questions))
    <3> DEFINE u == [t EXCEPT !.next = 1, !.step = "progress", !.seen = {}]
    <3>1. u \in Task /\ u.step = "progress" /\ u.next = 1
      BY <1>1 DEF Task, Step
    <3>2. tasks' = (tasks \ {t}) \cup {u} /\ t.next = Len(Questions)
      BY <1>1, <2>2 DEF SendRollup
    <3> QED
      BY <3>1, <3>2
  <2> QED
    BY <2>1, <2>2
<1>5. u \in Reporting'
  BY <1>4 DEF Reporting
<1> HIDE DEF q, frame
<1>6. clean => (Tells(frame, q) /\ Right(frame, q, stored))
  BY <1>3 DEF Tells, Right
<1>7. \A r \in Question : clean /\ (Current(r) \/ WillSend(t, r)) => Current(r)' \/ WillSend(u, r)
  <2> SUFFICES ASSUME NEW r \in Question, clean, Current(r) \/ WillSend(t, r)
               PROVE  Current(r)' \/ WillSend(u, r)
    OBVIOUS
  <2>1. CASE r = q
    BY <1>1, <1>2, <1>3, <1>6, <2>1, PushCurrent
  <2>2. CASE r # q
    <3>1. ~Tells(frame, r)
      BY <1>3, <2>2 DEF Tells
    <3>2. CASE Current(r)
      BY <1>1, <1>2, <3>1, <3>2, PushCurrent
    <3>3. CASE WillSend(t, r)
      <4>1. PICK n \in t.next..Len(Questions) : Questions[n] = r
        BY <1>1, <3>3 DEF WillSend
      <4>2. n # t.next
        BY <2>2, <4>1 DEF q
      <4>3. n \in t.next + 1..Len(Questions)
        BY <1>1, <4>1, <4>2
      <4> QED
        BY <1>1, <1>4, <4>1, <4>3 DEF WillSend
    <3> QED
      BY <3>2, <3>3
  <2> QED
    BY <2>1, <2>2
<1> QED
  BY <1>1, <1>3, <1>4, <1>5, <1>7, TaskRepair

LEMMA ReportRepair ==
  ASSUME TypeOK, RepairInv, NEW t \in tasks, ReportProgress(t)
  PROVE  RepairInv'
<1>1. /\ UNCHANGED <<stored, shown, clean, near, far, down>>
      /\ t.step = "report" /\ tasks' = tasks \ {t} /\ progress' = Finished(t.seen)
  BY DEF ReportProgress, At, LinkUnchanged, storeVars, pageVars
<1>2. \A q : Current(q)' <=> Current(q)
  BY <1>1 DEF Current
<1>3. \A v, q : WillSend(v, q)' <=> WillSend(v, q)
  BY DEF WillSend
<1>4. \A q : ~WillSend(t, q)
  BY <1>1 DEF WillSend
<1>5. clean => progress' = Finished(stored)
  BY <1>1 DEF RepairInv, Repairing
<1>6. InHub' = InHub
  BY <1>1 DEF InHub
<1>7. clean' => Repairing'
  BY <1>1, <1>2, <1>3, <1>4, <1>5, <1>6 DEF RepairInv, Repairing
<1> QED
  BY <1>1, <1>7 DEF RepairInv

LEMMA AnnounceRepair ==
  ASSUME TypeOK, RepairInv, NEW t \in tasks, AnnounceForm(t)
  PROVE  RepairInv'
<1> DEFINE u == [t EXCEPT !.step = "progress"]
<1>1. /\ UNCHANGED <<stored, shown, progress, clean, near, far, down>>
      /\ t \in Task /\ t.step = "announce" /\ t.next = 1 /\ tasks' = (tasks \ {t}) \cup {u}
  BY DEF AnnounceForm, Move, At, LinkUnchanged, storeVars, pageVars, TypeOK, RepairInv
<1>2. u \in Task /\ u.step = "progress" /\ u.next = 1
  BY <1>1 DEF Task, Step
<1> HIDE DEF u
<1>3. \A q : Current(q)' <=> Current(q)
  BY <1>1 DEF Current
<1>4. u \in Reporting'
  BY <1>1, <1>2 DEF Reporting
<1> QED
  BY <1>1, <1>2, <1>3, <1>4, TaskRepair DEF WillSend

LEMMA NextRepair ==
  ASSUME TypeOK, RepairInv, [Next]_vars
  PROVE  RepairInv'
<1>1. CASE UNCHANGED vars
  BY <1>1, RepairFrame DEF vars, formVars, storeVars, linkVars, pageVars, history
<1>2. CASE TaskStep
  BY <1>2, CheckRepair, PutRepair, ReadRepair, SendRepair, ReportRepair, AnnounceRepair DEF TaskStep
<1> QED
  BY <1>1, <1>2, PageRepair, ServerRepair, BeginRepair, FaultRepair DEF Next, PageStep

\* One response that is handled alone, while the host is connected, makes the host's page
\* and the progress of the participants right again, whatever was lost before.
THEOREM RollupsRepairCorrect == Spec => []RollupsRepair
<1>1. Init => RepairInv
  BY DEF Init, RepairInv
<1>2. RepairInv => RollupsRepair
  <2> SUFFICES ASSUME RepairInv, clean, Reporting = {}, down = <<>>
               PROVE  (\A q \in Question : shown[q] = Rollup(q, stored)) /\ progress = Finished(stored)
    BY DEF RollupsRepair
  <2>1. \A t \in tasks, q \in Question : ~WillSend(t, q)
    BY DEF Reporting, WillSend
  <2>2. \A q \in Question : Current(q)
    BY <2>1 DEF RepairInv, Repairing
  <2>3. \A q \in Question : shown[q] = Rollup(q, stored)
    BY <2>2 DEF Current
  <2> QED
    BY <2>3 DEF RepairInv, Repairing
<1>3. RepairInv /\ TypeOK /\ [Next]_vars => RepairInv'
  BY NextRepair
<1> QED
  BY <1>1, <1>2, <1>3, TypeCorrect, PTL DEF Spec
=============================================================================
