----------------------- MODULE ParticipantClientProofs -----------------------
(***************************************************************************)
(* An answer of a participant is stored at most once, for every number of  *)
(* answers, sockets, attempts and faults: it is in one place at a time, the  *)
(* queue of the page, the frames under way on one socket, one handler, or    *)
(* the store.                                                              *)
(***************************************************************************)
EXTENDS ParticipantClient, TLAPS

LEMMA ClientParameters ==
  /\ MaxAttempts \in Nat /\ MaxFaults \in Nat /\ None \notin Slot
  /\ "bye" \notin Answer /\ "reject" \notin Answer
  BY ClientAssumption

LEMMA SeqFacts ==
  ASSUME NEW S, NEW q \in Seq(S), NEW r \in Seq(S), NEW x \in S
  PROVE  /\ Append(q, x) \in Seq(S) /\ q \o r \in Seq(S) /\ <<>> \in Seq(S)
         /\ q # <<>> => Tail(q) \in Seq(S) /\ Head(q) \in S
         /\ ToSet(q) \subseteq S
  BY DEF ToSet

----------------------------------------------------------------------------
(* Types.                                                                  *)

LEMMA DrainType ==
  ASSUME TypeOK, NEW q \in Seq(Answer), NEW k, NEW open \in BOOLEAN,
         open => k \in Slot, Drain(q, k, open)
  PROVE  /\ queue' \in Seq(Answer) /\ spoiled' \subseteq Answer
         /\ up' \in [Slot -> Seq(Answer \cup Goodbye)]
<1>0. /\ queue \in Seq(Answer) /\ spoiled \subseteq Answer
      /\ up \in [Slot -> Seq(Answer \cup Goodbye)] /\ <<>> \in Seq(Answer)
  BY DEF TypeOK
<1>1. CASE ~open
  BY <1>0, <1>1 DEF Drain
<1>2. CASE open /\ cut[k]
  <2>1. queue' = <<>> /\ spoiled' = spoiled \cup ToSet(q) /\ up' = up
    BY <1>2 DEF Drain, SendAll
  <2>2. ToSet(q) \subseteq Answer
    BY DEF ToSet
  <2> QED
    BY <1>0, <2>1, <2>2
<1>3. CASE open /\ ~cut[k]
  <2>1. queue' = <<>> /\ spoiled' = spoiled /\ up' = [up EXCEPT ![k] = @ \o q]
    BY <1>3 DEF Drain, SendAll
  <2>2. q \in Seq(Answer \cup Goodbye) /\ up[k] \in Seq(Answer \cup Goodbye)
    BY <1>0, <1>3
  <2>3. up[k] \o q \in Seq(Answer \cup Goodbye)
    BY <2>2
  <2> QED
    BY <1>0, <2>1, <2>3
<1> QED
  BY <1>1, <1>2, <1>3

LEMMA SendType ==
  ASSUME TypeOK, NEW k \in Slot, NEW frames \in Seq(Message \cup Goodbye), Send(k, frames)
  PROVE  down' \in [Slot -> Seq(Message \cup Goodbye)]
<1>1. down[k] \o frames \in Seq(Message \cup Goodbye)
  BY SeqFacts DEF TypeOK
<1> QED
  BY <1>1 DEF TypeOK, Send

LEMMA CloseFarType ==
  ASSUME TypeOK, NEW k \in Slot, NEW frames \in Seq(Message \cup Goodbye), CloseFar(k, frames)
  PROVE  /\ down' \in [Slot -> Seq(Message \cup Goodbye)]
         /\ far' \in [Slot -> {"none", "open", "closing", "closed"}]
  BY SendType DEF TypeOK, CloseFar

LEMMA ToParticipantsType ==
  ASSUME TypeOK, NEW frame \in Message \cup Goodbye, ToParticipants(frame)
  PROVE  down' \in [Slot -> Seq(Message \cup Goodbye)]
<1>1. \A k \in Slot : Append(down[k], frame) \in Seq(Message \cup Goodbye)
  BY SeqFacts DEF TypeOK
<1> QED
  BY <1>1 DEF TypeOK, ToParticipants

LEMMA AfterCloseType ==
  ASSUME TypeOK, NEW k \in Slot, NEW rejected, AfterClose(k, rejected)
  PROVE  /\ socket' = None /\ attempts' \in 0..MaxAttempts
         /\ timer' \in {"new", "set", "off"} /\ page' \in {"live", "thanks", "join"}
         /\ stopped' \in BOOLEAN
         /\ near' \in [Slot -> {"free", "connecting", "open", "closing"}]
         /\ down' \in [Slot -> Seq(Message \cup Goodbye)]
         /\ barren' \in Nat
<1> USE DEF AfterClose
<1>1. socket' = None /\ near' \in [Slot -> {"free", "connecting", "open", "closing"}]
  BY DEF TypeOK
<1>2. down' \in [Slot -> Seq(Message \cup Goodbye)]
  BY DEF TypeOK
<1>3. barren' \in Nat
  BY DEF TypeOK
<1>4. /\ attempts' \in 0..MaxAttempts /\ timer' \in {"new", "set", "off"}
      /\ page' \in {"live", "thanks", "join"}
  BY ClientParameters DEF TypeOK, ScheduleReconnect
<1>5. stopped' = stopped \/ stopped' = TRUE
  BY DEF ScheduleReconnect
<1>6. stopped' \in BOOLEAN
  BY <1>5 DEF TypeOK
<1> QED
  BY <1>1, <1>2, <1>3, <1>4, <1>6

LEMMA EnqueueTypes ==
  ASSUME TypeOK, NEW a \in Answer, Enqueue(a)
  PROVE  TypeOK'
<1> DEFINE open == socket # None /\ near[socket] = "open"
<1>1. Append(queue, a) \in Seq(Answer) /\ open \in BOOLEAN /\ (open => socket \in Slot)
  BY DEF TypeOK
<1>2. Drain(Append(queue, a), socket, open)
  BY DEF Enqueue
<1> HIDE DEF open
<1>3. /\ queue' \in Seq(Answer) /\ spoiled' \subseteq Answer
      /\ up' \in [Slot -> Seq(Answer \cup Goodbye)]
  BY <1>1, <1>2, DrainType
<1> QED
  BY <1>3 DEF TypeOK, Enqueue, clientVars, handlerVars, hostVars

LEMMA PageTypes ==
  ASSUME TypeOK, NEW k \in Slot,
         Connect(k) \/ PageStep(k) \/ ConnectFails(k)
  PROVE  TypeOK'
<1> USE DEF clientVars, queueVars, wireVars, handlerVars, hostVars, history
<1>1. CASE Connect(k)
  BY <1>1 DEF TypeOK, Connect
<1>2. CASE OpenEvent(k)
  <2>1. /\ queue' \in Seq(Answer) /\ spoiled' \subseteq Answer
        /\ up' \in [Slot -> Seq(Answer \cup Goodbye)]
    BY <1>2, DrainType DEF OpenEvent, TypeOK
  <2>2. /\ near' = [near EXCEPT ![k] = "open"] /\ attempts' = 0 /\ 0 \in 0..MaxAttempts
        /\ UNCHANGED <<socket, timer, page, stopped, form, given, down, cut, far, at, sawClosed,
                       handlerVars, hostVars, faults, unheard, barren>>
    BY <1>2, ClientParameters DEF OpenEvent
  <2> QED
    BY <2>1, <2>2 DEF TypeOK
<1>3. CASE ReceiveMessage(k)
  <2>1. Tail(down[k]) \in Seq(Message \cup Goodbye)
    BY <1>3 DEF ReceiveMessage, TypeOK
  <2>2. Append(up[k], "bye") \in Seq(Answer \cup Goodbye)
    BY DEF TypeOK, Goodbye
  <2>3. /\ page' \in {"live", "thanks", "join"} /\ barren' \in Nat
        /\ down' \in [Slot -> Seq(Message \cup Goodbye)]
    BY <1>3, <2>1 DEF ReceiveMessage, PageAfter, TypeOK
  <2>4. CloseNear(k) \/ UNCHANGED <<socket, stopped, near, up>>
    BY <1>3 DEF ReceiveMessage
  <2>5. /\ socket' \in Slot \cup {None} /\ stopped' \in BOOLEAN
        /\ near' \in [Slot -> {"free", "connecting", "open", "closing"}]
        /\ up' \in [Slot -> Seq(Answer \cup Goodbye)]
    BY <2>2, <2>4 DEF CloseNear, TypeOK
  <2>6. form' = form \/ form' = TRUE
    BY <1>3 DEF ReceiveMessage, TypeOK
  <2>7. form' \in BOOLEAN
    BY <2>6 DEF TypeOK
  <2>8. UNCHANGED <<attempts, timer, given, queue, cut, far, at, sawClosed,
                    handlerVars, hostVars, faults, spoiled, unheard>>
    BY <1>3 DEF ReceiveMessage
  <2> QED
    BY <2>3, <2>5, <2>7, <2>8 DEF TypeOK
<1>4. CASE ConnectFails(k)
  BY <1>4, AfterCloseType DEF TypeOK, ConnectFails
<1>5. CASE ReceiveGoodbye(k)
  <2>1. Append(up[k], "bye") \in Seq(Answer \cup Goodbye)
    BY DEF TypeOK, Goodbye
  <2>2. up' \in [Slot -> Seq(Answer \cup Goodbye)]
    BY <1>5, <2>1 DEF ReceiveGoodbye, TypeOK
  <2> QED
    BY <1>5, <2>2, AfterCloseType DEF TypeOK, ReceiveGoodbye
<1>6. CASE NearCut(k)
  BY <1>6, AfterCloseType DEF TypeOK, NearCut
<1> QED
  BY <1>1, <1>2, <1>3, <1>4, <1>5, <1>6 DEF PageStep

LEMMA GatewayTypes ==
  ASSUME TypeOK, NEW k \in Slot,
         Accept(k) \/ RejectToken(k) \/ AttachStep(k) \/ AttachFails(k) \/ FarClosed(k)
         \/ Cut(k) \/ Deliver(k)
  PROVE  TypeOK'
<1> USE DEF clientVars, queueVars, wireVars, handlerVars, hostVars, history, AttachUnchanged
<1>f. /\ <<"reject">> \in Seq(Message \cup Goodbye) /\ <<"bye">> \in Seq(Message \cup Goodbye)
      /\ <<"eventClosed", "bye">> \in Seq(Message \cup Goodbye)
      /\ <<"welcome">> \in Seq(Message \cup Goodbye)
      /\ <<"welcomeClosed">> \in Seq(Message \cup Goodbye)
  BY DEF Message, Goodbye
<1>1. CASE Accept(k)
  BY <1>1 DEF TypeOK, Accept
<1>2. CASE RejectToken(k)
  <2>1. /\ down' \in [Slot -> Seq(Message \cup Goodbye)]
        /\ far' \in [Slot -> {"none", "open", "closing", "closed"}]
    BY <1>2, <1>f, CloseFarType DEF RejectToken
  <2> QED
    BY <1>2, <2>1 DEF TypeOK, RejectToken
<1>3. CASE Admit(k) \/ BailOut(k) \/ Bind(k)
  BY <1>3 DEF TypeOK, Admit, BailOut, Bind, Listening
<1>4. CASE RefuseClosed(k)
  <2>1. /\ down' \in [Slot -> Seq(Message \cup Goodbye)]
        /\ far' \in [Slot -> {"none", "open", "closing", "closed"}]
    BY <1>4, <1>f, CloseFarType DEF RefuseClosed
  <2> QED
    BY <1>4, <2>1 DEF TypeOK, RefuseClosed
<1>5. CASE WelcomeRead(k)
  <2>1. sawClosed' \in [Slot -> BOOLEAN]
    BY <1>5 DEF TypeOK, WelcomeRead
  <2> QED
    BY <1>5, <2>1 DEF TypeOK, WelcomeRead, Listening
<1>6. CASE SendWelcome(k)
  <2>1. down' \in [Slot -> Seq(Message \cup Goodbye)]
    <3>1. CASE far[k] # "open"
      BY <1>6, <3>1 DEF SendWelcome, TypeOK
    <3>2. CASE far[k] = "open"
      <4>1. Send(k, <<"welcome">>) \/ Send(k, <<"welcomeClosed">>)
        BY <1>6, <3>2 DEF SendWelcome
      <4> QED
        BY <4>1, <1>f, SendType
    <3> QED
      BY <3>1, <3>2
  <2> QED
    BY <1>6, <2>1 DEF TypeOK, SendWelcome, Listening
<1>7. CASE AttachFails(k)
  <2>1. /\ down' \in [Slot -> Seq(Message \cup Goodbye)]
        /\ far' \in [Slot -> {"none", "open", "closing", "closed"}]
    BY <1>7, <1>f, CloseFarType DEF AttachFails
  <2>2. faults' \in 0..MaxFaults
    BY <1>7, ClientParameters DEF AttachFails, TypeOK
  <2> QED
    BY <1>7, <2>1, <2>2 DEF TypeOK, AttachFails, Listening
<1>8. CASE FarClosed(k)
  <2>1. down' \in [Slot -> Seq(Message \cup Goodbye)]
    BY <1>8, <1>f, SendType DEF FarClosed, TypeOK
  <2>2. /\ far' = [far EXCEPT ![k] = "closed"] /\ up' = [up EXCEPT ![k] = <<>>]
        /\ UNCHANGED <<clientVars, queueVars, near, cut, at, sawClosed, handlerVars,
                       hostVars, faults, history>>
    BY <1>8 DEF FarClosed
  <2>3. /\ far' \in [Slot -> {"none", "open", "closing", "closed"}]
        /\ up' \in [Slot -> Seq(Answer \cup Goodbye)]
    BY <2>2 DEF TypeOK
  <2> QED
    BY <2>1, <2>2, <2>3 DEF TypeOK
<1>9. CASE Cut(k)
  BY <1>9, ClientParameters DEF TypeOK, Cut
<1>10. CASE Deliver(k)
  <2>1. Head(up[k]) \in Answer /\ Tail(up[k]) \in Seq(Answer \cup Goodbye)
    BY <1>10 DEF Deliver, TypeOK
  <2> QED
    BY <1>10, <2>1 DEF TypeOK, Deliver
<1> QED
  BY <1>1, <1>2, <1>3, <1>4, <1>5, <1>6, <1>7, <1>8, <1>9, <1>10 DEF AttachStep

LEMMA HandlerTypes ==
  ASSUME TypeOK, NEW h \in handling, Check(h) \/ Put(h) \/ HandlerFails(h)
  PROVE  TypeOK'
<1> USE DEF clientVars, queueVars, wireVars, handlerVars, hostVars, history
<1>h. h[1] \in Slot /\ h[2] \in Answer
  BY DEF TypeOK
<1>1. CASE Check(h)
  <2>1. <<"eventClosed">> \in Seq(Message \cup Goodbye)
    BY DEF Message
  <2>2. down' \in [Slot -> Seq(Message \cup Goodbye)]
    BY <1>1, <1>h, <2>1, SendType DEF Check, TypeOK
  <2>3. handling' \subseteq Slot \X Answer \X {"check", "put"}
    BY <1>1, <1>h DEF Check, TypeOK
  <2> QED
    BY <1>1, <1>h, <2>2, <2>3 DEF TypeOK, Check
<1>2. CASE Put(h)
  BY <1>2, <1>h DEF TypeOK, Put
<1>3. CASE HandlerFails(h)
  BY <1>3, <1>h, ClientParameters DEF TypeOK, HandlerFails
<1> QED
  BY <1>1, <1>2, <1>3

LEMMA HostTypes ==
  ASSUME TypeOK, HostStep \/ Conclude \/ IssueForm \/ SendForm
  PROVE  TypeOK'
<1> USE DEF clientVars, queueVars, wireVars, handlerVars, hostVars, history, HostUnchanged
<1>1. CASE BroadcastClosed
  BY <1>1, ToParticipantsType DEF TypeOK, BroadcastClosed, Message
<1>2. CASE DisconnectParticipants
  BY <1>2, ToParticipantsType DEF TypeOK, DisconnectParticipants, Goodbye
<1>3. CASE Conclude
  BY <1>3 DEF TypeOK, Conclude
<1>4. CASE IssueForm
  BY <1>4 DEF TypeOK, IssueForm
<1>5. CASE SendForm
  BY <1>5, ToParticipantsType DEF TypeOK, SendForm, Message
<1> QED
  BY <1>1, <1>2, <1>3, <1>4, <1>5 DEF HostStep
LEMMA InitType == ASSUME Init PROVE TypeOK
<1>1. /\ up \in [Slot -> Seq(Answer \cup Goodbye)]
      /\ down \in [Slot -> Seq(Message \cup Goodbye)] /\ queue \in Seq(Answer)
  BY DEF Init
<1>2. attempts \in 0..MaxAttempts /\ faults \in 0..MaxFaults
  BY ClientParameters DEF Init
<1>3. stopped \in BOOLEAN /\ form \in BOOLEAN /\ closed \in BOOLEAN
  BY DEF Init
<1>4. {stopped, form, closed} \subseteq BOOLEAN
  BY <1>3
<1> QED
  BY <1>1, <1>2, <1>4 DEF Init, TypeOK

\* The type invariant.
THEOREM TypeCorrect == Spec => []TypeOK
<1>1. Init => TypeOK
  BY InitType
<1>2. TypeOK /\ [Next]_vars => TypeOK'
  <2> SUFFICES ASSUME TypeOK, [Next]_vars PROVE TypeOK'
    OBVIOUS
  <2>1. CASE UNCHANGED vars
    BY <2>1 DEF vars, clientVars, queueVars, wireVars, handlerVars, hostVars, history, TypeOK
  <2> QED
    BY <2>1, EnqueueTypes, PageTypes, GatewayTypes, HandlerTypes, HostTypes
       DEF Next, Fault, HandlerStep
<1> QED
  BY <1>1, <1>2, PTL DEF Spec

----------------------------------------------------------------------------
(* Where an answer is.                                                     *)

Queued(a) == \E i \in 1..Len(queue) : queue[i] = a
Sent(a, k) == \E i \in 1..Len(up[k]) : up[k][i] = a
Handled(a) == \E h \in handling : h[2] = a

\* An answer that was given is in one place at a time, once.
OnePlace ==
  /\ \A i, j \in 1..Len(queue) : queue[i] = queue[j] => i = j
  /\ \A k \in Slot : \A i, j \in 1..Len(up[k]) :
       up[k][i] = up[k][j] /\ up[k][i] \in Answer => i = j
  /\ \A h, g \in handling : h[2] = g[2] => h = g
  /\ \A a \in Answer :
       /\ Queued(a) => ~Handled(a) /\ \A k \in Slot : ~Sent(a, k)
       /\ \A k, l \in Slot : Sent(a, k) /\ Sent(a, l) => k = l
       /\ \A k \in Slot : Sent(a, k) => ~Handled(a)
       /\ Queued(a) \/ Handled(a) \/ (\E k \in Slot : Sent(a, k)) => a \in given /\ stored[a] = 0
       /\ stored[a] > 0 => a \in given
       /\ stored[a] <= 1

\* Frames only go, or come that are no answers.
LEMMA LessUnderWay ==
  ASSUME OnePlace, UNCHANGED <<given, queue, handling, stored>>,
         \A k \in Slot : \A i, j \in 1..Len(up'[k]) :
           up'[k][i] = up'[k][j] /\ up'[k][i] \in Answer => i = j,
         \A a \in Answer, k \in Slot : Sent(a, k)' => Sent(a, k)
  PROVE  OnePlace'
<1>1. \A a : (Queued(a)' <=> Queued(a)) /\ (Handled(a)' <=> Handled(a))
  BY DEF Queued, Handled
<1> QED
  BY <1>1 DEF OnePlace

LEMMA EmptiedUp ==
  ASSUME TypeOK, OnePlace, UNCHANGED <<given, queue, handling, stored>>, NEW k \in Slot,
         up' = [up EXCEPT ![k] = <<>>]
  PROVE  OnePlace'
<1>1. \A l \in Slot : up'[l] = up[l] \/ up'[l] = <<>>
  BY DEF TypeOK
<1>2. \A l \in Slot : \A i, j \in 1..Len(up'[l]) :
        up'[l][i] = up'[l][j] /\ up'[l][i] \in Answer => i = j
  BY <1>1 DEF OnePlace
<1>3. \A a \in Answer, l \in Slot : Sent(a, l)' => Sent(a, l)
  BY <1>1 DEF Sent
<1> QED
  BY <1>2, <1>3, LessUnderWay

LEMMA GoodbyeUp ==
  ASSUME TypeOK, OnePlace, UNCHANGED <<given, queue, handling, stored>>, NEW k \in Slot,
         up' = [up EXCEPT ![k] = Append(@, "bye")]
  PROVE  OnePlace'
<1>1. \A l \in Slot : up[l] \in Seq(Answer \cup Goodbye)
  BY DEF TypeOK
<1>2. /\ \A l \in Slot : l # k => up'[l] = up[l]
      /\ Len(up'[k]) = Len(up[k]) + 1 /\ up'[k][Len(up[k]) + 1] = "bye"
      /\ \A i \in 1..Len(up[k]) : up'[k][i] = up[k][i]
      /\ Len(up[k]) \in Nat
  BY <1>1 DEF TypeOK, Goodbye
<1>3. \A l \in Slot : \A i, j \in 1..Len(up'[l]) :
        up'[l][i] = up'[l][j] /\ up'[l][i] \in Answer => i = j
  <2> SUFFICES ASSUME NEW l \in Slot, NEW i \in 1..Len(up'[l]), NEW j \in 1..Len(up'[l]),
                      up'[l][i] = up'[l][j], up'[l][i] \in Answer
               PROVE  i = j
    OBVIOUS
  <2>1. CASE l # k
    BY <1>2, <2>1 DEF OnePlace
  <2>2. CASE l = k
    BY <1>2, <2>2, ClientParameters DEF OnePlace
  <2> QED
    BY <2>1, <2>2
<1>4. \A a \in Answer, l \in Slot : Sent(a, l)' => Sent(a, l)
  BY <1>2, ClientParameters DEF Sent
<1> QED
  BY <1>3, <1>4, LessUnderWay

LEMMA DrainPlaces ==
  ASSUME TypeOK, OnePlace, NEW q \in Seq(Answer), NEW k, NEW open \in BOOLEAN,
         open => k \in Slot, Drain(q, k, open),
         UNCHANGED <<handling, stored>>, given \subseteq given',
         \A i, j \in 1..Len(q) : q[i] = q[j] => i = j,
         \A i \in 1..Len(q) : /\ q[i] \in given' /\ stored[q[i]] = 0 /\ ~Handled(q[i])
                             /\ \A l \in Slot : ~Sent(q[i], l)
  PROVE  OnePlace'
<1>0. Len(q) \in Nat /\ \A i \in 1..Len(q) : q[i] \in Answer
  OBVIOUS
<1>h. \A a : Handled(a)' <=> Handled(a)
  BY DEF Handled
<1>1. CASE ~open
  <2>1. queue' = q /\ up' = up
    BY <1>1 DEF Drain
  <2>2. \A a : Queued(a)' <=> \E i \in 1..Len(q) : q[i] = a
    BY <2>1 DEF Queued
  <2>3. \A a, l : Sent(a, l)' <=> Sent(a, l)
    BY <2>1 DEF Sent
  <2> QED
    BY <1>0, <1>h, <2>1, <2>2, <2>3 DEF OnePlace
<1>2. CASE open /\ cut[k]
  <2>1. queue' = <<>> /\ up' = up
    BY <1>2 DEF Drain, SendAll
  <2>2. \A a : ~Queued(a)'
    BY <2>1 DEF Queued
  <2>3. \A a, l : Sent(a, l)' <=> Sent(a, l)
    BY <2>1 DEF Sent
  <2>4. \A i, j \in 1..Len(queue') : queue'[i] = queue'[j] => i = j
    BY <2>1
  <2> QED
    BY <1>h, <2>1, <2>2, <2>3, <2>4 DEF OnePlace
<1>3. CASE open /\ ~cut[k]
  <2>1. queue' = <<>> /\ up' = [up EXCEPT ![k] = @ \o q] /\ k \in Slot
    BY <1>3 DEF Drain, SendAll
  <2>2. \A a : ~Queued(a)'
    BY <2>1 DEF Queued
  <2> DEFINE n == Len(up[k])
  <2>3. n \in Nat /\ up[k] \in Seq(Answer \cup Goodbye)
    BY <2>1 DEF TypeOK
  <2>4. /\ \A l \in Slot : l # k => up'[l] = up[l]
        /\ up'[k] = up[k] \o q
    BY <2>1 DEF TypeOK
  <2>5. /\ Len(up'[k]) = n + Len(q)
        /\ \A i \in 1..n : up'[k][i] = up[k][i]
        /\ \A i \in n + 1..n + Len(q) : up'[k][i] = q[i - n]
    BY <2>3, <2>4
  <2>6. \A a, l : l \in Slot /\ l # k => (Sent(a, l)' <=> Sent(a, l))
    BY <2>4 DEF Sent
  <2>7. \A a : Sent(a, k)' => Sent(a, k) \/ \E i \in 1..Len(q) : q[i] = a
    <3> SUFFICES ASSUME NEW a, NEW i \in 1..Len(up'[k]), up'[k][i] = a, ~Sent(a, k)
                 PROVE  \E j \in 1..Len(q) : q[j] = a
      BY DEF Sent
    <3>1. i \notin 1..n
      BY <2>5 DEF Sent
    <3>2. i \in n + 1..n + Len(q) /\ i - n \in 1..Len(q)
      BY <3>1, <2>3, <2>5, <1>0
    <3> QED
      BY <3>2, <2>5
  <2>8. \A l \in Slot : \A i, j \in 1..Len(up'[l]) :
          up'[l][i] = up'[l][j] /\ up'[l][i] \in Answer => i = j
    <3> SUFFICES ASSUME NEW l \in Slot, NEW i \in 1..Len(up'[l]), NEW j \in 1..Len(up'[l]),
                        up'[l][i] = up'[l][j], up'[l][i] \in Answer
                 PROVE  i = j
      OBVIOUS
    <3>1. CASE l # k
      BY <2>4, <3>1 DEF OnePlace
    <3>2. CASE l = k
      <4>1. (i \in 1..n \/ i \in n + 1..n + Len(q)) /\ (j \in 1..n \/ j \in n + 1..n + Len(q))
        BY <1>0, <2>3, <2>5, <3>2
      <4>2. CASE i \in 1..n /\ j \in 1..n
        BY <4>2, <2>5, <3>2 DEF OnePlace
      <4>3. CASE i \in n + 1..n + Len(q) /\ j \in n + 1..n + Len(q)
        <5>1. up'[k][i] = q[i - n] /\ up'[k][j] = q[j - n]
          BY <4>3, <2>5
        <5>2. \A x \in n + 1..n + Len(q) : x \in Int /\ x - n \in 1..Len(q)
          BY <1>0, <2>3
        <5>3. i - n \in 1..Len(q) /\ j - n \in 1..Len(q)
          BY <4>3, <5>2
        <5>4. i - n = j - n
          BY <5>1, <5>3, <3>2
        <5> HIDE DEF n
        <5> QED
          BY <4>3, <5>2, <5>4, <2>3
      <4>4. ASSUME NEW x \in 1..n, NEW y \in n + 1..n + Len(q), up'[k][x] = up'[k][y]
            PROVE  FALSE
        <5>1. up'[k][y] = q[y - n] /\ up'[k][x] = up[k][x]
          BY <2>5
        <5>2. y - n \in 1..Len(q)
          BY <4>4, <1>0, <2>3
        <5> QED
          BY <5>1, <5>2, <4>4, <2>1 DEF Sent
      <4> QED
        BY <4>1, <4>2, <4>3, <4>4, <3>2
    <3> QED
      BY <3>1, <3>2
  <2>9. \A a \in Answer, l \in Slot : Sent(a, l)' =>
          \/ Sent(a, l)
          \/ l = k /\ \E i \in 1..Len(q) : q[i] = a
    BY <2>6, <2>7
  <2>10. \A a \in Answer : \A l, m \in Slot : Sent(a, l)' /\ Sent(a, m)' => l = m
    BY <2>9 DEF OnePlace
  <2>11. \A i, j \in 1..Len(queue') : queue'[i] = queue'[j] => i = j
    BY <2>1
  <2>12. \A a \in Answer : \A l \in Slot : Sent(a, l)' =>
           ~Handled(a) /\ a \in given' /\ stored[a] = 0
    BY <2>9 DEF OnePlace
  <2> HIDE DEF n
  <2> QED
    BY <1>h, <2>2, <2>8, <2>10, <2>11, <2>12 DEF OnePlace
<1> QED
  BY <1>1, <1>2, <1>3

LEMMA TailFacts ==
  ASSUME NEW S, NEW q \in Seq(S), q # <<>>
  PROVE  /\ Len(Tail(q)) = Len(q) - 1
         /\ \A i \in 1..Len(q) - 1 : Tail(q)[i] = q[i + 1]
  OBVIOUS

\* The first frame under way, an answer, reaches the server's end.
LEMMA DeliverPlaces ==
  ASSUME TypeOK, OnePlace, NEW k \in Slot, Deliver(k)
  PROVE  OnePlace'
<1> DEFINE a == Head(up[k])
           n == Len(up[k])
<1>1. /\ up[k] \in Seq(Answer \cup Goodbye) /\ up[k] # <<>> /\ a \in Answer
      /\ up' = [up EXCEPT ![k] = Tail(up[k])]
      /\ UNCHANGED <<given, queue, stored>>
      /\ handling' = handling \/ handling' = handling \cup {<<k, a, "check">>}
  BY DEF Deliver, TypeOK, queueVars, clientVars
<1>2. /\ \A l \in Slot : l # k => up'[l] = up[l]
      /\ up'[k] = Tail(up[k])
  BY <1>1 DEF TypeOK
<1>3. n \in Nat /\ n # 0 /\ a = up[k][1]
  BY <1>1
<1>4. Len(up'[k]) = n - 1 /\ \A i \in 1..n - 1 : up'[k][i] = up[k][i + 1]
  BY <1>1, <1>2, TailFacts
<1>5. Sent(a, k)
  BY <1>3 DEF Sent
<1>6. \A b \in Answer, l \in Slot : Sent(b, l)' => Sent(b, l) /\ ~(b = a)
  <2> SUFFICES ASSUME NEW b \in Answer, NEW l \in Slot, NEW i \in 1..Len(up'[l]), up'[l][i] = b
               PROVE  Sent(b, l) /\ b # a
    BY DEF Sent
  <2>1. CASE l # k
    <3>1. Sent(b, l)
      BY <1>2, <2>1 DEF Sent
    <3> QED
      BY <3>1, <2>1, <1>1, <1>5 DEF OnePlace
  <2>2. CASE l = k
    <3>1. i \in 1..n - 1 /\ up[k][i + 1] = b
      BY <1>4, <2>2
    <3>2. i + 1 \in 1..n /\ 1 \in 1..n /\ i + 1 # 1
      BY <1>3, <3>1
    <3> HIDE DEF n
    <3>3. Sent(b, k)
      BY <3>1, <3>2 DEF Sent, n
    <3>4. b # a
      BY <1>3, <3>1, <3>2 DEF OnePlace, n
    <3> QED
      BY <3>3, <3>4, <2>2
  <2> QED
    BY <2>1, <2>2
<1>7. \A l \in Slot : \A i, j \in 1..Len(up'[l]) :
        up'[l][i] = up'[l][j] /\ up'[l][i] \in Answer => i = j
  <2> SUFFICES ASSUME NEW l \in Slot, NEW i \in 1..Len(up'[l]), NEW j \in 1..Len(up'[l]),
                      up'[l][i] = up'[l][j], up'[l][i] \in Answer
               PROVE  i = j
    OBVIOUS
  <2>1. CASE l # k
    BY <1>2, <2>1 DEF OnePlace
  <2>2. CASE l = k
    <3>1. i \in 1..n - 1 /\ j \in 1..n - 1 /\ up[k][i + 1] = up[k][j + 1]
          /\ up[k][i + 1] \in Answer
      BY <1>4, <2>2
    <3>2. i + 1 \in 1..n /\ j + 1 \in 1..n
      BY <1>3, <3>1
    <3> HIDE DEF n
    <3>3. i + 1 = j + 1
      BY <3>1, <3>2 DEF OnePlace, n
    <3> QED
      BY <3>1, <3>3
  <2> QED
    BY <2>1, <2>2
<1>8. \A b : Queued(b)' <=> Queued(b)
  BY <1>1 DEF Queued
<1>9. \A b : Handled(b)' => Handled(b) \/ b = a
  BY <1>1 DEF Handled
<1>10. \A h, g \in handling' : h[2] = g[2] => h = g
  BY <1>1, <1>5 DEF OnePlace, Handled
<1>11. ~Queued(a) /\ ~Handled(a) /\ a \in given /\ stored[a] = 0
  BY <1>1, <1>5 DEF OnePlace
<1> HIDE DEF a, n
<1> QED
  BY <1>1, <1>6, <1>7, <1>8, <1>9, <1>10, <1>11 DEF OnePlace

\* A handler goes on, ends, or stores its answer.
LEMMA HandlerPlaces ==
  ASSUME TypeOK, OnePlace, NEW h \in handling, Check(h) \/ Put(h) \/ HandlerFails(h)
  PROVE  OnePlace'
<1>1. UNCHANGED <<given, queue, up>> /\ h[2] \in Answer
  BY DEF Check, Put, HandlerFails, queueVars, wireVars, TypeOK
<1>2. (\A a : Queued(a)' <=> Queued(a)) /\ (\A a, k : Sent(a, k)' <=> Sent(a, k))
  BY <1>1 DEF Queued, Sent
<1>3. CASE Check(h) \/ HandlerFails(h)
  <2>1. stored' = stored
        /\ (handling' = handling \ {h}
            \/ handling' = (handling \ {h}) \cup {<<h[1], h[2], "put">>})
    BY <1>3 DEF Check, HandlerFails
  <2>2. \A a : Handled(a)' => Handled(a)
    BY <2>1 DEF Handled
  <2>3. \A f, g \in handling' : f[2] = g[2] => f = g
    BY <2>1 DEF OnePlace
  <2> QED
    BY <1>1, <1>2, <2>1, <2>2, <2>3 DEF OnePlace
<1>4. CASE Put(h)
  <2>1. handling' = handling \ {h} /\ stored' = [stored EXCEPT ![h[2]] = @ + 1]
    BY <1>4 DEF Put
  <2>2. Handled(h[2]) /\ ~Handled(h[2])'
    BY <2>1 DEF Handled, OnePlace
  <2>3. \A a : Handled(a)' => Handled(a)
    BY <2>1 DEF Handled
  <2>4. stored'[h[2]] = 1 /\ h[2] \in given /\ ~Queued(h[2]) /\ \A k \in Slot : ~Sent(h[2], k)
    BY <1>1, <2>1, <2>2 DEF OnePlace, TypeOK
  <2>5. \A a \in Answer : a # h[2] => stored'[a] = stored[a]
    BY <2>1 DEF TypeOK
  <2>6. \A f, g \in handling' : f[2] = g[2] => f = g
    BY <2>1 DEF OnePlace
  <2> QED
    BY <1>1, <1>2, <2>2, <2>3, <2>4, <2>5, <2>6 DEF OnePlace
<1> QED
  BY <1>3, <1>4

LEMMA EnqueuePlaces ==
  ASSUME TypeOK, OnePlace, NEW a \in Answer, Enqueue(a)
  PROVE  OnePlace'
<1> DEFINE open == socket # None /\ near[socket] = "open"
           q == Append(queue, a)
<1>1. /\ q \in Seq(Answer) /\ open \in BOOLEAN /\ (open => socket \in Slot)
      /\ queue \in Seq(Answer)
  BY DEF TypeOK
<1>2. /\ Drain(q, socket, open) /\ a \notin given /\ given' = given \cup {a}
      /\ UNCHANGED <<handling, stored>>
  BY DEF Enqueue, handlerVars
<1>3. /\ Len(q) = Len(queue) + 1 /\ Len(queue) \in Nat /\ q[Len(queue) + 1] = a
      /\ \A i \in 1..Len(queue) : q[i] = queue[i]
  BY <1>1
<1>4. /\ ~Queued(a) /\ ~Handled(a) /\ (\A l \in Slot : ~Sent(a, l))
      /\ stored[a] = 0
  BY <1>2 DEF OnePlace, TypeOK
<1>5. \A i \in 1..Len(queue) : Queued(queue[i]) /\ queue[i] \in Answer
  BY <1>1 DEF Queued
<1> HIDE DEF open, q
<1>6. \A i \in 1..Len(q) : i \in 1..Len(queue) \/ i = Len(queue) + 1
  BY <1>3
<1>7. \A i, j \in 1..Len(q) : q[i] = q[j] => i = j
  BY <1>3, <1>4, <1>5, <1>6 DEF OnePlace
<1>8. \A i \in 1..Len(q) : /\ q[i] \in given' /\ stored[q[i]] = 0 /\ ~Handled(q[i])
                           /\ \A l \in Slot : ~Sent(q[i], l)
  BY <1>2, <1>3, <1>4, <1>5, <1>6 DEF OnePlace
<1> QED
  BY <1>1, <1>2, <1>7, <1>8, DrainPlaces

\* Every step leaves an answer in one place, and stores it from there only.
LEMMA NextPlaces ==
  ASSUME TypeOK, OnePlace, [Next]_vars
  PROVE  OnePlace'
<1> USE DEF clientVars, queueVars, wireVars, handlerVars, hostVars, history
<1>0. ASSUME UNCHANGED <<given, queue, up, handling, stored>> PROVE OnePlace'
  <2>1. (\A a : Queued(a)' <=> Queued(a)) /\ (\A a : Handled(a)' <=> Handled(a))
        /\ (\A a, k : Sent(a, k)' <=> Sent(a, k))
    BY <1>0 DEF Queued, Handled, Sent
  <2> QED
    BY <1>0, <2>1 DEF OnePlace
<1>1. ASSUME NEW k \in Slot, Connect(k) \/ FarClosed(k) \/ Cut(k) PROVE OnePlace'
  BY <1>1, EmptiedUp DEF Connect, FarClosed, Cut
<1>2. ASSUME NEW k \in Slot, ReceiveMessage(k) \/ ReceiveGoodbye(k) PROVE OnePlace'
  <2>1. UNCHANGED <<given, queue, handling, stored>>
        /\ (up' = up \/ up' = [up EXCEPT ![k] = Append(@, "bye")])
    BY <1>2 DEF ReceiveMessage, ReceiveGoodbye, CloseNear
  <2> QED
    BY <2>1, <1>0, GoodbyeUp
<1>3. ASSUME NEW k \in Slot, OpenEvent(k) PROVE OnePlace'
  <2>1. queue \in Seq(Answer) /\ Drain(queue, k, TRUE) /\ UNCHANGED <<given, handling, stored>>
    BY <1>3 DEF OpenEvent, TypeOK
  <2>2. \A i \in 1..Len(queue) : queue[i] \in Answer /\ Queued(queue[i])
    BY <2>1 DEF Queued
  <2>3. /\ \A i, j \in 1..Len(queue) : queue[i] = queue[j] => i = j
        /\ \A i \in 1..Len(queue) : /\ queue[i] \in given' /\ stored[queue[i]] = 0
                                   /\ ~Handled(queue[i])
                                   /\ \A l \in Slot : ~Sent(queue[i], l)
    BY <2>1, <2>2 DEF OnePlace
  <2> QED
    BY <2>1, <2>3, DrainPlaces
<1>4. ASSUME NEW k \in Slot,
             ConnectFails(k) \/ NearCut(k) \/ Accept(k) \/ RejectToken(k) \/ AttachStep(k)
             \/ AttachFails(k)
      PROVE  OnePlace'
  BY <1>0, <1>4 DEF ConnectFails, NearCut, Accept, RejectToken, AttachStep, Admit, BailOut,
     RefuseClosed, Bind, WelcomeRead, SendWelcome, AttachFails, AttachUnchanged
<1>5. ASSUME HostStep \/ Conclude \/ IssueForm \/ SendForm PROVE OnePlace'
  BY <1>0, <1>5 DEF HostStep, BroadcastClosed, DisconnectParticipants, Conclude, IssueForm,
     SendForm, HostUnchanged
<1>6. CASE UNCHANGED vars
  BY <1>0, <1>6 DEF vars
<1> QED
  BY <1>1, <1>2, <1>3, <1>4, <1>5, <1>6, DeliverPlaces, HandlerPlaces, EnqueuePlaces
     DEF Next, PageStep, Fault, HandlerStep

\* An answer is stored at most once, through reconnects and drains of the queue
\* (SubmitQueue.drain, putResponse), for any number of answers, sockets and faults.
THEOREM StoredOnceCorrect == Spec => []StoredOnce
<1>1. Init => OnePlace
  BY DEF Init, OnePlace, Queued, Sent, Handled
<1>2. TypeOK /\ OnePlace /\ [Next]_vars => OnePlace'
  BY NextPlaces
<1>3. OnePlace => StoredOnce
  BY DEF OnePlace, StoredOnce
<1> QED
  BY <1>1, <1>2, <1>3, TypeCorrect, PTL DEF Spec

----------------------------------------------------------------------------
(* How often the client tries.  Every opening starts the count of attempts     *)
(* again, and an opening is followed by a welcome or by an end, unless a fault  *)
(* or the disconnection of the participants is in its way: each of these is an  *)
(* excuse for MaxAttempts more.                                              *)

\* The frames that end an attach in sight of the page.
Decisive == {"welcome", "welcomeClosed", "phaseClosed", "eventClosed", "reject"}

NoGoodbye(d) == \A i \in 1..Len(d) : d[i] \notin Goodbye
EndsOnce(d) == \A i \in 1..Len(d) : d[i] \in Goodbye => i = Len(d)
Decided(d) == \E i \in 1..Len(d) : d[i] \in Decisive /\ \A j \in 1..i - 1 : d[j] # "bye"

Live(k) == near[k] \in {"connecting", "open"}

\* Nothing is sent after a close frame, and none by a page that is live.
Orderly(k) ==
  /\ NoGoodbye(up[k]) /\ EndsOnce(down[k])
  /\ far[k] \in {"closing", "closed"} \/ NoGoodbye(down[k])

\* The attach is still on its way to a welcome or to an end.
Underway(k) ==
  \/ far[k] = "none" /\ at[k] = "none"
  \/ far[k] = "open" /\ at[k] \in {"getEvent", "admitted", "bound", "welcoming"}

Hopeful(k) == ~cut[k] /\ ((Underway(k) /\ NoGoodbye(down[k])) \/ Decided(down[k]))

Excuses == faults + (IF host = "done" THEN 1 ELSE 0)
Spent == MaxAttempts * Excuses
Allowed(k) == IF Hopeful(k) THEN Spent + MaxAttempts ELSE Spent

RetryInv ==
  /\ \A k \in Slot : Live(k) => socket = k /\ Orderly(k)
  /\ \A k \in Slot : near[k] = "closing" => stopped /\ socket = None
  /\ socket # None => Live(socket)
  /\ host # "idle" => closed
  /\ barren <= Spent + MaxAttempts + 1
  /\ socket = None /\ ~stopped => barren <= Spent + attempts
  /\ \A k \in Slot : near[k] = "connecting" => barren + MaxAttempts <= Allowed(k) + attempts
  /\ \A k \in Slot : near[k] = "open" => barren <= Allowed(k)

LEMMA Sending ==
  ASSUME NEW F, NEW d \in Seq(F), NEW e \in Seq(F)
  PROVE  /\ Decided(d) => Decided(d \o e)
         /\ NoGoodbye(d) /\ e # <<>> /\ e[1] \in Decisive => Decided(d \o e)
         /\ NoGoodbye(d) /\ NoGoodbye(e) => NoGoodbye(d \o e)
         /\ NoGoodbye(d) /\ EndsOnce(e) => EndsOnce(d \o e)
<1> DEFINE n == Len(d)
           m == Len(e)
           c == d \o e
<1>1. /\ n \in Nat /\ m \in Nat /\ Len(c) = n + m
      /\ \A i \in 1..n : c[i] = d[i]
      /\ \A i \in 1..m : c[n + i] = e[i]
  OBVIOUS
<1>2. \A i \in 1..Len(c) : i \in 1..n \/ (i - n \in 1..m /\ c[i] = e[i - n])
  <2> SUFFICES ASSUME NEW i \in 1..Len(c), i \notin 1..n
               PROVE  i - n \in 1..m /\ c[i] = e[i - n]
    OBVIOUS
  <2>1. i - n \in 1..m /\ n + (i - n) = i
    BY <1>1
  <2> QED
    BY <1>1, <2>1
<1> HIDE DEF n, m, c
<1>3. Decided(d) => Decided(c)
  <2> SUFFICES ASSUME NEW i \in 1..n, d[i] \in Decisive, \A j \in 1..i - 1 : d[j] # "bye"
               PROVE  Decided(c)
    BY DEF Decided, n
  <2>1. i \in 1..Len(c) /\ \A j \in 1..i - 1 : j \in 1..n
    BY <1>1
  <2> QED
    BY <1>1, <2>1 DEF Decided
<1>4. NoGoodbye(d) /\ e # <<>> /\ e[1] \in Decisive => Decided(c)
  <2> SUFFICES ASSUME NoGoodbye(d), e # <<>>, e[1] \in Decisive
               PROVE  Decided(c)
    OBVIOUS
  <2>1. m # 0
    BY DEF m
  <2>2. n + 1 \in 1..Len(c) /\ c[n + 1] = e[1] /\ (n + 1) - 1 = n
    BY <1>1, <2>1
  <2>3. \A j \in 1..n : c[j] # "bye"
    BY <1>1 DEF NoGoodbye, Goodbye, n
  <2> QED
    BY <2>2, <2>3 DEF Decided
<1>5. NoGoodbye(d) /\ NoGoodbye(e) => NoGoodbye(c)
  BY <1>1, <1>2 DEF NoGoodbye, n, m
<1>6. NoGoodbye(d) /\ EndsOnce(e) => EndsOnce(c)
  <2> SUFFICES ASSUME NoGoodbye(d), EndsOnce(e), NEW i \in 1..Len(c), c[i] \in Goodbye
               PROVE  i = Len(c)
    BY DEF EndsOnce
  <2>1. i \notin 1..n
    BY <1>1 DEF NoGoodbye, n
  <2>2. i - n = m
    BY <1>2, <2>1 DEF EndsOnce, m
  <2> QED
    BY <1>1, <2>2
<1> QED
  BY <1>3, <1>4, <1>5, <1>6 DEF c

LEMMA Reading ==
  ASSUME NEW F, NEW d \in Seq(F), d # <<>>
  PROVE  /\ NoGoodbye(d) => NoGoodbye(Tail(d))
         /\ EndsOnce(d) => EndsOnce(Tail(d))
         /\ Decided(d) /\ Head(d) \notin Decisive => Decided(Tail(d))
         /\ EndsOnce(d) /\ Head(d) \in Goodbye => Last(d) = Head(d)
         /\ Decided(d) => Head(d) # "bye"
         /\ Head(d) \in Goodbye => ~NoGoodbye(d)
<1> DEFINE t == Tail(d)
           n == Len(d)
<1>1. /\ n \in Nat /\ n # 0 /\ Len(t) = n - 1 /\ Head(d) = d[1] /\ 1 \in 1..n
      /\ \A i \in 1..n - 1 : t[i] = d[i + 1] /\ i + 1 \in 1..n
  BY TailFacts
<1> HIDE DEF t, n
<1>2. NoGoodbye(d) => NoGoodbye(t)
  BY <1>1 DEF NoGoodbye, n
<1>3. EndsOnce(d) => EndsOnce(t)
  BY <1>1 DEF EndsOnce, n
<1>4. Decided(d) /\ Head(d) \notin Decisive => Decided(t)
  <2> SUFFICES ASSUME NEW i \in 1..n, d[i] \in Decisive, \A j \in 1..i - 1 : d[j] # "bye",
                      Head(d) \notin Decisive
               PROVE  Decided(t)
    BY DEF Decided, n
  <2>1. i # 1
    BY <1>1
  <2>2. i - 1 \in 1..n - 1 /\ i - 1 \in 1..Len(t) /\ t[i - 1] = d[i]
    BY <1>1, <2>1
  <2>3. \A j \in 1..(i - 1) - 1 : j + 1 \in 1..i - 1 /\ t[j] = d[j + 1]
    BY <1>1, <2>2
  <2>4. \A j \in 1..(i - 1) - 1 : t[j] # "bye"
    BY <2>3
  <2> QED
    BY <2>2, <2>4 DEF Decided
<1>5. EndsOnce(d) /\ Head(d) \in Goodbye => Last(d) = Head(d)
  BY <1>1 DEF EndsOnce, Last, n
<1>6. Decided(d) => Head(d) # "bye"
  <2> SUFFICES ASSUME NEW i \in 1..n, d[i] \in Decisive, \A j \in 1..i - 1 : d[j] # "bye"
               PROVE  Head(d) # "bye"
    BY DEF Decided, n
  <2>1. CASE i = 1
    BY <1>1, <2>1 DEF Decisive
  <2>2. CASE i # 1
    <3>1. 1 \in 1..i - 1
      BY <1>1, <2>2
    <3> QED
      BY <1>1, <3>1
  <2> QED
    BY <2>1, <2>2
<1>7. Head(d) \in Goodbye => ~NoGoodbye(d)
  BY <1>1 DEF NoGoodbye, n
<1> QED
  BY <1>2, <1>3, <1>4, <1>5, <1>6, <1>7 DEF t

LEMMA Arithmetic ==
  ASSUME NEW m \in Nat, NEW e \in Nat
  PROVE  m * e \in Nat /\ m * (e + 1) = m * e + m
  OBVIOUS

LEMMA Sums ==
  ASSUME NEW x \in Nat, NEW y \in Nat, y >= x, NEW b \in Nat, NEW n \in Nat
  PROVE  /\ b <= x + n => b <= y + n
         /\ b <= x + n + 1 => b <= y + n + 1
  OBVIOUS

\* What the page holds stays, and an excuse comes or every hopeful socket stays so.
LEMMA KeepRetry ==
  ASSUME TypeOK, RetryInv, UNCHANGED <<socket, attempts, stopped, near, barren>>,
         Excuses' = Excuses \/ Excuses' = Excuses + 1,
         host' # "idle" => closed',
         \A k \in Slot : Live(k) => Orderly(k)',
         Excuses' = Excuses => \A k \in Slot : Live(k) /\ Hopeful(k) => Hopeful(k)'
  PROVE  RetryInv'
<1>1. Excuses \in Nat
  BY DEF TypeOK, Excuses
<1>2. Spent \in Nat /\ (Spent' = Spent \/ (Spent' = Spent + MaxAttempts /\ Excuses' # Excuses))
  BY <1>1, Arithmetic, ClientParameters DEF Spent
<1>3. \A k \in Slot : Live(k)' <=> Live(k)
  BY DEF Live
<1>4. \A k \in Slot : Live(k) => Allowed(k)' >= Allowed(k)
  <2> SUFFICES ASSUME NEW k \in Slot, Live(k) PROVE Allowed(k)' >= Allowed(k)
    OBVIOUS
  <2>1. /\ Allowed(k) \in {Spent, Spent + MaxAttempts}
        /\ Hopeful(k)' => Allowed(k)' = Spent' + MaxAttempts
        /\ ~Hopeful(k)' => Allowed(k)' = Spent'
        /\ ~Hopeful(k) => Allowed(k) = Spent
    BY DEF Allowed
  <2>2. CASE Spent' = Spent + MaxAttempts
    BY <1>2, <2>1, <2>2, ClientParameters
  <2>3. CASE Spent' = Spent /\ Excuses' = Excuses
    BY <1>2, <2>1, <2>3, ClientParameters
  <2>4. CASE Spent' = Spent /\ Excuses' = Excuses + 1
    <3>1. MaxAttempts = 0
      BY <1>1, <1>2, <2>4, Arithmetic, ClientParameters DEF Spent
    <3> QED
      BY <1>2, <2>1, <2>4, <3>1
  <2> QED
    BY <1>2, <2>2, <2>3, <2>4
<1>5. \A k \in Slot : Allowed(k) \in Nat
  BY <1>2, ClientParameters DEF Allowed
<1>6. \A k \in Slot : Allowed(k)' \in Nat
  BY <1>2, ClientParameters DEF Allowed
<1>7. /\ attempts \in Nat /\ barren \in Nat /\ Spent' >= Spent /\ Spent' \in Nat
      /\ barren' = barren /\ attempts' = attempts /\ socket' = socket /\ stopped' = stopped
  BY <1>2, ClientParameters DEF TypeOK
<1>8. socket # None => Live(socket)'
  BY DEF RetryInv, Live
<1>9. barren' <= Spent' + MaxAttempts + 1
  <2>1. barren <= Spent + MaxAttempts + 1
    BY DEF RetryInv
  <2>2. Spent \in Nat /\ Spent' \in Nat /\ Spent' >= Spent /\ MaxAttempts \in Nat /\ barren \in Nat
    BY <1>2, <1>7, ClientParameters
  <2>3. barren <= Spent' + MaxAttempts + 1
    BY <2>1, <2>2, Sums
  <2> QED
    BY <1>7, <2>3
<1>10. socket' = None /\ ~stopped' => barren' <= Spent' + attempts'
  <2>1. socket = None /\ ~stopped => barren <= Spent + attempts
    BY DEF RetryInv
  <2>2. Spent \in Nat /\ Spent' \in Nat /\ Spent' >= Spent /\ attempts \in Nat /\ barren \in Nat
    BY <1>2, <1>7
  <2>3. barren <= Spent + attempts => barren <= Spent' + attempts
    BY <2>2, Sums
  <2>4. socket' = None /\ ~stopped' => barren' <= Spent + attempts
    BY <1>7, <2>1
  <2> QED
    BY <1>7, <2>3, <2>4
<1>11. \A k \in Slot : near'[k] = "connecting" => barren' + MaxAttempts <= Allowed(k)' + attempts'
  BY <1>4, <1>5, <1>6, <1>7, ClientParameters DEF RetryInv, Live
<1>12. \A k \in Slot : near'[k] = "open" => barren' <= Allowed(k)'
  BY <1>4, <1>5, <1>6, <1>7 DEF RetryInv, Live
<1> QED
  BY <1>3, <1>8, <1>9, <1>10, <1>11, <1>12 DEF RetryInv

LEMMA SameSlot ==
  ASSUME NEW l \in Slot, up'[l] = up[l], down'[l] = down[l], cut'[l] = cut[l],
         far'[l] = far[l], at'[l] = at[l]
  PROVE  (Orderly(l)' <=> Orderly(l)) /\ (Hopeful(l)' <=> Hopeful(l))
  BY DEF Orderly, Hopeful, Underway

\* One socket moves on, on the server's side.
LEMMA SlotRetry ==
  ASSUME TypeOK, RetryInv, UNCHANGED <<socket, attempts, stopped, near, barren, host, closed>>,
         faults' = faults \/ faults' = faults + 1,
         NEW k \in Slot,
         \A l \in Slot : l # k => /\ up'[l] = up[l] /\ down'[l] = down[l] /\ cut'[l] = cut[l]
                                  /\ far'[l] = far[l] /\ at'[l] = at[l],
         Live(k) => Orderly(k)',
         faults' = faults => (Live(k) /\ Hopeful(k) => Hopeful(k)')
  PROVE  RetryInv'
<1>1. /\ Excuses' = Excuses \/ Excuses' = Excuses + 1
      /\ Excuses' = Excuses => faults' = faults
  BY DEF Excuses, TypeOK
<1>2. \A l \in Slot : l # k => (Orderly(l)' <=> Orderly(l)) /\ (Hopeful(l)' <=> Hopeful(l))
  BY SameSlot
<1>3. \A l \in Slot : Live(l) => Orderly(l)'
  BY <1>2 DEF RetryInv
<1>4. Excuses' = Excuses => \A l \in Slot : Live(l) /\ Hopeful(l) => Hopeful(l)'
  BY <1>1, <1>2
<1>5. host' # "idle" => closed'
  BY DEF RetryInv
<1> QED
  BY <1>1, <1>3, <1>4, <1>5, KeepRetry

\* Frames follow on a socket that had no close frame yet.
LEMMA OrderlySend ==
  ASSUME TypeOK, NEW k \in Slot, NEW frames \in Seq(Message \cup Goodbye), Send(k, frames),
         Orderly(k), NoGoodbye(down[k]), EndsOnce(frames), up'[k] \in {up[k], <<>>},
         far'[k] \in {"closing", "closed"} \/ NoGoodbye(frames)
  PROVE  /\ Orderly(k)'
         /\ \A l \in Slot : l # k => down'[l] = down[l]
         /\ ~cut[k] /\ Decided(down[k]) => Decided(down'[k])
         /\ ~cut[k] /\ frames # <<>> /\ frames[1] \in Decisive => Decided(down'[k])
         /\ NoGoodbye(frames) => NoGoodbye(down'[k])
<1>1. down[k] \in Seq(Message \cup Goodbye)
  BY DEF TypeOK
<1>2. /\ down'[k] = IF cut[k] THEN down[k] ELSE down[k] \o frames
      /\ \A l \in Slot : l # k => down'[l] = down[l]
  BY DEF Send, TypeOK
<1>3. NoGoodbye(up'[k])
  BY DEF Orderly, NoGoodbye
<1>4. EndsOnce(down'[k]) /\ (NoGoodbye(frames) => NoGoodbye(down'[k]))
  BY <1>1, <1>2, Sending DEF Orderly
<1>5. Orderly(k)'
  BY <1>3, <1>4 DEF Orderly
<1>6. /\ ~cut[k] /\ Decided(down[k]) => Decided(down'[k])
      /\ ~cut[k] /\ frames # <<>> /\ frames[1] \in Decisive => Decided(down'[k])
  BY <1>1, <1>2, Sending
<1> QED
  BY <1>2, <1>4, <1>5, <1>6

LEMMA Frames ==
  /\ \A f \in Message \cup Goodbye :
       /\ <<f>> \in Seq(Message \cup Goodbye) /\ <<f>> # <<>> /\ <<f>>[1] = f
       /\ EndsOnce(<<f>>) /\ (f \in Message => NoGoodbye(<<f>>))
  /\ \A f \in Message : LET e == <<f, "bye">> IN
       /\ e \in Seq(Message \cup Goodbye) /\ e # <<>> /\ e[1] = f /\ EndsOnce(e)
<1>1. Message \cap Goodbye = {} /\ "bye" \in Goodbye
  BY DEF Message, Goodbye
<1>2. ASSUME NEW f \in Message \cup Goodbye
      PROVE  /\ <<f>> \in Seq(Message \cup Goodbye) /\ <<f>> # <<>> /\ <<f>>[1] = f
             /\ EndsOnce(<<f>>) /\ (f \in Message => NoGoodbye(<<f>>))
  <2>1. /\ <<f>> \in Seq(Message \cup Goodbye) /\ <<f>> # <<>> /\ <<f>>[1] = f
        /\ Len(<<f>>) = 1
    OBVIOUS
  <2>2. \A j \in 1..Len(<<f>>) : j = 1
    BY <2>1
  <2> QED
    BY <1>1, <2>1, <2>2 DEF EndsOnce, NoGoodbye
<1>3. ASSUME NEW f \in Message
      PROVE  LET e == <<f, "bye">> IN
               e \in Seq(Message \cup Goodbye) /\ e # <<>> /\ e[1] = f /\ EndsOnce(e)
  <2> DEFINE e == <<f, "bye">>
  <2>1. /\ e \in Seq(Message \cup Goodbye) /\ e # <<>> /\ e[1] = f /\ Len(e) = 2
    BY <1>1
  <2>2. \A j \in 1..Len(e) : j = 1 \/ j = 2
    BY <2>1
  <2> HIDE DEF e
  <2>3. EndsOnce(e)
    BY <1>1, <2>1, <2>2 DEF EndsOnce
  <2> QED
    BY <2>1, <2>3 DEF e
<1> QED
  BY <1>2, <1>3

\* The attach ends with frames, the first of which the page takes for an answer.
LEMMA CloseRetry ==
  ASSUME TypeOK, RetryInv, NEW k \in Slot, NEW frames \in Seq(Message \cup Goodbye),
         EndsOnce(frames), frames # <<>>, CloseFar(k, frames),
         UNCHANGED <<socket, attempts, stopped, near, barren, host, closed, up, cut>>,
         at[k] # "none", \A l \in Slot : l # k => at'[l] = at[l],
         faults' = faults + 1 \/ (faults' = faults /\ frames[1] \in Decisive)
  PROVE  RetryInv'
<1>1. CASE far[k] # "open"
  <2>1. UNCHANGED <<far, down>>
    BY <1>1 DEF CloseFar
  <2>2. Live(k) => Orderly(k)'
    BY <2>1 DEF RetryInv, Orderly
  <2>3. Hopeful(k) => Hopeful(k)'
    BY <1>1, <2>1 DEF Hopeful, Underway
  <2> QED
    BY <2>1, <2>2, <2>3, SlotRetry
<1>2. CASE far[k] = "open"
  <2>1. Send(k, frames) /\ far' = [far EXCEPT ![k] = "closing"]
    BY <1>2 DEF CloseFar
  <2>2. far'[k] = "closing" /\ \A l \in Slot : l # k => far'[l] = far[l]
    BY <2>1 DEF TypeOK
  <2>3. \A l \in Slot : l # k => down'[l] = down[l]
    BY <2>1 DEF Send, TypeOK
  <2>4. Live(k) => Orderly(k) /\ NoGoodbye(down[k])
    BY <1>2 DEF RetryInv, Orderly
  <2>5. Live(k) => Orderly(k)'
    BY <2>1, <2>2, <2>4, OrderlySend
  <2>6. faults' = faults => (Live(k) /\ Hopeful(k) => Hopeful(k)')
    <3>1. faults' = faults => frames[1] \in Decisive
      BY DEF TypeOK
    <3>2. Live(k) /\ ~cut[k] /\ frames[1] \in Decisive => Decided(down'[k])
      BY <2>1, <2>2, <2>4, OrderlySend
    <3> QED
      BY <3>1, <3>2 DEF Hopeful
  <2> QED
    BY <2>2, <2>3, <2>5, <2>6, SlotRetry
<1> QED
  BY <1>1, <1>2

LEMMA GatewayRetry ==
  ASSUME TypeOK, RetryInv, NEW k \in Slot,
         Accept(k) \/ RejectToken(k) \/ AttachStep(k) \/ AttachFails(k) \/ FarClosed(k)
         \/ Cut(k) \/ Deliver(k)
  PROVE  RetryInv'
<1> USE DEF clientVars, queueVars, wireVars, handlerVars, hostVars, history, AttachUnchanged
<1>t. /\ "bye" \in Goodbye /\ "reject" \in Goodbye /\ "eventClosed" \in Message
      /\ "welcome" \in Message /\ "welcomeClosed" \in Message
      /\ {"reject", "eventClosed", "welcome", "welcomeClosed"} \subseteq Decisive
  BY DEF Goodbye, Message, Decisive
<1>o. Live(k) => Orderly(k)
  BY DEF RetryInv
<1>1. CASE Accept(k)
  <2>1. /\ far[k] = "none" /\ far'[k] = "open" /\ at'[k] = "getEvent"
        /\ \A l \in Slot : l # k => far'[l] = far[l] /\ at'[l] = at[l]
        /\ UNCHANGED <<socket, attempts, stopped, near, barren, host, closed, up, cut, down, faults>>
    BY <1>1 DEF Accept, TypeOK
  <2>2. Live(k) => Orderly(k)'
    BY <1>o, <2>1 DEF Orderly
  <2>3. Live(k) /\ Hopeful(k) => Hopeful(k)'
    BY <1>o, <2>1 DEF Orderly, Hopeful, Underway
  <2> QED
    BY <2>1, <2>2, <2>3, SlotRetry
<1>2. CASE RejectToken(k)
  <2>1. /\ at[k] # "none" /\ (\A l \in Slot : l # k => at'[l] = at[l])
        /\ CloseFar(k, <<"reject">>)
        /\ UNCHANGED <<socket, attempts, stopped, near, barren, host, closed, up, cut, faults>>
    BY <1>2 DEF RejectToken, TypeOK
  <2> QED
    BY <1>t, <2>1, Frames, CloseRetry
<1>3. CASE Admit(k) \/ BailOut(k) \/ Bind(k) \/ WelcomeRead(k)
  <2>1. /\ \A l \in Slot : l # k => at'[l] = at[l]
        /\ UNCHANGED <<socket, attempts, stopped, near, barren, host, closed, up, cut, down, far,
                       faults>>
        /\ at[k] # "none"
        /\ far[k] = "closed" \/ at'[k] \in {"admitted", "bound", "welcoming"}
    BY <1>3 DEF Admit, BailOut, Bind, WelcomeRead, TypeOK
  <2>2. Live(k) => Orderly(k)'
    BY <1>o, <2>1 DEF Orderly
  <2>3. Live(k) /\ Hopeful(k) => Hopeful(k)'
    BY <2>1 DEF Hopeful, Underway
  <2> QED
    BY <2>1, <2>2, <2>3, SlotRetry
<1>4. CASE RefuseClosed(k)
  <2>1. /\ at[k] # "none" /\ (\A l \in Slot : l # k => at'[l] = at[l])
        /\ CloseFar(k, <<"eventClosed", "bye">>)
        /\ UNCHANGED <<socket, attempts, stopped, near, barren, host, closed, up, cut, faults>>
    BY <1>4 DEF RefuseClosed, TypeOK
  <2>2. /\ <<"eventClosed", "bye">> \in Seq(Message \cup Goodbye)
        /\ <<"eventClosed", "bye">> # <<>> /\ <<"eventClosed", "bye">>[1] = "eventClosed"
        /\ EndsOnce(<<"eventClosed", "bye">>)
    BY <1>t, Frames
  <2> QED
    BY <1>t, <2>1, <2>2, CloseRetry
<1>5. CASE SendWelcome(k)
  <2>1. /\ at[k] = "welcoming" /\ (\A l \in Slot : l # k => at'[l] = at[l])
        /\ UNCHANGED <<socket, attempts, stopped, near, barren, host, closed, up, cut, far, faults>>
    BY <1>5 DEF SendWelcome, TypeOK
  <2>2. CASE far[k] # "open"
    <3>1. down' = down
      BY <1>5, <2>2 DEF SendWelcome
    <3>2. Live(k) => Orderly(k)'
      BY <1>o, <2>1, <3>1 DEF Orderly
    <3>3. Live(k) /\ Hopeful(k) => Hopeful(k)'
      BY <2>1, <2>2, <3>1 DEF Hopeful, Underway
    <3> QED
      BY <2>1, <3>1, <3>2, <3>3, SlotRetry
  <2>3. CASE far[k] = "open"
    <3>1. PICK f \in {"welcome", "welcomeClosed"} : Send(k, <<f>>)
      BY <1>5, <2>3 DEF SendWelcome
    <3>2. f \in Message /\ f \in Decisive
      BY <1>t
    <3>3. /\ <<f>> \in Seq(Message \cup Goodbye) /\ <<f>> # <<>> /\ <<f>>[1] = f
          /\ EndsOnce(<<f>>) /\ NoGoodbye(<<f>>)
      BY <3>2, Frames
    <3>4. Live(k) => NoGoodbye(down[k])
      BY <1>o, <2>3 DEF Orderly
    <3>5. \A l \in Slot : l # k => down'[l] = down[l]
      BY <3>1 DEF Send, TypeOK
    <3>6. up'[k] = up[k]
      BY <2>1
    <3>7. Live(k) => Orderly(k)' /\ (~cut[k] => Decided(down'[k]))
      BY <1>o, <3>1, <3>2, <3>3, <3>4, <3>6, OrderlySend
    <3>8. Live(k) /\ Hopeful(k) => Hopeful(k)'
      BY <2>1, <3>7 DEF Hopeful
    <3> QED
      BY <2>1, <3>5, <3>7, <3>8, SlotRetry
  <2> QED
    BY <2>2, <2>3
<1>6. CASE AttachFails(k)
  <2>1. /\ at[k] # "none" /\ (\A l \in Slot : l # k => at'[l] = at[l])
        /\ CloseFar(k, <<"bye">>) /\ faults' = faults + 1
        /\ UNCHANGED <<socket, attempts, stopped, near, barren, host, closed, up, cut>>
    BY <1>6 DEF AttachFails, TypeOK
  <2> QED
    BY <1>t, <2>1, Frames, CloseRetry
<1>7. CASE FarClosed(k)
  <2>1. /\ far'[k] = "closed" /\ up'[k] = <<>>
        /\ \A l \in Slot : l # k => far'[l] = far[l] /\ up'[l] = up[l]
        /\ UNCHANGED <<socket, attempts, stopped, near, barren, host, closed, cut, at, faults>>
        /\ up[k] \in Seq(Answer \cup Goodbye)
        /\ cut[k] \/ (up[k] # <<>> /\ Head(up[k]) \in Goodbye)
    BY <1>7 DEF FarClosed, TypeOK
  <2>2. Live(k) => cut[k]
    BY <1>o, <2>1, Reading DEF Orderly
  <2>3. Send(k, <<"bye">>) \/ down' = down
    BY <1>7 DEF FarClosed
  <2>4. /\ \A l \in Slot : l # k => down'[l] = down[l]
        /\ cut[k] => down'[k] = down[k]
    BY <2>3 DEF Send, TypeOK
  <2>5. NoGoodbye(<<>>)
    BY DEF NoGoodbye
  <2>6. Live(k) => Orderly(k)'
    BY <1>o, <2>1, <2>2, <2>4, <2>5 DEF Orderly
  <2>7. Live(k) => ~Hopeful(k)
    BY <2>2 DEF Hopeful
  <2> QED
    BY <2>1, <2>4, <2>6, <2>7, SlotRetry
<1>8. CASE Cut(k)
  <2>1. /\ up'[k] = <<>> /\ down'[k] = <<>> /\ faults' = faults + 1
        /\ \A l \in Slot : l # k => cut'[l] = cut[l] /\ up'[l] = up[l] /\ down'[l] = down[l]
        /\ UNCHANGED <<socket, attempts, stopped, near, barren, host, closed, far, at>>
    BY <1>8 DEF Cut, TypeOK
  <2>2. NoGoodbye(<<>>) /\ EndsOnce(<<>>)
    BY DEF NoGoodbye, EndsOnce
  <2>3. Orderly(k)'
    BY <2>1, <2>2 DEF Orderly
  <2>4. faults' # faults
    BY <2>1 DEF TypeOK
  <2> QED
    BY <2>1, <2>3, <2>4, SlotRetry
<1>9. CASE Deliver(k)
  <2>1. /\ up[k] # <<>> /\ up'[k] = Tail(up[k]) /\ up[k] \in Seq(Answer \cup Goodbye)
        /\ \A l \in Slot : l # k => up'[l] = up[l]
        /\ UNCHANGED <<socket, attempts, stopped, near, barren, host, closed, far, at, cut, down,
                       faults>>
    BY <1>9 DEF Deliver, TypeOK
  <2>2. NoGoodbye(up[k]) => NoGoodbye(up'[k])
    BY <2>1, Reading
  <2>3. Live(k) => Orderly(k)'
    BY <1>o, <2>1, <2>2 DEF Orderly
  <2>4. Hopeful(k) => Hopeful(k)'
    BY <2>1 DEF Hopeful, Underway
  <2> QED
    BY <2>1, <2>3, <2>4, SlotRetry
<1> QED
  BY <1>1, <1>2, <1>3, <1>4, <1>5, <1>6, <1>7, <1>8, <1>9 DEF AttachStep

LEMMA HandlerRetry ==
  ASSUME TypeOK, RetryInv, NEW h \in handling, Check(h) \/ Put(h) \/ HandlerFails(h)
  PROVE  RetryInv'
<1> USE DEF clientVars, queueVars, wireVars, handlerVars, hostVars, history
<1> DEFINE k == h[1]
<1>1. k \in Slot /\ "eventClosed" \in Message /\ "eventClosed" \in Decisive
  BY DEF TypeOK, Message, Decisive
<1>2. /\ UNCHANGED <<socket, attempts, stopped, near, barren, host, closed, up, cut, far, at>>
      /\ faults' = faults \/ faults' = faults + 1
  BY DEF Check, Put, HandlerFails
<1>3. Live(k) => Orderly(k)
  BY <1>1 DEF RetryInv
<1> HIDE DEF k
<1>4. CASE down' = down
  <2>1. Live(k) => Orderly(k)'
    BY <1>2, <1>3, <1>4 DEF Orderly
  <2>2. Hopeful(k) => Hopeful(k)'
    BY <1>2, <1>4 DEF Hopeful, Underway
  <2> QED
    BY <1>1, <1>2, <1>4, <2>1, <2>2, SlotRetry
<1>5. CASE far[k] = "open" /\ Send(k, <<"eventClosed">>)
  <2>1. /\ <<"eventClosed">> \in Seq(Message \cup Goodbye) /\ <<"eventClosed">> # <<>>
        /\ <<"eventClosed">>[1] = "eventClosed"
        /\ EndsOnce(<<"eventClosed">>) /\ NoGoodbye(<<"eventClosed">>)
    BY <1>1, Frames
  <2>2. Live(k) => NoGoodbye(down[k])
    BY <1>3, <1>5 DEF Orderly
  <2>3. Live(k) => Orderly(k)' /\ (~cut[k] => Decided(down'[k]))
    BY <1>1, <1>2, <1>3, <1>5, <2>1, <2>2, OrderlySend
  <2>4. \A l \in Slot : l # k => down'[l] = down[l]
    BY <1>1, <1>5 DEF Send, TypeOK
  <2>5. Live(k) /\ Hopeful(k) => Hopeful(k)'
    BY <1>2, <2>3 DEF Hopeful
  <2> QED
    BY <1>1, <1>2, <2>3, <2>4, <2>5, SlotRetry
<1> QED
  BY <1>4, <1>5 DEF Check, Put, HandlerFails, k

LEMMA Appended ==
  ASSUME NEW F, NEW d \in Seq(F), NEW x \in F
  PROVE  Append(d, x) = d \o <<x>>
  OBVIOUS

\* A frame goes to every participant that is attached, the last one before the
\* close of the server's ends.
LEMMA ToParticipantsRetry ==
  ASSUME TypeOK, RetryInv, NEW frame \in Message \cup Goodbye, ToParticipants(frame),
         UNCHANGED <<up, cut, at>>,
         \/ frame \in Message /\ far' = far
         \/ far' = [k \in Slot |->
                      IF at[k] \in Listening /\ far[k] = "open" THEN "closing" ELSE far[k]]
  PROVE  /\ \A k \in Slot : Live(k) => Orderly(k)'
         /\ frame \in Message /\ far' = far =>
              \A k \in Slot : Live(k) /\ Hopeful(k) => Hopeful(k)'
<1> SUFFICES ASSUME NEW k \in Slot, Live(k)
             PROVE  Orderly(k)' /\ (frame \in Message /\ far' = far /\ Hopeful(k) => Hopeful(k)')
  OBVIOUS
<1>1. Orderly(k) /\ down[k] \in Seq(Message \cup Goodbye)
  BY DEF RetryInv, TypeOK
<1>2. far'[k] = far[k] \/ far'[k] = "closing"
  BY DEF TypeOK
<1>3. CASE at[k] \in Listening /\ far[k] = "open" /\ ~cut[k]
  <2>1. /\ <<frame>> \in Seq(Message \cup Goodbye) /\ EndsOnce(<<frame>>)
        /\ frame \in Message => NoGoodbye(<<frame>>)
    BY Frames
  <2>2. down'[k] = down[k] \o <<frame>>
    BY <1>1, <1>3, Appended DEF ToParticipants
  <2>3. NoGoodbye(down[k])
    BY <1>1, <1>3 DEF Orderly
  <2>4. /\ EndsOnce(down'[k]) /\ (Decided(down[k]) => Decided(down'[k]))
        /\ frame \in Message => NoGoodbye(down'[k])
    BY <1>1, <2>1, <2>2, <2>3, Sending
  <2>5. far'[k] = "closing" \/ frame \in Message
    BY <1>3 DEF TypeOK
  <2>6. Orderly(k)'
    BY <1>1, <2>4, <2>5 DEF Orderly
  <2>7. frame \in Message /\ far' = far /\ Hopeful(k) => Hopeful(k)'
    BY <2>4 DEF Hopeful, Underway
  <2> QED
    BY <2>6, <2>7
<1>4. CASE ~(at[k] \in Listening /\ far[k] = "open" /\ ~cut[k])
  <2>1. down'[k] = down[k]
    BY <1>4 DEF ToParticipants
  <2>2. Orderly(k)'
    BY <1>1, <1>2, <2>1 DEF Orderly
  <2>3. far' = far /\ Hopeful(k) => Hopeful(k)'
    BY <2>1 DEF Hopeful, Underway
  <2> QED
    BY <2>2, <2>3
<1> QED
  BY <1>3, <1>4

LEMMA HostRetry ==
  ASSUME TypeOK, RetryInv, HostStep \/ Conclude \/ IssueForm \/ SendForm
  PROVE  RetryInv'
<1> USE DEF clientVars, queueVars, wireVars, handlerVars, hostVars, history, HostUnchanged
<1>0. /\ UNCHANGED <<socket, attempts, stopped, near, barren, up, cut, at, faults>>
      /\ host' # "idle" => closed'
  BY DEF HostStep, BroadcastClosed, DisconnectParticipants, Conclude, IssueForm, SendForm, RetryInv
<1>1. CASE Conclude \/ IssueForm
  <2>1. UNCHANGED <<down, far>> /\ (host' = "done" <=> host = "done")
    BY <1>1 DEF Conclude, IssueForm
  <2>2. Excuses' = Excuses
    BY <1>0, <2>1 DEF Excuses
  <2>3. \A k \in Slot : (Orderly(k)' <=> Orderly(k)) /\ (Hopeful(k)' <=> Hopeful(k))
    BY <1>0, <2>1, SameSlot
  <2>4. \A k \in Slot : Live(k) => Orderly(k)'
    BY <2>3 DEF RetryInv
  <2> QED
    BY <1>0, <2>2, <2>3, <2>4, KeepRetry
<1>2. CASE BroadcastClosed \/ SendForm
  <2>1. PICK f \in {"phaseClosed", "form"} : ToParticipants(f)
    BY <1>2 DEF BroadcastClosed, SendForm
  <2>2. f \in Message
    BY DEF Message
  <2>3. far' = far /\ (host' = "done" <=> host = "done")
    BY <1>2 DEF BroadcastClosed, SendForm
  <2>4. Excuses' = Excuses
    BY <1>0, <2>3 DEF Excuses
  <2>5. /\ \A k \in Slot : Live(k) => Orderly(k)'
        /\ \A k \in Slot : Live(k) /\ Hopeful(k) => Hopeful(k)'
    BY <1>0, <2>1, <2>2, <2>3, ToParticipantsRetry
  <2> QED
    BY <1>0, <2>4, <2>5, KeepRetry
<1>3. CASE DisconnectParticipants
  <2>1. /\ host = "disconnect" /\ host' = "done" /\ ToParticipants("bye")
        /\ far' = [k \in Slot |->
                     IF at[k] \in Listening /\ far[k] = "open" THEN "closing" ELSE far[k]]
    BY <1>3 DEF DisconnectParticipants
  <2>2. Excuses' = Excuses + 1 /\ Excuses' # Excuses
    BY <1>0, <2>1 DEF Excuses, TypeOK
  <2>3. \A k \in Slot : Live(k) => Orderly(k)'
    BY <1>0, <2>1, ToParticipantsRetry DEF Goodbye
  <2> QED
    BY <1>0, <2>2, <2>3, KeepRetry
<1> QED
  BY <1>1, <1>2, <1>3 DEF HostStep

\* Answers follow on a socket, which close frames do not.
LEMMA DrainRetry ==
  ASSUME TypeOK, NEW q \in Seq(Answer), NEW k \in Slot, Drain(q, k, TRUE), NoGoodbye(up[k])
  PROVE  NoGoodbye(up'[k]) /\ \A l \in Slot : l # k => up'[l] = up[l]
<1>1. up[k] \in Seq(Answer \cup Goodbye) /\ q \in Seq(Answer \cup Goodbye)
  BY DEF TypeOK
<1>2. NoGoodbye(q)
  BY ClientParameters DEF NoGoodbye, Goodbye
<1>3. up' = up \/ up' = [up EXCEPT ![k] = @ \o q]
  BY DEF Drain, SendAll
<1>4. up'[k] = up[k] \/ up'[k] = up[k] \o q
  BY <1>3 DEF TypeOK
<1>5. \A l \in Slot : l # k => up'[l] = up[l]
  BY <1>3 DEF TypeOK
<1> QED
  BY <1>1, <1>2, <1>4, <1>5, Sending

LEMMA EnqueueRetry ==
  ASSUME TypeOK, RetryInv, NEW a \in Answer, Enqueue(a)
  PROVE  RetryInv'
<1> USE DEF clientVars, queueVars, wireVars, handlerVars, hostVars, history
<1>1. /\ UNCHANGED <<socket, attempts, stopped, near, barren, host, closed, cut, far, at, down, faults>>
      /\ Append(queue, a) \in Seq(Answer)
  BY DEF Enqueue, TypeOK
<1>2. Excuses' = Excuses /\ (host' # "idle" => closed')
  BY <1>1 DEF Excuses, RetryInv
<1>3. \A k \in Slot : Hopeful(k) => Hopeful(k)'
  BY <1>1 DEF Hopeful, Underway
<1>4. CASE socket = None \/ near[socket] # "open"
  <2>1. up' = up
    BY <1>4 DEF Enqueue, Drain
  <2>2. \A k \in Slot : Live(k) => Orderly(k)'
    BY <1>1, <2>1 DEF RetryInv, Orderly
  <2> QED
    BY <1>1, <1>2, <1>3, <2>2, KeepRetry
<1>5. CASE socket # None /\ near[socket] = "open"
  <2>1. socket \in Slot /\ Drain(Append(queue, a), socket, TRUE)
    BY <1>5 DEF Enqueue, TypeOK
  <2>2. Live(socket) /\ Orderly(socket)
    BY <1>5, <2>1 DEF RetryInv, Live
  <2>3. NoGoodbye(up'[socket]) /\ \A l \in Slot : l # socket => up'[l] = up[l]
    BY <1>1, <2>1, <2>2, DrainRetry DEF Orderly
  <2>4. \A k \in Slot : Live(k) => Orderly(k)'
    BY <1>1, <2>3 DEF RetryInv, Orderly
  <2> QED
    BY <1>1, <1>2, <1>3, <2>4, KeepRetry
<1> QED
  BY <1>4, <1>5

\* The numbers the page's own steps reckon with.
LEMMA Bounds ==
  ASSUME TypeOK
  PROVE  /\ Excuses \in Nat /\ Spent \in Nat /\ barren \in Nat
         /\ attempts \in Nat /\ attempts <= MaxAttempts /\ MaxAttempts \in Nat
         /\ \A k \in Slot : Allowed(k) \in Nat /\ Allowed(k) <= Spent + MaxAttempts
                            /\ Allowed(k) >= Spent
<1>1. Excuses \in Nat /\ MaxAttempts \in Nat
  BY ClientParameters DEF TypeOK, Excuses
<1>2. Spent \in Nat
  BY <1>1, Arithmetic DEF Spent
<1>3. \A k \in Slot : Allowed(k) \in {Spent, Spent + MaxAttempts}
  BY DEF Allowed
<1>4. \A k \in Slot : Allowed(k) \in Nat /\ Allowed(k) <= Spent + MaxAttempts /\ Allowed(k) >= Spent
  BY <1>1, <1>2, <1>3
<1>5. barren \in Nat /\ attempts \in Nat /\ attempts <= MaxAttempts
  BY <1>1 DEF TypeOK
<1> QED
  BY <1>1, <1>2, <1>4, <1>5

LEMMA SameSpent ==
  ASSUME UNCHANGED <<faults, host>>
  PROVE  Excuses' = Excuses /\ Spent' = Spent
  BY DEF Excuses, Spent

\* The client has no socket any more, and is stopped or has tries left.
LEMMA NoSocketRetry ==
  ASSUME TypeOK, RetryInv, UNCHANGED <<host, closed, faults>>,
         NEW k \in Slot, socket \in {k, None}, socket' = None,
         \E r \in {"free", "closing"} : near' = [near EXCEPT ![k] = r] /\ (r = "closing" => stopped'),
         stopped => stopped',
         barren' <= Spent + MaxAttempts + 1,
         ~stopped' => barren' <= Spent + attempts'
  PROVE  RetryInv'
<1>1. Spent' = Spent
  BY SameSpent
<1>2. near'[k] \in {"free", "closing"} /\ \A l \in Slot : l # k => near'[l] = near[l]
  BY DEF TypeOK
<1>3. \A l \in Slot : ~Live(l)'
  BY <1>2, ClientParameters DEF RetryInv, Live
<1>4. \A l \in Slot : near'[l] = "closing" => stopped' /\ socket' = None
  BY <1>2 DEF RetryInv, TypeOK
<1>5. \A l \in Slot : near'[l] # "connecting" /\ near'[l] # "open"
  BY <1>3 DEF Live
<1>6. host' # "idle" => closed'
  BY DEF RetryInv
<1> QED
  BY <1>1, <1>3, <1>4, <1>5, <1>6 DEF RetryInv

LEMMA AfterCloseRetry ==
  ASSUME TypeOK, RetryInv, UNCHANGED <<host, closed, faults>>,
         NEW k \in Slot, NEW rejected, near[k] # "free", AfterClose(k, rejected),
         near[k] = "open" => rejected \/ ~Hopeful(k)
  PROVE  RetryInv'
<1>0. near[k] \in {"connecting", "open", "closing"}
  BY DEF TypeOK
<1>1. /\ socket' = None /\ near' = [near EXCEPT ![k] = "free"] /\ (stopped => stopped')
      /\ barren' = IF near[k] = "closing" THEN barren ELSE barren + 1
  BY DEF AfterClose, ScheduleReconnect
<1>2. socket \in {k, None}
  BY <1>0 DEF RetryInv, Live
<1>3. barren <= Spent + MaxAttempts + 1
  BY DEF RetryInv
<1>4. CASE near[k] = "closing"
  <2>1. stopped /\ stopped' /\ barren' <= Spent + MaxAttempts + 1
    BY <1>1, <1>3, <1>4 DEF RetryInv
  <2> QED
    BY <1>1, <1>2, <2>1, NoSocketRetry
<1>5. CASE near[k] # "closing"
  <2>1. /\ near[k] = "open" => barren <= Allowed(k)
        /\ near[k] = "connecting" => barren + MaxAttempts <= Allowed(k) + attempts
        /\ barren' = barren + 1
    BY <1>1, <1>5 DEF RetryInv
  <2>2. barren <= Spent + MaxAttempts
    BY <1>0, <1>5, <2>1, Bounds
  <2>3. barren' <= Spent + MaxAttempts + 1
    BY <2>1, <2>2, Bounds
  <2>4. CASE stopped'
    BY <1>1, <1>2, <2>3, <2>4, NoSocketRetry
  <2>5. CASE ~stopped'
    <3>1. ~stopped /\ ~rejected /\ attempts' = attempts + 1
      BY <1>1, <2>5 DEF AfterClose, ScheduleReconnect
    <3>2. barren <= Spent + attempts
      <4>1. CASE near[k] = "open"
        BY <3>1, <2>1, <4>1, Bounds DEF Allowed
      <4>2. CASE near[k] = "connecting"
        BY <2>1, <4>2, Bounds
      <4> QED
        BY <1>0, <1>5, <4>1, <4>2
    <3>3. barren' <= Spent + attempts'
      BY <2>1, <3>1, <3>2, Bounds
    <3> QED
      BY <1>1, <1>2, <2>3, <3>3, NoSocketRetry
  <2> QED
    BY <2>4, <2>5
<1> QED
  BY <1>4, <1>5

LEMMA ConnectRetry ==
  ASSUME TypeOK, RetryInv, NEW k \in Slot, Connect(k)
  PROVE  RetryInv'
<1> USE DEF hostVars, history
<1>1. /\ ~stopped /\ socket = None /\ socket' = k /\ near[k] = "free"
      /\ UNCHANGED <<attempts, stopped, host, closed, faults, barren>>
      /\ near'[k] = "connecting" /\ far'[k] = "none" /\ at'[k] = "none" /\ up'[k] = <<>>
      /\ down'[k] = <<>> /\ cut'[k] = FALSE
      /\ \A l \in Slot : l # k => near'[l] = near[l]
  BY DEF Connect, Free, TypeOK
<1>2. \A l \in Slot : l # k => near'[l] \notin {"connecting", "open"}
                               /\ (near'[l] # "closing")
  BY <1>1, ClientParameters DEF RetryInv, Live
<1>3. NoGoodbye(<<>>) /\ EndsOnce(<<>>)
  BY DEF NoGoodbye, EndsOnce
<1>4. Orderly(k)' /\ Hopeful(k)'
  BY <1>1, <1>3 DEF Orderly, Hopeful, Underway
<1>5. barren <= Spent + attempts /\ barren <= Spent + MaxAttempts + 1
  BY <1>1 DEF RetryInv
<1>6. Spent' = Spent
  BY <1>1, SameSpent
<1>7. Allowed(k)' = Spent + MaxAttempts
  BY <1>4, <1>6 DEF Allowed
<1>8. barren' + MaxAttempts <= Allowed(k)' + attempts'
  BY <1>1, <1>5, <1>7, Bounds
<1>9. \A l \in Slot : Live(l)' <=> l = k
  BY <1>1, <1>2 DEF Live
<1>10. \A l \in Slot : /\ near'[l] # "closing" /\ near'[l] # "open"
                       /\ near'[l] = "connecting" => l = k
  BY <1>1, <1>2
<1>11. (host' # "idle" => closed') /\ barren' <= Spent' + MaxAttempts + 1
  BY <1>1, <1>5, <1>6 DEF RetryInv
<1>12. socket' # None /\ socket' = k
  BY <1>1, ClientParameters
<1> QED
  BY <1>4, <1>8, <1>9, <1>10, <1>11, <1>12 DEF RetryInv

\* The page reads on, or its socket opens: one live socket, still open.
LEMMA OpenRetry ==
  ASSUME TypeOK, RetryInv, NEW k \in Slot, Live(k), near' = [near EXCEPT ![k] = "open"],
         UNCHANGED <<socket, stopped, host, closed, faults>>,
         Orderly(k)', barren' <= Spent + MaxAttempts + 1, barren' <= Allowed(k)'
  PROVE  RetryInv'
<1>1. Spent' = Spent /\ socket = k
  BY SameSpent DEF RetryInv
<1>2. near'[k] = "open" /\ \A l \in Slot : l # k => near'[l] = near[l]
  BY DEF TypeOK
<1>3. \A l \in Slot : Live(l)' <=> l = k
  BY <1>1, <1>2 DEF RetryInv, Live
<1>4. \A l \in Slot : near'[l] = "closing" => stopped' /\ socket' = None
  BY <1>2 DEF RetryInv
<1>5. \A l \in Slot : near'[l] # "connecting" /\ (near'[l] = "open" => l = k)
  BY <1>2, <1>3 DEF Live
<1>6. host' # "idle" => closed'
  BY DEF RetryInv
<1>7. socket' # None /\ socket' = k
  BY <1>1, ClientParameters
<1> QED
  BY <1>1, <1>3, <1>4, <1>5, <1>6, <1>7 DEF RetryInv

LEMMA OpenEventRetry ==
  ASSUME TypeOK, RetryInv, NEW k \in Slot, OpenEvent(k)
  PROVE  RetryInv'
<1> USE DEF hostVars
<1>1. /\ near[k] = "connecting" /\ near' = [near EXCEPT ![k] = "open"]
      /\ UNCHANGED <<socket, stopped, host, closed, faults, barren, down, cut, far, at>>
      /\ queue \in Seq(Answer) /\ Drain(queue, k, TRUE)
  BY DEF OpenEvent, TypeOK
<1>2. Live(k) /\ Orderly(k)
  BY <1>1 DEF RetryInv, Live
<1>3. NoGoodbye(up'[k])
  BY <1>1, <1>2, DrainRetry DEF Orderly
<1>4. Orderly(k)'
  BY <1>1, <1>2, <1>3 DEF Orderly
<1>5. (Hopeful(k)' <=> Hopeful(k)) /\ Spent' = Spent
  BY <1>1, SameSpent DEF Hopeful, Underway
<1>6. Allowed(k)' = Allowed(k)
  BY <1>5 DEF Allowed
<1>7. barren + MaxAttempts <= Allowed(k) + attempts /\ barren <= Spent + MaxAttempts + 1
  BY <1>1 DEF RetryInv
<1>8. barren' <= Allowed(k)' /\ barren' <= Spent + MaxAttempts + 1
  BY <1>1, <1>6, <1>7, Bounds
<1> QED
  BY <1>1, <1>2, <1>4, <1>8, OpenRetry

LEMMA ReceiveRetry ==
  ASSUME TypeOK, RetryInv, NEW k \in Slot, ReceiveMessage(k)
  PROVE  RetryInv'
<1> USE DEF hostVars
<1> DEFINE m == Head(down[k])
<1>1. /\ near[k] = "open" /\ down[k] # <<>> /\ down[k] \in Seq(Message \cup Goodbye)
      /\ m \in Message /\ down'[k] = Tail(down[k])
      /\ UNCHANGED <<attempts, host, closed, faults, cut, far, at>>
      /\ barren' = IF m \in {"welcome", "welcomeClosed"} THEN 0 ELSE barren
      /\ IF m \in {"eventClosed", "phaseClosed"} THEN CloseNear(k)
                                                  ELSE UNCHANGED <<socket, stopped, near, up>>
  BY DEF ReceiveMessage, TypeOK, TerminalCodes
<1> HIDE DEF m
<1>2. Live(k) /\ Orderly(k) /\ socket = k
  BY <1>1 DEF RetryInv, Live
<1>3. barren' <= Spent + MaxAttempts + 1
  <2>1. barren <= Spent + MaxAttempts + 1
    BY DEF RetryInv
  <2> QED
    BY <1>1, <2>1, Bounds
<1>4. CASE m \in {"eventClosed", "phaseClosed"}
  <2>1. socket' = None /\ stopped' = TRUE /\ near' = [near EXCEPT ![k] = "closing"]
    BY <1>1, <1>4 DEF CloseNear
  <2> QED
    BY <1>1, <1>2, <1>3, <2>1, NoSocketRetry
<1>5. CASE m \notin {"eventClosed", "phaseClosed"}
  <2>1. UNCHANGED <<socket, stopped, near, up>> /\ near' = [near EXCEPT ![k] = "open"]
    BY <1>1, <1>5 DEF TypeOK
  <2>2. /\ EndsOnce(down'[k]) /\ (NoGoodbye(down[k]) => NoGoodbye(down'[k]))
        /\ Decided(down[k]) /\ m \notin Decisive => Decided(down'[k])
    BY <1>1, <1>2, Reading DEF Orderly, m
  <2>3. Orderly(k)'
    BY <1>1, <1>2, <2>1, <2>2 DEF Orderly
  <2>4. barren' <= Allowed(k)'
    <3>1. Spent' = Spent
      BY <1>1, SameSpent
    <3>2. CASE m \in {"welcome", "welcomeClosed"}
      <4>1. Allowed(k)' \in {Spent, Spent + MaxAttempts}
        BY <3>1 DEF Allowed
      <4> QED
        BY <1>1, <3>2, <4>1, Bounds
    <3>3. CASE m \notin {"welcome", "welcomeClosed"}
      <4>1. m \notin Decisive
        BY <1>1, <1>5, <3>3 DEF Message, Decisive
      <4>2. Hopeful(k) => Hopeful(k)'
        BY <1>1, <2>2, <4>1 DEF Hopeful, Underway
      <4>3. barren <= Allowed(k) /\ barren' = barren
        BY <1>1, <3>3 DEF RetryInv
      <4>4. Allowed(k)' = Allowed(k) \/ Allowed(k)' = Spent + MaxAttempts
        BY <3>1, <4>2 DEF Allowed
      <4> QED
        BY <4>3, <4>4, Bounds
    <3> QED
      BY <3>2, <3>3
  <2> QED
    BY <1>1, <1>2, <1>3, <2>1, <2>3, <2>4, OpenRetry
<1> QED
  BY <1>4, <1>5

LEMMA PageRetry ==
  ASSUME TypeOK, RetryInv, NEW k \in Slot, Connect(k) \/ ConnectFails(k) \/ PageStep(k)
  PROVE  RetryInv'
<1> USE DEF hostVars
<1>1. CASE ConnectFails(k) \/ NearCut(k)
  <2>1. near[k] = "open" => ~Hopeful(k)
    BY <1>1 DEF ConnectFails, NearCut, Hopeful
  <2> QED
    BY <1>1, <2>1, AfterCloseRetry DEF ConnectFails, NearCut
<1>2. CASE ReceiveGoodbye(k)
  <2> DEFINE d == down[k]
  <2>1. d \in Seq(Message \cup Goodbye) /\ d # <<>>
    BY <1>2 DEF ReceiveGoodbye, TypeOK
  <2>2. near[k] = "open" => Head(d) \in Goodbye /\ EndsOnce(d)
    BY <1>2 DEF ReceiveGoodbye, RetryInv, Live, Orderly, Goodbye, Message
  <2>3. near[k] = "open" => (Last(d) = "reject") \/ ~Hopeful(k)
    <3> HIDE DEF d
    <3> SUFFICES ASSUME near[k] = "open", Last(d) # "reject" PROVE ~Hopeful(k)
      OBVIOUS
    <3>1. Last(d) = Head(d) /\ ~NoGoodbye(d) /\ (Decided(d) => Head(d) # "bye")
      BY <2>1, <2>2, Reading
    <3>2. Head(d) = "bye"
      BY <2>2, <3>1 DEF Goodbye
    <3> QED
      BY <3>1, <3>2 DEF Hopeful, d
  <2> QED
    BY <1>2, <2>3, AfterCloseRetry DEF ReceiveGoodbye
<1> QED
  BY <1>1, <1>2, ConnectRetry, OpenEventRetry, ReceiveRetry DEF PageStep

LEMMA NextRetry ==
  ASSUME TypeOK, RetryInv, [Next]_vars
  PROVE  RetryInv'
<1>1. CASE UNCHANGED vars
  <2> USE <1>1 DEF vars, clientVars, queueVars, wireVars, handlerVars, hostVars, history
  <2>1. \A k \in Slot : (Orderly(k)' <=> Orderly(k)) /\ (Hopeful(k)' <=> Hopeful(k))
    BY SameSlot
  <2>2. \A k \in Slot : Live(k) => Orderly(k)'
    BY <2>1 DEF RetryInv
  <2>3. Excuses' = Excuses /\ (host' # "idle" => closed')
    BY SameSpent DEF RetryInv
  <2> QED
    BY <2>1, <2>2, <2>3, KeepRetry
<1>2. ASSUME NEW k \in Slot, Connect(k) \/ Accept(k) \/ ConnectFails(k) \/ RejectToken(k)
      PROVE  RetryInv'
  BY <1>2, PageRetry, GatewayRetry
<1>3. ASSUME NEW k \in Slot, PageStep(k) \/ AttachStep(k) \/ Deliver(k) \/ FarClosed(k)
      PROVE  RetryInv'
  BY <1>3, PageRetry, GatewayRetry
<1>4. ASSUME NEW a \in Answer, Enqueue(a) PROVE RetryInv'
  BY <1>4, EnqueueRetry
<1>5. ASSUME HandlerStep PROVE RetryInv'
  BY <1>5, HandlerRetry DEF HandlerStep
<1>6. ASSUME HostStep \/ Conclude \/ IssueForm \/ SendForm PROVE RetryInv'
  BY <1>6, HostRetry
<1>7. ASSUME Fault PROVE RetryInv'
  BY <1>7, GatewayRetry, HandlerRetry DEF Fault
<1> QED
  BY <1>1, <1>2, <1>3, <1>4, <1>5, <1>6, <1>7 DEF Next

LEMMA InitRetry ==
  ASSUME Init PROVE RetryInv
<1>1. Excuses = 0 /\ Spent = 0
  BY Arithmetic, ClientParameters DEF Init, Excuses, Spent
<1> QED
  BY <1>1, ClientParameters DEF Init, RetryInv, Live

\* Every fault is an excuse, and the disconnection comes after the conclusion.
LEMMA RetryBound ==
  ASSUME TypeOK, RetryInv PROVE RetriesBounded
<1> DEFINE e == faults + (IF closed THEN 1 ELSE 0)
<1>1. e \in Nat /\ Excuses \in Nat /\ Excuses <= e
  BY DEF TypeOK, RetryInv, Excuses
<1>2. 1 + faults + (IF closed THEN 1 ELSE 0) = e + 1
  BY DEF TypeOK
<1> HIDE DEF e
<1>3. MaxAttempts * Excuses <= MaxAttempts * e /\ MaxAttempts * e \in Nat
  BY <1>1, ClientParameters
<1>4. MaxAttempts * (e + 1) = MaxAttempts * e + MaxAttempts
  BY <1>1, Arithmetic, ClientParameters
<1>5. barren <= MaxAttempts * Excuses + MaxAttempts + 1
  BY DEF RetryInv, Spent
<1>6. barren <= MaxAttempts * (e + 1) + 1
  BY <1>1, <1>3, <1>4, <1>5, Bounds DEF Spent
<1> QED
  BY <1>2, <1>6 DEF RetriesBounded

\* The client gives up, for every number of attempts, sockets and faults: the
\* sockets in a row that end without a welcome are at most MaxAttempts, and as many
\* for each fault and for the conclusion of the event (scheduleReconnect, the open
\* event of RealtimeClient).
THEOREM RetriesBoundedCorrect == Spec => []RetriesBounded
<1>1. Init => RetryInv
  BY InitRetry
<1>2. TypeOK /\ RetryInv /\ [Next]_vars => RetryInv'
  BY NextRetry
<1>3. TypeOK /\ RetryInv => RetriesBounded
  BY RetryBound
<1> QED
  BY <1>1, <1>2, <1>3, TypeCorrect, PTL DEF Spec

=============================================================================
