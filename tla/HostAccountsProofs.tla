-------------------------- MODULE HostAccountsProofs --------------------------
(* Accounts, codes and sessions, for any number of pages, requests and        *)
(* addresses.                                                                *)
EXTENDS HostAccounts, TLAPS

\* The three kinds of records are never mistaken for one another.
LEMMA TaskKinds ==
  /\ \A t \in HostTask : t # Idle /\ t.route # "join" /\ t \notin JoinTask
  /\ \A t \in JoinTask : t # Idle /\ t.route = "join"
BY DEF HostTask, JoinTask, Idle

LEMMA RecordKinds ==
  /\ \A x \in EventRecord : x # Absent
  /\ \A x \in HostRecord : x # Absent
  /\ \A x \in Credentials : x # Absent
<1>1. DOMAIN Absent = {"stored"}
  BY DEF Absent
<1>2. \A x \in EventRecord : DOMAIN x = {"host", "code", "closed"}
  BY DEF EventRecord
<1>3. \A x \in HostRecord : DOMAIN x = {"email", "password"}
  BY DEF HostRecord
<1>4. \A x \in Credentials : DOMAIN x = {"email", "password"}
  BY DEF Credentials
<1> QED
  BY <1>1, <1>2, <1>3, <1>4

\* A task is of the kind its route says.
LEMMA RouteKind ==
  ASSUME TypeOK, NEW r \in Request, task[r] # Idle
  PROVE  /\ task[r].route # "join" => task[r] \in HostTask
         /\ task[r].route = "join" => task[r] \in JoinTask
         /\ task[r].page \in Page
         /\ task[r] \in HostTask => task[r].page \in HostPage
BY TaskKinds DEF TypeOK, HostTask, JoinTask, Page

LEMMA FailType ==
  ASSUME TypeOK, NEW r \in Request, task[r] # Idle, NEW e \in Error, Fail(r, e)
  PROVE  /\ task' \in [Request -> HostTask \cup JoinTask \cup {Idle}]
         /\ creds' \in [HostPage -> Credentials \cup {Absent}]
         /\ session' \in [Page -> EventId \cup {None}]
         /\ waiting' \in [Page -> Request \cup {None}]
         /\ err' \in [Page -> Error]
BY DEF TypeOK, Fail

LEMMA AcceptType ==
  ASSUME TypeOK, NEW r \in Request, task[r] \in HostTask, Accept(r)
  PROVE  /\ task' \in [Request -> HostTask \cup JoinTask \cup {Idle}]
         /\ creds' \in [HostPage -> Credentials \cup {Absent}]
         /\ session' \in [Page -> EventId \cup {None}]
         /\ waiting' \in [Page -> Request \cup {None}]
         /\ err' \in [Page -> Error]
<1>1. task[r].body \in Credentials /\ task[r].page \in HostPage
  BY DEF HostTask
<1> QED
  BY <1>1 DEF TypeOK, Accept

LEMMA AdmitType ==
  ASSUME TypeOK, NEW r \in Request, task[r] # Idle, NEW e \in EventId, Admit(r, e)
  PROVE  /\ task' \in [Request -> HostTask \cup JoinTask \cup {Idle}]
         /\ creds' \in [HostPage -> Credentials \cup {Absent}]
         /\ session' \in [Page -> EventId \cup {None}]
         /\ waiting' \in [Page -> Request \cup {None}]
         /\ err' \in [Page -> Error]
BY DEF TypeOK, Admit

LEMMA GotoType ==
  ASSUME TypeOK, NEW r \in Request, task[r] \in HostTask,
         NEW t \in HostTask, task' = [task EXCEPT ![r] = t]
  PROVE  task' \in [Request -> HostTask \cup JoinTask \cup {Idle}]
BY DEF TypeOK

(* Type correctness, an action at a time; what a task has drawn or read is    *)
(* what its step says (TaskTyped), which the commits rely on.                 *)
TaskTyped ==
  \A r \in Request : task[r] \in HostTask =>
    /\ task[r].step = "commit" => task[r].route = "register" /\ task[r].host \in HostId
    /\ task[r].step \in {"record", "create"} =>
         task[r].route # "register" /\ task[r].host \in HostId
    /\ task[r].step = "create" => task[r].event \in EventId /\ task[r].code \in Code

JoinTyped ==
  \A r \in Request :
    task[r] \in JoinTask /\ task[r].step = "event" => task[r].event \in EventId

Typed == TypeOK /\ TaskTyped /\ JoinTyped

\* The tasks but r stay as they are, and r is idle or as the step says.
LEMMA EndTyped ==
  ASSUME Typed, NEW r \in Request, task' = [task EXCEPT ![r] = Idle]
  PROVE  (TaskTyped /\ JoinTyped)'
BY TaskKinds DEF Typed, TypeOK, TaskTyped, JoinTyped

LEMMA SubmitTyped ==
  ASSUME Typed, NEW p \in Page, NEW r \in Request,
         NEW t, \/ t \in HostTask /\ t.step = "index"
                \/ t \in JoinTask /\ t.step = "code",
         Submit(p, r, t)
  PROVE  Typed'
<1>1. TypeOK'
  BY DEF Typed, TypeOK, Submit, store, Error
<1>2. TaskTyped'
  BY TaskKinds DEF Typed, TypeOK, TaskTyped, Submit
<1>3. JoinTyped'
  BY TaskKinds DEF Typed, TypeOK, JoinTyped, Submit
<1> QED
  BY <1>1, <1>2, <1>3 DEF Typed

LEMMA FormTyped ==
  ASSUME AccountsAssumption, Typed, FormStep
  PROVE  Typed'
<1>1. ASSUME NEW p \in HostPage, NEW r \in Request, NEW route \in {"register", "login"},
             NEW body \in Credentials, SubmitLogin(p, r, route, body)
      PROVE  Typed'
  <2>1. HostRequest(route, p, body) \in HostTask /\ HostRequest(route, p, body).step = "index"
    BY DEF HostRequest, HostTask
  <2> QED
    BY <1>1, <2>1, SubmitTyped DEF SubmitLogin, Page
<1>2. ASSUME NEW p \in HostPage, NEW r \in Request, SubmitCreate(p, r)
      PROVE  Typed'
  <2>1. creds[p] \in Credentials
    BY <1>2 DEF SubmitCreate, Typed, TypeOK
  <2>2. HostRequest("events", p, creds[p]) \in HostTask
        /\ HostRequest("events", p, creds[p]).step = "index"
    BY <2>1 DEF HostRequest, HostTask
  <2> QED
    BY <1>2, <2>2, SubmitTyped DEF SubmitCreate, Page
<1>3. ASSUME NEW p \in Visitor, NEW r \in Request, NEW c \in Code, SubmitJoin(p, r, c)
      PROVE  Typed'
  <2> DEFINE t == [route |-> "join", page |-> p, code |-> c, step |-> "code", event |-> None]
  <2>1. t \in JoinTask /\ t.step = "code"
    BY DEF JoinTask
  <2> QED
    BY <1>3, <2>1, SubmitTyped DEF SubmitJoin, Page
<1>4. ASSUME NEW p \in Page, EndSession(p)
      PROVE  Typed'
  BY <1>4 DEF EndSession, Typed, TypeOK, TaskTyped, JoinTyped, store
<1> QED
  BY <1>1, <1>2, <1>3, <1>4 DEF FormStep

\* A request that ends leaves the tasks as they should be.
LEMMA FailTyped ==
  ASSUME Typed, NEW r \in Request, task[r] # Idle, NEW e \in Error, Fail(r, e),
         UNCHANGED store, faults' \in 0..MaxFaults
  PROVE  Typed'
<1>1. task' = [task EXCEPT ![r] = Idle]
  BY DEF Fail
<1>2. TypeOK'
  BY FailType DEF Typed, TypeOK, store
<1> QED
  BY <1>1, <1>2, EndTyped DEF Typed

\* A task of a host that goes on.
LEMMA GoOnTyped ==
  ASSUME Typed, NEW r \in Request, task[r] \in HostTask, NEW t \in HostTask,
         task' = [task EXCEPT ![r] = t], UNCHANGED pages, UNCHANGED <<store, faults>>,
         t.step = "commit" => t.route = "register" /\ t.host \in HostId,
         t.step \in {"record", "create"} => t.route # "register" /\ t.host \in HostId,
         t.step = "create" => t.event \in EventId /\ t.code \in Code
  PROVE  Typed'
<1>1. TypeOK'
  BY DEF Typed, TypeOK, pages, store
<1>2. TaskTyped'
  BY DEF Typed, TypeOK, TaskTyped
<1>3. JoinTyped'
  BY TaskKinds DEF Typed, TypeOK, JoinTyped
<1> QED
  BY <1>1, <1>2, <1>3 DEF Typed

LEMMA RegisterTyped ==
  ASSUME AccountsAssumption, Typed, NEW r \in Request, RegisterLookup(r) \/ RegisterCommit(r)
  PROVE  Typed'
<1>1. CASE RegisterLookup(r)
  <2>1. task[r] # Idle /\ task[r].route = "register" /\ task[r] \in HostTask
    BY <1>1, RouteKind DEF RegisterLookup, At, Typed
  <2>2. CASE index[Normal(task[r].body.email)] # None
    BY <1>1, <2>1, <2>2, FailTyped DEF RegisterLookup, Error, Typed, TypeOK
  <2>3. CASE index[Normal(task[r].body.email)] = None
    <3>1. PICK h \in HostId : task' = [task EXCEPT ![r].host = h, ![r].step = "commit"]
      BY <1>1, <2>3 DEF RegisterLookup
    <3> DEFINE t == [task[r] EXCEPT !.host = h, !.step = "commit"]
    <3>2. t \in HostTask /\ t.step = "commit" /\ t.route = "register" /\ t.host = h
      BY <2>1 DEF HostTask
    <3>3. task' = [task EXCEPT ![r] = t]
      BY <2>1, <3>1 DEF Typed, TypeOK
    <3> HIDE DEF t
    <3> QED
      BY <1>1, <2>1, <2>3, <3>2, <3>3, GoOnTyped DEF RegisterLookup
  <2> QED
    BY <2>2, <2>3
<1>2. CASE RegisterCommit(r)
  <2>1. task[r] # Idle /\ task[r].step = "commit" /\ task[r] \in HostTask
    BY <1>2, RouteKind DEF RegisterCommit, At, Typed
  <2>2. task[r].host \in HostId /\ task[r].body \in Credentials
    BY <2>1 DEF Typed, TaskTyped, HostTask
  <2>3. CASE AddressFree(task[r].body.email)
    <3>1. [email |-> Normal(task[r].body.email), password |-> task[r].body.password] \in HostRecord
      BY <2>2 DEF AccountsAssumption, Credentials, HostRecord
    <3>2. /\ hosts' \in [HostId -> HostRecord \cup {Absent}]
          /\ index' \in [Spelling -> HostId \cup {None}]
      BY <1>2, <2>2, <2>3, <3>1 DEF RegisterCommit, Typed, TypeOK
    <3>3. Accept(r)
      BY <1>2, <2>3 DEF RegisterCommit
    <3>4. TypeOK'
      BY <1>2, <2>1, <3>2, <3>3, AcceptType DEF RegisterCommit, Typed, TypeOK
    <3> QED
      BY <3>3, <3>4, EndTyped DEF Accept, Typed
  <2>4. CASE ~AddressFree(task[r].body.email)
    BY <1>2, <2>1, <2>4, FailTyped DEF RegisterCommit, Error, Typed, TypeOK, store
  <2> QED
    BY <2>3, <2>4
<1> QED
  BY <1>1, <1>2

LEMMA LoginTyped ==
  ASSUME AccountsAssumption, Typed, NEW r \in Request, LoginLookup(r) \/ LoginCompare(r)
  PROVE  Typed'
<1>1. Unknown(r) \in Error
  BY DEF Unknown, Error
<1>2. CASE LoginLookup(r)
  <2>1. task[r] # Idle /\ task[r].route \in {"login", "events"} /\ task[r] \in HostTask
    BY <1>2, RouteKind DEF LoginLookup, At, Typed
  <2> DEFINE h == Lookup(task[r].body.email)
  <2>2. CASE h = None
    BY <1>1, <1>2, <2>1, <2>2, FailTyped DEF LoginLookup, Typed, TypeOK
  <2>3. CASE h # None
    <3>1. h \in HostId
      BY <2>1, <2>3 DEF Lookup, Typed, TypeOK, HostTask, Credentials, AccountsAssumption
    <3> DEFINE t == [task[r] EXCEPT !.host = h, !.step = "record"]
    <3>2. t \in HostTask /\ t.step = "record" /\ t.route # "register" /\ t.host = h
      BY <2>1, <3>1 DEF HostTask
    <3>3. task' = [task EXCEPT ![r] = t]
      BY <1>2, <2>1, <2>3 DEF LoginLookup, Typed, TypeOK
    <3>4. UNCHANGED pages /\ UNCHANGED <<store, faults>>
      BY <1>2, <2>3 DEF LoginLookup
    <3> HIDE DEF t, h
    <3> QED
      BY <2>1, <3>1, <3>2, <3>3, <3>4, GoOnTyped
  <2> QED
    BY <2>2, <2>3
<1>3. CASE LoginCompare(r)
  <2>1. task[r] # Idle /\ task[r] \in HostTask
    BY <1>3, RouteKind DEF LoginCompare, At, Typed
  <2>2. CASE Accept(r)
    <3>1. TypeOK'
      BY <1>3, <2>1, <2>2, AcceptType DEF LoginCompare, Typed, TypeOK, store
    <3> QED
      BY <2>2, <3>1, EndTyped DEF Accept, Typed
  <2>3. CASE Fail(r, Unknown(r))
    BY <1>1, <1>3, <2>1, <2>3, FailTyped DEF LoginCompare, Typed, TypeOK
  <2> QED
    BY <1>3, <2>2, <2>3 DEF LoginCompare
<1> QED
  BY <1>2, <1>3

LEMMA EventsTyped ==
  ASSUME AccountsAssumption, Typed, NEW r \in Request, DrawEvent(r) \/ CreateEvent(r)
  PROVE  Typed'
<1>1. Unknown(r) \in Error
  BY DEF Unknown, Error
<1>2. CASE DrawEvent(r)
  <2>1. task[r] # Idle /\ task[r].route = "events" /\ task[r].step = "record"
        /\ task[r] \in HostTask
    BY <1>2, RouteKind DEF DrawEvent, At, Typed
  <2>2. CASE ~Matches(r)
    BY <1>1, <1>2, <2>1, <2>2, FailTyped DEF DrawEvent, Typed, TypeOK
  <2>3. CASE Matches(r)
    <3>1. PICK e \in EventId, c \in Code :
            task' = [task EXCEPT ![r].event = e, ![r].code = c, ![r].step = "create"]
      BY <1>2, <2>3 DEF DrawEvent
    <3> DEFINE t == [task[r] EXCEPT !.event = e, !.code = c, !.step = "create"]
    <3>2. t \in HostTask /\ t.route # "register" /\ t.step = "create"
          /\ t.event = e /\ t.code = c /\ t.host = task[r].host
      BY <2>1 DEF HostTask
    <3>3. task[r].host \in HostId
      BY <2>1 DEF Typed, TaskTyped
    <3>4. task' = [task EXCEPT ![r] = t]
      BY <2>1, <3>1 DEF Typed, TypeOK
    <3>5. UNCHANGED pages /\ UNCHANGED <<store, faults>>
      BY <1>2, <2>3 DEF DrawEvent
    <3> HIDE DEF t
    <3> QED
      BY <2>1, <3>2, <3>3, <3>4, <3>5, GoOnTyped
  <2> QED
    BY <2>2, <2>3
<1>3. CASE CreateEvent(r)
  <2> DEFINE e == task[r].event  c == task[r].code
  <2>1. task[r] # Idle /\ task[r].step = "create" /\ task[r] \in HostTask
    BY <1>3, RouteKind DEF CreateEvent, At, Typed
  <2>2. e \in EventId /\ c \in Code /\ task[r].host \in HostId
    BY <2>1 DEF Typed, TaskTyped
  <2>3. CASE KeysFree(e, c)
    <3>1. [host |-> task[r].host, code |-> c, closed |-> FALSE] \in EventRecord
      BY <2>2 DEF EventRecord
    <3>2. /\ events' \in [EventId -> EventRecord \cup {Absent}]
          /\ codes' \in [Code -> EventId \cup {None}]
      BY <1>3, <2>2, <2>3, <3>1 DEF CreateEvent, Typed, TypeOK
    <3>3. Admit(r, e)
      BY <1>3, <2>3 DEF CreateEvent
    <3>4. TypeOK'
      BY <1>3, <2>1, <2>2, <3>2, <3>3, AdmitType DEF CreateEvent, Typed, TypeOK
    <3> QED
      BY <3>3, <3>4, EndTyped DEF Admit, Typed
  <2>4. CASE ~KeysFree(e, c)
    BY <1>3, <2>1, <2>4, FailTyped DEF CreateEvent, Error, Typed, TypeOK, store
  <2> QED
    BY <2>3, <2>4
<1> QED
  BY <1>2, <1>3

LEMMA JoinRouteTyped ==
  ASSUME Typed, NEW r \in Request, JoinLookup(r) \/ Join(r)
  PROVE  Typed'
<1>1. CASE JoinLookup(r)
  <2>1. task[r] # Idle /\ task[r] \in JoinTask
    BY <1>1, RouteKind DEF JoinLookup, At, Typed
  <2> DEFINE e == codes[task[r].code]
  <2>2. CASE e = None
    BY <1>1, <2>1, <2>2, FailTyped DEF JoinLookup, Error, Typed, TypeOK
  <2>3. CASE e # None
    <3>1. e \in EventId
      BY <2>1, <2>3 DEF Typed, TypeOK, JoinTask
    <3> DEFINE t == [task[r] EXCEPT !.event = e, !.step = "event"]
    <3>2. t \in JoinTask /\ t.event = e
      BY <2>1, <3>1 DEF JoinTask
    <3>3. task' = [task EXCEPT ![r] = t]
      BY <1>1, <2>1, <2>3 DEF JoinLookup, Typed, TypeOK
    <3>4. UNCHANGED pages /\ UNCHANGED <<store, faults>>
      BY <1>1, <2>3 DEF JoinLookup
    <3> HIDE DEF t, e
    <3>5. TypeOK'
      BY <3>2, <3>3, <3>4 DEF Typed, TypeOK, pages, store
    <3>6. TaskTyped'
      BY <3>2, <3>3, TaskKinds DEF Typed, TypeOK, TaskTyped
    <3>7. JoinTyped'
      BY <3>1, <3>2, <3>3 DEF Typed, TypeOK, JoinTyped
    <3> QED
      BY <3>5, <3>6, <3>7 DEF Typed
  <2> QED
    BY <2>2, <2>3
<1>2. CASE Join(r)
  <2>1. task[r] # Idle /\ task[r].step = "event" /\ task[r] \in JoinTask
    BY <1>2, RouteKind DEF Join, At, Typed
  <2> DEFINE e == task[r].event
  <2>2. e \in EventId
    BY <2>1 DEF Typed, JoinTyped
  <2>3. CASE Admit(r, e)
    <3>1. TypeOK'
      BY <1>2, <2>1, <2>2, <2>3, AdmitType DEF Join, Typed, TypeOK, store
    <3> QED
      BY <2>3, <3>1, EndTyped DEF Admit, Typed
  <2>4. ASSUME NEW x \in {"event not found", "event closed"}, Fail(r, x)
        PROVE  Typed'
    BY <1>2, <2>1, <2>4, FailTyped DEF Join, Error, Typed, TypeOK
  <2> QED
    BY <1>2, <2>3, <2>4 DEF Join
<1> QED
  BY <1>1, <1>2

LEMMA OtherTyped ==
  ASSUME Typed,
         \/ \E r \in Request : RejectBody(r) \/ RequestDies(r)
         \/ \E e \in EventId : Conclude(e)
         \/ \E p \in Page : GiveUp(p)
  PROVE  Typed'
<1>1. ASSUME NEW r \in Request, RejectBody(r)
      PROVE  Typed'
  BY <1>1, FailTyped DEF RejectBody, Error, Typed, TypeOK
<1>2. ASSUME NEW r \in Request, RequestDies(r)
      PROVE  Typed'
  <2>1. faults' \in 0..MaxFaults
    BY <1>2, AccountsAssumption DEF AccountsAssumption, RequestDies, Typed, TypeOK
  <2>2. task[r] # Idle /\ Fail(r, "network") /\ "network" \in Error /\ UNCHANGED store
    BY <1>2 DEF RequestDies, Error
  <2> QED
    BY <2>1, <2>2, FailTyped
<1>3. ASSUME NEW e \in EventId, Conclude(e)
      PROVE  Typed'
  <2>1. events[e] \in EventRecord
    BY <1>3 DEF Conclude, Typed, TypeOK
  <2>2. [events[e] EXCEPT !.closed = TRUE] \in EventRecord
    BY <2>1 DEF EventRecord
  <2>3. events' \in [EventId -> EventRecord \cup {Absent}]
    BY <1>3, <2>2 DEF Conclude, Typed, TypeOK
  <2> QED
    BY <1>3, <2>3 DEF Conclude, Typed, TypeOK, TaskTyped, JoinTyped, pages
<1>4. ASSUME NEW p \in Page, GiveUp(p)
      PROVE  Typed'
  <2>1. faults' \in 0..MaxFaults
    BY <1>4, AccountsAssumption DEF AccountsAssumption, GiveUp, Typed, TypeOK
  <2>2. TypeOK'
    BY <1>4, <2>1 DEF GiveUp, Error, Typed, TypeOK, store
  <2> QED
    BY <1>4, <2>2 DEF GiveUp, Typed, TaskTyped, JoinTyped
<1> QED
  BY <1>1, <1>2, <1>3, <1>4

LEMMA TypedNext ==
  ASSUME AccountsAssumption, Typed, [Next]_vars
  PROVE  Typed'
<1>1. CASE UNCHANGED vars
  BY <1>1 DEF Typed, TypeOK, TaskTyped, JoinTyped, vars, store, pages
<1>2. ASSUME NEW r \in Request, RouteStep(r)
      PROVE  Typed'
  BY <1>2, RegisterTyped, LoginTyped, EventsTyped, JoinRouteTyped, OtherTyped DEF RouteStep
<1> QED
  BY <1>1, <1>2, FormTyped, OtherTyped DEF Next

LEMMA TypedInit ==
  ASSUME Init
  PROVE  Typed
BY TaskKinds, AccountsAssumption DEF AccountsAssumption, Init, Typed, TypeOK, TaskTyped, JoinTyped, Error

\* Whatever requests interleave, every record, task and page state has its type.
THEOREM TypeCorrect == Spec => []TypeOK
<1>1. Init => Typed
  BY TypedInit
<1>2. Typed /\ [Next]_vars => Typed'
  BY TypedNext, AccountsAssumption
<1>3. Typed => TypeOK
  BY DEF Typed
<1> QED
  BY <1>1, <1>2, <1>3, PTL DEF Spec

----------------------------------------------------------------------------
(* One account for an address.  Between the look at the address and the       *)
(* commit the id that was drawn is nobody else's.                            *)
Committing(r) == task[r] \in HostTask /\ task[r].step = "commit"

DrawnOnce ==
  /\ \A r \in Request : Committing(r) => hosts[task[r].host] = Absent
  /\ \A r, q \in Request : Committing(r) /\ Committing(q) /\ r # q => task[r].host # task[q].host

AccountInv == Typed /\ OneHostPerEmail /\ DrawnOnce

\* No task begins to commit in a step in which a request begins or ends, or goes on to
\* some other step.
LEMMA NoNewCommit ==
  ASSUME Typed, OneHostPerEmail, DrawnOnce, NEW r \in Request, NEW t,
         ~(t \in HostTask /\ t.step = "commit"), task' = [task EXCEPT ![r] = t],
         UNCHANGED <<index, hosts>>
  PROVE  (OneHostPerEmail /\ DrawnOnce)'
<1>1. \A q \in Request : Committing(q)' => Committing(q) /\ task'[q] = task[q]
  BY DEF Typed, TypeOK, Committing
<1>2. OneHostPerEmail'
  BY DEF OneHostPerEmail
<1>3. DrawnOnce'
  BY <1>1 DEF DrawnOnce
<1> QED
  BY <1>2, <1>3

LEMMA RegisterLookupOnce ==
  ASSUME AccountInv, NEW r \in Request, RegisterLookup(r)
  PROVE  (OneHostPerEmail /\ DrawnOnce)'
<1>1. task[r] # Idle /\ task[r] \in HostTask
  BY RouteKind DEF RegisterLookup, At, AccountInv, Typed
<1>2. CASE index[Normal(task[r].body.email)] # None
  <2>1. task' = [task EXCEPT ![r] = Idle]
    BY <1>2 DEF RegisterLookup, Fail
  <2> QED
    BY <2>1, NoNewCommit, TaskKinds DEF AccountInv, RegisterLookup, store
<1>3. CASE index[Normal(task[r].body.email)] = None
  <2>1. PICK h \in HostId :
          /\ hosts[h] = Absent
          /\ \A q \in Request : task[q] # Idle /\ task[q].route # "join" => task[q].host # h
          /\ task' = [task EXCEPT ![r].host = h, ![r].step = "commit"]
    BY <1>3 DEF RegisterLookup
  <2>2. task'[r].host = h /\ \A q \in Request \ {r} : task'[q] = task[q]
    BY <1>1, <2>1 DEF AccountInv, Typed, TypeOK, HostTask
  <2>3. \A q \in Request \ {r} : Committing(q) => task[q].host # h
    BY <2>1, TaskKinds DEF Committing
  <2>4. OneHostPerEmail'
    BY DEF AccountInv, OneHostPerEmail, RegisterLookup, store
  <2>5. \A q \in Request : Committing(q)' => hosts'[task'[q].host] = Absent
    <3>1. hosts' = hosts
      BY DEF RegisterLookup, store
    <3>2. \A q \in Request \ {r} : Committing(q)' => Committing(q)
      BY <2>2 DEF Committing
    <3>3. \A q \in Request \ {r} : Committing(q)' => hosts[task'[q].host] = Absent
      BY <2>2, <3>2 DEF AccountInv, DrawnOnce
    <3> QED
      BY <2>1, <2>2, <3>1, <3>3
  <2>6. \A q1, q2 \in Request :
          Committing(q1)' /\ Committing(q2)' /\ q1 # q2 => task'[q1].host # task'[q2].host
    BY <2>2, <2>3 DEF AccountInv, DrawnOnce, Committing
  <2> QED
    BY <2>4, <2>5, <2>6 DEF DrawnOnce
<1> QED
  BY <1>2, <1>3

LEMMA RegisterCommitOnce ==
  ASSUME AccountsAssumption, AccountInv, NEW r \in Request, RegisterCommit(r)
  PROVE  (OneHostPerEmail /\ DrawnOnce)'
<1> DEFINE b == task[r].body  s == Normal(b.email)  h == task[r].host
<1>1. task[r] # Idle /\ task[r].step = "commit" /\ task[r] \in HostTask
  BY RouteKind DEF RegisterCommit, At, AccountInv, Typed
<1>2. h \in HostId /\ b \in Credentials /\ s \in Spelling /\ Committing(r)
  BY <1>1 DEF AccountInv, Typed, TaskTyped, HostTask, Credentials, AccountsAssumption, Committing
<1>3. task' = [task EXCEPT ![r] = Idle]
  BY DEF RegisterCommit, Accept, Fail
<1>4. CASE AddressFree(b.email)
  <2> DEFINE record == [email |-> s, password |-> b.password]
  <2>1. hosts' = [hosts EXCEPT ![h] = record] /\ index' = [index EXCEPT ![s] = h]
    BY <1>4 DEF RegisterCommit
  <2>2. record \in HostRecord /\ record # Absent /\ record.email = s
    BY <1>2, RecordKinds DEF HostRecord, Credentials
  <2>3. index[s] = None /\ hosts[h] = Absent
    BY <1>2, <1>4 DEF AddressFree, Lookup, AccountInv, DrawnOnce
  <2>4. \A g \in HostId : hosts[g] # Absent => hosts[g].email # s
    BY <1>2, <2>3 DEF AccountInv, OneHostPerEmail, AccountsAssumption
  <2> HIDE DEF record, s, h, b
  <2>5. \A g \in HostId : hosts'[g] = IF g = h THEN record ELSE hosts[g]
    BY <2>1 DEF AccountInv, Typed, TypeOK
  <2>6. \A a \in Spelling : index'[a] = IF a = s THEN h ELSE index[a]
    BY <2>1 DEF AccountInv, Typed, TypeOK
  <2>7. OneHostPerEmail'
    BY <1>2, <2>2, <2>3, <2>4, <2>5, <2>6 DEF AccountInv, OneHostPerEmail
  <2>8. \A q \in Request : Committing(q)' => Committing(q) /\ task'[q] = task[q] /\ q # r
    BY <1>3, TaskKinds DEF AccountInv, Typed, TypeOK, Committing
  <2>9. \A q \in Request : Committing(q) => task[q].host \in HostId
    BY DEF Committing, AccountInv, Typed, TaskTyped
  <2>10. DrawnOnce'
    BY <1>2, <2>5, <2>8, <2>9 DEF AccountInv, DrawnOnce, h
  <2> QED
    BY <2>7, <2>10
<1>5. CASE ~AddressFree(b.email)
  BY <1>3, <1>5, NoNewCommit, TaskKinds DEF AccountInv, RegisterCommit
<1> QED
  BY <1>4, <1>5

\* What the other steps do to the tasks.
NotCommitting == {t \in HostTask \cup JoinTask \cup {Idle} : t \in HostTask => t.step # "commit"}

LEMMA OtherRouteSteps ==
  ASSUME AccountsAssumption, Typed, NEW r \in Request,
         \/ RejectBody(r) \/ RequestDies(r) \/ LoginLookup(r) \/ LoginCompare(r)
         \/ DrawEvent(r) \/ CreateEvent(r) \/ JoinLookup(r) \/ Join(r)
  PROVE  /\ UNCHANGED <<index, hosts>>
         /\ \E t \in NotCommitting : task' = [task EXCEPT ![r] = t]
<1>1. Idle \in NotCommitting
  BY TaskKinds DEF NotCommitting
<1>2. UNCHANGED <<index, hosts>>
  BY DEF RejectBody, RequestDies, LoginLookup, LoginCompare, DrawEvent, CreateEvent,
         JoinLookup, Join, store
<1>3. CASE task' = [task EXCEPT ![r] = Idle]
  BY <1>1, <1>2, <1>3
<1>4. CASE LoginLookup(r) /\ task' # [task EXCEPT ![r] = Idle]
  <2> DEFINE t == [task[r] EXCEPT !.host = Lookup(task[r].body.email), !.step = "record"]
  <2>1. task' = [task EXCEPT ![r] = t]
    BY <1>4 DEF LoginLookup, Fail, Typed, TypeOK
  <2>2. task[r] \in HostTask /\ Lookup(task[r].body.email) # None
    BY <1>4, RouteKind DEF LoginLookup, At, Typed, Fail
  <2>3. Lookup(task[r].body.email) \in HostId
    BY <2>2 DEF Lookup, Typed, TypeOK, HostTask, Credentials, AccountsAssumption
  <2>4. t \in HostTask /\ t.step = "record"
    BY <2>2, <2>3 DEF HostTask
  <2> HIDE DEF t
  <2> QED
    BY <1>2, <2>1, <2>4 DEF NotCommitting
<1>5. CASE DrawEvent(r) /\ task' # [task EXCEPT ![r] = Idle]
  <2>1. PICK e \in EventId, c \in Code :
          task' = [task EXCEPT ![r].event = e, ![r].code = c, ![r].step = "create"]
    BY <1>5 DEF DrawEvent, Fail
  <2> DEFINE t == [task[r] EXCEPT !.event = e, !.code = c, !.step = "create"]
  <2>2. task[r] \in HostTask
    BY <1>5, RouteKind DEF DrawEvent, At, Typed
  <2>3. task' = [task EXCEPT ![r] = t]
    BY <2>1 DEF Typed, TypeOK
  <2>4. t \in HostTask /\ t.step = "create"
    BY <2>2 DEF HostTask
  <2> HIDE DEF t
  <2> QED
    BY <1>2, <2>3, <2>4 DEF NotCommitting
<1>6. CASE JoinLookup(r) /\ task' # [task EXCEPT ![r] = Idle]
  <2> DEFINE t == [task[r] EXCEPT !.event = codes[task[r].code], !.step = "event"]
  <2>1. task' = [task EXCEPT ![r] = t] /\ codes[task[r].code] # None
    BY <1>6 DEF JoinLookup, Fail, Typed, TypeOK
  <2>2. task[r] \in JoinTask
    BY <1>6, RouteKind DEF JoinLookup, At, Typed
  <2>3. t \in JoinTask
    BY <2>1, <2>2 DEF JoinTask, Typed, TypeOK
  <2> HIDE DEF t
  <2> QED
    BY <1>2, <2>1, <2>3, TaskKinds DEF NotCommitting
<1> QED
  BY <1>3, <1>4, <1>5, <1>6 DEF RejectBody, RequestDies, LoginCompare, CreateEvent, Join,
       Fail, Accept, Admit

LEMMA FormSteps ==
  ASSUME Typed, FormStep
  PROVE  /\ UNCHANGED store
         /\ \/ task' = task
            \/ \E r \in Request, t \in NotCommitting : task' = [task EXCEPT ![r] = t]
<1>1. ASSUME NEW p \in HostPage, NEW r \in Request, NEW route \in {"register", "login", "events"},
             NEW body \in Credentials, Submit(p, r, HostRequest(route, p, body))
      PROVE  UNCHANGED store
             /\ \E t \in NotCommitting : task' = [task EXCEPT ![r] = t]
  <2>1. HostRequest(route, p, body) \in NotCommitting
    BY DEF HostRequest, HostTask, NotCommitting
  <2> QED
    BY <1>1, <2>1 DEF Submit
<1>2. ASSUME NEW p \in HostPage, NEW r \in Request, SubmitCreate(p, r)
      PROVE  creds[p] \in Credentials /\ Submit(p, r, HostRequest("events", p, creds[p]))
  BY <1>2 DEF SubmitCreate, Typed, TypeOK
<1>3. ASSUME NEW p \in Visitor, NEW r \in Request, NEW c \in Code, SubmitJoin(p, r, c)
      PROVE  UNCHANGED store
             /\ \E t \in NotCommitting : task' = [task EXCEPT ![r] = t]
  <2> DEFINE t == [route |-> "join", page |-> p, code |-> c, step |-> "code", event |-> None]
  <2>1. t \in JoinTask
    BY DEF JoinTask
  <2>2. t \in NotCommitting
    BY <2>1, TaskKinds DEF NotCommitting
  <2> QED
    BY <1>3, <2>2 DEF SubmitJoin, Submit
<1>4. ASSUME NEW p \in Page, EndSession(p)
      PROVE  UNCHANGED store /\ task' = task
  BY <1>4 DEF EndSession
<1> QED
  BY <1>1, <1>2, <1>3, <1>4 DEF FormStep, SubmitLogin

LEMMA AccountNext ==
  ASSUME AccountsAssumption, AccountInv, [Next]_vars
  PROVE  AccountInv'
<1>1. Typed'
  BY TypedNext DEF AccountInv
<1>2. ASSUME UNCHANGED <<index, hosts>>, task' = task
      PROVE  (OneHostPerEmail /\ DrawnOnce)'
  BY <1>2 DEF AccountInv, OneHostPerEmail, DrawnOnce, Committing
<1>3. ASSUME UNCHANGED <<index, hosts>>, NEW r \in Request, NEW t \in NotCommitting,
             task' = [task EXCEPT ![r] = t]
      PROVE  (OneHostPerEmail /\ DrawnOnce)'
  BY <1>3, NoNewCommit DEF AccountInv, NotCommitting
<1>4. ASSUME FormStep
      PROVE  (OneHostPerEmail /\ DrawnOnce)'
  <2>1. /\ UNCHANGED <<index, hosts>>
        /\ \/ task' = task
           \/ \E r \in Request, t \in NotCommitting : task' = [task EXCEPT ![r] = t]
    BY <1>4, FormSteps DEF AccountInv, store
  <2> QED
    BY <1>2, <1>3, <2>1
<1>5. ASSUME NEW r \in Request, RouteStep(r) \/ RequestDies(r)
      PROVE  (OneHostPerEmail /\ DrawnOnce)'
  BY <1>3, <1>5, OtherRouteSteps, RegisterLookupOnce, RegisterCommitOnce DEF RouteStep, AccountInv
<1>6. ASSUME \/ \E e \in EventId : Conclude(e)
             \/ \E p \in Page : GiveUp(p)
             \/ UNCHANGED vars
      PROVE  (OneHostPerEmail /\ DrawnOnce)'
  BY <1>2, <1>6 DEF Conclude, GiveUp, store, vars
<1> QED
  BY <1>1, <1>4, <1>5, <1>6 DEF Next, AccountInv

\* However registrations race, an address has one account, and every account is found
\* by its address.
THEOREM AccountsUnique == Spec => []OneHostPerEmail
<1>1. Init => AccountInv
  <2>1. ASSUME Init
        PROVE  OneHostPerEmail /\ DrawnOnce
    BY <2>1, TaskKinds, AccountsAssumption
       DEF Init, OneHostPerEmail, DrawnOnce, Committing, AccountsAssumption
  <2> QED
    BY <2>1, TypedInit DEF AccountInv
<1>2. AccountInv /\ [Next]_vars => AccountInv'
  BY AccountNext, AccountsAssumption
<1>3. AccountInv => OneHostPerEmail
  BY DEF AccountInv
<1> QED
  BY <1>1, <1>2, <1>3, PTL DEF Spec

----------------------------------------------------------------------------
(* A code leads to the event that shows it.                                  *)
CodeInv == Typed /\ CodesLead

LEMMA CodeNext ==
  ASSUME AccountsAssumption, CodeInv, [Next]_vars
  PROVE  CodeInv'
<1>1. Typed'
  BY TypedNext DEF CodeInv
<1>2. ASSUME UNCHANGED <<codes, events>>
      PROVE  CodesLead'
  BY <1>2 DEF CodeInv, CodesLead
<1>3. ASSUME NEW r \in Request, CreateEvent(r), UNCHANGED <<codes, events>> => FALSE
      PROVE  CodesLead'
  <2> DEFINE e == task[r].event  c == task[r].code
             record == [host |-> task[r].host, code |-> c, closed |-> FALSE]
  <2>1. task[r] # Idle /\ task[r].step = "create" /\ task[r] \in HostTask
    BY <1>3, RouteKind DEF CreateEvent, At, CodeInv, Typed
  <2>2. e \in EventId /\ c \in Code /\ task[r].host \in HostId
    BY <2>1 DEF CodeInv, Typed, TaskTyped
  <2>3. record \in EventRecord /\ record # Absent /\ record.code = c
    BY <2>2, RecordKinds DEF EventRecord
  <2>4. /\ events[e] = Absent /\ codes[c] = None
        /\ events' = [events EXCEPT ![e] = record] /\ codes' = [codes EXCEPT ![c] = e]
    BY <1>3 DEF CreateEvent, KeysFree
  <2> HIDE DEF record, e, c
  <2>5. \A f \in EventId : events'[f] = IF f = e THEN record ELSE events[f]
    BY <2>4 DEF CodeInv, Typed, TypeOK
  <2>6. \A d \in Code : codes'[d] = IF d = c THEN e ELSE codes[d]
    BY <2>4 DEF CodeInv, Typed, TypeOK
  <2>7. \A f \in EventId : events[f] # Absent => events[f].code # c
    BY <2>2, <2>4, AccountsAssumption DEF CodeInv, CodesLead, AccountsAssumption
  <2> QED
    BY <2>2, <2>3, <2>4, <2>5, <2>6, <2>7 DEF CodeInv, CodesLead
<1>4. ASSUME NEW e \in EventId, Conclude(e)
      PROVE  CodesLead'
  <2>1. events[e] \in EventRecord
    BY <1>4 DEF Conclude, CodeInv, Typed, TypeOK
  <2>2. events'[e] \in EventRecord /\ events'[e].code = events[e].code
    BY <1>4, <2>1 DEF Conclude, CodeInv, Typed, TypeOK, EventRecord
  <2>3. codes' = codes /\ \A f \in EventId \ {e} : events'[f] = events[f]
    BY <1>4 DEF Conclude, CodeInv, Typed, TypeOK
  <2> QED
    BY <2>1, <2>2, <2>3, RecordKinds DEF CodeInv, CodesLead
<1>5. ASSUME FormStep \/ UNCHANGED vars \/ \E p \in Page : GiveUp(p)
      PROVE  CodesLead'
  <2>1. CASE FormStep
    BY <1>2, <2>1, FormSteps DEF CodeInv, store
  <2>2. CASE UNCHANGED vars \/ \E p \in Page : GiveUp(p)
    BY <1>2, <2>2 DEF GiveUp, store, vars
  <2> QED
    BY <1>5, <2>1, <2>2
<1>6. ASSUME NEW r \in Request, RouteStep(r) \/ RequestDies(r)
      PROVE  CodesLead'
  BY <1>2, <1>3, <1>6 DEF RouteStep, RejectBody, RequestDies, RegisterLookup, RegisterCommit,
       LoginLookup, LoginCompare, DrawEvent, JoinLookup, Join, store
<1> QED
  BY <1>1, <1>4, <1>5, <1>6 DEF Next, CodeInv

\* Whatever ids and codes are drawn, a code leads to the one event that shows it.
THEOREM CodesCorrect == Spec => []CodesLead
<1>1. Init => CodeInv
  BY TypedInit, AccountsAssumption DEF CodeInv, Init, CodesLead, AccountsAssumption
<1>2. CodeInv /\ [Next]_vars => CodeInv'
  BY CodeNext, AccountsAssumption
<1>3. CodeInv => CodesLead
  BY DEF CodeInv
<1> QED
  BY <1>1, <1>2, <1>3, PTL DEF Spec

----------------------------------------------------------------------------
(* Credentials and sessions.  What a page keeps, and what a request of it      *)
(* carries, was good once and stays good, as the store only grows.           *)
Good(c, ix, hs) ==
  LET h == ix[Normal(c.email)] IN
  h # None /\ hs[h] # Absent /\ hs[h].password = c.password

TaskGood ==
  \A r \in Request : task[r] \in HostTask =>
    /\ task[r].route = "events" => Good(task[r].body, index, hosts)
    /\ task[r].step \in {"record", "create"} => task[r].host = index[Normal(task[r].body.email)]
    /\ task[r].route = "events" /\ waiting[task[r].page] = r => creds[task[r].page] = task[r].body

Waits ==
  \A p \in Page : waiting[p] # None =>
    task[waiting[p]] # Idle /\ task[waiting[p]].page = p /\ session[p] = None

PageGood ==
  \A p \in HostPage :
    /\ creds[p] # Absent => Good(creds[p], index, hosts)
    /\ session[p] # None => creds[p] # Absent
    /\ err[p] # "unauthenticated"

PagesInv == TaskGood /\ Waits /\ PageGood /\ OwnSession

Grows ==
  /\ \A s \in Spelling : index[s] # None => index'[s] = index[s]
  /\ \A h \in HostId : hosts[h] # Absent => hosts'[h] = hosts[h]
  /\ \A e \in EventId : events[e] # Absent =>
       events'[e] # Absent /\ events'[e].host = events[e].host

LEMMA StoreGrows ==
  ASSUME AccountsAssumption, AccountInv, [Next]_vars
  PROVE  Grows
<1>1. ASSUME UNCHANGED <<index, hosts, events>>
      PROVE  Grows
  BY <1>1 DEF Grows
<1>2. ASSUME NEW r \in Request, RegisterCommit(r), index' # index \/ hosts' # hosts
      PROVE  Grows
  <2> DEFINE b == task[r].body  s == Normal(b.email)  h == task[r].host
             record == [email |-> s, password |-> b.password]
  <2>1. task[r] # Idle /\ task[r].step = "commit" /\ task[r] \in HostTask
    BY <1>2, RouteKind DEF RegisterCommit, At, AccountInv, Typed
  <2>2. h \in HostId /\ Committing(r)
    BY <2>1 DEF AccountInv, Typed, TaskTyped, Committing
  <2>3. /\ index[s] = None /\ events' = events
        /\ hosts' = [hosts EXCEPT ![h] = record] /\ index' = [index EXCEPT ![s] = h]
    BY <1>2 DEF RegisterCommit, AddressFree, Lookup
  <2>4. hosts[h] = Absent
    BY <2>2 DEF AccountInv, DrawnOnce
  <2> HIDE DEF record, s, h, b
  <2> QED
    BY <2>2, <2>3, <2>4 DEF Grows, AccountInv, Typed, TypeOK
<1>3. ASSUME NEW r \in Request, CreateEvent(r), events' # events
      PROVE  Grows
  <2> DEFINE e == task[r].event
             record == [host |-> task[r].host, code |-> task[r].code, closed |-> FALSE]
  <2>1. events[e] = Absent /\ events' = [events EXCEPT ![e] = record] /\ UNCHANGED <<index, hosts>>
    BY <1>3 DEF CreateEvent, KeysFree
  <2> HIDE DEF record, e
  <2> QED
    BY <2>1 DEF Grows, AccountInv, Typed, TypeOK
<1>4. ASSUME NEW e \in EventId, Conclude(e)
      PROVE  Grows
  <2>1. events[e] \in EventRecord
    BY <1>4 DEF Conclude, AccountInv, Typed, TypeOK
  <2>2. events'[e] \in EventRecord /\ events'[e].host = events[e].host
    BY <1>4, <2>1 DEF Conclude, AccountInv, Typed, TypeOK, EventRecord
  <2>3. /\ UNCHANGED <<index, hosts>>
        /\ \A f \in EventId \ {e} : events'[f] = events[f]
    BY <1>4 DEF Conclude, AccountInv, Typed, TypeOK
  <2> QED
    BY <2>2, <2>3, RecordKinds DEF Grows
<1>5. ASSUME FormStep \/ UNCHANGED vars \/ \E p \in Page : GiveUp(p)
      PROVE  Grows
  <2>1. CASE FormStep
    BY <1>1, <2>1, FormSteps DEF AccountInv, store
  <2>2. CASE UNCHANGED vars \/ \E p \in Page : GiveUp(p)
    BY <1>1, <2>2 DEF GiveUp, store, vars
  <2> QED
    BY <1>5, <2>1, <2>2
<1>6. ASSUME NEW r \in Request, RouteStep(r) \/ RequestDies(r)
      PROVE  Grows
  BY <1>1, <1>2, <1>3, <1>6 DEF RouteStep, RejectBody, RequestDies, RegisterLookup,
       RegisterCommit, CreateEvent, LoginLookup, LoginCompare, DrawEvent, JoinLookup, Join, store
<1> QED
  BY <1>4, <1>5, <1>6 DEF Next

\* What is good stays good; an event that is the host's stays the host's.
LEMMA GoodStays ==
  ASSUME AccountsAssumption, Typed, Grows, NEW c \in Credentials, Good(c, index, hosts)
  PROVE  Good(c, index', hosts') /\ index'[Normal(c.email)] = index[Normal(c.email)]
<1>1. Normal(c.email) \in Spelling
  BY DEF Credentials, AccountsAssumption
<1> QED
  BY <1>1 DEF Good, Grows, Typed, TypeOK

LEMMA OwnStays ==
  ASSUME AccountsAssumption, Typed, PagesInv, Grows, NEW p \in Page, session[p] # None,
         session'[p] = session[p], p \in HostPage => creds'[p] = creds[p]
  PROVE  /\ events'[session'[p]] # Absent
         /\ p \in HostPage => events'[session'[p]].host = index'[Normal(creds'[p].email)]
<1>1. session[p] \in EventId
  BY DEF Typed, TypeOK
<1>2. events[session[p]] # Absent
  BY DEF PagesInv, OwnSession
<1>3. ASSUME p \in HostPage
      PROVE  events'[session[p]].host = index'[Normal(creds[p].email)]
  <2>1. creds[p] \in Credentials /\ Good(creds[p], index, hosts)
    BY <1>3 DEF PagesInv, PageGood, Typed, TypeOK
  <2>2. index'[Normal(creds[p].email)] = index[Normal(creds[p].email)]
    BY <2>1, GoodStays
  <2> QED
    BY <1>1, <1>2, <1>3, <2>2 DEF Grows, PagesInv, OwnSession
<1> QED
  BY <1>1, <1>2, <1>3 DEF Grows

\* A task that a step leaves alone is as good as before.
LEMMA TaskKept ==
  ASSUME AccountsAssumption, Typed, TaskGood, Grows,
         NEW q \in Request, task[q] \in HostTask, task'[q] = task[q],
         LET p == task[q].page IN waiting'[p] = q => waiting[p] = q /\ creds'[p] = creds[p]
  PROVE  /\ task'[q].route = "events" => Good(task'[q].body, index', hosts')
         /\ task'[q].step \in {"record", "create"} =>
              task'[q].host = index'[Normal(task'[q].body.email)]
         /\ task'[q].route = "events" /\ waiting'[task'[q].page] = q =>
              creds'[task'[q].page] = task'[q].body
<1> DEFINE b == task[q].body
<1>1. b \in Credentials /\ Normal(b.email) \in Spelling
  BY DEF HostTask, Credentials, AccountsAssumption
<1>2. task[q].route = "events" => Good(b, index', hosts')
  BY <1>1, GoodStays DEF TaskGood
<1>3. task[q].step \in {"record", "create"} => task[q].host = index'[Normal(b.email)]
  <2>1. ASSUME task[q].step \in {"record", "create"}
        PROVE  task[q].host \in HostId /\ task[q].host = index[Normal(b.email)]
    BY <2>1 DEF Typed, TaskTyped, TaskGood
  <2> QED
    BY <1>1, <2>1, AccountsAssumption DEF Grows, AccountsAssumption
<1> QED
  BY <1>2, <1>3 DEF TaskGood

\* A request that begins.
LEMMA BeginGood ==
  ASSUME AccountsAssumption, Typed, PagesInv, Grows, NEW p \in Page, NEW r \in Request,
         NEW t \in HostTask \cup JoinTask, t.page = p, t.step \in {"index", "code"},
         t.route = "events" => p \in HostPage /\ t.body \in Credentials /\ t.body = creds[p],
         Submit(p, r, t)
  PROVE  PagesInv'
<1>1. /\ task' = [task EXCEPT ![r] = t] /\ task[r] = Idle
      /\ waiting' = [waiting EXCEPT ![p] = r] /\ waiting[p] = None /\ session[p] = None
      /\ err' = [err EXCEPT ![p] = "no"] /\ UNCHANGED <<creds, session>>
  BY DEF Submit
<1>2. TaskGood'
  <2> SUFFICES ASSUME NEW q \in Request, task'[q] \in HostTask
               PROVE  /\ task'[q].route = "events" => Good(task'[q].body, index', hosts')
                      /\ task'[q].step \in {"record", "create"} =>
                           task'[q].host = index'[Normal(task'[q].body.email)]
                      /\ task'[q].route = "events" /\ waiting'[task'[q].page] = q =>
                           creds'[task'[q].page] = task'[q].body
    BY DEF TaskGood
  <2>1. CASE q = r
    <3>1. task'[q] = t
      BY <1>1, <2>1 DEF Typed, TypeOK
    <3>2. t.route = "events" => Good(t.body, index, hosts)
      BY RecordKinds DEF PagesInv, PageGood
    <3>3. t.route = "events" => Good(t.body, index', hosts')
      BY <3>2, GoodStays
    <3> QED
      BY <1>1, <3>1, <3>3
  <2>2. CASE q # r
    <3>1. task'[q] = task[q]
      BY <1>1, <2>2 DEF Typed, TypeOK
    <3>2. task[q].page \in Page
      BY <3>1 DEF HostTask, Page
    <3>3. waiting'[task[q].page] = q => waiting[task[q].page] = q
      BY <1>1, <2>2, <3>2 DEF Typed, TypeOK
    <3> QED
      BY <1>1, <3>1, <3>3, TaskKept DEF PagesInv
  <2> QED
    BY <2>1, <2>2
<1>3. Waits'
  <2> SUFFICES ASSUME NEW a \in Page, waiting'[a] # None
               PROVE  task'[waiting'[a]] # Idle /\ task'[waiting'[a]].page = a /\ session'[a] = None
    BY DEF Waits
  <2>1. CASE a = p
    BY <1>1, <2>1, TaskKinds DEF Typed, TypeOK
  <2>2. CASE a # p
    <3>1. waiting'[a] = waiting[a] /\ waiting[a] \in Request
      BY <1>1, <2>2 DEF Typed, TypeOK
    <3>2. waiting[a] # r
      BY <1>1, <3>1 DEF PagesInv, Waits
    <3> QED
      BY <1>1, <3>1, <3>2 DEF PagesInv, Waits, Typed, TypeOK
  <2> QED
    BY <2>1, <2>2
<1>4. PageGood'
  <2> SUFFICES ASSUME NEW a \in HostPage
               PROVE  /\ creds'[a] # Absent => Good(creds'[a], index', hosts')
                      /\ session'[a] # None => creds'[a] # Absent
                      /\ err'[a] # "unauthenticated"
    BY DEF PageGood
  <2>1. creds[a] # Absent => creds[a] \in Credentials /\ Good(creds[a], index, hosts)
    BY DEF PagesInv, PageGood, Typed, TypeOK
  <2>2. err'[a] # "unauthenticated"
    BY <1>1 DEF PagesInv, PageGood, Typed, TypeOK, Page
  <2> QED
    BY <1>1, <2>1, <2>2, GoodStays DEF PagesInv, PageGood
<1>5. OwnSession'
  BY <1>1, OwnStays DEF OwnSession
<1> QED
  BY <1>2, <1>3, <1>4, <1>5 DEF PagesInv

\* A request that ends: the page no longer waits for it, and only a page that did may
\* get new credentials.
LEMMA EndGood ==
  ASSUME AccountsAssumption, Typed, PagesInv, Grows, NEW r \in Request, NEW p \in Page,
         task[r] # Idle, p = task[r].page, task' = [task EXCEPT ![r] = Idle],
         waiting' = IF waiting[p] = r THEN [waiting EXCEPT ![p] = None] ELSE waiting,
         \A a \in HostPage : (waiting[p] = r /\ a = p) \/ creds'[a] = creds[a],
         \A a \in Page : (waiting[p] = r /\ a = p) \/ session'[a] = session[a]
  PROVE  TaskGood' /\ Waits'
<1>1. \A q \in Request : task'[q] = IF q = r THEN Idle ELSE task[q]
  BY DEF Typed, TypeOK
<1>2. \A a \in Page : waiting'[a] # None => waiting'[a] = waiting[a] /\ waiting[a] \in Request
                                            /\ (a = p => waiting[p] # r)
  BY DEF Typed, TypeOK
<1>3. \A a \in Page : waiting'[a] # None => waiting'[a] # r
  BY <1>2 DEF PagesInv, Waits
<1>4. TaskGood'
  <2> SUFFICES ASSUME NEW q \in Request, task'[q] \in HostTask
               PROVE  /\ task'[q].route = "events" => Good(task'[q].body, index', hosts')
                      /\ task'[q].step \in {"record", "create"} =>
                           task'[q].host = index'[Normal(task'[q].body.email)]
                      /\ task'[q].route = "events" /\ waiting'[task'[q].page] = q =>
                           creds'[task'[q].page] = task'[q].body
    BY DEF TaskGood
  <2>1. q # r /\ task'[q] = task[q]
    BY <1>1, TaskKinds
  <2>2. task[q].page \in HostPage /\ q # None
    BY <2>1, AccountsAssumption DEF HostTask, AccountsAssumption
  <2>3. waiting'[task[q].page] = q =>
          waiting[task[q].page] = q /\ creds'[task[q].page] = creds[task[q].page]
    BY <1>2, <2>2 DEF Page
  <2> QED
    BY <2>1, <2>3, TaskKept DEF PagesInv
<1>5. Waits'
  BY <1>1, <1>2, <1>3 DEF PagesInv, Waits
<1> QED
  BY <1>4, <1>5

LEMMA FailGood ==
  ASSUME AccountsAssumption, Typed, PagesInv, Grows, NEW r \in Request, task[r] # Idle,
         NEW e \in Error, e # "unauthenticated", Fail(r, e)
  PROVE  PagesInv'
<1> DEFINE p == task[r].page
<1>1. p \in Page
  BY RouteKind DEF Typed
<1>2. /\ task' = [task EXCEPT ![r] = Idle] /\ UNCHANGED <<creds, session>>
      /\ waiting' = IF waiting[p] = r THEN [waiting EXCEPT ![p] = None] ELSE waiting
      /\ err' = IF waiting[p] = r THEN [err EXCEPT ![p] = e] ELSE err
  BY DEF Fail
<1> HIDE DEF p
<1>3. TaskGood' /\ Waits'
  BY <1>1, <1>2, EndGood DEF p
<1>4. PageGood'
  <2> SUFFICES ASSUME NEW a \in HostPage
               PROVE  /\ creds[a] # Absent => Good(creds[a], index', hosts')
                      /\ session[a] # None => creds[a] # Absent
                      /\ err'[a] # "unauthenticated"
    BY <1>2 DEF PageGood
  <2>1. creds[a] # Absent => creds[a] \in Credentials /\ Good(creds[a], index, hosts)
    BY DEF PagesInv, PageGood, Typed, TypeOK
  <2>2. err'[a] # "unauthenticated"
    BY <1>2 DEF PagesInv, PageGood, Typed, TypeOK, Page
  <2> QED
    BY <2>1, <2>2, GoodStays DEF PagesInv, PageGood
<1>5. OwnSession'
  BY <1>2, OwnStays DEF OwnSession
<1> QED
  BY <1>3, <1>4, <1>5 DEF PagesInv

LEMMA AcceptGood ==
  ASSUME AccountsAssumption, Typed, PagesInv, Grows, NEW r \in Request, task[r] \in HostTask,
         Good(task[r].body, index', hosts'), Accept(r)
  PROVE  PagesInv'
<1> DEFINE p == task[r].page  b == task[r].body
<1>1. p \in HostPage /\ p \in Page /\ task[r] # Idle
  BY TaskKinds DEF HostTask, Page
<1>2. /\ task' = [task EXCEPT ![r] = Idle] /\ UNCHANGED <<session, err>>
      /\ waiting' = IF waiting[p] = r THEN [waiting EXCEPT ![p] = None] ELSE waiting
      /\ creds' = IF waiting[p] = r THEN [creds EXCEPT ![p] = b] ELSE creds
  BY DEF Accept
<1>3. waiting[p] = r => session[p] = None
  BY <1>1, AccountsAssumption DEF PagesInv, Waits, AccountsAssumption
<1>4. Good(b, index', hosts')
  OBVIOUS
<1> HIDE DEF p, b
<1>5. \A a \in HostPage : creds'[a] = IF a = p /\ waiting[p] = r THEN b ELSE creds[a]
  BY <1>2 DEF Typed, TypeOK
<1>6. TaskGood' /\ Waits'
  <2>1. /\ \A a \in HostPage : (waiting[p] = r /\ a = p) \/ creds'[a] = creds[a]
        /\ \A a \in Page : (waiting[p] = r /\ a = p) \/ session'[a] = session[a]
    BY <1>2, <1>5
  <2>2. p = task[r].page /\ task[r] # Idle
    BY <1>1 DEF p
  <2> QED
    BY <1>1, <1>2, <2>1, <2>2, EndGood
<1>7. PageGood'
  <2> SUFFICES ASSUME NEW a \in HostPage
               PROVE  /\ creds'[a] # Absent => Good(creds'[a], index', hosts')
                      /\ session[a] # None => creds'[a] # Absent
                      /\ err[a] # "unauthenticated"
    BY <1>2 DEF PageGood
  <2>1. creds[a] # Absent => creds[a] \in Credentials /\ Good(creds[a], index, hosts)
    BY DEF PagesInv, PageGood, Typed, TypeOK
  <2> QED
    BY <1>3, <1>4, <1>5, <2>1, GoodStays DEF PagesInv, PageGood
<1>8. OwnSession'
  <2> SUFFICES ASSUME NEW a \in Page, session'[a] # None
               PROVE  /\ events'[session'[a]] # Absent
                      /\ a \in HostPage => events'[session'[a]].host = index'[Normal(creds'[a].email)]
    BY DEF OwnSession
  <2> QED
    BY <1>2, <1>3, <1>5, OwnStays
<1> QED
  BY <1>6, <1>7, <1>8 DEF PagesInv

LEMMA AdmitGood ==
  ASSUME AccountsAssumption, Typed, PagesInv, Grows, NEW r \in Request, task[r] # Idle,
         NEW e \in EventId, events'[e] # Absent,
         task[r] \in HostTask => /\ task[r].route = "events"
                                 /\ events'[e].host = index'[Normal(task[r].body.email)],
         Admit(r, e)
  PROVE  PagesInv'
<1> DEFINE p == task[r].page
<1>1. p \in Page /\ (p \in HostPage <=> task[r] \in HostTask)
  BY RouteKind, TaskKinds, AccountsAssumption
     DEF Typed, TypeOK, HostTask, JoinTask, AccountsAssumption
<1>2. /\ task' = [task EXCEPT ![r] = Idle] /\ UNCHANGED <<creds, err>>
      /\ waiting' = IF waiting[p] = r THEN [waiting EXCEPT ![p] = None] ELSE waiting
      /\ session' = IF waiting[p] = r THEN [session EXCEPT ![p] = e] ELSE session
  BY DEF Admit
<1>3. p \in HostPage /\ waiting[p] = r => creds[p] = task[r].body /\ creds[p] # Absent
  <2>1. ASSUME p \in HostPage, waiting[p] = r
        PROVE  creds[p] = task[r].body /\ task[r].body \in Credentials
    BY <1>1, <2>1 DEF PagesInv, TaskGood, HostTask
  <2> QED
    BY <2>1, RecordKinds
<1>4. p \in HostPage => events'[e].host = index'[Normal(task[r].body.email)]
  BY <1>1
<1> HIDE DEF p
<1>5. \A a \in Page : session'[a] = IF a = p /\ waiting[p] = r THEN e ELSE session[a]
  BY <1>2 DEF Typed, TypeOK
<1>6. TaskGood' /\ Waits'
  <2>1. /\ \A a \in HostPage : (waiting[p] = r /\ a = p) \/ creds'[a] = creds[a]
        /\ \A a \in Page : (waiting[p] = r /\ a = p) \/ session'[a] = session[a]
    BY <1>2, <1>5
  <2>2. p = task[r].page /\ task[r] # Idle
    BY <1>1 DEF p
  <2> QED
    BY <1>1, <1>2, <2>1, <2>2, EndGood
<1>7. PageGood'
  <2> SUFFICES ASSUME NEW a \in HostPage
               PROVE  /\ creds[a] # Absent => Good(creds[a], index', hosts')
                      /\ session'[a] # None => creds[a] # Absent
                      /\ err[a] # "unauthenticated"
    BY <1>2 DEF PageGood
  <2>1. creds[a] # Absent => creds[a] \in Credentials /\ Good(creds[a], index, hosts)
    BY DEF PagesInv, PageGood, Typed, TypeOK
  <2> QED
    BY <1>3, <1>5, <2>1, GoodStays DEF PagesInv, PageGood, Page
<1>8. OwnSession'
  <2> SUFFICES ASSUME NEW a \in Page, session'[a] # None
               PROVE  /\ events'[session'[a]] # Absent
                      /\ a \in HostPage => events'[session'[a]].host = index'[Normal(creds[a].email)]
    BY <1>2 DEF OwnSession
  <2>1. CASE a = p /\ waiting[p] = r
    BY <1>3, <1>4, <1>5, <2>1
  <2>2. CASE ~(a = p /\ waiting[p] = r)
    BY <1>2, <1>5, <2>2, OwnStays
  <2> QED
    BY <2>1, <2>2
<1> QED
  BY <1>6, <1>7, <1>8 DEF PagesInv

\* A request of a host, or of a participant, that goes on.
LEMMA GoOnGood ==
  ASSUME Typed, PagesInv, NEW r \in Request, task[r] # Idle,
         NEW t \in HostTask \cup JoinTask, t.page = task[r].page,
         t \in HostTask => /\ task[r] \in HostTask
                           /\ t.body = task[r].body /\ t.route = task[r].route
                           /\ t.step \in {"record", "create"} => t.host = index[Normal(t.body.email)],
         task' = [task EXCEPT ![r] = t], UNCHANGED <<index, hosts, events, creds, session, waiting, err>>
  PROVE  PagesInv'
<1>1. \A q \in Request : task'[q] = IF q = r THEN t ELSE task[q]
  BY DEF Typed, TypeOK
<1>2. TaskGood'
  BY <1>1 DEF PagesInv, TaskGood
<1>3. Waits'
  BY <1>1, TaskKinds DEF PagesInv, Waits, Typed, TypeOK
<1>4. PageGood' /\ OwnSession'
  BY DEF PagesInv, PageGood, OwnSession
<1> QED
  BY <1>2, <1>3, <1>4 DEF PagesInv

\* A page that leaves its event, or gives a request up.
EndSessionOrGiveUp == \E p \in Page : EndSession(p) \/ GiveUp(p)

LEMMA LeaveGood ==
  ASSUME Typed, PagesInv, EndSessionOrGiveUp \/ UNCHANGED vars
  PROVE  PagesInv'
<1>1. /\ \A a \in Page : waiting'[a] # None => waiting'[a] = waiting[a]
      /\ \A a \in Page : session'[a] # None => session'[a] = session[a]
      /\ \A a \in Page : err'[a] \in {err[a], "network"}
      /\ UNCHANGED <<index, hosts, events, task, creds>>
  BY DEF EndSessionOrGiveUp, EndSession, GiveUp, Typed, TypeOK, vars, store, pages
<1>2. TaskGood'
  <2>1. \A q \in Request : task[q] \in HostTask => task[q].page \in Page /\ q # None
    BY AccountsAssumption DEF HostTask, Page, AccountsAssumption
  <2> QED
    BY <1>1, <2>1 DEF PagesInv, TaskGood
<1>3. Waits'
  BY <1>1 DEF PagesInv, Waits
<1>4. PageGood'
  BY <1>1 DEF PagesInv, PageGood, Page
<1>5. OwnSession'
  BY <1>1 DEF PagesInv, OwnSession
<1> QED
  BY <1>2, <1>3, <1>4, <1>5 DEF PagesInv

SessionInv == AccountInv /\ PagesInv

LEMMA FormGood ==
  ASSUME AccountsAssumption, SessionInv, Grows, FormStep
  PROVE  PagesInv'
<1>1. Typed /\ PagesInv
  BY DEF SessionInv, AccountInv
<1>2. ASSUME NEW p \in HostPage, NEW r \in Request, NEW route \in {"register", "login"},
             NEW body \in Credentials, SubmitLogin(p, r, route, body)
      PROVE  PagesInv'
  <2> DEFINE t == HostRequest(route, p, body)
  <2>1. t \in HostTask /\ t.page = p /\ t.step = "index" /\ t.route # "events" /\ p \in Page
    BY DEF HostRequest, HostTask, Page
  <2>2. Submit(p, r, t)
    BY <1>2 DEF SubmitLogin
  <2> HIDE DEF t
  <2> QED
    BY <1>1, <2>1, <2>2, BeginGood
<1>3. ASSUME NEW p \in HostPage, NEW r \in Request, SubmitCreate(p, r)
      PROVE  PagesInv'
  <2> DEFINE t == HostRequest("events", p, creds[p])
  <2>1. creds[p] \in Credentials
    BY <1>1, <1>3 DEF SubmitCreate, Typed, TypeOK
  <2>2. t \in HostTask /\ t.page = p /\ t.step = "index" /\ t.body = creds[p] /\ p \in Page
    BY <2>1 DEF HostRequest, HostTask, Page
  <2>3. Submit(p, r, t)
    BY <1>3 DEF SubmitCreate
  <2> HIDE DEF t
  <2> QED
    BY <1>1, <2>1, <2>2, <2>3, BeginGood
<1>4. ASSUME NEW p \in Visitor, NEW r \in Request, NEW c \in Code, SubmitJoin(p, r, c)
      PROVE  PagesInv'
  <2> DEFINE t == [route |-> "join", page |-> p, code |-> c, step |-> "code", event |-> None]
  <2>1. t \in JoinTask /\ t.page = p /\ t.step = "code" /\ t.route # "events" /\ p \in Page
    BY DEF JoinTask, Page
  <2>2. Submit(p, r, t)
    BY <1>4 DEF SubmitJoin
  <2> HIDE DEF t
  <2> QED
    BY <1>1, <2>1, <2>2, BeginGood
<1>5. ASSUME NEW p \in Page, EndSession(p)
      PROVE  PagesInv'
  BY <1>1, <1>5, LeaveGood DEF EndSessionOrGiveUp
<1> QED
  BY <1>2, <1>3, <1>4, <1>5 DEF FormStep

LEMMA RegisterGood ==
  ASSUME AccountsAssumption, SessionInv, Grows, NEW r \in Request,
         RegisterLookup(r) \/ RegisterCommit(r)
  PROVE  PagesInv'
<1>1. Typed /\ PagesInv
  BY DEF SessionInv, AccountInv
<1>2. CASE RegisterLookup(r)
  <2>1. task[r] # Idle /\ task[r].route = "register" /\ task[r] \in HostTask
    BY <1>1, <1>2, RouteKind DEF RegisterLookup, At, Typed
  <2>2. CASE index[Normal(task[r].body.email)] # None
    BY <1>1, <1>2, <2>1, <2>2, FailGood DEF RegisterLookup, Error
  <2>3. CASE index[Normal(task[r].body.email)] = None
    <3>1. PICK h \in HostId : task' = [task EXCEPT ![r].host = h, ![r].step = "commit"]
      BY <1>2, <2>3 DEF RegisterLookup
    <3> DEFINE t == [task[r] EXCEPT !.host = h, !.step = "commit"]
    <3>2. t \in HostTask /\ t.step = "commit" /\ t.route = task[r].route
          /\ t.body = task[r].body /\ t.page = task[r].page
      BY <2>1 DEF HostTask
    <3>3. task' = [task EXCEPT ![r] = t]
      BY <1>1, <3>1 DEF Typed, TypeOK
    <3>4. UNCHANGED <<index, hosts, events, creds, session, waiting, err>>
      BY <1>2, <2>3 DEF RegisterLookup, store, pages
    <3> HIDE DEF t
    <3> QED
      BY <1>1, <2>1, <3>2, <3>3, <3>4, GoOnGood
  <2> QED
    BY <2>2, <2>3
<1>3. CASE RegisterCommit(r)
  <2> DEFINE b == task[r].body  s == Normal(b.email)  h == task[r].host
             record == [email |-> s, password |-> b.password]
  <2>1. task[r] # Idle /\ task[r].step = "commit" /\ task[r] \in HostTask
    BY <1>1, <1>3, RouteKind DEF RegisterCommit, At, Typed
  <2>2. h \in HostId /\ h # None /\ b \in Credentials /\ s \in Spelling
    BY <1>1, <2>1, AccountsAssumption
       DEF Typed, TaskTyped, HostTask, Credentials, AccountsAssumption
  <2>3. CASE AddressFree(b.email)
    <3>1. /\ hosts' = [hosts EXCEPT ![h] = record] /\ index' = [index EXCEPT ![s] = h] /\ Accept(r)
      BY <1>3, <2>3 DEF RegisterCommit
    <3>2. record \in HostRecord /\ record # Absent /\ record.password = b.password
      BY <2>2, RecordKinds DEF HostRecord, Credentials
    <3> HIDE DEF record
    <3>3. index'[s] = h /\ hosts'[h] = record
      BY <1>1, <2>2, <3>1 DEF Typed, TypeOK
    <3>4. Good(task[r].body, index', hosts')
      BY <2>2, <3>2, <3>3 DEF Good
    <3> QED
      BY <1>1, <2>1, <3>1, <3>4, AcceptGood
  <2>4. CASE ~AddressFree(b.email)
    BY <1>1, <1>3, <2>1, <2>4, FailGood DEF RegisterCommit, Error
  <2> QED
    BY <2>3, <2>4
<1> QED
  BY <1>2, <1>3

\* The record that a request of the host has found.
LEMMA FoundGood ==
  ASSUME AccountsAssumption, SessionInv, NEW r \in Request, task[r] \in HostTask,
         task[r].step \in {"record", "create"}
  PROVE  /\ task[r].host = index[Normal(task[r].body.email)] /\ task[r].host # None
         /\ Matches(r) <=> Good(task[r].body, index, hosts)
<1>1. task[r].host \in HostId /\ task[r].host = index[Normal(task[r].body.email)]
  BY DEF SessionInv, AccountInv, Typed, TaskTyped, PagesInv, TaskGood
<1> QED
  BY <1>1, AccountsAssumption DEF Matches, Good, AccountsAssumption

LEMMA LoginGood ==
  ASSUME AccountsAssumption, SessionInv, Grows, NEW r \in Request,
         LoginLookup(r) \/ LoginCompare(r)
  PROVE  PagesInv'
<1>1. Typed /\ PagesInv
  BY DEF SessionInv, AccountInv
<1>2. CASE LoginLookup(r)
  <2>1. task[r] # Idle /\ task[r].route \in {"login", "events"} /\ task[r] \in HostTask
    BY <1>1, <1>2, RouteKind DEF LoginLookup, At, Typed
  <2> DEFINE h == Lookup(task[r].body.email)
  <2>2. task[r].route = "events" => h # None
    BY <1>1, <2>1 DEF PagesInv, TaskGood, Good, Lookup
  <2>3. CASE h = None
    <3>1. Unknown(r) = "invalid credentials"
      BY <2>1, <2>2, <2>3 DEF Unknown
    <3> QED
      BY <1>1, <1>2, <2>1, <2>3, <3>1, FailGood DEF LoginLookup, Error
  <2>4. CASE h # None
    <3> DEFINE t == [task[r] EXCEPT !.host = h, !.step = "record"]
    <3>1. h \in HostId
      BY <1>1, <2>1, <2>4 DEF Lookup, Typed, TypeOK, HostTask, Credentials, AccountsAssumption
    <3>2. t \in HostTask /\ t.route = task[r].route /\ t.body = task[r].body
          /\ t.page = task[r].page /\ t.host = h
      BY <2>1, <3>1 DEF HostTask
    <3>3. task' = [task EXCEPT ![r] = t]
      BY <1>1, <1>2, <2>4 DEF LoginLookup, Typed, TypeOK
    <3>4. UNCHANGED <<index, hosts, events, creds, session, waiting, err>>
      BY <1>2, <2>4 DEF LoginLookup, store, pages
    <3>5. h = index[Normal(t.body.email)]
      BY <3>2 DEF Lookup
    <3> HIDE DEF t, h
    <3> QED
      BY <1>1, <2>1, <3>2, <3>3, <3>4, <3>5, GoOnGood
  <2> QED
    BY <2>3, <2>4
<1>3. CASE LoginCompare(r)
  <2>1. task[r] # Idle /\ task[r].route = "login" /\ task[r].step = "record" /\ task[r] \in HostTask
    BY <1>1, <1>3, RouteKind DEF LoginCompare, At, Typed
  <2>2. CASE Matches(r)
    <3>1. Good(task[r].body, index', hosts') /\ Accept(r)
      BY <1>3, <2>1, <2>2, FoundGood DEF LoginCompare, store
    <3> QED
      BY <1>1, <2>1, <3>1, AcceptGood
  <2>3. CASE ~Matches(r)
    <3>1. Fail(r, "invalid credentials")
      BY <1>3, <2>1, <2>3 DEF LoginCompare, Unknown
    <3> QED
      BY <1>1, <2>1, <3>1, FailGood DEF Error
  <2> QED
    BY <2>2, <2>3
<1> QED
  BY <1>2, <1>3

LEMMA EventsGood ==
  ASSUME AccountsAssumption, SessionInv, Grows, NEW r \in Request,
         DrawEvent(r) \/ CreateEvent(r)
  PROVE  PagesInv'
<1>1. Typed /\ PagesInv
  BY DEF SessionInv, AccountInv
<1>2. CASE DrawEvent(r)
  <2>1. task[r] # Idle /\ task[r].route = "events" /\ task[r].step = "record" /\ task[r] \in HostTask
    BY <1>1, <1>2, RouteKind DEF DrawEvent, At, Typed
  <2>2. Matches(r)
    BY <1>1, <2>1, FoundGood DEF PagesInv, TaskGood
  <2>3. PICK e \in EventId, c \in Code :
          task' = [task EXCEPT ![r].event = e, ![r].code = c, ![r].step = "create"]
    BY <1>2, <2>2 DEF DrawEvent
  <2> DEFINE t == [task[r] EXCEPT !.event = e, !.code = c, !.step = "create"]
  <2>4. t \in HostTask /\ t.route = task[r].route /\ t.body = task[r].body
        /\ t.page = task[r].page /\ t.host = task[r].host
    BY <2>1 DEF HostTask
  <2>5. task' = [task EXCEPT ![r] = t]
    BY <1>1, <2>3 DEF Typed, TypeOK
  <2>6. UNCHANGED <<index, hosts, events, creds, session, waiting, err>>
    BY <1>2, <2>2 DEF DrawEvent, store, pages
  <2>7. task[r].host = index[Normal(task[r].body.email)]
    BY <2>1, FoundGood
  <2> HIDE DEF t
  <2> QED
    BY <1>1, <2>1, <2>4, <2>5, <2>6, <2>7, GoOnGood
<1>3. CASE CreateEvent(r)
  <2> DEFINE e == task[r].event  c == task[r].code
             record == [host |-> task[r].host, code |-> c, closed |-> FALSE]
  <2>1. task[r] # Idle /\ task[r].route = "events" /\ task[r].step = "create" /\ task[r] \in HostTask
    BY <1>1, <1>3, RouteKind DEF CreateEvent, At, Typed
  <2>2. e \in EventId /\ c \in Code /\ task[r].host \in HostId
    BY <1>1, <2>1 DEF Typed, TaskTyped
  <2>3. CASE KeysFree(e, c)
    <3>1. record \in EventRecord /\ record # Absent /\ record.host = task[r].host
      BY <2>2, RecordKinds DEF EventRecord
    <3>2. events' = [events EXCEPT ![e] = record] /\ UNCHANGED <<index, hosts>> /\ Admit(r, e)
      BY <1>3, <2>3 DEF CreateEvent
    <3> HIDE DEF record
    <3>3. events'[e] = record
      BY <1>1, <2>2, <3>2 DEF Typed, TypeOK
    <3>4. task[r].host = index[Normal(task[r].body.email)]
      BY <2>1, FoundGood
    <3> QED
      BY <1>1, <2>1, <2>2, <3>1, <3>2, <3>3, <3>4, AdmitGood
  <2>4. CASE ~KeysFree(e, c)
    BY <1>1, <1>3, <2>1, <2>4, FailGood DEF CreateEvent, Error
  <2> QED
    BY <2>3, <2>4
<1> QED
  BY <1>2, <1>3

LEMMA JoinGood ==
  ASSUME AccountsAssumption, SessionInv, Grows, NEW r \in Request, JoinLookup(r) \/ Join(r)
  PROVE  PagesInv'
<1>1. Typed /\ PagesInv
  BY DEF SessionInv, AccountInv
<1>2. CASE JoinLookup(r)
  <2>1. task[r] # Idle /\ task[r] \in JoinTask
    BY <1>1, <1>2, RouteKind DEF JoinLookup, At, Typed
  <2> DEFINE e == codes[task[r].code]
  <2>2. CASE e = None
    BY <1>1, <1>2, <2>1, <2>2, FailGood DEF JoinLookup, Error
  <2>3. CASE e # None
    <3> DEFINE t == [task[r] EXCEPT !.event = e, !.step = "event"]
    <3>1. e \in EventId
      BY <1>1, <2>1, <2>3 DEF Typed, TypeOK, JoinTask
    <3>2. t \in JoinTask /\ t.page = task[r].page
      BY <2>1, <3>1 DEF JoinTask
    <3>3. task' = [task EXCEPT ![r] = t]
      BY <1>1, <1>2, <2>3 DEF JoinLookup, Typed, TypeOK
    <3>4. UNCHANGED <<index, hosts, events, creds, session, waiting, err>>
      BY <1>2, <2>3 DEF JoinLookup, store, pages
    <3> HIDE DEF t, e
    <3> QED
      BY <1>1, <2>1, <3>2, <3>3, <3>4, GoOnGood, TaskKinds
  <2> QED
    BY <2>2, <2>3
<1>3. CASE Join(r)
  <2>1. task[r] # Idle /\ task[r].step = "event" /\ task[r] \in JoinTask /\ task[r] \notin HostTask
    BY <1>1, <1>3, RouteKind, TaskKinds DEF Join, At, Typed
  <2> DEFINE e == task[r].event
  <2>2. e \in EventId /\ events' = events
    BY <1>1, <1>3, <2>1 DEF Typed, JoinTyped, Join, store
  <2>3. CASE Admit(r, e) /\ events[e] # Absent
    BY <1>1, <2>1, <2>2, <2>3, AdmitGood
  <2>4. ASSUME NEW x \in {"event not found", "event closed"}, Fail(r, x)
        PROVE  PagesInv'
    BY <1>1, <2>1, <2>4, FailGood DEF Error
  <2> QED
    BY <1>3, <2>3, <2>4 DEF Join
<1> QED
  BY <1>2, <1>3

LEMMA ConcludeGood ==
  ASSUME AccountsAssumption, SessionInv, Grows, NEW e \in EventId, Conclude(e)
  PROVE  PagesInv'
<1>1. UNCHANGED <<index, hosts, task, creds, session, waiting, err>>
  BY DEF Conclude, pages
<1>2. TaskGood' /\ Waits' /\ PageGood'
  BY <1>1 DEF SessionInv, PagesInv, TaskGood, Waits, PageGood
<1>3. OwnSession'
  BY <1>1, OwnStays DEF OwnSession, SessionInv, AccountInv
<1> QED
  BY <1>2, <1>3 DEF PagesInv

LEMMA SessionNext ==
  ASSUME AccountsAssumption, SessionInv, [Next]_vars
  PROVE  SessionInv'
<1>1. AccountInv' /\ Grows /\ Typed /\ PagesInv
  BY AccountNext, StoreGrows DEF SessionInv, AccountInv
<1>2. ASSUME NEW r \in Request, RouteStep(r)
      PROVE  PagesInv'
  <2>1. CASE RejectBody(r)
    BY <1>1, <2>1, FailGood DEF RejectBody, Error
  <2> QED
    BY <1>1, <1>2, <2>1, RegisterGood, LoginGood, EventsGood, JoinGood DEF RouteStep
<1>3. ASSUME NEW r \in Request, RequestDies(r)
      PROVE  PagesInv'
  BY <1>1, <1>3, FailGood DEF RequestDies, Error
<1>4. ASSUME NEW e \in EventId, Conclude(e)
      PROVE  PagesInv'
  BY <1>1, <1>4, ConcludeGood
<1>5. ASSUME (\E p \in Page : GiveUp(p)) \/ UNCHANGED vars
      PROVE  PagesInv'
  BY <1>1, <1>5, LeaveGood DEF EndSessionOrGiveUp
<1>6. ASSUME FormStep
      PROVE  PagesInv'
  BY <1>1, <1>6, FormGood
<1> QED
  BY <1>1, <1>2, <1>3, <1>4, <1>5, <1>6 DEF Next, SessionInv

LEMMA SessionInit ==
  ASSUME Init
  PROVE  SessionInv
<1>1. AccountInv
  BY TypedInit, TaskKinds, AccountsAssumption
     DEF Init, AccountInv, OneHostPerEmail, DrawnOnce, Committing, AccountsAssumption
<1>2. PagesInv
  BY TaskKinds DEF Init, PagesInv, TaskGood, Waits, PageGood, OwnSession, Page
<1> QED
  BY <1>1, <1>2 DEF SessionInv

\* Whoever is past the login is never told that the credentials are wrong.
THEOREM CredentialsStayGood == Spec => []CredentialsHold
<1>1. SessionInv /\ [Next]_vars => SessionInv'
  BY SessionNext, AccountsAssumption
<1>2. SessionInv => CredentialsHold
  BY DEF SessionInv, PagesInv, PageGood, CredentialsHold
<1> QED
  BY <1>1, <1>2, SessionInit, PTL DEF Spec

\* A token is for an event that is stored, and that of a host for an event of the
\* account whose credentials the page holds.
THEOREM SessionsOwn == Spec => []OwnSession
<1>1. SessionInv /\ [Next]_vars => SessionInv'
  BY SessionNext, AccountsAssumption
<1>2. SessionInv => OwnSession
  BY DEF SessionInv, PagesInv
<1> QED
  BY <1>1, <1>2, SessionInit, PTL DEF Spec
=============================================================================
