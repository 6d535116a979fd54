---------------------------- MODULE HostAccounts ----------------------------
(***************************************************************************)
(* The HTTP side of the server (http/routes.ts, auth/hostAuth.ts) and the   *)
(* three forms that call it: a host registers or logs in, then creates an   *)
(* event; a participant joins one by its code.                              *)
(*                                                                         *)
(* A request is a task of the server that loses the processor at every      *)
(* call of the store; requests of all pages interleave.  The answer reaches *)
(* the page in the step that gives it, as a page that waits does nothing    *)
(* else, unless it has given the request up.                               *)
(***************************************************************************)
EXTENDS Naturals

CONSTANTS
  HostPage, Visitor,   \* the pages of hosts and of participants
  Spelling,            \* the e-mail addresses people type
  Normal(_),           \* trim and lower case
  Password,
  HostId, EventId,     \* 64 random bits each
  Code,                \* the codes generateEventCode draws from
  Request,             \* the requests the server has at a time
  MaxFaults,           \* bound of the model on faults
  None

Page == HostPage \cup Visitor

ASSUME AccountsAssumption ==
  /\ \A s \in Spelling : Normal(s) \in Spelling /\ Normal(Normal(s)) = Normal(s)
  /\ None \notin HostId \cup EventId \cup Request
  /\ HostPage \cap Visitor = {}
  /\ MaxFaults \in Nat

VARIABLES
  index,     \* keys.hostByEmail
  hosts,     \* keys.host
  codes,     \* keys.eventByCode
  events,    \* keys.event
  task,      \* what each request is doing
  creds,     \* the page state `creds': e-mail and password the server accepted
  session,   \* the page state `session', of which the event
  waiting,   \* the request a page waits for: `busy'
  err,       \* the error its form shows
  faults     \* how many there were

store == <<index, hosts, codes, events>>
pages == <<creds, session, waiting, err>>
vars  == <<store, task, pages, faults>>

Credentials == [email : Spelling, password : Password]
HostRecord  == [email : Spelling, password : Password]
EventRecord == [host : HostId, code : Code, closed : BOOLEAN]
Absent == [stored |-> FALSE]    \* what a read of a missing record returns

\* A task: the route, the page that called it, the body, what it has read or
\* drawn so far, and the call it makes next.
Idle == [step |-> "idle"]
HostTask == [route : {"register", "login", "events"}, page : HostPage, body : Credentials,
             step : {"index", "record", "commit", "create"},
             host : HostId \cup {None}, event : EventId \cup {None}, code : Code \cup {None}]
JoinTask == [route : {"join"}, page : Visitor, code : Code,
             step : {"code", "event"}, event : EventId \cup {None}]

Error == {"no", "invalid body", "already registered", "registration race",
          "invalid credentials", "unauthenticated", "creation conflict",
          "event not found", "event closed", "network"}

TypeOK ==
  /\ index \in [Spelling -> HostId \cup {None}]
  /\ hosts \in [HostId -> HostRecord \cup {Absent}]
  /\ codes \in [Code -> EventId \cup {None}]
  /\ events \in [EventId -> EventRecord \cup {Absent}]
  /\ task \in [Request -> HostTask \cup JoinTask \cup {Idle}]
  /\ creds \in [HostPage -> Credentials \cup {Absent}]
  /\ session \in [Page -> EventId \cup {None}]
  /\ waiting \in [Page -> Request \cup {None}]
  /\ err \in [Page -> Error]
  /\ faults \in 0..MaxFaults

Init ==
  /\ index = [s \in Spelling |-> None]
  /\ hosts = [h \in HostId |-> Absent]
  /\ codes = [c \in Code |-> None]
  /\ events = [e \in EventId |-> Absent]
  /\ task = [r \in Request |-> Idle]
  /\ creds = [p \in HostPage |-> Absent]
  /\ session = [p \in Page |-> None]
  /\ waiting = [p \in Page |-> None]
  /\ err = [p \in Page |-> "no"]
  /\ faults = 0

----------------------------------------------------------------------------
(* The forms.                                                              *)

\* submit(): busy, no error, and a request.
Submit(p, r, t) ==
  /\ waiting[p] = None /\ session[p] = None
  /\ task[r] = Idle /\ task' = [task EXCEPT ![r] = t]
  /\ waiting' = [waiting EXCEPT ![p] = r]
  /\ err' = [err EXCEPT ![p] = "no"]
  /\ UNCHANGED <<store, creds, session, faults>>

HostRequest(route, p, body) ==
  [route |-> route, page |-> p, body |-> body, step |-> "index",
   host |-> None, event |-> None, code |-> None]

\* LoginForm, in either of its modes.
SubmitLogin(p, r, route, body) ==
  creds[p] = Absent /\ Submit(p, r, HostRequest(route, p, body))

\* CreateEventCard, with the credentials of the login.
SubmitCreate(p, r) ==
  creds[p] # Absent /\ Submit(p, r, HostRequest("events", p, creds[p]))

\* JoinForm.
SubmitJoin(p, r, c) ==
  Submit(p, r, [route |-> "join", page |-> p, code |-> c, step |-> "code",
                event |-> None])

\* The end of request r with an error: the page shows it, if it still waits.
Fail(r, e) ==
  LET p == task[r].page IN
  /\ task' = [task EXCEPT ![r] = Idle]
  /\ IF waiting[p] = r
       THEN /\ waiting' = [waiting EXCEPT ![p] = None]
            /\ err' = [err EXCEPT ![p] = e]
       ELSE UNCHANGED <<waiting, err>>
  /\ UNCHANGED <<creds, session>>

\* The end of request r with status 200: onReady keeps the credentials.
Accept(r) ==
  LET p == task[r].page IN
  /\ task' = [task EXCEPT ![r] = Idle]
  /\ IF waiting[p] = r
       THEN /\ waiting' = [waiting EXCEPT ![p] = None]
            /\ creds' = [creds EXCEPT ![p] = task[r].body]
       ELSE UNCHANGED <<waiting, creds>>
  /\ UNCHANGED <<session, err>>

\* onCreated and onJoined: the page has a token for the event.
Admit(r, e) ==
  LET p == task[r].page IN
  /\ task' = [task EXCEPT ![r] = Idle]
  /\ IF waiting[p] = r
       THEN /\ waiting' = [waiting EXCEPT ![p] = None]
            /\ session' = [session EXCEPT ![p] = e]
       ELSE UNCHANGED <<waiting, session>>
  /\ UNCHANGED <<creds, err>>

\* The terminal callback of the realtime client: back to the form.
EndSession(p) ==
  /\ session[p] # None
  /\ session' = [session EXCEPT ![p] = None]
  /\ UNCHANGED <<store, task, creds, waiting, err, faults>>

----------------------------------------------------------------------------
(* The routes.                                                             *)

At(r, route, step) == task[r] # Idle /\ task[r].route = route /\ task[r].step = step
Goto(r, step) == task' = [task EXCEPT ![r].step = step]

\* safeParse fails: a title, a name or a code the schema does not admit.
RejectBody(r) ==
  /\ task[r] # Idle /\ task[r].step \in {"index", "code"}
  /\ Fail(r, "invalid body")
  /\ UNCHANGED <<store, faults>>

\* Defect: login takes the address as it is typed.
Lookup_AsTyped(email) == index[email]

\* kv.get(keys.hostByEmail(normalized)).
Lookup(email) == index[Normal(email)]

\* HostAuth.register: the address is looked up, an id drawn.
RegisterLookup(r) ==
  /\ At(r, "register", "index")
  /\ IF index[Normal(task[r].body.email)] # None
       THEN Fail(r, "already registered")
       ELSE /\ \E h \in HostId :
                 /\ hosts[h] = Absent
                 /\ \A q \in Request : task[q] # Idle /\ task[q].route # "join" => task[q].host # h
                 /\ task' = [task EXCEPT ![r].host = h, ![r].step = "commit"]
            /\ UNCHANGED pages
  /\ UNCHANGED <<store, faults>>

\* Defect: the atomic operation has no check.
AddressFree_Unchecked(email) == TRUE

\* The check of the atomic operation.
AddressFree(email) == Lookup(email) = None

\* Its commit: record and index, or "registration race".
RegisterCommit(r) ==
  LET b == task[r].body IN
  /\ At(r, "register", "commit")
  /\ IF AddressFree(b.email)
       THEN /\ hosts' = [hosts EXCEPT ![task[r].host] =
                           [email |-> Normal(b.email), password |-> b.password]]
            /\ index' = [index EXCEPT ![Normal(b.email)] = task[r].host]
            /\ Accept(r)
       ELSE UNCHANGED <<hosts, index>> /\ Fail(r, "registration race")
  /\ UNCHANGED <<codes, events, faults>>

Unknown(r) == IF task[r].route = "login" THEN "invalid credentials" ELSE "unauthenticated"

\* HostAuth.login: the address is looked up, for POST /host/login and for
\* POST /host/events.
LoginLookup(r) ==
  /\ At(r, "login", "index") \/ At(r, "events", "index")
  /\ LET h == Lookup(task[r].body.email) IN
       IF h = None
         THEN Fail(r, Unknown(r))
         ELSE /\ task' = [task EXCEPT ![r].host = h, ![r].step = "record"]
              /\ UNCHANGED pages
  /\ UNCHANGED <<store, faults>>

\* The record is read and the passwords compared.
Matches(r) ==
  hosts[task[r].host] # Absent /\ hosts[task[r].host].password = task[r].body.password

LoginCompare(r) ==
  /\ At(r, "login", "record")
  /\ IF Matches(r) THEN Accept(r) ELSE Fail(r, Unknown(r))
  /\ UNCHANGED <<store, faults>>

\* POST /host/events goes on with an id and a code, drawn without a look at the
\* store.
DrawEvent(r) ==
  /\ At(r, "events", "record")
  /\ IF Matches(r)
       THEN /\ \E e \in EventId, c \in Code :
                 task' = [task EXCEPT ![r].event = e, ![r].code = c, ![r].step = "create"]
            /\ UNCHANGED pages
       ELSE Fail(r, Unknown(r))
  /\ UNCHANGED <<store, faults>>

\* Defect: only the id is checked.
KeysFree_IdOnly(e, c) == events[e] = Absent

\* Defect: only the code is checked.
KeysFree_CodeOnly(e, c) == codes[c] = None

\* The checks of Store.createEvent.
KeysFree(e, c) == events[e] = Absent /\ codes[c] = None

\* Store.createEvent, then the token for the host; the conflict is an error 500.
CreateEvent(r) ==
  LET e == task[r].event  c == task[r].code IN
  /\ At(r, "events", "create")
  /\ IF KeysFree(e, c)
       THEN /\ events' = [events EXCEPT ![e] =
                            [host |-> task[r].host, code |-> c, closed |-> FALSE]]
            /\ codes' = [codes EXCEPT ![c] = e]
            /\ Admit(r, e)
       ELSE UNCHANGED <<events, codes>> /\ Fail(r, "creation conflict")
  /\ UNCHANGED <<index, hosts, faults>>

\* findEventByCode: the code, then the event.
JoinLookup(r) ==
  /\ At(r, "join", "code")
  /\ LET e == codes[task[r].code] IN
       IF e = None
         THEN Fail(r, "event not found")
         ELSE /\ task' = [task EXCEPT ![r].event = e, ![r].step = "event"]
              /\ UNCHANGED pages
  /\ UNCHANGED <<store, faults>>

\* The token for the participant, unless the event is closed.
Join(r) ==
  /\ At(r, "join", "event")
  /\ LET e == task[r].event IN
       IF events[e] = Absent THEN Fail(r, "event not found")
       ELSE IF events[e].closed THEN Fail(r, "event closed")
       ELSE Admit(r, e)
  /\ UNCHANGED <<store, faults>>

\* Defect: only the phase is kept.
Conclude_DropsRest(e) ==
  /\ events[e] # Absent
  /\ events' = [events EXCEPT ![e] = [closed |-> TRUE]]
  /\ UNCHANGED <<index, hosts, codes, task, pages, faults>>

\* The host concludes the event: Store.setEventPhase keeps all but the phase.
Conclude(e) ==
  /\ events[e] # Absent /\ ~events[e].closed
  /\ events' = [events EXCEPT ![e].closed = TRUE]
  /\ UNCHANGED <<index, hosts, codes, task, pages, faults>>

----------------------------------------------------------------------------
(* Faults.                                                                 *)

\* The store rejects the call, or the server stops: the request ends, the page
\* sees fetch fail or a status 500.
RequestDies(r) ==
  /\ faults < MaxFaults /\ faults' = faults + 1
  /\ task[r] # Idle
  /\ Fail(r, "network")
  /\ UNCHANGED store

\* The connection breaks: fetch fails on the page, the server goes on.
GiveUp(p) ==
  /\ faults < MaxFaults /\ faults' = faults + 1
  /\ waiting[p] # None
  /\ waiting' = [waiting EXCEPT ![p] = None]
  /\ err' = [err EXCEPT ![p] = "network"]
  /\ UNCHANGED <<store, task, creds, session>>

FormStep ==
  \/ \E p \in HostPage, r \in Request :
       \/ \E route \in {"register", "login"}, body \in Credentials : SubmitLogin(p, r, route, body)
       \/ SubmitCreate(p, r)
  \/ \E p \in Visitor, r \in Request, c \in Code : SubmitJoin(p, r, c)
  \/ \E p \in Page : EndSession(p)

RouteStep(r) ==
  \/ RejectBody(r)
  \/ RegisterLookup(r) \/ RegisterCommit(r)
  \/ LoginLookup(r) \/ LoginCompare(r)
  \/ DrawEvent(r) \/ CreateEvent(r)
  \/ JoinLookup(r) \/ Join(r)

Next ==
  \/ FormStep
  \/ \E r \in Request : RouteStep(r) \/ RequestDies(r)
  \/ \E e \in EventId : Conclude(e)
  \/ \E p \in Page : GiveUp(p)

Spec == Init /\ [][Next]_vars

----------------------------------------------------------------------------
(* Properties.                                                             *)

\* However registrations race, an address has one account: the index names it,
\* and no record is left that the index does not name (HostAuth.register, whose
\* first look at the address is not the one that counts).
OneHostPerEmail ==
  \A s \in Spelling, h \in HostId :
    index[s] = h <=> hosts[h] # Absent /\ hosts[h].email = s

\* Credentials the server has once accepted are good for ever: whoever is past the
\* login is never told "unauthenticated", whatever spelling was typed and
\* whatever others register meanwhile (HostAuth.login in POST /host/events).
CredentialsHold ==
  \A p \in HostPage : creds[p] # Absent => err[p] # "unauthenticated"

\* A code leads to the event that shows it and to no other, also when two
\* creations draw the same code or the same id (Store.createEvent).
CodesLead ==
  \A c \in Code, e \in EventId :
    codes[c] = e <=> events[e] # Absent /\ events[e].code = c

\* A token names an event that is stored, and the one of a host an event that is
\* the host's own (it is signed after Store.createEvent, with the committed id).
OwnSession ==
  \A p \in Page : session[p] # None =>
    /\ events[session[p]] # Absent
    /\ p \in HostPage => events[session[p]].host = index[Normal(creds[p].email)]
=============================================================================
