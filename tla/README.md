# Verification of the breakout platform

TLA+ models of this repository's realtime server, TLC runs that check them on
small instances, and TLAPS proofs of what matters most for every instance.
All paths below are relative to the repository.

- [The system](#the-system): components, state, operations, what is hard
- [The modules](#the-modules): what models what, and how state corresponds
- [The runs](#the-runs): what each checks, bounds, fairness
- [What does not hold](#what-does-not-hold)
- [The proofs](#the-proofs)
- [What is not modelled](#what-is-not-modelled)
- [The plan](#the-plan)

## The system

A host runs a live event from a dashboard; participants follow it on their
phones. The host sends forms, splits the audience into groups, merges them again,
and concludes the event. Everything live goes over one WebSocket per page to a
single Deno process, which keeps what must last in Deno KV.

| component | source | state | operations |
|---|---|---|---|
| Event store | `apps/realtime/src/kv/` | event (phase, closedAt), participants, memberships, groups, forms, responses, presence, outbox | `Store.*`: gets, lists, sets, two atomic commits |
| Hub and sessions | `apps/realtime/src/ws/hub.ts`, `session.ts` | sockets per event; per session participantId, groupIdCache, bucket | attach, detach, disconnectParticipants |
| Broadcaster | `ws/broadcaster.ts` | none (appends to the outbox, sends to sessions) | toEvent, toParticipants, toGroup, toHosts, toParticipant |
| Gateway | `ws/gateway.ts` | one task per socket | upgrade, verify, createSession, ensureParticipant, registerHandlers, sendWelcome |
| Message handlers | `ws/handlers.ts` | one task per message | heartbeat, response.submit, host.form.issue, host.group.partition, host.group.merge, host.event.phase |
| Connection cap, rate limit | `security/ipLimiter.ts`, `rateLimiter.ts` | count per address; tokens per socket | tryAcquire, release; take |
| Presence sweeper | `systems/presenceSweeper.ts` | none | every 10 s: summary to the hosts |
| HTTP API, host accounts | `http/routes.ts`, `auth/` | hosts, event codes (in the store) | register, login, create event, join |
| Domain systems (ECS) | `packages/ecs` | component tables of one call | partitionIntoGroups, mergeToPlenary, rollupFor, presence, resolveRecipients |
| Protocol | `packages/protocol` | none | encode, decode, validate |
| Participant client | `apps/client/lib/realtime` | socket, reconnect timer and attempts, submit queue, page state | connect, send, close, conclude, enqueue, drain, applyMessage |
| Host client | `apps/host/lib/realtime` | socket, timer, page state | the same, without the queue |

How they interact. A page joins over HTTP and gets a token; it opens `/ws?token=`;
the route takes a slot of the connection cap, the gateway verifies the token,
creates the session (reading, and for a new device writing, the store), puts it
in the hub and sends a welcome. Messages of the socket go through the bucket and
the codec to a handler. Handlers call the store and broadcast over the hub.

What makes it hard. The process is single-threaded, but every store call, the
verification and every outbox append is an await, and nothing orders one task with
another: neither two messages of one socket (the listener does not wait), nor a
message and an attach, nor a task and the close event of the socket it works for.
Only `createEvent`, `setMemberships` and `putGroups` are atomic commits; a
partition is a listing, several deletes, two commits, a read-modify-write and a
loop of reads, with a rejection or a crash possible between any two. What the
models look for, component by component:

- *Store and handlers.* A concluded event stays concluded; memberships name groups
  that exist; groups come from one partition and are not too large; a repeated
  command repairs what a failed one left.
- *Hub and gateway.* Nobody enters a concluded event, everybody leaves it; every
  connected page shows the phase and the group that are stored.
- *Grouping.* Everybody is in exactly one group, groups are full in the order of
  joining, ties or not.
- *Cap.* No more sockets than the cap, no refusal below it.
- *Bucket.* Exactly the messages within burst and rate get through.
- *Participant client.* Answers are not lost or doubled, the page learns of the
  conclusion however it comes, reconnecting ends.
- *Host accounts.* One account per address, one event per code, a token only for what is
  stored and the host's own, whatever ids and codes two requests draw.
- *Forms.* The two ends agree on what they send; a bar counts what was pressed.
- *Responses.* The host is never shown more than is stored; what was lost or overtaken is
  made good by the next answer; after the conclusion nothing new is stored.
- *Presence.* With late heartbeats and overlapping sweeps, the panel still tells who is there.

`PROJECT.json` lists these dangers one by one, with their lines.

## The modules

```
Grouping        pure operators: order of joining, chunk of a position
 |- GroupingLoop           the loop itself, checked against the operators
 `- EventStore             KV records of one event, one operator per call
     `- Hub                sockets, sessions, what pages were sent
         |- HostCommands   partition, merge, phase: a task per message
         `- Gateway        attachSession: a task per socket
             `- EventServer    both over the shared store and hub; properties
                 `- Room == INSTANCE EventRoom    the abstract specification
ConnectionCap   ipLimiter + the life of a socket
ParticipantClient  the participant's page, its queue, its sockets and their sessions
TokenBucket     rateLimiter
HostAccounts    the HTTP routes as tasks, over the store, with the forms that call them
FormFlow        a form's values: draft, schemas, questions, answers, rollups
Responses       handlers of answers and forms, the host's connection and its page
Presence        heartbeats, records, sweeps and the host's panel, with time
MC*             values of the constants for TLC
*Proofs         theorems: one module for each of the above that has any, and
                PartsProofs for GroupingLoop, ConnectionCap and TokenBucket
```

**Tasks and steps.** A handler or attach is a task with a program counter (`pc[c]`
for the message `c`, `at[s]` for the socket `s`) named after the store call that
it makes next. A step is the call's effect and the code up to the next await: the code
between two awaits runs undisturbed, the tasks interleave at every await. Locals
kept across awaits are variables of the task (`listed`, `plan`, `stamped`, `left`,
`welcomePhase`...). Where one `Store` method makes several calls it is several
steps: `setEventPhase` is `getEvent` then `setEvent`; `clearGroupsForEvent`
is `listGroups` then one `delete` per group.

**Correspondence.**

| model | code |
|---|---|
| `phase`, `closedAt` | `EventMeta` under `["event", id]`; of closedAt, whether it is set |
| `joinedAt[p]`, `clock` | `Participant` records; 0 is no record; the clock gives equal or later milliseconds |
| `membership[p]` | `Membership.groupId`; a missing record and null are one value, because every reader uses `?? null` |
| `groups`; ids `<<command, index>>` | `Group` records. A group id is random: naming it after the partition and the index keeps what matters, that ids of different partitions differ |
| participant named after its socket | the random id drawn by the attach that stores the record |
| `KeyOrder` | the order in which kv.list returns keys; an arbitrary injection, so ids sort in any order relative to joining |
| `conn`, `hub`, `pid`, `groupIdCache` | readyState, `Hub.eventSockets`, the fields of `SocketSession` |
| `shownPhase`, `shownGroup` | what `applyMessage` of the participant's page has taken from the messages sent so far |
| `counts`, `ws`, `bind` | `IpLimiter.counts`, the request's fate, how far the binding is |
| `socket`, `attempts`, `timer`, `stopped`, `queue` | the fields of `RealtimeClient` and `SubmitQueue`; closedByUser and terminalStop are one flag, as every reader asks for either |
| `page` | which of its three screens `page.tsx` shows |
| `near`, `far`, `up`, `down`, `cut` | a WebSocket: the readyState of its ends and the frames between them |
| `tokens`, `last` | the fields of `TokenBucket`, in thousandths of tokens |
| `index`, `hosts`, `codes`, `events` (HostAccounts) | the records under `hostByEmail`, `host`, `eventByCode`, `event` |
| `task[r]` (HostAccounts) | a request: its route, its body, what it has read or drawn, the call it makes next |
| `creds`, `session`, `waiting`, `err` | the state of the three forms and of the pages that hold them; `busy` is waiting for a request |
| `draft`, `form`, `answered` | `questions` of `FormAuthor`, the issued form, `answered` of each `FormRunner` |
| `tasks`, `stored` (Responses) | the handlers under way, each with the responses it has read; the response records |
| `near`, `far`, `down`, `attempts` (Responses) | the host's `RealtimeClient`, the attach of its socket, the frames to the page |
| `shown`, `progress` | `HostRealtimeState.rollups`, as the participants a rollup counts; the `FormProgress` sent last |
| `sinceBeat`, `beats`, `age`, `making`, `panel` | the heartbeat interval of a page, heartbeats under way, the age of `lastSeenAt`, summaries being made, `HostRealtimeState.presence` |

A rollup is modelled in two places, once for each question one can ask of it. In
`Responses` it is the set of participants it counts, and the model is about which listing
it was made from; in `FormFlow` it is labels and counts, and every message arrives. In the
same way the connection of the participant's page has its own module, because its queue makes it
a different machine from the host's.

**History variables** only serve to state properties: `clean`, `allowed`, `unsaid` in
`Responses`, `pressed` in `FormFlow`, `steady` in `Presence`, `accepted` in `TokenBucket`, `spoiled`,
`unheard`, `barren` in `ParticipantClient`. No guard reads them.

`GroupIndex` gives a participant the chunk of its position by one expression;
`GroupingLoop` runs the loop of `partitionIntoGroups`; that the two agree is checked there and
proved in `PartsProofs`.

**The environment** of `EventServer` is three constants, so that a property can be
stated with exactly what it depends on: `CommandsOverlap` (a host sends a command
while another is handled), `AttachesOverlap` (sockets attach while one is),
`Faults` (store calls are rejected, the process crashes and restarts). Sockets
close at any time in every regime, and attaches overlap with each other.

**EventRoom** is what the server promises without tasks or sockets: participants
enter and leave a room, the host moves it through phases, a concluded room admits
nobody, never reopens, and empties. `EventServer` implements it with the room being
the sessions that a broadcast reaches (`Reached`).

## The runs

| run | regime and bounds | shows |
|---|---|---|
| `GroupingLoop` | 4 persons, any of them of the event, 3 join times, sizes 1-3 | `LoopMatchesPosition`: the loop equals the closed form of the proofs |
| `CoreSerial` | 2 sockets, 2 commands, sizes 1-2; one command at a time, attaches overlap, rejections and crashes | `OneGeneration`, `MembershipsResolve`, `RewriteResolves`, `GroupCapacity`, `ClosedIsFinal`, `ClosedStamped` |
| `CoreReturning` | 3 sockets, 2 of one device, 2 commands, sizes 1-2; commands and attaches apart, sockets close at will | `NobodyLeftOut`, `ScreensCurrent` |
| `CoreQuiet` | 2 sockets, 2 commands, sizes 1-2; commands and attaches apart, sockets close at will; fairness | the refinement of `EventRoom` with its liveness |
| `Cap` | 3 + 3 sockets over 2 addresses, cap 2, requests repeat for ever | `CapRespected`, `RefusedOnlyAtCap` |
| `TokenBucket` | rate 4/s, burst 3, 9 messages, pauses below, at and above the time of one token | `WindowBound`, `RefusesOnlyOverRate` |
| `ParticipantClient` | 1 question, 2 sockets alive at a time (one ending, one new), 2 attempts, 1 fault; fairness | `StoredOnce`, `AnswersArrive`, `PageLearns`, `RetriesBounded` |
| `HostAccounts` | 2 host pages, 1 participant, 2 requests at a time, 2 accounts under 3 spellings, 2 passwords, 2 ids and 2 codes of events, 1 fault | `OneHostPerEmail`, `CredentialsHold`, `CodesLead`, `OwnSession` |
| `FormFlow` | 2 participants, 2 questions, 4 options in all, scales over 0, 1.5 and 2 | `BarsMatch` (position by position: the label of a bar is the button's, its count the presses of that button), `TotalsMatch`, `FramesAdmitted`, `Finishable` |
| `Responses` | 2 participants, 2 questions, 3 answers or 2 and a fault, 2 handlers at a time, 1 attempt; fairness | `NeverAhead`, `RollupsRepair`, `LateOnlyIfUnderWay`, `HostLearns` |
| `Presence` | 1 device; 15, 10, 30, 60 and 120 s as 3, 2, 6, 12 and 24 units; lags up to 2 units, 1 failed summary | `PanelFresh`, `BeatingIsOnline`, `GoneIsOffline` |
| `Reopened` | the smallest instance that shows it | see below |

**Why the bounds are enough.** Two commands are what it takes to interleave two
handlers, or to follow a failed one with its repair; two sockets are what it
takes for a group with more than one member, for two groups, for a tie in
joinedAt, and for a socket that attaches while another is told its group. The third
socket of `CoreReturning` is a participant who comes back, before or after the others were
grouped, or opens a second page: `ensureParticipant` then finds its record. (That run is too large for
the liveness of `CoreQuiet`, which has two.) Commands overlap in `Reopened` and in the proof of
`GroupCapacity`, whose theorem is for every regime. With
size 1 and two participants a partition has two groups to delete, so
`clearGroupsForEvent` can be caught half way. Three sockets on one address with a
cap of two exercise the refusal and the last slot. The host phases are
"plenary" and "closed": "lobby" and "breakout" by name take the same path as
"plenary", and a partition sets "breakout". The proofs below remove the bounds for the
properties they cover.

In `ParticipantClient` one question is enough because no step relates two answers except
their order in the queue; two sockets are what a reconnect needs while handlers of
the socket before are still under way; with two attempts a retry can fail, and the next
one open. One fault puts the page through a reconnect. A fault is a
socket that is cut, a rejected store call of an attach or of a handler; connections
that fail, tokens that expire and the conclusion are not counted and happen at
any time.

In `HostAccounts` two requests are what it takes for one to pass its check while the
other commits; with two ids and two codes two creations draw the same id, the same
code, both or neither; "ann" and "Ann" are one address in two spellings, "bob" another. A host id
is drawn among those neither stored nor held by another registration: 64 random
bits do not collide, and the code would not notice if they did. Event ids have the same
length, but there the code checks, so the model lets them collide.

In `FormFlow` the draft is edited in any order, so every form of the
two questions and four options is issued: blank options, duplicate labels, a
question converted back and forth, a scale with its ends equal, swapped or not
integer. `MaxOptions` is 3 and `MaxSamples` 1, so that both limits are met.
The lengths are 0, 1, the limit of the editor and one above that of the schema.

In `Responses` the three answers are those of one participant to both questions and of
another to one of them: `progress` and the rollups then differ. Two of them under way at once are an
overtaking, and the third repairs it; or a fault is followed by a repair. Answers and faults
share the bound `Budget`, so there are three answers, or two and a fault. One frame under way
to the page is enough for it to be behind.

In `Presence` one device is enough, because a summary takes each record by itself.
Lags of 10 s let a sweep overlap with the next and a heartbeat with another. `PanelFresh` is tight: with
one unit less TLC finds a counterexample.

**View and symmetry.** `CoreSerial` checks properties of the
store and the tasks only. Its VIEW (`MCStoreView`) leaves out the hub, the
sockets' states and the screens, which no step that changes the store or a task
looks at: `Connect` asks for a socket that is "new", and a socket is new exactly while `at`
is "idle". Commands are interchangeable there and in `CoreReturning`, and sockets of one address in
`Cap`, and so are pages, requests, ids, codes and passwords in `HostAccounts` and the participants in
`FormFlow`; none of those runs has a liveness property.

**Deadlock** is checked: `EventServer` has an explicit `Rest` step that is enabled
only when no task is under way, so a task that could not go on would be reported.
`TokenBucket` stops at its bound on messages, `ParticipantClient` and `Responses` when the page
has ended its session and nothing is under way, `FormFlow` when every question is
answered; their configurations say so.

**Fairness** (`FairSpec`, in `CoreQuiet`): weak fairness of each task's next step.
The event loop runs every continuation, and the store answers every call it
is sent: nothing in the code cancels one or waits for a lock. In
`ParticipantClient` the reconnect timer fires, frames that are not cut arrive, the
close of a socket completes, an attempt to connect turns out one way or the other.
In `Responses` it is the same: connecting, the page's steps, the attach, the handlers and the
conclusion go on, each group as a whole. Nothing is assumed of people, nor of which way an
attempt to connect turns out: against a server that stays away the attempts end, and the
session with them. `Presence` has no fairness: its `Tick` stops when a timer
or a lag is due, and its properties are invariants.
In `EventServer` nothing is assumed of hosts, of arriving sockets or of closing ones: that the room
empties after the conclusion follows from `disconnectParticipants` alone.

## What does not hold

The violation run shows documented behaviour that the code does not have.
`Reopened`: a partition passes its check, the event is concluded, the partition then writes
phase "breakout". The check and the write are several awaits apart.

The models show more, and this is why the passing runs say which regime they need. Some
properties are in the modules and in no run, because the code does not satisfy
them; name one in the cfg to see a counterexample:

- `AttachOnlyWhileOpen` (`CoreQuiet` with `AttachesOverlap = TRUE`): an attach that read
  the phase before the conclusion puts its session into the hub after the disconnection.
- `GroupShown` (`CoreReturning`): a page that connects during a breakout is told its group in the
  welcome, which `applyMessage` does not use for the banner.
- `OfflineAnswersKept` (`ParticipantClient`): what a page could not send waits in its queue and
  is drained in the open event; the server listens for messages only once the session is
  created, several awaits later. A frame that comes sooner has no listener.
- `NoNeedlessRefusal` (`Cap`): a socket that ends before `registerHandlers`, or a request
  without a token, keeps its slot of the cap for the life of the process.

Others fail when a named constant or an exception is taken away:

- `MembershipsResolve`, `OneGeneration`, `ClosedStamped` fail in `CoreSerial` with
  `CommandsOverlap = TRUE`: a merge's deletes and a partition's commits interleave;
  `setEventPhase` writes back a record it read before the conclusion.
- `ScreensCurrent` fails in `CoreReturning` with `AttachesOverlap = TRUE`: the welcome
  carries a phase older than the broadcast it overtakes. So does `NobodyLeftOut`:
  `upsertMembership(null)` lands on a group just assigned, or a participant is stored
  after the listing. `ScreensCurrent` excepts what a failed command leaves: a partition that
  fails in its loop has stored groups that some pages are never told.
- `RetriesBounded` counts one more round of attempts for each opening that came to
  nothing, because the open event resets `reconnectAttempts`: the maximum does not
  bound them over several openings. A server that accepts sockets and fails every
  attach is tried again for ever.
- Two sockets of one device that attach at once become two participants: both list the
  participants before either has stored its record. `EventServer` behaves so, and
  no property is stated against it.
- `CapRespected` needs `ErrorFree`: a socket that ends with an error event calls
  `onClose` twice, the second time taking another socket's slot. `RefusedOnlyAtCap`
  needs `Patient`: see `NoNeedlessRefusal`.
- `HostLearns` needs `unsaid`: a welcome that read the phase before the conclusion may reach the
  page after phase.changed, and the page shows an open event until it reconnects; a
  conclusion whose handler fails after its write is told to nobody.
- `RollupsRepair` speaks of the moment after an answer that was handled alone. Rollups are sent
  when answers come and never again: a host's page that was away, or that got two in the
  wrong order, shows old counts until somebody else answers.
- `Finishable` excepts a scale whose min is above its max. `QuestionSchema` admits it, the page
  then has no button, and nobody can finish the form. Nor is there a limit on
  max - min, which bounds three loops.
- `OneHostPerEmail` does not mean that a host notices: when the answer to a
  registration is lost, a second attempt says "already registered".
- The samples of a text question are the last 20 in the order of response ids, which are random,
  so not the latest ones. No property is stated against it.
- `JoinForm.tsx:63` calls the name optional and sends an empty one if none is typed; `JoinSchema`
  (`routes.ts:32`) refuses it. In `HostAccounts` this is one of the cases of `RejectBody`.

## The proofs

TLAPS 1.4.5 with Z3, Zenon and LS4. Every theorem is for any sets of sockets,
commands, addresses, any sizes and orders, under the named assumptions that the
modules state about their constants (`ServerAssumption`, `SentinelAssumption`,
`LoopAssumption`, `CapAssumption`, `BucketAssumption`, `AccountsAssumption`,
`ResponsesAssumption`, `ClientAssumption`, `PresenceAssumption`, `FormAssumption`), which
TLC evaluates in the runs. Each type invariant, each other invariant and each safety action
property of the passing runs is a theorem.

**GroupingProofs.** `GroupsWithinSize`: a chunk has at most `size` members. The
positions of a finite set of participants are distinct, because the order by
(joinedAt, key) is total; so the members of chunk `k` map injectively into
`k*size .. k*size + size - 1`. `GroupsFillInOrder`: the positions are not only
distinct but exactly `0 .. n-1` (`PositionsTaken`, by counting), so as long as there are participants enough
a chunk has all of its `size` members. `JoinOrderKept`: who joined later has a
larger position, and division keeps the order (`DivMonotone`).

**EventServerProofs**, in every regime.
`TypeCorrect`: `Spec => []TypeOK`. `CapacityCorrect`: `Spec => []GroupCapacity`.
The memberships say who is in a group, but the bound comes from one computation, so
the invariant ties the two: a membership that names a group of command `c` equals
`plan[c]` of that participant, and `plan[c]` is `PlanFor` of one listing at one
moment, which never has more than `size[c]` of one index (`GroupsWithinSize`). It holds
whatever overlaps because ids are never reused: a command is planned once.

With commands one at a time (`~CommandsOverlap`; attaches, rejections and crashes at will):
`ClosedIsFinalCorrect`, `OneGenerationCorrect`, `RewriteResolvesCorrect`,
`MembershipsResolveCorrect`. The invariant says what the single command in flight
may rely on at each program counter: past the check the event is open unless the
command closes it (nobody else writes the phase); at "delete" the groups not yet
deleted are the ones stored; at "putGroups" none is; from "setMemberships" on the stored
groups are those of the plan. An attach writes null memberships only, and a failure or crash only
moves a program counter, so neither disturbs it. `ClosedStampedCorrect`: `StampInv` adds
that a command about to write the event has read the record that is stored.

With attaches and commands apart as well (`~AttachesOverlap`; rejections, crashes and closing
sockets at will), three more.

- `ImplementsRoom`: every step of the server is a step of `EventRoom` or leaves the phase and the
  reached sockets alone. `RoomInv` says that no command is in flight while a socket attaches, so
  the phase an attach has looked at is still the phase when it enters the hub, which is what lets
  it map to `Room!Enter`. With commands that overlap the code does not implement the room, as
  `Reopened` shows.
- `NobodyLeftOutCorrect`: `LeftInv` says that a newcomer whose attach has yet to store its
  record is counted by nobody, and that the null membership it is about to write
  changes nothing (`NewcomersFresh`); that a handler's listing stays complete while it runs
  (`ListedAll`); and that what a partition has written for those it listed stays until the next
  handler writes, which has deleted the partition's groups before it does (`PlanKept`). Hence
  the property asks for a stored group of the partition.
- `ScreensCurrentCorrect`: `ScreenInv` says that a session whose attach is done shows the stored
  phase unless a handler has yet to broadcast it (`PhaseDue`); that its `groupIdCache` is its
  membership unless a handler that has written the memberships has yet to come to it
  (`GroupDue`); and that its page shows the group of the cache or none. A handler
  that fails after its write owes the rest for ever, hence the property's exception for
  failed commands.

`CoreReturning` checks these two without faults; the theorems are with them.

**HostAccountsProofs** (any number of pages, requests, spellings, ids).
`AccountsUnique`: the invariant adds that the ids which registrations hold on their way to the
commit are not stored and differ from each other; then a commit, which checks the index again,
cannot disturb the one-to-one relation of index and records. `CodesCorrect`: `KeysFree` checks
both keys and both are written in one step, so nothing more is needed.
`CredentialsStayGood`: the store only grows and no record changes its password, so credentials that were once
accepted match whenever they are looked up again; the invariant carries this for every
request under way with the credentials of its page, and a page waits for at most one request. `SessionsOwn`: a request
with a host id got it from the index for the address in its body, and pages keep
their credentials while they wait.

**ParticipantClientProofs** (any number of answers, sockets, attempts and faults).
`StoredOnceCorrect`: the invariant `OnePlace` says that an answer that was given is in one place at
a time and there once: in the page's queue, among the frames under way on one socket, with one
handler, or stored. Each drain moves the whole queue or nothing, a cut or a close only takes
frames away, and the handler that stores an answer ends with it.
`RetriesBoundedCorrect`: the attempts restart from nothing at every open event, so the argument is an
account. Every fault, and the disconnection of the conclusion, is worth `MaxAttempts` more
(`Excuses`, `Spent`). A socket that is connecting or open is hopeful if its attach is under way or
the frame that decides it is (`Hopeful`), and gets `MaxAttempts` in advance; only a fault or the
disconnection ends the hope without a decision, and pays for it. `RetryInv` says that `barren`
never exceeds what the excuses so far allow.

**ResponsesProofs** (any number of participants, questions and handlers).
`NeverAheadOfStore`: every listing a handler holds, and every rollup on its way to the page,
is covered by what is stored; as responses are never deleted, it stays so however late they arrive.
`OnlyUnderWayIsLate`: after the conclusion a handler that has passed its check holds an answer
of `allowed`. `RollupsRepairCorrect`: `RepairInv` speaks of the time after an answer was stored while no
other handler was reporting, as long as nothing else is stored and the link holds (`clean`). What
its handler has read is then what is stored, and for each question one of three holds: the
last frame under way about it tells the current rollup, or the page shows it and no frame under
way says otherwise, or the handler has yet to send it. When the handler is done and the frames have
arrived only the second is left.

**PresenceProofs** (any number of devices, any times with `PresenceAssumption`).
`SweepInv` bounds the age of the panel: `stale` is at most `MaxLag` and the time since the last sweep
began, and an interval for each sweep that is under way or has failed; a summary that arrives
makes up for all sweeps before it, also when it overtook some. `RecordInv`: of a page that is on,
the latest heartbeat is under way and the record of the one before is there, or its own is; of a
page that is gone, a record is as old as the absence less `MaxLag`, or expired. `ShownInv` carries
both through a summary to what the panel shows, as old as the panel may be. From these
`PanelFreshCorrect`, `BeatingIsOnlineCorrect` and `GoneIsOfflineCorrect`. The assumption
`MaxLag < Beat` says that a heartbeat is stored before the next is sent; with it a page that beats is shown
as online after `Settled`, one heartbeat interval and the age the panel can have.

**FormFlowProofs** (any texts, numbers, limits, participants and questions). `FlowInv` follows a value
through the conversions of both ends: the draft is well typed; the form issued has passed the
schema, so what the pages ask and what the server expects agree (`PayloadAsked`); every stored answer
is one that its page offered (`AnswerCounted`), there is one for each participant and question
marked as answered, and none else; `pressed` is the buttons that the stored answers name. From
it `FramesCorrect` (each frame passes the schema of the other end), `FinishableCorrect`,
`TotalsCorrect` and `BarsCorrect`. Two lemmas are about loops that the model writes as filters:
`NonBlankType`, the options that are not blank make a sequence again, without gaps, and
`StepsWhole`, each button of a scale is a whole number, and there is one if min is not above max.

**PartsProofs.** `LoopCorrect`, for every finite set of participants, order and size: the loop of
`partitionIntoGroups` gives the groups of `GroupIndex`. `LoopInv` is the loop invariant: there is
a `k` with `i = k * size`, the groups made are `0 .. k-1`, those with a position below `i`
have their group and nobody else has one. A line in order has
the participant of position `n - 1` at place `n` (`LinePositions`), so the slice of a round is a chunk.

`CapTypeCorrect`; `CapCorrect` by `EverySocketCounted` (for
an address without errors, live sockets <= count <= cap); `RefusedOnlyAtCapCorrect` by
`NoSlotLost` (for an address without early ends, count <= live sockets). The two
halves together say that the count is exact where neither happens.

`WindowBoundCorrect`: the tokens left are at most what the burst
and the time since any accepted message allow beyond the messages accepted since.
`RefusesOnlyOverRateCorrect`: the tokens are exactly the tightest of those bounds,
the full bucket included, so a refusal has a stretch of time to show for it.

**Only model-checked:** liveness (`AnswersArrive`, `PageLearns`, `HostLearns`, and the
fairness that is part of `RoomSpec`), as TLAPS 1.4.5 has no rules for ENABLED. It does induction over
data only in the form of an invariant over steps, as in `LoopInv`, and cannot expand `SelectSeq`,
`SortSeq` and `@@`; the models say "the options that are not blank" (`NonBlank`) and "in order"
(`Sorted`) by their definition instead.

## What is not modelled

- Host sockets in `EventServer`: they get the same broadcasts and no server decision depends on
  them; `Responses` has them. `requireHost`, `requireParticipant`, `requireSameEvent` and the codec only reject.
- Event not found: the token of a participant or host is signed for an event that
  was stored, and events are never deleted.
- kv.list reads in batches; a listing is one step here. It matters only past 100 records.
- The outbox is written before each broadcast and read by nothing; its append is the
  await before the send, which is modelled, its content is not.
- Several processes sharing one KV: the hub is in-process, and the code has no
  channel between processes.
- `TokenBucket`: rounding of floating-point tokens, and a clock that goes backwards.
- Cryptography, password hashing, HTTP parsing, rendering, styling.
- Of the participant's page: heartbeats, a second session after the join form, a second
  answer to a question, the group banner (in `EventServer`). Terminal codes other
  than EVENT_CLOSED take its path. The conclusion's broadcast does not fail in
  `ParticipantClient`; a host would repeat it.
- Forms aimed at one group (`toGroup`): `Responses` issues a form to everybody. The
  recipients are filtered by the same `groupIdCache` that `ScreensCurrent` is about.
- Form progress is modelled as to when it is computed and sent. What it counts is a guess from
  its payload: `handlers.ts` imports `./formProgress.ts`, which the repository does not contain.
- `presence.ts` and `broadcast.ts` of `packages/ecs` are called by tests only; the server has code of its
  own for both. `world.ts` is plain maps.
- Of `Presence`: the delays are assumed (at most `MaxLag`), as the code promises none; the
  host's page stays connected; there is one event, so the sweep's walk over the
  others is part of its lag.
- Of the host's page: `setPhase`, which no button calls, and the close event of an older socket that
  comes after a new one is open (`useRealtime.ts` then shows "disconnected" while it is not).
- Signing and verifying of tokens, the envelope and JSON: the models take verified
  claims and decoded messages.
- The load test drives the server from outside. Two remarks from reading it against the schemas: its form
  gives its questions no ids, and its connections come from one address, where
  `MAX_CONN_PER_IP` is 50.

## The plan

Done: the core (store, hub, host commands, gateway, their composition and abstract
room), the grouping loop, the cap, the bucket, the participant client, host accounts, forms,
responses with the host client, presence. Proved: every safety property that the passing runs check, in
the regime that its run names or a wider one; that the quiet server implements the room; the
lemmas of grouping.

Left, in the order of what it would add:

1. Two participants in the composition of `ParticipantClient` and `Responses`, so that the queue of one page
   and the rollups of another meet.
2. Forms aimed at a group, over the memberships of `EventServer`.
