# Verification of OpenBot2

OpenBot2 is a team chat in which people share channels with Bots ("coworkers")
that own a browser, a workspace of files and a set of tools, and that may work
unattended. This directory holds TLA+ models of the parts of it that are hard
to test, the TLC runs that check them, and theorems about them that the TLAPS
proof system checks. Paths below are relative to `src/`.

    tlc -workers 2 -config JobQueue_safety.cfg MCJobQueue.tla     # a run
    tlapm JobQueueProofs.tla                                      # the proofs

`PROJECT.json` names every run with its module, its configuration and its
properties, the source lines each definition models ("map"), a plausible bug
for every property ("mutants"), the hazards, and where code and documentation
disagree ("findings"; more of them in section 2.1).

## 1. The system

| Part | State it keeps | Operations | Talks to |
|---|---|---|---|
| API server, N replicas (`server/src`) | in memory only the boundary of every organization and the clocks of open streams; the rest is in Postgres | REST routes, the CopilotKit runtime, the gateway to the computers | Postgres, agent-computer, Bots, Stripe, Intelligence |
| jobs (`server/src/jobs`) | `unattended_jobs`, `job_triggers`; the lock and the turns of a thread are Intelligence's | enqueue, claim, finish, markNeedsYou; schedules, webhooks, mailboxes; the run of a job | worker, loop, spend, Intelligence |
| worker (`worker/src`), N processes | the job it executes | the claim loop, the tick | Postgres, Intelligence, Bots |
| goal loop (`server/src/loop`) | JSON column `channels.loop`: plan, the open card, decisions, outcome | a high-risk call waits on a card; keep, kill, revise; the end of a job | jobs, gateway |
| organizations, spend, billing (`orgs`, `billing`, `people`, `auth`) | `organizations`, memberships, invites, `revoked_access`, `spend_events` | create, invite, accept, roles, removal, sign-in, consume, Stripe webhooks | Stripe |
| gateway (`server/src/computer`) | `computer_snapshot`, `action_policy`, the claim on a shared computer, audit rows | every act of a Bot's browser: read the row, decide, audit, call; set and reset the boundary | agent-computer, supervisor |
| channels (`server/src/channels`) | `channels`, `channel_agents`, the clocks of open streams | rooms of Bots, the paged list, messages, the watch on a silent Bot | Bots, Intelligence, the app |
| agents (`server/src/agents`, `credentials.ts`) | `agents`, `agent_profiles`, the vault | create, edit and delete a Bot; the key of its own server | Postgres |
| plugins (`server/src/plugins`) | skills and their grants, `mcp_tools` | install, remove, grant, revoke, refresh the tools of a server | MCP servers |
| components (`server/src/components`) | `components`, `sandboxed_components`, `component_exclusions`, `component_functions` | announce, save, publish, remove; withhold, grant; a component reads its data | the app |
| CRM (`server/src/crm`) | `crm_people`, `crm_sends`, `crm_send_events` | find or create a human, mark, send, what a reader's openings report | SMTP, Twilio |
| agent-computer (`agent-computer/src`), one process per host or per Bot | maps of browsers, sessions, the wheel; profile directories | page, stop, reset, snapshot, click, take and give back the wheel, answer a secret | Chromium, the disk |
| supervisor (`supervisor/src`) | none; Docker's containers and volumes | ensure, stop, reset | Docker |
| agent-bot, agent-langgraph | none | one AG-UI endpoint: the model | server |
| app | the browser's cache, of which the list of channels is kept in step; the queue and the turns of an open channel | the user interface | server |
| the rest of the server: knowledge, retention, row-level security | rows | CRUD, clients, pure functions | Postgres, third parties |

The parts interact in five ways. Replicas and workers share **Postgres** and
coordinate by row locks, conditional updates, unique indexes and NOTIFY. The
server **calls** an agent-computer or the supervisor over HTTP; their handlers
await the browser or Docker, so calls of one Bot interleave at every await. Bots
**stream** to the server, which relays to a reader. Stripe **delivers webhooks**
to any replica, at least once. The server **pushes events** to browsers, which
may not be listening.

What is hard, and therefore modelled: two workers under READ COMMITTED taking
different snapshots of one table; read-modify-write of one JSON column by
several requests; check in one statement, write in another; a worker or replica
that stops between two statements; a browser leaving a map before it has let go
of its directory; a wheel that is checked before an await and acted on after it;
a counter that restarts while the row that remembers it does not; a watchdog that
must blame only the Bot; a wall clock that answers for a run that goes on; copies
of a table in memory and announcements that are lost; row locks taken in two
orders; webhooks and reports repeated and out of order.

Per component, what makes it correct:

* **jobs**: one run per thread; one worker per running row; finished is final; every job finishes; the owner is never shown better news than the row holds.
* **the run of a job**: two runs do not write to one thread; a job reported done is on it; the lock of a thread is never kept for ever.
* **triggers**: a window of a schedule queues one job at most, and no pile of jobs stands on a thread.
* **goal loop**: a high-risk action happens only while a kept card waits; an open card is not lost; a decision stands.
* **spend**: no unit is recorded past the cap in force; no job is queued unpaid; a waiting request is answered.
* **boundary**: a replica at rest enforces the saved rules and never goes back to replaced ones.
* **trail**: nothing reaches the other side without the row that permits it; a shared computer is one organization's.
* **browsers**: one launch per profile directory; never more live browsers than the cap; the quietest is closed first; a sweep closes what is idle; nothing deletes or unlocks a directory in use.
* **containers**: one per Bot whoever asks; one of somebody else is left alone; a reset throws the profile away.
* **snapshots**: a decision is taken on the element that is then touched.
* **wheel**: Bot and person never drive together, except for what the Bot had begun; a value is typed only while asked for.
* **streams**: a turn ends once; it ends for silence only when the Bot was silent.
* **keys, skills, tools**: the key in use is live and the replaced one is not; a skill steers only Bots it may; the tools held are one listing of the vendor's.
* **components**: a Bot is told of what it then draws; what an administrator withheld or switched off stays so; data is read where it was allowed.
* **CRM**: nobody who was marked is written to; what was opened says so; one row per human.
* **workspaces**: one free workspace per person; one workspace per checkout; an ended subscription pays for nothing.
* **members**: an administrator remains; a seat that is given is there; removed is removed.
* **conversation**: what is typed goes out once, in order, to the Bot it names, a turn at a time; an answer or a failure is told.
* **rooms and the list**: no row names a Bot that was deleted, creations do not deadlock; a list at rest is current and complete.

## 2. The modules

| Component | Abstract | Model | TLC instance | Proofs |
|---|---|---|---|---|
| job queue | `ThreadQueue` | `JobQueue` | `MCJobQueue` | `JobQueueProofs` |
| run of a job | | `UnattendedRun` | `MCWaits` | `WaitsProofs` |
| triggers | | `Triggers` | `MCOrganizations` | `OrganizationsProofs` |
| goal loop | `GoalCard` | `GoalLoop` | `MCChannel` | `GoalLoopProofs` |
| spend cap | `SpendLedger` | `Spend` | `MCSpend` | `SpendProofs` |
| boundary and its fan-out | | `PolicyFleet` | (cfg) | `PolicyFleetProofs` |
| trail of actions | | `Trail` | `MCGateway` | `GatewayProofs` |
| browsers and profiles | | `BrowserProfiles` | `MCWaits` | `WaitsProofs` |
| snapshots and references | | `Snapshots` | `MCGateway` | `GatewayProofs` |
| who drives | | `Wheel` | `MCBots` | `BotsProofs` |
| container per Bot | | `Supervisor` | `MCBots` | `BotsProofs` |
| watch on a stream | `TurnEndings` | `StallGuard` | `MCWaits` | `WaitsProofs` |
| key of a Bot's server | | `AgentKeys` | `MCBots` | `BotsProofs` |
| skills | | `Skills` | `MCBots` | `BotsProofs` |
| tools of an MCP server | | `ToolListing` | `MCBots` | `BotsProofs` |
| components | | `Catalogue` | `MCBots` | `BotsProofs` |
| CRM | | `Crm` | `MCBots` | `BotsProofs` |
| workspaces and billing | | `Checkout` | `MCOrganizations` | `OrganizationsProofs` |
| members | | `Members` | `MCOrganizations` | `OrganizationsProofs` |
| rooms of Bots | | `Rooms` | `MCOrganizations` | `OrganizationsProofs` |
| list of channels | | `Roster` | `MCOrganizations` | `OrganizationsProofs` |
| conversation in a tab | | `Conversation` | `MCChannel` | |

Three conventions hold everywhere. An action is what the program does between
two points where another actor can run (an SQL statement, an `await`), with every
assignment of that stretch. A definition whose name has a suffix
(`IndexAdmits_NoIndex`) is the same definition with a bug somebody might write;
no specification uses it, and the runs must fail when it takes the place of the
right one. And a property that the code keeps only up to a race says so with a
history variable (`overlapped`, `crossed`, `muddled`, ...), which is set when the
race happens; the same property without the exception is in section 2.1.

`(cfg)` means that a `.cfg` file alone instantiates the model. Parts that share
no state in the code are checked in one run: `Waits` puts together the watch,
the run and the browsers, `Gateway` the trail and the snapshots, `Bots` what a Bot
is given, `Organizations` what an organization has; `MCWaits`, `MCGateway`,
`MCBots`, `MCOrganizations` instantiate them, and `MCChannel` the goal loop and
the conversation. `part` is chosen at the beginning, only the chosen part steps,
and the others stand still in an initial state; a part of a run is named where its
properties are listed below. Every behaviour of such a composition is, seen from
each part, one of that part (`EachPartIsItself` of the proof modules), so that what
is proved of a part is true of the composition. How parts that do share state
would meet is not what these runs show.

### JobQueue, ThreadQueue

`ThreadQueue` is the promise of `jobs/store.ts:1`: a job is inserted once,
starts at most once and never beside another job of its thread, and ends once.
`JobQueue` has the table, the row locks, each worker's program counter and its
transaction's snapshot. A claim is five actions because READ COMMITTED makes it
so: the statement's snapshot (`ClaimBegin`), the lock and the re-check of the
locked row (`ClaimExamine`), the update admitted or refused by the partial
unique index on running threads (`ClaimUpdate`, `ClaimConflict`), nothing
claimable (`ClaimNothing`), the second SELECT (`ClaimSelect`). Then the import
of the coworker graph, which may fail; the run, one step with any result; the
finish, a SELECT and an UPDATE; the rescue in `processJob`'s catch.
`markNeedsYou` of an owner interleaves with all of it. Faults: a worker's
death, a throwing statement, a failed import, each with a bound.

* `JobQueue_safety` (two workers, two jobs on one thread or two, one mark, one of each fault): `OneWorkerPerThread` (types, `ThreadExclusion`, `ExecutingIsRunning`), `OwnerIsNotMisled`, and `QueuePromise`, the refinement of `ThreadQueue` with `FinishedIsFinal`. Two workers and two jobs make every race, since the index and the row locks work pairwise and a running row is one of the two; the theorems of section 3 hold for any number.
* `JobQueue_live` (three jobs, so that a claim can conflict while another thread has work): without faults, `EveryJobFinishes`.
* `JobQueue_crash` (violation): one death leaves a row running for ever and its thread blocked. Nothing in the code takes a running row back.

Fairness: weak, on each worker's own steps (a process that is scheduled
proceeds; the loop polls for ever, `claim-loop.ts`) and on an owner's UPDATE
once begun. None on enqueueing, marking or faults.

### GoalLoop, GoalCard

`GoalCard` is the promise to the owner: an action waits on a card, one card at a
time, is carried out only while its card waits, and an answered card stays
answered. `GoalLoop` has every writer of `channels.loop`: a high-risk call
(`wait.ts`), the owner's decision (`routes.ts`: read, act, write), the end of a
job and the record of an outcome. Each is a read of the column, perhaps a tool,
and a write of the whole column.

* `Channel`, part `goal` (four requests, up to three under way at once, one of which may die half way): through every interleaving `OnlyKeptIsCarriedOut`, an action is carried out at most once for every keep of its card and never when its call was refused. Until two requests have overlapped, which a history variable records: the refinement `CardPromise`, `LoneWritesLoseNothing` (a decision keeps the newest first and pushes the oldest out, the bound 8 of the code being a constant, 1 here so that it is passed; the end of a job only fills in), and, until one dies, `LoneKeepCarriesOutOnce`. Four requests are two cards with their decisions, or one card with three requests that race for it.

The premise is what the code relies on and nothing enforces: the loop column is
read, changed and written back whole. What happens outside it is in the table of
section 2.1.

### Spend, SpendLedger

`SpendLedger` is the cap as a sentence: a unit is recorded only if what is then
spent stays within the cap in force. `Spend` is `consume`: SELECT ... FOR UPDATE
of the organization, the sum, the insert or the refusal, and the enqueue that
pays first, with an owner who moves the cap and replicas that die.

* `Spend_cap` (three units of different price, caps 0, 6, 15 in tens of cents, none, one change, one death): `LedgerPromise` (the refinement), `PaidQueue` and `EveryRequestAnswered`. The caps make "reaches the cap exactly", "crosses it" and "lowered below what is spent" all happen. Strong fairness on taking the row lock (Postgres queues waiters, so a waiter is not passed for ever), weak on the statements of a transaction that is under way.

### BrowserProfiles

`profiles.ts` and `browser-eviction.ts`: the maps of live and starting browsers,
the directory on disk with the browser writing it and the lock files, calls
(page, stop, reset) at their awaits, the cap's eviction, the idle sweep, and the
trouble a browser can make (crashed, page closed, launch failed).

* `Waits_races`, part `browsers` (cap two, four overlapping calls of three Bots, a sweep, one trouble): `MapsAreKept` (types, the cap, a launch in flight for every entry that says so) and `CapClosesTheQuietest` whatever happens; `SharedLaunches`, one launch per directory for a Bot whose browser was never found half-dead; `UnhurriedDirectoryIsFree`, locks are swept and directories deleted only when no browser of the Bot writes there, for a Bot that waits for its last call and for an eviction of its browser before it asks again. Three Bots under a cap of two are the least that leave the cap a choice; four calls let an evicted Bot come back. Time is the order of use: an entry is found idle only after those used before it, and a new entry is not idle. `MCWaits` declares the Bots symmetric.
* `Waits`, part `browsers` (two Bots, cap one, three calls): `EveryCallAnswered`, a half of `WaitsEnd`, with weak fairness on every call's next step, on Chromium's exit and on a sweep under way: the awaits are promises that settle (Playwright's own timeouts).
* `BrowserProfiles_two_launches` (violation): a browser found half-dead by two calls is launched twice on one directory.

### Snapshots

A snapshot numbers its elements and carries a generation; the server keeps the
last one in a row and decides a click by the row's element; the computer refuses
a generation that is not its current one. The model has both processes, two
replicas, navigation, restart, reset, and the await between the page's snapshot
and the counter.

* `Gateway`, part `snapshots` (two snapshot calls and an acting call on any replica, a restart and a reset, on the shared computer and on one whose reset starts a new process): `DecidedOnASnapshotOfItsGeneration` whatever happens; `LiveReferenceResolves` until a restart or a reset, however saves overtake each other; `CalmReplicas` (types, a decision is on what is then touched, one generation per document) while the computer keeps its process and has not served two calls at once, which a history variable records.

A computer that serves one call at a time is what a Bot that makes one tool call
at a time gives; the code does not enforce it. Two generations and four
documents let a row be behind, at and ahead of the counter, before and after a
restart and a reset.

### Wheel

`control.ts` and the handlers that consult it: `help`, `take`, `release`, stop
and reset, the request for a secret and its answer, and calls of the Bot and of
the person, which check the wheel, await the page, and act.

* `Bots`, part `wheel` (two calls of the Bot, two of people, two answers, two requests for a secret): `HandOver`: whatever the Bot does while a person drives, it had passed the check before the wheel was taken; `BotGivesWay`: a person who keeps the wheel has the browser alone in the end. Weak fairness on the end of a call already begun (Playwright's actions time out); none on beginning one.

Two calls of each kind suffice: every property speaks of one call against one
other, and of one request replaced by the next.

### StallGuard, TurnEndings

`TurnEndings` is what the reader of a turn is promised: relayed while open,
ended once and in one way, nothing afterwards. `StallGuard` has the pump of each
stream (a read, a delivery), the watch with its clock that is paused while the
consumer is slow, and the sweep armed while anything is watched.

* `Waits`, part `streams` (two streams, one of them protobuf, whose end is written differently): `WatchIsHonest` (only the Bot's own silence ends its turn, and the recorded clock is that wait), `TurnsEndOnce`, the refinement, and `SilenceEnds`. Time is a bounded age that stops at the timeout, two ticks. `Prompt` says that the event loop hands out what has arrived before the sweeper's timer fires after a tick. Weak fairness on time, the armed interval, and a read that can settle; none on the Bot or the consumer.

### Checkout

`POST /api/orgs` (count, create, own) and `applyStripeEvent`, a statement at a
time, with Stripe delivering at least once. One person and one subscription.
The active workspace, which nothing reads back here, is left out.

* `Organizations`, part `checkout` (two requests and two webhooks at once, completed checkouts and updates delivered again, all in any order, replicas stopping between statements): `BillingPromise`: a person gets at most as many free workspaces as requests are ever under way at once, so one if requests come one at a time; and an ended subscription pays for nothing, while webhooks come one at a time and in order and none stops half way. At most three workspaces are made: a free one, a paid one, and one too many.

### PolicyFleet

The rules every replica enforces on the Bots' browsers: the table, each replica's
map, `set` and `reset` (a transaction that saves and announces, then the map),
the listener with its first read, its connection that breaks and comes back, and
rereads that are two steps, the query and what its callback does. Boot, death, a
query that fails.

* `PolicyFleet_replicas` (two replicas, one organization, two writes, two rereads at once on a replica, one trouble): `QuietFleetAgrees`, a replica that listens and has nothing left to do enforces the saved boundary; `NeverBack`, it changes to the saved one and to no replaced one; `FleetConverges`. All but while a write was committed, or a query failed, inside one of the replica's own queries or writes (`crossed`), which its next undisturbed reread mends. Weak fairness on a replica's own steps and on the arrival of announcements; none on writes or failures. A replica is compared with the table only, so a second replica matters for its writes; two of these are what an older read needs to land last.

### UnattendedRun

One thread of Intelligence, the jobs that are claimed for it one after the other
and the turns people start in a tab: refusals before anything starts, the lock
with its time to live and heartbeat, the join of a runner, its startup timeout,
the wall clock that answers the queue while the run goes on, and the look for the turn on
the thread. That look is for words: the prompt and the answer are searched for in
every message of the thread (`Found`, `thread.ts:189`), so that an earlier turn with
the same words, or longer ones around them, will do. A schedule asks in the same
words each time, so the model keeps who said what (`asks`, `says`, `thread`) and
which texts include which (`Holds`). Intelligence (join, run, lapse of a lock) is
external; a run in trouble may leave any part of its turn on the thread.

* `Waits_races`, part `run` (two jobs and a tab, all with one prompt, two answers of which one includes the other, one attempt at the lock, one trouble): `HonestRuns`: two runs do not write to the thread at once, unless one lost the lock it was renewing or joined after its job had given up; and a job reported done ran to its end and said something, and its prompt and its answer are each on the thread, as its own message or inside another one. That the thread "now holds this turn" is broken (section 2.1).
* `Waits`, part `run` (the same with two attempts and no answers): `LockComesFree`, the other half of `WaitsEnd`. What is said makes no difference to the lock. Weak fairness on each run's own steps, on the runner's and on the lapse of a lock nobody renews: timers fire and the gateway answers or times out. Two jobs and a tab are every pair that can meet.

### Triggers

A tick claims a due schedule in one statement, reads it in another, looks for
unfinished work of the thread, records the fire, pays and queues; webhooks and
mailboxes take the same path without the gate. Edits and removals in between,
and workers or replicas that die.

* `Organizations`, part `triggers` (two workers, a schedule that comes due three times, one inbound call, one edit, one death): `StandingFires`: a window queues one job at most, and no more unfinished jobs of schedules stand on a thread than there are workers. Three windows let one be missed while two jobs stand.

### Trail

Every act on a computer, an MCP server and the CRM, from the gateway to its last
row: decide, record, wait for a card or act, record a failure; handover, stop,
reset; and the claim an organization makes on the shared computer. What fails
is a statement, a call to the other side, or the process.

* `Gateway`, part `trail` (two organizations, two calls, one trouble): `TrailPromise`: nothing a Bot asked for reached the other side without a row that permits it, nothing refused or waiting did, a permitted computer action has happened, waits or has a row that says it failed, unless trouble ended the call, and one organization reached a shared computer. Two calls are one claim against another; section 3 has any number.

### Supervisor

`ensure`, `stop` and `reset` against Docker, a request at a time, any number at
once: inspect, volumes, create, the conflict on a name, start, settle, wait for
the address; and containers of others that come and go at the name.

* `Bots`, part `supervisor` (three calls, three containers or volumes, two attempts): `ComputersAreOne`: ensures that overlap get one container until it is reset and do not fail for each other's sake, and a reset with no ensure beside it throws the profile away. Three calls are two ensures and a reset.

### AgentKeys, Skills, ToolListing

`AgentKeys`: create, edit and delete of a Bot with what they do to the vault from
inside their transaction on a second connection of the pool, failures between,
and an operator's rotations. `Skills`: install, remove, grant, revoke, each a
check in one statement and a write in another. `ToolListing`: the refresh of a
server's tools, which asks the vendor, deletes, inserts.

* `Bots`, part `keys` (a pool of three, three requests, one failure, one rotation): of `SettingsPromise`, `KeysPromise`: a replaced or deleted key is revoked and the Bot's is live, up to failures and the operator. Parts `skills` (three people, two Bots, three requests) and `tools` (two tools, three refreshes, two changes at the vendor): of `SettingsPromise`, `SkillPromise` and `ListingPromise`: a skill says what its owner or an administrator wrote and steers only Bots it may; the tools held are one listing.

### Catalogue

One component that a build announces and one from the playground: the drafts and
the published wording of each, the source of the second with a draft and a
publication of its own, the Bots they are withheld from, and the organization
whose grant lets them read data. Every request is several statements outside any
transaction, and the replica may stop between two.

* `Bots`, part `catalogue` (a Bot in each of two organizations, four requests): the last part of `SettingsPromise`, `CataloguePromise`: what Bots are told of the playground's component is what they draw, once a whole publish had no other and no removal beside it; what was withheld or switched off stays so whatever is announced or removed; data is read only for a Bot that might use the component, in an organization that let it read, at some moment of the call. Four requests are a saved and published component that is saved and published again, or a withholding with a removal and two announcements.

### Crm

One human: `crm_create` of a Bot that finds or makes the row, edits, the two marks
that forbid writing, a send from its check to its delivery, and the statuses that
a reader's openings and clicks set.

* `Bots`, part `crm` (one send, one report, two creates, one edit): `CrmPromise`: nobody who was marked all along is written to, whichever mark it was and whatever a create patches meanwhile; an opened thread says so; creates that do not overlap leave one row.

### Members

Invites and the seats they need, acceptance, roles, removal and restoration,
sign-in with its deny list, the first request of who belongs nowhere, changes of
plan. Requests read in some statements and write in a later one.

* `Organizations`, part `members` (two people, three requests, one invite, seats for one or two, one turn of the plan, of an invite or of a session): `AnAdministratorRemains` unless two such requests cross; `SeatsAreCounted`: an invite or an acceptance takes a seat that is there unless another write came between.

### Rooms

The transactions that create a channel, add Bots, and delete or edit a Bot, with
the row locks they take in the order they take them, foreign keys and the primary
key included. Postgres (who waits, that of a circle one is aborted) is external.

* `Organizations`, part `rooms` (three Bots, rooms of two, two requests): `RoomPromise`: no row is committed that names a deleted Bot, creations do not wait in a circle, with each other or with one addition, and a room is full at most and in order unless two requests added at once. A deadlock needs two.

### Roster

A person's list of channels: cursor pages, activity that only moves forward, its
announcement over LISTEN and a WebSocket, and the browser's cache through lost
connections and reloads. Time counts half milliseconds, since a cursor loses them.

* `Organizations`, part `roster` (two channels of three instants, two reports, two breaks): `RosterPromise`: a list at rest is what the database holds, and complete when every page is loaded; unless the server's own listener lost an event, an event met a fetch, two channels are of one millisecond, or a channel was created within the millisecond in which another was spoken in. The last exception was missing until the proof of `CursorSeparates` failed for it.

### Conversation

One channel in one tab: what a person types, parks, takes back or hands to the
worker, the buttons of rendered components, the Bot who speaks, what waits for a
change of it, and turns of several runs. React is part of it: a handler reads
what the last render closed over (`drawn`), a render takes the state as it is
(`Commit`), and its effects run after it, a child's first (`Effects`), with the
drain among them. Where React is `lagging` events fall between these; where it is not,
nothing does. Both are explored. Keys and buttons have React catch up before the next
event either way; for the rest the gap is a task of the browser.

With the speaker `useAgent` changes its agent, which is connected to the thread again
(`rejoin`, `Connected`): a run found there, a worker's or one of the agent before, is
joined (`wire`), goes on beside the turns of this mount and may end in their place, for
the subscriber cannot tell (`JoinedEnds`). A turn under way stays with the agent it
began with (`left`), out of the reach of Stop and perhaps of the subscriber. A failure
because the thread is unknown is shown to nobody, and the reply stays awaited
(`ThreadUnknown`).

* `Channel`, part `conversation` (two Bots, three messages or fewer and changes of focus, two of them where React lags, turns of two runs): `ConversationPromise`. Whether React lags or not: `WordsGoOutOnce`, every message is in the queue, taken back or in one turn, and goes to the Bot it names; `QuietAnswersAreHeard`, the answer of a turn of one run, beside which there was no other turn, joined run or change of speaker, is named and reported or its failure shown, unless it failed because the thread is unknown. Where it does not lag: `WordsGoOutInOrder`, in the order typed; `StartsInTurn`, nothing typed or parked starts a turn beside another. Then `EveryMessageIsSaid`, where React does not lag: what is typed is said in the end, but for what is taken back, parked while no turn is under way, or caught by the deletion of a Bot, which closes the channel. Weak fairness on React, on the end of a joined run and on each turn's next step, which comes because the server watches every stream (`StallGuard`); none on people, nor on the connection. Three messages are one that is answered and two that wait, for one Bot or two; where React lags two reach every window it opens: a turn beside a drained one, and a message bound to a speaker who has been changed.

### 2.1 Broken by the code

Each of these is a property stated in the module, and a behaviour of the code
breaks it: TLC prints one when the property takes the place of those of the
part's run, or of the run `JobQueue_safety`, with the constants named here and no
SYMMETRY for an action property. They document the premises above; those of
`JobQueue_crash` and `BrowserProfiles_two_launches` are also runs of
`PROJECT.json`, with the sentence of the code they contradict.

| Module | Property | What happens |
|---|---|---|
| `JobQueue` | `EveryJobFinishes` (`FairSpec`, `MaxLoadErrors` 1, no other fault) | a failed import after the claim has committed leaves the row running (`claim-loop.ts:63`) |
| | `OnlyRunningMarked` | markNeedsYou rewrites the outcome of a job that has finished since its SELECT (`jobs/store.ts:427`) |
| | `NeedsYouIsShown` | finish writes an outcome from the `needs_you` it read earlier (`jobs/store.ts:355`) |
| `GoalLoop` | `OpenCardIsShown` | of two cards opened at once one is overwritten (`wait.ts:190`) |
| | `JobOnlyFillsIn` | the end of a job overwrites a newer card or outcome (`loop/routes.ts:253`) |
| | `RevisedIsNotCarriedOut` | a keep acts although a revise was answered meanwhile (`loop/routes.ts:128`) |
| | `CarriedOutOnce` | a keep that dies after its tool is kept again (`loop/routes.ts:129`) |
| `BrowserProfiles` | `SweptLocksAreStale` | a Bot asks while its evicted browser is closing (`profiles.ts:220`) |
| | `RemovedIsClosed` | a reset does not see a launch in flight (`profiles.ts:350`) |
| | `SweptIsIdle` | the sweep closes a browser used since it chose (`profiles.ts:246`) |
| `Snapshots` | `DecidedOnWhatWasTouched` | the counter restarts, the row stays (`gateway.ts:710`) |
| | `OneGenerationPerDocument` | the counter is read again after an await (`index.ts:267`) |
| `Wheel` | `OneDriver` | the Bot's call is on its way when the person takes the wheel (`index.ts:902`) |
| | `TypedOnlyWhileAsked` | a value is typed for a request closed meanwhile (`index.ts:574`) |
| | `AnswerClosesItsOwn` | the answer to one secret closes the next request (`index.ts:592`) |
| | `HelpStandsUntilTaken` | a hand-back wipes a request nobody took up (`control.ts:181`) |
| `StallGuard` | `NothingWasWaiting` (`Prompt` FALSE) | a process that slept for the timeout blames the Bot (`turn-watchdog.ts:210`) |
| `Checkout` | `OneFreeWorkspace` | two requests both count none (`orgs/routes.ts:117`) |
| | `OneWorkspacePerCheckout` | a completed checkout delivered again makes a second paid workspace (`stripe.ts:182`) |
| `PolicyFleet` | `EveryQuietReplicaAgrees` | of two overlapping rereads the older lands last (`policy-store.ts:162`) |
| `UnattendedRun` | `NeverTwoRunsWrite` | a join is accepted after its lock was given up (`runtime-run.ts:331`) |
| | `FailedLeftNothing` | the wall clock fails the job and its turn arrives later (`jobs/run.ts:391`) |
| | `ThreadHoldsTheTurn` | the turn is lost and an earlier one has its words, though the thread "now holds this turn" (`thread.ts:157`, `thread.ts:189`) |
| `Triggers` | `OneStandingJob` | two ticks both find the thread free (`triggers.ts:392`) |
| | `OffIsOff` | a schedule claimed and read before it was switched off fires (`triggers.ts:356`) |
| `Trail` | `ResetIsAlwaysRecorded` | a statement between the reset and its row fails (`gateway.ts:730`) |
| | `PermittedMeansDone` | the process dies, or the failure's own row fails (`gateway.ts:580`) |
| | `SucceededMeansSucceeded` | `mcp.call_succeeded` is written before the call (`plugins/store.ts`) |
| `Supervisor` | `EveryResetThrowsAway` | an ensure beside the reset mounts the volume again (`docker.ts:332`) |
| | `HeldIsForeign` | the name was held when create failed and its holder has gone (`docker.ts:360`) |
| `AgentKeys` | `AKeyAlwaysWorks` | the old key is revoked and the transaction then fails (`profile-store.ts:418`) |
| | `NobodyWaitsForever` | every request holds a connection and waits for a second (`profile-store.ts:396`) |
| `Skills` | `FirstKeepsTheName` | two installs of a free name: the second rewrites the first (`plugins/store.ts:605`) |
| | `GrantFollowsItsSkill` (`MaxCalls` 4) | a grant outlives its skill and meets the next of the name (`plugins/store.ts:655`) |
| `ToolListing` | `NeverMerged` | two refreshes delete, then both insert (`plugins/store.ts:409`) |
| | `ToolsLeftAlone` | a refresh fails between its delete and its insert (`plugins/store.ts:414`) |
| `Catalogue` | `NoHalfAlone` | the wording of the playground's component is published by itself (`components/store.ts:365`), or `publish` stops half way (`sandboxed.ts:289`) |
| | `AllowedIsAllowed` | the row of another organization is in the way of a grant of data, which is answered as given (`components/store.ts:403`) |
| | `NothingRevokedIsRead` | the grant is revoked between the check and the read (`components/routes.ts:263`) |
| `Crm` | `StatusNeverFalls` | a status computed from an older one is written last (`crm/store.ts:1693`) |
| | `NoSendToMarked` | the mark comes between the check and the delivery (`crm/store.ts:1599`) |
| | `OneRowPerHuman` | two creates both find nobody (`crm/store.ts:522`) |
| `Members` | `RemovedStaysOut` | the session is left and its next request joins again (`guards.ts:121`) |
| | `RemovedCanBeRestored` | the restoring route looks among the members (`app.ts:566`) |
| | `AlwaysAnAdministrator` | two administrators lower each other (`app.ts:616`) |
| `Rooms` | `RoomNeverOverfull` | two additions both read the room before either writes (`channels/routes.ts:463`) |
| | `DeletionBlocks` | a deletion locks the agent before the profile, a creation the other way round (`profile-store.ts:207`) |
| `Roster` | `EveryQuietRosterIsCurrent` | the server's listener was down, or the event met a fetch (`events.ts:83`) |
| | `EveryChannelIsListed` | two channels of one millisecond fall between two pages (`channels/routes.ts:597`) |
| `Conversation` | `NothingWaitsIdle` | a message typed while send-and-go is being accepted is parked, no turn is under way, and nothing drains it until a later one ends (`composer.tsx:127`) |
| | `FailureIsShown` | the end of a turn's first run ends the wait for its answer, and the failure of the second is not shown (`channel-chat.tsx:434`); or the thread is unknown (`channel-chat.tsx:423`) |
| | `ReportedForOwnTurns` | a joined run ends while a reply is awaited and is taken for it, though failures are "reported only for turns started in this mount" (`channel-chat.tsx:267`) |
| | `WordsGoOutInOrder` (`lagging`) | Enter comes between the render that ends a turn and the drain of what was parked (`conversation-view.tsx:192`) |
| | `TurnsAreInTurn` (`lagging`) | Enter comes between the drain and its render (`conversation-view.tsx:196`) |
| | `EveryMessageIsSaid` (`lagging`) | the page points at another Bot before the message for the first is bound (`channel-chat.tsx:491`) |

Where a comment or a document promises what one of these denies:
`policy-store.ts:170-186` (a failed announcement costs the others their update
"until their next restart": a second write or a reconnection mends it too),
`profile-store.ts:415-416` ("a failure here leaves the Bot working with a key too
many rather than with none"), `plugins/store.ts:395` ("Replaced wholesale, never
merged") and `:445` ("The tools already held are left alone"), the plugins schema
("First to take a name keeps it"), `components/sandboxed.ts:258-259` ("Either half on its own
is a state nobody wants and both would be reachable if this were two endpoints": the
component routes have the second one), `channels/routes.ts:105` ("both halves of the
sort"), `people/store.ts:303-308` ("Remove somebody, and end the session they are
using"), `docs/architecture.md:146` ("A person marked DNC cannot be sent to"),
`conversation-view.tsx:179` ("Nothing can be parked while the conversation is
idle") and `channel-chat.tsx:684-688` ("A turn that ends without an answer leaves a
gap exactly where the reply was going to appear", "`runError` carries whatever ended
the turn").

## 3. What is proved

The theorems hold for any set of workers, jobs, threads, streams, calls,
replicas, organizations, prices and caps, under the assumptions the modules name;
TLC evaluates those on every run.

* **JobQueueProofs** (`TypeCorrect`, `ThreadsAreExclusive`, `ExecutingJobsRun`, `WorkersAreAlone`, `QueueIsKept`, `FinishedStaysFinished`; from `Invariance`; and `OwnersAreNotMisled`). `ThreadExclusion` alone is not inductive. `IInv` adds that a row a claim is about to update is locked by that worker and still queued, that a worker past its UPDATE names a row that is running or finished, that no two workers name one row, and that no two running rows share a thread (the index). `Invariance` proves that conjunction with the types; each theorem is then a consequence, and `QueueIsKept` maps each action to a step or a stutter of `ThreadQueue`. For `OwnersAreNotMisled` it takes one thing more, `MarkedHasRun`: the rows that a mark is about to write have run. It says what the owner may conclude from Done and Active and that no failure is hidden; it does not say that a row marked `needs_you` is shown so, which fails without any fault (`NeedsYouIsShown`).
* **GoalLoopProofs** (`OnlyTheKept`, `TheLoopKeepsTheCard`, `NoLoneWriteLoses`, `ALoneKeepActsOnce`). Three facts hold whatever overlaps: a loop that waits shows the card of a call that was answered with it, a request that goes on has read a loop that let it, and an action has been carried out no more often than keeps of its card are past doing so. A fourth, `Alone`, holds until requests overlap: the one under way has read the loop as it still is. With it every write is the step of `GoalCard` that its request decided on. `ALoneKeepActsOnce` needs a second invariant, `Once`: a card whose action was carried out is gone, or the keep that did it is about to take it away.
* **SpendProofs** (`TypeCorrect`, `LedgerIsKept`, `QueueIsPaid`, `PaidQueueHolds`). Between the lock and the insert the cap and the sum that a transaction has read are still those in force, because whoever holds the lock is the only writer; with that the insert is a `Charge` of `SpendLedger`. `QueuedIsPaid` is not inductive, since a replica may die between its payment and its job; `Paid` counts the unattended requests that have paid and not died, and the jobs are among them.
* **PolicyFleetProofs** (`TheFleetAgrees`, `NoBoundaryComesBack`; from `UncrossedIsCurrent`). On a replica that nothing has crossed, whatever was read or committed and has not reached the map yet is the table as it is; and while it listens, either its map is that table or an announcement or a reread that will make it so is due. A write makes that false for exactly the replicas it crosses, and due for those that listen.
* **WaitsProofs**
    * The watch: `TheWatchIsHonest` from `ClockInv`, which ties each stream's recorded time to the pump's phase: running exactly while the pump waits for the Bot, stopped while it hands a chunk over; then a clock that reaches the timeout is a wait that did. `TurnsAreEndedOnce`, the refinement of `TurnEndings`, needs that an end is the last thing in the reader's hands, that an ended stream is watched no longer and that its pump, if it lives, reads from a cancelled Bot (`EndsInv`).
    * The run: `RunsAreHonest` from `RunInv`: a runner that writes belongs to the run that holds the lock, unless that run lost it or had given up, and a run asks to join only while it is at work. What is reported of a job is kept by `SaidInv`: a job looks for its words when its runner is done, and from then on neither its words nor its report change, while the thread only grows (`TheSaidStays`).
    * The browsers: `TheMapsAreKept` and `LaunchesAreShared` from `MapsInv`, that every entry that says "starting" names a call that is on its way to filling it and that the map with those entries stays under the cap; `TheCapClosesTheQuietest` adds that no two live Bots were used at one instant. `TheDirectoryIsFree` from `DirectoryInv`: a Bot that does not ask again before its last call and its eviction are over has one call under way, whatever writes its directory is in the map, being evicted or that call's own, and so nothing writes underneath.
* **GatewayProofs**
    * The trail: `TheTrailIsKept`. `Behind(c)` says what a call must have behind it at each place: the row of its verdict once decided, the claim once it acts, its effect or its failure's row once over. A call writes only its own rows, so `OthersStay` carries it over the steps of others.
    * The snapshots: `DecisionsRestOnTheirGeneration`, `TheNewestSnapshotIsNotHidden` and `OneCallAtATimeIsSafe` from `SnapshotsInv`. Whatever the row says was handed out (`HandedOut`); until a restart or a reset the row is ahead of every reference handed out and the counter ahead of the row and of what is being saved (`InOrder`); and while one call at a time is served, a generation is of one document, and a click that passed the check is of the present one (`Calm`).
* **BotsProofs**
    * The wheel: `HandOverHolds`. No call passes the check while a person drives, and taking the wheel notes who was in.
    * The supervisor: `ComputersStayOne`, where the attempts an ensure has lost are counted against the resets that took them (`Accounted`) and an ensure told that its name is held was outrun by an ensure and a reset (`Outrun`). `OthersAreLeftAlone` (`OnlyOurs`, which no run checks): a container of somebody else at the Bot's name is never started, stopped, removed or handed out, unless it took the name, freed by a reset, inside the call.
    * Keys, skills, tools, components: `SettingsStand`, from an invariant of each. One request has the Bot's row locked and every live key is the Bot's, on its way there or known to be left behind (`KeysInv`; `KeysLeft` counts keys against those who made them, so that there is always one to take); a skill's request that nobody crossed may still do what it was let to (`SkillsInv`); refreshes that do not overlap insert into an empty table (`ListingInv`); a publish that is alone has the source to itself and what administrators decided is in the rows (`CatalogueInv`).
    * The CRM: `TheCrmKeepsItsPromise` from `CrmInv`: rows are counted against the creates that are over, and a send that names somebody marked all along gets no further than the check.
* **OrganizationsProofs**
    * Members: `AnAdministratorStays` and `SeatsStayCounted` from `MembersInv`: what a request has read still holds when it writes, unless it was disturbed.
    * Triggers: `SchedulesFireOnce` from `TriggersInv`, two counts. The jobs of a schedule, the claims under way for it and the window that is due are no more than the windows that came; the jobs that stand and the workers let past the gate are no more than the workers.
    * Billing: `BillingIsPromised` from `BillingInv`: free workspaces owned and creations that have counted are no more than the requests there may be; and while webhooks come in order one row at most carries the subscription.
    * The list of channels: `RostersAreCurrent` from `RosterInv`: whatever an open list does not show as the database has it, an event on the wire is about; the pages cover all that is not below the last cursor. `CursorSeparates` and `AtRestAllIsShown` carry the arithmetic of cursors that forget half a millisecond, the former under `Apart`.
    * Rooms: `RoomsAreKept` from `RoomsInv`: locks held at once are compatible; a creation keeps the profile of each Bot it has passed from deletion; what an addition has read is the room until somebody else adds, and the places in it are taken from the first. That creations never wait in a circle follows from the order of ids in which each locks.

`TheWaitsAreSafe`, `TheGatewayKeepsItsPromises`, `BotsKeepTheirPromises` and
`OrganizationsKeepTheirPromises` say of the compositions, from `EachPartIsItself`, all
that their runs check of safety.

Assumptions: the named ones on constants, and nothing else. Bounds on how often
something happens are naturals, and sets whose members are counted are finite
(`MaxJobsAssumption`, `KeptAssumption`, `RunAssumption`, `BrowsersAssumption`,
`SnapshotsAssumption`, `SupervisorAssumption`, `KeysAssumption`, `ListingAssumption`,
`CatalogueAssumption`, `CrmAssumption`, `MembersAssumption`, `RoomsAssumption`,
`TriggersAssumption`, `CheckoutAssumption`, `WheelAssumption`, the two named
`RequestsAssumption`). Attempts, the cap on live browsers, the decisions kept, the
cap of a room and the watch's timeout are at least one, as in the code
(`StallAssumption` has the last). The markers for nobody are nobody's
(`SentinelAssumption`, `NobodyAssumption`, `OrgsAssumption`, `TriggersAssumption`).
Prices and caps are naturals (`CentsAssumption`, `CapsAssumption`). Bots of a room
and channels are numbered, for the code orders them by id, and instants are half
milliseconds of which a message takes a whole one (`RosterAssumption`: up to 99, a
bound of the model). `PartsAssumption` names the parts.
The bounds on faults are constants too, so a theorem covers every number of them.

Model-checked only:

* Liveness: `EveryJobFinishes`, `EveryMessageIsSaid`, `EveryRequestAnswered`, `BotGivesWay`, `SilenceEnds`, `WaitsEnd`, `FleetConverges`. The prover has no ENABLED and no fairness.
* `ConversationPromise` of the conversation in a tab, which is about the order of words in several queues at once.


## 4. What is not modelled

The parts that `PROJECT.json` lists as not modelled are there with the reason. In
short: the user interface but for the list of channels and the conversation, CRUD of single rows
(companies, notes, pipelines, knowledge), pure functions (parsing,
encryption, policy expressions), clients of third-party services, process
assembly, generated code. They are most of the lines of the repository and have
no order of steps to get wrong; a model of them would copy the code. The
connector runner (`worker/src/connector-runner.ts`) persists a batch with its
cursor in one transaction and is started by its tests only. Sessions of the
agent-computer are never forgotten while a call holds them in `Wheel`, though
`index.ts:156` may do so.

Outside the repository and taken as environment: Postgres (its READ COMMITTED
rules are in `JobQueue` and `Spend`, its locks in `Rooms`), Stripe, Docker,
Chromium, Better Auth, the drivers and CopilotKit Intelligence.

## 5. The plan

The order is by what a failure costs. Every component that keeps shared state and
interleaves is modelled, and every safety property that a run checks is proved but
one. What is left:

1. `ConversationPromise`: each of its three parts, the order of words first, from what a turn under way, the queue and the drawn state know of each other.
2. `JobQueue` with `UnattendedRun` in the place of its one-step run.
3. `Trail` over `Snapshots` and `Wheel`, whose calls are the same.
