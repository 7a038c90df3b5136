# A TLA+ verification of NanobarAPI

NanobarAPI is a Python ASGI framework (`nanobar_api/`) that watches a program from the
outside in: every request and domain event is traced, its boundaries are captured, the
captures become *regression-bricks*, the bricks are classified under *nanobars*, and a
nanobar's bricks can be replayed against a shadow replica of the application. `app/` is
the demo that uses it, a blog with a dashboard. All state is in SQLite files and in the
memory of a few threads:

| file or memory | written by | read by |
|---|---|---|
| `events.db` (durable queue, worker ledger, log) | producers, worker processes | worker processes, monitors |
| bounded queues of `EventQueueRepository` | request handlers, event bus, publisher | event bus thread, drain worker thread |
| `nanobar_api_telemetry.db` (traces, spans) | drain worker | scan of the backlog |
| `regression_bricks.db` (bricks, nanobars, bindings) | generate, refresh, update | dashboard, replay |
| `blog.db` and its shadow replica | blog services, publisher, seeding | the same |
| log of the shadow seeds | replay action, sweep at start-up | sweep at start-up |
| `nanobar_admin.db`, `app_admin.db`, dynamic taxonomy | login, workers | dashboard |
| variables and DOM of a page in a browser tab | its handlers, between two awaits | the same |

The modules in this directory model those parts in which several processes or threads
meet, in which a crash between two commits leaves something behind, or in which a web
page goes on while its requests overtake each other. TLC checks them on small instances
(`MC*.tla`, `*.cfg`) and TLAPS proves theorems about all seven that model a part of the
program.
`PROJECT.json` lists the components, the runs, the lines of source each definition
stands for, the hazards and the theorems.

## 1. Inventory

### Components that are modelled

**Durable event queue and workers** (`eventbus/store.py`, `workers.py`,
`worker_utils.py`; `WorkerLease`). *State*: rows of `events` with `processed_at`,
`claimed_by`, `lease_expires_at`, `attempt_count`; `worker_log`; the ledger
`registered_workers`; an append-only failure log; in each worker its batch and its
current event. *Operations*: `insert_events`, `claim_events`, `ack_event`, `fail_event`,
`register_worker`, `heartbeat`, `list_stale_workers`, `insert_worker_log`, and the cycle
`run_once` / `_process_one`. *Hard*: workers are processes that share nothing but the
table; a lease is given to a batch and never renewed; `ack_event` and `fail_event` name
the row but not the claimant; a worker can die between any two statements. *Correct
when*: an event is acknowledged only after it was processed, is processed in the end
through crashes and retries, and, as long as batches are shorter than leases, is with
one worker at a time.

**In-memory queues, event bus, publisher thread and telemetry drain**
(`eventbus/queue_repository.py`, `eventbus/dispatch.py`,
`telemetry/telemetry_drain_worker.py`, `telemetry/*`, `app/main.py`'s lifespan;
`TelemetryPipeline`). *State*: bounded FIFO channels, subscriber lists, each thread's
place, the batch, the counters, the rows. *Hard*: a full queue drops; a thread ends on
an exception that nothing catches; a trace and its span are two commits; subscriptions
arrive while the bus runs; the shutdown stops the threads one after another and each may
still emit. *Correct when*: what a queue accepted is finished in order and once, also
through the shutdown, unless its consumer is gone; no event that was put is lost but by a
full queue or a thread that died, and none is stored and counted at once; the shutdown ends.

**Brick generation, binding and the nanobar registry** (`bricks/generate.py`,
`bricks/binding.py`, `nanobar/repository.py`, `nanobar/service.py`,
`telemetry/telemetry_scanner_service.py`, `persistence.py`,
`app/admin/nanobar/generate_bricks.py` and `nanobar_refresh.py`; `BrickCatalogue`).
*State*: processed marks in one database; bricks, nanobars, bindings and weights in the
other. *Hard*: jobs of two processes interleave at every commit; each loop goes by a
list it read earlier; a crash falls between the two databases; waiting for the lock is
bounded. *Correct when*: one nanobar per `(nanobar_type, route_key)`, no span marked
without its evidence, no brick or weight forgotten, the backlog drained, every job ended.

**Shadow seeding** (`app/admin/nanobar/replay_seeders.py`, `shadow_seed_log.py`,
`app/db/blog_seeders.py`; `ShadowSeeding`). *State*: the replica's posts and the log.
*Hard*: the two are in two databases, and a crash or an exception may come between any
two commits, in a replay or in the sweep that repairs an earlier one. *Correct when*: no
replay loses its post, nothing unseeded is deleted, every logged seed is swept.

**Nanobar detail page** (`app/pages/nanobar/`; `NanobarPage`). *State*: the selected
brick, the trace of its last replay, the address, the two panes, the disabled controls,
the handlers that wait. *Hard*: every handler reads `selectedBrickId` before its await and
writes to whatever pane is shown after it; a poll loop of ten attempts runs beside clicks;
an answer may be lost although its write was made. *Correct when*: a control is disabled
exactly while its request is out, verdict and trace belong together, a user who waits
sees one brick and what the server has of it, and everything comes to rest.

**Triage board page** (`app/pages/triage/`; `TriageBoard`). *State*: the same board three
times: in memory, as cards, and as review statuses of the server. *Hard*: a move is an
index looked up before its request and used after it, while other moves change the
column. *Correct when*: no brick is lost or doubled, the three agree, a failure is told.

**Overview and blog pages** (`app/pages/{nanobars,traces,workers,settings,admin-app,
edit-post,book-appointment,admin-app-login,admin-nanobar-login,blog,post,trace}/`;
`OverviewPages`). *State*: filters and page number asked for, rows shown, selected worker
or span, address, toggle, busy buttons. *Hard*: nothing numbers the requests, so the
answer that comes last is shown; a write is followed by a reload that may fail; a
debounce timer fires between the two. *Correct when*: panels show what was asked for
last, or say that they could not, and nothing stays busy or "Loading".

### Components that are not modelled yet, or not at all

| component | reason |
|---|---|
| Blog domain (posts, appointments, notifications) | next module of the plan |
| Replay and verdict | planned: the verdict as an operator against a reference, the dispatch per nanobar type |
| Integration-test worker | planned, on top of `WorkerLease` |
| Admin sessions, login, CSRF | planned: server and browser as a state machine |
| Access control and rate limit | planned: buckets with eviction against buckets without |
| Supervisor | planned: `check_once` and escalation |
| Brick curation (review, tags, deletion) | single-row updates; a small module for the review states is planned |
| Dynamic taxonomy | one atomic get-or-create; the pattern is `InsertNanobar`'s |
| Event thread | only examples and tests start it; the drain worker has replaced it |
| Trace middleware, service-domain framework | one sequential request; an emission is one step of `TelemetryPipeline` |
| Routing, validation, OpenAPI, manifest, envelope | pure functions without state |
| Landing page | one request for a title and a version, no state |
| Command line, lint, dashboard listings | templates, text, formatting |

`PROJECT.json` has the files of each. Payload redaction and truncation
(`capture/policy.py`) and the SQL events of `orm.py` are data of a capture and are left
out of `TelemetryPipeline` for that reason.

### How the components meet

A request emits on `trace` and `snapshot` and may publish on a domain channel. The bus
thread runs the callbacks of a domain event, and emits on `trace` and `snapshot` in its
turn; so does the publisher. The drain worker moves both channels into the telemetry
database. From there on nothing is pushed: a person, or a script, starts a *generate*
job, which scans the spans (`Ingest` of `BrickCatalogue` is what `StoreSpan` of
`TelemetryPipeline` does) and writes bricks and nanobars. A replay of a brick reads
those and works on the shadow replica that `ShadowSeeding` prepares. The durable queue
is apart from all that: producers and worker processes of their own use it. The pages
reach the server by requests alone. What a request of a page does there is one step of the
page's module (`Handle`), with as much of the server as the page can tell apart: of a
replay a new trace whose spans `Drain` stores later, which is `StoreSpan` of
`TelemetryPipeline`; of *generate* that there is something new.

## 2. The modules

### `AtLeastOnce` and `WorkerLease`

`AtLeastOnce` says what the durable queue promises: stored, performed, completed, in
that order, nothing undone; with fairness, everything that can be performed is.

In `WorkerLease` one action is one committed statement or one call of user code.
`Claim` is the whole `BEGIN IMMEDIATE` transaction of `claim_events` over the worker's
channels in their order, with `ORDER BY recorded_at_ns LIMIT` (rows of one stamp may
come in any order, as SQLite leaves it open). `Start`, `Succeed`/`Raise`, `Compensate`,
`Ack`/`Fail`, `LogToFile`, `LogToTable` are `_process_one`; `RunOnce` and `Heartbeat`
are the two ends of `run_once`; `Die` may come in any place, and `Restart` starts a
process with an empty memory. The table keeps whole seconds and compares them only with
the current second, so the model keeps the distance (`lease`, `age`) and lets `Tick`
take one away: no clock to bound. `Timely` is the assumption that a live worker is done
with its batch before the lease is over; with `Timely = FALSE` anything may take any
time.

Refinement: `completed <- processed`, the other two by name. `ImplementsAtLeastOnce` is
the safety part and `DeliversAtLeastOnce` the whole.

### `OrderedDelivery` and `TelemetryPipeline`

`OrderedDelivery` has, for each channel, what was sent and what was finished; `Finish`
takes the next one; a channel may be lost, once and for all, and what is not lost is
finished in the end.

In `TelemetryPipeline` one action is what a thread does between two points at which
another thread sees it. `Request`, `Subscribe` and `StopServing` are the request side;
`BusPoll`, `Handle`, `HookReturns`/`HookRaises`, `BusEnd`, `BusStopped` the dispatch thread; `SweepEnds`,
`SweepRaises`, `Wake` the publisher; `DrainPoll`, `WindowElapsed`, `DrainStop`,
`DrainRest`, `Discard`, `StoreTrace`, `StoreSpan`, `IngestRaises`, `RefreshRaises`,
`FlushEnds`, `DrainStopped` the drain worker, with its last flush after the stop. Its thread
dies of an exception in either of two ways, which leave different rows: before a commit
(`IngestRaises`), or after the span's, when `create()` refreshes the row in a new transaction
(`RefreshRaises`: the span is stored, and its event still heads the batch nobody works on);
`PublisherJoined`, `BusJoined`, `DrainJoined` are the lifespan, which leaves its context
managers in the reverse order of entering them. What a callback emits (a span, and a
capture made after that span's context was left) is put on the same channels.

Refinement: `sent <- accepted`, `lost <- Lost`. `Lost` names the only excuses there are:
the consumer thread died, the publisher was given up on, nobody had subscribed to the
channel when the bus started.

### `BrickCatalogue`

Per process one record with the place of its job and that job's local variables; per
row its key, criticality, weight and what of the manifest it agrees with. `Begin` is
the listener of `persistence.py`: every transaction on `regression_bricks.db`, a plain
read included, takes the write lock until its commit, and `Free` is the wait for it.
`Reload` is SQLAlchemy's refresh of an expired row after a commit, which takes the lock
again. `Crash` ends a job anywhere, `LockTimeout` ends one that waits for the lock. The
scan (`Look`, `Select`, `NextTrace` ... `MarkProcessed`) works in the two databases in
turn; `Collect` ... `Bind` is the binding; `ReadBound`/`WriteWeight` the weight; `Cover`
... `EndRefresh` the refresh from the manifest; `StartUpdate`, `Patch` the PATCH. A weight is
represented by what it is computed from (`Measure`), so that a weight that misses a
brick differs from one that has it.

`orphans` and `forgotten` are history variables: the bricks and weights a job had in
hand when it was cut short. The properties allow those and nothing else, which makes
them exact about what an interrupted job can lose: that no later job repairs it is
listed as a hazard.

### `ShadowSeeding`

`Boot`, `SweepDelete`, `SweepRecord`, `Serve` are the start of the server; `FindPost`
or `SeedPost`, `RecordSeed`, `EndReplay`, `DeletePost`, `RecordTeardown` a replay, each
one commit in one of the two databases. `Crash`, `ReplayRaises` and `SweepRaises` may
come between any two. Replays do not overlap, because the action runs on the event
loop without giving it up. `unlogged` is a history variable: the posts whose seed failed
before it reached the log.

### `NanobarPage`

JavaScript runs one piece of code at a time, from one await to the next; such a piece is
one action. A handler that waits is the record of its request in `calls`, `sent`,
`handled` (the server has answered, the answer is under way) or, between two polls,
`asleep`. Any two requests overtake each other, in either direction. `Answered` is the
success branch; `Failed` stands for an answer that says "error", for a request lost
before the server saw it and for an answer lost after: the code treats them alike, the
server does not. `RunAnswered` turns the waiting Run handler into its poll loop, because
`handleRunClick` awaits `handleRefreshClick`; `EndPolls` is the finally clause of the one
or of both. `hashEvents` counts the hashchange events under way, also those that
`selectBrick` causes itself. `Init` has any brick in the address.

`hasty` is a history variable: the user clicked on something of a brick, or chose
another one, while a request about a brick was on its way. Three properties are about the user
who does not. Without that hypothesis TLC refutes each of them, because the code checks
no answer against `selectedBrickId`; the hazards in `PROJECT.json` name the lines.

### `TriageBoard`

`NanobarsAnswered`, `BricksAnswered` and `RenderBoard` are the n+1 requests of
`loadBoard()`, which deal the bricks to the columns by the review status the server has for
each, whatever it is, or to `Fallback` when it has none; `Drop` is the drop handler with the first half of `onCardMove`,
`MoveAnswered` and `MoveFailed` its second half. The record of a move keeps the index as
the code does, so that `MoveAnswered` moves whatever is at that index by then, and fails
with a shown error when nothing is. `built` is the column in a card's dragstart closure.
`hurried` is a history variable: the columns two of whose moves overlapped. Moves that
leave different columns overlap freely, also into a column that another is leaving.

`PagedList` says which answer the server gives to the list of nanobars. With `TRUE`, what
this server does, the board is never shown (section 6); with `FALSE` the list the page
was written for, under which the rest of the page is checked.

### `OverviewPages`

One tab shows one page; the pages share requests, timer and view record, and `Init`
chooses among them. Definitions keep the names of the functions, with the page's name
where two pages use one name. `served` counts what a write changes on the server, so that
a list that misses a write differs from one that has it, and `served.moment` which rows
there are: `RowsChange` lets rows leave the rolling window of the traces, and new nanobars
and traces come, at any time, so that an answer may tell of rows that are gone. `PageInRange`
says that the page asked for is one that the list of these filters had by now; that it may
be past the end of the list of today is a hazard listed for the code. Filters that are handled alike
(type, domain and AppBox; type and component) are one. `overtaken` is a history variable:
a panel was asked for again before its answer came.

### Conventions

A definition whose comment begins "Mutant of" is not part of a specification: it is a
plausible bug, used in the place of the definition it names to make sure that the
property it is paired with in `PROJECT.json` is able to fail.

## 3. What TLC checks

| run | asks | bounds |
|---|---|---|
| `worker_lease` | `Exclusive`, `ProcessedRowFrozen`, `UnexpiredClaimKept` while batches are shorter than leases | 2 workers on 2 channels in opposite order, 3 events (two of one stamp, one poison), claim limit 2, lease 1 s, 1 crash; 1.94 M states |
| `worker_lease_live` | the refinement of `AtLeastOnce` with its liveness, `CountedBeforeLogged`, `DeadWorkerNoticed`, with any timing | 2 workers, one of them restarted and opted in to the dynamic taxonomy, 2 events (one poison), claim limit 2, 1 crash |
| `telemetry` | `Accounted`, `TracesHaveSpans`, `DeliveredInOrder`, the refinement of `OrderedDelivery` with its liveness, `ShutdownCompletes` | queues of 2, batches of 2, a malformed request span, a sweep, 2 domain events on 2 channels, one callback registered and one late, a hook that may raise, database errors before and after a span's commit, a slow sweep; 427 k states |
| `catalogue` | `NanobarsUnique`, `EvidenceKept`, `BricksBound`, `WeightsCurrent`, `ScanDrains`, `JobsEnd` | 4 spans of 3 traces (two of one boundary, one malformed, one without a boundary), scan limit 2, a server and a script, 2 jobs, 2 crashes, one nanobar there already, 2 routes in the manifest; 224 k states |
| `shadow_seeding` | `PostThereForReplay`, `NativeKept`, `NothingForgotten`, `SweptInTheEnd` | 3 posts, one of them the replica's own, 3 seeds, 3 failures; 5 k states |
| `nanobar_page` | `BusyIsInFlight`, `VerdictIsOfTrace`, `RunTabOfSelected`, `PanelOfSelected`, `ScenariosOwn`, `Settles` | 2 bricks, 2 statuses, a tag, 2 labels, 2 polls a loop, 3 acts of the user (hashchange apart), 2 handlers waiting at a time, 2 replays; 765 k states |
| `triage_board` | `EachBrickOnce`, `BoardInSync`, `Settles` | 2 nanobars that share one of 3 bricks, each brick in any of 3 columns or in none, 3 drops; 568 k states |
| `overview_pages` | `PanesCurrent`, `PageInRange`, `Settles` | every page in turn; 2 scopes, a type, 2 pages of rows which change once, 2 workers, 2 spans, 2 rows with buttons, 3 acts, 2 requests of a kind at a time; 596 k states |
| `worker_lease_double`, `catalogue_boundaries`, `nanobar_page_spans`, `triage_board_loads` | one statement each of a comment or a doc that the code does not keep (section 6) | as the run of the same module |

Why the bounds are enough:

- *Workers.* Exclusion is about pairs of workers, so two; three events and a claim limit
  of two leave one event for the second worker while the first has a batch, with a tie
  in `recorded_at_ns` inside and across batches. A lease of one second separates "runs
  out now" from "is past". The failure counter saturates at one: no guard reads it.
  Liveness needs a poison event at the head, one ordinary event behind it, a claim limit
  larger than the number of poison events (with as many as the limit the younger events
  starve, a hazard listed for `store.py:217`), and a worker that stays dead.
- *Telemetry.* Queues of two are full before the events are out; batches of two leave a
  batch half done when a thread dies, and a rest when the stop arrives. Two domain
  channels separate "subscribed before the start" from "after".
- *Catalogue.* With the limit at two, three traces need two batches and a trace with two
  spans fills one. Two bricks of one boundary, new to the registry, let one job find what
  it has resolved itself and two jobs find each other's row. Two jobs at once are what the lock serialises; two crashes allow one
  per job. One run of the safety properties with three jobs, on other spans
  (7.1 M states), found no error either.
- *Seeding.* Three failures interrupt a replay, the sweep that repairs it, and the sweep
  that repairs that; three seeds give the log several open entries, of one post or two.

- *Pages.* Every hazard of a page is a pair: two requests that overtake each other, a
  request and a click. Two bricks make "another one", two requests overtake, and three acts
  are what the longest of them takes (select, run, select another; select, type, submit).
  A loop of two polls has a first that tells "waiting" and a last that gives up; the code
  has ten. Three cards and three drops let two moves of a column overlap each other and a
  third, into that column or out of another; the index of a move is left alone, off by one
  or past the end. Three columns stand for the page's four: a move names two of them, and
  the third is one that neither has to do with. Two pages of rows have a first, a last, and a
  type that leaves fewer; from one moment to the next one list loses its last page, one all
  of its rows, and one gains a page.

`TypeOK` is an invariant of one run of each module but `TriageBoard`, whose variables
are compared with each other by `BoardInSync` and `EachBrickOnce`. Deadlock is checked in every run:
where a model comes to its end by its bounds (`Rest`) or because the process is gone
(`Terminated`), an action says so.

## 4. Fairness

- `WorkerLease!Fairness`. Seconds pass; a running worker takes its next step; a worker
  in `Restarted` is started again when it is down (the supervisor, or whatever runs the
  process); and `SF(Succeed)`: a `process()` call that can succeed does not fail for
  ever. `Die`, `Raise` and `Insert` have none. Without the last assumption at-least-once
  delivery is false for any implementation. Workers outside `Restarted` may stay dead.
- `TelemetryPipeline!Fairness`. Each thread runs, its poll window elapses, callbacks and
  sweeps return, and a join that times out does so. Requests, subscriptions and the stop
  of the server are never forced, and raising never is.
- `BrickCatalogue!LiveSpec`. A job that has begun goes on, or its wait for the lock is
  timed out; nobody has to start one, and nobody has to crash.
- `ShadowSeeding!FairSpec`. A server that is down is started again, and a start goes on.
  A start that fails is a step of its own; failures are finite by the bound.

- `FairSpec` of the three page modules: `WF_vars(Network)`, where `Network` is one step of
  some waiting handler. A fetch resolves or rejects in the end, a timer fires, and the
  browser's event loop runs what is ready; users are never forced, nor is the drain, so
  that a poll loop ends also when the spans never come.

## 5. What is proved

Each proof is by an inductive invariant, for every value of the constants that the
named assumptions of the module allow. TLC had checked the invariants on the run of the
module before they were proved.

What the assumptions ask, beyond numbers being numbers: `None` is no process, brick,
worker or trace; in `TelemetryPipeline` the domain channels are finitely many and are not
the two that the drain reads, and no event is both telemetry and domain event
(`QUEUE_CHANNELS` is a literal tuple, and a telemetry event has a channel of its own); in
`BrickCatalogue` there are finitely many spans, and the nanobars known before are a
sequence of keys without repetition (rows of a table in the order of their ids); in
`TriageBoard` there are finitely many bricks; in `OverviewPages` the identifier of a row
with a button of its own is not the name of another button of the page.

**`WorkerLeaseProofs`**: any workers, events, channels, claim limit and lease.

    IInv == TypeOK /\ MemoryOK /\ RowsOK /\ (Timely => HolderOwnsClaim)

`Exclusive` by itself is not inductive: it says nothing of the rows, so a claim could
give away what another worker remembers. `HolderOwnsClaim` ties the memory to the rows:
what a worker holds is claimed in its name, unexpired, and not processed; so
`claim_events`, which takes only free or expired rows, cannot take it. `MemoryOK` adds
what is known at each place of the program: the current event is not in the rest of the
batch, and only a performed event is on its way to `ack_event`. `RowsOK` orders the sets
of rows.

`CountedBeforeLogged` needs `CountersOK`: one counter is ahead of the next by at least as
many as there are workers between the two writes. Two workers whose leases ran out may
stand there with one event. Since the counters of the model saturate and the workers need
not be finitely many, `Ahead` says so of every finite set of those in between.

| theorem | says |
|---|---|
| `TypeCorrect` | `Spec => []TypeOK` |
| `Exclusion` | if `Timely`: `Spec => []Exclusive` |
| `FrozenRows` | if `Timely`: a processed row is never claimed, failed or reopened, though neither `ack_event` nor `fail_event` looks at it first |
| `ClaimsKept` | if `Timely`: an unexpired claim ends only by its holder's acknowledgement or failure |
| `FailuresCounted` | for every timing: `Spec => []CountedBeforeLogged` |
| `Implementation` | for every timing: `Spec` implements the safety part of `AtLeastOnce`, every step being a `Store`, a `Perform`, a `Complete` or a stutter |

`Timely` is a hypothesis of three of them on purpose: without it the code does not
exclude, as the run `worker_lease_double` shows.

**`TelemetryPipelineProofs`**: any events, channels, callbacks, queue bound, batch size.

`TInv` is the type invariant with what each thread has in hand where: a queue holds
events of its own channel, a batch only telemetry, and what is being stored is still the
head of the batch. On it rest four layers, each inductive relative to `TInv`:

- `Sorted`: spans, skipped and failed together are what was drained, by the kind of the
  event, and at most one span more, that of the event at the head of a dead worker's batch
  (`RefreshRaises`). `TracesOK` adds the one trace whose span is about to be written.
- `Flow`: on each channel what was accepted is what is finished, then what its consumer
  has in hand, then what is queued, in this order (`Splits`). What the drain has in hand
  is the part of its batch that came from that channel, in the batch's order (`PartOf`),
  for it mixes two channels. This is the refinement: every step is one of six kinds
  (`Putting`, `Fetching`, `Serve`, `Ingesting`, `Served`, `Idle`), of which one is the
  abstract send, two are its finish, and three stutter.
- `Fresh`: a domain event is queued once, and no callback has it before it leaves its
  queue. `Delivery`: what it was delivered to is the beginning of the list of
  subscribers, which only grows at its end.

| theorem | says |
|---|---|
| `TypeCorrect` | `Spec => []TypeOK` |
| `EveryEventAccounted` | `Spec => []Accounted`: by `Flow` what was put is in a queue, in the batch or finished (`AcceptedIsSomewhere`), and by `Sorted` what is finished is stored or counted |
| `TracesComeWithSpans` | `Spec => []TracesHaveSpans` |
| `CallbacksInOrder` | `Spec => []DeliveredInOrder` |
| `PipelineKeepsPromise` | `Spec => Promise!Spec`: the safety part of what the run checks as `ImplementsOrderedDelivery` |

**`BrickCatalogueProofs`**: any processes, spans, routes, limits, jobs and crashes.

`TInv` says what a job carries from one commit to the next: the rows, bricks and spans in
its variables are there, because the tables only grow (`Grown`, `AllCarried`). Then:

- `LockInv`: a job that is to write what it made of a read has held the lock since that
  read, and what it read has not changed. So the key is still missing where a nanobar is
  inserted, the hash where a brick is, and the bricks are those that were counted where a
  weight is written. `HolderUndisturbed` is why: no step of another process touches the
  catalogue meanwhile.
- `BindInv` follows each brick: without a boundary, an orphan of a crash, in the hand of a
  job, or bound; and to a row of its key only. With unique keys, it is bound to one row.
- `WeightInv` follows each weight: right, known to be wrong (`forgotten`), or in the
  `touched` of a job.

| theorem | says |
|---|---|
| `TypeCorrect` | `Spec => []TypeOK` |
| `OneRowPerKey` | `Spec => []NanobarsUnique` |
| `OneBrickPerHash` | no two bricks have one content hash |
| `MarkedIsStored` | `Spec => []EvidenceKept` |
| `BricksReachTheirNanobar` | `Spec => []BricksBound` |
| `WeightsFollow` | `Spec => []WeightsCurrent` |

`ScanDrains` is not among them, and cannot be: it holds on the run, but not for every
value of the constants. A span that is stored after the scan has counted its backlog, with
an earlier `recorded_at_ns` than one of the backlog, can push a trace of the backlog out
of the list of the `Limit` oldest, and the scan ends without it. The next scan finds it.

**`ShadowSeedingProofs`**: any posts, any number of seeds and failures.

`IInv` (stated in `ShadowSeeding`) is `TypeOK`, the three invariants, and what makes them inductive:
`OnlySeedsLogged` (an open entry is never of a post the replica had for another reason),
`EntryAtHand` (the entry that a replay or a sweep works on is open and of its post) and
`GoneBeforeClosed` (a row is deleted before its entry is closed). The lemmas
`TearDownFacts` and `AppendFacts` say what the two writes of the log do to it. The
theorems are `Invariance`, `TypeCorrect`, `PostStays`, `NativeStays` and
`SeedsAccounted`.

**`NanobarPageProofs`**: any bricks, tags, polls, handlers, acts and replays.

    Inv == TypeOK /\ Pane /\ CallsGood

`TypeOK` alone is not inductive: `Calls` lets a request of any kind have any argument and
any answer, and a handler writes what its answer has into the page. `CallsGood` says what
a request of each kind has (a poll a trace, a review a status) and what the answer to it
has; `Pane` that a pane with a brick has a selected brick and a form to submit. There is
one lemma per action, and lemmas on the ways a handler sends, answers and ends.

| theorem | says |
|---|---|
| `TypeCorrect` | `Spec => []TypeOK`: no loop polls more than `Attempts` times, and no handler finds an answer of another kind than its own |
| `VerdictStays` | `Spec => []VerdictIsOfTrace`: verdict and trace change together in whatever order answers come |
| `ControlsMatch` | `Spec => []BusyIsInFlight`, by its two halves `Controls` (button by button, a request and its poll loop are one) and `Working` (the progress bar) |

**`NanobarPatienceProofs`** is about the same page and a user who waits (`~hasty`). Three
layers, each resting on the one before and on `Inv` and `Controls`:

- `Alone`: every request about a brick is of the selected one, and of two that touch the
  same part of the pane only one is on its way.
- `RunTabRight`: trace, spans, Refresh and progress agree with each other and with the
  requests of the Run tab.
- `PaneRight`: each part of the pane is what the server stores, or its control is
  disabled, or its error is shown; and what an answer on its way says (`Told`) is what the
  server stores.

| theorem | says |
|---|---|
| `OneAtATime` | `Spec => [](~hasty => Alone)` |
| `RunTabStays` | `Spec => []RunTabOfSelected` |
| `PanelStays` | `Spec => []PanelOfSelected` |
| `ScenariosStay` | `Spec => []ScenariosOwn` |

**`TriageBoardProofs`**: any finite set of bricks, any nanobars, columns and drops.

`EachBrickOnce` holds whatever index a move uses: it takes one brick out and puts the same
one back (`NoneLost`, with the columns free of repetition in `TypeInv`). That the brick is
the *right* one needs a column whose moves do not overlap: `Synced` has the index of each
move out of a column that is not in `hurried` still that of its card (`InStep`), while moves
of other columns, hurried or not, come and go. A move into a column pushes to its end and so
leaves the indices of the moves out of it alone. A wrong splice in a hurried
column takes a brick whose card is shown there, in the place of one whose card was built
there: these are the two kinds of card that `BoardInSync` leaves out.

| theorem | says |
|---|---|
| `NoBrickLostOrTwice` | `Spec => []EachBrickOnce` |
| `BoardKeepsUp` | `Spec => []BoardInSync` |

**`OverviewPagesProofs`**: any filters, rows per filter at each moment, moments, page size,
workers and spans.

    IInv == TInv /\ Ranged /\ NanobarsInv /\ TracesInv /\ LogInv /\ ToggleInv
                 /\ NotesInv /\ PostsInv /\ SpanOfHash

One tab shows one page, so each conjunct but the first two speaks of one page and holds of
the others because the page in the tab never changes. None of the invariants that TLC
checks is inductive, since each speaks of a page at rest; the conjuncts add what is said
while requests are on their way:

- `TInv`: the types, and of each request that its argument and answer are of its kind
  (`GoodCall`); a search timer, a span in the address and a page that is being left occur
  only where the code makes them (`Placed`).
  An answer tells of rows that the server has or had (`Past`).
- `Ranged`: the page asked for, and the last page behind the Prev and Next buttons, are ones
  that the list of the filters asked for had at some moment by now.
- `NanobarsInv`, `NotesInv`, `PostsInv`: an answer on its way, and the list shown, tell of
  every write, unless a write is on its way or has failed.
- `TracesInv`, `LogInv`: a request on its way is for what is asked for now.
- `ToggleInv`: at most one of the handlers that set the capture toggle is on its way, and
  while it is the toggle is disabled; this needs no assumption about the user.

| theorem | says |
|---|---|
| `TypeCorrect` | `Spec => []TypeOK` |
| `PanesStayCurrent` | `Spec => []PanesCurrent` |
| `PagesStayInRange` | `Spec => []PageInRange` |

**Only model-checked**: `ScanDrains`, as said, and all liveness
(`DeliversAtLeastOnce`, `DeadWorkerNoticed`, `ImplementsOrderedDelivery` with its
fairness, `ShutdownCompletes`, `JobsEnd`, `SweptInTheEnd`, `Settles`). Liveness under
fairness, `ENABLED`, and induction over recursive definitions are beyond what the
installed prover can do and stay with TLC.

## 6. Where code and text disagree

Each of these has a run that TLC ends with a counterexample.

| run | statement | what the code does |
|---|---|---|
| `worker_lease_double` | claiming "already prevents double-processing on its own" (`store.py:323-324`) | a batch that takes longer than its lease is claimed again, and two workers are inside `process()` with one event |
| `catalogue_boundaries` | a nanobar is found or created for each boundary (`README.md:118-121, 178-179`) | the content hash leaves the boundary out: the second boundary with an equal payload is a duplicate and gets neither brick nor nanobar |
| `triage_board_loads` | the triage page is "a kanban board for reviewing new bricks" (`README.md:315`), and a request "only throws when the network request itself fails" (`triage-api.js:13`), after which the page says it "could not reach the server" | `loadBoard()` maps over the answer as over a list (`triage-controller.js:79`), and the endpoint answers with a page object (`api.py:385-390`): the board is never shown, with that message, although the server has answered |
| `nanobar_page_spans` | the poll loop will "stop rather than clobber newer state with a stale trace's spans" (`nanobar-controller.js:225-227`) | the trace is compared before the request for the spans is sent, not when its answer arrives: the spans of the brick before are shown beside the one selected meanwhile |

Others, seen while modelling, without a run of their own:

- `write_failures` counts a repository-layer exception, says
  `telemetry_drain_worker.py:95-96`; the exception passes the gate and ends the thread,
  with a batch nobody counts (`TelemetryPipeline!IngestRaises`, `RefreshRaises`).
- Captures of a domain event are drained into spans, says `README.md:187-201`; the capture
  of a callback is made after the span's context was left, has no trace id and is skipped.
- "A route already covered by an existing nanobar is never re-created", says
  `nanobar_refresh.py:88-89`; the refresh goes by the list it made at its start, and a
  generate job of another process may cover a route in between.
- A crash leaves an entry "the next app startup can find", says
  `replay_seeders.py:12-16`; between the commit of the seed and that of its entry it leaves
  a row without one, and no start sweeps it.
- `boardState` is "kept in sync with the DOM so a card's current column can be looked up
  when it's dragged again", says `triage-controller.js:12-14`; but the dragstart listener
  keeps the column the card was built in (`triage-ui.js:146-148`), so a card that was moved
  once is ignored when it is dragged again, silently, until the page is loaded anew. Of two
  overlapping moves of one column the second may splice the wrong brick, or fail with a
  network error that was none.
- On the settings page "never run yet" stays when the request for the last runs is lost,
  and a refresh whose answer is lost says "error" although it was made.

Smaller ones, recorded as hazards: the scanner cuts a trace at the same limit it compares the number of
traces with, so with few but long traces it stops before the backlog is drained (`Surplus` in
`ScanDrains` is exactly that exception); an open seed entry is not only the mark of a
crash, as `shadow_seed_log.py:8-12` has it, but also of a teardown that raised. Outside
the models: `get_any()` prefers "trace" to "snapshot", so that an endless stream of traces
starves snapshots (`queue_repository.py:72`); a second server started on the same
databases would sweep the seed of a replay under way (`main.py:214`); a worker that lives
across one check in three is restarted for ever and never escalated (`supervisor.py:88`).

### Assumptions of the models

- A request the browser has given up on is not handled by the server afterwards: a page
  that says "error" has a write that was made or was not, not one still to come.
- On the detail page nobody else writes to the same bricks; on the overview pages nobody
  else writes, except that the rows of the lists come and go (`RowsChange`).
- `DeliversAtLeastOnce` is for fewer poison events than the claim limit. The properties that
  say `~hasty`, `~overtaken` or `hurried` are about the user who waits, or the columns whose
  moves do not overlap; `orphans`, `forgotten` and `unlogged` name what an interrupted job
  leaves. What the code does in the cases set apart is in the hazards of `PROJECT.json`, each
  at its line, with a note that no property covers it; it is no error of a run, because the
  models have it and the properties name it.
- A filter whose ticked type is missing from the new facets is kept in the query, as in
  the code, though no box shows it.
- A page that was left (`window.location.href` set) takes answers until it is unloaded.

## 7. Plan

Order of what is left; the behaviour in which most can go wrong comes first.

1. `BlogPublishing`: a post from draft to scheduled to published in its separate
   commits, with the sweep of the publisher; appointments, their event on the bus, and
   the notification a callback makes of it; live and shadow sessions. Abstract
   specification: a scheduled post is published once, not before its time. Composed with
   `TelemetryPipeline`'s queue for the events that a full queue drops.
2. `ReplayVerdict`: `bricks/verdict.py` as an operator against a reference definition
   over bounded inputs; the replay of each nanobar type with its poll for the span.
3. `IntegrationSweep`: the integration-test worker's task group, its outcomes and its
   retries on top of `WorkerLease`.
4. `AdminSession`: sessions, expiry, login and CSRF of the two surfaces.
5. `RateLimit`: the token buckets with eviction as an implementation of buckets without.
6. `Supervisor`: `check_once`, its counter, the escalation.
7. Composition of `TriageBoard` and `NanobarPage` over one server: two tabs that review
   the same brick.
8. Small additions: composite bindings, the dynamic taxonomy.

Theorems to come: for the modules of the plan their type correctness and the first safety
property of each.

## 8. Running it

    tlc -workers 2 -config MCWorkerLease.cfg MCWorkerLease
    tlapm WorkerLeaseProofs.tla

and so on for each run of `PROJECT.json`; the longest takes about a minute and a half,
a proof module two minutes or so. On a machine that is
slow or busy `tlapm --stretch 3` gives every leaf more time.
