# MingJian (planagent): verification project

TLA+ models of the concurrent core of `src/planagent`, the TLC configurations
that check them, and TLAPS proofs of the results that matter most. Paths below
are relative to `src/planagent/` unless they name another top-level directory.

    tlc -workers 2 -config MCWatchLease.cfg MCWatchLease    # model-check one run
    tlapm WatchLeaseProofs.tla                              # check the proofs

`PROJECT.json` lists the runs, the mutants that show each property can fail, the
source lines of every definition, the hazards of the code and the theorems.

## 1. The system

MingJian collects items from public sources, turns them into evidence and
claims, lets people and automated debates review them, simulates scenarios on
the accepted ones and keeps versioned predictions. A FastAPI application serves
requests; worker processes (`worker_cli.py`, one container each, restarted when
they die) do the rest. They meet in two places: a SQL database (PostgreSQL, or
SQLite in development and tests) and Redis streams.

### Inventory

| Component | State | Operations | Hard behaviour | Module |
|---|---|---|---|---|
| **Watch rule lease** `services/watch_execution.py`, `workers/watch_ingest.py`, `api/routes/watch.py`, `services/community_monitoring.py` | lease, schedule and `enabled` columns of `watch_rules`; the batch a worker holds | claim due rules, poll, settle, fail, close the window; manual trigger; PATCH, DELETE; a run of the assistant moves the start | several workers and requests on one row, leases that run out under their holders, stale reads, crashes | `WatchLease` |
| **Stream worker loop** `worker_cli.py`, `workers/base.py` | the batch under way, attempt number in the payload | startup sweep, reclaim, consume, run, ack, retry, dead letter | crash between any two calls, retries read by every group | `StreamWorker` |
| **Event bus** `events/bus.py`, `events/topology.py` | streams, group positions, pending lists, one backpressure key | publish, consume, reclaim, ack, dead letter, backpressure | redelivery, trimming, one key for all groups | `StreamWorker` |
| **Ingest and knowledge pipeline** `services/pipeline.py`, `workers/ingest.py` | `ingest_runs`, `raw_source_items`, normalized, evidence and claim rows | create, claim, stage, materialize, finalize, publish | rollback inside a batch, unique keys, commit before publish, NULL leases | `IngestPipeline` |
| **Review queue** `workers/review.py`, `workers/knowledge.py`, `api/routes/evidence.py` | `review_items`, `claims`, debates | claim, debate, accept, reject, release; user decisions; re-evaluation | debates longer than leases, unfenced writes from loaded rows | `ReviewQueue` |
| **Simulation queue** `services/simulation/engine.py`, `workers/simulation.py` | `simulation_runs`, snapshots, decisions | create, claim, execute | a failed run keeps its rows, one commit for a batch, publication before it | `PredictionRevision`, `ReportQueue` |
| **Prediction revision** `services/prediction.py`, `workers/prediction_revision.py` | series, versions, revision jobs | enqueue, reforecast, start simulation, finalize | acknowledge before commit, jobs across two workers, stale evidence, waiting for events | `PredictionRevision` |
| **Reports** `services/simulation/report.py`, `workers/report.py` | reports, lease columns of the runs | claim, generate | woken by an event published before its commit | `ReportQueue` |
| **Strategic session refresh** `workers/strategic_watch.py`, `services/assistant.py`, `services/assistant_sessions.py`, `services/assistant_workflow.py` | lease and schedule of `strategic_sessions`, watch rule, numbered versions | claim, brief, run, store, fail, close | one lease owner for all workers, lease cleared by anyone, locks of a transaction, failures swallowed | `StrategicRefresh` |
| **Source state, changes, recommendations** `services/source_state.py`, `services/change_detection.py`, `services/recommendations.py` | cursor rows, change records, numbered versions | read, update, reset, detect, create version | two commits of one poll, a row read long before it is written | `SourceMonitor` |
| **Debates** `services/debate/*`, `api/routes/debate_interrupt.py` | sessions, rounds, verdicts, interrupts | decide, observe (stream), interrupt | exceptions and disconnects between commits, two debates about one run | `DebateStream` |
| **Calibration** `workers/calibration.py`, `services/backtest.py` | backtest records, status of versions and hypotheses, accuracies | judge, verify, recount | one verdict in two tables, no lease, unique key | `Backtest` |
| **Graph** `workers/graph.py` | nodes, edges | upsert | cached lookups | – |
| **Authentication** `services/auth.py`, `services/login_throttle.py` | users, refresh tokens, revocations, failure table | login, refresh, revoke, throttle | concurrent rotation, eviction at the limit | – |
| **Runtime monitor** `services/runtime.py` | none | count queues | stale counts | – |
| **Assistants** `services/assistant*.py`, `services/jarvis.py` | sessions, results | orchestrate, retry, review | repair loop | in part `StrategicRefresh` |
| Model and source providers, simulation domains, reporting, API, MCP, frontend, migrations | none of their own that outlives a call | | | – |

How they interact: a request or a watch poll creates an ingest run; the ingest
worker stages it, the knowledge worker extracts evidence and claims and creates
review items, the review worker and users decide them; every commit is followed
by events on the streams, which wake graph, simulation, prediction, report and
other workers. A watch poll compares its source with the cursor, records the
change, and refreshes the strategic session of its rule, as the strategic worker
does daily and users do at will. Predictions that have come due are judged by
the calibration worker. A worker that wakes looks for work in the database, so
most events are only hints, and what makes the system correct is the lease
columns, the status columns, the locks a transaction holds, and the order of
commit, publish and acknowledge.

What makes each part correct:

* a rule, run or item is worked on by one owner while its lease is live, and
  only its holder settles it;
* an event stays owed to every group until it was handled or recorded as dead;
* rows of an item only advance; a run is closed when its items are finished;
* a review item is decided once, on the ground of a debate or of its attempts;
* the versions of a prediction form one line, except where a user asks for a
  forecast of his own, and no change of the evidence they rest on is forgotten
  in a crash;
* the versions of a session are numbered in commit order, whoever writes them;
* what a cursor remembers as seen has a change record, and a change has a
  recommendation, unless a failure came between or there is no session to advise;
* a debate leaves its whole outcome or nothing, and announces only what any
  reader can see;
* a verdict on a prediction is the same in the two places that hold it, and
  only users change it;
* whatever crashes, queued work ends: rules retire, runs finish, items are
  decided, revisions are made, reports appear, predictions are judged, messages
  are settled.

## 2. Modules

| Module | Models |
|---|---|
| `FencedSlot` | abstract: slots that are granted to named processes, and which only their holder settles or releases |
| `WatchLease` | the watch rule lease with workers, trigger requests, users, moved windows and the clock; implements `FencedSlot` |
| `StreamWorker` | one topic of the event bus and the processes of its groups |
| `IngestPipeline` | runs and items from the request to extracted knowledge |
| `ReviewQueue` | review items and their claims under workers, users and re-evaluation |
| `PredictionRevision` | revision worker, simulation worker and users' requests over jobs, runs and prediction series |
| `ReportQueue` | simulation worker, inline requests and report workers over completed runs |
| `SourceMonitor` | polls, trigger requests, resets and patches over cursor, change records and recommendations of one source |
| `Timeline` | abstract: versions of sessions that are numbered 1, 2, 3 … in commit order |
| `StrategicRefresh` | strategic workers, runs, daily briefs and settings of users, and polls over sessions, with the row locks of PostgreSQL; implements `Timeline` |
| `DebateStream` | streamed and decided debates about one run, and interrupting users |
| `Backtest` | calibration worker, verifying users and revisions over verdicts and their count |
| `WatchLeaseProofs`, `StreamWorkerProofs`, `IngestPipelineProofs`, `SourceMonitorProofs`, `StrategicRefreshProofs`, `BacktestProofs` | theorems about the module each is named after |
| `ReviewAndReportProofs`, `RevisionAndDebateProofs` | theorems about `ReviewQueue` and `ReportQueue`, and about `PredictionRevision` and `DebateStream` |
| `MC*` | the instances TLC checks |

Two modules of proofs EXTEND two models each; the specifications of `ReportQueue`
and `DebateStream` are therefore named `ReportSpec` and `DebateSpec`, and their
initial states, steps and types accordingly. No constant or variable is shared.

Operators whose comment begins "Mutant of" are not part of a model: each is the
definition after it with a plausible bug, and shows that a property notices it.

Components that meet are in one module where the meeting is the difficulty: the
simulation worker with the revision worker, and again with the report workers;
the ingest worker with the knowledge worker and inline requests; the knowledge
worker's re-evaluation with the review workers; strategic workers with users'
runs and polls. Where one part needs only what another promises, its module has
the promise: `SourceMonitor` a lease that is given, given back or lost, which is
what `WatchLease` implements; `ReportQueue` and `PredictionRevision` an event
that comes again until it is acknowledged, which is what `StreamWorker` shows.

### WatchLease

A row is `exists, enabled, nextPoll, lastPoll, owner, expires`. A worker has the
list of rules it has claimed (`todo`) and polls the first; a request has the row
as it read it (`seen`). `claim` is a history variable: what a process believes it
holds, until it leaves the rule. `ClaimDue` is one transaction over a batch;
`Batches` are the batches the query can return, earliest schedules first with
ties in any order. `Complete` and `Fail` carry the fence `lease_owner = :owner`;
`CloseWindow` and `TriggerExpired` do not, as in the code. `TriggerFails` writes
back the schedule the request read at its start. `PollFails` includes the
rollback that expires the other rows of the batch and may end the process.

A run of the assistant for the rule's session (`MonitoringStart`) moves the start
of an existing rule back to that of the session, without a lease: a window that
is over then closes the rule, an open one leaves its schedule alone. Workers go
by the start they loaded with the claim (`loaded`), requests by the one they read
or refreshed. `late` is a history variable, the rules whose start was moved over
a schedule, a claim or a request made with the old one; only their schedules can
lie past the window, and never past the one counted from the creation of the rule.

Time is a counter in units in which leases, intervals and the window are small.
The comparisons are the code's: a lease is free when `expires < now`, a rule is
due when `nextPoll <= now`, a window is over when `now >= created + Window`.

`FencedSlot` says what the lease columns promise each process: a grant to it
needs a slot that is free or overdue; only the holder may settle, which writes
the mark, or release; a process that lost the slot can only leave; and a slot
whose window is closed may be freed by anyone. `WatchLease` implements it with
`owner` as the holder, `lastPoll` as the mark, and for each process the rules it
has open claims on. A settlement by anyone else is no step of it, so that a fence
that asked only for some owner would not do.

### StreamWorker

The log keeps every entry with its index as id; `trimmed` is the prefix MAXLEN
has removed. A group has the last id delivered and its pending ids, as Redis
keeps them. One process is in one phase of `_run_stream_worker`; `Retry`,
`RecordDeadLetter`, `PublishDeadLetter` and `Ack` are separate steps because a
process may die between any two of them. A pending entry may be reclaimed at any
time: idle time is not modelled, so the slow process and the dead one are the
same case.

### IngestPipeline

`db` is the committed database, `tx` the image of the transaction under way and
`out` the events it has buffered. On SQLite one transaction writes at a time, so
`tx` is shared by the request and the two workers. Items stand for their dedupe
keys, and what each run asks for (`Requests`) is chosen at the start. Leases are
set and cleared inside one transaction there, so every committed lease is NULL
and the model has none.

The knowledge worker is not on an interval: `wake` says that it has just been
started or that a `raw.ingested` event waits for it, `ClaimItems` and
`ClaimNothing` use it up, and `OtherEvent` is an event of runs outside the model.

INLINE requests can announce items that a later duplicate rolls back;
`AnnouncedKnowledgeIsCommitted` is about the knowledge worker.

### ReviewQueue

A worker loads an item and its claim (`copy`), debates, and settles or releases
from these rows: a column is written when its new value differs from the loaded
one, which is how the session of the code writes. `live` says whose latest grant
has not run out and `lapsed` which items lost their lease while being worked on;
they replace a clock. A worker looks for items when it starts and after a review
request it reads or reclaims (`Event`), which makes it `due` for one sweep;
`ClaimNothing` is a sweep that finds none. A user's decision is one step, as the request reads and
writes the row at once. `ReevaluationLoads` and `ReevaluationCommits` are apart
because the worker awaits between them.

### PredictionRevision

One evidence item, whose changes are numbered by `news`; a run remembers the
number it `read`, a series is stale when the run of its latest version read less
than `news`. Run 0 is one a user queued and starts `MaxSeries` series; run j is
the run of job j, which starts none because its configuration names the version
it revises. Both workers have one long transaction: `session` is what the
revision worker has written and not committed (events, then a commit that
depends on the number of jobs made, then the jobs, then a commit), `simRuns` what
the simulation worker has executed since its claims. `RunFails` leaves the rows
of the attempt behind, `RunCollides` is the next attempt, which violates their
unique keys and takes the whole batch with it.

The event bus is reduced to what wakes the workers: `inbox` counts the events
about the item that the revision group has not read, `unacked` those a dead
process left, `knowledge` and `wake` say that another event is waiting for the
revision or the simulation group. Leases of jobs and runs are set and cleared in
one transaction and are not in the model. `missed` is a history variable: the
series that missed a change in one of the ways the code has for it without a
crash (a series whose first run had read older evidence, an event dropped because of an
active job that had already run, a failed run, a failed publication, a slow job
whose version superseded a newer one).

`Reforecast` is a user's request for a new forecast, which adds a job on the latest
version whether or not one is active (`manual`). It may come while a round is
open, whose later reads see it; its event names no evidence item the worker looks
for and only wakes it.

### ReportQueue

`executed` are the runs an open transaction has executed and announced;
`Commit` is the end of the simulation worker's round, or of an inline request,
which commits its report with its run. A report worker reads its candidates,
claims them one at a time by updates that wait for the row, generates, commits
and acknowledges. `completed` is a rank, because candidates are taken in the
order of `completed_at`. `excused` is a history variable: the completed runs that
nothing will look at before the next event, for one of the four reasons the
code has: it was announced before its commit, a round found more candidates than
its first select returns, or claimed fewer than it found, or its report failed.

### SourceMonitor

Content is a version number. `Detect` reads the cursor row, `WriteCursor` flushes
it, after calls of models that take long, and holds the row from there (`rowLock`);
`Ingest` is the first commit and `Settle` the second. A request polls without
looking at the cursor, as in the code. `advised` are the change records some
recommendation version cites; no version is stored while there is no strategic
session (`linked`), and the change of a poll that ends so is `unheard`. Sessions
and queries come and go by `Relink`. `note` stands for the analyst note that
heads every ingest run of a rule. Where runs are processed at once on SQLite it
is known from the second run on, and the database refuses it: `IngestRollsBack`
takes back the cursor and the change record and the poll fails on its expired
rule; `RefreshRollsBack` is the same inside the refresh of the session. Whether a
change is significant is a choice, except for the first content, which always is.

### StrategicRefresh

`Claim` updates a row without committing: until the first brief is stored, only
row locks keep other workers away (`updating`), and `CommitClaims` makes the
other leases of the batch visible. A run stores its results in one transaction:
`Ensure` may update the session row, `InsertRule` takes KEY SHARE on it through
the foreign key, `LockTimeline` is SELECT FOR UPDATE and reads the largest
number, `Write` commits. `Deadlock` is the database aborting one of two that
wait for each other. `losses` counts the leases that ended under a worker that
had claimed them: by time, by a late failure of an earlier refresh, by a
user who switches the refresh off and clears the lease with it, or by a user's
daily brief, which clears it in any case. A request is a run, a daily brief or a
change of settings (`Begin`, `Save`); `Chosen` is what its payload can make of the
session's settings, `Loaded` what it may know of the lease. A worker's payload is
older than its brief and has the refresh on, which is written when a rollback in
the run has made the session load the row again.

### DebateStream

What a debate has committed (`status, rounds, verdict, mail, options`) is apart
from what its open transaction has done (`spoken, marked, adds`). `ReadInterrupts`
and `MarkInjected` are the two selects of one round. `LockRun` is the write of
the run's summary, which holds the row until the commit, followed by the lookup
of the decision option. `Fail` and `Disconnect` go through the handler that rolls
back and sets the session to FAILED; `Kill` does not.

### Backtest

A version has its verdict in two places, `status` and `record`. A round of the
worker is four transactions: hypotheses, versions, the count of verdicts, the
tally. `plan` is what it has decided and `flushed` what it has written and not
committed, whose rows it holds. A request loads the version and then its record
(`copy`) and writes to each what differs from what it has loaded. The time a
record was verified is that which the round or request noted before (`moment`),
by a clock that only orders; `Latest` are the records the recount can read, the
`Recent` last verified, in any order among those of one round. `clashes` counts the
requests that wrote what another one had changed since. Horizons pass by
`ComeDue`, hypothesis verdicts of users come by `VerifyHypothesis`.

## 3. Runs

| Run | Shows | Bounds |
|---|---|---|
| `watch_lease` | leases, schedules, refinement, rules retire | 1 rule, 2 workers, 1 request, window 2, lease 1, a session 1 older than the rule, clock to 4, 1 patch, 1 crash. `MaxFaultTime` stops crashes early enough that the leases they leave run out before the clock stops |
| `stream_worker` | nothing is lost, all is settled | 1 event, 2 groups with a process each, 2 attempts, batches of 2, trimming at 3, 8 entries (more than the copies two groups can make), 1 crash |
| `ingest_pipeline` | rows, closing, announcements, queued runs finish | 3 runs, one INLINE; either they share items in opposite positions, with snapshots that fail, or one run of two items has them to itself; 2 attempts, 1 crash; `BusySpec` |
| `review_queue` | workers, grounds, decisions, every item decided | 1 item, 2 workers, 2 attempts, 2 outside events (decisions, re-evaluations, exceptions and kills together); `BusySpec` |
| `review_queue_rejected` | violation: accepted after rejection | 1 item, 2 outside events |
| `prediction_revision` | forks only by request, nothing forgotten, jobs end | 1 change, 1 series, 2 jobs of the worker or of users, 2 attempts, one row claimed at a time, 1 fault (crash or failed publication); `BusySpec` |
| `report_queue` | why a run has no report, how many it can have, reports appear | 2 queued runs and an inline one, 2 report workers, 1 run a round, batches of 2, 2 unacknowledged events, 1 fault |
| `source_monitor` | cursor, change records and citations agree; news is seen | 2 pollers, 1 request, 4 contents (a late poll and the next can each break a link), refresh interval 1, with and without a session and inline ingest, 1 mishap: a reset, a patch, a lost lease or a fault |
| `strategic_refresh` | overlaps, numbering, due sessions are served | 2 workers, 1 run, daily brief or change of settings of a user on the second of 2 sessions, 2 turns (leases that run out, schedules, windows, faults together) |
| `debate_stream` | one option, whole outcomes, announcements, streams end | 2 streamed debates and a decided one about one run, 2 interrupts, 2 rounds, 1 fault |
| `debate_injected` | violation: injected and not in the context | 1 streamed debate, 2 interrupts, 2 rounds, no fault |
| `backtest` | the two places of a verdict, every version judged, the tally | 1 worker, 2 requests, 2 versions of one or two series, one with a hypothesis, 1 row a select, of versions and of records, so that both limits are passed, 1 fault or verdict on a hypothesis |

Two workers are enough where the code distinguishes only "me" and "someone
else": every write is fenced by one owner or by none. One or two rows are enough
because rows only meet in a batch. Where the claim is about a limit (attempts,
MAXLEN, the window, the rows claimed or read at once), its bound is small so that runs go
past it. Larger instances of what the runs bound most tightly are covered by the
proofs: batches of several rules in `WatchLease`, several processes of one group
in `StreamWorker`, any finite number of workers in `Backtest`, several items in
`ReviewQueue`, several mishaps together in `SourceMonitor`, workers and sessions
beyond two in `StrategicRefresh`, any requests in `IngestPipeline`, any numbers of
changes, jobs, series and faults in `PredictionRevision`, of runs, report workers and
faults in `ReportQueue`, and of debates in `DebateStream`. The bound on faults is
shared by all kinds of fault of a module, and TLC chooses their kind and place.

Most runs do not check for deadlock: clocks, budgets and requests are finite, so
that behaviours end. `report_queue`, `source_monitor` and `backtest` do check it,
as their workers always have a next step. In `prediction_revision` the bound on
jobs may stop the revision worker in its round (`AtBound`), and a run with the
rows of a failed attempt may block the simulation queue (`Blocked`); its
liveness property excuses both. The second is a state of the code, see below.

The type invariant of each of these modules is a theorem (section 4).

### Disagreements

The two violations are disagreements between the code and its documents or
tests; `PROJECT.json` quotes the line each contradicts. The models also show the
following, which no run is about; only where a document is named does one
contradict it. Where a property is named, it counts or conditions the case
exactly.

*Leases and queues*

* Ten rules are claimed under leases of one instant and polled one by one, so a
  rule late in the batch is polled by two workers at once. The fence lets only
  the later of the two settle it.
* A completed poll sets `enabled` and so enables a rule that its user disabled
  meanwhile (`services/watch_execution.py:76`).
* A run of the assistant moves the start of an existing rule back to that of its
  session (`services/community_monitoring.py:163-175`). If the window is still
  open, the schedule stays, and so do the claims and requests made with the old
  start: the rule may be due, polled and even scheduled once more past its
  window, and is closed by the claim after that. `ScheduleWithinWindow`.
* A retry copy is read by every group of the topic, not only by the one that
  failed, and the attempt limit counts the first delivery.
* A review item may be released by a worker that has lost it, so that a third
  claim can overlap a live lease; what it decides stays decided.
* All strategic workers use one lease owner, and a brief, a failure, or a user who
  asks for a daily brief or switches the refresh off clears the lease whoever
  has it (`services/assistant_sessions.py:199-203,260`): `EachOverlapIsALoss`. A
  run of a worker switches on again what its user switched off meanwhile, if a
  rollback in it has made it load the session anew (the same, 191). A failed refresh puts a session
  that its user has switched off back on its schedule
  (`workers/strategic_watch.py:203`).
* Two first runs of a session each insert a watch rule and then wait for each
  other's lock on the session row; the one the database aborts answers without a
  version and is counted as refreshed (`services/assistant.py:264-283`).

*Ingest and review*

* A queued run whose items wait for the knowledge worker looks abandoned, as its
  committed lease is NULL; staged again, it counts its own items as duplicates
  and is closed with items pending (`services/pipeline.py:952`):
  `EarlyCloseIsARestaging`.
* An extraction that fails after its normalized row was added is retried and
  then taken for complete without claims (`services/pipeline.py:613`):
  `UnextractedIsARetry`.
* An INLINE request that meets a duplicate rolls back the run it answers with.
* A worker that is woken by events looks for work at no other time. Items whose
  ingest worker died between its commit and their events
  (`services/pipeline.py:229-230`), an extraction that failed in a round whose
  event was acknowledged, a review item that was released, and one whose event
  was reclaimed before the lease of a dead worker ran out, all wait for the
  event of something else: `BusySpec`.
* A queued run that has a duplicate before another item is staged, rolled back
  and aborts the process at the next item, in every round: the rollback also
  takes back its attempt. Hence the condition `OwnItems` of `QueuedRunsFinish`.
* A claim that was accepted, demoted and raised again is pending review without
  a review item (`workers/knowledge.py:232`).

*Simulations, predictions, reports*

* A simulation run that fails after its first rows blocks the simulation queue:
  every later batch that contains it is rolled back.
* A user's request for a new forecast does not look for an active job
  (`api/routes/prediction.py:165-177`): two versions can revise the same one, and
  a slow job can supersede a version made from newer evidence.
  `OnlyRequestsFork`, `NothingForgotten`. A request without an evidence item
  stores `""` in a column that refers to one (line 171), which PostgreSQL refuses
  and SQLite, which does not check here, takes.
* A revision whose run has ended waits for the next event of its stream without
  limit (`workers/prediction_revision.py:86`); hence `BusySpec`.
* A change of evidence is lost to a series whose active job has already run, and
  to a series whose first run read the evidence before.
* A run whose completion was announced before its commit, whose report failed, or that a
  full round left over, be it beyond the limit of the claims or of the select
  before them (`services/simulation/engine.py:825`), waits for the next event:
  `UnreportedHasReason`. Two
  report workers can each write a report of one run: `OneReportPerWorker`.

*Sources and debates*

* A cursor reset leaves `last_success_at`, so it does not make the next poll
  compare, although its docstring says that the next fetch is a full one
  (`services/source_state.py:160,171-179`). With the default interval of
  24 hours (`domain/api.py:996`), which is also the window of a rule, only the
  first poll of a rule compares its source at all.
* A poll that fails after its first commit never repeats the recommendation:
  the content is known by then. `EachForgottenHasCause`.
* With inline ingest, the default (`config/base.py:55`), on SQLite, every poll
  after the first hands over the same note (`services/watch_evidence.py:62-70`).
  The rollback of the refused insert (`services/pipeline.py:519`) takes back the
  cursor and the change record, expires the rule, and the poll fails, each time
  it gets as far as its ingest run: `IngestRollsBack`. `NewsIsSeen` is about the
  other settings.
* A rule without a strategic session has its changes recorded and never told
  (`workers/watch_ingest.py:488-491`), also when its session comes later.
* A streamed debate whose events fail after the final commit turns from
  COMPLETED to FAILED, with a verdict (`services/debate/workflow.py:216-225`).
* `DEBATE_REVISION` is published before its commit
  (`services/debate/revisions.py:209`), as is `PREDICTION_VERSION_CREATED`.

*Calibration*

* Two verify requests at once can leave the status and the record of a version
  different: `EachTornIsAClash`.
* The recount reads the 500 records last verified (`workers/calibration.py:511`).
  A rule none of whose predictions is among them keeps its old numbers, and which
  records of one round, all of one time, are among them is left to the database.
* The worker overwrites the verdict of a user on a hypothesis given during its
  round. A superseded version is never judged by the worker, and the version
  that supersedes it begins a new horizon.
* The horizon `1_week` (`services/simulation/engine.py:608`) is not among those
  the worker knows (`workers/calibration.py:28`), so such a hypothesis is judged
  after 90 days.
* Rule weights live in each process (`simulation/rules.py:71-87`), so what the calibration
  worker adjusts never reaches the simulation worker, although
  `docs/planagent_full_report.md:573-577` says that later simulations use it. No
  run shows it: it needs nothing but the missing row.

### Fairness

Worker loops are infinite loops in containers with `restart: unless-stopped`
(`docker-compose.yml`), so their steps and restarts are weakly fair; calls to
models and sources have timeouts, so polls, debates and extractions end. Time
passes: clocks, leases of owners that are gone, horizons and refresh intervals
are weakly fair. A transaction waits for a row only as long as another
transaction, which ends.

The ingest, watch, strategic, prediction and calibration workers run their
rounds in an interval loop. The knowledge, review, simulation, report and graph
workers look for work at startup and after an event, and their models have the
wake-ups in their state. In `FairSpec` nothing wakes them but what the code
publishes. `BusySpec` adds a system in which events about something else never
stop coming: `raw.ingested` of other runs in `IngestPipeline`, requests for the
review of other claims in `ReviewQueue`, knowledge about other items in
`PredictionRevision`. The liveness of these three is checked under `BusySpec` and
says so; without it a queue may rest with work in it (section 3, disagreements).
`ReportsAppear` is conditional on such events and on reports that do not keep
failing: `MaxFaults` bounds the failures, while the code has no limit of attempts,
so that runs whose report always fails can fill every round.

In `PredictionRevision` entries idle for a minute are reclaimed before new ones
are read: strong fairness of `Reclaim`. The two workers of the pipeline compete
for SQLite's write lock, which each gets again and again between the short
transactions of the other: strong fairness of the two claims.

A request that has begun goes on, unless its process is killed. Nothing is
assumed of users, of publishers, of the sources, or of the outcome of a poll, a
debate, an extraction or a simulation, and no fault has to happen.

## 4. Proofs

All are for every value of the constants that satisfies the assumptions of the
module: any numbers of processes, rows and requests, and any limits.

| Module | Theorem | Statement |
|---|---|---|
| `WatchLeaseProofs` | `TypeCorrect` | `Spec => []TypeOK` |
| | `LeaseSafety` | `Spec => []LiveClaimIsHeld` |
| | `LeaseExclusion` | `Spec => []MutualExclusion` |
| | `ScheduleBounded` | `Spec => []ScheduleWithinWindow` |
| | `LeaseRefinesSlot` | `Spec => ImplementsFencedSlot` |
| `StreamWorkerProofs` | `TypeCorrect` | `Spec => []TypeOK` |
| | `ParkedAfterRow` | `Spec => []ParkedHasRow` |
| | `NothingIsLost` | `Spec => []NothingLost` |
| | `AckedAfterOutcome` | `Spec => AckAfterOutcome` |
| `IngestPipelineProofs` | `TypeCorrect` | `Spec => []TypeOK` |
| | `EarlyCloses` | `Spec => []EarlyCloseIsARestaging` |
| | `UnextractedIsRetried` | `Spec => []UnextractedIsARetry` |
| | `Advance` | `Spec => RowsOnlyAdvance` |
| | `AnnouncedIsCommitted` | `Spec => AnnouncedKnowledgeIsCommitted` |
| | `ClosesFinished` | `Spec => KnowledgeClosesFinishedRuns` |
| `ReviewAndReportProofs` | `TypeCorrect` | `Spec => []TypeOK` |
| | `LeaseSeparates` | `Spec => []LeaseSeparatesWorkers` |
| | `DecisionGrounded` | `Spec => []WorkerDecisionHasGround` |
| | `DecidedStays` | `Spec => DecidedStaysDecided` |
| | `ReportTypesCorrect` | `ReportSpec => []ReportTypeOK` |
| | `OneReport` | `ReportSpec => []OneReportPerWorker` |
| | `ReasonKnown` | `ReportSpec => []UnreportedHasReason` |
| `RevisionAndDebateProofs` | `TypeCorrect` | `Spec => []TypeOK` |
| | `ForksAreRequests` | `Spec => []OnlyRequestsFork` |
| | `NothingIsForgotten` | `Spec => []NothingForgotten` |
| | `DebateTypes` | `DebateSpec => []DebateTypeOK` |
| | `OneOption` | `DebateSpec => []OneOptionPerRun` |
| | `WholeOutcome` | `DebateSpec => []OutcomeIsWhole` |
| | `CommittedBeforeAnnounced` | `DebateSpec => []AnnouncedIsCommitted` |
| `SourceMonitorProofs` | `TypeCorrect` | `Spec => []TypeOK` |
| | `SeenHasRecord` | `Spec => []SeenIsRecorded` |
| | `LinksBreakByLapses` | `Spec => []EachBreakIsALapse` |
| | `ForgottenByMishap` | `Spec => []EachForgottenHasCause` |
| `StrategicRefreshProofs` | `TypeCorrect` | `Spec => []TypeOK` |
| | `TimelineRefined` | `Spec => ImplementsTimeline` |
| | `OverlapsAreLosses` | `Spec => []EachOverlapIsALoss` |
| `BacktestProofs` | `TypeCorrect` | `Spec => []TypeOK` |
| | `GivenVerdictsStay` | `Spec => OnlyUsersChangeVerdicts` |
| | `TornAreClashes` | `Spec => []EachTornIsAClash` |

Each model has one inductive invariant (`Inv`, `DebateInv`, `RevisionInv`,
`ReportInv`; two layers in `SourceMonitor` and `StrategicRefresh`), a lemma per group of
actions that keeps it, a lemma that it holds in every reachable state, and the
theorems from it. The assumptions are the named ones of the model: positive
limits, disjoint sets of processes, `None` outside them, a finite set of rules in
`WatchLease` (the batch size is a cardinality), finitely many report workers
in `ReportQueue` (the bound on reports is one) and finitely many workers in
`Backtest` (its clock is a maximum over them). Elsewhere the sets may be
infinite, and where a cardinality is counted the invariant says that its set is
finite. `MinOfNumbers` and `MaxOfNumbers` give what `Min` and `Max`
return, from well-founded induction on the naturals; the five modules that need
the first and the three that need the second each have it. TLC checked each
inductive invariant on the instance of its run before it was proved.

**WatchLease.** `LiveClaimIsHeld` is not inductive: it speaks of a claim, a row
and the clock, and says nothing of a claim whose owner has lost the row, nor of
what a request has in hand. The invariant is

    Inv == TypeOK /\ RequestsRead /\ NoEarlyClaims /\ PollHasRule /\ BatchKnown
           /\ StartsMovedBack /\ LeaseHasExpiry /\ ClaimIsLease /\ ScheduleWithinWindow

`ClaimIsLease`: a claim that has not run out is exactly the lease of its row, owner and
expiry, as long as the window is open. The window matters: after it, `CloseWindow` clears leases
without looking at the owner. A request's claim counts from the time it read the
row, so a claim is preserved by `Take` because an unexpired one makes
`LeaseFree` false at any earlier or equal time too (`TakeKeepsClaims`).

The other parts say what a process has in hand. `RequestsRead`: a request past its
first step has read some row, at a time no later than now, and its schedule is
`Planned`, one that `ScheduleWithinWindow` allows, because a failed trigger
writes it back. `BatchKnown`: the rules of a batch are different and claimed, and
the start that was loaded with each is `Known`: it is the row's, unless the row's
has been moved back since, which puts the rule in `late`. Without the last
part the schedule that `Complete` and `Fail` compute from a loaded start could
lie past the window of a rule that nobody counts. `StartsMovedBack`: starts only
move to the past.

The refinement maps a process to the rules it has open claims on, so that a
step of `FencedSlot` names who makes it. `LeaseHasExpiry` makes a slot without an
owner a vacant one. Each operator has its abstract step: `TakeGrants`,
`ReleaseVacates`, `FailReleases`, `CompleteSettles` (by the holder, or the process
only leaves: `DropLeaves`), `ExpiryCloses` and `TimePasses`; `StepRefines` puts them
together.

**StreamWorker.** `NothingLost` looks at one state and does not say why a message
that is no longer pending was settled. The invariant

    Inv == TypeOK /\ HasWork /\ Progress /\ AckedHasOutcome /\ ParkedHasRow

adds what each process is about to acknowledge (`Progress`: its entry was handled,
has its row, or has a later copy in the log) and the same for every entry of a
group that is delivered and not pending (`AckedHasOutcome`). The chain of copies
ends because the attempt grows: `InvNothingLost` takes the last copy of an
event, which is where `MaxOfNumbers` is needed.

**IngestPipeline.** The properties speak of the committed rows; what keeps them
is what the open transaction has done to its image. The invariant

    Inv == TypeOK /\ OneWriter /\ Images /\ InStaging /\ InWorking /\ Outboxes

says of both images that they are `Sound` (an item without a run has no
knowledge, half an extraction has a failed try behind it, a run closed early has
counted its own items) and that the open one is `Ahead` of the committed one, so
that a commit only advances rows. `OneWriter`: one transaction at a time, which
is SQLite's. `InStaging` is the count that makes an early close visible: inserted
items and duplicates are at least the items passed. `Outboxes`: an extraction in
the outbox of the knowledge worker is in the image it builds. Each action has a
lemma about the image it makes (`InsertSound`, `StatusSound`, ...) and one
about the processes.

**ReviewQueue.** `LeaseSeparatesWorkers` says who may hold an item and not what
protects it. `Guarded` does: as long as its lease has not run out, a worker's
item is among its live grants, and its row, while pending, names the worker as
owner; releases and exceptions of others write rows they have loaded, but never
this one. `InHand` ties the loaded row to an item the worker has claimed, and
`Founded` makes the verdict in hand a committed one and the loaded attempts no
larger than the row's, which is what `WorkerDecisionHasGround` needs when the
verdict is written at last.

**SourceMonitor.** There are two layers. `Inv == TypeOK /\ Polls /\
SeenIsRecorded` describes what a poll knows at each place, in particular what a
transaction that has locked the cursor row will commit. `Accounts` counts.
`LinksCounted` charges each lease that ran out under its owner with two broken
links: one for the late poll, while it may still write the cursor (`Writing`),
and one for the holder of the lease, if a late poll has written between the
holder's read and write (`Stale`). `ChangesCounted` charges lost leases and
failures with one forgotten change each: what is spent is a forgotten change, a
poll that works on without the lease, or a poll that took an older version for
the one it had asked for (`Untold`). A poll that ends without a session
has asked for none: its change is `unheard`, which is not forgotten.

**DebateStream.** The decision option is looked up while the row of the run is
locked. `LockOwner` says that the lock is held exactly by the debate that is
completing, and `Work` what its transaction has found: `d \in adds <=> options = 0`
stays true only because no other debate can commit an option meanwhile.

**StrategicRefresh.** `Locking`: the FOR UPDATE lock of a session belongs to the
run that is about to write. `Numbered`: the number it has read is still the next.
`Order`: the rows are numbered by position. `NextNumberInOrder` turns the
maximum that the code reads into the length of the timeline, and `WriteAppends`
is the step of `Timeline`. `OverlapsAreLosses` has an invariant of its own,
`ClaimInv`: the workers that have claimed a session are finitely many and at
most `losses`, and one more while the session is `Covered`, which is by a live lease
or by the row lock of a claim that is not committed. `Orderly` says that a
worker does not meet a session of its batch again among its candidates, and that
it holds no other row while it stores results. `Counting` is the arithmetic of
one step: a daily brief of a user, or a user who switches the refresh off, takes
the cover of a live lease away and pays with a loss (`SaveClaims`).

**Backtest.** `Reserved`: a version that a worker has written and not committed
has no record, and no other worker has written it. `Known` and `Numbered`: what
is under way belongs to versions that exist. With them a worker's commit gives
both places the same verdict, a revision touches no version with a record, and
a request that is not a clash leaves both equal; `NowType` keeps the clock among
the numbers. `StepTears` says that a step
adds at most one torn version, and that only with a clash.

**PredictionRevision.** `OnlyRequestsFork` speaks of committed versions, and a
version is made long before, from rows that others go on changing. The invariant

    RevisionInv == TypeOK /\ Queueing /\ InPhase /\ Copies
                   /\ Consistent(jobs, chains, runs)
                   /\ Consistent(session.jobs, Merged, runs)
                   /\ NothingForgotten /\ SessionRemembers

says of the tables that they are `Consistent`. Of the jobs of a series that
evidence caused at most one is active (`OneCaused`). A job revises a version of
its series, and if evidence caused it, all later versions are forecasts users
asked for (`Based`, `Beside`): that is what is left of "made from the latest
version" once requests come in between. Each version after the first belongs to an
ended job and a completed run of its own (`Linear`). The invariant says the same
of the copies on which the open round works (`Merged` are the chains as it will
commit them), so that a commit needs no argument about versions. `Copies` ties
copies to tables: the round only ends jobs and only appends, and only while it
works on jobs; jobs it has added and not committed rest on an event that is still
in the inbox or on a series in `missed`. A request commits while a round is open, so
its job is put into both (`ReforecastInv`). `InPhase` says what is in hand in which
phase, `Queueing` what the simulation worker may have claimed.
`SessionRemembers` is `NothingForgotten` for what the open round will commit; a job
whose version supersedes a newer one counts in `missed` when it does so.
`NewestJob` and `AddedJobs` say which jobs one event adds: one for each stale series
without an active job, in the order of the series, with numbers nobody has.

**ReportQueue.** `OneReportPerWorker` bounds a number by another and says nothing
of who may still write. `ReportsLeft` does: the reports of a run and the workers
that have it as a candidate or claimed are together no more than the workers. A
worker takes a run as a candidate only while there is no report of it, and the
commit that adds its report takes the run from its hands. `UnreportedHasReason`
is inductive with the types.

Three properties changed when their proofs failed. `EachBreakIsALapse` had one
broken link for each lost lease, which TLC confirmed with two contents; with
four, the poll that had read the cursor before a late one wrote breaks a second.
`EachOverlapIsALoss` had not counted the user who switches the refresh off, and
the run of the user was on a session where that made no difference.
`UnreportedHasReason` had not counted the runs beyond the first select of a
round, which returns three times the limit; the run has too few runs to go past
that.

Only model-checked: liveness. Every safety invariant and every action property
of the passing runs, and both refinements, are theorems. Liveness under fairness
and `ENABLED` are outside the prover's reach, as is induction over recursive data.

## 5. Not modelled

* The work between claim and settlement of a poll, prompts, scores, formatting.
* Idle times of Redis entries and the exact moment of approximate trimming: both
  are left open, which allows more than Redis does.
* The backpressure of the event bus: all groups share one key, which a group
  below the threshold deletes (`events/bus.py:369`); the gate it closes delays
  the ingest worker and keeps no state.
* PostgreSQL's concurrent transactions in `IngestPipeline`, and its branch of
  the insert, which calls `on_conflict_do_nothing` on the dialect-neutral insert
  (`services/pipeline.py:12,486`) that does not have it.
* Conflicts between claims in the review worker: a choice. Events the
  re-evaluation publishes before its commit.
* Several evidence items at once, scenario branches and a second process of the
  revision or the simulation worker.
* A process that dies between the commit of a review decision and its event, in
  `PredictionRevision`: that change reaches nobody. One that dies after the commit
  of a requested forecast is modelled: its event may wake nobody.
* Types of sources a user changes on a rule, which only change what is fetched; the
  order the database gives rows of equal time, which is left open.
* Two cursor rows for one source, and fetches recorded as failed, which nothing
  calls; several sources of one rule.
* Trust of sources and the aggregated calibration records in `Backtest`: scores
  computed from the rows whose verdicts are modelled.
* The upserts of the graph worker: they meet only the unique keys of their
  tables, and a violation is the failed round that `StreamWorker` retries.
* What a simulation computes (`services/simulation/impact.py`, domains, military
  rules): floating-point scoring inside one transaction, without control that
  outlives a call.
* Authentication and the login throttle: their correctness is a security
  argument, which this project does not make.
* Calls of language models and source providers, the repair loop of `jarvis`,
  exports, the frontend, handlers that only call a service, migrations.

These last groups are most of the lines of the repository: text, scores,
schemas, prompts and clients. They keep no state that two actors share, so a
model of them would repeat the code without a question to ask of it.

## 6. Plan

1. Scenario branches: the summary of a parent run that two requests extend at
   once, and branches that only a later round refreshes.
2. An abstract tree of versions, with one branch for each forecast a user asked
   for, implemented by the series of `PredictionRevision`; several evidence items
   there.
3. `IngestPipeline` with the transactions of PostgreSQL, and backpressure with
   several groups.
