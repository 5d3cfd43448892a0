# A TLA+ development of movy-data

movy-data copies a whole database (schema, rows, indexes, counters) from one
server into another. A web console queues the migrations; runner agents take
them from the queue and run each in a process of its own. This directory holds
TLA+ modules of the parts of the program that are hard to test, the TLC
configurations that check them on small instances, and proofs, checked by TLAPS,
that some of the results hold for every value of the constants.

Paths below are relative to the repository.

## 1. The system

| Component | State it keeps | Operations | Talks to |
|---|---|---|---|
| Web console: API, repositories (`apps/web/server`) | none of its own: the metadata database | launch, cancel, query; one request is several statements | database, NOTIFY, the embedded agent if it has one |
| Run queue (`packages/db/src/schema/runs.ts`, `apps/runner/src/agent/queue-store.ts`) | `runs` (status, runner, lease, destination, cursor), `run_specs` (sealed passwords), `runners` | enqueue, claim, take spec, heartbeat, settle, sweep, cancel | - |
| Runner agent (`runner-agent.ts`) | `owned` (when each lease was last renewed), `launching`, `cancelSent`, one claim loop, timers | claim, launch, beat, check leases, cancel, drain, stop | queue store, run manager |
| Run manager (`run-manager.ts`) | handles of forked children, followers of recovered ones | launch, cancel, terminate, re-attach, follow, shut down | children over IPC and signals, event writer |
| Child process (`apps/runner/src/main.ts`, `execute.ts`) | its journal; the migration | run one spec, publish events, report an outcome | its host, source and destination databases |
| Event pipeline (`event-writer.ts`, `run-projection.ts`, `ingestion.ts`, `journal-tailer.ts`, `journal.ts`) | buffers per run, one flush in flight per run, `last_seq` | push, flush, project, re-tail | database, NOTIFY |
| Sweeper (`apps/web/server/plugins/runner-sweeper.ts`) | cooldown per runner class | sweep every ten seconds on one replica | database, provisioner |
| Live stream (`run-hub.ts`, `run-event-feed.ts`, `routes/_ws/runs.ts`, `subscription-ticket.ts`) | rooms, a cursor per watched run, tickets | mint, redeem, join, snapshot, publish, resync | database, browsers |
| Browser (`useRunStream.ts`, `run-reducer.ts`) | the view of a run | apply a snapshot, apply an event, reconnect | sockets |
| Runner availability (`runner-hub.ts`, `runner-tickets.ts`, `routes/_ws/runners.ts`) | rooms by audience, the last frame of each | subscribe, refresh, move, evict | database, browsers |
| Probes (`probe-store.ts`, `probe-worker.ts`, `run-probe.ts`, `probe-waiters.ts`) | `runner_probes`, waiters | ask, claim, answer, time out | database, NOTIFY |
| Fleet (`provisioner.ts`, `autoscale.ts`, `idle-watch.ts`) | containers, cooldowns, idle clocks | start a runner, retire it | container engine, queue |
| Migration core (`packages/core`) | one migration: steps, tables, workers | orchestrate, plan, copy, truncate, validate | source and destination databases |
| Schema work (`packages/core`, inspectors and synchronisers) | none: the catalogues of the two databases | inspect, compare, translate, apply, create indexes, reset counters | source and destination databases |
| Organisations, members, connections, definitions, comparisons | rows | create, read, update, delete, invite, accept, compare | database |
| Pages (`runs/new.vue`, `runs/index.vue`, `compare.vue`) | a selection, a preview, a list, a result | choose, preview, launch, page, compare | API |

What is hard in it:

- **Concurrency.** Agents claim at the same time. Inside one agent the claim
  loop, the heartbeats, the watchdog, IPC messages and child exits interleave at
  every `await`. A heartbeat is judged against runs that came and went while it
  was in flight. In the console a request is several statements, and two requests
  cross; a snapshot is read while events go by.
- **Failure.** An agent's child is detached and survives it. A restarted agent
  has only what the database and the journals say. A statement may be run and
  its answer lost. Some failed writes are reported and not repeated. A migration
  may break at any statement, and what it has switched off stays off.
- **Time.** Nobody tells an agent that its run was taken away. It has to stop
  its child before the database may give the destination to someone else, judged
  by its own clock and the moment a request was sent. A probe's row has to outlive
  its request, and not by much.
- **Ordering.** The events of a run, its exit, a fatal message, a sweep and a
  user's cancel all write the same status column, some under a guard. Answers reach
  a page after what they are about has changed. Statements of a schema change
  depend on one another.

What makes each component correct, and where it is stated:

- Queue and agents: one run per destination; a child is stopped while its lease
  still holds; a queued run is served; a cancelled, lost or orphaned run is settled;
  passwords do not outlive their use (`RunQueue`).
- Event pipeline: the cursor does not pass an event that is not stored; what is
  in the journal gets stored; a run is settled once its process is gone, and not
  before what explains its end is stored (`EventPipeline`).
- Live stream: an overlap between snapshot and events, never a gap; a page is
  current in the end; a demotion reaches every socket (`RunStream`). The agent and
  the page make the same of the same events (`RunView`).
- Core: success means a complete copy; a cancel reported is a cancel, with the
  guards up again; the plan orders tables by their foreign keys; a run ends
  (`Migration`, `TablePlanner`).
- Schema: a run makes the destination what the source is, keeps what both have, is
  refused only for known reasons, and does what its preview said (`SchemaSync`,
  `Preview`).
- Probes: a request gets its answer or a timeout, and the row with the passwords
  and the slot are gone either way (`Probes`).
- Fleet: the cap is kept, and queued work starts a runner (`Fleet`).
- Workspace: an organisation keeps an administrator, a dead token admits nobody, a
  run is admitted as it was checked, its history stays (`Members`, `Workspace`),
  counts that are shown were counted (`Comparison`).
- Pages: what is launched is what was previewed, the URL names what is shown
  (`Review`), pages of the list meet (`Ledger`), a room's frame is what its members
  show (`RunnerWatch`).

`PROJECT.json` lists every component with its status and every hazard at its line.

## 2. Modules

| Module | What it is |
|---|---|
| `RunQueue` | the queue, its agents, their children, the sweeper and the console's operations on runs; fairness; all properties |
| `DestinationLock` | the abstract specification: a run holds its destination alone, and only a holder writes |
| `RunQueueInv` | the inductive invariant of `RunQueue` |
| `MCRunQueue` | the instances TLC checks: one destination for all runs, symmetry of agents and of heartbeats |
| `RunQueue_proofs` | type correctness, which steps can make a run active, the invariant, and from it the safety properties and the refinement |
| `DestinationLock_proofs` | the abstract lock is exclusive |
| `EventPipeline` | the events of one run: child, journal, IPC, event writer, projection, settlement, re-attachment; fairness; all properties |
| `EventLog` | the abstract specification: readers see a prefix of the run's lasting events, which only grows |
| `MCEventPipeline` | a short run for TLC |
| `EventPipeline_proofs` | types, settlement of live runs, the gap invariant, the refinement of `EventLog`, explained outcomes, finished tables |
| `TablePlanner` | the load and cleanup orders, and the reference they are compared with |
| `Migration` | one migration inside the child: steps, guards, clearing, copy, pool of threads, cancellation |
| `SchemaDiff` | what an inspector reports of a database, and the difference of two reports |
| `SqlEngines` | what each statement does on PostgreSQL, MySQL and SQL Server, and which are refused |
| `SchemaSync` | the schema work of a run and of the runs after it, statement by statement |
| `Preview` | what the preview of such a run says |
| `MCMigration`, `MCSchemaSync`, `MCCore` | instances of the core, and their sum |
| `Core_proofs` | the planner's orders and its cyclic tables, every safety property of a migration, the counters of ids, what a schema's synchronisation keeps and what its preview says |
| `RunStream` | a run's live stream: ledger, NOTIFY, feed, hub, socket, page |
| `RunView` | the events of a run folded by the agent and by the page |
| `Ledger` | the list of runs, paged by keyset while it changes |
| `Ledger_proofs` | pages of the list meet |
| `MCPages` | the sum of these three |
| `Pages_proofs` | the live stream has no gap; the rows of a run and a page on it agree |
| `Fleet` | runner containers, their rows, the sweeper's tick, autoscaling, idle exit |
| `Probes` | requests for a Test or a Preview and the worker that answers them |
| `Members` | roles, invitations, acceptance |
| `Workspace` | connections and definitions edited under a launch |
| `Comparison` | a comparison of row counts |
| `RunnerWatch` | who watches which runners |
| `Review` | the pages on which one previews, launches and compares |
| `MCRunners` | the sum of `Fleet` and `RunnerWatch` |
| `Runners_proofs` | the cap of the fleet, the answers of probes, the rooms of the runners' page |
| `MCConsole` | the sum of `Probes`, `Members`, `Workspace`, `Comparison` and `Review` |
| `Console_proofs` | members and tokens, comparisons, admission and history, the two pages |

`MCCore`, `MCPages`, `MCRunners` and `MCConsole` put together parts that share no state. Their
product would show nothing that each does not show alone, so a behaviour runs one
part, chosen at its start (`half`, `part`), and the others rest in a state in which
their fairness asks nothing.

In every module a mistaken form of a definition stands before it, commented
"Wrong" or "Mutant"; `PROJECT.json` names the property that each one breaks.

### RunQueue: state and code

| Variable | Code |
|---|---|
| `status`, `runner`, `journaled` | `runs.status`, `runner_id`, whether `journal_path` is set |
| `lease` | `lease_expires_at - now()`, in ticks; -1 once past |
| `specs` | the rows of `run_specs` |
| `child` | the process: not forked, booting, writing, or how it ended (its journal's `run_finished`, or `dead`) |
| `link` | `RunManager.handles` (`ipc`) and `followers` (`tail`): what `liveRunIds` returns |
| `closing` | the end of a child has been seen and is not yet in its row (`onExit` past `handles.delete`, a follower past `unfollow`) |
| `started` | a `run_started` that waits in the event writer |
| `owned`, `cancelSent` | the maps of `RunnerAgent`; `owned` as the age of the renewal |
| `mode`, `check` | starting, up, draining or down; ticks since the watchdog ran |
| `claim` | the claim loop: `sent`, `picked` (row locked), `won` (committed), `spec` (answered), `taken`/`gone` (spec read or missing), `fail` |
| `beat` | each heartbeat in flight: `sent`, `committed`, with the runs live when it was sent and what the statement returned |
| `faults`, `deaths` | counters of the two bounds |

A run is claimed at most once, so an agent's memory of a run is kept by run and
`runner[r]` says whose memory it is.

| Actions | Code |
|---|---|
| `Enqueue`, `CancelQueued`, `RequestCancel` | `RunsRepository.enqueue`, `cancelQueuedRun`, `requestCancel` |
| `Sweep` | `sweep`: one statement; the specs it deletes are those of runs that were settled when it began |
| `SendClaim`, `PickClaim`, `NoWork`, `CommitClaim`, `RefuseClaim`, `AnswerClaim`, `LoseClaim` | `claimLoop` and `claimNextRun`. The subquery (`FOR UPDATE SKIP LOCKED`) and the update that the unique index may refuse are two steps, as two agents can be between them |
| `TakeSpec`, `GiveUp`, `Launch`, `ForkFails`, `FailClaim` | `startRun` and `fail` |
| `SendBeat`, `CommitBeat`, `AnswerBeat`, `LoseBeat` | `beat`: before the query, the statement, after the answer, the `catch` |
| `Watchdog`, `Cancel` | `checkLeases` on its timer; `cancel` |
| `Ready`, `Finish`, `Crash`, `Fatal`, `ObserveEnd`, `Close`, `StoreStarted` | the child's life and what `onMessage`, `onExit`, `follow`, `settle` and `applyProjection` do about it |
| `Start`, `Drain`, `Die` | `start` with `reattach`; `stopClaiming`; `stop`, a crash, or a drain out of patience |
| `Tick` | time passes |

**Time.** Leases are what remains, requests are how old they are, so the clock
needs no bound: ages saturate past the lease. A tick may not pass while the
watchdog is due (its timer fires within a tick) and while a request is older
than `MaxDelay`. `Check <= Margin + 1` is the assumption under which the margin
covers the watchdog's interval (5 s and 1 s in the code).

**Faults.** `MaxFaults` statements may fail, before or after the database ran
them; `MaxDeaths` agents may die. The retry limit of a claim (five) is a choice.

What it abstracts:

- The `now()` of a statement and its commit are one step. Of two overlapping
  heartbeats, the one that began first can in the code write last and move
  `lease_expires_at` back; the model has no such step.
- A statement not yet run when its sender dies or gives up is taken never to run.
- `start` registers and re-attaches in one step. Settlements of runs found ended
  may come later than in the code.
- A follower flushes before it lets go of its run; the model gives the slot back
  first. No property here depends on that order.
- The exit code fallback of `onExit` is part of how a child ended (`child`).
- Whether the channel of a child that has ended is already closed when a cancel comes is
  a choice in `Tell`: `cancel` settles the run if it is, and sends into it if it is not.
- `requestCancel` also matches a `cancelling` row and, between two statements, a
  queued one; the first changes nothing, the second has just been tried by
  `cancelQueued`.
- One runner class; runs without an owner (before migration 0004) do not exist.
- The `runners` table is in `Fleet`; the database pool, log text and the stall
  report are left out. A `NOTIFY` is `Cancel` and `SendClaim` at any time, and may
  be lost.
- A fork that fails with an asynchronous `error` and no `exit` is not modelled.

### EventPipeline: state and code

An event is its `seq`; the constant `Script` says of which kind each event of the
run is. The module begins where `RunQueue` says `Ready`: the child runs, has said
so, and its journal path is stored.

| Variable | Code |
|---|---|
| `child` | the process: running, left by itself (`ended`; `fatal` if its journal had failed, `internal` once that message is read), or killed |
| `written`, `onDisk`, `broken` | events published; lines of them in the file (the rest is in the stream's buffer); `journalError` |
| `up`, `watch`, `following` | the agent; what its `RunManager` is doing about this run (handle, `onExit` at its flush, a follower between passes, a pass reading or at its flush); `followers` |
| `sample`, `cursor`, `upTo` | `aliveBefore`; the `fromSeq` of a pass; how far it has read |
| `received` | messages handled by the agent that forked the child |
| `tally`, `buffer`, `inflight` | `logCounts`, `buffers`, `inFlight` of `EventWriter` |
| `late` | a batch whose client died with its COMMIT on the way |
| `stored`, `lastSeq`, `status`, `table` | `run_events`, `runs.last_seq`, `runs.status`, `run_table_progress.status` |

| Actions | Code |
|---|---|
| `Publish`, `WriteOut`, `Break`, `Leave`, `Killed` | `publish` and the end of `main.ts`; the stream of `journal.ts`; a SIGKILL |
| `Drain`, `Commit`, `DropBatch`, `CommitLate` | `EventWriter.drain`, its transaction (`projectEvents`, `applyProjection`), its `catch`, and a COMMIT that outlives its agent |
| `Receive`, `Fatal`, `ObserveExit`, `CloseExit` | `onMessage`; `onExit` before and after its flush |
| `Poll`, `ReadNext`, `ReadEnd`, `ReadFails`, `ClosePass` | a follower's tick; `readJournalAfter` line by line; `catchUp` from its flush, and what `reattach` or the tick makes of its outcome |
| `CancelGone`, `Die`, `Start`, `Sweep` | `cancel` with nothing to signal; the end of an agent; `reattach`; `sweep` |

What it abstracts:

- One table stands for all; `plan_ready`, steps and counters are not followed
  (`RunView` folds them). The projection of a batch is what it does to the status,
  the cursor and that table.
- A run that is `cancelling` counts as running: the guard of `run_started`
  (`ingestion.ts:95-99`) keeps the two apart, and `RunQueue` models it.
- `status` tells settlements apart by who decided them.
- While an agent is up its heartbeats keep the row from the sweeper, as
  `RunQueue` shows, so `Sweep` needs an agent that is away. Fencing is `Killed`.
- The messages a child has sent are read before its exit is observed; a child that
  is killed may have got any number of them into the channel. A child that leaves
  by itself gets all of them in.
- A half-written line is not a line yet. The tailer skips it and does not count it.
- A COMMIT that outlives its agent holds the locks of its rows: no other
  transaction on the run is between it and its end.
- `Drain` may come at any time: the timer, a full buffer and a flush all call it.
- A pass that found its outcome settles in the step that ends it. The settlement may
  fail there (`Settle`): the `catch` only reports it, and nothing tries it again but the
  sweeper.

### Migration and TablePlanner

`TablePlanner` translates `table-migration-planner.service.ts`: the levels of Kahn's
algorithm as a recursive function (`Visited`), the order by level, estimate and name
(`SortTables`, with the comparator `Precedes`), its reverse for cleaning up, and the
tables no level reaches. `Migration` uses its plan, for the jobs that are migrations
(`JobsAreMigrations`: two engines, foreign keys, and rows and estimates of every table).

| Variable | Code |
|---|---|
| `job` | the engines, the foreign keys, the rows in batches, the estimates, whether the destination held rows |
| `step`, `phase`, `left`, `done` | `MIGRATION_STEP_ORDER`; the loop the orchestrator or a migrator is in, the tables it has still to visit, the batches copied of the first |
| `plan`, `results`, `told` | the table plan; `TableMigrationResult`; `table_finished` events |
| `dest`, `guards` | the destination: old rows and batches of each table; triggers (PG) or constraints (SQL Server) on |
| `mayBeOff`, `undone` | `triggersDisabled`; the compensation of a cancelled run |
| `worker`, `terminated`, `listening` | the threads of `WorkerPool`, its flag, whether an abort reaches it |
| `aborted`, `outcome`, `faults` | the signal and where the run was; `run_finished`; the bound |

Actions are the orchestrator's (`CancelBeforeStep`, `PlainStep`, `StartDisable`,
`DisableTriggers`, `StartEnable`, `EnableTriggers`, `Compensate`), the data
migrators' (`StartData`, `Open`, `ClearPg`, `ClearTable`, `StartTable`, `CopyBatch`,
`CancelMidCopy`, `FinishTable`, `FailTable`, `Crash`), the pool's (`SpawnWorkers`,
`WorkerCopies`, `WorkerReports`, `WorkerFailsTable`, `WorkerDies`, `WorkerStops`,
`PoolDone`), `Abort` and `ProcessKilled`. The pair of engines chooses among them as
the factory does: the pool for PG to PG; a table cleared at its turn for SQL Server
with another engine, which may fail before anything is cleared (`StartFails`: the old
rows stay, and past the connections the `finally` still checks the table); otherwise all
cleared first. The last `PlainStep` looks at the results that there are, as
`tableResults.every` does: a table without one does not make the run fail. After
`run_finished` the threads that live go on, as `main` sets an exit code and does not
exit; only a SIGKILL ends them sooner (`ProcessKilled`).

Conversions of values, paging and back-pressure are left out. A batch is a unit that is
copied once: the code pages with LIMIT and OFFSET and no ORDER BY, which no server
promises to be stable from one statement to the next, and the model does not see it.

### SchemaDiff, SqlEngines, SchemaSync and Preview

A database is a record of tables, columns (with a type and whether they number
themselves), constraints (`pk`, `unique`, `fk`, with name, columns and referred
table) and indexes. `SchemaDiff` has what each inspector reports of it and the diff;
`SqlEngines` what each statement of the three synchronisers does to such a record and
when a server refuses it; `SchemaSync` the run: `pair`, `src`, `dst`, `before` (what
the run found), `stage`, `script` (statements left), `diff`, `ids` (the counter and
the greatest id of one table), `clean` and `verdict` (outcome), `marks` (what
happened) and `troubles` (the bound). Between two runs either database may be as the
first left it. `Preview` is a function of the databases, as the code's is.

Two types stand for all, named as each engine names them: one that fits in a key and
one that does not, or not whole. Enums, sequences of no column, defaults, lengths and nullability, and
CHECK constraints (which the inspectors do not read) are left out.

### RunStream, RunView and Ledger

| Module | Variables and code |
|---|---|
| `RunStream` | `stored`, `ended`, `role`: the ledger and the reader's role. `link`, `bus`: the LISTEN connection and what is on it. `cur`, `cursor`: `RunEventFeed`'s map and the cursors in it (one followed, one deleted with its read in flight). `push`: a status read of `SettledStatusFeed`. `sock`: the handler of `_ws/runs.ts` at each `await`, with the room. `wire`: frames. `page`: `useRunStream` and the reducer. `check`: the hub's re-check of roles. `faults` |
| `RunView` | `engine`, `samples`, `tablesTold`: what the engine has said. `held`, `passed`: the keys of which `createThrottledSink` holds a sample back, or has sent one (of a key the newest stays). `journal`: the numbered events. `row`: `runs`, `run_steps`, `run_table_progress` after each batch. `opening`: a snapshot read row by row. `view`: the reducer's state. `surprises`, `silent`: settlements that are no event |
| `Ledger` | `now`, `runRows`: runs by microsecond and id. `filter`, `first`, `more`, `nextCursor`, `fetching`, `loading`: `runs/index.vue`. `base`, `calm`: history |

`RunStream` keeps a seq, and whether it is a log line (which only the full role
sees), of each event; `RunView` keeps what the fold keeps, without the counts of
rows, whose values depend on how events fall into batches. In `MCPages` the agent
stores nothing before the engine is done (`EngineFirst`): which events there are
does not depend on what has been stored.

### Fleet, Probes and the other parts of the console

| Module | Variables and code |
|---|---|
| `Fleet` | `status`, `owner`: runs. `row`, `busy`: `runners.state` and `busy`. `old`: runners not heard of for long. `clone`: the container and the agent in it. `claim`, `live`, `idle`: that agent's claim, runs and idle clock. `cool`, `tick`, `chain`, `step`: each console's cooldown, what its `sweepTick` does next, its scale-ups not yet over and how far the first is. `faults`, `clicks`: bounds |
| `Probes` | `pc`, `age`, `left`, `nap`, `outcome`: a request of `runProbe`. `probe`, `ttl`: its row. `online`, `up`, `stop`: the runner. `loop`, `claimed`, `wakeAgain`, `job`, `jobLeft`: `ProbeWorker`. `probeFaults`; `inTime`: history |
| `Members` | `member`, `invitation`, `tokens`: rows. `request`, `requests`: handlers between two statements, and how many there were. `dead`, `crossed`: history |
| `Workspace` | `conn`, `def`, `runs`: rows. `launch`: a launch between two statements. `edits`: bound |
| `Comparison` | `src`, `dst`: the databases. `phase`, `listed`, `counted`, `half`: the handler. `status`, `summary`, `stored`: the rows. `writes`, `mishaps`: bounds |
| `RunnerWatch` | `counts`, `ids`, `standing`: the runners and the roles. `ticket`, `socket`, `room`: the hub. `refresh`: one run of it. `shown`: what each page shows. `watchChanges`, `watchFaults`: bounds. `overtaken`: history |
| `Review` | `openPage`. `saved`, `offered`, `selection`, `simulate`, `preview`, `previewing`, `launching`, `started`: `new.vue` and the handlers behind it. `url`, `result`, `stillOpening`, `comparing`, `comparisons`: `compare.vue`. `picks`, `reviewEdits`: bounds. `passedBy`: history |

Every statement of a handler is a step of its own where another request can come
between; a transaction that holds its row is one step (`Accept`). In `Probes` a
request's statement takes up to `Delay` ticks, by request; a runner's takes any time.
In `Fleet` an id is the first that is free, and the sweeper's statement and its
clean-up of exited containers are one tick.

## 3. Runs

### The queue

These runs instantiate `MCRunQueue` with every run writing into one database
and one slot per agent, which makes both the lock and the slot scarce. Deadlock
is checked in them: time can always pass, or an action is due.

| Run | Question | Instance |
|---|---|---|
| `lease_fencing` | Is a child stopped before its run may be settled, and never forked too late? Is the invariant of the proofs true? (`FencedInTime`, `LaunchOnlyHeld`, `IInv`) | 1 agent, 1 run, 2 overlapping beats, lease 2, margin 1, the longest check interval (2), requests of 1 tick, 1 fault, 1 death |
| `agent_takeover` | Two agents claim at once, one dies, is swept, comes back: one active run per destination, no two writers that are both vouched for, the abstract lock implemented? (`OneActivePerDestination`, `SingleWriter`, `ImplementsLock`) | 2 agents, 2 runs, lease 1, no margin, 1 death |
| `run_settles` | Does a cancel whose NOTIFY is lost still end the run, does the sweeper settle what a dead agent left, are passwords deleted? (`RunsSettle` = `CancelSettles`, `LostHostSettles`, `SpecsForgotten`) | 1 agent, 1 run that may be cancelled, lease 3, 1 death, fair |
| `queue_served` | Is every queued run served if migrations end? (`EveryRunSettles`) | 2 runs, 1 slot, lease 1 without a margin, fair, runs end |

Why these bounds are enough to show something: a lease of two ticks and a margin
of one is the smallest instance in which a lease can be fresh, inside its margin
and past; where nothing is asked of the margin the lease is one tick. A second run
on the same destination, or for the same slot, is all that is needed to compete; one
death covers a crash and a return; ages beyond the lease behave alike.

`lost_run` is expected to find a violation, of "a lost run is settled within a lease
plus one sweep" (`runner-sweeper.ts:8`) and "the lease is gone, so is the run"
(`runner-agent.ts:366`). A claim is answered inside the margin of its lease;
`startRun` finds it overdue, releases it and returns without settling the row,
whose lease has not ended. The agent's next heartbeat renews every active run of
its runner id, this one too, and so does each after it: the row runs for ever
without a child, and its destination stays locked. No statement fails in this
run. With `MaxFaults = 1` a lost answer of a claim, or a settlement that fails
in `fail`, ends in the same state.

Two more sentences can be seen to fail here: "A runner declared dead must never keep
writing" (`schema/runs.ts:91`): an agent dies while its child boots, the journal path
is not stored, re-attachment does not find it, and it is swept and the destination
handed to another run while the child writes; `SingleWriter` excepts such a child.
And "the message is the outcome" (`run-manager.ts:503`): after `fatal` settled a run,
its queued `run_started` is stored without a guard and the row runs again.

### The event pipeline

These runs instantiate `MCEventPipeline`. Deadlock is not checked in them: when
the child has ended and its run is settled, nothing is left to do.

| Run | Question | Instance |
|---|---|---|
| `event_store` | Is the cursor ever past an event that is not stored, with a restart, a broken journal, a killed child and a late COMMIT? Do readers see a growing prefix? Is a run called vanished only when its journal is all stored and says no outcome? (`NoGap`, `ImplementsLog`, `ExplainedOutcome`) | 7 events of every kind, cap 1, 1 failure of the journal, 1 death, a user cancels |
| `event_delivery` | With a failure of any kind: is a live run settled by anybody but the sweeper, does a finished table go back? And where nothing failed: is everything in the journal stored in the end, and an ended run settled for good? (`SettledIsIdle`; `RunIsRecorded` = `TableStaysDone`, `EventuallyStored`, `EndedRunSettles`) | the same, 1 failure of any kind, 1 death, fair |

The script `OneTable` has every kind of event the projection tells apart and ends
with the sample that a throttle holds back until after `run_finished`; two log
lines against a cap of one reach the cap; one death gives an agent that reads the
journal with a cursor the dead one may still move.

The properties hold under the constants of their runs and not beyond, which can be
seen by changing a `.cfg`:

- `NoGap` with `Faulty = {"write"}`: "the tailer replays them on next boot"
  (`event-writer.ts:212-213`) is not so. The batch after a dropped one moves
  `last_seq` past it, and the tailer starts after `last_seq`.
- Lasting events may be missing from the database though they are in the journal
  when a message was lost with a killed child: "never treat a missing IPC message as a
  missing event" (`protocol.ts:11-12`), but `onExit` does not look at the journal.
- `EndedRunSettles` without its exception for failures: the dropped batch held
  `run_finished`; `onExit` has seen it on IPC and does not settle
  (`run-manager.ts:516`), and the agent's heartbeats keep the row running.
- `ExplainedOutcome` with `Faulty = {"read"}`: a failed read of the journal counts
  as a read without an outcome (`run-manager.ts:285-303`).
- `ExplainedOutcome` with `MaxDeaths = 2` and no failure: events read again, with a
  `run_started` among them, set a finished run back to running while its cursor is
  past its `run_finished` (`ingestion.ts:95-104`); if that agent dies too, the next
  one finds nothing to read and no process.

### The core

`core` (0.5 million states) has two halves.

*Migration*: three tables; the nine pairs of engines over an acyclic graph, a chain
with a self-reference and a table that is not migrated, and a cycle with a table
below it; estimates absent, exact, passed and too high; a destination that is empty
or not; every one of the 128 graphs on three tables of which only the first may refer
to itself, for the planner; two threads; two
faults; an abort at any moment.

- `SuccessIsComplete`: "succeeded" means each table was emptied of what it held and
  has every batch once.
- `ReportIsTrue`: `GuardsRestored` (triggers and constraints are up again after a
  success or a cancel, unless the compensation was refused), `NoWriterAfterCancel`
  (no thread writes once a run is reported cancelled), `EarlyCancelKeepsRows`.
- `PlanCarries`: `PlanOrdersParents`, against a reference definition of the cyclic
  tables, and `CompensationHolds`: what the plan is for. With no outside fault the
  compensation is refused only by a cycle, a failed table, or a migrator that clears
  each table at its turn.
- `TableToldOnce`: one `table_finished` for each table, with its result.
- `RunEnds`, under fairness.

What these except or allow, and the code does:

- SQL Server to PostgreSQL or MySQL: `return this.paginateMssql(...)` without `await`
  ends the connections while they copy; the table fails or the process crashes.
- A failure between switching guards off and on leaves them off; only a cancellation
  compensates. Clearing table by table into a populated SQL Server makes even that
  compensation be refused.
- A thread that dies rejects the pool while the others write, and no abort reaches
  them. An abort before or while tables are cleared does not stop the threads that are
  then spawned (`worker-pool.ts:40-43` promises it).
- An estimate that is met exactly tells `table_finished` with success before the table
  is over; a failure after it is never told (`migrate-data` lines 69 and 130).
- A TRUNCATE ... CASCADE empties tables that are not migrated (`pg-truncate.ts:19-23`
  reasons otherwise).

*Schema*: the nine pairs of engines; from any to any of the databases with up to two
tables of two columns with keys, unique keys, foreign keys and indexes (`Shapes`),
runs one after another with one statement that fails.

- `Converges`: two runs in a row without a warning leave nothing to do, but for indexes
  that PostgreSQL was asked for `IF NOT EXISTS` while another table has one of the name
  (names of indexes are one per schema there): MySQL and SQL Server allow two, the second
  is never made, and nothing warns of it (`pg-schema-synchronizer.adapter.ts:270`).
- `KeepsShared`: at no statement does the destination lack what it had and the source
  has.
- `ExplainedRefusal`: without a failure, a run is refused only for one of seven named
  reasons, each a predicate of what it began with.
- `NextIdFree`: after a run an insert without an id gets a free one.
- `PreviewForetells`: tables to create and columns retyped were named by the preview.

The seven reasons are behaviours of the code: every MySQL primary key is called
`PRIMARY`, and SQL Server wants such a name once, so that a MySQL database of two tables is
refused there (`README.md:126` lists the pair); a unique name used in two MySQL tables
is refused by both other engines; a second run into PostgreSQL from another engine
drops the index of a unique key that stays; an index of MySQL went with its column (the
comment in its synchroniser says otherwise); tables are dropped by name, not by
reference; keys are dropped before foreign keys that rest on them; long texts in keys;
and a column that changes its type.
Not seen by the model, but in the same code: MODIFY COLUMN drops NOT NULL and
AUTO_INCREMENT; CHECK constraints are never read; a composite foreign key of
PostgreSQL is read wrongly; PG's fallback counter may be below the ids. `README.md:13`
promises a full schema, and a first run from PG into an empty PG brings no secondary
index and no foreign key (`pg-schema-synchronizer.adapter.ts:114-117`).

`preview_extras` is expected to find a violation, of "Movy leaves them untouched"
(`build-preview.ts:235-236`) of the tables only the destination has: the run drops
them. Columns, keys and indexes to be dropped are in no count of the preview either,
and across engines its diff is not translated, so that it names columns the run leaves
alone.

### What a browser shows of runs

`pages` (0.8 million states) runs one of four parts.

- *stream*: one page, one socket at a time, three events of which one is a log line,
  reads of two events, and one of: a lost LISTEN, a failed read, a failed catch-up, a
  dropped socket, a change of role, a silent settlement, a failed push. `NoServerGap`:
  what a socket's snapshot has not and the feed is past was published to it.
  `EventuallyCurrent`: when faults are over a page with a socket has reached the last
  event and shows an ended run as ended. Two events a read and three events are enough
  for a drain and a catch-up to need a second page.
- *roles*: the same, from when the run's last event is to come, with three faults, each a
  change of role or a dropped socket (`FewFaults`). `DemotionTakesEffect`: in the end no
  socket is in a room not of its role, though roles change again while they are read, and
  sockets close, come back and join meanwhile. A socket that closed while its role was
  read is subscribed again if its room changes, and nobody unsubscribes it before a send
  to it throws (`check.ghost`): it counts as watching, and must be in the room of its
  role too. Three changes are what it takes to demote somebody, promote him while that is
  read, and close his socket in between. Two re-checks that overlap, which takes a query
  that is slower than the interval, are one after the other in the model.
- *view*: one table, two samples, or one and a status moved without an event. `ViewAgrees`: at the same
  seq the rows the agent wrote and what the page made of a snapshot read row by row
  and of repeated and reordered frames are the same.
- *list*: three runs, pages of one, three instants of which the first two are of one
  millisecond, so that runs share an instant, a millisecond or neither. `PagesMeet`: while others are
  launched and end, no run is repeated, whatever it shares with others; and none is
  skipped but one that is of the very millisecond in which a page above it ended, and
  not of those the next page finds there (`PassedOver`). Time stands still once all runs
  are there (`TimeMatters`), and a status is chosen once (`OneStatus`).

What these except, and the code does:

- A hole between a full catch-up page and events that came live is not closed, though
  `useRunStream.ts:33-38` and `run-event-feed.ts:43-45` say a long gap is: events at or
  below `lastSeq` are dropped. `EventuallyCurrent` is about the last event.
- A run that was settled without an event may stay running on a page: the push is tried
  once (`settled-status.ts:22-28`), and a snapshot replay puts `running` over the row.
- A catch-up that fails is not tried again, and `EventuallyCurrent` lets its page off
  (`rest.st = "failed"`); beyond 500 events `snapshot.ts:64` is not
  so; a socket reads its snapshot as the role its ticket was minted for
  (`routes/_ws/runs.ts:49`).
- A cursor of the list is truncated to a millisecond (`paging.ts:45`) while
  `created_at` has microseconds: where a page ends within a millisecond, later than its
  first microsecond, the runs of the rest of that millisecond can be skipped, contrary to
  `keyset-cursor.ts:11-14`, `runs.repo.ts:241-244` and `schema/runs.ts:151-154`. Runs of
  other milliseconds, and those of one in which no page ends, are not.
- Each refresh of the list discards what was loaded below it, though the comment at
  `index.vue:36-38` says it cannot; a page loaded across a refresh or a change of
  filter leaves a hole or rows of the old filter (`calm`).
- Which counts of rows a table ends with depends on how its events fell into batches,
  and for a failed table page and row keep different ones; a replay cancelled after its
  `run_finished` emits a second one (`simulate.ts`).

### Runners

`runners` (387,000 states) runs one of two parts.

*fleet*: two consoles of which one sweeps, three container ids, one
run, a cap of one, one failure of any kind, one click. `CapHolds`: the cap is passed by
at most one clone for each further console. `QueuedRunIsServed`: a queued run is over
one day, whatever failed to start, left as idle, or died and is still counted. A
console that does not sweep still answers clicks, which is how the cap is passed.

A provisioned runner whose claim is in flight counts as idle (`agent-main.ts:207`,
against its comment at 167-168): it may launch the run it has been given, and its
container's exit kills the child; the sweeper settles it as vanished. The model has
this step, and `QueuedRunIsServed` counts such a run as over.

*watch*: two sockets of two people, four room objects, one change of the fleet or of a
role, one failed query. `RoomAgrees`: a frame a room has seen is not sent again, so
between refreshes everyone in a room must show its last frame. It excepts an operator
who is demoted while his subscription is being loaded: he gets the operators' frame
after the move (`runner-hub.ts:79-81`), until the next change.

### The console

`console` (0.3 million states) runs one of five parts.

| Part | Properties | Instance |
|---|---|---|
| `Probes` | `AnswersReachTheUser` = `AwaitedRowStands` (the sweeper removes no row that is waited for), `StoredAnswerIsServed` (no timeout over an answer stored in time), `StopAnswers`; `NothingLeftBehind`: neither row nor slot outlives a request for ever | 2 requests, 1 slot, a wait of 2, a grace of 3, statements of up to 1 tick, 1 fault |
| `Members` | `OrgKeepsAdmin`: the last administrator goes only where two such requests cross; `DeadTokenAdmitsNobody` | 2 people, 2 requests at a time of 4, 2 tokens |
| `Workspace` | `AdmittedAsChecked` = `NeverOntoItself`, `ActiveBounded`; `HistoryKept` | 1 connection, 2 databases, 1 definition, 2 launchers, limit 1, 3 runs, 2 edits |
| `Comparison` | `StoredCountsAreTrue` = `SucceededHasCounts`, `AllMatchedIsTrue` | 2 tables of up to 2 rows, 1 write by others, 1 fault |
| `Review` | `LaunchFollowsPreview`, `UrlNamesResult` | 4 connections of 3 engines, 3 choices, 1 edit; 3 comparisons |

`ActiveBounded` says that overlapping launches pass the limit by one for each further
launcher at most: with a limit of one and two launchers two runs may be active, and a third
is what the launch that counts must refuse. The two ends of a launch are read by two
statements in either order (`ReadConnection`), between which connections may be edited. In
`MCConsole` launches overlap, and there are as many runs as may be, only where nothing is
edited (`OverlapUnedited`), and the last choice of the pages is made only where nothing was
saved (`LastPickUnedited`).

What these except, and the code does:

- Two demotions or removals at once orphan an organisation (`membership-rules.ts:12-16`
  says that every path asks first). An invitation sent while its addressee accepts
  another leaves a live token with a member, and readmits him once removed.
- A launch counts the active runs and then inserts: overlapping launches pass
  `maxConcurrentRuns` (`docs/runner-service-plan.md:58`). It resolves its databases
  twice. Two connections that name one database pass the check for a copy onto itself,
  and saving a definition compares names only (`definition-input.ts:88-90`).
  `connections/[id].delete.ts` advises archiving definitions, and archived ones still
  hold a connection.
- A comparison of no table is "all matched"; more rows in the destination count as a
  match; an answer of `complete()` that is lost turns a success into a failure; a dead
  process leaves `running` for ever.
- A probe whose request failed is left to the sweeper; a runner's stale row lets a
  request wait for nothing.
- A preview that arrives late is shown for another selection and enables the launch
  (`new.vue:17-20`). A definition that is edited between preview and launch runs as
  edited. A definition of mode query whose engines differ from those chosen before falls
  back to full on the page, which then offers what the server refuses with 422
  (`pair-capability.ts`: "the UI would offer something the API refuses"). "Any change of
  selection throws both answers away" (`compare.vue:172`) clears one of them.

### Bounds

Sums stop at their bounds and do not check deadlock. Bounds count users' steps
(launches, edits, choices, clicks), faults, and sizes (tables, events, ids); each
instance is the smallest in which two of every contending actor meet, a page is full,
a cap is reached, and one fault falls between any two steps.

### Fairness

`RunQueue`: time passes, a sweep is repeated (the plugin's
interval), an agent's claim loop, watchdog and beats go on (interval timers
and the poll, `runner-agent.ts:135-144`) with the database answering, and an
agent deals with the messages and exit of its children. A child that was told to
stop comes to a boundary and ends. Nothing forces a NOTIFY to arrive, an agent to
die or restart, or a migration to end by itself; only `FairFiniteSpec` adds the
latter. Everything is weak fairness, here and below: none of these actions is disabled
and enabled for ever by what it waits for.

`EventPipeline`: the writer's timer fires and the
database answers; what a child left behind is read from its channel and its
exit observed (Node delivers both); a follower ticks and reads; the
sweeper sweeps. Messages of a killed child need not arrive. A run need not go on,
nor an agent come back: then the sweeper settles the run, which is why
`EventuallyStored` excepts runs that somebody else settled.

`Migration`: the orchestrator, the migrator and the threads each go on: statements are
answered, with success or an error. An abort need not come. `RunStream`: something is
done as long as there is something to do; each worker has finitely much of it. No fault
need come. `Fleet`: timers fire, calls return, each agent's heartbeats and claims go on,
its runs end; no click, no failure. `Probes`: the clock, the sweeper, every statement and
the expiry of a job; a database that is asked about may never answer, and no process need
come back.

## 4. Proofs

### The queue

For every number of agents, runs, beats, destinations, every lease, margin and
interval that satisfy `QueueAssumption`:

| Theorem | Says |
|---|---|
| `TypeCorrect` | `Spec => []TypeOK` |
| `Inductive` | `Spec => []IInv` |
| `OneActive` | `Spec => []OneActivePerDestination` |
| `Fenced` | `Spec => []FencedInTime` |
| `Single` | `Spec => []SingleWriter` |
| `LaunchHeld` | `Spec => LaunchOnlyHeld` |
| `Implements` | `Spec => ImplementsLock`: initial states map to initial states, every step to a step or a stutter |
| `LockIsExclusive` | `DestinationLock!Spec => []Exclusive` |

**The argument.** `FencedInTime` relates the ledger to a child; an agent cannot
see the ledger, only when it *sent* the request that renewed the lease. So the
invariant says how far the two may be apart:

- `ClaimInv`, `BeatInv`: a request in flight that the database has run is no
  older than the lease it stamped (`lease >= Lease - age`);
- `OwnedInv`: so is a renewal the agent remembers;
- `FenceInv`: while a child executes and is attached, its run is active and has at
  least `Margin + 1 - check` ticks left, `check` being the time since the
  watchdog last looked. Right after the watchdog this is the fence's margin; a
  tick takes one from both sides; `check <= Check <= Margin + 1` keeps it from
  going below zero;
- a recovered run (`owned = Never`) is exempt until a beat confirms it, and the
  beat that may do so was sent after the watchdog last looked (`OwnedInv`), or
  the watchdog would have fenced it;
- `UnclaimedInv`, `DownInv`, `AgentInv` say that only a living agent's runs have
  children attached, and `OneActivePerDestination` is inductive with them: the
  steps that make a run active (`CommitClaim`, `StoreStarted`) look at the
  unique index (`OneActiveStep`).

`LaunchOnlyHeld` and `SingleWriter` follow. The refinement maps a destination's
holders to its active runs and its writers to the children vouched for; a step
that frees a destination has to show that nobody vouched for writes there, which
is `FencedInTime` before and after the step.

### The event pipeline

For every script, cap, and number of failures, deaths and cancels:

| Theorem | Says |
|---|---|
| `PipelineTyped` | `Spec => []TypeOK` |
| `NobodySettlesALiveRun` | `Spec => []SettledIsIdle`, whatever fails |
| `NothingIsHeldWithAGap` | `Spec => []GapInv`, if no write fails |
| `NoGapBelowTheCursor` | `Spec => []NoGap`, if no write fails |
| `PipelineImplementsLog` | `Spec => ImplementsLog`, if no write fails |

The hypothesis `"write" \notin Faulty` is needed: a dropped batch leaves a gap below
the cursor as soon as the next is committed (section 3).

**The argument.** `NoGap` alone is not inductive: a commit moves the cursor to the
last event of its batch, so the batch must bring everything up to that event
that is not stored. `GapInv` says so of what is on its way: a batch in flight, or
on its way from a dead agent, together with what is stored has no gap below any
of its events (`BatchInv`); neither has the buffer, with what is in flight and
stored; one transaction is in flight at a time (`SerialInv`), or the buffer would
be written before what it rests on; and what was heard or read is held
(`ReadInv`), so the next event leaves no gap. A restarted agent starts at the
cursor, where `NoGap` itself says that nothing is missing. A late COMMIT is
closed over what was stored when it was sent, and that only grows. `TopInv`
(nothing is stored above the cursor) makes the readers' view exactly a prefix,
and with it every step is a step of `EventLog` or none. `SettledIsIdle` follows
from `EndSeenInv`: whoever is about to settle has seen the process end.

`VanishedIsExplained` (`ExplainedOutcome`) and `PassesAreComplete` are for
`MaxDeaths <= 1` and no failed read or write, which is where the property is true
(section 3). `OutcomeInv`: until the first restart events arrive and are written in
their order (`InOrderInv`, `FirstAgentInv`), so a stored `run_finished` has all before
it stored; a pass that has found no outcome up to its cursor, over a journal that grows
no more, ends at its last line (`PassInv`). `FinishedTableStaysFinished` is
`Spec => TableStaysDone`, the safety half of `RunIsRecorded`, for any failures and
deaths. `PipelineAssumption` has `StartsFirst`: a run says that it started before it
says how it ended (`migration-orchestrator.service.ts:83`).

### The core

| Theorem | Says |
|---|---|
| `PlanVisitsEachTableOnce` | both orders of `Plan` are bijections, for every finite set of tables |
| `ParentsComeFirst` | `PlanOrdersParents`: the cyclic tables are those no order can satisfy, and every other table comes after what it refers to |
| `UndoInductive` | `MigrationSpec => []UndoInv` |
| `PlanLetsUndo` | `MigrationSpec => []PlanCarries` |
| `MigrationInductive` | `MigrationSpec => []MigrationInv` |
| `OutcomesAreTrue` | `MigrationSpec => []ReportIsTrue` |
| `SuccessMeansComplete` | `MigrationSpec => []SuccessIsComplete` |
| `TablesAreTold` | `MigrationSpec => []TableToldOnce` |
| `InsertsAreFree` | `SyncSpec => []NextIdFree` |
| `PreviewInductive` | `SyncSpec => []PreviewInv` |
| `PreviewIsRight` | `SyncSpec => []PreviewForetells` |
| `SharedNeverLost` | `SyncSpec => []SharedStays`: the tables and columns of `KeepsShared` |
| `KeepsAllShared` | `NamesAgree /\ SyncSpec => []KeepsShared`: its keys and indexes too |

For every number of tables, threads, batches and faults, every graph of references and
all estimates. `MigrationInv` has one part per question. `ControlInv`: which phases belong to which
step, and that the guards may be off between two steps only. `GuardInv`: a guard that is
down is before the loop that raises it. `PoolInv`: a thread lives while the orchestrator waits for its
pool, or after a failure, never after a cancel. `EarlyInv`: after an early cancel the
signal is read again before the first row is touched. `DataInv`: a table with a good
result is full, and no other table's turn takes its rows; where tables are cleared at their
turn by a TRUNCATE that cascades (SQL Server to PG), a copy of a table with rows never
succeeds (the missing `await`), so that no full one is there to be emptied. `CoverInv`: a table has its result, or
is before the migrator or before exactly one thread, unless somebody cancelled; hence a
pool that ends has missed none. `TellInv`: what was told of a table with an inexact
estimate is a function of its result. The planner's theorem is needed for the first:
a loop over an order visits every table once. That the order can be chosen at all (a
finite set with a strict total order can be listed) is proved by taking a smallest
subset for which it could not.

*The plan.* Its levels are a recursive function, and what is on a level has its parents
below it. A table is on no level exactly when the tables above it (the smallest set closed
under `Parents`) hold one that is above itself, which the recursion reaches after as many
steps as there are tables (`ParentsComeFirst`). `UndoInv` carries that through a run into SQL
Server, which keeps its foreign keys while it is filled: as long as nothing has failed, the
tables the loop has still to visit refer to none before which they stand (`LoopInv`), those
behind it are full and those ahead empty, so that whenever the signal is looked at every row
has what it refers to (`AllBacked`), and the compensation of a cancel is not refused.

*The schemas.* For every two databases an inspector can report (`IsDatabase`: columns are of
tables that are there, no table has two of a name), of any number of tables, and for every
sequence of runs that are refused, fail, are rolled back or end well. A statement of a
run's script is what its difference means (`Tells`, `Means`): a new table has the source's columns,
a dropped column is one the source does not have. The difference is what an inspection of both
sides calls for (`Foretold`), whatever the engines do to keys and indexes. `PreviewInv` then
has two halves. `SoundRun`, of every moment: each column of the destination was there when the
run began, with its type or the one an alteration gives it, or is one the run was to add
(`Whence`), and what both sides had is there (`Kept`). `FullRun`, of a run that is going on or ended well:
each table to create is there or its statement is still to run, each alteration is done or
still to be done (`Covered`). At the end of the script nothing is still to be done, and
`PreviewForetells` follows.

*Keys and indexes.* `KeepsShared` in full is true only where one name is of one thing on both
sides (`NamesAgree`): the diffs compare names, so that a key of the destination on a column
the source lacks goes with the column though the source has a key of that name, and is not
made again in that run. `NamesAgree` says it of what the runs begin with (`Legible` of a source,
`Agrees` of it and a destination), and TLC evaluates it on the databases of `Shapes`.
`KeysSound` carries it through every statement: each does to keys and indexes one of a few
things (`Follows`): it adds one of the source's, drops one the source does not have, or takes
what is on a column the source does not have (`Astray`). So what both sides had stays
(`KeysHeld`), and names still agree after it (`AgreesOn`). The hard part is an index of the
source that has the name of one of its unique keys, as PostgreSQL reports it: made before the
key, it would take the key's name. Hence the rest of `KeysSound`: each unique key of the source
is there or its statement is still to run and may not be skipped (`Makes`), and all are there
when the indexes' turn comes (`HasUniques`). Off PostgreSQL an index named like a constraint
is not reported; the third part of `KeysHeld` says where a constraint can get a name from.

`NextIdFree` rests on `CounterInv`: when a run comes to its counters, those of MySQL and SQL
Server are past the ids, and PG's is then set by what the rows and the source say.

### The pages and the runners

| Theorem | Says |
|---|---|
| `NothingIsMissing` | `StreamSpec => []NoServerGap`, by `StreamInductive` |
| `PageShowsTheRows` | `RunViewSpec => []ViewAgrees`, by `ViewInductive` |
| `PagesAlwaysMeet` | `LedgerSpec => []PagesMeet`, by `LedgerInductive` |
| `FleetNeverPassesItsCap` | `FleetSpec => []CapHolds`, by `FleetInductive` |
| `ProbesAreAnswered` | `ProbeSpec => []AnswersReachTheUser`, by `ProbesInductive` |
| `RoomsAgree` | `WatchSpec => []RoomAgrees`, by `WatchInductive` |

- *Stream*: a cursor is not ahead of the ledger and the page it has read has no hole
  (`CursorInv`), and a socket that was tracked keeps its cursor (`TrackedInv`); so what a
  socket gets between its snapshot and the cursor is whole, for any number of browsers,
  events and reads.
- *View*: the agent and the page take events by different rules, so neither fold is
  compared with the other but both with what a set of events tells (`TableTells`,
  `StepTells`, `RunTells`): the end of a table if it is among them, else `running` if a
  sample is, else what the plan says. Where events stand and that nothing ends twice is
  `JournalInv`: with it one set tells one thing. The rows tell of the events up to their
  seq (`RowInv`). The page tells of the events up to its seq *and* up to where the rows
  stood when its snapshot read them, which may be later (`PageInv`, `OpeningInv`): applying
  an event again on top of a row that had it changes nothing, or is made good by the event
  that ends the table. At the row's own seq the two sets are one. The status is the
  event's, or was read of a row that was over, which it stays (`OutcomeStays`). A batch
  and a frame are folds: their recursive functions are unfolded at the parts of a finite
  range (`FoldSteps`), and what holds before and after each step holds at the end
  (`Reaches`). No bound of `pages.cfg` is used: any number of tables and samples, samples
  that come after the end in any order, any batches, repeated frames and late snapshots.
- *List*: what is shown, and what is shown once a page on its way has come, fits the rows
  of now (`Fits`): in their order, each a row that is there; and of the runs that were there
  when the first page was read each that still matches the filter is among them, or older
  than all of them and the cursor is left to find it, or was passed over where a page ended.
  Rows that are inserted and runs that end leave that true (`FitsLater`), the next page
  continues it at the cursor; it is said while no other request crossed a `loadMore`
  (`calm`). A cursor is an instant no later than its row's and the row's id, so that what it
  finds is older than what is shown (`CursorPasses`): a run is repeated at no precision of
  the clock. What it misses is exactly `PassedOver` (`CursorMeets`): of the row's own
  millisecond, and not of its first microsecond with a lesser id. A page is the beginning
  of a sorted set, `Ordered`, of which it is proved that every finite set of runs has one.
- *Fleet*: `CapHolds` is not inductive, as a replica counts containers before it creates
  one. `CapInv` counts a replica that has counted as the container it will create:
  containers and such replicas are at most the cap plus the other replicas. The clone it
  starts is its own and still as it was created (`StartInv`).
- *Probes*: per request, whether an answer was in time, whether its row outlives the
  statements it still needs, and whether what is stored will be read (`Timely`, `Stands`,
  `WillBeRead`), in ticks. The row stands because its grace is more than two delays
  of a statement (`ProbeAssumption`): one between the insert and the request learning of it,
  one for the last look.
- *Rooms*: `RoomAgrees` speaks of rest; `ShownInv` says the same of every moment, of all
  who do not wait: whoever is in a room that has seen a frame shows it. It is kept because a frame goes
  to all of a room, because whoever moves empties the memory of the room it comes into,
  and because who waits is one of its room only, unless it was moved (`ReadingInv`).
  `Revalidate` treats subscriptions one after another in an order nobody chooses
  (`FoldSet`); `AllTreated` says what any such order does to the rooms. `WatchAssumption`
  has `IsFiniteSet(Socket)` for that. `RoomIds` bounds the room objects: a socket that
  finds none free waits (`Housed`), as the code would make a new one.

### The console

| Theorem | Says |
|---|---|
| `AdminsStay` | `MembersSpec => []OrgKeepsAdmin`, by `MembersInductive` |
| `NobodyJoinsByADeadToken` | `MembersSpec => DeadTokenAdmitsNobody` |
| `ComparisonsTellTheTruth` | `ComparisonSpec => []StoredCountsAreTrue`, by `ComparisonInductive` |
| `LaunchesAreAdmittedAsChecked` | `WorkspaceSpec => []AdmittedAsChecked`, by `WorkspaceInductive` |
| `HistoryStays` | `WorkspaceSpec => HistoryKept` |
| `LaunchIsWhatWasSeen` | `ReviewSpec => []LaunchFollowsPreview`, by `ReviewInductive` |
| `UrlIsWhatIsShown` | `ReviewSpec => []UrlNamesResult` |

- *Members*: beside the one a request is about to lower there is another administrator,
  unless two such requests crossed (`AdminInv`); a pending invitation has a token that is
  not dead, and who redeems it holds its row (`TokenInv`, `RedeemInv`).
- *Comparison*: while nobody writes, what is listed and counted is what is there
  (`CountedInv`); a row that says "succeeded" was written from complete counts, and the
  handler that wrote it can only fail to say so (`SettledInv`). "All matched" of the
  totals needs sums over finite sets of tables: that two folds that add up agree, and that sums of at
  most the same add to at most the same.
- *Workspace*: a launch that was resolved names two databases (`ResolvedInv`); a launch
  that has counted counts as the run it will insert (`RoomInv`).
- *Review*: a preview that was not late is of what is chosen, one being made of what its
  request named, what is sent of what was seen (`AnswerInv`, `ShownInv`, `SentInv`); what is
  shown is what the URL names, or an answer for the URL is on its way (`CompareInv`).

### Assumptions and induction

Theorems hold for all constants that satisfy the named assumptions of their modules,
which TLC evaluates in the runs. Induction theorems of the library take an operator as a
parameter, which no installed prover instantiates. What is needed of finite sets is
proved without them: the subsets of a finite set that violate a statement have a smallest
member (`SmallestSet`, from the finiteness of the set of subsets), which must be empty or
have one element more than one that satisfies it. The folds of the community modules are
recursive functions and unfold by their definitions. `RunViewAssumption` has
`IsFiniteSet(Copied)`: a plan is a list of tables.

### Only model-checked

- All liveness, and with it `ENABLED`, which are out of the prover's reach: `RunsSettle`, `EveryRunSettles`, the
  liveness of `RunIsRecorded`, `RunEnds`, `EventuallyCurrent`, `QueuedRunIsServed`,
  `NothingLeftBehind`; and `DemotionTakesEffect`.
- `KeepsShared` of databases in which one name is of different things on the two sides: it is
  not true of them (see *Keys and indexes*).
- `Converges` compares what two whole scripts leave with what a third would find, keys and
  indexes included, and `ExplainedRefusal` names the reasons that the databases of `Shapes`
  can meet.

## 5. Not modelled

- Encryption of run specs and their parsing: cryptography and pure functions.
- The command line: prompts and output around the orchestrator.
- The mode that copies the result of one query; the inspection of enums, sequences of
  no column, defaults, lengths and nullability; conversions of values, paging and
  back-pressure of the copy.
- The refresh button, adoption of a run and retry of the run page; two catch-ups of one
  page that overlap; the counts of rows that `RunView` leaves out; the REST fallback of
  `useRunnerStatus`, whose late answer may overwrite a newer snapshot; the drift on the
  compare page; its other panels, forms and wording.
- Several runner classes and their choice at a launch; the manual provisioner; the
  retention of rows; the cap on organisations one person creates; tests of a connection,
  whose result may be stored after an edit.
- An asynchronous `error` of a fork; the two moments of a heartbeat statement (`now()` and
  commit); the stall report, which only reports.

## 6. Plan

1. *Done:* `RunQueue`, `DestinationLock`, invariant and proofs.
2. *Done:* `EventPipeline`, `EventLog`, invariants and proofs.
3. *Done:* the core (`TablePlanner`, `Migration`, `SchemaSync`, `Preview`), the pages
   (`RunStream`, `RunView`, `Ledger`), `Fleet`, and the console (`Probes`, `Members`,
   `Workspace`, `Comparison`, `RunnerWatch`, `Review`).
4. *Done:* the invariants of `Migration`, `RunStream`, `RunView`, `Fleet`, `Probes`,
   `RunnerWatch` and the console, and the counters of `SchemaSync`, for all constants.
5. *Done:* the planner's cyclic tables and `PlanCarries`; `PagesMeet`; what each statement
   of a synchronisation keeps, and with it `PreviewForetells` and `KeepsShared`.
6. `RunQueue` refined: a statement split into start and write, a fork that fails late.
