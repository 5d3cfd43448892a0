------------------------------ MODULE Migration ------------------------------
(* packages/core: one migration, from validate_connections to run_finished:
   the orchestrator's nine steps, the data migrator of each pair of engines,
   the pool of worker threads of PG to PG, and what a user's cancel, a
   statement that fails or a thread that dies does to the destination.

   Rows come in batches: table t of the source has job.rows[t] of them, and the
   estimate of a table is counted in batches too.  dest[t] says what the
   destination's table holds: rows of before the run (old) and the number of
   batches copied (new).  guards[t] is the state that outlives the session: PG's
   triggers and MSSQL's constraints; MySQL's flag is the session's. *)
EXTENDS TablePlanner, FiniteSets

CONSTANTS
  Jobs,        \* [src, dst : engines, refs : foreign keys, rows, est : batches, old : BOOLEAN]
  N,           \* the tables are 1 .. N
  MaxWorkers,  \* MAX_WORKERS
  MaxFaults    \* statements that fail, connections that break, threads that die

ASSUME SizesAreNat == N \in Nat \ {0} /\ MaxWorkers \in Nat \ {0} /\ MaxFaults \in Nat

Tables == 1 .. N
TableNames == [t \in Tables |-> t]
Workers == 1 .. MaxWorkers
Engines == {"pg", "mysql", "mssql"}

ASSUME JobsAreMigrations ==
  Jobs \subseteq [src : Engines, dst : Engines, refs : SUBSET (Nat \X Nat),
                  rows : [Tables -> Nat], est : [Tables -> Nat], old : BOOLEAN]

\* MIGRATION_STEP_ORDER; the steps not named here are plain: they run or fail.
LastStep == 9
DisableStep == 5
DataStep == 6
EnableStep == 7

VARIABLES
  job,         \* what is asked
  step,        \* the step under way or next
  phase,       \* what the orchestrator or the migrator does in it
  left,        \* tables its loop has still to visit
  done,        \* batches copied of the table at its head
  plan,        \* the plan of the tables, once made
  dest, guards,
  mayBeOff,    \* triggersDisabled of the orchestrator
  results,     \* TableMigrationResult.success, by table: none, ok, failed
  told,        \* the table_finished events, by table
  worker,      \* the threads of the pool
  terminated, listening, \* the pool's flag, and whether an abort reaches it
  aborted,     \* the signal, and where the run was when it came
  undone,      \* the compensation of a cancelled run: none, tried, failed
  outcome,     \* status of run_finished
  faults

copyVars == <<dest, results, told>>
poolVars == <<worker, terminated, listening>>
loopVars == <<step, phase, left, done, plan>>
endVars  == <<mayBeOff, undone, outcome>>
migrationVars == <<job, loopVars, copyVars, guards, poolVars, endVars, aborted, faults>>

-----------------------------------------------------------------------------
(* The pair of engines decides how data is moved. *)

IsPool  == job.src = "pg" /\ job.dst = "pg"
\* Each table is cleared at its turn; otherwise the whole set is, first.
PerTable == job.src # job.dst /\ "mssql" \in {job.src, job.dst}
\* copyMssqlToPg and copyMssqlToMysql return a promise without waiting for it:
\* their finally ends the connections the copy is using.
EndsEarly == job.src = "mssql" /\ job.dst # "mssql"
Persistent == job.dst # "mysql"

Empty(t) == ~dest[t].old /\ dest[t].new = 0
Emptied == [old |-> FALSE, new |-> 0]

\* Tables emptied with t by TRUNCATE ... CASCADE: those that refer to it.
Cascade(t) == {t} \cup {c \in Tables : t \in Ancestors(Tables, job.refs, c)}

\* WITH CHECK CHECK CONSTRAINT surely holds on t; otherwise the rows decide.
Backed(t) ==
  \/ Empty(t)
  \/ \A p \in {r[2] : r \in {r \in job.refs : r[1] = t /\ r[2] \in Tables}} :
        \/ dest[t].old /\ dest[p].old
        \/ ~dest[t].old /\ ~dest[p].old /\ dest[p].new = job.rows[p]

Fault == faults < MaxFaults /\ faults' = faults + 1

-----------------------------------------------------------------------------
(* The orchestrator: ends of a step and of the run. *)

Goto(p, l) == phase' = p /\ left' = l /\ done' = 0
NextStep == step' = step + 1 /\ Goto("step", <<>>)
Finish(s) == outcome' = s /\ Goto("over", <<>>) /\ UNCHANGED step

\* run()'s catch: only a cancellation switches the guards back on.
Throw(s) ==
  IF s = "cancelled" /\ mayBeOff
  THEN Goto("undo", TableNames) /\ UNCHANGED <<step, outcome>>
  ELSE Finish(s)

\* migrate()'s finally of MSSQL to MSSQL: checkAllTables, best effort.
Leave ==
  IF job.src = "mssql" /\ job.dst = "mssql"
  THEN guards' \in {g \in [Tables -> BOOLEAN] : \A t \in Tables : Backed(t) => g[t]}
  ELSE UNCHANGED guards

\* throwIfCancelled.
CancelHere == Leave /\ Throw("cancelled")

\* step(): the check at the start of every step.
CancelBeforeStep ==
  /\ phase = "step" /\ step # DisableStep /\ aborted # "no"
  /\ Throw("cancelled")
  /\ UNCHANGED <<job, plan, copyVars, guards, poolVars, mayBeOff, undone, aborted, faults>>

\* Connections, the database, the schema, the indexes, the sequences; and, of the
\* last step, run_finished, which looks at every result that there is.
PlainStep ==
  /\ phase = "step" /\ aborted = "no"
  /\ step \notin {DisableStep, DataStep, EnableStep}
  /\ \/ /\ IF step = LastStep
           THEN Finish(IF \A t \in Tables : results[t] # "failed" THEN "succeeded" ELSE "failed")
           ELSE NextStep /\ UNCHANGED outcome
        /\ UNCHANGED faults
     \/ Fault /\ Throw("failed")
  /\ UNCHANGED <<job, plan, copyVars, guards, poolVars, mayBeOff, undone, aborted>>

\* triggersDisabled is set before the step looks at the signal.
StartDisable ==
  /\ phase = "step" /\ step = DisableStep
  /\ mayBeOff' = TRUE
  /\ Goto(IF aborted = "no" THEN "disable" ELSE "undo", TableNames)
  /\ UNCHANGED <<job, step, outcome, plan, copyVars, guards, poolVars, undone, aborted, faults>>

\* One statement for each table.  MySQL's single one, on the session, is none
\* of the guards modelled here.
DisableTriggers ==
  /\ phase = "disable"
  /\ \/ /\ guards' = [guards EXCEPT ![Head(left)] = ~Persistent]
        /\ IF Len(left) = 1 THEN NextStep
           ELSE Goto("disable", Tail(left)) /\ UNCHANGED step
        /\ UNCHANGED <<outcome, faults>>
     \/ Fault /\ Throw("failed") /\ UNCHANGED guards
  /\ UNCHANGED <<job, plan, copyVars, poolVars, mayBeOff, undone, aborted>>

StartEnable ==
  /\ phase = "step" /\ step = EnableStep /\ aborted = "no"
  /\ Goto("enable", TableNames)
  /\ UNCHANGED <<job, step, plan, copyVars, guards, poolVars, endVars, aborted, faults>>

\* PG enables its triggers without a look at the rows; MSSQL checks them.
Reenabled(t) == guards' = [guards EXCEPT ![t] = TRUE]
Refused(t)   == job.dst = "mssql" /\ ~Backed(t) /\ UNCHANGED faults

EnableTriggers ==
  /\ phase = "enable"
  /\ \/ /\ Reenabled(Head(left))
        /\ IF Len(left) = 1 THEN NextStep /\ mayBeOff' = FALSE
           ELSE Goto("enable", Tail(left)) /\ UNCHANGED <<step, mayBeOff>>
        /\ UNCHANGED <<outcome, faults>>
     \/ /\ Fault \/ Refused(Head(left))
        /\ Throw("failed") /\ UNCHANGED <<guards, mayBeOff>>
  /\ UNCHANGED <<job, plan, copyVars, poolVars, undone, aborted>>

\* The compensation is the same loop, and its failure only a warning.
Compensate ==
  /\ phase = "undo"
  /\ \/ /\ Reenabled(Head(left))
        /\ IF Len(left) = 1 THEN Finish("cancelled") /\ undone' = "tried"
           ELSE Goto("undo", Tail(left)) /\ UNCHANGED <<step, outcome, undone>>
        /\ UNCHANGED faults
     \/ /\ Fault \/ Refused(Head(left))
        /\ Finish("cancelled") /\ undone' = "failed" /\ UNCHANGED guards
  /\ UNCHANGED <<job, plan, copyVars, poolVars, mayBeOff, aborted>>

-----------------------------------------------------------------------------
(* migrate_data: plan, clear. *)

StartData ==
  /\ phase = "step" /\ step = DataStep /\ aborted = "no"
  /\ \/ plan' = Plan(Tables, job.refs, job.est) /\ Goto("open", <<>>)
        /\ UNCHANGED <<step, outcome, faults>>
     \/ Fault /\ Throw("failed") /\ UNCHANGED plan
  /\ UNCHANGED <<job, copyVars, guards, poolVars, mayBeOff, undone, aborted>>

\* The connections are there: the last look at the signal before the clearing.
Open ==
  /\ phase = "open"
  /\ \/ /\ ~PerTable /\ aborted # "no"
        /\ CancelHere /\ UNCHANGED faults
     \/ /\ ~PerTable /\ aborted = "no"
        /\ Goto("clear", plan.cleanupOrder) /\ UNCHANGED <<step, guards, outcome, faults>>
     \/ /\ PerTable
        /\ Goto("copy", plan.loadOrder) /\ UNCHANGED <<step, guards, outcome, faults>>
     \/ Fault /\ Leave /\ Throw("failed")
  /\ UNCHANGED <<job, plan, copyVars, poolVars, mayBeOff, undone, aborted>>

Clear(ts) == dest' = [t \in Tables |-> IF t \in ts THEN Emptied ELSE dest[t]]
AfterClear == IF IsPool THEN Goto("spawn", <<>>) ELSE Goto("copy", plan.loadOrder)

\* truncatePgTables: one TRUNCATE; refused, one DELETE after another instead.
ClearPg ==
  /\ phase = "clear" /\ job.dst = "pg"
  /\ \/ Clear(Tables) /\ AfterClear /\ UNCHANGED <<step, outcome, faults>>
     \/ /\ Fault /\ Throw("failed")
        /\ \E k \in 0 .. N - 1 : Clear(ToSet(SubSeq(plan.loadOrder, 1, k)))
  /\ UNCHANGED <<job, plan, results, told, guards, poolVars, mayBeOff, undone, aborted>>

\* MySQL with its checks off, MSSQL with its constraints off: table by table.
ClearTable ==
  /\ phase = "clear" /\ job.dst # "pg"
  /\ \/ /\ Clear({Head(left)})
        /\ IF Len(left) = 1 THEN AfterClear ELSE Goto("clear", Tail(left))
        /\ UNCHANGED <<step, guards, outcome, faults>>
     \/ Fault /\ Leave /\ Throw("failed") /\ UNCHANGED dest
  /\ UNCHANGED <<job, plan, results, told, poolVars, mayBeOff, undone, aborted>>

-----------------------------------------------------------------------------
(* migrate_data: the sequential migrators. *)

\* The progress callback of MigrateDataUseCase: a report of (n, n) is taken for
\* the end of the table.
Report(t, n, total) ==
  told' = [told EXCEPT ![t] = IF total > 0 /\ n = total THEN Append(@, TRUE) ELSE @]

\* Mutant: every result is told, also of tables told while they were copied.
TellAll(res, said) ==
  [t \in Tables |-> IF res[t] # "none" THEN Append(said[t], res[t] = "ok") ELSE said[t]]

\* MigrateDataUseCase after migrate(): the tables nobody spoke of yet.
TellTheRest(res, said) ==
  [t \in Tables |-> IF said[t] = <<>> /\ res[t] # "none" THEN <<res[t] = "ok">> ELSE said[t]]

EndData(res, said) ==
  told' = TellTheRest(res, said) /\ NextStep

\* The result of a table is in, and the signal is looked at again.
EndTable(t, ok) ==
  LET res  == [results EXCEPT ![t] = IF ok THEN "ok" ELSE "failed"]
      said == [told EXCEPT ![t] = IF ok /\ job.rows[t] > 0 THEN Append(@, TRUE) ELSE @]
  IN  /\ results' = res
      /\ \/ aborted # "no" /\ Throw("cancelled") /\ told' = said
         \/ /\ aborted = "no" /\ Len(left) > 1
            /\ Goto("copy", Tail(left)) /\ told' = said /\ UNCHANGED <<step, outcome>>
         \/ aborted = "no" /\ Len(left) = 1 /\ EndData(res, said) /\ UNCHANGED outcome

\* MSSQL on either side: the finally of a copy into MSSQL checks the table,
\* and what it throws replaces what the copy returned or threw.
EndCopy(t, ok) ==
  IF PerTable /\ job.dst = "mssql"
  THEN \/ Reenabled(t) /\ EndTable(t, ok)
       \/ ~Backed(t) /\ UNCHANGED guards /\ EndTable(t, FALSE)
  ELSE (IF Len(left) = 1 \/ aborted # "no" THEN Leave ELSE UNCHANGED guards) /\ EndTable(t, ok)

\* A constraint of another table still holds its rows: DELETE is refused.
Held(t) == \E c \in Tables \ {t} : <<c, t>> \in job.refs /\ guards[c] /\ ~Empty(c)

\* MSSQL on either side: connections, the constraints and the clearing may each
\* fail, which leaves the rows of before; only past the connections is there a
\* finally.
StartFails(t) ==
  /\ Fault /\ UNCHANGED dest
  /\ \/ EndCopy(t, FALSE)
     \/ UNCHANGED guards /\ EndTable(t, FALSE)

StartTable ==
  LET t == Head(left) IN
  /\ phase = "copy"
  /\ \/ /\ aborted # "no" /\ CancelHere
        /\ UNCHANGED <<dest, results, told, faults>>
     \/ /\ aborted = "no" /\ ~PerTable
        /\ phase' = "table" /\ UNCHANGED <<left, done, step, guards, outcome, copyVars, faults>>
     \/ /\ aborted = "no" /\ PerTable
        /\ Clear(IF job.dst = "pg" THEN Cascade(t) ELSE {t})
        /\ guards' = [guards EXCEPT ![t] = IF job.dst = "mssql" THEN FALSE ELSE @]
        /\ phase' = "table" /\ UNCHANGED <<left, done, step, outcome, results, told, faults>>
     \/ /\ aborted = "no" /\ PerTable /\ job.dst = "mssql" /\ Held(t)
        /\ UNCHANGED <<dest, faults>> /\ EndCopy(t, FALSE)
     \/ aborted = "no" /\ PerTable /\ StartFails(t)
  /\ UNCHANGED <<job, plan, poolVars, mayBeOff, undone, aborted>>

\* MSSQL to MySQL: the batch was sent on the session before its release.
Goes == ~EndsEarly \/ job.dst = "mysql"

CopyBatch ==
  LET t == Head(left) IN
  /\ phase = "table" /\ aborted = "no" /\ done < job.rows[t] /\ Goes
  /\ dest' = [dest EXCEPT ![t].new = @ + 1]
  /\ done' = done + 1
  /\ Report(t, done + 1, job.est[t])
  /\ UNCHANGED <<job, step, phase, left, plan, results, guards, poolVars, endVars, aborted, faults>>

\* A cancel seen between two batches; the finally of a copy into MSSQL may
\* turn it into a failed table, and the check after the table sees it again.
CancelMidCopy ==
  /\ phase = "table" /\ aborted # "no"
  /\ \/ PerTable /\ job.dst = "mssql" /\ EndCopy(Head(left), FALSE)
     \/ ~(PerTable /\ job.dst = "mssql") /\ CancelHere /\ UNCHANGED <<results, told>>
  /\ UNCHANGED <<job, plan, dest, poolVars, mayBeOff, undone, aborted, faults>>

FinishTable ==
  /\ phase = "table" /\ done = job.rows[Head(left)]
  /\ EndCopy(Head(left), TRUE)
  /\ UNCHANGED <<job, plan, dest, poolVars, mayBeOff, undone, aborted, faults>>

\* Mutant: the error of a copy is swallowed.
FailTableQuietly ==
  /\ phase = "table"
  /\ Fault \/ (EndsEarly /\ UNCHANGED faults)
  /\ EndCopy(Head(left), TRUE)
  /\ UNCHANGED <<job, plan, dest, poolVars, mayBeOff, undone, aborted>>

\* A driver error: of the outside world, or of connections ended too early.
FailTable ==
  /\ phase = "table"
  /\ Fault \/ (EndsEarly /\ UNCHANGED faults)
  /\ EndCopy(Head(left), FALSE)
  /\ UNCHANGED <<job, plan, dest, poolVars, mayBeOff, undone, aborted>>

\* The promise nobody waits for yet is rejected: Node ends the process.
Crash ==
  /\ phase = "table" /\ EndsEarly
  /\ Finish("crashed")
  /\ UNCHANGED <<job, plan, copyVars, guards, poolVars, mayBeOff, undone, aborted, faults>>

-----------------------------------------------------------------------------
(* migrate_data: PG to PG, the pool of threads. *)

Gone == [st |-> "gone", left |-> <<>>]
Live == {w \in Workers : worker[w].st # "gone"}

\* chunkArray(tables, ceil(n / workers)).
ChunkSize == LET k == IF N < MaxWorkers THEN N ELSE MaxWorkers IN (N + k - 1) \div k
Chunk(w) == SubSeq(plan.loadOrder, (w - 1) * ChunkSize + 1,
                   IF w * ChunkSize < N THEN w * ChunkSize ELSE N)

\* WorkerPool.run: a signal that is already aborted terminates nobody, and its
\* listener will not be called.
SpawnWorkers ==
  /\ phase = "spawn"
  /\ terminated' = (aborted # "no") /\ listening' = (aborted = "no")
  /\ worker' = [w \in Workers |-> IF Chunk(w) = <<>> THEN Gone
                                  ELSE [st |-> "live", left |-> Chunk(w)]]
  /\ Goto("pool", <<>>)
  /\ UNCHANGED <<job, step, plan, copyVars, guards, endVars, aborted, faults>>

Advance(w) ==
  LET rest == Tail(worker[w].left)
  IN  worker' = [worker EXCEPT ![w] = IF rest = <<>> THEN Gone ELSE [@ EXCEPT !.left = rest]]

\* One COPY, and its table_done.
WorkerCopies(w) ==
  LET t == Head(worker[w].left) IN
  /\ worker[w].st = "live"
  /\ dest' = [dest EXCEPT ![t].new = job.rows[t]]
  /\ results' = [results EXCEPT ![t] = "ok"]
  /\ Report(t, job.rows[t], job.rows[t])
  /\ Advance(w)
  /\ UNCHANGED <<job, loopVars, guards, terminated, listening, endVars, aborted, faults>>

\* The rows counted so far are the estimate, and there are more.
WorkerReports(w) ==
  LET t == Head(worker[w].left) IN
  /\ worker[w].st = "live"
  /\ job.est[t] \in 1 .. job.rows[t] /\ told[t] = <<>>
  /\ Report(t, job.est[t], job.est[t])
  /\ UNCHANGED <<job, loopVars, dest, results, guards, poolVars, endVars, aborted, faults>>

WorkerFailsTable(w) ==
  /\ worker[w].st = "live" /\ Fault
  /\ results' = [results EXCEPT ![Head(worker[w].left)] = "failed"]
  /\ Advance(w)
  /\ UNCHANGED <<job, loopVars, dest, told, guards, terminated, listening, endVars, aborted>>

\* The thread dies: `error` always rejects, `exit` unless the pool is terminated.
\* The others go on, and no abort reaches them any more.
WorkerDies(w) ==
  /\ worker[w].st = "live" /\ Fault
  /\ worker' = [worker EXCEPT ![w] = Gone]
  /\ \/ phase = "pool" /\ listening' = FALSE /\ Throw("failed")
     \/ (phase # "pool" \/ terminated) /\ UNCHANGED <<step, phase, left, done, outcome, listening>>
  /\ UNCHANGED <<job, plan, copyVars, guards, terminated, mayBeOff, undone, aborted>>

\* worker.terminate(): the COPY under way is cut, or its end was already sent.
WorkerStops(w) ==
  LET t == Head(worker[w].left) IN
  /\ worker[w].st = "stopping"
  /\ worker' = [worker EXCEPT ![w] = Gone]
  /\ \/ dest' = [dest EXCEPT ![t].new = job.rows[t]]
     \/ UNCHANGED dest
  /\ UNCHANGED <<job, loopVars, results, told, guards, terminated, listening, endVars, aborted, faults>>

\* Mutant: a terminated pool does not wait for its threads.
PoolDoneEarly ==
  /\ phase = "pool" /\ (Live = {} \/ terminated)
  /\ listening' = FALSE
  /\ \/ aborted # "no" /\ Throw("cancelled") /\ UNCHANGED told
     \/ aborted = "no" /\ EndData(results, told) /\ UNCHANGED outcome
  /\ UNCHANGED <<job, plan, dest, results, guards, worker, terminated, mayBeOff, undone, aborted, faults>>

\* Mutant: the pool waits for the results of all tables instead of the threads.
PoolDoneByResults ==
  /\ phase = "pool" /\ \A t \in Tables : results[t] # "none"
  /\ listening' = FALSE
  /\ \/ aborted # "no" /\ Throw("cancelled") /\ UNCHANGED told
     \/ aborted = "no" /\ EndData(results, told) /\ UNCHANGED outcome
  /\ UNCHANGED <<job, plan, dest, results, guards, worker, terminated, mayBeOff, undone, aborted, faults>>

PoolDone ==
  /\ phase = "pool" /\ Live = {}
  /\ listening' = FALSE
  /\ \/ aborted # "no" /\ Throw("cancelled") /\ UNCHANGED told
     \/ aborted = "no" /\ EndData(results, told) /\ UNCHANGED outcome
  /\ UNCHANGED <<job, plan, dest, results, guards, worker, terminated, mayBeOff, undone, aborted, faults>>

-----------------------------------------------------------------------------
(* Around the run. *)

\* The user cancels; terminate() stops the threads of a pool that listens.
Abort ==
  /\ aborted = "no" /\ phase # "over"
  /\ aborted' = IF phase \in {"table", "copy", "pool", "spawn"} THEN "copying"
                ELSE IF phase = "clear" \/ step > DataStep THEN "late" ELSE "early"
  /\ IF phase = "pool" /\ listening
     THEN /\ terminated' = TRUE
          /\ worker' = [w \in Workers |-> IF worker[w].st = "live"
                                          THEN [worker[w] EXCEPT !.st = "stopping"] ELSE worker[w]]
     ELSE UNCHANGED <<worker, terminated>>
  /\ UNCHANGED <<job, loopVars, copyVars, guards, listening, endVars, faults>>

\* After run_finished main only sets its exit code: threads that live keep the
\* process, and go on as before, until they are through or the agent ends it all
\* with SIGKILL.
ProcessKilled ==
  /\ phase = "over" /\ Live # {}
  /\ worker' = [w \in Workers |-> Gone]
  /\ UNCHANGED <<job, loopVars, copyVars, guards, terminated, listening, endVars, aborted, faults>>

MigrationInit ==
  /\ job \in Jobs
  /\ step = 1 /\ phase = "step" /\ left = <<>> /\ done = 0
  /\ plan = [loadOrder |-> <<>>, cleanupOrder |-> <<>>, cyclicTables |-> {}]
  /\ dest = [t \in Tables |-> [old |-> job.old, new |-> 0]]
  /\ guards = [t \in Tables |-> TRUE]
  /\ results = [t \in Tables |-> "none"] /\ told = [t \in Tables |-> <<>>]
  /\ worker = [w \in Workers |-> Gone] /\ terminated = FALSE /\ listening = FALSE
  /\ aborted = "no" /\ mayBeOff = FALSE /\ undone = "none" /\ outcome = "running"
  /\ faults = 0

Orchestrator ==
  \/ CancelBeforeStep \/ PlainStep \/ StartDisable \/ DisableTriggers
  \/ StartEnable \/ EnableTriggers \/ Compensate
Migrator ==
  \/ StartData \/ Open \/ ClearPg \/ ClearTable \/ StartTable \/ CopyBatch
  \/ CancelMidCopy \/ FinishTable \/ FailTable \/ Crash
  \/ SpawnWorkers \/ PoolDone
Pool == \E w \in Workers :
  \/ WorkerCopies(w) \/ WorkerReports(w) \/ WorkerFailsTable(w) \/ WorkerDies(w) \/ WorkerStops(w)

MigrationNext == Orchestrator \/ Migrator \/ Pool \/ Abort \/ ProcessKilled

MigrationSpec == MigrationInit /\ [][MigrationNext]_migrationVars
\* Statements are answered and threads run: the driver's promises settle.
MigrationFairness ==
  WF_migrationVars(Orchestrator) /\ WF_migrationVars(Migrator) /\ WF_migrationVars(Pool)
-----------------------------------------------------------------------------
(* Properties. *)

\* A run that reports success has emptied every table of the destination of what
\* it held before and copied every batch of the source once: what the results of
\* the migrators, the clearing and the checks of the signal are for.
SuccessIsComplete ==
  outcome = "succeeded" =>
    \A t \in Tables : dest[t] = [old |-> FALSE, new |-> job.rows[t]]

\* Triggers and constraints are left switched off only by a run that broke with
\* an error of its own, or whose compensation was refused; never by a run that
\* succeeded, that failed on its tables only or that was cancelled otherwise.
GuardsRestored ==
  (outcome \in {"succeeded", "cancelled"} /\ undone # "failed") => \A t \in Tables : guards[t]

\* With no fault from outside, the compensation of a cancelled run is refused by
\* the database only if foreign keys form a cycle, a table failed, or the
\* migrator clears each table at its turn and had rows to clear: a child then
\* keeps rows whose parents are gone.  Otherwise rows are all removed first and
\* loaded after those they refer to.
CompensationHolds ==
  (undone = "failed" /\ faults = 0 /\ \A t \in Tables : results[t] # "failed")
    => \/ \E t \in Tables : t \in Ancestors(Tables, job.refs, t) \/ <<t, t>> \in job.refs
       \/ PerTable /\ job.old

\* When a run is reported cancelled nothing of it writes to the destination any
\* more (worker-pool.ts: Cancel once marked a run cancelled while four threads
\* carried on writing).
NoWriterAfterCancel == outcome = "cancelled" => Live = {}

\* A cancel that came before the migrator's last look at the signal leaves the
\* destination's rows alone.
EarlyCancelKeepsRows == aborted = "early" => \A t \in Tables : dest[t].old = job.old

\* A table whose estimate is not one of the counts its copy passes through is
\* told once, and with its true result, before a run ends by its results.
TableToldOnce ==
  (outcome = "succeeded" \/ step > DataStep) =>
    \A t \in Tables : job.est[t] \notin 1 .. job.rows[t] => told[t] = <<results[t] = "ok">>

\* A plan, once made, has every table once, a parent before its child unless the child is
\* on or below a cycle of foreign keys, and names exactly those as cyclic.
PlanOrdersParents ==
  phase = "open" =>
    /\ ToSet(plan.loadOrder) = Tables /\ Len(plan.loadOrder) = N
    /\ plan.cyclicTables = Unordered(Tables, job.refs)
    /\ \A t \in Tables \ plan.cyclicTables : \A p \in Parents(Tables, job.refs, t) :
          Place(plan.loadOrder, p) < Place(plan.loadOrder, t)

\* What the plan is for: its order lets a cancelled run be undone.
PlanCarries == PlanOrdersParents /\ CompensationHolds

\* What "succeeded" and "cancelled" are believed to mean for the destination: its guards
\* are up, nobody writes to it, and a cancel that came in time has cost it nothing.
ReportIsTrue == GuardsRestored /\ NoWriterAfterCancel /\ EarlyCancelKeepsRows

\* A run ends, whatever fails and whenever the user cancels.
RunEnds == <>(phase = "over")
=============================================================================
