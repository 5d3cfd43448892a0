------------------------------ MODULE RunView ------------------------------
(***************************************************************************)
(* One run, folded three times.  The engine's events go through a throttle *)
(* that holds some of them back and are numbered; the agent folds batches  *)
(* of them into the rows of the run (run-projection.ts, ingestion.ts); and *)
(* a page, opened at any time from a snapshot that is read row by row,     *)
(* folds the same events in the browser (run-reducer.ts).  Which events    *)
(* reach the agent, and the page, is EventPipeline's and RunStream's       *)
(* subject: here all do, in order.  Counts of rows are left out.           *)
(***************************************************************************)
EXTENDS Naturals, Sequences, SequencesExt, FiniteSets

CONSTANTS
  Copied,        \* the tables of the plan
  MaxSamples,    \* bound: progress reports of a table
  RecentEvents,  \* RECENT_EVENT_LIMIT, the events of a snapshot
  MaxSurprises   \* bound: cancel requests and settlements without an event

ASSUME RunViewAssumption ==
  IsFiniteSet(Copied) /\ MaxSamples \in Nat /\ RecentEvents \in Nat \ {0} /\ MaxSurprises \in Nat

VARIABLES
  engine,    \* what the engine does: new, planning, copying, ending, over
  samples,   \* progress reports of each table so far
  tablesTold,\* tables whose table_finished was emitted
  held,      \* the throttle: keys of which a sample is held back
  passed,    \* the throttle: keys of which a sample has gone through
  journal,   \* the events in the order of their seq
  row,       \* runs, run_steps and run_table_progress of this run
  view,      \* RunState of the page
  opening,   \* what the page's snapshot has read so far
  surprises,
  silent     \* history: the run was settled without an event

viewVars == <<engine, samples, tablesTold, held, passed, journal, row, view, opening, surprises, silent>>

Terminal == {"succeeded", "failed", "cancelled"}
TableOver == {"done", "failed"}
Event(type, on, status) == [type |-> type, on |-> on, status |-> status]
\* The sample of a key: of a table, or the overall one.
Held(key) == IF key = "run" THEN Event("overall_progress", "run", "none") ELSE Event("table_progress", key, "running")
Untold == [seq |-> 0, status |-> "queued", step |-> "pending", tables |-> [t \in Copied |-> "absent"]]

RunViewInit ==
  /\ engine = "new" /\ samples = [t \in Copied |-> 0] /\ tablesTold = {}
  /\ held = {} /\ passed = {} /\ journal = <<>>
  /\ row = Untold /\ view = <<>> /\ opening = <<>> /\ surprises = 0 /\ silent = FALSE

-----------------------------------------------------------------------------
(* The throttle and the sequencer: a sample goes through at once if none of *)
(* its key did for 250 ms, else it waits and takes the place of an older.    *)

\* The sample of the key, if it is one of these.
Of(keys, key) == IF key \in keys THEN <<Held(key)>> ELSE <<>>

\* Events that are no samples go straight through.
Pass(events) == journal' = journal \o events /\ UNCHANGED <<held, passed>>

\* A table's sample and the overall one that follows it; `due` are the keys whose time is up.
Sample(t, due) ==
  LET now == {key \in {t, "run"} : key \in due \/ key \notin passed}
  IN  /\ journal' = journal \o Of(now, t) \o Of(now, "run")
      /\ held' = (held \cup {t, "run"}) \ now /\ passed' = passed \cup now

-----------------------------------------------------------------------------
(* The engine.                                                             *)

Unseen == UNCHANGED <<row, view, opening, surprises, silent>>

Begin ==
  /\ engine = "new" /\ engine' = "planning"
  /\ Pass(<<Event("run_started", "run", "running"), Event("step_started", "step", "running")>>)
  /\ UNCHANGED <<samples, tablesTold>> /\ Unseen

PlanReady ==
  /\ engine = "planning" /\ engine' = "copying"
  /\ Pass(<<Event("plan_ready", "run", "none")>>)
  /\ UNCHANGED <<samples, tablesTold>> /\ Unseen

\* A batch was copied; a table that holds more than its estimate reports on after it was told.
Progress(t) ==
  /\ engine = "copying" /\ samples[t] < MaxSamples
  /\ samples' = [samples EXCEPT ![t] = @ + 1]
  /\ \E due \in SUBSET {t, "run"} : Sample(t, due)
  /\ UNCHANGED <<engine, tablesTold>> /\ Unseen

\* What is held of the table, and of the run, goes first.
TableFinished(t, status) ==
  /\ engine = "copying" /\ t \notin tablesTold
  /\ tablesTold' = tablesTold \cup {t}
  /\ journal' = journal \o Of(held, t) \o Of(held, "run") \o <<Event("table_finished", t, status)>>
  /\ held' = held \ {t, "run"} /\ passed' = passed \cup (held \cap {t, "run"})
  /\ UNCHANGED <<engine, samples>> /\ Unseen

\* The outcome.  A run that is cancelled or fails leaves tables untold.
Finish(status) ==
  /\ engine \in {"planning", "copying"} /\ engine' = "ending"
  /\ status = "succeeded" => engine = "copying" /\ tablesTold = Copied
  /\ Pass(<<Event("step_finished", "step", IF status = "succeeded" THEN "ok" ELSE "failed"),
            Event("run_finished", "run", status)>>)
  /\ UNCHANGED <<samples, tablesTold>> /\ Unseen

\* main's finally: what the throttle still holds comes after run_finished, in the order in
\* which the keys came to be held, which may be any.
Flush ==
  /\ engine = "ending" /\ engine' = "over"
  /\ \E keys \in SetToSeqs(held) : journal' = journal \o [i \in DOMAIN keys |-> Held(keys[i])]
  /\ held' = {}
  /\ UNCHANGED <<samples, tablesTold, passed>> /\ Unseen

-----------------------------------------------------------------------------
(* The agent: a batch becomes a patch, and the patch an upsert.            *)

NoPatch == [status |-> "none", step |-> "none", tables |-> [t \in Copied |-> "none"]]

\* Mutant: the later event wins.
UpsertLater(old, new) == new

\* upsertTable: a table that is over stays over.
UpsertTable(old, new) == IF old \in TableOver /\ new \notin TableOver THEN old ELSE new
Project(patch, e) ==
  CASE e.type \in {"run_started", "run_finished"}   -> [patch EXCEPT !.status = e.status]
    [] e.type \in {"step_started", "step_finished"} -> [patch EXCEPT !.step = e.status]
    [] e.type \in {"table_progress", "table_finished"} ->
         [patch EXCEPT !.tables[e.on] = UpsertTable(@, e.status)]
    [] e.type = "plan_ready" ->
         [patch EXCEPT !.tables = [t \in Copied |-> UpsertTable(patch.tables[t], "pending")]]
    [] OTHER -> patch

\* applyProjection: run_started does not undo a cancel request.
Upsert(r, patch, seq) ==
  [seq    |-> seq,
   status |-> IF patch.status = "none" \/ (patch.status = "running" /\ r.status = "cancelling")
              THEN r.status ELSE patch.status,
   step   |-> IF patch.step = "none" THEN r.step ELSE patch.step,
   tables |-> [t \in Copied |-> IF patch.tables[t] = "none" THEN r.tables[t]
                                ELSE UpsertTable(r.tables[t], patch.tables[t])]]

StoreBatch ==
  /\ \E n \in row.seq + 1 .. Len(journal) :
       row' = Upsert(row, FoldLeft(Project, NoPatch, SubSeq(journal, row.seq + 1, n)), n)
  /\ UNCHANGED <<engine, samples, tablesTold, held, passed, journal, view, opening, surprises, silent>>

\* The cancel handler, and finaliseRunIfUnsettled.
Surprise ==
  /\ surprises < MaxSurprises /\ surprises' = surprises + 1
  /\ \/ row.status = "running" /\ row' = [row EXCEPT !.status = "cancelling"] /\ UNCHANGED silent
     \/ row.status \notin Terminal /\ row' = [row EXCEPT !.status = "failed"] /\ silent' = TRUE
  /\ UNCHANGED <<engine, samples, tablesTold, held, passed, journal, view, opening>>

-----------------------------------------------------------------------------
(* The page.                                                               *)

\* A table that is over is not running again.
SetProgress(status) == IF status \in TableOver THEN status ELSE "running"
\* One event of applyEvents; one at or below the last seq is dropped.
Apply(v, n) ==
  LET e == journal[n]
      now == [v EXCEPT !.seq = n]
  IN  IF n <= v.seq THEN v
      ELSE CASE e.type \in {"run_started", "run_finished"}   -> [now EXCEPT !.status = e.status]
             [] e.type \in {"step_started", "step_finished"} -> [now EXCEPT !.step = e.status]
             [] e.type = "table_progress" -> [now EXCEPT !.tables[e.on] = SetProgress(@)]
             [] e.type = "table_finished" -> [now EXCEPT !.tables[e.on] = e.status]
             [] e.type = "plan_ready" ->
                  [now EXCEPT !.tables = [t \in Copied |-> IF @[t] = "absent" THEN "pending" ELSE @[t]]]
             [] OTHER -> now

ApplyEvents(v, first, last) ==
  FoldLeft(Apply, v, [i \in 1 .. last + 1 - first |-> first + i - 1])

\* loadRunSnapshot: the run's row first, then three reads side by side.
OpenPage ==
  /\ view = <<>> /\ opening = <<>> /\ row.seq > 0
  /\ opening' = <<[status |-> row.status, read |-> {}, step |-> "none", tables |-> <<>>, last |-> 0]>>
  /\ UNCHANGED <<engine, samples, tablesTold, held, passed, journal, row, view, surprises, silent>>

ReadForPage(what) ==
  /\ opening # <<>> /\ what \notin opening[1].read
  /\ LET seen == [opening[1] EXCEPT !.read = @ \cup {what}]
     IN opening' = <<CASE what = "steps"  -> [seen EXCEPT !.step = row.step]
                       [] what = "tables" -> [seen EXCEPT !.tables = row.tables]
                       [] what = "events" -> [seen EXCEPT !.last = IF row.seq < RecentEvents THEN row.seq ELSE RecentEvents]>>
  /\ UNCHANGED <<engine, samples, tablesTold, held, passed, journal, row, view, surprises, silent>>

\* applySnapshot: the rows, and the events that came with them on top of those.
ShowSnapshot ==
  /\ opening # <<>> /\ opening[1].read = {"steps", "tables", "events"}
  /\ LET o == opening[1]
     IN view' = <<ApplyEvents([seq |-> 0, status |-> o.status, step |-> o.step, tables |-> o.tables], 1, o.last)>>
  /\ opening' = <<>>
  /\ UNCHANGED <<engine, samples, tablesTold, held, passed, journal, row, surprises, silent>>

\* A frame of events, which may begin with those the page has.
LiveEvents ==
  /\ view # <<>>
  /\ \E first \in {1, view[1].seq + 1}, last \in view[1].seq + 1 .. row.seq :
       view' = <<ApplyEvents(view[1], first, last)>>
  /\ UNCHANGED <<engine, samples, tablesTold, held, passed, journal, row, opening, surprises, silent>>

Rank(status) == CASE status = "queued" -> 0 [] status = "running" -> 1 [] status = "cancelling" -> 2
                  [] status \in Terminal -> 3

\* applyRunRow: a row read earlier or now moves the status forward only.
TakeRunRow ==
  /\ view # <<>> /\ \E status \in {"queued", "running", row.status} :
       /\ Rank(status) > Rank(view[1].status)
       /\ view' = <<[view[1] EXCEPT !.status = status]>>
  /\ UNCHANGED <<engine, samples, tablesTold, held, passed, journal, row, opening, surprises, silent>>

RunViewNext ==
  \/ Begin \/ PlanReady \/ Flush
  \/ \E t \in Copied : Progress(t) \/ \E status \in TableOver : TableFinished(t, status)
  \/ \E status \in Terminal : Finish(status)
  \/ StoreBatch \/ Surprise
  \/ OpenPage \/ ShowSnapshot \/ LiveEvents \/ TakeRunRow
  \/ \E what \in {"steps", "tables", "events"} : ReadForPage(what)

RunViewSpec == RunViewInit /\ [][RunViewNext]_viewVars

-----------------------------------------------------------------------------
(* run-reducer.ts and run-projection.ts are two folds of the same events,  *)
(* by different rules, over different batches, the one on top of rows the   *)
(* other wrote, possibly in the middle of a commit.  At the same seq they   *)
(* tell the same: of the step, of every table, and of the run unless its    *)
(* status moved without an event.                                          *)
ViewAgrees ==
  view # <<>> /\ view[1].seq = row.seq =>
    /\ view[1].step = row.step /\ view[1].tables = row.tables
    /\ view[1].status = row.status \/ row.status = "cancelling" \/ silent

=============================================================================
