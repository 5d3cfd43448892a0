---------------------------- MODULE EventPipeline ----------------------------
(***************************************************************************)
(* The way of one run's events from its child process to the database.     *)
(*                                                                         *)
(* The child numbers its events, queues each for its journal and sends a   *)
(* copy to its agent.  The agent buffers what it is sent and writes it in  *)
(* batches, one transaction in flight at a time.  A restarted agent has no *)
(* channel to the child: it reads the journal after the stored cursor and  *)
(* follows it.  When the child has ended, the agent settles the run.       *)
(*                                                                         *)
(* An event is its seq; Script says of which kind it is.  The table events *)
(* are all about one table.  The module begins when the child has said     *)
(* `ready` and its journal path is stored.  While an agent is up its       *)
(* heartbeats keep the row (RunQueue); a sweep settles a run without one.  *)
(***************************************************************************)
EXTENDS Integers, FiniteSets, Sequences

CONSTANTS
  Script,     \* the kinds of the events of the run, in the order of seq
  MaxLogs,    \* maxLogEventsPerRun
  Faulty,     \* bound: what may fail, of "write", "read" and "journal"
  MaxFaults,  \* bound: how often
  MaxDeaths,  \* bound: agent processes that stop or crash
  Cancels     \* bound: whether a user may cancel the run

Kind == {"run_started", "log", "table_progress", "table_finished", "overall_progress",
         "run_finished"}

\* A run says that it started before it says how it ended.
StartsFirst ==
  \A m, n \in 1 .. Len(Script) :
    Script[m] = "run_started" /\ Script[n] = "run_finished" => m < n

ASSUME PipelineAssumption ==
  /\ Script \in Seq(Kind) /\ StartsFirst
  /\ MaxLogs \in Nat \ {0}
  /\ Faulty \subseteq {"write", "read", "journal"}
  /\ MaxFaults \in Nat /\ MaxDeaths \in Nat /\ Cancels \in BOOLEAN

Event == 1 .. Len(Script)

Are(kind, E) == \E n \in E : Script[n] = kind

\* The events that are never capped.
Lasting == {n \in Event : Script[n] # "log"}

\* The child runs, leaves after its last event, leaves with a `fatal` message
\* (which its agent has yet to read, or has read), or is killed.
Child == {"running", "ended", "fatal", "internal", "killed"}

\* RunManager: a handle; onExit waiting for its flush; a follower between two
\* passes; a pass reading the journal, then waiting for its flush after the whole
\* journal or after a read that failed; or nothing.
Watch == {"ipc", "exit", "tail", "pass", "flush", "failed", "none"}

\* runs.status, the settlements told apart by who decides them: run_finished, a
\* `fatal` message, an exit without run_finished, a journal without one, a cancel
\* of a process that is gone, the sweeper.
Settled == {"finished", "fatal", "crashed", "vanished", "gone", "lost"}

VARIABLES
  child,     \* the runner process
  written,   \* events published: given to the journal's stream and to IPC
  onDisk,    \* of these, the ones in the journal file
  broken,    \* journalError
  up,        \* the agent process
  watch,     \* how it watches the run
  following, \* the run is in RunManager.followers
  sample,    \* aliveBefore of the pass
  cursor,    \* the seq after which a pass reads
  upTo,      \* how far the pass has read; what a flush waits for
  received,  \* IPC messages handled by the process that forked the child
  tally,     \* EventWriter.logCounts
  buffer,    \* EventWriter.buffers
  inflight,  \* EventWriter.inFlight: the batches whose transaction is running
  late,      \* a batch of an agent that died, whose COMMIT is on its way
  stored,    \* run_events
  lastSeq,   \* runs.last_seq
  status,    \* runs.status
  table,     \* run_table_progress.status
  faults,    \* failures so far
  deaths     \* agent processes lost so far

childVars == <<child, written, onDisk, broken>>
watchVars == <<up, watch, following, sample, cursor, upTo, received>>
writerVars == <<tally, buffer, inflight>>
rowVars == <<late, stored, lastSeq, status, table>>
boundVars == <<faults, deaths>>
vars == <<childVars, watchVars, writerVars, rowVars, boundVars>>

Init ==
  /\ child = "running" /\ written = 0 /\ onDisk = 0 /\ broken = FALSE
  /\ up = TRUE /\ watch = "ipc" /\ following = FALSE /\ sample = FALSE
  /\ cursor = 0 /\ upTo = 0 /\ received = 0
  /\ tally = 0 /\ buffer = {} /\ inflight = {}
  /\ late = {} /\ stored = {} /\ lastSeq = 0 /\ status = "running" /\ table = "none"
  /\ faults = 0 /\ deaths = 0

Fault(what) == what \in Faulty /\ faults < MaxFaults /\ faults' = faults + 1
-----------------------------------------------------------------------------
(***************************************************************************)
(* The child.                                                              *)
(***************************************************************************)

\* publish: the event is queued for the journal, then sent.  Nothing here looks
\* at journalError.
Publish ==
  /\ child = "running" /\ written < Len(Script)
  /\ written' = written + 1
  /\ UNCHANGED <<child, onDisk, broken, watchVars, writerVars, rowVars, boundVars>>

\* The stream writes a line of what it has queued.
WriteOut ==
  /\ child = "running" /\ ~ broken /\ onDisk < written
  /\ onDisk' = onDisk + 1
  /\ UNCHANGED <<child, written, broken, watchVars, writerVars, rowVars, boundVars>>

\* The stream fails, and writes nothing more.
Break ==
  /\ child = "running" /\ ~ broken
  /\ Fault("journal")
  /\ broken' = TRUE
  /\ UNCHANGED <<child, written, onDisk, watchVars, writerVars, rowVars, deaths>>

\* The end of main: the journal is closed, and only then is its error looked at.
Leave ==
  /\ child = "running" /\ written = Len(Script)
  /\ broken \/ onDisk = written
  /\ child' = IF broken THEN "fatal" ELSE "ended"
  /\ UNCHANGED <<written, onDisk, broken, watchVars, writerVars, rowVars, boundVars>>

\* SIGKILL, out of memory: what is queued for the journal or for IPC is lost.
Killed ==
  /\ child = "running"
  /\ child' = "killed"
  /\ UNCHANGED <<written, onDisk, broken, watchVars, writerVars, rowVars, boundVars>>
-----------------------------------------------------------------------------
(***************************************************************************)
(* EventWriter and applyProjection.                                        *)
(***************************************************************************)

\* recordAndMaybeCap keeps the event, or a notice with its seq.
Kept(n) == Script[n] # "log" \/ tally < MaxLogs

\* push
Push(n) ==
  /\ tally' = IF Script[n] = "log" THEN tally + 1 ELSE tally
  /\ buffer' = IF Kept(n) THEN buffer \cup {n} ELSE buffer
  /\ UNCHANGED inflight

\* Wrong: a second transaction does not wait for the first.
DrainNow ==
  /\ up /\ buffer # {}
  /\ inflight' = inflight \cup {buffer}
  /\ buffer' = {}
  /\ UNCHANGED <<childVars, watchVars, tally, rowVars, boundVars>>

\* drain: by the timer, by a full buffer, by a flush, or after the batch before.
Drain ==
  /\ up /\ buffer # {} /\ inflight = {}
  /\ inflight' = {buffer}
  /\ buffer' = {}
  /\ UNCHANGED <<childVars, watchVars, tally, rowVars, boundVars>>

\* A finished table stays finished, in the batch and in its row.
ProjectTable(B) ==
  table' = IF table = "done" \/ Are("table_finished", B) THEN "done"
           ELSE IF Are("table_progress", B) THEN "running" ELSE table

\* The status is written under no guard that matters here.
ProjectStatus(B) ==
  status' = IF Are("run_finished", B) THEN "finished"
            ELSE IF Are("run_started", B) THEN "running" ELSE status

\* Wrong: the cursor goes where the batch ends.
ProjectCursorPlain(B) == \E n \in B : (\A m \in B : m <= n) /\ lastSeq' = n

\* greatest(last_seq, ...)
ProjectCursor(B) ==
  \E n \in B \cup {lastSeq} : (\A m \in B \cup {lastSeq} : m <= n) /\ lastSeq' = n

\* projectEvents and applyProjection of a batch: one transaction.
Apply(B) ==
  /\ stored' = stored \cup B
  /\ ProjectCursor(B) /\ ProjectStatus(B) /\ ProjectTable(B)

\* A transaction waits for the row locks of one that is committing.
Commit ==
  /\ late = {}
  /\ \E B \in inflight : Apply(B) /\ inflight' = inflight \ {B}
  /\ UNCHANGED <<childVars, watchVars, tally, buffer, late, boundVars>>

\* The transaction fails: the error is reported and the batch is gone.
DropBatch ==
  /\ Fault("write")
  /\ \E B \in inflight : inflight' = inflight \ {B}
  /\ UNCHANGED <<childVars, watchVars, tally, buffer, rowVars, deaths>>

\* The COMMIT of an agent that is dead.
CommitLate ==
  /\ late # {}
  /\ Apply(late)
  /\ late' = {}
  /\ UNCHANGED <<childVars, watchVars, writerVars, boundVars>>

\* What flush was called for is written, or was dropped.
Flushed == \A n \in buffer \cup UNION inflight : n > upTo

\* finaliseRunIfUnsettled.  A statement that fails is reported, and not repeated by
\* whoever made it.
Settle(how) ==
  \/ late = {} /\ status' = (IF status = "running" THEN how ELSE status) /\ UNCHANGED faults
  \/ Fault("write") /\ UNCHANGED status
-----------------------------------------------------------------------------
(***************************************************************************)
(* RunManager, for a child it forked.                                      *)
(***************************************************************************)

\* onMessage, `event`
Receive ==
  /\ watch = "ipc" /\ received < written
  /\ received' = received + 1
  /\ Push(received + 1)
  /\ UNCHANGED <<childVars, up, watch, following, sample, cursor, upTo, rowVars, boundVars>>

\* onMessage, `fatal`: settles without a flush.
Fatal ==
  /\ watch = "ipc" /\ child = "fatal" /\ received = written
  /\ child' = "internal"
  /\ Settle("fatal") /\ tally' = 0
  /\ UNCHANGED <<written, onDisk, broken, watchVars, buffer, inflight,
                 late, stored, lastSeq, table, deaths>>

\* onExit.  What the child had got into the channel has been read before; a
\* child that leaves by itself sees to it that this is everything.
ObserveExit ==
  /\ watch = "ipc"
  /\ \/ child = "ended" /\ received = written
     \/ child \in {"internal", "killed"}
  /\ watch' = "exit" /\ upTo' = received
  /\ UNCHANGED <<childVars, up, following, sample, cursor, received, writerVars, rowVars, boundVars>>

\* sawTerminal
SawTerminal == Are("run_finished", 1 .. received)

\* onExit after its flush.  Nothing is done when run_finished was seen.
CloseExit ==
  /\ watch = "exit" /\ Flushed
  /\ watch' = "none"
  /\ \/ SawTerminal /\ UNCHANGED <<tally, status, faults>>
     \/ ~ SawTerminal /\ Settle("crashed") /\ tally' = 0
  /\ UNCHANGED <<childVars, up, following, sample, cursor, upTo, received, buffer, inflight,
                 late, stored, lastSeq, table, deaths>>
-----------------------------------------------------------------------------
(***************************************************************************)
(* RunManager, for a child it finds after a restart.                       *)
(***************************************************************************)

\* A follower's tick begins a pass.
Poll ==
  /\ watch = "tail"
  /\ watch' = "pass" /\ sample' = (child = "running") /\ upTo' = cursor
  /\ UNCHANGED <<childVars, up, following, cursor, received, writerVars, rowVars, boundVars>>

\* readJournalAfter, a line.  A line half written is passed over, and read later.
ReadNext ==
  /\ watch = "pass" /\ upTo < onDisk
  /\ upTo' = upTo + 1
  /\ Push(upTo + 1)
  /\ UNCHANGED <<childVars, up, watch, following, sample, cursor, received, rowVars, boundVars>>

\* The end of the file.  A cursor may be past it, by events that came over IPC.
ReadEnd ==
  /\ watch = "pass" /\ upTo >= onDisk
  /\ watch' = "flush"
  /\ UNCHANGED <<childVars, up, following, sample, cursor, upTo, received, writerVars, rowVars, boundVars>>

\* catchUp, `catch`: reported, and the pass goes on with what it has.
ReadFails ==
  /\ watch = "pass"
  /\ Fault("read")
  /\ watch' = "failed"
  /\ UNCHANGED <<childVars, up, following, sample, cursor, upTo, received, writerVars, rowVars, deaths>>

\* The pass read a run_finished.
FoundEnd == Are("run_finished", (cursor + 1) .. upTo)

\* Nothing more to follow.  The pass of reattach does not forget the tally.
EndWatch(how) ==
  /\ watch' = "none" /\ following' = FALSE
  /\ Settle(how)
  /\ tally' = IF following THEN 0 ELSE tally
  /\ UNCHANGED cursor

\* A failed read leaves the cursor where it was.
KeepWatch ==
  /\ watch' = "tail" /\ following' = TRUE
  /\ cursor' = IF watch = "flush" THEN upTo ELSE cursor
  /\ UNCHANGED <<tally, status, faults>>

\* Wrong: a pass that reads no more has found the end of the run.
ClosePassEager ==
  /\ watch \in {"flush", "failed"} /\ Flushed
  /\ \/ FoundEnd /\ EndWatch("finished")
     \/ ~ FoundEnd /\ upTo = cursor /\ EndWatch("vanished")
     \/ ~ FoundEnd /\ upTo # cursor /\ KeepWatch
  /\ UNCHANGED <<childVars, up, sample, upTo, received, buffer, inflight,
                 late, stored, lastSeq, table, deaths>>

\* Wrong: looks whether the process lives after the journal has been read.
ClosePassNow ==
  /\ watch \in {"flush", "failed"} /\ Flushed
  /\ \/ FoundEnd /\ EndWatch("finished")
     \/ ~ FoundEnd /\ child # "running" /\ EndWatch("vanished")
     \/ ~ FoundEnd /\ child = "running" /\ KeepWatch
  /\ UNCHANGED <<childVars, up, sample, upTo, received, buffer, inflight,
                 late, stored, lastSeq, table, deaths>>

\* catchUp after its flush, and what reattach or the follower makes of it.
ClosePass ==
  /\ watch \in {"flush", "failed"} /\ Flushed
  /\ \/ FoundEnd /\ EndWatch("finished")
     \/ ~ FoundEnd /\ ~ sample /\ EndWatch("vanished")
     \/ ~ FoundEnd /\ sample /\ KeepWatch
  /\ UNCHANGED <<childVars, up, sample, upTo, received, buffer, inflight,
                 late, stored, lastSeq, table, deaths>>

\* RunManager.cancel: nothing is left to signal.
CancelGone ==
  /\ Cancels
  /\ watch \in {"ipc", "tail", "pass", "flush", "failed"} /\ child # "running"
  /\ Settle("gone")
  /\ UNCHANGED <<childVars, watchVars, writerVars, late, stored, lastSeq, table, deaths>>
-----------------------------------------------------------------------------
(***************************************************************************)
(* The agent process and the sweeper.                                      *)
(***************************************************************************)

\* The agent stops or crashes: its memory and its channel are gone.  A batch in
\* flight is aborted, unless its COMMIT is already on its way.
Die ==
  /\ up /\ deaths < MaxDeaths
  /\ deaths' = deaths + 1
  /\ up' = FALSE /\ watch' = "none" /\ following' = FALSE /\ sample' = FALSE
  /\ cursor' = 0 /\ upTo' = 0 /\ received' = 0
  /\ tally' = 0 /\ buffer' = {} /\ inflight' = {}
  /\ late' \in IF late = {} THEN inflight \cup {{}} ELSE {late}
  /\ UNCHANGED <<childVars, stored, lastSeq, status, table, faults>>

\* Wrong: looks only after runs that are still alive.
StartLiving ==
  /\ ~ up
  /\ up' = TRUE
  /\ IF status = "running" /\ child = "running"
     THEN /\ watch' = "pass" /\ sample' = TRUE
          /\ cursor' = lastSeq /\ upTo' = lastSeq
     ELSE UNCHANGED <<watch, sample, cursor, upTo>>
  /\ UNCHANGED <<childVars, following, received, writerVars, rowVars, boundVars>>

\* reattach: the first pass over the journal of a run that is not settled.
Start ==
  /\ ~ up
  /\ up' = TRUE
  /\ IF status = "running"
     THEN /\ watch' = "pass" /\ sample' = (child = "running")
          /\ cursor' = lastSeq /\ upTo' = lastSeq
     ELSE UNCHANGED <<watch, sample, cursor, upTo>>
  /\ UNCHANGED <<childVars, following, received, writerVars, rowVars, boundVars>>

\* sweep: the lease of a run whose agent is away has ended.
Sweep ==
  /\ ~ up /\ status = "running"
  /\ Settle("lost")
  /\ UNCHANGED <<childVars, watchVars, writerVars, late, stored, lastSeq, table, deaths>>
-----------------------------------------------------------------------------
Runner == Publish \/ WriteOut \/ Break \/ Leave \/ Killed
Writer == Drain \/ Commit \/ DropBatch \/ CommitLate
Forked == Receive \/ Fatal \/ ObserveExit \/ CloseExit
Followed == Poll \/ ReadNext \/ ReadEnd \/ ReadFails \/ ClosePass
Agent == CancelGone \/ Die \/ Start \/ Sweep

Next == Runner \/ Writer \/ Forked \/ Followed \/ Agent

Spec == Init /\ [][Next]_vars

\* What keeps happening: the writer's timer, the database, the messages of a child
\* that was not killed, its exit, the follower's timer and the sweeper.  Nothing
\* makes a run go on, an agent die, or a dead agent come back.
Fairness ==
  /\ WF_vars(Drain) /\ WF_vars(Commit) /\ WF_vars(CommitLate)
  /\ WF_vars(Receive /\ child # "killed") /\ WF_vars(Fatal)
  /\ WF_vars(ObserveExit) /\ WF_vars(CloseExit)
  /\ WF_vars(Poll) /\ WF_vars(ReadNext) /\ WF_vars(ReadEnd) /\ WF_vars(ClosePass)
  /\ WF_vars(Sweep)

FairSpec == Spec /\ Fairness
-----------------------------------------------------------------------------
(***************************************************************************)
(* Safety.                                                                 *)
(***************************************************************************)

ChildType ==
  child \in Child /\ written \in 0 .. Len(Script) /\ onDisk \in 0 .. written /\ broken \in BOOLEAN
WatchType ==
  /\ up \in BOOLEAN /\ watch \in Watch /\ following \in BOOLEAN /\ sample \in BOOLEAN
  /\ cursor \in 0 .. written /\ upTo \in cursor .. written /\ received \in 0 .. written
  /\ watch = "ipc" => cursor = 0
WriterType ==
  tally \in Nat /\ buffer \in SUBSET (1 .. written) /\ inflight \in SUBSET SUBSET (1 .. written)
RowType ==
  /\ late \in SUBSET (1 .. written) /\ stored \in SUBSET (1 .. written)
  /\ lastSeq \in 0 .. written
  /\ status \in Settled \cup {"running"} /\ table \in {"none", "running", "done"}
BoundType == faults \in 0 .. MaxFaults /\ deaths \in 0 .. MaxDeaths

\* Types, and what is read, buffered or stored has been published.
TypeOK == ChildType /\ WatchType /\ WriterType /\ RowType /\ BoundType

\* No event that must last is missing below the cursor from which a restarted
\* agent reads on and a browser resynchronises (event-writer.ts:213-217,
\* ingestion.ts:100-104).  Holds as long as no write fails.
NoGap == \A n \in Lasting : n <= lastSeq => n \in stored

\* A run is reported as vanished only if its journal says no outcome and all of
\* its journal is stored (run-manager.ts:261-268, 292-295).  Holds for one
\* restart without a failed read or write.
ExplainedOutcome ==
  status = "vanished" =>
    /\ {n \in Lasting : n <= onDisk} \subseteq stored
    /\ ~ Are("run_finished", 1 .. onDisk)

\* Nobody but the sweeper settles a run whose child may still write into the
\* destination, whatever fails: that would free the destination for another run
\* (run-manager.ts:319-333, 400-402).
SettledIsIdle ==
  status \notin {"running", "lost"} => child # "running" \/ Are("run_finished", 1 .. written)

\* A finished table never goes back to running, whatever is read again
\* (run-projection.ts:193-214, ingestion.ts:72-76).
TableStaysDone == [][table = "done" => table' = "done"]_vars

\* The database shows a reader of events a prefix of the run, which only grows.
Log == INSTANCE EventLog WITH
  published <- written, visible <- lastSeq, shown <- stored \cap Lasting
ImplementsLog == Log!Spec

-----------------------------------------------------------------------------
(***************************************************************************)
(* Invariants that explain NoGap, SettledIsIdle and ExplainedOutcome.      *)
(***************************************************************************)

\* Every lasting event up to m is in S.
Below(m, S) == \A n \in Lasting : n <= m => n \in S

\* What the agent holds or has stored.
Held == stored \cup buffer \cup UNION inflight

\* A batch that is committed leaves no gap behind its last event.
BatchInv ==
  /\ \A B \in inflight : \A m \in B : Below(m, stored \cup B)
  /\ \A m \in late : Below(m, stored \cup late)
  /\ \A m \in buffer : Below(m, Held)

\* One transaction of the agent at a time.
SerialInv == \A A, B \in inflight : A = B

\* What was heard or read is held or stored.
ReadInv == Below(received, Held) /\ Below(upTo, Held)

\* The cursor is the last stored event.
TopInv == \A n \in stored : n <= lastSeq

\* Holds as long as no write fails.
GapInv == NoGap /\ BatchInv /\ SerialInv /\ ReadInv /\ TopInv

\* Whoever is about to settle a run has seen its process end.
EndSeenInv ==
  /\ watch = "exit" => child # "running"
  /\ watch \in {"pass", "flush", "failed"} /\ ~ sample => child # "running"

IdleInv == EndSeenInv /\ SettledIsIdle

\* Before the first restart events arrive, and are written, in their order.
InOrderInv ==
  deaths = 0 \/ ~ up =>
    /\ \A a \in stored : \A b \in buffer \cup late \cup UNION inflight : a < b
    /\ \A a \in UNION inflight : \A b \in buffer : a < b
    /\ Are("run_finished", stored) => status # "running"

\* Before the first death nothing is late, nothing is read from the journal, and
\* nothing is held that was not heard.
FirstAgentInv ==
  /\ deaths = 0 => /\ up /\ late = {} /\ watch \in {"ipc", "exit", "none"}
                   /\ \A n \in Held : n <= received
  /\ ~ up => watch = "none" /\ buffer = {} /\ inflight = {}

\* The passes up to the cursor found no outcome, and the last one, over a journal
\* that grows no more, comes to its end.
PassInv ==
  /\ watch # "failed"
  /\ watch \in {"tail", "pass", "flush"} => ~ Are("run_finished", 1 .. cursor)
  /\ watch = "flush" /\ ~ sample => onDisk <= upTo
  /\ status = "vanished" => child # "running"

\* Holds for one restart without a failed read or write.
OutcomeInv == InOrderInv /\ FirstAgentInv /\ PassInv /\ ExplainedOutcome
-----------------------------------------------------------------------------
(***************************************************************************)
(* Liveness.                                                               *)
(***************************************************************************)

\* What is in the journal gets stored, through restarts, unless somebody else
\* has settled the run, or something has failed (run-manager.ts:222-236).
EventuallyStored ==
  <>[](status \in {"running", "vanished"} /\ faults = 0
         => \A n \in Lasting : n <= onDisk => n \in stored)

\* A run whose process has ended is settled, and stays so (run-manager.ts:510-540).
\* Holds as long as nothing fails and nobody cancels.
EndedRunSettles == <>[](child # "running" /\ faults = 0 => status # "running")

\* What the agent's writer and manager owe a run: a finished table stays finished, what
\* is in the journal is stored, and a run whose process has ended is settled for good.
RunIsRecorded == TableStaysDone /\ EventuallyStored /\ EndedRunSettles
=============================================================================
