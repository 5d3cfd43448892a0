------------------------ MODULE EventPipeline_proofs -------------------------
(* Theorems about EventPipeline, for every script, cap and number of deaths. *)
EXTENDS EventPipeline, TLAPS

USE DEF Child, Watch, Settled

\* A script has a length.
LEMMA ScriptLength == Len(Script) \in Nat
  BY PipelineAssumption

\* Writing a batch keeps the row in its domain, and its cursor is the old one or
\* the last event of the batch.
LEMMA ApplyType ==
  ASSUME TypeOK, NEW B \in SUBSET (1 .. written), Apply(B)
  PROVE /\ stored' \in SUBSET (1 .. written) /\ lastSeq' \in 0 .. written
        /\ status' \in Settled \cup {"running"} /\ table' \in {"none", "running", "done"}
  <1> USE ScriptLength
  <1>1. stored' \in SUBSET (1 .. written)
    BY DEF Apply, TypeOK, RowType
  <1>2. lastSeq' \in 0 .. written
    BY DEF Apply, ProjectCursor, TypeOK, RowType, ChildType
  <1>3. status' \in Settled \cup {"running"}
    BY DEF Apply, ProjectStatus, TypeOK, RowType
  <1>4. table' \in {"none", "running", "done"}
    BY DEF Apply, ProjectTable, TypeOK, RowType
  <1> QED BY <1>1, <1>2, <1>3, <1>4

\* Taking an event of the run keeps the writer in its domain.
LEMMA PushType ==
  ASSUME TypeOK, NEW n \in 1 .. written, Push(n)
  PROVE WriterType /\ tally' \in Nat /\ buffer' \in SUBSET (1 .. written) /\ inflight' = inflight
  BY DEF Push, TypeOK, WriterType

\* Every step keeps every variable in its domain.
LEMMA TypeStep == TypeOK /\ [Next]_vars => TypeOK'
<1> SUFFICES ASSUME TypeOK, [Next]_vars PROVE TypeOK' OBVIOUS
<1> USE PipelineAssumption, ScriptLength DEF TypeOK
<1> USE DEF childVars, watchVars, writerVars, rowVars, boundVars
<1>1. CASE Publish
  <2>1. written' \in 0 .. Len(Script) /\ written' = written + 1
    BY <1>1 DEF Publish, ChildType
  <2>2. ChildType' /\ WatchType'
    BY <1>1, <2>1 DEF Publish, ChildType, WatchType
  <2>3. 1 .. written \subseteq 1 .. written'
    BY <2>1 DEF ChildType
  <2>4. WriterType' /\ RowType' /\ BoundType'
    BY <1>1, <2>1, <2>3 DEF Publish, ChildType, WriterType, RowType, BoundType
  <2> QED BY <2>2, <2>4
<1>2. CASE WriteOut
  BY <1>2 DEF WriteOut, ChildType, WatchType, WriterType, RowType, BoundType
<1>3. CASE Break
  BY <1>3 DEF Break, Fault, ChildType, WatchType, WriterType, RowType, BoundType
<1>4. CASE Leave
  BY <1>4 DEF Leave, ChildType, WatchType, WriterType, RowType, BoundType
<1>5. CASE Killed
  BY <1>5 DEF Killed, ChildType, WatchType, WriterType, RowType, BoundType
<1>6. CASE Drain
  BY <1>6 DEF Drain, ChildType, WatchType, WriterType, RowType, BoundType
<1>7. CASE Commit
  <2>1. PICK B \in inflight : Apply(B) /\ inflight' = inflight \ {B}
    BY <1>7 DEF Commit
  <2>2. B \in SUBSET (1 .. written)
    BY DEF WriterType
  <2>3. RowType'
    BY <1>7, <2>1, <2>2, ApplyType DEF Commit, RowType
  <2> QED BY <1>7, <2>1, <2>3 DEF Commit, ChildType, WatchType, WriterType, BoundType
<1>8. CASE DropBatch
  BY <1>8 DEF DropBatch, Fault, ChildType, WatchType, WriterType, RowType, BoundType
<1>9. CASE CommitLate
  <2>1. RowType'
    BY <1>9, ApplyType DEF CommitLate, RowType
  <2> QED BY <1>9, <2>1 DEF CommitLate, ChildType, WatchType, WriterType, BoundType
<1>10. CASE Receive
  <2>1. received + 1 \in 1 .. written
    BY <1>10 DEF Receive, ChildType, WatchType
  <2>2. WriterType'
    BY <1>10, <2>1, PushType DEF Receive, WriterType
  <2> QED BY <1>10, <2>1, <2>2 DEF Receive, ChildType, WatchType, RowType, BoundType
<1>11. CASE Fatal
  BY <1>11 DEF Fatal, Settle, Fault, ChildType, WatchType, WriterType, RowType, BoundType
<1>12. CASE ObserveExit
  <2>1. WatchType'
    BY <1>12 DEF ObserveExit, WatchType, ChildType
  <2> QED BY <1>12, <2>1 DEF ObserveExit, ChildType, WriterType, RowType, BoundType
<1>13. CASE CloseExit
  BY <1>13 DEF CloseExit, Settle, Fault, ChildType, WatchType, WriterType, RowType, BoundType
<1>14. CASE Poll
  BY <1>14 DEF Poll, ChildType, WatchType, WriterType, RowType, BoundType
<1>15. CASE ReadNext
  <2>1. upTo + 1 \in 1 .. written
    BY <1>15 DEF ReadNext, ChildType, WatchType
  <2>2. WriterType'
    BY <1>15, <2>1, PushType DEF ReadNext, WriterType
  <2>3. WatchType'
    BY <1>15, <2>1 DEF ReadNext, WatchType, ChildType
  <2> QED BY <1>15, <2>2, <2>3 DEF ReadNext, ChildType, RowType, BoundType
<1>16. CASE ReadEnd
  BY <1>16 DEF ReadEnd, ChildType, WatchType, WriterType, RowType, BoundType
<1>17. CASE ReadFails
  BY <1>17 DEF ReadFails, Fault, ChildType, WatchType, WriterType, RowType, BoundType
<1>18. CASE ClosePass
  <2>1. WatchType'
    <3>1. CASE watch' = "none" /\ following' = FALSE /\ cursor' = cursor
      BY <1>18, <3>1 DEF ClosePass, WatchType
    <3>2. CASE KeepWatch
      <4>1. cursor' \in 0 .. written /\ upTo' \in cursor' .. written
        BY <1>18, <3>2 DEF ClosePass, KeepWatch, WatchType, ChildType
      <4> QED BY <1>18, <3>2, <4>1 DEF ClosePass, KeepWatch, WatchType
    <3> QED BY <1>18, <3>1, <3>2 DEF ClosePass, EndWatch
  <2>2. tally' \in Nat
    BY <1>18 DEF ClosePass, EndWatch, KeepWatch, WriterType
  <2>3. status' \in Settled \cup {"running"}
    BY <1>18 DEF ClosePass, EndWatch, KeepWatch, Settle, RowType
  <2>4. BoundType'
    BY <1>18 DEF ClosePass, EndWatch, KeepWatch, Settle, Fault, BoundType
  <2> QED BY <1>18, <2>1, <2>2, <2>3, <2>4 DEF ClosePass, ChildType, WriterType, RowType
<1>19. CASE CancelGone
  BY <1>19 DEF CancelGone, Settle, Fault, ChildType, WatchType, WriterType, RowType, BoundType
<1>20. CASE Die
  <2>1. late' \in SUBSET (1 .. written)
    BY <1>20 DEF Die, WriterType, RowType
  <2>2. written' \in Nat /\ watch' = "none"
    BY <1>20 DEF Die, ChildType
  <2>3. WatchType'
    <3>1. up' \in BOOLEAN /\ following' \in BOOLEAN /\ sample' \in BOOLEAN
      BY <1>20, Zenon DEF Die
    <3>2. cursor' = 0 /\ upTo' = 0 /\ received' = 0
      BY <1>20 DEF Die
    <3> QED BY <2>2, <3>1, <3>2 DEF WatchType
  <2>4. WriterType'
    BY <1>20, <2>2 DEF Die, WriterType
  <2> QED BY <1>20, <2>1, <2>3, <2>4 DEF Die, ChildType, RowType, BoundType
<1>21. CASE Start
  <2>1. WatchType'
    <3>1. CASE status = "running"
      BY <1>21, <3>1 DEF Start, WatchType, RowType, ChildType
    <3>2. CASE status # "running"
      BY <1>21, <3>2 DEF Start, WatchType
    <3> QED BY <3>1, <3>2
  <2> QED BY <1>21, <2>1 DEF Start, ChildType, WriterType, RowType, BoundType
<1>22. CASE Sweep
  BY <1>22 DEF Sweep, Settle, Fault, ChildType, WatchType, WriterType, RowType, BoundType
<1>23. CASE UNCHANGED vars
  BY <1>23 DEF vars, ChildType, WatchType, WriterType, RowType, BoundType
<1>24. CASE Runner
  BY <1>1, <1>2, <1>3, <1>4, <1>5, <1>24 DEF Runner
<1>25. CASE Writer
  BY <1>6, <1>7, <1>8, <1>9, <1>25 DEF Writer
<1>26. CASE Forked
  BY <1>10, <1>11, <1>12, <1>13, <1>26 DEF Forked
<1>27. CASE Followed
  BY <1>14, <1>15, <1>16, <1>17, <1>18, <1>27 DEF Followed
<1>28. CASE Agent
  BY <1>19, <1>20, <1>21, <1>22, <1>28 DEF Agent
<1> QED BY <1>23, <1>24, <1>25, <1>26, <1>27, <1>28 DEF Next

\* Every variable of the pipeline keeps to its domain; in particular nothing is
\* read, buffered or stored that was not published, and the cursor of a pass is
\* never ahead of what it has read.
THEOREM PipelineTyped == Spec => []TypeOK
<1>1. ASSUME Init PROVE TypeOK
  <2>1. ChildType
    <3>1. child \in Child /\ broken \in BOOLEAN
      BY <1>1, Zenon DEF Init
    <3>2. written = 0 /\ onDisk = 0
      BY <1>1 DEF Init
    <3> QED BY <3>1, <3>2, ScriptLength DEF ChildType
  <2>2. WatchType
    <3>1. up \in BOOLEAN /\ following \in BOOLEAN /\ sample \in BOOLEAN /\ watch \in Watch
      BY <1>1, Zenon DEF Init
    <3>2. written = 0 /\ cursor = 0 /\ upTo = 0 /\ received = 0
      BY <1>1 DEF Init
    <3> QED BY <3>1, <3>2 DEF WatchType
  <2>3. WriterType
    BY <1>1 DEF Init, WriterType
  <2>4. RowType
    BY <1>1 DEF Init, RowType
  <2>5. BoundType
    BY <1>1, PipelineAssumption DEF Init, BoundType
  <2> QED BY <2>1, <2>2, <2>3, <2>4, <2>5 DEF TypeOK
<1> QED BY <1>1, TypeStep, PTL DEF Spec

\* The child does not come back, and what it has published stays published.
LEMMA ChildStays ==
  ASSUME TypeOK, [Next]_vars
  PROVE /\ child # "running" => child' # "running"
        /\ written' \in {written, written + 1}
        /\ Are("run_finished", 1 .. written) => Are("run_finished", 1 .. written')
<1> USE DEF childVars
<1>1. child # "running" => child' # "running"
  BY DEF Next, Runner, Writer, Forked, Followed, Agent, vars,
         Publish, WriteOut, Break, Leave, Killed, Drain, Commit, DropBatch, CommitLate,
         Receive, Fatal, ObserveExit, CloseExit, Poll, ReadNext, ReadEnd, ReadFails, ClosePass,
         CancelGone, Die, Start, Sweep
<1>2. written' \in {written, written + 1}
  BY DEF Next, Runner, Writer, Forked, Followed, Agent, vars,
         Publish, WriteOut, Break, Leave, Killed, Drain, Commit, DropBatch, CommitLate,
         Receive, Fatal, ObserveExit, CloseExit, Poll, ReadNext, ReadEnd, ReadFails, ClosePass,
         CancelGone, Die, Start, Sweep
<1>3. 1 .. written \subseteq 1 .. written'
  BY <1>2, ScriptLength DEF TypeOK, ChildType
<1> QED BY <1>1, <1>2, <1>3 DEF Are

\* What a batch says of the outcome has been published.
LEMMA ApplyStatus ==
  ASSUME TypeOK, NEW B \in SUBSET (1 .. written), Apply(B)
  PROVE \/ status' \in {"running", status}
        \/ status' = "finished" /\ Are("run_finished", 1 .. written)
  BY DEF Apply, ProjectStatus, Are

\* Whoever settles a run has seen its process end, or its run_finished.
LEMMA IdleStep == TypeOK /\ IdleInv /\ [Next]_vars => IdleInv'
<1> SUFFICES ASSUME TypeOK, IdleInv, [Next]_vars PROVE IdleInv' OBVIOUS
<1> USE DEF childVars, watchVars, writerVars, rowVars, boundVars, EndSeenInv
<1> DEFINE Over == child # "running" \/ Are("run_finished", 1 .. written)
<1>a. Over => Over'
  BY ChildStays
<1>b. (status' \in {status, "running", "lost"} \/ Over) => SettledIsIdle'
  BY <1>a DEF IdleInv, SettledIsIdle
<1> HIDE DEF Over
<1>c. child # "running" => child' # "running"
  BY ChildStays
<1>d. EndSeenInv
  BY DEF IdleInv
<1>1. CASE Publish \/ WriteOut \/ Break \/ Leave \/ Killed \/ Drain \/ DropBatch \/ Receive
           \/ ReadNext \/ ReadEnd \/ ReadFails
  <2>1. EndSeenInv'
    BY <1>1, <1>c, <1>d DEF Publish, WriteOut, Break, Leave, Killed, Drain, DropBatch, Receive,
                            ReadNext, ReadEnd, ReadFails
  <2>2. status' = status
    BY <1>1 DEF Publish, WriteOut, Break, Leave, Killed, Drain, DropBatch, Receive,
                ReadNext, ReadEnd, ReadFails
  <2> QED BY <2>1, <2>2, <1>b DEF IdleInv
<1>2. CASE ObserveExit \/ Poll \/ Start \/ Die
  <2>1. EndSeenInv'
    BY <1>2, <1>c, <1>d DEF ObserveExit, Poll, Start, Die
  <2>2. status' = status
    BY <1>2 DEF ObserveExit, Poll, Start, Die
  <2> QED BY <2>1, <2>2, <1>b DEF IdleInv
<1>3. CASE Commit
  <2>1. PICK B \in inflight : Apply(B)
    BY <1>3 DEF Commit
  <2>2. B \in SUBSET (1 .. written)
    BY DEF TypeOK, WriterType
  <2>3. SettledIsIdle'
    BY <2>1, <2>2, ApplyStatus, <1>b DEF Over
  <2>4. EndSeenInv'
    BY <1>3, <1>d DEF Commit
  <2> QED BY <2>3, <2>4 DEF IdleInv
<1>4. CASE CommitLate
  <2>1. late \in SUBSET (1 .. written) /\ Apply(late)
    BY <1>4 DEF CommitLate, TypeOK, RowType
  <2>2. SettledIsIdle'
    BY <2>1, ApplyStatus, <1>b DEF Over
  <2>3. EndSeenInv'
    BY <1>4, <1>d DEF CommitLate
  <2> QED BY <2>2, <2>3 DEF IdleInv
<1>5. CASE Fatal \/ CancelGone \/ Sweep
  <2>1. child # "running" \/ status' \in {"lost", status}
    BY <1>5 DEF Fatal, CancelGone, Sweep, Settle
  <2>2. EndSeenInv'
    BY <1>5, <1>c, <1>d DEF Fatal, CancelGone, Sweep
  <2> QED BY <2>1, <2>2, <1>b DEF IdleInv, Over
<1>6. CASE CloseExit
  <2>1. child # "running"
    BY <1>6, <1>d DEF CloseExit
  <2>2. EndSeenInv'
    BY <1>6, <1>d DEF CloseExit
  <2> QED BY <2>1, <2>2, <1>b DEF IdleInv, Over
<1>7. CASE ClosePass
  <2>1. EndSeenInv'
    BY <1>7, <1>d DEF ClosePass, EndWatch, KeepWatch
  <2>2. CASE FoundEnd
    <3>1. (cursor + 1) .. upTo \subseteq 1 .. written
      BY ScriptLength DEF TypeOK, ChildType, WatchType
    <3> QED BY <2>1, <2>2, <3>1, <1>b DEF IdleInv, Over, FoundEnd, Are
  <2>3. CASE ~ FoundEnd /\ ~ sample
    <3>1. child # "running"
      BY <1>7, <2>3, <1>d DEF ClosePass
    <3> QED BY <2>1, <3>1, <1>b DEF IdleInv, Over
  <2>4. CASE ~ FoundEnd /\ sample
    <3>1. status' = status
      BY <1>7, <2>4 DEF ClosePass, KeepWatch
    <3> QED BY <2>1, <3>1, <1>b DEF IdleInv
  <2> QED BY <2>2, <2>3, <2>4
<1>8. CASE UNCHANGED vars
  BY <1>8, <1>b, <1>d DEF vars, IdleInv
<1> QED BY <1>1, <1>2, <1>3, <1>4, <1>5, <1>6, <1>7, <1>8
        DEF Next, Runner, Writer, Forked, Followed, Agent

\* Whatever fails, nobody but the sweeper settles a run whose child may still write
\* into the destination: every other settlement has seen its process end, or its
\* run_finished (run-manager.ts:319-333, 400-402).
THEOREM NobodySettlesALiveRun == Spec => []SettledIsIdle
<1>1. Init => IdleInv
  BY DEF Init, IdleInv, EndSeenInv, SettledIsIdle
<1>2. IdleInv => SettledIsIdle
  BY DEF IdleInv
<1> QED BY <1>1, <1>2, IdleStep, PipelineTyped, PTL DEF Spec
-----------------------------------------------------------------------------
(* No gap below the cursor, as long as no write fails. *)

\* What holds of a prefix of the lasting events holds of a shorter one, and in a
\* larger set.
LEMMA BelowMonotone ==
  ASSUME NEW m \in Int, NEW k \in Int, k <= m, NEW S, NEW T, S \subseteq T, Below(m, S)
  PROVE Below(k, T)
  BY ScriptLength DEF Below, Lasting, Event

\* One more event, if it is one that lasts.
LEMMA BelowNext ==
  ASSUME NEW m \in Int, NEW S, NEW T, S \subseteq T, Below(m, S),
         m + 1 \in Lasting => m + 1 \in T
  PROVE Below(m + 1, T)
  BY ScriptLength DEF Below, Lasting, Event

\* There is nothing before the first event.
LEMMA BelowNothing == ASSUME NEW S PROVE Below(0, S)
  BY ScriptLength DEF Below, Lasting, Event

\* The numbers that the invariants compare.
LEMMA Numbers ==
  TypeOK => /\ received \in Int /\ upTo \in Int /\ cursor \in Int /\ cursor <= upTo
            /\ lastSeq \in Int
            /\ buffer \subseteq Int /\ late \subseteq Int /\ stored \subseteq Int
            /\ \A B \in inflight : B \subseteq Int
  BY ScriptLength DEF TypeOK, ChildType, WatchType, WriterType, RowType

\* A step that leaves alone what the agent holds and what is stored, and starts
\* neither to read nor to wait for anything that it does not hold.
LEMMA GapQuiet ==
  ASSUME TypeOK, GapInv, UNCHANGED <<buffer, inflight, late, stored, lastSeq, received>>,
         upTo' \in {upTo, received, cursor}
  PROVE GapInv'
<1>1. Below(upTo, Held) /\ Below(received, Held)
  BY DEF GapInv, ReadInv
<1>2. Below(cursor, Held)
  BY <1>1, Numbers, BelowMonotone
<1>3. ReadInv'
  BY <1>1, <1>2 DEF ReadInv, Held, Below
<1> QED BY <1>3 DEF GapInv, NoGap, BatchInv, SerialInv, TopInv, Held, Below

\* Taking the next event keeps the buffer without a gap.
LEMMA GapPush ==
  ASSUME TypeOK, GapInv, NEW n \in Int, Below(n, Held), Push(n + 1),
         UNCHANGED <<late, stored, lastSeq>>,
         received' \in {received, n + 1}, upTo' \in {upTo, n + 1}
  PROVE GapInv'
<1>1. Held \subseteq Held'
  BY DEF Push, Held
<1>2. n + 1 \in Lasting => n + 1 \in Held'
  BY DEF Push, Kept, Held, Lasting
<1>3. Below(n + 1, Held')
  BY <1>1, <1>2, BelowNext
<1>4. ASSUME NEW m \in Int, Below(m, Held) PROVE Below(m, Held')
  BY <1>1, <1>4, BelowMonotone
<1>5. ReadInv'
  BY <1>3, <1>4, Numbers DEF GapInv, ReadInv, Below
<1>6. \A m \in buffer' : Below(m, Held')
  <2> SUFFICES ASSUME NEW m \in buffer' PROVE Below(m, Held')
    OBVIOUS
  <2>1. m \in buffer \/ m = n + 1
    BY DEF Push
  <2> QED BY <2>1, <1>3, <1>4, Numbers DEF GapInv, BatchInv
<1>7. BatchInv'
  BY <1>6 DEF GapInv, BatchInv, Push, Held, Below
<1> QED BY <1>5, <1>7 DEF GapInv, NoGap, SerialInv, TopInv, Push

\* Storing a batch that leaves no gap moves the cursor over no gap.
LEMMA GapApply ==
  ASSUME TypeOK, NoGap, TopInv, NEW B \in SUBSET (1 .. written), Apply(B),
         \A m \in B : Below(m, stored \cup B)
  PROVE NoGap' /\ TopInv' /\ stored' = stored \cup B
<1>1. stored' = stored \cup B
  BY DEF Apply
<1>2. PICK top \in B \cup {lastSeq} :
        (\A m \in B \cup {lastSeq} : m <= top) /\ lastSeq' = top
  BY DEF Apply, ProjectCursor
<1>3. Below(top, stored')
  <2>1. Below(lastSeq, stored)
    BY DEF NoGap, Below
  <2>2. Below(lastSeq, stored')
    BY <1>1, <2>1, Numbers, BelowMonotone
  <2> QED BY <1>1, <1>2, <2>2
<1>4. NoGap'
  BY <1>2, <1>3 DEF NoGap, Below
<1>5. TopInv'
  <2> SUFFICES ASSUME NEW n \in stored' PROVE n <= lastSeq'
    BY DEF TopInv
  <2>1. CASE n \in B
    BY <1>2, <2>1
  <2>2. CASE n \in stored
    <3>1. n \in Int /\ lastSeq \in Int /\ top \in Int
      BY <1>2, <2>2, Numbers
    <3>2. n <= lastSeq /\ lastSeq <= top
      BY <1>2, <2>2 DEF TopInv
    <3> QED BY <1>2, <3>1, <3>2
  <2> QED BY <1>1, <2>1, <2>2
<1> QED BY <1>1, <1>4, <1>5

\* Every step leaves no gap, if no write fails.
LEMMA GapStep == "write" \notin Faulty /\ TypeOK /\ GapInv /\ [Next]_vars => GapInv'
<1> SUFFICES ASSUME "write" \notin Faulty, TypeOK, GapInv, [Next]_vars PROVE GapInv' OBVIOUS
<1> USE DEF childVars, watchVars, writerVars, rowVars, boundVars
<1>1. CASE Publish \/ WriteOut \/ Break \/ Leave \/ Killed \/ Fatal \/ ObserveExit \/ CloseExit
           \/ Poll \/ ReadEnd \/ ReadFails \/ CancelGone \/ Sweep
  <2>1. UNCHANGED <<buffer, inflight, late, stored, lastSeq, received>>
    BY <1>1 DEF Publish, WriteOut, Break, Leave, Killed, Fatal, ObserveExit, CloseExit,
                Poll, ReadEnd, ReadFails, CancelGone, Sweep
  <2>2. upTo' \in {upTo, received, cursor}
    BY <1>1 DEF Publish, WriteOut, Break, Leave, Killed, Fatal, ObserveExit, CloseExit,
                Poll, ReadEnd, ReadFails, CancelGone, Sweep
  <2> QED BY <2>1, <2>2, GapQuiet
<1>2. CASE ClosePass \/ UNCHANGED vars
  BY <1>2, GapQuiet DEF ClosePass, vars
<1>3. CASE Receive
  BY <1>3, GapPush, Numbers DEF Receive, GapInv, ReadInv
<1>4. CASE ReadNext
  BY <1>4, GapPush, Numbers DEF ReadNext, GapInv, ReadInv
<1>5. CASE Drain
  <2>1. Held' = Held
    BY <1>5 DEF Drain, Held
  <2>2. Held = stored \cup buffer
    BY <1>5 DEF Drain, Held
  <2>3. BatchInv'
    BY <1>5, <2>2 DEF Drain, GapInv, BatchInv, Below
  <2>4. NoGap' /\ SerialInv' /\ TopInv'
    BY <1>5 DEF Drain, GapInv, NoGap, SerialInv, TopInv
  <2>5. ReadInv'
    BY <1>5, <2>1 DEF Drain, GapInv, ReadInv, Below
  <2> QED BY <2>3, <2>4, <2>5 DEF GapInv
<1>6. CASE Commit
  <2>1. PICK B \in inflight : Apply(B) /\ inflight' = inflight \ {B}
    BY <1>6 DEF Commit
  <2>2. B \in SUBSET (1 .. written) /\ \A m \in B : Below(m, stored \cup B)
    BY DEF TypeOK, WriterType, GapInv, BatchInv
  <2>3. NoGap' /\ TopInv' /\ stored' = stored \cup B
    BY <2>1, <2>2, GapApply DEF GapInv
  <2>4. inflight' = {} /\ UNION inflight = B
    BY <2>1 DEF GapInv, SerialInv
  <2>5. Held' = Held
    BY <1>6, <2>3, <2>4 DEF Commit, Held
  <2>6. BatchInv'
    BY <1>6, <2>4, <2>5 DEF Commit, GapInv, BatchInv, Below
  <2>7. ReadInv' /\ SerialInv'
    BY <1>6, <2>4, <2>5 DEF Commit, GapInv, ReadInv, SerialInv, Below
  <2> QED BY <2>3, <2>6, <2>7 DEF GapInv
<1>7. CASE DropBatch
  BY <1>7 DEF DropBatch, Fault
<1>8. CASE CommitLate
  <2>1. late \in SUBSET (1 .. written) /\ \A m \in late : Below(m, stored \cup late)
    BY DEF TypeOK, RowType, GapInv, BatchInv
  <2>2. NoGap' /\ TopInv' /\ stored' = stored \cup late
    BY <1>8, <2>1, GapApply DEF CommitLate, GapInv
  <2>3. Held \subseteq Held'
    BY <1>8, <2>2 DEF CommitLate, Held
  <2>4. BatchInv'
    BY <1>8, <2>2, <2>3 DEF CommitLate, GapInv, BatchInv, Below
  <2>5. ReadInv' /\ SerialInv'
    BY <1>8, <2>3 DEF CommitLate, GapInv, ReadInv, SerialInv, Below
  <2> QED BY <2>2, <2>4, <2>5 DEF GapInv
<1>9. CASE Die
  <2>1. buffer' = {} /\ inflight' = {} /\ received' = 0 /\ upTo' = 0
        /\ UNCHANGED <<stored, lastSeq>>
    BY <1>9 DEF Die
  <2>2. late' = {} \/ late' \in inflight \/ late' = late
    BY <1>9 DEF Die
  <2>3. BatchInv'
    BY <2>1, <2>2 DEF GapInv, BatchInv, Below
  <2>4. ReadInv'
    BY <2>1, BelowNothing DEF ReadInv
  <2>5. NoGap' /\ SerialInv' /\ TopInv'
    BY <2>1 DEF GapInv, NoGap, SerialInv, TopInv
  <2> QED BY <2>3, <2>4, <2>5 DEF GapInv
<1>10. CASE Start
  <2>1. UNCHANGED <<buffer, inflight, late, stored, lastSeq, received>>
    BY <1>10 DEF Start
  <2>2. Held' = Held
    BY <2>1 DEF Held
  <2>3. Below(lastSeq, stored) /\ stored \subseteq Held
    BY DEF GapInv, NoGap, Below, Held
  <2>4. Below(lastSeq, Held)
    BY <2>3, Numbers, BelowMonotone
  <2>5. upTo' \in {upTo, lastSeq}
    BY <1>10 DEF Start
  <2>6. ReadInv'
    BY <2>1, <2>2, <2>4, <2>5 DEF GapInv, ReadInv, Below
  <2> QED BY <2>1, <2>2, <2>6 DEF GapInv, NoGap, BatchInv, SerialInv, TopInv, Below
<1> QED BY <1>1, <1>2, <1>3, <1>4, <1>5, <1>6, <1>7, <1>8, <1>9, <1>10
        DEF Next, Runner, Writer, Forked, Followed, Agent

\* The invariant that explains NoGap: a batch is a run of events without a gap, one
\* is written at a time, and the cursor is the last event stored.
THEOREM NothingIsHeldWithAGap == "write" \notin Faulty => (Spec => []GapInv)
<1> SUFFICES ASSUME "write" \notin Faulty PROVE Spec => []GapInv OBVIOUS
<1>1. Init => GapInv
  BY BelowNothing DEF Init, GapInv, NoGap, BatchInv, SerialInv, ReadInv, TopInv, Below
<1>2. TypeOK /\ GapInv /\ [Next]_vars => GapInv'
  BY GapStep
<1> QED BY <1>1, <1>2, PipelineTyped, PTL DEF Spec

\* As long as no write fails, no lasting event is missing below the cursor from
\* which a restarted agent reads on and a browser resynchronises: through any
\* number of restarts, failed reads, COMMITs that arrive late and events that
\* come twice (event-writer.ts:213-217, ingestion.ts:100-104).
THEOREM NoGapBelowTheCursor == "write" \notin Faulty => (Spec => []NoGap)
<1> SUFFICES ASSUME "write" \notin Faulty PROVE Spec => []NoGap OBVIOUS
<1>1. GapInv => NoGap
  BY DEF GapInv
<1> QED BY <1>1, NothingIsHeldWithAGap, PTL
-----------------------------------------------------------------------------
(* The pipeline implements the log that its readers are promised. *)

\* Writing a batch never takes the cursor back.
LEMMA ApplyClimbs ==
  ASSUME TypeOK, NEW B \in SUBSET (1 .. written), Apply(B)
  PROVE lastSeq <= lastSeq'
  BY DEF Apply, ProjectCursor

\* What a reader finds changes only when a batch is written, and the cursor climbs.
LEMMA OnlyBatchesShow ==
  ASSUME TypeOK, [Next]_vars
  PROVE \/ UNCHANGED <<stored, lastSeq>>
        \/ lastSeq <= lastSeq' /\ written' = written
<1> USE DEF childVars, watchVars, writerVars, rowVars, boundVars
<1>1. CASE Commit
  <2>1. PICK B \in inflight : Apply(B)
    BY <1>1 DEF Commit
  <2> QED BY <1>1, <2>1, ApplyClimbs DEF Commit, TypeOK, WriterType
<1>2. CASE CommitLate
  BY <1>2, ApplyClimbs DEF CommitLate, TypeOK, RowType
<1>3. CASE Runner \/ Drain \/ DropBatch \/ Forked
  BY <1>3 DEF Runner, Forked, Publish, WriteOut, Break, Leave, Killed, Drain, DropBatch,
              Receive, Fatal, ObserveExit, CloseExit
<1>4. CASE Followed \/ Agent \/ UNCHANGED vars
  BY <1>4 DEF Followed, Agent, Poll, ReadNext, ReadEnd, ReadFails, ClosePass,
              CancelGone, Die, Start, Sweep, vars
<1> QED BY <1>1, <1>2, <1>3, <1>4 DEF Next, Writer

\* A step of the pipeline is a step of the log, or none.
LEMMA LogStep ==
  ASSUME TypeOK, TypeOK', GapInv', [Next]_vars
  PROVE [Log!Next]_<<written, lastSeq, stored \cap Lasting>>
<1>1. Log!Publish
  BY ChildStays DEF Log!Publish
<1>2. CASE UNCHANGED <<stored, lastSeq>>
  <2>1. UNCHANGED <<lastSeq, stored \cap Lasting>>
    BY <1>2 DEF Lasting, Event
  <2> QED BY <1>1, <2>1 DEF Log!Next
<1>3. CASE lastSeq <= lastSeq' /\ written' = written
  <2>1. lastSeq' \in lastSeq .. written
    BY <1>3, ScriptLength DEF TypeOK, ChildType, RowType
  <2>2. stored' \cap Lasting = {n \in Lasting : n <= lastSeq'}
    BY DEF GapInv, NoGap, TopInv, Lasting
  <2>3. Log!Show
    BY <2>1, <2>2 DEF Log!Show, Lasting, Event
  <2> QED BY <1>1, <2>3 DEF Log!Next
<1> QED BY <1>2, <1>3, OnlyBatchesShow

\* As long as no write fails, the pipeline shows a reader of run_events a prefix of
\* the run that only grows, whatever crashes, restarts and fails to be read
\* (event-writer.ts:213-217).
THEOREM PipelineImplementsLog == "write" \notin Faulty => (Spec => ImplementsLog)
<1> SUFFICES ASSUME "write" \notin Faulty PROVE Spec => ImplementsLog OBVIOUS
<1>1. Init => Log!Init
  BY DEF Init, Log!Init
<1>2. TypeOK /\ TypeOK' /\ GapInv' /\ [Next]_vars
        => [Log!Next]_<<written, lastSeq, stored \cap Lasting>>
  BY LogStep
<1> QED BY <1>1, <1>2, PipelineTyped, NothingIsHeldWithAGap, PTL DEF Spec, ImplementsLog, Log!Spec

-----------------------------------------------------------------------------
(* A run that is reported as vanished has vanished: one restart, no failed read *)
(* and no failed write.                                                         *)

\* Writing a batch holds what was held.
LEMMA ApplyHolds ==
  ASSUME TypeOK, NEW B \in inflight, Apply(B), inflight' = inflight \ {B}, buffer' = buffer
  PROVE stored' = stored \cup B /\ Held' \subseteq Held
<1>1. stored' = stored \cup B
  BY DEF Apply
<1>2. B \subseteq UNION inflight /\ UNION inflight' \subseteq UNION inflight
  OBVIOUS
<1> QED BY <1>1, <1>2 DEF Held

\* Before the first death nothing is late, nothing is read from the journal, and
\* nothing is held that was not heard.
LEMMA FirstAgentStep ==
  ASSUME TypeOK, FirstAgentInv, [Next]_vars
  PROVE FirstAgentInv'
<1> USE DEF childVars, watchVars, writerVars, rowVars, boundVars
<1>1. CASE Publish \/ WriteOut \/ Break \/ Leave \/ Killed \/ Fatal \/ ObserveExit \/ CloseExit
           \/ Poll \/ ReadEnd \/ ReadFails \/ CancelGone \/ Sweep \/ ClosePass \/ UNCHANGED vars
  <2>1. UNCHANGED <<buffer, inflight, stored, late, received, deaths, up>>
    BY <1>1 DEF Publish, WriteOut, Break, Leave, Killed, Fatal, ObserveExit, CloseExit,
                Poll, ReadEnd, ReadFails, CancelGone, Sweep, ClosePass, vars
  <2>2. \/ watch' = watch
        \/ watch = "ipc" /\ watch' = "exit"
        \/ watch = "exit" /\ watch' = "none"
        \/ watch \in {"tail", "pass", "flush", "failed"}
    <3>1. CASE Publish \/ WriteOut \/ Break \/ Leave \/ Killed \/ Fatal \/ CancelGone \/ Sweep
               \/ UNCHANGED vars
      <4>1. watch' = watch
        BY <3>1 DEF Publish, WriteOut, Break, Leave, Killed, Fatal, CancelGone, Sweep, vars
      <4> QED BY <4>1
    <3>2. CASE ObserveExit \/ CloseExit \/ Poll \/ ReadEnd \/ ReadFails \/ ClosePass
      BY <3>2 DEF ObserveExit, CloseExit, Poll, ReadEnd, ReadFails, ClosePass
    <3> QED BY <1>1, <3>1, <3>2
  <2>3. Held' = Held
    BY <2>1 DEF Held
  <2>4. \A n \in Held : deaths = 0 => n <= received
    BY DEF FirstAgentInv
  <2>5. \A n \in Held' : deaths' = 0 => n <= received'
    BY <2>1, <2>3, <2>4
  <2>6. deaths' = 0 => up' /\ late' = {} /\ watch' \in {"ipc", "exit", "none"}
    BY <2>1, <2>2 DEF FirstAgentInv
  <2>7. ~ up' => watch' = "none" /\ buffer' = {} /\ inflight' = {}
    BY <2>1, <2>2 DEF FirstAgentInv
  <2> QED BY <2>5, <2>6, <2>7 DEF FirstAgentInv
<1>2. CASE Receive
  <2>1. Held' \subseteq Held \cup {received + 1} /\ received' = received + 1 /\ up
    BY <1>2 DEF Receive, Push, Held, FirstAgentInv
  <2>2. UNCHANGED <<watch, late, deaths, up>>
    BY <1>2 DEF Receive
  <2>3. ASSUME deaths = 0, NEW n \in Held' PROVE n <= received'
    <3>1. CASE n \in Held
      <4>1. n <= received /\ n \in Int /\ received \in Int
        BY <2>3, <3>1, Numbers DEF FirstAgentInv, Held
      <4> QED BY <2>1, <4>1
    <3>2. CASE n = received + 1
      BY <2>1, <3>2, Numbers
    <3> QED BY <2>1, <3>1, <3>2
  <2> QED BY <2>1, <2>2, <2>3 DEF FirstAgentInv
<1>3. CASE ReadNext
  <2>1. deaths # 0 /\ up /\ UNCHANGED <<deaths, up>>
    BY <1>3 DEF ReadNext, FirstAgentInv
  <2> QED BY <2>1 DEF FirstAgentInv
<1>4. CASE Drain
  <2>1. up /\ UNCHANGED <<up, watch, late, deaths, received>>
    BY <1>4 DEF Drain
  <2>2. Held' = Held
    BY <1>4 DEF Drain, Held
  <2> QED BY <2>1, <2>2 DEF FirstAgentInv
<1>5. CASE Commit
  <2>1. PICK B \in inflight : Apply(B) /\ inflight' = inflight \ {B}
    BY <1>5 DEF Commit
  <2>2. UNCHANGED <<up, watch, late, deaths, received, buffer>>
    BY <1>5 DEF Commit
  <2>3. Held' \subseteq Held
    BY <2>1, <2>2, ApplyHolds
  <2> QED BY <2>1, <2>2, <2>3 DEF FirstAgentInv
<1>6. CASE DropBatch
  <2>1. UNCHANGED <<up, watch, late, deaths, received, buffer, stored>> /\ inflight' \subseteq inflight
    BY <1>6 DEF DropBatch
  <2>2. Held' \subseteq Held
    BY <2>1 DEF Held
  <2> QED BY <2>1, <2>2 DEF FirstAgentInv
<1>7. CASE CommitLate
  <2>1. deaths # 0 /\ UNCHANGED <<up, watch, buffer, inflight, deaths>>
    BY <1>7 DEF CommitLate, FirstAgentInv
  <2> QED BY <2>1 DEF FirstAgentInv
<1>8. CASE Die
  <2>1. deaths' # 0 /\ watch' = "none" /\ buffer' = {} /\ inflight' = {}
    BY <1>8, PipelineAssumption DEF Die, TypeOK, BoundType
  <2> QED BY <2>1 DEF FirstAgentInv
<1>9. CASE Start
  <2>1. deaths' # 0 /\ up'
    BY <1>9 DEF Start, FirstAgentInv
  <2> QED BY <2>1 DEF FirstAgentInv
<1> QED BY <1>1, <1>2, <1>3, <1>4, <1>5, <1>6, <1>7, <1>8, <1>9
        DEF Next, Runner, Writer, Forked, Followed, Agent

\* A batch whose events all come after those stored does not take back an outcome.
LEMMA OutcomeStays ==
  ASSUME TypeOK, NEW B \in SUBSET (1 .. written), Apply(B),
         \A a \in stored : \A b \in B : a < b,
         Are("run_finished", stored) => status # "running"
  PROVE Are("run_finished", stored') => status' # "running"
<1> SUFFICES ASSUME NEW n \in stored \cup B, Script[n] = "run_finished"
             PROVE status' # "running"
  BY DEF Apply, Are
<1>1. CASE Are("run_finished", B)
  BY <1>1 DEF Apply, ProjectStatus
<1>2. CASE ~ Are("run_finished", B)
  <2>1. n \in stored /\ n \in 1 .. Len(Script)
    BY <1>2, ScriptLength DEF Are, TypeOK, RowType, ChildType
  <2>2. ASSUME NEW m \in B, Script[m] = "run_started" PROVE FALSE
    <3>1. m \in 1 .. Len(Script)
      BY ScriptLength DEF TypeOK, ChildType
    <3>2. m < n
      BY <2>1, <2>2, <3>1, PipelineAssumption DEF StartsFirst
    <3> QED BY <2>1, <3>1, <3>2, ScriptLength
  <2>3. ~ Are("run_started", B)
    BY <2>2 DEF Are
  <2>4. status' = status
    BY <1>2, <2>3 DEF Apply, ProjectStatus
  <2> QED BY <2>1, <2>4 DEF Are
<1> QED BY <1>1, <1>2

\* Before the first restart events arrive, and are written, in their order.
LEMMA InOrderStep ==
  ASSUME MaxDeaths <= 1, TypeOK, GapInv, FirstAgentInv, InOrderInv, [Next]_vars
  PROVE InOrderInv'
<1> USE DEF childVars, watchVars, writerVars, rowVars, boundVars
<1>0. SUFFICES ASSUME deaths' = 0 \/ ~ up' PROVE InOrderInv'
  BY DEF InOrderInv
<1>a. UNION inflight \subseteq Int /\ buffer \subseteq Int /\ stored \subseteq Int /\ received \in Int
  BY Numbers
<1>1. CASE Publish \/ WriteOut \/ Break \/ Leave \/ Killed \/ Fatal \/ ObserveExit \/ CloseExit
           \/ Poll \/ ReadEnd \/ ReadFails \/ CancelGone \/ Sweep \/ ClosePass \/ UNCHANGED vars
  <2>1. UNCHANGED <<buffer, inflight, stored, late, deaths, up>>
    BY <1>1 DEF Publish, WriteOut, Break, Leave, Killed, Fatal, ObserveExit, CloseExit,
                Poll, ReadEnd, ReadFails, CancelGone, Sweep, ClosePass, vars
  <2>2. status # "running" => status' # "running"
    BY <1>1 DEF Publish, WriteOut, Break, Leave, Killed, Fatal, ObserveExit, CloseExit, Settle,
                Poll, ReadEnd, ReadFails, CancelGone, Sweep, ClosePass, EndWatch, KeepWatch, vars
  <2> QED BY <1>0, <2>1, <2>2 DEF InOrderInv
<1>2. CASE Receive
  <2>1. deaths = 0 /\ UNCHANGED <<stored, inflight, late, status>>
    BY <1>0, <1>2 DEF Receive, Push, FirstAgentInv
  <2>2. buffer' \subseteq buffer \cup {received + 1}
    BY <1>2 DEF Receive, Push
  <2>3. \A n \in Held : n < received + 1
    BY <1>a, <2>1 DEF FirstAgentInv, Held
  <2>4. ASSUME NEW a \in stored', NEW b \in buffer' \cup late' \cup UNION inflight' PROVE a < b
    BY <2>1, <2>2, <2>3 DEF InOrderInv, Held
  <2>5. ASSUME NEW a \in UNION inflight', NEW b \in buffer' PROVE a < b
    BY <2>1, <2>2, <2>3 DEF InOrderInv, Held
  <2>6. Are("run_finished", stored') => status' # "running"
    BY <2>1 DEF InOrderInv
  <2> QED BY <2>4, <2>5, <2>6 DEF InOrderInv
<1>3. CASE ReadNext
  BY <1>0, <1>3 DEF ReadNext, FirstAgentInv
<1>4. CASE Drain
  <2>1. UNION inflight' = buffer /\ buffer' = {} /\ UNCHANGED <<stored, late, status, deaths, up>>
    BY <1>4 DEF Drain
  <2> QED BY <1>0, <2>1 DEF InOrderInv
<1>5. CASE Commit
  <2>1. PICK B \in inflight : Apply(B) /\ inflight' = inflight \ {B}
    BY <1>5 DEF Commit
  <2>2. inflight' = {} /\ UNION inflight = B /\ late' = {}
        /\ UNCHANGED <<buffer, deaths, up>>
    BY <1>5, <2>1 DEF Commit, GapInv, SerialInv
  <2>3. stored' = stored \cup B /\ B \in SUBSET (1 .. written)
    BY <2>1 DEF Apply, TypeOK, WriterType
  <2>4. Are("run_finished", stored') => status' # "running"
    BY <1>0, <2>1, <2>2, <2>3, OutcomeStays DEF InOrderInv
  <2>5. ASSUME NEW a \in stored', NEW b \in buffer' PROVE a < b
    BY <1>0, <2>2, <2>3 DEF InOrderInv
  <2> QED BY <2>2, <2>4, <2>5 DEF InOrderInv
<1>6. CASE DropBatch
  <2>1. inflight' \subseteq inflight /\ UNCHANGED <<buffer, stored, late, status, deaths, up>>
    BY <1>6 DEF DropBatch
  <2>2. UNION inflight' \subseteq UNION inflight
    BY <2>1
  <2> QED BY <1>0, <2>1, <2>2 DEF InOrderInv
<1>7. CASE CommitLate
  <2>1. ~ up /\ buffer' = {} /\ inflight' = {} /\ late' = {}
    BY <1>0, <1>7 DEF CommitLate, FirstAgentInv
  <2>2. late \in SUBSET (1 .. written) /\ Apply(late)
    BY <1>7 DEF CommitLate, TypeOK, RowType
  <2>3. Are("run_finished", stored') => status' # "running"
    BY <2>1, <2>2, OutcomeStays DEF InOrderInv
  <2> QED BY <2>1, <2>3 DEF InOrderInv
<1>8. CASE Die
  <2>1. deaths = 0 /\ late = {}
    BY <1>8, PipelineAssumption DEF Die, TypeOK, BoundType, FirstAgentInv
  <2>2. late' = {} \/ late' \in inflight
    BY <1>8, <2>1 DEF Die
  <2>3. late' \subseteq UNION inflight
    BY <2>2
  <2>4. buffer' = {} /\ UNION inflight' = {} /\ UNCHANGED <<stored, status>>
    BY <1>8 DEF Die
  <2> QED BY <2>1, <2>3, <2>4 DEF InOrderInv
<1>9. CASE Start
  BY <1>0, <1>9 DEF Start, FirstAgentInv
<1> QED BY <1>1, <1>2, <1>3, <1>4, <1>5, <1>6, <1>7, <1>8, <1>9
        DEF Next, Runner, Writer, Forked, Followed, Agent

\* A step of the journal's reader or of nobody: what a pass is told, and its end.
LEMMA PassStep ==
  ASSUME "read" \notin Faulty, MaxDeaths <= 1,
         TypeOK, TypeOK', IdleInv, GapInv, FirstAgentInv, InOrderInv, PassInv, [Next]_vars
  PROVE PassInv'
<1> USE DEF childVars, watchVars, writerVars, rowVars, boundVars
<1>a. child # "running" => child' # "running"
  BY ChildStays
<1>b. cursor \in Int /\ upTo \in Int /\ onDisk \in Int /\ cursor <= upTo
  BY ScriptLength DEF TypeOK, ChildType, WatchType
<1>1. CASE Publish \/ WriteOut \/ Break \/ Leave \/ Killed \/ Drain \/ DropBatch \/ Receive \/ ReadNext
           \/ UNCHANGED vars
  <2>1. UNCHANGED <<watch, cursor, sample, status>> /\ (watch = "flush" => upTo' = upTo)
        /\ (onDisk' = onDisk \/ child = "running")
    BY <1>1 DEF Publish, WriteOut, Break, Leave, Killed, Drain, DropBatch, Receive, ReadNext, vars
  <2> QED BY <2>1, <1>a DEF PassInv, IdleInv, EndSeenInv
<1>2. CASE Commit \/ CommitLate
  <2>1. UNCHANGED <<childVars, watchVars>> /\ status' \in {"finished", "running", status}
    BY <1>2 DEF Commit, CommitLate, Apply, ProjectStatus
  <2> QED BY <2>1 DEF PassInv
<1>3. CASE Fatal \/ ObserveExit \/ CloseExit \/ CancelGone \/ Sweep \/ Die
  <2>1. /\ watch' \in {watch, "exit", "none"}
        /\ watch' \in {"tail", "pass", "flush"} => UNCHANGED <<watch, cursor, sample, upTo>>
        /\ onDisk' = onDisk /\ status' \in {status, "fatal", "crashed", "gone", "lost"}
    BY <1>3 DEF Fatal, ObserveExit, CloseExit, CancelGone, Sweep, Die, Settle
  <2> QED BY <2>1, <1>a DEF PassInv
<1>4. CASE Poll \/ ReadEnd
  <2>1. /\ watch' \in {"pass", "flush"} /\ watch \in {"tail", "pass"}
        /\ watch' = "flush" => onDisk <= upTo
        /\ upTo' \in {cursor, upTo} /\ (watch' = "flush" => upTo' = upTo)
        /\ UNCHANGED <<cursor, onDisk, status>>
    BY <1>4, <1>b DEF Poll, ReadEnd
  <2> QED BY <2>1, <1>a DEF PassInv
<1>5. CASE ReadFails
  BY <1>5 DEF ReadFails, Fault
<1>6. CASE ClosePass
  <2>1. UNCHANGED <<childVars, sample, upTo>> /\ watch = "flush"
    BY <1>6 DEF ClosePass, PassInv
  <2>2. CASE FoundEnd
    <3>1. watch' = "none" /\ status' \in {status, "finished"}
      BY <1>6, <2>2 DEF ClosePass, EndWatch, Settle
    <3> QED BY <2>1, <3>1 DEF PassInv
  <2>3. CASE ~ FoundEnd /\ ~ sample
    <3>1. watch' = "none" /\ child # "running"
      BY <1>6, <2>1, <2>3 DEF ClosePass, EndWatch, IdleInv, EndSeenInv
    <3> QED BY <3>1, <1>a DEF PassInv
  <2>4. CASE ~ FoundEnd /\ sample
    <3>1. watch' = "tail" /\ cursor' = upTo /\ status' = status
      BY <1>6, <2>1, <2>4 DEF ClosePass, KeepWatch
    <3>2. 1 .. upTo \subseteq (1 .. cursor) \cup ((cursor + 1) .. upTo)
      BY <1>b
    <3>3. ~ Are("run_finished", 1 .. cursor)
      BY <2>1 DEF PassInv
    <3>4. ~ Are("run_finished", 1 .. upTo)
      BY <2>4, <3>2, <3>3 DEF FoundEnd, Are
    <3> QED BY <2>1, <3>1, <3>4 DEF PassInv
  <2> QED BY <2>2, <2>3, <2>4
<1>7. CASE Start
  <2>1. UNCHANGED <<childVars, stored, status>>
    BY <1>7 DEF Start
  <2>2. CASE status # "running"
    <3>1. watch' = "none"
      BY <1>7, <2>2 DEF Start, FirstAgentInv
    <3> QED BY <2>1, <3>1 DEF PassInv
  <2>3. CASE status = "running"
    <3>1. watch' = "pass" /\ cursor' = lastSeq /\ ~ up
      BY <1>7, <2>3 DEF Start
    <3>2. ~ Are("run_finished", stored)
      BY <2>3, <3>1 DEF InOrderInv
    <3>3. ASSUME NEW n \in 1 .. lastSeq, Script[n] = "run_finished" PROVE FALSE
      <4>1. n \in Lasting /\ n <= lastSeq
        BY <3>3, ScriptLength DEF Lasting, Event, TypeOK, RowType, ChildType
      <4>2. n \in stored
        BY <4>1 DEF GapInv, NoGap
      <4> QED BY <3>2, <3>3, <4>2 DEF Are
    <3> QED BY <2>1, <2>3, <3>1, <3>3 DEF PassInv, Are
  <2> QED BY <2>2, <2>3
<1> QED BY <1>1, <1>2, <1>3, <1>4, <1>5, <1>6, <1>7
        DEF Next, Runner, Writer, Forked, Followed, Agent

\* The pass that reports a run as vanished has read, and stored, its whole journal.
LEMMA LastPass ==
  ASSUME TypeOK, GapInv, PassInv, ClosePass, ~ FoundEnd, ~ sample
  PROVE {n \in Lasting : n <= onDisk} \subseteq stored /\ ~ Are("run_finished", 1 .. onDisk)
<1>1. watch = "flush" /\ Flushed
  BY DEF ClosePass, PassInv
<1>2. onDisk <= upTo /\ ~ Are("run_finished", 1 .. cursor)
  BY <1>1 DEF PassInv
<1>3. cursor \in Int /\ upTo \in Int /\ onDisk \in Int /\ cursor <= upTo
  BY ScriptLength DEF TypeOK, ChildType, WatchType
<1>4. ASSUME NEW n \in Lasting, n <= onDisk PROVE n \in stored
  <2>1. n \in Int /\ n <= upTo
    BY <1>2, <1>3, <1>4, ScriptLength DEF Lasting, Event
  <2>2. n \in Held
    BY <2>1 DEF GapInv, ReadInv, Below
  <2>3. n \notin buffer \cup UNION inflight
    BY <1>1, <1>3, <2>1 DEF Flushed
  <2> QED BY <2>2, <2>3 DEF Held
<1>5. 1 .. onDisk \subseteq (1 .. cursor) \cup ((cursor + 1) .. upTo)
  BY <1>2, <1>3
<1>6. ~ Are("run_finished", 1 .. onDisk)
  BY <1>2, <1>5 DEF FoundEnd, Are
<1> QED BY <1>4, <1>6

\* A run that was reported as vanished stays one without an outcome in its journal.
LEMMA ExplainedStep ==
  ASSUME TypeOK, GapInv, PassInv, ExplainedOutcome, [Next]_vars
  PROVE ExplainedOutcome'
<1> USE DEF childVars, watchVars, writerVars, rowVars, boundVars
<1>0. SUFFICES ASSUME status' = "vanished" PROVE ExplainedOutcome'
  BY DEF ExplainedOutcome
<1>1. stored \subseteq stored'
  BY DEF Next, Runner, Writer, Forked, Followed, Agent, vars, Apply,
         Publish, WriteOut, Break, Leave, Killed, Drain, Commit, DropBatch, CommitLate,
         Receive, Fatal, ObserveExit, CloseExit, Poll, ReadNext, ReadEnd, ReadFails, ClosePass,
         CancelGone, Die, Start, Sweep
<1>2. onDisk' = onDisk \/ (child = "running" /\ status' = status)
  BY DEF Next, Runner, Writer, Forked, Followed, Agent, vars,
         Publish, WriteOut, Break, Leave, Killed, Drain, Commit, DropBatch, CommitLate,
         Receive, Fatal, ObserveExit, CloseExit, Poll, ReadNext, ReadEnd, ReadFails, ClosePass,
         CancelGone, Die, Start, Sweep
<1>3. status = "vanished" \/ (ClosePass /\ ~ FoundEnd /\ ~ sample)
  <2>1. CASE Runner \/ Drain \/ DropBatch \/ UNCHANGED vars
    BY <1>0, <2>1 DEF Runner, Publish, WriteOut, Break, Leave, Killed, Drain, DropBatch, vars
  <2>2. CASE Commit \/ CommitLate
    BY <1>0, <2>2 DEF Commit, CommitLate, Apply, ProjectStatus
  <2>3. CASE Forked
    BY <1>0, <2>3 DEF Forked, Receive, Fatal, ObserveExit, CloseExit, Settle
  <2>4. CASE Poll \/ ReadNext \/ ReadEnd \/ ReadFails \/ Agent
    BY <1>0, <2>4 DEF Poll, ReadNext, ReadEnd, ReadFails, Agent, CancelGone, Die, Start, Sweep, Settle
  <2>5. CASE ClosePass
    BY <1>0, <2>5 DEF ClosePass, EndWatch, KeepWatch, Settle
  <2> QED BY <2>1, <2>2, <2>3, <2>4, <2>5 DEF Next, Writer, Followed
<1>4. {n \in Lasting : n <= onDisk} \subseteq stored /\ ~ Are("run_finished", 1 .. onDisk)
  BY <1>3, LastPass DEF ExplainedOutcome
<1>5. onDisk' = onDisk
  <2>1. CASE status = "vanished"
    BY <1>2, <2>1 DEF PassInv
  <2>2. CASE ClosePass
    BY <2>2 DEF ClosePass
  <2> QED BY <1>3, <2>1, <2>2
<1>6. {n \in Lasting : n <= onDisk'} \subseteq stored' /\ ~ Are("run_finished", 1 .. onDisk')
  BY <1>1, <1>4, <1>5
<1> QED BY <1>6 DEF ExplainedOutcome, Lasting, Event, Are

\* With one restart at most, and no failed read or write, the invariant that explains
\* why a run is reported as vanished holds.
THEOREM PassesAreComplete ==
  MaxDeaths <= 1 /\ Faulty \cap {"read", "write"} = {} => (Spec => []OutcomeInv)
<1> SUFFICES ASSUME MaxDeaths <= 1, Faulty \cap {"read", "write"} = {} PROVE Spec => []OutcomeInv
  OBVIOUS
<1>1. "read" \notin Faulty /\ "write" \notin Faulty
  OBVIOUS
<1>2. Init => OutcomeInv
  <2> SUFFICES ASSUME Init PROVE OutcomeInv OBVIOUS
  <2>1. InOrderInv
    BY DEF Init, InOrderInv, Are
  <2>2. FirstAgentInv
    BY DEF Init, FirstAgentInv, Held
  <2>3. PassInv /\ ExplainedOutcome
    BY DEF Init, PassInv, ExplainedOutcome
  <2> QED BY <2>1, <2>2, <2>3 DEF OutcomeInv
<1>3. TypeOK /\ TypeOK' /\ IdleInv /\ GapInv /\ OutcomeInv /\ [Next]_vars => OutcomeInv'
  <2> SUFFICES ASSUME TypeOK, TypeOK', IdleInv, GapInv, OutcomeInv, [Next]_vars PROVE OutcomeInv'
    OBVIOUS
  <2>1. InOrderInv /\ FirstAgentInv /\ PassInv /\ ExplainedOutcome
    BY DEF OutcomeInv
  <2>2. InOrderInv'
    BY <2>1, InOrderStep
  <2>3. FirstAgentInv'
    BY <2>1, FirstAgentStep
  <2>4. PassInv'
    BY <1>1, <2>1, PassStep
  <2>5. ExplainedOutcome'
    BY <2>1, ExplainedStep
  <2> QED BY <2>2, <2>3, <2>4, <2>5 DEF OutcomeInv
<1>4. Init => IdleInv
  BY DEF Init, IdleInv, EndSeenInv, SettledIsIdle
<1>5. Spec => []GapInv
  BY <1>1, NothingIsHeldWithAGap
<1> QED BY <1>2, <1>3, <1>4, <1>5, IdleStep, PipelineTyped, PTL DEF Spec

\* With one restart at most, and no failed read or write, a run is reported as
\* vanished only if its journal says no outcome and all of its journal is stored,
\* whatever COMMIT of the dead agent arrives late (run-manager.ts:261-268, 292-295).
THEOREM VanishedIsExplained ==
  MaxDeaths <= 1 /\ Faulty \cap {"read", "write"} = {} => (Spec => []ExplainedOutcome)
<1> SUFFICES ASSUME MaxDeaths <= 1, Faulty \cap {"read", "write"} = {}
             PROVE Spec => []ExplainedOutcome
  OBVIOUS
<1>1. OutcomeInv => ExplainedOutcome
  BY DEF OutcomeInv
<1> QED BY <1>1, PassesAreComplete, PTL

\* Whatever is read or written again, late or never, a finished table never goes back
\* to running: the safety half of RunIsRecorded (run-projection.ts:193-214,
\* ingestion.ts:72-76).
THEOREM FinishedTableStaysFinished == Spec => TableStaysDone
<1> USE DEF childVars, watchVars, writerVars, rowVars, boundVars
<1>1. ASSUME [Next]_vars, table = "done" PROVE table' = "done"
  <2>1. CASE Commit \/ CommitLate
    BY <1>1, <2>1 DEF Commit, CommitLate, Apply, ProjectTable
  <2>2. CASE Runner \/ Drain \/ DropBatch \/ Forked
    BY <1>1, <2>2 DEF Runner, Forked, Publish, WriteOut, Break, Leave, Killed, Drain, DropBatch,
                      Receive, Fatal, ObserveExit, CloseExit
  <2>3. CASE Followed \/ Agent \/ UNCHANGED vars
    BY <1>1, <2>3 DEF Followed, Agent, Poll, ReadNext, ReadEnd, ReadFails, ClosePass,
                      CancelGone, Die, Start, Sweep, vars
  <2> QED BY <1>1, <2>1, <2>2, <2>3 DEF Next, Writer
<1>2. [Next]_vars => [table = "done" => table' = "done"]_vars
  BY <1>1
<1> QED BY <1>2, PTL DEF Spec, TableStaysDone
=============================================================================
