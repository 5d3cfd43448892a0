------------------------------- MODULE Probes -------------------------------
(***************************************************************************)
(* Test and Preview asked of a runner class.  A request of the console     *)
(* inserts a row in runner_probes and waits; a runner's ProbeWorker claims *)
(* the row, connects to the databases and writes the answer back.  Nothing *)
(* is durable on purpose: the row lives as long as its request, and the    *)
(* sweeper removes what a request left behind.                             *)
(*                                                                         *)
(* Both sides talk to the database alone.  A statement is sent, takes      *)
(* effect and, where the difference shows, is answered in separate steps:  *)
(* a request's within its Delay, a runner's at any time.  A NOTIFY is      *)
(* a hint that may be lost: the worker's poll and the waiter's timer are   *)
(* the floor.                                                              *)
(***************************************************************************)
EXTENDS Integers, FiniteSets

CONSTANTS
  Asker,            \* requests for a Test or a Preview, all of one class
  ProbeSlots,       \* probes the worker answers at once
  Wait,             \* ticks a user waits, and a probe may run
  Grace,            \* what a row lives longer than its request waits
  Recheck,          \* ticks between two looks at the row
  Delay,            \* bound: ticks a statement of each request may take
  MaxProbeFaults    \* statements that fail, and processes that die

\* run-probe.ts gives a row five seconds more than its request waits; nothing
\* ties them to the time a statement takes.
ASSUME ProbeAssumption ==
  /\ ProbeSlots \in Nat /\ Wait \in Nat \ {0} /\ Recheck \in Nat \ {0}
  /\ Delay \in [Asker -> Nat] /\ MaxProbeFaults \in Nat
  /\ Grace \in Nat /\ \A q \in Asker : Grace > 2 * Delay[q]

VARIABLES
  pc,         \* what each request is at
  age,        \* ticks since its statement was sent
  left,       \* ticks to its deadline
  nap,        \* ticks until it looks by itself
  outcome,    \* how it ended
  probe,      \* the status of its row in runner_probes
  ttl,        \* ticks until the row has expired
  online,     \* runners.state of the class's runner
  up,         \* the runner's process
  loop,       \* the worker's claim loop
  claimed,    \* the rows its claim took, none or one
  wakeAgain,  \* a wake arrived during the loop
  job,        \* probes in flight in the worker
  jobLeft,    \* ticks a job may still run
  stop,       \* ProbeWorker.stop: not called, waiting, returned
  probeFaults,
  inTime      \* history: the requests whose answer was stored with time to read it

asking == <<pc, age, left, nap, outcome>>
rows == <<probe, ttl>>
working == <<loop, claimed, wakeAgain, job, jobLeft>>
runnerVars == <<online, up, stop>>
probeVars == <<asking, rows, working, runnerVars, probeFaults, inTime>>

\* A request whose statement is under way.
InStatement == {"inserting", "inserted", "taking", "took", "missed", "deleting"}

Busy == {q \in Asker : job[q] # "none"}

ProbeInit ==
  /\ pc = [q \in Asker |-> "idle"] /\ age = [q \in Asker |-> 0] /\ left = [q \in Asker |-> Wait]
  /\ nap = [q \in Asker |-> 0] /\ outcome = [q \in Asker |-> "none"]
  /\ probe = [q \in Asker |-> "none"] /\ ttl = [q \in Asker |-> 0]
  /\ online = TRUE /\ up = TRUE /\ stop = "no"
  /\ loop = "idle" /\ claimed = {} /\ wakeAgain = FALSE
  /\ job = [q \in Asker |-> "none"] /\ jobLeft = [q \in Asker |-> 0]
  /\ probeFaults = 0 /\ inTime = {}

-----------------------------------------------------------------------------
(***************************************************************************)
(* The request.                                                            *)
(***************************************************************************)

At(q, here) == pc[q] = here

Send(q, there) == pc' = [pc EXCEPT ![q] = there] /\ age' = [age EXCEPT ![q] = 0]

Goes(q, there) == pc' = [pc EXCEPT ![q] = there] /\ UNCHANGED age

EndRequest(q, how) ==
  /\ pc' = [pc EXCEPT ![q] = "over"] /\ age' = [age EXCEPT ![q] = 0]
  /\ outcome' = [outcome EXCEPT ![q] = how]
  /\ left' = [left EXCEPT ![q] = Wait] /\ nap' = [nap EXCEPT ![q] = 0]

\* runProbe: is any runner of the class online?  Its row may outlive it.
Available(q) ==
  /\ At(q, "idle")
  /\ IF online /\ ProbeSlots > 0
     THEN Send(q, "inserting") /\ UNCHANGED <<left, nap, outcome>>
     ELSE EndRequest(q, "no_runner")
  /\ UNCHANGED <<rows, working, runnerVars, probeFaults, inTime>>

\* Mutant: the row lives no longer than its request waits.
EnqueueProbeNoGrace(q) ==
  /\ At(q, "inserting") /\ Goes(q, "inserted")
  /\ probe' = [probe EXCEPT ![q] = "queued"] /\ ttl' = [ttl EXCEPT ![q] = Wait]
  /\ UNCHANGED <<left, nap, outcome, working, runnerVars, probeFaults, inTime>>

\* enqueueProbe commits: the row expires a little after the wait, counted from now.
EnqueueProbe(q) ==
  /\ At(q, "inserting") /\ Goes(q, "inserted")
  /\ probe' = [probe EXCEPT ![q] = "queued"] /\ ttl' = [ttl EXCEPT ![q] = Wait + Grace]
  /\ UNCHANGED <<left, nap, outcome, working, runnerVars, probeFaults, inTime>>

\* The deadline is counted from the answer of the insert.
ProbeEnqueued(q) ==
  /\ At(q, "inserted") /\ Send(q, "taking") /\ left' = [left EXCEPT ![q] = Wait]
  /\ UNCHANGED <<nap, outcome, rows, working, runnerVars, probeFaults, inTime>>

\* takeProbeResult commits: an answer is read once, deleting its row.
Take(q) ==
  /\ At(q, "taking")
  /\ IF probe[q] = "done"
     THEN Goes(q, "took") /\ probe' = [probe EXCEPT ![q] = "none"] /\ ttl' = [ttl EXCEPT ![q] = 0]
     ELSE Goes(q, "missed") /\ UNCHANGED rows
  /\ UNCHANGED <<left, nap, outcome, working, runnerVars, probeFaults, inTime>>

Served(q) ==
  /\ At(q, "took") /\ EndRequest(q, "done") /\ inTime' = inTime \ {q}
  /\ UNCHANGED <<rows, working, runnerVars, probeFaults>>

\* No answer yet: give up, or wait for a hint, never past the deadline.
Missed(q) ==
  /\ At(q, "missed")
  /\ IF left[q] <= 0
     THEN Send(q, "deleting") /\ UNCHANGED nap
     ELSE Send(q, "napping")
          /\ nap' = [nap EXCEPT ![q] = IF Recheck < left[q] THEN Recheck ELSE left[q]]
  /\ UNCHANGED <<left, outcome, rows, working, runnerVars, probeFaults, inTime>>

\* ProbeWaiters: the NOTIFY of the answer, the return of a lost LISTEN, or the timer.
WakeWaiter(q) ==
  /\ At(q, "napping") /\ (probe[q] = "done" \/ nap[q] = 0) /\ Send(q, "taking")
  /\ nap' = [nap EXCEPT ![q] = 0]
  /\ UNCHANGED <<left, outcome, rows, working, runnerVars, probeFaults, inTime>>

\* abandonProbe, whatever the row has become; the user is told of a timeout.
Abandon(q) ==
  /\ At(q, "deleting") /\ EndRequest(q, "timeout")
  /\ probe' = [probe EXCEPT ![q] = "none"] /\ ttl' = [ttl EXCEPT ![q] = 0]
  /\ UNCHANGED <<working, runnerVars, probeFaults, inTime>>

\* A statement fails, or its answer is lost, or the web process dies: the request
\* is over and its row is left to the sweeper.
Breaks(q) ==
  /\ pc[q] \in InStatement \cup {"napping"} /\ probeFaults < MaxProbeFaults
  /\ probeFaults' = probeFaults + 1 /\ EndRequest(q, "error")
  /\ inTime' = inTime \ {q}
  /\ UNCHANGED <<rows, working, runnerVars>>

-----------------------------------------------------------------------------
(***************************************************************************)
(* The worker.                                                             *)
(***************************************************************************)

\* One turn of claimLoop over the jobs in flight: claim another, or let the loop
\* end and start again if it was woken meanwhile, which asks the same.
Turn(jobs, loopGoesOn) ==
  IF stop = "no" /\ Cardinality(jobs) < ProbeSlots /\ (loopGoesOn \/ wakeAgain)
  THEN loop' = "sent" /\ wakeAgain' = (loopGoesOn /\ wakeAgain)
  ELSE loop' = "idle" /\ wakeAgain' = FALSE

\* wake(): the poll, a NOTIFY of the class or a LISTEN that is back.
WakeWorker ==
  /\ up /\ stop = "no" /\ ProbeSlots > 0
  /\ IF loop = "idle" THEN Turn(Busy, TRUE) ELSE wakeAgain' = TRUE /\ UNCHANGED loop
  /\ UNCHANGED <<claimed, job, jobLeft, asking, rows, runnerVars, probeFaults, inTime>>

\* The oldest queued probe that has not expired; of one kind, it has least to live.
Oldest ==
  LET waiting == {q \in Asker : probe[q] = "queued" /\ ttl[q] > 0}
  IN  {q \in waiting : \A p \in waiting : ttl[q] <= ttl[p]}

\* claimProbe commits: SKIP LOCKED, one probe, its request cleared.
ClaimProbe ==
  /\ up /\ loop = "sent" /\ loop' = "answered"
  /\ \/ \E q \in Oldest : claimed' = {q} /\ probe' = [probe EXCEPT ![q] = "running"]
     \/ Oldest = {} /\ claimed' = {} /\ UNCHANGED probe
  /\ UNCHANGED <<wakeAgain, job, jobLeft, ttl, asking, runnerVars, probeFaults, inTime>>

\* The claim's answer: a job starts, against its own deadline, and the loop goes on.
Claimed ==
  /\ up /\ loop = "answered"
  /\ job' = [q \in Asker |-> IF q \in claimed THEN "running" ELSE job[q]]
  /\ jobLeft' = [q \in Asker |-> IF q \in claimed THEN Wait ELSE jobLeft[q]]
  /\ Turn(Busy \cup claimed, claimed # {}) /\ claimed' = {}
  /\ UNCHANGED <<asking, rows, runnerVars, probeFaults, inTime>>

\* The claim fails, before or after its commit; the loop ends.
ClaimFails ==
  /\ up /\ loop \in {"sent", "answered"} /\ probeFaults < MaxProbeFaults /\ probeFaults' = probeFaults + 1
  /\ Turn(Busy, FALSE) /\ claimed' = {}
  /\ UNCHANGED <<job, jobLeft, asking, rows, runnerVars, inTime>>

\* open refuses the request, or execute ends: there is a result, of either kind.
Executed(q) ==
  /\ up /\ job[q] = "running"
  /\ job' = [job EXCEPT ![q] = "storing"]
  /\ jobLeft' = [jobLeft EXCEPT ![q] = 0]
  /\ UNCHANGED <<loop, claimed, wakeAgain, asking, rows, runnerVars, probeFaults, inTime>>

\* executeWithin: the deadline frees the slot, whether or not the driver stops.
Expires(q) == jobLeft[q] = 0 /\ Executed(q)

\* The job leaves its slot and wakes the worker.
LeaveSlot(q) ==
  /\ job' = [job EXCEPT ![q] = "none"]
  /\ IF loop = "idle" THEN Turn(Busy \ {q}, TRUE) ELSE wakeAgain' = (wakeAgain \/ stop = "no") /\ UNCHANGED loop

\* completeProbe, where the row is still there; then the slot is free.
StoreAnswer(q) ==
  /\ up /\ job[q] = "storing" /\ LeaveSlot(q)
  /\ IF probe[q] = "running"
     THEN /\ probe' = [probe EXCEPT ![q] = "done"]
          /\ inTime' = IF left[q] > Delay[q] /\ pc[q] # "over" THEN inTime \cup {q} ELSE inTime
     ELSE UNCHANGED <<probe, inTime>>
  /\ UNCHANGED <<claimed, jobLeft, ttl, asking, runnerVars, probeFaults>>

StoreFails(q) ==
  /\ up /\ job[q] = "storing" /\ LeaveSlot(q) /\ probeFaults < MaxProbeFaults /\ probeFaults' = probeFaults + 1
  /\ UNCHANGED <<claimed, jobLeft, asking, rows, runnerVars, inTime>>

\* stop(): nothing more is claimed; it returns when the claim under way and the
\* probes in flight are over, and the process ends.
Stop ==
  /\ up /\ stop = "no" /\ stop' = "waiting"
  /\ UNCHANGED <<asking, rows, working, online, up, probeFaults, inTime>>

StopReturns ==
  /\ up /\ stop = "waiting" /\ loop = "idle" /\ Busy = {}
  /\ stop' = "returned" /\ up' = FALSE
  /\ UNCHANGED <<asking, rows, working, online, probeFaults, inTime>>

\* The runner dies with its jobs; the row of the runner stays online for a while.
WorkerDies ==
  /\ up /\ probeFaults < MaxProbeFaults /\ probeFaults' = probeFaults + 1 /\ up' = FALSE /\ stop' = "died"
  /\ loop' = "idle" /\ claimed' = {} /\ wakeAgain' = FALSE
  /\ job' = [q \in Asker |-> "none"] /\ jobLeft' = [q \in Asker |-> 0]
  /\ UNCHANGED <<asking, rows, online, inTime>>

\* It says so as it leaves, or the sweeper finds out.
GoesOffline ==
  /\ ~ up /\ online /\ online' = FALSE
  /\ UNCHANGED <<asking, rows, working, up, stop, probeFaults, inTime>>

\* A new process of the class registers and starts its worker.
ComesBack ==
  /\ ~ up /\ up' = TRUE /\ online' = TRUE /\ stop' = "no"
  /\ UNCHANGED <<asking, rows, working, probeFaults, inTime>>

-----------------------------------------------------------------------------
\* Mutant: only what was claimed is swept.
SweepClaimed ==
  /\ \E q \in Asker : probe[q] \in {"running", "done"} /\ ttl[q] = 0
  /\ probe' = [q \in Asker |-> IF probe[q] # "queued" /\ ttl[q] = 0 THEN "none" ELSE probe[q]]
  /\ UNCHANGED <<ttl, asking, working, runnerVars, probeFaults, inTime>>

\* sweep: the probes nobody can be waiting for.
SweepProbes ==
  /\ \E q \in Asker : probe[q] # "none" /\ ttl[q] = 0
  /\ probe' = [q \in Asker |-> IF ttl[q] = 0 THEN "none" ELSE probe[q]]
  /\ UNCHANGED <<ttl, asking, working, runnerVars, probeFaults, inTime>>

Less(n) == IF n > 0 THEN n - 1 ELSE 0

\* A request's statement is answered in time; a timer that is due fires first.
ClockTick ==
  /\ \A q \in Asker :
       /\ pc[q] \in InStatement => age[q] < Delay[q]
       /\ At(q, "napping") => nap[q] > 0
       /\ job[q] = "running" /\ up => jobLeft[q] > 0
  /\ age' = [q \in Asker |-> IF pc[q] \in InStatement THEN age[q] + 1 ELSE age[q]]
  /\ left' = [q \in Asker |-> IF pc[q] \in {"taking", "took", "missed", "napping"} /\ left[q] > 0
                            THEN left[q] - 1 ELSE left[q]]
  /\ nap' = [q \in Asker |-> Less(nap[q])] /\ ttl' = [q \in Asker |-> Less(ttl[q])]
  /\ jobLeft' = [q \in Asker |-> Less(jobLeft[q])]
  /\ UNCHANGED <<pc, outcome, probe, online, up, loop, claimed, wakeAgain, job, stop, probeFaults, inTime>>

RequestStep(q) ==
  \/ Available(q) \/ EnqueueProbe(q) \/ ProbeEnqueued(q) \/ Take(q) \/ Served(q) \/ Missed(q)
  \/ WakeWaiter(q) \/ Abandon(q) \/ Breaks(q)

WorkerStep ==
  \/ WakeWorker \/ ClaimProbe \/ Claimed \/ ClaimFails \/ Stop \/ StopReturns \/ WorkerDies \/ GoesOffline \/ ComesBack
  \/ \E q \in Asker : Executed(q) \/ Expires(q) \/ StoreAnswer(q) \/ StoreFails(q)

ProbeNext == WorkerStep \/ SweepProbes \/ ClockTick \/ \E q \in Asker : RequestStep(q)

ProbeSpec == ProbeInit /\ [][ProbeNext]_probeVars

\* The clock, the sweeper and every statement go on; the databases asked about may
\* never answer, and nothing makes a process come back.
ProbeFairness ==
  /\ WF_probeVars(ClockTick) /\ WF_probeVars(SweepProbes)
  /\ WF_probeVars(ClaimProbe \/ Claimed) /\ WF_probeVars(StopReturns)
  /\ \A q \in Asker :
       /\ WF_probeVars(EnqueueProbe(q) \/ ProbeEnqueued(q) \/ Take(q) \/ Served(q) \/ Missed(q)
                       \/ WakeWaiter(q) \/ Abandon(q))
       /\ WF_probeVars(Expires(q)) /\ WF_probeVars(StoreAnswer(q))

-----------------------------------------------------------------------------
(***************************************************************************)
(* Properties.                                                             *)
(***************************************************************************)

\* A request that will look at its probe again.
Looking(q) == pc[q] \in {"inserted", "taking", "napping"} \/ (At(q, "missed") /\ left[q] > 0)

\* The sweeper never removes a row its request is still waiting on (the grace of
\* run-probe.ts), however late the insert and the last look are.
AwaitedRowStands == \A q \in Asker : Looking(q) => probe[q] # "none"

\* A user is told "timeout" only if no answer was stored while a whole statement
\* still fitted in before the deadline, whether or not its NOTIFY arrived.
StoredAnswerIsServed == \A q \in Asker : outcome[q] = "timeout" => q \notin inTime

\* stop() leaves no probe that was claimed and never answered behind, unless a
\* statement failed or a process died.
StopAnswers == stop = "returned" /\ probeFaults = 0 => \A q \in Asker : probe[q] # "running"

\* So a probe that was claimed is answered, and an answer that is written in time is read.
AnswersReachTheUser == AwaitedRowStands /\ StoredAnswerIsServed /\ StopAnswers

\* A request that is over leaves neither a row, whose request holds passwords, nor
\* a slot taken, though the database it asked about never answers.
NothingLeftBehind == \A q \in Asker : At(q, "over") ~> probe[q] = "none" /\ job[q] = "none"
=============================================================================
