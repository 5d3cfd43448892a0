------------------------------ MODULE RunQueue ------------------------------
(***************************************************************************)
(* The run queue of movy-data and the runner agents that work it.          *)
(*                                                                         *)
(* `runs` is the queue.  A web console inserts a queued row; an agent      *)
(* claims it, which grants a lease; the agent forks a child that writes    *)
(* into the destination database; a heartbeat keeps the lease in the       *)
(* future; a sweeper settles what nobody renews; and an agent kills        *)
(* ("fences") a child whose lease it can no longer vouch for, before the   *)
(* sweeper could hand the destination to somebody else.                    *)
(*                                                                         *)
(* Every statement of the agent is split where another actor can get in    *)
(* between: sent, committed by the database, answered -- or lost.  A run   *)
(* is claimed at most once, so what an agent remembers about its runs is   *)
(* kept per run, and `runner[r]` names the agent whose memory it is.       *)
(*                                                                         *)
(* Time is kept as what remains of a lease and as the age of a request,    *)
(* never as a date, so the clock itself needs no bound.  A query that the  *)
(* database has not run when its sender dies or gives up on it is taken    *)
(* never to run.                                                           *)
(***************************************************************************)
EXTENDS Integers, FiniteSets

CONSTANTS
  Host,       \* the runner agents; a restarted one keeps its id
  NRuns,      \* runs ever launched, numbered in the order of created_at
  Target,     \* Target[r]: runs.target_lock_key, the database r writes to
  NoTarget,   \* the null key of a simulated run, which writes nowhere
  NoHost,     \* the null runner_id
  Slots,      \* runs one agent executes at once
  Lease,      \* DEFAULT_LEASE_MS, in ticks
  Margin,     \* fenceMarginMs, in ticks
  Check,      \* leaseCheckIntervalMs, in ticks
  Ends,       \* bound: the outcomes a child may report
  Cancelled,  \* bound: the runs a user may cancel
  Beat,       \* identifies the heartbeats one agent may have in flight
  MaxDelay,   \* bound: ticks an agent's request may take
  MaxFaults,  \* bound: statements that fail, or whose answer is lost
  MaxDeaths   \* bound: agent processes that stop or crash

Run == 1 .. NRuns
NoRun == 0

ASSUME QueueAssumption ==
  /\ NRuns \in Nat
  /\ DOMAIN Target = Run
  /\ NoHost \notin Host
  /\ Slots \in Nat \ {0}
  /\ Lease \in Nat /\ Margin \in Nat /\ Check \in Nat \ {0}
  /\ Margin < Lease
  /\ Check <= Margin + 1
  /\ Ends \subseteq {"succeeded", "failed", "cancelled"}
  /\ Cancelled \subseteq Run
  /\ MaxDelay \in Nat /\ MaxFaults \in Nat /\ MaxDeaths \in Nat

Active == {"running", "cancelling"}
Outcome == {"succeeded", "failed", "cancelled"}
Status == {"absent", "queued"} \cup Active \cup Outcome

\* What an agent counts from a renewal: a run is fenced at this age.
Deadline == Lease - Margin

\* The age of a request.  Past the lease all ages are alike.
Age == 0 .. Lease + 1

\* An entry of RunnerAgent.owned: there is none, or the ticks since its renewal
\* was sent, or the minus infinity a recovered run starts with -- overdue at once.
None == -1
Never == Lease + 2

\* A child is forked ("booting"), announces itself and writes, and ends with
\* a run_finished in its journal or without one ("dead").
Child == {"none", "booting", "writing", "dead"} \cup Outcome

\* How the agent is attached to a child: it forked it, or follows its journal.
Link == {"none", "ipc", "tail"}

\* The claim statement is in flight in the phases of Claiming; startRun is
\* running in those of Starting; "fail" is its settlement of a run it gave up.
Claiming == {"sent", "picked", "won"}
Starting == {"spec", "taken", "gone"}
ClaimPhase == {"idle", "fail"} \cup Claiming \cup Starting

VARIABLES
  status,     \* runs.status
  runner,     \* runs.runner_id
  lease,      \* runs.lease_expires_at - now; -1 once it is in the past
  specs,       \* the runs that have a run_specs row
  journaled,  \* the runs whose journal_path is known
  child,      \* the runner process of each run
  link,       \* RunManager.handles and RunManager.followers
  closing,    \* the link of an ended child whose end is not yet recorded
  started,    \* runs whose run_started waits in the EventWriter
  owned,      \* RunnerAgent.owned: run -> when its lease was last renewed
  cancelSent, \* RunnerAgent.cancelSent
  mode,       \* the agent process
  check,      \* ticks since the lease watchdog last ran
  claim,      \* the claim loop's statement in flight
  beat,       \* the heartbeats in flight
  faults,     \* statements lost so far
  deaths      \* agent processes lost so far

rowVars == <<status, runner, lease, specs, journaled>>
childVars == <<child, link, closing, started>>
agentVars == <<owned, cancelSent>>
hostVars == <<mode, check, claim, beat>>
boundVars == <<faults, deaths>>
vars == <<rowVars, childVars, agentVars, hostVars, boundVars>>

NoClaim == [phase |-> "idle", run |-> NoRun, age |-> 0]
NoBeat == [phase |-> "idle", live |-> {}, held |-> {}, cancelling |-> {}, age |-> 0]
-----------------------------------------------------------------------------
Up(h) == mode[h] # "down"
Executing(r) == child[r] \in {"booting", "writing"}
Ended(r) == child[r] \in Outcome \cup {"dead"}

SameTarget(q, r) == Target[q] = Target[r] /\ Target[q] # NoTarget

\* Another run holds r's destination: what runs_target_busy_uq refuses.
Busy(r) == \E q \in Run \ {r} : SameTarget(q, r) /\ status[q] \in Active

\* RunManager.liveRunIds
LiveOn(h) == {r \in Run : runner[r] = h /\ link[r] # "none"}
OwnedBy(h) == {r \in Run : runner[r] = h /\ owned[r] # None}
\* RunnerAgent.launching
Launching(h) == IF claim[h].phase \in Starting THEN {claim[h].run} ELSE {}

Older(a) == IF a >= Lease + 1 THEN a ELSE a + 1

\* One more statement fails, or its answer is lost.
Fault == faults < MaxFaults /\ faults' = faults + 1

\* RunManager.terminate of every run in F: SIGKILL.
Kill(F) == child' = [r \in Run |-> IF r \in F /\ link[r] # "none" /\ Executing(r)
                                   THEN "dead" ELSE child[r]]

\* RunnerAgent.release of every run in F.
Release(F) ==
  /\ owned' = [r \in Run |-> IF r \in F THEN None ELSE owned[r]]
  /\ cancelSent' = cancelSent \ F

\* Wrong: the watchdog waits one tick too long.
OverdueLate(h) == {r \in OwnedBy(h) : owned[r] > Deadline}

\* What checkLeases finds to fence.
Overdue(h) == {r \in OwnedBy(h) : owned[r] >= Deadline}

\* A guarded settlement: "WHERE status NOT IN (terminal)".
Settle(r, outcome) ==
  status' = [status EXCEPT ![r] = IF @ \in Outcome THEN @ ELSE outcome]
-----------------------------------------------------------------------------
(***************************************************************************)
(* The web console.                                                        *)
(***************************************************************************)

\* RunsRepository.enqueue: the row and its sealed spec in one transaction.
Enqueue(r) ==
  /\ status[r] = "absent"
  /\ \A q \in 1 .. r - 1 : status[q] # "absent"
  /\ status' = [status EXCEPT ![r] = "queued"]
  /\ specs' = specs \cup {r}
  /\ UNCHANGED <<runner, lease, journaled, childVars, agentVars, hostVars, boundVars>>

\* A row some claim has locked with FOR UPDATE.
Locked(r) == \E h \in Host : claim[h].phase = "picked" /\ claim[h].run = r

\* cancelQueuedRun: waits for a claim that has the row, and then no longer matches it.
CancelQueued(r) ==
  /\ status[r] = "queued"
  /\ ~ Locked(r)
  /\ status' = [status EXCEPT ![r] = "cancelled"]
  /\ specs' = specs \ {r}
  /\ UNCHANGED <<runner, lease, journaled, childVars, agentVars, hostVars, boundVars>>

\* RunsRepository.requestCancel, reached when cancelQueued matched nothing.
RequestCancel(r) ==
  /\ status[r] = "running"
  /\ status' = [status EXCEPT ![r] = "cancelling"]
  /\ UNCHANGED <<runner, lease, specs, journaled, childVars, agentVars, hostVars, boundVars>>

\* sweep: settles every run whose lease is in the past.  Its statement deletes
\* the specs of runs that were terminal when it began, not of those it settles.
Sweep ==
  /\ status' = [r \in Run |->
       IF status[r] \notin Active \/ lease[r] >= 0 THEN status[r]
       ELSE IF status[r] = "cancelling" THEN "cancelled" ELSE "failed"]
  /\ specs' = {r \in specs : status[r] \notin Outcome}
  /\ <<status', specs'>> # <<status, specs>>
  /\ UNCHANGED <<runner, lease, journaled, childVars, agentVars, hostVars, boundVars>>
-----------------------------------------------------------------------------
(***************************************************************************)
(* The agent's claim loop.                                                 *)
(***************************************************************************)

\* claimLoop, woken by a poll, a NOTIFY or a beat: a free slot, no claim in flight.
SendClaim(h) ==
  /\ mode[h] = "up" /\ claim[h].phase = "idle"
  /\ Cardinality(LiveOn(h)) < Slots
  /\ claim' = [claim EXCEPT ![h] = [NoClaim EXCEPT !.phase = "sent"]]
  /\ UNCHANGED <<rowVars, childVars, agentVars, mode, check, beat, boundVars>>

\* What the claim's subquery may return: queued, destination free, not locked.
Claimable(r) == status[r] = "queued" /\ ~ Busy(r) /\ ~ Locked(r)

\* claimNextRun, the subquery: locks the oldest row it can take.
PickClaim(h, r) ==
  /\ claim[h].phase = "sent"
  /\ Claimable(r) /\ \A q \in 1 .. r - 1 : ~ Claimable(q)
  /\ claim' = [claim EXCEPT ![h] = [@ EXCEPT !.phase = "picked", !.run = r]]
  /\ UNCHANGED <<rowVars, childVars, agentVars, mode, check, beat, boundVars>>

\* claimNextRun returned null: nothing to take.
NoWork(h) ==
  /\ claim[h].phase = "sent"
  /\ \A r \in Run : ~ Claimable(r)
  /\ claim' = [claim EXCEPT ![h] = NoClaim]
  /\ UNCHANGED <<rowVars, childVars, agentVars, mode, check, beat, boundVars>>

\* Wrong: without runs_target_busy_uq, trusting the subquery's NOT EXISTS.
CommitClaimNoIndex(h) ==
  /\ claim[h].phase = "picked"
  /\ LET r == claim[h].run IN
       /\ status' = [status EXCEPT ![r] = "running"]
       /\ runner' = [runner EXCEPT ![r] = h]
       /\ lease' = [lease EXCEPT ![r] = Lease]
  /\ claim' = [claim EXCEPT ![h].phase = "won"]
  /\ UNCHANGED <<specs, journaled, childVars, agentVars, mode, check, beat, boundVars>>

\* claimNextRun, the update: the unique index lets one claim of a destination through.
CommitClaim(h) ==
  /\ claim[h].phase = "picked"
  /\ LET r == claim[h].run IN
       /\ ~ Busy(r)
       /\ status' = [status EXCEPT ![r] = "running"]
       /\ runner' = [runner EXCEPT ![r] = h]
       /\ lease' = [lease EXCEPT ![r] = Lease]
  /\ claim' = [claim EXCEPT ![h].phase = "won"]
  /\ UNCHANGED <<specs, journaled, childVars, agentVars, mode, check, beat, boundVars>>

\* claimNextRun, unique_violation: asks again, or gives up after the last attempt.
RefuseClaim(h) ==
  /\ claim[h].phase = "picked"
  /\ Busy(claim[h].run)
  /\ \/ claim' = [claim EXCEPT ![h] = [@ EXCEPT !.phase = "sent", !.run = NoRun]]
     \/ claim' = [claim EXCEPT ![h] = NoClaim]
  /\ UNCHANGED <<rowVars, childVars, agentVars, mode, check, beat, boundVars>>

\* Wrong: the deadline runs from the answer.
AnswerClaimNow(h) ==
  /\ claim[h].phase = "won"
  /\ owned' = [owned EXCEPT ![claim[h].run] = 0]
  /\ claim' = [claim EXCEPT ![h] = [@ EXCEPT !.phase = "spec", !.age = 0]]
  /\ UNCHANGED <<rowVars, childVars, cancelSent, mode, check, beat, boundVars>>

\* claimLoop: the answer arrives; the deadline runs from when the claim was sent.
AnswerClaim(h) ==
  /\ claim[h].phase = "won"
  /\ owned' = [owned EXCEPT ![claim[h].run] = claim[h].age]
  /\ claim' = [claim EXCEPT ![h] = [@ EXCEPT !.phase = "spec", !.age = 0]]
  /\ UNCHANGED <<rowVars, childVars, cancelSent, mode, check, beat, boundVars>>

\* claimLoop: claimNext rejects; whether the database ran the update is not known.
LoseClaim(h) ==
  /\ claim[h].phase \in Claiming
  /\ Fault
  /\ claim' = [claim EXCEPT ![h] = NoClaim]
  /\ UNCHANGED <<rowVars, childVars, agentVars, mode, check, beat, deaths>>

\* takeRunSpec: reads the sealed spec and deletes it.
TakeSpec(h) ==
  /\ claim[h].phase = "spec"
  /\ specs' = specs \ {claim[h].run}
  /\ claim' = [claim EXCEPT ![h].phase = IF claim[h].run \in specs THEN "taken" ELSE "gone"]
  /\ UNCHANGED <<status, runner, lease, journaled, childVars, agentVars, mode, check, beat, boundVars>>

\* Wrong: forks without a look at the leases.
LaunchUnchecked(h) ==
  /\ claim[h].phase = "taken"
  /\ LET r == claim[h].run IN
       /\ child' = [child EXCEPT ![r] = IF owned[r] # None THEN "booting" ELSE @]
       /\ link' = [link EXCEPT ![r] = IF owned[r] # None THEN "ipc" ELSE @]
  /\ claim' = [claim EXCEPT ![h] = NoClaim]
  /\ UNCHANGED <<rowVars, closing, started, agentVars, mode, check, beat, boundVars>>

\* startRun: leases are checked, then the child is forked if the run is still owned.
Launch(h) ==
  /\ claim[h].phase = "taken"
  /\ LET r == claim[h].run
         F == Overdue(h)
         go == owned[r] # None /\ r \notin F
     IN /\ Release(F)
        /\ child' = [q \in Run |->
             IF q = r /\ go THEN "booting"
             ELSE IF q \in F /\ link[q] # "none" /\ Executing(q) THEN "dead" ELSE child[q]]
        /\ link' = [link EXCEPT ![r] = IF go THEN "ipc" ELSE @]
  /\ claim' = [claim EXCEPT ![h] = NoClaim]
  /\ UNCHANGED <<rowVars, closing, started, mode, check, beat, boundVars>>

\* startRun after its check: the launch throws, or no recording exists to simulate.
ForkFails(h) ==
  /\ claim[h].phase = "taken"
  /\ LET r == claim[h].run
         F == Overdue(h)
     IN /\ owned[r] # None /\ r \notin F
        /\ Kill(F) /\ Release(F \cup {r})
  /\ claim' = [claim EXCEPT ![h].phase = "fail"]
  /\ UNCHANGED <<rowVars, link, closing, started, mode, check, beat, boundVars>>

\* startRun's early returns through fail(): the spec is gone, unreadable, of an
\* unknown version -- or (a fault) takeSpec did not answer.
GiveUp(h) ==
  /\ \/ claim[h].phase \in {"taken", "gone"} /\ UNCHANGED faults
     \/ claim[h].phase = "spec" /\ Fault
  /\ Release({claim[h].run})
  /\ claim' = [claim EXCEPT ![h].phase = "fail"]
  /\ UNCHANGED <<rowVars, childVars, mode, check, beat, deaths>>

\* settleClaimedRun; if the write fails it is not tried again.
FailClaim(h) ==
  /\ claim[h].phase = "fail"
  /\ \/ Settle(claim[h].run, "failed") /\ UNCHANGED faults
     \/ Fault /\ UNCHANGED status
  /\ claim' = [claim EXCEPT ![h] = NoClaim]
  /\ UNCHANGED <<runner, lease, specs, journaled, childVars, agentVars, mode, check, beat, deaths>>
-----------------------------------------------------------------------------
(***************************************************************************)
(* Heartbeats and the lease watchdog.                                      *)
(***************************************************************************)

\* beat: the runs live before the query, and the moment it was sent.
SendBeat(h, b) ==
  /\ Up(h) /\ beat[h][b].phase = "idle"
  /\ mode[h] = "starting" => \A c \in Beat : beat[h][c].phase = "idle"
  /\ beat' = [beat EXCEPT ![h][b] = [NoBeat EXCEPT !.phase = "sent", !.live = LiveOn(h)]]
  /\ UNCHANGED <<rowVars, childVars, agentVars, mode, check, claim, boundVars>>

\* Wrong: the answer does not say which of the runs are being cancelled.
CommitBeatMute(h, b) ==
  /\ beat[h][b].phase = "sent"
  /\ LET held == {r \in Run : runner[r] = h /\ status[r] \in Active} IN
       /\ lease' = [r \in Run |-> IF r \in held THEN Lease ELSE lease[r]]
       /\ beat' = [beat EXCEPT ![h][b] = [@ EXCEPT !.phase = "committed", !.held = held]]
  /\ UNCHANGED <<status, runner, specs, journaled, childVars, agentVars, mode, check, claim, boundVars>>

\* heartbeat: renews every unsettled run of this runner, wherever it is running.
CommitBeat(h, b) ==
  /\ beat[h][b].phase = "sent"
  /\ LET held == {r \in Run : runner[r] = h /\ status[r] \in Active} IN
       /\ lease' = [r \in Run |-> IF r \in held THEN Lease ELSE lease[r]]
       /\ beat' = [beat EXCEPT ![h][b] = [@ EXCEPT !.phase = "committed", !.held = held,
                     !.cancelling = {r \in held : status[r] = "cancelling"}]]
  /\ UNCHANGED <<status, runner, specs, journaled, childVars, agentVars, mode, check, claim, boundVars>>

\* RunManager.cancel for each run of S.  A run whose process is gone is settled on
\* the spot, if it is followed or its channel is seen to be closed too; any other
\* child is asked to stop at its next boundary.
Tell(S) ==
  \E closed \in SUBSET {r \in S : link[r] = "ipc" /\ Ended(r)} :
    status' = [r \in Run |->
      IF r \in S /\ (link[r] = "tail" \/ r \in closed) /\ Ended(r) /\ status[r] \notin Outcome
      THEN "cancelled" ELSE status[r]]

\* The first beat ends the start-up; timers and claims begin after it.
Begun(h) == mode' = [mode EXCEPT ![h] = IF @ = "starting" THEN "up" ELSE @]

\* beat, answered: fence what the database no longer holds, renew the rest.
AnswerBeat(h, b) ==
  /\ beat[h][b].phase = "committed"
  /\ LET m == beat[h][b]
         live == LiveOn(h)
         mine == OwnedBy(h)
         over == {r \in mine : r \notin live /\ (r \in m.live \/ r \notin Launching(h))}
         lost == {r \in mine \cap m.live \cap live : r \notin m.held}
         kept == mine \cap m.live \cap live \cap m.held
         told == (m.cancelling \cap live) \ cancelSent
     IN /\ owned' = [r \in Run |-> IF r \in over \cup lost THEN None
                                    ELSE IF r \in kept THEN m.age ELSE owned[r]]
        /\ cancelSent' = (cancelSent \ (over \cup lost)) \cup told
        /\ Kill(lost)
        /\ Tell(told)
  /\ Begun(h)
  /\ beat' = [beat EXCEPT ![h][b] = NoBeat]
  /\ UNCHANGED <<runner, lease, specs, journaled, link, closing, started, check, claim, boundVars>>

\* beat, rejected: before or after the database ran it; the leases are checked.
LoseBeat(h, b) ==
  /\ beat[h][b].phase # "idle"
  /\ Fault
  /\ Kill(Overdue(h)) /\ Release(Overdue(h))
  /\ Begun(h)
  /\ beat' = [beat EXCEPT ![h][b] = NoBeat]
  /\ UNCHANGED <<rowVars, link, closing, started, check, claim, deaths>>

\* checkLeases on its own timer.
Watchdog(h) ==
  /\ Up(h) /\ check[h] >= Check
  /\ Kill(Overdue(h)) /\ Release(Overdue(h))
  /\ check' = [check EXCEPT ![h] = 0]
  /\ UNCHANGED <<rowVars, link, closing, started, mode, claim, beat, boundVars>>

\* RunnerAgent.cancel on a NOTIFY, or from the console that embeds the agent.
Cancel(r) ==
  /\ status[r] = "cancelling"
  /\ link[r] # "none" /\ r \notin cancelSent
  /\ cancelSent' = cancelSent \cup {r}
  /\ Tell({r})
  /\ UNCHANGED <<runner, lease, specs, journaled, childVars, owned, hostVars, boundVars>>
-----------------------------------------------------------------------------
(***************************************************************************)
(* The child, and what the agent records of it.                            *)
(***************************************************************************)

\* The child is ready and run_started is emitted.  Its agent, if it still has
\* the IPC channel, stores the journal path (a write that may fail) and queues the event.
Ready(r) ==
  /\ child[r] = "booting"
  /\ child' = [child EXCEPT ![r] = "writing"]
  /\ IF link[r] = "ipc"
     THEN /\ started' = started \cup {r}
          /\ \/ journaled' = journaled \cup {r} /\ UNCHANGED faults
             \/ Fault /\ UNCHANGED journaled
     ELSE UNCHANGED <<started, journaled, faults>>
  /\ UNCHANGED <<status, runner, lease, specs, link, closing, agentVars, hostVars, deaths>>

\* The run ends by itself, with a run_finished in its journal.
Finish(r, outcome) ==
  /\ child[r] = "writing"
  /\ child' = [child EXCEPT ![r] = outcome]
  /\ UNCHANGED <<rowVars, link, closing, started, agentVars, hostVars, boundVars>>

\* The child process dies without an outcome.
Crash(r) ==
  /\ Executing(r)
  /\ child' = [child EXCEPT ![r] = "dead"]
  /\ UNCHANGED <<rowVars, link, closing, started, agentVars, hostVars, boundVars>>

\* EventWriter.drain and applyProjection of run_started.  It keeps a `cancelling`
\* row, looks at no other status, and is dropped when the unique index refuses it.
StoreStarted(r) ==
  /\ r \in started
  /\ started' = started \ {r}
  /\ \/ /\ status' = [status EXCEPT ![r] = IF @ = "cancelling" \/ Busy(r) THEN @ ELSE "running"]
        /\ UNCHANGED faults
     \/ Fault /\ UNCHANGED status
  /\ UNCHANGED <<runner, lease, specs, journaled, child, link, closing, agentVars, hostVars, deaths>>

\* onMessage, `fatal`: executeRun threw, or the journal could not be written.  The
\* child writes nothing more, and its run_finished, if any, is yet to be stored.
Fatal(r) ==
  /\ link[r] = "ipc" /\ Ended(r) /\ status[r] \notin Outcome
  /\ Settle(r, "failed")
  /\ UNCHANGED <<runner, lease, specs, journaled, childVars, agentVars, hostVars, boundVars>>

\* Wrong: the handle of an exited child keeps its slot.
ObserveEndLeak(r) ==
  /\ link[r] # "none" /\ Ended(r)
  /\ closing' = [closing EXCEPT ![r] = link[r]]
  /\ UNCHANGED <<rowVars, child, link, started, agentVars, hostVars, boundVars>>

\* onExit, or a follower that finds its journal finished or its process gone.
ObserveEnd(r) ==
  /\ link[r] # "none" /\ Ended(r)
  /\ link' = [link EXCEPT ![r] = "none"]
  /\ closing' = [closing EXCEPT ![r] = link[r]]
  /\ UNCHANGED <<rowVars, child, started, agentVars, hostVars, boundVars>>

\* The end reaches the row.  run_finished is written whatever the row says; an
\* end without one, and a followed run whose batch was dropped, settle under the
\* guard.  A write that fails is reported and not repeated.
Close(r) ==
  /\ closing[r] # "none" /\ r \notin started
  /\ closing' = [closing EXCEPT ![r] = "none"]
  /\ \/ child[r] \in Outcome /\ status' = [status EXCEPT ![r] = child[r]] /\ UNCHANGED faults
     \/ child[r] = "dead" /\ Settle(r, "failed") /\ UNCHANGED faults
     \/ child[r] \in Outcome /\ closing[r] = "tail" /\ Settle(r, child[r]) /\ Fault
     \/ Fault /\ UNCHANGED status
  /\ UNCHANGED <<runner, lease, specs, journaled, child, link, started, agentVars, hostVars, deaths>>
-----------------------------------------------------------------------------
(***************************************************************************)
(* The agent process.                                                      *)
(***************************************************************************)

\* reattachableRuns
Reattachable(h) == {r \in journaled : runner[r] = h /\ status[r] \in Active}

\* Wrong: a recovered run gets a whole lease of credit.
StartTrusting(h) ==
  /\ mode[h] = "down"
  /\ mode' = [mode EXCEPT ![h] = "starting"]
  /\ check' = [check EXCEPT ![h] = 0]
  /\ LET back == Reattachable(h)
         alive == {r \in back : Executing(r)}
     IN /\ link' = [r \in Run |-> IF r \in alive THEN "tail" ELSE link[r]]
        /\ closing' = [r \in Run |-> IF r \in back \ alive THEN "tail" ELSE closing[r]]
        /\ owned' = [r \in Run |-> IF r \in alive THEN 0 ELSE owned[r]]
        /\ \E again \in SUBSET back : started' = started \cup again
  /\ UNCHANGED <<rowVars, child, cancelSent, claim, beat, boundVars>>

\* start: registers and re-attaches.  A surviving child is followed and owned, but
\* overdue until a beat confirms it; the others are closed from their journals.
\* The run_started of a recovered run is read again if the cursor is before it.
Start(h) ==
  /\ mode[h] = "down"
  /\ mode' = [mode EXCEPT ![h] = "starting"]
  /\ check' = [check EXCEPT ![h] = 0]
  /\ LET back == Reattachable(h)
         alive == {r \in back : Executing(r)}
     IN /\ link' = [r \in Run |-> IF r \in alive THEN "tail" ELSE link[r]]
        /\ closing' = [r \in Run |-> IF r \in back \ alive THEN "tail" ELSE closing[r]]
        /\ owned' = [r \in Run |-> IF r \in alive THEN Never ELSE owned[r]]
        /\ \E again \in SUBSET back : started' = started \cup again
  /\ UNCHANGED <<rowVars, child, cancelSent, claim, beat, boundVars>>

\* stopClaiming
Drain(h) ==
  /\ mode[h] = "up"
  /\ mode' = [mode EXCEPT ![h] = "draining"]
  /\ UNCHANGED <<rowVars, childVars, agentVars, check, claim, beat, boundVars>>

\* The process ends: a crash, stop(), or a drain out of patience.  All it had in
\* memory goes.  Its children are detached: each survives it or not.
Die(h) ==
  /\ Up(h) /\ deaths < MaxDeaths
  /\ deaths' = deaths + 1
  /\ mode' = [mode EXCEPT ![h] = "down"]
  /\ LET mine == {r \in Run : runner[r] = h} IN
       /\ \E gone \in SUBSET {r \in mine : Executing(r)} :
            child' = [r \in Run |-> IF r \in gone THEN "dead" ELSE child[r]]
       /\ link' = [r \in Run |-> IF r \in mine THEN "none" ELSE link[r]]
       /\ closing' = [r \in Run |-> IF r \in mine THEN "none" ELSE closing[r]]
       /\ started' = started \ mine
       /\ Release(mine)
  /\ claim' = [claim EXCEPT ![h] = NoClaim]
  /\ beat' = [beat EXCEPT ![h] = [b \in Beat |-> NoBeat]]
  /\ UNCHANGED <<rowVars, check, faults>>

\* One tick.  The watchdog's timer is never late by a tick, and no request of an
\* agent is left waiting beyond MaxDelay.
Tick ==
  /\ \A h \in Host : Up(h) => check[h] < Check
  /\ \A h \in Host : claim[h].phase \in Claiming => claim[h].age < MaxDelay
  /\ \A h \in Host : \A r \in Launching(h) : owned[r] < MaxDelay
  /\ \A h \in Host, b \in Beat : beat[h][b].phase # "idle" => beat[h][b].age < MaxDelay
  /\ lease' = [r \in Run |-> IF lease[r] >= 0 THEN lease[r] - 1 ELSE lease[r]]
  /\ owned' = [r \in Run |-> IF owned[r] = None THEN None ELSE Older(owned[r])]
  /\ check' = [h \in Host |-> IF Up(h) THEN check[h] + 1 ELSE check[h]]
  /\ claim' = [h \in Host |-> IF claim[h].phase \notin Claiming THEN claim[h]
                              ELSE [claim[h] EXCEPT !.age = Older(@)]]
  /\ beat' = [h \in Host |-> [b \in Beat |-> IF beat[h][b].phase = "idle" THEN beat[h][b]
                                             ELSE [beat[h][b] EXCEPT !.age = Older(@)]]]
  /\ UNCHANGED <<status, runner, specs, journaled, childVars, cancelSent, mode, boundVars>>
-----------------------------------------------------------------------------
Init ==
  /\ status = [r \in Run |-> "absent"]
  /\ runner = [r \in Run |-> NoHost]
  /\ lease = [r \in Run |-> -1]
  /\ specs = {} /\ journaled = {}
  /\ child = [r \in Run |-> "none"]
  /\ link = [r \in Run |-> "none"]
  /\ closing = [r \in Run |-> "none"]
  /\ started = {} /\ cancelSent = {}
  /\ owned = [r \in Run |-> None]
  /\ mode = [h \in Host |-> "up"]
  /\ check = [h \in Host |-> 0]
  /\ claim = [h \in Host |-> NoClaim]
  /\ beat = [h \in Host |-> [b \in Beat |-> NoBeat]]
  /\ faults = 0 /\ deaths = 0

Console ==
  \/ \E r \in Run : Enqueue(r)
  \/ \E r \in Cancelled : CancelQueued(r) \/ RequestCancel(r)
  \/ Sweep

ClaimLoop(h) ==
  \/ SendClaim(h) \/ NoWork(h) \/ CommitClaim(h) \/ RefuseClaim(h) \/ AnswerClaim(h)
  \/ LoseClaim(h) \/ TakeSpec(h) \/ Launch(h) \/ ForkFails(h)
  \/ GiveUp(h) \/ FailClaim(h)
  \/ \E r \in Run : PickClaim(h, r)

Leasing(h) ==
  \/ Watchdog(h)
  \/ \E b \in Beat : SendBeat(h, b) \/ CommitBeat(h, b) \/ AnswerBeat(h, b) \/ LoseBeat(h, b)

Running(r) ==
  \/ Cancel(r) \/ Ready(r) \/ Crash(r) \/ StoreStarted(r) \/ Fatal(r)
  \/ ObserveEnd(r) \/ Close(r)
  \/ \E outcome \in Ends : Finish(r, outcome)

Process(h) == Start(h) \/ Drain(h) \/ Die(h)

Next ==
  \/ Console
  \/ \E h \in Host : ClaimLoop(h) \/ Leasing(h) \/ Process(h)
  \/ \E r \in Run : Running(r)
  \/ Tick

Spec == Init /\ [][Next]_vars

\* What keeps happening: agents in their loops, the database, the clock, the
\* console's sweeper, and a child that was asked to stop.  Nothing forces a
\* NOTIFY to arrive, an agent to die or to come back, or a run to end by itself.
Fairness ==
  /\ WF_vars(Tick) /\ WF_vars(Sweep)
  /\ \A h \in Host :
       /\ WF_vars(ClaimLoop(h)) /\ WF_vars(Watchdog(h))
       /\ \A b \in Beat : WF_vars(SendBeat(h, b)) /\ WF_vars(CommitBeat(h, b) \/ AnswerBeat(h, b))
  /\ \A r \in Run :
       /\ WF_vars(Ready(r)) /\ WF_vars(StoreStarted(r)) /\ WF_vars(ObserveEnd(r)) /\ WF_vars(Close(r))
       /\ WF_vars(r \in cancelSent /\ \E outcome \in Ends : Finish(r, outcome))

FairSpec == Spec /\ Fairness

\* Where every migration also comes to an end by itself.
FiniteRuns == \A r \in Run : WF_vars(\E outcome \in Ends : Finish(r, outcome))
FairFiniteSpec == FairSpec /\ FiniteRuns
-----------------------------------------------------------------------------
(***************************************************************************)
(* Safety.                                                                 *)
(***************************************************************************)

ClaimRecord == [phase : ClaimPhase, run : Run \cup {NoRun}, age : Age]
BeatRecord == [phase : {"idle", "sent", "committed"}, live : SUBSET Run,
               held : SUBSET Run, cancelling : SUBSET Run, age : Age]

LedgerType ==
  /\ status \in [Run -> Status] /\ runner \in [Run -> Host \cup {NoHost}]
  /\ lease \in [Run -> -1 .. Lease]
  /\ specs \in SUBSET Run /\ journaled \in SUBSET Run
ChildType ==
  /\ child \in [Run -> Child] /\ link \in [Run -> Link] /\ closing \in [Run -> Link]
  /\ started \in SUBSET Run
AgentType ==
  /\ owned \in [Run -> Age \cup {None, Never}] /\ cancelSent \in SUBSET Run
HostType ==
  /\ mode \in [Host -> {"down", "starting", "up", "draining"}]
  /\ check \in [Host -> 0 .. Check]
  /\ claim \in [Host -> ClaimRecord]
  /\ beat \in [Host -> [Beat -> BeatRecord]]
BoundType == faults \in 0 .. MaxFaults /\ deaths \in 0 .. MaxDeaths

\* Every variable keeps to its domain.
TypeOK == LedgerType /\ ChildType /\ AgentType /\ HostType /\ BoundType

\* A child its agent is attached to and vouches for: not one a restarted agent
\* has found again and no heartbeat has confirmed yet.
Confirmed(r) == Executing(r) /\ link[r] # "none" /\ owned[r] # Never

\* One run per destination: at no moment are two runs into one database running.
OneActivePerDestination ==
  \A q, r \in Run : q # r /\ SameTarget(q, r) => ~ (status[q] \in Active /\ status[r] \in Active)

\* The watchdog fences in time: while an agent lets a child write, the ledger still
\* says the run is running and its lease has not expired, so no sweeper may settle it.
FencedInTime == \A r \in Run : Confirmed(r) => status[r] \in Active /\ lease[r] >= 0

\* Two children write into one database only if an agent's death left one of them
\* behind: unattended, or found again and not yet confirmed.
SingleWriter ==
  \A q, r \in Run : q # r /\ SameTarget(q, r) /\ Executing(q) /\ Executing(r)
                    => ~ Confirmed(q) \/ ~ Confirmed(r)

\* A child is forked only while the ledger says its run is active and there is more
\* than the margin left of its lease, though nothing reads the row before the fork.
LaunchOnlyHeld ==
  [][\A r \in Run : child[r] = "none" /\ child'[r] # "none"
                    => status[r] \in Active /\ lease[r] > Margin]_vars

\* The queue and its agents implement the lock of a destination.
Destination == {Target[r] : r \in Run} \ {NoTarget}
Lock == INSTANCE DestinationLock WITH
  TargetOf <- Target,
  holders <- [d \in Destination |-> {r \in Run : Target[r] = d /\ status[r] \in Active}],
  writing <- {r \in Run : Target[r] # NoTarget /\ Confirmed(r)}
ImplementsLock == Lock!Spec
-----------------------------------------------------------------------------
(***************************************************************************)
(* Liveness.                                                               *)
(***************************************************************************)

\* A run somebody asked to cancel settles, also when the NOTIFY is lost, unless an
\* agent dies: one that comes back may renew a run that it does not know (see
\* LostRunSettles).
CancelSettles ==
  \A r \in Run : status[r] = "cancelling" ~> status[r] \in Outcome \/ deaths > 0

\* Every queued run settles in the end, unless every agent stops claiming.
EveryRunSettles ==
  \/ <>[](\A h \in Host : mode[h] # "up")
  \/ \A r \in Run : status[r] = "queued" ~> status[r] \in Outcome

\* The runs of an agent that never comes back are settled by the sweeper.
LostHostSettles ==
  \A h \in Host : <>[](mode[h] = "down")
                  => <>[](\A r \in Run : runner[r] = h => status[r] \notin Active)

\* A run that is active for the ledger alone: no claim of it is in flight, no
\* child executes it and nothing of a child is left to be recorded.
Lost(r) ==
  /\ status[r] \in Active
  /\ \A h \in Host : claim[h].run # r
  /\ ~ Executing(r) /\ link[r] = "none" /\ closing[r] = "none"

\* A lost run is settled, in the end.
LostRunSettles == \A r \in Run : Lost(r) ~> ~ Lost(r)

\* A settled run's passwords do not stay in the database.
SpecsForgotten == \A r \in Run : status[r] \in Outcome ~> r \notin specs

\* What a user may count on whatever became of the agent (runner-agent.ts, sweep): a
\* cancelled run and a run whose agent is gone are settled, and its passwords go.
RunsSettle == CancelSettles /\ LostHostSettles /\ SpecsForgotten
=============================================================================
