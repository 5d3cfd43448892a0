------------------------------- MODULE Fleet -------------------------------
(***************************************************************************)
(* The runners of one class, from the console's side and their own: the    *)
(* sweeper's tick (sweep-tick.ts, autoscale.ts), the Docker provisioner    *)
(* (docker-provisioner.ts), and a provisioned runner from its container's  *)
(* creation to its idle exit (agent-main.ts, runner-agent.ts, idle-watch). *)
(*                                                                         *)
(* Every console replica ticks on a timer of its own and answers "Start a  *)
(* runner" (runners/scale.post.ts).  They share the queue, the runners     *)
(* table and the Docker engine; a cooldown and a chain of scale-ups are    *)
(* each replica's own.  The class has no runner of its Compose service.    *)
(***************************************************************************)
EXTENDS Naturals, Sequences, FiniteSets

CONSTANTS Replica,      \* console processes
          Sweeper,      \* those without MOVY_RUNNER_SWEEPER=false
          Clone,        \* container ids; a removed one may be given again
          Run,          \* runs of the class, no two into one destination
          MaxReplicas,  \* max_replicas of the class
          Slots,        \* runs a runner takes at once
          MaxFaults,    \* bound: calls that fail, processes that die
          MaxClicks     \* bound: uses of "Start a runner"

ASSUME FleetAssumption ==
  /\ IsFiniteSet(Replica) /\ IsFiniteSet(Clone) /\ IsFiniteSet(Run)
  /\ Sweeper \subseteq Replica
  /\ MaxReplicas \in Nat \ {0} /\ Slots \in Nat \ {0}
  /\ MaxFaults \in Nat /\ MaxClicks \in Nat
  /\ Clone \cap Run = {} /\ {"idle", "create"} \cap Clone = {}

VARIABLES
  status,   \* runs.status: absent, queued, running, ended
  owner,    \* runs.runner_id
  row,      \* runners.state; a runner with no row reads as offline
  busy,     \* runners.busy
  old,      \* clones whose last sign of life is long past (30 s; 2 min if only created)
  clone,    \* the container and the agent in it
  claim,    \* of the agent: "idle", "asked", or the run it is about to launch
  live,     \* of the agent: liveRunIds
  idle,     \* of the agent: a claim found nothing since it last ran something
  cool,     \* of a replica: lastScaledAt is younger than the cooldown
  tick,     \* of a replica: what its sweepTick does next
  chain,    \* of a replica: scale-ups not yet over, oldest first
  step,     \* of a replica: how far the first of them is
  faults, clicks

queueVars == <<status, owner>>
rowVars == <<row, busy>>
agentVars == <<claim, live, idle>>
consoleVars == <<cool, tick, chain, step>>
fleetVars == <<queueVars, rowVars, old, clone, agentVars, consoleVars, faults, clicks>>

NoClone == "no clone"

\* What `docker ps -a` says of a container: created, running, exited.
Finished(c) == clone[c] \in {"absent", "exited"}
Alive(c) == clone[c] \in {"up", "leaving", "stopped"}
LiveRows == {c \in Clone : row[c] \in {"online", "draining"}}

Fault == faults < MaxFaults /\ faults' = faults + 1
-----------------------------------------------------------------------------
(***************************************************************************)
(* A provisioned runner.                                                   *)
(***************************************************************************)

\* start: registers, or an earlier process's claim on this id is overwritten.
Register(c) ==
  /\ clone[c] = "booting"
  /\ clone' = [clone EXCEPT ![c] = "up"]
  /\ row' = [row EXCEPT ![c] = "online"]
  /\ busy' = [busy EXCEPT ![c] = 0]
  /\ old' = old \ {c}
  /\ UNCHANGED <<queueVars, agentVars, consoleVars, faults, clicks>>

\* claimLoop asks while it has a slot and is not draining.
Ask(c) ==
  /\ clone[c] = "up" /\ claim[c] = "idle" /\ Cardinality(live[c]) < Slots
  /\ claim' = [claim EXCEPT ![c] = "asked"]
  /\ UNCHANGED <<queueVars, rowVars, old, clone, live, idle, consoleVars, faults, clicks>>

\* claimNextRun takes a queued run, or finds none, or its query fails.
Claim(c) ==
  /\ Alive(c) /\ claim[c] = "asked"
  /\ \/ /\ \E r \in Run :
             /\ status[r] = "queued"
             /\ status' = [status EXCEPT ![r] = "running"]
             /\ owner' = [owner EXCEPT ![r] = c]
             /\ claim' = [claim EXCEPT ![c] = r]
        /\ UNCHANGED <<idle, faults>>
     \/ /\ \A r \in Run : status[r] # "queued"
        /\ claim' = [claim EXCEPT ![c] = "idle"]
        /\ idle' = IF live[c] = {} THEN idle \cup {c} ELSE idle
        /\ UNCHANGED <<queueVars, faults>>
     \/ /\ Fault
        /\ claim' = [claim EXCEPT ![c] = "idle"]
        /\ UNCHANGED <<queueVars, idle>>
  /\ UNCHANGED <<rowVars, old, clone, live, consoleVars, clicks>>

\* startRun: the spec is there, the child is forked.
Launch(c) ==
  /\ Alive(c) /\ claim[c] \in Run
  /\ live' = [live EXCEPT ![c] = @ \cup {claim[c]}]
  /\ claim' = [claim EXCEPT ![c] = "idle"]
  /\ idle' = idle \ {c}
  /\ UNCHANGED <<queueVars, rowVars, old, clone, consoleVars, faults, clicks>>

\* A child ends and its outcome is stored.
End(r) ==
  /\ \E c \in Clone :
       /\ Alive(c) /\ r \in live[c]
       /\ live' = [live EXCEPT ![c] = @ \ {r}]
  /\ status' = [status EXCEPT ![r] = "ended"]
  /\ UNCHANGED <<owner, rowVars, old, clone, claim, idle, consoleVars, faults, clicks>>

\* heartbeat: renews, and brings a row back online whatever the agent is about to
\* do: one under way can come after stop said offline.  The agent then stops the
\* runs it no longer holds.
Beat(c) ==
  /\ Alive(c)
  /\ row' = [row EXCEPT ![c] = IF @ = "offline" THEN "online" ELSE @]
  /\ busy' = [busy EXCEPT ![c] = Cardinality(live[c])]
  /\ old' = old \ {c}
  /\ live' = [live EXCEPT ![c] = {r \in @ : status[r] = "running"}]
  /\ UNCHANGED <<queueVars, clone, claim, idle, consoleVars, faults, clicks>>

\* The idle timer: nothing live now, and polls have found nothing for idleExitMs.
\* A claim under way is not looked at.  shutdown stops claiming first and says so,
\* unless the query fails.
IdleExit(c) ==
  /\ clone[c] = "up" /\ c \in idle /\ live[c] = {}
  /\ clone' = [clone EXCEPT ![c] = "leaving"]
  /\ \/ row' = [row EXCEPT ![c] = "draining"] /\ UNCHANGED faults
     \/ Fault /\ UNCHANGED row
  /\ UNCHANGED <<queueVars, busy, old, agentVars, consoleVars, clicks>>

\* The claim under way is over, a run it took launched; drain(0) waits for no run,
\* and stop says offline.
StopAgent(c) ==
  /\ clone[c] = "leaving" /\ claim[c] = "idle"
  /\ clone' = [clone EXCEPT ![c] = "stopped"]
  /\ \/ /\ row' = [row EXCEPT ![c] = "offline"]
        /\ busy' = [busy EXCEPT ![c] = 0]
        /\ UNCHANGED faults
     \/ Fault /\ UNCHANGED rowVars
  /\ UNCHANGED <<queueVars, old, agentVars, consoleVars, clicks>>

\* The container is gone with all that ran in it; its rows stay.
Gone(c) ==
  /\ clone' = [clone EXCEPT ![c] = "exited"]
  /\ claim' = [claim EXCEPT ![c] = "idle"]
  /\ live' = [live EXCEPT ![c] = {}]
  /\ idle' = idle \ {c}
  /\ UNCHANGED <<queueVars, rowVars, old, consoleVars, clicks>>

Exit(c) == clone[c] = "stopped" /\ Gone(c) /\ UNCHANGED faults

Kill(c) == clone[c] \in {"booting", "up", "leaving"} /\ Gone(c) /\ Fault

\* The database still counts on a runner.
Recorded(c) == row[c] # "offline" \/ \E r \in Run : owner[r] = c /\ status[r] = "running"

\* Nothing heard for long: of a clone that is gone or was never started, or of a
\* live one whose heartbeats are lost.
Age(c) ==
  /\ c \notin old
  /\ \/ clone[c] \in {"absent", "exited"} /\ Recorded(c) /\ UNCHANGED faults
     \/ clone[c] = "created" /\ (\A w \in Replica : step[w] # c) /\ UNCHANGED faults
     \/ Alive(c) /\ Fault
  /\ old' = old \cup {c}
  /\ UNCHANGED <<queueVars, rowVars, clone, agentVars, consoleVars, clicks>>
-----------------------------------------------------------------------------
(***************************************************************************)
(* The queue, as far as runners see it.                                    *)
(***************************************************************************)

Enqueue(r) ==
  /\ status[r] = "absent"
  /\ status' = [status EXCEPT ![r] = "queued"]
  /\ UNCHANGED <<owner, rowVars, old, clone, agentVars, consoleVars, faults, clicks>>
-----------------------------------------------------------------------------
(***************************************************************************)
(* The sweeper's tick of a replica.                                        *)
(***************************************************************************)

\* sweep: rows without a heartbeat go offline, runs without a lease are settled.
SweepRows ==
  /\ row' = [c \in Clone |-> IF c \in old THEN "offline" ELSE row[c]]
  /\ status' = [r \in Run |-> IF status[r] = "running" /\ owner[r] \in old
                              THEN "ended" ELSE status[r]]
  /\ UNCHANGED <<owner, busy>>

\* Wrong: only an exited container is removed.
CleanupExited ==
  /\ clone' = [c \in Clone |-> IF clone[c] = "exited" THEN "absent" ELSE clone[c]]
  /\ UNCHANGED faults

\* cleanup removes what exited, and what was created long ago and never started.
\* A remove that fails leaves the rest for the next tick, and the tick goes on.
Cleanup ==
  LET done == {c \in Clone : clone[c] = "exited" \/ (clone[c] = "created" /\ c \in old)} IN
  \/ /\ clone' = [c \in Clone |-> IF c \in done THEN "absent" ELSE clone[c]]
     /\ UNCHANGED faults
  \/ Fault /\ done # {} /\ UNCHANGED clone

\* The first half of a tick: the rows, then the containers.  Neither looks at what
\* the other changes, so they are one step.  A replica that finds the sweep's lock
\* taken has nothing more to do this time.
Sweep(w) ==
  /\ tick[w] = "idle"
  /\ tick' = [tick EXCEPT ![w] = "demand"]
  /\ SweepRows /\ Cleanup
  /\ UNCHANGED <<old, agentVars, cool, chain, step, clicks>>

Queued == {r \in Run : status[r] = "queued"}
\* sum(greatest(slots - busy, 0)) over the online rows is 0
NoFreeSlot == \A c \in Clone : row[c] = "online" => busy[c] >= Slots

\* classesToScale: work, no free slot, below the cap by the rows, not cooling down.
Wanted(w) ==
  /\ Queued # {} /\ NoFreeSlot
  /\ Cardinality(LiveRows) < MaxReplicas
  /\ ~cool[w]

\* The cooldown begins before the attempt.
Demand(w) ==
  /\ tick[w] = "demand"
  /\ IF Wanted(w)
     THEN tick' = [tick EXCEPT ![w] = "capacity"] /\ cool' = [cool EXCEPT ![w] = TRUE]
     ELSE tick' = [tick EXCEPT ![w] = "idle"] /\ UNCHANGED cool
  /\ UNCHANGED <<queueVars, rowVars, old, clone, agentVars, chain, step, faults, clicks>>

CooldownOver(w) ==
  /\ cool[w]
  /\ cool' = [cool EXCEPT ![w] = FALSE]
  /\ UNCHANGED <<queueVars, rowVars, old, clone, agentVars, tick, chain, step, faults, clicks>>
-----------------------------------------------------------------------------
(***************************************************************************)
(* The provisioner of a replica.                                           *)
(***************************************************************************)

\* loadClassCapacity, then scaleUp: the request waits for those before it with
\* the live runners it was loaded with.  The tick awaits its own.
Request(w, by) ==
  /\ chain' = [chain EXCEPT ![w] = Append(@, [by |-> by, live |-> LiveRows])]
  /\ UNCHANGED <<queueVars, rowVars, old, clone, agentVars, cool, step, faults>>

LoadCapacity(w) ==
  /\ tick[w] = "capacity"
  /\ tick' = [tick EXCEPT ![w] = "scaling"]
  /\ Request(w, "tick") /\ UNCHANGED clicks

Click(w) ==
  /\ clicks < MaxClicks /\ clicks' = clicks + 1
  /\ Request(w, "click") /\ UNCHANGED tick

\* The first of the chain is answered or refused; the next begins.
Done(w) ==
  /\ step' = [step EXCEPT ![w] = "idle"]
  /\ chain' = [chain EXCEPT ![w] = Tail(@)]
  /\ tick' = IF Head(chain[w]).by = "tick" THEN [tick EXCEPT ![w] = "idle"] ELSE tick
  /\ UNCHANGED cool

\* Wrong: counts the registered runners only.
CountRows(w) ==
  /\ chain[w] # <<>> /\ step[w] = "idle"
  /\ IF Cardinality(Head(chain[w]).live) >= MaxReplicas
     THEN Done(w)
     ELSE step' = [step EXCEPT ![w] = "create"] /\ UNCHANGED <<cool, tick, chain>>
  /\ UNCHANGED <<queueVars, rowVars, old, clone, agentVars, faults, clicks>>

\* scaleUpNow: liveCount, the rows of the request and every container not finished.
Count(w) ==
  LET counted == Head(chain[w]).live \cup {c \in Clone : ~Finished(c)} IN
  /\ chain[w] # <<>> /\ step[w] = "idle"
  /\ IF Cardinality(counted) >= MaxReplicas
     THEN Done(w)
     ELSE step' = [step EXCEPT ![w] = "create"] /\ UNCHANGED <<cool, tick, chain>>
  /\ UNCHANGED <<queueVars, rowVars, old, clone, agentVars, faults, clicks>>

\* Ids that stand for no container and for no row: which is given does not matter.
Unused == {c \in Clone : clone[c] = "absent" /\ ~Recorded(c)}

\* findTemplate and create.
Create(w) ==
  /\ step[w] = "create"
  /\ \/ /\ Unused # {}
        /\ LET c == CHOOSE c \in Unused : TRUE IN
             /\ clone' = [clone EXCEPT ![c] = "created"]
             /\ step' = [step EXCEPT ![w] = c]
             /\ old' = old \ {c}
        /\ UNCHANGED <<cool, tick, chain, faults>>
     \/ Fault /\ Done(w) /\ UNCHANGED <<clone, old>>
  /\ UNCHANGED <<queueVars, rowVars, agentVars, clicks>>

\* start; on a failure the clone is removed, unless that fails too.
StartClone(w) ==
  /\ step[w] \in Clone
  /\ \E s \in {"booting", "absent", "created"} :
       /\ clone' = [clone EXCEPT ![step[w]] = s]
       /\ IF s = "booting" THEN UNCHANGED faults ELSE Fault
  /\ Done(w)
  /\ UNCHANGED <<queueVars, rowVars, old, agentVars, clicks>>

\* The console process is restarted: its memory is lost.
Restart(w) ==
  /\ Fault
  /\ cool' = [cool EXCEPT ![w] = FALSE]
  /\ tick' = [tick EXCEPT ![w] = "idle"]
  /\ chain' = [chain EXCEPT ![w] = <<>>]
  /\ step' = [step EXCEPT ![w] = "idle"]
  /\ UNCHANGED <<queueVars, rowVars, old, clone, agentVars, clicks>>
-----------------------------------------------------------------------------
FleetInit ==
  /\ status = [r \in Run |-> "absent"] /\ owner = [r \in Run |-> NoClone]
  /\ row = [c \in Clone |-> "offline"] /\ busy = [c \in Clone |-> 0]
  /\ old = {} /\ clone = [c \in Clone |-> "absent"]
  /\ claim = [c \in Clone |-> "idle"] /\ live = [c \in Clone |-> {}]
  /\ idle = {}
  /\ cool = [w \in Replica |-> FALSE] /\ tick = [w \in Replica |-> "idle"]
  /\ chain = [w \in Replica |-> <<>>] /\ step = [w \in Replica |-> "idle"]
  /\ faults = 0 /\ clicks = 0

Agent(c) ==
  \/ Register(c) \/ Ask(c) \/ Claim(c) \/ Launch(c) \/ Beat(c)
  \/ IdleExit(c) \/ StopAgent(c) \/ Exit(c)

Tick(w) == Sweep(w) \/ Demand(w) \/ LoadCapacity(w)

Provision(w) == Count(w) \/ Create(w) \/ StartClone(w)

FleetNext ==
  \/ \E c \in Clone : Agent(c) \/ Kill(c) \/ Age(c)
  \/ \E r \in Run : Enqueue(r) \/ End(r)
  \/ \E w \in Sweeper : Tick(w) \/ CooldownOver(w)
  \/ \E w \in Replica : Provision(w) \/ Click(w) \/ Restart(w)

FleetSpec == FleetInit /\ [][FleetNext]_fleetVars

\* Timers fire and calls return; an agent makes progress and its runs end.  No
\* user has to click, and no container, console or heartbeat has to fail.  An
\* agent may poll for ever, so its heartbeats and its claims are each fair.
FleetFairness ==
  /\ \A c \in Clone :
       /\ WF_fleetVars(Register(c)) /\ WF_fleetVars(Ask(c)) /\ WF_fleetVars(Claim(c)) /\ WF_fleetVars(Launch(c))
       /\ WF_fleetVars(Beat(c)) /\ WF_fleetVars(StopAgent(c)) /\ WF_fleetVars(Exit(c)) /\ WF_fleetVars(Age(c))
  /\ \A r \in Run : WF_fleetVars(End(r))
  /\ \A w \in Sweeper : WF_fleetVars(Tick(w)) /\ WF_fleetVars(CooldownOver(w))
  /\ \A w \in Replica : WF_fleetVars(Provision(w))

-----------------------------------------------------------------------------
\* docker-provisioner.ts: scale-ups of one replica are one at a time, and each counts
\* the clones not yet registered.  What several replicas do at once passes the cap by
\* at most one clone each, however slow the clones are to register.
CapHolds ==
  Cardinality({c \in Clone : ~Finished(c)}) <= MaxReplicas + Cardinality(Replica) - 1

\* autoscale.ts, sweep-tick.ts: a queued run of a class without a runner gets one and
\* is over one day, whatever failed to start, left as idle when the run came in, or
\* died and is still counted as a runner.
QueuedRunIsServed == \A r \in Run : (status[r] = "queued") ~> (status[r] = "ended")
=============================================================================
