--------------------------- MODULE Runners_proofs ---------------------------
(***************************************************************************)
(* Proofs about the parts of the system that are about runners: which      *)
(* there are (Fleet), the probes they answer (Probes) and who sees them    *)
(* (RunnerWatch).                                                          *)
(***************************************************************************)
EXTENDS Fleet, Probes, RunnerWatch, FiniteSetTheorems, TLAPS

-----------------------------------------------------------------------------
(***************************************************************************)
(* Fleet.                                                                  *)
(***************************************************************************)

Containers == {c \in Clone : ~ Finished(c)}
Creating == {w \in Replica : step[w] = "create"}

ScaleUp == [by : {"tick", "click"}, live : SUBSET Clone]

ChainType ==
  /\ clone \in [Clone -> {"absent", "created", "booting", "up", "leaving", "stopped", "exited"}]
  /\ step \in [Replica -> {"idle", "create"} \cup Clone]
  /\ chain \in [Replica -> Seq(ScaleUp)]
  /\ \A w \in Replica : step[w] # "idle" => chain[w] # <<>>

\* The clone a replica is about to start stands, as it was created, is young, and is of
\* that replica alone.
StartInv ==
  \A w \in Replica : step[w] \in Clone =>
    /\ clone[step[w]] = "created" /\ step[w] \notin old
    /\ \A v \in Replica : step[v] = step[w] => v = w

\* A replica that has counted counts as the container it is about to create.
CapInv == Cardinality(Containers) + Cardinality(Creating) <= MaxReplicas + Cardinality(Replica) - 1

FleetInv == ChainType /\ StartInv /\ CapInv

\* Containers and replicas are finitely many.
LEMMA ContainersAreFinite ==
  /\ IsFiniteSet(Containers) /\ Cardinality(Containers) \in Nat
  /\ IsFiniteSet(Creating) /\ Cardinality(Creating) \in Nat
  /\ Cardinality(Creating) <= Cardinality(Replica) /\ Cardinality(Replica) \in Nat
BY FleetAssumption, FS_Subset, FS_CardinalityType DEF Containers, Creating

\* The same of the next state.
LEMMA ContainersStayFinite ==
  /\ IsFiniteSet(Containers') /\ Cardinality(Containers') \in Nat
  /\ IsFiniteSet(Creating') /\ Cardinality(Creating') \in Nat
  /\ Cardinality(Creating') <= Cardinality(Replica)
<1>1. Containers' \subseteq Clone /\ Creating' \subseteq Replica
  BY DEF Containers, Creating
<1> QED BY <1>1, FleetAssumption, FS_Subset, FS_CardinalityType

\* A step that brings no container and lets no replica count keeps the cap.
LEMMA CapKept ==
  ASSUME CapInv, Containers' \subseteq Containers, Creating' \subseteq Creating
  PROVE  CapInv'
<1>1. Cardinality(Containers') <= Cardinality(Containers) /\ Cardinality(Creating') <= Cardinality(Creating)
  BY ContainersAreFinite, FS_Subset
<1> QED BY <1>1, ContainersAreFinite, ContainersStayFinite, FleetAssumption DEF CapInv

\* What a replica does with its chain leaves the types alone.
LEMMA DoneTyped ==
  ASSUME ChainType, NEW w \in Replica, chain[w] # <<>>, Done(w)
  PROVE  /\ step' = [step EXCEPT ![w] = "idle"] /\ step' \in [Replica -> {"idle", "create"} \cup Clone]
         /\ chain' \in [Replica -> Seq(ScaleUp)]
         /\ \A v \in Replica : step'[v] # "idle" => chain'[v] # <<>>
BY DEF ChainType, Done

\* The first of a chain was loaded with runners there were.
LEMMA HeadLoaded == ASSUME ChainType, NEW w \in Replica, chain[w] # <<>> PROVE Head(chain[w]).live \subseteq Clone
<1>1. Head(chain[w]) \in ScaleUp
  BY DEF ChainType
<1> QED BY <1>1 DEF ScaleUp

\* Steps that touch neither a container nor a chain.
LEMMA NothingCreated ==
  ASSUME FleetInv, UNCHANGED <<clone, step, chain>>, old' \subseteq old
  PROVE  FleetInv'
<1>1. ChainType' /\ StartInv'
  BY DEF FleetInv, ChainType, StartInv
<1>2. Containers' = Containers /\ Creating' = Creating
  BY DEF Containers, Creating, Finished
<1> QED BY <1>1, <1>2, CapKept DEF FleetInv

\* A container that was started goes on, or is gone.
LEMMA ContainerMoves ==
  ASSUME FleetInv, NEW c \in Clone, clone[c] # "created", ~ Finished(c),
         NEW s \in {"booting", "up", "leaving", "stopped", "exited"},
         clone' = [clone EXCEPT ![c] = s], UNCHANGED <<step, chain>>, old' \subseteq old
  PROVE  FleetInv'
<1>1. ChainType'
  BY DEF FleetInv, ChainType
<1>2. StartInv'
  BY DEF FleetInv, ChainType, StartInv
<1>3. Containers' \subseteq Containers /\ Creating' = Creating
  BY DEF Containers, Creating, Finished, FleetInv, ChainType
<1> QED BY <1>1, <1>2, <1>3, CapKept DEF FleetInv

\* A step of an agent.
LEMMA AgentStep == ASSUME FleetInv, NEW c \in Clone, Agent(c) \/ Kill(c) PROVE FleetInv'
<1>1. CASE Register(c)
  BY <1>1, ContainerMoves DEF Register, Finished, consoleVars
<1>2. CASE Ask(c)
  BY <1>2, NothingCreated DEF Ask, consoleVars
<1>3. CASE Claim(c)
  BY <1>3, NothingCreated DEF Claim, consoleVars
<1>4. CASE Launch(c)
  BY <1>4, NothingCreated DEF Launch, consoleVars
<1>5. CASE Beat(c)
  BY <1>5, NothingCreated DEF Beat, consoleVars
<1>6. CASE IdleExit(c)
  BY <1>6, ContainerMoves DEF IdleExit, consoleVars, Finished
<1>7. CASE StopAgent(c)
  BY <1>7, ContainerMoves DEF StopAgent, consoleVars, Finished
<1>8. CASE Exit(c) \/ Kill(c)
  BY <1>8, ContainerMoves DEF Exit, Kill, Gone, consoleVars, Finished
<1> QED BY <1>1, <1>2, <1>3, <1>4, <1>5, <1>6, <1>7, <1>8 DEF Agent

\* No clone that a replica is about to start grows old.
LEMMA AgeStep == ASSUME FleetInv, NEW c \in Clone, Age(c) PROVE FleetInv'
<1>1. UNCHANGED <<clone, step, chain>> /\ old' = old \cup {c}
  BY DEF Age, consoleVars
<1>2. \A w \in Replica : step[w] \in Clone => step[w] # c
  BY DEF Age, Alive, FleetInv, StartInv
<1>3. ChainType' /\ StartInv'
  BY <1>1, <1>2 DEF FleetInv, ChainType, StartInv
<1>4. Containers' = Containers /\ Creating' = Creating
  BY <1>1 DEF Containers, Creating, Finished
<1> QED BY <1>3, <1>4, CapKept DEF FleetInv

\* The sweeper removes nothing that a replica is about to start.
LEMMA SweepStep == ASSUME FleetInv, NEW w \in Replica, Sweep(w) PROVE FleetInv'
<1> DEFINE done == {c \in Clone : clone[c] = "exited" \/ (clone[c] = "created" /\ c \in old)}
<1>1. UNCHANGED <<old, step, chain>>
  BY DEF Sweep
<1>2. clone' = [c \in Clone |-> IF c \in done THEN "absent" ELSE clone[c]] \/ UNCHANGED clone
  BY DEF Sweep, Cleanup
<1>3. CASE UNCHANGED clone
  BY <1>1, <1>3, NothingCreated
<1>4. CASE clone' = [c \in Clone |-> IF c \in done THEN "absent" ELSE clone[c]]
  <2>1. ChainType'
    BY <1>1, <1>4 DEF FleetInv, ChainType
  <2>2. StartInv'
    BY <1>1, <1>4 DEF FleetInv, StartInv
  <2>3. Containers' \subseteq Containers /\ Creating' = Creating
    BY <1>1, <1>4 DEF Containers, Creating, Finished
  <2> QED BY <2>1, <2>2, <2>3, CapKept DEF FleetInv
<1> QED BY <1>2, <1>3, <1>4

\* A request waits behind those before it.
LEMMA QueueBehind == ASSUME FleetInv, NEW w \in Replica, LoadCapacity(w) \/ Click(w) PROVE FleetInv'
<1>1. /\ UNCHANGED <<clone, step, old>>
      /\ \E by \in {"tick", "click"} : chain' = [chain EXCEPT ![w] = Append(@, [by |-> by, live |-> LiveRows])]
  BY DEF LoadCapacity, Click, Request
<1>2. \A by \in {"tick", "click"} : [by |-> by, live |-> LiveRows] \in ScaleUp
  BY DEF ScaleUp, LiveRows
<1>3. ChainType'
  <2>1. PICK request \in ScaleUp : chain' = [chain EXCEPT ![w] = Append(chain[w], request)]
    BY <1>1, <1>2
  <2>2. chain[w] \in Seq(ScaleUp)
    BY DEF FleetInv, ChainType
  <2>3. Append(chain[w], request) \in Seq(ScaleUp) /\ Append(chain[w], request) # <<>>
    <3>1. Append(chain[w], request) \in Seq(ScaleUp) /\ Len(Append(chain[w], request)) = Len(chain[w]) + 1
      BY <2>2
    <3>2. Len(chain[w]) \in Nat
      BY <2>2
    <3>3. Len(<<>>) = 0
      OBVIOUS
    <3>4. Append(chain[w], request) # <<>>
      BY <3>1, <3>2, <3>3
    <3> QED BY <3>1, <3>4
  <2> QED BY <1>1, <2>1, <2>3 DEF FleetInv, ChainType
<1>4. StartInv'
  BY <1>1 DEF FleetInv, StartInv
<1>5. Containers' = Containers /\ Creating' = Creating
  BY <1>1 DEF Containers, Creating, Finished
<1> QED BY <1>3, <1>4, <1>5, CapKept DEF FleetInv

\* Who counts sees every container there is; those who counted before are the other
\* replicas.
LEMMA CountStep == ASSUME FleetInv, NEW w \in Replica, Count(w) PROVE FleetInv'
<1> DEFINE seen == Head(chain[w]).live \cup Containers
<1>1. /\ chain[w] # <<>> /\ step[w] = "idle" /\ UNCHANGED <<clone, old>>
      /\ \/ Done(w)
         \/ Cardinality(seen) < MaxReplicas /\ step' = [step EXCEPT ![w] = "create"] /\ UNCHANGED chain
  <2>1. Head(chain[w]).live \subseteq Clone
    BY HeadLoaded DEF Count, FleetInv
  <2>2. IsFiniteSet(seen) /\ Cardinality(seen) \in Nat
    BY <2>1, ContainersAreFinite, FleetAssumption, FS_Subset, FS_CardinalityType DEF Containers
  <2> QED BY <2>2, FleetAssumption DEF Count, Containers
<1>2. CASE Done(w)
  <2>1. step' = [step EXCEPT ![w] = "idle"] /\ ChainType'
    BY <1>1, <1>2, DoneTyped DEF FleetInv, ChainType
  <2>2. StartInv'
    BY <1>1, <2>1, FleetAssumption DEF FleetInv, ChainType, StartInv
  <2>3. Containers' = Containers /\ Creating' \subseteq Creating
    BY <1>1, <2>1 DEF Containers, Creating, Finished, FleetInv, ChainType
  <2> QED BY <2>1, <2>2, <2>3, CapKept DEF FleetInv
<1>3. CASE Cardinality(seen) < MaxReplicas /\ step' = [step EXCEPT ![w] = "create"] /\ UNCHANGED chain
  <2>1. ChainType'
    BY <1>1, <1>3 DEF FleetInv, ChainType
  <2>2. StartInv'
    BY <1>1, <1>3, FleetAssumption DEF FleetInv, ChainType, StartInv
  <2>3. Containers' = Containers
    BY <1>1 DEF Containers, Finished
  <2>4. Cardinality(Containers) <= Cardinality(seen) /\ Cardinality(seen) \in Nat
    <3>1. Head(chain[w]).live \subseteq Clone
      BY <1>1, HeadLoaded DEF FleetInv
    <3>2. IsFiniteSet(seen)
      BY <3>1, FleetAssumption, FS_Subset DEF Containers
    <3> QED BY <3>2, FS_Subset, FS_CardinalityType
  <2>5. CapInv'
    BY <1>3, <2>3, <2>4, ContainersAreFinite, ContainersStayFinite, FleetAssumption DEF CapInv
  <2> QED BY <2>1, <2>2, <2>5 DEF FleetInv
<1> QED BY <1>1, <1>2, <1>3

\* What was counted for becomes a container.
LEMMA CreateStep == ASSUME FleetInv, NEW w \in Replica, Create(w) PROVE FleetInv'
<1>0. chain[w] # <<>>
  BY DEF Create, FleetInv, ChainType
<1>1. CASE Done(w) /\ UNCHANGED <<clone, old>>
  <2>1. step' = [step EXCEPT ![w] = "idle"] /\ ChainType'
    BY <1>0, <1>1, DoneTyped DEF FleetInv, ChainType
  <2>2. StartInv'
    BY <1>1, <2>1, FleetAssumption DEF FleetInv, ChainType, StartInv
  <2>3. Containers' = Containers /\ Creating' \subseteq Creating
    BY <1>1, <2>1 DEF Containers, Creating, Finished, FleetInv, ChainType
  <2> QED BY <2>1, <2>2, <2>3, CapKept DEF FleetInv
<1>2. CASE ~ (Done(w) /\ UNCHANGED <<clone, old>>)
  <2>1. step[w] = "create" /\ UNCHANGED chain
    BY <1>2 DEF Create
  <2>2. PICK c \in Unused : clone' = [clone EXCEPT ![c] = "created"] /\ step' = [step EXCEPT ![w] = c] /\ old' = old \ {c}
    BY <1>2 DEF Create
  <2>3. c \in Clone /\ clone[c] = "absent"
    BY <2>2 DEF Unused
  <2>4. ChainType'
    BY <2>1, <2>2, <2>3 DEF FleetInv, ChainType
  <2>5. \A v \in Replica : step[v] # c
    BY <2>3 DEF FleetInv, StartInv
  <2>6. StartInv'
    BY <2>2, <2>3, <2>5 DEF FleetInv, ChainType, StartInv
  <2>7. Containers' = Containers \cup {c} /\ c \notin Containers
    BY <2>2, <2>3 DEF Containers, Finished, FleetInv, ChainType
  <2>8. Creating' = Creating \ {w} /\ w \in Creating
    BY <2>1, <2>2, <2>3, FleetAssumption DEF Creating, FleetInv, ChainType
  <2>9. Cardinality(Containers') = Cardinality(Containers) + 1
    BY <2>7, ContainersAreFinite, FS_AddElement
  <2>10. Cardinality(Creating') = Cardinality(Creating) - 1
    BY <2>8, ContainersAreFinite, FS_RemoveElement
  <2>11. CapInv'
    BY <2>9, <2>10, ContainersAreFinite, FleetAssumption DEF CapInv, FleetInv
  <2> QED BY <2>4, <2>6, <2>11 DEF FleetInv
<1> QED BY <1>1, <1>2

\* The clone is started, removed, or left as it was created.
LEMMA StartStep == ASSUME FleetInv, NEW w \in Replica, StartClone(w) PROVE FleetInv'
<1> DEFINE c == step[w]
<1>1. /\ c \in Clone /\ Done(w) /\ UNCHANGED old
      /\ \E s \in {"booting", "absent", "created"} : clone' = [clone EXCEPT ![c] = s]
  BY DEF StartClone
<1>0. chain[w] # <<>>
  BY <1>1, FleetAssumption DEF FleetInv, ChainType
<1>2. step' = [step EXCEPT ![w] = "idle"] /\ ChainType'
  BY <1>0, <1>1, DoneTyped DEF FleetInv, ChainType
<1>3. c \in Containers
  BY <1>1 DEF FleetInv, StartInv, Containers, Finished
<1>4. StartInv'
  BY <1>1, <1>2, FleetAssumption DEF FleetInv, ChainType, StartInv
<1>5. Containers' \subseteq Containers
  BY <1>1, <1>3 DEF Containers, Finished, FleetInv, ChainType
<1>6. Creating' \subseteq Creating
  BY <1>2 DEF Creating, FleetInv, ChainType
<1> QED BY <1>2, <1>4, <1>5, <1>6, CapKept DEF FleetInv

\* A restart forgets the chain and what was counted for; a clone it had created stays.
LEMMA RestartStep == ASSUME FleetInv, NEW w \in Replica, Restart(w) PROVE FleetInv'
<1>1. /\ chain' = [chain EXCEPT ![w] = <<>>] /\ step' = [step EXCEPT ![w] = "idle"] /\ UNCHANGED <<clone, old>>
  BY DEF Restart
<1>2. ChainType'
  BY <1>1 DEF FleetInv, ChainType
<1>3. StartInv'
  BY <1>1, FleetAssumption DEF FleetInv, ChainType, StartInv
<1>4. Containers' = Containers /\ Creating' \subseteq Creating
  BY <1>1 DEF Containers, Creating, Finished, FleetInv, ChainType
<1> QED BY <1>2, <1>3, <1>4, CapKept DEF FleetInv

\* A replica's step: its tick, its provisioner, a click or a restart.
LEMMA ReplicaStep ==
  ASSUME FleetInv, NEW w \in Replica, Tick(w) \/ CooldownOver(w) \/ Provision(w) \/ Click(w) \/ Restart(w)
  PROVE  FleetInv'
<1>1. CASE Demand(w) \/ CooldownOver(w)
  BY <1>1, NothingCreated DEF Demand, CooldownOver
<1> QED BY <1>1, SweepStep, QueueBehind, CountStep, CreateStep, StartStep, RestartStep DEF Tick, Provision

\* What a replica is about to start, and the room it has counted, are right in every state.
THEOREM FleetInductive == FleetSpec => []FleetInv
<1>1. FleetInit => FleetInv
  <2> SUFFICES ASSUME FleetInit PROVE FleetInv
    OBVIOUS
  <2> USE DEF FleetInit
  <2>1. ChainType
    BY DEF ChainType
  <2>2. StartInv
    BY FleetAssumption DEF StartInv
  <2>3. Containers = {} /\ Creating = {}
    BY DEF Containers, Creating, Finished
  <2>4. CapInv
    BY <2>3, ContainersAreFinite, FS_EmptySet, FleetAssumption DEF CapInv
  <2> QED BY <2>1, <2>2, <2>4 DEF FleetInv
<1>2. FleetInv /\ [FleetNext]_fleetVars => FleetInv'
  <2> SUFFICES ASSUME FleetInv, [FleetNext]_fleetVars PROVE FleetInv'
    OBVIOUS
  <2>1. ASSUME NEW r \in Run, Enqueue(r) \/ End(r) PROVE FleetInv'
    BY <2>1, NothingCreated DEF Enqueue, End, consoleVars
  <2>2. CASE UNCHANGED fleetVars
    BY <2>2, NothingCreated DEF fleetVars, consoleVars
  <2> QED BY <2>1, <2>2, AgentStep, AgeStep, ReplicaStep, FleetAssumption DEF FleetNext
<1> QED BY <1>1, <1>2, PTL DEF FleetSpec

\* However many replicas scale up at once, the containers of a class pass its cap by at
\* most one clone for each replica but one.
THEOREM FleetNeverPassesItsCap == FleetSpec => []CapHolds
<1>1. FleetInv => CapHolds
  <2>1. Containers = {c \in Clone : ~ Finished(c)}
    BY DEF Containers
  <2> QED BY <2>1, ContainersAreFinite, FleetAssumption DEF FleetInv, CapInv, CapHolds
<1> QED BY <1>1, FleetInductive, PTL

-----------------------------------------------------------------------------
(***************************************************************************)
(* Probes.                                                                 *)
(***************************************************************************)

ProbeType ==
  /\ pc \in [Asker -> InStatement \cup {"idle", "napping", "over"}]
  /\ age \in [Asker -> Nat] /\ left \in [Asker -> Nat] /\ nap \in [Asker -> Nat] /\ ttl \in [Asker -> Nat]
  /\ outcome \in [Asker -> {"none", "no_runner", "done", "timeout", "error"}]
  /\ probe \in [Asker -> {"none", "queued", "running", "done"}]
  /\ inTime \subseteq Asker

\* How long the row of a request still lives.  It was given Wait + Grace; the request
\* learns of that within a Delay, waits Wait, and looks for the last time within another
\* Delay: hence the grace of more than two.
Timely(q) ==
  /\ pc[q] \in InStatement => age[q] <= Delay[q]
  /\ pc[q] = "inserted" => ttl[q] + age[q] >= Wait + Grace
  /\ pc[q] \in {"taking", "missed"} => /\ left[q] > 0 => ttl[q] >= left[q] + Grace - Delay[q]
                                       /\ ttl[q] + age[q] >= Grace - Delay[q]
  /\ pc[q] = "napping" => ttl[q] >= left[q] + Grace - Delay[q] /\ nap[q] <= left[q]
  /\ pc[q] = "deleting" => left[q] = 0

\* Where a row is there, and where it is not.
Stands(q) ==
  /\ pc[q] \in {"idle", "inserting", "took"} => probe[q] = "none"
  /\ Looking(q) => probe[q] # "none"

\* An answer that was stored in time waits for a look that will still come.
WillBeRead(q) ==
  /\ outcome[q] = "timeout" => pc[q] = "over"
  /\ q \in inTime => \/ pc[q] \in {"inserted", "taking", "napping"} /\ probe[q] = "done"
                     \/ pc[q] = "missed" /\ probe[q] = "done" /\ left[q] + age[q] > Delay[q]
                     \/ pc[q] = "took"

Asked(q) == Timely(q) /\ Stands(q) /\ WillBeRead(q)

AskedInv == ProbeType /\ \A q \in Asker : Asked(q)

\* A claimed probe is in the claim's answer or in its slot, until a fault.
ClaimsInv ==
  /\ probeFaults \in Nat
  /\ stop = "returned" => ~ up
  /\ loop # "answered" => claimed = {}
  /\ probeFaults = 0 => \A q \in Asker : probe[q] = "running" => q \in claimed \/ job[q] # "none"
  /\ StopAnswers

ProbeInv == AskedInv /\ ClaimsInv

\* A request that nothing happened to is where it was.
LEMMA AskedStays ==
  ASSUME NEW q \in Asker, Asked(q), pc'[q] = pc[q], age'[q] = age[q], left'[q] = left[q], nap'[q] = nap[q],
         outcome'[q] = outcome[q], probe'[q] = probe[q], ttl'[q] = ttl[q], q \in inTime' <=> q \in inTime
  PROVE  Asked(q)'
BY DEF Asked, Timely, Stands, WillBeRead, Looking, At

\* A step of one request leaves the others where they were.
LEMMA RequestKeepsOthers ==
  ASSUME AskedInv, NEW p \in Asker, RequestStep(p), NEW q \in Asker, q # p
  PROVE  Asked(q)'
<1>1. /\ pc'[q] = pc[q] /\ age'[q] = age[q] /\ left'[q] = left[q] /\ nap'[q] = nap[q]
      /\ outcome'[q] = outcome[q] /\ probe'[q] = probe[q] /\ ttl'[q] = ttl[q] /\ (q \in inTime' <=> q \in inTime)
  BY DEF AskedInv, ProbeType, RequestStep, Available, EnqueueProbe, ProbeEnqueued, Take, Served, Missed, WakeWaiter,
         Abandon, Breaks, Send, Goes, EndRequest, rows
<1> QED BY <1>1, AskedStays DEF AskedInv

\* The states of the requests keep their type.
LEMMA RequestTyped == ASSUME AskedInv, NEW q \in Asker, RequestStep(q) PROVE ProbeType'
<1> USE ProbeAssumption DEF AskedInv, ProbeType, InStatement, rows
<1>1. CASE Available(q)
  BY <1>1 DEF Available, Send, EndRequest
<1>2. CASE EnqueueProbe(q)
  BY <1>2 DEF EnqueueProbe, Goes
<1>3. CASE ProbeEnqueued(q)
  BY <1>3 DEF ProbeEnqueued, Send
<1>4. CASE Take(q)
  BY <1>4 DEF Take, Goes
<1>5. CASE Served(q)
  BY <1>5 DEF Served, EndRequest
<1>6. CASE Missed(q)
  BY <1>6 DEF Missed, Send
<1>7. CASE WakeWaiter(q)
  BY <1>7 DEF WakeWaiter, Send
<1>8. CASE Abandon(q)
  BY <1>8 DEF Abandon, EndRequest
<1>9. CASE Breaks(q)
  BY <1>9 DEF Breaks, EndRequest
<1> QED BY <1>1, <1>2, <1>3, <1>4, <1>5, <1>6, <1>7, <1>8, <1>9 DEF RequestStep

\* A request moves on, and its row and its answer with it.
LEMMA RequestMoves == ASSUME AskedInv, NEW q \in Asker, RequestStep(q) PROVE Asked(q)'
<1> USE ProbeAssumption DEF AskedInv, ProbeType, InStatement, rows, Asked, Timely, Stands, WillBeRead, Looking, At
<1>1. CASE Available(q)
  BY <1>1 DEF Available, Send, EndRequest
<1>2. CASE EnqueueProbe(q)
  BY <1>2 DEF EnqueueProbe, Goes
<1>3. CASE ProbeEnqueued(q)
  BY <1>3 DEF ProbeEnqueued, Send
<1>4. CASE Take(q)
  BY <1>4 DEF Take, Goes
<1>5. CASE Served(q)
  BY <1>5 DEF Served, EndRequest
<1>6. CASE Missed(q)
  BY <1>6 DEF Missed, Send
<1>7. CASE WakeWaiter(q)
  BY <1>7 DEF WakeWaiter, Send
<1>8. CASE Abandon(q)
  BY <1>8 DEF Abandon, EndRequest
<1>9. CASE Breaks(q)
  BY <1>9 DEF Breaks, EndRequest
<1> QED BY <1>1, <1>2, <1>3, <1>4, <1>5, <1>6, <1>7, <1>8, <1>9 DEF RequestStep

\* Time passes for every row and request alike.
LEMMA ClockMoves == ASSUME AskedInv, ClockTick PROVE AskedInv'
<1> USE ProbeAssumption
<1>1. ProbeType'
  BY DEF AskedInv, ProbeType, ClockTick, Less
<1>2. ASSUME NEW q \in Asker PROVE Asked(q)'
  <2>1. /\ pc'[q] = pc[q] /\ outcome'[q] = outcome[q] /\ probe'[q] = probe[q] /\ (q \in inTime' <=> q \in inTime)
        /\ pc[q] \in InStatement => age[q] < Delay[q]
        /\ pc[q] = "napping" => nap[q] > 0
        /\ age'[q] = IF pc[q] \in InStatement THEN age[q] + 1 ELSE age[q]
        /\ left'[q] = IF pc[q] \in {"taking", "took", "missed", "napping"} /\ left[q] > 0 THEN left[q] - 1 ELSE left[q]
        /\ nap'[q] = Less(nap[q]) /\ ttl'[q] = Less(ttl[q])
    BY DEF ClockTick, At
  <2>2. /\ age[q] \in Nat /\ left[q] \in Nat /\ nap[q] \in Nat /\ ttl[q] \in Nat /\ Asked(q)
        /\ Delay[q] \in Nat /\ Grace \in Nat /\ Wait \in Nat /\ Grace > 2 * Delay[q]
    BY DEF AskedInv, ProbeType
  <2> QED BY <2>1, <2>2 DEF Asked, Timely, Stands, WillBeRead, Looking, At, Less, InStatement
<1> QED BY <1>1, <1>2 DEF AskedInv

\* The sweeper removes no row its request will look at.
LEMMA SweepSpares == ASSUME AskedInv, SweepProbes PROVE AskedInv'
<1> USE ProbeAssumption
<1>1. ProbeType'
  BY DEF AskedInv, ProbeType, SweepProbes, asking
<1>2. ASSUME NEW q \in Asker PROVE Asked(q)'
  <2>1. /\ UNCHANGED <<pc, age, left, nap, outcome, ttl, inTime>>
        /\ probe'[q] = IF ttl[q] = 0 THEN "none" ELSE probe[q]
    BY DEF SweepProbes, asking
  <2>2. /\ age[q] \in Nat /\ left[q] \in Nat /\ nap[q] \in Nat /\ ttl[q] \in Nat /\ Asked(q)
        /\ Delay[q] \in Nat /\ Grace \in Nat /\ Wait \in Nat /\ Grace > 2 * Delay[q]
    BY DEF AskedInv, ProbeType
  <2>3. Looking(q) \/ pc[q] = "missed" => ttl[q] > 0
    BY <2>2 DEF Asked, Timely, Looking, At, InStatement
  <2> QED BY <2>1, <2>2, <2>3 DEF Asked, Timely, Stands, WillBeRead, Looking, At, InStatement
<1> QED BY <1>1, <1>2 DEF AskedInv

\* The worker touches a row that is queued or running, and answers in time only who
\* will look again.
LEMMA WorkerMoves == ASSUME AskedInv, WorkerStep PROVE AskedInv'
<1> USE ProbeAssumption
<1>1. CASE UNCHANGED <<asking, rows, inTime>>
  <2>1. ProbeType'
    BY <1>1 DEF AskedInv, ProbeType, asking, rows
  <2> QED BY <1>1, <2>1, AskedStays DEF AskedInv, asking, rows
<1>2. CASE ClaimProbe
  <2>1. /\ UNCHANGED <<asking, ttl, inTime>>
        /\ UNCHANGED probe \/ \E p \in Oldest : probe' = [probe EXCEPT ![p] = "running"]
    BY <1>2 DEF ClaimProbe
  <2>2. CASE UNCHANGED probe
    BY <1>1, <2>1, <2>2 DEF rows
  <2>3. ASSUME NEW p \in Oldest, probe' = [probe EXCEPT ![p] = "running"] PROVE AskedInv'
    <3>1. p \in Asker /\ probe[p] = "queued"
      BY DEF Oldest
    <3>2. ProbeType'
      BY <2>1, <2>3, <3>1 DEF AskedInv, ProbeType, asking
    <3>3. Asked(p)'
      BY <2>1, <2>3, <3>1 DEF AskedInv, ProbeType, asking, Asked, Timely, Stands, WillBeRead, Looking, At
    <3>4. ASSUME NEW q \in Asker, q # p PROVE Asked(q)'
      BY <2>1, <2>3, <3>1, <3>4, AskedStays DEF AskedInv, ProbeType, asking
    <3> QED BY <3>2, <3>3, <3>4 DEF AskedInv
  <2> QED BY <2>1, <2>2, <2>3
<1>3. ASSUME NEW p \in Asker, StoreAnswer(p) PROVE AskedInv'
  <2>1. /\ UNCHANGED <<asking, ttl>>
        /\ \/ UNCHANGED <<probe, inTime>>
           \/ /\ probe[p] = "running" /\ probe' = [probe EXCEPT ![p] = "done"]
              /\ inTime' = IF left[p] > Delay[p] /\ pc[p] # "over" THEN inTime \cup {p} ELSE inTime
    BY <1>3 DEF StoreAnswer
  <2>2. CASE UNCHANGED <<probe, inTime>>
    BY <1>1, <2>1, <2>2 DEF rows
  <2>3. CASE /\ probe[p] = "running" /\ probe' = [probe EXCEPT ![p] = "done"]
             /\ inTime' = IF left[p] > Delay[p] /\ pc[p] # "over" THEN inTime \cup {p} ELSE inTime
    <3>1. ProbeType'
      BY <2>1, <2>3 DEF AskedInv, ProbeType, asking
    <3>2. Asked(p)'
      BY <2>1, <2>3 DEF AskedInv, ProbeType, asking, Asked, Timely, Stands, WillBeRead, Looking, At, InStatement
    <3>3. ASSUME NEW q \in Asker, q # p PROVE Asked(q)'
      BY <2>1, <2>3, <3>3, AskedStays DEF AskedInv, ProbeType, asking
    <3> QED BY <3>1, <3>2, <3>3 DEF AskedInv
  <2> QED BY <2>1, <2>2, <2>3
<1> QED
  BY <1>1, <1>2, <1>3 DEF WorkerStep, WakeWorker, Claimed, ClaimFails, Stop, StopReturns, WorkerDies, GoesOffline,
     ComesBack, Executed, Expires, StoreFails

\* A request claims nothing: it adds a queued row, or takes its own away.
LEMMA RequestClaimsNothing == ASSUME AskedInv, ClaimsInv, NEW q \in Asker, RequestStep(q) PROVE ClaimsInv'
<1>1. UNCHANGED <<loop, claimed, job, up, stop>>
  BY DEF RequestStep, Available, EnqueueProbe, ProbeEnqueued, Take, Served, Missed, WakeWaiter, Abandon, Breaks,
     working, runnerVars
<1>2. probeFaults' = probeFaults \/ probeFaults' = probeFaults + 1
  BY DEF RequestStep, Available, EnqueueProbe, ProbeEnqueued, Take, Served, Missed, WakeWaiter, Abandon, Breaks
<1>3. \A p \in Asker : probe'[p] = "running" => probe[p] = "running"
  BY DEF RequestStep, Available, EnqueueProbe, ProbeEnqueued, Take, Served, Missed, WakeWaiter, Abandon, Breaks,
     rows, AskedInv, ProbeType
<1> QED BY <1>1, <1>2, <1>3 DEF ClaimsInv, StopAnswers

\* What the worker has claimed is in the claim's answer, then in its slot, until its
\* answer is stored; stop returns when both are empty.
LEMMA WorkerClaims == ASSUME AskedInv, ClaimsInv, WorkerStep PROVE ClaimsInv'
<1> USE DEF ClaimsInv, StopAnswers
<1>1. CASE WakeWorker
  BY <1>1 DEF WakeWorker, Turn, rows, runnerVars
<1>2. CASE ClaimProbe
  <2>1. /\ up /\ loop = "sent" /\ loop' = "answered" /\ UNCHANGED <<job, up, stop, probeFaults>>
        /\ \/ \E q \in Oldest : claimed' = {q} /\ probe' = [probe EXCEPT ![q] = "running"]
           \/ UNCHANGED probe
    BY <1>2 DEF ClaimProbe, runnerVars
  <2>2. \A p \in Asker : probe'[p] = "running" => probe[p] = "running" \/ p \in claimed'
    BY <2>1 DEF AskedInv, ProbeType
  <2> QED BY <2>1, <2>2
<1>3. CASE Claimed
  <2>1. /\ up /\ UNCHANGED <<probe, up, stop, probeFaults>> /\ claimed' = {}
        /\ \A p \in Asker : job'[p] = IF p \in claimed THEN "running" ELSE job[p]
    BY <1>3 DEF Claimed, rows, runnerVars
  <2>2. \A p \in Asker : p \in claimed \/ job[p] # "none" => job'[p] # "none"
    BY <2>1
  <2> QED BY <2>1, <2>2
<1>4. CASE ClaimFails \/ WorkerDies
  <2>1. /\ probeFaults' = probeFaults + 1 /\ claimed' = {}
        /\ \/ up' = up /\ stop' = stop
           \/ stop' = "died"
    BY <1>4 DEF ClaimFails, WorkerDies, runnerVars
  <2> QED BY <2>1
<1>5. CASE Stop
  BY <1>5 DEF Stop, rows, working
<1>6. CASE StopReturns
  <2>1. /\ loop = "idle" /\ Busy = {} /\ ~ up' /\ UNCHANGED <<probe, loop, claimed, job, probeFaults>>
    BY <1>6 DEF StopReturns, rows, working
  <2>2. \A q \in Asker : job[q] = "none"
    BY <2>1 DEF Busy
  <2> QED BY <2>1, <2>2
<1>7. CASE GoesOffline
  BY <1>7 DEF GoesOffline, rows, working
<1>8. CASE ComesBack
  BY <1>8 DEF ComesBack, rows, working
<1>9. ASSUME NEW q \in Asker, Executed(q) \/ Expires(q) PROVE ClaimsInv'
  <2>1. job' = [job EXCEPT ![q] = "storing"] /\ UNCHANGED <<probe, loop, claimed, up, stop, probeFaults>>
    BY <1>9 DEF Executed, Expires, rows, runnerVars
  <2>2. \A p \in Asker : job[p] # "none" => job'[p] # "none"
    BY <2>1
  <2> QED BY <2>1, <2>2
<1>10. ASSUME NEW q \in Asker, StoreAnswer(q) PROVE ClaimsInv'
  <2>1. /\ up /\ LeaveSlot(q) /\ UNCHANGED <<claimed, up, stop, probeFaults>>
        /\ \/ probe[q] = "running" /\ probe' = [probe EXCEPT ![q] = "done"]
           \/ probe[q] # "running" /\ UNCHANGED probe
    BY <1>10 DEF StoreAnswer, runnerVars
  <2>2. \A p \in Asker : probe'[p] = "running" => p # q /\ probe[p] = "running" /\ job'[p] = job[p]
    BY <2>1 DEF LeaveSlot, AskedInv, ProbeType
  <2>3. loop' # "answered" \/ loop' = loop
    BY <2>1 DEF LeaveSlot, Turn
  <2>4. loop' # "answered" => claimed' = {}
    BY <2>1, <2>3 DEF LeaveSlot
  <2> QED BY <2>1, <2>2, <2>4
<1>11. ASSUME NEW q \in Asker, StoreFails(q) PROVE ClaimsInv'
  <2>1. /\ up /\ LeaveSlot(q) /\ UNCHANGED <<claimed, up, stop>> /\ probeFaults' = probeFaults + 1
    BY <1>11 DEF StoreFails, runnerVars
  <2>2. loop' # "answered" => claimed' = {}
    BY <2>1 DEF LeaveSlot, Turn
  <2> QED BY <2>1, <2>2
<1> QED
  BY <1>1, <1>2, <1>3, <1>4, <1>5, <1>6, <1>7, <1>8, <1>9, <1>10, <1>11 DEF WorkerStep

\* Rows, answers and claims belong together in every state.
THEOREM ProbesInductive == ProbeSpec => []ProbeInv
<1>1. ProbeInit => ProbeInv
  <2> SUFFICES ASSUME ProbeInit PROVE ProbeInv
    OBVIOUS
  <2>1. AskedInv
    BY ProbeAssumption DEF ProbeInit, AskedInv, ProbeType, Asked, Timely, Stands, WillBeRead, Looking, At, InStatement
  <2>2. ClaimsInv
    BY DEF ProbeInit, ClaimsInv, StopAnswers
  <2> QED BY <2>1, <2>2 DEF ProbeInv
<1>2. ProbeInv /\ [ProbeNext]_probeVars => ProbeInv'
  <2> SUFFICES ASSUME AskedInv, ClaimsInv, [ProbeNext]_probeVars PROVE AskedInv' /\ ClaimsInv'
    BY DEF ProbeInv
  <2>1. ASSUME NEW q \in Asker, RequestStep(q) PROVE AskedInv' /\ ClaimsInv'
    BY <2>1, RequestTyped, RequestMoves, RequestKeepsOthers, RequestClaimsNothing DEF AskedInv
  <2>2. CASE WorkerStep
    BY <2>2, WorkerMoves, WorkerClaims
  <2>3. CASE ClockTick
    <3>1. ClaimsInv'
      BY <2>3 DEF ClockTick, ClaimsInv, StopAnswers
    <3> QED BY <2>3, <3>1, ClockMoves
  <2>4. CASE SweepProbes
    <3>1. ClaimsInv'
      BY <2>4 DEF SweepProbes, ClaimsInv, StopAnswers, working, runnerVars
    <3> QED BY <2>4, <3>1, SweepSpares
  <2>5. CASE UNCHANGED probeVars
    <3>1. ProbeType' /\ ClaimsInv'
      BY <2>5 DEF probeVars, asking, rows, working, runnerVars, AskedInv, ProbeType, ClaimsInv, StopAnswers
    <3>2. \A q \in Asker : Asked(q)'
      BY <2>5, AskedStays DEF probeVars, asking, rows, AskedInv
    <3> QED BY <3>1, <3>2 DEF AskedInv
  <2> QED BY <2>1, <2>2, <2>3, <2>4, <2>5 DEF ProbeNext
<1> QED BY <1>1, <1>2, PTL DEF ProbeSpec

\* A row outlives every look at it, an answer written in time is read, and a worker that
\* stops has answered what it claimed: for every wait, grace of more than two delays and
\* number of requests.
THEOREM ProbesAreAnswered == ProbeSpec => []AnswersReachTheUser
<1>1. ProbeInv => AnswersReachTheUser
  BY DEF ProbeInv, AskedInv, Asked, Stands, WillBeRead, ClaimsInv, AnswersReachTheUser, AwaitedRowStands, StoredAnswerIsServed
<1> QED BY <1>1, ProbesInductive, PTL

-----------------------------------------------------------------------------
(***************************************************************************)
(* RunnerWatch.                                                            *)
(***************************************************************************)

Audiences == {"member", "operator"}
Frame == [counts : 0 .. 2, ids : {"a", "b", "hidden", "nothing"}]
RoomRec == [audience : Audiences, open : BOOLEAN, members : SUBSET Socket, last : Frame]
Rooms == [RoomIds -> RoomRec]
SocketRec ==
  [st : {"new", "loading", "loaded", "live"}, room : RoomIds \cup {NoRoom}, got : Frame, gone : BOOLEAN]
RefreshRec ==
  [st : {"idle", "roles", "operators", "sending", "loaded"}, of : SUBSET (Socket \X Audiences),
   members : SUBSET Watcher, visited : SUBSET RoomIds, room : RoomIds \cup {NoRoom}, got : Frame]

WatchType ==
  /\ counts \in {1, 2} /\ ids \in {"a", "b"}
  /\ ticket \in [Socket -> Audiences \cup {"none"}]
  /\ socket \in [Socket -> SocketRec] /\ room \in Rooms /\ shown \in [Socket -> Frame]
  /\ refresh \in RefreshRec
  /\ refresh.st = "loaded" => refresh.room \in RoomIds

\* A socket is in one room at most, and nobody is in a room that was forgotten.
RoomsApart(rooms) ==
  /\ \A r \in RoomIds : rooms[r].members # {} => rooms[r].open
  /\ \A p \in Socket : \A r, q \in RoomIds : p \in rooms[r].members /\ p \in rooms[q].members => r = q

\* Nobody is in a room, or checked, before it has come.
NewInv ==
  /\ \A p \in Socket : socket[p].st = "new" => \A r \in RoomIds : p \notin room[r].members
  /\ \A m \in refresh.of : socket[m[1]].st # "new"

\* Who waits for a snapshot waits for the one of its room, unless it was moved.
ReadingInv ==
  \A p \in Socket : socket[p].st \in {"loading", "loaded"} =>
    /\ socket[p].room \in RoomIds
    /\ p \notin overtaken => \A r \in RoomIds : p \in room[r].members => r = socket[p].room

\* Who is in a room shows what was last sent to it, unless it is gone, was moved while it
\* waited, or still waits.
ShownInv ==
  \A r \in RoomIds : room[r].last # Nothing =>
    \A p \in room[r].members :
      \/ shown[p] = room[r].last \/ socket[p].gone \/ p \in overtaken
      \/ socket[p].st \in {"loading", "loaded"}

WatchInv == WatchType /\ RoomsApart(room) /\ NewInv /\ ReadingInv /\ ShownInv

\* The fields of a room.
LEMMA RoomFields ==
  ASSUME NEW rooms \in Rooms, NEW r \in RoomIds
  PROVE  /\ rooms[r] \in RoomRec
         /\ rooms[r].audience \in Audiences /\ rooms[r].open \in BOOLEAN
         /\ rooms[r].members \in SUBSET Socket /\ rooms[r].last \in Frame
  BY DEF Rooms, RoomRec

\* What is sent is a frame.
LEMMA FramesTyped ==
  /\ Nothing \in Frame
  /\ WatchType => \A audience : Snapshot(audience) \in Frame
  BY DEF Nothing, Frame, Snapshot, WatchType

\* Who leaves is in no room, and the rest of the rooms is as before.
LEMMA LeftRooms ==
  ASSUME NEW rooms \in Rooms, RoomsApart(rooms), NEW p \in Socket
  PROVE  /\ Left(rooms, p) \in Rooms /\ RoomsApart(Left(rooms, p))
         /\ \A r \in RoomIds : /\ Left(rooms, p)[r].last = rooms[r].last
                               /\ Left(rooms, p)[r].members = rooms[r].members \ {p}
<1> DEFINE L == Left(rooms, p)
<1>1. ASSUME NEW r \in RoomIds
      PROVE  /\ L[r] \in RoomRec /\ L[r].last = rooms[r].last
             /\ L[r].members = rooms[r].members \ {p}
             /\ L[r].members # {} => L[r].open
  <2>0. rooms[r] \in RoomRec /\ rooms[r].members \in SUBSET Socket
    BY RoomFields
  <2>1. CASE r \in In(rooms, p)
    <3>1. L[r] = [rooms[r] EXCEPT !.members = rooms[r].members \ {p}, !.open = rooms[r].members # {p}]
      BY <2>1 DEF Left
    <3>2. p \in rooms[r].members
      BY <2>1 DEF In
    <3>3. (rooms[r].members # {p}) \in BOOLEAN
      OBVIOUS
    <3>4. L[r] \in RoomRec
      BY <2>0, <3>1, <3>3, Zenon DEF RoomRec
    <3>5. L[r].last = rooms[r].last /\ L[r].members = rooms[r].members \ {p}
          /\ L[r].open = (rooms[r].members # {p})
      BY <2>0, <3>1 DEF RoomRec
    <3> QED BY <3>2, <3>4, <3>5
  <2>2. CASE r \notin In(rooms, p)
    <3>1. L[r] = rooms[r]
      BY <2>2 DEF Left
    <3>2. p \notin rooms[r].members
      BY <2>2 DEF In, RoomsApart
    <3> QED BY <2>0, <3>1, <3>2 DEF RoomsApart
  <2> QED BY <2>1, <2>2
<1>2. L \in Rooms
  <2>1. L = [r \in RoomIds |-> L[r]]
    BY DEF Left
  <2> QED BY <1>1, <2>1, Zenon DEF Rooms
<1> HIDE DEF L
<1>3. RoomsApart(L)
  BY <1>1 DEF RoomsApart
<1> QED BY <1>1, <1>2, <1>3 DEF L

\* Who comes in is in a room of its audience, if there is an object for one; a room that is
\* opened for it was sent nothing.
LEMMA EnteredRooms ==
  ASSUME NEW rooms \in Rooms, RoomsApart(rooms), NEW p \in Socket, NEW audience \in Audiences,
         \A r \in RoomIds : p \notin rooms[r].members
  PROVE  /\ Entered(rooms, p, audience) \in Rooms /\ RoomsApart(Entered(rooms, p, audience))
         /\ \A r \in RoomIds :
              /\ Entered(rooms, p, audience)[r].members \subseteq rooms[r].members \cup {p}
              /\ Entered(rooms, p, audience)[r].last \in {Nothing, rooms[r].last}
              /\ p \in Entered(rooms, p, audience)[r].members =>
                   r \in Open(Entered(rooms, p, audience), audience)
<1> DEFINE there == Open(rooms, audience)
           x == IF there # {} THEN CHOOSE y \in there : TRUE ELSE CHOOSE y \in Free(rooms) : TRUE
           was == IF there # {} THEN rooms[x] ELSE EmptyRoom(audience)
           E == Entered(rooms, p, audience)
<1>1. E = [rooms EXCEPT ![x] = [was EXCEPT !.open = TRUE, !.members = @ \cup {p}]]
  BY DEF Entered
<1>2. CASE x \notin RoomIds
  <2>1. E = rooms
    BY <1>1, <1>2 DEF Rooms
  <2> HIDE DEF E
  <2>2. \A r \in RoomIds : E[r].members \subseteq rooms[r].members \cup {p}
    BY <2>1
  <2>3. \A r \in RoomIds : E[r].last = rooms[r].last /\ p \notin E[r].members
    BY <2>1
  <2> QED BY <2>1, <2>2, <2>3 DEF E
<1>3. CASE x \in RoomIds
  <2>1. /\ was \in RoomRec /\ was.members \subseteq rooms[x].members /\ was.audience = audience
        /\ was.last \in {Nothing, rooms[x].last}
    <3>1. CASE there # {}
      <4>1. x \in there /\ was = rooms[x]
        BY <3>1
      <4>2. rooms[x].audience = audience
        BY <4>1 DEF Open
      <4> HIDE DEF x, was
      <4> QED BY <1>3, <4>1, <4>2, RoomFields
    <3>2. CASE there = {}
      <4>1. was = EmptyRoom(audience)
        BY <3>2
      <4>2. EmptyRoom(audience) \in RoomRec
        BY FramesTyped DEF EmptyRoom, RoomRec
      <4> HIDE DEF x, was
      <4> QED BY <4>1, <4>2 DEF EmptyRoom
    <3> QED BY <3>1, <3>2
  <2> DEFINE now == [was EXCEPT !.open = TRUE, !.members = was.members \cup {p}]
  <2>2. E = [rooms EXCEPT ![x] = now]
    BY <1>1
  <2> HIDE DEF x, was, E
  <2>3. /\ now \in RoomRec /\ now.open = TRUE /\ now.members = was.members \cup {p}
        /\ now.audience = audience /\ now.last = was.last
    <3>1. was.members \cup {p} \in SUBSET Socket
      BY <1>3, <2>1, RoomFields
    <3> QED BY <2>1, <3>1 DEF RoomRec
  <2> HIDE DEF now
  <2>4. E[x] = now /\ \A r \in RoomIds : r # x => E[r] = rooms[r]
    BY <1>3, <2>2 DEF Rooms
  <2>5. E \in Rooms
    BY <1>3, <2>2, <2>3, Zenon DEF Rooms
  <2>6. \A r \in RoomIds : E[r].members \subseteq rooms[r].members \cup {p}
    BY <2>1, <2>3, <2>4
  <2>7. \A r \in RoomIds : E[r].last \in {Nothing, rooms[r].last}
    BY <2>1, <2>3, <2>4
  <2>8. \A r \in RoomIds : p \in E[r].members => r = x
    BY <2>4
  <2>9. x \in Open(E, audience)
    BY <1>3, <2>3, <2>4 DEF Open
  <2>10. RoomsApart(E)
    <3>1. \A r \in RoomIds : E[r].members # {} => E[r].open
      BY <2>3, <2>4 DEF RoomsApart
    <3>2. ASSUME NEW q \in Socket, NEW r1 \in RoomIds, NEW r2 \in RoomIds,
                 q \in E[r1].members, q \in E[r2].members
          PROVE  r1 = r2
      <4>1. CASE q = p
        BY <2>8, <3>2, <4>1
      <4>2. CASE q # p
        BY <2>6, <3>2, <4>2 DEF RoomsApart
      <4> QED BY <4>1, <4>2
    <3> QED BY <3>1, <3>2 DEF RoomsApart
  <2> QED BY <2>5, <2>6, <2>7, <2>8, <2>9, <2>10 DEF E
<1> QED BY <1>2, <1>3

\* What checking a subscription does to the rooms: who is in one that was sent something
\* was there before, and only who was moved is in another one.
Kept(rooms, there, moved) ==
  /\ rooms \in Rooms /\ RoomsApart(rooms)
  /\ \A r \in RoomIds :
       /\ rooms[r].last \in {Nothing, there[r].last}
       /\ rooms[r].last # Nothing => rooms[r].members \subseteq there[r].members
       /\ rooms[r].members \subseteq there[r].members \cup moved

\* A socket that is moved comes into a room that is owed whatever is next.
LEMMA MovedRooms ==
  ASSUME NEW rooms \in Rooms, RoomsApart(rooms), NEW p \in Socket, NEW audience \in Audiences
  PROVE  Kept(Moved(rooms, p, audience), rooms, {p})
<1> DEFINE L == Left(rooms, p)
           into == Entered(L, p, audience)
           M == Moved(rooms, p, audience)
<1>1. /\ L \in Rooms /\ RoomsApart(L)
      /\ \A r \in RoomIds : L[r].last = rooms[r].last /\ L[r].members = rooms[r].members \ {p}
  BY LeftRooms
<1>2. \A r \in RoomIds : p \notin L[r].members
  BY <1>1
<1>3. M = [r \in RoomIds |-> IF r \in Open(into, audience) THEN [into[r] EXCEPT !.last = Nothing] ELSE into[r]]
  BY DEF Moved
<1> HIDE DEF L
<1>4. /\ into \in Rooms /\ RoomsApart(into)
      /\ \A r \in RoomIds :
           /\ into[r].members \subseteq L[r].members \cup {p} /\ into[r].last \in {Nothing, L[r].last}
           /\ p \in into[r].members => r \in Open(into, audience)
  BY <1>1, <1>2, EnteredRooms
<1> HIDE DEF into, M
<1>5. ASSUME NEW r \in RoomIds
      PROVE  /\ M[r] \in RoomRec /\ M[r].members = into[r].members /\ M[r].open = into[r].open
             /\ M[r].last \in {Nothing, into[r].last}
             /\ r \in Open(into, audience) => M[r].last = Nothing
  <2>0. into[r] \in RoomRec /\ Nothing \in Frame
    BY <1>4, RoomFields, FramesTyped
  <2>1. CASE r \in Open(into, audience)
    <3>1. M[r] = [into[r] EXCEPT !.last = Nothing]
      BY <1>3, <2>1
    <3> QED BY <2>0, <3>1 DEF RoomRec
  <2>2. CASE r \notin Open(into, audience)
    BY <1>3, <2>0, <2>2
  <2> QED BY <2>1, <2>2
<1>6. M \in Rooms
  <2>1. M = [r \in RoomIds |-> M[r]]
    BY <1>3
  <2> QED BY <1>5, <2>1, Zenon DEF Rooms
<1>7. RoomsApart(M)
  BY <1>4, <1>5 DEF RoomsApart
<1>8. ASSUME NEW r \in RoomIds
      PROVE  /\ M[r].last \in {Nothing, rooms[r].last}
             /\ M[r].last # Nothing => M[r].members \subseteq rooms[r].members
             /\ M[r].members \subseteq rooms[r].members \cup {p}
  BY <1>1, <1>4, <1>5
<1> QED BY <1>6, <1>7, <1>8 DEF Kept, M

-----------------------------------------------------------------------------
(* The checks of a refresh, one after another: a fold over a finite set.     *)

\* A family of subsets of a finite set that is not empty has a smallest member: what is
\* used for induction over finite sets.
LEMMA SmallestSet ==
  ASSUME NEW S, IsFiniteSet(S), NEW F \in SUBSET (SUBSET S), F # {}
  PROVE  \E X \in F : \A Y \in F : Y \subseteq X => Y = X
<1>1. F \subseteq FiniteSubsetsOf(S)
  BY FS_Subset DEF FiniteSubsetsOf
<1>2. \E X \in F : \A Y \in F : ~ (<<Y, X>> \in StrictSubsetOrdering(S))
  BY <1>1, FS_StrictSubsetOrderingWellFounded, WFMin
<1> QED BY <1>2 DEF StrictSubsetOrdering

Some(s) == CHOOSE m \in s : TRUE
Rest(s) == s \ {Some(s)}

\* g treats the members of every subset of S, from the rooms there are.
Treats(known, S, g) ==
  g = [s \in SUBSET S |-> IF s = {} THEN room ELSE Treat(Some(s), known, g[Rest(s)])]

\* An element is taken from a set that has one.
LEMMA OneAndRest ==
  ASSUME NEW S, NEW s \in SUBSET S, s # {}
  PROVE  Some(s) \in s /\ Rest(s) \in SUBSET S /\ Rest(s) \subseteq s /\ Rest(s) # s
  BY DEF Some, Rest

\* What such a function is at a set.
LEMMA TreatsAt ==
  ASSUME NEW known, NEW S, NEW g, Treats(known, S, g)
  PROVE  /\ g[{}] = room
         /\ \A s \in SUBSET S : s # {} => g[s] = Treat(Some(s), known, g[Rest(s)])
  BY DEF Treats

\* Two such functions agree where both are defined.
LEMMA TreatsAgree ==
  ASSUME NEW known, NEW T, IsFiniteSet(T), NEW S \in SUBSET T, NEW g, NEW h,
         Treats(known, S, g), Treats(known, T, h)
  PROVE  \A s \in SUBSET S : g[s] = h[s]
<1> DEFINE F == {s \in SUBSET S : g[s] # h[s]}
<1>1. SUFFICES ASSUME F # {} PROVE FALSE
  OBVIOUS
<1>2. PICK X \in F : \A Y \in F : Y \subseteq X => Y = X
  <2>1. IsFiniteSet(S)
    BY FS_Subset
  <2>2. F \in SUBSET (SUBSET S)
    OBVIOUS
  <2> HIDE DEF F
  <2> QED BY <1>1, <2>1, <2>2, SmallestSet
<1>3. CASE X = {}
  BY <1>2, <1>3, TreatsAt
<1>4. CASE X # {}
  <2>1. X \in SUBSET S /\ X \in SUBSET T /\ g[X] # h[X]
    BY <1>2
  <2>2. Rest(X) \in SUBSET S /\ Rest(X) \subseteq X /\ Rest(X) # X
    BY <1>4, <2>1, OneAndRest
  <2>3. g[Rest(X)] = h[Rest(X)]
    BY <1>2, <2>2
  <2>4. g[X] = Treat(Some(X), known, g[Rest(X)]) /\ h[X] = Treat(Some(X), known, h[Rest(X)])
    BY <1>4, <2>1, TreatsAt
  <2> QED BY <2>1, <2>3, <2>4
<1> QED BY <1>3, <1>4

\* There is such a function.
LEMMA TreatsExists ==
  ASSUME NEW known, NEW S, IsFiniteSet(S)
  PROVE  \E g : Treats(known, S, g)
<1> DEFINE F == {s \in SUBSET S : ~ \E g : Treats(known, s, g)}
           fold(s) == CHOOSE g : Treats(known, s, g)
<1>1. SUFFICES ASSUME F # {} PROVE FALSE
  OBVIOUS
<1>2. PICK X \in F : \A Y \in F : Y \subseteq X => Y = X
  <2>1. F \in SUBSET (SUBSET S)
    OBVIOUS
  <2> HIDE DEF F
  <2> QED BY <1>1, <2>1, SmallestSet
<1>3. X \in SUBSET S /\ IsFiniteSet(X) /\ ~ \E g : Treats(known, X, g)
  BY <1>2, FS_Subset
<1>4. \A s \in SUBSET X : s # X => Treats(known, s, fold(s))
  BY <1>2, <1>3
<1> DEFINE h == [s \in SUBSET X |-> IF s = {} THEN room ELSE Treat(Some(s), known, fold(Rest(s))[Rest(s)])]
<1> HIDE DEF fold
<1>5. ASSUME NEW s \in SUBSET X, s # {} PROVE h[Rest(s)] = fold(Rest(s))[Rest(s)]
  <2> DEFINE r == Rest(s)
  <2>1. r \in SUBSET X /\ r # X
    BY <1>5, OneAndRest
  <2>2. Treats(known, r, fold(r))
    BY <1>4, <2>1
  <2>3. CASE r = {}
    BY <2>1, <2>2, <2>3, TreatsAt
  <2>4. CASE r # {}
    <3>1. Rest(r) \in SUBSET r /\ Rest(r) \in SUBSET X /\ Rest(r) # X
      BY <2>1, <2>4, OneAndRest
    <3>2. fold(Rest(r))[Rest(r)] = fold(r)[Rest(r)]
      <4>1. Treats(known, Rest(r), fold(Rest(r))) /\ IsFiniteSet(r)
        BY <1>3, <1>4, <2>1, <3>1, FS_Subset
      <4> QED BY <2>2, <3>1, <4>1, TreatsAgree
    <3>3. fold(r)[r] = Treat(Some(r), known, fold(r)[Rest(r)])
      BY <2>2, <2>4, TreatsAt
    <3> QED BY <2>1, <2>4, <3>2, <3>3
  <2> QED BY <2>3, <2>4
<1>6. Treats(known, X, h)
  BY <1>5 DEF Treats
<1> QED BY <1>3, <1>6

Treated(known, S) == FoldSet(LAMBDA m, rooms : Treat(m, known, rooms), room, S)

\* What the fold of the community modules is.
LEMMA FoldTreats ==
  ASSUME NEW known, NEW S, IsFiniteSet(S)
  PROVE  \E g : Treats(known, S, g) /\ Treated(known, S) = g[S]
<1>1. PICK h : Treats(known, S, h)
  BY TreatsExists
<1> QED BY <1>1 DEF Treated, FoldSet, MapThenFoldSet, Treats, Some, Rest

\* The sockets that a refresh moves.
MovedNow(known) == {m[1] : m \in {y \in refresh.of : Finding(y, known) \notin {"gone", y[2]}}}

\* One check.
LEMMA TreatRooms ==
  ASSUME WatchType, NEW known \in BOOLEAN, NEW m \in refresh.of, NEW rooms, Kept(rooms, room, MovedNow(known))
  PROVE  Kept(Treat(m, known, rooms), room, MovedNow(known))
<1>1. m[1] \in Socket /\ m[2] \in Audiences /\ m[2] # "gone"
  BY DEF WatchType, RefreshRec, Audiences
<1>2. rooms \in Rooms /\ RoomsApart(rooms)
  BY DEF Kept
<1>3. CASE Finding(m, known) = "gone"
  <2>1. Treat(m, known, rooms) = Left(rooms, m[1])
    BY <1>1, <1>3 DEF Treat
  <2> QED BY <1>1, <1>2, <2>1, LeftRooms DEF Kept
<1>4. CASE Finding(m, known) # "gone" /\ Finding(m, known) = m[2]
  BY <1>4 DEF Treat
<1>5. CASE Finding(m, known) \notin {"gone", m[2]}
  <2>1. Treat(m, known, rooms) = Moved(rooms, m[1], Finding(m, known))
    BY <1>5 DEF Treat
  <2>2. Finding(m, known) \in Audiences
    BY <1>1, <1>5 DEF Finding, Audience, Audiences
  <2>3. m[1] \in MovedNow(known)
    BY <1>5 DEF MovedNow
  <2>4. Kept(Moved(rooms, m[1], Finding(m, known)), rooms, {m[1]})
    BY <1>1, <1>2, <2>2, MovedRooms
  <2> QED BY <2>1, <2>3, <2>4 DEF Kept
<1> QED BY <1>3, <1>4, <1>5

\* All checks.
LEMMA AllTreated ==
  ASSUME WatchType, RoomsApart(room), NEW known \in BOOLEAN
  PROVE  Kept(Treated(known, refresh.of), room, MovedNow(known))
<1> DEFINE S == refresh.of
<1>1. S \in SUBSET (Socket \X Audiences) /\ IsFiniteSet(S)
  <2>1. S \in SUBSET (Socket \X Audiences)
    BY DEF WatchType, RefreshRec
  <2>2. IsFiniteSet(Socket) /\ IsFiniteSet(Audiences)
    <3>1. IsFiniteSet({"member"})
      BY FS_Singleton
    <3>2. IsFiniteSet({"member"} \cup {"operator"})
      BY <3>1, FS_AddElement
    <3>3. Audiences = {"member"} \cup {"operator"}
      BY DEF Audiences
    <3> QED BY <3>2, <3>3, WatchAssumption
  <2>3. IsFiniteSet(Socket \X Audiences)
    BY <2>2, FS_Product
  <2> QED BY <2>1, <2>3, FS_Subset
<1>2. PICK g : Treats(known, S, g) /\ Treated(known, S) = g[S]
  BY <1>1, FoldTreats
<1> DEFINE Bad == {s \in SUBSET S : ~ Kept(g[s], room, MovedNow(known))}
<1>3. Bad = {}
  <2>1. SUFFICES ASSUME Bad # {} PROVE FALSE
    OBVIOUS
  <2>2. PICK X \in Bad : \A Y \in Bad : Y \subseteq X => Y = X
    <3>1. Bad \in SUBSET (SUBSET S)
      OBVIOUS
    <3> HIDE DEF Bad, S
    <3> QED BY <1>1, <2>1, <3>1, SmallestSet
  <2>3. X \in SUBSET S /\ ~ Kept(g[X], room, MovedNow(known))
    BY <2>2
  <2>4. CASE X = {}
    <3>1. g[X] = room
      BY <1>2, <2>4, TreatsAt
    <3>2. Kept(room, room, MovedNow(known))
      BY DEF Kept, WatchType
    <3> QED BY <2>3, <3>1, <3>2
  <2>5. CASE X # {}
    <3>1. Some(X) \in X /\ Rest(X) \in SUBSET S /\ Rest(X) \subseteq X /\ Rest(X) # X
      BY <2>3, <2>5, OneAndRest
    <3>2. Kept(g[Rest(X)], room, MovedNow(known))
      BY <2>2, <3>1
    <3>3. g[X] = Treat(Some(X), known, g[Rest(X)])
      BY <1>2, <2>3, <2>5, TreatsAt
    <3>4. Some(X) \in refresh.of
      BY <2>3, <3>1
    <3> QED BY <2>3, <3>2, <3>3, <3>4, TreatRooms
  <2> QED BY <2>4, <2>5
<1>4. Kept(g[S], room, MovedNow(known))
  BY <1>3
<1> QED BY <1>2, <1>4

-----------------------------------------------------------------------------
(* The steps of RunnerWatch. *)

\* The fields of a socket and of the refresh.
LEMMA SocketFields ==
  ASSUME WatchType, NEW p \in Socket
  PROVE  /\ socket[p] \in SocketRec /\ socket[p].gone \in BOOLEAN /\ socket[p].got \in Frame
         /\ socket[p].room \in RoomIds \cup {NoRoom}
         /\ ticket[p] \in Audiences \cup {"none"}
  BY DEF WatchType, SocketRec

\* A step of a socket changes its fields and those of nobody else.
LEMMA SocketChange ==
  ASSUME WatchType, NEW p \in Socket, NEW rec \in SocketRec, socket' = [socket EXCEPT ![p] = rec]
  PROVE  /\ socket' \in [Socket -> SocketRec] /\ socket'[p] = rec
         /\ \A q \in Socket : q # p => socket'[q] = socket[q]
  BY DEF WatchType

\* A change of the fleet, of users and of tickets, and the queries of a refresh: nobody's
\* room, frame or state.
LEMMA QuietWatch ==
  ASSUME WatchInv, WatchType', UNCHANGED <<socket, room, shown, overtaken>>,
         \A m \in refresh'.of : socket[m[1]].st # "new"
  PROVE  WatchInv'
  BY DEF WatchInv, RoomsApart, NewInv, ReadingInv, ShownInv

\* A socket comes into a room.
LEMMA SubscribeKeeps ==
  ASSUME WatchInv, NEW p \in Socket, Subscribe(p)
  PROVE  WatchInv'
<1> USE DEF WatchInv
<1>0. socket[p].st = "new" /\ ticket[p] \in Audiences /\ UNCHANGED <<World, shown, refresh, overtaken>>
  BY SocketFields DEF Subscribe
<1>1. /\ room' \in Rooms /\ RoomsApart(room')
      /\ \A r \in RoomIds : /\ room'[r].members \subseteq room[r].members \cup {p}
                            /\ room'[r].last \in {Nothing, room[r].last}
  BY <1>0, EnteredRooms DEF Subscribe, NewInv, WatchType
<1> DEFINE r0 == CHOOSE r \in In(room', p) : TRUE
           rec == [socket[p] EXCEPT !.st = "loading", !.room = r0]
<1>2. r0 \in RoomIds /\ p \in room'[r0].members
  <2>1. In(room', p) # {}
    BY DEF Subscribe, Housed
  <2>2. r0 \in In(room', p)
    BY <2>1
  <2> HIDE DEF r0
  <2> QED BY <2>2 DEF In
<1>3. socket' = [socket EXCEPT ![p] = rec]
  <2>1. socket' = [socket EXCEPT ![p].st = "loading", ![p].room = r0]
    BY DEF Subscribe
  <2> HIDE DEF r0
  <2> QED BY <2>1 DEF WatchType
<1> HIDE DEF r0
<1>4. rec \in SocketRec /\ rec.st = "loading" /\ rec.room = r0
  BY <1>2, SocketFields DEF SocketRec
<1> HIDE DEF rec
<1>5. /\ socket' \in [Socket -> SocketRec] /\ socket'[p] = rec
      /\ \A q \in Socket : q # p => socket'[q] = socket[q]
  BY <1>3, <1>4, SocketChange
<1>6. WatchType'
  <2>1. ticket' \in [Socket -> Audiences \cup {"none"}]
    BY DEF Subscribe, WatchType
  <2> QED BY <1>0, <1>1, <1>5, <2>1 DEF WatchType, World
<1>7. NewInv'
  <2>1. ASSUME NEW q \in Socket, socket'[q].st = "new", NEW r \in RoomIds PROVE q \notin room'[r].members
    BY <1>1, <1>4, <1>5, <2>1 DEF NewInv
  <2>2. ASSUME NEW m \in refresh.of PROVE socket'[m[1]].st # "new"
    <3>1. m[1] \in Socket /\ socket[m[1]].st # "new"
      BY DEF NewInv, WatchType, RefreshRec
    <3> QED BY <1>4, <1>5, <3>1
  <2> QED BY <1>0, <2>1, <2>2 DEF NewInv
<1>8. ReadingInv'
  <2> SUFFICES ASSUME NEW q \in Socket, socket'[q].st \in {"loading", "loaded"}
               PROVE  /\ socket'[q].room \in RoomIds
                      /\ q \notin overtaken' => \A r \in RoomIds : q \in room'[r].members => r = socket'[q].room
    BY DEF ReadingInv
  <2>1. CASE q = p
    BY <1>1, <1>2, <1>4, <1>5, <2>1 DEF RoomsApart
  <2>2. CASE q # p
    BY <1>0, <1>1, <1>5, <2>2 DEF ReadingInv
  <2> QED BY <2>1, <2>2
<1>9. ShownInv'
  <2> SUFFICES ASSUME NEW r \in RoomIds, room'[r].last # Nothing, NEW q \in room'[r].members
               PROVE  \/ shown'[q] = room'[r].last \/ socket'[q].gone \/ q \in overtaken'
                      \/ socket'[q].st \in {"loading", "loaded"}
    BY DEF ShownInv
  <2>1. CASE q = p
    BY <1>4, <1>5, <2>1
  <2>2. CASE q # p
    <3>1. room[r].last = room'[r].last /\ q \in room[r].members /\ q \in Socket
      BY <1>1, <2>2, RoomFields
    <3> QED BY <1>0, <1>5, <2>2, <3>1 DEF ShownInv
  <2> QED BY <2>1, <2>2
<1> QED BY <1>1, <1>6, <1>7, <1>8, <1>9

\* A socket leaves: the page has gone, or its snapshot could not be read.
LEMMA LeavingKeeps ==
  ASSUME WatchInv, NEW p \in Socket, NEW rec \in SocketRec, rec.gone = TRUE, rec.st # "new",
         rec.st \in {"loading", "loaded"} => rec.st = socket[p].st /\ rec.room = socket[p].room,
         socket' = [socket EXCEPT ![p] = rec], room' = Left(room, p),
         UNCHANGED <<World, ticket, shown, refresh, overtaken>>
  PROVE  WatchInv'
<1> USE DEF WatchInv
<1>1. /\ room' \in Rooms /\ RoomsApart(room')
      /\ \A r \in RoomIds : room'[r].last = room[r].last /\ room'[r].members = room[r].members \ {p}
  BY LeftRooms DEF WatchType
<1>2. /\ socket' \in [Socket -> SocketRec] /\ socket'[p] = rec
      /\ \A q \in Socket : q # p => socket'[q] = socket[q]
  BY SocketChange
<1>3. WatchType'
  BY <1>1, <1>2 DEF WatchType, World
<1>4. NewInv'
  <2>1. ASSUME NEW q \in Socket, socket'[q].st = "new", NEW r \in RoomIds PROVE q \notin room'[r].members
    BY <1>1, <1>2, <2>1 DEF NewInv
  <2>2. ASSUME NEW m \in refresh.of PROVE socket'[m[1]].st # "new"
    <3>1. m[1] \in Socket /\ socket[m[1]].st # "new"
      BY DEF NewInv, WatchType, RefreshRec
    <3> QED BY <1>2, <3>1
  <2> QED BY <2>1, <2>2 DEF NewInv
<1>5. ReadingInv'
  BY <1>1, <1>2 DEF ReadingInv
<1>6. ShownInv'
  <2> SUFFICES ASSUME NEW r \in RoomIds, room'[r].last # Nothing, NEW q \in room'[r].members
               PROVE  \/ shown'[q] = room'[r].last \/ socket'[q].gone \/ q \in overtaken'
                      \/ socket'[q].st \in {"loading", "loaded"}
    BY DEF ShownInv
  <2>1. room[r].last = room'[r].last /\ q \in room[r].members /\ q \in Socket /\ q # p
    BY <1>1, RoomFields DEF WatchType
  <2> QED BY <1>2, <2>1 DEF ShownInv
<1> QED BY <1>1, <1>3, <1>4, <1>5, <1>6

\* A frame to a room, that no room saw before: everybody in it shows it, and the rest shows
\* what it did.
LEMMA SentKeeps ==
  ASSUME WatchType, RoomsApart(room), ShownInv, NEW r \in RoomIds, NEW frame \in Frame,
         shown' = ToRoom(r, frame), room' = [room EXCEPT ![r].last = frame]
  PROVE  /\ room' \in Rooms /\ RoomsApart(room') /\ shown' \in [Socket -> Frame]
         /\ \A q \in RoomIds : room'[q].members = room[q].members
         /\ \A p \in room[r].members : shown'[p] = room'[r].last
         /\ \A q \in RoomIds : q # r =>
              /\ room'[q].last = room[q].last
              /\ \A p \in room[q].members : shown'[p] = shown[p]
<1>1. /\ room'[r] = [room[r] EXCEPT !.last = frame]
      /\ \A q \in RoomIds : q # r => room'[q] = room[q]
  BY DEF WatchType, Rooms
<1>2. room[r] \in RoomRec
  BY RoomFields DEF WatchType
<1>3. /\ room'[r] \in RoomRec /\ room'[r].members = room[r].members /\ room'[r].open = room[r].open
      /\ room'[r].last = frame
  BY <1>1, <1>2 DEF RoomRec
<1>4. room' \in Rooms
  <2>1. room' = [q \in RoomIds |-> room'[q]]
    BY DEF WatchType, Rooms
  <2>2. \A q \in RoomIds : room'[q] \in RoomRec
    BY <1>1, <1>3, RoomFields DEF WatchType
  <2> QED BY <2>1, <2>2, Zenon DEF Rooms
<1>5. \A q \in RoomIds : room'[q].members = room[q].members /\ room'[q].open = room[q].open
  BY <1>1, <1>3
<1>6. RoomsApart(room')
  BY <1>5 DEF RoomsApart
<1>7. shown' \in [Socket -> Frame] /\ \A p \in Socket : shown'[p] = IF p \in room[r].members THEN frame ELSE shown[p]
  BY DEF ToRoom, WatchType
<1>8. \A q \in RoomIds : \A p \in room[q].members : p \in Socket /\ (p \in room[r].members => q = r)
  BY RoomFields DEF RoomsApart, WatchType
<1> QED BY <1>1, <1>3, <1>4, <1>5, <1>6, <1>7, <1>8

\* A socket gets its snapshot, alone or with its room.
LEMMA DeliverKeeps ==
  ASSUME WatchInv, NEW p \in Socket, DeliverSnapshot(p)
  PROVE  WatchInv'
<1> USE DEF WatchInv
<1> DEFINE r == socket[p].room
           rec == [socket[p] EXCEPT !.st = "live", !.room = NoRoom, !.got = Nothing]
<1>0. /\ socket[p].st = "loaded" /\ r \in RoomIds
      /\ p \notin overtaken => \A q \in RoomIds : p \in room[q].members => q = r
      /\ UNCHANGED <<World, ticket, refresh, overtaken>>
  BY DEF DeliverSnapshot, ReadingInv
<1>1. socket' = [socket EXCEPT ![p] = rec]
  BY DEF DeliverSnapshot, WatchType
<1>2. rec \in SocketRec /\ rec.st = "live" /\ rec.gone = socket[p].gone
  BY SocketFields, FramesTyped DEF SocketRec
<1>3. \/ /\ socket[p].got = room[r].last /\ room' = room
         /\ shown' = [shown EXCEPT ![p] = IF socket[p].gone THEN shown[p] ELSE socket[p].got]
      \/ /\ shown' = ToRoom(r, socket[p].got)
         /\ room' = [room EXCEPT ![r].last = socket[p].got]
  BY DEF DeliverSnapshot
<1>4. socket[p].got \in Frame
  BY SocketFields
<1> HIDE DEF rec, r
<1>5. /\ socket' \in [Socket -> SocketRec] /\ socket'[p] = rec
      /\ \A q \in Socket : q # p => socket'[q] = socket[q]
  BY <1>1, <1>2, SocketChange
<1> DEFINE Shows(q, x) == \/ shown'[x] = room'[q].last \/ socket'[x].gone \/ x \in overtaken'
                          \/ socket'[x].st \in {"loading", "loaded"}
<1>6. /\ room' \in Rooms /\ RoomsApart(room') /\ shown' \in [Socket -> Frame]
      /\ \A q \in RoomIds : room'[q].members = room[q].members
      /\ \A q \in RoomIds : room'[q].last # Nothing => \A x \in room'[q].members : Shows(q, x)
  <2>1. CASE /\ socket[p].got = room[r].last /\ room' = room
             /\ shown' = [shown EXCEPT ![p] = IF socket[p].gone THEN shown[p] ELSE socket[p].got]
    <3>1. shown' \in [Socket -> Frame]
      BY <1>4, <2>1 DEF WatchType
    <3>2. \A x \in Socket : x # p => shown'[x] = shown[x]
      BY <2>1 DEF WatchType
    <3>3. socket[p].gone \/ shown'[p] = room[r].last
      BY <2>1 DEF WatchType
    <3>4. ASSUME NEW q \in RoomIds, room'[q].last # Nothing, NEW x \in room'[q].members PROVE Shows(q, x)
      <4>1. x \in Socket /\ x \in room[q].members /\ room[q].last # Nothing
        BY <2>1, <3>4, RoomFields DEF WatchType
      <4>2. CASE x = p
        <5>1. p \in overtaken \/ q = r
          BY <1>0, <4>1, <4>2
        <5>2. p \in overtaken \/ socket'[p].gone \/ shown'[p] = room'[q].last
          BY <1>2, <1>5, <2>1, <3>3, <5>1
        <5> QED BY <1>0, <4>2, <5>2
      <4>3. CASE x # p
        BY <1>0, <1>5, <2>1, <3>2, <4>1, <4>3 DEF ShownInv
      <4> QED BY <4>2, <4>3
    <3> QED BY <2>1, <3>1, <3>4 DEF WatchType
  <2>2. CASE shown' = ToRoom(r, socket[p].got) /\ room' = [room EXCEPT ![r].last = socket[p].got]
    <3>1. /\ room' \in Rooms /\ RoomsApart(room') /\ shown' \in [Socket -> Frame]
          /\ \A q \in RoomIds : room'[q].members = room[q].members
          /\ \A x \in room[r].members : shown'[x] = room'[r].last
          /\ \A q \in RoomIds : q # r =>
               /\ room'[q].last = room[q].last
               /\ \A x \in room[q].members : shown'[x] = shown[x]
      BY <1>0, <1>4, <2>2, SentKeeps
    <3>2. ASSUME NEW q \in RoomIds, room'[q].last # Nothing, NEW x \in room'[q].members PROVE Shows(q, x)
      <4>1. x \in Socket /\ x \in room[q].members
        BY <3>1, RoomFields DEF WatchType
      <4>2. CASE q = r
        BY <3>1, <4>1, <4>2
      <4>3. CASE q # r /\ x = p
        BY <1>0, <4>1, <4>3
      <4>4. CASE q # r /\ x # p
        <5>1. /\ shown'[x] = shown[x] /\ room'[q].last = room[q].last /\ socket'[x] = socket[x]
          BY <1>5, <3>1, <4>1, <4>4
        <5> QED BY <1>0, <3>2, <4>1, <5>1 DEF ShownInv
      <4> QED BY <4>2, <4>3, <4>4
    <3> HIDE DEF Shows
    <3> QED BY <3>1, <3>2
  <2> QED BY <1>3, <2>1, <2>2
<1>7. ShownInv'
  BY <1>6 DEF ShownInv
<1> HIDE DEF Shows
<1>8. WatchType'
  BY <1>0, <1>5, <1>6 DEF WatchType, World
<1>9. NewInv'
  <2>1. ASSUME NEW q \in Socket, socket'[q].st = "new", NEW s \in RoomIds PROVE q \notin room'[s].members
    BY <1>2, <1>5, <1>6, <2>1 DEF NewInv
  <2>2. ASSUME NEW m \in refresh.of PROVE socket'[m[1]].st # "new"
    <3>1. m[1] \in Socket /\ socket[m[1]].st # "new"
      BY DEF NewInv, WatchType, RefreshRec
    <3> QED BY <1>2, <1>5, <3>1
  <2> QED BY <1>0, <2>1, <2>2 DEF NewInv
<1>10. ReadingInv'
  BY <1>0, <1>2, <1>5, <1>6 DEF ReadingInv
<1> QED BY <1>6, <1>7, <1>8, <1>9, <1>10

\* A refresh checks, moves and evicts.
LEMMA RevalidateKeeps ==
  ASSUME WatchInv, Revalidate
  PROVE  WatchInv'
<1> USE DEF WatchInv
<1>1. PICK known \in BOOLEAN :
        /\ room' = Treated(known, refresh.of)
        /\ socket' = [p \in Socket |-> [socket[p] EXCEPT !.gone = @ \/
                       p \in {m[1] : m \in {x \in refresh.of : Finding(x, known) = "gone"}}]]
        /\ overtaken' = overtaken \cup {p \in MovedNow(known) : socket[p].st \in {"loading", "loaded"}}
  BY Zenon DEF Revalidate, Treated, MovedNow
<1>2. /\ refresh' = [refresh EXCEPT !.st = "sending", !.of = {}, !.members = {}]
      /\ UNCHANGED <<World, ticket, shown>>
  BY Zenon DEF Revalidate
<1>3. Kept(room', room, MovedNow(known))
  BY <1>1, AllTreated
<1>4. ASSUME NEW p \in Socket
      PROVE  /\ socket'[p] \in SocketRec /\ socket'[p].st = socket[p].st /\ socket'[p].room = socket[p].room
             /\ socket[p].gone => socket'[p].gone
  <2>1. PICK b \in BOOLEAN : socket'[p] = [socket[p] EXCEPT !.gone = socket[p].gone \/ b]
    <3> DEFINE b == p \in {m[1] : m \in {x \in refresh.of : Finding(x, known) = "gone"}}
    <3>1. socket'[p] = [socket[p] EXCEPT !.gone = socket[p].gone \/ b]
      BY <1>1
    <3>2. b \in BOOLEAN
      OBVIOUS
    <3> HIDE DEF b
    <3> QED BY <3>1, <3>2
  <2>2. socket[p] \in SocketRec /\ (socket[p].gone \/ b) \in BOOLEAN
    BY SocketFields
  <2>3. socket'[p] \in SocketRec
    BY <2>1, <2>2, Zenon DEF SocketRec
  <2>4. /\ socket'[p].st = socket[p].st /\ socket'[p].room = socket[p].room
        /\ socket'[p].gone = (socket[p].gone \/ b)
    BY <2>1, <2>2 DEF SocketRec
  <2> QED BY <2>3, <2>4
<1>5. socket' \in [Socket -> SocketRec]
  <2>1. socket' = [p \in Socket |-> socket'[p]]
    BY <1>1
  <2> QED BY <1>4, <2>1, Zenon
<1>6. refresh' \in RefreshRec /\ refresh'.st = "sending" /\ refresh'.of = {}
  BY <1>2 DEF WatchType, RefreshRec
<1>7. WatchType'
  BY <1>2, <1>3, <1>5, <1>6 DEF WatchType, World, Kept
<1>8. \A p \in MovedNow(known) : p \in Socket /\ socket[p].st # "new"
  BY DEF MovedNow, NewInv, WatchType, RefreshRec
<1>9. NewInv'
  BY <1>3, <1>4, <1>6, <1>8 DEF NewInv, Kept
<1>10. ReadingInv'
  <2> SUFFICES ASSUME NEW p \in Socket, socket'[p].st \in {"loading", "loaded"}
               PROVE  /\ socket'[p].room \in RoomIds
                      /\ p \notin overtaken' => \A r \in RoomIds : p \in room'[r].members => r = socket'[p].room
    BY DEF ReadingInv
  <2>1. socket[p].st \in {"loading", "loaded"} /\ socket'[p].room = socket[p].room
    BY <1>4
  <2>2. p \notin overtaken' => p \notin overtaken /\ p \notin MovedNow(known)
    BY <1>1, <2>1
  <2>3. \A r \in RoomIds : p \in room'[r].members => p \in room[r].members \/ p \in MovedNow(known)
    BY <1>3 DEF Kept
  <2> QED BY <2>1, <2>2, <2>3 DEF ReadingInv
<1>11. ShownInv'
  <2> SUFFICES ASSUME NEW r \in RoomIds, room'[r].last # Nothing, NEW p \in room'[r].members
               PROVE  \/ shown'[p] = room'[r].last \/ socket'[p].gone \/ p \in overtaken'
                      \/ socket'[p].st \in {"loading", "loaded"}
    BY DEF ShownInv
  <2>1. room'[r].last = room[r].last /\ p \in room[r].members /\ p \in Socket
    BY <1>3, RoomFields DEF Kept, WatchType
  <2>2. \/ shown[p] = room[r].last \/ socket[p].gone \/ p \in overtaken
        \/ socket[p].st \in {"loading", "loaded"}
    BY <2>1 DEF ShownInv
  <2> QED BY <1>1, <1>2, <1>4, <2>1, <2>2
<1>12. RoomsApart(room')
  BY <1>3 DEF Kept
<1> QED BY <1>7, <1>9, <1>10, <1>11, <1>12

\* A room gets the frame that a refresh read for it.
LEMMA SendKeeps ==
  ASSUME WatchInv, SendRoom
  PROVE  WatchInv'
<1> USE DEF WatchInv
<1> DEFINE r == refresh.room
<1>1. /\ r \in RoomIds /\ refresh.got \in Frame
      /\ refresh' = [refresh EXCEPT !.st = "sending", !.room = NoRoom, !.got = Nothing]
      /\ UNCHANGED <<World, ticket, socket, overtaken>>
  BY DEF SendRoom, WatchType, RefreshRec
<1>2. refresh' \in RefreshRec /\ refresh'.st = "sending" /\ refresh'.of = refresh.of
  BY <1>1, FramesTyped DEF WatchType, RefreshRec
<1>3. UNCHANGED <<shown, room>> \/ (shown' = ToRoom(r, refresh.got) /\ room' = [room EXCEPT ![r].last = refresh.got])
  BY DEF SendRoom
<1> HIDE DEF r
<1>4. CASE UNCHANGED <<shown, room>>
  <2>1. WatchType'
    BY <1>1, <1>2, <1>4 DEF WatchType, World
  <2> QED BY <1>1, <1>2, <1>4, <2>1, QuietWatch DEF NewInv
<1>5. CASE shown' = ToRoom(r, refresh.got) /\ room' = [room EXCEPT ![r].last = refresh.got]
  <2>1. /\ room' \in Rooms /\ RoomsApart(room') /\ shown' \in [Socket -> Frame]
        /\ \A q \in RoomIds : room'[q].members = room[q].members
        /\ \A x \in room[r].members : shown'[x] = room'[r].last
        /\ \A q \in RoomIds : q # r =>
             /\ room'[q].last = room[q].last
             /\ \A x \in room[q].members : shown'[x] = shown[x]
    BY <1>1, <1>5, SentKeeps
  <2>2. WatchType'
    BY <1>1, <1>2, <2>1 DEF WatchType, World
  <2>3. NewInv'
    BY <1>1, <1>2, <2>1 DEF NewInv
  <2>4. ReadingInv'
    BY <1>1, <2>1 DEF ReadingInv
  <2>5. ShownInv'
    BY <1>1, <2>1 DEF ShownInv
  <2> QED BY <2>1, <2>2, <2>3, <2>4, <2>5
<1> QED BY <1>3, <1>4, <1>5

\* A change of the fleet or of a user reaches nobody before the next query.
LEMMA ChangeKeeps ==
  ASSUME WatchInv, Change
  PROVE  WatchInv'
<1> USE DEF WatchInv
<1>0. UNCHANGED <<socket, room, shown, overtaken>>
  BY Zenon DEF Change
<1>1. counts' \in {1, 2} /\ ids' \in {"a", "b"} /\ UNCHANGED <<ticket, refresh>>
  BY DEF Change, WatchType
<1>2. WatchType'
  BY <1>0, <1>1 DEF WatchType
<1> QED BY <1>0, <1>1, <1>2, QuietWatch DEF NewInv

\* A refresh begins with those who are in a room.
LEMMA StartKeeps ==
  ASSUME WatchInv, StartRefresh
  PROVE  WatchInv'
<1> USE DEF WatchInv
<1>0. UNCHANGED <<socket, room, shown, overtaken>>
  BY Zenon DEF StartRefresh
<1> DEFINE of == {<<p, AudienceOf(p)>> : p \in Subscribed}
<1>1. \A p \in Subscribed : p \in Socket /\ AudienceOf(p) \in Audiences /\ socket[p].st # "new"
  <2> SUFFICES ASSUME NEW p \in Subscribed
               PROVE  p \in Socket /\ AudienceOf(p) \in Audiences /\ socket[p].st # "new"
    OBVIOUS
  <2>1. p \in Socket /\ In(room, p) # {}
    BY DEF Subscribed
  <2>2. PICK r \in In(room, p) : AudienceOf(p) = room[r].audience
    BY <2>1 DEF AudienceOf
  <2>3. r \in RoomIds /\ p \in room[r].members
    BY DEF In
  <2> QED BY <2>1, <2>2, <2>3, RoomFields DEF NewInv, WatchType
<1>2. of \in SUBSET (Socket \X Audiences) /\ \A m \in of : socket[m[1]].st # "new"
  BY <1>1
<1>3. refresh' = [AtRest EXCEPT !.st = "roles", !.of = of] /\ UNCHANGED <<World, ticket>>
  BY DEF StartRefresh
<1> HIDE DEF of
<1>4. refresh' \in RefreshRec /\ refresh'.st = "roles" /\ refresh'.of = of
  BY <1>2, <1>3, FramesTyped DEF AtRest, RefreshRec
<1>5. WatchType'
  BY <1>0, <1>3, <1>4 DEF WatchType, World
<1> QED BY <1>0, <1>2, <1>4, <1>5, QuietWatch

\* Who is still a member is read.
LEMMA RolesKeep ==
  ASSUME WatchInv, ReadRoles
  PROVE  WatchInv'
<1> USE DEF WatchInv
<1>0. UNCHANGED <<socket, room, shown, overtaken>>
  BY Zenon DEF ReadRoles
<1>1. PICK M \in SUBSET Watcher : refresh' = [refresh EXCEPT !.st = "operators", !.members = M]
  <2> DEFINE present == {u \in Watcher : standing[u] # "gone"}
  <2>1. \/ refresh' = [refresh EXCEPT !.st = "operators", !.members = present]
        \/ refresh' = [refresh EXCEPT !.st = "operators", !.members = Watcher]
    BY Zenon DEF ReadRoles
  <2>2. present \in SUBSET Watcher /\ Watcher \in SUBSET Watcher
    OBVIOUS
  <2> HIDE DEF present
  <2>3. CASE refresh' = [refresh EXCEPT !.st = "operators", !.members = present]
    BY <2>2, <2>3, Zenon
  <2>4. CASE refresh' = [refresh EXCEPT !.st = "operators", !.members = Watcher]
    BY <2>2, <2>4, Zenon
  <2> QED BY <2>1, <2>3, <2>4, Zenon
<1>2. refresh' \in RefreshRec /\ refresh'.st = "operators" /\ refresh'.of = refresh.of
  BY <1>1 DEF WatchType, RefreshRec
<1>3. WatchType'
  BY <1>0, <1>2 DEF ReadRoles, WatchType, World
<1> QED BY <1>0, <1>2, <1>3, QuietWatch DEF NewInv

\* A refresh ends.
LEMMA EndKeeps ==
  ASSUME WatchInv, EndRefresh
  PROVE  WatchInv'
<1> USE DEF WatchInv
<1>0. UNCHANGED <<socket, room, shown, overtaken>>
  BY Zenon DEF EndRefresh
<1>1. refresh' = AtRest /\ UNCHANGED <<World, ticket>>
  BY DEF EndRefresh
<1>2. refresh' \in RefreshRec /\ refresh'.st = "idle" /\ refresh'.of = {}
  BY <1>1, FramesTyped DEF AtRest, RefreshRec
<1>3. WatchType'
  BY <1>0, <1>1, <1>2 DEF WatchType, World
<1> QED BY <1>0, <1>2, <1>3, QuietWatch

\* The snapshot of a room is read.
LEMMA LoadRoomKeeps ==
  ASSUME WatchInv, NEW r \in RoomIds, LoadRoom(r)
  PROVE  WatchInv'
<1> USE DEF WatchInv
<1>0. UNCHANGED <<socket, room, shown, overtaken>>
  BY Zenon DEF LoadRoom
<1>1. refresh.visited \cup {r} \in SUBSET RoomIds /\ Snapshot(room[r].audience) \in Frame
  BY FramesTyped DEF WatchType, RefreshRec
<1>2. \/ refresh' = [refresh EXCEPT !.st = "loaded", !.visited = refresh.visited \cup {r}, !.room = r,
                                    !.got = Snapshot(room[r].audience)]
      \/ refresh' = [refresh EXCEPT !.visited = refresh.visited \cup {r}]
  BY Zenon DEF LoadRoom
<1>3. /\ refresh' \in RefreshRec /\ refresh'.of = refresh.of
      /\ refresh'.st = "loaded" => refresh'.room \in RoomIds
  <2> HIDE DEF WatchInv
  <2>1. refresh \in RefreshRec /\ refresh.st = "sending"
    BY DEF LoadRoom, WatchInv, WatchType
  <2> QED BY <1>1, <1>2, <2>1 DEF RefreshRec
<1>4. WatchType'
  BY <1>0, <1>3 DEF LoadRoom, WatchType, World
<1> QED BY <1>0, <1>3, <1>4, QuietWatch DEF NewInv

\* A ticket is given.
LEMMA MintKeeps ==
  ASSUME WatchInv, NEW p \in Socket, Mint(p)
  PROVE  WatchInv'
<1> USE DEF WatchInv
<1>0. UNCHANGED <<socket, room, shown, overtaken>>
  BY Zenon DEF Mint
<1>1. ticket' \in [Socket -> Audiences \cup {"none"}] /\ UNCHANGED <<World, refresh>>
  BY DEF Mint, WatchType, Audience, Audiences
<1>2. WatchType'
  BY <1>0, <1>1 DEF WatchType, World
<1> QED BY <1>0, <1>1, <1>2, QuietWatch DEF NewInv

\* The snapshot of a socket is read.
LEMMA LoadKeeps ==
  ASSUME WatchInv, NEW p \in Socket, LoadForSocket(p)
  PROVE  WatchInv'
<1> USE DEF WatchInv
<1> DEFINE rec == [socket[p] EXCEPT !.st = "loaded", !.got = Snapshot(room[socket[p].room].audience)]
<1>1. socket' = [socket EXCEPT ![p] = rec] /\ socket[p].st = "loading"
      /\ UNCHANGED <<World, ticket, room, shown, refresh, overtaken>>
  BY DEF LoadForSocket, WatchType
<1>2. rec \in SocketRec /\ rec.st = "loaded" /\ rec.room = socket[p].room /\ rec.gone = socket[p].gone
  BY SocketFields, FramesTyped DEF SocketRec
<1> HIDE DEF rec
<1>3. /\ socket' \in [Socket -> SocketRec] /\ socket'[p] = rec
      /\ \A q \in Socket : q # p => socket'[q] = socket[q]
  BY <1>1, <1>2, SocketChange
<1>4. WatchType'
  BY <1>1, <1>3 DEF WatchType, World
<1>5. NewInv'
  <2>1. ASSUME NEW q \in Socket, socket'[q].st = "new", NEW s \in RoomIds PROVE q \notin room'[s].members
    BY <1>1, <1>2, <1>3, <2>1 DEF NewInv
  <2>2. ASSUME NEW m \in refresh.of PROVE socket'[m[1]].st # "new"
    <3>1. m[1] \in Socket /\ socket[m[1]].st # "new"
      BY DEF NewInv, WatchType, RefreshRec
    <3> QED BY <1>2, <1>3, <3>1
  <2> QED BY <1>1, <2>1, <2>2 DEF NewInv
<1>6. ReadingInv'
  BY <1>1, <1>2, <1>3 DEF ReadingInv
<1>7. ShownInv'
  <2> SUFFICES ASSUME NEW r \in RoomIds, room[r].last # Nothing, NEW q \in room[r].members
               PROVE  \/ shown[q] = room[r].last \/ socket'[q].gone \/ q \in overtaken
                      \/ socket'[q].st \in {"loading", "loaded"}
    BY <1>1 DEF ShownInv
  <2>1. q \in Socket
    BY RoomFields DEF WatchType
  <2> QED BY <1>2, <1>3, <2>1 DEF ShownInv
<1> QED BY <1>1, <1>4, <1>5, <1>6, <1>7

\* Every step keeps the invariant.
LEMMA WatchStep == WatchInv /\ [WatchNext]_watchVars => WatchInv'
<1> SUFFICES ASSUME WatchInv, [WatchNext]_watchVars PROVE WatchInv' OBVIOUS
<1>1. CASE UNCHANGED watchVars
  <2>1. WatchType'
    BY <1>1 DEF watchVars, WatchInv, WatchType
  <2> QED BY <1>1, <2>1, QuietWatch DEF watchVars, WatchInv, NewInv
<1>2. ASSUME NEW p \in Socket, Closes(p) PROVE WatchInv'
  <2> DEFINE rec == [socket[p] EXCEPT !.gone = TRUE]
  <2>1. /\ socket' = [socket EXCEPT ![p] = rec] /\ room' = Left(room, p) /\ socket[p].st # "new"
        /\ UNCHANGED <<World, ticket, shown, refresh, overtaken>>
    BY <1>2 DEF Closes, WatchInv, WatchType
  <2>2. rec \in SocketRec /\ rec.st = socket[p].st /\ rec.room = socket[p].room /\ rec.gone = TRUE
    BY SocketFields DEF SocketRec, WatchInv
  <2> HIDE DEF rec
  <2> QED BY <2>1, <2>2, LeavingKeeps
<1>3. ASSUME NEW p \in Socket, SnapshotFails(p) PROVE WatchInv'
  <2> DEFINE rec == [socket[p] EXCEPT !.st = "live", !.room = NoRoom, !.gone = TRUE]
  <2>1. /\ socket' = [socket EXCEPT ![p] = rec] /\ room' = Left(room, p)
        /\ UNCHANGED <<World, ticket, shown, refresh, overtaken>>
    BY <1>3 DEF SnapshotFails, WatchInv, WatchType
  <2>2. rec \in SocketRec /\ rec.st = "live" /\ rec.gone = TRUE
    BY SocketFields DEF SocketRec, WatchInv
  <2> HIDE DEF rec
  <2> QED BY <2>1, <2>2, LeavingKeeps
<1> QED BY <1>1, <1>2, <1>3, SubscribeKeeps, LoadKeeps, DeliverKeeps, RevalidateKeeps, SendKeeps,
        ChangeKeeps, StartKeeps, RolesKeep, EndKeeps, LoadRoomKeeps, MintKeeps DEF WatchNext

\* Whoever is in a room shows what was last sent to it, unless it is gone, still waits, or
\* was moved while it waited: at any time, also while a refresh is under way.
THEOREM WatchInductive == WatchSpec => []WatchInv
<1>1. WatchInit => WatchInv
  <2> SUFFICES ASSUME WatchInit PROVE WatchInv
    OBVIOUS
  <2>1. room \in Rooms /\ \A r \in RoomIds : room[r] = EmptyRoom("member")
    <3>1. EmptyRoom("member") \in RoomRec
      BY FramesTyped DEF EmptyRoom, RoomRec, Audiences
    <3> QED BY <3>1 DEF WatchInit, Rooms
  <2>2. \A r \in RoomIds : room[r].members = {}
    BY <2>1 DEF EmptyRoom
  <2>3. refresh \in RefreshRec /\ refresh.st = "idle" /\ refresh.of = {}
    BY FramesTyped DEF WatchInit, AtRest, RefreshRec
  <2>4. socket \in [Socket -> SocketRec] /\ \A p \in Socket : socket[p].st = "new"
    BY FramesTyped DEF WatchInit, SocketRec
  <2>5. WatchType
    BY <2>1, <2>3, <2>4, FramesTyped DEF WatchInit, WatchType
  <2> QED BY <2>2, <2>3, <2>4, <2>5 DEF WatchInv, RoomsApart, NewInv, ReadingInv, ShownInv
<1> QED BY <1>1, WatchStep, PTL DEF WatchSpec

\* Between two refreshes, and with nobody waiting, whoever is in a room shows what it was
\* last sent, whoever joined, left, was moved or evicted in whatever order: a frame that a
\* room saw is not sent to it again.
THEOREM RoomsAgree == WatchSpec => []RoomAgrees
<1>1. WatchInv => RoomAgrees
  <2> SUFFICES ASSUME WatchInv, \A p \in Socket : socket[p].st \notin {"loading", "loaded"},
                      NEW r \in RoomIds, room[r].last # Nothing, NEW p \in room[r].members
               PROVE  shown[p] = room[r].last \/ socket[p].gone \/ p \in overtaken
    BY DEF RoomAgrees
  <2>1. p \in Socket
    BY RoomFields DEF WatchInv, WatchType
  <2> QED BY <2>1 DEF WatchInv, ShownInv
<1> QED BY <1>1, WatchInductive, PTL
=============================================================================
