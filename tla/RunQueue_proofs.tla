--------------------------- MODULE RunQueue_proofs ---------------------------
(***************************************************************************)
(* Theorems about the run queue, for every number of agents, runs, slots   *)
(* and heartbeats, and every number of faults and deaths: types, then the  *)
(* inductive invariant, one lemma per part, and what follows from it.      *)
(***************************************************************************)
EXTENDS RunQueueInv, TLAPS

USE DEF NoRun, None, Active, Outcome, Status, Child, Link, ClaimPhase, Claiming, Starting

\* The first state is well typed: an empty queue, agents without work.
LEMMA TypeInit == Init => TypeOK
  BY QueueAssumption DEF Init, TypeOK, LedgerType, ChildType, AgentType, HostType, BoundType, ClaimRecord, BeatRecord, Age, NoClaim, NoBeat

\* Ageing stays within Age, and leaves the minus infinity of a recovered run alone.
LEMMA OlderType ==
  /\ \A a \in Age : Older(a) \in Age
  /\ Older(Never) = Never
  BY QueueAssumption DEF Age, Never, Older

\* The idle claim and the idle beat are well typed.
LEMMA IdleType == 0 \in Age /\ NoClaim \in ClaimRecord /\ NoBeat \in BeatRecord
  BY QueueAssumption DEF Age, NoClaim, NoBeat, ClaimRecord, BeatRecord

\* Every step keeps every variable in its domain.
LEMMA TypeStep == TypeOK /\ [Next]_vars => TypeOK'
<1> SUFFICES ASSUME TypeOK, [Next]_vars PROVE TypeOK' OBVIOUS
<1> USE QueueAssumption DEF TypeOK, rowVars, childVars, agentVars, hostVars, boundVars
<1>1. ASSUME NEW r \in Run, Enqueue(r) PROVE TypeOK'
  BY <1>1 DEF LedgerType, ChildType, AgentType, HostType, BoundType, Enqueue
<1>2. ASSUME NEW r \in Run, CancelQueued(r) PROVE TypeOK'
  BY <1>2 DEF LedgerType, ChildType, AgentType, HostType, BoundType, CancelQueued
<1>3. ASSUME NEW r \in Run, RequestCancel(r) PROVE TypeOK'
  BY <1>3 DEF LedgerType, ChildType, AgentType, HostType, BoundType, RequestCancel
<1>4. ASSUME Sweep PROVE TypeOK'
  BY <1>4 DEF LedgerType, ChildType, AgentType, HostType, BoundType, Sweep
<1>5. ASSUME NEW h \in Host, SendClaim(h) PROVE TypeOK'
  <2>1. [NoClaim EXCEPT !.phase = "sent"] \in ClaimRecord
    BY IdleType DEF ClaimRecord
  <2>2. HostType'
    BY <1>5, <2>1 DEF SendClaim, HostType
  <2> QED
    BY <1>5, <2>2 DEF SendClaim, LedgerType, ChildType, AgentType, BoundType
<1>6. ASSUME NEW h \in Host, NoWork(h) PROVE TypeOK'
  BY <1>6 DEF LedgerType, ChildType, AgentType, HostType, BoundType, NoWork, ClaimRecord, NoClaim, Age
<1>7. ASSUME NEW h \in Host, CommitClaim(h) PROVE TypeOK'
  <2>1. LedgerType'
    <3>1. status' \in [Run -> Status] /\ runner' \in [Run -> Host \cup {NoHost}]
      BY <1>7 DEF CommitClaim, LedgerType
    <3>2. lease' \in [Run -> -1 .. Lease]
      <4>1. lease' = [lease EXCEPT ![claim[h].run] = Lease] /\ Lease \in -1 .. Lease
        BY <1>7 DEF CommitClaim
      <4> QED BY <4>1 DEF LedgerType
    <3> QED BY <1>7, <3>1, <3>2 DEF CommitClaim, LedgerType
  <2>2. ChildType'
    BY <1>7 DEF CommitClaim, ChildType
  <2>3. AgentType'
    BY <1>7 DEF CommitClaim, AgentType
  <2>4. HostType'
    BY <1>7 DEF CommitClaim, HostType, ClaimRecord
  <2>5. BoundType'
    BY <1>7 DEF CommitClaim, BoundType
  <2> QED BY <2>1, <2>2, <2>3, <2>4, <2>5
<1>8. ASSUME NEW h \in Host, RefuseClaim(h) PROVE TypeOK'
  <2>1. LedgerType'
    BY <1>8 DEF RefuseClaim, LedgerType
  <2>2. ChildType'
    BY <1>8 DEF RefuseClaim, ChildType
  <2>3. AgentType'
    BY <1>8 DEF RefuseClaim, AgentType
  <2>4. HostType'
    <3>1. claim[h] \in ClaimRecord
      BY DEF HostType
    <3>2. [claim[h] EXCEPT !.phase = "sent", !.run = NoRun] \in ClaimRecord /\ NoClaim \in ClaimRecord
      BY <3>1, IdleType DEF ClaimRecord
    <3>3. claim' \in [Host -> ClaimRecord]
      BY <1>8, <3>2 DEF RefuseClaim, HostType
    <3> QED BY <1>8, <3>3 DEF RefuseClaim, HostType
  <2>5. BoundType'
    BY <1>8 DEF RefuseClaim, BoundType
  <2> QED BY <2>1, <2>2, <2>3, <2>4, <2>5
<1>9. ASSUME NEW h \in Host, AnswerClaim(h) PROVE TypeOK'
  <2>1. LedgerType'
    BY <1>9 DEF AnswerClaim, LedgerType
  <2>2. ChildType'
    BY <1>9 DEF AnswerClaim, ChildType
  <2>3. AgentType'
    BY <1>9 DEF AnswerClaim, AgentType, HostType, ClaimRecord
  <2>4. HostType'
    <3>1. claim[h] \in ClaimRecord
      BY DEF HostType
    <3>2. [claim[h] EXCEPT !.phase = "spec", !.age = 0] \in ClaimRecord
      BY <3>1, IdleType DEF ClaimRecord
    <3>3. claim' = [claim EXCEPT ![h] = [claim[h] EXCEPT !.phase = "spec", !.age = 0]]
      BY <1>9 DEF AnswerClaim
    <3> QED BY <1>9, <3>2, <3>3 DEF AnswerClaim, HostType
  <2>5. BoundType'
    BY <1>9 DEF AnswerClaim, BoundType
  <2> QED BY <2>1, <2>2, <2>3, <2>4, <2>5
<1>10. ASSUME NEW h \in Host, LoseClaim(h) PROVE TypeOK'
  BY <1>10 DEF LedgerType, ChildType, AgentType, HostType, BoundType, LoseClaim, ClaimRecord, NoClaim, Age, Fault
<1>11. ASSUME NEW h \in Host, TakeSpec(h) PROVE TypeOK'
  BY <1>11 DEF LedgerType, ChildType, AgentType, HostType, BoundType, TakeSpec, ClaimRecord, NoClaim, Age
<1>12. ASSUME NEW h \in Host, GiveUp(h) PROVE TypeOK'
  <2>1. LedgerType'
    BY <1>12 DEF GiveUp, LedgerType
  <2>2. ChildType'
    BY <1>12 DEF GiveUp, ChildType
  <2>3. AgentType'
    BY <1>12 DEF GiveUp, AgentType, Release
  <2>4. HostType'
    <3>1. claim[h] \in ClaimRecord
      BY DEF HostType
    <3>2. [claim[h] EXCEPT !.phase = "fail"] \in ClaimRecord
      BY <3>1, IdleType DEF ClaimRecord
    <3>3. claim' = [claim EXCEPT ![h] = [claim[h] EXCEPT !.phase = "fail"]]
      BY <1>12 DEF GiveUp
    <3> QED BY <1>12, <3>2, <3>3 DEF GiveUp, HostType
  <2>5. BoundType'
    BY <1>12 DEF GiveUp, BoundType, Fault
  <2> QED BY <2>1, <2>2, <2>3, <2>4, <2>5
<1>12a. ASSUME NEW h \in Host, ForkFails(h) PROVE TypeOK'
  <2>1. LedgerType'
    BY <1>12a DEF ForkFails, LedgerType
  <2>2. ChildType'
    BY <1>12a DEF ForkFails, ChildType, Kill
  <2>3. AgentType'
    BY <1>12a DEF ForkFails, AgentType, Release
  <2>4. HostType'
    <3>1. claim[h] \in ClaimRecord
      BY DEF HostType
    <3>2. [claim[h] EXCEPT !.phase = "fail"] \in ClaimRecord
      BY <3>1, IdleType DEF ClaimRecord
    <3>3. claim' = [claim EXCEPT ![h] = [claim[h] EXCEPT !.phase = "fail"]]
      BY <1>12a DEF ForkFails
    <3> QED BY <1>12a, <3>2, <3>3 DEF ForkFails, HostType
  <2>5. BoundType'
    BY <1>12a DEF ForkFails, BoundType
  <2> QED BY <2>1, <2>2, <2>3, <2>4, <2>5
<1>13. ASSUME NEW h \in Host, FailClaim(h) PROVE TypeOK'
  BY <1>13 DEF LedgerType, ChildType, AgentType, HostType, BoundType, FailClaim, ClaimRecord, NoClaim, Age, Fault, Settle
<1>14. ASSUME NEW h \in Host, NEW r \in Run, PickClaim(h, r) PROVE TypeOK'
  <2>1. LedgerType'
    BY <1>14 DEF PickClaim, LedgerType
  <2>2. ChildType'
    BY <1>14 DEF PickClaim, ChildType
  <2>3. AgentType'
    BY <1>14 DEF PickClaim, AgentType
  <2>4. HostType'
    <3>1. claim[h] \in ClaimRecord
      BY DEF HostType
    <3>2. [claim[h] EXCEPT !.phase = "picked", !.run = r] \in ClaimRecord
      BY <3>1, IdleType DEF ClaimRecord
    <3>3. claim' = [claim EXCEPT ![h] = [claim[h] EXCEPT !.phase = "picked", !.run = r]]
      BY <1>14 DEF PickClaim
    <3> QED BY <1>14, <3>2, <3>3 DEF PickClaim, HostType
  <2>5. BoundType'
    BY <1>14 DEF PickClaim, BoundType
  <2> QED BY <2>1, <2>2, <2>3, <2>4, <2>5
<1>15. ASSUME NEW h \in Host, Launch(h) PROVE TypeOK'
  <2>1. LedgerType'
    BY <1>15 DEF Launch, LedgerType
  <2>2. ChildType'
    BY <1>15 DEF Launch, ChildType, HostType, ClaimRecord
  <2>3. AgentType'
    BY <1>15 DEF Launch, AgentType, Release, Age
  <2>4. HostType'
    BY <1>15 DEF Launch, HostType, ClaimRecord, NoClaim, Age
  <2>5. BoundType'
    BY <1>15 DEF Launch, BoundType
  <2> QED BY <2>1, <2>2, <2>3, <2>4, <2>5
<1>16. ASSUME NEW h \in Host, Watchdog(h) PROVE TypeOK'
  BY <1>16 DEF LedgerType, ChildType, AgentType, HostType, BoundType, Watchdog, Kill, Release, Overdue
<1>17. ASSUME NEW h \in Host, NEW b \in Beat, SendBeat(h, b) PROVE TypeOK'
  <2>1. LedgerType'
    BY <1>17 DEF SendBeat, LedgerType
  <2>2. ChildType'
    BY <1>17 DEF SendBeat, ChildType
  <2>3. AgentType'
    BY <1>17 DEF SendBeat, AgentType
  <2>4. HostType'
    <3>1. beat[h][b] \in BeatRecord
      BY DEF HostType
    <3>2. [NoBeat EXCEPT !.phase = "sent", !.live = LiveOn(h)] \in BeatRecord
      <4>1. NoBeat \in BeatRecord
        BY IdleType
      <4>2. LiveOn(h) \in SUBSET Run
        BY DEF LiveOn
      <4> QED BY <4>1, <4>2 DEF BeatRecord
    <3>3. beat' = [beat EXCEPT ![h][b] = [NoBeat EXCEPT !.phase = "sent", !.live = LiveOn(h)]]
      BY <1>17 DEF SendBeat
    <3> QED BY <1>17, <3>2, <3>3 DEF SendBeat, HostType
  <2>5. BoundType'
    BY <1>17 DEF SendBeat, BoundType
  <2> QED BY <2>1, <2>2, <2>3, <2>4, <2>5
<1>18. ASSUME NEW h \in Host, NEW b \in Beat, CommitBeat(h, b) PROVE TypeOK'
  <2>1. LedgerType'
    BY <1>18 DEF CommitBeat, LedgerType
  <2>2. ChildType'
    BY <1>18 DEF CommitBeat, ChildType
  <2>3. AgentType'
    BY <1>18 DEF CommitBeat, AgentType
  <2>4. HostType'
    <3> DEFINE held == {r \in Run : runner[r] = h /\ status[r] \in Active}
               rec == [beat[h][b] EXCEPT !.phase = "committed", !.held = held,
                         !.cancelling = {r \in held : status[r] = "cancelling"}]
    <3>1. beat[h][b] \in BeatRecord
      BY DEF HostType
    <3>2. rec \in BeatRecord
      BY <3>1 DEF BeatRecord
    <3>3. beat' = [beat EXCEPT ![h][b] = rec]
      BY <1>18 DEF CommitBeat
    <3> HIDE DEF rec
    <3> QED BY <1>18, <3>2, <3>3 DEF CommitBeat, HostType
  <2>5. BoundType'
    BY <1>18 DEF CommitBeat, BoundType
  <2> QED BY <2>1, <2>2, <2>3, <2>4, <2>5
<1>19. ASSUME NEW h \in Host, NEW b \in Beat, AnswerBeat(h, b) PROVE TypeOK'
  <2>1. LedgerType'
    BY <1>19 DEF AnswerBeat, LedgerType, Tell
  <2>2. ChildType'
    BY <1>19 DEF AnswerBeat, ChildType, Kill
  <2>3. AgentType'
    BY <1>19 DEF AnswerBeat, AgentType, LiveOn, HostType, BeatRecord
  <2>4. HostType'
    BY <1>19 DEF AnswerBeat, HostType, BeatRecord, NoBeat, Age, Begun
  <2>5. BoundType'
    BY <1>19 DEF AnswerBeat, BoundType
  <2> QED BY <2>1, <2>2, <2>3, <2>4, <2>5
<1>20. ASSUME NEW h \in Host, NEW b \in Beat, LoseBeat(h, b) PROVE TypeOK'
  <2>1. LedgerType'
    BY <1>20 DEF LoseBeat, LedgerType
  <2>2. ChildType'
    BY <1>20 DEF LoseBeat, ChildType, Kill
  <2>3. AgentType'
    BY <1>20 DEF LoseBeat, AgentType, Release
  <2>4. HostType'
    BY <1>20 DEF LoseBeat, HostType, BeatRecord, NoBeat, Age, Begun
  <2>5. BoundType'
    BY <1>20 DEF LoseBeat, BoundType, Fault
  <2> QED BY <2>1, <2>2, <2>3, <2>4, <2>5
<1>21. ASSUME NEW r \in Run, Cancel(r) PROVE TypeOK'
  BY <1>21 DEF LedgerType, ChildType, AgentType, HostType, BoundType, Cancel, Tell
<1>22. ASSUME NEW r \in Run, Ready(r) PROVE TypeOK'
  BY <1>22 DEF LedgerType, ChildType, AgentType, HostType, BoundType, Ready, Fault
<1>23. ASSUME NEW r \in Run, Crash(r) PROVE TypeOK'
  BY <1>23 DEF LedgerType, ChildType, AgentType, HostType, BoundType, Crash, Executing
<1>24. ASSUME NEW r \in Run, StoreStarted(r) PROVE TypeOK'
  BY <1>24 DEF LedgerType, ChildType, AgentType, HostType, BoundType, StoreStarted, Fault
<1>25. ASSUME NEW r \in Run, Fatal(r) PROVE TypeOK'
  BY <1>25 DEF LedgerType, ChildType, AgentType, HostType, BoundType, Fatal, Settle
<1>26. ASSUME NEW r \in Run, ObserveEnd(r) PROVE TypeOK'
  BY <1>26 DEF LedgerType, ChildType, AgentType, HostType, BoundType, ObserveEnd
<1>27. ASSUME NEW r \in Run, Close(r) PROVE TypeOK'
  BY <1>27 DEF LedgerType, ChildType, AgentType, HostType, BoundType, Close, Fault, Settle
<1>28. ASSUME NEW r \in Run, NEW outcome \in Ends, Finish(r, outcome) PROVE TypeOK'
  BY <1>28 DEF LedgerType, ChildType, AgentType, HostType, BoundType, Finish
<1>29. ASSUME NEW h \in Host, Start(h) PROVE TypeOK'
  <2>1. LedgerType'
    BY <1>29 DEF Start, LedgerType
  <2>2. ChildType'
    BY <1>29 DEF Start, ChildType, Reattachable, LedgerType
  <2>3. AgentType'
    BY <1>29 DEF Start, AgentType
  <2>4. HostType'
    BY <1>29 DEF Start, HostType
  <2>5. BoundType'
    BY <1>29 DEF Start, BoundType
  <2> QED BY <2>1, <2>2, <2>3, <2>4, <2>5
<1>30. ASSUME NEW h \in Host, Drain(h) PROVE TypeOK'
  BY <1>30 DEF LedgerType, ChildType, AgentType, HostType, BoundType, Drain
<1>31. ASSUME NEW h \in Host, Die(h) PROVE TypeOK'
  <2>1. LedgerType'
    BY <1>31 DEF Die, LedgerType
  <2>2. ChildType'
    BY <1>31 DEF Die, ChildType
  <2>3. AgentType'
    BY <1>31 DEF Die, AgentType, Release
  <2>4. HostType'
    BY <1>31 DEF Die, HostType, BeatRecord, NoBeat, Age, ClaimRecord, NoClaim
  <2>5. BoundType'
    BY <1>31 DEF Die, BoundType
  <2> QED BY <2>1, <2>2, <2>3, <2>4, <2>5
<1>32. ASSUME Tick PROVE TypeOK'
  <2>1. LedgerType'
    <3>1. lease' = [r \in Run |-> IF lease[r] >= 0 THEN lease[r] - 1 ELSE lease[r]]
      BY <1>32 DEF Tick
    <3>2. \A r \in Run : lease[r] \in -1 .. Lease
      BY DEF LedgerType
    <3>3. lease' \in [Run -> -1 .. Lease]
      BY <3>1, <3>2
    <3> QED BY <1>32, <3>3 DEF Tick, LedgerType
  <2>2. ChildType' BY <1>32 DEF Tick, ChildType, childVars
  <2>3. AgentType'
     <3>1. owned' = [r \in Run |-> IF owned[r] = None THEN None ELSE Older(owned[r])] /\ cancelSent' = cancelSent
       BY <1>32 DEF Tick
     <3>2. ASSUME NEW r \in Run PROVE owned'[r] \in Age \cup {None, Never}
       <4>1. owned[r] \in Age \cup {None, Never} BY DEF AgentType
       <4>2. owned'[r] = IF owned[r] = None THEN None ELSE Older(owned[r]) BY <3>1
       <4> QED BY <4>1, <4>2, OlderType
     <3> QED BY <3>1, <3>2 DEF AgentType
  <2>4. HostType' 
     <3>1. check' \in [Host -> 0 .. Check]
        <4>1. \A h \in Host : check[h] \in 0 .. Check /\ (Up(h) => check[h] < Check)  BY <1>32 DEF HostType, Tick
        <4>2. check' = [h \in Host |-> IF Up(h) THEN check[h] + 1 ELSE check[h]]  BY <1>32 DEF Tick
        <4> QED BY <4>1, <4>2
     <3>2. claim' \in [Host -> ClaimRecord]
        <4>1. claim' = [h \in Host |-> IF claim[h].phase \notin Claiming THEN claim[h]
                              ELSE [claim[h] EXCEPT !.age = Older(@)]] BY <1>32 DEF Tick
        <4>2. ASSUME NEW h \in Host PROVE claim'[h] \in ClaimRecord
           <5>1. claim[h] \in ClaimRecord BY DEF HostType
           <5>2. claim[h].age \in Age BY <5>1 DEF ClaimRecord
           <5>3. Older(claim[h].age) \in Age BY <5>2, OlderType
           <5> QED BY <4>1, <5>1, <5>3 DEF ClaimRecord
        <4> QED BY <4>1, <4>2
     <3>3. beat' \in [Host -> [Beat -> BeatRecord]]
        <4> DEFINE next(h, b) == IF beat[h][b].phase = "idle" THEN beat[h][b]
                                             ELSE [beat[h][b] EXCEPT !.age = Older(@)]
        <4>1. beat' = [h \in Host |-> [b \in Beat |-> next(h, b)]] BY <1>32 DEF Tick
        <4>2. ASSUME NEW h \in Host, NEW b \in Beat PROVE next(h, b) \in BeatRecord
           <5>1. beat[h][b] \in BeatRecord BY DEF HostType
           <5>2. beat[h][b].age \in Age BY <5>1 DEF BeatRecord
           <5>3. Older(beat[h][b].age) \in Age BY <5>2, OlderType
           <5> QED BY <4>1, <5>1, <5>3 DEF BeatRecord
        <4> HIDE DEF next
        <4> QED BY <4>1, <4>2
     <3> QED BY <1>32, <3>1, <3>2, <3>3 DEF HostType, Tick
  <2>5. BoundType' BY <1>32 DEF Tick, BoundType, boundVars
  <2> QED BY <2>1, <2>2, <2>3, <2>4, <2>5
<1>33. CASE UNCHANGED vars
  BY <1>33 DEF vars, LedgerType, ChildType, AgentType, HostType, BoundType
<1> QED
  BY <1>1, <1>2, <1>3, <1>4, <1>5, <1>6, <1>7, <1>8, <1>9, <1>10, <1>11, <1>12, <1>12a, <1>13, <1>14, <1>15, <1>16, <1>17, <1>18, <1>19, <1>20, <1>21, <1>22, <1>23, <1>24, <1>25, <1>26, <1>27, <1>28, <1>29, <1>30, <1>31, <1>32, <1>33 DEF Next, Console, ClaimLoop, Leasing, Running, Process

\* No value of any variable ever leaves its domain.
THEOREM TypeCorrect == Spec => []TypeOK
  BY TypeInit, TypeStep, PTL DEF Spec

-----------------------------------------------------------------------------
\* No step makes a second run of a destination active: the claim's unique index and
\* the database's refusal of a late run_started are all it takes.
LEMMA OneActiveStep ==
  ASSUME TypeOK, OneActivePerDestination, [Next]_vars
  PROVE  OneActivePerDestination'
<1> USE DEF TypeOK, LedgerType, OneActivePerDestination, SameTarget
<1>1. ASSUME NEW r \in Run, Enqueue(r) PROVE OneActivePerDestination'
  BY <1>1 DEF Enqueue
<1>2. ASSUME NEW r \in Run, CancelQueued(r) PROVE OneActivePerDestination'
  BY <1>2 DEF CancelQueued
<1>3. ASSUME NEW r \in Run, RequestCancel(r) PROVE OneActivePerDestination'
  BY <1>3 DEF RequestCancel
<1>4. ASSUME Sweep PROVE OneActivePerDestination'
  BY <1>4 DEF Sweep
<1>5. ASSUME NEW h \in Host, CommitClaim(h) PROVE OneActivePerDestination'
  BY <1>5 DEF CommitClaim, Busy
<1>6. ASSUME NEW h \in Host, FailClaim(h) PROVE OneActivePerDestination'
  BY <1>6 DEF FailClaim, Settle
<1>7. ASSUME NEW h \in Host, NEW b \in Beat, AnswerBeat(h, b) PROVE OneActivePerDestination'
  BY <1>7 DEF AnswerBeat, Tell
<1>8. ASSUME NEW r \in Run, Cancel(r) PROVE OneActivePerDestination'
  BY <1>8 DEF Cancel, Tell
<1>9. ASSUME NEW r \in Run, StoreStarted(r) PROVE OneActivePerDestination'
  BY <1>9 DEF StoreStarted, Busy
<1>10. ASSUME NEW r \in Run, Fatal(r) \/ Close(r) PROVE OneActivePerDestination'
  BY <1>10 DEF Fatal, Close, Settle
<1>11. CASE UNCHANGED status
  BY <1>11
<1> QED
  <2>1. ASSUME NEW h \in Host, ClaimLoop(h), ~ CommitClaim(h), ~ FailClaim(h)
        PROVE  UNCHANGED status
    BY <2>1 DEF ClaimLoop, SendClaim, NoWork, RefuseClaim, AnswerClaim, LoseClaim, TakeSpec, Launch,
                ForkFails, GiveUp, PickClaim, rowVars
  <2>2. ASSUME NEW h \in Host, Leasing(h), \A b \in Beat : ~ AnswerBeat(h, b)
        PROVE  UNCHANGED status
    BY <2>2 DEF Leasing, Watchdog, SendBeat, CommitBeat, LoseBeat, rowVars
  <2>3. ASSUME NEW r \in Run, Running(r), ~ Cancel(r), ~ StoreStarted(r), ~ Fatal(r), ~ Close(r)
        PROVE  UNCHANGED status
    BY <2>3 DEF Running, Ready, Crash, ObserveEnd, Finish, rowVars
  <2>4. ASSUME NEW h \in Host, Process(h) PROVE UNCHANGED status
    BY <2>4 DEF Process, Start, Drain, Die, rowVars
  <2>5. Tick \/ UNCHANGED vars => UNCHANGED status
    BY DEF Tick, vars, rowVars
  <2>6. CASE Console
    BY <2>6, <1>1, <1>2, <1>3, <1>4, QueueAssumption DEF Console
  <2>7. CASE \E h \in Host : ClaimLoop(h) \/ Leasing(h) \/ Process(h)
    BY <2>7, <1>5, <1>6, <1>7, <1>11, <2>1, <2>2, <2>4
  <2>8. CASE \E r \in Run : Running(r)
    BY <2>8, <1>8, <1>9, <1>10, <1>11, <2>3
  <2> QED
    BY <2>5, <2>6, <2>7, <2>8, <1>11 DEF Next

-----------------------------------------------------------------------------
(***************************************************************************)
(* IInv is inductive, one lemma per part, and what follows from it.        *)
(***************************************************************************)

\* A run gets an owner with its claim, and an agent knows of a run only after that.
LEMMA UnclaimedStep ==
  ASSUME TypeOK, UnclaimedInv, ClaimInv, [Next]_vars
  PROVE  UnclaimedInv'
<1> USE QueueAssumption DEF rowVars, childVars, agentVars, hostVars, TypeOK, LedgerType, ChildType, AgentType, UnclaimedInv
<1>1. ASSUME NEW r \in Run, Enqueue(r) PROVE UnclaimedInv'
  BY <1>1 DEF Enqueue
<1>2. ASSUME NEW r \in Run, CancelQueued(r) PROVE UnclaimedInv'
  BY <1>2 DEF CancelQueued
<1>3. ASSUME NEW r \in Run, RequestCancel(r) PROVE UnclaimedInv'
  BY <1>3 DEF RequestCancel
<1>4. ASSUME Sweep PROVE UnclaimedInv'
  BY <1>4 DEF Sweep
<1>5. ASSUME NEW h \in Host, CommitClaim(h) PROVE UnclaimedInv'
  BY <1>5 DEF CommitClaim
<1>6. ASSUME NEW h \in Host, AnswerClaim(h) PROVE UnclaimedInv'
  BY <1>6 DEF AnswerClaim, ClaimInv
<1>7. ASSUME NEW h \in Host, Launch(h) PROVE UnclaimedInv'
  BY <1>7 DEF Launch, Release, Overdue, OwnedBy, NoClaim, ClaimInv
<1>8. ASSUME NEW h \in Host, GiveUp(h) PROVE UnclaimedInv'
  BY <1>8 DEF GiveUp, Release
<1>8a. ASSUME NEW h \in Host, ForkFails(h) PROVE UnclaimedInv'
  BY <1>8a DEF ForkFails, Kill, Release, Executing
<1>9. ASSUME NEW h \in Host, FailClaim(h) PROVE UnclaimedInv'
  BY <1>9 DEF FailClaim, Settle, NoClaim
<1>10. ASSUME NEW h \in Host, Watchdog(h) PROVE UnclaimedInv'
  BY <1>10 DEF Watchdog, Kill, Release, Overdue, OwnedBy
<1>11. ASSUME NEW h \in Host, NEW b \in Beat, AnswerBeat(h, b) PROVE UnclaimedInv'
  BY <1>11 DEF AnswerBeat, Kill, Tell, LiveOn, OwnedBy, Launching, Begun, NoBeat
<1>12. ASSUME NEW h \in Host, NEW b \in Beat, LoseBeat(h, b) PROVE UnclaimedInv'
  BY <1>12 DEF LoseBeat, Kill, Release, Overdue, OwnedBy, Begun, NoBeat
<1>13. ASSUME NEW r \in Run, Cancel(r) PROVE UnclaimedInv'
  BY <1>13 DEF Cancel, Tell
<1>14. ASSUME NEW r \in Run, Ready(r) PROVE UnclaimedInv'
  BY <1>14 DEF Ready
<1>15. ASSUME NEW r \in Run, Crash(r) PROVE UnclaimedInv'
  BY <1>15 DEF Crash, Executing
<1>16. ASSUME NEW r \in Run, StoreStarted(r) PROVE UnclaimedInv'
  BY <1>16 DEF StoreStarted
<1>17. ASSUME NEW r \in Run, Fatal(r) PROVE UnclaimedInv'
  BY <1>17 DEF Fatal, Settle
<1>18. ASSUME NEW r \in Run, ObserveEnd(r) PROVE UnclaimedInv'
  BY <1>18 DEF ObserveEnd
<1>19. ASSUME NEW r \in Run, Close(r) PROVE UnclaimedInv'
  BY <1>19 DEF Close, Settle
<1>20. ASSUME NEW r \in Run, NEW outcome \in Ends, Finish(r, outcome) PROVE UnclaimedInv'
  BY <1>20 DEF Finish
<1>21. ASSUME NEW h \in Host, Start(h) PROVE UnclaimedInv'
  BY <1>21 DEF Start, Reattachable
<1>22. ASSUME NEW h \in Host, Die(h) PROVE UnclaimedInv'
  BY <1>22 DEF Die, Release, NoClaim
<1>23. ASSUME Tick PROVE UnclaimedInv'
  BY <1>23 DEF Tick, Older
<1>24. CASE UNCHANGED <<status, runner, child, link, closing, owned, started, journaled>>
  BY <1>24
<1> QED
  <2>1. ASSUME Console PROVE UnclaimedInv'
    BY <2>1, <1>1, <1>2, <1>3, <1>4
    DEF Console
  <2>2. ASSUME NEW h \in Host, ClaimLoop(h) PROVE UnclaimedInv'
    BY <2>2, <1>5, <1>6, <1>7, <1>8, <1>8a, <1>9, <1>24
    DEF ClaimLoop, SendClaim, NoWork, RefuseClaim, LoseClaim, TakeSpec, PickClaim, rowVars, childVars, agentVars, hostVars, boundVars
  <2>3. ASSUME NEW h \in Host, Leasing(h) PROVE UnclaimedInv'
    BY <2>3, <1>10, <1>11, <1>12, <1>24
    DEF Leasing, SendBeat, CommitBeat, rowVars, childVars, agentVars, hostVars, boundVars
  <2>4. ASSUME NEW r \in Run, Running(r) PROVE UnclaimedInv'
    BY <2>4, <1>13, <1>14, <1>15, <1>16, <1>17, <1>18, <1>19, <1>20
    DEF Running
  <2>5. ASSUME NEW h \in Host, Process(h) PROVE UnclaimedInv'
    BY <2>5, <1>21, <1>22, <1>24
    DEF Process, Drain, rowVars, childVars, agentVars, hostVars, boundVars
  <2>6. CASE UNCHANGED vars
    BY <2>6, <1>24 DEF vars, rowVars, childVars, agentVars, hostVars, boundVars
  <2> QED
    BY <2>1, <2>2, <2>3, <2>4, <2>5, <2>6, <1>23 DEF Next

\* A remembered renewal is never younger than the lease it vouches for.
LEMMA OwnedStep ==
  ASSUME TypeOK, UnclaimedInv, DownInv, AgentInv, ClaimInv, BeatInv, OwnedInv, [Next]_vars
  PROVE  OwnedInv'
<1> USE QueueAssumption DEF rowVars, childVars, agentVars, hostVars, TypeOK, LedgerType, AgentType, HostType, ClaimRecord, BeatRecord, Age, Never, OwnedInv
<1>1. ASSUME NEW h \in Host, CommitClaim(h) PROVE OwnedInv'
  BY <1>1 DEF CommitClaim, ClaimInv, UnclaimedInv
<1>2. ASSUME NEW h \in Host, AnswerClaim(h) PROVE OwnedInv'
  BY <1>2 DEF AnswerClaim, ClaimInv
<1>3. ASSUME NEW h \in Host, Launch(h) PROVE OwnedInv'
  BY <1>3 DEF Launch, Release, Overdue, OwnedBy, NoClaim
<1>4. ASSUME NEW h \in Host, GiveUp(h) PROVE OwnedInv'
  BY <1>4 DEF GiveUp, Release
<1>4a. ASSUME NEW h \in Host, ForkFails(h) PROVE OwnedInv'
  BY <1>4a DEF ForkFails, Kill, Release, Executing, Overdue, OwnedBy, Deadline
<1>5. ASSUME NEW h \in Host, Watchdog(h) PROVE OwnedInv'
  BY <1>5 DEF Watchdog, Kill, Release, Overdue, OwnedBy, Deadline
<1>6. ASSUME NEW h \in Host, NEW b \in Beat, SendBeat(h, b) PROVE OwnedInv'
  BY <1>6 DEF SendBeat, NoBeat
<1>7. ASSUME NEW h \in Host, NEW b \in Beat, CommitBeat(h, b) PROVE OwnedInv'
  BY <1>7 DEF CommitBeat
<1>8. ASSUME NEW h \in Host, NEW b \in Beat, AnswerBeat(h, b) PROVE OwnedInv'
  BY <1>8 DEF AnswerBeat, Kill, Tell, LiveOn, OwnedBy, Launching, Begun, NoBeat, BeatInv
<1>9. ASSUME NEW h \in Host, NEW b \in Beat, LoseBeat(h, b) PROVE OwnedInv'
  BY <1>9 DEF LoseBeat, Kill, Release, Overdue, OwnedBy, Begun, NoBeat
<1>10. ASSUME NEW h \in Host, Start(h) PROVE OwnedInv'
  BY <1>10 DEF Start, Reattachable, DownInv
<1>11. ASSUME NEW h \in Host, Die(h) PROVE OwnedInv'
  BY <1>11 DEF Die, Release, NoClaim
<1>12. ASSUME Tick PROVE OwnedInv'
  <2>1. \A r \in Run : lease'[r] = IF lease[r] >= 0 THEN lease[r] - 1 ELSE lease[r]
    BY <1>12 DEF Tick
  <2>2. \A r \in Run : owned'[r] = IF owned[r] = None THEN None ELSE Older(owned[r])
    BY <1>12 DEF Tick
  <2>3. ASSUME NEW r \in Run, owned'[r] \in Age PROVE lease'[r] >= Lease - owned'[r]
    <3>1. owned[r] \in Age
      BY <2>2, <2>3 DEF Older
    <3>2. lease[r] >= Lease - owned[r] /\ lease[r] \in -1 .. Lease
      BY <3>1
    <3> HIDE DEF TypeOK, OwnedInv
    <3> QED
      BY <2>1, <2>2, <3>1, <3>2 DEF Older
  <2>4. ASSUME NEW r \in Run, owned'[r] = Never, NEW b \in Beat, beat'[runner[r]][b].phase # "idle"
        PROVE  beat'[runner[r]][b].age <= check'[runner[r]]
    <3> DEFINE h == runner[r]
    <3>1. owned[r] = Never
      BY <2>2, <2>4 DEF Older
    <3>2. h \in Host /\ Up(h)
      BY <3>1 DEF AgentInv, UnclaimedInv
    <3>3. /\ beat' = [g \in Host |-> [c \in Beat |-> IF beat[g][c].phase = "idle" THEN beat[g][c]
                                     ELSE [beat[g][c] EXCEPT !.age = Older(@)]]]
          /\ check' = [g \in Host |-> IF Up(g) THEN check[g] + 1 ELSE check[g]]
      BY <1>12 DEF Tick
    <3>4. check'[h] = check[h] + 1 /\ check[h] \in 0 .. Check
      BY <3>2, <3>3
    <3>5. beat[h][b].phase # "idle" /\ beat'[h][b].age = Older(beat[h][b].age) /\ beat[h][b].age \in Age
      BY <2>4, <3>2, <3>3
    <3>6. beat[h][b].age <= check[h]
      BY <3>1, <3>5
    <3> HIDE DEF TypeOK, OwnedInv, h
    <3> QED
      BY <3>4, <3>5, <3>6 DEF h, Older
  <2> QED
    BY <1>12, <2>3, <2>4 DEF Tick
<1>13. CASE UNCHANGED <<owned, lease, beat, check, runner>>
  BY <1>13
<1> QED
  <2>1. ASSUME Console PROVE OwnedInv'
    BY <2>1, <1>13
    DEF Console, Enqueue, CancelQueued, RequestCancel, Sweep, rowVars, childVars, agentVars, hostVars, boundVars
  <2>2. ASSUME NEW h \in Host, ClaimLoop(h) PROVE OwnedInv'
    BY <2>2, <1>1, <1>2, <1>3, <1>4, <1>4a, <1>13
    DEF ClaimLoop, SendClaim, NoWork, RefuseClaim, LoseClaim, TakeSpec, FailClaim, PickClaim, rowVars, childVars, agentVars, hostVars, boundVars
  <2>3. ASSUME NEW h \in Host, Leasing(h) PROVE OwnedInv'
    BY <2>3, <1>5, <1>6, <1>7, <1>8, <1>9
    DEF Leasing
  <2>4. ASSUME NEW r \in Run, Running(r) PROVE OwnedInv'
    BY <2>4, <1>13
    DEF Running, Cancel, Ready, Crash, StoreStarted, Fatal, ObserveEnd, Close, Finish, rowVars, childVars, agentVars, hostVars, boundVars
  <2>5. ASSUME NEW h \in Host, Process(h) PROVE OwnedInv'
    BY <2>5, <1>10, <1>11, <1>13
    DEF Process, Drain, rowVars, childVars, agentVars, hostVars, boundVars
  <2>6. CASE UNCHANGED vars
    BY <2>6, <1>13 DEF vars, rowVars, childVars, agentVars, hostVars, boundVars
  <2> QED
    BY <2>1, <2>2, <2>3, <2>4, <2>5, <2>6, <1>12 DEF Next

\* An attached child is owned, and the watchdog has time left before its lease ends.
LEMMA FenceStep ==
  ASSUME TypeOK, UnclaimedInv, DownInv, AgentInv, ClaimInv, BeatInv, OwnedInv, FenceInv, [Next]_vars
  PROVE  FenceInv'
<1> USE QueueAssumption DEF rowVars, childVars, agentVars, hostVars, TypeOK, LedgerType, ChildType, AgentType, HostType, Executing, FenceInv
<1>1. ASSUME NEW r \in Run, Enqueue(r) PROVE FenceInv'
  BY <1>1 DEF Enqueue, UnclaimedInv
<1>2. ASSUME NEW r \in Run, CancelQueued(r) PROVE FenceInv'
  BY <1>2 DEF CancelQueued, UnclaimedInv
<1>3. ASSUME NEW r \in Run, RequestCancel(r) PROVE FenceInv'
  BY <1>3 DEF RequestCancel
<1>4. ASSUME Sweep PROVE FenceInv'
  <2>1. \A r \in Run : link[r] # "none" => check[runner[r]] \in 0 .. Check
    BY DEF UnclaimedInv
  <2>2. \A r \in Run : status[r] \in Active /\ lease[r] >= 0 => status'[r] = status[r]
    BY <1>4 DEF Sweep
  <2> QED
    BY <1>4, <2>1, <2>2 DEF Sweep
<1>5. ASSUME NEW h \in Host, CommitClaim(h) PROVE FenceInv'
  BY <1>5 DEF CommitClaim, ClaimInv, UnclaimedInv
<1>6. ASSUME NEW h \in Host, AnswerClaim(h) PROVE FenceInv'
  BY <1>6 DEF AnswerClaim, ClaimInv
<1>7. ASSUME NEW h \in Host, Launch(h) PROVE FenceInv'
  BY <1>7 DEF Launch, Release, Overdue, OwnedBy, NoClaim, ClaimInv, OwnedInv, Age, Never, Deadline, Held
<1>8. ASSUME NEW h \in Host, GiveUp(h) PROVE FenceInv'
  BY <1>8 DEF GiveUp, Release, ClaimInv
<1>8a. ASSUME NEW h \in Host, ForkFails(h) PROVE FenceInv'
  BY <1>8a DEF ForkFails, Kill, Release, Executing, Overdue, OwnedBy, ClaimInv
<1>9. ASSUME NEW h \in Host, FailClaim(h) PROVE FenceInv'
  BY <1>9 DEF FailClaim, Settle, NoClaim, ClaimInv
<1>10. ASSUME NEW h \in Host, Watchdog(h) PROVE FenceInv'
  BY <1>10 DEF Watchdog, Kill, Release, Overdue, OwnedBy, OwnedInv, Deadline, Age, Never
<1>11. ASSUME NEW h \in Host, NEW b \in Beat, CommitBeat(h, b) PROVE FenceInv'
  BY <1>11 DEF CommitBeat
<1>12. ASSUME NEW h \in Host, NEW b \in Beat, AnswerBeat(h, b) PROVE FenceInv'
  <2> DEFINE m == beat[h][b]
             over == {r \in OwnedBy(h) : r \notin LiveOn(h) /\ (r \in m.live \/ r \notin Launching(h))}
             lost == {r \in OwnedBy(h) \cap m.live \cap LiveOn(h) : r \notin m.held}
             kept == OwnedBy(h) \cap m.live \cap LiveOn(h) \cap m.held
             told == (m.cancelling \cap LiveOn(h)) \ cancelSent
  <2>1. m.phase = "committed" /\ m \in BeatRecord
    BY <1>12 DEF AnswerBeat
  <2>2. /\ owned' = [r \in Run |-> IF r \in over \cup lost THEN None ELSE IF r \in kept THEN m.age ELSE owned[r]]
        /\ UNCHANGED <<runner, lease, link, check>>
    BY <1>12 DEF AnswerBeat
  <2>3. Kill(lost) /\ Tell(told)
    BY <1>12 DEF AnswerBeat
  <2>4. \A r \in over : link[r] = "none"
    BY DEF OwnedBy, LiveOn
  <2> SUFFICES ASSUME NEW r \in Run, Executing(r)', link[r] # "none"
               PROVE  /\ owned'[r] # None
                      /\ owned'[r] # Never =>
                           status'[r] \in Active /\ lease[r] >= Margin + 1 - check[runner[r]]
    BY <2>2 DEF FenceInv
  <2>5. Executing(r) /\ r \notin lost /\ r \notin over
    BY <2>3, <2>4 DEF Kill
  <2>6. status'[r] = status[r]
    BY <2>3, <2>5 DEF Tell, Ended
  <2>7. CASE r \in kept
    <3>1. owned'[r] = m.age /\ m.age \in Age /\ runner[r] = h /\ r \in m.live /\ r \in m.held
      BY <2>1, <2>2, <2>5, <2>7 DEF OwnedBy, BeatRecord
    <3>2. lease[r] >= Lease - m.age /\ Held(r)
      BY <2>1, <2>5, <3>1 DEF BeatInv
    <3>3. CASE owned[r] = Never
      <4>1. m.age <= check[h] /\ check[h] \in 0 .. Check
        BY <2>1, <3>1, <3>3 DEF OwnedInv
      <4>2. lease[r] >= Margin + 1 - check[h] /\ lease[r] >= 0
        BY <3>1, <3>2, <4>1 DEF Age
      <4> QED
        BY <2>6, <3>1, <3>2, <4>2 DEF Held, Age
    <3>4. CASE owned[r] # Never
      BY <2>5, <2>6, <3>1, <3>4 DEF Age
    <3> QED
      BY <3>3, <3>4
  <2>8. CASE r \notin kept
    BY <2>2, <2>5, <2>6, <2>8
  <2> QED
    BY <2>7, <2>8
<1>13. ASSUME NEW h \in Host, NEW b \in Beat, LoseBeat(h, b) PROVE FenceInv'
  BY <1>13 DEF LoseBeat, Kill, Release, Overdue, OwnedBy, Begun, NoBeat
<1>14. ASSUME NEW r \in Run, Cancel(r) PROVE FenceInv'
  BY <1>14 DEF Cancel, Tell, Ended
<1>15. ASSUME NEW r \in Run, Ready(r) PROVE FenceInv'
  BY <1>15 DEF Ready
<1>16. ASSUME NEW r \in Run, Crash(r) PROVE FenceInv'
  BY <1>16 DEF Crash, Executing
<1>17. ASSUME NEW r \in Run, StoreStarted(r) PROVE FenceInv'
  BY <1>17 DEF StoreStarted
<1>18. ASSUME NEW r \in Run, Fatal(r) PROVE FenceInv'
  BY <1>18 DEF Fatal, Settle, Ended
<1>19. ASSUME NEW r \in Run, ObserveEnd(r) PROVE FenceInv'
  BY <1>19 DEF ObserveEnd, Ended
<1>20. ASSUME NEW r \in Run, Close(r) PROVE FenceInv'
  BY <1>20 DEF Close, Settle, AgentInv, Ended
<1>21. ASSUME NEW r \in Run, NEW outcome \in Ends, Finish(r, outcome) PROVE FenceInv'
  BY <1>21 DEF Finish
<1>22. ASSUME NEW h \in Host, Start(h) PROVE FenceInv'
  <2>1. UNCHANGED <<child, status, lease, runner>> /\ check' = [check EXCEPT ![h] = 0]
    BY <1>22 DEF Start
  <2>2. \A r \in Run : \/ link'[r] # "none" /\ owned'[r] = Never
                       \/ link'[r] = link[r] /\ owned'[r] = owned[r]
    BY <1>22 DEF Start
  <2>3. \A r \in Run : link[r] # "none" => runner[r] # h
    BY <1>22 DEF Start, AgentInv, Up
  <2>4. \A r \in Run : runner[r] # h => check'[runner[r]] = check[runner[r]]
    BY <2>1
  <2> HIDE DEF TypeOK
  <2> QED
    BY <2>1, <2>2, <2>3, <2>4 DEF Never
<1>23. ASSUME NEW h \in Host, Die(h) PROVE FenceInv'
  BY <1>23 DEF Die, Release, NoClaim
<1>24. ASSUME Tick PROVE FenceInv'
  <2> SUFFICES ASSUME NEW r \in Run, Executing(r)', link'[r] # "none"
               PROVE  /\ owned'[r] # None
                      /\ owned'[r] # Never =>
                           status'[r] \in Active /\ lease'[r] >= Margin + 1 - check'[runner'[r]]
    BY DEF FenceInv
  <2>1. Executing(r) /\ link[r] # "none"
    BY <1>24 DEF Tick
  <2>2. UNCHANGED <<status, runner>> /\ owned'[r] = (IF owned[r] = None THEN None ELSE Older(owned[r]))
    BY <1>24 DEF Tick
  <2>3. owned'[r] # None /\ (owned'[r] # Never => owned[r] # Never)
    BY <2>1, <2>2 DEF Older, Never, Age
  <2>4. runner[r] \in Host /\ Up(runner[r])
    BY <2>1 DEF AgentInv, UnclaimedInv
  <2>5. check'[runner[r]] = check[runner[r]] + 1 /\ check[runner[r]] \in 0 .. Check /\ check[runner[r]] < Check
    BY <1>24, <2>4 DEF Tick
  <2>6. lease'[r] = (IF lease[r] >= 0 THEN lease[r] - 1 ELSE lease[r]) /\ lease[r] \in -1 .. Lease
    BY <1>24 DEF Tick
  <2> QED
    BY <2>1, <2>2, <2>3, <2>5, <2>6
<1>25. CASE UNCHANGED <<child, link, owned, status, lease, check, runner>>
  BY <1>25
<1> QED
  <2>1. ASSUME Console PROVE FenceInv'
    BY <2>1, <1>1, <1>2, <1>3, <1>4
    DEF Console
  <2>2. ASSUME NEW h \in Host, ClaimLoop(h) PROVE FenceInv'
    BY <2>2, <1>5, <1>6, <1>7, <1>8, <1>8a, <1>9, <1>25
    DEF ClaimLoop, SendClaim, NoWork, RefuseClaim, LoseClaim, TakeSpec, PickClaim, rowVars, childVars, agentVars, hostVars, boundVars
  <2>3. ASSUME NEW h \in Host, Leasing(h) PROVE FenceInv'
    BY <2>3, <1>10, <1>11, <1>12, <1>13, <1>25
    DEF Leasing, SendBeat, rowVars, childVars, agentVars, hostVars, boundVars
  <2>4. ASSUME NEW r \in Run, Running(r) PROVE FenceInv'
    BY <2>4, <1>14, <1>15, <1>16, <1>17, <1>18, <1>19, <1>20, <1>21
    DEF Running
  <2>5. ASSUME NEW h \in Host, Process(h) PROVE FenceInv'
    BY <2>5, <1>22, <1>23, <1>25
    DEF Process, Drain, rowVars, childVars, agentVars, hostVars, boundVars
  <2>6. CASE UNCHANGED vars
    BY <2>6, <1>25 DEF vars, rowVars, childVars, agentVars, hostVars, boundVars
  <2> QED
    BY <2>1, <2>2, <2>3, <2>4, <2>5, <2>6, <1>24 DEF Next

\* Only a living agent holds a run, and what it holds of a child exists.
LEMMA AgentStep ==
  ASSUME TypeOK, AgentInv, DownInv, UnclaimedInv, ClaimInv, [Next]_vars
  PROVE  AgentInv'
<1> USE QueueAssumption DEF rowVars, childVars, agentVars, hostVars, TypeOK, LedgerType, ChildType, AgentType, HostType, Up, Ended, AgentInv
<1>1. ASSUME NEW h \in Host, CommitClaim(h) PROVE AgentInv'
  BY <1>1 DEF CommitClaim, UnclaimedInv, ClaimInv
<1>2. ASSUME NEW h \in Host, AnswerClaim(h) PROVE AgentInv'
  BY <1>2 DEF AnswerClaim, ClaimInv, DownInv
<1>3. ASSUME NEW h \in Host, Launch(h) PROVE AgentInv'
  <2>1. PICK r \in Run : r = claim[h].run /\ runner[r] = h /\ mode[h] # "down" /\ child[r] = "none"
    BY <1>3 DEF Launch, ClaimInv, DownInv
  <2>2. \/ \A q \in Run : link'[q] = link[q]
        \/ link' = [link EXCEPT ![r] = "ipc"] /\ child'[r] = "booting"
    <3> DEFINE go == owned[r] # None /\ r \notin Overdue(h)
    <3>1. link' = [link EXCEPT ![r] = IF go THEN "ipc" ELSE @] /\ (go => child'[r] = "booting")
      BY <1>3, <2>1 DEF Launch
    <3> HIDE DEF go
    <3>2. CASE go
      BY <3>1, <3>2
    <3>3. CASE ~ go
      BY <3>1, <3>3
    <3> QED
      BY <3>2, <3>3
  <2>3. \A q \in Run : owned'[q] # None => owned[q] # None
    BY <1>3 DEF Launch, Release
  <2>4. \A q \in Run : child[q] # "none" => child'[q] # "none" /\ (child'[q] = "booting" => child[q] = "booting")
    BY <1>3, <2>1 DEF Launch
  <2>5. \A q \in Run : Ended(q) => Ended(q)'
    BY <1>3, <2>1 DEF Launch, Executing
  <2>6. UNCHANGED <<runner, journaled, started, closing, mode>>
    BY <1>3 DEF Launch
  <2> QED
    BY <2>1, <2>2, <2>3, <2>4, <2>5, <2>6
<1>4. ASSUME NEW h \in Host, GiveUp(h) PROVE AgentInv'
  BY <1>4 DEF GiveUp, Release
<1>4a. ASSUME NEW h \in Host, ForkFails(h) PROVE AgentInv'
  BY <1>4a DEF ForkFails, Kill, Release, Executing, Overdue, OwnedBy
<1>5. ASSUME NEW h \in Host, Watchdog(h) PROVE AgentInv'
  BY <1>5 DEF Watchdog, Kill, Release, Overdue, OwnedBy
<1>6. ASSUME NEW h \in Host, NEW b \in Beat, AnswerBeat(h, b) PROVE AgentInv'
  BY <1>6 DEF AnswerBeat, Kill, Tell, LiveOn, OwnedBy, Launching, Begun, NoBeat
<1>7. ASSUME NEW h \in Host, NEW b \in Beat, LoseBeat(h, b) PROVE AgentInv'
  BY <1>7 DEF LoseBeat, Kill, Release, Overdue, OwnedBy, Begun, NoBeat
<1>8. ASSUME NEW r \in Run, Ready(r) PROVE AgentInv'
  BY <1>8 DEF Ready
<1>9. ASSUME NEW r \in Run, Crash(r) PROVE AgentInv'
  BY <1>9 DEF Crash, Executing
<1>10. ASSUME NEW r \in Run, StoreStarted(r) PROVE AgentInv'
  BY <1>10 DEF StoreStarted
<1>11. ASSUME NEW r \in Run, ObserveEnd(r) PROVE AgentInv'
  BY <1>11 DEF ObserveEnd
<1>12. ASSUME NEW r \in Run, Close(r) PROVE AgentInv'
  BY <1>12 DEF Close, Settle
<1>13. ASSUME NEW r \in Run, NEW outcome \in Ends, Finish(r, outcome) PROVE AgentInv'
  BY <1>13 DEF Finish
<1>14. ASSUME NEW h \in Host, Start(h) PROVE AgentInv'
  <2> DEFINE back == Reattachable(h)
  <2>1. /\ back \subseteq journaled /\ \A r \in back : runner[r] = h
        /\ runner' = runner /\ journaled' = journaled /\ child' = child
        /\ mode' = [mode EXCEPT ![h] = "starting"]
    BY <1>14 DEF Start, Reattachable
  <2>2. /\ link' = [r \in Run |-> IF r \in {q \in back : Executing(q)} THEN "tail" ELSE link[r]]
        /\ closing' = [r \in Run |-> IF r \in back \ {q \in back : Executing(q)} THEN "tail" ELSE closing[r]]
        /\ owned' = [r \in Run |-> IF r \in {q \in back : Executing(q)} THEN Never ELSE owned[r]]
    BY <1>14 DEF Start
  <2>3. started' \subseteq started \cup back
    BY <1>14 DEF Start
  <2> HIDE DEF back
  <2>4. \A r \in Run : link'[r] # "none" \/ owned'[r] # None => Up(runner[r])'
    BY <2>1, <2>2
  <2>5. \A r \in Run : closing'[r] # "none" => Ended(r)'
    BY <2>1, <2>2 DEF Executing
  <2>6. \A r \in Run : link'[r] # "none" \/ r \in journaled' \cup started' => child'[r] # "none"
    BY <2>1, <2>2, <2>3
  <2> QED
    BY <2>1, <2>4, <2>5, <2>6
<1>15. ASSUME NEW h \in Host, Drain(h) PROVE AgentInv'
  BY <1>15 DEF Drain
<1>16. ASSUME NEW h \in Host, Die(h) PROVE AgentInv'
  BY <1>16 DEF Die, Release, NoClaim
<1>17. ASSUME Tick PROVE AgentInv'
  BY <1>17 DEF Tick, Older
<1>18. CASE UNCHANGED <<runner, child, link, closing, owned, started, journaled, mode>>
  BY <1>18
<1> QED
  <2>1. ASSUME Console PROVE AgentInv'
    BY <2>1, <1>18
    DEF Console, Enqueue, CancelQueued, RequestCancel, Sweep, rowVars, childVars, agentVars, hostVars, boundVars
  <2>2. ASSUME NEW h \in Host, ClaimLoop(h) PROVE AgentInv'
    BY <2>2, <1>1, <1>2, <1>3, <1>4, <1>4a, <1>18
    DEF ClaimLoop, SendClaim, NoWork, RefuseClaim, LoseClaim, TakeSpec, FailClaim, PickClaim, rowVars, childVars, agentVars, hostVars, boundVars
  <2>3. ASSUME NEW h \in Host, Leasing(h) PROVE AgentInv'
    BY <2>3, <1>5, <1>6, <1>7, <1>18
    DEF Leasing, SendBeat, CommitBeat, rowVars, childVars, agentVars, hostVars, boundVars
  <2>4. ASSUME NEW r \in Run, Running(r) PROVE AgentInv'
    BY <2>4, <1>8, <1>9, <1>10, <1>11, <1>12, <1>13, <1>18
    DEF Running, Cancel, Fatal, rowVars, childVars, agentVars, hostVars, boundVars
  <2>5. ASSUME NEW h \in Host, Process(h) PROVE AgentInv'
    BY <2>5, <1>14, <1>15, <1>16
    DEF Process
  <2>6. CASE UNCHANGED vars
    BY <2>6, <1>18 DEF vars, rowVars, childVars, agentVars, hostVars, boundVars
  <2> QED
    BY <2>1, <2>2, <2>3, <2>4, <2>5, <2>6, <1>17 DEF Next

\* A dead agent has neither a claim nor a beat in flight.
LEMMA DownStep ==
  ASSUME TypeOK, DownInv, [Next]_vars
  PROVE  DownInv'
<1> USE QueueAssumption DEF rowVars, childVars, agentVars, hostVars, TypeOK, HostType, ClaimRecord, BeatRecord, Up, DownInv
<1>1. ASSUME NEW h \in Host, SendClaim(h) PROVE DownInv'
  BY <1>1 DEF SendClaim, NoClaim
<1>2. ASSUME NEW h \in Host, NoWork(h) PROVE DownInv'
  BY <1>2 DEF NoWork, NoClaim
<1>3. ASSUME NEW h \in Host, CommitClaim(h) PROVE DownInv'
  BY <1>3 DEF CommitClaim
<1>4. ASSUME NEW h \in Host, RefuseClaim(h) PROVE DownInv'
  BY <1>4 DEF RefuseClaim, NoClaim
<1>5. ASSUME NEW h \in Host, AnswerClaim(h) PROVE DownInv'
  BY <1>5 DEF AnswerClaim
<1>6. ASSUME NEW h \in Host, LoseClaim(h) PROVE DownInv'
  BY <1>6 DEF LoseClaim, NoClaim
<1>7. ASSUME NEW h \in Host, TakeSpec(h) PROVE DownInv'
  BY <1>7 DEF TakeSpec
<1>8. ASSUME NEW h \in Host, Launch(h) PROVE DownInv'
  BY <1>8 DEF Launch, Release, Overdue, OwnedBy, NoClaim
<1>9. ASSUME NEW h \in Host, GiveUp(h) PROVE DownInv'
  BY <1>9 DEF GiveUp, Release
<1>9a. ASSUME NEW h \in Host, ForkFails(h) PROVE DownInv'
  BY <1>9a DEF ForkFails, Kill, Release, Executing
<1>10. ASSUME NEW h \in Host, FailClaim(h) PROVE DownInv'
  BY <1>10 DEF FailClaim, Settle, NoClaim
<1>11. ASSUME NEW h \in Host, NEW r \in Run, PickClaim(h, r) PROVE DownInv'
  BY <1>11 DEF PickClaim, Claimable, Locked
<1>12. ASSUME NEW h \in Host, NEW b \in Beat, SendBeat(h, b) PROVE DownInv'
  BY <1>12 DEF SendBeat, NoBeat
<1>13. ASSUME NEW h \in Host, NEW b \in Beat, CommitBeat(h, b) PROVE DownInv'
  BY <1>13 DEF CommitBeat
<1>14. ASSUME NEW h \in Host, NEW b \in Beat, AnswerBeat(h, b) PROVE DownInv'
  BY <1>14 DEF AnswerBeat, Kill, Tell, LiveOn, OwnedBy, Launching, Begun, NoBeat
<1>15. ASSUME NEW h \in Host, NEW b \in Beat, LoseBeat(h, b) PROVE DownInv'
  BY <1>15 DEF LoseBeat, Kill, Release, Overdue, OwnedBy, Begun, NoBeat
<1>16. ASSUME NEW h \in Host, Start(h) PROVE DownInv'
  BY <1>16 DEF Start, Reattachable
<1>17. ASSUME NEW h \in Host, Drain(h) PROVE DownInv'
  BY <1>17 DEF Drain
<1>18. ASSUME NEW h \in Host, Die(h) PROVE DownInv'
  <2>1. /\ mode' = [mode EXCEPT ![h] = "down"]
        /\ claim' = [claim EXCEPT ![h] = NoClaim]
        /\ beat' = [beat EXCEPT ![h] = [b \in Beat |-> NoBeat]]
    BY <1>18 DEF Die
  <2>2. claim'[h].phase = "idle" /\ \A b \in Beat : beat'[h][b].phase = "idle"
    BY <2>1 DEF NoClaim, NoBeat
  <2>3. \A g \in Host \ {h} : mode'[g] = mode[g] /\ claim'[g] = claim[g] /\ beat'[g] = beat[g]
    BY <2>1
  <2> QED
    BY <2>2, <2>3
<1>19. ASSUME Tick PROVE DownInv'
  BY <1>19 DEF Tick, Older
<1>20. CASE UNCHANGED <<mode, claim, beat>>
  BY <1>20
<1> QED
  <2>1. ASSUME Console PROVE DownInv'
    BY <2>1, <1>20
    DEF Console, Enqueue, CancelQueued, RequestCancel, Sweep, rowVars, childVars, agentVars, hostVars, boundVars
  <2>2. ASSUME NEW h \in Host, ClaimLoop(h) PROVE DownInv'
    BY <2>2, <1>1, <1>2, <1>3, <1>4, <1>5, <1>6, <1>7, <1>8, <1>9, <1>9a, <1>10, <1>11
    DEF ClaimLoop
  <2>3. ASSUME NEW h \in Host, Leasing(h) PROVE DownInv'
    BY <2>3, <1>12, <1>13, <1>14, <1>15, <1>20
    DEF Leasing, Watchdog, rowVars, childVars, agentVars, hostVars, boundVars
  <2>4. ASSUME NEW r \in Run, Running(r) PROVE DownInv'
    BY <2>4, <1>20
    DEF Running, Cancel, Ready, Crash, StoreStarted, Fatal, ObserveEnd, Close, Finish, rowVars, childVars, agentVars, hostVars, boundVars
  <2>5. ASSUME NEW h \in Host, Process(h) PROVE DownInv'
    BY <2>5, <1>16, <1>17, <1>18
    DEF Process
  <2>6. CASE UNCHANGED vars
    BY <2>6, <1>20 DEF vars, rowVars, childVars, agentVars, hostVars, boundVars
  <2> QED
    BY <2>1, <2>2, <2>3, <2>4, <2>5, <2>6, <1>19 DEF Next

\* A claim in flight still has its row, unless the lease it was granted has run out.
LEMMA ClaimStep ==
  ASSUME TypeOK, ClaimInv, UnclaimedInv, AgentInv, [Next]_vars
  PROVE  ClaimInv'
<1> USE QueueAssumption DEF rowVars, childVars, agentVars, hostVars, TypeOK, LedgerType, ChildType, AgentType, HostType, ClaimRecord, Held, ClaimInv
<1>1. ASSUME NEW r \in Run, Enqueue(r) PROVE ClaimInv'
  BY <1>1 DEF Enqueue, UnclaimedInv
<1>2. ASSUME NEW r \in Run, CancelQueued(r) PROVE ClaimInv'
  BY <1>2 DEF CancelQueued, Locked
<1>3. ASSUME NEW r \in Run, RequestCancel(r) PROVE ClaimInv'
  BY <1>3 DEF RequestCancel
<1>4. ASSUME Sweep PROVE ClaimInv'
  BY <1>4 DEF Sweep
<1>5. ASSUME NEW h \in Host, SendClaim(h) PROVE ClaimInv'
  BY <1>5 DEF SendClaim, NoClaim
<1>6. ASSUME NEW h \in Host, NoWork(h) PROVE ClaimInv'
  BY <1>6 DEF NoWork, NoClaim
<1>7. ASSUME NEW h \in Host, CommitClaim(h) PROVE ClaimInv'
  BY <1>7 DEF CommitClaim, UnclaimedInv, Age
<1>8. ASSUME NEW h \in Host, RefuseClaim(h) PROVE ClaimInv'
  <2>1. claim'[h].phase \in {"sent", "idle"} /\ \A g \in Host \ {h} : claim'[g] = claim[g]
    <3>1. CASE claim' = [claim EXCEPT ![h] = [@ EXCEPT !.phase = "sent", !.run = NoRun]]
      BY <3>1
    <3>2. CASE claim' = [claim EXCEPT ![h] = NoClaim]
      BY <3>2 DEF NoClaim
    <3> QED
      BY <1>8, <3>1, <3>2 DEF RefuseClaim
  <2>2. UNCHANGED <<status, runner, child, lease>>
    BY <1>8 DEF RefuseClaim
  <2> HIDE DEF TypeOK
  <2> QED
    BY <2>1, <2>2
<1>9. ASSUME NEW h \in Host, AnswerClaim(h) PROVE ClaimInv'
  BY <1>9 DEF AnswerClaim
<1>10. ASSUME NEW h \in Host, LoseClaim(h) PROVE ClaimInv'
  BY <1>10 DEF LoseClaim, NoClaim
<1>11. ASSUME NEW h \in Host, TakeSpec(h) PROVE ClaimInv'
  BY <1>11 DEF TakeSpec
<1>12. ASSUME NEW h \in Host, Launch(h) PROVE ClaimInv'
  BY <1>12 DEF Launch, Release, Overdue, OwnedBy, NoClaim
<1>13. ASSUME NEW h \in Host, GiveUp(h) PROVE ClaimInv'
  BY <1>13 DEF GiveUp, Release
<1>13a. ASSUME NEW h \in Host, ForkFails(h) PROVE ClaimInv'
  BY <1>13a DEF ForkFails, Kill, Release, Executing, Overdue, OwnedBy, AgentInv
<1>14. ASSUME NEW h \in Host, FailClaim(h) PROVE ClaimInv'
  <2> DEFINE r == claim[h].run
  <2>1. r \in Run /\ runner[r] = h /\ status[r] # "queued"
    BY <1>14 DEF FailClaim, UnclaimedInv
  <2>2. \A g \in Host \ {h} : claim'[g] = claim[g] /\ (claim[g].phase \notin {"idle", "sent"} => claim[g].run # r)
    BY <1>14, <2>1 DEF FailClaim
  <2>3. claim'[h].phase = "idle"
    BY <1>14 DEF FailClaim, NoClaim
  <2>4. UNCHANGED <<runner, child, lease>> /\ \A q \in Run \ {r} : status'[q] = status[q]
    BY <1>14 DEF FailClaim, Settle
  <2> HIDE DEF r, TypeOK
  <2> QED
    BY <2>1, <2>2, <2>3, <2>4
<1>15. ASSUME NEW h \in Host, NEW r \in Run, PickClaim(h, r) PROVE ClaimInv'
  BY <1>15 DEF PickClaim, Claimable, Locked, UnclaimedInv
<1>16. ASSUME NEW h \in Host, Watchdog(h) PROVE ClaimInv'
  BY <1>16 DEF Watchdog, Kill, Release, Overdue, OwnedBy, AgentInv
<1>17. ASSUME NEW h \in Host, NEW b \in Beat, CommitBeat(h, b) PROVE ClaimInv'
  <2>1. UNCHANGED <<claim, status, runner, child>>
    BY <1>17 DEF CommitBeat
  <2>2. \A r \in Run : lease'[r] = lease[r] \/ (status[r] \in Active /\ lease'[r] = Lease)
    <3>1. \A r \in Run : lease'[r] = IF runner[r] = h /\ status[r] \in Active THEN Lease ELSE lease[r]
      BY <1>17 DEF CommitBeat
    <3> QED
      BY <3>1
  <2>3. \A g \in Host : claim[g].age >= 0 /\ claim[g].age \in Int
    BY DEF Age
  <2> QED
    BY <2>1, <2>2, <2>3
<1>18. ASSUME NEW h \in Host, NEW b \in Beat, AnswerBeat(h, b) PROVE ClaimInv'
  BY <1>18 DEF AnswerBeat, Kill, Tell, LiveOn, OwnedBy, Launching, Begun, NoBeat, UnclaimedInv, AgentInv, Ended
<1>19. ASSUME NEW h \in Host, NEW b \in Beat, LoseBeat(h, b) PROVE ClaimInv'
  BY <1>19 DEF LoseBeat, Kill, Release, Overdue, OwnedBy, Begun, NoBeat, AgentInv
<1>20. ASSUME NEW r \in Run, Cancel(r) PROVE ClaimInv'
  BY <1>20 DEF Cancel, Tell, AgentInv, Ended
<1>21. ASSUME NEW r \in Run, Ready(r) PROVE ClaimInv'
  BY <1>21 DEF Ready
<1>22. ASSUME NEW r \in Run, Crash(r) PROVE ClaimInv'
  BY <1>22 DEF Crash, Executing
<1>23. ASSUME NEW r \in Run, StoreStarted(r) PROVE ClaimInv'
  BY <1>23 DEF StoreStarted, UnclaimedInv, AgentInv
<1>24. ASSUME NEW r \in Run, Fatal(r) PROVE ClaimInv'
  <2>1. child[r] # "none" /\ status[r] # "queued"
    BY <1>24 DEF Fatal, Ended, UnclaimedInv
  <2>2. UNCHANGED <<claim, runner, child, lease>> /\ \A q \in Run \ {r} : status'[q] = status[q]
    BY <1>24 DEF Fatal, Settle
  <2> QED
    BY <2>1, <2>2
<1>25. ASSUME NEW r \in Run, Close(r) PROVE ClaimInv'
  <2>1. child[r] # "none" /\ status[r] # "queued"
    BY <1>25 DEF Close, AgentInv, Ended, UnclaimedInv
  <2>2. UNCHANGED <<claim, runner, child, lease>> /\ \A q \in Run \ {r} : status'[q] = status[q]
    BY <1>25 DEF Close, Settle
  <2> QED
    BY <2>1, <2>2
<1>26. ASSUME NEW r \in Run, NEW outcome \in Ends, Finish(r, outcome) PROVE ClaimInv'
  BY <1>26 DEF Finish
<1>27. ASSUME NEW h \in Host, Die(h) PROVE ClaimInv'
  BY <1>27 DEF Die, Release, NoClaim, Executing
<1>28. ASSUME Tick PROVE ClaimInv'
  BY <1>28 DEF Tick, Older, Age
<1>29. CASE UNCHANGED <<claim, status, runner, child, lease>>
  BY <1>29
<1> QED
  <2>1. ASSUME Console PROVE ClaimInv'
    BY <2>1, <1>1, <1>2, <1>3, <1>4
    DEF Console
  <2>2. ASSUME NEW h \in Host, ClaimLoop(h) PROVE ClaimInv'
    BY <2>2, <1>5, <1>6, <1>7, <1>8, <1>9, <1>10, <1>11, <1>12, <1>13, <1>13a, <1>14, <1>15
    DEF ClaimLoop
  <2>3. ASSUME NEW h \in Host, Leasing(h) PROVE ClaimInv'
    BY <2>3, <1>16, <1>17, <1>18, <1>19, <1>29
    DEF Leasing, SendBeat, rowVars, childVars, agentVars, hostVars, boundVars
  <2>4. ASSUME NEW r \in Run, Running(r) PROVE ClaimInv'
    BY <2>4, <1>20, <1>21, <1>22, <1>23, <1>24, <1>25, <1>26, <1>29
    DEF Running, ObserveEnd, rowVars, childVars, agentVars, hostVars, boundVars
  <2>5. ASSUME NEW h \in Host, Process(h) PROVE ClaimInv'
    BY <2>5, <1>27, <1>29
    DEF Process, Start, Drain, rowVars, childVars, agentVars, hostVars, boundVars
  <2>6. CASE UNCHANGED vars
    BY <2>6, <1>29 DEF vars, rowVars, childVars, agentVars, hostVars, boundVars
  <2> QED
    BY <2>1, <2>2, <2>3, <2>4, <2>5, <2>6, <1>28 DEF Next

\* A beat that the database answered is not older than the leases it stamped.
LEMMA BeatStep ==
  ASSUME TypeOK, BeatInv, ClaimInv, UnclaimedInv, AgentInv, OwnedInv, [Next]_vars
  PROVE  BeatInv'
<1> USE QueueAssumption DEF rowVars, childVars, agentVars, hostVars, TypeOK, LedgerType, ChildType, AgentType, HostType, BeatRecord, Held, Executing, BeatInv
<1>1. ASSUME NEW r \in Run, Enqueue(r) PROVE BeatInv'
  BY <1>1 DEF Enqueue
<1>2. ASSUME NEW r \in Run, CancelQueued(r) PROVE BeatInv'
  BY <1>2 DEF CancelQueued
<1>3. ASSUME NEW r \in Run, RequestCancel(r) PROVE BeatInv'
  BY <1>3 DEF RequestCancel
<1>4. ASSUME Sweep PROVE BeatInv'
  BY <1>4 DEF Sweep
<1>5. ASSUME NEW h \in Host, CommitClaim(h) PROVE BeatInv'
  BY <1>5 DEF CommitClaim, ClaimInv, UnclaimedInv
<1>6. ASSUME NEW h \in Host, Launch(h) PROVE BeatInv'
  BY <1>6 DEF Launch, Release, Overdue, OwnedBy, NoClaim, ClaimInv, OwnedInv, Age, Deadline, Never
<1>6a. ASSUME NEW h \in Host, ForkFails(h) PROVE BeatInv'
  BY <1>6a DEF ForkFails, Kill, Release
<1>7. ASSUME NEW h \in Host, FailClaim(h) PROVE BeatInv'
  BY <1>7 DEF FailClaim, Settle, NoClaim, ClaimInv
<1>8. ASSUME NEW h \in Host, Watchdog(h) PROVE BeatInv'
  BY <1>8 DEF Watchdog, Kill, Release, Overdue, OwnedBy
<1>9. ASSUME NEW h \in Host, NEW b \in Beat, SendBeat(h, b) PROVE BeatInv'
  BY <1>9 DEF SendBeat, NoBeat
<1>10. ASSUME NEW h \in Host, NEW b \in Beat, CommitBeat(h, b) PROVE BeatInv'
  BY <1>10 DEF CommitBeat, Age
<1>11. ASSUME NEW h \in Host, NEW b \in Beat, AnswerBeat(h, b) PROVE BeatInv'
  BY <1>11 DEF AnswerBeat, Kill, Tell, LiveOn, OwnedBy, Launching, Begun, NoBeat, Ended
<1>12. ASSUME NEW h \in Host, NEW b \in Beat, LoseBeat(h, b) PROVE BeatInv'
  BY <1>12 DEF LoseBeat, Kill, Release, Overdue, OwnedBy, Begun, NoBeat
<1>13. ASSUME NEW r \in Run, Cancel(r) PROVE BeatInv'
  BY <1>13 DEF Cancel, Tell, Ended
<1>14. ASSUME NEW r \in Run, Ready(r) PROVE BeatInv'
  BY <1>14 DEF Ready
<1>15. ASSUME NEW r \in Run, Crash(r) PROVE BeatInv'
  BY <1>15 DEF Crash, Executing
<1>16. ASSUME NEW r \in Run, StoreStarted(r) PROVE BeatInv'
  BY <1>16 DEF StoreStarted
<1>17. ASSUME NEW r \in Run, Fatal(r) PROVE BeatInv'
  BY <1>17 DEF Fatal, Settle, Ended
<1>18. ASSUME NEW r \in Run, Close(r) PROVE BeatInv'
  BY <1>18 DEF Close, Settle, AgentInv, Ended
<1>19. ASSUME NEW r \in Run, NEW outcome \in Ends, Finish(r, outcome) PROVE BeatInv'
  BY <1>19 DEF Finish
<1>20. ASSUME NEW h \in Host, Die(h) PROVE BeatInv'
  <2>1. beat' = [beat EXCEPT ![h] = [b \in Beat |-> NoBeat]]
    BY <1>20 DEF Die
  <2>2. \A b \in Beat : beat'[h][b].phase = "idle"
    BY <2>1 DEF NoBeat
  <2>3. \A g \in Host \ {h} : beat'[g] = beat[g]
    BY <2>1
  <2>4. UNCHANGED <<runner, lease, status>> /\ \A r \in Run : child'[r] \in {child[r], "dead"}
    BY <1>20 DEF Die
  <2>5. \A g \in Host, b \in Beat : beat[g][b].held \subseteq Run
    OBVIOUS
  <2> HIDE DEF TypeOK
  <2> QED
    BY <2>2, <2>3, <2>4, <2>5
<1>21. ASSUME Tick PROVE BeatInv'
  BY <1>21 DEF Tick, Older, Age
<1>22. CASE UNCHANGED <<beat, runner, lease, status, child>>
  BY <1>22
<1> QED
  <2>1. ASSUME Console PROVE BeatInv'
    BY <2>1, <1>1, <1>2, <1>3, <1>4
    DEF Console
  <2>2. ASSUME NEW h \in Host, ClaimLoop(h) PROVE BeatInv'
    BY <2>2, <1>5, <1>6, <1>6a, <1>7, <1>22
    DEF ClaimLoop, SendClaim, NoWork, RefuseClaim, AnswerClaim, LoseClaim, TakeSpec, GiveUp, PickClaim, rowVars, childVars, agentVars, hostVars, boundVars
  <2>3. ASSUME NEW h \in Host, Leasing(h) PROVE BeatInv'
    BY <2>3, <1>8, <1>9, <1>10, <1>11, <1>12
    DEF Leasing
  <2>4. ASSUME NEW r \in Run, Running(r) PROVE BeatInv'
    BY <2>4, <1>13, <1>14, <1>15, <1>16, <1>17, <1>18, <1>19, <1>22
    DEF Running, ObserveEnd, rowVars, childVars, agentVars, hostVars, boundVars
  <2>5. ASSUME NEW h \in Host, Process(h) PROVE BeatInv'
    BY <2>5, <1>20, <1>22
    DEF Process, Start, Drain, rowVars, childVars, agentVars, hostVars, boundVars
  <2>6. CASE UNCHANGED vars
    BY <2>6, <1>22 DEF vars, rowVars, childVars, agentVars, hostVars, boundVars
  <2> QED
    BY <2>1, <2>2, <2>3, <2>4, <2>5, <2>6, <1>21 DEF Next

-----------------------------------------------------------------------------
\* The invariant holds of the empty queue.
LEMMA IInvInit == Init => IInv
<1> SUFFICES ASSUME Init PROVE IInv
  OBVIOUS
<1>1. TypeOK
  BY TypeInit
<1>2. OneActivePerDestination /\ UnclaimedInv /\ AgentInv /\ OwnedInv /\ FenceInv
  BY QueueAssumption DEF Init, OneActivePerDestination, UnclaimedInv, AgentInv, OwnedInv, FenceInv, Executing, Age, Never
<1>3. DownInv /\ ClaimInv /\ BeatInv
  BY DEF Init, DownInv, ClaimInv, BeatInv, NoClaim, NoBeat
<1> QED
  BY <1>1, <1>2, <1>3 DEF IInv

\* Every step keeps the invariant.
LEMMA IInvStep == IInv /\ [Next]_vars => IInv'
  BY TypeStep, OneActiveStep, UnclaimedStep, DownStep, AgentStep, ClaimStep, BeatStep, OwnedStep, FenceStep DEF IInv

\* What an agent remembers never drifts from the ledger by more than its requests
\* take: the invariant the fencing of runs rests on.
THEOREM Inductive == Spec => []IInv
  BY IInvInit, IInvStep, PTL DEF Spec

-----------------------------------------------------------------------------
(***************************************************************************)
(* What follows from the inductive invariant.                              *)
(***************************************************************************)

\* Whatever the agents, the console and the sweeper do, two runs into one database
\* are never running at the same time.
THEOREM OneActive == Spec => []OneActivePerDestination
<1>1. IInv => OneActivePerDestination
  BY DEF IInv
<1> QED
  BY <1>1, Inductive, PTL

\* The watchdog's room is never negative: FencedInTime follows from FenceInv.
LEMMA FencedByInv == IInv => FencedInTime
<1> SUFFICES ASSUME IInv, NEW r \in Run, Confirmed(r)
             PROVE  status[r] \in Active /\ lease[r] >= 0
  BY DEF FencedInTime
<1>1. status[r] \in Active /\ lease[r] >= Margin + 1 - check[runner[r]]
  BY DEF IInv, FenceInv, Confirmed
<1>2. runner[r] \in Host
  BY DEF IInv, TypeOK, LedgerType, UnclaimedInv, Confirmed
<1>3. check[runner[r]] \in 0 .. Check /\ lease[r] \in -1 .. Lease
  BY <1>2 DEF IInv, TypeOK, LedgerType, HostType
<1> QED
  BY <1>1, <1>3, QueueAssumption

\* An agent fences a child before the ledger may settle its run: while it lets the
\* child write, the run is running and its lease has not expired.
THEOREM Fenced == Spec => []FencedInTime
  BY FencedByInv, Inductive, PTL

\* Two confirmed writers would both be active, and one destination has one active run.
LEMMA SingleByInv == IInv => SingleWriter
  BY FencedByInv DEF IInv, OneActivePerDestination, FencedInTime, SingleWriter, Confirmed

\* Of two children that write into one database, one was left behind by an agent
\* that died.
THEOREM Single == Spec => []SingleWriter
  BY SingleByInv, Inductive, PTL

\* A fork follows a look at the leases, and the remembered renewal bounds the real lease.
LEMMA LaunchStep ==
  ASSUME IInv, [Next]_vars, NEW r \in Run, child[r] = "none", child'[r] # "none"
  PROVE  status[r] \in Active /\ lease[r] > Margin
<1> USE DEF IInv, TypeOK, LedgerType, ChildType
<1>1. ASSUME NEW h \in Host, Launch(h) PROVE status[r] \in Active /\ lease[r] > Margin
  <2>1. claim[h].phase = "taken" /\ r = claim[h].run /\ owned[r] # None /\ r \notin Overdue(h)
    <3> DEFINE q == claim[h].run
               go == owned[q] # None /\ q \notin Overdue(h)
    <3>1. child'[r] = IF r = q /\ go THEN "booting"
                      ELSE IF r \in Overdue(h) /\ link[r] # "none" /\ Executing(r) THEN "dead" ELSE child[r]
      BY <1>1 DEF Launch
    <3>2. ~ Executing(r)
      BY DEF Executing
    <3> HIDE DEF go
    <3>3. r = q /\ go
      BY <3>1, <3>2
    <3> QED
      BY <1>1, <3>3 DEF Launch, go
  <2>2. runner[r] = h /\ Held(r)
    BY <2>1 DEF ClaimInv
  <2>3. owned[r] \in Age /\ owned[r] < Deadline
    BY <2>1, <2>2, QueueAssumption DEF Overdue, OwnedBy, AgentType, Age, Never, Deadline
  <2>4. lease[r] >= Lease - owned[r] /\ lease[r] \in -1 .. Lease
    BY <2>3 DEF OwnedInv
  <2> QED
    BY <2>2, <2>3, <2>4, QueueAssumption DEF Held, Deadline, Age
<1>2. \A h \in Host : ClaimLoop(h) => Launch(h)
  BY DEF ClaimLoop, SendClaim, NoWork, CommitClaim, RefuseClaim, AnswerClaim, LoseClaim, TakeSpec,
         ForkFails, Kill, Executing, GiveUp, FailClaim, PickClaim, childVars
<1>3. \A h \in Host : ~ Leasing(h)
  <2>1. \A F : ~ Kill(F)
    BY DEF Kill, Executing
  <2>2. \A h \in Host, b \in Beat : ~ AnswerBeat(h, b)
    BY <2>1 DEF AnswerBeat
  <2> QED
    BY <2>1, <2>2 DEF Leasing, Watchdog, SendBeat, CommitBeat, LoseBeat, childVars
<1>4. \A h \in Host : ~ Process(h)
  BY DEF Process, Start, Drain, Die, Executing, childVars
<1>5. \A q \in Run : ~ Running(q)
  BY DEF Running, Cancel, Ready, Crash, StoreStarted, Fatal, ObserveEnd, Close, Finish, Executing, childVars
<1>6. ~ Console /\ ~ Tick /\ ~ UNCHANGED vars
  BY DEF Console, Enqueue, CancelQueued, RequestCancel, Sweep, Tick, vars, childVars
<1> QED
  BY <1>1, <1>2, <1>3, <1>4, <1>5, <1>6 DEF Next

\* No child is forked for a run the ledger has settled or is about to take away.
THEOREM LaunchHeld == Spec => LaunchOnlyHeld
<1>1. IInv /\ [Next]_vars =>
        [\A r \in Run : child[r] = "none" /\ child'[r] # "none"
                        => status[r] \in Active /\ lease[r] > Margin]_vars
  BY LaunchStep
<1> QED
  BY <1>1, Inductive, PTL DEF Spec, LaunchOnlyHeld

-----------------------------------------------------------------------------
(* The refinement. *)

\* No step settles a run that a confirmed child executes.
LEMMA LeaveStep ==
  ASSUME IInv, [Next]_vars, NEW r \in Run, status[r] \in Active, status'[r] \notin Active
  PROVE  ~ Confirmed(r)
<1> USE DEF IInv, TypeOK, LedgerType, Confirmed
<1>1. CASE Sweep
  BY <1>1, FencedByInv, QueueAssumption DEF Sweep, FencedInTime
<1>2. ASSUME NEW h \in Host, FailClaim(h) PROVE ~ Confirmed(r)
  BY <1>2 DEF FailClaim, Settle, ClaimInv, Executing
<1>3. ASSUME NEW h \in Host, NEW b \in Beat, AnswerBeat(h, b) PROVE ~ Confirmed(r)
  BY <1>3 DEF AnswerBeat, Tell, Ended, Executing
<1>4. ASSUME NEW q \in Run, Cancel(q) \/ Fatal(q) \/ Close(q) PROVE ~ Confirmed(r)
  BY <1>4 DEF Cancel, Tell, Fatal, Close, Settle, AgentInv, Ended, Executing
<1>5. Console => Sweep
  BY QueueAssumption DEF Console, Enqueue, CancelQueued, RequestCancel
<1>6. \A h \in Host : ClaimLoop(h) => FailClaim(h)
  BY DEF ClaimLoop, SendClaim, NoWork, CommitClaim, RefuseClaim, AnswerClaim, LoseClaim, TakeSpec,
         ForkFails, GiveUp, Launch, PickClaim, rowVars
<1>7. \A h \in Host : Leasing(h) => \E b \in Beat : AnswerBeat(h, b)
  BY DEF Leasing, Watchdog, SendBeat, CommitBeat, LoseBeat, rowVars
<1>8. \A q \in Run : Running(q) => Cancel(q) \/ Fatal(q) \/ Close(q)
  BY DEF Running, Ready, Crash, StoreStarted, ObserveEnd, Finish, rowVars
<1>9. (\A h \in Host : ~ Process(h)) /\ ~ Tick /\ ~ UNCHANGED vars
  BY DEF Process, Start, Drain, Die, Tick, vars, rowVars
<1> QED
  BY <1>1, <1>2, <1>3, <1>4, <1>5, <1>6, <1>7, <1>8, <1>9 DEF Next

\* A run becomes active only where its destination is free, and gains no writer by that.
LEMMA EnterStep ==
  ASSUME IInv, [Next]_vars, NEW r \in Run, status[r] \notin Active, status'[r] \in Active
  PROVE  ~ Busy(r) /\ (Confirmed(r)' => Confirmed(r))
<1> DEFINE Goal == ~ Busy(r) /\ (Confirmed(r)' => Confirmed(r))
<1> USE DEF IInv, TypeOK, LedgerType
<1>1. ASSUME NEW h \in Host, CommitClaim(h) PROVE Goal
  BY <1>1 DEF CommitClaim, Confirmed, Executing, childVars, agentVars
<1>2. ASSUME NEW q \in Run, StoreStarted(q) PROVE Goal
  BY <1>2 DEF StoreStarted, Confirmed, Executing, agentVars
<1>3. \A h \in Host : ClaimLoop(h) => CommitClaim(h)
  BY DEF ClaimLoop, SendClaim, NoWork, RefuseClaim, AnswerClaim, LoseClaim, TakeSpec, FailClaim, Settle,
         ForkFails, GiveUp, Launch, PickClaim, rowVars
<1>4. \A h \in Host : ~ Leasing(h)
  <2>1. \A S : ~ Tell(S)
    BY DEF Tell
  <2>2. \A h \in Host, b \in Beat : ~ AnswerBeat(h, b)
    BY <2>1 DEF AnswerBeat
  <2> QED
    BY <2>2 DEF Leasing, Watchdog, SendBeat, CommitBeat, LoseBeat, rowVars
<1>5. \A q \in Run : Running(q) => StoreStarted(q)
  BY DEF Running, Cancel, Tell, Ready, Crash, Fatal, Settle, ObserveEnd, Close, Finish, rowVars
<1>6. ~ Console
  BY QueueAssumption DEF Console, Enqueue, CancelQueued, RequestCancel, Sweep
<1>7. (\A h \in Host : ~ Process(h)) /\ ~ Tick /\ ~ UNCHANGED vars
  BY DEF Process, Start, Drain, Die, Tick, vars, rowVars
<1> QED
  BY <1>1, <1>2, <1>3, <1>4, <1>5, <1>6, <1>7 DEF Next

\* Nobody holds or writes at first.
LEMMA RefinesInit == Init => Lock!Init
  BY DEF Init, Lock!Init, Confirmed, Executing

\* Every step grants a free destination, frees one nobody writes, or leaves it alone.
LEMMA RefinesStep == IInv /\ IInv' /\ [Next]_vars => Lock!Next
<1> SUFFICES ASSUME IInv, IInv', [Next]_vars PROVE Lock!Next
  OBVIOUS
<1> DEFINE on(d) == {r \in Run : Target[r] = d /\ status[r] \in Active}
           wr == {r \in Run : Target[r] # NoTarget /\ Confirmed(r)}
<1>1. FencedInTime /\ FencedInTime'
  <2>1. FencedInTime'
    BY FencedByInv, PTL
  <2> QED
    BY <2>1, FencedByInv
<1>2. \A d \in Destination : \A q, r \in on(d) : q = r
  BY DEF IInv, OneActivePerDestination, SameTarget, Destination
<1>3. \A d \in Destination : \A q, r \in on(d)' : q = r
  BY DEF IInv, OneActivePerDestination, SameTarget, Destination
<1>4. ASSUME NEW d \in Destination, NEW q \in on(d), q \notin on(d)'
      PROVE  on(d) \cap (wr \cup wr') = {} /\ on(d)' = {}
  <2>1. on(d) = {q} /\ q \in Run /\ Target[q] = d /\ status[q] \in Active /\ status'[q] \notin Active
    BY <1>2, <1>4
  <2>2. ~ Confirmed(q) /\ ~ Confirmed(q)'
    BY <1>1, <2>1, LeaveStep DEF FencedInTime
  <2>3. \A r \in on(d)' : r \notin on(d) => FALSE
    <3> SUFFICES ASSUME NEW r \in on(d)', r \notin on(d) PROVE FALSE
      OBVIOUS
    <3>1. r \in Run /\ Target[r] = d /\ status[r] \notin Active /\ status'[r] \in Active
      OBVIOUS
    <3>2. ~ Busy(r)
      BY <3>1, EnterStep
    <3> QED
      BY <2>1, <3>1, <3>2 DEF Busy, SameTarget, Destination
  <2> QED
    BY <2>1, <2>2, <2>3
<1>5. \A d \in Destination : Lock!Keep(d) \/ Lock!Grant(d) \/ Lock!Free(d)
  <2> SUFFICES ASSUME NEW d \in Destination
               PROVE  on(d)' = on(d) \/ (on(d) = {} /\ \E r \in Run : Target[r] = d /\ on(d)' = {r})
                      \/ (on(d) \cap (wr \cup wr') = {} /\ on(d)' = {})
    BY DEF Lock!Keep, Lock!Grant, Lock!Free
  <2>1. CASE \E q \in on(d) : q \notin on(d)'
    BY <1>4, <2>1
  <2>2. CASE on(d) \subseteq on(d)' /\ on(d) # {}
    BY <1>3, <2>2
  <2>3. CASE on(d) = {}
    BY <1>3, <2>3
  <2> QED
    BY <2>1, <2>2, <2>3
<1>6. \A r \in wr' \ wr : Target[r] \in Destination /\ r \in on(Target[r]) \cap on(Target[r])'
  <2> SUFFICES ASSUME NEW r \in Run, Target[r] # NoTarget, Confirmed(r)', ~ Confirmed(r)
               PROVE  status[r] \in Active /\ status'[r] \in Active
    BY DEF Destination
  <2>1. status'[r] \in Active
    BY <1>1 DEF FencedInTime
  <2> QED
    BY <2>1, EnterStep
<1> QED
  BY <1>5, <1>6 DEF Lock!Next

\* The queue and its agents implement the lock of a destination: leases, claims,
\* heartbeats, sweeps and crashes are nothing but its grants and releases.
THEOREM Implements == Spec => ImplementsLock
  BY RefinesInit, RefinesStep, Inductive, PTL DEF Spec, ImplementsLock, Lock!Spec
=============================================================================
