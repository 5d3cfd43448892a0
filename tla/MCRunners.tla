----------------------------- MODULE MCRunners -----------------------------
(***************************************************************************)
(* Small instances of two parts about runners that share no state: which   *)
(* there are (Fleet), and who is shown them (RunnerWatch).  A behaviour    *)
(* runs one of them, chosen at its start.                                  *)
(***************************************************************************)
EXTENDS Fleet, RunnerWatch

CONSTANTS u1, u2

\* Socket 1 is u1's, socket 2 is u2's.
TwoOwners == [p \in Socket |-> IF p = 1 THEN u1 ELSE u2]

VARIABLE part

\* No run, no container, and every console in the middle of a tick: FleetFairness asks
\* nothing of it.
FleetAtRest ==
  /\ status = [r \in Run |-> "ended"] /\ owner = [r \in Run |-> NoClone]
  /\ row = [c \in Clone |-> "offline"] /\ busy = [c \in Clone |-> 0]
  /\ old = {} /\ clone = [c \in Clone |-> "absent"]
  /\ claim = [c \in Clone |-> "idle"] /\ live = [c \in Clone |-> {}] /\ idle = {}
  /\ cool = [w \in Replica |-> FALSE] /\ tick = [w \in Replica |-> "scaling"]
  /\ chain = [w \in Replica |-> <<>>] /\ step = [w \in Replica |-> "idle"]
  /\ faults = 0 /\ clicks = 0

Init ==
  /\ part \in {"fleet", "watch"}
  /\ IF part = "fleet" THEN FleetInit ELSE FleetAtRest
  /\ WatchInit

Next ==
  \/ part = "fleet" /\ FleetNext /\ UNCHANGED <<part, watchVars>>
  \/ part = "watch" /\ WatchNext /\ UNCHANGED <<part, fleetVars>>

vars == <<part, fleetVars, watchVars>>

Spec == Init /\ [][Next]_vars /\ FleetFairness
=============================================================================
