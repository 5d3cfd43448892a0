-------------------------- MODULE DestinationLock ---------------------------
(***************************************************************************)
(* What the run queue promises about a destination database, without       *)
(* leases, claims, heartbeats or sweepers: a run holds its destination     *)
(* alone, only a holder writes, and no destination is taken away from a    *)
(* run that is writing.  (Decision 5 of the run queue, and the fencing of  *)
(* runner agents.)                                                         *)
(***************************************************************************)
CONSTANTS
  Run,
  Destination,
  TargetOf   \* TargetOf[r]: the destination of r, or none of Destination

VARIABLES
  holders,   \* the runs that hold a destination
  writing    \* the runs somebody vouches for that write

Init ==
  /\ holders = [d \in Destination |-> {}]
  /\ writing = {}

Keep(d) == holders'[d] = holders[d]

\* A free destination is given to one of the runs that want it.
Grant(d) == /\ holders[d] = {}
            /\ \E r \in Run : TargetOf[r] = d /\ holders'[d] = {r}

\* A destination is free again once its holder does not write.
Free(d) == /\ holders[d] \cap (writing \cup writing') = {}
           /\ holders'[d] = {}

\* One event of the system may end several runs, but starts writers only among
\* the runs that hold their destination before and after it.
Next ==
  /\ DOMAIN holders' = Destination
  /\ holders' = [d \in Destination |-> holders'[d]]
  /\ \A d \in Destination : Keep(d) \/ Grant(d) \/ Free(d)
  /\ \A r \in writing' \ writing :
       TargetOf[r] \in Destination /\ r \in holders[TargetOf[r]] \cap holders'[TargetOf[r]]

Spec == Init /\ [][Next]_<<holders, writing>>

\* One run holds a destination, and whoever writes holds its destination.
Exclusive ==
  /\ \A d \in Destination : \A q, r \in holders[d] : q = r
  /\ \A r \in writing : TargetOf[r] \in Destination /\ r \in holders[TargetOf[r]]
=============================================================================
