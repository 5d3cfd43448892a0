----------------------------- MODULE RunQueueInv -----------------------------
(***************************************************************************)
(* The inductive invariant of RunQueue.                                    *)
(*                                                                         *)
(* FencedInTime is not inductive: an agent judges a child by when it SENT  *)
(* the request that last renewed its lease, not by the lease.  The parts   *)
(* below say how far those two may drift apart, for a renewal that is      *)
(* still in flight, for one that was recorded, and for the time that has   *)
(* passed since the watchdog looked.                                       *)
(***************************************************************************)
EXTENDS RunQueue

\* The ledger has not settled r, or settled it because its lease ran out.
Held(r) == status[r] \in Active \/ lease[r] < 0

\* A run nobody has claimed exists in the ledger alone.
UnclaimedInv ==
  /\ \A r \in Run : status[r] \in {"absent", "queued"} => runner[r] = NoHost
  /\ \A r \in Run : runner[r] = NoHost =>
       /\ child[r] = "none" /\ link[r] = "none" /\ closing[r] = "none"
       /\ owned[r] = None /\ r \notin started /\ r \notin journaled

\* A dead agent has nothing in flight.
DownInv ==
  \A h \in Host : mode[h] = "down" =>
    claim[h].phase = "idle" /\ \A b \in Beat : beat[h][b].phase = "idle"

\* Only a living agent remembers runs; what it attached to or recorded of a child exists.
AgentInv ==
  /\ \A r \in Run : link[r] # "none" \/ owned[r] # None => Up(runner[r])
  /\ \A r \in Run : link[r] # "none" \/ r \in journaled \cup started => child[r] # "none"
  /\ \A r \in Run : r \in journaled => child[r] # "booting"
  /\ \A r \in Run : closing[r] # "none" => Ended(r)

\* A claim has its row to itself, and a won claim that is not past its lease still has it.
ClaimInv ==
  \A h \in Host : LET r == claim[h].run IN
    /\ claim[h].phase = "picked" =>
         /\ r \in Run /\ status[r] = "queued"
         /\ \A g \in Host : claim[g].phase = "picked" /\ claim[g].run = r => g = h
    /\ claim[h].phase \in {"won", "fail"} \cup Starting =>
         r \in Run /\ runner[r] = h /\ child[r] = "none"
    /\ claim[h].phase \in {"won"} \cup Starting => Held(r)
    /\ claim[h].phase = "won" => lease[r] >= Lease - claim[h].age

\* A renewal in flight is no older than the lease it stamped.
BeatInv ==
  \A h \in Host, b \in Beat :
    beat[h][b].phase = "committed" => \A r \in beat[h][b].held :
      /\ runner[r] = h
      /\ lease[r] >= Lease - beat[h][b].age
      /\ Held(r) \/ ~ Executing(r)

\* Neither is a renewal the agent remembers; and a beat that may confirm a
\* recovered run was sent after the watchdog last looked.
OwnedInv ==
  \A r \in Run :
    /\ owned[r] \in Age => lease[r] >= Lease - owned[r]
    /\ owned[r] = Never => \A b \in Beat :
         beat[runner[r]][b].phase # "idle" => beat[runner[r]][b].age <= check[runner[r]]

\* FencedInTime, with the room the watchdog has left.
FenceInv ==
  \A r \in Run : Executing(r) /\ link[r] # "none" =>
    /\ owned[r] # None
    /\ owned[r] # Never => status[r] \in Active /\ lease[r] >= Margin + 1 - check[runner[r]]

IInv ==
  /\ TypeOK
  /\ OneActivePerDestination
  /\ UnclaimedInv /\ DownInv /\ AgentInv /\ ClaimInv /\ BeatInv /\ OwnedInv /\ FenceInv
=============================================================================
