------------------------------ MODULE EventLog ------------------------------
(***************************************************************************)
(* What a reader of run_events is promised while a run is being recorded:  *)
(* below the cursor runs.last_seq nothing is missing, above it there is    *)
(* nothing, and the cursor only climbs.  Events that may be dropped on     *)
(* purpose (log lines beyond the cap) are not spoken of.                   *)
(***************************************************************************)
EXTENDS Integers

CONSTANT Lasting   \* the seq numbers of the events that may never be dropped

VARIABLES
  published,   \* the seq of the last event of the run
  visible,     \* the cursor of the readers
  shown        \* the lasting events a reader finds

Init == published = 0 /\ visible = 0 /\ shown = {}

Publish == published' \in {published, published + 1}

\* The readers get everything up to a later event.
Show ==
  /\ visible' \in visible .. published
  /\ shown' = {n \in Lasting : n <= visible'}

Next == Publish /\ (Show \/ UNCHANGED <<visible, shown>>)

Spec == Init /\ [][Next]_<<published, visible, shown>>
=============================================================================
