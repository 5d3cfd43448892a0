------------------------------ MODULE MCPages ------------------------------
(***************************************************************************)
(* Small instances of three parts that decide what a browser shows of runs *)
(* and that share no state: a behaviour runs one of them, chosen at its    *)
(* start, and the stream, when it is not the one, rests in a state that    *)
(* StreamFairness asks nothing of.                                         *)
(***************************************************************************)
EXTENDS RunStream, RunView, Ledger

VARIABLE part

\* Nobody watches.
NobodyThere ==
  /\ link = TRUE /\ bus = <<>> /\ push = FALSE
  /\ cur = 0
  /\ cursor = [i \in Cursors |-> [seq |-> 0, st |-> "idle", page |-> {}, again |-> FALSE, retry |-> FALSE]]
  /\ sock = [b \in Browser |-> NoSocket] /\ wire = [b \in Browser |-> <<>>]
  /\ check = Unchecked /\ faults = 0
PagesAre(st) == page = [b \in Browser |-> [st |-> st, run |-> "none", applied |-> {}, rest |-> NoRest]]

\* The run is over, and the page on it belongs to nobody.
StreamAtRest == NobodyThere /\ PagesAre("revoked") /\ stored = MaxSeq /\ ended = "event" /\ role = "none"

\* The run has one event to come when somebody opens its page.
StreamLate == NobodyThere /\ PagesAre("off") /\ stored = MaxSeq - 1 /\ ended = "no" /\ role = "full"

Init ==
  /\ part \in {"stream", "roles", "view", "list"}
  /\ CASE part = "stream" -> StreamInit [] part = "roles" -> StreamLate [] OTHER -> StreamAtRest
  /\ RunViewInit /\ LedgerInit

\* One thing goes wrong while a run goes from its first event to its last; as many as there
\* may be, changes of role and sockets that close, while its last is to come.
FewFaults ==
  faults' > faults =>
    IF part = "stream" THEN faults' = 1
    ELSE role' # role \/ \E b \in Browser : sock'[b] # sock[b]

\* The agent stores nothing before the engine is done: which events there are does not
\* depend on what was stored, and what a row and a page tell of them only on their order.
EngineFirst == engine' = "over" \/ row' = row

\* What is held back, which takes two samples, and what moves the status without an event
\* touch different parts of the rows and the page: a behaviour has the one or the other.
HeldOrSurprised == surprises' = 0 \/ \A t \in Copied : samples[t] <= 1

\* What time it is matters only to a run that is still to come.
TimeMatters == now' = now \/ Cardinality(runRows) < Cardinality(Ids)

\* A status is chosen once.
OneStatus == filter' = filter \/ filter = "all"

Next ==
  \/ part \in {"stream", "roles"} /\ StreamNext /\ FewFaults
       /\ UNCHANGED <<part, viewVars, ledgerVars>>
  \/ part = "view" /\ RunViewNext /\ EngineFirst /\ HeldOrSurprised
       /\ UNCHANGED <<part, streamVars, ledgerVars>>
  \/ part = "list" /\ LedgerNext /\ TimeMatters /\ OneStatus
       /\ UNCHANGED <<part, streamVars, viewVars>>

vars == <<part, streamVars, viewVars, ledgerVars>>

Spec == Init /\ [][Next]_vars /\ StreamFairness
=============================================================================
