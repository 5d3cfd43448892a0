----------------------------- MODULE MCConsole -----------------------------
(***************************************************************************)
(* Small instances of five parts of the console that share no state.        *)
(* Their product would show nothing that each does not show alone, so a    *)
(* behaviour runs one of them, chosen at its start.                        *)
(***************************************************************************)
EXTENDS Probes, Members, Workspace, Comparison, Review

CONSTANTS p1, p2, y1, s1

\* Connections: two to PostgreSQL, one to MySQL, one to an engine with no adapters.
SomeEngines == [c \in Endpoint |->
  IF c \in {p1, p2} THEN "postgres" ELSE IF c = y1 THEN "mysql" ELSE "snowflake"]

\* The statements of one request take time, those of the others none.
SlowFirst == [q \in Asker |-> IF q = CHOOSE p \in Asker : TRUE THEN 1 ELSE 0]

VARIABLE part

\* No request, no answer, no runner: nothing that ProbeFairness speaks of can happen.
ProbesAtRest ==
  /\ pc = [q \in Asker |-> "over"] /\ outcome = [q \in Asker |-> "no_runner"]
  /\ age = [q \in Asker |-> 0] /\ left = [q \in Asker |-> Wait] /\ nap = [q \in Asker |-> 0]
  /\ probe = [q \in Asker |-> "none"] /\ ttl = [q \in Asker |-> 0]
  /\ online = FALSE /\ up = FALSE /\ stop = "no"
  /\ loop = "idle" /\ claimed = {} /\ wakeAgain = FALSE
  /\ job = [q \in Asker |-> "none"] /\ jobLeft = [q \in Asker |-> 0]
  /\ probeFaults = 0 /\ inTime = {}

\* A part that does not move starts in one state.
Init ==
  /\ part \in {"probes", "members", "workspace", "comparison", "review"}
  /\ MembersInit /\ WorkspaceInit /\ ComparisonInit /\ ReviewInit
  /\ IF part = "probes" THEN ProbeInit ELSE ProbesAtRest
  /\ part # "members" => \A u \in User : member[u] = "admin"
  /\ part # "workspace" => \A c \in Conn : conn[c] = CHOOSE d \in Db : TRUE
  /\ part # "comparison" => \A t \in Table : src[t] = 0 /\ dst[t] = 0
  /\ part # "review" => /\ openPage = "compare"
                        /\ saved = [d \in SavedMigration |-> [src |-> p1, dst |-> p2, mode |-> "full"]]

\* The limit is about launches that overlap and edits are about each: where something is
\* edited, launches come one at a time, and one run fewer.
OverlapUnedited == edits' = 0 \/ (Len(runs') < MaxRuns /\ \E l \in Launcher : launch'[l] = NoLaunch)

\* As many choices as there may be are about the page; what others save, about one fewer.
LastPickUnedited == picks' < MaxPicks \/ reviewEdits' = 0

Next ==
  \/ part = "probes" /\ ProbeNext
       /\ UNCHANGED <<part, memberVars, workspaceVars, comparisonVars, reviewVars>>
  \/ part = "members" /\ MembersNext
       /\ UNCHANGED <<part, probeVars, workspaceVars, comparisonVars, reviewVars>>
  \/ part = "workspace" /\ WorkspaceNext /\ OverlapUnedited
       /\ UNCHANGED <<part, probeVars, memberVars, comparisonVars, reviewVars>>
  \/ part = "comparison" /\ ComparisonNext
       /\ UNCHANGED <<part, probeVars, memberVars, workspaceVars, reviewVars>>
  \/ part = "review" /\ ReviewNext /\ LastPickUnedited
       /\ UNCHANGED <<part, probeVars, memberVars, workspaceVars, comparisonVars>>

vars == <<part, probeVars, memberVars, workspaceVars, comparisonVars, reviewVars>>

Spec == Init /\ [][Next]_vars /\ ProbeFairness
=============================================================================
