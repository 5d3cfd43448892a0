----------------------------- MODULE Workspace -----------------------------
(***************************************************************************)
(* What one organisation keeps and launches: connections, saved migrations *)
(* (definitions) and the runs started from them.  A launch reads the       *)
(* definition, the two connections and the number of active runs, each in  *)
(* a statement of its own, and inserts the run; edits, archiving and       *)
(* deletions by others may come between any two of them.                   *)
(*                                                                         *)
(* A connection is the database it names, all of one server and engine; a  *)
(* run's steps are those of RunQueue.                                      *)
(***************************************************************************)
EXTENDS Integers, Sequences, FiniteSets

CONSTANTS
  Conn, Db, Def,
  Pin,              \* the databases a form or a request may name itself
  Launcher,         \* launches that may be under way at the same moment
  MaxConcurrentRuns,
  MaxRuns,          \* bound: runs ever started
  MaxEdits,         \* bound: changes of connections and definitions
  NoDb, NoConn, NoDef

ASSUME WorkspaceAssumption ==
  /\ Pin \subseteq Db /\ NoDb \notin Db /\ NoConn \notin Conn /\ NoDef \notin Def
  /\ MaxConcurrentRuns \in Nat /\ MaxRuns \in Nat /\ MaxEdits \in Nat
  /\ IsFiniteSet(Launcher) /\ Launcher # {}

VARIABLES
  conn,    \* connections.database, NoDb once the row is deleted
  def,     \* migration_definitions, <<>> or <<row>>
  runs,    \* the runs in the order they were inserted
  launch,  \* each launch: [phase, body, ends]
  edits

workspaceVars == <<conn, def, runs, launch, edits>>

Ends == [source : Conn, target : Conn, sourceDb : Pin \cup {NoDb}, targetDb : Pin \cup {NoDb}]
NoLaunch == [phase |-> "idle", def |-> NoDef, ends |-> <<>>, mode |-> "full"]

WorkspaceInit ==
  /\ conn \in [Conn -> Db] /\ def = [m \in Def |-> <<>>] /\ runs = <<>>
  /\ launch = [l \in Launcher |-> NoLaunch] /\ edits = 0

Exists(c) == conn[c] # NoDb
Live(m) == def[m] # <<>> /\ ~ def[m][1].archived
Edit == edits < MaxEdits /\ edits' = edits + 1

-----------------------------------------------------------------------------
(***************************************************************************)
(* Connections and definitions.                                            *)
(***************************************************************************)

\* PATCH a connection: it may name another database from now on.
EditConnection(c) ==
  /\ Edit /\ Exists(c) /\ \E d \in Db : conn' = [conn EXCEPT ![c] = d]
  /\ UNCHANGED <<def, runs, launch>>

Uses(row, c) == row.source = c \/ row.target = c

\* Mutant: a bare SET NULL of the two columns: a run of no organisation.
ForgetRow(run, c) == IF Uses(run, c) THEN [run EXCEPT !.org = FALSE] ELSE run

\* The foreign keys of a definition restrict, archived or not; those of a run are
\* set to null, and they alone.
Forget(run, c) ==
  [run EXCEPT !.source = IF @ = c THEN NoConn ELSE @, !.target = IF @ = c THEN NoConn ELSE @]

RemoveConnection(c) ==
  /\ Edit /\ Exists(c) /\ \A m \in Def : def[m] # <<>> => ~ Uses(def[m][1], c)
  /\ conn' = [conn EXCEPT ![c] = NoDb]
  /\ runs' = [i \in DOMAIN runs |-> Forget(runs[i], c)]
  /\ UNCHANGED <<def, launch>>

\* parseDefinitionInput: both ends may not be one connection with the same pin.
SavedOntoItself(e) == e.source = e.target /\ e.sourceDb = e.targetDb

\* POST and PATCH of a definition: prepareDefinition, then the insert or the update,
\* which leaves an archived definition alone.
SaveDefinition(m) ==
  /\ Edit /\ (def[m] = <<>> \/ Live(m))
  /\ \E e \in Ends, mode \in {"full", "query"} :
       /\ ~ SavedOntoItself(e) /\ Exists(e.source) /\ Exists(e.target)
       /\ def' = [def EXCEPT ![m] = <<[source |-> e.source, target |-> e.target, sourceDb |-> e.sourceDb,
                                       targetDb |-> e.targetDb, mode |-> mode, archived |-> FALSE]>>]
  /\ UNCHANGED <<conn, runs, launch>>

\* DELETE archives; nothing deletes a definition.
ArchiveDefinition(m) ==
  /\ Edit /\ Live(m) /\ def' = [def EXCEPT ![m] = <<[@[1] EXCEPT !.archived = TRUE]>>]
  /\ UNCHANGED <<conn, runs, launch>>

-----------------------------------------------------------------------------
(***************************************************************************)
(* A launch.                                                               *)
(***************************************************************************)

Refuse(l) == launch' = [launch EXCEPT ![l] = NoLaunch]

\* The definition, if the request names one, wins over what else the request says;
\* what it does not pin may be named by the request.
Either(pinned, asked) == IF pinned # NoDb THEN pinned ELSE asked

\* resolveRunTarget: the definition of the request, live, or two connections.
ReadDefinition(l) ==
  /\ launch[l] = NoLaunch /\ Len(runs) < MaxRuns
  /\ \E m \in Def \cup {NoDef}, asked \in Ends :
       IF m = NoDef
       THEN launch' = [launch EXCEPT ![l] = [phase |-> "defined", def |-> NoDef, ends |-> <<asked>>, mode |-> "full"]]
       ELSE /\ Live(m)
            /\ LET row == def[m][1]
                   ends == [source |-> row.source, target |-> row.target,
                            sourceDb |-> Either(row.sourceDb, asked.sourceDb),
                            targetDb |-> Either(row.targetDb, asked.targetDb)]
               IN  launch' = [launch EXCEPT ![l] = [phase |-> "defined", def |-> m, ends |-> <<ends>>, mode |-> row.mode]]
  /\ UNCHANGED <<conn, def, runs, edits>>

\* One connection and, once the connections have filled in what nobody named, one database.
OntoItself(e) == e.source = e.target /\ e.sourceDb = e.targetDb

Side == {"source", "target"}
ConnOf(e, side) == IF side = "source" THEN e.source ELSE e.target
Filled(e, side) ==
  IF side = "source" THEN [e EXCEPT !.sourceDb = Either(@, conn[e.source])]
  ELSE [e EXCEPT !.targetDb = Either(@, conn[e.target])]

\* The connections, in two statements that PostgreSQL answers in any order: each exists and
\* fills in the database nobody named.  When both are read, the two refusals: the same
\* database, and a mode that only the command line runs.
ReadConnection(l, side) ==
  LET asked == launch[l].ends[1]
      ends  == Filled(asked, side)
      Read(phase) == launch' = [launch EXCEPT ![l].phase = phase, ![l].ends = <<ends>>]
  IN /\ launch[l].phase \in {"defined"} \cup (Side \ {side})
     /\ IF ~ Exists(ConnOf(asked, side)) THEN Refuse(l)
        ELSE IF launch[l].phase = "defined" THEN Read(side)
        ELSE IF ~ OntoItself(ends) /\ launch[l].mode = "full" THEN Read("resolved")
        ELSE Refuse(l)
     /\ UNCHANGED <<conn, def, runs, edits>>

\* countActive: every run that is queued, assigned, running or cancelling.
CountActive == Cardinality({i \in DOMAIN runs : runs[i].active})

\* Mutant: refused only when there are more runs than the limit.
CountRunsOver(l) ==
  /\ launch[l].phase = "resolved"
  /\ IF CountActive <= MaxConcurrentRuns
     THEN launch' = [launch EXCEPT ![l].phase = "counted"]
     ELSE Refuse(l)
  /\ UNCHANGED <<conn, def, runs, edits>>

CountRuns(l) ==
  /\ launch[l].phase = "resolved"
  /\ IF CountActive < MaxConcurrentRuns
     THEN launch' = [launch EXCEPT ![l].phase = "counted"]
     ELSE Refuse(l)
  /\ UNCHANGED <<conn, def, runs, edits>>

\* enqueue: the run with the snapshot of its ends, in one transaction with its spec;
\* refused by a foreign key if a connection is gone meanwhile.
Enqueue(l) ==
  LET e == launch[l].ends[1] IN
  /\ launch[l].phase = "counted" /\ Refuse(l)
  /\ runs' = IF Exists(e.source) /\ Exists(e.target) /\ Len(runs) < MaxRuns
             THEN Append(runs, [active |-> TRUE, org |-> TRUE, def |-> launch[l].def,
                                source |-> e.source, target |-> e.target,
                                sourceDb |-> e.sourceDb, targetDb |-> e.targetDb])
             ELSE runs
  /\ UNCHANGED <<conn, def, edits>>

\* A run settles, of what RunQueue says of it.
Settles(i) ==
  /\ runs[i].active /\ runs' = [runs EXCEPT ![i].active = FALSE]
  /\ UNCHANGED <<conn, def, launch, edits>>

WorkspaceNext ==
  \/ \E c \in Conn : EditConnection(c) \/ RemoveConnection(c)
  \/ \E m \in Def : SaveDefinition(m) \/ ArchiveDefinition(m)
  \/ \E l \in Launcher : ReadDefinition(l) \/ CountRuns(l) \/ Enqueue(l)
  \/ \E l \in Launcher, side \in Side : ReadConnection(l, side)
  \/ \E i \in DOMAIN runs : Settles(i)

WorkspaceSpec == WorkspaceInit /\ [][WorkspaceNext]_workspaceVars

-----------------------------------------------------------------------------
(***************************************************************************)
(* Properties.                                                             *)
(***************************************************************************)

\* No run copies a database of a connection onto itself, though a definition that
\* was saved in order may come to name one database twice: its connection changed,
\* or the request named what the definition left open.
NeverOntoItself ==
  \A i \in DOMAIN runs : runs[i].source = runs[i].target /\ runs[i].source # NoConn
                         => runs[i].sourceDb # runs[i].targetDb

\* A run of an organisation's history stays as it was: no edit, no archiving and no
\* deletion changes its snapshot, its definition or its organisation; of its
\* connections, the one that is deleted becomes null.
HistoryKept ==
  [][\A i \in DOMAIN runs :
       LET was == runs[i] is == runs'[i]
           Kept(a, b) == b = a \/ (b = NoConn /\ a # NoConn /\ conn'[a] = NoDb)
       IN  /\ is.org /\ is.def = was.def /\ is.sourceDb = was.sourceDb /\ is.targetDb = was.targetDb
           /\ Kept(was.source, is.source) /\ Kept(was.target, is.target)]_workspaceVars

\* The limit of concurrent runs is passed by the launches that overlap, and by
\* those alone: none of them sees what another is about to insert.
ActiveBounded ==
  CountActive <= MaxConcurrentRuns + Cardinality(Launcher) - 1

\* What a launch is checked for still holds of the run it became, which is enqueued some
\* reads later.
AdmittedAsChecked == NeverOntoItself /\ ActiveBounded
=============================================================================
