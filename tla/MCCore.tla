------------------------------- MODULE MCCore -------------------------------
(***************************************************************************)
(* Small instances of the two halves of packages/core: the steps and copies *)
(* of one run (Migration), and the schema of the destination over runs in a *)
(* row (SchemaSync).  They share no state, so a behaviour runs one of them, *)
(* chosen at its start.                                                     *)
(***************************************************************************)
EXTENDS MCMigration, MCSchemaSync

VARIABLE half

\* Two databases with no table.
SchemaAtRest ==
  /\ pair = [src |-> "pg", dst |-> "pg"] /\ src = Database("pg", <<>>) /\ dst = src
  /\ SyncInit

\* A run that is over does nothing, and MigrationFairness asks nothing of it.
MigrationOver ==
  /\ job = CHOOSE j \in Jobs : TRUE
  /\ step = 1 /\ phase = "over" /\ left = <<>> /\ done = 0
  /\ plan = [loadOrder |-> <<>>, cleanupOrder |-> <<>>, cyclicTables |-> {}]
  /\ dest = [t \in Tables |-> [old |-> job.old, new |-> 0]]
  /\ guards = [t \in Tables |-> TRUE]
  /\ results = [t \in Tables |-> "none"] /\ told = [t \in Tables |-> <<>>]
  /\ worker = [w \in Workers |-> Gone] /\ terminated = FALSE /\ listening = FALSE
  /\ aborted = "no" /\ mayBeOff = FALSE /\ undone = "none" /\ outcome = "failed"
  /\ faults = 0

Init ==
  \/ half = "copy" /\ MigrationInit /\ SchemaAtRest
  \/ half = "schema" /\ MigrationOver /\ SyncInit

Next ==
  \/ half = "copy" /\ MigrationNext /\ UNCHANGED <<half, syncVars>>
  \/ half = "schema" /\ SyncNext /\ UNCHANGED <<half, migrationVars>>

vars == <<half, migrationVars, syncVars>>

Spec == Init /\ [][Next]_vars /\ MigrationFairness
=============================================================================
