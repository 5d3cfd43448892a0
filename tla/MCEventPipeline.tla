-------------------------- MODULE MCEventPipeline ---------------------------
(* Small runs for TLC. *)
EXTENDS EventPipeline

\* A run of one table, with a sample the throttle held back until the end.
OneTable == <<"run_started", "log", "table_progress", "log", "table_finished",
              "run_finished", "overall_progress">>
=============================================================================
