----------------------------- MODULE MCMigration -----------------------------
(* Small instances of Migration for TLC: three tables. *)
EXTENDS Migration

\* One foreign key; a chain, with a self-reference and a table not migrated; a
\* cycle with a table below it.
Graphs == {{<<3, 1>>}, {<<2, 1>>, <<3, 2>>, <<3, 3>>, <<1, 4>>}, {<<1, 2>>, <<2, 1>>, <<3, 1>>}}

\* Every pair of engines; estimates that are absent, exact, passed or too high.
PairJobs ==
  [src : Engines, dst : Engines, refs : Graphs, rows : {<<2, 0, 1>>},
   est : {<<0, 0, 0>>, <<1, 0, 2>>}, old : BOOLEAN]

\* Every foreign-key graph of three tables of which only the first may refer to itself.
GraphJobs ==
  [src : {"mysql"}, dst : {"mysql"}, refs : SUBSET ((1 .. 3) \X (1 .. 3) \ {<<2, 2>>, <<3, 3>>}),
   rows : {<<0, 0, 0>>}, est : {<<0, 1, 0>>}, old : {FALSE}]

SmallJobs == PairJobs \cup GraphJobs
=============================================================================
