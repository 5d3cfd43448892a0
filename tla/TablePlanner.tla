---------------------------- MODULE TablePlanner ----------------------------
(* packages/core: the order in which tables are loaded and cleared.  A table
   is a number, its place in the alphabetical order of names; refs is the set
   of pairs <<child, parent>> of the foreign keys, which may name tables that
   are not migrated. *)
EXTENDS Naturals, Sequences, SequencesExt, FiniteSets

\* The tables that have to be loaded before t: not t itself, not a stranger.
Parents(tables, refs, t) == {p \in tables \ {t} : <<t, p>> \in refs}

\* Mutant: a table that refers to itself waits for itself.
VisitedSelf(tables, refs) ==
  LET visited[n \in 0 .. Cardinality(tables)] ==
        IF n = 0 THEN {}
        ELSE {t \in tables : {p \in tables : <<t, p>> \in refs} \subseteq visited[n - 1]}
  IN  visited

\* The tables of the first n levels.
Visited(tables, refs) ==
  LET visited[n \in 0 .. Cardinality(tables)] ==
        IF n = 0 THEN {}
        ELSE {t \in tables : Parents(tables, refs, t) \subseteq visited[n - 1]}
  IN  visited

\* A level after the other; in it larger estimates first, then by name.
Precedes(level, est, a, b) ==
  \/ level[a] < level[b]
  \/ level[a] = level[b] /\ est[a] > est[b]
  \/ level[a] = level[b] /\ est[a] = est[b] /\ a < b

SortTables(names, level, est) ==
  CHOOSE order \in [1 .. Cardinality(names) -> names] :
    \A i, j \in DOMAIN order : i < j => Precedes(level, est, order[i], order[j])

\* A table is on the level after those in which it is not visited, and what no level
\* visits is the last one.
Plan(tables, refs, est) ==
  LET visited == Visited(tables, refs)
      n       == Cardinality(tables)
      level   == [t \in tables |-> Cardinality({k \in 0 .. n : t \notin visited[k]})]
      order   == SortTables(tables, level, est)
  IN  [loadOrder |-> order, cleanupOrder |-> Reverse(order), cyclicTables |-> tables \ visited[n]]

-----------------------------------------------------------------------------
\* For the properties: the tables t depends on, through other tables or not.
Ancestors(tables, refs, t) ==
  LET up[n \in 0 .. Cardinality(tables)] ==
        IF n = 0 THEN Parents(tables, refs, t)
        ELSE up[n - 1] \cup UNION {Parents(tables, refs, p) : p \in up[n - 1]}
  IN  up[Cardinality(tables)]

\* The tables that no order can satisfy: on a cycle of several tables, or
\* below one.
Unordered(tables, refs) ==
  {t \in tables : \E p \in Ancestors(tables, refs, t) \cup {t} :
                     p \in Ancestors(tables, refs, p)}

Place(order, t) == CHOOSE i \in DOMAIN order : order[i] = t
=============================================================================
