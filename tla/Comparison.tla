----------------------------- MODULE Comparison -----------------------------
(***************************************************************************)
(* A row-count comparison of two databases: the handler inserts a row,     *)
(* lists the tables of both sides, counts them one by one, source first,   *)
(* and settles the row with its counts in one transaction.  A statement    *)
(* may fail, its answer may be lost, the process may die, and somebody may *)
(* write to either database in the meantime.                               *)
(***************************************************************************)
EXTENDS Integers, FiniteSets, FiniteSetsExt

CONSTANTS
  Table,
  MaxRows,            \* bound: rows of a table
  MaxWrites,          \* bound: writes by others during the comparison
  MaxStoreFaults      \* statements that fail, and the death of the process

ASSUME ComparisonAssumption ==
  IsFiniteSet(Table) /\ MaxRows \in Nat /\ MaxWrites \in Nat /\ MaxStoreFaults \in Nat

Absent == -1   \* no such table

VARIABLES
  src, dst,    \* rows of each table on either side
  phase,       \* what the handler is at
  listed,      \* tables of the source, and of the destination, when they were listed
  counted,     \* tables counted so far, with both counts
  half,        \* the count of a source table whose destination is counted next
  status,      \* validation_runs.status
  summary,     \* its answer, <<>> or <<record>>
  stored,      \* the rows of validation_table_counts
  writes, mishaps

comparisonVars == <<src, dst, phase, listed, counted, half, status, summary, stored, writes, mishaps>>

Counts == [Table -> Absent .. MaxRows]
Tables(side) == {t \in Table : side[t] # Absent}
Rows(side, t) == IF side[t] = Absent THEN 0 ELSE side[t]

ComparisonInit ==
  /\ src \in Counts /\ dst \in Counts
  /\ phase = "none" /\ listed = <<{}, {}>> /\ counted = <<>> /\ half = <<>>
  /\ status = "none" /\ summary = <<>> /\ stored = <<>> /\ writes = 0 /\ mishaps = 0

\* validations.create: the row comes before the counting.
Create ==
  /\ phase = "none" /\ phase' = "listing" /\ status' = "running"
  /\ UNCHANGED <<src, dst, listed, counted, half, summary, stored, writes, mishaps>>

\* getTableNames, of one side and then of the other; both before the first count.
ListSource ==
  /\ phase = "listing" /\ phase' = "listed" /\ listed' = [listed EXCEPT ![1] = Tables(src)]
  /\ UNCHANGED <<src, dst, counted, half, status, summary, stored, writes, mishaps>>

ListDestination ==
  /\ phase = "listed" /\ phase' = "counting" /\ listed' = [listed EXCEPT ![2] = Tables(dst)]
  /\ UNCHANGED <<src, dst, counted, half, status, summary, stored, writes, mishaps>>

\* getExactCount of the source; a table that was dropped since it was listed is an error.
CountSource ==
  /\ phase = "counting" /\ half = <<>>
  /\ \E t \in listed[1] \ DOMAIN counted :
       IF src[t] = Absent THEN phase' = "failing" /\ UNCHANGED half
                          ELSE half' = <<t, src[t]>> /\ UNCHANGED phase
  /\ UNCHANGED <<src, dst, listed, counted, status, summary, stored, writes, mishaps>>

\* A table the destination did not list counts as empty.
DestinationCount(t) == IF t \in listed[2] THEN dst[t] ELSE 0

CountDestination ==
  /\ phase = "counting" /\ half # <<>> /\ half' = <<>>
  /\ IF DestinationCount(half[1]) = Absent
     THEN phase' = "failing" /\ UNCHANGED counted
     ELSE /\ UNCHANGED phase
          /\ counted' = [t \in DOMAIN counted \cup {half[1]} |->
                           IF t = half[1] THEN [source |-> half[2], dest |-> DestinationCount(t)] ELSE counted[t]]
  /\ UNCHANGED <<src, dst, listed, status, summary, stored, writes, mishaps>>

\* The share of a table's rows found; more rows than the source has are more than 100.
MatchPct(source, dest) ==
  IF source = 0 THEN IF dest = 0 THEN 100 ELSE 0 ELSE (100 * dest) \div source

AtMost(n, bound) == IF n < bound THEN n ELSE bound

\* The answer of ValidateCountsUseCase over what was counted; a source without tables matches.
Summary(counts) ==
  LET tables == DOMAIN counts
      totalSource == MapThenSumSet(LAMBDA t : counts[t].source, tables)
      totalDest == MapThenSumSet(LAMBDA t : counts[t].dest, tables)
      Matched(t) == MatchPct(counts[t].source, counts[t].dest) >= 100
  IN  [allMatch |-> \A t \in tables : Matched(t),
       totalMatchPct |-> AtMost(IF totalSource = 0 THEN IF totalDest = 0 THEN 100 ELSE 0
                                                  ELSE (100 * totalDest) \div totalSource, 100),
       tablesMismatched |-> Cardinality({t \in tables : ~ Matched(t)})]

\* Mutant: two statements, the first of which may be the last.
SettleApart == status' = "succeeded" /\ summary' = <<Summary(counted)>> /\ stored' \in {counted, stored}

\* complete: the counts and the status, in one transaction.
Settle == status' = "succeeded" /\ summary' = <<Summary(counted)>> /\ stored' = counted

Complete ==
  /\ phase = "counting" /\ half = <<>> /\ DOMAIN counted = listed[1]
  /\ Settle
  /\ \/ phase' = "answered" /\ UNCHANGED mishaps
     \/ phase' = "failing" /\ mishaps < MaxStoreFaults /\ mishaps' = mishaps + 1  \* its answer is lost
  /\ UNCHANGED <<src, dst, listed, counted, half, writes>>

\* A connection, a list, a count or the transaction fails.
Fails ==
  /\ phase \in {"listing", "listed", "counting"} /\ phase' = "failing"
  /\ mishaps < MaxStoreFaults /\ mishaps' = mishaps + 1
  /\ UNCHANGED <<src, dst, listed, counted, half, status, summary, stored, writes>>

\* fail: whatever the row says; it may fail too, and the row stays as it is.
RecordFailure ==
  /\ phase = "failing" /\ phase' = "answered"
  /\ \/ status' = "failed" /\ UNCHANGED mishaps
     \/ UNCHANGED status /\ mishaps < MaxStoreFaults /\ mishaps' = mishaps + 1
  /\ UNCHANGED <<src, dst, listed, counted, half, summary, stored, writes>>

ComparisonDies ==
  /\ phase \in {"listing", "listed", "counting", "failing"} /\ phase' = "dead"
  /\ mishaps < MaxStoreFaults /\ mishaps' = mishaps + 1
  /\ UNCHANGED <<src, dst, listed, counted, half, status, summary, stored, writes>>

\* A run or an application writes to a database that is being compared, or drops
\* or creates a table there.
Write ==
  /\ phase \in {"listing", "listed", "counting"} /\ writes < MaxWrites /\ writes' = writes + 1
  /\ \E t \in Table, n \in Absent .. MaxRows :
       \/ src' = [src EXCEPT ![t] = n] /\ UNCHANGED dst
       \/ dst' = [dst EXCEPT ![t] = n] /\ UNCHANGED src
  /\ UNCHANGED <<phase, listed, counted, half, status, summary, stored, mishaps>>

ComparisonNext ==
  \/ Create \/ ListSource \/ ListDestination \/ CountSource \/ CountDestination \/ Complete
  \/ Fails \/ RecordFailure \/ ComparisonDies \/ Write

ComparisonSpec == ComparisonInit /\ [][ComparisonNext]_comparisonVars

-----------------------------------------------------------------------------
\* A comparison that says it succeeded has the counts of every table it listed in
\* the source, whatever failed or died (repositories/validations.repo.ts, complete).
SucceededHasCounts == status = "succeeded" => DOMAIN stored = listed[1]

\* "All matched" is no false all-clear: its totals and its tables say the same, and
\* where nobody wrote meanwhile no table of the source has more rows than its
\* destination, nor an empty one any.
AllMatchedIsTrue ==
  status = "succeeded" /\ summary[1].allMatch =>
    /\ summary[1].totalMatchPct = 100 /\ summary[1].tablesMismatched = 0
    /\ writes = 0 => \A t \in Tables(src) : /\ Rows(dst, t) >= src[t]
                                            /\ src[t] = 0 => Rows(dst, t) = 0

\* What the page of a comparison shows can be believed.
StoredCountsAreTrue == SucceededHasCounts /\ AllMatchedIsTrue
=============================================================================
