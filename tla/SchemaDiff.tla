----------------------------- MODULE SchemaDiff -----------------------------
(* packages/core: what a migration reads of two databases, what it finds
   different, and the statements it decides to run: the inspectors, diff() and
   apply() of the three synchronizers and the translation between them.

   A database is a record of sets:
     tables  numbers, in the order of their names
     cols    [t, n, type, auto]; auto: the column numbers itself
     cons    [t, kind: pk, unique or fk, name, cols, ref]
     idx     [t, name, cols]: the indexes no primary or unique key made
   Types are named as the engine that holds the column names them; nullability,
   defaults, lengths, enums and sequences are left out: a diff ignores the first
   three, and creates the last two before anything else. *)
EXTENDS Naturals, Sequences, SequencesExt, FiniteSets

SqlEngineNames == {"pg", "mysql", "mssql"}

\* Two of the types, as each engine names them: one that fits in a key and one
\* that does not, or not whole.
TypesOf == [pg    |-> <<"integer", "text">>,
            mysql |-> <<"int", "longtext">>,
            mssql |-> <<"int", "nvarchar(max)">>]

Column(c) == <<c.t, c.n>>

\* What every engine sees to: a column is of a table, and a table has one of a name.
IsDatabase(db) ==
  /\ DOMAIN db = {"tables", "cols", "cons", "idx"}
  /\ \A part \in DOMAIN db : IsFiniteSet(db[part])
  /\ db.tables \subseteq Nat
  /\ \A c \in db.cols : DOMAIN c = {"t", "n", "type", "auto"} /\ c.t \in db.tables
  /\ \A c \in db.cons : DOMAIN c = {"t", "kind", "name", "cols", "ref"} /\ c.t \in Nat
  /\ \A i \in db.idx : DOMAIN i = {"t", "name", "cols"} /\ i.t \in Nat
  /\ \A c, d \in db.cols : Column(c) = Column(d) => c = d

Of(kind, db) == {c \in db.cons : c.kind = kind}
InOrder(S) ==
  CHOOSE order \in [1 .. Cardinality(S) -> S] :
    \A i, j \in DOMAIN order : i < j => order[i] # order[j] /\ order[i].t <= order[j].t

-----------------------------------------------------------------------------
(* The inspectors. *)

\* pg_index and its like hold an index for every unique key too.
Physical(db) ==
  db.idx \cup {[t |-> c.t, name |-> c.name, cols |-> c.cols] : c \in Of("unique", db)}

\* PG leaves out only the index of the primary key.
PgInspect(db) == [db EXCEPT !.idx = Physical(db)]

NotOfAConstraint(db) ==
  {i \in Physical(db) : \A c \in db.cons : c.t = i.t => c.name # i.name}

\* MySQL and MSSQL leave out the indexes named as a constraint of the table.
MysqlInspect(db) == [db EXCEPT !.idx = NotOfAConstraint(db)]
MssqlInspect(db) == [db EXCEPT !.idx = NotOfAConstraint(db)]

Inspect(e, db) ==
  CASE e = "pg" -> PgInspect(db) [] e = "mysql" -> MysqlInspect(db) [] OTHER -> MssqlInspect(db)

-----------------------------------------------------------------------------
(* diff(source, target). *)

\* Mutant: primary keys matched by name, like the others.
KeyByName(c) == <<c.t, c.name>>

ConstraintKey(c) == IF c.kind = "pk" THEN <<c.t, "pk", c.cols>> ELSE <<c.t, c.name>>

\* Members of S of the tables in T that no member of R has the key of.
Missing(S, R, T, Key(_)) == {x \in S : x.t \in T /\ \A y \in R : Key(y) # Key(x)}

IndexKey(i) == <<i.t, i.name>>

DiffColumns(s, d, T) ==
  [add   |-> Missing(s.cols, d.cols, T, Column),
   drop  |-> Missing(d.cols, s.cols, T, Column),
   alter |-> {[t |-> p[1].t, n |-> p[1].n, to |-> p[1].type, from |-> p[2].type] :
                p \in {q \in s.cols \X d.cols :
                          /\ q[1].t \in T /\ Column(q[1]) = Column(q[2])
                          /\ q[1].type # q[2].type}}]

PgDiff(s, d) ==
  LET both == s.tables \cap d.tables
  IN [create  |-> {[t |-> t, cols |-> {c \in s.cols : c.t = t},
                    cons |-> {c \in s.cons : c.t = t}] : t \in s.tables \ d.tables},
      drop    |-> d.tables \ s.tables,
      cols    |-> DiffColumns(s, d, both),
      addCon  |-> Missing(s.cons, d.cons, both, ConstraintKey),
      dropCon |-> Missing(d.cons, s.cons, both, ConstraintKey),
      newIdx  |-> Missing(s.idx, d.idx, both, IndexKey),
      dropIdx |-> Missing(d.idx, s.idx, both, IndexKey)]

\* The foreign keys and the indexes of new tables too.
WithNewTables(df, s, new) ==
  [df EXCEPT !.addCon = @ \cup {c \in Of("fk", s) : c.t \in new},
             !.newIdx = @ \cup {i \in s.idx : i.t \in new}]

MysqlDiff(s, d) == WithNewTables(PgDiff(s, d), s, s.tables \ d.tables)
MssqlDiff(s, d) == WithNewTables(PgDiff(s, d), s, s.tables \ d.tables)

Diff(e, s, d) ==
  CASE e = "pg" -> PgDiff(s, d) [] e = "mysql" -> MysqlDiff(s, d) [] OTHER -> MssqlDiff(s, d)

-----------------------------------------------------------------------------
(* SyncSchemaUseCase: the diff in the destination's types. *)

TranslateType(from, to, ty) ==
  TypesOf[to][CHOOSE k \in DOMAIN TypesOf[from] : TypesOf[from][k] = ty]

LeadsPrimaryKey(tbl, c) == \E k \in Of("pk", tbl) : k.cols[1] = c.n

\* carryAutoIncrement: MySQL keeps it on the column that leads the primary key,
\* MSSQL on one column (no table here has two), PG on all.
CarryAutoIncrement(tbl, from, to) ==
  IF from # to /\ to = "mysql"
  THEN {[c EXCEPT !.auto = @ /\ LeadsPrimaryKey(tbl, c)] : c \in tbl.cols}
  ELSE tbl.cols

Translate(c, from, to) == [c EXCEPT !.type = TranslateType(from, to, @)]

\* Mutant: every alteration is kept.
AlterAll(al, from, to) == TRUE

\* Across engines, an alteration to the type the column already has is dropped.
RealAlteration(al, from, to) == from = to \/ al.to # al.from

TranslateDiff(df, from, to) ==
  [df EXCEPT
     !.create = {[tbl EXCEPT !.cols = {Translate(c, from, to) :
                                         c \in CarryAutoIncrement(tbl, from, to)}] : tbl \in @},
     !.cols = [add   |-> {Translate([c EXCEPT !.auto = @ /\ (from = to \/ to = "pg")], from, to) :
                            c \in @.add},
               drop  |-> @.drop,
               alter |-> {al \in {[a EXCEPT !.to = TranslateType(from, to, @)] : a \in @.alter} :
                            RealAlteration(al, from, to)}]]

-----------------------------------------------------------------------------
(* apply(): a statement and what its refusal does: the run fails (no), it is
   skipped when an index is needed by a foreign key (needed), or in any case (any). *)

Statements(op, S, spare) ==
  LET order == InOrder(S)
  IN  [k \in DOMAIN order |-> [op |-> op, of |-> order[k], spare |-> spare]]
NotFk(S) == {c \in S : c.kind # "fk"}
IsFk(S) == S \ NotFk(S)

Creates(df) ==
  Statements("create_table", {[tbl EXCEPT !.cons = NotFk(@)] : tbl \in df.create}, "no")

\* What comes after the drops in all three, in the order of the tables' names.
Reshape(df) ==
  Statements("add_column", df.cols.add, "no")
  \o Statements("alter_column", df.cols.alter, "no")
  \o Statements("add_constraint", NotFk(df.addCon), "no")
  \o Statements("drop_table", {[t |-> t] : t \in df.drop}, "no")

AddForeignKeys(df) == Statements("add_constraint", IsFk(df.addCon), "any")

\* PG names <table>_pkey the key that MySQL calls PRIMARY.
PgName(c) == IF c.name = <<"PRIMARY">> THEN [c EXCEPT !.name = <<"pkey", c.t>>] ELSE c

PgNames(df) ==
  [df EXCEPT !.create = {[tbl EXCEPT !.cons = {PgName(c) : c \in @}] : tbl \in @},
             !.addCon = {PgName(c) : c \in @}]

\* Up to the foreign keys, one transaction.
PgApply(df) ==
  Creates(PgNames(df))
  \o Statements("drop_constraint", df.dropCon, "no")
  \o Statements("drop_index_if_exists", df.dropIdx, "no")
  \o Statements("drop_column", df.cols.drop, "no")
  \o Reshape(PgNames(df))
  \o AddForeignKeys(df)

\* The index of a dropped foreign key has its name, and goes too.  Indexes are
\* dropped after all the rest but the new foreign keys.
MysqlApply(df) ==
  Creates(df)
  \o Statements("drop_constraint", df.dropCon, "no")
  \o Statements("drop_column", df.cols.drop, "no")
  \o Reshape(df)
  \o Statements("drop_index", IsFk(df.dropCon), "needed")
  \o Statements("drop_index", df.dropIdx, "needed")
  \o AddForeignKeys(df)

\* Mutant: columns are dropped before the constraints and the indexes on them.
MssqlApplyColumnsFirst(df) ==
  Creates(df)
  \o Statements("drop_column", df.cols.drop, "no")
  \o Statements("drop_constraint", df.dropCon, "no")
  \o Statements("drop_index", df.dropIdx, "no")
  \o Reshape(df)
  \o AddForeignKeys(df)

MssqlApply(df) ==
  Creates(df)
  \o Statements("drop_constraint", df.dropCon, "no")
  \o Statements("drop_index", df.dropIdx, "no")
  \o Statements("drop_column", df.cols.drop, "no")
  \o Reshape(df)
  \o AddForeignKeys(df)

Apply(e, df) ==
  CASE e = "pg" -> PgApply(df) [] e = "mysql" -> MysqlApply(df) [] OTHER -> MssqlApply(df)

\* createIndexes: each is tried, each refusal a warning.
CreateIndexes(df) == Statements("create_index", df.newIdx, "any")
=============================================================================
