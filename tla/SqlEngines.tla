----------------------------- MODULE SqlEngines -----------------------------
(* What PG, MySQL and MSSQL answer to the statements of a schema's
   synchronisation, as the synchronizers meet it: why one is refused ("needed":
   by a foreign key) and what it does otherwise. *)
EXTENDS SchemaDiff, Naturals

ColumnOf(db, t, n) == CHOOSE c \in db.cols : c.t = t /\ c.n = n
Unkeyable(e, db, t, n) == e # "pg" /\ ColumnOf(db, t, n).type = TypesOf[e][2]

\* The foreign keys that rest on key k: all refer to a column id.
Dependents(db, k) == {f \in Of("fk", db) : f.ref = k.t /\ k.cols = <<"id">>}
\* MySQL: the foreign keys of the table whose only index starts like cols.
Needing(db, i) ==
  {f \in Of("fk", db) : f.t = i.t /\ f.cols[1] = i.cols[1]
     /\ ~\E j \in Physical(db) \cup Of("pk", db) :
           j.t = i.t /\ j.name # i.name /\ j.cols[1] = f.cols[1]}

\* Names that are one for all tables: PG's of indexes, MSSQL's of constraints.
NameTaken(e, db, c) ==
  \/ e = "pg" /\ c.kind # "fk" /\ \E x \in Physical(db) \cup Of("pk", db) : x.name = c.name
  \/ e = "mssql" /\ \E x \in db.cons : x.name = c.name
  \/ e = "mysql" /\ c.kind # "fk" /\ \E x \in Physical(db) : x.t = c.t /\ x.name = c.name

CreateRefused(e, db, tbl) ==
  \/ \E c \in tbl.cons :
       \/ NameTaken(e, db, c)
       \/ e = "mssql" /\ \E x \in tbl.cols : Contains(c.cols, x.n) /\ x.type = TypesOf[e][2]
  \/ e = "mysql" /\ \E x \in tbl.cols : x.auto /\ ~LeadsPrimaryKey(tbl, x)

KeyDropRefusal(e, db, k) ==
  IF Dependents(db, k) # {} \/ (e = "mysql" /\ Needing(db, k) # {}) THEN "needed"
  ELSE IF e = "mysql" /\ k.kind = "pk" /\ ColumnOf(db, k.t, k.cols[1]).auto THEN "other"
  ELSE "none"

IndexDropRefusal(e, db, op, i) ==
  LET there == \E j \in Physical(db) : j.t = i.t /\ j.name = i.name
  IN CASE ~there -> IF op = "drop_index" THEN "other" ELSE "none"
       [] e = "pg" /\ (\E c \in Of("unique", db) : c.name = i.name) -> "other"
       [] e = "mysql" /\ Needing(db, i) # {} -> "needed"
       [] OTHER -> "none"

\* MSSQL keeps a column that anything rests on, MySQL one in a foreign key;
\* PG converts a type only where it can.
ColumnRefused(e, db, op, c) ==
  LET inKey == \E k \in db.cons : k.t = c.t /\ Contains(k.cols, c.n)
      inFk  == \E f \in Of("fk", db) : (f.t = c.t /\ Contains(f.cols, c.n)) \/ (f.ref = c.t /\ c.n = "id")
      inIdx == \E i \in Physical(db) : i.t = c.t /\ Contains(i.cols, c.n)
  IN \/ e = "mssql" /\ (inKey \/ inIdx \/ inFk)
     \/ e = "mysql" /\ inFk
     \/ e = "mysql" /\ op = "alter_column" /\ (inKey \/ inIdx) /\ c.to = TypesOf[e][2]
     \/ e = "pg" /\ op = "alter_column" /\ (inFk \/ (c.from = TypesOf[e][2] /\ c.to = TypesOf[e][1]))

ConstraintRefused(e, db, c) ==
  \/ c.kind = "pk" /\ \E k \in Of("pk", db) : k.t = c.t
  \/ NameTaken(e, db, c)
  \/ c.kind # "fk" /\ \E k \in DOMAIN c.cols : Unkeyable(e, db, c.t, c.cols[k])
  \/ /\ c.kind = "fk"
     /\ \/ ~\E k \in NotFk(db.cons) : k.t = c.ref /\ k.cols[1] = "id" /\ (Len(k.cols) = 1 \/ e = "mysql")
        \/ ColumnOf(db, c.t, c.cols[1]).type # TypesOf[e][1]

\* CREATE INDEX IF NOT EXISTS, on PG.
CreateIndexRefused(e, db, i) ==
  \/ e # "pg" /\ \E j \in Physical(db) : j.t = i.t /\ j.name = i.name
  \/ \E k \in DOMAIN i.cols : Unkeyable(e, db, i.t, i.cols[k])

Refusal(e, db, st) ==
  LET x == st.of
      If(b) == IF b THEN "other" ELSE "none"
  IN CASE st.op = "create_table"    -> If(CreateRefused(e, db, x))
       [] st.op = "drop_constraint" -> IF x.kind = "fk" THEN "none" ELSE KeyDropRefusal(e, db, x)
       [] st.op \in {"drop_index", "drop_index_if_exists"} -> IndexDropRefusal(e, db, st.op, x)
       [] st.op \in {"drop_column", "alter_column"} -> If(ColumnRefused(e, db, st.op, x))
       [] st.op = "add_constraint"  -> If(ConstraintRefused(e, db, x))
       [] st.op = "create_index"    -> If(CreateIndexRefused(e, db, x))
       [] st.op = "drop_table"      -> If(\E f \in Of("fk", db) : f.ref = x.t /\ f.t # x.t)
       [] OTHER -> "none"

\* A column goes with its own constraints and indexes on PG; on MySQL they lose
\* the column, and go when it was their last.
On(x, c) == x.t = c.t /\ Contains(x.cols, c.n)
Shrunk(S, c) ==
  {IF On(x, c) THEN [x EXCEPT !.cols = Remove(@, c.n)] ELSE x : x \in S}
WithoutColumn(e, db, c) ==
  LET kept(S) == IF e = "mysql" THEN {x \in Shrunk(S, c) : x.cols # <<>>} ELSE {x \in S : ~On(x, c)}
  IN [db EXCEPT !.cols = {x \in @ : Column(x) # Column(c)}, !.cons = kept(@), !.idx = kept(@)]

\* MySQL makes an index for a foreign key that has none, named like it, and
\* lets it go when another can serve.
Serves(i, f) == i.t = f.t /\ i.cols[1] = f.cols[1]
FkIndex(f) == [t |-> f.t, name |-> f.name, cols |-> f.cols]
WithConstraint(e, db, c) ==
  LET made == IF /\ e = "mysql" /\ c.kind = "fk"
                 /\ ~\E i \in Physical(db) \cup Of("pk", db) : Serves(i, c)
              THEN {FkIndex(c)} ELSE {}
      idle == IF e = "mysql" /\ c.kind # "fk"
              THEN {FkIndex(f) : f \in {f \in Of("fk", db) : Serves(c, f)}} ELSE {}
  IN [db EXCEPT !.cons = @ \cup {c}, !.idx = (@ \cup made) \ idle]
WithIndex(e, db, i) ==
  IF \E j \in Physical(db) : j.name = i.name /\ (e = "pg" \/ j.t = i.t) THEN db
  ELSE [db EXCEPT !.idx = {i} \cup
          (@ \ {FkIndex(f) : f \in {f \in Of("fk", db) : e = "mysql" /\ Serves(i, f)}})]

\* MODIFY COLUMN says neither NOT NULL nor AUTO_INCREMENT.
Altered(e, c, to) == [c EXCEPT !.type = to, !.auto = @ /\ e # "mysql"]
WithType(e, db, al) ==
  [db EXCEPT !.cols = {IF Column(c) = Column(al) THEN Altered(e, c, al.to) ELSE c : c \in @}]

Effect(e, db, st) ==
  LET x == st.of
  IN CASE st.op = "create_table" -> [db EXCEPT !.tables = @ \cup {x.t}, !.cols = @ \cup x.cols,
                                               !.cons = @ \cup x.cons]
       [] st.op = "drop_constraint" -> [db EXCEPT !.cons = @ \ {x}]
       [] st.op \in {"drop_index", "drop_index_if_exists"} ->
            [db EXCEPT !.idx = {i \in @ : IndexKey(i) # IndexKey(x)}]
       [] st.op = "drop_column" -> WithoutColumn(e, db, x)
       [] st.op = "add_column" -> [db EXCEPT !.cols = @ \cup {x}]
       [] st.op = "alter_column" -> WithType(e, db, x)
       [] st.op = "add_constraint" -> WithConstraint(e, db, x)
       [] st.op = "create_index" -> WithIndex(e, db, x)
       [] OTHER -> [tables |-> db.tables \ {x.t}, cols |-> {c \in db.cols : c.t # x.t},
                    cons |-> {c \in db.cons : c.t # x.t}, idx |-> {i \in db.idx : i.t # x.t}]
=============================================================================
