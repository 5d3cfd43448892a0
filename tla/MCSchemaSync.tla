---------------------------- MODULE MCSchemaSync ----------------------------
EXTENDS Preview

\* A table: its second column (0: none, else its type), its primary key, and
\* which of a unique key (u; v: named alike in both tables), a foreign key to
\* the other table (f) and an index (i; w: named alike) are on that column.
Shape(x, pk, has) == [x |-> x, pk |-> pk, has |-> has]

Columns(e, t, s) ==
  {[t |-> t, n |-> "id", type |-> TypesOf[e][1], auto |-> e # "mysql" \/ s.pk # "none"]}
  \cup {[t |-> t, n |-> "x", type |-> TypesOf[e][s.x], auto |-> FALSE] : k \in {k \in {1} : s.x > 0}}

Con(t, kind, name, cols, ref) == [t |-> t, kind |-> kind, name |-> name, cols |-> cols, ref |-> ref]
Keys(e, t, s) ==
  {Con(t, "pk", IF e = "mysql" THEN <<"PRIMARY">> ELSE <<"pkey", t>>,
       IF s.pk = "id" THEN <<"id">> ELSE <<"id", "x">>, 0) : k \in {k \in {1} : s.pk # "none"}}
  \cup {Con(t, "unique", IF h = "u" THEN <<"u", t>> ELSE <<"v">>, <<"x">>, 0) : h \in s.has \cap {"u", "v"}}
  \cup {Con(t, "fk", <<"f", t>>, <<"x">>, 3 - t) : h \in s.has \cap {"f"}}

Database(e, shapes) ==
  LET T == DOMAIN shapes
      bare == [tables |-> T, cols |-> UNION {Columns(e, t, shapes[t]) : t \in T},
               cons |-> UNION {{k \in Keys(e, t, shapes[t]) : k.kind # "fk"} : t \in T},
               idx |-> {[t |-> t, name |-> <<"i", t>>, cols |-> <<"x">>] :
                          t \in {t \in T : "i" \in shapes[t].has}}
                       \cup {[t |-> t, name |-> <<"w">>, cols |-> <<"x">>] :
                          t \in {t \in T : "w" \in shapes[t].has}}]
      fks == UNION {{k \in Keys(e, t, shapes[t]) : k.kind = "fk"} : t \in T}
  IN FoldSet(LAMBDA f, db : WithConstraint(e, db, f), bare, fks)

Plain == Shape(0, "id", {})
Bare == Shape(1, "none", {})
Wide == Shape(1, "wide", {})
With(has) == Shape(1, "id", has)

\* By the tables' names, and so the order in which they are dropped.
ParentShapes == {Plain, Wide, With({"v"})}
ChildShapes == {Plain, With({"f"}), With({"f", "i"}), With({"u"}), With({"v"}), With({"i"}),
             Shape(2, "id", {"u"}), With({"u", "f"})}
Legal(e, db) ==
  /\ e = "pg" => \A i, j \in Physical(db) : i.name = j.name => i = j
  /\ \A f \in Of("fk", db) : f.ref \in db.tables /\ \E k \in Of("pk", db) : k.t = f.ref /\ (e = "mysql" \/ k.cols = <<"id">>)
  /\ \A t \in db.tables : ~CreateRefused(e, [tables |-> {}, cols |-> {}, idx |-> {i \in Physical(db) : i.t # t},
                               cons |-> {c \in db.cons : c.t # t}],
                      [t |-> t, cols |-> {c \in db.cols : c.t = t}, cons |-> {c \in db.cons : c.t = t}])

Shapes == {<<>>} \cup {<<a>> : a \in {Plain, Bare, With({"i"})}} \cup {<<a, b>> : a \in ParentShapes, b \in ChildShapes}
          \cup {<<With({"f"}), Plain>>, <<With({"w"}), With({"w"})>>}
SomeDatabases == [e \in SqlEngineNames |-> {db \in {Database(e, s) : s \in Shapes} : Legal(e, db)}]
AllPairs == [src : SqlEngineNames, dst : SqlEngineNames]

\* What the theorem on keys and indexes asks of the databases.
ASSUME NamesOfShapes == NamesAgree
=============================================================================
