------------------------------ MODULE Preview ------------------------------
(***************************************************************************)
(* The review screen: what a preview taken as a run begins says of it.      *)
(* inspect-for-preview.ts reads the two databases as the run does, and      *)
(* build-preview.ts makes the screen of what it read, before the diff is    *)
(* translated (SyncSchemaUseCase) and applied.  Nothing is written, so the  *)
(* preview is a function of the databases as the run finds them.            *)
(***************************************************************************)
EXTENDS SchemaSync

PreviewDiff == Diff(pair.dst, SourceSchema, Inspect(pair.dst, before))

ToEmpty == src.tables \cap before.tables
Extra == before.tables \ src.tables
Disposition(t) ==
  CASE t \in Extra -> "extra" [] t \in ToEmpty -> "load" [] OTHER -> "create"

NewColumns(df) == df.cols.add \cup UNION {tbl.cols : tbl \in df.create}

\* Mutant: the columns the destination has with another type are forgotten.
ConsideredWithoutAlter(df) == {[t |-> c.t, n |-> c.n, type |-> c.type] : c \in NewColumns(df)}

\* The columns collectTypeChanges looks at, with the source's type.
Considered(df) ==
  {[t |-> c.t, n |-> c.n, type |-> c.type] : c \in NewColumns(df)}
  \cup {[t |-> al.t, n |-> al.n, type |-> al.to] : al \in df.cols.alter}

TypeChanges ==
  {Column(c) : c \in {x \in Considered(PreviewDiff) : TranslateType(pair.src, pair.dst, x.type) # x.type}}

Warnings ==
  {w \in {"destination_tables_emptied", "types_translated", "destination_only_tables", "nothing_to_copy"} :
     CASE w = "destination_tables_emptied" -> ToEmpty # {}
       [] w = "types_translated"           -> TypeChanges # {}
       [] w = "destination_only_tables"    -> Extra # {}
       [] w = "nothing_to_copy"            -> src.tables = {}}

-----------------------------------------------------------------------------
Renamed(c) == \E d \in dst.cols : Column(d) = Column(c) /\ d.type # c.type
SpeltAlike(c) == \E s \in src.cols : Column(s) = Column(c) /\ TranslateType(pair.src, pair.dst, s.type) = s.type

\* After a run that went well the destination is what its preview said: the tables to
\* create are the new ones, every column whose type the run changed was named, unless the
\* engines spell its new type alike, and if no warning told of types, each column has the
\* source's.
PreviewForetells ==
  stage = "idle" /\ verdict = "ok" =>
    /\ dst.tables \ before.tables = {t \in src.tables : Disposition(t) = "create"}
    /\ \A c \in before.cols : Renamed(c) => Column(c) \in TypeChanges \/ SpeltAlike(c)
    /\ "types_translated" \notin Warnings =>
         \A s \in src.cols, d \in dst.cols : Column(s) = Column(d) => s.type = d.type

\* build-preview.ts:235-236 of the tables only the destination has: "Movy leaves them
\* untouched".
ExtrasUntouched == stage = "idle" /\ verdict = "ok" => Extra \subseteq dst.tables
=============================================================================
