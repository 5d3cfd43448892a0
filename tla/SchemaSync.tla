----------------------------- MODULE SchemaSync -----------------------------
(* packages/core: the schema part of a migration run and of the runs after it:
   compare, apply one statement at a time, load, create the indexes, reset the
   counters, on each pair of engines.

   src and dst are databases as SchemaDiff describes them.  ids follows the
   self-numbering column of table 1: the greatest id and the next one of the
   destination, and the source's. *)
EXTENDS SqlEngines

CONSTANTS
  Pairs,      \* of engines, [src, dst]
  Databases,  \* by engine: what a database of it may hold at first
  MaxTroubles,  \* statements that fail for a reason of the data
  MaxId       \* ids of the source are 0 .. MaxId

ASSUME BoundsAreNat == MaxTroubles \in Nat /\ MaxId \in Nat
ASSUME DatabasesAssumption ==
  \A p \in Pairs : \A db \in Databases[p.src] \cup Databases[p.dst] : IsDatabase(db)

VARIABLES
  pair, src, dst,
  before,   \* dst as the run found it
  stage,    \* idle, apply, load, index, reset
  script,   \* statements still to run
  diff,     \* what the run found different, translated
  ids,      \* [max, next: of the destination, srcNext, seen: of the source]
  clean,    \* runs in a row, at most 2, that had nothing to warn of
  verdict,  \* of the run: none, ok, failed
  marks,    \* of the run: which of fault, warning it has had
  troubles

syncVars == <<pair, src, dst, before, stage, script, diff, ids, clean, verdict, marks, troubles>>

SchemaNow == Inspect(pair.dst, dst)
SourceSchema == Inspect(pair.src, src)
Difference(d) == TranslateDiff(Diff(pair.dst, SourceSchema, d), pair.src, pair.dst)

NoIds == [max |-> 0, next |-> 1, srcNext |-> 1, seen |-> 1]

SyncInit ==
  /\ pair \in Pairs
  /\ src \in Databases[pair.src] /\ dst \in Databases[pair.dst]
  /\ before = dst /\ stage = "idle" /\ script = <<>> /\ diff = Difference(SchemaNow)
  /\ ids = NoIds /\ clean = 0 /\ verdict = "none" /\ marks = {} /\ troubles = 0

\* CompareSchemasUseCase: both are read once, at the start.
StartRun ==
  /\ stage = "idle" /\ clean < 2
  /\ diff' = Difference(SchemaNow)
  /\ script' = Apply(pair.dst, diff')
  /\ before' = dst /\ stage' = "apply" /\ verdict' = "none" /\ marks' = {} /\ ids' = NoIds
  /\ UNCHANGED <<pair, src, dst, clean, troubles>>

-----------------------------------------------------------------------------
(* Statements, one at a time. *)

Trouble == troubles < MaxTroubles /\ troubles' = troubles + 1 /\ marks' = marks \cup {"fault"}

Succeeds ==
  /\ dst' = Effect(pair.dst, dst, Head(script))
  /\ script' = Tail(script)
  /\ UNCHANGED <<stage, clean, verdict, marks, troubles>>

Skipped ==
  /\ script' = Tail(script)
  /\ UNCHANGED <<dst, stage, clean, verdict>>

Failed ==
  /\ verdict' = "failed" /\ stage' = "idle" /\ script' = <<>> /\ clean' = 0

\* Only PG's statements are in a transaction.
RollBack == dst' = IF pair.dst = "pg" THEN before ELSE dst

RefusedFor(why) ==
  IF Head(script).spare \in {"any", why} THEN Skipped ELSE Failed /\ RollBack

RunStatement ==
  /\ stage \in {"apply", "index"} /\ script # <<>>
  /\ LET why == Refusal(pair.dst, dst, Head(script))
     IN \/ why = "none" /\ Succeeds
        \/ why # "none" /\ RefusedFor(why) /\ marks' = marks \cup {"warning"} /\ UNCHANGED troubles
        \/ why = "none" /\ Trouble /\ RefusedFor("other")
  /\ UNCHANGED <<pair, src, before, diff, ids>>

-----------------------------------------------------------------------------
(* The rows and the counter. *)

Numbered(db) == \E c \in db.cols : c.t = 1 /\ c.auto

\* The rows of table 1 come with their ids.  Unless it was emptied for good the
\* counter is where it was; the inserts move it on MySQL and MSSQL.  Only PG's
\* counters may lag behind the ids they numbered; seen is what the run read of
\* the source's when it began.
Load ==
  /\ stage = "apply" /\ script = <<>>
  /\ \/ /\ \E max \in 0 .. MaxId, was, srcNext, seen \in 1 .. MaxId + 1 :
             /\ pair.src = "pg" \/ srcNext > max
             /\ seen <= srcNext
             /\ ids' = IF Numbered(src) /\ Numbered(dst)
                       THEN [max |-> max, srcNext |-> srcNext, seen |-> seen,
                             next |-> IF pair.dst = "pg" THEN was ELSE Max({was, max + 1})]
                       ELSE NoIds
        /\ stage' = "index" /\ script' = CreateIndexes(diff)
        /\ UNCHANGED <<clean, verdict, marks, troubles>>
     \/ Trouble /\ Failed /\ UNCHANGED ids
  /\ UNCHANGED <<pair, src, dst, before, diff>>

\* Mutant: the source's counter as it is.
PgCopyCounter(i) == {i.srcNext}

\* The greatest of the rows, the START and, for a sequence the source has, its
\* counter.
PgReset(i) ==
  {Max({i.max + 1, 1} \cup f) : f \in IF pair.src = "pg" THEN {{}, {i.srcNext}} ELSE {{}}}

\* The source's AUTO_INCREMENT as the run read it; the engine keeps it above the ids.
MysqlReset(i) ==
  {IF pair.src = "mysql" /\ i.seen > 1 THEN Max({i.seen, i.max + 1}) ELSE i.next}

MssqlReset(i) == {IF i.max > 0 THEN i.max + 1 ELSE i.next}

\* A counter that cannot be read or set is warned of; PG then falls back on
\* setval(last_value, true) of the source.
Unreset(i) ==
  {i.next} \cup (IF pair = [src |-> "pg", dst |-> "pg"] THEN {i.srcNext, i.srcNext + 1} ELSE {})

ResetSequences ==
  /\ stage = "index" /\ script = <<>>
  /\ \/ /\ \E n \in IF ids = NoIds THEN {1} ELSE
                     CASE pair.dst = "pg" -> PgReset(ids) [] pair.dst = "mysql" -> MysqlReset(ids)
                       [] OTHER -> MssqlReset(ids) :
             ids' = [ids EXCEPT !.next = n]
        /\ UNCHANGED <<marks, troubles>>
     \/ /\ ids # NoIds /\ Trouble
        /\ \E n \in Unreset(ids) : ids' = [ids EXCEPT !.next = n]
  /\ verdict' = "ok" /\ stage' = "idle"
  /\ clean' = IF marks' = {} THEN clean + 1 ELSE 0
  /\ UNCHANGED <<pair, src, dst, before, script, diff>>

SyncNext == StartRun \/ RunStatement \/ Load \/ ResetSequences
SyncSpec == SyncInit /\ [][SyncNext]_syncVars

-----------------------------------------------------------------------------
(* Properties. *)

\* Two runs in a row with nothing to warn of leave nothing for a third to do, whatever was
\* there before and wherever an earlier run broke off; but PG's CREATE INDEX IF NOT EXISTS
\* is silent of an index it does not make, another table having one of that name.
Converges ==
  stage = "idle" /\ clean = 2 =>
    LET left == Difference(SchemaNow)
    IN  /\ Apply(pair.dst, left) = <<>>
        /\ \A i \in left.newIdx : pair.dst = "pg" /\ \E j \in dst.idx : j.name = i.name /\ j.t # i.t

Holdings(db) ==
  [tables |-> db.tables, cols |-> {Column(c) : c \in db.cols},
   keys |-> {IF c.kind = "pk" THEN <<c.t, "pk", c.cols>> ELSE <<c.t, c.name>> : c \in db.cons},
   idx |-> {IndexKey(i) : i \in db.idx}]

\* At no statement, and so wherever a run stops, does the destination lack a
\* table, column, key or index that it had and that the source has.
KeepsShared ==
  LET had == Holdings(Inspect(pair.dst, before))
      has == Holdings(SchemaNow)
      src_ == Holdings(SourceSchema)
  IN \A part \in DOMAIN had : had[part] \cap src_[part] \subseteq has[part]

\* Names are of the same on both sides, which the diffs take for granted.  A source as
\* it is reported: keys and indexes are of columns that are there, two of a table have
\* different names, but for the index of a unique key.
Legible(s) ==
  /\ \A k \in s.cons \cup s.idx :
       /\ k.t \in s.tables /\ k.cols # <<>>
       /\ \A m \in 1 .. Len(k.cols) : \E c \in s.cols : Column(c) = <<k.t, k.cols[m]>>
  /\ \A k, l \in s.cons : k.kind # "pk" /\ l.kind # "pk" /\ IndexKey(k) = IndexKey(l) => k = l
  /\ \A i, j \in s.idx : IndexKey(i) = IndexKey(j) => i = j
  /\ \A i \in s.idx, k \in s.cons : IndexKey(i) = IndexKey(k) => k.kind = "unique"
  /\ \A k \in s.cons : k.name = <<"PRIMARY">> => k.kind = "pk"

\* A destination and it.
Agrees(s, d) ==
  /\ \A x \in d.cons, y \in s.cons :
       x.kind # "pk" /\ y.kind # "pk" /\ IndexKey(x) = IndexKey(y) => x.kind = y.kind /\ x.cols = y.cols
  /\ \A i \in d.idx, j \in s.idx : IndexKey(i) = IndexKey(j) => i.cols = j.cols
  /\ \A i \in d.idx, y \in Of("unique", s) : IndexKey(i) # IndexKey(y)
  /\ \A u \in Of("unique", d), j \in s.idx :
       IndexKey(u) = IndexKey(j) => \E y \in Of("unique", s) : IndexKey(y) = IndexKey(u)

NamesAgree ==
  \A p \in Pairs : \A s \in Databases[p.src], d \in Databases[p.dst] :
    Legible(Inspect(p.src, s)) /\ Agrees(Inspect(p.src, s), d)

\* Why a run can be refused though nothing goes wrong: what a run began with.
Dropped(S) == {x \in S : x.t \in src.tables /\ \A y \in SourceSchema.cons : ConstraintKey(y) # ConstraintKey(x)}
LostColumns == Missing(before.cols, src.cols, src.tables, Column)
NewTables == src.tables \ before.tables
\* a key is replaced while a foreign key rests on it,
KeyInUse ==
  \E k \in Dropped(NotFk(before.cons)) :
    \/ Dependents(before, k) # {}
    \/ pair.dst = "mysql" /\ (k.kind = "pk" \/ \E f \in Of("fk", before) : Serves(k, f))
\* a table goes before the one that refers to it: names decide, not references,
TableInUse ==
  \E f \in Of("fk", before) : {f.t, f.ref} \cap src.tables = {} /\ f.ref < f.t
\* PG: the other engines do not report the index of a unique key, and it is
\* dropped though the key stays,
IndexOfKey ==
  /\ pair.dst = "pg" /\ pair.src # "pg"
  /\ \E u \in Of("unique", before), c \in src.cons : ConstraintKey(c) = ConstraintKey(u)
\* MySQL: the index went with its column, or the foreign key had none of its own,
NoSuchIndex ==
  /\ pair.dst = "mysql"
  /\ \/ \E c \in LostColumns : \E i \in before.idx : i.t = c.t /\ i.cols = <<c.n>>
     \/ \E f \in Dropped(Of("fk", before)) : FkIndex(f) \notin before.idx
\* two tables use a name that the destination wants once,
SameName ==
  /\ pair.dst # "mysql"
  /\ \E c \in src.cons, x \in src.cons \cup before.cons : c.t # x.t /\ c.name = x.name
\* a long text is in a key,
LongKey ==
  pair.dst # "pg" /\ \E c \in src.cols : c.type = TypesOf[pair.src][2] /\
     \E k \in NotFk(src.cons) : k.t = c.t /\ Contains(k.cols, c.n)
\* a column changes its type.
Retyped == diff.cols.alter # {}

\* A run is refused for one of these, or because something failed.
ExplainedRefusal ==
  verdict = "failed" /\ "fault" \notin marks =>
     KeyInUse \/ TableInUse \/ IndexOfKey \/ NoSuchIndex \/ SameName \/ LongKey \/ Retyped

\* After a run that met no failure, an insert without an id gets a free one.
NextIdFree ==
  stage = "idle" /\ verdict = "ok" /\ "fault" \notin marks => ids.next > ids.max
=============================================================================
