------------------------------- MODULE Ledger -------------------------------
(***************************************************************************)
(* The list of runs, paged by keyset: the console shows a first page that  *)
(* is read again while a run is not over, and below it the pages loaded so *)
(* far.  A row's place is its created_at, which PostgreSQL keeps to the    *)
(* microsecond, and its id; a cursor names the last row of a page by what  *)
(* a JavaScript Date can hold of it, the millisecond, and its id.          *)
(***************************************************************************)
EXTENDS Naturals, Sequences, FiniteSets

CONSTANTS
  Ids,        \* run ids, which say nothing about when a run was made
  PageSize,
  Micros,     \* instants of a millisecond that created_at tells apart
  Instants    \* bound: instants the model lasts

ASSUME LedgerAssumption ==
  Ids \subseteq Nat /\ PageSize \in Nat \ {0} /\ Micros \in Nat \ {0} /\ Instants \in Nat

Filters == {"all", "active", "over"}

VARIABLES
  now,      \* the database's clock
  runRows,  \* the rows: [at, id, over]
  filter,   \* the status in the page's URL
  first,    \* what is shown of page one, a sequence of rows
  more,     \* the pages below it
  nextCursor, \* where the next one begins, <<>> if there is none
  fetching, \* the answer to the last request for page one, on its way
  loading,  \* the answer to loadMore, on its way
  base,     \* history: the rows that matched when page one was read
  calm      \* history: since then no other request crossed a loadMore

ledgerVars == <<now, runRows, filter, first, more, nextCursor, fetching, loading, base, calm>>

LedgerInit ==
  /\ now = 0 /\ runRows = {} /\ filter = "all" /\ first = <<>> /\ more = <<>> /\ nextCursor = <<>>
  /\ fetching = <<>> /\ loading = <<>> /\ base = {} /\ calm = TRUE

-----------------------------------------------------------------------------
(* The server.                                                             *)

Matches(r, f) == CASE f = "all" -> TRUE [] f = "active" -> ~ r.over [] f = "over" -> r.over
Newer(r, q) == r.at > q.at \/ (r.at = q.at /\ r.id > q.id)

\* encodeCursor and decodeCursor: toISOString leaves milliseconds.
CursorOf(r) == <<[at |-> (r.at \div Micros) * Micros, id |-> r.id]>>

\* beforeRunCursor.
Before(r, c) == c = <<>> \/ Newer(c[1], r)

\* ORDER BY created_at DESC, id DESC.
Ordered(rows) ==
  CHOOSE order \in [1 .. Cardinality(rows) -> rows] :
    \A i, j \in DOMAIN order : i < j => Newer(order[i], order[j])

\* page: one row more than a page has is asked for.
Newest(f, c) ==
  LET found == {r \in runRows : Matches(r, f) /\ Before(r, c)}
      n     == Cardinality(found)
  IN  SubSeq(Ordered(found), 1, IF n > PageSize THEN PageSize + 1 ELSE n)

\* Mutant: the cursor names the row that proves there is more.
ToPageNamingExtra(found) ==
  IF Len(found) <= PageSize THEN [rows |-> found, next |-> <<>>]
  ELSE [rows |-> SubSeq(found, 1, PageSize), next |-> CursorOf(found[PageSize + 1])]

\* toPage: the cursor names the last row returned.
ToPage(found) ==
  IF Len(found) <= PageSize THEN [rows |-> found, next |-> <<>>]
  ELSE [rows |-> SubSeq(found, 1, PageSize), next |-> CursorOf(found[PageSize])]

Tick == now < Instants /\ now' = now + 1
  /\ UNCHANGED <<runRows, filter, first, more, nextCursor, fetching, loading, base, calm>>

Insert(id) ==
  /\ \A r \in runRows : r.id # id
  /\ runRows' = runRows \cup {[at |-> now, id |-> id, over |-> FALSE]}
  /\ UNCHANGED <<now, filter, first, more, nextCursor, fetching, loading, base, calm>>

RunEnds(r) ==
  /\ ~ r.over /\ runRows' = (runRows \ {r}) \cup {[r EXCEPT !.over = TRUE]}
  /\ UNCHANGED <<now, filter, first, more, nextCursor, fetching, loading, base, calm>>

-----------------------------------------------------------------------------
(* The page.                                                               *)

Shown == first \o more
Fetched(f) == <<[page |-> ToPage(Newest(f, <<>>)), matched |-> {r.id : r \in {q \in runRows : Matches(q, f)}}]>>

\* The page opens, or its timer finds a run that is not over; a request under way is dropped.
Refresh ==
  /\ first = <<>> \/ \E i \in DOMAIN Shown : ~ Shown[i].over
  /\ fetching' = Fetched(filter)
  /\ UNCHANGED <<now, runRows, filter, first, more, nextCursor, loading, base, calm>>

SetStatus(f) ==
  /\ f # filter /\ filter' = f /\ fetching' = Fetched(f) /\ calm' = FALSE
  /\ UNCHANGED <<now, runRows, first, more, nextCursor, loading, base>>

\* watch(data): what was loaded below goes, and the next page is the second again.
ShowFirst ==
  /\ fetching # <<>> /\ fetching' = <<>>
  /\ first' = fetching[1].page.rows /\ nextCursor' = fetching[1].page.next /\ more' = <<>>
  /\ base' = fetching[1].matched /\ calm' = (loading = <<>>)
  /\ UNCHANGED <<now, runRows, filter, loading>>

LoadMore ==
  /\ nextCursor # <<>> /\ loading = <<>>
  /\ loading' = <<ToPage(Newest(filter, nextCursor))>>
  /\ UNCHANGED <<now, runRows, filter, first, more, nextCursor, fetching, base, calm>>

ShowMore ==
  /\ loading # <<>> /\ loading' = <<>>
  /\ more' = more \o loading[1].rows /\ nextCursor' = loading[1].next
  /\ UNCHANGED <<now, runRows, filter, first, fetching, base, calm>>

LedgerNext ==
  \/ Tick \/ Refresh \/ ShowFirst \/ LoadMore \/ ShowMore
  \/ \E id \in Ids : Insert(id)
  \/ \E r \in runRows : RunEnds(r)
  \/ \E f \in Filters : SetStatus(f)

LedgerSpec == LedgerInit /\ [][LedgerNext]_ledgerVars

-----------------------------------------------------------------------------
ShownIds == {Shown[i].id : i \in DOMAIN Shown}

\* The last row of a page, if not of the list.
EndsPage(i) == \E k \in 1 .. i : i = k * PageSize

SameMilli(q, r) == q.at \div Micros = r.at \div Micros
FirstOfMilli(r) == r.at % Micros = 0

\* q's cursor names the first instant of q's millisecond, and r, which is older than q, is of
\* that instant with the greater id or comes after it.
PassedOver(q, r) ==
  /\ Newer(q, r) /\ SameMilli(q, r) /\ ~ FirstOfMilli(q)
  /\ FirstOfMilli(r) => r.id > q.id

\* keyset-cursor.ts and paging.ts: as long as the filter stays and no other request crosses a
\* loadMore, whatever is launched or ends between two pages, no run is shown twice, whenever
\* it was made; and one that matched when page one was read, and still does, is shown or to
\* come, unless it is of the millisecond in which a page above it ended and passed over there.
PagesMeet ==
  calm =>
    /\ Cardinality(ShownIds) = Len(Shown)
    /\ \A r \in runRows :
         r.id \in base /\ Matches(r, filter) /\ r.id \notin ShownIds =>
           \/ nextCursor # <<>> /\ \A i \in DOMAIN Shown : Newer(Shown[i], r)
           \/ \E i \in DOMAIN Shown : EndsPage(i) /\ PassedOver(Shown[i], r)
=============================================================================
