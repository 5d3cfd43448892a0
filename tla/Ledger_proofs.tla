---------------------------- MODULE Ledger_proofs ----------------------------
(***************************************************************************)
(* Proofs about the list of runs: its pages meet, whatever is launched and *)
(* whatever ends between two of them.                                      *)
(***************************************************************************)
EXTENDS Ledger, FiniteSetTheorems, FunctionTheorems, SequenceTheorems, TLAPS

Rows == [at : Nat, id : Ids, over : BOOLEAN]

-----------------------------------------------------------------------------
(***************************************************************************)
(* The order of the list.                                                  *)
(***************************************************************************)

\* Each row is before or after each other, unless they are one run's.
LEMMA NewerOrders ==
  ASSUME NEW r \in Rows, NEW q \in Rows
  PROVE  /\ ~ Newer(r, r)
         /\ Newer(r, q) => ~ Newer(q, r) /\ r # q
         /\ r.id # q.id => Newer(r, q) \/ Newer(q, r)
         /\ \A p \in Rows : Newer(r, q) /\ Newer(q, p) => Newer(r, p)
<1>1. \A p \in Rows : p.at \in Nat /\ p.id \in Nat
  BY LedgerAssumption DEF Rows
<1>2. r.at \in Nat /\ r.id \in Nat /\ q.at \in Nat /\ q.id \in Nat
  BY <1>1
<1>3. ~ Newer(r, r) /\ (Newer(r, q) => ~ Newer(q, r)) /\ (r.id # q.id => Newer(r, q) \/ Newer(q, r))
  BY <1>2 DEF Newer
<1>4. \A p \in Rows : Newer(r, q) /\ Newer(q, p) => Newer(r, p)
  BY <1>1, <1>2 DEF Newer
<1> QED BY <1>3, <1>4

\* A set of rows in which each run has one.
Listing(S) == S \in SUBSET Rows /\ IsFiniteSet(S) /\ \A r, q \in S : r.id = q.id => r = q

\* The rows of S that come no later than a.
Upto(S, a) == {c \in S : c = a \/ Newer(c, a)}

\* The newer of two rows has the smaller rank.
LEMMA RankGrows ==
  ASSUME NEW S, Listing(S), NEW a \in S, NEW b \in S, Newer(a, b)
  PROVE  /\ Cardinality(Upto(S, a)) \in 1 .. Cardinality(S)
         /\ Cardinality(Upto(S, b)) \in 1 .. Cardinality(S)
         /\ Cardinality(Upto(S, a)) < Cardinality(Upto(S, b))
<1> DEFINE A == Upto(S, a)
           B == Upto(S, b)
<1>0. S \in SUBSET Rows /\ IsFiniteSet(S)
  BY DEF Listing
<1>1. A \subseteq B /\ b \in B /\ b \notin A /\ a \in A /\ A \in SUBSET S /\ B \in SUBSET S
  <2>1. A \in SUBSET S /\ B \in SUBSET S /\ b \in B /\ a \in A
    BY DEF Upto
  <2>2. \A c \in S : c = a \/ Newer(c, a) => c = b \/ Newer(c, b)
    BY <1>0, NewerOrders
  <2>3. A \subseteq B
    BY <2>2 DEF Upto
  <2>4. ~ (b = a \/ Newer(b, a))
    BY <1>0, NewerOrders
  <2>5. b \notin A
    BY <2>4 DEF Upto
  <2> QED BY <2>1, <2>3, <2>5
<1> HIDE DEF A, B
<1>2. IsFiniteSet(A) /\ IsFiniteSet(B) /\ Cardinality(A) <= Cardinality(S) /\ Cardinality(B) <= Cardinality(S)
  BY <1>0, <1>1, FS_Subset
<1>3. Cardinality(A) <= Cardinality(B) /\ Cardinality(A) # Cardinality(B)
  BY <1>1, <1>2, FS_Subset
<1>4. Cardinality(A) \in Nat /\ Cardinality(B) \in Nat /\ Cardinality(S) \in Nat
  BY <1>0, <1>2, FS_CardinalityType
<1>5. Cardinality(A) # 0 /\ Cardinality(B) # 0
  BY <1>1, <1>2, FS_EmptySet
<1>6. Cardinality(A) \in 1 .. Cardinality(S) /\ Cardinality(B) \in 1 .. Cardinality(S) /\ Cardinality(A) < Cardinality(B)
  BY <1>2, <1>3, <1>4, <1>5
<1> QED BY <1>6 DEF A, B

\* Every set of rows can be put in order, and then has each of them once.
LEMMA OrderedOnce ==
  ASSUME NEW S, Listing(S)
  PROVE  /\ Ordered(S) \in [1 .. Cardinality(S) -> S]
         /\ \A i, j \in 1 .. Cardinality(S) : i < j => Newer(Ordered(S)[i], Ordered(S)[j])
         /\ \A r \in S : \E i \in 1 .. Cardinality(S) : Ordered(S)[i] = r
<1> DEFINE n == Cardinality(S)
           rank == [a \in S |-> Cardinality(Upto(S, a))]
           Descends(order) == \A i, j \in DOMAIN order : i < j => Newer(order[i], order[j])
<1>0. n \in Nat /\ IsFiniteSet(1 .. n) /\ Cardinality(1 .. n) = n /\ IsFiniteSet(S) /\ S \in SUBSET Rows
  <2>1. IsFiniteSet(S) /\ S \in SUBSET Rows
    BY DEF Listing
  <2>2. n \in Nat
    BY <2>1, FS_CardinalityType
  <2> HIDE DEF n
  <2>3. IsFiniteSet(1 .. n) /\ Cardinality(1 .. n) = n
    BY <2>2, FS_Interval
  <2> QED BY <2>1, <2>2, <2>3
<1>1. rank \in [S -> 1 .. n]
  <2> SUFFICES ASSUME NEW a \in S PROVE Cardinality(Upto(S, a)) \in 1 .. n
    OBVIOUS
  <2> DEFINE A == Upto(S, a)
  <2>1. A \in SUBSET S /\ a \in A
    BY DEF Upto
  <2> HIDE DEF A
  <2>2. IsFiniteSet(A) /\ Cardinality(A) <= n /\ Cardinality(A) \in Nat /\ Cardinality(A) # 0
    BY <1>0, <2>1, FS_Subset, FS_CardinalityType, FS_EmptySet
  <2>3. Cardinality(A) \in 1 .. n
    BY <1>0, <2>2
  <2> QED BY <2>3 DEF A
<1>a. \A a, b \in S : a # b => Newer(a, b) \/ Newer(b, a)
  BY <1>0, NewerOrders DEF Listing
<1>2. \A a, b \in S : a # b => rank[a] # rank[b]
  <2> SUFFICES ASSUME NEW a \in S, NEW b \in S, a # b PROVE rank[a] # rank[b]
    OBVIOUS
  <2>1. CASE Newer(a, b)
    BY <2>1, RankGrows, <1>0, <1>1
  <2>2. CASE Newer(b, a)
    BY <2>2, RankGrows, <1>0, <1>1
  <2> QED BY <2>1, <2>2, <1>a
<1>3. \A i \in 1 .. n : \E a \in S : rank[a] = i
  <2> HIDE DEF rank
  <2>1. rank \in Injection(S, 1 .. n)
    BY <1>1, <1>2 DEF Injection, IsInjective
  <2>2. Cardinality(S) = Cardinality(1 .. n)
    BY <1>0
  <2>3. rank \in Surjection(S, 1 .. n)
    BY <1>0, <2>1, <2>2, FS_Injection
  <2> QED BY <2>3 DEF Surjection
<1> DEFINE order == [i \in 1 .. n |-> CHOOSE a \in S : rank[a] = i]
<1>4. order \in [1 .. n -> S] /\ \A i \in 1 .. n : rank[order[i]] = i
  <2> HIDE DEF rank
  <2> QED BY <1>3
<1>5. Descends(order)
  <2> SUFFICES ASSUME NEW i \in 1 .. n, NEW j \in 1 .. n, i < j
               PROVE  Newer(order[i], order[j])
    OBVIOUS
  <2>1. order[i] \in S /\ order[j] \in S /\ rank[order[i]] = i /\ rank[order[j]] = j
    BY <1>4
  <2> HIDE DEF order
  <2>2. order[i] # order[j]
    BY <2>1, <1>0
  <2>3. CASE Newer(order[j], order[i])
    <3>1. rank[order[j]] < rank[order[i]]
      BY <2>1, <2>3, RankGrows
    <3> QED BY <2>1, <3>1, <1>0
  <2> QED BY <2>1, <2>2, <2>3, <1>a
<1> DEFINE s == Ordered(S)
<1>6. s \in [1 .. n -> S] /\ Descends(s)
  <2>1. s = CHOOSE o \in [1 .. n -> S] : Descends(o)
    BY DEF Ordered
  <2> HIDE DEF order, s, Descends
  <2> QED BY <1>4, <1>5, <2>1
<1> HIDE DEF s
<1>7. \A i, j \in 1 .. n : i < j => Newer(s[i], s[j])
  BY <1>6
<1>8. \A i, j \in 1 .. n : i # j => s[i] # s[j]
  <2> SUFFICES ASSUME NEW i \in 1 .. n, NEW j \in 1 .. n, i < j PROVE s[i] # s[j]
    BY <1>0
  <2> QED BY <1>0, <1>6, <1>7, NewerOrders
<1>9. \A r \in S : \E i \in 1 .. n : s[i] = r
  <2>1. s \in Injection(1 .. n, S)
    BY <1>6, <1>8 DEF Injection, IsInjective
  <2>2. s \in Surjection(1 .. n, S)
    BY <1>0, <2>1, FS_Injection
  <2> QED BY <2>2 DEF Surjection
<1> QED BY <1>6, <1>7, <1>9 DEF s

-----------------------------------------------------------------------------
(***************************************************************************)
(* A page of the server.                                                   *)
(***************************************************************************)

\* The page of the rows S: in their order, and what it leaves out is older than all of it
\* and announced by a cursor, which only a full page has.
PageOf(S, page) ==
  /\ page.rows \in Seq(Rows)
  /\ \A i \in 1 .. Len(page.rows) : page.rows[i] \in S
  /\ \A i, j \in 1 .. Len(page.rows) : i < j => Newer(page.rows[i], page.rows[j])
  /\ page.next # <<>> => Len(page.rows) = PageSize /\ page.next = CursorOf(page.rows[PageSize])
  /\ \A r \in S : (\A i \in 1 .. Len(page.rows) : page.rows[i] # r) =>
       page.next # <<>> /\ \A i \in 1 .. Len(page.rows) : Newer(page.rows[i], r)

\* A row more than the page holds is enough to tell.
LEMMA PageOfRows ==
  ASSUME NEW S, Listing(S)
  PROVE  LET n == Cardinality(S)
         IN  PageOf(S, ToPage(SubSeq(Ordered(S), 1, IF n > PageSize THEN PageSize + 1 ELSE n)))
<1> DEFINE n == Cardinality(S)
           s == Ordered(S)
           m == IF n > PageSize THEN PageSize + 1 ELSE n
           found == SubSeq(s, 1, m)
           page == ToPage(found)
<1>1. n \in Nat /\ S \in SUBSET Rows /\ PageSize \in Nat /\ PageSize > 0
  BY FS_CardinalityType, LedgerAssumption DEF Listing
<1>2. /\ s \in [1 .. n -> S]
      /\ \A i, j \in 1 .. n : i < j => Newer(s[i], s[j])
      /\ \A r \in S : \E i \in 1 .. n : s[i] = r
  BY OrderedOnce
<1> HIDE DEF n, s
<1>3. m \in Nat /\ m <= n /\ m <= PageSize + 1
  BY <1>1
<1>4. \A i \in 1 .. m : s[i] \in Rows
  BY <1>1, <1>2, <1>3
<1>5. found \in Seq(Rows) /\ Len(found) = m /\ \A i \in 1 .. m : found[i] = s[i]
  <2>1. m \in Int /\ 1 \in Int
    BY <1>3
  <2> HIDE DEF m
  <2>2. /\ found \in Seq(Rows)
        /\ Len(found) = IF 1 <= m THEN m - 1 + 1 ELSE 0
        /\ \A i \in 1 .. m - 1 + 1 : found[i] = s[1 + i - 1]
    BY <2>1, <1>4, SubSeqProperties
  <2> HIDE DEF found
  <2>3. Len(found) = m
    BY <1>3, <2>2
  <2>4. ASSUME NEW i \in 1 .. m PROVE found[i] = s[i]
    <3>1. i \in 1 .. m - 1 + 1 /\ 1 + i - 1 = i
      BY <1>3
    <3> QED BY <2>2, <3>1
  <2> QED BY <2>2, <2>3, <2>4
<1>6. CASE n <= PageSize
  <2>1. m = n
    BY <1>1, <1>6
  <2> HIDE DEF found, m
  <2>2. page = [rows |-> found, next |-> <<>>]
    BY <1>5, <1>6, <2>1 DEF ToPage
  <2>3. page.rows = found /\ page.next = <<>>
    BY <2>2
  <2> HIDE DEF page
  <2>4. \A r \in S : \E i \in 1 .. Len(found) : found[i] = r
    BY <1>2, <1>5, <2>1
  <2>5. /\ \A i \in 1 .. Len(found) : found[i] \in S
        /\ \A i, j \in 1 .. Len(found) : i < j => Newer(found[i], found[j])
    BY <1>2, <1>5, <2>1
  <2>6. PageOf(S, page)
    BY <1>5, <2>3, <2>4, <2>5 DEF PageOf
  <2> QED BY <2>6 DEF page, found, m, n, s
<1>7. CASE ~ n <= PageSize
  <2> DEFINE rows == SubSeq(found, 1, PageSize)
  <2>1. m = PageSize + 1
    BY <1>1, <1>7
  <2>2. Len(found) > PageSize
    BY <1>1, <1>5, <2>1
  <2>3. page = [rows |-> rows, next |-> CursorOf(found[PageSize])]
    <3> HIDE DEF found
    <3> QED BY <2>2, <1>1, <1>5, <2>1 DEF ToPage
  <2> HIDE DEF found, m, page
  <2>4. page.rows = rows /\ page.next = CursorOf(found[PageSize])
    <3> DEFINE c == CursorOf(found[PageSize])
    <3>1. page = [rows |-> rows, next |-> c]
      BY <2>3
    <3> HIDE DEF rows, c
    <3>2. page.rows = rows /\ page.next = c
      BY <3>1
    <3> QED BY <3>2 DEF c
  <2>5. rows \in Seq(Rows) /\ Len(rows) = PageSize /\ \A i \in 1 .. PageSize : rows[i] = found[i]
    <3>1. \A i \in 1 .. PageSize : found[i] \in Rows
      BY <1>1, <1>4, <1>5, <2>1
    <3>2. /\ rows \in Seq(Rows)
          /\ Len(rows) = IF 1 <= PageSize THEN PageSize - 1 + 1 ELSE 0
          /\ \A i \in 1 .. PageSize - 1 + 1 : rows[i] = found[1 + i - 1]
      BY <3>1, <1>1, SubSeqProperties
    <3> HIDE DEF rows
    <3>3. Len(rows) = PageSize
      BY <1>1, <3>2
    <3>4. ASSUME NEW i \in 1 .. PageSize PROVE rows[i] = found[i]
      <4>1. i \in 1 .. PageSize - 1 + 1 /\ 1 + i - 1 = i
        BY <1>1
      <4> QED BY <3>2, <4>1
    <3> QED BY <3>2, <3>3, <3>4
  <2> HIDE DEF rows
  <2>6. \A i \in 1 .. PageSize : rows[i] = s[i] /\ i \in 1 .. n
    BY <1>1, <1>3, <1>5, <2>1, <2>5
  <2>7. PageSize \in 1 .. PageSize /\ rows[PageSize] = found[PageSize]
    BY <1>1, <2>5
  <2>8. CursorOf(found[PageSize]) # <<>>
    BY DEF CursorOf
  <2>9. ASSUME NEW r \in S, \A i \in 1 .. PageSize : rows[i] # r
        PROVE  \A i \in 1 .. PageSize : Newer(rows[i], r)
    <3>1. PICK k \in 1 .. n : s[k] = r
      BY <1>2
    <3>2. k > PageSize
      BY <1>1, <2>6, <2>9, <3>1
    <3>3. \A i \in 1 .. PageSize : i < k
      BY <1>1, <3>2
    <3> QED BY <1>2, <2>6, <3>1, <3>3
  <2>10. \A i, j \in 1 .. PageSize : i < j => Newer(rows[i], rows[j])
    BY <1>2, <2>6
  <2>11. \A i \in 1 .. PageSize : rows[i] \in S
    BY <1>2, <2>6
  <2>12. PageOf(S, page)
    BY <1>1, <2>4, <2>5, <2>7, <2>8, <2>9, <2>10, <2>11 DEF PageOf
  <2> QED BY <2>12 DEF page, found, m, n, s
<1> QED BY <1>6, <1>7

-----------------------------------------------------------------------------
(***************************************************************************)
(* What a cursor passes over.                                              *)
(***************************************************************************)

\* A time cut to its millisecond is no later, and is later than the times of every
\* millisecond before.
LEMMA Cut ==
  ASSUME NEW x \in Nat, NEW y \in Nat, NEW m \in Nat \ {0}
  PROVE  /\ (x \div m) * m \in Nat
         /\ (x \div m) * m <= x
         /\ x % m = 0 => (x \div m) * m = x
         /\ x > y /\ x \div m # y \div m => (x \div m) * m > y
  OBVIOUS

\* What a cursor lets through is older than the row it names.
LEMMA CursorPasses ==
  ASSUME NEW q \in Rows, NEW r \in Rows, Before(r, CursorOf(q))
  PROVE  Newer(q, r)
<1> DEFINE cut == (q.at \div Micros) * Micros
           c == [at |-> cut, id |-> q.id]
<1>1. q.at \in Nat /\ r.at \in Nat /\ q.id \in Nat /\ r.id \in Nat /\ Micros \in Nat \ {0}
  BY LedgerAssumption DEF Rows
<1>2. cut \in Nat /\ cut <= q.at
  BY <1>1, Cut
<1>3. CursorOf(q) = <<c>>
  BY DEF CursorOf
<1> HIDE DEF cut
<1>4. CursorOf(q) # <<>> /\ CursorOf(q)[1] = c
  BY <1>3
<1>5. c.at = cut /\ c.id = q.id
  OBVIOUS
<1> HIDE DEF c
<1>6. Newer(c, r)
  BY <1>4 DEF Before
<1> QED BY <1>1, <1>2, <1>5, <1>6 DEF Newer

\* And it lets every older row through but those it passes over.
LEMMA CursorMeets ==
  ASSUME NEW q \in Rows, NEW r \in Rows, r.id # q.id, Newer(q, r)
  PROVE  Before(r, CursorOf(q)) \/ PassedOver(q, r)
<1> DEFINE cut == (q.at \div Micros) * Micros
           c == [at |-> cut, id |-> q.id]
<1>1. q.at \in Nat /\ r.at \in Nat /\ q.id \in Nat /\ r.id \in Nat /\ Micros \in Nat \ {0}
  BY LedgerAssumption DEF Rows
<1>2. CursorOf(q) = <<c>>
  BY DEF CursorOf
<1>3. q.at > r.at \/ (q.at = r.at /\ q.id > r.id)
  BY DEF Newer
<1> SUFFICES ASSUME ~ PassedOver(q, r) PROVE Before(r, CursorOf(q))
  OBVIOUS
<1>4. cut > r.at \/ (cut = r.at /\ q.id > r.id)
  <2>1. CASE ~ SameMilli(q, r)
    <3>1. q.at # r.at
      BY <2>1 DEF SameMilli
    <3>2. q.at > r.at /\ q.at \div Micros # r.at \div Micros
      BY <1>3, <2>1, <3>1 DEF SameMilli
    <3> QED BY <1>1, <3>2, Cut
  <2>2. CASE SameMilli(q, r) /\ FirstOfMilli(q)
    <3>1. cut = q.at
      BY <1>1, <2>2, Cut DEF FirstOfMilli
    <3> QED BY <1>3, <3>1
  <2>3. CASE SameMilli(q, r) /\ ~ FirstOfMilli(q)
    <3>1. FirstOfMilli(r) /\ ~ r.id > q.id
      BY <2>3 DEF PassedOver
    <3>2. (r.at \div Micros) * Micros = r.at
      BY <1>1, <3>1, Cut DEF FirstOfMilli
    <3>3. cut = r.at
      BY <2>3, <3>2 DEF SameMilli
    <3> QED BY <1>1, <3>1, <3>3
  <2> QED BY <2>1, <2>2, <2>3
<1> HIDE DEF cut
<1>5. CursorOf(q)[1] = c
  BY <1>2
<1>6. c.at = cut /\ c.id = q.id
  OBVIOUS
<1> HIDE DEF c
<1>7. Newer(c, r)
  BY <1>4, <1>6 DEF Newer
<1> QED BY <1>5, <1>7 DEF Before

-----------------------------------------------------------------------------
(***************************************************************************)
(* A list that fits the rows.                                              *)
(***************************************************************************)

\* Of the rows R and the filter f, a list is right about those that matched: it is in
\* order, it lists rows that are there, and what it leaves out is to come or was passed
\* over where a page ended.
Fits(R, f, rows, next, matched) ==
  /\ rows \in Seq(Rows)
  /\ \A i, j \in 1 .. Len(rows) : i < j => Newer(rows[i], rows[j])
  /\ \A i \in 1 .. Len(rows) : \E r \in R : r.id = rows[i].id /\ r.at = rows[i].at
  /\ next # <<>> => EndsPage(Len(rows)) /\ next = CursorOf(rows[Len(rows)])
  /\ \A id \in matched : \E r \in R : r.id = id /\ (f = "over" => r.over)
  /\ \A r \in R :
       r.id \in matched /\ Matches(r, f) =>
         \/ \E i \in 1 .. Len(rows) : rows[i].id = r.id
         \/ next # <<>> /\ \A i \in 1 .. Len(rows) : Newer(rows[i], r)
         \/ \E i \in 1 .. Len(rows) : EndsPage(i) /\ PassedOver(rows[i], r)

\* Every row of R is a row of S, which may be over now.
Later(R, S) == \A r \in R : \E q \in S : q.id = r.id /\ q.at = r.at /\ (r.over => q.over)

\* A list that fits goes on fitting: an insert is of a run that had not matched, and a run
\* that ends stops matching, or matched already.
LEMMA FitsLater ==
  ASSUME NEW R, NEW S, Listing(R), Listing(S), Later(R, S), NEW f \in Filters,
         NEW rows, NEW next, NEW matched, Fits(R, f, rows, next, matched)
  PROVE  Fits(S, f, rows, next, matched)
<1>1. \A i \in 1 .. Len(rows) : \E r \in S : r.id = rows[i].id /\ r.at = rows[i].at
  BY DEF Fits, Later
<1>2. \A id \in matched : \E r \in S : r.id = id /\ (f = "over" => r.over)
  BY DEF Fits, Later
<1>3. ASSUME NEW r \in S, r.id \in matched, Matches(r, f)
      PROVE  \/ \E i \in 1 .. Len(rows) : rows[i].id = r.id
             \/ next # <<>> /\ \A i \in 1 .. Len(rows) : Newer(rows[i], r)
             \/ \E i \in 1 .. Len(rows) : EndsPage(i) /\ PassedOver(rows[i], r)
  <2>1. PICK p \in R : p.id = r.id /\ (f = "over" => p.over)
    BY <1>3 DEF Fits
  <2>2. p.at = r.at /\ (p.over => r.over)
    BY <2>1 DEF Later, Listing
  <2>3. Matches(p, f)
    BY <1>3, <2>1, <2>2 DEF Matches, Filters
  <2>4. \/ \E i \in 1 .. Len(rows) : rows[i].id = p.id
        \/ next # <<>> /\ \A i \in 1 .. Len(rows) : Newer(rows[i], p)
        \/ \E i \in 1 .. Len(rows) : EndsPage(i) /\ PassedOver(rows[i], p)
    BY <1>3, <2>1, <2>3 DEF Fits
  <2>5. \A q : (Newer(q, p) => Newer(q, r)) /\ (PassedOver(q, p) => PassedOver(q, r))
    BY <2>1, <2>2 DEF Newer, PassedOver, SameMilli, FirstOfMilli
  <2> QED BY <2>1, <2>4, <2>5
<1> QED BY <1>1, <1>2, <1>3 DEF Fits

\* The first page fits.
LEMMA FirstFits ==
  ASSUME NEW R, Listing(R), NEW f \in Filters, NEW page, PageOf({r \in R : Matches(r, f)}, page)
  PROVE  Fits(R, f, page.rows, page.next, {r.id : r \in {q \in R : Matches(q, f)}})
<1> DEFINE S == {r \in R : Matches(r, f)}
           matched == {r.id : r \in S}
           rows == page.rows
           next == page.next
<1>1. R \in SUBSET Rows /\ \A r, q \in R : r.id = q.id => r = q
  BY DEF Listing
<1>2. /\ rows \in Seq(Rows)
      /\ \A i \in 1 .. Len(rows) : rows[i] \in S
      /\ \A i, j \in 1 .. Len(rows) : i < j => Newer(rows[i], rows[j])
      /\ next # <<>> => Len(rows) = PageSize /\ next = CursorOf(rows[PageSize])
      /\ \A r \in S : (\A i \in 1 .. Len(rows) : rows[i] # r) =>
           next # <<>> /\ \A i \in 1 .. Len(rows) : Newer(rows[i], r)
  BY DEF PageOf
<1> HIDE DEF rows, next
<1>3. \A i \in 1 .. Len(rows) : \E r \in R : r.id = rows[i].id /\ r.at = rows[i].at
  BY <1>2
<1>4. \A id \in matched : \E r \in R : r.id = id /\ (f = "over" => r.over)
  BY DEF Matches
<1>5. \A r \in R : r.id \in matched => r \in S
  BY <1>1
<1> HIDE DEF S, matched
<1>6. EndsPage(PageSize)
  BY LedgerAssumption DEF EndsPage
<1>7. Fits(R, f, rows, next, matched)
  BY <1>2, <1>3, <1>4, <1>5, <1>6 DEF Fits
<1> QED BY <1>7 DEF rows, next, matched, S

\* A list and the page its cursor asks for fit together.
LEMMA NextFits ==
  ASSUME NEW R, Listing(R), NEW f \in Filters, NEW rows, NEW next, NEW matched,
         Fits(R, f, rows, next, matched), next # <<>>,
         NEW page, PageOf({r \in R : Matches(r, f) /\ Before(r, next)}, page)
  PROVE  Fits(R, f, rows \o page.rows, page.next, matched)
<1> DEFINE S == {r \in R : Matches(r, f) /\ Before(r, next)}
           below == page.rows
           then == page.next
           all == rows \o below
           n == Len(rows)
           m == Len(below)
           last == rows[n]
<1>1. R \in SUBSET Rows /\ \A r, q \in R : r.id = q.id => r = q
  BY DEF Listing
<1>2. /\ below \in Seq(Rows)
      /\ \A i \in 1 .. m : below[i] \in S
      /\ \A i, j \in 1 .. m : i < j => Newer(below[i], below[j])
      /\ then # <<>> => m = PageSize /\ then = CursorOf(below[PageSize])
      /\ \A r \in S : (\A i \in 1 .. m : below[i] # r) =>
           then # <<>> /\ \A i \in 1 .. m : Newer(below[i], r)
  BY DEF PageOf
<1> HIDE DEF below, then
<1>3. /\ rows \in Seq(Rows)
      /\ \A i, j \in 1 .. n : i < j => Newer(rows[i], rows[j])
      /\ \A i \in 1 .. n : \E r \in R : r.id = rows[i].id /\ r.at = rows[i].at
      /\ EndsPage(n) /\ next = CursorOf(last)
      /\ \A id \in matched : \E r \in R : r.id = id /\ (f = "over" => r.over)
      /\ \A r \in R : r.id \in matched /\ Matches(r, f) =>
           \/ \E i \in 1 .. n : rows[i].id = r.id
           \/ \A i \in 1 .. n : Newer(rows[i], r)
           \/ \E i \in 1 .. n : EndsPage(i) /\ PassedOver(rows[i], r)
  BY DEF Fits
<1>4. n \in Nat /\ m \in Nat /\ (\A i \in 1 .. n : rows[i] \in Rows) /\ \A i \in 1 .. m : below[i] \in Rows
  BY <1>2, <1>3, LenProperties, ElementOfSeq
<1>5. all \in Seq(Rows) /\ Len(all) = n + m
      /\ \A i \in 1 .. n + m : all[i] = IF i <= n THEN rows[i] ELSE below[i - n]
  BY <1>2, <1>3, ConcatProperties
<1> HIDE DEF all, n, m
<1>6. /\ \A i \in 1 .. n : all[i] = rows[i]
      /\ \A i \in 1 .. n + m : i > n => all[i] = below[i - n] /\ i - n \in 1 .. m
  <2>1. ASSUME NEW i \in 1 .. n PROVE all[i] = rows[i]
    <3>1. i \in 1 .. n + m /\ i <= n
      BY <1>4
    <3> QED BY <1>5, <3>1
  <2>2. ASSUME NEW i \in 1 .. n + m, i > n PROVE all[i] = below[i - n] /\ i - n \in 1 .. m
    <3>1. ~ i <= n /\ i - n \in 1 .. m
      BY <1>4, <2>2
    <3> QED BY <1>5, <3>1
  <2> QED BY <2>1, <2>2
<1>7. n \in 1 .. n /\ last \in Rows
  BY <1>3, <1>4 DEF EndsPage
<1> HIDE DEF last
<1>8. \A i \in 1 .. n : rows[i] = last \/ Newer(rows[i], last)
  BY <1>3, <1>4, <1>7 DEF last
<1>9. \A j \in 1 .. m : Newer(last, below[j])
  BY <1>1, <1>2, <1>3, <1>4, <1>7, CursorPasses
<1>10. \A i \in 1 .. n, j \in 1 .. m : Newer(rows[i], below[j])
  BY <1>4, <1>7, <1>8, <1>9, NewerOrders
<1>11. ASSUME NEW i \in 1 .. n + m, NEW j \in 1 .. n + m, i < j PROVE Newer(all[i], all[j])
  <2>1. CASE j <= n
    BY <1>3, <1>4, <1>6, <1>11, <2>1
  <2>2. CASE i <= n /\ j > n
    <3>1. i \in 1 .. n /\ j - n \in 1 .. m /\ all[i] = rows[i] /\ all[j] = below[j - n]
      BY <1>4, <1>6, <2>2
    <3> QED BY <1>10, <3>1
  <2>3. CASE i > n
    <3>1. i - n \in 1 .. m /\ j - n \in 1 .. m /\ i - n < j - n /\ all[i] = below[i - n] /\ all[j] = below[j - n]
      BY <1>4, <1>6, <1>11, <2>3
    <3> QED BY <1>2, <3>1
  <2> QED BY <1>4, <2>1, <2>2, <2>3
<1>12. \A i \in 1 .. n + m : \E r \in R : r.id = all[i].id /\ r.at = all[i].at
  <2> SUFFICES ASSUME NEW i \in 1 .. n + m PROVE \E r \in R : r.id = all[i].id /\ r.at = all[i].at
    OBVIOUS
  <2>1. CASE i <= n
    BY <1>3, <1>4, <1>6, <2>1
  <2>2. CASE i > n
    BY <1>2, <1>4, <1>6, <2>2
  <2> QED BY <1>4, <2>1, <2>2
<1>13. ASSUME then # <<>> PROVE EndsPage(n + m) /\ then = CursorOf(all[n + m])
  <2>1. m = PageSize /\ m > 0 /\ then = CursorOf(below[m])
    BY <1>2, <1>13, LedgerAssumption
  <2>2. PICK k \in 1 .. n : n = k * PageSize
    BY <1>3 DEF EndsPage
  <2>3. k + 1 \in 1 .. n + m /\ n + m = (k + 1) * PageSize
    BY <1>4, <2>1, <2>2
  <2>4. n + m \in 1 .. n + m /\ n + m > n /\ (n + m) - n = m
    BY <1>4, <2>1
  <2>5. all[n + m] = below[m]
    BY <1>6, <2>4
  <2> QED BY <2>1, <2>3, <2>5 DEF EndsPage
<1>14. ASSUME NEW r \in R, r.id \in matched, Matches(r, f), ~ \E i \in 1 .. n + m : all[i].id = r.id,
              ~ \E i \in 1 .. n + m : EndsPage(i) /\ PassedOver(all[i], r)
       PROVE  then # <<>> /\ \A i \in 1 .. n + m : Newer(all[i], r)
  <2>1. \A i \in 1 .. n : rows[i].id # r.id /\ ~ (EndsPage(i) /\ PassedOver(rows[i], r))
    BY <1>4, <1>6, <1>14
  <2>2. \A i \in 1 .. n : Newer(rows[i], r)
    BY <1>3, <1>14, <2>1
  <2>3. last.id # r.id /\ Newer(last, r) /\ ~ PassedOver(last, r)
    BY <1>3, <1>7, <2>1, <2>2 DEF last
  <2>4. Before(r, next)
    BY <1>1, <1>3, <1>7, <2>3, CursorMeets
  <2>5. r \in S
    BY <1>14, <2>4
  <2>6. ASSUME NEW i \in 1 .. m PROVE below[i] # r
    <3>1. n + i \in 1 .. n + m /\ n + i > n /\ (n + i) - n = i
      BY <1>4
    <3>2. all[n + i] = below[i]
      BY <1>6, <3>1
    <3> QED BY <1>14, <3>1, <3>2
  <2>7. then # <<>> /\ \A i \in 1 .. m : Newer(below[i], r)
    BY <1>2, <2>5, <2>6
  <2>8. ASSUME NEW i \in 1 .. n + m PROVE Newer(all[i], r)
    <3>1. CASE i <= n
      BY <1>4, <1>6, <2>2, <3>1
    <3>2. CASE i > n
      BY <1>4, <1>6, <2>7, <3>2
    <3> QED BY <1>4, <3>1, <3>2
  <2> QED BY <2>7, <2>8
<1> HIDE DEF S
<1>15. Fits(R, f, all, then, matched)
  BY <1>3, <1>5, <1>11, <1>12, <1>13, <1>14 DEF Fits
<1> QED BY <1>15 DEF all, then, below

-----------------------------------------------------------------------------
(***************************************************************************)
(* The list as it changes.                                                 *)
(***************************************************************************)

RowsInv == Listing(runRows) /\ filter \in Filters /\ first \in Seq(Rows) /\ more \in Seq(Rows) /\ now \in Nat

\* What is on its way fits the rows, and the filter it was asked for.
FetchedInv ==
  fetching # <<>> =>
    Fits(runRows, filter, fetching[1].page.rows, fetching[1].page.next, fetching[1].matched)

\* What is shown fits them, and still does when what is on its way is shown below it.
LoadedInv ==
  loading # <<>> =>
    /\ loading[1].rows \in Seq(Rows)
    /\ calm => Fits(runRows, filter, Shown \o loading[1].rows, loading[1].next, base)
ShownInv == calm => Fits(runRows, filter, Shown, nextCursor, base)

LedgerInv == RowsInv /\ FetchedInv /\ LoadedInv /\ ShownInv

\* Rows are added and end: whatever fitted fits.
LEMMA RowsMove ==
  ASSUME LedgerInv, Listing(runRows'), Later(runRows, runRows'), now' \in Nat,
         UNCHANGED <<filter, first, more, nextCursor, fetching, loading, base, calm>>
  PROVE  LedgerInv'
<1>1. Listing(runRows) /\ filter \in Filters /\ RowsInv'
  BY DEF LedgerInv, RowsInv
<1>2. \A rows, next, matched :
        Fits(runRows, filter, rows, next, matched) => Fits(runRows', filter, rows, next, matched)
  BY <1>1, FitsLater
<1>3. Shown' = Shown
  BY DEF Shown
<1>4. FetchedInv'
  BY <1>2 DEF LedgerInv, FetchedInv
<1>5. LoadedInv'
  <2>1. SUFFICES ASSUME loading # <<>>
                 PROVE  /\ loading[1].rows \in Seq(Rows)
                        /\ calm => Fits(runRows', filter, Shown \o loading[1].rows, loading[1].next, base)
    BY <1>3 DEF LoadedInv
  <2> DEFINE all == Shown \o loading[1].rows
  <2>2. loading[1].rows \in Seq(Rows) /\ (calm => Fits(runRows, filter, all, loading[1].next, base))
    BY <2>1 DEF LedgerInv, LoadedInv
  <2> HIDE DEF all
  <2>3. calm => Fits(runRows', filter, all, loading[1].next, base)
    BY <1>2, <2>2
  <2> QED BY <2>2, <2>3 DEF all
<1>6. ShownInv'
  <2>1. calm => Fits(runRows', filter, Shown, nextCursor, base)
    BY <1>2 DEF LedgerInv, ShownInv
  <2> QED BY <1>3, <2>1 DEF ShownInv
<1> QED BY <1>1, <1>4, <1>5, <1>6 DEF LedgerInv

\* A run is launched.
LEMMA InsertKeeps == ASSUME LedgerInv, NEW id \in Ids, Insert(id) PROVE LedgerInv'
<1> DEFINE row == [at |-> now, id |-> id, over |-> FALSE]
<1>1. Listing(runRows) /\ now \in Nat
  BY DEF LedgerInv, RowsInv
<1>2. row \in Rows /\ row.id = id
  BY <1>1 DEF Rows
<1>3. runRows' = runRows \cup {row} /\ (\A r \in runRows : r.id # id) /\ now' = now
  BY DEF Insert
<1> HIDE DEF row
<1>4. IsFiniteSet(runRows')
  BY <1>1, <1>3, FS_AddElement DEF Listing
<1>5. Listing(runRows')
  BY <1>1, <1>2, <1>3, <1>4 DEF Listing
<1>6. Later(runRows, runRows')
  BY <1>3 DEF Later
<1> QED BY <1>1, <1>3, <1>5, <1>6, RowsMove DEF Insert

\* A run ends.
LEMMA EndKeeps == ASSUME LedgerInv, NEW r \in runRows, RunEnds(r) PROVE LedgerInv'
<1> DEFINE row == [r EXCEPT !.over = TRUE]
<1>1. Listing(runRows) /\ now \in Nat
  BY DEF LedgerInv, RowsInv
<1>2. r \in Rows
  BY <1>1 DEF Listing
<1>3. row \in Rows /\ row.id = r.id /\ row.at = r.at /\ row.over
  BY <1>2 DEF Rows
<1>4. runRows' = (runRows \ {r}) \cup {row} /\ now' = now
  BY DEF RunEnds
<1> HIDE DEF row
<1>5. IsFiniteSet(runRows')
  <2>1. IsFiniteSet(runRows \ {r})
    BY <1>1, FS_RemoveElement DEF Listing
  <2> QED BY <1>4, <2>1, FS_AddElement
<1>6. Listing(runRows')
  BY <1>1, <1>3, <1>4, <1>5 DEF Listing
<1>7. Later(runRows, runRows')
  BY <1>1, <1>3, <1>4 DEF Later, Listing
<1> QED BY <1>1, <1>4, <1>6, <1>7, RowsMove DEF RunEnds

\* The rows that match are rows, and what the server answers is their page.
LEMMA ServerPages ==
  ASSUME LedgerInv, NEW f, NEW c
  PROVE  PageOf({r \in runRows : Matches(r, f) /\ Before(r, c)}, ToPage(Newest(f, c)))
<1> DEFINE S == {r \in runRows : Matches(r, f) /\ Before(r, c)}
<1>1. Listing(runRows)
  BY DEF LedgerInv, RowsInv
<1>2. IsFiniteSet(S)
  BY <1>1, FS_Subset DEF Listing
<1>3. Listing(S)
  BY <1>1, <1>2 DEF Listing
<1> HIDE DEF S
<1>4. PageOf(S, ToPage(SubSeq(Ordered(S), 1, IF Cardinality(S) > PageSize THEN PageSize + 1 ELSE Cardinality(S))))
  BY <1>3, PageOfRows
<1> QED BY <1>4 DEF S, Newest

\* The answer for page one fits when it is read.
LEMMA FetchedFits ==
  ASSUME LedgerInv, NEW f \in Filters
  PROVE  LET fetched == Fetched(f)
         IN  Fits(runRows, f, fetched[1].page.rows, fetched[1].page.next, fetched[1].matched)
<1> DEFINE S == {r \in runRows : Matches(r, f)}
           page == ToPage(Newest(f, <<>>))
           matched == {r.id : r \in S}
           fetched == Fetched(f)
<1>1. \A r : Before(r, <<>>)
  BY DEF Before
<1>2. {r \in runRows : Matches(r, f) /\ Before(r, <<>>)} = S
  BY <1>1
<1>3. PageOf(S, page)
  BY <1>2, ServerPages
<1>4. fetched = <<[page |-> page, matched |-> matched]>>
  BY DEF Fetched
<1>5. Listing(runRows)
  BY DEF LedgerInv, RowsInv
<1> HIDE DEF page
<1>6. Fits(runRows, f, page.rows, page.next, matched)
  BY <1>3, <1>5, FirstFits
<1> HIDE DEF fetched, matched
<1>7. fetched[1] = [page |-> page, matched |-> matched]
  BY <1>4
<1>8. fetched[1].page = page /\ fetched[1].matched = matched
  BY <1>7
<1>9. Fits(runRows, f, fetched[1].page.rows, fetched[1].page.next, fetched[1].matched)
  BY <1>6, <1>8
<1> QED BY <1>9 DEF fetched

\* Page one is asked for.
LEMMA RefreshKeeps == ASSUME LedgerInv, Refresh PROVE LedgerInv'
<1>1. filter \in Filters /\ fetching' = Fetched(filter)
  BY DEF LedgerInv, RowsInv, Refresh
<1>2. UNCHANGED <<now, runRows, filter, first, more, nextCursor, loading, base, calm>> /\ Shown' = Shown
  BY DEF Refresh, Shown
<1>3. RowsInv' /\ LoadedInv' /\ ShownInv'
  BY <1>2 DEF LedgerInv, RowsInv, LoadedInv, ShownInv
<1>4. FetchedInv'
  BY <1>1, <1>2, FetchedFits DEF FetchedInv
<1> QED BY <1>3, <1>4 DEF LedgerInv

\* The filter changes.
LEMMA StatusKeeps == ASSUME LedgerInv, NEW f \in Filters, SetStatus(f) PROVE LedgerInv'
<1>1. filter' = f /\ fetching' = Fetched(f) /\ calm' = FALSE
  BY DEF SetStatus
<1>2. UNCHANGED <<now, runRows, first, more, nextCursor, base, loading>>
  BY DEF SetStatus
<1>3. RowsInv' /\ LoadedInv' /\ ShownInv'
  BY <1>1, <1>2 DEF LedgerInv, RowsInv, LoadedInv, ShownInv
<1>4. FetchedInv'
  BY <1>1, <1>2, FetchedFits DEF FetchedInv
<1> QED BY <1>3, <1>4 DEF LedgerInv

\* Page one is shown, and what was below it goes.
LEMMA ShowFirstKeeps == ASSUME LedgerInv, ShowFirst PROVE LedgerInv'
<1> DEFINE page == fetching[1].page
<1>1. /\ fetching # <<>> /\ fetching' = <<>>
      /\ first' = page.rows /\ nextCursor' = page.next /\ more' = <<>>
      /\ base' = fetching[1].matched /\ calm' = (loading = <<>>)
      /\ UNCHANGED <<now, runRows, filter, loading>>
  BY DEF ShowFirst
<1>2. Fits(runRows, filter, page.rows, page.next, fetching[1].matched)
  BY <1>1 DEF LedgerInv, FetchedInv
<1> HIDE DEF page
<1>3. page.rows \in Seq(Rows)
  BY <1>2 DEF Fits
<1>4. Shown' = page.rows
  BY <1>1, <1>3, ConcatEmptySeq DEF Shown
<1>5. RowsInv'
  BY <1>1, <1>3 DEF LedgerInv, RowsInv
<1>6. FetchedInv'
  BY <1>1 DEF FetchedInv
<1>7. LoadedInv'
  BY <1>1 DEF LedgerInv, LoadedInv
<1>8. ShownInv'
  BY <1>1, <1>2, <1>4 DEF ShownInv
<1> QED BY <1>5, <1>6, <1>7, <1>8 DEF LedgerInv

\* The next page is asked for.
LEMMA LoadMoreKeeps == ASSUME LedgerInv, LoadMore PROVE LedgerInv'
<1> DEFINE page == ToPage(Newest(filter, nextCursor))
           S == {r \in runRows : Matches(r, filter) /\ Before(r, nextCursor)}
<1>1. nextCursor # <<>> /\ loading' = <<page>>
  BY DEF LoadMore
<1>2. UNCHANGED <<now, runRows, filter, first, more, nextCursor, fetching, base, calm>> /\ Shown' = Shown
  BY DEF LoadMore, Shown
<1>3. PageOf(S, page)
  BY ServerPages
<1>4. filter \in Filters /\ Listing(runRows)
  BY DEF LedgerInv, RowsInv
<1> HIDE DEF page
<1>5. page.rows \in Seq(Rows)
  BY <1>3 DEF PageOf
<1>6. ASSUME calm PROVE Fits(runRows, filter, Shown \o page.rows, page.next, base)
  <2>1. Fits(runRows, filter, Shown, nextCursor, base)
    BY <1>6 DEF LedgerInv, ShownInv
  <2> HIDE DEF S
  <2>2. PageOf(S, page)
    BY <1>3
  <2> USE DEF S
  <2> QED BY <1>1, <1>4, <2>1, <2>2, NextFits
<1>7. loading'[1] = page
  BY <1>1
<1>8. LoadedInv'
  BY <1>2, <1>5, <1>6, <1>7 DEF LoadedInv
<1>9. RowsInv' /\ FetchedInv' /\ ShownInv'
  BY <1>2 DEF LedgerInv, RowsInv, FetchedInv, ShownInv
<1> QED BY <1>8, <1>9 DEF LedgerInv

\* It is shown.
LEMMA ShowMoreKeeps == ASSUME LedgerInv, ShowMore PROVE LedgerInv'
<1> DEFINE rows == loading[1].rows
<1>1. /\ loading # <<>> /\ loading' = <<>>
      /\ more' = more \o rows /\ nextCursor' = loading[1].next
      /\ UNCHANGED <<now, runRows, filter, first, fetching, base, calm>>
  BY DEF ShowMore
<1>2. rows \in Seq(Rows) /\ (calm => Fits(runRows, filter, Shown \o rows, loading[1].next, base))
  BY <1>1 DEF LedgerInv, LoadedInv
<1>3. first \in Seq(Rows) /\ more \in Seq(Rows)
  BY DEF LedgerInv, RowsInv
<1> HIDE DEF rows
<1>4. more' \in Seq(Rows)
  BY <1>1, <1>2, <1>3, ConcatProperties
<1>5. Shown' = Shown \o rows
  <2>1. first \o (more \o rows) = (first \o more) \o rows
    BY <1>2, <1>3, ConcatAssociative
  <2> QED BY <1>1, <2>1 DEF Shown
<1>6. RowsInv' /\ FetchedInv' /\ LoadedInv'
  BY <1>1, <1>4 DEF LedgerInv, RowsInv, FetchedInv, LoadedInv
<1>7. ShownInv'
  BY <1>1, <1>2, <1>5 DEF ShownInv
<1> QED BY <1>6, <1>7 DEF LedgerInv

\* Whatever the clock, the runs, the server and the page do, the list goes on fitting.
THEOREM LedgerInductive == LedgerSpec => []LedgerInv
<1>1. LedgerInit => LedgerInv
  <2> SUFFICES ASSUME LedgerInit PROVE LedgerInv
    OBVIOUS
  <2> USE DEF LedgerInit
  <2>1. IsFiniteSet(runRows)
    BY FS_EmptySet
  <2>2. RowsInv
    BY <2>1 DEF RowsInv, Listing, Filters
  <2>3. FetchedInv /\ LoadedInv
    BY DEF FetchedInv, LoadedInv
  <2>4. Shown = <<>> /\ Len(Shown) = 0
    BY DEF Shown
  <2>5. Fits(runRows, filter, Shown, nextCursor, base)
    BY <2>4 DEF Fits
  <2> QED BY <2>2, <2>3, <2>5 DEF LedgerInv, ShownInv
<1>2. LedgerInv /\ [LedgerNext]_ledgerVars => LedgerInv'
  <2> SUFFICES ASSUME LedgerInv, [LedgerNext]_ledgerVars PROVE LedgerInv'
    OBVIOUS
  <2>1. ASSUME now' \in Nat, UNCHANGED <<runRows, filter, first, more, nextCursor, fetching, loading, base, calm>>
        PROVE  LedgerInv'
    <3>1. Listing(runRows') /\ Later(runRows, runRows')
      BY <2>1 DEF LedgerInv, RowsInv, Later
    <3> QED BY <2>1, <3>1, RowsMove
  <2>2. CASE Tick
    <3>1. now' \in Nat
      BY <2>2 DEF Tick, LedgerInv, RowsInv
    <3> QED BY <2>1, <2>2, <3>1 DEF Tick
  <2>3. CASE UNCHANGED ledgerVars
    <3>1. now' \in Nat
      BY <2>3 DEF ledgerVars, LedgerInv, RowsInv
    <3> QED BY <2>1, <2>3, <3>1 DEF ledgerVars
  <2> QED
    BY <2>2, <2>3, InsertKeeps, EndKeeps, RefreshKeeps, StatusKeeps, ShowFirstKeeps, LoadMoreKeeps,
       ShowMoreKeeps DEF LedgerNext
<1> QED BY <1>1, <1>2, PTL DEF LedgerSpec

\* keyset-cursor.ts and paging.ts: whatever is launched or ends between two pages, and
\* however fine the clock is, no run is repeated; and none is skipped but those of the very
\* millisecond in which a page ended that the cursor, cut to it, passes over.  For every size
\* of a page and every number of runs, as long as no request crosses a loadMore.
THEOREM PagesAlwaysMeet == LedgerSpec => []PagesMeet
<1>1. LedgerInv => PagesMeet
  <2> SUFFICES ASSUME LedgerInv, calm PROVE PagesMeet!2
    BY DEF PagesMeet
  <2> DEFINE rows == Shown
             n == Len(rows)
             ids == [i \in 1 .. n |-> rows[i].id]
  <2>1. Fits(runRows, filter, rows, nextCursor, base) /\ Listing(runRows)
    BY DEF LedgerInv, ShownInv, RowsInv
  <2> HIDE DEF rows
  <2>2. rows \in Seq(Rows) /\ n \in Nat /\ DOMAIN rows = 1 .. n /\ \A i \in 1 .. n : rows[i] \in Rows
    BY <2>1, LenProperties, ElementOfSeq DEF Fits
  <2>3. \A i, j \in 1 .. n : i < j => Newer(rows[i], rows[j])
    BY <2>1 DEF Fits
  <2>4. \A i, j \in 1 .. n : rows[i].id = rows[j].id => rows[i].at = rows[j].at
    BY <2>1 DEF Fits, Listing
  <2>5. \A r \in runRows : r.id \in base /\ Matches(r, filter) =>
           \/ \E i \in 1 .. n : rows[i].id = r.id
           \/ nextCursor # <<>> /\ \A i \in 1 .. n : Newer(rows[i], r)
           \/ \E i \in 1 .. n : EndsPage(i) /\ PassedOver(rows[i], r)
    BY <2>1 DEF Fits
  <2> HIDE DEF n
  <2>6. ASSUME NEW i \in 1 .. n, NEW j \in 1 .. n, i < j PROVE rows[i].id # rows[j].id
    <3>1. Newer(rows[i], rows[j])
      BY <2>3, <2>6
    <3>2. rows[i].id \in Nat /\ rows[j].id \in Nat /\ rows[i].at \in Nat /\ rows[j].at \in Nat
      BY <2>2, LedgerAssumption DEF Rows
    <3> QED BY <2>4, <3>1, <3>2 DEF Newer
  <2>7. ShownIds = {rows[i].id : i \in 1 .. n}
    BY <2>2 DEF ShownIds, rows
  <2>8. ids \in Bijection(1 .. n, ShownIds)
    <3>1. ids \in [1 .. n -> ShownIds]
      BY <2>7
    <3>2. \A i, j \in 1 .. n : ids[i] = ids[j] => i = j
      BY <2>2, <2>6
    <3>3. \A x \in ShownIds : \E i \in 1 .. n : ids[i] = x
      BY <2>7
    <3> HIDE DEF ids
    <3> QED BY <3>1, <3>2, <3>3, Fun_IsBij
  <2>9. Cardinality(ShownIds) = n
    <3>1. IsFiniteSet(1 .. n) /\ Cardinality(1 .. n) = n
      BY <2>2, FS_Interval
    <3>2. ExistsBijection(1 .. n, ShownIds)
      BY <2>8 DEF ExistsBijection
    <3> QED BY <3>1, <3>2, FS_Bijection
  <2>10. \A r \in runRows : r.id \in base /\ Matches(r, filter) /\ r.id \notin ShownIds =>
           \/ nextCursor # <<>> /\ \A i \in 1 .. n : Newer(rows[i], r)
           \/ \E i \in 1 .. n : EndsPage(i) /\ PassedOver(rows[i], r)
    BY <2>5, <2>7
  <2>11. Cardinality(ShownIds) = Len(Shown) /\ DOMAIN Shown = 1 .. n
    BY <2>2, <2>9 DEF n, rows
  <2>12. \A r \in runRows : r.id \in base /\ Matches(r, filter) /\ r.id \notin ShownIds =>
           \/ nextCursor # <<>> /\ \A i \in 1 .. n : Newer(Shown[i], r)
           \/ \E i \in 1 .. n : EndsPage(i) /\ PassedOver(Shown[i], r)
    BY <2>10 DEF rows
  <2> QED BY <2>11, <2>12 DEF PagesMeet
<1> QED BY <1>1, LedgerInductive, PTL
==============================================================================
