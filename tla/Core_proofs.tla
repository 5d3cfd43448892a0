----------------------------- MODULE Core_proofs -----------------------------
(***************************************************************************)
(* Theorems about packages/core: the order a migration visits its tables   *)
(* in (TablePlanner), what its outcome says of the destination             *)
(* (Migration), for every number of tables, threads, rows and faults, and  *)
(* what the synchronisation of two schemas keeps and its review foretells  *)
(* (SchemaSync, Preview), for every two databases.                         *)
(***************************************************************************)
EXTENDS Migration, Preview, FiniteSetTheorems, FunctionTheorems, SequenceTheorems, TLAPS

-----------------------------------------------------------------------------
(***************************************************************************)
(* The plan.                                                               *)
(***************************************************************************)

\* Up to and with a: its rank in a set of tables.
Upto(S, level, est, a) == {b \in S : b = a \/ Precedes(level, est, b, a)}

\* Two tables are never at one place, and never each before the other.
LEMMA PrecedesOrders ==
  ASSUME NEW S \in SUBSET Nat, NEW level \in [S -> Nat], NEW est \in [S -> Nat]
  PROVE  /\ \A a \in S : ~ Precedes(level, est, a, a)
         /\ \A a, b \in S : a = b \/ Precedes(level, est, a, b) \/ Precedes(level, est, b, a)
         /\ \A a, b, c \in S : Precedes(level, est, a, b) /\ Precedes(level, est, b, c) => Precedes(level, est, a, c)
<1>1. \A a \in S : a \in Nat /\ level[a] \in Nat /\ est[a] \in Nat
  OBVIOUS
<1>2. \A a \in S : ~ Precedes(level, est, a, a)
  BY <1>1 DEF Precedes
<1>3. \A a, b \in S : a = b \/ Precedes(level, est, a, b) \/ Precedes(level, est, b, a)
  BY <1>1 DEF Precedes
<1>4. \A a, b, c \in S : Precedes(level, est, a, b) /\ Precedes(level, est, b, c) => Precedes(level, est, a, c)
  BY <1>1 DEF Precedes
<1> QED BY <1>2, <1>3, <1>4

\* A later table has the greater rank.
LEMMA RankGrows ==
  ASSUME NEW S \in SUBSET Nat, IsFiniteSet(S), NEW level \in [S -> Nat], NEW est \in [S -> Nat],
         NEW a \in S, NEW b \in S, Precedes(level, est, a, b)
  PROVE  /\ Cardinality(Upto(S, level, est, a)) \in 1 .. Cardinality(S)
         /\ Cardinality(Upto(S, level, est, b)) \in 1 .. Cardinality(S)
         /\ Cardinality(Upto(S, level, est, a)) < Cardinality(Upto(S, level, est, b))
<1> DEFINE A == Upto(S, level, est, a)
           B == Upto(S, level, est, b)
<1>1. A \subseteq B /\ b \in B /\ b \notin A /\ a \in A /\ A \in SUBSET S /\ B \in SUBSET S
  <2>1. A \in SUBSET S /\ B \in SUBSET S /\ b \in B /\ a \in A
    BY DEF Upto
  <2>2. \A c \in S : c = a \/ Precedes(level, est, c, a) => Precedes(level, est, c, b)
    BY PrecedesOrders
  <2>3. A \subseteq B
    BY <2>2 DEF Upto
  <2>4. ~ (b = a \/ Precedes(level, est, b, a))
    BY PrecedesOrders
  <2>5. b \notin A
    BY <2>4 DEF Upto
  <2> QED BY <2>1, <2>3, <2>5
<1> HIDE DEF A, B
<1>2. IsFiniteSet(A) /\ IsFiniteSet(B) /\ Cardinality(A) <= Cardinality(S) /\ Cardinality(B) <= Cardinality(S)
  BY <1>1, FS_Subset
<1>3. Cardinality(A) <= Cardinality(B) /\ Cardinality(A) # Cardinality(B)
  BY <1>1, <1>2, FS_Subset
<1>4. Cardinality(A) \in Nat /\ Cardinality(B) \in Nat /\ Cardinality(S) \in Nat
  BY <1>2, FS_CardinalityType
<1>5. Cardinality(A) # 0 /\ Cardinality(B) # 0
  BY <1>1, <1>2, FS_EmptySet
<1>6. Cardinality(A) \in 1 .. Cardinality(S) /\ Cardinality(B) \in 1 .. Cardinality(S) /\ Cardinality(A) < Cardinality(B)
  BY <1>2, <1>3, <1>4, <1>5
<1> QED BY <1>6 DEF A, B

\* Every set of tables can be sorted, and a sorted sequence has each of them once.
LEMMA SortedOnce ==
  ASSUME NEW S \in SUBSET Nat, IsFiniteSet(S), NEW level \in [S -> Nat], NEW est \in [S -> Nat]
  PROVE  /\ SortTables(S, level, est) \in Bijection(1 .. Cardinality(S), S)
         /\ \A i, j \in 1 .. Cardinality(S) :
              i < j => Precedes(level, est, SortTables(S, level, est)[i], SortTables(S, level, est)[j])
<1> DEFINE n == Cardinality(S)
           rank == [a \in S |-> Cardinality(Upto(S, level, est, a))]
           Sorted(order) == \A i, j \in DOMAIN order : i < j => Precedes(level, est, order[i], order[j])
<1>0. n \in Nat /\ IsFiniteSet(1 .. n) /\ Cardinality(1 .. n) = n
  BY FS_CardinalityType, FS_Interval
<1>1. rank \in [S -> 1 .. n]
  <2> SUFFICES ASSUME NEW a \in S PROVE Cardinality(Upto(S, level, est, a)) \in 1 .. n
    OBVIOUS
  <2> DEFINE A == Upto(S, level, est, a)
  <2>1. A \in SUBSET S /\ a \in A
    BY DEF Upto
  <2> HIDE DEF A
  <2>2. IsFiniteSet(A) /\ Cardinality(A) <= n /\ Cardinality(A) \in Nat /\ Cardinality(A) # 0
    BY <2>1, FS_Subset, FS_CardinalityType, FS_EmptySet
  <2>3. Cardinality(A) \in 1 .. n
    BY <1>0, <2>2
  <2> QED BY <2>3 DEF A
<1>2. \A a, b \in S : a # b => rank[a] # rank[b]
  <2> SUFFICES ASSUME NEW a \in S, NEW b \in S, a # b PROVE rank[a] # rank[b]
    OBVIOUS
  <2>1. CASE Precedes(level, est, a, b)
    BY <2>1, RankGrows, <1>0, <1>1
  <2>2. CASE Precedes(level, est, b, a)
    BY <2>2, RankGrows, <1>0, <1>1
  <2> QED BY <2>1, <2>2, PrecedesOrders
<1>3. \A i \in 1 .. n : \E a \in S : rank[a] = i
  <2> HIDE DEF rank
  <2>1. rank \in Injection(S, 1 .. n)
    BY <1>1, <1>2 DEF Injection, IsInjective
  <2>2. Cardinality(S) = Cardinality(1 .. n)
    BY <1>0
  <2>3. rank \in Surjection(S, 1 .. n)
    BY <1>0, <2>1, <2>2, FS_Injection
  <2> QED BY <2>3 DEF Surjection
<1> DEFINE order == [i \in 1 .. n |-> CHOOSE a \in S : rank[a] = i]
<1>4. order \in [1 .. n -> S] /\ \A i \in 1 .. n : rank[order[i]] = i
  <2> HIDE DEF rank
  <2> QED BY <1>3
<1>5. Sorted(order)
  <2> SUFFICES ASSUME NEW i \in 1 .. n, NEW j \in 1 .. n, i < j
               PROVE  Precedes(level, est, order[i], order[j])
    OBVIOUS
  <2>1. order[i] \in S /\ order[j] \in S /\ rank[order[i]] = i /\ rank[order[j]] = j
    BY <1>4
  <2> HIDE DEF order
  <2>2. order[i] # order[j]
    BY <2>1, <1>0
  <2>3. CASE Precedes(level, est, order[j], order[i])
    <3>1. rank[order[j]] < rank[order[i]]
      BY <2>1, <2>3, RankGrows
    <3> QED BY <2>1, <3>1, <1>0
  <2> QED BY <2>1, <2>2, <2>3, PrecedesOrders
<1> DEFINE s == SortTables(S, level, est)
<1>6. s \in [1 .. n -> S] /\ Sorted(s)
  <2>1. s = CHOOSE o \in [1 .. n -> S] : Sorted(o)
    BY DEF SortTables
  <2> HIDE DEF order, s, Sorted
  <2> QED BY <1>4, <1>5, <2>1
<1> HIDE DEF s
<1>7. \A i, j \in 1 .. n : i < j => Precedes(level, est, s[i], s[j])
  BY <1>6
<1>8. \A i, j \in 1 .. n : i # j => s[i] # s[j]
  <2> SUFFICES ASSUME NEW i \in 1 .. n, NEW j \in 1 .. n, i < j PROVE s[i] # s[j]
    BY <1>0
  <2> QED BY <1>6, <1>7, PrecedesOrders
<1>9. s \in Bijection(1 .. n, S)
  <2>1. s \in Injection(1 .. n, S)
    BY <1>6, <1>8 DEF Injection, IsInjective
  <2>2. s \in Surjection(1 .. n, S)
    BY <1>0, <2>1, FS_Injection
  <2> QED BY <2>1, <2>2 DEF Bijection
<1> QED BY <1>7, <1>9 DEF s

\* Every table of the plan is a number, and so finitely many.
LEMMA TablesAreFinite ==
  N \in Nat \ {0} /\ Tables \in SUBSET Nat /\ IsFiniteSet(Tables) /\ Cardinality(Tables) = N
BY SizesAreNat, FS_Interval DEF Tables

\* The orders of a plan: each has every table once.
IsOrder(order) == order \in Seq(Tables) /\ Len(order) = N /\ order \in Bijection(1 .. N, Tables)

\* A plan loads every table once, and clears every table once, whatever refers to what.
THEOREM PlanVisitsEachTableOnce ==
  \A refs, est : est \in [Tables -> Nat] =>
    /\ IsOrder(Plan(Tables, refs, est).loadOrder)
    /\ IsOrder(Plan(Tables, refs, est).cleanupOrder)
<1> SUFFICES ASSUME NEW refs, NEW est \in [Tables -> Nat]
             PROVE  /\ IsOrder(Plan(Tables, refs, est).loadOrder)
                    /\ IsOrder(Plan(Tables, refs, est).cleanupOrder)
  OBVIOUS
<1> DEFINE visited == Visited(Tables, refs)
           level == [t \in Tables |-> Cardinality({k \in 0 .. N : t \notin visited[k]})]
           order == SortTables(Tables, level, est)
<1>1. Plan(Tables, refs, est).loadOrder = order /\ Plan(Tables, refs, est).cleanupOrder = Reverse(order)
  BY TablesAreFinite DEF Plan
<1>2. level \in [Tables -> Nat]
  <2> SUFFICES ASSUME NEW t \in Tables PROVE Cardinality({k \in 0 .. N : t \notin visited[k]}) \in Nat
    OBVIOUS
  <2> DEFINE K == {k \in 0 .. N : t \notin visited[k]}
  <2>1. K \in SUBSET (0 .. N)
    OBVIOUS
  <2>2. IsFiniteSet(0 .. N)
    BY TablesAreFinite, FS_Interval
  <2> HIDE DEF K
  <2>3. Cardinality(K) \in Nat
    BY <2>1, <2>2, FS_Subset, FS_CardinalityType
  <2> QED BY <2>3 DEF K
<1> HIDE DEF level
<1>3. order \in Bijection(1 .. N, Tables)
  BY <1>2, TablesAreFinite, SortedOnce
<1> HIDE DEF order
<1>4. order \in [1 .. N -> Tables] /\ (\A i, j \in 1 .. N : i # j => order[i] # order[j])
      /\ \A t \in Tables : \E i \in 1 .. N : order[i] = t
  BY <1>3 DEF Bijection, Injection, Surjection, IsInjective
<1>5. order \in Seq(Tables) /\ Len(order) = N
  BY <1>4, TablesAreFinite
<1> DEFINE back == Reverse(order)
<1>6. back = [i \in 1 .. N |-> order[N - i + 1]]
  BY <1>5 DEF Reverse
<1>7. \A i \in 1 .. N : N - i + 1 \in 1 .. N /\ N - (N - i + 1) + 1 = i
  BY TablesAreFinite
<1>8. back \in [1 .. N -> Tables]
  BY <1>4, <1>6, <1>7
<1>9. back \in Seq(Tables) /\ Len(back) = N
  BY <1>8, TablesAreFinite
<1>10. ASSUME NEW i \in 1 .. N, NEW j \in 1 .. N, i # j PROVE back[i] # back[j]
  <2>1. back[i] = order[N - i + 1] /\ back[j] = order[N - j + 1]
    BY <1>6
  <2>2. N - i + 1 \in 1 .. N /\ N - j + 1 \in 1 .. N /\ N - i + 1 # N - j + 1
    BY <1>10, TablesAreFinite
  <2> QED BY <1>4, <2>1, <2>2
<1>11. ASSUME NEW t \in Tables PROVE \E i \in 1 .. N : back[i] = t
  <2>1. PICK j \in 1 .. N : order[j] = t
    BY <1>4
  <2>2. N - j + 1 \in 1 .. N /\ back[N - j + 1] = order[j]
    BY <1>6, <1>7
  <2> QED BY <2>1, <2>2
<1> HIDE DEF back
<1>12. back \in Bijection(1 .. N, Tables)
  BY <1>8, <1>10, <1>11 DEF Bijection, Injection, Surjection, IsInjective
<1>13. IsOrder(order) /\ IsOrder(back)
  BY <1>3, <1>5, <1>9, <1>12 DEF IsOrder
<1> QED BY <1>1, <1>13 DEF back

-----------------------------------------------------------------------------
(***************************************************************************)
(* What the plan's levels are: recursive functions over the parts of a      *)
(* finite set, which come to rest.                                         *)
(***************************************************************************)

\* Of a family of sets of tables one has no other below it.
LEMMA LeastSet ==
  ASSUME NEW S, IsFiniteSet(S), NEW F \in SUBSET (SUBSET S), F # {}
  PROVE  \E X \in F : \A Y \in F : Y \subseteq X => Y = X
<1>1. F \subseteq FiniteSubsetsOf(S)
  BY FS_Subset DEF FiniteSubsetsOf
<1>2. \E X \in F : \A Y \in F : ~ (<<Y, X>> \in StrictSubsetOrdering(S))
  BY <1>1, FS_StrictSubsetOrderingWellFounded, WFMin
<1> QED BY <1>2 DEF StrictSubsetOrdering

\* Level by level: a set with 0, and with the successor of every member below d, has d.
LEMMA Climbs ==
  ASSUME NEW d \in Nat, NEW A, 0 \in A, \A k \in Nat : k < d /\ k \in A => k + 1 \in A
  PROVE  d \in A
<1> DEFINE below(k) == 0 .. k
           F == {below(k) : k \in {i \in 0 .. d : i \notin A}}
<1>1. SUFFICES ASSUME d \notin A PROVE FALSE
  OBVIOUS
<1>2. below(d) \in F
  BY <1>1
<1>3. F \in SUBSET (SUBSET (0 .. d))
  <2> SUFFICES ASSUME NEW k \in 0 .. d PROVE below(k) \in SUBSET (0 .. d)
    OBVIOUS
  <2> QED OBVIOUS
<1>4. PICK X \in F : \A Y \in F : Y \subseteq X => Y = X
  <2>1. IsFiniteSet(0 .. d)
    BY FS_Interval
  <2>2. F # {}
    BY <1>2
  <2> HIDE DEF F
  <2> DEFINE S == 0 .. d
  <2>3. IsFiniteSet(S) /\ F \in SUBSET (SUBSET S)
    BY <1>3, <2>1
  <2> HIDE DEF S
  <2> QED BY <2>2, <2>3, LeastSet
<1>5. PICK k \in 0 .. d : k \notin A /\ X = below(k)
  BY <1>4
<1>6. k # 0 /\ k - 1 \in Nat /\ k - 1 \in 0 .. d /\ k - 1 < d /\ (k - 1) + 1 = k
  BY <1>5
<1>7. k - 1 \notin A
  BY <1>5, <1>6
<1>8. below(k - 1) \in F
  BY <1>6, <1>7
<1>9. below(k - 1) \subseteq below(k) /\ k \in below(k) /\ k \notin below(k - 1)
  BY <1>6
<1> HIDE DEF below, F
<1> QED BY <1>4, <1>5, <1>8, <1>9

\* f is what G makes of base, again and again.
Iterates(f, m, base, G) == f = [n \in 0 .. m |-> IF n = 0 THEN base ELSE G[f[n - 1]]]

\* There is such a function, so that the planner's recursive ones are what they say.
LEMMA IteratesExist ==
  ASSUME NEW m \in Nat, NEW base, NEW G
  PROVE  \E f : Iterates(f, m, base, G)
<1> DEFINE A == {k \in Nat : \E f : Iterates(f, k, base, G)}
<1>1. 0 \in A
  <2> DEFINE f == [n \in 0 .. 0 |-> base]
  <2>1. Iterates(f, 0, base, G)
    BY DEF Iterates
  <2> HIDE DEF f
  <2> QED BY <2>1
<1>2. ASSUME NEW k \in Nat, k \in A PROVE k + 1 \in A
  <2>1. PICK f : Iterates(f, k, base, G)
    BY <1>2
  <2> DEFINE h == [n \in 0 .. k + 1 |-> IF n = 0 THEN base ELSE G[f[n - 1]]]
  <2>2. \A n \in 0 .. k : h[n] = f[n]
    BY <2>1 DEF Iterates
  <2>3. \A n \in 0 .. k + 1 : n # 0 => n - 1 \in 0 .. k
    OBVIOUS
  <2>4. \A n \in 0 .. k + 1 : h[n] = IF n = 0 THEN base ELSE G[h[n - 1]]
    BY <2>2, <2>3
  <2>5. h = [n \in 0 .. k + 1 |-> h[n]]
    OBVIOUS
  <2> HIDE DEF h
  <2>6. Iterates(h, k + 1, base, G)
    <3>1. h = [n \in 0 .. k + 1 |-> IF n = 0 THEN base ELSE G[h[n - 1]]]
      BY <2>4, <2>5
    <3> QED BY <3>1 DEF Iterates
  <2> QED BY <2>6
<1>3. m \in A
  <2> HIDE DEF A
  <2> QED BY <1>1, <1>2, Climbs
<1> QED BY <1>3

\* G makes of a set of tables another, the larger of the larger, and base grows by it.
Grows(S, m, base, G) ==
  /\ IsFiniteSet(S) /\ m \in Nat /\ Cardinality(S) = m /\ base \in SUBSET S
  /\ G \in [SUBSET S -> SUBSET S] /\ \A X, Y \in SUBSET S : X \subseteq Y => G[X] \subseteq G[Y]
  /\ base \subseteq G[base]

\* What is iterated over the parts of a finite set, and only grows, comes to rest.
LEMMA IteratesRest ==
  ASSUME NEW S, NEW m, NEW base, NEW G, Grows(S, m, base, G), NEW f, Iterates(f, m, base, G)
  PROVE  /\ (\A n \in 0 .. m : f[n] \in SUBSET S) /\ f[0] = base
         /\ \A n \in 0 .. m : n # 0 => f[n] = G[f[n - 1]]
         /\ \A n \in 0 .. m : n # 0 => f[n - 1] \subseteq f[n]
         /\ f[m] = S \/ G[f[m]] = f[m]
<1>a. /\ IsFiniteSet(S) /\ m \in Nat /\ Cardinality(S) = m /\ base \in SUBSET S
      /\ G \in [SUBSET S -> SUBSET S] /\ base \subseteq G[base]
  BY DEF Grows
<1>b. \A X, Y \in SUBSET S : X \subseteq Y => G[X] \subseteq G[Y]
  BY DEF Grows
<1> USE <1>a
<1>0. \A n \in 0 .. m : f[n] = IF n = 0 THEN base ELSE G[f[n - 1]]
  BY Zenon DEF Iterates
<1>1. f[0] = base /\ (\A n \in 0 .. m : n # 0 => f[n] = G[f[n - 1]])
  BY <1>0
<1>2. \A k \in Nat : k + 1 <= m => f[k + 1] = G[f[k]]
  <2> SUFFICES ASSUME NEW k \in Nat, k + 1 <= m PROVE f[k + 1] = G[f[k]]
    OBVIOUS
  <2>1. k + 1 \in 0 .. m /\ k + 1 # 0 /\ (k + 1) - 1 = k
    OBVIOUS
  <2> QED BY <1>1, <2>1
<1>3. ASSUME NEW n \in 0 .. m PROVE f[n] \in SUBSET S
  <2> DEFINE A == {k \in Nat : k <= m => f[k] \in SUBSET S}
  <2>1. 0 \in A
    BY <1>1
  <2>2. ASSUME NEW k \in Nat, k \in A PROVE k + 1 \in A
    <3>1. CASE k + 1 <= m
      <4>1. f[k] \in SUBSET S /\ f[k + 1] = G[f[k]]
        BY <1>2, <2>2, <3>1
      <4> QED BY <4>1
    <3> QED BY <3>1
  <2>3. n \in A
    <3> HIDE DEF A
    <3> QED BY <2>1, <2>2, Climbs
  <2> QED BY <2>3
<1>4. ASSUME NEW n \in 0 .. m, n # 0 PROVE f[n - 1] \subseteq f[n]
  <2> DEFINE A == {k \in Nat : k < m => f[k] \subseteq f[k + 1]}
  <2>1. 0 \in A
    <3>1. CASE 0 < m
      BY <1>1, <3>1
    <3> QED BY <3>1
  <2>2. ASSUME NEW k \in Nat, k \in A PROVE k + 1 \in A
    <3>1. CASE k + 1 < m
      <4>1. f[k + 1] = G[f[k]] /\ f[(k + 1) + 1] = G[f[k + 1]]
        BY <1>2, <3>1
      <4>2. f[k] \in SUBSET S /\ f[k + 1] \in SUBSET S /\ f[k] \subseteq f[k + 1]
        BY <1>3, <2>2, <3>1
      <4> QED BY <1>b, <4>1, <4>2
    <3> QED BY <3>1
  <2>3. n - 1 \in A
    <3>1. n - 1 \in Nat
      BY <1>4
    <3> HIDE DEF A
    <3> QED BY <2>1, <2>2, <3>1, Climbs
  <2> QED BY <1>4, <2>3
<1>5. CASE \E n \in 0 .. m : n # 0 /\ f[n - 1] = f[n]
  <2>1. PICK n \in 0 .. m : n # 0 /\ f[n - 1] = f[n]
    BY <1>5
  <2> DEFINE A == {k \in Nat : n + k <= m => f[n + k] = f[n]}
  <2>2. 0 \in A
    OBVIOUS
  <2>3. ASSUME NEW k \in Nat, k \in A PROVE k + 1 \in A
    <3>1. CASE n + (k + 1) <= m
      <4>1. n + (k + 1) \in 0 .. m /\ n + (k + 1) # 0 /\ (n + (k + 1)) - 1 = n + k
        BY <3>1
      <4>2. f[n + (k + 1)] = G[f[n + k]]
        BY <1>1, <4>1
      <4>3. f[n + k] = f[n]
        BY <2>3, <3>1
      <4>4. f[n] = G[f[n]]
        BY <1>1, <2>1
      <4> QED BY <4>2, <4>3, <4>4
    <3> QED BY <3>1
  <2>4. m - n \in A
    <3>1. m - n \in Nat
      OBVIOUS
    <3> HIDE DEF A
    <3> QED BY <2>2, <2>3, <3>1, Climbs
  <2>5. f[m] = f[n]
    BY <2>4
  <2> QED BY <1>1, <1>3, <1>4, <2>1, <2>5
<1>6. CASE ~ \E n \in 0 .. m : n # 0 /\ f[n - 1] = f[n]
  <2> DEFINE A == {k \in Nat : k <= m => Cardinality(f[k]) >= k}
  <2>0. ASSUME NEW k \in 0 .. m PROVE IsFiniteSet(f[k]) /\ Cardinality(f[k]) \in Nat /\ Cardinality(f[k]) <= m
    BY <1>3, FS_Subset, FS_CardinalityType
  <2>1. 0 \in A
    BY <2>0
  <2>2. ASSUME NEW k \in Nat, k \in A PROVE k + 1 \in A
    <3>1. CASE k + 1 <= m
      <4>1. f[k] \subseteq f[k + 1] /\ f[k] # f[k + 1]
        BY <1>4, <1>6, <3>1
      <4>2. IsFiniteSet(f[k + 1]) /\ Cardinality(f[k]) \in Nat /\ Cardinality(f[k + 1]) \in Nat
        BY <2>0, <3>1
      <4>3. Cardinality(f[k]) <= Cardinality(f[k + 1]) /\ Cardinality(f[k]) # Cardinality(f[k + 1])
        BY <4>1, <4>2, FS_Subset
      <4> QED BY <2>2, <3>1, <4>2, <4>3
    <3> QED BY <3>1
  <2>3. m \in A
    <3> HIDE DEF A
    <3> QED BY <2>1, <2>2, Climbs
  <2>4. Cardinality(f[m]) = m
    BY <2>0, <2>3
  <2>5. f[m] = S
    BY <1>3, <2>4, FS_Subset
  <2> QED BY <1>1, <1>3, <1>4, <2>5
<1> QED BY <1>5, <1>6

\* What is visited next, and the tables one more reference up.
Ready(T, refs) == [X \in SUBSET T |-> {t \in T : Parents(T, refs, t) \subseteq X}]
Upward(T, refs) == [X \in SUBSET T |-> X \cup UNION {Parents(T, refs, p) : p \in X}]

\* The levels: each has the tables whose parents are on the levels before it, and there are
\* as many levels as it takes.
LEMMA LevelsAre ==
  ASSUME NEW T, IsFiniteSet(T), NEW m \in Nat, Cardinality(T) = m, NEW refs, NEW V, V = Visited(T, refs)
  PROVE  /\ \A n \in 0 .. m : V[n] \in SUBSET T
         /\ V[0] = {}
         /\ \A n \in 0 .. m : n # 0 => V[n] = {t \in T : Parents(T, refs, t) \subseteq V[n - 1]}
         /\ \A n \in 0 .. m : n # 0 => V[n - 1] \subseteq V[n]
         /\ V[m] = {t \in T : Parents(T, refs, t) \subseteq V[m]}
<1> DEFINE G == Ready(T, refs)
           Rec(v) == v = [n \in 0 .. m |-> IF n = 0 THEN {} ELSE {t \in T : Parents(T, refs, t) \subseteq v[n - 1]}]
<1>1. /\ G \in [SUBSET T -> SUBSET T] /\ \A X, Y \in SUBSET T : X \subseteq Y => G[X] \subseteq G[Y]
      /\ \A X \in SUBSET T : G[X] = {t \in T : Parents(T, refs, t) \subseteq X}
  BY DEF Ready
<1>2. {} \in SUBSET T /\ {} \subseteq G[{}]
  OBVIOUS
<1>g. Grows(T, m, {}, G)
  BY <1>1, <1>2 DEF Grows
<1> HIDE DEF G
<1>3. PICK f : Iterates(f, m, {}, G)
  BY IteratesExist
<1>4. \A n \in 0 .. m : f[n] \in SUBSET T
  BY <1>g, <1>3, IteratesRest
<1>5. Rec(f)
  <2>1. \A n \in 0 .. m : n # 0 => G[f[n - 1]] = {t \in T : Parents(T, refs, t) \subseteq f[n - 1]}
    BY <1>1, <1>4
  <2>2. f = [n \in 0 .. m |-> IF n = 0 THEN {} ELSE G[f[n - 1]]]
    BY <1>3 DEF Iterates
  <2> QED BY <2>1, <2>2, Zenon
<1>6. V = CHOOSE v : Rec(v)
  BY DEF Visited
<1>7. Rec(V)
  <2> HIDE DEF Rec
  <2> QED BY <1>5, <1>6
<1>8. \A n \in 0 .. m : V[n] = IF n = 0 THEN {} ELSE {t \in T : Parents(T, refs, t) \subseteq V[n - 1]}
  BY <1>7, Zenon
<1>9. \A n \in 0 .. m : V[n] \in SUBSET T
  BY <1>8
<1>10. Iterates(V, m, {}, G)
  <2>1. \A n \in 0 .. m : n # 0 => {t \in T : Parents(T, refs, t) \subseteq V[n - 1]} = G[V[n - 1]]
    BY <1>1, <1>9
  <2>2. V = [n \in 0 .. m |-> IF n = 0 THEN {} ELSE G[V[n - 1]]]
    BY <1>7, <2>1, Zenon
  <2> QED BY <2>2 DEF Iterates
<1>11. /\ \A n \in 0 .. m : n # 0 => V[n - 1] \subseteq V[n]
       /\ V[m] = T \/ G[V[m]] = V[m]
  BY <1>g, <1>10, IteratesRest
<1>12. V[m] = {t \in T : Parents(T, refs, t) \subseteq V[m]}
  <2>1. CASE V[m] = T
    BY <2>1 DEF Parents
  <2>2. CASE G[V[m]] = V[m]
    BY <1>1, <1>9, <2>2
  <2> QED BY <1>11, <2>1, <2>2
<1>13. V[0] = {} /\ \A n \in 0 .. m : n # 0 => V[n] = {t \in T : Parents(T, refs, t) \subseteq V[n - 1]}
  <2>1. 0 \in 0 .. m
    OBVIOUS
  <2> QED BY <1>8, <2>1
<1> QED BY <1>9, <1>11, <1>12, <1>13

\* The ancestors of a table: its parents, theirs, and no other.
LEMMA AncestorsAre ==
  ASSUME NEW T, IsFiniteSet(T), NEW m \in Nat, Cardinality(T) = m, NEW refs, NEW t,
         NEW A, A = Ancestors(T, refs, t)
  PROVE  /\ A \in SUBSET T /\ Parents(T, refs, t) \subseteq A
         /\ \A p \in A : Parents(T, refs, p) \subseteq A
         /\ \A X \in SUBSET T :
              Parents(T, refs, t) \subseteq X /\ (\A p \in X : Parents(T, refs, p) \subseteq X) => A \subseteq X
<1> DEFINE G == Upward(T, refs)
           base == Parents(T, refs, t)
           Rec(v) == v = [n \in 0 .. m |-> IF n = 0 THEN base ELSE v[n - 1] \cup UNION {Parents(T, refs, p) : p \in v[n - 1]}]
<1>0. \A p : Parents(T, refs, p) \in SUBSET T
  BY DEF Parents
<1>1. /\ \A X \in SUBSET T : G[X] = X \cup UNION {Parents(T, refs, p) : p \in X}
      /\ G \in [SUBSET T -> SUBSET T] /\ \A X, Y \in SUBSET T : X \subseteq Y => G[X] \subseteq G[Y]
  <2>1. \A X \in SUBSET T : X \cup UNION {Parents(T, refs, p) : p \in X} \in SUBSET T
    BY <1>0
  <2>2. G = [X \in SUBSET T |-> X \cup UNION {Parents(T, refs, p) : p \in X}]
    BY DEF Upward
  <2> HIDE DEF G
  <2>3. \A X \in SUBSET T : G[X] = X \cup UNION {Parents(T, refs, p) : p \in X}
    BY <2>2
  <2>4. G \in [SUBSET T -> SUBSET T]
    BY <2>1, <2>2
  <2>5. \A X, Y \in SUBSET T : X \subseteq Y => G[X] \subseteq G[Y]
    BY <2>3
  <2> QED BY <2>3, <2>4, <2>5
<1>2. base \in SUBSET T /\ base \subseteq G[base]
  BY <1>0, <1>1
<1> HIDE DEF G
<1>g. Grows(T, m, base, G)
  BY <1>1, <1>2 DEF Grows
<1>3. PICK f : Iterates(f, m, base, G)
  BY IteratesExist
<1>4. \A n \in 0 .. m : f[n] \in SUBSET T
  <2> HIDE DEF base
  <2> QED BY <1>g, <1>3, IteratesRest
<1> HIDE DEF base
<1>5. Rec(f)
  <2>1. \A n \in 0 .. m : n # 0 => G[f[n - 1]] = f[n - 1] \cup UNION {Parents(T, refs, p) : p \in f[n - 1]}
    BY <1>1, <1>4
  <2>2. f = [n \in 0 .. m |-> IF n = 0 THEN base ELSE G[f[n - 1]]]
    BY <1>3 DEF Iterates
  <2> QED BY <2>1, <2>2, Zenon
<1> DEFINE up == CHOOSE v : Rec(v)
<1>6. A = up[m]
  BY DEF Ancestors, base
<1>7. Rec(up)
  <2> HIDE DEF Rec
  <2> QED BY <1>5
<1> HIDE DEF up
<1>8. \A n \in 0 .. m : up[n] = IF n = 0 THEN base ELSE up[n - 1] \cup UNION {Parents(T, refs, p) : p \in up[n - 1]}
  BY <1>7, Zenon
<1>9. ASSUME NEW X \in SUBSET T, base \subseteq X, \A p \in X : Parents(T, refs, p) \subseteq X
      PROVE  \A n \in 0 .. m : up[n] \subseteq X
  <2> SUFFICES ASSUME NEW n \in 0 .. m PROVE up[n] \subseteq X
    OBVIOUS
  <2> DEFINE B == {k \in Nat : k <= m => up[k] \subseteq X}
  <2>1. 0 \in B
    <3>1. up[0] = base
      <4>1. 0 \in 0 .. m
        OBVIOUS
      <4> QED BY <1>8, <4>1
    <3> QED BY <1>9, <3>1
  <2>2. ASSUME NEW k \in Nat, k \in B PROVE k + 1 \in B
    <3>1. CASE k + 1 <= m
      <4>1. k + 1 \in 0 .. m /\ k + 1 # 0 /\ (k + 1) - 1 = k
        BY <3>1
      <4>2. up[k + 1] = up[k] \cup UNION {Parents(T, refs, p) : p \in up[k]}
        BY <1>8, <4>1
      <4>3. up[k] \subseteq X
        BY <2>2, <3>1
      <4>4. up[k + 1] \subseteq X
        BY <1>9, <4>2, <4>3
      <4> QED BY <4>4
    <3> QED BY <3>1
  <2>3. n \in B
    <3> HIDE DEF B
    <3> QED BY <2>1, <2>2, Climbs
  <2> QED BY <2>3
<1>10. \A n \in 0 .. m : up[n] \in SUBSET T
  BY <1>0, <1>2, <1>9
<1>11. Iterates(up, m, base, G)
  <2>1. \A n \in 0 .. m : n # 0 => up[n - 1] \cup UNION {Parents(T, refs, p) : p \in up[n - 1]} = G[up[n - 1]]
    BY <1>1, <1>10
  <2>2. up = [n \in 0 .. m |-> IF n = 0 THEN base ELSE G[up[n - 1]]]
    BY <1>7, <2>1, Zenon
  <2> QED BY <2>2 DEF Iterates
<1>12. /\ \A n \in 0 .. m : n # 0 => up[n - 1] \subseteq up[n]
       /\ up[m] = T \/ G[up[m]] = up[m]
  BY <1>g, <1>11, IteratesRest
<1>13. \A p \in up[m] : Parents(T, refs, p) \subseteq up[m]
  <2>1. CASE up[m] = T
    BY <1>0, <2>1
  <2>2. CASE G[up[m]] = up[m]
    <3>1. up[m] = up[m] \cup UNION {Parents(T, refs, p) : p \in up[m]}
      BY <1>1, <1>10, <2>2
    <3> QED BY <3>1
  <2> QED BY <1>12, <2>1, <2>2
<1>14. base \subseteq up[m]
  <2> DEFINE B == {k \in Nat : k <= m => base \subseteq up[k]}
  <2>1. 0 \in B
    <3>1. up[0] = base
      <4>1. 0 \in 0 .. m
        OBVIOUS
      <4> QED BY <1>8, <4>1
    <3> QED BY <3>1
  <2>2. ASSUME NEW k \in Nat, k \in B PROVE k + 1 \in B
    <3>1. CASE k + 1 <= m
      <4>1. k + 1 \in 0 .. m /\ k + 1 # 0 /\ (k + 1) - 1 = k
        BY <3>1
      <4>2. up[k] \subseteq up[k + 1]
        BY <1>12, <4>1
      <4>3. base \subseteq up[k]
        BY <2>2, <3>1
      <4> QED BY <4>2, <4>3
    <3> QED BY <3>1
  <2>3. m \in B
    <3> HIDE DEF B
    <3> QED BY <2>1, <2>2, Climbs
  <2> QED BY <2>3
<1>15. \A X \in SUBSET T : base \subseteq X /\ (\A p \in X : Parents(T, refs, p) \subseteq X) => up[m] \subseteq X
  BY <1>9
<1> QED BY <1>6, <1>10, <1>13, <1>14, <1>15 DEF base

\* The level of a table, as the plan counts it.
LevelOf(T, refs, t) == Cardinality({k \in 0 .. Cardinality(T) : t \notin Visited(T, refs)[k]})

\* A table that is visited is on a later level than each of its parents.
LEMMA LevelRises ==
  ASSUME NEW T, IsFiniteSet(T), NEW refs, NEW t \in Visited(T, refs)[Cardinality(T)],
         NEW p \in Parents(T, refs, t)
  PROVE  /\ t \in T /\ p \in Visited(T, refs)[Cardinality(T)]
         /\ LevelOf(T, refs, p) \in Nat /\ LevelOf(T, refs, t) \in Nat
         /\ LevelOf(T, refs, p) < LevelOf(T, refs, t)
<1> DEFINE m == Cardinality(T)
           V == Visited(T, refs)
           K(x) == {k \in 0 .. m : x \notin V[k]}
<1>1. m \in Nat
  BY FS_CardinalityType
<1>2. /\ \A n \in 0 .. m : V[n] \in SUBSET T
      /\ V[0] = {}
      /\ \A n \in 0 .. m : n # 0 => V[n] = {x \in T : Parents(T, refs, x) \subseteq V[n - 1]}
      /\ \A n \in 0 .. m : n # 0 => V[n - 1] \subseteq V[n]
      /\ V[m] = {x \in T : Parents(T, refs, x) \subseteq V[m]}
  BY <1>1, LevelsAre
<1>3. t \in T /\ t \in V[m] /\ p \in V[m]
  BY <1>2
<1>4. LevelOf(T, refs, p) = Cardinality(K(p)) /\ LevelOf(T, refs, t) = Cardinality(K(t))
  BY DEF LevelOf
<1> HIDE DEF V
<1>5. \A n \in 0 .. m : t \in V[n] => n # 0 /\ n - 1 \in 0 .. m /\ p \in V[n - 1]
  BY <1>1, <1>2
<1>6. K(p) \subseteq K(t)
  BY <1>1, <1>2, <1>5
<1>7. \E n \in 0 .. m : n \in K(t) /\ n \notin K(p)
  <2> SUFFICES ASSUME \A n \in 0 .. m : n \in K(t) => n \in K(p) PROVE FALSE
    OBVIOUS
  <2> DEFINE A == {k \in Nat : k <= m => t \notin V[k]}
  <2>1. 0 \in A
    BY <1>2
  <2>2. ASSUME NEW k \in Nat, k \in A PROVE k + 1 \in A
    <3>1. CASE k + 1 <= m
      <4>1. k \in 0 .. m /\ k + 1 \in 0 .. m /\ (k + 1) - 1 = k /\ t \notin V[k]
        BY <1>1, <2>2, <3>1
      <4>2. p \notin V[k]
        BY <4>1
      <4>3. t \notin V[k + 1]
        BY <1>5, <4>1, <4>2
      <4> QED BY <4>3
    <3> QED BY <3>1
  <2>3. m \in A
    <3> HIDE DEF A
    <3> QED BY <1>1, <2>1, <2>2, Climbs
  <2> QED BY <1>1, <1>3, <2>3
<1>8. IsFiniteSet(0 .. m) /\ K(p) \in SUBSET (0 .. m) /\ K(t) \in SUBSET (0 .. m)
  BY <1>1, FS_Interval
<1> DEFINE P == K(p)
           Q == K(t)
<1>9. P \subseteq Q /\ P # Q /\ IsFiniteSet(P) /\ IsFiniteSet(Q)
  <2>1. P \subseteq Q /\ P # Q
    BY <1>6, <1>7
  <2>2. IsFiniteSet(P) /\ IsFiniteSet(Q)
    <3> HIDE DEF K
    <3> QED BY <1>8, FS_Subset
  <2> QED BY <2>1, <2>2
<1> HIDE DEF P, Q
<1>10. Cardinality(P) <= Cardinality(Q) /\ Cardinality(P) # Cardinality(Q)
       /\ Cardinality(P) \in Nat /\ Cardinality(Q) \in Nat
  BY <1>9, FS_Subset, FS_CardinalityType
<1> QED BY <1>3, <1>4, <1>10 DEF P, Q, V

\* No visited table is its own ancestor, and all its ancestors are visited too.
LEMMA VisitedIsAcyclic ==
  ASSUME NEW T, IsFiniteSet(T), NEW refs, NEW t \in Visited(T, refs)[Cardinality(T)]
  PROVE  /\ t \in T /\ t \notin Ancestors(T, refs, t)
         /\ Ancestors(T, refs, t) \subseteq Visited(T, refs)[Cardinality(T)]
<1> DEFINE m == Cardinality(T)
           W == Visited(T, refs)[m]
           A == Ancestors(T, refs, t)
<1>1. m \in Nat
  BY FS_CardinalityType
<1>2. W \in SUBSET T /\ \A x \in W : Parents(T, refs, x) \subseteq W
  BY <1>1, LevelsAre
<1> DEFINE X == {p \in W : LevelOf(T, refs, p) < LevelOf(T, refs, t)}
<1>3. X \in SUBSET T
  BY <1>2
<1>4. Parents(T, refs, t) \subseteq X
  BY LevelRises
<1>5. ASSUME NEW p \in X PROVE Parents(T, refs, p) \subseteq X
  <2> SUFFICES ASSUME NEW q \in Parents(T, refs, p) PROVE q \in X
    OBVIOUS
  <2>1. q \in W /\ LevelOf(T, refs, q) \in Nat /\ LevelOf(T, refs, p) \in Nat /\ LevelOf(T, refs, q) < LevelOf(T, refs, p)
    BY LevelRises
  <2>2. LevelOf(T, refs, p) < LevelOf(T, refs, t) /\ LevelOf(T, refs, t) \in Nat
    <3> DEFINE K == {k \in 0 .. m : t \notin Visited(T, refs)[k]}
    <3>1. IsFiniteSet(0 .. m) /\ K \in SUBSET (0 .. m)
      BY <1>1, FS_Interval
    <3> HIDE DEF K
    <3>2. Cardinality(K) \in Nat
      BY <3>1, FS_Subset, FS_CardinalityType
    <3> QED BY <3>2 DEF K, LevelOf
  <2>3. LevelOf(T, refs, q) < LevelOf(T, refs, t)
    BY <2>1, <2>2
  <2> QED BY <2>1, <2>3
<1>6. A \subseteq X
  <2> HIDE DEF X, A
  <2> QED BY <1>1, <1>3, <1>4, <1>5, AncestorsAre DEF A
<1>7. LevelOf(T, refs, t) \in Nat
  <2> DEFINE K == {k \in 0 .. m : t \notin Visited(T, refs)[k]}
  <2>1. IsFiniteSet(0 .. m) /\ K \in SUBSET (0 .. m)
    BY <1>1, FS_Interval
  <2> HIDE DEF K
  <2>2. Cardinality(K) \in Nat
    BY <2>1, FS_Subset, FS_CardinalityType
  <2> QED BY <2>2 DEF K, LevelOf
<1>8. t \notin X
  BY <1>7
<1> QED BY <1>2, <1>6, <1>8

\* The tables no level visits are those on a cycle of references, or below one.
LEMMA NeverVisited ==
  ASSUME NEW T, IsFiniteSet(T), NEW refs
  PROVE  T \ Visited(T, refs)[Cardinality(T)] = Unordered(T, refs)
<1> DEFINE m == Cardinality(T)
           W == Visited(T, refs)[m]
           U == T \ W
           Anc(x) == Ancestors(T, refs, x)
<1>1. m \in Nat
  BY FS_CardinalityType
<1>2. W \in SUBSET T /\ W = {x \in T : Parents(T, refs, x) \subseteq W}
  <2> DEFINE V == Visited(T, refs)
  <2>1. /\ \A n \in 0 .. m : V[n] \in SUBSET T
        /\ V[m] = {x \in T : Parents(T, refs, x) \subseteq V[m]}
    BY <1>1, LevelsAre
  <2> QED BY <1>1, <2>1
<1>3. \A x : /\ Anc(x) \in SUBSET T /\ Parents(T, refs, x) \subseteq Anc(x)
             /\ \A p \in Anc(x) : Parents(T, refs, p) \subseteq Anc(x)
             /\ \A X \in SUBSET T :
                  Parents(T, refs, x) \subseteq X /\ (\A p \in X : Parents(T, refs, p) \subseteq X) => Anc(x) \subseteq X
  <2> SUFFICES ASSUME NEW x
               PROVE  /\ Anc(x) \in SUBSET T /\ Parents(T, refs, x) \subseteq Anc(x)
                      /\ \A p \in Anc(x) : Parents(T, refs, p) \subseteq Anc(x)
                      /\ \A X \in SUBSET T :
                           Parents(T, refs, x) \subseteq X /\ (\A p \in X : Parents(T, refs, p) \subseteq X) => Anc(x) \subseteq X
    OBVIOUS
  <2> QED BY <1>1, AncestorsAre
<1>4. ASSUME NEW t \in Unordered(T, refs) PROVE t \in U
  <2>1. t \in T /\ \E p \in Anc(t) \cup {t} : p \in Anc(p)
    BY DEF Unordered
  <2>2. ASSUME t \in W PROVE FALSE
    <3>1. Anc(t) \subseteq W
      BY <2>2, VisitedIsAcyclic
    <3>2. \A p \in W : p \notin Anc(p)
      BY VisitedIsAcyclic
    <3> QED BY <2>1, <2>2, <3>1, <3>2
  <2> QED BY <2>1, <2>2
<1>5. ASSUME NEW t \in U PROVE t \in Unordered(T, refs)
  <2> DEFINE F == {Anc(x) \cap U : x \in (Anc(t) \cup {t}) \cap U}
  <2>1. F \in SUBSET (SUBSET T) /\ F # {}
    <3>1. Anc(t) \cap U \in F
      OBVIOUS
    <3>2. \A x : Anc(x) \cap U \in SUBSET T
      BY <1>3
    <3> QED BY <3>1, <3>2
  <2>2. PICK Y \in F : \A Z \in F : Z \subseteq Y => Z = Y
    <3> HIDE DEF F
    <3> QED BY <2>1, LeastSet
  <2>3. PICK x \in (Anc(t) \cup {t}) \cap U : Y = Anc(x) \cap U
    BY <2>2
  <2>4. PICK p \in Parents(T, refs, x) : p \notin W
    BY <1>2, <2>3
  <2>5. p \in U /\ p \in Anc(x) /\ p \in Anc(t)
    <3>1. p \in T
      BY DEF Parents
    <3>2. p \in Anc(x)
      BY <1>3
    <3>3. Parents(T, refs, x) \subseteq Anc(t)
      BY <1>3, <2>3
    <3> QED BY <2>4, <3>1, <3>2, <3>3
  <2>6. Anc(p) \subseteq Anc(x)
    <3>1. Anc(x) \in SUBSET T /\ Parents(T, refs, p) \subseteq Anc(x) /\ \A q \in Anc(x) : Parents(T, refs, q) \subseteq Anc(x)
      BY <1>3, <2>5
    <3> HIDE DEF Anc
    <3> QED BY <1>3, <3>1
  <2>7. Anc(p) \cap U \in F
    BY <2>5
  <2>8. Anc(p) \cap U = Anc(x) \cap U
    <3>1. Anc(p) \cap U \subseteq Y
      BY <2>3, <2>6
    <3> HIDE DEF F, Anc
    <3> QED BY <2>2, <2>3, <2>7, <3>1
  <2>9. p \in Anc(p)
    BY <2>5, <2>8
  <2> QED BY <2>5, <2>9 DEF Unordered
<1> QED BY <1>4, <1>5

\* A plan's cyclic tables are those on a cycle of foreign keys of several tables or below
\* one, and every other table comes after all it refers to, whatever refers to what.
THEOREM ParentsComeFirst ==
  \A refs, est : est \in [Tables -> Nat] =>
    /\ Plan(Tables, refs, est).cyclicTables = Unordered(Tables, refs)
    /\ \A t \in Tables \ Unordered(Tables, refs) : \A p \in Parents(Tables, refs, t) :
         Place(Plan(Tables, refs, est).loadOrder, p) < Place(Plan(Tables, refs, est).loadOrder, t)
<1> SUFFICES ASSUME NEW refs, NEW est \in [Tables -> Nat]
             PROVE  /\ Plan(Tables, refs, est).cyclicTables = Unordered(Tables, refs)
                    /\ \A t \in Tables \ Unordered(Tables, refs) : \A p \in Parents(Tables, refs, t) :
                         Place(Plan(Tables, refs, est).loadOrder, p) < Place(Plan(Tables, refs, est).loadOrder, t)
  OBVIOUS
<1> DEFINE visited == Visited(Tables, refs)
           level == [t \in Tables |-> Cardinality({k \in 0 .. N : t \notin visited[k]})]
           order == SortTables(Tables, level, est)
<1>1. Plan(Tables, refs, est).loadOrder = order /\ Plan(Tables, refs, est).cyclicTables = Tables \ visited[N]
  BY TablesAreFinite DEF Plan
<1>2. \A t \in Tables : level[t] = LevelOf(Tables, refs, t)
  BY TablesAreFinite DEF LevelOf
<1>3. level \in [Tables -> Nat]
  <2> SUFFICES ASSUME NEW t \in Tables PROVE Cardinality({k \in 0 .. N : t \notin visited[k]}) \in Nat
    OBVIOUS
  <2> DEFINE K == {k \in 0 .. N : t \notin visited[k]}
  <2>1. K \in SUBSET (0 .. N)
    OBVIOUS
  <2>2. IsFiniteSet(0 .. N)
    BY TablesAreFinite, FS_Interval
  <2> HIDE DEF K
  <2>3. Cardinality(K) \in Nat
    BY <2>1, <2>2, FS_Subset, FS_CardinalityType
  <2> QED BY <2>3 DEF K
<1> HIDE DEF level
<1>4. /\ order \in Bijection(1 .. N, Tables)
      /\ \A i, j \in 1 .. N : i < j => Precedes(level, est, order[i], order[j])
  BY <1>3, TablesAreFinite, SortedOnce
<1> HIDE DEF order
<1>5. Tables \ visited[N] = Unordered(Tables, refs)
  BY TablesAreFinite, NeverVisited
<1>6. ASSUME NEW t \in Tables \ Unordered(Tables, refs), NEW p \in Parents(Tables, refs, t)
      PROVE  Place(order, p) < Place(order, t)
  <2>1. t \in visited[Cardinality(Tables)]
    BY <1>5, TablesAreFinite
  <2>2. LevelOf(Tables, refs, p) \in Nat /\ LevelOf(Tables, refs, t) \in Nat /\ LevelOf(Tables, refs, p) < LevelOf(Tables, refs, t)
    BY <2>1, TablesAreFinite, LevelRises
  <2>3. p \in Tables /\ t \in Tables
    BY DEF Parents
  <2>4. level[p] < level[t]
    BY <1>2, <2>2, <2>3
  <2>5. DOMAIN order = 1 .. N /\ \A x \in Tables : \E i \in 1 .. N : order[i] = x
    BY <1>4 DEF Bijection, Injection, Surjection
  <2>6. ASSUME NEW x \in Tables PROVE Place(order, x) \in 1 .. N /\ order[Place(order, x)] = x
    BY <2>5 DEF Place
  <2> DEFINE i == Place(order, p)
             j == Place(order, t)
  <2>7. i \in 1 .. N /\ order[i] = p /\ j \in 1 .. N /\ order[j] = t
    BY <2>3, <2>6
  <2> HIDE DEF i, j
  <2>8. ~ Precedes(level, est, t, p)
    <3>1. level[p] \in Nat /\ level[t] \in Nat
      BY <1>3, <2>3
    <3> QED BY <2>4, <3>1 DEF Precedes
  <2>9. i # j
    <3>1. level[p] \in Nat /\ level[t] \in Nat
      BY <1>3, <2>3
    <3> QED BY <2>4, <2>7, <3>1
  <2>10. ~ (j < i)
    BY <1>4, <2>7, <2>8
  <2>11. i < j
    BY <2>7, <2>9, <2>10, TablesAreFinite
  <2> QED BY <2>11 DEF i, j
<1> QED BY <1>1, <1>5, <1>6

-----------------------------------------------------------------------------
(***************************************************************************)
(* Loops over tables.                                                      *)
(***************************************************************************)

\* No table is in a sequence twice.
Once(s) == \A i, j \in DOMAIN s : i # j => s[i] # s[j]

\* The first of a sequence of tables, and those behind it.
LEMMA HeadAndTail ==
  ASSUME NEW s \in Seq(Tables), s # <<>>
  PROVE  /\ Head(s) \in Tables /\ Tail(s) \in Seq(Tables)
         /\ ToSet(s) = {Head(s)} \cup ToSet(Tail(s))
         /\ Len(s) = 1 => ToSet(s) = {Head(s)} /\ Tail(s) = <<>>
         /\ Len(s) # 1 => Len(s) > 1 /\ Tail(s) # <<>>
         /\ Once(s) => Once(Tail(s)) /\ Head(s) \notin ToSet(Tail(s))
<1>1. Len(s) \in Nat /\ Len(s) >= 1 /\ DOMAIN s = 1 .. Len(s) /\ Head(s) = s[1] /\ s[1] \in Tables
  OBVIOUS
<1>2. /\ Tail(s) \in Seq(Tables) /\ Len(Tail(s)) = Len(s) - 1 /\ DOMAIN Tail(s) = 1 .. Len(s) - 1
      /\ \A i \in 1 .. Len(s) - 1 : Tail(s)[i] = s[i + 1]
  BY <1>1
<1> DEFINE T == Tail(s)
<1> HIDE DEF T
<1>3. /\ T \in Seq(Tables) /\ Len(T) = Len(s) - 1 /\ DOMAIN T = 1 .. Len(s) - 1
      /\ \A i \in 1 .. Len(s) - 1 : T[i] = s[i + 1]
  BY <1>2 DEF T
<1>4. ToSet(s) = {s[1]} \cup ToSet(T)
  <2>1. \A x \in ToSet(s) : x = s[1] \/ x \in ToSet(T)
    <3> SUFFICES ASSUME NEW i \in 1 .. Len(s) PROVE s[i] = s[1] \/ s[i] \in ToSet(T)
      BY <1>1 DEF ToSet
    <3>1. CASE i # 1
      <4>1. i - 1 \in DOMAIN T /\ T[i - 1] = s[i]
        BY <1>1, <1>3, <3>1
      <4> QED BY <4>1 DEF ToSet
    <3> QED BY <3>1
  <2>2. \A x \in ToSet(T) : x \in ToSet(s)
    <3> SUFFICES ASSUME NEW i \in 1 .. Len(s) - 1 PROVE T[i] \in ToSet(s)
      BY <1>3 DEF ToSet
    <3>1. i + 1 \in DOMAIN s /\ T[i] = s[i + 1]
      BY <1>1, <1>3
    <3> QED BY <3>1 DEF ToSet
  <2>3. s[1] \in ToSet(s)
    BY <1>1 DEF ToSet
  <2> QED BY <2>1, <2>2, <2>3
<1>5. ASSUME Len(s) = 1 PROVE ToSet(s) = {s[1]} /\ T = <<>>
  <2>1. DOMAIN T = {} /\ T = <<>>
    BY <1>3, <1>5
  <2> QED BY <1>4, <2>1 DEF ToSet
<1>6. ASSUME Len(s) # 1 PROVE Len(s) > 1 /\ T # <<>>
  BY <1>1, <1>3, <1>6
<1>7. ASSUME Once(s) PROVE Once(T) /\ s[1] \notin ToSet(T)
  <2>1. \A i \in DOMAIN T : i + 1 \in DOMAIN s /\ i + 1 # 1 /\ T[i] = s[i + 1] /\ 1 \in DOMAIN s
    BY <1>1, <1>3
  <2>2. Once(T)
    BY <1>1, <1>3, <1>7, <2>1 DEF Once
  <2> QED BY <1>7, <2>1, <2>2 DEF Once, ToSet
<1> QED BY <1>1, <1>3, <1>4, <1>5, <1>6, <1>7 DEF T

\* The loop over the names of the tables has all of them before it.
LEMMA NamesAreAll == TableNames \in Seq(Tables) /\ TableNames # <<>> /\ ToSet(TableNames) = Tables
<1>1. TableNames \in [1 .. N -> Tables] /\ DOMAIN TableNames = Tables
  BY TablesAreFinite DEF TableNames, Tables
<1>2. TableNames \in Seq(Tables) /\ Len(TableNames) = N
  BY <1>1, TablesAreFinite
<1>3. ToSet(TableNames) = Tables
  BY <1>1 DEF ToSet, TableNames
<1> QED BY <1>2, <1>3, TablesAreFinite

-----------------------------------------------------------------------------
(***************************************************************************)
(* Where a run is.                                                         *)
(***************************************************************************)

DataPhases == {"open", "clear", "copy", "table", "spawn", "pool"}
Looping == {"disable", "enable", "undo", "clear", "copy", "table"}
Phases == {"step", "disable", "enable", "undo", "over"} \cup DataPhases

PlanMade == IsOrder(plan.loadOrder) /\ IsOrder(plan.cleanupOrder)

\* The phases belong to their steps, a loop has a table before it, a run that is not over
\* has no outcome, and the guards may be off from the step that switches them off until
\* the one that switches them on is done.
ControlInv ==
  /\ job \in Jobs /\ step \in 1 .. LastStep /\ phase \in Phases /\ done \in Nat
  /\ left \in Seq(Tables) /\ (phase \in Looping => left # <<>>)
  /\ phase \in DataPhases => step = DataStep /\ PlanMade
  /\ phase = "disable" => step = DisableStep /\ mayBeOff
  /\ phase = "enable" => step = EnableStep
  /\ phase = "undo" => aborted # "no"
  /\ phase # "over" => outcome = "running"
  /\ phase # "over" /\ step \in {DataStep, EnableStep} => mayBeOff
  /\ step > EnableStep => ~ mayBeOff

\* An order is a sequence of tables, and not empty.
LEMMA OrdersAreLoops ==
  ASSUME NEW order, IsOrder(order)
  PROVE  order \in Seq(Tables) /\ order # <<>> /\ ToSet(order) = Tables /\ Once(order)
<1>1. order \in Seq(Tables) /\ Len(order) = N /\ order \in [1 .. N -> Tables] /\ order # <<>>
  BY TablesAreFinite DEF IsOrder, Bijection, Injection
<1>2. Once(order)
  BY <1>1 DEF IsOrder, Bijection, Injection, IsInjective, Once
<1>3. ToSet(order) = Tables
  BY <1>1 DEF IsOrder, Bijection, Surjection, ToSet
<1> QED BY <1>1, <1>2, <1>3

\* A run ends, or what it has switched off is switched on again first.
LEMMA ThrowControlled ==
  ASSUME ControlInv, phase # "over", NEW s, Throw(s), s = "cancelled" => aborted # "no",
         UNCHANGED <<job, plan, aborted, mayBeOff>>
  PROVE  ControlInv'
<1>1. CASE Finish(s)
  BY <1>1, EmptySeq DEF ControlInv, Finish, Goto, Phases, DataPhases, Looping, PlanMade
<1>2. CASE s = "cancelled" /\ mayBeOff /\ Goto("undo", TableNames) /\ UNCHANGED <<step, outcome>>
  BY <1>2, NamesAreAll DEF ControlInv, Goto, Phases, DataPhases, Looping, DataStep, DisableStep, EnableStep, LastStep
<1> QED BY <1>1, <1>2 DEF Throw

\* The next step.
LEMMA NextControlled ==
  ASSUME ControlInv, phase # "over", step # LastStep, NextStep, UNCHANGED <<job, plan, aborted, outcome>>,
         step + 1 \in {DataStep, EnableStep} => mayBeOff', step + 1 > EnableStep => ~ mayBeOff'
  PROVE  ControlInv'
<1>1. step \in 1 .. 8
  BY DEF ControlInv, LastStep
<1> QED BY <1>1, EmptySeq DEF ControlInv, NextStep, Goto, Phases, DataPhases, Looping, LastStep, DataStep, EnableStep

\* Another turn of a loop.
LEMMA TurnControlled ==
  ASSUME ControlInv, phase \in Looping, Len(left) # 1, Goto(phase, Tail(left)),
         UNCHANGED <<job, step, outcome, plan, aborted, mayBeOff>>
  PROVE  ControlInv'
<1>1. Tail(left) \in Seq(Tables) /\ Tail(left) # <<>>
  BY HeadAndTail DEF ControlInv
<1> QED BY <1>1 DEF ControlInv, Goto, PlanMade

\* Steps that leave the control as it is.
LEMMA ControlStays ==
  ASSUME ControlInv, UNCHANGED <<job, step, phase, left, done, plan, aborted, mayBeOff, outcome>>
  PROVE  ControlInv'
BY DEF ControlInv, PlanMade

\* The orchestrator.
LEMMA OrchestratorControlled == ASSUME ControlInv, Orchestrator PROVE ControlInv'
<1>0. step \in 1 .. LastStep /\ LastStep = 9 /\ DisableStep = 5 /\ DataStep = 6 /\ EnableStep = 7
  BY DEF ControlInv, LastStep, DisableStep, DataStep, EnableStep
<1>1. CASE CancelBeforeStep
  BY <1>1, ThrowControlled DEF CancelBeforeStep
<1>2. CASE PlainStep
  <2>0. phase = "step" /\ step \notin {DisableStep, DataStep, EnableStep} /\ UNCHANGED <<job, plan, aborted, mayBeOff>>
    BY <1>2 DEF PlainStep
  <2>1. CASE NextStep /\ UNCHANGED outcome /\ step # LastStep
    <3>1. step + 1 \in {DataStep, EnableStep} => mayBeOff
      BY <1>0, <2>0
    <3>2. step + 1 > EnableStep => ~ mayBeOff
      BY <1>0, <2>0 DEF ControlInv
    <3> QED BY <2>0, <2>1, <3>1, <3>2, NextControlled
  <2>2. CASE \E s \in {"succeeded", "failed"} : Finish(s)
    <3>1. PICK s \in {"succeeded", "failed"} : Finish(s)
      BY <2>2
    <3>2. Throw(s)
      BY <3>1 DEF Throw
    <3> QED BY <2>0, <3>2, ThrowControlled
  <2>3. CASE Throw("failed")
    BY <2>0, <2>3, ThrowControlled
  <2> QED BY <1>2, <2>1, <2>2, <2>3 DEF PlainStep
<1>3. CASE StartDisable
  BY <1>0, <1>3, NamesAreAll DEF StartDisable, ControlInv, Goto, Phases, DataPhases, Looping
<1>4. CASE DisableTriggers
  <2>0. phase = "disable" /\ step = DisableStep /\ mayBeOff /\ UNCHANGED <<job, plan, aborted, mayBeOff>>
    BY <1>4 DEF DisableTriggers, ControlInv
  <2>1. CASE Throw("failed")
    BY <2>0, <2>1, ThrowControlled
  <2>2. CASE NextStep /\ UNCHANGED outcome
    BY <1>0, <2>0, <2>2, NextControlled
  <2>3. CASE Len(left) # 1 /\ Goto("disable", Tail(left)) /\ UNCHANGED <<step, outcome>>
    BY <2>0, <2>3, TurnControlled DEF Looping
  <2> QED BY <1>4, <2>1, <2>2, <2>3 DEF DisableTriggers
<1>5. CASE StartEnable
  BY <1>0, <1>5, NamesAreAll DEF StartEnable, ControlInv, Goto, Phases, DataPhases, Looping, endVars
<1>6. CASE EnableTriggers
  <2>0. phase = "enable" /\ step = EnableStep /\ UNCHANGED <<job, plan, aborted>>
    BY <1>6 DEF EnableTriggers, ControlInv
  <2>1. CASE Throw("failed") /\ UNCHANGED mayBeOff
    BY <2>0, <2>1, ThrowControlled
  <2>2. CASE NextStep /\ mayBeOff' = FALSE /\ UNCHANGED outcome
    BY <1>0, <2>0, <2>2, NextControlled
  <2>3. CASE Len(left) # 1 /\ Goto("enable", Tail(left)) /\ UNCHANGED <<step, mayBeOff, outcome>>
    BY <2>0, <2>3, TurnControlled DEF Looping
  <2> QED BY <1>6, <2>1, <2>2, <2>3 DEF EnableTriggers
<1>7. CASE Compensate
  <2>0. phase = "undo" /\ aborted # "no" /\ UNCHANGED <<job, plan, aborted, mayBeOff>>
    BY <1>7 DEF Compensate, ControlInv
  <2>1. CASE Finish("cancelled")
    BY <2>0, <2>1, EmptySeq DEF ControlInv, Finish, Goto, Phases, DataPhases, Looping, PlanMade
  <2>2. CASE Len(left) # 1 /\ Goto("undo", Tail(left)) /\ UNCHANGED <<step, outcome>>
    BY <2>0, <2>2, TurnControlled DEF Looping
  <2> QED BY <1>7, <2>1, <2>2 DEF Compensate
<1> QED BY <1>1, <1>2, <1>3, <1>4, <1>5, <1>6, <1>7 DEF Orchestrator

\* A copy ends with its finally, or before there is one.
Ends(t, ok) == EndCopy(t, ok) \/ (UNCHANGED guards /\ EndTable(t, ok))

\* The end of a table: the control of whatever way it ends.
LEMMA TableEndControlled ==
  ASSUME ControlInv, phase \in {"copy", "table"}, NEW t, NEW ok, Ends(t, ok),
         UNCHANGED <<job, plan, aborted, mayBeOff>>
  PROVE  ControlInv'
<1>0. step = DataStep /\ mayBeOff /\ left # <<>> /\ left \in Seq(Tables)
  BY DEF ControlInv, DataPhases, Looping
<1>1. \E r \in BOOLEAN : EndTable(t, r) \/ EndTable(t, ok)
  BY DEF Ends, EndCopy
<1>2. \/ aborted # "no" /\ Throw("cancelled")
      \/ Len(left) > 1 /\ Goto("copy", Tail(left)) /\ UNCHANGED <<step, outcome>>
      \/ NextStep /\ UNCHANGED outcome
  BY <1>1 DEF EndTable, EndData
<1>3. CASE aborted # "no" /\ Throw("cancelled")
  BY <1>3, ThrowControlled
<1>4. CASE Len(left) > 1 /\ Goto("copy", Tail(left)) /\ UNCHANGED <<step, outcome>>
  <2>0. Len(left) # 1
    <3>1. Len(left) > 1 /\ Len(left) \in Nat
      BY <1>0, <1>4, LenProperties
    <3> DEFINE n == Len(left)
    <3>2. n > 1 /\ n \in Nat
      BY <3>1
    <3> HIDE DEF n
    <3>3. n # 1
      BY <3>2
    <3> QED BY <3>3 DEF n
  <2>1. Tail(left) \in Seq(Tables) /\ Tail(left) # <<>>
    BY <1>0, <2>0, HeadAndTail
  <2> QED BY <1>4, <2>1 DEF ControlInv, Goto, Phases, DataPhases, Looping, PlanMade
<1>5. CASE NextStep /\ UNCHANGED outcome
  BY <1>0, <1>5, NextControlled DEF DataStep, LastStep, EnableStep
<1> QED BY <1>2, <1>3, <1>4, <1>5

\* Into a phase of the data step that loops over a plan's order.
LEMMA LoadControlled ==
  ASSUME ControlInv, phase \in DataPhases, UNCHANGED <<job, plan, aborted, mayBeOff, step, outcome>>,
         \/ Goto("clear", plan.cleanupOrder) \/ Goto("copy", plan.loadOrder)
         \/ Goto("spawn", <<>>) \/ Goto("pool", <<>>)
  PROVE  ControlInv'
<1>0. PlanMade /\ step = DataStep
  BY DEF ControlInv
<1>1. /\ plan.loadOrder \in Seq(Tables) /\ plan.loadOrder # <<>>
      /\ plan.cleanupOrder \in Seq(Tables) /\ plan.cleanupOrder # <<>>
  BY <1>0, OrdersAreLoops DEF PlanMade
<1>2. \E p \in {"clear", "copy", "spawn", "pool"}, l \in Seq(Tables) : Goto(p, l) /\ (p \in Looping => l # <<>>)
  BY <1>1, EmptySeq DEF Looping
<1>3. phase' \in DataPhases /\ left' \in Seq(Tables) /\ (phase' \in Looping => left' # <<>>) /\ done' = 0
  BY <1>2 DEF Goto, DataPhases
<1>4. PlanMade'
  BY <1>0 DEF PlanMade
<1> QED BY <1>0, <1>3, <1>4 DEF ControlInv, Phases, DataPhases

\* The migrator.
LEMMA MigratorControlled == ASSUME ControlInv, Migrator PROVE ControlInv'
<1>0. step \in 1 .. LastStep /\ LastStep = 9 /\ DisableStep = 5 /\ DataStep = 6 /\ EnableStep = 7
  BY DEF ControlInv, LastStep, DisableStep, DataStep, EnableStep
<1>1. CASE StartData
  <2>0. phase = "step" /\ step = DataStep /\ UNCHANGED <<job, aborted, mayBeOff>>
    BY <1>1 DEF StartData
  <2>1. CASE plan' = Plan(Tables, job.refs, job.est) /\ Goto("open", <<>>) /\ UNCHANGED <<step, outcome>>
    <3>1. job.est \in [Tables -> Nat]
      BY JobsAreMigrations DEF ControlInv
    <3>2. PlanMade'
      BY <2>1, <3>1, PlanVisitsEachTableOnce DEF PlanMade
    <3> QED BY <2>0, <2>1, <3>2, EmptySeq DEF ControlInv, Goto, Phases, DataPhases, Looping
  <2>2. CASE Throw("failed") /\ UNCHANGED plan
    BY <2>0, <2>2, ThrowControlled
  <2> QED BY <1>1, <2>1, <2>2 DEF StartData
<1>2. CASE Open
  <2>0. phase = "open" /\ UNCHANGED <<job, plan, aborted, mayBeOff>>
    BY <1>2 DEF Open
  <2>1. CASE aborted # "no" /\ Throw("cancelled")
    BY <2>0, <2>1, ThrowControlled
  <2>2. CASE Throw("failed")
    BY <2>0, <2>2, ThrowControlled
  <2>3. CASE (Goto("clear", plan.cleanupOrder) \/ Goto("copy", plan.loadOrder)) /\ UNCHANGED <<step, outcome>>
    BY <2>0, <2>3, LoadControlled DEF DataPhases
  <2> QED BY <1>2, <2>1, <2>2, <2>3 DEF Open, CancelHere
<1>3. CASE ClearPg
  <2>0. phase = "clear" /\ UNCHANGED <<job, plan, aborted, mayBeOff>>
    BY <1>3 DEF ClearPg
  <2>1. CASE Throw("failed")
    BY <2>0, <2>1, ThrowControlled
  <2>2. CASE AfterClear /\ UNCHANGED <<step, outcome>>
    BY <2>0, <2>2, LoadControlled DEF AfterClear, DataPhases
  <2> QED BY <1>3, <2>1, <2>2 DEF ClearPg
<1>4. CASE ClearTable
  <2>0. phase = "clear" /\ UNCHANGED <<job, plan, aborted, mayBeOff>>
    BY <1>4 DEF ClearTable
  <2>1. CASE Throw("failed")
    BY <2>0, <2>1, ThrowControlled
  <2>2. CASE AfterClear /\ UNCHANGED <<step, outcome>>
    BY <2>0, <2>2, LoadControlled DEF AfterClear, DataPhases
  <2>3. CASE Len(left) # 1 /\ Goto("clear", Tail(left)) /\ UNCHANGED <<step, outcome>>
    BY <2>0, <2>3, TurnControlled DEF Looping
  <2> QED BY <1>4, <2>1, <2>2, <2>3 DEF ClearTable
<1>5. CASE StartTable
  <2>0. phase = "copy" /\ UNCHANGED <<job, plan, aborted, mayBeOff>>
    BY <1>5 DEF StartTable
  <2>1. CASE aborted # "no" /\ Throw("cancelled")
    BY <2>0, <2>1, ThrowControlled
  <2>2. CASE phase' = "table" /\ UNCHANGED <<left, done, step, outcome>>
    BY <2>0, <2>2 DEF ControlInv, Phases, DataPhases, Looping, PlanMade
  <2>3. CASE Ends(Head(left), FALSE)
    BY <2>0, <2>3, TableEndControlled
  <2> QED BY <1>5, <2>1, <2>2, <2>3 DEF StartTable, StartFails, Ends, CancelHere
<1>6. CASE CopyBatch
  BY <1>6 DEF CopyBatch, ControlInv, PlanMade, endVars
<1>7. CASE CancelMidCopy
  <2>0. phase = "table" /\ aborted # "no" /\ UNCHANGED <<job, plan, aborted, mayBeOff>>
    BY <1>7 DEF CancelMidCopy
  <2>1. CASE Throw("cancelled")
    BY <2>0, <2>1, ThrowControlled
  <2>2. CASE EndCopy(Head(left), FALSE)
    BY <2>0, <2>2, TableEndControlled DEF Ends
  <2> QED BY <1>7, <2>1, <2>2 DEF CancelMidCopy, CancelHere
<1>8. CASE FinishTable
  <2>1. phase = "table" /\ EndCopy(Head(left), TRUE) /\ UNCHANGED <<job, plan, aborted, mayBeOff>>
    BY <1>8 DEF FinishTable
  <2> QED BY <2>1, TableEndControlled DEF Ends
<1>9. CASE FailTable
  <2>1. phase = "table" /\ EndCopy(Head(left), FALSE) /\ UNCHANGED <<job, plan, aborted, mayBeOff>>
    BY <1>9 DEF FailTable
  <2> QED BY <2>1, TableEndControlled DEF Ends
<1>10. CASE Crash
  <2>1. phase = "table" /\ Throw("crashed") /\ UNCHANGED <<job, plan, aborted, mayBeOff>>
    BY <1>10 DEF Crash, Throw
  <2> QED BY <2>1, ThrowControlled
<1>11. CASE SpawnWorkers
  <2>1. phase = "spawn" /\ Goto("pool", <<>>) /\ UNCHANGED <<job, plan, aborted, mayBeOff, step, outcome>>
    BY <1>11 DEF SpawnWorkers, endVars
  <2> QED BY <2>1, LoadControlled DEF DataPhases
<1>12. CASE PoolDone
  <2>0. phase = "pool" /\ UNCHANGED <<job, plan, aborted, mayBeOff>> /\ step = DataStep /\ mayBeOff
    BY <1>12 DEF PoolDone, ControlInv, DataPhases
  <2>1. CASE aborted # "no" /\ Throw("cancelled")
    BY <2>0, <2>1, ThrowControlled
  <2>2. CASE NextStep /\ UNCHANGED outcome
    BY <1>0, <2>0, <2>2, NextControlled
  <2> QED BY <1>12, <2>1, <2>2 DEF PoolDone, EndData
<1> QED
  BY <1>1, <1>2, <1>3, <1>4, <1>5, <1>6, <1>7, <1>8, <1>9, <1>10, <1>11, <1>12 DEF Migrator

\* Every step leaves the run somewhere it can be.
LEMMA ControlStep == ASSUME ControlInv, [MigrationNext]_migrationVars PROVE ControlInv'
<1>1. CASE Pool
  <2>1. PICK w \in Workers :
          \/ WorkerCopies(w) \/ WorkerReports(w) \/ WorkerFailsTable(w) \/ WorkerDies(w) \/ WorkerStops(w)
    BY <1>1 DEF Pool
  <2>2. CASE WorkerCopies(w) \/ WorkerReports(w) \/ WorkerFailsTable(w) \/ WorkerStops(w)
    BY <2>2, ControlStays DEF WorkerCopies, WorkerReports, WorkerFailsTable, WorkerStops, loopVars, endVars
  <2>3. CASE WorkerDies(w)
    <3>0. UNCHANGED <<job, plan, aborted, mayBeOff>>
      BY <2>3 DEF WorkerDies
    <3>1. CASE phase = "pool" /\ Throw("failed")
      BY <3>0, <3>1, ThrowControlled
    <3>2. CASE UNCHANGED <<step, phase, left, done, outcome>>
      BY <3>0, <3>2, ControlStays
    <3> QED BY <2>3, <3>1, <3>2 DEF WorkerDies
  <2> QED BY <2>1, <2>2, <2>3
<1>2. CASE Abort
  BY <1>2 DEF Abort, ControlInv, PlanMade, loopVars, endVars
<1>3. CASE ProcessKilled \/ UNCHANGED migrationVars
  BY <1>3, ControlStays DEF ProcessKilled, migrationVars, loopVars, endVars
<1> QED BY <1>1, <1>2, <1>3, OrchestratorControlled, MigratorControlled DEF MigrationNext

-----------------------------------------------------------------------------
(***************************************************************************)
(* The guards of the destination.                                          *)
(***************************************************************************)

\* The guards are up unless this run may have them off, and the loop that switches them
\* on has behind it those that are on.
GuardInv ==
  /\ guards \in [Tables -> BOOLEAN]
  /\ ~ mayBeOff => \A t \in Tables : guards[t]
  /\ phase \in {"enable", "undo"} => \A t \in Tables : guards[t] \/ t \in ToSet(left)
  /\ outcome = "succeeded" => ~ mayBeOff
  /\ GuardsRestored

\* A run that ends, or switches its guards back on first.
LEMMA ThrowGuarded ==
  ASSUME ControlInv, GuardInv, phase # "over", NEW s \in {"failed", "cancelled", "crashed"}, Throw(s),
         guards' \in [Tables -> BOOLEAN], ~ mayBeOff => UNCHANGED guards, UNCHANGED <<mayBeOff, undone>>
  PROVE  GuardInv'
<1>1. CASE Finish(s) /\ ~ (s = "cancelled" /\ mayBeOff)
  <2>1. phase' = "over" /\ outcome' = s
    BY <1>1 DEF Finish, Goto
  <2>2. ~ mayBeOff' => \A t \in Tables : guards'[t]
    BY DEF GuardInv
  <2> QED BY <1>1, <2>1, <2>2 DEF GuardInv, GuardsRestored
<1>2. CASE s = "cancelled" /\ mayBeOff /\ Goto("undo", TableNames) /\ UNCHANGED <<step, outcome>>
  <2>1. phase' = "undo" /\ ToSet(left') = Tables /\ outcome' = "running" /\ mayBeOff'
    BY <1>2, NamesAreAll DEF Goto, ControlInv
  <2> QED BY <2>1 DEF GuardInv, GuardsRestored
<1> QED BY <1>1, <1>2 DEF Throw

\* A run that goes on with guards it may have off.
LEMMA WorkGuarded ==
  ASSUME ControlInv', phase' \notin {"enable", "undo", "over"},
         guards' \in [Tables -> BOOLEAN], ~ mayBeOff' => \A t \in Tables : guards'[t]
  PROVE  GuardInv'
<1>1. outcome' = "running"
  BY DEF ControlInv
<1> QED BY <1>1 DEF GuardInv, GuardsRestored

\* Nothing that has to do with the guards.
LEMMA GuardsStay ==
  ASSUME GuardInv, UNCHANGED <<guards, mayBeOff, phase, left, outcome, undone>>
  PROVE  GuardInv'
BY DEF GuardInv, GuardsRestored

\* One table more has its guard up.
LEMMA LoopGuarded ==
  ASSUME ControlInv, GuardInv, phase \in {"enable", "undo"}, Reenabled(Head(left))
  PROVE  /\ guards' \in [Tables -> BOOLEAN]
         /\ \A t \in Tables : guards'[t] \/ t \in ToSet(Tail(left))
         /\ Len(left) = 1 => \A t \in Tables : guards'[t]
<1>1. left \in Seq(Tables) /\ left # <<>>
  BY DEF ControlInv, Looping
<1>2. guards \in [Tables -> BOOLEAN] /\ guards' = [guards EXCEPT ![Head(left)] = TRUE]
      /\ \A t \in Tables : guards[t] \/ t \in ToSet(left)
  BY DEF GuardInv, Reenabled
<1>3. ToSet(left) = {Head(left)} \cup ToSet(Tail(left)) /\ (Len(left) = 1 => ToSet(left) = {Head(left)})
      /\ Head(left) \in Tables
  BY <1>1, HeadAndTail
<1>4. guards' \in [Tables -> BOOLEAN] /\ \A t \in Tables : guards'[t] = IF t = Head(left) THEN TRUE ELSE guards[t]
  BY <1>2, <1>3
<1> QED BY <1>2, <1>3, <1>4

\* The orchestrator.
LEMMA OrchestratorGuarded == ASSUME ControlInv, ControlInv', GuardInv, Orchestrator PROVE GuardInv'
<1>0. guards \in [Tables -> BOOLEAN] /\ (~ mayBeOff => \A t \in Tables : guards[t])
  BY DEF GuardInv
<1>1. CASE CancelBeforeStep
  BY <1>0, <1>1, ThrowGuarded DEF CancelBeforeStep
<1>2. CASE PlainStep
  <2>0. phase = "step" /\ UNCHANGED <<guards, mayBeOff, undone>>
    BY <1>2 DEF PlainStep
  <2>1. CASE NextStep
    BY <1>0, <2>0, <2>1, WorkGuarded DEF NextStep, Goto
  <2>2. CASE step = LastStep /\ \E s \in {"succeeded", "failed"} : Finish(s)
    <3>1. ~ mayBeOff /\ phase' = "over" /\ \A t \in Tables : guards'[t]
      BY <1>0, <2>0, <2>2 DEF ControlInv, LastStep, EnableStep, Finish, Goto
    <3> QED BY <1>0, <2>0, <3>1 DEF GuardInv, GuardsRestored
  <2>3. CASE Throw("failed")
    BY <1>0, <2>0, <2>3, ThrowGuarded
  <2> QED BY <1>2, <2>1, <2>2, <2>3 DEF PlainStep
<1>3. CASE StartDisable
  <2>1. guards' = guards /\ mayBeOff' = TRUE /\ left' = TableNames /\ phase' \in {"disable", "undo"} /\ outcome' = outcome
    BY <1>3 DEF StartDisable, Goto
  <2>2. outcome' = "running"
    BY <2>1 DEF ControlInv
  <2> QED BY <1>0, <2>1, <2>2, NamesAreAll DEF GuardInv, GuardsRestored
<1>4. CASE DisableTriggers
  <2>0. phase = "disable" /\ mayBeOff /\ UNCHANGED <<mayBeOff, undone>>
    BY <1>4 DEF DisableTriggers, ControlInv
  <2>1. CASE Throw("failed") /\ UNCHANGED guards
    BY <1>0, <2>0, <2>1, ThrowGuarded
  <2>2. CASE /\ guards' = [guards EXCEPT ![Head(left)] = ~Persistent]
             /\ NextStep \/ Goto("disable", Tail(left))
    <3>1. guards' \in [Tables -> BOOLEAN]
      BY <1>0, <2>2 DEF Persistent
    <3>2. phase' \in {"step", "disable"}
      BY <2>2 DEF NextStep, Goto
    <3> QED BY <2>0, <3>1, <3>2, WorkGuarded
  <2> QED BY <1>4, <2>1, <2>2 DEF DisableTriggers
<1>5. CASE StartEnable
  <2>1. UNCHANGED <<guards, mayBeOff>> /\ left' = TableNames /\ phase' = "enable"
    BY <1>5 DEF StartEnable, Goto, endVars
  <2>2. outcome' = "running"
    BY <2>1 DEF ControlInv
  <2> QED BY <1>0, <2>1, <2>2, NamesAreAll DEF GuardInv, GuardsRestored
<1>6. CASE EnableTriggers
  <2>0. phase = "enable" /\ UNCHANGED undone
    BY <1>6 DEF EnableTriggers
  <2>1. CASE Throw("failed") /\ UNCHANGED <<guards, mayBeOff>>
    BY <1>0, <2>0, <2>1, ThrowGuarded
  <2>2. CASE Reenabled(Head(left)) /\ Len(left) = 1 /\ NextStep
    BY <2>0, <2>2, LoopGuarded, WorkGuarded DEF NextStep, Goto
  <2>3. CASE Reenabled(Head(left)) /\ Goto("enable", Tail(left)) /\ UNCHANGED <<mayBeOff, outcome>>
    <3>1. guards' \in [Tables -> BOOLEAN] /\ \A t \in Tables : guards'[t] \/ t \in ToSet(left')
      BY <2>0, <2>3, LoopGuarded DEF Goto
    <3>2. ~ mayBeOff' => \A t \in Tables : guards'[t]
      BY <1>0, <2>3, <3>1 DEF Reenabled
    <3>3. outcome' = "running" /\ phase' = "enable"
      BY <2>0, <2>3 DEF ControlInv, Goto
    <3> QED BY <3>1, <3>2, <3>3 DEF GuardInv, GuardsRestored
  <2> QED BY <1>6, <2>1, <2>2, <2>3 DEF EnableTriggers
<1>7. CASE Compensate
  <2>0. phase = "undo" /\ UNCHANGED mayBeOff
    BY <1>7 DEF Compensate
  <2>1. CASE Finish("cancelled") /\ undone' = "failed" /\ UNCHANGED guards
    BY <1>0, <2>0, <2>1 DEF GuardInv, GuardsRestored, Finish, Goto
  <2>2. CASE Reenabled(Head(left)) /\ Len(left) = 1 /\ Finish("cancelled")
    <3>1. guards' \in [Tables -> BOOLEAN] /\ \A t \in Tables : guards'[t]
      BY <2>0, <2>2, LoopGuarded
    <3> QED BY <2>2, <3>1 DEF GuardInv, GuardsRestored, Finish, Goto
  <2>3. CASE Reenabled(Head(left)) /\ Goto("undo", Tail(left)) /\ UNCHANGED <<outcome, undone>>
    <3>1. guards' \in [Tables -> BOOLEAN] /\ \A t \in Tables : guards'[t] \/ t \in ToSet(left')
      BY <2>0, <2>3, LoopGuarded DEF Goto
    <3>2. ~ mayBeOff' => \A t \in Tables : guards'[t]
      BY <1>0, <2>0, <2>3, <3>1 DEF Reenabled
    <3>3. outcome' = "running" /\ phase' = "undo"
      BY <2>0, <2>3 DEF ControlInv, Goto
    <3> QED BY <3>1, <3>2, <3>3 DEF GuardInv, GuardsRestored
  <2> QED BY <1>7, <2>1, <2>2, <2>3 DEF Compensate
<1> QED BY <1>1, <1>2, <1>3, <1>4, <1>5, <1>6, <1>7 DEF Orchestrator

\* What a migrator that ends may do to the guards.
LEMMA LeaveTyped == ASSUME guards \in [Tables -> BOOLEAN], Leave PROVE guards' \in [Tables -> BOOLEAN]
BY DEF Leave

\* The end of a table.
LEMMA TableEndGuarded ==
  ASSUME ControlInv, ControlInv', GuardInv, phase \in {"copy", "table"}, NEW t, NEW ok \in BOOLEAN,
         Ends(t, ok), UNCHANGED <<mayBeOff, undone>>
  PROVE  GuardInv'
<1>0. mayBeOff /\ guards \in [Tables -> BOOLEAN]
  BY DEF ControlInv, DataPhases, GuardInv
<1>1. guards' \in [Tables -> BOOLEAN]
  BY <1>0, LeaveTyped DEF Ends, EndCopy, Reenabled
<1>2. \E r \in BOOLEAN : EndTable(t, r)
  BY DEF Ends, EndCopy
<1>3. Throw("cancelled") \/ phase' = "copy" \/ phase' = "step"
  BY <1>2 DEF EndTable, EndData, NextStep, Goto
<1>4. CASE Throw("cancelled")
  BY <1>0, <1>1, <1>4, ThrowGuarded
<1>5. CASE phase' = "copy" \/ phase' = "step"
  BY <1>0, <1>1, <1>5, WorkGuarded
<1> QED BY <1>3, <1>4, <1>5

\* The migrator, whose guards may be off all the time.
LEMMA MigratorGuarded == ASSUME ControlInv, ControlInv', GuardInv, Migrator PROVE GuardInv'
<1>0. phase # "over" /\ mayBeOff /\ UNCHANGED <<mayBeOff, undone>> /\ guards \in [Tables -> BOOLEAN]
  BY DEF Migrator, StartData, Open, ClearPg, ClearTable, StartTable, CopyBatch, CancelMidCopy, FinishTable,
         FailTable, Crash, SpawnWorkers, PoolDone, ControlInv, DataPhases, GuardInv, endVars
<1>1. CASE phase' \in {"step"} \cup DataPhases /\ guards' \in [Tables -> BOOLEAN]
  BY <1>0, <1>1, WorkGuarded DEF DataPhases
<1>2. CASE (\E s \in {"failed", "cancelled", "crashed"} : Throw(s)) /\ (Leave \/ UNCHANGED guards)
  BY <1>0, <1>2, ThrowGuarded, LeaveTyped
<1>3. CASE phase \in {"copy", "table"} /\ \E ok \in BOOLEAN : Ends(Head(left), ok)
  BY <1>0, <1>3, TableEndGuarded
<1>4. StartData \/ Open => <1>1!1 \/ <1>2!1
  BY <1>0 DEF StartData, Open, CancelHere, Goto, DataPhases
<1>5. ClearPg \/ ClearTable => <1>1!1 \/ <1>2!1
  BY <1>0 DEF ClearPg, ClearTable, AfterClear, Goto, DataPhases
<1>6. StartTable => <1>1!1 \/ <1>2!1 \/ <1>3!1
  BY <1>0 DEF StartTable, StartFails, Ends, CancelHere, DataPhases
<1>7. CopyBatch \/ SpawnWorkers => <1>1!1
  BY <1>0 DEF CopyBatch, SpawnWorkers, Goto, ControlInv, DataPhases
<1>8. CancelMidCopy \/ FinishTable \/ FailTable \/ Crash => <1>2!1 \/ <1>3!1
  BY <1>0 DEF CancelMidCopy, FinishTable, FailTable, Crash, CancelHere, Throw, Ends
<1>9. PoolDone => <1>1!1 \/ <1>2!1
  BY <1>0 DEF PoolDone, EndData, NextStep, Goto
<1> QED BY <1>1, <1>2, <1>3, <1>4, <1>5, <1>6, <1>7, <1>8, <1>9 DEF Migrator

\* Whatever happens next.
LEMMA GuardStep == ASSUME ControlInv, ControlInv', GuardInv, [MigrationNext]_migrationVars PROVE GuardInv'
<1>1. CASE Pool
  <2>1. PICK w \in Workers :
          \/ WorkerCopies(w) \/ WorkerReports(w) \/ WorkerFailsTable(w) \/ WorkerDies(w) \/ WorkerStops(w)
    BY <1>1 DEF Pool
  <2>2. CASE WorkerCopies(w) \/ WorkerReports(w) \/ WorkerFailsTable(w) \/ WorkerStops(w)
    BY <2>2, GuardsStay DEF WorkerCopies, WorkerReports, WorkerFailsTable, WorkerStops, loopVars, endVars
  <2>3. CASE WorkerDies(w)
    <3>0. UNCHANGED <<mayBeOff, undone, guards>> /\ guards \in [Tables -> BOOLEAN]
      BY <2>3 DEF WorkerDies, GuardInv
    <3>1. CASE phase = "pool" /\ Throw("failed")
      BY <3>0, <3>1, ThrowGuarded
    <3>2. CASE UNCHANGED <<step, phase, left, done, outcome>>
      BY <3>0, <3>2, GuardsStay
    <3> QED BY <2>3, <3>1, <3>2 DEF WorkerDies
  <2> QED BY <2>1, <2>2, <2>3
<1>2. CASE Abort \/ ProcessKilled \/ UNCHANGED migrationVars
  BY <1>2, GuardsStay DEF Abort, ProcessKilled, migrationVars, loopVars, endVars
<1> QED BY <1>1, <1>2, OrchestratorGuarded, MigratorGuarded DEF MigrationNext

-----------------------------------------------------------------------------
(***************************************************************************)
(* The pool, and what an early cancel leaves alone.                        *)
(***************************************************************************)

\* The fields of a migration.
LEMMA JobTyped ==
  ASSUME job \in Jobs
  PROVE  /\ job.src \in Engines /\ job.dst \in Engines /\ job.old \in BOOLEAN
         /\ job.rows \in [Tables -> Nat] /\ job.est \in [Tables -> Nat]
BY JobsAreMigrations

Threads == [st : {"live", "stopping", "gone"}, left : Seq(Tables)]

\* A thread that is not gone has a table, and belongs to a pool the orchestrator waits
\* for, or to one whose run has failed.
PoolInv ==
  /\ worker \in [Workers -> Threads]
  /\ \A w \in Workers : worker[w].st # "gone" =>
       /\ worker[w].left # <<>> /\ step = DataStep
       /\ phase = "pool" \/ (phase = "over" /\ outcome = "failed")

\* No thread, no change.
LEMMA NoThreads ==
  ASSUME PoolInv, \A w \in Workers : worker[w].st = "gone", UNCHANGED worker
  PROVE  PoolInv'
BY DEF PoolInv

\* A chunk is a sequence of tables.
LEMMA ChunkTyped == ASSUME PlanMade, NEW w \in Workers PROVE Chunk(w) \in Seq(Tables)
<1> DEFINE i == (w - 1) * ChunkSize + 1
           j == IF w * ChunkSize < N THEN w * ChunkSize ELSE N
<1>1. plan.loadOrder \in Seq(Tables) /\ Len(plan.loadOrder) = N
  BY DEF PlanMade, IsOrder
<1>2. N \in Nat /\ ChunkSize \in Nat /\ w \in Nat /\ w - 1 \in Nat
  <2>1. N \in Nat \ {0} /\ MaxWorkers \in Nat \ {0}
    BY SizesAreNat
  <2> DEFINE k == IF N < MaxWorkers THEN N ELSE MaxWorkers
  <2>2. k \in Nat \ {0} /\ ChunkSize = (N + k - 1) \div k
    BY <2>1 DEF ChunkSize
  <2> HIDE DEF k
  <2>3. N + k - 1 \in Nat
    BY <2>1, <2>2
  <2>4. (N + k - 1) \div k \in Nat
    BY <2>2, <2>3
  <2> QED BY <2>1, <2>2, <2>4 DEF Workers
<1>3. w * ChunkSize \in Nat /\ (w - 1) * ChunkSize \in Nat
  BY <1>2
<1>4. i \in 1 .. i /\ i \in Int /\ i >= 1 /\ j \in Int /\ j <= N
  BY <1>2, <1>3
<1>5. Chunk(w) = SubSeq(plan.loadOrder, i, j)
  BY DEF Chunk
<1> HIDE DEF i, j
<1>6. \A x \in i .. j : x \in 1 .. Len(plan.loadOrder)
  BY <1>1, <1>2, <1>4
<1> QED BY <1>1, <1>4, <1>5, <1>6, SubSeqProperties

\* What one thread does to the threads.
LEMMA ThreadsMove ==
  ASSUME PoolInv, NEW w \in Workers, worker[w].st # "gone",
         Advance(w) \/ worker' = [worker EXCEPT ![w] = Gone] \/ UNCHANGED worker
  PROVE  /\ worker' \in [Workers -> Threads]
         /\ \A v \in Workers : worker'[v].st # "gone" => worker[v].st # "gone" /\ worker'[v].left # <<>>
<1>1. worker[w] \in Threads /\ worker[w].left \in Seq(Tables) /\ worker[w].left # <<>>
  BY DEF PoolInv, Threads
<1>2. Gone \in Threads
  BY EmptySeq DEF Gone, Threads
<1>3. PICK x \in Threads : /\ worker' = [worker EXCEPT ![w] = x]
                           /\ x.st # "gone" => x.left # <<>>
  <2> DEFINE rest == Tail(worker[w].left)
             x == [worker[w] EXCEPT !.left = rest]
  <2>0. rest \in Seq(Tables)
    BY <1>1, HeadAndTail
  <2> HIDE DEF rest
  <2>1. CASE rest # <<>> /\ worker' = [worker EXCEPT ![w] = x]
    <3>1. x \in Threads /\ x.left = rest
      BY <1>1, <2>0 DEF Threads
    <3> HIDE DEF x
    <3> QED BY <2>1, <3>1
  <2>2. CASE worker' = [worker EXCEPT ![w] = Gone]
    BY <1>2, <2>2 DEF Gone
  <2>3. CASE UNCHANGED worker
    <3>1. worker' = [worker EXCEPT ![w] = worker[w]]
      BY <2>3 DEF PoolInv
    <3> QED BY <1>1, <3>1
  <2>4. Advance(w) => <2>1!1 \/ <2>2!1
    BY DEF Advance, rest
  <2> QED BY <2>1, <2>2, <2>3, <2>4
<1>4. \A v \in Workers : worker'[v] = IF v = w THEN x ELSE worker[v]
  BY <1>3 DEF PoolInv
<1> QED BY <1>1, <1>3, <1>4 DEF PoolInv

\* Whatever happens next, of the threads.
LEMMA PoolStep == ASSUME ControlInv, PoolInv, [MigrationNext]_migrationVars PROVE PoolInv'
<1>1. CASE Orchestrator \/ (Migrator /\ phase \notin {"spawn", "pool"})
  <2>1. phase # "pool" /\ phase # "over" /\ UNCHANGED worker
    BY <1>1 DEF Orchestrator, CancelBeforeStep, PlainStep, StartDisable, DisableTriggers, StartEnable,
                EnableTriggers, Compensate, Migrator, StartData, Open, ClearPg, ClearTable, StartTable,
                CopyBatch, CancelMidCopy, FinishTable, FailTable, Crash, SpawnWorkers, PoolDone, poolVars
  <2>2. \A w \in Workers : worker[w].st = "gone"
    BY <2>1 DEF PoolInv
  <2> QED BY <2>1, <2>2, NoThreads
<1>2. CASE SpawnWorkers
  <2>1. phase' = "pool" /\ step' = step /\ step = DataStep /\ PlanMade
    BY <1>2 DEF SpawnWorkers, Goto, ControlInv, DataPhases
  <2>2. \A w \in Workers : [st |-> "live", left |-> Chunk(w)] \in Threads
    BY <2>1, ChunkTyped DEF Threads
  <2>3. Gone \in Threads
    BY EmptySeq DEF Gone, Threads
  <2>4. \A w \in Workers : /\ worker'[w] \in Threads
                           /\ worker'[w].st # "gone" => worker'[w].left # <<>>
    BY <1>2, <2>2, <2>3 DEF SpawnWorkers, Gone
  <2>5. worker' \in [Workers -> Threads]
    BY <1>2, <2>2, <2>3 DEF SpawnWorkers
  <2> QED BY <2>1, <2>4, <2>5 DEF PoolInv
<1>3. CASE PoolDone
  BY <1>3, NoThreads DEF PoolDone, Live
<1>4. CASE Pool
  <2>1. PICK w \in Workers :
          \/ WorkerCopies(w) \/ WorkerReports(w) \/ WorkerFailsTable(w) \/ WorkerDies(w) \/ WorkerStops(w)
    BY <1>4 DEF Pool
  <2>2. worker[w].st # "gone" /\ (Advance(w) \/ worker' = [worker EXCEPT ![w] = Gone] \/ UNCHANGED worker)
    BY <2>1 DEF WorkerCopies, WorkerReports, WorkerFailsTable, WorkerDies, WorkerStops, poolVars
  <2>3. /\ worker' \in [Workers -> Threads]
        /\ \A v \in Workers : worker'[v].st # "gone" => worker[v].st # "gone" /\ worker'[v].left # <<>>
    BY <2>2, ThreadsMove
  <2>4. UNCHANGED <<step, phase, outcome>> \/ (phase = "pool" /\ Throw("failed"))
    BY <2>1 DEF WorkerCopies, WorkerReports, WorkerFailsTable, WorkerDies, WorkerStops, loopVars, endVars
  <2>5. CASE UNCHANGED <<step, phase, outcome>>
    BY <2>3, <2>5 DEF PoolInv
  <2>6. CASE phase = "pool" /\ Throw("failed")
    <3>1. phase' = "over" /\ outcome' = "failed" /\ step' = step
      BY <2>6 DEF Throw, Finish, Goto
    <3> QED BY <2>3, <3>1 DEF PoolInv
  <2> QED BY <2>4, <2>5, <2>6
<1>5. CASE Abort
  <2>1. UNCHANGED <<step, phase, outcome>>
    BY <1>5 DEF Abort, loopVars, endVars
  <2>2. CASE UNCHANGED worker
    BY <2>1, <2>2 DEF PoolInv
  <2>3. CASE worker' = [w \in Workers |-> IF worker[w].st = "live"
                                          THEN [worker[w] EXCEPT !.st = "stopping"] ELSE worker[w]]
    <3>1. \A w \in Workers : worker[w] \in Threads
      BY DEF PoolInv
    <3>2. \A w \in Workers : /\ worker'[w] \in Threads /\ worker'[w].left = worker[w].left
                             /\ worker[w].st = "gone" <=> worker'[w].st = "gone"
      BY <2>3, <3>1 DEF Threads
    <3>3. worker' \in [Workers -> Threads]
      BY <2>3, <3>2
    <3> QED BY <2>1, <3>2, <3>3 DEF PoolInv
  <2> QED BY <1>5, <2>2, <2>3 DEF Abort
<1>6. CASE ProcessKilled
  <2>1. Gone \in Threads
    BY EmptySeq DEF Gone, Threads
  <2> QED BY <1>6, <2>1 DEF ProcessKilled, PoolInv, Gone
<1>7. CASE UNCHANGED migrationVars
  BY <1>7 DEF PoolInv, migrationVars, loopVars, poolVars, endVars
<1>8. Migrator => <1>1!1 \/ SpawnWorkers \/ PoolDone
  BY DEF Migrator, StartData, Open, ClearPg, ClearTable, StartTable, CopyBatch, CancelMidCopy, FinishTable,
         FailTable, Crash
<1> QED BY <1>1, <1>2, <1>3, <1>4, <1>5, <1>6, <1>7, <1>8 DEF MigrationNext

\* The destination's tables.
Rows == [old : BOOLEAN, new : Nat]

\* A cancel that came early finds the signal read again before the first row is touched.
EarlyInv ==
  /\ dest \in [Tables -> Rows]
  /\ aborted = "early" => phase \notin {"clear", "table", "spawn", "pool"}
  /\ aborted = "early" \/ (aborted = "no" /\ phase \in {"step", "disable", "open"} /\ step <= DataStep)
       => \A t \in Tables : dest[t].old = job.old

\* The tables some step clears.
LEMMA ClearTyped ==
  ASSUME dest \in [Tables -> Rows], NEW ts, Clear(ts)
  PROVE  dest' \in [Tables -> Rows]
<1>1. Emptied \in Rows
  BY DEF Emptied, Rows
<1> QED BY <1>1 DEF Clear

\* A table that gains rows keeps those of before.
LEMMA RowsAdded ==
  ASSUME dest \in [Tables -> Rows], NEW t \in Tables, NEW n \in Nat, dest' = [dest EXCEPT ![t].new = n]
  PROVE  dest' \in [Tables -> Rows] /\ \A c \in Tables : dest'[c].old = dest[c].old
<1>1. \A c \in Tables : dest[c] \in Rows
  OBVIOUS
<1>2. \A c \in Tables : dest'[c] = IF c = t THEN [dest[c] EXCEPT !.new = n] ELSE dest[c]
  OBVIOUS
<1>3. \A c \in Tables : dest'[c] \in Rows /\ dest'[c].old = dest[c].old
  BY <1>1, <1>2 DEF Rows
<1> QED BY <1>3

\* What such a table then holds.
LEMMA RowsSet ==
  ASSUME dest \in [Tables -> Rows], NEW t \in Tables, NEW n, dest' = [dest EXCEPT ![t].new = n]
  PROVE  /\ dest'[t] = [old |-> dest[t].old, new |-> n]
         /\ \A c \in Tables \ {t} : dest'[c] = dest[c]
<1>1. dest[t] \in Rows
  OBVIOUS
<1>2. dest'[t] = [dest[t] EXCEPT !.new = n] /\ \A c \in Tables \ {t} : dest'[c] = dest[c]
  OBVIOUS
<1>3. \A r \in Rows : [r EXCEPT !.new = n] = [old |-> r.old, new |-> n]
  BY DEF Rows
<1> QED BY <1>1, <1>2, <1>3

\* A step that leaves the rows alone and does not go where rows are touched.
LEMMA RowsKept ==
  ASSUME EarlyInv, UNCHANGED <<job, dest, aborted>>,
         aborted = "early" => phase' \notin {"clear", "table", "spawn", "pool"},
         aborted = "no" /\ phase' \in {"step", "disable", "open"} /\ step' <= DataStep
           => phase \in {"step", "disable", "open"} /\ step <= DataStep
  PROVE  EarlyInv'
BY DEF EarlyInv

\* A run that ends, or undoes.
LEMMA ThrowEarly ==
  ASSUME EarlyInv, NEW s, Throw(s), UNCHANGED <<job, dest, aborted>>
  PROVE  EarlyInv'
BY RowsKept DEF Throw, Finish, Goto

\* A step of a migrator that has not been cancelled early, or has nothing to touch.
LEMMA WorkEarly ==
  ASSUME aborted # "early", UNCHANGED aborted, dest' \in [Tables -> Rows],
         phase' \notin {"step", "disable", "open"} \/ step' > DataStep, step' \in Nat
  PROVE  EarlyInv'
BY DEF EarlyInv, DataStep

\* The end of a table.
LEMMA TableEndEarly ==
  ASSUME ControlInv, EarlyInv, phase \in {"copy", "table"}, aborted # "early",
         NEW t, NEW ok, Ends(t, ok), UNCHANGED <<dest, aborted>>
  PROVE  EarlyInv'
<1>1. \E r : EndTable(t, r)
  BY DEF Ends, EndCopy
<1>2. (phase' \in {"over", "undo", "copy"} /\ step' = step) \/ (phase' = "step" /\ step' = step + 1)
  BY <1>1 DEF EndTable, EndData, NextStep, Throw, Finish, Goto
<1>3. step = DataStep /\ dest \in [Tables -> Rows]
  BY DEF ControlInv, DataPhases, EarlyInv
<1> QED BY <1>2, <1>3, WorkEarly DEF DataStep

\* The orchestrator touches no row.
LEMMA OrchestratorEarly == ASSUME ControlInv, EarlyInv, Orchestrator PROVE EarlyInv'
<1>0. step \in Nat /\ UNCHANGED <<job, dest, aborted>>
  BY DEF Orchestrator, CancelBeforeStep, PlainStep, StartDisable, DisableTriggers, StartEnable, EnableTriggers,
         Compensate, ControlInv, copyVars
<1>1. CASE (\E s : Throw(s)) \/ (\E s : Finish(s))
  BY <1>0, <1>1, ThrowEarly, RowsKept DEF Finish, Goto
<1>2. CASE phase' \in {"enable", "undo"}
  BY <1>0, <1>2, RowsKept
<1>3. CASE phase \in {"step", "disable"} /\ phase' \in {"step", "disable"} /\ step' \in {step, step + 1}
  BY <1>0, <1>3, RowsKept DEF ControlInv, DataStep, LastStep
<1>4. CASE phase = "enable" /\ NextStep
  <2>1. phase' = "step" /\ step' = EnableStep + 1
    BY <1>4 DEF NextStep, Goto, ControlInv
  <2> QED BY <1>0, <2>1, RowsKept DEF EnableStep, DataStep
<1>5. CancelBeforeStep \/ PlainStep => <1>1!1 \/ <1>3!1
  BY <1>0 DEF CancelBeforeStep, PlainStep, NextStep, Goto
<1>6. StartDisable \/ DisableTriggers => <1>1!1 \/ <1>2!1 \/ <1>3!1
  BY <1>0 DEF StartDisable, DisableTriggers, NextStep, Goto
<1>7. StartEnable \/ EnableTriggers \/ Compensate => <1>1!1 \/ <1>2!1 \/ <1>4!1
  BY DEF StartEnable, EnableTriggers, Compensate, Goto
<1> QED BY <1>1, <1>2, <1>3, <1>4, <1>5, <1>6, <1>7 DEF Orchestrator

\* The migrator reads the signal after everything it waits for.
LEMMA MigratorEarly == ASSUME ControlInv, EarlyInv, Migrator PROVE EarlyInv'
<1>0. /\ UNCHANGED <<job, aborted>> /\ dest \in [Tables -> Rows] /\ step \in Nat
      /\ phase # "step" => step = DataStep
  <2>1. UNCHANGED <<job, aborted>> /\ phase \in {"step"} \cup DataPhases
    BY DEF Migrator, StartData, Open, ClearPg, ClearTable, StartTable, CopyBatch, CancelMidCopy, FinishTable,
           FailTable, Crash, SpawnWorkers, PoolDone, DataPhases
  <2> QED BY <2>1 DEF ControlInv, EarlyInv
<1>1. CASE UNCHANGED dest /\ ((\E s : Throw(s)) \/ (\E s : Finish(s)))
  BY <1>0, <1>1, ThrowEarly, RowsKept DEF Finish, Goto
<1>2. CASE /\ phase \notin {"step", "open"} /\ aborted # "early" /\ dest' \in [Tables -> Rows]
           /\ phase' \in {"copy", "table", "spawn", "pool", "clear", "over", "undo"} /\ step' = step
  BY <1>0, <1>2, WorkEarly
<1>3. CASE UNCHANGED dest /\ phase \in {"copy", "table"} /\ aborted # "early" /\ \E ok : Ends(Head(left), ok)
  BY <1>0, <1>3, TableEndEarly
<1>4. CASE StartData
  BY <1>0, <1>1, <1>4, RowsKept DEF StartData, Goto, copyVars
<1>5. CASE Open
  BY <1>0, <1>1, <1>5, RowsKept DEF Open, CancelHere, Goto, copyVars
<1>6. CASE ClearPg
  <2>1. phase = "clear" /\ aborted # "early" /\ dest' \in [Tables -> Rows]
    BY <1>0, <1>6, ClearTyped DEF ClearPg, EarlyInv
  <2>2. phase' \in {"copy", "spawn", "over", "undo"} /\ step' = step
    BY <1>6 DEF ClearPg, AfterClear, Throw, Finish, Goto
  <2> QED BY <1>2, <2>1, <2>2
<1>7. CASE ClearTable
  <2>1. phase = "clear" /\ aborted # "early" /\ dest' \in [Tables -> Rows]
    BY <1>0, <1>7, ClearTyped DEF ClearTable, EarlyInv
  <2>2. phase' \in {"copy", "spawn", "clear", "over", "undo"} /\ step' = step
    BY <1>7 DEF ClearTable, AfterClear, Throw, Finish, Goto
  <2> QED BY <1>2, <2>1, <2>2
<1>8. CASE StartTable
  <2>1. CASE CancelHere /\ UNCHANGED dest
    BY <1>1, <2>1 DEF CancelHere
  <2>2. CASE aborted = "no" /\ phase' = "table" /\ step' = step /\ UNCHANGED dest
    BY <1>0, <1>2, <1>8, <2>2 DEF StartTable
  <2>3. CASE aborted = "no" /\ phase' = "table" /\ step' = step /\ \E ts : Clear(ts)
    BY <1>0, <1>2, <1>8, <2>3, ClearTyped DEF StartTable
  <2>4. CASE aborted = "no" /\ UNCHANGED dest /\ Ends(Head(left), FALSE)
    BY <1>3, <1>8, <2>4 DEF StartTable
  <2> QED BY <1>8, <2>1, <2>2, <2>3, <2>4 DEF StartTable, StartFails, Ends, copyVars
<1>9. CASE CopyBatch
  <2>1. phase = "table" /\ Head(left) \in Tables /\ done + 1 \in Nat
    BY <1>9, HeadAndTail DEF CopyBatch, ControlInv, Looping
  <2>2. dest[Head(left)].new + 1 \in Nat
    BY <1>0, <2>1 DEF Rows
  <2>3. dest' = [dest EXCEPT ![Head(left)].new = dest[Head(left)].new + 1] /\ UNCHANGED <<phase, step>>
    BY <1>9 DEF CopyBatch
  <2>4. dest' \in [Tables -> Rows]
    BY <1>0, <2>1, <2>2, <2>3, RowsAdded
  <2> QED BY <1>2, <1>9, <2>1, <2>3, <2>4 DEF CopyBatch
<1>10. CASE CancelMidCopy \/ FinishTable \/ FailTable \/ Crash
  <2>1. phase = "table" /\ aborted # "early" /\ UNCHANGED dest
    BY <1>10 DEF CancelMidCopy, FinishTable, FailTable, Crash, EarlyInv, copyVars
  <2> QED BY <1>1, <1>3, <1>10, <2>1 DEF CancelMidCopy, FinishTable, FailTable, Crash, CancelHere, Ends
<1>11. CASE SpawnWorkers
  BY <1>0, <1>2, <1>11 DEF SpawnWorkers, Goto, EarlyInv, copyVars
<1>12. CASE PoolDone
  <2>1. phase = "pool" /\ aborted # "early" /\ UNCHANGED dest
    BY <1>12 DEF PoolDone, EarlyInv
  <2>2. CASE NextStep
    BY <1>0, <2>1, <2>2, WorkEarly DEF NextStep, DataStep
  <2> QED BY <1>1, <1>12, <2>1, <2>2 DEF PoolDone, EndData
<1> QED BY <1>4, <1>5, <1>6, <1>7, <1>8, <1>9, <1>10, <1>11, <1>12 DEF Migrator

\* Whatever happens next, of the rows of before.
LEMMA EarlyStep == ASSUME ControlInv, PoolInv, EarlyInv, [MigrationNext]_migrationVars PROVE EarlyInv'
<1>1. CASE Pool
  <2>1. PICK w \in Workers :
          \/ WorkerCopies(w) \/ WorkerReports(w) \/ WorkerFailsTable(w) \/ WorkerDies(w) \/ WorkerStops(w)
    BY <1>1 DEF Pool
  <2> DEFINE t == Head(worker[w].left)
  <2>2. t \in Tables /\ job.rows[t] \in Nat
    <3>1. worker[w].st # "gone"
      BY <2>1 DEF WorkerCopies, WorkerReports, WorkerFailsTable, WorkerDies, WorkerStops
    <3>2. worker[w].left \in Seq(Tables) /\ worker[w].left # <<>>
      BY <3>1 DEF PoolInv, Threads
    <3> QED BY <3>2, HeadAndTail, JobTyped DEF ControlInv
  <2>3. UNCHANGED dest \/ dest' = [dest EXCEPT ![t].new = job.rows[t]]
    BY <2>1 DEF WorkerCopies, WorkerReports, WorkerFailsTable, WorkerDies, WorkerStops, copyVars
  <2> HIDE DEF t
  <2>4. dest' \in [Tables -> Rows] /\ \A c \in Tables : dest'[c].old = dest[c].old
    BY <2>2, <2>3, RowsAdded DEF EarlyInv
  <2>5. UNCHANGED <<job, aborted>> /\ (UNCHANGED <<step, phase>> \/ (phase = "pool" /\ Throw("failed")))
    BY <2>1 DEF WorkerCopies, WorkerReports, WorkerFailsTable, WorkerDies, WorkerStops, loopVars
  <2>6. CASE UNCHANGED <<step, phase>>
    BY <2>4, <2>5, <2>6 DEF EarlyInv
  <2>7. CASE phase = "pool" /\ Throw("failed")
    BY <2>4, <2>5, <2>7 DEF EarlyInv, Throw, Finish, Goto
  <2> QED BY <2>5, <2>6, <2>7
<1>2. CASE Abort
  <2>1. UNCHANGED <<job, step, phase, dest>> /\ aborted = "no" /\ phase # "over"
    BY <1>2 DEF Abort, loopVars, copyVars
  <2>2. CASE aborted' = "early"
    <3>1. phase \in {"step", "disable", "open"} /\ step <= DataStep
      BY <1>2, <2>2 DEF Abort, ControlInv, Phases, DataPhases, EnableStep, DataStep, LastStep
    <3> QED BY <2>1, <2>2, <3>1 DEF EarlyInv
  <2>3. CASE aborted' \in {"copying", "late"}
    BY <2>1, <2>3 DEF EarlyInv
  <2> QED BY <1>2, <2>2, <2>3 DEF Abort
<1>3. CASE ProcessKilled \/ UNCHANGED migrationVars
  BY <1>3 DEF ProcessKilled, migrationVars, loopVars, copyVars, EarlyInv
<1> QED BY <1>1, <1>2, <1>3, OrchestratorEarly, MigratorEarly DEF MigrationNext

-----------------------------------------------------------------------------
(***************************************************************************)
(* What the results say of the rows.                                       *)
(***************************************************************************)

\* Nothing of before, and every batch of the source once.
Full(t) == dest[t] = [old |-> FALSE, new |-> job.rows[t]]

\* MSSQL to PG copies nothing, and empties with a table those that refer to it.
KeepsNone == PerTable /\ job.dst = "pg"

\* A table that is done is full.  What was copied for others stays as it is when it is one
\* more table's turn: only MSSQL to PG clears more than that table.
ResultInv ==
  /\ results \in [Tables -> {"none", "ok", "failed"}]
  /\ \A t \in Tables : results[t] = "ok" => Full(t) /\ (KeepsNone => job.rows[t] = 0)
  /\ outcome = "succeeded" => \A t \in Tables : results[t] = "ok"

\* Clearing comes before every copy, and misses no table.
ClearInv ==
  /\ phase \in {"step", "disable", "open", "clear", "spawn"} /\ step <= DataStep =>
       \A t \in Tables : results[t] = "none"
  /\ phase = "clear" /\ job.dst # "pg" => \A t \in Tables : dest[t] = Emptied \/ t \in ToSet(left)
  /\ phase = "spawn" \/ Live # {} => ~ KeepsNone /\ \A t \in Tables : ~ dest[t].old

\* The tables a sequential migrator has before it are there once and not yet copied, and
\* the one under way has the batches counted so far.
CopyInv ==
  /\ phase \in {"copy", "table"} => Once(left) /\ \A t \in ToSet(left) : results[t] = "none"
  /\ phase = "copy" => done = 0
  /\ phase = "copy" /\ ~ PerTable => \A t \in ToSet(left) : dest[t] = Emptied
  /\ phase = "table" => dest[Head(left)] = [old |-> FALSE, new |-> done] /\ (KeepsNone => done = 0)
  /\ phase = "table" /\ ~ PerTable => \A t \in ToSet(Tail(left)) : dest[t] = Emptied

DataInv == ResultInv /\ ClearInv /\ CopyInv

\* A step that touches neither rows nor results, and does not start to.
LEMMA DataRests ==
  ASSUME DataInv, UNCHANGED <<job, dest, results>>, Live' \subseteq Live,
         outcome' # "succeeded" \/ outcome' = outcome, phase' \notin {"clear", "spawn", "copy", "table"},
         phase' \in {"step", "disable", "open"} /\ step' <= DataStep
           => phase \in {"step", "disable", "open"} /\ step <= DataStep
  PROVE  DataInv'
<1>1. ResultInv'
  BY DEF DataInv, ResultInv, Full, KeepsNone, PerTable
<1>2. ClearInv'
  BY DEF DataInv, ClearInv, KeepsNone, PerTable
<1>3. CopyInv'
  BY DEF CopyInv
<1> QED BY <1>1, <1>2, <1>3 DEF DataInv

\* A run that ends, or undoes.
LEMMA ThrowRests ==
  ASSUME DataInv, NEW s \in {"failed", "cancelled", "crashed"}, Throw(s) \/ Finish(s),
         UNCHANGED <<job, dest, results>>, Live' \subseteq Live
  PROVE  DataInv'
<1>1. phase' \in {"over", "undo"} /\ (outcome' # "succeeded" \/ outcome' = outcome)
  BY DEF Throw, Finish, Goto
<1> QED BY <1>1, DataRests

\* Only a pool has threads.
LEMMA NoneLive ==
  ASSUME PoolInv, phase \notin {"pool", "over"}
  PROVE  Live = {} /\ (UNCHANGED worker => Live' = {})
BY DEF PoolInv, Live

\* The end of a table.
LEMMA TableEndData ==
  ASSUME ControlInv, DataInv, Live' = {}, phase \in {"copy", "table"}, phase = "copy" => PerTable,
         NEW ok, EndTable(Head(left), ok), ok => phase = "table" /\ done = job.rows[Head(left)],
         UNCHANGED <<job, dest>>
  PROVE  DataInv'
<1> DEFINE t == Head(left)
<1>1. left \in Seq(Tables) /\ left # <<>> /\ outcome = "running" /\ step = DataStep
  BY DEF ControlInv, Looping, DataPhases
<1>2. /\ t \in Tables /\ ToSet(left) = {t} \cup ToSet(Tail(left))
      /\ Once(left) => Once(Tail(left)) /\ t \notin ToSet(Tail(left))
  BY <1>1, HeadAndTail
<1>3. Once(left) /\ \A c \in ToSet(left) : results[c] = "none"
  BY DEF DataInv, CopyInv
<1>4. results' = [results EXCEPT ![t] = IF ok THEN "ok" ELSE "failed"]
  BY DEF EndTable
<1>5. ok => dest[t] = [old |-> FALSE, new |-> job.rows[t]] /\ (KeepsNone => job.rows[t] = 0)
  BY DEF DataInv, CopyInv
<1>6. phase' \in {"over", "undo"} \/ (phase' = "copy" /\ left' = Tail(left) /\ done' = 0)
        \/ (phase' = "step" /\ step' = step + 1)
  BY DEF EndTable, EndData, NextStep, Throw, Finish, Goto
<1>7. outcome' # "succeeded"
  BY <1>1 DEF EndTable, Throw, Finish, Goto
<1>8. ~ PerTable => \A c \in ToSet(Tail(left)) : dest[c] = Emptied
  BY DEF DataInv, CopyInv
<1> HIDE DEF t
<1>9. \A c \in Tables : results'[c] = IF c = t THEN (IF ok THEN "ok" ELSE "failed") ELSE results[c]
  BY <1>2, <1>4 DEF DataInv, ResultInv
<1>10. ResultInv'
  <2>1. results' \in [Tables -> {"none", "ok", "failed"}]
    BY <1>2, <1>4 DEF DataInv, ResultInv
  <2>2. ASSUME NEW c \in Tables, results'[c] = "ok"
        PROVE  dest'[c] = [old |-> FALSE, new |-> job'.rows[c]] /\ (KeepsNone' => job'.rows[c] = 0)
    <3>1. CASE c = t
      BY <1>5, <1>9, <2>2, <3>1 DEF KeepsNone, PerTable
    <3>2. CASE c # t
      BY <1>9, <2>2, <3>2 DEF DataInv, ResultInv, Full, KeepsNone, PerTable
    <3> QED BY <3>1, <3>2
  <2> QED BY <1>7, <2>1, <2>2 DEF ResultInv, Full
<1>11. ClearInv'
  BY <1>1, <1>6 DEF ClearInv, DataStep
<1>12. CopyInv'
  <2>1. CASE phase' = "copy" /\ left' = Tail(left) /\ done' = 0
    <3>1. \A c \in ToSet(Tail(left)) : c \in Tables /\ c # t
      BY <1>1, <1>2, <1>3, HeadAndTail DEF ToSet
    <3>2. \A c \in ToSet(Tail(left)) : results'[c] = "none"
      BY <1>2, <1>3, <1>9, <3>1
    <3>3. Once(Tail(left)) /\ (PerTable' <=> PerTable) /\ UNCHANGED dest
      BY <1>2, <1>3 DEF PerTable
    <3> QED BY <1>8, <2>1, <3>2, <3>3 DEF CopyInv, Emptied
  <2>2. CASE phase' \in {"over", "undo", "step"}
    BY <2>2 DEF CopyInv
  <2> QED BY <1>6, <2>1, <2>2
<1> QED BY <1>10, <1>11, <1>12 DEF DataInv

\* No table has been tried.
Untried == \A t \in Tables : results[t] = "none"

\* Before the first copy the rows may change as they like.
LEMMA UntriedResults ==
  ASSUME DataInv, Untried, UNCHANGED results, outcome' # "succeeded"
  PROVE  ResultInv'
BY DEF DataInv, ResultInv, Untried

\* A loop over the tables of an order begins.
LEMMA LoopBegins ==
  ASSUME PlanMade, NEW order \in {plan.loadOrder, plan.cleanupOrder}
  PROVE  Once(order) /\ ToSet(order) = Tables /\ order \in Seq(Tables) /\ order # <<>>
BY OrdersAreLoops DEF PlanMade

\* After the clearing.
LEMMA ClearedData ==
  ASSUME ControlInv, PoolInv, DataInv, phase = "clear", Untried, \A t \in Tables : dest'[t] = Emptied, AfterClear,
         UNCHANGED <<job, results, outcome, plan, worker>>
  PROVE  DataInv'
<1>1. PlanMade /\ outcome' = "running"
  BY DEF ControlInv, DataPhases
<1>2. ResultInv' /\ Untried'
  BY <1>1, UntriedResults DEF Untried
<1>3. (phase' = "spawn" /\ ~ KeepsNone') \/ (phase' = "copy" /\ done' = 0 /\ left' = plan.loadOrder)
  BY DEF AfterClear, Goto, IsPool, KeepsNone, PerTable
<1>4. Live' = Live /\ Live = {}
  BY NoneLive DEF Live
<1>5. ClearInv'
  BY <1>2, <1>3, <1>4 DEF ClearInv, Untried, Emptied
<1>6. CopyInv'
  <2>1. CASE phase' = "spawn"
    BY <2>1 DEF CopyInv
  <2>2. CASE phase' = "copy" /\ done' = 0 /\ left' = plan.loadOrder
    <3>1. Once(left') /\ ToSet(left') = Tables
      BY <1>1, <2>2, LoopBegins
    <3> QED BY <1>2, <2>2, <3>1 DEF CopyInv, Untried
  <2> QED BY <1>3, <2>1, <2>2
<1> QED BY <1>2, <1>5, <1>6 DEF DataInv

\* The clearing, whole or table by table.
LEMMA ClearingData ==
  ASSUME ControlInv, PoolInv, EarlyInv, DataInv, ClearPg \/ ClearTable
  PROVE  DataInv'
<1>0. /\ phase = "clear" /\ Untried /\ UNCHANGED <<job, results, plan, worker>> /\ outcome = "running" /\ PlanMade
      /\ Live = {} /\ Live' = {} /\ step = DataStep
  <2>1. phase = "clear" /\ UNCHANGED <<job, results, plan, worker>>
    BY DEF ClearPg, ClearTable, poolVars
  <2>2. step = DataStep /\ outcome = "running" /\ PlanMade
    BY <2>1 DEF ControlInv, DataPhases
  <2> QED BY <2>1, <2>2, NoneLive DEF DataInv, ClearInv, Untried, DataStep
<1>1. CASE \E s \in {"failed", "cancelled", "crashed"} : Throw(s)
  <2>1. phase' \in {"over", "undo"} /\ outcome' # "succeeded"
    BY <1>0, <1>1 DEF Throw, Finish, Goto
  <2>2. ResultInv'
    BY <1>0, <2>1, UntriedResults
  <2>3. ClearInv' /\ CopyInv'
    BY <1>0, <2>1 DEF ClearInv, CopyInv
  <2> QED BY <2>2, <2>3 DEF DataInv
<1>2. CASE ClearPg /\ Clear(Tables) /\ AfterClear /\ UNCHANGED outcome
  <2>1. \A t \in Tables : dest'[t] = Emptied
    BY <1>2 DEF Clear
  <2> QED BY <1>0, <1>2, <2>1, ClearedData
<1>3. CASE /\ ClearTable /\ Clear({Head(left)}) /\ UNCHANGED outcome
           /\ IF Len(left) = 1 THEN AfterClear ELSE Goto("clear", Tail(left))
  <2>1. left \in Seq(Tables) /\ left # <<>> /\ job.dst # "pg"
    BY <1>0, <1>3 DEF ControlInv, Looping, ClearTable
  <2>2. /\ ToSet(left) = {Head(left)} \cup ToSet(Tail(left))
        /\ Len(left) = 1 => ToSet(left) = {Head(left)}
    BY <2>1, HeadAndTail
  <2>3. \A t \in Tables : dest[t] = Emptied \/ t \in ToSet(left)
    BY <1>0, <2>1 DEF DataInv, ClearInv
  <2>4. \A t \in Tables : dest'[t] = IF t = Head(left) THEN Emptied ELSE dest[t]
    BY <1>3 DEF Clear
  <2>5. CASE Len(left) = 1 /\ AfterClear
    <3>1. \A t \in Tables : dest'[t] = Emptied
      BY <2>2, <2>3, <2>4, <2>5
    <3> QED BY <1>0, <1>3, <2>5, <3>1, ClearedData
  <2>6. CASE Goto("clear", Tail(left))
    <3>1. \A t \in Tables : dest'[t] = Emptied \/ t \in ToSet(left')
      BY <2>2, <2>3, <2>4, <2>6 DEF Goto
    <3>2. phase' = "clear" /\ outcome' # "succeeded"
      BY <1>0, <1>3, <2>6 DEF Goto
    <3>3. ResultInv'
      BY <1>0, <3>2, UntriedResults
    <3>4. ClearInv'
      BY <1>0, <3>1, <3>2 DEF ClearInv, Untried
    <3>5. CopyInv'
      BY <3>2 DEF CopyInv
    <3> QED BY <3>3, <3>4, <3>5 DEF DataInv
  <2> QED BY <1>3, <2>5, <2>6
<1>4. ClearPg => <1>1!1 \/ <1>2!1
  BY DEF ClearPg
<1>5. ClearTable => <1>1!1 \/ <1>3!1
  BY DEF ClearTable
<1> QED BY <1>1, <1>2, <1>3, <1>4, <1>5

\* A table of the sequential migrators begins; it may be cleared first.
LEMMA StartTableData ==
  ASSUME ControlInv, PoolInv, EarlyInv, DataInv, StartTable
  PROVE  DataInv'
<1> DEFINE t == Head(left)
<1>0. /\ phase = "copy" /\ UNCHANGED <<job, worker>> /\ outcome = "running" /\ step = DataStep
      /\ Live = {} /\ Live' = {} /\ left \in Seq(Tables) /\ left # <<>>
  <2>1. phase = "copy" /\ UNCHANGED <<job, worker>>
    BY DEF StartTable, poolVars
  <2> QED BY <2>1, NoneLive DEF ControlInv, DataPhases, Looping
<1>1. /\ t \in Tables /\ ToSet(left) = {t} \cup ToSet(Tail(left))
      /\ Once(left) /\ t \notin ToSet(Tail(left))
  <2>1. Once(left)
    BY <1>0 DEF DataInv, CopyInv
  <2> QED BY <1>0, <2>1, HeadAndTail
<1>2. /\ \A c \in ToSet(left) : results[c] = "none" /\ (~ PerTable => dest[c] = Emptied)
      /\ done = 0
  BY <1>0 DEF DataInv, CopyInv
<1>3. CASE CancelHere /\ UNCHANGED <<dest, results>>
  BY <1>0, <1>3, ThrowRests DEF CancelHere
<1>4. CASE aborted = "no" /\ ~ PerTable /\ phase' = "table" /\ UNCHANGED <<left, done, step, outcome, dest, results>>
  <2>1. ResultInv'
    BY <1>0, <1>4 DEF DataInv, ResultInv, Full, KeepsNone, PerTable
  <2>2. ClearInv'
    BY <1>0, <1>4 DEF ClearInv
  <2>3. PerTable' <=> PerTable
    BY <1>0 DEF PerTable
  <2>4. dest'[t] = [old |-> FALSE, new |-> done'] /\ \A c \in ToSet(Tail(left)) : dest'[c] = Emptied
    BY <1>1, <1>2, <1>4 DEF Emptied
  <2>5. CopyInv'
    BY <1>1, <1>2, <1>4, <2>3, <2>4 DEF CopyInv
  <2> QED BY <2>1, <2>2, <2>5 DEF DataInv
<1>5. CASE /\ PerTable /\ phase' = "table" /\ UNCHANGED <<left, done, step, outcome, results>>
           /\ Clear(IF job.dst = "pg" THEN Cascade(t) ELSE {t})
  <2>1. PerTable' /\ (KeepsNone' <=> KeepsNone)
    BY <1>0, <1>5 DEF PerTable, KeepsNone
  <2>2. dest'[t] = Emptied
    BY <1>1, <1>5 DEF Clear, Cascade
  <2>3. ResultInv'
    <3>1. ASSUME NEW c \in Tables, results[c] = "ok"
          PROVE  dest'[c] = [old |-> FALSE, new |-> job.rows[c]] /\ (KeepsNone => job.rows[c] = 0)
      <4>1. dest[c] = [old |-> FALSE, new |-> job.rows[c]] /\ (KeepsNone => job.rows[c] = 0)
        BY <3>1 DEF DataInv, ResultInv, Full
      <4>2. CASE job.dst = "pg"
        <5>1. job.rows[c] = 0
          BY <1>5, <4>1, <4>2 DEF KeepsNone
        <5>2. dest'[c] = Emptied \/ dest'[c] = dest[c]
          BY <1>5 DEF Clear
        <5>3. Emptied = [old |-> FALSE, new |-> job.rows[c]] /\ dest[c] = Emptied
          BY <4>1, <5>1 DEF Emptied
        <5> QED BY <4>1, <5>2, <5>3
      <4>3. CASE job.dst # "pg"
        <5>1. c # t
          BY <1>1, <1>2, <3>1
        <5> QED BY <1>5, <4>1, <4>3, <5>1 DEF Clear
      <4> QED BY <4>2, <4>3
    <3> QED BY <1>0, <1>5, <2>1, <3>1 DEF ResultInv, DataInv, Full
  <2>4. ClearInv'
    BY <1>0, <1>5 DEF ClearInv
  <2>5. CopyInv'
    BY <1>1, <1>2, <1>5, <2>1, <2>2 DEF CopyInv, Emptied
  <2> QED BY <2>3, <2>4, <2>5 DEF DataInv
<1>6. CASE PerTable /\ UNCHANGED dest /\ Ends(t, FALSE)
  <2>1. EndTable(t, FALSE)
    BY <1>6 DEF Ends, EndCopy
  <2> QED BY <1>0, <1>6, <2>1, TableEndData
<1>7. <1>3!1 \/ <1>4!1 \/ <1>5!1 \/ <1>6!1
  BY <1>0 DEF StartTable, StartFails, Ends, copyVars
<1> QED BY <1>3, <1>4, <1>5, <1>6, <1>7

\* One batch more of the table under way.
LEMMA CopyBatchData ==
  ASSUME ControlInv, PoolInv, EarlyInv, DataInv, CopyBatch
  PROVE  DataInv'
<1> DEFINE t == Head(left)
<1>0. /\ phase = "table" /\ UNCHANGED <<job, worker, results, left, phase>> /\ outcome' = "running" /\ step' = DataStep
      /\ Live = {} /\ Live' = {} /\ left \in Seq(Tables) /\ left # <<>> /\ done' = done + 1 /\ done \in Nat
  <2>1. phase = "table" /\ UNCHANGED <<job, worker, results, left, phase, step, outcome>> /\ done' = done + 1
    BY DEF CopyBatch, poolVars, endVars
  <2> QED BY <2>1, NoneLive DEF ControlInv, DataPhases, Looping
<1>1. /\ t \in Tables /\ ToSet(left) = {t} \cup ToSet(Tail(left)) /\ t \notin ToSet(Tail(left)) /\ Once(left)
      /\ ToSet(Tail(left)) \subseteq Tables
  <2>1. Once(left)
    BY <1>0 DEF DataInv, CopyInv
  <2>2. ToSet(left) \subseteq Tables
    BY <1>0 DEF ToSet
  <2> QED BY <1>0, <2>1, <2>2, HeadAndTail
<1>2. ~ KeepsNone
  BY DEF CopyBatch, Goes, EndsEarly, KeepsNone, PerTable
<1>3. /\ dest[t] = [old |-> FALSE, new |-> done] /\ results[t] = "none"
      /\ ~ PerTable => \A c \in ToSet(Tail(left)) : dest[c] = Emptied
  BY <1>0, <1>1 DEF DataInv, CopyInv
<1>4. dest' = [dest EXCEPT ![t].new = dest[t].new + 1]
  BY DEF CopyBatch
<1> HIDE DEF t
<1>5. dest'[t] = [old |-> FALSE, new |-> done + 1] /\ \A c \in Tables \ {t} : dest'[c] = dest[c]
  <2>1. dest \in [Tables -> Rows] /\ t \in Tables /\ dest[t].old = FALSE /\ dest[t].new + 1 = done + 1
    BY <1>1, <1>3 DEF EarlyInv
  <2> QED BY <1>4, <2>1, RowsSet
<1>6. (PerTable' <=> PerTable) /\ ~ KeepsNone'
  BY <1>0, <1>2 DEF PerTable, KeepsNone
<1>7. ResultInv'
  BY <1>0, <1>3, <1>5, <1>6 DEF DataInv, ResultInv, Full
<1>8. ClearInv'
  BY <1>0 DEF ClearInv
<1>9. CopyInv'
  <2>1. ~ PerTable => \A c \in ToSet(Tail(left)) : dest'[c] = Emptied
    BY <1>1, <1>3, <1>5
  <2>2. Once(left) /\ \A c \in ToSet(left) : results[c] = "none"
    BY <1>0 DEF DataInv, CopyInv
  <2> QED BY <1>0, <1>5, <1>6, <2>1, <2>2 DEF CopyInv, t
<1> QED BY <1>7, <1>8, <1>9 DEF DataInv

\* The steps of a migrator.
LEMMA MigratorData ==
  ASSUME ControlInv, PoolInv, EarlyInv, DataInv, Migrator
  PROVE  DataInv'
<1>1. CASE StartData
  <2>1. phase = "step" /\ step = DataStep /\ UNCHANGED <<job, dest, results, worker>>
    BY <1>1 DEF StartData, copyVars, poolVars
  <2>2. CASE Goto("open", <<>>) /\ UNCHANGED <<step, outcome>>
    BY <2>1, <2>2, NoneLive, DataRests DEF Goto
  <2>3. CASE Throw("failed")
    BY <2>1, <2>3, NoneLive, ThrowRests
  <2> QED BY <1>1, <2>2, <2>3 DEF StartData
<1>2. CASE Open
  <2>1. /\ phase = "open" /\ UNCHANGED <<job, dest, results, worker, plan>> /\ outcome = "running" /\ PlanMade
        /\ Live = {} /\ Live' = {} /\ Untried /\ step = DataStep
    <3>1. phase = "open" /\ UNCHANGED <<job, dest, results, worker, plan>>
      BY <1>2 DEF Open, copyVars, poolVars
    <3>2. outcome = "running" /\ PlanMade /\ step = DataStep
      BY <3>1 DEF ControlInv, DataPhases
    <3> QED BY <3>1, <3>2, NoneLive DEF DataInv, ClearInv, Untried, DataStep
  <2>2. CASE \E s \in {"failed", "cancelled", "crashed"} : Throw(s)
    BY <2>1, <2>2, ThrowRests
  <2>3. CASE Goto("clear", plan.cleanupOrder) /\ UNCHANGED <<step, outcome>>
    <3>1. phase' = "clear" /\ outcome' = "running" /\ ToSet(left') = Tables
      BY <2>1, <2>3, LoopBegins DEF Goto
    <3>2. ResultInv'
      BY <2>1, <3>1, UntriedResults
    <3>3. ClearInv' /\ CopyInv'
      BY <2>1, <3>1 DEF ClearInv, CopyInv, Untried
    <3> QED BY <3>2, <3>3 DEF DataInv
  <2>4. CASE PerTable /\ Goto("copy", plan.loadOrder) /\ UNCHANGED <<step, outcome>>
    <3>1. phase' = "copy" /\ done' = 0 /\ outcome' = "running" /\ ToSet(left') = Tables /\ Once(left') /\ PerTable'
      BY <2>1, <2>4, LoopBegins DEF Goto, PerTable
    <3>2. ResultInv'
      BY <2>1, <3>1, UntriedResults
    <3>3. ClearInv' /\ CopyInv'
      BY <2>1, <3>1 DEF ClearInv, CopyInv, Untried
    <3> QED BY <3>2, <3>3 DEF DataInv
  <2> QED BY <1>2, <2>2, <2>3, <2>4 DEF Open, CancelHere
<1>3. CASE CancelMidCopy \/ FinishTable \/ FailTable \/ Crash
  <2>1. phase = "table" /\ UNCHANGED <<job, dest, worker>>
    BY <1>3 DEF CancelMidCopy, FinishTable, FailTable, Crash, copyVars, poolVars
  <2>2. Live = {} /\ Live' = {}
    BY <2>1, NoneLive
  <2>3. CASE UNCHANGED results /\ \E s \in {"failed", "cancelled", "crashed"} : Throw(s) \/ Finish(s)
    BY <2>1, <2>2, <2>3, ThrowRests
  <2>4. CASE \E ok \in BOOLEAN : EndTable(Head(left), ok) /\ (ok => done = job.rows[Head(left)])
    BY <2>1, <2>2, <2>4, TableEndData
  <2>5. CancelMidCopy \/ FailTable \/ Crash => <2>3!1 \/ <2>4!1
    BY DEF CancelMidCopy, FailTable, Crash, CancelHere, EndCopy, copyVars
  <2>6. FinishTable => <2>4!1
    BY DEF FinishTable, EndCopy
  <2> QED BY <1>3, <2>3, <2>4, <2>5, <2>6
<1>4. CASE SpawnWorkers
  <2>1. phase = "spawn" /\ phase' = "pool" /\ UNCHANGED <<job, dest, results, outcome>>
    BY <1>4 DEF SpawnWorkers, Goto, copyVars, endVars
  <2>2. ResultInv'
    BY <2>1 DEF DataInv, ResultInv, Full, KeepsNone, PerTable
  <2>3. ClearInv' /\ CopyInv'
    BY <2>1 DEF DataInv, ClearInv, CopyInv, KeepsNone, PerTable
  <2> QED BY <2>2, <2>3 DEF DataInv
<1>5. CASE PoolDone
  <2>1. phase = "pool" /\ step = DataStep /\ UNCHANGED <<job, dest, results, worker>> /\ Live' = Live
    BY <1>5 DEF PoolDone, ControlInv, DataPhases, Live
  <2>2. CASE Throw("cancelled")
    BY <2>1, <2>2, ThrowRests
  <2>3. CASE NextStep /\ UNCHANGED outcome
    <3>1. phase' = "step" /\ step' = DataStep + 1
      BY <2>1, <2>3 DEF NextStep, Goto
    <3> QED BY <2>1, <2>3, <3>1, DataRests DEF DataStep
  <2> QED BY <1>5, <2>2, <2>3 DEF PoolDone, EndData
<1> QED BY <1>1, <1>2, <1>3, <1>4, <1>5, ClearingData, StartTableData, CopyBatchData DEF Migrator

\* Past the step of the copies every table has its result.
ResultsIn == step > DataStep => \A t \in Tables : results[t] # "none"

\* The orchestrator neither copies nor clears.
LEMMA OrchestratorData ==
  ASSUME ControlInv, PoolInv, DataInv, ResultsIn, Orchestrator
  PROVE  DataInv'
<1>0. UNCHANGED <<job, dest, results, worker>> /\ phase \in {"step", "disable", "enable", "undo"} /\ outcome = "running"
  <2>1. UNCHANGED <<job, dest, results, worker>> /\ phase \in {"step", "disable", "enable", "undo"}
    BY DEF Orchestrator, CancelBeforeStep, PlainStep, StartDisable, DisableTriggers, StartEnable, EnableTriggers,
           Compensate, copyVars, poolVars
  <2> QED BY <2>1 DEF ControlInv
<1>1. Live = {} /\ Live' = {}
  BY <1>0, NoneLive
<1>2. CASE \E s \in {"failed", "cancelled", "crashed"} : Throw(s) \/ Finish(s)
  BY <1>0, <1>1, <1>2, ThrowRests
<1>3. CASE phase' \in {"enable", "undo"} /\ UNCHANGED outcome
  BY <1>0, <1>1, <1>3, DataRests
<1>4. CASE phase \in {"step", "disable"} /\ phase' \in {"step", "disable"} /\ step' \in {step, step + 1} /\ UNCHANGED outcome
  BY <1>0, <1>1, <1>4, DataRests DEF ControlInv, DataStep, LastStep
<1>5. CASE phase = "enable" /\ NextStep /\ UNCHANGED outcome
  <2>1. phase' = "step" /\ step' = EnableStep + 1
    BY <1>5 DEF NextStep, Goto, ControlInv
  <2> QED BY <1>0, <1>1, <1>5, <2>1, DataRests DEF EnableStep, DataStep
<1>6. CASE step = LastStep /\ Finish("succeeded") /\ \A t \in Tables : results[t] # "failed"
  <2>1. phase' = "over"
    BY <1>6 DEF Finish, Goto
  <2>2. ResultInv'
    <3>1. \A t \in Tables : results[t] = "ok"
      <4>1. step > DataStep
        BY <1>6 DEF LastStep, DataStep
      <4> QED BY <1>6, <4>1 DEF DataInv, ResultInv, ResultsIn
    <3> QED BY <1>0, <3>1 DEF DataInv, ResultInv, Full, KeepsNone, PerTable
  <2>3. ClearInv' /\ CopyInv'
    BY <1>0, <1>1, <2>1 DEF DataInv, ClearInv, CopyInv
  <2> QED BY <2>2, <2>3 DEF DataInv
<1>7. CancelBeforeStep \/ PlainStep => <1>2!1 \/ <1>4!1 \/ <1>6!1
  BY <1>0 DEF CancelBeforeStep, PlainStep, NextStep, Goto
<1>8. StartDisable \/ DisableTriggers => <1>2!1 \/ <1>3!1 \/ <1>4!1
  BY <1>0 DEF StartDisable, DisableTriggers, NextStep, Goto
<1>9. StartEnable \/ EnableTriggers \/ Compensate => <1>2!1 \/ <1>3!1 \/ <1>5!1
  BY <1>0 DEF StartEnable, EnableTriggers, Compensate, Goto, endVars
<1> QED BY <1>2, <1>3, <1>4, <1>5, <1>6, <1>7, <1>8, <1>9 DEF Orchestrator

\* One thread.
LEMMA ThreadData ==
  ASSUME ControlInv, PoolInv, EarlyInv, DataInv, NEW w \in Workers,
         \/ WorkerCopies(w) \/ WorkerReports(w) \/ WorkerFailsTable(w) \/ WorkerDies(w) \/ WorkerStops(w)
  PROVE  DataInv'
<1> DEFINE t == Head(worker[w].left)
<1>1. /\ worker[w].st # "gone" /\ w \in Live
      /\ Advance(w) \/ worker' = [worker EXCEPT ![w] = Gone] \/ UNCHANGED worker
  BY DEF WorkerCopies, WorkerReports, WorkerFailsTable, WorkerDies, WorkerStops, poolVars, Live
<1>2. t \in Tables /\ job.rows[t] \in Nat
  <2>1. worker[w].left \in Seq(Tables) /\ worker[w].left # <<>>
    BY <1>1 DEF PoolInv, Threads
  <2> QED BY <2>1, HeadAndTail, JobTyped DEF ControlInv
<1>3. Live' \subseteq Live /\ \A c \in Tables : ~ dest[c].old
  <2>1. \A v \in Workers : worker'[v].st # "gone" => worker[v].st # "gone"
    BY <1>1, ThreadsMove
  <2> QED BY <1>1, <2>1 DEF DataInv, ClearInv, Live
<1>4. step = DataStep /\ (phase = "pool" \/ (phase = "over" /\ outcome = "failed")) /\ outcome # "succeeded"
  BY <1>1 DEF PoolInv, ControlInv
<1>5. /\ UNCHANGED job /\ phase' \in {"pool", "over"} /\ outcome' # "succeeded"
      /\ UNCHANGED dest \/ dest' = [dest EXCEPT ![t].new = job.rows[t]]
      /\ \/ UNCHANGED results \/ results' = [results EXCEPT ![t] = "failed"]
         \/ results' = [results EXCEPT ![t] = "ok"] /\ dest' = [dest EXCEPT ![t].new = job.rows[t]] /\ phase' = phase
  <2>1. CASE WorkerCopies(w)
    BY <1>4, <2>1 DEF WorkerCopies, loopVars, endVars
  <2>2. CASE WorkerDies(w)
    BY <1>4, <2>2 DEF WorkerDies, Throw, Finish, Goto, copyVars
  <2>3. CASE WorkerReports(w) \/ WorkerFailsTable(w)
    BY <1>4, <2>3 DEF WorkerReports, WorkerFailsTable, loopVars, endVars
  <2>4. CASE WorkerStops(w)
    BY <1>4, <2>4 DEF WorkerStops, loopVars, endVars
  <2> QED BY <2>1, <2>2, <2>3, <2>4
<1>6. ~ KeepsNone /\ ~ KeepsNone'
  BY <1>1, <1>5 DEF DataInv, ClearInv, KeepsNone, PerTable
<1> HIDE DEF t
<1>7. /\ \A c \in Tables : ~ dest'[c].old
      /\ \A c \in Tables : dest'[c] = dest[c] \/ (c = t /\ dest'[c] = [old |-> FALSE, new |-> job.rows[c]])
  <2>1. CASE dest' = [dest EXCEPT ![t].new = job.rows[t]]
    <3>1. dest \in [Tables -> Rows] /\ dest[t].old = FALSE
      BY <1>2, <1>3 DEF EarlyInv, Rows
    <3>2. /\ dest'[t] = [old |-> dest[t].old, new |-> job.rows[t]]
          /\ \A c \in Tables \ {t} : dest'[c] = dest[c]
      BY <1>2, <2>1, <3>1, RowsSet, Zenon
    <3>3. dest'[t] = [old |-> FALSE, new |-> job.rows[t]]
      BY <3>1, <3>2, Zenon
    <3>4. ~ [old |-> FALSE, new |-> job.rows[t]].old
      OBVIOUS
    <3>5. \A c \in Tables : c = t \/ c \in Tables \ {t}
      OBVIOUS
    <3> QED BY <1>3, <3>2, <3>3, <3>4, <3>5, Zenon
  <2>2. CASE UNCHANGED dest
    BY <1>3, <2>2
  <2> QED BY <1>5, <2>1, <2>2
<1>8. \A c \in Tables : results'[c] = "ok" => results[c] = "ok" \/ dest'[c] = [old |-> FALSE, new |-> job.rows[c]]
  <2>1. CASE results' = [results EXCEPT ![t] = "ok"] /\ dest' = [dest EXCEPT ![t].new = job.rows[t]]
    <3>1. dest \in [Tables -> Rows] /\ dest[t].old = FALSE
      BY <1>2, <1>3 DEF EarlyInv, Rows
    <3>2. /\ dest'[t] = [old |-> dest[t].old, new |-> job.rows[t]]
          /\ \A c \in Tables \ {t} : dest'[c] = dest[c]
      BY <1>2, <2>1, <3>1, RowsSet, Zenon
    <3>3. dest'[t] = [old |-> FALSE, new |-> job.rows[t]]
      BY <3>1, <3>2
    <3> QED BY <1>2, <2>1, <3>3 DEF DataInv, ResultInv
  <2>2. CASE UNCHANGED results
    BY <2>2
  <2>3. CASE results' = [results EXCEPT ![t] = "failed"]
    BY <1>2, <2>3 DEF DataInv, ResultInv
  <2> QED BY <1>5, <2>1, <2>2, <2>3
<1>9. results' \in [Tables -> {"none", "ok", "failed"}]
  BY <1>2, <1>5 DEF DataInv, ResultInv
<1>10. ResultInv'
  BY <1>5, <1>6, <1>7, <1>8, <1>9 DEF DataInv, ResultInv, Full
<1>11. ClearInv' /\ CopyInv'
  BY <1>5, <1>6, <1>7 DEF ClearInv, CopyInv
<1> QED BY <1>10, <1>11 DEF DataInv

\* Whatever happens next, of rows and results.
LEMMA DataStepKept ==
  ASSUME ControlInv, PoolInv, EarlyInv, DataInv, ResultsIn, [MigrationNext]_migrationVars
  PROVE  DataInv'
<1>1. CASE Pool
  BY <1>1, ThreadData DEF Pool
<1>2. CASE Abort \/ ProcessKilled \/ UNCHANGED migrationVars
  <2>1. UNCHANGED <<job, dest, results, phase, step, outcome, left, done>>
    BY <1>2 DEF Abort, ProcessKilled, migrationVars, loopVars, copyVars, endVars
  <2>2. Live' \subseteq Live
    BY <1>2 DEF Abort, ProcessKilled, migrationVars, poolVars, Live, Gone
  <2>3. ResultInv'
    BY <2>1 DEF DataInv, ResultInv, Full, KeepsNone, PerTable
  <2>4. ClearInv'
    BY <2>1, <2>2 DEF DataInv, ClearInv, KeepsNone, PerTable
  <2>5. CopyInv'
    BY <2>1 DEF DataInv, CopyInv, KeepsNone, PerTable
  <2> QED BY <2>3, <2>4, <2>5 DEF DataInv
<1> QED BY <1>1, <1>2, OrchestratorData, MigratorData DEF MigrationNext

-----------------------------------------------------------------------------
(***************************************************************************)
(* What the user is told of the tables.                                    *)
(***************************************************************************)

\* Quotient and rest.
LEMMA Division ==
  ASSUME NEW a \in Nat, NEW b \in Nat \ {0}
  PROVE  a \div b \in Nat /\ a = b * (a \div b) + (a % b) /\ a % b \in 0 .. b - 1
OBVIOUS

\* Rounded up, and so enough for all.
LEMMA RoundedUp ==
  ASSUME NEW n \in Nat \ {0}, NEW k \in Nat \ {0}, NEW c, c = (n + k - 1) \div k
  PROVE  c \in Nat \ {0} /\ n <= k * c
<1>1. n + k - 1 \in Nat
  OBVIOUS
<1>2. c \in Nat /\ n <= k * c
  BY <1>1, Division
<1>3. c # 0
  BY <1>2
<1> QED BY <1>2, <1>3

\* A smaller multiple is one of a smaller number.
LEMMA Multiples ==
  ASSUME NEW q \in Nat, NEW k \in Nat, NEW c \in Nat
  PROVE  /\ c * q < k * c => q < k
         /\ q < k => q * c <= (k - 1) * c
OBVIOUS

\* The chunks of the pool share out the tables: each table is in one chunk, once.
LEMMA ChunksShareOut ==
  ASSUME PlanMade
  PROVE  /\ \A w \in Workers : Once(Chunk(w))
         /\ \A v, w \in Workers : v # w => ToSet(Chunk(v)) \cap ToSet(Chunk(w)) = {}
         /\ \A t \in Tables : \E w \in Workers : t \in ToSet(Chunk(w))
<1> DEFINE s == plan.loadOrder
           C == ChunkSize
           first(w) == (w - 1) * C + 1
           last(w) == IF w * C < N THEN w * C ELSE N
           k == IF N < MaxWorkers THEN N ELSE MaxWorkers
<1>1. /\ s \in Seq(Tables) /\ Len(s) = N /\ Once(s) /\ ToSet(s) = Tables
      /\ \A i, j \in 1 .. N : i # j => s[i] # s[j]
      /\ \A t \in Tables : \E i \in 1 .. N : s[i] = t
  <2>1. s \in Seq(Tables) /\ Len(s) = N /\ Once(s) /\ ToSet(s) = Tables
    BY OrdersAreLoops DEF PlanMade, IsOrder
  <2>2. DOMAIN s = 1 .. N
    BY <2>1
  <2> QED BY <2>1, <2>2 DEF Once, ToSet
<1>2. /\ N \in Nat \ {0} /\ k \in Nat \ {0} /\ k <= MaxWorkers /\ MaxWorkers \in Nat
      /\ C = (N + k - 1) \div k
  BY SizesAreNat DEF ChunkSize
<1> HIDE DEF s, C, k
<1>3. C \in Nat \ {0} /\ N <= k * C
  BY <1>2, RoundedUp
<1>4. \A w \in Workers : w \in Nat \ {0} /\ first(w) \in Nat \ {0} /\ last(w) \in Nat /\ last(w) <= N
  <2> SUFFICES ASSUME NEW w \in Workers
               PROVE  w \in Nat \ {0} /\ first(w) \in Nat \ {0} /\ last(w) \in Nat /\ last(w) <= N
    OBVIOUS
  <2>1. w \in Nat \ {0} /\ w - 1 \in Nat
    BY <1>2 DEF Workers
  <2>2. (w - 1) * C \in Nat /\ w * C \in Nat
    BY <1>3, <2>1
  <2> QED BY <1>2, <2>1, <2>2
<1>5. \A w \in Workers : /\ Once(Chunk(w))
                         /\ \A t \in ToSet(Chunk(w)) : \E i \in first(w) .. last(w) : t = s[i]
                         /\ \A i \in first(w) .. last(w) : s[i] \in ToSet(Chunk(w))
  <2> SUFFICES ASSUME NEW w \in Workers
               PROVE  /\ Once(Chunk(w))
                      /\ \A t \in ToSet(Chunk(w)) : \E i \in first(w) .. last(w) : t = s[i]
                      /\ \A i \in first(w) .. last(w) : s[i] \in ToSet(Chunk(w))
    OBVIOUS
  <2> DEFINE a == first(w)
             b == last(w)
             c == Chunk(w)
  <2>1. a \in Nat \ {0} /\ b \in Nat /\ b <= N
    BY <1>4
  <2>2. c = SubSeq(s, a, b)
    BY DEF Chunk, s, C
  <2> HIDE DEF a, b, c
  <2>3. \A i \in a .. b : i \in 1 .. N /\ s[i] \in Tables
    BY <1>1, <1>2, <2>1
  <2>4. /\ c \in Seq(Tables) /\ Len(c) = (IF a <= b THEN b - a + 1 ELSE 0)
        /\ \A x \in 1 .. b - a + 1 : c[x] = s[a + x - 1]
    BY <2>1, <2>2, <2>3, SubSeqProperties
  <2>5. DOMAIN c = 1 .. b - a + 1
    BY <2>1, <2>4
  <2>6. \A x \in DOMAIN c : a + x - 1 \in a .. b /\ c[x] = s[a + x - 1]
    BY <2>1, <2>4, <2>5
  <2>7. \A i \in a .. b : i - a + 1 \in DOMAIN c /\ c[i - a + 1] = s[i]
    BY <2>1, <2>4, <2>5
  <2>8. Once(c)
    <3> SUFFICES ASSUME NEW x \in DOMAIN c, NEW y \in DOMAIN c, x # y PROVE c[x] # c[y]
      BY DEF Once
    <3>1. a + x - 1 \in 1 .. N /\ a + y - 1 \in 1 .. N /\ a + x - 1 # a + y - 1
      BY <2>1, <2>3, <2>5, <2>6
    <3> QED BY <1>1, <2>6, <3>1
  <2>9. \A t \in ToSet(c) : \E i \in a .. b : t = s[i]
    BY <2>6 DEF ToSet
  <2>10. \A i \in a .. b : s[i] \in ToSet(c)
    BY <2>7 DEF ToSet
  <2> QED BY <2>8, <2>9, <2>10 DEF a, b, c
<1>6. \A v, w \in Workers : v < w => last(v) < first(w)
  <2> SUFFICES ASSUME NEW v \in Workers, NEW w \in Workers, v < w PROVE last(v) < first(w)
    OBVIOUS
  <2>1. v \in Nat /\ w \in Nat /\ w - 1 \in Nat /\ v * C \in Nat /\ (w - 1) * C \in Nat
    BY <1>3, <1>4
  <2>2. v * C <= (w - 1) * C
    BY <1>3, <2>1, Multiples
  <2> QED BY <1>2, <2>1, <2>2
<1>7. ASSUME NEW v \in Workers, NEW w \in Workers, v < w
      PROVE  ToSet(Chunk(v)) \cap ToSet(Chunk(w)) = {}
  <2> SUFFICES ASSUME NEW t \in ToSet(Chunk(v)), t \in ToSet(Chunk(w)) PROVE FALSE
    OBVIOUS
  <2>1. PICK i \in first(v) .. last(v) : t = s[i]
    BY <1>5
  <2>2. PICK j \in first(w) .. last(w) : t = s[j]
    BY <1>5
  <2>3. i \in 1 .. N /\ j \in 1 .. N /\ i # j
    <3> HIDE DEF first, last
    <3>1. last(v) < first(w)
      BY <1>6, <1>7
    <3> QED BY <1>2, <1>4, <3>1
  <2> QED BY <1>1, <2>1, <2>2, <2>3
<1>8. \A v, w \in Workers : v # w => ToSet(Chunk(v)) \cap ToSet(Chunk(w)) = {}
  <2>1. \A v, w \in Workers : v # w => v < w \/ w < v
    BY <1>4
  <2> QED BY <1>7, <2>1
<1>9. ASSUME NEW t \in Tables PROVE \E w \in Workers : t \in ToSet(Chunk(w))
  <2>1. PICK i \in 1 .. N : s[i] = t
    BY <1>1
  <2> DEFINE q == (i - 1) \div C
             r == (i - 1) % C
  <2>2. i - 1 \in Nat /\ q \in Nat /\ i - 1 = C * q + r /\ r \in 0 .. C - 1
    <3>1. i - 1 \in Nat /\ C \in Nat \ {0}
      BY <1>2, <1>3
    <3> QED BY <3>1, Division
  <2> HIDE DEF q, r
  <2>3. C * q \in Nat /\ C * q <= i - 1 /\ C * q < k * C
    BY <1>2, <1>3, <2>2
  <2>4. q < k
    BY <1>2, <1>3, <2>2, <2>3, Multiples
  <2>5. q + 1 \in Workers /\ (q + 1) - 1 = q
    BY <1>2, <2>2, <2>4 DEF Workers
  <2>6. (q + 1) * C = C * q + C /\ q * C = C * q
    BY <1>3, <2>2
  <2>7. i \in first(q + 1) .. last(q + 1)
    <3> DEFINE p == (q + 1) * C
    <3>1. q * C \in Nat /\ q * C + 1 <= i /\ i <= p /\ p \in Nat
      BY <1>3, <2>2, <2>3, <2>6
    <3>2. first(q + 1) = q * C + 1 /\ last(q + 1) = IF p < N THEN p ELSE N
      BY <2>5
    <3> HIDE DEF p, first, last
    <3> QED BY <1>2, <3>1, <3>2
  <2> QED BY <1>5, <2>1, <2>5, <2>7
<1> QED BY <1>5, <1>8, <1>9

\* The tables a thread has before it.
Before(w) == IF worker[w].st = "gone" THEN {} ELSE ToSet(worker[w].left)

\* No table is lost: each has its result, or is before the migrator or before one thread,
\* as long as nobody has cancelled.
CoverInv ==
  /\ phase \in {"copy", "table"} => \A t \in Tables : results[t] # "none" \/ t \in ToSet(left)
  /\ terminated => aborted # "no"
  /\ \A w \in Workers : worker[w].st = "stopping" => aborted # "no"
  /\ phase = "pool" /\ aborted = "no" =>
       \A t \in Tables : results[t] # "none" \/ \E w \in Workers : t \in Before(w)
  /\ \A w \in Workers : worker[w].st # "gone" => Once(worker[w].left)
  /\ \A w \in Workers : \A t \in Before(w) : results[t] = "none"
  /\ \A v, w \in Workers : v # w => Before(v) \cap Before(w) = {}

\* The estimate is none of the counts a copy of t passes through.
Inexact(t) == job.est[t] \notin 1 .. job.rows[t]
HasRows(t) == job.rows[t] > 0

\* While tables are copied only a full one that had rows is told; with the end of the step
\* every one is.
TellInv ==
  /\ told \in [Tables -> Seq(BOOLEAN)]
  /\ outcome = "succeeded" => step > DataStep
  /\ step > DataStep => \A t \in Tables : Inexact(t) => told[t] = <<results[t] = "ok">>
  /\ step <= DataStep => \A t \in Tables : Inexact(t) =>
       told[t] = IF results[t] = "ok" /\ HasRows(t) THEN <<TRUE>> ELSE <<>>
  /\ ResultsIn

\* A step that tells nothing.
LEMMA TellRests ==
  ASSUME ControlInv, TellInv, UNCHANGED <<job, results, told>>, step' \in Nat,
         step' > DataStep <=> step > DataStep, outcome' = "succeeded" => UNCHANGED outcome \/ step' > DataStep
  PROVE  TellInv'
<1>1. step \in Nat /\ ~ (step > DataStep /\ step <= DataStep) /\ (step > DataStep \/ step <= DataStep)
  BY DEF ControlInv, DataStep, LastStep
<1>2. ~ (step' > DataStep /\ step' <= DataStep) /\ (step' > DataStep \/ step' <= DataStep)
  BY DEF DataStep
<1>3. \A t \in Tables : (Inexact(t)' <=> Inexact(t)) /\ (HasRows(t)' <=> HasRows(t))
  BY DEF Inexact, HasRows
<1> QED BY <1>1, <1>2, <1>3 DEF TellInv, ResultsIn

\* One without threads, or whose threads stay, outside the copying.
LEMMA CoverRests ==
  ASSUME CoverInv, UNCHANGED <<worker, terminated, results>>, aborted # "no" => aborted' # "no",
         phase' \notin {"copy", "table", "pool"}
  PROVE  CoverInv'
BY DEF CoverInv, Before

\* The step of the copies ends with every result in: the rest is told.
LEMMA EndDataTells ==
  ASSUME step = DataStep, UNCHANGED job, outcome' # "succeeded",
         NEW res \in [Tables -> {"ok", "failed"}], results' = res, NEW said \in [Tables -> Seq(BOOLEAN)],
         \A t \in Tables : Inexact(t) => said[t] = IF res[t] = "ok" /\ HasRows(t) THEN <<TRUE>> ELSE <<>>,
         EndData(res, said)
  PROVE  TellInv' /\ phase' = "step"
<1>1. told' = [t \in Tables |-> IF said[t] = <<>> /\ res[t] # "none" THEN <<res[t] = "ok">> ELSE said[t]]
  BY DEF EndData, TellTheRest
<1>2. step' = DataStep + 1 /\ phase' = "step"
  BY DEF EndData, NextStep, Goto
<1>3. \A t \in Tables : <<res[t] = "ok">> \in Seq(BOOLEAN) /\ res[t] # "none"
  OBVIOUS
<1>4. told' \in [Tables -> Seq(BOOLEAN)]
  BY <1>1, <1>3
<1>5. ASSUME NEW t \in Tables, Inexact(t) PROVE told'[t] = <<res[t] = "ok">>
  <2>1. CASE res[t] = "ok" /\ HasRows(t)
    <3>1. said[t] = <<TRUE>>
      BY <1>5, <2>1, Zenon
    <3>2. <<TRUE>> # <<>>
      OBVIOUS
    <3>3. told'[t] = said[t] /\ (res[t] = "ok") = TRUE
      BY <1>1, <2>1, <3>1, <3>2
    <3> QED BY <3>1, <3>3
  <2>2. CASE ~ (res[t] = "ok" /\ HasRows(t))
    <3>1. said[t] = <<>>
      BY <1>5, <2>2
    <3> QED BY <1>1, <1>3, <3>1
  <2> QED BY <2>1, <2>2
<1>6. \A t \in Tables : Inexact(t)' <=> Inexact(t)
  BY DEF Inexact
<1>7. step' > DataStep /\ ~ (step' <= DataStep)
  BY <1>2 DEF DataStep
<1>8. ResultsIn'
  BY <1>3 DEF ResultsIn
<1> QED BY <1>7, <1>2, <1>4, <1>5, <1>6, <1>8 DEF TellInv, DataStep

\* The end of a table of the sequential migrators.
LEMMA TableEndTold ==
  ASSUME ControlInv, PoolInv, DataInv, CoverInv, TellInv, phase \in {"copy", "table"},
         NEW ok \in BOOLEAN, EndTable(Head(left), ok), UNCHANGED <<job, worker, terminated, aborted>>
  PROVE  CoverInv' /\ TellInv'
<1> DEFINE t == Head(left)
           res == [results EXCEPT ![t] = IF ok THEN "ok" ELSE "failed"]
           said == [told EXCEPT ![t] = IF ok /\ HasRows(t) THEN Append(@, TRUE) ELSE @]
<1>1. left \in Seq(Tables) /\ left # <<>> /\ outcome = "running" /\ step = DataStep
  BY DEF ControlInv, Looping, DataPhases
<1>2. /\ t \in Tables /\ ToSet(left) = {t} \cup ToSet(Tail(left)) /\ (Len(left) = 1 => ToSet(left) = {t})
  BY <1>1, HeadAndTail
<1>3. results[t] = "none" /\ results \in [Tables -> {"none", "ok", "failed"}] /\ told \in [Tables -> Seq(BOOLEAN)]
  BY <1>2 DEF DataInv, CopyInv, ResultInv, TellInv
<1>4. /\ results' = res
      /\ \/ Throw("cancelled") /\ told' = said
         \/ Goto("copy", Tail(left)) /\ told' = said /\ UNCHANGED <<step, outcome>>
         \/ Len(left) = 1 /\ EndData(res, said) /\ UNCHANGED outcome
  BY DEF EndTable, HasRows
<1>5. /\ res \in [Tables -> {"none", "ok", "failed"}] /\ res[t] = IF ok THEN "ok" ELSE "failed"
      /\ \A c \in Tables : c # t => res[c] = results[c]
  BY <1>2, <1>3
<1>6. said \in [Tables -> Seq(BOOLEAN)] /\ \A c \in Tables : c # t => said[c] = told[c]
  <2>1. told[t] \in Seq(BOOLEAN) /\ Append(told[t], TRUE) \in Seq(BOOLEAN)
    BY <1>2, <1>3
  <2> QED BY <1>2, <1>3, <2>1
<1>7. said[t] = IF ok /\ HasRows(t) THEN Append(told[t], TRUE) ELSE told[t]
  BY <1>2, <1>3
<1> HIDE DEF t, res, said
<1>8. \A c \in Tables : Inexact(c) => said[c] = IF res[c] = "ok" /\ HasRows(c) THEN <<TRUE>> ELSE <<>>
  <2> SUFFICES ASSUME NEW c \in Tables, Inexact(c)
               PROVE  said[c] = IF res[c] = "ok" /\ HasRows(c) THEN <<TRUE>> ELSE <<>>
    OBVIOUS
  <2>0. told[c] = IF results[c] = "ok" /\ HasRows(c) THEN <<TRUE>> ELSE <<>>
    <3>1. step <= DataStep
      BY <1>1 DEF DataStep
    <3> QED BY <3>1 DEF TellInv
  <2>1. CASE c = t
    <3>1. told[c] = <<>>
      BY <1>3, <2>0, <2>1
    <3> QED BY <1>5, <1>7, <2>1, <3>1
  <2>2. CASE c # t
    BY <1>5, <1>6, <2>0, <2>2
  <2> QED BY <2>1, <2>2
<1>9. \A w \in Workers : worker[w].st = "gone"
  BY DEF PoolInv
<1>10. \A c \in Tables : res[c] # "none" \/ c \in ToSet(Tail(left))
  <2>1. \A c \in Tables : results[c] # "none" \/ c \in ToSet(left)
    BY DEF CoverInv
  <2> QED BY <1>2, <1>5, <2>1
<1>11. CASE told' = said /\ (Throw("cancelled") \/ (Goto("copy", Tail(left)) /\ UNCHANGED <<step, outcome>>))
  <2>1. told' = said /\ step' = step /\ outcome' # "succeeded"
        /\ (phase' \in {"over", "undo"} \/ (phase' = "copy" /\ left' = Tail(left)))
    BY <1>1, <1>4, <1>11 DEF Throw, Finish, Goto
  <2>2. TellInv'
    <3>1. \A c \in Tables : (Inexact(c)' <=> Inexact(c)) /\ (HasRows(c)' <=> HasRows(c))
      BY DEF Inexact, HasRows
    <3>2. step' <= DataStep /\ ~ (step' > DataStep)
      BY <1>1, <2>1 DEF DataStep
    <3> QED BY <1>4, <1>6, <1>8, <2>1, <3>1, <3>2 DEF TellInv, ResultsIn
  <2>3. CoverInv'
    BY <1>4, <1>9, <1>10, <2>1 DEF CoverInv, Before
  <2> QED BY <2>2, <2>3
<1>12. CASE Len(left) = 1 /\ EndData(res, said) /\ UNCHANGED outcome
  <2>1. \A c \in Tables : res[c] # "none"
    <3>1. \A c \in Tables : results[c] # "none" \/ c = t
      BY <1>2, <1>12 DEF CoverInv
    <3> QED BY <1>5, <3>1
  <2>2. res \in [Tables -> {"ok", "failed"}]
    BY <1>5, <2>1
  <2>3. TellInv' /\ phase' = "step"
    BY <1>1, <1>4, <1>6, <1>8, <1>12, <2>2, EndDataTells
  <2>4. CoverInv'
    BY <1>9, <2>3 DEF CoverInv, Before
  <2> QED BY <2>3, <2>4
<1> QED BY <1>4, <1>11, <1>12

\* The tables before the threads, when one of them has done its first or is gone.
LEMMA BeforeMoves ==
  ASSUME PoolInv, NEW w \in Workers, worker[w].st # "gone", Once(worker[w].left)
  PROVE  /\ Head(worker[w].left) \in Before(w) /\ Before(w) \subseteq Tables
         /\ Advance(w) => /\ Before(w)' = Before(w) \ {Head(worker[w].left)}
                          /\ worker'[w].st # "gone" => Once(worker'[w].left) /\ worker'[w].st = worker[w].st
         /\ worker' = [worker EXCEPT ![w] = Gone] => Before(w)' = {} /\ worker'[w].st = "gone"
         /\ Advance(w) \/ worker' = [worker EXCEPT ![w] = Gone] =>
              \A v \in Workers : v # w => worker'[v] = worker[v] /\ Before(v)' = Before(v)
<1> DEFINE s == worker[w].left
           rest == Tail(s)
<1>1. worker[w] \in Threads /\ s \in Seq(Tables) /\ s # <<>> /\ worker \in [Workers -> Threads]
  BY DEF PoolInv, Threads
<1>2. /\ Head(s) \in Tables /\ rest \in Seq(Tables) /\ ToSet(s) = {Head(s)} \cup ToSet(rest)
      /\ Once(rest) /\ Head(s) \notin ToSet(rest)
  BY <1>1, HeadAndTail
<1>3. Before(w) = ToSet(s) /\ ToSet(s) \subseteq Tables
  BY <1>1 DEF Before, ToSet
<1>4. ASSUME worker' = [worker EXCEPT ![w] = Gone]
      PROVE  /\ Before(w)' = {} /\ worker'[w].st = "gone"
             /\ \A v \in Workers : v # w => worker'[v] = worker[v] /\ Before(v)' = Before(v)
  BY <1>1, <1>4 DEF Before, Gone
<1> DEFINE x == [worker[w] EXCEPT !.left = rest]
<1>5. x.st = worker[w].st /\ x.left = rest
  <2> HIDE DEF rest
  <2> QED BY <1>1 DEF Threads
<1>6. Advance(w) => worker' = [worker EXCEPT ![w] = IF rest = <<>> THEN Gone ELSE x]
  BY DEF Advance
<1> HIDE DEF x, rest, s
<1>7. ASSUME Advance(w), rest # <<>>
      PROVE  /\ Before(w)' = ToSet(rest) /\ worker'[w].st = worker[w].st /\ worker'[w].left = rest
             /\ \A v \in Workers : v # w => worker'[v] = worker[v] /\ Before(v)' = Before(v)
  <2>1. worker'[w] = x /\ \A v \in Workers : v # w => worker'[v] = worker[v]
    BY <1>1, <1>6, <1>7
  <2> QED BY <1>5, <2>1 DEF Before
<1>8. ASSUME Advance(w), rest = <<>>
      PROVE  worker' = [worker EXCEPT ![w] = Gone] /\ ToSet(rest) = {}
  BY <1>6, <1>8 DEF ToSet
<1>9. Advance(w) => /\ Before(w)' = ToSet(rest)
                    /\ worker'[w].st # "gone" => Once(worker'[w].left) /\ worker'[w].st = worker[w].st
                    /\ \A v \in Workers : v # w => worker'[v] = worker[v] /\ Before(v)' = Before(v)
  BY <1>2, <1>4, <1>7, <1>8
<1>10. Before(w) \ {Head(s)} = ToSet(rest)
  BY <1>2, <1>3
<1> QED BY <1>2, <1>3, <1>4, <1>9, <1>10 DEF s

\* One thread, and the tables that are left.
LEMMA ThreadCovers ==
  ASSUME ControlInv, PoolInv, DataInv, CoverInv, NEW w \in Workers,
         \/ WorkerCopies(w) \/ WorkerReports(w) \/ WorkerFailsTable(w) \/ WorkerDies(w) \/ WorkerStops(w)
  PROVE  CoverInv'
<1> DEFINE t == Head(worker[w].left)
<1>1. /\ worker[w].st # "gone" /\ Once(worker[w].left) /\ UNCHANGED <<terminated, aborted>>
      /\ phase \in {"pool", "over"} /\ (worker[w].st = "stopping" => aborted # "no")
  <2>1. worker[w].st # "gone" /\ UNCHANGED <<terminated, aborted>>
    BY DEF WorkerCopies, WorkerReports, WorkerFailsTable, WorkerDies, WorkerStops, poolVars
  <2> QED BY <2>1 DEF PoolInv, CoverInv
<1>2. /\ t \in Before(w) /\ Before(w) \subseteq Tables
      /\ Advance(w) => /\ Before(w)' = Before(w) \ {t}
                       /\ worker'[w].st # "gone" => Once(worker'[w].left) /\ worker'[w].st = worker[w].st
      /\ worker' = [worker EXCEPT ![w] = Gone] => Before(w)' = {} /\ worker'[w].st = "gone"
      /\ Advance(w) \/ worker' = [worker EXCEPT ![w] = Gone] =>
           \A v \in Workers : v # w => worker'[v] = worker[v] /\ Before(v)' = Before(v)
  BY <1>1, BeforeMoves
<1>3. results \in [Tables -> {"none", "ok", "failed"}] /\ \A v \in Workers : \A c \in Before(v) : results[c] = "none"
  BY DEF DataInv, ResultInv, CoverInv
<1>4. /\ \A v, u \in Workers : v # u => Before(v) \cap Before(u) = {}
      /\ \A v \in Workers : v # w => t \notin Before(v)
  BY <1>2 DEF CoverInv
<1>5. CASE Advance(w) /\ UNCHANGED phase /\ \E r \in {"ok", "failed"} : results' = [results EXCEPT ![t] = r]
  <2> HIDE DEF t
  <2>0. t \in Tables
    BY <1>2
  <2>1. results'[t] # "none" /\ \A c \in Tables : c # t => results'[c] = results[c]
    BY <1>3, <1>5, <2>0
  <2>2. \A v \in Workers : Before(v)' \subseteq Before(v) \ {t} /\ Before(v) \ {t} \subseteq Before(v)'
    BY <1>2, <1>4, <1>5
  <2>3. \A v \in Workers : Before(v) \subseteq Tables
    BY DEF Before, PoolInv, Threads, ToSet
  <2>4. \A v \in Workers : \A c \in Before(v)' : results'[c] = "none"
    BY <1>3, <2>1, <2>2, <2>3
  <2>5. \A v, u \in Workers : v # u => Before(v)' \cap Before(u)' = {}
    BY <1>4, <2>2
  <2>6. phase = "pool" /\ aborted = "no" =>
          \A c \in Tables : results'[c] # "none" \/ \E v \in Workers : c \in Before(v)'
    BY <2>1, <2>2 DEF CoverInv
  <2>7. \A v \in Workers : /\ worker'[v].st # "gone" => Once(worker'[v].left)
                           /\ worker'[v].st = "stopping" => aborted # "no"
    BY <1>1, <1>2, <1>5 DEF CoverInv
  <2> QED BY <1>1, <1>5, <2>4, <2>5, <2>6, <2>7 DEF CoverInv
<1>6. CASE /\ worker' = [worker EXCEPT ![w] = Gone] /\ UNCHANGED results
           /\ phase' = "over" \/ (UNCHANGED phase /\ aborted # "no")
           /\ phase' \notin {"copy", "table"}
  <2>1. \A v \in Workers : Before(v)' \subseteq Before(v)
    BY <1>2, <1>6
  <2>2. \A v \in Workers : /\ worker'[v].st # "gone" => Once(worker'[v].left)
                           /\ worker'[v].st = "stopping" => aborted # "no"
    BY <1>1, <1>2, <1>6 DEF CoverInv
  <2>3. \A v, u \in Workers : v # u => Before(v)' \cap Before(u)' = {}
    BY <1>4, <2>1
  <2> QED BY <1>1, <1>3, <1>6, <2>1, <2>2, <2>3 DEF CoverInv
<1>7. CASE UNCHANGED <<worker, results, phase, left>>
  BY <1>1, <1>7 DEF CoverInv, Before
<1>8. CASE WorkerDies(w)
  <2>1. CASE phase = "pool" /\ Throw("failed")
    BY <1>6, <1>8, <2>1 DEF WorkerDies, Throw, Finish, Goto, copyVars
  <2>2. CASE (phase # "pool" \/ terminated) /\ UNCHANGED phase
    BY <1>1, <1>6, <1>8, <2>2 DEF WorkerDies, copyVars, CoverInv
  <2> QED BY <1>8, <2>1, <2>2 DEF WorkerDies
<1>9. CASE WorkerStops(w)
  BY <1>1, <1>6, <1>9 DEF WorkerStops, loopVars
<1>10. CASE WorkerReports(w)
  BY <1>7, <1>10 DEF WorkerReports, loopVars, poolVars
<1>11. CASE WorkerCopies(w)
  BY <1>5, <1>11 DEF WorkerCopies, loopVars
<1>12. CASE WorkerFailsTable(w)
  BY <1>5, <1>12 DEF WorkerFailsTable, loopVars
<1> QED BY <1>8, <1>9, <1>10, <1>11, <1>12

\* A table is told by a report of all its batches, or of as many as were expected.
LEMMA Reports ==
  ASSUME told \in [Tables -> Seq(BOOLEAN)], NEW t \in Tables, NEW n \in Nat, NEW total \in Nat, Report(t, n, total)
  PROVE  /\ told' \in [Tables -> Seq(BOOLEAN)] /\ \A c \in Tables : c # t => told'[c] = told[c]
         /\ told'[t] = IF total > 0 /\ n = total THEN Append(told[t], TRUE) ELSE told[t]
<1>1. told[t] \in Seq(BOOLEAN) /\ Append(told[t], TRUE) \in Seq(BOOLEAN)
  OBVIOUS
<1>2. told' = [told EXCEPT ![t] = IF total > 0 /\ n = total THEN Append(told[t], TRUE) ELSE told[t]]
  BY DEF Report
<1> QED BY <1>1, <1>2

\* One thread, and what is told.
LEMMA ThreadTells ==
  ASSUME ControlInv, PoolInv, DataInv, CoverInv, TellInv, NEW w \in Workers,
         \/ WorkerCopies(w) \/ WorkerReports(w) \/ WorkerFailsTable(w) \/ WorkerDies(w) \/ WorkerStops(w)
  PROVE  TellInv'
<1> DEFINE t == Head(worker[w].left)
<1>1. worker[w].st # "gone" /\ step = DataStep /\ outcome # "succeeded" /\ UNCHANGED job
  <2>1. worker[w].st # "gone" /\ UNCHANGED job
    BY DEF WorkerCopies, WorkerReports, WorkerFailsTable, WorkerDies, WorkerStops
  <2> QED BY <2>1 DEF PoolInv, ControlInv
<1>2. t \in Tables /\ results[t] = "none"
  <2>1. Once(worker[w].left)
    BY <1>1 DEF CoverInv
  <2>2. t \in Before(w) /\ Before(w) \subseteq Tables
    BY <1>1, <2>1, BeforeMoves
  <2> QED BY <2>2 DEF CoverInv
<1>3. job.rows[t] \in Nat /\ job.est[t] \in Nat /\ told \in [Tables -> Seq(BOOLEAN)]
  BY <1>2, JobTyped DEF ControlInv, TellInv
<1>4. results \in [Tables -> {"none", "ok", "failed"}]
  BY DEF DataInv, ResultInv
<1>5. \A c \in Tables : Inexact(c) => told[c] = IF results[c] = "ok" /\ HasRows(c) THEN <<TRUE>> ELSE <<>>
  <2>1. step <= DataStep
    BY <1>1 DEF DataStep
  <2> QED BY <2>1 DEF TellInv
<1>6. step' = step /\ outcome' # "succeeded"
  BY <1>1 DEF WorkerCopies, WorkerReports, WorkerFailsTable, WorkerDies, WorkerStops, loopVars, endVars, Throw,
              Finish, Goto
<1>7. ASSUME told' \in [Tables -> Seq(BOOLEAN)],
             \A c \in Tables : Inexact(c) => told'[c] = IF results'[c] = "ok" /\ HasRows(c) THEN <<TRUE>> ELSE <<>>
      PROVE  TellInv'
  <2>1. \A c \in Tables : (Inexact(c)' <=> Inexact(c)) /\ (HasRows(c)' <=> HasRows(c))
    BY <1>1 DEF Inexact, HasRows
  <2>2. step' <= DataStep /\ ~ (step' > DataStep)
    BY <1>1, <1>6 DEF DataStep
  <2> QED BY <1>6, <1>7, <2>1, <2>2 DEF TellInv, ResultsIn
<1> HIDE DEF t
<1>8. CASE results' = [results EXCEPT ![t] = "ok"] /\ Report(t, job.rows[t], job.rows[t])
  <2>1. /\ told' \in [Tables -> Seq(BOOLEAN)] /\ \A c \in Tables : c # t => told'[c] = told[c]
        /\ told'[t] = IF HasRows(t) THEN Append(told[t], TRUE) ELSE told[t]
    BY <1>2, <1>3, <1>8, Reports DEF HasRows
  <2>2. results'[t] = "ok" /\ \A c \in Tables : c # t => results'[c] = results[c]
    BY <1>2, <1>4, <1>8
  <2>3. Inexact(t) => told[t] = <<>>
    BY <1>2, <1>5
  <2>4. Inexact(t) => told'[t] = IF HasRows(t) THEN <<TRUE>> ELSE <<>>
    <3>1. Append(<<>>, TRUE) = <<TRUE>>
      OBVIOUS
    <3> QED BY <2>1, <2>3, <3>1, Zenon
  <2>5. ASSUME NEW c \in Tables, Inexact(c)
        PROVE  told'[c] = IF results'[c] = "ok" /\ HasRows(c) THEN <<TRUE>> ELSE <<>>
    <3>1. CASE c = t
      BY <2>2, <2>4, <2>5, <3>1
    <3>2. CASE c # t
      BY <1>5, <2>1, <2>2, <2>5, <3>2
    <3> QED BY <3>1, <3>2
  <2> QED BY <1>7, <2>1, <2>5
<1>9. CASE UNCHANGED results /\ Report(t, job.est[t], job.est[t]) /\ job.est[t] \in 1 .. job.rows[t]
  <2>1. told' \in [Tables -> Seq(BOOLEAN)] /\ \A c \in Tables : c # t => told'[c] = told[c]
    BY <1>2, <1>3, <1>9, Reports
  <2>2. ~ Inexact(t)
    BY <1>9 DEF Inexact
  <2>3. \A c \in Tables : Inexact(c) => told'[c] = IF results'[c] = "ok" /\ HasRows(c) THEN <<TRUE>> ELSE <<>>
    BY <1>5, <1>9, <2>1, <2>2
  <2> QED BY <1>7, <2>1, <2>3
<1>10. CASE UNCHANGED told /\ (UNCHANGED results \/ results' = [results EXCEPT ![t] = "failed"])
  <2>1. \A c \in Tables : results'[c] = "ok" <=> results[c] = "ok"
    BY <1>2, <1>4, <1>10
  <2>2. \A c \in Tables : Inexact(c) => told'[c] = IF results'[c] = "ok" /\ HasRows(c) THEN <<TRUE>> ELSE <<>>
    BY <1>5, <1>10, <2>1
  <2> QED BY <1>3, <1>7, <1>10, <2>2
<1> QED BY <1>8, <1>9, <1>10 DEF WorkerCopies, WorkerReports, WorkerFailsTable, WorkerDies, WorkerStops, copyVars, t

\* The steps of a migrator, and the tables that are left and told.
LEMMA MigratorTells ==
  ASSUME ControlInv, PoolInv, DataInv, CoverInv, TellInv, Migrator
  PROVE  CoverInv' /\ TellInv'
<1>0. /\ UNCHANGED <<job, aborted>> /\ phase \in {"step"} \cup DataPhases /\ step = DataStep
      /\ outcome = "running" /\ step \in Nat /\ (phase # "pool" => \A w \in Workers : worker[w].st = "gone")
  <2>1. UNCHANGED <<job, aborted>> /\ phase \in {"step"} \cup DataPhases /\ (phase = "step" => step = DataStep)
    BY DEF Migrator, StartData, Open, ClearPg, ClearTable, StartTable, CopyBatch, CancelMidCopy, FinishTable,
           FailTable, Crash, SpawnWorkers, PoolDone, DataPhases
  <2> QED BY <2>1 DEF ControlInv, DataPhases, PoolInv, DataStep
<1>1. CASE /\ UNCHANGED <<worker, terminated, results, told>> /\ phase # "pool"
           /\ \E s \in {"failed", "cancelled", "crashed"} : Throw(s) \/ Finish(s)
  <2>1. step' = step /\ outcome' # "succeeded" /\ phase' \in {"over", "undo"}
    BY <1>0, <1>1 DEF Throw, Finish, Goto
  <2> QED BY <1>0, <1>1, <2>1, TellRests, CoverRests
<1>2. CASE /\ UNCHANGED <<worker, terminated, results, told, step, outcome>> /\ phase # "pool"
           /\ phase' \in {"open", "clear", "spawn"} \/ (phase' = "copy" /\ left' = plan.loadOrder /\ PlanMade)
  <2>1. TellInv'
    BY <1>0, <1>2, TellRests
  <2>2. CASE phase' \in {"open", "clear", "spawn"}
    BY <1>0, <1>2, <2>1, <2>2, CoverRests
  <2>3. CASE phase' = "copy" /\ left' = plan.loadOrder /\ PlanMade
    <3>1. ToSet(left') = Tables
      BY <2>3, LoopBegins
    <3> QED BY <1>0, <1>2, <2>1, <2>3, <3>1 DEF CoverInv, Before
  <2> QED BY <1>2, <2>1, <2>2, <2>3
<1>3. CASE phase \in {"copy", "table"} /\ UNCHANGED <<worker, terminated>> /\ \E ok \in BOOLEAN : EndTable(Head(left), ok)
  BY <1>0, <1>3, TableEndTold
<1>4. CASE /\ phase \in {"copy", "table"} /\ phase' = "table"
           /\ UNCHANGED <<worker, terminated, results, told, step, outcome, left>>
  <2>1. TellInv'
    BY <1>0, <1>4, TellRests
  <2> QED BY <1>0, <1>4, <2>1 DEF CoverInv, Before
<1>5. StartData \/ ClearPg \/ ClearTable => <1>1!1 \/ <1>2!1
  BY <1>0 DEF StartData, ClearPg, ClearTable, AfterClear, Goto, copyVars, poolVars, ControlInv, DataPhases
<1>6. Open => <1>1!1 \/ <1>2!1
  BY <1>0 DEF Open, Goto, CancelHere, copyVars, poolVars, ControlInv, DataPhases
<1>7. StartTable => <1>1!1 \/ <1>3!1 \/ <1>4!1
  BY DEF StartTable, StartFails, CancelHere, EndCopy, copyVars, poolVars
<1>8. CancelMidCopy \/ FinishTable \/ FailTable \/ Crash => <1>1!1 \/ <1>3!1
  BY DEF CancelMidCopy, FinishTable, FailTable, Crash, CancelHere, EndCopy, copyVars, poolVars
<1>9. CASE CopyBatch
  <2> DEFINE t == Head(left)
  <2>1. t \in Tables /\ job.rows[t] \in Nat /\ job.est[t] \in Nat /\ done + 1 \in Nat
    <3>1. left \in Seq(Tables) /\ left # <<>> /\ done \in Nat
      BY <1>9 DEF CopyBatch, ControlInv, Looping
    <3> QED BY <3>1, HeadAndTail, JobTyped DEF ControlInv
  <2>2. /\ UNCHANGED <<worker, terminated, results, step, outcome, left, phase, job>>
        /\ Report(t, done + 1, job.est[t]) /\ done < job.rows[t] /\ done \in Nat
    BY <1>9 DEF CopyBatch, poolVars, endVars, ControlInv
  <2> HIDE DEF t
  <2>3. /\ told' \in [Tables -> Seq(BOOLEAN)] /\ \A c \in Tables : c # t => told'[c] = told[c]
        /\ told'[t] = IF job.est[t] > 0 /\ done + 1 = job.est[t] THEN Append(told[t], TRUE) ELSE told[t]
    <3>1. told \in [Tables -> Seq(BOOLEAN)]
      BY DEF TellInv
    <3> QED BY <2>1, <2>2, <3>1, Reports
  <2>4. Inexact(t) => told'[t] = told[t]
    <3>1. job.est[t] > 0 /\ done + 1 = job.est[t] => job.est[t] \in 1 .. job.rows[t]
      BY <2>1, <2>2
    <3> QED BY <2>3, <3>1 DEF Inexact
  <2>5. \A c \in Tables : Inexact(c) => told'[c] = told[c]
    BY <2>3, <2>4
  <2>6. \A c \in Tables : (Inexact(c)' <=> Inexact(c)) /\ (HasRows(c)' <=> HasRows(c))
    BY <2>2 DEF Inexact, HasRows
  <2>7. TellInv'
    BY <2>2, <2>3, <2>5, <2>6 DEF TellInv, ResultsIn
  <2>8. CoverInv'
    BY <1>0, <2>2 DEF CoverInv, Before
  <2> QED BY <2>7, <2>8
<1>10. CASE SpawnWorkers
  <2>1. /\ phase' = "pool" /\ UNCHANGED <<job, results, told, step, outcome>> /\ PlanMade
        /\ terminated' = (aborted # "no") /\ \A t \in Tables : results[t] = "none"
        /\ worker' = [w \in Workers |-> IF Chunk(w) = <<>> THEN Gone ELSE [st |-> "live", left |-> Chunk(w)]]
    BY <1>0, <1>10 DEF SpawnWorkers, Goto, endVars, copyVars, ControlInv, DataPhases, DataInv, ClearInv, DataStep
  <2>2. TellInv'
    BY <1>0, <2>1, TellRests
  <2>3. ASSUME NEW w \in Workers
        PROVE  Before(w)' = ToSet(Chunk(w)) /\ worker'[w].st # "stopping"
               /\ (worker'[w].st # "gone" => worker'[w].left = Chunk(w))
    <3>1. CASE Chunk(w) = <<>>
      <4>1. ToSet(Chunk(w)) = {}
        BY <3>1 DEF ToSet
      <4> QED BY <2>1, <3>1, <4>1 DEF Before, Gone
    <3>2. CASE Chunk(w) # <<>>
      <4>1. worker'[w] = [st |-> "live", left |-> Chunk(w)]
        BY <2>1, <3>2
      <4> QED BY <4>1 DEF Before
    <3> QED BY <3>1, <3>2
  <2>4. ASSUME NEW w \in Workers PROVE ToSet(Chunk(w)) \subseteq Tables
    BY <2>1, ChunkTyped DEF ToSet
  <2>5. /\ \A w \in Workers : Once(Chunk(w))
        /\ \A v, w \in Workers : v # w => Before(v)' \cap Before(w)' = {}
        /\ \A t \in Tables : \E w \in Workers : t \in Before(w)'
    BY <2>1, <2>3, ChunksShareOut
  <2>6. /\ \A w \in Workers : worker'[w].st # "gone" => Once(worker'[w].left)
        /\ \A w \in Workers : \A t \in Before(w)' : results'[t] = "none"
        /\ \A w \in Workers : worker'[w].st # "stopping"
    BY <2>1, <2>3, <2>4, <2>5
  <2>7. terminated' => aborted' # "no"
    BY <1>0, <2>1
  <2> HIDE DEF Before
  <2>8. CoverInv'
    BY <2>1, <2>5, <2>6, <2>7 DEF CoverInv
  <2> QED BY <2>2, <2>8
<1>11. CASE PoolDone
  <2>1. phase = "pool" /\ UNCHANGED <<results, worker, terminated>> /\ \A w \in Workers : worker[w].st = "gone"
    BY <1>11 DEF PoolDone, Live
  <2>2. CASE Throw("cancelled") /\ UNCHANGED told
    <3>1. step' = step /\ outcome' # "succeeded" /\ phase' \in {"over", "undo"}
      BY <1>0, <2>2 DEF Throw, Finish, Goto
    <3> QED BY <1>0, <2>1, <2>2, <3>1, TellRests, CoverRests
  <2>3. CASE aborted = "no" /\ EndData(results, told) /\ UNCHANGED outcome
    <3>1. \A t \in Tables : results[t] # "none"
      BY <2>1, <2>3 DEF CoverInv, Before
    <3>2. results \in [Tables -> {"ok", "failed"}]
      BY <3>1 DEF DataInv, ResultInv
    <3>3. \A t \in Tables : Inexact(t) => told[t] = IF results[t] = "ok" /\ HasRows(t) THEN <<TRUE>> ELSE <<>>
      <4>1. step <= DataStep
        BY <1>0 DEF DataStep
      <4> QED BY <4>1 DEF TellInv
    <3>4. told \in [Tables -> Seq(BOOLEAN)] /\ results' = results /\ outcome' # "succeeded" /\ UNCHANGED job
      BY <1>0, <2>1, <2>3 DEF TellInv
    <3>5. TellInv' /\ phase' = "step"
      BY <1>0, <2>3, <3>2, <3>3, <3>4, EndDataTells
    <3> QED BY <1>0, <2>1, <3>5, CoverRests
  <2> QED BY <1>11, <2>2, <2>3 DEF PoolDone
<1> QED BY <1>1, <1>2, <1>3, <1>4, <1>5, <1>6, <1>7, <1>8, <1>9, <1>10, <1>11 DEF Migrator

\* The orchestrator tells nothing of tables.
LEMMA OrchestratorTells ==
  ASSUME ControlInv, PoolInv, CoverInv, TellInv, Orchestrator
  PROVE  CoverInv' /\ TellInv'
<1>0. /\ UNCHANGED <<job, results, told, worker, terminated, aborted>> /\ step \in Nat
      /\ phase' \notin {"copy", "table", "pool"}
  <2>1. UNCHANGED <<job, results, told, worker, terminated, aborted>>
    BY DEF Orchestrator, CancelBeforeStep, PlainStep, StartDisable, DisableTriggers, StartEnable, EnableTriggers,
           Compensate, copyVars, poolVars
  <2>2. phase' \notin {"copy", "table", "pool"}
    BY DEF Orchestrator, CancelBeforeStep, PlainStep, StartDisable, DisableTriggers, StartEnable, EnableTriggers,
           Compensate, NextStep, Throw, Finish, Goto
  <2> QED BY <2>1, <2>2 DEF ControlInv
<1>1. CoverInv'
  BY <1>0, CoverRests
<1>2. CASE (\E s \in {"failed", "cancelled"} : Throw(s) \/ Finish(s))
  <2>1. step' = step /\ (outcome' = outcome \/ outcome' # "succeeded")
    BY <1>2 DEF Throw, Finish, Goto
  <2> QED BY <1>0, <1>1, <2>1, TellRests
<1>3. CASE UNCHANGED <<step, outcome>>
  BY <1>0, <1>1, <1>3, TellRests
<1>4. CASE NextStep /\ UNCHANGED outcome /\ step # DataStep
  <2>1. step' \in Nat /\ (step' > DataStep <=> step > DataStep)
    BY <1>0, <1>4 DEF NextStep, DataStep
  <2> QED BY <1>0, <1>1, <1>4, <2>1, TellRests
<1>5. CASE step = LastStep /\ Finish("succeeded")
  <2>1. step' = step /\ step' > DataStep
    BY <1>5 DEF Finish, Goto, LastStep, DataStep
  <2> QED BY <1>0, <1>1, <2>1, TellRests
<1>6. CancelBeforeStep \/ PlainStep => <1>2!1 \/ <1>4!1 \/ <1>5!1
  BY DEF CancelBeforeStep, PlainStep
<1>7. StartDisable \/ DisableTriggers => <1>2!1 \/ <1>3!1 \/ <1>4!1
  BY DEF StartDisable, DisableTriggers, ControlInv, DisableStep, DataStep
<1>8. StartEnable \/ EnableTriggers \/ Compensate => <1>2!1 \/ <1>3!1 \/ <1>4!1
  BY DEF StartEnable, EnableTriggers, Compensate, endVars, ControlInv, EnableStep, DataStep
<1> QED BY <1>2, <1>3, <1>4, <1>5, <1>6, <1>7, <1>8 DEF Orchestrator

\* Whatever happens next, of the tables that are left and told.
LEMMA TellStep ==
  ASSUME ControlInv, PoolInv, DataInv, CoverInv, TellInv, [MigrationNext]_migrationVars
  PROVE  CoverInv' /\ TellInv'
<1>1. CASE Pool
  BY <1>1, ThreadCovers, ThreadTells DEF Pool
<1>2. CASE Abort \/ ProcessKilled \/ UNCHANGED migrationVars
  <2>1. UNCHANGED <<job, results, told, step, outcome, phase, left>> /\ step \in Nat
    BY <1>2 DEF Abort, ProcessKilled, migrationVars, loopVars, copyVars, endVars, ControlInv
  <2>2. TellInv'
    BY <2>1, TellRests
  <2>3. CASE ProcessKilled
    <3>1. \A w \in Workers : worker'[w].st = "gone" /\ Before(w)' = {}
      BY <2>3 DEF ProcessKilled, Before, Gone
    <3>2. phase' = "over" /\ UNCHANGED <<terminated, aborted>>
      BY <2>3 DEF ProcessKilled, loopVars
    <3> QED BY <2>1, <2>2, <3>1, <3>2 DEF CoverInv
  <2>4. CASE UNCHANGED <<worker, terminated, aborted>>
    <3>1. \A w \in Workers : worker'[w] = worker[w] /\ Before(w)' = Before(w)
      BY <2>4 DEF Before
    <3> QED BY <2>1, <2>2, <2>4, <3>1 DEF CoverInv
  <2>5. CASE Abort
    <3>1. aborted' # "no"
      BY <2>5 DEF Abort
    <3>2. \A w \in Workers : worker[w] \in Threads
      BY DEF PoolInv
    <3>3. \A w \in Workers : worker'[w].left = worker[w].left /\ (worker'[w].st = "gone" <=> worker[w].st = "gone")
      <4>1. CASE UNCHANGED worker
        BY <4>1
      <4>2. CASE worker' = [w \in Workers |-> IF worker[w].st = "live"
                                              THEN [worker[w] EXCEPT !.st = "stopping"] ELSE worker[w]]
        BY <3>2, <4>2 DEF Threads
      <4> QED BY <2>5, <4>1, <4>2 DEF Abort
    <3>4. \A w \in Workers : Before(w)' = Before(w)
      BY <3>3 DEF Before
    <3> HIDE DEF Before
    <3> QED BY <2>1, <2>2, <3>1, <3>3, <3>4 DEF CoverInv
  <2> QED BY <1>2, <2>2, <2>3, <2>4, <2>5 DEF migrationVars, poolVars
<1> QED BY <1>1, <1>2, OrchestratorTells, MigratorTells DEF MigrationNext

-----------------------------------------------------------------------------
(***************************************************************************)
(* The theorem.                                                            *)
(***************************************************************************)

MigrationInv == ControlInv /\ GuardInv /\ PoolInv /\ EarlyInv /\ DataInv /\ CoverInv /\ TellInv

\* Where a migration is, which guards may be off, who writes, what an early cancel has left
\* alone, what a result says of the rows and what is told of it: one invariant, kept by every step of the
\* orchestrator, the migrators, the threads, the user and the process.
THEOREM MigrationInductive == MigrationSpec => []MigrationInv
<1>1. MigrationInit => MigrationInv
  <2> SUFFICES ASSUME MigrationInit PROVE MigrationInv
    OBVIOUS
  <2>1. ControlInv
    BY EmptySeq DEF MigrationInit, ControlInv, Phases, DataPhases, Looping, LastStep, DataStep, EnableStep
  <2>2. GuardInv
    BY DEF MigrationInit, GuardInv, GuardsRestored
  <2>3. PoolInv
    <3>1. Gone \in Threads
      BY EmptySeq DEF Gone, Threads
    <3> QED BY <3>1 DEF MigrationInit, PoolInv, Gone
  <2>4. EarlyInv
    <3>1. job.old \in BOOLEAN
      BY JobTyped DEF MigrationInit
    <3> QED BY <3>1 DEF MigrationInit, EarlyInv, Rows
  <2>5. DataInv
    BY DEF MigrationInit, DataInv, ResultInv, ClearInv, CopyInv, Live, Gone
  <2>6. CoverInv
    BY DEF MigrationInit, CoverInv, Before, Gone
  <2>7. TellInv
    BY EmptySeq DEF MigrationInit, TellInv, ResultsIn, DataStep
  <2> QED BY <2>1, <2>2, <2>3, <2>4, <2>5, <2>6, <2>7 DEF MigrationInv
<1>2. MigrationInv /\ [MigrationNext]_migrationVars => MigrationInv'
  BY ControlStep, GuardStep, PoolStep, EarlyStep, DataStepKept, TellStep DEF MigrationInv, TellInv
<1> QED BY <1>1, <1>2, PTL DEF MigrationSpec

\* What the user is told is so: after "succeeded" or a cancellation that was undone the
\* destination's guards are up, after "cancelled" no thread writes to it any more, and a
\* cancel that came before the clearing has cost the destination none of its rows.
THEOREM OutcomesAreTrue == MigrationSpec => []ReportIsTrue
<1>1. MigrationInv => ReportIsTrue
  <2> SUFFICES ASSUME MigrationInv PROVE ReportIsTrue
    OBVIOUS
  <2>1. GuardsRestored
    BY DEF MigrationInv, GuardInv
  <2>2. NoWriterAfterCancel
    BY DEF MigrationInv, PoolInv, ControlInv, NoWriterAfterCancel, Live
  <2>3. EarlyCancelKeepsRows
    BY DEF MigrationInv, EarlyInv, EarlyCancelKeepsRows
  <2> QED BY <2>1, <2>2, <2>3 DEF ReportIsTrue
<1> QED BY <1>1, MigrationInductive, PTL

\* A run that reports success has every batch of every table of the source in the
\* destination, once, and nothing of before: whatever pair of engines, whatever failed and
\* was survived, in whatever order the threads came.
THEOREM SuccessMeansComplete == MigrationSpec => []SuccessIsComplete
<1>1. MigrationInv => SuccessIsComplete
  BY DEF MigrationInv, DataInv, ResultInv, Full, SuccessIsComplete
<1> QED BY <1>1, MigrationInductive, PTL

\* Every table whose estimate is not met on the way is told once, and with its true result,
\* before the run goes on to its next step: those copied one after another as those the
\* threads share out among them.
THEOREM TablesAreTold == MigrationSpec => []TableToldOnce
<1>1. MigrationInv => TableToldOnce
  <2> SUFFICES ASSUME MigrationInv, outcome = "succeeded" \/ step > DataStep PROVE TableToldOnce
    BY DEF TableToldOnce
  <2>1. step > DataStep
    BY DEF MigrationInv, TellInv
  <2>2. \A t \in Tables : Inexact(t) => told[t] = <<results[t] = "ok">>
    BY <2>1 DEF MigrationInv, TellInv
  <2> QED BY <2>2 DEF TableToldOnce, Inexact
<1> QED BY <1>1, MigrationInductive, PTL

-----------------------------------------------------------------------------
(***************************************************************************)
(* Why a cancelled run can be undone.                                      *)
(***************************************************************************)

\* Nothing failed so far, no foreign key leads back to its table, and no table is cleared
\* at its turn with rows of before in it.
Promising ==
  /\ faults = 0 /\ \A t \in Tables : results[t] # "failed"
  /\ \A t \in Tables : t \notin Ancestors(Tables, job.refs, t) /\ <<t, t>> \notin job.refs
  /\ ~ (PerTable /\ job.old)

\* The rows are those of before; every table is done; no constraint is broken.
Fresh == \A t \in Tables : dest[t] = [old |-> job.old, new |-> 0]
AllOk == \A t \in Tables : results[t] = "ok"
AllBacked == \A t \in Tables : Backed(t)

\* No table of a loop is before a parent of its, and the parents of those it is done with
\* are done too.
ParentsFirst(loop) == \A i, j \in DOMAIN loop : i < j => loop[j] \notin Parents(Tables, job.refs, loop[i])
Settled(loop) == \A t \in Tables \ ToSet(loop) : \A p \in Parents(Tables, job.refs, t) : p \notin ToSet(loop)

\* The sequential migrators copy children after their parents, into empty tables.
LoopInv ==
  /\ ParentsFirst(left) /\ Settled(left)
  /\ \A t \in ToSet(Tail(left)) : dest[t] = Emptied
  /\ phase = "copy" => dest[Head(left)] = Emptied

\* As long as a run is promising the rows of an MSSQL destination keep its foreign keys
\* whenever the signal is looked at, so that the compensation is not refused.
UndoInv ==
  /\ faults \in Nat
  /\ phase \in {"open", "clear"} => plan = Plan(Tables, job.refs, job.est)
  /\ phase \in {"spawn", "pool"} \/ Live # {} => IsPool
  /\ phase = "clear" => ~ PerTable
  /\ Promising /\ job.dst = "mssql" =>
       /\ phase \in {"step", "disable", "open"} /\ step <= DataStep => Fresh
       /\ phase \in {"step", "enable"} /\ step > DataStep => AllOk
       /\ phase \in {"copy", "table"} => LoopInv
       /\ phase = "undo" => AllBacked
  /\ undone = "failed" => phase = "over" /\ outcome = "cancelled" /\ ~ Promising

\* Neither rows nor results change.
LEMMA SameRows ==
  ASSUME UNCHANGED <<job, dest, results>>
  PROVE  /\ Fresh' <=> Fresh
         /\ AllOk' <=> AllOk
         /\ AllBacked' <=> AllBacked
         /\ PerTable' <=> PerTable
         /\ IsPool' <=> IsPool
  BY DEF Fresh, AllOk, AllBacked, Backed, Empty, PerTable, IsPool

\* A promise is not made again.
LEMMA PromiseStays ==
  ASSUME UNCHANGED <<job, results>>, faults \in Nat, faults' \in {faults, faults + 1}, Promising'
  PROVE  Promising
  BY DEF Promising, PerTable

\* A table is consistent that is empty, or not of before and after full parents.
LEMMA BackedByParents ==
  ASSUME Promising, job.refs \in SUBSET (Nat \X Nat),
         \A t \in Tables : \/ dest[t] = Emptied
                           \/ ~ dest[t].old /\ \A p \in Parents(Tables, job.refs, t) : Full(p)
  PROVE  AllBacked
<1> SUFFICES ASSUME NEW t \in Tables PROVE Backed(t)
  BY DEF AllBacked
<1>1. CASE dest[t] = Emptied
  BY <1>1 DEF Backed, Empty, Emptied
<1>2. CASE ~ dest[t].old /\ \A p \in Parents(Tables, job.refs, t) : Full(p)
  <2>1. <<t, t>> \notin job.refs
    BY DEF Promising
  <2>2. ASSUME NEW r \in job.refs, r[1] = t, r[2] \in Tables
        PROVE  ~ dest[r[2]].old /\ dest[r[2]].new = job.rows[r[2]]
    <3>1. r = <<t, r[2]>>
      BY <2>2
    <3>2. r[2] \in Parents(Tables, job.refs, t)
      BY <2>1, <2>2, <3>1 DEF Parents
    <3>3. Full(r[2])
      BY <1>2, <3>2
    <3>4. dest[r[2]] = [old |-> FALSE, new |-> job.rows[r[2]]]
      BY <3>3 DEF Full
    <3> QED BY <3>4
  <2> QED BY <1>2, <2>2 DEF Backed
<1> QED BY <1>1, <1>2

\* So it is before anything is copied, and when everything is.
LEMMA BackedBefore ==
  ASSUME Promising, Fresh, job.old \in BOOLEAN
  PROVE  AllBacked
<1>1. CASE job.old
  BY <1>1 DEF Fresh, AllBacked, Backed
<1>2. CASE ~ job.old
  BY <1>2 DEF Fresh, AllBacked, Backed, Empty
<1> QED BY <1>1, <1>2

\* When every table went well, every row has what it refers to.
LEMMA BackedAfter ==
  ASSUME Promising, job.refs \in SUBSET (Nat \X Nat), AllOk, DataInv
  PROVE  AllBacked
<1>1. \A t \in Tables : Full(t)
  BY DEF AllOk, DataInv, ResultInv
<1>2. ASSUME NEW t \in Tables PROVE ~ dest[t].old
  <2>1. dest[t] = [old |-> FALSE, new |-> job.rows[t]]
    BY <1>1 DEF Full
  <2> QED BY <2>1
<1>3. \A t : \A p \in Parents(Tables, job.refs, t) : Full(p)
  BY <1>1 DEF Parents
<1> QED BY <1>2, <1>3, BackedByParents

\* Where the loop of a sequential migrator is, its rows keep the foreign keys.
LEMMA BackedInLoop ==
  ASSUME ControlInv, DataInv, CoverInv, Promising, LoopInv, phase \in {"copy", "table"}
  PROVE  AllBacked
<1> DEFINE h == Head(left)
<1>1. left \in Seq(Tables) /\ left # <<>> /\ job.refs \in SUBSET (Nat \X Nat)
  BY JobsAreMigrations DEF ControlInv, Looping
<1>2. /\ h \in Tables /\ ToSet(left) = {h} \cup ToSet(Tail(left)) /\ Tail(left) \in Seq(Tables)
      /\ Once(left) => h \notin ToSet(Tail(left))
  BY <1>1, HeadAndTail
<1>3. \A t \in Tables \ ToSet(left) : Full(t)
  <2>1. \A t \in Tables \ ToSet(left) : results[t] = "ok"
    BY DEF CoverInv, DataInv, ResultInv, Promising
  <2> QED BY <2>1 DEF DataInv, ResultInv
<1>4. \A t \in Tables : Parents(Tables, job.refs, t) \subseteq Tables
  BY DEF Parents
<1>5. \A t \in ToSet(Tail(left)) : dest[t] = Emptied
  BY DEF LoopInv
<1>6. ASSUME NEW t \in Tables \ ToSet(left)
      PROVE  ~ dest[t].old /\ \A p \in Parents(Tables, job.refs, t) : Full(p)
  <2>1. dest[t] = [old |-> FALSE, new |-> job.rows[t]]
    BY <1>3 DEF Full
  <2>2. \A p \in Parents(Tables, job.refs, t) : p \notin ToSet(left)
    BY DEF LoopInv, Settled
  <2> QED BY <1>3, <1>4, <2>1, <2>2
<1>7. \/ dest[h] = Emptied
      \/ ~ dest[h].old /\ \A p \in Parents(Tables, job.refs, h) : Full(p)
  <2>1. CASE phase = "copy"
    BY <2>1 DEF LoopInv
  <2>2. CASE phase = "table"
    <3>1. dest[h] = [old |-> FALSE, new |-> done]
      BY <2>2 DEF DataInv, CopyInv
    <3>2. ASSUME NEW p \in Parents(Tables, job.refs, h) PROVE p \in Tables /\ p \notin ToSet(left)
      <4>1. p # h /\ p \in Tables
        BY DEF Parents
      <4>2. \A j \in DOMAIN left : left[j] = p => j = 1
        BY <1>1 DEF LoopInv, ParentsFirst
      <4>3. left[1] = h
        BY <1>1
      <4>4. p \notin ToSet(left)
        BY <4>1, <4>2, <4>3 DEF ToSet
      <4> QED BY <4>1, <4>4
    <3>3. \A p \in Parents(Tables, job.refs, h) : Full(p)
      BY <1>3, <3>2
    <3>4. ~ dest[h].old
      BY <3>1
    <3> QED BY <3>3, <3>4
  <2> QED BY <2>1, <2>2
<1> HIDE DEF h
<1>8. \A t \in Tables : \/ dest[t] = Emptied
                        \/ ~ dest[t].old /\ \A p \in Parents(Tables, job.refs, t) : Full(p)
  BY <1>2, <1>5, <1>6, <1>7
<1> QED BY <1>1, <1>8, BackedByParents

\* The loop goes on to its next table.
LEMMA LoopGoesOn ==
  ASSUME NEW loop \in Seq(Tables), loop # <<>>, ParentsFirst(loop), Settled(loop)
  PROVE  ParentsFirst(Tail(loop)) /\ Settled(Tail(loop))
<1> DEFINE T == Tail(loop)
           h == Head(loop)
<1>1. /\ T \in Seq(Tables) /\ DOMAIN T = 1 .. Len(loop) - 1 /\ DOMAIN loop = 1 .. Len(loop) /\ Len(loop) \in Nat
      /\ \A i \in 1 .. Len(loop) - 1 : T[i] = loop[i + 1]
      /\ h = loop[1] /\ 1 \in DOMAIN loop
  OBVIOUS
<1>2. ToSet(loop) = {h} \cup ToSet(T)
  BY HeadAndTail
<1> HIDE DEF T, h
<1>3. \A i \in DOMAIN T : i + 1 \in DOMAIN loop /\ 1 < i + 1 /\ T[i] = loop[i + 1] /\ i \in Nat
  BY <1>1
<1>4. ParentsFirst(T)
  <2> SUFFICES ASSUME NEW i \in DOMAIN T, NEW j \in DOMAIN T, i < j
               PROVE  T[j] \notin Parents(Tables, job.refs, T[i])
    BY DEF ParentsFirst
  <2>1. i + 1 < j + 1
    BY <1>3
  <2> QED BY <1>3, <2>1 DEF ParentsFirst
<1>5. ASSUME NEW p \in Parents(Tables, job.refs, h) PROVE p \notin ToSet(T)
  BY <1>1, <1>3, <1>5 DEF ParentsFirst, ToSet
<1>6. Settled(T)
  <2> SUFFICES ASSUME NEW t \in Tables, t \notin ToSet(T), NEW p \in Parents(Tables, job.refs, t)
               PROVE  p \notin ToSet(T)
    BY DEF Settled
  <2>1. CASE t = h
    BY <1>5, <2>1
  <2>2. CASE t # h
    BY <1>2, <2>2 DEF Settled
  <2> QED BY <2>1, <2>2
<1> QED BY <1>4, <1>6 DEF T

\* A plan of references that form no cycle is a loop in order.
LEMMA PlanInOrder ==
  ASSUME Promising, job \in Jobs, NEW order, order = Plan(Tables, job.refs, job.est).loadOrder
  PROVE  ParentsFirst(order) /\ Settled(order)
<1>1. job.est \in [Tables -> Nat]
  BY JobTyped
<1>2. IsOrder(order)
  BY <1>1, PlanVisitsEachTableOnce
<1>3. order \in Seq(Tables) /\ ToSet(order) = Tables /\ Once(order) /\ DOMAIN order = 1 .. Len(order) /\ Len(order) \in Nat
  BY <1>2, OrdersAreLoops
<1>4. Settled(order)
  BY <1>3 DEF Settled
<1>5. Unordered(Tables, job.refs) = {}
  <2>1. \A t \in Tables : Ancestors(Tables, job.refs, t) \in SUBSET Tables
    BY TablesAreFinite, AncestorsAre
  <2> QED BY <2>1 DEF Unordered, Promising
<1>6. \A t \in Tables : \A p \in Parents(Tables, job.refs, t) : Place(order, p) < Place(order, t)
  BY <1>1, <1>5, ParentsComeFirst
<1>7. \A i \in DOMAIN order : order[i] \in Tables /\ Place(order, order[i]) = i
  BY <1>3 DEF Place, Once
<1>8. ParentsFirst(order)
  <2> SUFFICES ASSUME NEW i \in DOMAIN order, NEW j \in DOMAIN order, i < j, order[j] \in Parents(Tables, job.refs, order[i])
               PROVE  FALSE
    BY DEF ParentsFirst
  <2>1. Place(order, order[j]) < Place(order, order[i])
    BY <1>6, <1>7
  <2>2. j < i
    BY <1>7, <2>1
  <2> QED BY <1>3, <2>2
<1> QED BY <1>4, <1>8

\* A run ends.
LEMMA OverUndone ==
  ASSUME UndoInv, phase' = "over", UNCHANGED job, Live' \subseteq Live, faults' \in Nat,
         undone' = "failed" => outcome' = "cancelled" /\ ~ Promising'
  PROVE  UndoInv'
  BY DEF UndoInv, IsPool

\* A run ends, or is undone.
LEMMA ThrowUndone ==
  ASSUME UndoInv, phase # "over", NEW s, Throw(s), UNCHANGED <<job, undone>>, Live' \subseteq Live, faults' \in Nat,
         s = "cancelled" => (Promising' /\ job.dst = "mssql" => AllBacked')
  PROVE  UndoInv'
<1>1. undone' # "failed"
  BY DEF UndoInv
<1>2. CASE phase' = "over"
  BY <1>1, <1>2, OverUndone
<1>3. CASE phase' = "undo" /\ s = "cancelled"
  <2>1. Live' # {} => IsPool'
    BY DEF UndoInv, IsPool
  <2> QED BY <1>1, <1>3, <2>1 DEF UndoInv
<1>4. phase' = "over" \/ (phase' = "undo" /\ s = "cancelled")
  BY DEF Throw, Finish, Goto
<1> QED BY <1>2, <1>3, <1>4

\* A step that leaves the rows alone.
LEMMA StepUndone ==
  ASSUME UndoInv, UNCHANGED <<job, dest, results, undone>>, phase # "over", Live' \subseteq Live,
         faults' \in {faults, faults + 1}, phase' \in {"step", "disable", "enable", "undo"},
         Promising /\ job.dst = "mssql" =>
           /\ phase' \in {"step", "disable"} /\ step' <= DataStep => Fresh
           /\ phase' \in {"step", "enable"} /\ step' > DataStep => AllOk
           /\ phase' = "undo" => AllBacked
  PROVE  UndoInv'
<1>1. undone' # "failed" /\ faults \in Nat /\ faults' \in Nat
  BY DEF UndoInv
<1>2. Promising' => Promising
  BY <1>1, PromiseStays
<1>3. /\ Fresh' <=> Fresh
      /\ AllOk' <=> AllOk
      /\ AllBacked' <=> AllBacked
      /\ IsPool' <=> IsPool
  BY SameRows
<1> QED BY <1>1, <1>2, <1>3 DEF UndoInv

\* Between the steps no row is written.
LEMMA OrchestratorUndone ==
  ASSUME ControlInv, PoolInv, DataInv, UndoInv, Orchestrator
  PROVE  UndoInv'
<1>1. phase # "over" /\ phase \notin {"pool", "spawn"} /\ UNCHANGED <<job, dest, results, worker>>
  BY DEF Orchestrator, CancelBeforeStep, PlainStep, StartDisable, DisableTriggers, StartEnable, EnableTriggers, Compensate,
         copyVars, poolVars
<1>2. Live' = {} /\ Live = {}
  BY <1>1, NoneLive
<1>3. faults \in Nat /\ job \in Jobs /\ job.old \in BOOLEAN /\ job.refs \in SUBSET (Nat \X Nat) /\ step \in Nat /\ step <= LastStep
  BY JobsAreMigrations DEF UndoInv, ControlInv, LastStep
<1>4. faults' \in {faults, faults + 1}
  BY DEF Orchestrator, CancelBeforeStep, PlainStep, StartDisable, DisableTriggers, StartEnable, EnableTriggers, Compensate, Refused, Fault
<1>5. /\ AllBacked' <=> AllBacked
      /\ Promising' => Promising
      /\ faults' \in Nat
  BY <1>1, <1>3, <1>4, SameRows, PromiseStays
<1>6. Promising /\ job.dst = "mssql" =>
        /\ phase \in {"step", "disable"} /\ step <= DataStep => Fresh /\ AllBacked
        /\ phase \in {"step", "enable"} /\ step > DataStep => AllOk /\ AllBacked
        /\ phase = "undo" => AllBacked
  BY <1>3, BackedBefore, BackedAfter DEF UndoInv
<1>7. CASE CancelBeforeStep
  <2>1. phase = "step" /\ Throw("cancelled") /\ UNCHANGED undone
    BY <1>7 DEF CancelBeforeStep
  <2>2. step <= DataStep \/ step > DataStep
    BY <1>3 DEF DataStep
  <2> QED BY <1>1, <1>2, <1>5, <1>6, <2>1, <2>2, ThrowUndone
<1>8. CASE PlainStep
  <2>1. phase = "step" /\ UNCHANGED undone /\ step \notin {DisableStep, DataStep, EnableStep}
    BY <1>8 DEF PlainStep
  <2>2. CASE Throw("failed")
    BY <1>1, <1>2, <1>5, <2>1, <2>2, ThrowUndone
  <2>3. CASE step = LastStep /\ phase' = "over"
    <3>1. undone' # "failed"
      BY <1>1, <2>1 DEF UndoInv
    <3> QED BY <1>1, <1>2, <1>5, <2>3, <3>1, OverUndone
  <2>4. CASE NextStep
    <3>1. phase' = "step" /\ step' = step + 1
      BY <2>4 DEF NextStep, Goto
    <3>2. (step' <= DataStep => step <= DataStep) /\ (step' > DataStep => step > DataStep)
      BY <1>3, <2>1, <3>1 DEF DataStep
    <3> QED BY <1>1, <1>2, <1>4, <1>6, <2>1, <3>1, <3>2, StepUndone
  <2> QED BY <1>8, <2>2, <2>3, <2>4 DEF PlainStep, Finish, Goto
<1>9. CASE StartDisable
  <2>1. phase = "step" /\ step = DisableStep /\ step' = step /\ UNCHANGED undone /\ phase' \in {"disable", "undo"}
    BY <1>9 DEF StartDisable, Goto
  <2>2. step <= DataStep /\ step' <= DataStep
    BY <2>1 DEF DisableStep, DataStep
  <2>3. ~ (step' > DataStep)
    BY <2>1 DEF DisableStep, DataStep
  <2> QED BY <1>1, <1>2, <1>4, <1>6, <2>1, <2>2, <2>3, StepUndone
<1>10. CASE DisableTriggers
  <2>1. phase = "disable" /\ step = DisableStep /\ UNCHANGED undone
    BY <1>10 DEF DisableTriggers, ControlInv
  <2>2. CASE Throw("failed")
    BY <1>1, <1>2, <1>5, <2>1, <2>2, ThrowUndone
  <2>3. CASE NextStep \/ (Goto("disable", Tail(left)) /\ UNCHANGED step)
    <3>1. phase' \in {"step", "disable"} /\ step' \in {DisableStep, DisableStep + 1}
      BY <2>1, <2>3 DEF NextStep, Goto
    <3>2. step <= DataStep /\ ~ (step' > DataStep)
      BY <2>1, <3>1 DEF DisableStep, DataStep
    <3> QED BY <1>1, <1>2, <1>4, <1>6, <2>1, <3>1, <3>2, StepUndone
  <2> QED BY <1>10, <2>2, <2>3 DEF DisableTriggers
<1>11. CASE StartEnable
  <2>1. phase = "step" /\ step = EnableStep /\ step' = step /\ UNCHANGED undone /\ phase' = "enable"
    BY <1>11 DEF StartEnable, Goto, endVars
  <2>2. step > DataStep /\ step' > DataStep
    BY <2>1 DEF EnableStep, DataStep
  <2> QED BY <1>1, <1>2, <1>4, <1>6, <2>1, <2>2, StepUndone
<1>12. CASE EnableTriggers
  <2>1. phase = "enable" /\ step = EnableStep /\ UNCHANGED undone
    BY <1>12 DEF EnableTriggers, ControlInv
  <2>2. CASE Throw("failed")
    BY <1>1, <1>2, <1>5, <2>1, <2>2, ThrowUndone
  <2>3. CASE NextStep \/ (Goto("enable", Tail(left)) /\ UNCHANGED step)
    <3>1. phase' \in {"step", "enable"} /\ step' \in {EnableStep, EnableStep + 1}
      BY <2>1, <2>3 DEF NextStep, Goto
    <3>2. step > DataStep /\ ~ (step' <= DataStep)
      BY <2>1, <3>1 DEF EnableStep, DataStep
    <3> QED BY <1>1, <1>2, <1>4, <1>6, <2>1, <3>1, <3>2, StepUndone
  <2> QED BY <1>12, <2>2, <2>3 DEF EnableTriggers
<1>13. CASE Compensate
  <2>1. phase = "undo" /\ Head(left) \in Tables
    BY <1>13, HeadAndTail DEF Compensate, ControlInv, Looping
  <2>2. undone # "failed"
    BY <1>1 DEF UndoInv
  <2>3. CASE Finish("cancelled") /\ undone' = "tried"
    <3>1. phase' = "over" /\ undone' # "failed"
      BY <2>3 DEF Finish, Goto
    <3> QED BY <1>1, <1>2, <1>5, <3>1, OverUndone
  <2>4. CASE Goto("undo", Tail(left)) /\ UNCHANGED undone
    <3>1. phase' = "undo"
      BY <2>4 DEF Goto
    <3> QED BY <1>1, <1>2, <1>4, <1>6, <2>1, <2>4, <3>1, StepUndone
  <2>5. CASE Finish("cancelled") /\ undone' = "failed" /\ Fault
    <3>1. faults' # 0
      BY <1>3, <2>5 DEF Fault
    <3>2. ~ Promising'
      BY <3>1 DEF Promising
    <3>3. phase' = "over" /\ outcome' = "cancelled"
      BY <2>5 DEF Finish, Goto
    <3> QED BY <1>1, <1>2, <1>5, <3>2, <3>3, OverUndone
  <2>6. CASE Finish("cancelled") /\ undone' = "failed" /\ Refused(Head(left))
    <3>1. job.dst = "mssql" /\ ~ AllBacked
      BY <2>1, <2>6 DEF Refused, AllBacked
    <3>2. ~ Promising'
      BY <1>5, <1>6, <2>1, <3>1
    <3>3. phase' = "over" /\ outcome' = "cancelled"
      BY <2>6 DEF Finish, Goto
    <3> QED BY <1>1, <1>2, <1>5, <3>2, <3>3, OverUndone
  <2> QED BY <1>13, <2>3, <2>4, <2>5, <2>6 DEF Compensate
<1> QED BY <1>7, <1>8, <1>9, <1>10, <1>11, <1>12, <1>13 DEF Orchestrator

\* The result of a table is in.
LEMMA TableEndUndone ==
  ASSUME ControlInv, PoolInv, DataInv, CoverInv, UndoInv, phase \in {"copy", "table"}, NEW ok \in BOOLEAN,
         EndTable(Head(left), ok), UNCHANGED <<job, dest, undone, worker>>, faults' \in {faults, faults + 1}
  PROVE  UndoInv'
<1> DEFINE h == Head(left)
<1>1. /\ left \in Seq(Tables) /\ left # <<>> /\ Live' = {} /\ Live = {} /\ undone # "failed" /\ undone' # "failed"
      /\ faults \in Nat /\ faults' \in Nat
  BY NoneLive DEF ControlInv, Looping, UndoInv
<1>2. /\ h \in Tables /\ ToSet(left) = {h} \cup ToSet(Tail(left)) /\ Tail(left) \in Seq(Tables)
      /\ Len(left) = 1 => ToSet(left) = {h}
      /\ Len(left) # 1 => Tail(left) # <<>>
  BY <1>1, HeadAndTail
<1>3. /\ results \in [Tables -> {"none", "ok", "failed"}] /\ results[h] = "none"
      /\ results' = [results EXCEPT ![h] = IF ok THEN "ok" ELSE "failed"]
  BY <1>2 DEF EndTable, DataInv, ResultInv, CopyInv
<1>4. \/ phase' \in {"undo", "over"}
      \/ phase' = "copy" /\ Len(left) > 1 /\ left' = Tail(left)
      \/ phase' = "step" /\ step' = DataStep + 1 /\ Len(left) = 1
  <2>1. step = DataStep
    BY DEF ControlInv, DataPhases
  <2>2. Throw("cancelled") => phase' \in {"undo", "over"}
    BY DEF Throw, Finish, Goto
  <2>3. Goto("copy", Tail(left)) => phase' = "copy" /\ left' = Tail(left)
    BY DEF Goto
  <2>4. ASSUME NEW res, NEW said, EndData(res, said) PROVE phase' = "step" /\ step' = DataStep + 1
    BY <2>1, <2>4 DEF EndData, NextStep, Goto
  <2> QED BY <2>2, <2>3, <2>4 DEF EndTable
<1>5. phase' \in {"undo", "over", "copy", "step"} /\ ~ (phase' = "step" /\ step' <= DataStep)
  BY <1>4 DEF DataStep
<1>6. CASE ~ Promising'
  BY <1>1, <1>5, <1>6 DEF UndoInv
<1>7. CASE Promising' /\ job.dst # "mssql"
  BY <1>1, <1>5, <1>7 DEF UndoInv
<1>8. CASE Promising' /\ job.dst = "mssql"
  <2>1. ok /\ results' = [results EXCEPT ![h] = "ok"]
    <3>1. results'[h] # "failed"
      BY <1>2, <1>8 DEF Promising
    <3>2. CASE ok
      BY <1>3, <3>2
    <3>3. CASE ~ ok
      BY <1>2, <1>3, <3>1, <3>3
    <3> QED BY <3>2, <3>3
  <2>2. Promising
    <3>1. \A t \in Tables : results[t] # "failed"
      BY <1>2, <1>3, <1>8, <2>1 DEF Promising
    <3>2. faults = 0
      BY <1>1, <1>8 DEF Promising
    <3>3. PerTable' <=> PerTable
      BY DEF PerTable
    <3> QED BY <1>8, <3>1, <3>2, <3>3 DEF Promising
  <2>3. LoopInv
    BY <1>8, <2>2 DEF UndoInv
  <2>4. AllBacked'
    <3>1. AllBacked
      BY <2>2, <2>3, BackedInLoop
    <3> QED BY <3>1 DEF AllBacked, Backed, Empty
  <2>5. CASE phase' \in {"undo", "over"}
    BY <1>1, <2>4, <2>5 DEF UndoInv
  <2>6. CASE phase' = "copy" /\ Len(left) > 1 /\ left' = Tail(left)
    <3>1. ParentsFirst(Tail(left)) /\ Settled(Tail(left))
      BY <1>1, <2>3, LoopGoesOn DEF LoopInv
    <3>2. ParentsFirst(left)' /\ Settled(left)'
      BY <2>6, <3>1 DEF ParentsFirst, Settled
    <3>3. Tail(left) \in Seq(Tables) /\ Tail(left) # <<>>
      BY <1>2, <2>6
    <3>4. ToSet(Tail(left)) = {Head(Tail(left))} \cup ToSet(Tail(Tail(left)))
      BY <3>3, HeadAndTail
    <3>5. \A t \in ToSet(Tail(left)) : dest[t] = Emptied
      BY <2>3 DEF LoopInv
    <3>6. LoopInv'
      BY <2>6, <3>2, <3>4, <3>5 DEF LoopInv
    <3> QED BY <1>1, <2>6, <3>6 DEF UndoInv
  <2>7. CASE phase' = "step" /\ step' = DataStep + 1 /\ Len(left) = 1
    <3>1. \A t \in Tables : results[t] # "none" \/ t = h
      BY <1>2, <2>7 DEF CoverInv
    <3>2. AllOk'
      BY <1>2, <1>3, <2>1, <2>2, <3>1 DEF AllOk, Promising
    <3> QED BY <1>1, <1>5, <2>7, <3>2 DEF UndoInv
  <2> QED BY <1>4, <2>5, <2>6, <2>7
<1> QED BY <1>6, <1>7, <1>8

\* The end of a copy.
LEMMA CopyEndUndone ==
  ASSUME ControlInv, PoolInv, DataInv, CoverInv, UndoInv, phase \in {"copy", "table"}, NEW ok \in BOOLEAN,
         Ends(Head(left), ok), UNCHANGED <<job, dest, undone, worker>>, faults' \in {faults, faults + 1}
  PROVE  UndoInv'
<1>1. EndTable(Head(left), ok) \/ EndTable(Head(left), FALSE)
  BY DEF Ends, EndCopy
<1> QED BY <1>1, TableEndUndone

\* A cancel seen by a sequential migrator.
LEMMA CancelUndone ==
  ASSUME ControlInv, PoolInv, DataInv, CoverInv, UndoInv, phase \in {"open", "copy", "table"}, CancelHere,
         UNCHANGED <<job, dest, results, undone, worker, faults>>
  PROVE  UndoInv'
<1>1. phase # "over" /\ Throw("cancelled") /\ Live' = {} /\ faults \in Nat /\ job.old \in BOOLEAN /\ step = DataStep
  BY NoneLive, JobTyped DEF ControlInv, DataPhases, CancelHere, UndoInv
<1>2. Promising /\ job.dst = "mssql" => AllBacked
  <2>1. CASE phase = "open"
    <3>1. step <= DataStep
      BY <1>1 DEF DataStep
    <3> QED BY <1>1, <2>1, <3>1, BackedBefore DEF UndoInv
  <2>2. CASE phase \in {"copy", "table"}
    BY <2>2, BackedInLoop DEF UndoInv
  <2> QED BY <2>1, <2>2
<1>3. Promising' => Promising
  BY <1>1, PromiseStays
<1>4. AllBacked' <=> AllBacked
  BY SameRows
<1> QED BY <1>1, <1>2, <1>3, <1>4, ThrowUndone

\* The migrator empties the tables and fills them in the order of the plan.
LEMMA MigratorUndone ==
  ASSUME ControlInv, PoolInv, EarlyInv, DataInv, CoverInv, UndoInv, Migrator
  PROVE  UndoInv'
<1>0. /\ UNCHANGED job /\ phase # "over" /\ undone # "failed" /\ UNCHANGED undone /\ undone' # "failed"
      /\ faults \in Nat /\ faults' \in {faults, faults + 1} /\ faults' \in Nat /\ job \in Jobs /\ step \in Nat
  <2>1. phase # "over" /\ UNCHANGED <<job, undone>>
    BY DEF Migrator, StartData, Open, ClearPg, ClearTable, StartTable, CopyBatch, CancelMidCopy, FinishTable, FailTable, Crash,
           SpawnWorkers, PoolDone, endVars
  <2>2. faults' \in {faults, faults + 1}
    BY DEF Migrator, StartData, Open, ClearPg, ClearTable, StartTable, StartFails, CopyBatch, CancelMidCopy, FinishTable, FailTable, Crash,
           SpawnWorkers, PoolDone, Fault
  <2> QED BY <2>1, <2>2 DEF UndoInv, ControlInv
<1>1. /\ IsPool' <=> IsPool
      /\ PerTable' <=> PerTable
  BY <1>0 DEF IsPool, PerTable
<1>3. ASSUME NEW s \in {"failed", "crashed"}, Throw(s) \/ Finish(s), UNCHANGED worker PROVE UndoInv'
  <2>1. phase' = "over"
    BY <1>3 DEF Throw, Finish, Goto
  <2>2. Live' = Live
    BY <1>3 DEF Live
  <2> QED BY <1>0, <2>1, <2>2, OverUndone
<1>4. CASE StartData
  <2>1. phase = "step" /\ step = DataStep /\ UNCHANGED <<job, dest, results, worker>>
    BY <1>4 DEF StartData, copyVars, poolVars
  <2>2. CASE plan' = Plan(Tables, job.refs, job.est) /\ Goto("open", <<>>) /\ UNCHANGED <<step, faults>>
    <3>1. phase' = "open" /\ Live' = {} /\ step <= DataStep
      BY <2>1, <2>2, NoneLive DEF Goto, DataStep
    <3>2. Promising' => Promising
      BY <1>0, <2>1, PromiseStays
    <3>3. Fresh' <=> Fresh
      BY <2>1, SameRows
    <3>4. plan' = Plan(Tables, job'.refs, job'.est)
      BY <1>0, <2>2
    <3> QED BY <1>0, <2>1, <2>2, <3>1, <3>2, <3>3, <3>4 DEF UndoInv
  <2> QED BY <1>3, <1>4, <2>1, <2>2 DEF StartData
<1>5. CASE Open
  <2>1. phase = "open" /\ step = DataStep /\ UNCHANGED <<job, plan, dest, results, worker>>
    BY <1>5 DEF Open, copyVars, poolVars, ControlInv, DataPhases
  <2>2. Live' = {} /\ step <= DataStep
    BY <2>1, NoneLive DEF DataStep
  <2>3. Promising' => Promising
    BY <1>0, <2>1, PromiseStays
  <2>4. CASE CancelHere /\ UNCHANGED faults
    BY <1>0, <2>1, <2>4, CancelUndone
  <2>5. CASE ~ PerTable /\ phase' = "clear"
    <3>1. plan' = Plan(Tables, job'.refs, job'.est)
      BY <1>0, <2>1 DEF UndoInv
    <3> QED BY <1>0, <1>1, <2>2, <2>5, <3>1 DEF UndoInv
  <2>6. CASE PerTable /\ phase' = "copy" /\ left' = plan.loadOrder
    <3>1. ASSUME Promising', job.dst = "mssql" PROVE LoopInv'
      <4>1. Promising /\ Fresh
        BY <2>1, <2>2, <2>3, <3>1 DEF UndoInv
      <4>2. plan = Plan(Tables, job.refs, job.est)
        BY <2>1 DEF UndoInv
      <4>3. ParentsFirst(left') /\ Settled(left')
        BY <1>0, <2>6, <4>1, <4>2, PlanInOrder
      <4>4. ParentsFirst(left)' /\ Settled(left)'
        BY <1>0, <4>3 DEF ParentsFirst, Settled
      <4>5. job.old = FALSE
        <5>1. job.old \in BOOLEAN
          BY <1>0, JobTyped
        <5> QED BY <2>6, <4>1, <5>1 DEF Promising
      <4>6. \A t \in Tables : dest'[t] = Emptied
        BY <2>1, <4>1, <4>5 DEF Fresh, Emptied
      <4>7. left' \in Seq(Tables) /\ left' # <<>>
        <5>1. PlanMade
          BY <2>1 DEF ControlInv, DataPhases
        <5> QED BY <2>6, <5>1, LoopBegins
      <4>8. Head(left') \in Tables /\ ToSet(Tail(left')) \subseteq Tables
        <5>1. Head(left') \in Tables /\ Tail(left') \in Seq(Tables)
          BY <4>7, HeadAndTail
        <5> QED BY <5>1 DEF ToSet
      <4> QED BY <4>4, <4>6, <4>8 DEF LoopInv
    <3> QED BY <1>0, <2>2, <2>6, <3>1 DEF UndoInv
  <2> QED BY <1>3, <1>5, <2>1, <2>4, <2>5, <2>6 DEF Open, Goto
<1>6. CASE ClearPg
  <2>1. phase = "clear" /\ job.dst = "pg" /\ UNCHANGED <<job, worker>>
    BY <1>6 DEF ClearPg, poolVars
  <2>2. CASE AfterClear
    <3>1. Live' = {} /\ phase' \in {"spawn", "copy"} /\ (phase' = "spawn" => IsPool)
      BY <2>1, <2>2, NoneLive DEF AfterClear, Goto
    <3> QED BY <1>0, <1>1, <2>1, <3>1 DEF UndoInv
  <2> QED BY <1>3, <1>6, <2>1, <2>2 DEF ClearPg
<1>7. CASE ClearTable
  <2>1. phase = "clear" /\ job.dst # "pg" /\ UNCHANGED <<job, plan, results, worker>> /\ ~ PerTable
        /\ left \in Seq(Tables) /\ left # <<>> /\ PlanMade
    BY <1>7 DEF ClearTable, poolVars, UndoInv, ControlInv, Looping, DataPhases
  <2>2. Live' = {}
    BY <2>1, NoneLive
  <2>3. CASE Clear({Head(left)}) /\ Len(left) = 1 /\ AfterClear
    <3>1. phase' = "copy" /\ left' = plan.loadOrder
      BY <2>1, <2>3 DEF AfterClear, IsPool, Goto
    <3>2. \A t \in Tables : dest'[t] = Emptied
      <4>1. ToSet(left) = {Head(left)}
        BY <2>1, <2>3, HeadAndTail
      <4>2. \A t \in Tables : dest[t] = Emptied \/ t \in ToSet(left)
        BY <2>1 DEF DataInv, ClearInv
      <4> QED BY <2>3, <4>1, <4>2 DEF Clear
    <3>3. ASSUME Promising', job.dst = "mssql" PROVE LoopInv'
      <4>1. Promising
        BY <1>0, <2>1, <3>3, PromiseStays
      <4>2. plan = Plan(Tables, job.refs, job.est)
        BY <2>1 DEF UndoInv
      <4>3. ParentsFirst(left') /\ Settled(left')
        BY <1>0, <3>1, <4>1, <4>2, PlanInOrder
      <4>4. ParentsFirst(left)' /\ Settled(left)'
        BY <1>0, <4>3 DEF ParentsFirst, Settled
      <4>5. left' \in Seq(Tables) /\ left' # <<>>
        BY <2>1, <3>1, LoopBegins
      <4>6. Head(left') \in Tables /\ ToSet(Tail(left')) \subseteq Tables
        <5>1. Head(left') \in Tables /\ Tail(left') \in Seq(Tables)
          BY <4>5, HeadAndTail
        <5> QED BY <5>1 DEF ToSet
      <4> QED BY <3>2, <4>4, <4>6 DEF LoopInv
    <3> QED BY <1>0, <2>2, <3>1, <3>3 DEF UndoInv
  <2>4. CASE Goto("clear", Tail(left))
    <3>1. phase' = "clear" /\ plan' = Plan(Tables, job'.refs, job'.est)
      BY <1>0, <2>1, <2>4 DEF Goto, UndoInv
    <3> QED BY <1>0, <1>1, <2>1, <2>2, <3>1 DEF UndoInv
  <2> QED BY <1>3, <1>7, <2>1, <2>3, <2>4 DEF ClearTable
<1>8. CASE StartTable
  <2>1. phase = "copy" /\ UNCHANGED <<job, worker>> /\ left \in Seq(Tables) /\ left # <<>> /\ Live' = {}
    BY <1>8, NoneLive DEF StartTable, poolVars, ControlInv, Looping
  <2>2. CASE CancelHere /\ UNCHANGED <<dest, results, faults>>
    BY <1>0, <2>1, <2>2, CancelUndone
  <2>3. CASE phase' = "table" /\ UNCHANGED <<left, dest, results, faults>>
    <3>1. Promising' => Promising
      BY <1>0, <2>3, PromiseStays
    <3>2. ASSUME LoopInv PROVE LoopInv'
      BY <1>0, <2>3, <3>2 DEF LoopInv, ParentsFirst, Settled
    <3> QED BY <1>0, <2>1, <2>3, <3>1, <3>2 DEF UndoInv
  <2>4. CASE phase' = "table" /\ UNCHANGED <<left, results, faults>> /\ Clear(IF job.dst = "pg" THEN Cascade(Head(left)) ELSE {Head(left)})
    <3>1. Promising' => Promising
      BY <1>0, <2>4, PromiseStays
    <3>2. ASSUME LoopInv, job.dst = "mssql" PROVE LoopInv'
      <4>1. Tail(left) \in Seq(Tables) /\ ToSet(Tail(left)) \subseteq Tables
        <5>1. Tail(left) \in Seq(Tables)
          BY <2>1, HeadAndTail
        <5> QED BY <5>1 DEF ToSet
      <4>2. \A t \in Tables : dest[t] = Emptied => dest'[t] = Emptied
        BY <2>4, <3>2 DEF Clear
      <4>3. \A t \in ToSet(Tail(left')) : dest'[t] = Emptied
        BY <2>4, <3>2, <4>1, <4>2 DEF LoopInv
      <4>4. ParentsFirst(left)' /\ Settled(left)'
        BY <1>0, <2>4, <3>2 DEF LoopInv, ParentsFirst, Settled
      <4> QED BY <2>4, <4>3, <4>4 DEF LoopInv
    <3> QED BY <1>0, <2>1, <2>4, <3>1, <3>2 DEF UndoInv
  <2>5. CASE UNCHANGED dest /\ Ends(Head(left), FALSE)
    BY <1>0, <2>1, <2>5, CopyEndUndone
  <2> QED BY <1>8, <2>2, <2>3, <2>4, <2>5 DEF StartTable, StartFails, Ends, copyVars
<1>9. CASE CopyBatch
  <2>1. phase = "table" /\ phase' = "table" /\ UNCHANGED <<job, results, left, worker, faults>> /\ left \in Seq(Tables) /\ left # <<>>
        /\ Live' = {} /\ dest' = [dest EXCEPT ![Head(left)].new = @ + 1]
    BY <1>9, NoneLive DEF CopyBatch, poolVars, ControlInv, Looping
  <2>2. Promising' => Promising
    BY <1>0, <2>1, PromiseStays
  <2>3. ASSUME LoopInv PROVE LoopInv'
    <3>1. Once(left)
      BY <2>1 DEF DataInv, CopyInv
    <3>2. Head(left) \notin ToSet(Tail(left)) /\ Tail(left) \in Seq(Tables)
      BY <2>1, <3>1, HeadAndTail
    <3>3. ToSet(Tail(left)) \subseteq Tables
      BY <3>2 DEF ToSet
    <3>4. dest \in [Tables -> Rows]
      BY DEF EarlyInv
    <3>5. \A t \in ToSet(Tail(left)) : dest'[t] = dest[t]
      BY <2>1, <3>2, <3>3, <3>4
    <3>6. ParentsFirst(left)' /\ Settled(left)'
      BY <1>0, <2>1, <2>3 DEF LoopInv, ParentsFirst, Settled
    <3>7. ToSet(Tail(left')) = ToSet(Tail(left))
      BY <2>1
    <3> QED BY <2>1, <2>3, <3>5, <3>6, <3>7 DEF LoopInv
  <2> QED BY <1>0, <2>1, <2>2, <2>3 DEF UndoInv
<1>10. CASE CancelMidCopy
  <2>1. phase = "table" /\ UNCHANGED <<job, dest, worker, faults>>
    BY <1>10 DEF CancelMidCopy, poolVars
  <2>2. CASE EndCopy(Head(left), FALSE)
    BY <1>0, <2>1, <2>2, CopyEndUndone DEF Ends
  <2>3. CASE CancelHere /\ UNCHANGED results
    BY <1>0, <2>1, <2>3, CancelUndone
  <2> QED BY <1>10, <2>2, <2>3 DEF CancelMidCopy
<1>11. CASE FinishTable
  <2>1. phase = "table" /\ UNCHANGED <<job, dest, worker, faults>> /\ EndCopy(Head(left), TRUE)
    BY <1>11 DEF FinishTable, poolVars
  <2> QED BY <1>0, <2>1, CopyEndUndone DEF Ends
<1>12. CASE FailTable
  <2>1. phase = "table" /\ UNCHANGED <<job, dest, worker>> /\ EndCopy(Head(left), FALSE)
    BY <1>12 DEF FailTable, poolVars
  <2> QED BY <1>0, <2>1, CopyEndUndone DEF Ends
<1>13. CASE Crash
  BY <1>3, <1>13 DEF Crash, poolVars
<1>14. CASE SpawnWorkers
  <2>1. phase = "spawn" /\ phase' = "pool"
    BY <1>14 DEF SpawnWorkers, Goto
  <2>2. IsPool /\ job.dst # "mssql"
    BY <2>1 DEF UndoInv, IsPool
  <2> QED BY <1>0, <1>1, <2>1, <2>2 DEF UndoInv
<1>15. CASE PoolDone
  <2>1. phase = "pool" /\ UNCHANGED <<job, worker>>
    BY <1>15 DEF PoolDone
  <2>2. IsPool /\ job.dst # "mssql"
    BY <2>1 DEF UndoInv, IsPool
  <2>3. phase' \in {"undo", "over", "step"}
    BY <1>15 DEF PoolDone, Throw, Finish, EndData, NextStep, Goto
  <2> QED BY <1>0, <1>1, <2>2, <2>3 DEF UndoInv
<1> QED BY <1>4, <1>5, <1>6, <1>7, <1>8, <1>9, <1>10, <1>11, <1>12, <1>13, <1>14, <1>15 DEF Migrator

\* Every step keeps it: what threads do concerns PG alone.
LEMMA UndoStep ==
  ASSUME ControlInv, PoolInv, EarlyInv, DataInv, CoverInv, UndoInv, [MigrationNext]_migrationVars
  PROVE  UndoInv'
<1>1. CASE Pool
  <2>1. PICK w \in Workers : WorkerCopies(w) \/ WorkerReports(w) \/ WorkerFailsTable(w) \/ WorkerDies(w) \/ WorkerStops(w)
    BY <1>1 DEF Pool
  <2>2. worker[w].st # "gone" /\ w \in Live
    BY <2>1 DEF WorkerCopies, WorkerReports, WorkerFailsTable, WorkerDies, WorkerStops, Live
  <2>3. phase = "pool" \/ (phase = "over" /\ outcome = "failed")
    BY <2>2 DEF PoolInv
  <2>4. IsPool /\ job.dst # "mssql" /\ undone # "failed"
    BY <2>2, <2>3 DEF UndoInv, IsPool
  <2>5. UNCHANGED <<job, undone>> /\ faults' \in Nat
    BY <2>1 DEF UndoInv, WorkerCopies, WorkerReports, WorkerFailsTable, WorkerDies, WorkerStops, Fault, endVars
  <2>6. phase' \in {phase, "over"}
    BY <2>1 DEF WorkerCopies, WorkerReports, WorkerFailsTable, WorkerDies, WorkerStops, Throw, Finish, Goto, loopVars
  <2>7. IsPool'
    BY <2>4, <2>5 DEF IsPool
  <2> QED BY <2>3, <2>4, <2>5, <2>6, <2>7 DEF UndoInv
<1>2. CASE Abort \/ ProcessKilled \/ UNCHANGED migrationVars
  <2>1. UNCHANGED <<job, dest, results, faults, undone, outcome, phase, step, left, plan>>
    BY <1>2 DEF Abort, ProcessKilled, migrationVars, loopVars, copyVars, endVars
  <2>2. Live' \subseteq Live
    <3>1. CASE ProcessKilled
      BY <3>1 DEF ProcessKilled, Live, Gone
    <3>2. CASE Abort
      BY <3>2 DEF Abort, Live
    <3>3. CASE UNCHANGED migrationVars
      BY <3>3 DEF migrationVars, poolVars, Live
    <3> QED BY <1>2, <3>1, <3>2, <3>3
  <2>3. /\ Fresh' <=> Fresh
        /\ AllOk' <=> AllOk
        /\ AllBacked' <=> AllBacked
        /\ PerTable' <=> PerTable
        /\ IsPool' <=> IsPool
    BY <2>1, SameRows
  <2>4. (Promising' <=> Promising) /\ (LoopInv' <=> LoopInv)
    BY <2>1, <2>3 DEF Promising, LoopInv, ParentsFirst, Settled
  <2> QED BY <2>1, <2>2, <2>3, <2>4 DEF UndoInv
<1> QED BY <1>1, <1>2, OrchestratorUndone, MigratorUndone DEF MigrationNext

\* Where a run is promising, where it is, and what that is worth to a cancelled one, is one
\* invariant with all the rest.
THEOREM UndoInductive == MigrationSpec => []UndoInv
<1>1. MigrationInit => UndoInv
  <2> SUFFICES ASSUME MigrationInit PROVE UndoInv
    OBVIOUS
  <2>1. Live = {} /\ Fresh
    BY DEF MigrationInit, Live, Gone, Fresh
  <2> QED BY <2>1 DEF MigrationInit, UndoInv, DataStep
<1>2. MigrationInv /\ UndoInv /\ [MigrationNext]_migrationVars => UndoInv'
  BY UndoStep DEF MigrationInv
<1> QED BY <1>1, <1>2, MigrationInductive, PTL DEF MigrationSpec

\* What the order of the tables is for.  A plan has every table once and each parent before
\* its children, except on or below the cycles it names; and if foreign keys form none, no
\* table has failed and the destination was not cleared table by table of rows of before,
\* then the rows of a cancelled run, wherever the cancel met it, satisfy every constraint
\* that its compensation switches on again.
THEOREM PlanLetsUndo == MigrationSpec => []PlanCarries
<1>1. MigrationInv /\ UndoInv => PlanCarries
  <2> SUFFICES ASSUME MigrationInv, UndoInv PROVE PlanOrdersParents /\ CompensationHolds
    BY DEF PlanCarries
  <2>1. job \in Jobs /\ job.est \in [Tables -> Nat]
    BY JobTyped DEF MigrationInv, ControlInv
  <2>2. PlanOrdersParents
    <3> SUFFICES ASSUME phase = "open"
                 PROVE  /\ ToSet(plan.loadOrder) = Tables /\ Len(plan.loadOrder) = N
                        /\ plan.cyclicTables = Unordered(Tables, job.refs)
                        /\ \A t \in Tables \ plan.cyclicTables : \A p \in Parents(Tables, job.refs, t) :
                             Place(plan.loadOrder, p) < Place(plan.loadOrder, t)
      BY DEF PlanOrdersParents
    <3>1. plan = Plan(Tables, job.refs, job.est)
      BY DEF UndoInv
    <3>2. IsOrder(plan.loadOrder)
      BY <2>1, <3>1, PlanVisitsEachTableOnce
    <3>3. ToSet(plan.loadOrder) = Tables /\ Len(plan.loadOrder) = N
      BY <3>2, OrdersAreLoops DEF IsOrder
    <3> QED BY <2>1, <3>1, <3>3, ParentsComeFirst
  <2>3. CompensationHolds
    <3>1. undone = "failed" => ~ Promising
      BY DEF UndoInv
    <3> QED BY <3>1 DEF CompensationHolds, Promising
  <2> QED BY <2>2, <2>3
<1> QED BY <1>1, MigrationInductive, UndoInductive, PTL

-----------------------------------------------------------------------------
(***************************************************************************)
(* The counters of the self-numbering columns (SchemaSync).                *)
(***************************************************************************)

\* What the rows, the counter and the source say of the ids.
IdsType == ids \in [max : Nat, next : Nat, srcNext : Nat, seen : Nat]

\* While a run loads and resets, only PG's counter may lag behind the ids it numbered.
CounterInv == stage = "index" => ids = NoIds \/ pair.dst = "pg" \/ ids.next > ids.max

IdsInv == IdsType /\ CounterInv /\ NextIdFree

\* The greatest of two numbers.
LEMMA GreatestOfTwo ==
  ASSUME NEW a \in Nat, NEW b \in Nat
  PROVE  Max({a, b}) \in {a, b} /\ Max({a, b}) >= a /\ Max({a, b}) >= b
<1>1. \E x \in {a, b} : \A y \in {a, b} : x >= y
  BY SMT
<1>2. Max({a, b}) = CHOOSE x \in {a, b} : \A y \in {a, b} : x >= y
  BY DEF Max
<1>3. Max({a, b}) \in {a, b} /\ \A y \in {a, b} : Max({a, b}) >= y
  BY <1>1, <1>2
<1> QED BY <1>3

\* The greatest of one number and one more.
LEMMA GreatestOfThree ==
  ASSUME NEW a \in Nat, NEW b \in Nat, NEW c \in Nat
  PROVE  Max({a, b, c}) \in Nat /\ Max({a, b, c}) >= a
<1>1. \E x \in {a, b, c} : \A y \in {a, b, c} : x >= y
  BY SMT
<1>2. Max({a, b, c}) = CHOOSE x \in {a, b, c} : \A y \in {a, b, c} : x >= y
  BY DEF Max
<1>3. Max({a, b, c}) \in {a, b, c} /\ \A y \in {a, b, c} : Max({a, b, c}) >= y
  BY <1>1, <1>2
<1> QED BY <1>3

\* PG's counter is set past the greatest id of the rows.
LEMMA PgResetsPast ==
  ASSUME IdsType, NEW n \in PgReset(ids)
  PROVE  n \in Nat /\ n > ids.max
<1>1. ids.max + 1 \in Nat /\ ids.srcNext \in Nat /\ ids.max \in Nat
  BY DEF IdsType
<1>2. PICK f \in {{}, {ids.srcNext}} : n = Max({ids.max + 1, 1} \cup f)
  BY DEF PgReset
<1>3. CASE f = {}
  <2>1. n = Max({ids.max + 1, 1})
    BY <1>2, <1>3
  <2>2. n \in {ids.max + 1, 1} /\ n >= ids.max + 1
    BY <1>1, <2>1, GreatestOfTwo
  <2> QED BY <1>1, <2>2
<1>4. CASE f = {ids.srcNext}
  <2>1. {ids.max + 1, 1} \cup f = {ids.max + 1, 1, ids.srcNext}
    BY <1>4
  <2>2. n = Max({ids.max + 1, 1, ids.srcNext})
    BY <1>2, <2>1
  <2>3. n \in Nat /\ n >= ids.max + 1
    BY <1>1, <2>2, GreatestOfThree
  <2> QED BY <1>1, <2>3
<1> QED BY <1>2, <1>3, <1>4

\* MySQL keeps its counter above the ids, or takes the source's.
LEMMA MysqlResetsPast ==
  ASSUME IdsType, ids.next > ids.max, NEW n \in MysqlReset(ids)
  PROVE  n \in Nat /\ n > ids.max
<1>1. ids.max + 1 \in Nat /\ ids.seen \in Nat /\ ids.max \in Nat /\ ids.next \in Nat
  BY DEF IdsType
<1>2. n = ids.next \/ n = Max({ids.seen, ids.max + 1})
  BY DEF MysqlReset
<1>3. CASE n = Max({ids.seen, ids.max + 1})
  BY <1>1, <1>3, GreatestOfTwo
<1> QED BY <1>1, <1>2, <1>3

\* MSSQL is reseeded with the greatest id of the rows, if there are any.
LEMMA MssqlResetsPast ==
  ASSUME IdsType, ids.next > ids.max, NEW n \in MssqlReset(ids)
  PROVE  n \in Nat /\ n > ids.max
  BY DEF IdsType, MssqlReset

\* Loading leaves a counter that is free of the loaded ids, unless it is PG's.
LEMMA LoadCounts ==
  ASSUME IdsType, Load
  PROVE  IdsType' /\ CounterInv' /\ NextIdFree'
<1>0. MaxId \in Nat
  BY BoundsAreNat
<1>1. CASE /\ \E max \in 0 .. MaxId, was, srcNext, seen \in 1 .. MaxId + 1 :
                /\ pair.src = "pg" \/ srcNext > max
                /\ seen <= srcNext
                /\ ids' = IF Numbered(src) /\ Numbered(dst)
                          THEN [max |-> max, srcNext |-> srcNext, seen |-> seen,
                                next |-> IF pair.dst = "pg" THEN was ELSE Max({was, max + 1})]
                          ELSE NoIds
           /\ stage' = "index" /\ pair' = pair
  <2>1. PICK max \in 0 .. MaxId, was \in 1 .. MaxId + 1, srcNext \in 1 .. MaxId + 1,
             seen \in 1 .. MaxId + 1 :
          ids' = IF Numbered(src) /\ Numbered(dst)
                 THEN [max |-> max, srcNext |-> srcNext, seen |-> seen,
                       next |-> IF pair.dst = "pg" THEN was ELSE Max({was, max + 1})]
                 ELSE NoIds
    BY <1>1
  <2>2. max \in Nat /\ was \in Nat /\ srcNext \in Nat /\ seen \in Nat /\ max + 1 \in Nat
    BY <1>0
  <2>3. Max({was, max + 1}) \in Nat /\ Max({was, max + 1}) > max
    BY <2>2, GreatestOfTwo
  <2>4. CASE ids' = NoIds
    <3>1. NoIds \in [max : Nat, next : Nat, srcNext : Nat, seen : Nat]
      BY DEF NoIds
    <3> QED BY <1>1, <2>4, <3>1 DEF IdsType, CounterInv, NextIdFree
  <2>5. CASE ids' = [max |-> max, srcNext |-> srcNext, seen |-> seen,
                     next |-> IF pair.dst = "pg" THEN was ELSE Max({was, max + 1})]
    <3>1. IdsType'
      BY <2>2, <2>3, <2>5 DEF IdsType
    <3>2. pair.dst = "pg" \/ ids'.next > ids'.max
      BY <2>3, <2>5
    <3> QED BY <1>1, <3>1, <3>2 DEF CounterInv, NextIdFree
  <2> QED BY <2>1, <2>4, <2>5
<1>2. CASE stage' = "idle" /\ verdict' = "failed" /\ ids' = ids
  BY <1>2 DEF IdsType, CounterInv, NextIdFree
<1> QED BY <1>1, <1>2 DEF Load, Failed

\* The last step of a run leaves a free id, or has failed.
LEMMA ResetFrees ==
  ASSUME IdsType, CounterInv, ResetSequences
  PROVE  IdsType' /\ NextIdFree'
<1>1. PICK n : ids' = [ids EXCEPT !.next = n]
               /\ \/ n \in (IF ids = NoIds THEN {1} ELSE
                            CASE pair.dst = "pg" -> PgReset(ids) [] pair.dst = "mysql" -> MysqlReset(ids)
                              [] OTHER -> MssqlReset(ids))
                  \/ "fault" \in marks' /\ n \in Unreset(ids)
  BY DEF ResetSequences, Trouble
<1>2. stage = "index"
  BY DEF ResetSequences
<1>3. CASE n \in (IF ids = NoIds THEN {1} ELSE
                  CASE pair.dst = "pg" -> PgReset(ids) [] pair.dst = "mysql" -> MysqlReset(ids)
                    [] OTHER -> MssqlReset(ids))
  <2>1. n \in Nat /\ n > ids.max
    <3>1. CASE ids = NoIds
      BY <1>3, <3>1 DEF NoIds
    <3>2. CASE ids # NoIds /\ pair.dst = "pg"
      BY <1>3, <3>2, PgResetsPast
    <3>3. CASE ids # NoIds /\ pair.dst # "pg"
      <4>1. ids.next > ids.max
        BY <1>2, <3>3 DEF CounterInv
      <4>2. n \in MysqlReset(ids) \/ n \in MssqlReset(ids)
        BY <1>3, <3>3
      <4> QED BY <4>1, <4>2, MysqlResetsPast, MssqlResetsPast
    <3> QED BY <3>1, <3>2, <3>3
  <2>2. ids'.max = ids.max /\ ids'.next = n
    BY <1>1 DEF IdsType
  <2> QED BY <1>1, <2>1, <2>2 DEF IdsType, NextIdFree
<1>4. CASE "fault" \in marks' /\ n \in Unreset(ids)
  <2>1. n \in Nat
    BY <1>4 DEF Unreset, IdsType
  <2> QED BY <1>1, <1>4, <2>1 DEF IdsType, NextIdFree
<1> QED BY <1>1, <1>3, <1>4

\* Every step keeps the counters as they must be.
LEMMA IdsStep == IdsInv /\ [SyncNext]_syncVars => IdsInv'
<1> SUFFICES ASSUME IdsInv, [SyncNext]_syncVars PROVE IdsInv' OBVIOUS
<1> USE DEF IdsInv
<1>1. CASE StartRun
  <2>1. ids' = NoIds /\ stage' = "apply"
    BY <1>1 DEF StartRun
  <2> QED BY <2>1 DEF NoIds, IdsType, CounterInv, NextIdFree
<1>2. CASE RunStatement
  <2>1. UNCHANGED <<ids, pair>>
    BY <1>2 DEF RunStatement
  <2>2. (stage' = stage /\ stage # "idle") \/ (stage' = "idle" /\ verdict' = "failed")
    BY <1>2 DEF RunStatement, Succeeds, Skipped, RefusedFor, Failed
  <2> QED BY <2>1, <2>2 DEF IdsType, CounterInv, NextIdFree
<1>3. CASE Load
  BY <1>3, LoadCounts
<1>4. CASE ResetSequences
  <2>1. stage' = "idle"
    BY <1>4 DEF ResetSequences
  <2> QED BY <1>4, <2>1, ResetFrees DEF CounterInv
<1>5. CASE UNCHANGED syncVars
  BY <1>5 DEF syncVars, IdsType, CounterInv, NextIdFree
<1> QED BY <1>1, <1>2, <1>3, <1>4, <1>5 DEF SyncNext

\* On every pair of engines, after a run that met no failure an insert without an id
\* gets one that no loaded row has, whatever the counters of the two databases said.
THEOREM InsertsAreFree == SyncSpec => []NextIdFree
<1>1. SyncInit => IdsInv
  BY DEF SyncInit, NoIds, IdsInv, IdsType, CounterInv, NextIdFree
<1>2. IdsInv => NextIdFree
  BY DEF IdsInv
<1> QED BY <1>1, <1>2, IdsStep, PTL DEF SyncSpec

-----------------------------------------------------------------------------
(***************************************************************************)
(* Statements, and the lists of them.                                      *)
(***************************************************************************)

\* A set that can be listed by table.
Listable(S) == IsFiniteSet(S) /\ \A x \in S : x.t \in Nat

\* a comes before b when a set is listed by table and, in a table, by the numbers no.
Comes(no, a, b) == a.t < b.t \/ (a.t = b.t /\ no[a] < no[b])
UpTo(S, no, a) == {c \in S : c = a \/ Comes(no, c, a)}

\* Comes is a strict total order.
LEMMA ComesOrders ==
  ASSUME NEW S, Listable(S), NEW no \in [S -> Nat], \A a, b \in S : no[a] = no[b] => a = b,
         NEW a \in S, NEW b \in S
  PROVE  /\ ~ Comes(no, a, a)
         /\ Comes(no, a, b) => ~ Comes(no, b, a) /\ a # b
         /\ a # b => Comes(no, a, b) \/ Comes(no, b, a)
         /\ \A c \in S : Comes(no, a, b) /\ Comes(no, b, c) => Comes(no, a, c)
<1>1. \A x \in S : x.t \in Nat /\ no[x] \in Nat
  BY DEF Listable
<1>2. ~ Comes(no, a, a) /\ (Comes(no, a, b) => ~ Comes(no, b, a))
  BY <1>1 DEF Comes
<1>3. a # b => Comes(no, a, b) \/ Comes(no, b, a)
  BY <1>1 DEF Comes
<1>4. \A c \in S : Comes(no, a, b) /\ Comes(no, b, c) => Comes(no, a, c)
  BY <1>1 DEF Comes
<1> QED BY <1>2, <1>3, <1>4

\* What comes later has more before it.
LEMMA ComesCounts ==
  ASSUME NEW S, Listable(S), NEW no \in [S -> Nat], \A a, b \in S : no[a] = no[b] => a = b,
         NEW a \in S, NEW b \in S, Comes(no, a, b)
  PROVE  /\ Cardinality(UpTo(S, no, a)) \in 1 .. Cardinality(S)
         /\ Cardinality(UpTo(S, no, b)) \in 1 .. Cardinality(S)
         /\ Cardinality(UpTo(S, no, a)) < Cardinality(UpTo(S, no, b))
<1> DEFINE A == UpTo(S, no, a)
           B == UpTo(S, no, b)
<1>1. A \subseteq B /\ b \in B /\ b \notin A /\ a \in A /\ A \in SUBSET S /\ B \in SUBSET S
  <2>1. A \in SUBSET S /\ B \in SUBSET S /\ b \in B /\ a \in A
    BY DEF UpTo
  <2>2. \A c \in S : c = a \/ Comes(no, c, a) => Comes(no, c, b)
    BY ComesOrders
  <2>3. A \subseteq B
    BY <2>2 DEF UpTo
  <2>4. ~ (b = a \/ Comes(no, b, a))
    BY ComesOrders
  <2>5. b \notin A
    BY <2>4 DEF UpTo
  <2> QED BY <2>1, <2>3, <2>5
<1> HIDE DEF A, B
<1>2. IsFiniteSet(S)
  BY DEF Listable
<1>3. IsFiniteSet(A) /\ IsFiniteSet(B) /\ Cardinality(A) <= Cardinality(S) /\ Cardinality(B) <= Cardinality(S)
  BY <1>1, <1>2, FS_Subset
<1>4. Cardinality(A) <= Cardinality(B) /\ Cardinality(A) # Cardinality(B)
  BY <1>1, <1>3, FS_Subset
<1>5. Cardinality(A) \in Nat /\ Cardinality(B) \in Nat /\ Cardinality(S) \in Nat
  BY <1>2, <1>3, FS_CardinalityType
<1>6. Cardinality(A) # 0 /\ Cardinality(B) # 0
  BY <1>1, <1>3, FS_EmptySet
<1>7. Cardinality(A) \in 1 .. Cardinality(S) /\ Cardinality(B) \in 1 .. Cardinality(S) /\ Cardinality(A) < Cardinality(B)
  BY <1>3, <1>4, <1>5, <1>6
<1> QED BY <1>7 DEF A, B

\* Every set that can be is listed whole.
LEMMA ListedWhole ==
  ASSUME NEW S, Listable(S)
  PROVE  /\ InOrder(S) \in [1 .. Cardinality(S) -> S]
         /\ \A x \in S : \E i \in 1 .. Cardinality(S) : InOrder(S)[i] = x
<1> DEFINE n == Cardinality(S)
<1>0. IsFiniteSet(S) /\ n \in Nat
  BY FS_CardinalityType DEF Listable
<1>1. PICK no \in Injection(S, 1 .. n) : TRUE
  <2>1. ExistsBijection(1 .. n, S)
    BY <1>0, FS_CardinalityType
  <2>2. ExistsBijection(S, 1 .. n)
    BY <2>1, Fun_ExistsBijSymmetric
  <2> QED BY <2>2 DEF ExistsBijection, Bijection
<1>2. no \in [S -> Nat] /\ \A a, b \in S : no[a] = no[b] => a = b
  BY <1>1 DEF Injection, IsInjective
<1> DEFINE rank == [a \in S |-> Cardinality(UpTo(S, no, a))]
           Sorted(order) == \A i, j \in DOMAIN order : i < j => order[i] # order[j] /\ order[i].t <= order[j].t
<1>3. IsFiniteSet(1 .. n) /\ Cardinality(1 .. n) = n
  <2> HIDE DEF n
  <2> QED BY <1>0, FS_Interval
<1>4. rank \in [S -> 1 .. n]
  <2> SUFFICES ASSUME NEW a \in S PROVE Cardinality(UpTo(S, no, a)) \in 1 .. n
    OBVIOUS
  <2> DEFINE A == UpTo(S, no, a)
  <2>1. A \in SUBSET S /\ a \in A
    BY DEF UpTo
  <2> HIDE DEF A
  <2>2. IsFiniteSet(A) /\ Cardinality(A) <= n /\ Cardinality(A) \in Nat /\ Cardinality(A) # 0
    BY <1>0, <2>1, FS_Subset, FS_CardinalityType, FS_EmptySet
  <2>3. Cardinality(A) \in 1 .. n
    BY <1>0, <2>2
  <2> QED BY <2>3 DEF A
<1>5. \A a, b \in S : a # b => Comes(no, a, b) \/ Comes(no, b, a)
  BY <1>2, ComesOrders
<1>6. \A a, b \in S : Comes(no, a, b) => rank[a] < rank[b]
  BY <1>2, ComesCounts
<1>7. \A a, b \in S : a # b => rank[a] # rank[b]
  <2> HIDE DEF rank
  <2> QED BY <1>0, <1>4, <1>5, <1>6
<1>8. \A i \in 1 .. n : \E a \in S : rank[a] = i
  <2> HIDE DEF rank
  <2>1. rank \in Injection(S, 1 .. n)
    BY <1>4, <1>7 DEF Injection, IsInjective
  <2>2. rank \in Surjection(S, 1 .. n)
    BY <1>0, <1>3, <2>1, FS_Injection
  <2> QED BY <2>2 DEF Surjection
<1> DEFINE order == [i \in 1 .. n |-> CHOOSE a \in S : rank[a] = i]
<1>9. order \in [1 .. n -> S] /\ \A i \in 1 .. n : rank[order[i]] = i
  <2> HIDE DEF rank
  <2> QED BY <1>8
<1>10. Sorted(order)
  <2> SUFFICES ASSUME NEW i \in 1 .. n, NEW j \in 1 .. n, i < j
               PROVE  order[i] # order[j] /\ order[i].t <= order[j].t
    OBVIOUS
  <2>1. order[i] \in S /\ order[j] \in S /\ rank[order[i]] = i /\ rank[order[j]] = j
    BY <1>9
  <2> HIDE DEF order, rank
  <2>2. order[i] # order[j]
    BY <2>1, <1>0
  <2>3. ~ Comes(no, order[j], order[i])
    BY <1>0, <1>6, <2>1
  <2>4. Comes(no, order[i], order[j])
    BY <1>5, <2>1, <2>2, <2>3
  <2>5. order[i].t \in Nat /\ order[j].t \in Nat
    BY <2>1 DEF Listable
  <2> QED BY <2>2, <2>4, <2>5 DEF Comes
<1> DEFINE s == InOrder(S)
<1>11. s \in [1 .. n -> S] /\ Sorted(s)
  <2>1. s = CHOOSE o \in [1 .. n -> S] : Sorted(o)
    BY DEF InOrder
  <2> HIDE DEF order, s, Sorted
  <2> QED BY <1>9, <1>10, <2>1
<1> HIDE DEF s
<1>12. \A i, j \in 1 .. n : i # j => s[i] # s[j]
  <2> SUFFICES ASSUME NEW i \in 1 .. n, NEW j \in 1 .. n, i < j PROVE s[i] # s[j]
    BY <1>0
  <2> QED BY <1>11
<1>13. \A x \in S : \E i \in 1 .. n : s[i] = x
  <2>1. s \in Injection(1 .. n, S)
    BY <1>11, <1>12 DEF Injection, IsInjective
  <2>2. s \in Surjection(1 .. n, S)
    BY <1>0, <1>3, <2>1, FS_Injection
  <2> QED BY <2>2 DEF Surjection
<1> QED BY <1>11, <1>13 DEF s

\* The statements of a list; a list of no statement but these.
Said(list) == {list[k] : k \in 1 .. Len(list)}
IsList(list) == list \in Seq(Said(list))

\* A sequence over a set is a list, and names nothing else.
LEMMA ListOf ==
  ASSUME NEW S, NEW list \in Seq(S)
  PROVE  IsList(list) /\ Said(list) \subseteq S
<1>1. Len(list) \in Nat /\ list \in [1 .. Len(list) -> S]
  BY LenProperties
<1>2. list \in [1 .. Len(list) -> Said(list)]
  BY <1>1 DEF Said
<1>3. list \in Seq(Said(list))
  BY <1>1, <1>2, SeqDef
<1> QED BY <1>1, <1>3 DEF IsList, Said

\* Two lists, one after the other, say what each says.
LEMMA BothSaid ==
  ASSUME NEW a, NEW b, IsList(a), IsList(b)
  PROVE  IsList(a \o b) /\ Said(a \o b) = Said(a) \cup Said(b)
<1> DEFINE S == Said(a) \cup Said(b)
           m == Len(a)
           n == Len(b)
           c == a \o b
<1>1. a \in Seq(S) /\ b \in Seq(S)
  BY SeqMonotonic DEF IsList
<1>2. m \in Nat /\ n \in Nat
  BY <1>1, LenProperties
<1>3. c \in Seq(S) /\ Len(c) = m + n
      /\ \A i \in 1 .. m + n : c[i] = IF i <= m THEN a[i] ELSE b[i - m]
  BY <1>1, ConcatProperties
<1>4. IsList(c) /\ Said(c) \subseteq S
  BY <1>3, ListOf
<1> HIDE DEF c, m, n
<1>5. ASSUME NEW i \in 1 .. m PROVE a[i] \in Said(c)
  <2>1. i \in 1 .. m + n /\ c[i] = a[i]
    BY <1>2, <1>3
  <2> QED BY <1>3, <2>1 DEF Said
<1>6. ASSUME NEW i \in 1 .. n PROVE b[i] \in Said(c)
  <2>1. m + i \in 1 .. m + n /\ ~ m + i <= m /\ (m + i) - m = i
    BY <1>2
  <2>2. c[m + i] = b[i]
    BY <1>3, <2>1
  <2> QED BY <1>3, <2>1, <2>2 DEF Said
<1>7. Said(a) \subseteq Said(c) /\ Said(b) \subseteq Said(c)
  BY <1>5, <1>6 DEF Said, m, n
<1> QED BY <1>4, <1>7 DEF c

\* A statement of each.
Each(op, S, spare) == {[op |-> op, of |-> x, spare |-> spare] : x \in S}

\* Statements of a set are one for each member.
LEMMA StatementsSaid ==
  ASSUME NEW op, NEW S, NEW spare, Listable(S)
  PROVE  IsList(Statements(op, S, spare)) /\ Said(Statements(op, S, spare)) = Each(op, S, spare)
<1> DEFINE n == Cardinality(S)
           order == InOrder(S)
           list == [k \in DOMAIN order |-> [op |-> op, of |-> order[k], spare |-> spare]]
<1>1. n \in Nat
  BY FS_CardinalityType DEF Listable
<1>2. order \in [1 .. n -> S] /\ \A x \in S : \E i \in 1 .. n : order[i] = x
  BY ListedWhole
<1> HIDE DEF n, order
<1>3. DOMAIN list = 1 .. n /\ \A k \in 1 .. n : list[k] = [op |-> op, of |-> order[k], spare |-> spare]
  BY <1>2
<1>4. list \in [1 .. n -> Each(op, S, spare)]
  BY <1>2 DEF Each
<1>5. Statements(op, S, spare) = list
  BY DEF Statements, order
<1> HIDE DEF list
<1>6. list \in Seq(Each(op, S, spare))
  BY <1>1, <1>4, SeqDef
<1>7. Len(list) = n
  BY <1>1, <1>3, <1>6, LenProperties
<1>8. IsList(list) /\ Said(list) \subseteq Each(op, S, spare)
  BY <1>6, ListOf
<1>9. Each(op, S, spare) \subseteq Said(list)
  BY <1>2, <1>3, <1>7 DEF Each, Said
<1> QED BY <1>5, <1>8, <1>9

-----------------------------------------------------------------------------
(***************************************************************************)
(* What is found different.                                                *)
(***************************************************************************)

\* What a function makes of a finite set is finite.
LEMMA Made ==
  ASSUME NEW S, IsFiniteSet(S), NEW f, DOMAIN f = S, f = [x \in S |-> f[x]]
  PROVE  IsFiniteSet({f[x] : x \in S})
<1> DEFINE T == {f[x] : x \in S}
<1>1. f \in [S -> T]
  OBVIOUS
<1>2. \A y \in T : \E x \in S : f[x] = y
  OBVIOUS
<1>3. f \in Surjection(S, T)
  <2> HIDE DEF T
  <2> QED BY <1>1, <1>2, Fun_IsSurj
<1> HIDE DEF T
<1>4. IsFiniteSet(T)
  BY <1>3, FS_Surjection
<1> QED BY <1>4 DEF T

ColumnFields == {"t", "n", "type", "auto"}
ConFields == {"t", "kind", "name", "cols", "ref"}
IdxFields == {"t", "name", "cols"}
AreColumns(S) == IsFiniteSet(S) /\ \A c \in S : DOMAIN c = ColumnFields /\ c.t \in Nat
AreCons(S) == IsFiniteSet(S) /\ \A c \in S : DOMAIN c = ConFields /\ c.t \in Nat
AreIdx(S) == IsFiniteSet(S) /\ \A i \in S : DOMAIN i = IdxFields /\ i.t \in Nat

\* The parts of a database.
LEMMA PartsOf ==
  ASSUME NEW db, IsDatabase(db)
  PROVE  /\ AreColumns(db.cols) /\ AreCons(db.cons) /\ AreIdx(db.idx)
         /\ IsFiniteSet(db.tables) /\ db.tables \subseteq Nat /\ \A c \in db.cols : c.t \in db.tables
         /\ \A c, d \in db.cols : Column(c) = Column(d) => c = d
  BY DEF IsDatabase, AreColumns, AreCons, AreIdx, ColumnFields, ConFields, IdxFields

\* A database from its parts.
LEMMA FromParts ==
  ASSUME NEW db, DOMAIN db = {"tables", "cols", "cons", "idx"},
         AreColumns(db.cols), AreCons(db.cons), AreIdx(db.idx),
         IsFiniteSet(db.tables), db.tables \subseteq Nat, \A c \in db.cols : c.t \in db.tables,
         \A c, d \in db.cols : Column(c) = Column(d) => c = d
  PROVE  IsDatabase(db)
  BY DEF IsDatabase, AreColumns, AreCons, AreIdx, ColumnFields, ConFields, IdxFields

\* A part of a set of columns, of keys, of indexes is such a set.
LEMMA SomeAre ==
  ASSUME NEW S, NEW T, T \subseteq S
  PROVE  /\ AreColumns(S) => AreColumns(T)
         /\ AreCons(S) => AreCons(T)
         /\ AreIdx(S) => AreIdx(T)
         /\ Listable(S) => Listable(T)
<1>1. IsFiniteSet(S) => IsFiniteSet(T)
  BY FS_Subset
<1> QED BY <1>1 DEF AreColumns, AreCons, AreIdx, Listable

\* So is a union of two.
LEMMA AllAre ==
  ASSUME NEW S, NEW T
  PROVE  /\ AreColumns(S) /\ AreColumns(T) => AreColumns(S \cup T)
         /\ AreCons(S) /\ AreCons(T) => AreCons(S \cup T)
         /\ AreIdx(S) /\ AreIdx(T) => AreIdx(S \cup T)
<1>1. IsFiniteSet(S) /\ IsFiniteSet(T) => IsFiniteSet(S \cup T)
  BY FS_Union
<1> QED BY <1>1 DEF AreColumns, AreCons, AreIdx

\* Each can be listed.
LEMMA AreListable ==
  ASSUME NEW S
  PROVE  AreColumns(S) \/ AreCons(S) \/ AreIdx(S) => Listable(S)
  BY DEF AreColumns, AreCons, AreIdx, Listable

\* A unique key has an index.
LEMMA PhysicalAre ==
  ASSUME NEW db, IsDatabase(db)
  PROVE  AreIdx(Physical(db))
<1> DEFINE U == Of("unique", db)
           f == [c \in U |-> [t |-> c.t, name |-> c.name, cols |-> c.cols]]
<1>1. AreCons(U)
  BY PartsOf, SomeAre DEF Of
<1> HIDE DEF U
<1>2. IsFiniteSet({f[c] : c \in U})
  <2>1. DOMAIN f = U /\ f = [c \in U |-> f[c]]
    OBVIOUS
  <2>2. IsFiniteSet(U)
    BY <1>1 DEF AreCons
  <2> HIDE DEF f
  <2> QED BY <2>1, <2>2, Made
<1>3. \A c \in U : DOMAIN f[c] = IdxFields /\ f[c].t \in Nat
  BY <1>1 DEF AreCons, IdxFields
<1> DEFINE I == {f[c] : c \in U}
<1>4. AreIdx(I)
  <2> HIDE DEF f
  <2> QED BY <1>2, <1>3 DEF AreIdx
<1>5. I = {[t |-> c.t, name |-> c.name, cols |-> c.cols] : c \in U}
  OBVIOUS
<1> HIDE DEF I
<1>6. AreIdx(db.idx \cup I)
  BY <1>4, PartsOf, AllAre
<1> QED BY <1>5, <1>6 DEF Physical, U

\* An inspector changes the indexes only.
LEMMA Inspected ==
  ASSUME NEW e, NEW db, IsDatabase(db)
  PROVE  /\ IsDatabase(Inspect(e, db))
         /\ Inspect(e, db).tables = db.tables
         /\ Inspect(e, db).cols = db.cols
         /\ Inspect(e, db).cons = db.cons
<1>1. AreIdx(Physical(db)) /\ AreIdx(NotOfAConstraint(db))
  BY PhysicalAre, SomeAre DEF NotOfAConstraint
<1>2. PICK I : AreIdx(I) /\ Inspect(e, db) = [db EXCEPT !.idx = I]
  BY <1>1 DEF Inspect, PgInspect, MysqlInspect, MssqlInspect
<1> DEFINE it == [db EXCEPT !.idx = I]
<1>3. /\ DOMAIN it = {"tables", "cols", "cons", "idx"} /\ it.tables = db.tables /\ it.cols = db.cols
      /\ it.cons = db.cons /\ it.idx = I
  BY DEF IsDatabase
<1> HIDE DEF it
<1>4. IsDatabase(it)
  BY <1>2, <1>3, PartsOf, FromParts
<1> QED BY <1>2, <1>3, <1>4 DEF it

DiffFieldNames == {"create", "drop", "cols", "addCon", "dropCon", "newIdx", "dropIdx"}
NewOf(s, d) ==
  {[t |-> t, cols |-> {c \in s.cols : c.t = t}, cons |-> {c \in s.cons : c.t = t}] : t \in s.tables \ d.tables}

\* On each engine a diff has the tables and the columns of one description; constraints and
\* indexes to add are the source's, those to drop the destination's.
IsDiff(df, s, d) ==
  /\ DOMAIN df = DiffFieldNames
  /\ df.create = NewOf(s, d)
  /\ df.drop = d.tables \ s.tables
  /\ df.cols = DiffColumns(s, d, s.tables \cap d.tables)
  /\ df.addCon \subseteq s.cons /\ df.dropCon \subseteq d.cons
  /\ df.newIdx \subseteq s.idx /\ df.dropIdx \subseteq d.idx
  /\ \A x \in df.dropCon : \A y \in s.cons : ConstraintKey(y) # ConstraintKey(x)
  /\ \A i \in df.dropIdx : \A j \in s.idx : IndexKey(j) # IndexKey(i)
  /\ \A y \in s.cons : y.t \in s.tables \cap d.tables =>
       y \in df.addCon \/ \E x \in d.cons : ConstraintKey(x) = ConstraintKey(y)

\* What the three diffs find.
LEMMA DiffHas ==
  ASSUME NEW e, NEW s, NEW d
  PROVE  IsDiff(Diff(e, s, d), s, d)
<1> DEFINE p == PgDiff(s, d)
           w == WithNewTables(p, s, s.tables \ d.tables)
<1>1. /\ DOMAIN p = DiffFieldNames
      /\ p.create = NewOf(s, d)
      /\ p.drop = d.tables \ s.tables
      /\ p.cols = DiffColumns(s, d, s.tables \cap d.tables)
      /\ p.addCon \subseteq s.cons /\ p.dropCon \subseteq d.cons
      /\ p.newIdx \subseteq s.idx /\ p.dropIdx \subseteq d.idx
      /\ \A x \in p.dropCon : \A y \in s.cons : ConstraintKey(y) # ConstraintKey(x)
      /\ \A i \in p.dropIdx : \A j \in s.idx : IndexKey(j) # IndexKey(i)
      /\ \A y \in s.cons : y.t \in s.tables \cap d.tables =>
           y \in p.addCon \/ \E x \in d.cons : ConstraintKey(x) = ConstraintKey(y)
  <2> DEFINE both == s.tables \cap d.tables
             A == Missing(s.cons, d.cons, both, ConstraintKey)
             B == Missing(d.cons, s.cons, both, ConstraintKey)
             C == Missing(s.idx, d.idx, both, IndexKey)
             D == Missing(d.idx, s.idx, both, IndexKey)
             cols == DiffColumns(s, d, both)
             new == NewOf(s, d)
             gone == d.tables \ s.tables
  <2>1. p = [create |-> new, drop |-> gone, cols |-> cols, addCon |-> A, dropCon |-> B, newIdx |-> C, dropIdx |-> D]
    BY DEF PgDiff, NewOf
  <2>2. /\ A \subseteq s.cons /\ B \subseteq d.cons /\ C \subseteq s.idx /\ D \subseteq d.idx
        /\ \A x \in B : \A y \in s.cons : ConstraintKey(y) # ConstraintKey(x)
        /\ \A i \in D : \A j \in s.idx : IndexKey(j) # IndexKey(i)
        /\ \A y \in s.cons : y.t \in both => y \in A \/ \E x \in d.cons : ConstraintKey(x) = ConstraintKey(y)
    BY DEF Missing
  <2> HIDE DEF p, A, B, C, D, cols, new, gone, both
  <2>3. DOMAIN p = DiffFieldNames /\ p.create = new /\ p.drop = gone /\ p.cols = cols
        /\ p.addCon = A /\ p.dropCon = B /\ p.newIdx = C /\ p.dropIdx = D
    BY <2>1 DEF DiffFieldNames
  <2> QED BY <2>2, <2>3 DEF cols, new, gone, both
<1> HIDE DEF p
<1>2. /\ DOMAIN w = DiffFieldNames /\ w.create = p.create /\ w.drop = p.drop /\ w.cols = p.cols
      /\ w.dropCon = p.dropCon /\ w.dropIdx = p.dropIdx
      /\ w.addCon \subseteq s.cons /\ w.newIdx \subseteq s.idx /\ p.addCon \subseteq w.addCon
  <2> DEFINE A == p.addCon \cup {c \in Of("fk", s) : c.t \in s.tables \ d.tables}
             C == p.newIdx \cup {i \in s.idx : i.t \in s.tables \ d.tables}
  <2>1. w = [p EXCEPT !.addCon = A, !.newIdx = C]
    BY DEF WithNewTables
  <2>2. A \subseteq s.cons /\ C \subseteq s.idx /\ p.addCon \subseteq A
    BY <1>1 DEF Of
  <2> HIDE DEF w, A, C
  <2>3. /\ DOMAIN w = DiffFieldNames /\ w.create = p.create /\ w.drop = p.drop /\ w.cols = p.cols
        /\ w.dropCon = p.dropCon /\ w.dropIdx = p.dropIdx /\ w.addCon = A /\ w.newIdx = C
    BY <1>1, <2>1 DEF DiffFieldNames
  <2> QED BY <2>2, <2>3
<1> HIDE DEF w
<1>3. Diff(e, s, d) = p \/ Diff(e, s, d) = w
  BY DEF Diff, MysqlDiff, MssqlDiff, p, w
<1>4. IsDiff(p, s, d) /\ IsDiff(w, s, d)
  BY <1>1, <1>2 DEF IsDiff
<1> QED BY <1>3, <1>4

-----------------------------------------------------------------------------
(***************************************************************************)
(* The difference in the destination's types.                              *)
(***************************************************************************)

TranslatedTable(tbl, from, to) ==
  [tbl EXCEPT !.cols = {Translate(c, from, to) : c \in CarryAutoIncrement(tbl, from, to)}]
TranslatedColumn(c, from, to) == Translate([c EXCEPT !.auto = @ /\ (from = to \/ to = "pg")], from, to)
Alteration(a, from, to) == [a EXCEPT !.to = TranslateType(from, to, @)]

\* A translated difference, part by part.
LEMMA TranslatedHas ==
  ASSUME NEW df, NEW from, NEW to, DOMAIN df = DiffFieldNames
  PROVE  LET td == TranslateDiff(df, from, to)
         IN  /\ DOMAIN td = DiffFieldNames
             /\ td.create = {TranslatedTable(tbl, from, to) : tbl \in df.create}
             /\ td.drop = df.drop
             /\ td.cols.add = {TranslatedColumn(c, from, to) : c \in df.cols.add}
             /\ td.cols.drop = df.cols.drop
             /\ td.cols.alter = {al \in {Alteration(a, from, to) : a \in df.cols.alter} :
                                   RealAlteration(al, from, to)}
             /\ td.addCon = df.addCon /\ td.dropCon = df.dropCon
             /\ td.newIdx = df.newIdx /\ td.dropIdx = df.dropIdx
<1> DEFINE new == {TranslatedTable(tbl, from, to) : tbl \in df.create}
           add == {TranslatedColumn(c, from, to) : c \in df.cols.add}
           alter == {al \in {Alteration(a, from, to) : a \in df.cols.alter} : RealAlteration(al, from, to)}
           cols == [add |-> add, drop |-> df.cols.drop, alter |-> alter]
           td == TranslateDiff(df, from, to)
<1>1. td = [df EXCEPT !.create = new, !.cols = cols]
  BY DEF TranslateDiff, TranslatedTable, TranslatedColumn, Alteration
<1>2. cols.add = add /\ cols.drop = df.cols.drop /\ cols.alter = alter
  OBVIOUS
<1> HIDE DEF td, new, cols, add, alter
<1>3. /\ DOMAIN td = DiffFieldNames /\ td.create = new /\ td.cols = cols /\ td.drop = df.drop
      /\ td.addCon = df.addCon /\ td.dropCon = df.dropCon /\ td.newIdx = df.newIdx /\ td.dropIdx = df.dropIdx
  BY <1>1 DEF DiffFieldNames
<1> QED BY <1>2, <1>3 DEF td, new, add, alter

\* A column as the destination will call it.
LEMMA ColumnTranslated ==
  ASSUME NEW c, DOMAIN c = ColumnFields, NEW from, NEW to
  PROVE  LET y == Translate(c, from, to)
         IN  DOMAIN y = ColumnFields /\ y.t = c.t /\ y.n = c.n /\ y.type = TranslateType(from, to, c.type)
<1> DEFINE k == TranslateType(from, to, c.type)
           y == Translate(c, from, to)
<1>1. y = [c EXCEPT !.type = k]
  BY DEF Translate
<1> HIDE DEF y, k
<1>2. DOMAIN y = ColumnFields /\ y.t = c.t /\ y.n = c.n /\ y.type = k
  BY <1>1 DEF ColumnFields
<1> QED BY <1>2 DEF y, k

\* A column to add, translated.
LEMMA AddedTranslated ==
  ASSUME NEW c, DOMAIN c = ColumnFields, NEW from, NEW to
  PROVE  LET y == TranslatedColumn(c, from, to)
         IN  DOMAIN y = ColumnFields /\ y.t = c.t /\ y.n = c.n /\ y.type = TranslateType(from, to, c.type)
<1> DEFINE b == c.auto /\ (from = to \/ to = "pg")
           d == [c EXCEPT !.auto = b]
<1>1. TranslatedColumn(c, from, to) = Translate(d, from, to)
  BY DEF TranslatedColumn
<1> HIDE DEF b
<1>2. DOMAIN d = ColumnFields /\ d.t = c.t /\ d.n = c.n /\ d.type = c.type
  BY DEF ColumnFields
<1> HIDE DEF d
<1> QED BY <1>1, <1>2, ColumnTranslated

\* The same columns, but for which of them number themselves.
Carried(A, S) ==
  /\ AreColumns(A)
  /\ \A c \in A : \E x \in S : Column(c) = Column(x) /\ c.t = x.t /\ c.type = x.type
  /\ (\A c, d \in S : Column(c) = Column(d) => c = d) => \A c, d \in A : Column(c) = Column(d) => c = d

\* A new table's columns keep their names whatever numbers itself.
LEMMA ColumnsCarried ==
  ASSUME NEW tbl, AreColumns(tbl.cols), NEW from, NEW to
  PROVE  Carried(CarryAutoIncrement(tbl, from, to), tbl.cols)
<1> DEFINE S == tbl.cols
           f == [c \in S |-> [c EXCEPT !.auto = @ /\ LeadsPrimaryKey(tbl, c)]]
           T == {f[c] : c \in S}
<1>1. IsFiniteSet(T)
  <2>1. DOMAIN f = S /\ f = [x \in S |-> f[x]] /\ IsFiniteSet(S)
    BY DEF AreColumns
  <2> HIDE DEF f, S
  <2> QED BY <2>1, Made
<1>2. ASSUME NEW c \in S
      PROVE  DOMAIN f[c] = ColumnFields /\ f[c].t \in Nat /\ Column(f[c]) = Column(c) /\ f[c].t = c.t /\ f[c].type = c.type
  <2> DEFINE b == c.auto /\ LeadsPrimaryKey(tbl, c)
             d == [c EXCEPT !.auto = b]
  <2>1. f[c] = d
    OBVIOUS
  <2> HIDE DEF b
  <2>2. DOMAIN d = ColumnFields /\ d.t = c.t /\ d.n = c.n /\ d.type = c.type /\ c.t \in Nat
    BY DEF AreColumns, ColumnFields
  <2> HIDE DEF d, f
  <2> QED BY <2>1, <2>2 DEF Column
<1> HIDE DEF f
<1>3. AreColumns(T) /\ \A c \in T : \E x \in S : Column(c) = Column(x) /\ c.t = x.t /\ c.type = x.type
  BY <1>1, <1>2 DEF AreColumns
<1>4. (\A c, d \in S : Column(c) = Column(d) => c = d) => \A c, d \in T : Column(c) = Column(d) => c = d
  <2>1. \A c \in S : Column(f[c]) = Column(c)
    BY <1>2
  <2> HIDE DEF S
  <2> QED BY <2>1
<1>5. CarryAutoIncrement(tbl, from, to) = T \/ CarryAutoIncrement(tbl, from, to) = S
  BY DEF CarryAutoIncrement, f
<1>6. \A c \in S : Column(c) = Column(c) /\ c.t = c.t /\ c.type = c.type
  OBVIOUS
<1> HIDE DEF T
<1>7. Carried(T, S) /\ Carried(S, S)
  BY <1>3, <1>4, <1>6 DEF Carried
<1> QED BY <1>5, <1>7

\* c is a column of the source, by the destination's name of its type, and the review
\* screen looks at its type.
Row(c) == [t |-> c.t, n |-> c.n, type |-> c.type]
OfSource(c, s, p, from, to) ==
  \E x \in s.cols : Column(c) = Column(x) /\ c.type = TranslateType(from, to, x.type) /\ Row(x) \in Considered(p)
One(S) == \A c, d \in S : Column(c) = Column(d) => c = d

\* The columns of a new table.
LEMMA NewTableHas ==
  ASSUME NEW s, IsDatabase(s), NEW t \in s.tables, NEW from, NEW to,
         NEW raw, raw = [t |-> t, cols |-> {c \in s.cols : c.t = t}, cons |-> {c \in s.cons : c.t = t}]
  PROVE  LET tbl == TranslatedTable(raw, from, to)
         IN  /\ DOMAIN tbl = {"t", "cols", "cons"} /\ tbl.t = t
             /\ AreColumns(tbl.cols) /\ AreCons(tbl.cons) /\ One(tbl.cols)
             /\ \A c \in tbl.cols : c.t = t /\ \E x \in raw.cols : /\ x \in s.cols /\ Column(c) = Column(x)
                                                            /\ c.type = TranslateType(from, to, x.type)
<1> DEFINE tbl == TranslatedTable(raw, from, to)
           S == {c \in s.cols : c.t = t}
           K == {c \in s.cons : c.t = t}
           A == CarryAutoIncrement(raw, from, to)
           f == [c \in A |-> Translate(c, from, to)]
           T == {f[c] : c \in A}
<1>1. AreColumns(S) /\ AreCons(K) /\ One(S)
  BY PartsOf, SomeAre DEF One
<1> HIDE DEF K
<1>2. DOMAIN raw = {"t", "cols", "cons"} /\ raw.t = t /\ raw.cols = S /\ raw.cons = K
  BY DEF K
<1>3. tbl = [raw EXCEPT !.cols = T]
  BY DEF TranslatedTable
<1>4. AreColumns(A) /\ One(A)
      /\ \A c \in A : \E x \in S : Column(c) = Column(x) /\ c.t = x.t /\ c.type = x.type
  <2>1. AreColumns(raw.cols) /\ \A c, d \in raw.cols : Column(c) = Column(d) => c = d
    BY <1>1, <1>2 DEF One
  <2>2. Carried(A, raw.cols)
    BY <2>1, ColumnsCarried
  <2> HIDE DEF A, S
  <2> QED BY <1>2, <2>1, <2>2 DEF One, Carried
<1> HIDE DEF A
<1>5. ASSUME NEW c \in A
      PROVE  /\ DOMAIN f[c] = ColumnFields /\ f[c].t = c.t /\ f[c].t \in Nat /\ Column(f[c]) = Column(c)
             /\ f[c].type = TranslateType(from, to, c.type)
  <2>1. DOMAIN c = ColumnFields /\ c.t \in Nat
    BY <1>4 DEF AreColumns
  <2>2. f[c] = Translate(c, from, to)
    OBVIOUS
  <2> HIDE DEF f
  <2>3. DOMAIN f[c] = ColumnFields /\ f[c].t = c.t /\ f[c].n = c.n /\ f[c].type = TranslateType(from, to, c.type)
    BY <2>1, <2>2, ColumnTranslated
  <2> QED BY <2>1, <2>3 DEF Column
<1>6. IsFiniteSet(T)
  <2>1. DOMAIN f = A /\ f = [x \in A |-> f[x]] /\ IsFiniteSet(A)
    BY <1>4 DEF AreColumns
  <2> HIDE DEF f
  <2> QED BY <2>1, Made
<1> HIDE DEF f
<1>7. AreColumns(T)
  BY <1>5, <1>6 DEF AreColumns
<1>8. One(T)
  BY <1>4, <1>5 DEF One
<1>9. ASSUME NEW c \in T
      PROVE  c.t = t /\ \E x \in S : /\ x \in s.cols /\ Column(c) = Column(x)
                                   /\ c.type = TranslateType(from, to, x.type)
  <2>1. PICK a \in A : c = f[a]
    OBVIOUS
  <2>2. PICK x \in S : Column(a) = Column(x) /\ a.t = x.t /\ a.type = x.type
    BY <1>4
  <2>3. Column(c) = Column(a) /\ c.t = a.t /\ c.type = TranslateType(from, to, a.type)
    BY <1>5, <2>1
  <2>4. x \in s.cols /\ x.t = t
    OBVIOUS
  <2> QED BY <2>2, <2>3, <2>4
<1> HIDE DEF tbl, T, S
<1>10. DOMAIN tbl = {"t", "cols", "cons"} /\ tbl.t = t /\ tbl.cols = T /\ tbl.cons = K
  BY <1>2, <1>3
<1> QED BY <1>1, <1>2, <1>7, <1>8, <1>9, <1>10 DEF tbl

\* What a run means to do.
Meant(s, d, from, to) == TranslateDiff(Diff(to, s, d), from, to)

AreTables(S) ==
  /\ IsFiniteSet(S)
  /\ \A tbl \in S : /\ DOMAIN tbl = {"t", "cols", "cons"} /\ tbl.t \in Nat
                    /\ AreColumns(tbl.cols) /\ AreCons(tbl.cons) /\ One(tbl.cols)
                    /\ \A c \in tbl.cols : c.t = tbl.t

\* The tables to create are those the destination lacks, with the source's columns.
LEMMA NewTablesMeant ==
  ASSUME NEW s, NEW d, IsDatabase(s), IsDatabase(d), NEW from, NEW to
  PROVE  LET m == Meant(s, d, from, to)
         IN  /\ AreTables(m.create)
             /\ {tbl.t : tbl \in m.create} = s.tables \ d.tables
             /\ \A a, b \in m.create : a.t = b.t => a = b
             /\ \A tbl \in m.create : \A c \in tbl.cols : OfSource(c, s, Diff(to, s, d), from, to)
<1> DEFINE p == Diff(to, s, d)
           m == Meant(s, d, from, to)
           T == s.tables \ d.tables
           raw(t) == [t |-> t, cols |-> {c \in s.cols : c.t = t}, cons |-> {c \in s.cons : c.t = t}]
           f == [t \in T |-> TranslatedTable(raw(t), from, to)]
<1>1. p.create = NewOf(s, d) /\ DOMAIN p = DiffFieldNames
  <2>1. IsDiff(p, s, d)
    BY DiffHas
  <2> HIDE DEF p
  <2> QED BY <2>1 DEF IsDiff
<1>2. m.create = {TranslatedTable(tbl, from, to) : tbl \in NewOf(s, d)}
  <2> HIDE DEF p
  <2> QED BY <1>1, TranslatedHas DEF Meant, p
<1>3. NewOf(s, d) = {raw(t) : t \in T}
  BY DEF NewOf
<1>4. m.create = {f[t] : t \in T}
  <2> HIDE DEF m, raw
  <2> QED BY <1>2, <1>3
<1>5. IsFiniteSet(m.create)
  <2>1. DOMAIN f = T /\ f = [t \in T |-> f[t]]
    OBVIOUS
  <2>2. IsFiniteSet(T)
    BY FS_Subset, PartsOf
  <2> HIDE DEF f, m, T
  <2> QED BY <1>4, <2>1, <2>2, Made
<1>6. ASSUME NEW t \in T
      PROVE  /\ DOMAIN f[t] = {"t", "cols", "cons"} /\ f[t].t = t /\ t \in Nat
             /\ AreColumns(f[t].cols) /\ AreCons(f[t].cons) /\ One(f[t].cols)
             /\ \A c \in f[t].cols : c.t = t /\ OfSource(c, s, p, from, to)
  <2> DEFINE r == raw(t)
             tbl == TranslatedTable(r, from, to)
  <2>1. f[t] = tbl /\ t \in s.tables /\ t \in Nat
    BY PartsOf
  <2>2. r = [t |-> t, cols |-> {c \in s.cols : c.t = t}, cons |-> {c \in s.cons : c.t = t}]
    OBVIOUS
  <2>3. r \in p.create
    <3> HIDE DEF p, raw
    <3> QED BY <1>1, <1>3
  <2> HIDE DEF r, f
  <2>4. /\ DOMAIN tbl = {"t", "cols", "cons"} /\ tbl.t = t
        /\ AreColumns(tbl.cols) /\ AreCons(tbl.cons) /\ One(tbl.cols)
        /\ \A c \in tbl.cols : c.t = t /\ \E x \in r.cols : /\ x \in s.cols /\ Column(c) = Column(x)
                                                       /\ c.type = TranslateType(from, to, x.type)
    BY <2>1, <2>2, NewTableHas
  <2> HIDE DEF tbl, p
  <2>5. \A x \in r.cols : Row(x) \in Considered(p)
    BY <2>3 DEF Considered, NewColumns, Row
  <2>6. \A c \in tbl.cols : OfSource(c, s, p, from, to)
    BY <2>4, <2>5 DEF OfSource
  <2> QED BY <2>1, <2>4, <2>6
<1> HIDE DEF f, m, p
<1>7. AreTables(m.create)
  <2>1. \A tbl \in m.create : \E t \in T : tbl = f[t]
    BY <1>4
  <2>2. ASSUME NEW tbl \in m.create
        PROVE  /\ DOMAIN tbl = {"t", "cols", "cons"} /\ tbl.t \in Nat
               /\ AreColumns(tbl.cols) /\ AreCons(tbl.cons) /\ One(tbl.cols)
               /\ \A c \in tbl.cols : c.t = tbl.t
    <3>1. PICK t \in T : tbl = f[t]
      BY <2>1
    <3> QED BY <1>6, <3>1
  <2> QED BY <1>5, <2>2 DEF AreTables
<1>8. {tbl.t : tbl \in m.create} = T
  BY <1>4, <1>6
<1>9. \A a, b \in m.create : a.t = b.t => a = b
  BY <1>4, <1>6
<1>10. \A tbl \in m.create : \A c \in tbl.cols : OfSource(c, s, p, from, to)
  BY <1>4, <1>6
<1> QED BY <1>7, <1>8, <1>9, <1>10 DEF m, p

\* The columns to add are the source's, and the destination has none of their names.
LEMMA NewColumnsMeant ==
  ASSUME NEW s, NEW d, IsDatabase(s), IsDatabase(d), NEW from, NEW to
  PROVE  LET m == Meant(s, d, from, to)
         IN  /\ AreColumns(m.cols.add) /\ One(m.cols.add)
             /\ \A c \in m.cols.add : /\ c.t \in s.tables \cap d.tables
                                      /\ \A y \in d.cols : Column(y) # Column(c)
                                      /\ OfSource(c, s, Diff(to, s, d), from, to)
<1> DEFINE p == Diff(to, s, d)
           m == Meant(s, d, from, to)
           T == s.tables \cap d.tables
           A == Missing(s.cols, d.cols, T, Column)
           f == [c \in A |-> TranslatedColumn(c, from, to)]
<1>1. p.cols = DiffColumns(s, d, T) /\ DOMAIN p = DiffFieldNames
  BY DiffHas DEF IsDiff
<1>2. p.cols.add = A
  BY <1>1 DEF DiffColumns
<1>3. m.cols.add = {TranslatedColumn(c, from, to) : c \in A}
  <2> HIDE DEF p, A
  <2> QED BY <1>1, <1>2, TranslatedHas DEF Meant, p
<1>4. A \subseteq s.cols /\ AreColumns(A) /\ One(A)
      /\ \A c \in A : c.t \in T /\ \A y \in d.cols : Column(y) # Column(c)
  <2>1. A \subseteq s.cols /\ \A c \in A : c.t \in T /\ \A y \in d.cols : Column(y) # Column(c)
    BY DEF Missing
  <2> HIDE DEF A
  <2> QED BY <2>1, PartsOf, SomeAre DEF One
<1> HIDE DEF A
<1>5. m.cols.add = {f[c] : c \in A}
  BY <1>3
<1>6. IsFiniteSet(m.cols.add)
  <2>1. DOMAIN f = A /\ f = [c \in A |-> f[c]] /\ IsFiniteSet(A)
    BY <1>4 DEF AreColumns
  <2> HIDE DEF f, m
  <2> QED BY <1>5, <2>1, Made
<1>7. ASSUME NEW c \in A
      PROVE  /\ DOMAIN f[c] = ColumnFields /\ f[c].t \in Nat /\ Column(f[c]) = Column(c) /\ f[c].t = c.t
             /\ OfSource(f[c], s, p, from, to)
  <2>1. DOMAIN c = ColumnFields /\ c.t \in Nat /\ c \in s.cols
    BY <1>4 DEF AreColumns
  <2>2. f[c] = TranslatedColumn(c, from, to)
    OBVIOUS
  <2> HIDE DEF f, p
  <2>3. DOMAIN f[c] = ColumnFields /\ f[c].t = c.t /\ f[c].n = c.n /\ f[c].type = TranslateType(from, to, c.type)
    BY <2>1, <2>2, AddedTranslated
  <2>4. Row(c) \in Considered(p)
    BY <1>2 DEF Considered, NewColumns, Row
  <2>5. Column(f[c]) = Column(c)
    BY <2>3 DEF Column
  <2> QED BY <2>1, <2>3, <2>4, <2>5 DEF OfSource
<1> HIDE DEF f, m, p
<1>8. AreColumns(m.cols.add)
  BY <1>5, <1>6, <1>7 DEF AreColumns
<1>9. One(m.cols.add)
  BY <1>4, <1>5, <1>7 DEF One
<1>10. \A c \in m.cols.add : /\ c.t \in T /\ \A y \in d.cols : Column(y) # Column(c)
                             /\ OfSource(c, s, p, from, to)
  BY <1>4, <1>5, <1>7
<1> QED BY <1>8, <1>9, <1>10 DEF m, p

\* An alteration gives a column both have the type of the source's.
Alters(al, s, d, p, from, to) ==
  /\ DOMAIN al = {"t", "n", "to", "from"} /\ al.t \in Nat
  /\ \E x \in s.cols, y \in d.cols :
       /\ Column(x) = Column(al) /\ Column(y) = Column(al) /\ x.type # y.type
       /\ al.to = TranslateType(from, to, x.type) /\ Row(x) \in Considered(p)

\* A column both have is altered when its type differs, unless the engines spell it alike.
LEMMA AlterationsMeant ==
  ASSUME NEW s, NEW d, IsDatabase(s), IsDatabase(d), NEW from, NEW to
  PROVE  LET m == Meant(s, d, from, to)
             p == Diff(to, s, d)
         IN  /\ IsFiniteSet(m.cols.alter)
             /\ \A al \in m.cols.alter : Alters(al, s, d, p, from, to)
             /\ \A x \in s.cols, y \in d.cols :
                  Column(x) = Column(y) /\ x.type # y.type =>
                    /\ Row(x) \in Considered(p)
                    /\ TranslateType(from, to, x.type) = x.type =>
                         \E al \in m.cols.alter : Column(al) = Column(x) /\ al.to = x.type
<1> DEFINE p == Diff(to, s, d)
           m == Meant(s, d, from, to)
           T == s.tables \cap d.tables
           Q == {q \in s.cols \X d.cols : /\ q[1].t \in T /\ Column(q[1]) = Column(q[2])
                                         /\ q[1].type # q[2].type}
           f == [q \in Q |-> [t |-> q[1].t, n |-> q[1].n, to |-> q[1].type, from |-> q[2].type]]
           A == p.cols.alter
           g == [a \in A |-> Alteration(a, from, to)]
           B == {g[a] : a \in A}
<1>1. p.cols = DiffColumns(s, d, T) /\ DOMAIN p = DiffFieldNames
  <2>1. IsDiff(p, s, d)
    BY DiffHas
  <2> HIDE DEF p
  <2> QED BY <2>1 DEF IsDiff
<1>2. A = {f[q] : q \in Q}
  <2> DEFINE S == {[t |-> q[1].t, n |-> q[1].n, to |-> q[1].type, from |-> q[2].type] : q \in Q}
             add == Missing(s.cols, d.cols, T, Column)
             drop == Missing(d.cols, s.cols, T, Column)
  <2>1. p.cols = [add |-> add, drop |-> drop, alter |-> S]
    BY <1>1 DEF DiffColumns
  <2>2. S = {f[q] : q \in Q}
    <3> HIDE DEF Q
    <3> QED OBVIOUS
  <2> HIDE DEF S, p, add, drop
  <2>3. p.cols.alter = S
    BY <2>1
  <2> QED BY <2>2, <2>3
<1>3. m.cols.alter = {al \in B : RealAlteration(al, from, to)}
  <2>1. B = {Alteration(a, from, to) : a \in p.cols.alter}
    OBVIOUS
  <2> HIDE DEF p, B
  <2> QED BY <1>1, <2>1, TranslatedHas DEF Meant, p
<1>4. \A q \in Q : q \in s.cols \X d.cols
  OBVIOUS
<1>5. IsFiniteSet(Q)
  <2>1. IsFiniteSet(s.cols) /\ IsFiniteSet(d.cols)
    BY PartsOf DEF AreColumns
  <2>2. IsFiniteSet(s.cols \X d.cols)
    BY <2>1, FS_Product
  <2>3. Q \subseteq s.cols \X d.cols
    OBVIOUS
  <2> HIDE DEF Q
  <2> QED BY <2>2, <2>3, FS_Subset
<1>6. IsFiniteSet(A)
  <2>1. DOMAIN f = Q /\ f = [q \in Q |-> f[q]]
    OBVIOUS
  <2> HIDE DEF f, Q, A
  <2> QED BY <1>2, <1>5, <2>1, Made
<1>7. IsFiniteSet(m.cols.alter)
  <2>1. DOMAIN g = A /\ g = [a \in A |-> g[a]]
    OBVIOUS
  <2>2. IsFiniteSet(B)
    <3> HIDE DEF g, A
    <3> QED BY <1>6, <2>1, Made
  <2> HIDE DEF B
  <2> QED BY <1>3, <2>2, FS_Subset
<1>8. ASSUME NEW x \in s.cols, NEW y \in d.cols, x.t \in T, Column(x) = Column(y), x.type # y.type,
             NEW a, a = f[<<x, y>>]
      PROVE  /\ a \in A /\ DOMAIN a = {"t", "n", "to", "from"} /\ a.t = x.t /\ a.n = x.n
             /\ a.to = x.type /\ a.from = y.type /\ Row(x) \in Considered(p)
             /\ DOMAIN g[a] = {"t", "n", "to", "from"} /\ g[a].t = x.t /\ g[a].n = x.n
             /\ g[a].to = TranslateType(from, to, x.type) /\ g[a].from = y.type
  <2>1. <<x, y>> \in Q
    BY <1>8
  <2>2. a = [t |-> x.t, n |-> x.n, to |-> x.type, from |-> y.type]
    BY <1>8, <2>1
  <2>3. a \in A
    <3> HIDE DEF A, Q, f
    <3> QED BY <1>2, <1>8, <2>1
  <2> HIDE DEF A, f, Q
  <2>4. DOMAIN a = {"t", "n", "to", "from"} /\ a.t = x.t /\ a.n = x.n /\ a.to = x.type /\ a.from = y.type
    BY <2>2
  <2>5. Row(x) \in Considered(p)
    <3>1. Row(x) = [t |-> a.t, n |-> a.n, type |-> a.to]
      BY <2>4 DEF Row
    <3> QED BY <2>3, <3>1 DEF Considered, A
  <2> DEFINE k == TranslateType(from, to, a.to)
             b == [a EXCEPT !.to = k]
  <2>6. g[a] = b
    BY <2>3 DEF Alteration
  <2> HIDE DEF k, g
  <2>7. DOMAIN b = {"t", "n", "to", "from"} /\ b.t = x.t /\ b.n = x.n /\ b.to = k /\ b.from = y.type
    BY <2>4
  <2> HIDE DEF b
  <2>8. k = TranslateType(from, to, x.type)
    BY <2>4 DEF k
  <2> QED BY <2>3, <2>4, <2>5, <2>6, <2>7, <2>8
<1>9. ASSUME NEW al \in m.cols.alter
      PROVE  Alters(al, s, d, p, from, to)
  <2>1. PICK a \in A : al = g[a]
    <3> HIDE DEF A, g, m
    <3> QED BY <1>3
  <2>2. PICK q \in Q : a = f[q]
    <3> HIDE DEF A, g, m, f, Q
    <3> QED BY <1>2
  <2>3. PICK x \in s.cols, y \in d.cols : q = <<x, y>>
    BY <1>4
  <2>4. x.t \in T /\ Column(x) = Column(y) /\ x.type # y.type
    BY <2>3
  <2> HIDE DEF A, g, m, f, Q, p, T
  <2>5. /\ DOMAIN al = {"t", "n", "to", "from"} /\ al.t = x.t /\ al.n = x.n
        /\ al.to = TranslateType(from, to, x.type) /\ Row(x) \in Considered(p)
    BY <1>8, <2>1, <2>2, <2>3, <2>4
  <2>6. x.t \in Nat
    BY PartsOf DEF AreColumns
  <2>7. Column(x) = Column(al)
    BY <2>5 DEF Column
  <2> QED BY <2>4, <2>5, <2>6, <2>7 DEF Alters
<1>10. ASSUME NEW x \in s.cols, NEW y \in d.cols, Column(x) = Column(y), x.type # y.type
       PROVE  /\ Row(x) \in Considered(p)
              /\ TranslateType(from, to, x.type) = x.type =>
                   \E al \in m.cols.alter : Column(al) = Column(x) /\ al.to = x.type
  <2>1. x.t \in T
    BY <1>10, PartsOf DEF Column
  <2> DEFINE a == f[<<x, y>>]
             al == g[a]
  <2> HIDE DEF T, A, a, g, f, Q, p, m, B
  <2>2. /\ a \in A /\ Row(x) \in Considered(p) /\ al.t = x.t /\ al.n = x.n
        /\ al.to = TranslateType(from, to, x.type) /\ al.from = y.type
    BY <1>8, <1>10, <2>1 DEF a
  <2>3. Column(al) = Column(x)
    BY <2>2 DEF Column
  <2>4. al \in B
    BY <2>2 DEF B
  <2>5. ASSUME TranslateType(from, to, x.type) = x.type PROVE al \in m.cols.alter /\ al.to = x.type
    <3>1. al.to # al.from /\ al.to = x.type
      BY <1>10, <2>2, <2>5
    <3> HIDE DEF al
    <3> QED BY <1>3, <2>4, <3>1 DEF RealAlteration
  <2> QED BY <2>2, <2>3, <2>5
<1> HIDE DEF p, m
<1>11. /\ IsFiniteSet(m.cols.alter)
       /\ \A al \in m.cols.alter : Alters(al, s, d, p, from, to)
       /\ \A x \in s.cols, y \in d.cols :
                  Column(x) = Column(y) /\ x.type # y.type =>
                    /\ Row(x) \in Considered(p)
                    /\ TranslateType(from, to, x.type) = x.type =>
                         \E al \in m.cols.alter : Column(al) = Column(x) /\ al.to = x.type
  BY <1>7, <1>9, <1>10
<1> QED BY <1>11 DEF p, m

\* What goes, and what is known of the keys and the indexes.
RestOf(m, s, d) ==
  /\ DOMAIN m = DiffFieldNames
  /\ IsFiniteSet(m.drop) /\ m.drop = d.tables \ s.tables /\ m.drop \subseteq Nat
  /\ AreColumns(m.cols.drop) /\ \A c \in m.cols.drop : \A x \in s.cols : Column(x) # Column(c)
  /\ AreCons(m.addCon) /\ AreCons(m.dropCon) /\ AreIdx(m.newIdx) /\ AreIdx(m.dropIdx)

\* What is to be dropped the source does not have.
LEMMA RestMeant ==
  ASSUME NEW s, NEW d, IsDatabase(s), IsDatabase(d), NEW from, NEW to
  PROVE  RestOf(Meant(s, d, from, to), s, d)
<1> DEFINE p == Diff(to, s, d)
           m == Meant(s, d, from, to)
           T == s.tables \cap d.tables
           D == Missing(d.cols, s.cols, T, Column)
<1>1. IsDiff(p, s, d)
  BY DiffHas
<1> HIDE DEF p
<1>2. p.cols.drop = D
  BY <1>1 DEF IsDiff, DiffColumns
<1>3. /\ DOMAIN m = DiffFieldNames /\ m.drop = p.drop /\ m.cols.drop = p.cols.drop
      /\ m.addCon = p.addCon /\ m.dropCon = p.dropCon /\ m.newIdx = p.newIdx /\ m.dropIdx = p.dropIdx
  BY <1>1, TranslatedHas DEF IsDiff, Meant, p
<1>4. D \subseteq d.cols /\ \A c \in D : \A x \in s.cols : Column(x) # Column(c)
  BY DEF Missing
<1> HIDE DEF D, m
<1>5. AreColumns(D)
  BY <1>4, PartsOf, SomeAre
<1>6. /\ p.addCon \subseteq s.cons /\ p.dropCon \subseteq d.cons /\ p.newIdx \subseteq s.idx
      /\ p.dropIdx \subseteq d.idx /\ p.drop = d.tables \ s.tables
  BY <1>1 DEF IsDiff
<1>7. AreCons(p.addCon) /\ AreCons(p.dropCon) /\ AreIdx(p.newIdx) /\ AreIdx(p.dropIdx)
  BY <1>6, PartsOf, SomeAre
<1>8. IsFiniteSet(d.tables \ s.tables) /\ d.tables \ s.tables \subseteq Nat
  BY PartsOf, FS_Subset
<1>9. RestOf(m, s, d)
  BY <1>2, <1>3, <1>4, <1>5, <1>6, <1>7, <1>8 DEF RestOf
<1> QED BY <1>9 DEF m

-----------------------------------------------------------------------------
(***************************************************************************)
(* The statements a run decides on.                                        *)
(***************************************************************************)

\* A difference that can be listed.
Proper(df) ==
  /\ DOMAIN df = DiffFieldNames /\ AreTables(df.create)
  /\ IsFiniteSet(df.drop) /\ df.drop \subseteq Nat
  /\ AreColumns(df.cols.add) /\ AreColumns(df.cols.drop) /\ Listable(df.cols.alter)
  /\ AreCons(df.addCon) /\ AreCons(df.dropCon) /\ AreIdx(df.newIdx) /\ AreIdx(df.dropIdx)

\* A difference has sets that can be listed.
LEMMA MeantIsProper ==
  ASSUME NEW s, NEW d, IsDatabase(s), IsDatabase(d), NEW from, NEW to
  PROVE  Proper(Meant(s, d, from, to))
<1> DEFINE m == Meant(s, d, from, to)
<1>1. RestOf(m, s, d)
  BY RestMeant
<1>2. AreTables(m.create) /\ AreColumns(m.cols.add)
  BY NewTablesMeant, NewColumnsMeant
<1>3. Listable(m.cols.alter)
  <2>1. IsFiniteSet(m.cols.alter) /\ \A al \in m.cols.alter : Alters(al, s, d, Diff(to, s, d), from, to)
    BY AlterationsMeant
  <2> HIDE DEF m
  <2> QED BY <2>1 DEF Listable, Alters
<1> HIDE DEF m
<1>4. Proper(m)
  BY <1>1, <1>2, <1>3 DEF Proper, RestOf
<1> QED BY <1>4 DEF m

\* The same tables with the same columns, whatever their keys.
Outlined(S, R) ==
  /\ AreTables(S)
  /\ \A u \in S : \E tbl \in R : u.t = tbl.t /\ u.cols = tbl.cols
  /\ \A tbl \in R : \E u \in S : u.t = tbl.t /\ u.cols = tbl.cols

\* New tables with other keys are outlined alike.
LEMMA KeysReplaced ==
  ASSUME NEW R, AreTables(R), NEW k, \A tbl \in R : AreCons(k[tbl])
  PROVE  Outlined({[tbl EXCEPT !.cons = k[tbl]] : tbl \in R}, R)
<1> DEFINE f == [tbl \in R |-> [tbl EXCEPT !.cons = k[tbl]]]
           S == {f[tbl] : tbl \in R}
<1>1. ASSUME NEW tbl \in R
      PROVE  DOMAIN f[tbl] = {"t", "cols", "cons"} /\ f[tbl].t = tbl.t /\ f[tbl].cols = tbl.cols /\ f[tbl].cons = k[tbl]
  <2> DEFINE u == [tbl EXCEPT !.cons = k[tbl]]
  <2>1. DOMAIN tbl = {"t", "cols", "cons"} /\ f[tbl] = u
    BY DEF AreTables
  <2>2. DOMAIN u = {"t", "cols", "cons"} /\ u.t = tbl.t /\ u.cols = tbl.cols /\ u.cons = k[tbl]
    BY <2>1
  <2> HIDE DEF u, f
  <2> QED BY <2>1, <2>2
<1>2. IsFiniteSet(S)
  <2>1. DOMAIN f = R /\ f = [tbl \in R |-> f[tbl]] /\ IsFiniteSet(R)
    BY DEF AreTables
  <2> HIDE DEF f
  <2> QED BY <2>1, Made
<1>3. S = {[tbl EXCEPT !.cons = k[tbl]] : tbl \in R}
  OBVIOUS
<1> HIDE DEF f
<1>4. ASSUME NEW u \in S
      PROVE  /\ DOMAIN u = {"t", "cols", "cons"} /\ u.t \in Nat
             /\ AreColumns(u.cols) /\ AreCons(u.cons) /\ One(u.cols)
             /\ \A c \in u.cols : c.t = u.t
             /\ \E tbl \in R : u.t = tbl.t /\ u.cols = tbl.cols
  <2>1. PICK tbl \in R : u = f[tbl]
    OBVIOUS
  <2>2. DOMAIN u = {"t", "cols", "cons"} /\ u.t = tbl.t /\ u.cols = tbl.cols /\ AreCons(u.cons)
    BY <1>1, <2>1
  <2>3. tbl.t \in Nat /\ AreColumns(tbl.cols) /\ One(tbl.cols) /\ \A c \in tbl.cols : c.t = tbl.t
    BY DEF AreTables
  <2> QED BY <2>2, <2>3
<1>5. \A tbl \in R : \E u \in S : u.t = tbl.t /\ u.cols = tbl.cols
  BY <1>1
<1> HIDE DEF S
<1>6. AreTables(S)
  BY <1>2, <1>4 DEF AreTables
<1>7. Outlined(S, R)
  BY <1>4, <1>5, <1>6 DEF Outlined
<1> QED BY <1>3, <1>7

\* Renamed keys are keys.
LEMMA ConsRenamed ==
  ASSUME NEW S, AreCons(S)
  PROVE  AreCons({PgName(c) : c \in S})
<1> DEFINE f == [c \in S |-> PgName(c)]
           T == {f[c] : c \in S}
<1>1. \A c \in S : DOMAIN f[c] = ConFields /\ f[c].t = c.t
  <2> SUFFICES ASSUME NEW c \in S PROVE DOMAIN PgName(c) = ConFields /\ PgName(c).t = c.t
    OBVIOUS
  <2>1. DOMAIN c = ConFields
    BY DEF AreCons
  <2> DEFINE name == <<"pkey", c.t>>
             d == [c EXCEPT !.name = name]
  <2> HIDE DEF name
  <2>2. DOMAIN d = ConFields /\ d.t = c.t
    BY <2>1 DEF ConFields
  <2>3. PgName(c) = d \/ PgName(c) = c
    BY DEF PgName, name
  <2> QED BY <2>1, <2>2, <2>3
<1>2. IsFiniteSet(T)
  <2>1. DOMAIN f = S /\ f = [c \in S |-> f[c]] /\ IsFiniteSet(S)
    BY DEF AreCons
  <2> HIDE DEF f
  <2> QED BY <2>1, Made
<1>3. T = {PgName(c) : c \in S}
  OBVIOUS
<1> HIDE DEF f
<1>4. AreCons(T)
  BY <1>1, <1>2 DEF AreCons
<1> QED BY <1>3, <1>4

\* PG's names change no table, column or index.
LEMMA PgNamesHas ==
  ASSUME NEW df, Proper(df)
  PROVE  LET n == PgNames(df)
         IN  /\ Outlined(n.create, df.create)
             /\ n.drop = df.drop /\ n.cols = df.cols /\ AreCons(n.addCon)
<1> DEFINE n == PgNames(df)
           k == [tbl \in df.create |-> {PgName(c) : c \in tbl.cons}]
           new == {[tbl EXCEPT !.cons = k[tbl]] : tbl \in df.create}
           keys == {PgName(c) : c \in df.addCon}
           R == {[tbl EXCEPT !.cons = {PgName(c) : c \in @}] : tbl \in df.create}
<1>1. \A tbl \in df.create : AreCons(k[tbl])
  <2> SUFFICES ASSUME NEW tbl \in df.create PROVE AreCons({PgName(c) : c \in tbl.cons})
    OBVIOUS
  <2>1. AreCons(tbl.cons)
    BY DEF Proper, AreTables
  <2> QED BY <2>1, ConsRenamed
<1>2. new = R
  OBVIOUS
<1>3. Outlined(new, df.create)
  <2>1. AreTables(df.create)
    BY DEF Proper
  <2> HIDE DEF k
  <2> QED BY <1>1, <2>1, KeysReplaced
<1>4. AreCons(keys)
  BY ConsRenamed DEF Proper
<1>5. n = [df EXCEPT !.create = R, !.addCon = keys]
  BY DEF PgNames
<1> HIDE DEF n, new, keys, R
<1>6. n.create = R /\ n.addCon = keys /\ n.drop = df.drop /\ n.cols = df.cols
  BY <1>5 DEF Proper, DiffFieldNames
<1>7. Outlined(n.create, df.create) /\ n.drop = df.drop /\ n.cols = df.cols /\ AreCons(n.addCon)
  BY <1>2, <1>3, <1>4, <1>6
<1> QED BY <1>7 DEF n

\* A statement that is part of a difference.
Means(st, df) ==
  \/ /\ st.op = "create_table" /\ st.spare = "no" /\ AreCons(st.of.cons)
     /\ \E tbl \in df.create : st.of.t = tbl.t /\ st.of.cols = tbl.cols
  \/ st.op = "add_column" /\ st.of \in df.cols.add
  \/ st.op = "alter_column" /\ st.spare = "no" /\ st.of \in df.cols.alter
  \/ st.op = "drop_column" /\ st.of \in df.cols.drop
  \/ st.op = "drop_table" /\ st.of.t \in df.drop
  \/ st.op = "add_constraint" /\ AreCons({st.of})
  \/ st.op = "create_index" /\ AreIdx({st.of})
  \/ st.op \in {"drop_constraint", "drop_index", "drop_index_if_exists"}

Tells(list, df) == IsList(list) /\ \A st \in Said(list) : Means(st, df)

\* What must not be left out.
Needed(list, df) ==
  /\ \A tbl \in df.create : \E st \in Said(list) : st.op = "create_table" /\ st.of.t = tbl.t
  /\ \A al \in df.cols.alter : \E st \in Said(list) : st.op = "alter_column" /\ st.of = al

\* Two lists that say what the difference means, one after the other.
LEMMA BothTell ==
  ASSUME NEW a, NEW b, NEW df, Tells(a, df), Tells(b, df)
  PROVE  /\ Tells(a \o b, df)
         /\ Said(a) \subseteq Said(a \o b) /\ Said(b) \subseteq Said(a \o b)
<1>1. IsList(a \o b) /\ Said(a \o b) = Said(a) \cup Said(b)
  BY BothSaid DEF Tells
<1> QED BY <1>1 DEF Tells

\* Statements of one kind.
LEMMA EachTells ==
  ASSUME NEW op, NEW S, NEW spare, NEW df, Listable(S),
         \A x \in S : Means([op |-> op, of |-> x, spare |-> spare], df)
  PROVE  Tells(Statements(op, S, spare), df)
<1> DEFINE list == Statements(op, S, spare)
<1>1. IsList(list) /\ Said(list) = Each(op, S, spare)
  BY StatementsSaid
<1>2. \A st \in Each(op, S, spare) : Means(st, df)
  BY DEF Each
<1> HIDE DEF list
<1>3. Tells(list, df)
  BY <1>1, <1>2 DEF Tells
<1> QED BY <1>3 DEF list

\* The new tables.
LEMMA CreatesTell ==
  ASSUME NEW df, NEW n, Outlined(n.create, df.create)
  PROVE  /\ Tells(Creates(n), df)
         /\ \A tbl \in df.create : \E st \in Said(Creates(n)) : st.op = "create_table" /\ st.of.t = tbl.t
<1> DEFINE R == n.create
           k == [tbl \in R |-> NotFk(tbl.cons)]
           S == {[tbl EXCEPT !.cons = k[tbl]] : tbl \in R}
           list == Creates(n)
<1>1. AreTables(R) /\ \A u \in R : AreCons(u.cons)
  BY DEF Outlined, AreTables
<1>2. \A tbl \in R : AreCons(k[tbl])
  BY <1>1, SomeAre DEF NotFk
<1>3. S = {[tbl EXCEPT !.cons = NotFk(@)] : tbl \in R}
  OBVIOUS
<1>4. list = Statements("create_table", S, "no")
  BY <1>3 DEF Creates
<1>5. Outlined(S, R)
  <2> HIDE DEF k
  <2> QED BY <1>1, <1>2, KeysReplaced
<1> HIDE DEF S, list, k
<1>6. Listable(S) /\ \A u \in S : AreCons(u.cons)
  BY <1>5 DEF Outlined, AreTables, Listable
<1>7. ASSUME NEW u \in S PROVE Means([op |-> "create_table", of |-> u, spare |-> "no"], df)
  <2> DEFINE st == [op |-> "create_table", of |-> u, spare |-> "no"]
  <2>1. st.op = "create_table" /\ st.of = u /\ st.spare = "no"
    OBVIOUS
  <2> HIDE DEF st
  <2>2. \E tbl \in df.create : u.t = tbl.t /\ u.cols = tbl.cols
    BY <1>5 DEF Outlined
  <2>3. Means(st, df)
    BY <1>6, <2>1, <2>2 DEF Means
  <2> QED BY <2>3 DEF st
<1>8. Tells(list, df)
  BY <1>4, <1>6, <1>7, EachTells
<1>9. ASSUME NEW tbl \in df.create PROVE \E st \in Said(list) : st.op = "create_table" /\ st.of.t = tbl.t
  <2>1. PICK u \in S : u.t = tbl.t
    BY <1>5 DEF Outlined
  <2>2. Said(list) = Each("create_table", S, "no")
    BY <1>4, <1>6, StatementsSaid
  <2> DEFINE st == [op |-> "create_table", of |-> u, spare |-> "no"]
  <2>3. st \in Said(list)
    BY <2>2 DEF Each
  <2>4. st.op = "create_table" /\ st.of = u
    OBVIOUS
  <2> HIDE DEF st
  <2> QED BY <2>1, <2>3, <2>4
<1> QED BY <1>8, <1>9 DEF list

\* The tables to drop.
LEMMA DropsTell ==
  ASSUME NEW df, Proper(df), NEW spare
  PROVE  /\ Tells(Statements("drop_constraint", df.dropCon, spare), df)
         /\ \A op \in {"drop_index", "drop_index_if_exists"} :
              Tells(Statements(op, df.dropIdx, spare), df) /\ Tells(Statements(op, IsFk(df.dropCon), spare), df)
         /\ Tells(Statements("drop_column", df.cols.drop, spare), df)
<1>1. Listable(df.dropCon) /\ Listable(df.dropIdx) /\ Listable(df.cols.drop)
  BY AreListable DEF Proper
<1>2. Listable(IsFk(df.dropCon))
  BY <1>1, SomeAre DEF IsFk
<1>3. Tells(Statements("drop_constraint", df.dropCon, spare), df)
  BY <1>1, EachTells DEF Means
<1>4. ASSUME NEW op \in {"drop_index", "drop_index_if_exists"}, NEW S, Listable(S)
      PROVE  Tells(Statements(op, S, spare), df)
  BY <1>4, EachTells DEF Means
<1>5. Tells(Statements("drop_column", df.cols.drop, spare), df)
  BY <1>1, EachTells DEF Means
<1> QED BY <1>1, <1>2, <1>3, <1>4, <1>5

\* The keys.
LEMMA ConstraintsTell ==
  ASSUME NEW S, AreCons(S), NEW df, NEW spare
  PROVE  Tells(Statements("add_constraint", S, spare), df)
<1>1. Listable(S)
  BY AreListable
<1>2. \A x \in S : AreCons({x})
  BY SomeAre
<1>3. ASSUME NEW x \in S PROVE Means([op |-> "add_constraint", of |-> x, spare |-> spare], df)
  BY <1>2 DEF Means
<1> QED BY <1>1, <1>3, EachTells

\* What comes after the drops.
LEMMA ReshapeTells ==
  ASSUME NEW df, Proper(df), NEW n, n.drop = df.drop, n.cols = df.cols, AreCons(n.addCon)
  PROVE  /\ Tells(Reshape(n), df)
         /\ \A al \in df.cols.alter : \E st \in Said(Reshape(n)) : st.op = "alter_column" /\ st.of = al
<1> DEFINE f == [t \in df.drop |-> [t |-> t]]
           S == {f[t] : t \in df.drop}
           a == Statements("add_column", n.cols.add, "no")
           b == Statements("alter_column", n.cols.alter, "no")
           c == Statements("add_constraint", NotFk(n.addCon), "no")
           d == Statements("drop_table", S, "no")
<1>1. Tells(a, df)
  <2>1. Listable(n.cols.add)
    BY AreListable DEF Proper
  <2>2. \A x \in n.cols.add : Means([op |-> "add_column", of |-> x, spare |-> "no"], df)
    BY DEF Means
  <2> QED BY <2>1, <2>2, EachTells
<1>2. Tells(b, df) /\ \A al \in df.cols.alter : \E st \in Said(b) : st.op = "alter_column" /\ st.of = al
  <2>1. Listable(n.cols.alter)
    BY DEF Proper
  <2>2. \A x \in n.cols.alter : Means([op |-> "alter_column", of |-> x, spare |-> "no"], df)
    BY DEF Means
  <2>3. Tells(b, df)
    BY <2>1, <2>2, EachTells
  <2>4. Said(b) = Each("alter_column", df.cols.alter, "no")
    BY <2>1, StatementsSaid
  <2>5. ASSUME NEW al \in df.cols.alter PROVE \E st \in Said(b) : st.op = "alter_column" /\ st.of = al
    <3>1. [op |-> "alter_column", of |-> al, spare |-> "no"] \in Said(b)
      BY <2>4 DEF Each
    <3> HIDE DEF b
    <3> QED BY <3>1
  <2> QED BY <2>3, <2>5
<1>3. Tells(c, df)
  <2>1. AreCons(NotFk(n.addCon))
    BY SomeAre DEF NotFk
  <2> QED BY <2>1, ConstraintsTell
<1>4. Tells(d, df)
  <2>1. IsFiniteSet(S)
    <3>1. DOMAIN f = df.drop /\ f = [t \in df.drop |-> f[t]] /\ IsFiniteSet(df.drop)
      BY DEF Proper
    <3> HIDE DEF f
    <3> QED BY <3>1, Made
  <2>2. \A x \in S : x.t \in df.drop /\ x.t \in Nat
    <3>1. df.drop \subseteq Nat
      BY DEF Proper
    <3>2. \A t \in df.drop : f[t].t = t
      OBVIOUS
    <3> HIDE DEF f
    <3> QED BY <3>1, <3>2
  <2> HIDE DEF S
  <2>3. Listable(S)
    BY <2>1, <2>2 DEF Listable
  <2>4. \A x \in S : Means([op |-> "drop_table", of |-> x, spare |-> "no"], df)
    BY <2>2 DEF Means
  <2> QED BY <2>3, <2>4, EachTells
<1>5. S = {[t |-> t] : t \in n.drop}
  OBVIOUS
<1>6. Reshape(n) = ((a \o b) \o c) \o d
  <2> HIDE DEF S
  <2> QED BY <1>5 DEF Reshape
<1> HIDE DEF a, b, c, d
<1>7. Tells(a \o b, df) /\ Said(b) \subseteq Said(a \o b)
  BY <1>1, <1>2, BothTell
<1>8. Tells((a \o b) \o c, df) /\ Said(a \o b) \subseteq Said((a \o b) \o c)
  BY <1>3, <1>7, BothTell
<1>9. Tells(((a \o b) \o c) \o d, df) /\ Said((a \o b) \o c) \subseteq Said(((a \o b) \o c) \o d)
  BY <1>4, <1>8, BothTell
<1>10. Said(b) \subseteq Said(Reshape(n)) /\ Tells(Reshape(n), df)
  BY <1>6, <1>7, <1>8, <1>9
<1> QED BY <1>2, <1>10

\* Whatever the engine, apply() says what was found different, and leaves out no table to
\* create and no column to alter.
LEMMA ApplyTells ==
  ASSUME NEW e, NEW df, Proper(df)
  PROVE  Tells(Apply(e, df), df) /\ Needed(Apply(e, df), df)
<1> DEFINE n == IF e = "pg" THEN PgNames(df) ELSE df
           create == Creates(n)
           reshape == Reshape(n)
           fks == AddForeignKeys(df)
           cons == Statements("drop_constraint", df.dropCon, "no")
           cols == Statements("drop_column", df.cols.drop, "no")
           idx == Statements("drop_index", df.dropIdx, "no")
           idxIf == Statements("drop_index_if_exists", df.dropIdx, "no")
           ofFk == Statements("drop_index", IsFk(df.dropCon), "needed")
           idxIdle == Statements("drop_index", df.dropIdx, "needed")
<1>1. Outlined(n.create, df.create) /\ n.drop = df.drop /\ n.cols = df.cols /\ AreCons(n.addCon)
  <2>1. Outlined(df.create, df.create) /\ AreCons(df.addCon)
    BY DEF Outlined, Proper
  <2>2. CASE e = "pg"
    <3>1. n = PgNames(df)
      BY <2>2
    <3> HIDE DEF n
    <3> QED BY <3>1, PgNamesHas
  <2>3. CASE e # "pg"
    <3>1. n = df
      BY <2>3
    <3> HIDE DEF n
    <3> QED BY <3>1, <2>1
  <2> QED BY <2>2, <2>3
<1>2. e = "pg" => Apply(e, df) = ((((create \o cons) \o idxIf) \o cols) \o reshape) \o fks
  BY DEF Apply, PgApply
<1>3. e = "mysql" => Apply(e, df) = (((((create \o cons) \o cols) \o reshape) \o ofFk) \o idxIdle) \o fks
  BY DEF Apply, MysqlApply
<1>4. e # "pg" /\ e # "mysql" => Apply(e, df) = ((((create \o cons) \o idx) \o cols) \o reshape) \o fks
  BY DEF Apply, MssqlApply
<1> HIDE DEF n
<1>5. Tells(create, df) /\ \A tbl \in df.create : \E st \in Said(create) : st.op = "create_table" /\ st.of.t = tbl.t
  BY <1>1, CreatesTell
<1>6. Tells(reshape, df) /\ \A al \in df.cols.alter : \E st \in Said(reshape) : st.op = "alter_column" /\ st.of = al
  BY <1>1, ReshapeTells
<1>7. Tells(fks, df)
  <2>1. AreCons(IsFk(df.addCon))
    BY SomeAre DEF IsFk, Proper
  <2> QED BY <2>1, ConstraintsTell DEF AddForeignKeys
<1>8. Tells(cons, df) /\ Tells(cols, df) /\ Tells(idx, df) /\ Tells(idxIf, df) /\ Tells(ofFk, df) /\ Tells(idxIdle, df)
  BY DropsTell
<1> HIDE DEF create, reshape, fks, cons, cols, idx, idxIf, ofFk, idxIdle
<1> DEFINE Whole(list) == Tells(list, df) /\ Said(create) \subseteq Said(list)
<1>9. ASSUME NEW a, NEW b, Whole(a), Tells(b, df) PROVE Whole(a \o b) /\ Said(b) \subseteq Said(a \o b)
  BY <1>9, BothTell
<1>10. Whole(create)
  BY <1>5
<1> HIDE DEF Whole
<1>11. ASSUME NEW list, Whole(list), Apply(e, df) = (list \o reshape) \o fks
       PROVE  Whole(Apply(e, df)) /\ Said(reshape) \subseteq Said(Apply(e, df))
  <2>1. Whole(list \o reshape) /\ Said(reshape) \subseteq Said(list \o reshape)
    BY <1>6, <1>9, <1>11
  <2>2. Whole((list \o reshape) \o fks) /\ Said(list \o reshape) \subseteq Said((list \o reshape) \o fks)
    BY <1>7, <2>1, BothTell, <1>9 DEF Whole
  <2> QED BY <1>11, <2>1, <2>2
<1>12. Whole(create \o cons) /\ Whole((create \o cons) \o idxIf) /\ Whole((create \o cons) \o idx)
       /\ Whole((create \o cons) \o cols)
  <2>1. Whole(create \o cons)
    BY <1>8, <1>9, <1>10
  <2> QED BY <1>8, <1>9, <2>1
<1>13. Whole(((create \o cons) \o idxIf) \o cols) /\ Whole(((create \o cons) \o idx) \o cols)
  BY <1>8, <1>9, <1>12
<1>14. Whole(Apply(e, df)) /\ Said(reshape) \subseteq Said(Apply(e, df))
  <2>1. CASE e = "pg"
    BY <1>2, <1>11, <1>13, <2>1
  <2>2. CASE e = "mysql"
    <3> DEFINE a == ((create \o cons) \o cols) \o reshape
    <3>1. Whole(a) /\ Said(reshape) \subseteq Said(a)
      BY <1>6, <1>9, <1>12
    <3>2. Apply(e, df) = ((a \o ofFk) \o idxIdle) \o fks
      BY <1>3, <2>2
    <3> HIDE DEF a
    <3>3. Whole(a \o ofFk) /\ Said(a) \subseteq Said(a \o ofFk)
      BY <1>8, <1>9, <3>1, BothTell DEF Whole
    <3>4. Whole((a \o ofFk) \o idxIdle) /\ Said(a \o ofFk) \subseteq Said((a \o ofFk) \o idxIdle)
      BY <1>8, <1>9, <3>3, BothTell DEF Whole
    <3>5. Whole(((a \o ofFk) \o idxIdle) \o fks)
          /\ Said((a \o ofFk) \o idxIdle) \subseteq Said(((a \o ofFk) \o idxIdle) \o fks)
      BY <1>7, <1>9, <3>4, BothTell DEF Whole
    <3> QED BY <3>1, <3>2, <3>3, <3>4, <3>5
  <2>3. CASE e # "pg" /\ e # "mysql"
    BY <1>4, <1>11, <1>13, <2>3
  <2> QED BY <2>1, <2>2, <2>3
<1>15. Needed(Apply(e, df), df)
  BY <1>5, <1>6, <1>14 DEF Needed, Whole
<1> QED BY <1>14, <1>15 DEF Whole

\* The indexes.
LEMMA IndexesTell ==
  ASSUME NEW df, Proper(df)
  PROVE  Tells(CreateIndexes(df), df)
<1>1. Listable(df.newIdx) /\ \A x \in df.newIdx : AreIdx({x})
  BY AreListable, SomeAre DEF Proper
<1>2. ASSUME NEW x \in df.newIdx PROVE Means([op |-> "create_index", of |-> x, spare |-> "any"], df)
  BY <1>1 DEF Means
<1> QED BY <1>1, <1>2, EachTells DEF CreateIndexes

-----------------------------------------------------------------------------
(***************************************************************************)
(* What a statement does.                                                  *)
(***************************************************************************)

\* Some of the keys, and some of the indexes, without a column.
LEMMA ShrunkAre ==
  ASSUME NEW S, NEW c
  PROVE  (AreCons(S) => AreCons(Shrunk(S, c))) /\ (AreIdx(S) => AreIdx(Shrunk(S, c)))
<1> DEFINE k == [x \in S |-> Remove(x.cols, c.n)]
           f == [x \in S |-> IF On(x, c) THEN [x EXCEPT !.cols = k[x]] ELSE x]
           T == {f[x] : x \in S}
<1>1. T = Shrunk(S, c)
  BY DEF Shrunk
<1>2. IsFiniteSet(S) => IsFiniteSet(T)
  <2>1. DOMAIN f = S /\ f = [x \in S |-> f[x]]
    OBVIOUS
  <2> HIDE DEF f
  <2> QED BY <2>1, Made
<1> HIDE DEF k
<1>3. \A x \in S : (DOMAIN x = ConFields \/ DOMAIN x = IdxFields) => DOMAIN f[x] = DOMAIN x /\ f[x].t = x.t
  <2> SUFFICES ASSUME NEW x \in S, DOMAIN x = ConFields \/ DOMAIN x = IdxFields
               PROVE  DOMAIN f[x] = DOMAIN x /\ f[x].t = x.t
    OBVIOUS
  <2> DEFINE y == [x EXCEPT !.cols = k[x]]
  <2>1. DOMAIN y = DOMAIN x /\ y.t = x.t
    BY DEF ConFields, IdxFields
  <2>2. f[x] = y \/ f[x] = x
    OBVIOUS
  <2> HIDE DEF y, f
  <2> QED BY <2>1, <2>2
<1> HIDE DEF f
<1>4. (AreCons(S) => AreCons(T)) /\ (AreIdx(S) => AreIdx(T))
  BY <1>2, <1>3 DEF AreCons, AreIdx
<1> QED BY <1>1, <1>4

\* All of a database but its keys and its indexes.
SameColumns(it, db) == IsDatabase(it) /\ it.tables = db.tables /\ it.cols = db.cols

\* Other keys and indexes leave the columns.
LEMMA PartsReplaced ==
  ASSUME NEW db, IsDatabase(db), NEW it, DOMAIN it = {"tables", "cols", "cons", "idx"},
         it.tables = db.tables, it.cols = db.cols, AreCons(it.cons), AreIdx(it.idx)
  PROVE  SameColumns(it, db)
<1>1. IsDatabase(it)
  BY PartsOf, FromParts
<1> QED BY <1>1 DEF SameColumns

\* Other keys.
LEMMA KeysReplacedIn ==
  ASSUME NEW db, IsDatabase(db), NEW K, AreCons(K)
  PROVE  SameColumns([db EXCEPT !.cons = K], db)
<1> DEFINE it == [db EXCEPT !.cons = K]
<1>1. DOMAIN it = {"tables", "cols", "cons", "idx"} /\ it.tables = db.tables /\ it.cols = db.cols
      /\ it.cons = K /\ it.idx = db.idx
  BY DEF IsDatabase
<1> HIDE DEF it
<1>2. IsDatabase(it)
  BY <1>1, PartsOf, FromParts
<1>3. SameColumns(it, db)
  BY <1>1, <1>2 DEF SameColumns
<1> QED BY <1>3 DEF it

\* Other indexes.
LEMMA IndexesReplacedIn ==
  ASSUME NEW db, IsDatabase(db), NEW I, AreIdx(I)
  PROVE  SameColumns([db EXCEPT !.idx = I], db)
<1> DEFINE it == [db EXCEPT !.idx = I]
<1>1. DOMAIN it = {"tables", "cols", "cons", "idx"} /\ it.tables = db.tables /\ it.cols = db.cols
      /\ it.cons = db.cons /\ it.idx = I
  BY DEF IsDatabase
<1> HIDE DEF it
<1>2. IsDatabase(it)
  BY <1>1, PartsOf, FromParts
<1>3. SameColumns(it, db)
  BY <1>1, <1>2 DEF SameColumns
<1> QED BY <1>3 DEF it

\* ADD CONSTRAINT leaves the columns.
LEMMA ConstraintAdded ==
  ASSUME NEW e, NEW db, IsDatabase(db), NEW c, AreCons({c})
  PROVE  SameColumns(WithConstraint(e, db, c), db)
<1> DEFINE F == {f \in Of("fk", db) : Serves(c, f)}
           made == IF /\ e = "mysql" /\ c.kind = "fk"
                      /\ ~\E i \in Physical(db) \cup Of("pk", db) : Serves(i, c)
                   THEN {FkIndex(c)} ELSE {}
           idle == IF e = "mysql" /\ c.kind # "fk" THEN {FkIndex(f) : f \in F} ELSE {}
           K == db.cons \cup {c}
           I == (db.idx \cup made) \ idle
<1>1. WithConstraint(e, db, c) = [db EXCEPT !.cons = K, !.idx = I]
  BY DEF WithConstraint
<1>2. AreCons(K)
  BY PartsOf, AllAre
<1>3. AreIdx(made)
  <2>1. AreIdx({FkIndex(c)})
    <3>1. c.t \in Nat
      BY DEF AreCons
    <3>2. DOMAIN FkIndex(c) = IdxFields /\ FkIndex(c).t = c.t
      BY DEF FkIndex, IdxFields
    <3>3. IsFiniteSet({FkIndex(c)})
      BY FS_Singleton
    <3> QED BY <3>1, <3>2, <3>3 DEF AreIdx
  <2>2. AreIdx({})
    BY FS_EmptySet DEF AreIdx
  <2> QED BY <2>1, <2>2
<1> HIDE DEF made, idle
<1>4. AreIdx(db.idx \cup made)
  BY <1>3, PartsOf, AllAre
<1>5. AreIdx(I)
  BY <1>4, SomeAre
<1> HIDE DEF K, I
<1> DEFINE it == [db EXCEPT !.cons = K, !.idx = I]
<1>6. DOMAIN it = {"tables", "cols", "cons", "idx"} /\ it.tables = db.tables /\ it.cols = db.cols
      /\ it.cons = K /\ it.idx = I
  BY DEF IsDatabase
<1>7. WithConstraint(e, db, c) = it
  BY <1>1
<1> HIDE DEF it
<1>8. SameColumns(it, db)
  BY <1>2, <1>5, <1>6, PartsReplaced
<1> QED BY <1>7, <1>8

\* So does CREATE INDEX.
LEMMA IndexAdded ==
  ASSUME NEW e, NEW db, IsDatabase(db), NEW i, AreIdx({i})
  PROVE  SameColumns(WithIndex(e, db, i), db)
<1> DEFINE idle == {FkIndex(f) : f \in {f \in Of("fk", db) : e = "mysql" /\ Serves(i, f)}}
           I == {i} \cup (db.idx \ idle)
<1>1. WithIndex(e, db, i) = db \/ WithIndex(e, db, i) = [db EXCEPT !.idx = I]
  BY DEF WithIndex
<1> HIDE DEF idle
<1>2. AreIdx(db.idx \ idle)
  BY PartsOf, SomeAre
<1>3. AreIdx(I)
  BY <1>2, AllAre
<1> HIDE DEF I
<1>4. SameColumns([db EXCEPT !.idx = I], db) /\ SameColumns(db, db)
  BY <1>3, IndexesReplacedIn DEF SameColumns
<1> QED BY <1>1, <1>4

\* A DROP of a key.
LEMMA SomeKeysKept ==
  ASSUME NEW db, IsDatabase(db), NEW K, K \subseteq db.cons
  PROVE  SameColumns([db EXCEPT !.cons = K], db)
<1>1. AreCons(K)
  BY PartsOf, SomeAre
<1> QED BY <1>1, KeysReplacedIn

\* A DROP of an index.
LEMMA SomeIndexesKept ==
  ASSUME NEW db, IsDatabase(db), NEW I, I \subseteq db.idx
  PROVE  SameColumns([db EXCEPT !.idx = I], db)
<1>1. AreIdx(I)
  BY PartsOf, SomeAre
<1> QED BY <1>1, IndexesReplacedIn

\* Every statement about keys and indexes leaves the tables and the columns.
LEMMA OtherwiseDone ==
  ASSUME NEW e, NEW db, IsDatabase(db), NEW st,
         \/ st.op = "add_constraint" /\ AreCons({st.of})
         \/ st.op = "create_index" /\ AreIdx({st.of})
         \/ st.op \in {"drop_constraint", "drop_index", "drop_index_if_exists"}
  PROVE  SameColumns(Effect(e, db, st), db)
<1> DEFINE x == st.of
<1>1. CASE st.op = "add_constraint" /\ AreCons({x})
  <2>1. Effect(e, db, st) = WithConstraint(e, db, x)
    BY <1>1 DEF Effect
  <2> QED BY <1>1, <2>1, ConstraintAdded
<1>2. CASE st.op = "create_index" /\ AreIdx({x})
  <2>1. Effect(e, db, st) = WithIndex(e, db, x)
    BY <1>2 DEF Effect
  <2> QED BY <1>2, <2>1, IndexAdded
<1>3. CASE st.op = "drop_constraint"
  <2> DEFINE K == db.cons \ {x}
  <2>1. Effect(e, db, st) = [db EXCEPT !.cons = K] /\ K \subseteq db.cons
    BY <1>3 DEF Effect
  <2> HIDE DEF K
  <2> QED BY <2>1, SomeKeysKept
<1>4. CASE st.op \in {"drop_index", "drop_index_if_exists"}
  <2> DEFINE I == {i \in db.idx : IndexKey(i) # IndexKey(x)}
  <2>1. Effect(e, db, st) = [db EXCEPT !.idx = I] /\ I \subseteq db.idx
    BY <1>4 DEF Effect
  <2> HIDE DEF I
  <2> QED BY <2>1, SomeIndexesKept
<1> QED BY <1>1, <1>2, <1>3, <1>4

\* CREATE TABLE.
LEMMA TableCreated ==
  ASSUME NEW e, NEW db, IsDatabase(db), NEW st, st.op = "create_table",
         st.of.t \in Nat, AreColumns(st.of.cols), AreCons(st.of.cons),
         \A c \in st.of.cols : c.t = st.of.t, One(db.cols \cup st.of.cols)
  PROVE  LET it == Effect(e, db, st)
         IN  IsDatabase(it) /\ it.tables = db.tables \cup {st.of.t} /\ it.cols = db.cols \cup st.of.cols
<1> DEFINE x == st.of
           T == db.tables \cup {x.t}
           C == db.cols \cup x.cols
           K == db.cons \cup x.cons
           it == [db EXCEPT !.tables = T, !.cols = C, !.cons = K]
<1>1. Effect(e, db, st) = it
  BY DEF Effect
<1>2. AreColumns(C) /\ AreCons(K) /\ One(C)
  BY PartsOf, AllAre
<1>3. IsFiniteSet(T) /\ T \subseteq Nat
  BY PartsOf, FS_AddElement
<1>4. \A c \in C : c.t \in T
  BY PartsOf
<1> HIDE DEF T, C, K
<1>5. DOMAIN it = {"tables", "cols", "cons", "idx"} /\ it.tables = T /\ it.cols = C /\ it.cons = K
      /\ it.idx = db.idx
  BY DEF IsDatabase
<1> HIDE DEF it
<1>6. IsDatabase(it)
  BY <1>2, <1>3, <1>4, <1>5, PartsOf, FromParts DEF One
<1> QED BY <1>1, <1>5, <1>6 DEF T, C

\* Other columns of the same tables.
LEMMA ColumnsReplaced ==
  ASSUME NEW db, IsDatabase(db), NEW C, AreColumns(C), One(C), \A c \in C : c.t \in db.tables
  PROVE  LET it == [db EXCEPT !.cols = C]
         IN  IsDatabase(it) /\ it.tables = db.tables /\ it.cols = C
<1> DEFINE it == [db EXCEPT !.cols = C]
<1>1. DOMAIN it = {"tables", "cols", "cons", "idx"} /\ it.tables = db.tables /\ it.cols = C
      /\ it.cons = db.cons /\ it.idx = db.idx
  BY DEF IsDatabase
<1> HIDE DEF it
<1>2. IsDatabase(it)
  BY <1>1, PartsOf, FromParts DEF One
<1> QED BY <1>1, <1>2 DEF it

\* ADD COLUMN.
LEMMA ColumnAdded ==
  ASSUME NEW e, NEW db, IsDatabase(db), NEW st, st.op = "add_column",
         AreColumns({st.of}), st.of.t \in db.tables, One(db.cols \cup {st.of})
  PROVE  LET it == Effect(e, db, st)
         IN  IsDatabase(it) /\ it.tables = db.tables /\ it.cols = db.cols \cup {st.of}
<1> DEFINE C == db.cols \cup {st.of}
<1>1. Effect(e, db, st) = [db EXCEPT !.cols = C]
  BY DEF Effect
<1>2. AreColumns(C) /\ One(C) /\ \A c \in C : c.t \in db.tables
  BY PartsOf, AllAre
<1> HIDE DEF C
<1> QED BY <1>1, <1>2, ColumnsReplaced DEF C

\* ALTER COLUMN.
LEMMA ColumnAltered ==
  ASSUME NEW e, NEW db, IsDatabase(db), NEW st, st.op = "alter_column"
  PROVE  LET it == Effect(e, db, st)
         IN  /\ IsDatabase(it) /\ it.tables = db.tables
             /\ \A d \in it.cols : \E c \in db.cols :
                  Column(c) = Column(d) /\ IF Column(c) = Column(st.of) THEN d.type = st.of.to ELSE d = c
             /\ \A c \in db.cols : \E d \in it.cols : Column(c) = Column(d)
<1> DEFINE x == st.of
           f == [c \in db.cols |-> IF Column(c) = Column(x) THEN Altered(e, c, x.to) ELSE c]
           C == {f[c] : c \in db.cols}
           it == [db EXCEPT !.cols = C]
<1>1. Effect(e, db, st) = it
  <2>1. C = {IF Column(c) = Column(x) THEN Altered(e, c, x.to) ELSE c : c \in db.cols}
    OBVIOUS
  <2>2. Effect(e, db, st) = WithType(e, db, x)
    BY DEF Effect
  <2> HIDE DEF C
  <2> QED BY <2>1, <2>2 DEF WithType
<1>2. ASSUME NEW c \in db.cols
      PROVE  /\ DOMAIN f[c] = ColumnFields /\ f[c].t = c.t /\ Column(f[c]) = Column(c)
             /\ IF Column(c) = Column(x) THEN f[c].type = x.to ELSE f[c] = c
  <2>1. DOMAIN c = ColumnFields
    BY PartsOf DEF AreColumns
  <2> DEFINE b == c.auto /\ e # "mysql"
             y == [c EXCEPT !.type = x.to, !.auto = b]
  <2>2. f[c] = IF Column(c) = Column(x) THEN y ELSE c
    <3>1. Altered(e, c, x.to) = y
      BY DEF Altered
    <3> HIDE DEF y
    <3> QED BY <3>1
  <2> HIDE DEF b
  <2>3. DOMAIN y = ColumnFields /\ y.t = c.t /\ y.n = c.n /\ y.type = x.to
    BY <2>1 DEF ColumnFields
  <2> HIDE DEF y, f
  <2>4. Column(y) = Column(c)
    BY <2>3 DEF Column
  <2> QED BY <2>1, <2>2, <2>3, <2>4
<1>3. IsFiniteSet(C)
  <2>1. DOMAIN f = db.cols /\ f = [c \in db.cols |-> f[c]] /\ IsFiniteSet(db.cols)
    BY PartsOf DEF AreColumns
  <2> HIDE DEF f
  <2> QED BY <2>1, Made
<1> HIDE DEF f
<1>4. AreColumns(C) /\ One(C) /\ \A c \in C : c.t \in db.tables
  <2>1. \A c \in db.cols : c.t \in Nat /\ c.t \in db.tables
    BY PartsOf DEF AreColumns
  <2>2. AreColumns(C) /\ \A c \in C : c.t \in db.tables
    BY <1>2, <1>3, <2>1 DEF AreColumns
  <2>3. One(C)
    <3>1. \A c, d \in db.cols : Column(c) = Column(d) => c = d
      BY PartsOf
    <3>2. \A c, d \in db.cols : Column(f[c]) = Column(f[d]) => f[c] = f[d]
      BY <1>2, <3>1
    <3> QED BY <3>2 DEF One
  <2> QED BY <2>2, <2>3
<1>5. (\A d \in C : \E c \in db.cols :
         Column(c) = Column(d) /\ IF Column(c) = Column(x) THEN d.type = x.to ELSE d = c)
      /\ \A c \in db.cols : \E d \in C : Column(c) = Column(d)
  BY <1>2
<1> HIDE DEF C
<1>6. IsDatabase(it) /\ it.tables = db.tables /\ it.cols = C
  BY <1>4, ColumnsReplaced
<1> HIDE DEF it
<1> QED BY <1>1, <1>5, <1>6

\* DROP COLUMN.
LEMMA ColumnDropped ==
  ASSUME NEW e, NEW db, IsDatabase(db), NEW st, st.op = "drop_column"
  PROVE  LET it == Effect(e, db, st)
         IN  /\ IsDatabase(it) /\ it.tables = db.tables
             /\ it.cols = {d \in db.cols : Column(d) # Column(st.of)}
<1> DEFINE x == st.of
           kept(S) == IF e = "mysql" THEN {y \in Shrunk(S, x) : y.cols # <<>>} ELSE {y \in S : ~On(y, x)}
           C == {d \in db.cols : Column(d) # Column(x)}
           K == kept(db.cons)
           I == kept(db.idx)
           it == [db EXCEPT !.cols = C, !.cons = K, !.idx = I]
<1>1. Effect(e, db, st) = it
  <2>1. Effect(e, db, st) = WithoutColumn(e, db, x)
    BY DEF Effect
  <2> QED BY <2>1 DEF WithoutColumn
<1>2. AreCons(K) /\ AreIdx(I)
  <2>1. AreCons(db.cons) /\ AreIdx(db.idx) /\ AreCons(Shrunk(db.cons, x)) /\ AreIdx(Shrunk(db.idx, x))
    BY PartsOf, ShrunkAre
  <2>2. K \subseteq (IF e = "mysql" THEN Shrunk(db.cons, x) ELSE db.cons)
        /\ I \subseteq (IF e = "mysql" THEN Shrunk(db.idx, x) ELSE db.idx)
    OBVIOUS
  <2> HIDE DEF K, I
  <2>3. CASE e = "mysql"
    BY <2>1, <2>2, <2>3, SomeAre
  <2>4. CASE e # "mysql"
    BY <2>1, <2>2, <2>4, SomeAre
  <2> QED BY <2>3, <2>4
<1>3. C \subseteq db.cols
  OBVIOUS
<1> HIDE DEF C, K, I
<1>4. DOMAIN it = {"tables", "cols", "cons", "idx"} /\ it.tables = db.tables /\ it.cols = C /\ it.cons = K
      /\ it.idx = I
  BY DEF IsDatabase
<1> HIDE DEF it
<1>5. AreColumns(C) /\ (\A c \in C : c.t \in db.tables) /\ \A c, d \in C : Column(c) = Column(d) => c = d
  BY <1>3, PartsOf, SomeAre
<1>6. IsDatabase(it)
  BY <1>2, <1>4, <1>5, PartsOf, FromParts
<1> QED BY <1>1, <1>4, <1>6 DEF C

\* All of a database but a table.
WithoutTable(it, db, t) ==
  /\ IsDatabase(it) /\ it.tables = db.tables \ {t}
  /\ it.cols \subseteq db.cols /\ \A d \in db.cols : d \in it.cols <=> d.t # t

\* DROP TABLE.
LEMMA TableDropped ==
  ASSUME NEW e, NEW db, IsDatabase(db), NEW st, st.op = "drop_table"
  PROVE  WithoutTable(Effect(e, db, st), db, st.of.t)
<1> DEFINE x == st.of
           T == db.tables \ {x.t}
           C == {c \in db.cols : c.t # x.t}
           K == {c \in db.cons : c.t # x.t}
           I == {i \in db.idx : i.t # x.t}
           it == [tables |-> T, cols |-> C, cons |-> K, idx |-> I]
<1>1. Effect(e, db, st) = it
  BY DEF Effect
<1>2. T \subseteq db.tables /\ C \subseteq db.cols /\ K \subseteq db.cons /\ I \subseteq db.idx
      /\ (\A c \in C : c.t \in T) /\ \A d \in db.cols : d \in C <=> d.t # x.t
  BY PartsOf
<1> HIDE DEF T, C, K, I
<1>3. DOMAIN it = {"tables", "cols", "cons", "idx"} /\ it.tables = T /\ it.cols = C /\ it.cons = K
      /\ it.idx = I
  OBVIOUS
<1> HIDE DEF it
<1>4. AreColumns(C) /\ AreCons(K) /\ AreIdx(I) /\ \A c, d \in C : Column(c) = Column(d) => c = d
  BY <1>2, PartsOf, SomeAre
<1>5. IsFiniteSet(T) /\ T \subseteq Nat
  BY <1>2, PartsOf, FS_Subset
<1>6. IsDatabase(it)
  BY <1>2, <1>3, <1>4, <1>5, FromParts
<1>7. WithoutTable(it, db, x.t)
  BY <1>2, <1>3, <1>6 DEF WithoutTable, T
<1> QED BY <1>1, <1>7

-----------------------------------------------------------------------------
(***************************************************************************)
(* A run, statement by statement.                                          *)
(***************************************************************************)

\* What a run means to do, to a destination d and for a source s.
Foretold(m, s, d, p, from, to) ==
  /\ Proper(m)
  /\ {tbl.t : tbl \in m.create} = s.tables \ d.tables
  /\ \A a, b \in m.create : a.t = b.t => a = b
  /\ \A tbl \in m.create : \A c \in tbl.cols : OfSource(c, s, p, from, to)
  /\ One(m.cols.add)
  /\ \A c \in m.cols.add : /\ c.t \in s.tables \cap d.tables
                           /\ \A y \in d.cols : Column(y) # Column(c)
                           /\ OfSource(c, s, p, from, to)
  /\ \A al \in m.cols.alter : Alters(al, s, d, p, from, to)
  /\ \A x \in s.cols, y \in d.cols :
       Column(x) = Column(y) /\ x.type # y.type =>
         /\ Row(x) \in Considered(p)
         /\ TranslateType(from, to, x.type) = x.type =>
              \E al \in m.cols.alter : Column(al) = Column(x) /\ al.to = x.type
  /\ m.drop = d.tables \ s.tables
  /\ \A c \in m.cols.drop : \A x \in s.cols : Column(x) # Column(c)

\* A difference means what its two databases call for.
LEMMA MeantIsForetold ==
  ASSUME NEW s, NEW d, IsDatabase(s), IsDatabase(d), NEW from, NEW to
  PROVE  Foretold(Meant(s, d, from, to), s, d, Diff(to, s, d), from, to)
<1> DEFINE p == Diff(to, s, d)
           m == Meant(s, d, from, to)
<1>1. /\ {tbl.t : tbl \in m.create} = s.tables \ d.tables
      /\ \A a, b \in m.create : a.t = b.t => a = b
      /\ \A tbl \in m.create : \A c \in tbl.cols : OfSource(c, s, p, from, to)
  BY NewTablesMeant
<1>2. /\ One(m.cols.add)
      /\ \A c \in m.cols.add : /\ c.t \in s.tables \cap d.tables
                               /\ \A y \in d.cols : Column(y) # Column(c)
                               /\ OfSource(c, s, p, from, to)
  BY NewColumnsMeant
<1>3. /\ \A al \in m.cols.alter : Alters(al, s, d, p, from, to)
      /\ \A x \in s.cols, y \in d.cols :
           Column(x) = Column(y) /\ x.type # y.type =>
             /\ Row(x) \in Considered(p)
             /\ TranslateType(from, to, x.type) = x.type =>
                  \E al \in m.cols.alter : Column(al) = Column(x) /\ al.to = x.type
  BY AlterationsMeant
<1>4. RestOf(m, s, d)
  BY RestMeant
<1>5. Proper(m)
  BY MeantIsProper
<1> HIDE DEF m, p
<1>6. Foretold(m, s, d, p, from, to)
  BY <1>1, <1>2, <1>3, <1>4, <1>5 DEF Foretold, RestOf
<1> QED BY <1>6 DEF m, p

\* An inspector reports the tables and the columns that are there.
LEMMA ForetoldOf ==
  ASSUME NEW m, NEW s, NEW d, NEW p, NEW from, NEW to, NEW S, NEW D,
         Foretold(m, S, D, p, from, to), S.tables = s.tables, S.cols = s.cols,
         D.tables = d.tables, D.cols = d.cols
  PROVE  Foretold(m, s, d, p, from, to)
<1>1. \A c : OfSource(c, S, p, from, to) => OfSource(c, s, p, from, to)
  BY DEF OfSource
<1>2. \A al : Alters(al, S, D, p, from, to) => Alters(al, s, d, p, from, to)
  BY DEF Alters
<1> QED BY <1>1, <1>2 DEF Foretold

\* Where a column of the destination comes from.
Whence(d, b, m) ==
  \/ \E c \in b.cols : /\ Column(c) = Column(d)
                       /\ \/ c.type = d.type
                          \/ \E al \in m.cols.alter : Column(al) = Column(d) /\ d.type = al.to
  \/ d \in NewColumns(m)

\* The destination db of a run that found b: what both sides had is still there.
Kept(db, s, b, m) ==
  /\ \A d \in db.cols : Whence(d, b, m)
  /\ b.tables \cap s.tables \subseteq db.tables
  /\ \A c \in b.cols : (\E x \in s.cols : Column(x) = Column(c)) => \E d \in db.cols : Column(d) = Column(c)

TypeGiven(al, db) == \A d \in db.cols : Column(d) = Column(al) => d.type = al.to

\* The columns to add are of different names, and none is there.
LEMMA NewAreNew ==
  ASSUME NEW s, NEW b, IsDatabase(s), IsDatabase(b), NEW m, NEW p, NEW from, NEW to,
         Foretold(m, s, b, p, from, to)
  PROVE  /\ One(NewColumns(m))
         /\ \A c \in NewColumns(m) : /\ \A y \in b.cols : Column(y) # Column(c)
                                     /\ OfSource(c, s, p, from, to)
<1>1. \A tbl \in m.create : /\ tbl.t \in s.tables \ b.tables /\ One(tbl.cols)
                            /\ \A c \in tbl.cols : c.t = tbl.t /\ OfSource(c, s, p, from, to)
  BY DEF Foretold, Proper, AreTables
<1>2. \A c, d : Column(c) = Column(d) => c.t = d.t
  BY DEF Column
<1>3. ASSUME NEW c \in NewColumns(m), c \notin m.cols.add
      PROVE  \E tbl \in m.create : c \in tbl.cols
  BY <1>3 DEF NewColumns
<1>4. ASSUME NEW c \in NewColumns(m), NEW d \in NewColumns(m), Column(c) = Column(d) PROVE c = d
  <2>1. c.t = d.t
    BY <1>2, <1>4
  <2>2. CASE c \in m.cols.add /\ d \in m.cols.add
    BY <1>4, <2>2 DEF Foretold, One
  <2>3. CASE c \notin m.cols.add /\ d \notin m.cols.add
    <3>1. PICK tc \in m.create, td \in m.create : c \in tc.cols /\ d \in td.cols
      BY <1>3, <2>3
    <3>2. tc = td
      BY <1>1, <2>1, <3>1 DEF Foretold
    <3> QED BY <1>1, <1>4, <3>1, <3>2 DEF One
  <2>4. CASE c \in m.cols.add /\ d \notin m.cols.add
    <3>1. PICK td \in m.create : d \in td.cols
      BY <1>3, <2>4
    <3>2. c.t \in b.tables /\ d.t \notin b.tables
      BY <1>1, <2>4, <3>1 DEF Foretold
    <3> QED BY <2>1, <3>2
  <2>5. CASE c \notin m.cols.add /\ d \in m.cols.add
    <3>1. PICK tc \in m.create : c \in tc.cols
      BY <1>3, <2>5
    <3>2. d.t \in b.tables /\ c.t \notin b.tables
      BY <1>1, <2>5, <3>1 DEF Foretold
    <3> QED BY <2>1, <3>2
  <2> QED BY <2>2, <2>3, <2>4, <2>5
<1>5. ASSUME NEW c \in NewColumns(m)
      PROVE  (\A y \in b.cols : Column(y) # Column(c)) /\ OfSource(c, s, p, from, to)
  <2>1. CASE c \in m.cols.add
    BY <2>1 DEF Foretold
  <2>2. CASE c \notin m.cols.add
    <3>1. PICK tc \in m.create : c \in tc.cols
      BY <1>3, <2>2
    <3>2. c.t \notin b.tables /\ OfSource(c, s, p, from, to)
      BY <1>1, <3>1
    <3>3. \A y \in b.cols : y.t \in b.tables
      BY PartsOf
    <3> QED BY <1>2, <3>2, <3>3
  <2> QED BY <2>1, <2>2
<1> QED BY <1>4, <1>5 DEF One

\* What a statement of a run leaves.
Ran(it, db, s, b, m, st) ==
  /\ IsDatabase(it) /\ Kept(it, s, b, m)
  /\ it.tables \subseteq db.tables \cup s.tables
  /\ s.tables \cap db.tables \subseteq it.tables
  /\ st.op = "create_table" => st.of.t \in it.tables
  /\ \A al \in m.cols.alter :
       TypeGiven(al, db) \/ (st.op = "alter_column" /\ st.of = al) => TypeGiven(al, it)

\* The destination in a run of a difference, and a statement that is next.
Running(db, s, b, m, p, from, to, st) ==
  /\ IsDatabase(s) /\ IsDatabase(b) /\ IsDatabase(db)
  /\ Foretold(m, s, b, p, from, to) /\ Kept(db, s, b, m) /\ Means(st, m)

\* A statement that leaves tables and columns.
LEMMA SameRan ==
  ASSUME NEW db, NEW it, NEW s, NEW b, NEW m, NEW st, SameColumns(it, db), Kept(db, s, b, m),
         st.op # "create_table", st.op # "alter_column"
  PROVE  Ran(it, db, s, b, m, st)
<1>1. it.tables = db.tables /\ it.cols = db.cols /\ IsDatabase(it)
  BY DEF SameColumns
<1>2. Kept(it, s, b, m)
  BY <1>1 DEF Kept
<1>3. \A al : TypeGiven(al, db) => TypeGiven(al, it)
  BY <1>1 DEF TypeGiven
<1> QED BY <1>1, <1>2, <1>3 DEF Ran

\* An alteration is of a column that was there.
LEMMA AlterNamesOld ==
  ASSUME NEW db, NEW s, NEW b, NEW m, NEW p, NEW from, NEW to, NEW st, Running(db, s, b, m, p, from, to, st)
  PROVE  /\ \A al \in m.cols.alter : \E y \in b.cols : Column(y) = Column(al)
         /\ \A al \in m.cols.alter : \A c \in NewColumns(m) : Column(c) # Column(al)
         /\ \A al, other \in m.cols.alter : Column(al) = Column(other) => al.to = other.to
<1>1. \A al \in m.cols.alter : Alters(al, s, b, p, from, to)
  BY DEF Running, Foretold
<1>2. \A c \in NewColumns(m) : \A y \in b.cols : Column(y) # Column(c)
  BY NewAreNew DEF Running
<1>3. \A al \in m.cols.alter : \E y \in b.cols : Column(y) = Column(al)
  BY <1>1 DEF Alters
<1>4. ASSUME NEW al \in m.cols.alter, NEW other \in m.cols.alter, Column(al) = Column(other)
      PROVE  al.to = other.to
  <2>1. PICK x \in s.cols : Column(x) = Column(al) /\ al.to = TranslateType(from, to, x.type)
    BY <1>1 DEF Alters
  <2>2. PICK z \in s.cols : Column(z) = Column(other) /\ other.to = TranslateType(from, to, z.type)
    BY <1>1 DEF Alters
  <2>3. x = z
    BY <1>4, <2>1, <2>2, PartsOf DEF Running
  <2> QED BY <2>1, <2>2, <2>3
<1> QED BY <1>2, <1>3, <1>4

\* Columns that are new are no columns of the destination.
LEMMA AddedRan ==
  ASSUME NEW db, NEW s, NEW b, NEW m, NEW p, NEW from, NEW to, NEW st, Running(db, s, b, m, p, from, to, st),
         NEW C, C \subseteq NewColumns(m)
  PROVE  /\ One(db.cols \cup C)
         /\ \A it : it.cols = db.cols \cup C /\ db.tables \subseteq it.tables =>
              Kept(it, s, b, m) /\ \A al \in m.cols.alter : TypeGiven(al, db) => TypeGiven(al, it)
<1>1. /\ One(NewColumns(m))
      /\ \A c \in NewColumns(m) : \A y \in b.cols : Column(y) # Column(c)
  BY NewAreNew DEF Running
<1>2. \A d \in db.cols : Whence(d, b, m)
  BY DEF Running, Kept
<1>3. ASSUME NEW d \in db.cols, NEW c \in C, Column(d) = Column(c) PROVE d = c
  <2>1. CASE d \in NewColumns(m)
    BY <1>1, <1>3, <2>1 DEF One
  <2>2. CASE d \notin NewColumns(m)
    BY <1>1, <1>2, <1>3, <2>2 DEF Whence
  <2> QED BY <2>1, <2>2
<1>4. One(db.cols)
  BY PartsOf DEF Running, One
<1>5. One(db.cols \cup C)
  BY <1>1, <1>3, <1>4 DEF One
<1>6. ASSUME NEW it, it.cols = db.cols \cup C, db.tables \subseteq it.tables
      PROVE  Kept(it, s, b, m) /\ \A al \in m.cols.alter : TypeGiven(al, db) => TypeGiven(al, it)
  <2>1. \A d \in C : Whence(d, b, m)
    BY DEF Whence
  <2>2. Kept(it, s, b, m)
    BY <1>6, <2>1 DEF Kept, Running
  <2>3. \A al \in m.cols.alter : \A c \in C : Column(c) # Column(al)
    BY AlterNamesOld
  <2> QED BY <1>6, <2>2, <2>3 DEF TypeGiven
<1> QED BY <1>5, <1>6

\* After CREATE TABLE.
LEMMA CreateRan ==
  ASSUME NEW e, NEW db, NEW s, NEW b, NEW m, NEW p, NEW from, NEW to, NEW st,
         Running(db, s, b, m, p, from, to, st), st.op = "create_table"
  PROVE  Ran(Effect(e, db, st), db, s, b, m, st)
<1> DEFINE it == Effect(e, db, st)
<1>1. PICK tbl \in m.create : st.of.t = tbl.t /\ st.of.cols = tbl.cols
  BY DEF Running, Means
<1>2. AreCons(st.of.cons)
  BY DEF Running, Means
<1>3. /\ tbl.t \in Nat /\ tbl.t \in s.tables /\ AreColumns(tbl.cols)
      /\ \A c \in tbl.cols : c.t = tbl.t
  BY DEF Running, Foretold, Proper, AreTables
<1>4. tbl.cols \subseteq NewColumns(m)
  BY DEF NewColumns
<1>5. One(db.cols \cup tbl.cols)
  BY <1>4, AddedRan
<1>6. IsDatabase(db)
  BY DEF Running
<1>7. IsDatabase(it) /\ it.tables = db.tables \cup {tbl.t} /\ it.cols = db.cols \cup tbl.cols
  <2>1. /\ st.of.t \in Nat /\ AreColumns(st.of.cols) /\ One(db.cols \cup st.of.cols)
        /\ \A c \in st.of.cols : c.t = st.of.t
    BY <1>1, <1>3, <1>5
  <2>2. IsDatabase(it) /\ it.tables = db.tables \cup {st.of.t} /\ it.cols = db.cols \cup st.of.cols
    BY <1>2, <1>6, <2>1, TableCreated
  <2> HIDE DEF it
  <2> QED BY <1>1, <2>2
<1> HIDE DEF it
<1>8. Kept(it, s, b, m) /\ \A al \in m.cols.alter : TypeGiven(al, db) => TypeGiven(al, it)
  BY <1>4, <1>7, AddedRan
<1>9. Ran(it, db, s, b, m, st)
  BY <1>1, <1>3, <1>7, <1>8 DEF Ran
<1> QED BY <1>9 DEF it

\* After ADD COLUMN.
LEMMA AddRan ==
  ASSUME NEW e, NEW db, NEW s, NEW b, NEW m, NEW p, NEW from, NEW to, NEW st,
         Running(db, s, b, m, p, from, to, st), st.op = "add_column"
  PROVE  Ran(Effect(e, db, st), db, s, b, m, st)
<1> DEFINE it == Effect(e, db, st)
           C == {st.of}
<1>1. st.of \in m.cols.add
  BY DEF Running, Means
<1>2. AreColumns(C)
  BY <1>1, SomeAre DEF Running, Foretold, Proper
<1>3. st.of.t \in s.tables \cap b.tables
  BY <1>1 DEF Running, Foretold
<1>4. C \subseteq NewColumns(m)
  BY <1>1 DEF NewColumns
<1>5. One(db.cols \cup C)
  <2> HIDE DEF C
  <2> QED BY <1>4, AddedRan
<1>6. IsDatabase(db) /\ st.of.t \in db.tables
  BY <1>3 DEF Running, Kept
<1>7. IsDatabase(it) /\ it.tables = db.tables /\ it.cols = db.cols \cup C
  BY <1>2, <1>5, <1>6, ColumnAdded
<1> HIDE DEF it, C
<1>8. Kept(it, s, b, m) /\ \A al \in m.cols.alter : TypeGiven(al, db) => TypeGiven(al, it)
  BY <1>4, <1>7, AddedRan
<1>9. Ran(it, db, s, b, m, st)
  BY <1>7, <1>8 DEF Ran
<1> QED BY <1>9 DEF it

\* After ALTER COLUMN.
LEMMA AlterRan ==
  ASSUME NEW e, NEW db, NEW s, NEW b, NEW m, NEW p, NEW from, NEW to, NEW st,
         Running(db, s, b, m, p, from, to, st), st.op = "alter_column"
  PROVE  Ran(Effect(e, db, st), db, s, b, m, st)
<1> DEFINE it == Effect(e, db, st)
           al == st.of
<1>1. al \in m.cols.alter
  BY DEF Running, Means
<1>2. /\ IsDatabase(it) /\ it.tables = db.tables
      /\ \A d \in it.cols : \E c \in db.cols :
           Column(c) = Column(d) /\ IF Column(c) = Column(al) THEN d.type = al.to ELSE d = c
      /\ \A c \in db.cols : \E d \in it.cols : Column(c) = Column(d)
  BY ColumnAltered DEF Running
<1> HIDE DEF it, al
<1>3. ASSUME NEW d \in it.cols PROVE Whence(d, b, m)
  <2>1. PICK c \in db.cols : Column(c) = Column(d) /\ IF Column(c) = Column(al) THEN d.type = al.to ELSE d = c
    BY <1>2
  <2>2. CASE Column(c) = Column(al)
    <3>1. PICK y \in b.cols : Column(y) = Column(al)
      BY <1>1, AlterNamesOld
    <3> QED BY <1>1, <2>1, <2>2, <3>1 DEF Whence
  <2>3. CASE Column(c) # Column(al)
    BY <2>1, <2>3 DEF Running, Kept
  <2> QED BY <2>2, <2>3
<1>4. Kept(it, s, b, m)
  <2>1. \A c \in b.cols : (\E x \in s.cols : Column(x) = Column(c)) => \E d \in it.cols : Column(d) = Column(c)
    BY <1>2 DEF Running, Kept
  <2> QED BY <1>2, <1>3, <2>1 DEF Running, Kept
<1>5. ASSUME NEW other \in m.cols.alter, TypeGiven(other, db) \/ al = other PROVE TypeGiven(other, it)
  <2> SUFFICES ASSUME NEW d \in it.cols, Column(d) = Column(other) PROVE d.type = other.to
    BY DEF TypeGiven
  <2>1. PICK c \in db.cols : Column(c) = Column(d) /\ IF Column(c) = Column(al) THEN d.type = al.to ELSE d = c
    BY <1>2
  <2>2. CASE Column(c) = Column(al)
    <3>1. \A a1, a2 \in m.cols.alter : Column(a1) = Column(a2) => a1.to = a2.to
      BY AlterNamesOld
    <3>2. al.to = other.to
      BY <1>1, <2>1, <2>2, <3>1
    <3> QED BY <2>1, <2>2, <3>2
  <2>3. CASE Column(c) # Column(al)
    BY <1>5, <2>1, <2>3 DEF TypeGiven
  <2> QED BY <2>2, <2>3
<1>6. Ran(it, db, s, b, m, st)
  BY <1>2, <1>4, <1>5 DEF Ran, al
<1> QED BY <1>6 DEF it

\* After a DROP.
LEMMA DropRan ==
  ASSUME NEW e, NEW db, NEW s, NEW b, NEW m, NEW p, NEW from, NEW to, NEW st,
         Running(db, s, b, m, p, from, to, st), st.op \in {"drop_column", "drop_table"}
  PROVE  Ran(Effect(e, db, st), db, s, b, m, st)
<1> DEFINE it == Effect(e, db, st)
           x == st.of
<1>1. IsDatabase(db)
  BY DEF Running
<1>2. CASE st.op = "drop_column"
  <2>1. x \in m.cols.drop
    BY <1>2 DEF Running, Means
  <2>2. \A y \in s.cols : Column(y) # Column(x)
    BY <2>1 DEF Running, Foretold
  <2>3. IsDatabase(it) /\ it.tables = db.tables /\ it.cols = {d \in db.cols : Column(d) # Column(x)}
    BY <1>1, <1>2, ColumnDropped
  <2> HIDE DEF it
  <2>4. Kept(it, s, b, m)
    BY <2>2, <2>3 DEF Running, Kept
  <2>5. \A al \in m.cols.alter : TypeGiven(al, db) => TypeGiven(al, it)
    BY <2>3 DEF TypeGiven
  <2> QED BY <1>2, <2>3, <2>4, <2>5 DEF Ran, it
<1>3. CASE st.op = "drop_table"
  <2>1. x.t \notin s.tables
    BY <1>3 DEF Running, Foretold, Means
  <2>2. IsDatabase(it) /\ it.tables = db.tables \ {x.t}
        /\ it.cols \subseteq db.cols /\ \A d \in db.cols : d \in it.cols <=> d.t # x.t
    <3>1. WithoutTable(it, db, x.t)
      BY <1>1, <1>3, TableDropped
    <3> HIDE DEF it
    <3> QED BY <3>1 DEF WithoutTable
  <2> HIDE DEF it
  <2>3. \A y \in s.cols : y.t # x.t
    BY <2>1, PartsOf DEF Running
  <2>4. \A c, d : Column(c) = Column(d) => c.t = d.t
    BY DEF Column
  <2>5. Kept(it, s, b, m)
    BY <2>1, <2>2, <2>3, <2>4 DEF Running, Kept
  <2>6. \A al \in m.cols.alter : TypeGiven(al, db) => TypeGiven(al, it)
    BY <2>2 DEF TypeGiven
  <2> QED BY <1>3, <2>1, <2>2, <2>5, <2>6 DEF Ran, it
<1> QED BY <1>2, <1>3

\* After any statement of the run.
LEMMA StatementRan ==
  ASSUME NEW e, NEW db, NEW s, NEW b, NEW m, NEW p, NEW from, NEW to, NEW st,
         Running(db, s, b, m, p, from, to, st)
  PROVE  Ran(Effect(e, db, st), db, s, b, m, st)
<1>1. CASE st.op = "create_table"
  BY <1>1, CreateRan
<1>2. CASE st.op = "add_column"
  BY <1>2, AddRan
<1>3. CASE st.op = "alter_column"
  BY <1>3, AlterRan
<1>4. CASE st.op \in {"drop_column", "drop_table"}
  BY <1>4, DropRan
<1>5. CASE ~ (st.op \in {"create_table", "add_column", "alter_column", "drop_column", "drop_table"})
  <2>1. \/ st.op = "add_constraint" /\ AreCons({st.of})
        \/ st.op = "create_index" /\ AreIdx({st.of})
        \/ st.op \in {"drop_constraint", "drop_index", "drop_index_if_exists"}
    BY <1>5 DEF Running, Means
  <2>2. SameColumns(Effect(e, db, st), db)
    BY <2>1, OtherwiseDone DEF Running
  <2>3. Kept(db, s, b, m) /\ st.op # "create_table" /\ st.op # "alter_column"
    BY <1>5 DEF Running
  <2> QED BY <2>2, <2>3, SameRan
<1> QED BY <1>1, <1>2, <1>3, <1>4, <1>5

\* The list of what is left, once its first has been said.
LEMMA FirstSaid ==
  ASSUME NEW list, IsList(list), list # <<>>
  PROVE  /\ Head(list) \in Said(list)
         /\ IsList(Tail(list)) /\ Said(list) = {Head(list)} \cup Said(Tail(list))
<1> DEFINE S == Said(list)
           n == Len(list)
           rest == Tail(list)
<1>1. list \in Seq(S)
  BY DEF IsList
<1> HIDE DEF S
<1>2. n \in Nat /\ n # 0 /\ list \in [1 .. n -> S]
  BY <1>1, LenProperties, EmptySeq
<1>3. Head(list) = list[1] /\ rest \in Seq(S) /\ Len(rest) = n - 1 /\ \A i \in 1 .. n - 1 : rest[i] = list[i + 1]
  BY <1>1, HeadTailProperties
<1> HIDE DEF rest, n
<1>4. Head(list) \in Said(list)
  <2>1. 1 \in 1 .. n
    BY <1>2
  <2> QED BY <1>3, <2>1 DEF Said, n
<1>5. IsList(rest)
  BY <1>3, ListOf
<1>6. \A k \in 1 .. n - 1 : k + 1 \in 1 .. n
  BY <1>2
<1>7. Said(rest) \subseteq Said(list)
  BY <1>3, <1>6 DEF Said, n
<1>8. ASSUME NEW k \in 1 .. n PROVE list[k] \in {Head(list)} \cup Said(rest)
  <2>1. CASE k = 1
    BY <1>3, <2>1
  <2>2. CASE k # 1
    <3>1. k - 1 \in 1 .. n - 1 /\ (k - 1) + 1 = k
      BY <1>2, <2>2
    <3>2. rest[k - 1] = list[k]
      BY <1>3, <3>1
    <3>3. rest[k - 1] \in Said(rest)
      BY <1>3, <3>1 DEF Said
    <3> QED BY <3>2, <3>3
  <2> QED BY <2>1, <2>2
<1>9. Said(list) \subseteq {Head(list)} \cup Said(rest)
  BY <1>8 DEF Said, n
<1> QED BY <1>4, <1>5, <1>7, <1>9 DEF rest

\* An empty list says nothing.
LEMMA NothingSaid == Said(<<>>) = {} /\ IsList(<<>>) /\ \A df : Tells(<<>>, df)
<1>1. Len(<<>>) = 0
  BY EmptySeq
<1>2. Said(<<>>) = {}
  BY <1>1 DEF Said
<1>3. IsList(<<>>)
  BY EmptySeq DEF IsList
<1> QED BY <1>2, <1>3 DEF Tells

\* What a refusal is called.
LEMMA RefusalNames ==
  ASSUME NEW e, NEW db, NEW st
  PROVE  Refusal(e, db, st) \in {"none", "other", "needed"}
<1>1. \A op, x : /\ KeyDropRefusal(e, db, x) \in {"none", "other", "needed"}
                 /\ IndexDropRefusal(e, db, op, x) \in {"none", "other", "needed"}
  BY DEF KeyDropRefusal, IndexDropRefusal
<1> QED BY <1>1 DEF Refusal

-----------------------------------------------------------------------------
(***************************************************************************)
(* What holds in every run.                                                *)
(***************************************************************************)

\* Both databases, and what the run found, can be inspected and compared; the difference is
\* what the review screen was made of, in the destination's types; what is left to run is
\* part of it; and what both sides had is there.
SoundRun ==
  /\ IsDatabase(src) /\ IsDatabase(before) /\ IsDatabase(dst)
  /\ diff = TranslateDiff(PreviewDiff, pair.src, pair.dst)
  /\ stage = "idle" => script = <<>>
  /\ Tells(script, diff)
  /\ Kept(dst, src, before, diff)

\* Each table to create, and each column to alter, was or is still to be.
Covered(db, m, list) ==
  /\ \A tbl \in m.create : tbl.t \in db.tables \/ \E st \in Said(list) : st.op = "create_table" /\ st.of.t = tbl.t
  /\ \A al \in m.cols.alter : TypeGiven(al, db) \/ \E st \in Said(list) : st.op = "alter_column" /\ st.of = al

FullRun ==
  stage # "idle" \/ verdict = "ok" =>
    dst.tables \subseteq before.tables \cup src.tables /\ Covered(dst, diff, script)

PreviewInv == SoundRun /\ FullRun

\* The difference of a run is what the review screen was made of.
LEMMA DiffForetold ==
  ASSUME IsDatabase(src), IsDatabase(before), diff = TranslateDiff(PreviewDiff, pair.src, pair.dst)
  PROVE  Proper(diff) /\ Foretold(diff, src, before, PreviewDiff, pair.src, pair.dst)
<1> DEFINE S == SourceSchema
           D == Inspect(pair.dst, before)
<1>1. IsDatabase(S) /\ S.tables = src.tables /\ S.cols = src.cols
  BY Inspected DEF SourceSchema
<1>2. IsDatabase(D) /\ D.tables = before.tables /\ D.cols = before.cols
  BY Inspected
<1>3. PreviewDiff = Diff(pair.dst, S, D)
  BY DEF PreviewDiff
<1> HIDE DEF S, D
<1>4. diff = Meant(S, D, pair.src, pair.dst)
  BY <1>3 DEF Meant
<1>5. Foretold(diff, S, D, PreviewDiff, pair.src, pair.dst)
  BY <1>1, <1>2, <1>3, <1>4, MeantIsForetold
<1>6. Foretold(diff, src, before, PreviewDiff, pair.src, pair.dst)
  BY <1>1, <1>2, <1>5, ForetoldOf
<1> QED BY <1>6 DEF Foretold

\* Nothing is lost before the first statement.
LEMMA KeptAtFirst ==
  ASSUME NEW b, NEW s, NEW m
  PROVE  Kept(b, s, b, m)
  BY DEF Kept, Whence

\* What a run finds and means to do.
LEMMA RunStarted ==
  ASSUME IsDatabase(src), IsDatabase(dst), before' = dst,
         diff' = Difference(SchemaNow), UNCHANGED <<pair, src, dst>>
  PROVE  /\ IsDatabase(src') /\ IsDatabase(before') /\ IsDatabase(dst')
         /\ diff' = TranslateDiff(PreviewDiff', pair'.src, pair'.dst)
         /\ Proper(diff')
         /\ Foretold(diff', src', before', PreviewDiff', pair'.src, pair'.dst)
<1> DEFINE S == SourceSchema
           D == SchemaNow
<1>1. IsDatabase(S) /\ S.tables = src.tables /\ S.cols = src.cols
  BY Inspected DEF SourceSchema
<1>2. IsDatabase(D) /\ D.tables = dst.tables /\ D.cols = dst.cols
  BY Inspected DEF SchemaNow
<1>3. PreviewDiff' = Diff(pair.dst, S, D)
  BY DEF PreviewDiff, SourceSchema, SchemaNow
<1>4. diff' = TranslateDiff(Diff(pair.dst, S, D), pair.src, pair.dst)
  BY DEF Difference
<1> HIDE DEF S, D
<1>5. Foretold(diff', S, D, PreviewDiff', pair.src, pair.dst)
  BY <1>1, <1>2, <1>3, <1>4, MeantIsForetold DEF Meant
<1>6. Foretold(diff', src, dst, PreviewDiff', pair.src, pair.dst)
  BY <1>1, <1>2, <1>5, ForetoldOf
<1>7. Proper(diff')
  BY <1>6 DEF Foretold
<1> QED BY <1>3, <1>4, <1>6, <1>7

\* A run is yet to begin.
LEMMA PreviewInit == SyncInit => PreviewInv
<1> SUFFICES ASSUME SyncInit PROVE PreviewInv
  OBVIOUS
<1>1. IsDatabase(src) /\ IsDatabase(before) /\ IsDatabase(dst)
  BY DatabasesAssumption DEF SyncInit
<1>2. diff = TranslateDiff(PreviewDiff, pair.src, pair.dst)
  BY DEF SyncInit, Difference, SchemaNow, PreviewDiff
<1>3. Tells(script, diff)
  BY NothingSaid DEF SyncInit
<1>4. Kept(dst, src, before, diff)
  BY KeptAtFirst DEF SyncInit
<1>5. SoundRun
  BY <1>1, <1>2, <1>3, <1>4 DEF SoundRun, SyncInit
<1>6. FullRun
  BY DEF FullRun, SyncInit
<1> QED BY <1>5, <1>6 DEF PreviewInv

\* A run begins with what it finds.
LEMMA StartRunKeeps == PreviewInv /\ StartRun => PreviewInv'
<1> SUFFICES ASSUME PreviewInv, StartRun PROVE PreviewInv'
  OBVIOUS
<1>1. IsDatabase(src) /\ IsDatabase(dst)
  BY DEF PreviewInv, SoundRun
<1>2. before' = dst /\ diff' = Difference(SchemaNow) /\ UNCHANGED <<pair, src, dst>>
      /\ script' = Apply(pair.dst, diff') /\ stage' = "apply"
  BY DEF StartRun
<1>3. /\ IsDatabase(src') /\ IsDatabase(before') /\ IsDatabase(dst')
      /\ diff' = TranslateDiff(PreviewDiff', pair'.src, pair'.dst)
      /\ Proper(diff')
      /\ Foretold(diff', src', before', PreviewDiff', pair'.src, pair'.dst)
  BY <1>1, <1>2, RunStarted
<1>4. Tells(script', diff') /\ Needed(script', diff')
  BY <1>2, <1>3, ApplyTells
<1>5. Kept(dst', src', before', diff')
  BY <1>2, KeptAtFirst
<1>6. SoundRun'
  BY <1>2, <1>3, <1>4, <1>5 DEF SoundRun
<1>7. Covered(dst', diff', script')
  BY <1>4 DEF Covered, Needed
<1>8. FullRun'
  BY <1>2, <1>7 DEF FullRun
<1> QED BY <1>6, <1>8 DEF PreviewInv

\* A statement does what it says, or is refused.
LEMMA RunStatementKeeps == PreviewInv /\ RunStatement => PreviewInv'
<1> SUFFICES ASSUME PreviewInv, RunStatement PROVE PreviewInv'
  OBVIOUS
<1> DEFINE st == Head(script)
           why == Refusal(pair.dst, dst, st)
           p == PreviewDiff
<1>1. /\ stage \in {"apply", "index"} /\ script # <<>> /\ UNCHANGED <<pair, src, before, diff>>
      /\ \/ Succeeds
         \/ why # "none" /\ RefusedFor(why)
         \/ RefusedFor("other")
  BY DEF RunStatement
<1>2. why \in {"none", "other", "needed"}
  BY RefusalNames
<1>3. Succeeds \/ \E w \in {"other", "needed"} : RefusedFor(w)
  BY <1>1, <1>2
<1> HIDE DEF why
<1>4. IsDatabase(src) /\ IsDatabase(before) /\ IsDatabase(dst) /\ Kept(dst, src, before, diff)
      /\ Tells(script, diff) /\ diff = TranslateDiff(PreviewDiff, pair.src, pair.dst)
  BY DEF PreviewInv, SoundRun
<1>5. dst.tables \subseteq before.tables \cup src.tables /\ Covered(dst, diff, script)
  BY <1>1 DEF PreviewInv, FullRun
<1>6. st \in Said(script) /\ Said(script) = {st} \cup Said(Tail(script)) /\ Tells(Tail(script), diff)
      /\ Means(st, diff)
  BY <1>1, <1>4, FirstSaid DEF Tells
<1>7. PreviewDiff' = PreviewDiff
  BY <1>1 DEF PreviewDiff, SourceSchema
<1>8. diff' = TranslateDiff(PreviewDiff', pair'.src, pair'.dst)
  BY <1>1, <1>4, <1>7
<1> HIDE DEF st
<1>9. CASE Succeeds
  <2> DEFINE it == Effect(pair.dst, dst, st)
  <2>1. dst' = it /\ script' = Tail(script) /\ stage' = stage
    BY <1>9 DEF Succeeds, st
  <2>2. Foretold(diff, src, before, PreviewDiff, pair.src, pair.dst)
    BY <1>4, DiffForetold
  <2>3. Running(dst, src, before, diff, PreviewDiff, pair.src, pair.dst, st)
    BY <1>4, <1>6, <2>2 DEF Running
  <2>4. Ran(it, dst, src, before, diff, st)
    BY <2>3, StatementRan
  <2> HIDE DEF it
  <2>5. SoundRun'
    BY <1>1, <1>4, <1>6, <1>8, <2>1, <2>4 DEF SoundRun, Ran
  <2>6. it.tables \subseteq before.tables \cup src.tables
    BY <1>5, <2>4 DEF Ran
  <2>7. \A tbl \in diff.create : tbl.t \in src.tables
    BY <2>2 DEF Foretold
  <2>8. Covered(it, diff, Tail(script))
    <3>1. ASSUME NEW tbl \in diff.create
          PROVE  tbl.t \in it.tables \/ \E s \in Said(Tail(script)) : s.op = "create_table" /\ s.of.t = tbl.t
      BY <1>5, <1>6, <2>4, <2>7 DEF Covered, Ran
    <3>2. ASSUME NEW al \in diff.cols.alter
          PROVE  TypeGiven(al, it) \/ \E s \in Said(Tail(script)) : s.op = "alter_column" /\ s.of = al
      BY <1>5, <1>6, <2>4 DEF Covered, Ran
    <3> QED BY <3>1, <3>2 DEF Covered
  <2>9. FullRun'
    BY <1>1, <2>1, <2>6, <2>8 DEF FullRun
  <2> QED BY <2>5, <2>9 DEF PreviewInv
<1>10. ASSUME NEW w \in {"other", "needed"}, RefusedFor(w) PROVE PreviewInv'
  <2>1. CASE st.spare \in {"any", w}
    <3>1. script' = Tail(script) /\ dst' = dst /\ stage' = stage
      BY <1>10, <2>1 DEF RefusedFor, Skipped, st
    <3>2. SoundRun'
      BY <1>1, <1>4, <1>6, <1>8, <3>1 DEF SoundRun
    <3>3. st.spare # "no"
      BY <2>1
    <3>4. st.op # "create_table" /\ st.op # "alter_column"
      BY <1>6, <3>3 DEF Means
    <3>5. Covered(dst, diff, Tail(script))
      BY <1>5, <1>6, <3>4 DEF Covered
    <3>6. FullRun'
      BY <1>1, <1>5, <3>1, <3>5 DEF FullRun
    <3> QED BY <3>2, <3>6 DEF PreviewInv
  <2>2. CASE st.spare \notin {"any", w}
    <3>1. /\ verdict' = "failed" /\ stage' = "idle" /\ script' = <<>>
          /\ dst' = before \/ dst' = dst
      BY <1>10, <2>2 DEF RefusedFor, Failed, RollBack, st
    <3>2. IsDatabase(dst') /\ Kept(dst', src, before, diff)
      BY <1>4, <3>1, KeptAtFirst
    <3>3. SoundRun'
      BY <1>1, <1>4, <1>8, <3>1, <3>2, NothingSaid DEF SoundRun
    <3>4. FullRun'
      BY <3>1 DEF FullRun
    <3> QED BY <3>3, <3>4 DEF PreviewInv
  <2> QED BY <2>1, <2>2
<1> QED BY <1>3, <1>9, <1>10

\* The rows and the counters leave the schema alone.
LEMMA LoadKeeps == PreviewInv /\ Load => PreviewInv'
<1> SUFFICES ASSUME PreviewInv, Load PROVE PreviewInv'
  OBVIOUS
<1>1. /\ stage = "apply" /\ script = <<>> /\ UNCHANGED <<pair, src, dst, before, diff>>
      /\ \/ stage' = "index" /\ script' = CreateIndexes(diff)
         \/ Failed
  BY DEF Load
<1>2. IsDatabase(src) /\ IsDatabase(before) /\ IsDatabase(dst) /\ Kept(dst, src, before, diff)
      /\ diff = TranslateDiff(PreviewDiff, pair.src, pair.dst)
  BY DEF PreviewInv, SoundRun
<1>3. PreviewDiff' = PreviewDiff
  BY <1>1 DEF PreviewDiff, SourceSchema
<1>4. dst.tables \subseteq before.tables \cup src.tables /\ Covered(dst, diff, <<>>)
  BY <1>1 DEF PreviewInv, FullRun
<1>5. CASE stage' = "index" /\ script' = CreateIndexes(diff)
  <2>1. Tells(script', diff')
    BY <1>1, <1>2, <1>5, DiffForetold, IndexesTell
  <2>2. SoundRun'
    BY <1>1, <1>2, <1>3, <1>5, <2>1 DEF SoundRun
  <2>3. Covered(dst, diff, script')
    BY <1>4, NothingSaid DEF Covered
  <2>4. FullRun'
    BY <1>1, <1>4, <2>3 DEF FullRun
  <2> QED BY <2>2, <2>4 DEF PreviewInv
<1>6. CASE Failed
  <2>1. verdict' = "failed" /\ stage' = "idle" /\ script' = <<>>
    BY <1>6 DEF Failed
  <2>2. SoundRun'
    BY <1>1, <1>2, <1>3, <2>1, NothingSaid DEF SoundRun
  <2>3. FullRun'
    BY <2>1 DEF FullRun
  <2> QED BY <2>2, <2>3 DEF PreviewInv
<1> QED BY <1>1, <1>5, <1>6

\* The counters leave the schema alone.
LEMMA ResetKeeps == PreviewInv /\ ResetSequences => PreviewInv'
<1> SUFFICES ASSUME PreviewInv, ResetSequences PROVE PreviewInv'
  OBVIOUS
<1>1. stage = "index" /\ script = <<>> /\ stage' = "idle" /\ UNCHANGED <<pair, src, dst, before, script, diff>>
  BY DEF ResetSequences
<1>2. PreviewDiff' = PreviewDiff
  BY <1>1 DEF PreviewDiff, SourceSchema
<1>3. SoundRun'
  BY <1>1, <1>2 DEF PreviewInv, SoundRun
<1>4. FullRun'
  BY <1>1 DEF PreviewInv, FullRun
<1> QED BY <1>3, <1>4 DEF PreviewInv

\* On any databases, whatever is refused or fails in any run, the destination keeps the tables
\* and columns that both sides have, holds no column that neither the run found nor the
\* difference names, and lacks nothing a run that ended well was to create or to alter.
THEOREM PreviewInductive == SyncSpec => []PreviewInv
<1>1. SyncInit => PreviewInv
  BY PreviewInit
<1>2. PreviewInv /\ [SyncNext]_syncVars => PreviewInv'
  <2>1. ASSUME PreviewInv, UNCHANGED syncVars PROVE PreviewInv'
    <3>1. UNCHANGED <<pair, src, dst, before, stage, script, diff, verdict>>
      BY <2>1 DEF syncVars
    <3>2. PreviewDiff' = PreviewDiff
      BY <3>1 DEF PreviewDiff, SourceSchema
    <3>3. SoundRun'
      BY <2>1, <3>1, <3>2 DEF PreviewInv, SoundRun
    <3>4. FullRun'
      BY <2>1, <3>1 DEF PreviewInv, FullRun
    <3> QED BY <3>3, <3>4 DEF PreviewInv
  <2> QED BY <2>1, StartRunKeeps, RunStatementKeeps, LoadKeeps, ResetKeeps DEF SyncNext
<1> QED BY <1>1, <1>2, PTL DEF SyncSpec

-----------------------------------------------------------------------------
(***************************************************************************)
(* What a run that ended well leaves is what its review said.              *)
(***************************************************************************)

\* The review names a column whose type the engines do not spell alike, if it looks at it.
LEMMA NamedByReview ==
  ASSUME NEW x, Row(x) \in Considered(PreviewDiff)
  PROVE  Column(x) \in TypeChanges \/ TranslateType(pair.src, pair.dst, x.type) = x.type
<1> DEFINE r == Row(x)
<1>1. r.type = x.type /\ Column(r) = Column(x)
  BY DEF Row, Column
<1> HIDE DEF r
<1>2. r \in Considered(PreviewDiff)
  BY DEF r
<1> QED BY <1>1, <1>2 DEF TypeChanges

\* Every statement of the run's beginning was run.
LEMMA AllDone ==
  ASSUME NEW db, NEW m, Covered(db, m, <<>>)
  PROVE  /\ \A tbl \in m.create : tbl.t \in db.tables
         /\ \A al \in m.cols.alter : TypeGiven(al, db)
  BY NothingSaid DEF Covered

\* The new tables are those the review would create.
LEMMA TablesForetold ==
  ASSUME {tbl.t : tbl \in diff.create} = src.tables \ before.tables,
         dst.tables \subseteq before.tables \cup src.tables, Covered(dst, diff, <<>>)
  PROVE  dst.tables \ before.tables = {t \in src.tables : Disposition(t) = "create"}
<1>1. \A t \in src.tables : Disposition(t) = "create" <=> t \notin before.tables
  BY DEF Disposition, Extra, ToEmpty
<1>2. src.tables \ before.tables \subseteq dst.tables
  BY AllDone
<1> QED BY <1>1, <1>2

\* A column that has another type than the run found has that of the source's, and the review
\* looked at it.
LEMMA RetypedForetold ==
  ASSUME NEW s, NEW b, IsDatabase(s), IsDatabase(b), NEW m, NEW p, NEW from, NEW to,
         Foretold(m, s, b, p, from, to),
         NEW d, Whence(d, b, m), NEW c \in b.cols, Column(d) = Column(c), d.type # c.type
  PROVE  \E x \in s.cols : Column(x) = Column(c) /\ Row(x) \in Considered(p)
<1>1. d \notin NewColumns(m)
  BY NewAreNew
<1>2. PICK y \in b.cols : /\ Column(y) = Column(d)
                          /\ \/ y.type = d.type
                             \/ \E al \in m.cols.alter : Column(al) = Column(d) /\ d.type = al.to
  BY <1>1 DEF Whence
<1>3. y = c
  BY <1>2, PartsOf
<1>4. PICK al \in m.cols.alter : Column(al) = Column(d)
  BY <1>2, <1>3
<1>5. Alters(al, s, b, p, from, to)
  BY DEF Foretold
<1> QED BY <1>4, <1>5 DEF Alters

\* If the review names no type, every column has that of the source's.
LEMMA UnnamedAlike ==
  ASSUME NEW s, NEW b, IsDatabase(s), IsDatabase(b), NEW m, NEW p, NEW from, NEW to,
         Foretold(m, s, b, p, from, to),
         \A x \in s.cols : Row(x) \in Considered(p) => TranslateType(from, to, x.type) = x.type,
         NEW db, Covered(db, m, <<>>), NEW d \in db.cols, Whence(d, b, m),
         NEW x \in s.cols, Column(x) = Column(d)
  PROVE  x.type = d.type
<1>1. CASE d \in NewColumns(m)
  <2>1. OfSource(d, s, p, from, to)
    BY <1>1, NewAreNew
  <2>2. PICK y \in s.cols : Column(d) = Column(y) /\ d.type = TranslateType(from, to, y.type)
                            /\ Row(y) \in Considered(p)
    BY <2>1 DEF OfSource
  <2>3. y = x
    BY <2>2, PartsOf
  <2> QED BY <2>2, <2>3
<1>2. CASE d \notin NewColumns(m)
  <2>1. PICK c \in b.cols : /\ Column(c) = Column(d)
                            /\ \/ c.type = d.type
                               \/ \E al \in m.cols.alter : Column(al) = Column(d) /\ d.type = al.to
    BY <1>2 DEF Whence
  <2>2. CASE x.type # c.type
    <3>1. PICK al \in m.cols.alter : Column(al) = Column(x) /\ al.to = x.type
      BY <2>1, <2>2 DEF Foretold
    <3>2. TypeGiven(al, db)
      BY AllDone
    <3> QED BY <3>1, <3>2 DEF TypeGiven
  <2>3. CASE x.type = c.type
    <3>1. ASSUME NEW al \in m.cols.alter, Column(al) = Column(d) PROVE FALSE
      <4>1. Alters(al, s, b, p, from, to)
        BY DEF Foretold
      <4>2. PICK v \in s.cols, w \in b.cols : Column(v) = Column(al) /\ Column(w) = Column(al) /\ v.type # w.type
        BY <4>1 DEF Alters
      <4>3. v = x /\ w = c
        BY <2>1, <3>1, <4>2, PartsOf
      <4> QED BY <2>3, <4>2, <4>3
    <3> QED BY <2>1, <2>3, <3>1
  <2> QED BY <2>2, <2>3
<1> QED BY <1>1, <1>2

\* The invariant says what the preview promises.
LEMMA PreviewTold == PreviewInv => PreviewForetells
<1> SUFFICES ASSUME PreviewInv, stage = "idle", verdict = "ok"
             PROVE  /\ dst.tables \ before.tables = {t \in src.tables : Disposition(t) = "create"}
                    /\ \A c \in before.cols : Renamed(c) => Column(c) \in TypeChanges \/ SpeltAlike(c)
                    /\ "types_translated" \notin Warnings =>
                         \A s \in src.cols, d \in dst.cols : Column(s) = Column(d) => s.type = d.type
  BY Zenon DEF PreviewForetells
<1> DEFINE p == PreviewDiff
<1>1. /\ IsDatabase(src) /\ IsDatabase(before) /\ diff = TranslateDiff(p, pair.src, pair.dst)
      /\ Kept(dst, src, before, diff) /\ script = <<>>
  BY DEF PreviewInv, SoundRun
<1>2. dst.tables \subseteq before.tables \cup src.tables /\ Covered(dst, diff, <<>>)
  BY <1>1 DEF PreviewInv, FullRun
<1>3. Foretold(diff, src, before, p, pair.src, pair.dst)
  BY <1>1, DiffForetold
<1>4. \A x : Row(x) \in Considered(p) =>
               Column(x) \in TypeChanges \/ TranslateType(pair.src, pair.dst, x.type) = x.type
  BY NamedByReview
<1> HIDE DEF p
<1>5. \A d \in dst.cols : Whence(d, before, diff)
  BY <1>1 DEF Kept
<1>6. dst.tables \ before.tables = {t \in src.tables : Disposition(t) = "create"}
  <2>1. {tbl.t : tbl \in diff.create} = src.tables \ before.tables
    BY <1>3 DEF Foretold
  <2> QED BY <1>2, <2>1, TablesForetold
<1>7. ASSUME NEW c \in before.cols, Renamed(c) PROVE Column(c) \in TypeChanges \/ SpeltAlike(c)
  <2>1. PICK d \in dst.cols : Column(d) = Column(c) /\ d.type # c.type
    BY <1>7 DEF Renamed
  <2>2. PICK x \in src.cols : Column(x) = Column(c) /\ Row(x) \in Considered(p)
    BY <1>1, <1>3, <1>5, <2>1, RetypedForetold
  <2> QED BY <1>4, <2>2 DEF SpeltAlike
<1>8. ASSUME "types_translated" \notin Warnings, NEW s \in src.cols, NEW d \in dst.cols, Column(s) = Column(d)
      PROVE  s.type = d.type
  <2>1. TypeChanges = {}
    BY <1>8 DEF Warnings
  <2>2. \A x \in src.cols : Row(x) \in Considered(p) => TranslateType(pair.src, pair.dst, x.type) = x.type
    BY <1>4, <2>1
  <2> QED BY <1>1, <1>2, <1>3, <1>5, <1>8, <2>2, UnnamedAlike
<1> QED BY <1>6, <1>7, <1>8

\* After a run that went well the destination is what its preview said, on any databases and
\* any pair of engines: the tables to create are the new ones, every column whose type the run
\* changed was named unless the engines spell the type alike, and if no warning told of types
\* each column has the source's.
THEOREM PreviewIsRight == SyncSpec => []PreviewForetells
  BY PreviewInductive, PreviewTold, PTL

\* At no statement, whatever was refused or failed before, does the destination lack a table
\* or a column that the run found there and that the source has: a run drops only what the
\* source does not have (the tables and columns of KeepsShared).
SharedStays ==
  LET had == Holdings(Inspect(pair.dst, before))
      has == Holdings(SchemaNow)
      src_ == Holdings(SourceSchema)
  IN \A part \in {"tables", "cols"} : had[part] \cap src_[part] \subseteq has[part]

\* SharedStays holds on any databases, whatever is refused or fails.
THEOREM SharedNeverLost == SyncSpec => []SharedStays
<1>1. PreviewInv => SharedStays
  <2> SUFFICES ASSUME PreviewInv PROVE SharedStays
    OBVIOUS
  <2> DEFINE D == Inspect(pair.dst, before)
             S == SourceSchema
             A == SchemaNow
  <2>1. /\ IsDatabase(src) /\ IsDatabase(before) /\ IsDatabase(dst) /\ Kept(dst, src, before, diff)
    BY DEF PreviewInv, SoundRun
  <2>2. /\ D.tables = before.tables /\ D.cols = before.cols
        /\ S.tables = src.tables /\ S.cols = src.cols
        /\ A.tables = dst.tables /\ A.cols = dst.cols
    BY <2>1, Inspected DEF SourceSchema, SchemaNow
  <2> HIDE DEF D, S, A
  <2>3. \A db : Holdings(db).tables = db.tables /\ Holdings(db).cols = {Column(c) : c \in db.cols}
    BY DEF Holdings
  <2>4. D.tables \cap S.tables \subseteq A.tables
    BY <2>1, <2>2 DEF Kept
  <2>5. {Column(c) : c \in D.cols} \cap {Column(c) : c \in S.cols} \subseteq {Column(c) : c \in A.cols}
    BY <2>1, <2>2 DEF Kept
  <2>6. \A part \in {"tables", "cols"} : Holdings(D)[part] \cap Holdings(S)[part] \subseteq Holdings(A)[part]
    BY <2>3, <2>4, <2>5
  <2> QED BY <2>6 DEF SharedStays, D, S, A
<1> QED BY <1>1, PreviewInductive, PTL

-----------------------------------------------------------------------------
(***************************************************************************)
(* Keys and indexes, where names agree.                                    *)
(***************************************************************************)

\* A key as the source has it, by the name the destination gives it.
FromSource(e, k, s) ==
  \E y \in s.cons :
    /\ k.t = y.t /\ k.kind = y.kind /\ k.cols = y.cols
    /\ k.name = y.name \/ (e = "pg" /\ y.name = <<"PRIMARY">>)

\* On a column the source does not have.
Astray(x, s) ==
  x.cols = <<>> \/ \E m \in 1 .. Len(x.cols) : \A c \in s.cols : Column(c) # <<x.t, x.cols[m]>>

\* u is the unique key y of the source.
IsUnique(u, y) == u.kind = "unique" /\ IndexKey(u) = IndexKey(y)
HasUnique(db, y) == \E u \in db.cons : IsUnique(u, y)
HasUniques(db, s) == \A y \in s.cons : y.kind = "unique" => HasUnique(db, y)

\* What both sides have is there; and off PG every key is of one of them.
KeysHeld(e, db, s, b) ==
  /\ \A x \in b.cons : (\E y \in s.cons : ConstraintKey(y) = ConstraintKey(x)) => x \in db.cons
  /\ \A i \in b.idx :
       /\ \E j \in s.idx : IndexKey(j) = IndexKey(i)
       /\ e = "pg" \/ \A k \in b.cons : IndexKey(k) # IndexKey(i)
       => i \in db.idx
  /\ e # "pg" => \A k \in db.cons :
       \/ \E x \in b.cons : IndexKey(x) = IndexKey(k)
       \/ \E y \in s.cons : IndexKey(y) = IndexKey(k) /\ y.kind = k.kind

\* What a statement st makes of the keys and indexes of db.
Follows(e, it, db, s, b, st) ==
  /\ \A k \in it.cons :
       \/ k \in db.cons
       \/ FromSource(e, k, s)
       \/ \E was \in db.cons : IndexKey(was) = IndexKey(k) /\ was.kind = k.kind /\ Astray(was, s)
  /\ \A k \in db.cons :
       k \in it.cons \/ Astray(k, s) \/ \A y \in s.cons : ConstraintKey(y) # ConstraintKey(k)
  /\ \A i \in it.idx :
       \/ i \in db.idx
       \/ st.op = "create_index" /\ i \in s.idx /\ \A u \in db.cons : ~ IsUnique(u, i)
       \/ \E c : c.kind = "fk" /\ FromSource(e, c, s) /\ i = FkIndex(c)
       \/ \E was \in db.idx : IndexKey(was) = IndexKey(i) /\ Astray(was, s)
  /\ \A i \in db.idx :
       \/ i \in it.idx \/ Astray(i, s)
       \/ \A j \in s.idx : IndexKey(j) # IndexKey(i)
       \/ e = "mysql" /\ \E f \in b.cons : IndexKey(f) = IndexKey(i)
       \/ e = "mysql" /\ \E f \in db.cons : f.kind = "fk" /\ IndexKey(f) = IndexKey(i)

\* What a key is found by.
LEMMA KeyIs ==
  ASSUME NEW x, NEW y
  PROVE  /\ ConstraintKey(x) = ConstraintKey(y) =>
              /\ x.t = y.t
              /\ \/ x.kind = "pk" /\ y.kind = "pk" /\ x.cols = y.cols
                 \/ x.kind # "pk" /\ y.kind # "pk" /\ IndexKey(x) = IndexKey(y)
         /\ x.kind # "pk" /\ y.kind # "pk" /\ IndexKey(x) = IndexKey(y) => ConstraintKey(x) = ConstraintKey(y)
         /\ IndexKey(x) = IndexKey(y) <=> x.t = y.t /\ x.name = y.name
<1>1. IndexKey(x) = IndexKey(y) <=> x.t = y.t /\ x.name = y.name
  BY DEF IndexKey
<1>2. /\ x.kind = "pk" => ConstraintKey(x) = <<x.t, "pk", x.cols>>
      /\ x.kind # "pk" => ConstraintKey(x) = IndexKey(x)
      /\ y.kind = "pk" => ConstraintKey(y) = <<y.t, "pk", y.cols>>
      /\ y.kind # "pk" => ConstraintKey(y) = IndexKey(y)
  BY DEF ConstraintKey, IndexKey
<1>3. \A a1, a2, a3, c1, c2 : <<a1, a2, a3>> # <<c1, c2>>
  <2> SUFFICES ASSUME NEW a1, NEW a2, NEW a3, NEW c1, NEW c2, <<a1, a2, a3>> = <<c1, c2>> PROVE FALSE
    OBVIOUS
  <2>1. Len(<<a1, a2, a3>>) = 3 /\ Len(<<c1, c2>>) = 2
    OBVIOUS
  <2> QED BY <2>1
<1>4. x.kind = "pk" /\ y.kind # "pk" => ConstraintKey(x) # ConstraintKey(y)
  BY <1>2, <1>3 DEF IndexKey
<1>5. x.kind # "pk" /\ y.kind = "pk" => ConstraintKey(x) # ConstraintKey(y)
  BY <1>2, <1>3 DEF IndexKey
<1>6. x.kind = "pk" /\ y.kind = "pk" /\ ConstraintKey(x) = ConstraintKey(y) => x.t = y.t /\ x.cols = y.cols
  BY <1>2
<1> QED BY <1>1, <1>2, <1>4, <1>5, <1>6

\* What both sides have is on columns both have.
LEMMA SharedFits ==
  ASSUME NEW s, NEW db, Legible(s), Agrees(s, db)
  PROVE  /\ \A k \in db.cons, y \in s.cons :
              ConstraintKey(k) = ConstraintKey(y) => ~ Astray(k, s) /\ k.kind = y.kind
         /\ \A i \in db.idx, j \in s.idx : IndexKey(i) = IndexKey(j) => ~ Astray(i, s)
<1>1. ASSUME NEW k \in s.cons \cup s.idx, NEW x, x.t = k.t, x.cols = k.cols PROVE ~ Astray(x, s)
  BY <1>1 DEF Legible, Astray
<1>2. ASSUME NEW k \in db.cons, NEW y \in s.cons, ConstraintKey(k) = ConstraintKey(y)
      PROVE  ~ Astray(k, s) /\ k.kind = y.kind
  <2>1. k.t = y.t /\ k.cols = y.cols /\ k.kind = y.kind
    BY <1>2, KeyIs DEF Agrees
  <2> QED BY <1>1, <2>1
<1>3. ASSUME NEW i \in db.idx, NEW j \in s.idx, IndexKey(i) = IndexKey(j)
      PROVE  ~ Astray(i, s)
  <2>1. i.t = j.t /\ i.cols = j.cols
    BY <1>3, KeyIs DEF Agrees
  <2> QED BY <1>1, <2>1
<1> QED BY <1>2, <1>3

\* Such a step keeps what both sides have, and the agreement of names.
LEMMA HeldOn ==
  ASSUME NEW e, NEW it, NEW db, NEW s, NEW b, NEW st, Legible(s), Agrees(s, db), Agrees(s, b),
         KeysHeld(e, db, s, b), Follows(e, it, db, s, b, st)
  PROVE  KeysHeld(e, it, s, b)
<1>1. ASSUME NEW x \in b.cons, \E y \in s.cons : ConstraintKey(y) = ConstraintKey(x)
      PROVE  x \in it.cons
  <2>1. x \in db.cons
    BY <1>1 DEF KeysHeld
  <2>2. ~ Astray(x, s)
    BY <1>1, <2>1, SharedFits
  <2> QED BY <1>1, <2>1, <2>2 DEF Follows
<1>2. ASSUME NEW i \in b.idx, NEW j \in s.idx, IndexKey(j) = IndexKey(i),
             e = "pg" \/ \A k \in b.cons : IndexKey(k) # IndexKey(i)
      PROVE  i \in it.idx
  <2>1. i \in db.idx
    BY <1>2 DEF KeysHeld
  <2>2. ~ Astray(i, s)
    BY <1>2, <2>1, SharedFits
  <2>3. ~ (e = "mysql" /\ \E f \in b.cons : IndexKey(f) = IndexKey(i))
    BY <1>2
  <2>4. ASSUME e = "mysql", NEW f \in db.cons, f.kind = "fk", IndexKey(f) = IndexKey(i) PROVE FALSE
    <3>1. PICK y \in s.cons : IndexKey(y) = IndexKey(f) /\ y.kind = f.kind
      BY <1>2, <2>4 DEF KeysHeld
    <3>2. y.kind = "unique"
      BY <1>2, <2>4, <3>1 DEF Legible
    <3> QED BY <2>4, <3>1, <3>2
  <2> QED BY <1>2, <2>1, <2>2, <2>3, <2>4 DEF Follows
<1>3. ASSUME e # "pg", NEW k \in it.cons
      PROVE  \/ \E x \in b.cons : IndexKey(x) = IndexKey(k)
             \/ \E y \in s.cons : IndexKey(y) = IndexKey(k) /\ y.kind = k.kind
  <2>1. CASE k \in db.cons
    BY <1>3, <2>1 DEF KeysHeld
  <2>2. CASE FromSource(e, k, s)
    <3>1. PICK y \in s.cons : k.t = y.t /\ k.kind = y.kind /\ k.name = y.name
      BY <1>3, <2>2 DEF FromSource
    <3> QED BY <3>1, KeyIs
  <2>3. CASE \E was \in db.cons : IndexKey(was) = IndexKey(k) /\ was.kind = k.kind /\ Astray(was, s)
    BY <1>3, <2>3 DEF KeysHeld
  <2> QED BY <2>1, <2>2, <2>3 DEF Follows
<1> QED BY <1>1, <1>2, <1>3 DEF KeysHeld

\* A key that is not primary has the name it has in the source.
LEMMA NameFromSource ==
  ASSUME NEW e, NEW k, NEW s, Legible(s), FromSource(e, k, s)
  PROVE  k.kind # "pk" =>
           \E y \in s.cons : IndexKey(k) = IndexKey(y) /\ k.kind = y.kind /\ k.cols = y.cols
<1>1. PICK y \in s.cons :
        /\ k.t = y.t /\ k.kind = y.kind /\ k.cols = y.cols
        /\ k.name = y.name \/ (e = "pg" /\ y.name = <<"PRIMARY">>)
  BY DEF FromSource
<1>2. k.kind # "pk" => y.name # <<"PRIMARY">>
  BY <1>1 DEF Legible
<1> QED BY <1>1, <1>2, KeyIs

\* So does the agreement of names.
LEMMA AgreesOn ==
  ASSUME NEW e, NEW it, NEW db, NEW s, NEW b, NEW st, Legible(s), Agrees(s, db),
         Follows(e, it, db, s, b, st), st.op = "create_index" => HasUniques(db, s)
  PROVE  Agrees(s, it)
<1>1. ASSUME NEW x \in it.cons, NEW y \in s.cons, x.kind # "pk", y.kind # "pk", IndexKey(x) = IndexKey(y)
      PROVE  x.kind = y.kind /\ x.cols = y.cols
  <2>1. CASE x \in db.cons
    BY <1>1, <2>1 DEF Agrees
  <2>2. CASE FromSource(e, x, s)
    <3>1. PICK z \in s.cons : IndexKey(x) = IndexKey(z) /\ x.kind = z.kind /\ x.cols = z.cols
      BY <1>1, <2>2, NameFromSource
    <3>2. z = y
      BY <1>1, <3>1 DEF Legible
    <3> QED BY <3>1, <3>2
  <2>3. CASE \E was \in db.cons : IndexKey(was) = IndexKey(x) /\ was.kind = x.kind /\ Astray(was, s)
    BY <1>1, <2>3, KeyIs, SharedFits
  <2> QED BY <2>1, <2>2, <2>3 DEF Follows
<1>2. ASSUME NEW i \in it.idx
      PROVE  /\ \A j \in s.idx : IndexKey(i) = IndexKey(j) => i.cols = j.cols
             /\ \A y \in s.cons : y.kind = "unique" => IndexKey(i) # IndexKey(y)
  <2>1. CASE i \in db.idx
    BY <2>1 DEF Agrees, Of
  <2>2. CASE st.op = "create_index" /\ i \in s.idx /\ \A u \in db.cons : ~ IsUnique(u, i)
    <3>1. \A j \in s.idx : IndexKey(i) = IndexKey(j) => i.cols = j.cols
      BY <2>2 DEF Legible
    <3>2. ASSUME NEW y \in s.cons, y.kind = "unique", IndexKey(i) = IndexKey(y) PROVE FALSE
      <4>1. PICK u \in db.cons : u.kind = "unique" /\ IndexKey(u) = IndexKey(y)
        BY <2>2, <3>2 DEF HasUniques, HasUnique, IsUnique
      <4> QED BY <2>2, <3>2, <4>1 DEF IsUnique
    <3> QED BY <3>1, <3>2
  <2>3. CASE \E c : c.kind = "fk" /\ FromSource(e, c, s) /\ i = FkIndex(c)
    <3>1. PICK c : c.kind = "fk" /\ FromSource(e, c, s) /\ i = FkIndex(c)
      BY <2>3
    <3>2. PICK z \in s.cons : IndexKey(c) = IndexKey(z) /\ z.kind = "fk"
      BY <3>1, NameFromSource
    <3>3. IndexKey(i) = IndexKey(z)
      BY <3>1, <3>2 DEF FkIndex, IndexKey
    <3>4. \A j \in s.idx : IndexKey(j) # IndexKey(i)
      BY <3>2, <3>3 DEF Legible
    <3>5. \A y \in s.cons : y.kind = "unique" => IndexKey(i) # IndexKey(y)
      BY <3>2, <3>3 DEF Legible
    <3> QED BY <3>4, <3>5
  <2>4. CASE \E was \in db.idx : IndexKey(was) = IndexKey(i) /\ Astray(was, s)
    <3>1. PICK was \in db.idx : IndexKey(was) = IndexKey(i) /\ Astray(was, s)
      BY <2>4
    <3>2. \A j \in s.idx : IndexKey(i) # IndexKey(j)
      BY <3>1, SharedFits
    <3>3. \A y \in s.cons : y.kind = "unique" => IndexKey(i) # IndexKey(y)
      BY <3>1 DEF Agrees, Of
    <3> QED BY <3>2, <3>3
  <2> QED BY <2>1, <2>2, <2>3, <2>4 DEF Follows
<1>3. ASSUME NEW u \in it.cons, u.kind = "unique", NEW j \in s.idx, IndexKey(u) = IndexKey(j)
      PROVE  \E y \in s.cons : y.kind = "unique" /\ IndexKey(y) = IndexKey(u)
  <2>1. CASE u \in db.cons
    BY <1>3, <2>1 DEF Agrees, Of
  <2>2. CASE FromSource(e, u, s)
    BY <1>3, <2>2, NameFromSource
  <2>3. CASE \E was \in db.cons : IndexKey(was) = IndexKey(u) /\ was.kind = u.kind /\ Astray(was, s)
    BY <1>3, <2>3 DEF Agrees, Of
  <2> QED BY <2>1, <2>2, <2>3 DEF Follows
<1> QED BY <1>1, <1>2, <1>3 DEF Agrees, Of

\* A unique key of the source, once made, stays.
LEMMA UniqueStays ==
  ASSUME NEW e, NEW it, NEW db, NEW s, NEW b, NEW st, Legible(s), Agrees(s, db),
         Follows(e, it, db, s, b, st), NEW y \in s.cons, y.kind = "unique", HasUnique(db, y)
  PROVE  HasUnique(it, y)
<1>1. PICK u \in db.cons : u.kind = "unique" /\ IndexKey(u) = IndexKey(y)
  BY DEF HasUnique, IsUnique
<1>2. ConstraintKey(u) = ConstraintKey(y)
  BY <1>1, KeyIs
<1>3. ~ Astray(u, s)
  BY <1>2, SharedFits
<1>4. u \in it.cons
  BY <1>2, <1>3 DEF Follows
<1> QED BY <1>1, <1>4 DEF HasUnique, IsUnique

-----------------------------------------------------------------------------
\* A statement about the keys and indexes of s, in a run that found b.
KeyMeans(e, st, s, b) ==
  /\ st.op \in {"create_table", "drop_constraint", "drop_index", "drop_index_if_exists", "drop_column",
                "add_column", "alter_column", "add_constraint", "create_index", "drop_table"}
  /\ st.op = "create_table" => \A k \in st.of.cons : FromSource(e, k, s)
  /\ st.op = "drop_constraint" => \A y \in s.cons : ConstraintKey(y) # ConstraintKey(st.of)
  /\ st.op \in {"drop_index", "drop_index_if_exists"} =>
       (\A j \in s.idx : IndexKey(j) # IndexKey(st.of)) \/ (e = "mysql" /\ st.of \in b.cons)
  /\ st.op = "drop_column" => \A c \in s.cols : Column(c) # Column(st.of)
  /\ st.op = "add_constraint" => FromSource(e, st.of, s)
  /\ st.op = "create_index" => st.of \in s.idx
  /\ st.op = "drop_table" => st.of.t \notin s.tables

\* What a column leaves, as it goes, of a set of keys or indexes.
LeftOf(e, S, c) == IF e = "mysql" THEN {x \in Shrunk(S, c) : x.cols # <<>>} ELSE {x \in S : ~On(x, c)}
Reduced(K, S, s) ==
  /\ \A k \in K : k \in S \/ \E was \in S : IndexKey(was) = IndexKey(k) /\ Astray(was, s)
                                          /\ (DOMAIN was = ConFields => was.kind = k.kind)
  /\ \A k \in S : k \in K \/ Astray(k, s)

\* Only what is on a column the source does not have is changed or goes.
LEMMA LeftIsReduced ==
  ASSUME NEW e, NEW S, NEW c, NEW s, \A x \in s.cols : Column(x) # Column(c),
         \A x \in S : DOMAIN x = ConFields \/ DOMAIN x = IdxFields
  PROVE  Reduced(LeftOf(e, S, c), S, s)
<1> DEFINE less(x) == [x EXCEPT !.cols = Remove(x.cols, c.n)]
           K == LeftOf(e, S, c)
<1>0. K = (IF e = "mysql" THEN {x \in Shrunk(S, c) : x.cols # <<>>} ELSE {x \in S : ~On(x, c)})
  BY DEF LeftOf
<1>1. ASSUME NEW x \in S, On(x, c) PROVE Astray(x, s)
  <2>1. PICK m \in 1 .. Len(x.cols) : x.cols[m] = c.n
    BY <1>1 DEF On, Contains
  <2>2. x.t = c.t
    BY <1>1 DEF On
  <2>3. Column(c) = <<x.t, x.cols[m]>>
    BY <2>1, <2>2 DEF Column
  <2> QED BY <2>3 DEF Astray
<1>2. ASSUME NEW x \in S
      PROVE  IndexKey(less(x)) = IndexKey(x) /\ (DOMAIN x = ConFields => less(x).kind = x.kind)
  <2> DEFINE r == Remove(x.cols, c.n)
             y == [x EXCEPT !.cols = r]
  <2> HIDE DEF r
  <2>1. y.t = x.t /\ y.name = x.name /\ (DOMAIN x = ConFields => y.kind = x.kind)
    BY DEF ConFields, IdxFields
  <2>2. less(x) = y
    BY DEF r
  <2> HIDE DEF y, less
  <2> QED BY <2>1, <2>2, KeyIs
<1>3. Shrunk(S, c) = {IF On(x, c) THEN less(x) ELSE x : x \in S}
  BY DEF Shrunk
<1> HIDE DEF less, K
<1>4. ASSUME NEW k \in K, k \notin S
      PROVE  \E was \in S : IndexKey(was) = IndexKey(k) /\ Astray(was, s) /\ (DOMAIN was = ConFields => was.kind = k.kind)
  <2>1. k \in Shrunk(S, c)
    BY <1>0, <1>4
  <2>2. PICK x \in S : On(x, c) /\ k = less(x)
    BY <1>3, <1>4, <2>1
  <2> QED BY <1>1, <1>2, <2>2
<1>5. ASSUME NEW k \in S, k \notin K PROVE Astray(k, s)
  <2>1. CASE On(k, c)
    BY <1>1, <2>1
  <2>2. CASE ~ On(k, c)
    <3>1. k \in Shrunk(S, c)
      BY <1>3, <2>2
    <3>2. k.cols = <<>>
      BY <1>0, <1>5, <2>2, <3>1
    <3> QED BY <3>2 DEF Astray
  <2> QED BY <2>1, <2>2
<1> QED BY <1>4, <1>5 DEF Reduced, K

\* What is as it was is as a statement may leave it.
LEMMA SameFollows ==
  ASSUME NEW e, NEW it, NEW db, NEW s, NEW b, NEW st, it.cons = db.cons, it.idx = db.idx
  PROVE  Follows(e, it, db, s, b, st)
  BY DEF Follows

\* A column goes, and what is on it.
LEMMA DropColumnFollows ==
  ASSUME NEW e, NEW db, IsDatabase(db), NEW s, NEW b, NEW st, st.op = "drop_column", KeyMeans(e, st, s, b)
  PROVE  Follows(e, Effect(e, db, st), db, s, b, st)
<1> DEFINE x == st.of
           K == LeftOf(e, db.cons, x)
           I == LeftOf(e, db.idx, x)
           C == {d \in db.cols : Column(d) # Column(x)}
           it == [db EXCEPT !.cols = C, !.cons = K, !.idx = I]
<1>1. Effect(e, db, st) = it
  <2>1. Effect(e, db, st) = WithoutColumn(e, db, x)
    BY DEF Effect
  <2> QED BY <2>1 DEF WithoutColumn, LeftOf
<1>2. \A c \in s.cols : Column(c) # Column(x)
  BY DEF KeyMeans
<1>3. (\A y \in db.cons : DOMAIN y = ConFields) /\ \A y \in db.idx : DOMAIN y = IdxFields
  BY PartsOf DEF AreCons, AreIdx
<1>4. Reduced(K, db.cons, s)
  BY <1>2, <1>3, LeftIsReduced
<1>5. Reduced(I, db.idx, s)
  BY <1>2, <1>3, LeftIsReduced
<1> HIDE DEF K, I, C
<1>6. it.cons = K /\ it.idx = I
  BY DEF IsDatabase
<1> HIDE DEF it
<1>7. Follows(e, it, db, s, b, st)
  <2>1. \A k \in K : k \in db.cons \/ \E was \in db.cons : IndexKey(was) = IndexKey(k) /\ was.kind = k.kind /\ Astray(was, s)
    <3> SUFFICES ASSUME NEW k \in K, k \notin db.cons
                 PROVE  \E was \in db.cons : IndexKey(was) = IndexKey(k) /\ was.kind = k.kind /\ Astray(was, s)
      OBVIOUS
    <3>1. PICK was \in db.cons : IndexKey(was) = IndexKey(k) /\ Astray(was, s) /\ (DOMAIN was = ConFields => was.kind = k.kind)
      BY <1>4, Zenon DEF Reduced
    <3> QED BY <1>3, <3>1
  <2>2. \A k \in I : k \in db.idx \/ \E was \in db.idx : IndexKey(was) = IndexKey(k) /\ Astray(was, s)
    BY <1>5, Zenon DEF Reduced
  <2>3. (\A k \in db.cons : k \in K \/ Astray(k, s)) /\ \A k \in db.idx : k \in I \/ Astray(k, s)
    BY <1>4, <1>5 DEF Reduced
  <2> QED BY <1>6, <2>1, <2>2, <2>3 DEF Follows
<1> QED BY <1>1, <1>7

\* A table goes that the source does not have.
LEMMA DropTableFollows ==
  ASSUME NEW e, NEW db, IsDatabase(db), NEW s, Legible(s), NEW b, NEW st, st.op = "drop_table", KeyMeans(e, st, s, b)
  PROVE  Follows(e, Effect(e, db, st), db, s, b, st)
<1> DEFINE x == st.of
           K == {c \in db.cons : c.t # x.t}
           I == {i \in db.idx : i.t # x.t}
           it == [tables |-> db.tables \ {x.t}, cols |-> {c \in db.cols : c.t # x.t}, cons |-> K, idx |-> I]
<1>1. Effect(e, db, st) = it
  BY DEF Effect
<1>2. it.cons = K /\ it.idx = I
  OBVIOUS
<1> HIDE DEF it
<1>3. \A k \in s.cons \cup s.idx : k.t # x.t
  BY DEF KeyMeans, Legible
<1>4. ASSUME NEW k \in db.cons, k \notin K PROVE \A y \in s.cons : ConstraintKey(y) # ConstraintKey(k)
  BY <1>3, <1>4, KeyIs
<1>5. ASSUME NEW i \in db.idx, i \notin I PROVE \A j \in s.idx : IndexKey(j) # IndexKey(i)
  BY <1>3, <1>5, KeyIs
<1>6. K \subseteq db.cons /\ I \subseteq db.idx
  OBVIOUS
<1> HIDE DEF K, I
<1>7. Follows(e, it, db, s, b, st)
  BY <1>2, <1>4, <1>5, <1>6 DEF Follows
<1> QED BY <1>1, <1>7

\* A key of the source is added, and on MySQL an index made or let go for it.
LEMMA AddKeyFollows ==
  ASSUME NEW e, NEW db, IsDatabase(db), NEW s, NEW b, NEW st, st.op = "add_constraint", KeyMeans(e, st, s, b)
  PROVE  Follows(e, Effect(e, db, st), db, s, b, st)
<1> DEFINE c == st.of
           made == IF /\ e = "mysql" /\ c.kind = "fk"
                      /\ ~\E i \in Physical(db) \cup Of("pk", db) : Serves(i, c)
                   THEN {FkIndex(c)} ELSE {}
           idle == IF e = "mysql" /\ c.kind # "fk" THEN {FkIndex(f) : f \in {f \in Of("fk", db) : Serves(c, f)}} ELSE {}
           K == db.cons \cup {c}
           I == (db.idx \cup made) \ idle
           it == [db EXCEPT !.cons = K, !.idx = I]
<1>1. Effect(e, db, st) = it
  <2>1. Effect(e, db, st) = WithConstraint(e, db, c)
    BY DEF Effect
  <2> QED BY <2>1 DEF WithConstraint
<1>2. FromSource(e, c, s)
  BY DEF KeyMeans
<1>3. \A i \in made : i = FkIndex(c) /\ c.kind = "fk"
  OBVIOUS
<1>4. \A i \in idle : e = "mysql" /\ \E f \in db.cons : f.kind = "fk" /\ i = FkIndex(f)
  BY DEF Of
<1>5. \A f : IndexKey(FkIndex(f)) = IndexKey(f)
  BY KeyIs DEF FkIndex
<1> HIDE DEF made, idle
<1>6. /\ \A k \in K : k \in db.cons \/ FromSource(e, k, s)
      /\ \A k \in db.cons : k \in K
  BY <1>2
<1>7. \A i \in I : i \in db.idx \/ \E f : f.kind = "fk" /\ FromSource(e, f, s) /\ i = FkIndex(f)
  BY <1>2, <1>3
<1>8. \A i \in db.idx : i \in I \/ (e = "mysql" /\ \E f \in db.cons : f.kind = "fk" /\ IndexKey(f) = IndexKey(i))
  BY <1>4, <1>5
<1> HIDE DEF K, I
<1>9. it.cons = K /\ it.idx = I
  BY DEF IsDatabase
<1> HIDE DEF it
<1>10. Follows(e, it, db, s, b, st)
  BY <1>6, <1>7, <1>8, <1>9 DEF Follows
<1> QED BY <1>1, <1>10

\* An index of the source is made, unless there is one of its name.
LEMMA IndexFollows ==
  ASSUME NEW e, NEW db, IsDatabase(db), NEW s, NEW b, NEW st, st.op = "create_index", KeyMeans(e, st, s, b)
  PROVE  Follows(e, Effect(e, db, st), db, s, b, st)
<1> DEFINE i == st.of
           idle == {FkIndex(f) : f \in {f \in Of("fk", db) : e = "mysql" /\ Serves(i, f)}}
           I == {i} \cup (db.idx \ idle)
           it == [db EXCEPT !.idx = I]
           there == \E j \in Physical(db) : j.name = i.name /\ (e = "pg" \/ j.t = i.t)
<1>1. Effect(e, db, st) = IF there THEN db ELSE it
  <2>1. Effect(e, db, st) = WithIndex(e, db, i)
    BY DEF Effect
  <2> QED BY <2>1 DEF WithIndex
<1>2. i \in s.idx
  BY DEF KeyMeans
<1>3. ASSUME NEW u \in db.cons, IsUnique(u, i) PROVE there
  <2> DEFINE j == [t |-> u.t, name |-> u.name, cols |-> u.cols]
  <2>1. u.kind = "unique" /\ u.t = i.t /\ u.name = i.name
    BY <1>3, KeyIs DEF IsUnique
  <2>2. j \in Physical(db)
    BY <2>1 DEF Physical, Of
  <2>3. j.t = i.t /\ j.name = i.name
    BY <2>1
  <2> HIDE DEF j
  <2> QED BY <2>2, <2>3
<1> HIDE DEF there
<1>4. \A f : IndexKey(FkIndex(f)) = IndexKey(f)
  BY KeyIs DEF FkIndex
<1>5. \A k \in idle : e = "mysql" /\ \E f \in db.cons : f.kind = "fk" /\ k = FkIndex(f)
  BY DEF Of
<1> HIDE DEF idle
<1>6. \A k \in I : k \in db.idx \/ k = i
  OBVIOUS
<1>7. \A k \in db.idx : k \in I \/ (e = "mysql" /\ \E f \in db.cons : f.kind = "fk" /\ IndexKey(f) = IndexKey(k))
  BY <1>4, <1>5
<1> HIDE DEF I
<1>8. it.cons = db.cons /\ it.idx = I
  BY DEF IsDatabase
<1> HIDE DEF it
<1>9. ~ there => Follows(e, it, db, s, b, st)
  BY <1>2, <1>3, <1>6, <1>7, <1>8 DEF Follows
<1>10. Follows(e, db, db, s, b, st)
  BY SameFollows
<1> QED BY <1>1, <1>9, <1>10

\* Every statement of a run.
LEMMA StatementFollows ==
  ASSUME NEW e, NEW db, IsDatabase(db), NEW s, Legible(s), NEW b, NEW st, KeyMeans(e, st, s, b)
  PROVE  Follows(e, Effect(e, db, st), db, s, b, st)
<1> DEFINE x == st.of
           it == Effect(e, db, st)
<1>1. CASE st.op = "create_table"
  <2> DEFINE T == db.tables \cup {x.t}
             C == db.cols \cup x.cols
             K == db.cons \cup x.cons
             new == [db EXCEPT !.tables = T, !.cols = C, !.cons = K]
  <2>1. it = new
    BY <1>1 DEF Effect
  <2> HIDE DEF T, C, it
  <2>2. new.cons = K /\ new.idx = db.idx
    BY DEF IsDatabase
  <2> HIDE DEF new
  <2>3. \A k \in x.cons : FromSource(e, k, s)
    BY <1>1 DEF KeyMeans
  <2> QED BY <2>1, <2>2, <2>3 DEF Follows, it
<1>2. CASE st.op = "drop_constraint"
  <2> DEFINE K == db.cons \ {x}
             new == [db EXCEPT !.cons = K]
  <2>1. it = new
    BY <1>2 DEF Effect
  <2>2. new.cons = K /\ new.idx = db.idx
    BY DEF IsDatabase
  <2> HIDE DEF new, it
  <2>3. \A y \in s.cons : ConstraintKey(y) # ConstraintKey(x)
    BY <1>2 DEF KeyMeans
  <2> QED BY <2>1, <2>2, <2>3 DEF Follows, it
<1>3. CASE st.op \in {"drop_index", "drop_index_if_exists"}
  <2> DEFINE I == {i \in db.idx : IndexKey(i) # IndexKey(x)}
             new == [db EXCEPT !.idx = I]
  <2>1. it = new
    BY <1>3 DEF Effect
  <2>2. new.cons = db.cons /\ new.idx = I
    BY DEF IsDatabase
  <2> HIDE DEF new, it
  <2>3. (\A j \in s.idx : IndexKey(j) # IndexKey(x)) \/ (e = "mysql" /\ x \in b.cons)
    BY <1>3 DEF KeyMeans
  <2>4. \A i \in db.idx : i \in I \/ IndexKey(i) = IndexKey(x)
    OBVIOUS
  <2>5. \A i \in I : i \in db.idx
    OBVIOUS
  <2> HIDE DEF I
  <2> QED BY <2>1, <2>2, <2>3, <2>4, <2>5 DEF Follows, it
<1>4. CASE st.op \in {"add_column", "alter_column"}
  <2> DEFINE C == IF st.op = "add_column" THEN db.cols \cup {x}
                  ELSE {IF Column(c) = Column(x) THEN Altered(e, c, x.to) ELSE c : c \in db.cols}
             new == [db EXCEPT !.cols = C]
  <2>1. it = new
    BY <1>4 DEF Effect, WithType
  <2> HIDE DEF C
  <2>2. new.cons = db.cons /\ new.idx = db.idx
    BY DEF IsDatabase
  <2> HIDE DEF new, it
  <2>3. Follows(e, it, db, s, b, st)
    BY <2>1, <2>2, SameFollows
  <2> QED BY <2>3 DEF it
<1>5. CASE st.op \in {"drop_column", "drop_table", "add_constraint", "create_index"}
  BY <1>5, DropColumnFollows, DropTableFollows, AddKeyFollows, IndexFollows
<1> QED BY <1>1, <1>2, <1>3, <1>4, <1>5 DEF KeyMeans

-----------------------------------------------------------------------------
\* The keys and indexes of a difference between s and what a run found.
KeysOf(df, s, b) ==
  /\ \A tbl \in df.create : tbl.cons \subseteq s.cons
  /\ df.addCon \subseteq s.cons /\ df.newIdx \subseteq s.idx /\ df.dropCon \subseteq b.cons
  /\ \A x \in df.dropCon : \A y \in s.cons : ConstraintKey(y) # ConstraintKey(x)
  /\ \A i \in df.dropIdx : \A j \in s.idx : IndexKey(j) # IndexKey(i)
  /\ \A t \in df.drop : t \notin s.tables
  /\ \A c \in df.cols.drop : \A x \in s.cols : Column(x) # Column(c)
  /\ \A y \in s.cons : y.t \in s.tables =>
       \/ y \in df.addCon
       \/ \E x \in b.cons : ConstraintKey(x) = ConstraintKey(y)
       \/ \E tbl \in df.create : y \in tbl.cons

\* A new table is to have the keys the source's has.
LEMMA NewTablesKeys ==
  ASSUME NEW s, NEW d, NEW from, NEW to
  PROVE  /\ \A tbl \in Meant(s, d, from, to).create : tbl.cons \subseteq s.cons
         /\ \A y \in s.cons : y.t \in s.tables \ d.tables =>
              \E tbl \in Meant(s, d, from, to).create : y \in tbl.cons
<1> DEFINE p == Diff(to, s, d)
           m == Meant(s, d, from, to)
           T == s.tables \ d.tables
           raw(t) == [t |-> t, cols |-> {c \in s.cols : c.t = t}, cons |-> {c \in s.cons : c.t = t}]
           f == [t \in T |-> TranslatedTable(raw(t), from, to)]
<1>1. p.create = NewOf(s, d) /\ DOMAIN p = DiffFieldNames
  <2>1. IsDiff(p, s, d)
    BY DiffHas
  <2> HIDE DEF p
  <2> QED BY <2>1 DEF IsDiff
<1>2. m.create = {TranslatedTable(tbl, from, to) : tbl \in NewOf(s, d)}
  <2> HIDE DEF p
  <2> QED BY <1>1, TranslatedHas DEF Meant, p
<1>3. NewOf(s, d) = {raw(t) : t \in T}
  BY DEF NewOf
<1>4. m.create = {f[t] : t \in T}
  <2> HIDE DEF m, raw
  <2> QED BY <1>2, <1>3
<1>5. ASSUME NEW t \in T PROVE f[t].cons = {c \in s.cons : c.t = t}
  <2> DEFINE r == raw(t)
             C == {Translate(c, from, to) : c \in CarryAutoIncrement(r, from, to)}
             K == {c \in s.cons : c.t = t}
             y == [r EXCEPT !.cols = C]
  <2>1. f[t] = y
    BY DEF TranslatedTable
  <2> HIDE DEF C, f
  <2>2. r.cons = K /\ y.cons = r.cons
    OBVIOUS
  <2> HIDE DEF y, r
  <2> QED BY <2>1, <2>2
<1> HIDE DEF f, m
<1>6. \A tbl \in m.create : tbl.cons \subseteq s.cons
  BY <1>4, <1>5
<1>7. ASSUME NEW y \in s.cons, y.t \in T PROVE \E tbl \in m.create : y \in tbl.cons
  BY <1>4, <1>5, <1>7
<1> QED BY <1>6, <1>7 DEF m

\* What the difference of two databases says of keys and indexes.
LEMMA KeysMeant ==
  ASSUME NEW s, NEW d, IsDatabase(s), IsDatabase(d), NEW from, NEW to
  PROVE  KeysOf(Meant(s, d, from, to), s, d)
<1> DEFINE p == Diff(to, s, d)
           m == Meant(s, d, from, to)
<1>1. IsDiff(p, s, d)
  BY DiffHas
<1>2. RestOf(m, s, d)
  BY RestMeant
<1>3. /\ \A tbl \in m.create : tbl.cons \subseteq s.cons
      /\ \A y \in s.cons : y.t \in s.tables \ d.tables => \E tbl \in m.create : y \in tbl.cons
  BY NewTablesKeys
<1>4. m.addCon = p.addCon /\ m.dropCon = p.dropCon /\ m.newIdx = p.newIdx /\ m.dropIdx = p.dropIdx
  <2> HIDE DEF p
  <2>1. DOMAIN p = DiffFieldNames
    BY <1>1 DEF IsDiff
  <2> QED BY <2>1, TranslatedHas DEF Meant, p
<1> HIDE DEF m, p
<1>5. KeysOf(m, s, d)
  BY <1>1, <1>2, <1>3, <1>4 DEF KeysOf, RestOf, IsDiff
<1> QED BY <1>5 DEF m

\* PG's name of a key is of the source.
LEMMA NamedFromSource ==
  ASSUME NEW e, NEW s, NEW y \in s.cons, DOMAIN y = ConFields, NEW x, x = y \/ (e = "pg" /\ x = PgName(y))
  PROVE  FromSource(e, x, s) /\ x.kind = y.kind /\ (y.name # <<"PRIMARY">> => x = y)
<1> DEFINE name == <<"pkey", y.t>>
           d == [y EXCEPT !.name = name]
<1>1. d.t = y.t /\ d.kind = y.kind /\ d.cols = y.cols
  <2> HIDE DEF name
  <2> QED BY DEF ConFields
<1>2. PgName(y) = IF y.name = <<"PRIMARY">> THEN d ELSE y
  BY DEF PgName
<1> HIDE DEF d
<1>3. x.t = y.t /\ x.kind = y.kind /\ x.cols = y.cols /\ (x = y \/ (e = "pg" /\ y.name = <<"PRIMARY">>))
  BY <1>1, <1>2
<1> QED BY <1>3 DEF FromSource

\* The same tables and keys to make, by the names a destination gives them.
Named(n, df, e, s) ==
  /\ AreTables(n.create) /\ AreCons(n.addCon) /\ n.drop = df.drop /\ n.cols = df.cols
  /\ \A u \in n.create : \A k \in u.cons : FromSource(e, k, s)
  /\ \A k \in n.addCon : FromSource(e, k, s)
  /\ \A tbl \in df.create : \A y \in tbl.cons : y.kind = "unique" => \E u \in n.create : y \in u.cons
  /\ \A y \in df.addCon : y.kind = "unique" => y \in n.addCon

\* PG's names are names of the source.
LEMMA PgNamed ==
  ASSUME NEW df, Proper(df), NEW s, Legible(s), NEW b, KeysOf(df, s, b)
  PROVE  Named(PgNames(df), df, "pg", s)
<1> DEFINE n == PgNames(df)
           keys == {PgName(c) : c \in df.addCon}
           f == [tbl \in df.create |-> [tbl EXCEPT !.cons = {PgName(c) : c \in tbl.cons}]]
           R == {f[tbl] : tbl \in df.create}
<1>1. n = [df EXCEPT !.create = R, !.addCon = keys]
  <2>1. R = {[tbl EXCEPT !.cons = {PgName(c) : c \in @}] : tbl \in df.create}
    OBVIOUS
  <2> HIDE DEF R
  <2> QED BY <2>1 DEF PgNames
<1>2. AreTables(n.create) /\ AreCons(n.addCon) /\ n.drop = df.drop /\ n.cols = df.cols
  BY PgNamesHas DEF Outlined
<1>3. ASSUME NEW tbl \in df.create PROVE f[tbl].cons = {PgName(c) : c \in tbl.cons}
  <2> DEFINE K == {PgName(c) : c \in tbl.cons}
             y == [tbl EXCEPT !.cons = K]
  <2>1. f[tbl] = y
    OBVIOUS
  <2>2. DOMAIN tbl = {"t", "cols", "cons"}
    BY DEF Proper, AreTables
  <2> HIDE DEF K, f
  <2>3. y.cons = K
    BY <2>2
  <2> HIDE DEF y
  <2> QED BY <2>1, <2>3 DEF K
<1> HIDE DEF f, n
<1>4. n.create = R /\ n.addCon = keys
  <2> HIDE DEF R, keys
  <2> QED BY <1>1 DEF Proper, DiffFieldNames
<1>5. \A tbl \in df.create : \A y \in tbl.cons : y \in s.cons /\ DOMAIN y = ConFields
  BY DEF KeysOf, Proper, AreTables, AreCons
<1>6. \A y \in df.addCon : y \in s.cons /\ DOMAIN y = ConFields
  BY DEF KeysOf, Proper, AreCons
<1>7. \A y \in s.cons : DOMAIN y = ConFields =>
         FromSource("pg", PgName(y), s) /\ (y.kind = "unique" => PgName(y) = y)
  <2> SUFFICES ASSUME NEW y \in s.cons, DOMAIN y = ConFields
               PROVE  FromSource("pg", PgName(y), s) /\ (y.kind = "unique" => PgName(y) = y)
    OBVIOUS
  <2>1. y.kind = "unique" => y.name # <<"PRIMARY">>
    BY DEF Legible
  <2>2. FromSource("pg", PgName(y), s) /\ (y.name # <<"PRIMARY">> => PgName(y) = y)
    BY NamedFromSource
  <2> QED BY <2>1, <2>2
<1>8. \A u \in R : \A k \in u.cons : FromSource("pg", k, s)
  BY <1>3, <1>5, <1>7
<1>9. \A k \in keys : FromSource("pg", k, s)
  BY <1>6, <1>7
<1>10. ASSUME NEW tbl \in df.create, NEW y \in tbl.cons, y.kind = "unique" PROVE \E u \in R : y \in u.cons
  <2>1. f[tbl] \in R
    OBVIOUS
  <2>2. y = PgName(y)
    BY <1>5, <1>7, <1>10
  <2>3. y \in f[tbl].cons
    BY <1>3, <2>2
  <2> QED BY <2>1, <2>3
<1>11. \A y \in df.addCon : y.kind = "unique" => y \in keys
  BY <1>6, <1>7
<1> HIDE DEF R, keys
<1>12. Named(n, df, "pg", s)
  BY <1>2, <1>4, <1>8, <1>9, <1>10, <1>11 DEF Named
<1> QED BY <1>12 DEF n

\* Elsewhere the names are the source's.
LEMMA NamedAsSource ==
  ASSUME NEW df, Proper(df), NEW e, NEW s, NEW b, KeysOf(df, s, b)
  PROVE  Named(df, df, e, s)
<1>1. \A y \in s.cons : FromSource(e, y, s)
  BY DEF FromSource
<1> QED BY <1>1 DEF Named, KeysOf, Proper

-----------------------------------------------------------------------------
\* A list that says what becomes of keys and indexes, and makes no index.
Keyed(list, e, s, b) ==
  IsList(list) /\ \A st \in Said(list) : KeyMeans(e, st, s, b) /\ st.op # "create_index"

\* A statement that may not be left out and makes the unique key y.
Makes(st, y) ==
  /\ st.spare = "no"
  /\ \/ st.op = "add_constraint" /\ IsUnique(st.of, y)
     \/ st.op = "create_table" /\ \E u \in st.of.cons : IsUnique(u, y)

\* Two such lists, one after the other.
LEMMA BothKeyed ==
  ASSUME NEW l, NEW k, NEW e, NEW s, NEW b, Keyed(l, e, s, b), Keyed(k, e, s, b)
  PROVE  Keyed(l \o k, e, s, b) /\ Said(l) \subseteq Said(l \o k) /\ Said(k) \subseteq Said(l \o k)
<1>1. IsList(l \o k) /\ Said(l \o k) = Said(l) \cup Said(k)
  BY BothSaid DEF Keyed
<1> QED BY <1>1 DEF Keyed

\* Statements of one kind.
LEMMA EachKeyed ==
  ASSUME NEW op, NEW S, NEW spare, Listable(S), NEW e, NEW s, NEW b, op # "create_index",
         \A x \in S : KeyMeans(e, [op |-> op, of |-> x, spare |-> spare], s, b)
  PROVE  Keyed(Statements(op, S, spare), e, s, b)
<1> DEFINE list == Statements(op, S, spare)
<1>1. IsList(list) /\ Said(list) = Each(op, S, spare)
  BY StatementsSaid
<1>2. \A st \in Each(op, S, spare) : KeyMeans(e, st, s, b) /\ st.op # "create_index"
  BY DEF Each
<1> HIDE DEF list
<1>3. Keyed(list, e, s, b)
  BY <1>1, <1>2 DEF Keyed
<1> QED BY <1>3 DEF list

\* The drops.
LEMMA DropsKeyed ==
  ASSUME NEW df, Proper(df), NEW e, NEW s, NEW b, KeysOf(df, s, b), NEW spare
  PROVE  /\ Keyed(Statements("drop_constraint", df.dropCon, spare), e, s, b)
         /\ \A op \in {"drop_index", "drop_index_if_exists"} : Keyed(Statements(op, df.dropIdx, spare), e, s, b)
         /\ e = "mysql" => Keyed(Statements("drop_index", IsFk(df.dropCon), spare), e, s, b)
         /\ Keyed(Statements("drop_column", df.cols.drop, spare), e, s, b)
<1>1. Listable(df.dropCon) /\ Listable(df.dropIdx) /\ Listable(df.cols.drop)
  BY AreListable DEF Proper
<1>2. Listable(IsFk(df.dropCon)) /\ IsFk(df.dropCon) \subseteq b.cons
  BY <1>1, SomeAre DEF IsFk, KeysOf
<1>3. Keyed(Statements("drop_constraint", df.dropCon, spare), e, s, b)
  BY <1>1, EachKeyed DEF KeyMeans, KeysOf
<1>4. ASSUME NEW op \in {"drop_index", "drop_index_if_exists"}
      PROVE  Keyed(Statements(op, df.dropIdx, spare), e, s, b)
  BY <1>1, EachKeyed DEF KeyMeans, KeysOf
<1>5. e = "mysql" => Keyed(Statements("drop_index", IsFk(df.dropCon), spare), e, s, b)
  BY <1>2, EachKeyed DEF KeyMeans
<1>6. Keyed(Statements("drop_column", df.cols.drop, spare), e, s, b)
  BY <1>1, EachKeyed DEF KeyMeans, KeysOf
<1> QED BY <1>3, <1>4, <1>5, <1>6

\* The new tables, with their keys but the foreign ones.
LEMMA CreatesKeyed ==
  ASSUME NEW df, NEW n, NEW e, NEW s, NEW b, Named(n, df, e, s)
  PROVE  /\ Keyed(Creates(n), e, s, b)
         /\ \A tbl \in df.create : \A y \in tbl.cons :
              y.kind = "unique" => \E st \in Said(Creates(n)) : Makes(st, y)
<1> DEFINE R == n.create
           k == [tbl \in R |-> NotFk(tbl.cons)]
           f == [tbl \in R |-> [tbl EXCEPT !.cons = k[tbl]]]
           S == {f[tbl] : tbl \in R}
           list == Creates(n)
<1>1. AreTables(R) /\ \A u \in R : AreCons(u.cons)
  BY DEF Named, AreTables
<1>2. \A tbl \in R : AreCons(k[tbl])
  BY <1>1, SomeAre DEF NotFk
<1>3. S = {[tbl EXCEPT !.cons = NotFk(@)] : tbl \in R} /\ S = {[tbl EXCEPT !.cons = k[tbl]] : tbl \in R}
  OBVIOUS
<1>4. list = Statements("create_table", S, "no")
  BY <1>3 DEF Creates
<1>5. Listable(S)
  <2>1. Outlined(S, R)
    <3>1. Outlined({[tbl EXCEPT !.cons = k[tbl]] : tbl \in R}, R)
      <4> HIDE DEF k
      <4> QED BY <1>1, <1>2, KeysReplaced
    <3> QED BY <1>3, <3>1
  <2> HIDE DEF S
  <2> QED BY <2>1 DEF Outlined, AreTables, Listable
<1>6. ASSUME NEW tbl \in R PROVE f[tbl].cons = NotFk(tbl.cons)
  <2> DEFINE K == NotFk(tbl.cons)
             y == [tbl EXCEPT !.cons = K]
  <2>1. f[tbl] = y
    OBVIOUS
  <2>2. DOMAIN tbl = {"t", "cols", "cons"}
    BY <1>1 DEF AreTables
  <2> HIDE DEF K, f
  <2>3. y.cons = K
    BY <2>2
  <2> HIDE DEF y
  <2> QED BY <2>1, <2>3 DEF K
<1> HIDE DEF f, k, list
<1>7. \A u \in S : \A c \in u.cons : FromSource(e, c, s)
  BY <1>6 DEF Named, NotFk
<1>8. Keyed(list, e, s, b)
  <2> HIDE DEF S
  <2>1. ASSUME NEW u \in S PROVE KeyMeans(e, [op |-> "create_table", of |-> u, spare |-> "no"], s, b)
    BY <1>7 DEF KeyMeans
  <2> QED BY <1>4, <1>5, <2>1, EachKeyed
<1>9. ASSUME NEW tbl \in df.create, NEW y \in tbl.cons, y.kind = "unique"
      PROVE  \E st \in Said(list) : Makes(st, y)
  <2>1. PICK u \in R : y \in u.cons
    BY <1>9 DEF Named
  <2>2. y \in f[u].cons /\ f[u] \in S
    BY <1>6, <1>9, <2>1 DEF NotFk
  <2> DEFINE x == f[u]
             st == [op |-> "create_table", of |-> x, spare |-> "no"]
  <2> HIDE DEF S, x
  <2>3. st \in Said(list)
    BY <1>4, <1>5, <2>2, StatementsSaid DEF Each, x
  <2>4. st.op = "create_table" /\ st.of = x /\ st.spare = "no"
    OBVIOUS
  <2> HIDE DEF st
  <2>5. Makes(st, y)
    BY <1>9, <2>2, <2>4 DEF Makes, IsUnique, x
  <2> QED BY <2>3, <2>5
<1> QED BY <1>8, <1>9 DEF list

\* Keys of the source.
LEMMA KeysKeyed ==
  ASSUME NEW S, AreCons(S), NEW spare, NEW e, NEW s, NEW b, \A x \in S : FromSource(e, x, s)
  PROVE  Keyed(Statements("add_constraint", S, spare), e, s, b)
<1>1. Listable(S)
  BY AreListable
<1>2. ASSUME NEW x \in S PROVE KeyMeans(e, [op |-> "add_constraint", of |-> x, spare |-> spare], s, b)
  BY DEF KeyMeans
<1> QED BY <1>1, <1>2, EachKeyed

\* What comes after the drops.
LEMMA ReshapeKeyed ==
  ASSUME NEW df, Proper(df), NEW n, NEW e, NEW s, NEW b, KeysOf(df, s, b), Named(n, df, e, s)
  PROVE  /\ Keyed(Reshape(n), e, s, b)
         /\ \A y \in df.addCon : y.kind = "unique" => \E st \in Said(Reshape(n)) : Makes(st, y)
<1> DEFINE f == [t \in df.drop |-> [t |-> t]]
           S == {f[t] : t \in df.drop}
           l1 == Statements("add_column", n.cols.add, "no")
           l2 == Statements("alter_column", n.cols.alter, "no")
           l3 == Statements("add_constraint", NotFk(n.addCon), "no")
           l4 == Statements("drop_table", S, "no")
<1>1. Keyed(l1, e, s, b) /\ Keyed(l2, e, s, b)
  <2>1. Listable(n.cols.add) /\ Listable(n.cols.alter)
    BY AreListable DEF Proper, Named
  <2> QED BY <2>1, EachKeyed DEF KeyMeans
<1>2. AreCons(NotFk(n.addCon))
  BY SomeAre DEF NotFk, Named
<1>3. Keyed(l3, e, s, b)
  <2>1. \A x \in NotFk(n.addCon) : FromSource(e, x, s)
    BY DEF NotFk, Named
  <2> QED BY <1>2, <2>1, KeysKeyed
<1>4. ASSUME NEW y \in df.addCon, y.kind = "unique" PROVE \E st \in Said(l3) : Makes(st, y)
  <2> DEFINE st == [op |-> "add_constraint", of |-> y, spare |-> "no"]
  <2>1. y \in NotFk(n.addCon)
    BY <1>4 DEF NotFk, Named
  <2>2. st \in Said(l3)
    BY <1>2, <2>1, AreListable, StatementsSaid DEF Each
  <2>3. st.op = "add_constraint" /\ st.of = y /\ st.spare = "no"
    OBVIOUS
  <2> HIDE DEF st, l3
  <2>4. Makes(st, y)
    BY <1>4, <2>3 DEF Makes, IsUnique
  <2> QED BY <2>2, <2>4
<1>5. Keyed(l4, e, s, b)
  <2>1. IsFiniteSet(S)
    <3>1. DOMAIN f = df.drop /\ f = [t \in df.drop |-> f[t]] /\ IsFiniteSet(df.drop)
      BY DEF Proper
    <3> HIDE DEF f
    <3> QED BY <3>1, Made
  <2>2. \A x \in S : x.t \in df.drop /\ x.t \in Nat
    <3>1. df.drop \subseteq Nat
      BY DEF Proper
    <3>2. \A t \in df.drop : f[t].t = t
      OBVIOUS
    <3> HIDE DEF f
    <3> QED BY <3>1, <3>2
  <2> HIDE DEF S
  <2>3. Listable(S)
    BY <2>1, <2>2 DEF Listable
  <2>4. \A x \in S : KeyMeans(e, [op |-> "drop_table", of |-> x, spare |-> "no"], s, b)
    BY <2>2 DEF KeyMeans, KeysOf
  <2> QED BY <2>3, <2>4, EachKeyed
<1>6. S = {[t |-> t] : t \in n.drop}
  BY DEF Named
<1>7. Reshape(n) = ((l1 \o l2) \o l3) \o l4
  <2> HIDE DEF S
  <2> QED BY <1>6 DEF Reshape
<1> HIDE DEF l1, l2, l3, l4
<1>8. Keyed(l1 \o l2, e, s, b)
  BY <1>1, BothKeyed
<1>9. Keyed((l1 \o l2) \o l3, e, s, b) /\ Said(l3) \subseteq Said((l1 \o l2) \o l3)
  BY <1>3, <1>8, BothKeyed
<1>10. Keyed(Reshape(n), e, s, b) /\ Said((l1 \o l2) \o l3) \subseteq Said(Reshape(n))
  BY <1>5, <1>7, <1>9, BothKeyed
<1> QED BY <1>4, <1>9, <1>10

\* Whatever the engine, apply() keeps to the keys of the source, and makes each unique key
\* that no key of the destination's is found by.
LEMMA ApplyKeyed ==
  ASSUME NEW df, Proper(df), NEW e, NEW s, Legible(s), NEW b, KeysOf(df, s, b)
  PROVE  /\ Keyed(Apply(e, df), e, s, b)
         /\ \A y \in s.cons : y.kind = "unique" =>
              \/ \E x \in b.cons : ConstraintKey(x) = ConstraintKey(y)
              \/ \E st \in Said(Apply(e, df)) : Makes(st, y)
<1> DEFINE n == IF e = "pg" THEN PgNames(df) ELSE df
           create == Creates(n)
           reshape == Reshape(n)
           fks == AddForeignKeys(df)
           cons == Statements("drop_constraint", df.dropCon, "no")
           cols == Statements("drop_column", df.cols.drop, "no")
           idx == Statements("drop_index", df.dropIdx, "no")
           idxIf == Statements("drop_index_if_exists", df.dropIdx, "no")
           ofFk == Statements("drop_index", IsFk(df.dropCon), "needed")
           idxIdle == Statements("drop_index", df.dropIdx, "needed")
           list == Apply(e, df)
<1>1. Named(n, df, e, s)
  <2>1. CASE e = "pg"
    <3>1. n = PgNames(df)
      BY <2>1
    <3> HIDE DEF n
    <3> QED BY <2>1, <3>1, PgNamed
  <2>2. CASE e # "pg"
    <3>1. n = df
      BY <2>2
    <3> HIDE DEF n
    <3> QED BY <3>1, NamedAsSource
  <2> QED BY <2>1, <2>2
<1>2. e = "pg" => list = ((((create \o cons) \o idxIf) \o cols) \o reshape) \o fks
  BY DEF Apply, PgApply
<1>3. e = "mysql" => list = (((((create \o cons) \o cols) \o reshape) \o ofFk) \o idxIdle) \o fks
  BY DEF Apply, MysqlApply
<1>4. e # "pg" /\ e # "mysql" => list = ((((create \o cons) \o idx) \o cols) \o reshape) \o fks
  BY DEF Apply, MssqlApply
<1> HIDE DEF n, list
<1>5. Keyed(create, e, s, b)
      /\ \A tbl \in df.create : \A y \in tbl.cons : y.kind = "unique" => \E st \in Said(create) : Makes(st, y)
  BY <1>1, CreatesKeyed
<1>6. Keyed(reshape, e, s, b) /\ \A y \in df.addCon : y.kind = "unique" => \E st \in Said(reshape) : Makes(st, y)
  BY <1>1, ReshapeKeyed
<1>7. Keyed(fks, e, s, b)
  <2>1. AreCons(IsFk(df.addCon)) /\ \A x \in IsFk(df.addCon) : FromSource(e, x, s)
    BY SomeAre DEF IsFk, Proper, KeysOf, FromSource
  <2> QED BY <2>1, KeysKeyed DEF AddForeignKeys
<1>8. Keyed(cons, e, s, b) /\ Keyed(cols, e, s, b) /\ Keyed(idx, e, s, b) /\ Keyed(idxIf, e, s, b)
      /\ Keyed(idxIdle, e, s, b) /\ (e = "mysql" => Keyed(ofFk, e, s, b))
  BY DropsKeyed
<1> HIDE DEF create, reshape, fks, cons, cols, idx, idxIf, ofFk, idxIdle
<1> DEFINE Good(l) == Keyed(l, e, s, b)
           Whole(l) == Keyed(l, e, s, b) /\ Said(create) \subseteq Said(l)
<1>9. ASSUME NEW l, NEW k, Whole(l), Good(k)
      PROVE  Whole(l \o k) /\ Said(l) \subseteq Said(l \o k) /\ Said(k) \subseteq Said(l \o k)
  BY <1>9, BothKeyed
<1>10. Whole(create) /\ Good(reshape) /\ Good(fks) /\ Good(cons) /\ Good(cols) /\ Good(idx) /\ Good(idxIf)
       /\ Good(idxIdle) /\ (e = "mysql" => Good(ofFk))
  BY <1>5, <1>6, <1>7, <1>8
<1> HIDE DEF Whole, Good
<1>11. Whole(create \o cons) /\ Whole((create \o cons) \o idxIf) /\ Whole((create \o cons) \o idx)
       /\ Whole((create \o cons) \o cols)
  <2>1. Whole(create \o cons)
    BY <1>9, <1>10
  <2> QED BY <1>9, <1>10, <2>1
<1>12. Whole(((create \o cons) \o idxIf) \o cols) /\ Whole(((create \o cons) \o idx) \o cols)
  BY <1>9, <1>10, <1>11
<1>13. ASSUME NEW l, Whole(l)
       PROVE  Whole((l \o reshape) \o fks) /\ Said(reshape) \subseteq Said((l \o reshape) \o fks)
  <2>1. Whole(l \o reshape) /\ Said(reshape) \subseteq Said(l \o reshape)
    BY <1>9, <1>10, <1>13
  <2>2. Whole((l \o reshape) \o fks) /\ Said(l \o reshape) \subseteq Said((l \o reshape) \o fks)
    BY <1>9, <1>10, <2>1
  <2> QED BY <2>1, <2>2
<1>14. Whole(list) /\ Said(reshape) \subseteq Said(list)
  <2>1. CASE e = "pg"
    BY <1>2, <1>12, <1>13, <2>1
  <2>2. CASE e = "mysql"
    <3> DEFINE l1 == ((create \o cons) \o cols) \o reshape
               l2 == l1 \o ofFk
               l3 == l2 \o idxIdle
    <3>1. list = l3 \o fks
      BY <1>3, <2>2
    <3>2. Whole(l1) /\ Said(reshape) \subseteq Said(l1)
      BY <1>9, <1>10, <1>11
    <3> HIDE DEF l1
    <3>3. Whole(l2) /\ Said(l1) \subseteq Said(l2)
      BY <1>9, <1>10, <2>2, <3>2
    <3> HIDE DEF l2
    <3>4. Whole(l3) /\ Said(l2) \subseteq Said(l3)
      BY <1>9, <1>10, <3>3
    <3> HIDE DEF l3
    <3>5. Whole(l3 \o fks) /\ Said(l3) \subseteq Said(l3 \o fks)
      BY <1>9, <1>10, <3>4
    <3> QED BY <3>1, <3>2, <3>3, <3>4, <3>5
  <2>3. CASE e # "pg" /\ e # "mysql"
    BY <1>4, <1>12, <1>13, <2>3
  <2> QED BY <2>1, <2>2, <2>3
<1>15. ASSUME NEW y \in s.cons, y.kind = "unique"
       PROVE  \/ \E x \in b.cons : ConstraintKey(x) = ConstraintKey(y)
              \/ \E st \in Said(list) : Makes(st, y)
  <2>1. y.t \in s.tables
    BY DEF Legible
  <2>2. CASE y \in df.addCon
    BY <1>6, <1>14, <1>15, <2>2
  <2>3. ASSUME NEW tbl \in df.create, y \in tbl.cons PROVE \E st \in Said(list) : Makes(st, y)
    BY <1>5, <1>14, <1>15, <2>3 DEF Whole
  <2> QED BY <2>1, <2>2, <2>3 DEF KeysOf
<1>16. Keyed(list, e, s, b)
  BY <1>14 DEF Whole
<1> QED BY <1>15, <1>16 DEF list

\* The indexes.
LEMMA IndexesKeyed ==
  ASSUME NEW df, Proper(df), NEW e, NEW s, NEW b, KeysOf(df, s, b)
  PROVE  \A st \in Said(CreateIndexes(df)) : KeyMeans(e, st, s, b)
<1>1. Listable(df.newIdx)
  BY AreListable DEF Proper
<1>2. Said(CreateIndexes(df)) = Each("create_index", df.newIdx, "any")
  BY <1>1, StatementsSaid DEF CreateIndexes
<1>3. ASSUME NEW x \in df.newIdx PROVE KeyMeans(e, [op |-> "create_index", of |-> x, spare |-> "any"], s, b)
  BY DEF KeyMeans, KeysOf
<1> QED BY <1>2, <1>3 DEF Each

\* A statement that makes a unique key, when it succeeds.
LEMMA MakesUnique ==
  ASSUME NEW e, NEW db, IsDatabase(db), NEW st, NEW y, Makes(st, y)
  PROVE  HasUnique(Effect(e, db, st), y)
<1> DEFINE x == st.of
           it == Effect(e, db, st)
<1>1. CASE st.op = "add_constraint" /\ IsUnique(x, y)
  <2> DEFINE made == IF /\ e = "mysql" /\ x.kind = "fk"
                        /\ ~\E i \in Physical(db) \cup Of("pk", db) : Serves(i, x)
                     THEN {FkIndex(x)} ELSE {}
             idle == IF e = "mysql" /\ x.kind # "fk" THEN {FkIndex(f) : f \in {f \in Of("fk", db) : Serves(x, f)}} ELSE {}
             K == db.cons \cup {x}
             I == (db.idx \cup made) \ idle
             new == [db EXCEPT !.cons = K, !.idx = I]
  <2>1. it = new
    <3>1. it = WithConstraint(e, db, x)
      BY <1>1 DEF Effect
    <3> QED BY <3>1 DEF WithConstraint
  <2> HIDE DEF made, idle, K, I, it
  <2>2. new.cons = K
    BY DEF IsDatabase
  <2> HIDE DEF new
  <2>3. x \in it.cons
    BY <2>1, <2>2 DEF K
  <2> QED BY <1>1, <2>3 DEF HasUnique, it
<1>2. CASE st.op = "create_table" /\ \E u \in x.cons : IsUnique(u, y)
  <2> DEFINE T == db.tables \cup {x.t}
             C == db.cols \cup x.cols
             K == db.cons \cup x.cons
             new == [db EXCEPT !.tables = T, !.cols = C, !.cons = K]
  <2>1. it = new
    BY <1>2 DEF Effect
  <2> HIDE DEF T, C, K, it
  <2>2. new.cons = K
    BY DEF IsDatabase
  <2> HIDE DEF new
  <2>3. x.cons \subseteq it.cons
    BY <2>1, <2>2 DEF K
  <2> QED BY <1>2, <2>3 DEF HasUnique, it
<1> QED BY <1>1, <1>2 DEF Makes

\* What a run finds, it has not lost.
LEMMA HeldAtFirst ==
  ASSUME NEW e, NEW s, NEW b
  PROVE  KeysHeld(e, b, s, b)
  BY DEF KeysHeld

-----------------------------------------------------------------------------
\* Names agree on all there is; what both sides had is there; what is left to run is about the
\* keys and indexes of the source, and each unique key of the source is there or to be made.
KeysSound ==
  LET s == SourceSchema
  IN  /\ Legible(s) /\ Agrees(s, dst) /\ Agrees(s, before)
      /\ KeysHeld(pair.dst, dst, s, before)
      /\ \A st \in Said(script) :
           KeyMeans(pair.dst, st, s, before) /\ (st.op = "create_index" => stage = "index")
      /\ stage = "apply" => \A y \in s.cons :
           y.kind = "unique" => HasUnique(dst, y) \/ \E st \in Said(script) : Makes(st, y)
      /\ stage = "index" => HasUniques(dst, s)

KeyInv == PreviewInv /\ KeysSound

\* A run is yet to begin.
LEMMA KeyInit == NamesAgree /\ SyncInit => KeyInv
<1> SUFFICES ASSUME NamesAgree, SyncInit PROVE KeyInv
  OBVIOUS
<1>1. PreviewInv
  BY PreviewInit
<1>2. /\ pair \in Pairs /\ src \in Databases[pair.src] /\ dst \in Databases[pair.dst]
      /\ before = dst /\ stage = "idle" /\ script = <<>>
  BY DEF SyncInit
<1>3. Legible(SourceSchema) /\ Agrees(SourceSchema, dst)
  BY <1>2 DEF NamesAgree, SourceSchema
<1>4. Said(script) = {}
  BY <1>2, NothingSaid
<1>5. KeysSound
  BY <1>2, <1>3, <1>4, HeldAtFirst DEF KeysSound
<1> QED BY <1>1, <1>5 DEF KeyInv

\* The keys of the difference a run decides on.
LEMMA KeysFound ==
  ASSUME NEW s, NEW b, IsDatabase(s), IsDatabase(b), NEW from, NEW to,
         NEW m, m = TranslateDiff(Diff(to, Inspect(from, s), Inspect(to, b)), from, to)
  PROVE  Proper(m) /\ KeysOf(m, Inspect(from, s), b)
<1> DEFINE S == Inspect(from, s)
           D == Inspect(to, b)
<1>1. IsDatabase(S) /\ IsDatabase(D) /\ D.cons = b.cons
  BY Inspected
<1> HIDE DEF S, D
<1>2. m = Meant(S, D, from, to)
  BY DEF Meant, S, D
<1>3. KeysOf(m, S, D)
  BY <1>1, <1>2, KeysMeant
<1>4. KeysOf(m, S, b)
  BY <1>1, <1>3 DEF KeysOf
<1>5. Proper(m)
  BY <1>1, <1>2, MeantIsProper
<1> QED BY <1>4, <1>5 DEF S

\* A run begins with what it finds.
LEMMA KeyStart == KeyInv /\ StartRun => KeyInv'
<1> SUFFICES ASSUME KeyInv, StartRun PROVE KeyInv'
  OBVIOUS
<1> DEFINE s == SourceSchema
           e == pair.dst
<1>1. PreviewInv' /\ UNCHANGED <<pair, src, dst>> /\ before' = dst /\ stage' = "apply"
      /\ script' = Apply(e, diff')
  BY StartRunKeeps DEF KeyInv, StartRun
<1>2. s' = s /\ e' = e
  BY <1>1 DEF SourceSchema
<1>3. Legible(s) /\ Agrees(s, dst)
  BY DEF KeyInv, KeysSound
<1> HIDE DEF s, e
<1>4. Proper(diff') /\ KeysOf(diff', s, before')
  <2>1. /\ IsDatabase(src') /\ IsDatabase(before')
        /\ diff' = TranslateDiff(Diff(pair.dst, Inspect(pair.src, src'), Inspect(pair.dst, before')), pair.src, pair.dst)
    BY <1>1 DEF PreviewInv, SoundRun, PreviewDiff, SourceSchema
  <2>2. Proper(diff') /\ KeysOf(diff', Inspect(pair.src, src'), before')
    BY <2>1, KeysFound
  <2> QED BY <1>1, <2>2 DEF s, SourceSchema
<1>5. /\ Keyed(script', e, s, dst)
      /\ \A y \in s.cons : y.kind = "unique" =>
           \/ \E x \in dst.cons : ConstraintKey(x) = ConstraintKey(y)
           \/ \E st \in Said(script') : Makes(st, y)
  BY <1>1, <1>3, <1>4, ApplyKeyed
<1>6. ASSUME NEW y \in s.cons, y.kind = "unique", NEW x \in dst.cons, ConstraintKey(x) = ConstraintKey(y)
      PROVE  HasUnique(dst, y)
  <2>1. x.kind # "pk" /\ IndexKey(x) = IndexKey(y)
    BY <1>6, KeyIs
  <2>2. x.kind = "unique"
    BY <1>3, <1>6, <2>1 DEF Agrees
  <2> QED BY <2>1, <2>2 DEF HasUnique, IsUnique
<1>7. KeysSound'
  BY <1>1, <1>2, <1>3, <1>5, <1>6, HeldAtFirst DEF KeysSound, Keyed, s, e
<1> QED BY <1>1, <1>7 DEF KeyInv

\* A statement does what it says, or is refused.
LEMMA KeyStatement == KeyInv /\ RunStatement => KeyInv'
<1> SUFFICES ASSUME KeyInv, RunStatement PROVE KeyInv'
  OBVIOUS
<1> DEFINE s == SourceSchema
           e == pair.dst
           st == Head(script)
           why == Refusal(pair.dst, dst, st)
<1>1. PreviewInv' /\ PreviewInv
  BY RunStatementKeeps DEF KeyInv
<1>2. /\ stage \in {"apply", "index"} /\ script # <<>> /\ UNCHANGED <<pair, src, before, diff>>
      /\ \/ Succeeds
         \/ why # "none" /\ RefusedFor(why)
         \/ RefusedFor("other")
  BY DEF RunStatement
<1>3. Succeeds \/ \E w \in {"other", "needed"} : RefusedFor(w)
  BY <1>2, RefusalNames
<1> HIDE DEF why
<1>4. s' = s /\ e' = e /\ before' = before
  BY <1>2 DEF SourceSchema
<1>5. /\ Legible(s) /\ Agrees(s, dst) /\ Agrees(s, before) /\ KeysHeld(e, dst, s, before)
      /\ \A x \in Said(script) : KeyMeans(e, x, s, before) /\ (x.op = "create_index" => stage = "index")
      /\ stage = "apply" => \A y \in s.cons :
           y.kind = "unique" => HasUnique(dst, y) \/ \E x \in Said(script) : Makes(x, y)
      /\ stage = "index" => HasUniques(dst, s)
  BY DEF KeyInv, KeysSound
<1>6. IsDatabase(dst) /\ IsList(script)
  BY <1>1 DEF PreviewInv, SoundRun, Tells
<1>7. st \in Said(script) /\ Said(script) = {st} \cup Said(Tail(script))
  BY <1>2, <1>6, FirstSaid
<1> HIDE DEF s, e, st
<1>8. CASE Succeeds
  <2> DEFINE it == Effect(e, dst, st)
  <2>1. dst' = it /\ script' = Tail(script) /\ stage' = stage
    BY <1>8 DEF Succeeds, st, e
  <2>2. Follows(e, it, dst, s, before, st)
    BY <1>5, <1>6, <1>7, StatementFollows
  <2>3. ASSUME NEW y, Makes(st, y) PROVE HasUnique(it, y)
    BY <1>6, <2>3, MakesUnique
  <2> HIDE DEF it
  <2>4. KeysHeld(e, it, s, before)
    BY <1>5, <2>2, HeldOn
  <2>5. st.op = "create_index" => HasUniques(dst, s)
    BY <1>5, <1>7
  <2>6. Agrees(s, it)
    BY <1>5, <2>2, <2>5, AgreesOn
  <2>7. \A y \in s.cons : y.kind = "unique" /\ HasUnique(dst, y) => HasUnique(it, y)
    BY <1>5, <2>2, UniqueStays
  <2>8. stage = "index" => HasUniques(it, s)
    BY <1>5, <2>7 DEF HasUniques
  <2>9. stage = "apply" => \A y \in s.cons :
          y.kind = "unique" => HasUnique(it, y) \/ \E x \in Said(Tail(script)) : Makes(x, y)
    BY <1>5, <1>7, <2>3, <2>7
  <2>10. KeysSound'
    BY <1>4, <1>5, <1>7, <2>1, <2>4, <2>6, <2>8, <2>9 DEF KeysSound, s, e
  <2> QED BY <1>1, <2>10 DEF KeyInv
<1>9. ASSUME NEW w \in {"other", "needed"}, RefusedFor(w) PROVE KeyInv'
  <2>1. CASE st.spare \in {"any", w}
    <3>1. script' = Tail(script) /\ dst' = dst /\ stage' = stage
      BY <1>9, <2>1 DEF RefusedFor, Skipped, st
    <3>2. \A y : ~ Makes(st, y)
      BY <2>1 DEF Makes
    <3>3. KeysSound'
      BY <1>4, <1>5, <1>7, <3>1, <3>2 DEF KeysSound, s, e
    <3> QED BY <1>1, <3>3 DEF KeyInv
  <2>2. CASE st.spare \notin {"any", w}
    <3>1. stage' = "idle" /\ script' = <<>> /\ (dst' = before \/ dst' = dst)
      BY <1>9, <2>2 DEF RefusedFor, Failed, RollBack, st
    <3>2. Agrees(s, dst') /\ KeysHeld(e, dst', s, before)
      BY <1>5, <3>1, HeldAtFirst
    <3>3. Said(script') = {}
      BY <3>1, NothingSaid
    <3>4. KeysSound'
      BY <1>4, <1>5, <3>1, <3>2, <3>3 DEF KeysSound, s, e
    <3> QED BY <1>1, <3>4 DEF KeyInv
  <2> QED BY <2>1, <2>2
<1> QED BY <1>3, <1>8, <1>9

\* The rows leave the schema alone; the indexes come when the unique keys are there.
LEMMA KeyLoad == KeyInv /\ Load => KeyInv'
<1> SUFFICES ASSUME KeyInv, Load PROVE KeyInv'
  OBVIOUS
<1> DEFINE s == SourceSchema
           e == pair.dst
<1>1. PreviewInv' /\ PreviewInv
  BY LoadKeeps DEF KeyInv
<1>2. /\ stage = "apply" /\ script = <<>> /\ UNCHANGED <<pair, src, dst, before, diff>>
      /\ \/ stage' = "index" /\ script' = CreateIndexes(diff)
         \/ stage' = "idle" /\ script' = <<>>
  BY DEF Load, Failed
<1>3. s' = s /\ e' = e
  BY <1>2 DEF SourceSchema
<1>4. /\ Legible(s) /\ Agrees(s, dst) /\ Agrees(s, before) /\ KeysHeld(e, dst, s, before)
      /\ \A y \in s.cons : y.kind = "unique" => HasUnique(dst, y) \/ \E x \in Said(script) : Makes(x, y)
  BY <1>2 DEF KeyInv, KeysSound
<1>5. Said(<<>>) = {}
  BY NothingSaid
<1>6. HasUniques(dst, s)
  BY <1>2, <1>4, <1>5 DEF HasUniques
<1>7. Proper(diff) /\ KeysOf(diff, s, before)
  <2>1. /\ IsDatabase(src) /\ IsDatabase(before)
        /\ diff = TranslateDiff(Diff(pair.dst, Inspect(pair.src, src), Inspect(pair.dst, before)), pair.src, pair.dst)
    BY <1>1 DEF PreviewInv, SoundRun, PreviewDiff, SourceSchema
  <2> QED BY <2>1, KeysFound DEF SourceSchema
<1> HIDE DEF s, e
<1>8. \A st \in Said(CreateIndexes(diff)) : KeyMeans(e, st, s, before)
  BY <1>7, IndexesKeyed
<1>9. KeysSound'
  <2>1. CASE stage' = "index" /\ script' = CreateIndexes(diff)
    BY <1>2, <1>3, <1>4, <1>6, <1>8, <2>1 DEF KeysSound, s, e
  <2>2. CASE stage' = "idle" /\ script' = <<>>
    BY <1>2, <1>3, <1>4, <1>5, <2>2 DEF KeysSound, s, e
  <2> QED BY <1>2, <2>1, <2>2
<1> QED BY <1>1, <1>9 DEF KeyInv

\* So do the counters.
LEMMA KeyReset == KeyInv /\ ResetSequences => KeyInv'
<1> SUFFICES ASSUME KeyInv, ResetSequences PROVE KeyInv'
  OBVIOUS
<1>1. PreviewInv'
  BY ResetKeeps DEF KeyInv
<1>2. stage = "index" /\ script = <<>> /\ stage' = "idle" /\ UNCHANGED <<pair, src, dst, before, script>>
  BY DEF ResetSequences
<1>3. Said(script) = {}
  BY <1>2, NothingSaid
<1>4. SourceSchema' = SourceSchema
  BY <1>2 DEF SourceSchema
<1>5. KeysSound'
  BY <1>2, <1>3, <1>4 DEF KeyInv, KeysSound
<1> QED BY <1>1, <1>5 DEF KeyInv

-----------------------------------------------------------------------------
\* What both sides had is reported.
LEMMA IndexReported ==
  ASSUME NEW e, NEW db, IsDatabase(db), NEW b, IsDatabase(b), NEW s,
         Legible(s), Agrees(s, b), KeysHeld(e, db, s, b),
         NEW i \in Inspect(e, b).idx, NEW j \in s.idx, IndexKey(i) = IndexKey(j)
  PROVE  \E x \in Inspect(e, db).idx : IndexKey(x) = IndexKey(i)
<1>1. \A d : IsDatabase(d) => Inspect(e, d).idx = IF e = "pg" THEN Physical(d) ELSE NotOfAConstraint(d)
  <2> SUFFICES ASSUME NEW d, IsDatabase(d)
               PROVE  Inspect(e, d).idx = IF e = "pg" THEN Physical(d) ELSE NotOfAConstraint(d)
    OBVIOUS
  <2> DEFINE P == Physical(d)
             R == NotOfAConstraint(d)
  <2>1. Inspect(e, d) = IF e = "pg" THEN [d EXCEPT !.idx = P] ELSE [d EXCEPT !.idx = R]
    BY DEF Inspect, PgInspect, MysqlInspect, MssqlInspect
  <2> HIDE DEF P, R
  <2>2. [d EXCEPT !.idx = P].idx = P /\ [d EXCEPT !.idx = R].idx = R
    BY DEF IsDatabase
  <2> QED BY <2>1, <2>2 DEF P, R
<1> DEFINE indexOf(u) == [t |-> u.t, name |-> u.name, cols |-> u.cols]
<1>2. \A d, x : x \in Physical(d) <=> x \in d.idx \/ \E u \in d.cons : u.kind = "unique" /\ x = indexOf(u)
  BY DEF Physical, Of
<1>3. \A u : indexOf(u).t = u.t /\ indexOf(u).name = u.name /\ IndexKey(indexOf(u)) = IndexKey(u)
  BY KeyIs
<1> HIDE DEF indexOf
<1>4. CASE e = "pg"
  <2>1. i \in Physical(b) /\ Inspect(e, db).idx = Physical(db)
    BY <1>1, <1>4
  <2>2. CASE i \in b.idx
    <3>1. i \in db.idx
      BY <1>4, <2>2 DEF KeysHeld
    <3> QED BY <1>2, <2>1, <3>1
  <2>3. ASSUME NEW u \in b.cons, u.kind = "unique", i = indexOf(u)
        PROVE  \E x \in Physical(db) : IndexKey(x) = IndexKey(i)
    <3>1. IndexKey(u) = IndexKey(j)
      BY <1>3, <2>3
    <3>2. PICK y \in s.cons : y.kind = "unique" /\ IndexKey(y) = IndexKey(u)
      BY <2>3, <3>1 DEF Agrees, Of
    <3>3. ConstraintKey(y) = ConstraintKey(u)
      BY <2>3, <3>2, KeyIs
    <3>4. u \in db.cons
      BY <3>3 DEF KeysHeld
    <3>5. indexOf(u) \in Physical(db)
      BY <1>2, <2>3, <3>4
    <3> QED BY <2>3, <3>5
  <2> QED BY <1>2, <2>1, <2>2, <2>3
<1>5. CASE e # "pg"
  <2>1. i \in NotOfAConstraint(b) /\ Inspect(e, db).idx = NotOfAConstraint(db)
    BY <1>1, <1>5
  <2>2. i \in Physical(b) /\ \A c \in b.cons : IndexKey(c) # IndexKey(i)
    BY <2>1, KeyIs DEF NotOfAConstraint
  <2>3. i \in b.idx
    BY <1>2, <1>3, <2>2
  <2>4. i \in db.idx
    BY <2>2, <2>3 DEF KeysHeld
  <2>5. ASSUME NEW k \in db.cons, k.t = i.t, k.name = i.name PROVE FALSE
    <3>1. IndexKey(k) = IndexKey(i)
      BY <2>5, KeyIs
    <3>2. PICK y \in s.cons : IndexKey(y) = IndexKey(k) /\ y.kind = k.kind
      BY <1>5, <2>2, <3>1 DEF KeysHeld
    <3>3. y.kind = "unique"
      BY <3>1, <3>2 DEF Legible
    <3> QED BY <2>3, <3>1, <3>2, <3>3 DEF Agrees, Of
  <2>6. i \in NotOfAConstraint(db)
    BY <1>2, <2>4, <2>5 DEF NotOfAConstraint
  <2> QED BY <2>1, <2>6
<1> QED BY <1>4, <1>5

\* Nothing of both sides is lost.
LEMMA SharedKept == KeyInv => KeepsShared
<1> SUFFICES ASSUME KeyInv PROVE KeepsShared
  OBVIOUS
<1> DEFINE s == SourceSchema
           D == Inspect(pair.dst, before)
           A == SchemaNow
           had == Holdings(D)
           has == Holdings(A)
           src_ == Holdings(s)
<1>1. /\ IsDatabase(before) /\ IsDatabase(dst) /\ IsDatabase(src) /\ Kept(dst, src, before, diff)
      /\ Legible(s) /\ Agrees(s, before) /\ KeysHeld(pair.dst, dst, s, before)
  BY DEF KeyInv, PreviewInv, SoundRun, KeysSound
<1>2. /\ D.tables = before.tables /\ D.cols = before.cols /\ D.cons = before.cons
      /\ s.tables = src.tables /\ s.cols = src.cols
      /\ A.tables = dst.tables /\ A.cols = dst.cols /\ A.cons = dst.cons
  BY <1>1, Inspected DEF SourceSchema, SchemaNow
<1>3. \A i \in D.idx, j \in s.idx : IndexKey(i) = IndexKey(j) => \E x \in A.idx : IndexKey(x) = IndexKey(i)
  BY <1>1, IndexReported DEF SchemaNow
<1> HIDE DEF s, D, A
<1>4. \A db : /\ DOMAIN Holdings(db) = {"tables", "cols", "keys", "idx"}
              /\ Holdings(db).tables = db.tables /\ Holdings(db).cols = {Column(c) : c \in db.cols}
              /\ Holdings(db).keys = {ConstraintKey(c) : c \in db.cons}
              /\ Holdings(db).idx = {IndexKey(i) : i \in db.idx}
  BY DEF Holdings, ConstraintKey
<1> HIDE DEF had, has, src_
<1>5. had.tables \cap src_.tables \subseteq has.tables
  BY <1>1, <1>2, <1>4 DEF Kept, had, has, src_
<1>6. had.cols \cap src_.cols \subseteq has.cols
  <2>1. \A c \in D.cols, x \in s.cols : Column(c) = Column(x) => \E d \in A.cols : Column(d) = Column(c)
    BY <1>1, <1>2 DEF Kept
  <2>2. {Column(c) : c \in D.cols} \cap {Column(c) : c \in s.cols} \subseteq {Column(c) : c \in A.cols}
    BY <2>1
  <2> QED BY <1>4, <2>2 DEF had, has, src_
<1>7. had.keys \cap src_.keys \subseteq has.keys
  <2>1. \A x \in D.cons, y \in s.cons : ConstraintKey(x) = ConstraintKey(y) => x \in A.cons
    BY <1>1, <1>2 DEF KeysHeld
  <2>2. {ConstraintKey(c) : c \in D.cons} \cap {ConstraintKey(c) : c \in s.cons} \subseteq {ConstraintKey(c) : c \in A.cons}
    BY <2>1
  <2> QED BY <1>4, <2>2 DEF had, has, src_
<1>8. had.idx \cap src_.idx \subseteq has.idx
  <2>1. {IndexKey(i) : i \in D.idx} \cap {IndexKey(i) : i \in s.idx} \subseteq {IndexKey(i) : i \in A.idx}
    BY <1>3
  <2> QED BY <1>4, <2>1 DEF had, has, src_
<1>9. \A part \in DOMAIN had : had[part] \cap src_[part] \subseteq has[part]
  <2>1. DOMAIN had = {"tables", "cols", "keys", "idx"}
    BY <1>4 DEF had
  <2> QED BY <1>5, <1>6, <1>7, <1>8, <2>1
<1> QED BY <1>9 DEF KeepsShared, had, has, src_, s, D, A

\* KeepsShared holds of any databases whose names agree, whatever is refused or fails.
THEOREM KeepsAllShared == NamesAgree /\ SyncSpec => []KeepsShared
<1>1. NamesAgree /\ SyncInit => KeyInv
  BY KeyInit
<1>2. KeyInv /\ [SyncNext]_syncVars => KeyInv'
  <2> SUFFICES ASSUME KeyInv, [SyncNext]_syncVars PROVE KeyInv'
    OBVIOUS
  <2>1. CASE UNCHANGED syncVars
    <3>1. PreviewInv' = PreviewInv
      BY <2>1 DEF syncVars, PreviewInv, SoundRun, FullRun, PreviewDiff, SourceSchema
    <3>2. KeysSound' = KeysSound
      BY <2>1 DEF syncVars, KeysSound, SourceSchema
    <3> QED BY <3>1, <3>2 DEF KeyInv
  <2> QED BY <2>1, KeyStart, KeyStatement, KeyLoad, KeyReset DEF SyncNext
<1> QED BY <1>1, <1>2, SharedKept, PTL DEF SyncSpec
=============================================================================
