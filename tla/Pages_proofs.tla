---------------------------- MODULE Pages_proofs ----------------------------
(***************************************************************************)
(* Proofs about what a browser is sent of a run (RunStream) and what it     *)
(* makes of it (RunView).                                                  *)
(***************************************************************************)
EXTENDS RunStream, RunView, FiniteSetTheorems, SequenceTheorems, TLAPS

\* A set of naturals below a bound has a greatest member.
LEMMA MaxOf ==
  ASSUME NEW n \in Nat, NEW S \in SUBSET (0 .. n), S # {}
  PROVE  Max(S) \in S /\ \A x \in S : Max(S) >= x
<1> DEFINE Up(x) == x .. n
           F == {Up(x) : x \in S}
<1>1. F \subseteq FiniteSubsetsOf(0 .. n) /\ F # {}
  <2>1. ASSUME NEW x \in S PROVE Up(x) \in SUBSET (0 .. n)
    <3>1. x \in Nat
      OBVIOUS
    <3> QED BY <3>1
  <2>2. IsFiniteSet(0 .. n)
    BY FS_Interval
  <2>3. ASSUME NEW x \in S PROVE Up(x) \in FiniteSubsetsOf(0 .. n)
    <3> HIDE DEF Up
    <3> QED BY <2>1, <2>2, FS_Subset DEF FiniteSubsetsOf
  <2> HIDE DEF Up
  <2> QED BY <2>3
<1>2. \E X \in F : \A Y \in F : ~ (<<Y, X>> \in StrictSubsetOrdering(0 .. n))
  <2>1. IsFiniteSet(0 .. n)
    BY FS_Interval
  <2> HIDE DEF F
  <2> QED BY <1>1, <2>1, FS_StrictSubsetOrderingWellFounded, WFMin
<1>3. PICK m \in S : \A Y \in F : ~ (<<Y, Up(m)>> \in StrictSubsetOrdering(0 .. n))
  BY <1>2
<1>4. \A x \in S : m >= x
  <2> SUFFICES ASSUME NEW x \in S, x > m PROVE FALSE
    OBVIOUS
  <2>1. Up(x) \subseteq Up(m) /\ m \in Up(m) /\ m \notin Up(x)
        /\ Up(x) \in SUBSET (0 .. n) /\ Up(m) \in SUBSET (0 .. n)
    OBVIOUS
  <2>2. Up(x) \in F
    OBVIOUS
  <2> HIDE DEF Up, F
  <2> QED BY <1>3, <2>1, <2>2 DEF StrictSubsetOrdering
<1> QED BY <1>3, <1>4 DEF Max

-----------------------------------------------------------------------------
(***************************************************************************)
(* RunStream.                                                              *)
(***************************************************************************)

CursorRow ==
  [seq : 0 .. MaxSeq, st : {"idle", "asked", "got"}, page : SUBSET Seqs,
   again : BOOLEAN, retry : BOOLEAN]
SocketStates == {"none", "asked", "track", "set", "row", "events", "send", "live"}
SocketRow ==
  [st : SocketStates, cohort : Roles, grant : Roles, seq : 0 .. MaxSeq,
   over : BOOLEAN, S : SUBSET Seqs, top : 0 .. MaxSeq, sent : SUBSET Seqs]

StreamType ==
  /\ stored \in 0 .. MaxSeq /\ role \in Roles /\ check.role \in Roles
  /\ cur \in {0} \cup Cursors
  /\ cursor \in [Cursors -> CursorRow]
  /\ sock \in [Browser -> SocketRow]

\* A cursor is not ahead of the ledger, and a page it has read has no hole.
CursorInv ==
  \A i \in Cursors :
    /\ cursor[i].seq <= stored
    /\ cursor[i].st # "got" => cursor[i].page = {}
    /\ \A q \in cursor[i].page : q <= stored /\ cursor[i].seq + 1 .. q \subseteq cursor[i].page

\* A socket that was tracked has a cursor for as long as it lives; what is read for
\* a cursor is not ahead of the ledger.
TrackedInv ==
  \A b \in Browser :
    /\ sock[b].seq <= stored
    /\ sock[b].st \in {"row", "events", "send", "live"} => cur # 0

StreamInv == StreamType /\ CursorInv /\ TrackedInv /\ NoServerGap

\* k has, by its snapshot or published to it, everything up to n.
Caught(k, n) == k.st \in {"send", "live"} => k.top + 1 .. n \subseteq k.sent

\* What is published to a socket is recorded, and nothing else of it changes.
LEMMA SentRecorded ==
  ASSUME NEW k \in SocketRow, NEW S \in SUBSET Seqs
  PROVE  /\ Sent(k, S) \in SocketRow
         /\ Sent(k, S).st = k.st /\ Sent(k, S).seq = k.seq
         /\ \A n \in Nat : k.st \in {"send", "live"} /\ k.top + 1 .. n \subseteq k.sent \cup S
                             => Caught(Sent(k, S), n)
<1> DEFINE all == (1 .. k.top) \cup k.sent \cup S
           N == {n \in 0 .. MaxSeq : 1 .. n \subseteq all}
           top == Max(N)
<1>0. MaxSeq \in Nat
  BY StreamAssumption
<1>1. CASE k.st \notin {"send", "live"}
  <2>1. Sent(k, S) = [k EXCEPT !.sent = @ \cup S]
    BY <1>1 DEF Sent
  <2> QED BY <1>1, <2>1 DEF SocketRow, Caught
<1>2. CASE k.st \in {"send", "live"}
  <2>1. Sent(k, S) = [k EXCEPT !.top = top, !.sent = {q \in all : q > top}]
    BY <1>2 DEF Sent
  <2>2. k.top \in 0 .. MaxSeq /\ k.sent \subseteq Seqs
    BY DEF SocketRow
  <2>3. all \subseteq Seqs /\ N \subseteq 0 .. MaxSeq /\ k.top \in N
    <3>1. 1 .. k.top \subseteq Seqs
      BY <1>0, <2>2 DEF Seqs
    <3> QED BY <2>2, <3>1
  <2>4. top \in N /\ top >= k.top /\ top \in 0 .. MaxSeq
    <3> HIDE DEF N
    <3> QED BY <1>0, <2>3, MaxOf
  <2> HIDE DEF top, N
  <2>5. {q \in all : q > top} \in SUBSET Seqs
    BY <2>3
  <2>6. Sent(k, S) \in SocketRow /\ Sent(k, S).st = k.st /\ Sent(k, S).seq = k.seq
        /\ Sent(k, S).top = top /\ Sent(k, S).sent = {q \in all : q > top}
    <3> HIDE DEF all
    <3> QED BY <2>1, <2>4, <2>5 DEF SocketRow
  <2>7. ASSUME NEW n \in Nat, k.top + 1 .. n \subseteq k.sent \cup S
        PROVE  top + 1 .. n \subseteq {q \in all : q > top}
    BY <1>0, <2>2, <2>4, <2>7
  <2> QED BY <2>6, <2>7 DEF Caught
<1> QED BY <1>1, <1>2

\* A page of a query is a stretch of what there was to find, with no hole.
LEMMA FirstHasNoHole ==
  ASSUME NEW n \in Nat, NEW S \in SUBSET (0 .. n)
  PROVE  FirstOf(S) \subseteq S /\ \A q \in FirstOf(S) : \A p \in S : p < q => p \in FirstOf(S)
<1> SUFFICES ASSUME NEW q \in FirstOf(S), NEW p \in S, p < q PROVE p \in FirstOf(S)
  BY DEF FirstOf
<1> DEFINE Below(x) == {y \in S : y < x}
<1>0. q \in S
  BY DEF FirstOf
<1>1. IsFiniteSet(Below(q))
  <2>1. Below(q) \in SUBSET (0 .. n)
    OBVIOUS
  <2>2. IsFiniteSet(0 .. n)
    BY FS_Interval
  <2> HIDE DEF Below
  <2> QED BY <2>1, <2>2, FS_Subset
<1>2. Below(p) \subseteq Below(q)
  <2>1. \A y \in S : y < p => y < q
    BY <1>0
  <2> QED BY <2>1
<1>3. Cardinality(Below(p)) <= Cardinality(Below(q)) /\ IsFiniteSet(Below(p))
  BY <1>1, <1>2, FS_Subset
<1>4. Cardinality(Below(p)) \in Nat /\ Cardinality(Below(q)) \in Nat
  BY <1>1, <1>3, FS_CardinalityType
<1>5. Cardinality(Below(q)) < Limit
  BY DEF FirstOf
<1>6. Cardinality(Below(p)) < Limit
  BY <1>3, <1>4, <1>5, StreamAssumption
<1> QED BY <1>6 DEF FirstOf

\* What the feed reads behind a cursor.
LEMMA ReadHasNoHole ==
  ASSUME StreamType, NEW m \in 0 .. MaxSeq, m <= stored
  PROVE  /\ FirstOf(After(m)) \in SUBSET Seqs
         /\ \A q \in FirstOf(After(m)) : q <= stored /\ m + 1 .. q \subseteq FirstOf(After(m))
<1>1. stored \in Nat /\ MaxSeq \in Nat /\ stored <= MaxSeq /\ m \in Nat
  BY StreamAssumption DEF StreamType
<1>2. After(m) \subseteq 0 .. stored /\ After(m) \subseteq Seqs
  BY <1>1 DEF After, Seqs
<1>3. /\ FirstOf(After(m)) \subseteq After(m)
      /\ \A q \in FirstOf(After(m)) : \A p \in After(m) : p < q => p \in FirstOf(After(m))
  BY <1>1, <1>2, FirstHasNoHole
<1>4. ASSUME NEW q \in FirstOf(After(m)), NEW p \in m + 1 .. q
      PROVE  q <= stored /\ p \in FirstOf(After(m))
  <2>1. q \in 1 .. stored /\ q > m
    BY <1>3 DEF After
  <2>2. p \in After(m)
    BY <1>1, <2>1 DEF After
  <2>3. p < q \/ p = q
    BY <1>1, <2>1
  <2> QED BY <1>3, <2>1, <2>2, <2>3
<1>5. ASSUME NEW q \in FirstOf(After(m)) PROVE q <= stored
  BY <1>1, <1>3 DEF After
<1> QED BY <1>2, <1>3, <1>4, <1>5

\* No socket, and one that begins.
LEMMA NoSocketTyped ==
  NoSocket \in SocketRow /\ NoSocket.st = "none" /\ NoSocket.seq = 0
BY StreamAssumption DEF NoSocket, SocketRow, SocketStates, Roles

\* A feed and sockets that are what they were, and a ledger that has grown at most.
LEMMA StreamQuiet ==
  ASSUME StreamInv, UNCHANGED <<cur, cursor, sock>>, stored' \in stored .. MaxSeq,
         role' \in Roles, check'.role \in Roles
  PROVE  StreamInv'
<1>1. StreamType'
  BY StreamAssumption DEF StreamInv, StreamType
<1>2. CursorInv'
  BY StreamAssumption, <1>1 DEF StreamInv, StreamType, CursorInv, CursorRow, Seqs
<1>3. TrackedInv' /\ NoServerGap'
  BY StreamAssumption, <1>1 DEF StreamInv, StreamType, TrackedInv, NoServerGap, SocketRow
<1> QED BY <1>1, <1>2, <1>3 DEF StreamInv

\* What a cursor does that reads nothing and stays where it is.
StaysPut(c, d) ==
  /\ d \in CursorRow /\ d.seq = c.seq /\ d.page = c.page
  /\ d.st # "got" => c.st # "got" \/ c.page = {}

\* A cursor that stays where it is.
LEMMA CursorStays ==
  ASSUME StreamInv, NEW i \in Cursors, NEW d, StaysPut(cursor[i], d),
         cursor' = [cursor EXCEPT ![i] = d], UNCHANGED <<cur, stored, role, check, sock>>
  PROVE  StreamInv'
<1>1. StreamType'
  BY DEF StreamInv, StreamType, StaysPut
<1>2. \A j \in Cursors : cursor'[j].seq = cursor[j].seq /\ cursor'[j].page = cursor[j].page
  BY DEF StreamInv, StreamType, StaysPut
<1>3. CursorInv'
  BY <1>2 DEF StreamInv, StreamType, CursorInv, StaysPut
<1>4. TrackedInv'
  BY DEF StreamInv, TrackedInv
<1>5. NoServerGap'
  BY <1>2 DEF StreamInv, StreamType, NoServerGap
<1> QED BY <1>1, <1>3, <1>4, <1>5 DEF StreamInv

\* The cursor of a run nobody watches is forgotten.
LEMMA CursorForgotten ==
  ASSUME StreamInv, ~ Watched, cur' = 0, UNCHANGED <<stored, role, check, sock>>,
         cursor' = cursor \/ \E i \in Cursors, d \in CursorRow :
           StaysPut(cursor[i], d) /\ cursor' = [cursor EXCEPT ![i] = d]
  PROVE  StreamInv'
<1>1. StreamType'
  BY DEF StreamInv, StreamType
<1>2. \A j \in Cursors : cursor'[j].seq = cursor[j].seq /\ cursor'[j].page = cursor[j].page
  BY DEF StreamInv, StreamType, StaysPut
<1>3. CursorInv'
  BY <1>2 DEF StreamInv, StreamType, CursorInv, StaysPut
<1>4. \A b \in Browser : sock[b].st \in {"none", "asked"}
  BY DEF Watched, Joined
<1> QED BY <1>1, <1>3, <1>4 DEF StreamInv, TrackedInv, NoServerGap

\* What pull and the end of a drain do to a cursor.
LEMMA PullStays ==
  ASSUME NEW c \in CursorRow, NEW d \in {c, [c EXCEPT !.retry = TRUE], [c EXCEPT !.retry = FALSE]}
  PROVE  /\ StaysPut(c, d) /\ StaysPut(c, Pulled(d))
         /\ c.st # "got" \/ c.page = {} => StaysPut(c, Ended(d))
<1>1. StaysPut(c, d)
  BY DEF StaysPut, CursorRow
<1>2. d \in CursorRow
  BY <1>1 DEF StaysPut
<1>3. StaysPut(d, Pulled(d))
  BY <1>2 DEF StaysPut, Pulled, CursorRow
<1>4. ASSUME c.st # "got" \/ c.page = {} PROVE StaysPut(d, Ended(d))
  <2>0. d.st # "got" \/ d.page = {}
    BY <1>4 DEF CursorRow
  <2>1. CASE d.again
    <3>1. Ended(d) = [d EXCEPT !.st = "asked", !.again = FALSE]
      BY <2>1 DEF Ended
    <3> QED BY <1>2, <2>0, <3>1 DEF StaysPut, CursorRow
  <2>2. CASE ~ d.again
    <3>1. Ended(d) = [d EXCEPT !.st = "idle"]
      BY <2>2 DEF Ended
    <3> QED BY <1>2, <2>0, <3>1 DEF StaysPut, CursorRow
  <2> QED BY <2>1, <2>2
<1> QED BY <1>1, <1>3, <1>4 DEF StaysPut

\* A notification, or a connection that is back.
LEMMA NotifyStep == ASSUME StreamInv, DeliverNotify \/ Reconnect PROVE StreamInv'
<1>1. UNCHANGED <<stored, role, check, sock>> /\ check'.role \in Roles /\ role' \in Roles
  BY DEF DeliverNotify, Reconnect, ledger, StreamInv, StreamType
<1>2. UNCHANGED feed \/ (cur # 0 /\ ~ Watched /\ Forget) \/ (cur # 0 /\ Pull)
  BY DEF DeliverNotify, Reconnect
<1>3. CASE UNCHANGED feed
  <2>1. stored \in stored .. MaxSeq
    BY StreamAssumption DEF StreamInv, StreamType
  <2> QED BY <1>1, <1>3, <2>1, StreamQuiet DEF feed
<1>4. CASE cur # 0 /\ ~ Watched /\ Forget
  BY <1>1, <1>4, CursorForgotten DEF Forget
<1>5. CASE cur # 0 /\ Pull
  <2>1. cur \in Cursors /\ cursor[cur] \in CursorRow
    BY <1>5 DEF StreamInv, StreamType
  <2>2. StaysPut(cursor[cur], Pulled(cursor[cur]))
    BY <2>1, PullStays
  <2>3. cursor' = [cursor EXCEPT ![cur] = Pulled(cursor[cur])] /\ UNCHANGED cur
    BY <1>5 DEF Pull
  <2> QED BY <1>1, <2>1, <2>2, <2>3, CursorStays
<1> QED BY <1>2, <1>3, <1>4, <1>5

\* A read that fails, and one that is tried again.
LEMMA RetryStep == ASSUME StreamInv, NEW i \in Cursors, FeedFails(i) \/ FeedRetries(i) PROVE StreamInv'
<1>0. cursor[i] \in CursorRow
  BY DEF StreamInv, StreamType
<1>1. CASE FeedFails(i)
  <2>1. cursor' = [cursor EXCEPT ![i] = Ended([cursor[i] EXCEPT !.retry = TRUE])]
        /\ UNCHANGED <<cur, stored, role, check, sock>>
    BY <1>1 DEF FeedFails, ledger
  <2>2. StaysPut(cursor[i], Ended([cursor[i] EXCEPT !.retry = TRUE]))
    BY <1>0, <1>1, PullStays DEF FeedFails
  <2> QED BY <2>1, <2>2, CursorStays
<1>2. CASE FeedRetries(i)
  <2> DEFINE c == [cursor[i] EXCEPT !.retry = FALSE]
  <2>1. StaysPut(cursor[i], c) /\ StaysPut(cursor[i], Pulled(c)) /\ c \in CursorRow
    BY <1>0, PullStays DEF StaysPut
  <2>2. UNCHANGED <<stored, role, check, sock>>
    BY <1>2 DEF FeedRetries, ledger
  <2>3. \/ cur = i /\ ~ Watched /\ cur' = 0 /\ cursor' = [cursor EXCEPT ![i] = c]
        \/ cursor' = [cursor EXCEPT ![i] = IF cur = i THEN Pulled(c) ELSE c] /\ UNCHANGED cur
    BY <1>2 DEF FeedRetries
  <2> HIDE DEF c
  <2>4. CASE cur = i /\ ~ Watched /\ cur' = 0 /\ cursor' = [cursor EXCEPT ![i] = c]
    BY <2>1, <2>2, <2>4, CursorForgotten
  <2>5. CASE cursor' = [cursor EXCEPT ![i] = IF cur = i THEN Pulled(c) ELSE c] /\ UNCHANGED cur
    <3>1. CASE cur = i
      BY <2>1, <2>2, <2>5, <3>1, CursorStays
    <3>2. CASE cur # i
      BY <2>1, <2>2, <2>5, <3>2, CursorStays
    <3> QED BY <3>1, <3>2
  <2> QED BY <2>3, <2>4, <2>5
<1> QED BY <1>1, <1>2

\* The feed reads a page.
LEMMA ReadStep == ASSUME StreamInv, NEW i \in Cursors, FeedRead(i) PROVE StreamInv'
<1> DEFINE S == FirstOf(After(cursor[i].seq))
<1>1. UNCHANGED <<cur, stored, role, check, sock>>
      /\ cursor' = [cursor EXCEPT ![i].st = "got", ![i].page = S]
  BY DEF FeedRead, ledger
<1>2. cursor[i].seq \in 0 .. MaxSeq /\ cursor[i].seq <= stored
  BY DEF StreamInv, StreamType, CursorRow, CursorInv
<1>3. S \in SUBSET Seqs /\ \A q \in S : q <= stored /\ cursor[i].seq + 1 .. q \subseteq S
  BY <1>2, ReadHasNoHole DEF StreamInv
<1> HIDE DEF S
<1>4. cursor'[i] \in CursorRow /\ cursor'[i].seq = cursor[i].seq /\ cursor'[i].page = S /\ cursor'[i].st = "got"
      /\ \A j \in Cursors \ {i} : cursor'[j] = cursor[j]
  BY <1>1, <1>3 DEF StreamInv, StreamType, CursorRow
<1>5. StreamType'
  BY <1>1, <1>4 DEF StreamInv, StreamType
<1>6. CursorInv'
  BY <1>1, <1>3, <1>4 DEF StreamInv, CursorInv
<1>7. TrackedInv'
  BY <1>1 DEF StreamInv, TrackedInv
<1>8. \A j \in Cursors : cursor'[j].seq = cursor[j].seq
  BY <1>4
<1>9. NoServerGap'
  BY <1>1, <1>8 DEF StreamInv, StreamType, NoServerGap
<1> QED BY <1>5, <1>6, <1>7, <1>9 DEF StreamInv

\* The feed sends a page, and moves its cursor behind it.
LEMMA PublishStep == ASSUME StreamInv, NEW i \in Cursors, FeedPublish(i) PROVE StreamInv'
<1> DEFINE c == cursor[i]
           top == Max(c.page \cup {c.seq})
<1>0. MaxSeq \in Nat /\ stored \in Nat /\ stored <= MaxSeq
  BY StreamAssumption DEF StreamInv, StreamType
<1>1. UNCHANGED <<cur, stored, role, check>> /\ Publish(c.page)
  BY DEF FeedPublish, ledger
<1>2. c \in CursorRow /\ c.page \in SUBSET Seqs /\ c.seq \in 0 .. MaxSeq
  BY DEF StreamInv, StreamType, CursorRow
<1>3. top \in c.page \cup {c.seq} /\ top >= c.seq
  <2>1. c.page \cup {c.seq} \in SUBSET (0 .. MaxSeq)
    BY <1>0, <1>2 DEF Seqs
  <2> HIDE DEF c
  <2> QED BY <1>0, <2>1, MaxOf
<1>4. top \in 0 .. MaxSeq /\ top <= stored /\ c.seq + 1 .. top \subseteq c.page
  <2>1. c.seq <= stored /\ \A q \in c.page : q <= stored /\ c.seq + 1 .. q \subseteq c.page
    BY DEF StreamInv, CursorInv
  <2> HIDE DEF c, top
  <2>2. CASE top = c.seq
    BY <1>2, <2>1, <2>2
  <2>3. CASE top \in c.page
    BY <1>0, <1>2, <2>1, <2>3 DEF Seqs
  <2> QED BY <1>3, <2>2, <2>3
<1>5. cursor'[i] \in CursorRow /\ cursor'[i].seq = top /\ cursor'[i].page = {}
      /\ cursor' \in [Cursors -> CursorRow] /\ \A j \in Cursors \ {i} : cursor'[j] = cursor[j]
  <2> DEFINE moved == [c EXCEPT !.seq = top, !.page = {}]
  <2>1. cursor' = [cursor EXCEPT ![i] = IF Cardinality(c.page) = Limit THEN [moved EXCEPT !.st = "asked"] ELSE Ended(moved)]
    BY DEF FeedPublish
  <2>2. moved \in CursorRow /\ moved.seq = top /\ moved.page = {}
    <3> HIDE DEF top, c
    <3> QED BY <1>2, <1>4 DEF CursorRow
  <2> HIDE DEF moved
  <2>3. StaysPut(moved, [moved EXCEPT !.st = "asked"]) /\ StaysPut(moved, Ended(moved))
    BY <2>2, PullStays DEF StaysPut, CursorRow
  <2>4. cursor' = [cursor EXCEPT ![i] = [moved EXCEPT !.st = "asked"]] \/ cursor' = [cursor EXCEPT ![i] = Ended(moved)]
    BY <2>1
  <2>5. cursor \in [Cursors -> CursorRow]
    BY DEF StreamInv, StreamType
  <2> HIDE DEF c, top
  <2> QED BY <2>2, <2>3, <2>4, <2>5 DEF StaysPut
<1>6. \A b \in Browser : sock[b] \in SocketRow
  BY DEF StreamInv, StreamType
<1>7. \A b \in Browser : sock'[b] = sock[b] \/ sock'[b] = Sent(sock[b], c.page)
  BY <1>1 DEF Publish
<1>8. \A b \in Browser : sock[b].st \in {"send", "live"} => sock'[b] = Sent(sock[b], c.page)
  BY <1>1 DEF Publish, Joined
<1>9. sock' \in [Browser -> SocketRow] /\ \A b \in Browser : sock'[b].st = sock[b].st /\ sock'[b].seq = sock[b].seq
  <2>1. sock' = [b \in Browser |-> IF b \in Joined THEN Sent(sock[b], c.page) ELSE sock[b]]
    BY <1>1 DEF Publish
  <2>2. \A b \in Browser : Sent(sock[b], c.page) \in SocketRow /\ Sent(sock[b], c.page).st = sock[b].st /\ Sent(sock[b], c.page).seq = sock[b].seq
    BY <1>2, <1>6, SentRecorded
  <2> HIDE DEF c
  <2> QED BY <1>6, <2>1, <2>2
<1>10. StreamType'
  BY <1>1, <1>5, <1>9 DEF StreamInv, StreamType
<1>11. CursorInv'
  <2> HIDE DEF top, c
  <2> QED BY <1>1, <1>4, <1>5 DEF StreamInv, CursorInv
<1>12. TrackedInv'
  BY <1>1, <1>9 DEF StreamInv, TrackedInv
<1>13. NoServerGap'
  <2> SUFFICES ASSUME NEW b \in Browser, sock'[b].st \in {"send", "live"}
               PROVE  cur' # 0 /\ sock'[b].top + 1 .. cursor'[cur'].seq \subseteq sock'[b].sent
    BY DEF NoServerGap
  <2>1. sock[b].st \in {"send", "live"} /\ sock'[b] = Sent(sock[b], c.page) /\ sock'[b].st = sock[b].st
    BY <1>8, <1>9
  <2>2. cur # 0 /\ cur' = cur /\ cur \in Cursors /\ sock[b].top + 1 .. cursor[cur].seq \subseteq sock[b].sent
    BY <1>1, <2>1 DEF StreamInv, StreamType, NoServerGap
  <2>3. cursor[cur].seq \in Nat /\ cursor'[cur].seq \in Nat /\ sock[b].top \in Nat
    BY <2>2, <1>0, <1>6, <1>10 DEF StreamInv, StreamType, CursorRow, SocketRow
  <2>4. sock[b].top + 1 .. cursor'[cur].seq \subseteq sock[b].sent \cup c.page
    <3>1. CASE cur # i
      BY <1>5, <2>2, <3>1
    <3>2. CASE cur = i
      <4>1. cursor'[cur].seq = top /\ cursor[cur].seq = c.seq /\ top \in Nat /\ c.seq \in Nat
        BY <1>5, <3>2, <1>2, <1>4, <1>0
      <4> HIDE DEF c, top
      <4> QED BY <1>4, <2>2, <2>3, <4>1
    <3> QED BY <3>1, <3>2
  <2>5. Caught(Sent(sock[b], c.page), cursor'[cur].seq)
    <3> HIDE DEF c
    <3> QED BY <1>2, <1>6, <2>1, <2>3, <2>4, SentRecorded
  <2> QED BY <2>1, <2>2, <2>5 DEF Caught
<1> QED BY <1>10, <1>11, <1>12, <1>13 DEF StreamInv

\* A socket whose handler has gone one step.
LEMMA SocketMoves ==
  ASSUME StreamInv, NEW b \in Browser, NEW k \in SocketRow,
         sock' = [sock EXCEPT ![b] = k], UNCHANGED <<stored, role, cur, cursor>>, check'.role \in Roles,
         k.seq <= stored, k.st \in {"row", "events", "send", "live"} => cur # 0,
         k.st \in {"send", "live"} => k.top + 1 .. cursor[cur].seq \subseteq k.sent
  PROVE  StreamInv'
<1>1. StreamType'
  BY DEF StreamInv, StreamType
<1>2. CursorInv'
  BY DEF StreamInv, CursorInv
<1>3. \A d \in Browser : sock'[d] = IF d = b THEN k ELSE sock[d]
  BY DEF StreamInv, StreamType
<1>4. TrackedInv'
  BY <1>3 DEF StreamInv, TrackedInv
<1>5. NoServerGap'
  BY <1>3 DEF StreamInv, NoServerGap
<1> QED BY <1>1, <1>2, <1>4, <1>5 DEF StreamInv

\* What the invariant says of one socket.
LEMMA SocketOf ==
  ASSUME StreamInv, NEW b \in Browser
  PROVE  /\ sock[b] \in SocketRow /\ sock[b].seq <= stored /\ role \in Roles
         /\ stored \in 0 .. MaxSeq /\ MaxSeq \in Nat
BY StreamAssumption DEF StreamInv, StreamType, TrackedInv

\* The handler of a subscription, but for the step that sets the cursor.
LEMMA HandlerStep ==
  ASSUME StreamInv, NEW b \in Browser,
         Join(b) \/ TrackRead(b) \/ SnapshotRow(b) \/ SnapshotEvents(b) \/ SendSnapshot(b)
  PROVE  StreamInv'
<1>0. /\ UNCHANGED <<stored, role, cur, cursor, check>> /\ check'.role \in Roles
      /\ sock[b] \in SocketRow /\ sock[b].seq <= stored /\ stored \in 0 .. MaxSeq /\ MaxSeq \in Nat
  BY SocketOf DEF Join, TrackRead, SnapshotRow, SnapshotEvents, SendSnapshot, ledger, feed, StreamInv, StreamType
<1>1. CASE Join(b)
  <2> DEFINE k == [sock[b] EXCEPT !.st = IF cur = 0 THEN "track" ELSE "row"]
  <2>1. k \in SocketRow /\ k.seq = sock[b].seq /\ k.st = IF cur = 0 THEN "track" ELSE "row"
    BY <1>0 DEF SocketRow, SocketStates
  <2>2. sock' = [sock EXCEPT ![b] = k]
    BY <1>1 DEF Join
  <2>3. k.seq <= stored /\ k.st \notin {"send", "live"} /\ (k.st \in {"row", "events", "send", "live"} => cur # 0)
    BY <1>0, <2>1
  <2> HIDE DEF k
  <2> QED BY <1>0, <2>1, <2>2, <2>3, SocketMoves
<1>2. CASE TrackRead(b)
  <2> DEFINE k == [sock[b] EXCEPT !.st = "set", !.seq = stored]
  <2>1. k \in SocketRow /\ k.seq = stored /\ k.st = "set"
    BY <1>0 DEF SocketRow, SocketStates
  <2>2. sock' = [sock EXCEPT ![b] = k]
    BY <1>2 DEF TrackRead
  <2>3. k.seq <= stored /\ k.st \notin {"row", "events", "send", "live"}
    BY <1>0, <2>1
  <2> HIDE DEF k
  <2> QED BY <1>0, <2>1, <2>2, <2>3, SocketMoves
<1>3. CASE SnapshotRow(b)
  <2> DEFINE k == [sock[b] EXCEPT !.st = "events", !.over = (ended # "no")]
  <2>1. k \in SocketRow /\ k.seq = sock[b].seq /\ k.st = "events"
    BY <1>0 DEF SocketRow, SocketStates
  <2>2. sock' = [sock EXCEPT ![b] = k] /\ sock[b].st = "row"
    BY <1>3 DEF SnapshotRow
  <2>3. cur # 0
    BY <2>2 DEF StreamInv, TrackedInv
  <2> HIDE DEF k
  <2> QED BY <1>0, <2>1, <2>2, <2>3, SocketMoves
<1>4. CASE SnapshotEvents(b)
  <2> DEFINE found == FirstOf(After(0) \cap Visible(sock[b].grant))
             k == [sock[b] EXCEPT !.st = "send", !.top = stored, !.S = found]
  <2>1. found \in SUBSET Seqs
    BY <1>0 DEF FirstOf, After, Seqs
  <2>2. k \in SocketRow /\ k.seq = sock[b].seq /\ k.st = "send" /\ k.top = stored
    <3> HIDE DEF found
    <3> QED BY <1>0, <2>1 DEF SocketRow, SocketStates
  <2>3. sock' = [sock EXCEPT ![b] = Sent(k, {})] /\ sock[b].st = "events"
    BY <1>4 DEF SnapshotEvents
  <2>4. cur # 0 /\ cur \in Cursors /\ cursor[cur].seq <= stored /\ cursor[cur].seq \in Nat
    BY <1>0, <2>3 DEF StreamInv, TrackedInv, StreamType, CursorInv, CursorRow
  <2> HIDE DEF k
  <2>5. stored + 1 .. cursor[cur].seq \subseteq k.sent \cup {}
    BY <1>0, <2>4
  <2>6. /\ Sent(k, {}) \in SocketRow /\ Sent(k, {}).st = "send" /\ Sent(k, {}).seq = sock[b].seq
        /\ Caught(Sent(k, {}), cursor[cur].seq)
    BY <2>2, <2>4, <2>5, SentRecorded
  <2>7. Sent(k, {}).top + 1 .. cursor[cur].seq \subseteq Sent(k, {}).sent
    BY <2>6 DEF Caught
  <2> QED BY <1>0, <2>3, <2>4, <2>6, <2>7, SocketMoves
<1>5. CASE SendSnapshot(b)
  <2> DEFINE k == [sock[b] EXCEPT !.st = "live", !.S = {}, !.over = FALSE, !.grant = "none"]
  <2>1. k \in SocketRow /\ k.seq = sock[b].seq /\ k.st = "live" /\ k.top = sock[b].top /\ k.sent = sock[b].sent
    BY <1>0 DEF SocketRow, SocketStates, Roles
  <2>2. sock' = [sock EXCEPT ![b] = k] /\ sock[b].st = "send"
    BY <1>5 DEF SendSnapshot
  <2>3. cur # 0 /\ sock[b].top + 1 .. cursor[cur].seq \subseteq sock[b].sent
    BY <2>2 DEF StreamInv, NoServerGap
  <2> HIDE DEF k
  <2> QED BY <1>0, <2>1, <2>2, <2>3, SocketMoves
<1> QED BY <1>1, <1>2, <1>3, <1>4, <1>5

\* A cursor is set where the ledger was read, and no socket waits for events yet.
LEMMA TrackSetStep == ASSUME StreamInv, NEW b \in Browser, TrackSet(b) PROVE StreamInv'
<1> DEFINE k == [sock[b] EXCEPT !.st = "row", !.seq = 0]
<1>0. /\ UNCHANGED <<stored, role, check>> /\ check'.role \in Roles
      /\ sock[b] \in SocketRow /\ sock[b].seq <= stored /\ stored \in 0 .. MaxSeq /\ MaxSeq \in Nat
  BY SocketOf DEF TrackSet, ledger, StreamInv, StreamType
<1>1. k \in SocketRow /\ k.seq = 0 /\ k.st = "row"
  <2>1. 0 \in 0 .. MaxSeq /\ "row" \in SocketStates
    BY <1>0 DEF SocketStates
  <2> QED BY <1>0, <2>1 DEF SocketRow
<1>2. sock' = [sock EXCEPT ![b] = k]
  BY DEF TrackSet
<1> HIDE DEF k
<1>3. CASE cur # 0 /\ UNCHANGED feed
  <2>1. UNCHANGED <<cur, cursor>> /\ k.seq <= stored /\ k.st \notin {"send", "live"}
    BY <1>0, <1>1, <1>3 DEF feed
  <2> QED BY <1>0, <1>1, <1>2, <1>3, <2>1, SocketMoves
<1>4. CASE cur = 0
  <2>1. PICK i \in Cursors : Idle(cursor[i]) /\ cur' = i /\ cursor' = [cursor EXCEPT ![i].seq = sock[b].seq]
    BY <1>4 DEF TrackSet
  <2>2. cursor \in [Cursors -> CursorRow] /\ sock[b].seq \in 0 .. MaxSeq
    BY <1>0 DEF StreamInv, StreamType, SocketRow
  <2>3. PICK c \in CursorRow : c = [cursor[i] EXCEPT !.seq = sock[b].seq]
    BY <2>2 DEF CursorRow
  <2>4. cursor' = [cursor EXCEPT ![i] = c] /\ c.seq = sock[b].seq /\ c.page = cursor[i].page /\ c.st = cursor[i].st
    BY <2>1, <2>2, <2>3 DEF CursorRow
  <2>5. cursor[i].page = {} /\ cursor[i].st = "idle"
    BY <2>1 DEF StreamInv, CursorInv, Idle
  <2>6. StreamType'
    BY <1>0, <1>1, <1>2, <2>1, <2>2, <2>4 DEF StreamInv, StreamType
  <2>7. CursorInv'
    BY <1>0, <2>2, <2>4, <2>5 DEF StreamInv, CursorInv
  <2>8. \A d \in Browser : sock'[d] = IF d = b THEN k ELSE sock[d]
    BY <1>2 DEF StreamInv, StreamType
  <2>9. TrackedInv'
    BY <1>0, <1>1, <2>1, <2>8 DEF StreamInv, TrackedInv, Cursors
  <2>10. NoServerGap'
    BY <1>1, <1>4, <2>8 DEF StreamInv, NoServerGap
  <2> QED BY <2>6, <2>7, <2>9, <2>10 DEF StreamInv
<1> QED BY <1>2, <1>3, <1>4 DEF TrackSet

\* A socket that dies, and one that is opened.
LEMMA SocketEnds ==
  ASSUME StreamInv, NEW b \in Browser, Drop(b) \/ Connect(b)
  PROVE  StreamInv'
<1>0. /\ sock[b] \in SocketRow /\ stored \in 0 .. MaxSeq /\ MaxSeq \in Nat /\ role \in Roles
      /\ check.role \in Roles
  BY SocketOf DEF StreamInv, StreamType
<1>1. CASE Drop(b)
  <2>1. sock' = [sock EXCEPT ![b] = NoSocket] /\ UNCHANGED <<stored, role, cur, cursor>>
    BY <1>1 DEF Drop, ledger, feed
  <2>2. check'.role = check.role
    BY <1>1 DEF Drop
  <2>3. NoSocket.seq <= stored /\ NoSocket.st \notin {"row", "events", "send", "live"}
    BY <1>0, NoSocketTyped
  <2> QED BY <1>0, <2>1, <2>2, <2>3, NoSocketTyped, SocketMoves
<1>2. CASE Connect(b) /\ UNCHANGED sock
  <2>1. UNCHANGED <<stored, role, cur, cursor, check>> /\ stored \in stored .. MaxSeq
    BY <1>0, <1>2 DEF Connect, ledger, feed
  <2> QED BY <1>0, <1>2, <2>1, StreamQuiet
<1>3. CASE Connect(b) /\ sock' = [sock EXCEPT ![b] = [NoSocket EXCEPT !.st = "asked", !.cohort = role, !.grant = role]]
  <2> DEFINE k == [NoSocket EXCEPT !.st = "asked", !.cohort = role, !.grant = role]
  <2>1. k \in SocketRow /\ k.st = "asked" /\ k.seq = 0
    BY <1>0, NoSocketTyped DEF SocketRow, SocketStates
  <2>2. UNCHANGED <<stored, role, cur, cursor, check>> /\ sock' = [sock EXCEPT ![b] = k]
    BY <1>3 DEF Connect, ledger, feed
  <2>3. k.seq <= stored /\ k.st \notin {"row", "events", "send", "live"}
    BY <1>0, <2>1
  <2> HIDE DEF k
  <2> QED BY <1>0, <2>1, <2>2, <2>3, SocketMoves
<1> QED BY <1>1, <1>2, <1>3 DEF Connect

\* A change of role closes sockets or moves them to another room.
LEMMA RolesStep == ASSUME StreamInv, ApplyRoles PROVE StreamInv'
<1>1. UNCHANGED <<stored, role, cur, cursor>> /\ check'.role \in Roles
  BY DEF ApplyRoles, Checked, Unchecked, ledger, feed, Roles
<1>2. PICK moved \in SUBSET Browser :
        \/ sock' = [b \in Browser |-> IF b \in moved THEN NoSocket ELSE sock[b]]
        \/ sock' = [b \in Browser |-> IF b \in moved THEN [sock[b] EXCEPT !.cohort = check.role] ELSE sock[b]]
  <2> DEFINE moved == {b \in Browser : b \in Joined /\ <<b, sock[b].cohort>> \in check.of /\ sock[b].cohort # check.role}
  <2>1. \/ sock' = [b \in Browser |-> IF b \in moved THEN NoSocket ELSE sock[b]]
        \/ sock' = [b \in Browser |-> IF b \in moved THEN [sock[b] EXCEPT !.cohort = check.role] ELSE sock[b]]
    BY DEF ApplyRoles
  <2>2. moved \in SUBSET Browser
    OBVIOUS
  <2> HIDE DEF moved
  <2> QED BY <2>1, <2>2
<1>3. sock \in [Browser -> SocketRow] /\ check.role \in Roles
  BY DEF StreamInv, StreamType
<1>4. ASSUME NEW b \in Browser
      PROVE  /\ sock'[b] \in SocketRow
             /\ \/ sock'[b] = NoSocket
                \/ /\ sock'[b].st = sock[b].st /\ sock'[b].seq = sock[b].seq
                   /\ sock'[b].top = sock[b].top /\ sock'[b].sent = sock[b].sent
  <2>1. sock'[b] \in {NoSocket, sock[b], [sock[b] EXCEPT !.cohort = check.role]}
    BY <1>2
  <2> QED BY <1>3, <2>1, NoSocketTyped DEF SocketRow
<1>5. sock' = [b \in Browser |-> sock'[b]]
  BY <1>2
<1>6. StreamType'
  BY <1>1, <1>4, <1>5 DEF StreamInv, StreamType
<1>7. CursorInv'
  BY <1>1 DEF StreamInv, CursorInv
<1>8. TrackedInv'
  BY <1>1, <1>4, NoSocketTyped, StreamAssumption DEF StreamInv, StreamType, TrackedInv
<1>9. NoServerGap'
  BY <1>1, <1>4, NoSocketTyped DEF StreamInv, NoServerGap
<1> QED BY <1>6, <1>7, <1>8, <1>9 DEF StreamInv

\* Whatever the run, the server, a handler, the network or a page does next.
LEMMA StreamStep == ASSUME StreamInv, [StreamNext]_streamVars PROVE StreamInv'
<1>0. stored \in stored .. MaxSeq /\ role \in Roles /\ check.role \in Roles /\ MaxSeq \in Nat /\ stored \in 0 .. MaxSeq
  BY StreamAssumption DEF StreamInv, StreamType
<1>1. CASE Store
  <2>1. UNCHANGED <<cur, cursor, sock, role, check>> /\ stored' \in stored .. MaxSeq
    BY <1>0, <1>1 DEF Store, feed
  <2> QED BY <1>0, <2>1, StreamQuiet
<1>2. CASE SettleSilently \/ LoseLink \/ PushStatus \/ UNCHANGED streamVars
  <2>1. UNCHANGED <<cur, cursor, sock, stored, role, check>>
    BY <1>2 DEF SettleSilently, LoseLink, PushStatus, streamVars, feed, ledger
  <2> QED BY <1>0, <2>1, StreamQuiet
<1>3. CASE ChangeRole
  <2>1. UNCHANGED <<cur, cursor, sock, stored, check>> /\ role' \in Roles
    BY <1>3 DEF ChangeRole, feed, ledger
  <2> QED BY <1>0, <2>1, StreamQuiet
<1>4. CASE CheckRoles
  <2>1. UNCHANGED <<cur, cursor, sock, stored, role>> /\ check'.role = role
    BY <1>4 DEF CheckRoles, feed, ledger
  <2> QED BY <1>0, <2>1, StreamQuiet
<1>5. CASE \E b \in Browser : Receive(b) \/ RestRead(b) \/ RestReceive(b) \/ RestFails(b)
  <2>1. UNCHANGED <<cur, cursor, sock, stored, role, check>>
    BY <1>5 DEF Receive, RestRead, RestReceive, RestFails, feed, ledger
  <2> QED BY <1>0, <2>1, StreamQuiet
<1>6. CASE DeliverNotify \/ Reconnect
  BY <1>6, NotifyStep
<1>7. CASE ApplyRoles
  BY <1>7, RolesStep
<1>8. CASE \E i \in Cursors : FeedRead(i) \/ FeedPublish(i) \/ FeedRetries(i) \/ FeedFails(i)
  BY <1>8, ReadStep, PublishStep, RetryStep
<1>9. CASE \E b \in Browser : Handler(b)
  BY <1>9, HandlerStep, TrackSetStep DEF Handler
<1>10. CASE \E b \in Browser : Connect(b) \/ Drop(b)
  BY <1>10, SocketEnds
<1> QED BY <1>1, <1>2, <1>3, <1>4, <1>5, <1>6, <1>7, <1>8, <1>9, <1>10 DEF StreamNext, Work, Feed, Page

\* The invariant of the stream holds at every step.
THEOREM StreamInductive == StreamSpec => []StreamInv
<1>1. StreamInit => StreamInv
  <2> SUFFICES ASSUME StreamInit PROVE StreamInv
    OBVIOUS
  <2>1. StreamType
    BY NoSocketTyped, StreamAssumption DEF StreamInit, StreamType, CursorRow, Roles, Cursors, Unchecked
  <2>2. CursorInv
    BY StreamAssumption DEF StreamInit, CursorInv
  <2>3. TrackedInv /\ NoServerGap
    BY NoSocketTyped, StreamAssumption DEF StreamInit, TrackedInv, NoServerGap
  <2> QED BY <2>1, <2>2, <2>3 DEF StreamInv
<1>2. StreamInv /\ [StreamNext]_streamVars => StreamInv'
  BY StreamStep
<1> QED BY <1>1, <1>2, PTL DEF StreamSpec

\* Between the snapshot of a socket and what is published to it nothing is missing,
\* whatever is lost, fails, is forgotten or read late (RunStream's NoServerGap).
THEOREM NothingIsMissing == StreamSpec => []NoServerGap
<1>1. StreamInv => NoServerGap
  BY DEF StreamInv
<1> QED BY <1>1, StreamInductive, PTL

-----------------------------------------------------------------------------
(***************************************************************************)
(* RunView: both folds are recursive functions, and a batch and a frame     *)
(* are finite, so that what holds before and stays when one event more is  *)
(* taken in holds after all of them.                                       *)
(***************************************************************************)

\* Of a family of sets below a finite one, one holds no other.
LEMMA SmallestSet ==
  ASSUME NEW S, IsFiniteSet(S), NEW F \in SUBSET (SUBSET S), F # {}
  PROVE  \E X \in F : \A Y \in F : Y \subseteq X => Y = X
<1>1. F \subseteq FiniteSubsetsOf(S)
  BY FS_Subset DEF FiniteSubsetsOf
<1>2. \E X \in F : \A Y \in F : ~ (<<Y, X>> \in StrictSubsetOrdering(S))
  BY <1>1, FS_StrictSubsetOrderingWellFounded, WFMin
<1> QED BY <1>2 DEF StrictSubsetOrdering

\* One turn of the fold of a batch (agent) or of a frame (page).
Turn(who, acc, x) == IF who = "agent" THEN Project(acc, x) ELSE Apply(acc, x)
Upto(n) == 1 .. n
Last1(s) == Max(s)
Front1(s) == s \ {Last1(s)}

\* g folds every part of the sequence that S names.
Folds(who, base, seq, S, g) ==
  g = [s \in SUBSET S |-> IF s = {} THEN base ELSE Turn(who, g[Front1(s)], seq[Last1(s)])]

\* The last is taken from a set that has one.
LEMMA LastAndFront ==
  ASSUME NEW n \in Nat, NEW S \in SUBSET Upto(n), NEW s \in SUBSET S, s # {}
  PROVE  Last1(s) \in s /\ Front1(s) \in SUBSET S /\ Front1(s) \subseteq s /\ Front1(s) # s
<1>1. s \in SUBSET (0 .. n)
  BY DEF Upto
<1>2. Last1(s) \in s
  BY <1>1, MaxOf DEF Last1
<1> QED BY <1>2 DEF Front1

\* Part of the indices of a sequence.
LEMMA PartsAreFinite == ASSUME NEW n \in Nat, NEW S \in SUBSET Upto(n) PROVE IsFiniteSet(S)
<1>1. IsFiniteSet(Upto(n))
  BY FS_Interval DEF Upto
<1> QED BY <1>1, FS_Subset

\* What such a function is at a set.
LEMMA FoldsAt ==
  ASSUME NEW who, NEW base, NEW seq, NEW S, NEW g, Folds(who, base, seq, S, g)
  PROVE  /\ g[{}] = base
         /\ \A s \in SUBSET S : s # {} => g[s] = Turn(who, g[Front1(s)], seq[Last1(s)])
  BY DEF Folds

\* Two such functions agree where both are defined.
LEMMA FoldsAgree ==
  ASSUME NEW who, NEW base, NEW seq, NEW n \in Nat, NEW T \in SUBSET Upto(n), NEW S \in SUBSET T,
         NEW g, NEW h, Folds(who, base, seq, S, g), Folds(who, base, seq, T, h)
  PROVE  \A s \in SUBSET S : g[s] = h[s]
<1> DEFINE F == {s \in SUBSET S : g[s] # h[s]}
<1>1. SUFFICES ASSUME F # {} PROVE FALSE
  OBVIOUS
<1>2. PICK X \in F : \A Y \in F : Y \subseteq X => Y = X
  <2>1. IsFiniteSet(S)
    <3> S \in SUBSET Upto(n)
      OBVIOUS
    <3> QED BY PartsAreFinite
  <2>2. F \in SUBSET (SUBSET S)
    OBVIOUS
  <2> HIDE DEF F
  <2> QED BY <1>1, <2>1, <2>2, SmallestSet
<1>3. CASE X = {}
  BY <1>2, <1>3, FoldsAt
<1>4. CASE X # {}
  <2>1. X \in SUBSET S /\ X \in SUBSET T /\ g[X] # h[X]
    BY <1>2
  <2>2. Front1(X) \in SUBSET S /\ Front1(X) \subseteq X /\ Front1(X) # X
    BY <1>4, <2>1, LastAndFront
  <2>3. g[Front1(X)] = h[Front1(X)]
    BY <1>2, <2>2
  <2>4. g[X] = Turn(who, g[Front1(X)], seq[Last1(X)])
    BY <1>4, <2>1, FoldsAt
  <2>5. h[X] = Turn(who, h[Front1(X)], seq[Last1(X)])
    BY <1>4, <2>1, FoldsAt
  <2> QED BY <2>1, <2>3, <2>4, <2>5
<1> QED BY <1>3, <1>4

\* There is such a function.
LEMMA FoldsExist ==
  ASSUME NEW who, NEW base, NEW seq, NEW n \in Nat, NEW S \in SUBSET Upto(n)
  PROVE  \E g : Folds(who, base, seq, S, g)
<1> DEFINE F == {s \in SUBSET S : ~ \E g : Folds(who, base, seq, s, g)}
           fold(s) == CHOOSE g : Folds(who, base, seq, s, g)
<1>1. SUFFICES ASSUME F # {} PROVE FALSE
  OBVIOUS
<1>2. PICK X \in F : \A Y \in F : Y \subseteq X => Y = X
  <2>1. IsFiniteSet(S)
    BY PartsAreFinite
  <2>2. F \in SUBSET (SUBSET S)
    OBVIOUS
  <2> HIDE DEF F
  <2> QED BY <1>1, <2>1, <2>2, SmallestSet
<1>3. X \in SUBSET S /\ X \in SUBSET Upto(n) /\ ~ \E g : Folds(who, base, seq, X, g)
  BY <1>2
<1>4. \A s \in SUBSET X : s # X => Folds(who, base, seq, s, fold(s))
  BY <1>2, <1>3
<1> DEFINE h == [s \in SUBSET X |-> IF s = {} THEN base
                                    ELSE Turn(who, fold(Front1(s))[Front1(s)], seq[Last1(s)])]
<1> HIDE DEF fold
<1>5. ASSUME NEW s \in SUBSET X, s # {} PROVE h[Front1(s)] = fold(Front1(s))[Front1(s)]
  <2> DEFINE r == Front1(s)
  <2>1. r \in SUBSET X /\ r # X /\ r \in SUBSET Upto(n)
    BY <1>3, <1>5, LastAndFront
  <2>2. Folds(who, base, seq, r, fold(r))
    BY <1>4, <2>1
  <2>3. CASE r = {}
    BY <2>1, <2>2, <2>3, FoldsAt
  <2>4. CASE r # {}
    <3>1. Front1(r) \in SUBSET r /\ Front1(r) \in SUBSET X /\ Front1(r) # X
      BY <1>3, <2>1, <2>4, LastAndFront
    <3>2. fold(Front1(r))[Front1(r)] = fold(r)[Front1(r)]
      <4>1. Folds(who, base, seq, Front1(r), fold(Front1(r)))
        BY <1>4, <3>1
      <4>2. r \in SUBSET Upto(n) /\ Front1(r) \in SUBSET r
        BY <2>1, <3>1
      <4> HIDE DEF r
      <4> DEFINE before == Front1(r)
                 f == fold(before)
                 g == fold(r)
      <4>3. Folds(who, base, seq, before, f) /\ Folds(who, base, seq, r, g) /\ before \in SUBSET r
        BY <2>2, <4>1, <4>2
      <4>4. before \in SUBSET before
        OBVIOUS
      <4> HIDE DEF before, f, g
      <4>5. \A s1 \in SUBSET before : f[s1] = g[s1]
        BY <4>2, <4>3, FoldsAgree
      <4>6. f[before] = g[before]
        BY <4>4, <4>5
      <4> QED BY <4>6 DEF f, g, before
    <3>3. fold(r)[r] = Turn(who, fold(r)[Front1(r)], seq[Last1(r)])
      BY <2>2, <2>4, FoldsAt
    <3> QED BY <2>1, <2>4, <3>2, <3>3
  <2> QED BY <2>3, <2>4
<1>6. Folds(who, base, seq, X, h)
  BY <1>5 DEF Folds
<1> QED BY <1>3, <1>6

\* What the fold of the community modules is, of a batch.
LEMMA BatchFolds ==
  ASSUME NEW base, NEW seq, NEW n \in Nat, DOMAIN seq = Upto(n)
  PROVE  \E g : Folds("agent", base, seq, Upto(n), g) /\ FoldLeft(Project, base, seq) = g[Upto(n)]
<1>1. PICK h : Folds("agent", base, seq, Upto(n), h)
  BY FoldsExist
<1> QED BY <1>1 DEF FoldLeft, MapThenFoldSet, Folds, Turn, Last1, Front1

\* What it is of a frame.
LEMMA FrameFolds ==
  ASSUME NEW base, NEW seq, NEW n \in Nat, DOMAIN seq = Upto(n)
  PROVE  \E g : Folds("page", base, seq, Upto(n), g) /\ FoldLeft(Apply, base, seq) = g[Upto(n)]
<1>1. PICK h : Folds("page", base, seq, Upto(n), h)
  BY FoldsExist
<1> QED BY <1>1 DEF FoldLeft, MapThenFoldSet, Folds, Turn, Last1, Front1

\* The fold of the first k of a sequence, for every k.
LEMMA FoldSteps ==
  ASSUME NEW who, NEW base, NEW seq, NEW n \in Nat, NEW g, Folds(who, base, seq, Upto(n), g)
  PROVE  /\ g[Upto(0)] = base
         /\ \A k \in 1 .. n : g[Upto(k)] = Turn(who, g[Upto(k - 1)], seq[k])
<1>1. Upto(0) = {}
  BY DEF Upto
<1>2. ASSUME NEW k \in 1 .. n
      PROVE  Upto(k) \in SUBSET Upto(n) /\ Upto(k) # {} /\ Last1(Upto(k)) = k /\ Front1(Upto(k)) = Upto(k - 1)
  <2>1. Upto(k) \in SUBSET (0 .. k) /\ Upto(k) # {} /\ k \in Upto(k) /\ Upto(k) \in SUBSET Upto(n)
    BY DEF Upto
  <2>2. Last1(Upto(k)) \in Upto(k) /\ Last1(Upto(k)) >= k
    <3> k \in Nat
      OBVIOUS
    <3> HIDE DEF Upto
    <3> QED BY <2>1, MaxOf DEF Last1
  <2>3. Last1(Upto(k)) = k
    BY <2>2 DEF Upto
  <2> QED BY <2>1, <2>3 DEF Front1, Upto
<1>3. g[Upto(0)] = base
  BY <1>1, FoldsAt
<1>4. ASSUME NEW k \in 1 .. n PROVE g[Upto(k)] = Turn(who, g[Upto(k - 1)], seq[k])
  <2>1. g[Upto(k)] = Turn(who, g[Front1(Upto(k))], seq[Last1(Upto(k))])
    BY <1>2, FoldsAt
  <2> QED BY <1>2, <2>1
<1> QED BY <1>3, <1>4

\* A set with 0, and with the successor of every member below d, has d.
LEMMA Reaches ==
  ASSUME NEW d \in Nat, NEW A, 0 \in A, \A k \in Nat : k < d /\ k \in A => k + 1 \in A
  PROVE  d \in A
<1> DEFINE S == {x \in 0 .. d : d - x \notin A}
<1>1. SUFFICES ASSUME d \notin A PROVE FALSE
  OBVIOUS
<1>2. S \in SUBSET (0 .. d) /\ 0 \in S
  BY <1>1
<1>3. Max(S) \in S /\ \A x \in S : Max(S) >= x
  <2> HIDE DEF S
  <2> QED BY <1>2, MaxOf
<1> DEFINE m == Max(S)
<1>4. m \in 0 .. d /\ d - m \notin A /\ \A x \in S : m >= x
  BY <1>3
<1> HIDE DEF m
<1>5. d - m # 0
  BY <1>4
<1>6. m + 1 \in 0 .. d /\ m + 1 \notin S
  <2> HIDE DEF S
  <2> QED BY <1>4, <1>5
<1>7. d - (m + 1) \in A /\ d - (m + 1) \in Nat /\ d - (m + 1) < d /\ (d - (m + 1)) + 1 = d - m
  BY <1>4, <1>6
<1> QED BY <1>4, <1>7

RunStatus == {"queued", "running", "cancelling"} \cup Terminal
StepStatus == {"pending", "running", "ok", "failed"}
TableStatus == {"absent", "pending", "running"} \cup TableOver

EventTypes == {"run_started", "run_finished", "step_started", "step_finished", "plan_ready",
               "table_progress", "table_finished", "overall_progress"}
Events == [type : EventTypes, on : Copied \cup {"run", "step"},
           status : RunStatus \cup StepStatus \cup TableStatus \cup {"none"}]

\* What an event has to be to stand at i.
Fits(stage, told, i, e) ==
  /\ e.type = "run_started" <=> i = 1
  /\ e.type = "step_started" <=> i = 2
  /\ e.type = "plan_ready" => i = 3
  /\ e.type \in {"run_started", "step_started", "table_progress"} => e.status = "running"
  /\ e.type = "run_finished" => e.status \in Terminal
  /\ e.type = "step_finished" => e.status \in {"ok", "failed"}
  /\ e.type \in {"run_finished", "step_finished"} => stage \in {"ending", "over"}
  /\ e.type \in {"table_progress", "table_finished"} => i > 3 /\ e.on \in Copied
  /\ e.type = "table_finished" => e.status \in TableOver /\ e.on \in told

\* Nothing ends twice.
SameEnd(e, f) ==
  /\ e.type = f.type
  /\ e.type \in {"run_finished", "step_finished"} \/ (e.type = "table_finished" /\ e.on = f.on)
Once(seq) == \A i, j \in 1 .. Len(seq) : SameEnd(seq[i], seq[j]) => i = j

\* The events of a run come in this order: it starts, a step starts, the plan is made, tables
\* go on and end, and the step and the run end; samples may come after that.
JournalInv ==
  /\ journal \in Seq(Events) /\ Once(journal)
  /\ \A i \in 1 .. Len(journal) : Fits(engine, tablesTold, i, journal[i])
  /\ engine \in {"new", "planning", "copying", "ending", "over"}
  /\ engine = "new" => Len(journal) = 0
  /\ engine # "new" => Len(journal) >= 2
  /\ engine = "planning" => Len(journal) = 2
  /\ engine = "copying" \/ held # {} => Len(journal) >= 3
  /\ held \in SUBSET (Copied \cup {"run"}) /\ tablesTold \in SUBSET Copied
  /\ held # {} => engine \in {"copying", "ending"}

-----------------------------------------------------------------------------
(* What a set of events tells, in whatever order they were taken in.       *)

Is(J, i, type, on) == J[i].type = type /\ J[i].on = on

TableTells(J, E, t, s, nothing) ==
  IF \E i \in E : Is(J, i, "table_finished", t) THEN \E i \in E : Is(J, i, "table_finished", t) /\ s = J[i].status
  ELSE IF \E i \in E : Is(J, i, "table_progress", t) THEN s = "running"
  ELSE IF \E i \in E : J[i].type = "plan_ready" THEN s = "pending" ELSE s = nothing

EndsTell(J, E, first, last, s, nothing) ==
  IF \E i \in E : J[i].type = last THEN \E i \in E : J[i].type = last /\ s = J[i].status
  ELSE IF \E i \in E : J[i].type = first THEN s = "running" ELSE s = nothing

StepTells(J, E, s, nothing) == EndsTell(J, E, "step_started", "step_finished", s, nothing)
RunTells(J, E, s, nothing) == EndsTell(J, E, "run_started", "run_finished", s, nothing)

Patches == [status : RunStatus \cup {"none"}, step : StepStatus \cup {"none"},
            tables : [Copied -> TableStatus \cup {"none"}]]
Views == [seq : Nat, status : RunStatus, step : StepStatus, tables : [Copied -> TableStatus]]

\* A patch made of the events after m and up to k.
PatchTells(p, m, k) ==
  /\ p \in Patches
  /\ RunTells(journal, m + 1 .. k, p.status, "none") /\ StepTells(journal, m + 1 .. k, p.step, "none")
  /\ \A t \in Copied : TableTells(journal, m + 1 .. k, t, p.tables[t], "none")

\* The status of a page that has the events up to k: theirs, or one that was read of the row.
StatusTells(J, upto, quiet, k, s) ==
  \/ quiet \/ k = 0 \/ RunTells(J, 1 .. k, s, "queued")
  \/ s = "cancelling" /\ RunTells(J, 1 .. k, "running", "queued")
  \/ s \in Terminal /\ RunTells(J, 1 .. upto, s, "queued")

\* A page made of rows with the events up to n, of a step told then, and of the events up to
\* its own seq.
PageTells(J, upto, quiet, v, n, step0) ==
  /\ v \in Views /\ v.seq \in 0 .. Len(J)
  /\ \A t \in Copied : TableTells(J, (1 .. n) \cup (1 .. v.seq), t, v.tables[t], "absent")
  /\ IF v.seq >= 2 THEN StepTells(J, 1 .. v.seq, v.step, "pending") ELSE v.step = step0
  /\ StatusTells(J, upto, quiet, v.seq, v.status)

RowInv ==
  /\ row \in Views /\ row.seq \in 0 .. Len(journal)
  /\ StepTells(journal, 1 .. row.seq, row.step, "pending")
  /\ \A t \in Copied : TableTells(journal, 1 .. row.seq, t, row.tables[t], "absent")
  /\ \/ silent \/ RunTells(journal, 1 .. row.seq, row.status, "queued")
     \/ row.status = "cancelling" /\ RunTells(journal, 1 .. row.seq, "running", "queued")

Openings == [status : RunStatus, read : SUBSET {"steps", "tables", "events"}, step : StepStatus \cup {"none"},
             tables : [Copied -> TableStatus] \cup {<<>>}, last : Nat]

\* What a snapshot has read was true of the run at some time.
StepRead(J, upto, o) == o.step \in StepStatus /\ \E n \in 1 .. upto : StepTells(J, 1 .. n, o.step, "pending")
TablesRead(J, upto, o) ==
  /\ o.tables \in [Copied -> TableStatus]
  /\ \E n \in 1 .. upto : \A t \in Copied : TableTells(J, 1 .. n, t, o.tables[t], "absent")

OpeningInv ==
  opening = <<>> \/ \E o \in Openings :
    /\ opening = <<o>> /\ row.seq > 0
    /\ o.status = "cancelling" => silent \/ row.status \notin {"queued", "running"}
    /\ "steps" \in o.read => StepRead(journal, row.seq, o)
    /\ "tables" \in o.read => TablesRead(journal, row.seq, o)
    /\ "events" \in o.read => o.last \in 1 .. row.seq

PageInv ==
  view = <<>> \/ \E v \in Views : \E n \in 0 .. row.seq : \E step0 \in StepStatus :
    /\ view = <<v>> /\ PageTells(journal, row.seq, silent, v, n, step0) /\ v.seq \in 1 .. row.seq
    /\ StepTells(journal, 1 .. v.seq, step0, "pending") \/ 1 < row.seq
    /\ v.status = "cancelling" => silent \/ row.status \notin {"queued", "running"}

ViewInv == silent \in BOOLEAN /\ JournalInv /\ RowInv /\ OpeningInv /\ PageInv

-----------------------------------------------------------------------------
(* What is told.                                                           *)

\* An event of the journal is an event, and fits where it stands.
LEMMA EventAt ==
  ASSUME JournalInv, NEW i \in 1 .. Len(journal)
  PROVE  journal[i] \in Events /\ Fits(engine, tablesTold, i, journal[i]) /\ journal[i].type \in EventTypes
<1>1. journal[i] \in Events /\ Fits(engine, tablesTold, i, journal[i])
  <2> HIDE DEF Events, Fits
  <2> QED BY DEF JournalInv
<1>2. \A e \in Events : e.type \in EventTypes
  BY Zenon DEF Events
<1> QED BY <1>1, <1>2

\* A table's end is told once.
LEMMA OneEnd ==
  ASSUME JournalInv, NEW i \in 1 .. Len(journal), NEW j \in 1 .. Len(journal), NEW t,
         Is(journal, i, "table_finished", t), Is(journal, j, "table_finished", t)
  PROVE  i = j
  BY DEF JournalInv, Once, SameEnd, Is

\* So is that of the step and of the run.
LEMMA OneOutcome ==
  ASSUME JournalInv, NEW i \in 1 .. Len(journal), NEW j \in 1 .. Len(journal),
         journal[i].type = journal[j].type, journal[i].type \in {"run_finished", "step_finished"}
  PROVE  i = j
  BY DEF JournalInv, Once, SameEnd

\* The same events tell one thing of a table.
LEMMA TableToldAlike ==
  ASSUME JournalInv, NEW E \in SUBSET (1 .. Len(journal)), NEW t, NEW s, NEW r, NEW nothing,
         TableTells(journal, E, t, s, nothing), TableTells(journal, E, t, r, nothing)
  PROVE  s = r
<1>1. \A i, j \in E : Is(journal, i, "table_finished", t) /\ Is(journal, j, "table_finished", t) => i = j
  BY OneEnd
<1>2. CASE \E i \in E : Is(journal, i, "table_finished", t)
  <2>1. PICK i \in E : Is(journal, i, "table_finished", t) /\ s = journal[i].status
    BY <1>2, Zenon DEF TableTells
  <2>2. PICK j \in E : Is(journal, j, "table_finished", t) /\ r = journal[j].status
    BY <1>2, Zenon DEF TableTells
  <2> QED BY <1>1, <2>1, <2>2
<1>3. CASE \A i \in E : ~ Is(journal, i, "table_finished", t)
  <2> DEFINE only == IF \E i \in E : Is(journal, i, "table_progress", t) THEN "running"
                     ELSE IF \E i \in E : journal[i].type = "plan_ready" THEN "pending" ELSE nothing
  <2>1. s = only
    BY <1>3, Zenon DEF TableTells
  <2>2. r = only
    BY <1>3, Zenon DEF TableTells
  <2> QED BY <2>1, <2>2
<1> QED BY <1>2, <1>3

\* And of the step or the run.
LEMMA EndToldAlike ==
  ASSUME JournalInv, NEW E \in SUBSET (1 .. Len(journal)), NEW first, NEW s, NEW r, NEW nothing,
         NEW last \in {"run_finished", "step_finished"},
         EndsTell(journal, E, first, last, s, nothing), EndsTell(journal, E, first, last, r, nothing)
  PROVE  s = r
<1>1. \A i, j \in E : journal[i].type = last /\ journal[j].type = last => i = j
  BY OneOutcome
<1>2. CASE \E i \in E : journal[i].type = last
  <2>1. PICK i \in E : journal[i].type = last /\ s = journal[i].status
    BY <1>2, Zenon DEF EndsTell
  <2>2. PICK j \in E : journal[j].type = last /\ r = journal[j].status
    BY <1>2, Zenon DEF EndsTell
  <2> QED BY <1>1, <2>1, <2>2
<1>3. CASE \A i \in E : journal[i].type # last
  <2> DEFINE only == IF \E i \in E : journal[i].type = first THEN "running" ELSE nothing
  <2>1. s = only
    BY <1>3, Zenon DEF EndsTell
  <2>2. r = only
    BY <1>3, Zenon DEF EndsTell
  <2> QED BY <2>1, <2>2
<1> QED BY <1>2, <1>3

\* One more event, and what a table has then.
LEMMA TableTakes ==
  ASSUME JournalInv, NEW E \in SUBSET (1 .. Len(journal)), NEW i \in 1 .. Len(journal), NEW t \in Copied,
         NEW nothing \in {"absent", "none"}, NEW s, TableTells(journal, E, t, s, nothing)
  PROVE  /\ Is(journal, i, "table_finished", t) => TableTells(journal, E \cup {i}, t, journal[i].status, nothing)
         /\ Is(journal, i, "table_progress", t) =>
              TableTells(journal, E \cup {i}, t, IF s \in TableOver THEN s ELSE "running", nothing)
         /\ journal[i].type = "plan_ready" =>
              TableTells(journal, E \cup {i}, t, IF s = nothing THEN "pending" ELSE s, nothing)
         /\ ~ Is(journal, i, "table_finished", t) /\ ~ Is(journal, i, "table_progress", t) /\ journal[i].type # "plan_ready" =>
              TableTells(journal, E \cup {i}, t, s, nothing)
<1>1. \A j \in E : Is(journal, j, "table_finished", t) => journal[j].status \in TableOver
  BY EventAt DEF Fits, Is
<1>2. \A j \in E : Is(journal, j, "table_finished", t) \/ Is(journal, j, "table_progress", t) => journal[j].type # "plan_ready"
  BY DEF Is
<1>3. Is(journal, i, "table_finished", t) => TableTells(journal, E \cup {i}, t, journal[i].status, nothing)
  BY OneEnd DEF TableTells
<1>4. Is(journal, i, "table_progress", t) =>
        TableTells(journal, E \cup {i}, t, IF s \in TableOver THEN s ELSE "running", nothing)
  BY <1>1, <1>2 DEF TableTells, Is, TableOver
<1>5. journal[i].type = "plan_ready" =>
        TableTells(journal, E \cup {i}, t, IF s = nothing THEN "pending" ELSE s, nothing)
  BY <1>1, <1>2 DEF TableTells, Is, TableOver
<1>6. ~ Is(journal, i, "table_finished", t) /\ ~ Is(journal, i, "table_progress", t) /\ journal[i].type # "plan_ready" =>
        TableTells(journal, E \cup {i}, t, s, nothing)
  BY DEF TableTells
<1> QED BY <1>3, <1>4, <1>5, <1>6

\* And what the step or the run has.
LEMMA EndTakes ==
  ASSUME JournalInv, NEW E \in SUBSET (1 .. Len(journal)), NEW i \in 1 .. Len(journal),
         NEW first, NEW last \in {"run_finished", "step_finished"}, first # last,
         NEW nothing, NEW s, EndsTell(journal, E, first, last, s, nothing)
  PROVE  /\ journal[i].type = last => EndsTell(journal, E \cup {i}, first, last, journal[i].status, nothing)
         /\ journal[i].type = first /\ (\A j \in E : journal[j].type # last) =>
              EndsTell(journal, E \cup {i}, first, last, "running", nothing)
         /\ journal[i].type \notin {first, last} => EndsTell(journal, E \cup {i}, first, last, s, nothing)
  BY DEF EndsTell

\* What an event may be, by its type.
LEMMA EventIs ==
  ASSUME JournalInv, NEW i \in 1 .. Len(journal)
  PROVE  LET e == journal[i]
         IN  /\ e.type \in {"run_started", "run_finished"} => e.status \in RunStatus
             /\ e.type \in {"step_started", "step_finished"} => e.status \in StepStatus
             /\ e.type \in {"table_progress", "table_finished"} =>
                  e.on \in Copied /\ e.status \in TableStatus /\ i > 3
             /\ e.type = "table_finished" => e.status \in TableOver
             /\ e.type \in {"run_started", "step_started", "table_progress"} => e.status = "running"
             /\ e.type = "run_finished" => e.status \in Terminal
             /\ e.type = "plan_ready" => i = 3
             /\ (e.type = "run_started" <=> i = 1) /\ (e.type = "step_started" <=> i = 2)
<1> DEFINE e == journal[i]
<1>1. Fits(engine, tablesTold, i, e)
  BY EventAt
<1> HIDE DEF e
<1> USE <1>1 DEF Fits, RunStatus, StepStatus, TableStatus, TableOver, Terminal
<1>2. e.type \in {"run_started", "run_finished"} => e.status \in RunStatus
  OBVIOUS
<1>3. e.type \in {"step_started", "step_finished"} => e.status \in StepStatus
  OBVIOUS
<1>4. e.type \in {"table_progress", "table_finished"} => e.on \in Copied /\ e.status \in TableStatus /\ i > 3
  OBVIOUS
<1>5. e.type = "table_finished" => e.status \in TableOver
  OBVIOUS
<1>6. e.type \in {"run_started", "step_started", "table_progress"} => e.status = "running"
  OBVIOUS
<1> QED BY <1>2, <1>3, <1>4, <1>5, <1>6 DEF e

\* One event more in a patch, by its type.
LEMMA Projected ==
  ASSUME NEW p, NEW e
  PROVE  /\ e.type \in {"run_started", "run_finished"} => Project(p, e) = [p EXCEPT !.status = e.status]
         /\ e.type \in {"step_started", "step_finished"} => Project(p, e) = [p EXCEPT !.step = e.status]
         /\ e.type \in {"table_progress", "table_finished"} =>
              Project(p, e) = [p EXCEPT !.tables[e.on] = UpsertTable(@, e.status)]
         /\ e.type = "plan_ready" =>
              Project(p, e) = [p EXCEPT !.tables = [t \in Copied |-> UpsertTable(p.tables[t], "pending")]]
         /\ e.type = "overall_progress" => Project(p, e) = p
  BY Zenon DEF Project

\* A patch is a record, and stays one.
LEMMA PatchFields ==
  ASSUME NEW p \in Patches
  PROVE  /\ p.status \in RunStatus \cup {"none"} /\ p.step \in StepStatus \cup {"none"}
         /\ p.tables \in [Copied -> TableStatus \cup {"none"}]
         /\ \A x \in RunStatus : [p EXCEPT !.status = x] \in Patches
              /\ [p EXCEPT !.status = x].status = x /\ [p EXCEPT !.status = x].step = p.step
              /\ [p EXCEPT !.status = x].tables = p.tables
         /\ \A x \in StepStatus : [p EXCEPT !.step = x] \in Patches
              /\ [p EXCEPT !.step = x].step = x /\ [p EXCEPT !.step = x].status = p.status
              /\ [p EXCEPT !.step = x].tables = p.tables
         /\ \A f \in [Copied -> TableStatus \cup {"none"}] : [p EXCEPT !.tables = f] \in Patches
              /\ [p EXCEPT !.tables = f].tables = f /\ [p EXCEPT !.tables = f].status = p.status
              /\ [p EXCEPT !.tables = f].step = p.step
<1> HIDE DEF RunStatus, StepStatus, TableStatus
<1> QED BY DEF Patches

\* What stands is not undone, whatever comes.
LEMMA UpsertTyped ==
  ASSUME NEW old \in TableStatus \cup {"none"}, NEW new \in TableStatus
  PROVE  UpsertTable(old, new) \in TableStatus
  BY DEF UpsertTable, TableOver, TableStatus

\* One event more.
LEMMA PatchTakes ==
  ASSUME JournalInv, NEW m \in Nat, NEW k \in Nat, m <= k, k + 1 <= Len(journal),
         NEW p, PatchTells(p, m, k)
  PROVE  PatchTells(Project(p, journal[k + 1]), m, k + 1)
<1> DEFINE i == k + 1
           e == journal[i]
           E == m + 1 .. k
           q == Project(p, e)
<1>1. i \in 1 .. Len(journal) /\ E \in SUBSET (1 .. Len(journal)) /\ m + 1 .. k + 1 = E \cup {i}
  <2>1. Len(journal) \in Nat
    BY DEF JournalInv
  <2> QED BY <2>1
<1>2. p \in Patches /\ RunTells(journal, E, p.status, "none") /\ StepTells(journal, E, p.step, "none")
      /\ \A t \in Copied : TableTells(journal, E, t, p.tables[t], "none")
  BY DEF PatchTells
<1>3. e.type \in EventTypes
  BY <1>1, EventAt
<1>4. SUFFICES /\ q \in Patches /\ RunTells(journal, E \cup {i}, q.status, "none") /\ StepTells(journal, E \cup {i}, q.step, "none")
               /\ \A t \in Copied : TableTells(journal, E \cup {i}, t, q.tables[t], "none")
  BY <1>1 DEF PatchTells
<1>5. /\ e.type = "run_finished" => RunTells(journal, E \cup {i}, e.status, "none")
      /\ e.type = "run_started" => RunTells(journal, E \cup {i}, "running", "none")
      /\ e.type \notin {"run_started", "run_finished"} => RunTells(journal, E \cup {i}, p.status, "none")
  <2>1. e.type = "run_started" => E = {}
    BY <1>1, EventIs
  <2> HIDE DEF E, i
  <2> QED BY <1>1, <1>2, <2>1, EndTakes DEF RunTells, e
<1>6. /\ e.type = "step_finished" => StepTells(journal, E \cup {i}, e.status, "none")
      /\ e.type = "step_started" => StepTells(journal, E \cup {i}, "running", "none")
      /\ e.type \notin {"step_started", "step_finished"} => StepTells(journal, E \cup {i}, p.step, "none")
  <2>1. e.type = "step_started" => \A j \in E : journal[j].type # "step_finished"
    <3>1. e.type = "step_started" => E \subseteq {1} /\ 1 \in 1 .. Len(journal)
      BY <1>1, EventIs
    <3>2. 1 \in 1 .. Len(journal) => journal[1].type = "run_started"
      BY EventIs
    <3> QED BY <3>1, <3>2
  <2> HIDE DEF E, i
  <2> QED BY <1>1, <1>2, <2>1, EndTakes DEF StepTells, e
<1>7. ASSUME NEW t \in Copied
      PROVE  /\ Is(journal, i, "table_finished", t) => TableTells(journal, E \cup {i}, t, e.status, "none")
             /\ Is(journal, i, "table_progress", t) =>
                  TableTells(journal, E \cup {i}, t, IF p.tables[t] \in TableOver THEN p.tables[t] ELSE "running", "none")
             /\ e.type = "plan_ready" =>
                  TableTells(journal, E \cup {i}, t, IF p.tables[t] = "none" THEN "pending" ELSE p.tables[t], "none")
             /\ ~ Is(journal, i, "table_finished", t) /\ ~ Is(journal, i, "table_progress", t) /\ e.type # "plan_ready" =>
                  TableTells(journal, E \cup {i}, t, p.tables[t], "none")
  <2>1. TableTells(journal, E, t, p.tables[t], "none")
    BY <1>2
  <2> HIDE DEF E, i
  <2> QED BY <1>1, <2>1, TableTakes DEF e
<1>8. CASE e.type \in {"run_started", "run_finished"}
  <2>1. q = [p EXCEPT !.status = e.status] /\ e.status \in RunStatus
    BY <1>1, <1>8, Projected, EventIs
  <2>2. q \in Patches /\ q.status = e.status /\ q.step = p.step /\ q.tables = p.tables
    <3> HIDE DEF e, q
    <3> QED BY <1>2, <2>1, PatchFields
  <2>3. e.type = "run_started" => e.status = "running"
    BY <1>1, EventIs
  <2>4. RunTells(journal, E \cup {i}, q.status, "none")
    BY <1>5, <1>8, <2>2, <2>3
  <2>5. StepTells(journal, E \cup {i}, q.step, "none")
    BY <1>6, <1>8, <2>2
  <2>6. \A t \in Copied : TableTells(journal, E \cup {i}, t, q.tables[t], "none")
    BY <1>7, <1>8, <2>2 DEF Is
  <2> QED BY <2>2, <2>4, <2>5, <2>6
<1>9. CASE e.type \in {"step_started", "step_finished"}
  <2>1. q = [p EXCEPT !.step = e.status] /\ e.status \in StepStatus
    BY <1>1, <1>9, Projected, EventIs
  <2>2. q \in Patches /\ q.status = p.status /\ q.step = e.status /\ q.tables = p.tables
    <3> HIDE DEF e, q
    <3> QED BY <1>2, <2>1, PatchFields
  <2>3. e.type = "step_started" => e.status = "running"
    BY <1>1, EventIs
  <2>4. RunTells(journal, E \cup {i}, q.status, "none")
    BY <1>5, <1>9, <2>2
  <2>5. StepTells(journal, E \cup {i}, q.step, "none")
    BY <1>6, <1>9, <2>2, <2>3
  <2>6. \A t \in Copied : TableTells(journal, E \cup {i}, t, q.tables[t], "none")
    BY <1>7, <1>9, <2>2 DEF Is
  <2> QED BY <2>2, <2>4, <2>5, <2>6
<1>10. CASE e.type \in {"table_progress", "table_finished"}
  <2> DEFINE f == [p.tables EXCEPT ![e.on] = UpsertTable(p.tables[e.on], e.status)]
  <2>1. q = [p EXCEPT !.tables = f] /\ e.status \in TableStatus /\ e.on \in Copied
    <3>1. q = [p EXCEPT !.tables[e.on] = UpsertTable(@, e.status)] /\ e.status \in TableStatus /\ e.on \in Copied
      BY <1>1, <1>10, Projected, EventIs
    <3> HIDE DEF e, q
    <3> QED BY <3>1
  <2>2. /\ f \in [Copied -> TableStatus \cup {"none"}]
        /\ f[e.on] = UpsertTable(p.tables[e.on], e.status)
        /\ \A t \in Copied : t # e.on => f[t] = p.tables[t]
    <3>1. p.tables \in [Copied -> TableStatus \cup {"none"}]
      BY <1>2, PatchFields
    <3>2. UpsertTable(p.tables[e.on], e.status) \in TableStatus
      <4> HIDE DEF e
      <4> QED BY <2>1, <3>1, UpsertTyped
    <3> HIDE DEF e
    <3> QED BY <2>1, <3>1, <3>2
  <2>3. q \in Patches /\ q.status = p.status /\ q.step = p.step /\ q.tables = f
    <3> HIDE DEF e, q, f
    <3> QED BY <1>2, <2>1, <2>2, PatchFields
  <2>4. RunTells(journal, E \cup {i}, q.status, "none") /\ StepTells(journal, E \cup {i}, q.step, "none")
    BY <1>5, <1>6, <1>10, <2>3
  <2>5. ASSUME NEW t \in Copied PROVE TableTells(journal, E \cup {i}, t, q.tables[t], "none")
    <3>1. CASE t # e.on
      BY <1>7, <1>10, <2>2, <2>3, <3>1 DEF Is
    <3>2. CASE t = e.on /\ e.type = "table_finished"
      <4>1. UpsertTable(p.tables[t], e.status) = e.status
        BY <1>1, <3>2, EventIs DEF UpsertTable
      <4>2. Is(journal, i, "table_finished", t)
        BY <3>2 DEF Is
      <4> QED BY <1>7, <2>2, <2>3, <3>2, <4>1, <4>2
    <3>3. CASE t = e.on /\ e.type = "table_progress"
      <4>1. UpsertTable(p.tables[t], e.status) = IF p.tables[t] \in TableOver THEN p.tables[t] ELSE "running"
        <5>1. e.status = "running"
          BY <1>1, <3>3, EventIs
        <5> QED BY <5>1 DEF UpsertTable, TableOver
      <4>2. Is(journal, i, "table_progress", t)
        BY <3>3 DEF Is
      <4>3. q.tables[t] = IF p.tables[t] \in TableOver THEN p.tables[t] ELSE "running"
        BY <2>2, <2>3, <3>3, <4>1
      <4>4. TableTells(journal, E \cup {i}, t, IF p.tables[t] \in TableOver THEN p.tables[t] ELSE "running", "none")
        BY <1>7, <4>2
      <4> QED BY <4>3, <4>4
    <3> QED BY <1>10, <3>1, <3>2, <3>3
  <2> QED BY <2>3, <2>4, <2>5
<1>11. CASE e.type = "plan_ready"
  <2> DEFINE f == [t \in Copied |-> UpsertTable(p.tables[t], "pending")]
  <2>1. q = [p EXCEPT !.tables = f]
    BY <1>11, Projected
  <2>2. f \in [Copied -> TableStatus \cup {"none"}]
    <3>1. p.tables \in [Copied -> TableStatus \cup {"none"}]
      BY <1>2, PatchFields
    <3>2. \A t \in Copied : UpsertTable(p.tables[t], "pending") \in TableStatus
      BY <3>1, UpsertTyped DEF TableStatus
    <3> QED BY <3>2
  <2>3. q \in Patches /\ q.status = p.status /\ q.step = p.step /\ q.tables = f
    <3> HIDE DEF e, q, f
    <3> QED BY <1>2, <2>1, <2>2, PatchFields
  <2>4. RunTells(journal, E \cup {i}, q.status, "none") /\ StepTells(journal, E \cup {i}, q.step, "none")
    BY <1>5, <1>6, <1>11, <2>3
  <2>5. ASSUME NEW t \in Copied PROVE TableTells(journal, E \cup {i}, t, q.tables[t], "none")
    <3>1. \A j \in E : j \in 1 .. Len(journal) /\ j <= 2 /\ journal[j].type \notin {"table_finished", "table_progress", "plan_ready"}
      BY <1>1, <1>11, EventIs
    <3>2. p.tables[t] = "none"
      BY <1>2, <3>1 DEF TableTells, Is
    <3>3. q.tables[t] = "pending"
      BY <2>3, <3>2 DEF UpsertTable, TableOver
    <3> QED BY <1>7, <1>11, <3>2, <3>3
  <2> QED BY <2>3, <2>4, <2>5
<1>12. CASE e.type = "overall_progress"
  <2>1. q = p
    BY <1>12, Projected
  <2> QED BY <1>2, <1>5, <1>6, <1>7, <1>12, <2>1 DEF Is
<1> QED BY <1>3, <1>8, <1>9, <1>10, <1>11, <1>12 DEF EventTypes

\* A batch, projected.
LEMMA BatchTells ==
  ASSUME JournalInv, NEW m \in Nat, NEW n \in Nat, m <= n, n <= Len(journal)
  PROVE  PatchTells(FoldLeft(Project, NoPatch, SubSeq(journal, m + 1, n)), m, n)
<1> DEFINE seq == SubSeq(journal, m + 1, n)
           d == n - m
<1>1. d \in Nat /\ DOMAIN seq = Upto(d) /\ \A k \in 1 .. d : seq[k] = journal[m + k]
  <2>1. Len(journal) \in Nat
    BY DEF JournalInv
  <2> QED BY <2>1 DEF Upto
<1>2. PICK g : Folds("agent", NoPatch, seq, Upto(d), g) /\ FoldLeft(Project, NoPatch, seq) = g[Upto(d)]
  <2> HIDE DEF seq, d
  <2> QED BY <1>1, BatchFolds
<1>3. g[Upto(0)] = NoPatch /\ \A k \in 1 .. d : g[Upto(k)] = Project(g[Upto(k - 1)], journal[m + k])
  <2>1. g[Upto(0)] = NoPatch /\ \A k \in 1 .. d : g[Upto(k)] = Turn("agent", g[Upto(k - 1)], seq[k])
    <3> HIDE DEF seq, d
    <3> QED BY <1>1, <1>2, FoldSteps
  <2> HIDE DEF seq
  <2> QED BY <1>1, <2>1 DEF Turn
<1>4. PatchTells(NoPatch, m, m)
  <2>1. NoPatch \in Patches
    BY DEF NoPatch, Patches
  <2>2. m + 1 .. m = {}
    OBVIOUS
  <2> QED BY <2>1, <2>2 DEF NoPatch, PatchTells, RunTells, StepTells, EndsTell, TableTells
<1> DEFINE P(k) == PatchTells(g[Upto(k)], m, m + k)
<1>5. P(0)
  BY <1>3, <1>4
<1>6. ASSUME NEW k \in Nat, k < d, P(k) PROVE P(k + 1)
  <2>1. m + k \in Nat /\ m <= m + k /\ m + k + 1 <= Len(journal) /\ k + 1 \in 1 .. d /\ (k + 1) - 1 = k
        /\ m + (k + 1) = (m + k) + 1
    <3>1. Len(journal) \in Nat
      BY DEF JournalInv
    <3> QED BY <1>6, <3>1
  <2>2. g[Upto(k + 1)] = Project(g[Upto(k)], journal[(m + k) + 1])
    BY <1>3, <2>1
  <2>3. PatchTells(g[Upto(k)], m, m + k)
    BY <1>6
  <2>4. PatchTells(Project(g[Upto(k)], journal[(m + k) + 1]), m, (m + k) + 1)
    BY <2>1, <2>3, PatchTakes
  <2> QED BY <2>1, <2>2, <2>4
<1> DEFINE A == {k \in Nat : P(k)}
<1>7. d \in A
  <2>1. 0 \in A /\ \A k \in Nat : k < d /\ k \in A => k + 1 \in A
    <3> HIDE DEF P, d
    <3> QED BY <1>5, <1>6
  <2> HIDE DEF A, d
  <2> QED BY <1>1, <2>1, Reaches
<1>8. PatchTells(g[Upto(d)], m, m + d) /\ m + d = n
  BY <1>7
<1> QED BY <1>2, <1>8

-----------------------------------------------------------------------------
(* The agent's rows.                                                       *)

\* What the rows have of the events up to m, and a batch of those after, tell of a table.
LEMMA TableUpserts ==
  ASSUME JournalInv, NEW m \in Nat, NEW n \in Nat, m <= n, n <= Len(journal), NEW t \in Copied,
         NEW s, NEW p, TableTells(journal, 1 .. m, t, s, "absent"), TableTells(journal, m + 1 .. n, t, p, "none")
  PROVE  TableTells(journal, 1 .. n, t, IF p = "none" THEN s ELSE UpsertTable(s, p), "absent")
<1> DEFINE D == 1 .. m
           E == m + 1 .. n
<1>1. 1 .. n = D \cup E /\ D \in SUBSET (1 .. Len(journal)) /\ E \in SUBSET (1 .. Len(journal))
  <2>1. Len(journal) \in Nat
    BY DEF JournalInv
  <2> QED BY <2>1
<1>2. \A i \in D \cup E :
        /\ Is(journal, i, "table_finished", t) => journal[i].status \in TableOver
        /\ journal[i].type = "plan_ready" => i = 3
        /\ Is(journal, i, "table_progress", t) \/ Is(journal, i, "table_finished", t) => i > 3 /\ journal[i].type # "plan_ready"
  BY <1>1, EventIs DEF Is
<1>3. \A i \in D, j \in E : i < j
  OBVIOUS
<1>4. \A i, j \in D \cup E : Is(journal, i, "table_finished", t) /\ Is(journal, j, "table_finished", t) => i = j
  BY <1>1, OneEnd
<1>5. \A i, j \in D \cup E : journal[j].type = "plan_ready" /\ (Is(journal, i, "table_progress", t) \/ Is(journal, i, "table_finished", t)) => i > j
  BY <1>1, <1>2
<1> HIDE DEF D, E
<1>6. TableTells(journal, D, t, s, "absent") /\ TableTells(journal, E, t, p, "none")
  BY DEF D, E
<1>7. \A i \in D \cup E : i \in D \/ i \in E
  OBVIOUS
<1>8. TableTells(journal, D \cup E, t, IF p = "none" THEN s ELSE UpsertTable(s, p), "absent")
  <2>1. CASE \E i \in E : Is(journal, i, "table_finished", t)
    BY <1>2, <1>4, <1>6, <2>1 DEF TableTells, UpsertTable, TableOver
  <2>2. CASE (\A i \in E : ~ Is(journal, i, "table_finished", t)) /\ \E i \in D : Is(journal, i, "table_finished", t)
    <3>1. s \in TableOver /\ p \notin TableOver
      BY <1>2, <1>6, <2>2 DEF TableTells, TableOver
    <3>2. (IF p = "none" THEN s ELSE UpsertTable(s, p)) = s
      BY <3>1 DEF UpsertTable
    <3> QED BY <1>2, <1>4, <1>6, <2>2, <3>2 DEF TableTells
  <2>3. CASE \A i \in D \cup E : ~ Is(journal, i, "table_finished", t)
    <3>1. s \notin TableOver /\ p \notin TableOver
      BY <1>6, <2>3 DEF TableTells, TableOver
    <3>2. (IF p = "none" THEN s ELSE UpsertTable(s, p)) = IF p = "none" THEN s ELSE p
      BY <3>1 DEF UpsertTable
    <3>3. ASSUME p = "pending", NEW i \in D, Is(journal, i, "table_progress", t) PROVE FALSE
      <4>1. PICK j \in E : journal[j].type = "plan_ready"
        BY <1>6, <2>3, <3>3 DEF TableTells
      <4>2. i < j /\ i > j /\ i \in Nat /\ j \in Nat
        BY <1>1, <1>3, <1>5, <3>3, <4>1
      <4> QED BY <4>2
    <3> QED BY <1>6, <2>3, <3>2, <3>3 DEF TableTells
  <2> QED BY <2>1, <2>2, <2>3
<1> QED BY <1>1, <1>8

\* And of the step, or the run when nobody asked to cancel it.
LEMMA EndUpserts ==
  ASSUME JournalInv, NEW m \in Nat, NEW n \in Nat, m <= n, n <= Len(journal),
         NEW first \in {"run_started", "step_started"}, NEW last \in {"run_finished", "step_finished"},
         NEW nothing, NEW s, NEW p,
         EndsTell(journal, 1 .. m, first, last, s, nothing), EndsTell(journal, m + 1 .. n, first, last, p, "none")
  PROVE  EndsTell(journal, 1 .. n, first, last, IF p = "none" THEN s ELSE p, nothing)
<1> DEFINE D == 1 .. m
           E == m + 1 .. n
<1>1. 1 .. n = D \cup E /\ D \in SUBSET (1 .. Len(journal)) /\ E \in SUBSET (1 .. Len(journal))
  <2>1. Len(journal) \in Nat
    BY DEF JournalInv
  <2> QED BY <2>1
<1>2. \A i, j \in D \cup E : journal[i].type = first /\ journal[j].type = first => i = j
  BY <1>1, EventIs
<1>3. \A i, j \in D \cup E : journal[i].type = last /\ journal[j].type = last => i = j
  BY <1>1, OneOutcome
<1>4. \A i \in D \cup E : journal[i].type = last => journal[i].status # "none"
  BY <1>1, EventAt DEF Fits, Terminal
<1>5. \A i, j \in D \cup E : journal[i].type = first /\ journal[j].type = last => i < j
  BY <1>1, EventIs
<1>6. \A i \in D, j \in E : i < j
  OBVIOUS
<1> HIDE DEF D, E
<1>7. EndsTell(journal, D, first, last, s, nothing) /\ EndsTell(journal, E, first, last, p, "none")
  BY DEF D, E
<1>8. EndsTell(journal, D \cup E, first, last, IF p = "none" THEN s ELSE p, nothing)
  <2>1. CASE \E i \in E : journal[i].type = last
    BY <1>3, <1>4, <1>7, <2>1 DEF EndsTell
  <2>2. CASE (\A i \in E : journal[i].type # last) /\ \E i \in D : journal[i].type = last
    <3>1. ASSUME NEW i \in E, journal[i].type = first PROVE FALSE
      <4>1. PICK j \in D : journal[j].type = last
        BY <2>2
      <4>2. j < i /\ i < j /\ i \in Nat /\ j \in Nat
        BY <1>1, <1>5, <1>6, <3>1, <4>1
      <4> QED BY <4>2
    <3>2. p = "none"
      BY <1>7, <2>2, <3>1 DEF EndsTell
    <3> QED BY <1>3, <1>7, <2>2, <3>2 DEF EndsTell
  <2>3. CASE \A i \in D \cup E : journal[i].type # last
    BY <1>7, <2>3 DEF EndsTell
  <2> QED BY <2>1, <2>2, <2>3
<1> QED BY <1>1, <1>8

\* The rows are a record of the right kind.
LEMMA ViewFields ==
  ASSUME NEW v \in Views
  PROVE  /\ v.seq \in Nat /\ v.status \in RunStatus /\ v.step \in StepStatus
         /\ v.tables \in [Copied -> TableStatus]
         /\ \A x \in RunStatus : [v EXCEPT !.status = x] \in Views
              /\ [v EXCEPT !.status = x].status = x /\ [v EXCEPT !.status = x].step = v.step
              /\ [v EXCEPT !.status = x].tables = v.tables /\ [v EXCEPT !.status = x].seq = v.seq
<1> HIDE DEF RunStatus, StepStatus, TableStatus
<1> QED BY DEF Views

\* A batch is stored.
LEMMA RowsFollow ==
  ASSUME JournalInv, RowInv, NEW n \in row.seq + 1 .. Len(journal), NEW p, PatchTells(p, row.seq, n)
  PROVE  LET r == Upsert(row, p, n)
         IN  /\ r \in Views /\ r.seq = n
             /\ StepTells(journal, 1 .. n, r.step, "pending")
             /\ \A t \in Copied : TableTells(journal, 1 .. n, t, r.tables[t], "absent")
             /\ \/ silent \/ RunTells(journal, 1 .. n, r.status, "queued")
                \/ r.status = "cancelling" /\ RunTells(journal, 1 .. n, "running", "queued")
             /\ r.status \in {"queued", "running"} => silent \/ row.status \in {"queued", "running"}
<1> DEFINE r == Upsert(row, p, n)
           m == row.seq
<1>1. row \in Views /\ m \in Nat /\ n \in Nat /\ m <= n /\ n <= Len(journal) /\ m < n
  <2>1. row \in Views /\ Len(journal) \in Nat
    BY DEF RowInv, JournalInv
  <2>2. m \in Nat
    BY <2>1, ViewFields
  <2> QED BY <2>1, <2>2
<1>2. p \in Patches /\ RunTells(journal, m + 1 .. n, p.status, "none")
      /\ StepTells(journal, m + 1 .. n, p.step, "none")
      /\ \A t \in Copied : TableTells(journal, m + 1 .. n, t, p.tables[t], "none")
  BY DEF PatchTells
<1>3. /\ row.status \in RunStatus /\ row.step \in StepStatus /\ row.tables \in [Copied -> TableStatus]
      /\ p.status \in RunStatus \cup {"none"} /\ p.step \in StepStatus \cup {"none"}
      /\ p.tables \in [Copied -> TableStatus \cup {"none"}]
  BY <1>1, <1>2, ViewFields, PatchFields
<1>4. /\ r.seq = n
      /\ r.status = IF p.status = "none" \/ (p.status = "running" /\ row.status = "cancelling")
                    THEN row.status ELSE p.status
      /\ r.step = IF p.step = "none" THEN row.step ELSE p.step
      /\ r.tables = [t \in Copied |-> IF p.tables[t] = "none" THEN row.tables[t]
                                      ELSE UpsertTable(row.tables[t], p.tables[t])]
  BY DEF Upsert
<1>5. r \in Views
  <2>1. r.status \in RunStatus
    <3> HIDE DEF r
    <3> QED BY <1>3, <1>4
  <2>2. r.step \in StepStatus
    <3> HIDE DEF r
    <3> QED BY <1>3, <1>4
  <2>3. r.tables \in [Copied -> TableStatus]
    <3>1. \A t \in Copied : p.tables[t] # "none" => UpsertTable(row.tables[t], p.tables[t]) \in TableStatus
      <4> HIDE DEF r
      <4>1. ASSUME NEW t \in Copied, p.tables[t] # "none"
            PROVE  row.tables[t] \in TableStatus \cup {"none"} /\ p.tables[t] \in TableStatus
        BY <1>3, <4>1
      <4> QED BY <4>1, UpsertTyped
    <3> HIDE DEF r
    <3>2. \A t \in Copied : (IF p.tables[t] = "none" THEN row.tables[t]
                             ELSE UpsertTable(row.tables[t], p.tables[t])) \in TableStatus
      BY <1>3, <3>1
    <3> QED BY <1>4, <3>2
  <2>4. r = [seq |-> r.seq, status |-> r.status, step |-> r.step, tables |-> r.tables]
    BY DEF Upsert
  <2> HIDE DEF r
  <2> QED BY <1>1, <1>4, <2>1, <2>2, <2>3, <2>4, Zenon DEF Views
<1>6. StepTells(journal, 1 .. n, r.step, "pending")
  <2>1. StepTells(journal, 1 .. m, row.step, "pending")
    BY DEF RowInv
  <2>2. EndsTell(journal, 1 .. n, "step_started", "step_finished",
                 IF p.step = "none" THEN row.step ELSE p.step, "pending")
    <3> HIDE DEF m
    <3> QED BY <1>1, <1>2, <2>1, EndUpserts DEF StepTells
  <2> QED BY <1>4, <2>2 DEF StepTells
<1>7. ASSUME NEW t \in Copied PROVE TableTells(journal, 1 .. n, t, r.tables[t], "absent")
  <2>1. TableTells(journal, 1 .. m, t, row.tables[t], "absent")
    BY DEF RowInv
  <2>2. TableTells(journal, 1 .. n, t, IF p.tables[t] = "none" THEN row.tables[t]
                                       ELSE UpsertTable(row.tables[t], p.tables[t]), "absent")
    <3> HIDE DEF m
    <3> QED BY <1>1, <1>2, <2>1, TableUpserts
  <2> QED BY <1>4, <2>2
<1>8. \A s : RunTells(journal, 1 .. m, s, "queued") =>
               RunTells(journal, 1 .. n, IF p.status = "none" THEN s ELSE p.status, "queued")
  <2> HIDE DEF m
  <2> QED BY <1>1, <1>2, EndUpserts DEF RunTells
<1>9. \/ silent \/ RunTells(journal, 1 .. n, r.status, "queued")
      \/ r.status = "cancelling" /\ RunTells(journal, 1 .. n, "running", "queued")
  <2>1. \/ silent \/ RunTells(journal, 1 .. m, row.status, "queued")
        \/ row.status = "cancelling" /\ RunTells(journal, 1 .. m, "running", "queued")
    BY DEF RowInv
  <2>2. RunTells(journal, 1 .. m, row.status, "queued") => row.status # "cancelling"
    <3>1. \A i \in 1 .. m : journal[i].type = "run_finished" => journal[i].status \in Terminal
      BY <1>1, EventIs
    <3> QED BY <3>1 DEF RunTells, EndsTell, Terminal
  <2> HIDE DEF r, m
  <2>3. CASE silent
    BY <2>3
  <2>4. CASE RunTells(journal, 1 .. m, row.status, "queued")
    <3>1. r.status = IF p.status = "none" THEN row.status ELSE p.status
      BY <1>4, <2>2, <2>4
    <3> QED BY <1>8, <2>4, <3>1
  <2>5. CASE row.status = "cancelling" /\ RunTells(journal, 1 .. m, "running", "queued")
    <3>1. RunTells(journal, 1 .. n, IF p.status = "none" THEN "running" ELSE p.status, "queued")
      BY <1>8, <2>5
    <3>2. CASE p.status \in {"none", "running"}
      BY <1>4, <2>5, <3>1, <3>2
    <3>3. CASE p.status \notin {"none", "running"}
      BY <1>4, <3>1, <3>3
    <3> QED BY <3>2, <3>3
  <2> QED BY <2>1, <2>3, <2>4, <2>5
<1>10. r.status \in {"queued", "running"} => silent \/ row.status \in {"queued", "running"}
  <2>1. p.status \in {"queued", "running"} => p.status = "running" /\ m = 0
    <3>1. \A i \in m + 1 .. n : journal[i].type = "run_finished" => journal[i].status \in Terminal
      BY <1>1, EventIs
    <3>2. \A i \in m + 1 .. n : journal[i].type = "run_started" => i = 1
      BY <1>1, EventIs
    <3> QED BY <1>1, <1>2, <3>1, <3>2 DEF RunTells, EndsTell, Terminal
  <2>2. m = 0 /\ ~ silent => row.status \in {"queued", "cancelling"}
    BY DEF RowInv, RunTells, EndsTell
  <2> QED BY <1>4, <2>1, <2>2
<1> QED BY <1>4, <1>5, <1>6, <1>7, <1>9, <1>10

-----------------------------------------------------------------------------
(* The page.                                                               *)

\* One event more on a page, by its type.
LEMMA Applied ==
  ASSUME NEW v, NEW i
  PROVE  LET e == journal[i]
             now == [v EXCEPT !.seq = i]
         IN  /\ i <= v.seq => Apply(v, i) = v
             /\ ~ (i <= v.seq) =>
                  /\ e.type \in {"run_started", "run_finished"} => Apply(v, i) = [now EXCEPT !.status = e.status]
                  /\ e.type \in {"step_started", "step_finished"} => Apply(v, i) = [now EXCEPT !.step = e.status]
                  /\ e.type = "table_progress" => Apply(v, i) = [now EXCEPT !.tables[e.on] = SetProgress(@)]
                  /\ e.type = "table_finished" => Apply(v, i) = [now EXCEPT !.tables[e.on] = e.status]
                  /\ e.type = "plan_ready" =>
                       Apply(v, i) = [now EXCEPT !.tables = [t \in Copied |-> IF @[t] = "absent" THEN "pending" ELSE @[t]]]
                  /\ e.type = "overall_progress" => Apply(v, i) = now
  BY Zenon DEF Apply

\* w is v but for its seq, and one of its fields may be changed.
OnlySeq(w, v, i) ==
  /\ w \in Views /\ w.seq = i /\ w.status = v.status /\ w.step = v.step /\ w.tables = v.tables
  /\ \A x \in RunStatus : LET u == [w EXCEPT !.status = x]
       IN u \in Views /\ u.seq = i /\ u.status = x /\ u.step = v.step /\ u.tables = v.tables
  /\ \A x \in StepStatus : LET u == [w EXCEPT !.step = x]
       IN u \in Views /\ u.seq = i /\ u.status = v.status /\ u.step = x /\ u.tables = v.tables
  /\ \A f \in [Copied -> TableStatus] : LET u == [w EXCEPT !.tables = f]
       IN u \in Views /\ u.seq = i /\ u.status = v.status /\ u.step = v.step /\ u.tables = f

\* A page is a record of the right kind, and stays one.
LEMMA PageFields == ASSUME NEW v \in Views, NEW i \in Nat PROVE OnlySeq([v EXCEPT !.seq = i], v, i)
<1> DEFINE w == [v EXCEPT !.seq = i]
<1> HIDE DEF RunStatus, StepStatus, TableStatus
<1>1. w \in Views /\ w.seq = i /\ w.status = v.status /\ w.step = v.step /\ w.tables = v.tables
  BY DEF Views
<1> HIDE DEF w
<1>2. ASSUME NEW x \in RunStatus
      PROVE  LET u == [w EXCEPT !.status = x]
             IN  u \in Views /\ u.seq = w.seq /\ u.status = x /\ u.step = w.step /\ u.tables = w.tables
  BY <1>1 DEF Views
<1>3. ASSUME NEW x \in StepStatus
      PROVE  LET u == [w EXCEPT !.step = x]
             IN  u \in Views /\ u.seq = w.seq /\ u.status = w.status /\ u.step = x /\ u.tables = w.tables
  BY <1>1 DEF Views
<1>4. ASSUME NEW f \in [Copied -> TableStatus]
      PROVE  LET u == [w EXCEPT !.tables = f]
             IN  u \in Views /\ u.seq = w.seq /\ u.status = w.status /\ u.step = w.step /\ u.tables = f
  BY <1>1 DEF Views
<1>5. OnlySeq(w, v, i)
  BY <1>1, <1>2, <1>3, <1>4, Zenon DEF OnlySeq
<1> QED BY <1>5 DEF w

\* One event more.
LEMMA PageTakes ==
  ASSUME JournalInv, RowInv, NEW n \in 0 .. row.seq, NEW step0 \in StepStatus,
         NEW v, PageTells(journal, row.seq, silent, v, n, step0), v.seq < row.seq
  PROVE  LET w == Apply(v, v.seq + 1)
         IN  PageTells(journal, row.seq, silent, w, n, step0) /\ w.seq = v.seq + 1 /\ (w.status = "cancelling" => v.status = "cancelling")
<1> DEFINE k == v.seq
           i == k + 1
           e == journal[i]
           D == 1 .. k
           E == (1 .. n) \cup D
           w == Apply(v, i)
<1>1. /\ v \in Views /\ k \in Nat /\ i \in Nat /\ i \in 1 .. Len(journal) /\ i <= row.seq /\ ~ (i <= k)
      /\ D \in SUBSET (1 .. Len(journal)) /\ E \in SUBSET (1 .. Len(journal))
      /\ 1 .. i = D \cup {i} /\ (1 .. n) \cup (1 .. i) = E \cup {i} /\ i >= 1
  <2>1. v \in Views /\ row \in Views /\ Len(journal) \in Nat /\ row.seq \in 0 .. Len(journal)
    BY DEF PageTells, RowInv, JournalInv
  <2>2. k \in Nat /\ row.seq \in Nat
    BY <2>1, ViewFields
  <2>3. k < row.seq /\ row.seq <= Len(journal) /\ n <= row.seq /\ n \in Nat
    BY <2>1, <2>2
  <2> HIDE DEF k
  <2>4. i \in Nat /\ i \in 1 .. Len(journal) /\ i <= row.seq /\ ~ (i <= k) /\ i >= 1 /\ 1 .. i = D \cup {i}
    BY <2>1, <2>2, <2>3 DEF k
  <2>5. D \in SUBSET (1 .. Len(journal)) /\ E \in SUBSET (1 .. Len(journal))
    BY <2>1, <2>2, <2>3 DEF k
  <2>6. (1 .. n) \cup (1 .. i) = E \cup {i}
    <3> HIDE DEF D, i
    <3> QED BY <2>4
  <2> QED BY <2>1, <2>2, <2>4, <2>5, <2>6
<1>2. /\ \A t \in Copied : TableTells(journal, E, t, v.tables[t], "absent")
      /\ IF k >= 2 THEN StepTells(journal, D, v.step, "pending") ELSE v.step = step0
      /\ StatusTells(journal, row.seq, silent, k, v.status)
  BY DEF PageTells
<1>3. e.type \in EventTypes /\ (e.type = "run_started" <=> i = 1) /\ (e.type = "step_started" <=> i = 2)
  BY <1>1, EventAt, EventIs
<1>4. v.tables \in [Copied -> TableStatus]
  BY <1>1, ViewFields
<1>5. w.seq = i /\ w \in Views
      /\ (w.status = IF e.type \in {"run_started", "run_finished"} THEN e.status ELSE v.status)
      /\ (w.step = IF e.type \in {"step_started", "step_finished"} THEN e.status ELSE v.step)
      /\ \A t \in Copied : w.tables[t] =
           IF Is(journal, i, "table_finished", t) THEN e.status
           ELSE IF Is(journal, i, "table_progress", t)
             THEN IF v.tables[t] \in TableOver THEN v.tables[t] ELSE "running"
           ELSE IF e.type = "plan_ready" THEN IF v.tables[t] = "absent" THEN "pending" ELSE v.tables[t]
           ELSE v.tables[t]
  <2> DEFINE now == [v EXCEPT !.seq = i]
             over == [t \in Copied |-> IF Is(journal, i, "table_finished", t) THEN e.status
                        ELSE IF Is(journal, i, "table_progress", t)
                          THEN IF v.tables[t] \in TableOver THEN v.tables[t] ELSE "running"
                        ELSE IF e.type = "plan_ready" THEN IF v.tables[t] = "absent" THEN "pending" ELSE v.tables[t]
                        ELSE v.tables[t]]
  <2>1. SUFFICES w.seq = i /\ w \in Views
          /\ (w.status = IF e.type \in {"run_started", "run_finished"} THEN e.status ELSE v.status)
          /\ (w.step = IF e.type \in {"step_started", "step_finished"} THEN e.status ELSE v.step)
          /\ w.tables = over
    <3> HIDE DEF w, e, i
    <3> QED OBVIOUS
  <2>2. /\ e.type \in {"run_started", "run_finished"} => w = [now EXCEPT !.status = e.status]
        /\ e.type \in {"step_started", "step_finished"} => w = [now EXCEPT !.step = e.status]
        /\ e.type = "table_progress" => w = [now EXCEPT !.tables[e.on] = SetProgress(@)]
        /\ e.type = "table_finished" => w = [now EXCEPT !.tables[e.on] = e.status]
        /\ e.type = "plan_ready" =>
             w = [now EXCEPT !.tables = [t \in Copied |-> IF @[t] = "absent" THEN "pending" ELSE @[t]]]
        /\ e.type = "overall_progress" => w = now
    <3>1. ~ (i <= v.seq)
      BY <1>1
    <3> HIDE DEF i
    <3> QED BY <3>1, Applied, Zenon
  <2>3. /\ e.type \in {"run_started", "run_finished"} => e.status \in RunStatus
        /\ e.type \in {"step_started", "step_finished"} => e.status \in StepStatus
        /\ e.type \in {"table_progress", "table_finished"} => e.on \in Copied /\ e.status \in TableStatus
    BY <1>1, EventIs
  <2>4. /\ now \in Views /\ now.seq = i /\ now.status = v.status /\ now.step = v.step /\ now.tables = v.tables
        /\ \A x \in RunStatus : LET u == [now EXCEPT !.status = x]
              IN u \in Views /\ u.seq = i /\ u.status = x /\ u.step = v.step /\ u.tables = v.tables
        /\ \A x \in StepStatus : LET u == [now EXCEPT !.step = x]
              IN u \in Views /\ u.seq = i /\ u.status = v.status /\ u.step = x /\ u.tables = v.tables
        /\ \A f \in [Copied -> TableStatus] : LET u == [now EXCEPT !.tables = f]
              IN u \in Views /\ u.seq = i /\ u.status = v.status /\ u.step = v.step /\ u.tables = f
    <3>1. v \in Views /\ i \in Nat
      BY <1>1
    <3>2. OnlySeq(now, v, i)
      <4> HIDE DEF i
      <4> QED BY <3>1, PageFields
    <3> HIDE DEF i, now
    <3> QED BY <3>2, Zenon DEF OnlySeq
  <2>5. over \in [Copied -> TableStatus]
    <3> HIDE DEF e, i
    <3>1. \A t \in Copied : Is(journal, i, "table_finished", t) => e.status \in TableStatus
      BY <2>3 DEF Is, e
    <3>2. "running" \in TableStatus /\ "pending" \in TableStatus
      BY DEF TableStatus
    <3> QED BY <1>4, <3>1, <3>2
  <2>6. v.tables = [t \in Copied |-> v.tables[t]]
    BY <1>4
  <2> HIDE DEF now, w
  <2>7. CASE e.type \in {"run_started", "run_finished"}
    <3>1. over = v.tables
      BY <2>6, <2>7 DEF Is
    <3> HIDE DEF over, e, i
    <3> DEFINE x == e.status
    <3>2. w = [now EXCEPT !.status = x] /\ x \in RunStatus
      BY <2>2, <2>3, <2>7
    <3> HIDE DEF x
    <3>3. /\ w \in Views /\ w.seq = i /\ w.status = x
          /\ w.step = v.step /\ w.tables = v.tables
      BY <2>4, <3>2
    <3>4. e.type \notin {"step_started", "step_finished"}
      BY <2>7
    <3> QED BY <2>7, <3>1, <3>3, <3>4 DEF x
  <2>8. CASE e.type \in {"step_started", "step_finished"}
    <3>1. over = v.tables
      BY <2>6, <2>8 DEF Is
    <3> HIDE DEF over, e, i
    <3> DEFINE x == e.status
    <3>2. w = [now EXCEPT !.step = x] /\ x \in StepStatus
      BY <2>2, <2>3, <2>8
    <3> HIDE DEF x
    <3>3. /\ w \in Views /\ w.seq = i /\ w.status = v.status
          /\ w.step = x /\ w.tables = v.tables
      BY <2>4, <3>2
    <3>4. e.type \notin {"run_started", "run_finished"}
      BY <2>8
    <3> QED BY <2>8, <3>1, <3>3, <3>4 DEF x
  <2>9. CASE e.type \in {"table_progress", "table_finished"}
    <3> DEFINE x == IF e.type = "table_progress" THEN SetProgress(v.tables[e.on]) ELSE e.status
    <3>1. over = [v.tables EXCEPT ![e.on] = x]
      <4>1. e.on \in Copied
        BY <2>3, <2>9
      <4>2. \A t \in Copied : over[t] = IF t = e.on THEN x ELSE v.tables[t]
        BY <2>9 DEF Is, SetProgress
      <4>3. [v.tables EXCEPT ![e.on] = x] = [t \in Copied |-> IF t = e.on THEN x ELSE v.tables[t]]
        <5> HIDE DEF x, over, e
        <5> QED BY <1>4
      <4>4. over = [t \in Copied |-> over[t]]
        OBVIOUS
      <4> HIDE DEF over, x, e
      <4> QED BY <4>2, <4>3, <4>4
    <3>2. w = [now EXCEPT !.tables = over]
      <4>1. w = [now EXCEPT !.tables[e.on] = x]
        <5> HIDE DEF e, over
        <5>1. CASE e.type = "table_progress"
          BY <2>2, <2>4, <5>1
        <5>2. CASE e.type = "table_finished"
          BY <2>2, <5>2
        <5> QED BY <2>9, <5>1, <5>2
      <4> HIDE DEF x, over, e
      <4> QED BY <2>4, <3>1, <4>1
    <3> HIDE DEF over, e, i
    <3> QED BY <2>4, <2>5, <2>9, <3>2
  <2>10. CASE e.type = "plan_ready"
    <3>1. over = [t \in Copied |-> IF v.tables[t] = "absent" THEN "pending" ELSE v.tables[t]]
      BY <2>10 DEF Is
    <3> HIDE DEF over, e, i
    <3>2. w = [now EXCEPT !.tables = over]
      BY <2>2, <2>4, <2>10, <3>1
    <3> QED BY <2>4, <2>5, <2>10, <3>2
  <2>11. CASE e.type = "overall_progress"
    <3>1. over = v.tables
      BY <2>6, <2>11 DEF Is
    <3> HIDE DEF over, e, i
    <3> QED BY <2>2, <2>4, <2>11, <3>1
  <2> HIDE DEF e, over, i
  <2> QED BY <1>3, <2>7, <2>8, <2>9, <2>10, <2>11 DEF EventTypes
<1>6. \A t \in Copied : TableTells(journal, E \cup {i}, t, w.tables[t], "absent")
  <2> SUFFICES ASSUME NEW t \in Copied PROVE TableTells(journal, E \cup {i}, t, w.tables[t], "absent")
    OBVIOUS
  <2>1. TableTells(journal, E, t, v.tables[t], "absent")
    BY <1>2
  <2> HIDE DEF E, i, w, k
  <2>2. /\ Is(journal, i, "table_finished", t) => TableTells(journal, E \cup {i}, t, e.status, "absent")
        /\ Is(journal, i, "table_progress", t) =>
             TableTells(journal, E \cup {i}, t, IF v.tables[t] \in TableOver THEN v.tables[t] ELSE "running", "absent")
        /\ e.type = "plan_ready" =>
             TableTells(journal, E \cup {i}, t, IF v.tables[t] = "absent" THEN "pending" ELSE v.tables[t], "absent")
        /\ ~ Is(journal, i, "table_finished", t) /\ ~ Is(journal, i, "table_progress", t) /\ e.type # "plan_ready" =>
             TableTells(journal, E \cup {i}, t, v.tables[t], "absent")
    BY <1>1, <2>1, TableTakes DEF e
  <2> DEFINE was == v.tables[t]
             is == w.tables[t]
  <2> HIDE DEF e, was, is
  <2>3. is = IF Is(journal, i, "table_finished", t) THEN e.status
             ELSE IF Is(journal, i, "table_progress", t) THEN IF was \in TableOver THEN was ELSE "running"
             ELSE IF e.type = "plan_ready" THEN IF was = "absent" THEN "pending" ELSE was ELSE was
    BY <1>5 DEF was, is
  <2>4. CASE Is(journal, i, "table_finished", t)
    BY <2>2, <2>3, <2>4 DEF is
  <2>5. CASE Is(journal, i, "table_progress", t) /\ ~ Is(journal, i, "table_finished", t)
    BY <2>2, <2>3, <2>5 DEF is, was
  <2>6. CASE e.type = "plan_ready" /\ ~ Is(journal, i, "table_finished", t) /\ ~ Is(journal, i, "table_progress", t)
    BY <2>2, <2>3, <2>6 DEF is, was
  <2>7. CASE e.type # "plan_ready" /\ ~ Is(journal, i, "table_finished", t) /\ ~ Is(journal, i, "table_progress", t)
    BY <2>2, <2>3, <2>7 DEF is, was
  <2> QED BY <2>4, <2>5, <2>6, <2>7
<1>7. i >= 2 => StepTells(journal, D \cup {i}, w.step, "pending")
  <2>1. i >= 2 => (k >= 2 \/ i = 2)
    BY <1>1
  <2>2. CASE i = 2
    <3>1. e.type = "step_started" /\ e.status = "running" /\ w.step = "running"
      BY <1>1, <1>3, <1>5, <2>2, EventIs
    <3>2. D = {1} /\ 1 \in 1 .. Len(journal)
      BY <1>1, <2>2
    <3>3. journal[1].type = "run_started"
      BY <3>2, EventIs
    <3> HIDE DEF w
    <3> QED BY <3>1, <3>2, <3>3, <2>2 DEF StepTells, EndsTell
  <2>3. CASE k >= 2
    <3>1. StepTells(journal, D, v.step, "pending") /\ e.type # "step_started"
      BY <1>1, <1>2, <1>3, <2>3
    <3> HIDE DEF D, i, w
    <3>2. /\ e.type = "step_finished" => StepTells(journal, D \cup {i}, e.status, "pending")
          /\ e.type \notin {"step_started", "step_finished"} => StepTells(journal, D \cup {i}, v.step, "pending")
      BY <1>1, <3>1, EndTakes DEF StepTells, e
    <3> HIDE DEF e
    <3> QED BY <1>5, <3>1, <3>2
  <2> QED BY <2>1, <2>2, <2>3
<1>8. i < 2 => w.step = step0
  BY <1>1, <1>2, <1>3, <1>5
<1>9. StatusTells(journal, row.seq, silent, i, w.status)
  <2>1. CASE e.type = "run_started"
    <3>1. i = 1 /\ w.status = "running"
      BY <1>1, <1>3, <1>5, <2>1, EventIs
    <3>2. RunTells(journal, 1 .. 1, "running", "queued")
      <4>1. 1 .. 1 = {1} /\ journal[1].type = "run_started"
        BY <2>1, <3>1
      <4> QED BY <4>1 DEF RunTells, EndsTell
    <3> HIDE DEF i, w
    <3> QED BY <3>1, <3>2 DEF StatusTells
  <2>2. CASE e.type = "run_finished"
    <3>1. w.status = e.status
      BY <1>5, <2>2
    <3>2. RunTells(journal, 1 .. i, e.status, "queued")
      <4>1. i \in 1 .. i /\ 1 .. i \subseteq 1 .. Len(journal)
        BY <1>1
      <4>2. \A j \in 1 .. i : journal[j].type = "run_finished" => j = i
        BY <1>1, <2>2, <4>1, OneOutcome
      <4> HIDE DEF i
      <4> QED BY <2>2, <4>1, <4>2 DEF RunTells, EndsTell, e
    <3> HIDE DEF i, w, e
    <3> QED BY <3>1, <3>2 DEF StatusTells
  <2>3. CASE e.type \notin {"run_started", "run_finished"}
    <3>1. w.status = v.status /\ k # 0
      BY <1>1, <1>3, <1>5, <2>3
    <3>2. \A s : RunTells(journal, D, s, "queued") => RunTells(journal, D \cup {i}, s, "queued")
      <4> HIDE DEF D, i
      <4> QED BY <1>1, <2>3, EndTakes DEF RunTells, e
    <3>3. 1 .. i = D \cup {i}
      BY <1>1
    <3>4. \/ silent \/ RunTells(journal, D, v.status, "queued")
          \/ v.status = "cancelling" /\ RunTells(journal, D, "running", "queued")
          \/ v.status \in Terminal /\ RunTells(journal, 1 .. row.seq, v.status, "queued")
      BY <1>2, <3>1 DEF StatusTells
    <3> HIDE DEF i, w, D, e, k
    <3> QED BY <3>1, <3>2, <3>3, <3>4 DEF StatusTells
  <2> QED BY <2>1, <2>2, <2>3
<1>10. w.status = "cancelling" => v.status = "cancelling"
  <2>1. e.type \in {"run_started", "run_finished"} => e.status # "cancelling"
    BY <1>1, EventIs DEF Terminal
  <2> QED BY <1>5, <2>1
<1>11. PageTells(journal, row.seq, silent, w, n, step0)
  <2>1. w.seq \in 0 .. Len(journal) /\ w \in Views
    BY <1>1, <1>5
  <2>2. w.seq = i /\ 1 .. i = D \cup {i} /\ (1 .. n) \cup (1 .. i) = E \cup {i} /\ i \in Nat
    BY <1>1, <1>5
  <2> HIDE DEF w, i, D, E, k
  <2>3. \A t \in Copied : TableTells(journal, (1 .. n) \cup (1 .. w.seq), t, w.tables[t], "absent")
    BY <1>6, <2>2
  <2>4. IF w.seq >= 2 THEN StepTells(journal, 1 .. w.seq, w.step, "pending") ELSE w.step = step0
    <3>1. CASE i >= 2
      BY <1>7, <2>2, <3>1
    <3>2. CASE ~ (i >= 2)
      BY <1>8, <2>2, <3>2
    <3> QED BY <3>1, <3>2
  <2>5. StatusTells(journal, row.seq, silent, w.seq, w.status)
    BY <1>9, <2>2
  <2> QED BY <2>1, <2>3, <2>4, <2>5, Zenon DEF PageTells
<1> QED BY <1>5, <1>10, <1>11

\* A frame, applied.
LEMMA FrameTells ==
  ASSUME JournalInv, RowInv, NEW n \in 0 .. row.seq, NEW step0 \in StepStatus,
         NEW v, PageTells(journal, row.seq, silent, v, n, step0), NEW first \in 1 .. v.seq + 1, NEW last \in v.seq .. row.seq
  PROVE  LET w == ApplyEvents(v, first, last)
         IN  PageTells(journal, row.seq, silent, w, n, step0) /\ w.seq = last /\ (w.status = "cancelling" => v.status = "cancelling")
<1> DEFINE d == last + 1 - first
           seq == [i \in 1 .. d |-> first + i - 1]
           k0 == v.seq
<1>1. k0 \in Nat /\ first \in Nat /\ last \in Nat /\ d \in Nat /\ 1 <= first /\ first <= k0 + 1 /\ k0 <= last
      /\ last <= row.seq /\ row.seq \in Nat
  <2>1. v \in Views /\ row \in Views
    BY DEF PageTells, RowInv
  <2>2. v.seq \in Nat /\ row.seq \in Nat
    BY <2>1, ViewFields
  <2> QED BY <2>2
<1>2. DOMAIN seq = Upto(d) /\ \A k \in 1 .. d : seq[k] = first + k - 1
  BY DEF Upto
<1>3. PICK g : Folds("page", v, seq, Upto(d), g) /\ FoldLeft(Apply, v, seq) = g[Upto(d)]
  <2> HIDE DEF seq, d
  <2> QED BY <1>1, <1>2, FrameFolds
<1>4. g[Upto(0)] = v /\ \A k \in 1 .. d : g[Upto(k)] = Apply(g[Upto(k - 1)], first + k - 1)
  <2>1. g[Upto(0)] = v /\ \A k \in 1 .. d : g[Upto(k)] = Turn("page", g[Upto(k - 1)], seq[k])
    <3> HIDE DEF seq, d
    <3> QED BY <1>1, <1>3, FoldSteps
  <2> HIDE DEF seq
  <2> QED BY <1>2, <2>1 DEF Turn
<1> DEFINE P(k) == /\ PageTells(journal, row.seq, silent, g[Upto(k)], n, step0)
                   /\ g[Upto(k)].seq = IF first + k - 1 > k0 THEN first + k - 1 ELSE k0
                   /\ g[Upto(k)].status = "cancelling" => v.status = "cancelling"
<1>5. P(0)
  BY <1>1, <1>4
<1>6. ASSUME NEW k \in Nat, k < d, P(k) PROVE P(k + 1)
  <2> DEFINE u == g[Upto(k)]
  <2>1. k + 1 \in 1 .. d /\ (k + 1) - 1 = k /\ first + (k + 1) - 1 = first + k /\ first + k <= last
    BY <1>1, <1>6
  <2>2. g[Upto(k + 1)] = Apply(u, first + k)
    BY <1>4, <2>1
  <2>3. PageTells(journal, row.seq, silent, u, n, step0) /\ (u.status = "cancelling" => v.status = "cancelling")
        /\ u.seq = IF first + k - 1 > k0 THEN first + k - 1 ELSE k0
    BY <1>6
  <2> HIDE DEF u, d, seq
  <2>4. CASE first + k <= k0
    <3>1. u.seq = k0 /\ first + k <= u.seq
      BY <1>1, <2>3, <2>4
    <3>2. Apply(u, first + k) = u
      <4> DEFINE x == first + k
      <4>1. x <= u.seq
        BY <3>1
      <4> HIDE DEF x
      <4>2. Apply(u, x) = u
        BY <4>1, Applied, Zenon
      <4> QED BY <4>2 DEF x
    <3> QED BY <1>1, <2>1, <2>2, <2>3, <2>4, <3>1, <3>2
  <2>5. CASE ~ (first + k <= k0)
    <3>1. u.seq = first + k - 1 /\ u.seq + 1 = first + k /\ u.seq < row.seq
      BY <1>1, <2>1, <2>3, <2>5
    <3>2. /\ PageTells(journal, row.seq, silent, Apply(u, u.seq + 1), n, step0) /\ Apply(u, u.seq + 1).seq = u.seq + 1
          /\ Apply(u, u.seq + 1).status = "cancelling" => u.status = "cancelling"
      BY <2>3, <3>1, PageTakes
    <3> QED BY <1>1, <2>1, <2>2, <2>3, <2>5, <3>1, <3>2
  <2> QED BY <2>4, <2>5
<1> DEFINE A == {k \in Nat : P(k)}
<1>7. d \in A
  <2>1. 0 \in A /\ \A k \in Nat : k < d /\ k \in A => k + 1 \in A
    <3> HIDE DEF P, d
    <3> QED BY <1>5, <1>6
  <2> HIDE DEF A, d
  <2> QED BY <1>1, <2>1, Reaches
<1>8. P(d) /\ first + d - 1 = last
  BY <1>1, <1>7
<1>9. ApplyEvents(v, first, last) = g[Upto(d)]
  BY <1>3 DEF ApplyEvents
<1> HIDE DEF d
<1> QED BY <1>1, <1>8, <1>9

-----------------------------------------------------------------------------
(* The engine's events.                                                    *)

\* What is told of some events depends on them alone.
LEMMA Retold ==
  ASSUME NEW J, NEW K, NEW E, \A i \in E : J[i] = K[i]
  PROVE  /\ \A t, s, nothing : TableTells(J, E, t, s, nothing) <=> TableTells(K, E, t, s, nothing)
         /\ \A s, nothing : StepTells(J, E, s, nothing) <=> StepTells(K, E, s, nothing)
         /\ \A s, nothing : RunTells(J, E, s, nothing) <=> RunTells(K, E, s, nothing)
<1>1. ASSUME NEW t, NEW s, NEW nothing PROVE TableTells(J, E, t, s, nothing) <=> TableTells(K, E, t, s, nothing)
  BY DEF TableTells, Is
<1>2. ASSUME NEW s, NEW nothing PROVE StepTells(J, E, s, nothing) <=> StepTells(K, E, s, nothing)
  BY DEF StepTells, EndsTell
<1>3. ASSUME NEW s, NEW nothing PROVE RunTells(J, E, s, nothing) <=> RunTells(K, E, s, nothing)
  BY DEF RunTells, EndsTell
<1> QED BY <1>1, <1>2, <1>3

\* New events that fit, and end nothing a second time.
LEMMA JournalGrows ==
  ASSUME JournalInv, NEW events \in Seq(Events), journal' = journal \o events,
         \A i, j \in 1 .. Len(events) : SameEnd(events[i], events[j]) => i = j,
         \A i \in 1 .. Len(journal), j \in 1 .. Len(events) : ~ SameEnd(journal[i], events[j]),
         \A j \in 1 .. Len(events) : Fits(engine', tablesTold', Len(journal) + j, events[j]),
         engine \in {"ending", "over"} => engine' \in {"ending", "over"}, tablesTold \subseteq tablesTold'
  PROVE  /\ journal' \in Seq(Events) /\ Once(journal')
         /\ \A i \in 1 .. Len(journal') : Fits(engine', tablesTold', i, journal'[i])
         /\ Len(journal) \in Nat /\ Len(events) \in Nat /\ Len(journal') = Len(journal) + Len(events)
         /\ \A i \in 1 .. Len(journal) : journal'[i] = journal[i]
<1> HIDE DEF Events
<1>1. journal \in Seq(Events) /\ Once(journal) /\ \A i \in 1 .. Len(journal) : Fits(engine, tablesTold, i, journal[i])
  BY DEF JournalInv
<1>2. /\ journal' \in Seq(Events)
      /\ Len(journal) \in Nat /\ Len(events) \in Nat /\ Len(journal') = Len(journal) + Len(events)
      /\ \A i \in 1 .. Len(journal) : journal'[i] = journal[i]
      /\ \A i \in Len(journal) + 1 .. Len(journal') : journal'[i] = events[i - Len(journal)]
  BY <1>1
<1>3. ASSUME NEW i \in 1 .. Len(journal')
      PROVE  \/ i \in 1 .. Len(journal) /\ journal'[i] = journal[i]
             \/ i - Len(journal) \in 1 .. Len(events) /\ journal'[i] = events[i - Len(journal)]
                /\ i = Len(journal) + (i - Len(journal))
  BY <1>2
<1>4. Once(journal')
  <2> SUFFICES ASSUME NEW i \in 1 .. Len(journal'), NEW j \in 1 .. Len(journal'), SameEnd(journal'[i], journal'[j])
               PROVE  i = j
    BY DEF Once
  <2>1. SameEnd(journal'[j], journal'[i])
    BY DEF SameEnd
  <2>2. CASE i \in 1 .. Len(journal) /\ j \in 1 .. Len(journal)
    BY <1>1, <1>2, <2>2 DEF Once
  <2>3. CASE i - Len(journal) \in 1 .. Len(events) /\ j - Len(journal) \in 1 .. Len(events)
             /\ journal'[i] = events[i - Len(journal)] /\ journal'[j] = events[j - Len(journal)]
    <3>1. i - Len(journal) = j - Len(journal)
      BY <2>3
    <3> QED BY <1>2, <3>1
  <2> QED BY <1>3, <2>1, <2>2, <2>3
<1>5. ASSUME NEW i \in 1 .. Len(journal') PROVE Fits(engine', tablesTold', i, journal'[i])
  <2>1. CASE i \in 1 .. Len(journal) /\ journal'[i] = journal[i]
    <3>1. Fits(engine, tablesTold, i, journal[i])
      BY <1>1, <2>1
    <3> QED BY <2>1, <3>1 DEF Fits
  <2>2. CASE i - Len(journal) \in 1 .. Len(events) /\ journal'[i] = events[i - Len(journal)]
             /\ i = Len(journal) + (i - Len(journal))
    <3> DEFINE j == i - Len(journal)
    <3>1. Fits(engine', tablesTold', Len(journal) + j, events[j]) /\ i = Len(journal) + j /\ journal'[i] = events[j]
      BY <2>2
    <3> HIDE DEF j
    <3> QED BY <3>1
  <2> QED BY <1>3, <2>1, <2>2
<1> QED BY <1>2, <1>4, <1>5

\* A status that was read of the row when the run was over is what the events still tell.
LEMMA OutcomeStays ==
  ASSUME JournalInv, NEW m \in Nat, NEW n \in Nat, m <= n, n <= Len(journal), NEW s \in Terminal,
         RunTells(journal, 1 .. m, s, "queued")
  PROVE  RunTells(journal, 1 .. n, s, "queued")
<1>1. PICK i \in 1 .. m : journal[i].type = "run_finished" /\ s = journal[i].status
  BY DEF RunTells, EndsTell, Terminal
<1>2. i \in 1 .. n /\ 1 .. n \subseteq 1 .. Len(journal)
  <2>1. Len(journal) \in Nat
    BY DEF JournalInv
  <2> QED BY <2>1
<1> QED BY <1>1, <1>2 DEF RunTells, EndsTell

\* What is written stays true as the journal grows.
LEMMA Longer ==
  ASSUME ViewInv, JournalInv', Len(journal) <= Len(journal'), \A i \in 1 .. Len(journal) : journal'[i] = journal[i],
         UNCHANGED <<row, view, opening, silent>>
  PROVE  ViewInv'
<1>1. row \in Views /\ row.seq \in 0 .. Len(journal) /\ row.seq \in Nat /\ Len(journal) \in Nat /\ Len(journal') \in Nat
  <2>1. row \in Views /\ row.seq \in 0 .. Len(journal) /\ journal \in Seq(Events) /\ journal' \in Seq(Events)
    BY DEF ViewInv, RowInv, JournalInv
  <2>2. row.seq \in Nat
    BY <2>1, ViewFields
  <2> HIDE DEF Views, Events
  <2> QED BY <2>1, <2>2
<1>2. ASSUME NEW E \in SUBSET (1 .. row.seq)
      PROVE  /\ \A t, s, nothing : TableTells(journal, E, t, s, nothing) <=> TableTells(journal', E, t, s, nothing)
             /\ \A s, nothing : StepTells(journal, E, s, nothing) <=> StepTells(journal', E, s, nothing)
             /\ \A s, nothing : RunTells(journal, E, s, nothing) <=> RunTells(journal', E, s, nothing)
  <2>1. \A i \in E : journal[i] = journal'[i]
    BY <1>1
  <2> QED BY <2>1, Retold
<1>3. \A n \in 0 .. row.seq :
        /\ \A t, s, nothing : TableTells(journal, 1 .. n, t, s, nothing) <=> TableTells(journal', 1 .. n, t, s, nothing)
        /\ \A s, nothing : StepTells(journal, 1 .. n, s, nothing) <=> StepTells(journal', 1 .. n, s, nothing)
        /\ \A s, nothing : RunTells(journal, 1 .. n, s, nothing) <=> RunTells(journal', 1 .. n, s, nothing)
  <2>1. \A n \in 0 .. row.seq : 1 .. n \in SUBSET (1 .. row.seq)
    BY <1>1
  <2> QED BY <1>2, <2>1
<1>4. row.seq \in 0 .. row.seq /\ row' = row /\ row.seq \in 0 .. Len(journal')
  BY <1>1
<1>5. RowInv'
  <2>1. /\ StepTells(journal', 1 .. row.seq, row.step, "pending")
        /\ \A t \in Copied : TableTells(journal', 1 .. row.seq, t, row.tables[t], "absent")
        /\ \/ silent \/ RunTells(journal', 1 .. row.seq, row.status, "queued")
           \/ row.status = "cancelling" /\ RunTells(journal', 1 .. row.seq, "running", "queued")
    BY <1>3, <1>4 DEF ViewInv, RowInv
  <2> QED BY <1>1, <1>4, <2>1 DEF RowInv
<1>6. OpeningInv'
  <2>1. CASE opening = <<>>
    BY <2>1 DEF OpeningInv
  <2>2. CASE opening # <<>>
    <3>1. PICK o \in Openings :
            /\ opening = <<o>> /\ row.seq > 0
            /\ o.status = "cancelling" => silent \/ row.status \notin {"queued", "running"}
            /\ "steps" \in o.read => StepRead(journal, row.seq, o)
            /\ "tables" \in o.read => TablesRead(journal, row.seq, o)
            /\ "events" \in o.read => o.last \in 1 .. row.seq
      BY <2>2 DEF ViewInv, OpeningInv
    <3>2. \A n \in 1 .. row.seq : n \in 0 .. row.seq
      BY <1>1
    <3>3. StepRead(journal, row.seq, o) => StepRead(journal', row.seq, o)
      BY <1>3, <3>2 DEF StepRead
    <3>4. TablesRead(journal, row.seq, o) => TablesRead(journal', row.seq, o)
      BY <1>3, <3>2, Zenon DEF TablesRead
    <3>5. opening' = <<o>> /\ row' = row /\ silent' = silent
      BY <3>1
    <3>6. /\ row'.seq > 0 /\ (o.status = "cancelling" => silent' \/ row'.status \notin {"queued", "running"})
          /\ "steps" \in o.read => StepRead(journal', row'.seq, o)
          /\ "tables" \in o.read => TablesRead(journal', row'.seq, o)
          /\ "events" \in o.read => o.last \in 1 .. row'.seq
      BY <3>1, <3>3, <3>4, <3>5
    <3> QED BY <3>5, <3>6, Zenon DEF OpeningInv
  <2> QED BY <2>1, <2>2
<1>7. PageInv'
  <2>1. CASE view = <<>>
    BY <2>1 DEF PageInv
  <2>2. CASE view # <<>>
    <3>1. PICK v \in Views, n \in 0 .. row.seq, step0 \in StepStatus :
            /\ view = <<v>> /\ PageTells(journal, row.seq, silent, v, n, step0) /\ v.seq \in 1 .. row.seq
            /\ StepTells(journal, 1 .. v.seq, step0, "pending") \/ 1 < row.seq
            /\ v.status = "cancelling" => silent \/ row.status \notin {"queued", "running"}
      BY <2>2 DEF ViewInv, PageInv
    <3>2. v.seq \in 0 .. row.seq /\ v.seq \in 0 .. Len(journal') /\ (1 .. n) \cup (1 .. v.seq) \in SUBSET (1 .. row.seq)
      BY <1>1, <3>1
    <3>3. \A t, s, nothing : TableTells(journal, (1 .. n) \cup (1 .. v.seq), t, s, nothing)
                               <=> TableTells(journal', (1 .. n) \cup (1 .. v.seq), t, s, nothing)
      BY <1>2, <3>2
    <3>4. StatusTells(journal, row.seq, silent, v.seq, v.status) => StatusTells(journal', row.seq, silent, v.seq, v.status)
      BY <1>3, <1>4, <3>2 DEF StatusTells
    <3>5. PageTells(journal', row.seq, silent, v, n, step0)
      BY <1>3, <3>1, <3>2, <3>3, <3>4 DEF PageTells
    <3>6. StepTells(journal', 1 .. v.seq, step0, "pending") \/ 1 < row.seq
      BY <1>3, <3>1, <3>2
    <3>7. view' = <<v>> /\ row' = row /\ silent' = silent
      BY <3>1
    <3> QED BY <3>1, <3>5, <3>6, <3>7 DEF PageInv
  <2> QED BY <2>1, <2>2
<1> QED BY <1>5, <1>6, <1>7 DEF ViewInv

\* A sample is an event that fits anywhere after the plan, and ends nothing.
Samples(seq) == seq \in Seq(Events) /\ \A i \in 1 .. Len(seq) : \E key \in Copied \cup {"run"} : seq[i] = Held(key)

\* Whichever key it is of.
LEMMA HeldIs ==
  ASSUME NEW key \in Copied \cup {"run"}
  PROVE  /\ Held(key) \in Events
         /\ \A stage, told : \A i \in Nat : i > 3 => Fits(stage, told, i, Held(key))
         /\ \A e : ~ SameEnd(Held(key), e) /\ ~ SameEnd(e, Held(key))
<1>1. Held(key) = Event("overall_progress", "run", "none") \/ (Held(key) = Event("table_progress", key, "running") /\ key \in Copied)
  BY DEF Held
<1>2. CASE Held(key) = Event("overall_progress", "run", "none")
  BY <1>2 DEF Event, Events, EventTypes, Fits, SameEnd
<1>3. CASE Held(key) = Event("table_progress", key, "running") /\ key \in Copied
  BY <1>3 DEF Event, Events, EventTypes, Fits, SameEnd, RunStatus
<1> QED BY <1>1, <1>2, <1>3

\* The samples of these keys, and two such sequences joined, are samples.
LEMMA OfSamples ==
  ASSUME NEW keys, NEW key \in Copied \cup {"run"}
  PROVE  Samples(Of(keys, key))
<1> HIDE DEF Events
<1>1. Held(key) \in Events
  BY HeldIs
<1> QED BY <1>1 DEF Of, Samples

\* Samples joined are samples.
LEMMA SamplesJoin ==
  ASSUME NEW a, NEW b, Samples(a), Samples(b)
  PROVE  Samples(a \o b)
<1> HIDE DEF Events
<1>1. a \in Seq(Events) /\ b \in Seq(Events) /\ Len(a) \in Nat /\ Len(b) \in Nat
  BY DEF Samples
<1>2. /\ a \o b \in Seq(Events) /\ Len(a \o b) = Len(a) + Len(b)
      /\ \A i \in 1 .. Len(a) + Len(b) : (a \o b)[i] = IF i <= Len(a) THEN a[i] ELSE b[i - Len(a)]
  BY <1>1, ConcatProperties
<1>3. \A i \in 1 .. Len(a) + Len(b) : i \in 1 .. Len(a) \/ (i - Len(a) \in 1 .. Len(b) /\ ~ (i <= Len(a)))
  BY <1>1
<1>4. ASSUME NEW i \in 1 .. Len(a) + Len(b) PROVE \E key \in Copied \cup {"run"} : (a \o b)[i] = Held(key)
  <2>1. CASE i \in 1 .. Len(a)
    BY <1>1, <1>2, <2>1 DEF Samples
  <2>2. CASE i - Len(a) \in 1 .. Len(b) /\ ~ (i <= Len(a))
    <3>1. (a \o b)[i] = b[i - Len(a)]
      BY <1>2, <2>2
    <3> DEFINE j == i - Len(a)
    <3>2. j \in 1 .. Len(b) /\ (a \o b)[i] = b[j]
      BY <2>2, <3>1
    <3> HIDE DEF j
    <3> QED BY <3>2 DEF Samples
  <2> QED BY <1>3, <2>1, <2>2
<1> QED BY <1>2, <1>4 DEF Samples

\* Three parts, joined from either end.
LEMMA JoinedEitherWay ==
  ASSUME NEW j \in Seq(Events), NEW s \in Seq(Events), NEW x \in Seq(Events)
  PROVE  (j \o s) \o x = j \o (s \o x)
<1> DEFINE S == Events
<1>1. j \in Seq(S) /\ s \in Seq(S) /\ x \in Seq(S)
  OBVIOUS
<1> HIDE DEF S
<1> QED BY <1>1, ConcatAssociative

\* Samples go into a journal that has the plan.
LEMMA SamplesGrow ==
  ASSUME JournalInv, Len(journal) >= 3, NEW s, Samples(s), journal' = journal \o s,
         engine \in {"ending", "over"} => engine' \in {"ending", "over"}, tablesTold \subseteq tablesTold'
  PROVE  /\ journal' \in Seq(Events) /\ Once(journal')
         /\ \A i \in 1 .. Len(journal') : Fits(engine', tablesTold', i, journal'[i])
         /\ Len(journal) \in Nat /\ Len(journal') \in Nat /\ Len(journal') >= Len(journal)
         /\ \A i \in 1 .. Len(journal) : journal'[i] = journal[i]
<1> HIDE DEF Events
<1>1. s \in Seq(Events) /\ Len(s) \in Nat /\ Len(journal) \in Nat
  BY DEF Samples, JournalInv
<1>2. \A i \in 1 .. Len(s) : \E key \in Copied \cup {"run"} : s[i] = Held(key)
  BY DEF Samples
<1>3. \A i \in 1 .. Len(s) : \A e : ~ SameEnd(s[i], e) /\ ~ SameEnd(e, s[i])
  BY <1>2, HeldIs
<1>4. \A j \in 1 .. Len(s) : Fits(engine', tablesTold', Len(journal) + j, s[j])
  <2> TAKE j \in 1 .. Len(s)
  <2>1. Len(journal) + j \in Nat /\ Len(journal) + j > 3
    BY <1>1
  <2> QED BY <1>2, <2>1, HeldIs
<1>5. \A i, j \in 1 .. Len(s) : SameEnd(s[i], s[j]) => i = j
  BY <1>3
<1>6. \A i \in 1 .. Len(journal), j \in 1 .. Len(s) : ~ SameEnd(journal[i], s[j])
  BY <1>3
<1>7. /\ journal' \in Seq(Events) /\ Once(journal')
      /\ \A i \in 1 .. Len(journal') : Fits(engine', tablesTold', i, journal'[i])
      /\ Len(journal') = Len(journal) + Len(s)
      /\ \A i \in 1 .. Len(journal) : journal'[i] = journal[i]
  BY <1>1, <1>4, <1>5, <1>6, JournalGrows
<1> QED BY <1>1, <1>7

\* Begin appends run_started and step_started.
LEMMA BeginKeeps == ASSUME ViewInv, Begin PROVE ViewInv'
<1> DEFINE events == <<Event("run_started", "run", "running"), Event("step_started", "step", "running")>>
<1>1. JournalInv /\ Len(journal) = 0 /\ held = {} /\ engine = "new" /\ engine' = "planning" /\ UNCHANGED <<held, tablesTold>>
  BY DEF ViewInv, JournalInv, Begin, Pass
<1>2. journal' = journal \o events
  BY DEF Begin, Pass
<1>3. /\ events \in Seq(Events) /\ Len(events) = 2
      /\ events[1] = Event("run_started", "run", "running") /\ events[2] = Event("step_started", "step", "running")
  <2>1. Event("run_started", "run", "running") \in Events /\ Event("step_started", "step", "running") \in Events
    BY DEF Event, Events, EventTypes, RunStatus
  <2> HIDE DEF Events, Event
  <2> QED BY <2>1
<1> HIDE DEF events
<1>4. \A j \in 1 .. 2 : j = 1 \/ j = 2
  OBVIOUS
<1>5. Fits(engine', tablesTold', 1, events[1]) /\ Fits(engine', tablesTold', 2, events[2])
  BY <1>3 DEF Fits, Event
<1>6. /\ journal' \in Seq(Events) /\ Once(journal')
      /\ \A i \in 1 .. Len(journal') : Fits(engine', tablesTold', i, journal'[i])
      /\ Len(journal') = 2
      /\ \A i \in 1 .. Len(journal) : journal'[i] = journal[i]
  <2>1. \A i, j \in 1 .. Len(events) : SameEnd(events[i], events[j]) => i = j
    BY <1>3, <1>4 DEF SameEnd, Event
  <2>2. \A i \in 1 .. Len(journal), j \in 1 .. Len(events) : ~ SameEnd(journal[i], events[j])
    BY <1>1
  <2>3. \A j \in 1 .. Len(events) : Fits(engine', tablesTold', Len(journal) + j, events[j])
    BY <1>1, <1>3, <1>4, <1>5
  <2> QED BY <1>1, <1>2, <1>3, <2>1, <2>2, <2>3, JournalGrows
<1>7. JournalInv'
  <2> HIDE DEF Events
  <2> QED BY <1>1, <1>6 DEF JournalInv
<1> QED BY <1>1, <1>6, <1>7, Longer DEF Begin, Unseen

\* PlanReady appends the third event.
LEMMA PlanReadyKeeps == ASSUME ViewInv, PlanReady PROVE ViewInv'
<1> DEFINE e == Event("plan_ready", "run", "none")
           events == <<e>>
<1>1. JournalInv /\ Len(journal) = 2 /\ held = {} /\ engine = "planning" /\ engine' = "copying" /\ UNCHANGED <<held, tablesTold>>
  BY DEF ViewInv, JournalInv, PlanReady, Pass
<1>2. journal' = journal \o events
  BY DEF PlanReady, Pass
<1>3. events \in Seq(Events) /\ Len(events) = 1 /\ events[1] = e
  <2>1. e \in Events
    BY DEF Event, Events, EventTypes
  <2> HIDE DEF Events, e
  <2> QED BY <2>1
<1>4. Fits(engine', tablesTold', 3, e) /\ (\A x : ~ SameEnd(x, e) /\ ~ SameEnd(e, x))
  BY DEF Fits, Event, SameEnd
<1> HIDE DEF events, e
<1>5. \A j \in 1 .. 1 : j = 1
  OBVIOUS
<1>6. /\ journal' \in Seq(Events) /\ Once(journal')
      /\ \A i \in 1 .. Len(journal') : Fits(engine', tablesTold', i, journal'[i])
      /\ Len(journal') = 3
      /\ \A i \in 1 .. Len(journal) : journal'[i] = journal[i]
  <2>1. \A i, j \in 1 .. Len(events) : SameEnd(events[i], events[j]) => i = j
    BY <1>3, <1>5
  <2>2. \A i \in 1 .. Len(journal), j \in 1 .. Len(events) : ~ SameEnd(journal[i], events[j])
    BY <1>3, <1>4, <1>5
  <2>3. \A j \in 1 .. Len(events) : Fits(engine', tablesTold', Len(journal) + j, events[j])
    BY <1>1, <1>3, <1>4, <1>5
  <2>4. tablesTold \subseteq tablesTold' /\ (engine \in {"ending", "over"} => engine' \in {"ending", "over"})
    BY <1>1
  <2>5. /\ journal' \in Seq(Events) /\ Once(journal')
        /\ \A i \in 1 .. Len(journal') : Fits(engine', tablesTold', i, journal'[i])
        /\ Len(journal') = Len(journal) + Len(events)
        /\ \A i \in 1 .. Len(journal) : journal'[i] = journal[i]
    BY <1>1, <1>2, <1>3, <2>1, <2>2, <2>3, <2>4, JournalGrows
  <2> QED BY <1>1, <1>3, <2>5
<1>7. JournalInv'
  <2> HIDE DEF Events
  <2> QED BY <1>1, <1>6 DEF JournalInv
<1> QED BY <1>1, <1>6, <1>7, Longer DEF PlanReady, Unseen

\* Progress and flushed samples: the rest of the invariant.
LEMMA SampledKeeps ==
  ASSUME ViewInv, NEW s, Samples(s), journal' = journal \o s, Len(journal) >= 3,
         engine' \in {"copying", "ending", "over"}, engine \in {"ending", "over"} => engine' \in {"ending", "over"},
         tablesTold' = tablesTold, held' \in SUBSET (Copied \cup {"run"}),
         held' # {} => engine' \in {"copying", "ending"}, Unseen
  PROVE  ViewInv'
<1>1. JournalInv
  BY DEF ViewInv
<1>2. /\ journal' \in Seq(Events) /\ Once(journal')
      /\ \A i \in 1 .. Len(journal') : Fits(engine', tablesTold', i, journal'[i])
      /\ Len(journal) \in Nat /\ Len(journal') \in Nat /\ Len(journal') >= Len(journal)
      /\ \A i \in 1 .. Len(journal) : journal'[i] = journal[i]
  BY <1>1, SamplesGrow
<1>3. JournalInv'
  <2> HIDE DEF Events
  <2>1. tablesTold \in SUBSET Copied
    BY <1>1 DEF JournalInv
  <2> QED BY <1>2, <2>1 DEF JournalInv
<1> QED BY <1>2, <1>3, Longer DEF Unseen

\* Progress appends what goes through of a table's sample and the overall one.
LEMMA ProgressKeeps == ASSUME ViewInv, NEW t \in Copied, Progress(t) PROVE ViewInv'
<1>1. PICK due \in SUBSET {t, "run"} : Sample(t, due)
  BY DEF Progress
<1> DEFINE now == {key \in {t, "run"} : key \in due \/ key \notin passed}
<1>2. journal' = journal \o Of(now, t) \o Of(now, "run") /\ held' = (held \cup {t, "run"}) \ now
  BY <1>1 DEF Sample
<1>3. Samples(Of(now, t)) /\ Samples(Of(now, "run"))
  <2> HIDE DEF now
  <2> QED BY OfSamples
<1>4. JournalInv /\ engine = "copying" /\ engine' = "copying" /\ tablesTold' = tablesTold /\ Unseen
      /\ Len(journal) >= 3 /\ journal \in Seq(Events) /\ held \in SUBSET (Copied \cup {"run"})
  BY DEF ViewInv, JournalInv, Progress
<1> HIDE DEF now
<1>5. journal' = journal \o (Of(now, t) \o Of(now, "run"))
  <2>1. Of(now, t) \in Seq(Events) /\ Of(now, "run") \in Seq(Events)
    BY <1>3 DEF Samples
  <2>2. (journal \o Of(now, t)) \o Of(now, "run") = journal \o (Of(now, t) \o Of(now, "run"))
    BY <1>4, <2>1, JoinedEitherWay, Zenon
  <2> QED BY <1>2, <2>2
<1>6. Samples(Of(now, t) \o Of(now, "run"))
  BY <1>3, SamplesJoin
<1>7. held' \in SUBSET (Copied \cup {"run"})
  BY <1>2, <1>4
<1> QED BY <1>4, <1>5, <1>6, <1>7, SampledKeeps

\* Flush appends what is held, in any order, after what ended.
LEMMA FlushKeeps == ASSUME ViewInv, Flush PROVE ViewInv'
<1>1. PICK keys \in SetToSeqs(held) : journal' = journal \o [i \in DOMAIN keys |-> Held(keys[i])]
  BY DEF Flush
<1>2. JournalInv /\ engine = "ending" /\ engine' = "over" /\ tablesTold' = tablesTold /\ held' = {} /\ Unseen
      /\ journal \in Seq(Events) /\ held \in SUBSET (Copied \cup {"run"})
  BY DEF ViewInv, JournalInv, Flush
<1> DEFINE c == Cardinality(held)
           s == [i \in DOMAIN keys |-> Held(keys[i])]
<1>3. c \in Nat
  <2>1. IsFiniteSet(Copied \cup {"run"})
    BY FS_AddElement, RunViewAssumption
  <2>2. IsFiniteSet(held)
    BY <1>2, <2>1, FS_Subset
  <2> QED BY <2>2, FS_CardinalityType
<1>4. keys \in [1 .. c -> held]
  BY DEF SetToSeqs
<1> HIDE DEF c
<1>5. Samples(s)
  <2>1. DOMAIN keys = 1 .. c /\ \A i \in 1 .. c : keys[i] \in Copied \cup {"run"}
    BY <1>2, <1>4
  <2>2. \A i \in 1 .. c : Held(keys[i]) \in Events
    BY <2>1, HeldIs
  <2> HIDE DEF Events
  <2>3. s \in [1 .. c -> Events] /\ \A i \in 1 .. c : s[i] = Held(keys[i])
    BY <2>1, <2>2
  <2> HIDE DEF s
  <2>4. s \in Seq(Events) /\ Len(s) = c
    BY <1>3, <2>3
  <2> QED BY <2>1, <2>3, <2>4 DEF Samples
<1>6. CASE held # {}
  <2>1. Len(journal) >= 3
    BY <1>2, <1>6 DEF JournalInv
  <2> HIDE DEF s
  <2>2. journal' = journal \o s
    BY <1>1 DEF s
  <2> QED BY <1>2, <1>5, <2>1, <2>2, SampledKeeps
<1>7. CASE held = {}
  <2>1. c = 0
    BY <1>7, FS_EmptySet DEF c
  <2>2. s = << >>
    <3>1. DOMAIN keys = {}
      BY <1>4, <2>1
    <3> QED BY <3>1
  <2>3. journal' = journal
    <3> HIDE DEF s
    <3>1. journal' = journal \o s
      BY <1>1 DEF s
    <3> QED BY <1>2, <2>2, <3>1, ConcatEmptySeq
  <2>4. \A i \in 1 .. Len(journal) : Fits(engine', tablesTold', i, journal[i])
    <3>1. \A i \in 1 .. Len(journal) : Fits(engine, tablesTold, i, journal[i])
      BY <1>2 DEF JournalInv
    <3> QED BY <1>2, <3>1 DEF Fits
  <2>5. Len(journal) >= 2
    BY <1>2 DEF JournalInv
  <2>6. JournalInv'
    <3> HIDE DEF Events
    <3>1. Once(journal)
      BY <1>2 DEF JournalInv
    <3>2. Once(journal') /\ \A i \in 1 .. Len(journal') : Fits(engine', tablesTold', i, journal'[i])
      BY <2>3, <2>4, <3>1
    <3> QED BY <1>2, <2>3, <2>5, <3>2 DEF JournalInv
  <2>7. Len(journal) \in Nat
    BY <1>2
  <2> QED BY <1>2, <2>3, <2>6, <2>7, Longer DEF Unseen
<1> QED BY <1>6, <1>7

\* TableFinished appends what is held of the table, and its end, once.
LEMMA TableFinishedKeeps ==
  ASSUME ViewInv, NEW t \in Copied, NEW status \in TableOver, TableFinished(t, status) PROVE ViewInv'
<1> DEFINE e == Event("table_finished", t, status)
           s == Of(held, t) \o Of(held, "run")
           events == s \o <<e>>
<1>1. /\ JournalInv /\ engine = "copying" /\ engine' = "copying" /\ t \notin tablesTold
      /\ tablesTold' = tablesTold \cup {t} /\ held' = held \ {t, "run"} /\ Unseen
      /\ Len(journal) >= 3 /\ Len(journal) \in Nat /\ journal \in Seq(Events)
      /\ held \in SUBSET (Copied \cup {"run"}) /\ tablesTold \in SUBSET Copied
  BY DEF ViewInv, JournalInv, TableFinished
<1>2. Samples(Of(held, t)) /\ Samples(Of(held, "run"))
  BY OfSamples
<1>3. Samples(s)
  BY <1>2, SamplesJoin
<1>4. e \in Events /\ <<e>> \in Seq(Events)
  <2>1. e \in Events
    BY DEF Event, Events, EventTypes, TableStatus
  <2> HIDE DEF Events, e
  <2> QED BY <2>1
<1>5. journal' = journal \o events
  <2>1. Of(held, t) \in Seq(Events) /\ Of(held, "run") \in Seq(Events) /\ s \in Seq(Events)
    BY <1>2, <1>3 DEF Samples
  <2>2. journal' = journal \o Of(held, t) \o Of(held, "run") \o <<e>>
    BY DEF TableFinished
  <2> HIDE DEF e
  <2>3. (journal \o Of(held, t)) \o Of(held, "run") = journal \o s
    BY <1>1, <2>1, JoinedEitherWay, Zenon
  <2>4. journal' = (journal \o s) \o <<e>>
    BY <2>2, <2>3
  <2> DEFINE end == <<e>>
  <2>5. journal \in Seq(Events) /\ end \in Seq(Events)
    BY <1>1, <1>4
  <2> HIDE DEF s, end
  <2>6. (journal \o s) \o end = journal \o (s \o end)
    BY <2>5, <2>1, JoinedEitherWay, Zenon
  <2> QED BY <2>4, <2>6 DEF end
<1> HIDE DEF s, e
<1>6. Len(s) \in Nat /\ s \in Seq(Events)
  BY <1>3 DEF Samples
<1>7. /\ events \in Seq(Events) /\ Len(events) = Len(s) + 1
      /\ \A i \in 1 .. Len(s) + 1 : events[i] = IF i <= Len(s) THEN s[i] ELSE e
  <2>1. Len(<<e>>) = 1 /\ <<e>>[1] = e
    OBVIOUS
  <2>2. /\ events \in Seq(Events) /\ Len(events) = Len(s) + 1
        /\ \A i \in 1 .. Len(s) + 1 : events[i] = IF i <= Len(s) THEN s[i] ELSE <<e>>[i - Len(s)]
    <3> HIDE DEF Events
    <3> QED BY <1>4, <1>6, <2>1, ConcatProperties
  <2>3. \A i \in 1 .. Len(s) + 1 : i <= Len(s) \/ i - Len(s) = 1
    BY <1>6
  <2> HIDE DEF events
  <2> QED BY <2>1, <2>2, <2>3
<1> HIDE DEF events
<1>8. ASSUME NEW i \in 1 .. Len(events)
      PROVE  (i = Len(s) + 1 /\ events[i] = e) \/ (i \in 1 .. Len(s) /\ \E key \in Copied \cup {"run"} : events[i] = Held(key))
  <2>1. i = Len(s) + 1 \/ (i \in 1 .. Len(s) /\ i <= Len(s))
    BY <1>6, <1>7
  <2>2. CASE i = Len(s) + 1
    <3>1. ~ (i <= Len(s)) /\ i \in 1 .. Len(s) + 1
      BY <1>6, <2>2
    <3> QED BY <1>7, <2>2, <3>1
  <2>3. CASE i \in 1 .. Len(s) /\ i <= Len(s)
    <3>1. events[i] = s[i]
      BY <1>7, <2>3
    <3> QED BY <1>3, <2>3, <3>1 DEF Samples
  <2> QED BY <2>1, <2>2, <2>3
<1>9. \A i, j \in 1 .. Len(events) : SameEnd(events[i], events[j]) => i = j
  BY <1>8, HeldIs
<1>10. \A i \in 1 .. Len(journal) : ~ SameEnd(journal[i], e)
  <2> TAKE i \in 1 .. Len(journal)
  <2>1. Fits(engine, tablesTold, i, journal[i])
    BY <1>1, EventAt
  <2> QED BY <1>1, <2>1 DEF SameEnd, e, Event, Fits
<1>11. \A i \in 1 .. Len(journal), j \in 1 .. Len(events) : ~ SameEnd(journal[i], events[j])
  BY <1>8, <1>10, HeldIs
<1>12. \A j \in 1 .. Len(events) : Fits(engine', tablesTold', Len(journal) + j, events[j])
  <2> TAKE j \in 1 .. Len(events)
  <2>1. Len(journal) + j \in Nat /\ Len(journal) + j > 3
    BY <1>1
  <2> DEFINE k == Len(journal) + j
  <2>2. k \in Nat /\ k > 3
    BY <2>1
  <2> HIDE DEF k
  <2>3. Fits(engine', tablesTold', k, e)
    BY <1>1, <2>2 DEF Fits, e, Event
  <2>4. Fits(engine', tablesTold', k, events[j])
    BY <1>8, <2>2, <2>3, HeldIs
  <2> QED BY <2>4 DEF k
<1>13. /\ journal' \in Seq(Events) /\ Once(journal')
       /\ \A i \in 1 .. Len(journal') : Fits(engine', tablesTold', i, journal'[i])
       /\ Len(journal') = Len(journal) + Len(events) /\ Len(events) \in Nat
       /\ \A i \in 1 .. Len(journal) : journal'[i] = journal[i]
  <2>1. tablesTold \subseteq tablesTold' /\ (engine \in {"ending", "over"} => engine' \in {"ending", "over"})
    BY <1>1
  <2>2. events \in Seq(Events)
    BY <1>7
  <2> QED BY <1>1, <1>5, <1>9, <1>11, <1>12, <2>1, <2>2, JournalGrows
<1>14. JournalInv'
  <2> HIDE DEF Events
  <2>1. Len(journal') >= 3 /\ Len(journal') >= 2
    BY <1>1, <1>13
  <2> QED BY <1>1, <1>13, <2>1 DEF JournalInv
<1>15. Len(journal) <= Len(journal')
  BY <1>1, <1>13
<1> QED BY <1>1, <1>13, <1>14, <1>15, Longer DEF Unseen

\* Finish appends the end of the step and of the run, once.
LEMMA FinishKeeps == ASSUME ViewInv, NEW status \in Terminal, Finish(status) PROVE ViewInv'
<1> DEFINE a == Event("step_finished", "step", IF status = "succeeded" THEN "ok" ELSE "failed")
           b == Event("run_finished", "run", status)
           events == <<a, b>>
<1>1. /\ JournalInv /\ engine \in {"planning", "copying"} /\ engine' = "ending" /\ UNCHANGED <<tablesTold, held>> /\ Unseen
      /\ Len(journal) >= 2 /\ Len(journal) \in Nat /\ journal \in Seq(Events) /\ journal' = journal \o events
      /\ (held # {} => Len(journal) >= 3)
  BY DEF ViewInv, JournalInv, Finish, Pass
<1>2. a \in Events /\ b \in Events
  BY DEF Event, Events, EventTypes, StepStatus, RunStatus, Terminal
<1>3. \A i \in Nat : i > 2 => Fits(engine', tablesTold', i, a) /\ Fits(engine', tablesTold', i, b)
  BY <1>1 DEF Fits, Event, Terminal
<1>4. a.type = "step_finished" /\ b.type = "run_finished"
  BY DEF Event
<1> HIDE DEF a, b
<1>5. events \in Seq(Events) /\ Len(events) = 2 /\ events[1] = a /\ events[2] = b
  <2> HIDE DEF Events
  <2> QED BY <1>2
<1> HIDE DEF events
<1>6. \A j \in 1 .. 2 : j = 1 \/ j = 2
  OBVIOUS
<1>7. \A i, j \in 1 .. Len(events) : SameEnd(events[i], events[j]) => i = j
  BY <1>4, <1>5, <1>6 DEF SameEnd
<1>8. \A i \in 1 .. Len(journal), j \in 1 .. Len(events) : ~ SameEnd(journal[i], events[j])
  <2> TAKE i \in 1 .. Len(journal), j \in 1 .. Len(events)
  <2>1. journal[i].type \notin {"step_finished", "run_finished"}
    BY <1>1, EventAt DEF Fits
  <2> QED BY <1>4, <1>5, <1>6, <2>1 DEF SameEnd
<1>9. \A j \in 1 .. Len(events) : Fits(engine', tablesTold', Len(journal) + j, events[j])
  <2> TAKE j \in 1 .. Len(events)
  <2>1. Len(journal) + j \in Nat /\ Len(journal) + j > 2
    BY <1>1, <1>5
  <2> QED BY <1>3, <1>5, <1>6, <2>1
<1>10. /\ journal' \in Seq(Events) /\ Once(journal')
       /\ \A i \in 1 .. Len(journal') : Fits(engine', tablesTold', i, journal'[i])
       /\ Len(journal') = Len(journal) + Len(events)
       /\ \A i \in 1 .. Len(journal) : journal'[i] = journal[i]
  <2>1. tablesTold \subseteq tablesTold' /\ (engine \in {"ending", "over"} => engine' \in {"ending", "over"})
    BY <1>1
  <2> QED BY <1>1, <1>5, <1>7, <1>8, <1>9, <2>1, JournalGrows
<1>11. JournalInv'
  <2> HIDE DEF Events
  <2>1. tablesTold \in SUBSET Copied /\ held \in SUBSET (Copied \cup {"run"})
    BY <1>1 DEF JournalInv
  <2>2. Len(journal') >= 2 /\ (held # {} => Len(journal') >= 3)
    BY <1>1, <1>5, <1>10
  <2> QED BY <1>1, <1>10, <2>1, <2>2 DEF JournalInv
<1>12. Len(journal) <= Len(journal')
  BY <1>1, <1>5, <1>10
<1> QED BY <1>1, <1>10, <1>11, <1>12, Longer DEF Unseen

-----------------------------------------------------------------------------
(* The rows move on, under a page.                                         *)

\* What a page and its snapshot have of earlier rows stays true of later ones.
LEMMA RowMoves ==
  ASSUME ViewInv, RowInv', row'.seq >= row.seq, silent => silent', silent' \in BOOLEAN,
         row'.status \in {"queued", "running"} => silent' \/ row.status \in {"queued", "running"},
         UNCHANGED <<engine, tablesTold, held, journal, view, opening>>
  PROVE  ViewInv'
<1> DEFINE m == row.seq
           n1 == row'.seq
<1>1. m \in Nat /\ n1 \in Nat /\ m <= n1 /\ n1 <= Len(journal) /\ Len(journal) \in Nat /\ journal' = journal
  <2>1. row \in Views /\ row' \in Views /\ journal \in Seq(Events) /\ row'.seq \in 0 .. Len(journal')
    BY DEF ViewInv, RowInv, JournalInv
  <2>2. m \in Nat /\ n1 \in Nat
    BY <2>1, ViewFields
  <2> QED BY <2>1, <2>2
<1>2. JournalInv /\ JournalInv'
  BY DEF ViewInv, JournalInv
<1>3. OpeningInv'
  <2>1. CASE opening = <<>>
    BY <2>1 DEF OpeningInv
  <2>2. CASE opening # <<>>
    <3>1. PICK o \in Openings :
            /\ opening = <<o>> /\ row.seq > 0
            /\ o.status = "cancelling" => silent \/ row.status \notin {"queued", "running"}
            /\ "steps" \in o.read => StepRead(journal, row.seq, o)
            /\ "tables" \in o.read => TablesRead(journal, row.seq, o)
            /\ "events" \in o.read => o.last \in 1 .. row.seq
      BY <2>2 DEF ViewInv, OpeningInv
    <3>2. \A n \in 1 .. m : n \in 1 .. n1
      BY <1>1
    <3>3. StepRead(journal, m, o) => StepRead(journal, n1, o)
      BY <3>2 DEF StepRead
    <3>4. TablesRead(journal, m, o) => TablesRead(journal, n1, o)
      BY <3>2, Zenon DEF TablesRead
    <3>5. n1 > 0 /\ ("events" \in o.read => o.last \in 1 .. n1)
      BY <1>1, <3>1, <3>2
    <3>6. opening' = <<o>> /\ journal' = journal
          /\ (o.status = "cancelling" => silent' \/ row'.status \notin {"queued", "running"})
      BY <3>1
    <3> QED BY <3>1, <3>3, <3>4, <3>5, <3>6, Zenon DEF OpeningInv
  <2> QED BY <2>1, <2>2
<1>4. PageInv'
  <2>1. CASE view = <<>>
    BY <2>1 DEF PageInv
  <2>2. CASE view # <<>>
    <3>1. PICK v \in Views, n \in 0 .. row.seq, step0 \in StepStatus :
            /\ view = <<v>> /\ PageTells(journal, row.seq, silent, v, n, step0) /\ v.seq \in 1 .. row.seq
            /\ StepTells(journal, 1 .. v.seq, step0, "pending") \/ 1 < row.seq
            /\ v.status = "cancelling" => silent \/ row.status \notin {"queued", "running"}
      BY <2>2 DEF ViewInv, PageInv
    <3>2. n \in 0 .. n1 /\ v.seq \in 1 .. n1 /\ (1 < m => 1 < n1)
      BY <1>1, <3>1
    <3>3. v.status \in Terminal /\ RunTells(journal, 1 .. m, v.status, "queued") => RunTells(journal, 1 .. n1, v.status, "queued")
      <4> HIDE DEF m, n1
      <4> QED BY <1>1, <1>2, OutcomeStays
    <3>4. StatusTells(journal, m, silent, v.seq, v.status) => StatusTells(journal, n1, silent', v.seq, v.status)
      BY <3>3 DEF StatusTells
    <3>5. PageTells(journal', n1, silent', v, n, step0)
      BY <1>1, <3>1, <3>4 DEF PageTells
    <3>6. /\ StepTells(journal', 1 .. v.seq, step0, "pending") \/ 1 < n1
          /\ v.status = "cancelling" => silent' \/ row'.status \notin {"queued", "running"}
          /\ view' = <<v>>
      BY <3>1, <3>2
    <3> QED BY <3>2, <3>5, <3>6, Zenon DEF PageInv
  <2> QED BY <2>1, <2>2
<1> QED BY <1>2, <1>3, <1>4 DEF ViewInv

\* StoreBatch moves the rows on to the end of its batch.
LEMMA StoreBatchKeeps == ASSUME ViewInv, StoreBatch PROVE ViewInv'
<1> DEFINE m == row.seq
<1>1. JournalInv /\ RowInv /\ silent \in BOOLEAN
  BY DEF ViewInv
<1>2. PICK n \in m + 1 .. Len(journal) :
        row' = Upsert(row, FoldLeft(Project, NoPatch, SubSeq(journal, m + 1, n)), n)
  BY DEF StoreBatch
<1> DEFINE p == FoldLeft(Project, NoPatch, SubSeq(journal, m + 1, n))
<1>3. m \in Nat /\ n \in Nat /\ m <= n /\ n <= Len(journal) /\ n \in 0 .. Len(journal) /\ n >= m
  <2>1. row \in Views /\ Len(journal) \in Nat
    BY <1>1 DEF RowInv, JournalInv
  <2>2. m \in Nat
    BY <2>1, ViewFields
  <2> QED BY <2>1, <2>2
<1>4. PatchTells(p, m, n)
  <2> HIDE DEF m
  <2> QED BY <1>1, <1>3, BatchTells
<1> HIDE DEF p
<1>5. /\ row' \in Views /\ row'.seq = n
      /\ StepTells(journal, 1 .. n, row'.step, "pending")
      /\ \A t \in Copied : TableTells(journal, 1 .. n, t, row'.tables[t], "absent")
      /\ \/ silent \/ RunTells(journal, 1 .. n, row'.status, "queued")
         \/ row'.status = "cancelling" /\ RunTells(journal, 1 .. n, "running", "queued")
      /\ row'.status \in {"queued", "running"} => silent \/ row.status \in {"queued", "running"}
  <2>1. row' = Upsert(row, p, n)
    BY <1>2 DEF p
  <2> QED BY <1>1, <1>2, <1>4, <2>1, RowsFollow
<1>6. UNCHANGED <<engine, tablesTold, held, journal, view, opening, silent>>
  BY DEF StoreBatch
<1>7. RowInv'
  BY <1>3, <1>5, <1>6 DEF RowInv
<1>8. row'.seq >= row.seq
  BY <1>3, <1>5
<1> QED BY <1>1, <1>5, <1>6, <1>7, <1>8, RowMoves

\* Surprise moves the status alone.
LEMMA SurpriseKeeps == ASSUME ViewInv, Surprise PROVE ViewInv'
<1>1. RowInv /\ silent \in BOOLEAN /\ row \in Views /\ row.seq \in Nat
  <2>1. RowInv /\ silent \in BOOLEAN /\ row \in Views
    BY DEF ViewInv, RowInv
  <2> QED BY <2>1, ViewFields
<1>2. UNCHANGED <<engine, tablesTold, held, journal, view, opening>>
  BY DEF Surprise
<1>3. CASE row.status = "running" /\ row' = [row EXCEPT !.status = "cancelling"] /\ UNCHANGED silent
  <2>1. row' \in Views /\ row'.status = "cancelling" /\ row'.step = row.step /\ row'.tables = row.tables /\ row'.seq = row.seq
    <3>1. "cancelling" \in RunStatus
      BY DEF RunStatus
    <3> QED BY <1>1, <1>3, <3>1, ViewFields
  <2>2. silent \/ RunTells(journal, 1 .. row.seq, "running", "queued")
    BY <1>1, <1>3 DEF RowInv
  <2>3. RowInv'
    BY <1>1, <1>2, <1>3, <2>1, <2>2 DEF RowInv
  <2>4. row'.seq >= row.seq
    BY <1>1, <2>1
  <2> QED BY <1>1, <1>2, <1>3, <2>1, <2>3, <2>4, RowMoves
<1>4. CASE row' = [row EXCEPT !.status = "failed"] /\ silent' = TRUE
  <2>1. row' \in Views /\ row'.status = "failed" /\ row'.step = row.step /\ row'.tables = row.tables /\ row'.seq = row.seq
    <3>1. "failed" \in RunStatus
      BY DEF RunStatus, Terminal
    <3> QED BY <1>1, <1>4, <3>1, ViewFields
  <2>2. RowInv'
    BY <1>1, <1>2, <1>4, <2>1 DEF RowInv
  <2>3. row'.seq >= row.seq
    BY <1>1, <2>1
  <2> QED BY <1>2, <1>4, <2>1, <2>2, <2>3, RowMoves
<1> QED BY <1>3, <1>4 DEF Surprise

-----------------------------------------------------------------------------
(* The page opens and follows.                                             *)

\* A snapshot being read is a record of the right kind.
LEMMA OpeningFields ==
  ASSUME NEW o \in Openings
  PROVE  /\ o.status \in RunStatus /\ o.read \in SUBSET {"steps", "tables", "events"}
         /\ o.step \in StepStatus \cup {"none"} /\ o.tables \in [Copied -> TableStatus] \cup {<<>>} /\ o.last \in Nat
<1> HIDE DEF RunStatus, StepStatus, TableStatus
<1> QED BY DEF Openings

\* What a snapshot is when it has read the step, the tables or the events.
ReadAs(o, what, step, tables, last) ==
  LET seen == [o EXCEPT !.read = @ \cup {what}]
      a == [seen EXCEPT !.step = step]
      b == [seen EXCEPT !.tables = tables]
      c == [seen EXCEPT !.last = last]
  IN  /\ a \in Openings /\ b \in Openings /\ c \in Openings
      /\ a.read = o.read \cup {what} /\ b.read = o.read \cup {what} /\ c.read = o.read \cup {what}
      /\ a.status = o.status /\ a.step = step /\ a.tables = o.tables /\ a.last = o.last
      /\ b.status = o.status /\ b.step = o.step /\ b.tables = tables /\ b.last = o.last
      /\ c.status = o.status /\ c.step = o.step /\ c.tables = o.tables /\ c.last = last

\* It is a snapshot, with what was read in it.
LEMMA ReadNow ==
  ASSUME NEW o \in Openings, NEW what \in {"steps", "tables", "events"},
         NEW step \in StepStatus, NEW tables \in [Copied -> TableStatus], NEW last \in Nat
  PROVE  ReadAs(o, what, step, tables, last)
<1> HIDE DEF RunStatus, StepStatus, TableStatus
<1> DEFINE reads == o.read \cup {what}
           seen == [o EXCEPT !.read = reads]
<1>1. reads \in SUBSET {"steps", "tables", "events"}
  BY OpeningFields
<1> HIDE DEF reads
<1>2. /\ seen \in Openings /\ seen.read = reads /\ seen.status = o.status /\ seen.step = o.step
      /\ seen.tables = o.tables /\ seen.last = o.last
  BY <1>1 DEF Openings
<1> HIDE DEF seen
<1>3. LET a == [seen EXCEPT !.step = step]
      IN  a \in Openings /\ a.read = seen.read /\ a.status = seen.status /\ a.step = step
          /\ a.tables = seen.tables /\ a.last = seen.last
  BY <1>2 DEF Openings
<1>4. LET b == [seen EXCEPT !.tables = tables]
      IN  b \in Openings /\ b.read = seen.read /\ b.status = seen.status /\ b.step = seen.step
          /\ b.tables = tables /\ b.last = seen.last
  BY <1>2 DEF Openings
<1>5. LET c == [seen EXCEPT !.last = last]
      IN  c \in Openings /\ c.read = seen.read /\ c.status = seen.status /\ c.step = seen.step
          /\ c.tables = seen.tables /\ c.last = last
  BY <1>2 DEF Openings
<1>6. [o EXCEPT !.read = @ \cup {what}] = seen
  BY DEF seen, reads
<1>7. /\ seen \in Openings /\ seen.read = o.read \cup {what} /\ seen.status = o.status /\ seen.step = o.step
      /\ seen.tables = o.tables /\ seen.last = o.last
  BY <1>2 DEF reads
<1> QED BY <1>3, <1>4, <1>5, <1>6, <1>7, Zenon DEF ReadAs

\* Neither the rows nor the journal move while a page opens or follows.
PageStep == UNCHANGED <<engine, tablesTold, held, journal, row, silent>>

\* So of the invariant only what is said of the page is at stake.
LEMMA OnlyThePage ==
  ASSUME ViewInv, PageStep, OpeningInv', PageInv'
  PROVE  ViewInv'
<1>1. JournalInv' /\ RowInv' /\ silent' \in BOOLEAN
  BY DEF ViewInv, PageStep, JournalInv, RowInv
<1> QED BY <1>1 DEF ViewInv

\* OpenPage has read the status only.
LEMMA OpenPageKeeps == ASSUME ViewInv, OpenPage PROVE ViewInv'
<1> DEFINE o == [status |-> row.status, read |-> {}, step |-> "none", tables |-> <<>>, last |-> 0]
<1>1. row \in Views /\ row.seq > 0 /\ opening' = <<o>> /\ view = <<>> /\ view' = view /\ PageStep
  BY DEF ViewInv, RowInv, OpenPage, PageStep
<1>2. o \in Openings
  <2>1. row.status \in RunStatus
    BY <1>1, ViewFields
  <2> HIDE DEF RunStatus, StepStatus, TableStatus
  <2> QED BY <2>1 DEF Openings
<1>3. o.read = {} /\ o.status = row.status
  OBVIOUS
<1> HIDE DEF o
<1>4. OpeningInv'
  BY <1>1, <1>2, <1>3, Zenon DEF OpeningInv, PageStep
<1>5. PageInv'
  BY <1>1 DEF PageInv
<1> QED BY <1>1, <1>4, <1>5, OnlyThePage

\* ReadForPage reads what the rows tell now, and they will not tell less.
LEMMA ReadForPageKeeps ==
  ASSUME ViewInv, NEW what \in {"steps", "tables", "events"}, ReadForPage(what) PROVE ViewInv'
<1>1. PICK o \in Openings :
        /\ opening = <<o>> /\ row.seq > 0
        /\ o.status = "cancelling" => silent \/ row.status \notin {"queued", "running"}
        /\ "steps" \in o.read => StepRead(journal, row.seq, o)
        /\ "tables" \in o.read => TablesRead(journal, row.seq, o)
        /\ "events" \in o.read => o.last \in 1 .. row.seq
  BY DEF ViewInv, OpeningInv, ReadForPage
<1> DEFINE last == IF row.seq < RecentEvents THEN row.seq ELSE RecentEvents
           seen == [o EXCEPT !.read = @ \cup {what}]
           a == [seen EXCEPT !.step = row.step]
           b == [seen EXCEPT !.tables = row.tables]
           c == [seen EXCEPT !.last = last]
<1>2. row \in Views /\ RowInv /\ row.seq \in Nat /\ row.step \in StepStatus /\ row.tables \in [Copied -> TableStatus]
  <2>1. row \in Views /\ RowInv
    BY DEF ViewInv, RowInv
  <2> QED BY <2>1, ViewFields
<1>3. last \in 1 .. row.seq /\ last \in Nat /\ row.seq \in 1 .. row.seq
  BY <1>1, <1>2, RunViewAssumption
<1> HIDE DEF last
<1>4. /\ a \in Openings /\ b \in Openings /\ c \in Openings
      /\ a.read = o.read \cup {what} /\ b.read = o.read \cup {what} /\ c.read = o.read \cup {what}
      /\ a.status = o.status /\ a.step = row.step /\ a.tables = o.tables /\ a.last = o.last
      /\ b.status = o.status /\ b.step = o.step /\ b.tables = row.tables /\ b.last = o.last
      /\ c.status = o.status /\ c.step = o.step /\ c.tables = o.tables /\ c.last = last
  <2>1. ReadAs(o, what, row.step, row.tables, last)
    BY <1>2, <1>3, ReadNow
  <2> QED BY <2>1, Zenon DEF ReadAs
<1>5. /\ what = "steps" => opening' = <<a>>
      /\ what = "tables" => opening' = <<b>>
      /\ what = "events" => opening' = <<c>>
  <2>1. opening[1] = o
    BY <1>1
  <2>2. /\ what = "steps" => opening' = <<[[opening[1] EXCEPT !.read = @ \cup {what}] EXCEPT !.step = row.step]>>
        /\ what = "tables" => opening' = <<[[opening[1] EXCEPT !.read = @ \cup {what}] EXCEPT !.tables = row.tables]>>
        /\ what = "events" => opening' = <<[[opening[1] EXCEPT !.read = @ \cup {what}] EXCEPT !.last = last]>>
    BY Zenon DEF ReadForPage, last
  <2> QED BY <2>1, <2>2
<1>6. PageStep /\ view' = view
  BY DEF ReadForPage, PageStep
<1> HIDE DEF a, b, c, seen
<1>7. StepRead(journal, row.seq, a)
  BY <1>2, <1>3, <1>4 DEF StepRead, RowInv
<1>8. TablesRead(journal, row.seq, b)
  BY <1>2, <1>3, <1>4 DEF TablesRead, RowInv
<1>9. ASSUME NEW x \in Openings, opening' = <<x>>, x.status = o.status,
             "steps" \in x.read => StepRead(journal, row.seq, x),
             "tables" \in x.read => TablesRead(journal, row.seq, x),
             "events" \in x.read => x.last \in 1 .. row.seq
      PROVE  OpeningInv'
  BY <1>1, <1>6, <1>9, Zenon DEF OpeningInv, PageStep
<1>10. OpeningInv'
  <2>1. CASE what = "steps"
    <3>1. \A y : y \in a.read => y \in o.read \/ y = "steps"
      BY <1>4, <2>1
    <3>2. /\ "tables" \in a.read => TablesRead(journal, row.seq, a)
          /\ "events" \in a.read => a.last \in 1 .. row.seq
      BY <1>1, <1>4, <3>1 DEF TablesRead
    <3> QED BY <1>4, <1>5, <1>7, <1>9, <2>1, <3>2
  <2>2. CASE what = "tables"
    <3>1. \A y : y \in b.read => y \in o.read \/ y = "tables"
      BY <1>4, <2>2
    <3>2. /\ "steps" \in b.read => StepRead(journal, row.seq, b)
          /\ "events" \in b.read => b.last \in 1 .. row.seq
      BY <1>1, <1>4, <3>1 DEF StepRead
    <3> QED BY <1>4, <1>5, <1>8, <1>9, <2>2, <3>2
  <2>3. CASE what = "events"
    <3>1. \A y : y \in c.read => y \in o.read \/ y = "events"
      BY <1>4, <2>3
    <3>2. /\ "steps" \in c.read => StepRead(journal, row.seq, c)
          /\ "tables" \in c.read => TablesRead(journal, row.seq, c)
      BY <1>1, <1>4, <3>1 DEF StepRead, TablesRead
    <3> QED BY <1>3, <1>4, <1>5, <1>9, <2>3, <3>2
  <2> QED BY <2>1, <2>2, <2>3
<1>11. PageInv'
  BY <1>6 DEF ViewInv, PageInv, PageStep
<1> QED BY <1>6, <1>10, <1>11, OnlyThePage

\* ShowSnapshot folds the first events again on top of rows that may have had them all.
LEMMA ShowSnapshotKeeps == ASSUME ViewInv, ShowSnapshot PROVE ViewInv'
<1>1. PICK o \in Openings :
        /\ opening = <<o>> /\ row.seq > 0
        /\ o.status = "cancelling" => silent \/ row.status \notin {"queued", "running"}
        /\ "steps" \in o.read => StepRead(journal, row.seq, o)
        /\ "tables" \in o.read => TablesRead(journal, row.seq, o)
        /\ "events" \in o.read => o.last \in 1 .. row.seq
  BY DEF ViewInv, OpeningInv, ShowSnapshot
<1> DEFINE v == [seq |-> 0, status |-> o.status, step |-> o.step, tables |-> o.tables]
           w == ApplyEvents(v, 1, o.last)
<1>2. opening[1] = o /\ JournalInv /\ RowInv /\ PageStep /\ opening' = <<>>
  BY <1>1 DEF ViewInv, ShowSnapshot, PageStep
<1>3. StepRead(journal, row.seq, o) /\ TablesRead(journal, row.seq, o) /\ o.last \in 1 .. row.seq
  <2>1. o.read = {"steps", "tables", "events"}
    BY <1>2 DEF ShowSnapshot
  <2> QED BY <1>1, <2>1
<1>4. view' = <<w>>
  <2>1. view' = <<ApplyEvents([seq |-> 0, status |-> opening[1].status, step |-> opening[1].step,
                               tables |-> opening[1].tables], 1, opening[1].last)>>
    BY Zenon DEF ShowSnapshot
  <2> QED BY <1>2, <2>1
<1>5. v \in Views /\ v.seq = 0 /\ v.status = o.status /\ v.step = o.step /\ v.tables = o.tables
  <2>1. o.status \in RunStatus /\ o.step \in StepStatus /\ o.tables \in [Copied -> TableStatus]
    BY <1>3, OpeningFields DEF StepRead, TablesRead
  <2> HIDE DEF RunStatus, StepStatus, TableStatus
  <2> QED BY <2>1 DEF Views
<1> HIDE DEF v
<1>6. PICK n \in 1 .. row.seq : \A t \in Copied : TableTells(journal, 1 .. n, t, o.tables[t], "absent")
  BY <1>3 DEF TablesRead
<1>7. PICK k \in 1 .. row.seq : StepTells(journal, 1 .. k, o.step, "pending")
  BY <1>3 DEF StepRead
<1>8. row.seq \in Nat /\ row.seq <= Len(journal) /\ Len(journal) \in Nat /\ o.step \in StepStatus
  <2>1. row \in Views /\ row.seq \in 0 .. Len(journal) /\ journal \in Seq(Events) /\ o.step \in StepStatus
    BY <1>2, <1>3 DEF RowInv, JournalInv, StepRead
  <2>2. row.seq \in Nat
    BY <2>1, ViewFields
  <2> QED BY <2>1, <2>2
<1>9. n \in 0 .. row.seq /\ o.last \in v.seq .. row.seq /\ 1 \in 1 .. v.seq + 1 /\ (1 .. n) \cup (1 .. v.seq) = 1 .. n
      /\ v.seq \in 0 .. Len(journal) /\ ~ (v.seq >= 2)
  BY <1>3, <1>5, <1>8
<1>10. PageTells(journal, row.seq, silent, v, n, o.step)
  <2>1. StatusTells(journal, row.seq, silent, v.seq, v.status)
    BY <1>5 DEF StatusTells
  <2>2. \A t \in Copied : TableTells(journal, (1 .. n) \cup (1 .. v.seq), t, v.tables[t], "absent")
    BY <1>5, <1>6, <1>9
  <2> QED BY <1>5, <1>9, <2>1, <2>2 DEF PageTells
<1>11. PageTells(journal, row.seq, silent, w, n, o.step) /\ w.seq = o.last /\ (w.status = "cancelling" => o.status = "cancelling")
  <2>1. LET x == ApplyEvents(v, 1, o.last)
        IN  PageTells(journal, row.seq, silent, x, n, o.step) /\ x.seq = o.last /\ (x.status = "cancelling" => v.status = "cancelling")
    BY <1>2, <1>8, <1>9, <1>10, FrameTells
  <2> QED BY <1>5, <2>1
<1> HIDE DEF w
<1>12. StepTells(journal, 1 .. w.seq, o.step, "pending") \/ 1 < row.seq
  <2>1. CASE row.seq = 1
    <3>1. k = 1 /\ w.seq = 1
      BY <1>3, <1>11, <2>1
    <3> QED BY <1>7, <3>1
  <2> QED BY <1>1, <1>8, <2>1
<1>13. w \in Views
  BY <1>11 DEF PageTells
<1>14. PageInv'
  <2>1. /\ n \in 0 .. row'.seq /\ o.step \in StepStatus /\ w.seq \in 1 .. row'.seq
        /\ PageTells(journal', row'.seq, silent', w, n, o.step)
        /\ StepTells(journal', 1 .. w.seq, o.step, "pending") \/ 1 < row'.seq
        /\ w.status = "cancelling" => silent' \/ row'.status \notin {"queued", "running"}
    BY <1>1, <1>2, <1>3, <1>8, <1>9, <1>11, <1>12 DEF PageStep
  <2> QED BY <1>4, <1>13, <2>1, Zenon DEF PageInv
<1>15. OpeningInv'
  BY <1>2 DEF OpeningInv
<1> QED BY <1>2, <1>14, <1>15, OnlyThePage

\* LiveEvents folds a frame, which may begin with events the page has.
LEMMA LiveEventsKeeps == ASSUME ViewInv, LiveEvents PROVE ViewInv'
<1>1. PICK v \in Views, n \in 0 .. row.seq, step0 \in StepStatus :
        /\ view = <<v>> /\ PageTells(journal, row.seq, silent, v, n, step0) /\ v.seq \in 1 .. row.seq
        /\ StepTells(journal, 1 .. v.seq, step0, "pending") \/ 1 < row.seq
        /\ v.status = "cancelling" => silent \/ row.status \notin {"queued", "running"}
  BY DEF ViewInv, PageInv, LiveEvents
<1>2. view[1] = v /\ JournalInv /\ RowInv /\ PageStep /\ opening' = opening
  BY <1>1 DEF ViewInv, LiveEvents, PageStep
<1>3. PICK first \in {1, v.seq + 1}, last \in v.seq + 1 .. row.seq : view' = <<ApplyEvents(v, first, last)>>
  BY <1>2 DEF LiveEvents
<1>4. v.seq \in Nat /\ row.seq \in Nat
  <2>1. row \in Views
    BY <1>2 DEF RowInv
  <2> QED BY <2>1, ViewFields
<1>5. first \in 1 .. v.seq + 1 /\ last \in v.seq .. row.seq /\ last \in 1 .. row.seq /\ 1 < row.seq
  BY <1>1, <1>3, <1>4
<1> DEFINE w == ApplyEvents(v, first, last)
<1>6. PageTells(journal, row.seq, silent, w, n, step0) /\ w.seq = last /\ (w.status = "cancelling" => v.status = "cancelling")
  BY <1>1, <1>2, <1>5, FrameTells
<1>7. view' = <<w>>
  BY <1>3
<1> HIDE DEF w
<1>8. w \in Views
  BY <1>6 DEF PageTells
<1>9. PageInv'
  <2>1. /\ n \in 0 .. row'.seq /\ w.seq \in 1 .. row'.seq
        /\ PageTells(journal', row'.seq, silent', w, n, step0)
        /\ 1 < row'.seq
        /\ w.status = "cancelling" => silent' \/ row'.status \notin {"queued", "running"}
    BY <1>1, <1>2, <1>5, <1>6 DEF PageStep
  <2> QED BY <1>7, <1>8, <2>1, Zenon DEF PageInv
<1>10. OpeningInv'
  <2>1. OpeningInv
    BY DEF ViewInv
  <2> QED BY <1>2, <2>1 DEF OpeningInv, PageStep
<1> QED BY <1>2, <1>9, <1>10, OnlyThePage

\* What events tell of a run that has begun.
LEMMA RunTold ==
  ASSUME JournalInv, NEW k \in Nat, 1 <= k, k <= Len(journal)
  PROVE  /\ \A s : RunTells(journal, 1 .. k, s, "queued") => s = "running" \/ s \in Terminal
         /\ RunTells(journal, 1 .. k, "running", "queued") <=> \A i \in 1 .. k : journal[i].type # "run_finished"
<1>1. 1 \in 1 .. k /\ 1 \in 1 .. Len(journal) /\ 1 .. k \subseteq 1 .. Len(journal)
  <2>1. Len(journal) \in Nat
    BY DEF JournalInv
  <2> QED BY <2>1
<1>2. journal[1].type = "run_started"
  BY <1>1, EventIs
<1>3. \A i \in 1 .. k : journal[i].type = "run_finished" => journal[i].status \in Terminal
  BY <1>1, EventIs
<1>4. "running" \notin Terminal
  BY DEF Terminal
<1>5. ASSUME NEW s, RunTells(journal, 1 .. k, s, "queued") PROVE s = "running" \/ s \in Terminal
  BY <1>1, <1>2, <1>3, <1>5 DEF RunTells, EndsTell
<1>6. CASE \E i \in 1 .. k : journal[i].type = "run_finished"
  <2>1. ~ RunTells(journal, 1 .. k, "running", "queued")
    BY <1>3, <1>4, <1>6 DEF RunTells, EndsTell
  <2> QED BY <1>5, <1>6, <2>1
<1>7. CASE \A i \in 1 .. k : journal[i].type # "run_finished"
  <2>1. RunTells(journal, 1 .. k, "running", "queued")
    BY <1>1, <1>2, <1>7 DEF RunTells, EndsTell
  <2> QED BY <1>5, <1>7, <2>1
<1> QED BY <1>6, <1>7

\* TakeRunRow moves the status forward to what the row says or said.
LEMMA TakeRunRowKeeps == ASSUME ViewInv, TakeRunRow PROVE ViewInv'
<1>1. PICK v \in Views, n \in 0 .. row.seq, step0 \in StepStatus :
        /\ view = <<v>> /\ PageTells(journal, row.seq, silent, v, n, step0) /\ v.seq \in 1 .. row.seq
        /\ StepTells(journal, 1 .. v.seq, step0, "pending") \/ 1 < row.seq
        /\ v.status = "cancelling" => silent \/ row.status \notin {"queued", "running"}
  BY DEF ViewInv, PageInv, TakeRunRow
<1>2. view[1] = v /\ JournalInv /\ RowInv /\ PageStep /\ opening' = opening
  BY <1>1 DEF ViewInv, TakeRunRow, PageStep
<1>3. PICK status \in {"queued", "running", row.status} :
        Rank(status) > Rank(v.status) /\ view' = <<[v EXCEPT !.status = status]>>
  BY <1>2 DEF TakeRunRow
<1> DEFINE w == [v EXCEPT !.status = status]
<1>4. /\ v.seq \in Nat /\ row.seq \in Nat /\ row.seq \in 0 .. Len(journal) /\ Len(journal) \in Nat
      /\ v.status \in RunStatus /\ row.status \in RunStatus
  <2>1. row \in Views /\ row.seq \in 0 .. Len(journal) /\ journal \in Seq(Events)
    BY <1>2 DEF RowInv, JournalInv
  <2> QED BY <2>1, ViewFields
<1>5. w \in Views /\ w.status = status /\ w.step = v.step /\ w.tables = v.tables /\ w.seq = v.seq
  <2>1. status \in RunStatus
    BY <1>3, <1>4 DEF RunStatus
  <2> QED BY <2>1, ViewFields
<1>6. view' = <<w>>
  BY <1>3
<1> HIDE DEF w
<1> DEFINE k == v.seq
<1>7. k \in Nat /\ 1 <= k /\ k <= row.seq /\ k <= Len(journal) /\ 1 <= row.seq /\ row.seq <= Len(journal)
      /\ (\A i \in 1 .. k : i \in 1 .. row.seq) /\ k # 0
  BY <1>1, <1>4
<1>8. StatusTells(journal, row.seq, silent, k, v.status)
  BY <1>1 DEF PageTells
<1> HIDE DEF k
<1>9. silent \/ v.status \in {"running", "cancelling"} \cup Terminal
  BY <1>2, <1>7, <1>8, RunTold DEF StatusTells
<1>10. silent \/ status = row.status
  <2>1. v.status \in {"running", "cancelling"} \cup Terminal => Rank(v.status) \in {1, 2, 3}
    BY DEF Rank, Terminal
  <2>2. Rank("queued") = 0 /\ Rank("running") = 1
    BY DEF Rank, Terminal
  <2> QED BY <1>3, <1>9, <2>1, <2>2
<1>11. StatusTells(journal, row.seq, silent, k, status)
  <2>1. CASE silent
    BY <2>1 DEF StatusTells
  <2>2. CASE ~ silent /\ RunTells(journal, 1 .. row.seq, row.status, "queued")
    <3>1. row.status = "running" \/ row.status \in Terminal
      BY <1>2, <1>4, <1>7, <2>2, RunTold
    <3>2. CASE row.status \in Terminal
      BY <1>10, <2>2, <3>2 DEF StatusTells
    <3>3. CASE row.status = "running"
      <4>1. RunTells(journal, 1 .. k, "running", "queued")
        BY <1>2, <1>4, <1>7, <2>2, <3>3, RunTold
      <4> QED BY <1>10, <2>2, <3>3, <4>1 DEF StatusTells
    <3> QED BY <3>1, <3>2, <3>3
  <2>3. CASE ~ silent /\ row.status = "cancelling" /\ RunTells(journal, 1 .. row.seq, "running", "queued")
    <3>1. RunTells(journal, 1 .. k, "running", "queued")
      BY <1>2, <1>4, <1>7, <2>3, RunTold
    <3> QED BY <1>10, <2>3, <3>1 DEF StatusTells
  <2> QED BY <1>2, <2>1, <2>2, <2>3 DEF RowInv
<1>12. PageTells(journal, row.seq, silent, w, n, step0)
  BY <1>1, <1>5, <1>11 DEF PageTells, k
<1>13. w.status = "cancelling" => silent \/ row.status \notin {"queued", "running"}
  BY <1>5, <1>10
<1>14. PageInv'
  <2>1. /\ n \in 0 .. row'.seq /\ w.seq \in 1 .. row'.seq
        /\ PageTells(journal', row'.seq, silent', w, n, step0)
        /\ StepTells(journal', 1 .. w.seq, step0, "pending") \/ 1 < row'.seq
        /\ w.status = "cancelling" => silent' \/ row'.status \notin {"queued", "running"}
    BY <1>1, <1>2, <1>5, <1>12, <1>13 DEF PageStep
  <2> QED BY <1>5, <1>6, <2>1, Zenon DEF PageInv
<1>15. OpeningInv'
  <2>1. OpeningInv
    BY DEF ViewInv
  <2> QED BY <1>2, <2>1 DEF OpeningInv, PageStep
<1> QED BY <1>2, <1>14, <1>15, OnlyThePage

-----------------------------------------------------------------------------
(* The invariant, and what it is for.                                      *)

\* Nothing was said, and nothing is shown.
LEMMA ViewStarts == RunViewInit => ViewInv
<1> SUFFICES ASSUME RunViewInit PROVE ViewInv
  OBVIOUS
<1>1. journal = <<>> /\ engine = "new" /\ held = {} /\ tablesTold = {} /\ view = <<>> /\ opening = <<>> /\ silent = FALSE
      /\ row = Untold
  BY DEF RunViewInit
<1>2. Len(journal) = 0 /\ journal \in Seq(Events)
  BY <1>1
<1>3. JournalInv
  BY <1>1, <1>2 DEF JournalInv, Once
<1>4. /\ row.seq = 0 /\ row.status = "queued" /\ row.step = "pending" /\ row.tables = [t \in Copied |-> "absent"]
      /\ row \in Views
  BY <1>1 DEF Untold, Views, RunStatus, StepStatus, TableStatus
<1>5. RowInv
  <2>1. 1 .. row.seq = {} /\ row.seq \in 0 .. Len(journal)
    BY <1>2, <1>4
  <2> QED BY <1>4, <2>1 DEF RowInv, StepTells, RunTells, EndsTell, TableTells
<1> QED BY <1>1, <1>3, <1>5 DEF ViewInv, OpeningInv, PageInv

\* A step that changes nothing keeps it.
LEMMA ViewStutters == ASSUME ViewInv, UNCHANGED viewVars PROVE ViewInv'
  BY DEF viewVars, ViewInv, JournalInv, RowInv, OpeningInv, PageInv

\* The journal is in order, and the rows, a snapshot being read and the page tell of their
\* events what those tell: the invariant of RunView holds at every step.
THEOREM ViewInductive == RunViewSpec => []ViewInv
<1>1. RunViewInit => ViewInv
  BY ViewStarts
<1>2. ViewInv /\ [RunViewNext]_viewVars => ViewInv'
  <2> SUFFICES ASSUME ViewInv, [RunViewNext]_viewVars PROVE ViewInv'
    OBVIOUS
  <2>1. CASE Begin BY <2>1, BeginKeeps
  <2>2. CASE PlanReady BY <2>2, PlanReadyKeeps
  <2>3. CASE Flush BY <2>3, FlushKeeps
  <2>4. CASE \E t \in Copied : Progress(t) BY <2>4, ProgressKeeps
  <2>5. CASE \E t \in Copied : \E status \in TableOver : TableFinished(t, status) BY <2>5, TableFinishedKeeps
  <2>6. CASE \E status \in Terminal : Finish(status) BY <2>6, FinishKeeps
  <2>7. CASE StoreBatch BY <2>7, StoreBatchKeeps
  <2>8. CASE Surprise BY <2>8, SurpriseKeeps
  <2>9. CASE OpenPage BY <2>9, OpenPageKeeps
  <2>10. CASE ShowSnapshot BY <2>10, ShowSnapshotKeeps
  <2>11. CASE LiveEvents BY <2>11, LiveEventsKeeps
  <2>12. CASE TakeRunRow BY <2>12, TakeRunRowKeeps
  <2>13. CASE \E what \in {"steps", "tables", "events"} : ReadForPage(what) BY <2>13, ReadForPageKeeps
  <2>14. CASE UNCHANGED viewVars BY <2>14, ViewStutters
  <2> QED BY <2>1, <2>2, <2>3, <2>4, <2>5, <2>6, <2>7, <2>8, <2>9, <2>10, <2>11, <2>12, <2>13, <2>14 DEF RunViewNext
<1> QED BY <1>1, <1>2, PTL DEF RunViewSpec

\* At the same seq the rows and the page have the same events, which tell one thing.
LEMMA FoldsMeet == ViewInv => ViewAgrees
<1> SUFFICES ASSUME ViewInv, view # <<>>, view[1].seq = row.seq
             PROVE  /\ view[1].step = row.step /\ view[1].tables = row.tables
                    /\ view[1].status = row.status \/ row.status = "cancelling" \/ silent
  BY DEF ViewAgrees
<1>1. PICK v \in Views, n \in 0 .. row.seq, step0 \in StepStatus :
        /\ view = <<v>> /\ PageTells(journal, row.seq, silent, v, n, step0) /\ v.seq \in 1 .. row.seq
        /\ StepTells(journal, 1 .. v.seq, step0, "pending") \/ 1 < row.seq
        /\ v.status = "cancelling" => silent \/ row.status \notin {"queued", "running"}
  BY DEF ViewInv, PageInv
<1> DEFINE k == row.seq
           E == 1 .. k
<1>2. view[1] = v /\ v.seq = k /\ JournalInv /\ RowInv
  BY <1>1 DEF ViewInv
<1>3. /\ k \in Nat /\ 1 <= k /\ k <= Len(journal) /\ E \in SUBSET (1 .. Len(journal)) /\ (1 .. n) \cup E = E
      /\ v.tables \in [Copied -> TableStatus] /\ row.tables \in [Copied -> TableStatus] /\ k # 0
  <2>1. row \in Views /\ k \in 0 .. Len(journal) /\ journal \in Seq(Events)
    BY <1>2 DEF RowInv, JournalInv
  <2>2. k \in Nat /\ v.tables \in [Copied -> TableStatus] /\ row.tables \in [Copied -> TableStatus]
    BY <2>1, ViewFields
  <2>3. Len(journal) \in Nat /\ k <= Len(journal) /\ 1 <= k /\ n <= k /\ n \in Nat
    BY <1>1, <1>2, <2>1, <2>2
  <2> HIDE DEF k
  <2> QED BY <2>2, <2>3
<1>4. /\ \A t \in Copied : TableTells(journal, E, t, v.tables[t], "absent")
      /\ IF k >= 2 THEN StepTells(journal, E, v.step, "pending") ELSE v.step = step0
      /\ StatusTells(journal, k, silent, k, v.status)
  BY <1>1, <1>2, <1>3 DEF PageTells
<1>5. /\ StepTells(journal, E, row.step, "pending")
      /\ \A t \in Copied : TableTells(journal, E, t, row.tables[t], "absent")
      /\ \/ silent \/ RunTells(journal, E, row.status, "queued")
         \/ row.status = "cancelling" /\ RunTells(journal, E, "running", "queued")
  BY <1>2 DEF RowInv
<1>6. StepTells(journal, E, v.step, "pending")
  <2>1. CASE k >= 2
    BY <1>4, <2>1
  <2>2. CASE ~ (k >= 2)
    <3>1. ~ (1 < k)
      BY <1>3, <2>2
    <3> QED BY <1>1, <1>2, <1>4, <2>2, <3>1
  <2> QED BY <2>1, <2>2
<1>7. RunTells(journal, E, row.status, "queued") => row.status = "running" \/ row.status \in Terminal
  <2> HIDE DEF k
  <2> QED BY <1>2, <1>3, RunTold
<1>8. StatusTells(journal, k, silent, k, v.status) =>
        silent \/ RunTells(journal, E, v.status, "queued")
        \/ (v.status = "cancelling" /\ RunTells(journal, E, "running", "queued"))
  BY <1>3 DEF StatusTells
<1> HIDE DEF E, k
<1>9. v.step = row.step
  BY <1>2, <1>3, <1>5, <1>6, EndToldAlike DEF StepTells
<1>10. \A t \in Copied : v.tables[t] = row.tables[t]
  BY <1>2, <1>3, <1>4, <1>5, TableToldAlike
<1>11. v.tables = row.tables
  BY <1>3, <1>10
<1>12. v.status = row.status \/ row.status = "cancelling" \/ silent
  <2> SUFFICES ASSUME ~ silent, row.status # "cancelling" PROVE v.status = row.status
    OBVIOUS
  <2>1. RunTells(journal, E, row.status, "queued")
    BY <1>5
  <2>2. CASE RunTells(journal, E, v.status, "queued")
    BY <1>2, <1>3, <2>1, <2>2, EndToldAlike DEF RunTells
  <2>3. CASE v.status = "cancelling" /\ RunTells(journal, E, "running", "queued")
    <3>1. row.status = "running"
      BY <1>2, <1>3, <2>1, <2>3, EndToldAlike DEF RunTells
    <3> QED BY <1>1, <2>3, <3>1
  <2> QED BY <1>4, <1>8, <2>2, <2>3
<1> QED BY <1>2, <1>9, <1>11, <1>12

\* What the agent wrote and what the page made of a snapshot, of repeated events and of
\* rows read at different times are the same at the same seq (RunView's ViewAgrees).
THEOREM PageShowsTheRows == RunViewSpec => []ViewAgrees
  BY ViewInductive, FoldsMeet, PTL

=============================================================================
