----------------------- MODULE DestinationLock_proofs -----------------------
(* What the abstract lock is worth. *)
EXTENDS DestinationLock, TLAPS

\* Neither a grant nor a release gives a destination a second holder, or a writer that is none.
LEMMA ExclusiveStep ==
  ASSUME Exclusive, [Next]_<<holders, writing>>
  PROVE  Exclusive'
<1>1. CASE Next
  <2>1. ASSUME NEW d \in Destination, NEW q \in holders'[d], NEW r \in holders'[d]
        PROVE  q = r
    BY <1>1, <2>1 DEF Next, Keep, Grant, Free, Exclusive
  <2>2. ASSUME NEW r \in writing'
        PROVE  TargetOf[r] \in Destination /\ r \in holders'[TargetOf[r]]
    <3>1. CASE r \in writing
      BY <1>1, <2>2, <3>1 DEF Next, Keep, Grant, Free, Exclusive
    <3>2. CASE r \notin writing
      BY <1>1, <2>2, <3>2 DEF Next
    <3> QED
      BY <3>1, <3>2
  <2> QED
    BY <2>1, <2>2 DEF Exclusive
<1>2. CASE UNCHANGED <<holders, writing>>
  BY <1>2 DEF Exclusive
<1> QED
  BY <1>1, <1>2

\* Whatever implements the lock -- the run queue does -- gives a destination to one
\* run at a time, and lets nobody else write into it.
THEOREM LockIsExclusive == Spec => []Exclusive
<1>1. Init => Exclusive
  BY DEF Init, Exclusive
<1> QED
  BY <1>1, ExclusiveStep, PTL DEF Spec
=============================================================================
