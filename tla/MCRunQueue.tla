----------------------------- MODULE MCRunQueue -----------------------------
(* Small instances of RunQueue for TLC. *)
EXTENDS RunQueueInv, TLC

CONSTANTS db  \* a destination database

\* Every run writes into the same database.
OneTarget == [r \in Run |-> db]

HostSymmetry == Permutations(Host)
BeatSymmetry == Permutations(Beat)
=============================================================================
