----------------------------- MODULE MCProfile -----------------------------
(* Two users and two updates at a time: they can demote each other.         *)
EXTENDS Profile, TLC
Symmetry == Permutations(Slot) \cup Permutations(Account)
=============================================================================
