----------------------------- MODULE MCListing -----------------------------
(* Four documents, limits up to 3 and a default of 2 on both sides of it.     *)
EXTENDS Listing, TLC
Symmetry == Permutations(Document)
=============================================================================
