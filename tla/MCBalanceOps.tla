--------------------------- MODULE MCBalanceOps ---------------------------
(* BalanceOps with one user document and two handlers.  The amounts 1 and 2 *)
(* against funds of 3 allow two withholdings, refuse some, and leave sums   *)
(* that tell a lost update from a stored one; -1 is withheld and debited.   *)
(* One debit is of an asset the funded document has no entry for (a push),  *)
(* the others of one it has.                                                *)
EXTENDS BalanceOps, TLC

CONSTANTS u1, h1, h2

\* Handlers are interchangeable.
Handlers == Permutations(Proc)

WithholdSome == {-1, 1, 2}

DebitBoth == {<<"VPC", 0>>, <<"BTC", 1>>, <<"BTC", -1>>}
=============================================================================
