--------------------------- MODULE MCWalletTopUp ---------------------------
(* Instances of WalletTopUp for TLC: who owns which top-up, through which   *)
(* provider and for how much.  The prices differ so that a swapped or      *)
(* repeated credit changes a balance.                                      *)
EXTENDS WalletTopUp, TLC

CONSTANTS u1, u2, t1, t2, t3

\* One user with a Stripe and a Coinbase top-up.
OwnerShared == (t1 :> u1) @@ (t2 :> u1)
KindMixed == (t1 :> "STRIPE") @@ (t2 :> "COINBASE")
PriceTwo == (t1 :> 3) @@ (t2 :> 2)

\* One user with one Coinbase top-up.
OwnerOne == t2 :> u1
KindOne == t2 :> "COINBASE"
PriceOne == t2 :> 1

\* Handlers are interchangeable (used where no liveness is checked).
Handlers == Permutations(Proc)

\* Two users; u1 owns two top-ups.
OwnerThree == (t1 :> u1) @@ (t2 :> u1) @@ (t3 :> u2)
KindThree == [t \in Txn |-> "STRIPE"]
PriceThree == (t1 :> 3) @@ (t2 :> 2) @@ (t3 :> 4)
=============================================================================
