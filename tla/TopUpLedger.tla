---------------------------- MODULE TopUpLedger ----------------------------
(***************************************************************************)
(* What the top-up of a wallet promises, without handlers, documents or    *)
(* webhooks: money paid to a provider for a transaction is added to the    *)
(* balance of the transaction's owner, once more at most for every mishap  *)
(* on the way, and in full unless another credit of that owner is under    *)
(* way; no balance moves otherwise.                                        *)
(***************************************************************************)
EXTENDS Integers

CONSTANTS User, Txn,
          Owner,      \* [Txn -> User]: whose balance a top-up is for
          Price       \* [Txn -> Nat \ {0}]: what it costs

VARIABLES received,   \* money paid to the provider for each transaction
          mishaps,    \* what went wrong so far on the way to its credit
          credited,   \* how often it was added to a balance
          safe,       \* what no credit under way can take from a user again
          total,      \* all that was added for the user
          balance     \* balance of each user

vars == <<received, mishaps, credited, safe, total, balance>>

Init ==
    /\ received = [t \in Txn |-> 0]
    /\ mishaps = [t \in Txn |-> 0]
    /\ credited = [t \in Txn |-> 0]
    /\ safe = [u \in User |-> 0]
    /\ total = [u \in User |-> 0]
    /\ balance = [u \in User |-> 0]

\* The payer pays the price or part of it, once.
Receive(t) ==
    /\ received[t] = 0
    /\ \E a \in 1 .. Price[t] : received' = [received EXCEPT ![t] = a]
    /\ UNCHANGED <<mishaps, credited, safe, total, balance>>

\* A crash, a failed call or a stale write, which each transaction of T was
\* exposed to.
Mishap(T) ==
    /\ mishaps' = [t \in Txn |-> IF t \in T THEN mishaps[t] + 1 ELSE mishaps[t]]
    /\ UNCHANGED <<received, credited, safe, total, balance>>

Counted(t, u) ==
    /\ received[t] > 0
    /\ credited' = [credited EXCEPT ![t] = @ + 1]
    /\ total' = [total EXCEPT ![u] = @ + received[t]]
    /\ UNCHANGED received

\* Nothing else of the owner is under way.
CreditInFull(t) ==
    LET u == Owner[t] IN
    /\ Counted(t, u)
    /\ safe' = [safe EXCEPT ![u] = @ + received[t]]
    /\ balance' = [balance EXCEPT ![u] = @ + received[t]]

\* Credits of the owner meet: one may swallow the other, and nothing else.
CreditAmongOthers(t) ==
    LET u == Owner[t] IN
    /\ Counted(t, u)
    /\ \E b \in safe[u] .. total'[u] : balance' = [balance EXCEPT ![u] = b]
    /\ UNCHANGED safe

\* The first credit is free; each further one needs a mishap, which may be
\* that very credit.
Credit(t) ==
    /\ CreditInFull(t) \/ CreditAmongOthers(t)
    /\ mishaps' \in {mishaps, [mishaps EXCEPT ![t] = @ + 1]}
    /\ credited[t] <= mishaps'[t]

Next ==
    \/ \E t \in Txn : Receive(t) \/ Credit(t)
    \/ \E T \in SUBSET Txn : Mishap(T)

Spec == Init /\ [][Next]_vars
=============================================================================
