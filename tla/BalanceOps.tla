---------------------------- MODULE BalanceOps ----------------------------
(***************************************************************************)
(* The callers of balanceUpdate other than the top-up:                     *)
(*   updateWithheldBalance of user-svc, which moves an amount of an asset  *)
(*   from amount to withheldAmount and reads the balance through           *)
(*   getBalance first (which gives an empty balance a VPC entry);          *)
(*   debit of wallet-svc, which passes its amount on to balanceUpdate.     *)
(* Neither looks at the sign of what it is asked for.  (An amount that is  *)
(* no number fails the cast of the save and changes nothing.)              *)
(* op[p] is the request handler p works on; a handler that refuses a       *)
(* request, or dies, leaves nothing behind but what it already saved.      *)
(***************************************************************************)
EXTENDS UserBalance

CONSTANTS Funds,       \* BTC a funded user starts with
          Withholds,   \* amounts asked to be withheld
          Debits,      \* requests to debit: an asset and an amount
          MaxRequests  \* bound on the requests taken

ASSUME BalanceOpsAssumption ==
    /\ Funds \in Nat
    /\ Withholds \subseteq Int
    /\ Debits \subseteq Asset \X Int
    /\ MaxRequests \in Nat

VARIABLES op,          \* [Proc -> Op]
          requests,    \* how many have been taken so far
          held,        \* history: what the withholdings that succeeded add up to
          overlapped,  \* history: users two of whose requests overlapped
          debited,     \* history: the user and asset of each debit
          negative     \* history: the user, asset and field that a request
                       \* for a negative amount was about

vars == <<ubVars, op, requests, held, overlapped, debited, negative>>

Op == [kind : {"none", "seed", "seeded", "withhold", "debit"}, user : User,
       assetCode : Asset, value : Int]

NoOp == [kind |-> "none", user |-> CHOOSE u \in User : TRUE,
         assetCode |-> "BTC", value |-> 0]

FundedDoc == Pushed(EmptyDoc, [assetCode |-> "BTC", amount |-> Funds,
                               withheldAmount |-> 0])

Init ==
    /\ UBInit({EmptyDoc, FundedDoc})
    /\ op = [p \in Proc |-> NoOp]
    /\ requests = 0
    /\ held = [u \in User |-> [code \in Asset |-> 0]]
    /\ overlapped = {}
    /\ debited = {} /\ negative = {}

Busy(q, u) == op[q].kind # "none" /\ op[q].user = u

\* p is free and takes a request for u.
Take(p, kind, u, code, value) ==
    /\ op[p].kind = "none"
    /\ requests < MaxRequests
    /\ requests' = requests + 1
    /\ op' = [op EXCEPT ![p] = [kind |-> kind, user |-> u, assetCode |-> code,
                                value |-> value]]
    /\ overlapped' = IF \E q \in Proc : Busy(q, u) THEN overlapped \cup {u}
                     ELSE overlapped

\* What is asked for, when it is below zero.
Signed(u, code, field, x) == IF x < 0 THEN negative \cup {<<u, code, field>>}
                             ELSE negative
----------------------------------------------------------------------------
(* updateWithheldBalance                                                   *)

CoversAny(entry, w) == TRUE                                    \* mutant

\* "not enough amount in your wallet" unless the entry covers the amount.
Covers(entry, w) == entry.amount >= w

\* Both new amounts, computed from the entry read, are sent to balanceUpdate.
Transfer(p, u, entry, w) ==
    /\ Covers(entry, w)
    /\ Call(p, [user |-> u, assetCode |-> entry.assetCode,
                amount |-> entry.amount - w,
                withheldAmount |-> entry.withheldAmount + w])
    /\ negative' = Signed(u, entry.assetCode, "withheldAmount", w)

\* getBalance returns the balance and the entry covers w.
Withhold(p, u, code, w) ==
    LET balance == users[u].balance
        entry == balance[First(balance, code)]
    IN
    /\ HasEntry(balance, code)
    /\ Take(p, "withhold", u, code, w)
    /\ Transfer(p, u, entry, w)
    /\ UNCHANGED <<held, debited>>

SeedEntry == [assetCode |-> "VPC", amount |-> 0, withheldAmount |-> 0]

\* getBalance finds an empty balance: a VPC entry is to be saved first.
WithholdSeed(p, u, code, w) ==
    /\ users[u].balance = << >>
    /\ Take(p, "seed", u, code, w)
    /\ UNCHANGED <<ubVars, held, debited, negative>>

SeedSave(p) ==
    /\ op[p].kind = "seed"
    /\ users' = [users EXCEPT ![op[p].user] = Pushed(@, SeedEntry)]
    /\ op' = [op EXCEPT ![p].kind = "seeded"]
    /\ UNCHANGED <<call, requests, held, overlapped, debited, negative>>

\* That entry is all the handler sees, so it refuses another asset and, but
\* for nothing or less, an amount of this one.
WithholdSeeded(p) ==
    LET o == op[p]
        goesOn == o.assetCode = "VPC" /\ Covers(SeedEntry, o.value)
    IN
    /\ o.kind = "seeded"
    /\ \/ /\ goesOn
          /\ Transfer(p, o.user, SeedEntry, o.value)
          /\ op' = [op EXCEPT ![p].kind = "withhold"]
       \/ /\ ~ goesOn
          /\ op' = [op EXCEPT ![p] = NoOp]
          /\ UNCHANGED <<ubVars, negative>>
    /\ UNCHANGED <<requests, held, overlapped, debited>>
----------------------------------------------------------------------------
(* debit, and the balanceUpdate they both call                             *)

Debit(p, u, code, a) ==
    /\ Take(p, "debit", u, code, a)
    /\ Call(p, [user |-> u, assetCode |-> code, amount |-> a,
                withheldAmount |-> Keep])
    /\ debited' = debited \cup {<<u, code>>}
    /\ negative' = Signed(u, code, "amount", a)
    /\ UNCHANGED held

UpdateFind(p) ==
    FindUser(p) /\ UNCHANGED <<op, requests, held, overlapped, debited, negative>>

UpdateSave(p) ==
    /\ SaveUser(p)
    /\ held' = IF op[p].kind = "withhold"
               THEN [held EXCEPT ![op[p].user][op[p].assetCode] = @ + op[p].value]
               ELSE held
    /\ UNCHANGED <<op, requests, overlapped, debited, negative>>

UpdateRejected(p) ==
    SaveRejected(p) /\ UNCHANGED <<op, requests, held, overlapped, debited, negative>>

\* The success message or the error goes back to the caller.
Answer(p) ==
    /\ call[p].step \in {"saved", "failed"}
    /\ Return(p)
    /\ op' = [op EXCEPT ![p] = NoOp]
    /\ UNCHANGED <<requests, held, overlapped, debited, negative>>

Next ==
    \E p \in Proc :
        \/ \E u \in User, code \in Asset, w \in Withholds :
              WithholdSeed(p, u, code, w) \/ Withhold(p, u, code, w)
        \/ \E u \in User, d \in Debits : Debit(p, u, d[1], d[2])
        \/ SeedSave(p) \/ WithholdSeeded(p)
        \/ UpdateFind(p) \/ UpdateSave(p) \/ UpdateRejected(p) \/ Answer(p)

Spec == Init /\ [][Next]_vars
----------------------------------------------------------------------------
(* Properties.                                                             *)

TypeOK ==
    /\ UBTypeOK
    /\ op \in [Proc -> Op]
    /\ requests \in 0 .. MaxRequests
    /\ held \in [User -> [Asset -> Int]]
    /\ overlapped \subseteq User
    /\ debited \subseteq User \X Asset
    /\ negative \subseteq User \X Asset \X {"amount", "withheldAmount"}

Total(entry) == entry.amount + entry.withheldAmount

\* Withholding neither makes nor destroys money, in whatever order the reads
\* and saves of several withholdings interleave: an entry keeps its amount +
\* withheldAmount unless somebody asked for a debit of that asset.  A $set
\* prepared from an older document, which is sent by position, never lands on
\* the entry of another asset.
Conserved ==
    [][\A u \in User : \A i \in DOMAIN users[u].balance :
          /\ i \in DOMAIN users'[u].balance
          /\ users'[u].balance[i].assetCode = users[u].balance[i].assetCode
          /\ <<u, users[u].balance[i].assetCode>> \notin debited =>
                Total(users'[u].balance[i]) = Total(users[u].balance[i])]_users

AboveZero(u, entry) ==
    /\ entry.amount >= 0 \/ <<u, entry.assetCode, "amount">> \in negative
    /\ \/ entry.withheldAmount >= 0
       \/ <<u, entry.assetCode, "withheldAmount">> \in negative

\* No amount and no withheld amount goes below zero by itself: a balance
\* below zero takes a debit to such an amount, a withheld amount below zero a
\* withholding of one, of that user and asset.  No order in which the reads
\* and saves of lawful requests interleave gets there.
NeverNegative ==
    \A u \in User : \A i \in DOMAIN users[u].balance :
        AboveZero(u, users[u].balance[i])

\* What the document of a user has withheld of an asset.
WithheldIn(doc, code) ==
    IF HasEntry(doc.balance, code)
    THEN doc.balance[First(doc.balance, code)].withheldAmount ELSE 0

\* What the successful withholdings add up to, given back or not, is withheld
\* in the document, debits before and after them included, unless requests of
\* that user overlapped.
HeldIsStored ==
    \A u \in User \ overlapped, code \in Asset :
        WithheldIn(users[u], code) = held[u][code]

\* No withholding succeeds beyond the user's funds ("not enough amount in
\* your wallet"), unless requests of that user overlapped (the balance a
\* withholding compares is then older than the one it changes) or a debit
\* stored another amount.
WithinFunds ==
    \A u \in User \ overlapped :
        <<u, "BTC">> \notin debited => held[u]["BTC"] <= Funds
=============================================================================
