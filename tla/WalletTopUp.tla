---------------------------- MODULE WalletTopUp ----------------------------
(***************************************************************************)
(* Topping up a wallet (microservices/wallet-svc/src/wallet/               *)
(* wallet.service.ts): topUpWallet opens a payment at Stripe or Coinbase   *)
(* and records a PENDING transaction; topUpWalletConfirm, called by the    *)
(* client (Stripe) or by the gateway's webhook (Coinbase), asks the        *)
(* provider and adds the payment to the user's balance in user-svc.        *)
(*                                                                         *)
(* A handler p is a sequence of awaited calls; job[p] holds the call that  *)
(* comes next (pc) and what the handler remembers across the awaits.       *)
(* Other handlers run between two calls.  A handler that ends with an      *)
(* error response changes nothing more.  Each t in Txn is one top-up       *)
(* request: Owner[t] asks for Price[t] through Kind[t].                    *)
(*                                                                         *)
(* Nothing keeps two confirmations of a user, or of a transaction, apart,  *)
(* and the webhook is public: the event of a confirmation is what its      *)
(* request says.  The histories record where that happened, for the        *)
(* properties to say what remains true.                                    *)
(***************************************************************************)
EXTENDS UserBalance

CONSTANTS Txn, Owner, Kind, Price,
          MaxFaults,    \* bound on crashes and failed calls
          MaxApplied    \* bound: no confirmation of t starts beyond it

ASSUME TopUpAssumption ==
    /\ Txn # {}
    /\ Owner \in [Txn -> User]
    /\ Kind \in [Txn -> {"STRIPE", "COINBASE"}]
    /\ Price \in [Txn -> Nat \ {0}]
    /\ MaxFaults \in Nat
    /\ MaxApplied \in Nat

VARIABLES status,     \* paymentModel: status of the document of t, or "none"
          provider,   \* status of the Stripe intent or Coinbase charge of t
          paid,       \* amount of the last payment the provider took for t
          sent,       \* webhook events Coinbase has emitted for t
          job,        \* the handlers: [Proc -> Job]
          faults,     \* crashes and failed calls so far
          applied,    \* history: balanceUpdates that succeeded for t
          credits,    \* history: sum of the amounts they were to add, per user
          early,      \* history: the t credited for an event not emitted
          second,     \* history: handlers that loaded t when another was at it
          disturbed,  \* history: credits of such, and confirmations undone
          shared,     \* history: handlers whose sum another may overwrite
          atRisk      \* history: the part of credits that those applied

providerVars == <<provider, paid, sent>>
marks == <<second, shared>>
sums == <<applied, credits, disturbed, atRisk>>
vars == <<ubVars, status, providerVars, job, faults, early, marks, sums>>

Status == {"none", "PENDING", "COMPLETED", "FAILED", "EXPIRED"}
Event == {"client", "charge:pending", "charge:confirmed", "charge:failed",
          "charge:delayed"}
Charge == {"none", "NEW", "succeeded", "PENDING", "COMPLETED", "EXPIRED",
           "CANCELED", "UNRESOLVED"}
Job == [pc : {"idle", "record", "retrieve", "check", "save"},
        txn : Txn,          \* the transaction
        event : Event,      \* why it is confirmed
        found : Status,     \* the status it was loaded with
        mark : Status,      \* the status set on the loaded document
        credit : Nat]       \* the amount to add

NoJob == [pc |-> "idle", txn |-> CHOOSE t \in Txn : TRUE, event |-> "client",
          found |-> "none", mark |-> "none", credit |-> 0]

RefusedMissingOnly(loaded) == loaded = "none"                  \* mutant

\* The refusals that only look at the loaded transaction: it is missing, or
\* it is confirmed already.
Refused(loaded) == loaded \in {"none", "COMPLETED"}

\* p runs topUpWalletConfirm.
Confirming(p) == job[p].pc \in {"retrieve", "check", "save"}

\* The client asked for it, or Coinbase has emitted the event it acts on.
Announced(p) == Kind[job[p].txn] = "STRIPE" \/ job[p].event \in sent[job[p].txn]

\* It confirms t and was not refused for the status it has loaded.
AtWork(p, t) == Confirming(p) /\ job[p].txn = t /\ ~ Refused(job[p].found)

\* It has asked for the balance of u and not stored the sum yet.
Summing(p, u) == call[p].step \in {"find", "save"} /\ call[p].req.user = u

\* The provider holds the money for good.
Settled(t) == provider[t] \in {"succeeded", "COMPLETED", "UNRESOLVED"}

Init ==
    /\ UBInit({EmptyDoc})
    /\ status = [t \in Txn |-> "none"]
    /\ provider = [t \in Txn |-> "none"]
    /\ paid = [t \in Txn |-> 0]
    /\ sent = [t \in Txn |-> {}]
    /\ job = [p \in Proc |-> NoJob]
    /\ faults = 0
    /\ applied = [t \in Txn |-> 0]
    /\ credits = [u \in User |-> 0]
    /\ early = {} /\ second = {} /\ shared = {}
    /\ disturbed = [t \in Txn |-> 0]
    /\ atRisk = [u \in User |-> 0]

\* The handler is over: what it had in memory is gone.
End(p) ==
    /\ job' = [job EXCEPT ![p] = NoJob]
    /\ Return(p)
    /\ second' = second \ {p}
    /\ shared' = shared \ {p}
----------------------------------------------------------------------------
(* topUpWallet: create the intent or charge, then the transaction.         *)

OpenPayment(p, t) ==
    /\ job[p].pc = "idle"
    /\ provider[t] = "none"
    /\ provider' = [provider EXCEPT ![t] = "NEW"]
    /\ job' = [job EXCEPT ![p] = [NoJob EXCEPT !.pc = "record", !.txn = t]]
    /\ UNCHANGED <<ubVars, status, paid, sent, faults, early, marks, sums>>

RecordTransaction(p) ==
    /\ job[p].pc = "record"
    /\ status' = [status EXCEPT ![job[p].txn] = "PENDING"]
    /\ End(p)
    /\ UNCHANGED <<providerVars, faults, early, sums>>
----------------------------------------------------------------------------
(* topUpWalletConfirm up to the balance.                                   *)

\* The client names t from topUpWallet's answer.  A request to the webhook
\* names a charge that exists and any event: neither the route nor wallet-svc
\* checks that Coinbase sent it.
MayAsk(t, e) == IF Kind[t] = "STRIPE"
                THEN e = "client" /\ status[t] # "none"
                ELSE e # "client" /\ provider[t] # "none"

\* paymentModel.findOne.  The Stripe branch refuses before it asks Stripe.
LoadTransaction(p, t, e) ==
    /\ job[p].pc = "idle"
    /\ MayAsk(t, e)
    /\ applied[t] < MaxApplied
    /\ Kind[t] = "STRIPE" => ~ Refused(status[t])
    /\ job' = [job EXCEPT ![p] = [NoJob EXCEPT !.pc = "retrieve", !.txn = t,
                                               !.event = e, !.found = status[t]]]
    /\ second' = IF \E q \in Proc : AtWork(q, t) THEN second \cup {p} ELSE second
    /\ UNCHANGED <<ubVars, status, providerVars, faults, early, shared, sums>>

\* The answer of the provider decides on the next call, the status given to
\* the loaded document and the money to add.
Continue(p, pc, mark, credit) ==
    /\ job' = [job EXCEPT ![p] =
                  [@ EXCEPT !.pc = pc, !.mark = mark, !.credit = credit]]
    /\ UNCHANGED <<ubVars, marks>>

\* stripe.paymentIntents.retrieve
RetrieveIntent(p) ==
    LET t == job[p].txn IN
    /\ job[p].pc = "retrieve"
    /\ Kind[t] = "STRIPE"
    /\ IF provider[t] = "succeeded"
       THEN Continue(p, "check", "COMPLETED", Price[t])
       ELSE End(p)                                \* payment not completed
    /\ UNCHANGED <<status, providerVars, faults, early, sums>>

HandledAny(e) == TRUE                                          \* mutant

\* The events topUpWalletConfirm acts on.
Handled(e) == e \in {"charge:confirmed", "charge:failed", "charge:delayed"}

\* retrieveCharge: the current charge, not the one the event was about.
RetrieveCharge(p) ==
    LET t == job[p].txn
        failed == job[p].event = "charge:failed"
        expired == failed /\ provider[t] = "EXPIRED"
        unpaid == paid[t] = 0                     \* payments is empty
        refused == \/ Refused(job[p].found)
                   \/ ~ Handled(job[p].event)
                   \/ unpaid /\ ~ failed          \* payments[-1].value throws
    IN
    /\ job[p].pc = "retrieve"
    /\ Kind[t] = "COINBASE"
    /\ \/ refused /\ End(p)
       \/ ~ refused /\ expired /\ Continue(p, "save", "EXPIRED", 0)
       \/ ~ refused /\ ~ expired /\ failed /\ unpaid
            /\ Continue(p, "save", "FAILED", 0)
       \/ ~ refused /\ ~ expired /\ ~ unpaid
            /\ Continue(p, "check", "COMPLETED", paid[t])
    /\ UNCHANGED <<status, providerVars, faults, early, sums>>
----------------------------------------------------------------------------
(* topUpWalletConfirm from the balance on.                                 *)

\* checkBalance reads the balance of the user; the sum is sent as the new
\* balance to balanceUpdate.
CheckBalance(p) ==
    LET u == Owner[job[p].txn]
        others == {q \in Proc : Summing(q, u)}
    IN
    /\ job[p].pc = "check"
    /\ Call(p, [user |-> u, assetCode |-> "BTC",
                amount |-> job[p].credit + BalanceOf(users[u], "BTC"),
                withheldAmount |-> Keep])
    /\ job' = [job EXCEPT ![p].pc = "save"]
    /\ shared' = IF others = {} THEN shared ELSE shared \cup others \cup {p}
    /\ UNCHANGED <<status, providerVars, faults, early, second, sums>>

UpdateFind(p) ==
    /\ FindUser(p)
    /\ UNCHANGED <<status, providerVars, job, faults, early, marks, sums>>

UpdateSave(p) ==
    LET t == job[p].txn
        a == job[p].credit
    IN
    /\ SaveUser(p)
    /\ applied' = [applied EXCEPT ![t] = @ + 1]
    /\ disturbed' = [disturbed EXCEPT ![t] = IF p \in second THEN @ + 1 ELSE @]
    /\ credits' = [credits EXCEPT ![Owner[t]] = @ + a]
    /\ atRisk' = [atRisk EXCEPT ![Owner[t]] = IF p \in shared THEN @ + a ELSE @]
    /\ early' = IF Announced(p) THEN early ELSE early \cup {t}
    /\ UNCHANGED <<status, providerVars, job, faults, marks>>

UpdateRejected(p) ==
    /\ SaveRejected(p)
    /\ UNCHANGED <<status, providerVars, job, faults, early, marks, sums>>

\* balanceUpdate answered with an error: the transaction is not saved.
GiveUp(p) ==
    /\ call[p].step = "failed"
    /\ End(p)
    /\ UNCHANGED <<status, providerVars, faults, early, sums>>

SaveTransactionUnawaited(p) ==          \* mutant: balanceUpdate not awaited
    LET j == job[p] IN
    /\ j.pc = "save"
    /\ status' = IF j.mark = j.found THEN status
                 ELSE [status EXCEPT ![j.txn] = j.mark]
    /\ End(p)
    /\ UNCHANGED <<providerVars, faults, early, sums>>

\* await transaction.save(): only a status that differs from the loaded one
\* is written, and it is written whatever the stored status is by now.
SaveTransaction(p) ==
    LET j == job[p]
        undone == status[j.txn] = "COMPLETED" /\ j.mark \notin {"COMPLETED", j.found}
    IN
    /\ j.pc = "save"
    /\ j.mark = "COMPLETED" => call[p].step = "saved"
    /\ status' = IF j.mark = j.found THEN status
                 ELSE [status EXCEPT ![j.txn] = j.mark]
    /\ disturbed' = [disturbed EXCEPT ![j.txn] = IF undone THEN @ + 1 ELSE @]
    /\ End(p)
    /\ UNCHANGED <<providerVars, faults, early, applied, credits, atRisk>>

\* The call that p awaits fails, or the process running p dies: what the
\* handler had in memory is gone, what it had written stays.
Abort(p) ==
    /\ job[p].pc # "idle"
    /\ faults < MaxFaults
    /\ faults' = faults + 1
    /\ End(p)
    /\ UNCHANGED <<status, providerVars, early, sums>>
----------------------------------------------------------------------------
(* The providers: what the code can observe of Stripe and Coinbase.        *)

Provider(t, from, to, amount, events) ==
    /\ provider[t] = from
    /\ provider' = [provider EXCEPT ![t] = to]
    /\ paid' = [paid EXCEPT ![t] = amount]
    /\ sent' = [sent EXCEPT ![t] = @ \cup events]
    /\ UNCHANGED <<ubVars, status, job, faults, early, marks, sums>>

StripePay(t) ==
    /\ Kind[t] = "STRIPE"
    /\ Provider(t, "NEW", "succeeded", Price[t], {})

CoinbaseDetect(t) ==          \* seen on the network, not confirmed yet
    /\ Kind[t] = "COINBASE"
    /\ \E a \in 1 .. Price[t] : Provider(t, "NEW", "PENDING", a, {"charge:pending"})

CoinbaseConfirm(t) ==         \* in full, or underpaid
    IF paid[t] = Price[t]
    THEN Provider(t, "PENDING", "COMPLETED", paid[t], {"charge:confirmed"})
    ELSE Provider(t, "PENDING", "UNRESOLVED", paid[t], {"charge:failed"})

CoinbaseGiveUp(t) ==
    /\ Kind[t] = "COINBASE"
    /\ \E s \in {"EXPIRED", "CANCELED"} : Provider(t, "NEW", s, 0, {"charge:failed"})

CoinbaseLate(t) ==            \* paid after the charge expired
    \E a \in 1 .. Price[t] : Provider(t, "EXPIRED", "UNRESOLVED", a, {"charge:delayed"})

ProviderNext(t) == \/ StripePay(t) \/ CoinbaseDetect(t) \/ CoinbaseConfirm(t)
                   \/ CoinbaseGiveUp(t) \/ CoinbaseLate(t)

HandlerNext(p) == \/ RecordTransaction(p) \/ RetrieveIntent(p) \/ RetrieveCharge(p)
                  \/ CheckBalance(p) \/ UpdateFind(p) \/ UpdateSave(p)
                  \/ UpdateRejected(p) \/ GiveUp(p) \/ SaveTransaction(p)

Next ==
    \/ \E p \in Proc : \/ \E t \in Txn : OpenPayment(p, t)
                       \/ \E t \in Txn, e \in Event : LoadTransaction(p, t, e)
                       \/ HandlerNext(p)
                       \/ Abort(p)
    \/ \E t \in Txn : ProviderNext(t)

Spec == Init /\ [][Next]_vars
----------------------------------------------------------------------------
(* Properties.                                                             *)

TypeOK ==
    /\ UBTypeOK
    /\ status \in [Txn -> Status]
    /\ provider \in [Txn -> Charge]
    /\ paid \in [Txn -> Nat]
    /\ sent \in [Txn -> SUBSET Event]
    /\ job \in [Proc -> Job]
    /\ faults \in 0 .. MaxFaults
    /\ applied \in [Txn -> Nat]
    /\ credits \in [User -> Nat]
    /\ early \subseteq Txn
    /\ second \subseteq Proc
    /\ disturbed \in [Txn -> Nat]
    /\ shared \subseteq Proc
    /\ atRisk \in [User -> Nat]

CreditIsPaid(p) ==
    LET t == job[p].txn IN
    job[p].mark = "COMPLETED" => /\ job[p].credit = paid[t] /\ paid[t] > 0
                                 /\ Announced(p) => Settled(t)

\* The money is there: a handler is about to add, or has added, to a balance
\* exactly what a payment brought, and what the provider has collected for
\* good, whatever the order of webhooks, provider transitions and crashes
\* (topUpWalletConfirm acts on a charge it fetched, after an await, with an
\* event that may be older than the charge).  Only a confirmation whose event
\* Coinbase had not emitted may credit a payment that is still on its way.
CreditsArePaid ==
    /\ \A t \in Txn : applied[t] > 0 => paid[t] > 0 /\ (Settled(t) \/ t \in early)
    /\ \A p \in Proc : CreditIsPaid(p)

\* No money lost silently: a transaction that reads COMPLETED, which every
\* later confirmation refuses, has had its balanceUpdate succeed.  The
\* balance is written in user-svc before the status in wallet-svc, so no
\* crash or rejected save between the two may leave it COMPLETED unpaid.
CompletedWasCredited ==
    \A t \in Txn : status[t] = "COMPLETED" => applied[t] > 0

\* No money out of nothing: overlapping read-modify-write of a balance may
\* lose a credit, but what checkBalance reports never exceeds the credits
\* applied, nor does what an in-flight confirmation is about to write.
BalanceBacked ==
    \A u \in User : BalanceOf(users[u], "BTC") <= credits[u]

\* No credit is lost to the sum of another handler, except one that was added
\* while the sums of two handlers for its user were under way.  Those neither
\* disturb what was added before them nor what is added after them, whatever
\* they read and however late they write.
CreditsKept ==
    \A u \in User : BalanceOf(users[u], "BTC") >= credits[u] - atRisk[u]

\* What the provider's answer and the events it has emitted say about each
\* other: an event is never ahead of the charge, the terminal states of a
\* charge stay what they are, and so does a payment.
ChargeInv ==
    \A t \in Txn :
        /\ paid[t] \in 0 .. Price[t]
        /\ provider[t] = "succeeded" => paid[t] = Price[t]
        /\ provider[t] \in {"none", "NEW", "EXPIRED", "CANCELED"} <=> paid[t] = 0
        /\ "charge:confirmed" \in sent[t] => provider[t] = "COMPLETED"
        /\ "charge:delayed" \in sent[t] => provider[t] = "UNRESOLVED"
        /\ "charge:failed" \in sent[t] =>
              provider[t] \in {"EXPIRED", "CANCELED", "UNRESOLVED"}

\* How far a handler can be: it marks the document before it touches the
\* balance, calls balanceUpdate only for a COMPLETED mark, and sends a sum
\* that credits already applied and its own credit account for.
HandlerOK(p) ==
    LET j == job[p]
        c == call[p]
    IN
    /\ j.pc \in {"idle", "record", "retrieve"} <=> j.mark = "none"
    /\ j.pc \in {"check", "save"} \/ (j.pc = "retrieve" /\ Kind[j.txn] = "STRIPE")
          => ~ Refused(j.found)
    /\ j.pc = "check" => j.mark = "COMPLETED"
    /\ j.mark = "COMPLETED" => IF Kind[j.txn] = "STRIPE" THEN Settled(j.txn)
                               ELSE Handled(j.event)
    /\ c.step # "idle" =>
          /\ j.pc = "save" /\ j.mark = "COMPLETED"
          /\ c.req.user = Owner[j.txn] /\ c.req.assetCode = "BTC"
          /\ c.req.amount \in Amount
          /\ c.req.amount <= credits[Owner[j.txn]] + j.credit
    /\ c.step = "saved" => applied[j.txn] > 0

HandlerInv == \A p \in Proc : HandlerOK(p)

\* The inductive invariant behind CreditsArePaid, CompletedWasCredited and
\* BalanceBacked.
IInv == /\ TypeOK /\ ChargeInv /\ HandlerInv
        /\ CreditsArePaid /\ CompletedWasCredited /\ BalanceBacked

\* The sum a handler is about to store: nothing applied before its window is
\* missing from it and, if no other window met it, it is the balance and its
\* credit.
SumOK(p) ==
    LET j == job[p]
        c == call[p]
        u == c.req.user
    IN
    c.step \in {"find", "save"} =>
        /\ c.req.amount - j.credit >= credits[u] - atRisk[u]
        /\ p \notin shared =>
              /\ c.req.amount = j.credit + BalanceOf(users[u], "BTC")
              /\ c.step = "save" => c.snap = users[u]
              /\ \A q \in Proc : Summing(q, u) => q = p

\* The inductive invariant behind CreditsKept.
KeptInv == IInv /\ CreditsKept /\ \A p \in Proc : SumOK(p)

\* A confirmed transaction is not added to a balance again ('transaction
\* already confirmed'), however often Coinbase redelivers, the client repeats
\* its request or anybody calls the webhook.  What one credit more needs is a
\* crash or failed call, a handler that loaded the transaction while another
\* was at work on it, or one that overwrote COMPLETED with what it had made of
\* an older charge.
CreditsBounded == \A t \in Txn : applied[t] <= 1 + faults + disturbed[t]

\* The handler whose credit CreditsBounded allows to be the first.
Alone(p, t) == AtWork(p, t) /\ p \notin second

\* The inductive invariant behind CreditsBounded.
BoundOK(t) ==
    /\ applied[t] <= 1 + faults + disturbed[t]
    /\ \A p, q \in Proc : Alone(p, t) /\ Alone(q, t) => p = q
    /\ (\/ \E p \in Proc : Alone(p, t) /\ call[p].step # "saved"
        \/ /\ status[t] # "COMPLETED"
           /\ \A p \in Proc : Alone(p, t) => call[p].step # "saved")
       => applied[t] <= faults + disturbed[t]

\* topUpWallet opens a payment once, and records it before it is confirmed.
OpenOK(p) ==
    LET t == job[p].txn IN
    /\ job[p].pc # "idle" => provider[t] # "none"
    /\ job[p].pc = "record" =>
          /\ status[t] = "none"
          /\ \A q \in Proc \ {p} : job[q].pc = "record" => job[q].txn # t
    /\ Confirming(p) /\ job[p].found # "none" => status[t] # "none"

OpenInv == /\ \A t \in Txn : status[t] # "none" => provider[t] # "none"
           /\ \A p \in Proc : OpenOK(p)

BoundInv == IInv /\ OpenInv /\ \A t \in Txn : BoundOK(t)

\* What the ledger sees of a state: what the providers report as paid, what
\* can repeat a credit, the credits, and what checkBalance reports.
Mishaps == [t \in Txn |-> faults + disturbed[t]]
Safe == [u \in User |-> credits[u] - atRisk[u]]
Balances == [u \in User |-> BalanceOf(users[u], "BTC")]

\* The handlers implement the abstract ledger: every payment is added to its
\* owner's balance, in full unless two sums for that owner meet, once unless
\* something goes wrong on the way, and no balance moves otherwise.
Ledger == INSTANCE TopUpLedger WITH
    received <- paid, mishaps <- Mishaps, credited <- applied,
    safe <- Safe, total <- credits, balance <- Balances

ImplementsLedger == Ledger!Spec

\* Handlers keep running and Coinbase redelivers a webhook it has no success
\* answer for.  Other callers, payers and faults are under no obligation.
Fairness ==
    /\ \A p \in Proc : WF_vars(HandlerNext(p))
    /\ \A t \in Txn, e \in {"charge:confirmed", "charge:failed", "charge:delayed"} :
          SF_vars(\E p \in Proc : e \in sent[t] /\ LoadTransaction(p, t, e))

FairSpec == Spec /\ Fairness

=============================================================================
