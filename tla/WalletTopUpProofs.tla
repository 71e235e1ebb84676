------------------------- MODULE WalletTopUpProofs -------------------------
(***************************************************************************)
(* Proofs about WalletTopUp, for any users, handlers, transactions, prices *)
(* and bounds: type correctness, and that balances only receive money the  *)
(* providers have collected, however handlers, webhooks and faults         *)
(* interleave; what overlapping confirmations can repeat or lose is        *)
(* bounded; and the handlers implement TopUpLedger.                        *)
(***************************************************************************)
EXTENDS WalletTopUp, UserBalanceProofs

USE UserAssumption, TopUpAssumption DEF Amount

\* The histories that the first invariant reads.
history == <<applied, credits, early>>

\* The idle call and the empty document are values of their types.
LEMMA NoCallType == NoCall \in BalanceCall /\ EmptyDoc \in UserDoc
BY DEF NoCall, BalanceCall, EmptyDoc, UserDoc, Step, Request, Amount, Asset

\* The idle handler is a value of its type.
LEMMA NoJobType == NoJob \in Job
BY DEF NoJob, Job, Event, Status

\* The initial state has every variable in its type.
LEMMA InitType == Init => TypeOK
<1> SUFFICES ASSUME Init PROVE TypeOK
  OBVIOUS
<1>1. UBTypeOK
  BY NoCallType DEF Init, UBInit, UBTypeOK
<1> QED BY <1>1, NoJobType DEF Init, TypeOK, Status, Charge, Event

\* Every step of a call keeps the collections well formed.
LEMMA EndType ==
    ASSUME TypeOK, NEW p \in Proc, End(p)
    PROVE  UBTypeOK' /\ job' \in [Proc -> Job] /\ second' \subseteq Proc
           /\ shared' \subseteq Proc
BY NoCallType, NoJobType DEF TypeOK, UBTypeOK, End, Return, marks

\* So does the step of a handler that goes on after the provider answered.
LEMMA ContinueType ==
    ASSUME TypeOK, NEW p \in Proc,
           NEW pc \in {"check", "save"}, NEW mark \in Status, NEW credit \in Nat,
           Continue(p, pc, mark, credit)
    PROVE  UBTypeOK' /\ job' \in [Proc -> Job] /\ UNCHANGED <<second, shared>>
<1>1. UBTypeOK' /\ UNCHANGED <<second, shared>>
  BY DEF TypeOK, UBTypeOK, Continue, ubVars, marks
<1>2. job \in [Proc -> Job]
  BY DEF TypeOK
<1>3. [job[p] EXCEPT !.pc = pc, !.mark = mark, !.credit = credit] \in Job
  BY <1>2 DEF Job
<1>4. job' \in [Proc -> Job]
  BY <1>2, <1>3 DEF Continue
<1> QED BY <1>1, <1>4

\* balanceUpdate, as topUpWalletConfirm calls it, keeps them well formed too.
LEMMA CallType ==
    ASSUME TypeOK, NEW p \in Proc, NEW r \in Request, Call(p, r)
    PROVE  UBTypeOK'
<1>1. [NoCall EXCEPT !.step = "find", !.req = r] \in BalanceCall
  BY NoCallType DEF BalanceCall, Step
<1> QED BY <1>1 DEF TypeOK, UBTypeOK, Call

\* findOneById loads a user document into the call.
LEMMA FindType ==
    ASSUME TypeOK, NEW p \in Proc, FindUser(p)
    PROVE  UBTypeOK'
BY DEF TypeOK, UBTypeOK, FindUser, BalanceCall, Step, Request

\* user.save() leaves user documents in the collection.
LEMMA SaveType ==
    ASSUME TypeOK, NEW p \in Proc, SaveUser(p)
    PROVE  UBTypeOK'
<1> DEFINE r == call[p].req
           loaded == call[p].snap
<1>1. /\ r \in Request /\ loaded \in UserDoc
      /\ r.user \in User /\ users[r.user] \in UserDoc
  BY DEF TypeOK, UBTypeOK, BalanceCall, Request
<1>2. Saved(users[r.user], loaded, r) \in UserDoc
  BY <1>1, SavedType
<1>3. users' = [users EXCEPT ![r.user] = Saved(users[r.user], loaded, r)]
  BY DEF SaveUser
<1>4. call' = [call EXCEPT ![p] = [@ EXCEPT !.step = "saved"]]
  BY DEF SaveUser
<1>5. call' \in [Proc -> BalanceCall]
  BY <1>4 DEF TypeOK, UBTypeOK, BalanceCall, Step
<1> QED BY <1>1, <1>2, <1>3, <1>5 DEF TypeOK, UBTypeOK

\* Every action keeps every variable in its type.
LEMMA StepType == TypeOK /\ [Next]_vars => TypeOK'
<1> SUFFICES ASSUME TypeOK, [Next]_vars PROVE TypeOK'
  OBVIOUS
<1> USE DEF TypeOK, marks, sums, providerVars
<1>1. ASSUME NEW p \in Proc, NEW t \in Txn, OpenPayment(p, t)
      PROVE  TypeOK'
  BY <1>1, NoJobType DEF OpenPayment, UBTypeOK, ubVars, Job, Charge
<1>2. ASSUME NEW p \in Proc, NEW t \in Txn, NEW e \in Event,
             LoadTransaction(p, t, e)
      PROVE  TypeOK'
  BY <1>2, NoJobType DEF LoadTransaction, UBTypeOK, ubVars, Job
<1>3. ASSUME NEW p \in Proc, RecordTransaction(p)
      PROVE  TypeOK'
  BY <1>3, EndType DEF RecordTransaction, Status, Job
<1>4. ASSUME NEW p \in Proc, RetrieveIntent(p)
      PROVE  TypeOK'
  <2>1. CASE End(p)
    BY <1>4, <2>1, EndType DEF RetrieveIntent
  <2>2. CASE Continue(p, "check", "COMPLETED", Price[job[p].txn])
    <3>1. Price[job[p].txn] \in Nat
      BY DEF Job
    <3> QED BY <1>4, <2>2, <3>1, ContinueType DEF RetrieveIntent, Status
  <2> QED BY <1>4, <2>1, <2>2 DEF RetrieveIntent
<1>5. ASSUME NEW p \in Proc, RetrieveCharge(p)
      PROVE  TypeOK'
  <2>1. CASE End(p)
    BY <1>5, <2>1, EndType DEF RetrieveCharge
  <2>2. ASSUME NEW pc \in {"check", "save"}, NEW mark \in Status, NEW c \in Nat,
               Continue(p, pc, mark, c)
        PROVE  TypeOK'
    BY <1>5, <2>2, ContinueType DEF RetrieveCharge
  <2>3. paid[job[p].txn] \in Nat
    BY DEF Job
  <2> QED BY <1>5, <2>1, <2>2, <2>3 DEF RetrieveCharge, Status
<1>6. ASSUME NEW p \in Proc, CheckBalance(p)
      PROVE  TypeOK'
  <2> DEFINE u == Owner[job[p].txn]
             r == [user |-> u, assetCode |-> "BTC",
                   amount |-> job[p].credit + BalanceOf(users[u], "BTC"),
                   withheldAmount |-> Keep]
  <2>1. u \in User /\ job[p].credit \in Nat
    BY DEF Job
  <2>2. BalanceOf(users[u], "BTC") \in Int
    BY <2>1, BalanceOfType DEF UBTypeOK
  <2>3. r \in Request
    BY <2>1, <2>2 DEF Request, Asset
  <2>4. Call(p, r)
    BY <1>6 DEF CheckBalance
  <2>5. UBTypeOK'
    BY <2>3, <2>4, CallType
  <2> QED BY <1>6, <2>5 DEF CheckBalance, Job
<1>7. ASSUME NEW p \in Proc, UpdateFind(p)
      PROVE  TypeOK'
  BY <1>7, FindType DEF UpdateFind
<1>8. ASSUME NEW p \in Proc, UpdateSave(p)
      PROVE  TypeOK'
  <2>1. UBTypeOK'
    BY <1>8, SaveType DEF UpdateSave
  <2> QED BY <1>8, <2>1 DEF UpdateSave, Job
<1>9. ASSUME NEW p \in Proc, UpdateRejected(p)
      PROVE  TypeOK'
  BY <1>9 DEF UpdateRejected, SaveRejected, UBTypeOK, BalanceCall, Step
<1>10. ASSUME NEW p \in Proc, GiveUp(p)
      PROVE  TypeOK'
  BY <1>10, EndType DEF GiveUp
<1>11. ASSUME NEW p \in Proc, SaveTransaction(p)
      PROVE  TypeOK'
  BY <1>11, EndType DEF SaveTransaction, Job
<1>12. ASSUME NEW p \in Proc, Abort(p)
      PROVE  TypeOK'
  BY <1>12, EndType DEF Abort
<1>13. ASSUME NEW t \in Txn, NEW from \in Charge, NEW to \in Charge,
              NEW a \in Nat, NEW E \in SUBSET Event, Provider(t, from, to, a, E)
       PROVE  TypeOK'
  BY <1>13 DEF Provider, UBTypeOK, ubVars
<1>14. ASSUME NEW t \in Txn, ProviderNext(t)
       PROVE  TypeOK'
  <2>1. CASE StripePay(t)
    BY <2>1, <1>13 DEF StripePay, Charge
  <2>2. CASE CoinbaseDetect(t)
    BY <2>2, <1>13 DEF CoinbaseDetect, Charge, Event
  <2>3. CASE CoinbaseConfirm(t)
    BY <2>3, <1>13 DEF CoinbaseConfirm, Charge, Event
  <2>4. CASE CoinbaseGiveUp(t)
    BY <2>4, <1>13 DEF CoinbaseGiveUp, Charge, Event
  <2>5. CASE CoinbaseLate(t)
    BY <2>5, <1>13 DEF CoinbaseLate, Charge, Event
  <2> QED BY <1>14, <2>1, <2>2, <2>3, <2>4, <2>5 DEF ProviderNext
<1>15. CASE UNCHANGED vars
  BY <1>15 DEF vars, ubVars, UBTypeOK
<1> QED BY <1>1, <1>2, <1>3, <1>4, <1>5, <1>6, <1>7, <1>8, <1>9, <1>10, <1>11,
           <1>12, <1>14, <1>15 DEF Next, HandlerNext

\* Type correctness: whatever handlers, providers and faults do, every
\* variable keeps its type.
THEOREM TypeCorrect == Spec => []TypeOK
BY InitType, StepType, PTL DEF Spec
----------------------------------------------------------------------------
(* The providers.                                                          *)

\* Only OpenPayment and the providers themselves change what a provider
\* knows; a step of a handler leaves it alone.
LEMMA HandlerLeavesProvider ==
    ASSUME NEW p \in Proc,
           \/ \E t \in Txn, e \in Event : LoadTransaction(p, t, e)
           \/ HandlerNext(p)
           \/ Abort(p)
    PROVE  UNCHANGED providerVars
BY DEF HandlerNext, LoadTransaction, RecordTransaction, RetrieveIntent,
       RetrieveCharge, CheckBalance, UpdateFind, UpdateSave, UpdateRejected,
       GiveUp, SaveTransaction, Abort

\* The events of a charge follow its status; what is settled stays so, and a
\* payment stays what it was.
LEMMA ProviderStep ==
    ASSUME TypeOK, ChargeInv, [Next]_vars
    PROVE  /\ ChargeInv'
           /\ \A t \in Txn : /\ sent[t] \subseteq sent'[t]
                             /\ Settled(t) => Settled(t)'
                             /\ paid[t] > 0 => paid'[t] = paid[t]
<1> USE DEF TypeOK, ChargeInv, Settled, providerVars
<1>1. CASE UNCHANGED providerVars
  BY <1>1
<1>2. ASSUME NEW p \in Proc, NEW t \in Txn, OpenPayment(p, t)
      PROVE  /\ ChargeInv'
             /\ \A x \in Txn : /\ sent[x] \subseteq sent'[x]
                               /\ Settled(x) => Settled(x)'
                               /\ paid[x] > 0 => paid'[x] = paid[x]
  BY <1>2 DEF OpenPayment
<1>3. ASSUME NEW t \in Txn, ProviderNext(t)
      PROVE  /\ ChargeInv'
             /\ \A x \in Txn : /\ sent[x] \subseteq sent'[x]
                               /\ Settled(x) => Settled(x)'
                               /\ paid[x] > 0 => paid'[x] = paid[x]
  <2> USE DEF Provider
  <2>1. CASE StripePay(t)
    BY <2>1 DEF StripePay
  <2>2. CASE CoinbaseDetect(t)
    BY <2>2 DEF CoinbaseDetect
  <2>3. CASE CoinbaseConfirm(t)
    BY <2>3 DEF CoinbaseConfirm
  <2>4. CASE CoinbaseGiveUp(t)
    BY <2>4 DEF CoinbaseGiveUp
  <2>5. CASE CoinbaseLate(t)
    BY <2>5 DEF CoinbaseLate
  <2> QED BY <1>3, <2>1, <2>2, <2>3, <2>4, <2>5 DEF ProviderNext
<1>4. CASE UNCHANGED vars
  BY <1>1, <1>4 DEF vars
<1> QED BY <1>1, <1>2, <1>3, <1>4, HandlerLeavesProvider DEF Next
----------------------------------------------------------------------------
(* The handlers.                                                           *)

\* What any step only adds to.
Grows ==
    /\ \A t \in Txn : /\ sent[t] \subseteq sent'[t]
                      /\ Settled(t) => Settled(t)'
                      /\ paid[t] > 0 => paid'[t] = paid[t]
                      /\ applied'[t] >= applied[t]
    /\ \A u \in User : credits'[u] >= credits[u]
    /\ early \subseteq early'

\* Every step of topUpWalletConfirm and of the providers grows the history.
LEMMA StepGrows ==
    ASSUME TypeOK, ChargeInv, [Next]_vars
    PROVE  Grows
<1> USE DEF TypeOK, history, sums
<1>1. CASE UNCHANGED history
  BY <1>1, ProviderStep DEF Grows
<1>2. ASSUME NEW p \in Proc, UpdateSave(p)
      PROVE  Grows
  BY <1>2, ProviderStep DEF UpdateSave, Grows, Job
<1> QED
  BY <1>1, <1>2 DEF Next, vars, HandlerNext, ProviderNext, OpenPayment,
     LoadTransaction, RecordTransaction, RetrieveIntent, RetrieveCharge,
     CheckBalance, UpdateFind, UpdateRejected, GiveUp, SaveTransaction, Abort,
     Provider, StripePay, CoinbaseDetect, CoinbaseConfirm, CoinbaseGiveUp,
     CoinbaseLate

\* A credit that is paid is settled if its event was emitted.
LEMMA PaidHandler ==
    ASSUME NEW q \in Proc, TypeOK', ChargeInv', HandlerOK(q)',
           (job[q].mark = "COMPLETED")' =>
               (job[q].credit = paid[job[q].txn] /\ paid[job[q].txn] > 0)'
    PROVE  CreditIsPaid(q)'
<1>1. (job[q].txn \in Txn)'
  BY DEF TypeOK, Job
<1> QED BY <1>1 DEF ChargeInv, HandlerOK, CreditIsPaid, Announced, Handled, Settled

\* A handler that takes no step stays all right while the others grow.
LEMMA Resting ==
    ASSUME IInv, TypeOK', ChargeInv', Grows, NEW q \in Proc,
           job'[q] = job[q], call'[q] = call[q]
    PROVE  HandlerOK(q)' /\ CreditIsPaid(q)'
<1>1. HandlerOK(q)'
  BY DEF IInv, TypeOK, UBTypeOK, HandlerInv, HandlerOK, Grows, Job, BalanceCall, Settled
<1>2. job[q].txn \in Txn /\ CreditIsPaid(q)
  BY DEF IInv, TypeOK, Job, CreditsArePaid
<1> QED BY <1>1, <1>2, PaidHandler DEF CreditIsPaid, Grows

\* A handler that ends, or has not started, is all right.
LEMMA Ended ==
    ASSUME IInv, NEW p \in Proc, End(p)
    PROVE  /\ HandlerOK(p)' /\ CreditIsPaid(p)'
           /\ \A q \in Proc \ {p} : job'[q] = job[q] /\ call'[q] = call[q]
           /\ UNCHANGED users
BY DEF IInv, TypeOK, UBTypeOK, End, Return, HandlerOK, CreditIsPaid, NoJob, NoCall

\* What one handler's step leaves in place, when it does not apply a credit.
LEMMA HandlerStep ==
    ASSUME IInv, [Next]_vars, NEW p \in Proc,
           \A q \in Proc \ {p} : job'[q] = job[q] /\ call'[q] = call[q],
           HandlerOK(p)', CreditIsPaid(p)',
           UNCHANGED <<users, status, history>>
    PROVE  IInv'
<1>1. TypeOK' /\ ChargeInv' /\ Grows
  BY StepType, ProviderStep, StepGrows DEF IInv
<1>2. HandlerInv' /\ \A q \in Proc : CreditIsPaid(q)'
  BY <1>1, Resting DEF HandlerInv
<1>3. CreditsArePaid' /\ CompletedWasCredited' /\ BalanceBacked'
  BY <1>1, <1>2 DEF IInv, Grows, CreditsArePaid, CompletedWasCredited,
     BalanceBacked, history
<1> QED BY <1>1, <1>2, <1>3 DEF IInv

\* topUpWallet opens a payment: a new handler, and a charge without events.
LEMMA OpenSafe ==
    ASSUME IInv, NEW p \in Proc, NEW t \in Txn, OpenPayment(p, t)
    PROVE  IInv'
<1>1. [Next]_vars
  BY DEF Next
<1>2. job[p].pc = "idle" /\ call'[p] = call[p] /\ job'[p].pc = "record"
      /\ job'[p].mark = "none" /\ call[p].step = "idle"
  BY DEF IInv, TypeOK, OpenPayment, NoJob, HandlerInv, HandlerOK, ubVars
<1>3. HandlerOK(p)' /\ CreditIsPaid(p)'
  BY <1>2 DEF HandlerOK, CreditIsPaid, IInv, TypeOK, UBTypeOK, BalanceCall
<1> QED BY <1>1, <1>3, HandlerStep DEF OpenPayment, ubVars, IInv, TypeOK, sums, history

\* findOne loads the transaction.
LEMMA LoadSafe ==
    ASSUME IInv, NEW p \in Proc, NEW t \in Txn, NEW e \in Event,
           LoadTransaction(p, t, e)
    PROVE  IInv'
<1>1. [Next]_vars
  BY DEF Next
<1>2. /\ job[p].pc = "idle" /\ call'[p] = call[p] /\ job'[p].pc = "retrieve"
      /\ job'[p].mark = "none" /\ call[p].step = "idle"
      /\ Kind[job'[p].txn] = "STRIPE" => ~ Refused(job'[p].found)
  BY DEF IInv, TypeOK, LoadTransaction, NoJob, HandlerInv, HandlerOK, ubVars
<1>3. CreditIsPaid(p)'
  BY <1>2 DEF CreditIsPaid
<1>4. HandlerOK(p)'
  BY <1>2 DEF HandlerOK, Refused
<1> QED BY <1>1, <1>3, <1>4, HandlerStep
        DEF LoadTransaction, ubVars, IInv, TypeOK, sums, history

\* An ending handler that writes no status, and one that continues.
LEMMA EndSafe ==
    ASSUME IInv, NEW p \in Proc, [Next]_vars, End(p), UNCHANGED <<status, history>>
    PROVE  IInv'
BY Ended, HandlerStep

\* A handler that marks COMPLETED goes on with a payment, and with an event
\* it acts on.
LEMMA ContinueSafe ==
    ASSUME IInv, NEW p \in Proc, [Next]_vars, job[p].pc = "retrieve",
           NEW pc, NEW mark, NEW credit, Continue(p, pc, mark, credit),
           ~ Refused(job[p].found), mark # "none",
           \/ pc = "check" /\ mark = "COMPLETED"
           \/ pc = "save" /\ mark # "COMPLETED",
           mark = "COMPLETED" =>
               /\ credit = paid[job[p].txn] /\ paid[job[p].txn] > 0
               /\ IF Kind[job[p].txn] = "STRIPE" THEN Settled(job[p].txn)
                  ELSE Handled(job[p].event),
           UNCHANGED <<status, history, providerVars>>
    PROVE  IInv'
<1>1. call[p].step = "idle"
  BY DEF IInv, HandlerInv, HandlerOK
<1>2. /\ job'[p].pc = pc /\ job'[p].mark = mark /\ job'[p].credit = credit
      /\ job'[p].txn = job[p].txn /\ job'[p].event = job[p].event
      /\ job'[p].found = job[p].found /\ call'[p] = call[p]
      /\ \A q \in Proc \ {p} : job'[q] = job[q] /\ call'[q] = call[q]
      /\ UNCHANGED users
  BY DEF Continue, IInv, TypeOK, Job, ubVars
<1>3. TypeOK' /\ ChargeInv'
  BY StepType, ProviderStep DEF IInv
<1>4. HandlerOK(p)'
  BY <1>1, <1>2 DEF HandlerOK, Settled, providerVars
<1>5. CreditIsPaid(p)'
  BY <1>2, <1>3, <1>4, PaidHandler DEF providerVars
<1> QED BY <1>2, <1>4, <1>5, HandlerStep

\* The answer of Stripe keeps the invariant.
LEMMA IntentSafe ==
    ASSUME IInv, NEW p \in Proc, RetrieveIntent(p)
    PROVE  IInv'
<1>1. [Next]_vars /\ UNCHANGED <<status, history, providerVars>>
  BY DEF Next, HandlerNext, RetrieveIntent, sums, history
<1>2. CASE End(p)
  BY <1>1, <1>2, EndSafe
<1>3. CASE /\ provider[job[p].txn] = "succeeded"
           /\ Continue(p, "check", "COMPLETED", Price[job[p].txn])
  <2>1. ~ Refused(job[p].found)
    BY DEF IInv, HandlerInv, HandlerOK, RetrieveIntent
  <2>2. /\ Settled(job[p].txn) /\ Price[job[p].txn] = paid[job[p].txn]
        /\ Price[job[p].txn] > 0
    BY <1>3 DEF IInv, TypeOK, Job, ChargeInv, Settled
  <2> QED BY <1>1, <1>3, <2>1, <2>2, ContinueSafe DEF RetrieveIntent
<1> QED BY <1>2, <1>3 DEF RetrieveIntent

\* The answer of Coinbase keeps it.
LEMMA ChargeSafe ==
    ASSUME IInv, NEW p \in Proc, RetrieveCharge(p)
    PROVE  IInv'
<1> DEFINE t == job[p].txn
<1>1. [Next]_vars /\ UNCHANGED <<status, history, providerVars>>
  BY DEF Next, HandlerNext, RetrieveCharge, sums, history
<1>2. CASE End(p)
  BY <1>1, <1>2, EndSafe
<1>3. ASSUME NEW mark, mark \notin {"none", "COMPLETED"}, Continue(p, "save", mark, 0),
             ~ Refused(job[p].found)
      PROVE  IInv'
  BY <1>1, <1>3, ContinueSafe DEF RetrieveCharge
<1>4. CASE /\ Handled(job[p].event) /\ ~ Refused(job[p].found)
           /\ paid[t] # 0
           /\ Continue(p, "check", "COMPLETED", paid[t])
  <2>1. paid[t] > 0 /\ Kind[t] # "STRIPE"
    BY <1>4 DEF IInv, TypeOK, Job, RetrieveCharge
  <2> QED BY <1>1, <1>4, <2>1, ContinueSafe DEF RetrieveCharge
<1> QED BY <1>2, <1>3, <1>4 DEF RetrieveCharge

\* The sum sent to balanceUpdate: what checkBalance reads is backed, so the
\* sum is backed together with the credit of the handler.
LEMMA CheckSafe ==
    ASSUME IInv, NEW p \in Proc, CheckBalance(p)
    PROVE  IInv'
<1> DEFINE t == job[p].txn
           u == Owner[t]
           r == [user |-> u, assetCode |-> "BTC",
                 amount |-> job[p].credit + BalanceOf(users[u], "BTC"),
                 withheldAmount |-> Keep]
<1>1. [Next]_vars
  BY DEF Next, HandlerNext
<1>2. /\ t \in Txn /\ u \in User /\ job[p].credit \in Nat
      /\ users[u] \in UserDoc /\ credits[u] \in Nat
  BY DEF IInv, TypeOK, UBTypeOK, Job
<1>3. BalanceOf(users[u], "BTC") \in Int
  BY <1>2, BalanceOfType
<1>4. BalanceOf(users[u], "BTC") <= credits[u]
  BY <1>2 DEF IInv, BalanceBacked
<1>5. /\ job'[p] = [job[p] EXCEPT !.pc = "save"]
      /\ call'[p] = [NoCall EXCEPT !.step = "find", !.req = r]
      /\ \A q \in Proc \ {p} : job'[q] = job[q] /\ call'[q] = call[q]
      /\ UNCHANGED <<users, history>>
  BY DEF CheckBalance, Call, IInv, TypeOK, UBTypeOK, sums, history
<1>6. job[p].mark = "COMPLETED" /\ HandlerOK(p) /\ CreditIsPaid(p)
  BY DEF IInv, HandlerInv, HandlerOK, CreditsArePaid, CheckBalance
<1>7. /\ job'[p].pc = "save" /\ job'[p].mark = "COMPLETED"
      /\ job'[p].txn = t /\ job'[p].credit = job[p].credit
      /\ job'[p].event = job[p].event /\ job'[p].found = job[p].found
  BY <1>5, <1>6 DEF IInv, TypeOK, Job
<1>8. call'[p].step = "find" /\ call'[p].req = r
  BY <1>5 DEF NoCall
<1>9. r.amount \in Amount /\ r.amount <= credits[u] + job[p].credit
  BY <1>2, <1>3, <1>4
<1>10. HandlerOK(p)'
  BY <1>5, <1>6, <1>7, <1>8, <1>9 DEF HandlerOK, history, CheckBalance, Settled, providerVars
<1>11. CreditIsPaid(p)'
  BY <1>6, <1>7 DEF CreditIsPaid, CheckBalance, Announced, Settled, providerVars
<1> QED BY <1>1, <1>5, <1>10, <1>11, HandlerStep DEF CheckBalance

\* balanceUpdate loading the user keeps it.
LEMMA FindSafe ==
    ASSUME IInv, NEW p \in Proc, UpdateFind(p)
    PROVE  IInv'
<1>1. [Next]_vars
  BY DEF Next, HandlerNext
<1>2. /\ call'[p].step = "save" /\ call'[p].req = call[p].req
      /\ call[p].step # "idle" /\ UNCHANGED <<job, history, providerVars, users, status>>
      /\ \A q \in Proc \ {p} : call'[q] = call[q]
  BY DEF UpdateFind, FindUser, IInv, TypeOK, UBTypeOK, BalanceCall, sums, history
<1>3. HandlerOK(p) /\ CreditIsPaid(p)
  BY DEF IInv, HandlerInv, CreditsArePaid
<1>4. HandlerOK(p)' /\ CreditIsPaid(p)'
  BY <1>2, <1>3 DEF HandlerOK, CreditIsPaid, Announced, Settled, history, providerVars
<1> QED BY <1>1, <1>2, <1>4, HandlerStep

\* A rejected save (VersionError) changes no balance and no credit.
LEMMA RejectedSafe ==
    ASSUME IInv, NEW p \in Proc, UpdateRejected(p)
    PROVE  IInv'
<1>1. [Next]_vars
  BY DEF Next, HandlerNext
<1>2. /\ call'[p].step = "failed" /\ call'[p].req = call[p].req
      /\ call[p].step # "idle" /\ UNCHANGED <<job, history, providerVars, users, status>>
      /\ \A q \in Proc \ {p} : call'[q] = call[q]
  BY DEF UpdateRejected, SaveRejected, IInv, TypeOK, UBTypeOK, BalanceCall, sums, history
<1>3. HandlerOK(p) /\ CreditIsPaid(p)
  BY DEF IInv, HandlerInv, CreditsArePaid
<1>4. HandlerOK(p)' /\ CreditIsPaid(p)'
  BY <1>2, <1>3 DEF HandlerOK, CreditIsPaid, Announced, Settled, history, providerVars
<1> QED BY <1>1, <1>2, <1>4, HandlerStep

\* The save that applies a credit.
LEMMA SaveSafe ==
    ASSUME IInv, NEW p \in Proc, UpdateSave(p)
    PROVE  IInv'
<1> DEFINE t == job[p].txn
           u == Owner[t]
           r == call[p].req
<1>1. [Next]_vars
  BY DEF Next, HandlerNext
<1>2. TypeOK' /\ ChargeInv' /\ Grows
  BY <1>1, StepType, ProviderStep, StepGrows DEF IInv
<1>3. call[p].step = "save"
  BY DEF UpdateSave, SaveUser
<1>4. /\ job[p].pc = "save" /\ job[p].mark = "COMPLETED"
      /\ r.user = u /\ r.assetCode = "BTC"
      /\ r.amount \in Amount /\ r.amount <= credits[u] + job[p].credit
  BY <1>3 DEF IInv, HandlerInv, HandlerOK
<1>5. /\ t \in Txn /\ u \in User /\ job[p].credit \in Nat /\ r \in Request
      /\ call[p].snap \in UserDoc /\ users[u] \in UserDoc
  BY DEF IInv, TypeOK, UBTypeOK, Job, BalanceCall
<1>6. /\ users' = [users EXCEPT ![u] = Saved(users[u], call[p].snap, r)]
      /\ call' = [call EXCEPT ![p] = [@ EXCEPT !.step = "saved"]]
      /\ applied' = [applied EXCEPT ![t] = @ + 1]
      /\ credits' = [credits EXCEPT ![u] = @ + job[p].credit]
      /\ early' = IF Announced(p) THEN early ELSE early \cup {t}
      /\ UNCHANGED <<job, status, providerVars>>
  BY <1>4 DEF UpdateSave, SaveUser
<1>7. applied'[t] > 0 /\ credits'[u] = credits[u] + job[p].credit
  BY <1>5, <1>6 DEF IInv, TypeOK
<1>8. call'[p].step = "saved" /\ call'[p].req = r
      /\ \A q \in Proc \ {p} : call'[q] = call[q] /\ job'[q] = job[q]
  BY <1>6 DEF IInv, TypeOK, UBTypeOK, BalanceCall
<1>9. /\ CreditIsPaid(p) /\ HandlerOK(p)
      /\ paid[t] > 0 /\ (Settled(t) \/ t \in early')
  BY <1>4, <1>6 DEF IInv, CreditsArePaid, CreditIsPaid, HandlerInv
<1>10. HandlerOK(p)' /\ CreditIsPaid(p)'
  <2>1. r.amount <= credits'[u] + job[p].credit
    BY <1>4, <1>5, <1>7 DEF IInv, TypeOK
  <2> QED BY <1>4, <1>6, <1>7, <1>8, <1>9, <2>1
          DEF HandlerOK, CreditIsPaid, Announced, Settled, providerVars
<1>11. HandlerInv'
  BY <1>2, <1>8, <1>10, Resting DEF HandlerInv
<1>12. CreditsArePaid'
  <2>1. \A q \in Proc : CreditIsPaid(q)'
    BY <1>2, <1>8, <1>10, Resting
  <2>2. ASSUME NEW x \in Txn, applied'[x] > 0
        PROVE  paid'[x] > 0 /\ (Settled(x)' \/ x \in early')
    <3>1. CASE x = t
      BY <1>2, <1>5, <1>9, <3>1 DEF Grows
    <3>2. CASE x # t
      BY <1>2, <1>6, <2>2, <3>2 DEF IInv, CreditsArePaid, Grows, TypeOK
    <3> QED BY <3>1, <3>2
  <2> QED BY <2>1, <2>2 DEF CreditsArePaid
<1>13. CompletedWasCredited'
  BY <1>2, <1>6 DEF IInv, CompletedWasCredited, Grows, TypeOK
<1>14. BalanceBacked'
  <2>1. BalanceOf(users'[u], "BTC") <= credits'[u]
    <3>1. users'[u] = Saved(users[u], call[p].snap, r)
      BY <1>5, <1>6 DEF IInv, TypeOK, UBTypeOK
    <3>2. BalanceOf(users'[u], "BTC") \in {r.amount, BalanceOf(users[u], "BTC")}
      BY <1>4, <1>5, <3>1, SavedBalance
    <3>3. BalanceOf(users[u], "BTC") <= credits[u]
      BY <1>5 DEF IInv, BalanceBacked
    <3>4. BalanceOf(users[u], "BTC") \in Int /\ credits[u] \in Nat
      BY <1>5, BalanceOfType DEF IInv, TypeOK
    <3> QED BY <1>4, <1>5, <1>7, <3>2, <3>3, <3>4
  <2>2. ASSUME NEW v \in User, v # u
        PROVE  BalanceOf(users'[v], "BTC") <= credits'[v]
    <3>1. users'[v] = users[v] /\ credits'[v] = credits[v]
      BY <1>6, <2>2 DEF IInv, TypeOK, UBTypeOK
    <3> QED BY <3>1 DEF IInv, BalanceBacked
  <2> QED BY <2>1, <2>2 DEF BalanceBacked
<1> QED BY <1>2, <1>11, <1>12, <1>13, <1>14 DEF IInv

\* The steps that end a handler and may write a status.
LEMMA EndWritesSafe ==
    ASSUME IInv, NEW p \in Proc, [Next]_vars, End(p), UNCHANGED history,
           \A t \in Txn : status'[t] = "COMPLETED" =>
               status[t] = "COMPLETED" \/ applied[t] > 0
    PROVE  IInv'
<1>1. TypeOK' /\ ChargeInv' /\ Grows
  BY StepType, ProviderStep, StepGrows DEF IInv
<1>2. HandlerInv' /\ \A q \in Proc : CreditIsPaid(q)'
  BY <1>1, Ended, Resting DEF HandlerInv
<1>3. CreditsArePaid' /\ CompletedWasCredited' /\ BalanceBacked'
  BY <1>1, <1>2, Ended DEF IInv, Grows, CreditsArePaid, CompletedWasCredited,
     BalanceBacked, history
<1> QED BY <1>1, <1>2, <1>3 DEF IInv

\* createOrUpdateTransaction writes PENDING only.
LEMMA RecordSafe ==
    ASSUME IInv, NEW p \in Proc, RecordTransaction(p)
    PROVE  IInv'
<1>1. [Next]_vars
  BY DEF Next, HandlerNext
<1>2. \A t \in Txn : status'[t] = "COMPLETED" => status[t] = "COMPLETED"
  BY DEF RecordTransaction, IInv, TypeOK
<1> QED BY <1>1, <1>2, EndWritesSafe DEF RecordTransaction, sums, history

\* transaction.save() writes COMPLETED only after the credit was applied.
LEMMA SaveTransactionSafe ==
    ASSUME IInv, NEW p \in Proc, SaveTransaction(p)
    PROVE  IInv'
<1>1. [Next]_vars
  BY DEF Next, HandlerNext
<1>2. job[p].mark = "COMPLETED" => applied[job[p].txn] > 0
  BY DEF SaveTransaction, IInv, HandlerInv, HandlerOK
<1>3. \A t \in Txn : status'[t] \in {status[t], job[p].mark}
  BY DEF SaveTransaction, IInv, TypeOK
<1>4. \A t \in Txn : status'[t] # status[t] => t = job[p].txn
  BY DEF SaveTransaction, IInv, TypeOK
<1> QED BY <1>1, <1>2, <1>3, <1>4, EndWritesSafe DEF SaveTransaction, history

\* A step of a provider moves nothing of ours.
LEMMA ProviderSafe ==
    ASSUME IInv, NEW t \in Txn, ProviderNext(t)
    PROVE  IInv'
<1>1. [Next]_vars
  BY DEF Next
<1>2. TypeOK' /\ ChargeInv' /\ Grows
  BY <1>1, StepType, ProviderStep, StepGrows DEF IInv
<1>3. UNCHANGED <<ubVars, status, job, history>>
  BY DEF sums, history, ProviderNext, StripePay, CoinbaseDetect, CoinbaseConfirm,
     CoinbaseGiveUp, CoinbaseLate, Provider
<1>4. HandlerInv' /\ \A q \in Proc : CreditIsPaid(q)'
  BY <1>2, <1>3, Resting DEF HandlerInv, ubVars
<1>5. CreditsArePaid' /\ CompletedWasCredited' /\ BalanceBacked'
  BY <1>2, <1>3, <1>4 DEF IInv, Grows, CreditsArePaid, CompletedWasCredited,
     BalanceBacked, history, ubVars
<1> QED BY <1>2, <1>4, <1>5 DEF IInv
----------------------------------------------------------------------------
(* The theorems.                                                           *)

\* The initial state satisfies the inductive invariant.
LEMMA InitSafe == Init => IInv
<1> SUFFICES ASSUME Init PROVE IInv
  OBVIOUS
<1>1. TypeOK
  BY InitType
<1>2. ASSUME NEW u \in User PROVE BalanceOf(users[u], "BTC") = 0
  <2>1. users[u] = EmptyDoc
    BY DEF Init, UBInit
  <2>2. EmptyDoc.balance = << >>
    BY DEF EmptyDoc
  <2>3. ~ HasEntry(users[u].balance, "BTC")
    BY <2>1, <2>2 DEF HasEntry, Positions
  <2> QED BY <2>3 DEF BalanceOf
<1>3. \A u \in User : credits[u] = 0
  BY DEF Init
<1>4. BalanceBacked
  <2>1. ASSUME NEW u \in User PROVE BalanceOf(users[u], "BTC") <= credits[u]
    <3>1. BalanceOf(users[u], "BTC") = 0 /\ credits[u] = 0
      BY <1>2, <1>3
    <3>2. 0 <= 0
      OBVIOUS
    <3> QED BY <3>1, <3>2
  <2> QED BY <2>1 DEF BalanceBacked
<1>5. \A p \in Proc : HandlerOK(p) /\ CreditIsPaid(p)
  BY DEF Init, UBInit, HandlerOK, CreditIsPaid, NoJob, NoCall
<1> QED BY <1>1, <1>4, <1>5 DEF Init, IInv, ChargeInv, HandlerInv,
           CreditsArePaid, CompletedWasCredited

\* Every step preserves it.
LEMMA StepSafe == IInv /\ [Next]_vars => IInv'
<1> SUFFICES ASSUME IInv, [Next]_vars PROVE IInv'
  OBVIOUS
<1>1. ASSUME NEW p \in Proc, GiveUp(p) PROVE IInv'
  BY <1>1, EndSafe DEF GiveUp, sums, history
<1>2. ASSUME NEW p \in Proc, Abort(p) PROVE IInv'
  BY <1>2, EndSafe DEF Abort, sums, history
<1>3. CASE UNCHANGED vars
  BY <1>3 DEF vars, ubVars, providerVars, marks, sums, Announced, IInv, TypeOK, UBTypeOK,
     ChargeInv, HandlerInv, HandlerOK, CreditsArePaid, CreditIsPaid, Settled,
     CompletedWasCredited, BalanceBacked
<1> QED BY <1>1, <1>2, <1>3, OpenSafe, LoadSafe, RecordSafe, IntentSafe,
           ChargeSafe, CheckSafe, FindSafe, SaveSafe, RejectedSafe,
           SaveTransactionSafe, ProviderSafe DEF Next, HandlerNext

\* The inductive invariant.
THEOREM Inductive == Spec => []IInv
BY InitSafe, StepSafe, PTL DEF Spec

\* Only money a provider has collected reaches a balance, in the amount it
\* collected.
THEOREM OnlyPaidIsCredited == Spec => []CreditsArePaid
BY Inductive, PTL DEF IInv

\* A transaction reads COMPLETED only after its balanceUpdate succeeded.
THEOREM CompletedIsCredited == Spec => []CompletedWasCredited
BY Inductive, PTL DEF IInv

\* A balance never exceeds the credits applied to it.
THEOREM BalanceIsBacked == Spec => []BalanceBacked
BY Inductive, PTL DEF IInv
----------------------------------------------------------------------------
(* The sums of overlapping confirmations.                                  *)

\* Only p moves.
Others(p) == \A q \in Proc \ {p} : job'[q] = job[q] /\ call'[q] = call[q]

\* A new user has no balance, and nothing was added for it.
LEMMA InitKept == Init => KeptInv
<1> SUFFICES ASSUME Init PROVE KeptInv
  OBVIOUS
<1>1. \A p \in Proc : SumOK(p)
  BY DEF Init, UBInit, NoCall, SumOK
<1>2. ASSUME NEW u \in User
      PROVE  BalanceOf(users[u], "BTC") >= credits[u] - atRisk[u]
  <2>1. users[u] = EmptyDoc /\ EmptyDoc.balance = << >>
    BY DEF Init, UBInit, EmptyDoc
  <2>2. ~ HasEntry(users[u].balance, "BTC")
    BY <2>1 DEF HasEntry, Positions
  <2>3. BalanceOf(users[u], "BTC") = 0 /\ credits[u] = 0 /\ atRisk[u] = 0
    BY <2>2 DEF BalanceOf, Init
  <2> QED BY <2>3
<1> QED BY <1>1, <1>2, InitSafe DEF KeptInv, CreditsKept

\* A handler that takes no step keeps its sum while the balances rest, unless
\* another window opens beside it; then it is marked.
LEMMA RestingSum ==
    ASSUME KeptInv, NEW p \in Proc, NEW q \in Proc \ {p}, Others(p),
           UNCHANGED <<users, credits, atRisk>>,
           q \in shared => q \in shared',
           \/ q \in shared'
           \/ ~ Summing(p, call[q].req.user)'
           \/ Summing(p, call[q].req.user)
    PROVE  SumOK(q)'
<1>1. job'[q] = job[q] /\ call'[q] = call[q] /\ SumOK(q)
  BY DEF Others, KeptInv
<1>2. \A x \in Proc \ {p} : call'[x] = call[x]
  BY DEF Others
<1> QED BY <1>1, <1>2 DEF SumOK, Summing

\* A step of p that leaves it without a sum to store.
LEMMA QuietKept ==
    ASSUME KeptInv, [Next]_vars, NEW p \in Proc, Others(p),
           UNCHANGED <<users, credits, atRisk>>,
           call'[p].step \notin {"find", "save"}, shared \ {p} \subseteq shared'
    PROVE  KeptInv'
<1>1. IInv' /\ CreditsKept'
  BY StepSafe DEF KeptInv, CreditsKept
<1>2. SumOK(p)' /\ \A u \in User : ~ Summing(p, u)'
  BY DEF SumOK, Summing
<1>3. \A q \in Proc \ {p} : SumOK(q)'
  BY <1>2, RestingSum DEF Summing
<1> QED BY <1>1, <1>2, <1>3 DEF KeptInv

\* Most steps of a handler are of that kind.
LEMMA QuietActions ==
    ASSUME KeptInv, NEW p \in Proc,
           \/ \E t \in Txn : OpenPayment(p, t)
           \/ \E t \in Txn, e \in Event : LoadTransaction(p, t, e)
           \/ RecordTransaction(p) \/ RetrieveIntent(p) \/ RetrieveCharge(p)
           \/ UpdateRejected(p) \/ GiveUp(p) \/ SaveTransaction(p) \/ Abort(p)
    PROVE  KeptInv'
<1>1. [Next]_vars
  BY DEF Next, HandlerNext
<1>2. /\ job \in [Proc -> Job] /\ call \in [Proc -> BalanceCall]
      /\ job[p].pc \in {"idle", "record", "retrieve"} => call[p].step = "idle"
  BY DEF KeptInv, IInv, TypeOK, UBTypeOK, HandlerInv, HandlerOK
<1>3. NoCall.step = "idle"
  BY DEF NoCall
<1>4. ASSUME End(p), UNCHANGED <<credits, atRisk>> PROVE KeptInv'
  <2>1. Others(p) /\ UNCHANGED users /\ call'[p].step = "idle"
    BY <1>2, <1>3, <1>4 DEF End, Return, Others
  <2> QED BY <1>1, <1>4, <2>1, QuietKept DEF End
<1>5. ASSUME NEW j, job' = [job EXCEPT ![p] = j], call[p].step = "idle",
             UNCHANGED <<ubVars, shared, credits, atRisk>>
      PROVE  KeptInv'
  <2>1. Others(p) /\ call'[p].step = "idle" /\ UNCHANGED users
    BY <1>2, <1>5 DEF Others, ubVars
  <2> QED BY <1>1, <1>5, <2>1, QuietKept
<1>6. CASE \E t \in Txn : OpenPayment(p, t)
  BY <1>2, <1>5, <1>6 DEF OpenPayment, marks, sums
<1>7. CASE \E t \in Txn, e \in Event : LoadTransaction(p, t, e)
  BY <1>2, <1>5, <1>7 DEF LoadTransaction, sums
<1>8. CASE RecordTransaction(p)
  BY <1>4, <1>8 DEF RecordTransaction, sums
<1>9. CASE RetrieveIntent(p)
  <2>1. CASE End(p)
    BY <1>4, <1>9, <2>1 DEF RetrieveIntent, sums
  <2>2. CASE ~ End(p)
    BY <1>2, <1>5, <1>9, <2>2 DEF RetrieveIntent, Continue, marks, sums
  <2> QED BY <2>1, <2>2
<1>10. CASE RetrieveCharge(p)
  <2>1. CASE End(p)
    BY <1>4, <1>10, <2>1 DEF RetrieveCharge, sums
  <2>2. CASE ~ End(p)
    BY <1>2, <1>5, <1>10, <2>2 DEF RetrieveCharge, Continue, marks, sums
  <2> QED BY <2>1, <2>2
<1>11. CASE UpdateRejected(p)
  <2>1. /\ Others(p) /\ call'[p].step = "failed"
        /\ UNCHANGED <<users, shared, credits, atRisk>>
    BY <1>2, <1>11 DEF UpdateRejected, SaveRejected, Others, BalanceCall, marks, sums
  <2> QED BY <1>1, <2>1, QuietKept
<1>12. CASE GiveUp(p) \/ Abort(p)
  BY <1>4, <1>12 DEF GiveUp, Abort, sums
<1>13. CASE SaveTransaction(p)
  BY <1>4, <1>13 DEF SaveTransaction
<1> QED BY <1>6, <1>7, <1>8, <1>9, <1>10, <1>11, <1>12, <1>13

\* checkBalance: the sum holds all that is safe; a handler whose window is
\* open for the same user, and this one with it, is marked.
LEMMA CheckKept ==
    ASSUME KeptInv, NEW p \in Proc, CheckBalance(p)
    PROVE  KeptInv'
<1> DEFINE u == Owner[job[p].txn]
           others == {q \in Proc : Summing(q, u)}
           r == [user |-> u, assetCode |-> "BTC",
                 amount |-> job[p].credit + BalanceOf(users[u], "BTC"),
                 withheldAmount |-> Keep]
<1>1. [Next]_vars
  BY DEF Next, HandlerNext
<1>2. IInv' /\ CreditsKept'
  BY <1>1, StepSafe DEF KeptInv, CreditsKept, CheckBalance, Call, sums
<1>3. /\ u \in User /\ job[p].credit \in Nat /\ users[u] \in UserDoc
      /\ credits[u] \in Nat /\ atRisk[u] \in Nat
      /\ job \in [Proc -> Job] /\ call \in [Proc -> BalanceCall]
  BY DEF KeptInv, IInv, TypeOK, UBTypeOK, Job
<1>4. BalanceOf(users[u], "BTC") \in Int
  BY <1>3, BalanceOfType
<1>5. /\ job'[p].credit = job[p].credit /\ job'[p].txn = job[p].txn /\ Others(p)
      /\ call'[p] = [NoCall EXCEPT !.step = "find", !.req = r]
      /\ UNCHANGED <<users, credits, atRisk>>
      /\ shared' = IF others = {} THEN shared ELSE shared \cup others \cup {p}
  BY <1>3 DEF CheckBalance, Call, Others, Job, sums
<1>6. call'[p].step = "find" /\ call'[p].req = r
  BY <1>5 DEF NoCall
<1>7. call[p].step = "idle"
  BY DEF CheckBalance, KeptInv, IInv, HandlerInv, HandlerOK
<1>8. r.amount - job[p].credit >= credits[u] - atRisk[u]
  <2>1. BalanceOf(users[u], "BTC") >= credits[u] - atRisk[u]
    BY <1>3 DEF KeptInv, CreditsKept
  <2> QED BY <1>3, <1>4, <2>1
<1>9. ASSUME p \notin shared', NEW q \in Proc, Summing(q, u)' PROVE q = p
  <2>1. others = {}
    BY <1>5, <1>9
  <2>2. CASE q # p
    <3>1. Summing(q, u)
      BY <1>5, <1>9, <2>2 DEF Others, Summing
    <3> QED BY <2>1, <3>1
  <2> QED BY <2>2
<1>10. SumOK(p)'
  BY <1>5, <1>6, <1>8, <1>9 DEF SumOK, Summing
<1>11. ASSUME NEW q \in Proc \ {p} PROVE SumOK(q)'
  <2>1. CASE Summing(q, u)
    <3>1. q \in others
      BY <2>1
    <3>2. q \in shared'
      BY <1>5, <3>1
    <3> QED BY <1>5, <3>2, RestingSum
  <2>2. CASE call[q].req.user = u /\ ~ Summing(q, u)
    <3>1. call'[q].step \notin {"find", "save"}
      BY <1>5, <2>2 DEF Others, Summing
    <3> QED BY <3>1 DEF SumOK
  <2>3. CASE call[q].req.user # u
    <3>1. ~ Summing(p, call[q].req.user)'
      BY <1>5, <1>6, <2>3 DEF Summing, Others
    <3> QED BY <1>5, <3>1, RestingSum
  <2> QED BY <2>1, <2>2, <2>3 DEF Summing
<1> QED BY <1>2, <1>10, <1>11 DEF KeptInv

\* findOneById: an unmarked handler loads the balance it has summed.
LEMMA FindKept ==
    ASSUME KeptInv, NEW p \in Proc, UpdateFind(p)
    PROVE  KeptInv'
<1>1. [Next]_vars
  BY DEF Next, HandlerNext
<1>2. IInv' /\ CreditsKept'
  BY <1>1, StepSafe DEF KeptInv, CreditsKept, UpdateFind, FindUser, sums
<1>3. /\ call'[p].step = "save" /\ call'[p].req = call[p].req
      /\ call'[p].snap = users[call[p].req.user] /\ call[p].step = "find"
      /\ Others(p) /\ UNCHANGED <<users, job, shared, credits, atRisk>>
  BY DEF UpdateFind, FindUser, KeptInv, IInv, TypeOK, UBTypeOK, BalanceCall,
         Others, marks, sums
<1>4. \A q \in Proc, u \in User : Summing(q, u)' <=> Summing(q, u)
  BY <1>3 DEF Summing, Others
<1>5. \A q \in Proc : call[q].req.user \in User
  BY DEF KeptInv, IInv, TypeOK, UBTypeOK, BalanceCall, Request
<1>6. SumOK(p)'
  BY <1>3, <1>4, <1>5 DEF KeptInv, SumOK
<1>7. ASSUME NEW q \in Proc \ {p} PROVE SumOK(q)'
  <2>1. Summing(p, call[q].req.user)' => Summing(p, call[q].req.user)
    BY <1>3 DEF Summing, Others
  <2> QED BY <1>3, <2>1, RestingSum
<1> QED BY <1>2, <1>6, <1>7 DEF KeptInv

\* user.save(): an unmarked handler adds exactly its credit; a marked one
\* leaves at least what was safe.
LEMMA SaveKept ==
    ASSUME KeptInv, NEW p \in Proc, UpdateSave(p)
    PROVE  /\ KeptInv'
           /\ p \notin shared =>
                 BalanceOf(users'[Owner[job[p].txn]], "BTC") =
                     BalanceOf(users[Owner[job[p].txn]], "BTC") + job[p].credit
           /\ \A v \in User : v # Owner[job[p].txn] => users'[v] = users[v]
<1> DEFINE u == Owner[job[p].txn]
           r == call[p].req
           a == job[p].credit
<1>1. [Next]_vars
  BY DEF Next, HandlerNext
<1>2. IInv'
  BY <1>1, StepSafe DEF KeptInv
<1>3. /\ call[p].step = "save" /\ r.user = u /\ r.assetCode = "BTC"
  BY DEF UpdateSave, SaveUser, KeptInv, IInv, HandlerInv, HandlerOK
<1>4. /\ u \in User /\ a \in Nat /\ r \in Request /\ users[u] \in UserDoc
      /\ call[p].snap \in UserDoc /\ credits[u] \in Nat /\ atRisk[u] \in Nat
      /\ r.amount \in Int
  BY <1>3 DEF KeptInv, IInv, TypeOK, UBTypeOK, Job, BalanceCall, HandlerInv, HandlerOK
<1>5. /\ users' = [users EXCEPT ![u] = Saved(users[u], call[p].snap, r)]
      /\ call' = [call EXCEPT ![p] = [@ EXCEPT !.step = "saved"]]
      /\ credits' = [credits EXCEPT ![u] = @ + a]
      /\ atRisk' = [atRisk EXCEPT ![u] = IF p \in shared THEN @ + a ELSE @]
      /\ UNCHANGED <<job, shared>>
  BY <1>3 DEF UpdateSave, SaveUser, marks
<1>6. /\ users'[u] = Saved(users[u], call[p].snap, r)
      /\ credits'[u] = credits[u] + a
      /\ atRisk'[u] = IF p \in shared THEN atRisk[u] + a ELSE atRisk[u]
      /\ \A v \in User : v # u => /\ users'[v] = users[v] /\ credits'[v] = credits[v]
                                  /\ atRisk'[v] = atRisk[v]
  BY <1>4, <1>5 DEF KeptInv, IInv, TypeOK, UBTypeOK
<1>7. call'[p].step = "saved" /\ Others(p)
  BY <1>5 DEF KeptInv, IInv, TypeOK, UBTypeOK, BalanceCall, Others
<1>8. SumOK(p) /\ r.amount - a >= credits[u] - atRisk[u]
  BY <1>3 DEF KeptInv, SumOK
<1>9. BalanceOf(users[u], "BTC") \in Int /\ BalanceOf(users[u], "BTC") >= credits[u] - atRisk[u]
  BY <1>4, BalanceOfType DEF KeptInv, CreditsKept
<1>10. p \notin shared => BalanceOf(users'[u], "BTC") = BalanceOf(users[u], "BTC") + a
  <2> SUFFICES ASSUME p \notin shared
               PROVE  BalanceOf(users'[u], "BTC") = BalanceOf(users[u], "BTC") + a
    OBVIOUS
  <2>1. r.amount = a + BalanceOf(users[u], "BTC") /\ call[p].snap = users[u]
    BY <1>3, <1>8 DEF SumOK
  <2>2. r.amount # Keep
    BY <1>4
  <2>3. BalanceOf(users'[u], "BTC") = r.amount
    BY <1>3, <1>4, <1>6, <2>1, <2>2, SavedExactly
  <2> QED BY <1>4, <1>9, <2>1, <2>3
<1>11. BalanceOf(users'[u], "BTC") \in {r.amount, BalanceOf(users[u], "BTC")}
  <2>1. r.amount # Keep
    BY <1>4
  <2> QED BY <1>3, <1>4, <1>6, <2>1, SavedBalance
<1>12. BalanceOf(users'[u], "BTC") >= credits'[u] - atRisk'[u]
  BY <1>4, <1>6, <1>8, <1>9, <1>10, <1>11
<1>13. CreditsKept'
  BY <1>6, <1>12 DEF KeptInv, CreditsKept
<1>14. ASSUME NEW q \in Proc PROVE SumOK(q)'
  <2>1. CASE q = p
    BY <1>7, <2>1 DEF SumOK
  <2>2. CASE q # p
    <3>1. /\ job'[q] = job[q] /\ call'[q] = call[q] /\ SumOK(q)
          /\ call[q].req.user \in User /\ call[q].req \in Request
          /\ job[q].credit \in Nat
      BY <1>7, <2>2 DEF Others, KeptInv, IInv, TypeOK, UBTypeOK, BalanceCall, Request, Job
    <3>2. CASE call[q].step \notin {"find", "save"}
      BY <3>1, <3>2 DEF SumOK
    <3>3. CASE call[q].step \in {"find", "save"} /\ call[q].req.user = u
      <4>1. Summing(p, u) /\ Summing(q, u)
        BY <1>3, <3>3 DEF Summing
      <4>2. q \in shared /\ p \in shared
        BY <1>3, <1>8, <2>2, <3>1, <3>3, <4>1 DEF SumOK
      <4>3. credits'[u] - atRisk'[u] = credits[u] - atRisk[u]
        BY <1>4, <1>6, <4>2
      <4> QED BY <1>5, <3>1, <3>3, <4>2, <4>3 DEF SumOK
    <3>4. CASE call[q].step \in {"find", "save"} /\ call[q].req.user # u
      <4>1. \A x \in Proc : Summing(x, call[q].req.user)' => Summing(x, call[q].req.user)
        BY <1>7, <3>1 DEF Summing, Others
      <4>2. users'[call[q].req.user] = users[call[q].req.user]
            /\ credits'[call[q].req.user] = credits[call[q].req.user]
            /\ atRisk'[call[q].req.user] = atRisk[call[q].req.user]
        BY <1>6, <3>1, <3>4
      <4> QED BY <1>5, <3>1, <3>4, <4>1, <4>2 DEF SumOK
    <3> QED BY <3>2, <3>3, <3>4
  <2> QED BY <2>1, <2>2
<1> QED BY <1>2, <1>6, <1>10, <1>13, <1>14 DEF KeptInv

\* Every step preserves it.
LEMMA StepKept == KeptInv /\ [Next]_vars => KeptInv'
<1> SUFFICES ASSUME KeptInv, [Next]_vars PROVE KeptInv'
  OBVIOUS
<1>1. ASSUME UNCHANGED <<ubVars, job, shared, sums>> PROVE KeptInv'
  <2>1. IInv'
    BY StepSafe DEF KeptInv
  <2> QED BY <1>1, <2>1 DEF ubVars, sums, KeptInv, CreditsKept, SumOK, Summing
<1>2. CASE UNCHANGED vars
  BY <1>1, <1>2 DEF vars, marks
<1>3. ASSUME NEW t \in Txn, ProviderNext(t) PROVE KeptInv'
  BY <1>1, <1>3 DEF ProviderNext, StripePay, CoinbaseDetect, CoinbaseConfirm,
     CoinbaseGiveUp, CoinbaseLate, Provider, marks
<1> QED BY <1>2, <1>3, QuietActions, CheckKept, FindKept, SaveKept
        DEF Next, HandlerNext

\* No credit is lost to the sum of another handler, except one that was added
\* while two sums for its user were under way.
THEOREM CreditsAreKept == Spec => []CreditsKept
<1>1. KeptInv => CreditsKept
  BY DEF KeptInv
<1> QED BY <1>1, InitKept, StepKept, PTL DEF Spec
----------------------------------------------------------------------------
(* The number of credits.                                                  *)

\* Nothing is applied yet and nobody is at work.
LEMMA InitBound == Init => BoundInv
<1> SUFFICES ASSUME Init PROVE BoundInv
  OBVIOUS
<1>1. \A p \in Proc, t \in Txn : ~ AtWork(p, t)
  BY DEF Init, NoJob, AtWork, Confirming
<1>2. \A t \in Txn : BoundOK(t)
  BY <1>1 DEF Init, BoundOK, Alone
<1>3. OpenInv
  BY DEF Init, OpenInv, OpenOK, NoJob, Confirming
<1> QED BY <1>2, <1>3, InitSafe DEF BoundInv

\* A handler whose own step leaves it all right, and the statuses of the
\* others' transactions alone, keeps what is recorded in order.
LEMMA OpenStep ==
    ASSUME TypeOK, TypeOK', OpenInv, NEW p \in Proc, Others(p), OpenOK(p)',
           \A t \in Txn : /\ provider[t] # "none" => provider'[t] # "none"
                          /\ status[t] # "none" => status'[t] # "none"
                          /\ status'[t] # status[t] => job[p].txn = t /\ provider[t] # "none",
           \A t \in Txn : job[p].pc # "record" /\ status[t] = "none" => status'[t] = "none",
           job'[p].pc = "record" => provider[job'[p].txn] = "none"
    PROVE  OpenInv'
<1>1. \A t \in Txn : status'[t] # "none" => provider'[t] # "none"
  BY DEF OpenInv
<1>2. ASSUME NEW q \in Proc \ {p} PROVE OpenOK(q)'
  <2>1. job'[q] = job[q] /\ job[q].txn \in Txn /\ OpenOK(q)
    BY DEF Others, OpenInv, TypeOK, Job
  <2>2. OpenOK(p) /\ job[p].txn \in Txn
    BY DEF OpenInv, TypeOK, Job
  <2>3. ASSUME job[q].pc = "record" PROVE status'[job[q].txn] = "none"
    BY <2>1, <2>2, <2>3 DEF OpenOK
  <2>4. ASSUME job[q].pc = "record", NEW x \in Proc \ {q}, job'[x].pc = "record"
        PROVE  job'[x].txn # job[q].txn
    <3>1. CASE x = p
      BY <2>1, <2>4, <3>1 DEF OpenOK
    <3>2. CASE x # p
      BY <2>1, <2>4, <3>2 DEF OpenOK, Others
    <3> QED BY <3>1, <3>2
  <2> QED BY <2>1, <2>3, <2>4 DEF OpenOK, Confirming
<1> QED BY <1>1, <1>2 DEF OpenInv

\* Every step keeps what is recorded in order.
LEMMA StepOpen ==
    ASSUME IInv, OpenInv, [Next]_vars
    PROVE  OpenInv'
<1>1. TypeOK /\ TypeOK'
  BY StepType DEF IInv
<1>2. CASE UNCHANGED vars
  BY <1>2 DEF vars, providerVars, OpenInv, OpenOK, Confirming
<1>3. ASSUME NEW t \in Txn, ProviderNext(t) PROVE OpenInv'
  <2>1. UNCHANGED <<job, status>> /\ \A x \in Txn : provider[x] # "none" => provider'[x] # "none"
    BY <1>1, <1>3 DEF ProviderNext, StripePay, CoinbaseDetect, CoinbaseConfirm,
       CoinbaseGiveUp, CoinbaseLate, Provider, TypeOK
  <2> QED BY <1>1, <2>1 DEF OpenInv, OpenOK, Confirming, TypeOK, Job
<1>4. ASSUME NEW p \in Proc, NEW t \in Txn, OpenPayment(p, t) PROVE OpenInv'
  <2>1. /\ Others(p) /\ job'[p].pc = "record" /\ job'[p].txn = t /\ job[p].pc = "idle"
        /\ provider[t] = "none" /\ provider'[t] # "none" /\ UNCHANGED status
        /\ \A x \in Txn : provider[x] # "none" => provider'[x] # "none"
    BY <1>1, <1>4 DEF OpenPayment, Others, NoJob, ubVars, TypeOK
  <2>2. \A q \in Proc \ {p} : job'[q].pc = "record" => job'[q].txn # t
    BY <2>1 DEF Others, OpenInv, OpenOK
  <2>3. OpenOK(p)'
    BY <2>1, <2>2 DEF OpenOK, OpenInv, Confirming
  <2> QED BY <1>1, <2>1, <2>3, OpenStep
<1>5. ASSUME NEW p \in Proc, NEW t \in Txn, NEW e \in Event, LoadTransaction(p, t, e)
      PROVE  OpenInv'
  <2>1. /\ Others(p) /\ job'[p].pc = "retrieve" /\ job'[p].txn = t /\ job[p].pc = "idle"
        /\ job'[p].found = status[t] /\ UNCHANGED <<status, provider>>
        /\ provider[t] # "none"
    BY <1>1, <1>5 DEF LoadTransaction, MayAsk, Others, NoJob, ubVars, providerVars, TypeOK, OpenInv
  <2>2. OpenOK(p)'
    BY <2>1 DEF OpenOK, Confirming
  <2> QED BY <1>1, <2>1, <2>2, OpenStep
<1>6. ASSUME NEW p \in Proc, End(p), UNCHANGED <<status, provider>> PROVE OpenInv'
  <2>1. Others(p) /\ job'[p] = NoJob
    BY <1>1, <1>6 DEF End, Return, Others, TypeOK, UBTypeOK
  <2>2. OpenOK(p)' /\ job'[p].pc # "record"
    BY <2>1 DEF OpenOK, Confirming, NoJob
  <2> QED BY <1>1, <1>6, <2>1, <2>2, OpenStep
<1>7. ASSUME NEW p \in Proc, Others(p), UNCHANGED <<status, provider>>, Confirming(p),
             job'[p].txn = job[p].txn, job'[p].found = job[p].found,
             job'[p].pc \in {"check", "save"}
      PROVE  OpenInv'
  <2>1. OpenOK(p)'
    BY <1>7 DEF OpenInv, OpenOK, Confirming
  <2> QED BY <1>1, <1>7, <2>1, OpenStep
<1>8. ASSUME NEW p \in Proc, RecordTransaction(p) PROVE OpenInv'
  <2>1. /\ Others(p) /\ job'[p] = NoJob /\ job[p].pc = "record" /\ UNCHANGED provider
        /\ status' = [status EXCEPT ![job[p].txn] = "PENDING"]
        /\ provider[job[p].txn] # "none"
    BY <1>1, <1>8 DEF RecordTransaction, End, Return, Others, providerVars, TypeOK,
       UBTypeOK, OpenInv, OpenOK
  <2>2. OpenOK(p)' /\ job'[p].pc # "record"
    BY <2>1 DEF OpenOK, Confirming, NoJob
  <2>3. \A t \in Txn : status'[t] = IF t = job[p].txn THEN "PENDING" ELSE status[t]
    BY <1>1, <2>1 DEF TypeOK
  <2> QED BY <1>1, <2>1, <2>2, <2>3, OpenStep
<1>9. ASSUME NEW p \in Proc, RetrieveIntent(p) \/ RetrieveCharge(p) PROVE OpenInv'
  <2>1. UNCHANGED <<status, provider>> /\ job[p].pc = "retrieve"
    BY <1>9 DEF RetrieveIntent, RetrieveCharge, providerVars
  <2>2. ASSUME NEW pc \in {"check", "save"}, NEW mark, NEW credit, Continue(p, pc, mark, credit)
        PROVE  OpenInv'
    BY <1>1, <1>7, <2>1, <2>2 DEF Continue, Job, Others, ubVars, TypeOK, Confirming
  <2> QED BY <1>6, <1>9, <2>1, <2>2 DEF RetrieveIntent, RetrieveCharge
<1>10. ASSUME NEW p \in Proc, CheckBalance(p) \/ UpdateFind(p) \/ UpdateRejected(p)
       PROVE  OpenInv'
  <2>1. /\ Others(p) /\ UNCHANGED <<status, provider>> /\ Confirming(p)
        /\ job'[p].txn = job[p].txn /\ job'[p].found = job[p].found /\ job'[p].pc = "save"
    <3>1. /\ job \in [Proc -> Job] /\ call \in [Proc -> BalanceCall]
          /\ call[p].step # "idle" => job[p].pc = "save"
      BY DEF IInv, TypeOK, UBTypeOK, HandlerInv, HandlerOK
    <3>2. CASE CheckBalance(p)
      BY <3>1, <3>2 DEF CheckBalance, Call, Others, Job, providerVars, Confirming
    <3>3. CASE UpdateFind(p) \/ UpdateRejected(p)
      BY <3>1, <3>3 DEF UpdateFind, FindUser, UpdateRejected, SaveRejected, Others,
         providerVars, Confirming
    <3> QED BY <1>10, <3>2, <3>3
  <2> QED BY <1>7, <2>1
<1>11. ASSUME NEW p \in Proc, UpdateSave(p) PROVE OpenInv'
  <2>1. UNCHANGED <<job, status, provider>>
    BY <1>11 DEF UpdateSave, providerVars
  <2> QED BY <2>1 DEF OpenInv, OpenOK, Confirming
<1>12. ASSUME NEW p \in Proc, SaveTransaction(p) PROVE OpenInv'
  <2>1. /\ job[p].pc = "save" /\ ~ Refused(job[p].found) /\ job[p].txn \in Txn
        /\ status[job[p].txn] # "none" /\ provider[job[p].txn] # "none"
        /\ Others(p) /\ job'[p] = NoJob /\ UNCHANGED provider
    BY <1>1, <1>12 DEF SaveTransaction, End, Return, Others, providerVars, TypeOK,
       UBTypeOK, Job, IInv, HandlerInv, HandlerOK, OpenInv, OpenOK, Confirming, Refused
  <2>2. OpenOK(p)' /\ job'[p].pc # "record"
    BY <2>1 DEF OpenOK, Confirming, NoJob
  <2>3. job[p].mark # "none"
    BY <2>1 DEF IInv, HandlerInv, HandlerOK
  <2>4. \A t \in Txn : t # job[p].txn => status'[t] = status[t]
    BY <1>1, <1>12 DEF SaveTransaction, TypeOK
  <2>5. status'[job[p].txn] # "none"
    BY <1>1, <1>12, <2>1, <2>3 DEF SaveTransaction, TypeOK
  <2> QED BY <1>1, <2>1, <2>2, <2>4, <2>5, OpenStep
<1> QED BY <1>2, <1>3, <1>4, <1>5, <1>6, <1>8, <1>9, <1>10, <1>11, <1>12
        DEF Next, HandlerNext, GiveUp, Abort, providerVars

\* What a step leaves of the bound when the handlers that are alone, and
\* those of them whose credit is saved, stay the same.
LEMMA SameAlone ==
    ASSUME BoundInv, IInv', NEW t \in Txn, BoundOK(t),
           UNCHANGED <<applied, faults, disturbed>>,
           status'[t] = "COMPLETED" <=> status[t] = "COMPLETED",
           \A q \in Proc : /\ Alone(q, t)' <=> Alone(q, t)
                           /\ Alone(q, t) => (call'[q].step = "saved" <=>
                                              call[q].step = "saved")
    PROVE  BoundOK(t)'
BY DEF BoundOK

\* The handler p ends.  If it was the one alone with the transaction, its
\* credit is not saved, the status is COMPLETED now, or a fault or a stale
\* status was counted.
LEMMA EndBound ==
    ASSUME BoundInv, [Next]_vars, NEW p \in Proc, End(p), UNCHANGED applied,
           \A t \in Txn :
               /\ faults' + disturbed'[t] >= faults + disturbed[t]
               /\ \/ faults' + disturbed'[t] > faults + disturbed[t]
                  \/ /\ status[t] = "COMPLETED" => status'[t] = "COMPLETED"
                     /\ job[p].txn = t /\ call[p].step = "saved"
                            => status'[t] = "COMPLETED"
    PROVE  BoundInv'
<1>1. IInv' /\ OpenInv'
  BY StepSafe, StepOpen DEF BoundInv
<1>2. /\ job'[p] = NoJob /\ second' = second \ {p} /\ Others(p)
  BY DEF End, Return, Others, BoundInv, IInv, TypeOK, UBTypeOK
<1>3. ASSUME NEW t \in Txn PROVE BoundOK(t)'
  <2>1. ~ Alone(p, t)'
    BY <1>2 DEF Alone, AtWork, Confirming, NoJob
  <2>2. \A q \in Proc \ {p} : /\ Alone(q, t)' <=> Alone(q, t)
                              /\ call'[q] = call[q]
    BY <1>2 DEF Others, Alone, AtWork, Confirming
  <2>3. /\ applied[t] \in Nat /\ faults \in Nat /\ disturbed[t] \in Nat
        /\ faults' \in Nat /\ disturbed'[t] \in Nat /\ applied'[t] = applied[t]
    BY <1>1 DEF BoundInv, IInv, TypeOK
  <2>4. BoundOK(t)
    BY DEF BoundInv
  <2>5. \A x, y \in Proc : Alone(x, t)' /\ Alone(y, t)' => x = y
    BY <2>1, <2>2, <2>4 DEF BoundOK
  <2>6. CASE faults' + disturbed'[t] > faults + disturbed[t]
    BY <2>3, <2>4, <2>5, <2>6 DEF BoundOK
  <2>7. CASE /\ status[t] = "COMPLETED" => status'[t] = "COMPLETED"
             /\ job[p].txn = t /\ call[p].step = "saved" => status'[t] = "COMPLETED"
    <3>1. applied[t] <= 1 + faults' + disturbed'[t]
      BY <2>3, <2>4 DEF BoundOK
    <3>2. ASSUME NEW q \in Proc, Alone(q, t)', call'[q].step # "saved"
          PROVE  applied[t] <= faults' + disturbed'[t]
      <4>1. q # p /\ Alone(q, t) /\ call[q].step # "saved"
        BY <2>1, <2>2, <3>2
      <4> QED BY <2>3, <2>4, <4>1 DEF BoundOK
    <3>3. ASSUME status'[t] # "COMPLETED",
                 \A q \in Proc : Alone(q, t)' => call'[q].step # "saved"
          PROVE  applied[t] <= faults' + disturbed'[t]
      <4>1. \A q \in Proc : Alone(q, t) => call[q].step # "saved"
        BY <2>2, <2>7, <3>3 DEF Alone, AtWork
      <4> QED BY <2>3, <2>4, <2>7, <3>3, <4>1 DEF BoundOK
    <3> QED BY <2>3, <2>5, <3>1, <3>2, <3>3 DEF BoundOK
  <2> QED BY <2>6, <2>7
<1> QED BY <1>1, <1>3 DEF BoundInv

\* The handler p goes on, at work on the same transaction or on none.
LEMMA GoOnBound ==
    ASSUME BoundInv, [Next]_vars, NEW p \in Proc, Others(p),
           UNCHANGED <<status, applied, faults, disturbed, second>>,
           \A t \in Txn : AtWork(p, t)' <=> AtWork(p, t),
           call'[p].step # "saved", call[p].step # "saved"
    PROVE  BoundInv'
<1>1. IInv' /\ OpenInv'
  BY StepSafe, StepOpen DEF BoundInv
<1>2. ASSUME NEW t \in Txn PROVE BoundOK(t)'
  <2>1. \A q \in Proc \ {p} : (AtWork(q, t)' <=> AtWork(q, t)) /\ call'[q] = call[q]
    BY DEF Others, AtWork, Confirming
  <2>2. \A q \in Proc : Alone(q, t)' <=> Alone(q, t)
    BY <2>1 DEF Alone
  <2>3. BoundOK(t)
    BY DEF BoundInv
  <2> QED BY <1>1, <2>1, <2>2, <2>3, SameAlone
<1> QED BY <1>1, <1>2 DEF BoundInv

\* topUpWallet is at work on no confirmation.
LEMMA OpenBound ==
    ASSUME BoundInv, NEW p \in Proc, NEW t \in Txn, OpenPayment(p, t)
    PROVE  BoundInv'
<1>1. [Next]_vars
  BY DEF Next
<1>2. /\ job[p].pc = "idle" /\ job'[p].pc = "record" /\ call[p].step = "idle"
      /\ Others(p) /\ UNCHANGED <<call, status, applied, faults, disturbed, second>>
  BY DEF OpenPayment, NoJob, Others, ubVars, marks, sums, BoundInv, IInv, TypeOK,
         HandlerInv, HandlerOK
<1> QED BY <1>1, <1>2, GoOnBound DEF AtWork, Confirming

\* A handler that finds nobody at work finds the credits within what faults
\* and stale writes account for; another one is marked.
LEMMA LoadBound ==
    ASSUME BoundInv, NEW p \in Proc, NEW t \in Txn, NEW e \in Event,
           LoadTransaction(p, t, e)
    PROVE  BoundInv'
<1>1. [Next]_vars
  BY DEF Next
<1>2. IInv' /\ OpenInv'
  BY <1>1, StepSafe, StepOpen DEF BoundInv
<1>3. /\ job[p].pc = "idle" /\ job'[p].pc = "retrieve" /\ job'[p].txn = t
      /\ job'[p].found = status[t] /\ call[p].step = "idle" /\ Others(p)
      /\ second' = IF \E q \in Proc : AtWork(q, t) THEN second \cup {p} ELSE second
      /\ UNCHANGED <<call, status, applied, faults, disturbed>>
  BY DEF LoadTransaction, NoJob, Others, ubVars, sums, BoundInv, IInv, TypeOK,
         HandlerInv, HandlerOK
<1>4. ASSUME NEW x \in Txn PROVE BoundOK(x)'
  <2>1. BoundOK(x)
    BY DEF BoundInv
  <2>2. ~ Alone(p, x)
    BY <1>3 DEF Alone, AtWork, Confirming
  <2>3. \A q \in Proc \ {p} : Alone(q, x)' <=> Alone(q, x)
    BY <1>3 DEF Others, Alone, AtWork, Confirming
  <2>4. CASE ~ Alone(p, x)'
    <3>1. \A q \in Proc : Alone(q, x)' <=> Alone(q, x)
      BY <2>2, <2>3, <2>4
    <3> QED BY <1>2, <1>3, <2>1, <3>1, SameAlone
  <2>5. CASE Alone(p, x)'
    <3>1. x = t /\ ~ Refused(status[t]) /\ p \notin second'
      BY <1>3, <2>5 DEF Alone, AtWork, Refused
    <3>2. \A q \in Proc : ~ AtWork(q, t)
      BY <1>3, <3>1
    <3>3. \A q \in Proc : ~ Alone(q, x)
      BY <3>1, <3>2 DEF Alone
    <3>4. applied[x] <= faults + disturbed[x]
      BY <2>1, <3>1, <3>3 DEF BoundOK, Refused
    <3>5. \A y \in Proc : Alone(y, x)' => y = p
      BY <2>3, <3>3
    <3> QED BY <1>3, <2>1, <3>4, <3>5 DEF BoundOK
  <2> QED BY <2>4, <2>5
<1> QED BY <1>2, <1>4 DEF BoundInv

\* The answers of the providers: the handler goes on or ends with no credit.
LEMMA AnswerBound ==
    ASSUME BoundInv, NEW p \in Proc, RetrieveIntent(p) \/ RetrieveCharge(p)
    PROVE  BoundInv'
<1>1. [Next]_vars
  BY DEF Next, HandlerNext
<1>2. /\ UNCHANGED <<status, applied, faults, disturbed>> /\ job[p].pc = "retrieve"
      /\ faults \in Nat /\ disturbed \in [Txn -> Nat]
      /\ job \in [Proc -> Job] /\ call[p].step = "idle"
  BY DEF RetrieveIntent, RetrieveCharge, sums, BoundInv, IInv, TypeOK,
         HandlerInv, HandlerOK
<1>3. CASE End(p)
  BY <1>1, <1>2, <1>3, EndBound
<1>4. ASSUME NEW pc \in {"check", "save"}, NEW mark, NEW credit,
             Continue(p, pc, mark, credit)
      PROVE  BoundInv'
  <2>1. /\ job'[p].pc = pc /\ job'[p].txn = job[p].txn
        /\ job'[p].found = job[p].found /\ Others(p)
        /\ UNCHANGED <<call, second>>
    BY <1>2, <1>4 DEF Continue, Job, Others, ubVars, marks
  <2>2. \A t \in Txn : AtWork(p, t)' <=> AtWork(p, t)
    BY <1>2, <2>1 DEF AtWork, Confirming
  <2> QED BY <1>1, <1>2, <2>1, <2>2, GoOnBound
<1> QED BY <1>3, <1>4 DEF RetrieveIntent, RetrieveCharge

\* Reading the balance, loading the user and a rejected save apply nothing.
LEMMA CallBound ==
    ASSUME BoundInv, NEW p \in Proc,
           CheckBalance(p) \/ UpdateFind(p) \/ UpdateRejected(p)
    PROVE  BoundInv'
<1>1. [Next]_vars
  BY DEF Next, HandlerNext
<1>2. /\ job \in [Proc -> Job] /\ call \in [Proc -> BalanceCall]
      /\ job[p].pc = "check" => call[p].step = "idle"
      /\ call[p].step # "idle" => job[p].pc = "save"
  BY DEF BoundInv, IInv, TypeOK, UBTypeOK, HandlerInv, HandlerOK
<1>3. /\ UNCHANGED <<status, applied, faults, disturbed, second>>
      /\ Others(p) /\ call[p].step # "saved" /\ call'[p].step # "saved"
      /\ job[p].pc \in {"check", "save"} /\ job'[p].pc = "save"
      /\ job'[p].txn = job[p].txn /\ job'[p].found = job[p].found
  <2>1. CASE CheckBalance(p)
    BY <1>2, <2>1 DEF CheckBalance, Call, NoCall, Others, Job, sums
  <2>2. CASE UpdateFind(p)
    BY <1>2, <2>2 DEF UpdateFind, FindUser, Others, BalanceCall, marks, sums
  <2>3. CASE UpdateRejected(p)
    BY <1>2, <2>3 DEF UpdateRejected, SaveRejected, Others, BalanceCall, marks, sums
  <2> QED BY <2>1, <2>2, <2>3
<1>4. \A t \in Txn : AtWork(p, t)' <=> AtWork(p, t)
  BY <1>3 DEF AtWork, Confirming
<1> QED BY <1>1, <1>3, <1>4, GoOnBound

\* The credit: counted as disturbed, or applied by the one handler alone.
LEMMA SaveBound ==
    ASSUME BoundInv, NEW p \in Proc, UpdateSave(p)
    PROVE  BoundInv'
<1> DEFINE t == job[p].txn
<1>1. [Next]_vars
  BY DEF Next, HandlerNext
<1>2. IInv' /\ OpenInv'
  BY <1>1, StepSafe, StepOpen DEF BoundInv
<1>3. /\ call[p].step = "save" /\ call'[p].step = "saved" /\ Others(p)
      /\ t \in Txn /\ AtWork(p, t) /\ UNCHANGED <<job, status, faults, second>>
      /\ applied' = [applied EXCEPT ![t] = @ + 1]
      /\ disturbed' = [disturbed EXCEPT ![t] = IF p \in second THEN @ + 1 ELSE @]
      /\ faults \in Nat /\ applied \in [Txn -> Nat] /\ disturbed \in [Txn -> Nat]
  BY DEF UpdateSave, SaveUser, Others, AtWork, Confirming, marks, BoundInv, IInv,
         TypeOK, UBTypeOK, BalanceCall, Job, HandlerInv, HandlerOK
<1>4. ASSUME NEW x \in Txn PROVE BoundOK(x)'
  <2>1. BoundOK(x) /\ \A q \in Proc : Alone(q, x)' <=> Alone(q, x)
    BY <1>3 DEF BoundInv, Alone, AtWork, Confirming
  <2>2. \A q \in Proc \ {p} : call'[q] = call[q]
    BY <1>3 DEF Others
  <2>3. CASE x # t
    <3>1. ~ Alone(p, x) /\ applied'[x] = applied[x] /\ disturbed'[x] = disturbed[x]
      BY <1>3, <2>3 DEF Alone, AtWork
    <3> QED BY <1>3, <2>1, <2>2, <3>1 DEF BoundOK
  <2>4. CASE x = t /\ p \in second
    <3>1. /\ ~ Alone(p, x) /\ applied'[x] = applied[x] + 1
          /\ disturbed'[x] = disturbed[x] + 1
      BY <1>3, <2>4 DEF Alone
    <3>2. applied[x] \in Nat /\ disturbed[x] \in Nat
      BY <1>3
    <3> QED BY <1>3, <2>1, <2>2, <3>1, <3>2 DEF BoundOK
  <2>5. CASE x = t /\ p \notin second
    <3>1. /\ Alone(p, x) /\ applied'[x] = applied[x] + 1
          /\ disturbed'[x] = disturbed[x]
      BY <1>3, <2>5 DEF Alone
    <3>2. applied[x] \in Nat /\ disturbed[x] \in Nat
      BY <1>3
    <3>3. applied[x] <= faults + disturbed[x]
      BY <1>3, <2>1, <3>1 DEF BoundOK
    <3>4. \A q \in Proc : Alone(q, x)' => q = p
      BY <2>1, <3>1 DEF BoundOK
    <3>5. \A q \in Proc : Alone(q, x)' => call'[q].step = "saved"
      BY <1>3, <3>4
    <3>6. Alone(p, x)'
      BY <2>1, <3>1
    <3>7. applied'[x] <= 1 + faults' + disturbed'[x]
      BY <1>3, <3>1, <3>2, <3>3
    <3> QED BY <3>4, <3>5, <3>6, <3>7 DEF BoundOK
  <2> QED BY <2>3, <2>4, <2>5
<1> QED BY <1>2, <1>4 DEF BoundInv

\* transaction.save(): an overwritten COMPLETED is counted.
LEMMA SaveTransactionBound ==
    ASSUME BoundInv, NEW p \in Proc, SaveTransaction(p)
    PROVE  BoundInv'
<1> DEFINE t == job[p].txn
<1>1. [Next]_vars
  BY DEF Next, HandlerNext
<1>2. /\ End(p) /\ UNCHANGED <<applied, faults>> /\ t \in Txn
      /\ faults \in Nat /\ disturbed \in [Txn -> Nat] /\ status \in [Txn -> Status]
      /\ call[p].step = "saved" => job[p].mark = "COMPLETED"
      /\ job[p].pc = "save" /\ ~ Refused(job[p].found)
  BY DEF SaveTransaction, BoundInv, IInv, TypeOK, Job, HandlerInv, HandlerOK
<1>3. ASSUME NEW x \in Txn
      PROVE  /\ faults' + disturbed'[x] >= faults + disturbed[x]
             /\ \/ faults' + disturbed'[x] > faults + disturbed[x]
                \/ /\ status[x] = "COMPLETED" => status'[x] = "COMPLETED"
                   /\ t = x /\ call[p].step = "saved" => status'[x] = "COMPLETED"
  <2>1. CASE x # t
    BY <1>2, <2>1 DEF SaveTransaction
  <2>2. CASE x = t
    BY <1>2, <2>2 DEF SaveTransaction, Refused
  <2> QED BY <2>1, <2>2
<1> QED BY <1>1, <1>2, <1>3, EndBound

\* The other steps that end a handler.
LEMMA EndingBound ==
    ASSUME BoundInv, NEW p \in Proc,
           RecordTransaction(p) \/ GiveUp(p) \/ Abort(p)
    PROVE  BoundInv'
<1>1. [Next]_vars
  BY DEF Next, HandlerNext
<1>2. /\ End(p) /\ UNCHANGED <<applied, disturbed>>
      /\ job[p].pc = "record" => call[p].step = "idle"
      /\ faults \in Nat /\ disturbed \in [Txn -> Nat] /\ status \in [Txn -> Status]
  BY DEF RecordTransaction, GiveUp, Abort, sums, BoundInv, IInv, TypeOK,
         HandlerInv, HandlerOK
<1>3. CASE RecordTransaction(p)
  <2>1. status[job[p].txn] # "COMPLETED"
    BY <1>3 DEF RecordTransaction, BoundInv, OpenInv, OpenOK
  <2>2. \A t \in Txn : status[t] = "COMPLETED" => status'[t] = "COMPLETED"
    BY <1>2, <1>3, <2>1 DEF RecordTransaction
  <2> QED BY <1>1, <1>2, <1>3, <2>2, EndBound DEF RecordTransaction
<1>4. CASE GiveUp(p)
  BY <1>1, <1>2, <1>4, EndBound DEF GiveUp
<1>5. CASE Abort(p)
  BY <1>1, <1>2, <1>5, EndBound DEF Abort
<1> QED BY <1>3, <1>4, <1>5

\* Every step preserves the bound.
LEMMA StepBound == BoundInv /\ [Next]_vars => BoundInv'
<1> SUFFICES ASSUME BoundInv, [Next]_vars PROVE BoundInv'
  OBVIOUS
<1>1. ASSUME UNCHANGED <<ubVars, job, status, faults, second, sums>> PROVE BoundInv'
  <2>1. IInv' /\ OpenInv'
    BY StepSafe, StepOpen DEF BoundInv
  <2> QED BY <1>1, <2>1 DEF ubVars, sums, BoundInv, BoundOK, Alone, AtWork, Confirming
<1>2. CASE UNCHANGED vars
  BY <1>1, <1>2 DEF vars, marks
<1>3. ASSUME NEW t \in Txn, ProviderNext(t) PROVE BoundInv'
  BY <1>1, <1>3 DEF ProviderNext, StripePay, CoinbaseDetect, CoinbaseConfirm,
     CoinbaseGiveUp, CoinbaseLate, Provider, marks
<1> QED BY <1>2, <1>3, OpenBound, LoadBound, AnswerBound, CallBound, SaveBound,
           SaveTransactionBound, EndingBound DEF Next, HandlerNext

\* A confirmed payment is added once; each further credit takes a fault, a
\* handler that found another one at work, or a COMPLETED overwritten by one.
THEOREM CreditsAreBounded == Spec => []CreditsBounded
<1>1. BoundInv => CreditsBounded
  BY DEF BoundInv, BoundOK, CreditsBounded
<1> QED BY <1>1, InitBound, StepBound, PTL DEF Spec
----------------------------------------------------------------------------
(* The ledger.                                                             *)

\* The initial states of the handlers are those of the ledger.
LEMMA InitLedger == Init => Ledger!Init
<1> SUFFICES ASSUME Init PROVE Ledger!Init
  OBVIOUS
<1>1. ASSUME NEW u \in User PROVE BalanceOf(users[u], "BTC") = 0
  <2>1. users[u] = EmptyDoc /\ EmptyDoc.balance = << >>
    BY DEF Init, UBInit, EmptyDoc
  <2>2. ~ HasEntry(users[u].balance, "BTC")
    BY <2>1 DEF HasEntry, Positions
  <2> QED BY <2>2 DEF BalanceOf
<1>2. Balances = [u \in User |-> 0]
  BY <1>1 DEF Balances
<1>3. Safe = [u \in User |-> 0] /\ Mishaps = [t \in Txn |-> 0]
  BY DEF Init, Safe, Mishaps
<1> QED BY <1>2, <1>3 DEF Init, Ledger!Init

\* Steps that no ledger sees.
LEMMA Unseen ==
    ASSUME UNCHANGED <<paid, faults, disturbed, applied, credits, atRisk, users>>
    PROVE  UNCHANGED Ledger!vars
BY DEF Ledger!vars, Mishaps, Safe, Balances

\* A payment is received once; the ledger does not see the other changes of
\* a charge.
LEMMA ProviderLedger ==
    ASSUME IInv, NEW t \in Txn, ProviderNext(t)
    PROVE  Ledger!Receive(t) \/ UNCHANGED Ledger!vars
<1>1. UNCHANGED <<faults, disturbed, applied, credits, atRisk, users>>
  BY DEF ProviderNext, StripePay, CoinbaseDetect, CoinbaseConfirm,
     CoinbaseGiveUp, CoinbaseLate, Provider, ubVars, sums
<1>2. UNCHANGED <<Mishaps, applied, Safe, credits, Balances>>
  BY <1>1 DEF Mishaps, Safe, Balances
<1>3. /\ paid \in [Txn -> Nat] /\ Price[t] \in Nat \ {0}
      /\ provider[t] \in {"none", "NEW", "EXPIRED", "CANCELED"} <=> paid[t] = 0
  BY DEF IInv, TypeOK, ChargeInv
<1>4. ASSUME paid[t] = 0, NEW a \in 1 .. Price[t], paid' = [paid EXCEPT ![t] = a]
      PROVE  Ledger!Receive(t)
  BY <1>2, <1>4 DEF Ledger!Receive
<1>5. ASSUME paid' = [paid EXCEPT ![t] = paid[t]] PROVE UNCHANGED Ledger!vars
  <2>1. paid' = paid
    BY <1>3, <1>5
  <2> QED BY <1>1, <2>1, Unseen
<1>6. CASE StripePay(t)
  <2>1. Price[t] \in 1 .. Price[t]
    BY <1>3
  <2> QED BY <1>3, <1>4, <1>6, <2>1 DEF StripePay, Provider
<1>7. CASE CoinbaseDetect(t)
  BY <1>3, <1>4, <1>7 DEF CoinbaseDetect, Provider
<1>8. CASE CoinbaseConfirm(t)
  BY <1>5, <1>8 DEF CoinbaseConfirm, Provider
<1>9. CASE CoinbaseGiveUp(t)
  BY <1>3, <1>5, <1>9 DEF CoinbaseGiveUp, Provider
<1>10. CASE CoinbaseLate(t)
  BY <1>3, <1>4, <1>10 DEF CoinbaseLate, Provider
<1> QED BY <1>6, <1>7, <1>8, <1>9, <1>10 DEF ProviderNext

\* user.save() is the credit of the ledger: in full for an unmarked handler,
\* and within the bound on its number.
LEMMA SaveLedger ==
    ASSUME KeptInv, BoundInv, NEW p \in Proc, UpdateSave(p)
    PROVE  Ledger!Credit(job[p].txn)
<1> DEFINE t == job[p].txn
           u == Owner[t]
           a == job[p].credit
<1>1. [Next]_vars
  BY DEF Next, HandlerNext
<1>2. KeptInv' /\ BoundInv'
  BY <1>1, StepKept, StepBound
<1>3. /\ t \in Txn /\ u \in User /\ a = paid[t] /\ paid[t] > 0
      /\ faults \in Nat /\ applied \in [Txn -> Nat] /\ disturbed \in [Txn -> Nat]
      /\ credits \in [User -> Nat] /\ atRisk \in [User -> Nat]
      /\ users \in [User -> UserDoc] /\ users' \in [User -> UserDoc]
  BY <1>2 DEF UpdateSave, SaveUser, KeptInv, IInv, TypeOK, UBTypeOK, Job, HandlerInv,
         HandlerOK, CreditsArePaid, CreditIsPaid
<1>4. /\ applied' = [applied EXCEPT ![t] = @ + 1]
      /\ disturbed' = [disturbed EXCEPT ![t] = IF p \in second THEN @ + 1 ELSE @]
      /\ credits' = [credits EXCEPT ![u] = @ + a]
      /\ atRisk' = [atRisk EXCEPT ![u] = IF p \in shared THEN @ + a ELSE @]
      /\ UNCHANGED <<paid, faults>>
  BY DEF UpdateSave, providerVars
<1>5. /\ \A v \in User : v # u => users'[v] = users[v]
      /\ p \notin shared => BalanceOf(users'[u], "BTC") = BalanceOf(users[u], "BTC") + a
  BY SaveKept
<1>6. credits'[u] = credits[u] + a /\ credits[u] \in Nat /\ atRisk[u] \in Nat /\ a \in Nat
  BY <1>3, <1>4 DEF KeptInv, IInv, TypeOK, Job
<1>7. \A v \in User : v # u => credits'[v] = credits[v] /\ atRisk'[v] = atRisk[v]
  BY <1>3, <1>4
<1>8. atRisk'[u] = IF p \in shared THEN atRisk[u] + a ELSE atRisk[u]
  <2>1. CASE p \in shared
    BY <1>3, <1>4, <2>1
  <2>2. CASE p \notin shared
    BY <1>3, <1>4, <2>2
  <2> QED BY <2>1, <2>2
<1>9. \A v \in User : v # u => credits'[v] - atRisk'[v] = credits[v] - atRisk[v]
  BY <1>7
<1>10. Ledger!Counted(t, u)
  BY <1>3, <1>4 DEF Ledger!Counted
<1>11. Ledger!CreditInFull(t) \/ Ledger!CreditAmongOthers(t)
  <2>1. CASE p \notin shared
    <3>1. Safe' = [Safe EXCEPT ![u] = @ + paid[t]]
      <4>1. credits'[u] - atRisk'[u] = (credits[u] - atRisk[u]) + a
        BY <1>6, <1>8, <2>1
      <4> QED BY <1>3, <1>9, <4>1 DEF Safe
    <3>2. Balances' = [Balances EXCEPT ![u] = @ + paid[t]]
      BY <1>3, <1>5, <2>1 DEF Balances
    <3> QED BY <1>10, <3>1, <3>2 DEF Ledger!CreditInFull
  <2>2. CASE p \in shared
    <3>0. credits'[u] - atRisk'[u] = credits[u] - atRisk[u]
      BY <1>6, <1>8, <2>2
    <3>1. Safe' = Safe
      BY <1>9, <3>0 DEF Safe
    <3>2. Balances' = [Balances EXCEPT ![u] = BalanceOf(users'[u], "BTC")]
      BY <1>3, <1>5 DEF Balances
    <3>3. /\ BalanceOf(users'[u], "BTC") <= credits'[u]
          /\ BalanceOf(users'[u], "BTC") >= credits'[u] - atRisk'[u]
      BY <1>2, <1>3 DEF KeptInv, IInv, BalanceBacked, CreditsKept
    <3>4. Safe[u] = credits'[u] - atRisk'[u] /\ Safe[u] \in Int /\ credits'[u] \in Int
      BY <1>3, <1>6, <3>0 DEF Safe
    <3>5. BalanceOf(users'[u], "BTC") \in Int
      BY <1>3, BalanceOfType
    <3>6. BalanceOf(users'[u], "BTC") \in Safe[u] .. credits'[u]
      BY <3>3, <3>4, <3>5
    <3> QED BY <1>10, <3>1, <3>2, <3>6 DEF Ledger!CreditAmongOthers
  <2> QED BY <2>1, <2>2
<1>12. Mishaps' \in {Mishaps, [Mishaps EXCEPT ![t] = @ + 1]}
  BY <1>3, <1>4 DEF Mishaps
<1>13. applied[t] <= Mishaps'[t]
  <2>1. applied'[t] <= 1 + faults' + disturbed'[t]
    BY <1>2, <1>3 DEF BoundInv, BoundOK
  <2>2. disturbed'[t] \in Nat
    BY <1>3, <1>4
  <2> QED BY <1>3, <1>4, <2>1, <2>2 DEF Mishaps
<1> QED BY <1>11, <1>12, <1>13 DEF Ledger!Credit

\* A stale status is a mishap of its transaction, a fault one of them all.
LEMMA MishapLedger ==
    ASSUME IInv, NEW p \in Proc, SaveTransaction(p) \/ Abort(p)
    PROVE  [Ledger!Next]_(Ledger!vars)
<1> USE DEF Ledger!Next, Ledger!Mishap
<1>1. /\ UNCHANGED <<paid, applied, Safe, credits, Balances>>
      /\ faults \in Nat /\ disturbed \in [Txn -> Nat] /\ job[p].txn \in Txn
  BY DEF SaveTransaction, Abort, End, Return, providerVars, sums, Safe, Balances,
         IInv, TypeOK, Job
<1>2. CASE Abort(p)
  <2>1. Mishaps' = [t \in Txn |-> IF t \in Txn THEN Mishaps[t] + 1 ELSE Mishaps[t]]
    BY <1>1, <1>2 DEF Abort, sums, Mishaps
  <2>2. Ledger!Mishap(Txn)
    BY <1>1, <2>1
  <2> QED BY <2>2
<1>3. CASE SaveTransaction(p)
  <2>1. PICK T \in {{}, {job[p].txn}} :
            \A t \in Txn : disturbed'[t] = IF t \in T THEN disturbed[t] + 1 ELSE disturbed[t]
    <3>1. CASE disturbed' = disturbed
      BY <1>1, <3>1
    <3>2. CASE disturbed' = [disturbed EXCEPT ![job[p].txn] = @ + 1]
      BY <1>1, <3>2
    <3> QED BY <1>1, <1>3, <3>1, <3>2 DEF SaveTransaction
  <2>2. Mishaps' = [t \in Txn |-> IF t \in T THEN Mishaps[t] + 1 ELSE Mishaps[t]]
    BY <1>1, <1>3, <2>1 DEF SaveTransaction, Mishaps
  <2>3. T \in SUBSET Txn /\ Ledger!Mishap(T)
    BY <1>1, <2>2
  <2> QED BY <2>3
<1> QED BY <1>2, <1>3

\* Every step is one of the ledger, or none.
LEMMA StepLedger ==
    ASSUME KeptInv, BoundInv, [Next]_vars
    PROVE  [Ledger!Next]_(Ledger!vars)
<1>1. ASSUME NEW p \in Proc, UpdateSave(p) PROVE Ledger!Next
  <2>1. job[p].txn \in Txn
    BY DEF KeptInv, IInv, TypeOK, Job
  <2> QED BY <1>1, <2>1, SaveLedger DEF Ledger!Next
<1>2. ASSUME NEW t \in Txn, ProviderNext(t) PROVE [Ledger!Next]_(Ledger!vars)
  BY <1>2, ProviderLedger DEF KeptInv, Ledger!Next
<1>3. ASSUME NEW p \in Proc,
             \/ \E t \in Txn : OpenPayment(p, t)
             \/ \E t \in Txn, e \in Event : LoadTransaction(p, t, e)
             \/ RecordTransaction(p) \/ RetrieveIntent(p) \/ RetrieveCharge(p)
             \/ CheckBalance(p) \/ UpdateFind(p) \/ UpdateRejected(p) \/ GiveUp(p)
      PROVE  UNCHANGED Ledger!vars
  BY <1>3, Unseen DEF OpenPayment, LoadTransaction, RecordTransaction,
     RetrieveIntent, RetrieveCharge, CheckBalance, UpdateFind, UpdateRejected,
     GiveUp, End, Return, Continue, Call, FindUser, SaveRejected, ubVars,
     providerVars, sums
<1>4. ASSUME NEW p \in Proc, SaveTransaction(p) \/ Abort(p)
      PROVE  [Ledger!Next]_(Ledger!vars)
  BY <1>4, MishapLedger DEF KeptInv
<1>5. CASE UNCHANGED vars
  BY <1>5, Unseen DEF vars, ubVars, providerVars, sums
<1> QED BY <1>1, <1>2, <1>3, <1>4, <1>5 DEF Next, HandlerNext

\* topUpWalletConfirm implements the ledger.
THEOREM LedgerIsImplemented == Spec => ImplementsLedger
<1>1. KeptInv /\ BoundInv /\ [Next]_vars => [Ledger!Next]_(Ledger!vars)
  BY StepLedger
<1> QED BY <1>1, InitKept, StepKept, InitBound, StepBound, InitLedger, PTL
        DEF Spec, ImplementsLedger, Ledger!Spec
=============================================================================
