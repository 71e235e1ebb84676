---------------------------- MODULE UserBalance ----------------------------
(***************************************************************************)
(* The balance array of a user document and the balanceUpdate procedure of *)
(* user-svc (microservices/user-svc/src/user/user.service.ts), which every *)
(* change of a balance goes through.                                       *)
(*                                                                         *)
(* balanceUpdate is a read (findOneById), a change of the loaded document  *)
(* in memory and a save, with an await between the read and the save.      *)
(* Each process p runs at most one balanceUpdate at a time: call[p] says   *)
(* how far it is (step), with which arguments (req) and what document it   *)
(* loaded (snap).  The modules that issue the calls (BalanceOps,           *)
(* WalletTopUp) extend this one.                                           *)
(*                                                                         *)
(* Amounts are integers in the smallest unit (the code keeps two decimals).*)
(***************************************************************************)
EXTENDS Integers, Sequences

CONSTANTS User,     \* user documents
          Proc,     \* request handlers in flight at the same time
          Keep      \* a field absent from the DTO: undefined, which is falsy
                    \* (amounts travel as strings, and "0" is not)

ASSUME UserAssumption == User # {} /\ Keep \notin Int

VARIABLES users,    \* the users collection: [User -> UserDoc]
          call      \* the balanceUpdate p is in: [Proc -> BalanceCall]

ubVars == <<users, call>>

Amount == Int
Asset == {"BTC", "VPC"}
Entry == [assetCode : Asset, amount : Amount, withheldAmount : Amount]
UserDoc == [balance : Seq(Entry), version : Nat]
Request == [user : User, assetCode : Asset, amount : Amount \cup {Keep},
            withheldAmount : Amount \cup {Keep}]
Step == {"idle", "find", "save", "saved", "failed"}

BalanceCall == [step : Step, req : Request, snap : UserDoc]

EmptyDoc == [balance |-> << >>, version |-> 0]

NoCall == [step |-> "idle", snap |-> EmptyDoc,
           req |-> [user |-> CHOOSE u \in User : TRUE, assetCode |-> "BTC",
                    amount |-> 0, withheldAmount |-> Keep]]
----------------------------------------------------------------------------
(* user.balance.find((e) => e.assetCode === code): the first entry wins.   *)

Positions(balance, code) == {i \in DOMAIN balance : balance[i].assetCode = code}

HasEntry(balance, code) == Positions(balance, code) # {}

First(balance, code) ==
    CHOOSE i \in Positions(balance, code) :
        \A j \in Positions(balance, code) : i <= j

\* WalletService.checkBalance: the amount of the first entry, 0 without one.
BalanceOf(doc, code) ==
    IF HasEntry(doc.balance, code)
    THEN doc.balance[First(doc.balance, code)].amount
    ELSE 0
----------------------------------------------------------------------------
(* What user.save() sends for a request r on the loaded document.  An      *)
(* entry pushed onto the array is sent as $push and increments __v without *)
(* comparing it; a changed field of an entry is sent as $set on its        *)
(* position and only matches a document whose __v is still the loaded one; *)
(* a field set to the value it was loaded with is not sent at all.         *)

OrDefaultMissing(value) == value                  \* mutant

OrDefault(value) == IF value = Keep THEN 0 ELSE value

NewEntry(r) == [assetCode |-> r.assetCode, amount |-> OrDefault(r.amount),
                withheldAmount |-> OrDefault(r.withheldAmount)]

Pushed(doc, entry) == [balance |-> Append(doc.balance, entry),
                       version |-> doc.version + 1]

Modified(old, new) == new # Keep /\ new # old

Touches(loaded, r) == \/ Modified(loaded.amount, r.amount)
                      \/ Modified(loaded.withheldAmount, r.withheldAmount)

SetFieldsAdding(entry, loaded, r) ==                \* mutant: += for =
    [assetCode |-> entry.assetCode, amount |-> entry.amount + r.amount,
     withheldAmount |-> entry.withheldAmount]

SetFieldsAmountOnly(entry, loaded, r) ==            \* mutant
    [assetCode |-> entry.assetCode,
     amount |-> IF Modified(loaded.amount, r.amount)
                THEN r.amount ELSE entry.amount,
     withheldAmount |-> entry.withheldAmount]

SetFieldsUnsaved(entry, loaded, r) == entry          \* mutant: not marked

SetFields(entry, loaded, r) ==
    [assetCode |-> entry.assetCode,
     amount |-> IF Modified(loaded.amount, r.amount)
                THEN r.amount ELSE entry.amount,
     withheldAmount |-> IF Modified(loaded.withheldAmount, r.withheldAmount)
                        THEN r.withheldAmount ELSE entry.withheldAmount]

SaveFails(stored, loaded, r) ==          \* mongoose VersionError
    /\ HasEntry(loaded.balance, r.assetCode)
    /\ Touches(loaded.balance[First(loaded.balance, r.assetCode)], r)
    /\ stored.version # loaded.version

Saved(stored, loaded, r) ==
    LET i == First(loaded.balance, r.assetCode) IN
    IF ~ HasEntry(loaded.balance, r.assetCode)
    THEN Pushed(stored, NewEntry(r))
    ELSE IF Touches(loaded.balance[i], r)
    THEN [stored EXCEPT !.balance[i] = SetFields(@, loaded.balance[i], r)]
    ELSE stored
----------------------------------------------------------------------------
UBTypeOK ==
    /\ users \in [User -> UserDoc]
    /\ call \in [Proc -> BalanceCall]

UBInit(docs) ==
    /\ users \in [User -> docs]
    /\ call = [p \in Proc |-> NoCall]

\* The caller sends the balanceUpdate request r.
Call(p, r) ==
    /\ call' = [call EXCEPT ![p] = [NoCall EXCEPT !.step = "find", !.req = r]]
    /\ UNCHANGED users

\* const user = await this.findOneById(balanceUpdateDto.userId)
FindUser(p) ==
    /\ call[p].step = "find"
    /\ call' = [call EXCEPT ![p] =
                   [@ EXCEPT !.step = "save", !.snap = users[call[p].req.user]]]
    /\ UNCHANGED users

\* await user.save() goes through: the caller gets the success message.
SaveUser(p) ==
    LET r == call[p].req
        loaded == call[p].snap
    IN
    /\ call[p].step = "save"
    /\ ~ SaveFails(users[r.user], loaded, r)
    /\ users' = [users EXCEPT ![r.user] = Saved(@, loaded, r)]
    /\ call' = [call EXCEPT ![p].step = "saved"]

\* The save throws; balanceUpdate turns it into an INVALID_ARGUMENT error.
SaveRejected(p) ==
    LET r == call[p].req IN
    /\ call[p].step = "save"
    /\ SaveFails(users[r.user], call[p].snap, r)
    /\ call' = [call EXCEPT ![p].step = "failed"]
    /\ UNCHANGED users

\* The caller has the answer, or the call is lost with its process.
Return(p) ==
    /\ call' = [call EXCEPT ![p] = NoCall]
    /\ UNCHANGED users
=============================================================================
