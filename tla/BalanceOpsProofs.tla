------------------------- MODULE BalanceOpsProofs -------------------------
(***************************************************************************)
(* The safety properties of BalanceOps for any users, handlers and amounts.*)
(* A document only ever grows, so the position a request is saved at is the *)
(* position of its asset in the stored document; a withholding in flight    *)
(* asks for a pair that adds up to what the entry adds up to.               *)
(***************************************************************************)
EXTENDS BalanceOps, UserBalanceProofs

NatOrKeep == Nat \cup {Keep}

\* What a request in flight has to do with the stored document.
CallOK(p) ==
    LET r == call[p].req
        b == users[r.user].balance
        s == call[p].snap.balance
        clean == <<r.user, r.assetCode>> \notin debited
    IN
    /\ r.amount \in NatOrKeep \/ <<r.user, r.assetCode, "amount">> \in negative
    /\ \/ r.withheldAmount \in NatOrKeep
       \/ <<r.user, r.assetCode, "withheldAmount">> \in negative
    /\ op[p].kind = "seeded" => HasEntry(users[op[p].user].balance, "VPC")
    /\ call[p].step # "idle" =>
          /\ op[p].kind \in {"withhold", "debit"}
          /\ op[p].user = r.user /\ op[p].assetCode = r.assetCode
          /\ op[p].kind = "debit" => ~ clean
    /\ call[p].step = "save" =>
          /\ Len(s) <= Len(b)
          /\ \A i \in DOMAIN s : b[i].assetCode = s[i].assetCode
    /\ call[p].step \in {"find", "save"} /\ op[p].kind = "withhold" =>
          /\ r.amount # Keep /\ r.withheldAmount # Keep
          /\ HasEntry(b, r.assetCode)
          /\ clean => Total(r) = Total(b[First(b, r.assetCode)])
    /\ call[p].step = "save" /\ op[p].kind = "withhold" =>
          /\ HasEntry(s, r.assetCode)
          /\ clean => Total(s[First(s, r.assetCode)]) = Total(r)

\* A user whose requests never overlapped: what is withheld is what the
\* withholdings add up to, and the one in flight was prepared from that.
SoloOf(u) ==
    /\ \A p, q \in Proc : Busy(p, u) /\ Busy(q, u) => p = q
    /\ \A code \in Asset : WithheldIn(users[u], code) = held[u][code]
    /\ \A p \in Proc : Busy(p, u) =>
          /\ op[p].kind \in {"seed", "seeded"} => held[u]["VPC"] = 0
          /\ call[p].step = "save" => call[p].snap = users[u]
          /\ call[p].step \in {"find", "save"} =>
                call[p].req.withheldAmount =
                   IF op[p].kind = "withhold"
                   THEN held[u][op[p].assetCode] + op[p].value ELSE Keep

Solo == \A u \in User \ overlapped : SoloOf(u)

\* Without a debit, the first entry of an asset holds what the user started
\* with: the funds, or nothing in an entry that a withholding pushed.
Worth(code) == IF code = "BTC" THEN Funds ELSE 0

FundsKept ==
    \A u \in User, code \in Asset :
        LET b == users[u].balance IN
        <<u, code>> \notin debited /\ HasEntry(b, code) =>
            Total(b[First(b, code)]) = Worth(code)

Calls == \A p \in Proc : CallOK(p)

\* A negative balance was asked for by a debit.
DebitsKnown ==
    \A u \in User, code \in Asset :
        <<u, code, "amount">> \in negative => <<u, code>> \in debited

IInv == TypeOK /\ NeverNegative /\ Calls /\ Solo /\ FundsKept /\ DebitsKnown

\* How the balance of u may change in a step.
Grew(u, b, c) ==
    /\ Len(b) <= Len(c)
    /\ \A i \in DOMAIN b :
          /\ c[i].assetCode = b[i].assetCode
          /\ <<u, b[i].assetCode>> \notin debited => Total(c[i]) = Total(b[i])
-----------------------------------------------------------------------------
\* The first entry of an asset stays where it is when the array grows.
LEMMA FirstStays ==
    ASSUME NEW b \in Seq(Entry), NEW c \in Seq(Entry), NEW code,
           Len(b) <= Len(c), \A i \in DOMAIN b : c[i].assetCode = b[i].assetCode,
           HasEntry(b, code)
    PROVE  HasEntry(c, code) /\ First(c, code) = First(b, code)
<1>1. /\ Positions(b, code) \in SUBSET Nat /\ Positions(b, code) # {}
      /\ Positions(c, code) \in SUBSET Nat
  BY DEF Positions, HasEntry
<1>2. PICK x \in Positions(b, code) : \A y \in Positions(b, code) : x <= y
  BY <1>1, Least
<1>3. /\ DOMAIN b = 1 .. Len(b) /\ DOMAIN c = 1 .. Len(c)
      /\ Len(b) \in Nat /\ Len(c) \in Nat
  OBVIOUS
<1>4. x \in Positions(c, code)
  BY <1>2, <1>3 DEF Positions
<1>5. ASSUME NEW y \in Positions(c, code) PROVE x <= y
  <2>1. y \in 1 .. Len(c) /\ x \in 1 .. Len(b)
    BY <1>2, <1>3 DEF Positions
  <2>2. CASE y <= Len(b)
    <3>1. y \in Positions(b, code)
      BY <1>3, <2>1, <2>2 DEF Positions
    <3> QED
      BY <1>2, <3>1
  <2>3. CASE ~ y <= Len(b)
    BY <1>3, <2>1, <2>3
  <2> QED
    BY <2>2, <2>3
<1>6. First(b, code) = x /\ First(c, code) = x
  BY <1>1, <1>2, <1>4, <1>5, FirstIsLeast
<1> QED
  BY <1>4, <1>6 DEF HasEntry

\* A request of another handler stays in order while the documents grow.
LEMMA CallKeeps ==
    ASSUME TypeOK, TypeOK', NEW p \in Proc, CallOK(p),
           call'[p] = call[p], op'[p] = op[p], debited \subseteq debited',
           negative \subseteq negative',
           \A u \in User : Grew(u, users[u].balance, users'[u].balance)
    PROVE  CallOK(p)'
<1> DEFINE r == call[p].req
           b == users[r.user].balance
           c == users'[r.user].balance
           s == call[p].snap.balance
           clean == <<r.user, r.assetCode>> \notin debited
           clean2 == <<r.user, r.assetCode>> \notin debited'
<1>1. /\ r.user \in User /\ b \in Seq(Entry) /\ c \in Seq(Entry)
      /\ s \in Seq(Entry)
  BY DEF TypeOK, UBTypeOK, BalanceCall, Request, UserDoc
<1>2. Grew(r.user, b, c) /\ (clean2 => clean)
  BY <1>1
<1>3. Len(b) <= Len(c) /\ \A i \in DOMAIN b : c[i].assetCode = b[i].assetCode
  BY <1>2 DEF Grew
<1>4. ASSUME HasEntry(b, r.assetCode)
      PROVE  /\ HasEntry(c, r.assetCode)
             /\ clean2 => Total(c[First(c, r.assetCode)])
                          = Total(b[First(b, r.assetCode)])
  <2>1. HasEntry(c, r.assetCode) /\ First(c, r.assetCode) = First(b, r.assetCode)
    BY <1>1, <1>3, <1>4, FirstStays
  <2>2. /\ First(b, r.assetCode) \in DOMAIN b
        /\ b[First(b, r.assetCode)].assetCode = r.assetCode
    BY <1>1, <1>4, FirstFinds
  <2> QED
    BY <1>2, <2>1, <2>2 DEF Grew
<1>5. ASSUME call[p].step = "save"
      PROVE  /\ Len(s) <= Len(c)
             /\ \A i \in DOMAIN s : c[i].assetCode = s[i].assetCode
  <2>1. /\ Len(s) <= Len(b) /\ \A i \in DOMAIN s : b[i].assetCode = s[i].assetCode
        /\ DOMAIN s = 1 .. Len(s) /\ DOMAIN b = 1 .. Len(b)
        /\ Len(s) \in Nat /\ Len(b) \in Nat /\ Len(c) \in Nat
    BY <1>1, <1>5 DEF CallOK
  <2> HIDE DEF b, c, s
  <2> QED
    BY <1>3, <2>1
<1>6. call'[p] = call[p] /\ op'[p] = op[p]
  OBVIOUS
<1>7. ASSUME op[p].kind = "seeded" PROVE HasEntry(users'[op[p].user].balance, "VPC")
  <2>1. op[p].user \in User
    BY DEF TypeOK, Op
  <2>2. /\ users[op[p].user].balance \in Seq(Entry)
        /\ users'[op[p].user].balance \in Seq(Entry)
    BY <2>1 DEF TypeOK, UBTypeOK, UserDoc
  <2>3. HasEntry(users[op[p].user].balance, "VPC")
    BY <1>7 DEF CallOK
  <2> QED
    BY <2>1, <2>2, <2>3, FirstStays DEF Grew
<1> HIDE DEF b, c, s, clean, clean2
<1> QED
  BY <1>2, <1>4, <1>5, <1>6, <1>7 DEF CallOK, b, c, s, clean, clean2

\* A save of a request in order: the array grows, nothing becomes negative.
LEMMA SavedGrew ==
    ASSUME TypeOK, NeverNegative, NEW p \in Proc, CallOK(p), call[p].step = "save"
    PROVE  LET r == call[p].req
               old == users[r.user]
               new == Saved(old, call[p].snap, r)
           IN  /\ r.user \in User /\ new \in UserDoc
               /\ Grew(r.user, old.balance, new.balance)
               /\ \A i \in DOMAIN new.balance : AboveZero(r.user, new.balance[i])
<1> DEFINE r == call[p].req
           code == r.assetCode
           old == users[r.user]
           loaded == call[p].snap
           b == old.balance
           s == loaded.balance
           new == Saved(old, loaded, r)
           i == First(s, code)
<1>1. /\ r \in Request /\ r.user \in User /\ old \in UserDoc /\ loaded \in UserDoc
      /\ b \in Seq(Entry) /\ s \in Seq(Entry)
  BY DEF TypeOK, UBTypeOK, BalanceCall, Request, UserDoc
<1>2. new \in UserDoc
  BY <1>1, SavedType
<1>3. /\ r.amount \in NatOrKeep \/ <<r.user, code, "amount">> \in negative
      /\ \/ r.withheldAmount \in NatOrKeep
         \/ <<r.user, code, "withheldAmount">> \in negative
      /\ op[p].kind \in {"withhold", "debit"}
      /\ op[p].kind = "debit" => <<r.user, code>> \in debited
      /\ Len(s) <= Len(b) /\ \A k \in DOMAIN s : b[k].assetCode = s[k].assetCode
  BY DEF CallOK
<1>4. ASSUME op[p].kind = "withhold"
      PROVE  /\ HasEntry(s, code) /\ r.amount # Keep /\ r.withheldAmount # Keep
             /\ <<r.user, code>> \notin debited =>
                   /\ Total(s[i]) = Total(r)
                   /\ Total(r) = Total(b[First(b, code)])
  BY <1>4 DEF CallOK
<1>5. \A k \in DOMAIN b : b[k] \in Entry /\ AboveZero(r.user, b[k])
  BY <1>1 DEF NeverNegative
<1>6. CASE ~ HasEntry(s, code)
  <2> DEFINE e == NewEntry(r)
  <2>1. e \in Entry /\ AboveZero(r.user, e)
    <3>1. e \in Entry
      BY <1>1, NewEntryType
    <3>2. /\ e.assetCode = code
          /\ e.amount = r.amount \/ e.amount = 0
          /\ e.withheldAmount = r.withheldAmount \/ e.withheldAmount = 0
          /\ e.amount \in Int /\ e.withheldAmount \in Int
      BY <3>1 DEF NewEntry, OrDefault, Entry, Amount
    <3> HIDE DEF e, r
    <3> QED
      BY <1>3, <3>1, <3>2, UserAssumption DEF AboveZero, NatOrKeep
  <2>2. new.balance = Append(b, e)
    BY <1>6 DEF Saved, Pushed
  <2> HIDE DEF new, e, b
  <2>3. /\ DOMAIN b = 1 .. Len(b) /\ Len(b) \in Nat
        /\ Len(new.balance) = Len(b) + 1
        /\ DOMAIN new.balance = 1 .. Len(b) + 1
        /\ \A k \in DOMAIN b : new.balance[k] = b[k]
        /\ new.balance[Len(b) + 1] = e
    BY <1>1, <2>1, <2>2
  <2>4. Grew(r.user, b, new.balance)
    BY <2>3 DEF Grew
  <2>5. \A k \in DOMAIN new.balance : AboveZero(r.user, new.balance[k])
    BY <1>5, <2>1, <2>3
  <2> QED
    BY <1>1, <1>2, <2>4, <2>5 DEF new, b
<1>7. CASE HasEntry(s, code) /\ ~ Touches(s[i], r)
  <2>1. new = old
    BY <1>7 DEF Saved
  <2>2. Grew(r.user, b, b)
    BY <1>1 DEF Grew
  <2> QED
    BY <1>1, <1>2, <1>5, <2>1, <2>2
<1>8. CASE HasEntry(s, code) /\ Touches(s[i], r)
  <2> DEFINE e == SetFields(b[i], s[i], r)
  <2>1. /\ i \in DOMAIN s /\ s[i].assetCode = code /\ s[i] \in Entry
        /\ i \in DOMAIN b /\ b[i].assetCode = code /\ b[i] \in Entry
        /\ First(b, code) = i
    <3>1. i \in DOMAIN s /\ s[i].assetCode = code
      BY <1>1, <1>8, FirstFinds
    <3>2. First(b, code) = i /\ HasEntry(b, code)
      BY <1>1, <1>3, <1>8, FirstStays
    <3>3. i \in DOMAIN b /\ b[i].assetCode = code
      BY <1>1, <3>2, FirstFinds
    <3> QED
      BY <1>1, <3>1, <3>2, <3>3
  <2>2. /\ e \in Entry /\ e.assetCode = b[i].assetCode
        /\ e.amount \in {r.amount, b[i].amount} /\ e.amount # Keep
        /\ e.withheldAmount \in {r.withheldAmount, b[i].withheldAmount}
        /\ e.withheldAmount # Keep
    <3>1. e \in Entry
      BY <1>1, <2>1, SetFieldsType
    <3> QED
      BY <3>1, UserAssumption DEF SetFields, Entry, Amount
  <2>3. AboveZero(r.user, e)
    <3>1. AboveZero(r.user, b[i]) /\ b[i].assetCode = code
      BY <1>5, <2>1
    <3> HIDE DEF e, i, b, r
    <3> QED
      BY <1>3, <2>2, <3>1 DEF AboveZero, NatOrKeep
  <2>4. <<r.user, code>> \notin debited => Total(e) = Total(b[i])
    <3> SUFFICES ASSUME <<r.user, code>> \notin debited PROVE Total(e) = Total(b[i])
      OBVIOUS
    <3>1. /\ r.amount \in Int /\ r.withheldAmount \in Int
          /\ Total(s[i]) = Total(r) /\ Total(r) = Total(b[i])
          /\ r.amount # Keep /\ r.withheldAmount # Keep
      <4>1. op[p].kind = "withhold"
        BY <1>3
      <4>2. /\ Total(s[i]) = Total(r) /\ Total(r) = Total(b[i])
            /\ r.amount # Keep /\ r.withheldAmount # Keep
        BY <1>4, <2>1, <4>1
      <4>3. r.amount \in Amount \cup {Keep} /\ r.withheldAmount \in Amount \cup {Keep}
        BY <1>1 DEF Request
      <4>4. r.amount \in Int /\ r.withheldAmount \in Int
        BY <4>2, <4>3 DEF Amount
      <4> QED
        BY <4>2, <4>4
    <3>2. s[i].amount \in Int /\ s[i].withheldAmount \in Int
      BY <2>1 DEF Entry, Amount
    <3>3. r.amount # s[i].amount /\ r.withheldAmount # s[i].withheldAmount
      <4>1. \/ r.amount # s[i].amount
            \/ r.withheldAmount # s[i].withheldAmount
        BY <1>8 DEF Touches, Modified
      <4>2. s[i].amount + s[i].withheldAmount = r.amount + r.withheldAmount
        BY <3>1 DEF Total
      <4>3. \A a1, w1, a2, w2 \in Int : a1 + w1 = a2 + w2 /\ (a1 # a2 \/ w1 # w2)
               => a1 # a2 /\ w1 # w2
        OBVIOUS
      <4> QED
        BY <3>1, <3>2, <4>1, <4>2, <4>3
    <3>4. e.amount = r.amount /\ e.withheldAmount = r.withheldAmount
      BY <3>1, <3>3 DEF SetFields, Modified
    <3> QED
      BY <3>1, <3>4 DEF Total
  <2>5. new = [old EXCEPT !.balance = [b EXCEPT ![i] = e]]
    BY <1>8 DEF Saved
  <2> HIDE DEF e
  <2>6. new.balance = [b EXCEPT ![i] = e]
    BY <1>1, <2>5 DEF UserDoc
  <2> HIDE DEF new, b, s, i
  <2>7. /\ DOMAIN new.balance = DOMAIN b /\ Len(new.balance) = Len(b)
        /\ Len(b) \in Nat
        /\ \A k \in DOMAIN b : new.balance[k] = IF k = i THEN e ELSE b[k]
    <3>1. DOMAIN b = 1 .. Len(b) /\ Len(b) \in Nat /\ i \in 1 .. Len(b)
      BY <1>1, <2>1
    <3>2. /\ [b EXCEPT ![i] = e] \in Seq(Entry)
          /\ Len([b EXCEPT ![i] = e]) = Len(b)
      BY <1>1, <2>2, <3>1, ExceptSeq
    <3> QED
      BY <2>6, <3>1, <3>2
  <2>8. Grew(r.user, b, new.balance)
    BY <2>1, <2>2, <2>4, <2>7 DEF Grew
  <2>9. \A k \in DOMAIN new.balance : AboveZero(r.user, new.balance[k])
    BY <1>5, <2>3, <2>7
  <2> QED
    BY <1>1, <1>2, <2>8, <2>9 DEF new, b
<1> QED
  BY <1>6, <1>7, <1>8

Appended(b, e, c) == c = Append(b, e)

\* What an entry more does to the first entries of the assets.
LEMMA AppendFirst ==
    ASSUME NEW b \in Seq(Entry), NEW e \in Entry, NEW code,
           NEW c, Appended(b, e, c)
    PROVE  /\ HasEntry(b, code) => /\ HasEntry(c, code)
                                   /\ c[First(c, code)] = b[First(b, code)]
           /\ ~ HasEntry(b, code) =>
                 /\ HasEntry(c, code) <=> code = e.assetCode
                 /\ HasEntry(c, code) => c[First(c, code)] = e
<1> DEFINE n == Len(b) + 1
<1>1. /\ c \in Seq(Entry) /\ DOMAIN b = 1 .. Len(b) /\ Len(b) \in Nat
      /\ DOMAIN c = 1 .. n /\ Len(c) = n /\ c[n] = e
      /\ \A k \in 1 .. Len(b) : c[k] = b[k]
  BY DEF Appended
<1>2. CASE HasEntry(b, code)
  <2>1. Len(b) <= Len(c) /\ \A k \in DOMAIN b : c[k].assetCode = b[k].assetCode
    BY <1>1
  <2>2. HasEntry(c, code) /\ First(c, code) = First(b, code)
    BY <1>1, <1>2, <2>1, FirstStays
  <2>3. First(b, code) \in DOMAIN b
    BY <1>2, FirstFinds
  <2> QED
    BY <1>1, <1>2, <2>2, <2>3
<1>3. CASE ~ HasEntry(b, code)
  <2>1. \A k \in 1 .. n : c[k].assetCode = code => k = n
    BY <1>1, <1>3 DEF HasEntry, Positions
  <2>2. HasEntry(c, code) <=> e.assetCode = code
    BY <1>1, <2>1 DEF HasEntry, Positions
  <2>3. ASSUME HasEntry(c, code) PROVE c[First(c, code)] = e
    BY <1>1, <2>1, <2>3, FirstFinds
  <2> QED
    BY <1>3, <2>2, <2>3
<1> QED
  BY <1>2, <1>3

\* An entry changed in place leaves every asset where it is.
LEMMA ReplaceFirst ==
    ASSUME NEW b \in Seq(Entry), NEW i \in DOMAIN b, NEW e \in Entry,
           e.assetCode = b[i].assetCode, NEW code
    PROVE  LET c == [b EXCEPT ![i] = e] IN
           /\ HasEntry(c, code) <=> HasEntry(b, code)
           /\ First(c, code) = First(b, code)
           /\ \A k \in DOMAIN b : c[k] = IF k = i THEN e ELSE b[k]
<1> DEFINE c == [b EXCEPT ![i] = e]
<1>1. DOMAIN c = DOMAIN b /\ \A k \in DOMAIN b : c[k] = IF k = i THEN e ELSE b[k]
  OBVIOUS
<1> HIDE DEF c
<1>2. Positions(c, code) = Positions(b, code)
  BY <1>1 DEF Positions
<1> QED
  BY <1>1, <1>2, SamePositions DEF c

\* A VPC entry, pushed once the document is found empty.
LEMMA PushedWithheld ==
    ASSUME NEW doc \in UserDoc, NEW e \in Entry, e.withheldAmount = 0, NEW code
    PROVE  /\ WithheldIn(Pushed(doc, e), code) = WithheldIn(doc, code)
           /\ Pushed(doc, e) \in UserDoc
<1> DEFINE b == doc.balance
           c == Append(b, e)
<1>1. b \in Seq(Entry) /\ doc.version \in Nat /\ Appended(b, e, c)
  BY DEF UserDoc, Appended
<1>2. Pushed(doc, e) \in UserDoc /\ Pushed(doc, e).balance = c
  BY <1>1 DEF Pushed, UserDoc
<1> HIDE DEF b, c
<1>3. CASE HasEntry(b, code)
  <2>1. HasEntry(c, code) /\ c[First(c, code)] = b[First(b, code)]
    BY <1>1, <1>3, AppendFirst
  <2> QED
    BY <1>2, <1>3, <2>1 DEF WithheldIn, b
<1>4. CASE ~ HasEntry(b, code)
  <2>1. HasEntry(c, code) => c[First(c, code)] = e
    BY <1>1, <1>4, AppendFirst
  <2> QED
    BY <1>2, <1>4, <2>1 DEF WithheldIn, b
<1> QED
  BY <1>3, <1>4

\* A request that was prepared from the stored document stores the withheld
\* amount it asks for, and changes no other one.
LEMMA SavedWithheld ==
    ASSUME NEW doc \in UserDoc, NEW r \in Request,
           r.withheldAmount = Keep \/ HasEntry(doc.balance, r.assetCode), NEW code
    PROVE  WithheldIn(Saved(doc, doc, r), code) =
              IF code = r.assetCode /\ r.withheldAmount # Keep
              THEN r.withheldAmount ELSE WithheldIn(doc, code)
<1> DEFINE b == doc.balance
           i == First(b, r.assetCode)
           new == Saved(doc, doc, r)
<1>1. b \in Seq(Entry)
  BY DEF UserDoc
<1>2. CASE ~ HasEntry(b, r.assetCode)
  <2>1. NewEntry(r) \in Entry /\ NewEntry(r).withheldAmount = 0
    BY <1>2, NewEntryType DEF NewEntry, OrDefault
  <2>2. new = Pushed(doc, NewEntry(r))
    BY <1>2 DEF Saved
  <2> QED
    BY <1>2, <2>1, <2>2, PushedWithheld
<1>3. CASE HasEntry(b, r.assetCode)
  <2>1. i \in DOMAIN b /\ b[i].assetCode = r.assetCode /\ b[i] \in Entry
    BY <1>1, <1>3, FirstFinds
  <2>2. CASE ~ Touches(b[i], r)
    <3>1. new = doc
      BY <1>3, <2>2 DEF Saved
    <3>2. r.withheldAmount # Keep => r.withheldAmount = b[i].withheldAmount
      BY <2>2 DEF Touches, Modified
    <3> QED
      BY <1>3, <3>1, <3>2 DEF WithheldIn
  <2>3. CASE Touches(b[i], r)
    <3> DEFINE e == SetFields(b[i], b[i], r)
               c == [b EXCEPT ![i] = e]
    <3>1. new = [doc EXCEPT !.balance = c]
      BY <1>3, <2>3 DEF Saved
    <3>2. new.balance = c
      BY <3>1 DEF UserDoc
    <3>3. /\ e \in Entry /\ e.assetCode = b[i].assetCode
          /\ e.withheldAmount = IF r.withheldAmount # Keep
                                THEN r.withheldAmount ELSE b[i].withheldAmount
      <4>1. e \in Entry
        BY <2>1, SetFieldsType
      <4> QED
        BY <4>1 DEF SetFields, Modified
    <3> HIDE DEF e, new
    <3>4. /\ HasEntry(c, code) <=> HasEntry(b, code)
          /\ First(c, code) = First(b, code)
          /\ \A k \in DOMAIN b : c[k] = IF k = i THEN e ELSE b[k]
      BY <1>1, <2>1, <3>3, ReplaceFirst
    <3> HIDE DEF c, i, b
    <3>5. CASE ~ HasEntry(b, code)
      BY <1>3, <3>2, <3>4, <3>5 DEF WithheldIn, b, new
    <3>6. CASE HasEntry(b, code)
      <4>1. First(b, code) \in DOMAIN b /\ b[First(b, code)].assetCode = code
        BY <1>1, <3>6, FirstFinds
      <4>2. First(b, code) = i <=> code = r.assetCode
        BY <2>1, <4>1 DEF i
      <4>3. /\ WithheldIn(new, code) = c[First(b, code)].withheldAmount
            /\ WithheldIn(doc, code) = b[First(b, code)].withheldAmount
        BY <3>2, <3>4, <3>6 DEF WithheldIn, b
      <4> QED
        BY <3>3, <3>4, <4>1, <4>2, <4>3 DEF new
    <3> QED
      BY <3>5, <3>6
  <2> QED
    BY <2>2, <2>3
<1> QED
  BY <1>2, <1>3

\* Only a debit gives a document an entry for an asset it had none for.
LEMMA SavedHas ==
    ASSUME TypeOK, NEW p \in Proc, CallOK(p), call[p].step = "save", NEW code,
           <<call[p].req.user, code>> \notin debited,
           HasEntry(Saved(users[call[p].req.user], call[p].snap, call[p].req).balance,
                    code)
    PROVE  HasEntry(users[call[p].req.user].balance, code)
<1> DEFINE r == call[p].req
           old == users[r.user]
           loaded == call[p].snap
           b == old.balance
           s == loaded.balance
           i == First(s, r.assetCode)
           new == Saved(old, loaded, r)
<1>1. /\ r \in Request /\ r.user \in User /\ old \in UserDoc /\ loaded \in UserDoc
      /\ b \in Seq(Entry) /\ s \in Seq(Entry)
  BY DEF TypeOK, UBTypeOK, BalanceCall, Request, UserDoc
<1>2. CASE ~ HasEntry(s, r.assetCode)
  <2>1. code # r.assetCode
    BY <1>2 DEF CallOK
  <2>2. NewEntry(r) \in Entry /\ NewEntry(r).assetCode = r.assetCode
    BY <1>1, NewEntryType DEF NewEntry
  <2>3. Appended(b, NewEntry(r), new.balance)
    BY <1>2 DEF Saved, Pushed, Appended
  <2>4. HasEntry(new.balance, code)
    OBVIOUS
  <2> HIDE DEF new, b
  <2>5. HasEntry(b, code)
    BY <1>1, <2>1, <2>2, <2>3, <2>4, AppendFirst
  <2> QED
    BY <2>5 DEF b
<1>3. CASE HasEntry(s, r.assetCode) /\ Touches(s[i], r)
  <2> DEFINE e == SetFields(b[i], s[i], r)
             c == [b EXCEPT ![i] = e]
  <2>1. new.balance = c
    BY <1>1, <1>3 DEF Saved, UserDoc
  <2>2. e.assetCode = b[i].assetCode
    BY DEF SetFields
  <2>3. \A k \in DOMAIN b : c[k].assetCode = b[k].assetCode
    <3> HIDE DEF e
    <3> QED
      BY <2>2
  <2>4. DOMAIN c = DOMAIN b
    OBVIOUS
  <2>5. Positions(c, code) = Positions(b, code)
    BY <2>3, <2>4 DEF Positions
  <2> QED
    BY <2>1, <2>5 DEF HasEntry
<1>4. CASE HasEntry(s, r.assetCode) /\ ~ Touches(s[i], r)
  BY <1>4 DEF Saved
<1> QED
  BY <1>2, <1>3, <1>4
-----------------------------------------------------------------------------
(* What a step of one handler has to show. *)

OthersStay(p) == \A q \in Proc : q # p => call'[q] = call[q] /\ op'[q] = op[q]

LEMMA CallsStep ==
    ASSUME IInv, TypeOK', NEW p \in Proc, OthersStay(p), CallOK(p)',
           debited \subseteq debited', negative \subseteq negative',
           \A u \in User : \/ users'[u] = users[u]
                           \/ Grew(u, users[u].balance, users'[u].balance)
    PROVE  Calls'
<1>1. ASSUME NEW u \in User PROVE Grew(u, users[u].balance, users'[u].balance)
  <2>1. users[u].balance \in Seq(Entry)
    BY DEF IInv, TypeOK, UBTypeOK, UserDoc
  <2>2. Grew(u, users[u].balance, users[u].balance)
    BY <2>1 DEF Grew
  <2> QED
    BY <2>2
<1>2. ASSUME NEW q \in Proc, q # p PROVE CallOK(q)'
  BY <1>1, <1>2, CallKeeps DEF OthersStay, IInv, Calls
<1> QED
  BY <1>2 DEF Calls

\* The handler p has nothing to do with u, before or after.
LEMMA SoloOther ==
    ASSUME NEW u \in User, SoloOf(u), NEW p \in Proc, OthersStay(p),
           ~ Busy(p, u), ~ Busy(p, u)', users'[u] = users[u], held'[u] = held[u]
    PROVE  SoloOf(u)'
<1>1. \A q \in Proc : /\ Busy(q, u)' <=> Busy(q, u)
                      /\ Busy(q, u) => call'[q] = call[q] /\ op'[q] = op[q]
  BY DEF Busy, OthersStay
<1>2. \A code \in Asset : WithheldIn(users'[u], code) = WithheldIn(users[u], code)
  OBVIOUS
<1> QED
  BY <1>1, <1>2 DEF SoloOf

\* p is the only handler busy with u and stops, or goes on without a request
\* that is still to be saved.
LEMMA SoloDone ==
    ASSUME NEW u \in User, SoloOf(u), NEW p \in Proc, OthersStay(p), Busy(p, u),
           op'[p].kind = "none" \/ op'[p].user = op[p].user,
           op'[p].kind \in {"seed", "seeded"} => held'[u]["VPC"] = 0,
           call'[p].step \notin {"find", "save"},
           \A code \in Asset : WithheldIn(users'[u], code) = held'[u][code]
    PROVE  SoloOf(u)'
<1>1. \A q \in Proc : Busy(q, u)' => q = p
  BY DEF SoloOf, Busy, OthersStay
<1> QED
  BY <1>1 DEF SoloOf

LEMMA FundsStay == ASSUME IInv, UNCHANGED users, debited \subseteq debited',
                          negative \subseteq negative'
                   PROVE  FundsKept' /\ NeverNegative'
<1>1. FundsKept'
  BY DEF IInv, FundsKept
<1>2. \A u, e : AboveZero(u, e) => AboveZero(u, e)'
  BY DEF AboveZero
<1>3. NeverNegative'
  BY <1>2 DEF IInv, NeverNegative
<1> QED
  BY <1>1, <1>3

\* A handler takes a request.
LEMMA TakeIInv ==
    ASSUME IInv, TypeOK', NEW p \in Proc, NEW u \in User,
           NEW kind \in {"seed", "withhold", "debit"}, NEW code, NEW value,
           Take(p, kind, u, code, value), UNCHANGED <<users, held>>,
           debited \subseteq debited', negative \subseteq negative',
           \A q \in Proc : q # p => call'[q] = call[q],
           kind = "seed" => users[u].balance = << >>, CallOK(p)', DebitsKnown', call'[p].step # "save",
           u \notin overlapped /\ call'[p].step = "find" =>
              call'[p].req.withheldAmount =
                 IF kind = "withhold" THEN held[u][code] + value ELSE Keep
    PROVE  IInv'
<1>1. /\ op[p].kind = "none" /\ OthersStay(p)
      /\ op'[p].kind = kind /\ op'[p].user = u
      /\ op'[p].assetCode = code /\ op'[p].value = value
      /\ overlapped' = IF \E q \in Proc : Busy(q, u) THEN overlapped \cup {u}
                       ELSE overlapped
  BY DEF Take, OthersStay, IInv, TypeOK
<1>2. NeverNegative' /\ FundsKept'
  BY FundsStay
<1>3. Calls'
  BY <1>1, CallsStep
<1>4. Solo'
  <2> SUFFICES ASSUME NEW v \in User \ overlapped' PROVE SoloOf(v)'
    BY DEF Solo
  <2>1. v \notin overlapped /\ SoloOf(v)
    BY <1>1 DEF IInv, Solo
  <2>2. CASE v # u
    <3>1. ~ Busy(p, v) /\ ~ Busy(p, v)'
      BY <1>1, <2>2 DEF Busy
    <3> QED
      BY <1>1, <2>1, <3>1, SoloOther
  <2>3. CASE v = u
    <3>1. \A q \in Proc : Busy(q, u)' => q = p
      BY <1>1, <2>3 DEF Busy, OthersStay
    <3>2. \A c \in Asset : WithheldIn(users'[u], c) = held'[u][c]
      BY <2>1, <2>3 DEF SoloOf
    <3>3. kind = "seed" => held'[u]["VPC"] = 0
      BY <2>1, <2>3 DEF SoloOf, WithheldIn, HasEntry, Positions, Asset
    <3> QED
      BY <1>1, <2>1, <2>3, <3>1, <3>2, <3>3 DEF SoloOf
  <2> QED
    BY <2>2, <2>3
<1> QED
  BY <1>2, <1>3, <1>4 DEF IInv

LEMMA NoTypes ==
    /\ NoCall \in BalanceCall /\ NoCall.step = "idle"
    /\ NoCall.req.amount = 0 /\ NoCall.req.withheldAmount = Keep
    /\ NoOp \in Op /\ NoOp.kind = "none"
    /\ EmptyDoc \in UserDoc /\ FundedDoc \in UserDoc
<1>1. (CHOOSE u \in User : TRUE) \in User
  BY UserAssumption
<1>2. EmptyDoc \in UserDoc
  BY DEF EmptyDoc, UserDoc
<1>3. FundedDoc \in UserDoc
  <2> DEFINE e == [assetCode |-> "BTC", amount |-> Funds, withheldAmount |-> 0]
  <2>1. e \in Entry
    BY BalanceOpsAssumption DEF Entry, Asset, Amount
  <2> HIDE DEF e
  <2>2. Append(<< >>, e) \in Seq(Entry)
    BY <2>1
  <2>3. FundedDoc = [balance |-> Append(<< >>, e), version |-> 1]
    BY DEF FundedDoc, Pushed, EmptyDoc, e
  <2> QED
    BY <2>2, <2>3 DEF UserDoc
<1> QED
  BY <1>1, <1>2, <1>3
  DEF NoCall, BalanceCall, Step, Request, Asset, Amount, NoOp, Op

\* Between two requests a handler has no call.
LEMMA FreeHandler ==
    ASSUME IInv, NEW p \in Proc, op[p].kind \in {"none", "seed", "seeded"}
    PROVE  call[p].step = "idle"
  BY DEF IInv, Calls, CallOK

LEMMA WithholdSeedIInv ==
    ASSUME IInv, NEW p \in Proc, NEW u \in User, NEW code \in Asset,
           NEW w \in Withholds, WithholdSeed(p, u, code, w)
    PROVE  IInv'
<1>1. /\ Take(p, "seed", u, code, w) /\ users[u].balance = << >>
      /\ UNCHANGED <<users, call, held, debited, negative>> /\ op[p].kind = "none"
  BY DEF WithholdSeed, Take, ubVars
<1>2. TypeOK'
  <2>1. /\ op' \in [Proc -> Op] /\ overlapped' \subseteq User
        /\ requests' \in 0 .. MaxRequests
    BY <1>1, BalanceOpsAssumption DEF IInv, TypeOK, Take, Op
  <2> QED
    BY <1>1, <2>1 DEF IInv, TypeOK, UBTypeOK
<1>3. call[p].step = "idle" /\ op'[p].kind = "seed"
  BY <1>1, FreeHandler DEF Take, IInv, TypeOK
<1>4. CallOK(p)'
  BY <1>1, <1>3 DEF CallOK, IInv, Calls
<1>5. DebitsKnown'
  BY <1>1 DEF IInv, DebitsKnown
<1> QED
  BY <1>1, <1>2, <1>3, <1>4, <1>5, TakeIInv

\* The request a handler sends, and the document as it is.
LEMMA SendTypes ==
    ASSUME IInv, NEW p \in Proc, NEW u \in User, NEW r \in Request,
           NEW kind \in {"withhold", "debit"}, NEW code \in Asset, NEW w \in Int,
           Take(p, kind, u, code, w), Call(p, r), UNCHANGED held,
           debited' \subseteq User \X Asset,
           negative' \subseteq User \X Asset \X {"amount", "withheldAmount"}
    PROVE  /\ TypeOK' /\ UNCHANGED users
           /\ \A q \in Proc : q # p => call'[q] = call[q]
           /\ call'[p].step = "find" /\ call'[p].req = r
           /\ op'[p].kind = kind /\ op'[p].user = u /\ op'[p].assetCode = code
<1>1. call' = [call EXCEPT ![p] = [NoCall EXCEPT !.step = "find", !.req = r]]
      /\ UNCHANGED users /\ call \in [Proc -> BalanceCall] /\ users \in [User -> UserDoc]
  BY DEF Call, IInv, TypeOK, UBTypeOK
<1>2. /\ [NoCall EXCEPT !.step = "find", !.req = r] \in BalanceCall
      /\ [NoCall EXCEPT !.step = "find", !.req = r].step = "find"
      /\ [NoCall EXCEPT !.step = "find", !.req = r].req = r
  BY NoTypes DEF BalanceCall, Step
<1>3. /\ op' \in [Proc -> Op] /\ overlapped' \subseteq User
      /\ requests' \in 0 .. MaxRequests
      /\ op'[p].kind = kind /\ op'[p].user = u /\ op'[p].assetCode = code
  BY BalanceOpsAssumption DEF IInv, TypeOK, Take, Op
<1> QED
  BY <1>1, <1>2, <1>3 DEF IInv, TypeOK, UBTypeOK

\* The request for the new amounts of an entry: it adds up to what the entry
\* does, and is below zero only where that was asked for.
LEMMA TransferRequest ==
    ASSUME NEW p \in Proc, NEW u \in User, NEW entry \in Entry, NEW w \in Int,
           Transfer(p, u, entry, w), AboveZero(u, entry)
    PROVE  \E r \in Request :
              /\ Call(p, r) /\ r.user = u /\ r.assetCode = entry.assetCode
              /\ r.amount \in Nat /\ r.withheldAmount \in Int
              /\ Total(r) = Total(entry)
              /\ r.withheldAmount = entry.withheldAmount + w
              /\ \/ r.withheldAmount \in Nat
                 \/ <<u, r.assetCode, "withheldAmount">> \in negative'
<1> DEFINE r == [user |-> u, assetCode |-> entry.assetCode, amount |-> entry.amount - w,
                 withheldAmount |-> entry.withheldAmount + w]
<1>1. /\ Call(p, r) /\ entry.amount >= w
      /\ negative' = Signed(u, entry.assetCode, "withheldAmount", w)
      /\ entry.amount \in Int /\ entry.withheldAmount \in Int
  BY DEF Transfer, Covers, Entry, Amount
<1>2. r \in Request
  BY <1>1 DEF Request, Entry, Amount
<1>3. /\ r.amount = entry.amount - w /\ r.withheldAmount = entry.withheldAmount + w
      /\ r.user = u /\ r.assetCode = entry.assetCode
  OBVIOUS
<1> HIDE DEF r
<1>4. r.amount \in Nat /\ r.withheldAmount \in Int /\ Total(r) = Total(entry)
  BY <1>1, <1>3 DEF Total
<1>5. \/ r.withheldAmount \in Nat
      \/ <<u, r.assetCode, "withheldAmount">> \in negative'
  <2>1. CASE w < 0
    BY <1>1, <1>3, <2>1 DEF Signed
  <2>2. CASE ~ w < 0
    BY <1>1, <1>3, <2>2 DEF Signed, AboveZero
  <2> QED
    BY <2>1, <2>2
<1> QED
  BY <1>1, <1>2, <1>3, <1>4, <1>5

LEMMA SignedType ==
    ASSUME IInv, NEW u \in User, NEW code \in Asset,
           NEW field \in {"amount", "withheldAmount"}, NEW x \in Int
    PROVE  /\ negative \subseteq Signed(u, code, field, x)
           /\ Signed(u, code, field, x) \subseteq
                 User \X Asset \X {"amount", "withheldAmount"}
           /\ x \in Nat \/ <<u, code, field>> \in Signed(u, code, field, x)
  BY DEF Signed, IInv, TypeOK

\* A withheld amount below zero is no debit.
LEMMA WithheldOnly ==
    ASSUME NEW u, NEW code, NEW x,
           negative' = Signed(u, code, "withheldAmount", x)
    PROVE  \A v, c : <<v, c, "amount">> \in negative' => <<v, c, "amount">> \in negative
<1> SUFFICES ASSUME NEW v, NEW c, <<v, c, "amount">> \in negative'
             PROVE  <<v, c, "amount">> \in negative
  OBVIOUS
<1>1. <<v, c, "amount">> # <<u, code, "withheldAmount">>
  OBVIOUS
<1> QED
  BY <1>1 DEF Signed

LEMMA WithholdIInv ==
    ASSUME IInv, NEW p \in Proc, NEW u \in User, NEW code \in Asset,
           NEW w \in Withholds, Withhold(p, u, code, w)
    PROVE  IInv'
<1> DEFINE b == users[u].balance
           entry == b[First(b, code)]
<1>1. /\ Take(p, "withhold", u, code, w) /\ Transfer(p, u, entry, w)
      /\ UNCHANGED <<held, debited>> /\ HasEntry(b, code) /\ w \in Int
      /\ negative' = Signed(u, entry.assetCode, "withheldAmount", w)
  BY BalanceOpsAssumption DEF Withhold, Transfer
<1>2. entry \in Entry /\ entry.assetCode = code /\ AboveZero(u, entry)
  <2>1. b \in Seq(Entry)
    BY DEF IInv, TypeOK, UBTypeOK, UserDoc
  <2>2. First(b, code) \in DOMAIN b /\ entry.assetCode = code
    BY <1>1, <2>1, FirstFinds
  <2> QED
    BY <2>1, <2>2 DEF IInv, NeverNegative
<1> HIDE DEF entry
<1>3. PICK r \in Request :
        /\ Call(p, r) /\ r.user = u /\ r.assetCode = code
        /\ r.amount \in Nat /\ r.withheldAmount \in Int
        /\ Total(r) = Total(entry) /\ r.withheldAmount = entry.withheldAmount + w
        /\ \/ r.withheldAmount \in Nat
           \/ <<u, r.assetCode, "withheldAmount">> \in negative'
  BY <1>1, <1>2, TransferRequest
<1>4. /\ negative \subseteq negative'
      /\ negative' \subseteq User \X Asset \X {"amount", "withheldAmount"}
      /\ \A v, c : <<v, c, "amount">> \in negative' => <<v, c, "amount">> \in negative
  BY <1>1, <1>2, SignedType, WithheldOnly
<1>5. /\ TypeOK' /\ UNCHANGED users
      /\ \A q \in Proc : q # p => call'[q] = call[q]
      /\ call'[p].step = "find" /\ call'[p].req = r
      /\ op'[p].kind = "withhold" /\ op'[p].user = u /\ op'[p].assetCode = code
  <2>1. debited' \subseteq User \X Asset
    BY <1>1 DEF IInv, TypeOK
  <2> QED
    BY <1>1, <1>3, <1>4, <2>1, SendTypes
<1>6. CallOK(p)'
  BY <1>1, <1>3, <1>5, UserAssumption DEF CallOK, NatOrKeep, entry
<1>7. u \notin overlapped => r.withheldAmount = held[u][code] + w
  BY <1>1, <1>3 DEF IInv, Solo, SoloOf, WithheldIn, entry
<1>8. DebitsKnown'
  BY <1>1, <1>4 DEF IInv, DebitsKnown
<1> QED
  BY <1>1, <1>3, <1>4, <1>5, <1>6, <1>7, <1>8, TakeIInv

LEMMA DebitIInv ==
    ASSUME IInv, NEW p \in Proc, NEW u \in User, NEW code \in Asset, NEW a \in Int,
           Debit(p, u, code, a)
    PROVE  IInv'
<1> DEFINE r == [user |-> u, assetCode |-> code, amount |-> a,
                 withheldAmount |-> Keep]
<1>1. /\ Take(p, "debit", u, code, a) /\ Call(p, r) /\ UNCHANGED held
      /\ debited' = debited \cup {<<u, code>>}
      /\ negative' = Signed(u, code, "amount", a)
  BY DEF Debit
<1>2. r \in Request
  BY DEF Request, Amount
<1>3. /\ debited' \subseteq User \X Asset /\ debited \subseteq debited'
      /\ negative \subseteq negative'
      /\ negative' \subseteq User \X Asset \X {"amount", "withheldAmount"}
      /\ a \in Nat \/ <<u, code, "amount">> \in negative'
  <2>1. debited' \subseteq User \X Asset /\ debited \subseteq debited'
    BY <1>1 DEF IInv, TypeOK
  <2> QED
    BY <1>1, <2>1, SignedType
<1>4. /\ TypeOK' /\ UNCHANGED users
      /\ \A q \in Proc : q # p => call'[q] = call[q]
      /\ call'[p].step = "find" /\ call'[p].req = r
      /\ op'[p].kind = "debit" /\ op'[p].user = u /\ op'[p].assetCode = code
  <2> HIDE DEF r
  <2> QED
    BY <1>1, <1>2, <1>3, SendTypes
<1>5. CallOK(p)'
  BY <1>1, <1>3, <1>4 DEF CallOK, NatOrKeep
<1>6. DebitsKnown'
  <2> SUFFICES ASSUME NEW v \in User, NEW c \in Asset,
                      <<v, c, "amount">> \in negative'
               PROVE  <<v, c>> \in debited'
    BY DEF DebitsKnown
  <2>1. <<v, c, "amount">> \in negative \/ <<v, c, "amount">> = <<u, code, "amount">>
    BY <1>1 DEF Signed
  <2> QED
    BY <1>1, <2>1 DEF IInv, DebitsKnown
<1> QED
  BY <1>1, <1>3, <1>4, <1>5, <1>6, TakeIInv

\* A VPC entry of zero is pushed onto the document that was found empty.
LEMMA SeedSaveIInv ==
    ASSUME IInv, NEW p \in Proc, SeedSave(p)
    PROVE  /\ IInv'
           /\ \A v \in User : \/ users'[v] = users[v]
                              \/ Grew(v, users[v].balance, users'[v].balance)
<1> DEFINE u == op[p].user
           e == SeedEntry
           doc == Pushed(users[u], e)
           b == users[u].balance
           c == Append(b, e)
<1>1. /\ op[p].kind = "seed" /\ users' = [users EXCEPT ![u] = doc]
      /\ op' = [op EXCEPT ![p].kind = "seeded"]
      /\ UNCHANGED <<call, requests, held, overlapped, debited, negative>>
  BY DEF SeedSave
<1>2. u \in User /\ users[u] \in UserDoc /\ b \in Seq(Entry)
  BY DEF IInv, TypeOK, UBTypeOK, Op, UserDoc
<1>3. /\ e \in Entry /\ e.withheldAmount = 0 /\ e.amount = 0
      /\ e.assetCode = "VPC"
  BY DEF Entry, Asset, Amount, SeedEntry
<1> HIDE DEF e
<1>4. /\ doc \in UserDoc /\ doc.balance = c /\ Appended(b, e, c)
      /\ \A code : WithheldIn(doc, code) = WithheldIn(users[u], code)
  BY <1>2, <1>3, PushedWithheld DEF Appended, Pushed
<1>5. /\ Len(c) = Len(b) + 1 /\ Len(b) \in Nat /\ DOMAIN b = 1 .. Len(b)
      /\ DOMAIN c = 1 .. Len(b) + 1 /\ c[Len(b) + 1] = e
      /\ \A i \in DOMAIN b : c[i] = b[i]
  <2> HIDE DEF b
  <2> QED
    BY <1>2, <1>3
<1> HIDE DEF doc, c
<1>6. call[p].step = "idle"
  BY <1>1, FreeHandler
<1>7. /\ OthersStay(p) /\ op'[p].kind = "seeded" /\ op'[p].user = u
      /\ op' \in [Proc -> Op] /\ users' \in [User -> UserDoc]
      /\ \A v \in User : users'[v] = IF v = u THEN doc ELSE users[v]
  <2>1. [op[p] EXCEPT !.kind = "seeded"] \in Op
    BY DEF IInv, TypeOK, Op
  <2>2. op' = [op EXCEPT ![p] = [op[p] EXCEPT !.kind = "seeded"]]
    BY <1>1
  <2>3. /\ op' \in [Proc -> Op] /\ op'[p].kind = "seeded" /\ op'[p].user = u
        /\ \A q \in Proc : q # p => op'[q] = op[q]
    BY <2>1, <2>2 DEF IInv, TypeOK, Op
  <2> HIDE DEF u
  <2> QED
    BY <1>1, <1>2, <1>4, <2>3 DEF IInv, TypeOK, UBTypeOK, OthersStay
<1>8. TypeOK'
  BY <1>1, <1>7 DEF IInv, TypeOK, UBTypeOK
<1>9. NeverNegative'
  <2>1. \A i \in DOMAIN c : AboveZero(u, c[i])
    <3>1. \A i \in DOMAIN b : AboveZero(u, b[i])
      BY <1>2 DEF IInv, NeverNegative
    <3>2. AboveZero(u, e)
      BY <1>3 DEF AboveZero
    <3> HIDE DEF b
    <3> QED
      BY <1>5, <3>1, <3>2
  <2>2. \A v, x : AboveZero(v, x) => AboveZero(v, x)'
    BY <1>1 DEF AboveZero
  <2> QED
    BY <1>4, <1>7, <2>1, <2>2 DEF IInv, NeverNegative
<1>10. Calls' /\ \A v \in User :
                   \/ users'[v] = users[v]
                   \/ Grew(v, users[v].balance, users'[v].balance)
  <2>1. CallOK(p)'
    <3>1. HasEntry(c, "VPC")
      BY <1>2, <1>3, <1>4, AppendFirst
    <3>2. HasEntry(users'[op'[p].user].balance, "VPC")
      BY <1>2, <1>4, <1>7, <3>1
    <3>3. CallOK(p) /\ call' = call /\ negative' = negative /\ call[p].step = "idle"
      BY <1>1, <1>6 DEF IInv, Calls
    <3> HIDE DEF u
    <3> QED
      BY <3>2, <3>3 DEF CallOK
  <2>2. Grew(u, b, c)
    <3> HIDE DEF b, u
    <3> QED
      BY <1>5 DEF Grew
  <2>3. \A v \in User : \/ users'[v] = users[v]
                        \/ Grew(v, users[v].balance, users'[v].balance)
    BY <1>4, <1>7, <2>2
  <2> QED
    BY <1>1, <1>7, <1>8, <2>1, <2>3, CallsStep
<1>11. Solo'
  <2> SUFFICES ASSUME NEW v \in User \ overlapped PROVE SoloOf(v)'
    BY <1>1 DEF Solo
  <2>1. SoloOf(v)
    BY DEF IInv, Solo
  <2>2. CASE v # u
    <3>1. ~ Busy(p, v) /\ ~ Busy(p, v)' /\ users'[v] = users[v]
      BY <1>7, <2>2 DEF Busy
    <3> QED
      BY <1>1, <1>7, <2>1, <3>1, SoloOther
  <2>3. CASE v = u
    <3>1. Busy(p, u)
      BY <1>1 DEF Busy
    <3>2. \A code \in Asset : WithheldIn(users'[u], code) = held'[u][code]
      BY <1>1, <1>2, <1>4, <1>7, <2>1, <2>3 DEF SoloOf
    <3>3. call'[p].step \notin {"find", "save"} /\ held'[u]["VPC"] = 0
      BY <1>1, <1>6, <2>1, <2>3, <3>1 DEF SoloOf
    <3>4. op'[p].user = op[p].user
      BY <1>7
    <3> HIDE DEF u
    <3> QED
      BY <1>7, <2>1, <2>3, <3>1, <3>2, <3>3, <3>4, SoloDone
  <2> QED
    BY <2>2, <2>3
<1>12. FundsKept'
  <2>1. ASSUME NEW code \in Asset, HasEntry(c, code)
        PROVE  IF HasEntry(b, code) THEN c[First(c, code)] = b[First(b, code)]
               ELSE Total(c[First(c, code)]) = Worth(code)
    <3>1. Total(e) = Worth("VPC")
      BY <1>3 DEF Total, Worth
    <3> HIDE DEF b
    <3> QED
      BY <1>2, <1>3, <1>4, <2>1, <3>1, AppendFirst
  <2> QED
    BY <1>1, <1>4, <1>7, <2>1 DEF IInv, FundsKept
<1>13. DebitsKnown'
  BY <1>1 DEF IInv, DebitsKnown
<1> QED
  BY <1>8, <1>9, <1>10, <1>11, <1>12, <1>13 DEF IInv

\* The document is loaded: what a single handler has is the stored one.
LEMMA UpdateFindIInv ==
    ASSUME IInv, NEW p \in Proc, UpdateFind(p)
    PROVE  IInv'
<1> DEFINE u == call[p].req.user
           x == [call[p] EXCEPT !.step = "save", !.snap = users[u]]
<1>1. /\ call[p].step = "find" /\ call[p] \in BalanceCall
      /\ users[u] \in UserDoc /\ u \in User
  BY DEF UpdateFind, FindUser, IInv, TypeOK, UBTypeOK, BalanceCall, Request
<1>2. call' = [call EXCEPT ![p] = x]
      /\ UNCHANGED <<users, op, requests, held, overlapped, debited, negative>>
  BY DEF UpdateFind, FindUser
<1>3. /\ x \in BalanceCall /\ x.step = "save" /\ x.req = call[p].req
      /\ x.snap = users[u]
  BY <1>1 DEF BalanceCall, Step
<1> HIDE DEF x
<1>4. /\ call' \in [Proc -> BalanceCall] /\ OthersStay(p)
      /\ call'[p].step = "save" /\ call'[p].req = call[p].req
      /\ call'[p].snap = users[u]
  BY <1>2, <1>3 DEF IInv, TypeOK, UBTypeOK, OthersStay
<1>5. TypeOK'
  BY <1>2, <1>4 DEF IInv, TypeOK, UBTypeOK
<1>6. Calls'
  <2>1. CallOK(p)
    BY DEF IInv, Calls
  <2>2. users[u].balance \in Seq(Entry)
    BY <1>1 DEF UserDoc
  <2>3. Len(users[u].balance) <= Len(users[u].balance)
    BY <2>2
  <2>4. CallOK(p)'
    BY <1>1, <1>2, <1>4, <2>1, <2>3 DEF CallOK
  <2> QED
    BY <1>2, <1>4, <1>5, <2>4, CallsStep
<1>7. Solo'
  <2> SUFFICES ASSUME NEW v \in User \ overlapped PROVE SoloOf(v)'
    BY <1>2 DEF Solo
  <2>1. SoloOf(v)
    BY DEF IInv, Solo
  <2>2. op[p].user = u
    BY <1>1 DEF IInv, Calls, CallOK
  <2>3. \A q \in Proc : Busy(q, v)' <=> Busy(q, v)
    BY <1>2 DEF Busy
  <2>4. \A code \in Asset : WithheldIn(users'[v], code) = held'[v][code]
    BY <1>2, <2>1 DEF SoloOf
  <2>5. ASSUME NEW q \in Proc, Busy(q, v)
        PROVE  /\ op'[q].kind \in {"seed", "seeded"} => held'[v]["VPC"] = 0
               /\ call'[q].step = "save" => call'[q].snap = users'[v]
               /\ call'[q].step \in {"find", "save"} =>
                     call'[q].req.withheldAmount =
                        IF op'[q].kind = "withhold"
                        THEN held'[v][op'[q].assetCode] + op'[q].value ELSE Keep
    <3>1. CASE q = p
      <4>1. v = u
        BY <2>2, <2>5, <3>1 DEF Busy
      <4> QED
        BY <1>1, <1>2, <1>4, <2>1, <2>5, <3>1, <4>1 DEF SoloOf
    <3>2. CASE q # p
      BY <1>2, <1>4, <2>1, <2>5, <3>2 DEF SoloOf, OthersStay
    <3> QED
      BY <3>1, <3>2
  <2> QED
    BY <2>1, <2>3, <2>4, <2>5 DEF SoloOf
<1>8. NeverNegative' /\ FundsKept' /\ DebitsKnown'
  BY <1>2, FundsStay DEF IInv, DebitsKnown
<1> QED
  BY <1>5, <1>6, <1>7, <1>8 DEF IInv

\* The save goes through.
LEMMA UpdateSaveIInv ==
    ASSUME IInv, NEW p \in Proc, UpdateSave(p)
    PROVE  /\ IInv' /\ debited' = debited
           /\ \A v \in User : \/ users'[v] = users[v]
                              \/ Grew(v, users[v].balance, users'[v].balance)
<1> DEFINE r == call[p].req
           u == r.user
           code == r.assetCode
           old == users[u]
           doc == Saved(old, call[p].snap, r)
<1>1. /\ call[p].step = "save" /\ call[p] \in BalanceCall /\ r \in Request
      /\ u \in User /\ code \in Asset /\ old \in UserDoc /\ CallOK(p)
      /\ op[p] \in Op /\ TypeOK /\ NeverNegative
  BY DEF UpdateSave, SaveUser, IInv, TypeOK, UBTypeOK, BalanceCall, Request, Calls
<1>2. /\ users' = [users EXCEPT ![u] = doc]
      /\ call' = [call EXCEPT ![p].step = "saved"]
      /\ held' = IF op[p].kind = "withhold"
                 THEN [held EXCEPT ![op[p].user][op[p].assetCode] = @ + op[p].value]
                 ELSE held
      /\ UNCHANGED <<op, requests, overlapped, debited, negative>>
  BY DEF UpdateSave, SaveUser
<1>3. /\ op[p].kind \in {"withhold", "debit"}
      /\ op[p].user = u /\ op[p].assetCode = code
  BY <1>1 DEF CallOK
<1>4. /\ doc \in UserDoc /\ Grew(u, old.balance, doc.balance)
      /\ \A i \in DOMAIN doc.balance : AboveZero(u, doc.balance[i])
  BY <1>1, SavedGrew
<1>5. \A c : <<u, c>> \notin debited /\ HasEntry(doc.balance, c) =>
                HasEntry(old.balance, c)
  BY <1>1, SavedHas
<1>6. /\ call' \in [Proc -> BalanceCall] /\ OthersStay(p)
      /\ call'[p].step = "saved" /\ call'[p].req = r
  <2> DEFINE x == [call[p] EXCEPT !.step = "saved"]
  <2>1. x \in BalanceCall /\ x.step = "saved" /\ x.req = r
    BY <1>1 DEF BalanceCall, Step
  <2>2. call' = [call EXCEPT ![p] = x]
    BY <1>2
  <2> HIDE DEF x
  <2> QED
    BY <1>2, <2>1, <2>2 DEF IInv, TypeOK, UBTypeOK, OthersStay
<1>7. /\ held' \in [User -> [Asset -> Int]]
      /\ \A v \in User, c \in Asset :
            held'[v][c] = IF v = u /\ c = code /\ op[p].kind = "withhold"
                          THEN held[v][c] + op[p].value ELSE held[v][c]
  <2>1. held \in [User -> [Asset -> Int]] /\ op[p].value \in Int
    BY <1>1 DEF TypeOK, Op
  <2> HIDE DEF u, code
  <2> QED
    BY <1>1, <1>2, <1>3, <2>1
<1> HIDE DEF doc
<1>8. /\ users' \in [User -> UserDoc]
      /\ \A v \in User : users'[v] = IF v = u THEN doc ELSE users[v]
  BY <1>1, <1>2, <1>4 DEF TypeOK, UBTypeOK
<1>9. TypeOK'
  BY <1>2, <1>6, <1>7, <1>8 DEF IInv, TypeOK, UBTypeOK
<1>10. NeverNegative'
  <2>1. \A v, x : AboveZero(v, x) => AboveZero(v, x)'
    BY <1>2 DEF AboveZero
  <2> QED
    BY <1>4, <1>8, <2>1 DEF IInv, NeverNegative
<1>11. \A v \in User : \/ users'[v] = users[v]
                       \/ Grew(v, users[v].balance, users'[v].balance)
  BY <1>4, <1>8
<1>12. Calls'
  <2>1. CallOK(p)'
    BY <1>1, <1>2, <1>3, <1>6 DEF CallOK
  <2> QED
    BY <1>2, <1>6, <1>9, <1>11, <2>1, CallsStep
<1>13. Solo'
  <2> SUFFICES ASSUME NEW v \in User \ overlapped PROVE SoloOf(v)'
    BY <1>2 DEF Solo
  <2>1. SoloOf(v)
    BY DEF IInv, Solo
  <2>2. CASE v # u
    <3>1. ~ Busy(p, v) /\ ~ Busy(p, v)' /\ users'[v] = users[v]
      BY <1>2, <1>3, <1>8, <2>2 DEF Busy
    <3>2. held'[v] = held[v]
      BY <1>1, <1>7, <2>2 DEF TypeOK
    <3> QED
      BY <1>6, <2>1, <3>1, <3>2, SoloOther
  <2>3. CASE v = u
    <3>1. Busy(p, u)
      BY <1>3 DEF Busy
    <3>2. /\ call[p].snap = old
          /\ r.withheldAmount = IF op[p].kind = "withhold"
                                THEN held[u][code] + op[p].value ELSE Keep
      BY <1>1, <1>3, <2>1, <2>3, <3>1 DEF SoloOf
    <3>3. r.withheldAmount = Keep \/ HasEntry(old.balance, code)
      BY <1>1, <1>3, <3>2 DEF CallOK
    <3>4. \A c : WithheldIn(doc, c) = IF c = code /\ r.withheldAmount # Keep
                                      THEN r.withheldAmount ELSE WithheldIn(old, c)
      BY <1>1, <3>2, <3>3, SavedWithheld DEF doc
    <3>5. op[p].kind = "withhold" => r.withheldAmount # Keep
      BY <1>1 DEF CallOK
    <3>6. \A c \in Asset : WithheldIn(users'[u], c) = held'[u][c]
      BY <1>1, <1>7, <1>8, <2>1, <2>3, <3>2, <3>4, <3>5 DEF SoloOf
    <3> HIDE DEF u
    <3>7. op'[p].kind \notin {"seed", "seeded"} /\ op'[p].user = op[p].user
      BY <1>2, <1>3
    <3> QED
      BY <1>6, <2>1, <2>3, <3>1, <3>6, <3>7, SoloDone
  <2> QED
    BY <2>2, <2>3
<1>14. FundsKept'
  <2> SUFFICES ASSUME NEW v \in User, NEW k \in Asset, <<v, k>> \notin debited,
                      HasEntry(users'[v].balance, k)
               PROVE  LET c == users'[v].balance IN
                      Total(c[First(c, k)]) = Worth(k)
    BY <1>2 DEF FundsKept
  <2>1. CASE v # u
    BY <1>8, <2>1 DEF IInv, FundsKept
  <2>2. CASE v = u
    <3> DEFINE b == old.balance
               c == doc.balance
    <3>1. HasEntry(b, k) /\ users'[v].balance = c
      BY <1>5, <1>8, <2>2
    <3>2. b \in Seq(Entry) /\ c \in Seq(Entry)
      BY <1>1, <1>4 DEF UserDoc
    <3>3. Len(b) <= Len(c) /\ \A i \in DOMAIN b : c[i].assetCode = b[i].assetCode
      BY <1>4 DEF Grew
    <3>4. First(c, k) = First(b, k)
      BY <3>1, <3>2, <3>3, FirstStays
    <3>5. First(b, k) \in DOMAIN b /\ b[First(b, k)].assetCode = k
      BY <3>1, <3>2, FirstFinds
    <3>6. Total(c[First(b, k)]) = Total(b[First(b, k)])
      BY <1>4, <2>2, <3>5 DEF Grew
    <3>7. Total(b[First(b, k)]) = Worth(k)
      BY <1>1, <2>2, <3>1 DEF IInv, FundsKept
    <3> QED
      BY <3>1, <3>4, <3>6, <3>7
  <2> QED
    BY <2>1, <2>2
<1>15. DebitsKnown'
  BY <1>2 DEF IInv, DebitsKnown
<1> QED
  BY <1>2, <1>9, <1>10, <1>11, <1>12, <1>13, <1>14, <1>15 DEF IInv

\* A handler goes on with its request, or is done with it, without a save.
LEMMA WorkIInv ==
    ASSUME IInv, NEW p \in Proc, OthersStay(p), op[p].kind # "none",
           UNCHANGED <<users, requests, held, overlapped, debited>>,
           negative \subseteq negative',
           negative' \subseteq User \X Asset \X {"amount", "withheldAmount"},
           call' \in [Proc -> BalanceCall], op' \in [Proc -> Op], CallOK(p)',
           DebitsKnown', op'[p].kind \notin {"seed", "seeded"},
           op'[p].kind = "none" \/ op'[p].user = op[p].user, call'[p].step # "save",
           op[p].user \notin overlapped /\ call'[p].step = "find" =>
              call'[p].req.withheldAmount =
                 IF op'[p].kind = "withhold"
                 THEN held[op[p].user][op'[p].assetCode] + op'[p].value ELSE Keep
    PROVE  IInv'
<1>1. TypeOK'
  BY DEF IInv, TypeOK, UBTypeOK
<1>2. NeverNegative' /\ FundsKept'
  BY FundsStay
<1>3. Calls'
  BY <1>1, CallsStep
<1>4. Solo'
  <2> SUFFICES ASSUME NEW v \in User \ overlapped PROVE SoloOf(v)'
    BY DEF Solo
  <2>1. SoloOf(v) /\ UNCHANGED <<users, held>>
    BY DEF IInv, Solo
  <2>2. CASE Busy(p, v)
    <3>1. op[p].user = v /\ \A q \in Proc : Busy(q, v)' => q = p
      BY <2>1, <2>2 DEF SoloOf, Busy, OthersStay
    <3> QED
      BY <2>1, <3>1 DEF SoloOf
  <2>3. CASE ~ Busy(p, v)
    <3>1. ~ Busy(p, v)'
      BY <2>3 DEF Busy
    <3> QED
      BY <2>1, <2>3, <3>1, SoloOther
  <2> QED
    BY <2>2, <2>3
<1> QED
  BY <1>1, <1>2, <1>3, <1>4 DEF IInv

\* A handler that saved the VPC entry goes on with it, or refuses.
LEMMA WithholdSeededIInv ==
    ASSUME IInv, NEW p \in Proc, WithholdSeeded(p)
    PROVE  IInv'
<1> DEFINE u == op[p].user
           w == op[p].value
<1>1. /\ op[p] \in Op /\ u \in User /\ w \in Int /\ op[p].kind = "seeded"
      /\ UNCHANGED <<requests, held, overlapped, debited>> /\ CallOK(p)
  BY DEF WithholdSeeded, IInv, TypeOK, Op, Calls
<1>2. call[p].step = "idle"
  BY <1>1, FreeHandler
<1>3. CASE op' = [op EXCEPT ![p] = NoOp] /\ UNCHANGED <<ubVars, negative>>
  <2>1. /\ UNCHANGED <<users, call, negative>> /\ OthersStay(p)
        /\ op' \in [Proc -> Op] /\ op'[p].kind = "none"
    BY <1>3, NoTypes DEF ubVars, IInv, TypeOK, OthersStay
  <2>2. CallOK(p)'
    BY <1>1, <1>2, <2>1 DEF CallOK
  <2> QED
    BY <1>1, <1>2, <2>1, <2>2, WorkIInv DEF IInv, TypeOK, UBTypeOK, DebitsKnown
<1>4. CASE /\ op[p].assetCode = "VPC" /\ Transfer(p, u, SeedEntry, w)
           /\ op' = [op EXCEPT ![p].kind = "withhold"]
  <2>1. /\ SeedEntry \in Entry /\ AboveZero(u, SeedEntry)
        /\ SeedEntry.assetCode = "VPC" /\ SeedEntry.withheldAmount = 0
        /\ Total(SeedEntry) = 0
    BY DEF SeedEntry, Entry, Asset, Amount, AboveZero, Total
  <2>2. PICK r \in Request :
          /\ Call(p, r) /\ r.user = u /\ r.assetCode = "VPC"
          /\ r.amount \in Nat /\ r.withheldAmount \in Int
          /\ Total(r) = 0 /\ r.withheldAmount = 0 + w
          /\ \/ r.withheldAmount \in Nat
             \/ <<u, r.assetCode, "withheldAmount">> \in negative'
    <3> HIDE DEF u, w
    <3> QED
      BY <1>1, <1>4, <2>1, TransferRequest
  <2>3. /\ negative \subseteq negative'
        /\ negative' \subseteq User \X Asset \X {"amount", "withheldAmount"}
        /\ \A v, c : <<v, c, "amount">> \in negative' => <<v, c, "amount">> \in negative
    <3>1. negative' = Signed(u, "VPC", "withheldAmount", w)
      BY <1>4, <2>1 DEF Transfer
    <3> HIDE DEF u, w
    <3> QED
      BY <1>1, <3>1, SignedType, WithheldOnly DEF Asset
  <2>4. /\ op' \in [Proc -> Op] /\ op'[p] = [op[p] EXCEPT !.kind = "withhold"]
        /\ \A q \in Proc : q # p => op'[q] = op[q]
    <3>1. [op[p] EXCEPT !.kind = "withhold"] \in Op
      BY <1>1 DEF Op
    <3> QED
      BY <1>4, <3>1 DEF IInv, TypeOK
  <2>5. /\ op'[p].kind = "withhold" /\ op'[p].user = u /\ op'[p].assetCode = "VPC"
        /\ op'[p].value = w
    BY <1>1, <1>4, <2>4 DEF Op
  <2>6. /\ call' \in [Proc -> BalanceCall] /\ UNCHANGED users
        /\ call'[p].step = "find" /\ call'[p].req = r
        /\ \A q \in Proc : q # p => call'[q] = call[q]
    <3>1. /\ [NoCall EXCEPT !.step = "find", !.req = r] \in BalanceCall
          /\ [NoCall EXCEPT !.step = "find", !.req = r].step = "find"
          /\ [NoCall EXCEPT !.step = "find", !.req = r].req = r
      BY NoTypes DEF BalanceCall, Step
    <3> QED
      BY <2>2, <3>1 DEF Call, IInv, TypeOK, UBTypeOK
  <2>7. /\ HasEntry(users[u].balance, "VPC")
        /\ <<u, "VPC">> \notin debited =>
              Total(users[u].balance[First(users[u].balance, "VPC")]) = 0
    BY <1>1 DEF CallOK, IInv, FundsKept, Worth, Asset
  <2>8. CallOK(p)'
    <3> HIDE DEF u, w
    <3> QED
      BY <1>1, <2>2, <2>5, <2>6, <2>7, UserAssumption DEF CallOK, NatOrKeep
  <2>9. u \notin overlapped => r.withheldAmount = held[u]["VPC"] + w
    BY <1>1, <2>2 DEF IInv, Solo, SoloOf, Busy
  <2>10. DebitsKnown'
    BY <1>1, <2>3 DEF IInv, DebitsKnown
  <2> QED
    BY <1>1, <2>3, <2>4, <2>5, <2>6, <2>8, <2>9, <2>10, WorkIInv DEF OthersStay
<1> QED
  BY <1>1, <1>3, <1>4 DEF WithholdSeeded

\* The save fails, or the answer arrives.
LEMMA EndIInv ==
    ASSUME IInv, NEW p \in Proc, UpdateRejected(p) \/ Answer(p)
    PROVE  IInv'
<1>1. /\ call[p] \in BalanceCall /\ call[p].step \in {"save", "saved", "failed"}
      /\ op[p].kind \in {"withhold", "debit"} /\ CallOK(p)
  BY DEF UpdateRejected, SaveRejected, Answer, IInv, TypeOK, UBTypeOK, Calls, CallOK
<1>2. /\ UNCHANGED <<users, requests, held, overlapped, debited, negative>>
      /\ call' \in [Proc -> BalanceCall] /\ OthersStay(p)
      /\ call'[p].step \notin {"find", "save"}
      /\ op' \in [Proc -> Op] /\ (op'[p] = op[p] \/ op'[p].kind = "none")
      /\ CallOK(p)'
  <2>1. CASE UpdateRejected(p)
    <3> DEFINE x == [call[p] EXCEPT !.step = "failed"]
    <3>1. x \in BalanceCall /\ x.step = "failed" /\ x.req = call[p].req
      BY <1>1 DEF BalanceCall, Step
    <3>2. call' = [call EXCEPT ![p] = x] 
          /\ UNCHANGED <<users, op, requests, held, overlapped, debited, negative>>
      BY <2>1 DEF UpdateRejected, SaveRejected
    <3> HIDE DEF x
    <3>3. call' \in [Proc -> BalanceCall] /\ OthersStay(p) /\ call'[p] = x
      BY <3>1, <3>2 DEF IInv, TypeOK, UBTypeOK, OthersStay
    <3>4. CallOK(p)'
      BY <1>1, <3>1, <3>2, <3>3 DEF CallOK
    <3> QED
      BY <3>1, <3>2, <3>3, <3>4 DEF IInv, TypeOK
  <2>2. CASE Answer(p)
    <3>1. /\ call' = [call EXCEPT ![p] = NoCall] /\ op' = [op EXCEPT ![p] = NoOp]
          /\ UNCHANGED <<users, requests, held, overlapped, debited, negative>>
      BY <2>2 DEF Answer, Return
    <3>2. /\ call' \in [Proc -> BalanceCall] /\ OthersStay(p)
          /\ op' \in [Proc -> Op] /\ call'[p] = NoCall /\ op'[p] = NoOp
      BY <3>1, NoTypes DEF IInv, TypeOK, UBTypeOK, OthersStay
    <3>3. CallOK(p)'
      BY <3>2, NoTypes DEF CallOK, NatOrKeep
    <3> QED
      BY <3>1, <3>2, <3>3, NoTypes
  <2> QED
    BY <2>1, <2>2
<1>3. DebitsKnown'
  BY <1>2 DEF IInv, DebitsKnown
<1> QED
  BY <1>1, <1>2, <1>3, WorkIInv DEF IInv, TypeOK

-----------------------------------------------------------------------------
LEMMA InitIInv == Init => IInv
<1> SUFFICES ASSUME Init PROVE IInv
  OBVIOUS
<1> DEFINE e == [assetCode |-> "BTC", amount |-> Funds, withheldAmount |-> 0]
<1>1. /\ \A p \in Proc : /\ call[p] = NoCall /\ op[p] = NoOp
                         /\ call[p].step = "idle" /\ op[p].kind = "none"
      /\ call = [p \in Proc |-> NoCall] /\ op = [p \in Proc |-> NoOp]
      /\ \A u \in User : users[u] \in {EmptyDoc, FundedDoc}
      /\ users \in [User -> UserDoc]
      /\ held = [u \in User |-> [code \in Asset |-> 0]]
      /\ overlapped = {} /\ debited = {} /\ negative = {} /\ requests = 0
  BY NoTypes DEF Init, UBInit
<1>2. TypeOK
  BY <1>1, NoTypes, BalanceOpsAssumption DEF TypeOK, UBTypeOK
<1>3. /\ EmptyDoc.balance = << >>
      /\ FundedDoc.balance = Append(<< >>, e) /\ e \in Entry
      /\ e.amount = Funds /\ e.withheldAmount = 0 /\ Funds \in Nat
  BY BalanceOpsAssumption
  DEF EmptyDoc, FundedDoc, Pushed, Entry, Asset, Amount
<1> HIDE DEF e
<1>4. /\ DOMAIN FundedDoc.balance = {1} /\ FundedDoc.balance[1] = e
      /\ DOMAIN EmptyDoc.balance = {}
  BY <1>3
<1>5. ASSUME NEW doc \in {EmptyDoc, FundedDoc}, NEW code
      PROVE  /\ WithheldIn(doc, code) = 0
             /\ HasEntry(doc.balance, code) =>
                   doc.balance[First(doc.balance, code)] = e
  <2>1. CASE doc = EmptyDoc
    BY <1>4, <2>1 DEF WithheldIn, HasEntry, Positions
  <2>2. CASE doc = FundedDoc
    <3>1. HasEntry(doc.balance, code) => First(doc.balance, code) = 1
      <4>1. doc.balance \in Seq(Entry)
        BY NoTypes DEF UserDoc
      <4>2. HasEntry(doc.balance, code) =>
               First(doc.balance, code) \in DOMAIN doc.balance
        BY <4>1, FirstFinds
      <4> QED
        BY <1>4, <2>2, <4>2
    <3> QED
      BY <1>3, <1>4, <2>2, <3>1 DEF WithheldIn
  <2> QED
    BY <2>1, <2>2
<1>6. NeverNegative
  <2> SUFFICES ASSUME NEW u \in User, NEW i \in DOMAIN users[u].balance
               PROVE  AboveZero(u, users[u].balance[i])
    BY DEF NeverNegative
  <2>1. users[u] = FundedDoc /\ users[u].balance[i] = e
    BY <1>1, <1>4
  <2> QED
    BY <1>3, <2>1 DEF AboveZero
<1>7. Calls
  BY <1>1, NoTypes DEF Calls, CallOK, NatOrKeep
<1>8. Solo
  BY <1>1, <1>5 DEF Solo, SoloOf, Busy
<1>9. FundsKept
  <2>1. ASSUME NEW u \in User, NEW code \in Asset, HasEntry(users[u].balance, code)
        PROVE  Total(users[u].balance[First(users[u].balance, code)]) = Worth(code)
    <3>1. /\ users[u].balance \in Seq(Entry) /\ users[u] \in {EmptyDoc, FundedDoc}
          /\ users[u].balance[First(users[u].balance, code)] = e
      BY <1>1, <1>5, <2>1 DEF UserDoc
    <3>2. e.assetCode = code
      BY <2>1, <3>1, FirstFinds
    <3>3. e.assetCode = "BTC"
      BY DEF e
    <3> QED
      BY <1>3, <3>1, <3>2, <3>3 DEF Total, Worth
  <2> QED
    BY <2>1 DEF FundsKept
<1>10. DebitsKnown
  BY <1>1 DEF DebitsKnown
<1> QED
  BY <1>2, <1>6, <1>7, <1>8, <1>9, <1>10 DEF IInv

LEMMA NextIInv == IInv /\ [Next]_vars => IInv'
<1> SUFFICES ASSUME IInv, [Next]_vars PROVE IInv'
  OBVIOUS
<1>1. ASSUME NEW p \in Proc, NEW u \in User, NEW code \in Asset,
             NEW w \in Withholds, WithholdSeed(p, u, code, w)
      PROVE  IInv'
  BY <1>1, WithholdSeedIInv
<1>2. ASSUME NEW p \in Proc, NEW u \in User, NEW code \in Asset,
             NEW w \in Withholds, Withhold(p, u, code, w)
      PROVE  IInv'
  BY <1>2, WithholdIInv
<1>3. ASSUME NEW p \in Proc, NEW u \in User, NEW d \in Debits,
             Debit(p, u, d[1], d[2])
      PROVE  IInv'
  <2>1. d[1] \in Asset /\ d[2] \in Int
    BY BalanceOpsAssumption
  <2> QED
    BY <1>3, <2>1, DebitIInv
<1>4. ASSUME NEW p \in Proc, SeedSave(p) PROVE IInv'
  BY <1>4, SeedSaveIInv
<1>5. ASSUME NEW p \in Proc, UpdateFind(p) PROVE IInv'
  BY <1>5, UpdateFindIInv
<1>6. ASSUME NEW p \in Proc, UpdateSave(p) PROVE IInv'
  BY <1>6, UpdateSaveIInv
<1>7. ASSUME NEW p \in Proc, UpdateRejected(p) \/ Answer(p) PROVE IInv'
  BY <1>7, EndIInv
<1>9. ASSUME NEW p \in Proc, WithholdSeeded(p) PROVE IInv'
  BY <1>9, WithholdSeededIInv
<1>8. CASE UNCHANGED vars
  <2>1. UNCHANGED <<users, call, op, requests, held, overlapped, debited, negative>>
    BY <1>8 DEF vars, ubVars
  <2>2. TypeOK' /\ NeverNegative'
    BY <2>1 DEF IInv, TypeOK, UBTypeOK, NeverNegative, AboveZero
  <2>3. Calls' /\ FundsKept' /\ DebitsKnown'
    BY <2>1 DEF IInv, Calls, CallOK, FundsKept, DebitsKnown
  <2>4. Solo'
    BY <2>1 DEF IInv, Solo, SoloOf, Busy
  <2> QED
    BY <2>2, <2>3, <2>4 DEF IInv
<1> QED
  BY <1>1, <1>2, <1>3, <1>4, <1>5, <1>6, <1>7, <1>8, <1>9 DEF Next

\* The strengthened invariant holds in every state.
THEOREM Inductive == Spec => []IInv
  BY InitIInv, NextIInv, PTL DEF Spec

\* Documents, calls and requests have the types the model gives them: every
\* entry stays an entry, whatever is saved over it.
THEOREM TypeCorrect == Spec => []TypeOK
<1>1. IInv => TypeOK
  BY DEF IInv
<1> QED
  BY <1>1, Inductive, PTL

\* What updateWithheldBalance, debit and balanceUpdate store goes below zero
\* only where a request asked for less than nothing, however they interleave.
THEOREM NothingIsNegative == Spec => []NeverNegative
<1>1. IInv => NeverNegative
  BY DEF IInv
<1> QED
  BY <1>1, Inductive, PTL

\* What the successful withholdings of a user add up to is withheld in his
\* document, unless his requests overlapped.
THEOREM WhatIsHeldIsStored == Spec => []HeldIsStored
<1>1. IInv => HeldIsStored
  BY DEF IInv, Solo, SoloOf, HeldIsStored
<1> QED
  BY <1>1, Inductive, PTL

\* "not enough amount in your wallet": without overlaps and debits no more is
\* withheld than the user had.
THEOREM HeldIsWithinFunds == Spec => []WithinFunds
<1>1. IInv => WithinFunds
  <2> SUFFICES ASSUME IInv, NEW u \in User \ overlapped, <<u, "BTC">> \notin debited
               PROVE  held[u]["BTC"] <= Funds
    BY DEF WithinFunds
  <2> DEFINE b == users[u].balance
             i == First(b, "BTC")
  <2>1. WithheldIn(users[u], "BTC") = held[u]["BTC"]
    BY DEF IInv, Solo, SoloOf, Asset
  <2>2. CASE HasEntry(b, "BTC")
    <3>1. b \in Seq(Entry)
      BY DEF IInv, TypeOK, UBTypeOK, UserDoc
    <3>2. i \in DOMAIN b
      BY <2>2, <3>1, FirstFinds
    <3>3. /\ b[i].amount \in Int /\ b[i].withheldAmount \in Int
          /\ b[i].amount >= 0
      <4>1. b[i] \in Entry
        BY <3>1, <3>2
      <4>2. b[i].amount >= 0
        <5>1. <<u, "BTC", "amount">> \notin negative
          BY DEF IInv, DebitsKnown, Asset
        <5>2. b[i].assetCode = "BTC" /\ AboveZero(u, b[i])
          BY <2>2, <3>1, <3>2, FirstFinds DEF IInv, NeverNegative
        <5> QED
          BY <5>1, <5>2 DEF AboveZero
      <4> QED
        BY <4>1, <4>2 DEF Entry, Amount
    <3>4. b[i].amount + b[i].withheldAmount = Funds
      BY <2>2 DEF IInv, FundsKept, Total, Worth, Asset
    <3>5. held[u]["BTC"] = b[i].withheldAmount
      BY <2>1, <2>2 DEF WithheldIn
    <3> QED
      BY <3>3, <3>4, <3>5
  <2>3. CASE ~ HasEntry(b, "BTC")
    BY <2>1, <2>3, BalanceOpsAssumption DEF WithheldIn
  <2> QED
    BY <2>2, <2>3
<1> QED
  BY <1>1, Inductive, PTL

\* Withholdings neither make nor destroy money, and no save lands on the
\* entry of another asset, however the requests of a user interleave.
THEOREM MoneyIsConserved == Spec => Conserved
<1> DEFINE Keeps == \A u \in User : \A i \in DOMAIN users[u].balance :
               /\ i \in DOMAIN users'[u].balance
               /\ users'[u].balance[i].assetCode = users[u].balance[i].assetCode
               /\ <<u, users[u].balance[i].assetCode>> \notin debited =>
                     Total(users'[u].balance[i]) = Total(users[u].balance[i])
<1>1. IInv /\ [Next]_vars => [Keeps]_users
  <2> SUFFICES ASSUME IInv, IInv', [Next]_vars, users' # users PROVE Keeps
    BY NextIInv
  <2>1. \A u \in User : /\ users[u].balance \in Seq(Entry)
                        /\ users'[u].balance \in Seq(Entry)
    BY DEF IInv, TypeOK, UBTypeOK, UserDoc
  <2>2. ASSUME \A u \in User : \/ users'[u] = users[u]
                               \/ Grew(u, users[u].balance, users'[u].balance)
        PROVE  Keeps
    <3> SUFFICES ASSUME NEW u \in User, NEW i \in DOMAIN users[u].balance
        PROVE
               /\ i \in DOMAIN users'[u].balance
               /\ users'[u].balance[i].assetCode = users[u].balance[i].assetCode
               /\ <<u, users[u].balance[i].assetCode>> \notin debited =>
                     Total(users'[u].balance[i]) = Total(users[u].balance[i])
      OBVIOUS
    <3>1. CASE users'[u] = users[u]
      BY <3>1
    <3>2. CASE Grew(u, users[u].balance, users'[u].balance)
      <4>1. i \in DOMAIN users'[u].balance
        <5>1. /\ DOMAIN users[u].balance = 1 .. Len(users[u].balance)
              /\ DOMAIN users'[u].balance = 1 .. Len(users'[u].balance)
              /\ Len(users[u].balance) \in Nat /\ Len(users'[u].balance) \in Nat
          BY <2>1
        <5>2. Len(users[u].balance) <= Len(users'[u].balance)
          BY <3>2 DEF Grew
        <5> QED
          BY <5>1, <5>2
      <4>2. /\ users'[u].balance[i].assetCode = users[u].balance[i].assetCode
            /\ <<u, users[u].balance[i].assetCode>> \notin debited =>
                  Total(users'[u].balance[i]) = Total(users[u].balance[i])
        BY <3>2 DEF Grew
      <4> QED
        BY <4>1, <4>2
    <3> QED
      BY <2>2, <3>1, <3>2
  <2>3. ASSUME NEW p \in Proc, UpdateSave(p) PROVE Keeps
    <3>1. \A u \in User : \/ users'[u] = users[u]
                          \/ Grew(u, users[u].balance, users'[u].balance)
      BY <2>3, UpdateSaveIInv
    <3> QED
      BY <2>2, <3>1
  <2>4. ASSUME NEW p \in Proc, SeedSave(p) PROVE Keeps
    <3>1. \A u \in User : \/ users'[u] = users[u]
                          \/ Grew(u, users[u].balance, users'[u].balance)
      BY <2>4, SeedSaveIInv
    <3> QED
      BY <2>2, <3>1
  <2>5. \E p \in Proc : UpdateSave(p) \/ SeedSave(p)
    <3>1. Next
      BY DEF vars, ubVars
    <3>4. ASSUME NEW p \in Proc PROVE ~ WithholdSeeded(p)
      BY DEF WithholdSeeded, Transfer, Call, ubVars
    <3>2. ASSUME NEW p \in Proc PROVE ~ UpdateFind(p) /\ ~ UpdateRejected(p) /\ ~ Answer(p)
      BY DEF UpdateFind, FindUser, UpdateRejected, SaveRejected, Answer, Return
    <3>3. ASSUME NEW p \in Proc, NEW u \in User, NEW code, NEW w
          PROVE  /\ ~ WithholdSeed(p, u, code, w) /\ ~ Withhold(p, u, code, w)
                 /\ ~ Debit(p, u, code, w)
      BY DEF WithholdSeed, Withhold, Transfer, Debit, Call, ubVars
    <3> QED
      BY <3>1, <3>2, <3>3, <3>4 DEF Next
  <2> QED
    BY <2>3, <2>4, <2>5
<1> QED
  BY <1>1, Inductive, PTL DEF Spec, Conserved
=============================================================================
