------------------------- MODULE UserBalanceProofs -------------------------
(***************************************************************************)
(* Facts about the user document and the operators that save it, used by   *)
(* the proofs of the modules that extend UserBalance.                      *)
(***************************************************************************)
EXTENDS UserBalance, WellFoundedInduction, SequenceTheorems, TLAPS

\* A non-empty set of naturals has a least element.
LEMMA Least ==
    ASSUME NEW T \in SUBSET Nat, T # {}
    PROVE  \E x \in T : \A y \in T : x <= y
<1>1. PICK x \in T : \A y \in T : ~ (<<y, x>> \in OpToRel(<, Nat))
  BY NatLessThanWellFounded, WFMin
<1>2. ASSUME NEW y \in T PROVE x <= y
  <2>1. ~ (<<y, x>> \in OpToRel(<, Nat))
    BY <1>1
  <2>2. x \in Nat /\ y \in Nat
    OBVIOUS
  <2>3. ~ (y < x)
    BY <2>1, <2>2 DEF OpToRel
  <2> QED BY <2>2, <2>3
<1> QED BY <1>2

\* find() returns an entry of the array that has the asset it looks for.
LEMMA FirstFinds ==
    ASSUME NEW b \in Seq(Entry), NEW code, HasEntry(b, code)
    PROVE  /\ First(b, code) \in DOMAIN b
           /\ b[First(b, code)].assetCode = code
<1> DEFINE P == Positions(b, code)
<1>1. P \in SUBSET Nat /\ P # {}
  BY DEF HasEntry, Positions
<1>2. \E x \in P : \A y \in P : x <= y
  BY <1>1, Least
<1>3. First(b, code) \in P
  BY <1>2 DEF First
<1> QED BY <1>3 DEF Positions

\* checkBalance reports an amount.
LEMMA BalanceOfType ==
    ASSUME NEW doc \in UserDoc, NEW code
    PROVE  BalanceOf(doc, code) \in Amount
<1>1. doc.balance \in Seq(Entry)
  BY DEF UserDoc
<1>2. CASE HasEntry(doc.balance, code)
  <2>1. First(doc.balance, code) \in DOMAIN doc.balance
    BY <1>1, <1>2, FirstFinds
  <2>2. doc.balance[First(doc.balance, code)] \in Entry
    BY <1>1, <2>1
  <2>3. BalanceOf(doc, code) = doc.balance[First(doc.balance, code)].amount
    BY <1>2 DEF BalanceOf
  <2> QED BY <2>2, <2>3 DEF Entry
<1>3. CASE ~ HasEntry(doc.balance, code)
  BY <1>3 DEF BalanceOf, Amount
<1> QED BY <1>2, <1>3

\* A new entry is an entry: an absent field is stored as 0.
LEMMA NewEntryType ==
    ASSUME NEW r \in Request
    PROVE  NewEntry(r) \in Entry
BY DEF NewEntry, OrDefault, Entry, Request, Amount

\* The entry that a positional $set leaves is an entry.
LEMMA SetFieldsType ==
    ASSUME NEW entry \in Entry, NEW loaded \in Entry, NEW r \in Request
    PROVE  SetFields(entry, loaded, r) \in Entry
BY DEF SetFields, Modified, Entry, Request, Amount

\* Saving a request on any loaded document keeps the stored one well formed.
LEMMA SavedType ==
    ASSUME NEW stored \in UserDoc, NEW loaded \in UserDoc, NEW r \in Request
    PROVE  Saved(stored, loaded, r) \in UserDoc
<1> DEFINE i == First(loaded.balance, r.assetCode)
<1>1. loaded.balance \in Seq(Entry) /\ stored.balance \in Seq(Entry)
  BY DEF UserDoc
<1>2. CASE ~ HasEntry(loaded.balance, r.assetCode)
  <2>1. Append(stored.balance, NewEntry(r)) \in Seq(Entry)
    BY <1>1, NewEntryType
  <2> QED BY <1>2, <2>1 DEF Saved, Pushed, UserDoc
<1>3. CASE /\ HasEntry(loaded.balance, r.assetCode)
           /\ Touches(loaded.balance[i], r)
  <2> DEFINE e == SetFields(stored.balance[i], loaded.balance[i], r)
  <2>1. loaded.balance[i] \in Entry
    BY <1>1, <1>3, FirstFinds
  <2>2. [stored.balance EXCEPT ![i] = e] \in Seq(Entry)
    <3>1. CASE i \in DOMAIN stored.balance
      <4>1. stored.balance[i] \in Entry
        BY <1>1, <3>1
      <4>2. e \in Entry
        BY <2>1, <4>1, SetFieldsType
      <4> QED BY <1>1, <3>1, <4>2
    <3>2. CASE i \notin DOMAIN stored.balance
      <4>1. [stored.balance EXCEPT ![i] = e] = stored.balance
        BY <1>1, <3>2
      <4> QED BY <1>1, <4>1
    <3> QED BY <3>1, <3>2
  <2>3. Saved(stored, loaded, r)
          = [stored EXCEPT !.balance = [stored.balance EXCEPT ![i] = e]]
    BY <1>3 DEF Saved
  <2> QED BY <2>2, <2>3 DEF UserDoc
<1>4. CASE /\ HasEntry(loaded.balance, r.assetCode)
           /\ ~ Touches(loaded.balance[i], r)
  BY <1>4 DEF Saved
<1> QED BY <1>2, <1>3, <1>4

\* find() returns the least position.
LEMMA FirstIsLeast ==
    ASSUME NEW b, NEW code, Positions(b, code) \in SUBSET Nat,
           NEW x \in Positions(b, code), \A y \in Positions(b, code) : x <= y
    PROVE  First(b, code) = x
<1> DEFINE P == Positions(b, code)
           f == First(b, code)
<1>1. f \in P /\ \A y \in P : f <= y
  BY DEF First
<1>2. f <= x /\ x <= f
  BY <1>1
<1>3. f \in Nat /\ x \in Nat
  BY <1>1
<1> QED BY <1>2, <1>3

\* Any two sets of positions that are equal have the same first element, so
\* an array whose entries keep their assets keeps its first entries.
LEMMA SamePositions ==
    ASSUME NEW b, NEW c, NEW code, Positions(b, code) = Positions(c, code)
    PROVE  /\ HasEntry(b, code) <=> HasEntry(c, code)
           /\ First(b, code) = First(c, code)
BY DEF HasEntry, First

\* After a save of a request for an asset, the balance of that asset is the
\* requested amount or what it was.
LEMMA SavedBalance ==
    ASSUME NEW stored \in UserDoc, NEW loaded \in UserDoc, NEW r \in Request,
           r.amount # Keep
    PROVE  BalanceOf(Saved(stored, loaded, r), r.assetCode)
             \in {r.amount, BalanceOf(stored, r.assetCode)}
<1> DEFINE code == r.assetCode
           i == First(loaded.balance, code)
           old == stored.balance
           after == Saved(stored, loaded, r)
<1>1. loaded.balance \in Seq(Entry) /\ old \in Seq(Entry)
  BY DEF UserDoc
<1>2. CASE ~ HasEntry(loaded.balance, code)
  <2> DEFINE new == Append(old, NewEntry(r))
  <2>1. after.balance = new
    BY <1>2 DEF Saved, Pushed
  <2>2. NewEntry(r) \in Entry /\ NewEntry(r).assetCode = code
        /\ NewEntry(r).amount = r.amount
    BY NewEntryType DEF NewEntry, OrDefault
  <2>3. new \in Seq(Entry) /\ Len(new) = Len(old) + 1
        /\ new[Len(old) + 1] = NewEntry(r)
        /\ \A k \in 1 .. Len(old) : new[k] = old[k]
    BY <1>1, <2>2
  <2>4. DOMAIN new = 1 .. Len(old) + 1 /\ DOMAIN old = 1 .. Len(old) /\ Len(old) \in Nat
    BY <1>1, <2>3
  <2>5. Positions(new, code) = Positions(old, code) \cup {Len(old) + 1}
    BY <2>2, <2>3, <2>4 DEF Positions
  <2>6. HasEntry(new, code)
    BY <2>5 DEF HasEntry
  <2>7. First(new, code) \in DOMAIN new /\ new[First(new, code)].assetCode = code
    BY <2>3, <2>6, FirstFinds
  <2>8. CASE HasEntry(old, code)
    <3>1. First(old, code) \in DOMAIN old /\ old[First(old, code)].assetCode = code
      BY <1>1, <2>8, FirstFinds
    <3>2. PICK x \in Positions(old, code) : \A y \in Positions(old, code) : x <= y
      <4>1. Positions(old, code) \in SUBSET Nat /\ Positions(old, code) # {}
        BY <2>4, <2>8 DEF Positions, HasEntry
      <4> QED BY <4>1, Least
    <3>3. x \in Nat /\ x <= Len(old)
      BY <2>4 DEF Positions
    <3>4. \A k \in Positions(old, code) : k \in Nat
      BY <2>4 DEF Positions
    <3>5. First(old, code) = x
      BY <3>2, <3>4, FirstIsLeast
    <3>6. First(new, code) = x
      <4>1. Positions(new, code) \in SUBSET Nat /\ x \in Positions(new, code)
        BY <2>4, <2>5, <3>4
      <4>2. \A y \in Positions(new, code) : x <= y
        BY <2>4, <2>5, <3>2, <3>3
      <4> QED BY <4>1, <4>2, FirstIsLeast
    <3>7. new[x] = old[x]
      BY <2>3, <2>4, <3>3, <3>1, <3>5
    <3>8. BalanceOf(after, code) = new[x].amount
      BY <2>1, <2>6, <3>6 DEF BalanceOf
    <3>9. BalanceOf(stored, code) = old[x].amount
      BY <2>8, <3>5 DEF BalanceOf
    <3> QED BY <3>7, <3>8, <3>9
  <2>9. CASE ~ HasEntry(old, code)
    <3>1. Positions(new, code) = {Len(old) + 1}
      BY <2>5, <2>9 DEF HasEntry
    <3>2. First(new, code) = Len(old) + 1
      BY <2>4, <3>1 DEF First
    <3> QED BY <2>1, <2>2, <2>3, <2>6, <3>2 DEF BalanceOf
  <2> QED BY <2>8, <2>9
<1>3. CASE HasEntry(loaded.balance, code) /\ Touches(loaded.balance[i], r)
  <2> DEFINE e == SetFields(old[i], loaded.balance[i], r)
             new == [old EXCEPT ![i] = e]
  <2>1. after = [stored EXCEPT !.balance = new]
    BY <1>3 DEF Saved
  <2>2. after.balance = new
    BY <2>1 DEF UserDoc
  <2>3. e.assetCode = old[i].assetCode /\ e.amount \in {r.amount, old[i].amount}
    BY DEF SetFields
  <2>4. DOMAIN new = DOMAIN old
    BY <1>1
  <2>5. \A k \in DOMAIN old : /\ new[k].assetCode = old[k].assetCode
                             /\ new[k].amount \in {r.amount, old[k].amount}
    BY <1>1, <2>3
  <2>6. Positions(new, code) = Positions(old, code)
    BY <2>4, <2>5 DEF Positions
  <2>7. HasEntry(new, code) <=> HasEntry(old, code)
    BY <2>6, SamePositions
  <2>8. First(new, code) = First(old, code)
    BY <2>6, SamePositions
  <2>9. CASE HasEntry(old, code)
    <3>1. First(old, code) \in DOMAIN old
      BY <1>1, <2>9, FirstFinds
    <3>2. BalanceOf(after, code) = new[First(old, code)].amount
      BY <2>2, <2>7, <2>8, <2>9 DEF BalanceOf
    <3>3. BalanceOf(stored, code) = old[First(old, code)].amount
      BY <2>9 DEF BalanceOf
    <3> QED BY <2>5, <3>1, <3>2, <3>3
  <2>10. CASE ~ HasEntry(old, code)
    BY <2>2, <2>7, <2>10 DEF BalanceOf
  <2> QED BY <2>9, <2>10
<1>4. CASE HasEntry(loaded.balance, code) /\ ~ Touches(loaded.balance[i], r)
  BY <1>4 DEF Saved
<1> QED BY <1>2, <1>3, <1>4

\* A request saved on the document it was loaded from leaves exactly the
\* requested amount, whether it is pushed, set, or equal to what is there.
LEMMA SavedExactly ==
    ASSUME NEW doc \in UserDoc, NEW r \in Request, r.amount # Keep
    PROVE  BalanceOf(Saved(doc, doc, r), r.assetCode) = r.amount
<1> DEFINE code == r.assetCode
           i == First(doc.balance, code)
           old == doc.balance
           after == Saved(doc, doc, r)
<1>1. old \in Seq(Entry)
  BY DEF UserDoc
<1>2. CASE ~ HasEntry(old, code)
  <2> DEFINE new == Append(old, NewEntry(r))
  <2>1. after.balance = new
    BY <1>2 DEF Saved, Pushed
  <2>2. NewEntry(r) \in Entry /\ NewEntry(r).assetCode = code
        /\ NewEntry(r).amount = r.amount
    BY NewEntryType DEF NewEntry, OrDefault
  <2>3. Len(new) = Len(old) + 1 /\ new[Len(old) + 1] = NewEntry(r)
        /\ \A k \in 1 .. Len(old) : new[k] = old[k]
    BY <1>1, <2>2
  <2>4. DOMAIN new = 1 .. Len(old) + 1 /\ DOMAIN old = 1 .. Len(old) /\ Len(old) \in Nat
    BY <1>1, <2>2, <2>3
  <2>5. Positions(new, code) = {Len(old) + 1}
    BY <1>2, <2>2, <2>3, <2>4 DEF Positions, HasEntry
  <2>6. HasEntry(new, code) /\ First(new, code) = Len(old) + 1
    BY <2>4, <2>5 DEF HasEntry, First
  <2> QED BY <2>1, <2>2, <2>3, <2>6 DEF BalanceOf
<1>3. CASE HasEntry(old, code) /\ Touches(old[i], r)
  <2> DEFINE e == SetFields(old[i], old[i], r)
             new == [old EXCEPT ![i] = e]
  <2>1. after = [doc EXCEPT !.balance = new]
    BY <1>3 DEF Saved
  <2>2. after.balance = new
    BY <2>1 DEF UserDoc
  <2>3. i \in DOMAIN old
    BY <1>1, <1>3, FirstFinds
  <2>4. e.assetCode = old[i].assetCode /\ e.amount = r.amount
    BY DEF SetFields, Modified
  <2>5. DOMAIN new = DOMAIN old /\ new[i] = e
        /\ \A k \in DOMAIN old : new[k].assetCode = old[k].assetCode
    BY <1>1, <2>3, <2>4
  <2>6. Positions(new, code) = Positions(old, code)
    BY <2>5 DEF Positions
  <2>7. HasEntry(new, code) /\ First(new, code) = i
    BY <1>3, <2>6, SamePositions
  <2> QED BY <2>2, <2>4, <2>5, <2>7 DEF BalanceOf
<1>4. CASE HasEntry(old, code) /\ ~ Touches(old[i], r)
  <2>1. after = doc /\ old[i].amount = r.amount
    BY <1>4 DEF Saved, Touches, Modified
  <2> QED BY <1>4, <2>1 DEF BalanceOf
<1> QED BY <1>2, <1>3, <1>4
=============================================================================
