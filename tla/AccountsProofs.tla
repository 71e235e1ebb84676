--------------------------- MODULE AccountsProofs ---------------------------
(***************************************************************************)
(* The safety properties of Accounts for any addresses, Apple IDs and      *)
(* handlers.  For a value that no two handlers have raced on, at most one  *)
(* handler is between its check and its write, and while it is there no    *)
(* document has the value yet.                                             *)
(***************************************************************************)
EXTENDS Accounts, SequenceTheorems, TLAPS

\* What a handler has in hand where it is.
JobHas ==
    \A p \in Handler :
        LET pc == job[p].pc
            doc == job[p].doc
        IN
        /\ pc = "findEmail" => /\ doc.email # None /\ doc.appleId # None
                               /\ doc.signedUp = None
        /\ pc = "link" => doc.appleId # None
        /\ pc = "create" /\ doc.signedUp # None => doc.email = Lower[doc.signedUp]

Unchanged == DOMAIN accounts \ changed

EmailKept ==
    \A e \in Email \ raced :
        /\ \A i, j \in Unchanged :
              accounts[i].email = e /\ accounts[j].email = e => i = j
        /\ \A q \in Handler : WillCreate(q, e) =>
              \A i \in Unchanged : accounts[i].email # e
        /\ \A q, r \in Handler : WillCreate(q, e) /\ WillCreate(r, e) => q = r

AppleKept ==
    \A a \in Apple \ raced :
        /\ \A i, j \in DOMAIN accounts :
              accounts[i].appleId = a /\ accounts[j].appleId = a => i = j
        /\ \A q \in Handler : WillHave(q, a) =>
              \A i \in DOMAIN accounts : accounts[i].appleId # a
        /\ \A q, r \in Handler : WillHave(q, a) /\ WillHave(r, a) => q = r

\* signup stores what a login with the same spelling looks for.
SpellingKept ==
    \A i \in Unchanged :
        accounts[i].signedUp # None => accounts[i].email = Lower[accounts[i].signedUp]

IInv == TypeOK /\ JobHas /\ EmailKept /\ AppleKept /\ SpellingKept
-----------------------------------------------------------------------------
LEMMA Documents ==
    /\ NewAccount \in Account
    /\ \A e \in Email \cup {None} : [NewAccount EXCEPT !.email = e] \in Account
    /\ \A e \in Email : [NewAccount EXCEPT !.email = e, !.isEmailVerified = TRUE]
          \in Account
    /\ NoJob \in Job /\ Started \in Job /\ [NoJob EXCEPT !.pc = "failed"] \in Job
<1>1. NewAccount \in Account
  BY DEF NewAccount, Account
<1>2. NoJob \in Job
  BY <1>1 DEF NoJob, Job
<1> QED
  BY <1>1, <1>2 DEF Account, Job, Started, NewAccount, NoJob

\* What a call of Do makes of the jobs.
LEMMA DoTypes ==
    ASSUME TypeOK, NEW p \in Handler, NEW pc, NEW doc \in Account, NEW target \in Nat,
           pc \in {"findEmail", "create", "link", "storeOtp", "saveEmail", "update"},
           pc \in {"link", "storeOtp", "saveEmail", "update"} => target \in DOMAIN accounts,
           Do(p, pc, doc, target)
    PROVE  /\ job' \in [Handler -> Job]
           /\ job'[p].pc = pc /\ job'[p].doc = doc /\ job'[p].target = target
           /\ \A q \in Handler : q # p => job'[q] = job[q]
<1>1. [pc |-> pc, doc |-> doc, target |-> target] \in Job
  BY DEF Job
<1> QED
  BY <1>1 DEF Do, TypeOK

\* The documents stay and every handler stays where it is or leaves it.
LEMMA QuietIInv ==
    ASSUME IInv, UNCHANGED <<accounts, changed>>,
           job' \in [Handler -> Job], faults' \in 0 .. MaxFaults,
           raced' \subseteq Email \cup Apple, raced \subseteq raced',
           \A q \in Handler :
              \/ job'[q] = job[q]
              \/ job'[q].pc \in {"idle", "findAdmin", "failed"}
              \/ /\ job'[q].pc \in {"storeOtp", "saveEmail", "update"}
                 /\ job'[q].target \in DOMAIN accounts
    PROVE  IInv'
<1> USE DEF IInv
<1>1. TypeOK'
  BY DEF TypeOK
<1>2. \A q \in Handler : job'[q].pc \in {"findEmail", "create", "link"} =>
         job'[q] = job[q]
  OBVIOUS
<1>3. JobHas'
  BY <1>2 DEF JobHas
<1>4. \A q \in Handler :
         /\ \A e : WillCreate(q, e)' => WillCreate(q, e)
         /\ \A a : WillHave(q, a)' => WillHave(q, a)
  BY <1>2 DEF WillCreate, WillHave
<1>5. EmailKept'
  BY <1>4 DEF EmailKept, Unchanged
<1>6. AppleKept'
  BY <1>4 DEF AppleKept
<1>7. SpellingKept'
  BY DEF SpellingKept, Unchanged
<1> QED
  BY <1>1, <1>3, <1>5, <1>6, <1>7

\* Nobody has the address: p creates doc, alone unless they race.
LEMMA NotFoundIInv ==
    ASSUME IInv, NEW p \in Handler, NEW e \in Email, NEW doc \in Account,
           doc.email = e, NotFound(p, e, doc),
           doc.signedUp # None => e = Lower[doc.signedUp],
           \/ doc.appleId = None
           \/ job[p].pc = "findEmail" /\ job[p].doc = doc
    PROVE  IInv'
<1> USE DEF IInv
<1>1. /\ WithEmail(e) = {} /\ Do(p, "create", doc, 0)
      /\ raced' = raced \cup RaceOn(e, p)
      /\ UNCHANGED <<accounts, faults, changed>>
  BY DEF NotFound
<1>2. /\ job' \in [Handler -> Job]
      /\ job'[p].pc = "create" /\ job'[p].doc = doc
      /\ \A q \in Handler : q # p => job'[q] = job[q]
  <2>1. TypeOK /\ Do(p, "create", doc, 0) /\ 0 \in Nat
    BY <1>1
  <2> HIDE DEF IInv
  <2> QED
    BY <2>1, DoTypes
<1>3. TypeOK'
  <2>1. RaceOn(e, p) \subseteq Email
    BY DEF RaceOn
  <2> QED
    BY <1>1, <1>2, <2>1 DEF TypeOK
<1>4. JobHas'
  BY <1>2 DEF JobHas
<1>5. EmailKept'
  <2> SUFFICES ASSUME NEW f \in Email \ raced'
               PROVE  /\ \A i, j \in Unchanged :
                            /\ accounts[i].email = f /\ accounts[j].email = f
                            => i = j
                      /\ \A q \in Handler : WillCreate(q, f)' =>
                            \A i \in Unchanged : accounts[i].email # f
                      /\ \A q, r \in Handler :
                            WillCreate(q, f)' /\ WillCreate(r, f)' => q = r
    BY <1>1 DEF EmailKept, Unchanged
  <2>1. f \in Email \ raced
    BY <1>1
  <2>2. \A q \in Handler : q # p => (WillCreate(q, f)' <=> WillCreate(q, f))
    BY <1>2 DEF WillCreate
  <2>3. CASE f = e
    <3>1. \A i \in DOMAIN accounts : accounts[i].email # e
      BY <1>1 DEF WithEmail
    <3>2. \A q \in Handler \ {p} : ~ WillCreate(q, e)
      BY <1>1, <2>3 DEF RaceOn
    <3> QED
      BY <2>2, <2>3, <3>1, <3>2 DEF Unchanged
  <2>4. CASE f # e
    <3>1. ~ WillCreate(p, f)'
      BY <1>2, <2>4 DEF WillCreate
    <3> QED
      BY <2>1, <2>2, <3>1 DEF EmailKept
  <2> QED
    BY <2>3, <2>4
<1>6. AppleKept'
  <2>1. \A q \in Handler, a \in Apple : WillHave(q, a)' => WillHave(q, a)
    BY <1>2, AccountsAssumption DEF WillHave
  <2>2. Apple \ raced' \subseteq Apple \ raced
    BY <1>1
  <2> QED
    BY <1>1, <2>1, <2>2 DEF AppleKept
<1>7. SpellingKept'
  BY <1>1 DEF SpellingKept, Unchanged
<1> QED
  BY <1>3, <1>4, <1>5, <1>6, <1>7

LEMMA AppleLoginIInv ==
    ASSUME IInv, NEW p \in Handler, NEW a \in Apple, NEW e \in Email \cup {None},
           AppleLogin(p, a, e)
    PROVE  IInv'
<1> USE DEF IInv
<1> DEFINE doc == [NewAccount EXCEPT !.email = e, !.appleId = a,
                                     !.isEmailVerified = (e # None)]
           pc == IF e = None THEN "create" ELSE "findEmail"
<1>1. /\ WithAppleId(a) = {} /\ Do(p, pc, doc, 0)
      /\ raced' = raced \cup RaceFor(a, p)
      /\ UNCHANGED <<accounts, faults, changed>>
  BY DEF AppleLogin
<1>2. /\ doc \in Account /\ doc.email = e /\ doc.appleId = a
      /\ doc.signedUp = None
  BY DEF NewAccount, Account
<1> HIDE DEF doc
<1>3. /\ job' \in [Handler -> Job]
      /\ job'[p].pc = pc /\ job'[p].doc = doc
      /\ \A q \in Handler : q # p => job'[q] = job[q]
  BY <1>1, <1>2, DoTypes
<1>4. TypeOK'
  <2>1. RaceFor(a, p) \subseteq Apple
    BY DEF RaceFor
  <2> QED
    BY <1>1, <1>3, <2>1 DEF TypeOK
<1>5. a # None
  BY AccountsAssumption
<1>6. JobHas'
  BY <1>2, <1>3, <1>5 DEF JobHas
<1>7. EmailKept'
  <2>1. \A q \in Handler, f \in Email : WillCreate(q, f)' => WillCreate(q, f)
    BY <1>2, <1>3, AccountsAssumption DEF WillCreate
  <2>2. Email \ raced' \subseteq Email \ raced
    BY <1>1
  <2> QED
    BY <1>1, <2>1, <2>2 DEF EmailKept, Unchanged
<1>8. AppleKept'
  <2> SUFFICES ASSUME NEW b \in Apple \ raced'
               PROVE  /\ \A i, j \in DOMAIN accounts :
                            /\ accounts[i].appleId = b
                            /\ accounts[j].appleId = b
                            => i = j
                      /\ \A q \in Handler : WillHave(q, b)' =>
                            \A i \in DOMAIN accounts : accounts[i].appleId # b
                      /\ \A q, r \in Handler :
                            WillHave(q, b)' /\ WillHave(r, b)' => q = r
    BY <1>1 DEF AppleKept
  <2>1. b \in Apple \ raced
    BY <1>1
  <2>2. \A q \in Handler : q # p => (WillHave(q, b)' <=> WillHave(q, b))
    BY <1>3 DEF WillHave
  <2>3. CASE b = a
    <3>1. \A i \in DOMAIN accounts : accounts[i].appleId # a
      BY <1>1 DEF WithAppleId
    <3>2. \A q \in Handler \ {p} : ~ WillHave(q, a)
      BY <1>1, <2>3 DEF RaceFor
    <3> QED
      BY <2>2, <2>3, <3>1, <3>2
  <2>4. CASE b # a
    <3>1. ~ WillHave(p, b)'
      BY <1>2, <1>3, <2>4 DEF WillHave
    <3> QED
      BY <2>1, <2>2, <3>1 DEF AppleKept
  <2> QED
    BY <2>3, <2>4
<1>9. SpellingKept'
  BY <1>1 DEF SpellingKept, Unchanged
<1> QED
  BY <1>4, <1>6, <1>7, <1>8, <1>9

\* The document found by its address is linked, or has the ID already.
LEMMA AppleFindEmailIInv ==
    ASSUME IInv, NEW p \in Handler, AppleFindEmail(p)
    PROVE  IInv'
<1> USE DEF IInv
<1> DEFINE doc == job[p].doc
<1>1. job[p].pc = "findEmail" /\ doc \in Account /\ doc.email # None
      /\ doc.appleId # None /\ doc.signedUp = None
  BY DEF AppleFindEmail, TypeOK, Job, JobHas
<1>2. doc.email \in Email
  BY <1>1 DEF Account
<1>3. CASE NotFound(p, doc.email, doc)
  BY <1>1, <1>2, <1>3, NotFoundIInv
<1>4. ASSUME NEW i \in WithEmail(doc.email), Do(p, "link", doc, i),
             UNCHANGED <<accounts, faults, history>>
      PROVE  IInv'
  <2>1. i \in DOMAIN accounts /\ i \in Nat
    BY <1>4 DEF WithEmail, TypeOK
  <2>2. /\ job' \in [Handler -> Job]
        /\ job'[p].pc = "link" /\ job'[p].doc = doc /\ job'[p].target = i
        /\ \A q \in Handler : q # p => job'[q] = job[q]
    BY <1>1, <1>4, <2>1, DoTypes
  <2>3. TypeOK' /\ JobHas'
    BY <1>1, <1>4, <2>1, <2>2 DEF TypeOK, JobHas, history
  <2>4. \A q \in Handler :
           /\ \A e : WillCreate(q, e)' => WillCreate(q, e)
           /\ \A a : WillHave(q, a)' => WillHave(q, a)
    BY <1>1, <2>2 DEF WillCreate, WillHave
  <2>5. EmailKept' /\ AppleKept' /\ SpellingKept'
    BY <1>4, <2>4 DEF EmailKept, Unchanged, AppleKept, SpellingKept, history
  <2> QED
    BY <2>3, <2>5
<1>5. ASSUME End(p), UNCHANGED <<accounts, faults, history>>
      PROVE  IInv'
  <2>1. /\ job' \in [Handler -> Job]
        /\ \A q \in Handler : job'[q] = job[q] \/ job'[q].pc = "idle"
    BY <1>5, Documents DEF End, TypeOK, NoJob
  <2>2. faults' \in 0 .. MaxFaults /\ raced' \subseteq Email \cup Apple
    BY <1>5 DEF TypeOK, history
  <2> QED
    BY <1>5, <2>1, <2>2, QuietIInv DEF history
<1> QED
  BY <1>3, <1>4, <1>5 DEF AppleFindEmail

\* The document in hand is appended: nobody else has its values in hand.
LEMMA CreateIInv ==
    ASSUME IInv, NEW p \in Handler, Create(p)
    PROVE  IInv'
<1> USE DEF IInv
<1> DEFINE doc == job[p].doc
           n == Len(accounts) + 1
<1>1. /\ job[p].pc = "create" /\ accounts' = Append(accounts, doc)
      /\ UNCHANGED <<faults, changed, raced>>
      /\ job' \in [Handler -> Job] /\ job'[p].pc = "idle"
      /\ \A q \in Handler : q # p => job'[q] = job[q]
  BY Documents DEF Create, End, TypeOK, NoJob, history
<1>2. doc \in Account
  BY DEF TypeOK, Job
<1>3. accounts \in Seq(Account)
  BY DEF TypeOK
<1>4. /\ accounts' \in Seq(Account)
      /\ DOMAIN accounts' = DOMAIN accounts \cup {n} /\ n \notin DOMAIN accounts
      /\ \A i \in DOMAIN accounts : accounts'[i] = accounts[i]
      /\ accounts'[n] = doc
  BY <1>1, <1>2, <1>3, AppendProperties
<1> HIDE DEF n
<1>5. TypeOK'
  BY <1>1, <1>4 DEF TypeOK
<1>6. JobHas'
  BY <1>1 DEF JobHas
<1>7. \A q \in Handler :
         /\ \A e : WillCreate(q, e)' => WillCreate(q, e) /\ q # p
         /\ \A a : WillHave(q, a)' => WillHave(q, a) /\ q # p
  BY <1>1 DEF WillCreate, WillHave
<1>8. EmailKept'
  <2> SUFFICES ASSUME NEW e \in Email \ raced
               PROVE  /\ \A i, j \in Unchanged' :
                            /\ accounts'[i].email = e /\ accounts'[j].email = e
                            => i = j
                      /\ \A q \in Handler : WillCreate(q, e)' =>
                            \A i \in Unchanged' : accounts'[i].email # e
                      /\ \A q, r \in Handler :
                            WillCreate(q, e)' /\ WillCreate(r, e)' => q = r
    BY <1>1 DEF EmailKept
  <2>1. Unchanged' \subseteq Unchanged \cup {n}
    BY <1>1, <1>4 DEF Unchanged
  <2>2. CASE doc.email = e
    <3>1. WillCreate(p, e)
      BY <1>1, <2>2 DEF WillCreate
    <3>2. /\ \A i \in Unchanged : accounts[i].email # e
          /\ \A q \in Handler : ~ WillCreate(q, e)'
      BY <1>7, <3>1 DEF EmailKept
    <3> QED
      BY <1>4, <2>1, <3>2 DEF Unchanged
  <2>3. CASE doc.email # e
    BY <1>4, <1>7, <2>1, <2>3 DEF EmailKept, Unchanged
  <2> QED
    BY <2>2, <2>3
<1>9. AppleKept'
  <2> SUFFICES ASSUME NEW a \in Apple \ raced
               PROVE  /\ \A i, j \in DOMAIN accounts' :
                            /\ accounts'[i].appleId = a
                            /\ accounts'[j].appleId = a
                            => i = j
                      /\ \A q \in Handler : WillHave(q, a)' =>
                            \A i \in DOMAIN accounts' : accounts'[i].appleId # a
                      /\ \A q, r \in Handler :
                            WillHave(q, a)' /\ WillHave(r, a)' => q = r
    BY <1>1 DEF AppleKept
  <2>1. CASE doc.appleId = a
    <3>1. WillHave(p, a)
      BY <1>1, <2>1 DEF WillHave
    <3>2. /\ \A i \in DOMAIN accounts : accounts[i].appleId # a
          /\ \A q \in Handler : ~ WillHave(q, a)'
      BY <1>7, <3>1 DEF AppleKept
    <3> QED
      BY <1>4, <3>2
  <2>2. CASE doc.appleId # a
    BY <1>4, <1>7, <2>2 DEF AppleKept
  <2> QED
    BY <2>1, <2>2
<1>10. SpellingKept'
  <2>1. Unchanged' \subseteq Unchanged \cup {n}
    BY <1>1, <1>4 DEF Unchanged
  <2>2. doc.signedUp # None => doc.email = Lower[doc.signedUp]
    BY <1>1 DEF JobHas
  <2> QED
    BY <1>4, <2>1, <2>2 DEF SpellingKept, Unchanged
<1> QED
  BY <1>5, <1>6, <1>8, <1>9, <1>10

\* What a save of the document i leaves as it was.
LEMMA SaveTypes ==
    ASSUME TypeOK, NEW i \in DOMAIN accounts, NEW doc \in Account, Save(i, doc)
    PROVE  /\ accounts' \in Seq(Account)
           /\ DOMAIN accounts' = DOMAIN accounts
           /\ accounts'[i] = doc
           /\ \A j \in DOMAIN accounts : j # i => accounts'[j] = accounts[j]
<1>1. accounts \in Seq(Account) /\ i \in 1 .. Len(accounts)
  BY DEF TypeOK
<1> QED
  BY <1>1, ExceptSeq DEF Save

\* A handler that ends, as Link, StoreOtp, SaveEmail and FindByIdAndUpdate do.
LEMMA EndTypes ==
    ASSUME TypeOK, NEW p \in Handler, End(p)
    PROVE  /\ job' \in [Handler -> Job] /\ job'[p].pc = "idle"
           /\ \A q \in Handler : q # p => job'[q] = job[q]
           /\ \A q \in Handler :
                 /\ \A e : WillCreate(q, e)' => WillCreate(q, e) /\ q # p
                 /\ \A a : WillHave(q, a)' => WillHave(q, a) /\ q # p
<1>1. /\ job' \in [Handler -> Job] /\ job'[p].pc = "idle"
      /\ \A q \in Handler : q # p => job'[q] = job[q]
  BY Documents DEF End, TypeOK, NoJob
<1> QED
  BY <1>1 DEF WillCreate, WillHave

\* The ID is put on a document: nobody else has it in hand.
LEMMA LinkIInv ==
    ASSUME IInv, NEW p \in Handler, Link(p)
    PROVE  IInv'
<1> USE DEF IInv
<1> DEFINE i == job[p].target
           a == job[p].doc.appleId
           doc == [accounts[i] EXCEPT !.appleId = a]
<1>1. job[p].pc = "link" /\ Save(i, doc) /\ End(p) /\ UNCHANGED <<faults, history>>
  BY DEF Link
<1>2. i \in DOMAIN accounts /\ a \in Apple /\ a # None
  BY <1>1 DEF TypeOK, Job, Account, JobHas
<1>3. /\ doc \in Account /\ doc.appleId = a
      /\ doc.email = accounts[i].email /\ doc.signedUp = accounts[i].signedUp
  <2>1. accounts[i] \in Account
    BY <1>2 DEF TypeOK
  <2> QED
    BY <1>2, <2>1 DEF Account
<1> HIDE DEF doc
<1>4. /\ accounts' \in Seq(Account) /\ DOMAIN accounts' = DOMAIN accounts
      /\ accounts'[i] = doc
      /\ \A j \in DOMAIN accounts : j # i => accounts'[j] = accounts[j]
  BY <1>1, <1>2, <1>3, SaveTypes
<1>5. /\ job' \in [Handler -> Job] /\ job'[p].pc = "idle"
      /\ \A q \in Handler : q # p => job'[q] = job[q]
      /\ \A q \in Handler :
            /\ \A e : WillCreate(q, e)' => WillCreate(q, e) /\ q # p
            /\ \A b : WillHave(q, b)' => WillHave(q, b) /\ q # p
  BY <1>1, EndTypes
<1>6. \A j \in DOMAIN accounts :
         /\ accounts'[j].email = accounts[j].email
         /\ accounts'[j].appleId = IF j = i THEN a ELSE accounts[j].appleId
         /\ accounts'[j].signedUp = accounts[j].signedUp
  BY <1>3, <1>4
<1> HIDE DEF a, i
<1>7. TypeOK' /\ JobHas'
  BY <1>1, <1>4, <1>5 DEF TypeOK, JobHas, history
<1>8. EmailKept'
  BY <1>1, <1>4, <1>5, <1>6 DEF EmailKept, Unchanged, history
<1>9. WillHave(p, a)
  BY <1>1 DEF WillHave, a
<1>10. AppleKept'
  BY <1>1, <1>2, <1>4, <1>5, <1>6, <1>9 DEF AppleKept, history
<1>11. SpellingKept'
  BY <1>1, <1>4, <1>6 DEF SpellingKept, Unchanged, history
<1> QED
  BY <1>7, <1>8, <1>10, <1>11

LEMMA StoreOtpIInv ==
    ASSUME IInv, NEW p \in Handler, StoreOtp(p)
    PROVE  IInv'
<1> USE DEF IInv
<1> DEFINE i == job[p].target
           doc == [accounts[i] EXCEPT !.otp = TRUE]
<1>1. /\ job[p].pc = "storeOtp" /\ Save(i, doc) /\ End(p)
      /\ UNCHANGED <<faults, history>>
  BY DEF StoreOtp
<1>2. i \in DOMAIN accounts
  BY <1>1 DEF TypeOK
<1>3. /\ doc \in Account /\ doc.appleId = accounts[i].appleId
      /\ doc.email = accounts[i].email /\ doc.signedUp = accounts[i].signedUp
  <2>1. accounts[i] \in Account
    BY <1>2 DEF TypeOK
  <2> QED
    BY <2>1 DEF Account
<1> HIDE DEF doc
<1>4. /\ accounts' \in Seq(Account) /\ DOMAIN accounts' = DOMAIN accounts
      /\ accounts'[i] = doc
      /\ \A j \in DOMAIN accounts : j # i => accounts'[j] = accounts[j]
  BY <1>1, <1>2, <1>3, SaveTypes
<1>5. /\ job' \in [Handler -> Job] /\ job'[p].pc = "idle"
      /\ \A q \in Handler : q # p => job'[q] = job[q]
      /\ \A q \in Handler :
            /\ \A e : WillCreate(q, e)' => WillCreate(q, e) /\ q # p
            /\ \A b : WillHave(q, b)' => WillHave(q, b) /\ q # p
  BY <1>1, EndTypes
<1>6. \A j \in DOMAIN accounts :
         /\ accounts'[j].email = accounts[j].email
         /\ accounts'[j].appleId = accounts[j].appleId
         /\ accounts'[j].signedUp = accounts[j].signedUp
  BY <1>3, <1>4
<1> HIDE DEF i
<1>7. TypeOK' /\ JobHas'
  BY <1>1, <1>4, <1>5 DEF TypeOK, JobHas, history
<1>8. EmailKept'
  BY <1>1, <1>4, <1>5, <1>6 DEF EmailKept, Unchanged, history
<1>9. AppleKept'
  BY <1>1, <1>4, <1>5, <1>6 DEF AppleKept, history
<1>10. SpellingKept'
  BY <1>1, <1>4, <1>6 DEF SpellingKept, Unchanged, history
<1> QED
  BY <1>7, <1>8, <1>9, <1>10

\* A document that is given another address is in changed from then on.
LEMMA ChangeEmailIInv ==
    ASSUME IInv, NEW p \in Handler, NEW i \in DOMAIN accounts, NEW doc \in Account,
           Save(i, doc), End(p), UNCHANGED <<faults, raced>>,
           doc.appleId = accounts[i].appleId,
           doc.signedUp = accounts[i].signedUp,
           \/ changed' = changed /\ doc.email = accounts[i].email
           \/ changed' = changed \cup {i}
    PROVE  IInv'
<1> USE DEF IInv
<1>1. /\ accounts' \in Seq(Account) /\ DOMAIN accounts' = DOMAIN accounts
      /\ accounts'[i] = doc
      /\ \A j \in DOMAIN accounts : j # i => accounts'[j] = accounts[j]
  BY SaveTypes
<1>2. /\ job' \in [Handler -> Job] /\ job'[p].pc = "idle"
      /\ \A q \in Handler : q # p => job'[q] = job[q]
      /\ \A q \in Handler :
            /\ \A f : WillCreate(q, f)' => WillCreate(q, f) /\ q # p
            /\ \A b : WillHave(q, b)' => WillHave(q, b) /\ q # p
  BY EndTypes
<1>3. /\ \A j \in DOMAIN accounts : accounts'[j].appleId = accounts[j].appleId
      /\ \A j \in Unchanged' : /\ j \in Unchanged
                               /\ accounts'[j].email = accounts[j].email
                               /\ accounts'[j].signedUp = accounts[j].signedUp
  BY <1>1 DEF Unchanged
<1>5. TypeOK' /\ JobHas'
  BY <1>1, <1>2 DEF TypeOK, JobHas
<1>6. EmailKept'
  BY <1>2, <1>3 DEF EmailKept
<1>7. AppleKept'
  BY <1>1, <1>2, <1>3 DEF AppleKept
<1>8. SpellingKept'
  BY <1>3 DEF SpellingKept
<1> QED
  BY <1>5, <1>6, <1>7, <1>8

LEMMA SaveEmailIInv ==
    ASSUME IInv, NEW p \in Handler, SaveEmail(p)
    PROVE  IInv'
<1> DEFINE i == job[p].target
           e == job[p].doc.email
           doc == [accounts[i] EXCEPT !.otp = FALSE, !.isEmailVerified = TRUE,
                                      !.email = IF e = None THEN @ ELSE e]
<1>1. /\ job[p].pc = "saveEmail" /\ Save(i, doc) /\ End(p)
      /\ changed' = IF e = None THEN changed ELSE changed \cup {i}
      /\ UNCHANGED <<faults, raced>>
  BY DEF SaveEmail
<1>2. i \in DOMAIN accounts /\ e \in Email \cup {None}
  BY <1>1 DEF IInv, TypeOK, Job, Account
<1>3. /\ doc \in Account /\ doc.appleId = accounts[i].appleId
      /\ doc.email = IF e = None THEN accounts[i].email ELSE e
      /\ doc.signedUp = accounts[i].signedUp
  <2>1. accounts[i] \in Account
    BY <1>2 DEF IInv, TypeOK
  <2> QED
    BY <1>2, <2>1 DEF Account
<1> HIDE DEF doc, i, e
<1> QED
  BY <1>1, <1>2, <1>3, ChangeEmailIInv

LEMMA FindByIdAndUpdateIInv ==
    ASSUME IInv, NEW p \in Handler, FindByIdAndUpdate(p)
    PROVE  IInv'
<1> DEFINE i == job[p].target
           doc == [accounts[i] EXCEPT !.email = job[p].doc.email]
<1>1. /\ job[p].pc = "update" /\ Save(i, doc) /\ End(p)
      /\ changed' = changed \cup {i} /\ UNCHANGED <<faults, raced>>
  BY DEF FindByIdAndUpdate
<1>2. /\ i \in DOMAIN accounts
      /\ job[p].doc.email \in Email \cup {None}
  BY <1>1 DEF IInv, TypeOK, Job, Account
<1>3. /\ doc \in Account /\ doc.appleId = accounts[i].appleId
      /\ doc.signedUp = accounts[i].signedUp
  <2>1. accounts[i] \in Account
    BY <1>2 DEF IInv, TypeOK
  <2> QED
    BY <1>2, <2>1 DEF Account
<1> HIDE DEF doc, i
<1> QED
  BY <1>1, <1>2, <1>3, ChangeEmailIInv

\* Requests that start with a document, and handlers that end or start anew.
LEMMA SendEmailOtpIInv ==
    ASSUME IInv, NEW p \in Handler, NEW i \in DOMAIN accounts, NEW e \in Email,
           SendEmailOtp(p, i, e) \/ VerifyEmailOtp(p, i, e) \/ UpdateProfile(p, i, e)
    PROVE  IInv'
<1>1. UNCHANGED <<accounts, changed, raced, faults>>
  BY DEF SendEmailOtp, VerifyEmailOtp, UpdateProfile, history
<1>2. PICK pc \in {"storeOtp", "saveEmail", "update"}, doc \in Account :
         Do(p, pc, doc, i)
  <2>1. CASE SendEmailOtp(p, i, e)
    BY <2>1, Documents DEF SendEmailOtp
  <2>2. CASE VerifyEmailOtp(p, i, e)
    <3> DEFINE f == IF accounts[i].email = e THEN None ELSE e
    <3>1. f \in Email \cup {None}
      OBVIOUS
    <3> HIDE DEF f
    <3>2. [NewAccount EXCEPT !.email = f] \in Account
      BY <3>1, Documents
    <3> QED
      BY <2>2, <3>2 DEF VerifyEmailOtp, f
  <2>3. CASE UpdateProfile(p, i, e)
    <3> DEFINE new == [NewAccount EXCEPT !.email = e]
    <3>1. new \in Account
      BY Documents
    <3>2. Do(p, "update", new, i)
      BY <2>3 DEF UpdateProfile
    <3> HIDE DEF new
    <3> QED
      BY <3>1, <3>2
  <2> QED
    BY <2>1, <2>2, <2>3
<1>3. TypeOK /\ i \in Nat
  BY DEF IInv, TypeOK
<1>4. /\ job' \in [Handler -> Job]
      /\ job'[p].pc = pc /\ job'[p].doc = doc /\ job'[p].target = i
      /\ \A q \in Handler : q # p => job'[q] = job[q]
  BY <1>2, <1>3, DoTypes
<1>5. \A q \in Handler :
         \/ job'[q] = job[q]
         \/ /\ job'[q].pc \in {"storeOtp", "saveEmail", "update"}
            /\ job'[q].target \in DOMAIN accounts
  BY <1>2, <1>4
<1>6. faults' \in 0 .. MaxFaults /\ raced' \subseteq Email \cup Apple
  BY <1>1, <1>3 DEF TypeOK
<1> QED
  BY <1>1, <1>4, <1>5, <1>6, QuietIInv

LEMMA SignupIInv ==
    ASSUME IInv, NEW p \in Handler, NEW e \in Email, Signup(p, e) \/ GoogleLogin(p, e)
    PROVE  IInv'
<1>1. CASE Signup(p, e)
  <2> DEFINE doc == [NewAccount EXCEPT !.email = Lower[e], !.signedUp = e]
  <2>1. Lower[e] \in Email
    BY AccountsAssumption
  <2>2. /\ doc \in Account /\ doc.email = Lower[e] /\ doc.appleId = None
        /\ doc.signedUp = e
    BY <2>1 DEF NewAccount, Account
  <2>3. NotFound(p, Lower[e], doc)
    BY <1>1 DEF Signup
  <2> HIDE DEF doc
  <2> QED
    BY <2>1, <2>2, <2>3, NotFoundIInv
<1>2. CASE GoogleLogin(p, e)
  <2> DEFINE doc == [NewAccount EXCEPT !.email = e, !.isEmailVerified = TRUE]
  <2>1. /\ doc \in Account /\ doc.email = e /\ doc.appleId = None
        /\ doc.signedUp = None
    BY Documents DEF NewAccount
  <2>2. NotFound(p, e, doc)
    BY <1>2 DEF GoogleLogin
  <2> HIDE DEF doc
  <2> QED
    BY <2>1, <2>2, NotFoundIInv
<1> QED
  BY <1>1, <1>2

LEMMA CreateAdminIInv ==
    ASSUME IInv, CreateAdmin
    PROVE  IInv'
<1>1. AdminEmail \in Email /\ Boot \in Handler
  BY AccountsAssumption DEF Handler
<1>2. CASE NotFound(Boot, AdminEmail, SuperadminDoc)
  <2>1. /\ SuperadminDoc \in Account
        /\ SuperadminDoc.email = AdminEmail /\ SuperadminDoc.appleId = None
        /\ SuperadminDoc.signedUp = None
    BY <1>1 DEF SuperadminDoc, NewAccount, Account
  <2> QED
    BY <1>1, <1>2, <2>1, NotFoundIInv
<1>3. CASE End(Boot) /\ UNCHANGED <<accounts, faults, history>>
  <2>1. TypeOK
    BY DEF IInv
  <2>2. /\ job' \in [Handler -> Job] /\ job'[Boot].pc = "idle"
        /\ \A q \in Handler : q # Boot => job'[q] = job[q]
    BY <1>1, <1>3, <2>1, EndTypes
  <2>3. faults' \in 0 .. MaxFaults /\ raced' \subseteq Email \cup Apple
    BY <1>3, <2>1 DEF TypeOK, history
  <2> QED
    BY <1>3, <2>2, <2>3, QuietIInv DEF history
<1> QED
  BY <1>2, <1>3 DEF CreateAdmin

LEMMA FaultIInv ==
    ASSUME IInv, (\E p \in Handler : Fail(p)) \/ Restart
    PROVE  IInv'
<1>1. /\ faults < MaxFaults /\ faults' = faults + 1
      /\ UNCHANGED <<accounts, history>>
  BY DEF Fail, Restart
<1>2. TypeOK
  BY DEF IInv
<1>3. faults' \in 0 .. MaxFaults /\ raced' \subseteq Email \cup Apple
  BY <1>1, <1>2, AccountsAssumption DEF TypeOK, history
<1>4. NoJob.pc = "idle" /\ Started.pc = "findAdmin"
      /\ [NoJob EXCEPT !.pc = "failed"].pc = "failed"
  BY DEF NoJob, Started
<1>5. /\ job' \in [Handler -> Job]
      /\ \A q \in Handler :
            job'[q] = job[q] \/ job'[q].pc \in {"idle", "findAdmin", "failed"}
  <2>1. CASE Restart
    BY <1>4, <2>1, Documents DEF Restart
  <2>2. ASSUME NEW p \in Handler, Fail(p)
        PROVE  /\ job' \in [Handler -> Job]
               /\ \A q \in Handler :
                     job'[q] = job[q] \/ job'[q].pc \in {"idle", "failed"}
    <3> DEFINE ended == IF p = Boot THEN [NoJob EXCEPT !.pc = "failed"] ELSE NoJob
    <3>1. ended \in Job /\ ended.pc \in {"idle", "failed"}
      BY <1>4, Documents
    <3>2. job' = [job EXCEPT ![p] = ended]
      BY <2>2 DEF Fail
    <3> HIDE DEF ended
    <3> QED
      BY <1>2, <3>1, <3>2 DEF TypeOK
  <2> QED
    BY <2>1, <2>2
<1> QED
  BY <1>1, <1>3, <1>5, QuietIInv DEF history

LEMMA InitIInv == ASSUME Init PROVE IInv
<1>1. TypeOK
  <2>1. job \in [Handler -> Job] /\ \A p \in Handler : job[p].pc \in {"idle", "findAdmin"}
    BY Documents DEF Init, NoJob, Started
  <2>2. accounts \in Seq(Account)
    BY DEF Init
  <2> QED
    BY <2>1, <2>2, AccountsAssumption DEF Init, TypeOK
<1>2. \A p \in Handler : job[p].pc \in {"idle", "findAdmin"}
  BY DEF Init, NoJob, Started
<1>3. DOMAIN accounts = {}
  BY DEF Init
<1>4. JobHas /\ EmailKept /\ AppleKept /\ SpellingKept
  BY <1>2, <1>3
  DEF JobHas, EmailKept, AppleKept, SpellingKept, Unchanged, WillCreate, WillHave
<1> QED
  BY <1>1, <1>4 DEF IInv

LEMMA NextIInv == ASSUME IInv, [Next]_vars PROVE IInv'
<1>1. Proc \subseteq Handler
  BY DEF Handler
<1>2. CASE UNCHANGED vars
  BY <1>2
  DEF vars, history, IInv, TypeOK, JobHas, EmailKept, AppleKept, SpellingKept,
      Unchanged, WillCreate, WillHave
<1>3. ASSUME NEW p \in Proc, Ask(p) PROVE IInv'
  BY <1>1, <1>3, SignupIInv, AppleLoginIInv, SendEmailOtpIInv DEF Ask
<1>4. ASSUME NEW p \in Handler, AppleFindEmail(p) \/ Write(p) PROVE IInv'
  BY <1>4, AppleFindEmailIInv, CreateIInv, LinkIInv, StoreOtpIInv, SaveEmailIInv,
     FindByIdAndUpdateIInv
  DEF Write
<1> QED
  BY <1>2, <1>3, <1>4, CreateAdminIInv, FaultIInv DEF Next
-----------------------------------------------------------------------------
\* IInv holds in every state, for any addresses, Apple IDs and handlers.
THEOREM Inductive == Spec => []IInv
  BY InitIInv, NextIInv, PTL DEF Spec

\* Documents and jobs are what they are meant to be, and a job that will
\* write to a document names one that exists.
THEOREM TypeCorrect == Spec => []TypeOK
<1>1. IInv => TypeOK
  BY DEF IInv
<1> QED
  BY <1>1, Inductive, PTL

\* "account with this email already exists!": signup, the logins, createAdmin
\* and the change of an address, with failures and restarts, give two
\* documents one address only by a race on it, by verifyEmailOtp or by an
\* administrator.
THEOREM EmailIsUnique == Spec => []EmailUnique
<1>1. IInv => EmailUnique
  <2> SUFFICES ASSUME IInv, NEW i \in DOMAIN accounts, NEW j \in DOMAIN accounts,
                      i # j, accounts[i].email = accounts[j].email,
                      accounts[i].email # None, accounts[i].email \notin raced
               PROVE  i \in changed \/ j \in changed
    BY DEF EmailUnique
  <2>1. accounts[i] \in Account
    BY DEF IInv, TypeOK
  <2>2. accounts[i].email \in Email \ raced
    BY <2>1 DEF Account
  <2> QED
    BY <2>2 DEF IInv, EmailKept, Unchanged
<1> QED
  BY <1>1, Inductive, PTL

\* Two documents have one Apple ID only by a race of two logins with it.
THEOREM AppleIsUnique == Spec => []AppleUnique
<1>1. IInv => AppleUnique
  <2> SUFFICES ASSUME IInv, NEW i \in DOMAIN accounts, NEW j \in DOMAIN accounts,
                      i # j, accounts[i].appleId = accounts[j].appleId,
                      accounts[i].appleId # None, accounts[i].appleId \notin raced
               PROVE  FALSE
    BY DEF AppleUnique
  <2>1. accounts[i] \in Account
    BY DEF IInv, TypeOK
  <2>2. accounts[i].appleId \in Apple \ raced
    BY <2>1 DEF Account
  <2> QED
    BY <2>2 DEF IInv, AppleKept
<1> QED
  BY <1>1, Inductive, PTL

\* Who signed up is found by a login with the address as it was spelled, and
\* found alone, unless that document's address was changed, another one was
\* given the same or two handlers raced on it.
THEOREM SignedUpIsFound == Spec => []SignedUpLogsIn
<1>1. IInv => SignedUpLogsIn
  <2> SUFFICES ASSUME IInv, NEW i \in DOMAIN accounts \ changed,
                      accounts[i].signedUp # None
               PROVE  LET e == accounts[i].signedUp
                          found == FindOneByEmailOrUsername(e)
                      IN  /\ i \in found
                          /\ \A j \in found \ {i} :
                                j \in changed \/ Lower[e] \in raced
    BY DEF SignedUpLogsIn
  <2> DEFINE e == accounts[i].signedUp
  <2>1. i \in Unchanged /\ accounts[i].email = Lower[e]
    BY DEF IInv, SpellingKept, Unchanged
  <2>2. Lower[e] \in Email
    <3>1. accounts[i] \in Account
      BY DEF IInv, TypeOK
    <3> QED
      BY <3>1, AccountsAssumption DEF Account
  <2>3. ASSUME NEW j \in WithEmail(Lower[e]) \ {i}, j \notin changed,
               Lower[e] \notin raced
        PROVE  FALSE
    BY <2>1, <2>2, <2>3 DEF IInv, EmailKept, Unchanged, WithEmail
  <2> QED
    BY <2>1, <2>3 DEF WithEmail, FindOneByEmailOrUsername
<1> QED
  BY <1>1, Inductive, PTL
=============================================================================
