----------------------- MODULE OneTimePasswordProofs -----------------------
(***************************************************************************)
(* The invariants of OneTimePassword, for any users, handlers and bounds.  *)
(* First the types, then the inductive invariant: one lemma for what       *)
(* starts or drops a handler, one for each of the four saves.              *)
(***************************************************************************)
EXTENDS OneTimePassword, TLAPS

USE OtpAssumption

\* The idle handler is a value of its type.
LEMMA NoJobType == NoJob \in Job
BY DEF NoJob, Job, Task, Otp, UserDoc

\* Starting a handler for a user keeps the handlers well formed.
LEMMA StartType ==
    ASSUME TypeOK, NEW p \in Proc, NEW u \in User, NEW task \in Task,
           NEW password \in Nat, NEW pc \in {"send", "accept", "clear", "reset"},
           Start(p, pc, u, task, password)
    PROVE  job' \in [Proc -> Job]
BY DEF TypeOK, Start, Job, UserDoc

\* Saving a well formed document leaves well formed documents.
LEMMA SaveType ==
    ASSUME TypeOK, NEW p \in Proc, NEW changed \in UserDoc, NEW fields,
           SaveUser(p, changed, fields)
    PROVE  /\ users' \in [User -> UserDoc]
           /\ job' \in [Proc -> Job]
           /\ gone' \subseteq Nat \ {0}
<1>1. job[p].user \in User
  BY DEF TypeOK, Job
<1>2. \A old \in UserDoc : Save(old, changed, fields) \in UserDoc
  BY DEF Save, UserDoc
<1>3. users' \in [User -> UserDoc]
  BY <1>1, <1>2 DEF SaveUser, TypeOK
<1>4. users[job[p].user].otp.id \in Nat
  BY <1>1 DEF TypeOK, UserDoc, Otp, NoOtp
<1> QED BY <1>3, <1>4, NoJobType DEF SaveUser, TypeOK

\* Every action keeps every variable in its type.
LEMMA StepType == TypeOK /\ [Next]_vars => TypeOK'
<1> SUFFICES ASSUME TypeOK, [Next]_vars PROVE TypeOK'
  OBVIOUS
<1> USE DEF TypeOK, history
<1>1. CASE Elapse
  BY <1>1 DEF Elapse
<1>2. ASSUME NEW p \in Proc, NEW u \in User, NEW task \in Task,
             RequestOtp(p, u, task)
      PROVE  TypeOK'
  BY <1>2, StartType DEF RequestOtp
<1>3. ASSUME NEW p \in Proc, NEW u \in User, NEW task \in Task,
             NEW password \in 2 .. MaxPassword, Verify(p, u, task, password)
      PROVE  TypeOK'
  <2>1. PICK pc \in {"accept", "clear"} : Start(p, pc, u, task, password)
    BY <1>3 DEF Verify
  <2>2. job' \in [Proc -> Job]
    BY <2>1, StartType
  <2> QED BY <1>3, <2>2 DEF Verify
<1>4. ASSUME NEW p \in Proc, NEW u \in User, NEW password \in 2 .. MaxPassword,
             CheckPassword(p, u, password)
      PROVE  TypeOK'
  <2>1. Start(p, "reset", u, "two-factor-auth", password)
    BY <1>4 DEF CheckPassword
  <2>2. job' \in [Proc -> Job]
    BY <2>1, StartType DEF Task
  <2> QED BY <1>4, <2>2 DEF CheckPassword
<1>5. ASSUME NEW p \in Proc, GenerateOtp(p)
      PROVE  TypeOK'
  <2> DEFINE new == [id |-> generated + 1, forTask |-> job[p].task,
                     expiresOn |-> now + Life]
             next == [job[p] EXCEPT !.pc = "store", !.snap = users[job[p].user],
                                    !.otp = new]
  <2>1. job[p] \in Job /\ users[job[p].user] \in UserDoc
    BY DEF Job
  <2>2. new \in Otp
    BY <2>1 DEF Otp, Job
  <2>3. next \in Job
    BY <2>1, <2>2 DEF Job
  <2>4. job' = [job EXCEPT ![p] = next]
    BY <1>5 DEF GenerateOtp
  <2>5. generated' \in 0 .. MaxOtp
    BY <1>5 DEF GenerateOtp
  <2> HIDE DEF next
  <2>6. job' \in [Proc -> Job]
    BY <2>3, <2>4
  <2> QED BY <1>5, <2>5, <2>6 DEF GenerateOtp
<1>6. ASSUME NEW p \in Proc, StoreOtp(p)
      PROVE  TypeOK'
  <2>1. [job[p].snap EXCEPT !.otp = job[p].otp] \in UserDoc
    BY DEF Job, UserDoc
  <2>2. Issue(job[p].user, job[p].otp.id, job[p].task) \in Record
    BY DEF Job, Otp, NoOtp, Record, Issue
  <2> QED BY <1>6, <2>1, <2>2, SaveType DEF StoreOtp
<1>7. ASSUME NEW p \in Proc, Accept(p)
      PROVE  TypeOK'
  <2>1. Verified(job[p]) \in UserDoc
    <3>1. job[p].snap \in UserDoc /\ job[p].password \in Nat
      BY DEF Job
    <3> QED BY <3>1 DEF Verified, UserDoc
  <2>2. Issue(job[p].user, job[p].otp.id, job[p].task) \in Record
    BY DEF Job, Otp, NoOtp, Record, Issue
  <2>3. chosen' \in [User -> Nat]
    BY <1>7 DEF Accept, Effective, Job
  <2> QED BY <1>7, <2>1, <2>2, <2>3, SaveType DEF Accept, Effective
<1>8. ASSUME NEW p \in Proc, ClearExpired(p)
      PROVE  TypeOK'
  <2>1. [job[p].snap EXCEPT !.otp = NoOtp] \in UserDoc
    BY DEF Job, UserDoc
  <2> QED BY <1>8, <2>1, SaveType DEF ClearExpired
<1>9. ASSUME NEW p \in Proc, ResetPassword(p)
      PROVE  TypeOK'
  <2>1. [job[p].snap EXCEPT !.password = job[p].password] \in UserDoc
    BY DEF Job, UserDoc
  <2>2. chosen' \in [User -> Nat]
    BY <1>9 DEF ResetPassword, Job
  <2> QED BY <1>9, <2>1, <2>2, SaveType DEF ResetPassword
<1>10. ASSUME NEW p \in Proc, Abort(p)
       PROVE  TypeOK'
  BY <1>10, NoJobType DEF Abort
<1>11. CASE UNCHANGED vars
  BY <1>11 DEF vars
<1> QED BY <1>1, <1>2, <1>3, <1>4, <1>5, <1>6, <1>7, <1>8, <1>9, <1>10, <1>11
        DEF Next

\* The initial states satisfy the inductive invariant.
LEMMA InitSafe == Init => IInv
<1> SUFFICES ASSUME Init PROVE IInv
  OBVIOUS
<1>1. TypeOK
  BY NoJobType DEF Init, TypeOK, UserDoc
<1>2. JobInv /\ SlotInv /\ HistoryInv
  BY DEF Init, JobInv, SlotInv, HistoryInv, NoJob
<1>3. GoneStaysGone /\ AcceptedIsGone /\ AcceptedWasIssued /\ LastPasswordStays
  BY DEF Init, GoneStaysGone, AcceptedIsGone, AcceptedWasIssued, LastPasswordStays
<1> QED BY <1>1, <1>2, <1>3 DEF IInv
----------------------------------------------------------------------------
(* Handlers that start, go on or are dropped without a save.               *)

\* A step that leaves the documents and the history alone only has to keep
\* the handlers in order.
LEMMA QuietSafe ==
    ASSUME IInv, TypeOK', JobInv', UNCHANGED <<users, history>>,
           generated' \in {generated, generated + 1}
    PROVE  IInv'
<1> USE DEF IInv, history
<1>1. SlotInv' /\ GoneStaysGone' /\ AcceptedIsGone'
  BY DEF SlotInv, GoneStaysGone, AcceptedIsGone
<1>2. HistoryInv'
  BY DEF HistoryInv, TypeOK
<1>3. AcceptedWasIssued' /\ LastPasswordStays'
  BY DEF AcceptedWasIssued, LastPasswordStays
<1> QED BY <1>1, <1>2, <1>3

\* A handler that has no OTP to store, and accepts only an issued one, is in
\* order, and does not disturb the others.
LEMMA OneJob ==
    ASSUME IInv, NEW p \in Proc, NEW new, new.pc # "store",
           new.pc = "accept" => Issue(new.user, new.otp.id, new.task) \in issued,
           job' = [job EXCEPT ![p] = new], UNCHANGED <<users, generated, history>>
    PROVE  JobInv'
<1>1. \A q \in Proc : job'[q] = job[q] \/ (q = p /\ job'[q] = new)
  BY DEF IInv, TypeOK
<1>2. \A id : Unused(id)' <=> Unused(id)
  BY DEF Unused, history
<1>3. issued' = issued
  BY DEF history
<1> QED BY <1>1, <1>2, <1>3 DEF IInv, JobInv

\* Starting a handler other than a verification.
LEMMA StartSafe ==
    ASSUME IInv, TypeOK', NEW p \in Proc, NEW u, NEW task, NEW password,
           NEW pc \in {"send", "clear", "reset"}, Start(p, pc, u, task, password),
           UNCHANGED <<users, generated, history>>
    PROVE  IInv'
<1> DEFINE new == [pc |-> pc, user |-> u, task |-> task, otp |-> users[u].otp,
                   password |-> password, snap |-> users[u]]
<1>1. job' = [job EXCEPT ![p] = new] /\ new.pc = pc
  BY DEF Start
<1> HIDE DEF new
<1>2. JobInv'
  BY <1>1, OneJob
<1> QED BY <1>2, QuietSafe DEF IInv, TypeOK

\* A right attempt finds an OTP that was issued for the task.
LEMMA VerifySafe ==
    ASSUME IInv, TypeOK', NEW p \in Proc, NEW u \in User, NEW task \in Task,
           NEW password, Verify(p, u, task, password)
    PROVE  IInv'
<1>1. CASE now <= users[u].otp.expiresOn
  <2> DEFINE new == [pc |-> "accept", user |-> u, task |-> task,
                     otp |-> users[u].otp, password |-> password,
                     snap |-> users[u]]
  <2>1. job' = [job EXCEPT ![p] = new]
    BY <1>1 DEF Verify, Start
  <2>2. Issue(u, users[u].otp.id, task) \in issued
    BY DEF Verify, Active, IInv, SlotInv
  <2>3. /\ new.pc = "accept" /\ new.user = u
        /\ new.otp = users[u].otp /\ new.task = task
    OBVIOUS
  <2> HIDE DEF new
  <2>4. JobInv'
    BY <2>1, <2>2, <2>3, OneJob DEF Verify
  <2> QED BY <2>4, QuietSafe DEF Verify, IInv, TypeOK
<1>2. CASE ~ (now <= users[u].otp.expiresOn)
  <2>1. Start(p, "clear", u, task, password)
    BY <1>2 DEF Verify
  <2> QED BY <2>1, StartSafe DEF Verify
<1> QED BY <1>1, <1>2

\* A generated OTP is unused: its number is above all earlier ones.
LEMMA GenerateSafe ==
    ASSUME IInv, TypeOK', NEW p \in Proc, GenerateOtp(p)
    PROVE  IInv'
<1> DEFINE new == [id |-> generated + 1, forTask |-> job[p].task,
                   expiresOn |-> now + Life]
           next == [job[p] EXCEPT !.pc = "store", !.snap = users[job[p].user],
                                  !.otp = new]
<1>1. job' = [job EXCEPT ![p] = next]
  BY DEF GenerateOtp
<1>2. job[p] \in Job
  BY DEF IInv, TypeOK
<1>3. next.pc = "store" /\ next.otp = new /\ next.task = job[p].task
  BY <1>2 DEF Job
<1>4. new.id = generated + 1 /\ new.forTask = job[p].task
  OBVIOUS
<1> HIDE DEF new, next
<1>5. generated \in Nat /\ generated' = generated + 1
  BY DEF GenerateOtp, IInv, TypeOK
<1> PICK k \in Nat : k = generated + 1
  BY <1>5
<1>6. \A u \in User : users[u].otp.id # k
  <2> SUFFICES ASSUME NEW u \in User PROVE users[u].otp.id # k
    OBVIOUS
  <2>1. CASE users[u].otp = NoOtp
    BY <2>1, <1>5 DEF NoOtp
  <2>2. CASE users[u].otp # NoOtp
    <3>1. Issue(u, users[u].otp.id, users[u].otp.forTask) \in issued
      BY <2>2 DEF IInv, SlotInv
    <3>2. users[u].otp.id \in 1 .. generated
      BY <3>1 DEF Issue, IInv, HistoryInv
    <3> QED BY <3>2, <1>5
  <2> QED BY <2>1, <2>2
<1>7. Unused(k)'
  <2>1. k \notin gone /\ \A i \in issued : i.id # k
    BY <1>5 DEF IInv, HistoryInv
  <2> QED BY <1>5, <1>6, <2>1 DEF GenerateOtp, history, Unused
<1>8. \A id : Unused(id) => Unused(id)' /\ id # k
  BY <1>5 DEF GenerateOtp, history, Unused
<1>9. \A q \in Proc : IF q = p THEN job'[q] = next ELSE job'[q] = job[q]
  BY <1>1 DEF IInv, TypeOK
<1>10. issued' = issued
  BY DEF GenerateOtp, history
<1>11. JobInv'
  BY <1>3, <1>4, <1>7, <1>8, <1>9, <1>10 DEF IInv, JobInv
<1> QED BY <1>5, <1>11, QuietSafe DEF GenerateOtp

\* A handler that fails or dies.
LEMMA AbortSafe ==
    ASSUME IInv, TypeOK', NEW p \in Proc, Abort(p)
    PROVE  IInv'
<1>1. NoJob.pc = "idle"
  BY DEF NoJob
<1>2. JobInv'
  BY <1>1, OneJob DEF Abort
<1> QED BY <1>2, QuietSafe DEF Abort, IInv, TypeOK
----------------------------------------------------------------------------
(* The saves.                                                              *)

\* What a save does to the documents, the slots and the handlers.
LEMMA SaveEffect ==
    ASSUME TypeOK, NEW p \in Proc, NEW changed, NEW fields,
           SaveUser(p, changed, fields)
    PROVE  /\ job[p].user \in User
           /\ \A v \in User : v # job[p].user => users'[v] = users[v]
           /\ users'[job[p].user].otp =
                 IF "otp" \in fields THEN changed.otp ELSE users[job[p].user].otp
           /\ users'[job[p].user].password =
                 IF "password" \in fields THEN changed.password
                 ELSE users[job[p].user].password
           /\ gone' = IF users'[job[p].user].otp = users[job[p].user].otp
                      THEN gone ELSE (gone \cup {users[job[p].user].otp.id}) \ {0}
           /\ \A q \in Proc : IF q = p THEN job'[q].pc = "idle"
                              ELSE job'[q] = job[q]
<1>1. job[p].user \in User
  BY DEF TypeOK, Job
<1>2. users' = [users EXCEPT ![job[p].user] =
                   Save(users[job[p].user], changed, fields)]
  BY DEF SaveUser
<1>3. /\ \A v \in User : v # job[p].user => users'[v] = users[v]
      /\ users'[job[p].user] = Save(users[job[p].user], changed, fields)
  BY <1>1, <1>2 DEF TypeOK
<1>4. \A q \in Proc : IF q = p THEN job'[q].pc = "idle" ELSE job'[q] = job[q]
  BY DEF SaveUser, TypeOK, NoJob
<1> QED BY <1>1, <1>3, <1>4 DEF SaveUser, Save

\* A save that empties the slot or leaves it alone.
LEMMA ClearSafe ==
    ASSUME IInv, NEW p \in Proc, NEW changed, NEW fields,
           SaveUser(p, changed, fields), "otp" \in fields => changed.otp = NoOtp,
           UNCHANGED <<issued, generated>>
    PROVE  /\ JobInv' /\ SlotInv' /\ HistoryInv' /\ GoneStaysGone'
           /\ \A v \in User : users'[v].otp \in {users[v].otp, NoOtp}
<1> DEFINE u == job[p].user
<1>1. /\ u \in User
      /\ \A v \in User : v # u => users'[v] = users[v]
      /\ \A v \in User : users'[v].otp \in {users[v].otp, NoOtp}
      /\ gone' = IF users'[u].otp = users[u].otp
                 THEN gone ELSE (gone \cup {users[u].otp.id}) \ {0}
      /\ \A q \in Proc : IF q = p THEN job'[q].pc = "idle" ELSE job'[q] = job[q]
  BY SaveEffect DEF IInv
<1> HIDE DEF u
<1>2. NoOtp.id = 0
  BY DEF NoOtp
<1>3. 0 \notin gone /\ generated \in Nat
  BY DEF IInv, TypeOK
<1>4. \A id : Unused(id) => Unused(id)'
  BY <1>1, <1>2, <1>3 DEF Unused
<1>5. JobInv'
  BY <1>1, <1>4 DEF IInv, JobInv
<1>6. SlotInv'
  <2> SUFFICES ASSUME NEW v \in User, users'[v].otp # NoOtp
               PROVE  /\ Issue(v, users'[v].otp.id, users'[v].otp.forTask) \in issued'
                      /\ \A w \in User \ {v} : users'[w].otp.id # users'[v].otp.id
    BY DEF SlotInv
  <2>1. users'[v].otp = users[v].otp
    BY <1>1
  <2>2. Issue(v, users[v].otp.id, users[v].otp.forTask) \in issued
    BY <2>1 DEF IInv, SlotInv
  <2>3. users[v].otp.id # 0
    BY <2>2, <1>3 DEF IInv, HistoryInv, Issue
  <2> QED BY <1>1, <1>2, <2>1, <2>2, <2>3 DEF IInv, SlotInv
<1>7. HistoryInv'
  <2>1. users[u].otp.id \in 1 .. generated \/ users[u].otp.id = 0
    <3>1. CASE users[u].otp = NoOtp
      BY <3>1, <1>2
    <3>2. CASE users[u].otp # NoOtp
      <4>1. Issue(u, users[u].otp.id, users[u].otp.forTask) \in issued
        BY <3>2, <1>1 DEF IInv, SlotInv
      <4> QED BY <4>1 DEF IInv, HistoryInv, Issue
    <3> QED BY <3>1, <3>2
  <2> QED BY <1>1, <2>1 DEF IInv, HistoryInv
<1>8. GoneStaysGone'
  <2> SUFFICES ASSUME NEW v \in User PROVE users'[v].otp.id \notin gone'
    BY DEF GoneStaysGone
  <2>1. CASE users'[v].otp = NoOtp
    BY <2>1, <1>1, <1>2, <1>3
  <2>2. CASE users'[v].otp # NoOtp
    <3>1. users'[v].otp = users[v].otp
      BY <2>2, <1>1
    <3>2. v # u => users[u].otp.id # users[v].otp.id
      BY <3>1, <2>2, <1>1 DEF IInv, SlotInv
    <3> QED BY <3>1, <3>2, <1>1 DEF IInv, GoneStaysGone
  <2> QED BY <2>1, <2>2
<1> QED BY <1>1, <1>5, <1>6, <1>7, <1>8

\* Storing an OTP: it was unused, so no history speaks of it.
LEMMA StoreSafe ==
    ASSUME IInv, TypeOK', NEW p \in Proc, StoreOtp(p)
    PROVE  IInv'
<1> DEFINE u == job[p].user
           id == job[p].otp.id
<1>1. SaveUser(p, [job[p].snap EXCEPT !.otp = job[p].otp], {"otp"})
  BY DEF StoreOtp
<1>2. [job[p].snap EXCEPT !.otp = job[p].otp].otp = job[p].otp
  BY DEF IInv, TypeOK, Job, UserDoc
<1>3. /\ u \in User
      /\ \A v \in User : v # u => users'[v] = users[v]
      /\ users'[u].otp = job[p].otp
      /\ users'[u].password = users[u].password
      /\ gone' = IF users'[u].otp = users[u].otp
                 THEN gone ELSE (gone \cup {users[u].otp.id}) \ {0}
      /\ \A q \in Proc : IF q = p THEN job'[q].pc = "idle" ELSE job'[q] = job[q]
  <2> DEFINE changed == [job[p].snap EXCEPT !.otp = job[p].otp]
             fields == {"otp"}
  <2>1. SaveUser(p, changed, fields) /\ changed.otp = job[p].otp
    BY <1>1, <1>2
  <2>2. "otp" \in fields /\ "password" \notin fields
    OBVIOUS
  <2> HIDE DEF changed, fields
  <2> QED BY <2>1, <2>2, SaveEffect DEF IInv
<1>4. /\ job[p].otp.forTask = job[p].task
      /\ Unused(id)
      /\ \A q \in Proc \ {p} : job[q].pc = "store" => job[q].otp.id # id
  BY DEF IInv, JobInv, StoreOtp
<1>5. /\ issued' = issued \cup {Issue(u, id, job[p].task)}
      /\ UNCHANGED <<generated, accepted, chosen>>
  BY DEF StoreOtp
<1>6. /\ users'[u].otp.id = id /\ users'[u].otp.forTask = job[p].task
      /\ Issue(u, id, job[p].task).id = id
  BY <1>3, <1>4 DEF Issue
<1>7. generated \in Nat /\ 0 \notin gone /\ id # 0 /\ NoOtp.id = 0
  BY <1>4 DEF IInv, TypeOK, Unused, NoOtp
<1> HIDE DEF u, id
<1>8. \A x : Unused(x) /\ x # id => Unused(x)'
  BY <1>3, <1>5, <1>6 DEF Unused
<1>9. JobInv'
  BY <1>3, <1>4, <1>5, <1>8 DEF IInv, JobInv
<1>10. SlotInv'
  <2> SUFFICES ASSUME NEW v \in User, users'[v].otp # NoOtp
               PROVE  /\ Issue(v, users'[v].otp.id, users'[v].otp.forTask) \in issued'
                      /\ \A w \in User \ {v} : users'[w].otp.id # users'[v].otp.id
    BY DEF SlotInv
  <2>1. CASE v = u
    BY <2>1, <1>3, <1>4, <1>5, <1>6 DEF Unused
  <2>2. CASE v # u
    BY <2>2, <1>3, <1>4, <1>5, <1>6 DEF Unused, IInv, SlotInv
  <2> QED BY <2>1, <2>2
<1>11. HistoryInv'
  <2>1. users[u].otp.id \in 1 .. generated \/ users[u].otp.id = 0
    <3>1. CASE users[u].otp = NoOtp
      BY <3>1, <1>7
    <3>2. CASE users[u].otp # NoOtp
      <4>1. Issue(u, users[u].otp.id, users[u].otp.forTask) \in issued
        BY <3>2, <1>3 DEF IInv, SlotInv
      <4> QED BY <4>1 DEF IInv, HistoryInv, Issue
    <3> QED BY <3>1, <3>2
  <2>2. gone' \subseteq 1 .. generated'
    BY <1>3, <1>5, <2>1 DEF IInv, HistoryInv
  <2>3. \A i \in issued' : i.id \in 1 .. generated'
    BY <1>4, <1>5, <1>6 DEF IInv, HistoryInv, Unused
  <2> QED BY <2>2, <2>3 DEF HistoryInv
<1>12. GoneStaysGone'
  <2> SUFFICES ASSUME NEW v \in User PROVE users'[v].otp.id \notin gone'
    BY DEF GoneStaysGone
  <2>1. CASE v = u
    BY <2>1, <1>3, <1>4, <1>6 DEF Unused
  <2>2. CASE v # u
    <3>1. users'[v] = users[v] /\ users[v].otp.id \notin gone
      BY <2>2, <1>3 DEF IInv, GoneStaysGone
    <3>2. users[u].otp.id # 0 => users[v].otp.id # users[u].otp.id
      BY <2>2, <1>3, <1>7 DEF IInv, SlotInv
    <3> QED BY <3>1, <3>2, <1>3
  <2> QED BY <2>1, <2>2
<1>13. AcceptedIsGone'
  <2> SUFFICES ASSUME NEW a \in accepted PROVE users'[a.user].otp.id # a.id
    BY <1>5 DEF AcceptedIsGone
  <2>1. a.user \in User /\ a.id # id
    BY <1>4 DEF IInv, TypeOK, Record, AcceptedWasIssued, Unused
  <2>2. CASE a.user = u
    BY <2>1, <2>2, <1>6
  <2>3. CASE a.user # u
    BY <2>1, <2>3, <1>3 DEF IInv, AcceptedIsGone
  <2> QED BY <2>2, <2>3
<1>14. AcceptedWasIssued'
  BY <1>5 DEF IInv, AcceptedWasIssued
<1>15. LastPasswordStays'
  BY <1>3, <1>5 DEF IInv, LastPasswordStays
<1> QED BY <1>9, <1>10, <1>11, <1>12, <1>13, <1>14, <1>15 DEF IInv
\* Accepting: the OTP was issued for the task, and leaves the slot.
LEMMA AcceptSafe ==
    ASSUME IInv, TypeOK', NEW p \in Proc, Accept(p)
    PROVE  IInv'
<1> DEFINE u == job[p].user
           task == job[p].task
           a == Issue(u, job[p].otp.id, task)
           changed == Verified(job[p])
           fields == {"otp"} \cup Effects(task)
<1>1. SaveUser(p, changed, fields)
  BY DEF Accept
<1>2. changed.otp = NoOtp /\ changed.password = job[p].password
  <2>1. job[p].snap \in UserDoc
    BY DEF IInv, TypeOK, Job
  <2> QED BY <2>1 DEF Verified, UserDoc
<1>3. /\ "otp" \in fields
      /\ "password" \in fields <=> task = "forget-password"
  <2>1. task \in Task
    BY DEF IInv, TypeOK, Job
  <2> QED BY <2>1 DEF Effects, Task
<1>4. /\ a \in issued /\ a.user = u /\ a.id # 0
  <2>1. a \in issued
    BY DEF Accept, IInv, JobInv
  <2> QED BY <2>1 DEF Issue, IInv, HistoryInv
<1>5. /\ UNCHANGED <<issued, generated>>
      /\ accepted' = accepted \cup {a}
      /\ chosen' = IF task = "forget-password"
                   THEN [chosen EXCEPT ![u] = job[p].password] ELSE chosen
  BY DEF Accept, Effective
<1> HIDE DEF a, changed, fields, u, task
<1>6. /\ JobInv' /\ SlotInv' /\ HistoryInv' /\ GoneStaysGone'
      /\ \A v \in User : users'[v].otp \in {users[v].otp, NoOtp}
  BY <1>1, <1>2, <1>5, ClearSafe
<1>7. /\ u \in User
      /\ \A v \in User : v # u => users'[v] = users[v]
      /\ users'[u].otp = NoOtp
      /\ users'[u].password = IF task = "forget-password" THEN job[p].password
                              ELSE users[u].password
  BY <1>1, <1>2, <1>3, SaveEffect DEF IInv, u
<1>8. AcceptedIsGone'
  <2> SUFFICES ASSUME NEW b \in accepted' PROVE users'[b.user].otp.id # b.id
    BY DEF AcceptedIsGone
  <2>1. b \in issued
    BY <1>4, <1>5 DEF IInv, AcceptedWasIssued
  <2>2. b.user \in User /\ b.id # 0
    BY <2>1 DEF IInv, TypeOK, Record, HistoryInv
  <2>3. CASE b = a
    BY <2>2, <2>3, <1>4, <1>7 DEF NoOtp
  <2>4. CASE b \in accepted
    BY <2>2, <2>4, <1>6 DEF NoOtp, IInv, AcceptedIsGone
  <2> QED BY <2>3, <2>4, <1>5
<1>9. AcceptedWasIssued'
  BY <1>4, <1>5 DEF IInv, AcceptedWasIssued
<1>10. LastPasswordStays'
  BY <1>5, <1>7 DEF IInv, TypeOK, LastPasswordStays
<1> QED BY <1>6, <1>8, <1>9, <1>10 DEF IInv

\* Emptying the slot of an expired OTP.
LEMMA ClearExpiredSafe ==
    ASSUME IInv, TypeOK', NEW p \in Proc, ClearExpired(p)
    PROVE  IInv'
<1> DEFINE changed == [job[p].snap EXCEPT !.otp = NoOtp]
           fields == {"otp"}
<1>1. /\ SaveUser(p, changed, fields)
      /\ UNCHANGED <<issued, generated, accepted, chosen>>
  BY DEF ClearExpired
<1>2. changed.otp = NoOtp
  BY DEF IInv, TypeOK, Job, UserDoc
<1>3. "password" \notin fields
  OBVIOUS
<1> HIDE DEF changed, fields
<1>4. /\ JobInv' /\ SlotInv' /\ HistoryInv' /\ GoneStaysGone'
      /\ \A v \in User : users'[v].otp \in {users[v].otp, NoOtp}
  BY <1>1, <1>2, ClearSafe
<1>5. \A v \in User : users'[v].password = users[v].password
  BY <1>1, <1>3, SaveEffect DEF IInv
<1>6. AcceptedIsGone'
  <2>1. \A b \in accepted : b.user \in User /\ b.id # 0
    BY DEF IInv, TypeOK, Record, HistoryInv, AcceptedWasIssued
  <2> QED BY <1>1, <1>4, <2>1 DEF NoOtp, IInv, AcceptedIsGone
<1>7. AcceptedWasIssued' /\ LastPasswordStays'
  BY <1>1, <1>5 DEF IInv, AcceptedWasIssued, LastPasswordStays
<1> QED BY <1>4, <1>6, <1>7 DEF IInv

\* Setting a password leaves the slot alone.
LEMMA ResetSafe ==
    ASSUME IInv, TypeOK', NEW p \in Proc, ResetPassword(p)
    PROVE  IInv'
<1> DEFINE u == job[p].user
           changed == [job[p].snap EXCEPT !.password = job[p].password]
           fields == {"password"}
<1>1. /\ SaveUser(p, changed, fields)
      /\ UNCHANGED <<issued, generated, accepted>>
      /\ chosen' = [chosen EXCEPT ![u] = job[p].password]
  BY DEF ResetPassword
<1>2. changed.password = job[p].password
  BY DEF IInv, TypeOK, Job, UserDoc
<1>3. "otp" \notin fields /\ "password" \in fields
  OBVIOUS
<1> HIDE DEF changed, fields, u
<1>4. /\ JobInv' /\ SlotInv' /\ HistoryInv' /\ GoneStaysGone'
  BY <1>1, <1>3, ClearSafe
<1>5. /\ u \in User
      /\ \A v \in User : v # u => users'[v] = users[v]
      /\ users'[u].otp = users[u].otp
      /\ users'[u].password = job[p].password
  BY <1>1, <1>2, <1>3, SaveEffect DEF IInv, u
<1>6. AcceptedIsGone'
  <2>1. \A b \in accepted : b.user \in User
    BY DEF IInv, TypeOK, Record
  <2> QED BY <1>1, <1>5, <2>1 DEF IInv, AcceptedIsGone
<1>7. AcceptedWasIssued' /\ LastPasswordStays'
  BY <1>1, <1>5 DEF IInv, TypeOK, AcceptedWasIssued, LastPasswordStays
<1> QED BY <1>4, <1>6, <1>7 DEF IInv
----------------------------------------------------------------------------
(* The theorems.                                                           *)

\* Every step preserves the inductive invariant.
LEMMA StepSafe == IInv /\ [Next]_vars => IInv'
<1> SUFFICES ASSUME IInv, [Next]_vars PROVE IInv'
  OBVIOUS
<1>1. TypeOK'
  BY StepType DEF IInv
<1>2. CASE Elapse
  <2>1. JobInv'
    BY <1>2 DEF Elapse, history, IInv, JobInv, Unused
  <2> QED BY <1>1, <1>2, <2>1, QuietSafe DEF Elapse
<1>3. ASSUME NEW p \in Proc, NEW u \in User, NEW task \in Task,
             RequestOtp(p, u, task)
      PROVE  IInv'
  BY <1>1, <1>3, StartSafe DEF RequestOtp
<1>4. ASSUME NEW p \in Proc, NEW u \in User, NEW task \in Task, NEW password,
             Verify(p, u, task, password)
      PROVE  IInv'
  BY <1>1, <1>4, VerifySafe
<1>5. ASSUME NEW p \in Proc, NEW u \in User, NEW password,
             CheckPassword(p, u, password)
      PROVE  IInv'
  BY <1>1, <1>5, StartSafe DEF CheckPassword
<1>6. ASSUME NEW p \in Proc,
             \/ GenerateOtp(p) \/ StoreOtp(p) \/ Accept(p) \/ ClearExpired(p)
             \/ ResetPassword(p) \/ Abort(p)
      PROVE  IInv'
  BY <1>1, <1>6, GenerateSafe, StoreSafe, AcceptSafe, ClearExpiredSafe,
     ResetSafe, AbortSafe
<1>7. CASE UNCHANGED vars
  <2>1. JobInv'
    BY <1>7 DEF vars, history, IInv, JobInv, Unused
  <2> QED BY <1>1, <1>7, <2>1, QuietSafe DEF vars
<1> QED BY <1>2, <1>3, <1>4, <1>5, <1>6, <1>7 DEF Next

\* Type correctness: every variable keeps its type.
THEOREM TypeCorrect == Spec => []TypeOK
<1>1. Init => TypeOK
  BY InitSafe DEF IInv
<1> QED BY <1>1, StepType, PTL DEF Spec

\* The inductive invariant.
THEOREM Inductive == Spec => []IInv
BY InitSafe, StepSafe, PTL DEF Spec

\* An accepted OTP never comes back to the slot.
THEOREM AcceptedOtpIsGone == Spec => []AcceptedIsGone
BY Inductive, PTL DEF IInv

\* Nor does a replaced or cleared one.
THEOREM GoneOtpStaysGone == Spec => []GoneStaysGone
BY Inductive, PTL DEF IInv

\* What is accepted for a task was sent to the user for that task.
THEOREM OnlyIssuedIsAccepted == Spec => []AcceptedWasIssued
BY Inductive, PTL DEF IInv

\* The stored password is the one that was set last.
THEOREM NoOldPassword == Spec => []LastPasswordStays
BY Inductive, PTL DEF IInv
=============================================================================
