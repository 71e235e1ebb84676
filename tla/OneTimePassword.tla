-------------------------- MODULE OneTimePassword --------------------------
(***************************************************************************)
(* One-time passwords and passwords of a user document (microservices/     *)
(* user-svc/src/user/user.service.ts).  A document has one otp slot, shared*)
(* by three tasks: whatever sendOtp stores replaces what was there.  The   *)
(* verifications load the user, compare, and save the document with an     *)
(* empty slot; resetPassword loads, compares and saves too.                *)
(*                                                                         *)
(* Every save comes after awaits, and sends only the fields the handler    *)
(* changed on the document it loaded (no array is touched, so __v is never *)
(* compared).  job[p] is the handler p that has yet to save.  Handlers that*)
(* are refused change nothing, and those whose save fails leave nothing.   *)
(*                                                                         *)
(* OTPs are numbered in the order they are generated: two with the same    *)
(* six digits are not told apart from a mistyped one.  Passwords are       *)
(* numbers, 0 for a user of a social login, who has none.                  *)
(***************************************************************************)
EXTENDS Naturals

CONSTANTS User, Proc,
          Life,          \* instants an OTP is valid for (10 minutes)
          MaxTime,       \* bound on the clock
          MaxOtp,        \* bound on the OTPs generated
          MaxPassword    \* bound on the passwords set

ASSUME OtpAssumption == /\ User # {}
                        /\ Life \in Nat /\ MaxTime \in Nat
                        /\ MaxOtp \in Nat /\ MaxPassword \in Nat

VARIABLES now,        \* the clock
          users,      \* [User -> UserDoc]
          job,        \* [Proc -> Job]
          generated,  \* OTPs generated so far
          issued,     \* history: what each stored OTP was for
          gone,       \* history: OTPs that were replaced or cleared
          accepted,   \* history: successful verifications
          chosen      \* history: the password last set, per user

history == <<issued, gone, accepted, chosen>>
vars == <<now, users, job, generated, history>>

Task == {"two-factor-auth", "email-verification", "forget-password"}
Otp == [id : Nat \ {0}, forTask : Task, expiresOn : Nat]
NoOtp == [id |-> 0, forTask |-> "none", expiresOn |-> 0]      \* otp: null

UserDoc == [otp : Otp \cup {NoOtp}, password : Nat, isEmailVerified : BOOLEAN]

\* pc names what is left to do; snap is the loaded document.
Job == [pc : {"idle", "send", "store", "accept", "clear", "reset"},
        user : User, task : Task, otp : Otp \cup {NoOtp}, password : Nat,
        snap : UserDoc]

NoJob == [pc |-> "idle", user |-> CHOOSE u \in User : TRUE,
          task |-> "two-factor-auth", otp |-> NoOtp, password |-> 0,
          snap |-> [otp |-> NoOtp, password |-> 0, isEmailVerified |-> FALSE]]

Init ==
    /\ now = 0
    /\ users \in [User -> [otp : {NoOtp}, password : {0, 1},
                           isEmailVerified : BOOLEAN]]
    /\ job = [p \in Proc |-> NoJob]
    /\ generated = 0
    /\ issued = {}
    /\ gone = {}
    /\ accepted = {}
    /\ chosen = [u \in User |-> users[u].password]

Elapse ==
    /\ now < MaxTime
    /\ now' = now + 1
    /\ UNCHANGED <<users, job, generated, history>>

\* A line of the history: OTP id of the user was for the task.
Issue(user, id, task) == [user |-> user, id |-> id, task |-> task]

Idle(p) == job[p].pc = "idle"

Start(p, pc, u, task, password) ==
    job' = [job EXCEPT ![p] = [pc |-> pc, user |-> u, task |-> task,
                               otp |-> users[u].otp, password |-> password,
                               snap |-> users[u]]]

SaveWhole(old, changed, fields) == changed     \* mutant: replaces the document

\* user.save(): only the fields that were assigned are written.
Save(old, changed, fields) ==
    [otp |-> IF "otp" \in fields THEN changed.otp ELSE old.otp,
     password |-> IF "password" \in fields THEN changed.password ELSE old.password,
     isEmailVerified |-> IF "isEmailVerified" \in fields
                         THEN changed.isEmailVerified ELSE old.isEmailVerified]

\* p assigns the fields on its loaded document and saves it; p is done.
SaveUser(p, changed, fields) ==
    LET u == job[p].user IN
    /\ users' = [users EXCEPT ![u] = Save(@, changed, fields)]
    /\ gone' = IF users'[u].otp = users[u].otp THEN gone
               ELSE (gone \cup {users[u].otp.id}) \ {0}
    /\ job' = [job EXCEPT ![p] = NoJob]
----------------------------------------------------------------------------
(* Sending: twoFactorOtp, sendEmailOtp, forgotPasswordOtp and sendOtp.     *)

\* Only a user whose e-mail is verified gets an OTP for two-factor-auth.
RequestOtp(p, u, task) ==
    /\ Idle(p)
    /\ task = "two-factor-auth" => users[u].isEmailVerified
    /\ Start(p, "send", u, task, 0)
    /\ UNCHANGED <<now, users, generated, history>>

\* sendOtp loads the user again, then generateOtp.
GenerateOtp(p) ==
    LET j == job[p] IN
    /\ j.pc = "send"
    /\ generated < MaxOtp
    /\ generated' = generated + 1
    /\ job' = [job EXCEPT ![p] =
                  [j EXCEPT !.pc = "store", !.snap = users[j.user],
                            !.otp = [id |-> generated + 1, forTask |-> j.task,
                                     expiresOn |-> now + Life]]]
    /\ UNCHANGED <<now, users, history>>

StoreOtp(p) ==
    LET j == job[p] IN
    /\ j.pc = "store"
    /\ SaveUser(p, [j.snap EXCEPT !.otp = j.otp], {"otp"})
    /\ issued' = issued \cup {Issue(j.user, j.otp.id, j.task)}
    /\ UNCHANGED <<now, generated, accepted, chosen>>
----------------------------------------------------------------------------
(* Verifying: twoFactorVerify, verifyEmailOtp, forgotPasswordVerify.       *)

ActiveForAny(otp, task) == otp # NoOtp                         \* mutant

\* "No active otp found" otherwise.
Active(otp, task) == otp # NoOtp /\ otp.forTask = task

\* checkOtp of a right attempt.  A wrong one is refused without effect, also
\* when the OTP has expired: "incorrect otp" replaces "otp has expired".
Verify(p, u, task, password) ==
    LET otp == users[u].otp IN
    /\ Idle(p)
    /\ Active(otp, task)
    /\ Start(p, IF now <= otp.expiresOn THEN "accept" ELSE "clear",
             u, task, password)
    /\ UNCHANGED <<now, users, generated, history>>

\* What a verification sets besides the slot (the e-mail address is left out).
Effects(task) ==
    CASE task = "two-factor-auth" -> {}
      [] task = "email-verification" -> {"isEmailVerified"}
      [] task = "forget-password" -> {"password"}

Verified(j) == [j.snap EXCEPT !.otp = NoOtp, !.isEmailVerified = TRUE,
                              !.password = j.password]

Effective(p) ==
    LET j == job[p] IN
    /\ accepted' = accepted \cup {Issue(j.user, j.otp.id, j.task)}
    /\ chosen' = IF j.task = "forget-password"
                 THEN [chosen EXCEPT ![j.user] = j.password] ELSE chosen
    /\ UNCHANGED <<now, generated, issued>>

AcceptKeepingOtp(p) ==                      \* mutant: user.otp = null missing
    /\ job[p].pc = "accept"
    /\ SaveUser(p, Verified(job[p]), Effects(job[p].task))
    /\ Effective(p)

\* The attempt was right: the slot is emptied together with what the
\* verification is for.
Accept(p) ==
    /\ job[p].pc = "accept"
    /\ SaveUser(p, Verified(job[p]), {"otp"} \cup Effects(job[p].task))
    /\ Effective(p)

ClearCodeOnly(p) ==                         \* mutant: user.otp.otp = null
    /\ job[p].pc = "clear"
    /\ SaveUser(p, [job[p].snap EXCEPT !.otp.id = 0], {"otp"})
    /\ UNCHANGED <<now, generated, issued, accepted, chosen>>

\* The OTP had expired.
ClearExpired(p) ==
    /\ job[p].pc = "clear"
    /\ SaveUser(p, [job[p].snap EXCEPT !.otp = NoOtp], {"otp"})
    /\ UNCHANGED <<now, generated, issued, accepted, chosen>>
----------------------------------------------------------------------------
(* resetPassword                                                           *)

\* The user has a password and the caller knows it.
CheckPassword(p, u, password) ==
    /\ Idle(p)
    /\ users[u].password # 0
    /\ Start(p, "reset", u, "two-factor-auth", password)
    /\ UNCHANGED <<now, users, generated, history>>

ResetPassword(p) ==
    LET j == job[p] IN
    /\ j.pc = "reset"
    /\ SaveUser(p, [j.snap EXCEPT !.password = j.password], {"password"})
    /\ chosen' = [chosen EXCEPT ![j.user] = j.password]
    /\ UNCHANGED <<now, generated, issued, accepted>>

\* A call the handler awaits fails, or the process dies.
Abort(p) ==
    /\ ~ Idle(p)
    /\ job' = [job EXCEPT ![p] = NoJob]
    /\ UNCHANGED <<now, users, generated, history>>

Next ==
    \/ Elapse
    \/ \E p \in Proc :
          \/ \E u \in User, task \in Task :
                \/ RequestOtp(p, u, task)
                \/ \E password \in 2 .. MaxPassword : Verify(p, u, task, password)
          \/ \E u \in User, password \in 2 .. MaxPassword :
                CheckPassword(p, u, password)
          \/ GenerateOtp(p) \/ StoreOtp(p) \/ Accept(p) \/ ClearExpired(p)
          \/ ResetPassword(p) \/ Abort(p)

Spec == Init /\ [][Next]_vars
----------------------------------------------------------------------------
(* Properties.                                                             *)

Record == [user : User, id : Nat, task : Task]

TypeOK ==
    /\ now \in Nat
    /\ users \in [User -> UserDoc]
    /\ job \in [Proc -> Job]
    /\ generated \in 0 .. MaxOtp
    /\ issued \subseteq Record /\ accepted \subseteq Record
    /\ gone \subseteq Nat \ {0}
    /\ chosen \in [User -> Nat]

\* One time: an OTP that was accepted is not in the slot any more, so that no
\* verification that starts later accepts it, whatever other sends,
\* verifications and password changes of the user are in flight.
AcceptedIsGone ==
    \A a \in accepted : users[a.user].otp.id # a.id

\* A slot never gets back an OTP it lost: a handler that loaded the user
\* while the OTP was active does not write it back when it saves.
GoneStaysGone == \A u \in User : users[u].otp.id \notin gone

\* What is accepted for a task was sent for that task and to that user,
\* although the three tasks overwrite one another's slot.
AcceptedWasIssued == accepted \subseteq issued

\* The password is the one that was set last: verifications and sends that
\* loaded the user earlier do not bring an old one back.
LastPasswordStays ==
    \A u \in User : users[u].password = chosen[u]

\* Why: an OTP that waits to be stored is in no slot, no history and no other
\* handler; what is in a slot, or about to be accepted, was issued.
Unused(id) == /\ id \in 1 .. generated
              /\ id \notin gone
              /\ \A u \in User : users[u].otp.id # id
              /\ \A i \in issued : i.id # id

JobInv ==
    \A p \in Proc : LET j == job[p] IN
        /\ j.pc = "store" => /\ j.otp.forTask = j.task
                             /\ Unused(j.otp.id)
                             /\ \A q \in Proc \ {p} : job[q].pc = "store" =>
                                   job[q].otp.id # j.otp.id
        /\ j.pc = "accept" => Issue(j.user, j.otp.id, j.task) \in issued

SlotInv ==
    \A u \in User : LET otp == users[u].otp IN
        otp # NoOtp => /\ Issue(u, otp.id, otp.forTask) \in issued
                       /\ \A v \in User \ {u} : users[v].otp.id # otp.id

HistoryInv == /\ gone \subseteq 1 .. generated
              /\ \A i \in issued : i.id \in 1 .. generated

\* The inductive invariant behind the four properties above.
IInv == /\ TypeOK /\ JobInv /\ SlotInv /\ HistoryInv
        /\ AcceptedIsGone /\ GoneStaysGone
        /\ AcceptedWasIssued /\ LastPasswordStays
=============================================================================
