------------------------------ MODULE Accounts ------------------------------
(***************************************************************************)
(* How user documents come into being and change their e-mail address and  *)
(* Apple ID (microservices/user-svc/src/user/user.service.ts): signup,     *)
(* googleLogin, appleLogin, createAdmin, sendEmailOtp, verifyEmailOtp, and  *)
(* updateProfile with the address that an administrator sends.             *)
(*                                                                         *)
(* Each looks for a document with the address or ID, awaits the answer and *)
(* then writes.  No index makes an address or an ID unique, so what two    *)
(* handlers check they may both write.  job[p] is what handler p still has *)
(* to do; the handler Boot runs createAdmin, which a restart starts again. *)
(***************************************************************************)
EXTENDS Integers, Sequences

CONSTANTS Email,         \* addresses as they are spelled
          Lower,         \* [Email -> Email]: toLowerCase
          AdminEmail,    \* process.env.ADMIN_EMAIL
          Apple,         \* Apple IDs
          None,          \* null, or a field that is not assigned
          Proc, Boot,    \* request handlers, and createAdmin
          MaxAccounts,   \* bound: no account is asked for beyond it
          MaxFaults      \* bound on restarts and failed calls

ASSUME AccountsAssumption ==
    /\ Lower \in [Email -> Email]
    /\ AdminEmail \in Email
    /\ None \notin Email \cup Apple
    /\ Email \cap Apple = {}
    /\ Boot \notin Proc
    /\ MaxAccounts \in Nat /\ MaxFaults \in Nat

VARIABLES accounts,     \* the documents, in the order of their creation
          job,          \* [Handler -> Job]
          faults,       \* restarts and failed calls so far
          changed,      \* history: documents whose address was changed
          raced         \* history: addresses and IDs a handler checked while
                        \* another had checked them and not yet written

history == <<changed, raced>>
vars == <<accounts, job, faults, history>>

Handler == Proc \cup {Boot}

Account == [email : Email \cup {None}, appleId : Apple \cup {None},
            isEmailVerified : BOOLEAN, role : {"user", "superadmin"},
            otp : BOOLEAN,         \* is an e-mail OTP stored?
            signedUp : Email \cup {None}]  \* history: the address as signup was
                                           \* sent it

NewAccount == [email |-> None, appleId |-> None, isEmailVerified |-> FALSE,
               role |-> "user", otp |-> FALSE, signedUp |-> None]

Job == [pc : {"idle", "findAdmin", "findEmail", "create", "link", "storeOtp",
              "saveEmail", "update", "failed"},
        doc : Account,             \* the document to create, or the changes
        target : Nat]              \* the document loaded, or 0

NoJob == [pc |-> "idle", doc |-> NewAccount, target |-> 0]
Started == [NoJob EXCEPT !.pc = "findAdmin"]

Init ==
    /\ accounts = << >>
    /\ job = [p \in Handler |-> IF p = Boot THEN Started ELSE NoJob]
    /\ faults = 0
    /\ changed = {}
    /\ raced = {}
----------------------------------------------------------------------------
WithEmail(e) == {i \in DOMAIN accounts : accounts[i].email = e}
WithAppleIdVerified(a) ==               \* mutant: findOne asks for more
    {i \in DOMAIN accounts : /\ accounts[i].appleId = a
                             /\ accounts[i].isEmailVerified}

WithAppleId(a) == {i \in DOMAIN accounts : accounts[i].appleId = a}

\* The documents a login with a password may find: the attempt is put into
\* lower case, what is stored is not.
FindOneByEmailOrUsername(attempt) == WithEmail(Lower[attempt])

\* q found no document with the address e, or the ID a, and has not written.
WillCreate(q, e) == job[q].pc = "create" /\ job[q].doc.email = e
WillHave(q, a) == /\ job[q].pc \in {"findEmail", "create", "link"}
                  /\ job[q].doc.appleId = a

\* Somebody else is between its check of the same value and its write.
RaceOn(e, p) == IF \E q \in Handler \ {p} : WillCreate(q, e) THEN {e} ELSE {}
RaceFor(a, p) == IF \E q \in Handler \ {p} : WillHave(q, a) THEN {a} ELSE {}

Do(p, pc, doc, target) ==
    job' = [job EXCEPT ![p] = [pc |-> pc, doc |-> doc, target |-> target]]

End(p) == job' = [job EXCEPT ![p] = NoJob]

Save(i, doc) == accounts' = [accounts EXCEPT ![i] = doc]

\* p is free and takes a request.
Free(p) == p \in Proc /\ job[p].pc = "idle" /\ Len(accounts) < MaxAccounts

\* p found no document with the address: it goes on to create doc.
NotFound(p, e, doc) ==
    /\ WithEmail(e) = {}
    /\ Do(p, "create", doc, 0)
    /\ raced' = raced \cup RaceOn(e, p)
    /\ UNCHANGED <<accounts, faults, changed>>
----------------------------------------------------------------------------
(* Signing up and logging in.  A login that finds its document changes     *)
(* nothing, and neither does a refusal.                                    *)

SignupUnchecked(p, e) ==                                       \* mutant
    /\ Free(p)
    /\ Do(p, "create", [NewAccount EXCEPT !.email = Lower[e], !.signedUp = e], 0)
    /\ UNCHANGED <<accounts, faults, history>>

SignupAsSpelled(p, e) ==                       \* mutant: no toLowerCase
    /\ Free(p)
    /\ NotFound(p, e, [NewAccount EXCEPT !.email = e, !.signedUp = e])

\* "account with this email already exists!" otherwise.
Signup(p, e) ==
    /\ Free(p)
    /\ NotFound(p, Lower[e],
                [NewAccount EXCEPT !.email = Lower[e], !.signedUp = e])

\* The address is taken as Google spells it.
GoogleLogin(p, e) ==
    /\ Free(p)
    /\ NotFound(p, e, [NewAccount EXCEPT !.email = e, !.isEmailVerified = TRUE])

\* No document with the Apple ID.  e is None for a private relay address.
AppleLogin(p, a, e) ==
    LET doc == [NewAccount EXCEPT !.email = e, !.appleId = a,
                                  !.isEmailVerified = (e # None)]
    IN
    /\ Free(p)
    /\ WithAppleId(a) = {}
    /\ Do(p, IF e = None THEN "create" ELSE "findEmail", doc, 0)
    /\ raced' = raced \cup RaceFor(a, p)
    /\ UNCHANGED <<accounts, faults, changed>>

\* if (gEmail && !user) user = findOne({ email: gEmail })
AppleFindEmail(p) ==
    LET doc == job[p].doc IN
    /\ job[p].pc = "findEmail"
    /\ \/ NotFound(p, doc.email, doc)
       \/ \E i \in WithEmail(doc.email) :
             /\ IF accounts[i].appleId = doc.appleId THEN End(p)
                ELSE Do(p, "link", doc, i)
             /\ UNCHANGED <<accounts, faults, history>>

Create(p) ==
    /\ job[p].pc = "create"
    /\ accounts' = Append(accounts, job[p].doc)
    /\ End(p)
    /\ UNCHANGED <<faults, history>>

\* user.appleId = appleId, saved on the document found by its address.
Link(p) ==
    /\ job[p].pc = "link"
    /\ Save(job[p].target,
            [accounts[job[p].target] EXCEPT !.appleId = job[p].doc.appleId])
    /\ End(p)
    /\ UNCHANGED <<faults, history>>
----------------------------------------------------------------------------
(* Changing the address.  OneTimePassword has the OTP in full.             *)

\* "user with this email already exists" unless e is free or the user's own.
SendEmailOtp(p, i, e) ==
    /\ Free(p)
    /\ accounts[i].email = e \/ WithEmail(e) = {}
    /\ Do(p, "storeOtp", NewAccount, i)
    /\ UNCHANGED <<accounts, faults, history>>

StoreOtp(p) ==
    /\ job[p].pc = "storeOtp"
    /\ Save(job[p].target, [accounts[job[p].target] EXCEPT !.otp = TRUE])
    /\ End(p)
    /\ UNCHANGED <<faults, history>>

\* The right OTP, for whatever address the request names.  An address equal
\* to the loaded one is not sent by the save.
VerifyEmailOtp(p, i, e) ==
    /\ Free(p)
    /\ accounts[i].otp
    /\ Do(p, "saveEmail",
          [NewAccount EXCEPT !.email = IF accounts[i].email = e THEN None ELSE e], i)
    /\ UNCHANGED <<accounts, faults, history>>

SaveEmail(p) ==
    LET i == job[p].target
        e == job[p].doc.email
    IN
    /\ job[p].pc = "saveEmail"
    /\ Save(i, [accounts[i] EXCEPT !.otp = FALSE, !.isEmailVerified = TRUE,
                                   !.email = IF e = None THEN @ ELSE e])
    /\ changed' = IF e = None THEN changed ELSE changed \cup {i}
    /\ End(p)
    /\ UNCHANGED <<faults, raced>>

\* updateProfile, for an administrator or a request to a REST route: the
\* address is neither checked nor verified, and stored as it is spelled.
UpdateProfile(p, i, e) ==
    /\ Free(p)
    /\ Do(p, "update", [NewAccount EXCEPT !.email = e], i)
    /\ UNCHANGED <<accounts, faults, history>>

FindByIdAndUpdate(p) ==
    LET i == job[p].target IN
    /\ job[p].pc = "update"
    /\ Save(i, [accounts[i] EXCEPT !.email = job[p].doc.email])
    /\ changed' = changed \cup {i}
    /\ End(p)
    /\ UNCHANGED <<faults, raced>>
----------------------------------------------------------------------------
(* createAdmin and faults                                                  *)

SuperadminDocAdmin ==                          \* mutant: not in the enum
    [NewAccount EXCEPT !.email = AdminEmail, !.role = "admin"]

SuperadminDoc == [NewAccount EXCEPT !.email = AdminEmail,
                                    !.isEmailVerified = TRUE,
                                    !.role = "superadmin"]

CreateAdmin ==
    /\ job[Boot].pc = "findAdmin"
    /\ \/ NotFound(Boot, AdminEmail, SuperadminDoc)
       \/ /\ WithEmail(AdminEmail) # {}
          /\ End(Boot)
          /\ UNCHANGED <<accounts, faults, history>>

\* A call the handler awaits fails.  createAdmin swallows the error.
Fail(p) ==
    /\ job[p].pc \notin {"idle", "failed"}
    /\ faults < MaxFaults
    /\ faults' = faults + 1
    /\ job' = [job EXCEPT ![p] = IF p = Boot THEN [NoJob EXCEPT !.pc = "failed"]
                                 ELSE NoJob]
    /\ UNCHANGED <<accounts, history>>

RestartBootIdle ==                                             \* mutant
    /\ faults < MaxFaults
    /\ faults' = faults + 1
    /\ job' = [p \in Handler |-> NoJob]
    /\ UNCHANGED <<accounts, history>>

\* The service restarts, and its controller calls createAdmin.
Restart ==
    /\ faults < MaxFaults
    /\ faults' = faults + 1
    /\ job' = [p \in Handler |-> IF p = Boot THEN Started ELSE NoJob]
    /\ UNCHANGED <<accounts, history>>

Write(p) == \/ Create(p) \/ Link(p) \/ StoreOtp(p) \/ SaveEmail(p)
            \/ FindByIdAndUpdate(p)

Ask(p) ==
    \/ \E e \in Email : Signup(p, e) \/ GoogleLogin(p, e)
    \/ \E a \in Apple, e \in Email \cup {None} : AppleLogin(p, a, e)
    \/ \E i \in DOMAIN accounts, e \in Email :
          \/ SendEmailOtp(p, i, e) \/ VerifyEmailOtp(p, i, e)
          \/ UpdateProfile(p, i, e)

Next ==
    \/ \E p \in Proc : Ask(p)
    \/ \E p \in Handler : AppleFindEmail(p) \/ Write(p) \/ Fail(p)
    \/ CreateAdmin
    \/ Restart

Spec == Init /\ [][Next]_vars

\* createAdmin runs: nothing else has to.
FairSpec == Spec /\ WF_vars(CreateAdmin) /\ WF_vars(Create(Boot))
----------------------------------------------------------------------------
(* Properties.                                                             *)

TypeOK ==
    /\ accounts \in Seq(Account)
    /\ job \in [Handler -> Job]
    /\ \A p \in Handler : job[p].pc \in {"link", "storeOtp", "saveEmail", "update"} =>
          job[p].target \in DOMAIN accounts
    /\ faults \in 0 .. MaxFaults
    /\ changed \subseteq DOMAIN accounts
    /\ raced \subseteq Email \cup Apple

\* One account per address ("account with this email already exists!"): two
\* documents share one only if one of them was given another address, by
\* verifyEmailOtp or an administrator, or two handlers were between their
\* check and their write of that very address at the same time.  Handlers
\* busy with other addresses, failures and restarts never make a duplicate.
EmailUnique ==
    \A i, j \in DOMAIN accounts :
        /\ i # j
        /\ accounts[i].email = accounts[j].email
        /\ accounts[i].email # None
        => {i, j} \cap changed # {} \/ accounts[i].email \in raced

\* One account per Apple ID, which appleLogin creates or puts on a document
\* it finds by the address, unless two logins with that ID overlapped.
AppleUnique ==
    \A i, j \in DOMAIN accounts :
        /\ i # j
        /\ accounts[i].appleId = accounts[j].appleId
        /\ accounts[i].appleId # None
        => accounts[i].appleId \in raced

\* A login with the address that signup was sent, spelled the same way, finds
\* the document signup created and no other, although the logins, createAdmin
\* and changes of address store addresses as they are spelled: unless the
\* document's own address was changed, another document was given this one,
\* or two handlers raced on it.
SignedUpLogsIn ==
    \A i \in DOMAIN accounts \ changed :
        LET e == accounts[i].signedUp
            found == FindOneByEmailOrUsername(e)
        IN
        e # None =>
            /\ i \in found
            /\ \A j \in found \ {i} : j \in changed \/ Lower[e] \in raced

\* After restarts, whenever they happen, and among any sign-ups there is an
\* account with the administrator's address, unless the last createAdmin
\* failed, which nobody learns of.
AdminPresent ==
    \/ <>(WithEmail(AdminEmail) # {})
    \/ <>[](job[Boot].pc = "failed")
=============================================================================
