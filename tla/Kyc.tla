-------------------------------- MODULE Kyc --------------------------------
(***************************************************************************)
(* Identity verification: kycVerification and the Onfido webhook in the    *)
(* gateway (api-gateway/src/user/user.controller.ts), kycCreateApplicant   *)
(* and findByKycIdAndUpdate in user-svc (user.service.ts).                 *)
(*                                                                         *)
(* A verification works on the user the guard attached to the request; a   *)
(* webhook asks Onfido for the current result of the check it is about.    *)
(* Both end in findByKycIdAndUpdate, a read and a save.  job[p] is what    *)
(* handler p still has to do.  Onfido is external: it keeps applicants and *)
(* checks, emits events for a check from its creation on, and delivers an  *)
(* event until it is acknowledged, and possibly again.                     *)
(***************************************************************************)
EXTENDS Integers, Sequences, FiniteSets

CONSTANTS User, Proc,
          MaxChecks,     \* bound on checks and verifications in flight
          MaxFaults      \* bound on failed calls and restarts

ASSUME KycAssumption ==
    User # {} /\ IsFiniteSet(Proc) /\ MaxChecks \in Nat /\ MaxFaults \in Nat

VARIABLES users,        \* [User -> KycFields]
          applicants,   \* Onfido: for whom each applicant was created
          checks,       \* Onfido: applicant and result of each check
          acked,        \* checks whose final event was acknowledged
          job,          \* [Proc -> Job]
          faults,       \* failed calls and restarts so far
          started,      \* history: checks started for each user
          failed,       \* history: verifications of each user that failed
          raced,        \* history: users two of whose handlers overlapped
          doubled       \* history: users for whom two handlers had both
                        \* found no applicant and not yet stored one

onfido == <<applicants, checks, acked>>
history == <<started, failed, raced, doubled>>
vars == <<users, onfido, job, faults, history>>

KycStatus == {"not_applied", "under_review", "approved", "rejected"}
Result == {"in_progress", "clear", "consider"}

KycFields == [applicant : Nat,     \* kyc_applicant_id, or 0
              status : KycStatus,
              counter : Nat]

NotApplied == [applicant |-> 0, status |-> "not_applied", counter |-> 0]

Job == [pc : {"idle", "findUser", "newApplicant", "check", "findCheck", "find",
              "save"},
        user : User,          \* whom it is about
        applicant : Nat,      \* the applicant it works with, or 0
        check : Nat,          \* the check of a webhook, or 0
        status : KycStatus,   \* the status to store
        final : BOOLEAN,      \* is the event acknowledged the final one?
        snap : KycFields]     \* the document findByKycIdAndUpdate loaded

NoJob == [pc |-> "idle", user |-> CHOOSE u \in User : TRUE, applicant |-> 0,
          check |-> 0, status |-> "not_applied", final |-> FALSE,
          snap |-> NotApplied]

Init ==
    /\ users = [u \in User |-> NotApplied]
    /\ applicants = << >> /\ checks = << >> /\ acked = {}
    /\ job = [p \in Proc |-> NoJob]
    /\ faults = 0
    /\ started = [u \in User |-> 0]
    /\ failed = [u \in User |-> 0]
    /\ raced = {} /\ doubled = {}
----------------------------------------------------------------------------
Busy(p, u) == job[p].pc # "idle" /\ job[p].user = u

\* An idle handler takes up work for u.
Begin(p, u, j) ==
    /\ job[p].pc = "idle"
    /\ job' = [job EXCEPT ![p] = j]
    /\ raced' = IF \E q \in Proc : Busy(q, u) THEN raced \cup {u} ELSE raced
    /\ UNCHANGED doubled

Goto(p, pc) == job' = [job EXCEPT ![p].pc = pc]
End(p) == job' = [job EXCEPT ![p] = NoJob]

IsVerification(p) == job[p].check = 0
Verifying(p) == job[p].pc # "idle" /\ IsVerification(p)

\* The handler of p answers with an error: a verification has failed.
GiveUp(p) ==
    /\ End(p)
    /\ failed' = IF IsVerification(p)
                 THEN [failed EXCEPT ![job[p].user] = @ + 1] ELSE failed
    /\ UNCHANGED <<users, onfido, started, raced, doubled>>
----------------------------------------------------------------------------
(* kycVerification                                                         *)

MayApplyAgain(user) == TRUE                                    \* mutant

\* "you have reached maximum attempts" otherwise.
MayApply(user) == ~ user.counter >= 1

\* The guard's snapshot passes the checks; without an applicant in it,
\* kycCreateApplicant is called.
KycVerification(p, u) ==
    LET user == users[u] IN
    /\ Len(checks) + Cardinality({q \in Proc : Verifying(q)}) < MaxChecks
    /\ MayApply(user)
    /\ Begin(p, u, [NoJob EXCEPT !.user = u, !.applicant = user.applicant,
                        !.pc = IF user.applicant = 0 THEN "findUser" ELSE "check"])
    /\ UNCHANGED <<users, onfido, faults, started, failed>>

\* u has no applicant: p goes on to create one.
ToCreate(p, u) ==
    /\ Goto(p, "newApplicant")
    /\ doubled' = IF \E q \in Proc \ {p} : Busy(q, u) /\ job[q].pc = "newApplicant"
                  THEN doubled \cup {u} ELSE doubled
    /\ UNCHANGED <<users, onfido, started, failed, raced>>

FindUserUnchecked(p) ==                \* mutant: trusts the guard's snapshot
    /\ job[p].pc = "findUser"
    /\ ToCreate(p, job[p].user)
    /\ UNCHANGED faults

\* kycCreateApplicant loads the user; "kyc account already exists" ends it.
FindUser(p) ==
    LET u == job[p].user IN
    /\ job[p].pc = "findUser"
    /\ \/ users[u].applicant = 0 /\ ToCreate(p, u)
       \/ users[u].applicant # 0 /\ GiveUp(p)
    /\ UNCHANGED faults

\* onfido.applicant.create and the save of its id.
NewApplicant(p) ==
    LET a == Len(applicants) + 1 IN
    /\ job[p].pc = "newApplicant"
    /\ applicants' = Append(applicants, job[p].user)
    /\ users' = [users EXCEPT ![job[p].user].applicant = a]
    /\ job' = [job EXCEPT ![p].pc = "check", ![p].applicant = a]
    /\ UNCHANGED <<checks, acked, faults, history>>

\* document.upload, webhook.list or create, check.create
StartCheck(p) ==
    /\ job[p].pc = "check"
    /\ checks' = Append(checks, [applicant |-> job[p].applicant,
                                 result |-> "in_progress"])
    /\ started' = [started EXCEPT ![job[p].user] = @ + 1]
    /\ job' = [job EXCEPT ![p].pc = "find", ![p].status = "under_review"]
    /\ UNCHANGED <<users, applicants, acked, faults, failed, raced, doubled>>
----------------------------------------------------------------------------
(* Onfido and its webhook                                                  *)

Conclude(c, result) ==
    /\ checks[c].result = "in_progress"
    /\ checks' = [checks EXCEPT ![c] = [@ EXCEPT !.result = result]]
    /\ UNCHANGED <<users, applicants, acked, job, faults, history>>

\* An event of the check c arrives: that it has started, or is completed.
Webhook(p, c) ==
    LET u == applicants[checks[c].applicant] IN
    /\ Begin(p, u, [NoJob EXCEPT !.pc = "findCheck", !.user = u, !.check = c,
                                 !.final = (checks[c].result # "in_progress")])
    /\ UNCHANGED <<users, onfido, faults, started, failed>>

VerdictUnlessConsider(result) ==                               \* mutant
    IF result = "consider" THEN "rejected" ELSE "approved"

\* Anything but "clear" is a rejection, a check without a result included.
Verdict(result) == IF result = "clear" THEN "approved" ELSE "rejected"

FindCheckAcking(p) ==                  \* mutant: answers before the save
    LET check == checks[job[p].check] IN
    /\ job[p].pc = "findCheck"
    /\ job' = [job EXCEPT ![p].pc = "find", ![p].applicant = check.applicant,
                          ![p].status = Verdict(check.result)]
    /\ acked' = IF job[p].final THEN acked \cup {job[p].check} ELSE acked
    /\ UNCHANGED <<users, applicants, checks, faults, history>>

\* onfido.check.find
FindCheck(p) ==
    LET check == checks[job[p].check] IN
    /\ job[p].pc = "findCheck"
    /\ job' = [job EXCEPT ![p].pc = "find", ![p].applicant = check.applicant,
                          ![p].status = Verdict(check.result)]
    /\ UNCHANGED <<users, onfido, faults, history>>
----------------------------------------------------------------------------
(* findByKycIdAndUpdate                                                    *)

\* findOne({ kyc_applicant_id }); nobody has the ID any more: a TypeError.
FindApplicant(p) ==
    LET u == job[p].user IN
    /\ job[p].pc = "find"
    /\ IF users[u].applicant = job[p].applicant
       THEN /\ job' = [job EXCEPT ![p].pc = "save", ![p].snap = users[u]]
            /\ UNCHANGED <<users, onfido, history>>
       ELSE GiveUp(p)
    /\ UNCHANGED faults

StoredCounting(old, j) ==            \* mutant: webhooks count as well
    [old EXCEPT !.status = j.status, !.counter = j.snap.counter + 1]

\* What user.save() makes of the stored document: a status equal to the
\* loaded one is not sent; only a verification increments the counter.
Stored(old, j) ==
    [old EXCEPT !.status = IF j.status = j.snap.status THEN @ ELSE j.status,
                !.counter = IF j.check = 0 THEN j.snap.counter + 1 ELSE @]

SaveStatus(p) ==
    LET j == job[p] IN
    /\ j.pc = "save"
    /\ users' = [users EXCEPT ![j.user] = Stored(@, j)]
    /\ acked' = IF j.final THEN acked \cup {j.check} ELSE acked
    /\ End(p)
    /\ UNCHANGED <<applicants, checks, faults, history>>

\* A call the handler awaits fails, or its process dies.
Fail(p) ==
    /\ job[p].pc # "idle"
    /\ faults < MaxFaults
    /\ faults' = faults + 1
    /\ GiveUp(p)

Proceed(p) == \/ FindUser(p) \/ NewApplicant(p) \/ StartCheck(p)
              \/ FindCheck(p) \/ FindApplicant(p) \/ SaveStatus(p)

Next ==
    \/ \E p \in Proc : \/ \E u \in User : KycVerification(p, u)
                       \/ \E c \in DOMAIN checks : Webhook(p, c)
                       \/ Proceed(p)
                       \/ Fail(p)
    \/ \E c \in DOMAIN checks, r \in {"clear", "consider"} : Conclude(c, r)

Spec == Init /\ [][Next]_vars

\* Handlers run, and Onfido delivers a final event until it is acknowledged,
\* however often it finds the handlers busy.
Deliver(c) == /\ c \in DOMAIN checks \ acked
              /\ checks[c].result # "in_progress"
              /\ \E p \in Proc : Webhook(p, c)

FairSpec == /\ Spec
            /\ \A p \in Proc : WF_vars(Proceed(p))
            /\ \A c \in 1 .. MaxChecks : SF_vars(Deliver(c))
----------------------------------------------------------------------------
(* Properties.                                                             *)

TypeOK ==
    /\ users \in [User -> KycFields]
    /\ applicants \in Seq(User)
    /\ checks \in Seq([applicant : Nat, result : Result])
    /\ \A c \in DOMAIN checks : checks[c].applicant \in DOMAIN applicants
    /\ acked \subseteq DOMAIN checks
    /\ job \in [Proc -> Job]
    /\ faults \in Nat
    /\ started \in [User -> Nat] /\ failed \in [User -> Nat]
    /\ raced \subseteq User /\ doubled \subseteq User

\* The checks Onfido ran on an applicant that was created for u.
ChecksOf(u) == {c \in DOMAIN checks : applicants[checks[c].applicant] = u}

\* Nobody is approved without a clear check of his own, whatever webhooks are
\* early, late, repeated or lost and whichever applicant is current by now.
ApprovedIsCleared ==
    \A u \in User : users[u].status = "approved" =>
        \E c \in ChecksOf(u) : checks[c].result = "clear"

\* The counter never runs ahead of the checks: saves that overlap lose
\* attempts but invent none.
CounterIsBacked == \A u \in User : users[u].counter <= started[u]

\* "you have reached maximum attempts": one check per user and one more for
\* each attempt that failed half way, unless handlers for him overlapped.
AttemptsBounded == \A u \in User \ raced : started[u] <= 1 + failed[u]

\* The applicant of a user is kept, so that the results of his checks find
\* him ("kyc account already exists"), although verifications are admitted on
\* snapshots: only two handlers that had both found none may replace it.
ApplicantStays ==
    [][\A u \in User \ doubled : users[u].applicant # 0 =>
          users'[u].applicant = users[u].applicant]_<<users, doubled>>

\* The result of a check reaches the user it is about and stays, although a
\* crash may lose a webhook, unless handlers for him overlapped (then
\* under_review, or an earlier result, may be stored over it).
VerdictArrives ==
    \A u \in User :
        started[u] = 1 /\ (\A c \in ChecksOf(u) : checks[c].result # "in_progress")
        ~> \/ u \in raced \/ started[u] > 1
           \/ \A c \in ChecksOf(u) : users[u].status = Verdict(checks[c].result)
=============================================================================
