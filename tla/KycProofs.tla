------------------------------ MODULE KycProofs ------------------------------
(***************************************************************************)
(* The safety properties of Kyc for any users and handlers.                *)
(* Approval: a handler that is about to store "approved" has a clear check *)
(* of its user in hand.  The counter: together with the verifications that *)
(* are still to be counted, and so does every value loaded in the          *)
(* meantime, it stays below the number of checks.                          *)
(***************************************************************************)
EXTENDS Kyc, FiniteSetTheorems, SequenceTheorems, TLAPS

\* What a handler has in hand where it is.
JobOK(j) ==
    /\ j.pc \in {"findUser", "newApplicant", "check"} => j.check = 0
    /\ j.pc = "findCheck" => j.check # 0
    /\ j.pc # "idle" /\ j.final => j.check # 0
    /\ j.pc \in {"findCheck", "find", "save"} /\ j.check # 0 =>
          /\ j.check \in DOMAIN checks
          /\ j.user = applicants[checks[j.check].applicant]
    /\ j.pc = "check" => j.applicant \in DOMAIN applicants
    /\ j.pc \in {"find", "save"} /\ j.status = "approved" =>
          j.check # 0 /\ checks[j.check].result = "clear"

JobHas ==
    /\ \A p \in Proc : JobOK(job[p])
    /\ \A u \in User : users[u].applicant # 0 =>
          users[u].applicant \in DOMAIN applicants

\* Verifications of u whose check is started and not yet counted.
Uncounted(u) == {p \in Proc : /\ job[p].user = u /\ job[p].check = 0
                              /\ job[p].pc \in {"find", "save"}}

Counted ==
    \A u \in User :
        /\ users[u].counter + Cardinality(Uncounted(u)) <= started[u]
        /\ \A p \in Uncounted(u) : job[p].pc = "save" =>
              job[p].snap.counter + Cardinality(Uncounted(u)) <= started[u]

\* Attempts of a user for whom only one handler works at a time.
AloneOf(u) ==
    /\ \A p, q \in Proc : Busy(p, u) /\ Busy(q, u) => p = q
    /\ users[u].counter <= 1
    /\ (\A p \in Proc : ~ (Busy(p, u) /\ job[p].check = 0)) =>
          started[u] <= failed[u] + users[u].counter
    /\ \A p \in Proc : Busy(p, u) /\ job[p].check = 0 =>
          /\ users[u].counter = 0
          /\ job[p].pc \in {"findUser", "newApplicant", "check"} =>
                started[u] <= failed[u]
          /\ started[u] <= failed[u] + 1
          /\ job[p].pc = "save" => job[p].snap.counter = 0

Alone == \A u \in User \ raced : AloneOf(u)

\* One handler at a time is about to create the first applicant of a user.
FirstApplicant ==
    \A u \in User \ doubled :
        /\ \A p, q \in Proc :
              /\ Busy(p, u) /\ job[p].pc = "newApplicant"
              /\ Busy(q, u) /\ job[q].pc = "newApplicant"
              => p = q
        /\ \A p \in Proc : Busy(p, u) /\ job[p].pc = "newApplicant" =>
              users[u].applicant = 0

IInv == /\ TypeOK /\ JobHas /\ ApprovedIsCleared /\ Counted /\ Alone
        /\ FirstApplicant
-----------------------------------------------------------------------------
LEMMA NoJobType == NoJob \in Job
<1>1. NotApplied \in KycFields
  BY DEF NotApplied, KycFields, KycStatus
<1>2. (CHOOSE u \in User : TRUE) \in User
  BY KycAssumption
<1> QED
  BY <1>1, <1>2 DEF NoJob, Job, KycStatus

\* Applicants and checks are only added, and a clear check stays clear.
Grows ==
    /\ DOMAIN applicants \subseteq DOMAIN applicants'
    /\ \A a \in DOMAIN applicants : applicants'[a] = applicants[a]
    /\ DOMAIN checks \subseteq DOMAIN checks'
    /\ \A c \in DOMAIN checks :
          /\ checks'[c].applicant = checks[c].applicant
          /\ checks[c].result = "clear" => checks'[c].result = "clear"

LEMMA GrowsKeeps ==
    ASSUME TypeOK, Grows
    PROVE  /\ \A j \in Job : JobOK(j) => JobOK(j)'
           /\ \A u \in User :
                 (\E c \in ChecksOf(u) : checks[c].result = "clear") =>
                 (\E c \in ChecksOf(u)' : checks'[c].result = "clear")
<1>1. \A c \in DOMAIN checks : checks[c].applicant \in DOMAIN applicants
  BY DEF TypeOK
<1>2. ASSUME NEW j \in Job, JobOK(j) PROVE JobOK(j)'
  BY <1>1, <1>2 DEF JobOK, Grows
<1>3. ASSUME NEW u \in User, NEW c \in ChecksOf(u), checks[c].result = "clear"
      PROVE  c \in ChecksOf(u)' /\ checks'[c].result = "clear"
  BY <1>1, <1>3 DEF ChecksOf, Grows
<1> QED
  BY <1>2, <1>3

\* Steps that leave the other handlers alone.
Others(p) == \A q \in Proc : q # p => job'[q] = job[q]

LEMMA UncountedTypes ==
    ASSUME NEW u
    PROVE  /\ IsFiniteSet(Uncounted(u)) /\ IsFiniteSet(Uncounted(u)')
           /\ Cardinality(Uncounted(u)) \in Nat
           /\ Cardinality(Uncounted(u)') \in Nat
<1>1. Uncounted(u) \subseteq Proc /\ Uncounted(u)' \subseteq Proc
  BY DEF Uncounted
<1> QED
  BY <1>1, KycAssumption, FS_Subset, FS_CardinalityType

\* A verification of u that is not yet counted leaves the set.
LEMMA UncountedLeaves ==
    ASSUME NEW p \in Proc, NEW u, Others(p), p \in Uncounted(u), p \notin Uncounted(u)'
    PROVE  Cardinality(Uncounted(u)') = Cardinality(Uncounted(u)) - 1
<1>1. Uncounted(u)' = Uncounted(u) \ {p}
  BY DEF Uncounted, Others
<1> QED
  BY <1>1, UncountedTypes, FS_RemoveElement

LEMMA UncountedStays ==
    ASSUME NEW p \in Proc, NEW u, Others(p), p \in Uncounted(u) <=> p \in Uncounted(u)'
    PROVE  Uncounted(u)' = Uncounted(u)
  BY DEF Uncounted, Others

\* What a step has to show of each part of IInv beyond its own business.
LEMMA JobHasStep ==
    ASSUME TypeOK, JobHas, Grows, NEW p \in Proc, Others(p), JobOK(job[p])',
           \A u \in User : users'[u].applicant = users[u].applicant
                           \/ users'[u].applicant \in DOMAIN applicants'
    PROVE  JobHas'
<1>1. ASSUME NEW q \in Proc, q # p PROVE JobOK(job[q])'
  <2>1. job'[q] = job[q] /\ job[q] \in Job
    BY <1>1 DEF Others, TypeOK
  <2>2. JobOK(job[q])
    BY DEF JobHas
  <2>3. \A j \in Job : JobOK(j) => JobOK(j)'
    BY GrowsKeeps
  <2>4. ASSUME NEW j \in Job, j = job[q], JobOK(j)' PROVE JobOK(job[q])'
    BY <2>1, <2>4 DEF JobOK
  <2> QED
    BY <2>1, <2>2, <2>3, <2>4 DEF JobOK
<1>2. \A u \in User : users'[u].applicant # 0 =>
         users'[u].applicant \in DOMAIN applicants'
  BY DEF JobHas, Grows
<1> QED
  BY <1>1, <1>2 DEF JobHas

LEMMA ApprovedStep ==
    ASSUME TypeOK, ApprovedIsCleared, Grows,
           \A u \in User : users'[u].status = "approved" =>
              \/ users[u].status = "approved"
              \/ \E c \in ChecksOf(u) : checks[c].result = "clear"
    PROVE  ApprovedIsCleared'
  BY GrowsKeeps DEF ApprovedIsCleared

LEMMA CountedStep ==
    ASSUME TypeOK, Counted, UNCHANGED started, NEW p \in Proc, Others(p),
           \A u \in User : p \notin Uncounted(u)',
           \A u \in User :
              \/ users'[u].counter = users[u].counter
              \/ /\ p \in Uncounted(u) /\ job[p].pc = "save"
                 /\ users'[u].counter = job[p].snap.counter + 1
    PROVE  Counted'
<1> SUFFICES ASSUME NEW u \in User
             PROVE  /\ users'[u].counter + Cardinality(Uncounted(u)') <= started[u]
                    /\ \A q \in Uncounted(u)' : job'[q].pc = "save" =>
                          job'[q].snap.counter + Cardinality(Uncounted(u)')
                             <= started[u]
  BY DEF Counted
<1>1. /\ users[u].counter \in Nat /\ started[u] \in Nat
      /\ \A q \in Proc : job[q].snap.counter \in Nat
      /\ Cardinality(Uncounted(u)) \in Nat
  BY UncountedTypes DEF TypeOK, KycFields, Job
<1>2. \A q \in Uncounted(u)' : q \in Uncounted(u) /\ job'[q] = job[q]
  BY DEF Uncounted, Others
<1>3. CASE p \in Uncounted(u)
  <2>1. Cardinality(Uncounted(u)') = Cardinality(Uncounted(u)) - 1
    BY <1>3, UncountedLeaves
  <2>2. /\ users[u].counter + Cardinality(Uncounted(u)) <= started[u]
        /\ \A q \in Uncounted(u) : job[q].pc = "save" =>
              job[q].snap.counter + Cardinality(Uncounted(u)) <= started[u]
    BY DEF Counted
  <2>3. users'[u].counter + Cardinality(Uncounted(u)') <= started[u]
    <3>1. CASE users'[u].counter = users[u].counter
      BY <1>1, <2>1, <2>2, <3>1
    <3>2. CASE job[p].pc = "save" /\ users'[u].counter = job[p].snap.counter + 1
      BY <1>1, <1>3, <2>1, <2>2, <3>2
    <3> QED
      BY <3>1, <3>2
  <2>4. ASSUME NEW q \in Uncounted(u)', job'[q].pc = "save"
        PROVE  job'[q].snap.counter + Cardinality(Uncounted(u)') <= started[u]
    <3>1. q \in Proc
      BY DEF Uncounted
    <3>2. job[q].snap.counter + Cardinality(Uncounted(u)) <= started[u]
      BY <1>2, <2>2, <2>4
    <3> QED
      BY <1>1, <1>2, <2>1, <3>1, <3>2
  <2> QED
    BY <2>3, <2>4
<1>4. CASE p \notin Uncounted(u)
  <2>1. Uncounted(u)' = Uncounted(u)
    BY <1>4, UncountedStays
  <2> QED
    BY <1>1, <1>2, <1>4, <2>1 DEF Counted
<1> QED
  BY <1>3, <1>4

\* p has nothing to do with u, before or after.
LEMMA AloneStep ==
    ASSUME NEW u \in User, AloneOf(u), NEW p \in Proc, Others(p),
           ~ Busy(p, u), ~ Busy(p, u)', users'[u].counter = users[u].counter,
           started'[u] = started[u], failed'[u] = failed[u]
    PROVE  AloneOf(u)'
<1>1. \A q \in Proc : /\ Busy(q, u)' <=> Busy(q, u)
                      /\ Busy(q, u) => job'[q] = job[q]
  BY DEF Busy, Others
<1> QED
  BY <1>1 DEF AloneOf

LEMMA FirstStep ==
    ASSUME FirstApplicant, UNCHANGED doubled, NEW p \in Proc, Others(p),
           job'[p].pc # "newApplicant",
           \A u \in User : users'[u].applicant = users[u].applicant
    PROVE  FirstApplicant'
  BY DEF FirstApplicant, Busy, Others

LEMMA OnfidoStays == ASSUME UNCHANGED <<applicants, checks>> PROVE Grows
  BY DEF Grows
-----------------------------------------------------------------------------
\* A handler takes up work: it is alone for its user, or they have raced.
LEMMA BeginIInv ==
    ASSUME IInv, NEW p \in Proc, NEW u \in User, NEW j \in Job, Begin(p, u, j),
           j.user = u, j.pc \in {"findUser", "check", "findCheck"}, JobOK(j),
           j.check = 0 => users[u].counter = 0,
           UNCHANGED <<users, onfido, faults, started, failed>>
    PROVE  IInv'
<1> USE DEF IInv
<1>1. /\ job[p].pc = "idle" /\ job' \in [Proc -> Job] /\ job'[p] = j
      /\ Others(p) /\ UNCHANGED <<applicants, checks, acked, doubled>>
      /\ raced' = IF \E q \in Proc : Busy(q, u) THEN raced \cup {u} ELSE raced
  BY DEF Begin, TypeOK, Others, onfido
<1>2. TypeOK'
  BY <1>1 DEF TypeOK
<1>3. Grows
  BY <1>1, OnfidoStays
<1>4. JobHas'
  <2>1. JobOK(job[p])'
    BY <1>1 DEF JobOK
  <2> QED
    BY <1>1, <1>3, <2>1, JobHasStep
<1>5. ApprovedIsCleared'
  BY <1>3, ApprovedStep
<1>6. Counted'
  <2>1. \A v \in User : p \notin Uncounted(v)'
    BY <1>1 DEF Uncounted
  <2> QED
    BY <1>1, <2>1, CountedStep
<1>7. Alone'
  <2> SUFFICES ASSUME NEW v \in User \ raced' PROVE AloneOf(v)'
    BY DEF Alone
  <2>1. AloneOf(v)
    BY <1>1 DEF Alone
  <2>2. CASE v # u
    <3>1. ~ Busy(p, v) /\ ~ Busy(p, v)'
      BY <1>1, <2>2 DEF Busy
    <3> QED
      BY <1>1, <2>1, <3>1, AloneStep
  <2>3. CASE v = u
    <3>1. \A q \in Proc : ~ Busy(q, u)
      BY <1>1, <2>3
    <3>2. \A q \in Proc : Busy(q, u)' => q = p
      BY <1>1, <3>1 DEF Busy, Others
    <3>3. /\ users[u].counter \in Nat /\ started[u] \in Nat /\ failed[u] \in Nat
          /\ users[u].counter <= 1 /\ started[u] <= failed[u] + users[u].counter
      BY <2>1, <2>3, <3>1 DEF AloneOf, TypeOK, KycFields
    <3>4. users' = users /\ started' = started /\ failed' = failed
      OBVIOUS
    <3>5. job'[p].pc \in {"findUser", "check", "findCheck"}
          /\ (job'[p].check = 0 => users[u].counter = 0)
      BY <1>1
    <3> QED
      BY <2>3, <3>2, <3>3, <3>4, <3>5 DEF AloneOf
  <2> QED
    BY <2>2, <2>3
<1>8. FirstApplicant'
  BY <1>1, FirstStep
<1> QED
  BY <1>2, <1>4, <1>5, <1>6, <1>7, <1>8

LEMMA KycVerificationIInv ==
    ASSUME IInv, NEW p \in Proc, NEW u \in User, KycVerification(p, u)
    PROVE  IInv'
<1> USE DEF IInv
<1> DEFINE a == users[u].applicant
           pc == IF a = 0 THEN "findUser" ELSE "check"
           j == [NoJob EXCEPT !.user = u, !.applicant = a, !.pc = pc]
<1>1. /\ Begin(p, u, j) /\ UNCHANGED <<users, onfido, faults, started, failed>>
      /\ ~ users[u].counter >= 1
  BY DEF KycVerification, MayApply
<1>2. a # 0 => a \in DOMAIN applicants
  BY DEF JobHas
<1>3. users[u].counter = 0
  BY <1>1, <1>2 DEF TypeOK, KycFields
<1>4. /\ j \in Job /\ j.user = u /\ j.check = 0 /\ j.pc = pc
      /\ j.applicant = a /\ j.final = FALSE
  <2>1. a \in Nat
    BY DEF TypeOK, KycFields
  <2>2. NoJob.check = 0 /\ NoJob.final = FALSE
    BY DEF NoJob
  <2> QED
    BY <2>1, <2>2, NoJobType DEF Job
<1>5. JobOK(j)
  BY <1>2, <1>4 DEF JobOK
<1> HIDE DEF j
<1> QED
  BY <1>1, <1>3, <1>4, <1>5, BeginIInv

LEMMA WebhookIInv ==
    ASSUME IInv, NEW p \in Proc, NEW c \in DOMAIN checks, Webhook(p, c)
    PROVE  IInv'
<1> USE DEF IInv
<1> DEFINE u == applicants[checks[c].applicant]
           j == [NoJob EXCEPT !.pc = "findCheck", !.user = u, !.check = c,
                              !.final = (checks[c].result # "in_progress")]
<1>1. Begin(p, u, j) /\ UNCHANGED <<users, onfido, faults, started, failed>>
  BY DEF Webhook
<1>2. u \in User /\ c \in Nat /\ c # 0
  BY DEF TypeOK
<1>3. j \in Job /\ j.user = u /\ j.check = c /\ j.pc = "findCheck"
  BY <1>2, NoJobType DEF Job
<1>4. JobOK(j)
  BY <1>2, <1>3 DEF JobOK
<1> HIDE DEF j
<1> QED
  BY <1>1, <1>2, <1>3, <1>4, BeginIInv

\* A handler that gives up.  A verification that does is an attempt failed.
LEMMA GiveUpIInv ==
    ASSUME IInv, NEW p \in Proc, GiveUp(p), job[p].pc # "idle",
           faults' \in Nat
    PROVE  IInv'
<1> USE DEF IInv
<1> DEFINE u == job[p].user
<1>1. /\ job' \in [Proc -> Job] /\ job'[p].pc = "idle" /\ Others(p)
      /\ UNCHANGED <<users, applicants, checks, acked, started, raced, doubled>>
      /\ failed' = IF job[p].check = 0 THEN [failed EXCEPT ![u] = @ + 1]
                   ELSE failed
      /\ u \in User
  BY NoJobType
  DEF GiveUp, End, NoJob, Others, TypeOK, Job, onfido, IsVerification
<1>2. TypeOK'
  <2>1. failed' \in [User -> Nat]
    BY <1>1 DEF TypeOK
  <2> QED
    BY <1>1, <2>1 DEF TypeOK
<1>3. Grows
  BY <1>1, OnfidoStays
<1>4. JobHas'
  <2>1. JobOK(job[p])'
    BY <1>1 DEF JobOK
  <2> QED
    BY <1>1, <1>3, <2>1, JobHasStep
<1>5. ApprovedIsCleared'
  BY <1>1, <1>3, ApprovedStep
<1>6. Counted'
  <2>1. \A v \in User : p \notin Uncounted(v)'
    BY <1>1 DEF Uncounted
  <2> QED
    BY <1>1, <2>1, CountedStep
<1>7. Alone'
  <2> SUFFICES ASSUME NEW v \in User \ raced PROVE AloneOf(v)'
    BY <1>1 DEF Alone
  <2>1. AloneOf(v) /\ ~ Busy(p, v)'
    BY <1>1 DEF Alone, Busy
  <2>2. CASE v # u
    <3>1. ~ Busy(p, v) /\ failed'[v] = failed[v]
      BY <1>1, <2>2 DEF Busy, TypeOK
    <3> QED
      BY <1>1, <2>1, <3>1, AloneStep
  <2>3. CASE v = u
    <3>1. Busy(p, u)
      BY DEF Busy
    <3>2. \A q \in Proc : (Busy(q, v) => q = p) /\ ~ Busy(q, v)'
      <4>1. \A q \in Proc : Busy(q, v) => q = p
        BY <2>1, <2>3, <3>1 DEF AloneOf
      <4> QED
        BY <1>1, <4>1 DEF Busy, Others
    <3>3. /\ users[u].counter \in Nat /\ started[u] \in Nat /\ failed[u] \in Nat
          /\ users[u].counter <= 1
      BY <2>1, <2>3 DEF AloneOf, TypeOK, KycFields
    <3>4. started[u] <= failed'[u] + users[u].counter
      <4>1. CASE job[p].check = 0
        <5>1. failed'[u] = failed[u] + 1
          BY <1>1, <4>1 DEF TypeOK
        <5>2. started[u] <= failed[u] + 1
          BY <2>1, <2>3, <3>1, <4>1 DEF AloneOf
        <5> QED
          BY <3>3, <5>1, <5>2
      <4>2. CASE job[p].check # 0
        <5>1. \A q \in Proc : ~ (Busy(q, u) /\ job[q].check = 0)
          BY <2>3, <3>2, <4>2
        <5> QED
          BY <1>1, <2>1, <2>3, <4>2, <5>1 DEF AloneOf
      <4> QED
        BY <4>1, <4>2
    <3> QED
      BY <1>1, <2>3, <3>2, <3>3, <3>4 DEF AloneOf
  <2> QED
    BY <2>2, <2>3
<1>8. FirstApplicant'
  BY <1>1, FirstStep
<1> QED
  BY <1>2, <1>4, <1>5, <1>6, <1>7, <1>8

\* Two handlers that have both found no applicant are in doubled from then on.
LEMMA ToCreateIInv ==
    ASSUME IInv, NEW p \in Proc, job[p].pc = "findUser",
           users[job[p].user].applicant = 0, ToCreate(p, job[p].user),
           UNCHANGED faults
    PROVE  IInv'
<1> USE DEF IInv
<1> DEFINE u == job[p].user
<1>1. /\ job' \in [Proc -> Job] /\ Others(p)
      /\ job'[p].pc = "newApplicant" /\ job'[p].user = u
      /\ job'[p].check = job[p].check /\ job'[p].final = job[p].final
      /\ UNCHANGED <<users, applicants, checks, acked, started, failed, raced>>
      /\ doubled' = IF \E q \in Proc \ {p} :
                          Busy(q, u) /\ job[q].pc = "newApplicant"
                    THEN doubled \cup {u} ELSE doubled
      /\ u \in User /\ job[p].check = 0 /\ job[p].final = FALSE
  BY DEF ToCreate, Goto, Others, TypeOK, Job, onfido, JobHas, JobOK
<1>2. TypeOK'
  BY <1>1 DEF TypeOK
<1>3. Grows
  BY <1>1, OnfidoStays
<1>4. JobHas'
  <2>1. JobOK(job[p])'
    BY <1>1 DEF JobOK
  <2> QED
    BY <1>1, <1>3, <2>1, JobHasStep
<1>5. ApprovedIsCleared'
  BY <1>1, <1>3, ApprovedStep
<1>6. Counted'
  <2>1. \A v \in User : p \notin Uncounted(v)'
    BY <1>1 DEF Uncounted
  <2> QED
    BY <1>1, <2>1, CountedStep
<1>7. Alone'
  <2>1. \A q \in Proc, v \in User : /\ Busy(q, v)' <=> Busy(q, v)
                                    /\ job'[q].check = job[q].check
                                    /\ q # p => job'[q] = job[q]
    BY <1>1 DEF Busy, Others
  <2> QED
    BY <1>1, <2>1 DEF Alone, AloneOf
<1>8. FirstApplicant'
  <2> SUFFICES ASSUME NEW v \in User \ doubled'
               PROVE  /\ \A q, r \in Proc :
                            /\ Busy(q, v)' /\ job'[q].pc = "newApplicant"
                            /\ Busy(r, v)' /\ job'[r].pc = "newApplicant"
                            => q = r
                      /\ \A q \in Proc :
                            Busy(q, v)' /\ job'[q].pc = "newApplicant" =>
                               users'[v].applicant = 0
    BY DEF FirstApplicant
  <2>1. v \notin doubled
    BY <1>1
  <2>2. CASE v = u
    <3>1. \A q \in Proc \ {p} : ~ (Busy(q, u) /\ job[q].pc = "newApplicant")
      BY <1>1, <2>2
    <3> QED
      BY <1>1, <2>2, <3>1 DEF Busy, Others
  <2>3. CASE v # u
    BY <1>1, <2>1, <2>3 DEF FirstApplicant, Busy, Others
  <2> QED
    BY <2>2, <2>3
<1> QED
  BY <1>2, <1>4, <1>5, <1>6, <1>7, <1>8

BeforeCheck == {"findUser", "newApplicant", "check"}

\* A handler that goes on with its work.
LEMMA MoveAlone ==
    ASSUME TypeOK, Alone, NEW p \in Proc, Others(p), UNCHANGED <<raced, failed>>,
           job[p].pc # "idle", job'[p].pc # "idle",
           job'[p].user = job[p].user, job'[p].check = job[p].check,
           \A v \in User : users'[v].counter = users[v].counter,
           \/ started' = started
           \/ /\ job[p].pc = "check" /\ job[p].check = 0 /\ job'[p].pc = "find"
              /\ started' = [started EXCEPT ![job[p].user] = @ + 1],
           job'[p].pc \in BeforeCheck => job[p].pc \in BeforeCheck,
           job'[p].pc = "save" =>
              job'[p].snap.counter = users[job[p].user].counter
    PROVE  Alone'
<1> SUFFICES ASSUME NEW v \in User \ raced PROVE AloneOf(v)'
  BY DEF Alone
<1>1. AloneOf(v)
  BY DEF Alone
<1>2. /\ \A q \in Proc : /\ Busy(q, v)' <=> Busy(q, v)
                         /\ job'[q].check = job[q].check
                         /\ q # p => job'[q] = job[q]
      /\ job[p].user \in User
  BY DEF Busy, Others, TypeOK, Job
<1>3. CASE started'[v] = started[v]
  <2>1. ASSUME NEW q \in Proc, Busy(q, v), job[q].check = 0
        PROVE  /\ job'[q].pc \in BeforeCheck => job[q].pc \in BeforeCheck
               /\ job'[q].pc = "save" => job'[q].snap.counter = 0
    <3>1. CASE q = p
      <4>1. job[p].user = v /\ users[v].counter = 0
        BY <1>1, <2>1, <3>1 DEF Busy, AloneOf
      <4> QED
        BY <3>1, <4>1
    <3>2. CASE q # p
      BY <1>1, <1>2, <2>1, <3>2 DEF AloneOf
    <3> QED
      BY <3>1, <3>2
  <2> QED
    BY <1>1, <1>2, <1>3, <2>1 DEF AloneOf, BeforeCheck
<1>4. CASE started'[v] # started[v]
  <2>1. /\ job[p].pc = "check" /\ job[p].check = 0 /\ job'[p].pc = "find"
        /\ job[p].user = v /\ started'[v] = started[v] + 1
    BY <1>2, <1>4 DEF TypeOK
  <2>2. Busy(p, v)
    BY <2>1 DEF Busy
  <2>3. \A q \in Proc : Busy(q, v)' => q = p
    BY <1>1, <1>2, <2>2 DEF AloneOf
  <2>4. started[v] <= failed[v] /\ users[v].counter = 0
    BY <1>1, <2>1, <2>2 DEF AloneOf
  <2>5. started[v] \in Nat /\ failed[v] \in Nat
    BY DEF TypeOK
  <2>6. Busy(p, v)' /\ job'[p].check = 0
    BY <1>2, <2>1, <2>2
  <2> QED
    BY <2>1, <2>3, <2>4, <2>5, <2>6 DEF AloneOf
<1> QED
  BY <1>3, <1>4

LEMMA NewApplicantIInv ==
    ASSUME IInv, NEW p \in Proc, NewApplicant(p)
    PROVE  IInv'
<1> USE DEF IInv
<1> DEFINE u == job[p].user
           a == Len(applicants) + 1
<1>1. /\ job[p].pc = "newApplicant" /\ job[p].check = 0 /\ job[p].final = FALSE
      /\ u \in User /\ job[p] \in Job
  BY DEF NewApplicant, JobHas, JobOK, TypeOK, Job
<1>2. /\ applicants' = Append(applicants, u)
      /\ users' = [users EXCEPT ![u].applicant = a]
      /\ job' = [job EXCEPT ![p].pc = "check", ![p].applicant = a]
      /\ UNCHANGED <<checks, acked, faults, history>>
  BY DEF NewApplicant
<1>3. /\ applicants' \in Seq(User) /\ a \in Nat
      /\ DOMAIN applicants' = DOMAIN applicants \cup {a}
      /\ \A b \in DOMAIN applicants : applicants'[b] = applicants[b]
  <2>1. applicants \in Seq(User)
    BY DEF TypeOK
  <2> QED
    BY <1>1, <1>2, <2>1, AppendProperties
<1> HIDE DEF a
<1>4. /\ job' \in [Proc -> Job] /\ Others(p) /\ job'[p].pc = "check"
      /\ job'[p].user = u /\ job'[p].check = 0 /\ job'[p].applicant = a
      /\ job'[p].final = FALSE
  BY <1>1, <1>2, <1>3 DEF Others, TypeOK, Job
<1>5. /\ users' \in [User -> KycFields]
      /\ \A v \in User :
            /\ users'[v].status = users[v].status
            /\ users'[v].counter = users[v].counter
            /\ users'[v].applicant = IF v = u THEN a ELSE users[v].applicant
  BY <1>1, <1>2, <1>3 DEF TypeOK, KycFields
<1>6. TypeOK'
  <2>1. UNCHANGED <<checks, acked, faults, started, failed, raced, doubled>>
    BY <1>2 DEF history
  <2> QED
    BY <1>3, <1>4, <1>5, <2>1 DEF TypeOK
<1>7. Grows
  BY <1>2, <1>3 DEF Grows
<1>8. JobHas'
  <2>1. JobOK(job[p])'
    BY <1>3, <1>4 DEF JobOK
  <2>2. \A v \in User : users'[v].applicant = users[v].applicant
                        \/ users'[v].applicant \in DOMAIN applicants'
    BY <1>3, <1>5
  <2> QED
    BY <1>4, <1>7, <2>1, <2>2, JobHasStep
<1>9. ApprovedIsCleared'
  BY <1>5, <1>7, ApprovedStep
<1>10. Counted'
  <2>1. \A v \in User : p \notin Uncounted(v)'
    BY <1>4 DEF Uncounted
  <2> QED
    BY <1>2, <1>4, <1>5, <2>1, CountedStep DEF history
<1>11. Alone'
  BY <1>1, <1>2, <1>4, <1>5, MoveAlone DEF history, BeforeCheck
<1>12. FirstApplicant'
  <2> SUFFICES ASSUME NEW v \in User \ doubled
               PROVE  /\ \A q, r \in Proc :
                            /\ Busy(q, v)' /\ job'[q].pc = "newApplicant"
                            /\ Busy(r, v)' /\ job'[r].pc = "newApplicant"
                            => q = r
                      /\ \A q \in Proc :
                            Busy(q, v)' /\ job'[q].pc = "newApplicant" =>
                               users'[v].applicant = 0
    BY <1>2 DEF FirstApplicant, history
  <2>1. \A q \in Proc : Busy(q, v)' /\ job'[q].pc = "newApplicant" =>
           q # p /\ Busy(q, v) /\ job[q].pc = "newApplicant"
    BY <1>4 DEF Busy, Others
  <2>2. CASE v = u
    <3>1. Busy(p, v)
      BY <1>1, <2>2 DEF Busy
    <3> QED
      BY <1>1, <2>1, <3>1 DEF FirstApplicant
  <2>3. CASE v # u
    BY <1>5, <2>1, <2>3 DEF FirstApplicant
  <2> QED
    BY <2>2, <2>3
<1> QED
  BY <1>6, <1>8, <1>9, <1>10, <1>11, <1>12

\* A check more, and a verification more that is to be counted.
LEMMA StartCheckIInv ==
    ASSUME IInv, NEW p \in Proc, StartCheck(p)
    PROVE  IInv'
<1> USE DEF IInv
<1> DEFINE u == job[p].user
           n == Len(checks) + 1
           check == [applicant |-> job[p].applicant, result |-> "in_progress"]
<1>1. /\ job[p].pc = "check" /\ job[p].check = 0 /\ job[p].final = FALSE
      /\ job[p].applicant \in DOMAIN applicants
      /\ u \in User /\ job[p] \in Job
  BY DEF StartCheck, JobHas, JobOK, TypeOK, Job
<1>2. /\ checks' = Append(checks, check)
      /\ started' = [started EXCEPT ![u] = @ + 1]
      /\ job' = [job EXCEPT ![p].pc = "find", ![p].status = "under_review"]
      /\ UNCHANGED <<users, applicants, acked, faults, failed, raced, doubled>>
  BY DEF StartCheck
<1>3. /\ checks' \in Seq([applicant : Nat, result : Result])
      /\ DOMAIN checks' = DOMAIN checks \cup {n} /\ n \notin DOMAIN checks
      /\ \A c \in DOMAIN checks : checks'[c] = checks[c]
      /\ checks'[n].applicant = job[p].applicant
  <2>1. checks \in Seq([applicant : Nat, result : Result])
    BY DEF TypeOK
  <2>2. check \in [applicant : Nat, result : Result]
    BY <1>1 DEF Job, Result
  <2> HIDE DEF check
  <2>3. /\ checks' \in Seq([applicant : Nat, result : Result])
        /\ DOMAIN checks' = DOMAIN checks \cup {n} /\ n \notin DOMAIN checks
        /\ \A c \in DOMAIN checks : checks'[c] = checks[c]
        /\ checks'[n] = check
    BY <1>2, <2>1, <2>2, AppendProperties
  <2> QED
    BY <2>3 DEF check
<1> HIDE DEF n, check
<1>4. /\ job' \in [Proc -> Job] /\ Others(p) /\ job'[p].pc = "find"
      /\ job'[p].user = u /\ job'[p].check = 0
      /\ job'[p].status = "under_review" /\ job'[p].final = FALSE
  BY <1>1, <1>2 DEF Others, TypeOK, Job, KycStatus
<1>5. /\ started' \in [User -> Nat]
      /\ \A v \in User : started'[v] = IF v = u THEN started[v] + 1 ELSE started[v]
  BY <1>1, <1>2 DEF TypeOK
<1>6. TypeOK'
  <2>1. \A c \in DOMAIN checks' : checks'[c].applicant \in DOMAIN applicants
    BY <1>1, <1>3 DEF TypeOK
  <2> QED
    BY <1>2, <1>3, <1>4, <1>5, <2>1 DEF TypeOK
<1>7. Grows
  BY <1>2, <1>3 DEF Grows
<1>8. JobHas'
  <2>1. JobOK(job[p])'
    BY <1>4 DEF JobOK
  <2> QED
    BY <1>2, <1>4, <1>7, <2>1, JobHasStep
<1>9. ApprovedIsCleared'
  BY <1>2, <1>7, ApprovedStep
<1>10. Counted'
  <2> SUFFICES ASSUME NEW v \in User
               PROVE  /\ users[v].counter + Cardinality(Uncounted(v)')
                            <= started'[v]
                      /\ \A q \in Uncounted(v)' : job'[q].pc = "save" =>
                            job'[q].snap.counter + Cardinality(Uncounted(v)')
                               <= started'[v]
    BY <1>2 DEF Counted
  <2>1. /\ users[v].counter \in Nat /\ started[v] \in Nat
        /\ \A q \in Proc : job[q].snap.counter \in Nat
        /\ Cardinality(Uncounted(v)) \in Nat /\ IsFiniteSet(Uncounted(v))
    BY UncountedTypes DEF TypeOK, KycFields, Job
  <2>2. /\ users[v].counter + Cardinality(Uncounted(v)) <= started[v]
        /\ \A q \in Uncounted(v) : job[q].pc = "save" =>
              job[q].snap.counter + Cardinality(Uncounted(v)) <= started[v]
    BY DEF Counted
  <2>3. CASE v = u
    <3>1. Uncounted(v)' = Uncounted(v) \cup {p} /\ p \notin Uncounted(v)
      BY <1>1, <1>4, <2>3 DEF Uncounted, Others
    <3>2. Cardinality(Uncounted(v)') = Cardinality(Uncounted(v)) + 1
      BY <2>1, <3>1, FS_AddElement
    <3>3. started'[v] = started[v] + 1
      BY <1>5, <2>3
    <3>4. ASSUME NEW q \in Uncounted(v)', job'[q].pc = "save"
          PROVE  job'[q].snap.counter + Cardinality(Uncounted(v)') <= started'[v]
      <4>1. q \in Uncounted(v) /\ q \in Proc /\ job'[q] = job[q]
        BY <1>4, <3>1, <3>4 DEF Uncounted, Others
      <4> QED
        BY <2>1, <2>2, <3>2, <3>3, <3>4, <4>1
    <3> QED
      BY <2>1, <2>2, <3>2, <3>3, <3>4
  <2>4. CASE v # u
    <3>1. Uncounted(v)' = Uncounted(v) /\ p \notin Uncounted(v)
      BY <1>4, <2>4 DEF Uncounted, Others
    <3>2. \A q \in Uncounted(v)' : job'[q] = job[q]
      BY <1>4, <3>1 DEF Uncounted, Others
    <3> QED
      BY <1>5, <2>2, <2>4, <3>1, <3>2
  <2> QED
    BY <2>3, <2>4
<1>11. Alone'
  BY <1>1, <1>2, <1>4, MoveAlone DEF BeforeCheck
<1>12. FirstApplicant'
  BY <1>2, <1>4, FirstStep
<1> QED
  BY <1>6, <1>8, <1>9, <1>10, <1>11, <1>12

\* A result is for a check that has none: a clear one is final.
LEMMA ConcludeIInv ==
    ASSUME IInv, NEW c \in DOMAIN checks, NEW result \in {"clear", "consider"},
           Conclude(c, result)
    PROVE  IInv'
<1> USE DEF IInv
<1> DEFINE check == [checks[c] EXCEPT !.result = result]
<1>1. /\ checks' = [checks EXCEPT ![c] = check]
      /\ checks[c].result = "in_progress"
      /\ UNCHANGED <<users, applicants, acked, job, faults, started, failed,
                     raced, doubled>>
  BY DEF Conclude, history
<1>2. checks \in Seq([applicant : Nat, result : Result])
  BY DEF TypeOK
<1>3. /\ check \in [applicant : Nat, result : Result]
      /\ check.applicant = checks[c].applicant
  <2>1. checks[c] \in [applicant : Nat, result : Result]
    <3>1. c \in 1 .. Len(checks)
      BY <1>2
    <3> QED
      BY <1>2, <3>1, ElementOfSeq
  <2> QED
    BY <2>1 DEF Result
<1> HIDE DEF check
<1>4. /\ checks' \in Seq([applicant : Nat, result : Result])
      /\ DOMAIN checks' = DOMAIN checks
      /\ checks'[c] = check
      /\ \A d \in DOMAIN checks : d # c => checks'[d] = checks[d]
  <2>1. c \in 1 .. Len(checks)
    BY <1>2
  <2> QED
    BY <1>1, <1>2, <1>3, <2>1, ExceptSeq
<1>5. \A d \in DOMAIN checks :
         /\ checks'[d].applicant = checks[d].applicant
         /\ checks[d].result = "clear" => checks'[d].result = "clear"
  BY <1>1, <1>3, <1>4
<1>6. TypeOK'
  BY <1>1, <1>4, <1>5 DEF TypeOK
<1>7. Grows
  BY <1>1, <1>4, <1>5 DEF Grows
<1>8. JobHas'
  <2>1. ASSUME NEW p \in Proc PROVE JobHas'
    <3>1. JobOK(job[p])'
      BY <1>1, <1>7, GrowsKeeps DEF JobHas, TypeOK, JobOK
    <3>2. Others(p)
      BY <1>1 DEF Others
    <3> QED
      BY <1>1, <1>7, <3>1, <3>2, JobHasStep
  <2>2. CASE Proc = {}
    BY <1>1, <2>2 DEF JobHas
  <2> QED
    BY <2>1, <2>2
<1>9. ApprovedIsCleared'
  BY <1>1, <1>7, ApprovedStep
<1>10. Counted' /\ Alone' /\ FirstApplicant'
  BY <1>1 DEF Counted, Uncounted, Alone, AloneOf, FirstApplicant, Busy
<1> QED
  BY <1>6, <1>8, <1>9, <1>10

\* A handler that has a result in hand has it of a check of its user.
LEMMA FindCheckIInv ==
    ASSUME IInv, NEW p \in Proc, FindCheck(p)
    PROVE  IInv'
<1> USE DEF IInv
<1> DEFINE u == job[p].user
           c == job[p].check
           a == checks[c].applicant
           status == Verdict(checks[c].result)
<1>1. /\ job[p].pc = "findCheck" /\ c # 0 /\ c \in DOMAIN checks
      /\ u = applicants[checks[c].applicant] /\ job[p] \in Job /\ u \in User
  BY DEF FindCheck, JobHas, JobOK, TypeOK, Job
<1>2. /\ job' = [job EXCEPT ![p].pc = "find", ![p].applicant = a,
                            ![p].status = status]
      /\ UNCHANGED <<users, onfido, faults, history>>
  BY DEF FindCheck
<1>3. a \in Nat /\ status \in KycStatus
      /\ (status = "approved" => checks[c].result = "clear")
  <2>1. checks[c] \in [applicant : Nat, result : Result]
    <3>1. checks \in Seq([applicant : Nat, result : Result])
      BY DEF TypeOK
    <3>2. c \in 1 .. Len(checks)
      BY <1>1, <3>1
    <3> QED
      BY <3>1, <3>2, ElementOfSeq
  <2> QED
    BY <2>1 DEF KycStatus, Verdict
<1>4. UNCHANGED <<users, applicants, checks, acked, faults, started, failed,
                  raced, doubled>>
  BY <1>2 DEF onfido, history
<1>5. /\ job' \in [Proc -> Job] /\ Others(p) /\ job'[p].pc = "find"
      /\ job'[p].user = u /\ job'[p].check = c /\ job'[p].status = status
  <2> HIDE DEF a, status
  <2> QED
    BY <1>1, <1>2, <1>3 DEF Others, TypeOK, Job
<1>6. TypeOK'
  BY <1>4, <1>5 DEF TypeOK
<1>7. Grows
  BY <1>4, OnfidoStays
<1>8. JobHas'
  <2>1. JobOK(job[p])'
    <3> HIDE DEF status
    <3> QED
      BY <1>1, <1>3, <1>4, <1>5 DEF JobOK
  <2> QED
    BY <1>4, <1>5, <1>7, <2>1, JobHasStep
<1>9. ApprovedIsCleared'
  BY <1>4, <1>7, ApprovedStep
<1>10. Counted'
  <2>1. \A v \in User : p \notin Uncounted(v)'
    BY <1>1, <1>5 DEF Uncounted
  <2> QED
    BY <1>4, <1>5, <2>1, CountedStep
<1>11. Alone'
  BY <1>1, <1>4, <1>5, MoveAlone DEF BeforeCheck
<1>12. FirstApplicant'
  BY <1>4, <1>5, FirstStep
<1> QED
  BY <1>6, <1>8, <1>9, <1>10, <1>11, <1>12

\* What a handler has loaded is the counter as it is at that moment.
LEMMA FindApplicantIInv ==
    ASSUME IInv, NEW p \in Proc, FindApplicant(p)
    PROVE  IInv'
<1> USE DEF IInv
<1> DEFINE u == job[p].user
<1>1. /\ job[p].pc = "find" /\ job[p] \in Job /\ u \in User
      /\ JobOK(job[p]) /\ UNCHANGED faults /\ faults \in Nat
  BY DEF FindApplicant, JobHas, TypeOK, Job
<1>2. CASE GiveUp(p)
  BY <1>1, <1>2, GiveUpIInv
<1>3. CASE /\ job' = [job EXCEPT ![p].pc = "save", ![p].snap = users[u]]
           /\ UNCHANGED <<users, onfido, history>>
  <2>1. UNCHANGED <<users, applicants, checks, acked, faults, started, failed,
                    raced, doubled>>
    BY <1>1, <1>3 DEF onfido, history
  <2>2. users[u] \in KycFields
    BY <1>1 DEF TypeOK
  <2>3. /\ job' \in [Proc -> Job] /\ Others(p) /\ job'[p].pc = "save"
        /\ job'[p].user = job[p].user /\ job'[p].check = job[p].check
        /\ job'[p].status = job[p].status /\ job'[p].snap = users[u]
        /\ job'[p].final = job[p].final
    BY <1>1, <1>3, <2>2 DEF Others, TypeOK, Job
  <2>4. TypeOK'
    BY <2>1, <2>3 DEF TypeOK
  <2>5. Grows
    BY <2>1, OnfidoStays
  <2>6. JobHas'
    <3>1. JobOK(job[p])'
      BY <1>1, <2>1, <2>3 DEF JobOK
    <3> QED
      BY <2>1, <2>3, <2>5, <3>1, JobHasStep
  <2>7. ApprovedIsCleared'
    BY <2>1, <2>5, ApprovedStep
  <2>8. Counted'
    <3> SUFFICES ASSUME NEW v \in User
                 PROVE  /\ users[v].counter + Cardinality(Uncounted(v)')
                              <= started[v]
                        /\ \A q \in Uncounted(v)' : job'[q].pc = "save" =>
                              job'[q].snap.counter + Cardinality(Uncounted(v)')
                                 <= started[v]
      BY <2>1 DEF Counted
    <3>1. Uncounted(v)' = Uncounted(v)
      BY <1>1, <2>3, UncountedStays DEF Uncounted
    <3>2. \A q \in Uncounted(v) :
             /\ q # p => job'[q] = job[q]
             /\ q = p => job'[q].snap.counter = users[v].counter
      BY <2>3 DEF Uncounted, Others
    <3> QED
      BY <3>1, <3>2 DEF Counted
  <2>9. Alone'
    <3>1. job'[p].snap.counter = users[job[p].user].counter
      BY <2>3
    <3> QED
      BY <1>1, <2>1, <2>3, <3>1, MoveAlone DEF BeforeCheck
  <2>10. FirstApplicant'
    BY <2>1, <2>3, FirstStep
  <2> QED
    BY <2>4, <2>6, <2>7, <2>8, <2>9, <2>10
<1> QED
  BY <1>2, <1>3 DEF FindApplicant

\* Nobody gets a status but the one a handler had in hand, nor a counter but
\* the one it loaded, or one more.
LEMMA SaveStatusIInv ==
    ASSUME IInv, NEW p \in Proc, SaveStatus(p)
    PROVE  IInv'
<1> USE DEF IInv
<1> DEFINE u == job[p].user
           status == IF job[p].status = job[p].snap.status
                     THEN users[u].status ELSE job[p].status
           counter == IF job[p].check = 0 THEN job[p].snap.counter + 1
                      ELSE users[u].counter
           doc == [users[u] EXCEPT !.status = status, !.counter = counter]
<1>1. /\ job[p].pc = "save" /\ job[p] \in Job /\ u \in User /\ JobOK(job[p])
      /\ users[u] \in KycFields /\ job[p].snap \in KycFields
  BY DEF SaveStatus, JobHas, TypeOK, Job
<1>2. /\ users' = [users EXCEPT ![u] = doc]
      /\ acked' = IF job[p].final THEN acked \cup {job[p].check} ELSE acked
      /\ job' = [job EXCEPT ![p] = NoJob]
      /\ UNCHANGED <<applicants, checks, faults, history>>
  BY DEF SaveStatus, End, Stored
<1>3. /\ doc \in KycFields
      /\ doc.applicant = users[u].applicant
      /\ doc.status \in {users[u].status, job[p].status}
      /\ job[p].check = 0 => doc.counter = job[p].snap.counter + 1
      /\ job[p].check # 0 => doc.counter = users[u].counter
  <2>1. /\ status \in {users[u].status, job[p].status} /\ status \in KycStatus
        /\ counter \in Nat
        /\ job[p].check = 0 => counter = job[p].snap.counter + 1
        /\ job[p].check # 0 => counter = users[u].counter
    BY <1>1 DEF KycFields, Job
  <2> HIDE DEF status, counter
  <2> QED
    BY <1>1, <2>1 DEF KycFields
<1> HIDE DEF doc
<1>4. /\ job' \in [Proc -> Job] /\ Others(p) /\ job'[p].pc = "idle"
      /\ UNCHANGED <<applicants, checks, faults, started, failed, raced, doubled>>
  BY <1>1, <1>2, NoJobType DEF NoJob, Others, TypeOK, history
<1>5. /\ users' \in [User -> KycFields]
      /\ \A v \in User : users'[v] = IF v = u THEN doc ELSE users[v]
  BY <1>1, <1>2, <1>3 DEF TypeOK
<1>6. TypeOK'
  <2>1. acked' \subseteq DOMAIN checks
    <3>1. job[p].final => job[p].check \in DOMAIN checks
      BY <1>1 DEF JobOK
    <3> QED
      BY <1>2, <3>1 DEF TypeOK
  <2> QED
    BY <1>4, <1>5, <2>1 DEF TypeOK
<1>7. Grows
  BY <1>4, OnfidoStays
<1>8. JobHas'
  <2>1. JobOK(job[p])'
    BY <1>4 DEF JobOK
  <2>2. \A v \in User : users'[v].applicant = users[v].applicant
    BY <1>3, <1>5
  <2> QED
    BY <1>4, <1>7, <2>1, <2>2, JobHasStep
<1>9. ApprovedIsCleared'
  <2>1. ASSUME job[p].status = "approved"
        PROVE  \E c \in ChecksOf(u) : checks[c].result = "clear"
    BY <1>1, <2>1 DEF JobOK, ChecksOf
  <2> QED
    BY <1>3, <1>5, <1>7, <2>1, ApprovedStep
<1>10. Counted'
  <2>1. \A v \in User : p \notin Uncounted(v)'
    BY <1>4 DEF Uncounted
  <2>2. ASSUME NEW v \in User
        PROVE  \/ users'[v].counter = users[v].counter
               \/ /\ p \in Uncounted(v) /\ job[p].pc = "save"
                  /\ users'[v].counter = job[p].snap.counter + 1
    BY <1>1, <1>3, <1>5 DEF Uncounted
  <2> QED
    BY <1>4, <2>1, <2>2, CountedStep
<1>11. Alone'
  <2> SUFFICES ASSUME NEW v \in User \ raced PROVE AloneOf(v)'
    BY <1>4 DEF Alone
  <2>1. AloneOf(v) /\ ~ Busy(p, v)'
    BY <1>4 DEF Alone, Busy
  <2>2. CASE v # u
    <3>1. ~ Busy(p, v) /\ users'[v] = users[v]
      BY <1>5, <2>2 DEF Busy
    <3> QED
      BY <1>4, <2>1, <3>1, AloneStep
  <2>3. CASE v = u
    <3>1. Busy(p, u)
      BY <1>1 DEF Busy
    <3>2. \A q \in Proc : (Busy(q, v) => q = p) /\ ~ Busy(q, v)'
      <4>1. \A q \in Proc : Busy(q, v) => q = p
        BY <2>1, <2>3, <3>1 DEF AloneOf
      <4> QED
        BY <2>1, <4>1, <1>4 DEF Busy, Others
    <3>3. /\ users[u].counter \in Nat /\ started[u] \in Nat /\ failed[u] \in Nat
          /\ users[u].counter <= 1
      BY <2>1, <2>3 DEF AloneOf, TypeOK, KycFields
    <3>4. users'[u].counter <= 1 /\ started[u] <= failed[u] + users'[u].counter
      <4>1. CASE job[p].check = 0
        <5>1. job[p].snap.counter = 0 /\ started[u] <= failed[u] + 1
          BY <1>1, <2>1, <2>3, <3>1, <4>1 DEF AloneOf
        <5>2. users'[u].counter = 1
          BY <1>1, <1>3, <1>5, <4>1, <5>1
        <5> QED
          BY <3>3, <5>1, <5>2
      <4>2. CASE job[p].check # 0
        <5>1. \A q \in Proc : ~ (Busy(q, u) /\ job[q].check = 0)
          BY <2>3, <3>2, <4>2
        <5>2. users'[u].counter = users[u].counter
          BY <1>1, <1>3, <1>5, <4>2
        <5> QED
          BY <2>1, <2>3, <3>3, <5>1, <5>2 DEF AloneOf
      <4> QED
        BY <4>1, <4>2
    <3> QED
      BY <1>4, <2>3, <3>2, <3>3, <3>4 DEF AloneOf
  <2> QED
    BY <2>2, <2>3
<1>12. FirstApplicant'
  <2>1. \A v \in User : users'[v].applicant = users[v].applicant
    BY <1>3, <1>5
  <2> QED
    BY <1>4, <2>1, FirstStep
<1> QED
  BY <1>6, <1>8, <1>9, <1>10, <1>11, <1>12
-----------------------------------------------------------------------------
LEMMA InitIInv == Init => IInv
<1> SUFFICES ASSUME Init PROVE IInv
  OBVIOUS
<1> USE DEF Init
<1>1. TypeOK
  <2>1. NotApplied \in KycFields
    BY DEF NotApplied, KycFields, KycStatus
  <2> QED
    BY <2>1, NoJobType DEF TypeOK
<1>2. \A p \in Proc : /\ job[p].pc = "idle" /\ job[p].check = 0
                      /\ job[p].final = FALSE
  BY DEF NoJob
<1>3. \A u \in User : /\ users[u].applicant = 0 /\ users[u].counter = 0
                      /\ users[u].status = "not_applied"
  BY DEF NotApplied
<1>4. JobHas
  BY <1>2, <1>3 DEF JobHas, JobOK
<1>5. ApprovedIsCleared
  BY <1>3 DEF ApprovedIsCleared
<1>6. Counted
  <2>1. \A u \in User : Uncounted(u) = {}
    BY <1>2 DEF Uncounted
  <2>2. \A u \in User : Cardinality(Uncounted(u)) = 0
    BY <2>1, FS_EmptySet
  <2>3. \A u \in User : started[u] = 0
    OBVIOUS
  <2> QED
    BY <1>3, <2>1, <2>2, <2>3 DEF Counted
<1>7. Alone /\ FirstApplicant
  BY <1>2, <1>3 DEF Alone, AloneOf, FirstApplicant, Busy
<1> QED
  BY <1>1, <1>4, <1>5, <1>6, <1>7 DEF IInv

LEMMA NextIInv == IInv /\ [Next]_vars => IInv'
<1> SUFFICES ASSUME IInv, [Next]_vars PROVE IInv'
  OBVIOUS
<1>1. ASSUME NEW p \in Proc, NEW u \in User, KycVerification(p, u) PROVE IInv'
  BY <1>1, KycVerificationIInv
<1>2. ASSUME NEW p \in Proc, NEW c \in DOMAIN checks, Webhook(p, c) PROVE IInv'
  BY <1>2, WebhookIInv
<1>3. ASSUME NEW p \in Proc, FindUser(p) PROVE IInv'
  <2>1. job[p].pc = "findUser" /\ UNCHANGED faults /\ faults \in Nat
    BY <1>3 DEF FindUser, IInv, TypeOK
  <2>2. CASE users[job[p].user].applicant = 0 /\ ToCreate(p, job[p].user)
    BY <2>1, <2>2, ToCreateIInv
  <2>3. CASE GiveUp(p)
    BY <2>1, <2>3, GiveUpIInv
  <2> QED
    BY <1>3, <2>2, <2>3 DEF FindUser
<1>4. ASSUME NEW p \in Proc, NewApplicant(p) PROVE IInv'
  BY <1>4, NewApplicantIInv
<1>5. ASSUME NEW p \in Proc, StartCheck(p) PROVE IInv'
  BY <1>5, StartCheckIInv
<1>6. ASSUME NEW p \in Proc, FindCheck(p) PROVE IInv'
  BY <1>6, FindCheckIInv
<1>7. ASSUME NEW p \in Proc, FindApplicant(p) PROVE IInv'
  BY <1>7, FindApplicantIInv
<1>8. ASSUME NEW p \in Proc, SaveStatus(p) PROVE IInv'
  BY <1>8, SaveStatusIInv
<1>9. ASSUME NEW p \in Proc, Fail(p) PROVE IInv'
  <2>1. job[p].pc # "idle" /\ faults' \in Nat /\ GiveUp(p)
    BY <1>9 DEF Fail, IInv, TypeOK
  <2> QED
    BY <2>1, GiveUpIInv
<1>10. ASSUME NEW c \in DOMAIN checks, NEW r \in {"clear", "consider"},
              Conclude(c, r)
       PROVE  IInv'
  BY <1>10, ConcludeIInv
<1>11. CASE UNCHANGED vars
  <2>1. UNCHANGED <<users, applicants, checks, acked, job, faults, started,
                    failed, raced, doubled>>
    BY <1>11 DEF vars, onfido, history
  <2>2. TypeOK'
    BY <2>1 DEF IInv, TypeOK
  <2>3. JobHas' /\ ApprovedIsCleared'
    BY <2>1 DEF IInv, JobHas, JobOK, ApprovedIsCleared, ChecksOf
  <2>4. Counted'
    BY <2>1 DEF IInv, Counted, Uncounted
  <2>5. Alone' /\ FirstApplicant'
    BY <2>1 DEF IInv, Alone, AloneOf, FirstApplicant, Busy
  <2> QED
    BY <2>2, <2>3, <2>4, <2>5 DEF IInv
<1> QED
  BY <1>1, <1>2, <1>3, <1>4, <1>5, <1>6, <1>7, <1>8, <1>9, <1>10, <1>11
  DEF Next, Proceed

\* The strengthened invariant holds in every state.
THEOREM Inductive == Spec => []IInv
  BY InitIInv, NextIInv, PTL DEF Spec

\* Documents, checks and handlers have the types the model gives them, and
\* every check names an applicant that exists.
THEOREM TypeCorrect == Spec => []TypeOK
<1>1. IInv => TypeOK
  BY DEF IInv
<1> QED
  BY <1>1, Inductive, PTL

\* Nobody is approved without a clear check of his own: findByKycIdAndUpdate
\* stores what the webhook found of a check of the same user.
THEOREM NobodyIsApprovedUncleared == Spec => []ApprovedIsCleared
<1>1. IInv => ApprovedIsCleared
  BY DEF IInv
<1> QED
  BY <1>1, Inductive, PTL

\* The counter never runs ahead of the checks started: each increment is of
\* a verification that had a check to show for it.
THEOREM CounterBacked == Spec => []CounterIsBacked
<1>1. IInv => CounterIsBacked
  <2> SUFFICES ASSUME IInv, NEW u \in User PROVE users[u].counter <= started[u]
    BY DEF CounterIsBacked
  <2>1. users[u].counter + Cardinality(Uncounted(u)) <= started[u]
    BY DEF IInv, Counted
  <2>2. users[u].counter \in Nat /\ started[u] \in Nat
        /\ Cardinality(Uncounted(u)) \in Nat
    BY UncountedTypes DEF IInv, TypeOK, KycFields
  <2> QED
    BY <2>1, <2>2
<1> QED
  BY <1>1, Inductive, PTL

\* One check per user and one more for each attempt that failed, unless two
\* handlers for him overlapped ("you have reached maximum attempts").
THEOREM AttemptsAreBounded == Spec => []AttemptsBounded
<1>1. IInv => AttemptsBounded
  <2> SUFFICES ASSUME IInv, NEW u \in User \ raced
               PROVE  started[u] <= 1 + failed[u]
    BY DEF AttemptsBounded
  <2>1. AloneOf(u)
    BY DEF IInv, Alone
  <2>2. users[u].counter \in Nat /\ started[u] \in Nat /\ failed[u] \in Nat
    BY DEF IInv, TypeOK, KycFields
  <2>3. CASE \E p \in Proc : Busy(p, u) /\ job[p].check = 0
    BY <2>1, <2>2, <2>3 DEF AloneOf
  <2>4. CASE ~ \E p \in Proc : Busy(p, u) /\ job[p].check = 0
    BY <2>1, <2>2, <2>4 DEF AloneOf
  <2> QED
    BY <2>3, <2>4
<1> QED
  BY <1>1, Inductive, PTL

\* A user keeps his applicant, unless two handlers had both found none
\* ("kyc account already exists").
THEOREM ApplicantIsKept == Spec => ApplicantStays
<1> DEFINE Stays == \A u \in User \ doubled : users[u].applicant # 0 =>
                       users'[u].applicant = users[u].applicant
<1>1. IInv /\ [Next]_vars => [Stays]_<<users, doubled>>
  <2> SUFFICES ASSUME IInv, [Next]_vars, NEW u \in User \ doubled,
                      users[u].applicant # 0
               PROVE  users'[u].applicant = users[u].applicant
    OBVIOUS
  <2>1. TypeOK /\ FirstApplicant
    BY DEF IInv
  <2>2. ASSUME NEW p \in Proc, NewApplicant(p)
        PROVE  users'[u].applicant = users[u].applicant
    <3>1. job[p].pc = "newApplicant" /\ ~ Busy(p, u)
      BY <2>1, <2>2 DEF NewApplicant, FirstApplicant
    <3>2. job[p].user # u
      BY <3>1 DEF Busy
    <3> QED
      BY <2>1, <2>2, <3>2 DEF NewApplicant, TypeOK
  <2>3. ASSUME NEW p \in Proc, SaveStatus(p)
        PROVE  users'[u].applicant = users[u].applicant
    <3>1. users' = [users EXCEPT ![job[p].user] =
                       Stored(users[job[p].user], job[p])]
      BY <2>3 DEF SaveStatus
    <3>2. users[u] \in KycFields
      BY <2>1 DEF TypeOK
    <3>3. Stored(users[u], job[p]).applicant = users[u].applicant
      BY <3>2 DEF Stored, KycFields
    <3> QED
      BY <2>1, <3>1, <3>3 DEF TypeOK
  <2>4. CASE users' = users
    BY <2>4
  <2>5. users' = users \/ \E p \in Proc : NewApplicant(p) \/ SaveStatus(p)
    BY DEF Next, Proceed, KycVerification, Webhook, FindUser, ToCreate, GiveUp,
           StartCheck, FindCheck, FindApplicant, Fail, Conclude, vars
  <2> QED
    BY <2>2, <2>3, <2>4, <2>5
<1> QED
  BY <1>1, Inductive, PTL DEF Spec, ApplicantStays
=============================================================================
