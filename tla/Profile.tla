------------------------------ MODULE Profile ------------------------------
(***************************************************************************)
(* Updates of a user document: the user's own (updateProfile), an          *)
(* administrator's, through the gateway, admin-svc and the gateway again   *)
(* (updateUser), wallet-svc's, which stores a new Stripe account without   *)
(* waiting for it (createStripeAccount), and anybody's, through the two    *)
(* REST routes that the last two use and that have no guard.  All end in   *)
(* updateProfile of user-svc, which reads the document and then sets the   *)
(* fields it was sent.                                                     *)
(*                                                                         *)
(* An update of other fields, the password and twoFactorAuth among them    *)
(* (which a superadmin's updates always set), is one that sets nothing of  *)
(* what the properties are about.                                          *)
(***************************************************************************)
EXTENDS Naturals, FiniteSets

CONSTANTS User, Slot,      \* requests in flight that are no onboardings
          Account,         \* Stripe accounts; each stands for its onboarding
          First,           \* the superadmin user-svc starts with
          NoAccount,
          Anyone,          \* who sends to a route without a guard
          MaxRest          \* bound on the requests to such a route

ASSUME FirstAssumption ==
    /\ First \in User /\ Anyone \notin User
    /\ NoAccount \notin Account /\ Slot \cap Account = {}

VARIABLES users,    \* the documents
          call,     \* the update each request and onboarding is about
          doubled,  \* history: users who asked for an account while another
                    \* onboarding of theirs was not over
          moved,    \* history: users whose account a REST request replaced
          rest,     \* requests so far to a route without a guard
          demoted   \* history: was a superadmin demoted for one who was, or
                    \* is by then, no superadmin?

vars == <<users, call, doubled, moved, demoted, rest>>

UserRole == {"user", "subadmin", "superadmin"}

\* What REST can store; no update of an "admin" is taken.
AnyRole == UserRole \cup {"admin"}

Profile == [role : AnyRole, stripe_account_id : Account \cup {NoAccount}]

NewUser == [role |-> "user", stripe_account_id |-> NoAccount]

\* pc is what comes next.
Call(pc, by, on, change) ==
    [pc |-> pc, by |-> by, on |-> on, change |-> change]

\* An update of other fields.
Others == << >>

Idle == Call("idle", First, First, Others)

Init ==
    /\ users = [u \in User |->
          IF u = First THEN [NewUser EXCEPT !.role = "superadmin"] ELSE NewUser]
    /\ call = [c \in Slot \cup Account |-> Idle]
    /\ doubled = {} /\ moved = {}
    /\ demoted = FALSE /\ rest = 0

Begin(c, pc, by, on, change) ==
    call' = [call EXCEPT ![c] = Call(pc, by, on, change)]

\* What became of an account is remembered; a request is over.
Over(c, pc) ==
    call' = [call EXCEPT ![c] =
        IF c \in Slot THEN Idle ELSE Call(pc, First, call[c].on, Others)]
----------------------------------------------------------------------------
(* Gateway.  What a handler checks is the guard's snapshot of the user.    *)

MayUpdateAnyone(by, on, change) ==                             \* mutant
    "role" \in DOMAIN change => users[by].role = "superadmin"

MayUpdate(by, on, change) ==
    /\ users[by].role \in {"superadmin", "subadmin"}
    /\ on # by
    /\ "role" \in DOMAIN change => users[by].role = "superadmin"

\* An administrator gives a user a role, or sets other fields.
AdminChange == {[role |-> role] : role \in UserRole} \cup {Others}

UpdateUser(c, by, on, change) ==
    /\ call[c].pc = "idle"
    /\ MayUpdate(by, on, change)
    /\ Begin(c, "read", by, on, change)
    /\ UNCHANGED <<users, doubled, moved, demoted, rest>>

UpdateProfile(c, u) ==
    /\ call[c].pc = "idle"
    /\ Begin(c, "read", u, u, Others)
    /\ UNCHANGED <<users, doubled, moved, demoted, rest>>

\* The REST routes updateProfile of a user and updateUser of an admin: no
\* guard, and fields that the user's own update does not have.
RestChange == [role : AnyRole] \cup
              [stripe_account_id : Account \cup {NoAccount}]

RestUpdate(c, on, change) ==
    /\ call[c].pc = "idle"
    /\ rest < MaxRest
    /\ Begin(c, "read", Anyone, on, change)
    /\ rest' = rest + 1
    /\ UNCHANGED <<users, doubled, moved, demoted>>

NeedsAccountAlways(u) == TRUE                                  \* mutant
NeedsAccount(u) == users[u].stripe_account_id = NoAccount

Onboarding(u) ==
    {a \in Account : call[a].on = u /\ call[a].pc \in {"create", "read", "store"}}

\* A user who has an account gets new links to it, and nothing changes.
CreateStripeAccount(a, u) ==
    /\ call[a].pc = "idle"
    /\ NeedsAccount(u)
    /\ Begin(a, "create", u, u, [stripe_account_id |-> a])
    /\ doubled' = IF Onboarding(u) = {} THEN doubled ELSE doubled \cup {u}
    /\ UNCHANGED <<users, moved, demoted, rest>>
----------------------------------------------------------------------------
(* wallet-svc: Stripe creates the account; the update is sent, and the     *)
(* links are created and answered meanwhile.                               *)

AccountsCreate(a) ==
    /\ call[a].pc = "create"
    /\ call' = [call EXCEPT ![a].pc = "read"]
    /\ UNCHANGED <<users, doubled, moved, demoted, rest>>

----------------------------------------------------------------------------
(* user-svc: updateProfile.                                                *)

FindOne(c) ==
    /\ call[c].pc = "read"
    /\ users[call[c].on].role # "admin"
    /\ call' = [call EXCEPT ![c].pc = "store"]
    /\ UNCHANGED <<users, doubled, moved, demoted, rest>>

Forbid(c) ==
    /\ call[c].pc = "read"
    /\ users[call[c].on].role = "admin"
    /\ Over(c, "lost")
    /\ UNCHANGED <<users, doubled, moved, demoted, rest>>

\* doc with the given fields set.
Assign(fields, doc) == [f \in DOMAIN fields \cup DOMAIN doc |->
                        IF f \in DOMAIN fields THEN fields[f] ELSE doc[f]]

\* With defaults, a field that was not sent is received as an empty one.
UpdatedWithDefaults(profile, change) ==                        \* mutant
    Assign(change, [NewUser EXCEPT !.role = profile.role])

\* Only the fields that were sent are set.
Updated(profile, change) == Assign(change, profile)

IsSuperadmin(u) == u \in User /\ users[u].role = "superadmin"

FindByIdAndUpdate(c) ==
    LET on == call[c].on
        change == call[c].change
    IN
    /\ call[c].pc = "store"
    /\ users' = [users EXCEPT ![on] = Updated(@, change)]
    /\ Over(c, "stored")
    /\ demoted' = \/ demoted
                  \/ /\ IsSuperadmin(on) /\ users'[on].role # "superadmin"
                     /\ ~ IsSuperadmin(call[c].by)
    /\ moved' = IF /\ c \in Slot /\ "stripe_account_id" \in DOMAIN change
                   /\ users[on].stripe_account_id \notin
                         {NoAccount, users'[on].stripe_account_id}
                THEN moved \cup {on} ELSE moved
    /\ UNCHANGED <<doubled, rest>>

\* A call of the chain fails.  Who sent the request may send it again, also
\* when only its answer was lost.  The update of an account is not repeated.
Fail(c) ==
    /\ call[c].pc \in {"create", "read", "store"}
    /\ Over(c, "lost")
    /\ UNCHANGED <<users, doubled, moved, demoted, rest>>
----------------------------------------------------------------------------
Next ==
    \/ \E c \in Slot, u \in User :
          \/ \E on \in User, change \in AdminChange :
                UpdateUser(c, u, on, change)
          \/ UpdateProfile(c, u)
          \/ \E change \in RestChange : RestUpdate(c, u, change)
    \/ \E a \in Account :
          \/ \E u \in User : CreateStripeAccount(a, u)
          \/ AccountsCreate(a)
    \/ \E c \in Slot \cup Account :
          FindOne(c) \/ Forbid(c) \/ FindByIdAndUpdate(c) \/ Fail(c)

Spec == Init /\ [][Next]_vars
----------------------------------------------------------------------------
(* Properties.                                                             *)

\* "Admin cannot update self", so that one superadmin remains who can give
\* roles, unless the last one was demoted by way of a REST route without a
\* guard, or for a superadmin who had lost the role while the change was
\* under way (two who demote each other).
SuperadminRemains == demoted \/ \E u \in User : users[u].role = "superadmin"

Created(a) == call[a].pc \in {"read", "store", "stored", "lost"}

\* A user is given a second Stripe account only if the first one's update was
\* lost, or was asked for before that update was over (it is not awaited), or
\* if a REST request had replaced the account that was stored.
OneAccount ==
    \A a, b \in Account :
        /\ a # b /\ call[a].on = call[b].on
        /\ Created(a) /\ Created(b)
        => \/ call[a].on \in doubled \cup moved
           \/ "lost" \in {call[a].pc, call[b].pc}

\* A Stripe account that was stored stays the user's, whatever updates of the
\* user and of administrators read the document before it was, or follow: only
\* a REST request that names another one replaces it.
AccountStays ==
    \A a \in Account :
        call[a].pc = "stored" /\ call[a].on \notin doubled \cup moved =>
            users[call[a].on].stripe_account_id = a
=============================================================================
