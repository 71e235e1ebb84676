---------------------------- MODULE ClientProofs ----------------------------
(***************************************************************************)
(* What a client of the gateway may rely on, for any users, documents and  *)
(* requests: that updates of a user keep what they must (Profile), that a  *)
(* listing read page by page misses nobody (Listing), and that an answer   *)
(* means what it says (Gateway).                                           *)
(*                                                                         *)
(* Profile.  A change of role is never about its author, so an author who  *)
(* is still a superadmin remains one; two onboardings of one user that are *)
(* under way or stored have overlapped, or a REST request came between.    *)
(* Listing.  What is owed and not listed yet comes after the pages so far. *)
(* Gateway.  A table of what the steps of each handler may answer, and an  *)
(* induction over the walk of one request through any of them.             *)
(***************************************************************************)
EXTENDS Profile, Listing, Gateway, FiniteSetTheorems, SequenceTheorems, TLAPS
-----------------------------------------------------------------------------
(* Profile.                                                                *)

AnyChange == AdminChange \cup RestChange

Calls == [pc : {"idle", "create", "read", "store", "stored", "lost"},
          by : User \cup {Anyone}, on : User, change : AnyChange]

\* The types, which no run checks: the other invariants need them.
Types ==
    /\ users \in [User -> Profile]
    /\ call \in [Slot \cup Account -> Calls]
    /\ doubled \subseteq User /\ moved \subseteq User
    /\ demoted \in BOOLEAN

\* "Admin cannot update self", seen from the call that is under way.
NotOnSelf == \A c \in Slot \cup Account :
    "role" \in DOMAIN call[c].change => call[c].by # call[c].on

Active == {"create", "read", "store"}

\* An onboarding stores its own account.
OwnAccount ==
    \A a \in Account : call[a].pc \in Active =>
        call[a].change = [stripe_account_id |-> a]

\* Of two onboardings of one user, one was over before the other began, and
\* the account it stored was replaced.
Apart == \A a, b \in Account :
    /\ a # b /\ call[a].on = call[b].on
    /\ call[a].pc \in Active \cup {"stored"}
    /\ call[b].pc \in Active \cup {"stored"}
    => call[a].on \in doubled \cup moved

IInv == /\ Types /\ NotOnSelf /\ OwnAccount /\ Apart
        /\ SuperadminRemains /\ AccountStays
-----------------------------------------------------------------------------
\* An update sets the fields that were sent and keeps the others.
LEMMA UpdatedFields ==
    ASSUME NEW p \in Profile, NEW d \in AnyChange
    PROVE  /\ Updated(p, d) \in Profile
           /\ "role" \notin DOMAIN d => Updated(p, d).role = p.role
           /\ "stripe_account_id" \notin DOMAIN d =>
                 Updated(p, d).stripe_account_id = p.stripe_account_id
           /\ \A a : d = [stripe_account_id |-> a] =>
                 Updated(p, d).stripe_account_id = a
<1> DEFINE F == {"role", "stripe_account_id"}
<1>1. /\ DOMAIN d \subseteq F
      /\ "role" \in DOMAIN d => d["role"] \in AnyRole
      /\ "stripe_account_id" \in DOMAIN d =>
            d["stripe_account_id"] \in Account \cup {NoAccount}
  <2>1. CASE d = Others
    BY <2>1 DEF Others
  <2>2. CASE \E r \in AnyRole : d = [role |-> r]
    BY <2>2
  <2>3. CASE d \in [stripe_account_id : Account \cup {NoAccount}]
    BY <2>3
  <2> QED
    BY <2>1, <2>2, <2>3 DEF AnyChange, AdminChange, RestChange, AnyRole
<1>2. DOMAIN p = F
  BY DEF Profile
<1>3. Updated(p, d) = [f \in F |-> IF f \in DOMAIN d THEN d[f] ELSE p[f]]
  <2>1. DOMAIN d \cup DOMAIN p = F
    BY <1>1, <1>2
  <2> QED
    BY <2>1 DEF Updated, Assign
<1> DEFINE new == Updated(p, d)
<1>4. /\ new.role = IF "role" \in DOMAIN d THEN d["role"] ELSE p.role
      /\ new.stripe_account_id = IF "stripe_account_id" \in DOMAIN d
                                 THEN d["stripe_account_id"]
                                 ELSE p.stripe_account_id
  BY <1>1, <1>3 DEF Profile
<1>5. new = [role |-> new.role, stripe_account_id |-> new.stripe_account_id]
  <2> HIDE DEF new
  <2>1. \E g : new = [f \in F |-> g[f]]
    <3>1. WITNESS [f \in F |-> IF f \in DOMAIN d THEN d[f] ELSE p[f]]
    <3> QED
      BY <1>3 DEF new
  <2> QED
    BY <2>1
<1>6. new \in Profile
  <2> HIDE DEF new
  <2> QED
    BY <1>1, <1>4, <1>5 DEF Profile
<1>7. \A a : d = [stripe_account_id |-> a] => new.stripe_account_id = a
  BY <1>4
<1> QED
  BY <1>4, <1>6, <1>7

\* A fresh call has the type of one.
LEMMA BeginTypes ==
    ASSUME Types, NEW c \in Slot \cup Account,
           NEW pc, pc = "create" \/ pc = "read",
           NEW by \in User \cup {Anyone}, NEW on \in User, NEW d \in AnyChange,
           Begin(c, pc, by, on, d)
    PROVE  /\ call' \in [Slot \cup Account -> Calls]
           /\ \A b \in Slot \cup Account : b # c => call'[b] = call[b]
           /\ call'[c].pc = pc /\ call'[c].by = by /\ call'[c].on = on
           /\ call'[c].change = d
<1>1. Call(pc, by, on, d) \in Calls
  BY DEF Call, Calls
<1> QED
  BY <1>1 DEF Begin, Types, Call

\* A call that is over keeps what became of an account, and nothing else.
LEMMA OverTypes ==
    ASSUME Types, NEW c \in Slot \cup Account, NEW pc \in {"stored", "lost"},
           Over(c, pc)
    PROVE  /\ call' \in [Slot \cup Account -> Calls]
           /\ \A b \in Slot \cup Account : b # c => call'[b] = call[b]
           /\ call'[c].change = Others
           /\ c \in Slot => call'[c].pc = "idle"
           /\ c \in Account => call'[c].pc = pc /\ call'[c].on = call[c].on
<1>1. Idle \in Calls /\ Call(pc, First, call[c].on, Others) \in Calls
  BY FirstAssumption DEF Idle, Types, Call, Calls, AnyChange, AdminChange
<1>2. Idle.change = Others /\ Idle.pc = "idle"
  BY DEF Idle, Call
<1>3. \A on : LET new == Call(pc, First, on, Others) IN
         new.pc = pc /\ new.on = on /\ new.change = Others
  BY DEF Call
<1> QED
  BY <1>1, <1>2, <1>3, FirstAssumption DEF Over, Types

\* At first nobody is asking for anything.
LEMMA InitIInv == ASSUME Init PROVE IInv
<1>1. Types
  <2>1. NewUser \in Profile
        /\ [NewUser EXCEPT !.role = "superadmin"] \in Profile
    BY DEF NewUser, Profile, UserRole, AnyRole
  <2>2. Idle \in Calls
    BY FirstAssumption DEF Idle, Call, Calls, AnyChange, AdminChange
  <2> QED
    BY <2>1, <2>2 DEF Init, Types
<1>2. \A c \in Slot \cup Account : call[c].pc = "idle"
         /\ DOMAIN call[c].change = {}
  BY DEF Init, Idle, Call, Others
<1>3. NotOnSelf /\ OwnAccount /\ Apart /\ AccountStays
  BY <1>2 DEF NotOnSelf, OwnAccount, Apart, AccountStays, Active
<1>4. SuperadminRemains
  BY FirstAssumption DEF Init, SuperadminRemains, NewUser
<1> QED
  BY <1>1, <1>3, <1>4 DEF IInv
-----------------------------------------------------------------------------
\* One lemma per action: the parts of IInv that it can disturb.

\* updateUser takes up no change of a role that is about its author.
LEMMA UpdateUserIInv ==
    ASSUME IInv, NEW c \in Slot, NEW by \in User, NEW on \in User,
           NEW change \in AdminChange, UpdateUser(c, by, on, change)
    PROVE  IInv'
<1> USE DEF IInv
<1>1. /\ Begin(c, "read", by, on, change) /\ on # by
      /\ UNCHANGED <<users, doubled, moved, demoted>>
  BY DEF UpdateUser, MayUpdate
<1>2. change \in AnyChange
  BY DEF AnyChange
<1>3. /\ call' \in [Slot \cup Account -> Calls]
      /\ \A b \in Slot \cup Account : b # c => call'[b] = call[b]
      /\ call'[c].by = by /\ call'[c].on = on /\ call'[c].change = change
  BY <1>1, <1>2, BeginTypes
<1>4. Types'
  BY <1>1, <1>3 DEF Types
<1>5. NotOnSelf'
  BY <1>1, <1>3 DEF NotOnSelf
<1>6. OwnAccount' /\ Apart' /\ AccountStays'
  BY <1>1, <1>3, FirstAssumption DEF OwnAccount, Apart, AccountStays
<1>7. SuperadminRemains'
  BY <1>1 DEF SuperadminRemains
<1> QED
  BY <1>4, <1>5, <1>6, <1>7

\* updateProfile sets neither a role nor an account; a REST request may, but
\* none is sent by a user about themselves: it has no author.
LEMMA UnguardedIInv ==
    ASSUME IInv, NEW c \in Slot, NEW u \in User,
           \/ UpdateProfile(c, u)
           \/ \E change \in RestChange : RestUpdate(c, u, change)
    PROVE  IInv'
<1> USE DEF IInv
<1>1. PICK by \in User \cup {Anyone}, change \in AnyChange :
         /\ Begin(c, "read", by, u, change)
         /\ "role" \in DOMAIN change => by # u
         /\ UNCHANGED <<users, doubled, moved, demoted>>
  <2>1. CASE UpdateProfile(c, u)
    <3>1. Others \in AnyChange /\ "role" \notin DOMAIN Others
      BY DEF AnyChange, AdminChange, Others
    <3> QED
      BY <2>1, <3>1 DEF UpdateProfile
  <2>2. CASE \E change \in RestChange : RestUpdate(c, u, change)
    BY <2>2, FirstAssumption DEF RestUpdate, AnyChange
  <2> QED
    BY <2>1, <2>2
<1>2. /\ call' \in [Slot \cup Account -> Calls]
      /\ \A b \in Slot \cup Account : b # c => call'[b] = call[b]
      /\ call'[c].by = by /\ call'[c].on = u /\ call'[c].change = change
  BY <1>1, BeginTypes
<1>3. Types'
  BY <1>1, <1>2 DEF Types
<1>4. NotOnSelf'
  BY <1>1, <1>2 DEF NotOnSelf
<1>5. OwnAccount' /\ Apart' /\ AccountStays'
  BY <1>1, <1>2, FirstAssumption DEF OwnAccount, Apart, AccountStays
<1>6. SuperadminRemains'
  BY <1>1 DEF SuperadminRemains
<1> QED
  BY <1>3, <1>4, <1>5, <1>6

\* An onboarding begins apart from the others, or its user is in doubled.
LEMMA CreateStripeAccountIInv ==
    ASSUME IInv, NEW a \in Account, NEW u \in User, CreateStripeAccount(a, u)
    PROVE  IInv'
<1> USE DEF IInv
<1> DEFINE change == [stripe_account_id |-> a]
<1>1. /\ Begin(a, "create", u, u, change) /\ UNCHANGED <<users, moved, demoted>>
      /\ users[u].stripe_account_id = NoAccount
      /\ doubled' = IF Onboarding(u) = {} THEN doubled ELSE doubled \cup {u}
  BY DEF CreateStripeAccount, NeedsAccount
<1>2. change \in AnyChange /\ "role" \notin DOMAIN change
  BY DEF AnyChange, RestChange
<1> HIDE DEF change
<1>3. /\ call' \in [Slot \cup Account -> Calls]
      /\ \A b \in Slot \cup Account : b # a => call'[b] = call[b]
      /\ call'[a].pc = "create" /\ call'[a].on = u /\ call'[a].change = change
  <2>1. Types /\ a \in Slot \cup Account
    OBVIOUS
  <2>2. Begin(a, "create", u, u, change)
    BY <1>1
  <2> HIDE DEF IInv
  <2> QED
    BY <1>2, <2>1, <2>2, BeginTypes
<1>4. Types'
  BY <1>1, <1>3 DEF Types
<1>5. NotOnSelf'
  BY <1>2, <1>3 DEF NotOnSelf
<1>6. OwnAccount'
  BY <1>3, FirstAssumption DEF OwnAccount, change
<1>7. ASSUME NEW b \in Account, b # a, call[b].on = u,
             call[b].pc \in Active \cup {"stored"}
      PROVE  u \in doubled' \cup moved
  <2>1. CASE call[b].pc \in Active
    BY <1>1, <1>7, <2>1 DEF Onboarding, Active
  <2>2. CASE call[b].pc = "stored"
    <3>1. users[u].stripe_account_id # b
      BY <1>1, FirstAssumption
    <3> QED
      BY <1>1, <1>7, <2>2, <3>1 DEF AccountStays
  <2> QED
    BY <1>7, <2>1, <2>2
<1>8. doubled \subseteq doubled'
  BY <1>1
<1>9. Apart'
  <2> SUFFICES ASSUME NEW b \in Account, NEW d \in Account,
                      b # d, call'[b].on = call'[d].on,
                      call'[b].pc \in Active \cup {"stored"},
                      call'[d].pc \in Active \cup {"stored"}
               PROVE  call'[b].on \in doubled' \cup moved'
    BY DEF Apart
  <2>1. CASE b # a /\ d # a
    BY <1>1, <1>3, <1>8, <2>1 DEF Apart
  <2>2. CASE b = a \/ d = a
    BY <1>1, <1>3, <1>7, <2>2
  <2> QED
    BY <2>1, <2>2
<1>10. AccountStays'
  BY <1>1, <1>3, <1>8 DEF AccountStays
<1>11. SuperadminRemains'
  BY <1>1 DEF SuperadminRemains
<1> QED
  BY <1>4, <1>5, <1>6, <1>9, <1>10, <1>11

\* Two steps of a call that move its pc and store nothing.
LEMMA MovesIInv ==
    ASSUME IInv, NEW c \in Slot \cup Account, AccountsCreate(c) \/ FindOne(c)
    PROVE  IInv'
<1> USE DEF IInv
<1>1. /\ UNCHANGED <<users, doubled, moved, demoted>>
      /\ call[c].pc \in Active
      /\ \E pc \in Active : call' = [call EXCEPT ![c].pc = pc]
  BY DEF AccountsCreate, FindOne, Active
<1>2. PICK pc \in Active : call' = [call EXCEPT ![c].pc = pc]
  BY <1>1
<1>3. /\ call' \in [Slot \cup Account -> Calls]
      /\ \A b \in Slot \cup Account :
            /\ call'[b].by = call[b].by /\ call'[b].on = call[b].on
            /\ call'[b].change = call[b].change
            /\ call'[b].pc = IF b = c THEN pc ELSE call[b].pc
  BY <1>2 DEF Types, Calls, Active
<1>4. Types' /\ NotOnSelf' /\ OwnAccount' /\ Apart'
  BY <1>1, <1>3 DEF Types, NotOnSelf, OwnAccount, Apart
<1>5. AccountStays' /\ SuperadminRemains'
  BY <1>1, <1>3 DEF AccountStays, SuperadminRemains, Active
<1> QED
  BY <1>4, <1>5

\* A change of role stored by one who is still a superadmin leaves one; an
\* account is stored over nobody else's.
LEMMA StoreIInv ==
    ASSUME IInv, NEW c \in Slot \cup Account, FindByIdAndUpdate(c)
    PROVE  IInv'
<1> USE DEF IInv
<1> DEFINE on == call[c].on
           change == call[c].change
           new == Updated(users[on], change)
<1>1. /\ call[c].pc = "store" /\ Over(c, "stored") /\ UNCHANGED <<doubled, rest>>
      /\ users' = [users EXCEPT ![on] = new]
      /\ demoted' = \/ demoted
                    \/ /\ IsSuperadmin(on) /\ users'[on].role # "superadmin"
                       /\ ~ IsSuperadmin(call[c].by)
      /\ moved' = IF /\ c \in Slot /\ "stripe_account_id" \in DOMAIN change
                     /\ users[on].stripe_account_id \notin
                           {NoAccount, users'[on].stripe_account_id}
                  THEN moved \cup {on} ELSE moved
  BY DEF FindByIdAndUpdate
<1>2. /\ call' \in [Slot \cup Account -> Calls]
      /\ \A b \in Slot \cup Account : b # c => call'[b] = call[b]
      /\ call'[c].change = Others
      /\ c \in Slot => call'[c].pc = "idle"
      /\ c \in Account => call'[c].pc = "stored" /\ call'[c].on = on
  BY <1>1, OverTypes
<1>3. /\ new \in Profile
      /\ "role" \notin DOMAIN change => new.role = users[on].role
      /\ "stripe_account_id" \notin DOMAIN change =>
            new.stripe_account_id = users[on].stripe_account_id
      /\ \A a : change = [stripe_account_id |-> a] => new.stripe_account_id = a
  <2>1. users[on] \in Profile /\ change \in AnyChange
    BY DEF Types, Calls
  <2> QED
    BY <2>1, UpdatedFields
<1>4. on \in User
  BY DEF Types, Calls
<1> HIDE DEF new
<1>5. \A u \in User : users'[u] = IF u = on THEN new ELSE users[u]
  BY <1>1 DEF Types
<1>6. Types'
  BY <1>1, <1>2, <1>3, <1>4 DEF Types
<1>7. NotOnSelf'
  BY <1>2 DEF NotOnSelf, Others
<1>8. OwnAccount'
  BY <1>2, FirstAssumption DEF OwnAccount, Active
<1>9. doubled' = doubled /\ moved \subseteq moved'
  BY <1>1
<1>10. Apart'
  BY <1>1, <1>2, <1>9, FirstAssumption DEF Apart, Active
<1>11. AccountStays'
  <2> SUFFICES ASSUME NEW a \in Account, call'[a].pc = "stored",
                      call'[a].on \notin doubled \cup moved'
               PROVE  users'[call'[a].on].stripe_account_id = a
    BY <1>9 DEF AccountStays
  <2>1. CASE a = c
    <3>1. change = [stripe_account_id |-> a]
      BY <1>1, <2>1 DEF OwnAccount, Active
    <3> QED
      BY <1>2, <1>3, <1>4, <1>5, <2>1, <3>1
  <2>2. CASE a # c
    <3>1. call'[a] = call[a] /\ call[a].on \in User
      BY <1>2, <2>2 DEF Types, Calls
    <3>2. users[call[a].on].stripe_account_id = a /\ a # NoAccount
      BY <1>9, <3>1, FirstAssumption DEF AccountStays
    <3>3. CASE call[a].on = on
      <4>1. c \notin Account
        BY <1>1, <1>9, <2>2, <3>1, <3>3 DEF Apart, Active
      <4>2. CASE "stripe_account_id" \notin DOMAIN change
        BY <1>3, <1>5, <3>1, <3>2, <3>3, <4>2
      <4>3. CASE "stripe_account_id" \in DOMAIN change
        BY <1>1, <1>4, <1>5, <3>1, <3>2, <3>3, <4>1, <4>3
      <4> QED
        BY <4>2, <4>3
    <3> QED
      BY <1>5, <3>1, <3>2, <3>3
  <2> QED
    BY <2>1, <2>2
<1>12. SuperadminRemains'
  <2> SUFFICES ASSUME ~ demoted'
               PROVE  \E u \in User : users'[u].role = "superadmin"
    BY DEF SuperadminRemains
  <2>1. PICK u \in User : users[u].role = "superadmin"
    BY <1>1 DEF SuperadminRemains
  <2>2. CASE u # on
    BY <1>5, <2>1, <2>2
  <2>3. CASE u = on /\ "role" \notin DOMAIN change
    BY <1>3, <1>5, <2>1, <2>3
  <2>4. CASE u = on /\ "role" \in DOMAIN change
    <3>1. call[c].by # on
      BY <2>4 DEF NotOnSelf
    <3>2. users'[on].role = "superadmin" \/ IsSuperadmin(call[c].by)
      BY <1>1, <2>1, <2>4 DEF IsSuperadmin
    <3> QED
      BY <1>4, <1>5, <3>1, <3>2 DEF IsSuperadmin
  <2> QED
    BY <2>2, <2>3, <2>4
<1> QED
  BY <1>6, <1>7, <1>8, <1>10, <1>11, <1>12

\* A call that throws stores nothing.
LEMMA FailIInv ==
    ASSUME IInv, NEW c \in Slot \cup Account, Forbid(c) \/ Fail(c)
    PROVE  IInv'
<1> USE DEF IInv
<1>1. Over(c, "lost") /\ UNCHANGED <<users, doubled, moved, demoted>>
  BY DEF Forbid, Fail
<1>2. /\ call' \in [Slot \cup Account -> Calls]
      /\ \A b \in Slot \cup Account : b # c => call'[b] = call[b]
      /\ call'[c].change = Others
      /\ call'[c].pc \in {"idle", "lost"}
  BY <1>1, OverTypes
<1>3. Types' /\ NotOnSelf' /\ OwnAccount' /\ Apart' /\ AccountStays'
  BY <1>1, <1>2
  DEF Types, NotOnSelf, Others, OwnAccount, Apart, AccountStays, Active
<1>4. SuperadminRemains'
  BY <1>1 DEF SuperadminRemains
<1> QED
  BY <1>3, <1>4

\* Every step keeps IInv.
LEMMA NextIInv == ASSUME IInv, [Next]_vars PROVE IInv'
<1>1. CASE UNCHANGED vars
  BY <1>1
  DEF vars, IInv, Types, NotOnSelf, OwnAccount, Apart, SuperadminRemains,
      AccountStays
<1>2. CASE Next
  BY <1>2, UpdateUserIInv, UnguardedIInv, CreateStripeAccountIInv,
     MovesIInv, StoreIInv, FailIInv DEF Next
<1> QED
  BY <1>1, <1>2
-----------------------------------------------------------------------------
\* IInv holds in every state, for any users, requests and accounts.
THEOREM Inductive == Spec => []IInv
  BY InitIInv, NextIInv, PTL DEF Spec

\* "Admin cannot update self" (admin.resolver.ts) and the role check keep one
\* superadmin, whatever else is under way, unless one is demoted through a
\* REST route, or for one who has lost the role meanwhile.
THEOREM OneSuperadminRemains == Spec => []SuperadminRemains
<1>1. IInv => SuperadminRemains
  BY DEF IInv
<1> QED
  BY <1>1, Inductive, PTL

\* createStripeAccount gives a user a second account only if the update with
\* the first was lost, or not over when the second was asked for, or if a
\* REST request had replaced the first.
THEOREM OneAccountPerUser == Spec => []OneAccount
<1>1. IInv => OneAccount
  BY DEF IInv, Types, Calls, Apart, OneAccount, Created, Active
<1> QED
  BY <1>1, Inductive, PTL

\* No update, however old the document it has read, takes a stored Stripe
\* account away, but a REST request that names another (updateProfile of
\* user-svc).
THEOREM StoredAccountStays == Spec => []AccountStays
<1>1. IInv => AccountStays
  BY DEF IInv
<1> QED
  BY <1>1, Inductive, PTL
-----------------------------------------------------------------------------
(* Listing.                                                                *)

USE LimitAssumption

\* The number of the documents before the page that is asked for.
Start == Skipped(OrDefault(request.offset), Limit)

ListTypes ==
    /\ matching \in Seq(Document)
    /\ request \in [pc : {"idle", "count", "find", "done"},
                    limit : Nat, offset : Nat]

Walking == request.pc \in {"count", "find"}

\* What the walk owes and has not listed comes after the pages so far.
OwedAhead ==
    Walking =>
        /\ OrDefault(request.offset) >= Limit
        /\ \A d \in owed \ listed : \E i \in DOMAIN matching :
              i > Start /\ matching[i] = d

WInv == ListTypes /\ OwedAhead /\ PagesMissNobody

\* No limit and no offset is 0 after parseInt(x || 10).
LEMMA Limits ==
    ASSUME NEW x \in Nat
    PROVE  OrDefault(x) \in Nat /\ OrDefault(x) > 0
BY DEF OrDefault

\* Where the elements of a sequence are after one is put in at i.
LEMMA Inserted ==
    ASSUME NEW S, NEW s \in Seq(S), NEW d \in S,
           NEW i \in 1 .. Len(s) + 1
    PROVE  /\ InsertAt(s, i, d) \in Seq(S)
           /\ Len(InsertAt(s, i, d)) = Len(s) + 1
           /\ \A j \in 1 .. Len(s) :
                 InsertAt(s, i, d)[IF j < i THEN j ELSE j + 1] = s[j]
<1> DEFINE before == SubSeq(s, 1, i - 1)
           after == SubSeq(s, i, Len(s))
<1>1. /\ Len(s) \in Nat /\ i \in Int /\ \A j \in 1 .. Len(s) : s[j] \in S
  OBVIOUS
<1>2. /\ before \in Seq(S) /\ Len(before) = i - 1
      /\ \A j \in 1 .. i - 1 : before[j] = s[j]
  <2>1. \A j \in 1 .. i - 1 : s[j] \in S
    BY <1>1
  <2> QED BY <1>1, <2>1, SubSeqProperties
<1>3. /\ after \in Seq(S) /\ Len(after) = Len(s) - i + 1
      /\ \A j \in 1 .. Len(s) - i + 1 : after[j] = s[i + j - 1]
  <2>1. \A j \in i .. Len(s) : s[j] \in S
    BY <1>1
  <2> QED BY <1>1, <2>1, SubSeqProperties
<1>4. <<d>> \in Seq(S) /\ Len(<<d>>) = 1
  OBVIOUS
<1> DEFINE left == before \o <<d>>
<1>5. /\ left \in Seq(S) /\ Len(left) = i
      /\ \A j \in 1 .. i - 1 : left[j] = s[j]
  BY <1>1, <1>2, <1>4, ConcatProperties
<1>6. InsertAt(s, i, d) = left \o after
  BY DEF InsertAt
<1> HIDE DEF before, after, left
<1>7. /\ left \o after \in Seq(S) /\ Len(left \o after) = Len(s) + 1
      /\ \A j \in 1 .. Len(s) + 1 :
            (left \o after)[j] = IF j <= i THEN left[j] ELSE after[j - i]
  <2>1. i + (Len(s) - i + 1) = Len(s) + 1
    BY <1>1
  <2> QED BY <1>3, <1>5, <2>1, ConcatProperties
<1>8. ASSUME NEW j \in 1 .. Len(s)
      PROVE  (left \o after)[IF j < i THEN j ELSE j + 1] = s[j]
  <2>1. CASE j < i
    BY <1>1, <1>5, <1>7, <2>1
  <2>2. CASE ~ (j < i)
    BY <1>1, <1>3, <1>7, <2>2
  <2> QED BY <2>1, <2>2
<1> QED BY <1>6, <1>7, <1>8

\* A sequence without its element at i is a sequence.
LEMMA Removed ==
    ASSUME NEW S, NEW s \in Seq(S), NEW i \in 1 .. Len(s)
    PROVE  RemoveAt(s, i) \in Seq(S)
<1>1. SubSeq(s, 1, i - 1) \in Seq(S)
  BY SubSeqProperties
<1>2. SubSeq(s, i + 1, Len(s)) \in Seq(S)
  BY SubSeqProperties
<1> QED BY <1>1, <1>2, ConcatProperties DEF RemoveAt

\* A page has the documents from Start on, at most Limit of them.
LEMMA PageHas ==
    ASSUME ListTypes, Walking
    PROVE  /\ Start \in Nat /\ Limit \in Nat /\ Limit > 0
           /\ \A i \in DOMAIN matching :
                 Start < i /\ i <= Start + Limit
                    => matching[i] \in ToSet(Page)
           /\ Page = << >> => Len(matching) <= Start
<1> DEFINE last == Min({Start + Limit, Len(matching)})
<1>1. /\ Start \in Nat /\ Limit \in Nat /\ Limit > 0
      /\ Len(matching) \in Nat
      /\ matching \in Seq(Document)
  <2>1. request.offset \in Nat /\ request.limit \in Nat
    BY DEF ListTypes
  <2>2. Limit \in Nat /\ Limit > 0
        /\ OrDefault(request.offset) \in Nat
    BY <2>1, Limits DEF Limit
  <2>3. Start \in Nat
    BY <2>2 DEF Start, Skipped
  <2> QED BY <2>2, <2>3 DEF ListTypes
<1>2. /\ last \in Nat /\ last <= Start + Limit /\ last <= Len(matching)
      /\ last = Start + Limit \/ last = Len(matching)
  BY <1>1 DEF Min
<1>3. Page = SubSeq(matching, Start + 1, last)
  BY DEF Page, Start
<1> HIDE DEF last
<1>4. /\ Page \in Seq(Document)
      /\ Len(Page) = IF Start + 1 <= last THEN last - Start ELSE 0
      /\ \A k \in 1 .. last - Start : Page[k] = matching[Start + k]
  <2>1. \A k \in Start + 1 .. last : matching[k] \in Document
    BY <1>1, <1>2
  <2> QED BY <1>1, <1>2, <1>3, <2>1, SubSeqProperties
<1>5. ASSUME NEW i \in DOMAIN matching, Start < i, i <= Start + Limit
      PROVE  matching[i] \in ToSet(Page)
  <2>1. i - Start \in 1 .. last - Start /\ i \in Nat
    BY <1>1, <1>2, <1>5
  <2>2. Page[i - Start] = matching[i] /\ i - Start \in DOMAIN Page
    BY <1>1, <1>2, <1>4, <2>1
  <2> QED BY <2>2 DEF ToSet
<1>6. Page = << >> => Len(matching) <= Start
  BY <1>1, <1>2, <1>4
<1> QED BY <1>1, <1>5, <1>6

\* The walk begins at the first document; what matches is owed.
LEMMA BeginAhead ==
    ASSUME WInv, NEW l \in 0 .. MaxLimit, BeginWalk(l)
    PROVE  WInv'
<1>1. /\ request' = [pc |-> "count", limit |-> l, offset |-> l]
      /\ matching' = matching /\ owed' = ToSet(matching)
  BY DEF BeginWalk
<1>2. l \in Nat /\ OrDefault(l) \in Nat
  BY Limits
<1>3. ListTypes'
  BY <1>1, <1>2 DEF WInv, ListTypes
<1>4. Limit' = OrDefault(l)
      /\ OrDefault(request'.offset) = OrDefault(l)
  BY <1>1 DEF Limit
<1>5. Start' = 0
  BY <1>2, <1>4 DEF Start, Skipped
<1>6. OwedAhead'
  <2>1. OrDefault(request'.offset) >= Limit'
    BY <1>2, <1>4
  <2>2. ASSUME NEW d \in owed'
        PROVE \E i \in DOMAIN matching' : i > 0 /\ matching'[i] = d
    BY <1>1, <2>2 DEF ToSet, WInv, ListTypes
  <2> QED BY <1>5, <2>1, <2>2 DEF OwedAhead
<1> QED BY <1>1, <1>3, <1>6 DEF WInv, PagesMissNobody

\* A page that is found lists the documents the next one begins after.
LEMMA FindAhead ==
    ASSUME WInv, FindPage
    PROVE  WInv'
<1> DEFINE o == OrDefault(request.offset)
<1>1. /\ request.pc = "find" /\ Walking
      /\ request' = [request EXCEPT !.pc = "count", !.offset = o + Limit]
      /\ listed' = listed \cup ToSet(Page)
      /\ matching' = matching /\ owed' = owed
  BY DEF FindPage, Walking
<1>2. /\ request.offset \in Nat /\ request.limit \in Nat
      /\ o \in Nat /\ o > 0 /\ Limit \in Nat /\ Limit > 0
      /\ o >= Limit
  BY <1>1, Limits DEF WInv, ListTypes, Limit, OwedAhead
<1>3. /\ request'.pc = "count" /\ request'.limit = request.limit
      /\ request'.offset = o + Limit
  BY <1>1 DEF WInv, ListTypes
<1>4. ListTypes'
  <2>1. o + Limit \in Nat
    BY <1>2
  <2>2. [request EXCEPT !.pc = "count", !.offset = o + Limit]
          \in [pc : {"idle", "count", "find", "done"},
               limit : Nat, offset : Nat]
    BY <2>1 DEF WInv, ListTypes
  <2> QED BY <1>1, <2>2 DEF WInv, ListTypes
<1>5. /\ Limit' = Limit
      /\ OrDefault(request'.offset) = o + Limit
  BY <1>2, <1>3 DEF Limit, OrDefault
<1>6. Start = o - Limit /\ Start' = Start + Limit
  BY <1>2, <1>5 DEF Start, Skipped
<1>7. ASSUME NEW d \in owed' \ listed'
      PROVE  \E i \in DOMAIN matching' : i > Start' /\ matching'[i] = d
  <2>1. PICK i \in DOMAIN matching : i > Start /\ matching[i] = d
    BY <1>1, <1>7 DEF WInv, OwedAhead
  <2>2. ~ (i <= Start + Limit)
    BY <1>1, <1>7, <2>1, PageHas DEF WInv
  <2>3. i \in Nat /\ Start \in Int
    BY <1>2, <1>6, <2>1 DEF WInv, ListTypes
  <2> QED BY <1>1, <1>2, <1>6, <2>1, <2>2, <2>3
<1>8. OwedAhead'
  BY <1>2, <1>5, <1>7 DEF OwedAhead
<1> QED BY <1>3, <1>4, <1>8 DEF WInv, PagesMissNobody

\* The walk ends on an empty page: nothing that is owed comes after it.
LEMMA NotFoundAhead ==
    ASSUME WInv, NotFound
    PROVE  WInv'
<1>1. /\ Walking /\ Page = << >> /\ UNCHANGED <<matching, listed, owed>>
      /\ request' = [request EXCEPT !.pc = "done"]
  BY DEF NotFound, Walking
<1>2. ListTypes' /\ request'.pc = "done"
  BY <1>1 DEF WInv, ListTypes
<1>3. owed \subseteq listed
  <2>1. ASSUME NEW i \in DOMAIN matching, i > Start PROVE FALSE
    <3>1. Len(matching) <= Start /\ Start \in Nat
      BY <1>1, PageHas DEF WInv
    <3>2. i \in Nat /\ i <= Len(matching) /\ Len(matching) \in Nat
      BY DEF WInv, ListTypes
    <3> QED BY <2>1, <3>1, <3>2
  <2> QED BY <1>1, <2>1 DEF WInv, OwedAhead
<1> QED BY <1>1, <1>2, <1>3 DEF WInv, OwedAhead, Walking, PagesMissNobody

\* The other steps of the client leave the pages as they are.
LEMMA ClientAhead ==
    ASSUME WInv,
           Count \/ FindThrows \/ Again
    PROVE  WInv'
<1>1. /\ UNCHANGED <<matching, listed, owed>>
      /\ \/ Walking /\ request' = [request EXCEPT !.pc = "find"]
         \/ Walking /\ request' = [request EXCEPT !.pc = "count"]
         \/ request' = [request EXCEPT !.pc = "idle"]
  BY DEF Count, FindThrows, Again, Walking
<1>2. /\ ListTypes' /\ request'.pc # "done"
      /\ Walking' => Walking
      /\ request'.limit = request.limit /\ request'.offset = request.offset
  BY <1>1 DEF WInv, ListTypes, Walking
<1>3. Limit' = Limit /\ Start' = Start
      /\ OrDefault(request'.offset) = OrDefault(request.offset)
  BY <1>2 DEF Limit, Start
<1>4. OwedAhead'
  BY <1>1, <1>2, <1>3 DEF WInv, OwedAhead
<1> QED BY <1>2, <1>4 DEF WInv, PagesMissNobody

\* A document that appears moves others to later positions only.
LEMMA EnterAhead ==
    ASSUME WInv, NEW d \in Document,
           NEW i \in 1 .. Len(matching) + 1, Enter(d, i)
    PROVE  WInv'
<1>1. matching' = InsertAt(matching, i, d)
      /\ UNCHANGED <<request, listed, owed>>
  BY DEF Enter
<1>2. /\ matching \in Seq(Document) /\ matching' \in Seq(Document)
      /\ Len(matching') = Len(matching) + 1
      /\ \A j \in 1 .. Len(matching) :
            matching'[IF j < i THEN j ELSE j + 1] = matching[j]
  BY <1>1, Inserted DEF WInv, ListTypes
<1>3. Start' = Start /\ Limit' = Limit
  BY <1>1 DEF Start, Limit
<1>4. ASSUME Walking, NEW x \in owed \ listed
      PROVE  \E j \in DOMAIN matching' : j > Start /\ matching'[j] = x
  <2>1. PICK j \in DOMAIN matching : j > Start /\ matching[j] = x
    BY <1>4 DEF WInv, OwedAhead
  <2>2. /\ j \in 1 .. Len(matching) /\ Len(matching) \in Nat /\ Start \in Nat
    BY <1>2, <1>4, PageHas DEF WInv
  <2> DEFINE k == IF j < i THEN j ELSE j + 1
  <2>3. k \in DOMAIN matching' /\ k > Start
    BY <1>2, <2>1, <2>2
  <2>4. matching'[k] = x
    BY <1>2, <2>1, <2>2
  <2> QED BY <2>3, <2>4
<1>5. Walking' = Walking
  BY <1>1 DEF Walking
<1>6. OwedAhead'
  BY <1>1, <1>3, <1>4, <1>5 DEF WInv, OwedAhead
<1> QED BY <1>1, <1>2, <1>6 DEF WInv, ListTypes, PagesMissNobody

\* When one leaves, the walk owes only what it has listed.
LEMMA LeaveAhead ==
    ASSUME WInv, NEW i \in DOMAIN matching, Leave(i)
    PROVE  WInv'
<1>1. /\ matching' = RemoveAt(matching, i)
      /\ UNCHANGED <<request, listed>>
      /\ owed' = IF Walking THEN owed \cap listed ELSE owed
  BY DEF Leave, Walking
<1>2. matching \in Seq(Document) /\ i \in 1 .. Len(matching)
  BY DEF WInv, ListTypes
<1>3. ListTypes'
  BY <1>1, <1>2, Removed DEF WInv, ListTypes
<1>4. Walking' = Walking /\ Limit' = Limit
  BY <1>1 DEF Walking, Limit
<1> QED BY <1>1, <1>3, <1>4 DEF WInv, OwedAhead, PagesMissNobody

\* What matches at first is a sequence of documents.
LEMMA FirstMatching ==
    SetToAllKPermutations(Document) \subseteq Seq(Document)
<1> SUFFICES ASSUME NEW s \in SUBSET Document, NEW f \in SetToSeqs(s)
             PROVE  f \in Seq(Document)
  BY DEF SetToAllKPermutations
<1>1. Cardinality(s) \in Nat
  BY DocumentAssumption, FS_Subset, FS_CardinalityType
<1>2. f \in [1 .. Cardinality(s) -> Document]
  BY DEF SetToSeqs
<1> QED BY <1>1, <1>2

\* The listing of any finite set of documents, page by page and with any
\* limits, misses no document that matched all the time.
THEOREM NobodyIsMissed ==
    ListingSpec => []PagesMissNobody
<1>1. ListingInit => WInv
  BY FirstMatching DEF ListingInit, WInv, ListTypes, OwedAhead, Walking,
     PagesMissNobody
<1>2. WInv /\ [ListingNext]_listingVars => WInv'
  <2> SUFFICES ASSUME WInv, [ListingNext]_listingVars PROVE WInv'
    OBVIOUS
  <2>1. CASE UNCHANGED listingVars
    BY <2>1 DEF listingVars, WInv, ListTypes, OwedAhead, Walking, Start, Limit,
       PagesMissNobody
  <2> QED BY <2>1, BeginAhead, FindAhead, NotFoundAhead, ClientAhead,
             EnterAhead, LeaveAhead DEF ListingNext
<1>3. WInv => PagesMissNobody
  BY DEF WInv
<1> QED BY <1>1, <1>2, <1>3, PTL DEF ListingSpec
HIDE LimitAssumption
-----------------------------------------------------------------------------
(* Gateway: what the steps of its handlers may answer.                     *)

\* May the step s end a request with the status a?
Says(s, a) == \/ \E r \in s.refuses : r[2] = a
              \/ a \in s.fails \cup {500}

\* A step that answers no client error, and a procedure of which no step does
\* once one may have written.
Firm(s) == \A a \in ClientError : ~ Says(s, a)
Firmly(S) == \A i, j \in DOMAIN S : i <= j /\ S[i].kind # "read" => Firm(S[j])

\* A procedure of which no step fails unnoticed or answers a success.
Honest(S) == \A i \in DOMAIN S : S[i].kind # "tried" /\ ~ Says(S[i], 200)

\* A procedure whose refusals arrive as they were chosen, if they were.
Faithful(S) == \A i \in DOMAIN S : \A r \in S[i].refuses : r[1] \in {500, r[2]}

Dropping == {"uploadImage", "Users", "health", "listTransactions",
             "createStripeAccount", "twoFactorOtp", "sendEmailOtp",
             "forgotPasswordOtp"}

\* The same of every step of a procedure.
Reading(S) == \A i \in DOMAIN S : S[i].kind = "read"
AllFirm(S) == \A i \in DOMAIN S : Firm(S[i])
Untried(S) == \A i \in DOMAIN S : S[i].kind # "tried"

\* A sequence of steps, as far as the lemmas need it.
Field == {"kind", "refuses", "fails"}
IsProc(S) == /\ \E n \in Nat : S \in [1 .. n -> {S[i] : i \in DOMAIN S}]
             /\ \A i \in DOMAIN S : DOMAIN S[i] = Field

\* The steps of the services are made by the same operators.
LEMMA SameSteps ==
    /\ \A S, t : userService!Caught(S, t) = Caught(S, t)
    /\ \A S, t : walletService!Caught(S, t) = Caught(S, t)
    /\ \A S, t : walletService!userService!Caught(S, t) = Caught(S, t)
    /\ \A S : userService!Optional(S) = Optional(S)
BY Zenon DEF Caught, userService!Caught, walletService!Caught,
   walletService!userService!Caught, Optional, userService!Optional

\* What a catch block makes of a step.
LEMMA Element ==
    ASSUME NEW S, NEW t, NEW i \in DOMAIN S, DOMAIN S[i] = Field
    PROVE  LET s == Caught(S, t)[i] IN
           /\ DOMAIN Caught(S, t) = DOMAIN S
           /\ DOMAIN s = Field /\ s.kind = S[i].kind /\ s.fails \subseteq {t}
           /\ s.refuses = {<<r[1], t>> : r \in S[i].refuses}
BY DEF Caught, Field

\* What a catch block makes of a procedure: it answers nothing but its status.
LEMMA CaughtProc ==
    ASSUME NEW S, IsProc(S), NEW t
    PROVE  LET T == Caught(S, t) IN
           /\ IsProc(T)
           /\ Reading(S) => Reading(T)
           /\ Untried(S) => Untried(T)
           /\ Untried(S) /\ t \notin {200} => Honest(T)
           /\ t \notin ClientError => AllFirm(T)
           /\ (\A i \in DOMAIN S : \A r \in S[i].refuses : r[1] \in {500, t})
                 => Faithful(T)
<1> DEFINE T == Caught(S, t)
<1>1. /\ DOMAIN T = DOMAIN S
      /\ \A i \in DOMAIN S :
            /\ DOMAIN T[i] = Field /\ T[i].kind = S[i].kind
            /\ T[i].fails \subseteq {t}
            /\ T[i].refuses = {<<r[1], t>> : r \in S[i].refuses}
  <2>1. DOMAIN T = DOMAIN S
    BY DEF Caught
  <2>2. ASSUME NEW i \in DOMAIN S
        PROVE  /\ DOMAIN T[i] = Field /\ T[i].kind = S[i].kind
               /\ T[i].fails \subseteq {t}
               /\ T[i].refuses = {<<r[1], t>> : r \in S[i].refuses}
    <3>1. DOMAIN S[i] = Field
      BY DEF IsProc
    <3> QED BY <3>1, Element
  <2> HIDE DEF T
  <2> QED BY <2>1, <2>2
<1>2. T = [i \in DOMAIN S |-> T[i]]
  BY DEF Caught
<1> HIDE DEF T
<1>3. IsProc(T)
  BY <1>1, <1>2 DEF IsProc
<1>4. (Reading(S) => Reading(T)) /\ (Untried(S) => Untried(T))
  BY <1>1 DEF Reading, Untried
<1>5. \A i \in DOMAIN S : \A a : Says(T[i], a) => a \in {t, 500}
  BY <1>1 DEF Says
<1>6. Untried(S) /\ t \notin {200} => Honest(T)
  BY <1>1, <1>5 DEF Untried, Honest
<1>7. t \notin ClientError => AllFirm(T)
  BY <1>1, <1>5 DEF ClientError, AllFirm, Firm
<1>8. ASSUME \A i \in DOMAIN S : \A r \in S[i].refuses : r[1] \in {500, t}
      PROVE  Faithful(T)
  BY <1>1, <1>8 DEF Faithful
<1> QED BY <1>3, <1>4, <1>6, <1>7, <1>8 DEF T

\* The steps of one procedure and then of another.
LEMMA Joined ==
    ASSUME NEW S, NEW T, IsProc(S), IsProc(T)
    PROVE  /\ IsProc(S \o T)
           /\ \A i \in DOMAIN (S \o T) :
                 \/ i \in DOMAIN S /\ (S \o T)[i] = S[i]
                 \/ \E j \in DOMAIN T : (S \o T)[i] = T[j] /\ i \notin DOMAIN S
           /\ \A i, j \in DOMAIN (S \o T) : i <= j /\ j \in DOMAIN S
                 => i \in DOMAIN S
           /\ \A i, j \in DOMAIN (S \o T) : i <= j /\ i \notin DOMAIN S =>
                 \E k, l \in DOMAIN T : k <= l /\ (S \o T)[i] = T[k]
                    /\ (S \o T)[j] = T[l]
<1> DEFINE U == {S[i] : i \in DOMAIN S} \cup {T[i] : i \in DOMAIN T}
<1>1. PICK m \in Nat : S \in [1 .. m -> {S[i] : i \in DOMAIN S}]
  BY DEF IsProc
<1>2. PICK n \in Nat : T \in [1 .. n -> {T[i] : i \in DOMAIN T}]
  BY DEF IsProc
<1>3. S \in [1 .. m -> U] /\ T \in [1 .. n -> U]
  BY <1>1, <1>2
<1>4. /\ S \in Seq(U) /\ DOMAIN S = 1 .. m
      /\ T \in Seq(U) /\ DOMAIN T = 1 .. n
  BY <1>3, SeqDef
<1>5. Len(S) = m /\ Len(T) = n
  BY <1>4, LenProperties
<1> HIDE DEF U
<1> DEFINE V == S \o T
<1>6. /\ V \in Seq(U) /\ Len(V) = m + n
      /\ \A i \in 1 .. m + n : V[i] = IF i <= m THEN S[i] ELSE T[i - m]
  BY <1>4, <1>5, ConcatProperties
<1>7. V \in [1 .. m + n -> U] /\ DOMAIN V = 1 .. m + n
  BY <1>6, LenProperties
<1> HIDE DEF V
<1>8. \A i \in 1 .. m + n :
        \/ i \in 1 .. m /\ V[i] = S[i]
        \/ i \notin 1 .. m /\ i - m \in 1 .. n /\ V[i] = T[i - m]
  BY <1>6
<1>9. IsProc(V)
  <2>1. V \in [1 .. m + n -> {V[i] : i \in DOMAIN V}] /\ m + n \in Nat
    BY <1>7
  <2>2. \A i \in DOMAIN V : DOMAIN V[i] = Field
    BY <1>4, <1>7, <1>8 DEF IsProc
  <2> QED BY <2>1, <2>2 DEF IsProc
<1>10. \A i, j \in DOMAIN V : i <= j /\ i \notin DOMAIN S =>
          \E k, l \in DOMAIN T : k <= l /\ V[i] = T[k] /\ V[j] = T[l]
  <2> SUFFICES ASSUME NEW i \in DOMAIN V, NEW j \in DOMAIN V, i <= j,
                      i \notin DOMAIN S
               PROVE  \E k, l \in DOMAIN T : k <= l /\ V[i] = T[k]
                         /\ V[j] = T[l]
    OBVIOUS
  <2>1. i - m \in DOMAIN T /\ j - m \in DOMAIN T /\ i - m <= j - m
    BY <1>4, <1>7
  <2>2. V[i] = T[i - m] /\ V[j] = T[j - m]
    BY <1>4, <1>7, <1>8
  <2> QED BY <2>1, <2>2
<1>11. \A i \in DOMAIN V : \/ i \in DOMAIN S /\ V[i] = S[i]
                           \/ \E j \in DOMAIN T : V[i] = T[j]
                                 /\ i \notin DOMAIN S
  BY <1>4, <1>7, <1>8
<1>12. \A i, j \in DOMAIN V : i <= j /\ j \in DOMAIN S => i \in DOMAIN S
  BY <1>4, <1>7
<1> QED BY <1>9, <1>10, <1>11, <1>12 DEF V

\* What two procedures have, so has one after the other.
LEMMA JoinedProc ==
    ASSUME NEW S, NEW T, IsProc(S), IsProc(T)
    PROVE  /\ IsProc(S \o T)
           /\ Reading(S) /\ Reading(T) => Reading(S \o T)
           /\ Untried(S) /\ Untried(T) => Untried(S \o T)
           /\ Honest(S) /\ Honest(T) => Honest(S \o T)
           /\ Faithful(S) /\ Faithful(T) => Faithful(S \o T)
           /\ AllFirm(S) /\ AllFirm(T) => AllFirm(S \o T)
           /\ Reading(S) /\ Firmly(T) => Firmly(S \o T)
           /\ Firmly(S) /\ AllFirm(T) => Firmly(S \o T)
<1> DEFINE V == S \o T
<1>1. /\ IsProc(V)
      /\ \A i \in DOMAIN V :
                 \/ i \in DOMAIN S /\ V[i] = S[i]
                 \/ \E j \in DOMAIN T : V[i] = T[j] /\ i \notin DOMAIN S
      /\ \A i, j \in DOMAIN V : i <= j /\ j \in DOMAIN S => i \in DOMAIN S
      /\ \A i, j \in DOMAIN V : i <= j /\ i \notin DOMAIN S =>
                 \E k, l \in DOMAIN T : k <= l /\ V[i] = T[k] /\ V[j] = T[l]
  BY Joined
<1> HIDE DEF V
<1>2. Reading(S) /\ Reading(T) => Reading(V)
  BY <1>1 DEF Reading
<1>3. Untried(S) /\ Untried(T) => Untried(V)
  BY <1>1 DEF Untried
<1>4. Honest(S) /\ Honest(T) => Honest(V)
  BY <1>1 DEF Honest
<1>5. Faithful(S) /\ Faithful(T) => Faithful(V)
  BY <1>1 DEF Faithful
<1>6. AllFirm(S) /\ AllFirm(T) => AllFirm(V)
  BY <1>1 DEF AllFirm
<1>7. Reading(S) /\ Firmly(T) => Firmly(V)
  BY <1>1 DEF Reading, Firmly
<1>8. Firmly(S) /\ AllFirm(T) => Firmly(V)
  BY <1>1 DEF Firmly, AllFirm
<1> QED BY <1>1, <1>2, <1>3, <1>4, <1>5, <1>6, <1>7, <1>8 DEF V

\* A procedure of a single read.
LEMMA OneRead ==
    ASSUME NEW c, NEW s, DOMAIN s = Field, s.kind = "read",
           s.refuses = {<<c, c>>}
    PROVE  /\ IsProc(<<s>>) /\ Reading(<<s>>) /\ Untried(<<s>>)
           /\ \A i \in DOMAIN <<s>> :
                 \A r \in <<s>>[i].refuses : r[1] \in {500, c}
<1> DEFINE S == <<s>>
<1>1. DOMAIN S = 1 .. 1 /\ S[1] = s /\ S = [i \in 1 .. 1 |-> S[i]] /\ 1 \in Nat
  OBVIOUS
<1> HIDE DEF S
<1>2. IsProc(S)
  BY <1>1 DEF IsProc
<1>3. Reading(S) /\ Untried(S)
  BY <1>1 DEF Reading, Untried
<1>4. \A i \in DOMAIN S : \A r \in S[i].refuses : r[1] \in {500, c}
  BY <1>1
<1> QED BY <1>2, <1>3, <1>4 DEF S

\* The procedures that are one read in catch blocks.
LEMMA CaughtFinds ==
    /\ \A S \in {userService!getUsersByFilters, userService!getUserById,
                userService!listUsers,
                walletService!Caught(<<walletService!Find({404})>>, 404)} :
          IsProc(S) /\ Reading(S) /\ Honest(S) /\ Faithful(S)
    /\ \A S \in {Remote(userService!findOneByEmailOrUsername),
                findOneById,
                walletService!Remote(walletService!userService!findOneById),
                walletService!checkBalance} :
          IsProc(S) /\ Reading(S) /\ Honest(S)
<1>1. ASSUME NEW s, s \in {userService!Find({404}), walletService!Find({404})}
      PROVE  LET T == Caught(<<s>>, 404)
             IN  IsProc(T) /\ Reading(T) /\ Honest(T) /\ Faithful(T)
  <2>1. DOMAIN s = Field /\ s.kind = "read" /\ s.refuses = {<<404, 404>>}
    BY <1>1 DEF Field, userService!Find, userService!Chosen,
       walletService!Find, walletService!Chosen
  <2> QED BY <2>1, OneRead, CaughtProc
<1>2. ASSUME NEW s,
             s \in {userService!Find({401}),
                walletService!userService!Find({401})}
      PROVE  LET T == Caught(<<s>>, 500)
             IN  IsProc(T) /\ Reading(T) /\ Untried(T) /\ Honest(T)
  <2>1. DOMAIN s = Field /\ s.kind = "read" /\ s.refuses = {<<401, 401>>}
    BY <1>2 DEF Field, userService!Find, userService!Chosen,
       walletService!userService!Find, walletService!userService!Chosen
  <2>2. IsProc(<<s>>) /\ Reading(<<s>>) /\ Untried(<<s>>)
    BY <2>1, OneRead
  <2> QED BY <2>2, CaughtProc
<1>3. LET T == Caught(Caught(<<walletService!userService!Find({401})>>, 500),
             406)
      IN  IsProc(T) /\ Reading(T) /\ Honest(T)
  BY <1>2, CaughtProc
<1>4. /\ userService!getUsersByFilters =
            Caught(<<userService!Find({404})>>, 404)
      /\ userService!getUserById = Caught(<<userService!Find({404})>>, 404)
      /\ userService!listUsers = Caught(<<userService!Find({404})>>, 404)
      /\ walletService!Caught(<<walletService!Find({404})>>, 404) =
            Caught(<<walletService!Find({404})>>, 404)
      /\ Remote(userService!findOneByEmailOrUsername) =
            Caught(<<userService!Find({401})>>, 500)
      /\ findOneById = Caught(<<userService!Find({401})>>, 500)
      /\ walletService!Remote(walletService!userService!findOneById) =
            Caught(<<walletService!userService!Find({401})>>, 500)
      /\ walletService!checkBalance =
            Caught(Caught(<<walletService!userService!Find({401})>>, 500), 406)
  BY SameSteps, Zenon DEF userService!getUsersByFilters,
     userService!getUserById, userService!listUsers, Remote,
     userService!findOneByEmailOrUsername, findOneById,
     userService!findOneById, walletService!Remote,
     walletService!userService!findOneById, walletService!checkBalance
<1> QED BY <1>1, <1>2, <1>3, <1>4

\* One, two or three steps are a procedure.
LEMMA Tuples ==
    /\ \A a : DOMAIN a = Field => IsProc(<<a>>)
    /\ \A a, b : DOMAIN a = Field /\ DOMAIN b = Field => IsProc(<<a, b>>)
    /\ \A a, b, c : DOMAIN a = Field /\ DOMAIN b = Field /\ DOMAIN c = Field
          => IsProc(<<a, b, c>>)
<1>1. ASSUME NEW a, DOMAIN a = Field PROVE IsProc(<<a>>)
  <2> DEFINE S == <<a>>
  <2>1. 1 \in Nat /\ DOMAIN S = 1 .. 1 /\ S[1] = a
        /\ S = [i \in 1 .. 1 |-> S[i]]
    OBVIOUS
  <2> HIDE DEF S
  <2>2. IsProc(S)
    BY <1>1, <2>1 DEF IsProc
  <2> QED BY <2>2 DEF S
<1>2. ASSUME NEW a, NEW b, DOMAIN a = Field, DOMAIN b = Field
      PROVE IsProc(<<a, b>>)
  <2> DEFINE S == <<a, b>>
  <2>1. /\ 2 \in Nat /\ DOMAIN S = 1 .. 2 /\ S[1] = a /\ S[2] = b
        /\ S = [i \in 1 .. 2 |-> S[i]]
    OBVIOUS
  <2> HIDE DEF S
  <2>2. IsProc(S)
    BY <1>2, <2>1 DEF IsProc
  <2> QED BY <2>2 DEF S
<1>3. ASSUME NEW a, NEW b, NEW c, DOMAIN a = Field, DOMAIN b = Field,
             DOMAIN c = Field
      PROVE IsProc(<<a, b, c>>)
  <2> DEFINE S == <<a, b, c>>
  <2>1. /\ 3 \in Nat /\ DOMAIN S = 1 .. 3 /\ S[1] = a /\ S[2] = b /\ S[3] = c
        /\ S = [i \in 1 .. 3 |-> S[i]]
    OBVIOUS
  <2> HIDE DEF S
  <2>2. IsProc(S)
    BY <1>3, <2>1 DEF IsProc
  <2> QED BY <2>2 DEF S
<1> QED BY <1>1, <1>2, <1>3

\* A path that is not always taken drops no failure.
LEMMA OptionalProc ==
    ASSUME NEW S, IsProc(S), Untried(S)
    PROVE  IsProc(Optional(S)) /\ Untried(Optional(S))
<1> DEFINE T == Optional(S)
<1>1. DOMAIN T = DOMAIN S /\ T = [i \in DOMAIN S |-> T[i]]
  BY DEF Optional
<1>2. ASSUME NEW i \in DOMAIN S
      PROVE  DOMAIN T[i] = Field /\ T[i].kind # "tried"
  BY DEF Optional, IsProc, Untried, Field
<1> HIDE DEF T
<1>3. IsProc(T)
  BY <1>1, <1>2 DEF IsProc
<1>4. Untried(T)
  BY <1>1, <1>2 DEF Untried
<1> QED BY <1>3, <1>4 DEF T

\* A catch block that drops an error writes nothing of its own.
LEMMA DroppedReads ==
    ASSUME NEW S, IsProc(S), Reading(S)
    PROVE  Reading(Dropped(S))
<1> DEFINE T == Dropped(S)
<1>1. DOMAIN T = DOMAIN S
  BY DEF Dropped
<1>2. ASSUME NEW i \in DOMAIN S PROVE T[i].kind = "read"
  <2>1. DOMAIN S[i] = Field /\ S[i].kind = "read"
    BY DEF IsProc, Reading
  <2>2. T[i] = [S[i] EXCEPT !.refuses = {r[1] : r \in @} \X {200, 500},
                            !.fails = {200, 500}]
    BY DEF Dropped
  <2> QED BY <2>1, <2>2 DEF Field
<1> HIDE DEF T
<1>3. Reading(T)
  BY <1>1, <1>2 DEF Reading
<1> QED BY <1>3 DEF T

\* The handlers with catch blocks between their procedures.
LEMMA JoinedHandlers ==
    /\ Firmly(restUpdateProfile.steps)
    /\ Honest(restUpdateProfile.steps)
    /\ Firmly(topUpWalletConfirm.steps)
    /\ Honest(topUpWalletConfirm.steps)
    /\ Honest(cbWebhook.steps)
    /\ Faithful(listTransactions.steps)
    /\ \A S \in {getUsersByFilters.steps, getUserById.steps,
                 restListUsers.steps} :
          Firmly(S) /\ Faithful(S) /\ Honest(S)
    /\ \A S \in {restFindOne.steps, checkBalance.steps} :
          Firmly(S) /\ Honest(S)
    /\ Firmly(Users.steps)
<1>1. LET S == walletService!Remote(walletService!userService!balanceUpdate)
      IN IsProc(S) /\ Honest(S) /\ AllFirm(S)
  <2> DEFINE S == <<walletService!userService!Find({404}),
         walletService!userService!Save>>
  <2>1. DOMAIN walletService!userService!Find({404}) = Field
        /\ DOMAIN walletService!userService!Save = Field
    BY DEF Field, walletService!userService!Find,
       walletService!userService!Save
  <2>2. IsProc(S)
    BY <2>1, Tuples
  <2>3. Untried(S)
    BY DEF Untried, walletService!userService!Find,
       walletService!userService!Save
  <2> HIDE DEF S
  <2>4. IsProc(Caught(S, 400)) /\ Untried(Caught(S, 400))
    BY <2>2, <2>3, CaughtProc
  <2>5. LET T == Caught(Caught(S, 400), 500)
        IN IsProc(T) /\ Honest(T) /\ AllFirm(T)
    BY <2>4, CaughtProc DEF ClientError
  <2> QED BY <2>5, SameSteps, Zenon DEF S, walletService!Remote,
          walletService!userService!balanceUpdate
<1>2. LET S == <<walletService!Save>> IN IsProc(S) /\ Honest(S) /\ AllFirm(S)
  <2>1. DOMAIN walletService!Save = Field
    BY DEF Field, walletService!Save
  <2>2. Honest(<<walletService!Save>>)
    BY DEF Honest, Says, walletService!Save
  <2>3. AllFirm(<<walletService!Save>>)
    BY DEF AllFirm, Firm, Says, walletService!Save, ClientError
  <2> QED BY <2>1, <2>2, <2>3, Tuples
<1>3. LET S == <<walletService!Find({404, 406}), walletService!Find({406})>>
      IN  IsProc(S) /\ Reading(S) /\ Honest(S)
  <2>1. DOMAIN walletService!Find({404, 406}) = Field
        /\ DOMAIN walletService!Find({406}) = Field
    BY DEF Field, walletService!Find
  <2>2. Honest(<<walletService!Find({404, 406}), walletService!Find({406})>>)
    BY DEF Honest, Says, walletService!Find, walletService!Chosen
  <2>3. Reading(<<walletService!Find({404, 406}), walletService!Find({406})>>)
    BY DEF Reading, walletService!Find
  <2> QED BY <2>1, <2>2, <2>3, Tuples
<1>4. LET S == walletService!creditAccount
      IN IsProc(S) /\ Honest(S) /\ Firmly(S)
  <2> DEFINE B == walletService!checkBalance
             C == walletService!Remote(walletService!userService!balanceUpdate)
             D == <<walletService!Save>>
  <2>1. IsProc(B) /\ Reading(B) /\ Honest(B)
    BY CaughtFinds
  <2>2. Firmly(B)
    BY <2>1 DEF Firmly, Reading
  <2> HIDE DEF B, C, D
  <2>3. IsProc(C) /\ Honest(C) /\ AllFirm(C)
    BY <1>1 DEF C
  <2>4. IsProc(D) /\ Honest(D) /\ AllFirm(D)
    BY <1>2 DEF D
  <2>5. IsProc(B \o C) /\ Honest(B \o C) /\ Firmly(B \o C)
    BY <2>1, <2>2, <2>3, JoinedProc
  <2>6. LET S == B \o C \o D IN IsProc(S) /\ Honest(S) /\ Firmly(S)
    BY <2>4, <2>5, JoinedProc
  <2> QED BY <2>6, Zenon DEF B, C, D, walletService!creditAccount
<1>5. LET S == topUpWalletConfirm.steps IN Honest(S) /\ Firmly(S)
  <2> DEFINE A == walletService!Remote(walletService!userService!findOneById)
             B == <<walletService!Find({404, 406}), walletService!Find({406})>>
             C == walletService!creditAccount
  <2>1. IsProc(A) /\ Reading(A) /\ Honest(A)
    BY CaughtFinds
  <2> HIDE DEF A, B, C
  <2>2. IsProc(B) /\ Reading(B) /\ Honest(B)
    BY <1>3 DEF B
  <2>3. IsProc(C) /\ Firmly(C) /\ Honest(C)
    BY <1>4 DEF C
  <2>4. IsProc(A \o B) /\ Honest(A \o B) /\ Reading(A \o B)
    BY <2>1, <2>2, JoinedProc
  <2>5. LET S == A \o B \o C IN Honest(S) /\ Firmly(S)
    BY <2>3, <2>4, JoinedProc
  <2> QED BY <2>5 DEF A, B, C, walletService!confirmStripe,
          topUpWalletConfirm, Auth
<1>6. Honest(cbWebhook.steps)
  <2> DEFINE A == <<walletService!Find({}), walletService!Find({404, 406}),
                    walletService!LastSave({406})>>
  <2>1. /\ DOMAIN walletService!Find({404, 406}) = Field
        /\ DOMAIN walletService!Find({}) = Field
        /\ DOMAIN walletService!LastSave({406}) = Field
    BY DEF Field, walletService!Find, walletService!LastSave
  <2>2. IsProc(A)
    BY <2>1, Tuples
  <2>3. Honest(A)
    BY DEF Honest, Says, walletService!Find, walletService!Chosen,
       walletService!LastSave
  <2> HIDE DEF A
  <2>4. Honest(A \o walletService!creditAccount)
    BY <1>4, <2>2, <2>3, JoinedProc
  <2> QED BY <2>4 DEF A, walletService!confirmCoinbase, cbWebhook,
          Public
<1>7. Faithful(listTransactions.steps)
  <2> DEFINE A == walletService!Caught(<<walletService!Find({404})>>, 404)
             B == <<walletService!Try>>
  <2>1. IsProc(A) /\ Faithful(A)
    BY CaughtFinds
  <2>2. IsProc(B)
    <3>1. DOMAIN walletService!Try = Field
      BY DEF Field, walletService!Try
    <3> QED BY <3>1, Tuples
  <2>3. Faithful(B)
    BY DEF Faithful, walletService!Try
  <2> HIDE DEF A, B
  <2>4. Faithful(A \o B)
    BY <2>1, <2>2, <2>3, JoinedProc
  <2> QED BY <2>4 DEF A, B, listTransactions, Auth,
          walletService!listTransactions, walletService!getUserPerTransaction
<1>8. /\ \A S \in {getUsersByFilters.steps, getUserById.steps,
                   restListUsers.steps} :
            Firmly(S) /\ Faithful(S) /\ Honest(S)
      /\ \A S \in {restFindOne.steps, checkBalance.steps} :
            Firmly(S) /\ Honest(S)
  <2>1. /\ getUsersByFilters.steps = userService!getUsersByFilters
        /\ getUserById.steps = userService!getUserById
        /\ restListUsers.steps = userService!listUsers
        /\ restFindOne.steps =
              Remote(userService!findOneByEmailOrUsername)
        /\ checkBalance.steps = walletService!checkBalance
    BY DEF getUsersByFilters, getUserById, restListUsers, restFindOne,
       checkBalance, Public, Auth
  <2>2. ASSUME NEW S, Reading(S) PROVE Firmly(S)
    BY <2>2 DEF Reading, Firmly
  <2> QED BY <2>1, <2>2, CaughtFinds
<1>9. Firmly(Users.steps)
  <2>1. Users.steps = Dropped(userService!listUsers)
    BY Zenon, SameSteps DEF Users, Roles, ThroughAdmin, restListUsers, Public
  <2>2. Reading(Dropped(userService!listUsers))
    BY CaughtFinds, DroppedReads
  <2> QED BY <2>1, <2>2 DEF Reading, Firmly
<1>10. Firmly(restUpdateProfile.steps)
       /\ Honest(restUpdateProfile.steps)
  <2> DEFINE R == <<userService!Find({401}), userService!Save>>
             F == <<userService!Find({403})>>
             W == <<userService!Save>>
  <2>1. /\ DOMAIN userService!Find({401}) = Field
        /\ DOMAIN userService!Save = Field
        /\ DOMAIN userService!Find({403}) = Field
        /\ userService!Find({401}).kind = "read"
        /\ userService!Find({403}).kind = "read"
        /\ userService!Save.kind = "save"
    BY DEF Field, userService!Find, userService!Save
  <2>2. IsProc(R) /\ IsProc(F) /\ IsProc(W)
    BY <2>1, Tuples
  <2>3. Untried(R) /\ Untried(F) /\ Untried(W)
    BY <2>1 DEF Untried
  <2> HIDE DEF R, F, W
  <2>4. IsProc(Optional(R)) /\ Untried(Optional(R))
    BY <2>2, <2>3, OptionalProc
  <2>5. IsProc(Caught(W, 500)) /\ Untried(Caught(W, 500))
    BY <2>2, <2>3, CaughtProc
  <2> DEFINE T == Optional(R) \o (F \o Caught(W, 500))
  <2>6. IsProc(F \o Caught(W, 500)) /\ Untried(F \o Caught(W, 500))
    BY <2>2, <2>3, <2>5, JoinedProc
  <2>7. IsProc(T) /\ Untried(T)
    BY <2>4, <2>6, JoinedProc
  <2> HIDE DEF T
  <2>8. LET C == Caught(T, 500) IN IsProc(C) /\ Honest(C) /\ AllFirm(C)
    BY <2>7, CaughtProc DEF ClientError
  <2>9. IsProc(findOneById) /\ Reading(findOneById)
        /\ Honest(findOneById)
    BY CaughtFinds
  <2>10. Firmly(findOneById)
    BY <2>9 DEF Reading, Firmly
  <2>11. LET C == findOneById \o Caught(T, 500) IN Firmly(C) /\ Honest(C)
    BY <2>8, <2>9, <2>10, JoinedProc
  <2>12. restUpdateProfile.steps = findOneById \o Caught(T, 500)
    BY Zenon, SameSteps DEF T, R, F, W, restUpdateProfile, Public, Remote,
       userService!updateProfile, userService!resetPassword,
       userService!storeProfile
  <2> QED BY <2>11, <2>12
<1> QED BY <1>5, <1>6, <1>7, <1>8, <1>9, <1>10

\* The table of the handlers.
LEMMA TheHandlers ==
    /\ Name = {"login", "createUser", "twoFactorOtp", "twoFactorVerify",
                    "googleLogin", "appleLogin", "appleRefreshToken",
                    "uploadUserProfilePicture", "sendEmailOtp",
                    "verifyEmailOtp", "forgotPasswordOtp", "getLoggedInUser",
                    "resetPassword", "forgotPassword", "updateProfile",
                    "checkEmail", "checkUsername", "getUsersByFilters",
                    "getBalance", "getUserById", "restLogin",
                    "registerCaptcha", "restCreate", "kycVerification",
                    "kycWebhook", "userHealth", "restFindOne",
                    "restUpdateProfile", "createCharge",
                    "createStripeAccount", "createPaymentIntent",
                    "checkBalance", "topUpWallet", "topUpWalletConfirm",
                    "listTransactions", "stripeRefresh", "walletHealth",
                    "cbWebhook", "restUpdateUser", "restListUsers",
                    "updateUser", "Users", "adminHealth", "uploadImage",
                    "health"}
    /\ Handlers["login"] = login
    /\ Handlers["createUser"] = createUser
    /\ Handlers["twoFactorOtp"] = twoFactorOtp
    /\ Handlers["twoFactorVerify"] = twoFactorVerify
    /\ Handlers["googleLogin"] = googleLogin
    /\ Handlers["appleLogin"] = appleLogin
    /\ Handlers["appleRefreshToken"] = appleRefreshToken
    /\ Handlers["uploadUserProfilePicture"] =
          uploadUserProfilePicture
    /\ Handlers["sendEmailOtp"] = sendEmailOtp
    /\ Handlers["verifyEmailOtp"] = verifyEmailOtp
    /\ Handlers["forgotPasswordOtp"] = forgotPasswordOtp
    /\ Handlers["getLoggedInUser"] = getLoggedInUser
    /\ Handlers["resetPassword"] = resetPassword
    /\ Handlers["forgotPassword"] = forgotPassword
    /\ Handlers["updateProfile"] = updateProfile
    /\ Handlers["checkEmail"] = checkEmail
    /\ Handlers["checkUsername"] = checkUsername
    /\ Handlers["getUsersByFilters"] = getUsersByFilters
    /\ Handlers["getBalance"] = getBalance
    /\ Handlers["getUserById"] = getUserById
    /\ Handlers["restLogin"] = restLogin
    /\ Handlers["registerCaptcha"] = registerCaptcha
    /\ Handlers["restCreate"] = restCreate
    /\ Handlers["kycVerification"] = kycVerification
    /\ Handlers["kycWebhook"] = kycWebhook
    /\ Handlers["userHealth"] = userHealth
    /\ Handlers["restFindOne"] = restFindOne
    /\ Handlers["restUpdateProfile"] = restUpdateProfile
    /\ Handlers["createCharge"] = createCharge
    /\ Handlers["createStripeAccount"] = createStripeAccount
    /\ Handlers["createPaymentIntent"] = createPaymentIntent
    /\ Handlers["checkBalance"] = checkBalance
    /\ Handlers["topUpWallet"] = topUpWallet
    /\ Handlers["topUpWalletConfirm"] = topUpWalletConfirm
    /\ Handlers["listTransactions"] = listTransactions
    /\ Handlers["stripeRefresh"] = stripeRefresh
    /\ Handlers["walletHealth"] = walletHealth
    /\ Handlers["cbWebhook"] = cbWebhook
    /\ Handlers["restUpdateUser"] = restUpdateUser
    /\ Handlers["restListUsers"] = restListUsers
    /\ Handlers["updateUser"] = updateUser
    /\ Handlers["Users"] = Users
    /\ Handlers["adminHealth"] = adminHealth
    /\ Handlers["uploadImage"] = uploadImage
    /\ Handlers["health"] = health
BY DEF Name, Handlers

\* What a read may answer.
LEMMA NoneChosen ==
    /\ Find({}) =
          [kind |-> "read", refuses |-> {}, fails |-> {500}]
    /\ \A s : Find({s}) =
          [kind |-> "read", refuses |-> {<<s, s>>}, fails |-> {500}]
    /\ userService!Find({}) =
          [kind |-> "read", refuses |-> {}, fails |-> {500}]
    /\ \A s : userService!Find({s}) =
          [kind |-> "read", refuses |-> {<<s, s>>}, fails |-> {500}]
    /\ walletService!Find({}) =
          [kind |-> "read", refuses |-> {}, fails |-> {500}]
    /\ \A s : walletService!Find({s}) =
          [kind |-> "read", refuses |-> {<<s, s>>}, fails |-> {500}]
    /\ walletService!userService!Find({}) =
          [kind |-> "read", refuses |-> {}, fails |-> {500}]
    /\ \A s : walletService!userService!Find({s}) =
          [kind |-> "read", refuses |-> {<<s, s>>}, fails |-> {500}]
BY DEF Find, Chosen, userService!Find, userService!Chosen, walletService!Find,
   walletService!Chosen, walletService!userService!Find,
   walletService!userService!Chosen

\* No step of these handlers answers a client error once one may have written.
LEMMA FirmHandlers ==
    \A n \in Name \ MayHaveWritten : Firmly(Handlers[n].steps)
<1> USE DEF Firm, Firmly, ClientError, Says, Caught, Dropped,
   LastSave, Optional, Remote, Try, userService!Caught,
   userService!Dropped, userService!LastSave, userService!Optional,
   userService!Remote, userService!Try, walletService!Caught,
      walletService!Dropped,
   walletService!LastSave, walletService!Optional, walletService!Remote,
   walletService!Try, walletService!userService!Caught,
      walletService!userService!Dropped,
   walletService!userService!LastSave, walletService!userService!Optional,
   walletService!userService!Remote, walletService!userService!Try
<1>1. Firmly(login.steps)
  BY DEF Public, Role, userService!Chosen, userService!Find,
     userService!validateUserByPassword, login
<1>2. Firmly(twoFactorOtp.steps)
  BY DEF Public, Role, userService!Chosen, userService!Find, userService!Save,
     userService!sendOtp, userService!twoFactorOtp, twoFactorOtp
<1>3. Firmly(appleRefreshToken.steps)
  BY DEF Chosen, Find, Public, Role, appleRefreshToken
<1>4. Firmly(uploadUserProfilePicture.steps)
  BY DEF Auth, Chosen, Find, Role, userService!Chosen, userService!Find,
     userService!Save, userService!uploadProfilePicture,
     uploadUserProfilePicture
<1>5. Firmly(sendEmailOtp.steps)
  BY DEF Auth, Role, userService!Chosen, userService!Find, userService!Save,
     userService!sendEmailOtp, userService!sendOtp, sendEmailOtp
<1>6. Firmly(forgotPasswordOtp.steps)
  BY DEF Public, Role, userService!Chosen, userService!Find, userService!Save,
     userService!forgotPasswordOtp, userService!sendOtp, forgotPasswordOtp
<1>7. Firmly(getLoggedInUser.steps)
  BY DEF Auth, Role, getLoggedInUser
<1>8. Firmly(resetPassword.steps)
  BY DEF Auth, Role, userService!Chosen, userService!Find, userService!Save,
     userService!resetPassword, resetPassword
<1>9. Firmly(checkEmail.steps)
  BY DEF Auth, Role, userService!Chosen, userService!Find,
     userService!checkEmail, checkEmail
<1>10. Firmly(checkUsername.steps)
  BY DEF Public, Role, userService!Chosen, userService!Find,
     userService!checkUsername, checkUsername
<1>11. Firmly(getUsersByFilters.steps)
  BY JoinedHandlers
<1>12. Firmly(getBalance.steps)
  BY DEF Auth, Role, userService!Chosen, userService!Find,
     userService!MaybeSave, userService!getBalance, getBalance
<1>13. Firmly(getUserById.steps)
  BY JoinedHandlers
<1>14. Firmly(restLogin.steps)
  BY DEF Public, Role, userService!Chosen, userService!Find,
     userService!validateUserByPassword, Chosen, Find, captchaVerified,
     restLogin
<1>15. Firmly(registerCaptcha.steps)
  BY DEF Chosen, Find, Public, Role, registerCaptcha
<1>16. Firmly(kycVerification.steps)
  BY DEF Auth, Chosen, Find, MaybeSave, Role, Save, userService!Chosen,
     userService!Find, userService!Save, userService!findByKycIdAndUpdate,
     userService!kycCreateApplicant, kycVerification
<1>17. Firmly(kycWebhook.steps)
  BY DEF Chosen, Find, Public, Role, userService!Chosen, userService!Find,
     userService!Save, userService!findByKycIdAndUpdate, kycWebhook
<1>18. Firmly(userHealth.steps)
  BY DEF Public, Role, userService!Chosen, userService!Find,
     userService!healthCheck, userHealth
<1>19. Firmly(restFindOne.steps)
  BY JoinedHandlers
<1>20. Firmly(restUpdateProfile.steps)
  BY JoinedHandlers
<1>21. Firmly(createPaymentIntent.steps)
  BY DEF Auth, Chosen, Find, Role, walletService!Save,
     walletService!createPaymentIntent, createPaymentIntent
<1>22. Firmly(checkBalance.steps)
  BY JoinedHandlers
<1>23. Firmly(topUpWallet.steps)
  BY DEF Auth, Role, walletService!Chosen, walletService!Find,
     walletService!Save, walletService!userService!Chosen,
     walletService!userService!Find, walletService!userService!findOneById,
     walletService!createPaymentIntent, walletService!createTransaction,
     walletService!topUpWallet, topUpWallet
<1>24. Firmly(topUpWalletConfirm.steps)
  BY JoinedHandlers
<1>25. Firmly(listTransactions.steps)
  BY DEF Auth, Role, walletService!Chosen, walletService!Find,
     walletService!getUserPerTransaction, walletService!listTransactions,
     listTransactions
<1>26. Firmly(stripeRefresh.steps)
  BY DEF Chosen, Find, Public, Role, userService!Chosen, userService!Find,
     userService!findOneById, walletService!Chosen, walletService!Find,
     walletService!stripeCreateAccountLinks, findOneById, stripeRefresh
<1>27. Firmly(walletHealth.steps)
  BY DEF Public, Role, walletService!Chosen, walletService!Find,
     walletService!healthCheck, walletHealth
<1>28. Firmly(restUpdateUser.steps)
  BY DEF Public, userService!Chosen, userService!Find, userService!Save,
     userService!storeProfile, restUpdateUser
<1>29. Firmly(restListUsers.steps)
  BY JoinedHandlers
<1>30. Firmly(updateUser.steps)
  BY DEF Admins, Chosen, Find, Roles, Public, ThroughAdmin,
     userService!Chosen, userService!Find, userService!Save,
     userService!storeProfile, restUpdateUser, updateUser
<1>31. Firmly(Users.steps)
  BY JoinedHandlers
<1>32. Firmly(adminHealth.steps)
  BY DEF Chosen, Find, Public, Role, adminHealth
<1>33. Firmly(uploadImage.steps)
  BY DEF Auth, Chosen, Find, Role, uploadFile, uploadImage
<1>34. Firmly(health.steps)
  BY DEF Public, Role, health
<1> HIDE DEF Firm, Firmly, ClientError, Says, Caught, Dropped,
   LastSave, Optional, Remote, Try, userService!Caught,
   userService!Dropped, userService!LastSave, userService!Optional,
   userService!Remote, userService!Try, walletService!Caught,
      walletService!Dropped,
   walletService!LastSave, walletService!Optional, walletService!Remote,
   walletService!Try, walletService!userService!Caught,
      walletService!userService!Dropped,
   walletService!userService!LastSave, walletService!userService!Optional,
   walletService!userService!Remote, walletService!userService!Try
<1> QED BY <1>1, <1>2, <1>3, <1>4, <1>5, <1>6, <1>7, <1>8, <1>9, <1>10,
    <1>11, <1>12, <1>13, <1>14, <1>15, <1>16, <1>17, <1>18, <1>19, <1>20,
    <1>21, <1>22, <1>23, <1>24, <1>25, <1>26, <1>27, <1>28, <1>29, <1>30,
    <1>31, <1>32, <1>33, <1>34,
    TheHandlers DEF MayHaveWritten

\* Each step of these handlers answers what it chose, or an unknown error.
LEMMA FaithfulHandlers ==
    \A n \in Name \ Rewriting : Faithful(Handlers[n].steps)
<1> USE DEF Faithful, Caught, Dropped, LastSave, Optional,
   Remote, Try, userService!Caught, userService!Dropped,
   userService!LastSave, userService!Optional, userService!Remote,
      userService!Try,
   walletService!Caught, walletService!Dropped, walletService!LastSave,
   walletService!Optional, walletService!Remote, walletService!Try,
   walletService!userService!Caught, walletService!userService!Dropped,
   walletService!userService!LastSave, walletService!userService!Optional,
   walletService!userService!Remote, walletService!userService!Try
<1>1. Faithful(login.steps)
  BY DEF Public, Role, userService!Chosen, userService!Find,
     userService!validateUserByPassword, login
<1>2. Faithful(createUser.steps)
  BY DEF Public, Role, userService!Chosen, userService!Find, userService!Save,
     userService!create, userService!signup, createUser
<1>3. Faithful(twoFactorOtp.steps)
  BY DEF Public, Role, userService!Chosen, userService!Find, userService!Save,
     userService!sendOtp, userService!twoFactorOtp, twoFactorOtp
<1>4. Faithful(twoFactorVerify.steps)
  BY DEF Public, Role, userService!Chosen, userService!Find, userService!Save,
     userService!twoFactorVerify, twoFactorVerify
<1>5. Faithful(googleLogin.steps)
  BY NoneChosen DEF Public, Role, userService!MaybeSave,
     userService!googleLogin, googleLogin
<1>6. Faithful(appleRefreshToken.steps)
  BY NoneChosen DEF Public, Role, appleRefreshToken
<1>7. Faithful(uploadUserProfilePicture.steps)
  BY DEF Auth, Chosen, Find, Role, userService!Chosen, userService!Find,
     userService!Save, userService!uploadProfilePicture,
     uploadUserProfilePicture
<1>8. Faithful(sendEmailOtp.steps)
  BY DEF Auth, Role, userService!Chosen, userService!Find, userService!Save,
     userService!sendEmailOtp, userService!sendOtp, sendEmailOtp
<1>9. Faithful(verifyEmailOtp.steps)
  BY DEF Auth, Role, userService!Chosen, userService!Find, userService!Save,
     userService!verifyEmailOtp, verifyEmailOtp
<1>10. Faithful(forgotPasswordOtp.steps)
  BY DEF Public, Role, userService!Chosen, userService!Find, userService!Save,
     userService!forgotPasswordOtp, userService!sendOtp, forgotPasswordOtp
<1>11. Faithful(getLoggedInUser.steps)
  BY DEF Auth, Role, getLoggedInUser
<1>12. Faithful(resetPassword.steps)
  BY DEF Auth, Role, userService!Chosen, userService!Find, userService!Save,
     userService!resetPassword, resetPassword
<1>13. Faithful(forgotPassword.steps)
  BY DEF Public, Role, userService!Chosen, userService!Find, userService!Save,
     userService!forgotPasswordVerify, forgotPassword
<1>14. Faithful(updateProfile.steps)
  BY DEF Auth, Role, userService!Chosen, userService!Find, userService!Save,
     userService!resetPassword, userService!storeProfile,
     userService!updateProfile, updateProfile
<1>15. Faithful(checkEmail.steps)
  BY DEF Auth, Role, userService!Chosen, userService!Find,
     userService!checkEmail, checkEmail
<1>16. Faithful(checkUsername.steps)
  BY DEF Public, Role, userService!Chosen, userService!Find,
     userService!checkUsername, checkUsername
<1>17. Faithful(getUsersByFilters.steps)
  BY JoinedHandlers
<1>18. Faithful(getBalance.steps)
  BY DEF Auth, Role, userService!Chosen, userService!Find,
     userService!MaybeSave, userService!getBalance, getBalance
<1>19. Faithful(getUserById.steps)
  BY JoinedHandlers
<1>20. Faithful(restLogin.steps)
  BY DEF Public, Role, userService!Chosen, userService!Find,
     userService!validateUserByPassword, Chosen, Find, captchaVerified,
     restLogin
<1>21. Faithful(registerCaptcha.steps)
  BY DEF Chosen, Find, Public, Role, registerCaptcha
<1>22. Faithful(restCreate.steps)
  BY DEF Public, Role, userService!Chosen, userService!Find, userService!Save,
     userService!create, userService!signup, Chosen, Find,
     captchaVerified, restCreate
<1>23. Faithful(kycVerification.steps)
  BY DEF Auth, Chosen, Find, MaybeSave, Role, Save, userService!Chosen,
     userService!Find, userService!Save, userService!findByKycIdAndUpdate,
     userService!kycCreateApplicant, kycVerification
<1>24. Faithful(kycWebhook.steps)
  BY NoneChosen DEF Public, Role, userService!Save,
     userService!findByKycIdAndUpdate, kycWebhook
<1>25. Faithful(userHealth.steps)
  BY DEF Public, Role, userService!Chosen, userService!Find,
     userService!healthCheck, userHealth
<1>26. Faithful(createCharge.steps)
  BY DEF Public, Role, walletService!Save, walletService!charge,
     walletService!createCharge, walletService!createChargeinDB, createCharge
<1>27. Faithful(createStripeAccount.steps)
  BY NoneChosen DEF Auth, Role, walletService!MaybeSave,
     walletService!createStripeAccount, walletService!stripeCreateAccountLinks,
     createStripeAccount
<1>28. Faithful(createPaymentIntent.steps)
  BY DEF Auth, Chosen, Find, Role, walletService!Save,
     walletService!createPaymentIntent, createPaymentIntent
<1>29. Faithful(listTransactions.steps)
  BY JoinedHandlers
<1>30. Faithful(walletHealth.steps)
  BY DEF Public, Role, walletService!Chosen, walletService!Find,
     walletService!healthCheck, walletHealth
<1>31. Faithful(restUpdateUser.steps)
  BY DEF Public, userService!Chosen, userService!Find, userService!Save,
     userService!storeProfile, restUpdateUser
<1>32. Faithful(restListUsers.steps)
  BY JoinedHandlers
<1>33. Faithful(updateUser.steps)
  BY DEF Admins, Chosen, Find, Roles, Public, ThroughAdmin,
     userService!Chosen, userService!Find, userService!Save,
     userService!storeProfile, restUpdateUser, updateUser
<1>34. Faithful(adminHealth.steps)
  BY DEF Chosen, Find, Public, Role, adminHealth
<1>35. Faithful(uploadImage.steps)
  BY DEF Auth, Chosen, Find, Role, uploadFile, uploadImage
<1>36. Faithful(health.steps)
  BY DEF Public, Role, health
<1> HIDE DEF Faithful, Caught, Dropped, LastSave,
   Optional, Remote, Try, userService!Caught, userService!Dropped,
   userService!LastSave, userService!Optional, userService!Remote,
      userService!Try,
   walletService!Caught, walletService!Dropped, walletService!LastSave,
   walletService!Optional, walletService!Remote, walletService!Try,
   walletService!userService!Caught, walletService!userService!Dropped,
   walletService!userService!LastSave, walletService!userService!Optional,
   walletService!userService!Remote, walletService!userService!Try
<1> QED BY <1>1, <1>2, <1>3, <1>4, <1>5, <1>6, <1>7, <1>8, <1>9, <1>10,
    <1>11, <1>12, <1>13, <1>14, <1>15, <1>16, <1>17, <1>18, <1>19, <1>20,
    <1>21, <1>22, <1>23, <1>24, <1>25, <1>26, <1>27, <1>28, <1>29, <1>30,
    <1>31, <1>32, <1>33, <1>34, <1>35, <1>36,
    TheHandlers DEF Rewriting

\* No step of these handlers fails unnoticed or answers a success.
LEMMA HonestHandlers ==
    \A n \in Name \ Dropping : Honest(Handlers[n].steps)
<1> USE DEF Honest, Says, Caught, Dropped, LastSave,
   Optional, Remote, Try, userService!Caught, userService!Dropped,
   userService!LastSave, userService!Optional, userService!Remote,
      userService!Try,
   walletService!Caught, walletService!Dropped, walletService!LastSave,
   walletService!Optional, walletService!Remote, walletService!Try,
   walletService!userService!Caught, walletService!userService!Dropped,
   walletService!userService!LastSave, walletService!userService!Optional,
   walletService!userService!Remote, walletService!userService!Try
<1>1. Honest(login.steps)
  BY DEF Public, Role, userService!Chosen, userService!Find,
     userService!validateUserByPassword, login
<1>2. Honest(createUser.steps)
  BY DEF Public, Role, userService!Chosen, userService!Find, userService!Save,
     userService!create, userService!signup, createUser
<1>3. Honest(twoFactorVerify.steps)
  BY DEF Public, Role, userService!Chosen, userService!Find, userService!Save,
     userService!twoFactorVerify, twoFactorVerify
<1>4. Honest(googleLogin.steps)
  BY DEF Public, Role, userService!Chosen, userService!Find,
     userService!MaybeSave, userService!googleLogin, googleLogin
<1>5. Honest(appleLogin.steps)
  BY DEF Public, Role, userService!Chosen, userService!Find,
     userService!MaybeSave, userService!appleLogin, appleLogin
<1>6. Honest(appleRefreshToken.steps)
  BY DEF Chosen, Find, Public, Role, appleRefreshToken
<1>7. Honest(uploadUserProfilePicture.steps)
  BY DEF Auth, Chosen, Find, Role, userService!Chosen, userService!Find,
     userService!Save, userService!uploadProfilePicture,
     uploadUserProfilePicture
<1>8. Honest(verifyEmailOtp.steps)
  BY DEF Auth, Role, userService!Chosen, userService!Find, userService!Save,
     userService!verifyEmailOtp, verifyEmailOtp
<1>9. Honest(getLoggedInUser.steps)
  BY DEF Auth, Role, getLoggedInUser
<1>10. Honest(resetPassword.steps)
  BY DEF Auth, Role, userService!Chosen, userService!Find, userService!Save,
     userService!resetPassword, resetPassword
<1>11. Honest(forgotPassword.steps)
  BY DEF Public, Role, userService!Chosen, userService!Find, userService!Save,
     userService!forgotPasswordVerify, forgotPassword
<1>12. Honest(updateProfile.steps)
  BY DEF Auth, Role, userService!Chosen, userService!Find, userService!Save,
     userService!resetPassword, userService!storeProfile,
     userService!updateProfile, updateProfile
<1>13. Honest(checkEmail.steps)
  BY DEF Auth, Role, userService!Chosen, userService!Find,
     userService!checkEmail, checkEmail
<1>14. Honest(checkUsername.steps)
  BY DEF Public, Role, userService!Chosen, userService!Find,
     userService!checkUsername, checkUsername
<1>15. Honest(getUsersByFilters.steps)
  BY JoinedHandlers
<1>16. Honest(getBalance.steps)
  BY DEF Auth, Role, userService!Chosen, userService!Find,
     userService!MaybeSave, userService!getBalance, getBalance
<1>17. Honest(getUserById.steps)
  BY JoinedHandlers
<1>18. Honest(restLogin.steps)
  BY DEF Public, Role, userService!Chosen, userService!Find,
     userService!validateUserByPassword, Chosen, Find, captchaVerified,
     restLogin
<1>19. Honest(registerCaptcha.steps)
  BY DEF Chosen, Find, Public, Role, registerCaptcha
<1>20. Honest(restCreate.steps)
  BY DEF Public, Role, userService!Chosen, userService!Find, userService!Save,
     userService!create, userService!signup, Chosen, Find,
     captchaVerified, restCreate
<1>21. Honest(kycVerification.steps)
  BY DEF Auth, Chosen, Find, MaybeSave, Role, Save, userService!Chosen,
     userService!Find, userService!Save, userService!findByKycIdAndUpdate,
     userService!kycCreateApplicant, kycVerification
<1>22. Honest(kycWebhook.steps)
  BY DEF Chosen, Find, Public, Role, userService!Chosen, userService!Find,
     userService!Save, userService!findByKycIdAndUpdate, kycWebhook
<1>23. Honest(userHealth.steps)
  BY DEF Public, Role, userService!Chosen, userService!Find,
     userService!healthCheck, userHealth
<1>24. Honest(restFindOne.steps)
  BY JoinedHandlers
<1>25. Honest(restUpdateProfile.steps)
  BY JoinedHandlers
<1>26. Honest(createCharge.steps)
  BY DEF Public, Role, walletService!Save, walletService!charge,
     walletService!createCharge, walletService!createChargeinDB, createCharge
<1>27. Honest(createPaymentIntent.steps)
  BY DEF Auth, Chosen, Find, Role, walletService!Save,
     walletService!createPaymentIntent, createPaymentIntent
<1>28. Honest(checkBalance.steps)
  BY JoinedHandlers
<1>29. Honest(topUpWallet.steps)
  BY DEF Auth, Role, walletService!Chosen, walletService!Find,
     walletService!Save, walletService!userService!Chosen,
     walletService!userService!Find, walletService!userService!findOneById,
     walletService!createPaymentIntent, walletService!createTransaction,
     walletService!topUpWallet, topUpWallet
<1>30. Honest(topUpWalletConfirm.steps)
  BY JoinedHandlers
<1>31. Honest(stripeRefresh.steps)
  BY DEF Chosen, Find, Public, Role, userService!Chosen, userService!Find,
     userService!findOneById, walletService!Chosen, walletService!Find,
     walletService!stripeCreateAccountLinks, findOneById, stripeRefresh
<1>32. Honest(walletHealth.steps)
  BY DEF Public, Role, walletService!Chosen, walletService!Find,
     walletService!healthCheck, walletHealth
<1>33. Honest(restUpdateUser.steps)
  BY DEF Public, userService!Chosen, userService!Find, userService!Save,
     userService!storeProfile, restUpdateUser
<1>34. Honest(restListUsers.steps)
  BY JoinedHandlers
<1>35. Honest(cbWebhook.steps)
  BY JoinedHandlers
<1>36. Honest(updateUser.steps)
  BY DEF Admins, Chosen, Find, Roles, Public, ThroughAdmin,
     userService!Chosen, userService!Find, userService!Save,
     userService!storeProfile, restUpdateUser, updateUser
<1>37. Honest(adminHealth.steps)
  BY DEF Chosen, Find, Public, Role, adminHealth
<1> HIDE DEF Honest, Says, Caught, Dropped, LastSave,
   Optional, Remote, Try, userService!Caught, userService!Dropped,
   userService!LastSave, userService!Optional, userService!Remote,
      userService!Try,
   walletService!Caught, walletService!Dropped, walletService!LastSave,
   walletService!Optional, walletService!Remote, walletService!Try,
   walletService!userService!Caught, walletService!userService!Dropped,
   walletService!userService!LastSave, walletService!userService!Optional,
   walletService!userService!Remote, walletService!userService!Try
<1> QED BY <1>1, <1>2, <1>3, <1>4, <1>5, <1>6, <1>7, <1>8, <1>9, <1>10,
    <1>11, <1>12, <1>13, <1>14, <1>15, <1>16, <1>17, <1>18, <1>19, <1>20,
    <1>21, <1>22, <1>23, <1>24, <1>25, <1>26, <1>27, <1>28, <1>29, <1>30,
    <1>31, <1>32, <1>33, <1>34, <1>35, <1>36, <1>37,
    TheHandlers DEF Dropping

-----------------------------------------------------------------------------
(* Gateway: the walk of a request.                                         *)

\* A request that has written is past a step that may write; one that has
\* missed something is with a handler that may.
Walk ==
    /\ DOMAIN req = {"name", "pc", "at", "written", "missed", "entitled",
                     "chosen", "answer"}
    /\ req.name \in Name /\ req.at \in Nat
    /\ req.pc \in {"idle", "guard", "run", "done"}
    /\ req.pc \in {"idle", "guard"} => ~ req.written /\ ~ req.missed
    /\ req.pc = "run" =>
          /\ req.written => \E i \in DOMAIN H.steps :
                /\ i \in Nat /\ i < req.at
                /\ H.steps[i].kind # "read"
          /\ req.missed => req.name \in Dropping
    /\ req.pc = "run" /\ H.auth => req.entitled
    /\ req.pc = "guard" /\ H.auth /\ MayUse(req.name, user) =>
          req.entitled

Good == /\ RefusalLeavesNothing /\ ChosenIsAnswered
        /\ SuccessMeansDone /\ ChangesAreEntitled

GInv == Walk /\ Good

\* Only administrators pass the guards of the administration.
LEMMA AdminRoles ==
    /\ Handlers["updateUser"].roles = {"superadmin", "subadmin"}
    /\ Handlers["Users"].roles = {"superadmin", "subadmin"}
    /\ ~ Handlers["login"].auth
<1>1. Handlers["updateUser"] = updateUser
      /\ Handlers["Users"] = Users
      /\ Handlers["login"] = login
  BY DEF Handlers
<1>2. updateUser.roles = {"superadmin", "subadmin"}
  BY DEF updateUser, Roles, Admins
<1>3. Users.roles = {"superadmin", "subadmin"}
  BY DEF Users, Roles, Admins
<1>4. ~ login.auth
  BY DEF login, Public
<1> QED BY <1>1, <1>2, <1>3, <1>4

\* How a request ends: with the status a, for which the code chose c.
Ended(c, a) ==
    /\ DOMAIN req' = DOMAIN req
    /\ req'.pc = "done" /\ req'.name = req.name /\ req'.at = req.at
    /\ req'.chosen = c /\ req'.answer = a
    /\ req'.entitled = req.entitled

\* What a guard answers ends the request.
LEMMA AnswerEnds ==
    ASSUME Walk, NEW c, NEW a, Answer(c, a)
    PROVE  /\ Ended(c, a)
           /\ req'.written = req.written /\ req'.missed = req.missed
BY DEF Walk, Answer, Ended

\* A step that ends a request answers what it may, and writes if it is no
\* read.
StepEnd(c, a) ==
    /\ Says(TheStep, a) /\ Ended(c, a)
    /\ c = 500 \/ \E r \in TheStep.refuses : r[1] = c /\ r[2] = a
    /\ req'.written => req.written \/ TheStep.kind # "read"
    /\ req'.missed => a = 200

\* Both ways in which a step ends a request.
LEMMA StepEnds ==
    ASSUME Walk, Refuse \/ Throw
    PROVE  Running /\ UNCHANGED user /\ \E c, a : StepEnd(c, a)
<1>1. CASE Refuse
  <2>1. PICK r \in TheStep.refuses :
          req' = [req EXCEPT !.pc = "done", !.chosen = r[1], !.answer = r[2],
                             !.written = @ \/ TheStep.kind # "read",
                             !.missed = (r[2] = 200)]
    BY <1>1 DEF Refuse
  <2>2. Ended(r[1], r[2])
    BY <2>1 DEF Walk, Ended
  <2>3. req'.written => req.written \/ TheStep.kind # "read"
    BY <2>1 DEF Walk
  <2>4. req'.missed => r[2] = 200
    BY <2>1 DEF Walk
  <2>5. Says(TheStep, r[2])
    BY DEF Says
  <2>6. StepEnd(r[1], r[2])
    BY <2>2, <2>3, <2>4, <2>5 DEF StepEnd
  <2> QED BY <1>1, <2>6 DEF Refuse
<1>2. CASE Throw
  <2> DEFINE k == TheStep.kind # "read"
  <2>1. PICK s \in TheStep.fails \cup {500}, done \in BOOLEAN :
          req' = [req EXCEPT !.pc = "done", !.chosen = 500, !.answer = s,
                     !.written = @ \/ (done /\ k),
                     !.missed = (s = 200)]
    BY <1>2 DEF Throw
  <2>2. Ended(500, s)
    BY <2>1 DEF Walk, Ended
  <2>a. "written" \in DOMAIN req /\ "missed" \in DOMAIN req
    BY DEF Walk
  <2>3. req'.written => req.written \/ TheStep.kind # "read"
    <3>1. req'.written = (req.written \/ (done /\ k))
      BY Zenon, <2>1, <2>a
    <3>2. req'.written => req.written \/ k
      BY Zenon, <3>1
    <3> QED BY <3>2
  <2>4. req'.missed => s = 200
    <3>1. req'.missed = (s = 200)
      BY Zenon, <2>1, <2>a
    <3> QED BY Zenon, <3>1
  <2>5. Says(TheStep, s)
    BY <1>2 DEF Says, Throw
  <2>6. StepEnd(500, s)
    BY <2>2, <2>3, <2>4, <2>5 DEF StepEnd
  <2>7. \E c, a : StepEnd(c, a)
    <3> HIDE DEF StepEnd
    <3> WITNESS 500, s
    <3> QED BY <2>6
  <2>8. Running /\ UNCHANGED user
    BY <1>2 DEF Throw
  <2> QED BY <2>7, <2>8
<1> QED BY <1>1, <1>2

\* A refusal comes from a step before which, as in which, nothing was written;
\* no step of a handler that is faithful or honest is excepted.
LEMMA EndsWell ==
    ASSUME GInv, Refuse \/ Throw
    PROVE  GInv'
<1>1. Running /\ UNCHANGED user /\ \E c, a : StepEnd(c, a)
  BY StepEnds DEF GInv
<1>2. PICK c, a : StepEnd(c, a)
  BY <1>1
<1> DEFINE S == H.steps
           s == S[req.at]
<1>3. /\ req.pc = "run" /\ req.at \in DOMAIN S /\ req.at \in Nat
      /\ req.name \in Name
      /\ S = Handlers[req.name].steps
  BY <1>1 DEF Running, H, GInv, Walk
<1>4. /\ Says(s, a)
      /\ c = 500 \/ \E r \in s.refuses : r[1] = c /\ r[2] = a
      /\ req'.written => req.written \/ s.kind # "read"
      /\ req'.missed => a = 200
  BY <1>2 DEF StepEnd, TheStep
<1>5. /\ DOMAIN req' = DOMAIN req
      /\ req'.pc = "done" /\ req'.name = req.name /\ req'.at = req.at
      /\ req'.chosen = c /\ req'.answer = a /\ req'.entitled = req.entitled
  BY <1>2 DEF StepEnd, Ended
<1>6. Walk'
  BY <1>3, <1>5 DEF GInv, Walk
<1>7. RefusalLeavesNothing'
  <2>1. ASSUME a \in ClientError, req.name \notin MayHaveWritten,
               req'.written
        PROVE  FALSE
    <3>1. Firmly(S)
      BY <1>3, <2>1, FirmHandlers
    <3>2. ~ Firm(s)
      BY <1>4, <2>1 DEF Firm
    <3>3. s.kind = "read"
      BY <1>3, <3>1, <3>2 DEF Firmly
    <3>4. PICK i \in DOMAIN S :
                 i \in Nat /\ i < req.at /\ S[i].kind # "read"
      BY <1>3, <1>4, <2>1, <3>3 DEF GInv, Walk
    <3>5. i <= req.at
      BY <1>3, <3>4
    <3> QED BY <1>3, <3>1, <3>2, <3>4, <3>5 DEF Firmly
  <2> QED BY <1>5, <2>1 DEF RefusalLeavesNothing, Answered
<1>8. ChosenIsAnswered'
  <2>1. ASSUME req.name \notin Rewriting, c # 500 PROVE a = c
    <3>1. Faithful(S)
      BY <1>3, <2>1, FaithfulHandlers
    <3> QED BY <1>3, <1>4, <2>1, <3>1 DEF Faithful
  <2> QED BY <1>5, <2>1 DEF ChosenIsAnswered
<1>9. SuccessMeansDone'
  <2>1. ASSUME a = 200, req.name \notin Dropping PROVE FALSE
    <3>1. Honest(S)
      BY <1>3, <2>1, HonestHandlers
    <3> QED BY <1>3, <1>4, <2>1, <3>1 DEF Honest
  <2> QED BY <1>5, <2>1 DEF SuccessMeansDone, Answered, Dropping
<1>10. ChangesAreEntitled'
  BY <1>3, <1>5 DEF ChangesAreEntitled, H, GInv, Walk
<1> QED BY <1>6, <1>7, <1>8, <1>9, <1>10 DEF GInv, Good

\* The guards end a request that has done nothing.
LEMMA GuardEnds ==
    ASSUME GInv, RejectHeader \/ LookupFails \/ CanActivate
    PROVE  GInv'
<1>1. req.pc = "guard" /\ UNCHANGED user
  BY DEF RejectHeader, LookupFails, CanActivate
<1>2. ~ req.written /\ ~ req.missed
  BY <1>1 DEF GInv, Walk
<1>3. ASSUME NEW c, NEW a, Answer(c, a), c \in {500, a}, a # 200
      PROVE  GInv'
  <2>1. Ended(c, a) /\ req'.written = req.written /\ req'.missed = req.missed
    BY <1>3, AnswerEnds DEF GInv
  <2>2. Walk'
    BY <1>1, <2>1 DEF GInv, Walk, Ended
  <2>3. RefusalLeavesNothing'
    BY <1>2, <2>1 DEF RefusalLeavesNothing
  <2>4. ChosenIsAnswered'
    BY <1>3, <2>1 DEF Ended, ChosenIsAnswered
  <2>5. SuccessMeansDone'
    BY <1>2, <2>1 DEF SuccessMeansDone
  <2>6. ChangesAreEntitled'
    BY <1>2, <1>3, <2>1 DEF ChangesAreEntitled, Answered, Ended
  <2> QED BY <2>2, <2>3, <2>4, <2>5, <2>6 DEF GInv, Good
<1>4. CASE RejectHeader
  BY <1>3, <1>4 DEF RejectHeader
<1>5. CASE LookupFails
  BY <1>3, <1>5 DEF LookupFails
<1>6. CASE CanActivate
  <2>1. CASE ~ user.known /\ Answer(401, 401)
    BY <1>3, <2>1
  <2>2. CASE user.known /\ ~ Admits(user, H.roles)
             /\ Answer(403, 403)
    BY <1>3, <2>2
  <2>3. CASE user.known /\ Admits(user, H.roles)
             /\ req' = [req EXCEPT !.pc = "run"]
    <3>1. /\ DOMAIN req' = DOMAIN req /\ req'.pc = "run"
          /\ req'.name = req.name /\ req'.at = req.at
          /\ req'.written = req.written /\ req'.missed = req.missed
          /\ req'.entitled = req.entitled
      BY <2>3 DEF GInv, Walk
    <3>2. MayUse(req.name, user)
      <4>1. user.isBlocked = FALSE /\ user.role \in H.roles
        BY <2>3 DEF Admits
      <4>2. ASSUME req.name \in {"updateUser", "Users"}
            PROVE  user.role \in Admins
        BY <4>1, <4>2, AdminRoles DEF H, Admins
      <4> QED BY <2>3, <4>1, <4>2 DEF MayUse
    <3>3. H.auth => req.entitled
      BY <1>1, <3>2 DEF GInv, Walk
    <3>4. Walk'
      BY <1>2, <3>1, <3>3 DEF GInv, Walk, H
    <3>5. Good'
      BY <1>2, <3>1, <3>3 DEF Good, RefusalLeavesNothing, ChosenIsAnswered,
         SuccessMeansDone, Answered, ChangesAreEntitled, H
    <3> QED BY <3>4, <3>5 DEF GInv
  <2> QED BY <1>6, <2>1, <2>2, <2>3 DEF CanActivate
<1> QED BY <1>4, <1>5, <1>6

\* A step that goes through leaves a step behind it.
LEMMA StepGoesOn ==
    ASSUME GInv, Perform \/ Skip \/ Unnoticed
    PROVE  GInv'
<1>1. Running /\ UNCHANGED user
  BY DEF Perform, Skip, Unnoticed
<1> DEFINE S == H.steps
           s == S[req.at]
<1>2. /\ req.pc = "run" /\ req.at \in DOMAIN S /\ req.at \in Nat
      /\ req.name \in Name
      /\ S = Handlers[req.name].steps
  BY <1>1 DEF Running, H, GInv, Walk
<1>3. ASSUME NEW w \in BOOLEAN, NEW m \in BOOLEAN, Next1(w, m),
             w => s.kind # "read", m => req.name \in Dropping
      PROVE  GInv'
  <2>1. /\ DOMAIN req' = DOMAIN req /\ req'.pc = "run"
        /\ req'.name = req.name /\ req'.at = req.at + 1
        /\ req'.entitled = req.entitled
    BY <1>2, <1>3 DEF GInv, Walk, Next1
  <2>2. "written" \in DOMAIN req /\ "missed" \in DOMAIN req
    BY DEF GInv, Walk
  <2>3. req'.written = (req.written \/ w) /\ req'.missed = (req.missed \/ m)
    BY Zenon, <1>3, <2>2 DEF Next1
  <2>4. ASSUME req'.written
        PROVE  \E i \in DOMAIN S : /\ i \in Nat /\ i < req.at + 1
                                   /\ S[i].kind # "read"
    <3>1. CASE req.written
      <4>1. PICK i \in DOMAIN S :
                 i \in Nat /\ i < req.at /\ S[i].kind # "read"
        BY <1>2, <3>1 DEF GInv, Walk
      <4> QED BY <1>2, <4>1
    <3>2. CASE w
      BY <1>2, <1>3, <3>2
    <3> QED BY Zenon, <2>3, <2>4, <3>1, <3>2
  <2>5. req'.missed => req.name \in Dropping
    <3>1. req.missed => req.name \in Dropping
      BY <1>2 DEF GInv, Walk
    <3> QED BY Zenon, <1>3, <2>3, <3>1
  <2>6. Walk'
    BY <1>1, <1>2, <2>1, <2>4, <2>5 DEF GInv, Walk, H
  <2>7. Good'
    BY <1>2, <2>1 DEF GInv, Walk, Good, RefusalLeavesNothing, ChosenIsAnswered,
       SuccessMeansDone, Answered, ChangesAreEntitled, H
  <2> QED BY <2>6, <2>7 DEF GInv
<1>4. CASE Perform
  <2> DEFINE f == s.kind \in {"save", "maybe"}
  <2>1. Next1(f, FALSE)
    BY <1>4 DEF Perform, TheStep
  <2>2. CASE f
    <3>1. Next1(TRUE, FALSE)
      BY <2>1, <2>2 DEF Next1
    <3> QED BY <1>3, <2>2, <3>1
  <2>3. CASE ~ f
    <3>1. Next1(FALSE, FALSE)
      BY <2>1, <2>3 DEF Next1
    <3> QED BY <1>3, <3>1
  <2> QED BY <2>2, <2>3
<1>5. CASE Skip
  BY <1>3, <1>5 DEF Skip
<1>6. CASE Unnoticed
  <2>1. req.name \in Dropping
    <3>1. ASSUME req.name \notin Dropping PROVE FALSE
      <4>1. Honest(S)
        BY <1>2, <3>1, HonestHandlers
      <4> QED BY <1>2, <1>6, <4>1 DEF Honest, Unnoticed, TheStep
    <3> QED BY <3>1
  <2> QED BY <1>3, <1>6, <2>1 DEF Unnoticed
<1> QED BY <1>4, <1>5, <1>6

\* A handler that returns its data has performed all its steps.
LEMMA SuccessEnds ==
    ASSUME GInv, Succeed
    PROVE  GInv'
<1>1. Ended(200, 200) /\ req'.written = req.written /\ req'.missed = req.missed
  BY AnswerEnds DEF GInv, Succeed
<1>2. Walk'
  BY <1>1 DEF GInv, Walk, Ended, Succeed
<1>3. RefusalLeavesNothing'
  BY <1>1 DEF Ended, RefusalLeavesNothing, Answered, ClientError
<1>4. ChosenIsAnswered'
  BY <1>1 DEF Ended, ChosenIsAnswered
<1>5. SuccessMeansDone'
  BY <1>1 DEF GInv, Walk, Ended, SuccessMeansDone, Succeed, Dropping
<1>6. ChangesAreEntitled'
  BY <1>1 DEF GInv, Walk, Ended, ChangesAreEntitled, Succeed, H
<1> QED BY <1>2, <1>3, <1>4, <1>5, <1>6 DEF GInv, Good

\* A request begins with nothing written and nothing missed.
LEMMA ArrivesWell ==
    ASSUME GInv, NEW name \in Name, Arrive(name)
    PROVE  GInv'
<1> DEFINE e == MayUse(name, user)
<1>1. req' = [NoReq EXCEPT !.name = name, !.entitled = e,
               !.pc = IF Handlers[name].auth THEN "guard" ELSE "run"]
  BY DEF Arrive
<1>2. /\ DOMAIN req' = {"name", "pc", "at", "written", "missed", "entitled",
                        "chosen", "answer"}
      /\ req'.name = name /\ req'.at = 1
      /\ req'.pc = IF Handlers[name].auth THEN "guard" ELSE "run"
      /\ ~ req'.written /\ ~ req'.missed
  BY <1>1 DEF NoReq
<1>3. req'.entitled = e
  <2>1. "entitled" \in DOMAIN NoReq
    BY DEF NoReq
  <2> QED BY Zenon, <1>1, <2>1
<1>4. user' = user
  BY DEF Arrive
<1>5. MayUse(req'.name, user') => req'.entitled
  BY Zenon, <1>2, <1>3, <1>4
<1>a. Walk'
  BY <1>2, <1>5 DEF Walk, H
<1>6. Good'
  BY <1>2 DEF Good, RefusalLeavesNothing, ChosenIsAnswered, SuccessMeansDone,
     Answered, ChangesAreEntitled
<1> QED BY <1>a, <1>6 DEF GInv

\* Between two requests nothing is owed.
LEMMA IdleWell ==
    ASSUME req = NoReq PROVE GInv
<1>1. /\ DOMAIN req = {"name", "pc", "at", "written", "missed", "entitled",
                       "chosen", "answer"}
      /\ req.name = "login" /\ req.pc = "idle" /\ req.at = 1
      /\ ~ req.written /\ ~ req.missed
  BY DEF NoReq
<1>2. "login" \in Name
  BY DEF Name, Handlers
<1>3. Walk
  BY <1>1, <1>2 DEF Walk
<1>4. Good
  BY <1>1 DEF Good, RefusalLeavesNothing, ChosenIsAnswered, SuccessMeansDone,
     Answered, ChangesAreEntitled
<1> QED BY <1>3, <1>4 DEF GInv

\* A change of the user may only entitle.
LEMMA UserChangesWell ==
    ASSUME GInv, UserChanges
    PROVE  GInv'
<1>1. PICK u \in UserDoc :
        /\ user' = u
        /\ req' = [req EXCEPT !.entitled = @ \/ MayUse(req.name, u)]
  BY DEF UserChanges
<1>2. /\ DOMAIN req' = DOMAIN req /\ req'.pc = req.pc
      /\ req'.name = req.name /\ req'.at = req.at
      /\ req'.written = req.written /\ req'.missed = req.missed
      /\ req'.chosen = req.chosen /\ req'.answer = req.answer
  BY <1>1 DEF GInv, Walk
<1>3. req'.entitled = (req.entitled \/ MayUse(req.name, u))
  <2>1. "entitled" \in DOMAIN req
    BY DEF GInv, Walk
  <2> QED BY Zenon, <1>1, <2>1
<1>4. /\ req.entitled => req'.entitled
      /\ MayUse(req'.name, user') => req'.entitled
  BY Zenon, <1>1, <1>2, <1>3
<1>5. Walk'
  BY <1>2, <1>4 DEF GInv, Walk, H
<1>6. Good'
  BY <1>2, <1>4 DEF GInv, Good, RefusalLeavesNothing, ChosenIsAnswered,
     SuccessMeansDone, Answered, ChangesAreEntitled, H
<1> QED BY <1>5, <1>6 DEF GInv

\* GInv holds in every state of the gateway.
LEMMA GInvHolds == GatewaySpec => []GInv
<1>1. GatewayInit => GInv
  BY IdleWell DEF GatewayInit
<1>2. ASSUME GInv, [GatewayNext]_gatewayVars PROVE GInv'
  <2>1. ASSUME NEW name \in Name, Arrive(name) PROVE GInv'
    BY <1>2, <2>1, ArrivesWell
  <2>2. CASE RejectHeader \/ LookupFails \/ CanActivate
    BY <1>2, <2>2, GuardEnds
  <2>3. CASE Perform \/ Skip \/ Unnoticed
    BY <1>2, <2>3, StepGoesOn
  <2>4. CASE Refuse \/ Throw
    BY <1>2, <2>4, EndsWell
  <2>5. CASE Succeed
    BY <1>2, <2>5, SuccessEnds
  <2>6. CASE EndRequest
    <3>1. req' = NoReq
      BY <2>6 DEF EndRequest
    <3>2. (req = NoReq => GInv)'
      BY IdleWell, PTL
    <3> QED BY <3>1, <3>2
  <2>7. CASE UserChanges
    BY <1>2, <2>7, UserChangesWell
  <2>8. CASE UNCHANGED gatewayVars
    BY <1>2, <2>8 DEF gatewayVars, GInv, Walk, Good, H, Answered,
       RefusalLeavesNothing, ChosenIsAnswered, SuccessMeansDone,
       ChangesAreEntitled
  <2> QED BY <1>2, <2>1, <2>2, <2>3, <2>4, <2>5, <2>6, <2>7, <2>8 DEF
             GatewayNext
<1> QED BY <1>1, <1>2, PTL DEF GatewaySpec

\* A client error means that nothing was written, whatever throws and whoever
\* dies on the way, for every handler that does not clear, store or catch.
THEOREM RefusalIsClean == GatewaySpec => []RefusalLeavesNothing
<1>1. GInv => RefusalLeavesNothing
  BY DEF GInv, Good
<1> QED BY <1>1, GInvHolds, PTL

\* The status a client sees is the one the code chose, through all services,
\* for every handler that does not catch what it calls.
THEOREM ChosenStatusArrives == GatewaySpec => []ChosenIsAnswered
<1>1. GInv => ChosenIsAnswered
  BY DEF GInv, Good
<1> QED BY <1>1, GInvHolds, PTL

\* A success means that no step failed unnoticed, but for the handlers
\* that drop an error: five, and the three that mail an OTP.
THEOREM SuccessIsDone == GatewaySpec => []SuccessMeansDone
<1>1. GInv => SuccessMeansDone
  BY DEF GInv, Good
<1> QED BY <1>1, GInvHolds, PTL

\* A request behind the guards has changed or returned something only if its
\* user could use the handler at some moment since it arrived.
THEOREM OnlyTheEntitledChange == GatewaySpec => []ChangesAreEntitled
<1>1. GInv => ChangesAreEntitled
  BY DEF GInv, Good
<1> QED BY <1>1, GInvHolds, PTL
=============================================================================
