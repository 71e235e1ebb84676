------------------------------- MODULE Steps -------------------------------
(***************************************************************************)
(* What the handlers of the services are made of, as far as their answers  *)
(* go.  A procedure is a sequence of steps, one for each call it awaits.   *)
(* A step reads or writes, and is followed by refusals: HTTP statuses the  *)
(* code chooses.  If it throws, the caller gets one of the statuses in     *)
(* fails, or a 500 if its service dies.  A refusal is a pair of the status *)
(* chosen and the one seen: procedures that call each other across         *)
(* services may turn a status into another one.                            *)
(***************************************************************************)
EXTENDS Integers, Sequences, SequencesExt

Status == {200, 400, 401, 403, 404, 406, 500}

Step == [kind : {"read",      \* changes nothing
                 "save",      \* changes stored state, here or at a provider
                 "maybe",     \* the same, on one path
                 "last",      \* the same, on a path that ends in a refusal
                 "tried"},    \* its failure is dropped
         refuses : SUBSET (Status \X Status),
         fails : SUBSET Status]

Chosen(statuses) == {<<s, s>> : s \in statuses}

\* An exception that is no RpcException has details that are not JSON, and
\* neither has the error of a service that is down: JSON.parse throws, and
\* the client gets a 500.
Find(statuses) == [kind |-> "read", refuses |-> Chosen(statuses), fails |-> {500}]
Save == [kind |-> "save", refuses |-> {}, fails |-> {500}]
MaybeSave == [kind |-> "maybe", refuses |-> {}, fails |-> {500}]
LastSave(statuses) ==
    [kind |-> "last", refuses |-> Chosen(statuses), fails |-> {500}]
Try == [kind |-> "tried", refuses |-> {}, fails |-> {}]

\* try { steps } catch (e) { response(e, status) }: refusals in it, too.
Caught(steps, status) ==
    [i \in DOMAIN steps |->
        [steps[i] EXCEPT !.refuses = {<<r[1], status>> : r \in @},
                         !.fails = {status : f \in @}]]

\* steps on a path that is not always taken.
Optional(steps) ==
    [i \in DOMAIN steps |->
        [steps[i] EXCEPT !.kind = IF @ = "save" THEN "maybe" ELSE @]]

\* steps called by another service, which throws on what it receives.
Remote(steps) == Caught(steps, 500)

\* try { steps } catch { }: whatever happens in it, the answer is a success.
\* A client may still see an error, as the answer is undefined.
Dropped(steps) ==
    [i \in DOMAIN steps |->
        [steps[i] EXCEPT !.refuses = {r[1] : r \in @} \X {200, 500},
                         !.fails = {200, 500}]]
=============================================================================
