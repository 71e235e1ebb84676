----------------------------- MODULE Scheduler -----------------------------
(***************************************************************************)
(* The job queue of scheduler-svc (microservices/scheduler-svc/src/        *)
(* scheduler/scheduler.service.ts): a Redis sorted set of events, scored   *)
(* with the second they are scheduled for, and a cron job that calls the   *)
(* endpoint of every event that is due and then removes it.                *)
(*                                                                         *)
(* The cron fires whether or not the previous execution of getEvents is    *)
(* over; run[r] is one execution.  Every call of a batch is on its way     *)
(* when the fetch returns, and each is answered at a time of its own.      *)
(* Time is in whole seconds, as the scores are.                            *)
(***************************************************************************)
EXTENDS Integers, FiniteSets

CONSTANTS Event,          \* members of the sorted set: '<type>_<id>'
          Known,          \* those whose type triggerEvent knows
          Run,            \* executions of getEvents in flight at once
          MaxTime,        \* bound on the clock and on the scores
          MaxSchedules,   \* bound: how often each event is scheduled
          MaxFaults,      \* bound on unanswered calls, failed zRem, restarts
          MayReject,      \* may an endpoint answer with an error?
          None            \* score of an event that is not in the set

ASSUME SchedulerAssumption ==
    /\ Known \subseteq Event
    /\ IsFiniteSet(Run)
    /\ MaxTime \in Nat
    /\ MaxSchedules \in Nat
    /\ MaxFaults \in Nat
    /\ MayReject \in BOOLEAN
    /\ None \notin Int

VARIABLES now,         \* the clock
          queue,       \* score of each event in the sorted set, or None
          run,         \* [Run -> Execution]
          faults,      \* faults so far
          scheduled,   \* history: how often createEvent stored the event
          handled,     \* history: how often its endpoint accepted the call
          owed,        \* history: events not fetched since they were last
                       \* scheduled, and then in no batch in flight
          again        \* history: how often the event was fetched while another
                       \* execution held it, or left queued by a failed one

history == <<scheduled, handled, owed, again>>
vars == <<now, queue, run, faults, history>>

Score == 0 .. MaxTime

Execution == [pc : {"idle", "calling", "rejected"},
              batch : SUBSET Event,      \* events fetched
              waiting : SUBSET Event]    \* calls not answered yet

NoRun == [pc |-> "idle", batch |-> {}, waiting |-> {}]

Queued(e) == queue[e] # None
Held(e) == \E r \in Run : e \in run[r].batch

\* The events still queued are fetched, or to be fetched, once more.
CountAgain(events) ==
    again' = [e \in Event |->
                 IF e \in events /\ Queued(e) THEN again[e] + 1 ELSE again[e]]

Init ==
    /\ now = 0
    /\ queue = [e \in Event |-> None]
    /\ run = [r \in Run |-> NoRun]
    /\ faults = 0
    /\ scheduled = [e \in Event |-> 0]
    /\ handled = [e \in Event |-> 0]
    /\ owed = {}
    /\ again = [e \in Event |-> 0]

Elapse ==
    /\ now < MaxTime
    /\ now' = now + 1
    /\ UNCHANGED <<queue, run, faults, history>>
----------------------------------------------------------------------------
\* createEvent: zAdd sets the score, also of an event that is in the set.
CreateEvent(e, s) ==
    /\ scheduled[e] < MaxSchedules
    /\ queue' = [queue EXCEPT ![e] = s]
    /\ scheduled' = [scheduled EXCEPT ![e] = @ + 1]
    /\ owed' = IF Held(e) THEN owed \ {e} ELSE owed \cup {e}
    /\ UNCHANGED <<now, run, faults, handled, again>>

DueStrictly(e, t) == Queued(e) /\ queue[e] > 0 /\ queue[e] <= t       \* mutant

\* zRangeByScore(key, 0, t)
Due(e, t) == Queued(e) /\ queue[e] <= t

\* triggerEvent: an event of an unknown type is not called.
Calls(batch) == batch \cap Known

\* getEvents up to the calls: everything with a score up to the next second.
GetEvents(r) ==
    LET batch == {e \in Event : Due(e, now + 1)} IN
    /\ run[r].pc = "idle"
    /\ batch # {}
    /\ run' = [run EXCEPT ![r] = [pc |-> "calling", batch |-> batch,
                                  waiting |-> Calls(batch)]]
    /\ owed' = owed \ batch
    /\ CountAgain({e \in batch : Held(e)})
    /\ UNCHANGED <<now, queue, faults, scheduled, handled>>

\* The call of e is answered: Promise.all waits for the others.
Answered(r, e) == run' = [run EXCEPT ![r].waiting = @ \ {e}]

CallSucceeds(r, e) ==
    /\ e \in run[r].waiting
    /\ Answered(r, e)
    /\ handled' = [handled EXCEPT ![e] = @ + 1]
    /\ UNCHANGED <<now, queue, faults, scheduled, owed, again>>

\* An error response: callEndpoint catches it and drops it.
CallRefused(r, e) ==
    /\ MayReject
    /\ e \in run[r].waiting
    /\ Answered(r, e)
    /\ UNCHANGED <<now, queue, faults, history>>

\* No response: e.response is undefined, so the handler of the error throws
\* and Promise.all rejects at once.  The endpoint may have done its work.
\* The other calls are still on their way.
CallUnanswered(r, e) ==
    /\ faults < MaxFaults
    /\ e \in run[r].waiting
    /\ run' = [run EXCEPT ![r].pc = "rejected", ![r].waiting = @ \ {e}]
    /\ \E done \in {0, 1} : handled' = [handled EXCEPT ![e] = @ + done]
    /\ faults' = faults + 1
    /\ UNCHANGED <<now, queue, scheduled, owed, again>>

RemoveUnguarded(r) ==                         \* mutant: calls not awaited
    /\ run[r].pc = "calling"
    /\ queue' = [e \in Event |-> IF e \in run[r].batch THEN None ELSE queue[e]]
    /\ run' = [run EXCEPT ![r] = NoRun]
    /\ UNCHANGED <<now, faults, history>>

RemoveNone(r) ==                              \* mutant: zRem forgotten
    /\ run[r].pc = "calling"
    /\ run[r].waiting = {}
    /\ run' = [run EXCEPT ![r] = NoRun]
    /\ UNCHANGED <<now, queue, faults, history>>

RemoveDue(r) ==                               \* mutant: zRemRangeByScore
    /\ run[r].pc = "calling"
    /\ run[r].waiting = {}
    /\ queue' = [e \in Event |-> IF Due(e, now + 1) THEN None ELSE queue[e]]
    /\ run' = [run EXCEPT ![r] = NoRun]
    /\ UNCHANGED <<now, faults, history>>

\* zRem(key, events), once every call is answered.
Remove(r) ==
    /\ run[r].pc = "calling"
    /\ run[r].waiting = {}
    /\ queue' = [e \in Event |-> IF e \in run[r].batch THEN None ELSE queue[e]]
    /\ run' = [run EXCEPT ![r] = NoRun]
    /\ UNCHANGED <<now, faults, history>>

RemoveFails(r) ==
    /\ run[r].pc = "calling"
    /\ run[r].waiting = {}
    /\ faults < MaxFaults
    /\ faults' = faults + 1
    /\ run' = [run EXCEPT ![r] = NoRun]
    /\ CountAgain(run[r].batch)
    /\ UNCHANGED <<now, queue, scheduled, handled, owed>>

\* The last call of a rejected batch is answered; nothing is removed.
Over(r) ==
    /\ run[r].pc = "rejected"
    /\ run[r].waiting = {}
    /\ run' = [run EXCEPT ![r] = NoRun]
    /\ CountAgain(run[r].batch)
    /\ UNCHANGED <<now, queue, faults, scheduled, handled, owed>>

\* The service restarts: the set is in Redis, the executions are gone.
Restart ==
    /\ faults < MaxFaults
    /\ faults' = faults + 1
    /\ run' = [r \in Run |-> NoRun]
    /\ CountAgain({e \in Event : Held(e)})
    /\ UNCHANGED <<now, queue, scheduled, handled, owed>>

Finish(r) == \/ \E e \in Event : CallSucceeds(r, e) \/ CallRefused(r, e)
             \/ Remove(r)
             \/ Over(r)

Next ==
    \/ Elapse
    \/ Restart
    \/ \E e \in Event, s \in Score : CreateEvent(e, s)
    \/ \E r \in Run : \/ GetEvents(r)
                      \/ Finish(r)
                      \/ RemoveFails(r)
                      \/ \E e \in Event : CallUnanswered(r, e)

\* The clock advances, the cron keeps firing, calls are answered.
Fairness == /\ WF_vars(Elapse)
            /\ \A r \in Run : WF_vars(GetEvents(r)) /\ WF_vars(Finish(r))

Spec == Init /\ [][Next]_vars
FairSpec == Spec /\ Fairness
----------------------------------------------------------------------------
(* Properties.                                                             *)

TypeOK ==
    /\ now \in Score
    /\ queue \in [Event -> Score \cup {None}]
    /\ run \in [Run -> Execution]
    /\ \A r \in Run : run[r].waiting \subseteq run[r].batch \cap Known
    /\ faults \in 0 .. MaxFaults
    /\ scheduled \in [Event -> 0 .. MaxSchedules]
    /\ handled \in [Event -> Nat]
    /\ owed \subseteq Event
    /\ again \in [Event -> Nat]

\* At least once: an event of a known type that was scheduled and has left
\* the sorted set was accepted by its endpoint, in spite of unanswered calls,
\* restarts and executions that overlap ("removing the events from job queue
\* as they are now triggered").
RemovedWasTriggered ==
    \A e \in Known : scheduled[e] > 0 /\ ~ Queued(e) => handled[e] > 0

\* Each call has its cause: an endpoint runs at most once per scheduling, and
\* once more for each time the cron fetched the event while another execution
\* held it, or an execution that held it failed before its zRem.  Whatever is
\* answered, rescheduled or removed meanwhile adds no further call.
OncePerSchedule == \A e \in Event : handled[e] <= scheduled[e] + again[e]

\* No event waits for ever: one that was scheduled is triggered in the end.
EventuallyTriggered ==
    \A e \in Known : scheduled[e] > 0 ~> handled[e] > 0

\* The queue drains: an event does not stay in the sorted set, to be called
\* again by every tick, once faults have stopped.
EventuallyRemoved == \A e \in Event : <>[](~ Queued(e))

\* zRem removes "the events ... as they are now triggered" and no others: an
\* event scheduled while no execution holds it stays in the set until it is
\* fetched, whatever executions are still waiting for their calls.
OwedIsQueued == \A e \in owed : Queued(e)
=============================================================================
