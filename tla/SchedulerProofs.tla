-------------------------- MODULE SchedulerProofs --------------------------
(***************************************************************************)
(* The safety properties of Scheduler for any events, executions, faults   *)
(* and times: an event that is owed is in no batch; in a batch whose calls *)
(* are not all answered, every call answered so far was accepted; and the  *)
(* calls made, the calls on their way and a call still to come are covered *)
(* by the schedulings, the overlaps and the failed executions.             *)
(***************************************************************************)
EXTENDS Scheduler, FiniteSetTheorems, TLAPS

OwedIsFree == \A e \in owed : Queued(e) /\ ~ Held(e)

IInv == TypeOK /\ OwedIsFree

LEMMA RunTypes ==
    ASSUME TypeOK, NEW r \in Run
    PROVE  /\ run[r] \in Execution /\ run[r].batch \subseteq Event
           /\ run[r].waiting \subseteq run[r].batch \cap Known
           /\ NoRun \in Execution /\ None \notin Score
  BY SchedulerAssumption DEF TypeOK, Execution, NoRun, Score

LEMMA CountAgainTypes ==
    ASSUME TypeOK, NEW events, CountAgain(events)
    PROVE  /\ again' \in [Event -> Nat]
           /\ \A e \in Event :
                 /\ again'[e] >= again[e]
                 /\ e \in events /\ Queued(e) => again'[e] = again[e] + 1
  BY DEF CountAgain, TypeOK

LEMMA InitIInv == Init => IInv
  BY SchedulerAssumption
  DEF Init, IInv, TypeOK, OwedIsFree, Execution, NoRun, Score

LEMMA StutterIInv == IInv /\ UNCHANGED vars => IInv'
  BY DEF vars, history, IInv, TypeOK, OwedIsFree, Held, Queued

\* What an answered call leaves of an execution: its batch.
LEMMA AnswerIInv ==
    ASSUME IInv, NEW r \in Run, NEW e \in Event, NEW x \in Execution,
           x.batch = run[r].batch, x.waiting = run[r].waiting \ {e},
           run' = [run EXCEPT ![r] = x],
           faults' \in 0 .. MaxFaults, handled' \in [Event -> Nat],
           UNCHANGED <<now, queue, scheduled, owed, again>>
    PROVE  IInv'
<1>1. TypeOK /\ OwedIsFree /\ run \in [Run -> Execution]
  BY DEF IInv, TypeOK
<1>2. /\ run' \in [Run -> Execution]
      /\ \A q \in Run : /\ run'[q].batch = run[q].batch
                        /\ run'[q].waiting \subseteq run[q].waiting
  BY <1>1
<1>3. TypeOK'
  BY <1>1, <1>2 DEF TypeOK
<1>4. OwedIsFree'
  BY <1>1, <1>2 DEF OwedIsFree, Held, Queued
<1> QED
  BY <1>3, <1>4 DEF IInv

\* An execution that ends, or all of them: the events they had not removed
\* are still queued.
LEMMA EndIInv ==
    ASSUME IInv, run' \in [Run -> Execution],
           \A r \in Run : run'[r] = run[r] \/ run'[r] = NoRun,
           queue' \in [Event -> Score \cup {None}],
           \A e \in owed : queue'[e] = queue[e],
           faults' \in 0 .. MaxFaults, again' \in [Event -> Nat],
           UNCHANGED <<now, scheduled, handled, owed>>
    PROVE  IInv'
<1>1. TypeOK'
  BY DEF IInv, TypeOK, NoRun
<1>2. OwedIsFree'
  BY DEF IInv, OwedIsFree, Held, Queued, NoRun
<1> QED
  BY <1>1, <1>2 DEF IInv

LEMMA CreateEventIInv ==
    ASSUME IInv, NEW e \in Event, NEW s \in Score, CreateEvent(e, s)
    PROVE  IInv'
<1>1. None \notin Score
  BY SchedulerAssumption DEF Score
<1>2. TypeOK'
  <2>1. scheduled' \in [Event -> 0 .. MaxSchedules]
    BY SchedulerAssumption DEF IInv, TypeOK, CreateEvent
  <2> QED
    BY <2>1 DEF IInv, TypeOK, CreateEvent
<1>3. OwedIsFree'
  <2> SUFFICES ASSUME NEW d \in owed' PROVE Queued(d)' /\ ~ Held(d)'
    BY DEF OwedIsFree
  <2>1. d \in Event /\ run' = run /\ queue \in [Event -> Score \cup {None}]
    BY <1>2 DEF TypeOK, CreateEvent, IInv
  <2>2. CASE d = e
    BY <1>1, <2>1, <2>2 DEF CreateEvent, Queued, Held
  <2>3. CASE d # e
    BY <2>1, <2>3 DEF CreateEvent, Queued, Held, IInv, OwedIsFree
  <2> QED
    BY <2>2, <2>3
<1> QED
  BY <1>2, <1>3 DEF IInv

LEMMA GetEventsIInv ==
    ASSUME IInv, NEW r \in Run, GetEvents(r)
    PROVE  IInv'
<1> DEFINE batch == {e \in Event : Due(e, now + 1)}
<1>1. /\ run' = [run EXCEPT ![r] = [pc |-> "calling", batch |-> batch,
                                    waiting |-> batch \cap Known]]
      /\ owed' = owed \ batch /\ again' \in [Event -> Nat]
      /\ UNCHANGED <<now, queue, faults, scheduled, handled>>
  BY CountAgainTypes DEF GetEvents, Calls, IInv
<1>2. batch \subseteq Event
  OBVIOUS
<1> HIDE DEF batch
<1>3. /\ run' \in [Run -> Execution]
      /\ run'[r].batch = batch /\ run'[r].waiting = batch \cap Known
      /\ \A q \in Run : q # r => run'[q] = run[q]
  BY <1>1, <1>2 DEF IInv, TypeOK, Execution
<1>4. TypeOK'
  <2>1. \A q \in Run : run'[q].waiting \subseteq run'[q].batch \cap Known
    BY <1>3 DEF IInv, TypeOK
  <2> QED
    BY <1>1, <1>3, <2>1 DEF IInv, TypeOK
<1>5. OwedIsFree'
  BY <1>1, <1>3 DEF IInv, OwedIsFree, Held, Queued
<1> QED
  BY <1>4, <1>5 DEF IInv

LEMMA RemoveIInv ==
    ASSUME IInv, NEW r \in Run, Remove(r)
    PROVE  IInv'
<1>1. /\ queue' \in [Event -> Score \cup {None}]
      /\ \A e \in owed : queue'[e] = queue[e]
  BY DEF Remove, IInv, TypeOK, OwedIsFree, Held
<1>2. /\ run' \in [Run -> Execution]
      /\ \A q \in Run : run'[q] = run[q] \/ run'[q] = NoRun
  BY RunTypes DEF Remove, IInv, TypeOK
<1> QED
  BY <1>1, <1>2, EndIInv DEF Remove, history, IInv, TypeOK

LEMMA NextIInv == IInv /\ [Next]_vars => IInv'
<1> SUFFICES ASSUME IInv, Next PROVE IInv'
  BY StutterIInv
<1> USE SchedulerAssumption
<1>t. TypeOK /\ faults \in 0 .. MaxFaults /\ handled \in [Event -> Nat]
  BY DEF IInv, TypeOK
<1>1. CASE Elapse
  BY <1>1 DEF Elapse, IInv, TypeOK, OwedIsFree, Held, Queued, Score, history
<1>2. CASE Restart
  <2>1. faults' \in 0 .. MaxFaults
    BY <1>2, <1>t DEF Restart
  <2>2. run' \in [Run -> Execution] /\ \A r \in Run : run'[r] = NoRun
    BY <1>2, <1>t, RunTypes DEF Restart
  <2> QED
    BY <1>2, <1>t, <2>1, <2>2, CountAgainTypes, EndIInv DEF Restart, TypeOK
<1>3. ASSUME NEW e \in Event, NEW s \in Score, CreateEvent(e, s) PROVE IInv'
  BY <1>3, CreateEventIInv
<1>4. ASSUME NEW r \in Run, GetEvents(r) PROVE IInv'
  BY <1>4, GetEventsIInv
<1>5. ASSUME NEW r \in Run, NEW e \in Event,
             CallSucceeds(r, e) \/ CallRefused(r, e) \/ CallUnanswered(r, e)
      PROVE  IInv'
  <2> DEFINE waiting == run[r].waiting \ {e}
             x == [run[r] EXCEPT !.waiting = waiting]
             y == [run[r] EXCEPT !.pc = "rejected", !.waiting = waiting]
  <2>1. run[r] \in Execution /\ waiting \subseteq Event
    BY <1>t, RunTypes DEF Execution
  <2> HIDE DEF waiting
  <2>2. /\ x \in Execution /\ x.batch = run[r].batch /\ x.waiting = waiting
        /\ y \in Execution /\ y.batch = run[r].batch /\ y.waiting = waiting
    BY <2>1 DEF Execution
  <2>3. /\ run' = [run EXCEPT ![r] = x] \/ run' = [run EXCEPT ![r] = y]
        /\ UNCHANGED <<now, queue, scheduled, owed, again>>
    <3>1. CASE CallSucceeds(r, e)
      BY <3>1 DEF CallSucceeds, Answered, waiting
    <3>2. CASE CallRefused(r, e)
      BY <3>2 DEF CallRefused, Answered, history, waiting
    <3>3. CASE CallUnanswered(r, e)
      BY <3>3 DEF CallUnanswered, waiting
    <3> QED
      BY <1>5, <3>1, <3>2, <3>3
  <2>4. faults' \in 0 .. MaxFaults /\ handled' \in [Event -> Nat]
    BY <1>5, <1>t DEF CallSucceeds, CallRefused, CallUnanswered, history
  <2> HIDE DEF x, y
  <2>5. CASE run' = [run EXCEPT ![r] = x]
    BY <2>2, <2>3, <2>4, <2>5, AnswerIInv DEF waiting
  <2>6. CASE run' = [run EXCEPT ![r] = y]
    BY <2>2, <2>3, <2>4, <2>6, AnswerIInv DEF waiting
  <2> QED
    BY <2>3, <2>5, <2>6
<1>6. ASSUME NEW r \in Run, Remove(r) PROVE IInv'
  BY <1>6, RemoveIInv
<1>7. ASSUME NEW r \in Run, RemoveFails(r) \/ Over(r) PROVE IInv'
  <2>1. /\ run' \in [Run -> Execution]
        /\ \A q \in Run : run'[q] = run[q] \/ run'[q] = NoRun
    BY <1>7, <1>t, RunTypes DEF RemoveFails, Over, TypeOK
  <2>2. faults' \in 0 .. MaxFaults
    BY <1>7, <1>t DEF RemoveFails, Over
  <2> QED
    BY <1>7, <1>t, <2>1, <2>2, CountAgainTypes, EndIInv
    DEF RemoveFails, Over, TypeOK
<1> QED
  BY <1>1, <1>2, <1>3, <1>4, <1>5, <1>6, <1>7 DEF Next, Finish
-----------------------------------------------------------------------------
\* The strengthened invariant holds in every state.
THEOREM Inductive == Spec => []IInv
  BY InitIInv, NextIInv, PTL DEF Spec

\* The sorted set, the executions and the counters keep their types, and only
\* fetched events of a known type wait for an answer.
THEOREM TypeCorrect == Spec => []TypeOK
<1>1. IInv => TypeOK
  BY DEF IInv
<1> QED
  BY <1>1, Inductive, PTL

\* An event scheduled while no execution holds it stays in the sorted set
\* until it is fetched: zRem removes the members of its own batch only.
THEOREM OwedStaysQueued == Spec => []OwedIsQueued
<1>1. IInv => OwedIsQueued
  BY DEF IInv, OwedIsFree, OwedIsQueued
<1> QED
  BY <1>1, Inductive, PTL
-----------------------------------------------------------------------------
\* In a batch that may still be removed, the calls that are answered have
\* been accepted; an event in no batch and not queued was removed.
BatchTriggered ==
    \A r \in Run : run[r].pc = "calling" =>
        \A e \in (run[r].batch \cap Known) \ run[r].waiting : handled[e] > 0

TInv == IInv /\ BatchTriggered /\ RemovedWasTriggered

LEMMA TriggeredStep ==
    ASSUME ~ MayReject, TInv, [Next]_vars
    PROVE  BatchTriggered' /\ RemovedWasTriggered'
<1> USE DEF TInv, BatchTriggered, RemovedWasTriggered
<1>t. TypeOK /\ \A e \in Event : handled[e] \in Nat
  BY DEF IInv, TypeOK
<1>n. None \notin Score /\ NoRun.pc = "idle"
  BY SchedulerAssumption DEF Score, NoRun
<1>1. CASE Elapse \/ UNCHANGED vars
  BY <1>1 DEF Elapse, vars, history, Queued
<1>2. CASE Restart
  BY <1>2, <1>n DEF Restart, history, Queued
<1>3. ASSUME NEW e \in Event, NEW s \in Score, CreateEvent(e, s)
      PROVE  BatchTriggered' /\ RemovedWasTriggered'
  <2>1. \A d \in Event : d # e => Queued(d)' = Queued(d)
                                  /\ scheduled'[d] = scheduled[d]
    BY <1>3, <1>t DEF CreateEvent, Queued, TypeOK
  <2>2. Queued(e)'
    BY <1>3, <1>n, <1>t DEF CreateEvent, Queued, TypeOK
  <2> QED
    BY <1>3, <2>1, <2>2, SchedulerAssumption DEF CreateEvent
<1>4. ASSUME NEW r \in Run, GetEvents(r)
      PROVE  BatchTriggered' /\ RemovedWasTriggered'
  <2>1. \A q \in Run : q # r => run'[q] = run[q]
    BY <1>4, <1>t DEF GetEvents, TypeOK
  <2>2. (run'[r].batch \cap Known) \ run'[r].waiting = {}
    BY <1>4, <1>t DEF GetEvents, Calls, TypeOK
  <2> QED
    BY <1>4, <2>1, <2>2 DEF GetEvents, Queued
<1>5. ASSUME NEW r \in Run, NEW e \in Event, CallSucceeds(r, e)
      PROVE  BatchTriggered' /\ RemovedWasTriggered'
  <2>1. run[r] \in Execution
    BY <1>t DEF TypeOK
  <2>2. /\ run'[r].pc = run[r].pc /\ run'[r].batch = run[r].batch
        /\ run'[r].waiting = run[r].waiting \ {e}
        /\ \A q \in Run : q # r => run'[q] = run[q]
    <3> DEFINE waiting == run[r].waiting \ {e}
               x == [run[r] EXCEPT !.waiting = waiting]
    <3>1. run' = [run EXCEPT ![r] = x]
      BY <1>5 DEF CallSucceeds, Answered
    <3>2. x.pc = run[r].pc /\ x.batch = run[r].batch /\ x.waiting = waiting
      <4> HIDE DEF waiting
      <4> QED
        BY <2>1 DEF Execution
    <3> HIDE DEF x
    <3> QED
      BY <1>t, <3>1, <3>2 DEF TypeOK
  <2>3. /\ handled'[e] > 0
        /\ \A d \in Event : handled[d] > 0 => handled'[d] > 0
    BY <1>5, <1>t DEF CallSucceeds, TypeOK
  <2> QED
    BY <1>5, <2>2, <2>3, SchedulerAssumption DEF CallSucceeds, Queued
<1>6. ASSUME NEW r \in Run, NEW e \in Event, CallUnanswered(r, e)
      PROVE  BatchTriggered' /\ RemovedWasTriggered'
  <2>1. run[r] \in Execution
    BY <1>t DEF TypeOK
  <2>2. run'[r].pc = "rejected" /\ \A q \in Run : q # r => run'[q] = run[q]
    BY <1>6, <1>t, <2>1 DEF CallUnanswered, TypeOK, Execution
  <2>3. \A d \in Event : handled[d] > 0 => handled'[d] > 0
    BY <1>6, <1>t DEF CallUnanswered, TypeOK
  <2> QED
    BY <1>6, <2>2, <2>3, SchedulerAssumption DEF CallUnanswered, Queued
<1>7. ASSUME NEW r \in Run, Remove(r)
      PROVE  BatchTriggered' /\ RemovedWasTriggered'
  <2>1. \A q \in Run : run'[q] = run[q] \/ run'[q] = NoRun
    BY <1>7, <1>t DEF Remove, TypeOK
  <2>2. \A d \in run[r].batch \cap Known : handled[d] > 0
    BY <1>7 DEF Remove
  <2>3. \A d \in Event : d \notin run[r].batch => Queued(d)' = Queued(d)
    BY <1>7 DEF Remove, Queued
  <2> QED
    BY <1>7, <1>n, <2>1, <2>2, <2>3, SchedulerAssumption DEF Remove, history
<1>8. ASSUME NEW r \in Run, RemoveFails(r) \/ Over(r)
      PROVE  BatchTriggered' /\ RemovedWasTriggered'
  <2>1. \A q \in Run : run'[q] = run[q] \/ run'[q] = NoRun
    BY <1>8, <1>t DEF RemoveFails, Over, TypeOK
  <2> QED
    BY <1>8, <1>n, <2>1 DEF RemoveFails, Over, history, Queued
<1>9. ASSUME NEW r \in Run, NEW e \in Event PROVE ~ CallRefused(r, e)
  BY DEF CallRefused
<1> QED
  BY <1>1, <1>2, <1>3, <1>4, <1>5, <1>6, <1>7, <1>8, <1>9 DEF Next, Finish

\* At least once: what was scheduled and has left the sorted set was accepted
\* by its endpoint, provided endpoints do not answer with an error (such an
\* answer is dropped like an acceptance).
THEOREM RemovedIsTriggered ==
    ASSUME ~ MayReject
    PROVE  Spec => []RemovedWasTriggered
<1>1. Init => TInv
  BY InitIInv
  DEF Init, TInv, BatchTriggered, RemovedWasTriggered, NoRun
<1>2. TInv /\ [Next]_vars => TInv'
  BY TriggeredStep, NextIInv DEF TInv
<1>3. TInv => RemovedWasTriggered
  BY DEF TInv
<1> QED
  BY <1>1, <1>2, <1>3, PTL DEF Spec
-----------------------------------------------------------------------------
\* A queued event that no execution holds will be fetched for the first time
\* since it was scheduled, or since an execution failed.
Fresh(e) == IF Queued(e) /\ ~ Held(e) THEN 1 ELSE 0

Callers(e) == {r \in Run : e \in run[r].waiting}

\* Calls made, on their way and to come, against their causes.
CallsHaveCauses ==
    \A e \in Event : handled[e] + Cardinality(Callers(e)) + Fresh(e)
                        <= scheduled[e] + again[e]

IdleHoldsNothing == \A r \in Run : run[r].pc = "idle" => run[r].batch = {}

CInv == IInv /\ IdleHoldsNothing /\ CallsHaveCauses

LEMMA CallersFinite ==
    \A e : /\ IsFiniteSet(Callers(e)) /\ Cardinality(Callers(e)) \in Nat
           /\ Fresh(e) \in {0, 1}
<1> TAKE e
<1>1. Callers(e) \subseteq Run
  BY DEF Callers
<1> QED
  BY <1>1, SchedulerAssumption, FS_Subset, FS_CardinalityType DEF Fresh

\* Somebody who called does not any more, or nobody new does.
LEMMA FewerCallers ==
    ASSUME NEW e, Callers(e)' \subseteq Callers(e)
    PROVE  /\ Cardinality(Callers(e)') \in Nat
           /\ Cardinality(Callers(e)') <= Cardinality(Callers(e))
  BY CallersFinite, FS_Subset, FS_CardinalityType

\* What no step may lose: with fewer callers and no more calls to come, made
\* or counted as a cause, the causes still suffice.
LEMMA CausesSuffice ==
    ASSUME CInv, again' \in [Event -> Nat],
           \A e \in Event :
              /\ handled'[e] = handled[e] /\ scheduled'[e] = scheduled[e]
              /\ Callers(e)' \subseteq Callers(e)
              /\ again'[e] >= again[e]
              /\ Fresh(e)' = Fresh(e) \/ Fresh(e)' = 0 \/ again'[e] = again[e] + 1
    PROVE  CallsHaveCauses'
<1> SUFFICES ASSUME NEW e \in Event
             PROVE  handled'[e] + Cardinality(Callers(e)') + Fresh(e)'
                       <= scheduled'[e] + again'[e]
  BY DEF CallsHaveCauses
<1>1. /\ handled[e] \in Nat /\ scheduled[e] \in Nat /\ again[e] \in Nat
      /\ again'[e] \in Nat
      /\ handled[e] + Cardinality(Callers(e)) + Fresh(e) <= scheduled[e] + again[e]
  BY DEF CInv, IInv, TypeOK, CallsHaveCauses
<1>2. /\ Cardinality(Callers(e)) \in Nat /\ Fresh(e) \in {0, 1}
      /\ Cardinality(Callers(e)') \in Nat
      /\ Cardinality(Callers(e)') <= Cardinality(Callers(e))
  BY CallersFinite, FewerCallers
<1>3. Fresh(e)' \in {0, 1}
  BY DEF Fresh
<1> DEFINE n == Cardinality(Callers(e))
           m == Cardinality(Callers(e)')
           f == Fresh(e)
           g == Fresh(e)'
<1>4. n \in Nat /\ m \in Nat /\ m <= n /\ f \in {0, 1} /\ g \in {0, 1}
      /\ handled[e] + n + f <= scheduled[e] + again[e]
      /\ (g = f \/ g = 0 \/ again'[e] = again[e] + 1)
      /\ again'[e] >= again[e]
  BY <1>1, <1>2, <1>3
<1> HIDE DEF n, m, f, g
<1>5. handled[e] + m + g <= scheduled[e] + again'[e]
  BY <1>1, <1>4
<1> QED
  BY <1>5 DEF m, g

LEMMA CreateEventCauses ==
    ASSUME CInv, NEW e \in Event, NEW s \in Score, CreateEvent(e, s)
    PROVE  CallsHaveCauses'
<1>1. /\ scheduled'[e] = scheduled[e] + 1
      /\ \A d \in Event : d # e => /\ queue'[d] = queue[d]
                                   /\ scheduled'[d] = scheduled[d]
      /\ UNCHANGED <<run, handled, again>>
  BY DEF CreateEvent, CInv, IInv, TypeOK
<1>2. \A d \in Event : /\ handled[d] \in Nat /\ scheduled[d] \in Nat
                       /\ again[d] \in Nat
  BY DEF CInv, IInv, TypeOK, CallsHaveCauses
<1> SUFFICES ASSUME NEW d \in Event
             PROVE  handled[d] + Cardinality(Callers(d)') + Fresh(d)'
                       <= scheduled'[d] + again[d]
  BY <1>1 DEF CallsHaveCauses, CInv
<1>3. Callers(d)' = Callers(d)
  BY <1>1 DEF Callers
<1>4. Cardinality(Callers(d)) \in Nat /\ Fresh(d) \in {0, 1} /\ Fresh(d)' \in {0, 1}
  BY CallersFinite DEF Fresh
<1>5. d # e => Fresh(d)' = Fresh(d)
  BY <1>1 DEF Fresh, Queued, Held
<1>6. handled[d] + Cardinality(Callers(d)) + Fresh(d) <= scheduled[d] + again[d]
  BY DEF CInv, CallsHaveCauses
<1> DEFINE n == Cardinality(Callers(d))
           f == Fresh(d)
           g == Fresh(d)'
<1>7. /\ n \in Nat /\ f \in {0, 1} /\ g \in {0, 1}
      /\ d # e => g = f
      /\ handled[d] + n + f <= scheduled[d] + again[d]
  BY <1>4, <1>5, <1>6
<1> HIDE DEF n, f, g
<1>8. handled[d] + n + g <= scheduled'[d] + again[d]
  BY <1>1, <1>2, <1>7
<1> QED
  BY <1>3, <1>8 DEF n, g

\* A fetched event is called by r as well; unless it was held, it was fresh.
LEMMA GetEventsCauses ==
    ASSUME CInv, NEW r \in Run, GetEvents(r)
    PROVE  CallsHaveCauses'
<1> DEFINE batch == {e \in Event : Due(e, now + 1)}
<1>1. /\ run' = [run EXCEPT ![r] = [pc |-> "calling", batch |-> batch,
                                    waiting |-> batch \cap Known]]
      /\ CountAgain({e \in batch : Held(e)})
      /\ UNCHANGED <<queue, scheduled, handled>>
  BY DEF GetEvents, Calls
<1>2. \A e \in batch : e \in Event /\ Queued(e)
  BY DEF Due
<1> HIDE DEF batch
<1>3. /\ run'[r].batch = batch /\ run'[r].waiting = batch \cap Known
      /\ \A q \in Run : q # r => run'[q] = run[q]
  BY <1>1 DEF CInv, IInv, TypeOK
<1>4. /\ again' \in [Event -> Nat]
      /\ \A e \in Event : /\ again'[e] >= again[e]
                          /\ e \in batch /\ Held(e) => again'[e] = again[e] + 1
  BY <1>1, <1>2, CountAgainTypes DEF CInv, IInv
<1> SUFFICES ASSUME NEW e \in Event
             PROVE  handled[e] + Cardinality(Callers(e)') + Fresh(e)'
                       <= scheduled[e] + again'[e]
  BY <1>1, <1>4 DEF CallsHaveCauses
<1>5. /\ handled[e] \in Nat /\ scheduled[e] \in Nat /\ again[e] \in Nat
      /\ again'[e] \in Nat
      /\ handled[e] + Cardinality(Callers(e)) + Fresh(e) <= scheduled[e] + again[e]
  BY <1>4 DEF CInv, IInv, TypeOK, CallsHaveCauses
<1>6. Cardinality(Callers(e)) \in Nat /\ Fresh(e) \in {0, 1} /\ IsFiniteSet(Callers(e))
  BY CallersFinite
<1>7. CASE e \in batch
  <2>1. Callers(e)' \subseteq Callers(e) \cup {r}
    BY <1>3 DEF Callers
  <2>2. /\ Cardinality(Callers(e) \cup {r}) <= Cardinality(Callers(e)) + 1
        /\ IsFiniteSet(Callers(e) \cup {r})
        /\ Cardinality(Callers(e) \cup {r}) \in Nat
    <3>1. /\ IsFiniteSet(Callers(e) \cup {r})
          /\ \/ Cardinality(Callers(e) \cup {r}) = Cardinality(Callers(e))
             \/ Cardinality(Callers(e) \cup {r}) = Cardinality(Callers(e)) + 1
      BY <1>6, FS_AddElement
    <3>2. Cardinality(Callers(e) \cup {r}) \in Nat
      BY <3>1, FS_CardinalityType
    <3> DEFINE n == Cardinality(Callers(e))
               k == Cardinality(Callers(e) \cup {r})
    <3>3. n \in Nat /\ k \in Nat /\ (k = n \/ k = n + 1)
      BY <1>6, <3>1, <3>2
    <3> HIDE DEF n, k
    <3>4. k <= n + 1
      BY <3>3
    <3> QED
      BY <3>1, <3>2, <3>4 DEF n, k
  <2>3. /\ Cardinality(Callers(e)') <= Cardinality(Callers(e)) + 1
        /\ Cardinality(Callers(e)') \in Nat
    BY <1>6, <2>1, <2>2, FS_Subset, FS_CardinalityType
  <2>4. Fresh(e)' = 0
    BY <1>3, <1>7 DEF Fresh, Held
  <2>5. Fresh(e) = 1 \/ again'[e] = again[e] + 1
    BY <1>2, <1>4, <1>7 DEF Fresh
  <2> DEFINE n == Cardinality(Callers(e))
             m == Cardinality(Callers(e)')
             f == Fresh(e)
  <2>6. /\ n \in Nat /\ m \in Nat /\ m <= n + 1 /\ f \in {0, 1}
        /\ f = 1 \/ again'[e] = again[e] + 1
        /\ again'[e] >= again[e]
        /\ handled[e] + n + f <= scheduled[e] + again[e]
    BY <1>4, <1>5, <1>6, <2>3, <2>5
  <2> HIDE DEF n, m, f
  <2>7. handled[e] + m + 0 <= scheduled[e] + again'[e]
    BY <1>5, <2>6
  <2> QED
    BY <2>4, <2>7 DEF m
<1>8. CASE e \notin batch
  <2>1. Callers(e)' \subseteq Callers(e)
    BY <1>3, <1>8 DEF Callers
  <2>2. /\ Cardinality(Callers(e)') <= Cardinality(Callers(e))
        /\ Cardinality(Callers(e)') \in Nat
    BY <2>1, FewerCallers
  <2>3. Fresh(e)' = Fresh(e)
    <3>1. run[r].batch = {}
      BY DEF GetEvents, CInv, IdleHoldsNothing
    <3>2. Held(e)' <=> Held(e)
      BY <1>3, <1>8, <3>1 DEF Held
    <3> QED
      BY <1>1, <3>2 DEF Fresh, Queued
  <2> QED
    BY <1>4, <1>5, <1>6, <2>2, <2>3
<1> QED
  BY <1>7, <1>8

\* An answer takes r off the callers of e and adds at most one call.
LEMMA AnswerCauses ==
    ASSUME CInv, NEW r \in Run, NEW e \in run[r].waiting,
           run'[r].batch = run[r].batch, run'[r].waiting = run[r].waiting \ {e},
           \A q \in Run : q # r => run'[q] = run[q],
           NEW done \in {0, 1}, handled' = [handled EXCEPT ![e] = @ + done],
           UNCHANGED <<queue, scheduled, again>>
    PROVE  CallsHaveCauses'
<1>t. TypeOK /\ e \in Event
  BY RunTypes DEF CInv, IInv
<1> SUFFICES ASSUME NEW d \in Event
             PROVE  handled'[d] + Cardinality(Callers(d)') + Fresh(d)'
                       <= scheduled[d] + again[d]
  BY <1>t DEF CallsHaveCauses
<1>1. /\ handled[d] \in Nat /\ scheduled[d] \in Nat /\ again[d] \in Nat
      /\ handled[d] + Cardinality(Callers(d)) + Fresh(d) <= scheduled[d] + again[d]
  BY <1>t DEF TypeOK, CInv, CallsHaveCauses
<1>2. Held(d)' <=> Held(d)
  BY DEF Held
<1>3. Fresh(d)' = Fresh(d)
  BY <1>2 DEF Fresh, Queued
<1>4. Cardinality(Callers(d)) \in Nat /\ Fresh(d) \in {0, 1} /\ IsFiniteSet(Callers(d))
  BY CallersFinite
<1>5. CASE d = e
  <2>1. Callers(e)' = Callers(e) \ {r} /\ r \in Callers(e)
    BY DEF Callers
  <2>2. Cardinality(Callers(e)') = Cardinality(Callers(e)) - 1
    BY <1>4, <1>5, <2>1, FS_RemoveElement
  <2>3. handled'[e] = handled[e] + done
    BY <1>t DEF TypeOK
  <2> DEFINE n == Cardinality(Callers(e))
             m == Cardinality(Callers(e)')
             f == Fresh(e)
  <2>4. n \in Nat /\ m = n - 1 /\ f \in {0, 1} /\ handled[e] + n + f <= scheduled[e] + again[e]
    BY <1>1, <1>4, <1>5, <2>2
  <2> HIDE DEF n, m, f
  <2>5. handled'[e] + m + f <= scheduled[e] + again[e]
    BY <1>1, <1>5, <2>3, <2>4
  <2> QED
    BY <1>3, <1>5, <2>5 DEF m, f
<1>6. CASE d # e
  <2>1. Callers(d)' = Callers(d) /\ handled'[d] = handled[d]
    BY <1>t, <1>6 DEF Callers, TypeOK
  <2> QED
    BY <1>1, <1>3, <2>1
<1> QED
  BY <1>5, <1>6

\* zRem: what is removed is fetched no more.
LEMMA RemoveCauses ==
    ASSUME CInv, NEW r \in Run, Remove(r)
    PROVE  CallsHaveCauses'
<1>1. /\ run'[r] = NoRun /\ \A q \in Run : q # r => run'[q] = run[q]
      /\ UNCHANGED <<handled, scheduled, again>>
  BY DEF Remove, history, CInv, IInv, TypeOK
<1>2. \A e \in Event : Callers(e)' \subseteq Callers(e)
  BY <1>1 DEF Callers, NoRun
<1>3. ASSUME NEW e \in Event PROVE Fresh(e)' = Fresh(e) \/ Fresh(e)' = 0
  <2>1. CASE e \in run[r].batch
    BY <2>1 DEF Remove, Fresh, Queued
  <2>2. CASE e \notin run[r].batch
    <3>1. Held(e)' <=> Held(e)
      BY <1>1, <2>2 DEF Held, NoRun
    <3>2. queue'[e] = queue[e]
      BY <2>2 DEF Remove
    <3> QED
      BY <3>1, <3>2 DEF Fresh, Queued
  <2> QED
    BY <2>1, <2>2
<1>4. again \in [Event -> Nat]
  BY DEF CInv, IInv, TypeOK
<1> QED
  BY <1>1, <1>2, <1>3, <1>4, CausesSuffice

\* A failed execution, or all of them: what they held is fetched again.
LEMMA DropCauses ==
    ASSUME CInv, NEW ended \in SUBSET Run,
           CountAgain({e \in Event : \E r \in ended : e \in run[r].batch}),
           \A r \in Run : run'[r] = IF r \in ended THEN NoRun ELSE run[r],
           UNCHANGED <<queue, handled, scheduled>>
    PROVE  CallsHaveCauses'
<1> DEFINE dropped == {e \in Event : \E r \in ended : e \in run[r].batch}
<1>1. /\ again' \in [Event -> Nat]
      /\ \A e \in Event : /\ again'[e] >= again[e]
                          /\ e \in dropped /\ Queued(e) => again'[e] = again[e] + 1
  BY CountAgainTypes DEF CInv, IInv
<1>2. \A e \in Event : Callers(e)' \subseteq Callers(e)
  BY DEF Callers, NoRun
<1>3. ASSUME NEW e \in Event
      PROVE  Fresh(e)' = Fresh(e) \/ Fresh(e)' = 0 \/ again'[e] = again[e] + 1
  <2>1. CASE e \in dropped /\ Queued(e)
    BY <1>1, <2>1
  <2>2. CASE ~ Queued(e)
    BY <2>2 DEF Fresh, Queued
  <2>3. CASE e \notin dropped
    <3>1. Held(e)' <=> Held(e)
      BY <2>3 DEF Held, NoRun
    <3> QED
      BY <3>1 DEF Fresh, Queued
  <2> QED
    BY <2>1, <2>2, <2>3
<1> QED
  BY <1>1, <1>2, <1>3, CausesSuffice

LEMMA NextCauses ==
    ASSUME CInv, [Next]_vars
    PROVE  IdleHoldsNothing' /\ CallsHaveCauses'
<1>t. TypeOK /\ IInv /\ IdleHoldsNothing /\ CallsHaveCauses
  BY DEF CInv, IInv
<1>n. NoRun.batch = {} /\ NoRun.waiting = {}
  BY DEF NoRun
<1>1. CASE Elapse \/ UNCHANGED vars
  <2>1. UNCHANGED <<queue, run, history>>
    BY <1>1 DEF Elapse, vars
  <2>2. /\ \A e : Callers(e)' = Callers(e) /\ Fresh(e)' = Fresh(e)
        /\ UNCHANGED <<scheduled, handled, again>>
    BY <2>1 DEF Callers, Fresh, Queued, Held, history
  <2> QED
    BY <1>t, <2>1, <2>2 DEF IdleHoldsNothing, CallsHaveCauses
<1>2. CASE Restart
  <2>1. \A r \in Run : run'[r] = NoRun
    BY <1>2 DEF Restart
  <2>2. {e \in Event : Held(e)} = {e \in Event : \E r \in Run : e \in run[r].batch}
    BY DEF Held
  <2>3. CallsHaveCauses'
    BY <1>2, <2>1, <2>2, DropCauses DEF Restart
  <2> QED
    BY <1>n, <2>1, <2>3 DEF IdleHoldsNothing
<1>3. ASSUME NEW e \in Event, NEW s \in Score, CreateEvent(e, s)
      PROVE  IdleHoldsNothing' /\ CallsHaveCauses'
  BY <1>t, <1>3, CreateEventCauses DEF CreateEvent, IdleHoldsNothing
<1>4. ASSUME NEW r \in Run, GetEvents(r)
      PROVE  IdleHoldsNothing' /\ CallsHaveCauses'
  <2>1. run'[r].pc = "calling" /\ \A q \in Run : q # r => run'[q] = run[q]
    BY <1>t, <1>4 DEF GetEvents, TypeOK
  <2> QED
    BY <1>t, <1>4, <2>1, GetEventsCauses DEF IdleHoldsNothing
<1>5. ASSUME NEW r \in Run, NEW e \in Event,
             CallSucceeds(r, e) \/ CallRefused(r, e) \/ CallUnanswered(r, e)
      PROVE  IdleHoldsNothing' /\ CallsHaveCauses'
  <2> DEFINE waiting == run[r].waiting \ {e}
             x == [run[r] EXCEPT !.waiting = waiting]
             y == [run[r] EXCEPT !.pc = "rejected", !.waiting = waiting]
  <2>1. run[r] \in Execution /\ e \in run[r].waiting
    BY <1>5, <1>t DEF TypeOK, CallSucceeds, CallRefused, CallUnanswered
  <2>2. PICK done \in {0, 1} : handled' = [handled EXCEPT ![e] = @ + done]
    <3>1. CASE CallSucceeds(r, e)
      BY <3>1 DEF CallSucceeds
    <3>2. CASE CallRefused(r, e)
      <4>1. handled' = [handled EXCEPT ![e] = @ + 0]
        BY <3>2, <1>t DEF CallRefused, history, TypeOK
      <4> QED
        BY <4>1
    <3>3. CASE CallUnanswered(r, e)
      BY <3>3 DEF CallUnanswered
    <3> QED
      BY <1>5, <3>1, <3>2, <3>3
  <2>3. /\ run' = [run EXCEPT ![r] = x] \/ run' = [run EXCEPT ![r] = y]
        /\ UNCHANGED <<queue, scheduled, again>>
    BY <1>5 DEF CallSucceeds, CallRefused, CallUnanswered, Answered, history
  <2>4. /\ x.pc = run[r].pc /\ y.pc = "rejected"
        /\ x.batch = run[r].batch /\ x.waiting = waiting
        /\ y.batch = run[r].batch /\ y.waiting = waiting
    <3> HIDE DEF waiting
    <3> QED
      BY <2>1 DEF Execution
  <2> HIDE DEF x, y
  <2>5. /\ run'[r].pc \in {run[r].pc, "rejected"}
        /\ run'[r].batch = run[r].batch /\ run'[r].waiting = waiting
        /\ \A q \in Run : q # r => run'[q] = run[q]
    BY <1>t, <2>3, <2>4 DEF TypeOK
  <2>6. IdleHoldsNothing'
    BY <1>t, <2>5 DEF IdleHoldsNothing
  <2>7. CallsHaveCauses'
    BY <2>1, <2>2, <2>3, <2>5, AnswerCauses
  <2> QED
    BY <2>6, <2>7
<1>6. ASSUME NEW r \in Run, Remove(r)
      PROVE  IdleHoldsNothing' /\ CallsHaveCauses'
  <2>1. run'[r] = NoRun /\ \A q \in Run : q # r => run'[q] = run[q]
    BY <1>t, <1>6 DEF Remove, TypeOK
  <2> QED
    BY <1>t, <1>n, <1>6, <2>1, RemoveCauses DEF IdleHoldsNothing
<1>7. ASSUME NEW r \in Run, RemoveFails(r) \/ Over(r)
      PROVE  IdleHoldsNothing' /\ CallsHaveCauses'
  <2>1. /\ \A q \in Run : run'[q] = IF q \in {r} THEN NoRun ELSE run[q]
        /\ CountAgain(run[r].batch)
        /\ UNCHANGED <<queue, handled, scheduled>>
    BY <1>t, <1>7 DEF RemoveFails, Over, TypeOK
  <2>2. {e \in Event : \E q \in {r} : e \in run[q].batch} = run[r].batch
    BY <1>t DEF TypeOK, Execution
  <2>3. CallsHaveCauses'
    BY <2>1, <2>2, DropCauses
  <2> QED
    BY <1>t, <1>n, <2>1, <2>3 DEF IdleHoldsNothing
<1> QED
  BY <1>1, <1>2, <1>3, <1>4, <1>5, <1>6, <1>7 DEF Next, Finish

\* Every call has its cause, for any number of executions that overlap, fail
\* or are cut off by a restart: a scheduling, a fetch of an event another
\* execution held, or a failed execution that left the event queued.
THEOREM OneCallPerCause == Spec => []OncePerSchedule
<1>1. Init => CInv
  <2> SUFFICES ASSUME Init PROVE CInv
    OBVIOUS
  <2>1. \A e \in Event : /\ handled[e] = 0 /\ scheduled[e] = 0 /\ again[e] = 0
                         /\ Callers(e) = {} /\ Fresh(e) = 0
    BY DEF Init, Callers, Fresh, Queued, NoRun
  <2>2. CallsHaveCauses
    BY <2>1, FS_EmptySet DEF CallsHaveCauses, Init
  <2> QED
    BY <2>2, InitIInv DEF CInv, IdleHoldsNothing, Init, NoRun
<1>2. CInv /\ [Next]_vars => CInv'
  BY NextCauses, NextIInv DEF CInv
<1>3. CInv => OncePerSchedule
  <2> SUFFICES ASSUME CInv, NEW e \in Event
               PROVE  handled[e] <= scheduled[e] + again[e]
    BY DEF OncePerSchedule
  <2>1. /\ handled[e] \in Nat /\ scheduled[e] \in Nat /\ again[e] \in Nat
        /\ handled[e] + Cardinality(Callers(e)) + Fresh(e) <= scheduled[e] + again[e]
    BY DEF CInv, IInv, TypeOK, CallsHaveCauses
  <2> QED
    BY <2>1, CallersFinite
<1> QED
  BY <1>1, <1>2, <1>3, PTL DEF Spec
=============================================================================
