--------------------------- MODULE TrafficProofs ---------------------------
(***************************************************************************)
(* What TLAPS proves of batches and sweeps, for any number of threads,     *)
(* outcomes, attempts, back-offs and crashes.                              *)
(*                                                                         *)
(* First that every step of TrafficSpec is one the boundary's module       *)
(* allows, so that the boundary's and the store's theorems hold here; then *)
(* that the file always tells whole tasks.                                 *)
(***************************************************************************)
EXTENDS Traffic, BoundaryProofs, FiniteSetTheorems

Working(b) == task[b].pc \in {"opening", "calling", "resolving"}

\* The back-offs a task can have had.
BackOffs(t) == IF t.pc = "resolving" THEN MAX_ATTEMPTS ELSE t.attempt - 1

\* The batch's instants stay within what its back-offs allow.
OnTime(t) ==
  t.pc \in {"opening", "calling", "resolving"} =>
    \E start \in OpeningTimes :
      start <= t.call_time /\ t.call_time <= start + BackOffs(t) * MaxDelay

\* Who is in the boundary: only a batch in its retry loop.
TaskTypeOK ==
  /\ task \in [Batches -> Tasks]
  /\ crashes \in 0 .. MaxCrashes
  /\ \A b \in Batches : OnTime(task[b])
  /\ \A b \in Batches : task[b].pc # "calling" => call[b] = NoCall
  /\ \A s \in Sweepers : call[s] = NoCall

(* The fields a task in progress has.                                      *)
LEMMA TaskShape ==
  ASSUME NEW t \in Tasks, t.pc \notin {"ready", "aborted"}
  PROVE  t \in [pc : {"opening", "calling", "resolving"}, outcome_id : OutcomeIds,
                model_tier : Tiers, attempt : Attempts, call_time : Times,
                task_succeeded : BOOLEAN]
BY DEF Tasks, Ready, Aborted

(* Back-offs add up to at most MaxDelay each (traffic.py:184-186).         *)
LEMMA BackOffsAddUp ==
  ASSUME NEW k \in Nat, k <= MAX_ATTEMPTS
  PROVE  /\ MAX_ATTEMPTS \in Nat /\ MaxDelay \in Nat
         /\ k * MaxDelay \in Nat /\ MAX_ATTEMPTS * MaxDelay \in Nat
         /\ (k + 1) * MaxDelay = k * MaxDelay + MaxDelay
         /\ k * MaxDelay <= MAX_ATTEMPTS * MaxDelay
         /\ 0 * MaxDelay = 0
<1>1. MAX_ATTEMPTS \in Nat /\ MaxDelay \in Nat
  BY TrafficAssumption
<1>2. MAX_ATTEMPTS * MaxDelay = k * MaxDelay + (MAX_ATTEMPTS - k) * MaxDelay
  BY <1>1
<1>3. (MAX_ATTEMPTS - k) \in Nat /\ (MAX_ATTEMPTS - k) * MaxDelay \in Nat
  BY <1>1
<1>4. k * MaxDelay \in Nat /\ MAX_ATTEMPTS * MaxDelay \in Nat
  BY <1>1
<1> QED
  BY <1>1, <1>2, <1>3, <1>4

\* A delay that ends by `last', one back-off later than `before'.
LEMMA DelayEnds ==
  ASSUME NEW start \in Nat, NEW sofar \in Nat, NEW most \in Nat, NEW longest \in Nat,
         NEW at \in Nat, start <= at, at <= start + sofar, sofar <= most,
         NEW d \in Nat, d <= longest
  PROVE  /\ at \in start .. start + (most + longest)
         /\ at + d \in start .. start + (most + longest)
         /\ at + d \in Nat /\ start <= at + d /\ at <= start + most
         /\ at + d <= start + (sofar + longest)
         /\ sofar + longest <= most => at + d <= start + most
OBVIOUS

(* So the instants a batch writes are instants of the model.               *)
LEMMA InstantsSuffice ==
  ASSUME NEW start \in OpeningTimes, NEW k \in Nat, k <= MAX_ATTEMPTS,
         NEW at \in Nat, start <= at, at <= start + k * MaxDelay, NEW d \in Delays
  PROVE  /\ at \in Times /\ at + d \in Times
         /\ start <= at + d
         /\ at <= start + MAX_ATTEMPTS * MaxDelay
         /\ k < MAX_ATTEMPTS =>
              /\ at + d <= start + (k + 1) * MaxDelay
              /\ at + d <= start + MAX_ATTEMPTS * MaxDelay
<1> DEFINE sofar == k * MaxDelay
           most  == MAX_ATTEMPTS * MaxDelay
<1>1. start \in Nat /\ d \in Nat /\ d <= MaxDelay
  BY TrafficAssumption, TimesAssumption
<1>2. sofar \in Nat /\ most \in Nat /\ sofar <= most /\ MaxDelay \in Nat
      /\ (k + 1) * MaxDelay = sofar + MaxDelay /\ MAX_ATTEMPTS \in Nat
  BY BackOffsAddUp
<1>3. (MAX_ATTEMPTS + 1) * MaxDelay = most + MaxDelay
  BY <1>2, BackOffsAddUp
<1>4. start .. start + (most + MaxDelay) \subseteq Times
  BY <1>3, TrafficAssumption
<1>5. k < MAX_ATTEMPTS => sofar + MaxDelay <= most
  <2> SUFFICES ASSUME k < MAX_ATTEMPTS
               PROVE  (k + 1) * MaxDelay <= most
    BY <1>2
  <2>1. k + 1 \in Nat /\ k + 1 <= MAX_ATTEMPTS
    BY <1>2
  <2> QED
    BY <2>1, BackOffsAddUp
<1> HIDE DEF sofar, most
<1>6. /\ at \in start .. start + (most + MaxDelay)
      /\ at + d \in start .. start + (most + MaxDelay)
      /\ start <= at + d /\ at <= start + most
      /\ at + d <= start + (sofar + MaxDelay)
      /\ sofar + MaxDelay <= most => at + d <= start + most
  <2>1. at <= start + sofar
    BY DEF sofar
  <2> QED
    BY <1>1, <1>2, <2>1, DelayEnds
<1> QED
  BY <1>2, <1>4, <1>5, <1>6 DEF most

(* A batch in its retry loop calls the boundary with arguments of its type *)
(* and resolves at an instant of the model.                                *)
LEMMA TaskInstants ==
  ASSUME TaskTypeOK, NEW b \in Batches, Working(b), NEW d \in Delays
  PROVE  /\ task[b].outcome_id \in OutcomeIds /\ task[b].model_tier \in Tiers
         /\ task[b].attempt \in Attempts /\ task[b].attempt \in Nat
         /\ 1 <= task[b].attempt /\ task[b].attempt <= MAX_ATTEMPTS
         /\ task[b].call_time \in Times /\ task[b].call_time + d \in Times
         /\ task[b].task_succeeded \in BOOLEAN
         /\ \E start \in OpeningTimes :
              /\ start <= task[b].call_time + d
              /\ start <= task[b].call_time
              /\ task[b].call_time <= start + MAX_ATTEMPTS * MaxDelay
              /\ task[b].pc # "resolving" =>
                   /\ task[b].call_time + d <= start + task[b].attempt * MaxDelay
                   /\ task[b].call_time + d <= start + MAX_ATTEMPTS * MaxDelay
<1> DEFINE t == task[b]
           k == BackOffs(t)
<1>1. t \in [pc : {"opening", "calling", "resolving"}, outcome_id : OutcomeIds,
             model_tier : Tiers, attempt : Attempts, call_time : Times,
             task_succeeded : BOOLEAN]
  BY TaskShape DEF TaskTypeOK, Working
<1>2. t.attempt \in 1 .. MAX_ATTEMPTS /\ t.call_time \in Nat /\ MAX_ATTEMPTS \in Nat
  BY <1>1, TrafficAssumption, TimesAssumption
<1>3. PICK start \in OpeningTimes : start <= t.call_time /\ t.call_time <= start + k * MaxDelay
  BY DEF TaskTypeOK, OnTime, Working
<1>4. k \in Nat /\ k <= MAX_ATTEMPTS
  BY <1>2 DEF BackOffs
<1>5. t.pc # "resolving" => k < MAX_ATTEMPTS /\ k + 1 = t.attempt
  BY <1>2 DEF BackOffs
<1> HIDE DEF k
<1>6. /\ t.call_time + d \in Times
      /\ start <= t.call_time + d
      /\ t.call_time <= start + MAX_ATTEMPTS * MaxDelay
      /\ k < MAX_ATTEMPTS =>
           /\ t.call_time + d <= start + (k + 1) * MaxDelay
           /\ t.call_time + d <= start + MAX_ATTEMPTS * MaxDelay
  BY <1>2, <1>3, <1>4, InstantsSuffice
<1>7. t.pc # "resolving" =>
           /\ t.call_time + d <= start + t.attempt * MaxDelay
           /\ t.call_time + d <= start + MAX_ATTEMPTS * MaxDelay
  BY <1>5, <1>6
<1> QED
  BY <1>1, <1>2, <1>3, <1>6, <1>7

(* The provider's next event id is one of the model's.                     *)
LEMMA NextEventId ==
  ASSUME CallTypeOK, billed # EventIds
  PROVE  Cardinality(billed) + 1 \in EventIds
<1>1. PICK n \in Nat : EventIds = 1 .. n
  BY FS_CardinalityType, TrafficAssumption
<1>2. IsFiniteSet(EventIds) /\ Cardinality(EventIds) = n
  BY <1>1, FS_Interval
<1>3. /\ IsFiniteSet(billed) /\ Cardinality(billed) <= n
      /\ Cardinality(billed) # n
  BY <1>2, FS_Subset DEF CallTypeOK
<1>4. Cardinality(billed) \in Nat
  BY <1>3, FS_CardinalityType
<1> QED
  BY <1>1, <1>3, <1>4

(* A batch or a sweep uses the boundary and the store as the modules of    *)
(* these allow.                                                            *)
LEMMA SharedStep ==
  ASSUME TaskTypeOK, CallTypeOK, [TrafficNext]_trafficVars
  PROVE  [SharedNext]_allVars
<1> USE DEF SharedNext, BoundaryNext
<1>0. Batches \subseteq Workers /\ Sweepers \subseteq Workers
  BY TrafficAssumption
<1>1. ASSUME NEW b \in Batches, NEW id \in OutcomeIds, NEW tier \in Tiers,
             NEW t \in OpeningTimes, StartTask(b, id, tier, t)
      PROVE  \E w \in Workers : Elsewhere(w)
  BY <1>0, <1>1, TrafficAssumption DEF StartTask, Outside, Elsewhere
<1>2. ASSUME NEW b \in Batches, Opened(b) \/ ResolveWrite(b) \/ Resolved(b)
      PROVE  \E w \in Workers : Elsewhere(w)
  BY <1>0, <1>2 DEF Opened, ResolveWrite, Resolved, TaskTypeOK, Elsewhere
<1>3. ASSUME NEW b \in Batches, Attempt(b)
      PROVE  SharedNext
  <2>1. Working(b)
    BY <1>3 DEF Attempt, Working
  <2>2. /\ task[b].outcome_id \in OutcomeIds /\ task[b].model_tier \in Tiers
        /\ task[b].attempt \in Attempts /\ task[b].call_time \in Times
    BY <2>1, TaskShape DEF TaskTypeOK, Working
  <2>3. task[b].outcome_id \in OutcomeLabels /\ task[b].call_time \in Instants
    BY <2>2, TrafficAssumption DEF OutcomeLabels
  <2> QED
    BY <1>0, <1>3, <2>2, <2>3 DEF Attempt
<1>4. ASSUME NEW b \in Batches, InCall(b)
      PROVE  SharedNext
  BY <1>0, <1>4, NextEventId DEF InCall, CallStep
<1>5. ASSUME NEW b \in Batches,
             CallSucceeded(b) \/ CallRaised(b) \/ \E d \in Delays : CallFailed(b, d)
      PROVE  SharedNext
  BY <1>0, <1>5 DEF CallSucceeded, CallFailed, CallRaised
<1>6. ASSUME NEW b \in Batches, NEW d \in Delays, ResolveTask(b, d)
      PROVE  \E w \in Workers : Elsewhere(w)
  <2>1. task[b].outcome_id \in OutcomeIds /\ task[b].call_time + d \in Times
    BY <1>6, TaskInstants DEF ResolveTask, Working
  <2>2. (IF task[b].task_succeeded THEN SUCCEEDED ELSE FAILED) \in OwnerStatuses
    BY DEF OwnerStatuses
  <2> QED
    BY <1>0, <1>6, <2>1, <2>2 DEF ResolveTask, TaskTypeOK, Elsewhere
<1>7. ASSUME NEW b \in Batches, ResolveRaised(b)
      PROVE  UNCHANGED allVars
  BY <1>7 DEF ResolveRaised, allVars
<1>8. ASSUME NEW s \in Sweepers, SweepStep(s)
      PROVE  \E w \in Workers : Elsewhere(w)
  BY <1>0, <1>8, TrafficAssumption DEF SweepStep, TaskTypeOK, Elsewhere
<1>9. CASE Restart
  BY <1>9 DEF Restart
<1>10. CASE UNCHANGED trafficVars
  BY <1>10 DEF trafficVars, allVars, storeVars, boundaryVars
<1>11. CASE \E b \in Batches : BatchStep(b)
  BY <1>1, <1>2, <1>3, <1>4, <1>5, <1>6, <1>7, <1>11 DEF BatchStep
<1> QED
  BY <1>8, <1>9, <1>10, <1>11 DEF TrafficNext

(* One batch's step, which leaves every other thread's place as it was.    *)
LEMMA OneTaskMoves ==
  ASSUME TaskTypeOK, CallTypeOK, NEW b \in Batches, NEW t \in Tasks, UNCHANGED crashes,
         task' = [task EXCEPT ![b] = t], OnTime(t),
         \A w \in Workers \ {b} : call'[w] = call[w],
         t.pc # "calling" => call'[b] = NoCall
  PROVE  TaskTypeOK'
<1>1. /\ task' \in [Batches -> Tasks] /\ task'[b] = t
      /\ \A c \in Batches \ {b} : task'[c] = task[c]
  BY DEF TaskTypeOK
<1>2. \A c \in Batches : OnTime(task'[c])
  BY <1>1 DEF TaskTypeOK
<1>3. \A c \in Batches : task'[c].pc # "calling" => call'[c] = NoCall
  BY <1>1, TrafficAssumption DEF TaskTypeOK
<1>4. \A s \in Sweepers : call'[s] = NoCall
  BY TrafficAssumption DEF TaskTypeOK
<1> QED
  BY <1>1, <1>2, <1>3, <1>4 DEF TaskTypeOK

(* A step in which only calls move, those of batches in their retry loop.  *)
LEMMA OneCallMoves ==
  ASSUME TaskTypeOK, NEW b \in Batches, task[b].pc = "calling", UNCHANGED <<task, crashes>>,
         \A w \in Workers \ {b} : call'[w] = call[w]
  PROVE  TaskTypeOK'
BY TrafficAssumption DEF TaskTypeOK

(* Every step keeps the batches' variables in their types.                 *)
LEMMA TaskTypeStep ==
  ASSUME TaskTypeOK, CallTypeOK, [TrafficNext]_trafficVars
  PROVE  TaskTypeOK'
<1>0. Batches \subseteq Workers /\ Sweepers \subseteq Workers
  BY TrafficAssumption
<1>1. ASSUME NEW b \in Batches, NEW id \in OutcomeIds, NEW tier \in Tiers,
             NEW t \in OpeningTimes, StartTask(b, id, tier, t)
      PROVE  TaskTypeOK'
  <2> DEFINE s == [pc |-> "opening", outcome_id |-> id, model_tier |-> tier, attempt |-> 1,
                   call_time |-> t, task_succeeded |-> FALSE]
  <2>1. t \in Nat /\ t \in Times /\ 1 \in Attempts
    BY TrafficAssumption, TimesAssumption
  <2>2. s \in Tasks
    BY <2>1 DEF Tasks
  <2>3. OnTime(s)
    <3>1. BackOffs(s) = 0
      BY DEF BackOffs
    <3>2. 0 * MaxDelay = 0
      BY BackOffsAddUp, TrafficAssumption
    <3> QED
      BY <2>1, <3>1, <3>2 DEF OnTime
  <2> QED
    BY <1>1, <2>2, <2>3, OneTaskMoves DEF StartTask, Outside, boundaryVars
<1>2. ASSUME NEW b \in Batches, Opened(b)
      PROVE  TaskTypeOK'
  <2> DEFINE s == [task[b] EXCEPT !.pc = "calling"]
  <2>1. s \in Tasks /\ s.pc = "calling" /\ OnTime(s)
    BY <1>2, TaskShape DEF Opened, TaskTypeOK, Tasks, OnTime, BackOffs
  <2> QED
    BY <1>2, <2>1, OneTaskMoves DEF Opened, boundaryVars
<1>3. ASSUME NEW b \in Batches, Attempt(b) \/ InCall(b)
      PROVE  TaskTypeOK'
  <2>1. /\ task[b].pc = "calling" /\ UNCHANGED <<task, crashes>>
        /\ \A w \in Workers \ {b} : call'[w] = call[w]
    BY <1>3 DEF Attempt, InCall, BeginCall, ModelCall, InsertEvent, EventCommitted, CallTypeOK
  <2> QED
    BY <2>1, OneCallMoves
<1>4. ASSUME NEW b \in Batches, Return(b)
      PROVE  call'[b] = NoCall /\ \A w \in Workers \ {b} : call'[w] = call[w]
  BY <1>0, <1>4 DEF Return, CallTypeOK
<1>5. ASSUME NEW b \in Batches, CallSucceeded(b)
      PROVE  TaskTypeOK'
  <2> DEFINE s == [task[b] EXCEPT !.pc = "resolving", !.task_succeeded = TRUE]
  <2>1. /\ task[b] \in [pc : {"opening", "calling", "resolving"}, outcome_id : OutcomeIds,
                        model_tier : Tiers, attempt : Attempts, call_time : Times,
                        task_succeeded : BOOLEAN]
        /\ task[b].pc = "calling"
    BY <1>5, TaskShape DEF CallSucceeded, TaskTypeOK
  <2>2. s \in Tasks /\ s.pc = "resolving" /\ s.call_time = task[b].call_time
    BY <2>1 DEF Tasks
  <2>3. OnTime(s)
    <3>1. PICK start \in OpeningTimes :
            /\ start <= task[b].call_time
            /\ task[b].call_time <= start + BackOffs(task[b]) * MaxDelay
      BY <2>1 DEF TaskTypeOK, OnTime
    <3>2. BackOffs(task[b]) \in Nat /\ BackOffs(task[b]) < MAX_ATTEMPTS /\ task[b].call_time \in Nat
      <4>1. task[b].attempt \in 1 .. MAX_ATTEMPTS /\ MAX_ATTEMPTS \in Nat /\ Times \subseteq Nat
        BY <2>1, TrafficAssumption, TimesAssumption
      <4>2. BackOffs(task[b]) = task[b].attempt - 1
        BY <2>1 DEF BackOffs
      <4>3. task[b].call_time \in Nat
        BY <2>1, <4>1
      <4>4. task[b].attempt - 1 \in Nat /\ task[b].attempt - 1 < MAX_ATTEMPTS
        BY <4>1
      <4> QED
        BY <4>2, <4>3, <4>4
    <3>3. start \in Nat
      BY TrafficAssumption, TimesAssumption
    <3>4. task[b].call_time <= start + MAX_ATTEMPTS * MaxDelay
      <4> DEFINE sofar == BackOffs(task[b]) * MaxDelay
                 most  == MAX_ATTEMPTS * MaxDelay
      <4>1. sofar \in Nat /\ most \in Nat /\ sofar <= most
        BY <3>2, BackOffsAddUp, TrafficAssumption
      <4>2. task[b].call_time <= start + sofar
        BY <3>1
      <4> HIDE DEF sofar, most
      <4>3. task[b].call_time <= start + most
        BY <3>2, <3>3, <4>1, <4>2
      <4> QED
        BY <4>3 DEF most
    <3>5. BackOffs(s) = MAX_ATTEMPTS
      BY <2>2 DEF BackOffs
    <3> QED
      BY <2>2, <3>1, <3>4, <3>5 DEF OnTime
  <2>4. task' = [task EXCEPT ![b] = s]
    BY <1>5 DEF CallSucceeded, TaskTypeOK
  <2> QED
    BY <1>4, <1>5, <2>2, <2>3, <2>4, OneTaskMoves DEF CallSucceeded
<1>6. ASSUME NEW b \in Batches, NEW d \in Delays, CallFailed(b, d)
      PROVE  TaskTypeOK'
  <2> DEFINE again == [task[b] EXCEPT !.call_time = @ + d, !.attempt = @ + 1]
             over  == [task[b] EXCEPT !.call_time = @ + d, !.pc = "resolving"]
             s     == IF task[b].attempt < MAX_ATTEMPTS THEN again ELSE over
  <2>1. /\ task[b] \in [pc : {"opening", "calling", "resolving"}, outcome_id : OutcomeIds,
                        model_tier : Tiers, attempt : Attempts, call_time : Times,
                        task_succeeded : BOOLEAN]
        /\ task[b].pc = "calling"
    BY <1>6, TaskShape DEF CallFailed, TaskTypeOK
  <2>2. PICK start \in OpeningTimes :
          /\ task[b].call_time + d \in Times /\ start <= task[b].call_time + d
          /\ task[b].attempt \in 1 .. MAX_ATTEMPTS
          /\ task[b].call_time + d <= start + task[b].attempt * MaxDelay
          /\ task[b].call_time + d <= start + MAX_ATTEMPTS * MaxDelay
    BY <2>1, TaskInstants, TrafficAssumption DEF Working
  <2>3. CASE task[b].attempt < MAX_ATTEMPTS
    <3>1. again \in Tasks /\ again.pc = "calling" /\ BackOffs(again) = task[b].attempt
          /\ again.call_time = task[b].call_time + d
      <4>1. task[b].attempt + 1 \in Attempts /\ task[b].attempt \in Nat
        BY <2>2, <2>3, TrafficAssumption
      <4>2. again.pc = "calling" /\ again.call_time = task[b].call_time + d
            /\ again.attempt = task[b].attempt + 1
        BY <2>1
      <4>3. again \in Tasks
        BY <2>1, <2>2, <4>1 DEF Tasks
      <4>4. BackOffs(again) = again.attempt - 1
        BY <4>2 DEF BackOffs
      <4> QED
        BY <4>1, <4>2, <4>3, <4>4
    <3>2. OnTime(again)
      BY <2>2, <3>1 DEF OnTime
    <3> QED
      BY <1>4, <1>6, <2>3, <3>1, <3>2, OneTaskMoves DEF CallFailed
  <2>4. CASE ~(task[b].attempt < MAX_ATTEMPTS)
    <3>1. over \in Tasks /\ over.pc = "resolving" /\ BackOffs(over) = MAX_ATTEMPTS
          /\ over.call_time = task[b].call_time + d
      BY <2>1, <2>2 DEF Tasks, BackOffs
    <3>2. OnTime(over)
      BY <2>2, <3>1 DEF OnTime
    <3>3. task' = [task EXCEPT ![b] = over] /\ UNCHANGED crashes /\ Return(b)
      BY <1>6, <2>4 DEF CallFailed
    <3> QED
      BY <1>4, <3>1, <3>2, <3>3, OneTaskMoves
  <2> QED
    BY <2>3, <2>4
<1>7. ASSUME NEW b \in Batches, CallRaised(b)
      PROVE  TaskTypeOK'
  BY <1>4, <1>7, OneTaskMoves DEF CallRaised, Tasks, Aborted, OnTime
<1>8. ASSUME NEW b \in Batches, UNCHANGED <<boundaryVars, crashes>>, task' = [task EXCEPT ![b] = Ready],
             task[b].pc # "calling"
      PROVE  TaskTypeOK'
  BY <1>8, OneTaskMoves DEF Tasks, Ready, OnTime, TaskTypeOK, boundaryVars
<1>9. ASSUME NEW b \in Batches, UNCHANGED <<boundaryVars, crashes>>, task' = [task EXCEPT ![b] = Aborted],
             task[b].pc # "calling"
      PROVE  TaskTypeOK'
  BY <1>9, OneTaskMoves DEF Tasks, Aborted, OnTime, TaskTypeOK, boundaryVars
<1>10. CASE Restart
  BY <1>0, <1>10, TrafficAssumption
     DEF Restart, BoundaryCrash, TaskTypeOK, Tasks, Ready, OnTime
<1>11. CASE UNCHANGED <<task, crashes, call>>
  BY <1>11 DEF TaskTypeOK
<1>12. CASE \E b \in Batches : BatchStep(b)
  BY <1>1, <1>2, <1>3, <1>5, <1>6, <1>7, <1>8, <1>9, <1>11, <1>12
     DEF BatchStep, ResolveTask, ResolveRaised, ResolveWrite, Resolved, boundaryVars
<1> QED
  BY <1>10, <1>11, <1>12 DEF TrafficNext, SweepStep, trafficVars, boundaryVars

(* The types of all that batches and calls keep.                           *)
LEMMA TaskTypesHold == TrafficSpec => [](TaskTypeOK /\ CallTypeOK)
<1>1. TrafficInit => TaskTypeOK
  BY TrafficAssumption DEF TrafficInit, BoundaryInit, TaskTypeOK, Tasks, Ready, OnTime
<1>2. TrafficInit => CallTypeOK
  BY BoundaryAssumption DEF TrafficInit, BoundaryInit, CallTypeOK, RateTypeOK, Calls
<1>3. TaskTypeOK /\ CallTypeOK /\ [TrafficNext]_trafficVars => TaskTypeOK' /\ CallTypeOK'
  BY TaskTypeStep, SharedStep, CallTypeStep
<1> QED
  BY <1>1, <1>2, <1>3, PTL DEF TrafficSpec

(* Every program of batches and sweeps is a program the boundary and the   *)
(* store were made for: each of its steps is one of theirs, or none of     *)
(* their business (traffic.py:156-196).                                    *)
THEOREM TrafficSharesTheStore == TrafficSpec => SharesTheStore
<1>1. TrafficInit => BoundaryInit
  BY DEF TrafficInit
<1>2. TaskTypeOK /\ CallTypeOK /\ [TrafficNext]_trafficVars => [SharedNext]_allVars
  BY SharedStep
<1> QED
  BY <1>1, <1>2, TaskTypesHold, PTL DEF TrafficSpec, SharesTheStore, SharedSpec, allVars

(* The local variables of every batch keep their types; its attempts never *)
(* exceed MAX_ATTEMPTS and its instants never leave the model's, however   *)
(* its back-offs are drawn (traffic.py:170-186).                           *)
THEOREM TrafficTypeCorrect == TrafficSpec => []TrafficTypeOK
<1>1. BoundaryTypeOK /\ TaskTypeOK => TrafficTypeOK
  BY DEF TaskTypeOK, TrafficTypeOK
<1> QED
  BY <1>1, TaskTypesHold, TrafficSharesTheStore, BoundaryTypeCorrect, PTL DEF SharesTheStore

(* What was proved of any use of the boundary holds of the batches: no     *)
(* charged call is lost or recorded twice except by a crash, and a retry   *)
(* is only made when the failed attempt's event is in the file             *)
(* (boundary.py:58-104, traffic.py:175-186).                               *)
THEOREM TrafficAccountsForBills == TrafficSpec => [](BilledIsAccountedFor /\ CallerSeesDurableEvent)
BY TrafficSharesTheStore, EveryBillIsAccountedFor, CallerAlwaysSeesDurableEvent, PTL DEF SharesTheStore

=============================================================================
