---------------------------- MODULE StoryProofs ----------------------------
(***************************************************************************)
(* The file always tells whole tasks, for any number of batches, sweeps,   *)
(* outcomes, attempts and crashes.                                         *)
(*                                                                         *)
(* DurableStory says nothing of the tables or of where the batches are, so *)
(* the invariant adds both: the tables tell whole tasks too, and of the    *)
(* outcome of each batch at work they hold what the batch has done so far. *)
(***************************************************************************)
EXTENDS TrafficProofs

\* The events of outcome `id' are attempts 1 .. n, of which `good' succeeded.
Tells(id, n, good) ==
  /\ Cardinality(EventsOf(events, id)) = n
  /\ AttemptsOf(events, id) = 1 .. n
  /\ SucceededAttempts(events, id) = good

\* The present attempt of batch b is in the table.
Tried(b) == task[b].pc = "resolving" \/ call[b].pc \in {"commit", "done"}

\* The attempts recorded of b's task, and those of them that succeeded.
Recordings(b) == IF Tried(b) THEN task[b].attempt ELSE task[b].attempt - 1

Successes(b) ==
  IF \/ task[b].pc = "resolving" /\ task[b].task_succeeded
     \/ call[b].pc \in {"commit", "done"} /\ call[b].event.call_status = OK
    THEN {task[b].attempt} ELSE {}

\* The call of batch b is one of its task.
CallOfTask(b) ==
  /\ call[b].pc = "model" =>
       /\ call[b].outcome_id = task[b].outcome_id
       /\ call[b].attempt_number = task[b].attempt
       /\ call[b].timestamp = task[b].call_time
  /\ call[b].pc \in {"record", "commit", "done"} =>
       /\ call[b].event.outcome_id = task[b].outcome_id
       /\ call[b].event.attempt_number = task[b].attempt
       /\ call[b].event.timestamp = task[b].call_time

\* Where batch b is, and what the tables hold of its outcome.
InTask(b) == Working(b) =>
  LET id == task[b].outcome_id IN
  /\ outcomes[id] # NoRow
  /\ Tells(id, Recordings(b), Successes(b))
  /\ outcomes[id].opened_at <= task[b].call_time
  /\ \A e \in EventsOf(events, id) :
       outcomes[id].opened_at <= e.timestamp /\ e.timestamp <= task[b].call_time
  /\ task[b].pc # "resolving" => ~task[b].task_succeeded /\ outcomes[id].status \notin OwnerStatuses
  /\ task[b].pc = "resolving" /\ ~task[b].task_succeeded => task[b].attempt = MAX_ATTEMPTS
  /\ CallOfTask(b)

\* A batch inside resolve_outcome will write what its attempts earned.
InResolve(b) == op[b].pc = "resolve" =>
  /\ task[b].pc = "resolving"
  /\ op[b].id = task[b].outcome_id
  /\ op[b].status = IF task[b].task_succeeded THEN SUCCEEDED ELSE FAILED
  /\ task[b].call_time <= op[b].at

OneOwner ==
  \A b, c \in Batches : Working(b) /\ Working(c) /\ b # c => task[b].outcome_id # task[c].outcome_id

StoryInv ==
  /\ IsFiniteSet(events) /\ Story(events, outcomes)
  /\ IsFiniteSet(savedEvents) /\ Story(savedEvents, savedOutcomes)
  /\ \A b \in Batches : InTask(b) /\ InResolve(b)
  /\ OneOwner
  /\ \A s \in Sweepers : op[s].pc # "resolve"

-----------------------------------------------------------------------------
(* One more event of outcome `id' is one more attempt of it, and no other  *)
(* outcome's.                                                              *)
LEMMA OneMoreEvent ==
  ASSUME NEW evs, IsFiniteSet(evs), NEW e, e \notin evs, NEW n \in Nat,
         Cardinality(EventsOf(evs, e.outcome_id)) = n,
         AttemptsOf(evs, e.outcome_id) = 1 .. n,
         e.attempt_number = n + 1
  PROVE  /\ Cardinality(EventsOf(evs \cup {e}, e.outcome_id)) = n + 1
         /\ AttemptsOf(evs \cup {e}, e.outcome_id) = 1 .. n + 1
         /\ SucceededAttempts(evs \cup {e}, e.outcome_id) =
              SucceededAttempts(evs, e.outcome_id) \cup IF e.call_status = OK THEN {n + 1} ELSE {}
         /\ \A id : id # e.outcome_id => EventsOf(evs \cup {e}, id) = EventsOf(evs, id)
<1> DEFINE old == EventsOf(evs, e.outcome_id)
<1>1. EventsOf(evs \cup {e}, e.outcome_id) = old \cup {e}
  BY DEF EventsOf
<1>2. e \notin old /\ IsFiniteSet(old)
  <2>1. old \in SUBSET evs /\ e \notin old
    BY DEF EventsOf
  <2>2. IsFiniteSet(old)
    BY <2>1, FS_Subset
  <2> QED
    BY <2>1, <2>2
<1>3. Cardinality(old \cup {e}) = n + 1
  BY <1>2, FS_AddElement
<1>4. AttemptsOf(evs \cup {e}, e.outcome_id) = 1 .. n + 1
  <2>1. AttemptsOf(evs \cup {e}, e.outcome_id) = AttemptsOf(evs, e.outcome_id) \cup {n + 1}
    BY <1>1 DEF AttemptsOf
  <2>2. 1 .. n + 1 = (1 .. n) \cup {n + 1}
    OBVIOUS
  <2> QED
    BY <2>1, <2>2
<1>5. SucceededAttempts(evs \cup {e}, e.outcome_id) =
        SucceededAttempts(evs, e.outcome_id) \cup IF e.call_status = OK THEN {n + 1} ELSE {}
  <2>1. CASE e.call_status = OK
    BY <1>1, <2>1 DEF SucceededAttempts
  <2>2. CASE e.call_status # OK
    BY <1>1, <2>2 DEF SucceededAttempts
  <2> QED
    BY <2>1, <2>2
<1>6. \A id : id # e.outcome_id => EventsOf(evs \cup {e}, id) = EventsOf(evs, id)
  BY DEF EventsOf
<1> QED
  BY <1>1, <1>3, <1>4, <1>5, <1>6

(* Equal events give equal stories.                                        *)
LEMMA SameEvents ==
  ASSUME NEW evs, NEW new, NEW id, EventsOf(new, id) = EventsOf(evs, id)
  PROVE  /\ AttemptsOf(new, id) = AttemptsOf(evs, id)
         /\ SucceededAttempts(new, id) = SucceededAttempts(evs, id)
         /\ \A row : TaskStory(new, row, id) = TaskStory(evs, row, id)
BY DEF AttemptsOf, SucceededAttempts, TaskStory

(* A story read off its counts.                                            *)
LEMMA StoryOfCounts ==
  ASSUME NEW evs, NEW row, NEW id, NEW n \in Nat, NEW good, n <= MAX_ATTEMPTS,
         Cardinality(EventsOf(evs, id)) = n, AttemptsOf(evs, id) = 1 .. n,
         SucceededAttempts(evs, id) = good, good \subseteq {n},
         row.status = SUCCEEDED => good = {n} /\ n > 0,
         row.status = FAILED => good = {} /\ n = MAX_ATTEMPTS,
         row.status \in OwnerStatuses =>
           \A e \in EventsOf(evs, id) : row.opened_at <= e.timestamp /\ e.timestamp <= row.resolved_at
  PROVE  TaskStory(evs, row, id)
BY DEF TaskStory

(* A row that is not its owner's resolution can be replaced by another.    *)
LEMMA StoryOfOther ==
  ASSUME NEW evs, NEW row, NEW other, NEW id, TaskStory(evs, row, id),
         other.status \notin OwnerStatuses
  PROVE  TaskStory(evs, other, id)
BY DEF TaskStory, OwnerStatuses

-----------------------------------------------------------------------------
(* A batch that does not move, on an outcome that only a sweep touches.    *)
LEMMA OtherTask ==
  ASSUME NEW c \in Batches, InTask(c), InResolve(c),
         task'[c] = task[c], call'[c] = call[c], op'[c] = op[c],
         Working(c) =>
           LET id == task[c].outcome_id IN
           /\ EventsOf(events', id) = EventsOf(events, id)
           /\ outcomes'[id] # NoRow
           /\ outcomes'[id].opened_at = outcomes[id].opened_at
           /\ outcomes'[id].status \in OwnerStatuses => outcomes[id].status \in OwnerStatuses
  PROVE  InTask(c)' /\ InResolve(c)'
<1>1. InResolve(c)'
  BY DEF InResolve
<1>2. Recordings(c)' = Recordings(c) /\ Successes(c)' = Successes(c) /\ (CallOfTask(c)' <=> CallOfTask(c))
  BY DEF Recordings, Tried, Successes, CallOfTask
<1>3. ASSUME Working(c)'
      PROVE  Tells(task[c].outcome_id, Recordings(c), Successes(c))'
  <2>1. Tells(task[c].outcome_id, Recordings(c), Successes(c))
    BY <1>3 DEF InTask, Working
  <2>2. EventsOf(events', task[c].outcome_id) = EventsOf(events, task[c].outcome_id)
    BY <1>3 DEF Working
  <2> QED
    BY <1>2, <2>1, <2>2, SameEvents DEF Tells
<1>4. InTask(c)'
  BY <1>2, <1>3 DEF InTask, Working
<1> QED
  BY <1>1, <1>4

(* One batch moves: what it knows of its own outcome is all that is to be  *)
(* shown, besides the stories.                                             *)
LEMMA BatchMoves ==
  ASSUME StoryInv, NEW b \in Batches,
         \A c \in Batches \ {b} : task'[c] = task[c] /\ call'[c] = call[c] /\ op'[c] = op[c],
         \A s \in Sweepers : op'[s] = op[s],
         Working(b)' => Working(b) /\ task'[b].outcome_id = task[b].outcome_id,
         \A c \in Batches \ {b} : Working(c) =>
           /\ EventsOf(events', task[c].outcome_id) = EventsOf(events, task[c].outcome_id)
           /\ outcomes'[task[c].outcome_id] = outcomes[task[c].outcome_id],
         InTask(b)', InResolve(b)',
         IsFiniteSet(events'), Story(events', outcomes'),
         IsFiniteSet(savedEvents'), Story(savedEvents', savedOutcomes')
  PROVE  StoryInv'
<1>1. ASSUME NEW c \in Batches
      PROVE  InTask(c)' /\ InResolve(c)'
  <2>1. CASE c # b
    <3>1. InTask(c) /\ InResolve(c)
      BY DEF StoryInv
    <3>2. Working(c) => outcomes[task[c].outcome_id] # NoRow
      BY <3>1 DEF InTask
    <3> QED
      BY <2>1, <3>1, <3>2, OtherTask
  <2> QED
    BY <2>1
<1>2. \A c \in Batches \ {b} : Working(c)' <=> Working(c)
  BY DEF Working
<1>3. OneOwner'
  BY <1>2 DEF OneOwner, StoryInv
<1> QED
  BY <1>1, <1>3 DEF StoryInv

(* A batch moves without changing the tables; it may commit them.          *)
LEMMA QuietBatchMoves ==
  ASSUME StoryInv, NEW b \in Batches,
         \A c \in Batches \ {b} : task'[c] = task[c] /\ call'[c] = call[c] /\ op'[c] = op[c],
         \A s \in Sweepers : op'[s] = op[s],
         Working(b)' => Working(b) /\ task'[b].outcome_id = task[b].outcome_id,
         UNCHANGED tables,
         savedEvents' \in {savedEvents, events}, savedOutcomes' \in {savedOutcomes, outcomes},
         savedEvents' # savedEvents => savedOutcomes' = outcomes,
         savedOutcomes' # savedOutcomes => savedEvents' = events,
         InTask(b)', InResolve(b)'
  PROVE  StoryInv'
<1>1. IsFiniteSet(events') /\ Story(events', outcomes')
  BY DEF StoryInv, tables
<1>2. IsFiniteSet(savedEvents') /\ Story(savedEvents', savedOutcomes')
  BY DEF StoryInv
<1> QED
  BY <1>1, <1>2, BatchMoves DEF tables

(* A new task: its outcome is new, so nothing is recorded of it.           *)
LEMMA StartTaskStory ==
  ASSUME StoryInv, StoreTypeOK, TaskTypeOK, NEW b \in Batches, NEW id \in OutcomeIds,
         NEW tier \in Tiers, NEW t \in OpeningTimes, StartTask(b, id, tier, t)
  PROVE  StoryInv'
<1>0. Batches \subseteq Workers /\ Batches \cap Sweepers = {} /\ Sweepers \subseteq Workers
      /\ MAX_ATTEMPTS \in Nat
  BY TrafficAssumption
<1>1. /\ outcomes[id] = NoRow /\ outcomes' = [outcomes EXCEPT ![id] = NewOutcome(t, RESOLUTION_WINDOW)]
      /\ UNCHANGED <<events, savedOutcomes, savedEvents, call>>
      /\ op[b] = Idle /\ call[b] = NoCall /\ op'[b].pc = "commit"
      /\ \A w \in Workers \ {b} : op'[w] = op[w]
  BY <1>0 DEF StartTask, Outside, IsNew, OpenExecute, Commits, StoreTypeOK, saved, boundaryVars
<1>2. /\ task'[b] = [pc |-> "opening", outcome_id |-> id, model_tier |-> tier, attempt |-> 1,
                     call_time |-> t, task_succeeded |-> FALSE]
      /\ \A c \in Batches \ {b} : task'[c] = task[c]
  BY DEF StartTask, TaskTypeOK
<1>3. /\ outcomes'[id] = NewOutcome(t, RESOLUTION_WINDOW)
      /\ \A i \in OutcomeIds : i # id => outcomes'[i] = outcomes[i]
  BY <1>1 DEF StoreTypeOK
<1>4. NewOutcome(t, RESOLUTION_WINDOW).status = PENDING /\ PENDING \notin OwnerStatuses
      /\ NewOutcome(t, RESOLUTION_WINDOW) # NoRow
      /\ NewOutcome(t, RESOLUTION_WINDOW).opened_at = t
  BY DEF NewOutcome, PENDING, OwnerStatuses, SUCCEEDED, FAILED, NoRow
<1>5. EventsOf(events, id) = {}
  BY <1>1 DEF StoryInv, Story, EventsOf
<1>6. Tells(id, 0, {})'
  BY <1>1, <1>5, FS_EmptySet DEF Tells, AttemptsOf, SucceededAttempts
<1>7. InTask(b)'
  <2>1. Recordings(b)' = 0 /\ Successes(b)' = {}
    BY <1>1, <1>2 DEF Recordings, Tried, Successes, NoCall
  <2>2. CallOfTask(b)'
    BY <1>1 DEF CallOfTask, NoCall
  <2>3. t \in Nat
    BY TrafficAssumption, TimesAssumption
  <2> QED
    BY <1>1, <1>2, <1>3, <1>4, <1>5, <1>6, <2>1, <2>2, <2>3 DEF InTask
<1>8. InResolve(b)'
  BY <1>1 DEF InResolve
<1>9. ASSUME NEW c \in Batches, c # b
      PROVE  /\ InTask(c)' /\ InResolve(c)'
             /\ Working(c)' => task'[c].outcome_id # id
  <2>1. InTask(c) /\ InResolve(c)
    BY DEF StoryInv
  <2>2. Working(c) => task[c].outcome_id # id /\ task[c].outcome_id \in OutcomeIds
    BY <1>1, <2>1, TaskShape DEF InTask, Working, TaskTypeOK
  <2>3. Working(c) => outcomes[task[c].outcome_id] # NoRow
    BY <2>1 DEF InTask
  <2>4. InTask(c)' /\ InResolve(c)'
    BY <1>0, <1>1, <1>2, <1>3, <1>9, <2>1, <2>2, <2>3, OtherTask
  <2> QED
    BY <1>2, <1>9, <2>2, <2>4 DEF Working
<1>10. OneOwner'
  <2>1. \A c, d \in Batches : c # b /\ d # b /\ Working(c)' /\ Working(d)' /\ c # d
          => task'[c].outcome_id # task'[d].outcome_id
    BY <1>2 DEF OneOwner, Working, StoryInv
  <2> QED
    BY <1>2, <1>9, <2>1 DEF OneOwner
<1>11. Story(events', outcomes')
  <2>1. \A e \in events' : e.outcome_id \in OutcomeIds /\ outcomes'[e.outcome_id] # NoRow
    BY <1>1, <1>3, <1>4 DEF StoryInv, Story
  <2>2. \A i \in OutcomeIds : TaskStory(events', outcomes'[i], i)
    BY <1>1, <1>3, <1>4, StoryOfOther DEF StoryInv, Story
  <2> QED
    BY <2>1, <2>2 DEF Story
<1>12. \A s \in Sweepers : op'[s].pc # "resolve"
  BY <1>0, <1>1 DEF StoryInv
<1> QED
  BY <1>1, <1>7, <1>8, <1>9, <1>10, <1>11, <1>12 DEF StoryInv

(* Entering and passing through a call moves nothing in the tables, and    *)
(* the call stays one of the task.                                         *)
LEMMA CallStory ==
  ASSUME StoryInv, StoreTypeOK, CallTypeOK, TaskTypeOK, NEW b \in Batches,
         task[b].pc = "calling", UNCHANGED <<storeVars, task>>,
         \A w \in Workers \ {b} : call'[w] = call[w],
         Recordings(b)' = Recordings(b), Successes(b)' = Successes(b), CallOfTask(b)'
  PROVE  StoryInv'
<1>1. InTask(b) /\ InResolve(b) /\ Working(b)
  BY DEF StoryInv, Working
<1>2. Tells(task[b].outcome_id, Recordings(b), Successes(b))'
  BY <1>1 DEF InTask, Tells, storeVars
<1>3. InTask(b)' /\ InResolve(b)'
  BY <1>1, <1>2 DEF InTask, InResolve, Working, storeVars
<1> QED
  BY <1>1, <1>3, TrafficAssumption, QuietBatchMoves DEF storeVars, tables, Working

(* The boundary's steps, with the task unchanged (traffic.py:175-181).     *)
LEMMA InCallStory ==
  ASSUME StoryInv, StoreTypeOK, CallTypeOK, CallTypeOK', TaskTypeOK, NEW b \in Batches,
         Attempt(b) \/ \E eid \in EventIds, status \in {OK, ERROR}, usage \in Usages :
                         task[b].pc = "calling" /\ UNCHANGED task /\ ModelCall(b, eid, status, usage)
  PROVE  StoryInv'
<1>0. b \in Workers
  BY TrafficAssumption
<1>1. CASE Attempt(b)
  <2>1. /\ task[b].pc = "calling" /\ call[b] = NoCall /\ UNCHANGED <<storeVars, task>>
        /\ \A w \in Workers \ {b} : call'[w] = call[w]
    BY <1>1 DEF Attempt, BeginCall, CallTypeOK
  <2> DEFINE t == task[b]
             basis == Lookup(rates, t.model_tier, t.call_time)
  <2>2. call'[b] \in {Raised, AtModel(t.outcome_id, t.model_tier, t.attempt, t.call_time, basis)}
    BY <1>0, <1>1 DEF Attempt, BeginCall, CallTypeOK
  <2> HIDE DEF basis
  <2>3. call[b].pc = "none" /\ call'[b].pc \in {"raised", "model"}
    BY <2>1, <2>2 DEF NoCall, Raised, AtModel
  <2>4. Recordings(b)' = Recordings(b) /\ Successes(b)' = Successes(b)
    BY <2>1, <2>3 DEF Recordings, Tried, Successes
  <2>5. CallOfTask(b)'
    BY <2>1, <2>2, <2>3 DEF CallOfTask, Raised, AtModel
  <2> QED
    BY <2>1, <2>4, <2>5, CallStory
<1>2. ASSUME NEW eid \in EventIds, NEW status \in {OK, ERROR}, NEW usage \in Usages,
             task[b].pc = "calling", UNCHANGED task, ModelCall(b, eid, status, usage)
      PROVE  StoryInv'
  <2>1. /\ call[b].pc = "model" /\ UNCHANGED storeVars
        /\ \A w \in Workers \ {b} : call'[w] = call[w]
        /\ call'[b] \in {Raised, WithEvent("record", EventOf(call[b], eid, status, usage))}
    BY <1>0, <1>2 DEF ModelCall, CallTypeOK
  <2>2. call'[b].pc \in {"raised", "record"}
    BY <2>1 DEF Raised, WithEvent
  <2>3. Recordings(b)' = Recordings(b) /\ Successes(b)' = Successes(b)
    BY <1>2, <2>1, <2>2 DEF Recordings, Tried, Successes
  <2>4. CallOfTask(b)
    BY <1>2 DEF StoryInv, InTask, Working
  <2>5. CallOfTask(b)'
    BY <1>2, <2>1, <2>2, <2>4 DEF CallOfTask, Raised, WithEvent, EventOf
  <2> QED
    BY <1>2, <2>1, <2>3, <2>5, CallStory
<1> QED
  BY <1>1, <1>2

(* The INSERT: the attempt the task is at joins the ones before it.        *)
LEMMA InsertStory ==
  ASSUME StoryInv, StoreTypeOK, CallTypeOK, TaskTypeOK, NEW b \in Batches,
         task[b].pc = "calling", UNCHANGED task, InsertEvent(b)
  PROVE  StoryInv'
<1> DEFINE e  == call[b].event
           id == task[b].outcome_id
           n  == task[b].attempt - 1
<1>0. b \in Workers /\ Batches \subseteq Workers /\ Sweepers \subseteq Workers
      /\ Batches \cap Sweepers = {} /\ MAX_ATTEMPTS \in Nat
  BY TrafficAssumption
<1>1. /\ call[b].pc = "record" /\ e \notin events /\ events' = events \cup {e}
      /\ UNCHANGED <<outcomes, savedOutcomes, savedEvents>>
      /\ op'[b].pc = "commit"
      /\ \A w \in Workers \ {b} : op'[w] = op[w] /\ call'[w] = call[w]
  BY <1>0 DEF InsertEvent, InsertExecute, saved, Commits, StoreTypeOK, CallTypeOK
<1>2. call'[b].pc = "commit" /\ call'[b].event = e /\ e \in CostEvents
  BY <1>0, CallShapes DEF InsertEvent, CallTypeOK
<1>3. InTask(b) /\ Working(b)
  BY DEF StoryInv, Working
<1>4. /\ e.outcome_id = id /\ e.attempt_number = task[b].attempt
      /\ e.timestamp = task[b].call_time
      /\ outcomes[id] # NoRow /\ outcomes[id].status \notin OwnerStatuses
      /\ ~task[b].task_succeeded
      /\ outcomes[id].opened_at <= task[b].call_time
      /\ \A f \in EventsOf(events, id) :
           outcomes[id].opened_at <= f.timestamp /\ f.timestamp <= task[b].call_time
  BY <1>1, <1>3 DEF InTask, CallOfTask
<1>5. id \in OutcomeIds /\ task[b].attempt \in 1 .. MAX_ATTEMPTS /\ n \in Nat
      /\ task[b].call_time \in Nat
  <2>1. id \in OutcomeIds /\ task[b].attempt \in Attempts /\ task[b].call_time \in Times
    BY <1>3, TaskShape DEF Working, TaskTypeOK
  <2>2. task[b].attempt \in 1 .. MAX_ATTEMPTS /\ task[b].call_time \in Nat
    BY <2>1, TrafficAssumption, TimesAssumption
  <2> QED
    BY <1>0, <2>1, <2>2
<1>6. /\ Cardinality(EventsOf(events, id)) = n /\ AttemptsOf(events, id) = 1 .. n
      /\ SucceededAttempts(events, id) = {}
  <2>1. Recordings(b) = n /\ Successes(b) = {}
    BY <1>1 DEF Recordings, Tried, Successes
  <2> QED
    BY <1>3, <2>1 DEF InTask, Tells
<1>7. /\ Cardinality(EventsOf(events', id)) = task[b].attempt
      /\ AttemptsOf(events', id) = 1 .. task[b].attempt
      /\ SucceededAttempts(events', id) = IF e.call_status = OK THEN {task[b].attempt} ELSE {}
      /\ \A i : i # id => EventsOf(events', i) = EventsOf(events, i)
  <2>1. n + 1 = task[b].attempt
    BY <1>5
  <2>2. IsFiniteSet(events)
    BY DEF StoryInv
  <2>3. /\ Cardinality(EventsOf(events, e.outcome_id)) = n
        /\ AttemptsOf(events, e.outcome_id) = 1 .. n
        /\ e.attempt_number = n + 1 /\ n \in Nat /\ e \notin events
    BY <1>1, <1>4, <1>5, <1>6, <2>1
  <2> HIDE DEF e, n
  <2>4. /\ Cardinality(EventsOf(events \cup {e}, e.outcome_id)) = n + 1
        /\ AttemptsOf(events \cup {e}, e.outcome_id) = 1 .. n + 1
        /\ SucceededAttempts(events \cup {e}, e.outcome_id) =
              SucceededAttempts(events, e.outcome_id) \cup IF e.call_status = OK THEN {n + 1} ELSE {}
        /\ \A i : i # e.outcome_id => EventsOf(events \cup {e}, i) = EventsOf(events, i)
    BY <2>2, <2>3, OneMoreEvent
  <2> QED
    BY <1>1, <1>4, <1>6, <2>1, <2>4
<1>8. EventsOf(events', id) = EventsOf(events, id) \cup {e}
  BY <1>1, <1>4 DEF EventsOf
<1>9. InTask(b)'
  <2>1. Recordings(b)' = task[b].attempt
        /\ Successes(b)' = IF e.call_status = OK THEN {task[b].attempt} ELSE {}
    BY <1>2 DEF Recordings, Tried, Successes
  <2>2. Tells(id, Recordings(b), Successes(b))'
    BY <1>7, <2>1 DEF Tells
  <2>3. \A f \in EventsOf(events', id) :
           outcomes[id].opened_at <= f.timestamp /\ f.timestamp <= task[b].call_time
    BY <1>4, <1>5, <1>8
  <2>4. CallOfTask(b)'
    BY <1>2, <1>4 DEF CallOfTask
  <2> QED
    BY <1>1, <1>4, <2>2, <2>3, <2>4 DEF InTask
<1>10. InResolve(b)'
  BY <1>1 DEF InResolve
<1>11. IsFiniteSet(events')
  BY <1>1, FS_AddElement DEF StoryInv
<1>12. Story(events', outcomes')
  <2>1. \A f \in events' : f.outcome_id \in OutcomeIds /\ outcomes'[f.outcome_id] # NoRow
    BY <1>1, <1>4, <1>5 DEF StoryInv, Story
  <2>2. TaskStory(events', outcomes[id], id)
    <3>1. task[b].attempt \in Nat /\ task[b].attempt <= MAX_ATTEMPTS
      BY <1>5
    <3>2. outcomes[id].status # SUCCEEDED /\ outcomes[id].status # FAILED
      BY <1>4 DEF OwnerStatuses
    <3>3. SucceededAttempts(events', id) \subseteq {task[b].attempt}
      BY <1>7
    <3> QED
      BY <1>4, <1>7, <3>1, <3>2, <3>3, StoryOfCounts
  <2>3. \A i \in OutcomeIds : i # id => TaskStory(events', outcomes[i], i)
    BY <1>7, SameEvents DEF StoryInv, Story
  <2> QED
    BY <1>1, <2>1, <2>2, <2>3 DEF Story
<1>13. \A c \in Batches \ {b} : Working(c) => task[c].outcome_id # id
  BY <1>3 DEF StoryInv, OneOwner
<1>14. IsFiniteSet(savedEvents') /\ Story(savedEvents', savedOutcomes')
  BY <1>1 DEF StoryInv
<1>15. Working(b)' => Working(b) /\ task'[b].outcome_id = task[b].outcome_id
  BY <1>3
<1> HIDE DEF e, id, n
<1> QED
  BY <1>0, <1>1, <1>7, <1>9, <1>10, <1>11, <1>12, <1>13, <1>14, <1>15, BatchMoves DEF id

(* A commit leaves the tables alone and may copy both to the file.         *)
LEMMA CommitShape ==
  ASSUME StoreTypeOK, NEW w \in Workers, Commit(w)
  PROVE  /\ UNCHANGED tables
         /\ savedEvents' \in {savedEvents, events} /\ savedOutcomes' \in {savedOutcomes, outcomes}
         /\ savedEvents' # savedEvents => savedOutcomes' = outcomes
         /\ savedOutcomes' # savedOutcomes => savedEvents' = events
         /\ op'[w] = Idle
         /\ \A v \in Workers \ {w} : op'[v] = op[v]
BY DEF Commit, StoreTypeOK

(* A batch at work that stays on its task keeps what the tables hold of    *)
(* it, if its attempts and their outcome are counted as before.            *)
LEMMA TaskGoesOn ==
  ASSUME StoryInv, TaskTypeOK, NEW b \in Batches, Working(b), Working(b)',
         task'[b].outcome_id = task[b].outcome_id, UNCHANGED tables,
         task[b].call_time <= task'[b].call_time, task'[b].call_time \in Nat,
         Recordings(b)' = Recordings(b), Successes(b)' = Successes(b), CallOfTask(b)',
         outcomes[task[b].outcome_id].opened_at \in Nat,
         \A e \in events : e.timestamp \in Nat,
         task'[b].pc # "resolving" =>
           ~task'[b].task_succeeded /\ outcomes[task[b].outcome_id].status \notin OwnerStatuses,
         task'[b].pc = "resolving" /\ ~task'[b].task_succeeded => task'[b].attempt = MAX_ATTEMPTS
  PROVE  InTask(b)'
<1> DEFINE id == task[b].outcome_id
<1>1. InTask(b)
  BY DEF StoryInv
<1>2. Tells(id, Recordings(b), Successes(b))'
  BY <1>1 DEF InTask, Tells, tables
<1>3. task[b].call_time \in Nat
  <2>1. task[b] \in Tasks /\ task[b].pc \notin {"ready", "aborted"}
    BY DEF Working, TaskTypeOK
  <2>2. task[b].call_time \in Times
    BY <2>1, TaskShape
  <2> QED
    BY <2>2, TimesAssumption
<1>4. \A e \in EventsOf(events, id) :
        outcomes[id].opened_at <= e.timestamp /\ e.timestamp <= task'[b].call_time
  <2>1. \A e \in EventsOf(events, id) :
          /\ outcomes[id].opened_at <= e.timestamp /\ e.timestamp <= task[b].call_time
          /\ e.timestamp \in Nat
    BY <1>1 DEF InTask, EventsOf
  <2> HIDE DEF id
  <2> QED
    BY <1>3, <2>1
<1>5. outcomes[id].opened_at <= task'[b].call_time /\ outcomes[id] # NoRow
  BY <1>1, <1>3 DEF InTask
<1> QED
  BY <1>2, <1>4, <1>5 DEF InTask, tables

(* Rows and events carry numbers for instants.                             *)
LEMMA InstantsAreNumbers ==
  ASSUME StoreTypeOK
  PROVE  /\ \A id \in OutcomeIds : outcomes[id].opened_at \in Nat
         /\ \A e \in events : e.timestamp \in Nat
<1>1. \A id \in OutcomeIds : outcomes[id].opened_at \in Nat
  <2>1. \A o \in Rows : o.opened_at \in Nat
    BY TimesAssumption DEF Rows
  <2>2. NoRow.opened_at \in Nat
    BY DEF NoRow
  <2> QED
    BY <2>1, <2>2 DEF StoreTypeOK
<1>2. \A e \in events : e.timestamp \in Nat
  <2>1. events \subseteq CostEvents /\ Instants \subseteq Nat
    BY TrafficAssumption, TimesAssumption, BoundaryAssumption DEF StoreTypeOK
  <2> QED
    BY <2>1 DEF CostEvents
<1> QED
  BY <1>1, <1>2

(* The steps of a batch that leave the tables alone.                       *)
LEMMA BatchQuietStory ==
  ASSUME StoryInv, StoreTypeOK, CallTypeOK, TaskTypeOK, TaskTypeOK', NEW b \in Batches,
         \/ Opened(b)
         \/ task[b].pc = "calling" /\ UNCHANGED task /\ EventCommitted(b)
         \/ CallSucceeded(b)
         \/ \E d \in Delays : CallFailed(b, d)
         \/ CallRaised(b)
         \/ \E d \in Delays : ResolveTask(b, d)
         \/ ResolveRaised(b)
         \/ Resolved(b)
  PROVE  StoryInv'
<1>0. b \in Workers /\ Batches \subseteq Workers /\ Sweepers \subseteq Workers
      /\ Batches \cap Sweepers = {} /\ MAX_ATTEMPTS \in Nat
  BY TrafficAssumption
<1>1. InTask(b) /\ InResolve(b)
  BY DEF StoryInv
<1>2. Working(b) => /\ task[b].outcome_id \in OutcomeIds /\ task[b].attempt \in 1 .. MAX_ATTEMPTS
                    /\ task[b].call_time \in Nat
  <2>1. Working(b) => /\ task[b].outcome_id \in OutcomeIds /\ task[b].attempt \in Attempts
                      /\ task[b].call_time \in Times
    BY TaskShape DEF Working, TaskTypeOK
  <2> QED
    BY <2>1, TrafficAssumption, TimesAssumption
<1>3. \A d \in Delays : d \in Nat
  BY TrafficAssumption
<1>4. ASSUME Opened(b)
      PROVE  StoryInv'
  <2>1. task[b].pc = "opening" /\ Commit(b) /\ UNCHANGED call /\ task' = [task EXCEPT ![b].pc = "calling"]
    BY <1>4 DEF Opened, boundaryVars
  <2>2. task'[b] = [task[b] EXCEPT !.pc = "calling"] /\ \A c \in Batches \ {b} : task'[c] = task[c]
    BY <2>1 DEF TaskTypeOK
  <2>3. /\ task'[b].pc = "calling" /\ task'[b].outcome_id = task[b].outcome_id
        /\ task'[b].attempt = task[b].attempt /\ task'[b].call_time = task[b].call_time
        /\ task'[b].task_succeeded = task[b].task_succeeded
    BY <2>1, <2>2, TaskShape DEF TaskTypeOK
  <2>4. call[b] = NoCall
    BY <2>1 DEF TaskTypeOK
  <2>5. Recordings(b)' = Recordings(b) /\ Successes(b)' = Successes(b) /\ CallOfTask(b)'
    BY <2>1, <2>3, <2>4 DEF Recordings, Tried, Successes, CallOfTask, NoCall
  <2>6. Working(b) /\ Working(b)' /\ outcomes[task[b].outcome_id].status \notin OwnerStatuses
        /\ ~task[b].task_succeeded
    BY <1>1, <2>1, <2>3 DEF Working, InTask
  <2>7. UNCHANGED tables /\ op'[b] = Idle
    BY <1>0, <2>1, CommitShape
  <2>8. InTask(b)'
    BY <1>2, <2>3, <2>5, <2>6, <2>7, TaskGoesOn, InstantsAreNumbers
  <2>9. InResolve(b)'
    BY <2>7 DEF InResolve, Idle
  <2> QED
    BY <1>0, <2>1, <2>2, <2>3, <2>6, <2>8, <2>9, CommitShape, QuietBatchMoves
<1>5. ASSUME task[b].pc = "calling", UNCHANGED task, EventCommitted(b)
      PROVE  StoryInv'
  <2>1. call[b].pc = "commit" /\ Commit(b) /\ call' = [call EXCEPT ![b].pc = "done"]
    BY <1>5 DEF EventCommitted
  <2>2. /\ call'[b].pc = "done" /\ call'[b].event = call[b].event
        /\ \A w \in Workers \ {b} : call'[w] = call[w]
    BY <1>0, <2>1, CallShapes DEF CallTypeOK
  <2>3. Working(b) /\ Working(b)' /\ outcomes[task[b].outcome_id].status \notin OwnerStatuses
        /\ ~task[b].task_succeeded /\ CallOfTask(b)
    BY <1>1, <1>5 DEF Working, InTask
  <2>4. Recordings(b)' = Recordings(b) /\ Successes(b)' = Successes(b) /\ CallOfTask(b)'
    BY <1>5, <2>1, <2>2, <2>3 DEF Recordings, Tried, Successes, CallOfTask
  <2>5. UNCHANGED tables /\ op'[b] = Idle
    BY <1>0, <2>1, CommitShape
  <2>6. InTask(b)'
    BY <1>2, <1>5, <2>3, <2>4, <2>5, TaskGoesOn, InstantsAreNumbers
  <2>7. InResolve(b)'
    BY <2>5 DEF InResolve, Idle
  <2> QED
    BY <1>0, <1>5, <2>1, <2>2, <2>3, <2>6, <2>7, CommitShape, QuietBatchMoves
<1>6. ASSUME task[b].pc = "calling", call[b].pc = "done", Return(b)
      PROVE  /\ call'[b] = NoCall /\ \A w \in Workers \ {b} : call'[w] = call[w]
             /\ UNCHANGED storeVars /\ op[b].pc # "resolve"
             /\ Tried(b) /\ Working(b) /\ CallOfTask(b)'
  BY <1>0, <1>1, <1>6
     DEF Return, CallTypeOK, InResolve, Tried, Working, CallOfTask, NoCall
<1>7. ASSUME CallSucceeded(b)
      PROVE  StoryInv'
  <2>1. /\ task[b].pc = "calling" /\ call[b].pc = "done" /\ call[b].event.call_status = OK
        /\ Return(b)
        /\ task' = [task EXCEPT ![b] = [task[b] EXCEPT !.pc = "resolving", !.task_succeeded = TRUE]]
    BY <1>7 DEF CallSucceeded, TaskTypeOK
  <2>2. /\ task'[b] = [task[b] EXCEPT !.pc = "resolving", !.task_succeeded = TRUE]
        /\ \A c \in Batches \ {b} : task'[c] = task[c]
    BY <2>1 DEF TaskTypeOK
  <2>3. /\ task'[b].pc = "resolving" /\ task'[b].task_succeeded
        /\ task'[b].outcome_id = task[b].outcome_id /\ task'[b].attempt = task[b].attempt
        /\ task'[b].call_time = task[b].call_time
    BY <2>1, <2>2, TaskShape DEF TaskTypeOK
  <2>4. Recordings(b)' = Recordings(b) /\ Successes(b)' = Successes(b)
    BY <2>1, <2>3 DEF Recordings, Tried, Successes
  <2>5. Working(b) /\ Working(b)' /\ CallOfTask(b)' /\ UNCHANGED tables
    BY <1>6, <2>1, <2>3 DEF Working, storeVars, tables
  <2>6. InTask(b)'
    BY <1>2, <2>3, <2>4, <2>5, TaskGoesOn, InstantsAreNumbers
  <2>7. InResolve(b)'
    BY <1>6, <2>1 DEF InResolve, storeVars
  <2> QED
    BY <1>0, <1>6, <2>1, <2>2, <2>3, <2>5, <2>6, <2>7, QuietBatchMoves DEF storeVars
<1>8. ASSUME NEW d \in Delays, CallFailed(b, d)
      PROVE  StoryInv'
  <2> DEFINE again == [task[b] EXCEPT !.call_time = @ + d, !.attempt = @ + 1]
             over  == [task[b] EXCEPT !.call_time = @ + d, !.pc = "resolving"]
  <2>1. /\ task[b].pc = "calling" /\ call[b].pc = "done" /\ call[b].event.call_status = ERROR
        /\ Return(b)
        /\ task' = [task EXCEPT ![b] = IF task[b].attempt < MAX_ATTEMPTS THEN again ELSE over]
    BY <1>8 DEF CallFailed
  <2>2. /\ task'[b] = IF task[b].attempt < MAX_ATTEMPTS THEN again ELSE over
        /\ \A c \in Batches \ {b} : task'[c] = task[c]
    BY <2>1 DEF TaskTypeOK
  <2>3. task[b] \in [pc : {"opening", "calling", "resolving"}, outcome_id : OutcomeIds,
                     model_tier : Tiers, attempt : Attempts, call_time : Times,
                     task_succeeded : BOOLEAN]
    BY <2>1, TaskShape DEF TaskTypeOK
  <2>4. Working(b) /\ CallOfTask(b)' /\ UNCHANGED tables
    BY <1>6, <2>1 DEF storeVars, tables
  <2>5. task[b].call_time <= task[b].call_time + d /\ task[b].call_time + d \in Nat
    BY <1>2, <1>3, <2>4
  <2>6. Recordings(b) = task[b].attempt /\ Successes(b) = {}
    BY <2>1 DEF Recordings, Tried, Successes, OK, ERROR
  <2>7. call'[b].pc = "none" /\ ~task[b].task_succeeded /\ task[b].task_succeeded \in BOOLEAN
    BY <1>1, <1>6, <2>1, <2>3, <2>4 DEF NoCall, InTask
  <2>8. InTask(b)' /\ Working(b)' /\ task'[b].outcome_id = task[b].outcome_id
    <3>1. CASE task[b].attempt < MAX_ATTEMPTS
      <4>1. /\ task'[b].pc = "calling" /\ task'[b].attempt = task[b].attempt + 1
            /\ task'[b].call_time = task[b].call_time + d
            /\ task'[b].outcome_id = task[b].outcome_id
            /\ task'[b].task_succeeded = task[b].task_succeeded
        <5>1. task'[b] = again /\ task[b].pc = "calling"
          BY <2>1, <2>2, <3>1
        <5> QED
          BY <2>3, <5>1
      <4>2. Recordings(b)' = task'[b].attempt - 1 /\ Successes(b)' = {}
        BY <2>7, <4>1 DEF Recordings, Tried, Successes
      <4>3. outcomes[task[b].outcome_id].status \notin OwnerStatuses /\ Working(b)'
        BY <1>1, <2>1, <2>4, <4>1 DEF InTask, Working
      <4>4. Recordings(b)' = Recordings(b) /\ Successes(b)' = Successes(b)
        BY <1>2, <2>4, <2>6, <4>1, <4>2
      <4> QED
        BY <1>2, <2>4, <2>5, <2>7, <4>1, <4>3, <4>4, TaskGoesOn, InstantsAreNumbers
    <3>2. CASE ~(task[b].attempt < MAX_ATTEMPTS)
      <4>1. /\ task'[b].pc = "resolving" /\ task'[b].attempt = task[b].attempt
            /\ task'[b].call_time = task[b].call_time + d
            /\ task'[b].outcome_id = task[b].outcome_id
            /\ task'[b].task_succeeded = task[b].task_succeeded
        <5>1. task'[b] = over /\ task[b].pc = "calling"
          BY <2>1, <2>2, <3>2
        <5> QED
          BY <2>3, <5>1
      <4>2. task[b].attempt = MAX_ATTEMPTS
        BY <1>0, <1>2, <2>4, <3>2
      <4>3. Recordings(b)' = Recordings(b) /\ Successes(b)' = Successes(b)
        BY <2>6, <2>7, <4>1 DEF Recordings, Tried, Successes
      <4>4. Working(b)'
        BY <4>1 DEF Working
      <4> QED
        BY <1>2, <2>4, <2>5, <4>1, <4>2, <4>3, <4>4, TaskGoesOn, InstantsAreNumbers
    <3> QED
      BY <3>1, <3>2
  <2>9. InResolve(b)'
    BY <1>6, <2>1 DEF InResolve, storeVars
  <2> QED
    BY <1>0, <1>6, <2>1, <2>2, <2>4, <2>8, <2>9, QuietBatchMoves DEF storeVars
<1>9. ASSUME CallRaised(b)
      PROVE  StoryInv'
  <2>1. /\ task[b].pc = "calling" /\ Return(b) /\ task'[b] = Aborted
        /\ \A c \in Batches \ {b} : task'[c] = task[c]
    BY <1>9 DEF CallRaised, TaskTypeOK
  <2>2. /\ UNCHANGED storeVars /\ \A w \in Workers \ {b} : call'[w] = call[w]
        /\ op[b].pc # "resolve"
    BY <1>1, <2>1 DEF Return, CallTypeOK, InResolve
  <2>3. ~Working(b)' /\ InTask(b)' /\ InResolve(b)'
    BY <2>1, <2>2 DEF Working, Aborted, InTask, InResolve, storeVars
  <2> QED
    BY <1>0, <2>1, <2>2, <2>3, QuietBatchMoves DEF storeVars, tables
<1>10. ASSUME NEW d \in Delays, ResolveTask(b, d)
       PROVE  StoryInv'
  <2> DEFINE status == IF task[b].task_succeeded THEN SUCCEEDED ELSE FAILED
             at == task[b].call_time + d
  <2>1. /\ task[b].pc = "resolving" /\ UNCHANGED <<task, call, tables, saved>>
        /\ op'[b] = [pc |-> "resolve", id |-> task[b].outcome_id, status |-> status, at |-> at]
        /\ \A w \in Workers \ {b} : op'[w] = op[w]
    BY <1>0, <1>10 DEF ResolveTask, ResolveRead, StoreTypeOK, boundaryVars
  <2>2. Working(b)
    BY <2>1 DEF Working
  <2>3. task[b].call_time <= at
    BY <1>2, <1>3, <2>2
  <2>4. InResolve(b)'
    <3> HIDE DEF status, at
    <3>1. /\ op'[b].id = task[b].outcome_id /\ op'[b].status = status /\ op'[b].at = at
      BY <2>1
    <3> QED
      BY <2>1, <2>3, <3>1 DEF InResolve, status
  <2>5. InTask(b)'
    BY <1>1, <2>1
       DEF InTask, Working, Tells, Recordings, Tried, Successes, CallOfTask, tables
  <2> QED
    BY <1>0, <2>1, <2>2, <2>4, <2>5, QuietBatchMoves DEF saved
<1>11. ASSUME ResolveRaised(b)
       PROVE  StoryInv'
  <2>1. /\ task[b].pc = "resolving" /\ op[b] = Idle /\ task'[b] = Aborted
        /\ UNCHANGED <<storeVars, call>>
        /\ \A c \in Batches \ {b} : task'[c] = task[c]
    BY <1>11 DEF ResolveRaised, Outside, boundaryVars, TaskTypeOK
  <2>2. ~Working(b)' /\ InTask(b)' /\ InResolve(b)'
    BY <2>1 DEF Working, Aborted, InTask, InResolve, Idle, storeVars
  <2> QED
    BY <1>0, <2>1, <2>2, QuietBatchMoves DEF storeVars, tables
<1>12. ASSUME Resolved(b)
       PROVE  StoryInv'
  <2>1. /\ task[b].pc = "resolving" /\ Commit(b) /\ task'[b] = Ready /\ UNCHANGED call
        /\ \A c \in Batches \ {b} : task'[c] = task[c]
    BY <1>12 DEF Resolved, boundaryVars, TaskTypeOK
  <2>2. op'[b] = Idle
    BY <1>0, <2>1, CommitShape
  <2>3. ~Working(b)' /\ InTask(b)' /\ InResolve(b)'
    BY <2>1, <2>2 DEF Working, Ready, InTask, InResolve, Idle
  <2> QED
    BY <1>0, <2>1, <2>3, CommitShape, QuietBatchMoves
<1> QED
  BY <1>4, <1>5, <1>7, <1>8, <1>9, <1>10, <1>11, <1>12

(* The batch's UPDATE: its attempts have earned the status it writes.      *)
LEMMA ResolveWriteStory ==
  ASSUME StoryInv, StoreTypeOK, CallTypeOK, TaskTypeOK, NEW b \in Batches, ResolveWrite(b)
  PROVE  StoryInv'
<1> DEFINE id == task[b].outcome_id
           n  == task[b].attempt
           good == IF task[b].task_succeeded THEN {n} ELSE {}
<1>0. b \in Workers /\ Batches \subseteq Workers /\ Sweepers \subseteq Workers
      /\ Batches \cap Sweepers = {} /\ MAX_ATTEMPTS \in Nat
  BY TrafficAssumption
<1>1. InTask(b) /\ InResolve(b) /\ Working(b)
  BY DEF StoryInv, Working, ResolveWrite
<1>2. /\ task[b].pc = "resolving" /\ op[b].pc = "resolve"
      /\ Update(op[b].id, op[b].status, op[b].at) /\ op'[b].pc = "commit"
      /\ UNCHANGED <<events, savedOutcomes, savedEvents, task, call>>
      /\ \A w \in Workers \ {b} : op'[w] = op[w]
  BY <1>0 DEF ResolveWrite, ResolveUpdate, Commits, StoreTypeOK, saved, boundaryVars
<1>3. /\ op[b].id = id /\ op[b].status = (IF task[b].task_succeeded THEN SUCCEEDED ELSE FAILED)
      /\ task[b].call_time <= op[b].at
  BY <1>1, <1>2 DEF InResolve
<1>4. op[b].status \in RESOLVED_STATUSES /\ op[b].at \in Times /\ op[b].at \in Nat /\ id \in OutcomeIds
  <2>1. op[b] \in Resolving
    BY <1>0, <1>2 DEF StoreTypeOK, Idle, Resolving, Sweeping, Committing
  <2> QED
    BY <1>3, <2>1, TimesAssumption DEF Resolving, OwnerStatuses, RESOLVED_STATUSES
<1>5. n \in 1 .. MAX_ATTEMPTS /\ task[b].call_time \in Nat /\ task[b].task_succeeded \in BOOLEAN
  <2>1. task[b].attempt \in Attempts /\ task[b].call_time \in Times /\ task[b].task_succeeded \in BOOLEAN
    BY <1>1, TaskShape DEF Working, TaskTypeOK
  <2> QED
    BY <2>1, TrafficAssumption, TimesAssumption
<1>6. outcomes[id] # NoRow /\ outcomes[id] \in Rows
  BY <1>1, <1>4 DEF InTask, StoreTypeOK
<1> DEFINE row == Resolution(outcomes[id], op[b].status, op[b].at)
<1>7. outcomes'[id] = row /\ \A i \in OutcomeIds : i # id => outcomes'[i] = outcomes[i]
  BY <1>2, <1>3, <1>4, <1>6, UpdateShape DEF StoreTypeOK
<1>8. /\ row \in Rows /\ row.opened_at = outcomes[id].opened_at
      /\ row.status = op[b].status /\ row.resolved_at = op[b].at
  BY <1>4, <1>6, ResolutionShape
<1>9. row # NoRow
  BY <1>8, RowStatus
<1>10. Tells(id, n, good) /\ (~task[b].task_succeeded => n = MAX_ATTEMPTS)
       /\ \A e \in EventsOf(events, id) :
            outcomes[id].opened_at <= e.timestamp /\ e.timestamp <= task[b].call_time
  <2>1. call[b] = NoCall
    BY <1>2 DEF TaskTypeOK
  <2>2. Recordings(b) = n /\ Successes(b) = good
    BY <1>2, <1>5, <2>1 DEF Recordings, Tried, Successes, NoCall
  <2> QED
    BY <1>1, <1>2, <2>2 DEF InTask
<1> HIDE DEF row
<1>11. TaskStory(events, row, id)
  <2>1. row.status = SUCCEEDED => good = {n} /\ n > 0
    BY <1>3, <1>5, <1>8 DEF SUCCEEDED, FAILED
  <2>2. row.status = FAILED => good = {} /\ n = MAX_ATTEMPTS
    BY <1>3, <1>5, <1>8, <1>10 DEF SUCCEEDED, FAILED
  <2>3. \A e \in EventsOf(events, id) : e.timestamp \in Nat
    BY InstantsAreNumbers DEF EventsOf
  <2>4. \A e \in EventsOf(events, id) : row.opened_at <= e.timestamp /\ e.timestamp <= row.resolved_at
    BY <1>3, <1>4, <1>5, <1>8, <1>10, <2>3
  <2>5. n \in Nat /\ n <= MAX_ATTEMPTS /\ good \subseteq {n}
    BY <1>0, <1>5
  <2> HIDE DEF n, good, id
  <2> QED
    BY <1>10, <2>1, <2>2, <2>4, <2>5, StoryOfCounts DEF Tells
<1>12. Story(events', outcomes')
  <2>1. \A e \in events' : e.outcome_id \in OutcomeIds /\ outcomes'[e.outcome_id] # NoRow
    BY <1>2, <1>7, <1>9 DEF StoryInv, Story
  <2>2. \A i \in OutcomeIds : TaskStory(events', outcomes'[i], i)
    BY <1>2, <1>7, <1>11 DEF StoryInv, Story
  <2> QED
    BY <2>1, <2>2 DEF Story
<1>13. InTask(b)' /\ InResolve(b)'
  <2>1. Tells(id, Recordings(b), Successes(b))' /\ CallOfTask(b)'
    BY <1>1, <1>2 DEF InTask, Tells, Recordings, Tried, Successes, CallOfTask
  <2> QED
    BY <1>1, <1>2, <1>7, <1>8, <1>9, <2>1 DEF InTask, InResolve, Working
<1>14. \A c \in Batches \ {b} : Working(c) => task[c].outcome_id # id /\ task[c].outcome_id \in OutcomeIds
  BY <1>1, TaskShape DEF StoryInv, OneOwner, Working, TaskTypeOK
<1>15. IsFiniteSet(events') /\ IsFiniteSet(savedEvents') /\ Story(savedEvents', savedOutcomes')
  BY <1>2 DEF StoryInv
<1>16. Working(b)' => Working(b) /\ task'[b].outcome_id = task[b].outcome_id
  BY <1>1, <1>2
<1> HIDE DEF id
<1> QED
  BY <1>0, <1>2, <1>7, <1>12, <1>13, <1>14, <1>15, <1>16, BatchMoves

(* A sweep only abandons: it ends no story and starts none.                *)
LEMMA SweepStory ==
  ASSUME StoryInv, StoreTypeOK, TaskTypeOK, NEW s \in Sweepers, SweepStep(s)
  PROVE  StoryInv'
<1>0. s \in Workers /\ Batches \subseteq Workers /\ Sweepers \subseteq Workers
      /\ Batches \cap Sweepers = {}
  BY TrafficAssumption
<1>1. UNCHANGED <<events, task, call>>
  BY DEF SweepStep, SweepRead, SweepUpdate, SweepDone, Commit, tables, boundaryVars
<1>2. /\ \A w \in Workers \ {s} : op'[w] = op[w]
      /\ op'[s].pc # "resolve"
  <2>1. \A w \in Workers \ {s} : op'[w] = op[w]
    BY DEF SweepStep, SweepRead, SweepUpdate, SweepDone, Commit, StoreTypeOK
  <2>2. ASSUME NEW at \in SweepTimes, SweepRead(s, at)
        PROVE  op'[s].pc = "sweep"
    BY <1>0, <2>2 DEF SweepRead, StoreTypeOK
  <2>3. ASSUME NEW id \in OutcomeIds, SweepUpdate(s, id)
        PROVE  op'[s].pc = "sweep"
    <3>1. op[s] \in Sweeping
      BY <1>0, <2>3 DEF SweepUpdate, StoreTypeOK, Idle, Resolving, Sweeping, Committing
    <3> QED
      BY <1>0, <2>3, <3>1 DEF SweepUpdate, StoreTypeOK, Sweeping
  <2>4. CASE SweepDone(s)
    BY <1>0, <2>4 DEF SweepDone, Commits, StoreTypeOK
  <2>5. CASE Commit(s)
    BY <1>0, <2>5 DEF Commit, Idle, StoreTypeOK
  <2> QED
    BY <2>1, <2>2, <2>3, <2>4, <2>5 DEF SweepStep
<1>3. \A i \in OutcomeIds :
        /\ outcomes[i] # NoRow => outcomes'[i] # NoRow /\ outcomes'[i].opened_at = outcomes[i].opened_at
        /\ outcomes'[i] = outcomes[i] \/ outcomes'[i].status \notin OwnerStatuses
  <2>1. ASSUME NEW id \in OutcomeIds, SweepUpdate(s, id), NEW i \in OutcomeIds
        PROVE  /\ outcomes[i] # NoRow =>
                    outcomes'[i] # NoRow /\ outcomes'[i].opened_at = outcomes[i].opened_at
               /\ outcomes'[i] = outcomes[i] \/ outcomes'[i].status \notin OwnerStatuses
    <3>1. op[s] \in Sweeping
      BY <1>0, <2>1 DEF SweepUpdate, StoreTypeOK, Idle, Resolving, Sweeping, Committing
    <3>2. /\ ABANDONED \in RESOLVED_STATUSES /\ ABANDONED \notin OwnerStatuses
          /\ op[s].at \in Times /\ Update(id, ABANDONED, op[s].at)
      BY <2>1, <3>1
         DEF Sweeping, SweepUpdate, RESOLVED_STATUSES, OwnerStatuses, ABANDONED, SUCCEEDED, FAILED
    <3>3. CASE i = id /\ outcomes[i] # NoRow
      <4>1. outcomes[i] \in Rows
        BY <3>3 DEF StoreTypeOK
      <4>2. outcomes'[i] = Resolution(outcomes[i], ABANDONED, op[s].at)
        BY <3>2, <3>3, UpdateShape DEF StoreTypeOK
      <4> QED
        BY <3>2, <4>1, <4>2, ResolutionShape, RowStatus
    <3>4. CASE ~(i = id /\ outcomes[i] # NoRow)
      BY <3>2, <3>4, UpdateShape DEF StoreTypeOK
    <3> QED
      BY <3>3, <3>4
  <2>2. CASE UNCHANGED outcomes
    BY <2>2
  <2> QED
    BY <2>1, <2>2 DEF SweepStep, SweepRead, SweepDone, Commit, tables
<1>4. ASSUME NEW c \in Batches
      PROVE  InTask(c)' /\ InResolve(c)'
  <2>1. InTask(c) /\ InResolve(c)
    BY DEF StoryInv
  <2>2. Working(c) => task[c].outcome_id \in OutcomeIds
    BY TaskShape DEF Working, TaskTypeOK
  <2>3. Working(c) => outcomes[task[c].outcome_id] # NoRow
    BY <2>1 DEF InTask
  <2> QED
    BY <1>0, <1>1, <1>2, <1>3, <2>1, <2>2, <2>3, OtherTask
<1>5. Story(events', outcomes')
  <2>1. \A e \in events' : e.outcome_id \in OutcomeIds /\ outcomes'[e.outcome_id] # NoRow
    BY <1>1, <1>3 DEF StoryInv, Story
  <2>2. \A i \in OutcomeIds : TaskStory(events', outcomes'[i], i)
    BY <1>1, <1>3, StoryOfOther DEF StoryInv, Story
  <2> QED
    BY <2>1, <2>2 DEF Story
<1>6. IsFiniteSet(savedEvents') /\ Story(savedEvents', savedOutcomes')
  <2>1. CASE Commit(s)
    BY <1>0, <2>1, CommitShape DEF StoryInv
  <2>2. CASE UNCHANGED saved
    BY <2>2 DEF saved, StoryInv
  <2> QED
    BY <2>1, <2>2 DEF SweepStep, SweepRead, SweepUpdate, SweepDone, saved
<1>7. OneOwner' /\ \A v \in Sweepers : op'[v].pc # "resolve"
  BY <1>0, <1>1, <1>2 DEF OneOwner, Working, StoryInv
<1> QED
  BY <1>1, <1>4, <1>5, <1>6, <1>7 DEF StoryInv

(* Every step, a crash included, keeps the invariant.                      *)
LEMMA StoryStep ==
  ASSUME StoryInv, StoreTypeOK, CallTypeOK, CallTypeOK', TaskTypeOK, TaskTypeOK',
         [TrafficNext]_trafficVars
  PROVE  StoryInv'
<1>1. ASSUME NEW b \in Batches, InCall(b)
      PROVE  StoryInv'
  <2>1. billed # EventIds => Cardinality(billed) + 1 \in EventIds
    BY NextEventId
  <2> QED
    BY <1>1, <2>1, InCallStory, InsertStory, BatchQuietStory DEF InCall
<1>2. ASSUME NEW b \in Batches, BatchStep(b)
      PROVE  StoryInv'
  BY <1>1, <1>2, StartTaskStory, InCallStory, BatchQuietStory, ResolveWriteStory DEF BatchStep
<1>3. CASE Restart
  <2>1. /\ outcomes' = savedOutcomes /\ events' = savedEvents /\ UNCHANGED saved
        /\ \A w \in Workers : op'[w].pc = "idle"
        /\ \A b \in Batches : task'[b] = Ready
    BY <1>3 DEF Restart, BoundaryCrash, Crash, Idle
  <2>2. \A b \in Batches : ~Working(b)' /\ op'[b].pc # "resolve"
    BY <2>1, TrafficAssumption DEF Working, Ready
  <2>3. \A b \in Batches : InTask(b)' /\ InResolve(b)'
    BY <2>2 DEF InTask, InResolve
  <2>4. OneOwner' /\ \A s \in Sweepers : op'[s].pc # "resolve"
    BY <2>1, <2>2, TrafficAssumption DEF OneOwner
  <2> QED
    BY <2>1, <2>3, <2>4 DEF StoryInv, saved
<1>4. CASE UNCHANGED trafficVars
  <2>1. UNCHANGED <<outcomes, events, savedOutcomes, savedEvents, op, call, task>>
    BY <1>4 DEF trafficVars, storeVars, boundaryVars
  <2>2. ASSUME NEW b \in Batches
        PROVE  (InTask(b)' <=> InTask(b)) /\ (InResolve(b)' <=> InResolve(b))
    <3>1. Recordings(b)' = Recordings(b) /\ Successes(b)' = Successes(b)
      BY <2>1 DEF Recordings, Tried, Successes
    <3>2. CallOfTask(b)' <=> CallOfTask(b)
      BY <2>1 DEF CallOfTask
    <3> QED
      BY <2>1, <3>1, <3>2 DEF InTask, Working, Tells, InResolve
  <2>3. OneOwner' <=> OneOwner
    BY <2>1 DEF OneOwner, Working
  <2> QED
    BY <2>1, <2>2, <2>3 DEF StoryInv
<1> QED
  BY <1>2, <1>3, <1>4, SweepStory DEF TrafficNext

(* The tables and the file tell whole tasks, and every batch is where its  *)
(* outcome's events say.                                                   *)
THEOREM StoryInvariant == TrafficSpec => []StoryInv
<1>1. TrafficInit => StoryInv
  <2> SUFFICES ASSUME TrafficInit
               PROVE  StoryInv
    OBVIOUS
  <2>1. /\ outcomes = [id \in OutcomeIds |-> NoRow] /\ savedOutcomes = outcomes
        /\ events = {} /\ savedEvents = {}
        /\ \A w \in Workers : op[w] = Idle
        /\ \A b \in Batches : task[b] = Ready
    BY DEF TrafficInit, BoundaryInit, StoreInit
  <2>2. IsFiniteSet(events) /\ Cardinality({}) = 0 /\ MAX_ATTEMPTS \in Nat
    BY <2>1, FS_EmptySet, TrafficAssumption
  <2>3. ASSUME NEW id \in OutcomeIds
        PROVE  TaskStory(events, outcomes[id], id)
    <3>1. EventsOf(events, id) = {} /\ AttemptsOf(events, id) = 1 .. 0
          /\ SucceededAttempts(events, id) = {}
      BY <2>1 DEF EventsOf, AttemptsOf, SucceededAttempts
    <3>2. outcomes[id].status \notin OwnerStatuses
          /\ outcomes[id].status # SUCCEEDED /\ outcomes[id].status # FAILED
      BY <2>1 DEF NoRow, OwnerStatuses, SUCCEEDED, FAILED
    <3> QED
      BY <2>2, <3>1, <3>2 DEF TaskStory
  <2>4. Story(events, outcomes) /\ Story(savedEvents, savedOutcomes)
    BY <2>1, <2>3 DEF Story
  <2>5. \A b \in Batches : ~Working(b) /\ InTask(b) /\ InResolve(b)
    BY <2>1, TrafficAssumption DEF Working, Ready, InTask, InResolve, Idle
  <2>6. OneOwner /\ \A s \in Sweepers : op[s].pc # "resolve"
    BY <2>1, <2>5, TrafficAssumption DEF OneOwner, Idle
  <2> QED
    BY <2>1, <2>2, <2>4, <2>5, <2>6 DEF StoryInv
<1>2. /\ StoryInv /\ StoreTypeOK /\ CallTypeOK /\ CallTypeOK' /\ TaskTypeOK /\ TaskTypeOK'
      /\ [TrafficNext]_trafficVars
      => StoryInv'
  BY StoryStep
<1>3. TrafficSpec => []StoreTypeOK
  BY TrafficSharesTheStore, SharedUsesStore, StoreTypeCorrect, PTL DEF SharesTheStore
<1> QED
  BY <1>1, <1>2, <1>3, TaskTypesHold, PTL DEF TrafficSpec

(* Wherever the crash falls and whoever's commit published what, a restart *)
(* finds whole tasks in the file (traffic.py:158-196).                     *)
THEOREM FileTellsWholeTasks == TrafficSpec => []DurableStory
<1>1. StoryInv => DurableStory
  BY DEF StoryInv, DurableStory
<1> QED
  BY <1>1, StoryInvariant, PTL

-----------------------------------------------------------------------------
(***************************************************************************)
(* While nobody sweeps, every outcome has one owner, and the unguarded     *)
(* UPDATE is harmless: the row it overwrites is the pending one its thread *)
(* read, and the file holds no later one.                                  *)
(***************************************************************************)
OwnedInv ==
  /\ \A id \in OutcomeIds :
       savedOutcomes[id].status \in RESOLVED_STATUSES => outcomes[id] = savedOutcomes[id]
  /\ \A b \in Batches : op[b].pc = "resolve" => outcomes[op[b].id].status = PENDING

(* Threads that only open, call and resolve keep it.                       *)
LEMMA OwnedStep ==
  ASSUME Sweepers = {}, StoryInv, StoreTypeOK, StoreTypeOK', CallTypeOK, TaskTypeOK, OwnedInv,
         [TrafficNext]_trafficVars
  PROVE  /\ OwnedInv'
         /\ \A id \in OutcomeIds :
              savedOutcomes[id].status \in RESOLVED_STATUSES => savedOutcomes'[id] = savedOutcomes[id]
<1> DEFINE Final == \A id \in OutcomeIds :
              savedOutcomes[id].status \in RESOLVED_STATUSES => savedOutcomes'[id] = savedOutcomes[id]
<1>0. Batches = Workers
  BY TrafficAssumption
<1>1. PENDING \notin RESOLVED_STATUSES /\ NoRow.status \notin RESOLVED_STATUSES
      /\ NoRow.status # PENDING /\ OwnerStatuses \subseteq RESOLVED_STATUSES
  BY DEF PENDING, RESOLVED_STATUSES, SUCCEEDED, FAILED, ABANDONED, NoRow, OwnerStatuses
<1>2. ASSUME NEW b \in Batches, NEW id \in OutcomeIds, NEW tier \in Tiers,
             NEW t \in OpeningTimes, StartTask(b, id, tier, t)
      PROVE  OwnedInv' /\ Final
  <2>1. /\ outcomes[id] = NoRow /\ UNCHANGED saved /\ op'[b].pc = "commit"
        /\ \A i \in OutcomeIds : i # id => outcomes'[i] = outcomes[i]
        /\ \A w \in Workers \ {b} : op'[w] = op[w]
    BY <1>0, <1>2 DEF StartTask, IsNew, OpenExecute, Commits, StoreTypeOK
  <2>2. savedOutcomes[id].status \notin RESOLVED_STATUSES
    BY <1>1, <2>1 DEF OwnedInv
  <2>3. \A c \in Batches : op[c].pc = "resolve" => op[c].id # id /\ op[c].id \in OutcomeIds
    BY <1>0, <1>1, <2>1 DEF OwnedInv, StoreTypeOK, Idle, Resolving, Sweeping, Committing
  <2> QED
    BY <1>0, <2>1, <2>2, <2>3 DEF OwnedInv, saved
<1>3. ASSUME NEW b \in Batches, Commit(b)
      PROVE  OwnedInv' /\ Final
  BY <1>0, <1>3, CommitShape DEF OwnedInv, tables, Idle
<1>4. ASSUME NEW b \in Batches, InsertEvent(b)
      PROVE  OwnedInv' /\ Final
  <2>1. /\ UNCHANGED <<outcomes, savedOutcomes>> /\ op'[b].pc = "commit"
        /\ \A w \in Workers \ {b} : op'[w] = op[w]
    BY <1>0, <1>4 DEF InsertEvent, InsertExecute, Commits, saved, StoreTypeOK
  <2> QED
    BY <1>0, <2>1 DEF OwnedInv
<1>5. ASSUME NEW b \in Batches, NEW d \in Delays, ResolveTask(b, d)
      PROVE  OwnedInv' /\ Final
  <2>1. /\ UNCHANGED <<outcomes, savedOutcomes>>
        /\ op'[b].id = task[b].outcome_id /\ outcomes[task[b].outcome_id].status = PENDING
        /\ \A w \in Workers \ {b} : op'[w] = op[w]
    BY <1>0, <1>5 DEF ResolveTask, ResolveRead, CanResolve, tables, saved, StoreTypeOK
  <2> QED
    BY <1>0, <2>1 DEF OwnedInv
<1>6. ASSUME NEW b \in Batches, ResolveWrite(b)
      PROVE  OwnedInv' /\ Final
  <2> DEFINE id == op[b].id
  <2>1. /\ op[b].pc = "resolve" /\ Update(id, op[b].status, op[b].at) /\ op'[b].pc = "commit"
        /\ UNCHANGED saved /\ \A w \in Workers \ {b} : op'[w] = op[w]
    BY <1>0, <1>6 DEF ResolveWrite, ResolveUpdate, Commits, StoreTypeOK
  <2>2. op[b] \in Resolving
    BY <1>0, <2>1 DEF StoreTypeOK, Idle, Resolving, Sweeping, Committing
  <2>3. id \in OutcomeIds /\ op[b].status \in RESOLVED_STATUSES /\ op[b].at \in Times
    BY <1>1, <2>2 DEF Resolving
  <2>4. \A i \in OutcomeIds : i # id => outcomes'[i] = outcomes[i]
    BY <2>1, <2>3, UpdateShape DEF StoreTypeOK
  <2>5. savedOutcomes[id].status \notin RESOLVED_STATUSES
    BY <1>1, <2>1, <2>3 DEF OwnedInv
  <2>6. \A c \in Batches \ {b} : op[c].pc = "resolve" => op[c].id # id
    BY <2>1 DEF StoryInv, InResolve, OneOwner, Working
  <2>7. \A c \in Batches : op[c].pc = "resolve" => op[c].id \in OutcomeIds
    BY <1>0 DEF StoreTypeOK, Idle, Resolving, Sweeping, Committing
  <2> QED
    BY <1>0, <2>1, <2>3, <2>4, <2>5, <2>6, <2>7 DEF OwnedInv, saved
<1>7. CASE UNCHANGED storeVars
  BY <1>7 DEF storeVars, OwnedInv
<1>8. CASE Restart
  BY <1>0, <1>8 DEF Restart, BoundaryCrash, Crash, saved, OwnedInv, Idle
<1>9. ASSUME NEW b \in Batches, BatchStep(b)
      PROVE  OwnedInv' /\ Final
  BY <1>2, <1>3, <1>4, <1>5, <1>6, <1>7, <1>9
     DEF BatchStep, Opened, Attempt, BeginCall, InCall, ModelCall, EventCommitted, CallSucceeded,
         CallFailed, CallRaised, Return, ResolveRaised, Resolved
<1> QED
  BY <1>7, <1>8, <1>9 DEF TrafficNext, trafficVars

(* Batches that no sweep disturbs: a resolution in the file is final,      *)
(* although resolve_outcome's UPDATE checks nothing (store.py:92-99).      *)
THEOREM OwnersNeverCollideAlone ==
  ASSUME Sweepers = {}
  PROVE  TrafficSpec => OwnersNeverCollide
<1>1. TrafficInit => OwnedInv
  BY TrafficAssumption DEF TrafficInit, BoundaryInit, StoreInit, OwnedInv, Idle
<1>2. /\ StoryInv /\ StoreTypeOK /\ StoreTypeOK' /\ CallTypeOK /\ TaskTypeOK /\ OwnedInv
      /\ [TrafficNext]_trafficVars
      => /\ OwnedInv'
         /\ \A id \in OutcomeIds :
              savedOutcomes[id].status \in RESOLVED_STATUSES => savedOutcomes'[id] = savedOutcomes[id]
  BY Sweepers = {}, OwnedStep
<1>3. TrafficSpec => []StoreTypeOK
  BY TrafficSharesTheStore, SharedUsesStore, StoreTypeCorrect, PTL DEF SharesTheStore
<1>4. (\A id \in OutcomeIds :
         savedOutcomes[id].status \in RESOLVED_STATUSES => savedOutcomes'[id] = savedOutcomes[id])
      => [\A id \in OutcomeIds :
            savedOutcomes[id].status \in Contract!RESOLVED_STATUSES
              => savedOutcomes'[id] = savedOutcomes[id]]_savedOutcomes
  BY DEF RESOLVED_STATUSES, SUCCEEDED, FAILED, ABANDONED, Contract!RESOLVED_STATUSES,
         Contract!SUCCEEDED, Contract!FAILED, Contract!ABANDONED
<1> QED
  BY <1>1, <1>2, <1>3, <1>4, StoryInvariant, TaskTypesHold, PTL
     DEF TrafficSpec, OwnersNeverCollide, ResolvedIsImmutable, Contract!ResolvedIsImmutable

=============================================================================
