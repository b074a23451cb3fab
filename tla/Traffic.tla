------------------------------ MODULE Traffic ------------------------------
(***************************************************************************)
(* costkit/traffic.py's generate_traffic, run by several threads over one  *)
(* store (the console runs one batch at startup and one per POST of        *)
(* /api/demo/retry-storm, each in a thread of the pool), with the sweep    *)
(* the outcome contract asks for run by further threads, if any.           *)
(*                                                                         *)
(* A batch works through its tasks one after the other:                    *)
(*   ready -> opening -> calling -> resolving -> ready                     *)
(* and ends, leaving its outcome as it is, at the first exception other    *)
(* than CallFailedError ("aborted").                                       *)
(*                                                                         *)
(* The scenario switches (retry storm, context bloat, downgrade) only bias *)
(* the random draws: every draw is a nondeterministic choice here.         *)
(***************************************************************************)
EXTENDS Boundary

CONSTANTS Batches,              \* threads in generate_traffic
          Sweepers,             \* threads that call store.sweep_abandoned
          RESOLUTION_WINDOW,
          MAX_ATTEMPTS,
          OpeningTimes,         \* what opened_at is drawn from
          Delays,               \* the back-offs, coarsened to ticks
          MaxDelay,             \* the longest of them
          SweepTimes,           \* the `at' of the sweeps
          MaxCrashes            \* bound: crashes in a checked behaviour

ASSUME TrafficAssumption ==
  /\ Workers = Batches \cup Sweepers
  /\ Batches \cap Sweepers = {}
  /\ MAX_ATTEMPTS \in Nat \ {0}
  /\ IsFiniteSet(OutcomeIds)
  /\ EventIds = 1 .. Cardinality(OutcomeIds) * MAX_ATTEMPTS
  /\ Attempts = 1 .. MAX_ATTEMPTS
  /\ RESOLUTION_WINDOW \in Windows
  /\ MaxCrashes \in Nat
  /\ OpeningTimes \subseteq Times
  /\ SweepTimes \subseteq Times
  /\ Times = Instants
  /\ MaxDelay \in Nat
  /\ Delays \subseteq 0 .. MaxDelay
  /\ \A t \in OpeningTimes : t .. t + (MAX_ATTEMPTS + 1) * MaxDelay \subseteq Times

VARIABLES task,      \* the local variables of each batch
          crashes

trafficVars == <<storeVars, boundaryVars, task, crashes>>

Ready   == [pc |-> "ready"]
Aborted == [pc |-> "aborted"]

Tasks == {Ready, Aborted}
  \cup [pc : {"opening", "calling", "resolving"}, outcome_id : OutcomeIds, model_tier : Tiers,
        attempt : Attempts, call_time : Times, task_succeeded : BOOLEAN]

Outside(w) == call[w] = NoCall /\ op[w] = Idle

\* Mutant of IsNew: ids repeat.
IsNewOrRepeated(id) == TRUE

\* outcome_id carries the opening time to the microsecond, drawn relative to
\* the batch's own `now': no batch draws one that was drawn before.  (The
\* six digits after it come from a fixed seed and add nothing.)
IsNew(id) ==
  /\ outcomes[id] = NoRow
  /\ \A b \in Batches : task[b] \notin {Ready, Aborted} => task[b].outcome_id # id

-----------------------------------------------------------------------------
TrafficInit ==
  /\ BoundaryInit
  /\ task = [b \in Batches |-> Ready]
  /\ crashes = 0

\* One pass of the loop begins: the draws and open_outcome.
StartTask(b, id, tier, t) ==
  /\ task[b] = Ready
  /\ Outside(b)
  /\ IsNew(id)
  /\ OpenExecute(b, id, t, RESOLUTION_WINDOW)
  /\ task' = [task EXCEPT ![b] =
                [pc |-> "opening", outcome_id |-> id, model_tier |-> tier, attempt |-> 1,
                 call_time |-> t, task_succeeded |-> FALSE]]
  /\ UNCHANGED <<boundaryVars, crashes>>

Opened(b) ==
  /\ task[b].pc = "opening"
  /\ Commit(b)
  /\ task' = [task EXCEPT ![b].pc = "calling"]
  /\ UNCHANGED <<boundaryVars, crashes>>

\* boundary.call(model_tier, attempt, call_time), the context set to the task.
Attempt(b) ==
  /\ task[b].pc = "calling"
  /\ BeginCall(b, task[b].outcome_id, task[b].model_tier, task[b].attempt, task[b].call_time)
  /\ UNCHANGED <<task, crashes>>

\* Inside boundary.call.  The client has a profile for the drawn tier; the
\* event's uuid is one no other event has.
InCall(b) ==
  /\ task[b].pc = "calling"
  /\ \/ \E status \in {OK, ERROR}, usage \in Usages :
          /\ billed # EventIds
          /\ ModelCall(b, Cardinality(billed) + 1, status, usage)
     \/ InsertEvent(b)
     \/ EventCommitted(b)
  /\ UNCHANGED <<task, crashes>>

\* Mutant of CallSucceeded: the result is used before the event's commit.
CallSucceededUncommitted(b) ==
  /\ task[b].pc = "calling"
  /\ call[b].pc \in {"commit", "done"}
  /\ call[b].event.call_status = OK
  /\ call' = [call EXCEPT ![b] = NoCall]
  /\ task' = [task EXCEPT ![b].pc = "resolving", ![b].task_succeeded = TRUE]
  /\ UNCHANGED <<storeVars, rates, billed, dropped, crashes>>

\* call returned: break.
CallSucceeded(b) ==
  /\ task[b].pc = "calling"
  /\ call[b].pc = "done"
  /\ call[b].event.call_status = OK
  /\ Return(b)
  /\ task' = [task EXCEPT ![b].pc = "resolving", ![b].task_succeeded = TRUE]
  /\ UNCHANGED crashes

\* Mutants of CallFailed: one attempt too many, one too few.
CallFailedRetryingOnceMore(b, d) ==
  /\ task[b].pc = "calling"
  /\ call[b].pc = "done"
  /\ call[b].event.call_status = ERROR
  /\ Return(b)
  /\ task' = IF task[b].attempt <= MAX_ATTEMPTS
               THEN [task EXCEPT ![b].call_time = @ + d, ![b].attempt = @ + 1]
               ELSE [task EXCEPT ![b].call_time = @ + d, ![b].pc = "resolving"]
  /\ UNCHANGED crashes

CallFailedGivingUpEarly(b, d) ==
  /\ task[b].pc = "calling"
  /\ call[b].pc = "done"
  /\ call[b].event.call_status = ERROR
  /\ Return(b)
  /\ task' = IF task[b].attempt + 1 < MAX_ATTEMPTS
               THEN [task EXCEPT ![b].call_time = @ + d, ![b].attempt = @ + 1]
               ELSE [task EXCEPT ![b].call_time = @ + d, ![b].pc = "resolving"]
  /\ UNCHANGED crashes

\* CallFailedError: back off; the loop ends after MAX_ATTEMPTS.
CallFailed(b, d) ==
  /\ task[b].pc = "calling"
  /\ call[b].pc = "done"
  /\ call[b].event.call_status = ERROR
  /\ Return(b)
  /\ task' = IF task[b].attempt < MAX_ATTEMPTS
               THEN [task EXCEPT ![b].call_time = @ + d, ![b].attempt = @ + 1]
               ELSE [task EXCEPT ![b].call_time = @ + d, ![b].pc = "resolving"]
  /\ UNCHANGED crashes

\* Any other exception leaves generate_traffic; the outcome stays pending.
CallRaised(b) ==
  /\ task[b].pc = "calling"
  /\ call[b] = Raised
  /\ Return(b)
  /\ task' = [task EXCEPT ![b] = Aborted]
  /\ UNCHANGED crashes

\* Mutant of ResolveTask: dated when the task began.
ResolveTaskAtOpening(b, d) ==
  /\ task[b].pc = "resolving"
  /\ ResolveRead(b, task[b].outcome_id,
                 IF task[b].task_succeeded THEN SUCCEEDED ELSE FAILED,
                 outcomes[task[b].outcome_id].opened_at)
  /\ UNCHANGED <<boundaryVars, task, crashes>>

\* resolve_outcome with the status the attempts earned, shortly after the
\* last of them.
ResolveTask(b, d) ==
  /\ task[b].pc = "resolving"
  /\ ResolveRead(b, task[b].outcome_id,
                 IF task[b].task_succeeded THEN SUCCEEDED ELSE FAILED, task[b].call_time + d)
  /\ UNCHANGED <<boundaryVars, task, crashes>>

\* A sweep was there first: AlreadyResolvedError leaves generate_traffic.
ResolveRaised(b) ==
  /\ task[b].pc = "resolving"
  /\ Outside(b)
  /\ outcomes[task[b].outcome_id].status # PENDING
  /\ task' = [task EXCEPT ![b] = Aborted]
  /\ UNCHANGED <<storeVars, boundaryVars, crashes>>

ResolveWrite(b) ==
  /\ task[b].pc = "resolving"
  /\ ResolveUpdate(b)
  /\ UNCHANGED <<boundaryVars, task, crashes>>

Resolved(b) ==
  /\ task[b].pc = "resolving"
  /\ Commit(b)
  /\ task' = [task EXCEPT ![b] = Ready]
  /\ UNCHANGED <<boundaryVars, crashes>>

BatchStep(b) ==
  \/ \E id \in OutcomeIds, tier \in Tiers, t \in OpeningTimes : StartTask(b, id, tier, t)
  \/ Opened(b)
  \/ Attempt(b)
  \/ InCall(b)
  \/ CallSucceeded(b)
  \/ \E d \in Delays : CallFailed(b, d)
  \/ CallRaised(b)
  \/ \E d \in Delays : ResolveTask(b, d)
  \/ ResolveRaised(b)
  \/ ResolveWrite(b)
  \/ Resolved(b)

\* A sweep job, over and over.
SweepStep(s) ==
  /\ \/ \E at \in SweepTimes : SweepRead(s, at)
     \/ \E id \in OutcomeIds : SweepUpdate(s, id)
     \/ SweepDone(s)
     \/ Commit(s)
  /\ UNCHANGED <<boundaryVars, task, crashes>>

\* The process dies; the next one starts its batches anew.
Restart ==
  /\ crashes < MaxCrashes
  /\ crashes' = crashes + 1
  /\ BoundaryCrash
  /\ task' = [b \in Batches |-> Ready]

TrafficNext ==
  \/ \E b \in Batches : BatchStep(b)
  \/ \E s \in Sweepers : SweepStep(s)
  \/ Restart

TrafficSpec == TrafficInit /\ [][TrafficNext]_trafficVars

\* The operating system runs every thread that can run; nothing forces a
\* crash.
FairTrafficSpec ==
  /\ TrafficSpec
  /\ \A b \in Batches : WF_trafficVars(BatchStep(b))
  /\ \A s \in Sweepers : WF_trafficVars(SweepStep(s))

-----------------------------------------------------------------------------
(* The variables keep their types.                                         *)
TrafficTypeOK ==
  /\ BoundaryTypeOK
  /\ task \in [Batches -> Tasks]
  /\ crashes \in 0 .. MaxCrashes

(* Running batches and sweeps is using the boundary and the store as their *)
(* own modules say: a store method is begun outside any call, a call ends  *)
(* only after its event's commit, and nothing else touches either          *)
(* (traffic.py:156-196).  So their invariants hold here as well.           *)
SharesTheStore == SharedSpec

EventsOf(evs, id) == {e \in evs : e.outcome_id = id}

AttemptsOf(evs, id) == {e.attempt_number : e \in EventsOf(evs, id)}

SucceededAttempts(evs, id) ==
  {e.attempt_number : e \in {f \in EventsOf(evs, id) : f.call_status = OK}}

\* The events of outcome `id' and its row are those of a whole task.
TaskStory(evs, row, id) ==
  LET n    == Cardinality(EventsOf(evs, id))
      good == SucceededAttempts(evs, id) IN
  /\ n <= MAX_ATTEMPTS
  /\ AttemptsOf(evs, id) = 1 .. n
  /\ good \subseteq {n}
  /\ row.status = SUCCEEDED => good = {n} /\ n > 0
  /\ row.status = FAILED => good = {} /\ n = MAX_ATTEMPTS
  /\ row.status \in OwnerStatuses =>
       \A e \in EventsOf(evs, id) : row.opened_at <= e.timestamp /\ e.timestamp <= row.resolved_at

Story(evs, rows) ==
  /\ \A e \in evs : e.outcome_id \in OutcomeIds /\ rows[e.outcome_id] # NoRow
  /\ \A id \in OutcomeIds : TaskStory(evs, rows[id], id)

(* What a restart finds in the file tells whole tasks, whoever's commit    *)
(* published it and wherever the crash fell: every event has its outcome,  *)
(* the attempts are 1..n without gap or repetition, only the last one can  *)
(* have succeeded, a succeeded outcome paid for exactly one good answer, a *)
(* failed one for MAX_ATTEMPTS bad ones, and a resolution is not dated     *)
(* before the calls it ends (traffic.py:158-196).                          *)
DurableStory == Story(savedEvents, savedOutcomes)

(* Batches never disturb each other's outcomes: while no sweep runs, a     *)
(* durable resolution is final although threads interleave inside the      *)
(* store, because every outcome has one owner.                             *)
OwnersNeverCollide == ResolvedIsImmutable

\* The durable row of the outcome is there and not resolved.
Dangling(id) == savedOutcomes[id].status = PENDING

(* outcome-contract.md:57-62: after its resolution window something moves  *)
(* a pending outcome to abandoned.  Whatever aborts or crashes, no outcome *)
(* in the file stays pending for ever.                                     *)
EveryOutcomeCloses == \A id \in OutcomeIds : Dangling(id) ~> ~Dangling(id)

=============================================================================
