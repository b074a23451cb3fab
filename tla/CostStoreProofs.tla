-------------------------- MODULE CostStoreProofs --------------------------
(***************************************************************************)
(* What TLAPS proves of CostStore for every set of workers, outcomes,      *)
(* events and instants.                                                    *)
(***************************************************************************)
EXTENDS CostStore, TLAPS

USE TimesAssumption, PersistentAssumption

(* resolve() and sweep_abandoned() rewrite a row's status and resolved_at   *)
(* and nothing else (outcome.py:41-64).                                    *)
LEMMA ResolutionShape ==
  ASSUME NEW o \in Rows, NEW status \in RESOLVED_STATUSES, NEW at \in Times
  PROVE  /\ Resolution(o, status, at) \in Rows
         /\ Resolution(o, status, at).opened_at = o.opened_at
         /\ Resolution(o, status, at).window = o.window
         /\ Resolution(o, status, at).status = status
         /\ Resolution(o, status, at).resolved_at = at
BY DEF Resolution, Rows

(* The unguarded UPDATE rewrites one existing row and leaves every other   *)
(* row alone (store.py:95-98, 111-114).                                    *)
LEMMA UpdateShape ==
  ASSUME outcomes \in [OutcomeIds -> Rows \cup {NoRow}],
         NEW id \in OutcomeIds, NEW status \in RESOLVED_STATUSES, NEW at \in Times,
         Update(id, status, at)
  PROVE  /\ outcomes' \in [OutcomeIds -> Rows \cup {NoRow}]
         /\ \A i \in OutcomeIds :
              outcomes'[i] = IF i = id /\ outcomes[i] # NoRow
                               THEN Resolution(outcomes[i], status, at)
                               ELSE outcomes[i]
<1>1. CASE outcomes[id] = NoRow
  BY <1>1 DEF Update
<1>2. CASE outcomes[id] # NoRow
  <2>1. Resolution(outcomes[id], status, at) \in Rows
    BY <1>2, ResolutionShape
  <2> QED
    BY <1>2, <2>1 DEF Update
<1> QED
  BY <1>1, <1>2

(* Every method and every crash keeps the store's variables in their types *)
(* (store.py:73-146).                                                      *)
THEOREM StoreTypeCorrect == StoreSpec => []StoreTypeOK
<1>1. StoreInit => StoreTypeOK
  BY DEF StoreInit, StoreTypeOK, NoPromise, Promises
<1>2. StoreTypeOK /\ [StoreNext]_storeVars => StoreTypeOK'
  <2> SUFFICES ASSUME StoreTypeOK, [StoreNext]_storeVars
               PROVE  StoreTypeOK'
    OBVIOUS
  <2> USE DEF StoreTypeOK
  <2>1. ASSUME NEW w \in Workers, NEW id \in OutcomeIds, NEW t \in Times, NEW win \in Windows,
               OpenExecute(w, id, t, win)
        PROVE  StoreTypeOK'
    BY <2>1 DEF OpenExecute, NewOutcome, Rows, PENDING, Null, Commits, Committing,
                Promises, NoPromise, saved
  <2>2. ASSUME NEW w \in Workers, NEW id \in OutcomeIds, NEW status \in OwnerStatuses,
               NEW at \in Times, ResolveRead(w, id, status, at)
        PROVE  StoreTypeOK'
    BY <2>2 DEF ResolveRead, Resolving, tables, saved
  <2>3. ASSUME NEW w \in Workers, ResolveUpdate(w)
        PROVE  StoreTypeOK'
    <3>1. op[w] \in Resolving
      BY <2>3 DEF ResolveUpdate, Idle, Resolving, Sweeping, Committing
    <3>2. outcomes' \in [OutcomeIds -> Rows \cup {NoRow}]
      BY <2>3, <3>1, UpdateShape DEF ResolveUpdate, Resolving, OwnerStatuses, RESOLVED_STATUSES
    <3> QED
      BY <2>3, <3>1, <3>2 DEF ResolveUpdate, Resolving, Commits, Committing, Promises,
                              NoPromise, saved
  <2>4. ASSUME NEW w \in Workers, NEW at \in Times, SweepRead(w, at)
        PROVE  StoreTypeOK'
    BY <2>4 DEF SweepRead, Sweeping, tables, saved
  <2>5. ASSUME NEW w \in Workers, NEW id \in OutcomeIds, SweepUpdate(w, id)
        PROVE  StoreTypeOK'
    <3>1. op[w] \in Sweeping
      BY <2>5 DEF SweepUpdate, Idle, Resolving, Sweeping, Committing
    <3>2. outcomes' \in [OutcomeIds -> Rows \cup {NoRow}]
      BY <2>5, <3>1, UpdateShape DEF SweepUpdate, Sweeping, RESOLVED_STATUSES
    <3>3. op' \in [Workers -> {Idle} \cup Resolving \cup Sweeping \cup Committing]
      BY <2>5, <3>1 DEF SweepUpdate, Sweeping
    <3> QED
      BY <2>5, <3>2, <3>3 DEF SweepUpdate, saved
  <2>6. ASSUME NEW w \in Workers, SweepDone(w)
        PROVE  StoreTypeOK'
    <3>1. op[w] \in Sweeping
      BY <2>6 DEF SweepDone, Idle, Resolving, Sweeping, Committing
    <3> QED
      BY <2>6, <3>1 DEF SweepDone, Sweeping, Commits, Committing, Promises, NoPromise,
                        tables, saved
  <2>7. ASSUME NEW w \in Workers, NEW e \in Events, InsertExecute(w, e)
        PROVE  StoreTypeOK'
    BY <2>7 DEF InsertExecute, Commits, Committing, Promises, NoPromise, saved
  <2>8. ASSUME NEW w \in Workers, Commit(w)
        PROVE  StoreTypeOK'
    <3>1. op[w] \in Committing
      BY <2>8 DEF Commit, Idle, Resolving, Sweeping, Committing
    <3> QED
      BY <2>8, <3>1 DEF Commit, Committing, Promises, Both, tables
  <2>9. CASE Crash
    BY <2>9 DEF Crash, saved
  <2>10. CASE UNCHANGED storeVars
    BY <2>10 DEF storeVars
  <2> QED
    BY <2>1, <2>2, <2>3, <2>4, <2>5, <2>6, <2>7, <2>8, <2>9, <2>10 DEF StoreNext, StoreStep
<1> QED
  BY <1>1, <1>2, PTL DEF StoreSpec

-----------------------------------------------------------------------------
(***************************************************************************)
(* The inductive invariant.  The properties alone are not inductive: that  *)
(* a commit makes what it promised durable needs every promise still held  *)
(* by a worker to be true of the tables (OpSound), and that the file only  *)
(* moves forward needs the tables to be ahead of the file.                 *)
(***************************************************************************)

\* What worker w's place in a method says of the tables.
OpSound(w) ==
  /\ op[w].pc = "resolve" => outcomes[op[w].id] # NoRow
  /\ op[w].pc = "sweep" =>
       /\ \A id \in op[w].due :
            outcomes[id] # NoRow /\ op[w].at >= outcomes[id].opened_at + outcomes[id].window
       /\ \A id \in op[w].swept : outcomes[id].status \in RESOLVED_STATUSES
  /\ op[w].pc = "commit" => Kept(op[w].promise, outcomes, events)

\* The tables are the file plus statements not yet committed.
TablesAhead ==
  /\ \A id \in OutcomeIds : Follows(outcomes[id], savedOutcomes[id])
  /\ savedEvents \subseteq events

SavedCoherent ==
  \A id \in OutcomeIds : savedOutcomes[id] # NoRow => Coherent(savedOutcomes[id])

StoreInv ==
  /\ RowsCoherent
  /\ SavedCoherent
  /\ TablesAhead
  /\ \A w \in Workers : OpSound(w)
  /\ ReturnedIsDurable

\* A worker's step moves the tables forward and never breaks a row.
TablesForward ==
  /\ \A id \in OutcomeIds : Follows(outcomes'[id], outcomes[id])
  /\ events \subseteq events'
  /\ RowsCoherent'

(* Follows is reflexive and transitive.                                    *)
LEMMA FollowsOrder ==
  /\ \A a : Follows(a, a)
  /\ \A a, b, c : Follows(a, b) /\ Follows(b, c) => Follows(a, c)
BY DEF Follows

(* Rows of the table are not the absent row.                               *)
LEMMA RowStatus ==
  /\ NoRow \notin Rows
  /\ \A o \in Rows : o.status # PENDING <=> o.status \in RESOLVED_STATUSES
BY DEF NoRow, Rows, PENDING, RESOLVED_STATUSES, SUCCEEDED, FAILED, ABANDONED

(* A promise kept by the tables is still kept after any forward step.      *)
LEMMA KeptForward ==
  ASSUME StoreTypeOK, StoreTypeOK', TablesForward, NEW p \in Promises,
         Kept(p, outcomes, events)
  PROVE  Kept(p, outcomes', events')
<1>1. p.events \subseteq events'
  BY DEF Kept, TablesForward
<1>2. ASSUME NEW id \in p.opened
      PROVE  outcomes'[id] # NoRow
  BY <1>2 DEF Kept, TablesForward, Follows, Promises
<1>3. ASSUME NEW id \in p.resolved
      PROVE  outcomes'[id].status \in RESOLVED_STATUSES
  <2>1. id \in OutcomeIds /\ outcomes[id].status \in RESOLVED_STATUSES
    BY DEF Kept, Promises
  <2>2. outcomes[id] # NoRow /\ outcomes[id].status # PENDING
    BY <2>1 DEF NoRow, RESOLVED_STATUSES, SUCCEEDED, FAILED, ABANDONED, PENDING
  <2>3. outcomes'[id] # NoRow /\ outcomes'[id].status # PENDING
    BY <2>1, <2>2 DEF TablesForward, Follows
  <2> QED
    BY <2>1, <2>3, RowStatus DEF StoreTypeOK
<1> QED
  BY <1>1, <1>2, <1>3 DEF Kept

(* What a worker's place says of the tables survives the forward steps of  *)
(* the other workers: this is where the interleavings are.                 *)
LEMMA OpSoundForward ==
  ASSUME StoreTypeOK, StoreTypeOK', TablesForward, NEW w \in Workers,
         op'[w] = op[w], OpSound(w)
  PROVE  OpSound(w)'
<1>1. ASSUME op[w].pc = "resolve"
      PROVE  outcomes'[op[w].id] # NoRow
  <2>1. op[w] \in Resolving
    BY <1>1 DEF StoreTypeOK, Idle, Resolving, Sweeping, Committing
  <2> QED
    BY <1>1, <2>1 DEF OpSound, TablesForward, Follows, Resolving
<1>2. ASSUME op[w].pc = "sweep"
      PROVE  /\ \A id \in op[w].due :
                  /\ outcomes'[id] # NoRow
                  /\ op[w].at >= outcomes'[id].opened_at + outcomes'[id].window
             /\ \A id \in op[w].swept : outcomes'[id].status \in RESOLVED_STATUSES
  <2>1. op[w] \in Sweeping
    BY <1>2 DEF StoreTypeOK, Idle, Resolving, Sweeping, Committing
  <2>2. ASSUME NEW id \in op[w].due
        PROVE  /\ outcomes'[id] # NoRow
               /\ op[w].at >= outcomes'[id].opened_at + outcomes'[id].window
    BY <1>2, <2>1 DEF OpSound, TablesForward, Follows, Sweeping
  <2>3. ASSUME NEW id \in op[w].swept
        PROVE  outcomes'[id].status \in RESOLVED_STATUSES
    <3>1. id \in OutcomeIds /\ outcomes[id].status \in RESOLVED_STATUSES
      BY <1>2, <2>1 DEF OpSound, Sweeping
    <3>2. outcomes[id] # NoRow /\ outcomes[id].status # PENDING
      BY <3>1 DEF NoRow, RESOLVED_STATUSES, SUCCEEDED, FAILED, ABANDONED, PENDING
    <3>3. outcomes'[id] # NoRow /\ outcomes'[id].status # PENDING
      BY <3>1, <3>2 DEF TablesForward, Follows
    <3> QED
      BY <3>1, <3>3, RowStatus DEF StoreTypeOK
  <2> QED
    BY <2>2, <2>3
<1>3. ASSUME op[w].pc = "commit"
      PROVE  Kept(op[w].promise, outcomes', events')
  <2>1. op[w].promise \in Promises
    BY <1>3 DEF StoreTypeOK, Idle, Resolving, Sweeping, Committing
  <2> QED
    BY <1>3, <2>1, KeptForward DEF OpSound
<1> QED
  BY <1>1, <1>2, <1>3 DEF OpSound

(* The unguarded UPDATE moves the tables forward whatever the row's        *)
(* present status, provided an abandonment comes past the window.          *)
LEMMA UpdateForward ==
  ASSUME StoreTypeOK, RowsCoherent, UNCHANGED events,
         NEW id \in OutcomeIds, NEW status \in RESOLVED_STATUSES, NEW at \in Times,
         outcomes[id] # NoRow,
         status = ABANDONED => at >= outcomes[id].opened_at + outcomes[id].window,
         Update(id, status, at)
  PROVE  TablesForward /\ outcomes'[id].status = status
<1>1. outcomes[id] \in Rows
  BY DEF StoreTypeOK
<1>2. /\ outcomes'[id] = Resolution(outcomes[id], status, at)
      /\ \A i \in OutcomeIds : i # id => outcomes'[i] = outcomes[i]
  BY UpdateShape DEF StoreTypeOK
<1>3. /\ outcomes'[id] \in Rows
      /\ outcomes'[id].opened_at = outcomes[id].opened_at
      /\ outcomes'[id].window = outcomes[id].window
      /\ outcomes'[id].status = status
      /\ outcomes'[id].resolved_at = at
  BY <1>1, <1>2, ResolutionShape
<1>4. Coherent(outcomes'[id])
  BY <1>3 DEF Coherent, RESOLVED_STATUSES, PENDING, SUCCEEDED, FAILED, ABANDONED, Null
<1>5. Follows(outcomes'[id], outcomes[id])
  BY <1>3, RowStatus DEF Follows
<1> QED
  BY <1>2, <1>3, <1>4, <1>5, FollowsOrder DEF TablesForward, RowsCoherent

(* A step of worker w that leaves the file and the promises alone, moves   *)
(* the tables forward and is sound for w itself, preserves the invariant.  *)
LEMMA WorkerStep ==
  ASSUME StoreTypeOK, StoreTypeOK', StoreInv, NEW w \in Workers,
         UNCHANGED <<savedOutcomes, savedEvents, returned>>,
         \A v \in Workers \ {w} : op'[v] = op[v],
         TablesForward, OpSound(w)'
  PROVE  StoreInv'
<1>1. SavedCoherent'
  BY DEF StoreInv, SavedCoherent
<1>2. TablesAhead'
  BY FollowsOrder DEF StoreInv, TablesAhead, TablesForward
<1>3. \A v \in Workers : OpSound(v)'
  BY OpSoundForward DEF StoreInv
<1>4. ReturnedIsDurable'
  BY DEF StoreInv, ReturnedIsDurable, Kept
<1> QED
  BY <1>1, <1>2, <1>3, <1>4 DEF StoreInv, TablesForward

(* Every step of StoreSpec preserves the invariant.                        *)
LEMMA StoreInvStep ==
  ASSUME StoreTypeOK, StoreTypeOK', StoreInv, [StoreNext]_storeVars
  PROVE  StoreInv'
<1> USE DEF StoreTypeOK
<1>0. UNCHANGED tables => TablesForward
  BY FollowsOrder DEF tables, TablesForward, StoreInv, RowsCoherent
<1>1. ASSUME NEW w \in Workers, NEW id \in OutcomeIds, NEW t \in Times, NEW win \in Windows,
             OpenExecute(w, id, t, win)
      PROVE  StoreInv'
  <2>1. /\ outcomes'[id] # NoRow
        /\ outcomes[id] = NoRow => outcomes'[id] = NewOutcome(t, win)
        /\ outcomes[id] # NoRow => outcomes'[id] = outcomes[id]
        /\ \A i \in OutcomeIds : i # id => outcomes'[i] = outcomes[i]
    BY <1>1 DEF OpenExecute, NewOutcome, NoRow, PENDING
  <2>2. Coherent(NewOutcome(t, win))
    BY DEF Coherent, NewOutcome, PENDING, ABANDONED
  <2>3. TablesForward
    BY <1>1, <2>1, <2>2, FollowsOrder
       DEF OpenExecute, TablesForward, Follows, RowsCoherent, StoreInv
  <2>4. OpSound(w)'
    BY <1>1, <2>1 DEF OpenExecute, OpSound, Commits, Kept, NoPromise
  <2> QED
    BY <1>1, <2>3, <2>4, WorkerStep DEF OpenExecute, saved
<1>2. ASSUME NEW w \in Workers, NEW id \in OutcomeIds, NEW status \in OwnerStatuses,
             NEW at \in Times, ResolveRead(w, id, status, at)
      PROVE  StoreInv'
  <2>1. OpSound(w)'
    BY <1>2 DEF ResolveRead, OpSound, tables
  <2> QED
    BY <1>0, <1>2, <2>1, WorkerStep DEF ResolveRead, saved
<1>3. ASSUME NEW w \in Workers, ResolveUpdate(w)
      PROVE  StoreInv'
  <2>1. op[w] \in Resolving
    BY <1>3 DEF ResolveUpdate, Idle, Resolving, Sweeping, Committing
  <2>2. /\ op[w].id \in OutcomeIds
        /\ op[w].status \in RESOLVED_STATUSES \ {ABANDONED}
        /\ op[w].at \in Times
    BY <2>1 DEF Resolving, OwnerStatuses, RESOLVED_STATUSES, SUCCEEDED, FAILED, ABANDONED
  <2>3. TablesForward /\ outcomes'[op[w].id].status = op[w].status
    BY <1>3, <2>2, UpdateForward DEF ResolveUpdate, OpSound, StoreInv
  <2>4. OpSound(w)'
    BY <1>3, <2>2, <2>3 DEF ResolveUpdate, OpSound, Commits, Kept, NoPromise
  <2> QED
    BY <1>3, <2>3, <2>4, WorkerStep DEF ResolveUpdate, saved
<1>4. ASSUME NEW w \in Workers, NEW at \in Times, SweepRead(w, at)
      PROVE  StoreInv'
  <2>1. \A id \in OutcomeIds : IsPastResolutionWindow(outcomes[id], at) =>
          outcomes[id] # NoRow /\ at >= outcomes[id].opened_at + outcomes[id].window
    BY DEF IsPastResolutionWindow, NoRow, PENDING
  <2>2. OpSound(w)'
    BY <1>4, <2>1 DEF SweepRead, OpSound, tables
  <2> QED
    BY <1>0, <1>4, <2>2, WorkerStep DEF SweepRead, saved
<1>5. ASSUME NEW w \in Workers, NEW id \in OutcomeIds, SweepUpdate(w, id)
      PROVE  StoreInv'
  <2>1. op[w] \in Sweeping
    BY <1>5 DEF SweepUpdate, Idle, Resolving, Sweeping, Committing
  <2>2. /\ outcomes[id] # NoRow
        /\ op[w].at >= outcomes[id].opened_at + outcomes[id].window
        /\ op[w].at \in Times
    BY <1>5, <2>1 DEF SweepUpdate, StoreInv, OpSound, Sweeping
  <2>3. TablesForward /\ outcomes'[id].status = ABANDONED
    BY <1>5, <2>2, UpdateForward DEF SweepUpdate, StoreInv, RESOLVED_STATUSES
  <2>4. /\ op'[w].pc = "sweep"
        /\ op'[w].at = op[w].at
        /\ op'[w].due = op[w].due \ {id}
        /\ op'[w].swept = op[w].swept \cup {id}
    BY <1>5, <2>1 DEF SweepUpdate, Sweeping
  <2>5. ASSUME NEW i \in op'[w].due
        PROVE  /\ outcomes'[i] # NoRow
               /\ op'[w].at >= outcomes'[i].opened_at + outcomes'[i].window
    BY <1>5, <2>1, <2>3, <2>4 DEF SweepUpdate, StoreInv, OpSound, TablesForward, Follows, Sweeping
  <2>6. ASSUME NEW i \in op'[w].swept
        PROVE  outcomes'[i].status \in RESOLVED_STATUSES
    <3>1. CASE i = id
      BY <2>3, <3>1 DEF RESOLVED_STATUSES
    <3>2. CASE i # id
      <4>1. i \in OutcomeIds /\ outcomes[i].status \in RESOLVED_STATUSES
        BY <1>5, <2>1, <2>4, <3>2 DEF SweepUpdate, StoreInv, OpSound, Sweeping
      <4> QED
        BY <1>5, <2>1, <2>2, <3>2, <4>1, UpdateShape DEF SweepUpdate, RESOLVED_STATUSES
    <3> QED
      BY <3>1, <3>2
  <2>7. OpSound(w)'
    BY <2>4, <2>5, <2>6 DEF OpSound
  <2> QED
    BY <1>5, <2>3, <2>7, WorkerStep DEF SweepUpdate, saved
<1>6. ASSUME NEW w \in Workers, SweepDone(w)
      PROVE  StoreInv'
  <2>1. OpSound(w)'
    BY <1>6 DEF SweepDone, OpSound, StoreInv, Commits, Kept, NoPromise, tables
  <2> QED
    BY <1>0, <1>6, <2>1, WorkerStep DEF SweepDone, saved
<1>7. ASSUME NEW w \in Workers, NEW e \in Events, InsertExecute(w, e)
      PROVE  StoreInv'
  <2>1. TablesForward
    BY <1>7, FollowsOrder DEF InsertExecute, TablesForward, StoreInv, RowsCoherent
  <2>2. OpSound(w)'
    BY <1>7 DEF InsertExecute, OpSound, Commits, Kept, NoPromise
  <2> QED
    BY <1>7, <2>1, <2>2, WorkerStep DEF InsertExecute, saved
<1>8. ASSUME NEW w \in Workers, Commit(w)
      PROVE  StoreInv'
  <2>1. Kept(op[w].promise, outcomes, events)
    BY <1>8 DEF Commit, StoreInv, OpSound
  <2>2. op[w].promise \in Promises
    BY <1>8 DEF Commit, Idle, Resolving, Sweeping, Committing
  <2>3. RowsCoherent' /\ SavedCoherent'
    BY <1>8 DEF Commit, StoreInv, RowsCoherent, SavedCoherent, tables
  <2>4. TablesAhead'
    BY <1>8, FollowsOrder DEF Commit, StoreInv, TablesAhead, tables
  <2>5. \A v \in Workers : OpSound(v)'
    BY <1>8 DEF Commit, StoreInv, OpSound, Kept, Idle, tables
  <2>6. ASSUME Persistent
        PROVE  Kept(returned', savedOutcomes', savedEvents')
    <3>1. Kept(returned, savedOutcomes, savedEvents)
      BY <2>6 DEF StoreInv, ReturnedIsDurable
    <3>2. Kept(returned, outcomes, events)
      <4>1. returned.events \subseteq events
        BY <3>1 DEF Kept, StoreInv, TablesAhead
      <4>2. ASSUME NEW id \in returned.opened
            PROVE  outcomes[id] # NoRow
        BY <3>1 DEF Kept, StoreInv, TablesAhead, Follows, Promises
      <4>3. ASSUME NEW id \in returned.resolved
            PROVE  outcomes[id].status \in RESOLVED_STATUSES
        <5>1. id \in OutcomeIds /\ savedOutcomes[id].status \in RESOLVED_STATUSES
          BY <3>1 DEF Kept, Promises
        <5>2. savedOutcomes[id] # NoRow /\ savedOutcomes[id].status # PENDING
          BY <5>1 DEF NoRow, RESOLVED_STATUSES, SUCCEEDED, FAILED, ABANDONED, PENDING
        <5>3. outcomes[id] # NoRow /\ outcomes[id].status # PENDING
          BY <5>1, <5>2 DEF StoreInv, TablesAhead, Follows
        <5> QED
          BY <5>1, <5>3, RowStatus
      <4> QED
        BY <4>1, <4>2, <4>3 DEF Kept
    <3> QED
      BY <1>8, <2>1, <2>6, <3>2 DEF Commit, Both, Kept
  <2> QED
    BY <2>3, <2>4, <2>5, <2>6 DEF StoreInv, ReturnedIsDurable
<1>9. CASE Crash
  <2>1. RowsCoherent' /\ SavedCoherent'
    BY <1>9 DEF Crash, StoreInv, RowsCoherent, SavedCoherent, saved
  <2>2. TablesAhead'
    BY <1>9, FollowsOrder DEF Crash, TablesAhead, saved
  <2>3. \A v \in Workers : OpSound(v)'
    BY <1>9 DEF Crash, OpSound, Idle
  <2>4. ReturnedIsDurable'
    BY <1>9 DEF Crash, StoreInv, ReturnedIsDurable, Kept, saved
  <2> QED
    BY <2>1, <2>2, <2>3, <2>4 DEF StoreInv
<1>10. CASE UNCHANGED storeVars
  BY <1>10 DEF storeVars, StoreInv, RowsCoherent, SavedCoherent, TablesAhead, OpSound, Kept,
               ReturnedIsDurable
<1> QED
  BY <1>1, <1>2, <1>3, <1>4, <1>5, <1>6, <1>7, <1>8, <1>9, <1>10 DEF StoreNext, StoreStep

(* The invariant holds of every behaviour of the store.                    *)
THEOREM StoreInvariant == StoreSpec => []StoreInv
<1>1. StoreInit => StoreInv
  BY FollowsOrder DEF StoreInit, StoreInv, RowsCoherent, SavedCoherent, TablesAhead, OpSound,
     ReturnedIsDurable, Kept, NoPromise, Idle
<1>2. StoreTypeOK /\ StoreTypeOK' /\ StoreInv /\ [StoreNext]_storeVars => StoreInv'
  BY StoreInvStep
<1> QED
  BY <1>1, <1>2, StoreTypeCorrect, PTL DEF StoreSpec

-----------------------------------------------------------------------------
(* Whatever resolves and sweeps race on one outcome, its row never mixes   *)
(* two resolutions (store.py:92-117).                                      *)
THEOREM RowsStayCoherent == StoreSpec => []RowsCoherent
BY StoreInvariant, PTL DEF StoreInv

(* A store method that returned is in the database file, although the      *)
(* commit belongs to a connection every worker shares (store.py:73-146).   *)
THEOREM ReturnedStaysDurable == StoreSpec => []ReturnedIsDurable
BY StoreInvariant, PTL DEF StoreInv

(* Nothing a restart would find is ever taken back: no durable outcome is  *)
(* reopened, moved or lost, and no durable event is lost.                  *)
THEOREM DurableOnlyGrows == StoreSpec => DurableNeverReopens
<1>1. ASSUME StoreTypeOK, StoreInv, [StoreNext]_storeVars
      PROVE  /\ \A id \in OutcomeIds : Follows(savedOutcomes'[id], savedOutcomes[id])
             /\ savedEvents \subseteq savedEvents'
  <2>1. CASE UNCHANGED saved
    BY <2>1, FollowsOrder DEF saved
  <2>2. ASSUME NEW w \in Workers, Commit(w)
        PROVE  /\ \A id \in OutcomeIds : Follows(savedOutcomes'[id], savedOutcomes[id])
               /\ savedEvents \subseteq savedEvents'
    BY <1>1, <2>2, FollowsOrder DEF Commit, StoreInv, TablesAhead
  <2> QED
    BY <1>1, <2>1, <2>2
       DEF StoreNext, StoreStep, OpenExecute, ResolveRead, ResolveUpdate, SweepRead,
           SweepUpdate, SweepDone, InsertExecute, Crash, storeVars, saved, tables
<1> QED
  BY <1>1, StoreTypeCorrect, StoreInvariant, PTL DEF StoreSpec, DurableNeverReopens

-----------------------------------------------------------------------------
(***************************************************************************)
(* One worker: the store implements OutcomeContract.  The only worker's    *)
(* place determines how far the tables are ahead of the file: not at all   *)
(* outside a method, by the rows already updated inside a sweep, by one    *)
(* whole step of the contract before a commit.                             *)
(***************************************************************************)

\* `rows' is one contract step (or none) after `before'.
OneContractStep(before, rows) ==
  \/ rows = before
  \/ \E id \in OutcomeIds, t \in Times, win \in Windows :
       before[id] = NoRow /\ rows = [before EXCEPT ![id] = NewOutcome(t, win)]
  \/ \E id \in OutcomeIds, status \in OwnerStatuses, at \in Times :
       /\ CanResolve(before[id], status)
       /\ rows = [before EXCEPT ![id] = Resolution(@, status, at)]
  \/ \E at \in Times :
       rows = [id \in OutcomeIds |-> IF IsPastResolutionWindow(before[id], at)
                                       THEN Resolution(before[id], ABANDONED, at)
                                       ELSE before[id]]

AloneInv ==
  \A w \in Workers :
    /\ op[w].pc = "idle" => outcomes = savedOutcomes
    /\ op[w].pc = "resolve" =>
         outcomes = savedOutcomes /\ CanResolve(outcomes[op[w].id], op[w].status)
    /\ op[w].pc = "sweep" =>
         /\ op[w].due \cup op[w].swept =
              {id \in OutcomeIds : IsPastResolutionWindow(savedOutcomes[id], op[w].at)}
         /\ op[w].due \cap op[w].swept = {}
         /\ \A id \in OutcomeIds :
              outcomes[id] = IF id \in op[w].swept
                               THEN Resolution(savedOutcomes[id], ABANDONED, op[w].at)
                               ELSE savedOutcomes[id]
    /\ op[w].pc = "commit" => OneContractStep(savedOutcomes, outcomes)

Alone == Persistent /\ \A v, w \in Workers : v = w

(* A lone worker keeps AloneInv.                                           *)
LEMMA AloneStep ==
  ASSUME Alone, StoreTypeOK, StoreTypeOK', AloneInv, [StoreNext]_storeVars
  PROVE  AloneInv'
<1> USE DEF StoreTypeOK
<1>1. ASSUME NEW w \in Workers, NEW id \in OutcomeIds, NEW t \in Times, NEW win \in Windows,
             OpenExecute(w, id, t, win)
      PROVE  AloneInv'
  <2>1. outcomes = savedOutcomes
    BY <1>1 DEF OpenExecute, AloneInv, Idle
  <2>2. OneContractStep(savedOutcomes', outcomes')
    BY <1>1, <2>1 DEF OpenExecute, OneContractStep, saved
  <2> QED
    BY <1>1, <2>2 DEF OpenExecute, AloneInv, Alone, Commits
<1>2. ASSUME NEW w \in Workers, NEW id \in OutcomeIds, NEW status \in OwnerStatuses,
             NEW at \in Times, ResolveRead(w, id, status, at)
      PROVE  AloneInv'
  BY <1>2 DEF ResolveRead, AloneInv, Alone, Idle, tables, saved
<1>3. ASSUME NEW w \in Workers, ResolveUpdate(w)
      PROVE  AloneInv'
  <2>1. op[w] \in Resolving
    BY <1>3 DEF ResolveUpdate, Idle, Resolving, Sweeping, Committing
  <2>2. outcomes = savedOutcomes /\ CanResolve(outcomes[op[w].id], op[w].status)
    BY <1>3 DEF ResolveUpdate, AloneInv
  <2>3. outcomes[op[w].id] # NoRow
    BY <2>2 DEF CanResolve, NoRow, PENDING
  <2>4. OneContractStep(savedOutcomes', outcomes')
    BY <1>3, <2>1, <2>2, <2>3 DEF ResolveUpdate, Update, OneContractStep, Resolving, saved
  <2> QED
    BY <1>3, <2>4 DEF ResolveUpdate, AloneInv, Alone, Commits
<1>4. ASSUME NEW w \in Workers, NEW at \in Times, SweepRead(w, at)
      PROVE  AloneInv'
  BY <1>4 DEF SweepRead, AloneInv, Alone, Idle, tables, saved
<1>5. ASSUME NEW w \in Workers, NEW id \in OutcomeIds, SweepUpdate(w, id)
      PROVE  AloneInv'
  <2>1. op[w] \in Sweeping
    BY <1>5 DEF SweepUpdate, Idle, Resolving, Sweeping, Committing
  <2>2. /\ op'[w].pc = "sweep"
        /\ op'[w].at = op[w].at
        /\ op'[w].due = op[w].due \ {id}
        /\ op'[w].swept = op[w].swept \cup {id}
    BY <1>5, <2>1 DEF SweepUpdate, Sweeping
  <2>3. /\ id \in op[w].due /\ id \notin op[w].swept
        /\ IsPastResolutionWindow(savedOutcomes[id], op[w].at)
        /\ outcomes[id] = savedOutcomes[id]
    BY <1>5 DEF SweepUpdate, AloneInv
  <2>4. outcomes[id] # NoRow /\ ABANDONED \in RESOLVED_STATUSES /\ op[w].at \in Times
    BY <2>1, <2>3 DEF IsPastResolutionWindow, NoRow, PENDING, RESOLVED_STATUSES, Sweeping
  <2>5. \A i \in OutcomeIds :
          outcomes'[i] = IF i = id THEN Resolution(outcomes[i], ABANDONED, op[w].at)
                         ELSE outcomes[i]
    BY <1>5, <2>4, UpdateShape DEF SweepUpdate
  <2>6. \A i \in OutcomeIds :
          outcomes'[i] = IF i \in op'[w].swept
                           THEN Resolution(savedOutcomes[i], ABANDONED, op[w].at)
                           ELSE savedOutcomes[i]
    BY <1>5, <2>2, <2>3, <2>5 DEF SweepUpdate, AloneInv
  <2>7. savedOutcomes' = savedOutcomes
    BY <1>5 DEF SweepUpdate, saved
  <2>8. /\ op'[w].due \cup op'[w].swept =
             {i \in OutcomeIds : IsPastResolutionWindow(savedOutcomes[i], op[w].at)}
        /\ op'[w].due \cap op'[w].swept = {}
    BY <1>5, <2>2, <2>3 DEF SweepUpdate, AloneInv
  <2> QED
    BY <2>2, <2>6, <2>7, <2>8 DEF AloneInv, Alone
<1>6. ASSUME NEW w \in Workers, SweepDone(w)
      PROVE  AloneInv'
  <2>1. op[w] \in Sweeping
    BY <1>6 DEF SweepDone, Idle, Resolving, Sweeping, Committing
  <2>2. \A id \in OutcomeIds :
          outcomes[id] = IF IsPastResolutionWindow(savedOutcomes[id], op[w].at)
                           THEN Resolution(savedOutcomes[id], ABANDONED, op[w].at)
                           ELSE savedOutcomes[id]
    BY <1>6 DEF SweepDone, AloneInv
  <2>3. outcomes = [id \in OutcomeIds |->
                      IF IsPastResolutionWindow(savedOutcomes[id], op[w].at)
                        THEN Resolution(savedOutcomes[id], ABANDONED, op[w].at)
                        ELSE savedOutcomes[id]]
    BY <2>2
  <2>4. OneContractStep(savedOutcomes, outcomes)
    BY <2>1, <2>3 DEF OneContractStep, Sweeping
  <2> QED
    BY <1>6, <2>4 DEF SweepDone, AloneInv, Alone, Commits, tables, saved
<1>7. ASSUME NEW w \in Workers, NEW e \in Events, InsertExecute(w, e)
      PROVE  AloneInv'
  BY <1>7 DEF InsertExecute, AloneInv, Alone, Idle, Commits, OneContractStep, saved
<1>8. ASSUME NEW w \in Workers, Commit(w)
      PROVE  AloneInv'
  BY <1>8 DEF Commit, AloneInv, Alone, Idle, tables
<1>9. CASE Crash
  BY <1>9 DEF Crash, AloneInv, Idle, saved
<1>10. CASE UNCHANGED storeVars
  BY <1>10 DEF storeVars, AloneInv, OneContractStep
<1> QED
  BY <1>1, <1>2, <1>3, <1>4, <1>5, <1>6, <1>7, <1>8, <1>9, <1>10 DEF StoreNext, StoreStep

(* With one worker and a database file, the durable outcomes implement the *)
(* outcome contract: every method is one atomic step of it, taken at its   *)
(* commit, and a crash before the commit is no step at all.                *)
THEOREM OneWorkerImplementsContract ==
  ASSUME Alone
  PROVE  StoreSpec => ImplementsContract
<1>1. StoreInit => Contract!Init /\ AloneInv
  BY DEF StoreInit, Contract!Init, AloneInv, Idle, NoRow, Null, Contract!NoRow, Contract!Null
<1>2. StoreTypeOK /\ StoreTypeOK' /\ AloneInv /\ [StoreNext]_storeVars => AloneInv'
  BY Alone, AloneStep
<1>3. StoreTypeOK /\ AloneInv /\ [StoreNext]_storeVars => [Contract!Next]_savedOutcomes
  <2> SUFFICES ASSUME StoreTypeOK, AloneInv, [StoreNext]_storeVars
               PROVE  [Contract!Next]_savedOutcomes
    OBVIOUS
  <2>1. CASE UNCHANGED saved
    BY <2>1 DEF saved
  <2>2. ASSUME NEW w \in Workers, Commit(w)
        PROVE  [Contract!Next]_savedOutcomes
    <3>1. OneContractStep(savedOutcomes, savedOutcomes')
      BY <2>2 DEF Commit, Alone, AloneInv
    <3> QED
      BY <3>1 DEF OneContractStep, Contract!Next, Contract!Open, Contract!Resolve, Contract!Sweep,
         NoRow, NewOutcome, Resolution, CanResolve, IsPastResolutionWindow, OwnerStatuses,
         Null, PENDING, SUCCEEDED, FAILED, ABANDONED,
         Contract!NoRow, Contract!NewOutcome, Contract!Resolution, Contract!CanResolve,
         Contract!IsPastResolutionWindow, Contract!OwnerStatuses, Contract!Null,
         Contract!PENDING, Contract!SUCCEEDED, Contract!FAILED, Contract!ABANDONED
  <2> QED
    BY <2>1, <2>2
       DEF StoreNext, StoreStep, OpenExecute, ResolveRead, ResolveUpdate, SweepRead,
           SweepUpdate, SweepDone, InsertExecute, Crash, storeVars, saved, tables
<1> QED
  BY <1>1, <1>2, <1>3, StoreTypeCorrect, PTL DEF StoreSpec, ImplementsContract, Contract!Spec

=============================================================================
