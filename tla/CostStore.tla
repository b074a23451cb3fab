----------------------------- MODULE CostStore -----------------------------
(***************************************************************************)
(* costkit/store.py's writes, one SQLite statement per step.               *)
(*                                                                         *)
(* The store owns ONE sqlite3 connection, opened check_same_thread=False   *)
(* and shared by every thread of the console's pool.  SQLite serialises    *)
(* single statements, nothing serialises methods: a worker may be stopped  *)
(* between the SELECT and the UPDATE of resolve_outcome, or between two    *)
(* UPDATEs of sweep_abandoned, and a commit() on the shared connection     *)
(* makes every worker's executed statements durable, not just its own.     *)
(*                                                                         *)
(*   outcomes, events            the tables as the connection sees them    *)
(*   savedOutcomes, savedEvents  the tables a restart finds in the file    *)
(*   op[w]                       where worker w is inside a store method   *)
(*   returned                    what methods that returned promised       *)
(*                               (history; never read by an action)        *)
(*                                                                         *)
(* A method that raises (KeyError, ValueError, AlreadyResolvedError) does  *)
(* so before its first write and leaves every variable as it was, so a     *)
(* refusal is the absence of a step.  fetchall() is one step.              *)
(***************************************************************************)
EXTENDS Outcome, FiniteSets

CONSTANTS Workers,      \* threads inside the store
          OutcomeIds,
          Events,       \* cost events, told apart by their event_id
          Persistent    \* COST_DB_PATH names a file, not :memory:

ASSUME PersistentAssumption == Persistent \in BOOLEAN

VARIABLES outcomes, events, savedOutcomes, savedEvents, op, returned

tables    == <<outcomes, events>>
saved     == <<savedOutcomes, savedEvents>>
storeVars == <<outcomes, events, savedOutcomes, savedEvents, op, returned>>

-----------------------------------------------------------------------------
(* What a returned method has promised its caller: the events inserted,    *)
(* the outcomes it made sure exist, the outcomes it moved out of pending.  *)
Promises == [events : SUBSET Events, opened : SUBSET OutcomeIds, resolved : SUBSET OutcomeIds]

NoPromise == [events |-> {}, opened |-> {}, resolved |-> {}]

Both(p, q) == [events   |-> p.events \cup q.events,
               opened   |-> p.opened \cup q.opened,
               resolved |-> p.resolved \cup q.resolved]

Idle == [pc |-> "idle"]

\* resolve_outcome between its SELECT and its UPDATE, the local Outcome
\* already resolved: `status' and `at' are what it will write.
Resolving == [pc : {"resolve"}, id : OutcomeIds, status : OwnerStatuses, at : Times]

\* sweep_abandoned with the rows it fetched that are past their window and
\* not yet updated; the others cause no statement.
Sweeping == [pc : {"sweep"}, at : Times, due : SUBSET OutcomeIds, swept : SUBSET OutcomeIds]

\* Any method between its last statement and its commit().
Committing == [pc : {"commit"}, promise : Promises]

Commits(promise) == [pc |-> "commit", promise |-> promise]

\* Mutant of Update: resolved_at is not among the columns set.
UpdateStatusOnly(id, status, at) ==
  outcomes' = IF outcomes[id] = NoRow THEN outcomes
              ELSE [outcomes EXCEPT ![id].status = status]

\* UPDATE outcomes SET status, resolved_at WHERE outcome_id = id.  There is
\* no guard on the row's present status.
Update(id, status, at) ==
  outcomes' = IF outcomes[id] = NoRow THEN outcomes
              ELSE [outcomes EXCEPT ![id] = Resolution(@, status, at)]

-----------------------------------------------------------------------------
\* A process start on an empty database.
StoreInit ==
  /\ outcomes = [id \in OutcomeIds |-> NoRow]
  /\ savedOutcomes = outcomes
  /\ events = {}
  /\ savedEvents = {}
  /\ op = [w \in Workers |-> Idle]
  /\ returned = NoPromise

\* Mutant of OpenExecute: INSERT OR REPLACE.
OpenReplacing(w, id, t, win) ==
  /\ op[w] = Idle
  /\ outcomes' = [outcomes EXCEPT ![id] = NewOutcome(t, win)]
  /\ op' = [op EXCEPT ![w] = Commits([NoPromise EXCEPT !.opened = {id}])]
  /\ UNCHANGED <<events, saved, returned>>

\* open_outcome: INSERT OR IGNORE.
OpenExecute(w, id, t, win) ==
  /\ op[w] = Idle
  /\ outcomes' = IF outcomes[id] = NoRow THEN [outcomes EXCEPT ![id] = NewOutcome(t, win)]
                 ELSE outcomes
  /\ op' = [op EXCEPT ![w] = Commits([NoPromise EXCEPT !.opened = {id}])]
  /\ UNCHANGED <<events, saved, returned>>

\* resolve_outcome: get_outcome and the local resolve() that neither raises.
ResolveRead(w, id, status, at) ==
  /\ op[w] = Idle
  /\ outcomes[id] # NoRow
  /\ CanResolve(outcomes[id], status)
  /\ op' = [op EXCEPT ![w] = [pc |-> "resolve", id |-> id, status |-> status, at |-> at]]
  /\ UNCHANGED <<tables, saved, returned>>

\* resolve_outcome: the UPDATE.
ResolveUpdate(w) ==
  /\ op[w].pc = "resolve"
  /\ Update(op[w].id, op[w].status, op[w].at)
  /\ op' = [op EXCEPT ![w] = Commits([NoPromise EXCEPT !.resolved = {op[w].id}])]
  /\ UNCHANGED <<events, saved, returned>>

\* sweep_abandoned: the SELECT of the pending rows, and the window test on
\* each local copy.
SweepRead(w, at) ==
  /\ op[w] = Idle
  /\ op' = [op EXCEPT ![w] =
              [pc |-> "sweep", at |-> at, swept |-> {},
               due |-> {id \in OutcomeIds : IsPastResolutionWindow(outcomes[id], at)}]]
  /\ UNCHANGED <<tables, saved, returned>>

\* Mutant of SweepUpdate: commits inside the loop.
SweepUpdateCommitting(w, id) ==
  /\ op[w].pc = "sweep"
  /\ id \in op[w].due
  /\ Update(id, ABANDONED, op[w].at)
  /\ savedOutcomes' = outcomes'
  /\ op' = [op EXCEPT ![w].due = @ \ {id}, ![w].swept = @ \cup {id}]
  /\ UNCHANGED <<events, savedEvents, returned>>

\* sweep_abandoned: the UPDATE of one fetched row.
SweepUpdate(w, id) ==
  /\ op[w].pc = "sweep"
  /\ id \in op[w].due
  /\ Update(id, ABANDONED, op[w].at)
  /\ op' = [op EXCEPT ![w].due = @ \ {id}, ![w].swept = @ \cup {id}]
  /\ UNCHANGED <<events, saved, returned>>

\* sweep_abandoned: the loop is over.
SweepDone(w) ==
  /\ op[w].pc = "sweep"
  /\ op[w].due = {}
  /\ op' = [op EXCEPT ![w] = Commits([NoPromise EXCEPT !.resolved = op[w].swept])]
  /\ UNCHANGED <<tables, saved, returned>>

\* Mutant of InsertExecute: returns without a commit.
InsertWithoutCommit(w, e) ==
  /\ op[w] = Idle
  /\ e \notin events
  /\ events' = events \cup {e}
  /\ returned' = [returned EXCEPT !.events = @ \cup {e}]
  /\ UNCHANGED <<outcomes, saved, op>>

\* insert_cost_event: the INSERT; event_id is the primary key.
InsertExecute(w, e) ==
  /\ op[w] = Idle
  /\ e \notin events
  /\ events' = events \cup {e}
  /\ op' = [op EXCEPT ![w] = Commits([NoPromise EXCEPT !.events = {e}])]
  /\ UNCHANGED <<outcomes, saved, returned>>

\* commit() ends each of the four methods.  The connection is shared, so
\* what becomes durable is the tables, with every worker's statements.
Commit(w) ==
  /\ op[w].pc = "commit"
  /\ savedOutcomes' = IF Persistent THEN outcomes ELSE savedOutcomes
  /\ savedEvents' = IF Persistent THEN events ELSE savedEvents
  /\ returned' = Both(returned, op[w].promise)
  /\ op' = [op EXCEPT ![w] = Idle]
  /\ UNCHANGED tables

\* The process dies and starts again on the file: the open transaction is
\* rolled back, every worker is gone.
Crash ==
  /\ outcomes' = savedOutcomes
  /\ events' = savedEvents
  /\ op' = [w \in Workers |-> Idle]
  /\ UNCHANGED <<saved, returned>>

StoreStep(w) ==
  \/ \E id \in OutcomeIds, t \in Times, win \in Windows : OpenExecute(w, id, t, win)
  \/ \E id \in OutcomeIds, status \in OwnerStatuses, at \in Times : ResolveRead(w, id, status, at)
  \/ ResolveUpdate(w)
  \/ \E at \in Times : SweepRead(w, at)
  \/ \E id \in OutcomeIds : SweepUpdate(w, id)
  \/ SweepDone(w)
  \/ \E e \in Events : InsertExecute(w, e)
  \/ Commit(w)

StoreNext == Crash \/ \E w \in Workers : StoreStep(w)

StoreSpec == StoreInit /\ [][StoreNext]_storeVars

-----------------------------------------------------------------------------
(* The variables keep their types: the one type invariant of this module.  *)
StoreTypeOK ==
  /\ outcomes \in [OutcomeIds -> Rows \cup {NoRow}]
  /\ savedOutcomes \in [OutcomeIds -> Rows \cup {NoRow}]
  /\ events \subseteq Events
  /\ savedEvents \subseteq Events
  /\ op \in [Workers -> {Idle} \cup Resolving \cup Sweeping \cup Committing]
  /\ returned \in Promises

\* A row of the outcomes table tells one coherent story.
Coherent(o) ==
  /\ o.status = PENDING <=> o.resolved_at = Null
  /\ o.status = ABANDONED => o.resolved_at >= o.opened_at + o.window

(* Whatever the interleaving of resolves and sweeps on one outcome, its     *)
(* row never mixes two resolutions: resolved_at is null exactly while the  *)
(* outcome is pending, and an abandoned outcome was abandoned only at an   *)
(* instant past its window (store.py:92-117 writes both columns with       *)
(* values computed from one earlier read).                                 *)
RowsCoherent ==
  \A id \in OutcomeIds : outcomes[id] # NoRow => Coherent(outcomes[id])

\* `later' can follow `earlier' in the life of one row.
Follows(later, earlier) ==
  earlier # NoRow =>
    /\ later # NoRow
    /\ later.opened_at = earlier.opened_at
    /\ later.window = earlier.window
    /\ earlier.status # PENDING => later.status # PENDING

(* What a restart would find only moves forward: no interleaving, crash or *)
(* re-open makes a durable outcome disappear, change its opening or become *)
(* pending again, nor a durable event disappear (store.py:73-146).         *)
DurableNeverReopens ==
  [][/\ \A id \in OutcomeIds : Follows(savedOutcomes'[id], savedOutcomes[id])
     /\ savedEvents \subseteq savedEvents']_storeVars

\* Promise p is kept by these tables.
Kept(p, rows, evs) ==
  /\ p.events \subseteq evs
  /\ \A id \in p.opened : rows[id] # NoRow
  /\ \A id \in p.resolved : rows[id].status \in RESOLVED_STATUSES

(* With a database file, a store method that has returned has made its     *)
(* effect durable even though the commit is the shared connection's: the   *)
(* event is in the file, the opened outcome exists there, and the resolved *)
(* or swept outcome is not pending there, whatever crashed since.          *)
ReturnedIsDurable == Persistent => Kept(returned, savedOutcomes, savedEvents)

(* Used by one worker, with a database file, the durable outcomes behave   *)
(* exactly as OutcomeContract: each method is one atomic step of the       *)
(* contract at its commit, and nothing at all if a crash comes first.      *)
Contract == INSTANCE OutcomeContract WITH outcomes <- savedOutcomes
ImplementsContract == Contract!Spec

(* outcome-contract.md:55: "A resolved outcome is immutable -- a task does *)
(* not un-succeed"; outcome.py:28: "An outcome may resolve exactly once."  *)
(* Stated of the durable rows.                                             *)
ResolvedIsImmutable == Contract!ResolvedIsImmutable

=============================================================================
