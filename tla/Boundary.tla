------------------------------ MODULE Boundary ------------------------------
(***************************************************************************)
(* costkit/boundary.py: InstrumentationBoundary.call as the steps between  *)
(* which other threads run, over the store (CostStore) and the rate table  *)
(* (Pricing) it shares with them.                                          *)
(*                                                                         *)
(*   1 context.current() and the rate lookup    BeginCall                  *)
(*   2 the model call; the cost is computed and the CostEvent constructed  *)
(*     with no other thread involved            ModelCall, ModelRefuses    *)
(*   3 the INSERT                               InsertEvent                *)
(*   4 the commit; call returns, or raises CallFailedError                 *)
(*                                              EventCommitted             *)
(*                                                                         *)
(* A call that raises anything else (no price basis, overlapping rows, no  *)
(* model profile, an invalid event) has written nothing.                   *)
(*                                                                         *)
(* `billed' and `dropped' are history: the calls the provider charged for, *)
(* by the event_id their event got, and those whose event was invalid or   *)
(* died with the process.                                                  *)
(***************************************************************************)
EXTENDS CostStore, Pricing

CONSTANTS EventIds,     \* the uuid4 values events get
          Attempts,     \* attempt_number arguments callers pass
          Counts,       \* [input, output : Nat], token counts of a call
          Profiles,     \* tiers the model client has a profile for
          SeedRates     \* the rows a starting process adds to its RateTable

UNATTRIBUTED_OUTCOME == "unattributed"
Blank == ""

OK    == "ok"
ERROR == "error"

\* A cache hit serves all of the input; a failed call reports none cached.
Usages == {[input |-> c.input, output |-> c.output, cached |-> IF hit THEN c.input ELSE 0] :
             c \in Counts, hit \in BOOLEAN}

\* What context.current().outcome_id can be: set by the task, never set, or
\* set to the empty string.
OutcomeLabels == OutcomeIds \cup {UNATTRIBUTED_OUTCOME, Blank}

Costs == {ComputeCost([card |-> c], u) : c \in Cards, u \in Usages}

CostEvents == [event_id       : EventIds,
               outcome_id     : OutcomeLabels \ {Blank},
               model_tier     : Tiers,
               attempt_number : Attempts \ {0},
               usage          : Usages,
               price_basis_id : BasisIds,
               computed_cost  : Costs,
               call_status    : {OK, ERROR},
               timestamp      : Instants]

ASSUME BoundaryAssumption ==
  /\ Events = CostEvents
  /\ Attempts \subseteq Nat
  /\ Counts \subseteq [input : Nat, output : Nat]
  /\ Profiles \subseteq Tiers
  /\ SeedRates \in Seq(PriceBases)
  /\ \A i, j \in DOMAIN SeedRates :
       SeedRates[i].price_basis_id = SeedRates[j].price_basis_id => i = j

\* Mutant of IsValid: a blank dimension passes.
IsValidBlank(e) ==
  /\ e.attempt_number >= 1
  /\ e.usage.cached <= e.usage.input
  /\ e.computed_cost >= 0

\* CostEvent.__post_init__ returns.
IsValid(e) ==
  /\ e.attempt_number >= 1
  /\ e.usage.cached <= e.usage.input
  /\ e.computed_cost >= 0
  /\ e.outcome_id # Blank

VARIABLES call,      \* where worker w is inside the boundary
          billed,    \* history
          dropped    \* history

boundaryVars == <<rates, call, billed, dropped>>

NoCall == [pc |-> "none"]

\* After the lookup: the local variables dims, now and basis.
AtModel(oid, tier, attempt, at, basis) ==
  [pc |-> "model", outcome_id |-> oid, model_tier |-> tier, attempt_number |-> attempt,
   timestamp |-> at, basis |-> basis]

WithEvent(pc, e) == [pc |-> pc, event |-> e]

Raised == [pc |-> "raised"]

Calls == {NoCall, Raised}
  \cup [pc : {"model"}, outcome_id : OutcomeLabels, model_tier : Tiers,
        attempt_number : Attempts, timestamp : Instants, basis : PriceBases]
  \cup [pc : {"record", "commit", "done"}, event : CostEvents]

\* The event of a call `c' whose model call ended with `status'.
EventOf(c, eid, status, usage) ==
  [event_id       |-> eid,
   outcome_id     |-> c.outcome_id,
   model_tier     |-> c.model_tier,
   attempt_number |-> c.attempt_number,
   usage          |-> usage,
   price_basis_id |-> c.basis.price_basis_id,
   computed_cost  |-> ComputeCost(c.basis, usage),
   call_status    |-> status,
   timestamp      |-> c.timestamp]

\* The ids of the events in the table, of those about to be inserted, and of
\* those inserted but not yet in the file.
Recorded == {e.event_id : e \in events}
InFlight == {call[w].event.event_id : w \in {v \in Workers : call[v].pc = "record"}}
Uncommitted ==
  {call[w].event.event_id :
     w \in {v \in Workers : call[v].pc = "commit" /\ call[v].event \notin savedEvents}}

-----------------------------------------------------------------------------
BoundaryInit ==
  /\ StoreInit
  /\ rates = SeedRates
  /\ call = [w \in Workers |-> NoCall]
  /\ billed = {}
  /\ dropped = {}

\* dims, now, and lookup before anything is written: it raises out of call.
BeginCall(w, oid, tier, attempt, at) ==
  /\ call[w] = NoCall
  /\ op[w] = Idle
  /\ call' = [call EXCEPT ![w] =
                IF CanLookup(rates, tier, at)
                  THEN AtModel(oid, tier, attempt, at, Lookup(rates, tier, at))
                  ELSE Raised]
  /\ UNCHANGED <<storeVars, rates, billed, dropped>>

\* The model answers (OK) or raises ModelCallError (ERROR); either way the
\* call is charged, and priced with the row looked up before it.
ModelCall(w, eid, status, usage) ==
  /\ call[w].pc = "model"
  /\ call[w].model_tier \in Profiles
  /\ eid \notin billed
  /\ status = ERROR => usage.cached = 0
  /\ billed' = billed \cup {eid}
  /\ LET e == EventOf(call[w], eid, status, usage) IN
       IF IsValid(e)
         THEN /\ call' = [call EXCEPT ![w] = WithEvent("record", e)]
              /\ UNCHANGED dropped
         ELSE /\ call' = [call EXCEPT ![w] = Raised]
              /\ dropped' = dropped \cup {eid}
  /\ UNCHANGED <<storeVars, rates>>

\* No profile for the tier: ValueError, nothing charged.
ModelRefuses(w) ==
  /\ call[w].pc = "model"
  /\ call[w].model_tier \notin Profiles
  /\ call' = [call EXCEPT ![w] = Raised]
  /\ UNCHANGED <<storeVars, rates, billed, dropped>>

\* Mutants of InsertEvent: a failed call is not recorded; the caller goes on
\* before the commit.
InsertOnlyOk(w) ==
  /\ call[w].pc = "record"
  /\ IF call[w].event.call_status = OK
       THEN /\ InsertExecute(w, call[w].event)
            /\ call' = [call EXCEPT ![w].pc = "commit"]
       ELSE /\ call' = [call EXCEPT ![w] = Raised]
            /\ UNCHANGED storeVars
  /\ UNCHANGED <<rates, billed, dropped>>

InsertAndReport(w) ==
  /\ call[w].pc = "record"
  /\ InsertExecute(w, call[w].event)
  /\ call' = [call EXCEPT ![w].pc = "done"]
  /\ UNCHANGED <<rates, billed, dropped>>

InsertEvent(w) ==
  /\ call[w].pc = "record"
  /\ InsertExecute(w, call[w].event)
  /\ call' = [call EXCEPT ![w].pc = "commit"]
  /\ UNCHANGED <<rates, billed, dropped>>

\* call returns a BoundaryResult or raises CallFailedError, by the event's
\* call_status.
EventCommitted(w) ==
  /\ call[w].pc = "commit"
  /\ Commit(w)
  /\ call' = [call EXCEPT ![w].pc = "done"]
  /\ UNCHANGED <<rates, billed, dropped>>

\* The caller goes on.
Return(w) ==
  /\ call[w].pc \in {"done", "raised"}
  /\ call' = [call EXCEPT ![w] = NoCall]
  /\ UNCHANGED <<storeVars, rates, billed, dropped>>

\* A rate is added while calls are made, under a new id as the contract asks.
AddNewRate(b) ==
  /\ Len(rates) < MaxRows
  /\ ~CanGet(rates, b.price_basis_id)
  /\ AddRate(b)
  /\ UNCHANGED <<storeVars, call, billed, dropped>>

\* The rate table is not in the database: a restart has the seed rows.  What
\* may be lost are the calls that have not returned; an in-memory database
\* goes whole.
BoundaryCrash ==
  /\ Crash
  /\ rates' = SeedRates
  /\ call' = [w \in Workers |-> NoCall]
  /\ dropped' = dropped \cup InFlight \cup (IF Persistent THEN Uncommitted ELSE Recorded)
  /\ UNCHANGED billed

CallStep(w) ==
  \/ \E eid \in EventIds, status \in {OK, ERROR}, usage \in Usages :
       ModelCall(w, eid, status, usage)
  \/ ModelRefuses(w)
  \/ InsertEvent(w)
  \/ EventCommitted(w)

\* Callers that call with any arguments.
BoundaryNext ==
  \/ \E w \in Workers :
       \/ \E oid \in OutcomeLabels, tier \in Tiers, attempt \in Attempts, at \in Instants :
            BeginCall(w, oid, tier, attempt, at)
       \/ CallStep(w)
       \/ Return(w)
  \/ \E b \in PriceBases : AddNewRate(b)
  \/ BoundaryCrash

BoundarySpec == BoundaryInit /\ [][BoundaryNext]_<<storeVars, boundaryVars>>

\* A thread outside any call uses the store for itself: it opens, resolves
\* or sweeps outcomes.
Elsewhere(w) ==
  /\ call[w] = NoCall
  /\ \/ \E id \in OutcomeIds, t \in Times, win \in Windows : OpenExecute(w, id, t, win)
     \/ \E id \in OutcomeIds, status \in OwnerStatuses, at \in Times : ResolveRead(w, id, status, at)
     \/ ResolveUpdate(w)
     \/ \E at \in Times : SweepRead(w, at)
     \/ \E id \in OutcomeIds : SweepUpdate(w, id)
     \/ SweepDone(w)
     \/ Commit(w)
  /\ UNCHANGED boundaryVars

\* The process as the boundary meets it: callers with any arguments, and the
\* store's other users on the same connection.  Whatever program is built on
\* the two (Traffic is one) is a refinement of this.
SharedNext == BoundaryNext \/ \E w \in Workers : Elsewhere(w)

SharedSpec == BoundaryInit /\ [][SharedNext]_<<storeVars, boundaryVars>>

\* What eval/run_attribution_reconciliation.py recomputes of an event.
Reconciles(e) ==
  /\ CanGet(rates, e.price_basis_id)
  /\ e.computed_cost = ComputeCost(Get(rates, e.price_basis_id), e.usage)

-----------------------------------------------------------------------------
(* The variables keep their types.                                         *)
BoundaryTypeOK ==
  /\ StoreTypeOK
  /\ RateTypeOK
  /\ call \in [Workers -> Calls]
  /\ billed \subseteq EventIds
  /\ dropped \subseteq EventIds

(* "Exactly one cost event" per call: every call the provider charged for  *)
(* is in the table once, or is about to be inserted by its worker, or was  *)
(* dropped: its event was invalid, or a crash met its call before the      *)
(* commit.  It is never two of these, so a crash takes no event of a call  *)
(* that has returned out of a file; and no event exists that was not       *)
(* billed (boundary.py:1-7, 58-104).                                       *)
BilledIsAccountedFor ==
  /\ billed = Recorded \cup InFlight \cup dropped
  /\ Recorded \cap InFlight = {}
  /\ dropped \cap (Recorded \cup InFlight) = {}
  /\ \A e, f \in events : e.event_id = f.event_id => e = f
  /\ \A v, w \in Workers :
       call[v].pc = "record" /\ call[w].pc = "record" /\ v # w
         => call[v].event.event_id # call[w].event.event_id

(* When the caller learns of a charged call -- a result, or the            *)
(* CallFailedError that makes it retry -- the event is already in the      *)
(* file, and the status the caller sees is the recorded one.               *)
CallerSeesDurableEvent ==
  Persistent => \A w \in Workers : call[w].pc = "done" => call[w].event \in savedEvents

(* cost-event-schema.md:51-53: the cost of an event can be recomputed from *)
(* its other fields and the row its price_basis_id names now, although     *)
(* rates were added since the call looked its row up: the reconciliation   *)
(* drill never sees a drift, whenever it runs.                             *)
CostsAreReproducible ==
  \A e \in events : Reconciles(e) /\ Covers(Get(rates, e.price_basis_id), e.model_tier, e.timestamp)

=============================================================================
