------------------------------- MODULE Ledger -------------------------------
(***************************************************************************)
(* The two tables as the queries of store.py meet them: events and         *)
(* outcomes arrive in any order, an event may name an outcome that has no  *)
(* row, was resolved before it, or none at all, and each query (Queries)   *)
(* is compared with what the contracts say of its answer.                  *)
(***************************************************************************)
EXTENDS Queries

CONSTANTS OutcomeIds,
          Features,     \* values of the feature dimension, UNKNOWN included
          ModelTiers,   \* values of the model_tier dimension
          CostsOfCalls, \* computed_cost values
          Instants,     \* timestamps
          MaxEvents     \* bound: events a checked ledger may hold

ASSUME LedgerAssumption == CostsOfCalls \subseteq Nat /\ Instants \subseteq Nat /\ MaxEvents \in Nat

Dims == {"feature", "model_tier"}

Labels == OutcomeIds \cup {UNATTRIBUTED}

LedgerEvents == [event_id      : 1 .. MaxEvents,
                 outcome_id    : Labels,
                 feature       : Features,
                 model_tier    : ModelTiers,
                 computed_cost : CostsOfCalls,
                 timestamp     : Instants]

VARIABLES events, status

ledgerVars == <<events, status>>

LedgerInit ==
  /\ events = {}
  /\ status = [id \in Labels |-> NoRow.status]

\* insert_cost_event
RecordEvent(oid, f, m, c, t) ==
  /\ Cardinality(events) < MaxEvents
  /\ events' = events \cup
       {[event_id |-> Cardinality(events) + 1, outcome_id |-> oid, feature |-> f,
         model_tier |-> m, computed_cost |-> c, timestamp |-> t]}
  /\ UNCHANGED status

\* open_outcome
OpenOutcome(id) ==
  /\ status[id] = NoRow.status
  /\ status' = [status EXCEPT ![id] = PENDING]
  /\ UNCHANGED events

\* Mutant of CloseOutcome: str() of the enum member instead of its value.
CloseOutcomeByName(id, s) ==
  /\ status[id] # NoRow.status
  /\ status' = [status EXCEPT ![id] = "OutcomeStatus.SUCCEEDED"]
  /\ UNCHANGED events

\* The UPDATE of resolve_outcome or sweep_abandoned.  The row was pending
\* when the method read it; by now another thread may have resolved it, and
\* the UPDATE tests nothing (CostStore has the two steps).
CloseOutcome(id, s) ==
  /\ status[id] # NoRow.status
  /\ status' = [status EXCEPT ![id] = s]
  /\ UNCHANGED events

LedgerNext ==
  \/ \E oid \in Labels, f \in Features, m \in ModelTiers, c \in CostsOfCalls, t \in Instants :
       RecordEvent(oid, f, m, c, t)
  \/ \E id \in OutcomeIds : OpenOutcome(id)
  \/ \E id \in OutcomeIds, s \in RESOLVED_STATUSES : CloseOutcome(id, s)

LedgerSpec == LedgerInit /\ [][LedgerNext]_ledgerVars

-----------------------------------------------------------------------------
Starts == Instants \cup {Unbounded}

By(dim, since, until) == SpendAndUnitCostBy(events, status, dim, since, until)

\* The row of a slice, all zero when the query returns none.
RowOr0(rows, value) ==
  IF value \in DOMAIN rows THEN rows[value]
  ELSE [total_spend |-> 0, attributed |-> 0, succeeded_outcomes |-> 0, total_outcomes |-> 0]

(* The tables keep their types, whatever UPDATE comes last (store.py:21-49).*)
LedgerTypeOK ==
  /\ events \subseteq LedgerEvents
  /\ status \in [Labels -> {NoRow.status, PENDING} \cup RESOLVED_STATUSES]

(* Attribution loses nothing: along every dimension the slices' sums add   *)
(* up to total_spend of the same window, events without an outcome, with   *)
(* an unresolved one or with a sentinel dimension included                 *)
(* (store.py:173-226; console/app.py shows both numbers side by side, each *)
(* slice's rounded on its own).                                            *)
SlicesSumToTotal ==
  \A dim \in Dims, since \in Starts :
    LET rows == By(dim, since, Unbounded) IN
      SumFunction([v \in DOMAIN rows |-> rows[v].total_spend]) = TotalSpend(events, since)

(* A baseline and the recent window that follows it share no event and     *)
(* miss none: the spend of [since, mid) and of [mid, ...) add up to that   *)
(* of [since, ...) in every slice (store.py:182-205, budgets.py:86-97).    *)
WindowsPartition ==
  \A dim \in Dims, since \in Starts, mid \in Instants : since <= mid =>
    LET all == By(dim, since, Unbounded) IN
      \A v \in DOMAIN all :
        all[v].total_spend = RowOr0(By(dim, since, mid), v).total_spend
                             + RowOr0(By(dim, mid, Unbounded), v).total_spend

\* outcome-contract.md's formula over a set of events, outcome by outcome.
ContractNumerator(evs) ==
  SumFunction([id \in {id \in OutcomeIds : status[id] = SUCCEEDED} |->
                 Spend({e \in evs : e.outcome_id = id})])

(* What is divided and rounded is the contract's quotient: the cost of all *)
(* attempts of succeeded outcomes, over each such outcome once, however    *)
(* many attempts it took (store.py:207-229, outcome-contract.md:79-87).    *)
UnitCostIsTheContracts ==
  \A dim \in Dims : LET rows == By(dim, Unbounded, Unbounded) IN
    \A v \in DOMAIN rows :
      /\ rows[v].attributed = ContractNumerator(Slice(events, dim, v))
      /\ rows[v].succeeded_outcomes =
           Cardinality({id \in OutcomeIds : status[id] = SUCCEEDED
                          /\ \E e \in Slice(events, dim, v) : e.outcome_id = id})

(* The timeseries cuts a slice's window into buckets without losing or     *)
(* repeating an event: the buckets' attributed cost adds up to the slice's *)
(* (store.py:242-273).                                                     *)
BucketsPartition ==
  \A dim \in Dims, since \in Instants, width \in {1, 2} :
    LET rows == By(dim, since, Unbounded) IN
      \A v \in DOMAIN rows :
        LET series == UnitCostTimeseries(events, status, dim, v, width, since) IN
          SumFunction([k \in DOMAIN series |-> series[k].attributed]) = rows[v].attributed

(* A retry is visible: one more paid attempt of an outcome that succeeds   *)
(* never lowers its slice's quotient, and leaves the rows of every other   *)
(* slice as they were; this is the storm signal the detectors read         *)
(* (store.py:207-230).                                                     *)
RetriesRaiseUnitCost ==
  [][\A e \in events' \ events : \A dim \in Dims :
       LET before == By(dim, Unbounded, Unbounded)
           after  == SpendAndUnitCostBy(events', status', dim, Unbounded, Unbounded) IN
         /\ \A v \in DOMAIN before \ {e[dim]} : after[v] = before[v]
         /\ status[e.outcome_id] = SUCCEEDED
            /\ (\E f \in events : f.outcome_id = e.outcome_id /\ f[dim] = e[dim])
              => AtLeastUnitCost(after[e[dim]], before[e[dim]])]_ledgerVars

(* console/app.py:122 publishes unattributed_event_count(since = a day     *)
(* ago) as "unattributed_events_24h": the unattributed events of that day. *)
UnattributedCountIsWindowed ==
  \A since \in Instants :
    UnattributedEventCount(events, Dims, since) =
      UnattributedEventCount(Between(events, since, Unbounded), Dims, Unbounded)

=============================================================================
