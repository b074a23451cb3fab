------------------------------ MODULE Queries ------------------------------
(***************************************************************************)
(* costkit/store.py's read side: each query as a function of the two       *)
(* tables.  `evs' is a set of cost events (told apart by event_id), each   *)
(* with outcome_id, computed_cost, timestamp and one field per attribution *)
(* dimension; `status' maps an outcome_id to its row's status, and to      *)
(* "absent" when the LEFT JOIN finds no row.                               *)
(*                                                                         *)
(* A SliceRow holds the sums and counts of the SELECT.  What the callers    *)
(* are given of them, RoundedSpend and CostPerOutcome, is rounded to six    *)
(* decimals: a whole number of millionths.  The ordering of result rows is *)
(* left out.                                                               *)
(***************************************************************************)
EXTENDS Outcome, FiniteSets, Functions

CONSTANT Micro   \* units of computed_cost in a millionth, the last digit kept

ASSUME QueriesAssumption == Micro \in Nat \ {0}

UNKNOWN == "unknown"
UNATTRIBUTED == "unattributed"

\* An omitted since or until.
Unbounded == -1

\* Mutant of Between: `until' is included.
BetweenClosed(evs, since, until) ==
  {e \in evs : /\ since # Unbounded => e.timestamp >= since
               /\ until # Unbounded => e.timestamp <= until}

Between(evs, since, until) ==
  {e \in evs : /\ since # Unbounded => e.timestamp >= since
               /\ until # Unbounded => e.timestamp < until}

Spend(evs) == SumFunction([e \in evs |-> e.computed_cost])

TotalSpend(evs, since) == Spend(Between(evs, since, Unbounded))

OfSucceeded(evs, status) ==
  {e \in evs : CountsTowardDenominator([status |-> status[e.outcome_id]])}

OutcomesIn(evs) == {e.outcome_id : e \in evs}

\* Mutant of SliceRow: COUNT without DISTINCT.
SliceRowPerEvent(slice, status) ==
  [total_spend        |-> Spend(slice),
   attributed         |-> Spend(OfSucceeded(slice, status)),
   succeeded_outcomes |-> Cardinality(OfSucceeded(slice, status)),
   total_outcomes     |-> Cardinality(OutcomesIn(slice))]

\* One row of the grouped SELECT.
SliceRow(slice, status) ==
  [total_spend        |-> Spend(slice),
   attributed         |-> Spend(OfSucceeded(slice, status)),
   succeeded_outcomes |-> Cardinality(OutcomesIn(OfSucceeded(slice, status))),
   total_outcomes     |-> Cardinality(OutcomesIn(slice))]

Slice(evs, dim, value) == {e \in evs : e[dim] = value}

\* Mutant of SpendAndUnitCostBy: JOIN instead of LEFT JOIN.
SpendAndUnitCostByJoin(evs, status, dim, since, until) ==
  LET rows == {e \in Between(evs, since, until) : status[e.outcome_id] # NoRow.status} IN
    [value \in {e[dim] : e \in rows} |-> SliceRow(Slice(rows, dim, value), status)]

\* spend_and_unit_cost_by: a row for each value some event in the window has.
SpendAndUnitCostBy(evs, status, dim, since, until) ==
  LET rows == Between(evs, since, until) IN
    [value \in {e[dim] : e \in rows} |-> SliceRow(Slice(rows, dim, value), status)]

\* round(): the whole number nearest to n / d, the even one of two.
Nearest(n, d) ==
  LET q == n \div d
      r == n % d IN
    IF 2 * r > d \/ (2 * r = d /\ q % 2 = 1) THEN q + 1 ELSE q

\* "total_spend", in millionths.
RoundedSpend(row) == Nearest(row.total_spend, Micro)

\* cost_per_outcome is not None.
HasUnitCost(row) == row.succeeded_outcomes > 0

\* "cost_per_outcome", in millionths.
CostPerOutcome(row) == Nearest(row.attributed, Micro * row.succeeded_outcomes)

\* The quotient of `a', before its rounding, is at least that of `b', both
\* defined.
AtLeastUnitCost(a, b) ==
  a.attributed * b.succeeded_outcomes >= b.attributed * a.succeeded_outcomes

\* Mutant of UnitCostTimeseries: `since' is excluded.
UnitCostTimeseriesAfter(evs, status, dim, value, width, since) ==
  LET rows      == Slice(Between(evs, since + 1, Unbounded), dim, value)
      Bucket(e) == (e.timestamp - since) \div width IN
    [k \in {Bucket(e) : e \in rows} |-> SliceRow({e \in rows : Bucket(e) = k}, status)]

\* cost_per_outcome_timeseries: a row for each bucket some event falls in.
UnitCostTimeseries(evs, status, dim, value, width, since) ==
  LET rows      == Slice(Between(evs, since, Unbounded), dim, value)
      Bucket(e) == (e.timestamp - since) \div width IN
    [k \in {Bucket(e) : e \in rows} |-> SliceRow({e \in rows : Bucket(e) = k}, status)]

\* unattributed_event_count.  AND binds tighter than OR: `since' restricts
\* only the last disjunct.
UnattributedEventCount(evs, dims, since) ==
  Cardinality({e \in evs :
    \/ \E d \in dims : e[d] = UNKNOWN
    \/ e.outcome_id = UNATTRIBUTED /\ (since # Unbounded => e.timestamp >= since)})

=============================================================================
