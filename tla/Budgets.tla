------------------------------ MODULE Budgets ------------------------------
(***************************************************************************)
(* costkit/budgets.py: the two detectors, as functions of the ledger, and  *)
(* what they say while the ledger grows.  Both read the store only through *)
(* spend_and_unit_cost_by; the two reads of detect_anomalies see the same  *)
(* ledger here.                                                            *)
(***************************************************************************)
EXTENDS Ledger

CONSTANTS BudgetSet,        \* the configured budgets
          Now,              \* the instant the detectors are called with
          RecentWindow,
          BaselineWindow,
          Ratio,            \* [num, den : Nat \ {0}], ratio_threshold
          MinOutcomes

SPEND            == "spend"
COST_PER_OUTCOME == "cost_per_outcome"

BudgetRecords == [dimension : Dims, value : STRING, metric : {SPEND, COST_PER_OUTCOME},
                  threshold : Nat, window : Nat]

ASSUME BudgetsAssumption ==
  /\ BudgetSet \subseteq BudgetRecords
  /\ Ratio \in [num : Nat \ {0}, den : Nat \ {0}]
  /\ {Now, RecentWindow, BaselineWindow, MinOutcomes} \subseteq Nat
  /\ RecentWindow <= Now   \* time is counted from 0, and -1 is Unbounded

-----------------------------------------------------------------------------
\* Mutant of Breaches: spend is averaged over the outcomes.
BreachesPerOutcome(evs, st, b) ==
  LET rows == SpendAndUnitCostBy(evs, st, b.dimension, Now - b.window, Unbounded) IN
    /\ b.value \in DOMAIN rows
    /\ RoundedSpend(rows[b.value]) > b.threshold * rows[b.value].total_outcomes

\* `actual > threshold', both in millionths, for the metric the budget
\* watches; a slice without a row, or without a unit cost, breaches nothing.
Breaches(evs, st, b) ==
  LET rows == SpendAndUnitCostBy(evs, st, b.dimension, Now - b.window, Unbounded) IN
    /\ b.value \in DOMAIN rows
    /\ LET row == rows[b.value] IN
         \/ b.metric = SPEND /\ RoundedSpend(row) > b.threshold
         \/ /\ b.metric = COST_PER_OUTCOME
            /\ HasUnitCost(row)
            /\ CostPerOutcome(row) > b.threshold

CheckBudgets(evs, st) == {b \in BudgetSet : Breaches(evs, st, b)}

\* Mutant of Baseline: `until' is not passed.
BaselineOpenEnded(evs, st, dim) ==
  SpendAndUnitCostBy(evs, st, dim, Now - RecentWindow - BaselineWindow, Unbounded)

Baseline(evs, st, dim) ==
  SpendAndUnitCostBy(evs, st, dim, Now - RecentWindow - BaselineWindow, Now - RecentWindow)

Recent(evs, st, dim) == SpendAndUnitCostBy(evs, st, dim, Now - RecentWindow, Unbounded)

\* Mutant of IsAnomaly: an absolute rise instead of a ratio.
IsAbsoluteRise(baseline, recent) ==
  /\ HasUnitCost(baseline) /\ HasUnitCost(recent)
  /\ recent.succeeded_outcomes >= MinOutcomes
  /\ CostPerOutcome(recent) >= CostPerOutcome(baseline) + 2

\* No `continue' is taken and ratio >= ratio_threshold, of the unit costs as
\* the query rounded them.
IsAnomaly(baseline, recent) ==
  /\ HasUnitCost(baseline) /\ HasUnitCost(recent)
  /\ recent.succeeded_outcomes >= MinOutcomes
  /\ CostPerOutcome(baseline) > 0
  /\ CostPerOutcome(recent) * Ratio.den >= CostPerOutcome(baseline) * Ratio.num

\* The values detect_anomalies flags.
DetectAnomalies(evs, st, dim) ==
  LET baseline == Baseline(evs, st, dim)
      recent   == Recent(evs, st, dim) IN
    {v \in DOMAIN baseline \cap DOMAIN recent : IsAnomaly(baseline[v], recent[v])}

-----------------------------------------------------------------------------
\* The contract's unit cost of a set of events, as the two numbers it divides.
ContractUnitCost(evs) ==
  [attributed |-> ContractNumerator(evs),
   succeeded  |-> Cardinality({id \in OutcomeIds : status[id] = SUCCEEDED
                                 /\ \E e \in evs : e.outcome_id = id})]

\* Half a millionth below and above that unit cost, times what divides it
\* twice over.
Low(u) == 2 * u.attributed - Micro * u.succeeded
High(u) == 2 * u.attributed + Micro * u.succeeded

\* `recent' is at least Ratio times `baseline', bounds of the unit costs r and b.
Reaches(recent, r, baseline, b) ==
  recent * b.succeeded * Ratio.den >= baseline * r.succeeded * Ratio.num

(* An anomaly is what ADR-0005 calls one, cost per outcome by the contract's*)
(* formula having risen by the ratio over the window before, but for the   *)
(* rounding of the two unit costs: an alarm never claims a rise they are   *)
(* more than half a millionth away from, nor a baseline of less than half  *)
(* a millionth, and a rise that clears both halves is never missed         *)
(* (budgets.py:87-113, store.py:207-237).                                  *)
AlarmsErrByRoundingOnly ==
  \A dim \in Dims : \A v \in {e[dim] : e \in events} :
    LET since == Now - RecentWindow
        b == ContractUnitCost({e \in events : /\ e[dim] = v
                                             /\ e.timestamp >= since - BaselineWindow
                                             /\ e.timestamp < since})
        r == ContractUnitCost({e \in events : e[dim] = v /\ e.timestamp >= since})
        flagged == v \in DetectAnomalies(events, status, dim) IN
      /\ flagged => /\ b.succeeded > 0 /\ r.succeeded > 0 /\ r.succeeded >= MinOutcomes
                    /\ Low(b) >= 0
                    /\ Reaches(High(r), r, Low(b), b)
      /\ /\ b.succeeded > 0 /\ r.succeeded > 0 /\ r.succeeded >= MinOutcomes
         /\ Low(b) > 0
         /\ Reaches(Low(r), r, High(b), b)
        => flagged

(* The baseline never contains what it is compared with: traffic recorded  *)
(* in the recent window, however dear, leaves every baseline row as it     *)
(* was, so a regression cannot dilute its own reference                    *)
(* (budgets.py:87-97).                                                     *)
RecentNeverDilutesBaseline ==
  [][\A dim \in Dims :
       (\A e \in events' \ events : e.timestamp >= Now - RecentWindow) /\ status' = status
         => Baseline(events', status', dim) = Baseline(events, status, dim)]_ledgerVars

(* Late bookkeeping never hides an overspend: at one instant, neither more *)
(* events nor any resolution of an outcome clears a spend breach           *)
(* (budgets.py:41-55).                                                     *)
SpendBreachesStand ==
  [][\A b \in CheckBudgets(events, status) :
       b.metric = SPEND => b \in CheckBudgets(events', status')]_ledgerVars

\* In the recent window slice v worked, paid, and only failed, after a
\* baseline in which it succeeded.
IsTotalStorm(dim, v) ==
  /\ v \in DOMAIN Baseline(events, status, dim) \cap DOMAIN Recent(events, status, dim)
  /\ Baseline(events, status, dim)[v].attributed > 0
  /\ Recent(events, status, dim)[v].total_outcomes >= MinOutcomes
  /\ \A e \in Slice(Between(events, Now - RecentWindow, Unbounded), dim, v) :
       status[e.outcome_id] = FAILED

(* budgets.py:4-6: "Both watch cost per outcome, not just total spend, so  *)
(* a retry storm that leaves spend looking flat still trips something."    *)
(* The slices looked at are those with a budget.                           *)
StormsTripSomething ==
  \A dim \in Dims : \A v \in {b.value : b \in BudgetSet} :
    IsTotalStorm(dim, v) =>
      \/ \E b \in CheckBudgets(events, status) : b.dimension = dim /\ b.value = v
      \/ v \in DetectAnomalies(events, status, dim)

=============================================================================
