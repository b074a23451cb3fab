------------------------------ MODULE Console ------------------------------
(***************************************************************************)
(* console/app.py's endpoints that read the store more than once, while    *)
(* batches write to it.  Every query is one step; between two queries of a *)
(* request anything may be recorded, opened or closed.                     *)
(*                                                                         *)
(*   GET /api/summary     spend, the status groups one by one (the index   *)
(*                        on status yields them as it is walked), the      *)
(*                        unattributed count, the rows by feature          *)
(*   GET /api/budgets     one query per budget (check_budgets)             *)
(*   GET /api/anomalies   two queries per feature (detect_anomalies)       *)
(*                                                                         *)
(* Requests write nothing, so they cannot disturb each other and one at a  *)
(* time shows all they can see.  Fields `began', `standing', `overwritten'  *)
(* and `live' are history.                                                 *)
(***************************************************************************)
EXTENDS Budgets, Sequences

CONSTANTS Day,         \* the 24 hours of the summary
          FEATURES     \* the values detect_anomalies is given

ASSUME ConsoleAssumption == Day \in Nat /\ FEATURES \subseteq Features

VARIABLE req

consoleVars == <<events, status, req>>

NoRequest == [kind |-> "none"]

Since == Now - Day

WithStatus(st, s) == {id \in OutcomeIds : st[id] = s}

CountOf(st, s) == Cardinality(WithStatus(st, s))

\* The groups of outcome_status_counts in the order of the index.
StatusOrder == <<ABANDONED, FAILED, PENDING, SUCCEEDED>>

\* Mutant of Blended: the unit costs are added, not weighted.
BlendedUnweighted(rows) ==
  [cost     |-> SumFunction([v \in {v \in DOMAIN rows : HasUnitCost(rows[v])} |->
                               CostPerOutcome(rows[v])]),
   outcomes |-> SumFunction([v \in DOMAIN rows |-> rows[v].succeeded_outcomes])]

\* blended_cost_per_outcome as numerator, in millionths, and denominator: the
\* features' rounded unit costs weighted by their succeeded outcomes, None
\* counted as 0.
Blended(rows) ==
  [cost     |-> SumFunction([v \in {v \in DOMAIN rows : HasUnitCost(rows[v])} |->
                               CostPerOutcome(rows[v]) * rows[v].succeeded_outcomes]),
   outcomes |-> SumFunction([v \in DOMAIN rows |-> rows[v].succeeded_outcomes])]

-----------------------------------------------------------------------------
ConsoleInit == LedgerInit /\ req = NoRequest

\* api_summary: total_spend.
Summary ==
  /\ req = NoRequest
  /\ req' = [kind |-> "summary", total |-> TotalSpend(events, Since), counts |-> <<>>,
             standing |-> {id \in OutcomeIds : status[id] \in RESOLVED_STATUSES}, overwritten |-> {}]
  /\ UNCHANGED ledgerVars

\* Mutant of SummaryCount: the last group is what the others leave.
SummaryCountByDifference ==
  /\ req.kind = "summary"
  /\ Len(req.counts) < Len(StatusOrder)
  /\ req' = [req EXCEPT !.counts = Append(@,
               IF Len(@) = 3
                 THEN Cardinality({id \in OutcomeIds : status[id] # NoRow.status}) - @[1] - @[2] - @[3]
                 ELSE CountOf(status, StatusOrder[Len(@) + 1]))]
  /\ UNCHANGED ledgerVars

\* api_summary: the next group of outcome_status_counts.
SummaryCount ==
  /\ req.kind = "summary"
  /\ Len(req.counts) < Len(StatusOrder)
  /\ req' = [req EXCEPT !.counts = Append(@, CountOf(status, StatusOrder[Len(@) + 1]))]
  /\ UNCHANGED ledgerVars

\* api_summary: unattributed_event_count, spend_and_unit_cost_by and the answer.
SummaryUnattributed ==
  /\ req.kind = "summary"
  /\ Len(req.counts) = Len(StatusOrder)
  /\ req' = [kind |-> "blending", total |-> req.total,
             unattributed |-> UnattributedEventCount(events, Dims, Since)]
  /\ UNCHANGED ledgerVars

SummaryBlended ==
  /\ req.kind = "blending"
  /\ req' = [kind |-> "answered", total |-> req.total, unattributed |-> req.unattributed,
             blended |-> Blended(By("feature", Since, Unbounded))]
  /\ UNCHANGED ledgerVars

SpendBreaches == {b \in CheckBudgets(events, status) : b.metric = SPEND}

\* api_budgets.
BudgetsBegin ==
  /\ req = NoRequest
  /\ req' = [kind |-> "budgets", left |-> BudgetSet, found |-> {}, began |-> SpendBreaches]
  /\ UNCHANGED ledgerVars

\* Mutant of BudgetRead: break instead of continue.
BudgetReadUntilNone(b) ==
  /\ req.kind = "budgets"
  /\ b \in req.left
  /\ req' = IF Breaches(events, status, b)
              THEN [req EXCEPT !.left = @ \ {b}, !.found = @ \cup {b}]
              ELSE [req EXCEPT !.left = {}]
  /\ UNCHANGED ledgerVars

\* check_budgets: one turn of its loop.
BudgetRead(b) ==
  /\ req.kind = "budgets"
  /\ b \in req.left
  /\ req' = [req EXCEPT !.left = @ \ {b},
                        !.found = IF Breaches(events, status, b) THEN @ \cup {b} ELSE @]
  /\ UNCHANGED ledgerVars

\* api_anomalies.
AnomaliesBegin ==
  /\ req = NoRequest
  /\ req' = [kind |-> "anomalies", left |-> FEATURES, found |-> {}]
  /\ UNCHANGED ledgerVars

\* detect_anomalies: the baseline query of one turn.  A missing row is the
\* zero row: neither has a unit cost.
BaselineRead(v) ==
  /\ req.kind = "anomalies"
  /\ v \in req.left
  /\ req' = [kind |-> "recent", left |-> req.left \ {v}, found |-> req.found, value |-> v,
             baseline |-> RowOr0(Baseline(events, status, "feature"), v), live |-> TRUE]
  /\ UNCHANGED ledgerVars

\* detect_anomalies: the recent query, and the decision.
RecentRead ==
  /\ req.kind = "recent"
  /\ req' = [kind |-> "anomalies", left |-> req.left,
             found |-> IF IsAnomaly(req.baseline, RowOr0(Recent(events, status, "feature"), req.value))
                         THEN req.found \cup {req.value} ELSE req.found]
  /\ UNCHANGED ledgerVars

Answer ==
  /\ \/ req.kind = "answered"
     \/ req.kind \in {"budgets", "anomalies"} /\ req.left = {}
  /\ req' = NoRequest
  /\ UNCHANGED ledgerVars

\* The outcomes whose resolution this step replaces by another.
Replaced == {id \in OutcomeIds : status[id] \in RESOLVED_STATUSES /\ status'[id] # status[id]}

\* Meanwhile a batch writes.  `live' remembers whether all of it was traffic
\* of the recent window, `standing' and `overwritten' which resolutions have
\* stood since a summary began and which were replaced.
Write ==
  /\ LedgerNext
  /\ \/ /\ req.kind = "recent"
        /\ req' = [req EXCEPT !.live = @ /\ status' = status
                     /\ \A e \in events' \ events : e.timestamp >= Now - RecentWindow]
     \/ /\ req.kind = "summary"
        /\ req' = [req EXCEPT !.standing = @ \ Replaced, !.overwritten = @ \cup Replaced]
     \/ /\ req.kind \notin {"recent", "summary"}
        /\ req' = req

Read ==
  \/ Summary \/ SummaryCount \/ SummaryUnattributed \/ SummaryBlended
  \/ BudgetsBegin \/ \E b \in BudgetSet : BudgetRead(b)
  \/ AnomaliesBegin \/ (\E v \in FEATURES : BaselineRead(v)) \/ RecentRead
  \/ Answer

ConsoleNext == Read \/ Write

ConsoleSpec == ConsoleInit /\ [][ConsoleNext]_consoleVars

-----------------------------------------------------------------------------
(* A summary is assembled from seven reads of a moving ledger.  Spend and  *)
(* unattributed events, which only grow, are never shown ahead of the      *)
(* ledger.  The count of a resolved status misses no outcome that has had  *)
(* it since the request began, and has none that does not have it now,     *)
(* except those whose resolution was overwritten meanwhile (app.py:102-126,*)
(* store.py:95-98, 303-305).  The pending count can be wrong both ways.    *)
SummaryIsBracketed ==
  /\ req.kind \in {"summary", "blending", "answered"} => req.total <= TotalSpend(events, Since)
  /\ req.kind = "summary" =>
       \A i \in DOMAIN req.counts : StatusOrder[i] \in RESOLVED_STATUSES =>
         /\ Cardinality(WithStatus(status, StatusOrder[i]) \cap req.standing) <= req.counts[i]
         /\ req.counts[i] <= Cardinality(WithStatus(status, StatusOrder[i]) \cup req.overwritten)
  /\ req.kind \in {"blending", "answered"} =>
       req.unattributed <= UnattributedEventCount(events, Dims, Since)

\* outcome-contract.md:16: all events of an outcome have its feature.
KeepsToOneFeature ==
  \A e, f \in events : e.outcome_id = f.outcome_id /\ e.outcome_id \in OutcomeIds => e.feature = f.feature

(* The one unit cost the console answers is put together from the features'*)
(* rounded ones, and is still within half a millionth of the contract's    *)
(* quotient over all features: multiplying the rounding back does not let  *)
(* it add up.  That holds as long as no outcome's events name two          *)
(* features, which outcome-contract.md:16 calls a propagation bug and      *)
(* nothing prevents (app.py:110-115: such an outcome is counted twice).    *)
BlendedErrsByRoundingOnly ==
  [][SummaryBlended /\ KeepsToOneFeature =>
       LET day     == Between(events, Since, Unbounded)
           blended == req'.blended IN
         /\ blended.outcomes = Cardinality({id \in OutcomesIn(day) : status[id] = SUCCEEDED})
         /\ 2 * Micro * blended.cost <= 2 * ContractNumerator(day) + Micro * blended.outcomes
         /\ 2 * ContractNumerator(day) <= 2 * Micro * blended.cost + Micro * blended.outcomes]_consoleVars

(* Budgets are read one after the other, yet no spend breach that stood    *)
(* when the request began is missed, and none is reported that the ledger  *)
(* does not have by the time of the answer (budgets.py:41-55).             *)
SpendReportsAreBracketed ==
  req.kind = "budgets" =>
    /\ req.began \ req.left \subseteq req.found
    /\ {b \in req.found : b.metric = SPEND} \subseteq SpendBreaches

(* The baseline is read before the recent window.  If in between only      *)
(* traffic of the recent window was recorded, what is decided is what      *)
(* the ledger says at the decision (budgets.py:96-113).  Backdated traffic *)
(* and resolutions do change the baseline: then the alarm may be one that  *)
(* no ledger ever had.                                                     *)
LiveAlarmsAreTrue ==
  [][RecentRead /\ req.live =>
       (req.value \in req'.found) = (req.value \in DetectAnomalies(events, status, "feature"))]_consoleVars

=============================================================================
