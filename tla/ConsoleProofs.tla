--------------------------- MODULE ConsoleProofs ---------------------------
(***************************************************************************)
(* Theorems about Budgets and Console: what the detectors and the console  *)
(* say of a ledger that grows while they read it, for every ledger, set of *)
(* budgets, windows and ratio.                                             *)
(***************************************************************************)
EXTENDS Console, LedgerProofs

-----------------------------------------------------------------------------
(* A query sees the events of its window and the status column, no more.   *)
LEMMA QueryReadsItsWindow ==
  ASSUME NEW evs, NEW evs2, NEW st, NEW dim, NEW since, NEW until,
         Between(evs2, since, until) = Between(evs, since, until)
  PROVE  SpendAndUnitCostBy(evs2, st, dim, since, until) = SpendAndUnitCostBy(evs, st, dim, since, until)
BY DEF SpendAndUnitCostBy

(* Events of the recent window are outside the baseline window.            *)
LEMMA RecentKeepsBaseline ==
  ASSUME LedgerInv, LedgerInv', events \subseteq events',
         \A e \in events' \ events : e.timestamp >= Now - RecentWindow,
         NEW st, NEW dim
  PROVE  Baseline(events', st, dim) = Baseline(events, st, dim)
<1> DEFINE since == Now - RecentWindow - BaselineWindow
           until == Now - RecentWindow
<1>1. until \in Nat
  BY BudgetsAssumption
<1>2. \A e \in events' : e.timestamp \in Nat
  BY LedgerAssumption DEF LedgerInv, LedgerTypeOK, LedgerEvents
<1>3. \A e \in events' \ events : ~ (until # Unbounded => e.timestamp < until)
  BY <1>1, <1>2 DEF Unbounded
<1>4. Between(events', since, until) = Between(events, since, until)
  BY <1>3 DEF Between
<1> QED  BY <1>4, QueryReadsItsWindow DEF Baseline

(* A regression cannot dilute the baseline it is compared with, whatever   *)
(* the budgets, windows, costs and number of events (budgets.py:87-97).    *)
THEOREM RecentNeverDilutes == LedgerSpec => RecentNeverDilutesBaseline
<1>1. LedgerInv /\ LedgerInv' /\ [LedgerNext]_ledgerVars =>
        [\A dim \in Dims :
           (\A e \in events' \ events : e.timestamp >= Now - RecentWindow) /\ status' = status
             => Baseline(events', status', dim) = Baseline(events, status, dim)]_ledgerVars
  <2> SUFFICES ASSUME LedgerInv, LedgerInv', [LedgerNext]_ledgerVars, NEW dim \in Dims,
                      \A e \in events' \ events : e.timestamp >= Now - RecentWindow,
                      status' = status
               PROVE  Baseline(events', status', dim) = Baseline(events, status, dim)
    OBVIOUS
  <2>1. Baseline(events', status', dim) = Baseline(events, status', dim)
    BY LedgerGrows, RecentKeepsBaseline
  <2> QED  BY <2>1
<1>2. LedgerInv /\ [LedgerNext]_ledgerVars => LedgerInv'
  BY LedgerStepHolds
<1> QED  BY <1>1, <1>2, LedgerInitHolds, PTL DEF LedgerSpec, RecentNeverDilutesBaseline

-----------------------------------------------------------------------------
(* The arithmetic of an alarm: a and b are the attributed costs, n and k   *)
(* the succeeded outcomes of the baseline and of the recent window, c and  *)
(* d their unit costs rounded to m parts.                                  *)
LEMMA RoundedRatio ==
  ASSUME NEW m \in Nat \ {0}, NEW a \in Nat, NEW b \in Nat,
         NEW n \in Nat \ {0}, NEW k \in Nat \ {0}, NEW p \in Nat, NEW q \in Nat,
         NEW c, NEW d, c = Nearest(a, m * n), d = Nearest(b, m * k)
  PROVE  /\ c > 0 /\ d * q >= c * p =>
              2 * a - m * n >= 0 /\ (2 * b + m * k) * n * q >= (2 * a - m * n) * k * p
         /\ 2 * a - m * n > 0 /\ (2 * b - m * k) * n * q >= (2 * a + m * n) * k * p =>
              c > 0 /\ d * q >= c * p
<1>0. m * n \in Nat \ {0} /\ m * k \in Nat \ {0}
  <2>1. \A i, j \in Nat \ {0} : i * j \in Nat /\ i * j # 0
    OBVIOUS
  <2> QED  BY <2>1
<1>1. c \in Nat /\ d \in Nat
  BY <1>0, NearestIs
<1>2. PICK C \in Nat, D \in Nat : C = 2 * ((m * n) * c) /\ D = 2 * ((m * k) * d)
  BY <1>0, <1>1
<1>3. /\ C <= 2 * a + m * n /\ 2 * a <= C + m * n
      /\ D <= 2 * b + m * k /\ 2 * b <= D + m * k
  BY <1>0, <1>2, NearestIs
<1>4. PICK lo \in Int, hi \in Nat, ro \in Int, ri \in Nat :
        /\ lo = 2 * a - m * n /\ hi = 2 * a + m * n
        /\ ro = 2 * b - m * k /\ ri = 2 * b + m * k
  <2>1. \A i, j \in Nat : 2 * i - j \in Int /\ 2 * i + j \in Nat
    OBVIOUS
  <2>2. /\ 2 * a - m * n \in Int /\ 2 * a + m * n \in Nat
        /\ 2 * b - m * k \in Int /\ 2 * b + m * k \in Nat
    BY <1>0, <2>1
  <2> QED  BY <2>2
<1>5. lo <= C /\ C <= hi /\ ro <= D /\ D <= ri
  BY <1>0, <1>3, <1>4
<1>6. \A x, y \in Int : \A i, j \in Nat : x <= y => x * i * j <= y * i * j
  <2>1. \A x, y \in Int : \A i \in Nat : x <= y => x * i <= y * i /\ x * i \in Int /\ y * i \in Int
    OBVIOUS
  <2> QED  BY <2>1
<1>7. PICK g \in Nat \ {0} : g = 2 * m * n * k
  <2>1. \A i, j \in Nat \ {0} : i * j \in Nat \ {0}
    OBVIOUS
  <2>2. 2 * m \in Nat \ {0}
    OBVIOUS
  <2>3. 2 * m * n \in Nat \ {0}
    BY <2>1, <2>2
  <2> QED  BY <2>1, <2>3
<1>8. PICK u \in Nat, v \in Nat : u = c * p /\ v = d * q
  BY <1>1
<1>9. C * k * p = g * u /\ D * n * q = g * v
  BY <1>1, <1>2, <1>7, <1>8
<1>10. g * u \in Nat /\ g * v \in Nat /\ (v >= u <=> g * v >= g * u)
  BY <1>7, <1>8
<1>11. c > 0 => lo >= 0
  <2>1. c > 0 => (m * n) * c >= m * n
    <3>1. \A i, j \in Nat : j > 0 => i * j >= i
      OBVIOUS
    <3> QED  BY <1>0, <1>1, <3>1
  <2> QED  BY <1>0, <1>1, <1>2, <1>3, <1>4, <2>1
<1>12. lo > 0 => c > 0
  <2>1. c = 0 => C = 0
    BY <1>0, <1>2
  <2> QED  BY <1>1, <1>5, <2>1
<1>13. /\ lo * k * p <= C * k * p /\ C * k * p <= hi * k * p
       /\ ro * n * q <= D * n * q /\ D * n * q <= ri * n * q
  BY <1>5, <1>6
<1>14. lo * k * p \in Int /\ hi * k * p \in Int /\ ro * n * q \in Int /\ ri * n * q \in Int
  OBVIOUS
<1>15. c > 0 /\ v >= u => lo >= 0 /\ ri * n * q >= lo * k * p
  BY <1>9, <1>10, <1>11, <1>13, <1>14
<1>16. lo > 0 /\ ro * n * q >= hi * k * p => c > 0 /\ v >= u
  BY <1>9, <1>10, <1>12, <1>13, <1>14
<1> QED  BY <1>4, <1>8, <1>15, <1>16

(* A slice is flagged when the rows of its two windows are an anomaly; a   *)
(* slice one of the queries does not return has no unit cost there.        *)
LEMMA FlaggedIs ==
  ASSUME NEW dim, NEW v
  PROVE  v \in DetectAnomalies(events, status, dim) <=>
           IsAnomaly(RowOr0(Baseline(events, status, dim), v), RowOr0(Recent(events, status, dim), v))
<1> DEFINE B == Baseline(events, status, dim)
           R == Recent(events, status, dim)
<1>1. DetectAnomalies(events, status, dim) = {x \in DOMAIN B \cap DOMAIN R : IsAnomaly(B[x], R[x])}
  BY DEF DetectAnomalies
<1> HIDE DEF B, R
<1>2. IsAnomaly(RowOr0(B, v), RowOr0(R, v)) => v \in DOMAIN B \cap DOMAIN R
  BY DEF IsAnomaly, HasUnitCost, RowOr0
<1>3. v \in DOMAIN B \cap DOMAIN R => RowOr0(B, v) = B[v] /\ RowOr0(R, v) = R[v]
  BY DEF RowOr0
<1>4. v \in DetectAnomalies(events, status, dim) <=> IsAnomaly(RowOr0(B, v), RowOr0(R, v))
  BY <1>1, <1>2, <1>3
<1> QED  BY <1>4 DEF B, R

(* The unit cost of a slice's row is the rounded contract's.               *)
LEMMA RowUnitCost ==
  ASSUME LedgerInv, NEW S \in SUBSET events, NEW row, row = SliceRow(S, status),
         NEW u, u = ContractUnitCost(S)
  PROVE  /\ u.attributed \in Nat /\ u.succeeded \in Nat
         /\ HasUnitCost(row) <=> u.succeeded > 0
         /\ row.succeeded_outcomes = u.succeeded
         /\ CostPerOutcome(row) = Nearest(u.attributed, Micro * u.succeeded)
<1>1. /\ row.attributed \in Nat /\ row.succeeded_outcomes \in Nat
      /\ row.attributed = u.attributed /\ row.succeeded_outcomes = u.succeeded
  BY RowIsTheContracts DEF ContractUnitCost
<1> QED  BY <1>1 DEF HasUnitCost, CostPerOutcome

(* For any ledger, windows, ratio and precision of the rounding: an alarm  *)
(* is a rise of the contract's cost per outcome by the ratio, and every    *)
(* such rise an alarm, but for half a unit of the last place of each       *)
(* rounded cost (budgets.py:87-113, store.py:207-237).                     *)
THEOREM AlarmsOnlyErrByRounding == LedgerSpec => []AlarmsErrByRoundingOnly
<1>1. ASSUME LedgerInv
      PROVE  AlarmsErrByRoundingOnly
  <2> SUFFICES ASSUME NEW dim \in Dims, NEW v
               PROVE  LET since == Now - RecentWindow
                          b == ContractUnitCost({e \in events : /\ e[dim] = v
                                                               /\ e.timestamp >= since - BaselineWindow
                                                               /\ e.timestamp < since})
                          r == ContractUnitCost({e \in events : e[dim] = v /\ e.timestamp >= since})
                          flagged == v \in DetectAnomalies(events, status, dim) IN
                        /\ flagged => /\ b.succeeded > 0 /\ r.succeeded > 0
                                      /\ r.succeeded >= MinOutcomes
                                      /\ Low(b) >= 0
                                      /\ Reaches(High(r), r, Low(b), b)
                        /\ /\ b.succeeded > 0 /\ r.succeeded > 0 /\ r.succeeded >= MinOutcomes
                           /\ Low(b) > 0
                           /\ Reaches(Low(r), r, High(b), b)
                          => flagged
    BY DEF AlarmsErrByRoundingOnly
  <2> DEFINE since == Now - RecentWindow
             before == since - BaselineWindow
             E == {e \in events : e[dim] = v /\ e.timestamp >= before /\ e.timestamp < since}
             F == {e \in events : e[dim] = v /\ e.timestamp >= since}
             b == ContractUnitCost(E)
             r == ContractUnitCost(F)
             brow == SliceRow(E, status)
             rrow == SliceRow(F, status)
  <2>1. since \in Nat /\ before \in Int /\ since # Unbounded
    BY BudgetsAssumption DEF Unbounded
  <2>2. \A e \in events : e.timestamp \in Nat
    BY <1>1, EventFields
  <2>3. \A e \in events : (before # Unbounded => e.timestamp >= before) <=> e.timestamp >= before
    BY <2>1, <2>2 DEF Unbounded
  <2>4. Slice(Between(events, before, since), dim, v) = E
    BY <2>1, <2>3 DEF Slice, Between
  <2>5. Slice(Between(events, since, Unbounded), dim, v) = F
    BY <2>1 DEF Slice, Between
  <2>6. E \in SUBSET events /\ F \in SUBSET events
    OBVIOUS
  <2>7. /\ RowOr0(Baseline(events, status, dim), v) = SliceRow(Slice(Between(events, before, since), dim, v), status)
        /\ RowOr0(Recent(events, status, dim), v) = SliceRow(Slice(Between(events, since, Unbounded), dim, v), status)
    BY MissingRowIsZero DEF Baseline, Recent
  <2> HIDE DEF E, F, since, before
  <2>8. v \in DetectAnomalies(events, status, dim) <=> IsAnomaly(brow, rrow)
    <3>1. /\ RowOr0(Baseline(events, status, dim), v) = brow
          /\ RowOr0(Recent(events, status, dim), v) = rrow
      BY <2>4, <2>5, <2>7, Zenon
    <3> HIDE DEF brow, rrow
    <3> QED  BY <3>1, FlaggedIs, Zenon
  <2>9. /\ b.attributed \in Nat /\ b.succeeded \in Nat
        /\ HasUnitCost(brow) <=> b.succeeded > 0
        /\ CostPerOutcome(brow) = Nearest(b.attributed, Micro * b.succeeded)
    BY <1>1, <2>6, RowUnitCost
  <2>10. /\ r.attributed \in Nat /\ r.succeeded \in Nat
         /\ HasUnitCost(rrow) <=> r.succeeded > 0
         /\ rrow.succeeded_outcomes = r.succeeded
         /\ CostPerOutcome(rrow) = Nearest(r.attributed, Micro * r.succeeded)
    BY <1>1, <2>6, RowUnitCost
  <2> HIDE DEF b, r, brow, rrow
  <2>11. ASSUME b.succeeded > 0, r.succeeded > 0
         PROVE  /\ CostPerOutcome(brow) > 0
                   /\ CostPerOutcome(rrow) * Ratio.den >= CostPerOutcome(brow) * Ratio.num
                   => Low(b) >= 0 /\ Reaches(High(r), r, Low(b), b)
                /\ Low(b) > 0 /\ Reaches(Low(r), r, High(b), b)
                   => /\ CostPerOutcome(brow) > 0
                      /\ CostPerOutcome(rrow) * Ratio.den >= CostPerOutcome(brow) * Ratio.num
    <3>1. /\ Micro \in Nat \ {0} /\ Ratio.num \in Nat /\ Ratio.den \in Nat
          /\ b.succeeded \in Nat \ {0} /\ r.succeeded \in Nat \ {0}
      BY <2>9, <2>10, <2>11, QueriesAssumption, BudgetsAssumption
    <3>2. PICK a \in Nat, n \in Nat \ {0}, e \in Nat, k \in Nat \ {0}, p \in Nat, q \in Nat :
            /\ a = b.attributed /\ n = b.succeeded
            /\ e = r.attributed /\ k = r.succeeded
            /\ p = Ratio.num /\ q = Ratio.den
      BY <2>9, <2>10, <3>1
    <3>3. PICK c, d : c = Nearest(a, Micro * n) /\ d = Nearest(e, Micro * k)
      OBVIOUS
    <3>4. /\ c > 0 /\ d * q >= c * p =>
               2 * a - Micro * n >= 0 /\ (2 * e + Micro * k) * n * q >= (2 * a - Micro * n) * k * p
          /\ 2 * a - Micro * n > 0 /\ (2 * e - Micro * k) * n * q >= (2 * a + Micro * n) * k * p =>
               c > 0 /\ d * q >= c * p
      BY <3>1, <3>3, RoundedRatio
    <3>5. c = CostPerOutcome(brow) /\ d = CostPerOutcome(rrow)
      BY <2>9, <2>10, <3>2, <3>3
    <3> QED  BY <3>2, <3>4, <3>5 DEF Low, High, Reaches
  <2>12. /\ IsAnomaly(brow, rrow) =>
              /\ b.succeeded > 0 /\ r.succeeded > 0 /\ r.succeeded >= MinOutcomes
              /\ Low(b) >= 0
              /\ Reaches(High(r), r, Low(b), b)
         /\ /\ b.succeeded > 0 /\ r.succeeded > 0 /\ r.succeeded >= MinOutcomes
            /\ Low(b) > 0
            /\ Reaches(Low(r), r, High(b), b)
            => IsAnomaly(brow, rrow)
    BY <2>9, <2>10, <2>11 DEF IsAnomaly
  <2> QED  BY <2>8, <2>12 DEF b, r, E, F, since, before
<1> QED  BY <1>1, LedgerStepHolds, LedgerInitHolds, PTL DEF LedgerSpec

-----------------------------------------------------------------------------
\* The events budget b adds up.
Watched(evs, b) == Slice(Between(evs, Now - b.window, Unbounded), b.dimension, b.value)

(* A spend breach is a matter of the watched events alone.                 *)
LEMMA SpendBreachIs ==
  ASSUME NEW evs, NEW st, NEW b, b.metric = SPEND
  PROVE  Breaches(evs, st, b) <=>
           Watched(evs, b) # {} /\ Nearest(Spend(Watched(evs, b)), Micro) > b.threshold
<1> DEFINE W == Between(evs, Now - b.window, Unbounded)
           rows == SpendAndUnitCostBy(evs, st, b.dimension, Now - b.window, Unbounded)
<1>1. rows = [v \in {e[b.dimension] : e \in W} |-> SliceRow(Slice(W, b.dimension, v), st)]
  BY RowsOfQuery, Zenon
<1>2. Breaches(evs, st, b) <=> b.value \in DOMAIN rows /\ Nearest(rows[b.value].total_spend, Micro) > b.threshold
  BY DEF Breaches, RoundedSpend, SPEND, COST_PER_OUTCOME
<1> HIDE DEF W, rows
<1>3. b.value \in DOMAIN rows <=> Slice(W, b.dimension, b.value) # {}
  BY <1>1 DEF Slice
<1>4. b.value \in DOMAIN rows => rows[b.value].total_spend = Spend(Slice(W, b.dimension, b.value))
  BY <1>1 DEF SliceRow
<1> QED  BY <1>2, <1>3, <1>4 DEF Watched, W

(* More events keep every spend breach, whatever the status column says.   *)
LEMMA SpendBreachesOnlyAppear ==
  ASSUME LedgerInv, LedgerInv', events \subseteq events', NEW b \in BudgetSet, b.metric = SPEND,
         NEW st, NEW st2, Breaches(events, st, b)
  PROVE  Breaches(events', st2, b)
<1> DEFINE A == Watched(events, b)
           B == Watched(events', b)
<1>1. A \in SUBSET B
  BY DEF Watched, Slice, Between
<1>2. Priced(B)
  <2>1. Priced(events') /\ B \in SUBSET events'
    BY LedgerAssumption DEF LedgerInv, LedgerTypeOK, LedgerEvents, Priced, NatOn, Cost, Watched, Slice, Between
  <2> QED  BY <2>1, PartOfPriced
<1>3. A # {} /\ Nearest(Spend(A), Micro) > b.threshold
  BY SpendBreachIs
<1>4. b.threshold \in Nat
  BY BudgetsAssumption DEF BudgetRecords
<1> HIDE DEF A, B
<1>5. Spend(A) <= Spend(B) /\ Spend(A) \in Nat /\ Spend(B) \in Nat
  BY <1>1, <1>2, SpendMonotone, SpendType, PartOfPriced
<1>6. /\ Nearest(Spend(A), Micro) <= Nearest(Spend(B), Micro)
      /\ Nearest(Spend(A), Micro) \in Nat /\ Nearest(Spend(B), Micro) \in Nat
  BY <1>5, QueriesAssumption, NearestGrows, NearestIs
<1>7. B # {} /\ Nearest(Spend(B), Micro) > b.threshold
  BY <1>1, <1>3, <1>4, <1>6
<1> QED  BY <1>7, SpendBreachIs DEF B

(* For any budgets and any ledger, at one instant no event and no          *)
(* resolution clears a spend breach (budgets.py:41-55).                    *)
THEOREM SpendBreachesAlwaysStand == LedgerSpec => SpendBreachesStand
<1>1. LedgerInv /\ LedgerInv' /\ [LedgerNext]_ledgerVars =>
        [\A b \in CheckBudgets(events, status) :
           b.metric = SPEND => b \in CheckBudgets(events', status')]_ledgerVars
  BY LedgerGrows, SpendBreachesOnlyAppear DEF CheckBudgets
<1>2. LedgerInv /\ [LedgerNext]_ledgerVars => LedgerInv'
  BY LedgerStepHolds
<1> QED  BY <1>1, <1>2, LedgerInitHolds, PTL DEF LedgerSpec, SpendBreachesStand

-----------------------------------------------------------------------------
\* The features whose row has a unit cost.
UnitCosted(rows) == {v \in DOMAIN rows : HasUnitCost(rows[v])}

(* Their attributed costs add up to the contract's numerator.              *)
LEMMA AttributedAddUp ==
  ASSUME LedgerInv, NEW rows, rows = By("feature", Since, Unbounded)
  PROVE  SumFunctionOnSet([v \in UnitCosted(rows) |-> rows[v].attributed], UnitCosted(rows))
           = ContractNumerator(Between(events, Since, Unbounded))
<1> DEFINE W == Between(events, Since, Unbounded)
           P == OfSucceeded(W, status)
           U == UnitCosted(rows)
           lab == [e \in P |-> e.feature]
           g == [v \in U |-> rows[v].attributed]
           Part(v) == OfSucceeded(Slice(W, "feature", v), status)
<1>1. rows = [v \in {e["feature"] : e \in W} |-> SliceRow(Slice(W, "feature", v), status)]
  BY RowsOfQuery, Zenon DEF By
<1>2. W \in SUBSET events /\ P \in SUBSET W /\ P \in SUBSET events
  BY DEF Between, OfSucceeded
<1>3. \A v : Part(v) = Group(P, lab, v) /\ Part(v) \in SUBSET events
  <2>1. P \in SUBSET W /\ W \in SUBSET events
    BY <1>2
  <2>2. \A v : Part(v) = {e \in P : e.feature = v}
    BY DEF OfSucceeded, Slice
  <2> HIDE DEF P, W, Part
  <2> QED  BY <2>1, <2>2 DEF Group
<1>4. \A e \in P : e.feature \in {x["feature"] : x \in W}
  BY <1>2
<1>5. Priced(P) /\ IsFiniteSet(W)
  BY <1>2, LedgerIsPriced, PartOfPriced DEF Priced
<1>6. IsFiniteSet({x["feature"] : x \in W})
  <2> DEFINE b == [x \in W |-> x["feature"]]
  <2>1. {x["feature"] : x \in W} = {b[x] : x \in W}
    OBVIOUS
  <2> HIDE DEF b, W
  <2> QED  BY <1>5, <2>1, FiniteImage
<1>8. ContractNumerator(W) = Spend(P)
  BY <1>2, NumeratorIsAttributed
<1> HIDE DEF W, Part
<1>9. \A v \in DOMAIN rows : /\ rows[v].attributed = Spend(Part(v))
                             /\ rows[v].succeeded_outcomes = Cardinality(OutcomesIn(Part(v)))
  BY <1>1 DEF SliceRow, Part
<1>10. \A v \in U : g[v] = Spend(Group(P, lab, v))
  <2>1. \A v \in U : g[v] = Spend(Part(v))
    BY <1>9 DEF UnitCosted
  <2> HIDE DEF U, g, lab, P
  <2> QED  BY <1>3, <2>1
<1>11. \A e \in P : lab[e] \in U
  <2> SUFFICES ASSUME NEW e \in P
               PROVE  e.feature \in U
    OBVIOUS
  <2>1. e.feature \in DOMAIN rows
    BY <1>1, <1>4
  <2>2. e \in Part(e.feature)
    BY <1>3 DEF Group
  <2>3. OutcomesIn(Part(e.feature)) # {} /\ IsFiniteSet(OutcomesIn(Part(e.feature)))
    <3>1. OutcomesIn(Part(e.feature)) # {}
      BY <2>2 DEF OutcomesIn
    <3> QED  BY <1>3, <3>1, OutcomesFinite
  <2>4. Cardinality(OutcomesIn(Part(e.feature))) > 0
    BY <2>3, FS_EmptySet, FS_CardinalityType
  <2> QED  BY <1>9, <2>1, <2>4 DEF HasUnitCost, UnitCosted
<1>12. IsFiniteSet(U)
  <2>1. U \subseteq {x["feature"] : x \in W}
    BY <1>1 DEF UnitCosted
  <2> QED  BY <1>6, <2>1, FS_Subset
<1> HIDE DEF U, g, lab, P
<1>13. SumFunctionOnSet(g, U) = Spend({e \in P : lab[e] \in U})
  BY <1>5, <1>10, <1>12, SpendByGroups
<1>14. {e \in P : lab[e] \in U} = P
  BY <1>11
<1>15. SumFunctionOnSet(g, U) = ContractNumerator(W)
  BY <1>8, <1>13, <1>14, Zenon
<1> QED  BY <1>15 DEF g, U, W

(* Multiplying the features' rounded unit costs back adds at most half a   *)
(* millionth for each outcome.                                             *)
LEMMA BlendedCost ==
  ASSUME LedgerInv, NEW rows, rows = By("feature", Since, Unbounded)
  PROVE  Within(Micro, Blended(rows).cost, ContractNumerator(Between(events, Since, Unbounded)),
                Blended(rows).outcomes)
<1> DEFINE W == Between(events, Since, Unbounded)
           V == DOMAIN rows
           U == UnitCosted(rows)
           x == [v \in U |-> CostPerOutcome(rows[v]) * rows[v].succeeded_outcomes]
           a == [v \in U |-> rows[v].attributed]
           n == [v \in V |-> rows[v].succeeded_outcomes]
           num == ContractNumerator(W)
<1>1. rows = [v \in {e["feature"] : e \in W} |-> SliceRow(Slice(W, "feature", v), status)]
  BY RowsOfQuery, Zenon DEF By
<1>2. \A v \in V : rows[v].attributed \in Nat /\ rows[v].succeeded_outcomes \in Nat
  <2>1. \A v : Slice(W, "feature", v) \in SUBSET events
    BY WindowAndSlice
  <2> QED  BY <1>1, <2>1, RowIsTheContracts
<1>3. U \subseteq V /\ \A v \in U : rows[v].succeeded_outcomes > 0
  BY DEF UnitCosted, HasUnitCost
<1>4. IsFiniteSet(V) /\ IsFiniteSet(U)
  <2> DEFINE b == [e \in W |-> e["feature"]]
  <2>1. V = {b[e] : e \in W} /\ IsFiniteSet(W)
    BY <1>1, LedgerIsPriced DEF Priced
  <2> HIDE DEF b, W, V
  <2>2. IsFiniteSet(V)
    BY <2>1, FiniteImage
  <2> QED  BY <1>3, <2>2, FS_Subset
<1>5. ASSUME NEW v \in U
      PROVE  /\ x[v] \in Nat /\ a[v] \in Nat /\ n[v] \in Nat
             /\ Within(Micro, x[v], a[v], n[v])
  <2>1. PICK s \in Nat \ {0}, c \in Nat :
          s = rows[v].succeeded_outcomes /\ c = rows[v].attributed
    BY <1>2, <1>3
  <2>2. Micro \in Nat \ {0} /\ Micro * s \in Nat \ {0}
    <3>1. \A i, j \in Nat \ {0} : i * j \in Nat \ {0}
      OBVIOUS
    <3> QED  BY <3>1, QueriesAssumption
  <2>3. PICK u \in Nat : u = Nearest(c, Micro * s)
    BY <2>2, NearestIs
  <2>4. x[v] = u * s /\ a[v] = c /\ n[v] = s
    BY <1>3, <2>1, <2>3 DEF CostPerOutcome
  <2>5. 2 * ((Micro * s) * u) <= 2 * c + Micro * s /\ 2 * c <= 2 * ((Micro * s) * u) + Micro * s
    BY <2>2, <2>3, NearestIs
  <2>6. 2 * ((Micro * s) * u) = 2 * Micro * (u * s)
    BY <2>2
  <2> HIDE DEF x, a, n
  <2> QED  BY <2>4, <2>5, <2>6 DEF Within
<1>6. NatOn(x, U) /\ NatOn(a, U) /\ NatOn(n, U) /\ NatOn(n, V)
  BY <1>2, <1>5 DEF NatOn
<1>7. SumFunctionOnSet(a, U) = num
  BY AttributedAddUp
<1>8. /\ Blended(rows).cost = SumFunctionOnSet(x, U)
      /\ Blended(rows).outcomes = SumFunctionOnSet(n, V)
  BY DEF Blended, SumFunction, UnitCosted
<1> HIDE DEF x, a, n, U, V, num
<1>9. Within(Micro, SumFunctionOnSet(x, U), num, SumFunctionOnSet(n, U))
  <2>1. Within(Micro, SumFunctionOnSet(x, U), SumFunctionOnSet(a, U), SumFunctionOnSet(n, U))
    BY <1>4, <1>5, <1>6, SumWithin, QueriesAssumption
  <2> QED  BY <1>7, <2>1
<1>10. SumFunctionOnSet(n, U) <= SumFunctionOnSet(n, V)
  BY <1>3, <1>4, <1>6, SumMonotone
<1>11. /\ SumFunctionOnSet(x, U) \in Nat /\ SumFunctionOnSet(a, U) \in Nat
       /\ SumFunctionOnSet(n, U) \in Nat /\ SumFunctionOnSet(n, V) \in Nat
  BY <1>4, <1>6, SumType
<1>12. Within(Micro, SumFunctionOnSet(x, U), num, SumFunctionOnSet(n, V))
  <2>1. \A k, c, d, i, j \in Nat : i <= j /\ Within(k, c, d, i) => Within(k, c, d, j)
    <3>1. \A k, i, j \in Nat : i <= j => k * i <= k * j /\ k * i \in Nat /\ k * j \in Nat
      OBVIOUS
    <3>2. \A k, c \in Nat : 2 * k * c \in Nat
      OBVIOUS
    <3> QED  BY <3>1, <3>2 DEF Within
  <2>2. num \in Nat /\ Micro \in Nat
    BY <1>7, <1>11, QueriesAssumption
  <2> QED  BY <1>9, <1>10, <1>11, <2>1, <2>2
<1> QED  BY <1>8, <1>12 DEF num

(* Each succeeded outcome is counted under exactly one feature.            *)
LEMMA BlendedCount ==
  ASSUME LedgerInv, KeepsToOneFeature
  PROVE  Blended(By("feature", Since, Unbounded)).outcomes
           = Cardinality({id \in OutcomesIn(Between(events, Since, Unbounded)) : status[id] = SUCCEEDED})
<1> DEFINE W == Between(events, Since, Unbounded)
           P == OfSucceeded(W, status)
           O == OutcomesIn(P)
           rows == By("feature", Since, Unbounded)
           V == {e["feature"] : e \in W}
           event == [id \in O |-> CHOOSE e \in P : e.outcome_id = id]
           lab == [id \in O |-> event[id].feature]
           g == [v \in DOMAIN rows |-> rows[v].succeeded_outcomes]
           Part(v) == OfSucceeded(Slice(W, "feature", v), status)
<1>1. rows = [v \in V |-> SliceRow(Slice(W, "feature", v), status)]
  BY RowsOfQuery, Zenon DEF By
<1>2. W \in SUBSET events /\ P \in SUBSET W /\ P \in SUBSET events
  BY DEF Between, OfSucceeded
<1>3. \A v : Part(v) = {e \in P : e.feature = v}
  BY DEF OfSucceeded, Slice
<1>4. O = {id \in OutcomesIn(W) : status[id] = SUCCEEDED}
  BY DEF OfSucceeded, OutcomesIn, CountsTowardDenominator
<1>5. IsFiniteSet(O) /\ IsFiniteSet(W)
  <2>1. IsFiniteSet(W)
    BY LedgerIsPriced DEF Priced
  <2> HIDE DEF P, W
  <2> QED  BY <1>2, <2>1, OutcomesFinite
<1>6. IsFiniteSet(V)
  <2> DEFINE b == [x \in W |-> x["feature"]]
  <2>1. V = {b[x] : x \in W}
    OBVIOUS
  <2> HIDE DEF b, W, V
  <2> QED  BY <1>5, <2>1, FiniteImage
<1>7. Blended(rows).outcomes = SumFunctionOnSet(g, DOMAIN rows)
  BY DEF Blended, SumFunction
<1>8. \A e, f \in P : e.outcome_id = f.outcome_id => e.feature = f.feature
  <2>1. \A e \in P : e.outcome_id \in OutcomeIds
    <3>1. W \in SUBSET events
      BY <1>2
    <3> HIDE DEF W
    <3> QED  BY <3>1, OfSucceededIs
  <2> HIDE DEF P
  <2> QED  BY <1>2, <2>1 DEF KeepsToOneFeature
<1> HIDE DEF W, P
<1>9. \A id \in O : event[id] \in P /\ event[id].outcome_id = id
  BY DEF OutcomesIn
<1> HIDE DEF rows, event
<1>10. \A v : OutcomesIn(Part(v)) = Group(O, lab, v)
  <2> TAKE v
  <2>1. OutcomesIn(Part(v)) = {e.outcome_id : e \in {f \in P : f.feature = v}}
    BY <1>3, Zenon DEF OutcomesIn
  <2>2. Group(O, lab, v) = {id \in O : event[id].feature = v}
    BY DEF Group
  <2>3. \A e \in P : e.outcome_id \in O /\ event[e.outcome_id].feature = e.feature
    BY <1>8, <1>9 DEF OutcomesIn
  <2> HIDE DEF O, lab
  <2>4. {e.outcome_id : e \in {f \in P : f.feature = v}} = {id \in O : event[id].feature = v}
    BY <1>9, <2>3
  <2> QED  BY <2>1, <2>2, <2>4, Zenon
<1>11. \A id \in O : lab[id] \in V
  <2>1. \A e \in P : e.feature \in V
    BY <1>2
  <2> HIDE DEF V
  <2> QED  BY <1>9, <2>1
<1>12. DOMAIN rows = V /\ \A v \in V : g[v] = Cardinality(Group(O, lab, v))
  <2>1. DOMAIN rows = V
    BY <1>1
  <2>2. \A v \in V : g[v] = Cardinality(OutcomesIn(Part(v)))
    BY <1>1, <2>1 DEF SliceRow
  <2> HIDE DEF O, lab, V, Part, g
  <2> QED  BY <1>10, <2>1, <2>2
<1> HIDE DEF O, lab, V, Part, g
<1>13. SumFunctionOnSet(g, V) = Cardinality(O)
  BY <1>5, <1>6, <1>11, <1>12, CountByGroups
<1>14. Blended(rows).outcomes = Cardinality({id \in OutcomesIn(W) : status[id] = SUCCEEDED})
  BY <1>4, <1>7, <1>12, <1>13, Zenon
<1> QED  BY <1>14 DEF rows, W

-----------------------------------------------------------------------------
(* A status group is a finite part of the opened outcomes.                 *)
LEMMA GroupIsFinite ==
  ASSUME LedgerInv, NEW s \in {PENDING} \cup RESOLVED_STATUSES
  PROVE  IsFiniteSet(WithStatus(status, s)) /\ CountOf(status, s) \in Nat
<1>1. WithStatus(status, s) \subseteq Opened
  BY DEF WithStatus, Opened, Labels, NoRow, PENDING, RESOLVED_STATUSES, SUCCEEDED, FAILED, ABANDONED
<1>2. IsFiniteSet(WithStatus(status, s))
  BY <1>1, FS_Subset DEF LedgerInv
<1> QED  BY <1>2, FS_CardinalityType DEF CountOf

(* Finitely many resolutions are replaced at a time.                       *)
LEMMA ReplacedFinite ==
  ASSUME LedgerInv
  PROVE  IsFiniteSet(Replaced)
<1>1. Replaced \subseteq Opened
  BY DEF Replaced, Opened, Labels, NoRow, RESOLVED_STATUSES, SUCCEEDED, FAILED, ABANDONED
<1> QED  BY <1>1, FS_Subset DEF LedgerInv

(* The spend of the summary's window never falls.                          *)
LEMMA TotalSpendGrows ==
  ASSUME LedgerInv, LedgerInv', [LedgerNext]_ledgerVars
  PROVE  /\ TotalSpend(events, Since) \in Nat /\ TotalSpend(events', Since) \in Nat
         /\ TotalSpend(events, Since) <= TotalSpend(events', Since)
<1> DEFINE A == Between(events, Since, Unbounded)
           B == Between(events', Since, Unbounded)
<1>1. A \in SUBSET B
  BY LedgerGrows DEF Between
<1>2. Priced(B)
  <2>1. Priced(events') /\ B \in SUBSET events'
    BY LedgerAssumption DEF LedgerInv, LedgerTypeOK, LedgerEvents, Priced, NatOn, Cost, Between
  <2> HIDE DEF B
  <2> QED  BY <2>1, PartOfPriced
<1> HIDE DEF A, B
<1>3. Spend(A) \in Nat /\ Spend(B) \in Nat /\ Spend(A) <= Spend(B)
  BY <1>1, <1>2, SpendMonotone, SpendType, PartOfPriced
<1> QED  BY <1>3 DEF TotalSpend, A, B

(* The number of unattributed events never falls.                          *)
LEMMA UnattributedGrow ==
  ASSUME LedgerInv, LedgerInv', [LedgerNext]_ledgerVars
  PROVE  /\ UnattributedEventCount(events, Dims, Since) \in Nat
         /\ UnattributedEventCount(events', Dims, Since) \in Nat
         /\ UnattributedEventCount(events, Dims, Since) <= UnattributedEventCount(events', Dims, Since)
<1> DEFINE Lost(evs) == {e \in evs :
             \/ \E d \in Dims : e[d] = UNKNOWN
             \/ e.outcome_id = UNATTRIBUTED /\ (Since # Unbounded => e.timestamp >= Since)}
           A == Lost(events)
           B == Lost(events')
<1>1. A \subseteq B /\ B \subseteq events'
  BY LedgerGrows
<1> HIDE DEF A, B
<1>2. IsFiniteSet(B)
  BY <1>1, FS_Subset DEF LedgerInv
<1>3. Cardinality(A) \in Nat /\ Cardinality(B) \in Nat /\ Cardinality(A) <= Cardinality(B)
  BY <1>1, <1>2, FS_Subset, FS_CardinalityType
<1> QED  BY <1>3, Zenon DEF UnattributedEventCount, A, B

(* Spend breaches never go away at one instant.                            *)
LEMMA SpendBreachesGrow ==
  ASSUME LedgerInv, LedgerInv', [LedgerNext]_ledgerVars
  PROVE  SpendBreaches \subseteq SpendBreaches'
BY LedgerGrows, SpendBreachesOnlyAppear DEF SpendBreaches, CheckBudgets

-----------------------------------------------------------------------------
\* n is the size of a set of outcomes that has every one with status s that
\* stood throughout, and no other than those with it and the overwritten.
CountedOf(n, s, standing, overwritten) ==
  \E X \in SUBSET OutcomeIds :
    /\ Cardinality(X) = n
    /\ WithStatus(status, s) \cap standing \subseteq X
    /\ X \subseteq WithStatus(status, s) \cup overwritten

\* The groups counted so far are of such sets.
Bracketed(counts, standing, overwritten) ==
  /\ counts \in Seq(Nat)
  /\ standing \subseteq {id \in OutcomeIds : status[id] \in RESOLVED_STATUSES}
  /\ overwritten \subseteq OutcomeIds /\ IsFiniteSet(overwritten)
  /\ \A i \in DOMAIN counts : StatusOrder[i] \in RESOLVED_STATUSES =>
       CountedOf(counts[i], StatusOrder[i], standing, overwritten)

\* The ledger has spent this much.
NotAhead(total) == total \in Nat /\ total <= TotalSpend(events, Since)

\* The ledger has this many unattributed events.
NotAheadUnattributed(n) == n \in Nat /\ n <= UnattributedEventCount(events, Dims, Since)

\* What each kind of request knows of the ledger, between any two reads.
\* A summary before, between and after its last two queries:
Counting(r) ==
  \E total, counts, standing, overwritten :
    /\ r = [kind |-> "summary", total |-> total, counts |-> counts, standing |-> standing,
            overwritten |-> overwritten]
    /\ NotAhead(total)
    /\ Bracketed(counts, standing, overwritten)

Blending(r) ==
  \E total, unattributed :
    /\ r = [kind |-> "blending", total |-> total, unattributed |-> unattributed]
    /\ NotAhead(total)
    /\ NotAheadUnattributed(unattributed)

Answered(r) ==
  \E total, unattributed, blended :
    /\ r = [kind |-> "answered", total |-> total, unattributed |-> unattributed, blended |-> blended]
    /\ NotAhead(total)
    /\ NotAheadUnattributed(unattributed)

\* check_budgets inside its loop:
Checking(r) ==
  \E left, found, began \in SUBSET BudgetSet :
    /\ r = [kind |-> "budgets", left |-> left, found |-> found, began |-> began]
    /\ began \subseteq SpendBreaches
    /\ began \ left \subseteq found
    /\ {b \in found : b.metric = SPEND} \subseteq SpendBreaches

\* detect_anomalies between two features: each is looked at once.
Scanning(r) ==
  \E left, found \in SUBSET FEATURES :
    /\ left \cap found = {}
    /\ r = [kind |-> "anomalies", left |-> left, found |-> found]

\* Between a feature's two reads: its baseline is still the ledger's as
\* long as only recent traffic was recorded.
Deciding(r) ==
  \E left, found \in SUBSET FEATURES, v \in FEATURES, live \in BOOLEAN :
    /\ left \cap found = {}
    /\ v \notin left \cup found
    /\ r = [kind |-> "recent", left |-> left, found |-> found, value |-> v,
            baseline |-> r.baseline, live |-> live]
    /\ live => r.baseline = RowOr0(Baseline(events, status, "feature"), v)

(* The request's part of the inductive invariant.                          *)
RequestInv ==
  \/ req = NoRequest
  \/ Counting(req) \/ Blending(req) \/ Answered(req)
  \/ Checking(req)
  \/ Scanning(req) \/ Deciding(req)

ConsoleInv == LedgerInv /\ RequestInv

(* What was not ahead of the ledger stays so.                              *)
LEMMA NotAheadStands ==
  ASSUME LedgerInv, LedgerInv', [LedgerNext]_ledgerVars, NEW n
  PROVE  /\ NotAhead(n) => NotAhead(n)'
         /\ NotAheadUnattributed(n) => NotAheadUnattributed(n)'
<1>1. \A a, b, c \in Nat : a <= b /\ b <= c => a <= c
  OBVIOUS
<1> QED  BY <1>1, TotalSpendGrows, UnattributedGrow DEF NotAhead, NotAheadUnattributed

(* Counts that were bracketed stay so, when what a write replaces is taken *)
(* from the standing resolutions and added to the overwritten ones.        *)
LEMMA BracketedStands ==
  ASSUME LedgerInv, NEW counts, NEW standing, NEW overwritten,
         Bracketed(counts, standing, overwritten),
         NEW standing2, standing2 = standing \ Replaced,
         NEW overwritten2, overwritten2 = overwritten \cup Replaced
  PROVE  Bracketed(counts, standing2, overwritten2)'
<1>1. \A id \in OutcomeIds : status[id] \in RESOLVED_STATUSES /\ id \notin Replaced => status'[id] = status[id]
  BY DEF Replaced
<1>2. standing2 \subseteq {id \in OutcomeIds : status'[id] \in RESOLVED_STATUSES}
  BY <1>1 DEF Bracketed
<1>3. overwritten2 \subseteq OutcomeIds /\ IsFiniteSet(overwritten2)
  <2>1. Replaced \subseteq OutcomeIds
    BY DEF Replaced
  <2> QED  BY <2>1, ReplacedFinite, FS_Union DEF Bracketed
<1>4. ASSUME NEW n, NEW s \in RESOLVED_STATUSES, CountedOf(n, s, standing, overwritten)
      PROVE  CountedOf(n, s, standing2, overwritten2)'
  <2>1. PICK X \in SUBSET OutcomeIds :
          /\ Cardinality(X) = n
          /\ WithStatus(status, s) \cap standing \subseteq X
          /\ X \subseteq WithStatus(status, s) \cup overwritten
    BY <1>4 DEF CountedOf
  <2>2. WithStatus(status', s) \cap standing2 \subseteq X
    BY <1>1, <2>1 DEF WithStatus, Bracketed
  <2>3. X \subseteq WithStatus(status', s) \cup overwritten2
    BY <1>1, <2>1 DEF WithStatus
  <2> QED  BY <2>1, <2>2, <2>3 DEF CountedOf
<1> QED  BY <1>2, <1>3, <1>4 DEF Bracketed

(* They also do when nothing is written.                                   *)
LEMMA BracketedUnchanged ==
  ASSUME UNCHANGED status, NEW counts, NEW standing, NEW overwritten,
         Bracketed(counts, standing, overwritten)
  PROVE  Bracketed(counts, standing, overwritten)'
BY DEF Bracketed, CountedOf

(* Counting one more group keeps the counts bracketed.                     *)
LEMMA CountedNext ==
  ASSUME LedgerInv, NEW counts, NEW standing, NEW overwritten,
         Bracketed(counts, standing, overwritten), Len(counts) < Len(StatusOrder)
  PROVE  Bracketed(Append(counts, CountOf(status, StatusOrder[Len(counts) + 1])), standing, overwritten)
<1> DEFINE n == Len(counts) + 1
           c == CountOf(status, StatusOrder[n])
           more == Append(counts, c)
<1>1. counts \in Seq(Nat) /\ Len(counts) \in Nat
  BY DEF Bracketed
<1>2. n \in 1 .. 4
  BY <1>1 DEF StatusOrder
<1>3. StatusOrder[n] \in {PENDING} \cup RESOLVED_STATUSES
  BY <1>2 DEF StatusOrder, RESOLVED_STATUSES
<1>4. c \in Nat
  BY <1>3, GroupIsFinite
<1>5. CountedOf(c, StatusOrder[n], standing, overwritten)
  <2>1. WithStatus(status, StatusOrder[n]) \in SUBSET OutcomeIds
    BY DEF WithStatus
  <2> QED  BY <2>1 DEF CountedOf, CountOf
<1> HIDE DEF c
<1>6. /\ more \in Seq(Nat) /\ DOMAIN more = DOMAIN counts \cup {n} /\ more[n] = c
      /\ \A i \in DOMAIN counts : more[i] = counts[i]
  BY <1>1, <1>4
<1> HIDE DEF more, n
<1>7. Bracketed(more, standing, overwritten)
  BY <1>5, <1>6 DEF Bracketed
<1> QED  BY <1>7 DEF more, c, n

(* The size of a bracketed group, as SummaryIsBracketed has it.            *)
LEMMA CountedIsBetween ==
  ASSUME LedgerInv, NEW n, NEW s \in RESOLVED_STATUSES, NEW standing, NEW overwritten,
         IsFiniteSet(overwritten), CountedOf(n, s, standing, overwritten)
  PROVE  /\ Cardinality(WithStatus(status, s) \cap standing) <= n
         /\ n <= Cardinality(WithStatus(status, s) \cup overwritten)
<1> DEFINE lower == WithStatus(status, s) \cap standing
           upper == WithStatus(status, s) \cup overwritten
<1>1. PICK X : Cardinality(X) = n /\ lower \subseteq X /\ X \subseteq upper
  BY DEF CountedOf
<1>2. IsFiniteSet(upper)
  BY GroupIsFinite, FS_Union
<1> HIDE DEF lower, upper
<1>3. IsFiniteSet(X)
  BY <1>1, <1>2, FS_Subset
<1>4. Cardinality(lower) <= Cardinality(X) /\ Cardinality(X) <= Cardinality(upper)
  BY <1>1, <1>2, <1>3, FS_Subset
<1> QED  BY <1>1, <1>4 DEF lower, upper

(* The kind of a request tells what it knows.                              *)
LEMMA Kinds ==
  ASSUME RequestInv
  PROVE  /\ req.kind = "summary" => Counting(req)
         /\ req.kind = "blending" => Blending(req)
         /\ req.kind = "answered" => Answered(req)
         /\ req.kind = "budgets" => Checking(req)
         /\ req.kind = "anomalies" => Scanning(req)
         /\ req.kind = "recent" => Deciding(req)
BY DEF RequestInv, NoRequest, Counting, Blending, Answered, Checking, Scanning, Deciding

(* Every read of a request keeps the invariant.                            *)
LEMMA ReadKeepsRequest ==
  ASSUME ConsoleInv, Read
  PROVE  ConsoleInv'
<1>1. UNCHANGED ledgerVars /\ [LedgerNext]_ledgerVars
  BY DEF Read, Summary, SummaryCount, SummaryUnattributed, SummaryBlended, BudgetsBegin,
         BudgetRead, AnomaliesBegin, BaselineRead, RecentRead, Answer
<1>2. LedgerInv /\ RequestInv
  BY DEF ConsoleInv
<1>3. LedgerInv'
  BY <1>1, <1>2, LedgerStepHolds
<1>4. CASE Summary
  <2>1. PICK total, standing, none :
          /\ total = TotalSpend(events, Since)
          /\ standing = {id \in OutcomeIds : status[id] \in RESOLVED_STATUSES}
          /\ none = {}
    OBVIOUS
  <2>2. req' = [kind |-> "summary", total |-> total, counts |-> <<>>, standing |-> standing,
                overwritten |-> none]
    BY <1>4, <2>1, Zenon DEF Summary
  <2>3. NotAhead(total)
    BY <1>1, <1>2, <1>3, <2>1, TotalSpendGrows DEF NotAhead
  <2>4. Bracketed(<<>>, standing, none)
    BY <2>1, FS_EmptySet DEF Bracketed
  <2>5. NotAhead(total)' /\ Bracketed(<<>>, standing, none)'
    BY <1>1, <1>2, <1>3, <2>3, <2>4, NotAheadStands, BracketedUnchanged DEF ledgerVars
  <2>6. Counting(req)'
    BY <2>2, <2>5 DEF Counting
  <2> QED  BY <1>3, <2>6 DEF ConsoleInv, RequestInv
<1>5. CASE SummaryCount
  <2>1. Counting(req)
    BY <1>2, <1>5, Kinds DEF SummaryCount
  <2>2. PICK total, counts, standing, overwritten :
          /\ req = [kind |-> "summary", total |-> total, counts |-> counts, standing |-> standing,
                    overwritten |-> overwritten]
          /\ NotAhead(total) /\ Bracketed(counts, standing, overwritten)
    BY <2>1 DEF Counting
  <2>3. PICK more : more = Append(counts, CountOf(status, StatusOrder[Len(counts) + 1]))
    OBVIOUS
  <2>4. Bracketed(more, standing, overwritten)
    BY <1>2, <1>5, <2>2, <2>3, CountedNext DEF SummaryCount
  <2>5. NotAhead(total)' /\ Bracketed(more, standing, overwritten)'
    BY <1>1, <1>2, <1>3, <2>2, <2>4, NotAheadStands, BracketedUnchanged DEF ledgerVars
  <2>6. req' = [kind |-> "summary", total |-> total, counts |-> more, standing |-> standing,
                overwritten |-> overwritten]
    BY <1>5, <2>2, <2>3 DEF SummaryCount
  <2>7. Counting(req)'
    BY <2>5, <2>6 DEF Counting
  <2> QED  BY <1>3, <2>7 DEF ConsoleInv, RequestInv
<1>6. CASE SummaryUnattributed
  <2>1. Counting(req)
    BY <1>2, <1>6, Kinds DEF SummaryUnattributed
  <2>2. PICK total : req.total = total /\ NotAhead(total)
    BY <2>1 DEF Counting
  <2>3. PICK n : n = UnattributedEventCount(events, Dims, Since)
    OBVIOUS
  <2>4. NotAheadUnattributed(n)
    BY <1>1, <1>2, <1>3, <2>3, UnattributedGrow DEF NotAheadUnattributed
  <2>5. NotAhead(total)' /\ NotAheadUnattributed(n)'
    BY <1>1, <1>2, <1>3, <2>2, <2>4, NotAheadStands
  <2>6. req' = [kind |-> "blending", total |-> total, unattributed |-> n]
    BY <1>6, <2>2, <2>3 DEF SummaryUnattributed
  <2>7. Blending(req)'
    BY <2>5, <2>6 DEF Blending
  <2> QED  BY <1>3, <2>7 DEF ConsoleInv, RequestInv
<1>7. CASE SummaryBlended
  <2>1. Blending(req)
    BY <1>2, <1>7, Kinds DEF SummaryBlended
  <2>2. PICK total, n : /\ req.total = total /\ req.unattributed = n
                        /\ NotAhead(total) /\ NotAheadUnattributed(n)
    BY <2>1 DEF Blending
  <2>3. PICK blended : blended = Blended(By("feature", Since, Unbounded))
    OBVIOUS
  <2>4. NotAhead(total)' /\ NotAheadUnattributed(n)'
    BY <1>1, <1>2, <1>3, <2>2, NotAheadStands
  <2>5. req' = [kind |-> "answered", total |-> total, unattributed |-> n, blended |-> blended]
    BY <1>7, <2>2, <2>3 DEF SummaryBlended
  <2>6. Answered(req)'
    BY <2>4, <2>5 DEF Answered
  <2> QED  BY <1>3, <2>6 DEF ConsoleInv, RequestInv
<1>8. CASE BudgetsBegin
  <2>1. PICK began : began = SpendBreaches
    OBVIOUS
  <2>2. began \in SUBSET BudgetSet /\ began \subseteq SpendBreaches'
    BY <1>1, <1>2, <1>3, <2>1, SpendBreachesGrow DEF SpendBreaches, CheckBudgets
  <2>3. req' = [kind |-> "budgets", left |-> BudgetSet, found |-> {}, began |-> began]
    BY <1>8, <2>1 DEF BudgetsBegin
  <2>4. PICK none \in SUBSET BudgetSet : none = {}
    OBVIOUS
  <2>5. began \ BudgetSet \subseteq none /\ {b \in none : b.metric = SPEND} \subseteq SpendBreaches'
    BY <2>2, <2>4
  <2>6. Checking(req)'
    BY <2>2, <2>3, <2>4, <2>5 DEF Checking
  <2> QED  BY <1>3, <2>6 DEF ConsoleInv, RequestInv
<1>9. ASSUME NEW b \in BudgetSet, BudgetRead(b)
      PROVE  ConsoleInv'
  <2>1. Checking(req)
    BY <1>2, <1>9, Kinds DEF BudgetRead
  <2>2. PICK left, found, began \in SUBSET BudgetSet :
          /\ req = [kind |-> "budgets", left |-> left, found |-> found, began |-> began]
          /\ began \subseteq SpendBreaches
          /\ began \ left \subseteq found
          /\ {x \in found : x.metric = SPEND} \subseteq SpendBreaches
    BY <2>1 DEF Checking
  <2>3. PICK more : more = IF Breaches(events, status, b) THEN found \cup {b} ELSE found
    OBVIOUS
  <2>4. req' = [kind |-> "budgets", left |-> left \ {b}, found |-> more, began |-> began]
    BY <1>9, <2>2, <2>3 DEF BudgetRead
  <2>5. SpendBreaches \subseteq SpendBreaches'
    BY <1>1, <1>2, <1>3, SpendBreachesGrow
  <2>6. b \in SpendBreaches <=> Breaches(events, status, b) /\ b.metric = SPEND
    BY DEF SpendBreaches, CheckBudgets
  <2>7. /\ left \ {b} \in SUBSET BudgetSet /\ more \in SUBSET BudgetSet
        /\ began \ (left \ {b}) \subseteq more
        /\ {x \in more : x.metric = SPEND} \subseteq SpendBreaches
    BY <2>2, <2>3, <2>6
  <2>8. Checking(req)'
    BY <2>2, <2>4, <2>5, <2>7 DEF Checking
  <2> QED  BY <1>3, <2>8 DEF ConsoleInv, RequestInv
<1>10. CASE AnomaliesBegin
  <2>1. Scanning(req')
    BY <1>10 DEF AnomaliesBegin, Scanning
  <2> QED  BY <1>3, <2>1 DEF ConsoleInv, RequestInv, Scanning
<1>11. ASSUME NEW v \in FEATURES, BaselineRead(v)
       PROVE  ConsoleInv'
  <2>1. Scanning(req)
    BY <1>2, <1>11, Kinds DEF BaselineRead
  <2>2. PICK left, found \in SUBSET FEATURES :
          left \cap found = {} /\ req = [kind |-> "anomalies", left |-> left, found |-> found]
    BY <2>1 DEF Scanning
  <2>3. PICK base : base = RowOr0(Baseline(events, status, "feature"), v)
    OBVIOUS
  <2>4. /\ req' = [kind |-> "recent", left |-> left \ {v}, found |-> found, value |-> v,
                   baseline |-> base, live |-> TRUE]
        /\ v \in left
    BY <1>11, <2>2, <2>3 DEF BaselineRead
  <2>5. base = RowOr0(Baseline(events', status', "feature"), v)
    BY <1>1, <2>3 DEF ledgerVars
  <2>6. /\ left \ {v} \in SUBSET FEATURES /\ (left \ {v}) \cap found = {}
        /\ v \notin (left \ {v}) \cup found
    BY <2>2, <2>4
  <2>7. Deciding(req)'
    BY <2>4, <2>5, <2>6 DEF Deciding
  <2> QED  BY <1>3, <2>7 DEF ConsoleInv, RequestInv
<1>12. CASE RecentRead
  <2>1. Deciding(req)
    BY <1>2, <1>12, Kinds DEF RecentRead
  <2>2. PICK left, found \in SUBSET FEATURES, v \in FEATURES, live \in BOOLEAN :
          /\ left \cap found = {}
          /\ v \notin left \cup found
          /\ req = [kind |-> "recent", left |-> left, found |-> found, value |-> v,
                    baseline |-> req.baseline, live |-> live]
    BY <2>1 DEF Deciding
  <2>3. \/ req' = [kind |-> "anomalies", left |-> left, found |-> found \cup {v}]
        \/ req' = [kind |-> "anomalies", left |-> left, found |-> found]
    BY <1>12, <2>2 DEF RecentRead
  <2>4. Scanning(req')
    BY <2>2, <2>3 DEF Scanning
  <2> QED  BY <1>3, <2>4 DEF ConsoleInv, RequestInv, Scanning
<1>13. CASE Answer
  BY <1>3, <1>13 DEF Answer, ConsoleInv, RequestInv
<1> QED  BY <1>4, <1>5, <1>6, <1>7, <1>8, <1>9, <1>10, <1>11, <1>12, <1>13 DEF Read

(* Every write in between keeps the invariant.                             *)
LEMMA WriteKeepsRequest ==
  ASSUME ConsoleInv, Write \/ UNCHANGED consoleVars
  PROVE  ConsoleInv'
<1>1. LedgerInv /\ RequestInv /\ [LedgerNext]_ledgerVars
  BY DEF Write, ConsoleInv, consoleVars, ledgerVars
<1>2. LedgerInv'
  BY <1>1, LedgerStepHolds
<1>3. req.kind \notin {"recent", "summary"} => req' = req
  BY DEF Write, consoleVars
<1>4. CASE req = NoRequest
  BY <1>2, <1>3, <1>4 DEF NoRequest, ConsoleInv, RequestInv
<1>5. CASE Counting(req)
  <2>1. PICK total, counts, standing, overwritten :
          /\ req = [kind |-> "summary", total |-> total, counts |-> counts, standing |-> standing,
                    overwritten |-> overwritten]
          /\ NotAhead(total) /\ Bracketed(counts, standing, overwritten)
    BY <1>5 DEF Counting
  <2>2. NotAhead(total)'
    BY <1>1, <1>2, <2>1, NotAheadStands
  <2>3. CASE Write
    <3>1. PICK standing2, overwritten2 :
            standing2 = standing \ Replaced /\ overwritten2 = overwritten \cup Replaced
      OBVIOUS
    <3>2. req' = [req EXCEPT !.standing = @ \ Replaced, !.overwritten = @ \cup Replaced]
      <4>1. req.kind = "summary"
        BY <2>1
      <4> QED  BY <2>3, <4>1 DEF Write
    <3>3. req' = [kind |-> "summary", total |-> total, counts |-> counts, standing |-> standing2,
                  overwritten |-> overwritten2]
      BY <2>1, <3>1, <3>2
    <3>4. Bracketed(counts, standing2, overwritten2)'
      BY <1>1, <2>1, <3>1, BracketedStands
    <3>5. Counting(req)'
      BY <2>2, <3>3, <3>4 DEF Counting
    <3> QED  BY <1>2, <3>5 DEF ConsoleInv, RequestInv
  <2>4. CASE UNCHANGED consoleVars
    <3>1. Bracketed(counts, standing, overwritten)' /\ req' = req
      BY <2>1, <2>4, BracketedUnchanged DEF consoleVars
    <3>2. Counting(req)'
      BY <2>1, <2>2, <3>1 DEF Counting
    <3> QED  BY <1>2, <3>2 DEF ConsoleInv, RequestInv
  <2> QED  BY <2>3, <2>4
<1>6. CASE Blending(req)
  <2>1. PICK total, n :
          /\ req = [kind |-> "blending", total |-> total, unattributed |-> n]
          /\ NotAhead(total) /\ NotAheadUnattributed(n)
    BY <1>6 DEF Blending
  <2>2. NotAhead(total)' /\ NotAheadUnattributed(n)'
    BY <1>1, <1>2, <2>1, NotAheadStands
  <2>3. Blending(req)'
    BY <1>3, <2>1, <2>2 DEF Blending
  <2> QED  BY <1>2, <2>3 DEF ConsoleInv, RequestInv
<1>7. CASE Answered(req)
  <2>1. PICK total, n, blended :
          /\ req = [kind |-> "answered", total |-> total, unattributed |-> n, blended |-> blended]
          /\ NotAhead(total) /\ NotAheadUnattributed(n)
    BY <1>7 DEF Answered
  <2>2. NotAhead(total)' /\ NotAheadUnattributed(n)'
    BY <1>1, <1>2, <2>1, NotAheadStands
  <2>3. Answered(req)'
    BY <1>3, <2>1, <2>2 DEF Answered
  <2> QED  BY <1>2, <2>3 DEF ConsoleInv, RequestInv
<1>8. CASE Checking(req)
  <2>1. PICK left, found, began \in SUBSET BudgetSet :
          /\ req = [kind |-> "budgets", left |-> left, found |-> found, began |-> began]
          /\ began \subseteq SpendBreaches
          /\ began \ left \subseteq found
          /\ {x \in found : x.metric = SPEND} \subseteq SpendBreaches
    BY <1>8 DEF Checking
  <2>2. SpendBreaches \subseteq SpendBreaches'
    BY <1>1, <1>2, SpendBreachesGrow
  <2>3. Checking(req)'
    BY <1>3, <2>1, <2>2 DEF Checking
  <2> QED  BY <1>2, <2>3 DEF ConsoleInv, RequestInv
<1>9. CASE Scanning(req)
  <2>1. req' = req
    BY <1>3, <1>9 DEF Scanning
  <2>2. Scanning(req)'
    BY <1>9, <2>1 DEF Scanning
  <2> QED  BY <1>2, <2>2 DEF ConsoleInv, RequestInv
<1>10. CASE Deciding(req)
  <2>1. PICK left, found \in SUBSET FEATURES, v \in FEATURES, live \in BOOLEAN :
          /\ left \cap found = {}
          /\ v \notin left \cup found
          /\ req = [kind |-> "recent", left |-> left, found |-> found, value |-> v,
                    baseline |-> req.baseline, live |-> live]
          /\ live => req.baseline = RowOr0(Baseline(events, status, "feature"), v)
    BY <1>10 DEF Deciding
  <2> DEFINE onlyRecent == /\ status' = status
                           /\ \A e \in events' \ events : e.timestamp >= Now - RecentWindow
             live2 == live /\ onlyRecent
  <2>2. PICK live3 \in BOOLEAN :
          /\ live3 => live2
          /\ req' = [kind |-> "recent", left |-> left, found |-> found, value |-> v,
                     baseline |-> req.baseline, live |-> live3]
    <3>1. CASE Write
      <4>1. req' = [req EXCEPT !.live = req.live /\ status' = status
                      /\ \A e \in events' \ events : e.timestamp >= Now - RecentWindow]
        <5>1. req.kind = "recent"
          BY <2>1
        <5> QED  BY <3>1, <5>1, Zenon DEF Write
      <4>2. req' = [req EXCEPT !.live = live2]
        <5>1. req.live = live
          BY <2>1
        <5> QED  BY <4>1, <5>1, Zenon
      <4>3. live2 \in BOOLEAN
        OBVIOUS
      <4> HIDE DEF live2
      <4>4. req' = [kind |-> "recent", left |-> left, found |-> found, value |-> v,
                    baseline |-> req.baseline, live |-> live2]
        BY <2>1, <4>2
      <4> QED  BY <4>3, <4>4
    <3>2. CASE UNCHANGED consoleVars
      <4>1. onlyRecent /\ req' = req
        BY <3>2 DEF consoleVars
      <4> HIDE DEF onlyRecent
      <4> QED  BY <2>1, <4>1
    <3> QED  BY <3>1, <3>2
  <2>3. live2 => req.baseline = RowOr0(Baseline(events', status', "feature"), v)
    BY <1>1, <1>2, <2>1, LedgerGrows, RecentKeepsBaseline
  <2> HIDE DEF live2
  <2>4. Deciding(req)'
    BY <2>1, <2>2, <2>3 DEF Deciding
  <2> QED  BY <1>2, <2>4 DEF ConsoleInv, RequestInv
<1> QED  BY <1>1, <1>4, <1>5, <1>6, <1>7, <1>8, <1>9, <1>10 DEF RequestInv

-----------------------------------------------------------------------------
(* What ConsoleInv rests on, once for the theorems below.                  *)
LEMMA ConsoleInvariant == ConsoleSpec => []ConsoleInv
<1>1. ConsoleInit => ConsoleInv
  BY LedgerInitHolds DEF ConsoleInit, ConsoleInv, RequestInv
<1>2. ConsoleInv /\ [ConsoleNext]_consoleVars => ConsoleInv'
  BY ReadKeepsRequest, WriteKeepsRequest DEF ConsoleNext
<1> QED  BY <1>1, <1>2, PTL DEF ConsoleSpec

(* For any number of writes between any two of its reads, a summary shows  *)
(* no spend and no unattributed event the ledger does not have, and counts *)
(* every outcome whose resolution stood throughout, and no other but those *)
(* that have the status now or lost it to an overwriting UPDATE            *)
(* (app.py:102-126, store.py:95-98, 111-114).                              *)
THEOREM SummaryIsAlwaysBracketed == ConsoleSpec => []SummaryIsBracketed
<1>1. ConsoleInv => SummaryIsBracketed
  <2> SUFFICES ASSUME ConsoleInv
               PROVE  SummaryIsBracketed
    OBVIOUS
  <2>1. req.kind = "summary" => Counting(req)
    BY Kinds DEF ConsoleInv
  <2>2. req.kind = "blending" => Blending(req)
    BY Kinds DEF ConsoleInv
  <2>3. req.kind = "answered" => Answered(req)
    BY Kinds DEF ConsoleInv
  <2>4. Counting(req) => /\ req.total <= TotalSpend(events, Since)
                         /\ Bracketed(req.counts, req.standing, req.overwritten)
    BY DEF Counting, NotAhead
  <2>5. Blending(req) \/ Answered(req) =>
          /\ req.total <= TotalSpend(events, Since)
          /\ req.unattributed <= UnattributedEventCount(events, Dims, Since)
    BY DEF Blending, Answered, NotAhead, NotAheadUnattributed
  <2>6. req.kind = "summary" =>
          \A i \in DOMAIN req.counts : StatusOrder[i] \in RESOLVED_STATUSES =>
            /\ Cardinality(WithStatus(status, StatusOrder[i]) \cap req.standing) <= req.counts[i]
            /\ req.counts[i] <= Cardinality(WithStatus(status, StatusOrder[i]) \cup req.overwritten)
    BY <2>1, <2>4, CountedIsBetween DEF Bracketed, ConsoleInv
  <2> QED  BY <2>1, <2>2, <2>3, <2>4, <2>5, <2>6 DEF SummaryIsBracketed
<1> QED  BY <1>1, ConsoleInvariant, PTL

(* The same of check_budgets: whatever is written between two turns of its *)
(* loop, no spend breach that stood at the start is missed and none is     *)
(* reported that the ledger does not have (budgets.py:41-55).              *)
THEOREM SpendReportsAreAlwaysBracketed == ConsoleSpec => []SpendReportsAreBracketed
<1>1. ConsoleInv => SpendReportsAreBracketed
  <2> SUFFICES ASSUME ConsoleInv, req.kind = "budgets"
               PROVE  /\ req.began \ req.left \subseteq req.found
                      /\ {b \in req.found : b.metric = SPEND} \subseteq SpendBreaches
    BY DEF SpendReportsAreBracketed
  <2>1. Checking(req)
    BY Kinds DEF ConsoleInv
  <2> QED  BY <2>1 DEF Checking
<1> QED  BY <1>1, ConsoleInvariant, PTL

(* The console's blended unit cost is within half a millionth of the       *)
(* contract's quotient over every feature of the day, for any ledger       *)
(* without a propagation bug and any number of features: the features'     *)
(* rounding errors do not add up (app.py:110-115, outcome-contract.md:79-87).*)
THEOREM BlendedAlwaysErrsByRoundingOnly == ConsoleSpec => BlendedErrsByRoundingOnly
<1>1. ConsoleInv => [SummaryBlended /\ KeepsToOneFeature =>
        LET day     == Between(events, Since, Unbounded)
            blended == req'.blended IN
          /\ blended.outcomes = Cardinality({id \in OutcomesIn(day) : status[id] = SUCCEEDED})
          /\ 2 * Micro * blended.cost <= 2 * ContractNumerator(day) + Micro * blended.outcomes
          /\ 2 * ContractNumerator(day) <= 2 * Micro * blended.cost + Micro * blended.outcomes]_consoleVars
  <2> SUFFICES ASSUME ConsoleInv, SummaryBlended, KeepsToOneFeature
               PROVE  LET day     == Between(events, Since, Unbounded)
                          blended == req'.blended IN
                        /\ blended.outcomes = Cardinality({id \in OutcomesIn(day) : status[id] = SUCCEEDED})
                        /\ 2 * Micro * blended.cost <= 2 * ContractNumerator(day) + Micro * blended.outcomes
                        /\ 2 * ContractNumerator(day) <= 2 * Micro * blended.cost + Micro * blended.outcomes
    OBVIOUS
  <2>1. PICK rows : rows = By("feature", Since, Unbounded)
    OBVIOUS
  <2>2. req'.blended = Blended(rows)
    BY <2>1 DEF SummaryBlended
  <2>3. Blended(rows).outcomes
          = Cardinality({id \in OutcomesIn(Between(events, Since, Unbounded)) : status[id] = SUCCEEDED})
    BY <2>1, BlendedCount DEF ConsoleInv
  <2>4. Within(Micro, Blended(rows).cost, ContractNumerator(Between(events, Since, Unbounded)),
               Blended(rows).outcomes)
    BY <2>1, BlendedCost DEF ConsoleInv
  <2> QED  BY <2>2, <2>3, <2>4 DEF Within
<1> QED  BY <1>1, ConsoleInvariant, PTL DEF ConsoleSpec, BlendedErrsByRoundingOnly

(* Between the two reads of a feature only backdated traffic or a          *)
(* resolution can change what an alarm means: for any windows, ratio,      *)
(* features and number of writes, an alarm decided over recent traffic is  *)
(* the one the ledger justifies at the decision (budgets.py:96-113).       *)
THEOREM LiveAlarmsAreAlwaysTrue == ConsoleSpec => LiveAlarmsAreTrue
<1>1. ConsoleInv => [RecentRead /\ req.live =>
        (req.value \in req'.found) = (req.value \in DetectAnomalies(events, status, "feature"))]_consoleVars
  <2> SUFFICES ASSUME ConsoleInv, RecentRead, req.live
               PROVE  (req.value \in req'.found) = (req.value \in DetectAnomalies(events, status, "feature"))
    OBVIOUS
  <2> DEFINE B == Baseline(events, status, "feature")
             R == Recent(events, status, "feature")
  <2>1. req.kind = "recent"
    BY DEF RecentRead
  <2>2. PICK left, found \in SUBSET FEATURES, v \in FEATURES, live \in BOOLEAN :
          /\ v \notin found
          /\ req = [kind |-> "recent", left |-> left, found |-> found, value |-> v,
                    baseline |-> req.baseline, live |-> live]
          /\ live => req.baseline = RowOr0(B, v)
    BY <2>1, Kinds DEF ConsoleInv, Deciding
  <2>3. req.value = v /\ req.baseline = RowOr0(B, v)
    BY <2>2
  <2>4. req'.found = IF IsAnomaly(RowOr0(B, v), RowOr0(R, v)) THEN found \cup {v} ELSE found
    BY <2>2, <2>3 DEF RecentRead
  <2>5. v \in req'.found <=> IsAnomaly(RowOr0(B, v), RowOr0(R, v))
    BY <2>2, <2>4
  <2>6. v \in req'.found <=> v \in DetectAnomalies(events, status, "feature")
    BY <2>5, FlaggedIs
  <2> QED  BY <2>3, <2>6
<1> QED  BY <1>1, ConsoleInvariant, PTL DEF ConsoleSpec, LiveAlarmsAreTrue

=============================================================================
