# Verification of llm-cost-observability

TLA+ models of `costkit`, the Python package that turns model calls into cost
events and cost events into cost per outcome, and of the way the console runs
it. TLC checks the models on small instances; TLAPS proves, for every instance,
all the safety properties, action properties and refinements that hold.

## 1. The system

| Part | State | Operations | Talks to |
|---|---|---|---|
| `costkit/outcome.py` | an `Outcome` record: status, `opened_at`, window, `resolved_at` | `resolve`, `sweep_abandoned` (both on a local copy) | called by the store |
| `costkit/store.py`, writes | two SQLite tables on **one** connection, `check_same_thread=False` | `open_outcome`, `resolve_outcome`, `sweep_abandoned`, `insert_cost_event`: one or more statements, then `commit()` | outcome record |
| `costkit/store.py`, reads | none | `total_spend`, `spend_and_unit_cost_by`, `cost_per_outcome_timeseries`, `unattributed_event_count`, listings | the two tables |
| `costkit/pricing.py` | `RateTable._rows`, in memory | `add`, `lookup`, `get` | called by the boundary |
| `costkit/boundary.py` | none of its own | `call`: dimensions, rate lookup, model call, cost event, insert | context, pricing, model, store |
| `costkit/schema.py` | none | `CostEvent.__post_init__` validity rules | built by the boundary |
| `costkit/context.py` | five context variables per thread | `dimensions` (set, restore), `current` | read by the boundary |
| `costkit/stub_model.py` | a random generator | `call` answers or raises `ModelCallError` | called by the boundary |
| `costkit/traffic.py` | local variables of a batch | `generate_traffic`: open, up to three attempts, resolve, per task | boundary, store |
| `costkit/budgets.py` | none | `check_budgets`, `detect_anomalies` | store reads |
| `console/app.py` | the module's one rate table and one store | startup batch, read endpoints, `POST /api/demo/retry-storm` starts a batch | everything above |
| `console/static/index.html` | what it shows | polls the endpoints | the console |
| `eval/` | none | four drills: run a batch, compare the numbers | everything above |

The endpoints are plain `def` functions, so the web framework runs them in a
pool of threads: batches and reads run at the same time on one store, one
connection and one rate table, and no lock is taken anywhere.

What is hard in it:

* **interleaving** of store methods: read-check-write without a transaction of
  its own, on a connection whose `commit()` publishes everybody's statements;
* **crashes** between a statement and its commit, or between the attempts of a
  task and its resolution, when `COST_DB_PATH` names a file;
* **stale reads**: the price basis is looked up before the model call and used
  after it;
* **partial failure**: the model was called and charged, and recording fails;
* **retries** that must be numbered, durable one by one, bounded, and summed up
  in the right status;
* **scopes**: dimensions set by nested blocks, left by exceptions, in threads
  that must not see each other's;
* **answers read piece by piece** from a ledger that batches write meanwhile;
* **late bookkeeping**: events and resolutions reach the tables in any order,
  and queries cut them with half-open windows;
* **something that must eventually happen**: a pending outcome must be closed.

What makes each part correct:

* store: an outcome's row tells one story; what a method returned is durable;
  the file never goes back; one thread sees atomic, crash-safe methods;
* pricing: one price for a call, for ever; exact hand-over;
* boundary: each charged call is recorded exactly once, with a cost that can be
  recomputed, before its caller knows;
* traffic: whole tasks in the file whatever interleaves or crashes;
* context: a call carries the label of the innermost block that sets one, and
  a block leaves nothing behind;
* console: no number it publishes was never true;
* queries and detectors: no spend lost or counted twice, the contract's
  quotient up to the last decimal kept, alarms that do not depend on accidents of timing.

## 2. The modules

```
Outcome ──┬── OutcomeContract (abstract)        Queries ── Ledger ── Budgets ── Console
          │        ▲ implemented by                ▲             (MCBudgets)  (MCConsole)
          └── CostStore ── CostStoreProofs         └── Outcome  │                  │
                  │  (MCCostStore)   │                    LedgerProofs ────── ConsoleProofs
  Pricing ────────┤                  │
  │ (MCPricing)   ▼                  ▼               LexicalScopes (abstract)
  │           Boundary ────── BoundaryProofs              ▲ implemented by
  │          (MCBoundary)            │               Context ── ContextProofs
  │               ▼                  ▼               (MCContext)
  │            Traffic ─────── TrafficProofs ── StoryProofs
  └ PricingProofs (MCTraffic)
```

**Outcome** — the record's methods as pure operators. `CanResolve` is where
`resolve` returns, `Resolution` is what both transitions write,
`IsPastResolutionWindow` the sweep's test. Instants are natural numbers.

**OutcomeContract** — the abstract specification: opening, resolving and
sweeping are single atomic steps on `outcomes`.

**CostStore** — one SQLite statement per step. `outcomes` and `events` are the
tables as the connection sees them, `savedOutcomes` and `savedEvents` what a
restart finds in the file, `op[w]` where worker `w` is inside a method and what
it holds in local variables, `returned` a history of what methods promised.

| code | actions |
|---|---|
| `open_outcome` | `OpenExecute`, `Commit` |
| `resolve_outcome` | `ResolveRead` (SELECT, local `resolve`), `ResolveUpdate`, `Commit` |
| `sweep_abandoned` | `SweepRead` (SELECT, `fetchall`, window test), `SweepUpdate` per row, `SweepDone`, `Commit` |
| `insert_cost_event` | `InsertExecute`, `Commit` |
| process dies and restarts | `Crash` |

A method that raises does so before its first write, so a refusal is the
absence of a step (callers that react to it, in `Traffic`, have an action for
it). Python's sqlite3 opens a transaction implicitly before the first INSERT or
UPDATE; `Commit` ends the connection's, not the worker's. The rows of one
`fetchall` are read in one step, and the rows a sweep updates in any order.

**Pricing** — `rates` is the list of rows; `AddRate` is `add`, which checks
nothing; `CanLookup`/`Lookup` and `CanGet`/`Get` say when the two queries return
and what. A row's three rates are one `card`.

**Boundary** — `InstrumentationBoundary.call` cut where other threads can run:
`BeginCall` (context and lookup), `ModelCall` (the model answers or fails, cost
and event are computed locally) or `ModelRefuses`, `InsertEvent`,
`EventCommitted`, `Return`. `billed` and `dropped` are history: the calls the
provider charged, and those whose event was invalid or died with the process. What a
crash may take is computed from the calls in progress, before their INSERT (`InFlight`) or
between it and the end of their commit (`Uncommitted`), and not from what is missing
afterwards: an event missing from a file after its call returned would be unaccounted for.
`AddNewRate` is a rate added while calls are made; `BoundaryCrash` loses the
in-memory rate table. The uuid of an event is a fresh member of `EventIds`.
`BoundarySpec` has callers only. `SharedSpec` adds `Elsewhere`, what a thread outside
any call does to the store on the same connection; it is what the theorems are about,
because whatever program is built on store and boundary refines it. `Reconciles` is the
check of the reconciliation drill (`eval/run_attribution_reconciliation.py:70-79`),
which a stored event must pass for `CostsAreReproducible`.

**Traffic** — `generate_traffic` in several threads (`Batches`), and threads
that call `sweep_abandoned` (`Sweepers`). `task[b]` are the loop's local
variables. Any exception but `CallFailedError` ends the batch (`CallRaised`,
`ResolveRaised`), leaving its outcome as it is. Random draws, and the scenario
switches that bias them, are nondeterministic choices; back-offs are `Delays`,
at most `MaxDelay` each. `SharesTheStore` is the refinement of `SharedSpec`.

**LexicalScopes** — the abstract specification of `costkit/context.py`: each thread
has the blocks it is in, and a call is labelled by the innermost block that sets a
dimension, by the sentinel when none does.

**Context** — `dimensions()` as it is written: `current[w]` are the context variables
as thread `w` gets them, `blocks[w]` the tokens of its open blocks. `Enter` keeps in
a token what `current()` had and sets the variable; `Leave`, the `finally`, resets them, at
the end of the block as after an exception; `Call` takes `current()`. The refinement
mapping reads the scopes off the tokens: what a block set is what the next token of
that dimension will put back, or the variable itself.

**Queries, Ledger** — the reading side as functions of the tables, and the
tables as the queries meet them: events and outcomes in any order, events whose
outcome has no row, is unresolved, or is the `unattributed` sentinel. `CloseOutcome` is
the UPDATE of `resolve_outcome` or `sweep_abandoned`, which tests no status: a resolution may
replace another, as `store_overwrite` shows it can. Of the
five dimensions two are kept, one with a sentinel value. Costs are naturals, `Micro` of
them to a millionth. A `SliceRow` holds the sums and counts of the SELECT; what callers are
given, `RoundedSpend` and `CostPerOutcome`, is `Nearest`, Python's `round(x, 6)` as a whole number of
millionths, ties to even. Only float sums and the float's own representation are left out.

**Budgets** — `CheckBudgets` and `DetectAnomalies` as functions of one ledger, on the
rounded numbers as in the code.

**Console** — the endpoints that read the store more than once, query by query, on a
ledger that `Write` changes in between: `api_summary` (spend, the status groups one
by one in the order of the index on status, unattributed events, rows by feature),
`api_budgets` (a query per budget, in any order), `api_anomalies` (two queries per feature).
`req` is the request in progress; its fields `began`, `live`, `standing` and `overwritten` are
history. One request at a time is enough, since requests write nothing. `Blended` weights
the features' rounded unit costs with their succeeded outcomes, as app.py:112-114 does.

The modules named `...Proofs` hold the theorems of section 4.

## 3. What TLC checks

Every property has a mutant: a changed definition beside the real one (an
operator whose comment says "Mutant of") with which TLC finds it violated.

| run | instance | what holds |
|---|---|---|
| `store_races` | 2 workers, 2 outcomes, 1 event, crashes, file | `StoreTypeOK`, `RowsCoherent`, `ReturnedIsDurable`, `DurableNeverReopens` |
| `store_contract` | 1 worker, 2 outcomes, windows 0 and 1 | `ImplementsContract` |
| `pricing_table` | up to 3 arbitrary rows, 2 tiers, 2 ids, 3 instants | `HandoverIsExact`, `NeverRepriced`, `RateTypeOK` |
| `boundary_calls` | 2 workers, every argument including invalid ones, a rate added between lookup and insert, memory database, restarts | `BilledIsAccountedFor`, `CostsAreReproducible`, `BoundaryTypeOK` |
| `traffic_batches` | 2 batches, 2 tasks, 3 attempts, file, 1 crash, no sweep | `DurableStory`, `OwnersNeverCollide`, `CallerSeesDurableEvent`, `TrafficTypeOK` |
| `traffic_closes` | 1 batch and 1 sweeper, fairly scheduled, 2 tasks, 2 attempts, file, 1 crash | `DurableStory`, `EveryOutcomeCloses`, `SharesTheStore` |
| `context_blocks` | 2 threads, blocks nested two deep, every subset of 2 dimensions | `NothingLeaks`, `ImplementsScopes`, `ContextTypeOK` |
| `ledger_queries` | every ledger of up to 3 events, a spend and a unit-cost budget | `SlicesSumToTotal`, `WindowsPartition`, `UnitCostIsTheContracts`, `BucketsPartition`, `RetriesRaiseUnitCost`, `AlarmsErrByRoundingOnly`, `RecentNeverDilutesBaseline`, `SpendBreachesStand`, `LedgerTypeOK` |
| `console_requests` | every ledger of up to 2 events and 2 outcomes, one request at a time while it grows | `SummaryIsBracketed`, `BlendedErrsByRoundingOnly`, `SpendReportsAreBracketed`, `LiveAlarmsAreTrue` |

What three of these properties claim needs a word, because the code rounds and overwrites.

* `SummaryIsBracketed`. A resolved outcome can be overwritten by another resolution during a
  request, so the count of a status may fall and two groups may be out of step. The
  property follows the outcomes: a count has at least those whose resolution
  stood from the start of the request until now (`standing`), and at most those that have the status now or were overwritten
  meanwhile (`overwritten`).
* `AlarmsErrByRoundingOnly`. The detector divides numbers rounded to six decimals. An
  alarm is right about the contract's unit costs but for half a millionth of each, and a
  rise that clears both halves is flagged. Costs 1 and 7 with three units to a millionth
  make baselines that round to 0, to less and to more than they are.
* `BlendedErrsByRoundingOnly`. Multiplying a rounded unit cost back by its outcomes gives up to
  half a millionth per outcome; divided by all outcomes again that is half a millionth in all. Costs 2 and 7
  with two units to a millionth give quotients that are rounded, ties included.

`BilledIsAccountedFor` is run with the in-memory database, which a crash takes whole; that with
a file a crash takes only the calls in progress is the theorem `EveryBillIsAccountedFor`.

`CostsAreReproducible` is checked with the in-memory database: with a file, a
restart would keep the events and lose the rates added at run time, which
nothing in the program adds (the console seeds its two rows at every start).

Why the bounds are enough. A race in the store needs two workers on one
outcome; the second outcome lets a sweep be interrupted between two rows, and
instants 0 and 1 with window 1 have a sweep that is due and one that is not.
An overlap needs two rows, a gap or a hand-over beside another row three. A
retry story needs a first, a middle and a last attempt (three in
`traffic_batches`, as in the code); one crash suffices because a restarted
process has no memory but the file, which the next behaviour starts from.
In the traffic runs the
only price row stops at instant 2, so a late retry cannot be priced and aborts
its batch. Three events are an outcome with a retry and another outcome in the same slice.
Two nested blocks have an outer value to restore, and two dimensions a block that
sets one and not the other; a third block would find what the second does. A request sees a
moving ledger as soon as one event or one resolution falls between two of its reads, and
two events make the baseline and the recent window differ.
`MaxRows`, `MaxEvents`, `MaxDepth` and `MaxCrashes` are the only artificial guards; `Micro` is a
unit of measure, small so that few events are enough to meet every rounding. The
runs that stop (a full rate table, a full ledger, all ids used) say so with
`CHECK_DEADLOCK FALSE`.

**Fairness** (`FairTrafficSpec`): weak fairness for each batch thread and each
sweep thread, since the operating system runs every runnable thread and a
sweep job calls the method again and again. Nothing forces a crash, and no
fairness is assumed about which random draw is made. The
repository has `sweep_abandoned` but nothing that calls it, so
`traffic_closes` is about a deployment that adds the job the outcome contract
asks for.

### Where the code and its documents disagree

Each of these runs checks a sentence of the repository and ends with a
counterexample; `PROJECT.json` has the quotations.

| run | sentence | behaviour |
|---|---|---|
| `store_overwrite` | a resolved outcome is immutable | two threads read `pending`; the second UPDATE replaces a durable resolution |
| `ledger_unattributed` | `unattributed_events_24h` | the 24 hours restrict one disjunct of six |
| `budgets_storm` | a retry storm still trips something | when nothing succeeds both detectors skip the slice |

More disagreements show in the definitions themselves, so no run repeats them:

* `AddRate` closes nothing, while pricing.py:4-5 and
  docs/contracts/pricing-abstraction.md:64-65 have a price change close the previous
  row. After `add` alone, `lookup` raises for the instants both rows cover.
* `IsAnomaly` divides unit costs that are rounded to six decimals (store.py:237) and skips a
  baseline that rounds to 0, so the same traffic at a multiple of its price may be judged
  otherwise; budgets.py:77-79 has an anomaly "regardless of absolute level".
  `AlarmsErrByRoundingOnly` says by how much.
* Nothing in the program calls `sweep_abandoned`, which
  docs/contracts/outcome-contract.md:57-62 wants to run: the outcome of a batch that
  aborts or crashes stays pending for ever (`Traffic` with `Sweepers = {}`).
* `InstrumentationBoundary.call` looks the rate up before it asks the model, and
  raises when there is none (`BeginCall`); ADR-0004 says that emitting a cost
  event must never "be able to fail, the underlying call"
  (docs/adr/0004-instrument-at-the-boundary.md:41-42).
* `ComputeCost` charges cached input tokens at the input rate and at the cached
  rate, as the formula of docs/contracts/pricing-abstraction.md:30-32 does;
  cost-event-schema.md:23 calls them the "subset of `input_tokens` served at the
  cached rate", and pricing-abstraction.md:20 sets both rates equal for a provider
  that has no cached rate, whose cached input would then be charged twice.
* `SliceRow` has succeeded outcomes only in the numerator, as the formula of
  docs/contracts/outcome-contract.md:83-86; lines 29-31 and ADR-0003:28-29 say that
  a failed task contributes its cost to it.
* `Between` selects events, not tasks: when a window cuts through a task's
  attempts, its cost is counted in part and its outcome as a whole, while
  store.py:187-189 calls the result exact.

## 4. What TLAPS proves

All theorems hold for every value of the constants under the modules' named
assumptions (instants and windows are natural numbers, rate cards are natural).

`CostStoreProofs`, for any number of workers and crashes:

* `StoreTypeCorrect` — the type invariant, one step per action.
* `StoreInvariant` — the inductive invariant `StoreInv`. `RowsCoherent` alone is
  not inductive: a sweep's UPDATE writes a row its worker read long ago. The
  missing part is `OpSound`: the rows a worker still has to write exist and are
  past their window at its instant (`opened_at` and the window never change, so
  this stays true whatever others do), and the promise of a worker about to
  commit already holds in the tables. `TablesAhead` says the tables are the
  file plus statements (`Follows` row by row), which carries `OpSound` and the
  promises over a commit and, because rows of the file only move forward, over a
  crash. The lemma `WorkerStep` shows once that every step of a worker moves the
  tables forward; `KeptForward` and `OpSoundForward` show that this preserves
  promises and the other workers' local state.
* `RowsStayCoherent`, `ReturnedStaysDurable`, `DurableOnlyGrows` follow from it.
* `OneWorkerImplementsContract` — under `Alone` (one worker, a database file) the
  refinement of `OutcomeContract` by `savedOutcomes`. The invariant `AloneInv` says
  that between methods the tables equal the file, and inside a method that they
  differ by exactly the part of one contract step already executed; `Commit` is
  then that step. Without `Alone` it is false (`store_overwrite`).

`PricingProofs`: `RateTypeCorrect`; `RatesNeverReprice` (appending keeps every
earlier position, so the matches of a lookup only grow, and a lookup that
returned one row either returns it again or raises, and the first row of an id
stays first); `HandoverAlwaysExact`.

`BoundaryProofs`, about `SharedSpec`, so for any callers and any other users of the store:

* `SharedUsesStore` — every step is a store step or leaves the store alone, so the
  store's theorems hold here; `BoundaryTypeCorrect`.
* `EveryBillIsAccountedFor` — the billed ids are the events, the events held by calls
  before their INSERT, and `dropped`, and no two of these share an id. Each
  action moves one id from one part to another. A crash moves those of the calls in
  progress, and nothing else may be missing from the file: that needs `OnlyCallsUnsaved`, an
  invariant of its own, which says that an event the file does not have yet belongs to a call
  between its INSERT and the end of its commit. It holds because a call leaves that place only by
  its commit, which saves the whole table, and a commit by anyone only adds to the file.
* `CallerAlwaysSeesDurableEvent` — inductive with the place of each call: at `commit`
  its event is in the table, at `done` in the file. Neither loses an event except in a
  crash, which ends every call (`EventsGrow`, from the store's `TablesAhead`).
* `CostsStayReproducible` (`ASSUME ~Persistent`) — the basis a call holds since before
  the model answered is still the row its id finds, because rows are only appended and
  the fresh ids of `AddNewRate` are new; with a memory database the
  events die with the rates they name. It rests on the seed rows' ids being distinct.

`TrafficProofs`: `TrafficSharesTheStore`, the refinement of `SharedSpec` (a task
calls and resolves only with arguments the boundary and the store allow: back-offs add up to
at most `MaxDelay` each); `TrafficTypeCorrect`, `TrafficAccountsForBills`.

`StoryProofs`:

* `FileTellsWholeTasks` — `DurableStory` for any number of batches, sweeps, outcomes,
  attempts and crashes. The property speaks of the file only, so `StoryInv` adds three
  things: the tables tell whole tasks too, since a commit of any thread makes
  them the file; `InTask` and `InResolve`, that the tables hold exactly the attempts
  the batch's local variables say were made, in order, so the next event extends
  the story and the resolution fits it; and `OneOwner`, that no two batches work on one
  outcome, without which one batch's attempt would falsify the other's count.
* `OwnersNeverCollideAlone` (`ASSUME Sweepers = {}`) — although `resolve_outcome` may
  overwrite, no batch's resolution is, while nothing sweeps: `OwnedInv` says that an
  outcome one batch is resolving is pending, in the tables as when it was read.

`ContextProofs`: `ContextTypeCorrect`, `NothingEverLeaks`, and `TokensImplementScopes`,
the refinement of `LexicalScopes`, for any threads, dimensions, values and depth. The
lemmas `EnterKeeps` and `LeaveKeeps` show that what each open block leaves a dimension at
is not changed by entering or leaving a block inside it. That the blocks which
set a dimension have a first and a last comes from `<` being well-founded on the naturals
(`HasFirst`, `BoundedHasEnds`).

`LedgerProofs`, for any events, costs, instants, outcomes and slices. The queries add up
sums over sets, which the library defines by recursion over subsets. What such a sum
is cannot be proved by the library's induction rules, which take an operator. Instead,
`SubsetInduction` uses that the strict subsets of a finite set are well-founded: a set of
counterexamples would have a minimal member, which is a statement about sets. From
it follow, once for all proofs:

* `SumsUnique`, `SumsExist` and `SumEquation`: the library's recursion has one
  solution, and it is the same over a subset (`SumsRestrict`); so a sum is any one of its
  terms plus the sum over the rest (`SumRemove`), although the library picks a fixed one.
* `SumSplit`, `SumMonotone`, `SumByGroups` (sums of groups add up to the sum
  of all) and `CountIsSum`, which makes `COUNT(DISTINCT ...)` a sum too;
* `NearestIs`, that a rounded quotient is within half a unit of the quotient, and
  `SumWithin`, that terms which are each within a bound add up to within the sum of the bounds.

The inductive invariant `LedgerInv` is `LedgerTypeOK` with what the sums need: the ledger
is finite, finitely many outcomes have a row, and only outcome ids have one, so that an
`unattributed` event never counts as succeeded. Without the second, `ContractNumerator` would sum over a set of
outcomes that nothing bounds, since `OutcomeIds` may be infinite. The theorems:

* `LedgerTypeCorrect`; `LedgerSlicesSumToTotal`, `LedgerWindowsPartition` and
  `LedgerBucketsPartition` (lemma `BucketsAddUp`: for buckets of any width) — slices, windows and
  buckets are groups of one set of events, so nothing is lost or added twice.
* `LedgerUnitCostIsTheContracts` — what the query adds up event by event and counts with
  `DISTINCT` is the contract's sum outcome by outcome (`NumeratorIsAttributed`).
* `LedgerRetriesRaise` — a step records at most one event (`NewEvent`), and a retry adds to
  the numerator of its slice and not to its denominator.

`ConsoleProofs`, for any windows, thresholds, budgets and ratio, assuming
`RecentWindow <= Now`:

* `RecentNeverDilutes` — a query depends only on the events in its window and on the
  statuses (`QueryReadsItsWindow`), so what is recorded after a window's end leaves
  the baseline alone.
* `AlarmsOnlyErrByRounding` — the rows the detector reads are the contract's numbers
  (`RowUnitCost`, from `RowIsTheContracts`, which holds for a part of the ledger too), and
  `RoundedRatio` compares the ratio of two rounded quotients with that of the quotients.
* `SpendBreachesAlwaysStand` — events are never deleted and costs are natural, so the
  spend of a fixed window only grows.
* `SummaryIsAlwaysBracketed`, `SpendReportsAreAlwaysBracketed`,
  `BlendedAlwaysErrsByRoundingOnly`, `LiveAlarmsAreAlwaysTrue` — from `ConsoleInv`, which adds to
  `LedgerInv` what each kind of request knows between two of its reads (`Counting`, `Blending`,
  `Answered`, `Checking`, `Scanning`, `Deciding`). `SummaryIsBracketed` alone is not
  inductive: a write changes the statuses it compares a count with. `Bracketed` has for each count
  taken the set that was counted: it holds every standing outcome that has that status now, and every member of it has the status or was overwritten. A write
  that replaces a resolution moves the outcome from `standing` to `overwritten`, and that
  keeps both (`BracketedStands`), without any assumption that resolutions stay. In the same way
  `Checking` keeps that the breaches of the start still stand for the budgets not yet read,
  and `Deciding` that the baseline read is the ledger's while only recent traffic came.
  `WriteKeepsRequest` shows that no write disturbs this, `ReadKeepsRequest` that every read
  establishes the next part.
* `BlendedErrsByRoundingOnly` adds the roundings of all features (`BlendedCost`, with
  `SumWithin`). It needs its premise `KeepsToOneFeature` in the denominator only
  (`BlendedCount`): an outcome seen under two features is counted in two rows. It speaks of
  the outcomes in `OutcomeIds`; events labelled `unattributed` may name any feature.

### Only model-checked

* `EveryOutcomeCloses`: liveness under fairness is out of the prover's reach.
* The three statements of the repository that the code violates, each by its run.

## 5. What is not modelled

* The context in the boundary: the boundary takes any outcome label the context can
  give, and `Context` shows which one that is; the two are not composed, because
  nothing but the label passes between them.
* `recent_events`, a listing only a drill reads, and the wording of `BudgetBreach` and
  `Anomaly` reports.
* Float sums and the binary representation of a rounded number, ISO timestamps as text (all
  callers pass UTC, where textual order is time order), the float arithmetic of `julianday` buckets.
* A lost rate after a restart with a file, and the drill's limit of 10,000 events: the console
  reseeds the rows its events name, and the drill makes fewer events.
* SQLite failing by itself (disk full, locked by another process).
* The drills on retry storms, context bloat and cost regressions: they run one batch
  with a fixed seed and compare two slice rows with thresholds chosen for it, which are
  statistics of draws that the models leave open.
* The page: it keeps only what it shows. An answer for a tab no longer selected may fill
  the table (index.html:217) until the next refresh.
* Tests, prototype and CI.

## 6. Plan

Done, in this order: `Outcome`, `OutcomeContract`, `CostStore` and its proofs,
`Pricing` and its proofs, `Boundary`, `Traffic`, `Queries`, `Ledger`, `Budgets`; then
`Context`, `Console`, and the proofs of the boundary, the traffic, the context and the console;
then the sums of the queries, with which every safety property of a passing run is a theorem.

Left: the rows a rate change would have to close, should `add` learn to do it.
