------------------------------ MODULE Pricing ------------------------------
(***************************************************************************)
(* costkit/pricing.py: price-basis rows, the append-only RateTable, the    *)
(* lookup the boundary prices a call with and the get that reproduces a    *)
(* stored cost.  The table lives in memory; its only operation that        *)
(* changes state is add, which checks nothing.                             *)
(*                                                                         *)
(* A row's three rates are its `card'.  currency and source are never read *)
(* by the code and are left out.  Rates and costs are naturals.            *)
(***************************************************************************)
EXTENDS Integers, Sequences

CONSTANTS Tiers,      \* model_tier labels
          BasisIds,   \* price_basis_id labels
          Cards,      \* [input, output, cached : Nat], the rates of a row
          Instants,   \* the instants rows and calls speak of
          MaxRows     \* bound: rows the checked table may hold

ASSUME PricingAssumption ==
  /\ Instants \subseteq Nat
  /\ MaxRows \in Nat
  /\ Cards \subseteq [input : Nat, output : Nat, cached : Nat]

\* effective_to IS NULL: the currently active rate
Active == -1

PriceBases == [price_basis_id : BasisIds,
               model_tier     : Tiers,
               card           : Cards,
               effective_from : Instants,
               effective_to   : Instants \cup {Active}]

\* Mutant of Covers: the window is closed on the right.
CoversClosed(b, tier, at) ==
  /\ b.model_tier = tier
  /\ at >= b.effective_from
  /\ b.effective_to # Active => at <= b.effective_to

Covers(b, tier, at) ==
  /\ b.model_tier = tier
  /\ at >= b.effective_from
  /\ b.effective_to # Active => at < b.effective_to

ComputeCost(b, usage) ==
  usage.input * b.card.input + usage.output * b.card.output + usage.cached * b.card.cached

VARIABLE rates   \* RateTable._rows

\* The positions lookup() collects in `matches'.
Matches(table, tier, at) == {i \in DOMAIN table : Covers(table[i], tier, at)}

\* lookup() returns: neither NoApplicablePriceBasisError nor ValueError.
CanLookup(table, tier, at) ==
  \E i \in DOMAIN table : Matches(table, tier, at) = {i}

Lookup(table, tier, at) == table[CHOOSE i \in Matches(table, tier, at) : TRUE]

\* get() returns: no KeyError.
CanGet(table, id) == \E i \in DOMAIN table : table[i].price_basis_id = id

\* get(): the first row of that id.
First(table, id) ==
  CHOOSE i \in DOMAIN table :
    /\ table[i].price_basis_id = id
    /\ \A j \in DOMAIN table : table[j].price_basis_id = id => i <= j

Get(table, id) == table[First(table, id)]

\* Mutants of AddRate: the row takes effect a tick late; a row replaces the
\* one of its id; only the current rate is kept.
AddRateLate(b) == rates' = Append(rates, [b EXCEPT !.effective_from = @ + 1])

AddRateReplacing(b) ==
  rates' = Append(SelectSeq(rates, LAMBDA r : r.price_basis_id # b.price_basis_id), b)

AddRateDroppingOld(b) == rates' = <<b>>

\* RateTable.add
AddRate(b) == rates' = Append(rates, b)

RateInit == rates = << >>

RateNext == \E b \in PriceBases : Len(rates) < MaxRows /\ AddRate(b)

RateSpec == RateInit /\ [][RateNext]_rates

-----------------------------------------------------------------------------
(* The table is a sequence of price bases.                                 *)
RateTypeOK == rates \in Seq(PriceBases)

(* A table that grows never silently reprices a call: what lookup answered *)
(* for a tier and an instant it answers for ever, or it raises (a gap that *)
(* was closed, an overlap that appeared), but it never answers another     *)
(* row.  And get names the same row for ever (pricing.py:59-83).           *)
NeverRepriced ==
  [][/\ \A tier \in Tiers, at \in Instants :
          CanLookup(rates, tier, at) /\ CanLookup(rates', tier, at)
            => Lookup(rates', tier, at) = Lookup(rates, tier, at)
     /\ \A id \in BasisIds : CanGet(rates, id) =>
          CanGet(rates', id) /\ Get(rates', id) = Get(rates, id)]_rates

\* `next' takes over from `prev', as the contract's price change intends.
Succeeds(next, prev) ==
  /\ next.model_tier = prev.model_tier
  /\ prev.effective_to = next.effective_from
  /\ prev.effective_from < prev.effective_to

(* At a price change whose windows meet, every instant from the old row's  *)
(* start is priced by exactly one of the two rows, the boundary instant by *)
(* the new one: the half-open windows of covers() leave neither a gap nor  *)
(* an overlap (pricing.py:32-37).                                          *)
HandoverIsExact ==
  \A i, j \in DOMAIN rates : Succeeds(rates[j], rates[i]) =>
    \A at \in Instants :
      /\ at >= rates[i].effective_from
      /\ rates[j].effective_to # Active => at < rates[j].effective_to
      => LET tier == rates[i].model_tier IN
         /\ Covers(rates[i], tier, at) <=> at < rates[j].effective_from
         /\ Covers(rates[j], tier, at) <=> at >= rates[j].effective_from

=============================================================================
