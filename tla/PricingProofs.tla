--------------------------- MODULE PricingProofs ---------------------------
(***************************************************************************)
(* What TLAPS proves of the rate table, for every set of tiers, ids, rates *)
(* and instants and for tables of any length MaxRows allows.               *)
(***************************************************************************)
EXTENDS Pricing, WellFoundedInduction, TLAPS

USE PricingAssumption

(* add keeps the table a sequence of price bases (pricing.py:59-60).       *)
THEOREM RateTypeCorrect == RateSpec => []RateTypeOK
<1>1. RateInit => RateTypeOK
  BY DEF RateInit, RateTypeOK
<1>2. RateTypeOK /\ [RateNext]_rates => RateTypeOK'
  BY DEF RateTypeOK, RateNext, AddRate
<1> QED
  BY <1>1, <1>2, PTL DEF RateSpec

(* Appending keeps every row where it was.                                 *)
LEMMA AppendKeepsRows ==
  ASSUME NEW table \in Seq(PriceBases), NEW b \in PriceBases
  PROVE  /\ DOMAIN table \subseteq DOMAIN Append(table, b)
         /\ DOMAIN Append(table, b) = DOMAIN table \cup {Len(table) + 1}
         /\ \A i \in DOMAIN table : Append(table, b)[i] = table[i]
         /\ DOMAIN table \subseteq Nat
         /\ \A i \in DOMAIN table : i <= Len(table)
         /\ Len(table) \in Nat
OBVIOUS

(* lookup's answer is the one matching row.                                *)
LEMMA LookupIsTheMatch ==
  ASSUME NEW table, NEW tier, NEW at, NEW i, Matches(table, tier, at) = {i}
  PROVE  Lookup(table, tier, at) = table[i]
BY DEF Lookup

(* get finds the first row of an id that has one.                          *)
LEMMA FirstExists ==
  ASSUME NEW table \in Seq(PriceBases), NEW id, CanGet(table, id)
  PROVE  /\ First(table, id) \in DOMAIN table
         /\ table[First(table, id)].price_basis_id = id
         /\ \A j \in DOMAIN table :
              table[j].price_basis_id = id => First(table, id) <= j
<1> DEFINE Named == {i \in DOMAIN table : table[i].price_basis_id = id}
<1>1. Named \subseteq Nat /\ Named # {}
  BY DEF CanGet
<1>2. \E i \in Named : \A j \in Named : ~(<<j, i>> \in OpToRel(<, Nat))
  BY <1>1, NatLessThanWellFounded, WFMin
<1>3. \E i \in Named : \A j \in Named : i <= j
  <2>1. \A i, j \in Nat : j < i => <<j, i>> \in OpToRel(<, Nat)
    <3> TAKE i, j \in Nat
    <3> HAVE j < i
    <3>1. <<j, i>> \in {ss \in Nat \X Nat : ss[1] < ss[2]}
      OBVIOUS
    <3> QED
      BY <3>1, Zenon DEF OpToRel
  <2>2. PICK i \in Named : \A j \in Named : ~(<<j, i>> \in OpToRel(<, Nat))
    BY <1>2
  <2>3. \A j \in Named : ~(j < i) /\ j \in Nat /\ i \in Nat
    BY <1>1, <2>1, <2>2, Zenon
  <2> HIDE DEF Named
  <2>4. \A j \in Named : i <= j
    BY <2>3
  <2> QED
    BY <2>2, <2>4
<1>4. \E i \in DOMAIN table :
        /\ table[i].price_basis_id = id
        /\ \A j \in DOMAIN table : table[j].price_basis_id = id => i <= j
  BY <1>3
<1> QED
  BY <1>4 DEF First

(* Adding a row does not change what get answers for an id it knew.        *)
LEMMA GetIsStable ==
  ASSUME NEW table \in Seq(PriceBases), NEW b \in PriceBases, NEW id, CanGet(table, id)
  PROVE  /\ CanGet(Append(table, b), id)
         /\ Get(Append(table, b), id) = Get(table, id)
<1> DEFINE longer == Append(table, b)
<1>1. longer \in Seq(PriceBases)
  OBVIOUS
<1>2. CanGet(longer, id)
  BY AppendKeepsRows DEF CanGet
<1>3. First(longer, id) \in DOMAIN table /\ First(table, id) \in DOMAIN table
  <2>1. First(table, id) \in DOMAIN longer
        /\ longer[First(table, id)].price_basis_id = id
    BY FirstExists, AppendKeepsRows
  <2>2. First(longer, id) <= First(table, id) /\ First(longer, id) \in DOMAIN longer
    BY <1>1, <1>2, <2>1, FirstExists
  <2> HIDE DEF longer
  <2>3. First(table, id) \in DOMAIN table
    BY FirstExists
  <2> QED
    BY <2>2, <2>3, AppendKeepsRows DEF longer
<1>4. First(longer, id) = First(table, id)
  <2>1. longer[First(longer, id)].price_basis_id = id
    BY <1>1, <1>2, FirstExists
  <2>2. table[First(longer, id)].price_basis_id = id
    BY <1>3, <2>1, AppendKeepsRows
  <2>3. First(table, id) <= First(longer, id)
    BY <1>3, <2>2, FirstExists
  <2>4. longer[First(table, id)].price_basis_id = id /\ First(table, id) \in DOMAIN longer
    BY <1>3, FirstExists, AppendKeepsRows
  <2>5. First(longer, id) <= First(table, id)
    BY <1>1, <1>2, <2>4, FirstExists
  <2> QED
    BY <1>3, <2>3, <2>5, AppendKeepsRows
<1> QED
  BY <1>2, <1>3, <1>4, AppendKeepsRows DEF Get

(* Adding a row never turns lookup's answer into another row: it stays, or *)
(* the call cannot be priced any more.                                     *)
LEMMA LookupIsStable ==
  ASSUME NEW table \in Seq(PriceBases), NEW b \in PriceBases, NEW tier, NEW at,
         CanLookup(table, tier, at), CanLookup(Append(table, b), tier, at)
  PROVE  Lookup(Append(table, b), tier, at) = Lookup(table, tier, at)
<1>1. PICK i \in DOMAIN table : Matches(table, tier, at) = {i}
  BY DEF CanLookup
<1>2. PICK j \in DOMAIN Append(table, b) : Matches(Append(table, b), tier, at) = {j}
  BY DEF CanLookup
<1>3. i \in Matches(Append(table, b), tier, at)
  BY <1>1, AppendKeepsRows DEF Matches
<1>4. i = j
  BY <1>2, <1>3
<1>5. Lookup(table, tier, at) = table[i]
  BY <1>1, LookupIsTheMatch
<1>6. Lookup(Append(table, b), tier, at) = Append(table, b)[i]
  BY <1>2, <1>4, LookupIsTheMatch
<1> QED
  BY <1>5, <1>6, AppendKeepsRows

(* A growing rate table never silently reprices: historical costs stay     *)
(* reproducible by id and by instant (pricing.py:59-83).                   *)
THEOREM RatesNeverReprice == RateSpec => NeverRepriced
<1>1. ASSUME RateTypeOK, RateNext
      PROVE  /\ \A tier \in Tiers, at \in Instants :
                  CanLookup(rates, tier, at) /\ CanLookup(rates', tier, at)
                    => Lookup(rates', tier, at) = Lookup(rates, tier, at)
             /\ \A id \in BasisIds : CanGet(rates, id) =>
                  CanGet(rates', id) /\ Get(rates', id) = Get(rates, id)
  <2>1. PICK b \in PriceBases : rates' = Append(rates, b)
    BY <1>1 DEF RateNext, AddRate
  <2> QED
    BY <1>1, <2>1, GetIsStable, LookupIsStable DEF RateTypeOK
<1> QED
  BY <1>1, RateTypeCorrect, PTL DEF RateSpec, NeverRepriced

(* Meeting half-open windows price every instant with exactly one row.     *)
THEOREM HandoverAlwaysExact == RateSpec => []HandoverIsExact
<1>1. RateTypeOK => HandoverIsExact
  <2> SUFFICES ASSUME RateTypeOK, NEW i \in DOMAIN rates, NEW j \in DOMAIN rates,
                      Succeeds(rates[j], rates[i]), NEW at \in Instants,
                      at >= rates[i].effective_from,
                      rates[j].effective_to # Active => at < rates[j].effective_to
               PROVE  /\ Covers(rates[i], rates[i].model_tier, at)
                           <=> at < rates[j].effective_from
                      /\ Covers(rates[j], rates[i].model_tier, at)
                           <=> at >= rates[j].effective_from
    BY DEF HandoverIsExact
  <2>1. rates[i] \in PriceBases /\ rates[j] \in PriceBases
    BY DEF RateTypeOK
  <2> QED
    BY <2>1 DEF Succeeds, Covers, PriceBases, Active
<1> QED
  BY <1>1, RateTypeCorrect, PTL

=============================================================================
