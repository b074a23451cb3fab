--------------------------- MODULE BoundaryProofs ---------------------------
(***************************************************************************)
(* What TLAPS proves of the boundary on a store other threads use too, for *)
(* any number of workers, crashes, rates and calls.                        *)
(*                                                                         *)
(* Every step of SharedSpec is a step of StoreSpec or leaves the store     *)
(* alone, so the store's theorems hold here, and the proofs below only add *)
(* what relates the calls to the tables.                                   *)
(***************************************************************************)
EXTENDS Boundary, CostStoreProofs, PricingProofs

USE BoundaryAssumption

allVars == <<storeVars, boundaryVars>>

\* What the proofs of a step need to know of its first state.
CallTypeOK ==
  /\ RateTypeOK
  /\ call \in [Workers -> Calls]
  /\ billed \subseteq EventIds

(* A call's place determines the shape of its record.                      *)
LEMMA CallShapes ==
  ASSUME NEW c \in Calls
  PROVE  /\ c.pc = "model" =>
              c \in [pc : {"model"}, outcome_id : OutcomeLabels, model_tier : Tiers,
                     attempt_number : Attempts, timestamp : Instants, basis : PriceBases]
         /\ c.pc \in {"record", "commit", "done"} =>
              c \in [pc : {"record", "commit", "done"}, event : CostEvents]
BY DEF Calls, NoCall, Raised

(* A valid event of a call is one the table can hold (boundary.py:58-104). *)
LEMMA EventOfType ==
  ASSUME NEW c \in [pc : {"model"}, outcome_id : OutcomeLabels, model_tier : Tiers,
                    attempt_number : Attempts, timestamp : Instants, basis : PriceBases],
         NEW eid \in EventIds, NEW status \in {OK, ERROR}, NEW usage \in Usages,
         IsValid(EventOf(c, eid, status, usage))
  PROVE  EventOf(c, eid, status, usage) \in CostEvents
<1>1. ComputeCost(c.basis, usage) \in Costs
  <2>1. c.basis.card \in Cards
    BY DEF PriceBases
  <2>2. ComputeCost(c.basis, usage) = ComputeCost([card |-> c.basis.card], usage)
    BY DEF ComputeCost
  <2> QED
    BY <2>1, <2>2 DEF Costs
<1>2. c.attempt_number # 0 /\ c.outcome_id # Blank
  BY DEF IsValid, EventOf
<1>3. c.basis.price_basis_id \in BasisIds
  BY DEF PriceBases
<1> QED
  BY <1>1, <1>2, <1>3 DEF EventOf, CostEvents

(* A known basis is one of the table's rows (pricing.py:62-77).            *)
LEMMA LookupType ==
  ASSUME RateTypeOK, NEW tier, NEW at, CanLookup(rates, tier, at)
  PROVE  /\ Lookup(rates, tier, at) \in PriceBases
         /\ \E i \in DOMAIN rates : Lookup(rates, tier, at) = rates[i]
         /\ Covers(Lookup(rates, tier, at), tier, at)
<1>1. PICK i \in DOMAIN rates : Matches(rates, tier, at) = {i}
  BY DEF CanLookup
<1>2. Lookup(rates, tier, at) = rates[i]
  BY <1>1, LookupIsTheMatch
<1> QED
  BY <1>1, <1>2 DEF RateTypeOK, Matches

(* Sharing the store with a boundary is using the store: the refinement    *)
(* that carries the store's theorems over.                                 *)
LEMMA SharedStoreStep ==
  ASSUME CallTypeOK, [SharedNext]_allVars
  PROVE  [StoreNext]_storeVars
<1>1. ASSUME NEW w \in Workers, InsertEvent(w)
      PROVE  StoreNext
  <2>1. call[w].event \in Events
    BY <1>1, CallShapes DEF InsertEvent, CallTypeOK
  <2> QED
    BY <1>1, <2>1 DEF InsertEvent, StoreNext, StoreStep
<1>2. ASSUME NEW w \in Workers, EventCommitted(w)
      PROVE  StoreNext
  BY <1>2 DEF EventCommitted, StoreNext, StoreStep
<1>3. ASSUME NEW w \in Workers, Elsewhere(w)
      PROVE  StoreNext
  BY <1>3 DEF Elsewhere, StoreNext, StoreStep
<1>4. CASE BoundaryCrash
  BY <1>4 DEF BoundaryCrash, StoreNext
<1> QED
  BY <1>1, <1>2, <1>3, <1>4
     DEF SharedNext, BoundaryNext, CallStep, BeginCall, ModelCall, ModelRefuses, Return,
         AddNewRate, allVars

(* No step of a call or of a crash takes the calls out of their types.     *)
LEMMA CallTypeStep ==
  ASSUME CallTypeOK, [SharedNext]_allVars
  PROVE  CallTypeOK'
<1> USE DEF CallTypeOK
<1>1. ASSUME NEW w \in Workers, NEW oid \in OutcomeLabels, NEW tier \in Tiers,
             NEW attempt \in Attempts, NEW at \in Instants, BeginCall(w, oid, tier, attempt, at)
      PROVE  CallTypeOK'
  <2>1. CASE CanLookup(rates, tier, at)
    <3>1. AtModel(oid, tier, attempt, at, Lookup(rates, tier, at)) \in Calls
      BY <2>1, LookupType DEF AtModel, Calls
    <3> QED
      BY <1>1, <2>1, <3>1 DEF BeginCall, RateTypeOK
  <2>2. CASE ~CanLookup(rates, tier, at)
    BY <1>1, <2>2 DEF BeginCall, RateTypeOK, Calls
  <2> QED
    BY <2>1, <2>2
<1>2. ASSUME NEW w \in Workers, NEW eid \in EventIds, NEW status \in {OK, ERROR},
             NEW usage \in Usages, ModelCall(w, eid, status, usage)
      PROVE  CallTypeOK'
  <2> DEFINE e == EventOf(call[w], eid, status, usage)
  <2>1. CASE IsValid(e)
    <3>1. e \in CostEvents
      BY <1>2, <2>1, CallShapes, EventOfType DEF ModelCall
    <3>2. WithEvent("record", e) \in Calls
      BY <3>1 DEF WithEvent, Calls
    <3> QED
      BY <1>2, <2>1, <3>2 DEF ModelCall, RateTypeOK
  <2>2. CASE ~IsValid(e)
    BY <1>2, <2>2 DEF ModelCall, RateTypeOK, Calls
  <2> QED
    BY <2>1, <2>2
<1>3. ASSUME NEW w \in Workers, ModelRefuses(w)
      PROVE  CallTypeOK'
  BY <1>3 DEF ModelRefuses, RateTypeOK, Calls
<1>4. ASSUME NEW w \in Workers, InsertEvent(w)
      PROVE  CallTypeOK'
  <2>1. [call[w] EXCEPT !.pc = "commit"] \in Calls
    BY <1>4, CallShapes DEF InsertEvent, Calls
  <2> QED
    BY <1>4, <2>1 DEF InsertEvent, RateTypeOK
<1>5. ASSUME NEW w \in Workers, EventCommitted(w)
      PROVE  CallTypeOK'
  <2>1. [call[w] EXCEPT !.pc = "done"] \in Calls
    BY <1>5, CallShapes DEF EventCommitted, Calls
  <2> QED
    BY <1>5, <2>1 DEF EventCommitted, RateTypeOK
<1>6. ASSUME NEW w \in Workers, Return(w)
      PROVE  CallTypeOK'
  BY <1>6 DEF Return, RateTypeOK, Calls
<1>7. ASSUME NEW b \in PriceBases, AddNewRate(b)
      PROVE  CallTypeOK'
  BY <1>7 DEF AddNewRate, AddRate, RateTypeOK
<1>8. CASE BoundaryCrash
  BY <1>8 DEF BoundaryCrash, RateTypeOK, Calls
<1>9. ASSUME NEW w \in Workers, Elsewhere(w)
      PROVE  CallTypeOK'
  BY <1>9 DEF Elsewhere, boundaryVars, RateTypeOK
<1>10. CASE UNCHANGED allVars
  BY <1>10 DEF allVars, boundaryVars, RateTypeOK
<1> QED
  BY <1>1, <1>2, <1>3, <1>4, <1>5, <1>6, <1>7, <1>8, <1>9, <1>10
     DEF SharedNext, BoundaryNext, CallStep

(* Calls keep their types beside any other use of the store.               *)
LEMMA CallTypesHold == SharedSpec => []CallTypeOK
<1>1. BoundaryInit => CallTypeOK
  BY DEF BoundaryInit, CallTypeOK, RateTypeOK, Calls
<1>2. CallTypeOK /\ [SharedNext]_allVars => CallTypeOK'
  BY CallTypeStep
<1> QED
  BY <1>1, <1>2, PTL DEF SharedSpec, allVars

(* A process that shares the store is a user of the store: everything      *)
(* proved of StoreSpec holds beside the boundary (boundary.py:81, 103 call *)
(* insert_cost_event and nothing else of it).                              *)
THEOREM SharedUsesStore == SharedSpec => StoreSpec
<1>1. BoundaryInit => StoreInit
  BY DEF BoundaryInit
<1>2. CallTypeOK /\ [SharedNext]_allVars => [StoreNext]_storeVars
  BY SharedStoreStep
<1> QED
  BY <1>1, <1>2, CallTypesHold, PTL DEF SharedSpec, StoreSpec, allVars

-----------------------------------------------------------------------------
(* What the caller knows of is in the file: an inserted event is in the    *)
(* tables until its commit, and in the file from then on.                  *)
CallsDurable ==
  \A w \in Workers :
    /\ call[w].pc = "commit" => call[w].event \in events
    /\ Persistent /\ call[w].pc = "done" => call[w].event \in savedEvents

(* Opening, resolving, sweeping and committing leave the events alone.     *)
LEMMA ElsewhereKeepsEvents ==
  ASSUME NEW w \in Workers, Elsewhere(w)
  PROVE  events' = events /\ UNCHANGED boundaryVars
BY DEF Elsewhere, OpenExecute, ResolveRead, ResolveUpdate, SweepRead, SweepUpdate, SweepDone,
       Commit, tables

(* The events of the tables and of the file only grow until a crash.       *)
LEMMA EventsGrow ==
  ASSUME CallTypeOK, StoreInv, [SharedNext]_allVars, ~BoundaryCrash
  PROVE  events \subseteq events' /\ savedEvents \subseteq savedEvents'
<1>1. ASSUME NEW w \in Workers, InsertEvent(w) \/ EventCommitted(w) \/ Elsewhere(w)
      PROVE  events \subseteq events' /\ savedEvents \subseteq savedEvents'
  BY <1>1, ElsewhereKeepsEvents
     DEF InsertEvent, EventCommitted, Elsewhere, InsertExecute, OpenExecute, ResolveRead,
         ResolveUpdate, SweepRead, SweepUpdate, SweepDone, Commit, StoreInv, TablesAhead,
         tables, saved
<1> QED
  BY <1>1 DEF SharedNext, BoundaryNext, CallStep, BeginCall, ModelCall, ModelRefuses, Return,
              AddNewRate, allVars, storeVars

(* A call's step keeps what its place says of the tables.                  *)
LEMMA CallsDurableStep ==
  ASSUME CallTypeOK, CallTypeOK', StoreInv, CallsDurable, [SharedNext]_allVars
  PROVE  CallsDurable'
<1>1. CASE BoundaryCrash
  BY <1>1 DEF BoundaryCrash, NoCall, CallsDurable
<1>2. CASE ~BoundaryCrash
  <2>1. events \subseteq events' /\ savedEvents \subseteq savedEvents'
    BY <1>2, EventsGrow
  <2>2. ASSUME NEW w \in Workers, call'[w] = call[w]
        PROVE  /\ call'[w].pc = "commit" => call'[w].event \in events'
               /\ Persistent /\ call'[w].pc = "done" => call'[w].event \in savedEvents'
    BY <2>1, <2>2 DEF CallsDurable
  <2>3. ASSUME NEW w \in Workers, InsertEvent(w)
        PROVE  CallsDurable'
    <3>1. call'[w].pc = "commit" /\ call'[w].event = call[w].event
      BY <2>3, CallShapes DEF InsertEvent, CallTypeOK
    <3>2. call[w].event \in events'
      BY <2>3 DEF InsertEvent, InsertExecute
    <3>3. \A v \in Workers \ {w} : call'[v] = call[v]
      BY <2>3 DEF InsertEvent, CallTypeOK
    <3> QED
      BY <2>2, <3>1, <3>2, <3>3 DEF CallsDurable
  <2>4. ASSUME NEW w \in Workers, EventCommitted(w)
        PROVE  CallsDurable'
    <3>1. call[w].pc = "commit" /\ call'[w].pc = "done" /\ call'[w].event = call[w].event
      BY <2>4, CallShapes DEF EventCommitted, CallTypeOK
    <3>2. Persistent => call[w].event \in savedEvents'
      BY <2>4, <3>1 DEF EventCommitted, Commit, CallsDurable
    <3>3. \A v \in Workers \ {w} : call'[v] = call[v]
      BY <2>4 DEF EventCommitted, CallTypeOK
    <3> QED
      BY <2>2, <3>1, <3>2, <3>3 DEF CallsDurable
  <2>5. ASSUME NEW w \in Workers, \A v \in Workers \ {w} : call'[v] = call[v],
               call'[w].pc \notin {"commit", "done"}
        PROVE  CallsDurable'
    BY <2>2, <2>5 DEF CallsDurable
  <2>6. ASSUME NEW w \in Workers, NEW oid \in OutcomeLabels, NEW tier \in Tiers,
               NEW attempt \in Attempts, NEW at \in Instants,
               BeginCall(w, oid, tier, attempt, at)
        PROVE  CallsDurable'
    BY <2>5, <2>6 DEF BeginCall, AtModel, Raised, CallTypeOK
  <2>7. ASSUME NEW w \in Workers, NEW eid \in EventIds, NEW status \in {OK, ERROR},
               NEW usage \in Usages, ModelCall(w, eid, status, usage)
        PROVE  CallsDurable'
    BY <2>5, <2>7 DEF ModelCall, WithEvent, Raised, CallTypeOK
  <2>8. ASSUME NEW w \in Workers, ModelRefuses(w) \/ Return(w)
        PROVE  CallsDurable'
    BY <2>5, <2>8 DEF ModelRefuses, Return, NoCall, Raised, CallTypeOK
  <2>9. CASE UNCHANGED call
    BY <2>2, <2>9 DEF CallsDurable
  <2> QED
    BY <1>2, <2>3, <2>4, <2>6, <2>7, <2>8, <2>9
       DEF SharedNext, BoundaryNext, CallStep, AddNewRate, Elsewhere, allVars, boundaryVars
<1> QED
  BY <1>1, <1>2

(* What a call's place says of the tables holds throughout.                *)
LEMMA CallsStayDurable == SharedSpec => []CallsDurable
<1>1. BoundaryInit => CallsDurable
  BY DEF BoundaryInit, CallsDurable, NoCall
<1>2. CallTypeOK /\ CallTypeOK' /\ StoreInv /\ CallsDurable /\ [SharedNext]_allVars
        => CallsDurable'
  BY CallsDurableStep
<1> QED
  BY <1>1, <1>2, CallTypesHold, SharedUsesStore, StoreInvariant, PTL DEF SharedSpec, allVars

(* A caller that has the result, or the error that makes it retry, finds   *)
(* its event in the file (boundary.py:81-82, 103-104).                     *)
THEOREM CallerAlwaysSeesDurableEvent == SharedSpec => []CallerSeesDurableEvent
<1>1. CallsDurable => CallerSeesDurableEvent
  BY DEF CallsDurable, CallerSeesDurableEvent
<1> QED
  BY <1>1, CallsStayDurable, PTL

-----------------------------------------------------------------------------
(***************************************************************************)
(* Each charged call is recorded once.  The property is inductive but for  *)
(* a crash, which needs to know that the file holds no event the tables do *)
(* not (StoreInv), that a call about to commit has its event in the tables *)
(* (CallsDurable), and that no other event is missing in the file          *)
(* (OnlyCallsUnsaved).                                                     *)
(***************************************************************************)

\* What a crash can take is in the hands of a call that has not returned; an
\* in-memory database has no file.
OnlyCallsUnsaved ==
  IF Persistent
    THEN \A e \in events \ savedEvents :
           \E w \in Workers : call[w].pc = "commit" /\ call[w].event = e
    ELSE savedEvents = {}

(* Every step leaves only unreturned calls without their event in the file:*)
(* any thread's commit saves the whole transaction (store.py:57).          *)
LEMMA OnlyCallsUnsavedStep ==
  ASSUME CallTypeOK, CallTypeOK', StoreInv, OnlyCallsUnsaved, [SharedNext]_allVars
  PROVE  OnlyCallsUnsaved'
<1>1. ASSUME UNCHANGED <<events, savedEvents>>,
             \A w \in Workers : call[w].pc = "commit" => call'[w] = call[w]
      PROVE  OnlyCallsUnsaved'
  BY <1>1 DEF OnlyCallsUnsaved
<1>2. ASSUME NEW w \in Workers, Commit(w)
      PROVE  OnlyCallsUnsaved'
  BY <1>2 DEF Commit, OnlyCallsUnsaved, tables
<1>3. ASSUME NEW w \in Workers, InsertEvent(w)
      PROVE  OnlyCallsUnsaved'
  <2>1. events' = events \cup {call[w].event} /\ savedEvents' = savedEvents
    BY <1>3 DEF InsertEvent, InsertExecute, saved
  <2>2. /\ call[w].pc = "record" /\ call'[w].pc = "commit" /\ call'[w].event = call[w].event
        /\ \A v \in Workers \ {w} : call'[v] = call[v]
    BY <1>3, CallShapes DEF InsertEvent, CallTypeOK
  <2> QED
    BY <2>1, <2>2 DEF OnlyCallsUnsaved
<1>4. CASE BoundaryCrash
  BY <1>4 DEF BoundaryCrash, Crash, saved, OnlyCallsUnsaved
<1>5. ASSUME NEW w \in Workers, UNCHANGED storeVars, call[w].pc # "commit",
             \A v \in Workers \ {w} : call'[v] = call[v]
      PROVE  OnlyCallsUnsaved'
  BY <1>1, <1>5 DEF storeVars, saved, tables
<1>6. ASSUME NEW w \in Workers, NEW oid \in OutcomeLabels, NEW tier \in Tiers,
             NEW attempt \in Attempts, NEW at \in Instants, BeginCall(w, oid, tier, attempt, at)
      PROVE  OnlyCallsUnsaved'
  BY <1>5, <1>6 DEF BeginCall, NoCall, CallTypeOK
<1>7. ASSUME NEW w \in Workers, NEW eid \in EventIds, NEW status \in {OK, ERROR},
             NEW usage \in Usages, ModelCall(w, eid, status, usage)
      PROVE  OnlyCallsUnsaved'
  BY <1>5, <1>7 DEF ModelCall, CallTypeOK
<1>8. ASSUME NEW w \in Workers, ModelRefuses(w) \/ Return(w)
      PROVE  OnlyCallsUnsaved'
  BY <1>5, <1>8 DEF ModelRefuses, Return, CallTypeOK
<1>9. ASSUME NEW w \in Workers, Elsewhere(w)
      PROVE  OnlyCallsUnsaved'
  BY <1>1, <1>2, <1>9
     DEF Elsewhere, OpenExecute, ResolveRead, ResolveUpdate, SweepRead, SweepUpdate, SweepDone,
         tables, saved, boundaryVars
<1>10. ASSUME UNCHANGED <<storeVars, call>>
       PROVE  OnlyCallsUnsaved'
  BY <1>1, <1>10 DEF storeVars, saved, tables
<1> QED
  BY <1>2, <1>3, <1>4, <1>6, <1>7, <1>8, <1>9, <1>10
     DEF SharedNext, BoundaryNext, CallStep, EventCommitted, AddNewRate, allVars, boundaryVars

\* BilledIsAccountedFor in three parts.
Partition ==
  /\ billed = Recorded \cup InFlight \cup dropped
  /\ Recorded \cap InFlight = {}
  /\ dropped \cap (Recorded \cup InFlight) = {}

EventsDistinct == \A e, f \in events : e.event_id = f.event_id => e = f

InFlightDistinct ==
  \A v, w \in Workers :
    call[v].pc = "record" /\ call[w].pc = "record" /\ v # w
      => call[v].event.event_id # call[w].event.event_id

(* The parts make up the property.                                         *)
LEMMA AccountParts ==
  /\ BilledIsAccountedFor <=> Partition /\ EventsDistinct /\ InFlightDistinct
  /\ BilledIsAccountedFor' <=> Partition' /\ EventsDistinct' /\ InFlightDistinct'
BY DEF BilledIsAccountedFor, Partition, EventsDistinct, InFlightDistinct

(* A step that neither records nor charges keeps the account.              *)
LEMMA AccountUnchanged ==
  ASSUME BilledIsAccountedFor, UNCHANGED <<events, billed, dropped>>,
         \A w \in Workers : call'[w].pc = "record" <=> call[w].pc = "record",
         \A w \in Workers : call'[w].pc = "record" => call'[w] = call[w]
  PROVE  BilledIsAccountedFor'
<1>1. {v \in Workers : call'[v].pc = "record"} = {v \in Workers : call[v].pc = "record"}
  OBVIOUS
<1>2. InFlight' = InFlight
  BY <1>1 DEF InFlight
<1>3. Recorded' = Recorded
  BY DEF Recorded
<1>4. Partition' /\ EventsDistinct'
  BY <1>2, <1>3, AccountParts DEF Partition, EventsDistinct
<1>5. InFlightDistinct'
  BY AccountParts DEF InFlightDistinct
<1> QED
  BY <1>4, <1>5, AccountParts

(* A step of any thread keeps the account of the charged calls.            *)
LEMMA AccountStep ==
  ASSUME StoreTypeOK, CallTypeOK, CallTypeOK', StoreInv, CallsDurable, OnlyCallsUnsaved,
         BilledIsAccountedFor, [SharedNext]_allVars
  PROVE  BilledIsAccountedFor'
<1>1. Partition /\ EventsDistinct /\ InFlightDistinct
  BY AccountParts
<1>2. ASSUME NEW w \in Workers, NEW oid \in OutcomeLabels, NEW tier \in Tiers,
             NEW attempt \in Attempts, NEW at \in Instants, BeginCall(w, oid, tier, attempt, at)
      PROVE  BilledIsAccountedFor'
  BY <1>2, AccountUnchanged DEF BeginCall, storeVars, NoCall, Raised, AtModel, CallTypeOK
<1>3. ASSUME NEW w \in Workers, NEW eid \in EventIds, NEW status \in {OK, ERROR},
             NEW usage \in Usages, ModelCall(w, eid, status, usage)
      PROVE  BilledIsAccountedFor'
  <2> DEFINE e == EventOf(call[w], eid, status, usage)
  <2>1. eid \notin billed /\ billed' = billed \cup {eid} /\ events' = events
        /\ call[w].pc = "model"
    BY <1>3 DEF ModelCall, storeVars
  <2>2. Recorded' = Recorded /\ EventsDistinct'
    BY <1>1, <2>1 DEF Recorded, EventsDistinct
  <2>3. CASE IsValid(e)
    <3>1. call' = [call EXCEPT ![w] = WithEvent("record", e)] /\ dropped' = dropped
      BY <1>3, <2>3 DEF ModelCall
    <3>2. e.event_id = eid
      BY DEF EventOf
    <3>3. call'[w].pc = "record" /\ call'[w].event.event_id = eid
      BY <3>1, <3>2 DEF WithEvent, CallTypeOK
    <3>4. \A v \in Workers \ {w} : call'[v] = call[v]
      BY <3>1 DEF CallTypeOK
    <3>5. InFlight' = InFlight \cup {eid}
      BY <2>1, <3>3, <3>4 DEF InFlight
    <3>6. \A v \in Workers : call[v].pc = "record" => call[v].event.event_id \in billed
      BY <1>1 DEF Partition, InFlight
    <3>7. InFlightDistinct'
      BY <1>1, <2>1, <3>3, <3>4, <3>6 DEF InFlightDistinct
    <3>8. Partition'
      BY <1>1, <2>1, <2>2, <3>1, <3>5 DEF Partition
    <3> QED
      BY <2>2, <3>7, <3>8, AccountParts
  <2>4. CASE ~IsValid(e)
    <3>1. call' = [call EXCEPT ![w] = Raised] /\ dropped' = dropped \cup {eid}
      BY <1>3, <2>4 DEF ModelCall
    <3>2. call'[w].pc # "record" /\ \A v \in Workers \ {w} : call'[v] = call[v]
      BY <3>1 DEF Raised, CallTypeOK
    <3>3. {v \in Workers : call'[v].pc = "record"} = {v \in Workers : call[v].pc = "record"}
      BY <2>1, <3>2
    <3>4. InFlight' = InFlight
      BY <3>2, <3>3 DEF InFlight
    <3>5. InFlightDistinct'
      BY <1>1, <3>2 DEF InFlightDistinct
    <3>6. Partition'
      BY <1>1, <2>1, <2>2, <3>1, <3>4 DEF Partition
    <3> QED
      BY <2>2, <3>5, <3>6, AccountParts
  <2> QED
    BY <2>3, <2>4
<1>4. ASSUME NEW w \in Workers, ModelRefuses(w) \/ Return(w) \/ EventCommitted(w)
      PROVE  BilledIsAccountedFor'
  <2>1. UNCHANGED <<events, billed, dropped>>
    BY <1>4 DEF ModelRefuses, Return, EventCommitted, Commit, storeVars, tables
  <2>2. call'[w].pc # "record" /\ call[w].pc # "record"
    <3>1. CASE ModelRefuses(w) \/ Return(w)
      BY <3>1 DEF ModelRefuses, Return, Raised, NoCall, CallTypeOK
    <3>2. CASE EventCommitted(w)
      BY <3>2, CallShapes DEF EventCommitted, CallTypeOK
    <3> QED
      BY <1>4, <3>1, <3>2
  <2>3. \A v \in Workers \ {w} : call'[v] = call[v]
    BY <1>4 DEF ModelRefuses, Return, EventCommitted, CallTypeOK
  <2> QED
    BY <2>1, <2>2, <2>3, AccountUnchanged
<1>5. ASSUME NEW w \in Workers, InsertEvent(w)
      PROVE  BilledIsAccountedFor'
  <2> DEFINE e == call[w].event
  <2>1. events' = events \cup {e} /\ UNCHANGED <<billed, dropped>>
    BY <1>5 DEF InsertEvent, InsertExecute
  <2>2. call[w].pc = "record" /\ call'[w].pc = "commit"
        /\ \A v \in Workers \ {w} : call'[v] = call[v]
    BY <1>5, CallShapes DEF InsertEvent, CallTypeOK
  <2>3. e.event_id \in InFlight
    BY <2>2 DEF InFlight
  <2>4. InFlight' = InFlight \ {e.event_id}
    BY <1>1, <2>2 DEF InFlight, InFlightDistinct
  <2>5. Recorded' = Recorded \cup {e.event_id}
    BY <2>1 DEF Recorded
  <2>6. InFlightDistinct'
    BY <1>1, <2>2 DEF InFlightDistinct
  <2>7. \A f \in events : f.event_id # e.event_id
    BY <1>1, <2>3 DEF Partition, Recorded
  <2>8. EventsDistinct'
    BY <1>1, <2>1, <2>7 DEF EventsDistinct
  <2>9. Partition'
    BY <1>1, <2>1, <2>3, <2>4, <2>5 DEF Partition
  <2> QED
    BY <2>6, <2>8, <2>9, AccountParts
<1>6. ASSUME NEW b \in PriceBases, AddNewRate(b)
      PROVE  BilledIsAccountedFor'
  BY <1>6, AccountUnchanged DEF AddNewRate, storeVars
<1>7. CASE BoundaryCrash
  <2> DEFINE lost == IF Persistent THEN Uncommitted ELSE Recorded
             kept == {e.event_id : e \in savedEvents}
  <2>1. savedEvents \subseteq events /\ events' = savedEvents /\ billed' = billed
        /\ dropped' = dropped \cup InFlight \cup lost
    BY <1>7 DEF BoundaryCrash, Crash, StoreInv, TablesAhead
  <2>2. \A v \in Workers : call'[v].pc # "record"
    BY <1>7 DEF BoundaryCrash, NoCall
  <2>3. InFlight' = {}
    BY <2>2 DEF InFlight
  <2>4. Recorded' = kept
    BY <2>1 DEF Recorded
  <2>5. Recorded = kept \cup lost /\ kept \cap lost = {}
    <3>1. CASE Persistent
      <4>1. lost = {e.event_id : e \in events \ savedEvents}
        BY <3>1 DEF OnlyCallsUnsaved, CallsDurable, Uncommitted
      <4>2. \A e \in events \ savedEvents, f \in savedEvents : e.event_id # f.event_id
        BY <1>1, <2>1 DEF EventsDistinct
      <4> QED
        BY <2>1, <4>1, <4>2 DEF Recorded
    <3>2. CASE ~Persistent
      BY <3>2 DEF OnlyCallsUnsaved
    <3> QED
      BY <3>1, <3>2
  <2> HIDE DEF lost, kept
  <2>6. Partition'
    BY <1>1, <2>1, <2>3, <2>4, <2>5 DEF Partition
  <2>7. EventsDistinct' /\ InFlightDistinct'
    BY <1>1, <2>1, <2>2 DEF EventsDistinct, InFlightDistinct
  <2> QED
    BY <2>6, <2>7, AccountParts
<1>8. ASSUME NEW w \in Workers, Elsewhere(w)
      PROVE  BilledIsAccountedFor'
  BY <1>8, ElsewhereKeepsEvents, AccountUnchanged DEF boundaryVars
<1>9. CASE UNCHANGED allVars
  BY <1>9, AccountUnchanged DEF allVars, storeVars, boundaryVars
<1> QED
  BY <1>2, <1>3, <1>4, <1>5, <1>6, <1>7, <1>8, <1>9 DEF SharedNext, BoundaryNext, CallStep

(* Whatever is interleaved, aborted or crashes, every charged call has one *)
(* event, or one about to be inserted, or was dropped (boundary.py:58-104).*)
THEOREM EveryBillIsAccountedFor == SharedSpec => []BilledIsAccountedFor
<1>1. BoundaryInit => BilledIsAccountedFor /\ OnlyCallsUnsaved
  BY DEF BoundaryInit, StoreInit, BilledIsAccountedFor, Recorded, InFlight, NoCall,
         OnlyCallsUnsaved
<1>2. CallTypeOK /\ CallTypeOK' /\ StoreInv /\ OnlyCallsUnsaved /\ [SharedNext]_allVars
        => OnlyCallsUnsaved'
  BY OnlyCallsUnsavedStep
<1>3. StoreTypeOK /\ CallTypeOK /\ CallTypeOK' /\ StoreInv /\ CallsDurable /\ OnlyCallsUnsaved
      /\ BilledIsAccountedFor /\ [SharedNext]_allVars => BilledIsAccountedFor'
  BY AccountStep
<1> QED
  BY <1>1, <1>2, <1>3, CallTypesHold, CallsStayDurable, SharedUsesStore, StoreTypeCorrect,
     StoreInvariant, PTL DEF SharedSpec, allVars

(* The boundary's variables keep their types, whatever else uses the store;*)
(* what a crash drops was billed, by the account above (boundary.py:58-104).*)
THEOREM BoundaryTypeCorrect == SharedSpec => []BoundaryTypeOK
<1>1. StoreTypeOK /\ CallTypeOK /\ BilledIsAccountedFor => BoundaryTypeOK
  BY DEF CallTypeOK, BilledIsAccountedFor, BoundaryTypeOK
<1> QED
  BY <1>1, SharedUsesStore, StoreTypeCorrect, CallTypesHold, EveryBillIsAccountedFor, PTL

-----------------------------------------------------------------------------
(***************************************************************************)
(* Costs are reproducible as long as events and rates are lost together,   *)
(* as they are with the in-memory database.  The invariant follows the row *)
(* from the lookup through the call to the table of events; what keeps it  *)
(* is that a row's id is never given to another row.                       *)
(***************************************************************************)
IdsDistinct ==
  \A i, j \in DOMAIN rates : rates[i].price_basis_id = rates[j].price_basis_id => i = j

\* Event e can be recomputed from the rate table.
Reproducible(e) ==
  /\ CanGet(rates, e.price_basis_id)
  /\ Covers(Get(rates, e.price_basis_id), e.model_tier, e.timestamp)
  /\ e.computed_cost = ComputeCost(Get(rates, e.price_basis_id), e.usage)

PricedInv ==
  /\ savedEvents = {}
  /\ IdsDistinct
  /\ \A e \in events : Reproducible(e)
  /\ \A w \in Workers :
       /\ call[w].pc = "model" =>
            /\ \E i \in DOMAIN rates : rates[i] = call[w].basis
            /\ Covers(call[w].basis, call[w].model_tier, call[w].timestamp)
       /\ call[w].pc = "record" => Reproducible(call[w].event)

(* With distinct ids, get finds any row by its id.                         *)
LEMMA GetFindsRow ==
  ASSUME RateTypeOK, IdsDistinct, NEW i \in DOMAIN rates
  PROVE  CanGet(rates, rates[i].price_basis_id) /\ Get(rates, rates[i].price_basis_id) = rates[i]
<1>1. CanGet(rates, rates[i].price_basis_id)
  BY DEF CanGet
<1>2. First(rates, rates[i].price_basis_id) = i
  BY <1>1, FirstExists DEF IdsDistinct, RateTypeOK
<1> QED
  BY <1>1, <1>2 DEF Get

(* A new row under a new id changes no price that was given.               *)
LEMMA NewRateKeepsPrices ==
  ASSUME RateTypeOK, IdsDistinct, NEW b \in PriceBases, AddNewRate(b)
  PROVE  /\ IdsDistinct'
         /\ \A e : Reproducible(e) => Reproducible(e)'
         /\ \A row : (\E i \in DOMAIN rates : rates[i] = row) =>
                      \E i \in DOMAIN rates' : rates'[i] = row
<1>1. rates' = Append(rates, b) /\ rates \in Seq(PriceBases) /\ ~CanGet(rates, b.price_basis_id)
  BY DEF AddNewRate, AddRate, RateTypeOK
<1>2. /\ DOMAIN rates' = DOMAIN rates \cup {Len(rates) + 1}
      /\ \A i \in DOMAIN rates : rates'[i] = rates[i]
      /\ rates'[Len(rates) + 1] = b
  BY <1>1
<1>3. IdsDistinct'
  BY <1>1, <1>2 DEF IdsDistinct, CanGet
<1>4. ASSUME NEW e, Reproducible(e)
      PROVE  Reproducible(e)'
  BY <1>1, <1>4, GetIsStable DEF Reproducible
<1> QED
  BY <1>2, <1>3, <1>4

(* Every step keeps the prices traceable.                                  *)
LEMMA PricedStep ==
  ASSUME ~Persistent, CallTypeOK, CallTypeOK', PricedInv, [SharedNext]_allVars
  PROVE  PricedInv'
<1>1. ASSUME NEW w \in Workers, UNCHANGED <<rates, savedEvents>>,
             \A v \in Workers \ {w} : call'[v] = call[v],
             \A e \in events' : Reproducible(e),
             call'[w].pc = "model" =>
               /\ \E i \in DOMAIN rates : rates[i] = call'[w].basis
               /\ Covers(call'[w].basis, call'[w].model_tier, call'[w].timestamp),
             call'[w].pc = "record" => Reproducible(call'[w].event)
      PROVE  PricedInv'
  BY <1>1 DEF PricedInv, IdsDistinct, Reproducible
<1>2. ASSUME NEW w \in Workers, NEW oid \in OutcomeLabels, NEW tier \in Tiers,
             NEW attempt \in Attempts, NEW at \in Instants, BeginCall(w, oid, tier, attempt, at)
      PROVE  PricedInv'
  <2>1. UNCHANGED <<rates, savedEvents, events>> /\ \A v \in Workers \ {w} : call'[v] = call[v]
    BY <1>2 DEF BeginCall, storeVars, CallTypeOK
  <2>2. CASE CanLookup(rates, tier, at)
    <3>1. call'[w] = AtModel(oid, tier, attempt, at, Lookup(rates, tier, at))
      BY <1>2, <2>2 DEF BeginCall, CallTypeOK
    <3> QED
      BY <1>1, <2>1, <2>2, <3>1, LookupType DEF AtModel, PricedInv, CallTypeOK
  <2>3. CASE ~CanLookup(rates, tier, at)
    <3>1. call'[w] = Raised
      BY <1>2, <2>3 DEF BeginCall, CallTypeOK
    <3> QED
      BY <1>1, <2>1, <3>1 DEF Raised, PricedInv
  <2> QED
    BY <2>2, <2>3
<1>3. ASSUME NEW w \in Workers, NEW eid \in EventIds, NEW status \in {OK, ERROR},
             NEW usage \in Usages, ModelCall(w, eid, status, usage)
      PROVE  PricedInv'
  <2> DEFINE e == EventOf(call[w], eid, status, usage)
  <2>1. /\ UNCHANGED <<rates, savedEvents, events>>
        /\ \A v \in Workers \ {w} : call'[v] = call[v]
        /\ call'[w] = WithEvent("record", e) \/ call'[w] = Raised
    BY <1>3 DEF ModelCall, storeVars, CallTypeOK
  <2>2. PICK i \in DOMAIN rates : rates[i] = call[w].basis
    BY <1>3 DEF ModelCall, PricedInv
  <2>3. Get(rates, call[w].basis.price_basis_id) = call[w].basis
        /\ CanGet(rates, call[w].basis.price_basis_id)
    BY <2>2, GetFindsRow DEF PricedInv, CallTypeOK
  <2>4. Reproducible(e)
    BY <1>3, <2>3 DEF Reproducible, EventOf, ModelCall, PricedInv
  <2> QED
    BY <1>1, <2>1, <2>4 DEF WithEvent, Raised, PricedInv
<1>4. ASSUME NEW w \in Workers, InsertEvent(w)
      PROVE  PricedInv'
  <2>1. UNCHANGED <<rates, savedEvents>> /\ events' = events \cup {call[w].event}
        /\ \A v \in Workers \ {w} : call'[v] = call[v]
    BY <1>4 DEF InsertEvent, InsertExecute, saved, CallTypeOK
  <2>2. call[w].pc = "record" /\ call'[w].pc = "commit"
    BY <1>4, CallShapes DEF InsertEvent, CallTypeOK
  <2> QED
    BY <1>1, <2>1, <2>2 DEF PricedInv
<1>5. ASSUME NEW w \in Workers, EventCommitted(w)
      PROVE  PricedInv'
  <2>1. UNCHANGED <<rates, savedEvents, events>> /\ \A v \in Workers \ {w} : call'[v] = call[v]
    BY <1>5 DEF EventCommitted, Commit, tables, CallTypeOK
  <2>2. call'[w].pc = "done"
    BY <1>5, CallShapes DEF EventCommitted, CallTypeOK
  <2> QED
    BY <1>1, <2>1, <2>2 DEF PricedInv
<1>6. ASSUME NEW w \in Workers, ModelRefuses(w) \/ Return(w)
      PROVE  PricedInv'
  BY <1>1, <1>6 DEF ModelRefuses, Return, Raised, NoCall, storeVars, PricedInv, CallTypeOK
<1>7. ASSUME NEW b \in PriceBases, AddNewRate(b)
      PROVE  PricedInv'
  BY <1>7, NewRateKeepsPrices DEF AddNewRate, storeVars, PricedInv, CallTypeOK
<1>8. CASE BoundaryCrash
  BY <1>8 DEF BoundaryCrash, Crash, saved, PricedInv, IdsDistinct, NoCall
<1>9. ASSUME NEW w \in Workers, Elsewhere(w)
      PROVE  PricedInv'
  <2>1. UNCHANGED <<rates, call, events, savedEvents>>
    BY <1>9, ElsewhereKeepsEvents
       DEF Elsewhere, boundaryVars, OpenExecute, ResolveRead, ResolveUpdate, SweepRead,
           SweepUpdate, SweepDone, Commit, saved
  <2> QED
    BY <2>1 DEF PricedInv, IdsDistinct, Reproducible
<1>10. CASE UNCHANGED allVars
  BY <1>10 DEF allVars, storeVars, boundaryVars, PricedInv, IdsDistinct, Reproducible
<1> QED
  BY <1>2, <1>3, <1>4, <1>5, <1>6, <1>7, <1>8, <1>9, <1>10 DEF SharedNext, BoundaryNext, CallStep

(* With the in-memory database every stored cost is, for ever, what the    *)
(* formula gives for the event's own tokens and the row its basis id       *)
(* names (boundary.py:56-104, pricing.py:39-83).                           *)
THEOREM CostsStayReproducible ==
  ASSUME ~Persistent
  PROVE  SharedSpec => []CostsAreReproducible
<1>1. BoundaryInit => PricedInv
  BY DEF BoundaryInit, StoreInit, PricedInv, IdsDistinct, NoCall
<1>2. CallTypeOK /\ CallTypeOK' /\ PricedInv /\ [SharedNext]_allVars => PricedInv'
  BY ~Persistent, PricedStep
<1>3. PricedInv => CostsAreReproducible
  BY DEF PricedInv, Reproducible, Reconciles, CostsAreReproducible
<1> QED
  BY <1>1, <1>2, <1>3, CallTypesHold, PTL DEF SharedSpec, allVars

=============================================================================
