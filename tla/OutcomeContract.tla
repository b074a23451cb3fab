-------------------------- MODULE OutcomeContract --------------------------
(***************************************************************************)
(* What costkit promises about outcomes: an outcome is opened once, is     *)
(* resolved exactly once, by its owner or by a sweep that finds it pending *)
(* past its window, and never changes again.  Every operation is one       *)
(* atomic step here; CostStore shows what the SQLite statements make of    *)
(* it.                                                                     *)
(***************************************************************************)
EXTENDS Outcome

CONSTANT OutcomeIds

VARIABLE outcomes   \* outcome_id -> its row, NoRow while there is none

Init == outcomes = [id \in OutcomeIds |-> NoRow]

\* A row appears, pending.
Open(id, t, w) ==
  /\ outcomes[id] = NoRow
  /\ outcomes' = [outcomes EXCEPT ![id] = NewOutcome(t, w)]

\* The owner's single write from pending to succeeded or failed.
Resolve(id, status, at) ==
  /\ CanResolve(outcomes[id], status)
  /\ outcomes' = [outcomes EXCEPT ![id] = Resolution(@, status, at)]

\* One sweep abandons every outcome that is pending past its window at `at'.
Sweep(at) ==
  outcomes' = [id \in OutcomeIds |->
                 IF IsPastResolutionWindow(outcomes[id], at)
                   THEN Resolution(outcomes[id], ABANDONED, at)
                   ELSE outcomes[id]]

Next ==
  \/ \E id \in OutcomeIds, t \in Times, w \in Windows : Open(id, t, w)
  \/ \E id \in OutcomeIds, status \in OwnerStatuses, at \in Times : Resolve(id, status, at)
  \/ \E at \in Times : Sweep(at)

Spec == Init /\ [][Next]_outcomes

-----------------------------------------------------------------------------
(* A resolved outcome never changes again: outcome-contract.md's           *)
(* "immutable", and outcome.py's AlreadyResolvedError.                     *)
ResolvedIsImmutable ==
  [][\A id \in OutcomeIds :
       outcomes[id].status \in RESOLVED_STATUSES => outcomes'[id] = outcomes[id]]_outcomes

=============================================================================
