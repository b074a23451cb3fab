------------------------------ MODULE Outcome ------------------------------
(***************************************************************************)
(* The local (in-memory) outcome record of costkit/outcome.py and its two  *)
(* transitions.  The operators are pure: they say when a method returns    *)
(* normally and what it leaves in the record.  Who calls them, on which    *)
(* copy, and what is written back is the business of CostStore.            *)
(*                                                                         *)
(* Instants and durations are natural numbers.  `feature' and `tenant'     *)
(* never influence a transition and are left out.                          *)
(***************************************************************************)
EXTENDS Integers

CONSTANTS Times,     \* the instants callers pass as opened_at and at
          Windows    \* the resolution windows they choose

ASSUME TimesAssumption == Times \subseteq Nat /\ Windows \subseteq Nat

\* resolved_at IS NULL
Null == -1

PENDING   == "pending"
SUCCEEDED == "succeeded"
FAILED    == "failed"
ABANDONED == "abandoned"

RESOLVED_STATUSES == {SUCCEEDED, FAILED, ABANDONED}

\* The statuses resolve() accepts; abandonment is sweep_abandoned's job.
OwnerStatuses == {SUCCEEDED, FAILED}

\* The value a table holds for an outcome_id it has no row for.
NoRow == [opened_at |-> 0, window |-> 0, status |-> "absent", resolved_at |-> Null]

\* Mutant of NewOutcome: stores the deadline as opened_at.
NewOutcomeAtDeadline(t, w) ==
  [opened_at |-> t + w, window |-> w, status |-> PENDING, resolved_at |-> Null]

NewOutcome(t, w) ==
  [opened_at |-> t, window |-> w, status |-> PENDING, resolved_at |-> Null]

Rows == [opened_at   : Times,
         window      : Windows,
         status      : {PENDING} \cup RESOLVED_STATUSES,
         resolved_at : Times \cup {Null}]

\* resolve() returns: neither ValueError nor AlreadyResolvedError.
CanResolve(o, status) == status \in OwnerStatuses /\ o.status = PENDING

\* The assignments both transitions end with.
Resolution(o, status, at) == [o EXCEPT !.status = status, !.resolved_at = at]

\* Mutant of IsPastResolutionWindow: the boundary instant is excluded.
IsStrictlyPastWindow(o, at) ==
  o.status = PENDING /\ at > o.opened_at + o.window

IsPastResolutionWindow(o, at) ==
  o.status = PENDING /\ at >= o.opened_at + o.window

\* counts_toward_denominator
CountsTowardDenominator(o) == o.status = SUCCEEDED

=============================================================================
