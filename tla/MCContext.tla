----------------------------- MODULE MCContext -----------------------------
(* Context on one plain dimension and the outcome_id.                      *)
EXTENDS Context, TLC

MCSentinels == [feature |-> "unset", outcome_id |-> "unset"]

ContextSymmetry == Permutations(Threads)

=============================================================================
