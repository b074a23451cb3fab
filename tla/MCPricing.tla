----------------------------- MODULE MCPricing -----------------------------
(* Pricing on small tables.  One rate card: two rows of equal rates still  *)
(* differ by id and window.                                                *)
EXTENDS Pricing

OneCard == {[input |-> 2, output |-> 3, cached |-> 1]}

=============================================================================
