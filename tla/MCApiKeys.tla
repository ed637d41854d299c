------------------------------- MODULE MCApiKeys -------------------------------
(* ApiKeys for TLC: one key on FREE, two on the paid tiers, in place of 3, *)
(* 25 and 100, so that two requests are enough to reach a limit.           *)
EXTENDS ApiKeys, TLC

Limits == [t \in Tiers |-> IF t = "FREE" THEN 1 ELSE 2]

Symmetry ==
  Permutations(Keys) \cup Permutations(Subs) \cup Permutations(Slots) \cup Permutations(Hooks)

===============================================================================
