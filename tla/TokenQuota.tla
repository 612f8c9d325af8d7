----------------------------- MODULE TokenQuota -----------------------------
(***************************************************************************)
(* What a token bucket promises: it starts full, is refilled tick by tick  *)
(* up to its capacity, and every request that passes has paid its cost.    *)
(***************************************************************************)
EXTENDS TokenBucket

VARIABLE budget

Init == budget = Capacity

Refill == budget' = AtMost(Capacity, budget + Rate)

Spend == budget >= Cost /\ budget' = budget - Cost

Spec == Init /\ [][Refill \/ Spend]_budget
=============================================================================
