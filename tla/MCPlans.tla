------------------------------- MODULE MCPlans -------------------------------
(* Plans on a small instance: two tiers, a month of two ticks; three tiers   *)
(* for what MonthWithinTier leaves out.                                      *)
EXTENDS Plans, TLC

Ladder == <<2, 6>>
Ladder3 == <<2, 6, 10>>
Swap == Permutations(Accounts)
=============================================================================
