--------------------------- MODULE MCTierSelector ---------------------------
(***************************************************************************)
(* TLC instances of TierSelector: every list of a few tiers.               *)
(***************************************************************************)
EXTENDS TierSelector

\* Up to four tiers; budgets below, between and above three prices.
UpToFour == 0..4
ThreePrices == {2, 4, 6}
AnyBudget == 1..6
=============================================================================
