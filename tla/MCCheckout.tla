----------------------------- MODULE MCCheckout -----------------------------
(***************************************************************************)
(* TLC instances of Checkout: one or two tiers of one event.               *)
(***************************************************************************)
EXTENDS Checkout, TLC

CONSTANTS t1, t2, e1

OneTier == {t1}
TwoTiers == {t1, t2}
OneEvent == {e1}
TierEvents == [t \in Tiers |-> e1]

\* Every set of interchangeable values; sound for the runs without liveness.
Symmetry == Permutations(Tokens) \cup Permutations(Users)
                \cup Permutations(Releases) \cup Permutations(Sweeps)
=============================================================================
