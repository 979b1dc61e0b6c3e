---------------------------- MODULE MCCreateHold ----------------------------
(***************************************************************************)
(* TLC instances of CreateHold: small sets of tokens, users and tiers.     *)
(***************************************************************************)
EXTENDS CreateHold, TLC

CONSTANTS t1, t2, e1

\* One tier, or two tiers of one event.
OneTier == {t1}
TwoTiers == {t1, t2}
OneEvent == {e1}
TierEvents == [t \in Tiers |-> e1]

\* A caller's int: negative, zero, one place, the whole of a small tier.
AnyQuantity == {-1, 0, 1, 2}

\* Tokens and users are interchangeable; tiers are not used as symmetric, for
\* they are the domain of EventOf.
TokenSymmetry == Permutations(Tokens) \cup Permutations(Users)
=============================================================================
