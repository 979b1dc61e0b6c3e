---------------------------- MODULE TierSelector ----------------------------
(***************************************************************************)
(* inventory.tier_selector: the search of a list of tiers for the best one *)
(* within a budget, or for one at an exact price.  One execution is one    *)
(* query; the list, read from the database once, does not change.          *)
(*                                                                         *)
(* bisect_right and bisect_left are Python's; they are stepped through,    *)
(* for what they return on a list that is not sorted depends on the way.   *)
(* Prices have ten digits and keep their order as floats.                  *)
(***************************************************************************)
EXTENDS Integers

CONSTANTS
    Sizes,      \* bound: the lengths of the lists
    Prices,     \* bound: the prices of tiers
    Orders,     \* bound: their sort_order
    Budgets     \* bound: the budgets and the exact prices asked for

ASSUME SelectorAssumption ==
    /\ Sizes \subseteq Nat
    /\ Prices \subseteq Int
    /\ Orders \subseteq Nat
    /\ Budgets \subseteq Int

\* open: quantity_available > 0 and is_on_sale().
TierData == [price : Prices, order : Orders, open : BOOLEAN]

VARIABLES
    n,          \* len(self._tiers)
    tiers,      \* self._tiers, from 0
    kind,       \* "budget": select_for_budget; "exact": select_exact
    asked,      \* the budget, or the price
    pc,         \* where the query stands
    lo, hi,     \* of bisect
    idx,        \* of the walk to the left
    result      \* the index of the tier returned, or NoTier

selectorVars == <<n, tiers, kind, asked, pc, lo, hi, idx, result>>
given        == <<n, tiers, kind, asked>>

NoTier == -1

Indices == 0..(n - 1)

\* Meta.ordering of TicketTier: sort_order, then price.
MetaOrdered ==
    \A i, j \in Indices :
        i < j => \/ tiers[i].order < tiers[j].order
                 \/ /\ tiers[i].order = tiers[j].order
                    /\ tiers[i].price <= tiers[j].price

SelectorInit ==
    /\ n \in Sizes
    /\ tiers \in [Indices -> TierData]
    /\ MetaOrdered
    /\ asked \in Budgets
    /\ kind \in {"budget", "exact"}
    /\ pc = IF kind = "budget" THEN "right" ELSE "left"
    /\ lo = 0
    /\ hi = n
    /\ idx = NoTier
    /\ result = NoTier

-----------------------------------------------------------------------------
Mid == (lo + hi) \div 2

\* Mutant: bisect_left in the place of bisect_right.
StepStrict ==
    /\ pc = "right"
    /\ lo < hi
    /\ IF asked <= tiers[Mid].price
       THEN hi' = Mid /\ UNCHANGED lo
       ELSE lo' = Mid + 1 /\ UNCHANGED hi
    /\ UNCHANGED <<given, pc, idx, result>>

\* Mutant: the lower bound does not move past the middle.
StepStuck ==
    /\ pc = "right"
    /\ lo < hi
    /\ IF asked < tiers[Mid].price
       THEN hi' = Mid /\ UNCHANGED lo
       ELSE lo' = Mid /\ UNCHANGED hi
    /\ UNCHANGED <<given, pc, idx, result>>

\* select_for_budget: bisect.bisect_right
StepRight ==
    /\ pc = "right"
    /\ lo < hi
    /\ IF asked < tiers[Mid].price
       THEN hi' = Mid /\ UNCHANGED lo
       ELSE lo' = Mid + 1 /\ UNCHANGED hi
    /\ UNCHANGED <<given, pc, idx, result>>

StartWalk ==
    /\ pc = "right"
    /\ lo >= hi
    /\ idx' = lo - 1
    /\ pc' = "walk"
    /\ UNCHANGED <<given, lo, hi, result>>

Return(i) ==
    /\ result' = i
    /\ pc' = "done"
    /\ UNCHANGED <<given, lo, hi, idx>>

WalkLeft ==
    /\ pc = "walk"
    /\ idx >= 0
    /\ ~tiers[idx].open
    /\ idx' = idx - 1
    /\ UNCHANGED <<given, pc, lo, hi, result>>

ReturnOpen ==
    /\ pc = "walk"
    /\ idx >= 0
    /\ tiers[idx].open
    /\ Return(idx)

ReturnNone ==
    /\ pc = "walk"
    /\ idx < 0
    /\ Return(NoTier)

\* Mutant: bisect_right in the place of bisect_left.
StepLoose ==
    /\ pc = "left"
    /\ lo < hi
    /\ IF tiers[Mid].price <= asked
       THEN lo' = Mid + 1 /\ UNCHANGED hi
       ELSE hi' = Mid /\ UNCHANGED lo
    /\ UNCHANGED <<given, pc, idx, result>>

\* select_exact: bisect.bisect_left
StepLeft ==
    /\ pc = "left"
    /\ lo < hi
    /\ IF tiers[Mid].price < asked
       THEN lo' = Mid + 1 /\ UNCHANGED hi
       ELSE hi' = Mid /\ UNCHANGED lo
    /\ UNCHANGED <<given, pc, idx, result>>

ExactAt(i) == i < n /\ tiers[i].price = asked

ReturnExact ==
    /\ pc = "left"
    /\ lo >= hi
    /\ Return(IF ExactAt(lo) THEN lo ELSE NoTier)

SelectorNext ==
    \/ StepRight
    \/ StartWalk
    \/ WalkLeft
    \/ ReturnOpen
    \/ ReturnNone
    \/ StepLeft
    \/ ReturnExact

\* A thread that searches goes on searching.
SelectorSpec ==
    /\ SelectorInit
    /\ [][SelectorNext]_selectorVars
    /\ WF_selectorVars(SelectorNext)
-----------------------------------------------------------------------------
\* The order that the search needs.
PriceOrdered ==
    \A i, j \in Indices : i <= j => tiers[i].price <= tiers[j].price

Affordable(i) == tiers[i].open /\ tiers[i].price <= asked

\* On a list in order of price, select_for_budget returns an open tier within
\* the budget with none dearer, and None only if there is none
\* (tier_selector.py:37), although it passes over any number of closed tiers.
BestWithinBudget ==
    PriceOrdered /\ kind = "budget" /\ pc = "done" =>
        IF result = NoTier
        THEN \A i \in Indices : ~Affordable(i)
        ELSE /\ result \in Indices
             /\ Affordable(result)
             /\ \A i \in Indices :
                   Affordable(i) => tiers[i].price <= tiers[result].price

\* On such a list, select_exact returns the first tier at the price, and None
\* only if there is none (tier_selector.py:62-68).
ExactFound ==
    PriceOrdered /\ kind = "exact" /\ pc = "done" =>
        IF result = NoTier
        THEN \A i \in Indices : tiers[i].price # asked
        ELSE /\ result \in Indices
             /\ tiers[result].price = asked
             /\ \A i \in Indices : tiers[i].price = asked => result <= i

\* The loop invariants of bisect and of the walk.  The list may be in any
\* order: then only the bounds hold, and no index leaves the list.
Bisected ==
    PriceOrdered =>
        /\ pc = "right" => /\ \A i \in 0..(lo - 1) : tiers[i].price <= asked
                           /\ \A i \in hi..(n - 1) : tiers[i].price > asked
        /\ pc = "left" => /\ \A i \in 0..(lo - 1) : tiers[i].price < asked
                          /\ \A i \in hi..(n - 1) : tiers[i].price >= asked
        /\ pc = "walk" => /\ \A i \in 0..idx : tiers[i].price <= asked
                          /\ \A i \in (idx + 1)..(n - 1) : ~Affordable(i)

SelectorInv ==
    /\ n \in Nat
    /\ tiers \in [Indices -> TierData]
    /\ kind \in {"budget", "exact"}
    /\ asked \in Int
    /\ pc \in IF kind = "budget" THEN {"right", "walk", "done"} ELSE {"left", "done"}
    /\ lo \in 0..n /\ hi \in 0..n /\ lo <= hi
    /\ idx \in -1..(n - 1)
    /\ result \in -1..(n - 1)
    /\ Bisected
    /\ BestWithinBudget
    /\ ExactFound

\* The search halves the list and the walk shortens it: each query ends.
Finishes == <>(pc = "done")
=============================================================================
