\* Lists of up to four tiers, in the order of Meta.ordering, sorted by price or not.
CONSTANTS
    Sizes <- UpToFour
    Prices <- ThreePrices
    Orders = {0, 1}
    Budgets <- AnyBudget
SPECIFICATION SelectorSpec
INVARIANTS
    BestWithinBudget
    ExactFound
PROPERTIES
    Finishes
\* A query that has returned stops.
CHECK_DEADLOCK FALSE
