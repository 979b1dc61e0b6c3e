\* One sweep of two holds on one tier.
CONSTANTS
    Tokens = {h1, h2}
    Users = {u1}
    t1 = t1
    t2 = t2
    e1 = e1
    Tiers <- OneTier
    Events <- OneEvent
    EventOf <- TierEvents
    MaxHolds = 2
    Totals = {2}
    Solds = {0}
    Quantities = {1}
    NoRow = NoRow
    Free = Free
    None = None
    Releases = {r1}
    Sweeps = {s1}
SPECIFICATION FaultFreeSafety
INVARIANTS
    InventoryRestored
\* Every call, release and sweep may have ended.
CHECK_DEADLOCK FALSE
