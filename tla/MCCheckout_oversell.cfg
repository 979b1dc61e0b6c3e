\* A release against a creation: the count it writes is stale.
CONSTANTS
    Tokens = {h1, h2, h3}
    Users = {u1, u2}
    t1 = t1
    t2 = t2
    e1 = e1
    Tiers <- OneTier
    Events <- OneEvent
    EventOf <- TierEvents
    MaxHolds = 2
    Totals = {2}
    Solds = {0}
    Quantities = {1, 2}
    NoRow = NoRow
    Free = Free
    None = None
    Releases = {r1}
    Sweeps = {}
SPECIFICATION FaultFreeSafety
INVARIANTS
    NoOversell
\* Every call, release and sweep may have ended.
CHECK_DEADLOCK FALSE
