\* Three calls of one user on two tiers of an event, a release, two sweeps, failures.
CONSTANTS
    Tokens = {h1, h2, h3}
    Users = {u1}
    t1 = t1
    t2 = t2
    e1 = e1
    Tiers <- TwoTiers
    Events <- OneEvent
    EventOf <- TierEvents
    MaxHolds = 1
    Totals = {3}
    Solds = {0}
    Quantities = {1}
    NoRow = NoRow
    Free = Free
    None = None
    Releases = {r1}
    Sweeps = {s1, s2}
SPECIFICATION CheckoutSafety
SYMMETRY Symmetry
INVARIANTS
    TierHoldBound
    EventHoldBound
    AdmittedBound
    SweptOnce
    ActiveIsTracked
    NoGhostEntry
    EntryOfActive
\* Every call, release and sweep may have ended.
CHECK_DEADLOCK FALSE
