\* One tier of two places, every kind of quantity, three concurrent calls.
CONSTANTS
    Tokens = {h1, h2, h3}
    Users = {u1, u2}
    t1 = t1
    t2 = t2
    e1 = e1
    Tiers <- OneTier
    Events <- OneEvent
    EventOf <- TierEvents
    MaxHolds = 2
    Totals = {2}
    Solds = {0, 1}
    Quantities <- AnyQuantity
    NoRow = NoRow
    Free = Free
    None = None
SPECIFICATION Spec
INVARIANTS
    TypeOK
    HeldMatchesActive
    NoOversell
    CommittedIsTracked
PROPERTIES
    SoldOutIsTrue
    ImplementsLedger
    CallsFinish
\* Every call may have ended.
CHECK_DEADLOCK FALSE
