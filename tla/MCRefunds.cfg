\* Two refunds of two payments, each with tickets on both tiers.
CONSTANTS
    Calls = {r1, r2}
    p1 = p1
    p2 = p2
    k1 = k1
    k2 = k2
    k3 = k3
    k4 = k4
    k5 = k5
    t1 = t1
    t2 = t2
    Payments = {p1, p2}
    Tickets = {k1, k2, k3, k4, k5}
    Tiers = {t1, t2}
    PaymentOf <- ThreeAndTwo
    TierOf <- Crossed
    LogOutcomes = {"raises", "returns"}
    AdminStatuses = {"disputed"}
    AdminTickets = {k1, k4}
    AdminMarks = {"checked_in"}
    Free = Free
    None = None
SPECIFICATION RefundSpec
INVARIANTS
    RefundedOnce
    OnlyLateCheckIns
    NoPlaceMadeUp
PROPERTIES
    RefundIsWhole
    RefundsEnd
\* Every call may have ended, and administrators save nothing new.
CHECK_DEADLOCK FALSE
