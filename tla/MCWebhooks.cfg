\* Four deliveries of four payments, two of them without an id.
CONSTANTS
    Deliveries = {d1, d2, d3, d4}
    p1 = p1
    p2 = p2
    p3 = p3
    p4 = p4
    i1 = i1
    Payments <- WithMissing
    Provider <- ProviderOf
    OrderId <- OrderIdOf
    NoId = NoId
    None = None
SPECIFICATION WebhookSpec
SYMMETRY DeliverySymmetry
INVARIANTS
    RetrySafe
    NoCrossTalk
\* Every delivery may have ended.
CHECK_DEADLOCK FALSE
