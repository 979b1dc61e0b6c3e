\* Three gates in two processes, and two fingerprints.
CONSTANTS
    g1 = g1
    g2 = g2
    g3 = g3
    p1 = p1
    p2 = p2
    f1 = f1
    f2 = f2
    Gates = {g1, g2, g3}
    Processes = {p1, p2}
    ProcessOf <- TwoProcesses
    Fingerprints = {f1, f2}
    Hashes <- SharedPosition
    TTL = 2
    Nothing = Nothing
SPECIFICATION CheckInSpec
SYMMETRY GateSymmetry
INVARIANTS
    NoFalseNegative
    KeptForTTL
    ReturnGivesEnd
