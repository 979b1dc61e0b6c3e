\* Six calls with a limit of two, across two windows.
CONSTANTS
    Calls = {c1, c2, c3, c4, c5, c6}
    Limit = 2
    Window = 2
    MaxTime = 5
SPECIFICATION LimiterSpec
SYMMETRY CallSymmetry
INVARIANTS
    KeyEnds
    OvershootExplained
PROPERTIES
    DenialEarned
\* Every call may have ended, and the clock stopped.
CHECK_DEADLOCK FALSE
