SPECIFICATION Spec
CONSTANTS
    None = None
    Scans = {s1, s2}
    Stewards = {d1}
    Purges = {x1}
    MaxCrashes = 0
CHECK_DEADLOCK FALSE
INVARIANT OverlayAlwaysWins
