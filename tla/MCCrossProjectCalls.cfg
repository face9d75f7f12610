CONSTANTS
    s1 = s1
    s2 = s2
    Scanners = {s1}
    HasTimeout = TRUE
    CancelOnTimeout = TRUE
    MaxCalls = 2
    MaxFaults = 1
SPECIFICATION Spec
INVARIANTS
    
    WakeOwed
PROPERTIES
    ResolvedOnce
    EndedKept
CHECK_DEADLOCK FALSE
