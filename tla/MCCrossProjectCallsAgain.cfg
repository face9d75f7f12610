CONSTANTS
    s1 = s1
    s2 = s2
    Scanners = {s1}
    HasTimeout = TRUE
    CancelOnTimeout = TRUE
    MaxCalls = 2
    MaxFaults = 0
SPECIFICATION Spec
PROPERTIES
    ContinuesAfterResult
CHECK_DEADLOCK FALSE
