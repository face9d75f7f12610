SPECIFICATION FairSpec
CONSTANTS
    FanOutLimit = 2
    Modes = {"PARALLEL"}
    ResumeGuard = TRUE
    MaxAttempts = 2
    MaxFaults = 0
PROPERTIES ParentSettles
CHECK_DEADLOCK FALSE
