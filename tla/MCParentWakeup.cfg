SPECIFICATION FairSpec
CONSTANTS
    FanOutLimit = 2
    Modes = {"PARALLEL", "SEQUENTIAL"}
    ResumeGuard = TRUE
    MaxAttempts = 2
    MaxFaults = 2
INVARIANTS TypeOK WakesOnce 
PROPERTIES NoRespawn SettlesUnlessMissed
CHECK_DEADLOCK FALSE
