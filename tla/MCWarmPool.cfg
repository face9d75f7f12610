SPECIFICATION LiveSpec
CONSTANTS
    j1 = j1  j2 = j2  k1 = k1
    None = None
    Jobs <- MCJobs
    Keys = {k1}
    KeyOf <- MCKeyOf
    MaxPerRole = 1
    MaxPodmanErrors = 1
    MaxRestarts = 1
CHECK_DEADLOCK FALSE
INVARIANTS RoleBounded Exclusive OwnResult StopClean
PROPERTIES Reclaimed
