SPECIFICATION LiveSpec
CONSTANTS
    Nodes = {n1}
    Tasks = {t1}
    None = None
    MaxLeases = 1
    MaxConcurrency = 1
    ProjectCap = 1
    MaxAttempts = 1
    MaxCancels = 1
    MaxRequeues = 1
    MaxStalls = 1
    MaxDBErrors = 2
INVARIANTS TypeOK
PROPERTIES AtRestKept EveryTaskSettles
