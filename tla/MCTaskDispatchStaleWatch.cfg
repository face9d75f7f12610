SPECIFICATION Spec
CONSTANTS
    Nodes = {n1}
    Tasks = {t1}
    None = None
    MaxLeases = 3
    MaxConcurrency = 2
    ProjectCap = 1
    MaxAttempts = 3
    MaxCancels = 0
    MaxRequeues = 1
    MaxStalls = 0
    MaxDBErrors = 0
SYMMETRY Symmetry
INVARIANTS NotCancelledUnasked
