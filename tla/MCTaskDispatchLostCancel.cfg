SPECIFICATION Spec
CONSTANTS
    Nodes = {n1, n2}
    Tasks = {t1}
    None = None
    MaxLeases = 2
    MaxConcurrency = 1
    ProjectCap = 1
    MaxAttempts = 2
    MaxCancels = 1
    MaxRequeues = 0
    MaxStalls = 0
    MaxDBErrors = 0
SYMMETRY Symmetry
PROPERTIES CancelledStays
