SPECIFICATION LiveSpec
CONSTANTS
    r1 = r1  r2 = r2
    None = None
    Runners = {n1, n2}
    Rems <- MCRems
    Recurring = {r1}
    Until <- MCUntil
    BatchSize = 1
    MaxTime = 2
    MaxFaults = 1
    MaxUpdates = 1
CHECK_DEADLOCK FALSE
INVARIANTS NeverEarly NextOccurrence
PROPERTIES ImplementsPromise Settles
