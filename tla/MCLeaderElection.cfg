SPECIFICATION FairSpec
CONSTANTS
    Electors = {e1, e2}
    Workers = {e1}
    NoHolder = NoHolder
    MaxStalls = 2
    MaxDBErrors = 1
INVARIANTS
    TypeOK
    EpochUnique
    FenceSound
    VerdictSound
PROPERTIES
    DeposedLeaderNotices
    LeaderReappears
CHECK_DEADLOCK FALSE
