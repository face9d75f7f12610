SPECIFICATION LiveSpec
CONSTANTS
    c1 = c1  c2 = c2  c3 = c3  r1 = r1
    None = None
    Calls <- MCCalls
    Workers = {w1, w2}
    Routes = {r1}
    Priority <- MCPriority
    RouteOf <- MCRouteOf
    Depth <- MCDepth
    MaxHung = 1
CHECK_DEADLOCK FALSE
INVARIANTS WorkConserving GaugesSettle
PROPERTIES ImplementsService Answered
