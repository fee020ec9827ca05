SPECIFICATION NetSpec
CONSTANTS
    Sessions = {s1, s2}
    LowDelay = {s1}
    HogQueued = 2
    HogSent = 1
    NoSession = NoSession
    Pages <- MCPages
    Plans <- MCPlans
    Cost = 1
    Latencies <- MCLatencies
INVARIANTS
    
    DownInOrder
    PagesExact
PROPERTIES
    AllFlows
CHECK_DEADLOCK FALSE
