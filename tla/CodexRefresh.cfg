\* Two processes, one of them with two coroutines on the key; three calls.
CONSTANTS
    w1 = w1
    w2 = w2
    w3 = w3
    p1 = p1
    p2 = p2
    Workers <- ThreeWorkers
    Processes <- TwoProcesses
    Host <- TwoAndOne
    Mortal <- FirstOnly
    MaxCalls = 3
SPECIFICATION FairSpec
INVARIANTS
    OneRefresher
    FreshCredential
    OncePerProcess
    NothingLost
PROPERTIES
    EveryResolveEnds
\* The bounded calls run out.
CHECK_DEADLOCK FALSE
