\* Two candidates of every kind, the factory's three attempts on each.
CONSTANTS
    N = 2
    MaxAttempts = 3
SPECIFICATION FairSpec
INVARIANTS
    EachAttemptOnce
    LogAgreesWithBreaker
    SuccessIsServed
    FailureMeansAllTried
    BoundedWork
PROPERTIES
    NothingAfterReply
    EveryRequestAnswered
\* A request that has been answered is over.
CHECK_DEADLOCK FALSE
