\* Two candidates of every kind; does a failing agent lead to the second one?
CONSTANTS
    N = 2
    MaxAttempts = 3
SPECIFICATION Spec
INVARIANTS
    AgentFailureFallsBack
\* A request that has been answered is over.
CHECK_DEADLOCK FALSE
