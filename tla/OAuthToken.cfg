\* Three requests on one endpoint, four calls.
CONSTANTS
    Workers = {w1, w2, w3}
    MaxCalls = 4
SPECIFICATION Spec
INVARIANTS
    OneFetcher
    RetiredIsGone
\* The bounded calls run out.
CHECK_DEADLOCK FALSE
