\* Three coroutines on one key that opens at two failures and allows two requests.
CONSTANTS
    Workers = {w1, w2, w3}
    Threshold = 2
    RpmLimit = 2
    Minutes = 2
    MaxUses = 4
SPECIFICATION FairSpec
INVARIANTS
    RpmHolds
    OpenIsEarned
PROPERTIES
    SuccessCloses
    OpenCircuitCloses
\* The bounded clock stops and the key's uses run out.
CHECK_DEADLOCK FALSE
