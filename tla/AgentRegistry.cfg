\* Three handlers of the operator or the agent at the same time, five in all.
CONSTANTS
    Jobs = {j1, j2, j3}
    MaxCalls = 5
SYMMETRY JobSymmetry
SPECIFICATION Spec
INVARIANTS
    DeleteIsFinal
PROPERTIES
    OnlyTheOperatorDecides
\* The bounded calls run out.
CHECK_DEADLOCK FALSE
