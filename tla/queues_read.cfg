SPECIFICATION Spec
CONSTANTS
    MOD_SHARED = 2
    MAX_TPR_ALLQ = 2
    MAX_TPR_BSAQ = 2
    Readers = {r1}
    MaxMsgs = 4
INVARIANTS
    ReadCorrect
    WindowKept
\* The tasklet stops at MaxMsgs.
CHECK_DEADLOCK FALSE
