CONSTANTS
    Values = {2, 3}
    ExitReasons = {10, 12}
SPECIFICATION Spec
INVARIANT ReturnsExitReason
CHECK_DEADLOCK FALSE
