CONSTANTS
    Pids = {1, 2}
    Configs <- StopAsGroup
    ConditionalEnable = FALSE
    SignalsFail = FALSE
    ClockDeltas = {1}
    MaxLeft = 2
    BackoffBound = 2
SPECIFICATION Spec
INVARIANT ExitLeavesNoChild
CHECK_DEADLOCK FALSE
