CONSTANTS
    Pids = {1, 2}
    Configs <- SampleConfig
    ConditionalEnable = FALSE
    SignalsFail = FALSE
    ClockDeltas <- BackAndForth
    MaxLeft = 2
    BackoffBound = 2
SPECIFICATION Spec
INVARIANT DaemonSurvives
CHECK_DEADLOCK FALSE
