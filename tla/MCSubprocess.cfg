CONSTANTS
    Pids = {1, 2}
    Configs <- MCConfigs
    ConditionalEnable = TRUE
    SignalsFail = FALSE
    ClockDeltas = {1}
    MaxLeft = 0
    BackoffBound = 2
SPECIFICATION Spec
INVARIANTS TypeOK PidTracksState OneChild DaemonSurvives ExitLeavesNoChild
PROPERTIES AdministrativeStopHolds ShutdownStartsNothing StopCompletes RetriesEnd ImplementsManagedProgram
CHECK_DEADLOCK FALSE
