CONSTANTS
    N = 2
    Pids <- MCMembers
    GroupConfigs <- Pairs
    Forces = {TRUE, FALSE}
    Exits = {"unexpected"}
    BackoffBound = 0
SPECIFICATION Spec
INVARIANT NoChildLost
PROPERTIES MembersKeepPromise StartsInOrder WaitEnds ShutdownCompletes
CHECK_DEADLOCK FALSE
