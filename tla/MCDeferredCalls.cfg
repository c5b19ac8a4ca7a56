CONSTANTS
    Pids = {1}
    Programs <- MCPrograms
    Config <- MCConfig
    Clients <- MCClients
    Requests <- MCRequests
    WaitBound = 1
SPECIFICATION Spec
INVARIANT NoCallLost
PROPERTIES StopAnswered ShutdownStartsNothing StartAllInOrder CallsEnd
CHECK_DEADLOCK FALSE
