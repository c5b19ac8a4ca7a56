CONSTANTS
    Pids = {1}
    Programs <- MCObedient
    Launches = 2
    Crashes = 0
SPECIFICATION Spec
INVARIANTS FullyStopped
