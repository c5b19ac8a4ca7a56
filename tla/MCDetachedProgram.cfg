CONSTANTS
    Pids = {1}
    Programs <- MCPrograms
    Launches = 2
    Crashes = 1
SPECIFICATION Spec
INVARIANTS TypeOK NeverLost
PROPERTIES Adopted DeathSeen
