CONSTANTS
    Pids = {1}
    Programs <- MCPrograms
    Groups = {1, 2}
    GroupOf <- MCGroupOf
    Config <- MCConfig
    Inis <- MCInis
    Lines = {{}, {1}}
    Asked = {1}
    Forces = {TRUE}
    UpdateBound = 1
SPECIFICATION Spec
INVARIANTS TypeOK ChildrenAccounted
PROPERTIES StopsInOrder UpdateConverges UpdateEnds ShutdownCompletes
CHECK_DEADLOCK FALSE
