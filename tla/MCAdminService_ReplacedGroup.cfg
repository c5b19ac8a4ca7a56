CONSTANTS
    Pids = {1}
    Programs <- MCPrograms
    Groups = {1, 2}
    GroupOf <- MCGroupOf
    Config <- MCConfig
    Inis <- MCInis
    Lines = {{}}
    Asked = {1}
    Forces = {TRUE}
    UpdateBound = 1
SPECIFICATION Spec
INVARIANT NoneLeftBehind
CHECK_DEADLOCK FALSE
