CONSTANTS
    Inodes = {1, 2, 3, 4, 5, 6}
    Programs <- MCPrograms
    BEGIN_TOKEN <- MCBegin
    END_TOKEN <- MCEnd
    TailHead = 1
    OutBufferSize = 2
    Mishaps = 1
SPECIFICATION Spec
INVARIANTS TypeOK CaptureFaithful FilesInOrder TailFaithful
PROPERTY OutputArrives
CHECK_DEADLOCK FALSE
