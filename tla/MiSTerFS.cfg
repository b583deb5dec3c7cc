CONSTANTS
    Marks = 2
    CHUNKLEN = 2
    MaxSize = 4
    Tokens = 3
    Drive = {"A", "E", "F"}
    Tasks <- AllTasks
SPECIFICATION Spec
INVARIANTS SearchesExact ChainSound
PROPERTIES FilesExact CallsReturn
