CONSTANTS
    l0 = l0
    l1 = l1
    s0 = s0
    v0 = v0
    v1 = v1
    OpenBus = OpenBus
    Val = {v0, v1}
    Line <- Lines
    IndexOf <- SetOf
    NextLine <- After
    Content <- Contents
    Sets = 1
    Assoc = 2
    LineSize = 1
    MaxBurst = 2
    Shared = {s0}
    DISABLE = FALSE
SPECIFICATION FairSpec
INVARIANTS TypeOK CopiesExact
PROPERTIES IsMemoryService VictimSettled BurstEnds
