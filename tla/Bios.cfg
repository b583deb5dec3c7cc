SPECIFICATION Spec
INVARIANTS FloppyExact TimeKept PortsExact BootExact MemoryExact
PROPERTIES IsKeyQueue InputExact DiskExact
CHECK_DEADLOCK FALSE
CONSTANTS
    Parts = {"input", "disk", "floppy", "time", "ports", "boot", "memory", "post"}
    Slots = 3
    FifoDepth = 6
    Works <- MCWorks
    Machines = {1, 2, 3, 4, 5, 6, 7, 8}
    Bench <- MCBench
    FloppyOnCnt = 3
    FloppyTypes <- MCFloppyTypes
    FloppyCalls <- MCFloppyCalls
    DayTicks = 7
    LowWord = 3
    Period = 3
    TimeMenus <- MCTimeMenus
    TimeBench <- MCTimeBench
    TickLimit <- MCTickLimit
    SerialTimeout = 2
    PrinterTimeout = 2
    MaxSent = 3
    PortCalls <- MCPortCalls
    Boards = {1, 2, 3, 4, 5}
    Machine <- MCMachine
    Codes = {3, 5, 12, 14, 254}
    TableEntries = 4
    MaxResets = 3
    Memories <- MCMemories
    Moves = {640, 1024, 1100, 2048, 3072}
    Computers = {1, 2, 3, 4, 5, 6, 7, 8, 9, 10, 11, 12}
    Computer <- MCComputer
