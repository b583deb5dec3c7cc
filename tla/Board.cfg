CONSTANTS
    Menus <- AllMenus
    UserOf <- AllUsers
    SetupWindow = 24
    ResetLength = 4
    RamOptions = {0, 1}
    Probes <- Edges
SPECIFICATION Spec
INVARIANTS TypeOK AckSeen DecodeExact
PROPERTIES UnlockExact SetupExact
