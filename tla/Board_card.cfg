CONSTANTS
    Menus <- CardMenus
    UserOf <- NoUsers
    SetupWindow = 24
    ResetLength = 4
    RamOptions = {0, 1}
    Probes <- Edges
SPECIFICATION Spec
INVARIANTS CardDetectSeen
