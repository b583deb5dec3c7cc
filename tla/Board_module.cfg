CONSTANTS
    Menus <- MapMenus
    UserOf <- MapUsers
    SetupWindow = 24
    ResetLength = 4
    RamOptions = {0, 1}
    Probes <- Edges
SPECIFICATION Spec
INVARIANTS ModulePristine
