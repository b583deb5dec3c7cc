CONSTANTS
    Depth = 6
    High = 2
    F1Period = 2
    PulseLength = 1
    Trans <- Codes
    Menus <- AllMenus
    F1Menu = {FALSE}
SPECIFICATION Spec
PROPERTIES AuxDropped
