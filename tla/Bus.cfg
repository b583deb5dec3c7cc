CONSTANTS
    Dword = {0, 1, 2}
    CodeBurst = 2
    DmaAddress = 1
    Menus <- AllMenus
SPECIFICATION FairSpec
INVARIANTS TypeOK LanesExact
PROPERTIES NothingLost WriteServed
