SPECIFICATION FarmSpec
CONSTANTS
    NoSDU = NoSDU
    SDU = {d1, d2}
    RxCap = 2
    Vcid = 42
    SeqMod = 8
    WindowWidth = 6
PROPERTIES
    UnlockClearsLockout
