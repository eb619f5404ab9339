SPECIFICATION CopSpec
CONSTANTS
    NoSDU = NoSDU
    SDU = {1, 2, 3}
    SeqMod = 5
    SentCap = 3
    TxCap = 4
    CntMod = 4
    Windows = {2}
    Limits = {2}
    MarksBc = FALSE
    WindowWidth = 4
    RxCap = 1
    Vcid = 42
    DownCap = 1
    MaxStarts = 2
    NewVrs = {1, 3}
INVARIANTS
    CopTypeOK
    NumbersAgree
    TxBounded
    ErrorEndsService
PROPERTIES
    AdServiceKept
