SPECIFICATION CopFairSpec
CONSTANTS
    NoSDU = NoSDU
    SDU = {1, 2, 3}
    SeqMod = 8
    SentCap = 3
    TxCap = 3
    CntMod = 4
    Windows = {2}
    Limits = {2}
    MarksBc = FALSE
    WindowWidth = 6
    RxCap = 1
    Vcid = 42
    DownCap = 1
    MaxStarts = 1
    NewVrs = {}
PROPERTIES
    OwedArriveOrEnd
