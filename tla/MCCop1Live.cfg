SPECIFICATION CopFairSpec
CONSTANTS
    NoSDU = NoSDU
    SDU = {1, 2}
    SeqMod = 4
    SentCap = 3
    TxCap = 3
    CntMod = 4
    Windows = {2}
    Limits = {2}
    MarksBc = FALSE
    WindowWidth = 3
    RxCap = 2
    Vcid = 42
    DownCap = 1
    MaxStarts = 1
    NewVrs = {1, 3}
PROPERTIES
    OwedArriveOrEnd
