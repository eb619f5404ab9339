\* The end of the initialisation, with the transmission limit changing under it.
SPECIFICATION FopFairSpec
CONSTANTS
    NoSDU = NoSDU
    SDU = {d1}
    SeqMod = 3
    SentCap = 2
    TxCap = 1
    CntMod = 3
    Windows = {1}
    Limits = {1, 2}
    MarksBc = TRUE
PROPERTIES
    InitEnds
