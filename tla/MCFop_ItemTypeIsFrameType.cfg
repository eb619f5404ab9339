SPECIFICATION FopSpec
CONSTANTS
    NoSDU = NoSDU
    SDU = {d1}
    SeqMod = 4
    SentCap = 3
    TxCap = 2
    CntMod = 4
    Windows = {2}
    Limits = {2}
    MarksBc = FALSE
INVARIANTS
    ItemTypeIsFrameType
