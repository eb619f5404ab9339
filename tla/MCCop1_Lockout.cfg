\* The sliding window is below the positive window, and V(S) starts just before it wraps.
SPECIFICATION CopSpec
CONSTANTS
    NoSDU = NoSDU
    SDU = {1, 2}
    SeqMod = 8
    SentCap = 3
    TxCap = 3
    CntMod = 4
    Windows = {2}
    Limits = {2}
    MarksBc = FALSE
    WindowWidth = 6
    RxCap = 2
    Vcid = 42
    DownCap = 1
    MaxStarts = 1
    NewVrs = {7}
INVARIANTS
    RetransmissionHarmless
