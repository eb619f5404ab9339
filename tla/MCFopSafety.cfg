\* FOP-1 under any control words, expiries, requests and directives; the window and the
\* transmission limit are fixed, the timeout type changes under way.
SPECIFICATION FopSpec
CONSTANTS
    NoSDU = NoSDU
    SDU = {d1}
    SeqMod = 3
    SentCap = 3
    TxCap = 2
    CntMod = 3
    Windows = {1, 2}
    Limits = {2}
    MarksBc = FALSE
INVARIANTS
    BoundsExact
    FopTypeOK
    QueuesMatchState
    SentEndsAtVs
    InitTimed
    SduUnderDataHeader
PROPERTIES
    ClearedComesAgain
    FateSignalled
    UnackedKept
    TimerLostOnlyInRtWait
