\* FARM-1 with 8 sequence numbers and windows of 3, so that every window wraps; the
\* application is fair. FARM and application together never stop: any frame may come.
SPECIFICATION FarmFairSpec
CONSTANTS
    NoSDU = NoSDU
    SDU = {d1, d2}
    RxCap = 2
    Vcid = 42
    SeqMod = 8
    WindowWidth = 6
INVARIANTS
    FarmTypeOK
    ClcwTellsState
    ReportSurvives
    WaitIsReleasable
    WindowExact
PROPERTIES
    DiscardReported
    AckedIffQueued
    WaitEnds
