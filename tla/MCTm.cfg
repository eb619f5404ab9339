\* Data fields of 5 octets; packets no longer than the frame header (2), that fit a
\* frame (3), that need two (8) and the longest; the length is read from the first two octets.
\* The bounded number of packets ends a behaviour.
SPECIFICATION TmSpec
CONSTANTS
    MaxData = 5
    MaxSdu = 10
    HdrLen = 2
    LenAt = 2
    TxCap = 3
    RxCap = 2
    Sizes = {2, 3, 8, 10}
    MaxPkts = 4
    MaxIdles = 1
CHECK_DEADLOCK FALSE
INVARIANTS
    TmTypeOK
    CleanArrive
    InOrderOnce
    WholeOrHurt
    LengthsRead
PROPERTIES
    StuffingSpares
    GivenUpUnmeasured
