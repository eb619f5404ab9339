\* SDUs of one, two and three segments and one the receiver cannot join, one end of
\* service. The bounded number of SDUs ends a behaviour.
SPECIFICATION SegFairSpec
CONSTANTS
    MaxData = 2
    MaxSdu = 5
    RxCap = 1
    LinkCap = 3
    Window = 2
    Sizes = {2, 3, 5, 6}
    MaxSdus = 3
    MaxEnds = 1
CHECK_DEADLOCK FALSE
INVARIANTS
    SegTypeOK
    WholeOrTorn
    EachTearCostsOne
PROPERTIES
    StartedArrives
