SPECIFICATION Spec
CONSTANTS
    w1 = w1
    w2 = w2
    None = None
    Writer = {w1, w2}
    LineSize = {1, 3}
    MaxBytes = 2
    KeepFiles = 2
    HasDirectory = TRUE
    MaxOverflow = 4
    Retention = 0
    Today = 19782
    FirstDay <- Before
    LastDay = 157419
    MaxEvent = 4
    MaxDay = 1
    MaxTick = 2
    MaxRestart = 1
    MaxFault = 1
SYMMETRY WriterSymmetry
INVARIANTS SinkInv DiskIsBounded DateIsGregorian
PROPERTIES MirrorFollowsTable
