CONSTANTS
    d1 = d1
    d2 = d2
    Disk = {d1, d2}
    Writer = {w1, w2}
    Slot <- TwoDiskSlots
    DiskOf <- TwoDisks
    UsageInc <- TwoDiskInc
    None = None
    Reserved = 1
    IndexSpace = 2
    MaxIndex = 3
    MaxBegin = 3
    MaxToggles = 1
    Toggled = {d1}
    Cleaning = TRUE
    InSpan = {2}
    LinkFails = {2}
SPECIFICATION Spec
SYMMETRY WriterSymmetry
INVARIANTS
    TypeOK
    FetchFailsOnlyLost
    ReadyHasData
    NoOrphanDir
    DisksBalanced
PROPERTIES
    FreshFirst
CHECK_DEADLOCK FALSE
