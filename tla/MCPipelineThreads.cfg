CONSTANTS
    Capture = {c1, c2}
    Indexer = {i1}
    Output = {o1}
    Bucket = {b1, b2, b3}
    InitBuckets = {b1, b2, b3}
    ChainMax = 2
    FileMode = FALSE
    Spurious = TRUE
    Signals = TRUE
SYMMETRY Symmetry
SPECIFICATION Spec
INVARIANTS
    TypeOK
    NoSharedBucket
    NoLostBucket
    CleanExit
    NoLostWakeup
    LockCoversCapture
    ShutdownNotStuck
PROPERTIES
    Lifecycle
CHECK_DEADLOCK FALSE
