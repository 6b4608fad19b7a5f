CONSTANTS
    Capture = {c1}
    Indexer = {i1}
    Output = {o1}
    Bucket = {b1, b2, b3}
    InitBuckets = {b1, b2}
    ChainMax = 2
    FileMode = TRUE
    Spurious = FALSE
    Signals = TRUE
SPECIFICATION FairSpec
PROPERTIES
    ShutdownCompletes
