CONSTANTS
    MinLen = 5
    MaxLen = 7
    Mtu = 7
    Rec = 3
    PktHdr = 1
    FileHdr = 2
    Word = 2
    First = 4
    BktEnd = 24
    OutFile = 40
    Wide = 1000
    Max32 = 3
    MaxReady = 1
    MaxKernelDrops = 5
    MaxLostPkts = 1
    PacketKey <- SomeKeys
    MaxChain = 6
    MaxTokens = 6
    Field <- QueryField
    Asked <- QueryAsked
    KeysPerBlock = 4
    HeaderKeys = 2
    BufferRecords = 15
    Records = {0, 1, 2, 3, 4, 5, 6, 7, 8, 9, 10, 16, 17, 18, 24, 31, 32, 33, 34, 48, 49, 50, 51, 52, 63, 64, 67, 103}
    MaxOsets = 4
    MaxLevels = 3
    MaxItem = 3
    MaxFlows = 4
    MaxPackets = 2
    MaxTime = 3
    Thread = {t1, t2}
    MaxIndexes = 11
    MaxLeft = 1
    MaxBatch = 4
SPECIFICATION Spec
INVARIANTS
    TypeOK
    InBucket
    OffsetsFit
    
    IndexFilesExact
    QueryKept
    AcceptedFits
    PreviewAgrees
    
    FailsOnlyAtEnd
    SkipListSound
    ResultExact
    PacketsMerged
    AllSearched
    MergedAll
CHECK_DEADLOCK FALSE
