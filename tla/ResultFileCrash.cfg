CONSTANTS
    Search = {s1, s2, s3}
    NoFile = NoFile
    CleansUp = FALSE
    Pauses = TRUE
    MaxCrashes = 2
    MaxErrors = 2
SPECIFICATION Spec
INVARIANTS
    CompleteUnlessFailed
PROPERTIES
    SearchesEnd
CHECK_DEADLOCK FALSE
