CONSTANTS
    Search = {s1, s2}
    NoFile = NoFile
    CleansUp = TRUE
    Pauses = FALSE
    MaxCrashes = 0
    MaxErrors = 0
SPECIFICATION Spec
INVARIANTS
    AtomicallyReady
CHECK_DEADLOCK FALSE
