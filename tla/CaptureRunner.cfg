\* Requests, statistics, deaths of capture and of the runner.
SPECIFICATION Spec
CONSTANTS
    Pids = {p1, p2, p3}
    NoPid = NoPid
    Tasks = {"start", "restart", "stop", "stats"}
    Installed = TRUE
    MaxFaults = 1
INVARIANTS
    TypeOK
    TermOnRequest
PROPERTIES
    CaptureRuns
