\* A stop while the runner starts capture.
SPECIFICATION Spec
CONSTANTS
    Pids = {p1, p2, p3, p4}
    NoPid = NoPid
    Tasks = {"start", "stop"}
    Installed = TRUE
    MaxFaults = 0
PROPERTY StopObeyed
