\* A start after a stop.
SPECIFICATION Spec
CONSTANTS
    Pids = {p1, p2, p3}
    NoPid = NoPid
    Tasks = {"start", "stop"}
    Installed = TRUE
    MaxFaults = 0
PROPERTY StartObeyed
