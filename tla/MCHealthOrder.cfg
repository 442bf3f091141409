CONSTANTS
    Service = {a}
    Setter = {p1, p2}
    Watcher = {w1}
    MaxSets = 2
    NoChannel = NoChannel
SPECIFICATION Spec
INVARIANTS LastSetSeen
\* All calls may have been made and every watcher caught up.
CHECK_DEADLOCK FALSE
