CONSTANTS
    Service = {a, b}
    Setter = {p1}
    Watcher = {w1, w2}
    MaxSets = 2
    NoChannel = NoChannel
SPECIFICATION FairSpec
INVARIANTS WatchersAgree LastSetSeen NeverGoesBack
PROPERTIES LatestArrives
\* All calls may have been made and every watcher caught up.
CHECK_DEADLOCK FALSE
