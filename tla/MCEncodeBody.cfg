CONSTANTS
    Scripts <- MCScripts
    MaxLen = 4
    Roles = {"Client", "Server"}
    Senders = {"hyper", "h3"}
    YieldThreshold = 14
    MaxMessageSize = 8
    U32Max = 7
SPECIFICATION FairSpec
PROPERTIES BodyEnds
INVARIANTS Accounted StatusTruthful CleanRequestIsWhole StatusIsSent
\* The body ends.
CHECK_DEADLOCK FALSE
