CONSTANTS
    Bodies <- MCBodies
    Replies <- MCReplies
    Services = {"echo", "whole", "early"}
    Timeouts <- MCTimeouts
    Window = 1
SPECIFICATION Spec
INVARIANTS CallInv
PROPERTIES CallEnds TasksEnd
\* A call ends.
CHECK_DEADLOCK FALSE
