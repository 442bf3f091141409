CONSTANTS
    Calls <- MCCalls
    Failures = {"Ok", "NotFound"}
    MaxReplies = 2
SPECIFICATION FairSpec
INVARIANTS CallInv
PROPERTIES ImplementsCall SingleCallEnds FinishedIsDropped
\* The call may be over at both ends.
CHECK_DEADLOCK FALSE
