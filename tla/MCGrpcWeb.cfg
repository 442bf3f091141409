CONSTANTS
    Types = {"grpc", "grpc-web", "grpc-web-text+proto"}
    Texts <- MCTexts
    MaxFrames = 1
SPECIFICATION FairSpec
INVARIANTS RequestArrives ResponseArrives
PROPERTIES ResponseEnds
\* Both bodies may have been read to their ends.
CHECK_DEADLOCK FALSE
