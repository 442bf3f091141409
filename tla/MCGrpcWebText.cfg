CONSTANTS
    Types = {"grpc", "grpc-web", "grpc-web-text+proto"}
    Texts <- MCTexts
    MaxFrames = 1
SPECIFICATION Spec
INVARIANTS StandardFrames
\* The request may have been read to its end.
CHECK_DEADLOCK FALSE
