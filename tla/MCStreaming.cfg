CONSTANTS
    Byte <- MCByte
    Calls <- MCCalls
    Inflate <- MCInflate
    Decodable <- MCDecodable
    Corrupt = Corrupt
    MaxAfter = 2
    Endings <- AllEndings
    Kinds <- AllKinds
SPECIFICATION FairSpec
INVARIANTS StatusSurfaced
PROPERTIES Backpressure ImplementsMessageStream Terminates
\* The consumer stops polling after MaxAfter final results.
CHECK_DEADLOCK FALSE
