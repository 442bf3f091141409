CONSTANTS
    Conn = {c1, c2, c3, c4}
    Stream = {s1}
    Limit = 2
    Transports = {"tcp", "tls", "h3"}
    NoConn = NoConn
SPECIFICATION LoopSpec
INVARIANTS PermitsConserved BacklogExact RpcUnderPermit
PROPERTIES LoopGoesOn
\* The server may stop, with every connection closed.
CHECK_DEADLOCK FALSE
