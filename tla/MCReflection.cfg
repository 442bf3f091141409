CONSTANTS
    Sources <- MCSources
    Compilations <- MCCompilations
    ForeignSets <- MCForeignSets
    ManualNames <- MCManualNames
    Requests <- MCRequests
    Capacity = 1
    MaxRegister = 2
    MaxRequests = 3
SPECIFICATION Spec
INVARIANTS StreamInv IndexIsComplete ModulesReflected
PROPERTIES StreamEnds
\* A build fails; a stream ends.
CHECK_DEADLOCK FALSE
