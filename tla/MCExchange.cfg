CONSTANTS
    UserMetadata <- MCUserMetadata
    Enabled <- MCEnabled
    Deadlines <- MCDeadlines
    MaxTimeout = 99
    UnitSize <- MCUnitSize
    Statuses <- MCStatuses
    ForeignMaps <- MCForeignMaps
    Chains <- MCChains
SPECIFICATION ExchangeSpec
INVARIANTS StatusArrives HeadersArrive ResponseReadable TimeoutFaithful
\* The call is over.
CHECK_DEADLOCK FALSE
