CONSTANTS
    Word <- MCWord
    Lower <- MCLower
    Upper <- MCUpper
    Schemas <- MCSchemas
    Chains <- MCChains
    Origins <- MCOrigins
    ForeignPaths <- MCForeignPaths
    Slots = {1, 2}
    Endpoints = 3
    CounterSize = 4
    MaxCalls = 5
    MaxAdds = 2
SPECIFICATION ServicesFairSpec
INVARIANTS CallsRouted InterceptorsGuard EvenLoad GeneratedFits
PROPERTIES CollectingEnds
\* A bounded number of calls is made.
CHECK_DEADLOCK FALSE
