SPECIFICATION Spec
CONSTANTS
    None = None
    DefaultHook = "default"
    GiB = 2
    MaxInt = 7
    Worlds <- MCWorlds
    Claims <- MCClaims
    Inventories <- MCInventories
    Retain = 1
    MaxRuns = 2
    MaxMoves = 2
    MaxMishaps = 1
    MaxTime = 2
INVARIANTS ReferencedRunStays IdleIsQuiet   SelectorFindsDisks
PROPERTIES RedeployHasACause
CHECK_DEADLOCK FALSE
