SPECIFICATION FairSpec
CONSTANTS
    a = a
    b = b
    Claims = {a}
    Machines <- OneMachine
    NamedMachine <- EitherWay
    Matches <- AnyMachine
    MaxUid = 2
    MaxGen = 1
    MaxBirths = 1
    MaxLag = 1
    MaxRestarts = 1
    None = None
PROPERTIES BindsOnlyFree NeverUnbindsLive OrphanedRefIsCleared FalseBoundIsRepaired WaitingClaimBinds
CHECK_DEADLOCK FALSE
