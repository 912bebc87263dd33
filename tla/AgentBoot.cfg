SPECIFICATION FairSpec
CONSTANTS
    MaxRuns = 2
    Pool = 8
    MaxMishaps = 1
    MaxLate = 1
INVARIANTS ProvisionedIsWhole BootGetsItsToken
PROPERTY ProvisioningEnds
CHECK_DEADLOCK FALSE
