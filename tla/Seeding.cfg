SPECIFICATION FairSpec
CONSTANTS
    Machines = {m1}
    Sites = {s1}
    SiteOf <- MCSiteOf
    Grace = 1
    MaxClaims = 1
    MaxEdits = 1
    MaxMishaps = 1
    MaxLag = 1
    SeederImage = TRUE
    None = None
PROPERTIES  IdleSeederGoes GraceIsGiven
CHECK_DEADLOCK FALSE
