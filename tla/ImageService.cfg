SPECIFICATION FairSpec
CONSTANTS
    Clients = {c1, c2}
    Names = {n1, n2}
    Contents = {small, large}
    small = small
    large = large
    Size <- MCSize
    Quota = 3
    Capacity = 5
    Headroom = 1
    MaxIngests = 1
    MaxMishaps = 1
    None = None
    Torn = Torn
INVARIANTS QuotaKept AdmittedFits AckedUploadStays
PROPERTY UploadIsAnswered
