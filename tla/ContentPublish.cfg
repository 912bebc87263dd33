SPECIFICATION FairSpec
CONSTANTS
    i1 = i1
    i2 = i2
    a = a
    b = a
    m1 = m1
    m2 = m2
    Imports = {i1, i2}
    Contents = {a}
    Images = {m1, m2}
    ImageOf <- MCImageOf
    ContentsOf <- MCContentsOf
    Staged = {i1}
    Expiring = {i2}
    MaxEdits = 1
    MaxMishaps = 1
    None = None
INVARIANTS ReadyHoldsItsBytes ReadyImageStaysWhole
PROPERTIES SucceededMadeItsOwn ContentSettles

CHECK_DEADLOCK FALSE
