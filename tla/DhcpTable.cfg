SPECIFICATION FairSpec
CONSTANTS
    Machines = {m1, m2}
    MACs = {a, b}
    LeaseRangeStart = 1
    LeaseRangeEnd = 2
    ReservedAddresses = {1}
    NoMAC = NoMAC
    MaxBoots = 2
    MaxEdits = 3
INVARIANT NoAddressTwice
PROPERTIES  AbandonedEntryGoes 
CHECK_DEADLOCK FALSE
