SPECIFICATION FairSpec
CONSTANTS
    MACs = {a}
    Addresses = {1}
    NoAddress = NoAddress
    MaxWrites = 1
    MaxEnrols = 1
    MaxFaults = 2
    MaxLines = 2
PROPERTIES AcknowledgesWhatIsOnDisk ServedConverges
