SPECIFICATION FairSpec
CONSTANTS
    Plans <- MCPlans
    DevDisks <- MCDevDisks
    SizeOf <- MCSizeOf
    MaxDeploys = 2
    MaxFaults = 2
 
PROPERTIES ReportsInOrder 
CHECK_DEADLOCK FALSE
