SPECIFICATION FairCostmapSpec
CONSTANTS
    ServiceTimeout = 2
    RefreshInterval = 3
    RetryInterval = 2
    MaxCommands = 3
    MaxFaults = 2
    MaxOthers = 2
INVARIANT CostmapTypeOK
PROPERTY OnlyThisActionCounts
PROPERTY PendingStarts
PROPERTY StateConverges
