SPECIFICATION FairSpec
CONSTANTS
    Null = Null
    Passes = {1, 2}
    Scenarios <- MCDay
    MaxOps = 2
    MaxFaults = 0
    MaxRestarts = 0
PROPERTY EveryOperationSynced
