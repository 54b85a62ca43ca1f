SPECIFICATION FairSpec
CONSTANTS
    Null = Null
    Passes = {1, 2}
    Scenarios <- MCScenarios
    MaxOps = 2
    MaxFaults = 1
    MaxRestarts = 1
INVARIANTS TypeOK SyncedMeansCarriedOut
PROPERTY QueueDrains
