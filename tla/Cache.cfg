CONSTANTS
    provider = provider
    oauth = oauth
    Keys <- TwoKeys
    Loaded <- ConfigOnly
    MaxSets = 3
    MaxRuns = 2
    MaxLoads = 2
    Faults <- AllFaults
SPECIFICATION MCSpec
INVARIANT TypeOK
INVARIANT SetIsKept
 
PROPERTY NeverErased
