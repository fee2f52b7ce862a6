CONSTANTS
    a = a
    b = b
    Servers <- One
    Revs = {1}
    MaxOps = 2
    MaxCalls = 2
SPECIFICATION MCSpec
CHECK_DEADLOCK FALSE
INVARIANT TypeOK
INVARIANT FollowsFile
 
PROPERTY ConnectingEnds
