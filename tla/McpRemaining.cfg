CONSTANTS
    a = a
    b = b
    Servers <- Two
    Revs = {1}
    MaxOps = 1
    MaxCalls = 1
SPECIFICATION MCSpec
CHECK_DEADLOCK FALSE
PROPERTY RemainingReturned
