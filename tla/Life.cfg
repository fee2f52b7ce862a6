CONSTANTS
    u1 = u1
    u2 = u2
    t1 = t1
    UserCalls <- TwoUsers
    TaskCalls <- OneTask
    MaxTasks = 2
SPECIFICATION MCSpec
SYMMETRY Slots
CHECK_DEADLOCK FALSE
INVARIANT TypeOK
INVARIANT AbortedIsReplaced
INVARIANT LiveIsCurrent
