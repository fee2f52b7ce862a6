CONSTANTS
    MaxTasks = 2
    MaxMessages = 3
    MaxJobs = 2
SPECIFICATION MCSpec
CHECK_DEADLOCK FALSE
INVARIANT TypeOK
 
INVARIANT MarkedByOwn
 
 
INVARIANT CutStaysCut
INVARIANT RestoredTogether
