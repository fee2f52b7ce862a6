CONSTANTS
    f1 = f1
    f2 = f2
    i1 = i1
    i2 = i2
    Flows <- TwoFlows
    Insts <- TwoInsts
    BatchSize = 2
    MaxFailures = 1
    MaxEntries = 2
    MaxKeys = 2
    MaxLate = 1
    Faults <- AllFaults
SPECIFICATION MCSpec
SYMMETRY Slots
INVARIANT TypeOK
INVARIANT NeverLose
INVARIANT NeverReorder
INVARIANT OneTrail
PROPERTY ImplementsLog
