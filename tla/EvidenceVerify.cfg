CONSTANTS
    f1 = f1
    f2 = f2
    i1 = i1
    i2 = i2
    Flows <- TwoFlows
    Insts <- TwoInsts
    BatchSize = 2
    MaxFailures = 2
    MaxEntries = 2
    MaxKeys = 1
    MaxLate = 1
    Faults <- NoFaults
SPECIFICATION CallersSpec
INVARIANT VerifyDescribesWholeTrail
