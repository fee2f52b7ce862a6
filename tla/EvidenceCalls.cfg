CONSTANTS
    f1 = f1
    f2 = f2
    i1 = i1
    i2 = i2
    Flows <- TwoFlows
    Insts <- OneInst
    BatchSize = 2
    MaxFailures = 2
    MaxEntries = 3
    MaxKeys = 1
    MaxLate = 1
    Faults <- RefusalFaults
SPECIFICATION CallersSpec
INVARIANT OwnDrainCovers
PROPERTY RunningEnds
PROPERTY VerifyAnswers
PROPERTY AskedIsPushed
