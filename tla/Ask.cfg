CONSTANTS
    MaxLog = 3
    MaxTime = 2
SPECIFICATION MCSpec
CHECK_DEADLOCK FALSE
INVARIANT TypeOK
PROPERTY OwnAnswer
PROPERTY QuestionStands
PROPERTY AnswerEndsWait
