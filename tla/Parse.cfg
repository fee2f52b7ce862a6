CONSTANTS
    Tools <- MCTools
    Params <- MCParams
    FreeText <- MCFreeText
    Cases <- WholeCases
SPECIFICATION Spec
CHECK_DEADLOCK FALSE
INVARIANT Understood
PROPERTY FeedsTaskTurn
INVARIANT UnambiguousIsFinal
