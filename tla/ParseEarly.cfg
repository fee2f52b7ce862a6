CONSTANTS
    Tools <- MCTools
    Params <- MCParams
    FreeText <- MCFreeText
    Cases <- TaggedCases
SPECIFICATION Spec
CHECK_DEADLOCK FALSE
INVARIANT CompleteIsFinal
