CONSTANTS
    MaxBlocks = 3
    MaxTurns = 2
    Aborts = TRUE
SPECIFICATION FairSpec
CHECK_DEADLOCK FALSE
INVARIANT TypeOK
INVARIANT OnlyClosedCalls
INVARIANT OneEffectPerTurn
INVARIANT TakenUpOnce
INVARIANT NothingLeftBehind
PROPERTY TurnContinues
