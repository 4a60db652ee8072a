\* Every combination of three lengths up to 7, and up to 3 quantile levels.
SPECIFICATION Spec
CONSTANTS
    Sizes <- SmallSizes
    Levels <- FewLevels
INVARIANTS
    TypeOK
    WindowInside
    Complete
PROPERTY Responds
\* One response ends the behaviour.
CHECK_DEADLOCK FALSE
