SPECIFICATION Spec
CONSTANTS
    Typed <- SmallTyped
    Forms = {"step"}
    MaxRounds = 2
    MaxSaves = 1
INVARIANT RoundsShow
CHECK_DEADLOCK FALSE
