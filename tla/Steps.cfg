SPECIFICATION FairSpec
CONSTANTS
    Plans <- SmallPlans
    MaxWrites = 4
INVARIANTS
    RendersLatest
    VerdictTrue
PROPERTIES
    StepsEnd
    ImplementsStepLoop
CHECK_DEADLOCK FALSE
