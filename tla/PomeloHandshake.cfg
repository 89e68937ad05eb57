SPECIFICATION FairSpec
CONSTANTS
    Configs <- OneRequest
    Window = 1
    MaxTicks = 1
    Bases <- SomeBases
    IDs <- SomeIDs
    Lengths <- SomeLengths
    MaxExtras = 0
PROPERTY
    TimedStepEnds
