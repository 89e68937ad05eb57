SPECIFICATION FairSpec
CONSTANTS
    Configs <- SomeConfigs
    Window = 1
    MaxTicks = 1
    Bases <- SomeBases
    IDs <- SomeIDs
    Lengths <- SomeLengths
    MaxExtras = 1
INVARIANTS
    OneWriter
    RequestGetsItsAnswer
    VerdictTrue
    BytesArrive
PROPERTIES
    ConnectedStepEnds
    NothingLeftBehind
