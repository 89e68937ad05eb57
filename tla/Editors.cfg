SPECIFICATION Spec
CONSTANTS
    Typed <- SmallTyped
    Forms <- AllForms
    MaxRounds = 3
    MaxSaves = 2
INVARIANTS
    TypeOK
    OneEditorEach
    SendsWhatWasEntered
    SettledShows
CHECK_DEADLOCK FALSE
