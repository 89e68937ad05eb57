SPECIFICATION Spec
CONSTANTS
    Plans = {p1, p2}
    Crons = {c1, c2}
    Admins = {a1, a2}
    Jobs = {j1}
    EntryIDs = {i1, i2}
    NoEntry = NoEntry
    NoCron = NoCron
SYMMETRY Symmetry
VIEW Remaining
INVARIANTS
    TypeOK
    HandlesValid
    RegistryExact
    ReloadExact
    FreshRuns
