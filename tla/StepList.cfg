SPECIFICATION Spec
CONSTANTS
    Plans = {p1, p2}
    Steps = {s1, s2, s3}
    Admins = {a1, a2}
    NoPlan = NoPlan
    NoStep = NoStep
SYMMETRY Symmetry
CONSTRAINT OnePlan
INVARIANTS
    TypeOK
    ReorderIsAtomic
    TidySeqs
