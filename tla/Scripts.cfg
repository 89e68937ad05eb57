SPECIFICATION Spec
CONSTANTS
    Scripts = {c1}
    PlanTargets = {p1, p2}
    StepTargets = {s1, s2}
    Admins = {a1, a2}
    NoScript = NoScript
SYMMETRY Symmetry
INVARIANTS
    TypeOK
    SparesWhatItCounted
