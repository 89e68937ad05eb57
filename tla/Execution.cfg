SPECIFICATION ExecFairSpec
CONSTANTS
    p1 = p1
    Plans = {p1}
    CronJobs = {j1}
    ExecReqs = {e1}
    StreamReqs = {s1}
    Mutexes = {m1}
    Snapshots <- EditedPlan
    NoMutex = NoMutex
    Nobody = Nobody
    HTTPPlans = {p1}
    MaxRuns = 2
INVARIANTS
    ExecTypeOK
    LoggedOnce
    CountsExact
    LockDiscipline
    MutualExclusion
    GaugeExact
    VerdictSound
PROPERTIES
    CallersFinish
    RunIsLogged
    ImplementsPlanRuns
    ImplementsStepLoop
