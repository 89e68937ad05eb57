SPECIFICATION ExecSpec
CONSTANTS
    p1 = p1
    Plans = {p1}
    CronJobs = {j1}
    ExecReqs = {e1}
    StreamReqs = {}
    Mutexes = {m1}
    Snapshots <- OneStepPlan
    NoMutex = NoMutex
    Nobody = Nobody
    HTTPPlans = {p1}
    MaxRuns = 2
PROPERTY ResponsesCounted
