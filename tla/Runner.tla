------------------------------- MODULE Runner -------------------------------
(***************************************************************************)
(* engine.Runner with its three callers: the cron job of the scheduler     *)
(* (Scheduler.executePlan) and the HTTP handlers ExecHandler.Exec and      *)
(* ExecHandler.Stream.  A caller is a goroutine; it takes one step at      *)
(* every point where another goroutine can see or change what it shares:   *)
(* the map of per-plan mutexes, each mutex and the plans_running gauge.    *)
(* What a caller does with the result of Execute is in Execution.tla; here *)
(* it just leaves.                                                         *)
(*                                                                         *)
(* IsRunning probes a plan by taking its mutex and giving it back, so a    *)
(* probe holds the same mutex as an execution does.                        *)
(***************************************************************************)
EXTENDS Integers, Sequences, FiniteSets

CONSTANTS
    Plans,        \* plan IDs
    CronJobs,     \* goroutines started by cron, each in executePlan
    ExecReqs,     \* goroutines of POST /plans/:id/exec
    StreamReqs,   \* goroutines of GET /plans/:id/exec/stream
    Mutexes,      \* the *sync.Mutex objects getPlanLock may allocate
    Snapshots,    \* what GetByID may return: see SnapshotType
    NoMutex,      \* a missing entry of Runner.locks
    Nobody        \* the holder of an unlocked mutex

Callers == CronJobs \union ExecReqs \union StreamReqs
HTTP    == ExecReqs \union StreamReqs

(* The fields of model.Plan that Execute and its callers look at: how many *)
(* steps, whether Timeout > 0, whether DetailLogThreshold > 0.             *)
SnapshotType == [plan : Plans, steps : Nat, timed : BOOLEAN, trims : BOOLEAN]

ASSUME SnapshotAssumption ==
    /\ Snapshots \subseteq SnapshotType
    /\ Snapshots # {}

NoJob == CHOOSE s \in Snapshots : TRUE    \* what an idle caller holds

ASSUME CallerAssumption ==
    /\ CronJobs \intersect HTTP = {}
    /\ ExecReqs \intersect StreamReqs = {}
    /\ Nobody \notin Callers
    /\ NoMutex \notin Mutexes

ASSUME FiniteCallers == IsFiniteSet(Callers)

VARIABLES
    locks,     \* Runner.locks: plan -> mutex object
    holder,    \* who has locked each mutex
    gauge,     \* watchcat_plans_running
    pc,        \* where each caller is
    job,       \* the plan snapshot the caller loaded
    ptr,       \* the mutex getPlanLock returned to the caller
    ctx,       \* the context of the execution: live, deadline or cancelled
    result     \* the ExecResult under construction

shared == <<locks, holder, gauge>>
vars   == <<locks, holder, gauge, pc, job, ptr, ctx, result>>

Verdicts == {"success", "failed", "timeout"}
Causes   == {"none", "busy", "context", "step", "panic"}
Results  == [status : Verdicts, cause : Causes, steps : Seq(Verdicts)]
NoResult == [status |-> "success", cause |-> "none", steps |-> <<>>]

Probing   == {"probeHold"}
Executing == {"locked", "loop", "step", "callback", "finish", "unlock"}
Counted   == {"loop", "step", "callback", "finish"}
Finished  == {"finish", "unlock", "returned", "panicked"}
PCs == {"idle", "probe", "probeTry", "conflict", "execute", "tryLock",
        "returned", "panicked"} \union Probing \union Executing

AllSucceeded(verdicts) == \A i \in DOMAIN verdicts : verdicts[i] = "success"

(* A process that has just started.                                        *)
Init ==
    /\ locks  = [p \in Plans |-> NoMutex]
    /\ holder = [m \in Mutexes |-> Nobody]
    /\ gauge  = 0
    /\ pc     = [c \in Callers |-> "idle"]
    /\ job    = [c \in Callers |-> NoJob]
    /\ ptr    = [c \in Callers |-> NoMutex]
    /\ ctx    = [c \in Callers |-> "live"]
    /\ result = [c \in Callers |-> NoResult]

(* c moves on to label; its own variables and the shared ones that a       *)
(* caller of Goto leaves alone are listed there.                           *)
Goto(c, label) == pc' = [pc EXCEPT ![c] = label]

(* The goroutine ends: what its stack held is gone.                        *)
Exit(c) ==
    /\ Goto(c, "idle")
    /\ job'    = [job EXCEPT ![c] = NoJob]
    /\ ptr'    = [ptr EXCEPT ![c] = NoMutex]
    /\ ctx'    = [ctx EXCEPT ![c] = "live"]
    /\ result' = [result EXCEPT ![c] = NoResult]

(***************************************************************************)
(* GetByID.  A cron job goes straight to Execute, a handler asks IsRunning *)
(* first.  The early returns (no such plan, plan disabled, bad id) leave   *)
(* no trace here: the caller stays idle.                                   *)
(***************************************************************************)
Load(c) ==
    /\ pc[c] = "idle"
    /\ \E s \in Snapshots : job' = [job EXCEPT ![c] = s]
    /\ Goto(c, IF c \in CronJobs THEN "execute" ELSE "probe")
    /\ UNCHANGED <<shared, ptr, ctx, result>>

(* The mutexes getPlanLock may return for p: the one in the map, else a    *)
(* new object.                                                             *)
PlanLock(p) ==
    IF locks[p] # NoMutex THEN {locks[p]}
    ELSE Mutexes \ {locks[q] : q \in Plans}

(* getPlanLock, for IsRunning ("probe") and for Execute ("execute"). It    *)
(* runs under Runner.mu, hence in one step.                                *)
GetPlanLock(c) ==
    /\ pc[c] \in {"probe", "execute"}
    /\ \E m \in PlanLock(job[c].plan) :
          /\ locks' = [locks EXCEPT ![job[c].plan] = m]
          /\ ptr'   = [ptr EXCEPT ![c] = m]
    /\ Goto(c, IF pc[c] = "probe" THEN "probeTry" ELSE "tryLock")
    /\ UNCHANGED <<holder, gauge, job, ctx, result>>

(***************************************************************************)
(* IsRunning: TryLock, and Unlock if it took the mutex.                    *)
(***************************************************************************)
ProbeFree(c) ==
    /\ pc[c] = "probeTry"
    /\ holder[ptr[c]] = Nobody
    /\ holder' = [holder EXCEPT ![ptr[c]] = c]
    /\ Goto(c, "probeHold")
    /\ UNCHANGED <<locks, gauge, job, ptr, ctx, result>>

ProbeBusy(c) ==
    /\ pc[c] = "probeTry"
    /\ holder[ptr[c]] # Nobody
    /\ Goto(c, "conflict")
    /\ UNCHANGED <<shared, job, ptr, ctx, result>>

(* Seeded fault: IsRunning forgets the Unlock.                             *)
ProbeReleaseForgets(c) ==
    /\ pc[c] = "probeHold"
    /\ Goto(c, "execute")
    /\ UNCHANGED <<shared, job, ptr, ctx, result>>

ProbeRelease(c) ==
    /\ pc[c] = "probeHold"
    /\ holder' = [holder EXCEPT ![ptr[c]] = Nobody]
    /\ Goto(c, "execute")
    /\ UNCHANGED <<locks, gauge, job, ptr, ctx, result>>

(* The handler answers 409.                                                *)
Conflict(c) ==
    /\ pc[c] = "conflict"
    /\ Exit(c)
    /\ UNCHANGED shared

(***************************************************************************)
(* Execute.  The deferred calls run in reverse order when it returns or    *)
(* panics: DecPlansRunning, then Unlock.                                   *)
(***************************************************************************)
(* Seeded faults: a status of its own for a busy plan; Lock for TryLock.   *)
RejectedBusy(c) ==
    /\ pc[c] = "tryLock"
    /\ holder[ptr[c]] # Nobody
    /\ result' = [result EXCEPT ![c] =
                    [status |-> "busy", cause |-> "busy", steps |-> <<>>]]
    /\ Goto(c, "returned")
    /\ UNCHANGED <<shared, job, ptr, ctx>>

RejectedNever(c) == FALSE /\ UNCHANGED vars

Rejected(c) ==
    /\ pc[c] = "tryLock"
    /\ holder[ptr[c]] # Nobody
    /\ result' = [result EXCEPT ![c] =
                    [status |-> "failed", cause |-> "busy", steps |-> <<>>]]
    /\ Goto(c, "returned")
    /\ UNCHANGED <<shared, job, ptr, ctx>>

(* Seeded fault: the result of TryLock is ignored.                         *)
AcquireAnyway(c) ==
    /\ pc[c] = "tryLock"
    /\ holder' = [holder EXCEPT ![ptr[c]] = c]
    /\ Goto(c, "locked")
    /\ UNCHANGED <<locks, gauge, job, ptr, ctx, result>>

Acquire(c) ==
    /\ pc[c] = "tryLock"
    /\ holder[ptr[c]] = Nobody
    /\ holder' = [holder EXCEPT ![ptr[c]] = c]
    /\ Goto(c, "locked")
    /\ UNCHANGED <<locks, gauge, job, ptr, ctx, result>>

CountRunning(c) ==
    /\ pc[c] = "locked"
    /\ gauge' = gauge + 1
    /\ Goto(c, "loop")
    /\ UNCHANGED <<locks, holder, job, ptr, ctx, result>>

(* The head of the step loop: no step left, the context is done, or the    *)
(* next step starts.                                                       *)
AllStepsRun(c) ==
    /\ pc[c] = "loop"
    /\ Len(result[c].steps) = job[c].steps
    /\ Goto(c, "finish")
    /\ UNCHANGED <<shared, job, ptr, ctx, result>>

ContextDone(c) ==
    /\ pc[c] = "loop"
    /\ Len(result[c].steps) < job[c].steps
    /\ ctx[c] # "live"
    /\ result' = [result EXCEPT ![c] =
                    [status |-> "timeout", cause |-> "context", steps |-> @.steps]]
    /\ Goto(c, "finish")
    /\ UNCHANGED <<shared, job, ptr, ctx>>

StartStep(c) ==
    /\ pc[c] = "loop"
    /\ Len(result[c].steps) < job[c].steps
    /\ ctx[c] = "live"
    /\ Goto(c, "step")
    /\ UNCHANGED <<shared, job, ptr, ctx, result>>

(* Seeded fault: a step that did not succeed does not end the loop.        *)
AfterStepGoesOn(c, verdict) == "loop"

(* Where the loop goes once a step's result is in: on, or out of the loop. *)
AfterStep(c, verdict) == IF verdict = "success" THEN "loop" ELSE "finish"

(* executeStep returns.  Every executor can return each verdict whether    *)
(* the context is done or not: a step has its own timeout, and its work    *)
(* may end just as the context does.                                       *)
StepReturns(c) ==
    /\ pc[c] = "step"
    /\ \E verdict \in Verdicts :
          /\ result' = [result EXCEPT ![c] =
                [status |-> verdict,
                 cause  |-> IF verdict = "success" THEN "none" ELSE "step",
                 steps  |-> Append(@.steps, verdict)]]
          /\ Goto(c, IF c \in StreamReqs THEN "callback"
                     ELSE AfterStep(c, verdict))
    /\ UNCHANGED <<shared, job, ptr, ctx>>

(* The step-result event has been written to the client and flushed.       *)
EventSent(c) ==
    /\ pc[c] = "callback"
    /\ Goto(c, AfterStep(c, result[c].status))
    /\ UNCHANGED <<shared, job, ptr, ctx, result>>

(* Seeded fault: DecPlansRunning is called at the end, not deferred.       *)
StepPanicsCounted(c) ==
    /\ pc[c] = "step"
    /\ result' = [result EXCEPT ![c].cause = "panic"]
    /\ Goto(c, "unlock")
    /\ UNCHANGED <<shared, job, ptr, ctx>>

(* An executor panics.                                                     *)
StepPanics(c) ==
    /\ pc[c] = "step"
    /\ result' = [result EXCEPT ![c].cause = "panic"]
    /\ Goto(c, "finish")
    /\ UNCHANGED <<shared, job, ptr, ctx>>

UncountRunning(c) ==
    /\ pc[c] = "finish"
    /\ gauge' = gauge - 1
    /\ Goto(c, "unlock")
    /\ UNCHANGED <<locks, holder, job, ptr, ctx, result>>

Release(c) ==
    /\ pc[c] = "unlock"
    /\ holder' = [holder EXCEPT ![ptr[c]] = Nobody]
    /\ Goto(c, IF result[c].cause = "panic" THEN "panicked" ELSE "returned")
    /\ UNCHANGED <<locks, gauge, job, ptr, ctx, result>>

(* A panic leaves a handler: echo's Recover middleware answers 500.  In a  *)
(* cron job nothing recovers it, and the process dies (Restart).           *)
Recovered(c) ==
    /\ pc[c] = "panicked"
    /\ c \in HTTP
    /\ Exit(c)
    /\ UNCHANGED shared

(* The caller has dealt with the result.                                   *)
Leave(c) ==
    /\ pc[c] = "returned"
    /\ Exit(c)
    /\ UNCHANGED shared

(***************************************************************************)
(* The environment: the plan timeout expires, the HTTP client goes away    *)
(* (a context nobody looks at any more is left alone), the process dies    *)
(* (killed, or by a panic in a cron job) and starts anew.                  *)
(***************************************************************************)
DeadlineExpires(c) ==
    /\ pc[c] \in {"loop", "step", "callback"}
    /\ job[c].timed
    /\ ctx[c] = "live"
    /\ ctx' = [ctx EXCEPT ![c] = "deadline"]
    /\ UNCHANGED <<shared, pc, job, ptr, result>>

ClientLeaves(c) ==
    /\ c \in HTTP
    /\ pc[c] \notin {"idle", "conflict"} \union Finished
    /\ ctx[c] = "live"
    /\ ctx' = [ctx EXCEPT ![c] = "cancelled"]
    /\ UNCHANGED <<shared, pc, job, ptr, result>>

Restart ==
    /\ locks'  = [p \in Plans |-> NoMutex]
    /\ holder' = [m \in Mutexes |-> Nobody]
    /\ gauge'  = 0
    /\ pc'     = [c \in Callers |-> "idle"]
    /\ job'    = [c \in Callers |-> NoJob]
    /\ ptr'    = [c \in Callers |-> NoMutex]
    /\ ctx'    = [c \in Callers |-> "live"]
    /\ result' = [c \in Callers |-> NoResult]

(* What the goroutine of c does by itself once it has been started.        *)
Advance(c) ==
    \/ GetPlanLock(c)
    \/ ProbeFree(c)
    \/ ProbeBusy(c)
    \/ ProbeRelease(c)
    \/ Conflict(c)
    \/ Rejected(c)
    \/ Acquire(c)
    \/ CountRunning(c)
    \/ AllStepsRun(c)
    \/ ContextDone(c)
    \/ StartStep(c)
    \/ UncountRunning(c)
    \/ Release(c)
    \/ Recovered(c)
    \/ Leave(c)

CallerStep(c) ==
    \/ Load(c)
    \/ Advance(c)
    \/ StepReturns(c)
    \/ StepPanics(c)
    \/ EventSent(c)
    \/ DeadlineExpires(c)
    \/ ClientLeaves(c)

Next == (\E c \in Callers : CallerStep(c)) \/ Restart

Spec == Init /\ [][Next]_vars

(***************************************************************************)
(* Fairness.  Go schedules every runnable goroutine and its timers fire:   *)
(* a started caller keeps moving, and a plan with a timeout reaches it.    *)
(* An executor is only sure to return once its context is done: without a  *)
(* timeout an HTTP call may hang for ever.  EventSent is never assumed: a  *)
(* client that stops reading blocks the write, and nothing bounds it.      *)
(***************************************************************************)
Fairness ==
    \A c \in Callers :
        /\ WF_vars(Advance(c))
        /\ WF_vars(DeadlineExpires(c))
        /\ WF_vars(ctx[c] # "live" /\ StepReturns(c))

FairSpec == Spec /\ Fairness

-----------------------------------------------------------------------------
(* Type invariant.                                                         *)
TypeOK ==
    /\ locks  \in [Plans -> Mutexes \union {NoMutex}]
    /\ holder \in [Mutexes -> Callers \union {Nobody}]
    /\ gauge  \in Int
    /\ pc     \in [Callers -> PCs]
    /\ job    \in [Callers -> Snapshots]
    /\ ptr    \in [Callers -> Mutexes \union {NoMutex}]
    /\ ctx    \in [Callers -> {"live", "deadline", "cancelled"}]
    /\ result \in [Callers -> Results]

(* A caller past getPlanLock has the mutex that the map still holds for    *)
(* its plan: the map never replaces one.                                   *)
PointerCurrent ==
    \A c \in Callers :
        pc[c] \in {"probeTry", "tryLock"} \union Probing \union Executing =>
            ptr[c] \in Mutexes /\ ptr[c] = locks[job[c].plan]

(* A mutex is locked exactly by the caller that is between its TryLock and *)
(* its Unlock, panics included: none is leaked, none is freed by another.  *)
HolderExact ==
    /\ \A c \in Callers :
          pc[c] \in Probing \union Executing => holder[ptr[c]] = c
    /\ \A m \in Mutexes :
          holder[m] # Nobody =>
              /\ pc[holder[m]] \in Probing \union Executing
              /\ ptr[holder[m]] = m

(* Two plans never share a mutex, so a run of one plan cannot make a run   *)
(* of another one fail with "plan is already running".                     *)
LocksDistinct ==
    \A p, q \in Plans : locks[p] = locks[q] /\ locks[p] # NoMutex => p = q

(* The locking protocol of getPlanLock, IsRunning and Execute.             *)
LockDiscipline == PointerCurrent /\ HolderExact /\ LocksDistinct

(* "It acquires a per-plan lock to prevent concurrent execution of the     *)
(* same plan": no two callers are inside Execute's locked part for one     *)
(* plan, whatever they are and however their getPlanLock calls interleave. *)
MutualExclusion ==
    \A c, d \in Callers :
        /\ pc[c] \in Executing
        /\ pc[d] \in Executing
        /\ job[c].plan = job[d].plan
        => c = d

(* plans_running is exactly the number of runs under way, also after a     *)
(* step has panicked: the deferred decrement always follows its increment. *)
GaugeExact == gauge = Cardinality({c \in Callers : pc[c] \in Counted})

(* The verdict of an ExecResult r of a plan of n steps agrees with the     *)
(* step results it carries, and its cause with the verdict.                *)
Sound(r, n) ==
    \/ /\ r.cause = "none"
       /\ r.status = "success"
       /\ Len(r.steps) = n
       /\ AllSucceeded(r.steps)
    \/ /\ r.cause = "busy"
       /\ r.status = "failed"
       /\ r.steps = <<>>
    \/ /\ r.cause = "context"
       /\ r.status = "timeout"
       /\ Len(r.steps) < n
       /\ AllSucceeded(r.steps)
    \/ /\ r.cause = "step"
       /\ r.status # "success"
       /\ Len(r.steps) \in 1..n
       /\ r.steps[Len(r.steps)] = r.status
       /\ \A i \in 1..(Len(r.steps) - 1) : r.steps[i] = "success"
    \/ /\ r.cause = "panic"
       /\ Len(r.steps) < n

(* What Execute returns is sound: a success ran every step, a failure      *)
(* stopped at the step it names and a context error came under a done      *)
(* context, whatever happened to the context in the meantime.              *)
VerdictSound ==
    \A c \in Callers :
        pc[c] \in Finished =>
            /\ Sound(result[c], job[c].steps)
            /\ result[c].cause = "context" => ctx[c] # "live"

(* Runner implements PlanRuns: the plan is taken from TryLock to Unlock,   *)
(* and the steps reported are those of the result under construction.      *)
ActiveCallers(p) == {c \in Callers : pc[c] \in Executing /\ job[c].plan = p}

Abstract == INSTANCE PlanRuns WITH
    active   <- [p \in Plans |-> ActiveCallers(p)],
    progress <- [c \in Callers |->
                    IF pc[c] \in Executing THEN result[c].steps ELSE <<>>]

ImplementsPlanRuns == Abstract!Spec

(* What Execute does for each caller between TryLock and Unlock, and may   *)
(* take any step to be, is StepLoop; a rejected caller has no run, and one *)
(* whose step has panicked has none any more.                              *)
LoopPhase(c) ==
    CASE pc[c] = "loop" \/ (pc[c] = "callback" /\ result[c].status = "success") -> "loop"
      [] pc[c] = "step" -> "step"
      [] \/ pc[c] = "callback" /\ result[c].status # "success"
         \/ /\ pc[c] \in {"finish", "unlock", "returned"}
            /\ result[c].cause \notin {"busy", "panic"} -> "over"
      [] OTHER -> "idle"

InLoop(c) == LoopPhase(c) # "idle"

LoopOf(c) == INSTANCE StepLoop WITH
    phase    <- LoopPhase(c),
    total    <- IF InLoop(c) THEN job[c].steps ELSE 0,
    reported <- IF InLoop(c) THEN result[c].steps ELSE <<>>,
    verdict  <- IF InLoop(c) THEN result[c].status ELSE "success",
    ended    <- ctx[c] # "live"

ImplementsStepLoop ==
    /\ \A c \in Callers : LoopOf(c)!Init
    /\ [][\A c \in Callers : [LoopOf(c)!Next]_(LoopOf(c)!lvars)]_vars

(* No caller waits for another one: TryLock never blocks, so a cron job or *)
(* an Exec request for a plan with a timeout ends, whoever else holds the  *)
(* plan and for however long (a Stream whose client stopped reading, say). *)
CallersFinish ==
    \A c \in CronJobs \union ExecReqs :
        (pc[c] # "idle" /\ job[c].timed) ~> pc[c] \in {"idle", "panicked"}

=============================================================================
