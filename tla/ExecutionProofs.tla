-------------------------- MODULE ExecutionProofs --------------------------
(***************************************************************************)
(* Theorems about Runner and about Execution, for any number of plans,     *)
(* callers, mutexes and steps and any bounds.  First the plan's locks and  *)
(* its one run, which are Runner's; then what the callers do with a        *)
(* result, which disturbs none of that.                                    *)
(***************************************************************************)
EXTENDS Execution, FiniteSetTheorems, TLAPS

LEMMA NoJobType == NoJob \in Snapshots
  BY SnapshotAssumption DEF NoJob

LEMMA JobType ==
  ASSUME NEW s \in Snapshots
  PROVE  s.plan \in Plans /\ s.steps \in Nat /\ s.timed \in BOOLEAN /\ s.trims \in BOOLEAN
  BY SnapshotAssumption DEF SnapshotType

LEMMA NoResultType == NoResult \in Results
  BY DEF NoResult, Results, Verdicts, Causes

-----------------------------------------------------------------------------
(* The steps of a caller preserve the types.                               *)
LEMMA TypeStep == TypeOK /\ [Next]_vars => TypeOK'
<1> SUFFICES ASSUME TypeOK, [Next]_vars PROVE TypeOK'
  OBVIOUS
<1> USE CallerAssumption, NoJobType, NoResultType
<1>1. ASSUME NEW c \in Callers, CallerStep(c) PROVE TypeOK'
  <2> USE <1>1 DEF TypeOK, shared, PCs, Probing, Executing
  <2>1. CASE Load(c)
    BY <2>1 DEF Load, Goto
  <2>2. CASE GetPlanLock(c)
    <3>1. job[c].plan \in Plans
      BY JobType
    <3>2. ASSUME NEW p \in Plans PROVE PlanLock(p) \subseteq Mutexes
      BY CallerAssumption DEF PlanLock
    <3> QED BY <2>2, <3>1, <3>2 DEF GetPlanLock, Goto
  <2>3. CASE ProbeFree(c)
    BY <2>3 DEF ProbeFree, Goto
  <2>4. CASE ProbeBusy(c)
    BY <2>4 DEF ProbeBusy, Goto
  <2>5. CASE ProbeRelease(c)
    BY <2>5 DEF ProbeRelease, Goto
  <2>6. CASE Conflict(c)
    BY <2>6 DEF Conflict, Exit, Goto
  <2>7. CASE Rejected(c)
    BY <2>7 DEF Rejected, Goto, Results, Verdicts, Causes
  <2>8. CASE Acquire(c)
    BY <2>8 DEF Acquire, Goto
  <2>9. CASE CountRunning(c)
    BY <2>9 DEF CountRunning, Goto
  <2>10. CASE AllStepsRun(c)
    BY <2>10 DEF AllStepsRun, Goto
  <2>11. CASE ContextDone(c)
    BY <2>11 DEF ContextDone, Goto, Results, Verdicts, Causes
  <2>12. CASE StartStep(c)
    BY <2>12 DEF StartStep, Goto
  <2>13. CASE StepReturns(c)
    BY <2>13 DEF StepReturns, Goto, AfterStep, Results, Verdicts, Causes
  <2>14. CASE StepPanics(c)
    BY <2>14 DEF StepPanics, Goto, Results, Causes
  <2>15. CASE EventSent(c)
    BY <2>15 DEF EventSent, Goto, AfterStep
  <2>16. CASE UncountRunning(c)
    BY <2>16 DEF UncountRunning, Goto
  <2>17. CASE Release(c)
    BY <2>17 DEF Release, Goto
  <2>18. CASE Recovered(c)
    BY <2>18 DEF Recovered, Exit, Goto
  <2>19. CASE Leave(c)
    BY <2>19 DEF Leave, Exit, Goto
  <2>20. CASE DeadlineExpires(c)
    BY <2>20 DEF DeadlineExpires
  <2>21. CASE ClientLeaves(c)
    BY <2>21 DEF ClientLeaves
  <2> QED
    BY <2>1, <2>2, <2>3, <2>4, <2>5, <2>6, <2>7, <2>8, <2>9, <2>10, <2>11,
       <2>12, <2>13, <2>14, <2>15, <2>16, <2>17, <2>18, <2>19, <2>20, <2>21,
       <1>1 DEF CallerStep, Advance
<1>2. CASE Restart
  BY <1>2 DEF Restart, TypeOK, PCs
<1>3. CASE UNCHANGED vars
  BY <1>3 DEF vars, TypeOK
<1> QED
  BY <1>1, <1>2, <1>3 DEF Next

LEMMA TypeInit == Init => TypeOK
  BY NoJobType, NoResultType DEF Init, TypeOK, PCs

(* The types hold in every reachable state.                                *)
THEOREM TypeCorrect == Spec => []TypeOK
  BY TypeInit, TypeStep, PTL DEF Spec

-----------------------------------------------------------------------------
LEMMA LockInit == Init => LockDiscipline
  BY CallerAssumption
  DEF Init, LockDiscipline, PointerCurrent, HolderExact, LocksDistinct,
      Probing, Executing

(* The locking protocol is inductive by itself, given the types.           *)
LEMMA LockStep == TypeOK /\ LockDiscipline /\ [Next]_vars => LockDiscipline'
<1> SUFFICES ASSUME TypeOK, LockDiscipline, [Next]_vars PROVE LockDiscipline'
  OBVIOUS
<1> USE CallerAssumption DEF TypeOK, LockDiscipline, PointerCurrent,
        HolderExact, LocksDistinct, Probing, Executing
<1>1. ASSUME NEW c \in Callers, CallerStep(c) PROVE LockDiscipline'
  <2>0. job[c].plan \in Plans
    BY JobType
  <2>1. CASE Load(c)
    BY <2>0, <2>1 DEF Load, shared, Goto
  <2>2. CASE GetPlanLock(c)
    BY <2>0, <2>2 DEF GetPlanLock, shared, Goto, PlanLock
  <2>3. CASE ProbeFree(c)
    BY <2>0, <2>3 DEF ProbeFree, shared, Goto
  <2>4. CASE ProbeBusy(c)
    BY <2>0, <2>4 DEF ProbeBusy, shared, Goto
  <2>5. CASE ProbeRelease(c)
    BY <2>0, <2>5 DEF ProbeRelease, shared, Goto
  <2>6. CASE Conflict(c)
    BY <2>0, <2>6 DEF Conflict, shared, Goto, Exit
  <2>7. CASE Rejected(c)
    BY <2>0, <2>7 DEF Rejected, shared, Goto
  <2>8. CASE Acquire(c)
    BY <2>0, <2>8 DEF Acquire, shared, Goto
  <2>9. CASE CountRunning(c)
    BY <2>0, <2>9 DEF CountRunning, shared, Goto
  <2>10. CASE AllStepsRun(c)
    BY <2>0, <2>10 DEF AllStepsRun, shared, Goto
  <2>11. CASE ContextDone(c)
    BY <2>0, <2>11 DEF ContextDone, shared, Goto
  <2>12. CASE StartStep(c)
    BY <2>0, <2>12 DEF StartStep, shared, Goto
  <2>13. CASE StepReturns(c)
    BY <2>0, <2>13 DEF StepReturns, shared, Goto, AfterStep
  <2>14. CASE StepPanics(c)
    BY <2>0, <2>14 DEF StepPanics, shared, Goto
  <2>15. CASE EventSent(c)
    BY <2>0, <2>15 DEF EventSent, shared, Goto, AfterStep
  <2>16. CASE UncountRunning(c)
    BY <2>0, <2>16 DEF UncountRunning, shared, Goto
  <2>17. CASE Release(c)
    BY <2>0, <2>17 DEF Release, shared, Goto
  <2>18. CASE Recovered(c)
    BY <2>0, <2>18 DEF Recovered, shared, Goto, Exit
  <2>19. CASE Leave(c)
    BY <2>0, <2>19 DEF Leave, shared, Goto, Exit
  <2>20. CASE DeadlineExpires(c)
    BY <2>0, <2>20 DEF DeadlineExpires, shared
  <2>21. CASE ClientLeaves(c)
    BY <2>0, <2>21 DEF ClientLeaves, shared
  <2> QED
    BY <2>1, <2>2, <2>3, <2>4, <2>5, <2>6, <2>7, <2>8, <2>9, <2>10, <2>11, <2>12, <2>13, <2>14, <2>15, <2>16, <2>17, <2>18, <2>19, <2>20, <2>21,
       <1>1 DEF CallerStep, Advance
<1>2. CASE Restart
  BY <1>2 DEF Restart
<1>3. CASE UNCHANGED vars
  BY <1>3 DEF vars
<1> QED
  BY <1>1, <1>2, <1>3 DEF Next

(* Whatever the interleaving of getPlanLock, IsRunning and Execute, a      *)
(* mutex is held by exactly the caller that locked it, and it is the one   *)
(* the map holds for that caller's plan.                                   *)
THEOREM LockDisciplineHolds == Spec => []LockDiscipline
  BY TypeCorrect, LockInit, LockStep, PTL DEF Spec

LEMMA Exclusion == LockDiscipline => MutualExclusion
  BY DEF LockDiscipline, PointerCurrent, HolderExact, MutualExclusion,
         Probing, Executing

(* No two callers ever run the same plan at the same time.                 *)
THEOREM MutualExclusionHolds == Spec => []MutualExclusion
  BY LockDisciplineHolds, Exclusion, PTL

-----------------------------------------------------------------------------
(* The callers plans_running should count.                                 *)
Running == {c \in Callers : pc[c] \in Counted}

LEMMA RunningFinite == IsFiniteSet(Running)
  BY FiniteCallers, FS_Subset DEF Running

LEMMA GaugeInit == Init => GaugeExact
<1> SUFFICES ASSUME Init PROVE GaugeExact
  OBVIOUS
<1>1. Running = {}
  BY DEF Init, Running, Counted
<1> QED
  BY <1>1, FS_EmptySet DEF GaugeExact, Running, Init

(* Only CountRunning and UncountRunning move a caller into or out of       *)
(* Running, and they move the gauge along.                                 *)
LEMMA GaugeStep == TypeOK /\ GaugeExact /\ [Next]_vars => GaugeExact'
<1> SUFFICES ASSUME TypeOK, GaugeExact, [Next]_vars PROVE GaugeExact'
  OBVIOUS
<1>0. gauge = Cardinality(Running)
  BY DEF GaugeExact, Running
<1>1. ASSUME NEW c \in Callers, CallerStep(c) PROVE GaugeExact'
  <2> SUFFICES gauge' = Cardinality(Running')
    BY DEF GaugeExact, Running
  <2>1. CASE CountRunning(c)
    <3>1. c \notin Running /\ Running' = Running \union {c} /\ gauge' = gauge + 1
      BY <2>1 DEF CountRunning, Goto, Running, Counted, TypeOK
    <3> QED
      BY <3>1, <1>0, RunningFinite, FS_AddElement
  <2>2. CASE UncountRunning(c)
    <3>1. c \in Running /\ Running' = Running \ {c} /\ gauge' = gauge - 1
      BY <2>2 DEF UncountRunning, Goto, Running, Counted, TypeOK
    <3> QED
      BY <3>1, <1>0, RunningFinite, FS_RemoveElement
  <2> USE DEF TypeOK, Running, Counted, shared
  <2>3. CASE Load(c)
    <3>1. Running' = Running /\ gauge' = gauge
      BY <2>3 DEF Load, Goto
    <3> QED BY <3>1, <1>0
  <2>4. CASE GetPlanLock(c)
    <3>1. Running' = Running /\ gauge' = gauge
      BY <2>4 DEF GetPlanLock, Goto
    <3> QED BY <3>1, <1>0
  <2>5. CASE ProbeFree(c)
    <3>1. Running' = Running /\ gauge' = gauge
      BY <2>5 DEF ProbeFree, Goto
    <3> QED BY <3>1, <1>0
  <2>6. CASE ProbeBusy(c)
    <3>1. Running' = Running /\ gauge' = gauge
      BY <2>6 DEF ProbeBusy, Goto
    <3> QED BY <3>1, <1>0
  <2>7. CASE ProbeRelease(c)
    <3>1. Running' = Running /\ gauge' = gauge
      BY <2>7 DEF ProbeRelease, Goto
    <3> QED BY <3>1, <1>0
  <2>8. CASE Conflict(c)
    <3>1. Running' = Running /\ gauge' = gauge
      BY <2>8 DEF Conflict, Goto, Exit
    <3> QED BY <3>1, <1>0
  <2>9. CASE Rejected(c)
    <3>1. Running' = Running /\ gauge' = gauge
      BY <2>9 DEF Rejected, Goto
    <3> QED BY <3>1, <1>0
  <2>10. CASE Acquire(c)
    <3>1. Running' = Running /\ gauge' = gauge
      BY <2>10 DEF Acquire, Goto
    <3> QED BY <3>1, <1>0
  <2>11. CASE AllStepsRun(c)
    <3>1. Running' = Running /\ gauge' = gauge
      BY <2>11 DEF AllStepsRun, Goto
    <3> QED BY <3>1, <1>0
  <2>12. CASE ContextDone(c)
    <3>1. Running' = Running /\ gauge' = gauge
      BY <2>12 DEF ContextDone, Goto
    <3> QED BY <3>1, <1>0
  <2>13. CASE StartStep(c)
    <3>1. Running' = Running /\ gauge' = gauge
      BY <2>13 DEF StartStep, Goto
    <3> QED BY <3>1, <1>0
  <2>14. CASE StepReturns(c)
    <3>1. Running' = Running /\ gauge' = gauge
      BY <2>14 DEF StepReturns, Goto, AfterStep
    <3> QED BY <3>1, <1>0
  <2>15. CASE StepPanics(c)
    <3>1. Running' = Running /\ gauge' = gauge
      BY <2>15 DEF StepPanics, Goto
    <3> QED BY <3>1, <1>0
  <2>16. CASE EventSent(c)
    <3>1. Running' = Running /\ gauge' = gauge
      BY <2>16 DEF EventSent, Goto, AfterStep
    <3> QED BY <3>1, <1>0
  <2>17. CASE Release(c)
    <3>1. Running' = Running /\ gauge' = gauge
      BY <2>17 DEF Release, Goto
    <3> QED BY <3>1, <1>0
  <2>18. CASE Recovered(c)
    <3>1. Running' = Running /\ gauge' = gauge
      BY <2>18 DEF Recovered, Goto, Exit
    <3> QED BY <3>1, <1>0
  <2>19. CASE Leave(c)
    <3>1. Running' = Running /\ gauge' = gauge
      BY <2>19 DEF Leave, Goto, Exit
    <3> QED BY <3>1, <1>0
  <2>20. CASE DeadlineExpires(c)
    <3>1. Running' = Running /\ gauge' = gauge
      BY <2>20 DEF DeadlineExpires
    <3> QED BY <3>1, <1>0
  <2>21. CASE ClientLeaves(c)
    <3>1. Running' = Running /\ gauge' = gauge
      BY <2>21 DEF ClientLeaves
    <3> QED BY <3>1, <1>0
  <2> QED
    BY <2>1, <2>2, <2>3, <2>4, <2>5, <2>6, <2>7, <2>8, <2>9, <2>10, <2>11, <2>12, <2>13, <2>14, <2>15, <2>16, <2>17, <2>18, <2>19, <2>20, <2>21,
       <1>1 DEF CallerStep, Advance
<1>2. CASE Restart
  <2>1. Running' = {} /\ gauge' = 0
    BY <1>2 DEF Restart, Running, Counted
  <2> QED
    BY <2>1, FS_EmptySet DEF GaugeExact, Running
<1>3. CASE UNCHANGED vars
  <2>1. Running' = Running /\ gauge' = gauge
    BY <1>3 DEF vars, Running
  <2> QED
    BY <2>1, <1>0 DEF GaugeExact, Running
<1> QED
  BY <1>1, <1>2, <1>3 DEF Next

(* plans_running counts the runs under way, panics and restarts included.  *)
THEOREM GaugeExactHolds == Spec => []GaugeExact
  BY TypeCorrect, GaugeInit, GaugeStep, PTL DEF Spec

-----------------------------------------------------------------------------
(* What the result under construction looks like before Execute returns:   *)
(* nothing before the loop, only successes in it, and at the callback      *)
(* possibly one last step that did not succeed.                            *)
Untouched == PCs \ ({"loop", "step", "callback"} \union Finished)

ResultShape(c) ==
    LET r == result[c]
        n == job[c].steps
    IN  /\ pc[c] \in Untouched => r = NoResult
        /\ pc[c] \in {"loop", "step"} =>
              /\ r.status = "success" /\ r.cause = "none"
              /\ AllSucceeded(r.steps)
              /\ Len(r.steps) <= n
        /\ pc[c] = "step" => Len(r.steps) < n
        /\ pc[c] = "callback" =>
              /\ r.cause = (IF r.status = "success" THEN "none" ELSE "step")
              /\ Len(r.steps) \in 1..n
              /\ r.steps[Len(r.steps)] = r.status
              /\ \A i \in 1..(Len(r.steps) - 1) : r.steps[i] = "success"
        /\ pc[c] \in Finished =>
              /\ Sound(r, n)
              /\ r.cause = "context" => ctx[c] # "live"

VerdictInv == \A c \in Callers : ResultShape(c)

LEMMA VerdictInit == Init => VerdictInv
  BY DEF Init, VerdictInv, ResultShape, Untouched, PCs, Finished, Probing, Executing

LEMMA VerdictStep == TypeOK /\ VerdictInv /\ [Next]_vars => VerdictInv'
<1> SUFFICES ASSUME TypeOK, VerdictInv, [Next]_vars,
                    NEW d \in Callers
             PROVE  ResultShape(d)'
  BY DEF VerdictInv
<1>0. ResultShape(d) /\ job[d].steps \in Nat
  BY JobType DEF VerdictInv, TypeOK
<1>1. ASSUME NEW c \in Callers, CallerStep(c) PROVE ResultShape(d)'
  <2> USE <1>0 DEF TypeOK, ResultShape, Untouched, PCs, Finished, Probing,
        Executing, NoResult, Results, Verdicts, Causes, Sound, AllSucceeded
  <2>1. CASE Load(c)
    BY <2>1 DEF Load, shared, Goto
  <2>2. CASE GetPlanLock(c)
    BY <2>2 DEF GetPlanLock, shared, Goto
  <2>3. CASE ProbeFree(c)
    BY <2>3 DEF ProbeFree, shared, Goto
  <2>4. CASE ProbeBusy(c)
    BY <2>4 DEF ProbeBusy, shared, Goto
  <2>5. CASE ProbeRelease(c)
    BY <2>5 DEF ProbeRelease, shared, Goto
  <2>6. CASE Conflict(c)
    BY <2>6 DEF Conflict, shared, Goto, Exit
  <2>7. CASE Rejected(c)
    BY <2>7 DEF Rejected, shared, Goto
  <2>8. CASE Acquire(c)
    BY <2>8 DEF Acquire, shared, Goto
  <2>9. CASE CountRunning(c)
    BY <2>9 DEF CountRunning, shared, Goto
  <2>10. CASE AllStepsRun(c)
    BY <2>10 DEF AllStepsRun, shared, Goto
  <2>11. CASE ContextDone(c)
    BY <2>11 DEF ContextDone, shared, Goto
  <2>12. CASE StartStep(c)
    BY <2>12 DEF StartStep, shared, Goto
  <2>13. CASE StepReturns(c)
    BY <2>13 DEF StepReturns, shared, Goto, AfterStep
  <2>14. CASE StepPanics(c)
    BY <2>14 DEF StepPanics, shared, Goto
  <2>15. CASE EventSent(c)
    BY <2>15 DEF EventSent, shared, Goto, AfterStep
  <2>16. CASE UncountRunning(c)
    BY <2>16 DEF UncountRunning, shared, Goto
  <2>17. CASE Release(c)
    BY <2>17 DEF Release, shared, Goto
  <2>18. CASE Recovered(c)
    BY <2>18 DEF Recovered, shared, Goto, Exit
  <2>19. CASE Leave(c)
    BY <2>19 DEF Leave, shared, Goto, Exit
  <2>20. CASE DeadlineExpires(c)
    BY <2>20 DEF DeadlineExpires, shared
  <2>21. CASE ClientLeaves(c)
    BY <2>21 DEF ClientLeaves, shared
  <2> QED
    BY <2>1, <2>2, <2>3, <2>4, <2>5, <2>6, <2>7, <2>8, <2>9, <2>10, <2>11, <2>12, <2>13, <2>14, <2>15, <2>16, <2>17, <2>18, <2>19, <2>20, <2>21,
       <1>1 DEF CallerStep, Advance
<1>2. CASE Restart
  BY <1>2 DEF Restart, ResultShape, Untouched, PCs, Finished, Probing, Executing
<1>3. CASE UNCHANGED vars
  BY <1>0, <1>3 DEF vars, ResultShape
<1> QED
  BY <1>1, <1>2, <1>3 DEF Next

(* The verdict Execute returns always agrees with the steps it ran, for a  *)
(* plan of any length.                                                     *)
THEOREM VerdictSoundHolds == Spec => []VerdictSound
<1>1. VerdictInv => VerdictSound
  BY DEF VerdictInv, VerdictSound, ResultShape
<1> QED
  BY <1>1, TypeCorrect, VerdictInit, VerdictStep, PTL DEF Spec

-----------------------------------------------------------------------------
(* The refinement mapping, by name.                                        *)
Active   == [p \in Plans |-> ActiveCallers(p)]
Progress == [c \in Callers |->
                IF pc[c] \in Executing THEN result[c].steps ELSE <<>>]

RunnerInv == TypeOK /\ LockDiscipline /\ VerdictInv

LEMMA RunnerInvHolds == Spec => []RunnerInv
  BY TypeCorrect, LockDisciplineHolds, VerdictInit, VerdictStep, PTL
  DEF Spec, RunnerInv

(* A step that moves nobody into or out of the locked part of Execute and  *)
(* leaves the reported steps alone is a stutter of PlanRuns.               *)
LEMMA Stutter ==
  ASSUME \A d \in Callers :
            /\ pc'[d] \in Executing <=> pc[d] \in Executing
            /\ pc[d] \in Executing => job'[d].plan = job[d].plan
            /\ pc[d] \in Executing => result'[d].steps = result[d].steps
  PROVE  UNCHANGED <<Active, Progress>>
<1>1. \A p \in Plans : ActiveCallers(p)' = ActiveCallers(p)
  BY DEF ActiveCallers
<1>2. Active' = Active
  BY <1>1 DEF Active
<1>3. Progress' = Progress
  BY DEF Progress
<1> QED
  BY <1>2, <1>3

(* With the mutex held by c, c is the only active caller of its plan.      *)
LEMMA SoleActive ==
  ASSUME RunnerInv, NEW c \in Callers, pc[c] \in Executing
  PROVE  ActiveCallers(job[c].plan) = {c}
  BY Exclusion DEF RunnerInv, MutualExclusion, ActiveCallers

LEMMA RefinementInit == Init => Abstract!Init
<1> SUFFICES ASSUME Init PROVE Abstract!Init
  OBVIOUS
<1>1. \A p \in Plans : ActiveCallers(p) = {}
  BY DEF Init, ActiveCallers, Executing
<1>2. Active = [p \in Plans |-> {}]
  BY <1>1 DEF Active
<1>3. Progress = [c \in Callers |-> <<>>]
  BY DEF Init, Progress, Executing
<1> QED
  BY <1>2, <1>3 DEF Abstract!Init, Active, Progress

(* Acquire begins the run, StepReturns reports a step, Release ends it.    *)
LEMMA RefinementStep == RunnerInv /\ [Next]_vars => [Abstract!Next]_(Abstract!avars)
<1> SUFFICES ASSUME RunnerInv, [Next]_vars
             PROVE  Abstract!Next \/ UNCHANGED <<Active, Progress>>
  BY DEF Abstract!avars, Active, Progress
<1>1. ASSUME NEW c \in Callers, CallerStep(c)
      PROVE  Abstract!Next \/ UNCHANGED <<Active, Progress>>
  <2> DEFINE p == job[c].plan
  <2>0. p \in Plans /\ TypeOK
    BY JobType DEF RunnerInv, TypeOK
  <2>1. CASE Acquire(c)
    <3>1. /\ pc[c] = "tryLock" /\ holder[ptr[c]] = Nobody
          /\ pc' = [pc EXCEPT ![c] = "locked"]
          /\ UNCHANGED <<job, result>>
      BY <2>1 DEF Acquire, Goto
    <3>2. ActiveCallers(p) = {}
      BY <3>1, CallerAssumption
      DEF ActiveCallers, RunnerInv, LockDiscipline, PointerCurrent, HolderExact
    <3>3. \A q \in Plans : ActiveCallers(q)' =
                              IF q = p THEN {c} ELSE ActiveCallers(q)
      BY <3>1, <3>2, <2>0 DEF ActiveCallers, TypeOK, Executing
    <3>4. Active' = [Active EXCEPT ![p] = {c}]
      BY <3>3 DEF Active
    <3>5. result[c].steps = <<>>
      BY <3>1 DEF RunnerInv, VerdictInv, ResultShape, Untouched, PCs, Finished,
                  Probing, Executing, NoResult
    <3>6. Progress' = Progress
      BY <3>1, <3>5, <2>0 DEF Progress, TypeOK, Executing
    <3>7. Active[p] = {}
      BY <3>2, <2>0 DEF Active
    <3>8. Abstract!Begin(p, c)
      BY <3>4, <3>6, <3>7 DEF Abstract!Begin, Active, Progress
    <3> QED
      BY <3>8, <2>0 DEF Abstract!Next
  <2>2. CASE StepReturns(c)
    <3>1. pc[c] = "step" /\ UNCHANGED job
      BY <2>2 DEF StepReturns
    <3>2. PICK verdict \in Verdicts :
            /\ result' = [result EXCEPT ![c] =
                  [status |-> verdict,
                   cause  |-> IF verdict = "success" THEN "none" ELSE "step",
                   steps  |-> Append(@.steps, verdict)]]
            /\ Goto(c, IF c \in StreamReqs THEN "callback"
                       ELSE AfterStep(c, verdict))
      BY <2>2 DEF StepReturns
    <3>3. \A d \in Callers : pc'[d] \in Executing <=> pc[d] \in Executing
      BY <3>1, <3>2, <2>0 DEF Goto, AfterStep, Executing, TypeOK
    <3>4. \A q \in Plans : ActiveCallers(q)' = ActiveCallers(q)
      BY <3>1, <3>3 DEF ActiveCallers
    <3>5. Active' = Active
      BY <3>4 DEF Active
    <3>6. Active[p] = {c}
      BY <3>1, <2>0, SoleActive DEF Active, Executing
    <3>7. Progress[c] = result[c].steps
      BY <3>1 DEF Progress, Executing
    <3>8. Progress' = [Progress EXCEPT ![c] = Append(@, verdict)]
      BY <3>1, <3>2, <3>3, <3>7, <2>0 DEF Progress, Executing, TypeOK
    <3>9. AllSucceeded(Progress[c])
      BY <3>1, <3>7 DEF RunnerInv, VerdictInv, ResultShape
    <3>10. Abstract!Report(p, c, verdict)
      BY <3>5, <3>6, <3>8, <3>9
      DEF Abstract!Report, Abstract!AllSucceeded, AllSucceeded, Active, Progress
    <3> QED
      BY <3>10, <2>0 DEF Abstract!Next, Abstract!Verdicts, Verdicts
  <2>3. CASE Release(c)
    <3>1. /\ pc[c] = "unlock" /\ UNCHANGED <<job, result>>
          /\ \E label \in {"panicked", "returned"} : pc' = [pc EXCEPT ![c] = label]
      BY <2>3 DEF Release, Goto
    <3>2. ActiveCallers(p) = {c}
      BY <3>1, SoleActive DEF Executing
    <3>3. \A q \in Plans : ActiveCallers(q)' =
                              IF q = p THEN {} ELSE ActiveCallers(q)
      BY <3>1, <3>2, <2>0 DEF ActiveCallers, TypeOK, Executing
    <3>4. Active' = [Active EXCEPT ![p] = {}]
      BY <3>3 DEF Active
    <3>5. Progress' = [Progress EXCEPT ![c] = <<>>]
      BY <3>1, <2>0 DEF Progress, TypeOK, Executing
    <3>6. Active[p] = {c}
      BY <3>2, <2>0 DEF Active
    <3>7. Abstract!End(p, c)
      BY <3>4, <3>5, <3>6 DEF Abstract!End, Active, Progress
    <3> QED
      BY <3>7, <2>0 DEF Abstract!Next
  <2> USE <2>0, Stutter DEF TypeOK, shared, Executing
  <2>4. CASE Load(c)
    BY <2>4 DEF Load, Goto
  <2>5. CASE GetPlanLock(c)
    BY <2>5 DEF GetPlanLock, Goto
  <2>6. CASE ProbeFree(c)
    BY <2>6 DEF ProbeFree, Goto
  <2>7. CASE ProbeBusy(c)
    BY <2>7 DEF ProbeBusy, Goto
  <2>8. CASE ProbeRelease(c)
    BY <2>8 DEF ProbeRelease, Goto
  <2>9. CASE Conflict(c)
    BY <2>9 DEF Conflict, Goto, Exit
  <2>10. CASE Rejected(c)
    BY <2>10 DEF Rejected, Goto
  <2>11. CASE CountRunning(c)
    BY <2>11 DEF CountRunning, Goto
  <2>12. CASE AllStepsRun(c)
    BY <2>12 DEF AllStepsRun, Goto
  <2>13. CASE ContextDone(c)
    BY <2>13 DEF ContextDone, Goto
  <2>14. CASE StartStep(c)
    BY <2>14 DEF StartStep, Goto
  <2>15. CASE StepPanics(c)
    BY <2>15 DEF StepPanics, Goto
  <2>16. CASE EventSent(c)
    BY <2>16 DEF EventSent, Goto, AfterStep
  <2>17. CASE UncountRunning(c)
    BY <2>17 DEF UncountRunning, Goto
  <2>18. CASE Recovered(c)
    BY <2>18 DEF Recovered, Goto, Exit
  <2>19. CASE Leave(c)
    BY <2>19 DEF Leave, Goto, Exit
  <2>20. CASE DeadlineExpires(c)
    BY <2>20 DEF DeadlineExpires
  <2>21. CASE ClientLeaves(c)
    BY <2>21 DEF ClientLeaves
  <2> QED
    BY <2>1, <2>2, <2>3, <2>4, <2>5, <2>6, <2>7, <2>8, <2>9, <2>10, <2>11, <2>12, <2>13, <2>14, <2>15, <2>16, <2>17, <2>18, <2>19, <2>20, <2>21,
       <1>1 DEF CallerStep, Advance
<1>2. CASE Restart
  <2>1. \A p \in Plans : ActiveCallers(p)' = {}
    BY <1>2 DEF Restart, ActiveCallers, Executing
  <2>2. Active' = [p \in Plans |-> {}]
    BY <2>1 DEF Active
  <2>3. Progress' = [c \in Callers |-> <<>>]
    BY <1>2 DEF Restart, Progress, Executing
  <2>4. Abstract!Restart
    BY <2>2, <2>3 DEF Abstract!Restart, Active, Progress
  <2> QED
    BY <2>4 DEF Abstract!Next
<1>3. CASE UNCHANGED vars
  BY <1>3, Stutter DEF vars
<1> QED
  BY <1>1, <1>2, <1>3 DEF Next

(* The engine implements PlanRuns: one run per plan at a time, reporting   *)
(* its steps in order and none after one that did not succeed.             *)
THEOREM Refinement == Spec => ImplementsPlanRuns
  BY RunnerInvHolds, RefinementInit, RefinementStep, PTL
  DEF Spec, ImplementsPlanRuns, Abstract!Spec

-----------------------------------------------------------------------------
(***************************************************************************)
(* Runner implements StepLoop, once for each caller.                       *)
(***************************************************************************)
LEMMA LoopsInit == Init => \A c \in Callers : LoopOf(c)!Init
<1> SUFFICES ASSUME Init, NEW c \in Callers PROVE LoopOf(c)!Init
  OBVIOUS
<1>1. pc[c] = "idle" /\ ctx[c] = "live"
  BY DEF Init
<1>2. LoopPhase(c) = "idle" /\ ~InLoop(c)
  BY <1>1 DEF LoopPhase, InLoop
<1> QED
  BY <1>1, <1>2 DEF LoopOf!Init, LoopOf!Idle

(* A step that leaves the variables of a caller alone, or moves it about   *)
(* where it has no run.                                                    *)
LEMMA LoopStutters ==
    ASSUME NEW c, UNCHANGED <<pc[c], job[c], result[c], ctx[c]>>
    PROVE  UNCHANGED LoopOf(c)!lvars
<1>1. LoopPhase(c)' = LoopPhase(c)
  BY DEF LoopPhase
<1> QED
  BY <1>1 DEF LoopOf!lvars, InLoop

LEMMA NoLoopStutters ==
    ASSUME NEW c, ctx'[c] = ctx[c], ~InLoop(c), ~InLoop(c)'
    PROVE  UNCHANGED LoopOf(c)!lvars
<1>1. LoopPhase(c) = "idle" /\ LoopPhase(c)' = "idle"
  BY DEF InLoop
<1> QED
  BY <1>1 DEF LoopOf!lvars

(* The phase of a run of c by the place c has reached.                     *)
LEMMA Phases ==
    ASSUME NEW c
    PROVE  /\ pc[c] = "loop" => LoopPhase(c) = "loop"
           /\ pc[c] = "step" => LoopPhase(c) = "step"
           /\ pc[c] = "callback" =>
                 LoopPhase(c) = IF result[c].status = "success" THEN "loop" ELSE "over"
           /\ pc[c] \in {"finish", "unlock", "returned"} =>
                 LoopPhase(c) = IF result[c].cause \in {"busy", "panic"} THEN "idle" ELSE "over"
           /\ pc[c] \in Untouched \union {"panicked"} => LoopPhase(c) = "idle"
  BY DEF LoopPhase, Untouched, PCs, Probing, Executing, Finished

(* The goroutine of c ends, or the process does.                           *)
LEMMA GoneLeaves ==
    ASSUME NEW c, pc'[c] = "idle", ctx'[c] = "live" PROVE LoopOf(c)!Leave
<1>1. LoopPhase(c)' = "idle"
  BY DEF LoopPhase
<1>2. InLoop(c)' = FALSE
  BY <1>1 DEF InLoop
<1> QED
  BY <1>1, <1>2 DEF LoopOf!Leave, LoopOf!Idle

(* What c does is a step of its loop, or none of it.                       *)
LEMMA OwnLoopStep ==
    ASSUME TypeOK, VerdictInv, NEW c \in Callers, CallerStep(c)
    PROVE  [LoopOf(c)!Next]_(LoopOf(c)!lvars)
<1>0. /\ ResultShape(c)
      /\ pc[c] \in PCs
      /\ job[c].steps \in Nat
      /\ result[c] \in Results
      /\ result[c].steps \in Seq(Verdicts)
      /\ Len(result[c].steps) \in Nat
  BY JobType DEF VerdictInv, TypeOK, Results
<1>a. CASE \/ Load(c) \/ GetPlanLock(c) \/ ProbeFree(c) \/ ProbeBusy(c)
           \/ ProbeRelease(c) \/ Rejected(c) \/ Acquire(c)
  <2>1. ctx'[c] = ctx[c] /\ pc[c] \in Untouched
    BY <1>a DEF Load, GetPlanLock, ProbeFree, ProbeBusy, ProbeRelease, Rejected,
                Acquire, Untouched, PCs, Probing, Executing, Finished
  <2>2. \/ pc'[c] \in Untouched
        \/ pc'[c] = "returned" /\ result'[c].cause = "busy"
    BY <1>a DEF Load, GetPlanLock, ProbeFree, ProbeBusy, ProbeRelease, Rejected,
                Acquire, Goto, Untouched, PCs, Probing, Executing, Finished, TypeOK
  <2>3. ~InLoop(c)
    BY <2>1, Phases DEF InLoop
  <2>4. LoopPhase(c)' = "idle"
    BY <2>2 DEF LoopPhase, Untouched, PCs, Probing, Executing, Finished
  <2> QED
    BY <2>1, <2>3, <2>4, NoLoopStutters DEF InLoop
<1>b. CASE Conflict(c) \/ Recovered(c) \/ Leave(c)
  <2>1. pc'[c] = "idle" /\ ctx'[c] = "live"
    BY <1>b DEF Conflict, Recovered, Leave, Exit, Goto, TypeOK
  <2> QED
    BY <2>1, GoneLeaves DEF LoopOf!Next
<1>c. CASE CountRunning(c)
  <2>1. /\ pc[c] = "locked" /\ pc'[c] = "loop"
        /\ job' = job /\ ctx' = ctx /\ result' = result
    BY <1>c DEF CountRunning, Goto, TypeOK
  <2>2. result[c] = NoResult /\ LoopPhase(c) = "idle"
    BY <1>0, <2>1, Phases DEF ResultShape, Untouched, PCs, Probing, Executing, Finished
  <2>3. LoopPhase(c)' = "loop" /\ InLoop(c)'
    BY <2>1 DEF LoopPhase, InLoop
  <2>4. LoopOf(c)!Start
    BY <1>0, <2>1, <2>2, <2>3 DEF LoopOf!Start, LoopOf!Fresh, NoResult
  <2> QED
    BY <2>4 DEF LoopOf!Next
<1>d. CASE StartStep(c)
  <2>1. /\ pc[c] = "loop" /\ pc'[c] = "step" /\ ctx[c] = "live"
        /\ Len(result[c].steps) < job[c].steps
        /\ job' = job /\ ctx' = ctx /\ result' = result
    BY <1>d DEF StartStep, Goto, TypeOK
  <2>2. LoopPhase(c) = "loop" /\ InLoop(c)
    BY <2>1 DEF LoopPhase, InLoop
  <2>3. LoopPhase(c)' = "step" /\ InLoop(c)'
    BY <2>1 DEF LoopPhase, InLoop
  <2>4. LoopOf(c)!BeginStep
    BY <2>1, <2>2, <2>3 DEF LoopOf!BeginStep
  <2> QED
    BY <2>4 DEF LoopOf!Next
<1>e. CASE StepReturns(c)
  <2>1. PICK verdict \in Verdicts :
          /\ result' = [result EXCEPT ![c] =
                [status |-> verdict,
                 cause  |-> IF verdict = "success" THEN "none" ELSE "step",
                 steps  |-> Append(@.steps, verdict)]]
          /\ Goto(c, IF c \in StreamReqs THEN "callback" ELSE AfterStep(c, verdict))
    BY <1>e DEF StepReturns
  <2>2. /\ pc[c] = "step" /\ job' = job /\ ctx' = ctx
        /\ result'[c].status = verdict
        /\ result'[c].cause \in {"none", "step"}
        /\ result'[c].steps = Append(result[c].steps, verdict)
        /\ pc'[c] \in {"callback", IF verdict = "success" THEN "loop" ELSE "finish"}
    BY <1>e, <2>1 DEF StepReturns, Goto, AfterStep, TypeOK
  <2>3. LoopPhase(c) = "step" /\ InLoop(c)
    BY <2>2 DEF LoopPhase, InLoop
  <2>4. LoopPhase(c)' = IF verdict = "success" THEN "loop" ELSE "over"
    BY <2>2 DEF LoopPhase
  <2>5. InLoop(c)'
    BY <2>4 DEF InLoop
  <2>6. LoopOf(c)!StepReturns(verdict)
    BY <2>2, <2>3, <2>4, <2>5 DEF LoopOf!StepReturns
  <2> QED
    BY <2>6 DEF LoopOf!Next, LoopOf!Verdicts, Verdicts
<1>f. CASE EventSent(c)
  <2>1. /\ pc[c] = "callback"
        /\ pc'[c] = IF result[c].status = "success" THEN "loop" ELSE "finish"
        /\ job' = job /\ ctx' = ctx /\ result' = result
        /\ result[c].cause \in {"none", "step"}
    BY <1>0, <1>f DEF EventSent, Goto, AfterStep, TypeOK, ResultShape
  <2>2. LoopPhase(c)' = LoopPhase(c)
    BY <2>1 DEF LoopPhase
  <2> QED
    BY <2>1, <2>2 DEF LoopOf!lvars, InLoop
<1>g. CASE AllStepsRun(c)
  <2>1. /\ pc[c] = "loop" /\ pc'[c] = "finish"
        /\ Len(result[c].steps) = job[c].steps
        /\ job' = job /\ ctx' = ctx /\ result' = result
        /\ result[c].cause = "none"
    BY <1>0, <1>g DEF AllStepsRun, Goto, TypeOK, ResultShape
  <2>2. LoopPhase(c) = "loop" /\ InLoop(c)
    BY <2>1 DEF LoopPhase, InLoop
  <2>3. LoopPhase(c)' = "over" /\ InLoop(c)'
    BY <2>1 DEF LoopPhase, InLoop
  <2>4. LoopOf(c)!Completes
    BY <2>1, <2>2, <2>3 DEF LoopOf!Completes
  <2> QED
    BY <2>4 DEF LoopOf!Next
<1>h. CASE ContextDone(c)
  <2>1. /\ pc[c] = "loop" /\ pc'[c] = "finish" /\ ctx[c] # "live"
        /\ Len(result[c].steps) < job[c].steps
        /\ job' = job /\ ctx' = ctx
        /\ result'[c] = [status |-> "timeout", cause |-> "context",
                         steps |-> result[c].steps]
    BY <1>h DEF ContextDone, Goto, TypeOK
  <2>2. LoopPhase(c) = "loop" /\ InLoop(c)
    BY <2>1 DEF LoopPhase, InLoop
  <2>3. LoopPhase(c)' = "over" /\ InLoop(c)'
    BY <2>1 DEF LoopPhase, InLoop
  <2>4. LoopOf(c)!Interrupted
    BY <2>1, <2>2, <2>3 DEF LoopOf!Interrupted
  <2> QED
    BY <2>4 DEF LoopOf!Next
<1>i. CASE StepPanics(c)
  <2>1. /\ pc'[c] = "finish" /\ ctx' = ctx /\ result'[c].cause = "panic"
    BY <1>i DEF StepPanics, Goto, TypeOK, Results
  <2>2. LoopPhase(c)' = "idle"
    BY <2>1 DEF LoopPhase
  <2>3. InLoop(c)' = FALSE
    BY <2>2 DEF InLoop
  <2>4. LoopOf(c)!Leave
    BY <2>1, <2>2, <2>3 DEF LoopOf!Leave, LoopOf!Idle
  <2> QED
    BY <2>4 DEF LoopOf!Next
<1>j. CASE UncountRunning(c) \/ Release(c)
  <2>1. /\ pc[c] \in {"finish", "unlock"}
        /\ pc'[c] \in {"unlock", "returned"}
              \union (IF result[c].cause = "panic" THEN {"panicked"} ELSE {})
        /\ job' = job /\ ctx' = ctx /\ result' = result
    BY <1>j DEF UncountRunning, Release, Goto, TypeOK
  <2>2. LoopPhase(c)' = LoopPhase(c)
    BY <2>1 DEF LoopPhase
  <2> QED
    BY <2>1, <2>2 DEF LoopOf!lvars, InLoop
<1>k. CASE DeadlineExpires(c) \/ ClientLeaves(c)
  <2>1. /\ ctx[c] = "live" /\ ctx'[c] # "live"
        /\ pc' = pc /\ job' = job /\ result' = result
    BY <1>k DEF DeadlineExpires, ClientLeaves, TypeOK
  <2>2. LoopPhase(c)' = LoopPhase(c)
    BY <2>1 DEF LoopPhase
  <2>3. InLoop(c)' = InLoop(c)
    BY <2>2 DEF InLoop
  <2>4. LoopOf(c)!ContextEnds
    BY <2>1, <2>2, <2>3 DEF LoopOf!ContextEnds
  <2> QED
    BY <2>4 DEF LoopOf!Next
<1> QED
  BY <1>a, <1>b, <1>c, <1>d, <1>e, <1>f, <1>g, <1>h, <1>i, <1>j, <1>k,
     CallerStep(c) DEF CallerStep, Advance

(* What another caller does leaves the loop of d alone.                    *)
LEMMA OthersLoop ==
    ASSUME TypeOK, NEW c \in Callers, NEW d \in Callers, c # d, CallerStep(c)
    PROVE  UNCHANGED <<pc[d], job[d], result[d], ctx[d]>>
  BY DEF CallerStep, Advance, Load, GetPlanLock, ProbeFree, ProbeBusy,
         ProbeRelease, Conflict, Rejected, Acquire, CountRunning, AllStepsRun,
         ContextDone, StartStep, UncountRunning, Release, Recovered, Leave,
         StepReturns, StepPanics, EventSent, DeadlineExpires, ClientLeaves,
         Goto, Exit, TypeOK

LEMMA LoopsStep ==
    TypeOK /\ VerdictInv /\ [Next]_vars
    => \A c \in Callers : [LoopOf(c)!Next]_(LoopOf(c)!lvars)
<1> SUFFICES ASSUME TypeOK, VerdictInv, [Next]_vars, NEW d \in Callers
             PROVE  [LoopOf(d)!Next]_(LoopOf(d)!lvars)
  OBVIOUS
<1>1. ASSUME NEW c \in Callers, CallerStep(c)
      PROVE  [LoopOf(d)!Next]_(LoopOf(d)!lvars)
  <2>1. CASE c = d
    BY <1>1, <2>1, OwnLoopStep
  <2>2. CASE c # d
    BY <1>1, <2>2, OthersLoop, LoopStutters
  <2> QED
    BY <2>1, <2>2
<1>2. CASE Restart
  <2>1. pc'[d] = "idle" /\ ctx'[d] = "live"
    BY <1>2 DEF Restart
  <2> QED
    BY <2>1, GoneLeaves DEF LoopOf!Next
<1>3. CASE UNCHANGED vars
  BY <1>3, LoopStutters DEF vars
<1> QED
  BY <1>1, <1>2, <1>3 DEF Next

(* Each caller's run of Execute is a run of the step loop, whatever the    *)
(* steps are, whoever else runs and wherever the context ends or the       *)
(* process dies.  StepsProofs has the same of the executors: both sides of *)
(* executeStep keep to one specification.                                  *)
THEOREM StepLoopOfEachCaller == Spec => ImplementsStepLoop
<1>1. RunnerInv => TypeOK /\ VerdictInv
  BY DEF RunnerInv
<1> QED
  BY <1>1, RunnerInvHolds, LoopsInit, LoopsStep, PTL DEF Spec, ImplementsStepLoop

-----------------------------------------------------------------------------

(***************************************************************************)
(* Execution is Runner with a tail.                                        *)
(***************************************************************************)
LEMMA RunnerStep == [ExecNext]_allVars => [Next]_vars
<1> SUFFICES ASSUME [ExecNext]_allVars PROVE [Next]_vars
  OBVIOUS
<1>1. CASE UNCHANGED allVars
  BY <1>1 DEF allVars
<1>2. CASE Reboot
  BY <1>2 DEF Reboot, Next
<1>3. ASSUME NEW c \in Callers,
             \/ Begin(c) \/ Silent(c) \/ StepEnds(c) \/ Panics(c) \/ Flushed(c)
             \/ ContextEnds(c) \/ ExecuteReturns(c) \/ Answers500(c)
      PROVE  Next
  <2>1. CallerStep(c)
    BY <1>3 DEF Begin, Silent, StepEnds, Panics, Flushed, ContextEnds,
                ExecuteReturns, Answers500, CallerStep, Advance
  <2> QED
    BY <2>1 DEF Next
<1>4. ASSUME NEW c \in Callers, JobOver(c) \/ Replies(c) \/ DoneSent(c)
      PROVE  Next
  <2>1. CallerStep(c)
    BY <1>4 DEF JobOver, Replies, DoneSent, Quit, CallerStep, Advance
  <2> QED
    BY <2>1 DEF Next
<1>5. ASSUME NEW c \in Callers,
             \/ TrimResultsIfNeeded(c) \/ Store(c) \/ StoreFails(c)
             \/ RecordPlanExecution(c)
      PROVE  UNCHANGED vars
  BY <1>5 DEF TrimResultsIfNeeded, Store, StoreFails, RecordPlanExecution
<1> QED
  BY <1>1, <1>2, <1>3, <1>4, <1>5 DEF ExecNext, Proceeds

(* Whatever the callers do after Execute, the locking protocol, the gauge  *)
(* and the verdicts are those of Runner: every theorem above this one      *)
(* holds of Execution as well.                                             *)
THEOREM ImplementsRunner == ExecSpec => Spec
<1>1. ExecInit => Init
  BY DEF ExecInit
<1> QED
  BY <1>1, RunnerStep, PTL DEF ExecSpec, Spec

-----------------------------------------------------------------------------
(***************************************************************************)
(* The log.                                                                *)
(***************************************************************************)
Held(c) == pc[c] = "returned" /\ report[c].stage \in {"none", "trimmed"}

(* A caller that has not returned yet has nothing to report; one that has  *)
(* knows the place of its run.                                             *)
ReportRight(c) ==
    /\ pc[c] # "returned" => report[c].stage = "none"
    /\ pc[c] = "returned" =>
          /\ report[c].run \in DOMAIN ended
          /\ ended[report[c].run].plan = job[c].plan
          /\ ended[report[c].run].status = result[c].status
          /\ report[c].trimmed /\ report[c].stage # "none" =>
                result[c].status = "success"

RowRight(r) ==
    /\ r.run \in DOMAIN ended
    /\ r.plan = ended[r.run].plan /\ r.status = ended[r.run].status
    /\ ~r.full => r.status = "success"

HeldOnce ==
    \A c, d \in Callers : Held(c) /\ Held(d) /\ report[c].run = report[d].run => c = d

HeldFresh ==
    \A c \in Callers : Held(c) =>
        report[c].run \notin lost /\ \A r \in rows : r.run # report[c].run

RowsOnce == \A r, q \in rows : r.run = q.run => r = q

RowsKept == \A r \in rows : r.run \notin lost

AllAccounted ==
    \A i \in DOMAIN ended :
        \/ i \in lost
        \/ \E r \in rows : r.run = i
        \/ \E c \in Callers : Held(c) /\ report[c].run = i

TailType ==
    /\ report \in [Callers -> Report]
    /\ rows \subseteq LogRow
    /\ ended \in Seq(Returned)
    /\ lost \subseteq DOMAIN ended

(* LoggedOnce, strengthened by what the callers hold.                      *)
LogInv ==
    /\ TailType
    /\ \A c \in Callers : ReportRight(c)
    /\ \A r \in rows : RowRight(r)
    /\ HeldOnce /\ HeldFresh /\ RowsOnce /\ RowsKept /\ AllAccounted

LEMMA LogInvSuffices == LogInv => LoggedOnce
<1> SUFFICES ASSUME LogInv PROVE LoggedOnce
  OBVIOUS
<1>1. ASSUME NEW r \in rows
      PROVE  /\ r.run \in DOMAIN ended
             /\ r.plan = ended[r.run].plan /\ r.status = ended[r.run].status
             /\ ~r.full => r.status = "success"
             /\ \A q \in rows : q.run = r.run => q = r
  BY DEF LogInv, RowRight, RowsOnce
<1>2. ASSUME NEW i \in DOMAIN ended
      PROVE  LET stored == \E r \in rows : r.run = i
                 held   == {c \in Unstored : report[c].run = i}
             IN  /\ Cardinality(held) <= 1
                 /\ stored => held = {} /\ i \notin lost
                 /\ i \in lost => held = {}
                 /\ held = {} => stored \/ i \in lost
  <2> DEFINE held == {c \in Unstored : report[c].run = i}
  <2>1. \A c \in held : c \in Callers /\ Held(c) /\ report[c].run = i
    BY DEF Unstored, At, Held
  <2>2. \A c \in Callers : Held(c) /\ report[c].run = i => c \in held
    BY DEF Unstored, At, Held
  <2>3. Cardinality(held) <= 1
    <3>1. CASE held = {}
      BY <3>1, FS_EmptySet
    <3>2. CASE held # {}
      <4>1. PICK c : c \in held
        BY <3>2
      <4>2. held = {c}
        BY <4>1, <2>1 DEF LogInv, HeldOnce
      <4>3. Cardinality({c}) = 1
        BY FS_Singleton
      <4> QED
        BY <4>2, <4>3
    <3> QED
      BY <3>1, <3>2
  <2>4. (\E r \in rows : r.run = i) => held = {} /\ i \notin lost
    BY <2>1 DEF LogInv, HeldFresh, RowsKept
  <2>5. i \in lost => held = {}
    BY <2>1 DEF LogInv, HeldFresh
  <2>6. held = {} => (\E r \in rows : r.run = i) \/ i \in lost
    BY <2>2 DEF LogInv, AllAccounted
  <2> QED
    BY <2>3, <2>4, <2>5, <2>6
<1> QED
  BY <1>1, <1>2 DEF LoggedOnce

LEMMA NoReportType == NoReport \in Report
  BY DEF NoReport, Report, Stages

LEMMA LogInvInit == ExecInit => LogInv
  BY NoReportType
  DEF ExecInit, Init, LogInv, TailType, ReportRight, NoReport, RowRight, Held,
      HeldOnce, HeldFresh, RowsOnce, RowsKept, AllAccounted

(* Steps that leave alone what has returned, the table and the losses.     *)
LEMMA LogFrame ==
  ASSUME LogInv, report' \in [Callers -> Report], UNCHANGED <<rows, ended, lost>>,
         ASSUME NEW d \in Callers
         PROVE  /\ (pc'[d] = "returned") <=> (pc[d] = "returned")
                /\ pc'[d] # "returned" => report'[d].stage = "none"
                /\ pc[d] = "returned" =>
                      /\ job'[d] = job[d] /\ result'[d] = result[d]
                      /\ report'[d].run = report[d].run
                      /\ report'[d].trimmed = report[d].trimmed
                      /\ report[d].stage = "none" <=> report'[d].stage = "none"
                      /\ report[d].stage \in {"none", "trimmed"}
                            <=> report'[d].stage \in {"none", "trimmed"}
  PROVE  LogInv'
<1>1. \A d \in Callers : ReportRight(d)'
  BY DEF LogInv, ReportRight
<1>2. \A d \in Callers : /\ Held(d)' <=> Held(d)
                         /\ Held(d) => report'[d].run = report[d].run
  BY DEF Held
<1>3. TailType'
  BY DEF LogInv, TailType
<1>4. \A r \in rows' : RowRight(r)'
  BY DEF LogInv, RowRight
<1>5. HeldOnce' /\ HeldFresh'
  BY <1>2 DEF LogInv, HeldOnce, HeldFresh
<1>6. RowsOnce' /\ RowsKept'
  BY DEF LogInv, RowsOnce, RowsKept
<1>7. AllAccounted'
  BY <1>2 DEF LogInv, AllAccounted
<1> QED
  BY <1>1, <1>3, <1>4, <1>5, <1>6, <1>7 DEF LogInv

(* Runner's steps before and after a run neither let a run return nor      *)
(* touch one that has.                                                     *)
LEMMA Untouching ==
  ASSUME TypeOK, NEW c \in Callers,
         \/ Load(c) \/ GetPlanLock(c) \/ ProbeFree(c) \/ ProbeBusy(c) \/ ProbeRelease(c)
         \/ Acquire(c) \/ CountRunning(c) \/ AllStepsRun(c) \/ ContextDone(c)
         \/ StartStep(c) \/ UncountRunning(c) \/ Conflict(c) \/ StepReturns(c)
         \/ StepPanics(c) \/ EventSent(c) \/ DeadlineExpires(c) \/ ClientLeaves(c)
         \/ Recovered(c)
  PROVE  \A d \in Callers :
            /\ (pc'[d] = "returned") <=> (pc[d] = "returned")
            /\ pc[d] = "returned" => job'[d] = job[d] /\ result'[d] = result[d]
<1> USE DEF TypeOK, Goto, Exit
<1>1. CASE Load(c)
  BY <1>1 DEF Load
<1>2. CASE GetPlanLock(c)
  BY <1>2 DEF GetPlanLock
<1>3. CASE ProbeFree(c) \/ ProbeBusy(c) \/ ProbeRelease(c)
  BY <1>3 DEF ProbeFree, ProbeBusy, ProbeRelease
<1>4. CASE Acquire(c) \/ CountRunning(c) \/ AllStepsRun(c)
  BY <1>4 DEF Acquire, CountRunning, AllStepsRun
<1>5. CASE ContextDone(c)
  BY <1>5 DEF ContextDone
<1>6. CASE StartStep(c) \/ UncountRunning(c) \/ Conflict(c)
  BY <1>6 DEF StartStep, UncountRunning, Conflict
<1>7. CASE StepReturns(c)
  BY <1>7 DEF StepReturns, AfterStep
<1>8. CASE StepPanics(c)
  BY <1>8 DEF StepPanics
<1>9. CASE EventSent(c)
  BY <1>9 DEF EventSent, AfterStep
<1>10. CASE DeadlineExpires(c)
  BY <1>10 DEF DeadlineExpires
<1>11. CASE ClientLeaves(c)
  BY <1>11 DEF ClientLeaves
<1>12. CASE Recovered(c)
  BY <1>12 DEF Recovered
<1> QED
  BY <1>1, <1>2, <1>3, <1>4, <1>5, <1>6, <1>7, <1>8, <1>9, <1>10, <1>11, <1>12

(* Nor do they report anything for a run that has returned.                *)
LEMMA ReportUntouched ==
  ASSUME TypeOK, LogInv, NEW c \in Callers,
         Begin(c) \/ Silent(c) \/ StepEnds(c) \/ Panics(c) \/ Flushed(c)
         \/ ContextEnds(c) \/ Answers500(c)
  PROVE  /\ UNCHANGED <<rows, ended, lost, metrics, boot>>
         /\ report' \in [Callers -> Report]
         /\ \A d \in Callers :
               /\ (pc'[d] = "returned") <=> (pc[d] = "returned")
               /\ pc[d] = "returned" => job'[d] = job[d] /\ result'[d] = result[d]
               /\ pc[d] # "returned" => report'[d].stage = "none"
               /\ pc[d] = "returned" => report'[d] = report[d]
<1>1. /\ UNCHANGED <<rows, ended, lost, metrics, boot>>
      /\ \A d \in Callers :
            /\ (pc'[d] = "returned") <=> (pc[d] = "returned")
            /\ pc[d] = "returned" => job'[d] = job[d] /\ result'[d] = result[d]
  <2>1. CASE \/ Begin(c) \/ Silent(c) \/ Panics(c) \/ Flushed(c) \/ ContextEnds(c)
             \/ Answers500(c)
    BY <2>1, Untouching
    DEF Begin, Silent, Panics, Flushed, ContextEnds, Answers500, tailVars
  <2>2. CASE StepEnds(c)
    BY <2>2, Untouching DEF StepEnds
  <2> QED
    BY <2>1, <2>2
<1>2. report \in [Callers -> Report] /\ \A d \in Callers : ReportRight(d)
  BY DEF LogInv, TailType
<1>3. /\ report' \in [Callers -> Report]
      /\ \A d \in Callers :
            /\ pc[d] # "returned" => report'[d].stage = "none"
            /\ pc[d] = "returned" => report'[d] = report[d]
  <2>1. CASE \/ Begin(c) \/ Silent(c) \/ Panics(c) \/ Flushed(c) \/ ContextEnds(c)
    <3>1. report' = report
      BY <2>1 DEF Begin, Silent, Panics, Flushed, ContextEnds, tailVars
    <3> QED
      BY <3>1, <1>2 DEF ReportRight
  <2>2. CASE Answers500(c)
    <3>1. report' = [report EXCEPT ![c] = NoReport] /\ pc[c] # "returned"
      BY <2>2 DEF Answers500, Reports, Recovered
    <3> QED
      BY <3>1, <1>2, NoReportType DEF ReportRight, NoReport
  <2>3. CASE StepEnds(c)
    <3>1. PICK n \in {0, 1} : report' = [report EXCEPT ![c] = [report[c] EXCEPT !.got = @ + n]]
      BY <2>3 DEF StepEnds, Reports, Responses
    <3>2. [report[c] EXCEPT !.got = @ + n] \in Report
      BY <1>2 DEF Report
    <3>3. [report[c] EXCEPT !.got = @ + n].stage = report[c].stage
      BY <1>2 DEF Report
    <3>4. pc[c] # "returned"
      BY <2>3 DEF StepEnds, StepReturns
    <3> QED
      BY <3>1, <3>2, <3>3, <3>4, <1>2 DEF ReportRight
  <2> QED
    BY <2>1, <2>2, <2>3
<1> QED
  BY <1>1, <1>3

LEMMA LogUntouched ==
  ASSUME TypeOK, LogInv, NEW c \in Callers,
         Begin(c) \/ Silent(c) \/ StepEnds(c) \/ Panics(c) \/ Flushed(c)
         \/ ContextEnds(c) \/ Answers500(c)
  PROVE  LogInv'
  BY ReportUntouched, LogFrame

(* A run returns: it gets the next place, and its caller holds it.         *)
LEMMA LogReturns ==
  ASSUME TypeOK, LogInv, NEW c \in Callers, ExecuteReturns(c)
  PROVE  LogInv'
<1>0. /\ UNCHANGED <<rows, lost, job>>
      /\ pc[c] # "returned" /\ pc' = [pc EXCEPT ![c] = pc'[c]]
      /\ \A d \in Callers \ {c} : result'[d] = result[d]
  BY DEF ExecuteReturns, Release, Rejected, Goto, TypeOK
<1>1. CASE pc'[c] # "returned"
  <2>1. UNCHANGED <<ended, report>>
    BY <1>1 DEF ExecuteReturns
  <2>2. \A d \in Callers : /\ (pc'[d] = "returned") <=> (pc[d] = "returned")
                           /\ pc[d] = "returned" => result'[d] = result[d]
    BY <1>0, <1>1 DEF TypeOK
  <2> QED
    BY <1>0, <2>1, <2>2, LogFrame DEF LogInv, TailType, ReportRight
<1>2. CASE pc'[c] = "returned"
  <2> DEFINE n == Len(ended) + 1
  <2>1. PICK e \in Returned : /\ ended' = Append(ended, e)
                             /\ e.plan = job[c].plan /\ e.status = result'[c].status
    <3>1. result'[c] \in Results /\ job[c].plan \in Plans
      <4>1. TypeOK'
        BY TypeStep DEF ExecuteReturns, Advance, CallerStep, Next
      <4> QED
        BY <4>1, JobType DEF TypeOK
    <3>2. result'[c].status \in Verdicts /\ result'[c].cause \in Causes
      BY <3>1 DEF Results
    <3>3. [plan |-> job[c].plan, status |-> result'[c].status,
           cause |-> result'[c].cause, cron |-> c \in CronJobs] \in Returned
      BY <3>1, <3>2 DEF Returned
    <3> QED
      BY <1>2, <3>3 DEF ExecuteReturns
  <2>2. /\ report' = [report EXCEPT ![c] = [report[c] EXCEPT !.run = n]]
        /\ report[c] \in Report /\ report[c].stage = "none" /\ n \in Nat
    BY <1>0, <1>2 DEF ExecuteReturns, Reports, LogInv, TailType, ReportRight
  <2>3. /\ report' \in [Callers -> Report]
        /\ report'[c].run = n /\ report'[c].stage = "none"
        /\ \A d \in Callers \ {c} : report'[d] = report[d]
    <3>1. [report[c] EXCEPT !.run = n] \in Report
      BY <2>2 DEF Report
    <3>2. [report[c] EXCEPT !.run = n].stage = "none" /\ [report[c] EXCEPT !.run = n].run = n
      BY <2>2 DEF Report
    <3> QED
      BY <2>2, <3>1, <3>2 DEF LogInv, TailType
  <2>4. /\ ended' \in Seq(Returned) /\ DOMAIN ended = 1..(n - 1) /\ DOMAIN ended' = 1..n
        /\ ended'[n] = e /\ \A i \in DOMAIN ended : ended'[i] = ended[i]
    BY <2>1, <2>2 DEF LogInv, TailType
  <2>5. n \notin lost /\ \A r \in rows : r.run # n
    BY <2>4, <2>2 DEF LogInv, TailType, RowRight
  <2>6. \A d \in Callers : /\ Held(d)' <=> Held(d) \/ d = c
                           /\ Held(d) => d # c /\ report'[d] = report[d]
                           /\ Held(d) => report[d].run \in 1..(n - 1)
    BY <1>0, <1>2, <2>3, <2>4 DEF Held, LogInv, ReportRight, TypeOK
  <2>7. TailType'
    BY <1>0, <2>3, <2>4 DEF LogInv, TailType
  <2>8. ASSUME NEW d \in Callers PROVE ReportRight(d)'
    <3>1. CASE d = c
      BY <3>1, <1>0, <1>2, <2>1, <2>3, <2>4 DEF ReportRight
    <3>2. CASE d # c
      <4>1. (pc'[d] = "returned") <=> (pc[d] = "returned")
        BY <3>2, <1>0 DEF TypeOK
      <4>2. job'[d] = job[d] /\ result'[d] = result[d]
        BY <3>2, <1>0 DEF TypeOK
      <4>3. report'[d] = report[d] /\ ReportRight(d)
        BY <3>2, <2>3 DEF LogInv
      <4>4. report[d].run \in DOMAIN ended =>
              /\ report[d].run \in DOMAIN ended'
              /\ ended'[report[d].run] = ended[report[d].run]
        BY <2>2, <2>4
      <4> QED
        BY <4>1, <4>2, <4>3, <4>4 DEF ReportRight
    <3> QED
      BY <3>1, <3>2
  <2>9. \A r \in rows' : RowRight(r)'
    BY <1>0, <2>4 DEF LogInv, RowRight
  <2>10. HeldOnce'
    BY <2>3, <2>6 DEF LogInv, HeldOnce
  <2>11. HeldFresh'
    BY <1>0, <2>3, <2>5, <2>6 DEF LogInv, HeldFresh
  <2>12. RowsOnce' /\ RowsKept'
    BY <1>0 DEF LogInv, RowsOnce, RowsKept
  <2>13. AllAccounted'
    BY <1>0, <2>3, <2>4, <2>6 DEF LogInv, AllAccounted
  <2> QED
    BY <2>7, <2>8, <2>9, <2>10, <2>11, <2>12, <2>13 DEF LogInv
<1> QED
  BY <1>1, <1>2

(* The result is trimmed: only a success is.                               *)
LEMMA LogTrims ==
  ASSUME LogInv, NEW c \in Callers, TrimResultsIfNeeded(c)
  PROVE  LogInv'
<1>1. PICK t \in Trimmable(c) :
         report' = [report EXCEPT ![c] =
                      [report[c] EXCEPT !.stage = "trimmed", !.trimmed = t]]
  BY DEF TrimResultsIfNeeded, Reports
<1>2. /\ t \in BOOLEAN /\ (t => result[c].status = "success")
      /\ pc[c] = "returned" /\ report[c].stage = "none"
      /\ UNCHANGED <<pc, job, result, rows, ended, lost>>
  BY DEF Trimmable, TrimResultsIfNeeded, At, vars
<1>3. /\ report' \in [Callers -> Report]
      /\ report'[c].run = report[c].run /\ report'[c].stage = "trimmed"
      /\ report'[c].trimmed = t
      /\ \A d \in Callers \ {c} : report'[d] = report[d]
  <2> DEFINE new == [report[c] EXCEPT !.stage = "trimmed", !.trimmed = t]
  <2>1. report \in [Callers -> Report]
    BY DEF LogInv, TailType
  <2>2. /\ new \in Report /\ new.run = report[c].run /\ new.stage = "trimmed"
        /\ new.trimmed = t
    BY <2>1, <1>2 DEF Report, Stages
  <2> QED
    BY <1>1, <2>1, <2>2
<1>4. \A d \in Callers : /\ Held(d)' <=> Held(d)
                         /\ report'[d].run = report[d].run
  BY <1>2, <1>3 DEF Held
<1>5. TailType'
  BY <1>2, <1>3 DEF LogInv, TailType
<1>6. \A d \in Callers : ReportRight(d)'
  BY <1>2, <1>3 DEF LogInv, ReportRight
<1>7. (\A r \in rows' : RowRight(r)') /\ RowsOnce' /\ RowsKept'
  BY <1>2 DEF LogInv, RowRight, RowsOnce, RowsKept
<1>8. HeldOnce' /\ HeldFresh' /\ AllAccounted'
  BY <1>2, <1>4 DEF LogInv, HeldOnce, HeldFresh, AllAccounted
<1> QED
  BY <1>5, <1>6, <1>7, <1>8 DEF LogInv

(* The caller of a held run moves on to another stage, and what was held   *)
(* is now stored or lost.                                                  *)
LEMMA StageType ==
  ASSUME TailType, NEW c \in Callers, NEW stage \in Stages, Stage(c, stage)
  PROVE  /\ report' \in [Callers -> Report]
         /\ report'[c].stage = stage /\ report'[c].run = report[c].run
         /\ report'[c].trimmed = report[c].trimmed
         /\ \A d \in Callers \ {c} : report'[d] = report[d]
<1> DEFINE new == [report[c] EXCEPT !.stage = stage]
<1>1. report' = [report EXCEPT ![c] = new] /\ report \in [Callers -> Report]
  BY DEF TailType, Stage, Reports
<1>2. /\ new \in Report /\ new.stage = stage /\ new.run = report[c].run
      /\ new.trimmed = report[c].trimmed
  BY <1>1 DEF Report
<1> QED
  BY <1>1, <1>2

(* The row is new, right, and the only one of its run.                     *)
LEMMA LogStores ==
  ASSUME TypeOK, LogInv, NEW c \in Callers, Store(c)
  PROVE  LogInv'
<1> DEFINE i == report[c].run
<1>1. /\ UNCHANGED <<pc, job, result, ended, lost>> /\ Held(c)
      /\ pc[c] = "returned" /\ report[c].stage = "trimmed"
  BY DEF Store, At, Held, vars
<1>2. /\ report' \in [Callers -> Report]
      /\ report'[c].stage = "saved" /\ report'[c].run = i
      /\ report'[c].trimmed = report[c].trimmed
      /\ \A d \in Callers \ {c} : report'[d] = report[d]
  BY StageType DEF Store, LogInv, Stages
<1>3. PICK row \in LogRow :
         /\ rows' = rows \union {row} /\ row.run = i /\ row.plan = job[c].plan
         /\ row.status = result[c].status /\ row.full = ~report[c].trimmed
  <2>1. /\ report[c] \in Report /\ job[c].plan \in Plans /\ result[c] \in Results
    BY JobType DEF LogInv, TailType, TypeOK
  <2>2. i \in Nat /\ report[c].trimmed \in BOOLEAN /\ result[c].status \in Verdicts
    BY <2>1 DEF Report, Results
  <2>3. [run |-> i, plan |-> job[c].plan, status |-> result[c].status,
         full |-> ~report[c].trimmed] \in LogRow
    BY <2>1, <2>2 DEF LogRow
  <2> QED
    BY <2>3 DEF Store
<1>4. i \in DOMAIN ended /\ i \notin lost /\ \A r \in rows : r.run # i
  BY <1>1 DEF LogInv, ReportRight, HeldFresh
<1>5. RowRight(row)
  BY <1>1, <1>3, <1>4 DEF LogInv, ReportRight, RowRight
<1>6. \A d \in Callers : /\ Held(d)' <=> Held(d) /\ d # c
                         /\ report'[d].run = report[d].run
                         /\ Held(d)' => report[d].run # i
  BY <1>1, <1>2 DEF Held, LogInv, HeldOnce
<1>7. TailType'
  BY <1>1, <1>2, <1>3 DEF LogInv, TailType
<1>8. \A d \in Callers : ReportRight(d)'
  BY <1>1, <1>2 DEF LogInv, ReportRight
<1>9. \A r \in rows' : RowRight(r)'
  BY <1>1, <1>3, <1>5 DEF LogInv, RowRight
<1>10. HeldOnce' /\ HeldFresh'
  BY <1>1, <1>3, <1>6 DEF LogInv, HeldOnce, HeldFresh
<1>11. RowsOnce' /\ RowsKept'
  BY <1>1, <1>3, <1>4 DEF LogInv, RowsOnce, RowsKept
<1>12. AllAccounted'
  BY <1>1, <1>3, <1>6 DEF LogInv, AllAccounted
<1> QED
  BY <1>7, <1>8, <1>9, <1>10, <1>11, <1>12 DEF LogInv

LEMMA LogLoses ==
  ASSUME LogInv, NEW c \in Callers, StoreFails(c)
  PROVE  LogInv'
<1> DEFINE i == report[c].run
<1>1. /\ UNCHANGED <<pc, job, result, rows, ended>> /\ Held(c)
      /\ pc[c] = "returned" /\ report[c].stage = "trimmed"
      /\ lost' = lost \union {i}
  BY DEF StoreFails, At, Held, vars
<1>2. /\ report' \in [Callers -> Report]
      /\ report'[c].stage = "unsaved" /\ report'[c].run = i
      /\ report'[c].trimmed = report[c].trimmed
      /\ \A d \in Callers \ {c} : report'[d] = report[d]
  BY StageType DEF StoreFails, LogInv, Stages
<1>3. i \in DOMAIN ended /\ \A r \in rows : r.run # i
  BY <1>1 DEF LogInv, ReportRight, HeldFresh
<1>4. \A d \in Callers : /\ Held(d)' <=> Held(d) /\ d # c
                         /\ report'[d].run = report[d].run
                         /\ Held(d)' => report[d].run # i
  BY <1>1, <1>2 DEF Held, LogInv, HeldOnce
<1>5. TailType'
  BY <1>1, <1>2, <1>3 DEF LogInv, TailType
<1>6. \A d \in Callers : ReportRight(d)'
  BY <1>1, <1>2 DEF LogInv, ReportRight
<1>7. \A r \in rows' : RowRight(r)'
  BY <1>1 DEF LogInv, RowRight
<1>8. HeldOnce' /\ HeldFresh'
  BY <1>1, <1>4 DEF LogInv, HeldOnce, HeldFresh
<1>9. RowsOnce' /\ RowsKept'
  BY <1>1, <1>3 DEF LogInv, RowsOnce, RowsKept
<1>10. AllAccounted'
  BY <1>1, <1>4 DEF LogInv, AllAccounted
<1> QED
  BY <1>5, <1>6, <1>7, <1>8, <1>9, <1>10 DEF LogInv

LEMMA LogRecords ==
  ASSUME LogInv, NEW c \in Callers, RecordPlanExecution(c)
  PROVE  LogInv'
<1>1. /\ UNCHANGED <<pc, job, result, rows, ended, lost>>
      /\ pc[c] = "returned" /\ report[c].stage \in {"saved", "unsaved"}
  BY DEF RecordPlanExecution, At, vars
<1>2. /\ report' \in [Callers -> Report]
      /\ report'[c].stage = "counted" /\ report'[c].run = report[c].run
      /\ report'[c].trimmed = report[c].trimmed
      /\ \A d \in Callers \ {c} : report'[d] = report[d]
  BY StageType DEF RecordPlanExecution, LogInv, Stages
<1>3. \A d \in Callers : ReportRight(d)
  BY DEF LogInv
<1> QED
  BY <1>1, <1>2, <1>3, LogFrame DEF ReportRight

(* The caller goes away only when it holds nothing any more.               *)
LEMMA LogQuits ==
  ASSUME TypeOK, LogInv, NEW c \in Callers, Quit(c), ~Held(c)
  PROVE  LogInv'
<1>1. /\ UNCHANGED <<rows, ended, lost>>
      /\ pc' = [pc EXCEPT ![c] = "idle"] /\ report' = [report EXCEPT ![c] = NoReport]
      /\ \A d \in Callers \ {c} : job'[d] = job[d] /\ result'[d] = result[d]
  BY DEF Quit, Reports, Leave, Exit, Goto, TypeOK
<1>2. /\ pc'[c] = "idle" /\ report'[c] = NoReport /\ report' \in [Callers -> Report]
      /\ \A d \in Callers \ {c} : pc'[d] = pc[d] /\ report'[d] = report[d]
  BY <1>1, NoReportType DEF TypeOK, LogInv, TailType
<1>3. \A d \in Callers : /\ Held(d)' <=> Held(d)
                         /\ Held(d) => report'[d].run = report[d].run
  BY <1>2 DEF Held
<1>4. TailType'
  BY <1>1, <1>2 DEF LogInv, TailType
<1>5. \A d \in Callers : ReportRight(d)'
  BY <1>1, <1>2 DEF LogInv, ReportRight, NoReport
<1>6. (\A r \in rows' : RowRight(r)') /\ RowsOnce' /\ RowsKept'
  BY <1>1 DEF LogInv, RowRight, RowsOnce, RowsKept
<1>7. HeldOnce' /\ HeldFresh' /\ AllAccounted'
  BY <1>1, <1>3 DEF LogInv, HeldOnce, HeldFresh, AllAccounted
<1> QED
  BY <1>4, <1>5, <1>6, <1>7 DEF LogInv

(* A crash loses exactly what was held.                                    *)
LEMMA LogReboots ==
  ASSUME LogInv, Reboot
  PROVE  LogInv'
<1>1. /\ UNCHANGED <<rows, ended>>
      /\ lost' = lost \union {report[c].run : c \in Unstored}
      /\ \A c \in Callers : pc'[c] = "idle" /\ report'[c] = NoReport
      /\ report' \in [Callers -> Report]
  BY NoReportType DEF Reboot, Restart
<1>2. \A c \in Callers : c \in Unstored <=> Held(c)
  BY DEF Unstored, At, Held
<1>3. \A c \in Callers : ~Held(c)'
  BY <1>1 DEF Held
<1>4. \A c \in Unstored : c \in Callers
  BY DEF Unstored
<1>5. TailType'
  <2>1. \A c \in Unstored : report[c].run \in DOMAIN ended
    BY <1>2, <1>4 DEF LogInv, ReportRight, Held
  <2> QED
    BY <1>1, <2>1 DEF LogInv, TailType
<1>6. \A c \in Callers : ReportRight(c)'
  BY <1>1 DEF ReportRight, NoReport
<1>7. (\A r \in rows' : RowRight(r)') /\ RowsOnce'
  BY <1>1 DEF LogInv, RowRight, RowsOnce
<1>8. RowsKept'
  BY <1>1, <1>2, <1>4 DEF LogInv, RowsKept, HeldFresh
<1>9. HeldOnce' /\ HeldFresh'
  BY <1>3 DEF HeldOnce, HeldFresh
<1>10. AllAccounted'
  BY <1>1, <1>2, <1>4 DEF LogInv, AllAccounted
<1> QED
  BY <1>5, <1>6, <1>7, <1>8, <1>9, <1>10 DEF LogInv

LEMMA LogStep == TypeOK /\ LogInv /\ [ExecNext]_allVars => LogInv'
<1> SUFFICES ASSUME TypeOK, LogInv, [ExecNext]_allVars PROVE LogInv'
  OBVIOUS
<1>1. CASE Reboot
  BY <1>1, LogReboots
<1>2. CASE UNCHANGED allVars
  BY <1>2 DEF allVars, vars, tailVars, LogInv, TailType, ReportRight, RowRight, Held,
              HeldOnce, HeldFresh, RowsOnce, RowsKept, AllAccounted
<1>3. ASSUME NEW c \in Callers,
             \/ Begin(c) \/ Silent(c) \/ StepEnds(c) \/ Panics(c) \/ Flushed(c)
             \/ ContextEnds(c) \/ Answers500(c)
      PROVE  LogInv'
  BY <1>3, LogUntouched
<1>4. ASSUME NEW c \in Callers, ExecuteReturns(c) PROVE LogInv'
  BY <1>4, LogReturns
<1>5. ASSUME NEW c \in Callers, TrimResultsIfNeeded(c) PROVE LogInv'
  BY <1>5, LogTrims
<1>6. ASSUME NEW c \in Callers, Store(c) PROVE LogInv'
  BY <1>6, LogStores
<1>7. ASSUME NEW c \in Callers, StoreFails(c) PROVE LogInv'
  BY <1>7, LogLoses
<1>8. ASSUME NEW c \in Callers, RecordPlanExecution(c) PROVE LogInv'
  BY <1>8, LogRecords
<1>9. ASSUME NEW c \in Callers, JobOver(c) \/ Replies(c) \/ DoneSent(c) PROVE LogInv'
  <2>1. Quit(c) /\ ~Held(c)
    BY <1>9 DEF JobOver, Replies, DoneSent, At, Held
  <2> QED
    BY <2>1, LogQuits
<1> QED
  BY <1>1, <1>2, <1>3, <1>4, <1>5, <1>6, <1>7, <1>8, <1>9 DEF ExecNext, Proceeds

(* Every run that Execute has returned has one row, or will have it from   *)
(* the one caller that holds its result, or has lost it to a failed INSERT *)
(* or a crash; and the row says what the run said.                         *)
THEOREM EachRunLoggedOnce == ExecSpec => []LoggedOnce
<1>1. ExecSpec => []TypeOK
  BY ImplementsRunner, TypeCorrect, PTL
<1> QED
  BY <1>1, LogInvInit, LogStep, LogInvSuffices, PTL DEF ExecSpec

-----------------------------------------------------------------------------
(***************************************************************************)
(* The metrics.                                                            *)
(***************************************************************************)
(* The cron runs of this process with a verdict, and the jobs whose run is *)
(* among them and has not been counted yet.                                *)
Ran(p, v) ==
    {i \in (boot + 1)..Len(ended) :
        ended[i].cron /\ ended[i].plan = p /\ ended[i].status = v}
Uncounted(p, v) ==
    {c \in CronJobs : /\ pc[c] = "returned" /\ report[c].stage # "counted"
                      /\ job[c].plan = p /\ result[c].status = v}

MetricsType ==
    /\ metrics.up \in [Plans -> {"unset", "0", "1"}]
    /\ metrics.total \in [Plans -> [Verdicts -> Nat]]
    /\ metrics.responses \in [Plans -> Nat]
    /\ boot \in 0..Len(ended)

CountInv == MetricsType /\ CountsExact

LEMMA CountsAre ==
    CountsExact <=> \A p \in Plans : \A v \in Verdicts :
                       metrics.total[p][v] = Cardinality(Ran(p, v)) - Cardinality(Uncounted(p, v))
  BY DEF CountsExact, Ran, Uncounted

(* Both sets are finite.                                                   *)
LEMMA CountFinite ==
  ASSUME LogInv, MetricsType, NEW p, NEW v
  PROVE  /\ IsFiniteSet(Ran(p, v)) /\ Cardinality(Ran(p, v)) \in Nat
         /\ IsFiniteSet(Uncounted(p, v)) /\ Cardinality(Uncounted(p, v)) \in Nat
         /\ Uncounted(p, v) \subseteq Callers
<1>1. boot + 1 \in Int /\ Len(ended) \in Int
  BY DEF LogInv, TailType, MetricsType
<1>2. IsFiniteSet((boot + 1)..Len(ended))
  BY <1>1, FS_Interval
<1>3. Ran(p, v) \in SUBSET ((boot + 1)..Len(ended))
  BY DEF Ran
<1>4. Uncounted(p, v) \in SUBSET Callers
  BY DEF Uncounted, Callers
<1> QED
  BY <1>2, <1>3, <1>4, FiniteCallers, FS_Subset, FS_CardinalityType

(* A caller that counted before is counted after, and no run has returned. *)
LEMMA CountFrame ==
  ASSUME CountInv, UNCHANGED <<metrics, ended, boot>>,
         ASSUME NEW d \in CronJobs
         PROVE  /\ (pc'[d] = "returned" /\ report'[d].stage # "counted")
                      <=> (pc[d] = "returned" /\ report[d].stage # "counted")
                /\ pc[d] = "returned" /\ report[d].stage # "counted" =>
                      job'[d] = job[d] /\ result'[d] = result[d]
  PROVE  CountInv'
<1>1. \A p, v : Uncounted(p, v)' = Uncounted(p, v) /\ Ran(p, v)' = Ran(p, v)
  BY DEF Uncounted, Ran
<1>2. CountsExact'
  BY <1>1 DEF CountInv, CountsExact, Ran, Uncounted
<1> QED
  BY <1>2 DEF CountInv, MetricsType

LEMMA CountInvInit == ExecInit => CountInv
<1> SUFFICES ASSUME ExecInit PROVE CountInv
  OBVIOUS
<1>1. /\ metrics = NoMetrics /\ boot = 0 /\ ended = <<>> /\ Len(<<>>) = 0
      /\ \A c \in CronJobs : pc[c] = "idle"
  BY DEF ExecInit, Init, Callers
<1>2. MetricsType /\ \A p \in Plans : \A v \in Verdicts : metrics.total[p][v] = 0
  BY <1>1 DEF MetricsType, NoMetrics
<1>3. \A p, v : Ran(p, v) = {} /\ Uncounted(p, v) = {}
  BY <1>1 DEF Ran, Uncounted
<1>4. Cardinality({}) = 0
  BY FS_EmptySet
<1>5. CountsExact
  BY <1>2, <1>3, <1>4, CountsAre
<1> QED
  BY <1>2, <1>5 DEF CountInv

(* A run that returns to a cron job is one more, and one that waits.       *)
LEMMA CountReturns ==
  ASSUME TypeOK, LogInv, CountInv, NEW c \in Callers, ExecuteReturns(c)
  PROVE  CountInv'
<1>0. /\ UNCHANGED <<metrics, boot, job>>
      /\ pc[c] # "returned" /\ pc' = [pc EXCEPT ![c] = pc'[c]]
      /\ \A d \in Callers \ {c} : result'[d] = result[d]
  BY DEF ExecuteReturns, Release, Rejected, Goto, TypeOK
<1>1. CASE pc'[c] # "returned"
  <2>1. UNCHANGED <<ended, report>>
    BY <1>1 DEF ExecuteReturns
  <2>2. \A d \in Callers : /\ (pc'[d] = "returned") <=> (pc[d] = "returned")
                           /\ pc[d] = "returned" => result'[d] = result[d]
    BY <1>0, <1>1 DEF TypeOK
  <2>3. CronJobs \subseteq Callers
    BY DEF Callers
  <2> QED
    BY <1>0, <2>1, <2>2, <2>3, CountFrame
<1>2. CASE pc'[c] = "returned"
  <2> DEFINE n == Len(ended) + 1
             e == [plan |-> job[c].plan, status |-> result'[c].status,
                   cause |-> result'[c].cause, cron |-> c \in CronJobs]
  <2>1. /\ ended' = Append(ended, e)
        /\ e.plan = job[c].plan /\ e.status = result'[c].status
        /\ e.cron <=> c \in CronJobs
    BY <1>2 DEF ExecuteReturns
  <2> HIDE DEF e
  <2>2. ended \in Seq(Returned) /\ Len(ended) \in Nat /\ boot \in 0..Len(ended)
    BY DEF LogInv, TailType, CountInv, MetricsType
  <2>3. /\ Len(ended') = n /\ ended'[n] = e
        /\ \A i \in 1..(n - 1) : ended'[i] = ended[i]
    BY <2>1, <2>2
  <2>4. /\ report' = [report EXCEPT ![c] = [report[c] EXCEPT !.run = n]]
        /\ report[c] \in Report /\ report[c].stage = "none"
        /\ report \in [Callers -> Report]
    BY <1>0, <1>2 DEF ExecuteReturns, Reports, LogInv, TailType, ReportRight
  <2>5. report'[c].stage = "none" /\ \A d \in Callers \ {c} : report'[d] = report[d]
    <3>1. [report[c] EXCEPT !.run = n].stage = "none"
      BY <2>4 DEF Report
    <3> QED
      BY <2>4, <3>1
  <2>6. \A d \in Callers \ {c} : pc'[d] = pc[d] /\ result'[d] = result[d]
    BY <1>0 DEF TypeOK
  <2>7. CronJobs \subseteq Callers
    BY DEF Callers
  <2>8. ASSUME NEW p \in Plans, NEW v \in Verdicts
        PROVE  metrics'.total[p][v]
                 = Cardinality(Ran(p, v)') - Cardinality(Uncounted(p, v)')
    <3> DEFINE hit == c \in CronJobs /\ e.plan = p /\ e.status = v
    <3>1. /\ n \notin Ran(p, v) /\ Ran(p, v)' = IF hit THEN Ran(p, v) \union {n} ELSE Ran(p, v)
      <4>1. (boot' + 1)..Len(ended') = ((boot + 1)..Len(ended)) \union {n}
        BY <1>0, <2>2, <2>3
      <4>2. \A i \in (boot + 1)..Len(ended) : ended'[i] = ended[i] /\ i # n
        BY <2>2, <2>3
      <4>3. n \notin (boot + 1)..Len(ended)
        BY <2>2
      <4> HIDE DEF n
      <4>4. \A i : i \in Ran(p, v)' <=> i \in Ran(p, v) \/ (i = n /\ hit)
        <5> DEFINE Hits(r) == r.cron /\ r.plan = p /\ r.status = v
                   old     == (boot + 1)..Len(ended)
        <5>1. \A i : i \in Ran(p, v) <=> i \in old /\ Hits(ended[i])
          BY DEF Ran
        <5>2. \A i : i \in Ran(p, v)' <=> i \in old \union {n} /\ Hits(ended'[i])
          BY <4>1 DEF Ran
        <5>3. Hits(ended'[n]) <=> hit
          BY <2>1, <2>3
        <5> HIDE DEF old, Hits, hit
        <5> QED
          BY <4>2, <5>1, <5>2, <5>3 DEF old
      <4>5. n \notin Ran(p, v)
        BY <4>3 DEF Ran
      <4> QED
        BY <4>4, <4>5
    <3>2. /\ c \notin Uncounted(p, v)
          /\ Uncounted(p, v)' = IF hit THEN Uncounted(p, v) \union {c} ELSE Uncounted(p, v)
      <4>1. c \notin Uncounted(p, v)
        BY <1>0 DEF Uncounted
      <4>2. \A d : d \in Uncounted(p, v)' <=> d \in Uncounted(p, v) \/ (d = c /\ hit)
        BY <1>0, <1>2, <2>1, <2>5, <2>6, <2>7, <4>1 DEF Uncounted
      <4> QED
        BY <4>1, <4>2
    <3> HIDE DEF hit
    <3>3. metrics'.total[p][v] = Cardinality(Ran(p, v)) - Cardinality(Uncounted(p, v))
      BY <1>0, CountsAre DEF CountInv
    <3>4. /\ IsFiniteSet(Ran(p, v)) /\ Cardinality(Ran(p, v)) \in Nat
          /\ IsFiniteSet(Uncounted(p, v)) /\ Cardinality(Uncounted(p, v)) \in Nat
      BY CountFinite DEF CountInv
    <3>5. /\ Cardinality(Ran(p, v) \union {n}) = Cardinality(Ran(p, v)) + 1
          /\ Cardinality(Uncounted(p, v) \union {c}) = Cardinality(Uncounted(p, v)) + 1
      BY <3>1, <3>2, <3>4, FS_AddElement
    <3> QED
      BY <3>1, <3>2, <3>3, <3>4, <3>5
  <2>9. CountsExact'
    BY <2>8 DEF CountsExact, Ran, Uncounted
  <2>10. MetricsType'
    BY <1>0, <2>2, <2>3 DEF CountInv, MetricsType
  <2> QED
    BY <2>9, <2>10 DEF CountInv
<1> QED
  BY <1>1, <1>2

(* A job that records its run is counted and waits no longer.              *)
LEMMA CountRecords ==
  ASSUME TypeOK, LogInv, CountInv, NEW c \in Callers, RecordPlanExecution(c)
  PROVE  CountInv'
<1> DEFINE p == job[c].plan
           v == result[c].status
<1>1. /\ UNCHANGED <<pc, job, result, ended, boot>> /\ metrics' = Recorded(c)
      /\ c \in CronJobs /\ pc[c] = "returned" /\ report[c].stage \in {"saved", "unsaved"}
  BY DEF RecordPlanExecution, At, vars
<1>2. /\ report'[c].stage = "counted"
      /\ \A d \in Callers \ {c} : report'[d] = report[d]
  BY StageType DEF RecordPlanExecution, LogInv, Stages
<1>3. CronJobs \subseteq Callers
  BY DEF Callers
<1>4. p \in Plans /\ v \in Verdicts /\ report[c].got \in Nat
  <2>1. report[c] \in Report /\ p \in Plans /\ result[c] \in Results /\ pc[c] = "returned"
    BY <1>1, JobType DEF LogInv, TailType, TypeOK
  <2>2. v = ended[report[c].run].status /\ report[c].run \in DOMAIN ended
    BY <1>1 DEF LogInv, ReportRight
  <2>3. v \in Verdicts
    <3>1. ended \in Seq(Returned)
      BY DEF LogInv, TailType
    <3>2. ended[report[c].run] \in Returned
      BY <2>2, <3>1
    <3> QED
      BY <2>2, <3>2 DEF Returned
  <2> QED
    BY <2>1, <2>3 DEF Report
<1>5. /\ metrics'.total = [metrics.total EXCEPT ![p] =
                              [metrics.total[p] EXCEPT ![v] = metrics.total[p][v] + 1]]
      /\ metrics'.up = [metrics.up EXCEPT ![p] = IF v = "success" THEN "1" ELSE "0"]
      /\ metrics'.responses = [metrics.responses EXCEPT ![p] =
                     metrics.responses[p] + IF report[c].trimmed THEN 0 ELSE report[c].got]
  BY <1>1 DEF Recorded
<1> HIDE DEF p, v
<1>6. MetricsType
  BY DEF CountInv
<1>7. MetricsType'
  <2>1. metrics'.up \in [Plans -> {"unset", "0", "1"}]
    BY <1>5, <1>6 DEF MetricsType
  <2>2. metrics'.total \in [Plans -> [Verdicts -> Nat]]
    <3>1. metrics.total[p] \in [Verdicts -> Nat] /\ metrics.total[p][v] \in Nat
      BY <1>4, <1>6 DEF MetricsType
    <3> DEFINE more == metrics.total[p][v] + 1
               new  == [metrics.total[p] EXCEPT ![v] = more]
    <3>2. more \in Nat
      BY <3>1
    <3> HIDE DEF more
    <3>3. new \in [Verdicts -> Nat]
      BY <3>1, <3>2
    <3>4. metrics'.total = [metrics.total EXCEPT ![p] = new]
      BY <1>5 DEF more
    <3> HIDE DEF new
    <3> QED
      BY <1>6, <3>3, <3>4 DEF MetricsType
  <2>3. metrics'.responses \in [Plans -> Nat]
    <3>1. metrics.responses[p] \in Nat
      BY <1>4, <1>6 DEF MetricsType
    <3> DEFINE sum == metrics.responses[p] + IF report[c].trimmed THEN 0 ELSE report[c].got
    <3>2. sum \in Nat
      BY <1>4, <3>1
    <3>3. metrics'.responses = [metrics.responses EXCEPT ![p] = sum]
      BY <1>5
    <3> HIDE DEF sum
    <3> QED
      BY <1>6, <3>2, <3>3 DEF MetricsType
  <2> QED
    BY <1>1, <1>6, <2>1, <2>2, <2>3 DEF MetricsType
<1>8. ASSUME NEW q \in Plans, NEW w \in Verdicts
      PROVE  metrics'.total[q][w] = Cardinality(Ran(q, w)') - Cardinality(Uncounted(q, w)')
  <2> DEFINE hit == q = p /\ w = v
  <2>1. Ran(q, w)' = Ran(q, w)
    BY <1>1 DEF Ran
  <2>2. /\ hit => c \in Uncounted(q, w)
        /\ Uncounted(q, w)' = IF hit THEN Uncounted(q, w) \ {c} ELSE Uncounted(q, w)
    <3>1. c \in Uncounted(q, w) <=> hit
      BY <1>1 DEF Uncounted, p, v
    <3>2. \A d : d \in Uncounted(q, w)' <=> d \in Uncounted(q, w) /\ d # c
      BY <1>1, <1>2, <1>3 DEF Uncounted
    <3> QED
      BY <3>1, <3>2
  <2>3. metrics'.total[q][w] = metrics.total[q][w] + IF hit THEN 1 ELSE 0
    <3>1. metrics.total \in [Plans -> [Verdicts -> Nat]] /\ metrics.total[q][w] \in Nat
      BY <1>6 DEF MetricsType
    <3>2. CASE hit
      BY <1>4, <1>5, <3>1, <3>2
    <3>3. CASE ~hit
      <4>1. metrics'.total[q][w] = metrics.total[q][w]
        BY <1>4, <1>5, <3>1, <3>3
      <4> QED
        BY <3>1, <3>3, <4>1
    <3> QED
      BY <3>2, <3>3
  <2> HIDE DEF hit
  <2>4. metrics.total[q][w] = Cardinality(Ran(q, w)) - Cardinality(Uncounted(q, w))
    BY CountsAre DEF CountInv
  <2>5. /\ Cardinality(Ran(q, w)) \in Nat
        /\ IsFiniteSet(Uncounted(q, w)) /\ Cardinality(Uncounted(q, w)) \in Nat
    BY <1>6, CountFinite
  <2>6. hit => Cardinality(Uncounted(q, w) \ {c}) = Cardinality(Uncounted(q, w)) - 1
    BY <2>2, <2>5, FS_RemoveElement
  <2> QED
    BY <2>1, <2>2, <2>3, <2>4, <2>5, <2>6
<1>9. CountsExact'
  BY <1>8 DEF CountsExact, Ran, Uncounted
<1> QED
  BY <1>7, <1>9 DEF CountInv

(* A crash takes the counters and what waits for them alike.               *)
LEMMA CountReboots ==
  ASSUME LogInv, Reboot
  PROVE  CountInv'
<1>1. /\ metrics' = NoMetrics /\ boot' = Len(ended) /\ ended' = ended
      /\ \A c \in Callers : pc'[c] = "idle"
  BY DEF Reboot, Restart
<1>2. Len(ended) \in Nat
  BY DEF LogInv, TailType
<1>3. MetricsType'
  BY <1>1, <1>2 DEF MetricsType, NoMetrics
<1>4. \A p \in Plans : \A v \in Verdicts : metrics'.total[p][v] = 0
  BY <1>1 DEF NoMetrics
<1>5. \A p, v : Ran(p, v)' = {}
  <2>1. (boot' + 1)..Len(ended') = {}
    BY <1>1, <1>2
  <2> QED
    BY <2>1 DEF Ran
<1>6. \A p, v : Uncounted(p, v)' = {}
  BY <1>1 DEF Uncounted, Callers
<1>7. Cardinality({}) = 0
  BY FS_EmptySet
<1>8. \A p \in Plans : \A v \in Verdicts :
         metrics'.total[p][v] = Cardinality(Ran(p, v)') - Cardinality(Uncounted(p, v)')
  BY <1>4, <1>5, <1>6, <1>7
<1>9. CountsExact'
  BY <1>8 DEF CountsExact, Ran, Uncounted
<1> QED
  BY <1>3, <1>9 DEF CountInv

LEMMA CountStep == TypeOK /\ LogInv /\ CountInv /\ [ExecNext]_allVars => CountInv'
<1> SUFFICES ASSUME TypeOK, LogInv, CountInv, [ExecNext]_allVars PROVE CountInv'
  OBVIOUS
<1>0. CronJobs \subseteq Callers
  BY DEF Callers
<1>1. CASE Reboot
  BY <1>1, CountReboots
<1>2. CASE UNCHANGED allVars
  BY <1>2, CountFrame DEF allVars, vars, tailVars
<1>3. ASSUME NEW c \in Callers,
             \/ Begin(c) \/ Silent(c) \/ StepEnds(c) \/ Panics(c) \/ Flushed(c)
             \/ ContextEnds(c) \/ Answers500(c)
      PROVE  CountInv'
  BY <1>0, <1>3, ReportUntouched, CountFrame
<1>4. ASSUME NEW c \in Callers, ExecuteReturns(c) PROVE CountInv'
  BY <1>4, CountReturns
<1>5. ASSUME NEW c \in Callers, TrimResultsIfNeeded(c) \/ Store(c) \/ StoreFails(c)
      PROVE  CountInv'
  <2>1. /\ UNCHANGED <<metrics, ended, boot, pc, job, result>>
        /\ report[c].stage \in {"none", "trimmed"}
    BY <1>5 DEF TrimResultsIfNeeded, Store, StoreFails, At, vars
  <2>2. PICK new : /\ report' = [report EXCEPT ![c] = new]
                   /\ new.stage \in {"trimmed", "saved", "unsaved"}
    <3>1. report[c] \in Report
      BY DEF LogInv, TailType
    <3>2. CASE TrimResultsIfNeeded(c)
      <4>1. PICK t \in Trimmable(c) :
               report' = [report EXCEPT ![c] =
                            [report[c] EXCEPT !.stage = "trimmed", !.trimmed = t]]
        BY <3>2 DEF TrimResultsIfNeeded, Reports
      <4>2. [report[c] EXCEPT !.stage = "trimmed", !.trimmed = t].stage = "trimmed"
        BY <3>1 DEF Report
      <4> QED
        BY <4>1, <4>2
    <3>3. ASSUME NEW s \in {"saved", "unsaved"}, Stage(c, s)
          PROVE  \E new : /\ report' = [report EXCEPT ![c] = new]
                          /\ new.stage \in {"trimmed", "saved", "unsaved"}
      <4>1. [report[c] EXCEPT !.stage = s].stage = s
        BY <3>1 DEF Report
      <4> QED
        BY <3>3, <4>1 DEF Stage, Reports
    <3> QED
      BY <1>5, <3>2, <3>3 DEF Store, StoreFails
  <2>3. /\ report'[c].stage \in {"trimmed", "saved", "unsaved"}
        /\ \A d \in Callers \ {c} : report'[d] = report[d]
    BY <2>2 DEF LogInv, TailType
  <2> QED
    BY <1>0, <2>1, <2>3, CountFrame
<1>6. ASSUME NEW c \in Callers, RecordPlanExecution(c) PROVE CountInv'
  BY <1>6, CountRecords
<1>7. ASSUME NEW c \in Callers, JobOver(c) \/ Replies(c) \/ DoneSent(c) PROVE CountInv'
  <2>1. /\ UNCHANGED <<metrics, ended, boot>>
        /\ pc' = [pc EXCEPT ![c] = "idle"] /\ report' = [report EXCEPT ![c] = NoReport]
        /\ \A d \in Callers \ {c} : job'[d] = job[d] /\ result'[d] = result[d]
    BY <1>7 DEF JobOver, Replies, DoneSent, Quit, Reports, Leave, Exit, Goto, TypeOK
  <2>2. c \notin CronJobs \/ report[c].stage = "counted"
    BY <1>7, CallerAssumption DEF JobOver, Replies, DoneSent, At, HTTP
  <2>3. /\ pc'[c] = "idle"
        /\ \A d \in Callers \ {c} : pc'[d] = pc[d] /\ report'[d] = report[d]
    BY <2>1 DEF TypeOK, LogInv, TailType
  <2> QED
    BY <1>0, <2>1, <2>2, <2>3, CountFrame
<1> QED
  BY <1>1, <1>2, <1>3, <1>4, <1>5, <1>6, <1>7 DEF ExecNext, Proceeds

LEMMA ExecInvHolds == ExecSpec => [](TypeOK /\ LogInv /\ CountInv)
<1>1. ExecSpec => []TypeOK
  BY ImplementsRunner, TypeCorrect, PTL
<1> QED
  BY <1>1, LogInvInit, LogStep, CountInvInit, CountStep, PTL DEF ExecSpec

(* The counter of a plan and a verdict is the number of the cron runs of   *)
(* this process that ended so, less those about to be counted, whichever   *)
(* runs overtake each other, lose their row or find the plan busy.         *)
THEOREM CountsExactHolds == ExecSpec => []CountsExact
<1>1. CountInv => CountsExact
  BY DEF CountInv
<1> QED
  BY <1>1, ExecInvHolds, PTL

(* Every variable of Execution stays in its type: no step assigns a value  *)
(* that its readers do not expect, and a run that is lost has returned.    *)
THEOREM ExecTypeCorrect == ExecSpec => []ExecTypeOK
<1>1. TypeOK /\ LogInv /\ CountInv => ExecTypeOK
  <2> SUFFICES ASSUME LogInv, MetricsType PROVE lost \subseteq 1..Len(ended)
    BY DEF LogInv, TailType, CountInv, MetricsType, ExecTypeOK
  <2>1. ended \in Seq(Returned) /\ lost \subseteq DOMAIN ended
    BY DEF LogInv, TailType
  <2> QED
    BY <2>1
<1> QED
  BY <1>1, ExecInvHolds, PTL
=============================================================================
