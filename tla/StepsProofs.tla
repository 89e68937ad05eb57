---------------------------- MODULE StepsProofs ----------------------------
(***************************************************************************)
(* Proofs about Steps, for any plans and any bound on the writes.          *)
(***************************************************************************)
EXTENDS Steps, TLAPS

(* Where the last value of the variable is: in the step loop's map or, if  *)
(* the step has captured it, there; a WebSocket step has it in its copy.   *)
Flow ==
    /\ Merge(vars, captured) = latest
    /\ pc \notin {"assert", "send", "recv", "taken"} => captured = 0
    /\ pc \in WSPCs => local = latest

(* A context says "deadline" only when a deadline has passed.              *)
Timing ==
    /\ ctx.plan = "deadline" => due.plan
    /\ ctx.step = "deadline" => Overdue

(* What the results of the steps say of themselves.                        *)
ResultRight(r) ==
    /\ r.status = "success" <=> r.why = "checked"
    /\ r.status = "timeout" => r.late
    /\ r.why = "context" /\ ~r.gone => r.status = "timeout"

(* The run goes on exactly as long as its steps succeed.                   *)
Course ==
    /\ \A i \in DOMAIN results : ResultRight(results[i])
    /\ \A i \in DOMAIN results : i < Len(results) => results[i].status = "success"
    /\ pc # "done" => /\ verdict = "success"
                      /\ \A i \in DOMAIN results : results[i].status = "success"
    /\ pc = "done" =>
          CASE verdict = "success" -> /\ Len(results) = Len(plan.steps)
                                      /\ \A i \in DOMAIN results :
                                            results[i].status = "success"
            [] verdict = "timeout" -> \/ results # <<>> /\ results[at].status = "timeout"
                                      \/ ctx.plan # "live" /\ at < Len(plan.steps)
            [] verdict = "failed"  -> results # <<>> /\ results[at].status = "failed"

IInv == TypeOK /\ Flow /\ Timing /\ Course

-----------------------------------------------------------------------------
(* The step of a run is one of StepDefs.                                   *)
LEMMA StepType ==
    ASSUME plan \in Plans, NEW i \in 1..Len(plan.steps)
    PROVE  plan.steps[i] \in StepDefs
BY StepsAssumption

(* Initially no step has run and nothing has been written.                 *)
LEMMA InitHolds == Init => IInv
<1> SUFFICES ASSUME Init PROVE IInv
  OBVIOUS
<1>0. Len(plan.steps) \in Nat
  BY StepsAssumption DEF Init
<1>1. TypeOK
  <2>1. ctx \in [plan : Errs, step : Errs] /\ due \in [plan : BOOLEAN, step : BOOLEAN]
    BY DEF Init, Errs
  <2>2. {vars, local, captured, latest} \subseteq 0..wrote /\ wrote \in Nat
    BY DEF Init
  <2>3. /\ at \in 0..Len(plan.steps) /\ pc = "loop" /\ at = 0 /\ left \in Nat
        /\ shared \in BOOLEAN /\ verdict \in Statuses /\ plan \in Plans
        /\ results = <<>>
    <3>1. /\ pc = "loop" /\ at = 0 /\ left = 0 /\ shared = FALSE
          /\ verdict = "success" /\ plan \in Plans /\ results = <<>>
      BY DEF Init
    <3>2. shared \in BOOLEAN
      BY <3>1
    <3>3. at \in 0..Len(plan.steps) /\ left \in Nat
      BY <1>0, <3>1
    <3> QED
      BY <3>1, <3>2, <3>3 DEF Statuses
  <2>4. pc \in PCs /\ pc \notin Working
    BY <2>3 DEF PCs, Working, HTTPPCs, WSPCs
  <2> QED
    BY <2>1, <2>2, <2>3, <2>4 DEF TypeOK
<1>2. Flow /\ Timing /\ Course
  BY DEF Init, Flow, Timing, Course, Merge, WSPCs
<1> QED
  BY <1>1, <1>2 DEF IInv

(* Whatever made the executor return, what the step leaves behind is in    *)
(* order if its result is right.                                           *)
LEMMA ReturnsKeeps ==
    ASSUME IInv, NEW status \in Statuses, NEW why \in Whys,
           pc \in Working, Returns(status, why),
           status = "success" <=> why = "checked",
           status = "timeout" => Overdue,
           why = "context" /\ ctx.step # "cancelled" => status = "timeout"
    PROVE  IInv'
<1> DEFINE r == [status |-> status, why |-> why, late |-> Overdue,
                 gone |-> ctx.step = "cancelled"]
<1>0. PICK s : s = r
  OBVIOUS
<1>1. /\ results' = Append(results, s)
      /\ s.status = status /\ s.why = why /\ s.late = Overdue
      /\ s.gone = (ctx.step = "cancelled")
      /\ s \in [status : Statuses, why : Whys, late : BOOLEAN, gone : BOOLEAN]
  <2>1. due.plan \in BOOLEAN /\ due.step \in BOOLEAN /\ plan.steps \in Seq(StepDefs)
    BY StepsAssumption DEF IInv, TypeOK
  <2>2. Overdue \in BOOLEAN
    BY DEF Overdue
  <2> QED
    BY <1>0, <2>2 DEF Returns
<1>2. /\ results \in Seq([status : Statuses, why : Whys, late : BOOLEAN, gone : BOOLEAN])
      /\ Len(results) = at - 1 /\ at \in Nat
  BY DEF IInv, TypeOK
<1>3. /\ Len(results') = at
      /\ results'[at] = s
      /\ \A i \in 1..(at - 1) : results'[i] = results[i]
      /\ results' \in Seq([status : Statuses, why : Whys, late : BOOLEAN, gone : BOOLEAN])
  BY <1>1, <1>2
<1>4. pc' \in {"loop", "done"} /\ verdict' \in Statuses
  BY DEF Returns, IInv, TypeOK
<1>5. TypeOK'
  <2>1. /\ plan' = plan /\ at' = at /\ shared' = FALSE /\ wrote' = wrote
        /\ latest' = latest /\ left' = 0 /\ local' = 0 /\ captured' = 0
        /\ vars' \in {vars, captured}
    BY DEF Returns, Merge
  <2>2. /\ plan \in Plans /\ at \in 0..Len(plan.steps) /\ wrote \in Nat
        /\ {vars, local, captured, latest} \subseteq 0..wrote
        /\ ctx \in [plan : Errs, step : Errs] /\ due \in [plan : BOOLEAN, step : BOOLEAN]
    BY DEF IInv, TypeOK
  <2>3. {vars, local, captured, latest}' \subseteq 0..wrote'
    BY <2>1, <2>2
  <2>4. /\ ctx' \in [plan : Errs, step : Errs]
        /\ due' \in [plan : BOOLEAN, step : BOOLEAN]
    BY <2>2 DEF Returns
  <2>5. pc' \in PCs /\ pc' \notin Working
    BY <1>4 DEF PCs, Working, HTTPPCs, WSPCs
  <2>6. plan' \in Plans /\ at' \in 0..Len(plan'.steps) /\ left' \in Nat
        /\ shared' \in BOOLEAN /\ wrote' \in Nat /\ Len(results') = at'
    BY <1>3, <2>1, <2>2
  <2> QED
    BY <1>3, <1>4, <2>3, <2>4, <2>5, <2>6 DEF TypeOK
<1>6. Flow'
  BY <1>4 DEF IInv, Flow, Returns, Merge, WSPCs
<1>7. Timing'
  <2>1. /\ ctx' = [ctx EXCEPT !.step = ctx.plan] /\ due' = [due EXCEPT !.step = FALSE]
        /\ ctx \in [plan : Errs, step : Errs] /\ due \in [plan : BOOLEAN, step : BOOLEAN]
    BY DEF Returns, IInv, TypeOK
  <2> QED
    BY <2>1 DEF Timing, Overdue, IInv
<1>8. Course'
  <2>1. ResultRight(s)
    BY <1>1 DEF ResultRight
  <2>2. \A i \in 1..(at - 1) : ResultRight(results[i]) /\ results[i].status = "success"
    BY <1>2 DEF IInv, Course, Working, HTTPPCs, WSPCs
  <2>3. /\ DOMAIN results' = 1..at
        /\ \A i \in 1..at : ResultRight(results'[i])
        /\ \A i \in 1..(at - 1) : results'[i].status = "success"
    BY <1>2, <1>3, <2>1, <2>2
  <2>4. pc # "done" /\ verdict = "success"
    BY DEF IInv, Course, Working, HTTPPCs, WSPCs
  <2>5. at >= 1
    BY DEF IInv, TypeOK
  <2>6. (\A i \in DOMAIN results : ResultRight(results[i]))'
    BY <2>3 DEF ResultRight
  <2>7. CASE status = "success"
    <3>1. pc' = "loop" /\ verdict' = "success"
      BY <2>4, <2>7 DEF Returns
    <3> QED
      BY <1>1, <1>3, <2>3, <2>6, <2>7, <3>1 DEF Course
  <2>8. CASE status # "success"
    <3>1. pc' = "done" /\ verdict' = status /\ results' # <<>>
      BY <1>3, <2>5, <2>8 DEF Returns
    <3>2. at' = at
      BY DEF Returns
    <3>3. results'[at'] = s /\ s.status = status /\ status \in {"failed", "timeout"}
      BY <1>1, <1>3, <2>8, <3>2 DEF Statuses
    <3>4. verdict' = status /\ results'[at'].status = status
      BY <3>1, <3>3
    <3>5. \A i \in DOMAIN results' : i < Len(results') => results'[i].status = "success"
      BY <1>3, <2>3
    <3> QED
      BY <2>6, <3>1, <3>3, <3>4, <3>5 DEF Course
  <2> QED
    BY <2>7, <2>8
<1> QED
  BY <1>5, <1>6, <1>7, <1>8 DEF IInv

(* A step that only goes on.                                               *)
LEMMA MovesKeep ==
    ASSUME IInv, UNCHANGED <<plan, at, data, time, ends>>,
           pc \in Working, pc' \in Working, left' \in Nat,
           captured = 0 \/ pc' \in {"assert", "send", "recv", "taken"},
           pc' \in WSPCs => pc \in WSPCs,
           pc \in Derived => pc' \in Derived
    PROVE  IInv'
<1>1. TypeOK'
  BY DEF IInv, TypeOK, data, time, ends, PCs
<1>2. Flow'
  BY DEF IInv, Flow, Merge, data
<1>3. Timing'
  <2>1. Step' = Step /\ (OwnDeadline => OwnDeadline')
    BY DEF Step, OwnDeadline
  <2> QED
    BY <2>1 DEF IInv, Timing, Overdue, time
<1>4. Course'
  BY DEF IInv, Course, ResultRight, ends, time, Working, HTTPPCs, WSPCs
<1> QED
  BY <1>1, <1>2, <1>3, <1>4 DEF IInv

(* The clock and the client change the contexts of a run that goes on.     *)
LEMMA ClockKeeps ==
    ASSUME IInv, Clock \/ Cancel
    PROVE  IInv'
<1>0. /\ UNCHANGED <<plan, at, pc, left, data, ends>> /\ pc # "done"
      /\ ctx \in [plan : Errs, step : Errs] /\ due \in [plan : BOOLEAN, step : BOOLEAN]
  BY DEF Clock, Cancel, PlanDeadline, StepDeadline, PlanExpires, StepExpires,
         OwnDeadline, Derived, Working, HTTPPCs, WSPCs, IInv, TypeOK
<1>1. /\ ctx' \in [plan : Errs, step : Errs] /\ due' \in [plan : BOOLEAN, step : BOOLEAN]
      /\ Timing'
  <2>1. Step' = Step /\ OwnDeadline' = OwnDeadline
    BY <1>0 DEF Step, OwnDeadline
  <2>2. CASE PlanDeadline
    BY <1>0, <2>1, <2>2 DEF PlanDeadline, IInv, Timing, Overdue
  <2>3. CASE StepDeadline
    BY <1>0, <2>1, <2>3 DEF StepDeadline, IInv, Timing, Overdue
  <2>4. CASE PlanExpires
    BY <1>0, <2>1, <2>4 DEF PlanExpires, Expire, IInv, Timing, Overdue, Errs
  <2>5. CASE StepExpires
    BY <1>0, <2>1, <2>5 DEF StepExpires, Expire, IInv, Timing, Overdue, Errs
  <2>6. CASE Cancel
    BY <1>0, <2>1, <2>6 DEF Cancel, Expire, IInv, Timing, Overdue, Errs
  <2> QED
    BY <2>2, <2>3, <2>4, <2>5, <2>6 DEF Clock
<1>2. TypeOK'
  BY <1>0, <1>1 DEF IInv, TypeOK, data, ends
<1>3. Flow'
  BY <1>0 DEF IInv, Flow, Merge, data
<1>4. Course'
  BY <1>0 DEF IInv, Course, ResultRight, ends
<1> QED
  BY <1>1, <1>2, <1>3, <1>4 DEF IInv

(* The loop ends a run, or begins a step.                                  *)
LEMMA LoopKeeps ==
    ASSUME IInv, Completed \/ Interrupted \/ Begin
    PROVE  IInv'
<1>0. /\ pc = "loop" /\ UNCHANGED <<plan, time, results, vars, captured, latest, wrote>>
      /\ captured = 0 /\ vars = latest /\ verdict = "success"
      /\ plan \in Plans /\ at \in 0..Len(plan.steps) /\ Len(results) = at
      /\ \A i \in DOMAIN results : results[i].status = "success"
  BY DEF Completed, Interrupted, Begin, data, ends, IInv, Flow, Course, Merge, TypeOK,
         WSPCs, Working, HTTPPCs
<1>1. Timing'
  BY <1>0 DEF IInv, Timing, Overdue, OwnDeadline, Derived, Working, HTTPPCs, WSPCs, time,
              Step
<1>2. CASE Completed
  <2>1. TypeOK'
    BY <1>0, <1>2 DEF Completed, IInv, TypeOK, data, time, ends, PCs, Working, HTTPPCs,
                      WSPCs
  <2>2. Flow' /\ Course'
    BY <1>0, <1>2 DEF Completed, IInv, Flow, Course, ResultRight, Merge, data, time,
                      ends, WSPCs
  <2> QED
    BY <1>1, <2>1, <2>2 DEF IInv
<1>3. CASE Interrupted
  <2>1. TypeOK'
    BY <1>0, <1>3 DEF Interrupted, IInv, TypeOK, data, time, PCs, Working, HTTPPCs,
                      WSPCs, Statuses
  <2>2. Flow' /\ Course'
    BY <1>0, <1>3 DEF Interrupted, IInv, Flow, Course, ResultRight, Merge, data, time,
                      WSPCs
  <2> QED
    BY <1>1, <2>1, <2>2 DEF IInv
<1>4. CASE Begin
  <2>1. at + 1 \in 1..Len(plan.steps)
    BY <1>0, <1>4, StepsAssumption DEF Begin
  <2>2. PICK s : s = plan.steps[at + 1]
    OBVIOUS
  <2>3. s \in StepDefs
    BY <1>0, <2>1, <2>2, StepType
  <2>4. /\ pc' \in {"pre", "dial", "sleep"} /\ left' \in Nat /\ shared' \in BOOLEAN
        /\ at' = at + 1 /\ local' = vars /\ verdict' = verdict
    BY <1>4, <2>2, <2>3 DEF Begin, StepDefs, ends
  <2>5. TypeOK'
    BY <1>0, <2>1, <2>4 DEF IInv, TypeOK, time, PCs, Working, HTTPPCs, WSPCs
  <2>6. Flow' /\ Course'
    BY <1>0, <2>4 DEF IInv, Flow, Course, ResultRight, Merge, WSPCs
  <2> QED
    BY <1>1, <2>5, <2>6 DEF IInv
<1> QED
  BY <1>2, <1>3, <1>4

(* A write of a script, or a capture, is the last one.                     *)
LEMMA WritesKeep ==
    ASSUME IInv, ScriptAssigns \/ ScriptReplaces \/ HTTPCaptures
                 \/ (Receives /\ Step.captures)
    PROVE  IInv'
<1>0. /\ UNCHANGED <<plan, at, time, ends>>
      /\ pc \in Working /\ pc' \in Working
      /\ pc' \in Derived <=> pc \in Derived
      /\ wrote \in Nat /\ {vars, local, captured, latest} \subseteq 0..wrote
      /\ left' = left /\ shared' \in BOOLEAN
  BY DEF ScriptAssigns, ScriptReplaces, Scripting, HTTPCaptures, Receives, IInv, TypeOK,
         Working, HTTPPCs, WSPCs, Derived
<1>1. /\ wrote' \in Nat /\ {vars, local, captured, latest}' \subseteq 0..wrote'
      /\ Flow'
  <2>1. CASE ScriptAssigns
    <3>1. captured = 0 /\ captured' = 0 /\ pc' = pc /\ pc \in {"pre", "post"}
      BY <2>1 DEF ScriptAssigns, Scripting, IInv, Flow
    <3>2. /\ wrote' = wrote + 1 /\ local' = wrote'
          /\ \/ vars' = wrote' /\ latest' = wrote'
             \/ vars' = vars /\ latest' = latest
      BY <2>1 DEF ScriptAssigns
    <3>3. vars = latest
      BY <3>1 DEF IInv, Flow, Merge
    <3> QED
      BY <1>0, <3>1, <3>2, <3>3 DEF Flow, Merge, WSPCs
  <2>2. CASE ScriptReplaces
    <3>1. captured = 0 /\ captured' = 0 /\ pc' = pc /\ pc \in {"pre", "post"}
      BY <2>2 DEF ScriptReplaces, Scripting, IInv, Flow
    <3> QED
      BY <1>0, <2>2, <3>1 DEF ScriptReplaces, IInv, Flow, Merge, WSPCs
  <2>3. CASE HTTPCaptures
    BY <1>0, <2>3 DEF HTTPCaptures, Captures, IInv, Flow, Merge, WSPCs
  <2>4. CASE Receives /\ Step.captures
    BY <1>0, <2>4 DEF Receives, Captures, IInv, Flow, Merge, WSPCs
  <2> QED
    BY <2>1, <2>2, <2>3, <2>4
<1>2. TypeOK'
  <2>1. /\ ctx' = ctx /\ due' = due /\ results' = results /\ verdict' = verdict
        /\ plan' = plan /\ at' = at
    BY <1>0 DEF time, ends
  <2>2. pc' \in PCs
    BY <1>0 DEF PCs
  <2> QED
    BY <1>0, <1>1, <2>1, <2>2 DEF IInv, TypeOK
<1>3. Timing'
  BY <1>0 DEF IInv, Timing, Overdue, OwnDeadline, Step, time
<1>4. Course'
  <2>1. results' = results /\ verdict' = verdict /\ pc # "done" /\ pc' # "done"
    BY <1>0 DEF ends, Working, HTTPPCs, WSPCs
  <2> QED
    BY <2>1 DEF IInv, Course, ResultRight
<1> QED
  BY <1>1, <1>2, <1>3, <1>4 DEF IInv

(* Every action is one of the above.                                       *)
LEMMA NextKeeps == IInv /\ [Next]_svars => IInv'
<1> SUFFICES ASSUME IInv, [Next]_svars PROVE IInv'
  OBVIOUS
<1> USE DEF Whys, Statuses
<1>0. /\ ctx.step \in Errs
      /\ TimeoutOr \in Statuses /\ TimeoutOr # "success"
      /\ TimeoutOr = "timeout" => Overdue
      /\ TimeoutOr = "timeout" <=> ctx.step = "deadline"
  BY DEF IInv, TypeOK, Timing, TimeoutOr
<1>1. CASE UNCHANGED svars
  <2>1. TypeOK'
    BY <1>1 DEF svars, IInv, TypeOK
  <2>2. Flow' /\ Timing'
    BY <1>1 DEF svars, IInv, Flow, Merge, Timing, Overdue, OwnDeadline, Step
  <2>3. Course'
    BY <1>1 DEF svars, IInv, Course, ResultRight
  <2> QED
    BY <2>1, <2>2, <2>3 DEF IInv
<1>2. CASE Clock \/ Cancel
  BY <1>2, ClockKeeps
<1>3. CASE Completed \/ Interrupted \/ Begin
  BY <1>3, LoopKeeps
<1>4. CASE ScriptAssigns \/ ScriptReplaces \/ HTTPCaptures \/ (Receives /\ Step.captures)
  BY <1>4, WritesKeep
<1>5. CASE BuildRequest \/ Responds \/ BodyRead \/ PostScriptsDone \/ ScriptEnds
           \/ PostScriptFails
  <2>1. /\ UNCHANGED <<plan, at, data, time, ends>>
        /\ pc \in HTTPPCs /\ pc' \in HTTPPCs /\ pc' # "assert" /\ pc # "assert"
        /\ pc \in Derived => pc' \in Derived
    BY <1>5 DEF BuildRequest, Responds, BodyRead, PostScriptsDone, ScriptEnds,
                PostScriptFails, Scripting, HTTPPCs, Derived, Working
  <2>2. left' \in Nat
    <3>1. left \in Nat
      BY DEF IInv, TypeOK
    <3>2. CASE BodyRead
      <4>1. at \in 1..Len(plan.steps) /\ plan \in Plans
        BY <2>1 DEF IInv, TypeOK, Working
      <4> QED
        BY <3>2, <4>1, StepType DEF BodyRead, Step, StepDefs
    <3> QED
      BY <1>5, <3>1, <3>2 DEF BuildRequest, Responds, PostScriptsDone, ScriptEnds,
                              PostScriptFails, Scripting
  <2>3. captured = 0
    BY <2>1 DEF IInv, Flow, HTTPPCs
  <2> QED
    BY <2>1, <2>2, <2>3, MovesKeep DEF Working, HTTPPCs, WSPCs
<1>6. CASE Dialled \/ Sends \/ (Receives /\ ~Step.captures)
           \/ (RoundPasses /\ left > 1)
  <2>1. /\ UNCHANGED <<plan, at, data, time, ends>>
        /\ pc \in WSPCs /\ pc' \in WSPCs \ {"dial"} /\ left' \in Nat
    BY <1>6 DEF Dialled, Sends, Receives, RoundPasses, WSPCs, IInv, TypeOK, data
  <2> QED
    BY <2>1, MovesKeep DEF Working, Derived, WSPCs
<1>7. CASE BadConfig \/ PreScriptFails \/ BuildFails
  <2>1. pc \in Working /\ (Returns("failed", "config") \/ Returns("failed", "script"))
    BY <1>7 DEF BadConfig, PreScriptFails, BuildFails, Working, HTTPPCs, WSPCs
  <2> QED
    BY <2>1, ReturnsKeeps
<1>8. CASE BodyFails \/ BodyInterrupted \/ SendFails
  <2>1. pc \in Working /\ (Returns("failed", "network") \/ Returns("failed", "body"))
    BY <1>8 DEF BodyFails, BodyInterrupted, SendFails, Working, HTTPPCs, WSPCs
  <2> QED
    BY <2>1, ReturnsKeeps
<1>9. CASE HTTPAssertionFails \/ RoundAssertionFails
  <2>1. pc \in Working /\ Returns("failed", "assertion")
    BY <1>9 DEF HTTPAssertionFails, RoundAssertionFails, Working, HTTPPCs, WSPCs
  <2> QED
    BY <2>1, ReturnsKeeps
<1>10. CASE HTTPPasses \/ (RoundPasses /\ ~(left > 1)) \/ Sleeps
  <2>1. pc \in Working /\ Returns("success", "checked")
    BY <1>10 DEF HTTPPasses, RoundPasses, Sleeps, Working, HTTPPCs, WSPCs
  <2> QED
    BY <2>1, ReturnsKeeps
<1>11. CASE Refused \/ DialFails \/ RecvFails
  <2>1. pc \in Working /\ Returns(TimeoutOr, "network")
    BY <1>11 DEF Refused, DialFails, RecvFails, Working, HTTPPCs, WSPCs
  <2> QED
    BY <1>0, <2>1, ReturnsKeeps
<1>12. CASE DoInterrupted \/ SleepInterrupted
  <2>1. pc \in Working /\ Returns(TimeoutOr, "context") /\ ctx.step # "live"
    BY <1>12 DEF DoInterrupted, SleepInterrupted, Working, HTTPPCs, WSPCs
  <2>2. ctx.step # "cancelled" => TimeoutOr = "timeout"
    BY <1>0, <2>1 DEF Errs
  <2> QED
    BY <1>0, <2>1, <2>2, ReturnsKeeps
<1>13. CASE DialInterrupted \/ RecvInterrupted
  <2>1. /\ pc \in Working
        /\ Returns(TimeoutOr, IF ctx.step = "deadline" THEN "context" ELSE "early")
    BY <1>13 DEF DialInterrupted, RecvInterrupted, Working, HTTPPCs, WSPCs
  <2>2. CASE ctx.step = "deadline"
    BY <1>0, <2>1, <2>2, ReturnsKeeps
  <2>3. CASE ctx.step # "deadline"
    BY <1>0, <2>1, <2>3, ReturnsKeeps
  <2> QED
    BY <2>2, <2>3
<1> QED
  BY <1>1, <1>2, <1>3, <1>4, <1>5, <1>6, <1>7, <1>8, <1>9, <1>10, <1>11, <1>12, <1>13
     DEF Next, Program, Woken, Scripts, Others

-----------------------------------------------------------------------------
(* The strengthened invariant holds in every state.                        *)
THEOREM Invariance == Spec => []IInv
<1>1. Init => IInv
  BY InitHolds
<1>2. IInv /\ [Next]_svars => IInv'
  BY NextKeeps
<1> QED
  BY <1>1, <1>2, PTL DEF Spec

(* Every variable stays in its type, and the results keep pace with the    *)
(* steps, for any plans and any bound on the writes.                       *)
THEOREM TypeCorrect == Spec => []TypeOK
<1>1. IInv => TypeOK
  BY DEF IInv
<1> QED
  BY <1>1, Invariance, PTL

(* A step, and a round, begins with the last value that anything before it *)
(* gave to the variable and handed on.                                     *)
THEOREM RendersLatestHolds == Spec => []RendersLatest
<1>1. IInv => RendersLatest
  BY DEF IInv, Flow, RendersLatest, Merge, WSPCs
<1> QED
  BY <1>1, Invariance, PTL

(* The verdict of a run and of its steps is what happened, and a timeout   *)
(* is never claimed before a deadline.                                     *)
THEOREM VerdictTrueHolds == Spec => []VerdictTrue
<1>1. IInv => VerdictTrue
  BY DEF IInv, Course, ResultRight, VerdictTrue
<1> QED
  BY <1>1, Invariance, PTL

-----------------------------------------------------------------------------
(***************************************************************************)
(* Steps implements StepLoop.                                              *)
(***************************************************************************)
LEMMA LoopInit == Init => Loop!Init
<1> SUFFICES ASSUME Init PROVE Loop!Init
  OBVIOUS
<1>1. LoopPhase = "loop" /\ Reported = <<>> /\ verdict = "success" /\ ctx.plan = "live"
  BY DEF Init, LoopPhase, Reported
<1>2. Len(plan.steps) \in Nat
  BY StepsAssumption DEF Init
<1> QED
  BY <1>1, <1>2 DEF Loop!Init, Loop!Fresh

(* Whatever makes the executor return, to the loop it is the step that     *)
(* returns.                                                                *)
LEMMA LoopReturns ==
    ASSUME IInv, NEW status \in Statuses, NEW why, pc \in Working, Returns(status, why)
    PROVE  Loop!Next
<1> DEFINE r == [status |-> status, why |-> why, late |-> Overdue,
                 gone |-> ctx.step = "cancelled"]
<1>0. PICK s : s = r
  OBVIOUS
<1>1. /\ results' = Append(results, s) /\ s.status = status
      /\ verdict' = IF status = "success" THEN verdict ELSE status
      /\ pc' = IF status = "success" THEN "loop" ELSE "done"
      /\ plan' = plan /\ ctx' = [ctx EXCEPT !.step = ctx.plan]
  BY <1>0 DEF Returns
<1>2. /\ results \in Seq([status : Statuses, why : Whys, late : BOOLEAN, gone : BOOLEAN])
      /\ ctx \in [plan : Errs, step : Errs]
      /\ verdict = "success"
  BY DEF IInv, TypeOK, Course, Working, HTTPPCs, WSPCs
<1>3. Reported' = Append(Reported, status)
  <2>1. PICK n \in Nat : n = Len(results) /\ DOMAIN results = 1..n
    BY <1>2
  <2>2. PICK old : old = Reported
    OBVIOUS
  <2>3. old \in Seq(Statuses) /\ Len(old) = n /\ \A i \in 1..n : old[i] = results[i].status
    <3>1. \A i \in 1..n : results[i].status \in Statuses
      <4>1. PICK T : T = [status : Statuses, why : Whys, late : BOOLEAN, gone : BOOLEAN]
        OBVIOUS
      <4>2. results \in Seq(T) /\ \A x \in T : x.status \in Statuses
        BY <1>2, <4>1
      <4> QED
        BY <2>1, <4>2
    <3>2. old = [i \in 1..n |-> results[i].status]
      BY <2>1, <2>2 DEF Reported
    <3> QED
      BY <3>1, <3>2
  <2>4. /\ DOMAIN results' = 1..n + 1 /\ results'[n + 1] = s
        /\ \A i \in 1..n : results'[i] = results[i]
    BY <1>1, <1>2, <2>1
  <2>5. Reported' = [i \in 1..n + 1 |-> results'[i].status]
    BY <2>4 DEF Reported
  <2>6. PICK seen, new : seen = Reported' /\ new = Append(old, status)
    OBVIOUS
  <2>7. /\ new \in Seq(Statuses) /\ Len(new) = n + 1 /\ new[n + 1] = status
        /\ \A i \in 1..n : new[i] = results[i].status
    BY <2>3, <2>6
  <2>8. \A i \in 1..n + 1 : results'[i].status = new[i] /\ new[i] \in Statuses
    BY <1>1, <2>4, <2>7
  <2>9. seen \in Seq(Statuses) /\ Len(seen) = n + 1 /\ \A i \in 1..n + 1 : seen[i] = new[i]
    <3>1. n + 1 \in Nat
      BY <2>1
    <3>2. seen = [i \in 1..n + 1 |-> new[i]]
      BY <2>5, <2>6, <2>8
    <3> QED
      BY <2>8, <3>1, <3>2
  <2>10. seen = new
    BY <2>7, <2>9
  <2> QED
    BY <2>2, <2>6, <2>10
<1>4. LoopPhase = "step"
  BY DEF LoopPhase, Working, HTTPPCs, WSPCs
<1>5. LoopPhase' = IF status = "success" THEN "loop" ELSE "over"
  BY <1>1 DEF LoopPhase
<1>6. verdict' = status /\ UNCHANGED <<Len(plan.steps), ctx.plan # "live">>
  BY <1>1, <1>2
<1>7. Loop!StepReturns(status)
  BY <1>3, <1>4, <1>5, <1>6 DEF Loop!StepReturns
<1> QED
  BY <1>7 DEF Loop!Next, Loop!Verdicts, Statuses

(* A step that the loop does not see.                                      *)
LEMMA LoopUnseen ==
    ASSUME UNCHANGED <<plan, results, verdict>>, ctx'.plan = ctx.plan,
           pc \in Working, pc' \in Working
    PROVE  UNCHANGED Loop!lvars
<1>1. LoopPhase = "step" /\ LoopPhase' = "step"
  BY DEF LoopPhase, Working, HTTPPCs, WSPCs
<1>2. Reported' = Reported
  BY DEF Reported
<1> QED
  BY <1>1, <1>2 DEF Loop!lvars

LEMMA LoopStep == IInv /\ [Next]_svars => [Loop!Next]_(Loop!lvars)
<1> SUFFICES ASSUME IInv, [Next]_svars PROVE Loop!Next \/ UNCHANGED Loop!lvars
  OBVIOUS
<1>0. /\ Len(Reported) = Len(results) /\ pc = "loop" => Len(results) = at
      /\ ctx \in [plan : Errs, step : Errs] /\ TimeoutOr \in Statuses
  <2>1. PICK n \in Nat : n = Len(results) /\ DOMAIN results = 1..n
    BY DEF IInv, TypeOK
  <2>2. Len(Reported) = n
    BY <2>1 DEF Reported
  <2> QED
    BY <2>1, <2>2 DEF IInv, TypeOK, Working, HTTPPCs, WSPCs, TimeoutOr, Statuses
<1>1. CASE UNCHANGED svars
  BY <1>1 DEF svars, Loop!lvars, LoopPhase, Reported
<1>2. CASE Clock \/ Cancel
  <2>1. UNCHANGED <<plan, pc, results, verdict>>
    BY <1>2 DEF Clock, Cancel, PlanDeadline, StepDeadline, PlanExpires, StepExpires, ends
  <2>2. \/ ctx'.plan = ctx.plan
        \/ ctx.plan = "live" /\ ctx'.plan \in {"deadline", "cancelled"}
    BY <1>0, <1>2 DEF Clock, Cancel, PlanDeadline, StepDeadline, PlanExpires, StepExpires
  <2>3. LoopPhase' = LoopPhase /\ Reported' = Reported
    BY <2>1 DEF LoopPhase, Reported
  <2> QED
    BY <2>1, <2>2, <2>3 DEF Loop!ContextEnds, Loop!Next, Loop!lvars
<1>3. CASE Completed
  <2>1. Loop!Completes
    BY <1>0, <1>3 DEF Completed, Loop!Completes, LoopPhase, Reported, time, ends
  <2> QED
    BY <2>1 DEF Loop!Next
<1>4. CASE Interrupted
  <2>1. Loop!Interrupted
    BY <1>0, <1>4 DEF Interrupted, Loop!Interrupted, LoopPhase, Reported, time
  <2> QED
    BY <2>1 DEF Loop!Next
<1>5. CASE Begin
  <2>1. pc = "loop" /\ pc' \in {"pre", "dial", "sleep"}
    <3>1. at + 1 \in 1..Len(plan.steps) /\ plan \in Plans
      BY <1>5, StepsAssumption DEF Begin, IInv, TypeOK
    <3>2. PICK s \in StepDefs : s = plan.steps[at + 1]
      BY <3>1, StepType
    <3> QED
      BY <1>5, <3>2 DEF Begin, StepDefs
  <2>2. LoopPhase = "loop" /\ LoopPhase' = "step"
    BY <2>1 DEF LoopPhase
  <2>3. UNCHANGED <<plan, results, verdict, ctx>> /\ at < Len(plan.steps) /\ ctx.plan = "live"
    BY <1>5 DEF Begin, time, ends
  <2>4. Loop!BeginStep
    BY <1>0, <2>1, <2>2, <2>3 DEF Loop!BeginStep, Reported
  <2> QED
    BY <2>4 DEF Loop!Next
<1>6. CASE \/ BuildRequest \/ PostScriptsDone \/ HTTPCaptures \/ Sends
           \/ Responds \/ BodyRead \/ Dialled \/ Receives
           \/ ScriptAssigns \/ ScriptReplaces \/ ScriptEnds \/ PostScriptFails
           \/ (RoundPasses /\ left > 1)
  <2>1. /\ UNCHANGED <<plan, results, verdict, ctx>>
        /\ pc \in Working /\ pc' \in Working
    BY <1>6 DEF BuildRequest, PostScriptsDone, HTTPCaptures, Sends, Responds, BodyRead,
                Dialled, Receives, ScriptAssigns, ScriptReplaces, ScriptEnds,
                PostScriptFails, Scripting, RoundPasses, time, ends,
                Working, HTTPPCs, WSPCs
  <2> QED
    BY <2>1, LoopUnseen
<1>7. ASSUME NEW status \in Statuses, NEW why, Returns(status, why), pc \in Working
      PROVE  Loop!Next
  BY <1>7, LoopReturns
<1>8. CASE \/ BadConfig \/ BuildFails \/ HTTPPasses \/ HTTPAssertionFails \/ SendFails
           \/ RoundAssertionFails \/ Woken \/ PreScriptFails \/ Refused \/ BodyFails
           \/ DialFails \/ RecvFails \/ Sleeps \/ (RoundPasses /\ ~(left > 1))
  <2>1. pc \in Working
    BY <1>8 DEF BadConfig, BuildFails, HTTPPasses, HTTPAssertionFails, SendFails,
                RoundAssertionFails, Woken, DoInterrupted, BodyInterrupted,
                DialInterrupted, RecvInterrupted, SleepInterrupted, PreScriptFails,
                Refused, BodyFails, DialFails, RecvFails, Sleeps, RoundPasses,
                Working, HTTPPCs, WSPCs
  <2>2. \E status \in {"success", "failed", TimeoutOr} : \E why : Returns(status, why)
    BY <1>8 DEF BadConfig, BuildFails, HTTPPasses, HTTPAssertionFails, SendFails,
                RoundAssertionFails, Woken, DoInterrupted, BodyInterrupted,
                DialInterrupted, RecvInterrupted, SleepInterrupted, PreScriptFails,
                Refused, BodyFails, DialFails, RecvFails, Sleeps, RoundPasses
  <2> QED
    BY <1>0, <1>7, <2>1, <2>2 DEF Statuses
<1> QED
  BY <1>1, <1>2, <1>3, <1>4, <1>5, <1>6, <1>8 DEF Next, Program, Woken, Scripts, Others

(* executeStep and the executors: whatever they do, to the loop in Execute *)
(* they are steps that end some time with some verdict, so that what       *)
(* Runner assumes of a step holds of HTTP, WebSocket and delay steps.      *)
THEOREM StepLoopImplemented == Spec => ImplementsStepLoop
  BY Invariance, LoopInit, LoopStep, PTL DEF Spec, ImplementsStepLoop, Loop!Spec
=============================================================================
