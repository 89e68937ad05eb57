------------------------------- MODULE Steps -------------------------------
(***************************************************************************)
(* One run of a plan from the inside: the step loop of Runner.Execute and  *)
(* the executors of HTTP, plain WebSocket and delay steps, with their      *)
(* scripts, their deadlines and the variables they hand on.  Runner takes  *)
(* a step for a black box with a verdict; Pomelo steps have their own      *)
(* module.                                                                 *)
(*                                                                         *)
(* Data are abstract: there is one variable, whose value is the number of  *)
(* the write that produced it, and a request, a response or a message is   *)
(* no more than what the checks make of it.                                *)
(***************************************************************************)
EXTENDS Naturals, Sequences

CONSTANTS
    Plans,       \* [timed : BOOLEAN, steps : Seq(StepDefs)]
    MaxWrites    \* the scripts write no more once there were so many writes

(* timed: a timeout of its own; bad: a configuration that does not parse   *)
(* or a type nobody knows; scripts: how many there are before and how many *)
(* after an HTTP request; captures: of an HTTP step or of each round;      *)
(* rounds: of a WebSocket step.                                            *)
StepDefs == [kind : {"http", "ws", "delay"}, timed : BOOLEAN, bad : BOOLEAN,
             scripts : Nat, captures : BOOLEAN, rounds : Nat \ {0}]

ASSUME StepsAssumption ==
    /\ \A p \in Plans : p.timed \in BOOLEAN /\ p.steps \in Seq(StepDefs)
    /\ MaxWrites \in Nat

VARIABLES
    plan,      \* the plan of the run
    at,        \* the steps begun
    pc,        \* where the run is
    left,      \* the scripts, or rounds, of the step that remain
    ctx,       \* Err() of the plan's context and of the step's: live,
               \* deadline or cancelled
    due,       \* whether the instant of either deadline has passed
    vars,      \* the variable, in the map of the step loop
    local,     \* the variable, in the map the executor works on
    shared,    \* whether those two are one map
    captured,  \* what the executor captured: 0 for nothing
    results,   \* per finished step: its status, and (history) why it has it,
               \* whether a deadline had passed and whether the client had left
    verdict,   \* ExecResult.Status
    latest,    \* history: the last write
    wrote      \* history: how many writes there were

svars == <<plan, at, pc, left, ctx, due, vars, local, shared, captured, results,
           verdict, latest, wrote>>

Statuses == {"success", "failed", "timeout"}
Errs     == {"live", "deadline", "cancelled"}

Step    == plan.steps[at]
HTTPPCs == {"pre", "do", "body", "post", "captures", "assert"}
WSPCs   == {"dial", "send", "recv", "taken"}
Working == HTTPPCs \cup WSPCs \cup {"sleep"}
PCs     == {"loop", "done"} \cup Working

Init ==
    /\ plan \in Plans
    /\ at = 0 /\ pc = "loop" /\ left = 0
    /\ ctx = [plan |-> "live", step |-> "live"]
    /\ due = [plan |-> FALSE, step |-> FALSE]
    /\ vars = 0 /\ local = 0 /\ shared = FALSE /\ captured = 0
    /\ results = <<>> /\ verdict = "success"
    /\ latest = 0 /\ wrote = 0

data == <<vars, local, shared, captured, latest, wrote>>
time == <<ctx, due>>
ends == <<results, verdict>>

-----------------------------------------------------------------------------
(***************************************************************************)
(* Contexts.  The step's is derived from the plan's; the executors that    *)
(* know no timeout of their own use the plan's as it is.                   *)
(***************************************************************************)
Derived == Working \ {"pre", "sleep"}    \* WithTimeout comes after the scripts

OwnDeadline == pc \in Derived /\ Step.timed
HasDeadline == plan.timed \/ OwnDeadline

(* Deadline() of the context has passed.                                   *)
Overdue == due.plan \/ (OwnDeadline /\ due.step)

(* The instant of a deadline ...                                           *)
PlanDeadline ==
    /\ pc # "done" /\ plan.timed /\ ~due.plan
    /\ due' = [due EXCEPT !.plan = TRUE]
    /\ UNCHANGED <<plan, at, pc, left, ctx, data, ends>>

StepDeadline ==
    /\ OwnDeadline /\ ~due.step
    /\ due' = [due EXCEPT !.step = TRUE]
    /\ UNCHANGED <<plan, at, pc, left, ctx, data, ends>>

(* ... and the timer behind it, which runs a little later.                 *)
Expire(err, c) == IF c = "live" THEN err ELSE c

PlanExpires ==
    /\ pc # "done" /\ due.plan /\ ctx.plan = "live"
    /\ ctx' = [plan |-> "deadline", step |-> Expire("deadline", ctx.step)]
    /\ UNCHANGED <<plan, at, pc, left, due, data, ends>>

StepExpires ==
    /\ OwnDeadline /\ due.step /\ ctx.step = "live"
    /\ ctx' = [ctx EXCEPT !.step = "deadline"]
    /\ UNCHANGED <<plan, at, pc, left, due, data, ends>>

(* The client of the run leaves.                                           *)
Cancel ==
    /\ pc # "done" /\ ctx.plan = "live"
    /\ ctx' = [plan |-> "cancelled", step |-> Expire("cancelled", ctx.step)]
    /\ UNCHANGED <<plan, at, pc, left, due, data, ends>>

(* Seeded fault: a deadline is not told from other errors.                 *)
TimeoutOrNever == "failed"

(* An error that may be the context's doing.                               *)
TimeoutOr == IF ctx.step = "deadline" THEN "timeout" ELSE "failed"

-----------------------------------------------------------------------------
(***************************************************************************)
(* The step loop.                                                          *)
(***************************************************************************)

(* Seeded fault: what the step captured does not override.                 *)
MergeBase(base, overlay) == IF base = 0 THEN overlay ELSE base

Merge(base, overlay) == IF overlay = 0 THEN base ELSE overlay

(* The executor returns: the result is kept, what was captured is merged,  *)
(* whatever the status, and only a success goes on.                        *)
Returns(status, why) ==
    /\ results' = Append(results, [status |-> status, why |-> why, late |-> Overdue,
                                   gone |-> ctx.step = "cancelled"])
    /\ verdict' = IF status = "success" THEN verdict ELSE status
    /\ pc' = IF status = "success" THEN "loop" ELSE "done"
    /\ vars' = Merge(vars, captured)
    /\ local' = 0 /\ shared' = FALSE /\ captured' = 0 /\ left' = 0
    /\ ctx' = [ctx EXCEPT !.step = ctx.plan]
    /\ due' = [due EXCEPT !.step = FALSE]
    /\ UNCHANGED <<plan, at, latest, wrote>>

Completed ==
    /\ pc = "loop" /\ at = Len(plan.steps)
    /\ pc' = "done"
    /\ UNCHANGED <<plan, at, left, time, data, ends>>

(* Seeded fault: the step that is not begun any more gets a result, too.   *)
InterruptedStep ==
    /\ pc = "loop" /\ at < Len(plan.steps) /\ ctx.plan # "live"
    /\ Returns("timeout", "context")

(* ctx.Err() before the next step; a client that left is a timeout too.    *)
Interrupted ==
    /\ pc = "loop" /\ at < Len(plan.steps) /\ ctx.plan # "live"
    /\ pc' = "done" /\ verdict' = "timeout"
    /\ UNCHANGED <<plan, at, left, time, data, results>>

(* executeStep, up to where the executor first waits.                      *)
Begin ==
    /\ pc = "loop" /\ at < Len(plan.steps) /\ ctx.plan = "live"
    /\ at' = at + 1
    /\ LET s == plan.steps[at + 1]
       IN  /\ pc' = CASE s.kind = "http"  -> "pre"
                      [] s.kind = "ws"    -> "dial"
                      [] s.kind = "delay" -> "sleep"
           /\ left'   = IF s.kind = "ws" THEN s.rounds ELSE s.scripts
           /\ shared' = (s.kind = "http")
    /\ local' = vars
    /\ UNCHANGED <<plan, time, vars, captured, latest, wrote, ends>>

(* The configuration does not parse, or nobody knows the type.             *)
BadConfig ==
    /\ pc \in {"pre", "dial", "sleep"} /\ Step.bad
    /\ Returns("failed", "config")

Ready == at > 0 /\ ~Step.bad

-----------------------------------------------------------------------------
(***************************************************************************)
(* Scripts.  They run one after the other, under no context, each for five *)
(* seconds at most; ctx.vars is the map the step was given, until a script *)
(* assigns another one to it.                                              *)
(***************************************************************************)
Scripting == pc \in {"pre", "post"} /\ Ready /\ left > 0

(* ctx.vars.key = ...                                                      *)
ScriptAssigns ==
    /\ Scripting /\ wrote < MaxWrites
    /\ wrote' = wrote + 1
    /\ local' = wrote'
    /\ vars'   = IF shared THEN wrote' ELSE vars
    /\ latest' = IF shared THEN wrote' ELSE latest
    /\ UNCHANGED <<plan, at, pc, left, shared, captured, time, ends>>

(* ctx.vars = ...: the map of the step loop is out of reach from here on.  *)
ScriptReplaces ==
    /\ Scripting /\ wrote < MaxWrites
    /\ wrote' = wrote + 1
    /\ local' = wrote' /\ shared' = FALSE
    /\ UNCHANGED <<plan, at, pc, left, vars, captured, latest, time, ends>>

ScriptEnds ==
    /\ Scripting
    /\ left' = left - 1
    /\ UNCHANGED <<plan, at, pc, data, time, ends>>

(* It throws, is interrupted after its five seconds, or the list of them   *)
(* cannot be loaded, empty or not: before the request that is the end of   *)
(* the step, after it a remark.                                            *)
PreScriptFails ==
    /\ pc = "pre" /\ Ready /\ (left > 0 \/ Step.scripts = 0)
    /\ Returns("failed", "script")

PostScriptFails ==
    /\ pc = "post" /\ Scripting
    /\ pc' = "captures" /\ left' = 0
    /\ UNCHANGED <<plan, at, data, time, ends>>

-----------------------------------------------------------------------------
(***************************************************************************)
(* ExecuteHTTP.                                                            *)
(***************************************************************************)

(* WithTimeout and NewRequestWithContext, which a bad URL fails.           *)
BuildRequest ==
    /\ pc = "pre" /\ Ready /\ left = 0
    /\ pc' = "do"
    /\ UNCHANGED <<plan, at, left, data, time, ends>>

BuildFails ==
    /\ pc = "pre" /\ Ready /\ left = 0
    /\ Returns("failed", "config")

(* http.DefaultClient.Do returns the header ...                            *)
Responds ==
    /\ pc = "do"
    /\ pc' = "body"
    /\ UNCHANGED <<plan, at, left, data, time, ends>>

(* ... or an error, of the network's or the context's.                     *)
Refused ==
    /\ pc = "do"
    /\ Returns(TimeoutOr, "network")

DoInterrupted ==
    /\ pc = "do" /\ ctx.step # "live"
    /\ Returns(TimeoutOr, "context")

(* io.ReadAll: its error is a failure, be it the context's.                *)
BodyRead ==
    /\ pc = "body"
    /\ pc' = "post" /\ left' = Step.scripts
    /\ UNCHANGED <<plan, at, data, time, ends>>

BodyFails ==
    /\ pc = "body"
    /\ Returns("failed", "network")

BodyInterrupted ==
    /\ pc = "body" /\ ctx.step # "live"
    /\ Returns("failed", "body")

PostScriptsDone ==
    /\ pc = "post" /\ left = 0
    /\ pc' = "captures"
    /\ UNCHANGED <<plan, at, left, data, time, ends>>

(* executeCaptures: what a path does not find is captured as "".  An HTTP  *)
(* step's own assertions do not see it, a later round's do.                *)
Captures ==
    /\ captured' = wrote + 1 /\ wrote' = wrote + 1 /\ latest' = wrote'

HTTPCaptures ==
    /\ pc = "captures"
    /\ IF Step.captures THEN Captures
       ELSE UNCHANGED <<captured, wrote, latest>>
    /\ pc' = "assert"
    /\ UNCHANGED <<plan, at, left, vars, local, shared, time, ends>>

HTTPPasses ==
    /\ pc = "assert"
    /\ Returns("success", "checked")

HTTPAssertionFails ==
    /\ pc = "assert"
    /\ Returns("failed", "assertion")

-----------------------------------------------------------------------------
(***************************************************************************)
(* ExecuteWS.                                                              *)
(***************************************************************************)

(* DialContext; the copy of the variables for the rounds, and the read     *)
(* deadline of the connection, are made right after it.                    *)
Dialled ==
    /\ pc = "dial" /\ Ready
    /\ pc' = "send"
    /\ UNCHANGED <<plan, at, left, data, time, ends>>

DialFails ==
    /\ pc = "dial" /\ Ready
    /\ Returns(TimeoutOr, "network")

(* The dialer puts the deadline on the connection, too.                    *)
DialInterrupted ==
    /\ pc = "dial" /\ Ready /\ Overdue
    /\ Returns(TimeoutOr, IF ctx.step = "deadline" THEN "context" ELSE "early")

(* A round renders its message and sends it, if it has one.                *)
Sends ==
    /\ pc = "send"
    /\ pc' = "recv"
    /\ UNCHANGED <<plan, at, left, data, time, ends>>

SendFails ==
    /\ pc = "send"
    /\ Returns("failed", "network")

(* A message that matches; the others change nothing.                      *)
Receives ==
    /\ pc = "recv"
    /\ IF Step.captures
       THEN Captures /\ local' = wrote'
       ELSE UNCHANGED <<local, captured, wrote, latest>>
    /\ pc' = "taken"
    /\ UNCHANGED <<plan, at, left, vars, shared, time, ends>>

RecvFails ==
    /\ pc = "recv"
    /\ Returns(TimeoutOr, "network")

(* The read deadline is the context's, so the connection may be the first  *)
(* to notice; nothing ends a read when the client leaves.                  *)
RecvInterrupted ==
    /\ pc = "recv" /\ Overdue
    /\ Returns(TimeoutOr, IF ctx.step = "deadline" THEN "context" ELSE "early")

RoundPasses ==
    /\ pc = "taken"
    /\ IF left > 1 THEN /\ left' = left - 1 /\ pc' = "send"
                        /\ UNCHANGED <<plan, at, data, time, ends>>
       ELSE Returns("success", "checked")

RoundAssertionFails ==
    /\ pc = "taken"
    /\ Returns("failed", "assertion")

-----------------------------------------------------------------------------
(***************************************************************************)
(* ExecuteDelay: a timer and the plan's context, the step's timeout is not *)
(* looked at.                                                              *)
(***************************************************************************)
Sleeps ==
    /\ pc = "sleep" /\ Ready
    /\ Returns("success", "checked")

(* Seeded fault: the delay does not wait for the context.                  *)
SleepInterruptedNever == FALSE /\ UNCHANGED svars

SleepInterrupted ==
    /\ pc = "sleep" /\ Ready /\ ctx.step # "live"
    /\ Returns(TimeoutOr, "context")

-----------------------------------------------------------------------------
(* What the program does by itself, and what others do.                    *)
Program ==
    \/ Completed \/ Interrupted \/ Begin \/ BadConfig
    \/ BuildRequest \/ BuildFails \/ PostScriptsDone
    \/ HTTPCaptures \/ HTTPPasses \/ HTTPAssertionFails
    \/ Sends \/ SendFails \/ RoundPasses \/ RoundAssertionFails

Woken == DoInterrupted \/ BodyInterrupted \/ DialInterrupted \/ RecvInterrupted
         \/ SleepInterrupted

Scripts ==
    ScriptAssigns \/ ScriptReplaces \/ ScriptEnds \/ PreScriptFails \/ PostScriptFails

Others ==
    \/ Responds \/ Refused \/ BodyRead \/ BodyFails \/ Dialled \/ DialFails
    \/ Receives \/ RecvFails \/ Sleeps \/ Cancel

Clock == PlanDeadline \/ StepDeadline \/ PlanExpires \/ StepExpires

Next == Program \/ Woken \/ Scripts \/ Others \/ Clock

Spec == Init /\ [][Next]_svars

(* The goroutine runs, time passes and timers fire, a script ends within   *)
(* its five seconds; servers and delays owe nothing.                       *)
FairSpec ==
    /\ Spec
    /\ WF_svars(Program) /\ WF_svars(Woken)
    /\ WF_svars(ScriptEnds \/ PreScriptFails \/ PostScriptFails)
    /\ WF_svars(PlanDeadline) /\ WF_svars(StepDeadline)
    /\ WF_svars(PlanExpires) /\ WF_svars(StepExpires)

-----------------------------------------------------------------------------
(***************************************************************************)
(* Properties.                                                             *)
(***************************************************************************)
Whys == {"config", "script", "network", "context", "early", "body", "assertion",
         "checked"}

TypeOK ==
    /\ plan \in Plans /\ at \in 0..Len(plan.steps) /\ pc \in PCs
    /\ pc \in Working => at > 0
    /\ left \in Nat
    /\ ctx \in [plan : Errs, step : Errs]
    /\ due \in [plan : BOOLEAN, step : BOOLEAN]
    /\ {vars, local, captured, latest} \subseteq 0..wrote
    /\ shared \in BOOLEAN /\ wrote \in Nat
    /\ results \in Seq([status : Statuses, why : Whys, late : BOOLEAN, gone : BOOLEAN])
    /\ Len(results) = IF pc \in Working THEN at - 1 ELSE at
    /\ verdict \in Statuses

(* What a step renders holds the last value that anything before it gave   *)
(* the variable: a capture of an earlier step or round, or an assignment   *)
(* a script made to the map that was handed to it.                         *)
RendersLatest ==
    /\ pc = "loop" => vars = latest
    /\ pc = "send" => local = latest

(* The verdict of a run is that of its steps: they succeeded but for the   *)
(* last; a success was checked to its end; a timeout is a deadline that    *)
(* passed, or the loop's answer to a context that is done; and a deadline  *)
(* that interrupts a step comes out as a timeout, except while a body is   *)
(* read, or when the connection noticed it before the context did.         *)
VerdictTrue ==
    /\ \A i \in DOMAIN results :
          /\ i < Len(results) => results[i].status = "success"
          /\ results[i].status = "success" <=> results[i].why = "checked"
          /\ results[i].status = "timeout" => results[i].late
          /\ results[i].why = "context" /\ ~results[i].gone =>
                results[i].status = "timeout"
    /\ pc = "done" =>
          CASE verdict = "success" -> /\ Len(results) = Len(plan.steps)
                                      /\ \A i \in DOMAIN results :
                                            results[i].status = "success"
            [] verdict = "timeout" -> \/ results # <<>> /\ results[at].status = "timeout"
                                      \/ ctx.plan # "live" /\ at < Len(plan.steps)
            [] verdict = "failed"  -> results # <<>> /\ results[at].status = "failed"

(* To whoever called Execute, the executors with their scripts, captures   *)
(* and deadlines are nothing but the steps of StepLoop, as Runner has it.  *)
LoopPhase ==
    CASE pc = "loop" -> "loop" [] pc = "done" -> "over" [] OTHER -> "step"

Reported == [i \in DOMAIN results |-> results[i].status]

Loop == INSTANCE StepLoop WITH
    phase <- LoopPhase, total <- Len(plan.steps), reported <- Reported,
    ended <- ctx.plan # "live"

ImplementsStepLoop == Loop!Spec

(* A step that has a deadline ends; one that waits under a context that is *)
(* done ends as well, unless it waits for a WebSocket message, which only  *)
(* a deadline interrupts.                                                  *)
StepsEnd ==
    \A i \in UNION {DOMAIN p.steps : p \in Plans} :
        (at = i /\ pc \in Working
            /\ (HasDeadline \/ (ctx.plan # "live" /\ Step.kind # "ws")))
        ~> ~(at = i /\ pc \in Working)
=============================================================================
