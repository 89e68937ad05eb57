------------------------------ MODULE Scripts ------------------------------
(***************************************************************************)
(* The script library and its bindings to plans and steps: ScriptHandler   *)
(* over ScriptStore.  A binding refers to its script by a foreign key with *)
(* ON DELETE CASCADE, and to its plan or step by a bare id: plans and steps *)
(* come and go without a trace here, and a binding may be left of one that *)
(* is gone.  A request takes one step per statement.                       *)
(***************************************************************************)
EXTENDS Integers, FiniteSets

CONSTANTS
    Scripts,       \* script IDs, drawn or still to be drawn
    PlanTargets,   \* plans a script may be bound to
    StepTargets,   \* steps a script may be bound to
    Admins,        \* goroutines serving requests
    NoScript

Targets == PlanTargets \union StepTargets

ASSUME ScriptAssumption ==
    /\ NoScript \notin Scripts
    /\ PlanTargets \intersect StepTargets = {}
    /\ IsFiniteSet(Targets)

VARIABLES
    script,   \* the scripts table: which rows there are
    bound,    \* plan_scripts and step_scripts: pairs of target and script
    req,      \* the request each admin goroutine serves
    late      \* history: what was bound since the request began

vars == <<script, bound, req, late>>

Pairs == Targets \X Scripts

(* counted: what ReferenceCount has added up; blind: a count was an error, *)
(* which Delete ignores.                                                   *)
Request(pc, s, force) == [pc |-> pc, script |-> s, force |-> force,
                          counted |-> 0, blind |-> FALSE]
Idle == Request("idle", NoScript, FALSE)

BindingsOf(s) == {b \in bound : b[2] = s}

Init ==
    /\ script = [s \in Scripts |-> "unborn"]
    /\ bound  = {}
    /\ req    = [a \in Admins |-> Idle]
    /\ late   = [a \in Admins |-> {}]

Accept(a, r) ==
    /\ req[a].pc = "idle"
    /\ req' = [req EXCEPT ![a] = r]
    /\ late' = [late EXCEPT ![a] = {}]

Finish(a) ==
    /\ req' = [req EXCEPT ![a] = Idle]
    /\ late' = [late EXCEPT ![a] = {}]

-----------------------------------------------------------------------------
(* POST /scripts.                                                          *)
Create(s) ==
    /\ script[s] = "unborn"
    /\ script' = [script EXCEPT ![s] = "live"]
    /\ UNCHANGED <<bound, req, late>>

(* PATCH /scripts/:id reads the script and saves it; Save inserts a row    *)
(* that is gone.                                                           *)
ReadScript(a, s) ==
    /\ script[s] = "live"
    /\ Accept(a, Request("save", s, FALSE))
    /\ UNCHANGED <<script, bound>>

SaveScript(a) ==
    /\ req[a].pc = "save"
    /\ script' = [script EXCEPT ![req[a].script] = "live"]
    /\ Finish(a)
    /\ UNCHANGED bound

(* BindToPlan and BindToStep: the foreign key wants the script, nothing    *)
(* wants the plan or the step; a pair is unique.                           *)
Bind(t, s) ==
    /\ script[s] = "live"
    /\ <<t, s>> \notin bound
    /\ bound' = bound \union {<<t, s>>}
    /\ late' = [a \in Admins |-> IF req[a].pc = "idle" THEN {}
                                 ELSE late[a] \union {<<t, s>>}]
    /\ UNCHANGED <<script, req>>

Unbind(t, s) ==
    /\ <<t, s>> \in bound
    /\ bound' = bound \ {<<t, s>>}
    /\ UNCHANGED <<script, req, late>>

(***************************************************************************)
(* ScriptHandler.Delete: ReferenceCount counts the plans, then the steps;  *)
(* unless both are 0 or the request says force, the answer is 409.  An     *)
(* error of ReferenceCount leaves what it has not counted at 0.            *)
(***************************************************************************)
BeginDelete(a, s) ==
    /\ \E force \in BOOLEAN : Accept(a, Request("countPlans", s, force))
    /\ script[s] # "unborn"
    /\ UNCHANGED <<script, bound>>

CountPlans(a) ==
    LET s == req[a].script IN
    /\ req[a].pc = "countPlans"
    /\ req' = [req EXCEPT ![a] =
                 [@ EXCEPT !.pc = "countSteps",
                           !.counted = Cardinality({t \in PlanTargets : <<t, s>> \in bound})]]
    /\ UNCHANGED <<script, bound, late>>

(* The delete goes on with what has been counted, or is refused.           *)
Decide(a, n, blind) ==
    IF n > 0 /\ ~req[a].force
    THEN Finish(a)
    ELSE /\ req' = [req EXCEPT ![a] = [@ EXCEPT !.pc = "drop", !.blind = blind]]
         /\ UNCHANGED late

(* Seeded fault: the steps are not counted.                                *)
CountStepsNot(a) ==
    /\ req[a].pc = "countSteps"
    /\ Decide(a, req[a].counted, FALSE)
    /\ UNCHANGED <<script, bound>>

CountSteps(a) ==
    LET s == req[a].script IN
    /\ req[a].pc = "countSteps"
    /\ Decide(a, req[a].counted
                   + Cardinality({t \in StepTargets : <<t, s>> \in bound}), FALSE)
    /\ UNCHANGED <<script, bound>>

CountFails(a) ==
    /\ req[a].pc \in {"countPlans", "countSteps"}
    /\ Decide(a, req[a].counted, TRUE)
    /\ UNCHANGED <<script, bound>>

(* Seeded fault: the bindings stay.                                        *)
DropRowOnly(a) ==
    /\ req[a].pc = "drop"
    /\ script' = [script EXCEPT ![req[a].script] = "gone"]
    /\ Finish(a)
    /\ UNCHANGED bound

(* The row goes, if it is there, and its bindings with it.                 *)
Drop(a) ==
    LET s == req[a].script IN
    /\ req[a].pc = "drop"
    /\ script' = [script EXCEPT ![s] = "gone"]
    /\ bound' = bound \ BindingsOf(s)
    /\ Finish(a)

Next ==
    \/ \E s \in Scripts : Create(s)
    \/ \E t \in Targets, s \in Scripts : Bind(t, s) \/ Unbind(t, s)
    \/ \E a \in Admins, s \in Scripts : ReadScript(a, s) \/ BeginDelete(a, s)
    \/ \E a \in Admins : SaveScript(a) \/ CountPlans(a) \/ CountSteps(a)
                         \/ CountFails(a) \/ Drop(a)

Spec == Init /\ [][Next]_vars

-----------------------------------------------------------------------------
(* Every variable stays in its type, and a binding has its script.         *)
TypeOK ==
    /\ script \in [Scripts -> {"unborn", "live", "gone"}]
    /\ bound \subseteq Pairs
    /\ \A b \in bound : script[b[2]] = "live"
    /\ \A a \in Admins :
          /\ req[a].pc \in {"idle", "save", "countPlans", "countSteps", "drop"}
          /\ req[a].script \in Scripts \union {NoScript}
          /\ req[a].force \in BOOLEAN /\ req[a].blind \in BOOLEAN
          /\ req[a].counted \in 0..Cardinality(PlanTargets)
          /\ late[a] \subseteq Pairs

(* A delete that nobody confirmed takes no binding with it, except one     *)
(* made while the delete was under way, and unless a count was an error:   *)
(* the two counts and the DELETE are three statements, and a binding can   *)
(* come, go, or move between a plan and a step while they run.             *)
SparesWhatItCounted ==
    \A a \in Admins :
        req[a].pc = "drop" /\ ~req[a].force /\ ~req[a].blind =>
            BindingsOf(req[a].script) \subseteq late[a]
=============================================================================
