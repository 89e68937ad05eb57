---------------------------- MODULE MCExecution ----------------------------
(* Execution, and the Runner under it, on a small instance: one goroutine  *)
(* of each kind, one plan.                                                 *)
EXTENDS Execution

CONSTANT p1

(* The plan as it is first: two HTTP steps, a timeout, a detail threshold; *)
(* and after an edit: every step deleted, the timeout 0, no threshold.     *)
EditedPlan ==
    {[plan |-> p1, steps |-> 2, timed |-> TRUE, trims |-> TRUE],
     [plan |-> p1, steps |-> 0, timed |-> FALSE, trims |-> FALSE]}

(* The first one with a single step.                                       *)
OneStepPlan == {[plan |-> p1, steps |-> 1, timed |-> TRUE, trims |-> TRUE]}
=============================================================================
