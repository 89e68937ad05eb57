----------------------------- MODULE MCStepList -----------------------------
(* StepList on a small instance: one plan and one to clone it to.          *)
EXTENDS StepList

(* IDs are drawn, never chosen, and goroutines are alike.                  *)
Symmetry == Permutations(Plans) \union Permutations(Steps)
                \union Permutations(Admins)

(* Bound: the instance ends once both plans are there.  Their rows and     *)
(* requests are independent, and a clone is a plan like any other.         *)
OnePlan == \E p \in Plans : plans[p] # "live"
=============================================================================
