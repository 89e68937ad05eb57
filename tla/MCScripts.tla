----------------------------- MODULE MCScripts -----------------------------
(* Scripts on a small instance.                                            *)
EXTENDS Scripts, TLC

Symmetry == Permutations(PlanTargets) \union Permutations(StepTargets)
                \union Permutations(Admins)
=============================================================================
