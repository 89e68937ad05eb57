------------------------------ MODULE PlanRuns ------------------------------
(***************************************************************************)
(* What the execution engine promises of a plan, without locks, contexts   *)
(* or goroutines: a plan is run by at most one caller at a time, a run     *)
(* reports its steps one after the other, a step that did not succeed is   *)
(* the last one it reports, and a restart of the process drops every run.  *)
(* Runner.tla implements this module.                                      *)
(***************************************************************************)
EXTENDS Sequences

CONSTANTS Plans, Callers

VARIABLES
    active,    \* active[p]: the callers that are running plan p
    progress   \* progress[c]: the step verdicts the run of c has reported

avars == <<active, progress>>

Verdicts == {"success", "failed", "timeout"}

AllSucceeded(verdicts) == \A i \in DOMAIN verdicts : verdicts[i] = "success"

Init ==
    /\ active = [p \in Plans |-> {}]
    /\ progress = [c \in Callers |-> <<>>]

Begin(p, c) ==
    /\ active[p] = {}
    /\ active' = [active EXCEPT ![p] = {c}]
    /\ UNCHANGED progress

Report(p, c, verdict) ==
    /\ active[p] = {c}
    /\ AllSucceeded(progress[c])
    /\ progress' = [progress EXCEPT ![c] = Append(@, verdict)]
    /\ UNCHANGED active

End(p, c) ==
    /\ active[p] = {c}
    /\ active' = [active EXCEPT ![p] = {}]
    /\ progress' = [progress EXCEPT ![c] = <<>>]

Restart ==
    /\ active' = [p \in Plans |-> {}]
    /\ progress' = [c \in Callers |-> <<>>]

Next ==
    \/ \E p \in Plans, c \in Callers :
          \/ Begin(p, c)
          \/ \E verdict \in Verdicts : Report(p, c, verdict)
          \/ End(p, c)
    \/ Restart

Spec == Init /\ [][Next]_avars

=============================================================================
