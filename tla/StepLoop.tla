------------------------------ MODULE StepLoop ------------------------------
(***************************************************************************)
(* The step loop of Runner.Execute as the two sides of executeStep see it: *)
(* a step may take any time and end with any verdict, whatever its context *)
(* says, and the loop reports it, goes on after a success and begins no    *)
(* step once the context is done.  Runner, which knows nothing of steps,   *)
(* implements this module for each of its callers; Steps, which knows      *)
(* nothing of callers, implements it with the executors inside.            *)
(***************************************************************************)
EXTENDS Naturals, Sequences

VARIABLES
    phase,     \* idle, loop (between two steps), step (in one) or over
    total,     \* how many steps there are
    reported,  \* the verdicts of the steps that have ended
    verdict,   \* the verdict of the run so far
    ended      \* the context of the run is done

lvars == <<phase, total, reported, verdict, ended>>

Verdicts == {"success", "failed", "timeout"}

(* No run, and a run that has been set up.                                 *)
Idle  == phase = "idle" /\ total = 0 /\ reported = <<>> /\ verdict = "success"
Fresh == phase = "loop" /\ total \in Nat /\ reported = <<>> /\ verdict = "success"

Init == (Idle \/ Fresh) /\ ended = FALSE

Start ==
    /\ phase = "idle"
    /\ Fresh'
    /\ UNCHANGED ended

(* The deadline of the plan, or the client that has left.                  *)
ContextEnds ==
    /\ ~ended /\ ended'
    /\ UNCHANGED <<phase, total, reported, verdict>>

BeginStep ==
    /\ phase = "loop" /\ Len(reported) < total /\ ~ended
    /\ phase' = "step"
    /\ UNCHANGED <<total, reported, verdict, ended>>

StepReturns(status) ==
    /\ phase = "step"
    /\ reported' = Append(reported, status)
    /\ verdict' = status
    /\ phase' = IF status = "success" THEN "loop" ELSE "over"
    /\ UNCHANGED <<total, ended>>

Completes ==
    /\ phase = "loop" /\ Len(reported) = total
    /\ phase' = "over"
    /\ UNCHANGED <<total, reported, verdict, ended>>

Interrupted ==
    /\ phase = "loop" /\ Len(reported) < total /\ ended
    /\ phase' = "over" /\ verdict' = "timeout"
    /\ UNCHANGED <<total, reported, ended>>

(* The run is gone, at its end, by a panic or with the process, and its    *)
(* context with it or a little later.                                      *)
Leave ==
    /\ Idle'
    /\ ended' => ended

Next ==
    \/ Start \/ ContextEnds \/ BeginStep \/ Completes \/ Interrupted \/ Leave
    \/ \E status \in Verdicts : StepReturns(status)

Spec == Init /\ [][Next]_lvars
=============================================================================
