---------------------------- MODULE MCScheduler ----------------------------
(* Scheduler on a small instance.                                          *)
EXTENDS Scheduler, TLC

(* Plans, entry IDs, schedules and goroutines are interchangeable.         *)
Symmetry == Permutations(Plans) \union Permutations(EntryIDs)
            \union Permutations(Crons) \union Permutations(Admins)

(* What is left of a state for what can still happen.  The gauges and the  *)
(* counts on their way to them are never read again.  Of the rows a job    *)
(* has seen it matters whether the present one is among them, since every  *)
(* later one will be, and once it has loaded one, only FreshRuns asks.     *)
Remaining ==
    <<row, entries, registered, ticking, phase, overlapped,
      [a \in Admins |-> IF req[a].pc = "idle" THEN <<>>
                        ELSE <<req[a].pc, req[a].plan, req[a].row, req[a].id>>],
      [j \in Jobs |->
          LET p == job[j].plan
          IN  CASE job[j].pc = "idle"  -> <<>>
                [] job[j].pc = "fetch" -> <<p, row[p] \in job[j].seen>>
                [] OTHER               -> <<job[j].pc>>],
      FreshRuns>>

=============================================================================
