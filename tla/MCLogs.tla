------------------------------- MODULE MCLogs -------------------------------
(* Logs on a small instance: pages of one row.                             *)
EXTENDS Logs

(* The log page of a plan, with and without a status and a time range, and *)
(* the error page of all plans.                                            *)
Everything == [plans |-> Plans, statuses |-> Statuses, from |-> 0, to |-> MaxTime]
Pages == {Everything,
          [Everything EXCEPT !.statuses = Failures, !.from = 1]}
=============================================================================
