----------------------------- MODULE Execution -----------------------------
(***************************************************************************)
(* What the callers of Runner.Execute do with its result: trim it, store a *)
(* log row, and, in a cron job only, record the metrics; then the handlers *)
(* answer.  All of it happens after the plan's mutex has been given back,  *)
(* so the next run of the plan may overtake it.                            *)
(***************************************************************************)
EXTENDS Runner

CONSTANTS
    HTTPPlans,   \* the plans whose steps are HTTP requests
    MaxRuns      \* bound on the runs that have returned or are under way

ASSUME ExecutionAssumption == HTTPPlans \subseteq Plans /\ MaxRuns \in Nat

VARIABLES
    report,    \* per caller: how far it is with the result of its run
    rows,      \* exec_logs
    metrics,   \* plan_up, plan_executions_total, step_http_responses_total
    ended,     \* history: the results that Execute has returned
    boot,      \* history: how many of them came before the last restart
    lost       \* history: the runs whose row was not stored

tailVars == <<report, rows, metrics, ended, boot, lost>>
allVars  == <<vars, tailVars>>

(* stage: none, trimmed, saved, unsaved or counted; run: the place of the  *)
(* run in ended; got: the responses its HTTP steps have received; trimmed: *)
(* the step results have lost their details.                               *)
Stages   == {"none", "trimmed", "saved", "unsaved", "counted"}
Report   == [stage : Stages, run : Nat, got : Nat, trimmed : BOOLEAN]
NoReport == [stage |-> "none", run |-> 0, got |-> 0, trimmed |-> FALSE]

LogRow   == [run : Nat, plan : Plans, status : Verdicts, full : BOOLEAN]
Returned == [plan : Plans, status : Verdicts, cause : Causes, cron : BOOLEAN]

(* A plan_up that has never been set is no series at all.                  *)
NoMetrics == [up        |-> [p \in Plans |-> "unset"],
              total     |-> [p \in Plans |-> [v \in Verdicts |-> 0]],
              responses |-> [p \in Plans |-> 0]]

ExecInit ==
    /\ Init
    /\ report  = [c \in Callers |-> NoReport]
    /\ rows    = {}
    /\ metrics = NoMetrics
    /\ ended   = <<>>
    /\ boot    = 0
    /\ lost    = {}

Reports(c, r) == report' = [report EXCEPT ![c] = r]

Stage(c, stage) == Reports(c, [report[c] EXCEPT !.stage = stage])

(***************************************************************************)
(* The steps of Runner.                                                    *)
(***************************************************************************)
Begin(c) ==
    /\ Len(ended) + Cardinality({d \in Callers : pc[d] # "idle"}) < MaxRuns
    /\ Load(c)
    /\ UNCHANGED tailVars

(* Those that say nothing of the result.                                   *)
Silent(c) ==
    /\ \/ GetPlanLock(c) \/ ProbeFree(c) \/ ProbeBusy(c) \/ ProbeRelease(c)
       \/ Acquire(c) \/ CountRunning(c) \/ AllStepsRun(c) \/ ContextDone(c)
       \/ StartStep(c) \/ UncountRunning(c) \/ Conflict(c)
    /\ UNCHANGED tailVars

(* A success of an HTTP step has its response, a timeout has none, and a   *)
(* failure may have come before the response or been found in it.          *)
Responses(p, verdict) ==
    IF p \notin HTTPPlans THEN {0}
    ELSE CASE verdict = "success" -> {1}
           [] verdict = "timeout" -> {0}
           [] OTHER               -> {0, 1}

StepEnds(c) ==
    /\ StepReturns(c)
    /\ \E n \in Responses(job[c].plan, result'[c].status) :
          Reports(c, [report[c] EXCEPT !.got = @ + n])
    /\ UNCHANGED <<rows, metrics, ended, boot, lost>>

Panics(c) == StepPanics(c) /\ UNCHANGED tailVars

Flushed(c) == EventSent(c) /\ UNCHANGED tailVars

ContextEnds(c) == (DeadlineExpires(c) \/ ClientLeaves(c)) /\ UNCHANGED tailVars

(* Execute returns, after the unlock or because the plan is busy.          *)
ExecuteReturns(c) ==
    /\ Release(c) \/ Rejected(c)
    /\ IF pc'[c] = "returned"
       THEN /\ ended' = Append(ended, [plan   |-> job[c].plan,
                                       status |-> result'[c].status,
                                       cause  |-> result'[c].cause,
                                       cron   |-> c \in CronJobs])
            /\ Reports(c, [report[c] EXCEPT !.run = Len(ended) + 1])
       ELSE UNCHANGED <<ended, report>>
    /\ UNCHANGED <<rows, metrics, boot, lost>>

(* A panic: nothing is stored or counted.                                  *)
Answers500(c) ==
    /\ Recovered(c)
    /\ Reports(c, NoReport)
    /\ UNCHANGED <<rows, metrics, ended, boot, lost>>

(***************************************************************************)
(* What follows Execute.                                                   *)
(***************************************************************************)
At(c, stage) == pc[c] = "returned" /\ report[c].stage = stage

(* Seeded fault: a run is trimmed whatever its verdict.                    *)
TrimmableAny(c) == IF job[c].trims THEN BOOLEAN ELSE {FALSE}

(* TrimResultsIfNeeded: a success, if it was faster than the plan's        *)
(* threshold.                                                              *)
Trimmable(c) ==
    IF job[c].trims /\ result[c].status = "success" THEN BOOLEAN ELSE {FALSE}

(* Seeded fault: Stream sends its done event before it stores the row, and *)
(* so waits for a client that may not read.                                *)
TrimResultsStalled(c) ==
    /\ At(c, "none")
    /\ c \in StreamReqs => ctx[c] # "live"
    /\ \E t \in Trimmable(c) :
          Reports(c, [report[c] EXCEPT !.stage = "trimmed", !.trimmed = t])
    /\ UNCHANGED <<vars, rows, metrics, ended, boot, lost>>

TrimResultsIfNeeded(c) ==
    /\ At(c, "none")
    /\ \E t \in Trimmable(c) :
          Reports(c, [report[c] EXCEPT !.stage = "trimmed", !.trimmed = t])
    /\ UNCHANGED <<vars, rows, metrics, ended, boot, lost>>

Store(c) ==
    /\ At(c, "trimmed")
    /\ rows' = rows \union {[run |-> report[c].run, plan |-> job[c].plan,
                             status |-> result[c].status,
                             full |-> ~report[c].trimmed]}
    /\ Stage(c, "saved")
    /\ UNCHANGED <<vars, metrics, ended, boot, lost>>

(* The INSERT fails: a cron job logs it and goes on, Exec answers 500,     *)
(* Stream ignores it.                                                      *)
StoreFails(c) ==
    /\ At(c, "trimmed")
    /\ lost' = lost \union {report[c].run}
    /\ Stage(c, "unsaved")
    /\ UNCHANGED <<vars, rows, metrics, ended, boot>>

(* RecordPlanExecution reads the result after it has been trimmed.         *)
Recorded(c) ==
    LET p == job[c].plan
        v == result[c].status
    IN  [up        |-> [metrics.up EXCEPT ![p] = IF v = "success" THEN "1" ELSE "0"],
         total     |-> [metrics.total EXCEPT ![p][v] = @ + 1],
         responses |-> [metrics.responses EXCEPT ![p] =
                            @ + IF report[c].trimmed THEN 0 ELSE report[c].got]]

(* Seeded fault: the job returns when its row could not be stored.         *)
RecordSaved(c) ==
    /\ c \in CronJobs
    /\ At(c, "saved") \/ At(c, "unsaved")
    /\ metrics' = IF At(c, "saved") THEN Recorded(c) ELSE metrics
    /\ Stage(c, "counted")
    /\ UNCHANGED <<vars, rows, ended, boot, lost>>

RecordPlanExecution(c) ==
    /\ c \in CronJobs
    /\ At(c, "saved") \/ At(c, "unsaved")
    /\ metrics' = Recorded(c)
    /\ Stage(c, "counted")
    /\ UNCHANGED <<vars, rows, ended, boot, lost>>

Quit(c) ==
    /\ Leave(c)
    /\ Reports(c, NoReport)
    /\ UNCHANGED <<rows, metrics, ended, boot, lost>>

JobOver(c)  == c \in CronJobs /\ At(c, "counted") /\ Quit(c)

(* 200 with the row's id, or 500 if there is none.                         *)
Replies(c)  == c \in ExecReqs /\ (At(c, "saved") \/ At(c, "unsaved")) /\ Quit(c)

(* The done event; its write waits for a client that does not read.        *)
DoneSent(c) == c \in StreamReqs /\ (At(c, "saved") \/ At(c, "unsaved")) /\ Quit(c)

(* The process dies and starts anew: rows stay, metrics do not.            *)
Unstored == {c \in Callers : At(c, "none") \/ At(c, "trimmed")}

Reboot ==
    /\ Restart
    /\ report'  = [c \in Callers |-> NoReport]
    /\ metrics' = NoMetrics
    /\ boot'    = Len(ended)
    /\ lost'    = lost \union {report[c].run : c \in Unstored}
    /\ UNCHANGED <<rows, ended>>

(* What a caller does by itself; the other steps are the environment's.    *)
Proceeds(c) ==
    \/ Silent(c) \/ ExecuteReturns(c) \/ Answers500(c)
    \/ TrimResultsIfNeeded(c) \/ Store(c) \/ StoreFails(c)
    \/ RecordPlanExecution(c) \/ JobOver(c) \/ Replies(c)

ExecNext ==
    \/ \E c \in Callers :
          \/ Begin(c) \/ Proceeds(c) \/ DoneSent(c)
          \/ StepEnds(c) \/ Panics(c) \/ Flushed(c) \/ ContextEnds(c)
    \/ Reboot

ExecSpec == ExecInit /\ [][ExecNext]_allVars

(* As in Runner: runnable goroutines run, timers fire, and a step returns  *)
(* once its context is done.  A statement gets an answer from the database *)
(* or an error.  No client of Stream is assumed to read.                   *)
ExecFairness ==
    \A c \in Callers :
        /\ WF_allVars(Proceeds(c))
        /\ WF_allVars(DeadlineExpires(c) /\ UNCHANGED tailVars)
        /\ WF_allVars(ctx[c] # "live" /\ StepEnds(c))

ExecFairSpec == ExecSpec /\ ExecFairness

-----------------------------------------------------------------------------
(* Every variable stays in its type.                                       *)
ExecTypeOK ==
    /\ TypeOK
    /\ report \in [Callers -> Report]
    /\ rows \subseteq LogRow
    /\ metrics.up \in [Plans -> {"unset", "0", "1"}]
    /\ metrics.total \in [Plans -> [Verdicts -> Nat]]
    /\ metrics.responses \in [Plans -> Nat]
    /\ ended \in Seq(Returned)
    /\ boot \in 0..Len(ended)
    /\ lost \subseteq 1..Len(ended)

(* A run that has returned has one row, or will have it from the caller    *)
(* that still holds its result, or has lost it to a failed INSERT or a     *)
(* crash; never two of these, however callers overtake each other.  The    *)
(* row says what the run said, and only a success is without its details.  *)
LoggedOnce ==
    /\ \A r \in rows :
          /\ r.run \in DOMAIN ended
          /\ r.plan = ended[r.run].plan /\ r.status = ended[r.run].status
          /\ ~r.full => r.status = "success"
          /\ \A q \in rows : q.run = r.run => q = r
    /\ \A i \in DOMAIN ended :
          LET stored == \E r \in rows : r.run = i
              held   == {c \in Unstored : report[c].run = i}
          IN  /\ Cardinality(held) <= 1
              /\ stored => held = {} /\ i \notin lost
              /\ i \in lost => held = {}
              /\ held = {} => stored \/ i \in lost

(* What plan_executions_total is: the number of results that cron firings  *)
(* have got from Execute in this process, by verdict, each once and also   *)
(* when its row was lost.  It is not what prometheus.go:62 calls it, the   *)
(* "Total number of plan executions.", and README.md:189 with it: a run of *)
(* Exec or Stream has executed the plan and is not counted, and a firing   *)
(* that the plan's mutex turned away has executed nothing and is counted   *)
(* as failed.                                                              *)
CountsExact ==
    \A p \in Plans : \A v \in Verdicts :
        metrics.total[p][v] =
            Cardinality({i \in (boot + 1)..Len(ended) :
                            ended[i].cron /\ ended[i].plan = p /\ ended[i].status = v})
          - Cardinality({c \in CronJobs :
                            /\ pc[c] = "returned" /\ report[c].stage # "counted"
                            /\ job[c].plan = p /\ result[c].status = v})

(* The row of a run does not wait for anybody: it is stored, or its INSERT *)
(* fails, even when the client of a Stream request has stopped reading.    *)
RunIsLogged ==
    \A c \in Callers :
        (pc[c] = "returned") ~>
            (pc[c] = "idle" \/ report[c].stage \notin {"none", "trimmed"})

(* prometheus.go:95: step_http_responses_total is the "total HTTP          *)
(* responses by status class": a cron run adds those its steps have got.   *)
ResponsesCounted ==
    [][\A c \in CronJobs :
          report[c].stage # "counted" /\ report'[c].stage = "counted" =>
              metrics'.responses[job[c].plan]
                  = metrics.responses[job[c].plan] + report[c].got]_allVars
=============================================================================
