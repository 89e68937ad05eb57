----------------------------- MODULE Scheduler -----------------------------
(***************************************************************************)
(* engine.Scheduler between the plans table and the cron library: the      *)
(* handlers of /plans that write a row and then tell the scheduler         *)
(* (PlanHandler), the scheduler's map from plan to cron entry, the entries *)
(* cron itself holds, the jobs cron starts, and the life of the process    *)
(* (Start, Stop, crash).                                                   *)
(*                                                                         *)
(* A request is a goroutine.  It takes one step per database statement,    *)
(* per call into cron and per section under Scheduler.mu, since other      *)
(* requests and jobs run in between.  What a job does once it has decided  *)
(* to execute its plan is the subject of Runner.tla.                       *)
(***************************************************************************)
EXTENDS Integers, FiniteSets

CONSTANTS
    Plans,      \* plan IDs, used or still to be drawn by uuid.New
    Crons,      \* schedules; the handlers store none that cron cannot parse
    Admins,     \* goroutines serving requests on /plans
    Jobs,       \* goroutines cron may have running at once
    EntryIDs,   \* cron.EntryIDs: bounds how many entries cron holds at once
    NoEntry,    \* no key in Scheduler.entries
    NoCron

ASSUME SchedulerAssumption ==
    /\ NoEntry \notin EntryIDs
    /\ NoCron \notin Crons
    /\ Plans # {}

ASSUME FinitePlans == IsFiniteSet(Plans)

VARIABLES
    row,         \* the plans table: a row, or why there is none
    entries,     \* Scheduler.entries
    registered,  \* what cron holds
    ticking,     \* whether cron runs, that is, fires what it holds
    phase,       \* the process: down, serving, stopping, draining
    req,         \* the request each admin goroutine serves
    job,         \* the run of executePlan of each job goroutine
    gauges,      \* watchcat_plans_registered and watchcat_plans_enabled
    overlapped   \* history: the plans two requests changed at the same time

memory == <<entries, registered, ticking>>
vars == <<row, entries, registered, ticking, phase, req, job, gauges, overlapped>>

Row    == [state : {"live"}, enabled : BOOLEAN, cron : Crons]
Unborn == [state |-> "unborn", enabled |-> FALSE, cron |-> NoCron]
Gone   == [state |-> "gone", enabled |-> FALSE, cron |-> NoCron]
Rows == Row \union {Unborn, Gone}
Live(r) == r.state = "live"

Entry == [id : EntryIDs, plan : Plans, cron : Crons]

RequestPCs == {"toggle", "save", "delete", "clone", "remove", "fetch", "add",
               "track", "count", "countEnabled", "publish"}

(* A request: its plan, the row it has read, the entry ID it has got from  *)
(* AddFunc and the counts it is about to publish.                          *)
Request(pc, p, r) == [pc |-> pc, plan |-> p, row |-> r, id |-> NoEntry,
                      registered |-> 0, enabled |-> 0]

NoPlan == CHOOSE p \in Plans : TRUE
IdleReq == Request("idle", NoPlan, Unborn)

(* A job: the plan its entry was added for, the row it has loaded, and, as *)
(* history, the versions of the row there have been from its firing until  *)
(* it loaded one.                                                          *)
IdleJob == [pc |-> "idle", plan |-> NoPlan, row |-> Unborn, seen |-> {}]

EnabledRows == {p \in Plans : row[p].enabled}
Tracked     == {p \in Plans : entries[p] # NoEntry}
FreshIDs    == EntryIDs \ {e.id : e \in registered}

(* The requests that write plan p or its registration.  A clone only reads *)
(* its source.                                                             *)
Writing(a, p) == req[a].pc \notin {"idle", "clone"} /\ req[a].plan = p

Quiet(p) == \A a \in Admins : ~Writing(a, p)

(***************************************************************************)
(* The process starts with an empty database, then requests fill it.       *)
(***************************************************************************)
Init ==
    /\ row        = [p \in Plans |-> Unborn]
    /\ phase      = "down"
    /\ entries    = [p \in Plans |-> NoEntry]
    /\ registered = {}
    /\ ticking    = FALSE
    /\ req        = [a \in Admins |-> IdleReq]
    /\ job        = [j \in Jobs |-> IdleJob]
    /\ gauges     = [registered |-> 0, enabled |-> 0]
    /\ overlapped = {}

(* Requests are accepted until e.Shutdown.                                 *)
Accepting == phase \in {"serving", "stopping"}

(* a starts to serve r.  A plan that another request is already writing is *)
(* noted in overlapped.                                                    *)
Accept(a, r) ==
    /\ Accepting
    /\ req[a].pc = "idle"
    /\ req' = [req EXCEPT ![a] = r]
    /\ overlapped' = IF r.pc # "clone" /\ ~Quiet(r.plan)
                     THEN overlapped \union {r.plan} ELSE overlapped

(* a goes on to label and has no more use for what it has read; or a is    *)
(* done.                                                                   *)
Proceed(a, label) == req' = [req EXCEPT ![a] = Request(label, @.plan, Unborn)]
Finish(a)         == req' = [req EXCEPT ![a] = IdleReq]

(* A statement leaves r as the row of p.                                   *)
Write(p, r) ==
    /\ row' = [row EXCEPT ![p] = r]
    /\ job' = [j \in Jobs |->
                  IF job[j].pc = "fetch" /\ job[j].plan = p
                  THEN [job[j] EXCEPT !.seen = @ \union {r}] ELSE job[j]]

-----------------------------------------------------------------------------
(***************************************************************************)
(* PlanHandler.Toggle: ToggleEnabled reads the row, flips the flag in      *)
(* memory and updates the column; then ReloadPlan.  Without a row it is a  *)
(* 404 and the goroutine stays idle.                                       *)
(***************************************************************************)
ReadToggle(a, p) ==
    /\ Live(row[p])
    /\ Accept(a, Request("toggle", p, row[p]))
    /\ UNCHANGED <<row, memory, phase, job, gauges>>

(* UPDATE plans SET enabled = .. WHERE id = ..: a row deleted since then   *)
(* is not an error.                                                        *)
WriteToggle(a) ==
    /\ req[a].pc = "toggle"
    /\ LET p == req[a].plan
       IN  IF Live(row[p])
           THEN Write(p, [row[p] EXCEPT !.enabled = ~req[a].row.enabled])
           ELSE UNCHANGED <<row, job>>
    /\ Proceed(a, "remove")
    /\ UNCHANGED <<memory, phase, gauges, overlapped>>

(***************************************************************************)
(* PlanHandler.Update: GetByID, patch, Save; then ReloadPlan.              *)
(***************************************************************************)
ReadUpdate(a, p, cron) ==
    /\ Live(row[p])
    /\ Accept(a, Request("save", p, [row[p] EXCEPT !.cron = cron]))
    /\ UNCHANGED <<row, memory, phase, job, gauges>>

(* model.Plan declares default:true for the column, and GORM's Create      *)
(* replaces a zero value by the declared default.                          *)
DefaultEnabled == TRUE

Inserted(enabled) == IF enabled THEN TRUE ELSE DefaultEnabled

(* GORM's Save writes every column of the row read before.  When it finds  *)
(* no row to update it falls back on Create, unless the plan had steps,    *)
(* whose foreign key then fails: see WriteFails.                           *)
Saved(p, r) ==
    IF Live(row[p]) THEN r ELSE [r EXCEPT !.enabled = Inserted(@)]

WriteUpdate(a) ==
    /\ req[a].pc = "save"
    /\ Write(req[a].plan, Saved(req[a].plan, req[a].row))
    /\ Proceed(a, "remove")
    /\ UNCHANGED <<memory, phase, gauges, overlapped>>

(***************************************************************************)
(* PlanHandler.Delete: RemovePlan, then the row.  Neither needs a row.     *)
(***************************************************************************)
(* Seeded faults: the key stays in the map; cron keeps the entry.          *)
RemovePlanKeepsKey(p) ==
    /\ registered' = {e \in registered : e.id # entries[p]}
    /\ entries' = entries

RemovePlanKeepsEntry(p) ==
    /\ registered' = registered
    /\ entries' = [entries EXCEPT ![p] = NoEntry]

(* RemovePlan's section under Scheduler.mu: cron forgets the entry the map *)
(* holds for p, and so does the map.                                       *)
RemovePlan(p) ==
    /\ registered' = {e \in registered : e.id # entries[p]}
    /\ entries' = [entries EXCEPT ![p] = NoEntry]

BeginDelete(a, p) ==
    /\ row[p] # Unborn
    /\ Accept(a, Request("delete", p, Unborn))
    /\ RemovePlan(p)
    /\ UNCHANGED <<row, ticking, phase, job, gauges>>

DeleteRow(a) ==
    /\ req[a].pc = "delete"
    /\ Write(req[a].plan, Gone)
    /\ Finish(a)
    /\ UNCHANGED <<memory, phase, gauges, overlapped>>

(***************************************************************************)
(* PlanHandler.Create and Clone insert a row under a new UUID and leave    *)
(* the scheduler alone.  Both ask for enabled = false.                     *)
(***************************************************************************)
NewRow(cron) == [state |-> "live", enabled |-> Inserted(FALSE), cron |-> cron]

Create(a, p, cron) ==
    /\ Accepting
    /\ req[a].pc = "idle"
    /\ row[p] = Unborn
    /\ Write(p, NewRow(cron))
    /\ UNCHANGED <<memory, phase, req, gauges, overlapped>>

ReadClone(a, p) ==
    /\ Live(row[p])
    /\ Accept(a, Request("clone", p, row[p]))
    /\ UNCHANGED <<row, memory, phase, job, gauges>>

InsertClone(a, p) ==
    /\ req[a].pc = "clone"
    /\ row[p] = Unborn
    /\ Write(p, NewRow(req[a].row.cron))
    /\ Finish(a)
    /\ UNCHANGED <<memory, phase, gauges, overlapped>>

(* The statement of a request fails: the handler answers an error and does *)
(* not reach ReloadPlan.                                                   *)
WriteFails(a) ==
    /\ req[a].pc \in {"toggle", "save", "delete", "clone"}
    /\ Finish(a)
    /\ UNCHANGED <<row, memory, phase, job, gauges, overlapped>>

-----------------------------------------------------------------------------
(***************************************************************************)
(* Scheduler.ReloadPlan                                                    *)
(***************************************************************************)
ReloadRemove(a) ==
    /\ req[a].pc = "remove"
    /\ RemovePlan(req[a].plan)
    /\ Proceed(a, "fetch")
    /\ UNCHANGED <<row, ticking, phase, job, gauges, overlapped>>

(* Seeded fault: the flag is not looked at.                                *)
ReloadFetchAnyway(a) ==
    /\ req[a].pc = "fetch"
    /\ Live(row[req[a].plan])
    /\ req' = [req EXCEPT ![a] = Request("add", @.plan, row[@.plan])]
    /\ UNCHANGED <<row, memory, phase, job, gauges, overlapped>>

(* GetByID: the row decides whether the plan is registered again.          *)
ReloadFetch(a) ==
    /\ req[a].pc = "fetch"
    /\ LET r == row[req[a].plan]
       IN  /\ Live(r)
           /\ IF r.enabled
              THEN req' = [req EXCEPT ![a] = Request("add", @.plan, r)]
              ELSE Proceed(a, "count")
    /\ UNCHANGED <<row, memory, phase, job, gauges, overlapped>>

(* No such row, or the database fails: ReloadPlan returns the error, which *)
(* the handler only logs, and the gauges keep their values.                *)
ReloadFetchFails(a) ==
    /\ req[a].pc = "fetch"
    /\ Finish(a)
    /\ UNCHANGED <<row, memory, phase, job, gauges, overlapped>>

(* addPlan: cron.AddFunc, then, under Scheduler.mu, the map.               *)
AddFunc(a) ==
    /\ req[a].pc = "add"
    /\ \E id \in FreshIDs :
          /\ registered' = registered \union
                {[id |-> id, plan |-> req[a].plan, cron |-> req[a].row.cron]}
          /\ req' = [req EXCEPT ![a] = [Request("track", @.plan, Unborn) EXCEPT !.id = id]]
    /\ UNCHANGED <<row, entries, ticking, phase, job, gauges, overlapped>>

Track(a) ==
    /\ req[a].pc = "track"
    /\ entries' = [entries EXCEPT ![req[a].plan] = req[a].id]
    /\ Proceed(a, "count")
    /\ UNCHANGED <<row, registered, ticking, phase, job, gauges, overlapped>>

(* updateMetrics: RunningCount, EnabledCount (0 if the query fails), then  *)
(* both gauges are set.                                                    *)
CountEntries(a) ==
    /\ req[a].pc = "count"
    /\ req' = [req EXCEPT ![a] = [Request("countEnabled", @.plan, Unborn)
                                      EXCEPT !.registered = Cardinality(Tracked)]]
    /\ UNCHANGED <<row, memory, phase, job, gauges, overlapped>>

Counted(r, n) == [r EXCEPT !.pc = "publish", !.enabled = n]

CountEnabled(a) ==
    /\ req[a].pc = "countEnabled"
    /\ \E n \in {Cardinality(EnabledRows), 0} : req' = [req EXCEPT ![a] = Counted(@, n)]
    /\ UNCHANGED <<row, memory, phase, job, gauges, overlapped>>

Publish(a) ==
    /\ req[a].pc = "publish"
    /\ gauges' = [registered |-> req[a].registered, enabled |-> req[a].enabled]
    /\ Finish(a)
    /\ UNCHANGED <<row, memory, phase, job, overlapped>>

-----------------------------------------------------------------------------
(***************************************************************************)
(* cron starts a goroutine per firing, however many of the same entry are  *)
(* still running, and the goroutine runs executePlan(planID): it loads the *)
(* row, looks at it, and then executes what it has loaded, whatever        *)
(* becomes of the row in between.                                          *)
(***************************************************************************)

(* Seeded fault: the function given to AddFunc holds the plan it was added *)
(* with and executes that one.                                             *)
FiredCaptured(e) ==
    [pc |-> "loaded", plan |-> e.plan, seen |-> {row[e.plan]},
     row |-> [state |-> "live", enabled |-> TRUE, cron |-> e.cron]]

Fired(e) == [pc |-> "fetch", plan |-> e.plan, row |-> Unborn, seen |-> {row[e.plan]}]

Fire(j, e) ==
    /\ ticking
    /\ e \in registered
    /\ job[j].pc = "idle"
    /\ job' = [job EXCEPT ![j] = Fired(e)]
    /\ UNCHANGED <<row, memory, phase, req, gauges, overlapped>>

JobLoads(j) ==
    /\ job[j].pc = "fetch"
    /\ LET r == row[job[j].plan]
       IN  /\ Live(r) /\ r.enabled
           /\ job' = [job EXCEPT ![j] = [@ EXCEPT !.pc = "loaded", !.row = r]]
    /\ UNCHANGED <<row, memory, phase, req, gauges, overlapped>>

(* No row, a disabled row, or the database fails.                          *)
JobReturns(j) ==
    /\ job[j].pc = "fetch"
    /\ job' = [job EXCEPT ![j] = IdleJob]
    /\ UNCHANGED <<row, memory, phase, req, gauges, overlapped>>

(* Runner.Execute is called; nothing is read again.                        *)
JobExecutes(j) ==
    /\ job[j].pc = "loaded"
    /\ job' = [job EXCEPT ![j].pc = "execute"]
    /\ UNCHANGED <<row, memory, phase, req, gauges, overlapped>>

(* Runner.Execute, the log and the metrics are done.                       *)
JobEnds(j) ==
    /\ job[j].pc = "execute"
    /\ job' = [job EXCEPT ![j] = IdleJob]
    /\ UNCHANGED <<row, memory, phase, req, gauges, overlapped>>

-----------------------------------------------------------------------------
(***************************************************************************)
(* The process.  Start registers every enabled plan before cron starts and *)
(* before the HTTP server listens, so nothing runs in between.             *)
(***************************************************************************)
Start ==
    /\ phase = "down"
    /\ phase' = "serving"
    /\ ticking' = TRUE
    /\ \E ids \in [EnabledRows -> EntryIDs] :
          /\ \A p, q \in EnabledRows : ids[p] = ids[q] => p = q
          /\ entries' = [p \in Plans |-> IF p \in EnabledRows THEN ids[p] ELSE NoEntry]
          /\ registered' = {[id |-> ids[p], plan |-> p, cron |-> row[p].cron] :
                               p \in EnabledRows}
    /\ \E n \in {Cardinality(EnabledRows), 0} :
          gauges' = [registered |-> Cardinality(EnabledRows), enabled |-> n]
    /\ UNCHANGED <<row, req, job, overlapped>>

(* The scheduler is disabled by configuration, or ListEnabled fails, which *)
(* main only logs: the server runs with a cron that never ticks.           *)
StartWithoutCron ==
    /\ phase = "down"
    /\ phase' = "serving"
    /\ UNCHANGED <<row, memory, req, job, gauges, overlapped>>

(* Scheduler.Stop on SIGINT or SIGTERM: cron fires no more, and main waits *)
(* for the running jobs while requests are still served.                   *)
Stop ==
    /\ phase = "serving"
    /\ phase' = "stopping"
    /\ ticking' = FALSE
    /\ UNCHANGED <<row, entries, registered, req, job, gauges, overlapped>>

JobsDone ==
    /\ phase = "stopping"
    /\ \A j \in Jobs : job[j].pc = "idle"
    /\ phase' = "draining"
    /\ UNCHANGED <<row, memory, req, job, gauges, overlapped>>

ForgetAll ==
    /\ phase'      = "down"
    /\ entries'    = [p \in Plans |-> NoEntry]
    /\ registered' = {}
    /\ ticking'    = FALSE
    /\ req'        = [a \in Admins |-> IdleReq]
    /\ job'        = [j \in Jobs |-> IdleJob]
    /\ gauges'     = [registered |-> 0, enabled |-> 0]
    /\ overlapped' = {}
    /\ UNCHANGED row

(* e.Shutdown waits for the requests, at most ten seconds.                 *)
Exit == phase = "draining" /\ ForgetAll

Crash == phase # "down" /\ ForgetAll

RequestStep(a) ==
    \/ WriteToggle(a)
    \/ WriteUpdate(a)
    \/ DeleteRow(a)
    \/ \E p \in Plans : InsertClone(a, p)
    \/ WriteFails(a)
    \/ ReloadRemove(a)
    \/ ReloadFetch(a)
    \/ ReloadFetchFails(a)
    \/ AddFunc(a)
    \/ Track(a)
    \/ CountEntries(a)
    \/ CountEnabled(a)
    \/ Publish(a)

BeginRequest(a) ==
    \E p \in Plans :
        \/ ReadToggle(a, p)
        \/ BeginDelete(a, p)
        \/ ReadClone(a, p)
        \/ \E cron \in Crons : ReadUpdate(a, p, cron) \/ Create(a, p, cron)

JobStep(j) == JobLoads(j) \/ JobReturns(j) \/ JobExecutes(j) \/ JobEnds(j)

Next ==
    \/ \E a \in Admins : BeginRequest(a) \/ RequestStep(a)
    \/ \E j \in Jobs : JobStep(j) \/ \E e \in registered : Fire(j, e)
    \/ Start \/ StartWithoutCron \/ Stop \/ JobsDone \/ Exit \/ Crash

Spec == Init /\ [][Next]_vars

-----------------------------------------------------------------------------
(* Type invariant.                                                         *)
Requests ==
    {r \in [pc : RequestPCs \union {"idle"}, plan : Plans, row : Rows,
            id : EntryIDs \union {NoEntry}, registered : Nat, enabled : Nat] :
        /\ r.pc \in {"save", "clone", "add"} => Live(r.row)
        /\ r.pc = "add" => r.row.enabled}

JobRuns ==
    [pc : {"idle", "fetch", "loaded", "execute"}, plan : Plans,
     row : Rows, seen : SUBSET Rows]

TypeOK ==
    /\ row        \in [Plans -> Rows]
    /\ entries    \in [Plans -> EntryIDs \union {NoEntry}]
    /\ registered \subseteq Entry
    /\ ticking    \in BOOLEAN
    /\ phase      \in {"down", "serving", "stopping", "draining"}
    /\ req        \in [Admins -> Requests]
    /\ job        \in [Jobs -> JobRuns]
    /\ gauges     \in [registered : Nat, enabled : Nat]
    /\ overlapped \subseteq Plans

(* An entry ID names one cron entry.                                       *)
UniqueIDs == \A e, f \in registered : e.id = f.id => e = f

(* What the map holds for p is an entry of p that cron still has.          *)
MapValid ==
    \A p \in Tracked : \E e \in registered : e.id = entries[p] /\ e.plan = p

(* So is what AddFunc gave to a request that has not stored it yet, and    *)
(* nobody else refers to that entry.                                       *)
PendingValid ==
    \A a \in Admins : req[a].pc = "track" =>
        /\ \E e \in registered : e.id = req[a].id /\ e.plan = req[a].plan
        /\ \A p \in Plans : entries[p] # req[a].id
        /\ \A b \in Admins : req[b].pc = "track" /\ req[b].id = req[a].id => b = a

(* Under any interleaving of reloads and deletes, also of one plan, the    *)
(* map never holds a stale entry ID, so cron.Remove never removes nothing  *)
(* or the entry of another plan.                                           *)
HandlesValid == UniqueIDs /\ MapValid /\ PendingValid

(* An entry of cron is right for its plan: the map holds it, and the row   *)
(* is there, enabled and asks for that schedule.                           *)
Right(e) ==
    /\ entries[e.plan] = e.id
    /\ row[e.plan].enabled
    /\ row[e.plan].cron = e.cron

(* Between requests, a plan that no two requests have written at the same  *)
(* time has no entry left over from an earlier schedule, an earlier        *)
(* enabling or a deleted row: not even when database statements fail.      *)
RegistryExact ==
    \A e \in registered :
        e.plan \notin overlapped /\ Quiet(e.plan) => Right(e)

(* And when a Toggle or an Update of such a plan gets as far as the        *)
(* metrics, the plan is registered exactly if its row is enabled.          *)
ReloadExact ==
    \A a \in Admins :
        (/\ req[a].pc \in {"count", "countEnabled", "publish"}
         /\ req[a].plan \notin overlapped)
        => /\ (entries[req[a].plan] # NoEntry) <=> row[req[a].plan].enabled
           /\ \A e \in registered : e.plan = req[a].plan => Right(e)

(* Whatever cron still holds (an entry no map refers to, one of an earlier *)
(* schedule, of a plan disabled or deleted by now), and whatever requests  *)
(* write between the firing, the loading and the run: a job executes an    *)
(* enabled version of the row that the table has held since cron fired it. *)
(* So once a row is disabled or deleted, only jobs fired before that still *)
(* run the plan; a later firing does not, until the plan is enabled again. *)
FreshRuns ==
    \A j \in Jobs : job[j].pc \in {"loaded", "execute"} =>
        /\ Live(job[j].row) /\ job[j].row.enabled
        /\ job[j].row \in job[j].seen

(* scheduler.go:155 "RunningCount returns the number of currently          *)
(* registered cron entries": it is the size of the map.                    *)
RunningCountExact ==
    (\A a \in Admins : req[a].pc = "idle") =>
        Cardinality(Tracked) = Cardinality(registered)

=============================================================================
