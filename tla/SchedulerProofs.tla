-------------------------- MODULE SchedulerProofs --------------------------
(***************************************************************************)
(* Theorems about Scheduler, for any number of plans, schedules, requests, *)
(* jobs and cron entries.                                                  *)
(***************************************************************************)
EXTENDS Scheduler, FiniteSetTheorems, TLAPS

LEMMA IdleReqType == IdleReq \in Requests
  BY SchedulerAssumption DEF IdleReq, Request, Requests, NoPlan, Rows, Live

LEMMA RequestType ==
  ASSUME NEW pc \in RequestPCs \union {"idle"}, NEW p \in Plans, NEW r \in Rows,
         pc \in {"save", "clone", "add"} => Live(r), pc = "add" => r.enabled
  PROVE  Request(pc, p, r) \in Requests
  BY DEF Request, Requests

LEMMA RowType ==
  ASSUME NEW r \in Rows
  PROVE  /\ r.enabled \in BOOLEAN
         /\ r.state \in {"live", "unborn", "gone"}
         /\ r.state = "live" <=> r \in Row
         /\ r.enabled => r.state = "live"
<1>1. CASE r \in Row
  BY <1>1 DEF Row
<1>2. CASE r \in {Unborn, Gone}
  <2>1. r.state \in {"unborn", "gone"} /\ r.enabled = FALSE
    BY <1>2 DEF Unborn, Gone
  <2>2. r \notin Row
    BY <2>1 DEF Row
  <2> QED
    BY <2>1, <2>2
<1> QED
  BY <1>1, <1>2 DEF Rows

LEMMA PatchedRow ==
  ASSUME NEW r \in Rows, Live(r)
  PROVE  /\ \A c \in Crons : [r EXCEPT !.cron = c] \in Rows
         /\ \A b \in BOOLEAN : [r EXCEPT !.enabled = ~b] \in Rows
         /\ \A c \in Crons : Live([r EXCEPT !.cron = c])
<1>1. r \in Row
  BY RowType DEF Live
<1> QED
  BY <1>1 DEF Live, Rows, Row

LEMMA SavedType ==
  ASSUME NEW p \in Plans, NEW r \in Rows, Live(r)
  PROVE  Saved(p, r) \in Rows /\ Live(Saved(p, r)) /\ (Live(row[p]) => Saved(p, r) = r)
<1>1. r \in Row
  BY RowType DEF Live
<1>2. [r EXCEPT !.enabled = Inserted(r.enabled)] \in Row
  BY <1>1 DEF Row, Inserted, DefaultEnabled
<1> QED
  BY <1>1, <1>2 DEF Saved, Rows, Row, Live

LEMMA NewRowType == ASSUME NEW c \in Crons PROVE NewRow(c) \in Rows
  BY DEF NewRow, Inserted, DefaultEnabled, Rows, Row

(* The counts updateMetrics publishes are numbers.                         *)
LEMMA CountType ==
  Cardinality(Tracked) \in Nat /\ Cardinality(EnabledRows) \in Nat
<1>1. IsFiniteSet(Tracked) /\ IsFiniteSet(EnabledRows)
  BY FinitePlans, FS_Subset DEF Tracked, EnabledRows
<1> QED
  BY <1>1, FS_CardinalityType


LEMMA IdleJobType == IdleJob \in JobRuns
  BY SchedulerAssumption DEF IdleJob, JobRuns, NoPlan, Rows

(* A job after a statement has left r as the row of p.                     *)
LEMMA WriteType ==
  ASSUME TypeOK, NEW p \in Plans, NEW r \in Rows, Write(p, r)
  PROVE  /\ row' \in [Plans -> Rows]
         /\ job' \in [Jobs -> JobRuns]
<1>1. row' \in [Plans -> Rows]
  BY DEF TypeOK, Write
<1>2. ASSUME NEW j \in Jobs PROVE job'[j] \in JobRuns
  <2>1. job[j] \in JobRuns
    BY DEF TypeOK
  <2>2. [job[j] EXCEPT !.seen = @ \union {r}] \in JobRuns
    BY <2>1 DEF JobRuns
  <2> QED
    BY <2>1, <2>2 DEF Write
<1>3. job' = [j \in Jobs |-> job'[j]]
  BY DEF Write
<1> QED
  BY <1>1, <1>2, <1>3

LEMMA AcceptType ==
  ASSUME TypeOK, NEW a \in Admins, NEW r \in Requests, Accept(a, r)
  PROVE  req' \in [Admins -> Requests] /\ overlapped' \subseteq Plans
<1>1. r.plan \in Plans
  BY DEF Requests
<1> QED
  BY <1>1 DEF TypeOK, Accept

(* The requests that carry more than a plan and a row.                     *)
LEMMA FilledRequestType ==
  ASSUME NEW pc \in RequestPCs \ {"save", "clone", "add"}, NEW p \in Plans,
         NEW n \in Nat
  PROVE  /\ \A id \in EntryIDs : [Request(pc, p, Unborn) EXCEPT !.id = id] \in Requests
         /\ [Request(pc, p, Unborn) EXCEPT !.registered = n] \in Requests
  BY DEF Request, Requests, Rows

LEMMA PublishType ==
  ASSUME NEW r \in Requests, NEW n \in Nat
  PROVE  Counted(r, n) \in Requests
  BY DEF Counted, Requests, RequestPCs

-----------------------------------------------------------------------------
LEMMA TypeInit == Init => TypeOK
<1> SUFFICES ASSUME Init PROVE TypeOK
  OBVIOUS
<1>1. row \in [Plans -> Rows]
  BY DEF Init, Rows
<1>2. req \in [Admins -> Requests] /\ job \in [Jobs -> JobRuns]
  BY IdleReqType, IdleJobType DEF Init
<1> QED
  BY <1>1, <1>2 DEF Init, TypeOK

LEMMA TypeStep == TypeOK /\ [Next]_vars => TypeOK'
<1> SUFFICES ASSUME TypeOK, [Next]_vars PROVE TypeOK'
  OBVIOUS
<1> USE DEF TypeOK, memory
<1>0. /\ \A p \in Plans : row[p] \in Rows
      /\ \A a \in Admins : /\ req[a] \in Requests
                           /\ req[a].plan \in Plans
                           /\ req[a].row \in Rows
                           /\ req[a].id \in EntryIDs \union {NoEntry}
                           /\ req[a].registered \in Nat /\ req[a].enabled \in Nat
                           /\ req[a].pc \in {"save", "clone", "add"} => Live(req[a].row)
      /\ \A j \in Jobs : job[j] \in JobRuns /\ job[j].plan \in Plans
      /\ IdleReq \in Requests
      /\ IdleJob \in JobRuns
      /\ Unborn \in Rows /\ Gone \in Rows
  BY IdleReqType, IdleJobType, SchedulerAssumption DEF Rows, Requests, JobRuns
<1>r. /\ \A pc \in RequestPCs \ {"save", "clone", "add"}, p \in Plans :
            Request(pc, p, Unborn) \in Requests
      /\ \A pc \in RequestPCs, p \in Plans, r \in Rows :
            Live(r) /\ r.enabled => Request(pc, p, r) \in Requests
      /\ \A pc \in RequestPCs \ {"add"}, p \in Plans, r \in Rows :
            Live(r) => Request(pc, p, r) \in Requests
  BY <1>0, RequestType
<1>1. ASSUME NEW a \in Admins, NEW p \in Plans, ReadToggle(a, p)
      PROVE  TypeOK'
  <2>1. Request("toggle", p, row[p]) \in Requests
    BY <1>1, <1>0, <1>r DEF ReadToggle, RequestPCs
  <2> QED
    BY <1>1, <2>1, AcceptType DEF ReadToggle
<1>2. ASSUME NEW a \in Admins, NEW p \in Plans, NEW cron \in Crons, ReadUpdate(a, p, cron)
      PROVE  TypeOK'
  <2>1. Request("save", p, [row[p] EXCEPT !.cron = cron]) \in Requests
    BY <1>2, <1>0, <1>r, PatchedRow DEF ReadUpdate, RequestPCs
  <2> QED
    BY <1>2, <2>1, AcceptType DEF ReadUpdate
<1>3. ASSUME NEW a \in Admins, NEW p \in Plans, BeginDelete(a, p)
      PROVE  TypeOK'
  <2>1. Request("delete", p, Unborn) \in Requests
    BY <1>3, <1>0, <1>r DEF BeginDelete, RequestPCs
  <2> QED
    BY <1>3, <2>1, AcceptType DEF BeginDelete, RemovePlan
<1>4. ASSUME NEW a \in Admins, NEW p \in Plans, NEW cron \in Crons, Create(a, p, cron)
      PROVE  TypeOK'
  BY <1>4, NewRowType, WriteType DEF Create
<1>5. ASSUME NEW a \in Admins, NEW p \in Plans, ReadClone(a, p)
      PROVE  TypeOK'
  <2>1. Request("clone", p, row[p]) \in Requests
    BY <1>5, <1>0, <1>r DEF ReadClone, RequestPCs
  <2> QED
    BY <1>5, <2>1, AcceptType DEF ReadClone
<1>6. ASSUME NEW a \in Admins, WriteToggle(a)
      PROVE  TypeOK'
  <2>1. req[a].row.enabled \in BOOLEAN
    BY <1>0, RowType
  <2>2. row' \in [Plans -> Rows] /\ job' \in [Jobs -> JobRuns]
    <3>1. CASE Live(row[req[a].plan])
      <4>1. [row[req[a].plan] EXCEPT !.enabled = ~req[a].row.enabled] \in Rows
        BY <1>0, <2>1, <3>1, PatchedRow
      <4> QED
        BY <1>6, <1>0, <3>1, <4>1, WriteType DEF WriteToggle
    <3>2. CASE ~Live(row[req[a].plan])
      BY <1>6, <3>2 DEF WriteToggle
    <3> QED
      BY <3>1, <3>2
  <2>3. req' \in [Admins -> Requests]
    BY <1>6, <1>0, <1>r DEF WriteToggle, Proceed, RequestPCs
  <2> QED
    BY <1>6, <2>2, <2>3 DEF WriteToggle
<1>7. ASSUME NEW a \in Admins, WriteUpdate(a)
      PROVE  TypeOK'
  <2>1. Saved(req[a].plan, req[a].row) \in Rows
    BY <1>7, <1>0, SavedType DEF WriteUpdate
  <2>2. row' \in [Plans -> Rows] /\ job' \in [Jobs -> JobRuns]
    BY <1>7, <1>0, <2>1, WriteType DEF WriteUpdate
  <2>3. req' \in [Admins -> Requests]
    BY <1>7, <1>0, <1>r DEF WriteUpdate, Proceed, RequestPCs
  <2> QED
    BY <1>7, <2>2, <2>3 DEF WriteUpdate
<1>8. ASSUME NEW a \in Admins, DeleteRow(a)
      PROVE  TypeOK'
  <2>1. row' \in [Plans -> Rows] /\ job' \in [Jobs -> JobRuns]
    BY <1>8, <1>0, WriteType DEF DeleteRow
  <2> QED
    BY <1>8, <1>0, <2>1 DEF DeleteRow, Finish
<1>9. ASSUME NEW a \in Admins, NEW p \in Plans, InsertClone(a, p)
      PROVE  TypeOK'
  <2>1. req[a].row.cron \in Crons
    BY <1>9, <1>0, RowType DEF InsertClone, Row, Live
  <2>2. row' \in [Plans -> Rows] /\ job' \in [Jobs -> JobRuns]
    BY <1>9, <2>1, NewRowType, WriteType DEF InsertClone
  <2> QED
    BY <1>9, <1>0, <2>2 DEF InsertClone, Finish
<1>10. ASSUME NEW a \in Admins, WriteFails(a)
      PROVE  TypeOK'
  BY <1>10, <1>0, <1>r DEF WriteFails, Finish, RequestPCs
<1>11. ASSUME NEW a \in Admins, ReloadRemove(a)
      PROVE  TypeOK'
  BY <1>11, <1>0, <1>r DEF ReloadRemove, Proceed, RemovePlan, RequestPCs
<1>12. ASSUME NEW a \in Admins, ReloadFetch(a)
      PROVE  TypeOK'
  BY <1>12, <1>0, <1>r DEF ReloadFetch, Proceed, Live, RequestPCs
<1>13. ASSUME NEW a \in Admins, ReloadFetchFails(a)
      PROVE  TypeOK'
  BY <1>13, <1>0, <1>r DEF ReloadFetchFails, Finish, RequestPCs
<1>14. ASSUME NEW a \in Admins, AddFunc(a)
      PROVE  TypeOK'
  <2>1. req[a].row.cron \in Crons
    BY <1>14, <1>0, RowType DEF AddFunc, Row, Live
  <2>2. \A id \in EntryIDs :
           [Request("track", req[a].plan, Unborn) EXCEPT !.id = id] \in Requests
    BY <1>0, FilledRequestType, 0 \in Nat DEF RequestPCs
  <2>3. req' \in [Admins -> Requests]
    BY <1>14, <2>2 DEF AddFunc, FreshIDs
  <2>4. registered' \subseteq Entry
    BY <1>14, <1>0, <2>1 DEF AddFunc, FreshIDs, Entry
  <2> QED
    BY <1>14, <2>3, <2>4 DEF AddFunc
<1>15. ASSUME NEW a \in Admins, Track(a)
      PROVE  TypeOK'
  BY <1>15, <1>0, <1>r DEF Track, Proceed, RequestPCs
<1>16. ASSUME NEW a \in Admins, CountEntries(a)
      PROVE  TypeOK'
  BY <1>16, <1>0, CountType, FilledRequestType DEF CountEntries, RequestPCs
<1>17. ASSUME NEW a \in Admins, CountEnabled(a)
      PROVE  TypeOK'
  <2>1. PICK n \in {Cardinality(EnabledRows), 0} :
           req' = [req EXCEPT ![a] = Counted(req[a], n)]
    BY <1>17 DEF CountEnabled
  <2>2. Counted(req[a], n) \in Requests
    BY <1>0, CountType, PublishType, 0 \in Nat
  <2>3. req' \in [Admins -> Requests]
    BY <2>1, <2>2
  <2> QED
    BY <1>17, <2>3 DEF CountEnabled
<1>18. ASSUME NEW a \in Admins, Publish(a)
      PROVE  TypeOK'
  BY <1>18, <1>0, <1>r DEF Publish, Finish, RequestPCs
<1>19. ASSUME NEW j \in Jobs, NEW e \in registered, Fire(j, e)
      PROVE  TypeOK'
  <2>1. Fired(e) \in JobRuns
    BY <1>0 DEF Fired, JobRuns, Entry
  <2> QED
    BY <1>19, <2>1 DEF Fire
<1>20. ASSUME NEW j \in Jobs, JobLoads(j)
      PROVE  TypeOK'
  <2>1. [job[j] EXCEPT !.pc = "loaded", !.row = row[job[j].plan]] \in JobRuns
    BY <1>0 DEF JobRuns
  <2> QED
    BY <1>20, <2>1 DEF JobLoads
<1>21. ASSUME NEW j \in Jobs, JobReturns(j)
      PROVE  TypeOK'
  BY <1>21, <1>0 DEF JobReturns
<1>22. ASSUME NEW j \in Jobs, JobEnds(j)
      PROVE  TypeOK'
  BY <1>22, <1>0 DEF JobEnds
<1>31. ASSUME NEW j \in Jobs, JobExecutes(j)
      PROVE  TypeOK'
  <2>1. [job[j] EXCEPT !.pc = "execute"] \in JobRuns
    BY <1>0 DEF JobRuns
  <2> QED
    BY <1>31, <2>1 DEF JobExecutes
<1>23. CASE Start
  <2>1. \A p \in EnabledRows : row[p].cron \in Crons
    BY <1>0, RowType DEF EnabledRows, Row, Live
  <2>2. entries' \in [Plans -> EntryIDs \union {NoEntry}]
    BY <1>23 DEF Start
  <2>3. registered' \subseteq Entry
    BY <1>23, <2>1 DEF Start, Entry, EnabledRows
  <2> QED
    BY <1>23, <2>2, <2>3, CountType DEF Start
<1>24. CASE StartWithoutCron
  BY <1>24, <1>0, <1>r DEF StartWithoutCron, RequestPCs
<1>25. CASE Stop
  BY <1>25, <1>0, <1>r DEF Stop, RequestPCs
<1>26. CASE JobsDone
  BY <1>26, <1>0, <1>r DEF JobsDone, RequestPCs
<1>27. CASE Exit
  BY <1>27, <1>0, <1>r DEF Exit, ForgetAll, RequestPCs
<1>28. CASE Crash
  BY <1>28, <1>0, <1>r DEF Crash, ForgetAll, RequestPCs
<1>29. CASE UNCHANGED vars
  BY <1>29, <1>0, <1>r DEF vars, RequestPCs
<1> QED
  BY <1>1, <1>2, <1>3, <1>4, <1>5, <1>6, <1>7, <1>8, <1>9, <1>10, <1>11,
     <1>12, <1>13, <1>14, <1>15, <1>16, <1>17, <1>18, <1>19, <1>20, <1>21,
     <1>22, <1>23, <1>24, <1>25, <1>26, <1>27, <1>28, <1>29, <1>31
  DEF Next, BeginRequest, RequestStep, JobStep

(* The type invariant, for any instance.                                   *)
THEOREM TypeCorrect == Spec => []TypeOK
  BY TypeInit, TypeStep, PTL DEF Spec

-----------------------------------------------------------------------------
(***************************************************************************)
(* The invariant behind RegistryExact and ReloadExact says, for each step  *)
(* of a request that is alone on its plan, what it has left of the plan's  *)
(* registration so far.                                                    *)
(***************************************************************************)
Of(p) == {e \in registered : e.plan = p}

(* Cron holds nothing of p, and the map knows it.                          *)
Absent(p) == Of(p) = {} /\ entries[p] = NoEntry

AllRight(p) == \A e \in Of(p) : Right(e)

Stage(a, p) ==
    /\ req[a].pc \in {"toggle", "save"} => AllRight(p)
    /\ req[a].pc = "remove" => \A e \in Of(p) : entries[p] = e.id
    /\ req[a].pc \in {"delete", "fetch", "add"} => Absent(p)
    /\ req[a].pc = "add" => req[a].row = row[p] /\ row[p].enabled
    /\ req[a].pc = "track" =>
          /\ entries[p] = NoEntry
          /\ row[p].enabled
          /\ \A e \in Of(p) : e.id = req[a].id /\ e.cron = row[p].cron
    /\ req[a].pc \in {"count", "countEnabled", "publish"} =>
          /\ AllRight(p)
          /\ (entries[p] # NoEntry) <=> row[p].enabled

Alone(p) ==
    /\ \A a, b \in Admins : Writing(a, p) /\ Writing(b, p) => a = b
    /\ Quiet(p) => AllRight(p)
    /\ \A a \in Admins : Writing(a, p) => Stage(a, p)

(* A plan that no row was ever written for has left no trace.              *)
Born(p) == row[p] = Unborn => Of(p) = {} /\ Quiet(p)

PlanInv(p) == Born(p) /\ (p \notin overlapped => Alone(p))

(* Nothing survives the process.                                           *)
DownInv ==
    phase = "down" => /\ registered = {}
                      /\ \A p \in Plans : entries[p] = NoEntry
                      /\ \A a \in Admins : req[a].pc = "idle"

RegistryInv == DownInv /\ \A p \in Plans : PlanInv(p)

-----------------------------------------------------------------------------
LEMMA RequestFields ==
  ASSUME NEW pc, NEW p, NEW r
  PROVE  /\ Request(pc, p, r).pc = pc
         /\ Request(pc, p, r).plan = p
         /\ Request(pc, p, r).row = r
         /\ IdleReq.pc = "idle"
  BY DEF Request, IdleReq

LEMMA DownStep == TypeOK /\ DownInv /\ [Next]_vars => DownInv'
<1> SUFFICES ASSUME TypeOK, DownInv, [Next]_vars PROVE DownInv'
  OBVIOUS
<1> USE DEF memory
<1>0. \A a \in Admins : req[a].pc # "idle" => phase # "down"
  BY DEF DownInv
<1>1. ASSUME NEW a \in Admins, NEW p \in Plans, ReadToggle(a, p)
      PROVE  DownInv'
  BY <1>1 DEF ReadToggle, Accept, Accepting, DownInv
<1>2. ASSUME NEW a \in Admins, NEW p \in Plans, NEW cron \in Crons, ReadUpdate(a, p, cron)
      PROVE  DownInv'
  BY <1>2 DEF ReadUpdate, Accept, Accepting, DownInv
<1>3. ASSUME NEW a \in Admins, NEW p \in Plans, BeginDelete(a, p)
      PROVE  DownInv'
  BY <1>3 DEF BeginDelete, Accept, Accepting, DownInv
<1>4. ASSUME NEW a \in Admins, NEW p \in Plans, NEW cron \in Crons, Create(a, p, cron)
      PROVE  DownInv'
  BY <1>4 DEF Create, Accepting, DownInv
<1>5. ASSUME NEW a \in Admins, NEW p \in Plans, ReadClone(a, p)
      PROVE  DownInv'
  BY <1>5 DEF ReadClone, Accept, Accepting, DownInv
<1>6. ASSUME NEW a \in Admins, WriteToggle(a)
      PROVE  DownInv'
  BY <1>6, <1>0 DEF WriteToggle, DownInv
<1>7. ASSUME NEW a \in Admins, WriteUpdate(a)
      PROVE  DownInv'
  BY <1>7, <1>0 DEF WriteUpdate, DownInv
<1>8. ASSUME NEW a \in Admins, DeleteRow(a)
      PROVE  DownInv'
  BY <1>8, <1>0 DEF DeleteRow, DownInv
<1>9. ASSUME NEW a \in Admins, NEW p \in Plans, InsertClone(a, p)
      PROVE  DownInv'
  BY <1>9, <1>0 DEF InsertClone, DownInv
<1>10. ASSUME NEW a \in Admins, WriteFails(a)
      PROVE  DownInv'
  BY <1>10, <1>0 DEF WriteFails, DownInv
<1>11. ASSUME NEW a \in Admins, ReloadRemove(a)
      PROVE  DownInv'
  BY <1>11, <1>0 DEF ReloadRemove, DownInv
<1>12. ASSUME NEW a \in Admins, ReloadFetch(a)
      PROVE  DownInv'
  BY <1>12, <1>0 DEF ReloadFetch, DownInv
<1>13. ASSUME NEW a \in Admins, ReloadFetchFails(a)
      PROVE  DownInv'
  BY <1>13, <1>0 DEF ReloadFetchFails, DownInv
<1>14. ASSUME NEW a \in Admins, AddFunc(a)
      PROVE  DownInv'
  BY <1>14, <1>0 DEF AddFunc, DownInv
<1>15. ASSUME NEW a \in Admins, Track(a)
      PROVE  DownInv'
  BY <1>15, <1>0 DEF Track, DownInv
<1>16. ASSUME NEW a \in Admins, CountEntries(a)
      PROVE  DownInv'
  BY <1>16, <1>0 DEF CountEntries, DownInv
<1>17. ASSUME NEW a \in Admins, CountEnabled(a)
      PROVE  DownInv'
  BY <1>17, <1>0 DEF CountEnabled, DownInv
<1>18. ASSUME NEW a \in Admins, Publish(a)
      PROVE  DownInv'
  BY <1>18, <1>0 DEF Publish, DownInv
<1>19. ASSUME NEW j \in Jobs, NEW e \in registered, Fire(j, e)
      PROVE  DownInv'
  BY <1>19 DEF Fire, DownInv
<1>20. ASSUME NEW j \in Jobs, JobLoads(j)
      PROVE  DownInv'
  BY <1>20 DEF JobLoads, DownInv
<1>31. ASSUME NEW j \in Jobs, JobExecutes(j)
      PROVE  DownInv'
  BY <1>31 DEF JobExecutes, DownInv
<1>21. ASSUME NEW j \in Jobs, JobReturns(j)
      PROVE  DownInv'
  BY <1>21 DEF JobReturns, DownInv
<1>22. ASSUME NEW j \in Jobs, JobEnds(j)
      PROVE  DownInv'
  BY <1>22 DEF JobEnds, DownInv
<1>23. CASE Start
  BY <1>23 DEF Start, DownInv
<1>24. CASE StartWithoutCron
  BY <1>24 DEF StartWithoutCron, DownInv
<1>25. CASE Stop
  BY <1>25 DEF Stop, DownInv
<1>26. CASE JobsDone
  BY <1>26 DEF JobsDone, DownInv
<1>27. CASE Exit
  BY <1>27, RequestFields DEF Exit, ForgetAll, DownInv
<1>28. CASE Crash
  BY <1>28, RequestFields DEF Crash, ForgetAll, DownInv
<1>29. CASE UNCHANGED vars
  BY <1>29 DEF vars, DownInv
<1> QED
  BY <1>1, <1>2, <1>3, <1>4, <1>5, <1>6, <1>7, <1>8, <1>9, <1>10, <1>11,
     <1>12, <1>13, <1>14, <1>15, <1>16, <1>17, <1>18, <1>19, <1>20, <1>21,
     <1>22, <1>23, <1>24, <1>25, <1>26, <1>27, <1>28, <1>29, <1>31
  DEF Next, BeginRequest, RequestStep, JobStep

-----------------------------------------------------------------------------
(* Handles: the steps that leave the registry alone, and RemovePlan.       *)
LEMMA HandlesFrame ==
  ASSUME HandlesValid, UNCHANGED <<registered, entries>>,
         \A b \in Admins : req'[b].pc = "track" => req'[b] = req[b]
  PROVE  HandlesValid'
<1>1. UniqueIDs' /\ MapValid'
  BY DEF HandlesValid, UniqueIDs, MapValid, Tracked
<1>2. PendingValid'
  BY DEF HandlesValid, PendingValid
<1> QED
  BY <1>1, <1>2 DEF HandlesValid

LEMMA HandlesRemove ==
  ASSUME TypeOK, HandlesValid, NEW p \in Plans, RemovePlan(p),
         \A b \in Admins : req'[b].pc = "track" => req'[b] = req[b]
  PROVE  HandlesValid'
<1> USE SchedulerAssumption DEF RemovePlan, TypeOK, HandlesValid
<1>1. UniqueIDs'
  BY DEF UniqueIDs
<1>2. MapValid'
  BY DEF UniqueIDs, MapValid, Tracked
<1>3. PendingValid'
  <2> SUFFICES ASSUME NEW b \in Admins, req'[b].pc = "track"
               PROVE  /\ \E e \in registered' : e.id = req'[b].id /\ e.plan = req'[b].plan
                      /\ \A q \in Plans : entries'[q] # req'[b].id
                      /\ \A c \in Admins :
                            req'[c].pc = "track" /\ req'[c].id = req'[b].id => c = b
    BY DEF PendingValid
  <2>1. req'[b] = req[b] /\ req[b].pc = "track"
    OBVIOUS
  <2>2. PICK e \in registered : e.id = req[b].id /\ e.plan = req[b].plan
    BY <2>1 DEF PendingValid
  <2>3. /\ \A q \in Plans : entries[q] # req[b].id
        /\ \A c \in Admins : req[c].pc = "track" /\ req[c].id = req[b].id => c = b
    BY <2>1 DEF PendingValid
  <2>4. e \in registered'
    BY <2>2, <2>3
  <2>5. req[b].id # NoEntry
    BY <2>2 DEF Entry
  <2>6. \A q \in Plans : entries'[q] # req[b].id
    BY <2>3, <2>5
  <2> QED
    BY <2>1, <2>2, <2>3, <2>4, <2>6
<1> QED
  BY <1>1, <1>2, <1>3

LEMMA HandlesStep ==
  TypeOK /\ TypeOK' /\ DownInv /\ HandlesValid /\ [Next]_vars => HandlesValid'
<1> SUFFICES ASSUME TypeOK, TypeOK', DownInv, HandlesValid, [Next]_vars
             PROVE  HandlesValid'
  OBVIOUS
<1> USE DEF memory
<1>0. req \in [Admins -> Requests]
  BY DEF TypeOK
<1>1. ASSUME NEW a \in Admins, NEW p \in Plans, ReadToggle(a, p)
      PROVE  HandlesValid'
  <2>1. \A b \in Admins : req'[b].pc = "track" => req'[b] = req[b]
    BY <1>1, <1>0, RequestFields DEF ReadToggle, Accept
  <2>2. UNCHANGED <<registered, entries>>
    BY <1>1 DEF ReadToggle, Accept
  <2> QED
    BY <2>1, <2>2, HandlesFrame
<1>2. ASSUME NEW a \in Admins, NEW p \in Plans, NEW cron \in Crons, ReadUpdate(a, p, cron)
      PROVE  HandlesValid'
  <2>1. \A b \in Admins : req'[b].pc = "track" => req'[b] = req[b]
    BY <1>2, <1>0, RequestFields DEF ReadUpdate, Accept
  <2>2. UNCHANGED <<registered, entries>>
    BY <1>2 DEF ReadUpdate, Accept
  <2> QED
    BY <2>1, <2>2, HandlesFrame
<1>3. ASSUME NEW a \in Admins, NEW p \in Plans, BeginDelete(a, p)
      PROVE  HandlesValid'
  <2>1. \A b \in Admins : req'[b].pc = "track" => req'[b] = req[b]
    BY <1>3, <1>0, RequestFields DEF BeginDelete, Accept
  <2> QED
    BY <1>3, <2>1, HandlesRemove DEF BeginDelete
<1>4. ASSUME NEW a \in Admins, NEW p \in Plans, NEW cron \in Crons, Create(a, p, cron)
      PROVE  HandlesValid'
  <2>1. \A b \in Admins : req'[b].pc = "track" => req'[b] = req[b]
    BY <1>4, <1>0, RequestFields DEF Create
  <2>2. UNCHANGED <<registered, entries>>
    BY <1>4 DEF Create
  <2> QED
    BY <2>1, <2>2, HandlesFrame
<1>5. ASSUME NEW a \in Admins, NEW p \in Plans, ReadClone(a, p)
      PROVE  HandlesValid'
  <2>1. \A b \in Admins : req'[b].pc = "track" => req'[b] = req[b]
    BY <1>5, <1>0, RequestFields DEF ReadClone, Accept
  <2>2. UNCHANGED <<registered, entries>>
    BY <1>5 DEF ReadClone, Accept
  <2> QED
    BY <2>1, <2>2, HandlesFrame
<1>6. ASSUME NEW a \in Admins, WriteToggle(a)
      PROVE  HandlesValid'
  <2>1. \A b \in Admins : req'[b].pc = "track" => req'[b] = req[b]
    BY <1>6, <1>0, RequestFields DEF WriteToggle, Proceed
  <2>2. UNCHANGED <<registered, entries>>
    BY <1>6 DEF WriteToggle, Proceed
  <2> QED
    BY <2>1, <2>2, HandlesFrame
<1>7. ASSUME NEW a \in Admins, WriteUpdate(a)
      PROVE  HandlesValid'
  <2>1. \A b \in Admins : req'[b].pc = "track" => req'[b] = req[b]
    BY <1>7, <1>0, RequestFields DEF WriteUpdate, Proceed
  <2>2. UNCHANGED <<registered, entries>>
    BY <1>7 DEF WriteUpdate, Proceed
  <2> QED
    BY <2>1, <2>2, HandlesFrame
<1>8. ASSUME NEW a \in Admins, DeleteRow(a)
      PROVE  HandlesValid'
  <2>1. \A b \in Admins : req'[b].pc = "track" => req'[b] = req[b]
    BY <1>8, <1>0, RequestFields DEF DeleteRow, Finish
  <2>2. UNCHANGED <<registered, entries>>
    BY <1>8 DEF DeleteRow, Finish
  <2> QED
    BY <2>1, <2>2, HandlesFrame
<1>9. ASSUME NEW a \in Admins, NEW p \in Plans, InsertClone(a, p)
      PROVE  HandlesValid'
  <2>1. \A b \in Admins : req'[b].pc = "track" => req'[b] = req[b]
    BY <1>9, <1>0, RequestFields DEF InsertClone, Finish
  <2>2. UNCHANGED <<registered, entries>>
    BY <1>9 DEF InsertClone, Finish
  <2> QED
    BY <2>1, <2>2, HandlesFrame
<1>10. ASSUME NEW a \in Admins, WriteFails(a)
      PROVE  HandlesValid'
  <2>1. \A b \in Admins : req'[b].pc = "track" => req'[b] = req[b]
    BY <1>10, <1>0, RequestFields DEF WriteFails, Finish
  <2>2. UNCHANGED <<registered, entries>>
    BY <1>10 DEF WriteFails, Finish
  <2> QED
    BY <2>1, <2>2, HandlesFrame
<1>11. ASSUME NEW a \in Admins, ReloadRemove(a)
      PROVE  HandlesValid'
  <2>1. \A b \in Admins : req'[b].pc = "track" => req'[b] = req[b]
    BY <1>11, <1>0, RequestFields DEF ReloadRemove, Proceed
  <2>2. req[a].plan \in Plans
    BY <1>0 DEF Requests
  <2> QED
    BY <1>11, <2>1, <2>2, HandlesRemove DEF ReloadRemove
<1>12. ASSUME NEW a \in Admins, ReloadFetch(a)
      PROVE  HandlesValid'
  <2>1. \A b \in Admins : req'[b].pc = "track" => req'[b] = req[b]
    BY <1>12, <1>0, RequestFields DEF ReloadFetch, Proceed
  <2>2. UNCHANGED <<registered, entries>>
    BY <1>12 DEF ReloadFetch, Proceed
  <2> QED
    BY <2>1, <2>2, HandlesFrame
<1>13. ASSUME NEW a \in Admins, ReloadFetchFails(a)
      PROVE  HandlesValid'
  <2>1. \A b \in Admins : req'[b].pc = "track" => req'[b] = req[b]
    BY <1>13, <1>0, RequestFields DEF ReloadFetchFails, Finish
  <2>2. UNCHANGED <<registered, entries>>
    BY <1>13 DEF ReloadFetchFails, Finish
  <2> QED
    BY <2>1, <2>2, HandlesFrame
<1>14. ASSUME NEW a \in Admins, AddFunc(a)
      PROVE  HandlesValid'
  <2>1. PICK id \in FreshIDs :
           /\ registered' = registered \union
                 {[id |-> id, plan |-> req[a].plan, cron |-> req[a].row.cron]}
           /\ req' = [req EXCEPT ![a] =
                         [Request("track", req[a].plan, Unborn) EXCEPT !.id = id]]
    BY <1>14 DEF AddFunc
  <2>2. /\ id \in EntryIDs
        /\ \A e \in registered : e.id # id
    BY DEF FreshIDs
  <2>3. /\ entries' = entries
        /\ req'[a].pc = "track" /\ req'[a].id = id /\ req'[a].plan = req[a].plan
        /\ \A b \in Admins : b # a => req'[b] = req[b]
    BY <1>14, <1>0, <2>1 DEF AddFunc, Request
  <2>4. UniqueIDs'
    BY <2>1, <2>2 DEF HandlesValid, UniqueIDs
  <2>5. MapValid'
    BY <2>1, <2>3 DEF HandlesValid, MapValid, Tracked
  <2>6. \A p \in Plans : entries[p] # id
    BY <2>2, SchedulerAssumption DEF HandlesValid, MapValid, Tracked
  <2>7. \A b \in Admins : req[b].pc = "track" => req[b].id # id
    BY <2>2 DEF HandlesValid, PendingValid
  <2>8. PendingValid'
    <3>0. [id |-> id, plan |-> req[a].plan, cron |-> req[a].row.cron] \in registered'
      BY <2>1
    <3>1. \E e \in registered' : e.id = id /\ e.plan = req[a].plan
      BY <3>0
    <3>2. \A b \in Admins : b # a /\ req[b].pc = "track" =>
             /\ \E e \in registered' : e.id = req[b].id /\ e.plan = req[b].plan
             /\ \A p \in Plans : entries[p] # req[b].id
             /\ \A c \in Admins : req[c].pc = "track" /\ req[c].id = req[b].id => c = b
      BY <2>1 DEF HandlesValid, PendingValid
    <3> QED
      BY <2>3, <2>6, <2>7, <3>1, <3>2 DEF PendingValid
  <2> QED
    BY <2>4, <2>5, <2>8 DEF HandlesValid
<1>15. ASSUME NEW a \in Admins, Track(a)
      PROVE  HandlesValid'
  <2>1. /\ registered' = registered
        /\ entries' = [entries EXCEPT ![req[a].plan] = req[a].id]
        /\ req[a].pc = "track"
        /\ req'[a].pc = "count"
        /\ \A b \in Admins : b # a => req'[b] = req[b]
    BY <1>15, <1>0, RequestFields DEF Track, Proceed
  <2>2. /\ entries \in [Plans -> EntryIDs \union {NoEntry}]
        /\ req[a].plan \in Plans
    BY <1>0 DEF TypeOK, Requests
  <2>3. UniqueIDs'
    BY <2>1 DEF HandlesValid, UniqueIDs
  <2>4. MapValid'
    BY <2>1, <2>2 DEF HandlesValid, MapValid, PendingValid, Tracked
  <2>5. PendingValid'
    BY <2>1, <2>2 DEF HandlesValid, PendingValid
  <2> QED
    BY <2>3, <2>4, <2>5 DEF HandlesValid
<1>16. ASSUME NEW a \in Admins, CountEntries(a)
      PROVE  HandlesValid'
  <2>1. \A b \in Admins : req'[b].pc = "track" => req'[b] = req[b]
    BY <1>16, <1>0 DEF CountEntries, Request
  <2> QED
    BY <1>16, <2>1, HandlesFrame DEF CountEntries
<1>17. ASSUME NEW a \in Admins, CountEnabled(a)
      PROVE  HandlesValid'
  <2>1. \A n : Counted(req[a], n).pc = "publish"
    BY <1>0 DEF Counted, Requests
  <2>2. \A b \in Admins : req'[b].pc = "track" => req'[b] = req[b]
    BY <1>17, <1>0, <2>1 DEF CountEnabled
  <2> QED
    BY <1>17, <2>2, HandlesFrame DEF CountEnabled
<1>18. ASSUME NEW a \in Admins, Publish(a)
      PROVE  HandlesValid'
  <2>1. \A b \in Admins : req'[b].pc = "track" => req'[b] = req[b]
    BY <1>18, <1>0, RequestFields DEF Publish, Finish
  <2>2. UNCHANGED <<registered, entries>>
    BY <1>18 DEF Publish, Finish
  <2> QED
    BY <2>1, <2>2, HandlesFrame
<1>19. ASSUME NEW j \in Jobs, NEW e \in registered, Fire(j, e)
      PROVE  HandlesValid'
  BY <1>19, HandlesFrame DEF Fire
<1>20. ASSUME NEW j \in Jobs, JobLoads(j)
      PROVE  HandlesValid'
  BY <1>20, HandlesFrame DEF JobLoads
<1>31. ASSUME NEW j \in Jobs, JobExecutes(j)
      PROVE  HandlesValid'
  BY <1>31, HandlesFrame DEF JobExecutes
<1>21. ASSUME NEW j \in Jobs, JobReturns(j)
      PROVE  HandlesValid'
  BY <1>21, HandlesFrame DEF JobReturns
<1>22. ASSUME NEW j \in Jobs, JobEnds(j)
      PROVE  HandlesValid'
  BY <1>22, HandlesFrame DEF JobEnds
<1>23. CASE Start
  <2>1. PICK ids \in [EnabledRows -> EntryIDs] :
           /\ \A p, q \in EnabledRows : ids[p] = ids[q] => p = q
           /\ entries' = [p \in Plans |-> IF p \in EnabledRows THEN ids[p] ELSE NoEntry]
           /\ registered' = {[id |-> ids[p], plan |-> p, cron |-> row[p].cron] :
                                p \in EnabledRows}
    BY <1>23 DEF Start
  <2>2. \A b \in Admins : req'[b].pc = "idle"
    BY <1>23 DEF Start, DownInv
  <2>3. UniqueIDs'
    BY <2>1 DEF UniqueIDs
  <2>4. MapValid'
    <3> SUFFICES ASSUME NEW p \in Plans, entries'[p] # NoEntry
                 PROVE  \E e \in registered' : e.id = entries'[p] /\ e.plan = p
      BY DEF MapValid, Tracked
    <3>1. p \in EnabledRows /\ entries'[p] = ids[p]
      BY <2>1
    <3>2. [id |-> ids[p], plan |-> p, cron |-> row[p].cron] \in registered'
      BY <2>1, <3>1
    <3> QED
      BY <3>1, <3>2
  <2>5. PendingValid'
    BY <2>2 DEF PendingValid
  <2> QED
    BY <2>3, <2>4, <2>5 DEF HandlesValid
<1>24. CASE StartWithoutCron
  BY <1>24, HandlesFrame DEF StartWithoutCron
<1>25. CASE Stop
  BY <1>25, HandlesFrame DEF Stop
<1>26. CASE JobsDone
  BY <1>26, HandlesFrame DEF JobsDone
<1>27. CASE Exit
  BY <1>27, RequestFields DEF Exit, ForgetAll, HandlesValid, UniqueIDs, MapValid,
    PendingValid, Tracked
<1>28. CASE Crash
  BY <1>28, RequestFields DEF Crash, ForgetAll, HandlesValid, UniqueIDs, MapValid,
    PendingValid, Tracked
<1>29. CASE UNCHANGED vars
  BY <1>29, HandlesFrame DEF vars
<1> QED
  BY <1>1, <1>2, <1>3, <1>4, <1>5, <1>6, <1>7, <1>8, <1>9, <1>10, <1>11,
     <1>12, <1>13, <1>14, <1>15, <1>16, <1>17, <1>18, <1>19, <1>20, <1>21,
     <1>22, <1>23, <1>24, <1>25, <1>26, <1>27, <1>28, <1>29, <1>31
  DEF Next, BeginRequest, RequestStep, JobStep

LEMMA HandlesInit == Init => DownInv /\ HandlesValid
  BY RequestFields
  DEF Init, DownInv, HandlesValid, UniqueIDs, MapValid, PendingValid, Tracked

(* The map never holds a stale entry ID, for any number of requests that   *)
(* reload and delete plans at the same time.                               *)
THEOREM HandlesAlwaysValid == Spec => []HandlesValid
<1>1. Init => TypeOK /\ DownInv /\ HandlesValid
  BY TypeInit, HandlesInit
<1>2. TypeOK /\ DownInv /\ HandlesValid /\ [Next]_vars
      => (TypeOK /\ DownInv /\ HandlesValid)'
  BY TypeStep, DownStep, HandlesStep
<1> QED
  BY <1>1, <1>2, PTL DEF Spec

-----------------------------------------------------------------------------
(***************************************************************************)
(* The registry: what a step does to the plan it is about, and that it     *)
(* leaves the other plans alone.                                           *)
(***************************************************************************)
LEMMA PlanFrame ==
  ASSUME NEW q \in Plans, PlanInv(q),
         row'[q] = row[q], entries'[q] = entries[q], Of(q)' = Of(q),
         q \in overlapped => q \in overlapped',
         \A b \in Admins : /\ Writing(b, q)' <=> Writing(b, q)
                           /\ Writing(b, q) => req'[b] = req[b]
  PROVE  PlanInv(q)'
<1>1. Quiet(q)' <=> Quiet(q)
  BY DEF Quiet
<1>2. \A e \in Of(q) : Right(e)' <=> Right(e)
  BY DEF Right, Of
<1>3. AllRight(q)' <=> AllRight(q)
  BY <1>2 DEF AllRight
<1>4. Absent(q)' <=> Absent(q)
  BY DEF Absent
<1>5. Born(q)'
  BY <1>1 DEF PlanInv, Born
<1>6. ASSUME q \notin overlapped' PROVE Alone(q)'
  <2>1. Alone(q)
    BY <1>6 DEF PlanInv
  <2>2. \A b \in Admins : Writing(b, q)' => Stage(b, q)'
    BY <2>1, <1>3, <1>4 DEF Alone, Stage
  <2> QED
    BY <2>1, <2>2, <1>1, <1>3 DEF Alone
<1> QED
  BY <1>5, <1>6 DEF PlanInv

(* A request about p moves on; nothing changes for the other plans.        *)
LEMMA OtherPlans ==
  ASSUME TypeOK, RegistryInv, NEW a \in Admins, NEW p \in Plans, NEW r,
         req' = [req EXCEPT ![a] = r],
         r.plan = p \/ r.pc \in {"idle", "clone"},
         req[a].plan = p \/ req[a].pc \in {"idle", "clone"},
         overlapped \subseteq overlapped',
         \A q \in Plans \ {p} : /\ row'[q] = row[q]
                                /\ entries'[q] = entries[q]
                                /\ Of(q)' = Of(q)
  PROVE  \A q \in Plans \ {p} : PlanInv(q)'
<1> SUFFICES ASSUME NEW q \in Plans \ {p} PROVE PlanInv(q)'
  OBVIOUS
<1>1. req'[a] = r /\ \A b \in Admins : b # a => req'[b] = req[b]
  BY DEF TypeOK
<1>2. \A b \in Admins : /\ Writing(b, q)' <=> Writing(b, q)
                        /\ Writing(b, q) => req'[b] = req[b]
  BY <1>1 DEF Writing
<1>3. PlanInv(q)
  BY DEF RegistryInv
<1> QED
  BY <1>2, <1>3, PlanFrame

(* A request alone on p takes its next step.                               *)
LEMMA OwnPlan ==
  ASSUME TypeOK, RegistryInv, NEW a \in Admins, NEW p \in Plans, NEW r,
         req' = [req EXCEPT ![a] = r],
         req[a].plan = p, req[a].pc \notin {"idle", "clone"},
         r.plan = p \/ r.pc = "idle", r.pc # "clone",
         overlapped' = overlapped, row'[p] # Unborn,
         p \notin overlapped /\ Stage(a, p) =>
            IF r.pc = "idle" THEN AllRight(p)' ELSE Stage(a, p)'
  PROVE  PlanInv(p)'
<1>1. req'[a] = r /\ \A b \in Admins : b # a => req'[b] = req[b]
  BY DEF TypeOK
<1>2. Writing(a, p) /\ PlanInv(p)
  BY DEF Writing, RegistryInv
<1>3. Born(p)'
  BY DEF Born
<1>4. ASSUME p \notin overlapped PROVE Alone(p)'
  <2>1. Alone(p)
    BY <1>2, <1>4 DEF PlanInv
  <2>2. Stage(a, p) /\ \A b \in Admins : b # a => ~Writing(b, p)
    BY <1>2, <2>1 DEF Alone
  <2>3. \A b \in Admins : b # a => ~Writing(b, p)'
    BY <2>2, <1>1 DEF Writing
  <2>4. CASE r.pc = "idle"
    <3>1. AllRight(p)' /\ ~Writing(a, p)'
      BY <2>4, <2>2, <1>4, <1>1 DEF Writing
    <3> QED
      BY <2>3, <3>1 DEF Alone
  <2>5. CASE r.pc # "idle"
    <3>1. Stage(a, p)' /\ Writing(a, p)'
      BY <2>5, <2>2, <1>4, <1>1 DEF Writing
    <3> QED
      BY <2>3, <3>1 DEF Alone, Quiet
  <2> QED
    BY <2>4, <2>5
<1> QED
  BY <1>3, <1>4 DEF PlanInv

(* A request about p is accepted.                                          *)
LEMMA BeginPlan ==
  ASSUME TypeOK, RegistryInv, NEW a \in Admins, NEW p \in Plans, NEW r,
         Accept(a, r), r.plan = p, r.pc \notin {"idle", "clone"},
         row'[p] # Unborn,
         AllRight(p) => Stage(a, p)'
  PROVE  PlanInv(p)'
<1>1. /\ req'[a] = r
      /\ \A b \in Admins : b # a => req'[b] = req[b]
      /\ ~Writing(a, p)
  BY DEF TypeOK, Accept, Writing
<1>2. Born(p)'
  BY DEF Born
<1>3. ASSUME p \notin overlapped' PROVE Alone(p)'
  <2>1. p \notin overlapped /\ Quiet(p)
    BY <1>3 DEF Accept
  <2>2. AllRight(p)
    BY <2>1 DEF RegistryInv, PlanInv, Alone
  <2>3. \A b \in Admins : b # a => ~Writing(b, p)'
    BY <2>1, <1>1 DEF Quiet, Writing
  <2>4. Stage(a, p)' /\ Writing(a, p)'
    BY <2>2, <1>1 DEF Writing
  <2> QED
    BY <2>3, <2>4 DEF Alone, Quiet
<1> QED
  BY <1>2, <1>3 DEF PlanInv

(* RemovePlan(p) takes nothing from cron that is not of p.                 *)
LEMMA RemoveOnlyPlan ==
  ASSUME TypeOK, HandlesValid, NEW p \in Plans, RemovePlan(p)
  PROVE  /\ \A q \in Plans \ {p} : entries'[q] = entries[q] /\ Of(q)' = Of(q)
         /\ entries'[p] = NoEntry
         /\ Of(p)' = {e \in Of(p) : e.id # entries[p]}
<1>1. \A q \in Plans \ {p} : \A e \in Of(q) : e.id # entries[p]
  <2> SUFFICES ASSUME NEW q \in Plans \ {p}, NEW e \in Of(q), e.id = entries[p]
               PROVE  FALSE
    OBVIOUS
  <2>1. e \in registered /\ e.plan = q /\ e.id # NoEntry
    BY SchedulerAssumption DEF Of, TypeOK, Entry
  <2>2. PICK f \in registered : f.id = entries[p] /\ f.plan = p
    BY <2>1 DEF HandlesValid, MapValid, Tracked
  <2> QED
    BY <2>1, <2>2 DEF HandlesValid, UniqueIDs
<1> QED
  BY <1>1 DEF RemovePlan, TypeOK, Of

LEMMA RegistryStep ==
  TypeOK /\ HandlesValid /\ RegistryInv /\ [Next]_vars => \A q \in Plans : PlanInv(q)'
<1> SUFFICES ASSUME TypeOK, HandlesValid, RegistryInv, [Next]_vars
             PROVE  \A q \in Plans : PlanInv(q)'
  OBVIOUS
<1> USE DEF memory
<1>0. /\ req \in [Admins -> Requests]
      /\ row \in [Plans -> Rows]
      /\ \A a \in Admins : req[a].plan \in Plans
      /\ \A p \in Plans : PlanInv(p)
      /\ \A r \in Rows : Live(r) => r # Unborn
      /\ Gone # Unborn
  BY DEF TypeOK, Requests, RegistryInv, Live, Unborn, Gone
(* A request under way is about a plan that has had a row.                 *)
<1>b. \A a \in Admins : req[a].pc \notin {"idle", "clone"} => row[req[a].plan] # Unborn
  BY <1>0 DEF PlanInv, Born, Quiet, Writing
<1>1. ASSUME NEW a \in Admins, NEW p \in Plans, ReadToggle(a, p)
      PROVE  \A q \in Plans : PlanInv(q)'
  <2>r. PICK r : r = Request("toggle", p, row[p])
    OBVIOUS
  <2>1. r.plan = p /\ r.pc = "toggle"
    BY <2>r, RequestFields
  <2>2. /\ Accept(a, r) /\ UNCHANGED <<row, entries, registered>>
        /\ row'[p] # Unborn
    BY <1>1, <1>0, <2>r DEF ReadToggle
  <2>3. \A q \in Plans : Of(q)' = Of(q)
    BY <2>2 DEF Of
  <2>4. req' = [req EXCEPT ![a] = r] /\ req[a].pc = "idle" /\ overlapped \subseteq overlapped'
    BY <2>2 DEF Accept
  <2>5. AllRight(p) => Stage(a, p)'
    <3>1. req'[a].pc = "toggle"
      BY <1>0, <2>1, <2>4
    <3> QED
      BY <2>2, <2>3, <3>1 DEF Stage, AllRight, Right
  <2>6. PlanInv(p)'
    BY <2>1, <2>2, <2>5, BeginPlan
  <2>7. \A q \in Plans \ {p} : /\ row'[q] = row[q]
                                 /\ entries'[q] = entries[q]
                                 /\ Of(q)' = Of(q)
    BY <2>2, <2>3
  <2>8. \A q \in Plans \ {p} : PlanInv(q)'
    BY <2>1, <2>4, <2>7, OtherPlans
  <2> QED
    BY <2>6, <2>8
<1>2. ASSUME NEW a \in Admins, NEW p \in Plans, NEW cron \in Crons, ReadUpdate(a, p, cron)
      PROVE  \A q \in Plans : PlanInv(q)'
  <2>r. PICK r : r = Request("save", p, [row[p] EXCEPT !.cron = cron])
    OBVIOUS
  <2>1. r.plan = p /\ r.pc = "save"
    BY <2>r, RequestFields
  <2>2. /\ Accept(a, r) /\ UNCHANGED <<row, entries, registered>>
        /\ row'[p] # Unborn
    BY <1>2, <1>0, <2>r DEF ReadUpdate
  <2>3. \A q \in Plans : Of(q)' = Of(q)
    BY <2>2 DEF Of
  <2>4. req' = [req EXCEPT ![a] = r] /\ req[a].pc = "idle" /\ overlapped \subseteq overlapped'
    BY <2>2 DEF Accept
  <2>5. AllRight(p) => Stage(a, p)'
    <3>1. req'[a].pc = "save"
      BY <1>0, <2>1, <2>4
    <3> QED
      BY <2>2, <2>3, <3>1 DEF Stage, AllRight, Right
  <2>6. PlanInv(p)'
    BY <2>1, <2>2, <2>5, BeginPlan
  <2>7. \A q \in Plans \ {p} : /\ row'[q] = row[q]
                                 /\ entries'[q] = entries[q]
                                 /\ Of(q)' = Of(q)
    BY <2>2, <2>3
  <2>8. \A q \in Plans \ {p} : PlanInv(q)'
    BY <2>1, <2>4, <2>7, OtherPlans
  <2> QED
    BY <2>6, <2>8
<1>3. ASSUME NEW a \in Admins, NEW p \in Plans, BeginDelete(a, p)
      PROVE  \A q \in Plans : PlanInv(q)'
  <2>r. PICK r : r = Request("delete", p, Unborn)
    OBVIOUS
  <2>1. r.plan = p /\ r.pc = "delete"
    BY <2>r, RequestFields
  <2>2. Accept(a, r) /\ RemovePlan(p) /\ row' = row /\ row'[p] # Unborn
    BY <1>3, <2>r DEF BeginDelete
  <2>3. /\ \A q \in Plans \ {p} : entries'[q] = entries[q] /\ Of(q)' = Of(q)
        /\ entries'[p] = NoEntry
        /\ Of(p)' = {e \in Of(p) : e.id # entries[p]}
    BY <2>2, RemoveOnlyPlan
  <2>4. req' = [req EXCEPT ![a] = r] /\ req[a].pc = "idle" /\ overlapped \subseteq overlapped'
    BY <2>2 DEF Accept
  <2>5. AllRight(p) => Stage(a, p)'
    <3>1. req'[a].pc = "delete"
      BY <1>0, <2>1, <2>4
    <3>2. AllRight(p) => Of(p)' = {}
      BY <2>3 DEF AllRight, Right, Of
    <3> QED
      BY <2>3, <3>1, <3>2 DEF Stage, Absent
  <2>6. PlanInv(p)'
    BY <2>1, <2>2, <2>5, BeginPlan
  <2>7. \A q \in Plans \ {p} : PlanInv(q)'
    BY <2>1, <2>2, <2>3, <2>4, OtherPlans
  <2> QED
    BY <2>6, <2>7
<1>4. ASSUME NEW a \in Admins, NEW p \in Plans, NEW cron \in Crons, Create(a, p, cron)
      PROVE  \A q \in Plans : PlanInv(q)'
  <2>1. /\ row[p] = Unborn
        /\ row' = [row EXCEPT ![p] = row'[p]]
        /\ row'[p] # Unborn
        /\ UNCHANGED <<entries, registered, overlapped>>
    BY <1>4, <1>0 DEF Create, Write, NewRow, Unborn
  <2>2. \A b \in Admins, q \in Plans :
           /\ Writing(b, q)' <=> Writing(b, q)
           /\ Writing(b, q) => req'[b] = req[b]
    BY <1>4, <1>0, RequestFields DEF Create, Writing
  <2>3. \A q \in Plans : Of(q)' = Of(q)
    BY <2>1 DEF Of
  <2>4. \A q \in Plans \ {p} : PlanInv(q)'
    BY <1>0, <2>1, <2>2, <2>3, PlanFrame
  <2>5. PlanInv(p)'
    <3>1. Of(p) = {} /\ Quiet(p)
      BY <1>0, <2>1 DEF PlanInv, Born
    <3>2. Quiet(p)' /\ AllRight(p)'
      BY <2>2, <2>3, <3>1 DEF Quiet, AllRight
    <3> QED
      BY <2>1, <3>2 DEF PlanInv, Born, Alone, Quiet
  <2> QED
    BY <2>4, <2>5
<1>5. ASSUME NEW a \in Admins, NEW p \in Plans, ReadClone(a, p)
      PROVE  \A q \in Plans : PlanInv(q)'
  <2>r. PICK r : r = Request("clone", p, row[p])
    OBVIOUS
  <2>1. r.pc = "clone"
    BY <2>r, RequestFields
  <2>2. Accept(a, r) /\ UNCHANGED <<row, entries, registered>>
    BY <1>5, <2>r DEF ReadClone
  <2>3. req' = [req EXCEPT ![a] = r] /\ req[a].pc = "idle" /\ overlapped = overlapped'
    BY <2>1, <2>2 DEF Accept
  <2>4. \A b \in Admins, q \in Plans :
           /\ Writing(b, q)' <=> Writing(b, q)
           /\ Writing(b, q) => req'[b] = req[b]
    BY <1>0, <2>1, <2>3 DEF Writing
  <2>5. \A q \in Plans : Of(q)' = Of(q)
    BY <2>2 DEF Of
  <2> QED
    BY <1>0, <2>2, <2>3, <2>4, <2>5, PlanFrame
<1>6. ASSUME NEW a \in Admins, WriteToggle(a)
      PROVE  \A q \in Plans : PlanInv(q)'
  <2>p. PICK p \in Plans : p = req[a].plan
    BY <1>0
  <2>r. PICK r : r = Request("remove", p, Unborn)
    OBVIOUS
  <2>1. p \in Plans /\ row[p] # Unborn /\ req[a].plan = p /\ req[a].pc \notin {"idle", "clone"}
    BY <1>6, <1>0, <1>b, <2>p DEF WriteToggle
  <2>2. /\ r.plan = p \/ r.pc = "idle"
        /\ r.pc = "remove"
        /\ req' = [req EXCEPT ![a] = r]
        /\ overlapped' = overlapped
    BY <1>6, <2>p, <2>r, RequestFields DEF WriteToggle, Proceed
  <2>3. \A q \in Plans : Of(q)' = Of(q) /\ entries'[q] = entries[q]
    BY <1>6, <2>p DEF WriteToggle, Of
  <2>4. row'[p] # Unborn /\ \A q \in Plans \ {p} : row'[q] = row[q]
    BY <1>6, <1>0, <2>1, PatchedRow, RowType, <2>p DEF WriteToggle, Write, Live, Unborn, Gone
  <2>5. p \notin overlapped /\ Stage(a, p) =>
           IF r.pc = "idle" THEN AllRight(p)' ELSE Stage(a, p)'
    <3>1. req'[a] = r
      BY <1>0, <2>2
    <3> QED
      BY <1>6, <2>p, <2>1, <2>2, <2>3, <2>4, <3>1
      DEF WriteToggle, Stage, AllRight, Right, Absent, Of
  <2>6. PlanInv(p)'
    BY <2>1, <2>2, <2>3, <2>4, <2>5, OwnPlan
  <2>7. \A q \in Plans \ {p} : PlanInv(q)'
    BY <2>1, <2>2, <2>3, <2>4, OtherPlans
  <2> QED
    BY <2>6, <2>7
<1>7. ASSUME NEW a \in Admins, WriteUpdate(a)
      PROVE  \A q \in Plans : PlanInv(q)'
  <2>p. PICK p \in Plans : p = req[a].plan
    BY <1>0
  <2>r. PICK r : r = Request("remove", p, Unborn)
    OBVIOUS
  <2>1. p \in Plans /\ row[p] # Unborn /\ req[a].plan = p /\ req[a].pc \notin {"idle", "clone"}
    BY <1>7, <1>0, <1>b, <2>p DEF WriteUpdate
  <2>2. /\ r.plan = p \/ r.pc = "idle"
        /\ r.pc = "remove"
        /\ req' = [req EXCEPT ![a] = r]
        /\ overlapped' = overlapped
    BY <1>7, <2>p, <2>r, RequestFields DEF WriteUpdate, Proceed
  <2>3. \A q \in Plans : Of(q)' = Of(q) /\ entries'[q] = entries[q]
    BY <1>7, <2>p DEF WriteUpdate, Of
  <2>4. row'[p] # Unborn /\ \A q \in Plans \ {p} : row'[q] = row[q]
    <3>1. Live(req[a].row) /\ req[a].row \in Rows
      BY <1>7, <1>0 DEF WriteUpdate, Requests
    <3>2. Live(Saved(p, req[a].row))
      BY <3>1, SavedType
    <3> QED
      BY <1>7, <1>0, <2>p, <3>2 DEF WriteUpdate, Write, Live, Unborn
  <2>5. p \notin overlapped /\ Stage(a, p) =>
           IF r.pc = "idle" THEN AllRight(p)' ELSE Stage(a, p)'
    <3>1. req'[a] = r
      BY <1>0, <2>2
    <3> QED
      BY <1>7, <2>p, <2>1, <2>2, <2>3, <2>4, <3>1
      DEF WriteUpdate, Stage, AllRight, Right, Absent, Of
  <2>6. PlanInv(p)'
    BY <2>1, <2>2, <2>3, <2>4, <2>5, OwnPlan
  <2>7. \A q \in Plans \ {p} : PlanInv(q)'
    BY <2>1, <2>2, <2>3, <2>4, OtherPlans
  <2> QED
    BY <2>6, <2>7
<1>8. ASSUME NEW a \in Admins, DeleteRow(a)
      PROVE  \A q \in Plans : PlanInv(q)'
  <2>p. PICK p \in Plans : p = req[a].plan
    BY <1>0
  <2>r. PICK r : r = IdleReq
    OBVIOUS
  <2>1. p \in Plans /\ row[p] # Unborn /\ req[a].plan = p /\ req[a].pc \notin {"idle", "clone"}
    BY <1>8, <1>0, <1>b, <2>p DEF DeleteRow
  <2>2. /\ r.plan = p \/ r.pc = "idle"
        /\ r.pc = "idle"
        /\ req' = [req EXCEPT ![a] = r]
        /\ overlapped' = overlapped
    BY <1>8, <2>p, <2>r, RequestFields DEF DeleteRow, Finish
  <2>3. \A q \in Plans : Of(q)' = Of(q) /\ entries'[q] = entries[q]
    BY <1>8, <2>p DEF DeleteRow, Of
  <2>4. row'[p] # Unborn /\ \A q \in Plans \ {p} : row'[q] = row[q]
    BY <1>8, <1>0, <2>1, PatchedRow, RowType, <2>p DEF DeleteRow, Write, Live, Unborn, Gone
  <2>5. p \notin overlapped /\ Stage(a, p) =>
           IF r.pc = "idle" THEN AllRight(p)' ELSE Stage(a, p)'
    <3>1. req'[a] = r
      BY <1>0, <2>2
    <3> QED
      BY <1>8, <2>p, <2>1, <2>2, <2>3, <2>4, <3>1
      DEF DeleteRow, Stage, AllRight, Right, Absent, Of
  <2>6. PlanInv(p)'
    BY <2>1, <2>2, <2>3, <2>4, <2>5, OwnPlan
  <2>7. \A q \in Plans \ {p} : PlanInv(q)'
    BY <2>1, <2>2, <2>3, <2>4, OtherPlans
  <2> QED
    BY <2>6, <2>7
<1>9. ASSUME NEW a \in Admins, NEW p \in Plans, InsertClone(a, p)
      PROVE  \A q \in Plans : PlanInv(q)'
  <2>1. /\ row[p] = Unborn
        /\ row' = [row EXCEPT ![p] = row'[p]]
        /\ row'[p] # Unborn
        /\ UNCHANGED <<entries, registered, overlapped>>
    BY <1>9, <1>0 DEF InsertClone, Write, NewRow, Unborn
  <2>2. \A b \in Admins, q \in Plans :
           /\ Writing(b, q)' <=> Writing(b, q)
           /\ Writing(b, q) => req'[b] = req[b]
    BY <1>9, <1>0, RequestFields DEF InsertClone, Writing, Finish
  <2>3. \A q \in Plans : Of(q)' = Of(q)
    BY <2>1 DEF Of
  <2>4. \A q \in Plans \ {p} : PlanInv(q)'
    BY <1>0, <2>1, <2>2, <2>3, PlanFrame
  <2>5. PlanInv(p)'
    <3>1. Of(p) = {} /\ Quiet(p)
      BY <1>0, <2>1 DEF PlanInv, Born
    <3>2. Quiet(p)' /\ AllRight(p)'
      BY <2>2, <2>3, <3>1 DEF Quiet, AllRight
    <3> QED
      BY <2>1, <3>2 DEF PlanInv, Born, Alone, Quiet
  <2> QED
    BY <2>4, <2>5
<1>10. ASSUME NEW a \in Admins, WriteFails(a)
      PROVE  \A q \in Plans : PlanInv(q)'
  <2>1. /\ req' = [req EXCEPT ![a] = IdleReq] /\ IdleReq.pc = "idle"
        /\ req[a].pc \in {"toggle", "save", "delete", "clone"}
        /\ UNCHANGED <<row, entries, registered, overlapped>>
    BY <1>10, RequestFields DEF WriteFails, Finish
  <2>2. \A q \in Plans : Of(q)' = Of(q)
    BY <2>1 DEF Of
  <2>p. PICK p \in Plans : p = req[a].plan
    BY <1>0
  <2>a. \A q \in Plans \ {p} : /\ row'[q] = row[q]
                               /\ entries'[q] = entries[q]
                               /\ Of(q)' = Of(q)
    BY <2>1, <2>2
  <2>r. PICK r : r = IdleReq
    OBVIOUS
  <2>3. \A q \in Plans \ {p} : PlanInv(q)'
    BY <2>p, <2>r, <2>1, <2>a, OtherPlans
  <2>4. CASE req[a].pc = "clone"
    <3>1. \A b \in Admins, q \in Plans :
             /\ Writing(b, q)' <=> Writing(b, q)
             /\ Writing(b, q) => req'[b] = req[b]
      BY <1>0, <2>1, <2>4 DEF Writing
    <3> QED
      BY <1>0, <2>1, <2>2, <3>1, PlanFrame
  <2>5. CASE req[a].pc # "clone"
    <3>1. row[p] # Unborn
      BY <1>b, <2>p, <2>1, <2>5
    <3>2. Stage(a, p) => AllRight(p)'
      BY <2>1, <2>2, <2>5, <3>1 DEF Stage, AllRight, Right, Absent, Of
    <3>3. PlanInv(p)'
      BY <2>p, <2>1, <2>2, <2>5, <3>1, <3>2, OwnPlan
    <3> QED
      BY <2>3, <3>3
  <2> QED
    BY <2>1, <2>4, <2>5
<1>11. ASSUME NEW a \in Admins, ReloadRemove(a)
      PROVE  \A q \in Plans : PlanInv(q)'
  <2>p. PICK p \in Plans : p = req[a].plan
    BY <1>0
  <2>r. PICK r : r = Request("fetch", p, Unborn)
    OBVIOUS
  <2>1. p \in Plans /\ row[p] # Unborn /\ req[a].plan = p /\ req[a].pc \notin {"idle", "clone"}
    BY <1>11, <1>0, <1>b, <2>p DEF ReloadRemove
  <2>2. /\ r.plan = p \/ r.pc = "idle"
        /\ r.pc = "fetch"
        /\ req' = [req EXCEPT ![a] = r]
        /\ overlapped' = overlapped
    BY <1>11, <2>p, <2>r, RequestFields DEF ReloadRemove, Proceed
  <2>a. RemovePlan(p)
    BY <1>11, <2>p DEF ReloadRemove
  <2>3. /\ \A q \in Plans \ {p} : entries'[q] = entries[q] /\ Of(q)' = Of(q)
        /\ entries'[p] = NoEntry
        /\ Of(p)' = {e \in Of(p) : e.id # entries[p]}
    BY <2>1, <2>a, RemoveOnlyPlan
  <2>4. row' = row /\ row'[p] # Unborn
    BY <1>11, <2>1 DEF ReloadRemove
  <2>5. p \notin overlapped /\ Stage(a, p) =>
           IF r.pc = "idle" THEN AllRight(p)' ELSE Stage(a, p)'
    <3>1. req'[a] = r
      BY <1>0, <2>2
    <3>2. Stage(a, p) => Of(p)' = {}
      BY <1>11, <2>3 DEF ReloadRemove, Stage
    <3> QED
      BY <2>2, <2>3, <3>1, <3>2 DEF Stage, Absent
  <2>6. PlanInv(p)'
    BY <2>1, <2>2, <2>3, <2>4, <2>5, OwnPlan
  <2>7. \A q \in Plans \ {p} : PlanInv(q)'
    BY <2>1, <2>2, <2>3, <2>4, OtherPlans
  <2> QED
    BY <2>6, <2>7
<1>12. ASSUME NEW a \in Admins, ReloadFetch(a)
      PROVE  \A q \in Plans : PlanInv(q)'
  <2>p. PICK p \in Plans : p = req[a].plan
    BY <1>0
  <2>r. PICK r : r = req'[a]
    OBVIOUS
  <2>1. p \in Plans /\ row[p] # Unborn /\ req[a].plan = p /\ req[a].pc = "fetch"
    BY <1>12, <1>0, <1>b, <2>p DEF ReloadFetch
  <2>2. /\ r.plan = p
        /\ \/ r.pc = "add" /\ r.row = row[p] /\ row[p].enabled
           \/ r.pc = "count" /\ ~row[p].enabled
        /\ req' = [req EXCEPT ![a] = r]
        /\ overlapped' = overlapped
    BY <1>12, <1>0, <2>p, <2>r, RequestFields DEF ReloadFetch, Proceed
  <2>3. \A q \in Plans : Of(q)' = Of(q) /\ entries'[q] = entries[q]
    BY <1>12, <2>p DEF ReloadFetch, Of
  <2>4. row' = row /\ row'[p] # Unborn
    BY <1>12, <2>1 DEF ReloadFetch
  <2>5. Stage(a, p) => Stage(a, p)'
    <3>1. req'[a] = r
      BY <2>r
    <3> QED
      BY <2>1, <2>2, <2>3, <2>4, <3>1 DEF Stage, AllRight, Absent
  <2>6. PlanInv(p)'
    BY <2>1, <2>2, <2>3, <2>4, <2>5, OwnPlan
  <2>7. \A q \in Plans \ {p} : PlanInv(q)'
    BY <2>1, <2>2, <2>3, <2>4, OtherPlans
  <2> QED
    BY <2>6, <2>7
<1>13. ASSUME NEW a \in Admins, ReloadFetchFails(a)
      PROVE  \A q \in Plans : PlanInv(q)'
  <2>p. PICK p \in Plans : p = req[a].plan
    BY <1>0
  <2>r. PICK r : r = IdleReq
    OBVIOUS
  <2>1. p \in Plans /\ row[p] # Unborn /\ req[a].plan = p /\ req[a].pc \notin {"idle", "clone"}
    BY <1>13, <1>0, <1>b, <2>p DEF ReloadFetchFails
  <2>2. /\ r.plan = p \/ r.pc = "idle"
        /\ r.pc = "idle"
        /\ req' = [req EXCEPT ![a] = r]
        /\ overlapped' = overlapped
    BY <1>13, <2>p, <2>r, RequestFields DEF ReloadFetchFails, Finish
  <2>3. \A q \in Plans : Of(q)' = Of(q) /\ entries'[q] = entries[q]
    BY <1>13, <2>p DEF ReloadFetchFails, Of
  <2>4. row' = row /\ row'[p] # Unborn
    BY <1>13, <2>1 DEF ReloadFetchFails
  <2>5. p \notin overlapped /\ Stage(a, p) =>
           IF r.pc = "idle" THEN AllRight(p)' ELSE Stage(a, p)'
    <3>1. req'[a] = r
      BY <1>0, <2>2
    <3> QED
      BY <1>13, <2>p, <2>1, <2>2, <2>3, <2>4, <3>1
      DEF ReloadFetchFails, Stage, AllRight, Right, Absent, Of
  <2>6. PlanInv(p)'
    BY <2>1, <2>2, <2>3, <2>4, <2>5, OwnPlan
  <2>7. \A q \in Plans \ {p} : PlanInv(q)'
    BY <2>1, <2>2, <2>3, <2>4, OtherPlans
  <2> QED
    BY <2>6, <2>7
<1>14. ASSUME NEW a \in Admins, AddFunc(a)
      PROVE  \A q \in Plans : PlanInv(q)'
  <2>p. PICK p \in Plans : p = req[a].plan
    BY <1>0
  <2>r. PICK r : r = req'[a]
    OBVIOUS
  <2>1. p \in Plans /\ row[p] # Unborn /\ req[a].plan = p /\ req[a].pc = "add"
    BY <1>14, <1>0, <1>b, <2>p DEF AddFunc
  <2>2. /\ r.plan = p
        /\ r.pc = "track"
        /\ req' = [req EXCEPT ![a] = r]
        /\ registered' = registered \union
              {[id |-> r.id, plan |-> p, cron |-> req[a].row.cron]}
        /\ overlapped' = overlapped
    BY <1>14, <1>0, <2>p, <2>r DEF AddFunc, Request
  <2>3. /\ \A q \in Plans \ {p} : Of(q)' = Of(q)
        /\ entries' = entries
        /\ Of(p)' = Of(p) \union {[id |-> r.id, plan |-> p, cron |-> req[a].row.cron]}
    BY <1>14, <2>2 DEF AddFunc, Of
  <2>4. row' = row /\ row'[p] # Unborn
    BY <1>14, <2>1 DEF AddFunc
  <2>5. Stage(a, p) => Stage(a, p)'
    <3>1. req'[a] = r
      BY <2>r
    <3> QED
      BY <2>1, <2>2, <2>3, <2>4, <3>1 DEF Stage, Absent
  <2>6. PlanInv(p)'
    BY <2>1, <2>2, <2>3, <2>4, <2>5, OwnPlan
  <2>7. \A q \in Plans \ {p} : PlanInv(q)'
    BY <2>1, <2>2, <2>3, <2>4, OtherPlans
  <2> QED
    BY <2>6, <2>7
<1>15. ASSUME NEW a \in Admins, Track(a)
      PROVE  \A q \in Plans : PlanInv(q)'
  <2>p. PICK p \in Plans : p = req[a].plan
    BY <1>0
  <2>r. PICK r : r = Request("count", p, Unborn)
    OBVIOUS
  <2>1. p \in Plans /\ row[p] # Unborn /\ req[a].plan = p /\ req[a].pc \notin {"idle", "clone"}
    BY <1>15, <1>0, <1>b, <2>p DEF Track
  <2>2. /\ r.plan = p \/ r.pc = "idle"
        /\ r.pc = "count"
        /\ req' = [req EXCEPT ![a] = r]
        /\ overlapped' = overlapped
    BY <1>15, <2>p, <2>r, RequestFields DEF Track, Proceed
  <2>3. /\ \A q \in Plans : Of(q)' = Of(q)
        /\ \A q \in Plans \ {p} : entries'[q] = entries[q]
        /\ entries'[p] = req[a].id /\ req[a].id # NoEntry
    <3>1. entries' = [entries EXCEPT ![p] = req[a].id] /\ registered' = registered
      BY <1>15, <2>p DEF Track
    <3>2. \E e \in registered : e.id = req[a].id
      BY <1>15 DEF Track, HandlesValid, PendingValid
    <3> QED
      BY <3>1, <3>2, <2>1, SchedulerAssumption DEF TypeOK, Entry, Of
  <2>4. row' = row /\ row'[p] # Unborn
    BY <1>15, <2>1 DEF Track
  <2>5. p \notin overlapped /\ Stage(a, p) =>
           IF r.pc = "idle" THEN AllRight(p)' ELSE Stage(a, p)'
    <3>1. req'[a] = r
      BY <1>0, <2>2
    <3>2. ASSUME Stage(a, p) PROVE AllRight(p)' /\ row[p].enabled
      BY <1>15, <3>2, <2>3, <2>4 DEF Track, Stage, AllRight, Right, Of
    <3> QED
      BY <2>2, <2>3, <2>4, <3>1, <3>2 DEF Stage
  <2>6. PlanInv(p)'
    BY <2>1, <2>2, <2>3, <2>4, <2>5, OwnPlan
  <2>7. \A q \in Plans \ {p} : PlanInv(q)'
    BY <2>1, <2>2, <2>3, <2>4, OtherPlans
  <2> QED
    BY <2>6, <2>7
<1>16. ASSUME NEW a \in Admins, CountEntries(a)
      PROVE  \A q \in Plans : PlanInv(q)'
  <2>p. PICK p \in Plans : p = req[a].plan
    BY <1>0
  <2>r. PICK r : r = req'[a]
    OBVIOUS
  <2>1. p \in Plans /\ row[p] # Unborn /\ req[a].plan = p /\ req[a].pc \notin {"idle", "clone"}
    BY <1>16, <1>0, <1>b, <2>p DEF CountEntries
  <2>2. /\ r.plan = p
        /\ r.pc \in {"countEnabled", "publish"}
        /\ req' = [req EXCEPT ![a] = r]
        /\ overlapped' = overlapped
    BY <1>16, <1>0, <2>p, <2>r DEF CountEntries, Request
  <2>3. \A q \in Plans : Of(q)' = Of(q) /\ entries'[q] = entries[q]
    BY <1>16, <2>p DEF CountEntries, Of
  <2>4. row' = row /\ row'[p] # Unborn
    BY <1>16, <2>1 DEF CountEntries
  <2>5. Stage(a, p) => Stage(a, p)'
    <3>1. req'[a] = r
      BY <2>r
    <3> QED
      BY <1>16, <2>1, <2>2, <2>3, <2>4, <3>1 DEF CountEntries, Stage, AllRight, Right, Of
  <2>6. PlanInv(p)'
    BY <2>1, <2>2, <2>3, <2>4, <2>5, OwnPlan
  <2>7. \A q \in Plans \ {p} : PlanInv(q)'
    BY <2>1, <2>2, <2>3, <2>4, OtherPlans
  <2> QED
    BY <2>6, <2>7
<1>17. ASSUME NEW a \in Admins, CountEnabled(a)
      PROVE  \A q \in Plans : PlanInv(q)'
  <2>p. PICK p \in Plans : p = req[a].plan
    BY <1>0
  <2>r. PICK r : r = req'[a]
    OBVIOUS
  <2>1. p \in Plans /\ row[p] # Unborn /\ req[a].plan = p /\ req[a].pc \notin {"idle", "clone"}
    BY <1>17, <1>0, <1>b, <2>p DEF CountEnabled
  <2>2. /\ r.plan = p
        /\ r.pc \in {"countEnabled", "publish"}
        /\ req' = [req EXCEPT ![a] = r]
        /\ overlapped' = overlapped
    BY <1>17, <1>0, <2>p, <2>r DEF CountEnabled, Counted, Requests
  <2>3. \A q \in Plans : Of(q)' = Of(q) /\ entries'[q] = entries[q]
    BY <1>17, <2>p DEF CountEnabled, Of
  <2>4. row' = row /\ row'[p] # Unborn
    BY <1>17, <2>1 DEF CountEnabled
  <2>5. Stage(a, p) => Stage(a, p)'
    <3>1. req'[a] = r
      BY <2>r
    <3> QED
      BY <1>17, <2>1, <2>2, <2>3, <2>4, <3>1 DEF CountEnabled, Stage, AllRight, Right, Of
  <2>6. PlanInv(p)'
    BY <2>1, <2>2, <2>3, <2>4, <2>5, OwnPlan
  <2>7. \A q \in Plans \ {p} : PlanInv(q)'
    BY <2>1, <2>2, <2>3, <2>4, OtherPlans
  <2> QED
    BY <2>6, <2>7
<1>18. ASSUME NEW a \in Admins, Publish(a)
      PROVE  \A q \in Plans : PlanInv(q)'
  <2>p. PICK p \in Plans : p = req[a].plan
    BY <1>0
  <2>r. PICK r : r = IdleReq
    OBVIOUS
  <2>1. p \in Plans /\ row[p] # Unborn /\ req[a].plan = p /\ req[a].pc \notin {"idle", "clone"}
    BY <1>18, <1>0, <1>b, <2>p DEF Publish
  <2>2. /\ r.plan = p \/ r.pc = "idle"
        /\ r.pc = "idle"
        /\ req' = [req EXCEPT ![a] = r]
        /\ overlapped' = overlapped
    BY <1>18, <2>p, <2>r, RequestFields DEF Publish, Finish
  <2>3. \A q \in Plans : Of(q)' = Of(q) /\ entries'[q] = entries[q]
    BY <1>18, <2>p DEF Publish, Of
  <2>4. row' = row /\ row'[p] # Unborn
    BY <1>18, <2>1 DEF Publish
  <2>5. p \notin overlapped /\ Stage(a, p) =>
           IF r.pc = "idle" THEN AllRight(p)' ELSE Stage(a, p)'
    <3>1. req'[a] = r
      BY <1>0, <2>2
    <3> QED
      BY <1>18, <2>p, <2>1, <2>2, <2>3, <2>4, <3>1
      DEF Publish, Stage, AllRight, Right, Absent, Of
  <2>6. PlanInv(p)'
    BY <2>1, <2>2, <2>3, <2>4, <2>5, OwnPlan
  <2>7. \A q \in Plans \ {p} : PlanInv(q)'
    BY <2>1, <2>2, <2>3, <2>4, OtherPlans
  <2> QED
    BY <2>6, <2>7
<1>19. ASSUME NEW j \in Jobs, NEW e \in registered, Fire(j, e)
      PROVE  \A q \in Plans : PlanInv(q)'
  <2>1. UNCHANGED <<row, entries, registered, req, overlapped>>
    BY <1>19 DEF Fire
  <2>2. \A q \in Plans : Of(q)' = Of(q)
    BY <2>1 DEF Of
  <2>3. \A b \in Admins, q \in Plans : Writing(b, q)' <=> Writing(b, q)
    BY <2>1 DEF Writing
  <2> QED
    BY <1>0, <2>1, <2>2, <2>3, PlanFrame
<1>20. ASSUME NEW j \in Jobs, JobLoads(j)
      PROVE  \A q \in Plans : PlanInv(q)'
  <2>1. UNCHANGED <<row, entries, registered, req, overlapped>>
    BY <1>20 DEF JobLoads
  <2>2. \A q \in Plans : Of(q)' = Of(q)
    BY <2>1 DEF Of
  <2>3. \A b \in Admins, q \in Plans : Writing(b, q)' <=> Writing(b, q)
    BY <2>1 DEF Writing
  <2> QED
    BY <1>0, <2>1, <2>2, <2>3, PlanFrame
<1>33. ASSUME NEW j \in Jobs, JobExecutes(j)
      PROVE  \A q \in Plans : PlanInv(q)'
  <2>1. UNCHANGED <<row, entries, registered, req, overlapped>>
    BY <1>33 DEF JobExecutes
  <2>2. \A q \in Plans : Of(q)' = Of(q)
    BY <2>1 DEF Of
  <2>3. \A b \in Admins, q \in Plans : Writing(b, q)' <=> Writing(b, q)
    BY <2>1 DEF Writing
  <2> QED
    BY <1>0, <2>1, <2>2, <2>3, PlanFrame
<1>21. ASSUME NEW j \in Jobs, JobReturns(j)
      PROVE  \A q \in Plans : PlanInv(q)'
  <2>1. UNCHANGED <<row, entries, registered, req, overlapped>>
    BY <1>21 DEF JobReturns
  <2>2. \A q \in Plans : Of(q)' = Of(q)
    BY <2>1 DEF Of
  <2>3. \A b \in Admins, q \in Plans : Writing(b, q)' <=> Writing(b, q)
    BY <2>1 DEF Writing
  <2> QED
    BY <1>0, <2>1, <2>2, <2>3, PlanFrame
<1>22. ASSUME NEW j \in Jobs, JobEnds(j)
      PROVE  \A q \in Plans : PlanInv(q)'
  <2>1. UNCHANGED <<row, entries, registered, req, overlapped>>
    BY <1>22 DEF JobEnds
  <2>2. \A q \in Plans : Of(q)' = Of(q)
    BY <2>1 DEF Of
  <2>3. \A b \in Admins, q \in Plans : Writing(b, q)' <=> Writing(b, q)
    BY <2>1 DEF Writing
  <2> QED
    BY <1>0, <2>1, <2>2, <2>3, PlanFrame
<1>23. CASE Start
  <2>1. \A b \in Admins : req'[b].pc = "idle"
    BY <1>23 DEF Start, RegistryInv, DownInv
  <2>2. PICK ids \in [EnabledRows -> EntryIDs] :
           /\ \A p, q \in EnabledRows : ids[p] = ids[q] => p = q
           /\ entries' = [p \in Plans |-> IF p \in EnabledRows THEN ids[p] ELSE NoEntry]
           /\ registered' = {[id |-> ids[p], plan |-> p, cron |-> row[p].cron] :
                                p \in EnabledRows}
    BY <1>23 DEF Start
  <2>3. row' = row
    BY <1>23 DEF Start
  <2>4. \A e \in registered' : e.plan \in EnabledRows /\ Right(e)'
    BY <2>2, <2>3 DEF Right, EnabledRows
  <2>5. \A q \in Plans : Quiet(q)' /\ AllRight(q)'
    BY <2>1, <2>4 DEF Quiet, Writing, AllRight, Of
  <2>6. \A q \in Plans : row'[q] = Unborn => Of(q)' = {}
    BY <2>3, <2>4 DEF Of, EnabledRows, Unborn
  <2> QED
    BY <2>5, <2>6 DEF PlanInv, Born, Alone, Quiet
<1>24. CASE StartWithoutCron
  <2>1. UNCHANGED <<row, entries, registered, req, overlapped>>
    BY <1>24 DEF StartWithoutCron
  <2>2. \A q \in Plans : Of(q)' = Of(q)
    BY <2>1 DEF Of
  <2>3. \A b \in Admins, q \in Plans : Writing(b, q)' <=> Writing(b, q)
    BY <2>1 DEF Writing
  <2> QED
    BY <1>0, <2>1, <2>2, <2>3, PlanFrame
<1>25. CASE Stop
  <2>1. UNCHANGED <<row, entries, registered, req, overlapped>>
    BY <1>25 DEF Stop
  <2>2. \A q \in Plans : Of(q)' = Of(q)
    BY <2>1 DEF Of
  <2>3. \A b \in Admins, q \in Plans : Writing(b, q)' <=> Writing(b, q)
    BY <2>1 DEF Writing
  <2> QED
    BY <1>0, <2>1, <2>2, <2>3, PlanFrame
<1>26. CASE JobsDone
  <2>1. UNCHANGED <<row, entries, registered, req, overlapped>>
    BY <1>26 DEF JobsDone
  <2>2. \A q \in Plans : Of(q)' = Of(q)
    BY <2>1 DEF Of
  <2>3. \A b \in Admins, q \in Plans : Writing(b, q)' <=> Writing(b, q)
    BY <2>1 DEF Writing
  <2> QED
    BY <1>0, <2>1, <2>2, <2>3, PlanFrame
<1>27. CASE Exit
  <2>1. /\ registered' = {}
        /\ \A b \in Admins : req'[b].pc = "idle"
    BY <1>27, RequestFields DEF Exit, ForgetAll
  <2>2. \A q \in Plans : Of(q)' = {} /\ Quiet(q)'
    BY <2>1 DEF Of, Quiet, Writing
  <2> QED
    BY <2>2 DEF PlanInv, Born, Alone, AllRight, Quiet
<1>28. CASE Crash
  <2>1. /\ registered' = {}
        /\ \A b \in Admins : req'[b].pc = "idle"
    BY <1>28, RequestFields DEF Crash, ForgetAll
  <2>2. \A q \in Plans : Of(q)' = {} /\ Quiet(q)'
    BY <2>1 DEF Of, Quiet, Writing
  <2> QED
    BY <2>2 DEF PlanInv, Born, Alone, AllRight, Quiet
<1>29. CASE UNCHANGED vars
  <2>1. UNCHANGED <<row, entries, registered, req, overlapped>>
    BY <1>29 DEF vars
  <2>2. \A q \in Plans : Of(q)' = Of(q)
    BY <2>1 DEF Of
  <2>3. \A b \in Admins, q \in Plans : Writing(b, q)' <=> Writing(b, q)
    BY <2>1 DEF Writing
  <2> QED
    BY <1>0, <2>1, <2>2, <2>3, PlanFrame
<1>30. ASSUME NEW a \in Admins, BeginRequest(a) PROVE \A q \in Plans : PlanInv(q)'
  BY <1>30, <1>1, <1>2, <1>3, <1>4, <1>5 DEF BeginRequest
<1>31. ASSUME NEW a \in Admins, RequestStep(a) PROVE \A q \in Plans : PlanInv(q)'
  BY <1>31, <1>6, <1>7, <1>8, <1>9, <1>10, <1>11, <1>12, <1>13, <1>14, <1>15,
     <1>16, <1>17, <1>18
  DEF RequestStep
<1>32. ASSUME NEW j \in Jobs, JobStep(j) \/ \E e \in registered : Fire(j, e)
       PROVE  \A q \in Plans : PlanInv(q)'
  BY <1>32, <1>19, <1>20, <1>21, <1>22, <1>33 DEF JobStep
<1> QED
  BY <1>23, <1>24, <1>25, <1>26, <1>27, <1>28, <1>29, <1>30, <1>31, <1>32 DEF Next

LEMMA RegistryInit == Init => RegistryInv
<1> SUFFICES ASSUME Init PROVE RegistryInv
  OBVIOUS
<1>1. DownInv
  BY HandlesInit
<1>2. \A p \in Plans : Of(p) = {} /\ Quiet(p)
  BY RequestFields DEF Init, Of, Quiet, Writing
<1> QED
  BY <1>1, <1>2 DEF RegistryInv, PlanInv, Born, Alone, AllRight, Quiet

Inv == TypeOK /\ HandlesValid /\ RegistryInv

LEMMA Invariance == Spec => []Inv
<1>1. Init => Inv
  BY TypeInit, HandlesInit, RegistryInit DEF Inv
<1>2. Inv /\ [Next]_vars => Inv'
  <2> SUFFICES ASSUME Inv, [Next]_vars PROVE Inv'
    OBVIOUS
  <2>1. TypeOK'
    BY TypeStep DEF Inv
  <2>2. DownInv'
    BY DownStep DEF Inv, RegistryInv
  <2>3. HandlesValid'
    BY <2>1, HandlesStep DEF Inv, RegistryInv
  <2>4. \A p \in Plans : PlanInv(p)'
    BY RegistryStep DEF Inv
  <2> QED
    BY <2>1, <2>2, <2>3, <2>4 DEF Inv, RegistryInv
<1> QED
  BY <1>1, <1>2, PTL DEF Spec

(* Cron holds nothing outdated of a plan at rest that no two requests have *)
(* written at the same time.                                               *)
THEOREM RegistryAlwaysExact == Spec => []RegistryExact
<1>1. Inv => RegistryExact
  BY DEF Inv, TypeOK, Entry, RegistryInv, PlanInv, Alone, AllRight, Of, RegistryExact
<1> QED
  BY <1>1, Invariance, PTL

(* A Toggle or an Update that nothing overlaps leaves its plan registered  *)
(* exactly if its row is enabled, and only with the row's schedule.        *)
THEOREM ReloadAlwaysExact == Spec => []ReloadExact
<1>1. Inv => ReloadExact
  <2> SUFFICES ASSUME Inv, NEW a \in Admins,
                      req[a].pc \in {"count", "countEnabled", "publish"},
                      req[a].plan \notin overlapped
               PROVE  /\ (entries[req[a].plan] # NoEntry) <=> row[req[a].plan].enabled
                      /\ \A e \in registered : e.plan = req[a].plan => Right(e)
    BY DEF ReloadExact
  <2>1. req[a].plan \in Plans
    BY DEF Inv, TypeOK, Requests
  <2>2. Stage(a, req[a].plan)
    BY <2>1 DEF Inv, RegistryInv, PlanInv, Alone, Writing
  <2> QED
    BY <2>2 DEF Stage, AllRight, Of
<1> QED
  BY <1>1, Invariance, PTL

-----------------------------------------------------------------------------
(***************************************************************************)
(* Jobs.  FreshRuns rests on what a job that has not loaded its row yet    *)
(* can count on: that row is among the versions seen.                      *)
(***************************************************************************)
Witnessed ==
    \A j \in Jobs : job[j].pc = "fetch" => row[job[j].plan] \in job[j].seen

JobsInv == Witnessed /\ FreshRuns

LEMMA JobsFrame ==
  ASSUME JobsInv, UNCHANGED <<row, job>>
  PROVE  JobsInv'
  BY DEF JobsInv, Witnessed, FreshRuns

(* A statement: the jobs that will load the row have seen its new version, *)
(* and the others no longer look.                                          *)
LEMMA WriteKeepsJobs ==
  ASSUME TypeOK, JobsInv, NEW p \in Plans, NEW r \in Rows, Write(p, r)
  PROVE  JobsInv'
<1>1. ASSUME NEW j \in Jobs
      PROVE  /\ job'[j].pc = job[j].pc /\ job'[j].plan = job[j].plan
             /\ job'[j].row = job[j].row
             /\ job[j].pc # "fetch" => job'[j].seen = job[j].seen
             /\ job[j].pc = "fetch" /\ job[j].plan = p
                  => job'[j].seen = job[j].seen \union {r}
             /\ job[j].pc = "fetch" /\ job[j].plan # p => job'[j].seen = job[j].seen
  <2>1. job[j] \in JobRuns
    BY DEF TypeOK
  <2> QED
    BY <2>1 DEF Write, JobRuns
<1>2. row'[p] = r /\ \A q \in Plans : q # p => row'[q] = row[q]
  BY DEF TypeOK, Write
<1>3. \A j \in Jobs : job[j].plan \in Plans
  BY DEF TypeOK, JobRuns
<1>4. Witnessed'
  BY <1>1, <1>2, <1>3 DEF JobsInv, Witnessed
<1>5. FreshRuns'
  BY <1>1 DEF JobsInv, FreshRuns
<1> QED
  BY <1>4, <1>5 DEF JobsInv

(* A job takes a step.                                                     *)
LEMMA OneJob ==
  ASSUME TypeOK, JobsInv, NEW j \in Jobs, NEW k,
         job' = [job EXCEPT ![j] = k], row' = row,
         k.pc = "fetch" => row[k.plan] \in k.seen,
         k.pc \in {"loaded", "execute"} => Live(k.row) /\ k.row.enabled /\ k.row \in k.seen
  PROVE  JobsInv'
<1>1. job'[j] = k /\ \A i \in Jobs : i # j => job'[i] = job[i]
  BY DEF TypeOK
<1> QED
  BY <1>1 DEF JobsInv, Witnessed, FreshRuns

LEMMA RequestKeepsJobs ==
  ASSUME TypeOK, JobsInv, NEW a \in Admins, BeginRequest(a) \/ RequestStep(a)
  PROVE  JobsInv'
<1>0. /\ req[a].plan \in Plans /\ req[a].row \in Rows
      /\ req[a].pc \in {"save", "clone", "add"} => Live(req[a].row)
      /\ \A p \in Plans : row[p] \in Rows
      /\ Gone \in Rows
  BY DEF TypeOK, Requests, Rows
<1>1. ASSUME NEW p \in Plans, NEW cron \in Crons, Create(a, p, cron) PROVE JobsInv'
  BY <1>1, NewRowType, WriteKeepsJobs DEF Create
<1>2. CASE WriteToggle(a)
  <2>1. CASE Live(row[req[a].plan])
    <3>1. req[a].row.enabled \in BOOLEAN
      BY <1>0, RowType
    <3>2. [row[req[a].plan] EXCEPT !.enabled = ~req[a].row.enabled] \in Rows
      BY <1>0, <2>1, <3>1, PatchedRow
    <3> QED
      BY <1>2, <1>0, <2>1, <3>2, WriteKeepsJobs DEF WriteToggle
  <2>2. CASE ~Live(row[req[a].plan])
    BY <1>2, <2>2, JobsFrame DEF WriteToggle
  <2> QED
    BY <2>1, <2>2
<1>3. CASE WriteUpdate(a)
  <2>1. Saved(req[a].plan, req[a].row) \in Rows
    BY <1>3, <1>0, SavedType DEF WriteUpdate
  <2> QED
    BY <1>3, <1>0, <2>1, WriteKeepsJobs DEF WriteUpdate
<1>4. CASE DeleteRow(a)
  BY <1>4, <1>0, WriteKeepsJobs DEF DeleteRow
<1>5. ASSUME NEW p \in Plans, InsertClone(a, p) PROVE JobsInv'
  <2>1. req[a].row.cron \in Crons
    BY <1>5, <1>0, RowType DEF InsertClone, Row, Live
  <2> QED
    BY <1>5, <2>1, NewRowType, WriteKeepsJobs DEF InsertClone
<1>6. ASSUME NEW p \in Plans,
             \/ ReadToggle(a, p) \/ BeginDelete(a, p) \/ ReadClone(a, p)
             \/ \E cron \in Crons : ReadUpdate(a, p, cron)
      PROVE  JobsInv'
  BY <1>6, JobsFrame DEF ReadToggle, BeginDelete, ReadClone, ReadUpdate
<1>7. ASSUME \/ WriteFails(a) \/ ReloadRemove(a) \/ ReloadFetch(a) \/ ReloadFetchFails(a)
             \/ AddFunc(a) \/ Track(a) \/ CountEntries(a) \/ CountEnabled(a) \/ Publish(a)
      PROVE  JobsInv'
  BY <1>7, JobsFrame
  DEF WriteFails, ReloadRemove, ReloadFetch, ReloadFetchFails, AddFunc, Track,
      CountEntries, CountEnabled, Publish
<1> QED
  BY <1>1, <1>2, <1>3, <1>4, <1>5, <1>6, <1>7 DEF BeginRequest, RequestStep

LEMMA JobStepKeepsJobs ==
  ASSUME TypeOK, JobsInv, NEW j \in Jobs,
         JobStep(j) \/ \E e \in registered : Fire(j, e)
  PROVE  JobsInv'
<1>0. job[j] \in JobRuns /\ row' = row /\ IdleJob.pc = "idle"
  BY DEF TypeOK, JobStep, JobLoads, JobReturns, JobExecutes, JobEnds, Fire, IdleJob
<1>1. ASSUME NEW e \in registered, Fire(j, e) PROVE JobsInv'
  <2>1. PICK k : k = Fired(e)
    OBVIOUS
  <2>2. k.pc = "fetch" /\ row[k.plan] \in k.seen
    BY <2>1 DEF Fired
  <2>3. job' = [job EXCEPT ![j] = k]
    BY <1>1, <2>1 DEF Fire
  <2> QED
    BY <1>0, <2>2, <2>3, OneJob
<1>2. CASE JobLoads(j)
  <2>1. PICK k : k = [job[j] EXCEPT !.pc = "loaded", !.row = row[job[j].plan]]
    OBVIOUS
  <2>2. /\ job[j].pc = "fetch" /\ job' = [job EXCEPT ![j] = k]
        /\ Live(row[job[j].plan]) /\ row[job[j].plan].enabled
    BY <1>2, <2>1 DEF JobLoads
  <2>3. k.pc = "loaded" /\ k.row = row[job[j].plan] /\ k.seen = job[j].seen
    BY <1>0, <2>1 DEF JobRuns
  <2>4. row[job[j].plan] \in job[j].seen
    BY <2>2 DEF JobsInv, Witnessed
  <2> QED
    BY <1>0, <2>2, <2>3, <2>4, OneJob
<1>3. CASE JobExecutes(j)
  <2>1. PICK k : k = [job[j] EXCEPT !.pc = "execute"]
    OBVIOUS
  <2>2. job[j].pc = "loaded" /\ job' = [job EXCEPT ![j] = k]
    BY <1>3, <2>1 DEF JobExecutes, TypeOK
  <2>3. k.pc = "execute" /\ k.row = job[j].row /\ k.seen = job[j].seen
    BY <1>0, <2>1 DEF JobRuns
  <2>4. Live(job[j].row) /\ job[j].row.enabled /\ job[j].row \in job[j].seen
    BY <2>2 DEF JobsInv, FreshRuns
  <2> QED
    BY <1>0, <2>2, <2>3, <2>4, OneJob
<1>4. CASE JobReturns(j) \/ JobEnds(j)
  <2>1. job' = [job EXCEPT ![j] = IdleJob]
    BY <1>4 DEF JobReturns, JobEnds
  <2> QED
    BY <1>0, <2>1, OneJob
<1> QED
  BY <1>1, <1>2, <1>3, <1>4 DEF JobStep

(* A job executes an enabled version of its plan's row that the table has  *)
(* held since cron fired the job, for any number of jobs and requests.     *)
THEOREM RunsAlwaysFresh == Spec => []FreshRuns
<1>1. Init => JobsInv
  BY DEF Init, IdleJob, JobsInv, Witnessed, FreshRuns
<1>2. TypeOK /\ JobsInv /\ [Next]_vars => JobsInv'
  <2> SUFFICES ASSUME TypeOK, JobsInv, [Next]_vars PROVE JobsInv'
    OBVIOUS
  <2>1. ASSUME Start \/ StartWithoutCron \/ Stop \/ JobsDone PROVE JobsInv'
    BY <2>1, JobsFrame DEF Start, StartWithoutCron, Stop, JobsDone
  <2>2. ASSUME Exit \/ Crash PROVE JobsInv'
    BY <2>2 DEF Exit, Crash, ForgetAll, IdleJob, JobsInv, Witnessed, FreshRuns
  <2>3. CASE UNCHANGED vars
    BY <2>3, JobsFrame DEF vars
  <2> QED
    BY <2>1, <2>2, <2>3, RequestKeepsJobs, JobStepKeepsJobs DEF Next
<1>3. JobsInv => FreshRuns
  BY DEF JobsInv
<1> QED
  BY <1>1, <1>2, <1>3, TypeCorrect, PTL DEF Spec

=============================================================================
