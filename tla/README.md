# Watch Cat in TLA+

Watch Cat is a synthetic-monitoring server in Go: *plans* made of *steps* (an
HTTP request, a WebSocket conversation, a delay) run on a cron schedule or on
request, their results are stored in PostgreSQL, shown on a dashboard and
exported to Prometheus. This directory holds TLA+ models of its core, the TLC
configurations that check them on small instances, and TLAPS proofs of the
most important results for instances of any size.

`PROJECT.json` lists the same material for tools: components, runs, the map
from every definition to the lines it models, findings, hazards, theorems.
Paths below are relative to `src/internal/` unless they start with `cmd/`.

    tlc -workers 2 -config Execution.cfg MCExecution   # any run of the table below
    tlapm ExecutionProofs.tla                           # any *Proofs module

## 1. Inventory

### Plan execution engine (`engine/runner.go`, `handler/exec_handler.go`)

*State*: `Runner.locks`, a map from plan to `*sync.Mutex`, under `Runner.mu`;
the mutexes; the gauge `watchcat_plans_running`; per execution a context, the
variables and the `ExecResult` under construction.
*Operations*: `getPlanLock`, `IsRunning` (TryLock and Unlock), `Execute`
(TryLock, gauge, step loop, deferred calls), `TrimResultsIfNeeded`.
*Callers*: cron jobs (`Scheduler.executePlan`), `ExecHandler.Exec`,
`ExecHandler.Stream`, each a goroutine; the handlers ask `IsRunning` first,
cron does not. Stream's callback writes to its client while the plan's mutex is
held.
*Hard*: the callers race for the mutex between check and act; a probe holds the
mutex it probes; timeouts and disconnects race the end of a step; a panic in a
step is recovered by echo's middleware in a handler and kills the process in a
cron job; the row and the metrics are written after the unlock.
*Correct if*: one execution per plan; no mutex or gauge is leaked; the verdict
agrees with the steps; nobody waits for somebody else's run; each run is logged
once and counted once.

### Scheduler and plan handlers (`engine/scheduler.go`, `handler/plan_handler.go`, `store/plan_store.go`)

*State*: the `plans` rows, the map `Scheduler.entries` from plan to cron entry
ID under `Scheduler.mu`, the entries cron itself holds, the running jobs, two
gauges.
*Operations*: Create, Update, ToggleEnabled, Delete, Clone, each a sequence of
statements followed by `ReloadPlan` or preceded by `RemovePlan`; firings; Start,
Stop, crash.
*Hard*: requests on one plan interleave at every statement, and `Scheduler.mu`
covers only the map, not the pair of map and cron; statements fail half-way;
firings look at the row after it has changed; Stop waits for jobs.
*Correct if*: the map holds valid entry IDs; what cron holds for a plan is what
its row asks for, once requests are through; a job runs a row that was there, and
enabled, since it fired.

### WebSocket and Pomelo executors (`engine/executor_ws.go`, `engine/pomelo/client.go`)

*State*: a connection with its write mutex, request IDs, the rounds of the
step, and three goroutines: the step, the heartbeat loop and a watcher that
closes the connection when the context is done. A plain WebSocket step has the
connection alone.
*Hard*: two writers; a close from any side; packets batched into a frame,
pushes between a request and its response; a deadline at any time.
*Correct if*: one writer at a time, a request gets its own answer, a deadline
is reported as a timeout and nothing else is, everything ends and nothing is
left behind.

### Pomelo codec (`engine/pomelo/packet.go`, `message.go`)

Pure functions: packets into frames, messages into data packets, ids into one to
five bytes. *Hard*: the boundaries (ids of 7, 14, 21, 28 bits, lengths of one,
two and three bytes, empty bodies), packets that are cut off. *Correct if* what
one end encodes is what the other end decodes.

### Step execution and scripts (`engine/executor_*.go`, `engine/context.go`, `engine/script_*.go`)

*State*: the plan's context and the step's, derived from it; the map of
variables of the step loop, which scripts write into, and the copies of it that
executors make; what a step has captured; a script's five-second timer.
*Operations*: one HTTP, WebSocket or delay step after the other, with scripts
before and after an HTTP request, captures and assertions.
*Hard*: four waits (connect, header, body, message) that a deadline can
interrupt, each with an error path of its own, and a connection that knows the
deadline as well as the context does; a map that is shared until a script
replaces it; captures that override what scripts have written.
*Correct if*: a step renders the latest values; the verdict is that of the steps
and names the right reason; a step with a deadline ends.

### Text editors (`web/static/js/cm-components.js`, `web/templates/`)

*State*: a text lives in three places, Alpine's data, the textarea and the
CodeMirror editor in front of it; which textareas have an editor; what is
deferred by `$nextTick` and `setTimeout`; saves under way, and the refreshes of
the steps' tab that follow them.
*Operations*: the module loads (or fails to), scans the page, watches it;
forms are opened, swapped by htmx and emptied; the user types, formats, switches
between structured and raw variables, adds and removes message rounds, saves.
*Hard*: four triggers enhance a textarea, in any order; callbacks run after the
user has gone on; areas are reused for other rounds; an answer, and the tab it
refreshes, arrives for a form that has been replaced; the structured mode of a
plan's variables holds less than JSON does.
*Correct if*: one editor per textarea; the form sends what was entered, unless the
structured mode had to make something else of it; the editor shows it.

### Step and script editing (`handler/step_handler.go`, `handler/script_handler.go`, their stores)

*State*: the `steps`, `scripts`, `plan_scripts` and `step_scripts` tables.
*Operations*: create, update, delete, reorder (a transaction), clone; bind,
unbind, delete unless referenced.
*Hard*: every handler reads, then writes, without a lock in between; the order
of a plan's steps is a column the code maintains by hand.
*Correct if*: reorders do not mix, the seqs stay 0..n-1 when edits come one by
one, an unconfirmed delete spares the bindings it should have seen.

### Execution logs, dashboard and alerts (`store/log_store.go` and its handlers)

*State*: the `exec_logs` table; the cursor a browser carries from page to page.
*Operations*: insert, daily cleanup, keyset pages of two lists, time buckets,
trend windows, last and recent statuses.
*Hard*: pages are fetched while rows arrive, out of order, and are deleted;
the ends of buckets and windows.
*Correct if*: no row twice, none missed, every run in one bucket, the two
queries that give a plan's last status agree.

### Metrics (`metrics/prometheus.go`)

Gauges and counters set by the runner, the scheduler and, for cron jobs only,
after each run. *Hard*: they are computed from a result that has been trimmed,
and from firings that have executed nothing.

### The rest

| component | state and operations | treatment |
|---|---|---|
| Process (`cmd/server/main.go`) | start-up order, Recover middleware, daily cleanup, shutdown | its steps are actions of Scheduler, Runner and Logs; wiring is not modelled |
| Configuration and authentication | stateless: environment variables, a signed cookie | not modelled: nothing changes state |
| Rest of the web interface | templates, tabs, toasts, drag and drop, the live view of a run | not modelled: presentation |
| Monitoring data and deployment | Prometheus rules, dashboards, compose files | not modelled: data |

### How they interact

    admin requests --> plan/step/script stores --> PostgreSQL
          |  ReloadPlan, RemovePlan                    ^
          v                                            | rows: plans, exec_logs
      Scheduler --AddFunc/Remove--> cron --job--> Scheduler.executePlan
                                                       |
      Exec, Stream requests ------- IsRunning -------> Runner.Execute --> executors
                                                       |
                        exec_logs row, Prometheus <----+   (after the unlock)

Calls are Go calls in one process; goroutines share the mutex map, the
mutexes, cron and the database. Nothing but the database survives a restart.

## 2. Modules

| module | models | extends |
|---|---|---|
| `PlanRuns` | what the runner promises: at most one run per plan, whose reported steps grow until it ends | |
| `StepLoop` | the step loop of `Execute` as the runner and the executors both see it: steps that take any time and end with any verdict | |
| `Runner` | `getPlanLock`, `IsRunning`, `Execute` and the three callers up to the unlock | |
| `Execution` | what the callers do with the result: trim, store, record, answer | `Runner` |
| `ExecutionProofs` | theorems about `Runner` and `Execution` | `Execution` |
| `Scheduler` | plans table, scheduler map, cron, jobs, process | |
| `SchedulerProofs` | theorems about `Scheduler` | `Scheduler` |
| `Steps` | the step loop from the inside: HTTP, WebSocket and delay steps, scripts, contexts | |
| `StepsProofs` | theorems about `Steps` | `Steps` |
| `Pomelo` | a Pomelo step with its goroutines, connection and server | |
| `Codec` | the bytes of packets and messages, as functions | |
| `Wire` | composes `Pomelo` with `Codec`: what is on its way, as bytes | `Pomelo`, `Codec` |
| `WireProofs` | theorems about `Codec`, `Pomelo` and `Wire` | `Wire` |
| `StepList` | the steps of plans and the requests that edit them | |
| `StepListProofs` | theorems about `StepList` | `StepList` |
| `Scripts` | scripts and bindings | |
| `ScriptsProofs` | theorems about `Scripts` | `Scripts` |
| `Logs` | log rows, pages, aggregates, cleanup | |
| `LogsProofs` | theorems about `Logs` | `Logs` |
| `Editors` | the text editors of the forms, in the browser | |
| `EditorsProofs` | theorems about `Editors` | `Editors` |
| `MC*` | instances for TLC: symmetries, views, small sets | the module named |

**State and code.** A goroutine is a model value with a program counter; its
locals are functions on goroutines (`job`, `ptr`, `ctx`, `result` in Runner;
`req`, `job` in Scheduler; `req` in StepList and Scripts). One action is one
stretch of code that no other goroutine can see into: a database statement, a
call into cron, a section under a mutex, a blocking read or write. Early
returns that leave no trace are guards. A transaction (`StepList`) takes a step
per statement, holds row locks and publishes its writes at `Commit`.

**Runner.** `pc` runs through `probe`, `probeTry`, `probeHold` (IsRunning),
`execute`, `tryLock`, `locked`, `loop`, `step`, `callback`, `finish`, `unlock`
(Execute), `returned`, `panicked`, `conflict`. `locks` is the map, `holder` the
mutexes, `gauge` the metric. `StepReturns` lets a step end with any verdict at
any time: each executor has its own timeout, so its verdict is independent of
the plan's context. `DeadlineExpires` and `ClientLeaves` end the context;
`Restart` is the death of the process. Execution's runs check Runner's
properties, too: every action of Runner is part of one of Execution.

**StepLoop** is where `Runner` and `Steps` meet. `Runner` takes a step to be any
verdict at any time; `Steps` has the executors and one run without any caller.
Both implement `StepLoop` (`ImplementsStepLoop` in each): between two steps, in
one, or over; the verdicts reported so far; whether the context is done. `Steps`
implements it outright, `Runner` once for each caller between TryLock and Unlock, so
both sides of `executeStep` keep to one specification: one result for each step
begun, no step after one that did not succeed or under a context that is done. That
each behaviour of `StepLoop` is one of `Runner` is not claimed. A panic, from which
`Steps` abstracts, is `Leave`.

**Execution** adds `report`, `rows`, `metrics` and three history variables to
Runner and wraps every action of it. A response is abstracted to a number: how
many the run's HTTP steps received.

**Scheduler.** A request (`req`) walks through its handler and the reload:
`toggle`/`save`/`delete`/`clone`, `remove`, `fetch`, `add`, `track`, `count`,
`countEnabled`, `publish`. `registered` is cron's own list and `entries` the
scheduler's map; the gap between `AddFunc` and `Track` is the unlocked window
of `addPlan`. A job (`job`) goes through `fetch`, `loaded` and `execute`: reading the
row (`JobLoads`) and starting `Runner.Execute` with it (`JobExecutes`) are two steps,
and requests write in between. Its `row` is what it has read; `seen` is history, the
versions the row has had from the firing until the read. A Save that finds its row
gone inserts it again with the column's default (`Saved`). `overlapped` is a history variable: the plans that two requests
have been writing at the same time since their last start.

**Pomelo.** `pc` is the step; `beat` and `watcher` the other goroutines;
`mu`/`wpc`/`out` model `writeRaw` with its mutex; `up` and `down` the frames on
their way, `Window` of them, so that a write blocks when the server does not
read. The server answers, pushes, batches, kicks, hangs up or stays silent. A round
waits for a message if it sends, expects, captures or asserts (`Waits`). A body is
reduced to whether it satisfies the round.

**Codec, Wire.** A slice is a sequence of numbers 0..255, an offset is Go's plus
one, `Panic` is what reading past the end gives. `Wire` translates each packet
that `Pomelo` has on its way into bytes, ids and bodies included, and reads them
back: `Pomelo` may treat packets as records because `BytesArrive` holds.

**Steps.** `pc` is where the run is: `loop`, the stages of an executor (`pre`,
`do`, `body`, `post`, `captures`, `assert`; `dial`, `send`, `recv`, `taken`;
`sleep`), `done`. There is one variable, and its value is the number of the write
that produced it, so that "the latest" has a meaning; `vars` is the map of the
step loop, `local` the one the executor works on, and `shared` says whether they
are one map. A deadline has two moments: its instant (`due`), which a connection
can notice, and the timer that ends the context (`ctx`). Responses, assertions
and scripts are choices. `Runner` abstracts all of it to a verdict at any time.

**Editors.** JavaScript is single-threaded: an action is one event handler with its
microtasks; what it defers (`ticks` for `$nextTick`, `scanDue` for `setTimeout`)
is a later action. An area is a textarea with its `value`, its `_cmDone` and the
texts of its editors. Texts are classes: how they are laid out, whether JSON.parse
takes them, and what the plan form makes of them. Its structured mode holds `Rows`,
names with texts; `RowsOf` is what `toggleMode` makes of any JSON (a number becomes a
text, a nested value "[object Object]", a scalar or an empty list nothing, a list
variables named 0, 1, ...), and `Kept` the object that is made of rows (names are
trimmed, those without a name left out, the last of one name counts). A save that is
answered empties the container and asks for the steps' tab (`Saved`), which replaces
the container a second time when it arrives (`TabRefreshed`). The http body and
handshake textareas of a step behave like the first round's and are left out; so are
numbers that a double cannot hold and names that JavaScript objects give a meaning of
their own (`__proto__`, `hasOwnProperty`).

**StepList, Scripts, Logs.** Tables are functions or sets of rows; IDs are
drawn once; times are whole units and rows enter the table some time after they
were stamped. `order`, `tidy`, `late` and `walk.first` are history variables
that the properties need and the code does not have.

**Seeded faults.** Next to some definitions stand variants marked "Seeded
fault" (a dropped Unlock, a page that starts at its cursor). No specification
uses them: they are the mutations against which each property is known to
fail.

## 3. Runs

| run | instance | shows |
|---|---|---|
| `execution` | a cron job, an Exec, a Stream; an HTTP plan that is edited between timed and untimed, empty and not; two runs; 230 000 states | `LockDiscipline`, `MutualExclusion`, `GaugeExact`, `VerdictSound`, `LoggedOnce`, `CountsExact` under all interleavings, panics, timeouts, disconnects and restarts; `ImplementsPlanRuns`, `ImplementsStepLoop`: Runner refines PlanRuns and, for each caller, StepLoop; liveness `CallersFinish`, `RunIsLogged` |
| `execution_responses` | a plan with one step | violated: responses of a trimmed run are not counted |
| `scheduler` | two requests of any kind, two plans, two schedules, one job; 3.7 million states | `HandlesValid`, `RegistryExact`, `ReloadExact`, `FreshRuns` |
| `scheduler_orphan` | one plan, two requests | violated: concurrent reloads leave an entry nobody can remove |
| `steps` | every plan of two steps out of six kinds, with and without a timeout, four writes by scripts; 56 000 states | `RendersLatest`, `VerdictTrue`; `ImplementsStepLoop`: Steps refines StepLoop; liveness `StepsEnd` |
| `pomelo` | three step configurations, one unasked packet, one tick; 187 000 states | `OneWriter`, `RequestGetsItsAnswer`, `VerdictTrue`, `BytesArrive`; liveness `ConnectedStepEnds`, `NothingLeftBehind` |
| `pomelo_handshake` | one request round | violated: a silent server keeps a step past its deadline |
| `step_list` | a plan and a clone of it, three steps, two requests; 1.3 million states | `ReorderIsAtomic`, `TidySeqs` |
| `scripts` | one script, two plans, two steps, two requests; 90 000 states | `SparesWhatItCounted` |
| `logs` | three rows, four instants, pages of one row, two filters; 5.3 million states | `PagesExact`, `BucketsPartition`, `TrendCovers`, `LastStatusAgrees` |
| `editors` | the four forms; any text in a plan's, an empty, a valid and an invalid one in the others; three rounds, two saves or refreshes; 180 000 states | `OneEditorEach`, `SendsWhatWasEntered`, `SettledShows` |
| `editors_rounds` | the step form with two rounds | violated: after a round is removed, editors show other rounds' texts |

Each module also has a type invariant; those of StepList, Scripts and Logs
include what the database enforces (foreign keys, unique IDs). Those of Steps and
Pomelo say no more than types, are proved and are not listed in a `.cfg`.

### Bounds

* *Two or three goroutines.* Every hazard found in this code involves two actors
  (two reloads, a probe and a firing, a reorder and a delete); in Runner each of
  the three kinds is present once, on one plan (two plans share nothing but the map
  of mutexes, which `LocksDistinct` of the proofs is about). The proofs remove this
  bound for Runner, Execution and Scheduler.
* *One mutex, two entry IDs.* As many as there are plans, or registrations at a
  time; with more than one per plan an orphan can exist. An `AddFunc` without a
  free ID is not enabled, which hides only larger cron tables.
* *`MaxRuns` = 2* (Execution): runs that have returned or are under way. Two are
  what it takes for a run to overtake another between its unlock and its row.
* *`Window` = 1, `MaxTicks` = 1, `MaxExtras` = 1* (Pomelo): a full connection,
  a heartbeat that writes while the step does, one surprise by the server at any
  point.
* *`Bases`, `IDs`, `Lengths`* (Wire): ids on both sides of 7, 14, 21 and 28 bits, bodies
  on both sides of 255 and 65 536 bytes. The proofs remove these bounds.
* *Two steps, two scripts, two rounds* (Steps): a value has to survive one hand-over
  of each kind, from script to script, round to round and step to step. The proofs
  remove these bounds for the invariants.
* *Three rounds, three texts, two saves* (Editors): a round with one before and one after
  it, two answers or refreshes under way. A plan's text is of any of the fourteen
  classes; a round's or a script's need only be empty, JSON or not JSON.
* *One job* (Scheduler): jobs share nothing, and change nothing that requests read.
  The proofs have any number of them.
* *Three steps* (StepList): the smallest list with a permutation that is no swap.
  `OnePlan` ends the instance once both plans are there: their rows are
  independent and a clone is a plan like any other.
* *Three rows, `MaxTime` = 3, `Limit` = 1* (Logs): three pages, equal times,
  late rows, a cleanup between two pages, and a trend window (of two rows) that
  overflows.
* *Symmetry* permutes plans, entry IDs, schedules, goroutines, fresh mutexes, drawn IDs:
  never values the code compares. Runs with liveness properties use none.
  `Remaining` (Scheduler) is the state without what no step and no property asks any
  more: the gauges, the row a job has loaded, and of the rows it has seen all but
  whether the present one is among them.

### Fairness

* Runner, Execution: `WF` of what a goroutine does by itself (Go runs every
  runnable goroutine; `TryLock` never blocks), of the timer of a plan that has a
  timeout, and of a step's return *once its context is done* (executors watch
  their context; without a timeout an HTTP call may hang, and nothing is
  assumed). `Execution` adds that a statement returns, with or without an error.
  Never assumed: that a Stream client reads (`EventSent`, `DoneSent`), that a
  client leaves, that the process lives. That a step returns once its context is
  done is an assumption of this module; `Pomelo` shows when it holds for Pomelo
  steps (`ConnectedStepEnds`) and when it does not (`TimedStepEnds`).
* Steps: `WF` of what the goroutine does by itself, of a wait that its context has
  ended, of the timers, and of the end of a script (goja is interrupted after five
  seconds). Nothing is assumed of servers, of a delay's length or of scripts'
  writes. A message is assumed to fit into the socket's buffers (`Sends`).
* Pomelo: `WF` of the step, the watcher and a write that can proceed or fail;
  `SF` for the two choices a goroutine may meet again and again: Go's mutex is
  starvation-free, and a `select` whose `Done` channel is closed takes that case
  eventually. Nothing is assumed of the server or of the context.

## 4. Proofs

For every value of the constants, under the `ASSUME`s of the modules (disjoint
kinds of callers, finitely many of them, `Snapshots` well-typed and non-empty;
finitely many plans, steps and targets of scripts; null values outside their sets;
a window of at least one frame; ids of the client that have not come to the end of
uint32, and bodies of less than 2^24 bytes; finitely many row ids that can be
compared, and a page of at least one row):

| theorem | states |
|---|---|
| `ExecutionProofs!TypeCorrect` | Runner's `Spec => []TypeOK` |
| `ExecutionProofs!LockDisciplineHolds` | pointers current, mutexes held by exactly the caller inside, no mutex shared by two plans |
| `ExecutionProofs!MutualExclusionHolds` | one caller inside `Execute` per plan |
| `ExecutionProofs!GaugeExactHolds` | `plans_running` counts the runs under way |
| `ExecutionProofs!VerdictSoundHolds` | the verdict agrees with the steps and the context |
| `ExecutionProofs!Refinement` | `Spec => PlanRuns!Spec` under the mapping of `Runner` |
| `ExecutionProofs!StepLoopOfEachCaller` | Runner's `Spec => ImplementsStepLoop`: each caller's run is a run of StepLoop |
| `ExecutionProofs!ImplementsRunner` | `ExecSpec => Spec`: what is proved of Runner holds of Execution |
| `ExecutionProofs!EachRunLoggedOnce` | each returned run has one row, or a recorded loss, or a caller that holds its report |
| `ExecutionProofs!CountsExactHolds` | `plan_executions_total` counts each result of a cron firing once, by its verdict, and nothing else |
| `ExecutionProofs!ExecTypeCorrect` | `ExecSpec => []ExecTypeOK` |
| `WireProofs!OneWriterAtATime` | one goroutine inside `conn.WriteMessage` |
| `WireProofs!RequestsGetTheirAnswers` | a request round is satisfied by the response to its own request |
| `WireProofs!TypeCorrect` | Pomelo's `Spec => []TypeOK` |
| `WireProofs!VerdictTrueHolds` | a success satisfied every round in order, a timeout had its deadline, a closed connection was not the step's own deadline |
| `WireProofs!BytesArriveHolds` | whatever is on its way is read back from its bytes as what was meant |
| `StepsProofs!TypeCorrect` | `Spec => []TypeOK` |
| `StepsProofs!RendersLatestHolds` | a step, and a round, renders the latest value written before it |
| `StepsProofs!VerdictTrueHolds` | the verdict is that of the steps, and names the right reason |
| `StepsProofs!StepLoopImplemented` | `Spec => StepLoop!Spec`: the executors are steps of StepLoop |
| `WireProofs!PacketReadsBack` | a packet is read back, wherever in a frame it stands and whatever surrounds it |
| `WireProofs!FrameReadsBack` | a frame of any number of packets, cut off anywhere in a further one, is split into these packets |
| `WireProofs!VarIntReadsBack` | every uint32 is read back from its one to five bytes |
| `WireProofs!MessageReadsBack` | `DecodeMessage(EncodeMessage(...))` is the message, for every id, type, body and route of less than 256 bytes |
| `EditorsProofs!TypeCorrect` | `Spec => []TypeOK` |
| `EditorsProofs!OneEditorEachHolds` | one editor per area once the module has loaded, none before |
| `EditorsProofs!SendsWhatWasEnteredHolds` | a script is sent as entered, a round as the value of its text, a plan's variables as entered or as the structured mode renders them; `{}` only for what is no JSON |
| `EditorsProofs!SettledShowsHolds` | an editor at rest shows the current text (plan, script, detail) |
| `LogsProofs!TypeCorrect` | `Spec => []TypeOK` |
| `LogsProofs!PagesExactHolds` | a walk through the pages shows no row twice and leaves none of the first rows out |
| `LogsProofs!BucketsPartitionHolds` | each run of the range counts in the one bucket that covers its time |
| `LogsProofs!TrendCoversHolds` | the trend misses a run only for newer ones, and counts one twice only where windows meet |
| `LogsProofs!LastStatusAgreesHolds` | the two queries for a plan's last status agree |
| `StepListProofs!TypeCorrect` | `Spec => []TypeOK`: no seq leaves 0..n-1 |
| `StepListProofs!ReorderIsAtomicHolds` | the rows carry the places of the last reorder to commit |
| `StepListProofs!TidySeqsHolds` | a plan whose edits never overlapped keeps the seqs 0..n-1 |
| `ScriptsProofs!TypeCorrect` | `Spec => []TypeOK`: no binding outlives its script |
| `ScriptsProofs!SparesWhatItCountedHolds` | an unforced delete takes no binding that was there when it began |
| `SchedulerProofs!TypeCorrect` | `Spec => []TypeOK` |
| `SchedulerProofs!HandlesAlwaysValid` | entry IDs unique; the map and pending requests hold IDs cron still has |
| `SchedulerProofs!RegistryAlwaysExact` | a quiet plan written by one request at a time has no outdated entry |
| `SchedulerProofs!ReloadAlwaysExact` | a reload without overlap leaves the plan registered exactly if enabled |
| `SchedulerProofs!RunsAlwaysFresh` | what a job executes was its plan's row, enabled, at some time since it fired |

**Runner.** `LockDiscipline` is inductive with `TypeOK`: `PointerCurrent` (the
map never replaces a mutex), `HolderExact` (locked iff somebody is between
TryLock and Unlock) and `LocksDistinct`. Mutual exclusion follows without a
further induction: two callers inside the same plan have the same pointer, which
has one holder. `GaugeExact` adds one cardinality lemma per action that enters or
leaves the counted section. `VerdictSound` is strengthened to an invariant about
the result while the loop runs (a prefix of successes as long as the caller is
in the loop). The refinement maps `Acquire`, `StepReturns`, `Release` and
`Restart` to the abstract actions and everything else to a stutter; mutual
exclusion supplies the guard of the abstract `Begin`.

**StepLoop, from both sides.** In `Steps` the mapping is direct: an executor's waits,
captures and scripts are stutters, its return is `StepReturns`. `Course` gives what
the step needs, that the number of results is the number of steps begun. In `Runner`
a step of one caller stutters in the loops of all others (`OthersLoop`); its own
(`OwnLoopStep`) needs the invariant about the result: `Start` finds nothing in it,
`EventSent` and the deferred calls find the loop where the verdict has left it, a
busy caller has no loop. A panic and a restart are `Leave`.

**Execution.** Every action is one of Runner with something beside it, or
leaves Runner's variables alone, so the refinement needs no invariant. `LogInv`
says where the report of a run can be: held by one caller, in one row or in the
record of losses, and in exactly one of the three from the return on; a report
that is still held has no row (`HeldFresh`), and a run that has a row is not lost
(`RowsKept`). One lemma per action of the callers' tails.
`CountInv` is `CountsExact` with the types of the metrics: a cron run that returns
joins the runs that have ended (`Ran`) and those that wait to be counted
(`Uncounted`) at once (`CountReturns`), `RecordPlanExecution` takes it from the
waiting and counts it (`CountRecords`), and a crash empties both sets and the
counters (`CountReboots`); no other step lets a caller into or out of either set
(`CountFrame`).

**Pomelo.** `OneWriter` follows from an invariant about the mutex alone: who is in
the write holds it. `RequestGetsItsAnswer` speaks of messages that have been
accepted; `AnswerInv` follows packets from `Send` to `Recv`. Each packet a writer
holds, in either direction of the connection, in the frame being scanned or just
received, satisfies `Mine`: if it carries an id then Send has drawn it, and if the
id is that of the round in progress the packet is about that round. It survives
`Send` because the new id is above all drawn so far, and the server because a
response takes its id from its request (`ReplyShape`), alone or batched
(`JoinedFrame`). Frame lemmas (`AnswerQuiet`, `AnswerFrame`, `AnswerDown`) dispose
of the actions that move nothing.

**Steps.** `Flow` says where the latest value is: in the map of the step loop or, once
the step has captured it, there, and in its own copy for a WebSocket step (a
script that replaces the map writes to nothing that lasts). `Timing`: a context
that says "deadline" had one that passed. `Course`: the results so far are
successes exactly as long as the run goes on. One lemma, `ReturnsKeeps`, serves
every way in which an executor can return.

`VerdictTrue` adds `Course`: while the step runs, what it has got are the rounds up to
the current one that send or wait, each with a message that satisfies it
(`RoundsDone`); before the step closes the connection, only a context that is done
does (`ClosedByContext`); and the verdict names what happened (`VerdictSoFar`).

**Codec.** `At(s, o, q)` says that the bytes q stand in s from the offset o on; what
is decoded there depends on nothing else. A number below 2^32 is the sum of its
five groups of seven bits (`IDIsItsBits`), by repeated division; the encoder writes
exactly these groups, and only the last has no continuation bit, so the decoder
stops there. A message is four parts in a row (`FourParts`). `DecodePackets` goes
through a frame by recursion. That a recursive function is what its equation says,
and what it computes, cannot be proved with the library's induction theorems, which
take an operator; the proof of `FrameReadsBack` takes induction over a *set* of
numbers instead, those up to which everything is as claimed, and needs no operator.

**Wire.** `IDInv` bounds the ids Send has drawn by the rounds it has begun, so that they
are uint32. Everything on its way can then be packed (`Fits`, `Packed`), and a frame
of such packets arrives (`FrameArrives`) by `FrameReadsBack` and `MessageReadsBack`.
`LongOnes` is the same for bodies and routes at their limits.

**Editors.** `Fits` says that an area is bare (not marked, no editor) until the module
has loaded and dressed (marked, one editor) from then on; a dressed area is left
alone by every later scan (`ObservedSame`). `Values` says what the textareas hold in
terms of the form's data, `Shows` what the editors hold in terms of the textareas,
except where a plan's `__cmSync` is still to come, and `Variables` that the
raw form of a plan's variables is what was entered or what the structured mode makes
of it, and that the structured form sends the latter: making rows of an object made of
rows changes nothing more (`RowsAndObjects`).
The actions that change the rounds of a step share one lemma (`RoundsKeep`); for
them nothing is claimed of the editors' texts, and rightly so (finding 4).

**Logs.** Between two pages the cursor splits the rows (`CursorSplits`): everything
shown is the cursor's row or before it, and what matched at the start and is still
there has been shown or comes after it; the row itself may be gone. A new page keeps
this because ranks in a finite, totally ordered set are the numbers from 0 on
(`RankHit`, by counting: an injection between sets of one size is onto), so a page
that is full has a last row. `FirstKept` excludes that a row returns: a deleted row
is older than the clock, a built one is as old. The theorems about the dashboard
rest on one lemma about a range cut into pieces (`PieceOfRange`), and on `Past`: no
row is from the future.

**Scheduler.** `RegistryExact` is far from inductive: it speaks of quiet plans
only. The invariant `RegistryInv` has two parts. `DownInv`: a process that is
down holds no memory. `PlanInv(p)`: a plan not yet drawn has no entry and no
writer (`Born`); and unless two requests have written `p` together (`Alone`), at
most one request writes it, if none does all its entries are right, and if one
does, its `Stage` says what may be there: before `remove` the right registration,
between `remove` and `track` none but the one just added, after `track` the one
the row asks for. Each action then has one step for the plan it touches and a
frame lemma for all other plans. `HandlesValid` is inductive with `TypeOK`.
`FreshRuns` needs to know that a job which has yet to read has seen the row as it is
(`Witnessed`): each statement on a row is shown to its waiting jobs
(`WriteKeepsJobs`), so that whatever the read returns has been seen.

**Scripts.** `DeleteInv` says what an unforced delete knows between its counts: a count
that was zero and no error leaves no binding but late ones (`Counted`), and no binding
of a script that is gone (`Tables`). The two counts see no common moment; what is
bound between them is late.

**StepList.** `ListInv` says of every request what it knows whatever others have done
(`ReqRight`: the rows it read are its plan's, its count leaves room for one more step,
the rows a reorder holds are live) and what it knows as long as nobody came between
(`AloneRight`: what it read is still so). With it each statement keeps a tidy plan
tidy (`TidyRight`) and the last reorder in its rows (`Ordered`). That a reorder of the
whole list yields 0..n-1 is a fact about sequences without repetition, by the
cardinality of their range.

**Only model-checked**: the liveness properties (`CallersFinish`, `RunIsLogged`,
`StepsEnd`, `ConnectedStepEnds`, `NothingLeftBehind`), because fairness and `ENABLED`
are out of the prover's reach, and the refutations of section 5. Every invariant and
every refinement a passing run checks is a theorem as well.

## 5. Findings

1. **Orphaned cron entry** (`scheduler_orphan`). Two concurrent reloads of one
   plan both pass `RemovePlan`, both call `AddFunc`, and the map keeps one ID:
   the plan fires twice per tick until the process ends, and after it is disabled
   the orphan still fires (the job then reads the row and returns: `FreshRuns`).
   `RunningCount` no longer is "the number of currently registered cron entries".
2. **Handshake without a deadline** (`pomelo_handshake`). The watcher starts after
   `Dial`, whose handshake reads have no deadline.
3. **Uncounted responses** (`execution_responses`). The result is trimmed before
   the metrics are taken from it.
4. **Editors of other rounds** (`editors_rounds`). A removed message round shifts the
   texts of the later ones into other textareas; only the plan form tells its
   editor. The editor shows the removed text, and the next keystroke in it
   overwrites the round that has taken the place.

Three more disagreements are behaviours of the models without a run of their own.
A clone is stored enabled although `store/plan_store.go:76` says otherwise, because the
column's `default:true` replaces a zero value (`InsertClone` of Scheduler; `Create`
with the box unticked meets the same default). A cron firing that finds its
plan busy, or only being probed by `IsRunning`, executes nothing and yet sets
`watchcat_plan_up` to 0, against the metric's help text (`Recorded` of Execution). And
`watchcat_plan_executions_total` is the "Total number of plan executions." by
`metrics/prometheus.go:62` and `README.md:189`, but only cron jobs report to it: runs
by Exec and Stream are missing, and firings turned away by a busy plan, which execute
nothing, are in it as failed. `CountsExact` says what it counts, each exactly once, and
is not the sum the help text promises.

Behaviour the models contain and no document contradicts: a request answered 409
because of another request's probe; lost updates between a toggle and an update
(`Save` writes the whole row it read); a step or a plan that comes back when an
update saves it after its deletion; equal seqs after a delete or two concurrent
creates; a response batched with a push in one frame, which `Recv` drops; two
adjacent trend windows that count the same run; a deadline that ends the read of a
body and is reported as failed; a client that leaves a WebSocket step without a
deadline, which goes on waiting; a job that has read its row and runs the plan although
it was disabled or deleted since; a save whose answer, and again the tab it refreshes,
empties a form opened since. A plan form sends `{}` for what is no JSON; and once the
structured mode has had the variables, numbers are texts, nested values
"[object Object]", a scalar `{}`, a list variables named after its places, and rows
without a name or with another's name are lost.

## 6. Not modelled, and what could come next

*Not modelled*: configuration and authentication (nothing changes state); the
monitoring data and deployment; the presentation in templates and scripts, and
the bundled libraries; the goja sandbox and `engine/script_crypto.go` (a library and
pure functions with known test vectors); gjson paths and template rendering;
durations, `plan_info` and per-step counters of the metrics; the validation of
forms; `GetDashboardStats`.

Next:

1. `Server`: the composition of `Scheduler` and `Runner`. A firing becomes a
   caller; Stop waits for the jobs; what shutdown guarantees with and without
   plan timeouts (Scheduler's `JobExecutes`/`JobEnds` refined by Runner).
2. An abstract specification of the registry ("cron holds what the rows ask
   for") that `Scheduler` implements when requests on a plan do not overlap, and
   one of the log ("a walk is a snapshot in pieces") for `Logs`.

Theorems worth proving next: that `FairSpec` of `Steps` discharges what `Runner`
assumes of a step's return would be the liveness half of `StepLoop`, and stays with
TLC; of safety, the abstract specifications of item 2.
