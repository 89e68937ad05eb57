-------------------------------- MODULE Logs --------------------------------
(***************************************************************************)
(* The exec_logs table: LogStore with what writes it (a finished run),     *)
(* what empties it (the daily cleanup of main) and what reads it: a        *)
(* browser walking through the pages of LogHandler.List or                 *)
(* AlertHandler.List, one request per page while rows come and go; and the *)
(* dashboard's aggregates.                                                 *)
(*                                                                         *)
(* Time is counted in whole units.  created_at is the time at which the    *)
(* store builds the row; the row is in the table some time later, so rows  *)
(* may arrive out of order.  An id is a random UUID: a number, unrelated   *)
(* to the time, that the database can compare.                             *)
(***************************************************************************)
EXTENDS Integers, Sequences, FiniteSets

CONSTANTS
    Plans,         \* plan IDs
    IDs,           \* ids of log rows, drawn or still to be drawn
    Limit,         \* the page size
    Retention,     \* age above which the cleanup deletes
    Size, Buckets, \* width and number of the dashboard's time buckets
    TrendLimit,    \* rows the dashboard fetches for a window of the trend
    Filters,       \* the query parameters a walk may have: see FilterType
    MaxTime        \* bound on the clock

Statuses == {"success", "failed", "timeout"}
Failures == {"failed", "timeout"}

(* plan_id, status and the range of created_at; a missing parameter is the *)
(* whole set.  ListFailed is the filter on Failures.                       *)
FilterType == [plans : SUBSET Plans, statuses : SUBSET Statuses,
               from : Int, to : Int]

ASSUME LogAssumption ==
    /\ IDs \subseteq Nat /\ IsFiniteSet(IDs)
    /\ Limit \in Nat \ {0} /\ Size \in Nat \ {0} /\ Buckets \in Nat \ {0}
    /\ Retention \in Nat /\ MaxTime \in Nat /\ TrendLimit \in Nat \ {0}
    /\ Filters \subseteq FilterType

VARIABLES
    clock,     \* time.Now()
    rows,      \* exec_logs
    pending,   \* rows built and not yet inserted
    walk       \* the browser's walk

vars == <<clock, rows, pending, walk>>

Row == [id : IDs, plan : Plans, status : Statuses, at : 0..MaxTime]
UsedIDs == {r.id : r \in rows \union pending}

(* ORDER BY created_at DESC, id DESC.                                      *)
Before(r, q) == r.at > q.at \/ (r.at = q.at /\ r.id > q.id)

(* pc: idle, more (the last page had a next cursor) or end; pages: the     *)
(* rows shown, page by page; first: the rows that matched when the walk    *)
(* began; cursor: the row whose (created_at, id) is the next cursor.       *)
NoWalk == [pc |-> "idle", filter |-> {}, cursor |-> {}, pages |-> <<>>, first |-> {}]

Init ==
    /\ clock = 0
    /\ rows = {} /\ pending = {}
    /\ walk = NoWalk

Tick ==
    /\ clock < MaxTime
    /\ clock' = clock + 1
    /\ UNCHANGED <<rows, pending, walk>>

(* A run is over: LogStore.Create stamps a row, then the INSERT is done.   *)
Build(p, st) ==
    /\ \E i \in IDs \ UsedIDs :
          pending' = pending \union {[id |-> i, plan |-> p, status |-> st, at |-> clock]}
    /\ UNCHANGED <<clock, rows, walk>>

(* Seeded fault: a row that has been inserted is inserted again.           *)
InsertAgain(r) ==
    /\ r \in pending
    /\ rows' = rows \union {r}
    /\ UNCHANGED <<clock, pending, walk>>

Insert(r) ==
    /\ r \in pending
    /\ pending' = pending \ {r}
    /\ rows' = rows \union {r}
    /\ UNCHANGED <<clock, walk>>

(* The INSERT fails: the callers drop the row.                             *)
InsertFails(r) ==
    /\ r \in pending
    /\ pending' = pending \ {r}
    /\ UNCHANGED <<clock, rows, walk>>

(* CleanupOlderThan.                                                       *)
Cleanup ==
    /\ \E r \in rows : r.at < clock - Retention
    /\ rows' = {r \in rows : r.at >= clock - Retention}
    /\ UNCHANGED <<clock, pending, walk>>

(***************************************************************************)
(* ListByPlanID and ListFailed.                                            *)
(***************************************************************************)
Matches(r, f) == /\ r.plan \in f.plans /\ r.status \in f.statuses
                 /\ r.at >= f.from /\ r.at <= f.to

(* Seeded faults: the cursor's row is not left out; rows with the time of  *)
(* the cursor are.                                                         *)
AfterOrAt(r, c)  == ~Before(r, c)
AfterTime(r, c)  == r.at < c.at

(* (created_at, id) < (cursorTime, cursorID)                               *)
After(r, c) == Before(c, r)

(* The rows from the cursor on; at most Limit + 1 of them are fetched.     *)
Rest(f, cursor) == {r \in rows : Matches(r, f) /\ \A c \in cursor : After(r, c)}
Rank(r, S)      == Cardinality({q \in S : Before(q, r)})
Page(S)         == {r \in S : Rank(r, S) < Limit}

(* Seeded fault: the cursor is the row that was fetched beyond the page.   *)
CursorBeyond(S) == {r \in S : Rank(r, S) = Limit}

(* The next cursor: the last row of the page, if there is one after it.    *)
Cursor(S) == IF Cardinality(S) > Limit THEN {r \in S : Rank(r, S) = Limit - 1} ELSE {}

(* A page is fetched and added to those shown.                             *)
Fetch(f, cursor, pages, first) ==
    LET rest == Rest(f, cursor)
        next == Cursor(rest)
    IN  walk' = [pc     |-> IF next = {} THEN "end" ELSE "more",
                 filter |-> f,
                 cursor |-> next,
                 pages  |-> Append(pages, Page(rest)),
                 first  |-> first]

FirstPage(f) ==
    /\ walk.pc = "idle"
    /\ Fetch(f, {}, <<>>, Rest(f, {}))
    /\ UNCHANGED <<clock, rows, pending>>

NextPage ==
    /\ walk.pc = "more"
    /\ Fetch(walk.filter, walk.cursor, walk.pages, walk.first)
    /\ UNCHANGED <<clock, rows, pending>>

(* The page is closed, or another filter is chosen.                        *)
Leave ==
    /\ walk.pc # "idle"
    /\ walk' = NoWalk
    /\ UNCHANGED <<clock, rows, pending>>

Next ==
    \/ Tick \/ Cleanup
    \/ \E p \in Plans, st \in Statuses : Build(p, st)
    \/ \E r \in pending : Insert(r) \/ InsertFails(r)
    \/ \E f \in Filters : FirstPage(f)
    \/ NextPage \/ Leave

Spec == Init /\ [][Next]_vars

(***************************************************************************)
(* The dashboard, computed from the table at the time of the clock.        *)
(***************************************************************************)
(* GetTimeBucketStatuses: the bucket, from 0, in which a row of the range  *)
(* counts.                                                                 *)
Start == clock - Buckets * Size

(* Seeded fault: the clamp to the last bucket is forgotten.                *)
BucketUnclamped(r) == (r.at - Start) \div Size

Bucket(r) == LET i == (r.at - Start) \div Size IN IF i >= Buckets THEN Buckets - 1 ELSE i

InRange(p)      == {r \in rows : r.plan = p /\ r.at >= Start}
BucketRows(p, i) == {r \in InRange(p) : Bucket(r) = i}

Window(p, from, to) == Rest([plans |-> {p}, statuses |-> Statuses,
                             from |-> from, to |-> to], {})

(* Seeded fault: a window begins where the one before it began.            *)
TrendWindowShifted(p, i) == Window(p, clock - i * Size, clock - i * Size)

(* computeTrend: window i before now, both of its ends included, and the   *)
(* rows of it that fit in a page of TrendLimit.                            *)
TrendWindow(p, i) == Window(p, clock - (i + 1) * Size, clock - i * Size)
TrendRows(p, i)   == {r \in TrendWindow(p, i) : Rank(r, TrendWindow(p, i)) < TrendLimit}

(* Seeded fault: the greatest id is taken for the newest row.              *)
LatestID(p) == {r \in rows : r.plan = p /\ \A q \in rows : q.plan = p => q.id <= r.id}

(* FillLastRunStatus: DISTINCT ON picks a row with the greatest created_at. *)
Latest(p) == {r \in rows : r.plan = p /\ \A q \in rows : q.plan = p => q.at <= r.at}
LastRunStatus(p) == {r.status : r \in Latest(p)}

(* GetRecentStatuses: up to n rows, the newest; which of the rows with the *)
(* same time come first is up to the database.                             *)
Recent(p, n) ==
    LET mine == {r \in rows : r.plan = p} IN
    {S \in SUBSET mine :
        /\ Cardinality(S) = IF Cardinality(mine) < n THEN Cardinality(mine) ELSE n
        /\ \A r \in S, q \in mine \ S : q.at <= r.at}

-----------------------------------------------------------------------------
(* Every variable stays in its type, and an id is used once.               *)
TypeOK ==
    /\ clock \in 0..MaxTime
    /\ rows \subseteq Row /\ pending \subseteq Row
    /\ \A r, q \in rows \union pending : r.id = q.id => r = q
    /\ rows \intersect pending = {}
    /\ walk.pc \in {"idle", "more", "end"}
    /\ walk.cursor \subseteq Row
    /\ walk.first \subseteq Row
    /\ \A i \in DOMAIN walk.pages : walk.pages[i] \subseteq Row

Shown == UNION {walk.pages[i] : i \in DOMAIN walk.pages}

(* However rows are inserted and deleted between two pages of a walk: a    *)
(* row is on one page at most, the pages go back in time, and at its end   *)
(* the walk has shown every row that matched when it began and is still    *)
(* there, even if the row of a cursor has been deleted meanwhile.          *)
PagesExact ==
    /\ \A i, j \in DOMAIN walk.pages :
          i < j => \A r \in walk.pages[i], q \in walk.pages[j] : Before(r, q)
    /\ walk.pc = "end" => (walk.first \intersect rows) \subseteq Shown

(* Every run in the range counts in exactly one bucket, one of those that  *)
(* are shown, and in the one that covers its time unless it is the newest  *)
(* instant of the range.                                                   *)
BucketsPartition ==
    \A p \in Plans :
        /\ UNION {BucketRows(p, i) : i \in 0..(Buckets - 1)} = InRange(p)
        /\ \A i \in 0..(Buckets - 1) : \A r \in BucketRows(p, i) :
              /\ r.at >= Start + i * Size
              /\ r.at < Start + (i + 1) * Size \/ r.at = clock

(* Every run in the range counts in the trend, in one window, or in two    *)
(* adjacent ones when its time is where they meet, unless there are more   *)
(* runs in its window than the dashboard fetches; and then only newer runs *)
(* have taken its place.                                                   *)
TrendCovers ==
    \A p \in Plans : \A r \in InRange(p) :
        LET windows == {i \in 0..(Buckets - 1) : r \in TrendRows(p, i)} IN
        /\ \A i, j \in windows : i < j => j = i + 1 /\ r.at = clock - j * Size
        /\ windows = {} =>
              \E i \in 0..(Buckets - 1) :
                 Cardinality({q \in TrendRows(p, i) : Before(q, r)}) >= TrendLimit

(* The status beside a plan's name and the newest entry of its uptime bar  *)
(* come from two queries; they can only differ when two runs of the plan   *)
(* were logged at the same time.                                           *)
LastStatusAgrees ==
    \A p \in Plans : \A S \in Recent(p, 2) :
        S # {} => \A r \in S : (\A q \in S \ {r} : q.at < r.at) =>
                    r.status \in LastRunStatus(p)
=============================================================================
