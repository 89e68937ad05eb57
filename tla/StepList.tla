------------------------------ MODULE StepList ------------------------------
(***************************************************************************)
(* The steps of a plan in the database and the requests that change them:  *)
(* StepHandler over StepStore, and the plan operations that also write     *)
(* steps (PlanStore.Update saves the preloaded steps again, Delete         *)
(* cascades, Clone copies).  A request takes one step per statement it     *)
(* sends, since other requests run in between; the statements of a         *)
(* transaction keep the rows they wrote locked until it ends, and nobody   *)
(* sees what it wrote before.                                              *)
(***************************************************************************)
EXTENDS Integers, Sequences, FiniteSets, SequencesExt

CONSTANTS
    Plans,     \* plan IDs, drawn or still to be drawn by uuid.New
    Steps,     \* step IDs, drawn or still to be drawn
    Admins,    \* goroutines serving requests
    NoPlan, NoStep

ASSUME ListAssumption ==
    /\ NoPlan \notin Plans /\ NoStep \notin Steps
    /\ Steps # {} /\ IsFiniteSet(Steps)

VARIABLES
    plans,     \* the plans table: which rows there are
    row,       \* the steps table
    req,       \* the request each admin goroutine serves
    order,     \* history: what the last committed reorder made of its rows
    tidy       \* history: plans edited one request at a time, see Accept

vars == <<plans, row, req, order, tidy>>

Seqs     == 0..(Cardinality(Steps) - 1)
Row      == [state : {"unborn", "live", "gone"}, plan : Plans \union {NoPlan},
             seq : Seqs]
Unborn   == [state |-> "unborn", plan |-> NoPlan, seq |-> 0]
Gone(r)  == [state |-> "gone", plan |-> r.plan, seq |-> 0]

(* GetByPlanID, whose order is by seq.                                     *)
StepsOf(p) == {s \in Steps : row[s].state = "live" /\ row[s].plan = p}
Unborns    == {s \in Steps : row[s].state = "unborn"}

NoOrder == [s \in {} |-> 0]

(* What a request holds: its plan, its step, the rows it has read and, in  *)
(* a transaction, the order asked for, how far it is and the rows it has   *)
(* locked.  alone: no other request on the plan has overlapped with it.    *)
Request(pc, p) ==
    [pc |-> pc, plan |-> p, step |-> NoStep, read |-> NoOrder, ids |-> <<>>,
     at |-> 1, held |-> {}, alone |-> TRUE]
Idle == Request("idle", NoPlan)

Init ==
    /\ plans = [p \in Plans |-> "unborn"]
    /\ row   = [s \in Steps |-> Unborn]
    /\ req   = [a \in Admins |-> Idle]
    /\ order = [p \in Plans |-> NoOrder]
    /\ tidy  = [p \in Plans |-> TRUE]

(* A clone only reads its source.                                          *)
Serving(a, p) == req[a].pc \notin {"idle", "clone"} /\ req[a].plan = p

(* b's request, after another has touched p.                               *)
Disturbed(b, p) == IF Serving(b, p) THEN [req[b] EXCEPT !.alone = FALSE] ELSE req[b]

(* p changes in one statement: no request on p is alone any longer.        *)
Disturb(p) == req' = [b \in Admins |-> Disturbed(b, p)]

(* a starts to serve r, maybe while others serve requests on its plan.     *)
Accept(a, r) ==
    LET quiet == \A b \in Admins : ~Serving(b, r.plan) IN
    /\ req[a].pc = "idle"
    /\ req' = [b \in Admins |-> IF b = a THEN [r EXCEPT !.alone = quiet]
                                ELSE Disturbed(b, r.plan)]
    /\ tidy' = [tidy EXCEPT ![r.plan] = @ /\ quiet]

Finish(a) == req' = [req EXCEPT ![a] = Idle]

Locked(s)       == \E a \in Admins : s \in req[a].held
LockedFor(a, s) == \E b \in Admins \ {a} : s \in req[b].held

(* The order the last reorder left no longer binds p: another request has  *)
(* written back rows it had read before.                                   *)
Forget(p, alone) == order' = IF alone THEN order ELSE [order EXCEPT ![p] = NoOrder]

-----------------------------------------------------------------------------
(* POST /plans.                                                            *)
CreatePlan(p) ==
    /\ plans[p] = "unborn"
    /\ plans' = [plans EXCEPT ![p] = "live"]
    /\ UNCHANGED <<row, req, order, tidy>>

(***************************************************************************)
(* StepHandler.Create: the number of steps is read, then a row with that   *)
(* seq is inserted.  The plan is not looked up: the foreign key is.        *)
(***************************************************************************)
CountSteps(a, p) ==
    /\ plans[p] # "unborn"
    /\ Accept(a, [Request("insert", p) EXCEPT !.at = Cardinality(StepsOf(p))])
    /\ UNCHANGED <<plans, row, order>>

(* Seeded fault: the seq after the number of steps.                        *)
NextSeqPast(n) == n + 1

NextSeq(n) == n

InsertStep(a) ==
    LET p == req[a].plan IN
    /\ req[a].pc = "insert"
    /\ IF plans[p] = "live"
       THEN \E s \in Unborns :
               row' = [row EXCEPT ![s] =
                          [state |-> "live", plan |-> p, seq |-> NextSeq(req[a].at)]]
       ELSE UNCHANGED row
    /\ Finish(a)
    /\ UNCHANGED <<plans, order, tidy>>

(***************************************************************************)
(* StepHandler.Update: the row is read, changed in memory and saved, its   *)
(* seq with it.  Save updates the row, or inserts it if it is gone.        *)
(***************************************************************************)
ReadStep(a, s) ==
    /\ row[s].state = "live"
    /\ Accept(a, [Request("saveStep", row[s].plan) EXCEPT
                    !.step = s, !.read = [t \in {s} |-> row[s].seq]])
    /\ UNCHANGED <<plans, row, order>>

SaveStep(a) ==
    LET p == req[a].plan
        s == req[a].step
    IN
    /\ req[a].pc = "saveStep"
    /\ ~LockedFor(a, s)
    /\ IF row[s].state = "live" \/ plans[p] = "live"
       THEN /\ row' = [row EXCEPT ![s] =
                          [state |-> "live", plan |-> p, seq |-> req[a].read[s]]]
            /\ Forget(p, req[a].alone)
       ELSE UNCHANGED <<row, order>>
    /\ Finish(a)
    /\ UNCHANGED <<plans, tidy>>

(* StepHandler.Delete: one statement.  The steps after it keep their seq.  *)
DeleteStep(s) ==
    LET p == row[s].plan IN
    /\ row[s].state = "live"
    /\ ~Locked(s)
    /\ row' = [row EXCEPT ![s] = Gone(@)]
    /\ Disturb(p)
    /\ order' = [order EXCEPT ![p] = [t \in DOMAIN @ \ {s} |-> @[t]]]
    /\ tidy' = [tidy EXCEPT ![p] = FALSE]
    /\ UNCHANGED plans

(***************************************************************************)
(* StepHandler.Reorder over UpdateSeqBatch: one transaction, one UPDATE    *)
(* per id, each of which waits for the row's lock and passes over a row    *)
(* that is not there.  The ids come from a page that may be out of date;   *)
(* the page sends them when a step has been dragged past another.          *)
(***************************************************************************)
BeginReorder(a, p) ==
    /\ \E S \in SUBSET {s \in Steps : row[s].plan = p} :
          \E ids \in SetToSeqs(S) :
             /\ Len(ids) > 1
             /\ Accept(a, [Request("reorder", p) EXCEPT !.ids = ids])
    /\ UNCHANGED <<plans, row, order>>

(* Seeded fault: no transaction; each UPDATE is committed on its own.      *)
UpdateSeqAlone(a) ==
    LET r == req[a] IN
    /\ r.pc = "reorder" /\ r.at <= Len(r.ids)
    /\ IF r.ids[r.at] \in StepsOf(r.plan)
       THEN /\ row' = [row EXCEPT ![r.ids[r.at]] =
                          [state |-> "live", plan |-> r.plan, seq |-> r.at - 1]]
            /\ req' = [req EXCEPT ![a].at = @ + 1, ![a].held = @ \union {r.ids[r.at]}]
       ELSE /\ req' = [req EXCEPT ![a].at = @ + 1]
            /\ UNCHANGED row
    /\ UNCHANGED <<plans, order, tidy>>

UpdateSeq(a) ==
    LET r == req[a]
        s == r.ids[r.at]
    IN
    /\ r.pc = "reorder" /\ r.at <= Len(r.ids)
    /\ ~LockedFor(a, s)
    /\ req' = [req EXCEPT ![a] =
                 [r EXCEPT !.at = @ + 1,
                           !.held = IF s \in StepsOf(r.plan) THEN @ \union {s} ELSE @]]
    /\ UNCHANGED <<plans, row, order, tidy>>

(* Seeded fault: the seq of a row is its place counted from 1.             *)
PlaceFromOne(ids, s) == CHOOSE i \in DOMAIN ids : ids[i] = s

(* ids[0] gets seq 0, ids[1] gets seq 1, ...                               *)
Place(ids, s) == (CHOOSE i \in DOMAIN ids : ids[i] = s) - 1

Commit(a) ==
    LET r      == req[a]
        placed == [s \in r.held |-> Place(r.ids, s)]
    IN
    /\ r.pc = "reorder" /\ r.at > Len(r.ids)
    /\ row' = [s \in Steps |-> IF s \in r.held THEN [row[s] EXCEPT !.seq = placed[s]]
                               ELSE row[s]]
    /\ order' = [order EXCEPT ![r.plan] = placed]
    /\ tidy' = [tidy EXCEPT ![r.plan] =
                  r.alone /\ r.held = StepsOf(r.plan) /\ r.held = ToSet(r.ids)]
    /\ Finish(a)
    /\ UNCHANGED plans


(***************************************************************************)
(* PlanHandler.Update: GetByID preloads the steps, Save writes the plan    *)
(* and inserts those of its steps that are gone.  Without steps, Save      *)
(* inserts a plan that is gone; with steps the foreign key stops it.       *)
(***************************************************************************)
Preloaded(p) == [s \in StepsOf(p) |-> row[s].seq]

ReadPlan(a, p) ==
    /\ plans[p] = "live"
    /\ Accept(a, [Request("savePlan", p) EXCEPT !.read = Preloaded(p)])
    /\ UNCHANGED <<plans, row, order>>

SavePlan(a) ==
    LET p    == req[a].plan
        read == req[a].read
        lost == {s \in DOMAIN read : row[s].state = "gone"}
    IN
    /\ req[a].pc = "savePlan"
    /\ \A s \in DOMAIN read : ~Locked(s)
    /\ IF plans[p] = "live"
       THEN /\ row' = [s \in Steps |->
                         IF s \in lost
                         THEN [state |-> "live", plan |-> p, seq |-> read[s]]
                         ELSE row[s]]
            /\ UNCHANGED plans
       ELSE /\ plans' = IF read = NoOrder THEN [plans EXCEPT ![p] = "live"] ELSE plans
            /\ UNCHANGED row
    /\ Finish(a)
    /\ UNCHANGED <<order, tidy>>

(* PlanHandler.Delete: the database deletes the plan's steps with it.      *)
DeletePlan(p) ==
    /\ plans[p] = "live"
    /\ \A s \in StepsOf(p) : ~Locked(s)
    /\ plans' = [plans EXCEPT ![p] = "gone"]
    /\ row' = [s \in Steps |-> IF s \in StepsOf(p) THEN Gone(row[s]) ELSE row[s]]
    /\ Disturb(p)
    /\ order' = [order EXCEPT ![p] = NoOrder]
    /\ tidy' = [tidy EXCEPT ![p] = FALSE]

(***************************************************************************)
(* PlanStore.Clone: GetByID, then one transaction that inserts the new     *)
(* plan and a copy of each step it has read.                               *)
(***************************************************************************)
ReadSource(a, p) ==
    /\ plans[p] = "live"
    /\ req[a].pc = "idle"
    /\ req' = [req EXCEPT ![a] = [Request("clone", p) EXCEPT !.read = Preloaded(p)]]
    /\ UNCHANGED <<plans, row, order, tidy>>

CloneSteps(a) ==
    LET read == req[a].read IN
    /\ req[a].pc = "clone"
    /\ \E q \in {p \in Plans : plans[p] = "unborn"}, copies \in SUBSET Unborns :
          /\ Cardinality(copies) = Cardinality(DOMAIN read)
          /\ plans' = [plans EXCEPT ![q] = "live"]
          /\ \E f \in [copies -> DOMAIN read] :
                /\ {f[c] : c \in copies} = DOMAIN read
                /\ row' = [s \in Steps |->
                             IF s \in copies
                             THEN [state |-> "live", plan |-> q, seq |-> read[f[s]]]
                             ELSE row[s]]
          /\ tidy' = [tidy EXCEPT ![q] = FALSE]
    /\ Finish(a)
    /\ UNCHANGED order

(* A statement returns an error (500) and a transaction is rolled back: the *)
(* database has gone away, or broken a deadlock between two reorders.       *)
Fail(a) ==
    /\ req[a].pc # "idle"
    /\ Finish(a)
    /\ UNCHANGED <<plans, row, order, tidy>>

-----------------------------------------------------------------------------
Next ==
    \/ \E p \in Plans : CreatePlan(p) \/ DeletePlan(p)
    \/ \E s \in Steps : DeleteStep(s)
    \/ \E a \in Admins, p \in Plans :
          CountSteps(a, p) \/ BeginReorder(a, p) \/ ReadPlan(a, p) \/ ReadSource(a, p)
    \/ \E a \in Admins, s \in Steps : ReadStep(a, s)
    \/ \E a \in Admins :
          \/ InsertStep(a) \/ SaveStep(a)
          \/ UpdateSeq(a) \/ Commit(a) \/ Fail(a)
          \/ SavePlan(a) \/ CloneSteps(a)

Spec == Init /\ [][Next]_vars

-----------------------------------------------------------------------------
PCs == {"idle", "insert", "saveStep", "reorder", "savePlan", "clone"}

(* Every variable stays in its type; a live step belongs to a live plan    *)
(* and no seq leaves 0..n-1 for the n steps there ever were.               *)
TypeOK ==
    /\ plans \in [Plans -> {"unborn", "live", "gone"}]
    /\ row \in [Steps -> Row]
    /\ \A s \in Steps : row[s].state = "live" => plans[row[s].plan] = "live"
    /\ \A a \in Admins :
          /\ req[a].pc \in PCs
          /\ req[a].plan \in Plans \union {NoPlan}
          /\ req[a].step \in Steps \union {NoStep}
          /\ DOMAIN req[a].read \subseteq Steps
          /\ req[a].ids \in Seq(Steps)
          /\ req[a].held \subseteq Steps
          /\ req[a].alone \in BOOLEAN
    /\ \A p \in Plans : DOMAIN order[p] \subseteq Steps
    /\ tidy \in [Plans -> BOOLEAN]

(* Reorders are atomic and in some order: however two of them interleave,  *)
(* with deletes and inserts around them, the rows carry the places that    *)
(* the last one to commit gave them, never a mixture of two orders.  Only  *)
(* an edit that read a row before and saves it after breaks this, and      *)
(* Forget notes it.                                                        *)
ReorderIsAtomic ==
    \A p \in Plans : \A s \in DOMAIN order[p] :
        s \in StepsOf(p) /\ row[s].seq = order[p][s]

(* A plan whose edits never overlapped, with no step deleted since its     *)
(* last reorder of its whole list, has the seqs 0, 1, .. n-1, so the       *)
(* runner's ORDER BY seq is the order of the list and the next step goes   *)
(* to the end of it.                                                       *)
TidySeqs ==
    \A p \in Plans :
        tidy[p] => {row[s].seq : s \in StepsOf(p)} = 0..(Cardinality(StepsOf(p)) - 1)
=============================================================================
