--------------------------- MODULE StepListProofs ---------------------------
(***************************************************************************)
(* Theorems about StepList, for any number of plans, steps and requests at *)
(* the same time.                                                          *)
(***************************************************************************)
EXTENDS StepList, FiniteSetTheorems, TLAPS

Orders == UNION {[S -> Seqs] : S \in SUBSET Steps}

Requests == [pc : PCs, plan : Plans \union {NoPlan}, step : Steps \union {NoStep},
             read : Orders, ids : Seq(Steps), at : Nat, held : SUBSET Steps,
             alone : BOOLEAN]

Shape ==
    /\ plans \in [Plans -> {"unborn", "live", "gone"}]
    /\ row \in [Steps -> Row]
    /\ req \in [Admins -> Requests]
    /\ order \in [Plans -> Orders]
    /\ tidy \in [Plans -> BOOLEAN]

(* A row keeps its plan, gone or not; the plan of a live row is live.      *)
RowRight(s) ==
    /\ row[s].state = "unborn" => row[s].plan = NoPlan
    /\ row[s].state # "unborn" => row[s].plan \in Plans /\ plans[row[s].plan] # "unborn"
    /\ row[s].state = "live" => plans[row[s].plan] = "live"

(* s is, or was, a step of p.                                              *)
Born(s, p) == row[s].state # "unborn" /\ row[s].plan = p

(* The ids are different steps.                                            *)
Distinct(ids) ==
    /\ \A i, j \in 1..Len(ids) : ids[i] = ids[j] => i = j
    /\ Len(ids) <= Cardinality(Steps)

(* What a request knows whatever others have done since it read: the rows  *)
(* it read are those of its plan, the number of steps it counted leaves    *)
(* room for one more, and the rows a reorder has locked are live steps of  *)
(* its plan.                                                               *)
ReqRight(a) ==
    LET r == req[a] IN
    /\ r.pc # "idle" => r.plan \in Plans /\ plans[r.plan] # "unborn"
    /\ r.pc = "insert" => r.at <= Cardinality(Steps \ Unborns)
    /\ r.pc = "saveStep" => r.step \in Steps /\ Born(r.step, r.plan) /\ DOMAIN r.read = {r.step}
    /\ r.pc = "savePlan" => \A s \in DOMAIN r.read : Born(s, r.plan)
    /\ r.pc = "reorder" =>
          Distinct(r.ids) /\ r.at >= 1 /\ r.held \subseteq StepsOf(r.plan) \intersect ToSet(r.ids)
    /\ r.pc # "reorder" => r.held = {}

(* What it also knows as long as nobody has come between: what it read is  *)
(* still so.                                                               *)
AloneRight(a) ==
    LET r == req[a] IN
    r.pc \notin {"idle", "clone"} /\ r.alone =>
       /\ \A b \in Admins \ {a} : ~Serving(b, r.plan)
       /\ r.pc = "insert" => r.at = Cardinality(StepsOf(r.plan))
       /\ r.pc = "saveStep" => row[r.step].state = "live" /\ row[r.step].seq = r.read[r.step]
       /\ r.pc = "savePlan" => DOMAIN r.read \subseteq StepsOf(r.plan)

Tidy(p) == {row[s].seq : s \in StepsOf(p)} = 0..(Cardinality(StepsOf(p)) - 1)

(* A tidy plan has no two requests on it.                                  *)
TidyRight(p) ==
    tidy[p] => (\A a \in Admins : Serving(a, p) => req[a].alone) /\ Tidy(p)

Ordered(p) ==
    \A s \in DOMAIN order[p] : s \in StepsOf(p) /\ row[s].seq = order[p][s]

ListInv ==
    /\ Shape
    /\ \A s \in Steps : RowRight(s)
    /\ \A a \in Admins : ReqRight(a) /\ AloneRight(a)
    /\ \A p \in Plans : TidyRight(p) /\ Ordered(p)

-----------------------------------------------------------------------------
(* Numbers of steps, and the values of a request.                          *)
LEMMA StepCount ==
    /\ Cardinality(Steps) \in Nat /\ Cardinality(Steps) >= 1
    /\ Seqs \subseteq Nat /\ 0 \in Seqs
    /\ \A S \in SUBSET Steps : IsFiniteSet(S) /\ Cardinality(S) \in Nat
    /\ \A S \in SUBSET Steps : Cardinality(S) <= Cardinality(Steps)
<1>1. \A S \in SUBSET Steps : IsFiniteSet(S) /\ Cardinality(S) <= Cardinality(Steps)
  BY ListAssumption, FS_Subset
<1>2. \A S \in SUBSET Steps : Cardinality(S) \in Nat
  BY <1>1, FS_CardinalityType
<1>3. Cardinality(Steps) \in Nat /\ Cardinality(Steps) # 0
  BY <1>2, FS_EmptySet, ListAssumption
<1> QED
  BY <1>1, <1>2, <1>3 DEF Seqs

LEMMA StepsOfType ==
    ASSUME NEW p
    PROVE  IsFiniteSet(StepsOf(p)) /\ Cardinality(StepsOf(p)) \in Nat /\ StepsOf(p) \subseteq Steps
<1>1. StepsOf(p) \in SUBSET Steps
  BY DEF StepsOf
<1> QED
  BY <1>1, StepCount

LEMMA OrderType ==
    /\ NoOrder \in Orders /\ DOMAIN NoOrder = {}
    /\ \A S \in SUBSET Steps : [S -> Seqs] \subseteq Orders
    /\ \A o \in Orders : DOMAIN o \subseteq Steps /\ \A s \in DOMAIN o : o[s] \in Seqs
<1>1. NoOrder \in [{} -> Seqs] /\ DOMAIN NoOrder = {}
  BY DEF NoOrder
<1>2. \A S \in SUBSET Steps : [S -> Seqs] \subseteq Orders
  BY DEF Orders
<1>3. {} \in SUBSET Steps
  OBVIOUS
<1>4. ASSUME NEW o \in Orders
      PROVE  DOMAIN o \subseteq Steps /\ \A s \in DOMAIN o : o[s] \in Seqs
  <2>1. PICK S \in SUBSET Steps : o \in [S -> Seqs]
    BY DEF Orders
  <2> QED
    BY <2>1
<1> QED
  BY <1>1, <1>2, <1>3, <1>4

LEMMA RequestType ==
    ASSUME NEW k \in PCs, NEW p \in Plans \union {NoPlan}
    PROVE  Request(k, p) \in Requests
  BY OrderType DEF Request, Requests

LEMMA IdleType == Idle \in Requests /\ Idle.pc = "idle" /\ Idle.held = {}
<1>1. "idle" \in PCs
  BY DEF PCs
<1> QED
  BY <1>1, RequestType DEF Idle, Request

(***************************************************************************)
(* A step that leaves a request alone.                                     *)
(***************************************************************************)
(* No row changes its plan, no plan becomes unborn again.                  *)
Grown ==
    /\ \A s \in Steps : row[s].state # "unborn" =>
          row'[s].state # "unborn" /\ row'[s].plan = row[s].plan
    /\ \A p \in Plans : plans[p] # "unborn" => plans'[p] # "unborn"

(* b's request goes on as it was, except that it may no longer be alone.   *)
Kept(b) ==
    /\ req'[b].pc = req[b].pc /\ req'[b].plan = req[b].plan
    /\ req'[b].step = req[b].step /\ req'[b].read = req[b].read
    /\ req'[b].ids = req[b].ids /\ req'[b].at = req[b].at
    /\ req'[b].held = req[b].held
    /\ req'[b].alone => req[b].alone

LEMMA ReqKept ==
    ASSUME ListInv, Shape', Grown, NEW b \in Admins, Kept(b),
           \A s \in req[b].held : row'[s].state = "live"
    PROVE  ReqRight(b)'
<1> USE DEF Kept, Grown
<1> DEFINE r == req[b]
           q == req'[b]
<1>1. ReqRight(b) /\ r \in Requests /\ q \in Requests
  BY DEF ListInv, Shape
<1>2. q.pc # "idle" => q.plan \in Plans /\ plans'[q.plan] # "unborn"
  BY <1>1 DEF ReqRight
<1>3. q.pc = "insert" => q.at <= Cardinality(Steps \ Unborns')
  <2>1. Steps \ Unborns \subseteq Steps \ Unborns'
    BY DEF Unborns
  <2>2. Cardinality(Steps \ Unborns) <= Cardinality(Steps \ Unborns')
    BY <2>1, StepCount, FS_Subset
  <2>3. /\ Cardinality(Steps \ Unborns) \in Nat
        /\ Cardinality(Steps \ Unborns') \in Nat
    BY StepCount
  <2>4. r.at \in Nat
    BY <1>1 DEF Requests
  <2> QED
    BY <1>1, <2>2, <2>3, <2>4 DEF ReqRight
<1>4. (r.pc = "saveStep" =>
         r.step \in Steps /\ Born(r.step, r.plan) /\ DOMAIN r.read = {r.step})'
  BY <1>1 DEF ReqRight, Born
<1>5. (r.pc = "savePlan" => \A s \in DOMAIN r.read : Born(s, r.plan))'
  <2>1. DOMAIN r.read \subseteq Steps
    BY <1>1, OrderType DEF Requests
  <2> QED
    BY <1>1, <2>1 DEF ReqRight, Born
<1>6. (r.pc = "reorder" =>
         /\ Distinct(r.ids) /\ r.at >= 1
         /\ r.held \subseteq StepsOf(r.plan) \intersect ToSet(r.ids))'
  BY <1>1 DEF ReqRight, StepsOf
<1>7. q.pc # "reorder" => q.held = {}
  BY <1>1 DEF ReqRight
<1> HIDE DEF Kept, Grown
<1> QED
  BY <1>2, <1>3, <1>4, <1>5, <1>6, <1>7 DEF ReqRight

(* Nobody has written to the plan of a request that still believes it is   *)
(* alone, nor begun to serve that plan.                                    *)
LEMMA AloneKept ==
    ASSUME ListInv, Shape', NEW b \in Admins, Kept(b),
           req'[b].alone /\ req[b].pc \notin {"idle", "clone"} =>
              /\ \A s \in Steps :
                    row[s].plan = req[b].plan \/ row'[s].plan = req[b].plan
                       => row'[s] = row[s]
              /\ \A c \in Admins \ {b} :
                    Serving(c, req[b].plan)' => Serving(c, req[b].plan)
    PROVE  AloneRight(b)'
<1> DEFINE r == req[b]
           q == req'[b]
<1>1. ReqRight(b) /\ AloneRight(b) /\ r \in Requests
  BY DEF ListInv, Shape
<1> SUFFICES ASSUME q.pc \notin {"idle", "clone"}, q.alone
             PROVE  (/\ \A c \in Admins \ {b} : ~Serving(c, r.plan)
                     /\ r.pc = "insert" => r.at = Cardinality(StepsOf(r.plan))
                     /\ r.pc = "saveStep" =>
                           row[r.step].state = "live" /\ row[r.step].seq = r.read[r.step]
                     /\ r.pc = "savePlan" => DOMAIN r.read \subseteq StepsOf(r.plan))'
  BY DEF AloneRight
<1>2. r.pc \notin {"idle", "clone"} /\ r.alone /\ q.plan = r.plan
  BY DEF Kept
<1>3. StepsOf(r.plan)' = StepsOf(r.plan)
  BY <1>2 DEF StepsOf
<1>4. q.pc = "saveStep" => row'[q.step] = row[r.step]
  BY <1>1, <1>2 DEF Kept, ReqRight, Born
<1> QED
  BY <1>1, <1>2, <1>3, <1>4 DEF AloneRight, Kept

LEMMA IdleRight ==
    ASSUME NEW b \in Admins, req'[b] = Idle
    PROVE  ReqRight(b)' /\ AloneRight(b)'
<1>1. req'[b].pc = "idle" /\ req'[b].held = {}
  BY IdleType
<1> QED
  BY <1>1 DEF ReqRight, AloneRight

(***************************************************************************)
(* A request arrives and reads.                                            *)
(***************************************************************************)
(* r holds what there is.                                                  *)
Fresh(r) ==
    /\ r \in Requests /\ r.plan \in Plans /\ plans[r.plan] # "unborn"
    /\ r.pc \notin {"idle", "clone"} /\ r.held = {}
    /\ r.pc = "insert" => r.at = Cardinality(StepsOf(r.plan))
    /\ r.pc = "saveStep" =>
          /\ r.step \in StepsOf(r.plan)
          /\ DOMAIN r.read = {r.step} /\ r.read[r.step] = row[r.step].seq
    /\ r.pc = "savePlan" => DOMAIN r.read \subseteq StepsOf(r.plan)
    /\ r.pc = "reorder" => Distinct(r.ids) /\ r.at = 1

LEMMA Accepted ==
    ASSUME ListInv, NEW a \in Admins, NEW r, Fresh(r), Accept(a, r),
           UNCHANGED <<plans, row, order>>
    PROVE  ListInv'
<1> DEFINE p == r.plan
           quiet == \A b \in Admins : ~Serving(b, p)
           mine == [r EXCEPT !.alone = quiet]
<1>1. p \in Plans /\ r \in Requests /\ quiet \in BOOLEAN
  BY DEF Fresh
<1>2. /\ mine \in Requests /\ mine.alone = quiet
      /\ mine.pc = r.pc /\ mine.plan = p /\ mine.step = r.step /\ mine.read = r.read
      /\ mine.ids = r.ids /\ mine.at = r.at /\ mine.held = r.held
  BY <1>1 DEF Requests
<1>3. /\ req[a].pc = "idle"
      /\ req' = [b \in Admins |-> IF b = a THEN mine ELSE Disturbed(b, p)]
      /\ tidy' = [tidy EXCEPT ![p] = @ /\ quiet]
  BY DEF Accept
<1> HIDE DEF quiet, mine
<1>4. ASSUME NEW b \in Admins \ {a}
      PROVE  req'[b] \in Requests /\ Kept(b) /\ (Serving(b, p) => ~req'[b].alone)
  <2>1. req'[b] = Disturbed(b, p) /\ req[b] \in Requests
    BY <1>3 DEF ListInv, Shape
  <2>2. CASE Serving(b, p)
    <3>1. req'[b] = [req[b] EXCEPT !.alone = FALSE]
      BY <2>1, <2>2 DEF Disturbed
    <3> QED
      BY <2>1, <3>1 DEF Requests, Kept
  <2>3. CASE ~Serving(b, p)
    BY <2>1, <2>3 DEF Disturbed, Kept
  <2> QED
    BY <2>2, <2>3
<1>5. Shape'
  <2>1. req' \in [Admins -> Requests]
    BY <1>2, <1>3, <1>4
  <2>2. tidy' \in [Plans -> BOOLEAN]
    BY <1>1, <1>3 DEF ListInv, Shape
  <2> QED
    BY <2>1, <2>2 DEF ListInv, Shape
<1>6. \A s \in Steps : RowRight(s)'
  BY DEF ListInv, RowRight
<1>7. \A q : StepsOf(q)' = StepsOf(q)
  BY DEF StepsOf
<1>8. ASSUME NEW b \in Admins \ {a} PROVE ReqRight(b)' /\ AloneRight(b)'
  <2>1. Grown
    BY DEF Grown
  <2>2. \A s \in req[b].held : row'[s].state = "live"
    BY DEF ListInv, ReqRight, StepsOf
  <2>3. ASSUME req'[b].alone, req[b].pc \notin {"idle", "clone"},
               NEW c \in Admins \ {b}, Serving(c, req[b].plan)'
        PROVE  Serving(c, req[b].plan)
    <3>1. req'[b].plan = req[b].plan /\ ~Serving(b, p)
      BY <1>4, <2>3 DEF Kept
    <3>2. req[b].plan # p
      BY <2>3, <3>1 DEF Serving
    <3>3. CASE c = a
      BY <1>2, <1>3, <2>3, <3>1, <3>2, <3>3 DEF Serving
    <3>4. CASE c # a
      BY <1>4, <2>3, <3>1, <3>4 DEF Serving, Kept
    <3> QED
      BY <3>3, <3>4
  <2>4. ReqRight(b)'
    BY <1>4, <1>5, <2>1, <2>2, ReqKept
  <2>5. \A s \in Steps : row'[s] = row[s]
    OBVIOUS
  <2>6. AloneRight(b)'
    BY <1>4, <1>5, <2>3, <2>5, AloneKept
  <2> QED
    BY <2>4, <2>6
<1>9. req'[a] = mine
  BY <1>3
<1>10. ReqRight(a)'
  <2>1. StepsOf(p) \subseteq Steps \ Unborns /\ Unborns' = Unborns
    BY DEF StepsOf, Unborns
  <2>2. Cardinality(StepsOf(p)) <= Cardinality(Steps \ Unborns)
    BY <2>1, StepCount, FS_Subset
  <2>3. mine.pc = "saveStep" =>
           row[mine.step].state = "live" /\ row[mine.step].plan = p /\ mine.step \in Steps
    BY <1>2 DEF Fresh, StepsOf
  <2>4. mine.pc = "savePlan" => \A s \in DOMAIN mine.read : Born(s, p)
    BY <1>2 DEF Fresh, StepsOf, Born
  <2> QED
    BY <1>2, <1>9, <2>1, <2>2, <2>3, <2>4 DEF ReqRight, Fresh, Born
<1>11. AloneRight(a)'
  <2>1. ASSUME quiet, NEW b \in Admins \ {a} PROVE ~Serving(b, p)'
    BY <1>4, <2>1 DEF quiet, Serving, Kept
  <2>2. mine.pc = "saveStep" =>
           row[mine.step].state = "live" /\ row[mine.step].seq = mine.read[mine.step]
    BY <1>2 DEF Fresh, StepsOf
  <2>3. mine.pc = "insert" => mine.at = Cardinality(StepsOf(p))
    BY <1>2 DEF Fresh
  <2>4. mine.pc = "savePlan" => DOMAIN mine.read \subseteq StepsOf(p)
    BY <1>2 DEF Fresh
  <2> QED
    BY <1>2, <1>7, <1>9, <2>1, <2>2, <2>3, <2>4 DEF AloneRight
<1>12. ASSUME NEW q \in Plans PROVE TidyRight(q)' /\ Ordered(q)'
  <2>1. Ordered(q)'
    BY <1>7 DEF ListInv, Ordered
  <2>2. Tidy(q)' = Tidy(q)
    BY <1>7 DEF Tidy
  <2>3. tidy'[q] => tidy[q] /\ (q = p => quiet)
    BY <1>1, <1>3 DEF ListInv, Shape
  <2>4. ASSUME tidy'[q], NEW b \in Admins, Serving(b, q)' PROVE req'[b].alone
    <3>1. CASE b = a
      BY <1>2, <1>9, <2>3, <2>4, <3>1 DEF Serving
    <3>2. CASE b # a
      <4>1. Serving(b, q) /\ req'[b] = Disturbed(b, p)
        BY <1>3, <1>4, <2>4, <3>2 DEF Serving, Kept
      <4>2. req[b].alone
        BY <2>3, <2>4, <4>1 DEF ListInv, TidyRight
      <4>3. q # p
        BY <2>3, <2>4, <4>1 DEF quiet
      <4> QED
        BY <4>1, <4>2, <4>3 DEF Disturbed, Serving
    <3> QED
      BY <3>1, <3>2
  <2> QED
    BY <2>1, <2>2, <2>3, <2>4 DEF ListInv, TidyRight
<1> QED
  BY <1>5, <1>6, <1>8, <1>10, <1>11, <1>12 DEF ListInv

LEMMA CountStepsStep ==
    ASSUME ListInv, NEW a \in Admins, NEW p \in Plans, CountSteps(a, p)
    PROVE  ListInv'
<1> DEFINE r == [Request("insert", p) EXCEPT !.at = Cardinality(StepsOf(p))]
<1>1. "insert" \in PCs
  BY DEF PCs
<1>2. Request("insert", p) \in Requests /\ Cardinality(StepsOf(p)) \in Nat
  BY <1>1, RequestType, StepsOfType
<1>3. /\ r \in Requests /\ r.plan = p /\ r.pc = "insert" /\ r.held = {}
      /\ r.at = Cardinality(StepsOf(p))
  BY <1>2 DEF Requests, Request
<1>4. plans[p] # "unborn" /\ Accept(a, r) /\ UNCHANGED <<plans, row, order>>
  BY DEF CountSteps
<1> HIDE DEF r
<1>5. Fresh(r)
  BY <1>3, <1>4 DEF Fresh
<1> QED
  BY <1>4, <1>5, Accepted

LEMMA ReadStepStep ==
    ASSUME ListInv, NEW a \in Admins, NEW s \in Steps, ReadStep(a, s)
    PROVE  ListInv'
<1> DEFINE p == row[s].plan
           o == [t \in {s} |-> row[s].seq]
           r == [Request("saveStep", p) EXCEPT !.step = s, !.read = o]
<1>1. "saveStep" \in PCs
  BY DEF PCs
<1>2. row[s].state = "live" /\ p \in Plans /\ plans[p] # "unborn"
  BY DEF ReadStep, ListInv, RowRight
<1>3. o \in Orders /\ DOMAIN o = {s} /\ o[s] = row[s].seq
  <2>1. row[s].seq \in Seqs
    BY DEF ListInv, Shape, Row
  <2>2. o \in [{s} -> Seqs] /\ {s} \in SUBSET Steps
    BY <2>1
  <2> QED
    BY <2>2, OrderType
<1> HIDE DEF o
<1>4. Request("saveStep", p) \in Requests
  BY <1>1, <1>2, RequestType
<1>5. /\ r \in Requests /\ r.plan = p /\ r.pc = "saveStep" /\ r.held = {}
      /\ r.step = s /\ r.read = o
  BY <1>3, <1>4 DEF Requests, Request
<1>6. Accept(a, r) /\ UNCHANGED <<plans, row, order>>
  BY DEF ReadStep, o
<1> HIDE DEF r
<1>7. s \in StepsOf(p)
  BY <1>2 DEF StepsOf
<1>8. Fresh(r)
  BY <1>2, <1>3, <1>5, <1>7 DEF Fresh
<1> QED
  BY <1>6, <1>8, Accepted

LEMMA ReadPlanStep ==
    ASSUME ListInv, NEW a \in Admins, NEW p \in Plans, ReadPlan(a, p)
    PROVE  ListInv'
<1> DEFINE o == Preloaded(p)
           r == [Request("savePlan", p) EXCEPT !.read = o]
<1>1. "savePlan" \in PCs
  BY DEF PCs
<1>2. o \in Orders /\ DOMAIN o = StepsOf(p)
  <2>1. \A s \in StepsOf(p) : row[s].seq \in Seqs
    BY StepsOfType DEF ListInv, Shape, Row
  <2>2. o \in [StepsOf(p) -> Seqs]
    BY <2>1 DEF Preloaded
  <2> QED
    BY <2>2, OrderType, StepsOfType
<1> HIDE DEF o
<1>3. Request("savePlan", p) \in Requests
  BY <1>1, RequestType
<1>4. /\ r \in Requests /\ r.plan = p /\ r.pc = "savePlan" /\ r.held = {}
      /\ r.read = o
  BY <1>2, <1>3 DEF Requests, Request
<1>5. plans[p] = "live" /\ Accept(a, r) /\ UNCHANGED <<plans, row, order>>
  BY DEF ReadPlan, o
<1> HIDE DEF r
<1>6. Fresh(r)
  BY <1>2, <1>4, <1>5 DEF Fresh
<1> QED
  BY <1>5, <1>6, Accepted

LEMMA BeginReorderStep ==
    ASSUME ListInv, NEW a \in Admins, NEW p \in Plans, BeginReorder(a, p)
    PROVE  ListInv'
<1>1. PICK S \in SUBSET {s \in Steps : row[s].plan = p} : \E ids \in SetToSeqs(S) :
             Len(ids) > 1 /\ Accept(a, [Request("reorder", p) EXCEPT !.ids = ids])
  BY DEF BeginReorder
<1>2. PICK ids \in SetToSeqs(S) :
             Len(ids) > 1 /\ Accept(a, [Request("reorder", p) EXCEPT !.ids = ids])
  BY <1>1
<1> DEFINE r == [Request("reorder", p) EXCEPT !.ids = ids]
<1>3. S \in SUBSET Steps
  OBVIOUS
<1>4. ids \in Seq(Steps) /\ Len(ids) = Cardinality(S) /\ Distinct(ids)
  <2>1. Cardinality(S) \in Nat /\ Cardinality(S) <= Cardinality(Steps)
    BY <1>3, StepCount
  <2>2. /\ ids \in [1..Cardinality(S) -> S]
        /\ \A i, j \in 1..Cardinality(S) : i # j => ids[i] # ids[j]
    BY <1>2 DEF SetToSeqs
  <2>3. ids \in Seq(Steps) /\ Len(ids) = Cardinality(S)
    BY <1>3, <2>1, <2>2
  <2> QED
    BY <2>1, <2>2, <2>3 DEF Distinct
<1>5. "reorder" \in PCs
  BY DEF PCs
<1>6. Request("reorder", p) \in Requests
  BY <1>5, RequestType
<1>7. /\ r \in Requests /\ r.plan = p /\ r.pc = "reorder" /\ r.held = {}
      /\ r.ids = ids /\ r.at = 1
  BY <1>4, <1>6 DEF Requests, Request
<1>8. plans[p] # "unborn"
  <2>1. PICK s : s \in S
    <3>1. S # {}
      <4>1. S = {} => Cardinality(S) = 0
        BY FS_EmptySet
      <4>2. Cardinality(S) > 1
        BY <1>2, <1>4
      <4> QED
        BY <4>1, <4>2
    <3> QED
      BY <3>1
  <2> QED
    BY <2>1, ListAssumption DEF ListInv, RowRight
<1>9. Accept(a, r) /\ UNCHANGED <<plans, row, order>>
  BY <1>2 DEF BeginReorder
<1> HIDE DEF r
<1>10. Fresh(r)
  BY <1>4, <1>7, <1>8 DEF Fresh
<1> QED
  BY <1>9, <1>10, Accepted

(***************************************************************************)
(* A request ends.                                                         *)
(***************************************************************************)
(* Whoever writes rows of p at the end of a request writes no other rows,  *)
(* unlocks nobody's rows, and disturbs no request: either nobody serves p  *)
(* beside it or those who do are not alone.                                *)
LEMMA OthersKept ==
    ASSUME ListInv, Shape', NEW a \in Admins, Finish(a), Grown, NEW p,
           \A s \in Steps : row'[s] # row[s] =>
              row'[s].plan = p /\ row[s].plan \in {p, NoPlan},
           \A b \in Admins \ {a} : Serving(b, p) => ~req[b].alone,
           \A b \in Admins \ {a} : \A s \in req[b].held : row'[s].state = "live"
    PROVE  \A b \in Admins : ReqRight(b)' /\ AloneRight(b)'
<1>1. \A b \in Admins : req'[b] = IF b = a THEN Idle ELSE req[b]
  BY DEF Finish, ListInv, Shape
<1>2. ReqRight(a)' /\ AloneRight(a)'
  BY <1>1, IdleRight
<1>3. ASSUME NEW b \in Admins \ {a} PROVE ReqRight(b)' /\ AloneRight(b)'
  <2>1. req'[b] = req[b] /\ Kept(b)
    BY <1>1 DEF Kept
  <2>2. ReqRight(b)'
    BY <2>1, ReqKept
  <2>3. ASSUME req[b].alone, req[b].pc \notin {"idle", "clone"}
        PROVE  /\ \A s \in Steps :
                     row[s].plan = req[b].plan \/ row'[s].plan = req[b].plan
                        => row'[s] = row[s]
               /\ \A c \in Admins \ {b} :
                     Serving(c, req[b].plan)' => Serving(c, req[b].plan)
    <3>1. req[b].plan # p /\ req[b].plan # NoPlan
      BY <2>3, ListAssumption DEF Serving, ListInv, ReqRight
    <3>2. ASSUME NEW c \in Admins \ {b}, Serving(c, req[b].plan)'
          PROVE  Serving(c, req[b].plan)
      <4>1. c # a
        BY <1>1, <2>1, <3>2, IdleType DEF Serving
      <4> QED
        BY <1>1, <2>1, <3>2, <4>1 DEF Serving
    <3> QED
      BY <3>1, <3>2
  <2>4. AloneRight(b)'
    BY <2>1, <2>3, AloneKept
  <2> QED
    BY <2>2, <2>4
<1> QED
  BY <1>2, <1>3

(* A request that has been alone is the only one on its plan; with one     *)
(* that has not, the plan is not tidy.                                     *)
LEMMA AloneOnPlan ==
    ASSUME ListInv, NEW a \in Admins, req[a].pc \notin {"idle", "clone"}
    PROVE  /\ req[a] \in Requests /\ req[a].plan \in Plans
           /\ \A b \in Admins \ {a} : Serving(b, req[a].plan) => ~req[b].alone
           /\ req[a].alone => \A b \in Admins \ {a} : ~Serving(b, req[a].plan)
           /\ tidy[req[a].plan] => req[a].alone
<1> DEFINE p == req[a].plan
<1>1. req[a] \in Requests /\ p \in Plans /\ Serving(a, p)
  BY DEF ListInv, Shape, ReqRight, Serving
<1>2. ASSUME NEW b \in Admins \ {a}, Serving(b, p), req[b].alone
      PROVE  FALSE
  BY <1>1, <1>2 DEF ListInv, AloneRight, Serving
<1>3. req[a].alone => \A b \in Admins \ {a} : ~Serving(b, p)
  BY DEF ListInv, AloneRight
<1>4. tidy[p] => req[a].alone
  BY <1>1 DEF ListInv, TidyRight
<1> QED
  BY <1>1, <1>2, <1>3, <1>4

(* What is served when a request has ended was served before.              *)
LEMMA TidyServers ==
    ASSUME ListInv, NEW a \in Admins, Finish(a), NEW p \in Plans, tidy[p]
    PROVE  \A b \in Admins : Serving(b, p)' => req'[b].alone
<1>1. \A b \in Admins : req'[b] = IF b = a THEN Idle ELSE req[b]
  BY DEF Finish, ListInv, Shape
<1> QED
  BY <1>1, IdleType DEF Serving, ListInv, TidyRight

LEMMA FinishType ==
    ASSUME ListInv, NEW a \in Admins, Finish(a)
    PROVE  req' \in [Admins -> Requests]
  BY IdleType DEF Finish, ListInv, Shape

(* It writes no row: it has failed, or what it would write to is gone.     *)
LEMMA EndsWithoutRows ==
    ASSUME ListInv, NEW a \in Admins, Finish(a), UNCHANGED <<row, order, tidy>>,
           plans' \in [Plans -> {"unborn", "live", "gone"}],
           \A p \in Plans : plans'[p] # plans[p] => plans'[p] = "live"
    PROVE  ListInv'
<1>1. Shape'
  BY FinishType DEF ListInv, Shape
<1>2. \A s \in Steps : RowRight(s)'
  BY DEF ListInv, RowRight
<1>3. Grown
  BY DEF Grown
<1>4. \A b \in Admins \ {a} : \A s \in req[b].held : row'[s].state = "live"
  BY DEF ListInv, ReqRight, StepsOf
<1>5. \A b \in Admins : ~Serving(b, NoPlan)
  BY ListAssumption DEF ListInv, ReqRight, Serving
<1>6. \A b \in Admins : ReqRight(b)' /\ AloneRight(b)'
  <2>1. /\ \A s \in Steps : row'[s] # row[s] =>
              row'[s].plan = NoPlan /\ row[s].plan \in {NoPlan, NoPlan}
        /\ \A b \in Admins \ {a} : Serving(b, NoPlan) => ~req[b].alone
    BY <1>5
  <2> QED
    BY <1>1, <1>3, <1>4, <2>1, OthersKept
<1>7. ASSUME NEW p \in Plans PROVE TidyRight(p)' /\ Ordered(p)'
  <2>1. tidy[p] => \A b \in Admins : Serving(b, p)' => req'[b].alone
    BY TidyServers
  <2>2. StepsOf(p)' = StepsOf(p)
    BY DEF StepsOf
  <2> QED
    BY <2>1, <2>2 DEF ListInv, TidyRight, Tidy, Ordered
<1> QED
  BY <1>1, <1>2, <1>6, <1>7 DEF ListInv

LEMMA FailStep ==
    ASSUME ListInv, NEW a \in Admins, Fail(a)
    PROVE  ListInv'
<1>1. plans' \in [Plans -> {"unborn", "live", "gone"}]
  BY DEF Fail, ListInv, Shape
<1> QED
  BY <1>1, EndsWithoutRows DEF Fail

(* The plans whose rows are as they were.                                  *)
LEMMA PlanKept ==
    ASSUME ListInv, NEW p \in Plans,
           \A s \in Steps : row[s].plan = p \/ row'[s].plan = p => row'[s] = row[s]
    PROVE  /\ StepsOf(p)' = StepsOf(p)
           /\ Tidy(p)' = Tidy(p)
           /\ order'[p] = order[p] => Ordered(p)'
<1>1. StepsOf(p)' = StepsOf(p)
  BY DEF StepsOf
<1>2. \A s \in StepsOf(p) : row'[s] = row[s]
  BY DEF StepsOf
<1>3. {row'[s].seq : s \in StepsOf(p)} = {row[s].seq : s \in StepsOf(p)}
  BY <1>2
<1> QED
  BY <1>1, <1>2, <1>3 DEF Tidy, ListInv, Ordered

LEMMA OtherPlans ==
    ASSUME ListInv, NEW a \in Admins, Finish(a), NEW p,
           \A s \in Steps : row'[s] # row[s] =>
              row'[s].plan = p /\ row[s].plan \in {p, NoPlan},
           NEW q \in Plans \ {p}, tidy'[q] = tidy[q], order'[q] = order[q]
    PROVE  TidyRight(q)' /\ Ordered(q)'
<1>1. \A t \in Steps : row[t].plan = q \/ row'[t].plan = q => row'[t] = row[t]
  BY ListAssumption
<1>2. Ordered(q)' /\ Tidy(q)' = Tidy(q)
  BY <1>1, PlanKept
<1>3. tidy[q] => \A b \in Admins : Serving(b, q)' => req'[b].alone
  BY TidyServers
<1> QED
  BY <1>2, <1>3 DEF ListInv, TidyRight

(* The next step goes to the end of a tidy list.                           *)
LEMMA TidyGrows ==
    ASSUME NEW S, IsFiniteSet(S), NEW s, s \notin S, NEW f,
           {f[t] : t \in S} = 0..(Cardinality(S) - 1), f[s] = Cardinality(S)
    PROVE  {f[t] : t \in S \union {s}} = 0..(Cardinality(S \union {s}) - 1)
<1>1. Cardinality(S) \in Nat /\ Cardinality(S \union {s}) = Cardinality(S) + 1
  BY FS_AddElement, FS_CardinalityType
<1>2. {f[t] : t \in S \union {s}} = {f[t] : t \in S} \union {f[s]}
  OBVIOUS
<1> QED
  BY <1>1, <1>2

LEMMA InsertStepStep ==
    ASSUME ListInv, NEW a \in Admins, InsertStep(a)
    PROVE  ListInv'
<1>0. PICK p, n : p = req[a].plan /\ n = req[a].at
  OBVIOUS
<1>1. req[a].pc = "insert" /\ Finish(a) /\ UNCHANGED <<plans, order, tidy>>
  BY DEF InsertStep
<1>2. /\ p \in Plans /\ n \in Nat
      /\ \A b \in Admins \ {a} : Serving(b, p) => ~req[b].alone
      /\ tidy[p] => req[a].alone
  BY <1>0, <1>1, AloneOnPlan DEF Requests
<1>3. CASE plans[p] # "live"
  <2>1. UNCHANGED row
    BY <1>0, <1>3 DEF InsertStep
  <2>2. plans' \in [Plans -> {"unborn", "live", "gone"}]
    BY <1>1 DEF ListInv, Shape
  <2> QED
    BY <1>1, <2>1, <2>2, EndsWithoutRows
<1>4. CASE plans[p] = "live"
  <2>1. PICK s \in Unborns :
           row' = [row EXCEPT ![s] = [state |-> "live", plan |-> p, seq |-> n]]
    BY <1>0, <1>4 DEF InsertStep, NextSeq
  <2>2. s \in Steps /\ row[s].state = "unborn" /\ row[s].plan = NoPlan
    BY DEF Unborns, ListInv, RowRight
  <2>3. /\ row'[s] = [state |-> "live", plan |-> p, seq |-> n]
        /\ \A t \in Steps \ {s} : row'[t] = row[t]
    BY <2>1, <2>2 DEF ListInv, Shape
  <2>4. n \in Seqs
    <3>1. Steps \ Unborns \subseteq Steps \ {s}
      BY <2>1
    <3>2. Cardinality(Steps \ Unborns) <= Cardinality(Steps \ {s})
      BY <3>1, StepCount, FS_Subset
    <3>3. Cardinality(Steps \ {s}) = Cardinality(Steps) - 1
      BY <2>2, ListAssumption, FS_RemoveElement
    <3>4. n <= Cardinality(Steps \ Unborns)
      BY <1>0, <1>1 DEF ListInv, ReqRight
    <3>5. /\ Cardinality(Steps) \in Nat /\ Cardinality(Steps \ Unborns) \in Nat
          /\ Cardinality(Steps \ {s}) \in Nat
      BY StepCount
    <3> QED
      BY <1>2, <3>2, <3>3, <3>4, <3>5 DEF Seqs
  <2>5. Shape'
    <3>1. row' \in [Steps -> Row]
      BY <1>2, <2>1, <2>4 DEF ListInv, Shape, Row
    <3> QED
      BY <1>1, <3>1, FinishType DEF ListInv, Shape
  <2>6. ASSUME NEW t \in Steps PROVE RowRight(t)'
    <3>1. CASE t = s
      BY <1>1, <1>2, <1>4, <2>3, <3>1 DEF RowRight
    <3>2. CASE t # s
      BY <1>1, <2>3, <3>2 DEF ListInv, RowRight
    <3> QED
      BY <3>1, <3>2
  <2>7. Grown
    BY <1>1, <2>2, <2>3 DEF Grown
  <2>8. /\ \A t \in Steps : row'[t] # row[t] =>
              row'[t].plan = p /\ row[t].plan \in {p, NoPlan}
        /\ \A b \in Admins \ {a} : \A t \in req[b].held : row'[t].state = "live"
    BY <2>2, <2>3 DEF ListInv, ReqRight, StepsOf
  <2>9. \A b \in Admins : ReqRight(b)' /\ AloneRight(b)'
    BY <1>1, <1>2, <2>5, <2>7, <2>8, OthersKept
  <2>10. ASSUME NEW q \in Plans \ {p} PROVE TidyRight(q)' /\ Ordered(q)'
    BY <1>1, <2>8, OtherPlans
  <2>11. StepsOf(p)' = StepsOf(p) \union {s} /\ s \notin StepsOf(p)
    BY <2>2, <2>3 DEF StepsOf
  <2>12. Ordered(p)'
    <3>1. \A t \in StepsOf(p) : row'[t] = row[t]
      BY <2>3, <2>11 DEF StepsOf
    <3> QED
      BY <1>1, <1>2, <2>11, <3>1 DEF ListInv, Ordered
  <2>13. TidyRight(p)'
    <3> SUFFICES ASSUME tidy[p] PROVE TidyRight(p)'
      BY <1>1 DEF TidyRight
    <3>1. n = Cardinality(StepsOf(p)) /\ Tidy(p)
      BY <1>0, <1>1, <1>2 DEF ListInv, AloneRight, TidyRight
    <3> DEFINE f == [t \in Steps |-> row'[t].seq]
    <3>2. /\ f[s] = n
          /\ \A t \in StepsOf(p) : f[t] = row[t].seq
          /\ \A t \in StepsOf(p) \union {s} : f[t] = row'[t].seq
      BY <2>2, <2>3, <2>11 DEF StepsOf
    <3> HIDE DEF f
    <3>3. {f[t] : t \in StepsOf(p)} = {row[t].seq : t \in StepsOf(p)}
      BY <3>2
    <3>4. {f[t] : t \in StepsOf(p) \union {s}} = {row'[t].seq : t \in StepsOf(p) \union {s}}
      BY <3>2
    <3>5. {f[t] : t \in StepsOf(p) \union {s}} = 0..(Cardinality(StepsOf(p) \union {s}) - 1)
      <4>1. {f[t] : t \in StepsOf(p)} = 0..(Cardinality(StepsOf(p)) - 1)
        BY <3>1, <3>3 DEF Tidy
      <4> QED
        BY <2>11, <3>1, <3>2, <4>1, StepsOfType, TidyGrows
    <3>6. Tidy(p)'
      BY <2>11, <3>4, <3>5 DEF Tidy
    <3>7. \A b \in Admins : Serving(b, p)' => req'[b].alone
      BY <1>1, <1>2, TidyServers
    <3> QED
      BY <3>6, <3>7 DEF TidyRight
  <2> QED
    BY <2>5, <2>6, <2>9, <2>10, <2>12, <2>13 DEF ListInv
<1> QED
  BY <1>3, <1>4

(* Only an edit that nobody has come between writes back what is there.    *)
LEMMA SaveStepStep ==
    ASSUME ListInv, NEW a \in Admins, SaveStep(a)
    PROVE  ListInv'
<1>0. PICK p, s, o : p = req[a].plan /\ s = req[a].step /\ o = req[a].read
  OBVIOUS
<1>1. /\ req[a].pc = "saveStep" /\ Finish(a) /\ UNCHANGED <<plans, tidy>>
      /\ ~LockedFor(a, s)
  BY <1>0 DEF SaveStep
<1>2. /\ p \in Plans /\ o \in Orders
      /\ \A b \in Admins \ {a} : Serving(b, p) => ~req[b].alone
      /\ tidy[p] => req[a].alone
  BY <1>0, <1>1, AloneOnPlan DEF Requests
<1>3. s \in Steps /\ Born(s, p) /\ DOMAIN o = {s} /\ o[s] \in Seqs
  <2>1. s \in Steps /\ Born(s, p) /\ DOMAIN o = {s}
    BY <1>0, <1>1 DEF ListInv, ReqRight
  <2> QED
    BY <1>2, <2>1, OrderType
<1>4. plans' \in [Plans -> {"unborn", "live", "gone"}]
  BY <1>1 DEF ListInv, Shape
<1> DEFINE new == [state |-> "live", plan |-> p, seq |-> o[s]]
<1>5. CASE ~(row[s].state = "live" \/ plans[p] = "live")
  <2>1. UNCHANGED <<row, order>>
    BY <1>0, <1>5 DEF SaveStep
  <2> QED
    BY <1>1, <1>4, <2>1, EndsWithoutRows
<1>6. CASE (row[s].state = "live" \/ plans[p] = "live") /\ req[a].alone
  <2>1. row' = [row EXCEPT ![s] = new] /\ UNCHANGED order
    BY <1>0, <1>6 DEF SaveStep, Forget
  <2>2. row[s].state = "live" /\ row[s].seq = o[s] /\ row[s].plan = p
    BY <1>0, <1>1, <1>3, <1>6 DEF ListInv, AloneRight, Born
  <2>3. row[s] = new
    BY <1>3, <2>2 DEF ListInv, Shape, Row
  <2>4. UNCHANGED row
    BY <1>3, <2>1, <2>3 DEF ListInv, Shape
  <2> QED
    BY <1>1, <1>4, <2>1, <2>4, EndsWithoutRows
<1>7. CASE (row[s].state = "live" \/ plans[p] = "live") /\ ~req[a].alone
  <2>1. row' = [row EXCEPT ![s] = new] /\ order' = [order EXCEPT ![p] = NoOrder]
    BY <1>0, <1>7 DEF SaveStep, Forget
  <2>2. row'[s] = new /\ \A t \in Steps \ {s} : row'[t] = row[t]
    BY <1>3, <2>1 DEF ListInv, Shape
  <2>3. row[s].state # "unborn" /\ row[s].plan = p /\ plans[p] = "live"
    BY <1>3, <1>7 DEF Born, ListInv, RowRight
  <2>4. Shape'
    <3>1. row' \in [Steps -> Row]
      BY <1>2, <1>3, <2>1 DEF ListInv, Shape, Row
    <3>2. order' \in [Plans -> Orders]
      BY <2>1, OrderType DEF ListInv, Shape
    <3> QED
      BY <1>1, <3>1, <3>2, FinishType DEF ListInv, Shape
  <2>5. ASSUME NEW t \in Steps PROVE RowRight(t)'
    <3>1. CASE t = s
      BY <1>1, <1>2, <2>2, <2>3, <3>1 DEF RowRight
    <3>2. CASE t # s
      BY <1>1, <2>2, <3>2 DEF ListInv, RowRight
    <3> QED
      BY <3>1, <3>2
  <2>6. Grown
    BY <1>1, <2>2, <2>3 DEF Grown
  <2>7. \A t \in Steps : row'[t] # row[t] =>
           row'[t].plan = p /\ row[t].plan \in {p, NoPlan}
    BY <2>2, <2>3
  <2>8. \A b \in Admins \ {a} : \A t \in req[b].held : row'[t].state = "live"
    BY <1>1, <2>2 DEF LockedFor, ListInv, ReqRight, StepsOf
  <2>9. \A b \in Admins : ReqRight(b)' /\ AloneRight(b)'
    BY <1>1, <1>2, <2>4, <2>6, <2>7, <2>8, OthersKept
  <2>10. ASSUME NEW q \in Plans \ {p} PROVE TidyRight(q)' /\ Ordered(q)'
    <3>1. tidy'[q] = tidy[q] /\ order'[q] = order[q]
      BY <1>1, <2>1 DEF ListInv, Shape
    <3> QED
      BY <1>1, <2>7, <3>1, OtherPlans
  <2>11. TidyRight(p)' /\ Ordered(p)'
    <3>1. order'[p] = NoOrder /\ ~tidy'[p]
      BY <1>1, <1>2, <1>7, <2>1 DEF ListInv, Shape
    <3> QED
      BY <3>1, OrderType DEF TidyRight, Ordered
  <2> QED
    BY <2>4, <2>5, <2>9, <2>10, <2>11 DEF ListInv
<1> QED
  BY <1>5, <1>6, <1>7

-----------------------------------------------------------------------------
(* Reorders.  Each of the ids has one place, and the places are 0, 1, ..   *)
LEMMA Places ==
    ASSUME NEW ids \in Seq(Steps), Distinct(ids)
    PROVE  /\ ToSet(ids) \subseteq Steps
           /\ Cardinality(ToSet(ids)) = Len(ids)
           /\ \A s \in ToSet(ids) : Place(ids, s) \in Seqs
           /\ {Place(ids, s) : s \in ToSet(ids)} = 0..(Len(ids) - 1)
<1> DEFINE n == Len(ids)
           T == ToSet(ids)
<1>1. n \in Nat /\ n <= Cardinality(Steps) /\ DOMAIN ids = 1..n
  BY DEF Distinct
<1>2. T = {ids[j] : j \in 1..n} /\ T \subseteq Steps
  BY <1>1 DEF ToSet
<1>3. ASSUME NEW j \in 1..n PROVE ids[j] \in T /\ Place(ids, ids[j]) = j - 1
  <2>1. ids[j] \in T
    BY <1>2
  <2>2. \A k \in 1..n : ids[k] = ids[j] => k = j
    BY DEF Distinct
  <2>3. (CHOOSE k \in 1..n : ids[k] = ids[j]) = j
    BY <2>2
  <2> QED
    BY <1>1, <2>1, <2>3 DEF Place
<1>4. ASSUME NEW s \in T PROVE \E j \in 1..n : ids[j] = s
  BY <1>2
<1>5. Cardinality(T) = n
  <2>1. IsFiniteSet(1..n) /\ Cardinality(1..n) = n
    BY <1>1, FS_Interval
  <2>2. ids \in Bijection(1..n, T)
    <3>1. ids \in [1..n -> T]
      BY <1>1, <1>3
    <3>2. \A j, k \in 1..n : ids[j] = ids[k] => j = k
      BY DEF Distinct
    <3>3. \A t \in T : \E j \in 1..n : ids[j] = t
      BY <1>4
    <3> QED
      BY <3>1, <3>2, <3>3 DEF Bijection, Injection, Surjection, IsInjective
  <2>3. ExistsBijection(1..n, T)
    BY <2>2 DEF ExistsBijection
  <2> QED
    BY <2>1, <2>3, FS_Bijection
<1>6. \A s \in T : Place(ids, s) \in 0..(n - 1)
  BY <1>1, <1>3, <1>4
<1>7. ASSUME NEW k \in 0..(n - 1) PROVE \E s \in T : Place(ids, s) = k
  <2>1. k + 1 \in 1..n /\ (k + 1) - 1 = k
    BY <1>1
  <2> QED
    BY <1>3, <2>1
<1>8. {Place(ids, s) : s \in T} = 0..(n - 1)
  BY <1>6, <1>7
<1>9. \A s \in T : Place(ids, s) \in Seqs
  <2>1. 0..(n - 1) \subseteq Seqs
    BY <1>1, StepCount DEF Seqs
  <2> QED
    BY <1>6, <2>1
<1> QED
  BY <1>2, <1>5, <1>8, <1>9

LEMMA UpdateSeqStep ==
    ASSUME ListInv, NEW a \in Admins, UpdateSeq(a)
    PROVE  ListInv'
<1>0. PICK r, s, H : /\ r = req[a] /\ s = r.ids[r.at]
                     /\ H = IF s \in StepsOf(r.plan) THEN r.held \union {s} ELSE r.held
  OBVIOUS
<1> DEFINE q == [r EXCEPT !.at = r.at + 1, !.held = H]
<1>1. /\ r \in Requests /\ ReqRight(a) /\ AloneRight(a)
      /\ r.pc = "reorder" /\ r.at <= Len(r.ids)
      /\ UNCHANGED <<plans, row, order, tidy>>
  BY <1>0 DEF UpdateSeq, ListInv, Shape
<1>2. req' = [req EXCEPT ![a] = q]
  BY <1>0 DEF UpdateSeq
<1>3. s \in Steps /\ s \in ToSet(r.ids) /\ r.at \in Nat /\ r.at >= 1
  <2>1. r.ids \in Seq(Steps) /\ r.at \in Nat /\ r.at >= 1
    BY <1>0, <1>1 DEF ReqRight, Requests
  <2>2. r.at \in DOMAIN r.ids
    BY <1>1, <2>1
  <2> QED
    BY <1>0, <2>1, <2>2 DEF ToSet
<1>4. H \subseteq StepsOf(r.plan) \intersect ToSet(r.ids) /\ H \subseteq Steps
  <2>1. r.held \subseteq StepsOf(r.plan) \intersect ToSet(r.ids)
    BY <1>0, <1>1 DEF ReqRight
  <2> QED
    BY <1>0, <1>3, <2>1 DEF StepsOf
<1>5. /\ q \in Requests /\ q.pc = r.pc /\ q.plan = r.plan /\ q.step = r.step
      /\ q.read = r.read /\ q.ids = r.ids /\ q.alone = r.alone
      /\ q.at = r.at + 1 /\ q.held = H
  <2>1. r.at + 1 \in Nat /\ H \in SUBSET Steps
    BY <1>3, <1>4
  <2>2. q \in Requests
    BY <1>1, <2>1 DEF Requests
  <2> QED
    BY <1>1, <2>1, <2>2 DEF Requests
<1> HIDE DEF q
<1>6. req'[a] = q /\ \A b \in Admins \ {a} : req'[b] = req[b]
  BY <1>2 DEF ListInv, Shape
<1>7. Shape'
  BY <1>1, <1>2, <1>5 DEF ListInv, Shape
<1>8. \A t \in Steps : RowRight(t)'
  BY <1>1 DEF ListInv, RowRight
<1>9. \A p : StepsOf(p)' = StepsOf(p)
  BY <1>1 DEF StepsOf
<1>10. \A b \in Admins : \A p : Serving(b, p)' <=> Serving(b, p)
  BY <1>0, <1>1, <1>5, <1>6 DEF Serving
<1>11. ReqRight(a)'
  BY <1>0, <1>1, <1>3, <1>4, <1>5, <1>6, <1>9 DEF ReqRight
<1>12. AloneRight(a)'
  BY <1>0, <1>1, <1>5, <1>6, <1>10 DEF AloneRight
<1>13. ASSUME NEW b \in Admins \ {a} PROVE ReqRight(b)' /\ AloneRight(b)'
  <2>1. Grown /\ Kept(b)
    BY <1>1, <1>6 DEF Grown, Kept
  <2>2. \A t \in req[b].held : row'[t].state = "live"
    BY <1>1 DEF ListInv, ReqRight, StepsOf
  <2>3. ReqRight(b)'
    BY <1>7, <2>1, <2>2, ReqKept
  <2>4. \A t \in Steps : row'[t] = row[t]
    BY <1>1
  <2>5. \A c \in Admins : Serving(c, req[b].plan)' => Serving(c, req[b].plan)
    <3>1. req'[b].plan = req[b].plan
      BY <2>1 DEF Kept
    <3> QED
      BY <1>10, <3>1 DEF Serving
  <2>6. AloneRight(b)'
    BY <1>7, <2>1, <2>4, <2>5, AloneKept
  <2> QED
    BY <2>3, <2>6
<1>14. ASSUME NEW p \in Plans PROVE TidyRight(p)' /\ Ordered(p)'
  <2>1. \A b \in Admins : req'[b].alone = req[b].alone
    BY <1>0, <1>5, <1>6
  <2> QED
    BY <1>1, <1>9, <1>10, <2>1 DEF ListInv, TidyRight, Tidy, Ordered
<1> QED
  BY <1>7, <1>8, <1>11, <1>12, <1>13, <1>14 DEF ListInv

LEMMA CommitStep ==
    ASSUME ListInv, NEW a \in Admins, Commit(a)
    PROVE  ListInv'
<1>0. PICK r, p, H : r = req[a] /\ p = r.plan /\ H = r.held
  OBVIOUS
<1> DEFINE placed == [s \in H |-> Place(r.ids, s)]
<1>1. /\ r.pc = "reorder" /\ Finish(a) /\ UNCHANGED plans
      /\ row' = [s \in Steps |-> IF s \in H THEN [row[s] EXCEPT !.seq = placed[s]]
                                 ELSE row[s]]
      /\ order' = [order EXCEPT ![p] = placed]
      /\ tidy' = [tidy EXCEPT ![p] = r.alone /\ H = StepsOf(p) /\ H = ToSet(r.ids)]
  BY <1>0 DEF Commit
<1>2. /\ r \in Requests /\ p \in Plans
      /\ \A b \in Admins \ {a} : Serving(b, p) => ~req[b].alone
      /\ r.alone => \A b \in Admins \ {a} : ~Serving(b, p)
  BY <1>0, <1>1, AloneOnPlan
<1>3. /\ H \subseteq StepsOf(p) /\ H \subseteq ToSet(r.ids)
      /\ Distinct(r.ids) /\ r.ids \in Seq(Steps)
  BY <1>0, <1>1, <1>2 DEF ListInv, ReqRight, Requests
<1>4. /\ placed \in [H -> Seqs] /\ placed \in Orders /\ DOMAIN placed = H
      /\ \A s \in H : placed[s] = Place(r.ids, s)
  <2>1. placed \in [H -> Seqs] /\ H \in SUBSET Steps
    BY <1>3, Places
  <2> QED
    BY <2>1, OrderType
<1> HIDE DEF placed
<1>5. ASSUME NEW s \in Steps
      PROVE  /\ row'[s].state = row[s].state /\ row'[s].plan = row[s].plan
             /\ row'[s] \in Row
             /\ s \in H => row'[s].seq = placed[s]
             /\ s \notin H => row'[s] = row[s]
  BY <1>1, <1>4 DEF ListInv, Shape, Row
<1>6. Shape'
  <2>1. row' \in [Steps -> Row]
    BY <1>1, <1>5
  <2>2. order' \in [Plans -> Orders] /\ tidy' \in [Plans -> BOOLEAN]
    BY <1>1, <1>2, <1>4 DEF ListInv, Shape, Requests
  <2> QED
    BY <1>1, <2>1, <2>2, FinishType DEF ListInv, Shape
<1>7. \A s \in Steps : RowRight(s)'
  BY <1>1, <1>5 DEF ListInv, RowRight
<1>8. Grown
  BY <1>1, <1>5 DEF Grown
<1>9. \A s \in Steps : row'[s] # row[s] =>
         row'[s].plan = p /\ row[s].plan \in {p, NoPlan}
  BY <1>3, <1>5 DEF StepsOf
<1>10. \A b \in Admins \ {a} : \A s \in req[b].held : row'[s].state = "live"
  BY <1>5 DEF ListInv, ReqRight, StepsOf
<1>11. \A b \in Admins : ReqRight(b)' /\ AloneRight(b)'
  BY <1>1, <1>2, <1>6, <1>8, <1>9, <1>10, OthersKept
<1>12. ASSUME NEW q \in Plans \ {p} PROVE TidyRight(q)' /\ Ordered(q)'
  <2>1. tidy'[q] = tidy[q] /\ order'[q] = order[q]
    BY <1>1 DEF ListInv, Shape
  <2> QED
    BY <1>1, <1>9, <2>1, OtherPlans
<1>13. StepsOf(p)' = StepsOf(p)
  BY <1>5 DEF StepsOf
<1>14. Ordered(p)'
  <2>1. order'[p] = placed
    BY <1>1, <1>2 DEF ListInv, Shape
  <2>2. \A s \in H : s \in StepsOf(p) /\ s \in Steps /\ row'[s].seq = placed[s]
    BY <1>3, <1>5 DEF StepsOf
  <2> QED
    BY <1>4, <1>13, <2>1, <2>2 DEF Ordered
<1>15. TidyRight(p)'
  <2> SUFFICES ASSUME tidy'[p] PROVE TidyRight(p)'
    BY DEF TidyRight
  <2>1. r.alone /\ H = StepsOf(p) /\ H = ToSet(r.ids)
    BY <1>1, <1>2 DEF ListInv, Shape
  <2>2. \A b \in Admins : ~Serving(b, p)'
    <3>1. \A b \in Admins : req'[b] = IF b = a THEN Idle ELSE req[b]
      BY <1>1 DEF Finish, ListInv, Shape
    <3> QED
      BY <1>2, <2>1, <3>1, IdleType DEF Serving
  <2>3. \A s \in H : row'[s].seq = Place(r.ids, s)
    BY <1>3, <1>4, <1>5 DEF StepsOf
  <2>4. {row'[s].seq : s \in H} = {Place(r.ids, s) : s \in H}
    BY <2>3
  <2>5. {Place(r.ids, s) : s \in H} = 0..(Cardinality(H) - 1)
    BY <1>3, <2>1, Places
  <2>6. Tidy(p)'
    BY <1>13, <2>1, <2>4, <2>5 DEF Tidy
  <2> QED
    BY <2>2, <2>6 DEF TidyRight
<1> QED
  BY <1>6, <1>7, <1>11, <1>12, <1>14, <1>15 DEF ListInv

-----------------------------------------------------------------------------
(* The operations on plans.                                                *)
LEMMA SavePlanStep ==
    ASSUME ListInv, NEW a \in Admins, SavePlan(a)
    PROVE  ListInv'
<1>0. PICK p, o, L : /\ p = req[a].plan /\ o = req[a].read
                     /\ L = {s \in DOMAIN o : row[s].state = "gone"}
  OBVIOUS
<1>1. req[a].pc = "savePlan" /\ Finish(a) /\ UNCHANGED <<order, tidy>>
  BY DEF SavePlan
<1>2. /\ p \in Plans /\ o \in Orders
      /\ \A b \in Admins \ {a} : Serving(b, p) => ~req[b].alone
      /\ tidy[p] => req[a].alone
  BY <1>0, <1>1, AloneOnPlan DEF Requests
<1>3. CASE plans[p] # "live"
  <2>1. plans' = (IF o = NoOrder THEN [plans EXCEPT ![p] = "live"] ELSE plans) /\ UNCHANGED row
    BY <1>0, <1>3 DEF SavePlan
  <2>2. /\ plans' \in [Plans -> {"unborn", "live", "gone"}]
        /\ \A q \in Plans : plans'[q] # plans[q] => plans'[q] = "live"
    BY <1>2, <2>1 DEF ListInv, Shape
  <2> QED
    BY <1>1, <2>1, <2>2, EndsWithoutRows
<1>4. CASE plans[p] = "live"
  <2>1. /\ row' = [s \in Steps |-> IF s \in L
                      THEN [state |-> "live", plan |-> p, seq |-> o[s]] ELSE row[s]]
        /\ UNCHANGED plans
    BY <1>0, <1>4 DEF SavePlan
  <2>2. ASSUME NEW s \in L
        PROVE  s \in Steps /\ o[s] \in Seqs /\ row[s].state = "gone" /\ row[s].plan = p
    <3>1. s \in DOMAIN o /\ row[s].state = "gone"
      BY <1>0
    <3>2. s \in Steps /\ o[s] \in Seqs
      BY <1>2, <3>1, OrderType
    <3>3. Born(s, p)
      BY <1>0, <1>1, <3>1 DEF ListInv, ReqRight
    <3> QED
      BY <3>1, <3>2, <3>3 DEF Born
  <2>3. /\ \A s \in L : row'[s].state = "live" /\ row'[s].plan = p
        /\ \A s \in Steps \ L : row'[s] = row[s]
    BY <2>1, <2>2
  <2>4. Shape'
    <3>1. row' \in [Steps -> Row]
      BY <1>2, <2>1, <2>2 DEF ListInv, Shape, Row
    <3> QED
      BY <1>1, <2>1, <3>1, FinishType DEF ListInv, Shape
  <2>5. ASSUME NEW t \in Steps PROVE RowRight(t)'
    <3>1. CASE t \in L
      BY <1>2, <1>4, <2>1, <2>3, <3>1 DEF RowRight
    <3>2. CASE t \notin L
      BY <2>1, <2>3, <3>2 DEF ListInv, RowRight
    <3> QED
      BY <3>1, <3>2
  <2>6. Grown
    BY <2>1, <2>2, <2>3 DEF Grown
  <2>7. \A t \in Steps : row'[t] # row[t] =>
           row'[t].plan = p /\ row[t].plan \in {p, NoPlan}
    BY <2>2, <2>3
  <2>8. \A b \in Admins \ {a} : \A t \in req[b].held : row'[t].state = "live"
    BY <2>2, <2>3 DEF ListInv, ReqRight, StepsOf
  <2>9. \A b \in Admins : ReqRight(b)' /\ AloneRight(b)'
    BY <1>1, <1>2, <2>4, <2>6, <2>7, <2>8, OthersKept
  <2>10. ASSUME NEW q \in Plans \ {p} PROVE TidyRight(q)' /\ Ordered(q)'
    BY <1>1, <2>7, OtherPlans
  <2>11. Ordered(p)'
    <3>1. \A s \in DOMAIN order[p] :
             s \in Steps /\ row[s].state = "live" /\ row[s].plan = p /\ row[s].seq = order[p][s]
      BY <1>2 DEF ListInv, Ordered, StepsOf
    <3>2. \A s \in DOMAIN order[p] : row'[s] = row[s]
      BY <2>2, <2>3, <3>1
    <3> QED
      BY <1>1, <3>1, <3>2 DEF Ordered, StepsOf
  <2>12. TidyRight(p)'
    <3> SUFFICES ASSUME tidy[p] PROVE TidyRight(p)'
      BY <1>1 DEF TidyRight
    <3>1. DOMAIN o \subseteq StepsOf(p)
      BY <1>0, <1>1, <1>2 DEF ListInv, AloneRight
    <3>2. L = {}
      BY <1>0, <3>1 DEF StepsOf
    <3>3. \A s \in Steps : row'[s] = row[s]
      BY <2>3, <3>2
    <3>4. Tidy(p)' = Tidy(p)
      BY <1>2, <3>3, PlanKept
    <3>5. \A b \in Admins : Serving(b, p)' => req'[b].alone
      BY <1>1, <1>2, TidyServers
    <3> QED
      BY <1>2, <3>4, <3>5 DEF ListInv, TidyRight
  <2> QED
    BY <2>4, <2>5, <2>9, <2>10, <2>11, <2>12 DEF ListInv
<1> QED
  BY <1>3, <1>4

(* A plan that is not there has no rows and no requests.                   *)
LEMMA UnbornPlan ==
    ASSUME ListInv, NEW p \in Plans, plans[p] = "unborn"
    PROVE  /\ StepsOf(p) = {} /\ DOMAIN order[p] = {}
           /\ \A b \in Admins : ~Serving(b, p)
<1>1. StepsOf(p) = {}
  BY DEF StepsOf, ListInv, RowRight
<1>2. DOMAIN order[p] = {}
  BY <1>1 DEF ListInv, Ordered
<1> QED
  BY <1>1, <1>2 DEF ListInv, ReqRight, Serving

LEMMA CloneStepsStep ==
    ASSUME ListInv, NEW a \in Admins, CloneSteps(a)
    PROVE  ListInv'
<1>1. req[a].pc = "clone" /\ Finish(a) /\ UNCHANGED order
  BY DEF CloneSteps
<1> DEFINE o == req[a].read
           Copied(q, C, f) ==
              row' = [s \in Steps |->
                        IF s \in C THEN [state |-> "live", plan |-> q, seq |-> o[f[s]]]
                        ELSE row[s]]
<1>2. \E q \in {p \in Plans : plans[p] = "unborn"}, C \in SUBSET Unborns :
          /\ plans' = [plans EXCEPT ![q] = "live"]
          /\ \E f \in [C -> DOMAIN o] : Copied(q, C, f)
          /\ tidy' = [tidy EXCEPT ![q] = FALSE]
  BY Zenon DEF CloneSteps
<1>3. PICK q \in Plans, C \in SUBSET Unborns :
          /\ plans[q] = "unborn"
          /\ plans' = [plans EXCEPT ![q] = "live"]
          /\ \E f \in [C -> DOMAIN o] : Copied(q, C, f)
          /\ tidy' = [tidy EXCEPT ![q] = FALSE]
  BY <1>2, Zenon
<1>4. PICK f \in [C -> DOMAIN o] : Copied(q, C, f)
  BY <1>3, Zenon
<1>5. ASSUME NEW s \in C
      PROVE  s \in Steps /\ row[s].state = "unborn" /\ row[s].plan = NoPlan /\ o[f[s]] \in Seqs
  <2>1. s \in Steps /\ row[s].state = "unborn" /\ row[s].plan = NoPlan
    BY DEF Unborns, ListInv, RowRight
  <2>2. o \in Orders /\ f[s] \in DOMAIN o
    BY DEF ListInv, Shape, Requests
  <2> QED
    BY <2>1, <2>2, OrderType
<1>6. /\ \A s \in C : row'[s].state = "live" /\ row'[s].plan = q
      /\ \A s \in Steps \ C : row'[s] = row[s]
  BY <1>4, <1>5
<1>7. /\ q \in Plans /\ plans[q] = "unborn"
      /\ plans'[q] = "live" /\ \A p \in Plans \ {q} : plans'[p] = plans[p]
  BY <1>3 DEF ListInv, Shape
<1>8. StepsOf(q) = {} /\ DOMAIN order[q] = {} /\ \A b \in Admins : ~Serving(b, q)
  BY <1>7, UnbornPlan
<1>9. Shape'
  <2>1. row' \in [Steps -> Row]
    BY <1>4, <1>5, <1>7 DEF ListInv, Shape, Row
  <2>2. plans' \in [Plans -> {"unborn", "live", "gone"}] /\ tidy' \in [Plans -> BOOLEAN]
    BY <1>3 DEF ListInv, Shape
  <2> QED
    BY <1>1, <2>1, <2>2, FinishType DEF ListInv, Shape
<1>10. ASSUME NEW t \in Steps PROVE RowRight(t)'
  <2>1. CASE t \in C
    BY <1>6, <1>7, <2>1 DEF RowRight
  <2>2. CASE t \notin C
    BY <1>6, <1>7, <2>2 DEF ListInv, RowRight
  <2> QED
    BY <2>1, <2>2
<1>11. Grown
  BY <1>5, <1>6, <1>7 DEF Grown
<1>12. \A t \in Steps : row'[t] # row[t] =>
          row'[t].plan = q /\ row[t].plan \in {q, NoPlan}
  BY <1>5, <1>6
<1>13. \A b \in Admins \ {a} : \A t \in req[b].held : row'[t].state = "live"
  BY <1>5, <1>6 DEF ListInv, ReqRight, StepsOf
<1>14. \A b \in Admins : ReqRight(b)' /\ AloneRight(b)'
  BY <1>1, <1>8, <1>9, <1>11, <1>12, <1>13, OthersKept
<1>15. ASSUME NEW p \in Plans \ {q} PROVE TidyRight(p)' /\ Ordered(p)'
  <2>1. tidy'[p] = tidy[p] /\ order'[p] = order[p]
    BY <1>1, <1>3 DEF ListInv, Shape
  <2> QED
    BY <1>1, <1>12, <2>1, OtherPlans
<1>16. TidyRight(q)' /\ Ordered(q)'
  <2>1. ~tidy'[q]
    BY <1>3 DEF ListInv, Shape
  <2> QED
    BY <1>1, <1>8, <2>1 DEF TidyRight, Ordered
<1> QED
  BY <1>9, <1>10, <1>14, <1>15, <1>16 DEF ListInv

LEMMA CreatePlanStep ==
    ASSUME ListInv, NEW p \in Plans, CreatePlan(p)
    PROVE  ListInv'
<1>1. /\ plans[p] = "unborn" /\ plans' = [plans EXCEPT ![p] = "live"]
      /\ UNCHANGED <<row, req, order, tidy>>
  BY DEF CreatePlan
<1>2. Shape'
  BY <1>1 DEF ListInv, Shape
<1>3. \A q \in Plans : plans'[q] # plans[q] => plans'[q] = "live"
  BY <1>1 DEF ListInv, Shape
<1>4. \A s \in Steps : RowRight(s)'
  BY <1>1, <1>3 DEF ListInv, RowRight
<1>5. \A q : StepsOf(q)' = StepsOf(q)
  BY <1>1 DEF StepsOf
<1>6. ASSUME NEW b \in Admins PROVE ReqRight(b)' /\ AloneRight(b)'
  <2>1. Grown /\ Kept(b)
    BY <1>1, <1>3 DEF Grown, Kept
  <2>2. \A s \in req[b].held : row'[s].state = "live"
    BY <1>1 DEF ListInv, ReqRight, StepsOf
  <2>3. ReqRight(b)'
    BY <1>2, <2>1, <2>2, ReqKept
  <2>4. /\ \A s \in Steps : row'[s] = row[s]
        /\ \A c \in Admins : Serving(c, req[b].plan)' => Serving(c, req[b].plan)
    BY <1>1 DEF Serving
  <2>5. AloneRight(b)'
    BY <1>2, <2>1, <2>4, AloneKept
  <2> QED
    BY <2>3, <2>5
<1>7. \A q \in Plans : TidyRight(q)' /\ Ordered(q)'
  BY <1>1, <1>5 DEF ListInv, TidyRight, Serving, Tidy, Ordered
<1> QED
  BY <1>2, <1>4, <1>6, <1>7 DEF ListInv

LEMMA DisturbedType ==
    ASSUME ListInv, NEW p, Disturb(p), NEW b \in Admins
    PROVE  /\ req'[b] \in Requests /\ Kept(b)
           /\ Serving(b, p) => ~req'[b].alone
           /\ ~Serving(b, p) => req'[b] = req[b]
<1>1. req'[b] = Disturbed(b, p) /\ req[b] \in Requests
  BY DEF Disturb, ListInv, Shape
<1>2. CASE Serving(b, p)
  <2>1. req'[b] = [req[b] EXCEPT !.alone = FALSE]
    BY <1>1, <1>2 DEF Disturbed
  <2> QED
    BY <1>1, <1>2, <2>1 DEF Requests, Kept
<1>3. CASE ~Serving(b, p)
  BY <1>1, <1>3 DEF Disturbed, Kept
<1> QED
  BY <1>2, <1>3

(* Rows of p go, and whoever serves p is no longer alone.                  *)
LEMMA RowsGo ==
    ASSUME ListInv, Shape', Grown, NEW p \in Plans, Disturb(p),
           \A s \in Steps : row'[s] # row[s] => row'[s].plan = p /\ row[s].plan = p,
           \A b \in Admins : \A s \in req[b].held : row'[s] = row[s],
           tidy' = [tidy EXCEPT ![p] = FALSE],
           \A q \in Plans \ {p} : order'[q] = order[q]
    PROVE  /\ \A b \in Admins : ReqRight(b)' /\ AloneRight(b)'
           /\ \A q \in Plans \ {p} : TidyRight(q)' /\ Ordered(q)'
           /\ TidyRight(p)'
<1>1. \A b \in Admins : \A q : Serving(b, q)' <=> Serving(b, q)
  BY DisturbedType DEF Serving, Kept
<1>2. ASSUME NEW b \in Admins PROVE ReqRight(b)' /\ AloneRight(b)'
  <2>1. Kept(b)
    BY DisturbedType
  <2>2. \A s \in req[b].held : row'[s].state = "live"
    BY DEF ListInv, ReqRight, StepsOf
  <2>3. ReqRight(b)'
    BY <2>1, <2>2, ReqKept
  <2>4. \A c \in Admins : Serving(c, req[b].plan)' => Serving(c, req[b].plan)
    <3>1. req'[b].plan = req[b].plan
      BY <2>1 DEF Kept
    <3> QED
      BY <1>1, <3>1 DEF Serving
  <2>5. ASSUME req'[b].alone, req[b].pc \notin {"idle", "clone"}
        PROVE  req[b].plan # p
    BY <2>5, DisturbedType DEF Serving
  <2>6. AloneRight(b)'
    BY <2>1, <2>4, <2>5, AloneKept
  <2> QED
    BY <2>3, <2>6
<1>3. ASSUME NEW q \in Plans \ {p} PROVE TidyRight(q)' /\ Ordered(q)'
  <2>1. \A s \in Steps : row[s].plan = q \/ row'[s].plan = q => row'[s] = row[s]
    OBVIOUS
  <2>2. Ordered(q)' /\ Tidy(q)' = Tidy(q)
    BY <2>1, PlanKept
  <2>3. ASSUME tidy[q], NEW b \in Admins, Serving(b, q)' PROVE req'[b].alone
    <3>1. Serving(b, q) /\ ~Serving(b, p)
      BY <1>1, <2>3 DEF Serving
    <3> QED
      BY <2>3, <3>1, DisturbedType DEF ListInv, TidyRight
  <2>4. tidy'[q] = tidy[q]
    BY DEF ListInv, Shape
  <2> QED
    BY <2>2, <2>3, <2>4 DEF ListInv, TidyRight
<1>4. TidyRight(p)'
  BY DEF ListInv, Shape, TidyRight
<1> QED
  BY <1>2, <1>3, <1>4

LEMMA GoneType ==
    ASSUME NEW r \in Row, r.plan \in Plans
    PROVE  Gone(r) \in Row /\ Gone(r).state = "gone" /\ Gone(r).plan = r.plan
  BY StepCount DEF Gone, Row

LEMMA DeleteStepStep ==
    ASSUME ListInv, NEW s \in Steps, DeleteStep(s)
    PROVE  ListInv'
<1>0. PICK p : p = row[s].plan
  OBVIOUS
<1>1. /\ row[s].state = "live" /\ ~Locked(s) /\ Disturb(p)
      /\ row' = [row EXCEPT ![s] = Gone(row[s])]
      /\ order' = [order EXCEPT ![p] = [t \in DOMAIN order[p] \ {s} |-> order[p][t]]]
      /\ tidy' = [tidy EXCEPT ![p] = FALSE]
      /\ UNCHANGED plans
  BY <1>0 DEF DeleteStep
<1>2. p \in Plans /\ row[s] \in Row
  BY <1>0, <1>1 DEF ListInv, RowRight, Shape
<1>3. /\ row'[s] \in Row /\ row'[s].state = "gone" /\ row'[s].plan = p
      /\ \A t \in Steps \ {s} : row'[t] = row[t]
  BY <1>0, <1>1, <1>2, GoneType DEF ListInv, Shape
<1> DEFINE o == [t \in DOMAIN order[p] \ {s} |-> order[p][t]]
<1>4. o \in Orders
  <2>1. /\ DOMAIN order[p] \subseteq Steps
        /\ \A t \in DOMAIN order[p] : order[p][t] \in Seqs
    BY <1>2, OrderType DEF ListInv, Shape
  <2>2. o \in [DOMAIN order[p] \ {s} -> Seqs] /\ DOMAIN order[p] \ {s} \in SUBSET Steps
    BY <2>1
  <2> QED
    BY <2>2, OrderType
<1>5. Shape'
  <2>1. row' \in [Steps -> Row]
    BY <1>1, <1>3 DEF ListInv, Shape
  <2>2. req' \in [Admins -> Requests]
    BY <1>1, DisturbedType DEF Disturb
  <2>3. order' \in [Plans -> Orders] /\ tidy' \in [Plans -> BOOLEAN]
    BY <1>1, <1>4 DEF ListInv, Shape
  <2> QED
    BY <1>1, <2>1, <2>2, <2>3 DEF ListInv, Shape
<1>6. ASSUME NEW t \in Steps PROVE RowRight(t)'
  <2>1. CASE t = s
    BY <1>0, <1>1, <1>3, <2>1 DEF ListInv, RowRight
  <2>2. CASE t # s
    BY <1>1, <1>3, <2>2 DEF ListInv, RowRight
  <2> QED
    BY <2>1, <2>2
<1>7. Grown
  BY <1>0, <1>1, <1>3 DEF Grown
<1>8. \A t \in Steps : row'[t] # row[t] => row'[t].plan = p /\ row[t].plan = p
  BY <1>0, <1>3
<1>9. \A b \in Admins : \A t \in req[b].held : row'[t] = row[t]
  BY <1>1, <1>3 DEF Locked, ListInv, Shape, Requests
<1>10. \A q \in Plans \ {p} : order'[q] = order[q]
  BY <1>1 DEF ListInv, Shape
<1>11. /\ \A b \in Admins : ReqRight(b)' /\ AloneRight(b)'
       /\ \A q \in Plans \ {p} : TidyRight(q)' /\ Ordered(q)'
       /\ TidyRight(p)'
  BY <1>1, <1>2, <1>5, <1>7, <1>8, <1>9, <1>10, RowsGo
<1>12. Ordered(p)'
  <2>1. /\ order'[p] = o /\ DOMAIN o = DOMAIN order[p] \ {s}
        /\ \A t \in DOMAIN o : o[t] = order[p][t]
    BY <1>1, <1>2 DEF ListInv, Shape
  <2>2. \A t \in DOMAIN o : t \in StepsOf(p) /\ row[t].seq = order[p][t] /\ row'[t] = row[t]
    BY <1>2, <1>3, <2>1 DEF ListInv, Ordered, StepsOf
  <2>3. \A t \in DOMAIN o : t \in StepsOf(p)'
    BY <2>2 DEF StepsOf
  <2> HIDE DEF o
  <2> QED
    BY <2>1, <2>2, <2>3 DEF Ordered
<1> QED
  BY <1>5, <1>6, <1>11, <1>12 DEF ListInv

LEMMA DeletePlanStep ==
    ASSUME ListInv, NEW p \in Plans, DeletePlan(p)
    PROVE  ListInv'
<1>1. /\ plans[p] = "live" /\ Disturb(p)
      /\ \A s \in StepsOf(p) : ~Locked(s)
      /\ plans' = [plans EXCEPT ![p] = "gone"]
      /\ row' = [s \in Steps |-> IF s \in StepsOf(p) THEN Gone(row[s]) ELSE row[s]]
      /\ order' = [order EXCEPT ![p] = NoOrder]
      /\ tidy' = [tidy EXCEPT ![p] = FALSE]
  BY DEF DeletePlan
<1>2. /\ plans'[p] = "gone" /\ \A q \in Plans \ {p} : plans'[q] = plans[q]
      /\ plans' \in [Plans -> {"unborn", "live", "gone"}]
  BY <1>1 DEF ListInv, Shape
<1>3. ASSUME NEW s \in Steps
      PROVE  /\ row'[s] \in Row /\ row'[s].plan = row[s].plan
             /\ s \in StepsOf(p) => row'[s].state = "gone" /\ row[s].plan = p
             /\ s \notin StepsOf(p) => row'[s] = row[s]
  <2>1. row[s] \in Row
    BY DEF ListInv, Shape
  <2>2. s \in StepsOf(p) => row[s].plan = p
    BY DEF StepsOf
  <2> QED
    BY <1>1, <2>1, <2>2, GoneType
<1>4. Shape'
  <2>1. row' \in [Steps -> Row]
    BY <1>1, <1>3
  <2>2. req' \in [Admins -> Requests]
    BY <1>1, DisturbedType DEF Disturb
  <2>3. order' \in [Plans -> Orders] /\ tidy' \in [Plans -> BOOLEAN]
    BY <1>1, OrderType DEF ListInv, Shape
  <2> QED
    BY <1>2, <2>1, <2>2, <2>3 DEF Shape
<1>5. ASSUME NEW t \in Steps PROVE RowRight(t)'
  <2>1. CASE t \in StepsOf(p)
    BY <1>2, <1>3, <2>1 DEF RowRight
  <2>2. CASE t \notin StepsOf(p)
    <3>1. row'[t] = row[t] /\ RowRight(t)
      BY <1>3, <2>2 DEF ListInv
    <3>2. row[t].state = "live" => row[t].plan # p
      BY <2>2 DEF StepsOf
    <3> QED
      BY <1>2, <3>1, <3>2 DEF RowRight
  <2> QED
    BY <2>1, <2>2
<1>6. Grown
  BY <1>2, <1>3 DEF Grown
<1>7. \A t \in Steps : row'[t] # row[t] => row'[t].plan = p /\ row[t].plan = p
  BY <1>3
<1>8. \A b \in Admins : \A t \in req[b].held : row'[t] = row[t]
  BY <1>1, <1>3 DEF Locked, ListInv, Shape, Requests
<1>9. \A q \in Plans \ {p} : order'[q] = order[q]
  BY <1>1 DEF ListInv, Shape
<1>10. /\ \A b \in Admins : ReqRight(b)' /\ AloneRight(b)'
       /\ \A q \in Plans \ {p} : TidyRight(q)' /\ Ordered(q)'
       /\ TidyRight(p)'
  BY <1>1, <1>4, <1>6, <1>7, <1>8, <1>9, RowsGo
<1>11. Ordered(p)'
  <2>1. order'[p] = NoOrder
    BY <1>1 DEF ListInv, Shape
  <2> QED
    BY <2>1, OrderType DEF Ordered
<1> QED
  BY <1>4, <1>5, <1>10, <1>11 DEF ListInv

(* A clone serves no plan.                                                 *)
LEMMA ReadSourceStep ==
    ASSUME ListInv, NEW a \in Admins, NEW p \in Plans, ReadSource(a, p)
    PROVE  ListInv'
<1> DEFINE o == Preloaded(p)
           r == [Request("clone", p) EXCEPT !.read = o]
<1>1. "clone" \in PCs
  BY DEF PCs
<1>2. o \in Orders
  <2>1. \A s \in StepsOf(p) : row[s].seq \in Seqs
    BY StepsOfType DEF ListInv, Shape, Row
  <2>2. o \in [StepsOf(p) -> Seqs]
    BY <2>1 DEF Preloaded
  <2> QED
    BY <2>2, OrderType, StepsOfType
<1>3. plans[p] = "live" /\ req[a].pc = "idle" /\ UNCHANGED <<plans, row, order, tidy>>
  BY DEF ReadSource
<1>4. req' = [req EXCEPT ![a] = r]
  BY DEF ReadSource
<1> HIDE DEF o
<1>5. Request("clone", p) \in Requests
  BY <1>1, RequestType
<1>6. r \in Requests /\ r.plan = p /\ r.pc = "clone" /\ r.held = {}
  BY <1>2, <1>5 DEF Requests, Request
<1> HIDE DEF r
<1>7. req'[a] = r /\ \A b \in Admins \ {a} : req'[b] = req[b]
  BY <1>4 DEF ListInv, Shape
<1>8. Shape'
  BY <1>3, <1>4, <1>6 DEF ListInv, Shape
<1>9. \A s \in Steps : RowRight(s)'
  BY <1>3 DEF ListInv, RowRight
<1>10. \A b \in Admins : \A q : Serving(b, q)' <=> Serving(b, q)
  BY <1>3, <1>6, <1>7 DEF Serving
<1>11. ReqRight(a)' /\ AloneRight(a)'
  BY <1>3, <1>6, <1>7 DEF ReqRight, AloneRight
<1>12. ASSUME NEW b \in Admins \ {a} PROVE ReqRight(b)' /\ AloneRight(b)'
  <2>1. Grown /\ Kept(b)
    BY <1>3, <1>7 DEF Grown, Kept
  <2>2. \A s \in req[b].held : row'[s].state = "live"
    BY <1>3 DEF ListInv, ReqRight, StepsOf
  <2>3. ReqRight(b)'
    BY <1>8, <2>1, <2>2, ReqKept
  <2>4. /\ \A s \in Steps : row'[s] = row[s]
        /\ \A c \in Admins : Serving(c, req[b].plan)' => Serving(c, req[b].plan)
    BY <1>3, <1>7, <1>10 DEF Serving
  <2>5. AloneRight(b)'
    BY <1>8, <2>1, <2>4, AloneKept
  <2> QED
    BY <2>3, <2>5
<1>13. ASSUME NEW q \in Plans PROVE TidyRight(q)' /\ Ordered(q)'
  <2>1. StepsOf(q)' = StepsOf(q)
    BY <1>3 DEF StepsOf
  <2>2. \A b \in Admins : Serving(b, q)' => req'[b] = req[b]
    BY <1>6, <1>7 DEF Serving
  <2> QED
    BY <1>3, <1>10, <2>1, <2>2 DEF ListInv, TidyRight, Tidy, Ordered
<1> QED
  BY <1>8, <1>9, <1>11, <1>12, <1>13 DEF ListInv

-----------------------------------------------------------------------------
LEMMA ListInit == Init => ListInv
<1> SUFFICES ASSUME Init PROVE ListInv
  OBVIOUS
<1>1. Shape
  <2>1. Unborn \in Row
    BY StepCount DEF Unborn, Row
  <2> QED
    BY <2>1, IdleType, OrderType DEF Init, Shape
<1>2. \A s \in Steps : row[s] = Unborn
  BY DEF Init
<1>3. \A s \in Steps : RowRight(s)
  BY <1>2 DEF RowRight, Unborn
<1>4. \A a \in Admins : req[a].pc = "idle" /\ req[a].held = {}
  BY IdleType DEF Init
<1>5. \A a \in Admins : ReqRight(a) /\ AloneRight(a)
  BY <1>4 DEF ReqRight, AloneRight
<1>6. ASSUME NEW p \in Plans PROVE TidyRight(p) /\ Ordered(p)
  <2>1. StepsOf(p) = {}
    BY <1>2 DEF StepsOf, Unborn
  <2>2. Cardinality(StepsOf(p)) = 0
    BY <2>1, FS_EmptySet
  <2>3. {row[s].seq : s \in StepsOf(p)} = {}
    BY <2>1
  <2>4. Tidy(p)
    <3>1. 0..(0 - 1) = {}
      OBVIOUS
    <3> QED
      BY <2>2, <2>3, <3>1, Zenon DEF Tidy
  <2>5. order[p] = NoOrder
    BY DEF Init
  <2> QED
    BY <1>4, <2>4, <2>5, OrderType DEF TidyRight, Ordered, Serving
<1> QED
  BY <1>1, <1>3, <1>5, <1>6 DEF ListInv

LEMMA ListStep == ListInv /\ [Next]_vars => ListInv'
<1> SUFFICES ASSUME ListInv, [Next]_vars PROVE ListInv'
  OBVIOUS
<1>1. CASE UNCHANGED vars
  <2>1. UNCHANGED <<plans, row, req, order, tidy>>
    BY <1>1 DEF vars
  <2>2. /\ Shape' /\ \A s \in Steps : RowRight(s)'
        /\ \A p : StepsOf(p)' = StepsOf(p)
    BY <2>1 DEF ListInv, Shape, RowRight, StepsOf
  <2>3. \A a \in Admins : ReqRight(a)'
    BY <2>1 DEF ListInv, ReqRight, StepsOf, Unborns, Born
  <2>4. ASSUME NEW a \in Admins PROVE AloneRight(a)'
    <3>1. /\ Kept(a)
          /\ \A s \in Steps : row'[s] = row[s]
          /\ \A c \in Admins : Serving(c, req[a].plan)' => Serving(c, req[a].plan)
      BY <2>1 DEF Kept, Serving
    <3> QED
      BY <2>2, <3>1, AloneKept
  <2>5. \A p \in Plans : TidyRight(p)' /\ Ordered(p)'
    BY <2>1, <2>2 DEF ListInv, TidyRight, Tidy, Ordered, Serving
  <2> QED
    BY <2>2, <2>3, <2>4, <2>5 DEF ListInv
<1>2. ASSUME NEW p \in Plans, CreatePlan(p) \/ DeletePlan(p) PROVE ListInv'
  BY <1>2, CreatePlanStep, DeletePlanStep
<1>3. ASSUME NEW s \in Steps, DeleteStep(s) PROVE ListInv'
  BY <1>3, DeleteStepStep
<1>4. ASSUME NEW a \in Admins, NEW p \in Plans,
             CountSteps(a, p) \/ BeginReorder(a, p) \/ ReadPlan(a, p) \/ ReadSource(a, p)
      PROVE  ListInv'
  BY <1>4, CountStepsStep, BeginReorderStep, ReadPlanStep, ReadSourceStep
<1>5. ASSUME NEW a \in Admins, NEW s \in Steps, ReadStep(a, s) PROVE ListInv'
  BY <1>5, ReadStepStep
<1>6. ASSUME NEW a \in Admins,
             \/ InsertStep(a) \/ SaveStep(a)
             \/ UpdateSeq(a) \/ Commit(a) \/ Fail(a)
             \/ SavePlan(a) \/ CloneSteps(a)
      PROVE  ListInv'
  BY <1>6, InsertStepStep, SaveStepStep, UpdateSeqStep, CommitStep, FailStep,
     SavePlanStep, CloneStepsStep
<1> QED
  BY <1>1, <1>2, <1>3, <1>4, <1>5, <1>6 DEF Next

LEMMA ListHolds == Spec => []ListInv
  BY ListInit, ListStep, PTL DEF Spec

(* Type correctness of the steps table and of what requests hold: a live   *)
(* step belongs to a live plan, and no statement, whatever it had read     *)
(* before, leaves a seq outside 0..n-1.                                    *)
THEOREM TypeCorrect == Spec => []TypeOK
<1>1. ListInv => TypeOK
  <2> SUFFICES ASSUME ListInv PROVE TypeOK
    OBVIOUS
  <2>1. \A s \in Steps : row[s].state = "live" => plans[row[s].plan] = "live"
    BY DEF ListInv, RowRight
  <2>2. ASSUME NEW a \in Admins
        PROVE  /\ req[a].pc \in PCs
               /\ req[a].plan \in Plans \union {NoPlan}
               /\ req[a].step \in Steps \union {NoStep}
               /\ DOMAIN req[a].read \subseteq Steps
               /\ req[a].ids \in Seq(Steps)
               /\ req[a].held \subseteq Steps
               /\ req[a].alone \in BOOLEAN
    <3>1. req[a] \in Requests
      BY DEF ListInv, Shape
    <3> QED
      BY <3>1, OrderType DEF Requests
  <2>3. \A p \in Plans : DOMAIN order[p] \subseteq Steps
    BY OrderType DEF ListInv, Shape
  <2> QED
    BY <2>1, <2>2, <2>3 DEF TypeOK, ListInv, Shape
<1> QED
  BY <1>1, ListHolds, PTL

(* Reorders are atomic: the rows carry the places that the last reorder to *)
(* commit gave them, whatever other requests have done since, except those *)
(* that wrote back a row they had read before.                             *)
THEOREM ReorderIsAtomicHolds == Spec => []ReorderIsAtomic
<1>1. ListInv => ReorderIsAtomic
  BY DEF ListInv, Ordered, ReorderIsAtomic
<1> QED
  BY <1>1, ListHolds, PTL

(* A plan whose edits never overlapped has the seqs 0, 1, .. n-1 again as  *)
(* soon as its whole list has been reordered, and keeps them as long as no *)
(* step is deleted.                                                        *)
THEOREM TidySeqsHolds == Spec => []TidySeqs
<1>1. ListInv => TidySeqs
  BY DEF ListInv, TidyRight, Tidy, TidySeqs
<1> QED
  BY <1>1, ListHolds, PTL

=============================================================================
