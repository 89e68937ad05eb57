---------------------------- MODULE ScriptsProofs ----------------------------
(***************************************************************************)
(* Theorems about Scripts, for any scripts, finitely many plans and steps  *)
(* they may be bound to, and any number of requests at a time.             *)
(***************************************************************************)
EXTENDS Scripts, FiniteSetTheorems, TLAPS

Requests == [pc      : {"idle", "save", "countPlans", "countSteps", "drop"},
             script  : Scripts \union {NoScript},
             force   : BOOLEAN,
             counted : 0..Cardinality(PlanTargets),
             blind   : BOOLEAN]

(* A binding is a pair whose script is there: the foreign key.             *)
Tables ==
    /\ script \in [Scripts -> {"unborn", "live", "gone"}]
    /\ bound \subseteq Pairs
    /\ \A b \in bound : script[b[2]] = "live"

Served ==
    /\ req \in [Admins -> Requests]
    /\ late \in [Admins -> SUBSET Pairs]
    /\ \A a \in Admins : req[a].pc # "idle" => req[a].script \in Scripts

OfPlans(B) == {b \in B : b[1] \in PlanTargets}

(* What a delete knows: having counted no plan, that each plan bound now   *)
(* was bound since; having counted no step either, the same of everything. *)
Counted(a) ==
    LET r == req[a]
        B == BindingsOf(r.script)
    IN  /\ r.pc = "countSteps" /\ r.counted = 0 => OfPlans(B) \subseteq late[a]
        /\ r.pc = "drop" /\ ~r.force /\ ~r.blind => B \subseteq late[a]

DeleteInv == Tables /\ Served /\ \A a \in Admins : Counted(a)

LEMMA FiniteTargets ==
    /\ IsFiniteSet(PlanTargets) /\ IsFiniteSet(StepTargets)
    /\ Cardinality(PlanTargets) \in Nat
<1>1. PlanTargets \in SUBSET Targets /\ StepTargets \in SUBSET Targets
  BY DEF Targets
<1> QED
  BY <1>1, ScriptAssumption, FS_Subset, FS_CardinalityType

(* The bindings of one script to targets of one kind are finitely many,    *)
(* and none if they are counted as none.                                   *)
LEMMA BoundCount ==
  ASSUME NEW s, NEW T, IsFiniteSet(T)
  PROVE  LET n == Cardinality({t \in T : <<t, s>> \in bound})
         IN  /\ n \in 0..Cardinality(T)
             /\ n = 0 => \A t \in T : <<t, s>> \notin bound
<1> DEFINE S == {t \in T : <<t, s>> \in bound}
<1>1. S \in SUBSET T
  OBVIOUS
<1> HIDE DEF S
<1>2. IsFiniteSet(S) /\ Cardinality(S) <= Cardinality(T)
  BY <1>1, FS_Subset
<1>3. Cardinality(S) \in Nat /\ Cardinality(T) \in Nat
  BY <1>2, FS_CardinalityType
<1>4. Cardinality(S) = 0 => S = {}
  BY <1>2, FS_EmptySet
<1> QED
  BY <1>2, <1>3, <1>4 DEF S

LEMMA RequestType ==
  ASSUME NEW pc \in {"save", "countPlans"}, NEW s \in Scripts, NEW force \in BOOLEAN
  PROVE  Request(pc, s, force) \in Requests
  BY FiniteTargets DEF Request, Requests

LEMMA IdleType == Idle \in Requests /\ Idle.pc = "idle"
  BY FiniteTargets DEF Idle, Request, Requests

LEMMA DeleteInit == Init => DeleteInv
<1> SUFFICES ASSUME Init PROVE DeleteInv
  OBVIOUS
<1>1. Tables
  BY DEF Init, Tables
<1>2. Served
  BY IdleType DEF Init, Served
<1>3. \A a \in Admins : Counted(a)
  BY IdleType DEF Init, Counted
<1> QED
  BY <1>1, <1>2, <1>3 DEF DeleteInv

(* A request that goes on, while the tables change.  A binding that is new *)
(* is known to every request under way; no other binding comes.            *)
LEMMA CountedFrame ==
  ASSUME DeleteInv, NEW a \in Admins,
         req'[a] = req[a],
         \A b \in bound' : b \in bound \/ req[a].pc = "idle" \/ b \in late'[a],
         req[a].pc # "idle" => late[a] \subseteq late'[a]
  PROVE  Counted(a)'
<1>1. Counted(a)
  BY DEF DeleteInv
<1>2. ASSUME NEW b \in BindingsOf(req[a].script)', req[a].pc # "idle"
      PROVE  b \in BindingsOf(req[a].script) \/ b \in late'[a]
  BY <1>2 DEF BindingsOf
<1> QED
  BY <1>1, <1>2 DEF Counted, OfPlans

(* Requests that begin or end.                                             *)
LEMMA Turns ==
  ASSUME DeleteInv, NEW a \in Admins, NEW r \in Requests,
         r.pc \in {"idle", "save", "countPlans"},
         r.pc # "idle" => r.script \in Scripts,
         req' = [req EXCEPT ![a] = r], late' = [late EXCEPT ![a] = {}],
         bound' \subseteq bound
  PROVE  Served' /\ \A b \in Admins : Counted(b)'
<1>1. Served'
  BY DEF DeleteInv, Served
<1>2. Counted(a)'
  <2>1. req'[a] = r
    BY DEF DeleteInv, Served
  <2> QED
    BY <2>1 DEF Counted
<1>3. \A b \in Admins \ {a} : Counted(b)'
  <2> SUFFICES ASSUME NEW b \in Admins \ {a} PROVE Counted(b)'
    OBVIOUS
  <2>1. req'[b] = req[b] /\ late'[b] = late[b]
    BY DEF DeleteInv, Served
  <2> QED
    BY <2>1, CountedFrame
<1> QED
  BY <1>1, <1>2, <1>3

LEMMA DeleteStep == DeleteInv /\ [Next]_vars => DeleteInv'
<1> SUFFICES ASSUME DeleteInv, [Next]_vars PROVE DeleteInv'
  OBVIOUS
<1>0. Tables /\ Served /\ \A a \in Admins : Counted(a)
  BY DEF DeleteInv
<1>1. ASSUME UNCHANGED <<bound, req, late>>, Tables' PROVE DeleteInv'
  <2>1. \A a \in Admins : Counted(a)'
    BY <1>0, <1>1, CountedFrame
  <2> QED
    BY <1>0, <1>1, <2>1 DEF DeleteInv, Served
<1>2. ASSUME NEW s \in Scripts, Create(s) PROVE DeleteInv'
  <2>1. Tables'
    BY <1>0, <1>2 DEF Create, Tables
  <2> QED
    BY <1>1, <1>2, <2>1 DEF Create
<1>3. ASSUME NEW t \in Targets, NEW s \in Scripts, Bind(t, s) PROVE DeleteInv'
  <2>1. Tables'
    BY <1>0, <1>3 DEF Bind, Tables, Pairs
  <2>2. Served'
    BY <1>0, <1>3 DEF Bind, Served, Pairs
  <2>3. ASSUME NEW a \in Admins PROVE Counted(a)'
    BY <1>3, CountedFrame DEF Bind
  <2> QED
    BY <2>1, <2>2, <2>3 DEF DeleteInv
<1>4. ASSUME NEW t \in Targets, NEW s \in Scripts, Unbind(t, s) PROVE DeleteInv'
  <2>1. Tables' /\ Served'
    BY <1>0, <1>4 DEF Unbind, Tables, Served
  <2>2. ASSUME NEW a \in Admins PROVE Counted(a)'
    BY <1>4, CountedFrame DEF Unbind
  <2> QED
    BY <2>1, <2>2 DEF DeleteInv
<1>5. ASSUME NEW a \in Admins, NEW s \in Scripts, ReadScript(a, s) \/ BeginDelete(a, s)
      PROVE  DeleteInv'
  <2>1. Tables'
    BY <1>0, <1>5 DEF ReadScript, BeginDelete, Tables
  <2>2. PICK pc \in {"save", "countPlans"}, force \in BOOLEAN :
           Accept(a, Request(pc, s, force))
    BY <1>5 DEF ReadScript, BeginDelete
  <2>3. Request(pc, s, force).pc = pc /\ Request(pc, s, force).script = s
    BY DEF Request
  <2>4. Served' /\ \A b \in Admins : Counted(b)'
    BY <1>5, <2>2, <2>3, RequestType, Turns DEF Accept, ReadScript, BeginDelete
  <2> QED
    BY <2>1, <2>4 DEF DeleteInv
<1>6. ASSUME NEW a \in Admins, SaveScript(a) \/ Drop(a) PROVE DeleteInv'
  <2>1. req[a].script \in Scripts
    BY <1>0, <1>6 DEF SaveScript, Drop, Served
  <2>2. Tables'
    <3>1. CASE SaveScript(a)
      BY <1>0, <2>1, <3>1 DEF SaveScript, Tables
    <3>2. CASE Drop(a)
      <4>1. \A b \in bound' : b \in bound /\ b[2] # req[a].script
        BY <3>2 DEF Drop, BindingsOf
      <4>2. script' = [script EXCEPT ![req[a].script] = "gone"]
        BY <3>2 DEF Drop
      <4>3. \A b \in bound : b[2] \in Scripts
        BY <1>0 DEF Tables, Pairs
      <4> QED
        BY <1>0, <2>1, <4>1, <4>2, <4>3 DEF Tables
    <3> QED
      BY <1>6, <3>1, <3>2
  <2>3. Served' /\ \A b \in Admins : Counted(b)'
    BY <1>6, IdleType, Turns DEF SaveScript, Drop, Finish
  <2> QED
    BY <2>2, <2>3 DEF DeleteInv
<1>7. ASSUME NEW a \in Admins, NEW r \in Requests,
             r.script = req[a].script, req[a].pc # "idle",
             req' = [req EXCEPT ![a] = r],
             UNCHANGED <<script, bound, late>>, Counted(a)'
      PROVE  DeleteInv'
  <2>1. Tables' /\ Served'
    BY <1>0, <1>7 DEF Tables, Served
  <2>2. ASSUME NEW b \in Admins \ {a} PROVE Counted(b)'
    <3>1. req'[b] = req[b]
      BY <1>0, <1>7 DEF Served
    <3> QED
      BY <1>7, <3>1, CountedFrame
  <2> QED
    BY <1>7, <2>1, <2>2 DEF DeleteInv
<1>8. ASSUME NEW a \in Admins, CountPlans(a) PROVE DeleteInv'
  <2> DEFINE s == req[a].script
             n == Cardinality({t \in PlanTargets : <<t, s>> \in bound})
             r == [req[a] EXCEPT !.pc = "countSteps", !.counted = n]
  <2>1. n \in 0..Cardinality(PlanTargets) /\ (n = 0 => \A t \in PlanTargets : <<t, s>> \notin bound)
    BY BoundCount, FiniteTargets
  <2>2. req' = [req EXCEPT ![a] = r] /\ req[a].pc = "countPlans" /\ UNCHANGED <<script, bound, late>>
    BY <1>8 DEF CountPlans
  <2> HIDE DEF n
  <2>3. /\ r \in Requests /\ r.pc = "countSteps" /\ r.counted = n /\ r.script = req[a].script
        /\ req'[a] = r
    BY <1>0, <2>1, <2>2 DEF Served, Requests
  <2>4. n = 0 => OfPlans(BindingsOf(s)) = {}
    BY <1>0, <2>1 DEF OfPlans, BindingsOf, Tables, Pairs
  <2> HIDE DEF r
  <2>5. Counted(a)'
    BY <2>2, <2>3, <2>4 DEF Counted, OfPlans, BindingsOf
  <2> QED
    BY <1>7, <2>2, <2>3, <2>5
<1>9. ASSUME NEW a \in Admins, CountSteps(a) \/ CountFails(a) PROVE DeleteInv'
  <2>1. PICK n \in Nat, blind \in BOOLEAN :
          /\ Decide(a, n, blind) /\ UNCHANGED <<script, bound>>
          /\ req[a].pc \in {"countPlans", "countSteps"}
          /\ n = 0 /\ ~blind => BindingsOf(req[a].script) \subseteq late[a]
    <3>0. req[a].counted \in Nat
      BY <1>0, FiniteTargets DEF Served, Requests
    <3>1. CASE CountFails(a)
      BY <3>0, <3>1 DEF CountFails
    <3>2. CASE CountSteps(a)
      <4> DEFINE s == req[a].script
                 k == Cardinality({t \in StepTargets : <<t, s>> \in bound})
      <4>1. k \in 0..Cardinality(StepTargets) /\ (k = 0 => \A t \in StepTargets : <<t, s>> \notin bound)
        BY BoundCount, FiniteTargets
      <4>2. req[a].pc = "countSteps" /\ Decide(a, req[a].counted + k, FALSE) /\ UNCHANGED <<script, bound>>
        BY <3>2 DEF CountSteps
      <4> HIDE DEF k
      <4>3. k \in Nat /\ req[a].counted + k \in Nat
        BY <3>0, <4>1
      <4>4. ASSUME req[a].counted + k = 0 PROVE BindingsOf(s) \subseteq late[a]
        <5>1. req[a].counted = 0 /\ k = 0
          BY <3>0, <4>3, <4>4
        <5>2. OfPlans(BindingsOf(s)) \subseteq late[a]
          BY <1>0, <4>2, <5>1 DEF Counted
        <5>3. \A b \in BindingsOf(s) : b[1] \in PlanTargets
          BY <1>0, <4>1, <5>1 DEF BindingsOf, Tables, Pairs, Targets
        <5> QED
          BY <5>2, <5>3 DEF OfPlans
      <4> QED
        BY <4>2, <4>3, <4>4
    <3> QED
      BY <1>9, <3>1, <3>2
  <2>2. CASE Finish(a)
    <3>1. Tables'
      BY <1>0, <2>1 DEF Tables
    <3>2. Served' /\ \A b \in Admins : Counted(b)'
      BY <2>1, <2>2, IdleType, Turns DEF Finish
    <3> QED
      BY <3>1, <3>2 DEF DeleteInv
  <2>3. CASE /\ n = 0 \/ req[a].force
             /\ req' = [req EXCEPT ![a] = [@ EXCEPT !.pc = "drop", !.blind = blind]]
             /\ UNCHANGED late
    <3> DEFINE r == [req[a] EXCEPT !.pc = "drop", !.blind = blind]
    <3>1. /\ r \in Requests /\ r.pc = "drop" /\ r.blind = blind
          /\ r.script = req[a].script /\ r.force = req[a].force
          /\ req' = [req EXCEPT ![a] = r] /\ req'[a] = r
      BY <1>0, <2>3 DEF Served, Requests
    <3> HIDE DEF r
    <3>2. Counted(a)'
      BY <2>1, <2>3, <3>1 DEF Counted, BindingsOf
    <3> QED
      BY <1>7, <2>1, <2>3, <3>1, <3>2
  <2> QED
    BY <2>1, <2>2, <2>3 DEF Decide
<1>10. CASE UNCHANGED vars
  <2>1. Tables'
    BY <1>0, <1>10 DEF vars, Tables
  <2> QED
    BY <1>1, <1>10, <2>1 DEF vars
<1> QED
  BY <1>2, <1>3, <1>4, <1>5, <1>6, <1>8, <1>9, <1>10 DEF Next

LEMMA DeleteInvHolds == Spec => []DeleteInv
  BY DeleteInit, DeleteStep, PTL DEF Spec

(* Every variable of Scripts stays in its type, and no binding outlives    *)
(* its script, though requests save and delete scripts others bind.        *)
THEOREM TypeCorrect == Spec => []TypeOK
<1>1. DeleteInv => TypeOK
  BY DEF DeleteInv, Tables, Served, Requests, TypeOK
<1> QED
  BY <1>1, DeleteInvHolds, PTL

(* ScriptHandler.Delete without force takes no binding with it but those   *)
(* made since it began, or after a count that was an error: the two counts *)
(* see no common moment, and yet no binding slips between them.            *)
THEOREM SparesWhatItCountedHolds == Spec => []SparesWhatItCounted
<1>1. DeleteInv => SparesWhatItCounted
  BY DEF DeleteInv, Counted, SparesWhatItCounted
<1> QED
  BY <1>1, DeleteInvHolds, PTL
=============================================================================
