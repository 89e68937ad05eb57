---------------------------- MODULE LogsProofs ----------------------------
(***************************************************************************)
(* Theorems about Logs, for any plans, ids, page size, retention and       *)
(* filters.                                                                *)
(***************************************************************************)
EXTENDS Logs, FiniteSetTheorems, TLAPS

(* Two rows of the table are the same or differ in their id.               *)
Distinct(S) == \A r, q \in S : r.id = q.id => r = q

(* The rows that matched at the start of the walk are in the table or old: *)
(* no row that is built later is one of them.                              *)
FirstKept ==
    \A r \in walk.first :
        /\ r \in Row /\ Matches(r, walk.filter) /\ r \notin pending
        /\ r \in rows \/ r.at < clock

(* The pages shown so far are in the order of time.                        *)
PagesOrdered ==
    \A i, j \in DOMAIN walk.pages :
        i < j => \A r \in walk.pages[i], q \in walk.pages[j] : Before(r, q)

(* Between two pages: no shown row comes after the cursor, and what is     *)
(* still to be shown does.                                                 *)
CursorSplits(c) ==
    /\ \A r \in Shown : r = c \/ Before(r, c)
    /\ \A r \in walk.first \intersect rows : r \in Shown \/ After(r, c)

WalkInv ==
    /\ walk.pages \in Seq(SUBSET Row)
    /\ FirstKept /\ PagesOrdered
    /\ walk.pc = "more" => \E c \in Row : walk.cursor = {c} /\ CursorSplits(c)
    /\ walk.pc = "end" => (walk.first \intersect rows) \subseteq Shown

(* No row is from the future.                                              *)
Past == \A r \in rows \union pending : r.at <= clock

IInv == TypeOK /\ IsFiniteSet(rows) /\ Past /\ WalkInv

-----------------------------------------------------------------------------
(* ORDER BY created_at DESC, id DESC is a strict order, total on rows with *)
(* different ids.                                                          *)
LEMMA BeforeOrder ==
    ASSUME NEW r \in Row, NEW q \in Row
    PROVE  /\ ~Before(r, r)
           /\ Before(r, q) => ~Before(q, r)
           /\ r.id # q.id => Before(r, q) \/ Before(q, r)
           /\ \A x \in Row : Before(r, q) /\ Before(q, x) => Before(r, x)
<1>1. \A x \in Row : x.id \in Nat /\ x.at \in Nat
  <2> TAKE x \in Row
  <2>1. IDs \subseteq Nat /\ MaxTime \in Nat
    BY LogAssumption DEF LogAssumption
  <2>2. x.id \in IDs /\ x.at \in 0..MaxTime
    BY DEF Row
  <2>3. x.at \in Nat
    BY <2>1, <2>2
  <2> QED
    BY <2>1, <2>2, <2>3
<1> QED
  BY <1>1 DEF Before

(* A row has fewer rows before it than there are rows.                     *)
LEMMA RankBounded ==
    ASSUME NEW S \in SUBSET Row, IsFiniteSet(S), NEW r \in S
    PROVE  /\ Cardinality(S) \in Nat
           /\ Rank(r, S) \in 0..(Cardinality(S) - 1)
<1> DEFINE A == {q \in S : Before(q, r)}
<1>1. Cardinality(S) \in Nat
  BY FS_CardinalityType
<1>2. r \in Row /\ A \subseteq S \ {r}
  BY BeforeOrder
<1> HIDE DEF A
<1>3. IsFiniteSet(S \ {r}) /\ Cardinality(S \ {r}) = Cardinality(S) - 1
  BY FS_RemoveElement
<1>4. IsFiniteSet(A) /\ Cardinality(A) <= Cardinality(S) - 1
  BY <1>2, <1>3, FS_Subset
<1>5. Cardinality(A) \in Nat
  BY <1>4, FS_CardinalityType
<1>6. Rank(r, S) = Cardinality(A)
  BY DEF Rank, A
<1> QED
  BY <1>1, <1>4, <1>5, <1>6

LEMMA RankGrows ==
    ASSUME NEW S \in SUBSET Row, IsFiniteSet(S), NEW r \in S, NEW q \in S, Before(r, q)
    PROVE  Rank(r, S) < Rank(q, S)
<1> DEFINE A == {x \in S : Before(x, r)}
           B == {x \in S : Before(x, q)}
<1>1. A \subseteq B \ {r} /\ r \in B
  BY BeforeOrder
<1>2. B \in SUBSET S
  OBVIOUS
<1>3. Rank(r, S) = Cardinality(A) /\ Rank(q, S) = Cardinality(B)
  BY DEF Rank
<1> HIDE DEF A, B
<1>4. IsFiniteSet(B)
  BY <1>2, FS_Subset
<1>5. IsFiniteSet(B \ {r}) /\ Cardinality(B \ {r}) = Cardinality(B) - 1
  BY <1>1, <1>4, FS_RemoveElement
<1>6. IsFiniteSet(A) /\ Cardinality(A) <= Cardinality(B) - 1
  BY <1>1, <1>5, FS_Subset
<1>7. Cardinality(A) \in Nat /\ Cardinality(B) \in Nat
  BY <1>4, <1>6, FS_CardinalityType
<1> QED
  BY <1>3, <1>6, <1>7

(* Rows with different ids have every rank there is: a rank is used once,  *)
(* and there are as many ranks as rows.                                    *)
LEMMA RankHit ==
    ASSUME NEW S \in SUBSET Row, IsFiniteSet(S), Distinct(S),
           NEW n \in 0..(Cardinality(S) - 1)
    PROVE  \E r \in S : Rank(r, S) = n
<1> DEFINE T == 0..(Cardinality(S) - 1)
           f == [r \in S |-> Rank(r, S)]
<1>1. Cardinality(S) \in Nat
  BY FS_CardinalityType
<1>2. IsFiniteSet(T) /\ Cardinality(T) = Cardinality(S)
  <2> DEFINE m == Cardinality(S) - 1
  <2>1. m \in Int /\ 0 \in Int
    BY <1>1
  <2> HIDE DEF m
  <2>2. /\ IsFiniteSet(0..m)
        /\ Cardinality(0..m) = IF 0 > m THEN 0 ELSE m - 0 + 1
    BY <2>1, FS_Interval
  <2> QED
    BY <1>1, <2>2 DEF m
<1>3. f \in [S -> T]
  BY RankBounded
<1>4. \A r, q \in S : f[r] = f[q] => r = q
  <2> SUFFICES ASSUME NEW r \in S, NEW q \in S, r # q PROVE Rank(r, S) # Rank(q, S)
    OBVIOUS
  <2>1. Before(r, q) \/ Before(q, r)
    BY BeforeOrder DEF Distinct
  <2>2. Rank(r, S) \in Int /\ Rank(q, S) \in Int
    BY <1>1, RankBounded
  <2> QED
    BY <2>1, <2>2, RankGrows
<1> HIDE DEF f, T
<1>5. f \in Injection(S, T)
  BY <1>3, <1>4 DEF Injection, IsInjective
<1>6. f \in Surjection(S, T)
  BY <1>2, <1>5, FS_Injection
<1>7. PICK r \in S : f[r] = n
  BY <1>6 DEF Surjection, T
<1> QED
  BY <1>7 DEF f

(* A page of rows and its cursor.                                          *)
LEMMA LastPage ==
    ASSUME NEW S \in SUBSET Row, IsFiniteSet(S), Cardinality(S) <= Limit
    PROVE  Cursor(S) = {} /\ Page(S) = S
<1>1. Cardinality(S) \in Nat /\ Limit \in Nat
  BY FS_CardinalityType, LogAssumption DEF LogAssumption
<1>2. ASSUME NEW r \in S PROVE Rank(r, S) < Limit
  BY <1>1, RankBounded
<1> QED
  BY <1>1, <1>2 DEF Cursor, Page

LEMMA FullPage ==
    ASSUME NEW S \in SUBSET Row, IsFiniteSet(S), Distinct(S), Cardinality(S) > Limit
    PROVE  \E c \in S :
              /\ Cursor(S) = {c} /\ c \in Page(S)
              /\ \A r \in Page(S) : r = c \/ Before(r, c)
              /\ \A r \in S : r \in Page(S) \/ After(r, c)
<1>1. Cardinality(S) \in Nat /\ Limit \in Nat /\ Limit > 0
  BY FS_CardinalityType, LogAssumption DEF LogAssumption
<1>2. Limit - 1 \in 0..(Cardinality(S) - 1)
  BY <1>1
<1>3. PICK c \in S : Rank(c, S) = Limit - 1
  BY <1>2, RankHit
<1>4. \A r \in S : r # c => Before(r, c) \/ Before(c, r)
  BY BeforeOrder DEF Distinct
<1>5. \A r \in S : Rank(r, S) \in Int
  BY <1>1, RankBounded
<1>6. \A r \in S : Before(r, c) => Rank(r, S) < Limit - 1
  BY <1>3, RankGrows
<1>7. \A r \in S : Before(c, r) => Rank(r, S) > Limit - 1
  BY <1>3, <1>5, RankGrows
<1>8. Cursor(S) = {c}
  <2>1. Cursor(S) = {r \in S : Rank(r, S) = Limit - 1}
    BY DEF Cursor
  <2>2. \A r \in S : Rank(r, S) = Limit - 1 => r = c
    BY <1>1, <1>4, <1>5, <1>6, <1>7
  <2> QED
    BY <1>3, <2>1, <2>2
<1>9. c \in Page(S)
  BY <1>1, <1>3 DEF Page
<1>10. \A r \in Page(S) : r = c \/ Before(r, c)
  BY <1>1, <1>4, <1>5, <1>7 DEF Page
<1>11. \A r \in S : r \in Page(S) \/ After(r, c)
  BY <1>1, <1>3, <1>4, <1>5, <1>6 DEF Page, After
<1> QED
  BY <1>8, <1>9, <1>10, <1>11

-----------------------------------------------------------------------------
(* A page is added to pages that all come before what is left, and what    *)
(* has not been shown of the first rows is left.                           *)
LEMMA FetchKeeps ==
    ASSUME IInv, UNCHANGED <<clock, rows, pending>>,
           NEW f, NEW cursor, NEW pages \in Seq(SUBSET Row), NEW first \in SUBSET Row,
           Fetch(f, cursor, pages, first),
           \A i, j \in DOMAIN pages :
              i < j => \A r \in pages[i], q \in pages[j] : Before(r, q),
           \A i \in DOMAIN pages : \A r \in pages[i], q \in Rest(f, cursor) : Before(r, q),
           \A r \in first : /\ Matches(r, f) /\ r \notin pending
                            /\ r \in rows \/ r.at < clock,
           \A r \in first \intersect rows :
              (\E i \in DOMAIN pages : r \in pages[i]) \/ r \in Rest(f, cursor)
    PROVE  IInv'
<1> DEFINE rest == Rest(f, cursor)
           page == Page(rest)
           ps   == Append(pages, page)
           n    == Len(pages) + 1
<1>1. /\ rest \in SUBSET rows /\ rest \in SUBSET Row /\ IsFiniteSet(rest) /\ Distinct(rest)
      /\ page \in SUBSET rest
  <2>1. rest \in SUBSET rows /\ rows \subseteq Row /\ IsFiniteSet(rows)
    BY DEF Rest, IInv, TypeOK
  <2>2. IsFiniteSet(rest)
    BY <2>1, FS_Subset
  <2>3. Distinct(rest)
    BY <2>1 DEF IInv, TypeOK, Distinct
  <2> QED
    BY <2>1, <2>2, <2>3 DEF Page
<1>2. /\ walk'.pages = ps /\ walk'.filter = f /\ walk'.first = first
      /\ walk'.cursor = Cursor(rest)
      /\ walk'.pc = IF Cursor(rest) = {} THEN "end" ELSE "more"
  BY DEF Fetch
<1>3. rows' = rows /\ pending' = pending /\ clock' = clock
  OBVIOUS
<1>4. \A i \in DOMAIN pages : \A r \in pages[i], q \in rest : Before(r, q)
  OBVIOUS
<1>5. \A r \in first \intersect rows : (\E i \in DOMAIN pages : r \in pages[i]) \/ r \in rest
  OBVIOUS
<1> HIDE DEF rest, page
<1>6. /\ ps \in Seq(SUBSET Row) /\ DOMAIN ps = 1..n /\ DOMAIN pages = 1..(n - 1)
      /\ n \in 1..n /\ ps[n] = page /\ \A i \in DOMAIN pages : ps[i] = pages[i]
  <2>1. page \in SUBSET Row
    BY <1>1
  <2> QED
    BY <2>1
<1> HIDE DEF ps, n
<1>7. /\ \A r : r \in Shown' <=> r \in page \/ \E i \in DOMAIN pages : r \in pages[i]
      /\ Shown' \subseteq Row
  <2>1. \A r : r \in Shown' <=> \E i \in 1..n : r \in ps[i]
    BY <1>2, <1>6 DEF Shown
  <2>2. \A i \in 1..n : i = n \/ i \in DOMAIN pages
    BY <1>6
  <2>3. \A i \in DOMAIN pages : i \in 1..n
    BY <1>6
  <2>4. n \in 1..n
    BY <1>6
  <2>5. \A r : r \in Shown' <=> r \in page \/ \E i \in DOMAIN pages : r \in pages[i]
    BY <1>6, <2>1, <2>2, <2>3, <2>4
  <2>6. \A i \in 1..n : ps[i] \subseteq Row
    BY <1>6
  <2> QED
    BY <2>1, <2>5, <2>6
<1>8. PagesOrdered'
  <2> SUFFICES ASSUME NEW i \in 1..n, NEW j \in 1..n, i < j, NEW r \in ps[i], NEW q \in ps[j]
               PROVE  Before(r, q)
    BY <1>2, <1>6 DEF PagesOrdered, Before
  <2>1. i \in DOMAIN pages /\ r \in pages[i]
    BY <1>6
  <2>2. CASE j = n
    BY <1>1, <1>4, <1>6, <2>1, <2>2
  <2>3. CASE j # n
    BY <1>6, <2>1, <2>3
  <2> QED
    BY <2>2, <2>3
<1>9. FirstKept'
  BY <1>2, <1>3 DEF FirstKept, Matches
<1>10. CASE Cardinality(rest) <= Limit
  <2>1. Cursor(rest) = {} /\ page = rest
    BY <1>1, <1>10, LastPage DEF page
  <2>2. (walk.first \intersect rows)' \subseteq Shown'
    BY <1>2, <1>3, <1>5, <1>7, <2>1
  <2>3. walk'.pc = "end" /\ walk'.cursor \subseteq Row
    BY <1>2, <2>1
  <2>4. TypeOK'
    BY <1>2, <1>3, <1>6, <2>3 DEF TypeOK, IInv
  <2>5. WalkInv'
    BY <1>2, <1>6, <1>8, <1>9, <2>2, <2>3 DEF WalkInv
  <2> QED
    BY <1>3, <2>4, <2>5 DEF IInv, Past
<1>11. CASE ~(Cardinality(rest) <= Limit)
  <2>1. Cardinality(rest) > Limit
    BY <1>1, <1>11, FS_CardinalityType, LogAssumption DEF LogAssumption
  <2>2. PICK c \in rest :
            /\ Cursor(rest) = {c} /\ c \in page
            /\ \A r \in page : r = c \/ Before(r, c)
            /\ \A r \in rest : r \in page \/ After(r, c)
    BY <1>1, <2>1, FullPage DEF page
  <2>3. c \in Row /\ walk'.cursor = {c} /\ walk'.pc = "more"
    BY <1>1, <1>2, <2>2
  <2>4. \A r \in Shown' : r = c \/ Before(r, c)
    BY <1>4, <1>7, <2>2
  <2>5. \A r \in first \intersect rows : r \in Shown' \/ After(r, c)
    BY <1>5, <1>7, <2>2
  <2>6. CursorSplits(c)'
    BY <1>2, <1>3, <2>4, <2>5 DEF CursorSplits, Before, After
  <2>7. TypeOK'
    BY <1>2, <1>3, <1>6, <2>3 DEF TypeOK, IInv
  <2>8. WalkInv'
    BY <1>2, <1>6, <1>8, <1>9, <2>3, <2>6 DEF WalkInv
  <2> QED
    BY <1>3, <2>7, <2>8 DEF IInv, Past
<1> QED
  BY <1>10, <1>11

-----------------------------------------------------------------------------
(* A walk that has not begun.                                              *)
LEMMA NoWalkHolds ==
    ASSUME walk' = NoWalk
    PROVE  WalkInv' /\ walk'.pc = "idle" /\ walk'.cursor = {} /\ walk'.first = {}
           /\ \A i \in DOMAIN walk'.pages : walk'.pages[i] \subseteq Row
<1>1. /\ walk'.pc = "idle" /\ walk'.cursor = {} /\ walk'.first = {}
      /\ walk'.pages = <<>> /\ <<>> \in Seq(SUBSET Row) /\ DOMAIN <<>> = {}
  BY DEF NoWalk
<1> QED
  BY <1>1 DEF WalkInv, FirstKept, PagesOrdered

LEMMA InitHolds == Init => IInv
<1> SUFFICES ASSUME Init PROVE IInv
  OBVIOUS
<1>1. /\ clock = 0 /\ rows = {} /\ pending = {} /\ walk.pc = "idle" /\ walk.cursor = {}
      /\ walk.first = {} /\ walk.pages = <<>>
  BY DEF Init, NoWalk
<1>2. <<>> \in Seq(SUBSET Row) /\ DOMAIN <<>> = {} /\ clock \in 0..MaxTime
  BY <1>1, LogAssumption DEF LogAssumption
<1>3. TypeOK
  BY <1>1, <1>2 DEF TypeOK
<1>4. WalkInv
  BY <1>1, <1>2 DEF WalkInv, FirstKept, PagesOrdered
<1> QED
  BY <1>1, <1>3, <1>4, FS_EmptySet DEF IInv, Past

(* The walk bears with what happens to the table, as long as no row comes  *)
(* back that had matched at its start.                                     *)
LEMMA TableKeeps ==
    ASSUME WalkInv, walk' = walk,
           \A r \in walk.first : /\ r \notin pending'
                                 /\ r \in rows' \/ r.at < clock',
           \A r \in walk.first : r \in rows' => r \in rows
    PROVE  WalkInv'
<1>1. Shown' = Shown
  BY DEF Shown
<1>2. FirstKept'
  BY DEF WalkInv, FirstKept, Matches
<1>3. PagesOrdered'
  BY DEF WalkInv, PagesOrdered, Before
<1>4. \A c : CursorSplits(c) => CursorSplits(c)'
  BY <1>1 DEF CursorSplits, Before, After
<1> QED
  BY <1>1, <1>2, <1>3, <1>4 DEF WalkInv

LEMMA RowTypes ==
    ASSUME TypeOK
    PROVE  /\ clock \in Nat /\ \A r \in Row : r.at \in Nat
           /\ Retention \in Nat
<1>1. MaxTime \in Nat /\ Retention \in Nat
  BY LogAssumption DEF LogAssumption
<1>2. \A r \in Row : r.at \in 0..MaxTime
  BY DEF Row
<1>3. clock \in 0..MaxTime
  BY DEF TypeOK
<1>4. \A t \in 0..MaxTime : t \in Nat
  BY <1>1
<1> QED
  BY <1>1, <1>2, <1>3, <1>4

LEMMA TickKeeps == IInv /\ Tick => IInv'
<1> SUFFICES ASSUME IInv, Tick PROVE IInv'
  OBVIOUS
<1>1. /\ clock' = clock + 1 /\ rows' = rows /\ pending' = pending /\ walk' = walk
      /\ clock < MaxTime
  BY DEF Tick
<1>2. clock \in Nat /\ \A r \in Row : r.at \in Nat
  BY RowTypes DEF IInv
<1>3. clock' \in 0..MaxTime
  BY <1>1, <1>2, LogAssumption DEF LogAssumption
<1>4. TypeOK'
  BY <1>1, <1>3 DEF IInv, TypeOK
<1>5. \A r \in walk.first : r \notin pending' /\ (r \in rows' \/ r.at < clock')
  BY <1>1, <1>2 DEF IInv, WalkInv, FirstKept
<1>6. WalkInv'
  BY <1>1, <1>5, TableKeeps DEF IInv
<1>7. Past'
  BY <1>1, <1>2 DEF IInv, Past, TypeOK
<1> QED
  BY <1>1, <1>4, <1>6, <1>7 DEF IInv

(* A new row bears the time of the clock; a row that was deleted is older. *)
LEMMA BuildKeeps ==
    ASSUME IInv, NEW p \in Plans, NEW st \in Statuses, Build(p, st)
    PROVE  IInv'
<1>1. PICK i \in IDs \ UsedIDs :
          pending' = pending \union {[id |-> i, plan |-> p, status |-> st, at |-> clock]}
  BY DEF Build
<1> DEFINE n == [id |-> i, plan |-> p, status |-> st, at |-> clock]
<1>2. /\ n \in Row /\ n.id = i /\ n.at = clock
      /\ \A r \in rows \union pending : r.id # i
  BY DEF IInv, TypeOK, Row, UsedIDs
<1>3. pending' = pending \union {n}
  BY <1>1
<1> HIDE DEF n
<1>4. clock' = clock /\ rows' = rows /\ walk' = walk
  BY DEF Build
<1>5. n \notin rows /\ n \notin pending
  BY <1>2
<1>6. TypeOK'
  <2>1. \A r, q \in (rows \union pending)' : r.id = q.id => r = q
    BY <1>2, <1>3, <1>4 DEF IInv, TypeOK
  <2> QED
    BY <1>2, <1>3, <1>4, <1>5, <2>1 DEF IInv, TypeOK
<1>7. n \notin walk.first
  <2>1. ~(n.at < clock)
    BY <1>2, RowTypes DEF IInv
  <2> QED
    BY <1>5, <2>1 DEF IInv, WalkInv, FirstKept
<1>8. \A r \in walk.first : r \notin pending' /\ (r \in rows' \/ r.at < clock')
  BY <1>3, <1>4, <1>7 DEF IInv, WalkInv, FirstKept
<1>9. WalkInv'
  BY <1>4, <1>8, TableKeeps DEF IInv
<1>10. Past'
  BY <1>2, <1>3, <1>4, RowTypes DEF IInv, Past
<1> QED
  BY <1>4, <1>6, <1>9, <1>10 DEF IInv

LEMMA InsertKeeps ==
    ASSUME IInv, NEW r \in pending, Insert(r) \/ InsertFails(r)
    PROVE  IInv'
<1>1. /\ pending' = pending \ {r} /\ rows' \in {rows, rows \union {r}}
      /\ clock' = clock /\ walk' = walk
  BY DEF Insert, InsertFails
<1>2. IsFiniteSet(rows')
  BY <1>1, FS_AddElement DEF IInv
<1>3. TypeOK'
  BY <1>1 DEF IInv, TypeOK
<1>4. \A q \in walk.first : /\ q \notin pending' /\ (q \in rows' \/ q.at < clock')
                            /\ q \in rows' => q \in rows
  BY <1>1 DEF IInv, WalkInv, FirstKept
<1>5. WalkInv'
  BY <1>1, <1>4, TableKeeps DEF IInv
<1>6. Past'
  BY <1>1 DEF IInv, Past
<1> QED
  BY <1>2, <1>3, <1>5, <1>6 DEF IInv

LEMMA CleanupKeeps == IInv /\ Cleanup => IInv'
<1> SUFFICES ASSUME IInv, Cleanup PROVE IInv'
  OBVIOUS
<1>1. /\ rows' = {r \in rows : r.at >= clock - Retention}
      /\ clock' = clock /\ pending' = pending /\ walk' = walk
  BY DEF Cleanup
<1>2. rows' \in SUBSET rows /\ IsFiniteSet(rows')
  BY <1>1, FS_Subset DEF IInv
<1>3. TypeOK'
  BY <1>1, <1>2 DEF IInv, TypeOK
<1>4. \A r \in rows \ rows' : r.at < clock
  BY <1>1, RowTypes DEF IInv, TypeOK
<1>5. \A r \in walk.first : r \notin pending' /\ (r \in rows' \/ r.at < clock')
  BY <1>1, <1>4 DEF IInv, WalkInv, FirstKept
<1>6. WalkInv'
  BY <1>1, <1>2, <1>5, TableKeeps DEF IInv
<1>7. Past'
  BY <1>1, <1>2 DEF IInv, Past
<1> QED
  BY <1>2, <1>3, <1>6, <1>7 DEF IInv

LEMMA FirstPageKeeps ==
    ASSUME IInv, NEW f \in Filters, FirstPage(f)
    PROVE  IInv'
<1> DEFINE rest == Rest(f, {})
<1>1. Fetch(f, {}, <<>>, rest) /\ UNCHANGED <<clock, rows, pending>>
  BY DEF FirstPage
<1>2. rest \subseteq rows /\ \A r \in rest : Matches(r, f)
  BY DEF Rest
<1>3. rest \in SUBSET Row /\ \A r \in rest : r \notin pending
  BY <1>2 DEF IInv, TypeOK
<1>4. <<>> \in Seq(SUBSET Row) /\ DOMAIN <<>> = {}
  OBVIOUS
<1> HIDE DEF rest
<1>5. \A r \in rest : /\ Matches(r, f) /\ r \notin pending
                      /\ r \in rows \/ r.at < clock
  BY <1>2, <1>3
<1>6. \A r \in rest \intersect rows :
         (\E i \in DOMAIN <<>> : r \in <<>>[i]) \/ r \in Rest(f, {})
  BY DEF rest
<1> QED
  BY <1>1, <1>3, <1>4, <1>5, <1>6, FetchKeeps

LEMMA NextPageKeeps == IInv /\ NextPage => IInv'
<1> SUFFICES ASSUME IInv, NextPage PROVE IInv'
  OBVIOUS
<1> DEFINE f == walk.filter
           pages == walk.pages
           first == walk.first
<1>1. /\ Fetch(f, walk.cursor, pages, first) /\ UNCHANGED <<clock, rows, pending>>
      /\ walk.pc = "more"
  BY DEF NextPage
<1>2. PICK c \in Row : walk.cursor = {c} /\ CursorSplits(c)
  BY <1>1 DEF IInv, WalkInv
<1>3. \A r \in Rest(f, walk.cursor) : r \in Row /\ Before(c, r)
  BY <1>2 DEF Rest, IInv, TypeOK, After
<1>4. pages \in Seq(SUBSET Row) /\ first \in SUBSET Row
  BY DEF IInv, WalkInv, TypeOK
<1>5. ASSUME NEW i \in DOMAIN pages, NEW r \in pages[i], NEW q \in Rest(f, walk.cursor)
      PROVE  Before(r, q)
  <2>1. r \in Row /\ r \in Shown
    BY <1>4 DEF Shown
  <2>2. r = c \/ Before(r, c)
    BY <1>2, <2>1 DEF CursorSplits
  <2> QED
    BY <1>3, <2>1, <2>2, BeforeOrder
<1>6. \A r \in first : /\ Matches(r, f) /\ r \notin pending
                       /\ r \in rows \/ r.at < clock
  BY DEF IInv, WalkInv, FirstKept
<1>7. \A r \in first \intersect rows :
         (\E i \in DOMAIN pages : r \in pages[i]) \/ r \in Rest(f, walk.cursor)
  <2> SUFFICES ASSUME NEW r \in first \intersect rows, r \notin Shown
               PROVE  r \in Rest(f, walk.cursor)
    BY DEF Shown
  <2>1. After(r, c)
    BY <1>2 DEF CursorSplits
  <2> QED
    BY <1>2, <1>6, <2>1 DEF Rest
<1>8. \A i, j \in DOMAIN pages :
         i < j => \A r \in pages[i], q \in pages[j] : Before(r, q)
  BY DEF IInv, WalkInv, PagesOrdered
<1> HIDE DEF f, pages, first
<1> QED
  BY <1>1, <1>4, <1>5, <1>6, <1>7, <1>8, FetchKeeps

LEMMA LeaveKeeps == IInv /\ Leave => IInv'
<1> SUFFICES ASSUME IInv, Leave PROVE IInv'
  OBVIOUS
<1>1. walk' = NoWalk /\ clock' = clock /\ rows' = rows /\ pending' = pending
  BY DEF Leave
<1>2. TypeOK'
  BY <1>1, NoWalkHolds DEF IInv, TypeOK
<1> QED
  BY <1>1, <1>2, NoWalkHolds DEF IInv, Past

LEMMA NextKeeps == IInv /\ [Next]_vars => IInv'
<1> SUFFICES ASSUME IInv, [Next]_vars PROVE IInv'
  OBVIOUS
<1>1. ASSUME NEW p \in Plans, NEW st \in Statuses, Build(p, st) PROVE IInv'
  BY <1>1, BuildKeeps
<1>2. ASSUME NEW r \in pending, Insert(r) \/ InsertFails(r) PROVE IInv'
  BY <1>2, InsertKeeps
<1>3. ASSUME NEW f \in Filters, FirstPage(f) PROVE IInv'
  BY <1>3, FirstPageKeeps
<1>4. CASE UNCHANGED vars
  <2>1. TypeOK' /\ IsFiniteSet(rows')
    BY <1>4 DEF vars, IInv, TypeOK
  <2>2. WalkInv'
    BY <1>4, TableKeeps DEF vars, IInv, WalkInv, FirstKept
  <2>3. Past'
    BY <1>4 DEF vars, IInv, Past
  <2> QED
    BY <2>1, <2>2, <2>3 DEF IInv
<1> QED
  BY <1>1, <1>2, <1>3, <1>4, TickKeeps, CleanupKeeps, NextPageKeeps, LeaveKeeps DEF Next

LEMMA IInvHolds == Spec => []IInv
BY InitHolds, NextKeeps, PTL DEF Spec

-----------------------------------------------------------------------------
(* The state has its types, and no id is used twice at a time.             *)
THEOREM TypeCorrect == Spec => []TypeOK
<1>1. IInv => TypeOK
  BY DEF IInv
<1> QED
  BY <1>1, IInvHolds, PTL

(* ListByPlanID's cursor: whatever is inserted and deleted between two     *)
(* pages, no row is shown twice and none of the first ones is left out.    *)
THEOREM PagesExactHolds == Spec => []PagesExact
<1>1. IInv => PagesExact
  BY DEF IInv, WalkInv, PagesOrdered, PagesExact
<1> QED
  BY <1>1, IInvHolds, PTL

(* FillLastRunStatus and GetRecentStatuses agree on the newest run.        *)
THEOREM LastStatusAgreesHolds == Spec => []LastStatusAgrees
<1>1. ASSUME IInv, NEW p \in Plans, NEW S \in Recent(p, 2), NEW r \in S,
             \A q \in S \ {r} : q.at < r.at
      PROVE  r.status \in LastRunStatus(p)
  <2> DEFINE mine == {q \in rows : q.plan = p}
  <2>1. S \subseteq mine /\ \A x \in S, q \in mine \ S : q.at <= x.at
    BY DEF Recent
  <2>2. \A q \in Row : q.at \in Nat
    BY <1>1, RowTypes DEF IInv
  <2>3. \A q \in mine : q.at \in Nat
    BY <1>1, <2>2 DEF IInv, TypeOK
  <2>4. ASSUME NEW q \in mine PROVE q.at <= r.at
    <3>1. CASE q \in S
      BY <1>1, <2>1, <2>3, <3>1
    <3>2. CASE q \notin S
      BY <2>1, <3>2
    <3> QED
      BY <3>1, <3>2
  <2>5. r \in Latest(p)
    BY <2>1, <2>4 DEF Latest
  <2> QED
    BY <2>5 DEF LastRunStatus
<1>2. IInv => LastStatusAgrees
  BY <1>1 DEF LastStatusAgrees
<1> QED
  BY <1>2, IInvHolds, PTL

-----------------------------------------------------------------------------
(* The bucket of a time d after the start of the range.                    *)
LEMMA DivisionBounds ==
    ASSUME NEW d \in Nat, NEW n \in Nat \ {0}
    PROVE  /\ d \div n \in Nat
           /\ (d \div n) * n <= d
           /\ d < ((d \div n) + 1) * n
OBVIOUS

LEMMA TimesGrows ==
    ASSUME NEW i \in Int, NEW j \in Int, NEW n \in Nat \ {0}
    PROVE  /\ i * n \in Int
           /\ i < j => i * n + n <= j * n
           /\ (i + 1) * n = i * n + n
OBVIOUS

(* A time within the range has its piece of it; the end of the range is    *)
(* in the last one.                                                        *)
LEMMA PieceOfRange ==
    ASSUME NEW d \in Nat, d <= Buckets * Size
    PROVE  LET q == d \div Size
               i == IF q >= Buckets THEN Buckets - 1 ELSE q
           IN  /\ i \in 0..(Buckets - 1)
               /\ i * Size <= d /\ d <= (i + 1) * Size
               /\ d < (i + 1) * Size \/ d = Buckets * Size
<1> DEFINE q == d \div Size
           i == IF q >= Buckets THEN Buckets - 1 ELSE q
<1>1. Size \in Nat \ {0} /\ Buckets \in Nat \ {0}
  BY LogAssumption DEF LogAssumption
<1>2. q \in Nat /\ q * Size <= d /\ d < (q + 1) * Size
  BY <1>1, DivisionBounds
<1> HIDE DEF q
<1>3. CASE q >= Buckets
  <2>1. i = Buckets - 1 /\ i \in 0..(Buckets - 1) /\ i \in Int /\ i < Buckets /\ i + 1 = Buckets
    BY <1>1, <1>3
  <2> HIDE DEF i
  <2>2. /\ q * Size \in Int /\ Buckets * Size \in Int /\ i * Size \in Int
        /\ i * Size + Size <= Buckets * Size
        /\ Buckets < q => Buckets * Size + Size <= q * Size
    BY <1>1, <1>2, <2>1, TimesGrows
  <2>3. Buckets * Size <= q * Size
    BY <1>1, <1>2, <1>3, <2>2
  <2>4. d = Buckets * Size /\ i * Size <= d
    BY <1>1, <1>2, <2>2, <2>3
  <2> QED
    BY <2>1, <2>4 DEF i, q
<1>4. CASE ~(q >= Buckets)
  <2>1. i = q /\ i \in 0..(Buckets - 1)
    BY <1>1, <1>2, <1>4
  <2>2. (q + 1) * Size \in Int
    BY <1>1, <1>2, TimesGrows
  <2> QED
    BY <1>2, <2>1, <2>2 DEF q
<1> QED
  BY <1>3, <1>4

LEMMA InRangeTimes ==
    ASSUME IInv, NEW p \in Plans, NEW r \in InRange(p)
    PROVE  /\ r \in rows /\ r \in Row /\ r.plan = p /\ r.at \in Nat /\ clock \in Nat
           /\ Buckets * Size \in Nat /\ Start = clock - Buckets * Size
           /\ r.at <= clock /\ r.at >= Start
<1>1. r \in rows /\ r \in Row /\ r.plan = p /\ r.at >= Start
  BY DEF InRange, IInv, TypeOK
<1>2. r.at \in Nat /\ clock \in Nat /\ r.at <= clock
  BY <1>1, RowTypes DEF IInv, Past
<1>3. Buckets * Size \in Nat
  BY LogAssumption DEF LogAssumption
<1> QED
  BY <1>1, <1>2, <1>3 DEF Start

(* GetTimeBucketStatuses: every run of the range is in the one bucket that *)
(* covers its time.                                                        *)
THEOREM BucketsPartitionHolds == Spec => []BucketsPartition
<1>1. ASSUME IInv, NEW p \in Plans, NEW r \in InRange(p)
      PROVE  /\ Bucket(r) \in 0..(Buckets - 1)
             /\ r.at >= Start + Bucket(r) * Size
             /\ r.at < Start + (Bucket(r) + 1) * Size \/ r.at = clock
  <2> DEFINE d == r.at - Start
             b == Bucket(r)
  <2>1. /\ r.at \in Nat /\ clock \in Nat /\ Buckets * Size \in Nat
        /\ Start = clock - Buckets * Size /\ r.at <= clock /\ r.at >= Start
    BY <1>1, InRangeTimes
  <2>2. d \in Nat /\ d <= Buckets * Size
    BY <2>1
  <2>3. b = IF d \div Size >= Buckets THEN Buckets - 1 ELSE d \div Size
    BY DEF Bucket
  <2> HIDE DEF d, b
  <2>4. /\ b \in 0..(Buckets - 1)
        /\ b * Size <= d
        /\ d < (b + 1) * Size \/ d = Buckets * Size
    BY <2>2, <2>3, PieceOfRange
  <2>5. b * Size \in Int /\ (b + 1) * Size \in Int
    BY <2>4, LogAssumption DEF LogAssumption
  <2> QED
    BY <2>1, <2>4, <2>5 DEF d, b
<1>2. IInv => BucketsPartition
  <2> SUFFICES ASSUME IInv, NEW p \in Plans
               PROVE  /\ UNION {BucketRows(p, i) : i \in 0..(Buckets - 1)} = InRange(p)
                      /\ \A i \in 0..(Buckets - 1) : \A r \in BucketRows(p, i) :
                            /\ r.at >= Start + i * Size
                            /\ r.at < Start + (i + 1) * Size \/ r.at = clock
    BY DEF BucketsPartition
  <2>1. \A i : \A r : r \in BucketRows(p, i) <=> r \in InRange(p) /\ Bucket(r) = i
    BY DEF BucketRows
  <2>2. \A r \in InRange(p) : Bucket(r) \in 0..(Buckets - 1)
    BY <1>1
  <2>3. UNION {BucketRows(p, i) : i \in 0..(Buckets - 1)} = InRange(p)
    BY <2>1, <2>2
  <2>4. ASSUME NEW i \in 0..(Buckets - 1), NEW r \in BucketRows(p, i)
        PROVE  /\ r.at >= Start + i * Size
               /\ r.at < Start + (i + 1) * Size \/ r.at = clock
    BY <1>1, <2>1
  <2> QED
    BY <2>3, <2>4
<1> QED
  BY <1>2, IInvHolds, PTL

(* A row that did not fit has a whole page of rows before it: every rank   *)
(* of the page is the rank of one of them.                                 *)
LEMMA PageBefore ==
    ASSUME NEW S \in SUBSET Row, IsFiniteSet(S), Distinct(S), NEW n \in Nat,
           NEW r \in S, Rank(r, S) >= n
    PROVE  Cardinality({q \in S : Rank(q, S) < n /\ Before(q, r)}) >= n
<1> DEFINE A == {q \in S : Rank(q, S) < n /\ Before(q, r)}
           T == 0..(n - 1)
           f == [q \in A |-> Rank(q, S)]
<1>1. Cardinality(S) \in Nat /\ \A q \in S : Rank(q, S) \in 0..(Cardinality(S) - 1)
  BY RankBounded, FS_CardinalityType
<1>2. f \in [A -> T]
  BY <1>1
<1>3. ASSUME NEW k \in T PROVE \E q \in A : f[q] = k
  <2>1. k \in 0..(Cardinality(S) - 1) /\ k < n
    BY <1>1
  <2>2. PICK q \in S : Rank(q, S) = k
    BY <2>1, RankHit
  <2>3. q # r
    BY <1>1, <2>1, <2>2
  <2>4. ~Before(r, q)
    BY <1>1, <2>1, <2>2, RankGrows
  <2>5. Before(q, r)
    BY <2>3, <2>4, BeforeOrder DEF Distinct
  <2> QED
    BY <2>1, <2>2, <2>5
<1>4. IsFiniteSet(A)
  BY FS_Subset
<1>5. f \in Surjection(A, T)
  BY <1>2, <1>3 DEF Surjection
<1> HIDE DEF f, A
<1>6. Cardinality(T) <= Cardinality(A)
  BY <1>4, <1>5, FS_Surjection
<1>7. Cardinality(T) = n
  <2> DEFINE m == n - 1
  <2>1. m \in Int /\ 0 \in Int
    OBVIOUS
  <2> HIDE DEF m
  <2>2. Cardinality(0..m) = IF 0 > m THEN 0 ELSE m - 0 + 1
    BY <2>1, FS_Interval
  <2> QED
    BY <2>2 DEF m
<1>8. Cardinality(A) \in Nat
  BY <1>4, FS_CardinalityType
<1> QED
  BY <1>6, <1>7, <1>8 DEF A

LEMMA TrendWindowRows ==
    ASSUME NEW p, NEW i, NEW r
    PROVE  r \in TrendWindow(p, i) <=>
              /\ r \in rows /\ r.plan = p /\ r.status \in Statuses
              /\ r.at >= clock - (i + 1) * Size /\ r.at <= clock - i * Size
BY DEF TrendWindow, Window, Rest, Matches

(* computeTrend: a run is missing from the trend only if newer runs have   *)
(* filled its window, and counts twice only where two windows meet.        *)
THEOREM TrendCoversHolds == Spec => []TrendCovers
<1>1. ASSUME IInv, NEW p \in Plans, NEW r \in InRange(p),
             NEW i \in 0..(Buckets - 1), NEW j \in 0..(Buckets - 1), i < j,
             r \in TrendRows(p, i), r \in TrendRows(p, j)
      PROVE  j = i + 1 /\ r.at = clock - j * Size
  <2>1. /\ r.at >= clock - (i + 1) * Size /\ r.at <= clock - j * Size
    BY <1>1, TrendWindowRows DEF TrendRows
  <2>2. r.at \in Nat /\ clock \in Nat /\ Size \in Nat \ {0}
    BY <1>1, InRangeTimes, LogAssumption DEF LogAssumption
  <2>3. i \in Int /\ j \in Int /\ i + 1 \in Int
    OBVIOUS
  <2>4. /\ (i + 1) * Size \in Int /\ j * Size \in Int
        /\ i + 1 < j => (i + 1) * Size + Size <= j * Size
    BY <2>2, <2>3, TimesGrows
  <2>5. (i + 1) * Size >= j * Size
    BY <2>1, <2>2, <2>4
  <2>6. j = i + 1
    BY <1>1, <2>2, <2>3, <2>4, <2>5
  <2> QED
    BY <2>1, <2>2, <2>4, <2>6
<1>2. ASSUME IInv, NEW p \in Plans, NEW r \in InRange(p),
             \A i \in 0..(Buckets - 1) : r \notin TrendRows(p, i)
      PROVE  \E i \in 0..(Buckets - 1) :
                Cardinality({q \in TrendRows(p, i) : Before(q, r)}) >= TrendLimit
  <2> DEFINE d == clock - r.at
  <2>1. /\ r \in rows /\ r \in Row /\ r.plan = p /\ r.at \in Nat /\ clock \in Nat
        /\ Buckets * Size \in Nat /\ Start = clock - Buckets * Size
        /\ r.at <= clock /\ r.at >= Start
    BY <1>2, InRangeTimes
  <2>2. d \in Nat /\ d <= Buckets * Size
    BY <2>1
  <2>3. PICK i \in 0..(Buckets - 1) : i * Size <= d /\ d <= (i + 1) * Size
    <3> HIDE DEF d
    <3> QED
      BY <2>2, PieceOfRange
  <2>4. i * Size \in Int /\ (i + 1) * Size \in Int
    BY LogAssumption DEF LogAssumption
  <2> DEFINE W == TrendWindow(p, i)
  <2>5. r.status \in Statuses
    BY <2>1 DEF Row
  <2>6. r \in W
    BY <2>1, <2>3, <2>4, <2>5, TrendWindowRows
  <2>7. W \subseteq rows
    BY TrendWindowRows
  <2> HIDE DEF W
  <2>8. W \in SUBSET Row /\ IsFiniteSet(W) /\ Distinct(W)
    BY <1>2, <2>7, FS_Subset DEF IInv, TypeOK, Distinct
  <2>9. TrendLimit \in Nat /\ Cardinality(W) \in Nat
    BY <2>8, FS_CardinalityType, LogAssumption DEF LogAssumption
  <2>10. Rank(r, W) >= TrendLimit
    <3>1. Rank(r, W) \in Int
      BY <2>6, <2>8, <2>9, RankBounded
    <3>2. ~(Rank(r, W) < TrendLimit)
      BY <1>2, <2>6 DEF TrendRows, W
    <3> QED
      BY <2>9, <3>1, <3>2
  <2>11. Cardinality({q \in W : Rank(q, W) < TrendLimit /\ Before(q, r)}) >= TrendLimit
    BY <2>6, <2>8, <2>9, <2>10, PageBefore
  <2>12. {q \in W : Rank(q, W) < TrendLimit /\ Before(q, r)}
           = {q \in TrendRows(p, i) : Before(q, r)}
    BY DEF TrendRows, W
  <2> QED
    BY <2>11, <2>12
<1>3. IInv => TrendCovers
  <2> SUFFICES ASSUME IInv, NEW p \in Plans, NEW r \in InRange(p)
               PROVE  LET windows == {i \in 0..(Buckets - 1) : r \in TrendRows(p, i)} IN
                      /\ \A i, j \in windows : i < j => j = i + 1 /\ r.at = clock - j * Size
                      /\ windows = {} =>
                            \E i \in 0..(Buckets - 1) :
                               Cardinality({q \in TrendRows(p, i) : Before(q, r)}) >= TrendLimit
    BY DEF TrendCovers
  <2> DEFINE windows == {i \in 0..(Buckets - 1) : r \in TrendRows(p, i)}
  <2>1. \A i, j \in windows : i < j => j = i + 1 /\ r.at = clock - j * Size
    BY <1>1
  <2>2. windows = {} => \A i \in 0..(Buckets - 1) : r \notin TrendRows(p, i)
    OBVIOUS
  <2>3. windows = {} =>
           \E i \in 0..(Buckets - 1) :
              Cardinality({q \in TrendRows(p, i) : Before(q, r)}) >= TrendLimit
    BY <1>2, <2>2
  <2> QED
    BY <2>1, <2>3
<1> QED
  BY <1>3, IInvHolds, PTL

===========================================================================
