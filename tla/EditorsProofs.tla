--------------------------- MODULE EditorsProofs ---------------------------
(***************************************************************************)
(* Proofs about Editors, for any texts, any number of rounds and saves.    *)
(***************************************************************************)
EXTENDS Editors, TLAPS

(* An area without an editor, and one that has been enhanced.              *)
Bare(a)    == a \in Area /\ ~a.done /\ a.editors = <<>>
Dressed(a) == a \in Area /\ a.done /\ Len(a.editors) = 1

(* Every area has what the state of the module asks for.                   *)
Fits(bs) ==
    /\ bs \in Seq(Area)
    /\ \A i \in DOMAIN bs : IF module = "loaded" THEN Dressed(bs[i]) ELSE Bare(bs[i])

(* What stands in the textareas.                                           *)
Values ==
    \A i \in DOMAIN areas :
        /\ form \in {"plan", "step"} => areas[i].value = model[i]
        /\ form = "script" => areas[i].value = wanted[i]
        /\ form = "detail" /\ module # "loaded" => areas[i].value = wanted[i]

(* What the editors show; those of a plan wait for __cmSync.               *)
Shows ==
    \A i \in DOMAIN areas : \A k \in DOMAIN areas[i].editors :
        /\ form = "detail" => areas[i].editors[k] = wanted[i]
        /\ form = "script" \/ (form = "plan" /\ <<"sync", i>> \notin ticks) =>
              areas[i].editors[k] = areas[i].value

(* The variables of a plan, in either mode.                                *)
Variables ==
    LET w == wanted[1].content
    IN  IF raw THEN model[1].content \in {w, Structured(w)}
        ELSE w \in JSONs /\ Kept(vars) = Structured(w)

Keeps ==
    /\ form = "step" => model = wanted
    /\ form # "step" => saves = 0 /\ refreshes = 0 /\ DOMAIN areas = {1}
    /\ form = "plan" => Variables
    /\ form = "detail" => ticks = {}
    /\ scanDue => module = "loaded"

IInv == TypeOK /\ Fits(areas) /\ Values /\ Shows /\ Keeps

-----------------------------------------------------------------------------
(* What the helpers make of a single area.                                 *)
LEMMA EnhanceFits ==
    ASSUME NEW a, Bare(a) \/ Dressed(a)
    PROVE  /\ Dressed(Enhance(a)) /\ Enhance(a).value = a.value
           /\ Bare(a) => Enhance(a).editors[1] = a.value
           /\ Dressed(a) => Enhance(a) = a
<1> DEFINE b == [a EXCEPT !.done = TRUE, !.editors = Append(a.editors, a.value)]
<1>1. a \in Area /\ a.value \in Texts /\ a.editors \in Seq(Texts) /\ a.done \in BOOLEAN
  BY DEF Bare, Dressed, Area
<1>2. CASE Bare(a)
  <2>1. ~a.done /\ a.editors = <<>>
    BY <1>2 DEF Bare
  <2>2. Enhance(a) = b
    BY <2>1 DEF Enhance
  <2>3. b.value = a.value /\ b.done /\ b.editors = Append(<<>>, a.value)
    BY <1>1, <2>1 DEF Area
  <2>4. Append(<<>>, a.value) \in Seq(Texts) /\ Append(<<>>, a.value) = <<a.value>>
    BY <1>1
  <2>5. b \in Area
    BY <1>1, <2>1, <2>4 DEF Area
  <2>6. Len(b.editors) = 1 /\ b.editors[1] = a.value
    BY <2>3, <2>4
  <2> QED
    BY <2>1, <2>2, <2>3, <2>5, <2>6 DEF Dressed
<1>3. CASE Dressed(a)
  BY <1>1, <1>3 DEF Bare, Dressed, Enhance
<1> QED
  BY <1>2, <1>3

LEMMA ViewerFits ==
    ASSUME NEW a, Bare(a) \/ Dressed(a)
    PROVE  /\ Dressed(EnhanceViewer(a))
           /\ Bare(a) => EnhanceViewer(a).editors[1] = a.value
           /\ Dressed(a) => EnhanceViewer(a) = a
BY DEF Bare, Dressed, EnhanceViewer, Area, Blank, Text, Texts, Contents, Layouts

LEMMA DispatchFits ==
    ASSUME NEW a, Bare(a) \/ Dressed(a), NEW t \in Texts
    PROVE  /\ Bare(a) => Bare(Dispatch(a, t))
           /\ Dressed(a) => Dressed(Dispatch(a, t))
           /\ Dispatch(a, t).value = t
           /\ \A k \in DOMAIN Dispatch(a, t).editors : Dispatch(a, t).editors[k] = t
<1> DEFINE es == [i \in DOMAIN a.editors |-> t]
           b  == [a EXCEPT !.value = t, !.editors = es]
<1>1. a \in Area /\ a.value \in Texts /\ a.editors \in Seq(Texts) /\ a.done \in BOOLEAN
  BY DEF Bare, Dressed, Area
<1>2. DOMAIN a.editors = 1..Len(a.editors) /\ Len(a.editors) \in Nat
  BY <1>1
<1>3. es = [i \in 1..Len(a.editors) |-> t]
  BY <1>2
<1>4. es \in Seq(Texts) /\ Len(es) = Len(a.editors)
  BY <1>2, <1>3
<1> HIDE DEF es
<1>5. b.value = t /\ b.done = a.done /\ b.editors = es
  BY <1>1 DEF Area
<1>6. b \in Area /\ b.value = t /\ b.done = a.done /\ b.editors = es
  BY <1>1, <1>4, <1>5 DEF Area
<1>7. Dispatch(a, t) = b
  BY DEF Dispatch, es
<1>8. ASSUME Bare(a) PROVE Bare(b)
  <2>1. ~a.done /\ Len(a.editors) = 0
    BY <1>8 DEF Bare
  <2>2. es = <<>>
    BY <1>4, <2>1
  <2> QED
    BY <1>6, <2>1, <2>2 DEF Bare
<1>9. ASSUME Dressed(a) PROVE Dressed(b)
  BY <1>4, <1>6, <1>9 DEF Dressed
<1> HIDE DEF b
<1>10. \A k \in DOMAIN es : es[k] = t
  BY DEF es
<1> QED
  BY <1>6, <1>7, <1>8, <1>9, <1>10

LEMMA SyncFits ==
    ASSUME NEW a, Bare(a) \/ Dressed(a)
    PROVE  /\ Bare(a) => Sync(a) = a
           /\ Dressed(a) => /\ Dressed(Sync(a)) /\ Sync(a).editors[1] = a.value
           /\ Sync(a).value = a.value
<1>1. a.value \in Texts /\ (Dressed(a) => a.editors # <<>>)
  <2>1. a \in Area
    BY DEF Bare, Dressed
  <2>2. Len(<<>>) = 0
    OBVIOUS
  <2>3. a.value \in Texts
    BY <2>1 DEF Area
  <2>4. Dressed(a) => a.editors # <<>>
    BY <2>2 DEF Dressed
  <2> QED
    BY <2>3, <2>4
<1>2. CASE Bare(a)
  BY <1>2 DEF Bare, Dressed, Sync
<1>3. CASE Dressed(a)
  <2>1. Sync(a) = Dispatch(a, a.value)
    BY <1>1, <1>3 DEF Sync
  <2>2. Dressed(Sync(a)) /\ 1 \in DOMAIN Sync(a).editors
    BY <1>1, <1>3, <2>1, DispatchFits DEF Dressed, Area
  <2>3. ~Bare(a)
    BY <1>3 DEF Bare, Dressed
  <2> QED
    BY <1>1, <1>3, <2>1, <2>2, <2>3, DispatchFits
<1> QED
  BY <1>2, <1>3

LEMMA NewFits ==
    ASSUME NEW t \in Texts
    PROVE  Bare(NewArea(t)) /\ NewArea(t).value = t
BY DEF Bare, NewArea, Area

(* x-model writes into an area.                                            *)
LEMMA WriteFits ==
    ASSUME NEW a, Bare(a) \/ Dressed(a), NEW t \in Texts
    PROVE  LET b == [a EXCEPT !.value = t]
           IN  /\ Bare(a) => Bare(b)
               /\ Dressed(a) => Dressed(b)
               /\ b.value = t /\ b.editors = a.editors
BY DEF Bare, Dressed, Area

(* Every area is one or the other, whatever becomes of the module.         *)
LEMMA BareOrDressed ==
    ASSUME NEW bs, Fits(bs), NEW i \in DOMAIN bs
    PROVE  (Bare(bs[i]) \/ Dressed(bs[i])) /\ bs[i] \in Area
BY DEF Fits, Bare, Dressed

(* A scan dresses every area.                                              *)
LEMMA ScanFits ==
    ASSUME NEW bs \in Seq(Area), \A i \in DOMAIN bs : Bare(bs[i]) \/ Dressed(bs[i])
    PROVE  /\ Scan(bs) \in Seq(Area) /\ DOMAIN Scan(bs) = DOMAIN bs
           /\ \A i \in DOMAIN bs :
                 /\ Dressed(Scan(bs)[i])
                 /\ form # "detail" => Scan(bs)[i].value = bs[i].value
                 /\ Bare(bs[i]) => Scan(bs)[i].editors[1] = bs[i].value
                 /\ Dressed(bs[i]) => Scan(bs)[i] = bs[i]
<1> DEFINE s == Scan(bs)
<1>1. /\ DOMAIN s = DOMAIN bs
      /\ \A i \in DOMAIN bs :
            s[i] = IF form = "detail" THEN EnhanceViewer(bs[i]) ELSE Enhance(bs[i])
  BY DEF Scan
<1> HIDE DEF s
<1>2. ASSUME NEW i \in DOMAIN bs
      PROVE  /\ Dressed(s[i])
             /\ form # "detail" => s[i].value = bs[i].value
             /\ Bare(bs[i]) => s[i].editors[1] = bs[i].value
             /\ Dressed(bs[i]) => s[i] = bs[i]
  <2>1. Bare(bs[i]) \/ Dressed(bs[i])
    OBVIOUS
  <2>2. CASE form = "detail"
    BY <1>1, <2>1, <2>2, ViewerFits
  <2>3. CASE form # "detail"
    <3>1. s[i] = Enhance(bs[i])
      BY <1>1, <2>3
    <3> QED
      BY <2>1, <2>3, <3>1, EnhanceFits
  <2> QED
    BY <2>2, <2>3
<1>3. s \in Seq(Area)
  <2>1. \A i \in DOMAIN bs : s[i] \in Area
    BY <1>2 DEF Dressed
  <2>2. DOMAIN bs = 1..Len(bs) /\ Len(bs) \in Nat
    OBVIOUS
  <2>3. s \in [DOMAIN bs -> Area]
    BY <2>1 DEF s, Scan
  <2> QED
    BY <2>2, <2>3
<1> QED
  BY <1>1, <1>2, <1>3 DEF s

(* x-model keeps what the areas have, and a new area is bare.              *)
LEMMA BoundFits ==
    ASSUME NEW bs \in Seq(Area), \A i \in DOMAIN bs : Bare(bs[i]) \/ Dressed(bs[i]),
           NEW m \in Seq(Texts)
    PROVE  /\ Bound(bs, m) \in Seq(Area) /\ DOMAIN Bound(bs, m) = DOMAIN m
           /\ \A i \in DOMAIN m :
                 /\ Bound(bs, m)[i].value = m[i]
                 /\ i \in DOMAIN bs =>
                       /\ Bound(bs, m)[i].editors = bs[i].editors
                       /\ Bare(bs[i]) => Bare(Bound(bs, m)[i])
                       /\ Dressed(bs[i]) => Dressed(Bound(bs, m)[i])
                 /\ i \notin DOMAIN bs => Bare(Bound(bs, m)[i])
<1> DEFINE b == Bound(bs, m)
<1>1. DOMAIN m = 1..Len(m) /\ Len(m) \in Nat /\ \A i \in DOMAIN m : m[i] \in Texts
  OBVIOUS
<1>2. /\ DOMAIN b = DOMAIN m
      /\ \A i \in DOMAIN m :
            b[i] = IF i \in DOMAIN bs THEN [bs[i] EXCEPT !.value = m[i]] ELSE NewArea(m[i])
  BY DEF Bound
<1>3. ASSUME NEW i \in DOMAIN m
      PROVE  /\ b[i] \in Area /\ b[i].value = m[i]
             /\ i \in DOMAIN bs =>
                   /\ b[i].editors = bs[i].editors
                   /\ Bare(bs[i]) => Bare(b[i])
                   /\ Dressed(bs[i]) => Dressed(b[i])
             /\ i \notin DOMAIN bs => Bare(b[i])
  <2>1. m[i] \in Texts
    BY <1>1
  <2>2. CASE i \in DOMAIN bs
    <3>1. Bare(bs[i]) \/ Dressed(bs[i])
      BY <2>2
    <3>2. b[i] = [bs[i] EXCEPT !.value = m[i]]
      BY <1>2, <2>2
    <3> HIDE DEF b
    <3>3. /\ Bare(bs[i]) => Bare(b[i])
          /\ Dressed(bs[i]) => Dressed(b[i])
          /\ b[i].value = m[i] /\ b[i].editors = bs[i].editors
      BY <2>1, <3>1, <3>2, WriteFits
    <3> QED
      BY <2>2, <3>1, <3>3 DEF Bare, Dressed
  <2>3. CASE i \notin DOMAIN bs
    <3>1. b[i] = NewArea(m[i])
      BY <1>2, <2>3
    <3> HIDE DEF b
    <3> QED
      BY <2>1, <2>3, <3>1, NewFits DEF Bare
  <2> QED
    BY <2>2, <2>3
<1>4. b \in Seq(Area)
  <2>1. b \in [DOMAIN m -> Area]
    BY <1>3 DEF Bound
  <2> HIDE DEF b
  <2> QED
    BY <1>1, <2>1
<1> QED
  BY <1>2, <1>3, <1>4

(* And what the observer leaves of it.                                     *)
LEMMA ObservedFits ==
    ASSUME NEW bs, Fits(bs), NEW m \in Seq(Texts), form # "detail"
    PROVE  LET b == Observed(Bound(bs, m))
           IN  /\ Fits(b) /\ DOMAIN b = DOMAIN m
               /\ \A i \in DOMAIN m : b[i].value = m[i]
<1> DEFINE c == Bound(bs, m)
<1>1. bs \in Seq(Area) /\ \A i \in DOMAIN bs : Bare(bs[i]) \/ Dressed(bs[i])
  BY BareOrDressed DEF Fits
<1>2. /\ c \in Seq(Area) /\ DOMAIN c = DOMAIN m
      /\ \A i \in DOMAIN m : c[i].value = m[i] /\ (Bare(c[i]) \/ Dressed(c[i]))
  BY <1>1, BoundFits
<1> HIDE DEF c
<1>3. CASE module = "loaded"
  <2>1. Observed(c) = Scan(c)
    BY <1>3 DEF Observed
  <2>2. /\ Scan(c) \in Seq(Area) /\ DOMAIN Scan(c) = DOMAIN m
        /\ \A i \in DOMAIN m : Dressed(Scan(c)[i]) /\ Scan(c)[i].value = m[i]
    BY <1>2, ScanFits
  <2> QED
    BY <1>3, <2>1, <2>2 DEF Fits, c
<1>4. CASE module # "loaded"
  <2>1. Observed(c) = c
    BY <1>4 DEF Observed
  <2>2. \A i \in DOMAIN m : Bare(c[i])
    BY <1>1, <1>4, BoundFits DEF Fits, c
  <2> QED
    BY <1>2, <1>4, <2>1, <2>2 DEF Fits, c
<1> QED
  BY <1>3, <1>4

(* An area that has its editor is left alone.                              *)
LEMMA ObservedSame ==
    ASSUME NEW bs, Fits(bs)
    PROVE  Observed(bs) = bs /\ (module = "loaded" => Scan(bs) = bs)
<1>1. CASE module = "loaded"
  <2>1. /\ DOMAIN Scan(bs) = DOMAIN bs
        /\ \A i \in DOMAIN bs : Scan(bs)[i] = bs[i]
    BY <1>1, ScanFits DEF Fits
  <2>2. bs = [i \in DOMAIN bs |-> bs[i]]
    BY DEF Fits
  <2>3. Scan(bs) = [i \in DOMAIN bs |-> Scan(bs)[i]]
    BY DEF Scan
  <2>4. Scan(bs) = bs
    BY <2>1, <2>2, <2>3
  <2> QED
    BY <1>1, <2>4 DEF Observed
<1>2. CASE module # "loaded"
  BY <1>2 DEF Observed
<1> QED
  BY <1>1, <1>2

(* An empty page, and the texts that do not come from the user.            *)
LEMMA EmptyFits == Fits(<<>>) /\ <<>> \in Seq(Area) /\ <<>> \in Seq(Texts) /\ DOMAIN <<>> = {}
<1>1. <<>> \in Seq(Area) /\ <<>> \in Seq(Texts) /\ DOMAIN <<>> = {}
  OBVIOUS
<1> QED
  BY <1>1 DEF Fits

LEMMA MadeTexts ==
    /\ Blank \in Texts
    /\ \A o \in Contents, l \in Layouts : Text(o, l) \in Texts
BY DEF Blank, Text, Texts, Contents, Layouts

(* Making rows and making an object of them: each changes nothing twice,   *)
(* and what is kept of rows makes the same rows again.                     *)
LEMMA RowsAndObjects ==
    /\ \A c \in JSONs : RowsOf(c) \in Rows /\ Structured(c) \in Plain
    /\ \A o \in Rows : RowsOf(o) = o /\ Kept(o) \in Plain
    /\ \A o \in Plain : Kept(o) = o /\ Structured(o) = o
    /\ \A c : c \notin JSONs => Structured(c) = c
    /\ Plain \subseteq Rows /\ Rows \subseteq Objects /\ Objects \subseteq JSONs
    /\ JSONs \subseteq Contents
<1> USE DEF RowsOf, Kept, Structured, Plain, Rows, Objects, JSONs, Contents
<1>1. \A c \in JSONs : RowsOf(c) \in Rows /\ Structured(c) \in Plain
  OBVIOUS
<1>2. \A o \in Rows : RowsOf(o) = o /\ Kept(o) \in Plain
  OBVIOUS
<1>3. \A o \in Plain : Kept(o) = o /\ Structured(o) = o
  OBVIOUS
<1>4. \A c : c \notin JSONs => Structured(c) = c
  OBVIOUS
<1> QED
  BY <1>1, <1>2, <1>3, <1>4

-----------------------------------------------------------------------------
(* The initial states.                                                     *)
LEMMA InitHolds == Init => IInv
<1> SUFFICES ASSUME Init PROVE IInv
  OBVIOUS
<1>1. PICK t \in Texts :
          /\ form = "plan" => /\ t.layout = "pretty" /\ t.content \in Objects
                              /\ vars = RowsOf(t.content)
          /\ model  = IF form = "plan" THEN <<t>> ELSE <<>>
          /\ areas  = IF form = "step" THEN <<>> ELSE <<NewArea(t)>>
          /\ wanted = IF form = "step" THEN <<>> ELSE <<t>>
          /\ ticks  = IF form = "plan" THEN {<<"enhance", 1>>, <<"sync", 1>>} ELSE {}
  BY DEF Init
<1>2. /\ form \in AllForms /\ module = "pending" /\ raw = FALSE /\ scanDue = FALSE
      /\ saves = 0 /\ refreshes = 0 /\ saves + refreshes <= MaxSaves
      /\ vars \in Rows
  BY EditorsAssumption DEF Init, EditorsAssumption
<1> DEFINE a == NewArea(t)
<1>3. Bare(a) /\ a.value = t /\ a \in Area /\ a.editors = <<>>
  BY NewFits DEF Bare
<1> HIDE DEF a
<1>4. /\ <<t>> \in Seq(Texts) /\ DOMAIN <<t>> = {1} /\ <<t>>[1] = t
      /\ <<a>> \in Seq(Area) /\ DOMAIN <<a>> = {1} /\ <<a>>[1] = a
  BY <1>3
<1>5. CASE form = "step"
  <2>1. model = <<>> /\ areas = <<>> /\ wanted = <<>> /\ ticks = {}
    BY <1>1, <1>5
  <2>2. TypeOK
    BY <1>2, <1>5, <2>1, EmptyFits DEF TypeOK
  <2>3. Fits(areas) /\ Values /\ Shows
    BY <2>1, EmptyFits DEF Values, Shows
  <2>4. Keeps
    BY <1>2, <1>5, <2>1 DEF Keeps
  <2> QED
    BY <2>2, <2>3, <2>4 DEF IInv
<1>6. CASE form # "step"
  <2>1. areas = <<a>> /\ wanted = <<t>>
    BY <1>1, <1>6 DEF a
  <2>2. model = (IF form = "plan" THEN <<t>> ELSE <<>>) /\ DOMAIN <<>> = {}
    BY <1>1
  <2>3. ticks = IF form = "plan" THEN {<<"enhance", 1>>, <<"sync", 1>>} ELSE {}
    BY <1>1
  <2>4. /\ DOMAIN model = IF form \in {"plan", "step"} THEN DOMAIN areas ELSE {}
        /\ model \in Seq(Texts) /\ wanted \in Seq(Texts) /\ areas \in Seq(Area)
        /\ DOMAIN wanted = DOMAIN areas /\ DOMAIN areas = {1}
    BY <1>4, <1>6, <2>1, <2>2, EmptyFits
  <2>5. \A k \in ticks : k[1] \in {"enhance", "sync"} /\ k[2] \in DOMAIN areas
    BY <2>3, <2>4
  <2>6. TypeOK
    BY <1>2, <2>4, <2>5 DEF TypeOK
  <2>7. Fits(areas)
    BY <1>2, <1>3, <1>4, <2>1 DEF Fits
  <2>8. Values /\ Shows
    BY <1>3, <1>4, <1>6, <2>1, <2>2, <2>4 DEF Values, Shows
  <2>9. form = "plan" => Variables
    BY <1>1, <1>2, <1>4, <2>1, RowsAndObjects DEF Variables, Structured
  <2>10. Keeps
    BY <1>2, <1>6, <2>3, <2>4, <2>9 DEF Keeps
  <2> QED
    BY <2>6, <2>7, <2>8, <2>10 DEF IInv
<1> QED
  BY <1>5, <1>6

-----------------------------------------------------------------------------
(* The module and the deferred callbacks.                                  *)
LEMMA ModuleLoadsKeeps == IInv /\ ModuleLoads => IInv'
<1> SUFFICES ASSUME IInv, ModuleLoads PROVE IInv'
  OBVIOUS
<1> USE DEF page
<1>1. /\ TypeOK /\ Fits(areas) /\ Values /\ Shows /\ Keeps
      /\ module = "pending" /\ module' = "loaded" /\ areas' = Scan(areas)
  BY DEF IInv, ModuleLoads
<1>2. \A i \in DOMAIN areas : Bare(areas[i]) /\ areas \in Seq(Area)
  BY <1>1 DEF Fits
<1>3. /\ areas' \in Seq(Area) /\ DOMAIN areas' = DOMAIN areas
      /\ \A i \in DOMAIN areas :
            /\ Dressed(areas'[i])
            /\ form # "detail" => areas'[i].value = areas[i].value
            /\ areas'[i].editors[1] = areas[i].value
  BY <1>1, <1>2, ScanFits DEF TypeOK
<1>4. \A i \in DOMAIN areas : DOMAIN areas'[i].editors = {1}
  BY <1>3 DEF Dressed, Area
<1>5. TypeOK'
  BY <1>1, <1>3 DEF TypeOK, ModuleLoads
<1>6. Fits(areas)'
  BY <1>1, <1>3 DEF Fits
<1>7. Values'
  BY <1>1, <1>3 DEF Values, ModuleLoads
<1>8. Shows'
  <2>1. ASSUME NEW i \in DOMAIN areas, NEW k \in DOMAIN areas'[i].editors
        PROVE  /\ areas'[i].editors[k] = areas[i].value
               /\ form # "detail" => areas'[i].editors[k] = areas'[i].value
    BY <1>3, <1>4, <2>1
  <2>2. \A i \in DOMAIN areas : form = "detail" => areas[i].value = wanted[i]
    BY <1>1 DEF Values
  <2>3. form' = form /\ wanted' = wanted
    BY DEF ModuleLoads
  <2> QED
    BY <1>3, <2>1, <2>2, <2>3 DEF Shows
<1>9. Keeps'
  BY <1>1, <1>3 DEF Keeps, Variables, ModuleLoads
<1> QED
  BY <1>5, <1>6, <1>7, <1>8, <1>9 DEF IInv

LEMMA ModuleFailsKeeps == IInv /\ ModuleFails => IInv'
<1> SUFFICES ASSUME IInv, ModuleFails PROVE IInv'
  OBVIOUS
<1> USE DEF page, ModuleFails
<1>1. TypeOK'
  BY DEF IInv, TypeOK
<1>2. Fits(areas)' /\ Values' /\ Shows'
  BY DEF IInv, Fits, Values, Shows
<1>3. Keeps'
  BY DEF IInv, Keeps, Variables
<1> QED
  BY <1>1, <1>2, <1>3 DEF IInv

LEMMA RunScanKeeps == IInv /\ RunScan => IInv'
<1> SUFFICES ASSUME IInv, RunScan PROVE IInv'
  OBVIOUS
<1> USE DEF page
<1>1. areas' = areas /\ module = "loaded"
  BY ObservedSame DEF IInv, Keeps, RunScan
<1>2. TypeOK'
  BY <1>1 DEF IInv, TypeOK, RunScan
<1>3. Fits(areas)' /\ Values' /\ Shows'
  BY <1>1 DEF IInv, Fits, Values, Shows, RunScan
<1>4. Keeps'
  BY <1>1 DEF IInv, Keeps, Variables, RunScan
<1> QED
  BY <1>2, <1>3, <1>4 DEF IInv

(* The deferred callbacks change no textarea, whatever they synchronise.   *)
LEMMA RunNextTicksKeeps == IInv /\ RunNextTicks => IInv'
<1> SUFFICES ASSUME IInv, RunNextTicks PROVE IInv'
  OBVIOUS
<1> USE DEF page
<1>1. /\ TypeOK /\ Fits(areas) /\ Values /\ Shows /\ Keeps
      /\ ticks' = {} /\ form # "detail"
  BY DEF IInv, RunNextTicks, Keeps
<1>2. Observed(areas) = areas
  BY <1>1, ObservedSame
<1>3. areas' = [i \in DOMAIN areas |->
                   IF <<"sync", i>> \in ticks /\ module = "loaded"
                   THEN Sync(areas[i]) ELSE areas[i]]
  BY <1>2 DEF RunNextTicks, RunTicks
<1>4. DOMAIN areas' = DOMAIN areas /\ DOMAIN areas = 1..Len(areas) /\ Len(areas) \in Nat
  BY <1>1, <1>3 DEF Fits
<1>5. ASSUME NEW i \in DOMAIN areas
      PROVE  /\ areas'[i] \in Area /\ areas'[i].value = areas[i].value
             /\ IF module = "loaded" THEN Dressed(areas'[i]) ELSE Bare(areas'[i])
             /\ \A k \in DOMAIN areas'[i].editors :
                    form \in {"plan", "script"} => areas'[i].editors[k] = areas'[i].value
  <2>1. IF module = "loaded" THEN Dressed(areas[i]) ELSE Bare(areas[i])
    BY <1>1 DEF Fits
  <2>2. CASE <<"sync", i>> \in ticks /\ module = "loaded"
    <3>1. areas'[i] = Sync(areas[i])
      BY <1>3, <2>2
    <3>2. /\ Dressed(areas'[i]) /\ areas'[i].value = areas[i].value
          /\ areas'[i].editors[1] = areas[i].value
      BY <2>1, <2>2, <3>1, SyncFits
    <3>3. DOMAIN areas'[i].editors = {1} /\ areas'[i] \in Area
      BY <3>2 DEF Dressed, Area
    <3> QED
      BY <2>2, <3>2, <3>3
  <2>3. CASE ~(<<"sync", i>> \in ticks /\ module = "loaded")
    <3>1. areas'[i] = areas[i] /\ areas[i] \in Area
      BY <1>1, <1>3, <2>3 DEF Fits
    <3>2. CASE module = "loaded"
      BY <1>1, <2>1, <2>3, <3>1, <3>2 DEF Shows
    <3>3. CASE module # "loaded"
      BY <2>1, <3>1, <3>3, EmptyFits DEF Bare
    <3> QED
      BY <3>2, <3>3
  <2> QED
    BY <2>2, <2>3
<1>6. areas' \in Seq(Area)
  <2>1. areas' \in [DOMAIN areas -> Area]
    BY <1>3, <1>5
  <2> QED
    BY <1>4, <2>1
<1>7. model' = model
  <2>1. model \in Seq(Texts) /\ model = [i \in DOMAIN model |-> model[i]]
    BY <1>1 DEF TypeOK
  <2>2. \A i \in DOMAIN model : model[i] = areas'[i].value
    BY <1>1, <1>5 DEF TypeOK, Values
  <2>3. model' = [i \in DOMAIN model |-> areas'[i].value]
    BY DEF RunNextTicks
  <2> QED
    BY <2>1, <2>2, <2>3
<1>8. TypeOK'
  BY <1>1, <1>4, <1>6, <1>7 DEF TypeOK, RunNextTicks
<1>9. Fits(areas)'
  BY <1>4, <1>5, <1>6 DEF Fits, RunNextTicks
<1>10. Values'
  BY <1>1, <1>4, <1>5, <1>7 DEF Values, RunNextTicks
<1>11. Shows'
  BY <1>1, <1>4, <1>5 DEF Shows, RunNextTicks
<1>12. Keeps'
  BY <1>1, <1>4, <1>7 DEF Keeps, Variables, RunNextTicks
<1> QED
  BY <1>8, <1>9, <1>10, <1>11, <1>12 DEF IInv

-----------------------------------------------------------------------------
(* The user.                                                               *)
LEMMA EnterKeeps ==
    ASSUME IInv, Editable, NEW i \in DOMAIN areas, NEW t \in Texts, Enter(i, t)
    PROVE  IInv'
<1> USE DEF page
<1>1. /\ TypeOK /\ Fits(areas) /\ Values /\ Shows /\ Keeps
      /\ form # "detail" /\ (form = "plan" => raw)
  BY DEF IInv, Editable
<1> DEFINE d == Dispatch(areas[i], t)
<1>2. /\ areas' = [areas EXCEPT ![i] = d]
      /\ model' = IF i \in DOMAIN model THEN [model EXCEPT ![i] = areas'[i].value] ELSE model
      /\ ticks' = ticks \cup Effects(i) /\ wanted' = [wanted EXCEPT ![i] = t]
      /\ form' = form /\ module' = module /\ vars' = vars /\ raw' = raw
      /\ saves' = saves /\ refreshes' = refreshes /\ scanDue' = scanDue
  BY DEF Enter
<1>3. /\ areas \in Seq(Area) /\ model \in Seq(Texts) /\ wanted \in Seq(Texts)
      /\ DOMAIN wanted = DOMAIN areas
      /\ DOMAIN model = IF form \in {"plan", "step"} THEN DOMAIN areas ELSE {}
  BY <1>1 DEF TypeOK
<1>4. /\ d.value = t /\ d \in Area /\ \A k \in DOMAIN d.editors : d.editors[k] = t
      /\ Bare(areas[i]) => Bare(d)
      /\ Dressed(areas[i]) => Dressed(d)
  BY <1>1, BareOrDressed, DispatchFits DEF Bare, Dressed
<1> HIDE DEF d
<1>5. /\ areas' \in Seq(Area) /\ DOMAIN areas' = DOMAIN areas /\ areas'[i] = d
      /\ \A j \in DOMAIN areas : j # i => areas'[j] = areas[j]
  BY <1>2, <1>3, <1>4
<1>6. /\ model' \in Seq(Texts) /\ DOMAIN model' = DOMAIN model
      /\ i \in DOMAIN model => model'[i] = t
      /\ \A j \in DOMAIN model : j # i => model'[j] = model[j]
  BY <1>2, <1>3, <1>4, <1>5
<1>7. /\ wanted' \in Seq(Texts) /\ DOMAIN wanted' = DOMAIN wanted /\ wanted'[i] = t
      /\ \A j \in DOMAIN wanted : j # i => wanted'[j] = wanted[j]
  BY <1>2, <1>3
<1>8. TypeOK'
  <2>1. \A k \in ticks' : k[1] \in {"enhance", "sync"} /\ k[2] \in DOMAIN areas
    BY <1>1, <1>2 DEF TypeOK, Effects
  <2> QED
    BY <1>1, <1>2, <1>3, <1>5, <1>6, <1>7, <2>1 DEF TypeOK
<1>9. Fits(areas)'
  BY <1>1, <1>2, <1>4, <1>5 DEF Fits
<1>10. Values'
  BY <1>1, <1>2, <1>3, <1>4, <1>5, <1>6, <1>7 DEF Values
<1>11. Shows'
  <2>1. \A j \in DOMAIN areas : <<"sync", j>> \notin ticks' => <<"sync", j>> \notin ticks
    BY <1>2
  <2>2. ASSUME NEW j \in DOMAIN areas, j # i, NEW k \in DOMAIN areas'[j].editors
        PROVE  form = "script" \/ (form = "plan" /\ <<"sync", j>> \notin ticks') =>
                  areas'[j].editors[k] = areas'[j].value
    BY <1>1, <1>5, <2>1, <2>2 DEF Shows
  <2>3. \A k \in DOMAIN areas'[i].editors : areas'[i].editors[k] = areas'[i].value
    BY <1>4, <1>5
  <2>4. \A j \in DOMAIN areas : \A k \in DOMAIN areas'[j].editors :
            form = "script" \/ (form = "plan" /\ <<"sync", j>> \notin ticks') =>
                  areas'[j].editors[k] = areas'[j].value
    BY <2>2, <2>3
  <2>5. form' # "detail" /\ form' = form /\ DOMAIN areas' = DOMAIN areas
    BY <1>1, <1>2, <1>5
  <2> QED
    BY <2>4, <2>5 DEF Shows
<1>12. form = "step" => model' = wanted'
  BY <1>1, <1>2, <1>3, <1>4, <1>5 DEF Keeps
<1>13. form = "plan" => Variables'
  <2>1. form = "plan" => i = 1 /\ i \in DOMAIN model
    BY <1>1, <1>3 DEF Keeps
  <2> QED
    BY <1>1, <1>2, <1>6, <1>7, <2>1 DEF Variables
<1>14. Keeps'
  BY <1>1, <1>2, <1>5, <1>12, <1>13 DEF Keeps
<1> QED
  BY <1>8, <1>9, <1>10, <1>11, <1>14 DEF IInv

LEMMA TypeKeeps ==
    ASSUME IInv, NEW i \in DOMAIN areas, NEW t \in Typed[form], Type(i, t)
    PROVE  IInv'
<1>1. Typed[form] \subseteq Texts
  BY EditorsAssumption DEF EditorsAssumption, IInv, TypeOK
<1> QED
  BY <1>1, EnterKeeps DEF Type

LEMMA FormatKeeps ==
    ASSUME IInv, NEW i \in DOMAIN areas, NEW layout \in {"pretty", "compact"},
           Format(i, layout)
    PROVE  IInv'
<1> DEFINE t == Head(areas[i].editors)
<1>1. areas[i] \in Area
  BY DEF IInv, Fits
<1>2. t \in Texts
  BY <1>1 DEF Format, Area
<1>3. [t EXCEPT !.layout = layout] \in Texts
  BY <1>2 DEF Texts, Layouts
<1> QED
  BY <1>3, EnterKeeps DEF Format

LEMMA EditVarsKeeps ==
    ASSUME IInv, NEW o \in Rows, EditVars(o)
    PROVE  IInv'
<1>1. /\ TypeOK /\ Fits(areas) /\ Values /\ Shows /\ Keeps
      /\ form = "plan" /\ form' = form /\ raw = FALSE /\ raw' = raw /\ saves' = saves
      /\ refreshes' = refreshes
      /\ module' = module /\ model' = model /\ areas' = areas
      /\ ticks' = ticks /\ scanDue' = scanDue /\ vars' = o
  BY DEF IInv, EditVars, TypeOK
<1>2. /\ o \in Rows /\ o \in JSONs /\ o \in Contents /\ DOMAIN areas = {1}
      /\ Structured(o) = Kept(o)
  BY <1>1, RowsAndObjects DEF Keeps, Structured
<1>3. /\ wanted' \in Seq(Texts) /\ DOMAIN wanted' = {1}
      /\ wanted'[1].content = o
  <2>1. Text(o, "typed") \in Texts /\ Text(o, "typed").content = o
    BY <1>2, MadeTexts DEF Layouts, Text
  <2> QED
    BY <2>1 DEF EditVars
<1>4. TypeOK'
  BY <1>1, <1>2, <1>3 DEF TypeOK
<1>5. Fits(areas)' /\ Values' /\ Shows'
  BY <1>1 DEF Fits, Values, Shows
<1>6. Keeps'
  BY <1>1, <1>2, <1>3 DEF Keeps, Variables
<1> QED
  BY <1>4, <1>5, <1>6 DEF IInv

(* What the textarea gets from toggleMode, the editor gets from __cmSync.  *)
LEMMA ToRawKeeps == IInv /\ ToRaw => IInv'
<1> SUFFICES ASSUME IInv, ToRaw PROVE IInv'
  OBVIOUS
<1> DEFINE t == Text(Kept(vars), "pretty")
<1>1. /\ TypeOK /\ Fits(areas) /\ Values /\ Shows /\ Keeps
      /\ form = "plan" /\ form' = form /\ raw = FALSE /\ raw' = TRUE /\ saves' = saves
      /\ refreshes' = refreshes
      /\ module' = module /\ vars' = vars /\ scanDue' = scanDue /\ wanted' = wanted
      /\ model' = <<t>> /\ areas' = Bound(areas, <<t>>)
      /\ ticks' = IF <<t>> = model THEN ticks ELSE ticks \cup Effects(1)
  BY DEF IInv, ToRaw
<1>2. Kept(vars) \in Contents /\ DOMAIN areas = {1} /\ areas \in Seq(Area)
  BY <1>1, RowsAndObjects DEF TypeOK, Keeps
<1>3. t \in Texts /\ t.content = Kept(vars)
  BY <1>2, MadeTexts DEF Layouts, Text
<1> HIDE DEF t
<1>4. <<t>> \in Seq(Texts) /\ DOMAIN <<t>> = {1} /\ <<t>>[1] = t
  BY <1>3
<1>5. \A i \in DOMAIN areas : Bare(areas[i]) \/ Dressed(areas[i])
  BY <1>1, BareOrDressed
<1>6. /\ areas' \in Seq(Area) /\ DOMAIN areas' = {1}
      /\ areas'[1].value = t /\ areas'[1].editors = areas[1].editors
      /\ Bare(areas[1]) => Bare(areas'[1])
      /\ Dressed(areas[1]) => Dressed(areas'[1])
  <2> DEFINE m == <<t>>
  <2>1. m \in Seq(Texts) /\ DOMAIN m = {1} /\ m[1] = t
    BY <1>4
  <2>2. areas' = Bound(areas, m)
    BY <1>1
  <2> HIDE DEF m
  <2> QED
    BY <1>2, <1>5, <2>1, <2>2, BoundFits
<1>7. TypeOK'
  <2>1. \A k \in ticks' : k[1] \in {"enhance", "sync"} /\ k[2] \in DOMAIN areas'
    BY <1>1, <1>2, <1>6 DEF TypeOK, Effects
  <2> QED
    BY <1>1, <1>2, <1>4, <1>6, <2>1 DEF TypeOK
<1>8. Fits(areas)'
  BY <1>1, <1>2, <1>6 DEF Fits
<1>9. Values'
  BY <1>1, <1>4, <1>6 DEF Values
<1>10. Shows'
  <2>1. CASE <<t>> = model
    <3>1. model[1] = t /\ areas[1].value = t
      BY <1>1, <1>2, <1>4, <2>1 DEF Values
    <3>2. ASSUME NEW k \in DOMAIN areas[1].editors, <<"sync", 1>> \notin ticks
          PROVE  areas[1].editors[k] = t
      BY <1>1, <1>2, <3>1, <3>2 DEF Shows
    <3>3. ticks' = ticks
      BY <1>1, <2>1
    <3>4. <<"sync", 1>> \notin ticks' =>
             \A k \in DOMAIN areas'[1].editors : areas'[1].editors[k] = areas'[1].value
      BY <1>6, <3>2, <3>3
    <3> QED
      BY <1>1, <1>6, <3>4 DEF Shows
  <2>2. CASE <<t>> # model
    <3>1. <<"sync", 1>> \in ticks'
      BY <1>1, <2>2 DEF Effects
    <3> QED
      BY <1>1, <1>6, <3>1 DEF Shows
  <2> QED
    BY <2>1, <2>2
<1>11. Keeps'
  BY <1>1, <1>3, <1>4, <1>6 DEF Keeps, Variables
<1> QED
  BY <1>7, <1>8, <1>9, <1>10, <1>11 DEF IInv

LEMMA ToStructuredKeeps == IInv /\ ToStructured => IInv'
<1> SUFFICES ASSUME IInv, ToStructured PROVE IInv'
  OBVIOUS
<1>1. /\ TypeOK /\ Fits(areas) /\ Values /\ Shows /\ Keeps
      /\ form = "plan" /\ form' = form /\ raw = TRUE /\ raw' = FALSE /\ saves' = saves
      /\ refreshes' = refreshes
      /\ module' = module /\ vars' = RowsOf(model[1].content) /\ scanDue' = scanDue
      /\ wanted' = wanted /\ model' = model /\ areas' = areas /\ ticks' = ticks
      /\ model[1].content \in JSONs
  BY DEF IInv, ToStructured, TypeOK, Valid
<1>2. TypeOK'
  BY <1>1, RowsAndObjects DEF TypeOK
<1>3. Fits(areas)' /\ Values' /\ Shows'
  BY <1>1 DEF Fits, Values, Shows
<1>4. Variables'
  <2> DEFINE w == wanted[1].content
  <2>1. model[1].content \in {w, Structured(w)}
    BY <1>1 DEF Keeps, Variables
  <2> HIDE DEF w
  <2>2. w \in JSONs
    BY <1>1, <2>1, RowsAndObjects
  <2>3. Structured(Structured(w)) = Structured(w)
    BY <2>2, RowsAndObjects
  <2>4. Kept(RowsOf(model[1].content)) = Structured(w)
    BY <2>1, <2>3 DEF Structured
  <2> QED
    BY <1>1, <2>2, <2>4 DEF Variables, w
<1>5. Keeps'
  BY <1>1, <1>4 DEF Keeps
<1> QED
  BY <1>2, <1>3, <1>5 DEF IInv

(* A page of rounds: it fits when the areas do and nothing else is due.    *)
LEMMA RoundsKeep ==
    ASSUME IInv, form = "step", form' = form, module' = module, vars' = vars, raw' = raw,
           saves' \in Nat, refreshes' \in Nat, saves' + refreshes' <= MaxSaves,
           scanDue' \in BOOLEAN, scanDue' => module = "loaded",
           model' \in Seq(Texts), wanted' = model', DOMAIN areas' = DOMAIN model',
           Fits(areas'), \A i \in DOMAIN model' : areas'[i].value = model'[i],
           \A k \in ticks' : k[1] \in {"enhance", "sync"} /\ k[2] \in DOMAIN areas'
    PROVE  IInv'
<1>1. TypeOK'
  BY DEF IInv, TypeOK, Fits
<1>2. Fits(areas)' /\ Values' /\ Shows'
  BY DEF Fits, Values, Shows
<1>3. Keeps'
  BY DEF Keeps
<1> QED
  BY <1>1, <1>2, <1>3 DEF IInv

LEMMA OpenKeeps ==
    ASSUME IInv, NEW m \in BoundedSeq(Typed[form] \cup {Blank}, MaxRounds), Open(m)
    PROVE  IInv'
<1> USE DEF page
<1>1. m \in Seq(Texts)
  <2>1. PICK n \in 0..MaxRounds : m \in [1..n -> Typed[form] \cup {Blank}]
    BY DEF BoundedSeq, SeqOf
  <2>2. Typed[form] \cup {Blank} \subseteq Texts
    BY EditorsAssumption, MadeTexts DEF EditorsAssumption, IInv, TypeOK
  <2>3. m \in [1..n -> Texts] /\ n \in Nat
    BY <2>1, <2>2, EditorsAssumption DEF EditorsAssumption
  <2> QED
    BY <2>3
<1>2. /\ Fits(areas') /\ DOMAIN areas' = DOMAIN m
      /\ \A i \in DOMAIN m : areas'[i].value = m[i]
  BY <1>1, EmptyFits, ObservedFits DEF Open
<1>3. \A k \in ticks' : k[1] \in {"enhance", "sync"} /\ k[2] \in DOMAIN areas'
  BY <1>2 DEF Open, Inits
<1> QED
  BY <1>1, <1>2, <1>3, RoundsKeep DEF Open, IInv, TypeOK

LEMMA AddRoundKeeps == IInv /\ AddRound => IInv'
<1> SUFFICES ASSUME IInv, AddRound PROVE IInv'
  OBVIOUS
<1> USE DEF page
<1>1. /\ form = "step" /\ model \in Seq(Texts) /\ wanted = model
      /\ DOMAIN areas = DOMAIN model /\ Fits(areas)
  BY DEF IInv, TypeOK, Keeps, AddRound
<1> DEFINE m == Append(model, Blank)
<1>2. m \in Seq(Texts) /\ DOMAIN model \subseteq DOMAIN m /\ Len(model) + 1 \in DOMAIN m
  BY <1>1, MadeTexts
<1>3. /\ model' = m /\ wanted' = m /\ areas' = Observed(Bound(areas, m))
      /\ ticks' = ticks \cup Inits({Len(model) + 1})
  BY <1>1 DEF AddRound
<1> HIDE DEF m
<1>4. /\ Fits(areas') /\ DOMAIN areas' = DOMAIN m
      /\ \A i \in DOMAIN m : areas'[i].value = m[i]
  BY <1>1, <1>2, <1>3, ObservedFits
<1>5. \A k \in ticks' : k[1] \in {"enhance", "sync"} /\ k[2] \in DOMAIN areas'
  BY <1>1, <1>2, <1>3, <1>4 DEF IInv, TypeOK, Inits
<1> QED
  BY <1>1, <1>2, <1>3, <1>4, <1>5, RoundsKeep DEF AddRound, IInv, TypeOK, Keeps

LEMMA RemoveRoundKeeps ==
    ASSUME IInv, NEW i \in DOMAIN model, RemoveRound(i)
    PROVE  IInv'
<1> USE DEF page
<1>1. /\ form = "step" /\ model \in Seq(Texts) /\ wanted = model
      /\ DOMAIN areas = DOMAIN model /\ Fits(areas) /\ i \in 1..Len(model)
  BY DEF IInv, TypeOK, Keeps, RemoveRound
<1> DEFINE m == RemoveAt(model, i)
<1>2. m \in Seq(Texts) /\ Len(m) = Len(model) - 1
  BY <1>1 DEF RemoveAt
<1>3. /\ model' = m /\ wanted' = m /\ areas' = Bound(areas, m)
      /\ ticks' = {k \in ticks : k[2] \in DOMAIN m}
  BY <1>1 DEF RemoveRound
<1> HIDE DEF m
<1>4. DOMAIN m \subseteq DOMAIN areas
  BY <1>1, <1>2
<1>5. /\ areas \in Seq(Area)
      /\ \A j \in DOMAIN areas : Bare(areas[j]) \/ Dressed(areas[j])
  BY <1>1, BareOrDressed DEF Fits
<1>6. /\ areas' \in Seq(Area) /\ DOMAIN areas' = DOMAIN m
      /\ \A j \in DOMAIN m : /\ areas'[j].value = m[j]
                             /\ Bare(areas[j]) => Bare(areas'[j])
                             /\ Dressed(areas[j]) => Dressed(areas'[j])
  BY <1>2, <1>3, <1>4, <1>5, BoundFits
<1>7. Fits(areas')
  BY <1>1, <1>4, <1>6 DEF Fits
<1>8. \A k \in ticks' : k[1] \in {"enhance", "sync"} /\ k[2] \in DOMAIN areas'
  BY <1>3, <1>6 DEF IInv, TypeOK
<1> QED
  BY <1>1, <1>2, <1>3, <1>6, <1>7, <1>8, RoundsKeep DEF RemoveRound, IInv, TypeOK, Keeps

(* Neither the answer to a save nor the refreshed tab asks what form the   *)
(* container holds by then.                                                *)
LEMMA ClearKeeps == IInv /\ (Cancel \/ Saved \/ TabRefreshed) => IInv'
<1> SUFFICES ASSUME IInv, Cancel \/ Saved \/ TabRefreshed PROVE IInv'
  OBVIOUS
<1> USE DEF page
<1>1. form = "step"
  BY DEF IInv, Keeps, Cancel, Saved, TabRefreshed
<1>2. model' = <<>> /\ areas' = <<>> /\ ticks' = {} /\ wanted' = <<>>
  BY DEF Cancel, Saved, TabRefreshed, Clear
<1>3. saves' \in Nat /\ refreshes' \in Nat /\ saves' + refreshes' <= MaxSaves
  BY EditorsAssumption DEF Cancel, Saved, TabRefreshed, IInv, TypeOK, EditorsAssumption
<1>4. /\ form' = form /\ module' = module /\ vars' = vars /\ raw' = raw
      /\ scanDue' \in BOOLEAN /\ (scanDue' => module = "loaded")
  <2>1. scanDue \in BOOLEAN /\ (scanDue => module = "loaded")
    BY DEF IInv, TypeOK, Keeps
  <2>2. CASE Cancel \/ Saved
    BY <2>1, <2>2 DEF Cancel, Saved
  <2>3. CASE TabRefreshed
    BY <2>3 DEF TabRefreshed
  <2> QED
    BY <2>2, <2>3
<1> QED
  BY <1>1, <1>2, <1>3, <1>4, EmptyFits, RoundsKeep DEF IInv, TypeOK, Keeps

LEMMA SaveKeeps == IInv /\ (Submit \/ SaveFails \/ RefreshFails) => IInv'
<1> SUFFICES ASSUME IInv, Submit \/ SaveFails \/ RefreshFails PROVE IInv'
  OBVIOUS
<1>1. /\ TypeOK /\ Fits(areas) /\ Values /\ Shows /\ Keeps
      /\ form = "step" /\ form' = form /\ vars' = vars /\ raw' = raw /\ module' = module
      /\ model' = model /\ areas' = areas /\ ticks' = ticks /\ scanDue' = scanDue
      /\ wanted' = wanted
  BY DEF IInv, Keeps, Submit, SaveFails, RefreshFails
<1>2. saves' \in Nat /\ refreshes' \in Nat /\ saves' + refreshes' <= MaxSaves
  BY EditorsAssumption DEF Submit, SaveFails, RefreshFails, IInv, TypeOK, EditorsAssumption
<1>3. TypeOK'
  BY <1>1, <1>2 DEF TypeOK
<1>4. Fits(areas)' /\ Values' /\ Shows' /\ Keeps'
  BY <1>1 DEF Fits, Values, Shows, Keeps
<1> QED
  BY <1>3, <1>4 DEF IInv

-----------------------------------------------------------------------------
(* Every step keeps the invariant.                                         *)
LEMMA NextKeeps == IInv /\ [Next]_evars => IInv'
<1> SUFFICES ASSUME IInv, [Next]_evars PROVE IInv'
  OBVIOUS
<1>1. CASE Browser
  BY <1>1, ModuleLoadsKeeps, ModuleFailsKeeps, RunNextTicksKeeps, RunScanKeeps DEF Browser
<1>2. ASSUME NEW i \in DOMAIN areas, NEW t \in Typed[form], Type(i, t) PROVE IInv'
  BY <1>2, TypeKeeps
<1>3. ASSUME NEW i \in DOMAIN areas, NEW layout \in {"pretty", "compact"},
             Format(i, layout)
      PROVE  IInv'
  BY <1>3, FormatKeeps
<1>4. ASSUME NEW o \in Rows, EditVars(o) PROVE IInv'
  BY <1>4, EditVarsKeeps
<1>5. CASE ToRaw \/ ToStructured
  BY <1>5, ToRawKeeps, ToStructuredKeeps
<1>6. ASSUME NEW m \in BoundedSeq(Typed[form] \cup {Blank}, MaxRounds) \ {<<>>}, Open(m)
      PROVE  IInv'
  BY <1>6, OpenKeeps
<1>7. CASE AddRound
  BY <1>7, AddRoundKeeps
<1>8. ASSUME NEW i \in DOMAIN model, RemoveRound(i) PROVE IInv'
  BY <1>8, RemoveRoundKeeps
<1>9. CASE Cancel \/ Saved \/ TabRefreshed
  BY <1>9, ClearKeeps
<1>10. CASE Submit \/ SaveFails \/ RefreshFails
  BY <1>10, SaveKeeps
<1>11. CASE UNCHANGED evars
  <2>1. TypeOK'
    BY <1>11 DEF IInv, TypeOK, evars
  <2>2. Fits(areas)' /\ Values' /\ Shows'
    BY <1>11 DEF IInv, Fits, Values, Shows, evars
  <2>3. Keeps'
    BY <1>11 DEF IInv, Keeps, Variables, evars
  <2> QED
    BY <2>1, <2>2, <2>3 DEF IInv
<1> QED
  BY <1>1, <1>2, <1>3, <1>4, <1>5, <1>6, <1>7, <1>8, <1>9, <1>10, <1>11 DEF Next, User, Server

LEMMA IInvHolds == Spec => []IInv
BY InitHolds, NextKeeps, PTL DEF Spec

-----------------------------------------------------------------------------
(* The state has its types; in particular the form's data, its textareas   *)
(* and the record of what was entered always agree on what is on the page. *)
THEOREM TypeCorrect == Spec => []TypeOK
<1>1. IInv => TypeOK
  BY DEF IInv
<1> QED
  BY <1>1, IInvHolds, PTL

(* However many triggers enhance an area, it has one editor once the       *)
(* module has loaded and none before: _cmDone, and the order of x-init,    *)
(* the observer and the scans.                                             *)
THEOREM OneEditorEachHolds == Spec => []OneEditorEach
<1>1. IInv => OneEditorEach
  <2>1. Len(<<>>) = 0
    OBVIOUS
  <2> QED
    BY <2>1 DEF IInv, Fits, Bare, Dressed, OneEditorEach
<1> QED
  BY <1>1, IInvHolds, PTL

(* Whatever is typed, and in whichever order, a script is sent as it is, a *)
(* round as the value of its text, and a plan's variables as entered when  *)
(* they are Plain, or else as the structured mode renders them, once it    *)
(* has had them; only for what is no JSON is {} sent instead.              *)
THEOREM SendsWhatWasEnteredHolds == Spec => []SendsWhatWasEntered
<1>1. ASSUME IInv PROVE SendsWhatWasEntered
  <2>1. TypeOK /\ Values /\ Keeps /\ form \in AllForms
    BY <1>1 DEF IInv, TypeOK
  <2>2. CASE form = "plan"
    <3> DEFINE w == wanted[1].content
    <3>1. /\ wanted \in Seq(Texts) /\ model \in Seq(Texts)
          /\ DOMAIN wanted = {1} /\ DOMAIN model = {1} /\ raw \in BOOLEAN
      BY <2>1, <2>2 DEF TypeOK, Keeps
    <3>2. IF raw THEN model[1].content \in {w, Structured(w)}
          ELSE w \in JSONs /\ Kept(vars) = Structured(w)
      BY <2>1, <2>2 DEF Keeps, Variables
    <3>3. Sent = <<IF ~raw THEN Text(Kept(vars), "compact")
                   ELSE IF Valid(model[1]) THEN model[1] ELSE Text("none", "compact")>>
      BY <2>2 DEF Sent
    <3>4. Sent[1].content = IF ~raw THEN Kept(vars)
                            ELSE IF model[1].content \in JSONs THEN model[1].content
                            ELSE "none"
      BY <3>3 DEF Valid, Text
    <3> HIDE DEF w
    <3>5. CASE w \in JSONs
      <4>1. Structured(w) \in JSONs /\ (w \in Plain => Structured(w) = w)
        BY <3>5, RowsAndObjects
      <4>2. Sent[1].content \in {w, Structured(w)} /\ (~raw => Sent[1].content = Structured(w))
        BY <3>1, <3>2, <3>4, <3>5, <4>1
      <4> QED
        BY <2>2, <3>5, <4>1, <4>2 DEF SendsWhatWasEntered, w
    <3>6. CASE w \notin JSONs
      <4>1. Structured(w) = w /\ w \notin Plain
        BY <3>6, RowsAndObjects
      <4>2. raw /\ Sent[1].content = "none"
        BY <3>1, <3>2, <3>4, <3>6, <4>1
      <4> QED
        BY <2>2, <3>6, <4>1, <4>2 DEF SendsWhatWasEntered, w
    <3> QED
      BY <3>5, <3>6
  <2>3. CASE form = "step"
    BY <2>1, <2>3 DEF Keeps, Sent, SendsWhatWasEntered
  <2>4. CASE form = "script"
    <3>1. /\ wanted \in Seq(Texts) /\ DOMAIN wanted = {1}
          /\ areas[1].value = wanted[1]
      BY <2>1, <2>4 DEF TypeOK, Keeps, Values
    <3>2. wanted = <<wanted[1]>>
      BY <3>1
    <3> QED
      BY <2>4, <3>1, <3>2 DEF Sent, SendsWhatWasEntered
  <2>5. CASE form = "detail"
    BY <2>5 DEF Sent, SendsWhatWasEntered
  <2> QED
    BY <2>1, <2>2, <2>3, <2>4, <2>5 DEF AllForms
<1> QED
  BY <1>1, IInvHolds, PTL

(* Once nothing is deferred, an editor shows what its textarea holds: the  *)
(* plan form's x-effect asks for a __cmSync whenever its text changes.     *)
THEOREM SettledShowsHolds == Spec => []SettledShows
<1>1. ASSUME IInv, ticks = {}, form # "step",
             NEW i \in DOMAIN areas, NEW k \in DOMAIN areas[i].editors
      PROVE  areas[i].editors[k] = IF form = "detail" THEN wanted[i] ELSE areas[i].value
  BY <1>1 DEF IInv, TypeOK, AllForms, Shows
<1>2. IInv => SettledShows
  BY <1>1 DEF SettledShows, Range
<1> QED
  BY <1>2, IInvHolds, PTL

=============================================================================
