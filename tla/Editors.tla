------------------------------ MODULE Editors ------------------------------
(***************************************************************************)
(* The text editors of the web interface: web/static/js/cm-components.js   *)
(* puts a CodeMirror editor in front of every textarea[data-cm], whenever  *)
(* one turns up, and the forms of web/templates keep the text in Alpine's  *)
(* data.  A text therefore lives in three places, the form's data, the     *)
(* textarea and the editor, and only the callbacks modelled here keep them *)
(* equal.                                                                  *)
(*                                                                         *)
(* JavaScript is single-threaded: an action is one event handler with the  *)
(* microtasks it leaves behind (Alpine's effects, the MutationObservers).  *)
(* What the handler defers with $nextTick or setTimeout is a later action, *)
(* and the user may come first.                                            *)
(***************************************************************************)
EXTENDS Naturals, Sequences, SequencesExt, FiniteSets

CONSTANTS
    Typed,       \* per form, the texts a user may type there
    Forms,       \* the forms a user may open
    MaxRounds,   \* bound on the message rounds of a step
    MaxSaves     \* bound on the saves and refreshes under way at one time

(* A plan's variables, by what becomes of them.                            *)
(*   Plain: no variable, or texts under names of their own: as entered,    *)
(*     made of a number or of a nested value ("[object Object]"), or named *)
(*     after the places of a list.                                         *)
(*   Rows, all that the structured mode can hold: also a name that is      *)
(*     blank, that is the same as another's once both are trimmed, or that *)
(*     has blanks around it.                                               *)
(*   Objects, what the database holds: also numbers and nested values.     *)
(*   JSONs, what JSON.parse accepts: also a scalar (5, true, null, or an   *)
(*     empty list or string) and a list or string with something in it.    *)
Plain    == {"none", "text", "asText", "mangled", "indexed"}
Rows     == Plain \cup {"unnamed", "doubled", "padded"}
Objects  == Rows \cup {"number", "nested"}
JSONs    == Objects \cup {"scalar", "list"}
Contents == JSONs \cup {"blank", "invalid"}
Layouts  == {"typed", "pretty", "compact"}
Texts    == [content : Contents, layout : Layouts]

(* plan: plans/form.html; step: steps/form.html, which htmx puts into and  *)
(* takes out of the page; script: scripts/form.html, a plain form field;   *)
(* detail: scripts/detail.html, which shows a script.                      *)
AllForms == {"plan", "step", "script", "detail"}

ASSUME EditorsAssumption ==
    /\ Typed \in [AllForms -> SUBSET Texts] /\ Forms \subseteq AllForms
    /\ MaxRounds \in Nat /\ MaxSaves \in Nat

VARIABLES
    form,      \* the form on the page
    module,    \* cm-components.js: pending, loaded or failed
    model,     \* Alpine's texts: rawJSON, or the send of each message round
    areas,     \* the textareas (and the viewer) of the page, in order
    vars,      \* plan form: its structured variables
    raw,       \* plan form: rawMode
    ticks,     \* deferred callbacks: <<"enhance" or "sync", an area's index>>
    scanDue,   \* a scan 50 ms after an htmx swap is due
    saves,     \* step form: the saves under way
    refreshes, \* ... and the refreshes of the steps' tab that follow them
    wanted     \* history: per text, what the user last entered there

evars == <<form, module, model, areas, vars, raw, ticks, scanDue, saves, refreshes,
           wanted>>

(* value: of the textarea, or the text of the viewer; done: _cmDone;       *)
(* editors: the texts of the editors in front of it.                       *)
Area == [value : Texts, done : BOOLEAN, editors : Seq(Texts)]

Text(c, l) == [content |-> c, layout |-> l]
Blank      == Text("blank", "typed")

(* JSON.parse accepts the text.                                            *)
Valid(t) == t.content \in JSONs

(* The rows made of a value: for (k in parsed), String(parsed[k]).         *)
RowsOf(c) ==
    CASE c = "number" -> "asText"
      [] c = "nested" -> "mangled"
      [] c = "scalar" -> "none"
      [] c = "list"   -> "indexed"
      [] OTHER        -> c

(* The object made of rows: names are trimmed, a row without one is left   *)
(* out, and of rows with one name the last counts.                         *)
Kept(o) ==
    CASE o = "unnamed"              -> "none"
      [] o \in {"doubled", "padded"} -> "text"
      [] OTHER                      -> o

(***************************************************************************)
(* cm-components.js.                                                       *)
(***************************************************************************)

(* Seeded fault: _cmDone is not looked at.                                 *)
EnhanceAgain(a) ==
    [a EXCEPT !.done = TRUE, !.editors = Append(@, a.value)]

(* enhance: a textarea gets its editor, once.                              *)
Enhance(a) ==
    IF a.done THEN a
    ELSE [a EXCEPT !.done = TRUE, !.editors = Append(@, a.value)]

(* enhanceViewer: the text of the element moves into the editor.           *)
EnhanceViewer(a) ==
    IF a.done THEN a
    ELSE [value |-> Blank, done |-> TRUE, editors |-> Append(a.editors, a.value)]

(* scan, and what the MutationObserver does with added nodes.              *)
Scan(as) ==
    [i \in DOMAIN as |->
        IF form = "detail" THEN EnhanceViewer(as[i]) ELSE Enhance(as[i])]

(* The observer exists once the module has loaded.                         *)
Observed(as) == IF module = "loaded" THEN Scan(as) ELSE as

(* A change of the text of an editor: onChange copies it to the textarea.  *)
Dispatch(a, t) ==
    [a EXCEPT !.value = t, !.editors = [i \in DOMAIN @ |-> t]]

(* Seeded fault: the two are mixed up.                                     *)
SyncBack(a) == IF a.editors = <<>> THEN a ELSE Dispatch(a, Head(a.editors))

(* __cmSync: the editor takes the textarea's text.                         *)
Sync(a) == IF a.editors = <<>> THEN a ELSE Dispatch(a, a.value)

(***************************************************************************)
(* Alpine.                                                                 *)
(***************************************************************************)

(* Seeded fault: the areas of removed rounds stay.                         *)
BoundKeeps(as, m) ==
    [i \in DOMAIN as \cup DOMAIN m |->
        IF i \in DOMAIN m /\ i \in DOMAIN as THEN [as[i] EXCEPT !.value = m[i]]
        ELSE IF i \in DOMAIN as THEN as[i]
        ELSE [value |-> m[i], done |-> FALSE, editors |-> <<>>]]

NewArea(t) == [value |-> t, done |-> FALSE, editors |-> <<>>]

(* x-model, from the data to the textareas: an effect writes every value   *)
(* that changed.  x-for has the round's index for a key, so the areas that *)
(* remain are the first ones, whatever round was removed.                  *)
Bound(as, m) ==
    [i \in DOMAIN m |-> IF i \in DOMAIN as THEN [as[i] EXCEPT !.value = m[i]]
                        ELSE NewArea(m[i])]

(* The x-init of a new area, for the area in place i.                      *)
Inits(is) == {<<"enhance", i>> : i \in is}

(* Seeded fault: the plan form has no x-effect either.                     *)
EffectsNone(i) == {}

(* The x-effect that only plans/form.html has.                             *)
Effects(i) == IF form = "plan" THEN {<<"sync", i>>} ELSE {}

(* releaseNextTicks: every $nextTick callback, in the order of the calls;  *)
(* an area is enhanced (by its x-init) before it is ever synchronised.     *)
RunTicks(as) ==
    [i \in DOMAIN as |->
        LET a == IF <<"enhance", i>> \in ticks THEN Observed(as)[i] ELSE as[i]
        IN  IF <<"sync", i>> \in ticks /\ module = "loaded" THEN Sync(a) ELSE a]

-----------------------------------------------------------------------------
(* A page as the server renders it.  Alpine starts before the module (it   *)
(* is a classic script, the module is deferred) and fills the textareas.   *)
Init ==
    /\ form \in Forms
    /\ module = "pending"
    /\ vars \in Rows
    /\ raw = FALSE
    /\ \E t \in Texts :
          /\ form = "plan" => /\ t.layout = "pretty" /\ t.content \in Objects
                              /\ vars = RowsOf(t.content)
          /\ form # "plan" => t.layout = "typed" /\ vars = "none"
          /\ model  = IF form = "plan" THEN <<t>> ELSE <<>>
          /\ areas  = IF form = "step" THEN <<>> ELSE <<NewArea(t)>>
          /\ wanted = IF form = "step" THEN <<>> ELSE <<t>>
          /\ ticks  = IF form = "plan" THEN {<<"enhance", 1>>, <<"sync", 1>>} ELSE {}
    /\ scanDue = FALSE
    /\ saves = 0 /\ refreshes = 0

page == <<form, vars, raw, saves, refreshes>>

(* The module's script runs to its end: the first scan, then the listener  *)
(* and the observer.                                                       *)
ModuleLoads ==
    /\ module = "pending"
    /\ module' = "loaded"
    /\ areas' = Scan(areas)
    /\ UNCHANGED <<page, model, ticks, scanDue, wanted>>

(* It cannot be fetched or throws: the textareas stay as they are.         *)
ModuleFails ==
    /\ module = "pending"
    /\ module' = "failed"
    /\ UNCHANGED <<page, model, areas, ticks, scanDue, wanted>>

(* An editor that is synchronised sends an input event of its own, which   *)
(* hands the text back to x-model.                                         *)
RunNextTicks ==
    /\ ticks # {}
    /\ ticks' = {}
    /\ areas' = RunTicks(areas)
    /\ model' = [i \in DOMAIN model |-> areas'[i].value]
    /\ UNCHANGED <<page, module, scanDue, wanted>>

(* The htmx:afterSwap listener's setTimeout.                               *)
RunScan ==
    /\ scanDue
    /\ scanDue' = FALSE
    /\ areas' = Scan(areas)
    /\ UNCHANGED <<page, module, model, ticks, wanted>>

-----------------------------------------------------------------------------
(* The user.                                                               *)

(* Area i gets the text t from the user, in the editor or, for want of it, *)
(* in the textarea; its input event reaches x-model.                       *)
Enter(i, t) ==
    /\ areas' = [areas EXCEPT ![i] = Dispatch(@, t)]
    /\ model' = IF i \in DOMAIN model
                THEN [model EXCEPT ![i] = areas'[i].value] ELSE model
    /\ ticks' = ticks \cup Effects(i)
    /\ wanted' = [wanted EXCEPT ![i] = t]
    /\ UNCHANGED <<page, module, scanDue>>

Editable == form # "detail" /\ (form = "plan" => raw)

Type(i, t) == Editable /\ Enter(i, t)

(* The buttons of a JSON editor: JSON.parse may throw, and then nothing    *)
(* happens.                                                                *)
Format(i, layout) ==
    /\ Editable /\ form # "script"
    /\ areas[i].editors # <<>>
    /\ LET t == Head(areas[i].editors)
       IN  Valid(t) /\ Enter(i, [t EXCEPT !.layout = layout])

(* The inputs of the structured mode.                                      *)
EditVars(o) ==
    /\ form = "plan" /\ ~raw
    /\ vars' = o
    /\ wanted' = <<Text(o, "typed")>>
    /\ UNCHANGED <<form, raw, saves, refreshes, module, model, areas, ticks, scanDue>>

(* toggleMode: to the raw text, and back only from valid JSON.             *)
ToRaw ==
    /\ form = "plan" /\ ~raw
    /\ raw' = TRUE
    /\ model' = <<Text(Kept(vars), "pretty")>>
    /\ areas' = Bound(areas, model')
    /\ ticks' = IF model' = model THEN ticks ELSE ticks \cup Effects(1)
    /\ UNCHANGED <<form, vars, saves, refreshes, module, scanDue, wanted>>

ToStructured ==
    /\ form = "plan" /\ raw /\ Valid(model[1])
    /\ raw' = FALSE
    /\ vars' = RowsOf(model[1].content)
    /\ UNCHANGED <<form, saves, refreshes, module, model, areas, ticks, scanDue, wanted>>

(* htmx puts the form of a step with the rounds m into the container, over *)
(* the form that was there.  Alpine's observer fills the areas before the  *)
(* module's, which is younger, sees them.                                  *)
Open(m) ==
    /\ form = "step"
    /\ model' = m
    /\ areas' = Observed(Bound(<<>>, m))
    /\ ticks' = Inits(DOMAIN m)
    /\ scanDue' = (module = "loaded")
    /\ wanted' = m
    /\ UNCHANGED <<page, module>>

AddRound ==
    /\ form = "step" /\ model # <<>> /\ Len(model) < MaxRounds
    /\ model' = Append(model, Blank)
    /\ areas' = Observed(Bound(areas, model'))
    /\ ticks' = ticks \cup Inits({Len(model) + 1})
    /\ wanted' = Append(wanted, Blank)
    /\ UNCHANGED <<page, module, scanDue>>

(* ws.messages.splice(mi, 1): the last area leaves the page.               *)
RemoveRound(i) ==
    /\ form = "step" /\ Len(model) > 1
    /\ model' = RemoveAt(model, i)
    /\ areas' = Bound(areas, model')
    /\ ticks' = {k \in ticks : k[2] \in DOMAIN model'}
    /\ wanted' = RemoveAt(wanted, i)
    /\ UNCHANGED <<page, module, scanDue>>

(* cancel and the end of submitStep empty the container.                   *)
Clear ==
    /\ model' = <<>> /\ areas' = <<>> /\ ticks' = {} /\ wanted' = <<>>

Cancel ==
    /\ form = "step" /\ model # <<>>
    /\ Clear
    /\ UNCHANGED <<page, module, scanDue>>

(* submitStep sends the data and leaves the form as it is ...              *)
Submit ==
    /\ form = "step" /\ model # <<>> /\ saves + refreshes < MaxSaves
    /\ saves' = saves + 1
    /\ UNCHANGED <<form, vars, raw, refreshes, module, model, areas, ticks, scanDue, wanted>>

(* ... until the answer comes: the steps' tab is asked for anew and the    *)
(* container emptied, whichever form it holds by then.                     *)
Saved ==
    /\ saves > 0
    /\ saves' = saves - 1 /\ refreshes' = refreshes + 1
    /\ Clear
    /\ UNCHANGED <<form, vars, raw, module, scanDue>>

SaveFails ==
    /\ saves > 0
    /\ saves' = saves - 1
    /\ UNCHANGED <<form, vars, raw, refreshes, module, model, areas, ticks, scanDue, wanted>>

(* The tab arrives: its new, empty container replaces the old one and the  *)
(* form that was opened since.                                             *)
TabRefreshed ==
    /\ refreshes > 0
    /\ refreshes' = refreshes - 1
    /\ Clear
    /\ scanDue' = (module = "loaded")
    /\ UNCHANGED <<form, vars, raw, saves, module>>

(* It does not, or htmx drops the request for a later one.                 *)
RefreshFails ==
    /\ refreshes > 0
    /\ refreshes' = refreshes - 1
    /\ UNCHANGED <<form, vars, raw, saves, module, model, areas, ticks, scanDue, wanted>>

Browser == ModuleLoads \/ ModuleFails \/ RunNextTicks \/ RunScan

User ==
    \/ \E i \in DOMAIN areas :
          \/ \E t \in Typed[form] : Type(i, t)
          \/ \E layout \in {"pretty", "compact"} : Format(i, layout)
    \/ \E o \in Rows : EditVars(o)
    \/ ToRaw \/ ToStructured
    \/ \E m \in BoundedSeq(Typed[form] \cup {Blank}, MaxRounds) \ {<<>>} : Open(m)
    \/ AddRound
    \/ \E i \in DOMAIN model : RemoveRound(i)
    \/ Cancel \/ Submit

Server == Saved \/ SaveFails \/ TabRefreshed \/ RefreshFails

Next == Browser \/ User \/ Server

Spec == Init /\ [][Next]_evars

-----------------------------------------------------------------------------
(***************************************************************************)
(* Properties.                                                             *)
(***************************************************************************)
TypeOK ==
    /\ form \in AllForms /\ module \in {"pending", "loaded", "failed"}
    /\ model \in Seq(Texts) /\ wanted \in Seq(Texts)
    /\ areas \in Seq(Area)
    /\ DOMAIN wanted = DOMAIN areas
    /\ DOMAIN model = IF form \in {"plan", "step"} THEN DOMAIN areas ELSE {}
    /\ vars \in Rows
    /\ raw \in BOOLEAN /\ scanDue \in BOOLEAN
    /\ \A k \in ticks : k[1] \in {"enhance", "sync"} /\ k[2] \in DOMAIN areas
    /\ saves \in Nat /\ refreshes \in Nat /\ saves + refreshes <= MaxSaves

(* Four triggers enhance an area: the first scan, the one after an htmx    *)
(* swap, the observer and the template's x-init.  Whichever come, an area  *)
(* has one editor as soon as the module has loaded, and none before.       *)
OneEditorEach ==
    \A i \in DOMAIN areas :
        Len(areas[i].editors) = IF module = "loaded" THEN 1 ELSE 0

(* buildConfig: a round's text is sent as the value it stands for, and as  *)
(* it is when JSON.parse refuses it.                                       *)
AsValue(t)      == IF Valid(t) THEN [t EXCEPT !.layout = "compact"] ELSE t
BuildConfig(ts) == [i \in DOMAIN ts |-> AsValue(ts[i])]

(* What a form would send now: the rounds of a step, the code of a script, *)
(* getVariablesJSON of a plan.                                             *)
Sent ==
    CASE form = "plan" ->
            <<IF ~raw THEN Text(Kept(vars), "compact")
              ELSE IF Valid(model[1]) THEN model[1] ELSE Text("none", "compact")>>
      [] form = "step"   -> BuildConfig(model)
      [] form = "script" -> <<areas[1].value>>
      [] form = "detail" -> wanted

(* What passes through the structured mode comes out as its rows' object.  *)
Structured(c) == Kept(RowsOf(c))

(* A form sends what the user last entered, through whichever of editor,   *)
(* textarea and structured inputs, before or after the module loaded and   *)
(* whatever is still deferred.  A script is sent as it is, and a round of  *)
(* a step as the value its text stands for.  A plan's variables are sent   *)
(* as entered when they are Plain.  For the rest the form may send what    *)
(* its structured mode makes of them, and surely does so in that mode:     *)
(* numbers become texts, nested values "[object Object]", a scalar {}, the *)
(* members of a list variables named after their places, names are         *)
(* trimmed, a variable without a name is lost, and so is all but the last  *)
(* of one name.  For what is no JSON, {} is sent.                          *)
SendsWhatWasEntered ==
    CASE form = "plan" ->
            LET w == wanted[1].content
                s == Sent[1].content
            IN  /\ w \in Plain => s = w
                /\ w \in JSONs => s \in {w, Structured(w)} /\ (~raw => s = Structured(w))
                /\ w \notin JSONs => raw /\ s = "none"
      [] form = "step" -> Sent = BuildConfig(wanted)
      [] OTHER -> Sent = wanted

(* Once nothing is deferred, an editor shows the text that is sent, and    *)
(* the viewer the script; the rounds of a step are another matter.         *)
SettledShows ==
    ticks = {} /\ form # "step" =>
        \A i \in DOMAIN areas : \A e \in Range(areas[i].editors) :
            e = IF form = "detail" THEN wanted[i] ELSE areas[i].value

(* cm-components.js:135 says of __cmSync that it takes changes of the      *)
(* Alpine model to the editor "when outside code modifies textarea.value". *)
(* Once nothing is deferred, the editor of a message round therefore shows *)
(* the text of that round.                                                 *)
RoundsShow ==
    ticks = {} => \A i \in DOMAIN areas : \A e \in Range(areas[i].editors) :
                      form = "step" => e = model[i]

=============================================================================
