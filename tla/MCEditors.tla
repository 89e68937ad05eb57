----------------------------- MODULE MCEditors -----------------------------
(* Editors on a small instance: every form, a user who types any text into *)
(* that of a plan and who empties a text of the others or types a valid or *)
(* an invalid one.                                                         *)
EXTENDS Editors

ThreeTexts == {Blank, Text("number", "typed"), Text("invalid", "typed")}

SmallTyped ==
    [f \in AllForms |->
        IF f = "plan" THEN {Text(c, "typed") : c \in Contents} ELSE ThreeTexts]
=============================================================================
