------------------------------ MODULE MCSteps ------------------------------
(* Steps on a small instance: plans of two steps of every kind.            *)
EXTENDS Steps

Def(kind, timed, bad, scripts, captures, rounds) ==
    [kind |-> kind, timed |-> timed, bad |-> bad, scripts |-> scripts,
     captures |-> captures, rounds |-> rounds]

Defs == {Def("http", TRUE, FALSE, 2, TRUE, 1), Def("http", FALSE, FALSE, 0, FALSE, 1),
         Def("ws", TRUE, FALSE, 0, TRUE, 2), Def("ws", FALSE, FALSE, 0, FALSE, 1),
         Def("delay", TRUE, FALSE, 0, FALSE, 1), Def("delay", FALSE, TRUE, 0, FALSE, 1)}

SmallPlans == {[timed |-> t, steps |-> <<a, b>>] : t \in BOOLEAN, a, b \in Defs}
=============================================================================
