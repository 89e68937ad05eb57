------------------------------ MODULE MCPomelo ------------------------------
(* Pomelo on small configurations.                                         *)
EXTENDS Wire

Plain == [send |-> FALSE, request |-> FALSE, expect |-> FALSE,
          captures |-> FALSE, asserts |-> FALSE]

Request   == [Plain EXCEPT !.send = TRUE, !.request = TRUE, !.asserts = TRUE]
Notify    == [Plain EXCEPT !.send = TRUE, !.expect = TRUE]
Listen    == [Plain EXCEPT !.expect = TRUE, !.asserts = TRUE]
Collect   == [Plain EXCEPT !.captures = TRUE]
Pointless == [Plain EXCEPT !.request = TRUE]

(* A login by notify and then a request, as in the tests; a request after  *)
(* an empty round, then a round that only listens; one that only captures. *)
SomeConfigs == {<<Notify, Request>>, <<Pointless, Request, Listen>>, <<Collect>>}

(* Ids on both sides of where they take another byte; the second id of a   *)
(* client that has sent 126 messages does.                                 *)
SomeBases == {126, 2097150}
SomeIDs == {0, 1} \cup {127, 128, 16383, 16384, 2097151, 2097152, 268435455,
                        268435456, 2147483647}
SomeLengths == {0, 1, 255, 256, 65536}

OneRequest == {<<Request>>}
=============================================================================
