---------------------------- MODULE MCDiscovery ----------------------------
(* Node 0 and its friend 4; 4, 5 and 6 are in one bucket that holds two.   *)
EXTENDS Discovery

MCTo == [m \in Messages |-> IF m = "a" THEN 6 ELSE 0]
MCKnows == [p \in Peers |-> IF p = 4 THEN {0, 5, 6} ELSE {}]
MCMyIds == <<0, 1>>
=============================================================================
