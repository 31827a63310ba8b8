---------------------------- MODULE MCOverlay ----------------------------
(* A ring of three nodes; node 1 is a seed of the others. *)
EXTENDS Overlay

MCFriends == {<<3, 1>>, <<3, 2>>}
MCSeeds == {<<2, 1>>, <<3, 1>>, <<3, 2>>}
=============================================================================
