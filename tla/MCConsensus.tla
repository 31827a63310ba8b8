---------------------------- MODULE MCConsensus ----------------------------
(***************************************************************************)
(* Instances of Consensus for TLC.                                         *)
(***************************************************************************)
EXTENDS Consensus, TLC

CONSTANTS
    a, c, d,        \* validators
    w, x, y, z      \* macro blocks

\* Four slots, of which three are a quorum; d is faulty and leads round 1.
MCSlots == (a :> 2) @@ (c :> 1) @@ (d :> 1)
MCOrder == <<a, c, d>>
MCLeader == (0 :> c) @@ (1 :> d) @@ (2 :> a)

\* x is what the honest c creates, w and z what the faulty d does; w is not
\* valid.  y is a block of a, in the run that is about losing x's lock.
MCOrigin == (w :> 1) @@ (x :> 0) @@ (z :> 1)
MCOriginWithY == (x :> 0) @@ (y :> 2) @@ (z :> 1)

\* The faulty d leads first, with a valid block x and an invalid one w; then a,
\* which repeats x if it is locked on it and proposes y if not.
MCLeaderLive == (0 :> d) @@ (1 :> a) @@ (2 :> c)
MCOriginLive == (w :> 0) @@ (x :> 0) @@ (y :> 1)
=============================================================================
