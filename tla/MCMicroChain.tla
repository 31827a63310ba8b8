---------------------------- MODULE MCMicroChain ----------------------------
(***************************************************************************)
(* Instances of MicroChain for TLC.                                        *)
(***************************************************************************)
EXTENDS MicroChain, TLC

CONSTANTS a, c, d    \* validators

\* Four slots, of which three are a quorum.
MCSlots == (a :> 1) @@ (c :> 2) @@ (d :> 1)

\* The leader goes round with the offset and the view, among those left:
\* two forks have the same leaders.
MCRoundRobin(random, vc, group) ==
    LET order == SelectSeq(<<d, a, c>>, LAMBDA v : v \in group)
    IN  order[((Len(random) + vc) % Len(order)) + 1]

\* The faulty d gets its turn after a, who may sign two blocks, and before c;
\* the turn of one who has been slashed goes to the next in the order.
MCFollowed(random, vc, group) ==
    LET order == <<a, c, d>>
        turns == [k \in 0 .. 2 |-> order[((Len(random) + 2 * vc + k) % 3) + 1]]
        first == CHOOSE k \in 0 .. 2 :
                    turns[k] \in group /\ \A j \in 0 .. k - 1 : turns[j] \notin group
    IN  turns[first]

\* A faulty leader accuses the honest of what they have not done, or nobody.
MCAccuses(tx) == ~tx.sound

MCAccusesNobody(tx) == FALSE
=============================================================================
