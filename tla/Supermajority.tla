--------------------------- MODULE Supermajority ---------------------------
(***************************************************************************)
(* Weighted voting.  Every validator owns a number of slots, assigned by   *)
(* the election, and a decision needs more than two thirds of all slots.   *)
(* blockchain/src/multisignature.rs.                                       *)
(***************************************************************************)
EXTENDS Integers, FiniteSets, FiniteSetsExt

CONSTANTS
    Validators,     \* the consensus group: public keys
    Slots           \* Slots[v]: the slots of validator v

ASSUME SlotsAssumption ==
    /\ IsFiniteSet(Validators)
    /\ Validators # {}
    /\ Slots \in [Validators -> Nat \ {0}]

\* The slots that a group of validators owns together.
SlotsOf(group) == MapThenSumSet(LAMBDA v : Slots[v], group)

total_slots == SlotsOf(Validators)

\* got >= need, where need is the integer quotient (2 * total + 3) / 3.
check_supermajority(got, total) == got >= (2 * total + 3) \div 3

\* The group's votes, or its multi-signature, make a supermajority.
Quorum(group) == check_supermajority(SlotsOf(group), total_slots)

Quorums == {group \in SUBSET Validators : Quorum(group)}

\* Two supermajorities always share a member of the group.
QuorumsMeetIn(group) == \A q1, q2 \in Quorums : q1 \cap q2 \cap group # {}
=============================================================================
