------------------------------ MODULE Election ------------------------------
(***************************************************************************)
(* The lotteries of blockchain/src/election.rs.  Keys of validators are    *)
(* numbers in the order in which the program sorts them, and a group of    *)
(* stakers or validators is the weight of every key, 0 outside the group.  *)
(***************************************************************************)
EXTENDS Naturals, FiniteSetsExt

CONSTANTS
    Validators,         \* the network keys
    SlotCount,          \* max_slot_count
    generate_u64(_, _)  \* the draw made from a random and an index, external

ASSUME ElectionAssumption ==
    /\ Validators \subseteq Nat \ {0}
    /\ SlotCount \in Nat \ {0}

Members(group) == {v \in DOMAIN group : group[v] > 0}

WeightUpTo(group, v) ==
    MapThenSumSet(LAMBDA w : group[w], {w \in DOMAIN group : w <= v})

select_winner(group, random) ==
    LET need == random % WeightUpTo(group, Max(DOMAIN group))
    IN  Min({v \in DOMAIN group : WeightUpTo(group, v) > need})

select_validators_slots(stakers, random) ==
    [random |-> random,
     view_change |-> 0,
     validators |->
        [v \in DOMAIN stakers |->
            Cardinality({i \in 0 .. SlotCount - 1 :
                select_winner(stakers, generate_u64(random, i)) = v})]]

select_leader(election_result, view_change) ==
    select_winner(election_result.validators,
                  generate_u64(election_result.random, view_change))
=============================================================================
