------------------------------- MODULE Awards -------------------------------
(***************************************************************************)
(* The service award of blockchain/src/awards.rs: accounts take part until *)
(* they fail, and a lucky random pays the budget to one that did not.      *)
(* Accounts are numbers in the order of their keys.                        *)
(***************************************************************************)
EXTENDS Naturals, FiniteSets

CONSTANTS
    Accounts,
    ServiceAward,       \* service_award_per_epoch
    Lucky(_),           \* chkbits of a random, external
    shrink_hash(_),     \* external
    Active, Failed,     \* ValidatorAwardState
    NoState,            \* no entry in a map of activity
    NoWinner

AwardStates == {Active, Failed, NoState}

NewAwards == [budget |-> 0, activity |-> [a \in Accounts |-> NoState]]

\* Failed is for ever, whatever the order in which the activity comes.
finalize_epoch(awards, activity) ==
    [budget |-> awards.budget + ServiceAward,
     activity |-> [a \in Accounts |->
        IF activity[a] = NoState \/ awards.activity[a] = Failed
        THEN awards.activity[a] ELSE activity[a]]]

Participants(awards) == {a \in Accounts : awards.activity[a] = Active}

\* The participant that check_winners takes out of the sorted list.
Winner(awards, random) ==
    LET list == Participants(awards)
    IN  CHOOSE a \in list :
            Cardinality({b \in list : b < a}) = shrink_hash(random) % Cardinality(list)

\* The winner with the amount, and the awards that are left.
check_winners(awards, random) ==
    LET cleared == [budget |-> awards.budget, activity |-> NewAwards.activity]
    IN  IF ~ Lucky(random)
        THEN [winner |-> NoWinner, amount |-> 0, awards |-> awards]
        ELSE IF Participants(awards) = {}
        THEN [winner |-> NoWinner, amount |-> 0, awards |-> cleared]
        ELSE [winner |-> Winner(awards, random), amount |-> awards.budget,
              awards |-> NewAwards]
=============================================================================
