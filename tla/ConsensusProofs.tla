-------------------------- MODULE ConsensusProofs --------------------------
(***************************************************************************)
(* Proofs about Consensus, for every group of validators, every number of  *)
(* rounds, blocks and restarts.  First supermajorities, then the state     *)
(* machine of one validator: what each of its operators preserves.  Then   *)
(* the inductive invariant of the whole system and the theorems that       *)
(* follow from it.                                                         *)
(***************************************************************************)
EXTENDS Consensus, Induction

-----------------------------------------------------------------------------
(* What a supermajority of slots promises, for every group of validators and *)
(* every assignment of slots *)

LEMMA SlotsOfIsSum ==
    ASSUME NEW group
    PROVE  SlotsOf(group) = SumOver(Slots, group)
BY DEF SlotsOf, MapThenSumSet, MapThenFoldSet, SumOver, Sums, IsSum, Pick

\* Slots are counted once, in any order.
LEMMA SlotsAdd ==
    ASSUME NEW A \in SUBSET Validators, NEW B \in SUBSET Validators, A \cap B = {}
    PROVE  /\ SlotsOf(A) \in Nat /\ SlotsOf(B) \in Nat
           /\ SlotsOf(A \cup B) = SlotsOf(A) + SlotsOf(B)
<1>1. IsFiniteSet(Validators) /\ Slots \in [Validators -> Nat]
  BY SlotsAssumption
<1>2. SumOver(Slots, A) \in Nat /\ SumOver(Slots, B) \in Nat
  BY <1>1, SumNat
<1>3. SumOver(Slots, A \cup B) = SumOver(Slots, A) + SumOver(Slots, B)
  BY <1>1, SumUnion
<1> QED BY <1>2, <1>3, SlotsOfIsSum

\* Two supermajorities have more than a third of all slots in common: as long
\* as the faulty validators have a third or less, some honest validator is in
\* both.  It is what check_supermajority is for.
THEOREM SupermajoritiesMeet ==
    ASSUME NEW faulty \in SUBSET Validators, 3 * SlotsOf(faulty) <= total_slots
    PROVE  QuorumsMeetIn(Validators \ faulty)
<1> SUFFICES ASSUME NEW q1 \in Quorums, NEW q2 \in Quorums,
                    q1 \cap q2 \cap (Validators \ faulty) = {}
             PROVE  FALSE
  BY DEF QuorumsMeetIn
<1>1. /\ q1 \in SUBSET Validators /\ check_supermajority(SlotsOf(q1), total_slots)
      /\ q2 \in SUBSET Validators /\ check_supermajority(SlotsOf(q2), total_slots)
  BY DEF Quorums, Quorum
<1> DEFINE both == q1 \cap q2
           rest == Validators \ (q1 \cup q2)
<1>2. /\ SlotsOf(both) \in Nat /\ SlotsOf(q1 \ q2) \in Nat
      /\ SlotsOf(q1) = SlotsOf(both) + SlotsOf(q1 \ q2)
  <2>1. q1 = both \cup (q1 \ q2) /\ both \cap (q1 \ q2) = {}
    OBVIOUS
  <2>2. both \in SUBSET Validators /\ q1 \ q2 \in SUBSET Validators
    BY <1>1
  <2> HIDE DEF both
  <2> QED BY <2>1, <2>2, SlotsAdd
<1>3. /\ SlotsOf(rest) \in Nat /\ SlotsOf(q2) \in Nat
      /\ total_slots = SlotsOf(q1 \ q2) + SlotsOf(q2) + SlotsOf(rest)
  <2>1. /\ q1 \ q2 \in SUBSET Validators /\ rest \in SUBSET Validators
        /\ (q1 \ q2) \cap q2 = {} /\ ((q1 \ q2) \cup q2) \cap rest = {}
        /\ ((q1 \ q2) \cup q2) \cup rest = Validators
    BY <1>1
  <2>2. SlotsOf((q1 \ q2) \cup q2) = SlotsOf(q1 \ q2) + SlotsOf(q2)
    BY <1>1, <2>1, SlotsAdd
  <2>3. /\ SlotsOf(rest) \in Nat /\ SlotsOf(q2) \in Nat
        /\ SlotsOf(((q1 \ q2) \cup q2) \cup rest) = SlotsOf((q1 \ q2) \cup q2) + SlotsOf(rest)
    <3> HIDE DEF rest
    <3>1. (q1 \ q2) \cup q2 \in SUBSET Validators
      BY <1>1
    <3> QED BY <1>1, <2>1, <3>1, SlotsAdd
  <2> QED BY <2>1, <2>2, <2>3 DEF total_slots
<1>4. /\ SlotsOf(faulty \ both) \in Nat
      /\ SlotsOf(faulty) = SlotsOf(both) + SlotsOf(faulty \ both)
  <2>1. both \subseteq faulty
    BY <1>1
  <2>2. faulty = both \cup (faulty \ both) /\ both \cap (faulty \ both) = {}
    BY <2>1
  <2>3. both \in SUBSET Validators /\ faulty \ both \in SUBSET Validators
    BY <1>1
  <2> HIDE DEF both
  <2> QED BY <2>2, <2>3, SlotsAdd
<1> HIDE DEF both, rest
<1> QED BY <1>1, <1>2, <1>3, <1>4 DEF check_supermajority

\* If the faulty validators have less than a third of the slots, the others
\* are a supermajority without them.
THEOREM HonestAreEnough ==
    ASSUME NEW faulty \in SUBSET Validators, 3 * SlotsOf(faulty) < total_slots
    PROVE  Quorum(Validators \ faulty)
<1>1. /\ SlotsOf(faulty) \in Nat /\ SlotsOf(Validators \ faulty) \in Nat
      /\ SlotsOf(faulty \cup (Validators \ faulty)) = SlotsOf(faulty) + SlotsOf(Validators \ faulty)
  <2>1. Validators \ faulty \in SUBSET Validators /\ faulty \cap (Validators \ faulty) = {}
    OBVIOUS
  <2> QED BY <2>1, SlotsAdd
<1>2. faulty \cup (Validators \ faulty) = Validators
  OBVIOUS
<1>3. total_slots = SlotsOf(faulty) + SlotsOf(Validators \ faulty)
  BY <1>1, <1>2 DEF total_slots
<1>4. \A f, h \in Nat : 3 * f < f + h => check_supermajority(h, f + h)
  BY DEF check_supermajority
<1> QED BY <1>1, <1>3, <1>4 DEF Quorum

-----------------------------------------------------------------------------
(* The state of one validator, between the steps and inside a handler *)

Active == {"Prevote", "Precommit", "Commit"}

\* What holds of the state s of v at every point of a handler.
LocalInv(v, s) ==
    /\ s \in ConsensusStates
    /\ s.state \notin Active =>
         s.hash = NoBlock /\ s.prevotes = {} /\ s.precommits = {}
    /\ s.state \in Active => s.hash \in Blocks
    /\ s.state \in {"Precommit", "Commit"} =>
         \E q \in SUBSET s.prevotes : Quorum(q)
    /\ s.state = "Commit" => Quorum(s.precommits)
    /\ v \in s.prevotes => s.lock = NoBlock /\ s.saved
    /\ v \in s.precommits => v \in s.prevotes
    /\ s.lock = NoBlock => s.lockVotes = {}
    /\ s.lock # NoBlock => s.lock # s.hash /\ s.lock \in Valid
    /\ s.saved => s.hash \in Valid

\* The outbox holds votes, and the proposal, of v for the block of the round.
OutboxOf(v, s) ==
    \A m \in s.outbox :
        /\ m.from = v /\ m.round = s.round /\ m.block = s.hash
        /\ m.type = "Precommit" => v \in s.prevotes

\* A node that sends anything votes, or sees that the others have agreed.
OutboxInv(v, s) ==
    /\ OutboxOf(v, s)
    /\ s.outbox # {} => v \in s.prevotes \/ s.state = "Commit"

Vote(type, round, b, w) ==
    [type |-> type, round |-> round, block |-> b, from |-> w]

\* Every vote of an honest validator that s counts was cast.
Counted(s) ==
    /\ \A w \in s.prevotes \cap Honest :
         Vote("Prevote", s.round, s.hash, w) \in msgs \cup s.outbox
    /\ \A w \in s.precommits \cap Honest :
         \/ Signed(w, s.hash)
         \/ Vote("Precommit", s.round, s.hash, w) \in s.outbox
    /\ \A w \in s.lockVotes \cap Honest : Signed(w, s.lock)

Good(v, s) == LocalInv(v, s) /\ OutboxInv(v, s) /\ Counted(s)

\* t is s after some votes for the block of the round.
Voted(s, t) ==
    /\ t.round = s.round /\ t.hash = s.hash
    /\ t.lock = s.lock /\ t.lockVotes = s.lockVotes
    /\ t.timer = s.timer /\ t.autocommit = s.autocommit
    /\ s.prevotes \subseteq t.prevotes
    /\ s.saved => t.saved
    /\ t.state \in Active

LEMMA ToCommitGood ==
    ASSUME NEW v \in Honest, NEW s, Good(v, s), s.state \in Active
    PROVE  Good(v, ToCommit(s)) /\ Voted(s, ToCommit(s))
<1>1. LocalInv(v, ToCommit(s)) /\ Voted(s, ToCommit(s))
    BY DEF Good, LocalInv, Voted, ToCommit, ConsensusStates, Active
<1>2. OutboxInv(v, ToCommit(s)) /\ Counted(ToCommit(s))
    BY DEF Good, LocalInv, OutboxInv, OutboxOf, Counted, ToCommit, ConsensusStates
<1> QED BY <1>1, <1>2 DEF Good

LEMMA precommitGood ==
    ASSUME NEW v \in Honest, NEW s,
           Good(v, s), s.state = "Precommit", v \in s.prevotes
    PROVE  Good(v, precommit(v, s)) /\ Voted(s, precommit(v, s))
<1> DEFINE vote == Message("Precommit", v, s)
           p == [s EXCEPT !.precommits = @ \cup {v}, !.outbox = @ \cup {vote}]
<1>1. /\ vote \in ConsensusMessage /\ vote.type = "Precommit"
      /\ vote.from = v /\ vote.round = s.round /\ vote.block = s.hash
      /\ vote = Vote("Precommit", s.round, s.hash, v)
    BY DEF Good, LocalInv, ConsensusStates, Message, ConsensusMessage, Vote,
           Honest, Active
<1>2. Good(v, p) /\ Voted(s, p) /\ p.state \in Active
  <2> HIDE DEF vote
  <2>1. p \in ConsensusStates
    BY <1>1 DEF Good, LocalInv, ConsensusStates, Honest
  <2>2. LocalInv(v, p) /\ Voted(s, p) /\ p.state \in Active
    BY <1>1, <2>1 DEF Good, LocalInv, Voted, ConsensusStates, Active
  <2>3. OutboxInv(v, p)
    BY <1>1 DEF Good, LocalInv, OutboxInv, OutboxOf, ConsensusStates
  <2>4. Counted(p)
    BY <1>1 DEF Good, LocalInv, Counted, ConsensusStates
  <2> QED BY <2>2, <2>3, <2>4 DEF Good
<1>3. Good(v, ToCommit(p)) /\ Voted(p, ToCommit(p))
    BY <1>2, ToCommitGood
<1> QED BY <1>2, <1>3 DEF precommit, Voted

LEMMA CheckVotesGood ==
    ASSUME NEW v \in Honest, NEW s, Good(v, s), s.state \in Active
    PROVE  Good(v, CheckVotes(v, s)) /\ Voted(s, CheckVotes(v, s))
<1> DEFINE p == [s EXCEPT !.state = "Precommit"]
<1>1. CASE s.state = "Prevote" /\ Quorum(s.prevotes)
  <2>1. LocalInv(v, p) /\ Voted(s, p) /\ p.state = "Precommit"
    BY <1>1 DEF Good, LocalInv, Voted, ConsensusStates, Active
  <2>2. OutboxInv(v, p) /\ Counted(p) /\ p.prevotes = s.prevotes
    BY <1>1 DEF Good, LocalInv, OutboxInv, OutboxOf, Counted, ConsensusStates
  <2>3. CASE v \in s.prevotes
    <3>1. Good(v, precommit(v, p)) /\ Voted(p, precommit(v, p))
        BY <2>1, <2>2, <2>3, precommitGood DEF Good
    <3> QED BY <1>1, <2>1, <2>3, <3>1 DEF CheckVotes, Voted
  <2>4. CASE v \notin s.prevotes
    BY <1>1, <2>1, <2>2, <2>4 DEF CheckVotes, Good
  <2> QED BY <2>3, <2>4
<1>2. CASE ~ (s.state = "Prevote" /\ Quorum(s.prevotes))
    BY <1>2, ToCommitGood DEF CheckVotes
<1> QED BY <1>1, <1>2

\* A vote for a block that v has validated.  Only a node with a lock may find
\* that it must not vote, after it has sent a proposal it votes in any case.
LEMMA prevoteGood ==
    ASSUME NEW v \in Honest, NEW s,
           LocalInv(v, s), Counted(s), OutboxOf(v, s),
           s.lock # NoBlock => OutboxInv(v, s),
           s.state \in Active, s.hash \in Valid
    PROVE  Good(v, prevote(v, s)) /\ Voted(s, prevote(v, s)) /\ prevote(v, s).saved
<1> DEFINE kept == [s EXCEPT !.saved = TRUE]
           vote == Message("Prevote", v, s)
           sent == [kept EXCEPT !.outbox = @ \cup {vote}]
           own == [sent EXCEPT !.prevotes = @ \cup {v}]
<1>1. /\ vote \in ConsensusMessage /\ vote.type = "Prevote"
      /\ vote.from = v /\ vote.round = s.round /\ vote.block = s.hash
      /\ vote = Vote("Prevote", s.round, s.hash, v)
    BY DEF LocalInv, ConsensusStates, Message, ConsensusMessage, Vote,
           Honest, Active
<1> HIDE DEF vote
<1>2. LocalInv(v, kept) /\ Voted(s, kept) /\ kept.saved
    BY DEF LocalInv, Voted, ConsensusStates
<1>3. OutboxOf(v, kept) /\ Counted(kept)
    BY DEF LocalInv, OutboxOf, Counted, ConsensusStates
<1>4. LocalInv(v, sent) /\ Voted(s, sent) /\ sent.saved
  <2>1. sent \in ConsensusStates
    BY <1>1, <1>2 DEF LocalInv, ConsensusStates
  <2> QED BY <1>2, <2>1 DEF LocalInv, Voted, ConsensusStates
<1>5. OutboxOf(v, sent) /\ Counted(sent)
    BY <1>1, <1>3 DEF LocalInv, OutboxOf, Counted, ConsensusStates
<1>6. CASE s.lock \notin {NoBlock, s.hash}
  <2>1. OutboxInv(v, kept)
    BY <1>6 DEF LocalInv, OutboxInv, OutboxOf, ConsensusStates
  <2> QED BY <1>2, <1>3, <1>6, <2>1 DEF prevote, Good
<1>7. CASE s.lock \in {NoBlock, s.hash} /\ s.state = "Commit"
  <2>1. prevote(v, s) = sent
    BY <1>7 DEF prevote, vote
  <2>2. sent.state = "Commit"
    BY <1>7 DEF LocalInv, ConsensusStates
  <2> QED BY <1>4, <1>5, <2>1, <2>2 DEF Good, OutboxInv
<1>8. CASE s.lock \in {NoBlock, s.hash} /\ s.state # "Commit"
  <2>1. prevote(v, s) = CheckVotes(v, own)
    BY <1>8 DEF prevote, vote
  <2>2. s.lock = NoBlock
    BY <1>8 DEF LocalInv
  <2>3. LocalInv(v, own) /\ Voted(s, own) /\ own.saved
    <3>1. own \in ConsensusStates
        BY <1>4 DEF LocalInv, ConsensusStates, Honest
    <3>2. s.state # "Precommit" => s.state = "Prevote"
        BY <1>8 DEF Active
    <3> QED BY <1>4, <1>8, <2>2, <3>1, <3>2
            DEF LocalInv, Voted, ConsensusStates, Active
  <2>4. OutboxInv(v, own)
    BY <1>4, <1>5 DEF LocalInv, OutboxInv, OutboxOf, ConsensusStates
  <2>5. Counted(own)
    BY <1>1, <1>4, <1>5 DEF LocalInv, Counted, ConsensusStates
  <2>6. Good(v, CheckVotes(v, own)) /\ Voted(own, CheckVotes(v, own))
    BY <2>3, <2>4, <2>5, CheckVotesGood DEF Good, Voted
  <2> QED BY <2>1, <2>3, <2>6 DEF Voted
<1> QED BY <1>6, <1>7, <1>8

\* Votes of others that were really cast.
Cast(v, round, b, prevoters, precommitters) ==
    /\ prevoters \in SUBSET (Validators \ {v})
    /\ precommitters \in SUBSET (Validators \ {v})
    /\ \A w \in prevoters \cap Honest : Vote("Prevote", round, b, w) \in msgs
    /\ \A w \in precommitters \cap Honest : Signed(w, b)

LEMMA VotesCast ==
    ASSUME NEW v, NEW round, NEW b,
           NEW prevoters \in SUBSET Votes("Prevote", v, round, b),
           NEW precommitters \in SUBSET Votes("Precommit", v, round, b)
    PROVE  Cast(v, round, b, prevoters, precommitters)
BY DEF Votes, Sent, Cast, Vote, Signed, Honest

LEMMA AddVotesGood ==
    ASSUME NEW v \in Honest, NEW s, NEW prevoters, NEW precommitters,
           Good(v, s), s.state \in {"Prevote", "Precommit"},
           Cast(v, s.round, s.hash, prevoters, precommitters)
    PROVE  LET t == [s EXCEPT !.prevotes = @ \cup prevoters,
                              !.precommits = @ \cup precommitters]
           IN  Good(v, t) /\ Voted(s, t)
<1> DEFINE t == [s EXCEPT !.prevotes = @ \cup prevoters,
                          !.precommits = @ \cup precommitters]
<1>1. t \in ConsensusStates
    BY DEF Good, LocalInv, ConsensusStates, Cast
<1>2. LocalInv(v, t) /\ Voted(s, t)
    BY <1>1 DEF Good, LocalInv, Voted, ConsensusStates, Active, Cast
<1>3. OutboxInv(v, t)
    BY DEF Good, LocalInv, OutboxInv, OutboxOf, ConsensusStates
<1>4. Counted(t)
    BY DEF Good, LocalInv, Counted, Cast, ConsensusStates
<1> QED BY <1>2, <1>3, <1>4 DEF Good

LEMMA process_inboxGood ==
    ASSUME NEW v \in Honest, NEW s, NEW prevoters, NEW precommitters,
           Good(v, s), s.state \in Active,
           Cast(v, s.round, s.hash, prevoters, precommitters)
    PROVE  LET t == process_inbox(v, s, prevoters, precommitters)
           IN  Good(v, t) /\ Voted(s, t)
<1>1. CASE s.state = "Commit"
    BY <1>1 DEF process_inbox, Voted, Active
<1>2. CASE s.state # "Commit"
  <2> DEFINE t == [s EXCEPT !.prevotes = @ \cup prevoters,
                            !.precommits = @ \cup precommitters]
             u == CheckVotes(v, t)
  <2>1. Good(v, t) /\ Voted(s, t)
    BY <1>2, AddVotesGood DEF Active
  <2>2. Good(v, u) /\ Voted(t, u)
    BY <2>1, CheckVotesGood DEF Voted
  <2>3. Good(v, CheckVotes(v, u)) /\ Voted(u, CheckVotes(v, u))
    BY <2>2, CheckVotesGood DEF Voted
  <2>4. process_inbox(v, s, prevoters, precommitters) = CheckVotes(v, u)
    BY <1>2 DEF process_inbox
  <2> QED BY <2>1, <2>2, <2>3, <2>4 DEF Voted
<1> QED BY <1>1, <1>2

\* t is s after a proposal: the lock of s is kept, or is the block that v has
\* now voted for.
Continued(v, s, t) ==
    /\ t.round = s.round /\ t.timer = s.timer /\ t.autocommit = s.autocommit
    /\ t.lock = s.lock \/ (t.hash = s.lock /\ v \in t.prevotes)
    /\ t.state # "Micro"

LEMMA FeedProposalGood ==
    ASSUME NEW v \in Honest, NEW s, NEW b \in Blocks,
           NEW prevoters, NEW precommitters,
           LocalInv(v, s), Counted(s), s.state = "Propose",
           \A m \in s.outbox : /\ m.from = v /\ m.round = s.round
                               /\ m.block = b /\ m.type = "Proposal",
           s.lock # b => s.outbox = {},
           Cast(v, s.round, b, prevoters, precommitters)
    PROVE  LET t == FeedProposal(v, s, b, prevoters, precommitters)
           IN  Good(v, t) /\ Continued(v, s, t) /\ t.hash = b /\ t.state \in Active
<1> USE ConsensusAssumption DEF ConsensusAssumption
<1> DEFINE new == [s EXCEPT !.state = "Prevote", !.hash = b, !.saved = FALSE]
           again == [new EXCEPT !.lock = NoBlock, !.lockVotes = {},
                                !.precommits = s.lockVotes]
           t == FeedProposal(v, s, b, prevoters, precommitters)
<1>1. CASE s.lock # b
  <2>1. LocalInv(v, new) /\ OutboxInv(v, new)
    BY <1>1 DEF LocalInv, OutboxInv, OutboxOf, ConsensusStates, Active, Option
  <2>2. Counted(new)
    BY DEF LocalInv, Counted, ConsensusStates, Active
  <2>3. /\ new.round = s.round /\ new.timer = s.timer /\ new.hash = b
        /\ new.autocommit = s.autocommit /\ new.lock = s.lock
        /\ new.state \in Active
    BY DEF LocalInv, ConsensusStates, Active
  <2>4. t = process_inbox(v, new, prevoters, precommitters)
    BY <1>1 DEF FeedProposal
  <2> HIDE DEF new, t
  <2>5. Good(v, t) /\ Voted(new, t)
    BY <2>1, <2>2, <2>3, <2>4, process_inboxGood DEF Good
  <2>6. Continued(v, s, t) /\ t.hash = b /\ t.state \in Active
    BY <2>3, <2>5 DEF Voted, Continued, Active
  <2> QED BY <2>5, <2>6 DEF t
<1>2. CASE s.lock = b
  <2> DEFINE vote == Message("Prevote", v, again)
             own == [again EXCEPT !.saved = TRUE, !.outbox = @ \cup {vote},
                                  !.prevotes = @ \cup {v}]
             p == CheckVotes(v, own)
  <2>1. /\ again \in ConsensusStates /\ again.round = s.round
        /\ again.hash = b /\ again.lock = NoBlock /\ again.state = "Prevote"
        /\ again.timer = s.timer /\ again.autocommit = s.autocommit
        /\ again.prevotes = {} /\ again.precommits = s.lockVotes
        /\ again.lockVotes = {} /\ again.outbox = s.outbox
    BY DEF LocalInv, ConsensusStates, Active, Option
  <2> HIDE DEF again
  <2>2. /\ vote \in ConsensusMessage /\ vote.type = "Prevote"
        /\ vote.from = v /\ vote.round = s.round /\ vote.block = b
        /\ vote = Vote("Prevote", s.round, b, v)
    BY <2>1 DEF ConsensusStates, Message, ConsensusMessage, Vote, Honest
  <2>3. prevote(v, again) = p
    BY <2>1 DEF prevote, ConsensusStates
  <2> HIDE DEF vote
  <2>4. /\ own \in ConsensusStates /\ own.round = s.round /\ own.hash = b
        /\ own.lock = NoBlock /\ own.state = "Prevote" /\ own.saved
        /\ own.timer = s.timer /\ own.autocommit = s.autocommit
        /\ own.prevotes = {v} /\ own.precommits = s.lockVotes
        /\ own.lockVotes = {} /\ own.outbox = s.outbox \cup {vote}
    BY <2>1, <2>2 DEF ConsensusStates, Honest
  <2> HIDE DEF own
  <2>5. LocalInv(v, own)
    BY <1>2, <2>4 DEF LocalInv, Active
  <2>6. OutboxInv(v, own)
    BY <2>2, <2>4 DEF OutboxInv, OutboxOf
  <2>7. Counted(own)
    BY <1>2, <2>2, <2>4 DEF Counted
  <2>8. Good(v, p) /\ Voted(own, p)
    BY <2>4, <2>5, <2>6, <2>7, CheckVotesGood DEF Good, Active
  <2>9. t = process_inbox(v, p, prevoters, precommitters)
    BY <1>2, <2>3 DEF FeedProposal, again
  <2>10. Good(v, t) /\ Voted(p, t)
    BY <2>4, <2>8, <2>9, process_inboxGood DEF Voted
  <2>11. v \in t.prevotes /\ t.hash = s.lock
    BY <1>2, <2>4, <2>8, <2>10 DEF Voted
  <2> QED BY <1>2, <2>4, <2>8, <2>10, <2>11 DEF Voted, Continued, Active
<1> QED BY <1>1, <1>2

\* The proposal that reset() starts from, if there is one, was really made or
\* is the lock of the leader itself.
LEMMA resetGood ==
    ASSUME NEW v \in Honest, NEW s, NEW b \in Option,
           NEW prevoters, NEW precommitters,
           s \in ConsensusStates,
           s.lock = NoBlock => s.lockVotes = {},
           s.lock # NoBlock => s.lock \in Valid,
           \A w \in s.lockVotes \cap Honest : Signed(w, s.lock),
           Cast(v, s.round, Reproposed(v, s, b), prevoters, precommitters)
    PROVE  LET t == reset(v, s, b, prevoters, precommitters)
           IN  /\ Good(v, t) /\ Continued(v, s, t)
               /\ t.state \in Active => t.hash = Reproposed(v, s, b)
<1> USE ConsensusAssumption DEF ConsensusAssumption
<1> DEFINE clear == [s EXCEPT !.state = "Propose", !.hash = NoBlock,
                              !.saved = FALSE, !.prevotes = {},
                              !.precommits = {}, !.outbox = {}]
           found == Reproposed(v, s, b)
           sent == {[type |-> "Proposal", round |-> s.round,
                     block |-> found, from |-> v]}
           start == [clear EXCEPT !.outbox = IF is_leader(v, s) THEN sent ELSE {}]
           t == reset(v, s, b, prevoters, precommitters)
<1>1. /\ clear \in ConsensusStates /\ clear.state = "Propose"
      /\ clear.round = s.round /\ clear.timer = s.timer
      /\ clear.autocommit = s.autocommit /\ clear.lock = s.lock
      /\ clear.lockVotes = s.lockVotes /\ clear.hash = NoBlock
      /\ clear.saved = FALSE /\ clear.prevotes = {} /\ clear.precommits = {}
      /\ clear.outbox = {}
    BY DEF ConsensusStates, Option
<1>2. CASE found = NoBlock
  <2>1. t = clear
    BY <1>2 DEF reset
  <2> HIDE DEF clear, t
  <2>2. LocalInv(v, clear) /\ OutboxInv(v, clear) /\ Counted(clear)
    BY <1>1 DEF LocalInv, OutboxInv, OutboxOf, Counted, Active
  <2>3. Good(v, t) /\ Continued(v, s, t) /\ t.state \notin Active
    BY <1>1, <2>1, <2>2 DEF Good, Continued, Active
  <2> QED BY <2>3 DEF t
<1>3. CASE found # NoBlock
  <2>1. found \in Blocks
    BY <1>3 DEF Reproposed, ConsensusStates, Option
  <2>2. t = FeedProposal(v, start, found, prevoters, precommitters)
    BY <1>3 DEF reset
  <2>3. sent \in SUBSET ConsensusMessage
    BY <2>1 DEF ConsensusMessage, ConsensusStates, Honest
  <2>4. \A m \in sent : /\ m.from = v /\ m.round = s.round
                        /\ m.block = found /\ m.type = "Proposal"
    OBVIOUS
  <2> HIDE DEF clear, found, sent
  <2>5. /\ start \in ConsensusStates /\ start.state = "Propose"
        /\ start.round = s.round /\ start.timer = s.timer
        /\ start.autocommit = s.autocommit /\ start.lock = s.lock
        /\ start.lockVotes = s.lockVotes /\ start.hash = NoBlock
        /\ start.saved = FALSE /\ start.prevotes = {} /\ start.precommits = {}
        /\ start.outbox \subseteq sent
    BY <1>1, <2>3 DEF ConsensusStates
  <2> HIDE DEF start, t
  <2>6. LocalInv(v, start) /\ Counted(start)
    BY <2>5 DEF LocalInv, Counted, Active
  <2>7. Good(v, t) /\ Continued(v, start, t) /\ t.hash = found
    <3>1. Cast(v, start.round, found, prevoters, precommitters)
        BY <2>5 DEF found
    <3>2. \A m \in start.outbox : /\ m.from = v /\ m.round = start.round
                                  /\ m.block = found /\ m.type = "Proposal"
        BY <2>4, <2>5
    <3>3. start.lock # found => start.outbox = {}
        BY <1>1, <2>5 DEF start, found, Reproposed, ConsensusStates
    <3> QED BY <2>1, <2>2, <2>5, <2>6, <3>1, <3>2, <3>3, FeedProposalGood
  <2>8. Continued(v, s, t)
    BY <2>5, <2>7 DEF Continued
  <2> QED BY <2>7, <2>8 DEF t, found
<1> QED BY <1>2, <1>3

LEMMA CastNothing ==
    ASSUME NEW v, NEW round, NEW b
    PROVE  Cast(v, round, b, {}, {})
BY DEF Cast

\* A node that has voted keeps its block; one that finds the proposal invalid
\* has not voted and goes back to Propose with its lock.
LEMMA VoteOnProposalGood ==
    ASSUME NEW v \in Honest, NEW s, Good(v, s), s.state # "Micro"
    PROVE  LET t == VoteOnProposal(v, s)
           IN  /\ Good(v, t) /\ Continued(v, s, t)
               /\ t.state \in Active => t.saved
               /\ \/ t = s
                  \/ Voted(s, t)
                  \/ v \notin s.prevotes
<1> DEFINE t == VoteOnProposal(v, s)
<1>1. CASE ~ should_prevote(v, s)
  <2>1. t = s
    BY <1>1 DEF VoteOnProposal
  <2> QED BY <1>1, <2>1 DEF should_prevote, Good, LocalInv, Continued, Active
<1>2. CASE should_prevote(v, s)
             /\ validate_proposed_macro_block(s.hash, s.round)
  <2>1. t = prevote(v, s) /\ s.state \in Active /\ s.hash \in Valid
    BY <1>2 DEF VoteOnProposal, should_prevote, Active,
                validate_proposed_macro_block
  <2>2. Good(v, t) /\ Voted(s, t) /\ t.saved
    BY <2>1, prevoteGood DEF Good, OutboxInv
  <2> QED BY <2>1, <2>2 DEF Voted, Continued, Active
<1>3. CASE should_prevote(v, s)
             /\ ~ validate_proposed_macro_block(s.hash, s.round)
  <2>1. t = reset(v, s, NoBlock, {}, {}) /\ v \notin s.prevotes
    BY <1>3 DEF VoteOnProposal, should_prevote
  <2>2. Cast(v, s.round, Reproposed(v, s, NoBlock), {}, {})
    BY CastNothing
  <2>3. NoBlock \in Option
    BY DEF Option
  <2>4. /\ Good(v, t) /\ Continued(v, s, t)
        /\ t.state \in Active => t.hash = Reproposed(v, s, NoBlock)
    BY <2>1, <2>2, <2>3, resetGood DEF Good, LocalInv, Counted
  <2>5. t.state \in Active => t.saved
    BY <2>4, ConsensusAssumption
    DEF ConsensusAssumption, Reproposed, Good, LocalInv, Continued
  <2> QED BY <2>1, <2>4, <2>5
<1> QED BY <1>1, <1>2, <1>3

-----------------------------------------------------------------------------
(* The inductive invariant *)

\* v is bound to everything it has signed: it votes for no other block.
Bound(v, s) ==
    \A b \in Blocks : Signed(v, b) =>
        s.lock = b \/ (s.hash = b /\ v \in s.prevotes)

\* Inside a handler: whatever v has sent in the round of s is for its block.
OwnVotes(v, s) ==
    v \notin restarted =>
        \A m \in msgs : m.from = v =>
            /\ m.round <= s.round
            /\ m.round = s.round => m.block = s.hash /\ v \in s.prevotes

\* Between handlers: a vote sent in Commit is not in prevotes.
OwnVotesSent(v, s) ==
    v \notin restarted =>
        \A m \in msgs : m.from = v =>
            /\ m.round <= s.round
            /\ m.round = s.round =>
                 m.block = s.hash /\ (v \in s.prevotes \/ s.state = "Commit")

Timers(v, s) ==
    /\ s.timer = "Propose" => should_propose(v, s)
    /\ \A i \in 1 .. (s.autocommit - 1) : Order[i] # v

\* Everything about an honest validator that has not yet applied a block.
Undecided(v, s) ==
    /\ s.state = "Micro" => \A m \in msgs : m.from # v
    /\ OwnVotesSent(v, s)
    /\ v \notin forgot => Bound(v, s)

SignsOnce(v) ==
    \A b1, b2 \in Blocks : Signed(v, b1) /\ Signed(v, b2) => b1 = b2

NodeInv(v, s) ==
    /\ LocalInv(v, s) /\ Counted(s) /\ s.outbox = {}
    /\ Timers(v, s)
    /\ s.state \in Active => s.saved
    /\ s.state = "Commit" => ~ is_leader(v, s)
    /\ s.state = "Micro" => s = New("Micro")
    /\ decided[v] = NoBlock => Undecided(v, s)
    /\ decided[v] # NoBlock => /\ s.state = "Micro"
                               /\ \E x \in sealed : x.block = decided[v]
    /\ v \notin forgot => SignsOnce(v)

\* An honest validator has validated what it signs.
PrecommitsAreValid == \A m \in msgs : m.type = "Precommit" => m.block \in Valid

IInv ==
    /\ TypeOK
    /\ \A m \in msgs : m.from \in Honest
    /\ PrecommitsAreValid
    /\ VotesOnce
    /\ SealedIsSound
    /\ \A v \in Honest : NodeInv(v, node[v])

-----------------------------------------------------------------------------
(* The ways in which a step ends *)

LEMMA SignedGrows ==
    ASSUME msgs \subseteq msgs', sealed \subseteq sealed'
    PROVE  \A w, b : Signed(w, b) => Signed(w, b)'
BY DEF Signed

\* A step of v does not disturb another validator w whose signature it does
\* not use for a new block.
LEMMA OthersKeep ==
    ASSUME IInv, NEW v \in Honest, NEW w \in Honest, w # v,
           node'[w] = node[w], decided'[w] = decided[w],
           msgs \subseteq msgs', sealed \subseteq sealed',
           restarted \subseteq restarted', forgot \subseteq forgot',
           \A m \in msgs' : m \in msgs \/ m.from = v,
           \A b \in Blocks : Signed(w, b)' => Signed(w, b)
    PROVE  NodeInv(w, node[w])'
<1> DEFINE s == node[w]
<1>1. NodeInv(w, s)
    BY DEF IInv
<1>2. s' = s
    OBVIOUS
<1>3. \A u, b : Signed(u, b) => Signed(u, b)'
    BY SignedGrows
<1> HIDE DEF s
<1>4. LocalInv(w, s)' /\ (s.outbox = {})' /\ Timers(w, s)'
    BY <1>1, <1>2 DEF NodeInv, LocalInv, Timers, should_propose, is_leader
<1>5. Counted(s)'
    BY <1>1, <1>2, <1>3 DEF NodeInv, Counted
<1>6. (decided[w] = NoBlock)' => Undecided(w, s)'
  <2> SUFFICES ASSUME decided[w] = NoBlock PROVE Undecided(w, s)'
    OBVIOUS
  <2>1. Undecided(w, s)
    BY <1>1 DEF NodeInv
  <2>2. \A m \in msgs' : m.from = w => m \in msgs
    OBVIOUS
  <2>3. OwnVotesSent(w, s)'
    BY <1>2, <2>1, <2>2 DEF Undecided, OwnVotesSent
  <2>4. w \notin forgot' => Bound(w, s)'
    BY <1>2, <2>1 DEF Undecided, Bound
  <2> QED BY <1>2, <2>1, <2>2, <2>3, <2>4 DEF Undecided
<1>7. w \notin forgot' => SignsOnce(w)'
    BY <1>1 DEF NodeInv, SignsOnce
<1>8. /\ (s.state \in Active => s.saved)'
      /\ (s.state = "Commit" => ~ is_leader(w, s))'
      /\ (s.state = "Micro" => s = New("Micro"))'
      /\ (decided[w] # NoBlock => /\ s.state = "Micro"
                                  /\ \E x \in sealed : x.block = decided[w])'
    BY <1>1, <1>2 DEF NodeInv, is_leader, New
<1>9. NodeInv(w, s)'
    BY <1>4, <1>5, <1>6, <1>7, <1>8 DEF NodeInv
<1> QED BY <1>9 DEF s

\* The node publishes its outbox.
LEMMA PublishStep ==
    ASSUME IInv, NEW v \in Honest, NEW t,
           decided[v] = NoBlock,
           Good(v, t), Timers(v, t), v \notin restarted' => OwnVotesSent(v, t),
           t.state # "Micro", t.state \in Active => t.saved,
           ~ (is_leader(v, t) /\ t.state = "Commit"),
           v \notin forgot' => Bound(v, t),
           node' = [node EXCEPT ![v] = [t EXCEPT !.outbox = {}]],
           msgs' = msgs \cup t.outbox,
           UNCHANGED <<sealed, decided>>,
           restarts' \in 0 .. MaxRestarts,
           restarted \subseteq restarted', restarted' \subseteq Honest,
           forgot \subseteq forgot', forgot' \subseteq Honest
    PROVE  IInv'
<1> DEFINE s == [t EXCEPT !.outbox = {}]
<1>1. TypeOK /\ NodeInv(v, node[v])
    BY DEF IInv
<1>2. /\ s \in ConsensusStates /\ s.state = t.state /\ s.round = t.round
      /\ s.hash = t.hash /\ s.saved = t.saved /\ s.lock = t.lock
      /\ s.lockVotes = t.lockVotes /\ s.prevotes = t.prevotes
      /\ s.precommits = t.precommits /\ s.timer = t.timer
      /\ s.autocommit = t.autocommit /\ s.outbox = {}
    BY DEF Good, LocalInv, ConsensusStates
<1>3. node'[v] = s /\ \A w \in Honest : w # v => node'[w] = node[w]
    BY <1>1 DEF TypeOK
<1>4. \A m \in t.outbox : /\ m \in ConsensusMessage
                          /\ m.from = v /\ m.round = s.round /\ m.block = s.hash
                          /\ m.type = "Precommit" => v \in s.prevotes
    BY <1>2 DEF Good, LocalInv, OutboxInv, OutboxOf, ConsensusStates
<1> HIDE DEF s
<1>5. \A w, b : Signed(w, b)' =>
         Signed(w, b) \/ (w = v /\ b = s.hash /\ v \in s.prevotes)
    BY <1>4 DEF Signed
<1>6. \A w, b : Signed(w, b) => Signed(w, b)'
    BY SignedGrows
<1>7. TypeOK'
  <2>1. node' \in [Honest -> ConsensusStates]
    BY <1>1, <1>2 DEF TypeOK, s
  <2>2. \A w \in Honest : node'[w].outbox = {}
    BY <1>1, <1>2, <1>3 DEF TypeOK
  <2>3. msgs' \subseteq ConsensusMessage
    BY <1>1, <1>4 DEF TypeOK
  <2> QED BY <1>1, <2>1, <2>2, <2>3 DEF TypeOK
<1>8. \A m \in msgs' : m.from \in Honest
    BY <1>4 DEF IInv
<1>9. VotesOnce'
  <2>1. \A m \in msgs : m.from = v /\ m.round = s.round /\ v \notin restarted' =>
            m.block = s.hash
    BY <1>2 DEF OwnVotesSent
  <2>2. SUFFICES ASSUME NEW m1 \in msgs', NEW m2 \in msgs',
                        m1.from = m2.from, m1.round = m2.round,
                        m1.from \notin restarted'
                 PROVE  m1.block = m2.block
    BY DEF VotesOnce
  <2>3. VotesOnce
    BY DEF IInv
  <2> QED BY <1>4, <2>1, <2>2, <2>3 DEF VotesOnce
<1>10. SealedIsSound'
    BY DEF IInv, SealedIsSound
<1>13. PrecommitsAreValid'
  <2>1. v \in s.prevotes => s.hash \in Valid
    BY <1>2 DEF Good, LocalInv
  <2> QED BY <1>4, <2>1 DEF IInv, PrecommitsAreValid
<1>11. NodeInv(v, s)'
  <2>1. LocalInv(v, s)' /\ (s.outbox = {})' /\ Timers(v, s)'
    BY <1>2 DEF Good, LocalInv, Timers, should_propose, is_leader, s
  <2>2. Counted(s)'
    <3>1. \A w \in s.prevotes \cap Honest :
            Vote("Prevote", s.round, s.hash, w) \in msgs'
        BY <1>2 DEF Good, Counted
    <3>2. \A w : Vote("Precommit", s.round, s.hash, w) \in msgs' =>
            Signed(w, s.hash)'
        BY DEF Signed, Vote
    <3>3. \A w \in s.precommits \cap Honest : Signed(w, s.hash)'
        BY <1>2, <1>6, <3>2 DEF Good, Counted
    <3>4. \A w \in s.lockVotes \cap Honest : Signed(w, s.lock)'
        BY <1>2, <1>6 DEF Good, Counted
    <3> QED BY <3>1, <3>3, <3>4 DEF Counted, s
  <2>3. OwnVotesSent(v, s)'
    <3>1. t.outbox # {} => v \in s.prevotes \/ s.state = "Commit"
        BY <1>2 DEF Good, OutboxInv
    <3>2. s.round \in Int
        BY <1>2, ConsensusAssumption
        DEF ConsensusAssumption, ConsensusStates, Rounds
    <3> QED BY <1>2, <1>4, <3>1, <3>2 DEF OwnVotesSent, s
  <2>4. v \notin forgot' => Bound(v, s)'
    BY <1>2, <1>5 DEF Bound, s
  <2>5. v \notin forgot' => SignsOnce(v)'
    BY <1>2, <2>4, ConsensusAssumption
    DEF ConsensusAssumption, Good, LocalInv, Bound, SignsOnce, s
  <2> QED
    BY <1>2, <2>1, <2>2, <2>3, <2>4, <2>5
    DEF NodeInv, Undecided, is_leader, s
<1>12. ASSUME NEW w \in Honest, w # v PROVE NodeInv(w, node[w])'
    BY <1>3, <1>4, <1>5, <1>12, OthersKeep
<1> QED BY <1>3, <1>7, <1>8, <1>9, <1>10, <1>11, <1>12, <1>13 DEF IInv

LEMMA NewNodeInv ==
    ASSUME NEW v \in Honest,
           (decided[v] # NoBlock)', (\E x \in sealed : x.block = decided[v])',
           (v \notin forgot => SignsOnce(v))'
    PROVE  NodeInv(v, New("Micro"))' /\ New("Micro") \in ConsensusStates
<1> USE ConsensusAssumption DEF ConsensusAssumption
<1> DEFINE s == New("Micro")
<1>1. Len(Order) \in Nat /\ Len(Order) >= 1
    BY DEF Honest
<1>2. /\ s.state = "Micro" /\ s.round = 0 /\ s.hash = NoBlock /\ s.saved = FALSE
      /\ s.lock = NoBlock /\ s.lockVotes = {} /\ s.prevotes = {}
      /\ s.precommits = {} /\ s.outbox = {} /\ s.timer = "None"
      /\ s.autocommit = 1
    BY DEF New
<1>3. s \in ConsensusStates
    BY <1>1 DEF New, ConsensusStates, Option, Rounds
<1> HIDE DEF s
<1>4. LocalInv(v, s)' /\ Timers(v, s)' /\ Counted(s)'
    BY <1>2, <1>3 DEF LocalInv, Timers, Counted, Active, s
<1>5. NodeInv(v, s)'
    BY <1>2, <1>4 DEF NodeInv, Active, s
<1> QED BY <1>3, <1>5 DEF s

\* The third part of SealedIsSound.
Backed(b, w) ==
    \/ decided[w] = b
    \/ \E m \in msgs : m.type = "Precommit" /\ m.from = w /\ m.block = b

\* The node applies a sealed block b that was there or that it adds with the
\* signatures of those who have signed it.
LEMMA ApplyStep ==
    ASSUME IInv, NEW v \in Honest, NEW b \in Blocks, NEW signers,
           Quorum(Faulty) \/ b \in Valid,
           decided[v] = NoBlock,
           decided' = [decided EXCEPT ![v] = b],
           node' = [node EXCEPT ![v] = New("Micro")],
           sealed' = sealed \cup {[block |-> b, signers |-> signers]},
           signers \in SUBSET Validators, Quorum(signers),
           \A w \in signers \cap Honest : w = v \/ Signed(w, b),
           v \notin forgot' /\ v \in signers =>
               \A c \in Blocks : Signed(v, c) => c = b,
           UNCHANGED <<msgs, restarts, restarted>>,
           forgot \subseteq forgot', forgot' \subseteq Honest
    PROVE  IInv'
<1> USE ConsensusAssumption DEF ConsensusAssumption
<1> DEFINE new == [block |-> b, signers |-> signers]
<1>1. TypeOK /\ NodeInv(v, node[v]) /\ SealedIsSound
    BY DEF IInv
<1>2. new.block = b /\ new.signers = signers
    OBVIOUS
<1>3. new \in [block : Blocks, signers : SUBSET Validators]
    OBVIOUS
<1> HIDE DEF new
<1>4. decided'[v] = b /\ \A w \in Honest : w # v => decided'[w] = decided[w]
    BY <1>1 DEF TypeOK
<1>5. node'[v] = New("Micro") /\ \A w \in Honest : w # v => node'[w] = node[w]
    BY <1>1 DEF TypeOK
<1>6. \A w, c : Signed(w, c)' => Signed(w, c) \/ (c = b /\ w \in signers)
    BY <1>2 DEF Signed, new
<1>7. \A w, c : Signed(w, c) => Signed(w, c)'
    BY SignedGrows
<1>8. v \notin forgot' => SignsOnce(v)'
  <2>1. v \notin forgot' => SignsOnce(v)
    BY <1>1 DEF NodeInv
  <2> QED BY <1>6, <2>1 DEF SignsOnce
<1>9. (\E x \in sealed : x.block = decided[v])'
    BY <1>2, <1>4 DEF new
<1>10. NodeInv(v, New("Micro"))' /\ New("Micro") \in ConsensusStates
  <2>1. (decided[v] # NoBlock)'
    BY <1>4
  <2> QED BY <1>8, <1>9, <2>1, NewNodeInv
<1>11. TypeOK'
  <2>1. node' \in [Honest -> ConsensusStates]
    BY <1>1, <1>10 DEF TypeOK
  <2>2. \A w \in Honest : node'[w].outbox = {}
    BY <1>1, <1>5 DEF TypeOK, New
  <2>3. decided' \in [Honest -> Option]
    BY <1>1 DEF TypeOK, Option
  <2>4. sealed' \subseteq [block : Blocks, signers : SUBSET Validators]
    BY <1>1, <1>3 DEF TypeOK, new
  <2> QED BY <1>1, <2>1, <2>2, <2>3, <2>4 DEF TypeOK
<1>12. SealedIsSound'
  <2>1. \A x \in sealed : \A w \in x.signers \cap Honest : Backed(x.block, w)
    BY <1>1 DEF SealedIsSound, Backed
  <2>2. \A w \in Honest : Signed(w, b) => Backed(b, w)
    <3> SUFFICES ASSUME NEW w \in Honest, Signed(w, b) PROVE Backed(b, w)
        OBVIOUS
    <3>1. CASE \E m \in msgs : m.type = "Precommit" /\ m.from = w /\ m.block = b
        BY <3>1 DEF Backed
    <3>2. CASE \E x \in sealed : x.block = b /\ w \in x.signers
        BY <3>2, <2>1
    <3> QED BY <3>1, <3>2 DEF Signed
  <2>3. \A c \in Blocks : \A w \in Honest : Backed(c, w) => Backed(c, w)'
    BY <1>4 DEF Backed
  <2>4. \A x \in sealed : x.block \in Blocks
    BY <1>1 DEF TypeOK
  <2>5. \A x \in sealed : \A w \in x.signers \cap Honest : Backed(x.block, w)'
    BY <2>1, <2>3, <2>4
  <2>6. Backed(b, v)'
    BY <1>4 DEF Backed
  <2>7. \A w \in signers \cap Honest : Backed(b, w)'
    BY <2>2, <2>3, <2>6
  <2>8. \A x \in sealed' : \A w \in x.signers \cap Honest : Backed(x.block, w)'
    <3> SUFFICES ASSUME NEW x \in sealed', NEW w \in x.signers \cap Honest
                 PROVE  Backed(x.block, w)'
        OBVIOUS
    <3>1. CASE x \in sealed
        BY <3>1, <2>5
    <3>2. CASE x = new
        BY <3>2, <1>2, <2>7
    <3> QED BY <3>1, <3>2 DEF new
  <2>9. \A x \in sealed' : Quorum(x.signers) /\ (Quorum(Faulty) \/ x.block \in Valid)
    BY <1>1, <1>2 DEF SealedIsSound, new
  <2> QED BY <2>8, <2>9 DEF SealedIsSound, Backed
<1>13. ASSUME NEW w \in Honest, w # v PROVE NodeInv(w, node[w])'
  <2>1. \A c \in Blocks : Signed(w, c)' => Signed(w, c)
    BY <1>6, <1>13
  <2> QED BY <1>4, <1>5, <1>13, <2>1, OthersKeep
<1>14. VotesOnce' /\ PrecommitsAreValid' /\ \A m \in msgs' : m.from \in Honest
    BY DEF IInv, VotesOnce, PrecommitsAreValid
<1> QED BY <1>5, <1>10, <1>11, <1>12, <1>13, <1>14 DEF IInv

LEMMA CommitStep ==
    ASSUME IInv, NEW v \in Honest, NEW t,
           decided[v] = NoBlock, CommitProposedBlock(v, t),
           Good(v, t), t.state = "Commit", t.saved,
           v \notin forgot' => Bound(v, t),
           UNCHANGED <<restarts, restarted>>,
           forgot \subseteq forgot', forgot' \subseteq Honest
    PROVE  IInv'
<1> USE ConsensusAssumption DEF ConsensusAssumption
<1>1. t.hash \in Valid /\ t.precommits \in SUBSET Validators /\ Quorum(t.precommits)
    BY DEF Good, LocalInv, ConsensusStates
<1>2. \A w \in t.precommits \cap Honest : w = v \/ Signed(w, t.hash)
  <2>1. \A w : Vote("Precommit", t.round, t.hash, w) \in t.outbox => w = v
    BY DEF Good, OutboxInv, OutboxOf, Vote
  <2> QED BY <2>1 DEF Good, Counted
<1>3. v \notin forgot' /\ v \in t.precommits =>
          \A c \in Blocks : Signed(v, c) => c = t.hash
    BY DEF Bound, Good, LocalInv
<1> QED BY <1>1, <1>2, <1>3, ApplyStep DEF CommitProposedBlock

\* The end of a handler that leaves v in the state t.
LEMMA FinishStep ==
    ASSUME IInv, NEW v \in Honest, NEW t,
           decided[v] = NoBlock, handle_consensus_events(v, t),
           Good(v, t), Timers(v, t), OwnVotes(v, t),
           t.state # "Micro", t.state \in Active => t.saved,
           v \notin forgot' => Bound(v, t),
           UNCHANGED <<restarts, restarted>>,
           forgot \subseteq forgot', forgot' \subseteq Honest
    PROVE  IInv'
<1>1. CASE is_leader(v, t) /\ t.state = "Commit"
    BY <1>1, CommitStep DEF handle_consensus_events, Active
<1>2. CASE ~ (is_leader(v, t) /\ t.state = "Commit")
  <2>1. TypeOK
    BY DEF IInv
  <2>2. restarts' \in 0 .. MaxRestarts /\ restarted' \subseteq Honest
    BY <2>1 DEF TypeOK
  <2>3. OwnVotesSent(v, t)
    BY DEF OwnVotes, OwnVotesSent
  <2> QED BY <1>2, <2>2, <2>3, PublishStep DEF handle_consensus_events
<1> QED BY <1>1, <1>2

\* A handler that leads to the state s and then votes on the proposal.
LEMMA EventsStep ==
    ASSUME IInv, NEW v \in Honest, NEW s,
           decided[v] = NoBlock,
           handle_consensus_events(v, VoteOnProposal(v, s)),
           Good(v, s), Timers(v, s), OwnVotes(v, s), s.state # "Micro",
           v \notin forgot' => Bound(v, s),
           UNCHANGED <<restarts, restarted>>,
           forgot \subseteq forgot', forgot' \subseteq Honest
    PROVE  IInv'
<1> DEFINE t == VoteOnProposal(v, s)
<1>1. /\ Good(v, t) /\ Continued(v, s, t)
      /\ t.state \in Active => t.saved
      /\ t = s \/ Voted(s, t) \/ v \notin s.prevotes
    BY VoteOnProposalGood
<1>2. s.timer = "Propose" => t = s
    BY DEF Timers, should_propose, should_prevote, VoteOnProposal
<1> HIDE DEF t
<1>3. Timers(v, t)
    BY <1>1, <1>2 DEF Timers, Continued
<1>4. OwnVotes(v, t)
    BY <1>1 DEF OwnVotes, Voted, Continued
<1>5. v \notin forgot' => Bound(v, t)
  <2> SUFFICES ASSUME v \notin forgot', NEW b \in Blocks, Signed(v, b)
               PROVE  t.lock = b \/ (t.hash = b /\ v \in t.prevotes)
    BY DEF Bound
  <2>1. CASE s.lock = b
    BY <2>1, <1>1 DEF Continued
  <2>2. CASE s.hash = b /\ v \in s.prevotes
    BY <2>2, <1>1 DEF Voted
  <2> QED BY <2>1, <2>2 DEF Bound
<1>6. t.state # "Micro"
    BY <1>1 DEF Continued
<1> QED BY <1>1, <1>3, <1>4, <1>5, <1>6, FinishStep DEF t

-----------------------------------------------------------------------------
(* The actions *)

LEMMA ActiveNode ==
    ASSUME IInv, NEW v \in Honest, node[v].state # "Micro"
    PROVE  Good(v, node[v]) /\ decided[v] = NoBlock
BY DEF IInv, NodeInv, Good, OutboxInv, OutboxOf

\* A vote has been added to the state of v, in t.
LEMMA VoteStep ==
    ASSUME IInv, NEW v \in Honest, NEW t,
           node[v].state \in {"Prevote", "Precommit"},
           Good(v, t), Voted(node[v], t),
           handle_consensus_events(v, VoteOnProposal(v, CheckVotes(v, t))),
           UNCHANGED history
    PROVE  IInv'
<1> DEFINE s == node[v]
           u == CheckVotes(v, t)
<1>1. NodeInv(v, s) /\ TypeOK /\ decided[v] = NoBlock
    BY ActiveNode DEF IInv
<1>2. Good(v, u) /\ Voted(t, u)
    BY CheckVotesGood DEF Voted
<1> HIDE DEF u
<1>3. Voted(s, u)
    BY <1>2 DEF Voted
<1>4. Timers(v, u)
    BY <1>1, <1>3 DEF NodeInv, Timers, should_propose, Voted
<1>5. OwnVotes(v, u)
    BY <1>1, <1>3 DEF NodeInv, Undecided, OwnVotesSent, OwnVotes, Voted
<1>6. v \notin forgot' => Bound(v, u)
    BY <1>1, <1>3 DEF NodeInv, Undecided, Bound, Voted, history
<1>7. u.state # "Micro" /\ forgot' \subseteq Honest
    BY <1>1, <1>3 DEF Voted, TypeOK, history, Active
<1> QED BY <1>1, <1>2, <1>4, <1>5, <1>6, <1>7, EventsStep DEF history, u

LEMMA HandlePrevoteStep ==
    ASSUME IInv, NEW v \in Honest, NEW w \in Validators, HandlePrevote(v, w)
    PROVE  IInv'
<1> DEFINE s == node[v]
           t == [s EXCEPT !.prevotes = @ \cup {w}]
           p == [s EXCEPT !.prevotes = @ \cup {w}, !.precommits = @ \cup {}]
<1>1. /\ s.state \in {"Prevote", "Precommit"}
      /\ w \in Votes("Prevote", v, s.round, s.hash)
      /\ handle_consensus_events(v, VoteOnProposal(v, CheckVotes(v, t)))
      /\ UNCHANGED history
    BY DEF HandlePrevote
<1>2. Cast(v, s.round, s.hash, {w}, {})
    BY <1>1, VotesCast
<1>3. Good(v, s)
    BY <1>1, ActiveNode
<1>4. Good(v, p) /\ Voted(s, p)
    BY <1>1, <1>2, <1>3, AddVotesGood
<1>5. p = t
    BY <1>3 DEF Good, LocalInv, ConsensusStates
<1> HIDE DEF p, t
<1> QED BY <1>1, <1>4, <1>5, VoteStep

LEMMA HandlePrecommitStep ==
    ASSUME IInv, NEW v \in Honest, NEW w \in Validators, HandlePrecommit(v, w)
    PROVE  IInv'
<1> DEFINE s == node[v]
           t == [s EXCEPT !.precommits = @ \cup {w}]
           p == [s EXCEPT !.prevotes = @ \cup {}, !.precommits = @ \cup {w}]
<1>1. /\ s.state \in {"Prevote", "Precommit"}
      /\ w \in Votes("Precommit", v, s.round, s.hash)
      /\ handle_consensus_events(v, VoteOnProposal(v, CheckVotes(v, t)))
      /\ UNCHANGED history
    BY DEF HandlePrecommit
<1>2. Cast(v, s.round, s.hash, {}, {w})
    BY <1>1, VotesCast
<1>3. Good(v, s)
    BY <1>1, ActiveNode
<1>4. Good(v, p) /\ Voted(s, p)
    BY <1>1, <1>2, <1>3, AddVotesGood
<1>5. p = t
    BY <1>3 DEF Good, LocalInv, ConsensusStates
<1> HIDE DEF p, t
<1> QED BY <1>1, <1>4, <1>5, VoteStep

LEMMA RoundInt ==
    ASSUME NEW s \in ConsensusStates
    PROVE  s.round \in Rounds /\ s.round \in Int
BY ConsensusAssumption DEF ConsensusAssumption, ConsensusStates, Rounds

\* In Propose a node has sent nothing in the round and holds a lock at most.
LEMMA ProposeState ==
    ASSUME IInv, NEW v \in Honest, node[v].state = "Propose"
    PROVE  /\ Good(v, node[v]) /\ decided[v] = NoBlock
           /\ node[v].prevotes = {} /\ node[v].outbox = {}
           /\ v \notin restarted =>
                \A m \in msgs : m.from = v => m.round < node[v].round
           /\ v \notin forgot =>
                \A b \in Blocks : Signed(v, b) => node[v].lock = b
<1> USE ConsensusAssumption DEF ConsensusAssumption
<1> DEFINE s == node[v]
<1>1. NodeInv(v, s) /\ Good(v, s) /\ decided[v] = NoBlock /\ TypeOK
    BY ActiveNode DEF IInv
<1>2. s.prevotes = {} /\ s.outbox = {} /\ s.round \in Int
  <2>1. s.prevotes = {} /\ s.outbox = {}
    BY <1>1 DEF NodeInv, LocalInv, Active
  <2>2. s \in ConsensusStates
    BY <1>1 DEF TypeOK
  <2> QED BY <2>1, <2>2, RoundInt
<1>3. \A m \in msgs : m.round \in Int
    BY <1>1 DEF TypeOK, ConsensusMessage, Rounds
<1>4. v \notin restarted => \A m \in msgs : m.from = v => m.round < s.round
    BY <1>1, <1>2, <1>3 DEF NodeInv, Undecided, OwnVotesSent
<1>5. v \notin forgot => \A b \in Blocks : Signed(v, b) => s.lock = b
    BY <1>1, <1>2 DEF NodeInv, Undecided, Bound
<1> QED BY <1>1, <1>2, <1>4, <1>5

LEMMA HandleProposalStep ==
    ASSUME IInv, NEW v \in Honest, HandleProposal(v)
    PROVE  IInv'
<1> USE ConsensusAssumption DEF ConsensusAssumption
<1> DEFINE s == node[v]
<1>1. s.state = "Propose" /\ UNCHANGED history
    BY DEF HandleProposal
<1>a. PICK b \in Blocks :
         /\ Proposed(v, s.round, b)
         /\ \E prevoters \in SUBSET Votes("Prevote", v, s.round, b),
               precommitters \in SUBSET Votes("Precommit", v, s.round, b) :
              handle_consensus_events(v, VoteOnProposal(v,
                  FeedProposal(v, s, b, prevoters, precommitters)))
    BY DEF HandleProposal
<1>2. PICK prevoters \in SUBSET Votes("Prevote", v, s.round, b),
           precommitters \in SUBSET Votes("Precommit", v, s.round, b) :
         handle_consensus_events(v, VoteOnProposal(v,
             FeedProposal(v, s, b, prevoters, precommitters)))
    BY <1>a
<1> DEFINE t == FeedProposal(v, s, b, prevoters, precommitters)
<1>3. /\ Good(v, s) /\ decided[v] = NoBlock /\ s.prevotes = {} /\ s.outbox = {}
      /\ v \notin restarted => \A m \in msgs : m.from = v => m.round < s.round
      /\ v \notin forgot => \A c \in Blocks : Signed(v, c) => s.lock = c
    BY <1>1, ProposeState
<1>4. Cast(v, s.round, b, prevoters, precommitters)
    BY VotesCast
<1>5. Good(v, t) /\ Continued(v, s, t) /\ t.hash = b /\ t.state \in Active
    BY <1>1, <1>3, <1>4, FeedProposalGood DEF Good
<1>6. NodeInv(v, s) /\ TypeOK /\ s.round \in Int
  <2>1. NodeInv(v, s) /\ TypeOK
    BY DEF IInv
  <2>2. s \in ConsensusStates
    BY <2>1 DEF TypeOK
  <2> QED BY <2>1, <2>2, RoundInt
<1> HIDE DEF t
<1>7. Timers(v, t)
    BY <1>a, <1>5, <1>6
    DEF NodeInv, Timers, should_propose, is_leader, Proposed, Continued
<1>8. OwnVotes(v, t)
  <2>1. \A m \in msgs : m.round \in Int
    BY <1>6 DEF TypeOK, ConsensusMessage, Rounds
  <2> QED BY <1>3, <1>5, <1>6, <2>1 DEF OwnVotes, Continued
<1>9. v \notin forgot' => Bound(v, t)
    BY <1>1, <1>3, <1>5 DEF Bound, Continued, history
<1>10. t.state # "Micro" /\ forgot' \subseteq Honest
    BY <1>1, <1>5, <1>6 DEF TypeOK, history, Active
<1> QED BY <1>1, <1>2, <1>3, <1>5, <1>7, <1>8, <1>9, <1>10, EventsStep
        DEF history, t

\* The end of the handlers that start a round.
LEMMA LeaderChangedGood ==
    ASSUME NEW v \in Honest, NEW s, Good(v, s), s.state # "Micro"
    PROVE  LET t == on_macro_block_leader_changed(v, s)
           IN  /\ Good(v, t) /\ Timers(v, t) /\ t.state = s.state
               /\ t.round = s.round /\ t.lock = s.lock /\ t.hash = s.hash
               /\ t.prevotes = s.prevotes /\ t.outbox = s.outbox
<1> USE ConsensusAssumption DEF ConsensusAssumption
<1> DEFINE t == on_macro_block_leader_changed(v, s)
<1>1. 1 \in 1 .. Len(Order)
    BY DEF Honest
<1>2. /\ t \in ConsensusStates /\ t.state = s.state /\ t.round = s.round
      /\ t.hash = s.hash /\ t.saved = s.saved /\ t.lock = s.lock
      /\ t.lockVotes = s.lockVotes /\ t.prevotes = s.prevotes
      /\ t.precommits = s.precommits /\ t.outbox = s.outbox
      /\ t.autocommit = 1
      /\ t.timer = "Propose" => should_propose(v, s)
    BY <1>1 DEF Good, LocalInv, ConsensusStates, on_macro_block_leader_changed
<1> HIDE DEF t
<1>3. LocalInv(v, t) /\ OutboxInv(v, t) /\ Counted(t)
    BY <1>2 DEF Good, LocalInv, OutboxInv, OutboxOf, Counted
<1>4. Timers(v, t)
    BY <1>2 DEF Timers, should_propose, is_leader
<1> QED BY <1>2, <1>3, <1>4 DEF Good, t

LEMMA NewPropose ==
    ASSUME NEW v \in Honest
    PROVE  LET s == New("Propose")
           IN  /\ s \in ConsensusStates /\ s.lock = NoBlock /\ s.round = 0
               /\ s.state = "Propose" /\ s.lockVotes = {} /\ s.prevotes = {}
               /\ s.outbox = {} /\ Good(v, s)
<1> USE ConsensusAssumption DEF ConsensusAssumption
<1> DEFINE s == New("Propose")
<1>1. Len(Order) \in Nat /\ Len(Order) >= 1
    BY DEF Honest
<1>2. /\ s.state = "Propose" /\ s.round = 0 /\ s.hash = NoBlock /\ s.saved = FALSE
      /\ s.lock = NoBlock /\ s.lockVotes = {} /\ s.prevotes = {}
      /\ s.precommits = {} /\ s.outbox = {}
    BY DEF New
<1>3. s \in ConsensusStates
    BY <1>1 DEF New, ConsensusStates, Option, Rounds
<1> HIDE DEF s
<1>4. Good(v, s)
    BY <1>2, <1>3 DEF Good, LocalInv, OutboxInv, OutboxOf, Counted, Active
<1> QED BY <1>2, <1>3, <1>4 DEF s

\* The last step of Start and NextRound: v begins a round in state s with the
\* proposal and the votes that it finds.
LEMMA NewRoundStep ==
    ASSUME IInv, NEW v \in Honest, NEW s, NEW b \in Option,
           NEW prevoters, NEW precommitters,
           decided[v] = NoBlock, s \in ConsensusStates,
           s.lock = NoBlock => s.lockVotes = {},
           s.lock # NoBlock => s.lock \in Valid,
           \A w \in s.lockVotes \cap Honest : Signed(w, s.lock),
           Cast(v, s.round, b, prevoters, precommitters),
           b = Reproposed(v, s, b),
           handle_consensus_events(v, VoteOnProposal(v,
               on_macro_block_leader_changed(v,
                   reset(v, s, b, prevoters, precommitters)))),
           v \notin restarted => \A m \in msgs : m.from = v => m.round < s.round,
           v \notin forgot' => \A c \in Blocks : Signed(v, c) => s.lock = c,
           UNCHANGED <<restarts, restarted>>,
           forgot \subseteq forgot', forgot' \subseteq Honest
    PROVE  IInv'
<1> DEFINE t == reset(v, s, b, prevoters, precommitters)
           u == on_macro_block_leader_changed(v, t)
<1>1. Good(v, t) /\ Continued(v, s, t)
    BY resetGood
<1> HIDE DEF t
<1>2. t.state # "Micro"
    BY <1>1 DEF Continued
<1>3. /\ Good(v, u) /\ Timers(v, u) /\ u.state = t.state /\ u.round = t.round
      /\ u.lock = t.lock /\ u.hash = t.hash /\ u.prevotes = t.prevotes
    BY <1>1, <1>2, LeaderChangedGood
<1> HIDE DEF u
<1>4. u.round = s.round /\ u.state # "Micro"
    BY <1>1, <1>3 DEF Continued
<1>5. OwnVotes(v, u)
  <2>1. s.round \in Int
    BY RoundInt
  <2>2. \A m \in msgs : m.round \in Int
    BY ConsensusAssumption
    DEF ConsensusAssumption, IInv, TypeOK, ConsensusMessage, Rounds
  <2> QED BY <1>4, <2>1, <2>2 DEF OwnVotes
<1>6. v \notin forgot' => Bound(v, u)
    BY <1>1, <1>3 DEF Bound, Continued
<1> QED BY <1>3, <1>4, <1>5, <1>6, EventsStep DEF t, u

LEMMA StartStep ==
    ASSUME IInv, NEW v \in Honest, Start(v)
    PROVE  IInv'
<1> USE ConsensusAssumption DEF ConsensusAssumption
<1> DEFINE s == New("Propose")
<1>1. node[v].state = "Micro" /\ decided[v] = NoBlock /\ UNCHANGED history
    BY DEF Start
<1>2. PICK b \in Option :
         /\ b = NoBlock \/ Proposed(v, 0, b)
         /\ \E prevoters \in SUBSET Votes("Prevote", v, 0, b),
               precommitters \in SUBSET Votes("Precommit", v, 0, b) :
              handle_consensus_events(v, VoteOnProposal(v,
                  on_macro_block_leader_changed(v,
                      reset(v, s, b, prevoters, precommitters))))
    BY DEF Start
<1>3. PICK prevoters \in SUBSET Votes("Prevote", v, 0, b),
           precommitters \in SUBSET Votes("Precommit", v, 0, b) :
         handle_consensus_events(v, VoteOnProposal(v,
             on_macro_block_leader_changed(v,
                 reset(v, s, b, prevoters, precommitters))))
    BY <1>2
<1>4. /\ s \in ConsensusStates /\ s.lock = NoBlock /\ s.round = 0
      /\ s.lockVotes = {}
    BY NewPropose
<1> HIDE DEF s
<1>5. NodeInv(v, node[v]) /\ Undecided(v, node[v]) /\ TypeOK
    BY <1>1 DEF IInv, NodeInv
<1>6. \A m \in msgs : m.from # v
    BY <1>1, <1>5 DEF Undecided
<1>7. v \notin forgot => \A c \in Blocks : ~ Signed(v, c)
  <2>1. node[v].lock = NoBlock /\ node[v].prevotes = {}
    BY <1>1, <1>5 DEF NodeInv, New
  <2> QED BY <1>5, <2>1 DEF Undecided, Bound
<1>8. Cast(v, 0, b, prevoters, precommitters)
    BY VotesCast
<1>9. b = Reproposed(v, s, b)
    BY <1>2, <1>4 DEF Reproposed, is_leader, Proposed
<1>10. forgot' = forgot /\ forgot' \subseteq Honest
    BY <1>1, <1>5 DEF TypeOK, history
<1> QED BY <1>1, <1>3, <1>4, <1>6, <1>7, <1>8, <1>9, <1>10, NewRoundStep
        DEF history

LEMMA NextRoundStep ==
    ASSUME IInv, NEW v \in Honest, NextRound(v)
    PROVE  IInv'
<1> USE ConsensusAssumption DEF ConsensusAssumption
<1> DEFINE n == node[v]
           s == lock(n)
<1>1. /\ n.timer = "ViewChange" /\ n.round < MaxRound
      /\ forgot' = forgot \cup Forgets(v, s)
      /\ UNCHANGED <<restarts, restarted>>
    BY DEF NextRound
<1>2. PICK b \in Option :
         /\ b = Reproposed(v, s, b)
         /\ \E prevoters \in SUBSET Votes("Prevote", v, s.round, b),
               precommitters \in SUBSET Votes("Precommit", v, s.round, b) :
              handle_consensus_events(v, VoteOnProposal(v,
                  on_macro_block_leader_changed(v,
                      reset(v, s, b, prevoters, precommitters))))
    BY DEF NextRound
<1>3. PICK prevoters \in SUBSET Votes("Prevote", v, s.round, b),
           precommitters \in SUBSET Votes("Precommit", v, s.round, b) :
         handle_consensus_events(v, VoteOnProposal(v,
             on_macro_block_leader_changed(v,
                 reset(v, s, b, prevoters, precommitters))))
    BY <1>2
<1>4. NodeInv(v, n) /\ TypeOK
    BY DEF IInv
<1>5. n.state # "Micro"
    BY <1>1, <1>4 DEF NodeInv, New
<1>6. decided[v] = NoBlock /\ Undecided(v, n)
    BY <1>4, <1>5 DEF NodeInv
<1> HIDE DEF n
<1>7. n \in ConsensusStates /\ n.round \in Rounds /\ n.round \in Int
  <2>1. n \in ConsensusStates
    BY <1>4 DEF TypeOK, n
  <2> QED BY <2>1, RoundInt
<1>8. /\ s \in ConsensusStates /\ s.round = n.round + 1
      /\ n.state = "Precommit" => s.lock = n.hash /\ s.lockVotes = n.precommits
      /\ n.state # "Precommit" => s.lock = n.lock /\ s.lockVotes = n.lockVotes
  <2>1. n.round + 1 \in Rounds
    <3>1. \A r \in Rounds : r < MaxRound => r + 1 \in Rounds
        BY DEF Rounds
    <3> QED BY <1>1, <1>7, <3>1
  <2> QED BY <1>7, <2>1 DEF lock, ConsensusStates
<1> HIDE DEF s
<1>9. /\ s.lock = NoBlock => s.lockVotes = {}
      /\ s.lock # NoBlock => s.lock \in Valid
      /\ \A w \in s.lockVotes \cap Honest : Signed(w, s.lock)
    BY <1>4, <1>8 DEF NodeInv, LocalInv, Counted, Active
<1>10. Cast(v, s.round, b, prevoters, precommitters)
    BY VotesCast
<1>11. v \notin restarted => \A m \in msgs : m.from = v => m.round < s.round
  <2>1. \A m \in msgs : m.round \in Int
    BY <1>4 DEF TypeOK, ConsensusMessage, Rounds
  <2> QED BY <1>6, <1>7, <1>8, <2>1 DEF Undecided, OwnVotesSent
<1>12. v \notin forgot' => \A c \in Blocks : Signed(v, c) => s.lock = c
    BY <1>1 DEF Forgets
<1>13. forgot \subseteq forgot' /\ forgot' \subseteq Honest
    BY <1>1, <1>4 DEF TypeOK, Forgets
<1> QED BY <1>1, <1>2, <1>3, <1>6, <1>8, <1>9, <1>10, <1>11, <1>12, <1>13,
           NewRoundStep

LEMMA RestartStep ==
    ASSUME IInv, NEW v \in Honest, Restart(v)
    PROVE  IInv'
<1> USE ConsensusAssumption DEF ConsensusAssumption
<1> DEFINE s == New("Propose")
           t == on_macro_block_leader_changed(v, s)
<1>1. /\ node[v].state # "Micro" /\ restarts < MaxRestarts
      /\ restarts' = restarts + 1 /\ restarted' = restarted \cup {v}
      /\ forgot' = forgot \cup Forgets(v, s)
      /\ node' = [node EXCEPT ![v] = t] /\ UNCHANGED <<msgs, sealed, decided>>
    BY DEF Restart
<1>2. /\ s.lock = NoBlock /\ s.state = "Propose" /\ s.outbox = {} /\ Good(v, s)
    BY NewPropose
<1> HIDE DEF s
<1>3. /\ Good(v, t) /\ Timers(v, t) /\ t.state = "Propose" /\ t.lock = NoBlock
      /\ t.outbox = {}
    BY <1>2, LeaderChangedGood
<1> HIDE DEF t
<1>4. TypeOK /\ decided[v] = NoBlock
    BY <1>1, ActiveNode DEF IInv
<1>5. t = [t EXCEPT !.outbox = {}]
    BY <1>3 DEF Good, LocalInv, ConsensusStates
<1>6. restarts' \in 0 .. MaxRestarts /\ restarted' \subseteq Honest
    BY <1>1, <1>4 DEF TypeOK
<1>7. forgot \subseteq forgot' /\ forgot' \subseteq Honest
    BY <1>1, <1>4 DEF TypeOK, Forgets
<1>8. v \notin forgot' => Bound(v, t)
  <2>1. v \notin forgot' => \A b \in Blocks : Signed(v, b) => s.lock = b
    BY <1>1 DEF Forgets
  <2> QED BY <1>2, <1>3, <2>1 DEF Bound
<1>9. v \in restarted' /\ restarted \subseteq restarted' /\ msgs' = msgs \cup t.outbox
    BY <1>1, <1>3
<1>10. t.state \notin Active /\ t.state # "Micro" /\ t.state # "Commit"
    BY <1>3 DEF Active
<1>11. node' = [node EXCEPT ![v] = [t EXCEPT !.outbox = {}]]
    BY <1>1, <1>5
<1> QED BY <1>1, <1>3, <1>4, <1>6, <1>7, <1>8, <1>9, <1>10, <1>11, PublishStep

LEMMA AutocommitStep ==
    ASSUME IInv, NEW v \in Honest, Autocommit(v)
    PROVE  IInv'
<1> USE ConsensusAssumption DEF ConsensusAssumption
<1> DEFINE s == node[v]
<1>1. s.state = "Commit" /\ UNCHANGED history
    BY DEF Autocommit
<1>2. Good(v, s) /\ NodeInv(v, s) /\ Undecided(v, s) /\ decided[v] = NoBlock
    BY <1>1, ActiveNode DEF IInv, NodeInv
<1>3. /\ s.saved /\ OwnVotesSent(v, s) /\ ~ is_leader(v, s)
      /\ v \notin forgot => Bound(v, s)
    BY <1>1, <1>2 DEF NodeInv, Undecided, Active
<1>4. /\ forgot' = forgot /\ restarted' = restarted /\ restarts' = restarts
      /\ forgot' \subseteq Honest /\ restarted' \subseteq Honest
      /\ restarts' \in 0 .. MaxRestarts
    BY <1>1 DEF IInv, TypeOK, history
<1>5. CASE Order[s.autocommit] = v
  <2>1. CommitProposedBlock(v, s)
    BY <1>5 DEF Autocommit
  <2> HIDE DEF s
  <2> QED BY <1>1, <1>2, <1>3, <1>4, <2>1, CommitStep
<1>6. CASE Order[s.autocommit] # v
  <2> DEFINE t == [s EXCEPT !.autocommit = @ + 1]
  <2>1. /\ node' = [node EXCEPT ![v].autocommit = @ + 1]
        /\ UNCHANGED <<msgs, sealed, decided>>
    BY <1>6 DEF Autocommit
  <2>2. node \in [Honest -> ConsensusStates]
    BY DEF IInv, TypeOK
  <2>3. node' = [node EXCEPT ![v] = t]
    BY <2>1, <2>2
  <2>4. s \in ConsensusStates /\ s.outbox = {}
    BY <1>2, <2>2 DEF NodeInv
  <2> HIDE DEF s
  <2>5. s.autocommit + 1 \in 1 .. Len(Order)
    <3>1. s.autocommit \in 1 .. Len(Order)
        BY <2>4 DEF ConsensusStates
    <3>2. \A i \in 1 .. (s.autocommit - 1) : Order[i] # v
        BY <1>2 DEF NodeInv, Timers
    <3>3. PICK i \in 1 .. Len(Order) : Order[i] = v
        BY DEF Honest
    <3>4. Len(Order) \in Nat
        OBVIOUS
    <3>5. i \notin 1 .. (s.autocommit - 1) /\ i # s.autocommit
        BY <1>6, <3>2, <3>3
    <3>6. \A n \in Nat : \A a, j \in 1 .. n :
              j \notin 1 .. (a - 1) /\ j # a => a + 1 \in 1 .. n
        OBVIOUS
    <3> QED BY <3>1, <3>3, <3>4, <3>5, <3>6
  <2>6. /\ t \in ConsensusStates /\ t.state = s.state /\ t.round = s.round
        /\ t.hash = s.hash /\ t.saved = s.saved /\ t.lock = s.lock
        /\ t.lockVotes = s.lockVotes /\ t.prevotes = s.prevotes
        /\ t.precommits = s.precommits /\ t.outbox = {} /\ t.timer = s.timer
        /\ t.autocommit = s.autocommit + 1
        /\ [t EXCEPT !.outbox = {}] = t
    BY <2>4, <2>5 DEF ConsensusStates
  <2> HIDE DEF t
  <2>7. Good(v, t)
    BY <1>2, <2>4, <2>6 DEF Good, LocalInv, OutboxInv, OutboxOf, Counted
  <2>8. Timers(v, t)
    <3>1. s.autocommit \in Nat
        BY <2>4 DEF ConsensusStates
    <3>2. \A i \in 1 .. s.autocommit : Order[i] # v
        BY <1>2, <1>6, <3>1 DEF NodeInv, Timers
    <3>3. t.autocommit - 1 = s.autocommit
        BY <2>6, <3>1
    <3>4. s.timer # "Propose"
        BY <1>1, <1>2 DEF NodeInv, Timers, should_propose
    <3> QED BY <2>6, <3>2, <3>3, <3>4 DEF Timers
  <2>9. OwnVotesSent(v, t) /\ (v \notin forgot' => Bound(v, t))
    BY <1>3, <1>4, <2>6 DEF OwnVotesSent, Bound
  <2>10. t.state # "Micro" /\ t.saved /\ ~ is_leader(v, t)
    BY <1>1, <1>3, <2>6 DEF is_leader
  <2>11. /\ node' = [node EXCEPT ![v] = [t EXCEPT !.outbox = {}]]
         /\ msgs' = msgs \cup t.outbox
    BY <2>1, <2>3, <2>6
  <2> QED BY <1>2, <1>4, <2>1, <2>7, <2>8, <2>9, <2>10, <2>11, PublishStep
<1> QED BY <1>5, <1>6

LEMMA HandleMacroBlockStep ==
    ASSUME IInv, NEW v \in Honest, HandleMacroBlock(v)
    PROVE  IInv'
<1>1. PICK x \in sealed : Quorum(x.signers) /\ ApplyMacroBlock(v, x.block)
    BY DEF HandleMacroBlock
<1>2. TypeOK /\ NodeInv(v, node[v])
    BY DEF IInv
<1>3. /\ x.signers \in SUBSET Validators /\ x.block \in Blocks
      /\ x = [block |-> x.block, signers |-> x.signers]
    BY <1>2 DEF TypeOK
<1>4. sealed' = sealed \cup {[block |-> x.block, signers |-> x.signers]}
    BY <1>3 DEF HandleMacroBlock
<1>5. \A w \in x.signers : Signed(w, x.block)
    BY DEF Signed
<1>6. forgot' = forgot /\ forgot' \subseteq Honest /\ UNCHANGED <<restarts, restarted>>
    BY <1>1, <1>2 DEF ApplyMacroBlock, history, TypeOK
<1>7. v \notin forgot' /\ v \in x.signers =>
          \A c \in Blocks : Signed(v, c) => c = x.block
    BY <1>2, <1>3, <1>5, <1>6 DEF NodeInv, SignsOnce
<1>8. Quorum(Faulty) \/ x.block \in Valid
    BY DEF IInv, SealedIsSound
<1> QED BY <1>1, <1>3, <1>4, <1>5, <1>6, <1>7, <1>8, ApplyStep DEF ApplyMacroBlock

LEMMA HandleFaultyMacroBlockStep ==
    ASSUME IInv, NEW v \in Honest, HandleFaultyMacroBlock(v)
    PROVE  IInv'
<1> USE ConsensusAssumption DEF ConsensusAssumption
<1>1. PICK b \in Blocks :
         LET signers == Faulty \cup {w \in Honest : Signed(w, b)}
         IN  /\ Quorum(signers)
             /\ ApplyMacroBlock(v, b)
             /\ sealed' = sealed \cup {[block |-> b, signers |-> signers]}
    BY DEF HandleFaultyMacroBlock
<1> DEFINE signers == Faulty \cup {w \in Honest : Signed(w, b)}
<1>2. TypeOK /\ NodeInv(v, node[v])
    BY DEF IInv
<1>3. signers \in SUBSET Validators
    BY DEF Honest
<1>4. \A w \in signers \cap Honest : Signed(w, b)
    BY DEF Honest
<1>5. /\ Quorum(signers) /\ ApplyMacroBlock(v, b)
      /\ sealed' = sealed \cup {[block |-> b, signers |-> signers]}
    BY <1>1
<1> HIDE DEF signers
<1>6. forgot' = forgot /\ forgot' \subseteq Honest /\ UNCHANGED <<restarts, restarted>>
    BY <1>5, <1>2 DEF ApplyMacroBlock, history, TypeOK
<1>7. v \notin forgot' /\ v \in signers =>
          \A c \in Blocks : Signed(v, c) => c = b
    BY <1>2, <1>4, <1>6 DEF NodeInv, SignsOnce
<1>8. Quorum(Faulty) \/ b \in Valid
  <2>1. CASE \A w \in Honest : ~ Signed(w, b)
    <3>1. signers = Faulty
        BY <2>1 DEF signers
    <3> QED BY <1>5, <3>1
  <2>2. CASE \E w \in Honest : Signed(w, b)
    BY <2>2 DEF Signed, IInv, PrecommitsAreValid, SealedIsSound
  <2> QED BY <2>1, <2>2
<1> QED BY <1>3, <1>4, <1>5, <1>6, <1>7, <1>8, ApplyStep DEF ApplyMacroBlock

LEMMA ProposeMacroBlockStep ==
    ASSUME IInv, NEW v \in Honest, ProposeMacroBlock(v)
    PROVE  IInv'
<1> USE ConsensusAssumption DEF ConsensusAssumption
<1> DEFINE n == node[v]
           s == [n EXCEPT !.timer = "ViewChange"]
<1>1. n.timer = "Propose" /\ UNCHANGED history
    BY DEF ProposeMacroBlock
<1>2. PICK b \in Valid :
         LET p == FeedProposal(v, s, b, {}, {})
             m == [p EXCEPT !.outbox = @ \cup {Message("Proposal", v, p)}]
         IN  handle_consensus_events(v, prevote(v, m))
    BY DEF ProposeMacroBlock
<1> DEFINE p == FeedProposal(v, s, b, {}, {})
           proposal == Message("Proposal", v, p)
           m == [p EXCEPT !.outbox = @ \cup {proposal}]
           t == prevote(v, m)
<1>3. handle_consensus_events(v, t)
    BY <1>2
<1>4. NodeInv(v, n) /\ TypeOK
    BY DEF IInv
<1>5. n.state = "Propose" /\ n.lock = NoBlock
    BY <1>1, <1>4 DEF NodeInv, Timers, should_propose
<1>6. /\ Good(v, n) /\ decided[v] = NoBlock /\ n.prevotes = {} /\ n.outbox = {}
      /\ v \notin restarted => \A x \in msgs : x.from = v => x.round < n.round
      /\ v \notin forgot => \A c \in Blocks : ~ Signed(v, c)
    BY <1>5, ProposeState
<1> HIDE DEF n
<1>7. /\ s \in ConsensusStates /\ s.state = n.state /\ s.round = n.round
      /\ s.hash = n.hash /\ s.saved = n.saved /\ s.lock = NoBlock
      /\ s.lockVotes = n.lockVotes /\ s.prevotes = n.prevotes
      /\ s.precommits = n.precommits /\ s.outbox = {} /\ s.timer = "ViewChange"
      /\ s.autocommit = n.autocommit
    BY <1>5, <1>6 DEF Good, LocalInv, ConsensusStates
<1> HIDE DEF s
<1>8. LocalInv(v, s) /\ Counted(s)
    BY <1>5, <1>6, <1>7 DEF Good, LocalInv, Counted
<1>9. Good(v, p) /\ Continued(v, s, p) /\ p.hash = b /\ p.state \in Active
  <2>1. Cast(v, s.round, b, {}, {})
    BY CastNothing
  <2> QED BY <1>5, <1>7, <1>8, <2>1, FeedProposalGood
<1> HIDE DEF p
<1>10. p.lock = NoBlock /\ p \in ConsensusStates
    BY <1>7, <1>9 DEF Continued, Good, LocalInv
<1>11. /\ proposal \in ConsensusMessage /\ proposal.type = "Proposal"
       /\ proposal.from = v /\ proposal.round = p.round /\ proposal.block = p.hash
    BY <1>9, <1>10 DEF Message, ConsensusMessage, ConsensusStates, Honest
<1> HIDE DEF proposal
<1>12. /\ m \in ConsensusStates /\ m.state = p.state /\ m.round = p.round
       /\ m.hash = p.hash /\ m.saved = p.saved /\ m.lock = p.lock
       /\ m.lockVotes = p.lockVotes /\ m.prevotes = p.prevotes
       /\ m.precommits = p.precommits /\ m.outbox = p.outbox \cup {proposal}
       /\ m.timer = p.timer /\ m.autocommit = p.autocommit
    BY <1>10, <1>11 DEF ConsensusStates
<1> HIDE DEF m
<1>13. LocalInv(v, m) /\ Counted(m) /\ OutboxOf(v, m)
    BY <1>9, <1>11, <1>12 DEF Good, LocalInv, Counted, OutboxInv, OutboxOf
<1>14. Good(v, t) /\ Voted(m, t) /\ t.saved
    BY <1>9, <1>10, <1>12, <1>13, prevoteGood
<1> HIDE DEF t
<1>15. t.timer = "ViewChange" /\ t.autocommit = n.autocommit /\ t.round = n.round
    BY <1>7, <1>9, <1>12, <1>14 DEF Voted, Continued
<1>16. Timers(v, t)
    BY <1>4, <1>15 DEF NodeInv, Timers
<1>17. OwnVotes(v, t)
  <2>1. n.round \in Int
    BY <1>6, RoundInt DEF Good, LocalInv
  <2>2. \A x \in msgs : x.round \in Int
    BY <1>4 DEF TypeOK, ConsensusMessage, Rounds
  <2> QED BY <1>6, <1>15, <2>1, <2>2 DEF OwnVotes
<1>18. /\ forgot' = forgot /\ forgot' \subseteq Honest
       /\ UNCHANGED <<restarts, restarted>>
    BY <1>1, <1>4 DEF TypeOK, history
<1>19. v \notin forgot' => Bound(v, t)
    BY <1>6, <1>18 DEF Bound
<1>20. t.state # "Micro"
    BY <1>14 DEF Voted, Active
<1> QED BY <1>3, <1>6, <1>14, <1>16, <1>17, <1>18, <1>19, <1>20, FinishStep

-----------------------------------------------------------------------------
(* The theorems *)

\* Two supermajorities have more than a third of the slots in common.
THEOREM SupermajorityOverlap ==
    \A total, got1, got2 \in Nat :
        check_supermajority(got1, total) /\ check_supermajority(got2, total) =>
            3 * (got1 + got2 - total) > total
BY DEF check_supermajority

LEMMA InitInv == Init => IInv
<1> USE ConsensusAssumption DEF ConsensusAssumption
<1> SUFFICES ASSUME Init PROVE IInv
    OBVIOUS
<1> DEFINE s == New("Micro")
<1>1. ASSUME NEW v \in Honest
      PROVE  s \in ConsensusStates /\ NodeInv(v, s)
  <2>1. Len(Order) \in Nat /\ Len(Order) >= 1
    BY DEF Honest
  <2>2. /\ s.state = "Micro" /\ s.round = 0 /\ s.hash = NoBlock /\ s.saved = FALSE
        /\ s.lock = NoBlock /\ s.lockVotes = {} /\ s.prevotes = {}
        /\ s.precommits = {} /\ s.outbox = {} /\ s.timer = "None"
        /\ s.autocommit = 1
    BY DEF New
  <2>3. s \in ConsensusStates
    BY <2>1 DEF New, ConsensusStates, Option, Rounds
  <2> HIDE DEF s
  <2>4. LocalInv(v, s) /\ Timers(v, s) /\ Counted(s)
    BY <2>2, <2>3 DEF LocalInv, Timers, Counted, Active
  <2>5. \A b : ~ Signed(v, b)
    BY DEF Init, Signed
  <2>6. Undecided(v, s) /\ SignsOnce(v)
    BY <2>5 DEF Init, Undecided, OwnVotesSent, Bound, SignsOnce
  <2>7. decided[v] = NoBlock
    BY DEF Init
  <2> QED BY <2>2, <2>3, <2>4, <2>6, <2>7 DEF NodeInv, Active, s
<1>2. \A v \in Honest : node[v] = s /\ s.outbox = {}
    BY DEF Init, New
<1>3. node = [v \in Honest |-> s]
    BY DEF Init
<1> HIDE DEF s
<1>4. TypeOK
  <2>1. node \in [Honest -> ConsensusStates]
    BY <1>1, <1>3
  <2> QED BY <1>2, <2>1 DEF Init, TypeOK, Option
<1>5. /\ VotesOnce /\ SealedIsSound /\ PrecommitsAreValid
      /\ \A m \in msgs : m.from \in Honest
    BY DEF Init, VotesOnce, SealedIsSound, PrecommitsAreValid
<1> QED BY <1>1, <1>2, <1>4, <1>5 DEF IInv

LEMMA StutterInv ==
    ASSUME IInv, UNCHANGED vars
    PROVE  IInv'
<1>1. /\ node' = node /\ msgs' = msgs /\ sealed' = sealed /\ decided' = decided
      /\ restarts' = restarts /\ restarted' = restarted /\ forgot' = forgot
    BY DEF vars, history
<1>2. /\ TypeOK' /\ VotesOnce' /\ SealedIsSound' /\ PrecommitsAreValid'
      /\ \A m \in msgs' : m.from \in Honest
    BY <1>1 DEF IInv, TypeOK, VotesOnce, SealedIsSound, PrecommitsAreValid
<1>3. \A v, b : Signed(v, b)' <=> Signed(v, b)
    BY <1>1 DEF Signed
<1>4. ASSUME NEW v \in Honest PROVE NodeInv(v, node[v])'
  <2>1. NodeInv(v, node[v])
    BY DEF IInv
  <2>2. LocalInv(v, node[v])' /\ Counted(node[v])' /\ Timers(v, node[v])'
    BY <1>1, <1>3, <2>1
    DEF NodeInv, LocalInv, Counted, Timers, should_propose, is_leader
  <2>3. (decided[v] = NoBlock => Undecided(v, node[v]))'
    BY <1>1, <1>3, <2>1 DEF NodeInv, Undecided, OwnVotesSent, Bound
  <2>4. (v \notin forgot => SignsOnce(v))'
    BY <1>1, <1>3, <2>1 DEF NodeInv, SignsOnce
  <2> QED BY <1>1, <2>1, <2>2, <2>3, <2>4 DEF NodeInv, is_leader, New
<1> QED BY <1>2, <1>4 DEF IInv

\* IInv is inductive: one lemma per handler.
THEOREM IInvariant == Spec => []IInv
<1>1. IInv /\ [Next]_vars => IInv'
  <2> SUFFICES ASSUME IInv, [Next]_vars PROVE IInv'
    OBVIOUS
  <2>1. CASE UNCHANGED vars
    BY <2>1, StutterInv
  <2>2. ASSUME NEW v \in Honest, Step(v) PROVE IInv'
    BY <2>2, StartStep, RestartStep, HandleProposalStep, HandlePrevoteStep,
       HandlePrecommitStep, ProposeMacroBlockStep, NextRoundStep,
       AutocommitStep, HandleMacroBlockStep, HandleFaultyMacroBlockStep
    DEF Step
  <2> QED BY <2>1, <2>2 DEF Next
<1> QED BY InitInv, <1>1, PTL DEF Spec

\* The handlers of state.rs and lib.rs keep every field within its type and
\* leave nothing in the outbox.
THEOREM TypeCorrect == Spec => []TypeOK
<1>1. IInv => TypeOK
    BY DEF IInv
<1> QED BY IInvariant, <1>1, PTL

\* No assert or unwrap of state.rs and lib.rs fires.
THEOREM AssertionsNeverFire == Spec => []AssertionsHold
<1>1. IInv => AssertionsHold
    BY DEF IInv, AssertionsHold, NodeInv, Timers, Active
<1> QED BY IInvariant, <1>1, PTL

\* A validator that has not restarted never votes for two blocks in a round.
THEOREM NobodyVotesTwice == Spec => []VotesOnce
<1>1. IInv => VotesOnce
    BY DEF IInv
<1> QED BY IInvariant, <1>1, PTL

\* commit() only builds multi-signatures that every node accepts, and what has
\* one is valid unless the faulty validators are a quorum themselves.
THEOREM SealedBlocksAreSound == Spec => []SealedIsSound
<1>1. IInv => SealedIsSound
    BY DEF IInv
<1> QED BY IInvariant, <1>1, PTL

\* Two validators that leave Prevote in the same round agree on the block.
THEOREM RoundsAgree == Spec => []RoundAgreement
<1>1. ASSUME IInv PROVE RoundAgreement
  <2> SUFFICES ASSUME QuorumsMeetIn(Honest \ restarted),
                      NEW v \in Honest, NEW w \in Honest,
                      node[v].state \in {"Precommit", "Commit"},
                      node[w].state \in {"Precommit", "Commit"},
                      node[v].round = node[w].round
               PROVE  node[v].hash = node[w].hash
    BY DEF RoundAgreement
  <2>1. NodeInv(v, node[v]) /\ NodeInv(w, node[w]) /\ TypeOK /\ VotesOnce
    BY <1>1 DEF IInv
  <2>2. PICK q1 \in SUBSET node[v].prevotes : Quorum(q1)
    BY <2>1 DEF NodeInv, LocalInv
  <2>3. PICK q2 \in SUBSET node[w].prevotes : Quorum(q2)
    BY <2>1 DEF NodeInv, LocalInv
  <2>4. q1 \in Quorums /\ q2 \in Quorums
    BY <2>1, <2>2, <2>3 DEF TypeOK, ConsensusStates, Quorums
  <2>5. PICK u \in Honest \ restarted : u \in q1 /\ u \in q2
    BY <2>4 DEF QuorumsMeetIn
  <2>6. /\ Vote("Prevote", node[v].round, node[v].hash, u) \in msgs
        /\ Vote("Prevote", node[w].round, node[w].hash, u) \in msgs
    BY <2>1, <2>2, <2>3, <2>5 DEF NodeInv, Counted
  <2> QED BY <2>1, <2>5, <2>6 DEF VotesOnce, Vote
<1> QED BY IInvariant, <1>1, PTL

\* The chain does not fork at a macro block, as long as every two quorums
\* share a validator that has not lost the lock on what it signed.
THEOREM AgreementTheorem == Spec => []AgreementUnlessForgotten
<1>1. ASSUME IInv PROVE AgreementUnlessForgotten
  <2> SUFFICES ASSUME QuorumsMeetIn(Honest \ forgot),
                      NEW v \in Honest, NEW w \in Honest,
                      decided[v] # NoBlock, decided[w] # NoBlock
               PROVE  decided[v] = decided[w]
    BY DEF AgreementUnlessForgotten
  <2>1. TypeOK /\ SealedIsSound /\ NodeInv(v, node[v]) /\ NodeInv(w, node[w])
    BY <1>1 DEF IInv
  <2>2. PICK x \in sealed : x.block = decided[v]
    BY <2>1 DEF NodeInv
  <2>3. PICK y \in sealed : y.block = decided[w]
    BY <2>1 DEF NodeInv
  <2>4. /\ x.signers \in Quorums /\ y.signers \in Quorums
        /\ x.block \in Blocks /\ y.block \in Blocks
    BY <2>1 DEF TypeOK, SealedIsSound, Quorums
  <2>5. PICK u \in Honest \ forgot : u \in x.signers /\ u \in y.signers
    BY <2>4 DEF QuorumsMeetIn
  <2>6. Signed(u, x.block) /\ Signed(u, y.block)
    BY <2>5 DEF Signed
  <2>7. SignsOnce(u)
    BY <1>1, <2>5 DEF IInv, NodeInv
  <2> QED BY <2>2, <2>3, <2>4, <2>6, <2>7 DEF SignsOnce
<1> QED BY IInvariant, <1>1, PTL

\* The slots decide: the chain does not fork at a macro block as long as the
\* faulty validators and those that have lost the lock on what they signed
\* have a third of the slots or less.
THEOREM AgreementWithinAThird ==
    Spec => [](3 * SlotsOf(Faulty \cup forgot) <= total_slots => Agreement)
<1>1. ASSUME IInv, AgreementUnlessForgotten, 3 * SlotsOf(Faulty \cup forgot) <= total_slots
      PROVE  Agreement
  <2>1. Faulty \cup forgot \in SUBSET Validators
    BY <1>1, ConsensusAssumption DEF IInv, TypeOK, Honest
  <2>2. QuorumsMeetIn(Validators \ (Faulty \cup forgot))
    BY <1>1, <2>1, SupermajoritiesMeet
  <2>3. Validators \ (Faulty \cup forgot) = Honest \ forgot
    BY DEF Honest
  <2> QED BY <1>1, <2>2, <2>3 DEF AgreementUnlessForgotten, Agreement
<1>2. IInv /\ AgreementUnlessForgotten =>
        (3 * SlotsOf(Faulty \cup forgot) <= total_slots => Agreement)
  BY <1>1
<1> QED BY IInvariant, AgreementTheorem, <1>2, PTL
=============================================================================
