----------------------------- MODULE Consensus -----------------------------
(***************************************************************************)
(* The pBFT agreement on the macro block that ends an epoch, for ONE epoch *)
(* of a group of validators: consensus/src/state.rs (the state machine of  *)
(* one validator) under node/src/lib.rs (its timers, validation, outbox    *)
(* and the commit of the block).                                           *)
(*                                                                         *)
(* A step of the model is one run of a node's event handler: a message, a  *)
(* timer or a sealed block, with everything the handler does before it     *)
(* returns.  The network is the set of everything ever published (pubsub   *)
(* may delay, lose, reorder and repeat).  A node's inbox of early messages *)
(* is not kept: what had arrived early is chosen where the code drains the *)
(* inbox (process_inbox, future_consensus_messages).                       *)
(***************************************************************************)
EXTENDS Supermajority, Sequences

CONSTANTS
    Faulty,         \* validators that may send anything
    Order,          \* election_result.validators, the autocommit order
    MaxRound,       \* bound: the last round that is explored
    Leader,         \* Leader[r]: election_result.select_leader(r)
    Blocks,         \* the macro blocks that may be proposed in the epoch
    Origin,         \* Origin[b]: header.view_change, the round b was created in
    Valid,          \* the blocks whose contents pass validation
    NoBlock,        \* None
    MaxRestarts     \* bound: how often a node may crash and restart

Rounds == 0 .. MaxRound
Honest == Validators \ Faulty

ASSUME ConsensusAssumption ==
    /\ Faulty \subseteq Validators
    /\ MaxRound \in Nat
    /\ MaxRestarts \in Nat
    /\ Order \in Seq(Validators)
    /\ \A v \in Validators : \E i \in 1 .. Len(Order) : Order[i] = v
    /\ Leader \in [Rounds -> Validators]
    /\ NoBlock \notin Blocks
    /\ Origin \in [Blocks -> Rounds]
    /\ Valid \subseteq Blocks

VARIABLES
    node,           \* node[v]: the consensus state of the honest validator v
    msgs,           \* every consensus message published by honest validators
    sealed,         \* macro blocks with a multi-signature, as broadcast
    decided,        \* decided[v]: the macro block that v has applied
    restarts,       \* how many restarts there have been
    restarted,      \* history: who has restarted in the middle of the epoch
    forgot          \* history: who has gone to another round, or restarted,
                    \* without a lock on a block it has signed

history == <<restarts, restarted, forgot>>
vars == <<node, msgs, sealed, decided, history>>

-----------------------------------------------------------------------------
(* The state of one validator *)

Option == Blocks \cup {NoBlock}

ConsensusMessage ==
    [type : {"Proposal", "Prevote", "Precommit"},
     round : Rounds, block : Blocks, from : Validators]

Message(type, v, s) ==
    [type |-> type, round |-> s.round, block |-> s.hash, from |-> v]

\* "Micro": the node still collects micro blocks, or has moved to the next
\* epoch, and runs no consensus.  hash is the block_hash and block_proposal
\* of the round, saved says that the validated block itself is kept.
ConsensusStates ==
    [state : {"Micro", "Propose", "Prevote", "Precommit", "Commit"},
     round : Rounds, hash : Option, saved : BOOLEAN,
     lock : Option, lockVotes : SUBSET Validators,
     prevotes : SUBSET Validators, precommits : SUBSET Validators,
     outbox : SUBSET ConsensusMessage,
     timer : {"None", "Propose", "ViewChange"}, autocommit : 1 .. Len(Order)]

New(state) ==
    [state |-> state, round |-> 0, hash |-> NoBlock, saved |-> FALSE,
     lock |-> NoBlock, lockVotes |-> {}, prevotes |-> {}, precommits |-> {},
     outbox |-> {}, timer |-> "None", autocommit |-> 1]

is_leader(v, s) == Leader[s.round] = v

should_propose(v, s) ==
    s.state = "Propose" /\ is_leader(v, s) /\ s.lock = NoBlock

should_prevote(v, s) ==
    s.state \in {"Prevote", "Precommit", "Commit"} /\ v \notin s.prevotes

validate_proposed_macro_block(b, round) == b \in Valid /\ Origin[b] <= round

-----------------------------------------------------------------------------
(* The state machine of one validator: each operator is the state that the *)
(* function of the same name leaves behind.                                *)

ToCommit(s) ==
    IF s.state = "Precommit" /\ Quorum(s.precommits)
    THEN [s EXCEPT !.state = "Commit"] ELSE s

precommit(v, s) ==
    ToCommit([s EXCEPT !.precommits = @ \cup {v},
                       !.outbox = @ \cup {Message("Precommit", v, s)}])

\* The end of feed_message.  A node that has not prevoted itself follows the
\* others to Precommit and stays silent.
CheckVotes(v, s) ==
    IF s.state = "Prevote" /\ Quorum(s.prevotes)
    THEN LET p == [s EXCEPT !.state = "Precommit"]
         IN  IF v \in s.prevotes THEN precommit(v, p) ELSE p
    ELSE ToCommit(s)

\* Mutant of prevote: a locked node votes for any valid block.
VoteDespiteLock(v, s) ==
    LET sent == [s EXCEPT !.saved = TRUE,
                          !.outbox = @ \cup {Message("Prevote", v, s)}]
    IN  IF s.state = "Commit" THEN sent
        ELSE CheckVotes(v, [sent EXCEPT !.prevotes = @ \cup {v}])

\* The block is kept in any case; a node locked on another block does not vote.
prevote(v, s) ==
    LET kept == [s EXCEPT !.saved = TRUE]
        sent == [kept EXCEPT !.outbox = @ \cup {Message("Prevote", v, s)}]
    IN  IF s.lock \notin {NoBlock, s.hash} THEN kept
        ELSE IF s.state = "Commit" THEN sent
        ELSE CheckVotes(v, [sent EXCEPT !.prevotes = @ \cup {v}])

\* Votes from the inbox; the vote that starts Precommit is not the last check,
\* feed_message checks again when process_inbox is done.
process_inbox(v, s, prevoters, precommitters) ==
    IF s.state = "Commit" THEN s
    ELSE CheckVotes(v, CheckVotes(v,
            [s EXCEPT !.prevotes = @ \cup prevoters,
                      !.precommits = @ \cup precommitters]))

\* feed_message of a proposal of the leader in state Propose.  The locked
\* block, proposed again, takes the lock and its precommits into the round.
FeedProposal(v, s, b, prevoters, precommitters) ==
    LET new == [s EXCEPT !.state = "Prevote", !.hash = b, !.saved = FALSE]
        again == [new EXCEPT !.lock = NoBlock, !.lockVotes = {},
                             !.precommits = s.lockVotes]
    IN  process_inbox(v, IF s.lock = b THEN prevote(v, again) ELSE new,
                      prevoters, precommitters)

\* The proposal that reset() ends with: a leader repeats its lock by itself,
\* for the others b is the proposal found in the inbox, if any.
Reproposed(v, s, b) == IF is_leader(v, s) THEN s.lock ELSE b

\* Mutant of reset: precommits that came early stay.
ResetVotesOnly(v, s, b, prevoters, precommitters) ==
    LET clear == [s EXCEPT !.state = "Propose", !.hash = NoBlock,
                           !.saved = FALSE, !.prevotes = {}, !.outbox = {}]
    IN  IF b = NoBlock \/ is_leader(v, s) THEN clear
        ELSE FeedProposal(v, clear, b, prevoters, precommitters)

reset(v, s, b, prevoters, precommitters) ==
    LET clear == [s EXCEPT !.state = "Propose", !.hash = NoBlock,
                           !.saved = FALSE, !.prevotes = {},
                           !.precommits = {}, !.outbox = {}]
        found == Reproposed(v, s, b)
        sent == {[type |-> "Proposal", round |-> s.round,
                  block |-> found, from |-> v]}
    IN  IF found = NoBlock THEN clear
        ELSE FeedProposal(v,
                [clear EXCEPT !.outbox = IF is_leader(v, s) THEN sent ELSE {}],
                found, prevoters, precommitters)

\* next_round before its reset(): only a node in Precommit locks its block.
lock(s) ==
    IF s.state = "Precommit"
    THEN [s EXCEPT !.round = @ + 1, !.lock = s.hash, !.lockVotes = s.precommits]
    ELSE [s EXCEPT !.round = @ + 1]

\* Mutant of on_macro_block_leader_changed: a leader always proposes.
AlwaysPropose(v, s) ==
    [s EXCEPT !.autocommit = 1,
              !.timer = IF is_leader(v, s) THEN "Propose" ELSE "ViewChange"]

\* A leader that repeats a locked block arms no timer at all.
on_macro_block_leader_changed(v, s) ==
    [s EXCEPT !.autocommit = 1,
              !.timer = IF ~ is_leader(v, s) THEN "ViewChange"
                        ELSE IF should_propose(v, s) THEN "Propose" ELSE "None"]

\* The first half of handle_consensus_events: vote on the proposal.
VoteOnProposal(v, s) ==
    IF ~ should_prevote(v, s) THEN s
    ELSE IF validate_proposed_macro_block(s.hash, s.round) THEN prevote(v, s)
    ELSE reset(v, s, NoBlock, {}, {})

-----------------------------------------------------------------------------
(* Messages *)

\* A faulty validator sends any vote.  It proposes blocks it has created
\* itself as the leader of some round, or has seen in another proposal.
Sent(type, round, b, w) ==
    \/ /\ w \in Faulty
       /\ \/ type # "Proposal"
          \/ Leader[Origin[b]] \in Faulty
          \/ \E m \in msgs : m.type = "Proposal" /\ m.block = b
    \/ [type |-> type, round |-> round, block |-> b, from |-> w] \in msgs

\* Mutant of Votes: the block hash of a vote is not compared.
VotesForAnyBlock(type, v, round, b) ==
    {w \in Validators \ {v} : \E other \in Blocks : Sent(type, round, other, w)}

\* The votes of others for b; a node never gets its own messages back.
Votes(type, v, round, b) ==
    {w \in Validators \ {v} : b # NoBlock /\ Sent(type, round, b, w)}

\* b is the proposal of the round, in v's inbox or on its way to v.
Proposed(v, round, b) ==
    /\ b \in Blocks
    /\ Leader[round] # v
    /\ Sent("Proposal", round, b, Leader[round])

\* A validator gave its signature on the block's hash, in a precommit or in a
\* sealed block.  The signature names no round and stays valid for ever.
Signed(v, b) ==
    \/ \E m \in msgs : m.type = "Precommit" /\ m.from = v /\ m.block = b
    \/ \E x \in sealed : x.block = b /\ v \in x.signers

\* v goes on with the lock of s although it has signed something else.
Forgets(v, s) ==
    IF \E b \in Blocks : Signed(v, b) /\ s.lock # b THEN {v} ELSE {}

-----------------------------------------------------------------------------
(* The node: one action per event handler *)

\* commit_proposed_block, apply_macro_block: the precommits are the signature.
CommitProposedBlock(v, s) ==
    /\ sealed' = sealed \cup {[block |-> s.hash, signers |-> s.precommits]}
    /\ decided' = [decided EXCEPT ![v] = s.hash]
    /\ node' = [node EXCEPT ![v] = New("Micro")]
    /\ UNCHANGED msgs

\* Mutant of handle_consensus_events: the outbox is sent and not emptied.
SendOutboxAgain(v, s) ==
    IF is_leader(v, s) /\ s.state = "Commit"
    THEN CommitProposedBlock(v, s)
    ELSE /\ node' = [node EXCEPT ![v] = s]
         /\ msgs' = msgs \cup s.outbox
         /\ UNCHANGED <<sealed, decided>>

\* The second half of handle_consensus_events: a leader that can commit does
\* so and drops its outbox, any other node publishes its outbox.
handle_consensus_events(v, s) ==
    IF is_leader(v, s) /\ s.state = "Commit"
    THEN CommitProposedBlock(v, s)
    ELSE /\ node' = [node EXCEPT ![v] = [s EXCEPT !.outbox = {}]]
         /\ msgs' = msgs \cup s.outbox
         /\ UNCHANGED <<sealed, decided>>

\* update_validation_status at the end of the epoch, with the messages that
\* came in before (future_consensus_messages).
Start(v) ==
    /\ node[v].state = "Micro" /\ decided[v] = NoBlock
    /\ \E b \in Option :
         /\ b = NoBlock \/ Proposed(v, 0, b)
         /\ \E prevoters \in SUBSET Votes("Prevote", v, 0, b),
               precommitters \in SUBSET Votes("Precommit", v, 0, b) :
              LET s == reset(v, New("Propose"), b, prevoters, precommitters)
              IN  handle_consensus_events(v,
                      VoteOnProposal(v, on_macro_block_leader_changed(v, s)))
    /\ UNCHANGED history

\* The process restarts: the chain is on disk, the consensus state is not.
Restart(v) ==
    /\ node[v].state # "Micro"
    /\ restarts < MaxRestarts
    /\ restarts' = restarts + 1
    /\ restarted' = restarted \cup {v}
    /\ forgot' = forgot \cup Forgets(v, New("Propose"))
    /\ node' = [node EXCEPT ![v] =
                   on_macro_block_leader_changed(v, New("Propose"))]
    /\ UNCHANGED <<msgs, sealed, decided>>

\* Mutant of HandleProposal: a second proposal of the round replaces the first.
AcceptSecondProposal(v) ==
    LET s == node[v] IN
    /\ s.state \in {"Propose", "Prevote"}
    /\ \E b \in Blocks :
         /\ Proposed(v, s.round, b)
         /\ handle_consensus_events(v,
                VoteOnProposal(v,
                    FeedProposal(v, [s EXCEPT !.prevotes = {}], b, {}, {})))
    /\ UNCHANGED history

\* handle_consensus_message of a proposal, followed by the votes in the inbox.
HandleProposal(v) ==
    LET s == node[v] IN
    /\ s.state = "Propose"
    /\ \E b \in Blocks :
         /\ Proposed(v, s.round, b)
         /\ \E prevoters \in SUBSET Votes("Prevote", v, s.round, b),
               precommitters \in SUBSET Votes("Precommit", v, s.round, b) :
              handle_consensus_events(v,
                  VoteOnProposal(v,
                      FeedProposal(v, s, b, prevoters, precommitters)))
    /\ UNCHANGED history

\* handle_consensus_message of a prevote for the block of the round.
HandlePrevote(v, w) ==
    LET s == node[v] IN
    /\ s.state \in {"Prevote", "Precommit"}
    /\ w \in Votes("Prevote", v, s.round, s.hash)
    /\ handle_consensus_events(v,
           VoteOnProposal(v,
               CheckVotes(v, [s EXCEPT !.prevotes = @ \cup {w}])))
    /\ UNCHANGED history

\* handle_consensus_message of a precommit for the block of the round.
HandlePrecommit(v, w) ==
    LET s == node[v] IN
    /\ s.state \in {"Prevote", "Precommit"}
    /\ w \in Votes("Precommit", v, s.round, s.hash)
    /\ handle_consensus_events(v,
           VoteOnProposal(v,
               CheckVotes(v, [s EXCEPT !.precommits = @ \cup {w}])))
    /\ UNCHANGED history

\* Mutant of ProposeMacroBlock: no timer watches over the leader's own round.
ProposeAndWait(v) ==
    LET s == [node[v] EXCEPT !.timer = "None"] IN
    /\ node[v].timer = "Propose"
    /\ \E b \in Valid :
         /\ Origin[b] = s.round
         /\ LET p == FeedProposal(v, s, b, {}, {})
                m == [p EXCEPT !.outbox = @ \cup {Message("Proposal", v, p)}]
            IN  handle_consensus_events(v, prevote(v, m))
    /\ UNCHANGED history

\* The propose timer: create a block, propose it and vote for it.
ProposeMacroBlock(v) ==
    LET s == [node[v] EXCEPT !.timer = "ViewChange"] IN
    /\ node[v].timer = "Propose"
    /\ \E b \in Valid :
         /\ Origin[b] = s.round
         /\ LET p == FeedProposal(v, s, b, {}, {})
                m == [p EXCEPT !.outbox = @ \cup {Message("Proposal", v, p)}]
            IN  handle_consensus_events(v, prevote(v, m))
    /\ UNCHANGED history

\* handle_macro_block_viewchange_timer of a node that has no block to commit.
NextRound(v) ==
    LET s == lock(node[v]) IN
    /\ node[v].timer = "ViewChange"
    /\ node[v].state # "Commit"
    /\ node[v].round < MaxRound
    /\ \E b \in Option :
         /\ b = Reproposed(v, s, b)
         /\ is_leader(v, s) \/ b = NoBlock \/ Proposed(v, s.round, b)
         /\ \E prevoters \in SUBSET Votes("Prevote", v, s.round, b),
               precommitters \in SUBSET Votes("Precommit", v, s.round, b) :
              LET t == reset(v, s, b, prevoters, precommitters)
              IN  handle_consensus_events(v,
                      VoteOnProposal(v, on_macro_block_leader_changed(v, t)))
    /\ forgot' = forgot \cup Forgets(v, s)
    /\ UNCHANGED <<restarts, restarted>>

\* Mutant of Autocommit: the timer is not armed again.
AutocommitOnce(v) ==
    LET s == node[v] IN
    /\ s.timer = "ViewChange"
    /\ s.state = "Commit"
    /\ IF Order[s.autocommit] = v
       THEN CommitProposedBlock(v, s)
       ELSE /\ node' = [node EXCEPT ![v].autocommit = @ + 1,
                                    ![v].timer = "None"]
            /\ UNCHANGED <<msgs, sealed, decided>>
    /\ UNCHANGED history

\* handle_macro_block_viewchange_timer of a node that waits for the leader to
\* broadcast the block: the validators take turns to do it instead.
Autocommit(v) ==
    LET s == node[v] IN
    /\ s.timer = "ViewChange"
    /\ s.state = "Commit"
    /\ IF Order[s.autocommit] = v
       THEN CommitProposedBlock(v, s)
       ELSE /\ node' = [node EXCEPT ![v].autocommit = @ + 1]
            /\ UNCHANGED <<msgs, sealed, decided>>
    /\ UNCHANGED history

\* handle_macro_block, apply_macro_block: the chain moves to the next epoch.
\* The multi-signature is all that is looked at: the contents are validated
\* again only by the consistency check that is meant for debugging.
ApplyMacroBlock(v, b) ==
    /\ decided[v] = NoBlock
    /\ decided' = [decided EXCEPT ![v] = b]
    /\ node' = [node EXCEPT ![v] = New("Micro")]
    /\ UNCHANGED <<msgs, history>>

\* Any block with enough signatures is applied, in every state.
HandleMacroBlock(v) ==
    /\ \E x \in sealed : Quorum(x.signers) /\ ApplyMacroBlock(v, x.block)
    /\ UNCHANGED sealed

\* Faulty validators may put a multi-signature together themselves.  The node
\* that applies the block serves it to the others from its chain.
HandleFaultyMacroBlock(v) ==
    /\ Faulty # {}
    /\ \E b \in Blocks :
         LET signers == Faulty \cup {w \in Honest : Signed(w, b)}
         IN  /\ Quorum(signers)
             /\ ApplyMacroBlock(v, b)
             /\ sealed' = sealed \cup {[block |-> b, signers |-> signers]}

Step(v) ==
    \/ Start(v) \/ Restart(v)
    \/ HandleProposal(v)
    \/ \E w \in Validators : HandlePrevote(v, w) \/ HandlePrecommit(v, w)
    \/ ProposeMacroBlock(v) \/ NextRound(v)
    \/ Autocommit(v) \/ HandleMacroBlock(v) \/ HandleFaultyMacroBlock(v)

Init ==
    /\ node = [v \in Honest |-> New("Micro")]
    /\ msgs = {}
    /\ sealed = {}
    /\ decided = [v \in Honest |-> NoBlock]
    /\ restarts = 0
    /\ restarted = {}
    /\ forgot = {}

Next == \E v \in Honest : Step(v)

Spec == Init /\ [][Next]_vars

RoundTimerRuns(v) ==
    /\ node[v].timer = "ViewChange" /\ node[v].state # "Commit"
    /\ node[v].round < MaxRound

\* A timer that is armed fires.  Nothing is assumed of messages: pubsub may
\* lose them, and a node that lags more than one micro block behind throws
\* away the future_consensus_messages it has got.
Fairness ==
    \A v \in Honest : /\ WF_vars(ProposeMacroBlock(v))
                      /\ <>[]RoundTimerRuns(v) => []<><<NextRound(v)>>_vars
                      /\ WF_vars(Autocommit(v))

FairSpec == Spec /\ Fairness

-----------------------------------------------------------------------------
(* Properties *)

TypeOK ==
    /\ node \in [Honest -> ConsensusStates]
    /\ \A v \in Honest : node[v].outbox = {}
    /\ msgs \subseteq ConsensusMessage
    /\ sealed \subseteq [block : Blocks, signers : SUBSET Validators]
    /\ decided \in [Honest -> Option]
    /\ restarts \in 0 .. MaxRestarts
    /\ restarted \subseteq Honest
    /\ forgot \subseteq Honest

\* The asserts and unwraps of state.rs and lib.rs never fire: a node that
\* reaches Precommit or Commit has validated the block itself (lock, precommit
\* and commit unwrap it), the propose timer runs only while the node should
\* propose, and a leader never waits in Commit for somebody else
\* ("never happens on leader").
AssertionsHold ==
    \A v \in Honest : LET s == node[v] IN
        /\ s.state \in {"Precommit", "Commit"} => s.saved
        /\ s.timer = "Propose" => should_propose(v, s)
        /\ s.state = "Commit" => ~ is_leader(v, s)

\* Two validators that have seen enough prevotes in the same round have seen
\* them for the same block, as long as those that vote twice (the faulty, and
\* those whose restart lost their vote) do not decide: feed_message drops every
\* vote for another hash, and a validator votes once a round.
RoundAgreement ==
    QuorumsMeetIn(Honest \ restarted) =>
        \A v, w \in Honest :
            /\ node[v].state \in {"Precommit", "Commit"}
            /\ node[w].state \in {"Precommit", "Commit"}
            /\ node[v].round = node[w].round
            => node[v].hash = node[w].hash

\* The validators never apply two different macro blocks in one epoch, as long
\* as every two quorums share a validator that has never gone to a new round,
\* or restarted, without a lock on what it had signed: nothing else makes a
\* validator sign a second block, in spite of silent Precommits, early and late
\* votes, repeated proposals and signatures that name no round.
AgreementUnlessForgotten ==
    QuorumsMeetIn(Honest \ forgot) =>
        \A v, w \in Honest :
            decided[v] # NoBlock /\ decided[w] # NoBlock =>
                decided[v] = decided[w]

\* A macro block that a validator commits on its own carries a multi-signature
\* that every other node accepts: commit() builds it from precommits gathered
\* in several rounds.  Since apply_macro_block does not validate the block once
\* more, those votes are all that stands between an invalid block and the
\* chain; it is kept out unless the faulty validators are a quorum themselves.
SealedIsSound ==
    \A x \in sealed :
        /\ Quorum(x.signers)
        /\ Quorum(Faulty) \/ x.block \in Valid
        /\ \A v \in x.signers \cap Honest :
             \/ decided[v] = x.block
             \/ \E m \in msgs : /\ m.type = "Precommit"
                                /\ m.from = v /\ m.block = x.block

\* A validator publishes one prevote and one precommit in a round, and never
\* both for different blocks, unless it has lost its state in a restart.
VotesOnce ==
    \A m1, m2 \in msgs :
        /\ m1.from = m2.from /\ m1.round = m2.round
        /\ m1.from \notin restarted
        => m1.block = m2.block

\* The same, for every validator and whatever happened to its locks: the
\* promise of locked_round ("keep lock in the state").
Agreement ==
    \A v, w \in Honest :
        decided[v] # NoBlock /\ decided[w] # NoBlock => decided[v] = decided[w]

\* A validator that has collected a quorum of precommits gets the block into
\* its chain even if the leader never broadcasts it, because the validators
\* take turns to do so (autocommit_counter).
CommitIsApplied ==
    \A v \in Honest : node[v].state = "Commit" ~> decided[v] # NoBlock

\* The leader of s offers a block of an earlier round, on which it is locked.
RepeatsLock(v, s) ==
    is_leader(v, s) /\ s.hash # NoBlock /\ Origin[s.hash] # s.round

\* Nobody waits for ever.  Whatever proposals and votes are lost, dropped or
\* invalid, a validator leaves each round it has entered by its timers: for the
\* next one, or because it has applied a block.  The one exception is a leader
\* that repeats its locked block, which runs without a timer.
RoundEnds ==
    \A v \in Honest : \A r \in 0 .. MaxRound - 1 :
        node[v].state # "Micro" /\ node[v].round = r
            ~> \/ node[v].state = "Micro" \/ node[v].round # r
               \/ RepeatsLock(v, node[v])

=============================================================================
