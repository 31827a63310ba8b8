# TLA+ models of Stegos

Stegos is a proof-of-stake blockchain. Time is divided into epochs. An epoch is a
sequence of `micro_blocks_in_epoch` micro blocks, each made by one leader on its own, and
is closed by a macro block on which the validators of the epoch agree by a variant of pBFT
and which replaces the micro blocks. The macro block's random elects the validators of the
next epoch from the stakes in escrow. A leader that is late is skipped by a view change; a
leader that signs two blocks for one place loses its stake; validators that never failed
take part in a lottery for the service award.

This directory has models of the parts of this program that decide whether it is correct,
runs of TLC that check them on small instances and TLAPS proofs for every instance.
`PROJECT.json` lists components, runs, mutants, findings, hazards and theorems, and maps
every definition to the lines it models.

| module | what it models | kind |
|---|---|---|
| `Supermajority` | weighted quorums, `blockchain/src/multisignature.rs` | operators |
| `Consensus` | agreement on one macro block, `consensus/src/state.rs` under `node/src/lib.rs` | state machine |
| `MultiVersionedMap` | the operations of `blockchain/src/mvcc.rs` | operators |
| `VersionedMap` | what a versioned map promises | abstract specification |
| `Mvcc` | one map in use, with its copy in the database | state machine |
| `Election` | the lotteries of `blockchain/src/election.rs` | operators |
| `Awards` | the service award of `blockchain/src/awards.rs` | operators |
| `Blockchain` | the chain of one node, its database, crash and recovery | state machine |
| `MicroChain` | the micro blocks of one epoch on several nodes: view changes, forks, evidence, downloads | state machine |
| `Mempool` | the transactions that wait, their validation, the reader of a subscriber, `node/src/mempool.rs` | operators |
| `Wallet` | an account and its database beside a node's mempool and chain, `wallet/src` | state machine |
| `DiceMix` | the arithmetic of the anonymous sum, `crypto/src/dicemix` | operators |
| `Snowball` | the pool of a facilitator and the rounds of its participants, `node/src/txpool`, `wallet/src/snowball` | state machine |
| `Replication` | peers, upstream and streams of blocks, `node/src/replication`, `network/src/replication` | state machine |
| `Overlay` | gatekeeper, pubsub and the swarm, `network/src/{gatekeeper,pubsub,ncp,libp2p_network}` | state machine |
| `Kademlia` | buckets and searches, `network/src/kad` | operators |
| `Discovery` | one node's discovery and delivery of unicasts over `Kademlia`, `network/src/{discovery,delivery}` | state machine |
| `Induction`, `*Proofs` | proofs, see section 5 | proofs |
| `MC*` | instances for TLC, one `.cfg` per run | |

`Blockchain` composes `MultiVersionedMap` (six maps), `Election` and `Awards`; `Consensus`
and `MicroChain` stand on `Supermajority`, `Wallet` on `Mempool`, `Snowball` on `DiceMix`,
`Discovery` on `Kademlia`. Each state machine sees its neighbours through what they hand
over: `Consensus` treats the chain as "the macro block that a node has applied",
`Blockchain` the agreement as "a macro block of a full epoch arrives", `MicroChain` as
`DecideMacroBlock`, `Replication` the chain as an epoch with its micro blocks, `Wallet` the
chain as lists of transactions.

## 1. Inventory

For each part: the state it keeps, what it does, whom it talks to, what is hard about it
and what makes it correct.

**Macro block consensus** (`consensus/src/state.rs`, `node/src/lib.rs:1470-1851`). State:
the step of the round (Propose, Prevote, Precommit, Commit), the round, the block of the
round, a lock with the precommits gathered for it, votes, inbox, outbox, and in the node a
timer and a counter for autocommit. Operations: propose, handle a proposal, a prevote, a
precommit, next round at a timeout, autocommit, apply a sealed block. It talks to the
other validators by pubsub and to the chain for validation and for the commit. Hard:
messages out of order (a quorum of votes before the proposal), timers against late
messages, locks over several rounds, restarts that lose everything, faulty leaders.
Correct: one block per epoch, votes at most once, sealed blocks are acceptable to all, no
assert fires, a committed block reaches the chain, nobody waits in a round for ever.

**Supermajority and multi-signatures**. Pure. Correct: two supermajorities share more than
a third of the slots.

**View changes, micro blocks, forks** (`consensus/src/optimistic.rs`,
`blockchain/src/view_changes.rs`, `blockchain/src/slashing.rs`, `node/src/lib.rs:736-1206,
1916-2080`, `node/src/loader.rs`). State per node: the tip of the chain, the view and its
proof, the collector's messages, evidence against leaders. Operations: create a block,
vote at a timeout, count votes, handle a block, resolve a fork, roll back on a proof,
download blocks, slash. Hard: votes, blocks and proofs race; a proof may be for an older
offset; two forks have the same leaders; evidence outlives the blocks it is about. Correct:
what a leader makes is valid, forks are left in one direction only, nobody is slashed for
the blocks of a validator that signed one for a view.

**Blockchain storage** (`blockchain/src/blockchain.rs`). State: epoch, offset, the election
result, block and output indexes, balance, escrow and activity as versioned maps; awards,
the cache of macro blocks, the proof of the last view change; in the database the blocks
and a snapshot of the maps at the last macro block. Operations: push and pop a micro block,
push a macro block, set and reset the view change, look into the past of the epoch, recover
from the snapshot or from all blocks. Everything in the node calls it. Hard: several maps
rolled back in step, a macro block that must redo what the popped micro blocks did, two
ways of recovery that must lead to the same state. Correct: restarts and rollbacks are
exact; the macro block changes nothing but its own reward; the asserts hold.

**Versioned map** (`blockchain/src/mvcc.rs`). State: a map, an undo log with lsns, the lsn
of the last checkpoint. Operations: insert, remove, checkpoint with a patch for the
database, rollback, reset. Hard: overwrites leave two records, rollbacks into the middle of
the log, a patch made from what rollbacks left. Correct: it behaves as a map that remembers
all versions since the checkpoint, and its asserts hold.

**Election, escrow, awards, slashing** (`election.rs`, `escrow.rs`, `awards.rs`,
`slashing.rs` in `blockchain/src`). Mostly pure over the state of the chain: draws of
validators and leaders by weight; stakes that are locked until an epoch; accounts that are
active or failed and a budget; confiscation. Hard: what the proposer computes at the end of
an epoch and the others compute on a chain without the micro blocks must agree. Correct:
validators are staked, the activity is that of the real leaders.

**Validation** (`blockchain/src/validation.rs`, `node/src/validation.rs`). Guards for blocks
and transactions. The control (view change, inputs, stakes, slashing) is in `Blockchain`;
commitments and signatures are not.

**Mempool** (`node/src/mempool.rs`, `node/src/validation.rs`). State: transactions in
order, indexes of their inputs and outputs. Operations: push, prune by a block, return
after a pop, pick for a block. Hard: the chain moves under it. Correct: its transactions spend
what is unspent, make what is new and do not stand in each other's way.

**Wallet** (`wallet/src/lib.rs`, `storage.rs`, `transaction.rs`). State of an account: in the
database the history with statuses, unspent outputs and the epoch; in memory the changes
of the current epoch, locked inputs, indexes of what is pending, a subscription to the
chain, the answer it waits for, a snowball. Operations: pay, stake, unstake, public payment,
snowball, resend, seal and unseal, follow blocks, reverts and statuses. Hard: it learns
everything later, blocks are reverted under it, it restarts in the middle of an epoch.
Correct: its outputs are those of the chain and its statuses are true.

**Transaction pool and snowball** (`node/src/txpool`, `wallet/src/snowball`,
`crypto/src/dicemix`). State: who has joined; per participant the phase, who takes part, who
is missing, commitments, matrices, signatures, a queue of early messages. Operations: join,
form a pool, change of facilitator, five phases that end with the last answer or a timer,
blame, restart without the excluded. Hard: participants disagree on who dropped out,
timers race answers, phases overlap. Correct: no nonce signs twice, a success is
everybody's transaction, every round ends.

**Replication and chain loader** (`node/src/replication`, `network/src/replication`,
`node/src/loader.rs`). State: for every peer a state machine of its substreams, the upstream,
quotas and timers. Operations: connect, accept, subscribe, send and receive blocks, give up.
Hard: both ends open substreams at once, channels fill, chains roll back under a stream.
Correct: no assert fires, no gaps, a node that is behind catches up.

**Gatekeeper, pubsub, ncp, swarm** (`network/src/gatekeeper`, `pubsub`, `ncp`,
`libp2p_network`). State: for every peer the phase of the handshake at dialer and listener,
puzzles and their solver, who is let in, subscriptions, messages seen. Hard: behaviours only
queue their wishes, messages overtake each other, connections break in between. Correct:
a message is consumed once, only peers that are let in take part, handshakes end.

**Kademlia, discovery, delivery** (`network/src/kad`, `discovery`, `delivery`). State: buckets
with a pending node, searches with the state of every peer asked, queues of dials and
unicasts. Hard: answers, timeouts, lost connections and a changed key in any order. Correct:
tables and searches are sound, a unicast is passed on once, nothing waits for ever.

**Merkle tree**, **cryptography**, **api, keychain, serialization, binaries**: see section 6
and `PROJECT.json`.

## 2. The models

### Consensus

One epoch of a group of validators. A step is one run of an event handler of one honest
validator, with everything that it does until it returns: for instance a prevote may make
the quorum, send a precommit, make the next quorum, commit and broadcast the block. The
operators in lower case are the functions of `state.rs` as functions from state to state;
the actions compose them the way `handle_consensus_message`, `handle_consensus_events` and
the timer handlers do.

| model | code |
|---|---|
| `node[v].state`, `round`, `hash`, `saved` | `state`, `round`, `block_hash`, the validated block |
| `lock`, `lockVotes` | `locked_round` |
| `prevotes`, `precommits`, `outbox` | the same |
| `timer`, `autocommit` | `block_timer`, `autocommit_counter` of `MacroBlockValidator` |
| `msgs` | everything honest validators ever published; pubsub may delay, lose, reorder, repeat |
| `sealed` | macro blocks with a multi-signature, broadcast or served from a chain; a node that gets one checks the signatures and does not validate the block again |
| `decided` | the macro block in the chain of the node |
| `Faulty` | validators that send any vote, propose any block that exists, assemble signatures |

`restarted` and `forgot` are history variables: who lost its state, and who went on without
a lock on a block it had signed. The inbox is not kept. What had arrived early is chosen at
the point where the code drains the inbox: any set of votes for the block that were sent.
This gives at least the behaviours of the code. Nothing has to be delivered: what
`update_validation_status` throws away with `future_consensus_messages` is a message that never came. A BLS signature is the name of the signer;
a precommit's signature names no round, as in the code.

### Mvcc

`MultiVersionedMap` has the operations; `Mvcc` calls them the way the chain does (lsns do
not decrease, rollbacks do not go before the checkpoint) and runs the loop of
`rollback_to_lsn` one undo record at a time, so that its asserts are properties of states.
`disk` is a column family to which the patch of every checkpoint is written.

`VersionedMap` is the abstract specification: contents for every lsn, a write changes the
present only, a rollback forgets what is newer. The refinement mapping computes the version
at an lsn by undoing the newer records; while a rollback runs, the mapped state is the one
before or after it. A `rollback_to_lsn` is thus one step of `VersionedMap` and the records
that the loop undoes are stuttering steps.

### Blockchain

`chain` is the struct `Blockchain`, `disk` the database (`macros` and `micros` are the
blocks, `snapshot` the columns and the metadata), `loading` says that the process is inside
`try_recover_blocks`. The functions of the code are operators on the memory:

| action | code |
|---|---|
| `PushMicroBlock` | a valid micro block, ours or a peer's: `push_micro_block` |
| `PopMicroBlock` | `pop_micro_block` in a fork, a rollback or on request |
| `SetViewChange` | a quorum of view change messages, or a proof |
| `ApplyMacroBlock` | `apply_macro_block`: all micro blocks popped, then `push_macro_block`, which may fail an assert |
| `Crash` | the end of the process at any time |
| `RecoverFast` | `try_recover_fast` |
| `StartRecoverBlocks`, `RecoverMacroBlock`, `RecoverMicroBlocks` | `try_recover_blocks`, with a write of the snapshot at every macro block |

Abstractions:

- An output is a model value with an amount and, for a stake, a validator. Outputs of the
  coinbase, of awards and of confiscations are not followed; no property distinguishes
  them. Hashes of new outputs are new: outputs contain a random number.
- A block is known by its lsn, because a chain has one block at an lsn. `block_by_hash`
  holds the block itself, so that what `block()` reads can be compared with what was pushed.
- The balance is the emission (`block_reward`). Pedersen commitments are left out.
- Left out: timestamps, `last_block_hash`, `last_macro_block_random`, difficulty and VDF,
  the facilitator, `EPOCH_INFOS`, metrics.
- The random of a block and the draw made from it are arbitrary: any random of a set, and
  a constant operator `generate_u64`. `Lucky` and `shrink_hash` likewise.
- A macro block comes from the node's own micro blocks (full epoch) or from those of other
  nodes (offset 0, any chain of valid micro blocks). A macro block that comes in between is
  pops followed by the latter: `PopMicroBlock` and then `ApplyMacroBlock`.
- A write to the database and the change of the memory are one step. A crash between them
  is a crash after the step, for only the database counts after it. The pops before a macro
  block can be interrupted: that is `PopMicroBlock` and `Crash`.
- `PushMicroBlock` takes the valid blocks only (`validate_micro_block`): a view change not
  below the chain's, inputs that exist, no input twice, stakes that may be spent
  (`validate_stakes`), confiscations with a proof that names a leader of this epoch.
- An epoch in which nobody would be left with a stake has no macro block: the code panics
  on it ("Have stakes").
- `unstake` expects the stake to be in escrow (`escrow.rs:143`). The model takes the key out of a map
  that has it: an unspent stake is in escrow in every state of the run, and only unspent outputs are
  spent.

### MicroChain

The micro blocks of one epoch on the honest nodes `node[n]`, beside faulty validators that
send any block they may sign, with or without a slashing transaction, any vote and any proof they
can put together. A step is one run of a node's event handler; handlers are operators to `[s, out, ok]`: the new state, what
is sent, whether it returned `Ok`. A block is known by its path from the macro block, so
that a path stands for a hash and its length for an offset; an entry of a path has the view,
a number that tells a leader's variants apart, and its slashing transactions. Such a transaction
names whose stake it takes (`header.pkey` of the two blocks in its proof), who has signed the two
blocks, their offset and view, and whether they are two different blocks of one parent and view
(`sound`). These are what `SlashingProof::validate` and `confiscate_tx` look at: a received block is
valid only if they accept each of its slashing transactions, and no stake is taken twice. The proofs of
faulty leaders are pairs of blocks that honest validators have sent, or two of their own. Left out are proofs
about an offset that the receiver's chain has not reached and proofs of blocks with two `pkey`s, on
which an assertion of the receiver fails. `net` is the set of all
that honest nodes sent: messages are delayed, lost, repeated and reordered. A request for
blocks and its response are one message (`Feed`), answered with the sender's chain of the
moment it arrives. `macro` is the outcome of `Consensus`. `Restart` keeps the chain and loses
view, votes and evidence; `PopMicroBlock` is the operator's request. `forgets` counts both,
because after either a leader may sign a view twice.

### Mempool and Wallet

`Mempool` has the operators of the node: `validate_external_transaction`, `push_tx`, pruning
by a block, the return of a popped block's transactions, `create_block`, and the
`ChainReader` that feeds a new subscriber. `Wallet` has the state: `chain`, `mempool`, `sub` (the
subscription), `disk` (the account's database) and `acc` (its memory). The user's requests,
the node's answers, the notifications of the chain, seal, unseal, expired locks and resend
are actions. `missed` and `stale` are history variables for what the code is known not to
follow (see Observations), so that the properties say exactly what is left; `acc.failed` has the
assertions of the account that failed. Amounts are
numbers, outputs are records; commitments and keys are not there.

### DiceMix and Snowball

`DiceMix` has the arithmetic over a small field: pads that cancel, power sums, the
messages as their roots, and the check of everyone's contribution with revealed keys.
`Snowball` has the facilitator's pool and, for every participant, the phases as operators
from state to state with the messages in `out`. The queue of early messages is scanned for the phase that
waits; when the phase is ready the rest stays in the queue. It has no order here:
what a pass would discard is taken to be behind what completes the phase. A curve point is what it commits to, a
signature is the transaction that was signed. Faulty participants may give a bad proof of
ownership, a fee that does not balance, data that is not what they committed to, or a bad
signature; chunks may collide.

### Replication

`node[n]` has a chain (epoch and micro blocks of the epoch) and for every peer the state of
`Peer` (`Registered`, `Connecting`, `Accepted`, `Receiving`, `Sending`, `Failed`...). A substream is a
pipe with two bounded channels and two ends that close separately. `Poll(n)` is one poll of
the replication task until nothing moves. Timers fire when a stream has come to rest, or
too early at the cost of a trouble. `LoadHistory` is the loader.

### Overlay, Kademlia and Discovery

In `Overlay` a node's behaviours (gatekeeper, floodsub, ncp) queue events; `Poll(n)` is a turn of
the swarm that carries them out in order. Connections come at both ends at once and are
lost at each end separately; `net` is a bag of messages. A proof of a VDF puzzle is the
challenge it solves; `solvers` are the peers whose puzzle is being solved, as in the code, and `threads` the threads
that do it, each with the challenge it started with. `Discovery` watches one node: its `Kademlia` table and searches, the
queues of dials and unicasts. The other nodes connect, answer, ask, send and leave at will; a node is
discovered with or without addresses. `received` is a cache that may forget a message at any time
(`Forget`: fifteen minutes, or 100,000 newer messages), and `lapses` counts that. After a change of key the queue of dials may
hold the node's own old id, which times out like any other.

## 3. The runs

`tlc -workers 2 -config X.cfg M` in this directory; every run ends in about three minutes.

| run | cfg | result |
|---|---|---|
| `consensus_safety` | `MCConsensus.cfg` | passes, 384,036 states |
| `consensus_live` | `MCConsensusLive.cfg` | passes, 8,805 states |
| `consensus_agreement` | `MCConsensusAgreement.cfg` | `Agreement` is violated, see Findings |
| `mvcc` | `MCMvcc.cfg` | passes, 89,693 states |
| `blockchain` | `MCBlockchain.cfg` | passes, 124,399 states |
| `microchain` | `MCMicroChain.cfg` | passes, 394,553 states |
| `microchain_panic` | `MCMicroChainPanic.cfg` | `LeaderNeverPanics` is violated, see Findings |
| `wallet` | `MCWallet.cfg` | passes, 972,495 states |
| `snowball` | `MCSnowball.cfg` | passes, 366,472 states |
| `replication` | `MCReplication.cfg` | passes, 752,471 states |
| `overlay` | `MCOverlay.cfg` | passes, 447,842 states |
| `discovery` | `MCDiscovery.cfg` | passes, 506,075 states |

**consensus_safety.** Validators `a` (two slots), `c` and the faulty `d`: three of four slots
are a quorum, so `a` and one other decide and either honest validator alone does not. Three
rounds: an honest leader, the faulty one, and `a`, so that a lock taken in round 0 is met
by another proposal in round 1 and proposed again in round 2. The faulty leader has a valid and an
invalid block. One restart. Checks
`AgreementUnlessForgotten` (one macro block, as long as two quorums share a validator that
kept its lock), `RoundAgreement`, `VotesOnce`, `SealedIsSound`, `AssertionsHold`. The
theorems below remove the bounds.

**consensus_live.** `FairSpec`, three rounds, the faulty validator leads the first one with a valid
and an invalid block. A validator that has a quorum of precommits gets the block into the chain
(`CommitIsApplied`) even if the leader never broadcasts it: the counter gives every validator a turn.
Whatever is lost, every validator leaves each of its rounds, for the next one or with a block
(`RoundEnds`), unless it is a leader that repeats its locked block: that one arms no timer (see
Observations). That a round with an honest leader decides is not claimed: a validator that has seen the
others' quorum of prevotes before it voted stays silent in Precommit, and the rest may be too few.

*Fairness.* Timers only: those that propose and autocommit fire once armed, and a round timer that runs
for good (`RoundTimerRuns`; every valid message may arm it again) ends the round. Nothing is assumed of
messages, honest or not: pubsub may lose them, and a node that lags behind throws away the consensus
messages it has kept. Nothing is assumed of sealed blocks or restarts.

**mvcc.** Two keys, two values, lsns 0..2, undo logs of up to five records: overwrites
(two records), several writes at one lsn, rollbacks to the beginning, the middle and the
end of the log, checkpoints and further writes all occur. Checks the asserts of the loop,
the copy in the database, that the loop computes `rollback_to_lsn`, and the refinement.

**blockchain.** After genesis, two epochs of two micro blocks; two validators with stakes,
`stake_epochs` of 1, so that genesis stakes expire within the run; transactions that
restake, restake twice (an output made and spent in one epoch), and unstake to a payment; one
validator has two stakes, so that it may spend the locked one while the expired one is left;
confiscation of either validator; one view change per block; randoms that change leader,
validators and luck. The cache holds two macro blocks and there are three. Every state may
be followed by a crash, also in the middle of the recovery from blocks.

- `RecoveryIsExact`: both recoveries give what the running node has, also after a recovery
  from blocks was interrupted and left the snapshot of an old epoch.
- `HistoryIsExact`: for every earlier offset of the epoch, the undo logs lead to the state
  after those blocks, and the lsn asserts of `pop_micro_block` hold on the way.
- `BlocksCanBeRead`: cache, database and indexes agree.
- `MacroReplacesMicros`: the macro block gives the outputs, stakes and validators that the
  popped micro blocks gave, although outputs that are spent in the epoch are annihilated.
- `ViewChangeHasProof`: no view change without the proof that the node unwraps.
- `ValidatorsAreStaked`: whoever is a validator at the start of an epoch has a stake that is locked
  in it, so its account is known, also after the blocks of the epoch were popped again.
- `ActivityOfLeaders`: failed and active are those by whom the blocks were validated.

**microchain.** Three validators with 1, 2 and 1 slots, `d` faulty, two offsets, two views,
two variants of a block, one loss of state at `a`. The faulty leader's turn comes after that of `a`,
who may sign twice after its loss, and before that of `c`, so that blocks of honest
validators can be shown to the others. It accuses with proofs that are not sound (`MCAccuses`), which is
what the check of received blocks is for; sound evidence is collected by the honest nodes themselves. The
theorem has no such bound. In `microchain_panic` leaders go round with offset and view, so
that both forks of an epoch have the same ones and evidence can be about different parents.

- `CreatedBlockIsValid`: the block that a leader is about to make is valid on its own chain,
  with a proof that is made of signatures for that very view.
- `ForkChoiceGrows`: a step leaves the views of a node's chain as they are or makes them
  lexicographically greater; nodes do not swap forks for ever.
- `OnlyCheatersAreSlashed`: two blocks signed by an honest validator punish nobody else, and it only if it
  has lost its state; this is of every slashing transaction on an honest chain, whoever made the block. If the
  two blocks were signed by a faulty validator the property says nothing of who is punished (see Observations).

**wallet.** One micro block per epoch and two epochs, an account with a payment and two expired stakes,
a payment from others, two transactions, one trouble (revert, evidence, seal, expired lock,
answer of a node that is not synchronized). `FollowsChain`, `HistoryIsTrue`,
and:

- `MempoolFitsChain`: the inputs of what waits are unspent, the outputs are new, no two transactions
  share any, and the indexes are right. Stakes are not part of it: `validate_stakes` is asked again for the block, and two
  transactions that each pass may fail together (see Observations).
- `AccountIsConsistent`: no assertion of the account fails, other than that of `lock_input` for a stake that
  `unstake` has chosen a second time.

With one micro block in an epoch the reader of a new subscriber brings macro blocks only, and with one
trouble a revert and a seal are not combined.

**snowball.** Three participants, one of whom may give a bad signature; one trouble (a lost
join, an early timer, a cheat, a collision), one change of the facilitator. `NonceIsFresh`,
`SuccessIsUnanimous`, `EveryoneFinishes`. *Fairness*: a participant that follows the protocol is
woken up if a message is there for it, or by its timer when nothing is on its way.

**replication.** A validator and a node that follows it; two micro blocks per epoch, three
epochs, channels of two messages, batches of two blocks, one rollback, two troubles.
`NeverPanics`, `StreamHasNoGaps`, `CatchesUp`. *Fairness*: a node whose tasks have something to do
does something, links come up again, substreams are negotiated, a stream at rest is given
up when its quota of time is over. Nothing is assumed of the making of blocks and of the
idle timer.

**overlay.** A ring of three nodes, one publication, one trouble (a lost link, a lost message,
a timeout, a restart). `AtMostOnce`, `NoGhosts`, `HandshakeCompletes`. *Fairness*: the swarm of a
node that has something to do runs, substreams and solvers make progress.

**discovery.** Identifiers of three bits, a bucket of two for three peers, two searches with one
rpc at a time each and results of two, two unicasts that are passed on to two peers, two keys, one
trouble (a forgotten message, a lost connection, an error, a new key). `SearchIsSound`, `NothingIsStuck` and
`UnicastOnce`: a unicast is consumed once and sent to a peer once, and once more for every time that the cache has
forgotten it, since a copy that comes later is taken for a new one. One node is watched, so hops beyond it are seen as
copies that come back. *Fairness*: the
swarm polls the behaviours that have something to do, timers fire.

Deadlock is checked in `mvcc` and `blockchain`. In the other runs it is not: an epoch, a
shuffle, a list of messages ends. In `MicroChain`, `Wallet`, `Snowball`, `Replication` and `Overlay`
the type invariant is the first conjunct of the invariant that the code's asserts are about.

The bounds are those at which the cases above meet: every action happens in some run, and
every property of a passing run has a mutant, an operator next to the mapped one that does
what a plausible mistake would do; with it TLC finds the property violated.

## 4. Findings

1. **The lock is lost** (`consensus_agreement`, `consensus/src/state.rs:558`). When the
   locked block is proposed again, `feed_message` takes the lock out of the state. If that
   round times out in Prevote, `next_round` does not lock again, and the validator votes for
   another block although its signature on the first is still good. TLC shows two honest
   validators with different macro blocks in one epoch.
2. **Evidence that is no evidence any more** (`microchain_panic`, `node/src/lib.rs:2022`).
   `resolve_fork` keeps two blocks of one leader and view without comparing their parents, and
   keeps them over rollbacks. A leader that holds such evidence fails in `create_micro_block`,
   with its timer used up, and panics on the next poll. An ordinary fork is enough.

### Observations

Met while modelling; no run states them.

*Consensus and chain.* A leader that repeats a locked block arms no timer
(`node/src/lib.rs:1498`). `register_macro_block` resets the view change and keeps its proof
(`blockchain.rs:1515`), which the timer's handler asserts not to happen. Proposer and
`register_macro_block` have two opinions on the activity of a slashed validator
(`blockchain.rs:1057`), so that a lucky random fails the assert on the reward.
`register_micro_block` looks the skipped leaders up after it has removed a slashed
validator. `validate_stakes` compares sums (`escrow.rs:302`), so that a validator with an expired
and a locked stake may spend the locked one first and the other one next, and is left in its epoch
without any; the awards of the epoch and `confiscate_tx` then panic on "validator has account key"
(`blockchain.rs:1091`, `slashing.rs:140`). In the model such an epoch has no macro block. The
comment on a panic of `rollback_to_lsn` for `to_lsn > current_lsn` (`mvcc.rs:194`) does not hold.

*Micro blocks.* A restart resets the view, so an honest leader may sign twice. A micro block
that is applied drops `future_consensus_messages`. `SlashingProof::validate` checks the signatures against the
leader of the view, `confiscate_tx` takes the stake of `header.pkey`, and nothing compares the two: the header of
a micro block that is only part of a proof is not validated. The sender named in an
`AddressedViewChangeProof` is not authenticated. README.md:29 says that slashed stakes go to
the jackpot, `confiscate_tx` shares them among validators.

*Wallet.* `ChainReader` goes to `(epoch + 1, 0)` after the last micro block, so that its
subscriber misses the macro block; reverts under a reader and messages to a slow
subscriber are lost. `send_and_log_transaction` logs and locks before it may fail. `unstake`
may pick a locked stake and fail the assert of `lock_input`. A transaction that was prepared
when the account was sealed and reverted since is committed by `finalize_epoch`. `Accepted` or
`Rejected` after the block has come in overwrites `Prepared`. One pending transaction is resent
per interval. `push_tx` of a confiscation asserts that the stake is not claimed in the mempool.

*Snowball.* `encode_matrix` numbers sheets from 1 (`snowball/mod.rs:1869`), `dc_reconstruct` from
0, and empty sheets fail `deserialize_utxo`: blame may exclude honest participants. The
handlers of the timer and of the pool do not scan the queue. A participant that has
succeeded and the restarted rest may both hold valid transactions. The branch for cloaks of
excluded participants is never taken.

*Replication.* The sender takes the last micro block for the end of the epoch and leaves the
macro block out; the follower waits for the ten minutes of the quota. Two nodes that only
know each other reject each other. `Connecting` has no timeout, `Failed` is for ever.

*Network.* The answer to an old puzzle is stored with the current challenge
(`gatekeeper/behavior.rs:526`). A stalled handshake and a failed redial are not retried;
`seed_nodes` of ncp is not read; a node that lets a peer in without a puzzle does not
announce `NetworkReady`. Discovery does not tell Kademlia of failed dials; only the first
pending rpc is sent on a connect; `CancelRpc` drops other searches' rpcs; `flush` of a bucket
drops its first node even if it has answered and does not move `first_connected_pos`.

## 5. What is proved

`tlapm M.tla` checks a module's proofs. All theorems hold for every value of the constants
that satisfies the named assumptions.

**Induction** has what the others need to say of folds. Induction and recursion are stated
with sets and functions where one would like predicates and operators: a property is the
set of numbers (or subsets) that have it, and its complement has no least element
(`NumberInduction`, `SetInduction`); a fold is the function `f` on the subsets of a finite set with
`f[s] = step[x][f[s \ {x}]]` for the chosen `x`, and it exists when the steps stay in a set
(`CanFold`, `FoldExists`). From this follow the laws of sums (`SumRemove`, `SumUnion`). A sequence is
known by its length and its elements, of whatever set they are (`IsSeq`, `SeqFacts`).

**ConsensusProofs**, from `SlotsAssumption` (a finite non-empty group, positive slots) and
`ConsensusAssumption` (typing of the constants, the autocommit order names every validator).
There is no assumption on how many validators are faulty: agreement carries its own.

- `SupermajoritiesMeet`: if the faulty validators have at most a third of the slots, two
  supermajorities share a validator that is not faulty.
- `HonestAreEnough`: if they have strictly less than a third, the others are a supermajority by themselves. At
  exactly a third they need not be (three slots, of which three are needed).
- `TypeCorrect`, `AssertionsNeverFire`, `NobodyVotesTwice`, `SealedBlocksAreSound`,
  `RoundsAgree`, `AgreementTheorem`: `Spec => []P` for each of the safety properties of
  `consensus_safety`.
- `AgreementWithinAThird`: one macro block as long as the faulty validators and those that
  restarted have at most a third of the slots. The run `consensus_agreement` shows what happens
  otherwise.
- `SupermajorityOverlap`: two numbers of slots that pass `check_supermajority` overlap in
  more than a third of all slots.

The inductive invariant `IInv` is needed because none of the properties speaks of what
makes it true. Per validator it says: the counted votes of honest validators were really
cast (`Counted`); honest precommits are for valid blocks only
(`PrecommitsAreValid`), and a quorum that is not all faulty has one; a validator in Precommit or Commit has seen quorums; the validator's own
messages of the round are for its block (`OwnVotesSent`); a lock is on a valid block that is
not the block of the round; whoever never forgot is bound to all it has signed, by its lock
or by having voted for it in the round (`Bound`), and hence signs one block (`SignsOnce`);
the autocommit counter has not passed its own turn (so it stays within `Order`). The proof
follows the code: a lemma for every function of `state.rs` says that it keeps `Good`
states good (`prevoteGood`, `CheckVotesGood`, `process_inboxGood`, `resetGood`...), the ends
of a handler (publish, commit, apply) are lemmas about `IInv`, and a lemma per action puts
them together. Agreement follows from `SealedIsSound`, `SignsOnce` and the quorums meeting
in somebody who did not forget.

**MvccProofs**, from `MvccAssumption`.

- `TypeCorrect`, `RollbackNeverPanics`, `DatabaseHasCheckpoint`: `Spec => []P`.
- `ImplementsVersionedMap`: `Spec => KeepsVersions`, the refinement.
- `LoopIsRollback`: `Spec => LoopRollsBack`, the action property: the loop over the records computes
  the closed form of `rollback_to_lsn` that `Blockchain` uses.

`IInv` adds to the types that the log is sorted and not older than the checkpoint (`Sorted`)
and that every record flips its key between absent and present once the newer ones are
undone (`Flips`), which is what the asserts need. Writes are one or two `Push`es; the main
lemmas say what a `Push` does to every version (`PushVersion`) and that `undo_last` takes a
`Push` back (`UndoPush`).

**MicroChainProofs**, from `SlotsAssumption` and `MicroChainAssumption` (typing; any function may
select the leaders, any number of validators may be faulty).

- `CreatedBlocksAreValid`, `HonestAreNotSlashed`: `Spec => []P` for `CreatedBlockIsValid` (which
  has the type invariant) and `OnlyCheatersAreSlashed`.
- `ForkChoiceOnlyGrows`: `Spec => ForkChoiceGrows`, the action property.

What a leader puts into a block comes from its own state, so `IInv` says of every node that
its proof and its votes are about its own chain and view and that its evidence is two
blocks of one leader (`Local`). Why an honest validator is not slashed takes three steps:
blocks with an honest leader were sent by it (`IsSigned`, of chains, evidence and messages
alike); its fork choice is heavier than each block that it has sent, unless it has lost its
view (`HasAdvanced`, where `ForkChoiceGrows` does the work: `Heavier` is a strict order and
every handler moves up in it); so it never signs a second block for the same parent and
view (`SignsOnce`). The proof of a slashing transaction that names an honest signer is two blocks which that
signer has sent (`IsFounded`, of every block under way, a faulty leader's too), and once the block is on a chain they
have been compared (`IsSound`), which contradicts `SignsOnce`. The response to a download is a fold of the handler of blocks; its lemma
shows that the handler's guarantees add up over any list of blocks.

**SnowballProofs**, without any assumption on the constants.

- `NoncesAreFresh`: `Spec => []NonceIsFresh`, for any number of participants, pools, troubles and
  cheaters.

`Past(A, st, sid)` relates all that a participant has signed (`A`) to where it is: in PoolWait it has
signed nothing, before the signature of a round everything is from shorter sessions, after it
nothing is from a longer one. A message may end several phases in one step (`Scan` after
`Scan`), so the lemmas on the phases are about `Good(s, A)`, which counts the prepared messages of the
step with what was signed before; every operator of the handler keeps it, and `BecomeIInv` sends
them. A new round always takes a longer session id (`StartGood`), and only it leads back to an
early phase. What the shared data decodes to plays no role.

**BlockchainProofs**, from `ElectionAssumption`, `BlockchainAssumption` (typing of the constants,
finitely many outputs) and `GenesisAssumption` (the genesis block is a block).

- `Recovery`, `History`, `ViewChangeProof`: `Spec => []P` for `RecoveryIsExact`, `HistoryIsExact` and
  `ViewChangeHasProof`, for any number of epochs, blocks, validators, outputs and view changes.
- `Invariance`: the inductive invariant `IInv`.

It begins with the laws of `MultiVersionedMap` that hold without types of keys and values:
`At(m, lsn)` is the version of a map as of an lsn, and `Wrote(m, p, K, lsn)` says that `p` is `m`
after writes at `lsn`: older versions are what they were, the log has grown at its end. Writes
compose (`WroteTwice`), `rollback_to_lsn` gives `At`, `reverse_patch` of an older version gives the
new one.

The reference for a chain is what its blocks give when they are registered one by one:
`After(m, j)` for the first `j` macro blocks, `Ref(base, s, o)` for the first `o` micro blocks on a
base. `Tracks(c, base, s)` says that the memory `c` is such a chain for *every* prefix of `s` at once:
the version of each of the six maps at the lsn of block `o` is `Ref(base, s, o)`, and the two maps
whose lsn `pop_micro_block` asserts have a record there. A view change may follow, with its
proof. It is kept by `register_micro_block` (`TrackMicro`), `set_view_change` (`TrackView`) and
`pop_micro_block` (`TrackPop`): a block is registered on a chain that popped others, changed its
view or was loaded from a snapshot, and what it writes depends on the contents of the maps and
not on their logs (`MicroSame`, `MacroSame`). Rolling back to a prefix is then a chain that tracks
it (`TrackPast`), which is `HistoryIsExact`.

Of the database `IInv` says that the snapshot is exact if it is as new as the last macro block.
That is not inductive: a node that stops while it loads its blocks leaves the snapshot of an
old epoch in its metadata, over maps that already have later blocks, and the next load patches
these. `Known(s, m, j)` says that each stored key is as after `j` macro blocks or will be written by
one of the others; a load keeps it (`KnownStep`) and ends with an exact snapshot (`KnownLast`),
and a new start from nothing begins with it (`KnownFirst`). The recovery from an exact snapshot
fills maps that are never checkpointed; `StartTracks` shows that they are good for pops all the same, and
`RecoveredCache` that the cache that it reads from the database is the one the node had.

The third part of **BlockchainProofs** is the ledger, from the same assumptions, `StakersAssumption` (the
genesis block stakes enough for one validator, a stake outlives the epoch it is made in, draws are numbers)
and `ActivityAssumption` (an activity is not the missing key).

- `MacroBlocksReplace`, `StakedValidators`, `BlocksAreRead`, `LeadersActivity`: `Spec => []P` for
  `MacroReplacesMicros`, `ValidatorsAreStaked`, `BlocksCanBeRead` and `ActivityOfLeaders`.
- `LedgerInvariance`: the invariant `LInv`, on top of `IInv`.

`Tracks` reduces all four to the reference `Ref` of a list of blocks, and what is left is about that
list. `LInv` says of it what `validate_micro_block` ensures when a block is pushed: the outputs and
stakes of the chain were made by its blocks (`MadeOf`), every micro block spends what was there
before it and makes what no block has made (`NewIn`), and the validators of an epoch are elected
among the stakes that are locked in it (`Staked`; an election draws somebody only if there are slots
to draw from, hence the assumption on genesis). A macro block annihilates what the epoch both
makes and spends; that this equals the writes of the micro blocks one by one is an induction over
the epoch (`Flows`, `Separate`), which fails without `NewIn`: an output that is made twice or spent
before it is made would survive on one side only.

`RInv` says where blocks are: `block_by_hash` of a chain has each block at its lsn (`PlacedIn`, with
the facts of division that tell a macro block's lsn from a micro block's) and each output at a
block that creates it (`FoundIn`), and the cache holds the newest macro blocks. The activity is an
induction over the micro blocks (`Judged`, `JudgeStep`, `JudgeRef`): a block judges its leader and the
leaders it skipped by the election result before it, which is the one that the undo log gives.

The last part are the types, from all of these assumptions and that the bound on epochs leaves one for the
blocks after genesis (`MaxEpoch` is not 0).

- `Types`: `Spec => []TypeOK`.

This is where partial functions could be applied outside their domains: a leader is drawn from slots, so
`select_leader` names a validator only while somebody has some, and a macro block elects only if somebody
stakes. The first is kept by `CanSlash` (a cheater is not the last validator), the second by the condition
of `create_macro_block`. `TInv` says it of every chain that can come about, `TypedChain(After(m, j))` for the macro blocks
and `EpochTyped` for the micro blocks on top of them, because recovery registers the blocks again without the checks
that were made when they arrived: `LedOn` remembers that each block left somebody to lead. Logs hold
lsns of existing epochs (`TypedWrite`, `LsnBound`); a pop, a view change, a macro block and both recoveries
keep this (`PopTyped`, `ViewTyped`, `MacroTyped`, `StartTyped`, `SeqTyped`). That the reward of a macro block is
a natural number follows from the assert which compares it with the node's own (`CreatedTyped`).

**OverlayProofs**, from `OverlayAssumption` (typing, finitely many nodes, and that of two friends one
has dialed the other: a connection has one dialer, and the proof of `Linked(n, m) => links[n][m] =
links[m][n]` fails in `Init` without it).

- `MessagesComeOnce`, `FloodsubHasNoGhosts`: `Spec => []P` for `AtMostOnce` and `NoGhosts` (with the type
  invariant), for any network, any seeds, publishers, troubles and restarts, and turns of any length.

A turn of the swarm is a fold of `PollOnce`, each of which polls two behaviours and hands the event of one
to the other, so the invariant has to hold in the middle of a turn: it is `Good(s, L, P, X)`, about
a state `s` between two polls. What it says of one node (`GateOK`, `FloodOK`) is mostly about queues: an event
that will let a peer in is queued only for a peer that is desired or unlocked (`EventOK`, `UpdateOK`), since
floodsub acts on it in a later poll, without asking the gatekeeper again. `LinksOK`, `MailOK` and
`DialsOK` tie the nodes together: both ends of a connection agree on its dialer, and mail is between linked peers, so
that what arrives comes from somebody the receiver knows. `AtMostOnce` by itself says nothing of the copies that
still go round. `Once` does: of a message of which a copy is in flight (`InFlight`: under way, in some queue, or
in `X`, just being handled) a node that has not yet received it has published and got fewer than were
published, and what it has received waits in its own queue at most once. The gatekeeper's operators leave floodsub alone (`Gate`), and
floodsub's the gatekeeper; `Turn` is an induction over the polls.

**ReplicationProofs**, from `ReplicationAssumption` (finitely many nodes, positive sizes of epochs, batches and
channels).

- `AssertionsHold`, `StreamsHaveNoGaps`: `Spec => []P` for `NeverPanics` (with the type invariant) and
  `StreamHasNoGaps`, for any number of nodes, pipes, epochs, forks and troubles.

A poll handles all queued events and then polls the peers one after the other, so the invariant is again
about a state in the middle of a poll: in `Good(s, ev)` and `Knows(s, ev)`, `ev[n]` are the events that node `n` has still to handle,
in its queue or already taken from it. `Knows` is what the assertions on known peers rest on. A node learns
of its links late, so the peers it knows and those it is linked with differ; `Leads` says that the queued events,
in their order, lead from the ones to the others. A link that is lost appends `Unregistered`, which is about a
peer that will be known when the event is handled, not one that is known now.

`StreamHasNoGaps` speaks of one sender and the inbox of its pipe. It is kept only if nobody else writes to
that inbox, so `HeldOK` and `BroughtOK` say who owns a pipe: a peer in a state with a pipe is the end
of it that its state says (the dialer receives, the listener sends), a pipe that an event will bring has an empty
inbox and is held by no peer yet, and no two events bring the same one (`PendingOK`). `Stream(q, p)` is the
property itself on the messages `q` and the position `p`. A step that only takes messages away, garbles them or closes ends
leaves a pipe `Worse` or `Less` in a way that keeps it. A batch keeps it because the blocks of
`blocks_starting` follow each other from the position of the peer (`BlocksStarting`, `Chained`), which also gives the
assertions of `send_blocks`; the sender's chain may have been rolled back since, but a position beyond its end yields
no blocks. The folds over events, peers and blocks are inductions on functions that unroll them (`IsHandling`,
`IsPolling`, `IsTaking`...). `Become` forgets closed pipes that no peer
and no event refers to, so what is said of the others stays true (`BecomeOK`).

**Model-checked only**: the liveness properties (fairness and `ENABLED` are out of the
prover's reach), `SuccessIsUnanimous` (it rests on the arithmetic of power
sums, an induction over data) and the invariants of `Wallet` and `Discovery`.

## 6. Not modelled

See the components in `PROJECT.json`. Cryptography is used by contract: signatures cannot
be forged, hashes do not collide. The Merkle tree, serialization, the VDF's arithmetic,
timestamps and metrics carry no control. Of ncp only what reaches other behaviours is there;
of `WalletService` only the account. The api, key storage and the command lines are input and
output.

## 7. Plan

The models of sections 2 and 3 are complete. What is left is proofs, in this order:

1. `Discovery`: `UnicastOnce` and `SearchIsSound`;
2. `Wallet`: `FollowsChain` and `MempoolFitsChain`.
