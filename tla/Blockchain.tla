----------------------------- MODULE Blockchain -----------------------------
(***************************************************************************)
(* The chain of one node (blockchain/src/blockchain.rs): blocks are pushed *)
(* and popped in memory and in the database, macro blocks replace the      *)
(* micro blocks of their epoch and write a snapshot, and after a crash the *)
(* memory is rebuilt from the snapshot or from all the blocks.             *)
(*                                                                         *)
(* c is the memory, the fields of struct Blockchain.  Transactions are     *)
(* followed for a small set of outputs; the hash of a block is the place   *)
(* in block_by_hash of its lsn, for there is one block at an lsn.          *)
(***************************************************************************)
EXTENDS MultiVersionedMap, Election, Awards, SequencesExt

CONSTANTS
    Utxos,              \* hashes of outputs
    Stake,              \* Stake[u]: the validator and the amount of an output
    NoValidator,        \* the "validator" of a payment
    Account,            \* Account[v]: the account key that stakes for v
    Transactions,       \* inputs and outputs of the transactions of clients
    GenesisOutputs, GenesisRandom,
    Randoms,            \* the randoms of blocks
    MicroBlocksInEpoch, \* micro_blocks_in_epoch
    StakeEpochs,        \* stake_epochs
    MinStake,           \* min_stake_amount
    BlockReward,        \* block_reward
    MaxEpoch,           \* bound: the last epoch has no blocks
    MaxViewChange,      \* bound on view changes
    Down                \* the memory of a node that does not run

ASSUME BlockchainAssumption ==
    /\ {MicroBlocksInEpoch, MaxEpoch} \subseteq Nat \ {0}
    /\ {StakeEpochs, BlockReward, MaxViewChange} \subseteq Nat
    /\ Stake \in [Utxos -> [validator : Validators \cup {NoValidator}, amount : Nat]]
    /\ Account \in [Validators -> Accounts]
    /\ IsFiniteSet(Utxos) /\ GenesisOutputs \subseteq Utxos
    /\ Transactions \subseteq [ins : SUBSET Utxos, outs : SUBSET Utxos]

VARIABLES
    chain,              \* the memory, or Down
    disk,               \* the blocks and the snapshot in the database
    loading             \* try_recover_blocks runs

vars == <<chain, disk, loading>>

Unit == 0               \* the key of maps with one entry

\* Log sequence numbers in their order: LSN(epoch, offset).
MACRO_BLOCK_OFFSET == MicroBlocksInEpoch + 1
LSN(epoch, offset) == epoch * (MicroBlocksInEpoch + 2) + offset
Lsns == 0 .. LSN(MaxEpoch, MACRO_BLOCK_OFFSET)

\* The lsn of the block before offset.
PreviousLsn(epoch, offset) ==
    IF offset = 0 THEN LSN(epoch - 1, MACRO_BLOCK_OFFSET) ELSE LSN(epoch, offset - 1)

NewChain ==
    [epoch |-> 0, offset |-> 0, view_change_proof |-> FALSE,
     block_by_hash |-> new(Lsns),
     output_by_hash |-> new(Utxos),
     balance |-> insert(new({Unit}), LSN(0, 0), Unit, 0),
     escrow |-> new(Utxos),
     election_result |-> new({Unit}),
     epoch_activity |-> new(Validators),
     awards |-> NewAwards,
     cache |-> <<>>]

-----------------------------------------------------------------------------
(* Reading the chain *)

ElectionResult(c) == c.election_result.map[Unit]
view_change(c) == ElectionResult(c).view_change

\* Mutant of is_epoch_full: one block more.
FullAfterOneMore(c) == c.offset > MicroBlocksInEpoch

is_epoch_full(c) == c.offset >= MicroBlocksInEpoch

\* Mutant of election_result_by_offset: the state after the block.
ElectionAfterOffset(c, offset) ==
    rollback_to_lsn(c.election_result, LSN(c.epoch, offset)).map[Unit]

election_result_by_offset(c, offset) ==
    rollback_to_lsn(c.election_result, PreviousLsn(c.epoch, offset)).map[Unit]

validators_at_epoch_start(c) == Members(election_result_by_offset(c, 0).validators)

StakesOf(c, v) ==
    {u \in Utxos : c.escrow.map[u] # NoValue /\ Stake[u].validator = v}

ActiveStakes(c, v, epoch) == {u \in StakesOf(c, v) : c.escrow.map[u] >= epoch}

Amount(outputs) == MapThenSumSet(LAMBDA u : Stake[u].amount, outputs)

\* Mutant of get_stakers_majority: expired stakes count.
StakersWithExpired(c, epoch) ==
    [v \in Validators |-> Amount(StakesOf(c, v))]

get_stakers_majority(c, epoch) ==
    [v \in Validators |->
        LET amount == Amount(ActiveStakes(c, v, epoch))
        IN  IF amount >= MinStake THEN amount ELSE 0]

next_election_result(c, random) ==
    select_validators_slots(get_stakers_majority(c, c.epoch + 1), random)

\* "multiple validators can have single wallet": one that failed is enough.
ActivityOfAccounts(validators, active) ==
    [a \in Accounts |->
        LET mine == {v \in validators : Account[v] = a}
        IN  IF mine = {} THEN NoState
            ELSE IF mine \subseteq active THEN Active ELSE Failed]

\* What the proposer of a macro block makes of the activity in the epoch: the
\* activity map and the awards.
awards_from_active_epoch(c, random) ==
    LET current == Members(ElectionResult(c).validators)
        active == {v \in current : c.epoch_activity.map[v] # Failed}
        awards == finalize_epoch(c.awards, ActivityOfAccounts(current, active))
    IN  [activity_map |-> active \cap validators_at_epoch_start(c),
         awards |-> check_winners(awards, random)]

\* What everybody makes of the activity map of the block.
epoch_activity_from_macro_block(c, activity_map) ==
    ActivityOfAccounts({v \in validators_at_epoch_start(c) : StakesOf(c, v) # {}},
                       activity_map)

AwardsOfMacroBlock(c, b) ==
    check_winners(
        finalize_epoch(c.awards, epoch_activity_from_macro_block(c, b.activity_map)),
        b.random)

\* "validator has account key": the key is found through a stake of it, expired or
\* not, and without one the program panics.
HaveAccounts(c, validators) == \A v \in validators : StakesOf(c, v) # {}

FullReward(winner) == BlockReward * (MicroBlocksInEpoch + 1) + winner.amount

-----------------------------------------------------------------------------
(* Writing the chain *)

set_view_change(c, new_view_change) ==
    [c EXCEPT
        !.election_result = insert(@, LSN(c.epoch, c.offset), Unit,
            [ElectionResult(c) EXCEPT !.view_change = new_view_change]),
        !.view_change_proof = TRUE]

reset_view_change(c) ==
    [c EXCEPT
        !.election_result = insert(@, LSN(c.epoch, c.offset), Unit,
            [ElectionResult(c) EXCEPT !.view_change = 0]),
        !.view_change_proof = FALSE]

InsertAll(m, lsn, contents) ==
    FoldSet(LAMBDA k, acc : insert(acc, lsn, k, contents[k]), m,
            {k \in DOMAIN contents : contents[k] # NoValue})

RemoveAll(m, lsn, keys) == FoldSet(LAMBDA k, acc : remove(acc, lsn, k), m, keys)

\* Escrow::unstake of stakes among the inputs, Escrow::stake of the new ones.
\* The expect of unstake ("stake exists") is not in the model: to remove a key
\* that is not there has no effect.
\* A client's output is found again through the lsn of its block; the global
\* balance is the emission.
register_inputs_and_outputs(c, lsn, b, ins, outs, reward) ==
    LET stakes == {o \in outs : Stake[o].validator # NoValidator}
    IN  [c EXCEPT
            !.block_by_hash = insert(@, lsn, lsn, b),
            !.output_by_hash =
                InsertAll(RemoveAll(@, lsn, ins), lsn, [u \in outs |-> lsn]),
            !.escrow =
                InsertAll(RemoveAll(@, lsn, ins), lsn,
                          [u \in stakes |-> c.epoch + StakeEpochs]),
            !.balance = insert(@, lsn, Unit, c.balance.map[Unit] + reward)]

\* "remove cheater for current epoch", before the leaders are looked up.
slash(c, lsn, cheater) ==
    IF cheater = NoValidator THEN c
    ELSE [c EXCEPT !.election_result = insert(@, lsn, Unit,
            [ElectionResult(c) EXCEPT !.validators[cheater] = 0])]

\* "Set skipped validators to inactive."
FailSkipped(c, lsn, b) ==
    LET after[i \in 0 .. b.view_change] ==
            IF i = 0 THEN c.epoch_activity
            ELSE insert(after[i - 1], lsn, select_leader(ElectionResult(c), i - 1), Failed)
    IN  after[b.view_change]

\* Mutant of UpdateActivity: the leader of a block is active in any case.
LeaderAlwaysActive(c, lsn, b) ==
    LET leader == select_leader(ElectionResult(c), b.view_change)
    IN  [c EXCEPT !.epoch_activity = insert(FailSkipped(c, lsn, b), lsn, leader, Active)]

\* The leader of the block is active "if it was unknown".
UpdateActivity(c, lsn, b) ==
    LET activity == FailSkipped(c, lsn, b)
        leader == select_leader(ElectionResult(c), b.view_change)
    IN  [c EXCEPT !.epoch_activity =
            IF activity.map[leader] # NoValue THEN activity
            ELSE insert(activity, lsn, leader, Active)]

\* The memory before the metadata of a micro block is updated.
RegisterTransactions(c, lsn, b) ==
    register_inputs_and_outputs(
        UpdateActivity(slash(c, lsn, b.cheater), lsn, b),
        lsn, b, b.ins, b.outs, BlockReward)

\* Mutant of register_micro_block: the view change is left for the next block.
RegisterKeepsViewChange(c, b) ==
    LET lsn == LSN(c.epoch, c.offset)
        r == RegisterTransactions(c, lsn, b)
    IN  [r EXCEPT
            !.offset = @ + 1,
            !.election_result =
                insert(@, lsn, Unit, [ElectionResult(r) EXCEPT !.random = b.random]),
            !.view_change_proof = FALSE]

register_micro_block(c, b) ==
    LET lsn == LSN(c.epoch, c.offset)
        r == RegisterTransactions(c, lsn, b)
    IN  [r EXCEPT
            !.offset = @ + 1,
            !.election_result = insert(@, lsn, Unit,
                [ElectionResult(r) EXCEPT !.view_change = 0, !.random = b.random]),
            !.view_change_proof = FALSE]

\* The chain after these micro blocks.
RegisterMicros(c, micros) ==
    LET after[i \in 0 .. Len(micros)] ==
            IF i = 0 THEN c ELSE register_micro_block(after[i - 1], micros[i])
    IN  after[Len(micros)]

\* The maps after pop_micro_block.
RollbackMaps(c, lsn) ==
    [c EXCEPT
        !.block_by_hash = rollback_to_lsn(@, lsn),
        !.output_by_hash = rollback_to_lsn(@, lsn),
        !.balance = rollback_to_lsn(@, lsn),
        !.escrow = rollback_to_lsn(@, lsn),
        !.epoch_activity = rollback_to_lsn(@, lsn),
        !.election_result = rollback_to_lsn(@, lsn)]

pop_micro_block(c) ==
    reset_view_change(
        [RollbackMaps(c, PreviousLsn(c.epoch, c.offset - 1)) EXCEPT !.offset = @ - 1])

-----------------------------------------------------------------------------
(* Macro blocks *)

Inputs(blocks) == UNION {b.ins : b \in ToSet(blocks)}
Outputs(blocks) == UNION {b.outs : b \in ToSet(blocks)}

\* The macro block of a full epoch with these micro blocks.  The outputs that
\* the block itself mints (reward and award) are not followed.
create_macro_block(c, micros, random) ==
    LET awarded == awards_from_active_epoch(c, random)
    IN  [random |-> random,
         ins |-> Inputs(micros),
         outs |-> Outputs(micros),
         activity_map |-> awarded.activity_map,
         reward |-> FullReward(awarded.awards),
         validators |-> next_election_result(c, random).validators]

\* What the tool that starts a network makes; the coins that it mints are not
\* counted.
GenesisStakers ==
    [v \in Validators |-> Amount({u \in GenesisOutputs : Stake[u].validator = v})]

Genesis ==
    [random |-> GenesisRandom, ins |-> {}, outs |-> GenesisOutputs,
     activity_map |-> Members(GenesisStakers), reward |-> 0,
     validators |-> select_validators_slots(GenesisStakers, GenesisRandom).validators]

ASSUME GenesisAssumption == Genesis # NoValue

\* Somebody stakes enough in the genesis block, and a stake outlives the epoch that
\* it was made in.
ASSUME StakersAssumption ==
    /\ NoValue \notin Nat /\ NoValidator \notin Validators
    /\ IsFiniteSet(Validators)
    /\ {MinStake, ServiceAward} \subseteq Nat /\ StakeEpochs # 0
    /\ \A random \in Randoms \cup {GenesisRandom}, i \in 0 .. SlotCount + MaxViewChange :
          generate_u64(random, i) \in Nat
    /\ \E v \in Validators : GenesisStakers[v] > 0 /\ GenesisStakers[v] >= MinStake

\* An activity is told from the key that the map does not have.
ASSUME ActivityAssumption == NoValue \notin {Active, Failed}

cache_push_block(cache, b) ==
    Append(IF Len(cache) = StakeEpochs + 1 THEN Tail(cache) ELSE cache, b)

\* The cache after these macro blocks.
CacheOf(macros) ==
    LET after[i \in 0 .. Len(macros)] ==
            IF i = 0 THEN <<>> ELSE cache_push_block(after[i - 1], macros[i])
    IN  after[Len(macros)]

\* Mutant of RegisterOutputs: nothing is annihilated.
RegisterAllOutputs(c, b) ==
    register_inputs_and_outputs(c, LSN(c.epoch, MACRO_BLOCK_OFFSET), b,
                                b.ins, b.outs, b.reward)

\* Outputs of the epoch that are also inputs are annihilated.
RegisterOutputs(c, b) ==
    register_inputs_and_outputs(c, LSN(c.epoch, MACRO_BLOCK_OFFSET), b,
                                b.ins \ b.outs, b.outs \ b.ins, b.reward)

\* The memory before the maps are finalized.  The proof of a view change is
\* not touched.
UpdateMetadata(c, b) ==
    LET r == RegisterOutputs(c, b)
        election == next_election_result(r, b.random)
    IN  [r EXCEPT
            !.awards = IF c.epoch = 0 THEN @ ELSE AwardsOfMacroBlock(c, b).awards,
            !.epoch = @ + 1,
            !.offset = 0,
            !.cache = cache_push_block(@, b),
            !.election_result = insert(@, LSN(c.epoch, MACRO_BLOCK_OFFSET), Unit, election)]

register_macro_block(c, b) ==
    LET r == UpdateMetadata(c, b)
    IN  [r EXCEPT
            !.block_by_hash = checkpoint(@),
            !.output_by_hash = checkpoint(@),
            !.escrow = checkpoint(@),
            !.election_result = checkpoint(@),
            !.balance = checkpoint(@),
            !.epoch_activity = new(Validators)]

\* The chain after these macro blocks.
RegisterMacros(c, macros) ==
    LET after[i \in 0 .. Len(macros)] ==
            IF i = 0 THEN c ELSE register_macro_block(after[i - 1], macros[i])
    IN  after[Len(macros)]

\* The asserts of register_macro_block about what the block says.
RewardAgrees(c, b) == b.reward = FullReward(AwardsOfMacroBlock(c, b))
ValidatorsAgree(c, b) ==
    b.validators = next_election_result(RegisterOutputs(c, b), b.random).validators

\* The batch that is written with a macro block of this epoch: patches of the
\* maps, and the metadata.
Batch(epoch, r, awards, snapshot) ==
    [epoch |-> epoch,
     block_by_hash |-> reverse_patch(r.block_by_hash, snapshot.block_by_hash),
     output_by_hash |-> reverse_patch(r.output_by_hash, snapshot.output_by_hash),
     escrow |-> reverse_patch(r.escrow, snapshot.escrow),
     balance |-> r.balance.map[Unit],
     election_result |-> ElectionResult(r),
     awards |-> awards]

\* Mutant of write_snapshot: the awards before the epoch has been finalized.
SnapshotOfOldAwards(c, b, snapshot) ==
    Batch(c.epoch, UpdateMetadata(c, b), c.awards, snapshot)

write_snapshot(c, b, snapshot) ==
    LET r == UpdateMetadata(c, b) IN Batch(c.epoch, r, r.awards, snapshot)

EmptySnapshot ==
    [epoch |-> 0,
     block_by_hash |-> new(Lsns).map, output_by_hash |-> new(Utxos).map,
     escrow |-> new(Utxos).map, balance |-> 0, election_result |-> NoValue,
     awards |-> NewAwards]

-----------------------------------------------------------------------------
(* Recovery *)

\* The maps are filled from the snapshot at the lsn of its macro block and are
\* not finalized; then come the micro blocks, then the cache.
try_recover_fast(d) ==
    LET s == d.snapshot
        lsn == LSN(s.epoch, MACRO_BLOCK_OFFSET)
        start == [NewChain EXCEPT
            !.epoch = s.epoch + 1,
            !.election_result = insert(@, lsn, Unit, s.election_result),
            !.balance = insert(@, lsn, Unit, s.balance),
            !.block_by_hash = InsertAll(@, lsn, s.block_by_hash),
            !.output_by_hash = InsertAll(@, lsn, s.output_by_hash),
            !.escrow = InsertAll(@, lsn, s.escrow),
            !.awards = s.awards]
        oldest == IF s.epoch > StakeEpochs + 1 THEN s.epoch - (StakeEpochs + 1) ELSE 0
    IN  [RegisterMicros(start, d.micros) EXCEPT
            !.cache = CacheOf(SubSeq(d.macros, oldest + 1, Len(d.macros)))]

\* What try_recover_blocks ends with.
ReplayBlocks(d) == RegisterMicros(RegisterMacros(NewChain, d.macros), d.micros)

\* Mutant of get_block_cached: the cache is taken to be one block shorter.
CachedOneLess(c, epoch) ==
    LET lower == IF c.epoch > StakeEpochs THEN c.epoch - StakeEpochs ELSE 0
        idx == epoch - lower + 1
    IN  IF epoch > c.epoch \/ idx \notin DOMAIN c.cache THEN NoValue ELSE c.cache[idx]

get_block_cached(c, epoch) ==
    LET lower == IF c.epoch > StakeEpochs + 1 THEN c.epoch - (StakeEpochs + 1) ELSE 0
        idx == epoch - lower + 1
    IN  IF epoch > c.epoch \/ idx \notin DOMAIN c.cache THEN NoValue ELSE c.cache[idx]

\* The block at an lsn as it is read: NoValue is a panic ("Block must exists").
block(c, d, lsn) ==
    LET epoch == lsn \div (MicroBlocksInEpoch + 2)
        offset == lsn % (MicroBlocksInEpoch + 2)
        cached == get_block_cached(c, epoch)
    IN  IF offset = MACRO_BLOCK_OFFSET
        THEN IF cached # NoValue THEN cached
             ELSE IF epoch + 1 \in DOMAIN d.macros THEN d.macros[epoch + 1]
             ELSE NoValue
        ELSE IF epoch = Len(d.macros) /\ offset + 1 \in DOMAIN d.micros
             THEN d.micros[offset + 1] ELSE NoValue

-----------------------------------------------------------------------------
(* The node *)

Init ==
    LET empty == [macros |-> <<Genesis>>, micros |-> <<>>, snapshot |-> EmptySnapshot]
    IN  /\ chain = register_macro_block(NewChain, Genesis)
        /\ disk = [empty EXCEPT !.snapshot = write_snapshot(NewChain, Genesis, @)]
        /\ loading = FALSE

Running == chain # Down /\ ~ loading
Stopped == chain = Down /\ ~ loading

\* validate_stakes: what is staked does not fall below the active stakes.
validate_stakes(c, ins, outs) ==
    \A v \in Validators :
        LET Of(outputs) == Amount({u \in outputs : Stake[u].validator = v})
            expired == StakesOf(c, v) \ ActiveStakes(c, v, c.epoch)
        IN  Of(ins) <= Amount(expired) + Of(outs)

\* A cheater can be punished while it has active stakes and is not the last
\* validator; the others share what it had.  The proof shows two blocks that it
\* signed as the leader.
CanSlash(c, cheater) ==
    /\ Members(ElectionResult(c).validators) \ {cheater} # {}
    /\ ActiveStakes(c, cheater, c.epoch) # {}
    /\ HaveAccounts(c, Members(ElectionResult(c).validators) \ {cheater})
    /\ \E offset \in 0 .. c.offset, vc \in 0 .. MaxViewChange :
         select_leader(election_result_by_offset(c, offset), vc) = cheater

\* Clients' transactions that are valid on top of the chain.  Hashes of new
\* outputs are new: outputs contain a random number.
ValidTransactions(c, created) ==
    {tx \in Transactions :
        /\ \A u \in tx.ins : c.output_by_hash.map[u] # NoValue
        /\ tx.outs \cap created = {}
        /\ validate_stakes(c, tx.ins, tx.outs)}

\* A block has a client's transaction and possibly the confiscation of the
\* active stakes of a cheater; inputs are not spent twice.
Bodies(c, created) ==
    LET Confiscated(v) ==
            IF v = NoValidator THEN {} ELSE ActiveStakes(c, v, c.epoch)
        cheaters == {NoValidator} \cup {v \in Validators : CanSlash(c, v)}
        pairs == {p \in ValidTransactions(c, created) \X cheaters :
                    p[1].ins \cap Confiscated(p[2]) = {}}
    IN  {[ins |-> p[1].ins \cup Confiscated(p[2]), outs |-> p[1].outs,
          cheater |-> p[2]] : p \in pairs}

\* validate_micro_block: the blocks that are valid on top of the chain.  A
\* block with view changes carries their proof.
MicroBlocks(c, created) ==
    {[view_change |-> vc, random |-> random,
      ins |-> body.ins, outs |-> body.outs, cheater |-> body.cheater] :
        vc \in view_change(c) .. MaxViewChange,
        random \in Randoms,
        body \in Bodies(c, created)}

Created(d) == Outputs(d.macros) \cup Outputs(d.micros)

\* handle_micro_block, create_micro_block
PushMicroBlock ==
    /\ Running
    /\ chain.epoch < MaxEpoch
    /\ ~ is_epoch_full(chain)
    /\ \E b \in MicroBlocks(chain, Created(disk)) :
         /\ disk' = [disk EXCEPT !.micros = Append(@, b)]
         /\ chain' = register_micro_block(chain, b)
    /\ UNCHANGED loading

\* resolve_fork, try_rollback, handle_pop_micro_block
PopMicroBlock ==
    /\ Running
    /\ chain.offset > 0
    /\ disk' = [disk EXCEPT !.micros = Front(@)]
    /\ chain' = pop_micro_block(chain)
    /\ UNCHANGED loading

\* handle_view_change_message, try_rollback
SetViewChange ==
    /\ Running
    /\ ~ is_epoch_full(chain)
    /\ \E vc \in view_change(chain) + 1 .. MaxViewChange :
         chain' = set_view_change(chain, vc)
    /\ UNCHANGED <<disk, loading>>

\* Chains of micro blocks that fill the epoch, on a node that has the same
\* macro blocks.
FullEpochs(d) ==
    LET start == [c |-> try_recover_fast([d EXCEPT !.micros = <<>>]), micros |-> <<>>]
        Longer(e) ==
            {[c |-> register_micro_block(e.c, b), micros |-> Append(e.micros, b)] :
                b \in MicroBlocks(e.c, Outputs(d.macros) \cup Outputs(e.micros))}
        chains[n \in 0 .. MicroBlocksInEpoch] ==
            IF n = 0 THEN {start} ELSE UNION {Longer(e) : e \in chains[n - 1]}
    IN  chains[MicroBlocksInEpoch]

\* The macro block that the validators have agreed on: it replaces our own
\* micro blocks, or those of the others when ours have been popped or never
\* arrived.  An epoch without stakers has no macro block ("Have stakes"), nor has
\* one with a validator who took its stakes back.
Agreed ==
    LET epochs == IF chain.offset = 0 THEN FullEpochs(disk)
                  ELSE {[c |-> chain, micros |-> disk.micros]}
    IN  {create_macro_block(e.c, e.micros, random) :
            e \in {f \in epochs :
                     /\ Members(get_stakers_majority(f.c, f.c.epoch + 1)) # {}
                     /\ HaveAccounts(f.c, Members(ElectionResult(f.c).validators))},
            random \in Randoms}

Popped(c) ==
    LET after[i \in 0 .. c.offset] == IF i = 0 THEN c ELSE pop_micro_block(after[i - 1])
    IN  after[c.offset]

\* apply_macro_block: all micro blocks are popped, then the block is pushed.
\* A failed assert of register_macro_block leaves the node without them.
ApplyMacroBlock ==
    /\ Running
    /\ chain.epoch < MaxEpoch
    /\ chain.offset = 0 \/ is_epoch_full(chain)
    /\ \E b \in Agreed :
         LET c == Popped(chain)
             accepted == RewardAgrees(c, b) /\ ValidatorsAgree(c, b)
         IN  \/ /\ accepted
                /\ chain' = register_macro_block(c, b)
                /\ disk' = [macros |-> Append(disk.macros, b), micros |-> <<>>,
                            snapshot |-> write_snapshot(c, b, disk.snapshot)]
             \/ /\ ~ accepted
                /\ chain' = Down
                /\ disk' = [disk EXCEPT !.micros = <<>>]
    /\ UNCHANGED loading

Crash ==
    /\ chain # Down
    /\ chain' = Down
    /\ loading' = FALSE
    /\ UNCHANGED disk

\* "Should be no new macroblocks": then only the blocks can be used.
RecoverFast ==
    /\ Stopped
    /\ disk.snapshot.epoch = Len(disk.macros) - 1
    /\ chain' = try_recover_fast(disk)
    /\ UNCHANGED <<disk, loading>>

StartRecoverBlocks ==
    /\ Stopped
    /\ chain' = NewChain
    /\ loading' = TRUE
    /\ UNCHANGED disk

\* recover_block of a macro block writes its snapshot again.
RecoverMacroBlock ==
    /\ loading
    /\ chain.epoch < Len(disk.macros)
    /\ LET b == disk.macros[chain.epoch + 1]
       IN  /\ chain' = register_macro_block(chain, b)
           /\ disk' = [disk EXCEPT !.snapshot = write_snapshot(chain, b, @)]
    /\ UNCHANGED loading

RecoverMicroBlocks ==
    /\ loading
    /\ chain.epoch = Len(disk.macros)
    /\ chain' = RegisterMicros(chain, disk.micros)
    /\ loading' = FALSE
    /\ UNCHANGED disk

Next ==
    \/ PushMicroBlock \/ PopMicroBlock \/ SetViewChange \/ ApplyMacroBlock
    \/ Crash \/ RecoverFast \/ StartRecoverBlocks
    \/ RecoverMacroBlock \/ RecoverMicroBlocks

Spec == Init /\ [][Next]_vars

-----------------------------------------------------------------------------
(* Properties *)

VersionedMap(keys, values) ==
    [map : [keys -> values \cup {NoValue}],
     undo : Seq([lsn : Lsns, key : keys, value : values \cup {NoValue}]),
     checkpoint_lsn : Lsns]

MicroBlock ==
    [view_change : 0 .. MaxViewChange, random : Randoms,
     ins : SUBSET Utxos, outs : SUBSET Utxos, cheater : Validators \cup {NoValidator}]

MacroBlock ==
    [random : Randoms, ins : SUBSET Utxos, outs : SUBSET Utxos,
     activity_map : SUBSET Validators, reward : Nat,
     validators : [Validators -> 0 .. SlotCount]]

Blocks == MicroBlock \cup MacroBlock \cup {Genesis}

ElectionResults ==
    [random : Randoms \cup {GenesisRandom}, view_change : 0 .. MaxViewChange,
     validators : [Validators -> 0 .. SlotCount]]

AwardsType == [budget : Nat, activity : [Accounts -> AwardStates]]

TypeOK ==
    /\ loading \in BOOLEAN
    /\ disk.macros \in Seq(MacroBlock \cup {Genesis})
    /\ disk.micros \in Seq(MicroBlock)
    /\ \/ chain = Down /\ ~ loading
       \/ /\ chain.epoch \in 0 .. MaxEpoch
          /\ chain.offset \in 0 .. MicroBlocksInEpoch
          /\ chain.view_change_proof \in BOOLEAN
          /\ chain.block_by_hash \in VersionedMap(Lsns, Blocks)
          /\ chain.output_by_hash \in VersionedMap(Utxos, Lsns)
          /\ chain.balance \in VersionedMap({Unit}, Nat)
          /\ chain.escrow \in VersionedMap(Utxos, Nat)
          /\ chain.election_result \in VersionedMap({Unit}, ElectionResults)
          /\ chain.epoch_activity \in VersionedMap(Validators, {Active, Failed})
          /\ chain.awards \in AwardsType
          /\ chain.cache \in Seq(MacroBlock \cup {Genesis})

\* The state of a chain, apart from the view changes at its end and from the
\* undo logs.
Contents(c) ==
    [epoch |-> c.epoch, offset |-> c.offset,
     blocks |-> c.block_by_hash.map,
     outputs |-> c.output_by_hash.map,
     balance |-> c.balance.map,
     escrow |-> c.escrow.map,
     activity |-> c.epoch_activity.map,
     election |-> [ElectionResult(c) EXCEPT !.view_change = 0],
     awards |-> c.awards, cache |-> c.cache]

\* A restart changes nothing: wherever the node stops, both recoveries rebuild
\* what it had, or refuse the snapshot because it is older than the blocks.
RecoveryIsExact ==
    Running =>
        /\ disk.snapshot.epoch = Len(disk.macros) - 1
        /\ Contents(try_recover_fast(disk)) = Contents(chain)
        /\ Contents(ReplayBlocks(disk)) = Contents(chain)

\* The chain as of an earlier block of the epoch: what the undo logs lead to is
\* what those blocks gave, including the validators and the random by which
\* leaders of old blocks and cheaters are judged, and the asserts of
\* pop_micro_block about the lsns hold on the way.
HistoryIsExact ==
    Running => \A offset \in 0 .. chain.offset - 1 :
        LET lsn == PreviousLsn(chain.epoch, offset)
            past == [RollbackMaps(chain, lsn) EXCEPT !.offset = offset]
            then == try_recover_fast([disk EXCEPT !.micros = SubSeq(@, 1, offset)])
        IN  /\ Contents(past) = Contents(then)
            /\ election_result_by_offset(chain, offset) = ElectionResult(then)
            /\ current_lsn(past.block_by_hash) = lsn
            /\ current_lsn(past.election_result) = lsn
            /\ \A m \in {past.output_by_hash, past.balance, past.escrow,
                          past.epoch_activity} : current_lsn(m) <= lsn

\* Blocks and outputs can be read: every block that the chain has is where
\* block() looks for it, in the cache or in the database, and the key of an
\* output names a block that creates it.
BlocksCanBeRead ==
    Running => LET blocks == chain.block_by_hash.map
                   outputs == chain.output_by_hash.map
               IN  /\ \A lsn \in Lsns : block(chain, disk, lsn) = blocks[lsn]
                   /\ \A u \in Utxos : outputs[u] # NoValue => u \in blocks[outputs[u]].outs

\* The macro block made of an epoch's micro blocks does what they did: every
\* output and every stake is the same after they are popped and it is pushed,
\* with the validators that the block announces, and only its own reward and
\* the award are new money.
MacroReplacesMicros ==
    Running /\ is_epoch_full(chain) => \A b \in Agreed :
        LET c == Popped(chain)
            after == register_macro_block(c, b)
            Unspent(x) == {u \in Utxos : x.output_by_hash.map[u] # NoValue}
            award == b.reward - FullReward([amount |-> 0])
        IN  /\ ValidatorsAgree(c, b)
            /\ Unspent(after) = Unspent(chain)
            /\ after.escrow.map = chain.escrow.map
            /\ after.balance.map[Unit] = chain.balance.map[Unit] + BlockReward + award

\* A view change at the end of the chain has a proof, which the node sends to
\* the authors of blocks that come too late ("last view_change proof.").
ViewChangeHasProof == Running /\ view_change(chain) > 0 => chain.view_change_proof

\* At the start of an epoch every validator has a stake that is locked in it
\* ("Validator should have wallet key at start of epoch"), also when the blocks of
\* the epoch have been popped again.  Later it may take the stake back: what is
\* compared in validate_stakes are sums.
ValidatorsAreStaked ==
    Running /\ chain.offset = 0 =>
        \A v \in Members(ElectionResult(chain).validators) :
            ActiveStakes(chain, v, chain.epoch) # {}

\* The activity by which awards are made is that of the leaders by whom the
\* node checked the blocks: who was skipped has failed, who made a block and
\* was never skipped is active.  This needs blocks without confiscations.
ActivityOfLeaders ==
    Running /\ (\A b \in ToSet(disk.micros) : b.cheater = NoValidator) =>
        LET LeaderAt(i, vc) ==
                select_leader(election_result_by_offset(chain, i - 1), vc)
            blocks == DOMAIN disk.micros
            skipped == UNION {{LeaderAt(i, vc) : vc \in 0 .. disk.micros[i].view_change - 1} :
                              i \in blocks}
            leaders == {LeaderAt(i, disk.micros[i].view_change) : i \in blocks}
        IN  chain.epoch_activity.map =
                [v \in Validators |-> IF v \in skipped THEN Failed
                                     ELSE IF v \in leaders THEN Active ELSE NoValue]
=============================================================================
