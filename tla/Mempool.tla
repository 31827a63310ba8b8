------------------------------- MODULE Mempool -------------------------------
(***************************************************************************)
(* The transactions of a node between the network and its chain: a mempool *)
(* with indexes by input and output (node/src/mempool.rs), the validation  *)
(* of what comes in (node/src/validation.rs), the blocks that take from it *)
(* or give back to it, and the reader that feeds the blocks of the chain   *)
(* to a subscriber before it gets the new ones (node/src/lib.rs).          *)
(*                                                                         *)
(* A transaction is its inputs, by hash, its outputs, its fee and type.    *)
(* Of the chain we keep the unspent outputs at the start of the epoch and  *)
(* the transactions of the micro blocks since; the module Blockchain has   *)
(* the rest.                                                               *)
(***************************************************************************)
EXTENDS Integers, FiniteSets, Sequences
LOCAL INSTANCE SequencesExt
LOCAL INSTANCE FiniteSetsExt

CONSTANTS
    Me, Other,              \* the account that we follow, and anybody else
    Genesis,                \* the outputs at the start
    Incoming,               \* transactions that others send
    MicroBlocks,            \* chain cfg.micro_blocks_in_epoch
    StakeEpochs,            \* chain cfg.stake_epochs
    min_payment_fee,        \* node cfg, with a min_stake_fee of 0
    max_inputs_in_tx, max_inputs_in_mempool, max_inputs_in_block,
    Buffer,                 \* of a subscription: micro_blocks_in_epoch + 10
    MaxEpoch                \* bound: the last epoch has no blocks

ASSUME MempoolAssumption ==
    /\ {StakeEpochs, max_inputs_in_mempool} \subseteq Nat
    /\ {min_payment_fee, MicroBlocks, max_inputs_in_tx, max_inputs_in_block, Buffer, MaxEpoch}
         \subseteq Nat \ {0}

Kinds == {"payment", "public", "stake"}

Output(id, kind, owner, amount) ==
    [id |-> id, kind |-> kind, owner |-> owner, amount |-> amount, until |-> 0]

Ids(outputs) == {o.id : o \in outputs}
Amount(outputs) == MapThenSumSet(LAMBDA o : o.amount, outputs)
Inputs(txs) == UNION {tx.ins : tx \in txs}
Outputs(txs) == UNION {tx.outs : tx \in txs}

-----------------------------------------------------------------------------
(* The chain *)

\* Escrow::stake notes until when a stake is locked.
Stamp(outputs, epoch) ==
    {IF o.kind = "stake" THEN [o EXCEPT !.until = epoch + StakeEpochs] ELSE o :
        o \in outputs}

Spend(unspent, txs, epoch) ==
    {o \in unspent \cup Stamp(Outputs(txs), epoch) : o.id \notin Inputs(txs)}

offset(c) == Len(c.micros)

\* The unspent outputs after the first blocks of the epoch.
UnspentAt(c, count) ==
    FoldLeft(LAMBDA u, txs : Spend(u, txs, c.epoch), c.base,
             SubSeq(c.micros, 1, count))

Unspent(c) == UnspentAt(c, offset(c))

Resolve(unspent, tx) == {o \in unspent : o.id \in tx.ins}

\* Escrow::validate_stakes: what stays staked is not less than what is locked.
validate_stakes(unspent, tx, epoch) ==
    LET stakes(os) == {o \in os : o.kind = "stake" /\ o.owner = Me}
        locked == {o \in stakes(unspent) : o.until >= epoch}
    IN  Amount(stakes(unspent)) - Amount(stakes(Resolve(unspent, tx)))
          + Amount(stakes(tx.outs)) >= Amount(locked)

\* Transactions that a valid block can hold after these outputs.
IsValidBlock(unspent, txs, epoch) ==
    /\ Inputs(txs) \subseteq Ids(unspent)
    /\ \A s, t \in txs : s # t => s.ins \cap t.ins = {} /\ s.outs \cap t.outs = {}
    /\ \A t \in txs : Ids(t.outs) \cap Ids(unspent) = {}
    /\ \A t \in txs : t.type = "slash" \/ validate_stakes(unspent, t, epoch)

-----------------------------------------------------------------------------
(* The mempool.  An index is a set of pairs <<hash of an output, hash of a  *)
(* transaction>>; ok is whether no assertion has failed.                    *)

EmptyPool == [pool |-> {}, inputs |-> {}, outputs |-> {}, ok |-> TRUE]

Keys(index) == {p[1] : p \in index}
RemoveKeys(index, keys) == {p \in index : p[1] \notin keys}
Values(index, keys) == {p[2] : p \in {q \in index : q[1] \in keys}}

contains_tx(m, tx) == tx.id \in {t.id : t \in m.pool}

push_tx(m, tx) ==
    [pool |-> m.pool \cup {tx},
     inputs |-> RemoveKeys(m.inputs, tx.ins) \cup {<<i, tx.id>> : i \in tx.ins},
     outputs |-> RemoveKeys(m.outputs, Ids(tx.outs))
                   \cup {<<i, tx.id>> : i \in Ids(tx.outs)},
     ok |-> /\ m.ok /\ ~contains_tx(m, tx)
            /\ tx.ins \cap Keys(m.inputs) = {}
            /\ Ids(tx.outs) \cap Keys(m.outputs) = {}]

\* Remove transactions and all that the indexes have of them.
prune_txs(m, hashes) ==
    LET txs == {t \in m.pool : t.id \in hashes}
    IN  [pool |-> m.pool \ txs,
         inputs |-> RemoveKeys(m.inputs, Inputs(txs)),
         outputs |-> RemoveKeys(m.outputs, Ids(Outputs(txs))),
         ok |-> /\ m.ok /\ hashes \subseteq {t.id : t \in txs}
                /\ \A t \in txs : Values(m.inputs, t.ins) \subseteq {t.id}
                /\ \A t \in txs : Values(m.outputs, Ids(t.outs)) \subseteq {t.id}]

\* A block was applied: what it has taken, or spent the inputs of, goes.
prune(m, ins, outs) ==
    prune_txs([m EXCEPT !.inputs = RemoveKeys(@, ins),
                        !.outputs = RemoveKeys(@, outs)],
              Values(m.inputs, ins) \cup Values(m.outputs, outs))

\* Mutant: transactions that spend what the block created stay.
PopAndKeepDependents(m, txs) == FoldSet(LAMBDA tx, r : push_tx(r, tx), m, txs)

\* A micro block was reverted: what spends its outputs goes, its payments and
\* restakes come back.
pop_micro_block(m, txs) ==
    LET outs == Ids(Outputs(txs))
        pruned == prune_txs([m EXCEPT !.inputs = RemoveKeys(@, outs)],
                            Values(m.inputs, outs))
    IN  FoldSet(LAMBDA tx, r : push_tx(r, tx), pruned,
                {t \in txs : t.type \in {"payment", "restake"}})

\* Restakes first, then by fee.
Priority(tx) == IF tx.type = "restake" THEN 1000000 ELSE tx.fee

\* The transactions that create_block takes: in the order of their priority,
\* up to the first that does not fit (the limit on outputs is alike).  The
\* order of equals is that of a hash map.
create_block(m) ==
    LET orders == {s \in SetToSeqs(m.pool) : \A i, j \in 1 .. Len(s) :
                      i < j => Priority(s[i]) >= Priority(s[j])}
        Fits(s, k) == \A i \in 1 .. k :
            Cardinality(Inputs(ToSet(SubSeq(s, 1, i)))) < max_inputs_in_block
    IN  {ToSet(SubSeq(s, 1, Max({k \in 0 .. Len(s) : Fits(s, k)}))) : s \in orders}

-----------------------------------------------------------------------------
(* Incoming transactions *)

MinFee(tx) == min_payment_fee * Cardinality({o \in tx.outs : o.kind # "stake"})

validate_external_transaction(m, c, tx) ==
    LET unspent == Unspent(c)
    IN  CASE contains_tx(m, tx) -> "AlreadyExists"
          [] tx.fee < MinFee(tx) -> "TooLowFee"
          [] ~(tx.ins \subseteq Ids(unspent) \ Keys(m.inputs)) -> "MissingInput"
          [] Ids(tx.outs) \cap (Ids(unspent) \cup Keys(m.outputs)) # {} ->
                "OutputHashCollision"
          [] ~validate_stakes(unspent, tx, c.epoch) -> "StakeIsLocked"
          [] OTHER -> "ok"

IsOverLimits(m, tx) ==
    /\ tx.type # "restake"
    /\ \/ Cardinality(tx.ins) > max_inputs_in_tx
       \/ Cardinality(m.inputs) > max_inputs_in_mempool

\* The new mempool and the result; the clock decides whether the node
\* believes that it is synchronized.
handle_transaction(m, c, tx, synchronized) ==
    LET result == validate_external_transaction(m, c, tx)
        Ignore(r) == [m |-> m, result |-> r]
    IN  CASE tx.type # "restake" /\ ~synchronized -> Ignore("NotSynchronized")
          [] IsOverLimits(m, tx) -> Ignore("Rejected")
          [] result = "ok" -> [m |-> push_tx(m, tx), result |-> "ok"]
          [] result # "ok" /\ ~synchronized -> Ignore("ok")
          [] OTHER -> Ignore(result)

\* The status of a client's transaction.
handle_add_tx(result) ==
    CASE result \in {"ok", "AlreadyExists"} -> "Accepted"
      [] result = "NotSynchronized" -> "Error"
      [] OTHER -> "Rejected"

\* restake_expiring_stakes: all expiring stakes that nothing in the mempool
\* spends become one new stake.
restake_expiring_stakes(m, c, id) ==
    LET expiring == {o \in Unspent(c) :
                        /\ o.kind = "stake" /\ o.owner = Me /\ c.epoch >= o.until
                        /\ o.id \notin Keys(m.inputs)}
    IN  IF expiring = {} THEN {}
        ELSE {[id |-> id, type |-> "restake", ins |-> Ids(expiring), fee |-> 0,
               outs |-> {Output(<<id, 1>>, "stake", Me, Amount(expiring))}]}

\* confiscate_tx: the stakes of the accused go to the others.
confiscate_tx(c, id) ==
    LET stakes == {o \in Unspent(c) : o.kind = "stake" /\ o.owner = Me}
    IN  [id |-> id, type |-> "slash", ins |-> Ids(stakes), fee |-> 0,
         outs |-> {Output(<<id, 1>>, "payment", Other, Amount(stakes))}]

-----------------------------------------------------------------------------
(* Subscriptions to the chain *)

MicroBlockPrepared(epoch, at, txs) ==
    [type |-> "micro", epoch |-> epoch, offset |-> at,
     ins |-> Inputs(txs), outs |-> Outputs(txs)]

MicroBlockReverted(c) ==
    LET txs == Last(c.micros)
    IN  [type |-> "revert", epoch |-> c.epoch, offset |-> offset(c) - 1,
         ins |-> Ids(Outputs(txs)),
         outs |-> {o \in UnspentAt(c, offset(c) - 1) : o.id \in Inputs(txs)}]

MacroBlockCommitted(epoch, txs) ==
    [type |-> "macro", epoch |-> epoch, offset |-> 0,
     ins |-> Inputs(txs), outs |-> Outputs(txs)]

NoSubscription == [state |-> "none", epoch |-> 0, offset |-> 0, buf |-> <<>>]

\* A subscriber that reads on from the start of an epoch.
handle_subscription_to_chain(c, epoch) ==
    IF epoch > c.epoch THEN NoSubscription
    ELSE [state |-> "reader", epoch |-> epoch, offset |-> 0, buf |-> <<>>]

\* notify_subscribers: a slow subscriber misses the message.
notify_subscribers(s, msg) ==
    IF s.state = "active" /\ Len(s.buf) < Buffer
    THEN [s EXCEPT !.buf = Append(@, msg)] ELSE s

\* The next block of a reader: a macro block of an epoch that is over, or a
\* micro block.  old has the transactions of the finished epochs.
NextBlock(c, old, s) ==
    IF s.epoch < c.epoch THEN <<MacroBlockCommitted(s.epoch, old[s.epoch])>>
    ELSE IF s.epoch = c.epoch /\ s.offset < offset(c)
    THEN <<MicroBlockPrepared(c.epoch, s.offset, c.micros[s.offset + 1])>>
    ELSE <<>>

\* ChainReader::poll, one block at a time.  After the last micro block of an
\* epoch the reader goes on in the next epoch.
ChainReader_poll(c, old, s) ==
    LET next == NextBlock(c, old, s)
        new == IF next # <<>> /\ next[1].type = "micro" /\ s.offset + 1 < MicroBlocks
               THEN <<s.epoch, s.offset + 1>> ELSE <<s.epoch + 1, 0>>
    IN  CASE s.epoch = c.epoch /\ s.offset = offset(c) -> [s EXCEPT !.state = "active"]
          [] next # <<>> /\ Len(s.buf) < Buffer ->
                [s EXCEPT !.buf = @ \o next, !.epoch = new[1], !.offset = new[2]]
          [] OTHER -> s
=============================================================================
