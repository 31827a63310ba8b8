------------------------------- MODULE Wallet -------------------------------
(***************************************************************************)
(* An account of the wallet (wallet/src/lib.rs) and its database           *)
(* (wallet/src/storage.rs) beside the node that it sends transactions to   *)
(* and whose chain it follows (the module Mempool).                        *)
(*                                                                         *)
(* The account learns of blocks, of blocks reverted and of its             *)
(* transactions' fate from messages that arrive later; it locks the inputs *)
(* of what it has sent, sends again what has not been included, and starts *)
(* again from its database when it is sealed and unsealed.                 *)
(***************************************************************************)
EXTENDS Mempool
LOCAL INSTANCE SequencesExt
LOCAL INSTANCE FiniteSetsExt

CONSTANTS
    Amounts,            \* the amounts that the user pays, stakes and unstakes
    MAX_UTXOS,          \* inputs of a snowball transaction
    MaxTxs,             \* bound: transactions of the account and of its node
    MaxTroubles,        \* bound: blocks reverted, evidence, seals, locks that
                        \* expire, answers of a node that is not synchronized
    MayBeSlashed        \* whether evidence against the account's node turns up

VARIABLES
    chain,              \* [epoch, base, micros]: see Mempool
    finished,           \* finished[e]: the transactions of the macro block of e
    mempool,
    sub,                \* the account's subscription to the chain
    disk,               \* the account's database: history, unspent outputs, epoch
    acc,                \* the account's memory
    fresh,              \* how many transactions have been created
    troubles,           \* how many of those there have been
    missed,             \* history: a message for the account was skipped
    stale               \* history: prepared when the account was unsealed

node == <<chain, finished, mempool>>
wallet == <<disk, acc>>
vars == <<node, wallet, sub, fresh, missed, troubles, stale>>

ASSUME WalletAssumption ==
    /\ Amounts \subseteq Nat
    /\ {MAX_UTXOS, MaxTxs} \subseteq Nat \ {0}
    /\ MaxTroubles \in Nat
    /\ MayBeSlashed \in BOOLEAN

Trouble == troubles < MaxTroubles /\ troubles' = troubles + 1

TxIds == 1 .. MaxTxs
Mine(outputs) == {o \in outputs : o.owner = Me}

\* The state of the account's own transactions.
Created == [s |-> "Created", offset |-> 0]
Accepted == [s |-> "Accepted", offset |-> 0]
Rejected == [s |-> "Rejected", offset |-> 0]
Prepared(at) == [s |-> "Prepared", offset |-> at]
Committed == [s |-> "Committed", offset |-> 0]
Conflicted == [s |-> "Conflicted", offset |-> 0]

NoEntry == [s |-> "none", offset |-> 0]
NoResponse == [tx |-> 0, result |-> "none"]
NoSnowball == [ins |-> {}, amount |-> 0]

-----------------------------------------------------------------------------
(* AccountDatabase.  d is the database: its history is a transaction and a  *)
(* status for every id; a is the memory.                                    *)

Sealed ==
    [phase |-> "sealed", epoch |-> 0, add |-> {}, rem |-> {}, locks |-> {},
     inputs |-> {}, outputs |-> {}, response |-> NoResponse,
     snowball |-> NoSnowball, failed |-> {}]

Logged(d) == {i \in TxIds : d.status[i] # NoEntry}
Pending(d) == {i \in TxIds : d.status[i] \in {Created, Accepted}}
EpochTransactions(d) == {i \in TxIds : d.status[i].s = "Prepared"}

\* Mutant: what this epoch has spent is still there.
IterIgnoringRemoved(d, a) ==
    {o \in d.unspent : o.id \notin Ids(a.add)} \cup a.add

iter_unspent(d, a) ==
    {o \in d.unspent : o.id \notin a.rem \cup Ids(a.add)} \cup a.add

get_unspent(d, a, id) == {o \in iter_unspent(d, a) : o.id = id}

insert_unspent(a, o) ==
    [a EXCEPT !.add = {x \in @ : x.id # o.id} \cup {o}, !.rem = @ \ {o.id}]

remove_unspent(a, id) ==
    [a EXCEPT !.add = {x \in @ : x.id # id}, !.rem = @ \cup {id}]

LockedIds(a) == {l[1] : l \in a.locks}

\* Not claimed by a transaction on its way.
available(d, a, kind) ==
    {o \in iter_unspent(d, a) : o.kind = kind /\ o.id \notin LockedIds(a)}

\* available_stake_outputs looks at the epoch only, not at the locks.
available_stake_outputs(d, a) ==
    {o \in iter_unspent(d, a) : o.kind = "stake" /\ o.until <= a.epoch}

\* balance: what the user is told that it can spend.
balance(d, a, kind) ==
    Amount({o \in available(d, a, kind) : kind = "stake" => o.until < a.epoch + 1})

\* The indexes of a transaction that can still be included.  The sets
\* pending_txs and epoch_transactions of the code follow from the statuses.
update_tx_indexes(a, tx, status) ==
    IF status \notin {Created, Accepted} THEN a
    ELSE [a EXCEPT
            !.outputs = RemoveKeys(@, Ids(tx.known)) \cup {<<i, tx.id>> : i \in Ids(tx.known)},
            !.inputs = RemoveKeys(@, tx.ins) \cup {<<i, tx.id>> : i \in tx.ins}]

\* on_tx_status and update_tx_status.
on_tx_status(d, a, id, status) ==
    IF id \notin Logged(d) \/ d.status[id] = status THEN [d |-> d, a |-> a]
    ELSE [d |-> [d EXCEPT !.status[id] = status],
          a |-> update_tx_indexes(a, d.txs[id], status)]

\* One status for each of several transactions.
on_tx_statuses_changed(d, a, status) ==
    FoldSet(LAMBDA id, r : on_tx_status(r.d, r.a, id, status[id]),
            [d |-> d, a |-> a], DOMAIN status)

\* The transactions that a block touches leave the indexes.
prune_account_txs(d, a, ins, outs) ==
    LET ids == Values(a.inputs, ins) \cup Values(a.outputs, outs)
        txs == {d.txs[i] : i \in ids}
    IN  [ids |-> ids,
         a |-> [a EXCEPT !.inputs = RemoveKeys(@, ins \cup Inputs(txs)),
                         !.outputs = RemoveKeys(@, outs \cup Ids(Outputs(txs)))]]

\* A block has the whole transaction and not just a part of what it spends.
IsFull(tx, ins, outs) == tx.ins \subseteq ins /\ Ids(tx.outs) \subseteq outs

\* The unspent outputs and the epoch go to the disk in one batch; then what
\* was prepared is committed.
finalize_epoch(d, a, epoch) ==
    [d |-> [d EXCEPT !.unspent = iter_unspent(d, a),
                     !.epoch = epoch,
                     !.status = [i \in TxIds |->
                         IF d.epoch # epoch /\ i \in EpochTransactions(d)
                         THEN Committed ELSE @[i]]],
     a |-> [a EXCEPT !.add = {}, !.rem = {}]]

\* AccountDatabase::open and recover_state, and a new subscription.
Opened(d) ==
    LET a == [Sealed EXCEPT !.phase = "unsealed", !.epoch = d.epoch + 1]
    IN  FoldSet(LAMBDA i, r : update_tx_indexes(r, d.txs[i], d.status[i]), a, Logged(d))

-----------------------------------------------------------------------------
(* find_utxo (wallet/src/change.rs) *)

\* Outputs by amount, smallest first.
Ascending(outputs) ==
    SetToSortSeq(outputs, LAMBDA o, p : o.amount < p.amount \/ (o.amount = p.amount /\ o.id[1] < p.id[1]))

\* Of the outputs that are enough by themselves only the smallest is kept;
\* spend from the largest down until it is enough, then add the smallest
\* ones up to the limit.  {} is an error: not enough, or too many inputs.
find_utxo(outputs, target, limit) ==
    LET all == Ascending(outputs)
        big == {i \in 1 .. Len(all) : all[i].amount >= target}
        kept == IF big = {} THEN all ELSE SubSeq(all, 1, Min(big))
        n == Len(kept)
        Top(k) == ToSet(SubSeq(kept, n - k + 1, n))
        enough == {k \in 0 .. n : Amount(Top(k)) >= target}
        k == Min(enough)
    IN  IF enough = {} \/ k > limit THEN {}
        ELSE Top(k) \cup ToSet(SubSeq(kept, 1, Min({limit - k, n - k})))

-----------------------------------------------------------------------------
(* Requests of the user *)

\* The transaction that spends ins: what it is for, and the change.
Transaction(ins, main, change, changeKind, fee) ==
    LET id == fresh + 1
        outs == {Output(<<id, 1>>, main.kind, main.owner, main.amount)}
                  \cup IF change > 0
                       THEN {Output(<<id, 2>>, changeKind, Me, change)} ELSE {}
    IN  [id |-> id, type |-> "payment", ins |-> Ids(ins), outs |-> outs,
         known |-> outs, fee |-> fee]

Target(kind, owner, amount) == [kind |-> kind, owner |-> owner, amount |-> amount]

\* The transactions that a request can make, or none if it is an error.
payment(amount) ==
    LET fee == 2 * min_payment_fee
        ins == find_utxo(available(disk, acc, "payment"), amount + fee, max_inputs_in_tx)
    IN  IF amount > balance(disk, acc, "payment") \/ ins = {} THEN {}
        ELSE {Transaction(ins, Target("payment", Other, amount),
                          Amount(ins) - amount - fee, "payment", fee)}

\* The kind of an output of others makes no difference to the account.
public_payment(amount) == payment(amount)

stake(amount) ==
    LET fee == min_payment_fee
        ins == find_utxo(available(disk, acc, "payment"), amount + fee, max_inputs_in_tx)
    IN  IF amount > balance(disk, acc, "payment") \/ amount <= fee \/ ins = {} THEN {}
        ELSE {Transaction(ins, Target("stake", Me, amount),
                          Amount(ins) - amount - fee, "payment", fee)}

unstake(amount) ==
    LET fee == min_payment_fee
        ins == find_utxo(available_stake_outputs(disk, acc), amount, max_inputs_in_tx)
        change == Amount(ins) - amount
    IN  IF amount > balance(disk, acc, "stake") \/ amount <= fee \/ ins = {}
             \/ change \in 1 .. fee
        THEN {}
        ELSE {Transaction(ins, Target("payment", Me, amount - fee), change, "stake", fee)}

\* The largest outputs, as many as a transaction takes.
Largest(outputs) ==
    LET s == Ascending(outputs)
    IN  ToSet(SubSeq(s, Max({1, Len(s) - max_inputs_in_tx + 1}), Len(s)))

stake_all == stake(Amount(Largest(available(disk, acc, "payment"))))
unstake_all == unstake(Amount(Largest(available_stake_outputs(disk, acc))))

\* (With a fee of 0 and nothing to cloak an assertion would fail.)
cloak_all ==
    LET ins == Largest(available(disk, acc, "public"))
        fee == min_payment_fee
    IN  IF Amount(ins) < fee THEN {}
        ELSE {Transaction(ins, Target("payment", Me, Amount(ins) - fee), 0, "payment", fee)}

\* lock_input asserts that the input is not locked; failed notes its kind.
LockInputs(a, ids) ==
    [a EXCEPT !.locks = {l \in @ : l[1] \notin ids} \cup {<<i, fresh + 1>> : i \in ids},
              !.failed = @ \cup {o.kind : o \in {x \in iter_unspent(disk, a) :
                                                    x.id \in ids \cap LockedIds(a)}}]

push_outgoing(d, tx) ==
    [d EXCEPT !.txs[tx.id] = tx, !.status[tx.id] = Created]

\* One transaction at a time is on its way to the mempool.
send_transaction(a, id) ==
    IF a.response = NoResponse
    THEN [a EXCEPT !.response = [tx |-> id, result |-> "sent"]] ELSE a

\* Lock the inputs, log the transaction, send it.  The user gets an error
\* if it could not be sent, but it is logged.
send_and_log_transaction(tx) ==
    LET locked == update_tx_indexes(LockInputs(acc, tx.ins), tx, Created)
    IN  /\ disk' = push_outgoing(disk, tx)
        /\ acc' = send_transaction(locked, tx.id)
        /\ fresh' = fresh + 1
        /\ UNCHANGED <<node, sub, missed, troubles>>

IsUnsealed == acc.phase = "unsealed" /\ acc.failed = {}

Request(txs) ==
    /\ IsUnsealed /\ fresh < MaxTxs
    /\ \E tx \in txs : send_and_log_transaction(tx)

Payment == \E amount \in Amounts : Request(payment(amount))
PublicPayment == \E amount \in Amounts : Request(public_payment(amount))
StakeRequest == Request(stake_all \cup UNION {stake(amount) : amount \in Amounts})
UnstakeRequest == Request(unstake_all \cup UNION {unstake(amount) : amount \in Amounts})
CloakAll == Request(cloak_all)

-----------------------------------------------------------------------------
(* Snowball: the value shuffle itself is the module Snowball *)

SecurePayment ==
    /\ IsUnsealed /\ acc.snowball = NoSnowball
    /\ \E amount \in Amounts :
         LET ins == find_utxo(available(disk, acc, "payment"),
                              amount + 2 * min_payment_fee, MAX_UTXOS)
         IN  /\ amount <= balance(disk, acc, "payment") /\ ins # {}
             /\ acc' = [LockInputs(acc, Ids(ins)) EXCEPT
                          !.snowball = [ins |-> ins, amount |-> amount]]
    /\ UNCHANGED <<node, sub, disk, fresh, missed, troubles>>

\* handle_snowball_transaction.  The leader of the shuffle sends it; the
\* other participants only wait for it in the chain.
SnowballSucceeded(is_leader) ==
    LET s == acc.snowball
        fee == 2 * min_payment_fee
        tx == Transaction(s.ins, Target("payment", Other, s.amount),
                          Amount(s.ins) - s.amount - fee, "payment", fee)
        done == update_tx_indexes([acc EXCEPT !.snowball = NoSnowball], tx, Created)
    IN  /\ IsUnsealed /\ s # NoSnowball /\ fresh < MaxTxs
        /\ disk' = push_outgoing(disk, tx)
        /\ acc' = IF is_leader THEN send_transaction(done, tx.id) ELSE done
        /\ fresh' = fresh + 1
        /\ UNCHANGED <<node, sub, missed, troubles>>

SnowballFailed ==
    LET ids == Ids(acc.snowball.ins)
    IN  /\ IsUnsealed /\ acc.snowball # NoSnowball
        /\ acc' = [acc EXCEPT !.snowball = NoSnowball,
                              !.locks = {l \in @ : l[1] \notin ids},
                              !.failed = {"unlock" : i \in ids \ LockedIds(acc)}]
        /\ UNCHANGED <<node, sub, disk, fresh, missed, troubles>>

-----------------------------------------------------------------------------
(* Timers and answers *)

\* The node answers that a transaction is in its mempool, or is not valid.
TransactionResponse ==
    LET r == acc.response
        new == on_tx_status(disk, [acc EXCEPT !.response = NoResponse], r.tx,
                            IF r.result = "Accepted" THEN Accepted ELSE Rejected)
    IN  /\ IsUnsealed /\ r.result \notin {"none", "sent"}
        /\ IF r.result = "Error"
           THEN disk' = disk /\ acc' = [acc EXCEPT !.response = NoResponse]
           ELSE disk' = new.d /\ acc' = new.a
        /\ UNCHANGED <<node, sub, fresh, missed, troubles>>

\* All pending transactions are sent, but the first that is sent has to be
\* answered before another one.
handle_resend_pending_txs ==
    /\ IsUnsealed /\ acc.response = NoResponse
    /\ \E id \in Pending(disk) : acc' = send_transaction(acc, id)
    /\ UNCHANGED <<node, sub, disk, fresh, missed, troubles>>

\* Mutant: locks outlive a snowball that has timed out.
KeepSnowball ==
    /\ IsUnsealed /\ Trouble
    /\ \E last \in {l[2] : l \in acc.locks} :
         acc' = [acc EXCEPT !.locks = {l \in @ : l[2] > last}]
    /\ UNCHANGED <<node, sub, disk, fresh, missed>>

\* The locks of transactions up to one have expired; a snowball that has
\* lost its lock is over.
handle_check_pending_utxos ==
    /\ IsUnsealed /\ Trouble
    /\ \E last \in {l[2] : l \in acc.locks} :
         LET expired == {l[1] : l \in {x \in acc.locks : x[2] <= last}}
         IN  acc' = [acc EXCEPT
                !.locks = {l \in @ : l[2] > last},
                !.snowball = IF expired \cap Ids(@.ins) # {} THEN NoSnowball ELSE @]
    /\ UNCHANGED <<node, sub, disk, fresh, missed>>

-----------------------------------------------------------------------------
(* Messages from the chain *)

on_output_created(d, a, o, epoch) ==
    LET mine == IF o.kind = "stake" THEN [o EXCEPT !.until = epoch + StakeEpochs]
                ELSE o
    IN  [insert_unspent(a, mine) EXCEPT
           !.failed = @ \cup {"created" : x \in get_unspent(d, a, o.id)}]

on_output_pruned(d, a, id) ==
    IF get_unspent(d, a, id) = {} THEN a ELSE remove_unspent(a, id)

\* Outputs first, for a macro block may spend what it creates.
on_outputs_changed(d, a, n) ==
    FoldSet(LAMBDA id, r : on_output_pruned(d, r, id),
            FoldSet(LAMBDA o, r : on_output_created(d, r, o, n.epoch), a, Mine(n.outs)),
            n.ins)

\* MicroBlockPrepared: what is in the block whole is prepared, what has lost
\* an input is not.
OnMicroBlockPrepared(d, a, n) ==
    LET outs == Ids(n.outs)
        p == prune_account_txs(d, a, n.ins, outs)
        r == on_tx_statuses_changed(d, p.a, [id \in p.ids |->
                IF IsFull(d.txs[id], n.ins, outs) THEN Prepared(n.offset) ELSE Conflicted])
    IN  [d |-> r.d, a |-> on_outputs_changed(r.d, r.a, n)]

\* MacroBlockCommitted, with on_epoch_changed.
OnMacroBlockCommitted(d, a, n) ==
    LET outs == Ids(n.outs)
        p == prune_account_txs(d, a, n.ins, outs)
        r == on_tx_statuses_changed(d, p.a, [id \in p.ids |->
                IF IsFull(d.txs[id], n.ins, outs) THEN Committed ELSE Conflicted])
    IN  finalize_epoch(r.d, [on_outputs_changed(r.d, r.a, n) EXCEPT !.epoch = n.epoch],
                       n.epoch)

\* Mutant: the outputs are reverted, the statuses are not.
RevertOutputsOnly(d, a, n) == [d |-> d, a |-> on_outputs_changed(d, a, n)]

\* MicroBlockReverted: what was prepared by that block is pending again.
OnMicroBlockReverted(d, a, n) ==
    LET ids == {i \in EpochTransactions(d) : d.status[i].offset = n.offset}
        r == on_tx_statuses_changed(d, a, [id \in ids |-> Created])
    IN  [d |-> r.d, a |-> on_outputs_changed(r.d, r.a, n)]

ChainNotification ==
    LET n == Head(sub.buf)
        r == CASE n.type = "micro" -> OnMicroBlockPrepared(disk, acc, n)
               [] n.type = "macro" -> OnMacroBlockCommitted(disk, acc, n)
               [] n.type = "revert" -> OnMicroBlockReverted(disk, acc, n)
    IN  /\ IsUnsealed /\ sub.buf # <<>>
        /\ disk' = r.d /\ acc' = r.a
        /\ sub' = [sub EXCEPT !.buf = Tail(@)]
        /\ UNCHANGED <<node, fresh, missed, troubles>>

-----------------------------------------------------------------------------
(* Sealing *)

\* The account's memory and its subscription go.
Seal ==
    /\ acc.phase = "unsealed" /\ Trouble
    /\ acc' = Sealed
    /\ sub' = NoSubscription
    /\ UNCHANGED <<node, disk, fresh, missed>>

Unseal ==
    /\ acc.phase = "sealed"
    /\ acc' = Opened(disk)
    /\ sub' = handle_subscription_to_chain(chain, disk.epoch + 1)
    /\ missed' = FALSE /\ stale' = EpochTransactions(disk)
    /\ UNCHANGED <<node, disk, fresh, troubles>>

-----------------------------------------------------------------------------
(* The node *)

\* A message for the subscriber.  Readers see the chain as it is when they
\* come to a block: a revert under them is lost on them.
Notify(s, msg) ==
    /\ sub' = notify_subscribers(s, msg)
    /\ missed' = \/ missed
                 \/ s.state = "active" /\ Len(s.buf) >= Buffer
                 \/ s.state = "reader" /\ msg.type = "revert"
                      /\ (s.epoch > msg.epoch \/ s.offset > msg.offset)

HandleRequest ==
    LET r == acc.response
    IN  /\ IsUnsealed /\ r.result = "sent"
        /\ \E synchronized \in BOOLEAN :
             LET h == handle_transaction(mempool, chain, disk.txs[r.tx], synchronized)
             IN  /\ IF synchronized THEN UNCHANGED troubles ELSE Trouble
                 /\ mempool' = h.m
                 /\ acc' = [acc EXCEPT !.response.result = handle_add_tx(h.result)]
        /\ UNCHANGED <<chain, finished, disk, sub, fresh, missed>>

\* From the network.
ReceiveTransaction(tx) ==
    /\ ~contains_tx(mempool, tx)
    /\ mempool' = handle_transaction(mempool, chain, tx, TRUE).m
    /\ mempool' # mempool
    /\ UNCHANGED <<chain, finished, wallet, sub, fresh, missed, troubles>>

\* Whatever block may be the one after which the node restakes: the offset
\* is random.
AfterBlock(m, c, restakes) ==
    LET txs == IF restakes THEN restake_expiring_stakes(m, c, fresh + 1) ELSE {}
    IN  /\ restakes => txs # {} /\ fresh < MaxTxs
        /\ mempool' = FoldSet(LAMBDA tx, r : handle_transaction(r, c, tx, TRUE).m, m, txs)
        /\ fresh' = fresh + Cardinality(txs)

PushMicro(m, txs, restakes) ==
    LET c == [chain EXCEPT !.micros = Append(@, txs)]
    IN  /\ chain' = c
        /\ AfterBlock(prune(m, Inputs(txs), Ids(Outputs(txs))), c, restakes)
        /\ Notify(sub, MicroBlockPrepared(chain.epoch, offset(chain), txs))

IsEpochOpen == chain.epoch < MaxEpoch /\ offset(chain) < MicroBlocks

HasStake == \E o \in Unspent(chain) : o.kind = "stake" /\ o.owner = Me

\* As a leader: with a slashing transaction, if the node has evidence against
\* the account's validator (the module MicroChain) and it is still staked.
CreateMicroBlock ==
    /\ IsEpochOpen /\ mempool.ok
    /\ \E evidence \in {FALSE, MayBeSlashed} :
         LET m == IF evidence THEN push_tx(mempool, confiscate_tx(chain, MaxTxs + 1)) ELSE mempool
         IN  /\ IF evidence THEN HasStake /\ Trouble ELSE UNCHANGED troubles
             /\ IF m.ok THEN \E txs \in create_block(m) : PushMicro(m, txs, FALSE)
                ELSE mempool' = m /\ UNCHANGED <<chain, sub, fresh, missed>>
    /\ UNCHANGED <<finished, wallet>>

\* Another leader's block, of what it has in its mempool.
ReceiveMicroBlock ==
    /\ IsEpochOpen /\ mempool.ok
    /\ \E tx \in Incoming \cup {disk.txs[i] : i \in Logged(disk)}, restakes \in BOOLEAN :
         /\ IsValidBlock(Unspent(chain), {tx}, chain.epoch)
         /\ PushMicro(mempool, {tx}, restakes)
    /\ UNCHANGED <<finished, wallet, troubles>>

PopChain(c) == [c EXCEPT !.micros = Front(@)]

PopMicroBlock ==
    /\ offset(chain) > 0 /\ Trouble /\ mempool.ok
    /\ chain' = PopChain(chain)
    /\ mempool' = pop_micro_block(mempool, Last(chain.micros))
    /\ Notify(sub, MicroBlockReverted(chain))
    /\ UNCHANGED <<finished, wallet, fresh>>

\* apply_macro_block pops the micro blocks one by one.
PopAll ==
    FoldLeft(LAMBDA r, i :
        [c |-> PopChain(r.c), m |-> pop_micro_block(r.m, Last(r.c.micros)),
         msgs |-> Append(r.msgs, MicroBlockReverted(r.c))],
        [c |-> chain, m |-> mempool, msgs |-> <<>>], [i \in 1 .. offset(chain) |-> i])

\* What becomes of a subscriber after several messages, and whether it has
\* missed any.
NotifyAll(s, msgs) ==
    /\ sub' = FoldLeft(notify_subscribers, s, msgs)
    /\ missed' = \/ missed
                 \/ s.state = "active" /\ Len(s.buf) + Len(msgs) > Buffer
                 \/ s.state = "reader"
                      /\ (s.epoch > chain.epoch \/ (s.epoch = chain.epoch /\ s.offset > 0))

\* The macro block has the transactions of the micro blocks of this node, or
\* of others', and may pay an award to this account.
ApplyMacroBlock ==
    /\ chain.epoch < MaxEpoch /\ mempool.ok
    /\ \E award \in BOOLEAN, txs \in {UNION ToSet(chain.micros)} \cup {{tx} : tx \in Incoming} :
         LET bonus == [id |-> 0 - chain.epoch, type |-> "award", ins |-> {}, fee |-> 0,
                       outs |-> {Output(<<0 - chain.epoch, 1>>, "public", Me, 1)}]
             all == IF award THEN txs \cup {bonus} ELSE txs
             ended == [chain EXCEPT !.epoch = @ + 1, !.micros = <<>>,
                                    !.base = Spend(@, all, chain.epoch)]
         IN  /\ offset(chain) = MicroBlocks \/ IsValidBlock(chain.base, txs, chain.epoch)
             /\ txs = UNION ToSet(chain.micros) => offset(chain) = MicroBlocks
             /\ chain' = ended
             /\ finished' = [finished EXCEPT ![chain.epoch] = all]
             /\ mempool' = prune(PopAll.m, Inputs(all), Ids(Outputs(all)))
             /\ NotifyAll(sub, Append(PopAll.msgs, MacroBlockCommitted(chain.epoch, all)))
    /\ UNCHANGED <<wallet, fresh, troubles>>

PollReader ==
    /\ sub.state = "reader"
    /\ sub' = ChainReader_poll(chain, finished, sub)
    /\ sub' # sub
    /\ UNCHANGED <<node, wallet, fresh, missed, troubles>>

-----------------------------------------------------------------------------
Init ==
    /\ chain = [epoch |-> 1, base |-> Genesis, micros |-> <<>>]
    /\ finished = [e \in 1 .. MaxEpoch |-> {}]
    /\ mempool = EmptyPool
    /\ sub = NoSubscription
    /\ disk = [txs |-> [i \in TxIds |-> 0], status |-> [i \in TxIds |-> NoEntry],
               unspent |-> Mine(Genesis), epoch |-> 0]
    /\ acc = Sealed
    /\ fresh = 0 /\ troubles = 0
    /\ missed = FALSE /\ stale = {}

Account ==
    \/ Payment \/ PublicPayment \/ StakeRequest \/ UnstakeRequest \/ CloakAll
    \/ SecurePayment \/ SnowballFailed
    \/ \E is_leader \in BOOLEAN : SnowballSucceeded(is_leader)
    \/ TransactionResponse \/ handle_resend_pending_txs \/ handle_check_pending_utxos
    \/ ChainNotification \/ Seal

Node ==
    \/ HandleRequest
    \/ \E tx \in Incoming : ReceiveTransaction(tx)
    \/ CreateMicroBlock \/ ReceiveMicroBlock \/ PopMicroBlock \/ ApplyMacroBlock
    \/ PollReader

Next ==
    \/ (Account \/ Node) /\ UNCHANGED stale
    \/ Unseal

Spec == Init /\ [][Next]_vars

-----------------------------------------------------------------------------
(* Properties *)

\* Every piece of state has its type; the account's epoch is a finished one.
TypeOK ==
    /\ chain.epoch \in 1 .. MaxEpoch /\ offset(chain) <= MicroBlocks
    /\ acc.phase \in {"sealed", "unsealed"}
    /\ sub.state \in {"none", "reader", "active"} /\ Len(sub.buf) <= Buffer
    /\ Logged(disk) \subseteq 1 .. fresh
    /\ disk.epoch < chain.epoch

\* Whatever transactions, blocks and reverts came in, in whatever order: no
\* assertion of the mempool fails but by a slashing transaction that spends
\* stakes already in it; its indexes are those of its transactions; and no two
\* of these, nor one and the chain, stand in each other's way: the inputs are
\* unspent and the outputs new, each in one transaction only.  This is what
\* validate_transactions asks of the block that the mempool makes, but for the
\* locked stakes, which it checks again on the chain of that moment.
MempoolFitsChain ==
    LET unspent == Unspent(chain)
        pool == mempool.pool
    IN  IF ~mempool.ok THEN \E t \in pool : t.type = "slash"
        ELSE /\ mempool.inputs = UNION {{<<i, t.id>> : i \in t.ins} : t \in pool}
             /\ mempool.outputs = UNION {{<<i, t.id>> : i \in Ids(t.outs)} : t \in pool}
             /\ \A t \in pool : /\ t.ins \subseteq Ids(unspent)
                               /\ Ids(t.outs) \cap Ids(unspent) = {}
             /\ \A s, t \in pool : s # t => /\ s.ins \cap t.ins = {}
                                            /\ Ids(s.outs) \cap Ids(t.outs) = {}

IsCaughtUp ==
    /\ IsUnsealed /\ ~missed
    /\ sub.state = "active" /\ sub.buf = <<>>

\* An account that has read all its messages has exactly the unspent outputs
\* that it has in the chain: after forks, macro blocks that repeat the micro
\* blocks, and restarts of the account in the middle of an epoch.
FollowsChain ==
    IsCaughtUp => Ids(iter_unspent(disk, acc)) = Ids(Mine(Unspent(chain)))

\* What an account that has read all its messages tells its user is true: a
\* prepared transaction is in the micro block at that offset, a committed one
\* in a macro block.  Of what was prepared when the account was sealed this
\* is not so: the block may be reverted meanwhile, and finalize_epoch commits
\* it all the same.
HistoryIsTrue ==
    IsCaughtUp => \A i \in Logged(disk) \ stale :
        LET tx == disk.txs[i]
        IN  /\ disk.status[i].s = "Prepared" =>
                  /\ disk.status[i].offset < offset(chain)
                  /\ tx \in chain.micros[disk.status[i].offset + 1]
            /\ disk.status[i] = Committed => \E e \in DOMAIN finished : tx \in finished[e]

\* No message, request or timer makes an assertion of the account fail: no
\* output is created that it already has, no input of a payment or of a
\* snowball is locked twice, and what a snowball unlocks is still locked.  The
\* exception is a stake: available_stake_outputs does not leave out the locked
\* ones, so a second unstaking of them before the first is in a block fails
\* the assertion of lock_input.
AccountIsConsistent == TypeOK /\ (~missed => acc.failed \subseteq {"stake"})
=============================================================================
