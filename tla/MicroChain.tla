----------------------------- MODULE MicroChain -----------------------------
(***************************************************************************)
(* The micro blocks of ONE epoch on several nodes: the leader of a view    *)
(* creates a block, a supermajority of timeouts changes the view, forks    *)
(* are resolved by rolling back, two blocks of a leader for one view are   *)
(* evidence to slash it, and nodes that disagree ask each other for their  *)
(* blocks.  node/src/lib.rs, node/src/loader.rs, consensus/src/            *)
(* optimistic.rs, blockchain/src/view_changes.rs, blockchain/src/          *)
(* slashing.rs.                                                            *)
(*                                                                         *)
(* A step is one run of a node's event handler.  Handlers are operators    *)
(* from a node's state to [s, out, ok]: its new state, what it sends, and  *)
(* whether it returned Ok.  The network is the set of everything sent.     *)
(* The hash of a block is its path from the macro block that began the     *)
(* epoch, so Len(path) is an offset and a path is a last_block_hash.       *)
(***************************************************************************)
EXTENDS Supermajority, SequencesExt

CONSTANTS
    Faulty,             \* validators that may sign and send anything
    MicroBlocks,        \* cfg.micro_blocks_in_epoch
    Winner(_, _, _),    \* the leader that a random, a view and a group select
    MaxView,            \* bound: the last view of an offset
    MaxVariants,        \* bound: how many blocks are signed for a view
    FaultyVariants,     \* bound: how many of them by a faulty leader
    Accuses(_),         \* bound: which slashing transactions it makes
    Forgetful,          \* bound: the nodes that restart or pop a block
    MaxForgets          \* bound: how often they do

Honest == Validators \ Faulty
Views == 0 .. MaxView

ASSUME MicroChainAssumption ==
    /\ Faulty \subseteq Validators
    /\ Forgetful \subseteq Validators
    /\ MicroBlocks \in Nat \ {0}
    /\ MaxView \in Nat /\ MaxForgets \in Nat
    /\ MaxVariants \in Nat \ {0} /\ FaultyVariants \in 1 .. MaxVariants

VARIABLES
    node,       \* node[n]: the state of the honest node n
    net,        \* everything that honest nodes have sent
    macro,      \* {} or the one path that the macro block has finalized
    forgets     \* history: how often n lost its view to a crash or a pop

vars == <<node, net, macro, forgets>>

-----------------------------------------------------------------------------
(* Blocks, leaders and proofs *)

\* A slashing transaction: whose stake it takes (header.pkey of the two
\* blocks in its SlashingProof), whose signature the two blocks have, the
\* offset and the view that they are for, and whether they are two: "sound" is
\* that they have one epoch, offset, parent and view, and are not the same.
SlashingTransaction ==
    [cheater : Validators, signer : Validators, offset : 0 .. MicroBlocks,
     vc : Views, sound : BOOLEAN]

\* A block is the last entry of its path: the view it was created in, a
\* number that tells apart the blocks of one leader and view (transactions,
\* timestamp), and its slashing transactions.
Entry ==
    [vc : Views, var : 1 .. MaxVariants, slash : SUBSET SlashingTransaction]

Prefix(path, offset) == SubSeq(path, 1, offset)

ChainInfo(path, vc) == [path |-> path, vc |-> vc]

\* No signatures, and signatures that are not all of one ChainInfo.
NoProof == [path |-> <<>>, vc |-> MaxView + 1]
BadProof == [path |-> <<>>, vc |-> MaxView + 2]

\* The validators after the confiscations of a chain.
validators(path) ==
    {v \in Validators :
        \A i \in 1 .. Len(path) : \A tx \in path[i].slash : tx.cheater # v}

\* The random of a block is a VRF of its leader over the previous random and
\* the view: two variants of a block have the same one.
select_leader(path, vc) ==
    Winner([i \in 1 .. Len(path) |-> path[i].vc], vc, validators(path))

\* A micro block as it is sent, with the proof of its view change.
Block(path, proof) ==
    [type |-> "block", path |-> path,
     pkey |-> select_leader(Front(path), Last(path).vc), proof |-> proof]

\* The proof of a view is that the one before it has been given up.
ProofFor(path, vc) == IF vc = 0 THEN NoProof ELSE ChainInfo(path, vc - 1)

\* The proof in a block that was applied.
ProofOf(path) == ProofFor(Front(path), Last(path).vc)

\* To everyone, or to the author of a late block; the two are not told apart.
SealedProof(info, proof, from) ==
    [type |-> "proof", info |-> info, proof |-> proof, from |-> from]

Vote(n, info) == [type |-> "vote", from |-> n, info |-> info]

\* "from" is to send its blocks from an offset on to "to".  A request and its
\* response are one message; what the response holds is read from the chain
\* of "from" when it arrives.  (The blocks that "from" had before, and has
\* left since, can still arrive one by one as the broadcast ones they are.)
Feed(from, to, start) ==
    [type |-> "feed", from |-> from, to |-> to, start |-> start]

\* request_history_from: all blocks of the epoch.
Request(n, from) == Feed(from, n, 0)

-----------------------------------------------------------------------------
(* The state of a node *)

\* A SlashingProof is two blocks, here as the set of their paths.
NoEvidence == {}

Fresh(chain, done) ==
    [up |-> TRUE, done |-> done, chain |-> chain, vc |-> 0, proof |-> NoProof,
     votes |-> {}, cheats |-> [v \in Validators |-> NoEvidence]]

Done(s, out) == [s |-> s, out |-> out, ok |-> TRUE]
Failed(s) == [s |-> s, out |-> {}, ok |-> FALSE]

offset(s) == Len(s.chain)
is_epoch_full(s) == offset(s) = MicroBlocks

leader(s) == select_leader(s.chain, s.vc)

\* MicroBlockValidator: it has a collector of view changes and a timer.
IsValidating(n, s) ==
    /\ s.up /\ ~s.done /\ ~is_epoch_full(s)
    /\ n \in validators(s.chain)

\* Mutant: the collector survives a change of the chain.
KeepCollector(s) == s

\* Applying or reverting a block makes a new collector.
update_validation_status(s) == [s EXCEPT !.votes = {}]

\* pop_micro_block until the chain has that many blocks.
PopTo(s, count) ==
    update_validation_status(
        [s EXCEPT !.chain = Prefix(@, count), !.vc = 0, !.proof = NoProof])

-----------------------------------------------------------------------------
(* View changes *)

\* The multi-signature of the collected messages.
ViewChangeProof(votes) ==
    IF \E info \in {v.info : v \in votes} : \A v \in votes : v.info = info
    THEN (CHOOSE v \in votes : TRUE).info
    ELSE BadProof

SetViewChange(s, vc, proof) == [s EXCEPT !.vc = vc, !.proof = proof]

\* handle_message has found that the message is about the current view.
Collect(n, s, m) ==
    LET votes == IF m.from \in {v.from : v \in s.votes} THEN s.votes
                 ELSE s.votes \cup {m}
    IN  IF Quorum({v.from : v \in votes})
        THEN Done([SetViewChange(s, s.vc + 1, ViewChangeProof(votes))
                      EXCEPT !.votes = {}], {})
        ELSE Done([s EXCEPT !.votes = votes], {})

\* A message about another chain or about a later view starts a download.
handle_view_change_message(n, s, m) ==
    IF ~IsValidating(n, s) THEN Done(s, {})
    ELSE IF m.from \notin validators(s.chain) THEN Failed(s)
    ELSE IF Len(m.info.path) < offset(s) THEN Failed(s)
    ELSE IF m.info.path # s.chain THEN Done(s, {Request(n, m.from)})
    ELSE IF m.info.vc < s.vc THEN Failed(s)
    ELSE IF m.info.vc > s.vc THEN Done(s, {Request(n, m.from)})
    ELSE Collect(n, s, m)

\* The block did not come in time: vote, and repeat the last proof.
handle_micro_block_viewchange_timer(n, s) ==
    LET vote == Vote(n, ChainInfo(s.chain, s.vc))
        r == handle_view_change_message(n, s, vote)
        info == ChainInfo(r.s.chain, r.s.vc - 1)
    IN  Done(r.s, r.out \cup {vote}
                \cup IF r.s.proof = NoProof THEN {}
                     ELSE {SealedProof(info, r.s.proof, n)})

-----------------------------------------------------------------------------
(* Forks *)

Canceled(s, out) == [s |-> s, out |-> out, res |-> "canceled"]

\* Mutant: a proof of an older view than the local one is good enough.
RollbackToAnyView(n, s, from, info, proof) ==
    LET prefix == Prefix(s.chain, Len(info.path))
    IN  IF s.done \/ Len(info.path) > offset(s) \/ info.path # prefix \/ proof # info
        THEN Canceled(s, {})
        ELSE [s |-> SetViewChange(PopTo(s, Len(info.path)), info.vc + 1, proof),
              out |-> {}, res |-> "ok"]

\* Follow a proof that a supermajority gave up a view of this chain.
try_rollback(n, s, from, info, proof) ==
    LET count == Len(info.path)
        local_vc == IF count < offset(s) THEN s.chain[count + 1].vc ELSE s.vc
    IN  IF s.done \/ count > offset(s) \/ info.vc < local_vc THEN Canceled(s, {})
        ELSE IF info.path # Prefix(s.chain, count) THEN Canceled(s, {Request(n, from)})
        ELSE IF proof # info THEN [s |-> s, out |-> {}, res |-> "error"]
        ELSE [s |-> update_validation_status(
                       SetViewChange(PopTo(s, count), info.vc + 1, proof)),
              out |-> {}, res |-> "ok"]

\* A block for an offset that this chain already has.
resolve_fork(n, s, b) ==
    LET count == Len(b.path) - 1
        local == Prefix(s.chain, count + 1)
        vc == Last(b.path).vc
    IN  IF b.path = local THEN Canceled(s, {})
        ELSE IF vc = Last(local).vc
        THEN Canceled([s EXCEPT !.cheats[b.pkey] = {b.path, local}], {})
        ELSE IF vc < Last(local).vc THEN Canceled(s, {Feed(n, b.pkey, count)})
        ELSE IF b.proof = NoProof THEN [s |-> s, out |-> {}, res |-> "error"]
        ELSE try_rollback(n, s, b.pkey, ChainInfo(Front(b.path), vc - 1), b.proof)

-----------------------------------------------------------------------------
(* Slashing *)

\* Two blocks of one view.
SameView(p, q) == Front(p) = Front(q) /\ Last(p).vc = Last(q).vc

\* Mutant: the two blocks of a proof are not compared.
AnyTwoBlocks(chain, tx) ==
    /\ tx.offset <= Len(chain)
    /\ select_leader(Prefix(chain, tx.offset), tx.vc) = tx.signer

\* SlashingProof::validate on a chain: two blocks for one view, signed by its
\* leader.  The assertion on the offset in election_result_by_offset is among
\* its ways to fail.
EvidenceIsValid(chain, tx) ==
    /\ tx.sound
    /\ tx.offset <= Len(chain)
    /\ select_leader(Prefix(chain, tx.offset), tx.vc) = tx.signer

\* confiscate_tx returns Ok: there is a stake to take, and somebody left.
CanConfiscate(chain, tx) ==
    /\ tx.cheater \in validators(chain)
    /\ validators(chain) # {tx.cheater}
    /\ EvidenceIsValid(chain, tx)

\* The slashing transactions of a block; a stake is an input of one of them.
SlashingIsValid(chain, txs) ==
    /\ \A tx \in txs : CanConfiscate(chain, tx)
    /\ \A tx1, tx2 \in txs : tx1.cheater = tx2.cheater => tx1 = tx2

Cheaters(s) == {v \in validators(s.chain) : s.cheats[v] # NoEvidence}

\* The transaction against v, from the evidence e: blocks that v has signed.
Confiscate(v, e) ==
    LET p == CHOOSE q \in e : TRUE
    IN  [cheater |-> v, signer |-> v, offset |-> Len(p) - 1, vc |-> Last(p).vc,
         sound |-> \A q \in e : SameView(p, q)]

Confiscated(s) == {Confiscate(v, s.cheats[v]) : v \in Cheaters(s)}

\* confiscate_tx fails, or its assertion does; either way the node panics:
\* the leader's timer has been used up and its next poll is an unwrap of Err.
Panics(s) == \E tx \in Confiscated(s) : ~CanConfiscate(s.chain, tx)

\* The block that the leader makes, as its var-th for this view.
NewBlock(s, var) ==
    Block(Append(s.chain, [vc |-> s.vc, var |-> var, slash |-> Confiscated(s)]),
          s.proof)

-----------------------------------------------------------------------------
(* Blocks *)

\* The checks of a block against the chain that it extends.
validate_micro_block(s, b) ==
    LET vc == Last(b.path).vc
    IN  IF is_epoch_full(s) THEN "ExpectedMacroBlock"
        ELSE IF Front(b.path) # s.chain THEN "InvalidPreviousHash"
        ELSE IF vc < s.vc THEN "InvalidViewChange"
        ELSE IF vc > 0 /\ b.proof # ChainInfo(s.chain, vc - 1) THEN "InvalidProof"
        ELSE IF select_leader(s.chain, vc) # b.pkey THEN "DifferentPublicKey"
        ELSE IF ~SlashingIsValid(s.chain, Last(b.path).slash) THEN "InvalidSlashing"
        ELSE "ok"

PushMicro(s, b) ==
    update_validation_status(
        [s EXCEPT !.chain = b.path, !.vc = 0, !.proof = NoProof])

\* apply_micro_block, and what handle_micro_block does when it fails.
apply_micro_block(n, s, b) ==
    LET r == validate_micro_block(s, b)
        author == select_leader(s.chain, Last(b.path).vc)
    IN  CASE r = "ok" -> Done(PushMicro(s, b), {})
          [] r = "InvalidPreviousHash" -> Done(s, {Request(n, author)})
          [] r = "InvalidViewChange" ->
                Done(s, {SealedProof(ChainInfo(s.chain, s.vc - 1), s.proof, n)})
          [] OTHER -> Done(s, {})

handle_micro_block(n, s, b) ==
    LET count == Len(b.path) - 1
        r == resolve_fork(n, s, b)
    IN  IF s.done \/ count > offset(s) THEN Done(s, {})
        ELSE IF select_leader(Prefix(s.chain, count), Last(b.path).vc) # b.pkey THEN Failed(s)
        ELSE IF count = offset(s) THEN apply_micro_block(n, s, b)
        ELSE IF r.res = "canceled" THEN Done(r.s, r.out)
        ELSE IF r.res = "error" THEN Failed(s)
        ELSE LET applied == apply_micro_block(n, r.s, b)
             IN  Done(applied.s, r.out \cup applied.out)

\* The macro block of the epoch replaces the micro blocks; evidence goes.
apply_macro_block(s) == IF s.done THEN s ELSE Fresh(<<>>, TRUE)

\* send_blocks at the peer: the macro block of an epoch that is over for it,
\* or its micro blocks from an offset on.  handle_response_blocks here: block
\* by block, until one fails.
handle_response_blocks(n, s, peer, start) ==
    IF peer.done THEN Done(apply_macro_block(s), {})
    ELSE FoldLeft(LAMBDA r, i :
            IF ~r.ok THEN r
            ELSE LET p == Prefix(peer.chain, i)
                     h == handle_micro_block(n, r.s, Block(p, ProofOf(p)))
                 IN  [h EXCEPT !.out = @ \cup r.out],
            Done(s, {}), [i \in 1 .. offset(peer) - start |-> start + i])

-----------------------------------------------------------------------------
(* Steps *)

Init ==
    /\ node = [n \in Honest |-> Fresh(<<>>, FALSE)]
    /\ net = {}
    /\ macro = {}
    /\ forgets = [n \in Honest |-> 0]

\* What need not be kept: blocks for a faulty node, blocks asked of one (it
\* can also broadcast them), and proofs that faulty nodes can repeat, in
\* anybody's name, as soon as there are any (FaultyProofs).
IsKept(m) ==
    /\ m.type = "feed" => m.to \in Honest /\ m.from \in Honest \ {m.to}
    /\ m.type = "proof" => Faulty = {}

Become(n, r) ==
    /\ node' = [node EXCEPT ![n] = r.s]
    /\ net' = net \cup {m \in r.out : IsKept(m)}
    /\ UNCHANGED <<macro, forgets>>

\* How many blocks with this parent and view have been signed before.
Signed(path, vc) ==
    {m \in net : m.type = "block" /\ Front(m.path) = path /\ Last(m.path).vc = vc}

\* The VDF puzzle of the current leader is solved.
CreateMicroBlock(n) ==
    LET s == node[n]
        b == NewBlock(s, Cardinality(Signed(s.chain, s.vc)) + 1)
    IN  /\ IsValidating(n, s) /\ leader(s) = n
        /\ Cardinality(Signed(s.chain, s.vc)) < MaxVariants
        /\ IF Panics(s) THEN Become(n, Done([s EXCEPT !.up = FALSE], {}))
           ELSE Become(n, Done(PushMicro(s, b), {b}))

Timeout(n) ==
    /\ IsValidating(n, node[n]) /\ leader(node[n]) # n
    /\ node[n].vc < MaxView
    /\ Become(n, handle_micro_block_viewchange_timer(n, node[n]))

HandleBlock(n, m) ==
    /\ node[n].up /\ m.type = "block"
    /\ Become(n, handle_micro_block(n, node[n], m))

HandleVote(n, m) ==
    /\ node[n].up /\ m.type = "vote" /\ m.from # n
    /\ Become(n, handle_view_change_message(n, node[n], m))

HandleProof(n, m) ==
    /\ node[n].up /\ m.type = "proof" /\ m.from # n
    /\ Become(n, try_rollback(n, node[n], m.from, m.info, m.proof))

HandleFeed(n, m) ==
    /\ node[n].up /\ m.type = "feed" /\ m.to = n
    /\ node[m.from].up
    /\ Become(n, handle_response_blocks(n, node[n], node[m.from], m.start))

\* The validators agree on the macro block that ends a full epoch: the
\* module Consensus, seen from here.
DecideMacroBlock ==
    /\ macro = {}
    /\ \E n \in Honest :
         /\ is_epoch_full(node[n])
         /\ Quorum(Faulty \cup {v \in Honest : node[v].chain = node[n].chain
                                                /\ node[v].up})
         /\ macro' = {node[n].chain}
    /\ UNCHANGED <<node, net, forgets>>

HandleMacroBlock(n) ==
    /\ node[n].up /\ macro # {} /\ ~node[n].done
    /\ Become(n, Done(apply_macro_block(node[n]), {}))

Forgotten == FoldFunction(+, 0, forgets)

\* The chain is on the disk; the view, the proof, the collected votes and
\* the evidence are not.
Restart(n) ==
    /\ n \in Forgetful /\ Forgotten < MaxForgets
    /\ node' = [node EXCEPT ![n] = Fresh(node[n].chain, node[n].done)]
    /\ forgets' = [forgets EXCEPT ![n] = @ + 1]
    /\ UNCHANGED <<net, macro>>

\* The operator's request to revert the latest block.
PopMicroBlock(n) ==
    /\ n \in Forgetful /\ Forgotten < MaxForgets
    /\ node[n].up /\ offset(node[n]) > 0
    /\ node' = [node EXCEPT ![n] = PopTo(@, offset(@) - 1)]
    /\ forgets' = [forgets EXCEPT ![n] = @ + 1]
    /\ UNCHANGED <<net, macro>>

\* What faulty validators can build on: the blocks of honest nodes' chains
\* and below the blocks that honest leaders have signed.
KnownPaths ==
    LET paths == {node[n].chain : n \in Honest}
                   \cup {m.path : m \in {b \in net : b.type = "block"}}
    IN  UNION {{Prefix(p, i) : i \in 0 .. Len(p)} : p \in paths}

Provable(info) ==
    Quorum(Faulty \cup {m.from : m \in {v \in net : v.type = "vote" /\ v.info = info}})

KnownInfos == {ChainInfo(p, vc) : p \in KnownPaths, vc \in 0 .. MaxView - 1}

\* The views that faulty validators lead.
FaultyViews ==
    {i \in {ChainInfo(p, vc) : p \in KnownPaths, vc \in Views} :
        Len(i.path) < MicroBlocks /\ select_leader(i.path, i.vc) \in Faulty}

BlocksOf(v) == {m \in net : m.type = "block" /\ m.pkey = v}

\* The transaction's proof is two blocks that its signer has sent.
IsShown(tx) ==
    \E m1, m2 \in BlocksOf(tx.signer) :
        /\ tx.cheater = m1.pkey
        /\ tx.offset = Len(m1.path) - 1 /\ tx.vc = Last(m1.path).vc
        /\ tx.sound = (m1.path # m2.path /\ SameView(m1.path, m2.path))

\* What a faulty leader can accuse others of.  Faulty validators sign two
\* blocks whenever it helps, and in these they may name anyone.  (A proof for
\* an offset that the chain does not have yet, or of blocks with two pkeys,
\* fails an assertion of the node that validates it; no block here has one.)
Accusations(path) ==
    {tx \in SlashingTransaction :
        /\ Accuses(tx) /\ tx.offset <= Len(path)
        /\ IF tx.signer \in Faulty THEN tx.sound ELSE IsShown(tx)}

\* Everything that faulty validators can send, at any moment: blocks on top of
\* the known ones, two for one view, with the proof they need or without one
\* and with a slashing transaction or without one; votes; and proofs that they
\* have put together from others' votes.
FaultyBlocks ==
    UNION {{Block(Append(i.path, [vc |-> i.vc, var |-> var, slash |-> slash]), proof) :
                var \in 1 .. FaultyVariants,
                slash \in {{}} \cup {{tx} : tx \in Accusations(i.path)},
                proof \in {NoProof} \cup {x \in {ProofFor(i.path, i.vc)} : Provable(x)}} :
           i \in FaultyViews}

FaultyVotes == {Vote(f, info) : f \in Faulty, info \in KnownInfos}

\* The sender that an AddressedViewChangeProof names is not checked.
FaultyProofs ==
    {SealedProof(info, info, v) :
        v \in {x \in Validators : Faulty # {}},
        info \in {i \in KnownInfos : Provable(i)}}

Step(n) ==
    \/ CreateMicroBlock(n)
    \/ Timeout(n)
    \/ \E m \in net \cup FaultyBlocks : HandleBlock(n, m)
    \/ \E m \in net \cup FaultyVotes : HandleVote(n, m)
    \/ \E m \in net \cup FaultyProofs : HandleProof(n, m)
    \/ \E m \in net : HandleFeed(n, m)
    \/ HandleMacroBlock(n)
    \/ Restart(n)
    \/ PopMicroBlock(n)

Next ==
    \/ \E n \in Honest : Step(n)
    \/ DecideMacroBlock

Spec == Init /\ [][Next]_vars

-----------------------------------------------------------------------------
(* Properties *)

\* Every piece of state has its type, and an epoch no more than its micro blocks.
TypeOK ==
    /\ \A n \in Honest :
         LET s == node[n]
         IN  /\ s.up \in BOOLEAN /\ s.done \in BOOLEAN
             /\ s.chain \in Seq(Entry) /\ offset(s) <= MicroBlocks
             /\ s.vc \in Views
             /\ \A m \in s.votes : m.type = "vote" /\ m.from \in Validators
             /\ \A v \in Validators : s.cheats[v] \subseteq Seq(Entry)
    /\ \A m \in net : m.type \in {"block", "vote", "proof", "feed"}
    /\ forgets \in [Honest -> 0 .. MaxForgets]

\* Whatever blocks, votes, proofs and downloads came before, in whatever
\* order: the block that a leader is about to create is valid on its own
\* chain, with a proof made of signatures for that very view.  It is the
\* expect("created a valid block") of create_micro_block, which is reached
\* unless a slashing transaction fails before (LeaderNeverPanics).
CreatedBlockIsValid ==
    /\ TypeOK
    /\ \A n \in Honest :
        IsValidating(n, node[n]) /\ leader(node[n]) = n /\ ~Panics(node[n])
            => validate_micro_block(node[n], NewBlock(node[n], 1)) = "ok"

\* The views of a chain, offset by offset, and the node's current one.
Weight(s) == [i \in 1 .. offset(s) |-> s.chain[i].vc] \o <<s.vc>>

\* Lexicographically greater, or an extension.
Heavier(v, w) ==
    \/ \E i \in 1 .. Len(w) :
         /\ i <= Len(v) /\ v[i] > w[i]
         /\ \A j \in 1 .. i - 1 : v[j] = w[j]
    \/ Len(v) > Len(w) /\ SubSeq(v, 1, Len(w)) = w

\* Forks are resolved in one direction only.  Each step of a node leaves its
\* views as they are or makes them heavier, so nodes that exchange blocks,
\* proofs and downloads never go back to a fork they have left and two of
\* them never swap chains for ever.  A crash and the operator's pop, which
\* forget the view, are the exceptions; a macro block ends the epoch.
ForkChoiceGrows ==
    [][\A n \in Honest :
          \/ forgets'[n] # forgets[n]
          \/ node'[n].done
          \/ Weight(node'[n]) = Weight(node[n])
          \/ Heavier(Weight(node'[n]), Weight(node[n]))]_vars

\* Nobody is punished for blocks that an honest validator has signed, one for
\* a view.  A slashing transaction on an honest node's chain, in whoever's
\* block it came, rests on two blocks of one view; if an honest validator has
\* signed them, then it is the one punished and it has lost its view before:
\* after a restart or a pop it may sign a second block for a view that it has
\* already led.  (Two blocks that a faulty validator signs may name another
\* pkey, and nothing compares it with the signer: whom they punish is open.)
OnlyCheatersAreSlashed ==
    \A n \in Honest : \A i \in 1 .. offset(node[n]) :
        \A tx \in node[n].chain[i].slash :
            tx.signer \in Honest => tx.cheater = tx.signer /\ forgets[tx.signer] > 0

\* create_micro_block keeps the evidence "for rollback case": the leader can
\* still make its block with the evidence it has collected.
LeaderNeverPanics == \A n \in Honest : node[n].up
=============================================================================
