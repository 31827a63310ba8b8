---------------------------- MODULE Replication ----------------------------
(***************************************************************************)
(* Block replication.  A node that has no upstream picks one of the peers  *)
(* it is linked to, opens a substream to it and subscribes to its blocks   *)
(* (node/src/replication); the substreams are those of the network's       *)
(* replication protocol (network/src/replication).                         *)
(*                                                                         *)
(* A substream is a pipe: its two ends are the nodes whose handlers still  *)
(* forward it.  A node that drops its channel ends the forwarding, and the *)
(* other end learns of it later (EndOfStream).  Clocks are left out: a     *)
(* timer may fire when the stream has come to rest, or too early at the    *)
(* cost of a trouble.                                                      *)
(*                                                                         *)
(* Only the epoch and the micro blocks of the current epoch of a chain     *)
(* matter here.  A micro block is the number of the branch that it was     *)
(* made on; that determines all blocks before it, too.                     *)
(***************************************************************************)
EXTENDS Integers, FiniteSets, Sequences, SequencesExt

CONSTANTS
    Nodes,
    Validators,              \* nodes that make blocks, or get them elsewhere
    Fed,                     \* nodes that have an upstream elsewhere
    micro_blocks_in_epoch,
    MAX_BLOCKS_PER_BATCH,
    BUFFER_SIZE,             \* of a channel
    Ids,                     \* names of pipes
    MaxEpoch,                \* bound: epochs
    MaxForks,                \* bound: rollbacks
    MaxTroubles              \* bound: lost links, failures, early timers, ...

ASSUME ReplicationAssumption ==
    /\ IsFiniteSet(Nodes) /\ Validators \subseteq Nodes /\ Fed \subseteq Nodes
    /\ {micro_blocks_in_epoch, MAX_BLOCKS_PER_BATCH, BUFFER_SIZE} \subseteq Nat \ {0}
    /\ {MaxEpoch, MaxForks, MaxTroubles} \subseteq Nat
    /\ Ids \subseteq Nat \ {0}

VARIABLES
    node,       \* node[n]: the chain and the peers of node n
    net,        \* the links and substreams between nodes
    forks,      \* how many rollbacks there were
    troubles    \* how many troubles there were

vars == <<node, net, forks, troubles>>

Others(n) == Nodes \ {n}

-----------------------------------------------------------------------------
(* Chains and blocks *)

Block(kind, epoch, offset, branch, previous) ==
    [kind |-> kind, epoch |-> epoch, offset |-> offset, branch |-> branch,
     previous |-> previous]

\* The branch of the block before an offset; -1 is the macro block.
Before(c, offset) == IF offset = 0 THEN -1 ELSE c.micros[offset]

MicroBlockAt(c, offset) ==
    Block("micro", c.epoch, offset, c.micros[offset + 1], Before(c, offset))
MacroBlockOf(epoch) == Block("macro", epoch, 0, 0, 0)

Position(c) == [epoch |-> c.epoch, offset |-> Len(c.micros)]

IsFull(c) == Len(c.micros) >= micro_blocks_in_epoch

\* Blocks from a position on, in the order of the database: past epochs have
\* nothing but the macro block, behind every offset.
blocks_starting(c, p) ==
    LET first == IF p.epoch < c.epoch THEN 0 ELSE p.offset
    IN  [i \in 1 .. c.epoch - p.epoch |-> MacroBlockOf(p.epoch + i - 1)]
          \o IF p.epoch > c.epoch THEN <<>>
             ELSE [i \in 1 .. Len(c.micros) - first |-> MicroBlockAt(c, first + i - 1)]

-----------------------------------------------------------------------------
(* Substreams.  An operator takes and returns a state s of node and net.   *)

Here == [node |-> node, net |-> net]

PipeIds == Ids \cup {0}       \* 0: no pipe
NoPipe == [from |-> 0, to |-> 0, ends |-> {}, toFrom |-> <<>>, toTo |-> <<>>]

\* A node drops its channel: its handler stops forwarding.
Close(s, id, n) == IF id = 0 THEN s ELSE [s EXCEPT !.net.pipe[id].ends = @ \ {n}]

\* So do the nodes gone, for all these pipes.
Cut(pipe, ids, gone) ==
    [id \in PipeIds |-> IF id \in ids THEN [pipe[id] EXCEPT !.ends = @ \ gone] ELSE pipe[id]]

\* What has come in for a node.
Inbox(s, id, n) ==
    LET p == s.net.pipe[id] IN IF p.from = n THEN p.toFrom ELSE p.toTo

SetInbox(s, id, n, q) ==
    IF s.net.pipe[id].from = n THEN [s EXCEPT !.net.pipe[id].toFrom = q]
                               ELSE [s EXCEPT !.net.pipe[id].toTo = q]

IsOpen(s, id, n) == n \in s.net.pipe[id].ends
Other(s, id, n) ==
    LET p == s.net.pipe[id] IN IF p.from = n THEN p.to ELSE p.from

\* A message that nobody will read is dropped.
Send(s, id, n, msg) ==
    LET m == Other(s, id, n)
    IN  IF IsOpen(s, id, m) THEN SetInbox(s, id, m, Append(Inbox(s, id, m), msg)) ELSE s

HasRoom(s, id, n) == Len(Inbox(s, id, Other(s, id, n))) < BUFFER_SIZE

Event(type, peer, id) == [type |-> type, peer |-> peer, id |-> id]
Notify(s, n, e) == [s EXCEPT !.node[n].events = Append(@, e)]

-----------------------------------------------------------------------------
(* Peers *)

PeerStates == {"Unknown", "Registered", "Connecting", "Connected", "Accepted",
               "Receiving", "Sending", "Failed"}
Peer(st, id, epoch, offset) == [st |-> st, id |-> id, epoch |-> epoch, offset |-> offset]
Unknown == Peer("Unknown", 0, 0, 0)
Registered == Peer("Registered", 0, 0, 0)

is_upstream(p) == p.st \in {"Connecting", "Connected", "Receiving"}

\* A peer takes a new state; the channel that it had is dropped.
Replace(s, n, m, p) ==
    LET old == s.node[n].peer[m].id
    IN  [Close(s, IF old = p.id THEN 0 ELSE old, n) EXCEPT !.node[n].peer[m] = p]

disconnected(s, n, m) == Replace(s, n, m, Registered)
Fail(s, n, m) == Replace(s, n, m, Peer("Failed", 0, 0, 0))
Panic(s, n) == [s EXCEPT !.node[n].panicked = TRUE]

\* connecting, and replication_connect: the handler drops its substream and
\* asks for another one.
Connect(s, n, m) ==
    LET old == {id \in Ids : s.net.pipe[id].from = n /\ s.net.pipe[id].to = m}
    IN  [s EXCEPT !.net.pipe = Cut(@, old, {n}),
                  !.node[n].peer[m] = Peer("Connecting", 0, 0, 0),
                  !.net.dialing = @ \cup IF {n, m} \in s.net.links THEN {<<n, m>>} ELSE {}]

connected(s, n, m, id) ==
    IF s.node[n].peer[m].st # "Connecting" THEN Close(disconnected(s, n, m), id, n)
    ELSE IF ~IsOpen(s, id, n) THEN disconnected(s, n, m)
    ELSE LET c == Position(s.node[n])
         IN  [Send(s, id, n, [type |-> "Subscribe", epoch |-> c.epoch, offset |-> c.offset])
                EXCEPT !.node[n].peer[m] = Peer("Connected", id, 0, 0)]

\* A peer that is anything but Registered is rejected.
accepted(s, n, m, id) ==
    IF s.node[n].peer[m].st = "Registered"
    THEN Replace(s, n, m, Peer("Accepted", id, 0, 0))
    ELSE Close(s, id, n)

\* Replication::poll, the events of the network.
HandleEvent(s, n, e) ==
    LET m == e.peer
        known == s.node[n].peer[m].st # "Unknown"
    IN  IF (e.type = "Registered") = known THEN Panic(s, n)
        ELSE CASE e.type = "Registered" -> Replace(s, n, m, Registered)
               [] e.type = "Unregistered" -> Replace(s, n, m, Unknown)
               [] e.type = "Connected" -> connected(s, n, m, e.id)
               [] e.type = "Accepted" -> accepted(s, n, m, e.id)
               [] e.type = "ConnectionFailed" -> disconnected(s, n, m)

HandleEvents(s, n) ==
    FoldLeft(LAMBDA t, e : HandleEvent(t, n, e), [s EXCEPT !.node[n].events = <<>>],
             s.node[n].events)

-----------------------------------------------------------------------------
(* Sending blocks *)

\* The position after a block has been sent: the last micro block is taken
\* for the end of the epoch.
After(b) ==
    IF b.kind = "macro" \/ b.offset + 1 >= micro_blocks_in_epoch
    THEN [epoch |-> b.epoch + 1, offset |-> 0]
    ELSE [epoch |-> b.epoch, offset |-> b.offset + 1]

\* The assertions on a block that is sent at position p.
Covers(p, b) == b.epoch = p.epoch /\ (b.kind = "macro" \/ b.offset = p.offset)

\* Mutant: the position moves on although the channel is full.
SendOrLose(s, n, m, b) ==
    LET p == s.node[n].peer[m]
        to == After(b)
        sent == IF HasRoom(s, p.id, n) THEN Send(s, p.id, n, [type |-> "Block", block |-> b])
                                       ELSE s
    IN  [sent EXCEPT !.node[n].peer[m] = Peer("Sending", p.id, to.epoch, to.offset)]

SendBlock(s, n, m, b) ==
    LET p == s.node[n].peer[m]
        to == After(b)
    IN  IF ~Covers(p, b) THEN Panic(s, n)
        ELSE IF ~IsOpen(s, p.id, n) \/ ~HasRoom(s, p.id, n) THEN s
        ELSE [Send(s, p.id, n, [type |-> "Block", block |-> b])
                EXCEPT !.node[n].peer[m] = Peer("Sending", p.id, to.epoch, to.offset)]

SendNext(r, n, m, b) ==
    LET t == SendBlock(r.s, n, m, b) IN IF r.stop THEN r ELSE [s |-> t, stop |-> t = r.s]

\* send_blocks: until there were enough of them, or the channel is full.
send_blocks(s, n, m, blocks) ==
    FoldLeft(LAMBDA r, b : SendNext(r, n, m, b), [s |-> s, stop |-> FALSE],
             SubSeq(blocks, 1, IF Len(blocks) < MAX_BLOCKS_PER_BATCH
                               THEN Len(blocks) ELSE MAX_BLOCKS_PER_BATCH)).s

SendIfNext(s, n, m, b) ==
    LET p == s.node[n].peer[m]
    IN  IF p.st = "Sending" /\ p.epoch = b.epoch /\ p.offset = b.offset
        THEN send_blocks(s, n, m, <<b>>) ELSE s

\* on_block: a new block goes to the peers that wait for just this one.
on_block(s, n, b) ==
    FoldLeft(LAMBDA t, m : SendIfNext(t, n, m, b), s, SetToSeq(Others(n)))

-----------------------------------------------------------------------------
(* The node's chain *)

PushMicro(s, n, branch) ==
    LET t == [s EXCEPT !.node[n].micros = Append(@, branch)]
    IN  on_block(t, n, MicroBlockAt(t.node[n], Len(s.node[n].micros)))

PushMacro(s, n) ==
    on_block([s EXCEPT !.node[n].micros = <<>>, !.node[n].epoch = @ + 1], n,
             MacroBlockOf(s.node[n].epoch))

\* handle_block, for a block from the upstream (see MicroChain for forks).  A
\* better block whose previous is not ours takes nothing back: at the tip it
\* is not applied, below the tip try_rollback compares last_block before it
\* pops, and in both cases the history is requested.
handle_block(s, n, b) ==
    LET c == s.node[n]
        count == Len(c.micros)
    IN  IF b.epoch # c.epoch THEN s
        ELSE IF b.kind = "macro" THEN PushMacro(s, n)
        ELSE IF b.offset > count \/ (b.offset < count /\ b.branch <= c.micros[b.offset + 1])
        THEN s
        ELSE IF Before(c, b.offset) # b.previous THEN [s EXCEPT !.node[n].lost = TRUE]
        ELSE PushMicro([s EXCEPT !.node[n].micros = SubSeq(@, 1, b.offset)], n, b.branch)

HandleBlocks(s, n, blocks) == FoldLeft(LAMBDA t, b : handle_block(t, n, b), s, blocks)

-----------------------------------------------------------------------------
(* Peer::poll.  late says which of the peer's timers has fired.  The       *)
(* result has the blocks for the node.                                     *)

Result(s, blocks) == [s |-> s, blocks |-> blocks]

\* What a peer in this state may say.
Expected(st) ==
    CASE st = "Connected" -> {"Subscribed"} [] st = "Accepted" -> {"Subscribe"}
      [] st = "Receiving" -> {"Block"}      [] st = "Sending" -> {}

\* Mutant: an upstream may be kept for ever.
IsNeverOver(st, late) == FALSE

\* MAX_STREAMING_DURATION.
IsOver(st, late) == late = "quota" /\ st \in {"Receiving", "Sending"}

PollConnected(s, n, m, msg) ==
    [s EXCEPT !.node[n].peer[m] = Peer("Receiving", @.id, msg.epoch, msg.offset)]

PollAccepted(s, n, m, msg) ==
    LET id == s.node[n].peer[m].id
        c == Position(s.node[n])
    IN  IF msg.epoch > c.epoch \/ ~IsOpen(s, id, n) THEN disconnected(s, n, m)
        ELSE [Send(s, id, n, [type |-> "Subscribed", epoch |-> c.epoch, offset |-> c.offset])
                EXCEPT !.node[n].peer[m] = Peer("Sending", id, msg.epoch, msg.offset)]

\* All the blocks that are there, up to a batch.
PollReceiving(s, n, m) ==
    LET id == s.node[n].peer[m].id
        q == Inbox(s, id, n)
        count == CHOOSE k \in 1 .. Len(q) :
                    /\ \A i \in 1 .. k : q[i].type = "Block"
                    /\ \/ k \in {Len(q), MAX_BLOCKS_PER_BATCH}
                       \/ q[k + 1].type # "Block"
    IN  Result(SetInbox(s, id, n, SubSeq(q, count + 1, Len(q))),
               [i \in 1 .. count |-> q[i].block])

\* Whatever the chain has beyond the position of the peer.
PollSending(s, n, m, late) ==
    LET p == s.node[n].peer[m]
        at == [epoch |-> p.epoch, offset |-> p.offset]
        blocks == blocks_starting(s.node[n], at)
    IN  IF at = Position(s.node[n]) \/ blocks = <<>> THEN s
        ELSE IF late = "idle" /\ ~HasRoom(s, p.id, n) THEN disconnected(s, n, m)
        ELSE send_blocks(s, n, m, blocks)

PollPeer(s, n, m, late) ==
    LET p == s.node[n].peer[m]
        q == Inbox(s, p.id, n)
        read == SetInbox(s, p.id, n, Tail(q))
        silent == ~IsOpen(s, p.id, n) \/ (late = "idle" /\ p.st # "Sending")
    IN  IF p.id = 0 THEN Result(s, <<>>)
        ELSE IF IsOver(p.st, late) \/ (q = <<>> /\ silent)
        THEN Result(disconnected(s, n, m), <<>>)
        ELSE IF q # <<>> /\ Head(q).type \notin Expected(p.st)
        THEN Result(Fail(s, n, m), <<>>)
        ELSE CASE p.st = "Connected" /\ q # <<>> ->
                    Result(PollConnected(read, n, m, Head(q)), <<>>)
               [] p.st = "Accepted" /\ q # <<>> ->
                    Result(PollAccepted(read, n, m, Head(q)), <<>>)
               [] p.st = "Receiving" /\ q # <<>> -> PollReceiving(s, n, m)
               [] p.st = "Sending" -> Result(PollSending(s, n, m, late), <<>>)
               [] OTHER -> Result(s, <<>>)

\* Peers up to the first one that has blocks.  x is the peer whose timer has
\* fired.
PollNext(r, n, m, x, late) ==
    IF r.blocks # <<>> THEN r ELSE PollPeer(r.s, n, m, IF m = x THEN late ELSE "no")
PollPeers(s, n, x, late) ==
    FoldLeft(LAMBDA r, m : PollNext(r, n, m, x, late), Result(s, <<>>), SetToSeq(Others(n)))

\* Replication::poll: events, peers, and the choice of an upstream.  The
\* blocks go to the node.
PollStates(n, x, late) ==
    LET r == PollPeers(HandleEvents(Here, n), n, x, late)
        peer == r.s.node[n].peer
        potential == {m \in Others(n) : peer[m].st = "Registered"}
    IN  IF r.blocks # <<>>
        THEN {HandleBlocks(r.s, n, r.blocks)}
        ELSE IF n \in Fed \/ potential = {} \/ \E m \in Others(n) : is_upstream(peer[m])
        THEN {r.s}
        ELSE {Connect(r.s, n, m) : m \in potential}

-----------------------------------------------------------------------------
(* Steps *)

\* Pipes that nobody knows of any more are forgotten.
Become(s) ==
    LET known == {s.node[n].peer[m].id : n, m \in Nodes}
                   \cup UNION {{s.node[n].events[i].id : i \in DOMAIN s.node[n].events} :
                               n \in Nodes}
    IN  /\ node' = s.node
        /\ net' = [s.net EXCEPT !.pipe = [id \in PipeIds |->
                      IF @[id].ends = {} /\ id \notin known THEN NoPipe ELSE @[id]]]

Init ==
    /\ node = [n \in Nodes |->
                 [epoch |-> 0, micros |-> <<>>, lost |-> FALSE, panicked |-> FALSE,
                  peer |-> [m \in Nodes |-> Unknown], events |-> <<>>]]
    /\ net = [links |-> {}, dialing |-> {}, pipe |-> [id \in PipeIds |-> NoPipe]]
    /\ forks = 0
    /\ troubles = 0

Trouble == troubles < MaxTroubles /\ troubles' = troubles + 1
NoTrouble == UNCHANGED troubles

\* The ends of a pipe whose other end has gone.
Dangling == {d \in Ids \X Nodes : net.pipe[d[1]].ends = {d[2]}}

\* Nothing happens any more unless a timer fires or a block is made.
AtRest ==
    /\ net.dialing = {} /\ Dangling = {}
    /\ \A n \in Nodes : ~node[n].lost /\ PollStates(n, n, "no") = {Here}

Poll(n) ==
    /\ \E s \in PollStates(n, n, "no") : Become(s)
    /\ NoTrouble /\ UNCHANGED forks

\* A timer that is due, or one that is early.
Timeout(n, late) ==
    /\ IF AtRest THEN NoTrouble ELSE Trouble
    /\ \E x \in Others(n) : \E s \in PollStates(n, x, late) : Become(s)
    /\ UNCHANGED forks

\* By the user.
Leave(s, n, m) == IF is_upstream(s.node[n].peer[m]) THEN disconnected(s, n, m) ELSE s
LeaveAll(s, n) == FoldLeft(LAMBDA t, m : Leave(t, n, m), s, SetToSeq(Others(n)))
change_upstream(n) ==
    /\ Trouble /\ UNCHANGED forks
    /\ Become(LeaveAll(Here, n))

\* inject_connected at both sides.
Link(n, m) ==
    /\ {n, m} \notin net.links
    /\ Become(Notify(Notify([Here EXCEPT !.net.links = @ \cup {{n, m}}],
                            n, Event("Registered", m, 0)), m, Event("Registered", n, 0)))
    /\ NoTrouble /\ UNCHANGED forks

\* Mutant: a lost connection is not reported.
UnlinkSilently(n, m) ==
    /\ {n, m} \in net.links /\ Trouble
    /\ Become([Here EXCEPT !.net.links = @ \ {{n, m}},
                           !.net.dialing = @ \ {<<n, m>>, <<m, n>>}])
    /\ UNCHANGED forks

\* inject_disconnected: the handlers of both sides are gone.
Unlink(n, m) ==
    /\ {n, m} \in net.links /\ Trouble
    /\ LET cut == {id \in Ids : {net.pipe[id].from, net.pipe[id].to} = {n, m}}
           s == [Here EXCEPT !.net.links = @ \ {{n, m}},
                             !.net.dialing = @ \ {<<n, m>>, <<m, n>>},
                             !.net.pipe = Cut(@, cut, {n, m})]
       IN  Become(Notify(Notify(s, n, Event("Unregistered", m, 0)),
                         m, Event("Unregistered", n, 0)))
    /\ UNCHANGED forks

\* A substream from n to m; the handler of m rejects it if it has one.
Negotiate(n, m) ==
    LET busy == \E id \in Ids : LET p == net.pipe[id]
                                IN  p.from = n /\ p.to = m /\ m \in p.ends
        id == CHOOSE i \in Ids : net.pipe[i] = NoPipe
        s == Notify([Here EXCEPT !.net.dialing = @ \ {<<n, m>>},
                                 !.net.pipe[id] = [NoPipe EXCEPT !.from = n, !.to = m,
                                    !.ends = IF busy THEN {n} ELSE {n, m}]],
                    n, Event("Connected", m, id))
    IN  /\ <<n, m>> \in net.dialing /\ \E i \in Ids : net.pipe[i] = NoPipe
        /\ Become(IF busy THEN s ELSE Notify(s, m, Event("Accepted", n, id)))
        /\ NoTrouble /\ UNCHANGED forks

\* inject_dial_upgrade_error.
NegotiateFails(n, m) ==
    /\ <<n, m>> \in net.dialing /\ Trouble
    /\ Become(Notify([Here EXCEPT !.net.dialing = @ \ {<<n, m>>}],
                     n, Event("ConnectionFailed", m, 0)))
    /\ UNCHANGED forks

\* The handler of n notices that the other end has gone.
EndOfStream(id, n) ==
    /\ <<id, n>> \in Dangling
    /\ Become(Close(Here, id, n))
    /\ NoTrouble /\ UNCHANGED forks

\* A message that the reader does not understand.
Garble(id, n) ==
    /\ net.pipe[id].ends # {} /\ Inbox(Here, id, n) # <<>> /\ Trouble
    /\ Become(SetInbox(Here, id, n, <<[type |-> "Garbage"]>> \o Tail(Inbox(Here, id, n))))
    /\ UNCHANGED forks

\* A validator's chain gets a block, or loses one (see MicroChain).
MakeBlock(n) ==
    /\ node[n].epoch < MaxEpoch
    /\ Become(IF IsFull(node[n]) THEN PushMacro(Here, n) ELSE PushMicro(Here, n, forks))
    /\ NoTrouble /\ UNCHANGED forks

PopBlock(n) ==
    /\ node[n].micros # <<>> /\ forks < MaxForks
    /\ Become([Here EXCEPT !.node[n].micros = Front(@)])
    /\ forks' = forks + 1
    /\ NoTrouble

\* The answer to request_history: the blocks of a validator since the last
\* macro block.
LoadHistory(n, v) ==
    /\ node[n].lost
    /\ Become(HandleBlocks([Here EXCEPT !.node[n].lost = FALSE], n,
                           blocks_starting(node[v], [epoch |-> node[n].epoch, offset |-> 0])))
    /\ NoTrouble /\ UNCHANGED forks

Next ==
    \/ \E n \in Nodes : Poll(n) \/ Timeout(n, "idle") \/ Timeout(n, "quota")
                        \/ change_upstream(n)
    \/ \E n \in Nodes : \E m \in Others(n) :
          Link(n, m) \/ Unlink(n, m) \/ Negotiate(n, m) \/ NegotiateFails(n, m)
    \/ \E id \in Ids, n \in Nodes : EndOfStream(id, n) \/ Garble(id, n)
    \/ \E v \in Validators : MakeBlock(v) \/ PopBlock(v)
    \/ \E n \in Nodes \ Validators, v \in Validators : LoadHistory(n, v)

Spec == Init /\ [][Next]_vars

\* Weak fairness, spelled out: a node whose tasks have something to do does
\* something (its substreams are closed, the loader is answered, a stream
\* that has come to rest is given up when its time is over), and so does the
\* network between them.  That validators make blocks is not assumed, nor
\* that a stream is ever idle long enough for the other timer.
Awake(n) ==
    \/ PollStates(n, n, "no") # {Here}
    \/ \E id \in Ids : <<id, n>> \in Dangling
    \/ node[n].lost
    \/ AtRest /\ \E m \in Others(n) : IsOver(node[n].peer[m].st, "quota")
Moves(n) ==
    \/ Poll(n)
    \/ \E id \in Ids : EndOfStream(id, n)
    \/ \E v \in Validators : LoadHistory(n, v)
    \/ AtRest /\ Timeout(n, "quota")

NetAwake ==
    \/ net.dialing # {}
    \/ \E n \in Nodes : \E m \in Others(n) : {n, m} \notin net.links
NetMoves ==
    \E n \in Nodes : \E m \in Others(n) : Link(n, m) \/ Negotiate(n, m)

Fairness ==
    /\ \A n \in Nodes : []<>~Awake(n) \/ []<><<Moves(n)>>_vars
    /\ []<>~NetAwake \/ []<><<NetMoves>>_vars

FairSpec == Spec /\ Fairness

-----------------------------------------------------------------------------
(* Properties *)

\* Every piece of state has its type, and no channel more than its capacity.
TypeOK ==
    /\ \A n \in Nodes :
          /\ node[n].epoch \in 0 .. MaxEpoch
          /\ node[n].micros \in BoundedSeq(0 .. MaxForks, micro_blocks_in_epoch)
          /\ \A m \in Nodes : /\ node[n].peer[m].st \in PeerStates
                              /\ node[n].peer[m].id \in PipeIds
    /\ \A id \in Ids : /\ net.pipe[id].ends \subseteq {net.pipe[id].from, net.pipe[id].to}
                       /\ Len(net.pipe[id].toFrom) <= BUFFER_SIZE
                       /\ Len(net.pipe[id].toTo) <= BUFFER_SIZE
    /\ forks \in 0 .. MaxForks /\ troubles \in 0 .. MaxTroubles

\* The assertions of the code hold: a peer is registered once ("peer is
\* new", "peer is known" in Replication::poll), and a block that is sent is
\* the one at the position of the peer (send_blocks), whatever has happened
\* to the links and to the chain in between.
NeverPanics == TypeOK /\ \A n \in Nodes : ~node[n].panicked

\* No block is left out of a stream (but for the macro block behind the last
\* micro block, see After): the blocks that are on their way from a Sending
\* peer follow each other up to its position (send_blocks when the channel is
\* full, or the chain is rolled back).
StreamHasNoGaps ==
    \A n, m \in Nodes :
        LET p == node[n].peer[m]
            q == Inbox(Here, p.id, m)
        IN  p.st = "Sending" /\ IsOpen(Here, p.id, m) =>
                /\ \A i \in 1 .. Len(q) - 1 : q[i].type = "Block" =>
                      q[i + 1].type = "Block" /\ Covers(After(q[i].block), q[i + 1].block)
                /\ q # <<>> /\ Last(q).type = "Block" =>
                      After(Last(q).block) = [epoch |-> p.epoch, offset |-> p.offset]

\* n is behind v.
IsBehind(n, v) ==
    \/ node[n].epoch < node[v].epoch
    \/ node[n].epoch = node[v].epoch /\ Len(node[n].micros) < Len(node[v].micros)

\* A node that is behind catches up with a validator, unless it has given it
\* up: lost connections, rejected substreams, rollbacks and the macro block
\* that the sender leaves out do not stop it for ever.
CatchesUp ==
    \A n \in Nodes \ Validators, v \in Validators :
        []<>(~IsBehind(n, v) \/ node[n].peer[v].st = "Failed" \/ node[v].peer[n].st = "Failed")
=============================================================================
