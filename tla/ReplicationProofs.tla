------------------------- MODULE ReplicationProofs -------------------------
(***************************************************************************)
(* Proofs about the replication of blocks.                                 *)
(***************************************************************************)
EXTENDS Replication, Induction

-----------------------------------------------------------------------------
(* What there is *)

Blocks ==
    [kind : {"micro"}, epoch : 0 .. MaxEpoch, offset : 0 .. micro_blocks_in_epoch - 1,
     branch : 0 .. MaxForks, previous : -1 .. MaxForks]
    \cup {MacroBlockOf(e) : e \in 0 .. MaxEpoch - 1}

Messages ==
    [type : {"Subscribe", "Subscribed"}, epoch : Nat, offset : Nat]
    \cup [type : {"Block"}, block : Blocks] \cup {[type |-> "Garbage"]}

Inboxes == {q \in Seq(Messages) : Len(q) <= BUFFER_SIZE}

Events(n) ==
    [type : {"Registered", "Unregistered", "ConnectionFailed"}, peer : Others(n), id : {0}]
    \cup [type : {"Connected", "Accepted"}, peer : Others(n), id : Ids]

HasPipe == {"Connected", "Accepted", "Receiving", "Sending"}
Peers == {p \in [st : PeerStates, id : PipeIds, epoch : Nat, offset : Nat] :
             p.id # 0 <=> p.st \in HasPipe}

-----------------------------------------------------------------------------
(* The inductive invariant.  ev[n] are the events that node n has still to *)
(* handle: in the middle of a poll they are no longer in its queue.        *)

Fields == {"epoch", "micros", "lost", "panicked", "peer", "events"}
Shape(s) ==
    /\ DOMAIN s = {"node", "net"} /\ DOMAIN s.node = Nodes
    /\ DOMAIN s.net = {"links", "dialing", "pipe"} /\ DOMAIN s.net.pipe = PipeIds

ChainOK(r) ==
    /\ r.epoch \in 0 .. MaxEpoch
    /\ r.micros \in Seq(0 .. MaxForks) /\ Len(r.micros) <= micro_blocks_in_epoch
    /\ r.panicked = FALSE
NodeOK(r, n) ==
    /\ DOMAIN r = Fields /\ ChainOK(r)
    /\ DOMAIN r.peer = Nodes /\ r.peer[n] = Unknown /\ \A m \in Nodes : r.peer[m] \in Peers

LinksOK(s) ==
    /\ \A l \in s.net.links : \E n \in Nodes : \E m \in Others(n) : l = {n, m}
    /\ \A d \in s.net.dialing : \E n \in Nodes : \E m \in Others(n) :
          d = <<n, m>> /\ {n, m} \in s.net.links

PipeOK(w) ==
    /\ DOMAIN w = {"from", "to", "ends", "toFrom", "toTo"}
    /\ w.ends \subseteq {w.from, w.to}
    /\ w.toFrom \in Inboxes /\ w.toTo \in Inboxes

\* The messages q follow each other, up to the position p.
Stream(q, p) ==
    /\ \A i \in 1 .. Len(q) - 1 : q[i].type = "Block" =>
          q[i + 1].type = "Block" /\ Covers(After(q[i].block), q[i + 1].block)
    /\ q # <<>> /\ q[Len(q)].type = "Block" =>
          After(q[Len(q)].block) = [epoch |-> p.epoch, offset |-> p.offset]

\* The pipe w of the peer m of n, in the state p.
HeldOK(w, n, m, p) ==
    /\ p.st \in {"Connected", "Receiving"} => w.from = n /\ w.to = m
    /\ p.st \in {"Accepted", "Sending"} => w.from = m /\ w.to = n
    /\ p.st = "Accepted" => w.toFrom = <<>>
    /\ p.st = "Sending" /\ m \in w.ends => Stream(w.toFrom, p)
Held(s) ==
    \A n, m \in Nodes : LET p == s.node[n].peer[m] IN p.id # 0 => HeldOK(s.net.pipe[p.id], n, m, p)

\* The pipe w that the event e brings to n: nothing was sent over it yet.
BroughtOK(w, n, e) ==
    /\ e.type = "Connected" => w.from = n /\ w.to = e.peer /\ w.toTo = <<>>
    /\ e.type = "Accepted" => w.from = e.peer /\ w.to = n /\ w.toFrom = <<>>
PendingOK(s, n, q) ==
    /\ q \in Seq(Events(n))
    /\ \A i \in 1 .. Len(q) : q[i].id # 0 =>
          /\ BroughtOK(s.net.pipe[q[i].id], n, q[i])
          /\ \A m \in Nodes : s.node[n].peer[m].id # q[i].id
          /\ \A j \in 1 .. Len(q) : q[j].id = q[i].id => i = j
Pending(s, ev) == DOMAIN ev = Nodes /\ \A n \in Nodes : PendingOK(s, n, ev[n])

Nodely(s) == \A n \in Nodes : NodeOK(s.node[n], n)
Pipes(s) == \A id \in PipeIds : PipeOK(s.net.pipe[id])

Good(s, ev) ==
    Shape(s) /\ Nodely(s) /\ LinksOK(s) /\ Pipes(s) /\ Held(s) /\ Pending(s, ev)

\* The events q lead from the peers K, which a node knows, to L.
Known(s, n) == {m \in Nodes : s.node[n].peer[m].st # "Unknown"}
Linked(s, n) == {m \in Nodes : {n, m} \in s.net.links}
Follows(K, L, e) ==
    /\ e.type = "Registered" <=> e.peer \notin K
    /\ e.type = "Registered" => L = K \cup {e.peer}
    /\ e.type = "Unregistered" => L = K \ {e.peer}
    /\ e.type \notin {"Registered", "Unregistered"} => L = K
Leads(q, K, L) ==
    \E k \in [0 .. Len(q) -> SUBSET Nodes] :
        k[0] = K /\ k[Len(q)] = L /\ \A i \in 1 .. Len(q) : Follows(k[i - 1], k[i], q[i])
Knows(s, ev) == \A n \in Nodes : Leads(ev[n], Known(s, n), Linked(s, n))

Queues(s) == [n \in Nodes |-> s.node[n].events]

IInv ==
    /\ Good(Here, Queues(Here)) /\ Knows(Here, Queues(Here))
    /\ forks \in 0 .. MaxForks /\ troubles \in 0 .. MaxTroubles

-----------------------------------------------------------------------------
(* Facts about messages *)

LEMMA Constants ==
    /\ micro_blocks_in_epoch \in Nat \ {0} /\ MAX_BLOCKS_PER_BATCH \in Nat \ {0}
    /\ BUFFER_SIZE \in Nat \ {0} /\ MaxEpoch \in Nat /\ MaxForks \in Nat /\ MaxTroubles \in Nat
    /\ IsFiniteSet(Nodes) /\ Validators \subseteq Nodes /\ 0 \notin Ids
  BY ReplicationAssumption

LEMMA MessageType ==
    ASSUME NEW x \in Messages
    PROVE  /\ x.type \in {"Subscribe", "Subscribed"} => x.epoch \in Nat /\ x.offset \in Nat
           /\ x.type = "Block" => x.block \in Blocks
  BY DEF Messages

LEMMA SubscribeType ==
    ASSUME NEW type \in {"Subscribe", "Subscribed"}, NEW e \in Nat, NEW o \in Nat
    PROVE  /\ [type |-> type, epoch |-> e, offset |-> o] \in Messages
           /\ [type |-> type, epoch |-> e, offset |-> o].type = type
  BY DEF Messages

LEMMA BlockMessageType ==
    ASSUME NEW b \in Blocks
    PROVE  [type |-> "Block", block |-> b] \in Messages
  BY DEF Messages

LEMMA GarbageType == [type |-> "Garbage"] \in Messages /\ [type |-> "Garbage"].type = "Garbage"
  BY DEF Messages

LEMMA BlockType ==
    ASSUME NEW b \in Blocks
    PROVE  /\ b.kind \in {"micro", "macro"} /\ b.epoch \in 0 .. MaxEpoch /\ b.offset \in Nat
           /\ b.kind = "macro" => b.epoch < MaxEpoch
           /\ b.kind = "micro" => b.offset < micro_blocks_in_epoch /\ b.branch \in 0 .. MaxForks
<1>1. CASE \E e \in 0 .. MaxEpoch - 1 : b = MacroBlockOf(e)
  BY <1>1, Constants DEF MacroBlockOf, Block
<1>2. CASE b \in [kind : {"micro"}, epoch : 0 .. MaxEpoch, offset : 0 .. micro_blocks_in_epoch - 1,
                  branch : 0 .. MaxForks, previous : -1 .. MaxForks]
  BY <1>2, Constants
<1> QED BY <1>1, <1>2 DEF Blocks

LEMMA EventType ==
    ASSUME NEW n, NEW e \in Events(n)
    PROVE  /\ e.type \in {"Registered", "Unregistered", "ConnectionFailed", "Connected", "Accepted"}
           /\ e.peer \in Others(n) /\ e.id \in PipeIds
           /\ e.id # 0 <=> e.type \in {"Connected", "Accepted"}
  BY Constants DEF Events, PipeIds

LEMMA PeerType ==
    ASSUME NEW p \in Peers
    PROVE  /\ p.st \in PeerStates /\ p.id \in PipeIds /\ p.epoch \in Nat /\ p.offset \in Nat
           /\ p.id # 0 <=> p.st \in HasPipe
           /\ p.id # 0 => p.id \in Ids
  BY DEF Peers, PipeIds

LEMMA PeerMade ==
    ASSUME NEW st \in PeerStates, NEW id \in PipeIds, NEW e \in Nat, NEW o \in Nat,
           id # 0 <=> st \in HasPipe
    PROVE  /\ Peer(st, id, e, o) \in Peers
           /\ Peer(st, id, e, o).st = st /\ Peer(st, id, e, o).id = id
           /\ Peer(st, id, e, o).epoch = e /\ Peer(st, id, e, o).offset = o
  BY DEF Peers, Peer

\* A peer that has a pipe.
IsHolder(p, st, id, e, o) ==
    p \in Peers /\ p.st = st /\ p.id = id /\ p.epoch = e /\ p.offset = o

LEMMA HolderMade ==
    ASSUME NEW st \in HasPipe, NEW id \in Ids, NEW e \in Nat, NEW o \in Nat
    PROVE  IsHolder(Peer(st, id, e, o), st, id, e, o)
<1>1. st \in PeerStates /\ id \in PipeIds /\ (id # 0 <=> st \in HasPipe)
  BY Constants DEF PeerStates, PipeIds, HasPipe
<1> QED BY <1>1, PeerMade DEF IsHolder

LEMMA PeersMade ==
    /\ Unknown \in Peers /\ Unknown.st = "Unknown" /\ Unknown.id = 0
    /\ Registered \in Peers /\ Registered.st = "Registered" /\ Registered.id = 0
    /\ Peer("Failed", 0, 0, 0) \in Peers /\ Peer("Failed", 0, 0, 0).st = "Failed"
    /\ Peer("Failed", 0, 0, 0).id = 0
    /\ Peer("Connecting", 0, 0, 0) \in Peers /\ Peer("Connecting", 0, 0, 0).st = "Connecting"
    /\ Peer("Connecting", 0, 0, 0).id = 0
  BY DEF Peers, Peer, Unknown, Registered, PeerStates, PipeIds, HasPipe

-----------------------------------------------------------------------------
(* Pipes that lose something *)

\* q2 is the end of q, or its head has been garbled.
Worse(q2, q) ==
    /\ q2 \in Inboxes /\ Len(q2) <= Len(q)
    /\ \A i \in 1 .. Len(q2) :
          q2[i] = q[i + (Len(q) - Len(q2))] \/ (i = 1 /\ q2[i].type = "Garbage")

Less(w2, w) ==
    /\ DOMAIN w2 = {"from", "to", "ends", "toFrom", "toTo"}
    /\ w2.from = w.from /\ w2.to = w.to /\ w2.ends \subseteq w.ends
    /\ Worse(w2.toFrom, w.toFrom) /\ Worse(w2.toTo, w.toTo)

LEMMA InboxType ==
    ASSUME NEW q \in Inboxes
    PROVE  /\ q \in Seq(Messages) /\ Len(q) \in Nat /\ Len(q) <= BUFFER_SIZE
           /\ \A i \in 1 .. Len(q) : q[i] \in Messages
           /\ <<>> \in Inboxes /\ (Len(q) = 0 <=> q = <<>>)
  BY Constants DEF Inboxes

LEMMA SameIsWorse ==
    ASSUME NEW q \in Inboxes
    PROVE  Worse(q, q)
<1>1. Len(q) \in Nat
  BY InboxType
<1>2. \A i \in 1 .. Len(q) : i + (Len(q) - Len(q)) = i
  BY <1>1
<1> QED BY <1>1, <1>2 DEF Worse

LEMMA WorseEmpty ==
    ASSUME NEW q2, Worse(q2, <<>>)
    PROVE  q2 = <<>>
<1>1. q2 \in Inboxes /\ Len(q2) <= 0
  BY DEF Worse
<1> QED BY <1>1, InboxType

LEMMA WorseStream ==
    ASSUME NEW q \in Inboxes, NEW q2, Worse(q2, q), NEW p, Stream(q, p)
    PROVE  Stream(q2, p)
<1> DEFINE d == Len(q) - Len(q2)
<1>1. q2 \in Inboxes /\ Len(q2) \in Nat /\ Len(q) \in Nat /\ d \in Nat /\ Len(q) = Len(q2) + d
      /\ \A i \in 1 .. Len(q2) : q2[i] = q[i + d] \/ (i = 1 /\ q2[i].type = "Garbage")
  BY InboxType DEF Worse
<1> HIDE DEF d
<1>2. ASSUME NEW i \in 1 .. Len(q2) - 1, q2[i].type = "Block"
      PROVE  q2[i + 1].type = "Block" /\ Covers(After(q2[i].block), q2[i + 1].block)
  <2>1. i \in 1 .. Len(q2) /\ i + 1 \in 1 .. Len(q2) /\ i + 1 # 1 /\ (i + 1) + d = (i + d) + 1
        /\ i + d \in 1 .. Len(q) - 1
    BY <1>1
  <2>2. q2[i] = q[i + d] /\ q2[i + 1] = q[(i + d) + 1]
    BY <1>1, <1>2, <2>1
  <2> QED BY <1>2, <2>1, <2>2 DEF Stream
<1>3. ASSUME q2 # <<>>, q2[Len(q2)].type = "Block"
      PROVE  After(q2[Len(q2)].block) = [epoch |-> p.epoch, offset |-> p.offset]
  <2>1. Len(q2) \in 1 .. Len(q2) /\ Len(q2) + d = Len(q) /\ Len(q) # 0
    BY <1>1, <1>3, InboxType
  <2>2. q2[Len(q2)] = q[Len(q)] /\ q # <<>>
    BY <1>1, <1>3, <2>1
  <2> QED BY <1>3, <2>2 DEF Stream
<1> QED BY <1>2, <1>3 DEF Stream

LEMMA LessOK ==
    ASSUME NEW w2, NEW w, Less(w2, w), PipeOK(w)
    PROVE  /\ PipeOK(w2)
           /\ \A n, m, p : HeldOK(w, n, m, p) => HeldOK(w2, n, m, p)
           /\ \A n, e : BroughtOK(w, n, e) => BroughtOK(w2, n, e)
<1>1. PipeOK(w2)
  BY DEF Less, PipeOK, Worse
<1>2. ASSUME NEW p, Stream(w.toFrom, p) PROVE Stream(w2.toFrom, p)
  BY <1>2, WorseStream DEF Less, PipeOK
<1>3. (w.toFrom = <<>> => w2.toFrom = <<>>) /\ (w.toTo = <<>> => w2.toTo = <<>>)
  BY WorseEmpty DEF Less
<1>4. ASSUME NEW n, NEW m, NEW p, HeldOK(w, n, m, p) PROVE HeldOK(w2, n, m, p)
  BY <1>2, <1>3, <1>4 DEF HeldOK, Less
<1>5. ASSUME NEW n, NEW e, BroughtOK(w, n, e) PROVE BroughtOK(w2, n, e)
  BY <1>3, <1>5 DEF BroughtOK, Less
<1> QED BY <1>1, <1>4, <1>5

LEMMA SameIsLess ==
    ASSUME NEW w, PipeOK(w)
    PROVE  Less(w, w)
  BY SameIsWorse DEF Less, PipeOK

\* What a step of node n leaves alone.
Near(s, t, n) ==
    /\ t.net.links = s.net.links /\ t.net.dialing = s.net.dialing
    /\ \A a \in Others(n) : t.node[a] = s.node[a]
    /\ t.node[n].events = s.node[n].events
Same(s, t, n) == Near(s, t, n) /\ Known(t, n) = Known(s, n)

LEMMA SameTwice ==
    ASSUME NEW s, NEW t, NEW u, NEW n, Same(s, t, n), Same(t, u, n)
    PROVE  Same(s, u, n)
  BY DEF Same, Near

LEMMA Lessen ==
    ASSUME NEW s, NEW ev, Good(s, ev), NEW t, Shape(t), t.node = s.node,
           t.net.links = s.net.links, t.net.dialing = s.net.dialing,
           \A id \in PipeIds : Less(t.net.pipe[id], s.net.pipe[id])
    PROVE  Good(t, ev) /\ \A n \in Nodes : Same(s, t, n)
<1>1. Nodely(t) /\ LinksOK(t) /\ \A n \in Nodes : Same(s, t, n)
  BY DEF Good, Nodely, LinksOK, Same, Near, Known
<1>2. Pipes(t)
  BY LessOK DEF Good, Pipes
<1>3. Held(t)
  <2> SUFFICES ASSUME NEW n \in Nodes, NEW m \in Nodes, s.node[n].peer[m].id # 0
               PROVE  HeldOK(t.net.pipe[s.node[n].peer[m].id], n, m, s.node[n].peer[m])
    BY DEF Held
  <2>1. s.node[n].peer[m] \in Peers
    BY DEF Good, Nodely, NodeOK
  <2>2. s.node[n].peer[m].id \in PipeIds
    BY <2>1, PeerType
  <2>3. HeldOK(s.net.pipe[s.node[n].peer[m].id], n, m, s.node[n].peer[m])
    BY DEF Good, Held
  <2> QED BY <2>2, <2>3, LessOK DEF Good, Pipes
<1>4. Pending(t, ev)
  <2> SUFFICES ASSUME NEW n \in Nodes PROVE PendingOK(t, n, ev[n])
    BY DEF Pending, Good
  <2>1. PendingOK(s, n, ev[n])
    BY DEF Good, Pending
  <2>2. ASSUME NEW i \in 1 .. Len(ev[n]), ev[n][i].id # 0
        PROVE  BroughtOK(t.net.pipe[ev[n][i].id], n, ev[n][i])
    <3>1. ev[n][i] \in Events(n) /\ BroughtOK(s.net.pipe[ev[n][i].id], n, ev[n][i])
      BY <2>1, <2>2 DEF PendingOK
    <3>2. ev[n][i].id \in PipeIds
      BY <3>1, EventType
    <3> QED BY <3>1, <3>2, LessOK DEF Good, Pipes
  <2> QED BY <2>1, <2>2 DEF PendingOK
<1> QED BY <1>1, <1>2, <1>3, <1>4 DEF Good

-----------------------------------------------------------------------------
(* A peer takes a new state *)

\* The peer m of n is p in t.  The pipe of p may have got something, all else is as in s.
Puts(s, t, n, m, p) ==
    /\ Shape(t) /\ t.net.links = s.net.links /\ t.net.dialing = s.net.dialing
    /\ \A a \in Others(n) : t.node[a] = s.node[a]
    /\ DOMAIN t.node[n] = Fields
    /\ t.node[n].peer = [s.node[n].peer EXCEPT ![m] = p]
    /\ \A f \in Fields \ {"peer"} : t.node[n][f] = s.node[n][f]
    /\ \A id \in PipeIds : id # p.id \/ p.id = 0 => t.net.pipe[id] = s.net.pipe[id]

\* The pipe w of n and m becomes w2: the inbox of n is as it was.
Filled(w2, w, n) ==
    /\ PipeOK(w2) /\ w2.from = w.from /\ w2.to = w.to /\ w2.ends = w.ends
    /\ IF w.from = n THEN w2.toFrom = w.toFrom ELSE w2.toTo = w.toTo

\* No event of the node is about the pipe.
Fresh(ev, n, id) == \A i \in 1 .. Len(ev[n]) : ev[n][i].id # id

LEMMA PutsOK ==
    ASSUME NEW s, NEW ev, Good(s, ev), NEW n \in Nodes, NEW m \in Others(n), NEW p \in Peers,
           NEW t, Puts(s, t, n, m, p),
           p.id # 0 => /\ Fresh(ev, n, p.id) /\ HeldOK(t.net.pipe[p.id], n, m, p)
                       /\ Filled(t.net.pipe[p.id], s.net.pipe[p.id], n)
    PROVE  /\ Good(t, ev) /\ Near(s, t, n)
           /\ (p.st = "Unknown" <=> s.node[n].peer[m].st = "Unknown") => Same(s, t, n)
<1>0. /\ n \in Nodes /\ m \in Nodes /\ n # m
      /\ \A a \in Nodes : a # n => t.node[a] = s.node[a]
  BY DEF Others, Puts
<1>1. /\ DOMAIN s.node[n].peer = Nodes /\ DOMAIN t.node[n].peer = Nodes
      /\ t.node[n].peer[m] = p /\ \A b \in Nodes : b # m => t.node[n].peer[b] = s.node[n].peer[b]
  BY <1>0 DEF Good, Nodely, NodeOK, Puts
<1>2. Nodely(t)
  <2>1. NodeOK(t.node[n], n)
    <3>1. NodeOK(s.node[n], n) /\ t.node[n].epoch = s.node[n].epoch
          /\ t.node[n].micros = s.node[n].micros /\ t.node[n].panicked = s.node[n].panicked
          /\ DOMAIN t.node[n] = Fields
      BY DEF Good, Nodely, Puts, Fields
    <3> QED BY <1>0, <1>1, <3>1 DEF NodeOK, ChainOK
  <2> QED BY <1>0, <2>1 DEF Nodely, Good
<1>3. LinksOK(t)
  BY DEF LinksOK, Good, Puts
<1>4. \A id \in PipeIds : /\ PipeOK(t.net.pipe[id]) /\ PipeOK(s.net.pipe[id])
                          /\ t.net.pipe[id].from = s.net.pipe[id].from
                          /\ t.net.pipe[id].to = s.net.pipe[id].to
                          /\ t.net.pipe[id].ends = s.net.pipe[id].ends
  BY DEF Filled, Puts, Good, Pipes
<1>5. ASSUME NEW a \in Nodes, NEW b \in Nodes, a # n \/ b # m, t.node[a].peer[b].id # 0
      PROVE  HeldOK(t.net.pipe[t.node[a].peer[b].id], a, b, t.node[a].peer[b])
  <2> DEFINE q == s.node[a].peer[b]
  <2>1. t.node[a].peer[b] = q
    BY <1>0, <1>1, <1>5
  <2>2. q \in Peers
    BY DEF Good, Nodely, NodeOK
  <2>3. HeldOK(s.net.pipe[q.id], a, b, q) /\ q.id \in PipeIds /\ q.st \in HasPipe
    BY <1>5, <2>1, <2>2, PeerType DEF Good, Held
  <2> HIDE DEF q
  <2>4. CASE q.id # p.id \/ p.id = 0
    BY <2>1, <2>3, <2>4 DEF Puts
  <2>5. CASE q.id = p.id /\ p.id # 0
    <3> DEFINE w == s.net.pipe[p.id]
               w2 == t.net.pipe[p.id]
    <3>1. HeldOK(w2, n, m, p) /\ Filled(w2, w, n) /\ HeldOK(w, a, b, q) /\ p.st \in HasPipe
      BY <2>3, <2>5, PeerType
    <3> HIDE DEF w, w2
    <3>2. (w.from = n /\ w.to = m) \/ (w.from = m /\ w.to = n)
      BY <3>1 DEF HeldOK, Filled, HasPipe
    <3>3. (w.from = a /\ w.to = b) \/ (w.from = b /\ w.to = a)
      BY <2>3, <3>1 DEF HeldOK, HasPipe
    <3>4. a = m /\ b = n
      BY <1>0, <1>5, <3>2, <3>3
    <3>5. HeldOK(w2, a, b, q)
      BY <1>0, <3>1, <3>2, <3>4 DEF HeldOK, Filled
    <3> QED BY <2>1, <2>5, <3>5 DEF w2
  <2> QED BY <2>4, <2>5
<1>6. Held(t)
  <2> SUFFICES ASSUME NEW a \in Nodes, NEW b \in Nodes, t.node[a].peer[b].id # 0
               PROVE  HeldOK(t.net.pipe[t.node[a].peer[b].id], a, b, t.node[a].peer[b])
    BY DEF Held
  <2>1. CASE a = n /\ b = m
    BY <1>1, <2>1
  <2> QED BY <1>5, <2>1
<1>7. Pending(t, ev)
  <2> SUFFICES ASSUME NEW a \in Nodes PROVE PendingOK(t, a, ev[a])
    BY DEF Pending, Good
  <2>1. PendingOK(s, a, ev[a])
    BY DEF Good, Pending
  <2>2. ASSUME NEW i \in 1 .. Len(ev[a]), ev[a][i].id # 0
        PROVE  /\ BroughtOK(t.net.pipe[ev[a][i].id], a, ev[a][i])
               /\ \A b \in Nodes : t.node[a].peer[b].id # ev[a][i].id
    <3> DEFINE e == ev[a][i]
    <3>1. e \in Events(a) /\ BroughtOK(s.net.pipe[e.id], a, e)
          /\ \A b \in Nodes : s.node[a].peer[b].id # e.id
      BY <2>1, <2>2 DEF PendingOK
    <3>2. e.id \in PipeIds /\ e.type \in {"Connected", "Accepted"} /\ e.peer \in Others(a)
      BY <2>2, <3>1, EventType
    <3>3. \A b \in Nodes : t.node[a].peer[b].id # e.id
      <4>1. CASE a = n
        <5>1. p.id # e.id
          BY <2>2, <4>1 DEF Fresh
        <5> QED BY <1>1, <3>1, <4>1, <5>1
      <4>2. CASE a # n
        BY <1>0, <3>1, <4>2
      <4> QED BY <4>1, <4>2
    <3> HIDE DEF e
    <3>4. CASE e.id # p.id
      BY <3>1, <3>2, <3>3, <3>4 DEF Puts, e
    <3>5. CASE e.id = p.id
      <4> DEFINE w == s.net.pipe[p.id]
                 w2 == t.net.pipe[p.id]
      <4>1. HeldOK(w2, n, m, p) /\ Filled(w2, w, n) /\ BroughtOK(w, a, e) /\ p.st \in HasPipe
            /\ Fresh(ev, n, p.id)
        BY <2>2, <3>1, <3>5, PeerType DEF e
      <4> HIDE DEF w, w2
      <4>2. (w.from = n /\ w.to = m) \/ (w.from = m /\ w.to = n)
        BY <4>1 DEF HeldOK, Filled, HasPipe
      <4>3. (w.from = a /\ w.to = e.peer) \/ (w.from = e.peer /\ w.to = a)
        BY <3>2, <4>1 DEF BroughtOK
      <4>4. a # n
        BY <2>2, <3>5, <4>1 DEF Fresh, e
      <4>5. a = m
        BY <4>2, <4>3, <4>4
      <4>6. BroughtOK(w2, a, e)
        BY <1>0, <4>1, <4>2, <4>5 DEF BroughtOK, Filled
      <4> QED BY <3>3, <3>5, <4>6 DEF w2, e
    <3> QED BY <3>4, <3>5
  <2> QED BY <2>1, <2>2 DEF PendingOK
<1>8. Good(t, ev)
  BY <1>2, <1>3, <1>4, <1>6, <1>7 DEF Good, Pipes, Puts
<1>9. Near(s, t, n)
  BY DEF Near, Puts, Fields
<1>10. (p.st = "Unknown" <=> s.node[n].peer[m].st = "Unknown") => Known(t, n) = Known(s, n)
  BY <1>0, <1>1 DEF Known
<1> QED BY <1>8, <1>9, <1>10 DEF Same

LEMMA CloseOK ==
    ASSUME NEW s, NEW ev, Good(s, ev), NEW id \in PipeIds, NEW n \in Nodes
    PROVE  /\ Good(Close(s, id, n), ev) /\ Same(s, Close(s, id, n), n)
           /\ Close(s, id, n).node = s.node /\ Shape(Close(s, id, n))
           /\ \A j \in PipeIds : Less(Close(s, id, n).net.pipe[j], s.net.pipe[j])
<1> DEFINE t == Close(s, id, n)
<1>1. \A j \in PipeIds : PipeOK(s.net.pipe[j])
  BY DEF Good, Pipes
<1>2. Shape(t) /\ t.node = s.node /\ t.net.links = s.net.links /\ t.net.dialing = s.net.dialing
      /\ \A j \in PipeIds : t.net.pipe[j] = s.net.pipe[j] \/
            t.net.pipe[j] = [s.net.pipe[j] EXCEPT !.ends = @ \ {n}]
  BY DEF Close, Good, Shape
<1> HIDE DEF t
<1>3. \A j \in PipeIds : Less(t.net.pipe[j], s.net.pipe[j])
  <2> TAKE j \in PipeIds
  <2> DEFINE w == s.net.pipe[j]
             w2 == [w EXCEPT !.ends = @ \ {n}]
  <2>1. PipeOK(w)
    BY <1>1
  <2>2. Less(w, w)
    BY <2>1, SameIsLess
  <2>3. Less(w2, w)
    <3> HIDE DEF w
    <3>1. DOMAIN w2 = DOMAIN w /\ w2.from = w.from /\ w2.to = w.to /\ w2.ends \subseteq w.ends
          /\ w2.toFrom = w.toFrom /\ w2.toTo = w.toTo
      BY <2>1 DEF PipeOK
    <3> QED BY <2>1, <2>2, <3>1 DEF Less, PipeOK
  <2> QED BY <1>2, <2>2, <2>3
<1>4. Good(t, ev) /\ Same(s, t, n)
  BY <1>2, <1>3, Lessen
<1> QED BY <1>2, <1>3, <1>4 DEF t

LEMMA SetPeerIs ==
    ASSUME NEW s, Shape(s), Nodely(s), NEW n \in Nodes, NEW m \in Others(n), NEW p
    PROVE  LET t == [s EXCEPT !.node[n].peer[m] = p]
           IN  Puts(s, t, n, m, p) /\ t.net = s.net /\ t.node[n].peer[m] = p
<1> DEFINE t == [s EXCEPT !.node[n].peer[m] = p]
<1>0. DOMAIN s.node[n] = Fields /\ DOMAIN s.node[n].peer = Nodes /\ n \in Nodes /\ m \in Nodes
  BY DEF Nodely, NodeOK, Others
<1>1. DOMAIN t = {"node", "net"} /\ DOMAIN t.node = Nodes /\ t.net = s.net
      /\ \A a \in Nodes : a # n => t.node[a] = s.node[a]
  BY DEF Shape
<1>2. DOMAIN t.node[n] = Fields /\ t.node[n].peer = [s.node[n].peer EXCEPT ![m] = p]
      /\ \A f \in Fields \ {"peer"} : t.node[n][f] = s.node[n][f]
  BY <1>0 DEF Shape, Fields
<1> HIDE DEF t
<1>3. Shape(t) /\ t.node[n].peer[m] = p
  BY <1>0, <1>1, <1>2 DEF Shape
<1>4. Puts(s, t, n, m, p)
  BY <1>1, <1>2, <1>3 DEF Puts, Others
<1> QED BY <1>1, <1>3, <1>4 DEF t

LEMMA SetPeerOK ==
    ASSUME NEW s, NEW ev, Good(s, ev), NEW n \in Nodes, NEW m \in Others(n), NEW p \in Peers,
           p.id # 0 => Fresh(ev, n, p.id) /\ HeldOK(s.net.pipe[p.id], n, m, p)
    PROVE  LET t == [s EXCEPT !.node[n].peer[m] = p]
           IN  /\ Good(t, ev) /\ Near(s, t, n) /\ t.node[n].peer[m] = p /\ t.net = s.net
               /\ (p.st = "Unknown" <=> s.node[n].peer[m].st = "Unknown") => Same(s, t, n)
<1> DEFINE t == [s EXCEPT !.node[n].peer[m] = p]
<1>1. Puts(s, t, n, m, p) /\ t.net = s.net /\ t.node[n].peer[m] = p
  BY SetPeerIs DEF Good
<1> HIDE DEF t
<1>2. p.id # 0 => Filled(t.net.pipe[p.id], s.net.pipe[p.id], n)
  BY <1>1, PeerType DEF Filled, Good, Pipes
<1>3. p.id # 0 => HeldOK(t.net.pipe[p.id], n, m, p)
  BY <1>1
<1>4. Good(t, ev) /\ Near(s, t, n)
      /\ ((p.st = "Unknown" <=> s.node[n].peer[m].st = "Unknown") => Same(s, t, n))
  BY <1>1, <1>2, <1>3, PutsOK
<1> QED BY <1>1, <1>4 DEF t

LEMMA ReplaceOK ==
    ASSUME NEW s, NEW ev, Good(s, ev), NEW n \in Nodes, NEW m \in Others(n), NEW p \in Peers,
           p.id # 0 => Fresh(ev, n, p.id) /\ HeldOK(s.net.pipe[p.id], n, m, p)
    PROVE  LET t == Replace(s, n, m, p)
           IN  /\ Good(t, ev) /\ Near(s, t, n) /\ t.node[n].peer[m] = p
               /\ (p.st = "Unknown" <=> s.node[n].peer[m].st = "Unknown") => Same(s, t, n)
               /\ \A id \in PipeIds : Less(t.net.pipe[id], s.net.pipe[id])
               /\ \A a \in Nodes : a # m => t.node[n].peer[a] = s.node[n].peer[a]
<1> DEFINE old == s.node[n].peer[m].id
           id == IF old = p.id THEN 0 ELSE old
           c == Close(s, id, n)
           t == [c EXCEPT !.node[n].peer[m] = p]
<1>1. s.node[n].peer[m] \in Peers
  BY DEF Good, Nodely, NodeOK, Others
<1>2. id \in PipeIds
  BY <1>1, PeerType DEF PipeIds
<1>3. t = Replace(s, n, m, p)
  BY DEF Replace
<1> HIDE DEF id
<1>4. /\ Good(c, ev) /\ Same(s, c, n) /\ c.node = s.node /\ Shape(c)
      /\ \A j \in PipeIds : Less(c.net.pipe[j], s.net.pipe[j])
  BY <1>2, CloseOK
<1> HIDE DEF c
<1>5. p.id # 0 => Fresh(ev, n, p.id) /\ HeldOK(c.net.pipe[p.id], n, m, p)
  BY <1>4, LessOK, PeerType DEF Good, Pipes
<1>6. /\ Good(t, ev) /\ Near(c, t, n) /\ t.node[n].peer[m] = p /\ t.net = c.net
      /\ (p.st = "Unknown" <=> c.node[n].peer[m].st = "Unknown") => Same(c, t, n)
  BY <1>4, <1>5, SetPeerOK
<1>7. Puts(c, t, n, m, p)
  BY <1>4, SetPeerIs DEF Good
<1> HIDE DEF t
<1>8. \A a \in Nodes : a # m => t.node[n].peer[a] = s.node[n].peer[a]
  BY <1>4, <1>7 DEF Puts, Good, Nodely, NodeOK
<1>9. Near(s, t, n)
  BY <1>4, <1>6 DEF Same, Near
<1>10. (p.st = "Unknown" <=> s.node[n].peer[m].st = "Unknown") => Same(s, t, n)
  BY <1>4, <1>6, SameTwice
<1> QED BY <1>3, <1>4, <1>6, <1>8, <1>9, <1>10

\* A peer that the node knows falls back to Registered or Failed.
LEMMA DisconnectedOK ==
    ASSUME NEW s, NEW ev, Good(s, ev), NEW n \in Nodes, NEW m \in Others(n),
           s.node[n].peer[m].st # "Unknown"
    PROVE  /\ Good(disconnected(s, n, m), ev) /\ Same(s, disconnected(s, n, m), n)
           /\ \A id \in PipeIds : Less(disconnected(s, n, m).net.pipe[id], s.net.pipe[id])
           /\ Good(Fail(s, n, m), ev) /\ Same(s, Fail(s, n, m), n)
<1> DEFINE f == Peer("Failed", 0, 0, 0)
<1>1. Registered \in Peers /\ Registered.st = "Registered" /\ Registered.id = 0
      /\ f \in Peers /\ f.st = "Failed" /\ f.id = 0
  BY PeersMade
<1> HIDE DEF f
<1>2. /\ Good(Replace(s, n, m, Registered), ev) /\ Same(s, Replace(s, n, m, Registered), n)
      /\ \A id \in PipeIds : Less(Replace(s, n, m, Registered).net.pipe[id], s.net.pipe[id])
  BY <1>1, ReplaceOK
<1>3. Good(Replace(s, n, m, f), ev) /\ Same(s, Replace(s, n, m, f), n)
  BY <1>1, ReplaceOK
<1> QED BY <1>2, <1>3 DEF disconnected, Fail, f

-----------------------------------------------------------------------------
(* A node sends something *)

\* The ends of a pipe.
Between(w, n, m) == (w.from = n /\ w.to = m) \/ (w.from = m /\ w.to = n)
\* What has come in for m.
Mail(w, m) == IF w.from = m THEN w.toFrom ELSE w.toTo

LEMMA SetInboxIs ==
    ASSUME NEW s, Shape(s), Pipes(s), NEW id \in PipeIds, NEW m, NEW q \in Inboxes
    PROVE  LET t == SetInbox(s, id, m, q)
               w == s.net.pipe[id]
               w2 == t.net.pipe[id]
           IN  /\ Shape(t) /\ t.node = s.node /\ t.net.links = s.net.links
               /\ t.net.dialing = s.net.dialing
               /\ \A j \in PipeIds : j # id => t.net.pipe[j] = s.net.pipe[j]
               /\ PipeOK(w2) /\ w2.from = w.from /\ w2.to = w.to /\ w2.ends = w.ends
               /\ w.from = m => w2.toFrom = q /\ w2.toTo = w.toTo
               /\ w.from # m => w2.toTo = q /\ w2.toFrom = w.toFrom
<1> DEFINE t == SetInbox(s, id, m, q)
           w == s.net.pipe[id]
           w2 == t.net.pipe[id]
<1>1. PipeOK(w)
  BY DEF Pipes
<1>2. CASE w.from = m
  <2>1. t = [s EXCEPT !.net.pipe[id].toFrom = q]
    BY <1>2 DEF SetInbox
  <2>2. /\ Shape(t) /\ t.node = s.node /\ t.net.links = s.net.links
        /\ t.net.dialing = s.net.dialing
        /\ \A j \in PipeIds : j # id => t.net.pipe[j] = s.net.pipe[j]
        /\ w2 = [w EXCEPT !.toFrom = q]
    BY <2>1 DEF Shape
  <2> HIDE DEF t, w, w2
  <2>3. DOMAIN w2 = DOMAIN w /\ w2.from = w.from /\ w2.to = w.to /\ w2.ends = w.ends
        /\ w2.toFrom = q /\ w2.toTo = w.toTo
    BY <1>1, <2>2 DEF PipeOK
  <2>4. PipeOK(w2)
    BY <1>1, <2>3 DEF PipeOK
  <2> QED BY <1>2, <2>2, <2>3, <2>4 DEF t, w, w2
<1>3. CASE w.from # m
  <2>1. t = [s EXCEPT !.net.pipe[id].toTo = q]
    BY <1>3 DEF SetInbox
  <2>2. /\ Shape(t) /\ t.node = s.node /\ t.net.links = s.net.links
        /\ t.net.dialing = s.net.dialing
        /\ \A j \in PipeIds : j # id => t.net.pipe[j] = s.net.pipe[j]
        /\ w2 = [w EXCEPT !.toTo = q]
    BY <2>1 DEF Shape
  <2> HIDE DEF t, w, w2
  <2>3. DOMAIN w2 = DOMAIN w /\ w2.from = w.from /\ w2.to = w.to /\ w2.ends = w.ends
        /\ w2.toTo = q /\ w2.toFrom = w.toFrom
    BY <1>1, <2>2 DEF PipeOK
  <2>4. PipeOK(w2)
    BY <1>1, <2>3 DEF PipeOK
  <2> QED BY <1>3, <2>2, <2>3, <2>4 DEF t, w, w2
<1> QED BY <1>2, <1>3

LEMMA SendIs ==
    ASSUME NEW s, Shape(s), Pipes(s), NEW n \in Nodes, NEW m \in Others(n), NEW id \in PipeIds,
           Between(s.net.pipe[id], n, m), NEW msg \in Messages,
           Len(Mail(s.net.pipe[id], m)) < BUFFER_SIZE
    PROVE  LET t == Send(s, id, n, msg)
               w == s.net.pipe[id]
               w2 == t.net.pipe[id]
           IN  /\ Shape(t) /\ t.node = s.node /\ t.net.links = s.net.links
               /\ t.net.dialing = s.net.dialing
               /\ \A j \in PipeIds : j # id => t.net.pipe[j] = s.net.pipe[j]
               /\ Filled(w2, w, n)
               /\ m \notin w.ends => w2 = w
               /\ m \in w.ends => Mail(w2, m) = Append(Mail(w, m), msg)
<1> DEFINE w == s.net.pipe[id]
           q == Append(Mail(w, m), msg)
           u == SetInbox(s, id, m, q)
<1>0. n # m /\ PipeOK(w)
  BY DEF Others, Pipes
<1>1. Other(s, id, n) = m /\ Inbox(s, id, m) = Mail(w, m) /\ (IsOpen(s, id, m) <=> m \in w.ends)
  BY <1>0 DEF Other, Inbox, Mail, IsOpen, Between
<1>2. Send(s, id, n, msg) = IF m \in w.ends THEN u ELSE s
  BY <1>1 DEF Send
<1>3. q \in Inboxes
  <2>1. Mail(w, m) \in Seq(Messages) /\ Len(Mail(w, m)) < BUFFER_SIZE
    BY <1>0 DEF PipeOK, Inboxes, Mail
  <2> HIDE DEF w
  <2>2. Append(Mail(w, m), msg) \in Seq(Messages) /\ Len(Append(Mail(w, m), msg)) <= BUFFER_SIZE
    BY <2>1, Constants
  <2> QED BY <2>2 DEF Inboxes
<1> HIDE DEF q
<1>4. /\ Shape(u) /\ u.node = s.node /\ u.net.links = s.net.links
      /\ u.net.dialing = s.net.dialing
      /\ \A j \in PipeIds : j # id => u.net.pipe[j] = s.net.pipe[j]
      /\ PipeOK(u.net.pipe[id]) /\ u.net.pipe[id].from = w.from /\ u.net.pipe[id].to = w.to
      /\ u.net.pipe[id].ends = w.ends
      /\ w.from = m => u.net.pipe[id].toFrom = q /\ u.net.pipe[id].toTo = w.toTo
      /\ w.from # m => u.net.pipe[id].toTo = q /\ u.net.pipe[id].toFrom = w.toFrom
  BY <1>3, SetInboxIs
<1> HIDE DEF u
<1>5. CASE m \in w.ends
  <2>1. Filled(u.net.pipe[id], w, n) /\ Mail(u.net.pipe[id], m) = q
    BY <1>0, <1>4 DEF Filled, Mail, Between
  <2> QED BY <1>2, <1>4, <1>5, <2>1 DEF q
<1>6. CASE m \notin w.ends
  BY <1>0, <1>2, <1>6 DEF Filled
<1> QED BY <1>5, <1>6

\* The pipe w is one for p, when msg has been sent to m.
Takes(w, n, m, msg, p) ==
    \A w2 : /\ Filled(w2, w, n)
            /\ m \in w2.ends => Mail(w2, m) = Append(Mail(w, m), msg)
            /\ m \notin w2.ends => w2 = w
            => HeldOK(w2, n, m, p)

\* The node sends msg to m, which is then p.
Spoken(s, n, m, id, msg, p) == [Send(s, id, n, msg) EXCEPT !.node[n].peer[m] = p]

LEMMA SpeakOK ==
    ASSUME NEW s, NEW ev, Good(s, ev), NEW n \in Nodes, NEW m \in Others(n), NEW p \in Peers,
           p.id # 0, Fresh(ev, n, p.id),
           Between(s.net.pipe[p.id], n, m), NEW msg \in Messages,
           Len(Mail(s.net.pipe[p.id], m)) < BUFFER_SIZE,
           p.st # "Unknown", s.node[n].peer[m].st # "Unknown",
           Takes(s.net.pipe[p.id], n, m, msg, p)
    PROVE  LET t == Spoken(s, n, m, p.id, msg, p)
           IN  Good(t, ev) /\ Same(s, t, n) /\ t.node[n].peer[m] = p
<1> DEFINE id == p.id
           w == s.net.pipe[id]
           u == Send(s, id, n, msg)
           t == [u EXCEPT !.node[n].peer[m] = p]
<1>0. id \in PipeIds
  BY PeerType
<1>1. /\ Shape(u) /\ u.node = s.node /\ u.net.links = s.net.links
      /\ u.net.dialing = s.net.dialing
      /\ \A j \in PipeIds : j # id => u.net.pipe[j] = s.net.pipe[j]
      /\ Filled(u.net.pipe[id], w, n)
      /\ m \notin w.ends => u.net.pipe[id] = w
      /\ m \in w.ends => Mail(u.net.pipe[id], m) = Append(Mail(w, m), msg)
  BY <1>0, SendIs DEF Good
<1> HIDE DEF u
<1>2. Puts(u, t, n, m, p) /\ t.net = u.net /\ t.node[n].peer[m] = p
  <2>1. Shape(u) /\ Nodely(u)
    BY <1>1 DEF Good, Nodely
  <2> QED BY <2>1, SetPeerIs
<1> HIDE DEF t
<1>3. Puts(s, t, n, m, p)
  BY <1>1, <1>2 DEF Puts
<1>4. u.net.pipe[id].ends = w.ends
  BY <1>1 DEF Filled
<1>5. HeldOK(u.net.pipe[id], n, m, p)
  BY <1>1, <1>4 DEF Takes
<1>6. Good(t, ev) /\ Same(s, t, n)
  BY <1>1, <1>2, <1>3, <1>5, PutsOK
<1> QED BY <1>2, <1>6 DEF Spoken, t, u

-----------------------------------------------------------------------------
(* Events *)

LEMMA PositionType ==
    ASSUME NEW s, Nodely(s), NEW n \in Nodes
    PROVE  LET c == Position(s.node[n]) IN c.epoch \in Nat /\ c.offset \in Nat
  BY Constants DEF Nodely, NodeOK, ChainOK, Position

LEMMA ConnectedOK ==
    ASSUME NEW s, NEW ev, Good(s, ev), NEW n \in Nodes, NEW m \in Others(n), NEW id \in Ids,
           Fresh(ev, n, id), s.net.pipe[id].from = n, s.net.pipe[id].to = m,
           s.net.pipe[id].toTo = <<>>, s.node[n].peer[m].st # "Unknown"
    PROVE  Good(connected(s, n, m, id), ev) /\ Same(s, connected(s, n, m, id), n)
<1> DEFINE d == disconnected(s, n, m)
           c == Position(s.node[n])
           msg == [type |-> "Subscribe", epoch |-> c.epoch, offset |-> c.offset]
           p == Peer("Connected", id, 0, 0)
           w == s.net.pipe[id]
<1>0. id \in PipeIds /\ id # 0 /\ m # n
  BY Constants DEF PipeIds, Others
<1>1. Good(d, ev) /\ Same(s, d, n)
  BY DisconnectedOK
<1>2. Good(Close(d, id, n), ev) /\ Same(d, Close(d, id, n), n)
  BY <1>0, <1>1, CloseOK
<1>3. c.epoch \in Nat /\ c.offset \in Nat
  BY PositionType DEF Good
<1> HIDE DEF d, c
<1>4. msg \in Messages
  BY <1>3, SubscribeType
<1>5. p \in Peers /\ p.id = id /\ p.st = "Connected"
  <2>1. "Connected" \in HasPipe /\ 0 \in Nat
    BY DEF HasPipe
  <2>2. IsHolder(p, "Connected", id, 0, 0)
    BY <2>1, HolderMade
  <2> QED BY <2>2 DEF IsHolder
<1> HIDE DEF msg, p
<1>6. Between(w, n, m) /\ Mail(w, m) = <<>> /\ Len(Mail(w, m)) < BUFFER_SIZE
  BY <1>0, Constants DEF Between, Mail
<1>7. Takes(w, n, m, msg, p)
  BY <1>5 DEF Filled, HeldOK, Takes
<1>8. Good(Spoken(s, n, m, id, msg, p), ev) /\ Same(s, Spoken(s, n, m, id, msg, p), n)
  BY <1>0, <1>4, <1>5, <1>6, <1>7, SpeakOK
<1>9. connected(s, n, m, id) =
        IF s.node[n].peer[m].st # "Connecting" THEN Close(d, id, n)
        ELSE IF ~IsOpen(s, id, n) THEN d ELSE Spoken(s, n, m, id, msg, p)
  BY DEF connected, Spoken, d, c, msg, p
<1> QED BY <1>1, <1>2, <1>8, <1>9, SameTwice

LEMMA AcceptedOK ==
    ASSUME NEW s, NEW ev, Good(s, ev), NEW n \in Nodes, NEW m \in Others(n), NEW id \in Ids,
           Fresh(ev, n, id), s.net.pipe[id].from = m, s.net.pipe[id].to = n,
           s.net.pipe[id].toFrom = <<>>, s.node[n].peer[m].st # "Unknown"
    PROVE  Good(accepted(s, n, m, id), ev) /\ Same(s, accepted(s, n, m, id), n)
<1> DEFINE p == Peer("Accepted", id, 0, 0)
<1>0. id \in PipeIds /\ id # 0
  BY Constants DEF PipeIds
<1>1. p \in Peers /\ p.id = id /\ p.st = "Accepted"
  <2>1. "Accepted" \in HasPipe /\ 0 \in Nat
    BY DEF HasPipe
  <2>2. IsHolder(p, "Accepted", id, 0, 0)
    BY <2>1, HolderMade
  <2> QED BY <2>2 DEF IsHolder
<1> HIDE DEF p
<1>2. HeldOK(s.net.pipe[p.id], n, m, p)
  BY <1>1 DEF HeldOK
<1>3. Good(Replace(s, n, m, p), ev) /\ Same(s, Replace(s, n, m, p), n)
  BY <1>1, <1>2, ReplaceOK
<1>4. Good(Close(s, id, n), ev) /\ Same(s, Close(s, id, n), n)
  BY <1>0, CloseOK
<1> QED BY <1>3, <1>4 DEF accepted, p

LEMMA HandleEventOK ==
    ASSUME NEW s, NEW ev, Good(s, ev), NEW n \in Nodes, NEW e \in Events(n),
           e.id # 0 => Fresh(ev, n, e.id) /\ BroughtOK(s.net.pipe[e.id], n, e),
           NEW L, Follows(Known(s, n), L, e)
    PROVE  LET t == HandleEvent(s, n, e)
           IN  Good(t, ev) /\ Near(s, t, n) /\ Known(t, n) = L
<1> DEFINE m == e.peer
           t == HandleEvent(s, n, e)
           known == s.node[n].peer[m].st # "Unknown"
<1>0. /\ m \in Others(n) /\ m \in Nodes /\ e.id \in PipeIds
      /\ e.type \in {"Registered", "Unregistered", "ConnectionFailed", "Connected", "Accepted"}
      /\ e.id # 0 <=> e.type \in {"Connected", "Accepted"}
      /\ e.id # 0 => e.id \in Ids
  BY EventType DEF Others, PipeIds
<1>1. e.type = "Registered" <=> ~known
  BY <1>0 DEF Follows, Known
<1>2. CASE e.type = "Registered"
  <2>1. t = Replace(s, n, m, Registered)
    BY <1>1, <1>2 DEF HandleEvent
  <2>2. Good(t, ev) /\ Near(s, t, n) /\ t.node[n].peer[m] = Registered
        /\ \A a \in Nodes : a # m => t.node[n].peer[a] = s.node[n].peer[a]
    BY <1>0, <2>1, PeersMade, ReplaceOK
  <2> HIDE DEF t
  <2>3. Known(t, n) = Known(s, n) \cup {m}
    BY <1>0, <2>2, PeersMade DEF Known
  <2> QED BY <1>2, <2>2, <2>3 DEF Follows, t
<1>3. CASE e.type = "Unregistered"
  <2>1. t = Replace(s, n, m, Unknown)
    BY <1>1, <1>3 DEF HandleEvent
  <2>2. Good(t, ev) /\ Near(s, t, n) /\ t.node[n].peer[m] = Unknown
        /\ \A a \in Nodes : a # m => t.node[n].peer[a] = s.node[n].peer[a]
    BY <1>0, <2>1, PeersMade, ReplaceOK
  <2> HIDE DEF t
  <2>3. Known(t, n) = Known(s, n) \ {m}
    BY <1>0, <2>2, PeersMade DEF Known
  <2> QED BY <1>3, <2>2, <2>3 DEF Follows, t
<1>4. CASE e.type = "Connected"
  <2>1. t = connected(s, n, m, e.id)
    BY <1>1, <1>4 DEF HandleEvent
  <2>2. Good(t, ev) /\ Same(s, t, n)
    BY <1>0, <1>1, <1>4, <2>1, ConnectedOK DEF BroughtOK
  <2> QED BY <1>4, <2>2 DEF Same, Follows
<1>5. CASE e.type = "Accepted"
  <2>1. t = accepted(s, n, m, e.id)
    BY <1>1, <1>5 DEF HandleEvent
  <2>2. Good(t, ev) /\ Same(s, t, n)
    BY <1>0, <1>1, <1>5, <2>1, AcceptedOK DEF BroughtOK
  <2> QED BY <1>5, <2>2 DEF Same, Follows
<1>6. CASE e.type = "ConnectionFailed"
  <2>1. t = disconnected(s, n, m)
    BY <1>1, <1>6 DEF HandleEvent
  <2>2. Good(t, ev) /\ Same(s, t, n)
    BY <1>0, <1>1, <1>6, <2>1, DisconnectedOK
  <2> QED BY <1>6, <2>2 DEF Same, Follows
<1> QED BY <1>0, <1>2, <1>3, <1>4, <1>5, <1>6

-----------------------------------------------------------------------------
(* The folds of the model *)

\* One step of the fold o.
Do(o, t, e) ==
    CASE o[1] = "HandleEvents" -> HandleEvent(t, o[2], e)
      [] o[1] = "send_blocks" -> SendNext(t, o[2], o[3], e)
      [] o[1] = "on_block" -> SendIfNext(t, o[2], e, o[3])
      [] o[1] = "HandleBlocks" -> handle_block(t, o[2], e)
      [] o[1] = "PollPeers" -> PollNext(t, o[2], e, o[3], o[4])
      [] o[1] = "LeaveAll" -> Leave(t, o[2], e)

\* g[x] is s after the elements of q with the indices x.
IsFolding(g, o, s, q, k) ==
    g = [x \in SUBSET (1 .. k) |-> IF x = {} THEN s ELSE Do(o, g[x \ {Max(x)}], q[Max(x)])]

LEMMA MaxOf ==
    ASSUME NEW k \in Nat, NEW x \in SUBSET (1 .. k), NEW y \in x, \A z \in x : y >= z
    PROVE  Max(x) = y
<1>1. \A z \in x : z \in Int
  OBVIOUS
<1>2. Max(x) \in x /\ \A z \in x : Max(x) >= z
  BY DEF Max
<1> DEFINE z == Max(x)
<1>3. z \in Int /\ y \in Int /\ y >= z /\ z >= y
  BY <1>1, <1>2
<1> HIDE DEF z
<1>4. z = y
  BY <1>3
<1> QED BY <1>4 DEF z

LEMMA FoldingExists ==
    ASSUME NEW o, NEW s, NEW q, NEW k \in Nat
    PROVE  \E g : IsFolding(g, o, s, q, k)
<1> DEFINE T == {i \in Nat : \E g : IsFolding(g, o, s, q, i)}
<1>1. 0 \in T
  <2> DEFINE g == [x \in SUBSET (1 .. 0) |-> s]
  <2>1. \A x \in SUBSET (1 .. 0) : x = {}
    OBVIOUS
  <2>2. IsFolding(g, o, s, q, 0)
    BY <2>1 DEF IsFolding
  <2> QED BY <2>2
<1>2. ASSUME NEW i \in T PROVE i + 1 \in T
  <2>1. PICK g : IsFolding(g, o, s, q, i)
    OBVIOUS
  <2> DEFINE Last1(x) == Do(o, g[x \ {i + 1}], q[i + 1])
             h == [x \in SUBSET (1 .. i + 1) |-> IF i + 1 \in x THEN Last1(x) ELSE g[x]]
  <2>2. \A x \in SUBSET (1 .. i + 1) : i + 1 \notin x => x \in SUBSET (1 .. i)
    OBVIOUS
  <2>3. \A x \in SUBSET (1 .. i + 1) : x \ {i + 1} \in SUBSET (1 .. i)
    OBVIOUS
  <2>4. ASSUME NEW x \in SUBSET (1 .. i + 1)
        PROVE  h[x] = IF x = {} THEN s ELSE Do(o, h[x \ {Max(x)}], q[Max(x)])
    <3>1. CASE x = {}
      <4>1. h[x] = g[x] /\ x \in SUBSET (1 .. i)
        BY <3>1
      <4> HIDE DEF h
      <4> QED BY <2>1, <3>1, <4>1 DEF IsFolding
    <3>2. CASE i + 1 \in x
      <4>1. Max(x) = i + 1
        <5>1. \A z \in x : i + 1 >= z
          OBVIOUS
        <5>2. i + 1 \in Nat
          OBVIOUS
        <5> QED BY <3>2, <5>1, <5>2, MaxOf
      <4>2. h[x] = Last1(x) /\ h[x \ {i + 1}] = g[x \ {i + 1}]
        BY <2>3, <3>2
      <4> HIDE DEF h
      <4> QED BY <3>2, <4>1, <4>2
    <3>3. CASE x # {} /\ i + 1 \notin x
      <4>1. h[x] = g[x] /\ x \in SUBSET (1 .. i)
        BY <2>2, <3>3
      <4>2. x \ {Max(x)} \in SUBSET (1 .. i)
        BY <4>1
      <4>3. h[x \ {Max(x)}] = g[x \ {Max(x)}]
        BY <4>2
      <4> HIDE DEF h
      <4> QED BY <2>1, <3>3, <4>1, <4>3 DEF IsFolding
    <3> QED BY <3>1, <3>2, <3>3
  <2>5. h = [x \in SUBSET (1 .. i + 1) |-> h[x]]
    OBVIOUS
  <2> HIDE DEF h
  <2>6. IsFolding(h, o, s, q, i + 1)
    BY <2>4, <2>5 DEF IsFolding
  <2> QED BY <2>6
<1> HIDE DEF T
<1>3. \A i \in Nat : i \in T
  BY <1>1, <1>2, NumberInduction
<1> QED BY <1>3 DEF T

\* What the first i elements give, from what the first i - 1 do.
LEMMA FirstOnes ==
    ASSUME NEW k \in Nat, NEW i \in 1 .. k
    PROVE  /\ 1 .. i \in SUBSET (1 .. k) /\ 1 .. i # {} /\ Max(1 .. i) = i
           /\ (1 .. i) \ {i} = 1 .. i - 1
<1>1. i \in 1 .. i /\ 1 .. i \in SUBSET (1 .. k) /\ \A z \in 1 .. i : i >= z
  OBVIOUS
<1>2. Max(1 .. i) = i
  BY <1>1, MaxOf
<1> QED BY <1>1, <1>2

IsHandling(g, n, s, q) ==
    g = [x \in SUBSET DOMAIN q |->
            IF x = {} THEN s ELSE HandleEvent(g[x \ {Max(x)}], n, q[Max(x)])]

LEMMA HandlingRun ==
    ASSUME NEW n, NEW s, NEW q, NEW k \in Nat, DOMAIN q = 1 .. k
    PROVE  LET g == CHOOSE h : IsHandling(h, n, s, q)
           IN  g[{}] = s /\ \A i \in 1 .. k : g[1 .. i] = HandleEvent(g[1 .. i - 1], n, q[i])
<1> DEFINE o == <<"HandleEvents", n>>
           g == CHOOSE h : IsHandling(h, n, s, q)
<1>1. \A t, e : Do(o, t, e) = HandleEvent(t, n, e)
  BY DEF Do
<1> HIDE DEF o
<1>2. PICK h : IsFolding(h, o, s, q, k)
  BY FoldingExists
<1>3. IsHandling(h, n, s, q)
  BY <1>1, <1>2 DEF IsFolding, IsHandling
<1>4. IsHandling(g, n, s, q)
  BY <1>3
<1> HIDE DEF g
<1>5. g[{}] = s
  BY <1>4 DEF IsHandling
<1>6. ASSUME NEW i \in 1 .. k PROVE g[1 .. i] = HandleEvent(g[1 .. i - 1], n, q[i])
  <2> DEFINE x == 1 .. i
  <2>1. x \in SUBSET DOMAIN q /\ x # {} /\ Max(x) = i /\ x \ {i} = 1 .. i - 1
    BY FirstOnes
  <2> HIDE DEF x
  <2>2. g[x] = HandleEvent(g[x \ {Max(x)}], n, q[Max(x)])
    BY <1>4, <2>1 DEF IsHandling
  <2> QED BY <2>1, <2>2 DEF x
<1> QED BY <1>5, <1>6 DEF g

LEMMA HandlingIs ==
    ASSUME NEW s, NEW n
    PROVE  LET s0 == [s EXCEPT !.node[n].events = <<>>]
           IN  HandleEvents(s, n) = (CHOOSE g : IsHandling(g, n, s0, s.node[n].events))
                                        [DOMAIN s.node[n].events]
  BY DEF HandleEvents, FoldLeft, MapThenFoldSet, IsHandling

\* q without its first i elements.
Rest(q, i) == SubSeq(q, i + 1, Len(q))

LEMMA RestIs ==
    ASSUME NEW S, NEW q \in Seq(S), NEW i \in 0 .. Len(q)
    PROVE  /\ Rest(q, i) \in Seq(S) /\ Len(Rest(q, i)) = Len(q) - i
           /\ \A j \in 1 .. Len(q) - i : Rest(q, i)[j] = q[i + j] /\ i + j \in 1 .. Len(q)
<1>1. Len(q) \in Nat
  OBVIOUS
<1>2. \A j \in i + 1 .. Len(q) : q[j] \in S
  OBVIOUS
<1>3. Rest(q, i) = [j \in 1 .. Len(q) - i |-> q[i + j]]
  BY <1>1 DEF Rest
<1>4. \A j \in 1 .. Len(q) - i : q[i + j] \in S /\ i + j \in 1 .. Len(q)
  BY <1>1, <1>2
<1> QED BY <1>1, <1>3, <1>4

LEMMA RestPending ==
    ASSUME NEW s, NEW n, NEW q \in Seq(Events(n)), NEW i \in 1 .. Len(q),
           PendingOK(s, n, Rest(q, i - 1))
    PROVE  /\ PendingOK(s, n, Rest(q, i)) /\ q[i] \in Events(n)
           /\ q[i].id # 0 => /\ BroughtOK(s.net.pipe[q[i].id], n, q[i])
                             /\ \A j \in 1 .. Len(Rest(q, i)) : Rest(q, i)[j].id # q[i].id
<1> DEFINE a == Rest(q, i - 1)
           b == Rest(q, i)
<1>0. Len(q) \in Nat /\ i - 1 \in 0 .. Len(q) /\ i \in 0 .. Len(q) /\ q[i] \in Events(n)
  OBVIOUS
<1>1. a \in Seq(Events(n)) /\ Len(a) = Len(q) - (i - 1)
      /\ \A j \in 1 .. Len(q) - (i - 1) : a[j] = q[(i - 1) + j]
  BY <1>0, RestIs
<1>2. b \in Seq(Events(n)) /\ Len(b) = Len(q) - i
      /\ \A j \in 1 .. Len(q) - i : b[j] = q[i + j]
  BY <1>0, RestIs
<1>3. PendingOK(s, n, a)
  OBVIOUS
<1> HIDE DEF a, b
<1>4. Len(a) = Len(b) + 1 /\ Len(b) \in Nat /\ a[1] = q[i]
      /\ \A j \in 1 .. Len(b) : b[j] = a[j + 1] /\ j + 1 \in 1 .. Len(a)
  <2>1. Len(a) = Len(b) + 1 /\ Len(b) \in Nat /\ 1 \in 1 .. Len(q) - (i - 1) /\ (i - 1) + 1 = i
    BY <1>0, <1>1, <1>2
  <2>2. ASSUME NEW j \in 1 .. Len(b) PROVE b[j] = a[j + 1] /\ j + 1 \in 1 .. Len(a)
    <3>1. j + 1 \in 1 .. Len(q) - (i - 1) /\ (i - 1) + (j + 1) = i + j
      BY <1>0, <1>1, <1>2
    <3> QED BY <1>1, <1>2, <3>1
  <2> QED BY <1>1, <2>1, <2>2
<1>5. ASSUME NEW j \in 1 .. Len(b), b[j].id # 0
      PROVE  /\ BroughtOK(s.net.pipe[b[j].id], n, b[j])
             /\ \A m \in Nodes : s.node[n].peer[m].id # b[j].id
             /\ \A l \in 1 .. Len(b) : b[l].id = b[j].id => j = l
  <2>1. /\ BroughtOK(s.net.pipe[a[j + 1].id], n, a[j + 1])
        /\ \A m \in Nodes : s.node[n].peer[m].id # a[j + 1].id
        /\ \A l \in 1 .. Len(a) : a[l].id = a[j + 1].id => j + 1 = l
    BY <1>3, <1>4, <1>5 DEF PendingOK
  <2>2. ASSUME NEW l \in 1 .. Len(b), b[l].id = b[j].id PROVE j = l
    <3>1. l + 1 \in 1 .. Len(a) /\ a[l + 1].id = a[j + 1].id
      BY <1>4, <2>2
    <3>2. j + 1 = l + 1
      BY <2>1, <3>1
    <3> QED BY <3>2
  <2> QED BY <1>4, <2>1, <2>2
<1>6. PendingOK(s, n, b)
  BY <1>2, <1>5 DEF PendingOK
<1>7. ASSUME q[i].id # 0
      PROVE  /\ BroughtOK(s.net.pipe[q[i].id], n, q[i])
             /\ \A j \in 1 .. Len(b) : b[j].id # q[i].id
  <2>1. 1 \in 1 .. Len(a) /\ a[1].id # 0
    BY <1>4, <1>7
  <2>2. BroughtOK(s.net.pipe[a[1].id], n, a[1]) /\ \A l \in 1 .. Len(a) : a[l].id = a[1].id => 1 = l
    BY <1>3, <2>1 DEF PendingOK
  <2>3. ASSUME NEW j \in 1 .. Len(b), b[j].id = q[i].id PROVE FALSE
    <3>1. j + 1 \in 1 .. Len(a) /\ a[j + 1].id = a[1].id
      BY <1>4, <2>3
    <3>2. 1 = j + 1
      BY <2>2, <3>1
    <3> QED BY <3>2
  <2> QED BY <1>4, <2>2, <2>3
<1> QED BY <1>0, <1>6, <1>7 DEF a, b

LEMMA OtherPending ==
    ASSUME NEW s, NEW ev, Good(s, ev), NEW n \in Nodes, NEW q, PendingOK(s, n, q)
    PROVE  LET ev2 == [ev EXCEPT ![n] = q]
           IN  Good(s, ev2) /\ ev2[n] = q
<1> DEFINE ev2 == [ev EXCEPT ![n] = q]
<1>1. DOMAIN ev2 = Nodes /\ ev2[n] = q /\ \A a \in Nodes : a # n => ev2[a] = ev[a]
  BY DEF Good, Pending
<1> HIDE DEF ev2
<1>2. Pending(s, ev2)
  BY <1>1 DEF Good, Pending
<1>3. Good(s, ev2)
  BY <1>2 DEF Good
<1> QED BY <1>1, <1>3 DEF ev2

\* The peers of the nodes are known as before, and the queues are as they were.
LEMMA KnowsSame ==
    ASSUME NEW s, NEW t, NEW n \in Nodes, NEW ev, Same(s, t, n), Knows(s, ev)
    PROVE  Knows(t, ev)
<1>1. \A a \in Nodes : Linked(t, a) = Linked(s, a)
  BY DEF Same, Near, Linked
<1>2. \A a \in Nodes : Known(t, a) = Known(s, a)
  BY DEF Same, Near, Known, Others
<1> QED BY <1>1, <1>2 DEF Knows

LEMMA QueuesSame ==
    ASSUME NEW s, NEW t, NEW n \in Nodes, Near(s, t, n)
    PROVE  Queues(t) = Queues(s)
<1>1. \A a \in Nodes : t.node[a].events = s.node[a].events
  BY DEF Near, Others
<1> QED BY <1>1 DEF Queues

\* The queue of the node is empty: its events are handled one by one.
LEMMA EmptyQueue ==
    ASSUME NEW s, NEW ev, Good(s, ev), NEW n \in Nodes
    PROVE  LET t == [s EXCEPT !.node[n].events = <<>>]
           IN  /\ Good(t, ev) /\ t.node[n].events = <<>> /\ Known(t, n) = Known(s, n)
               /\ t.net = s.net /\ \A a \in Nodes : a # n => t.node[a] = s.node[a]
<1> DEFINE t == [s EXCEPT !.node[n].events = <<>>]
<1>0. DOMAIN s.node[n] = Fields
  BY DEF Good, Nodely, NodeOK
<1>1. /\ Shape(t) /\ t.net = s.net /\ \A a \in Nodes : a # n => t.node[a] = s.node[a]
      /\ DOMAIN t.node[n] = Fields /\ t.node[n].events = <<>>
      /\ t.node[n].peer = s.node[n].peer /\ t.node[n].epoch = s.node[n].epoch
      /\ t.node[n].micros = s.node[n].micros /\ t.node[n].panicked = s.node[n].panicked
  BY <1>0 DEF Good, Shape, Fields
<1> HIDE DEF t
<1>2. Nodely(t)
  <2> SUFFICES ASSUME NEW a \in Nodes PROVE NodeOK(t.node[a], a)
    BY DEF Nodely
  <2>1. NodeOK(s.node[a], a)
    BY DEF Good, Nodely
  <2>2. CASE a = n
    BY <1>1, <2>1, <2>2 DEF NodeOK, ChainOK
  <2> QED BY <1>1, <2>1, <2>2
<1>3. \A a \in Nodes : t.node[a].peer = s.node[a].peer
  BY <1>1
<1>4. LinksOK(t) /\ Pipes(t) /\ Held(t)
  BY <1>1, <1>3 DEF Good, LinksOK, Pipes, Held
<1>5. Pending(t, ev)
  BY <1>1, <1>3 DEF Good, Pending, PendingOK
<1>6. Known(t, n) = Known(s, n)
  BY <1>3 DEF Known
<1> QED BY <1>1, <1>2, <1>4, <1>5, <1>6 DEF Good, t

LEMMA HandleEventsOK ==
    ASSUME NEW s, Good(s, Queues(s)), Knows(s, Queues(s)), NEW n \in Nodes
    PROVE  LET t == HandleEvents(s, n)
           IN  Good(t, Queues(t)) /\ Knows(t, Queues(t))
<1> DEFINE q == s.node[n].events
           L == Len(q)
           s0 == [s EXCEPT !.node[n].events = <<>>]
           g == CHOOSE h : IsHandling(h, n, s0, q)
           ev == Queues(s)
           Left(i) == [ev EXCEPT ![n] = Rest(q, i)]
           t == HandleEvents(s, n)
<1>1. ev[n] = q /\ DOMAIN ev = Nodes /\ \A a \in Nodes : ev[a] = s.node[a].events
  BY DEF Queues
<1>2. q \in Seq(Events(n)) /\ PendingOK(s, n, q)
  BY <1>1 DEF Good, Pending, PendingOK
<1>3. L \in Nat /\ DOMAIN q = 1 .. L
  BY <1>2
<1>4. Leads(q, Known(s, n), Linked(s, n))
  BY <1>1 DEF Knows
<1>5. PICK k \in [0 .. L -> SUBSET Nodes] :
         k[0] = Known(s, n) /\ k[L] = Linked(s, n) /\ \A i \in 1 .. L : Follows(k[i - 1], k[i], q[i])
  BY <1>4 DEF Leads
<1>6. /\ Good(s0, ev) /\ s0.node[n].events = <<>> /\ Known(s0, n) = Known(s, n)
      /\ s0.net = s.net /\ \A a \in Nodes : a # n => s0.node[a] = s.node[a]
  BY EmptyQueue
<1>7. g[{}] = s0 /\ \A i \in 1 .. L : g[1 .. i] = HandleEvent(g[1 .. i - 1], n, q[i])
  BY <1>3, HandlingRun
<1>8. t = g[1 .. L]
  BY <1>3, HandlingIs
<1> HIDE DEF g, ev, s0, t
<1> DEFINE Ok(i) == /\ Good(g[1 .. i], Left(i)) /\ Near(s0, g[1 .. i], n)
                    /\ Known(g[1 .. i], n) = k[i]
           T == {i \in Nat : i <= L => Ok(i)}
<1>9. 0 \in T
  <2>1. Rest(q, 0) = q
    <3>1. 0 \in 0 .. L
      BY <1>3
    <3>2. Rest(q, 0) \in Seq(Events(n)) /\ Len(Rest(q, 0)) = L - 0
          /\ \A j \in 1 .. L - 0 : Rest(q, 0)[j] = q[0 + j]
      BY <1>2, <3>1, RestIs
    <3>3. Len(Rest(q, 0)) = L /\ \A j \in 1 .. L : Rest(q, 0)[j] = q[j]
      BY <1>3, <3>2
    <3> QED BY <1>2, <1>3, <3>2, <3>3
  <2>2. Left(0) = ev
    BY <1>1, <2>1 DEF ev, Queues
  <2>3. 1 .. 0 = {}
    OBVIOUS
  <2>4. Near(s0, s0, n)
    BY DEF Near
  <2>5. g[1 .. 0] = s0
    BY <1>7, <2>3
  <2>6. Ok(0)
    BY <1>5, <1>6, <2>2, <2>4, <2>5
  <2> QED BY <2>6
<1>10. ASSUME NEW j \in Nat, j \in T PROVE j + 1 \in T
  <2> DEFINE i == j + 1
  <2> SUFFICES ASSUME i <= L PROVE Ok(i)
    OBVIOUS
  <2>1. i \in 1 .. L /\ i - 1 = j /\ j <= L
    BY <1>3
  <2>2. Ok(j)
    BY <1>10, <2>1
  <2> HIDE DEF i
  <2> DEFINE u == g[1 .. j]
  <2>3. Good(u, Left(j)) /\ Near(s0, u, n) /\ Known(u, n) = k[j]
    BY <2>2
  <2>4. Left(j)[n] = Rest(q, j)
    BY <1>1
  <2>5. PendingOK(u, n, Rest(q, i - 1))
    BY <2>1, <2>3, <2>4 DEF Good, Pending
  <2>6. /\ PendingOK(u, n, Rest(q, i)) /\ q[i] \in Events(n)
        /\ q[i].id # 0 => /\ BroughtOK(u.net.pipe[q[i].id], n, q[i])
                          /\ \A l \in 1 .. Len(Rest(q, i)) : Rest(q, i)[l].id # q[i].id
    <3> HIDE DEF q, u
    <3>1. q \in Seq(Events(n)) /\ i \in 1 .. Len(q)
      BY <1>2, <2>1
    <3> QED BY <2>5, <3>1, RestPending
  <2>7. Left(i) = [Left(j) EXCEPT ![n] = Rest(q, i)]
    BY <1>1
  <2> HIDE DEF Left, u
  <2>8. Good(u, Left(i)) /\ Left(i)[n] = Rest(q, i)
    BY <2>3, <2>6, <2>7, OtherPending
  <2>9. q[i].id # 0 => Fresh(Left(i), n, q[i].id)
    BY <2>6, <2>8 DEF Fresh
  <2>10. Follows(Known(u, n), k[i], q[i])
    BY <1>5, <2>1, <2>3
  <2>11. LET v == HandleEvent(u, n, q[i]) IN Good(v, Left(i)) /\ Near(u, v, n) /\ Known(v, n) = k[i]
    BY <2>6, <2>8, <2>9, <2>10, HandleEventOK
  <2>12. g[1 .. i] = HandleEvent(u, n, q[i])
    BY <1>7, <2>1 DEF u
  <2>13. Near(s0, g[1 .. i], n)
    BY <2>3, <2>11, <2>12 DEF Near
  <2> QED BY <2>11, <2>12, <2>13
<1>11. L \in T
  <2> HIDE DEF T
  <2> QED BY <1>3, <1>9, <1>10, NumberInduction
<1>12. Good(t, Left(L)) /\ Near(s0, t, n) /\ Known(t, n) = k[L]
  <2> HIDE DEF Left, L
  <2>1. Ok(L)
    <3> HIDE DEF Ok
    <3> QED BY <1>3, <1>11
  <2> QED BY <1>8, <2>1
<1>13. Rest(q, L) = <<>>
  <2>1. L \in 0 .. L
    BY <1>3
  <2>2. Rest(q, L) \in Seq(Events(n)) /\ Len(Rest(q, L)) = L - L
    BY <1>2, <2>1, RestIs
  <2> QED BY <1>3, <2>2
<1>14. Queues(t) = Left(L)
  <2>1. \A a \in Nodes : t.node[a].events = IF a = n THEN <<>> ELSE s.node[a].events
    BY <1>6, <1>12 DEF Near, Others
  <2> QED BY <1>1, <1>13, <2>1 DEF Queues, ev
<1>15. Knows(t, Queues(t))
  <2> SUFFICES ASSUME NEW a \in Nodes PROVE Leads(Queues(t)[a], Known(t, a), Linked(t, a))
    BY DEF Knows
  <2>1. Linked(t, a) = Linked(s, a)
    BY <1>6, <1>12 DEF Near, Linked
  <2>2. CASE a = n
    <3>1. Queues(t)[a] = <<>> /\ Known(t, a) = Linked(t, a)
      BY <1>1, <1>5, <1>12, <1>13, <1>14, <2>1, <2>2
    <3>2. Linked(t, a) \in SUBSET Nodes
      BY DEF Linked
    <3> DEFINE z == [i \in 0 .. 0 |-> Linked(t, a)]
    <3>3. z \in [0 .. 0 -> SUBSET Nodes] /\ z[0] = Linked(t, a)
      BY <3>2
    <3> HIDE DEF z
    <3> QED BY <3>1, <3>3 DEF Leads
  <2>3. CASE a # n
    <3>1. t.node[a] = s.node[a]
      BY <1>6, <1>12, <2>3 DEF Near, Others
    <3>2. Known(t, a) = Known(s, a) /\ Queues(t)[a] = ev[a]
      BY <3>1 DEF Known, Queues, ev
    <3> QED BY <2>1, <3>2 DEF Knows, ev
  <2> QED BY <2>2, <2>3
<1> QED BY <1>12, <1>14, <1>15 DEF t

IsSending(g, n, m, s, q) ==
    g = [x \in SUBSET DOMAIN q |->
            IF x = {} THEN s ELSE SendNext(g[x \ {Max(x)}], n, m, q[Max(x)])]

LEMMA SendingRun ==
    ASSUME NEW n, NEW m, NEW s, NEW q, NEW k \in Nat, DOMAIN q = 1 .. k
    PROVE  LET g == CHOOSE h : IsSending(h, n, m, s, q)
           IN  g[{}] = s /\ \A i \in 1 .. k : g[1 .. i] = SendNext(g[1 .. i - 1], n, m, q[i])
<1> DEFINE o == <<"send_blocks", n, m>>
           g == CHOOSE h : IsSending(h, n, m, s, q)
<1>1. \A t, e : Do(o, t, e) = SendNext(t, n, m, e)
  BY DEF Do
<1> HIDE DEF o
<1>2. PICK h : IsFolding(h, o, s, q, k)
  BY FoldingExists
<1>3. IsSending(h, n, m, s, q)
  BY <1>1, <1>2 DEF IsFolding, IsSending
<1>4. IsSending(g, n, m, s, q)
  BY <1>3
<1> HIDE DEF g
<1>5. g[{}] = s
  BY <1>4 DEF IsSending
<1>6. ASSUME NEW i \in 1 .. k PROVE g[1 .. i] = SendNext(g[1 .. i - 1], n, m, q[i])
  <2> DEFINE x == 1 .. i
  <2>1. x \in SUBSET DOMAIN q /\ x # {} /\ Max(x) = i /\ x \ {i} = 1 .. i - 1
    BY FirstOnes
  <2> HIDE DEF x
  <2>2. g[x] = SendNext(g[x \ {Max(x)}], n, m, q[Max(x)])
    BY <1>4, <2>1 DEF IsSending
  <2> QED BY <2>1, <2>2 DEF x
<1> QED BY <1>5, <1>6 DEF g

\* The blocks of one batch.
Batch(blocks) ==
    SubSeq(blocks, 1, IF Len(blocks) < MAX_BLOCKS_PER_BATCH THEN Len(blocks)
                      ELSE MAX_BLOCKS_PER_BATCH)

LEMMA SendingIs ==
    ASSUME NEW s, NEW n, NEW m, NEW blocks
    PROVE  send_blocks(s, n, m, blocks) =
             (CHOOSE g : IsSending(g, n, m, [s |-> s, stop |-> FALSE], Batch(blocks)))
                 [DOMAIN Batch(blocks)].s
  BY DEF send_blocks, FoldLeft, MapThenFoldSet, IsSending, Batch

IsTelling(g, n, b, s, q) ==
    g = [x \in SUBSET DOMAIN q |->
            IF x = {} THEN s ELSE SendIfNext(g[x \ {Max(x)}], n, q[Max(x)], b)]

Telling(n, b, s, q) == CHOOSE h : IsTelling(h, n, b, s, q)

LEMMA TellingRun ==
    ASSUME NEW n, NEW b, NEW s, NEW q, NEW k \in Nat, DOMAIN q = 1 .. k
    PROVE  LET g == Telling(n, b, s, q)
           IN  g[{}] = s /\ \A i \in 1 .. k : g[1 .. i] = SendIfNext(g[1 .. i - 1], n, q[i], b)
<1> DEFINE o == <<"on_block", n, b>>
           g == Telling(n, b, s, q)
<1>1. \A t, e : Do(o, t, e) = SendIfNext(t, n, e, b)
  BY DEF Do
<1> HIDE DEF o
<1>2. PICK h : IsFolding(h, o, s, q, k)
  BY FoldingExists
<1>3. IsTelling(h, n, b, s, q)
  BY <1>1, <1>2 DEF IsFolding, IsTelling
<1>4. IsTelling(g, n, b, s, q)
  BY <1>3 DEF Telling
<1> HIDE DEF g
<1>5. g[{}] = s
  BY <1>4 DEF IsTelling
<1>6. ASSUME NEW i \in 1 .. k PROVE g[1 .. i] = SendIfNext(g[1 .. i - 1], n, q[i], b)
  <2> DEFINE x == 1 .. i
  <2>1. x \in SUBSET DOMAIN q /\ x # {} /\ Max(x) = i /\ x \ {i} = 1 .. i - 1
    BY FirstOnes
  <2> HIDE DEF x
  <2>2. g[x] = SendIfNext(g[x \ {Max(x)}], n, q[Max(x)], b)
    BY <1>4, <2>1 DEF IsTelling
  <2> QED BY <2>1, <2>2 DEF x
<1> QED BY <1>5, <1>6 DEF g

LEMMA TellingIs ==
    ASSUME NEW s, NEW n, NEW b
    PROVE  on_block(s, n, b) = Telling(n, b, s, SetToSeq(Others(n)))[DOMAIN SetToSeq(Others(n))]
<1>1. on_block(s, n, b) = (CHOOSE g : IsTelling(g, n, b, s, SetToSeq(Others(n))))
                                   [DOMAIN SetToSeq(Others(n))]
  BY DEF on_block, FoldLeft, MapThenFoldSet, IsTelling
<1> QED BY <1>1 DEF Telling

IsTaking(g, n, s, q) ==
    g = [x \in SUBSET DOMAIN q |->
            IF x = {} THEN s ELSE handle_block(g[x \ {Max(x)}], n, q[Max(x)])]

Taking(n, s, q) == CHOOSE h : IsTaking(h, n, s, q)

LEMMA TakingRun ==
    ASSUME NEW n, NEW s, NEW q, NEW k \in Nat, DOMAIN q = 1 .. k
    PROVE  LET g == Taking(n, s, q)
           IN  g[{}] = s /\ \A i \in 1 .. k : g[1 .. i] = handle_block(g[1 .. i - 1], n, q[i])
<1> DEFINE o == <<"HandleBlocks", n>>
           g == Taking(n, s, q)
<1>1. \A t, e : Do(o, t, e) = handle_block(t, n, e)
  BY DEF Do
<1> HIDE DEF o
<1>2. PICK h : IsFolding(h, o, s, q, k)
  BY FoldingExists
<1>3. IsTaking(h, n, s, q)
  BY <1>1, <1>2 DEF IsFolding, IsTaking
<1>4. IsTaking(g, n, s, q)
  BY <1>3 DEF Taking
<1> HIDE DEF g
<1>5. g[{}] = s
  BY <1>4 DEF IsTaking
<1>6. ASSUME NEW i \in 1 .. k PROVE g[1 .. i] = handle_block(g[1 .. i - 1], n, q[i])
  <2> DEFINE x == 1 .. i
  <2>1. x \in SUBSET DOMAIN q /\ x # {} /\ Max(x) = i /\ x \ {i} = 1 .. i - 1
    BY FirstOnes
  <2> HIDE DEF x
  <2>2. g[x] = handle_block(g[x \ {Max(x)}], n, q[Max(x)])
    BY <1>4, <2>1 DEF IsTaking
  <2> QED BY <2>1, <2>2 DEF x
<1> QED BY <1>5, <1>6 DEF g

LEMMA TakingIs ==
    ASSUME NEW s, NEW n, NEW q
    PROVE  HandleBlocks(s, n, q) = Taking(n, s, q)[DOMAIN q]
<1>1. HandleBlocks(s, n, q) = (CHOOSE g : IsTaking(g, n, s, q))[DOMAIN q]
  BY DEF HandleBlocks, FoldLeft, MapThenFoldSet, IsTaking
<1> QED BY <1>1 DEF Taking

IsPolling(g, n, y, late, s, q) ==
    g = [x \in SUBSET DOMAIN q |->
            IF x = {} THEN s ELSE PollNext(g[x \ {Max(x)}], n, q[Max(x)], y, late)]

Polling(n, y, late, s, q) == CHOOSE h : IsPolling(h, n, y, late, s, q)

LEMMA PollingRun ==
    ASSUME NEW n, NEW y, NEW late, NEW s, NEW q, NEW k \in Nat, DOMAIN q = 1 .. k
    PROVE  LET g == Polling(n, y, late, s, q)
           IN  g[{}] = s /\ \A i \in 1 .. k : g[1 .. i] = PollNext(g[1 .. i - 1], n, q[i], y, late)
<1> DEFINE o == <<"PollPeers", n, y, late>>
           g == Polling(n, y, late, s, q)
<1>1. \A t, e : Do(o, t, e) = PollNext(t, n, e, y, late)
  BY DEF Do
<1> HIDE DEF o
<1>2. PICK h : IsFolding(h, o, s, q, k)
  BY FoldingExists
<1>3. IsPolling(h, n, y, late, s, q)
  BY <1>1, <1>2 DEF IsFolding, IsPolling
<1>4. IsPolling(g, n, y, late, s, q)
  BY <1>3 DEF Polling
<1> HIDE DEF g
<1>5. g[{}] = s
  BY <1>4 DEF IsPolling
<1>6. ASSUME NEW i \in 1 .. k PROVE g[1 .. i] = PollNext(g[1 .. i - 1], n, q[i], y, late)
  <2> DEFINE x == 1 .. i
  <2>1. x \in SUBSET DOMAIN q /\ x # {} /\ Max(x) = i /\ x \ {i} = 1 .. i - 1
    BY FirstOnes
  <2> HIDE DEF x
  <2>2. g[x] = PollNext(g[x \ {Max(x)}], n, q[Max(x)], y, late)
    BY <1>4, <2>1 DEF IsPolling
  <2> QED BY <2>1, <2>2 DEF x
<1> QED BY <1>5, <1>6 DEF g

LEMMA PollingIs ==
    ASSUME NEW s, NEW n, NEW y, NEW late
    PROVE  PollPeers(s, n, y, late) =
             Polling(n, y, late, Result(s, <<>>), SetToSeq(Others(n)))[DOMAIN SetToSeq(Others(n))]
<1>1. PollPeers(s, n, y, late) =
             (CHOOSE g : IsPolling(g, n, y, late, Result(s, <<>>), SetToSeq(Others(n))))
                 [DOMAIN SetToSeq(Others(n))]
  BY DEF PollPeers, FoldLeft, MapThenFoldSet, IsPolling
<1> QED BY <1>1 DEF Polling

IsLeaving(g, n, s, q) ==
    g = [x \in SUBSET DOMAIN q |->
            IF x = {} THEN s ELSE Leave(g[x \ {Max(x)}], n, q[Max(x)])]

Leaving(n, s, q) == CHOOSE h : IsLeaving(h, n, s, q)

LEMMA LeavingRun ==
    ASSUME NEW n, NEW s, NEW q, NEW k \in Nat, DOMAIN q = 1 .. k
    PROVE  LET g == Leaving(n, s, q)
           IN  g[{}] = s /\ \A i \in 1 .. k : g[1 .. i] = Leave(g[1 .. i - 1], n, q[i])
<1> DEFINE o == <<"LeaveAll", n>>
           g == Leaving(n, s, q)
<1>1. \A t, e : Do(o, t, e) = Leave(t, n, e)
  BY DEF Do
<1> HIDE DEF o
<1>2. PICK h : IsFolding(h, o, s, q, k)
  BY FoldingExists
<1>3. IsLeaving(h, n, s, q)
  BY <1>1, <1>2 DEF IsFolding, IsLeaving
<1>4. IsLeaving(g, n, s, q)
  BY <1>3 DEF Leaving
<1> HIDE DEF g
<1>5. g[{}] = s
  BY <1>4 DEF IsLeaving
<1>6. ASSUME NEW i \in 1 .. k PROVE g[1 .. i] = Leave(g[1 .. i - 1], n, q[i])
  <2> DEFINE x == 1 .. i
  <2>1. x \in SUBSET DOMAIN q /\ x # {} /\ Max(x) = i /\ x \ {i} = 1 .. i - 1
    BY FirstOnes
  <2> HIDE DEF x
  <2>2. g[x] = Leave(g[x \ {Max(x)}], n, q[Max(x)])
    BY <1>4, <2>1 DEF IsLeaving
  <2> QED BY <2>1, <2>2 DEF x
<1> QED BY <1>5, <1>6 DEF g

LEMMA LeavingIs ==
    ASSUME NEW s, NEW n
    PROVE  LeaveAll(s, n) = Leaving(n, s, SetToSeq(Others(n)))[DOMAIN SetToSeq(Others(n))]
<1>1. LeaveAll(s, n) = (CHOOSE g : IsLeaving(g, n, s, SetToSeq(Others(n))))
                                [DOMAIN SetToSeq(Others(n))]
  BY DEF LeaveAll, FoldLeft, MapThenFoldSet, IsLeaving
<1> QED BY <1>1 DEF Leaving

-----------------------------------------------------------------------------
(* Sending blocks *)

LEMMA SetList ==
    ASSUME NEW S, IsFiniteSet(S)
    PROVE  \E k \in Nat : /\ DOMAIN SetToSeq(S) = 1 .. k
                          /\ \A i \in 1 .. k : SetToSeq(S)[i] \in S
<1>1. PICK k \in Nat : ExistsBijection(1 .. k, S)
  BY FS_NatBijection
<1>2. Cardinality(S) = k
  BY <1>1, FS_CountingElements
<1>3. PICK f : f \in Bijection(1 .. k, S)
  BY <1>1 DEF ExistsBijection
<1>4. f \in [1 .. k -> S] /\ IsInjective(f)
  BY <1>3 DEF Bijection, Injection, IsInjective
<1>5. SetToSeq(S) \in [1 .. k -> S]
  BY <1>2, <1>4 DEF SetToSeq
<1> QED BY <1>5

LEMMA OthersList ==
    ASSUME NEW n \in Nodes
    PROVE  \E k \in Nat : /\ DOMAIN SetToSeq(Others(n)) = 1 .. k
                          /\ \A i \in 1 .. k : SetToSeq(Others(n))[i] \in Others(n)
<1>1. IsFiniteSet(Others(n))
  BY Constants, FS_Subset DEF Others
<1> QED BY <1>1, SetList

LEMMA AfterType ==
    ASSUME NEW b \in Blocks
    PROVE  /\ After(b).epoch \in Nat /\ After(b).offset \in Nat
           /\ After(b) = [epoch |-> After(b).epoch, offset |-> After(b).offset]
<1>1. b.epoch \in Nat /\ b.offset \in Nat
  BY BlockType, Constants
<1> QED BY <1>1 DEF After

LEMMA StreamAppend ==
    ASSUME NEW q \in Inboxes, NEW p, Stream(q, p), NEW b \in Blocks, Covers(p, b),
           NEW p2, p2.epoch = After(b).epoch, p2.offset = After(b).offset
    PROVE  Stream(Append(q, [type |-> "Block", block |-> b]), p2)
<1> DEFINE x == [type |-> "Block", block |-> b]
           r == Append(q, x)
           k == Len(q)
<1>1. x.type = "Block" /\ x.block = b
  OBVIOUS
<1>2. k \in Nat /\ Len(r) = k + 1 /\ r[k + 1] = x /\ (\A i \in 1 .. k : r[i] = q[i])
      /\ (k # 0 => q # <<>>)
  BY InboxType
<1> HIDE DEF x, r, k
<1>3. ASSUME NEW i \in 1 .. Len(r) - 1, r[i].type = "Block"
      PROVE  r[i + 1].type = "Block" /\ Covers(After(r[i].block), r[i + 1].block)
  <2>1. i \in 1 .. k /\ r[i] = q[i]
    BY <1>2
  <2>2. CASE i = k
    <3>1. q # <<>> /\ q[k].type = "Block"
      BY <1>2, <1>3, <2>1, <2>2
    <3>2. After(q[k].block) = [epoch |-> p.epoch, offset |-> p.offset]
      BY <3>1 DEF Stream, k
    <3>3. Covers(After(q[k].block), b)
      BY <3>2 DEF Covers
    <3> QED BY <1>1, <1>2, <2>1, <2>2, <3>3
  <2>3. CASE i # k
    <3>1. i \in 1 .. k - 1 /\ i + 1 \in 1 .. k
      BY <1>2, <2>1, <2>3
    <3>2. q[i + 1].type = "Block" /\ Covers(After(q[i].block), q[i + 1].block)
      BY <1>3, <2>1, <3>1 DEF Stream, k
    <3> QED BY <1>2, <2>1, <3>1, <3>2
  <2> QED BY <2>2, <2>3
<1>4. After(r[Len(r)].block) = [epoch |-> p2.epoch, offset |-> p2.offset]
  BY <1>1, <1>2, AfterType
<1>5. Stream(r, p2)
  BY <1>3, <1>4 DEF Stream
<1> QED BY <1>5 DEF r, x

LEMMA HeldIsFresh ==
    ASSUME NEW s, NEW ev, Good(s, ev), NEW n \in Nodes, NEW m \in Nodes,
           s.node[n].peer[m].id # 0
    PROVE  /\ Fresh(ev, n, s.node[n].peer[m].id)
           /\ HeldOK(s.net.pipe[s.node[n].peer[m].id], n, m, s.node[n].peer[m])
           /\ s.node[n].peer[m] \in Peers
  BY DEF Good, Pending, PendingOK, Fresh, Held, Nodely, NodeOK

LEMMA SendBlockOK ==
    ASSUME NEW s, NEW ev, Good(s, ev), NEW n \in Nodes, NEW m \in Others(n), NEW b \in Blocks,
           s.node[n].peer[m].st = "Sending", Covers(s.node[n].peer[m], b)
    PROVE  LET t == SendBlock(s, n, m, b)
               p2 == t.node[n].peer[m]
           IN  /\ Good(t, ev) /\ Same(s, t, n)
               /\ \/ t = s
                  \/ /\ p2.st = "Sending"
                     /\ p2.epoch = After(b).epoch /\ p2.offset = After(b).offset
<1> DEFINE p == s.node[n].peer[m]
           to == After(b)
           msg == [type |-> "Block", block |-> b]
           p2 == Peer("Sending", p.id, to.epoch, to.offset)
           w == s.net.pipe[p.id]
           t == SendBlock(s, n, m, b)
           u == Spoken(s, n, m, p.id, msg, p2)
<1>0. m \in Nodes /\ m # n
  BY DEF Others
<1>1. p \in Peers
  BY <1>0 DEF Good, Nodely, NodeOK
<1>2. p.id # 0 /\ p.id \in Ids /\ p.id \in PipeIds
  BY <1>1, PeerType DEF HasPipe
<1>3. Fresh(ev, n, p.id) /\ HeldOK(w, n, m, p)
  BY <1>0, <1>2, HeldIsFresh
<1>4. to.epoch \in Nat /\ to.offset \in Nat
  BY AfterType
<1>5. msg \in Messages
  BY BlockMessageType
<1>6. Covers(p, b) /\ p.st = "Sending" /\ Same(s, s, n)
  BY DEF Same, Near
<1>7. t = IF ~IsOpen(s, p.id, n) \/ ~HasRoom(s, p.id, n) THEN s ELSE u
  BY <1>6 DEF SendBlock, Spoken
<1>8. w.from = m /\ w.to = n /\ (m \in w.ends => Stream(w.toFrom, p)) /\ PipeOK(w)
  BY <1>2, <1>3, <1>6 DEF HeldOK, Good, Pipes
<1>9. HasRoom(s, p.id, n) <=> Len(Mail(w, m)) < BUFFER_SIZE
  BY <1>0, <1>8 DEF HasRoom, Inbox, Other, Mail
<1> HIDE DEF p, to, msg, t, u, w
<1>10. /\ p2 \in Peers /\ p2.id = p.id /\ p2.st = "Sending"
       /\ p2.epoch = to.epoch /\ p2.offset = to.offset
  <2>1. "Sending" \in HasPipe
    BY DEF HasPipe
  <2>2. IsHolder(p2, "Sending", p.id, to.epoch, to.offset)
    BY <1>2, <1>4, <2>1, HolderMade
  <2> QED BY <2>2 DEF IsHolder
<1> HIDE DEF p2
<1>11. Takes(w, n, m, msg, p2)
  <2> SUFFICES ASSUME NEW w2, Filled(w2, w, n),
                      m \in w2.ends => Mail(w2, m) = Append(Mail(w, m), msg)
               PROVE  HeldOK(w2, n, m, p2)
    BY DEF Takes
  <2>1. w2.from = m /\ w2.to = n /\ w2.ends = w.ends
    BY <1>8 DEF Filled
  <2>2. ASSUME m \in w2.ends PROVE Stream(w2.toFrom, p2)
    <3>1. w2.toFrom = Append(w.toFrom, msg) /\ Stream(w.toFrom, p) /\ w.toFrom \in Inboxes
      BY <1>8, <2>1, <2>2 DEF Mail, PipeOK
    <3> QED BY <1>6, <1>10, <3>1, StreamAppend DEF msg, to
  <2> QED BY <1>10, <2>1, <2>2 DEF HeldOK
<1>12. CASE ~IsOpen(s, p.id, n) \/ ~HasRoom(s, p.id, n)
  BY <1>6, <1>7, <1>12 DEF t
<1>13. CASE IsOpen(s, p.id, n) /\ HasRoom(s, p.id, n)
  <2>1. Between(w, n, m) /\ Len(Mail(w, m)) < BUFFER_SIZE
    BY <1>8, <1>9, <1>13 DEF Between
  <2>2. s.net.pipe[p2.id] = w /\ s.node[n].peer[m].st # "Unknown" /\ Fresh(ev, n, p2.id)
        /\ p2.id # 0 /\ p2.st # "Unknown"
    BY <1>2, <1>3, <1>6, <1>10 DEF w, p
  <2>3. LET v == Spoken(s, n, m, p2.id, msg, p2)
        IN  Good(v, ev) /\ Same(s, v, n) /\ v.node[n].peer[m] = p2
    BY <1>5, <1>10, <1>11, <2>1, <2>2, SpeakOK
  <2>4. Good(u, ev) /\ Same(s, u, n) /\ u.node[n].peer[m] = p2
    BY <1>10, <2>3 DEF u
  <2>5. t = u
    BY <1>7, <1>13
  <2> QED BY <1>10, <2>4, <2>5 DEF t, to
<1> QED BY <1>12, <1>13

\* The blocks Q follow each other, from the position p on.
Chained(p, Q) ==
    \A i \in 1 .. Len(Q) : Covers(IF i = 1 THEN p ELSE After(Q[i - 1]), Q[i])

LEMMA BatchIs ==
    ASSUME NEW Q \in Seq(Blocks), NEW p, Chained(p, Q)
    PROVE  \E k \in Nat : /\ DOMAIN Batch(Q) = 1 .. k /\ k <= Len(Q)
                          /\ \A i \in 1 .. k : Batch(Q)[i] = Q[i] /\ Q[i] \in Blocks
<1> DEFINE k == IF Len(Q) < MAX_BLOCKS_PER_BATCH THEN Len(Q) ELSE MAX_BLOCKS_PER_BATCH
<1>1. Batch(Q) = SubSeq(Q, 1, k)
  BY DEF Batch
<1>2. k \in Nat /\ k <= Len(Q) /\ Len(Q) \in Nat
  BY Constants
<1> HIDE DEF k
<1>3. Batch(Q) = [i \in 1 .. k |-> Q[i]]
  BY <1>1, <1>2
<1>4. DOMAIN Batch(Q) = 1 .. k /\ \A i \in 1 .. k : Batch(Q)[i] = Q[i]
  BY <1>3
<1>5. \A i \in 1 .. k : Q[i] \in Blocks
  BY <1>2
<1> QED BY <1>2, <1>4, <1>5

LEMMA SendBlocksOK ==
    ASSUME NEW s, NEW ev, Good(s, ev), NEW n \in Nodes, NEW m \in Others(n), NEW Q \in Seq(Blocks),
           s.node[n].peer[m].st = "Sending", Chained(s.node[n].peer[m], Q)
    PROVE  Good(send_blocks(s, n, m, Q), ev) /\ Same(s, send_blocks(s, n, m, Q), n)
<1> DEFINE B == Batch(Q)
           r0 == [s |-> s, stop |-> FALSE]
           g == CHOOSE h : IsSending(h, n, m, r0, B)
           At(i) == IF i = 0 THEN s.node[n].peer[m] ELSE After(Q[i])
           Ok(r, i) == /\ Good(r.s, ev) /\ Same(s, r.s, n)
                       /\ ~r.stop => LET p == r.s.node[n].peer[m]
                                     IN  /\ p.st = "Sending"
                                         /\ p.epoch = At(i).epoch /\ p.offset = At(i).offset
<1>1. PICK k \in Nat : /\ DOMAIN B = 1 .. k /\ k <= Len(Q)
                       /\ \A i \in 1 .. k : B[i] = Q[i] /\ Q[i] \in Blocks
  BY BatchIs
<1>3. send_blocks(s, n, m, Q) = g[DOMAIN B].s
  BY SendingIs
<1> HIDE DEF B, r0
<1>2. g[{}] = r0 /\ \A i \in 1 .. k : g[1 .. i] = SendNext(g[1 .. i - 1], n, m, B[i])
  BY <1>1, SendingRun
<1> HIDE DEF g
<1>4. Ok(r0, 0)
  BY DEF Same, Near, r0
<1>5. ASSUME NEW i \in 1 .. k, NEW r, Ok(r, i - 1)
      PROVE  Ok(SendNext(r, n, m, B[i]), i)
  <2> DEFINE t == SendBlock(r.s, n, m, Q[i])
  <2>0. i \in 1 .. Len(Q) /\ Q[i] \in Blocks /\ B[i] = Q[i]
    BY <1>1
  <2>1. CASE r.stop
    BY <1>5, <2>1 DEF SendNext
  <2>2. CASE ~r.stop
    <3>1. SendNext(r, n, m, B[i]) = [s |-> t, stop |-> t = r.s]
      BY <2>0, <2>2 DEF SendNext
    <3>2. /\ Good(r.s, ev) /\ Same(s, r.s, n) /\ r.s.node[n].peer[m].st = "Sending"
          /\ r.s.node[n].peer[m].epoch = At(i - 1).epoch
          /\ r.s.node[n].peer[m].offset = At(i - 1).offset
      BY <1>5, <2>2
    <3>3. Covers(At(i - 1), Q[i])
      <4>1. Covers(IF i = 1 THEN s.node[n].peer[m] ELSE After(Q[i - 1]), Q[i])
        BY <2>0 DEF Chained
      <4>2. At(i - 1) = IF i = 1 THEN s.node[n].peer[m] ELSE After(Q[i - 1])
        OBVIOUS
      <4> QED BY <4>1, <4>2
    <3> HIDE DEF At
    <3>4. Covers(r.s.node[n].peer[m], Q[i])
      BY <3>2, <3>3 DEF Covers
    <3>5. /\ Good(t, ev) /\ Same(r.s, t, n)
          /\ \/ t = r.s
             \/ /\ t.node[n].peer[m].st = "Sending"
                /\ t.node[n].peer[m].epoch = After(Q[i]).epoch
                /\ t.node[n].peer[m].offset = After(Q[i]).offset
      BY <2>0, <3>2, <3>4, SendBlockOK
    <3>6. At(i) = After(Q[i])
      BY DEF At
    <3>7. Same(s, t, n)
      BY <3>2, <3>5, SameTwice
    <3> HIDE DEF t
    <3>8. SendNext(r, n, m, B[i]).s = t /\ SendNext(r, n, m, B[i]).stop = (t = r.s)
      BY <3>1
    <3> QED BY <3>5, <3>6, <3>7, <3>8
  <2> QED BY <2>1, <2>2
<1> HIDE DEF Ok
<1> DEFINE T == {i \in Nat : i <= k => Ok(g[1 .. i], i)}
<1>6. 0 \in T
  <2>1. 1 .. 0 = {}
    OBVIOUS
  <2> QED BY <1>2, <1>4, <2>1
<1>7. ASSUME NEW j \in Nat, j \in T PROVE j + 1 \in T
  <2> DEFINE i == j + 1
  <2> SUFFICES ASSUME i <= k PROVE Ok(g[1 .. i], i)
    OBVIOUS
  <2>1. i \in 1 .. k /\ i - 1 = j /\ j <= k
    OBVIOUS
  <2>2. Ok(g[1 .. i - 1], i - 1)
    BY <1>7, <2>1
  <2> HIDE DEF i
  <2> QED BY <1>2, <1>5, <2>1, <2>2
<1>8. k \in T
  <2> HIDE DEF T
  <2> QED BY <1>6, <1>7, NumberInduction
<1>9. Ok(g[1 .. k], k)
  BY <1>8
<1> QED BY <1>1, <1>3, <1>9 DEF Ok

LEMMA Element ==
    ASSUME NEW S, NEW q \in Seq(S), NEW i \in 1 .. Len(q)
    PROVE  q[i] \in S
  OBVIOUS

IsJoin(S, q, a, b) ==
    /\ q \in Seq(S) /\ Len(q) = Len(a) + Len(b)
    /\ \A i \in 1 .. Len(a) : q[i] = a[i]
    /\ \A i \in 1 .. Len(b) : q[Len(a) + i] = b[i]

LEMMA Joined ==
    ASSUME NEW S, NEW a \in Seq(S), NEW b \in Seq(S)
    PROVE  IsJoin(S, a \o b, a, b)
<1>1. a \o b \in Seq(S) /\ Len(a \o b) = Len(a) + Len(b)
  OBVIOUS
<1>2. ASSUME NEW i \in 1 .. Len(a) PROVE (a \o b)[i] = a[i]
  OBVIOUS
<1>3. ASSUME NEW i \in 1 .. Len(b) PROVE (a \o b)[Len(a) + i] = b[i]
  <2>1. /\ Len(a) + i \in 1 .. Len(a) + Len(b) /\ ~(Len(a) + i <= Len(a))
        /\ (Len(a) + i) - Len(a) = i
    OBVIOUS
  <2> QED BY <2>1
<1> QED BY <1>1, <1>2, <1>3 DEF IsJoin

\* The first o elements, and the rest without them.
LEMMA StartOf ==
    ASSUME NEW S, NEW q \in Seq(S), NEW o \in Nat, ~(o > Len(q))
    PROVE  SubSeq(q, 1, o) \in Seq(S) /\ Len(SubSeq(q, 1, o)) = o
  OBVIOUS

LEMMA Shift ==
    ASSUME NEW a \in Nat, NEW d \in Nat, NEW e \in Nat, d > 0 => a + d <= e, NEW i \in 1 .. d
    PROVE  a + i - 1 \in 0 .. e - 1 /\ a + i - 1 \in Nat
  OBVIOUS

LEMMA MicroBlockType ==
    ASSUME NEW r, ChainOK(r), NEW o \in 0 .. Len(r.micros) - 1
    PROVE  LET b == MicroBlockAt(r, o)
           IN  b \in Blocks /\ b.kind = "micro" /\ b.epoch = r.epoch /\ b.offset = o
<1>1. r.micros \in Seq(0 .. MaxForks) /\ Len(r.micros) \in Nat /\ r.epoch \in 0 .. MaxEpoch
      /\ Len(r.micros) <= micro_blocks_in_epoch
  BY DEF ChainOK
<1>2. r.micros[o + 1] \in 0 .. MaxForks /\ Before(r, o) \in -1 .. MaxForks
  <2>1. o + 1 \in 1 .. Len(r.micros)
    BY <1>1
  <2>2. o # 0 => o \in 1 .. Len(r.micros)
    BY <1>1
  <2>3. \A i \in 1 .. Len(r.micros) : r.micros[i] \in 0 .. MaxForks
    BY <1>1, Element
  <2> QED BY <2>1, <2>2, <2>3, Constants DEF Before
<1>3. o \in 0 .. micro_blocks_in_epoch - 1
  BY <1>1, Constants
<1> QED BY <1>1, <1>2, <1>3 DEF MicroBlockAt, Block, Blocks

LEMMA MacroBlockType ==
    ASSUME NEW e \in 0 .. MaxEpoch - 1
    PROVE  LET b == MacroBlockOf(e)
           IN  b \in Blocks /\ b.kind = "macro" /\ b.epoch = e /\ b.offset = 0
  BY DEF MacroBlockOf, Block, Blocks

LEMMA BlocksStarting ==
    ASSUME NEW r, ChainOK(r), NEW p, p.epoch \in Nat, p.offset \in Nat
    PROVE  blocks_starting(r, p) \in Seq(Blocks) /\ Chained(p, blocks_starting(r, p))
<1> DEFINE d == r.epoch - p.epoch
           k == Len(r.micros)
           first == IF p.epoch < r.epoch THEN 0 ELSE p.offset
           A == [i \in 1 .. d |-> MacroBlockOf(p.epoch + i - 1)]
           C == [i \in 1 .. k - first |-> MicroBlockAt(r, first + i - 1)]
           Q == blocks_starting(r, p)
<1>0. /\ r.epoch \in 0 .. MaxEpoch /\ r.epoch \in Nat /\ k \in Nat /\ k <= micro_blocks_in_epoch
      /\ d \in Int /\ first \in Nat
  BY Constants DEF ChainOK
<1>1. Q = A \o (IF p.epoch > r.epoch THEN <<>> ELSE C)
  BY DEF blocks_starting
<1>2. CASE p.epoch > r.epoch
  <2>1. 1 .. d = {}
    BY <1>0, <1>2
  <2>2. A = <<>>
    BY <2>1
  <2>3. Q = <<>>
    BY <1>1, <1>2, <2>2
  <2> HIDE DEF Q
  <2> QED BY <2>3 DEF Chained, Q
<1>3. CASE p.epoch <= r.epoch
  <2> DEFINE c == IF first <= k THEN k - first ELSE 0
  <2>1. d \in Nat /\ c \in Nat /\ r.epoch = p.epoch + d /\ 1 .. k - first = 1 .. c
        /\ (c > 0 => first + c <= k) /\ p.epoch + d <= MaxEpoch /\ ~(p.epoch > r.epoch)
        /\ (d = 0 => first = p.offset) /\ (d > 0 => first = 0)
    BY <1>0, <1>3, Constants
  <2> HIDE DEF d, first, c
  <2>2. \A i \in 1 .. d : p.epoch + i - 1 \in 0 .. MaxEpoch - 1
    BY <2>1, Shift, Constants
  <2>3. \A i \in 1 .. c : first + i - 1 \in 0 .. k - 1
    <3> HIDE DEF k
    <3> QED BY <1>0, <2>1, Shift
  <2>4. \A i \in 1 .. d : MacroBlockOf(p.epoch + i - 1) \in Blocks
    BY <2>2, MacroBlockType
  <2>5. \A i \in 1 .. c : MicroBlockAt(r, first + i - 1) \in Blocks
    BY <2>3, MicroBlockType
  <2>6. A \in Seq(Blocks) /\ Len(A) = d /\ \A i \in 1 .. d : A[i] = MacroBlockOf(p.epoch + i - 1)
    BY <2>1, <2>4
  <2>7. C \in Seq(Blocks) /\ Len(C) = c
        /\ \A i \in 1 .. c : C[i] = MicroBlockAt(r, first + i - 1)
    <3>1. C = [i \in 1 .. c |-> MicroBlockAt(r, first + i - 1)]
      BY <2>1
    <3> HIDE DEF C
    <3> QED BY <2>1, <2>5, <3>1
  <2> HIDE DEF A, C, Q
  <2>8. Q = A \o C
    BY <1>1, <2>1
  <2>9. Q \in Seq(Blocks) /\ Len(Q) = d + c
        /\ (\A i \in 1 .. d : Q[i] = A[i]) /\ (\A i \in 1 .. c : Q[d + i] = C[i])
    <3>1. /\ A \o C \in Seq(Blocks) /\ Len(A \o C) = d + c
          /\ \A i \in 1 .. d : (A \o C)[i] = A[i]
          /\ \A i \in 1 .. c : (A \o C)[d + i] = C[i]
      <4>1. A \in Seq(Blocks) /\ C \in Seq(Blocks) /\ Len(A) = d /\ Len(C) = c
        BY <2>6, <2>7
      <4>2. IsJoin(Blocks, A \o C, A, C)
        BY <4>1, Joined
      <4> QED BY <4>1, <4>2 DEF IsJoin
    <3> QED BY <2>8, <3>1, Zenon
  <2>10. ASSUME NEW i \in 1 .. Len(Q)
         PROVE  Covers(IF i = 1 THEN p ELSE After(Q[i - 1]), Q[i])
    <3>1. CASE i <= d
      <4>1. i \in 1 .. d /\ Q[i] = MacroBlockOf(p.epoch + i - 1)
        BY <2>1, <2>6, <2>9, <3>1
      <4>2. Q[i].kind = "macro" /\ Q[i].epoch = p.epoch + i - 1
        BY <2>2, <4>1, MacroBlockType
      <4>3. CASE i = 1
        BY <4>2, <4>3 DEF Covers
      <4>4. CASE i # 1
        <5>1. i - 1 \in 1 .. d /\ Q[i - 1] = MacroBlockOf(p.epoch + (i - 1) - 1)
          BY <2>1, <2>6, <2>9, <4>1, <4>4
        <5>2. Q[i - 1].kind = "macro" /\ Q[i - 1].epoch = p.epoch + (i - 1) - 1
          BY <2>2, <5>1, MacroBlockType
        <5>3. After(Q[i - 1]).epoch = p.epoch + i - 1
          BY <5>1, <5>2 DEF After
        <5> QED BY <4>2, <4>4, <5>3 DEF Covers
      <4> QED BY <4>3, <4>4
    <3>2. CASE i > d
      <4> DEFINE j == i - d
                 o == first + j - 1
      <4>1. j \in 1 .. c /\ i = d + j
        BY <2>1, <2>9, <3>2
      <4>2. Q[i] = MicroBlockAt(r, o) /\ o \in 0 .. k - 1
        BY <2>3, <2>7, <2>9, <4>1
      <4>3. Q[i].kind = "micro" /\ Q[i].epoch = r.epoch /\ Q[i].offset = o
        BY <4>2, MicroBlockType
      <4> HIDE DEF o
      <4>4. CASE i = 1
        <5>1. d = 0 /\ j = 1 /\ p.epoch = r.epoch /\ o = p.offset
          BY <1>0, <2>1, <3>2, <4>1, <4>4 DEF o
        <5> QED BY <4>3, <4>4, <5>1 DEF Covers
      <4>5. CASE i # 1 /\ j = 1
        <5>1. i - 1 \in 1 .. d /\ i - 1 = d /\ p.epoch < r.epoch /\ o = 0
          BY <1>0, <2>1, <4>1, <4>5 DEF o
        <5>2. Q[i - 1] = MacroBlockOf(p.epoch + (i - 1) - 1)
          BY <2>6, <2>9, <5>1
        <5>3. Q[i - 1].kind = "macro" /\ Q[i - 1].epoch = p.epoch + (i - 1) - 1
          BY <2>2, <5>1, <5>2, MacroBlockType
        <5>4. After(Q[i - 1]).epoch = r.epoch /\ After(Q[i - 1]).offset = 0
          BY <2>1, <5>1, <5>3 DEF After
        <5> QED BY <4>3, <4>5, <5>1, <5>4 DEF Covers
      <4>6. CASE i # 1 /\ j # 1
        <5>1. j - 1 \in 1 .. c /\ i - 1 = d + (j - 1)
          BY <2>1, <4>1, <4>6
        <5>2. Q[i - 1] = MicroBlockAt(r, o - 1) /\ o - 1 \in 0 .. Len(r.micros) - 1
          <6>1. Q[i - 1] = C[j - 1]
            BY <2>9, <5>1
          <6>2. first + (j - 1) - 1 = o - 1
            BY <1>0, <2>1, <4>1 DEF o
          <6> QED BY <2>3, <2>7, <5>1, <6>1, <6>2
        <5>3. Q[i - 1].kind = "micro" /\ Q[i - 1].epoch = r.epoch /\ Q[i - 1].offset = o - 1
          BY <5>2, MicroBlockType
        <5>4. ~(o - 1 + 1 >= micro_blocks_in_epoch) /\ o - 1 + 1 = o
          BY <1>0, <4>2, Constants
        <5>5. After(Q[i - 1]).epoch = r.epoch /\ After(Q[i - 1]).offset = o
          BY <5>3, <5>4 DEF After
        <5> QED BY <4>3, <4>6, <5>5 DEF Covers
      <4> QED BY <4>4, <4>5, <4>6
    <3> QED BY <2>1, <3>1, <3>2
  <2> QED BY <2>9, <2>10 DEF Chained, Q
<1> QED BY <1>0, <1>2, <1>3

LEMMA OnBlockOK ==
    ASSUME NEW s, NEW ev, Good(s, ev), NEW n \in Nodes, NEW b \in Blocks
    PROVE  Good(on_block(s, n, b), ev) /\ Same(s, on_block(s, n, b), n)
<1> DEFINE q == SetToSeq(Others(n))
           g == Telling(n, b, s, q)
           Ok(t) == Good(t, ev) /\ Same(s, t, n)
<1>1. PICK k \in Nat : DOMAIN q = 1 .. k /\ \A i \in 1 .. k : q[i] \in Others(n)
  BY OthersList
<1>2. on_block(s, n, b) = g[DOMAIN q]
  BY TellingIs
<1> HIDE DEF q
<1>3. g[{}] = s /\ \A i \in 1 .. k : g[1 .. i] = SendIfNext(g[1 .. i - 1], n, q[i], b)
  <2>1. DOMAIN q = 1 .. k
    BY <1>1
  <2> QED BY <2>1, TellingRun
<1> HIDE DEF g
<1>4. ASSUME NEW t, Ok(t), NEW m \in Others(n) PROVE Ok(SendIfNext(t, n, m, b))
  <2> DEFINE p == t.node[n].peer[m]
             Q == <<b>>
  <2>1. CASE p.st = "Sending" /\ p.epoch = b.epoch /\ p.offset = b.offset
    <3>1. Q \in Seq(Blocks) /\ Len(Q) = 1 /\ Q[1] = b
      OBVIOUS
    <3>2. SendIfNext(t, n, m, b) = send_blocks(t, n, m, Q)
      BY <2>1 DEF SendIfNext
    <3> HIDE DEF Q
    <3>3. Chained(p, Q)
      BY <2>1, <3>1 DEF Chained, Covers
    <3>4. Good(send_blocks(t, n, m, Q), ev) /\ Same(t, send_blocks(t, n, m, Q), n)
      BY <1>4, <2>1, <3>1, <3>3, SendBlocksOK
    <3> QED BY <1>4, <3>2, <3>4, SameTwice
  <2>2. CASE ~(p.st = "Sending" /\ p.epoch = b.epoch /\ p.offset = b.offset)
    BY <1>4, <2>2 DEF SendIfNext
  <2> QED BY <2>1, <2>2
<1>5. Ok(s)
  BY DEF Same, Near
<1> HIDE DEF Ok
<1> DEFINE T == {i \in Nat : i <= k => Ok(g[1 .. i])}
<1>6. 0 \in T
  <2>1. 1 .. 0 = {}
    OBVIOUS
  <2> QED BY <1>3, <1>5, <2>1
<1>7. ASSUME NEW j \in Nat, j \in T PROVE j + 1 \in T
  <2> DEFINE i == j + 1
  <2> SUFFICES ASSUME i <= k PROVE Ok(g[1 .. i])
    OBVIOUS
  <2>1. i \in 1 .. k /\ i - 1 = j /\ j <= k
    OBVIOUS
  <2>2. Ok(g[1 .. i - 1])
    BY <1>7, <2>1
  <2> HIDE DEF i
  <2> QED BY <1>1, <1>3, <1>4, <2>1, <2>2
<1>8. k \in T
  <2> HIDE DEF T
  <2> QED BY <1>6, <1>7, NumberInduction
<1>9. Ok(g[1 .. k])
  BY <1>8
<1> QED BY <1>1, <1>2, <1>9 DEF Ok

-----------------------------------------------------------------------------
(* The node's chain *)

LEMMA ChainSet ==
    ASSUME NEW s, NEW ev, Good(s, ev), NEW n \in Nodes, NEW t, Shape(t), t.net = s.net,
           \A a \in Others(n) : t.node[a] = s.node[a],
           DOMAIN t.node[n] = Fields, ChainOK(t.node[n]),
           t.node[n].peer = s.node[n].peer, t.node[n].events = s.node[n].events
    PROVE  Good(t, ev) /\ Same(s, t, n)
<1>1. Nodely(t)
  <2> SUFFICES ASSUME NEW a \in Nodes PROVE NodeOK(t.node[a], a)
    BY DEF Nodely
  <2>1. NodeOK(s.node[a], a)
    BY DEF Good, Nodely
  <2>2. CASE a = n
    BY <2>1, <2>2 DEF NodeOK
  <2>3. CASE a # n
    BY <2>1, <2>3 DEF Others
  <2> QED BY <2>2, <2>3
<1>2. \A a \in Nodes : t.node[a].peer = s.node[a].peer
  BY DEF Others
<1>3. LinksOK(t) /\ Pipes(t) /\ Held(t)
  BY <1>2 DEF Good, LinksOK, Pipes, Held
<1>4. Pending(t, ev)
  BY <1>2 DEF Good, Pending, PendingOK
<1>5. Known(t, n) = Known(s, n)
  BY <1>2 DEF Known
<1> QED BY <1>1, <1>3, <1>4, <1>5 DEF Good, Same, Near

LEMMA PushMicroOK ==
    ASSUME NEW s, NEW ev, Good(s, ev), NEW n \in Nodes, NEW branch \in 0 .. MaxForks,
           Len(s.node[n].micros) < micro_blocks_in_epoch
    PROVE  Good(PushMicro(s, n, branch), ev) /\ Same(s, PushMicro(s, n, branch), n)
<1> DEFINE t == [s EXCEPT !.node[n].micros = Append(@, branch)]
           o == Len(s.node[n].micros)
           b == MicroBlockAt(t.node[n], o)
<1>0. DOMAIN s.node[n] = Fields /\ ChainOK(s.node[n])
  BY DEF Good, Nodely, NodeOK
<1>1. /\ Shape(t) /\ t.net = s.net /\ \A a \in Others(n) : t.node[a] = s.node[a]
      /\ DOMAIN t.node[n] = Fields /\ t.node[n].micros = Append(s.node[n].micros, branch)
      /\ t.node[n].peer = s.node[n].peer /\ t.node[n].epoch = s.node[n].epoch
      /\ t.node[n].events = s.node[n].events /\ t.node[n].panicked = s.node[n].panicked
  BY <1>0 DEF Good, Shape, Fields, Others
<1> HIDE DEF t
<1>2. s.node[n].micros \in Seq(0 .. MaxForks) /\ o \in Nat
  BY <1>0 DEF ChainOK
<1>3. /\ Append(s.node[n].micros, branch) \in Seq(0 .. MaxForks)
      /\ Len(Append(s.node[n].micros, branch)) = o + 1
  BY <1>2
<1>4. ChainOK(t.node[n]) /\ o \in 0 .. Len(t.node[n].micros) - 1
  BY <1>0, <1>1, <1>2, <1>3, Constants DEF ChainOK
<1>5. b \in Blocks
  <2> HIDE DEF o
  <2> QED BY <1>4, MicroBlockType
<1>6. Good(t, ev) /\ Same(s, t, n)
  BY <1>1, <1>4, ChainSet
<1> HIDE DEF b
<1>7. Good(on_block(t, n, b), ev) /\ Same(t, on_block(t, n, b), n)
  BY <1>5, <1>6, OnBlockOK
<1>8. PushMicro(s, n, branch) = on_block(t, n, b)
  BY DEF PushMicro, t, b
<1> QED BY <1>6, <1>7, <1>8, SameTwice

LEMMA PushMacroOK ==
    ASSUME NEW s, NEW ev, Good(s, ev), NEW n \in Nodes, s.node[n].epoch < MaxEpoch
    PROVE  Good(PushMacro(s, n), ev) /\ Same(s, PushMacro(s, n), n)
<1> DEFINE t == [s EXCEPT !.node[n].micros = <<>>, !.node[n].epoch = @ + 1]
           b == MacroBlockOf(s.node[n].epoch)
<1>0. DOMAIN s.node[n] = Fields /\ ChainOK(s.node[n])
  BY DEF Good, Nodely, NodeOK
<1>1. /\ Shape(t) /\ t.net = s.net /\ \A a \in Others(n) : t.node[a] = s.node[a]
      /\ DOMAIN t.node[n] = Fields /\ t.node[n].micros = <<>>
      /\ t.node[n].peer = s.node[n].peer /\ t.node[n].epoch = s.node[n].epoch + 1
      /\ t.node[n].events = s.node[n].events /\ t.node[n].panicked = s.node[n].panicked
  BY <1>0 DEF Good, Shape, Fields, Others
<1> HIDE DEF t
<1>2. ChainOK(t.node[n]) /\ s.node[n].epoch \in 0 .. MaxEpoch - 1
  BY <1>0, <1>1, Constants DEF ChainOK
<1>3. b \in Blocks
  BY <1>2, MacroBlockType
<1>4. Good(t, ev) /\ Same(s, t, n)
  BY <1>1, <1>2, ChainSet
<1> HIDE DEF b
<1>5. Good(on_block(t, n, b), ev) /\ Same(t, on_block(t, n, b), n)
  BY <1>3, <1>4, OnBlockOK
<1>6. PushMacro(s, n) = on_block(t, n, b)
  BY DEF PushMacro, t, b
<1> QED BY <1>4, <1>5, <1>6, SameTwice

LEMMA HandleBlockOK ==
    ASSUME NEW s, NEW ev, Good(s, ev), NEW n \in Nodes, NEW b \in Blocks
    PROVE  Good(handle_block(s, n, b), ev) /\ Same(s, handle_block(s, n, b), n)
<1> DEFINE c == s.node[n]
           count == Len(c.micros)
           t == handle_block(s, n, b)
<1>0. DOMAIN s.node[n] = Fields /\ ChainOK(s.node[n]) /\ Same(s, s, n)
  BY DEF Good, Nodely, NodeOK, Same, Near
<1>1. CASE b.epoch # c.epoch
  BY <1>0, <1>1 DEF handle_block
<1>2. CASE b.epoch = c.epoch /\ b.kind = "macro"
  <2>1. s.node[n].epoch < MaxEpoch
    BY <1>2, BlockType
  <2> QED BY <1>2, <2>1, PushMacroOK DEF handle_block
<1>3. CASE b.epoch = c.epoch /\ b.kind # "macro"
  <2>0. /\ b.kind = "micro" /\ b.offset \in Nat /\ b.offset < micro_blocks_in_epoch
        /\ b.branch \in 0 .. MaxForks /\ c.micros \in Seq(0 .. MaxForks) /\ count \in Nat
    BY <1>0, <1>3, BlockType DEF ChainOK
  <2>1. CASE b.offset > count \/ (b.offset < count /\ b.branch <= c.micros[b.offset + 1])
    BY <1>0, <1>3, <2>1 DEF handle_block
  <2>2. CASE ~(b.offset > count) /\ ~(b.offset < count /\ b.branch <= c.micros[b.offset + 1])
    <3>1. CASE Before(c, b.offset) # b.previous
      <4> DEFINE u == [s EXCEPT !.node[n].lost = TRUE]
      <4>1. t = u
        BY <1>3, <2>2, <3>1 DEF handle_block
      <4>2. /\ Shape(u) /\ u.net = s.net /\ \A a \in Others(n) : u.node[a] = s.node[a]
            /\ DOMAIN u.node[n] = Fields /\ u.node[n].micros = s.node[n].micros
            /\ u.node[n].peer = s.node[n].peer /\ u.node[n].epoch = s.node[n].epoch
            /\ u.node[n].events = s.node[n].events /\ u.node[n].panicked = s.node[n].panicked
        BY <1>0 DEF Good, Shape, Fields, Others
      <4> HIDE DEF u
      <4>3. ChainOK(u.node[n])
        BY <1>0, <4>2 DEF ChainOK
      <4>4. Good(u, ev) /\ Same(s, u, n)
        BY <4>2, <4>3, ChainSet
      <4> QED BY <4>1, <4>4
    <3>2. CASE Before(c, b.offset) = b.previous
      <4> DEFINE u == [s EXCEPT !.node[n].micros = SubSeq(@, 1, b.offset)]
      <4>1. t = PushMicro(u, n, b.branch)
        BY <1>3, <2>2, <3>2 DEF handle_block
      <4>2. /\ Shape(u) /\ u.net = s.net /\ \A a \in Others(n) : u.node[a] = s.node[a]
            /\ DOMAIN u.node[n] = Fields /\ u.node[n].micros = SubSeq(s.node[n].micros, 1, b.offset)
            /\ u.node[n].peer = s.node[n].peer /\ u.node[n].epoch = s.node[n].epoch
            /\ u.node[n].events = s.node[n].events /\ u.node[n].panicked = s.node[n].panicked
        BY <1>0 DEF Good, Shape, Fields, Others
      <4> HIDE DEF u, t
      <4>3. /\ SubSeq(s.node[n].micros, 1, b.offset) \in Seq(0 .. MaxForks)
            /\ Len(SubSeq(s.node[n].micros, 1, b.offset)) = b.offset
        BY <2>0, <2>2, StartOf
      <4>4. ChainOK(u.node[n]) /\ Len(u.node[n].micros) < micro_blocks_in_epoch
        BY <1>0, <2>0, <4>2, <4>3, Constants DEF ChainOK
      <4>5. Good(u, ev) /\ Same(s, u, n)
        BY <4>2, <4>4, ChainSet
      <4>6. Good(t, ev) /\ Same(u, t, n)
        BY <2>0, <4>1, <4>4, <4>5, PushMicroOK
      <4> QED BY <4>5, <4>6, SameTwice DEF t
    <3> QED BY <3>1, <3>2
  <2> QED BY <2>1, <2>2
<1> QED BY <1>1, <1>2, <1>3

LEMMA HandleBlocksOK ==
    ASSUME NEW s, NEW ev, Good(s, ev), NEW n \in Nodes, NEW q \in Seq(Blocks)
    PROVE  Good(HandleBlocks(s, n, q), ev) /\ Same(s, HandleBlocks(s, n, q), n)
<1> DEFINE g == Taking(n, s, q)
           k == Len(q)
           Ok(t) == Good(t, ev) /\ Same(s, t, n)
<1>1. k \in Nat /\ DOMAIN q = 1 .. k /\ \A i \in 1 .. k : q[i] \in Blocks
  BY Element
<1> HIDE DEF k
<1>2. HandleBlocks(s, n, q) = g[DOMAIN q]
  BY TakingIs
<1>3. g[{}] = s /\ \A i \in 1 .. k : g[1 .. i] = handle_block(g[1 .. i - 1], n, q[i])
  BY <1>1, TakingRun
<1> HIDE DEF g
<1>4. ASSUME NEW t, Ok(t), NEW b \in Blocks PROVE Ok(handle_block(t, n, b))
  BY <1>4, HandleBlockOK, SameTwice
<1>5. Ok(s)
  BY DEF Same, Near
<1> HIDE DEF Ok
<1> DEFINE T == {i \in Nat : i <= k => Ok(g[1 .. i])}
<1>6. 0 \in T
  <2>1. 1 .. 0 = {}
    OBVIOUS
  <2> QED BY <1>3, <1>5, <2>1
<1>7. ASSUME NEW j \in Nat, j \in T PROVE j + 1 \in T
  <2> DEFINE i == j + 1
  <2> SUFFICES ASSUME i <= k PROVE Ok(g[1 .. i])
    OBVIOUS
  <2>1. i \in 1 .. k /\ i - 1 = j /\ j <= k
    BY <1>1
  <2>2. Ok(g[1 .. i - 1])
    BY <1>7, <2>1
  <2> HIDE DEF i
  <2> QED BY <1>1, <1>3, <1>4, <2>1, <2>2
<1>8. k \in T
  <2> HIDE DEF T
  <2> QED BY <1>1, <1>6, <1>7, NumberInduction
<1>9. Ok(g[1 .. k])
  BY <1>1, <1>8
<1> QED BY <1>1, <1>2, <1>9 DEF Ok

LEMMA LeaveAllOK ==
    ASSUME NEW s, NEW ev, Good(s, ev), NEW n \in Nodes
    PROVE  Good(LeaveAll(s, n), ev) /\ Same(s, LeaveAll(s, n), n)
<1> DEFINE q == SetToSeq(Others(n))
           g == Leaving(n, s, q)
           Ok(t) == Good(t, ev) /\ Same(s, t, n)
<1>1. PICK k \in Nat : DOMAIN q = 1 .. k /\ \A i \in 1 .. k : q[i] \in Others(n)
  BY OthersList
<1>2. LeaveAll(s, n) = g[DOMAIN q]
  BY LeavingIs
<1> HIDE DEF q
<1>3. g[{}] = s /\ \A i \in 1 .. k : g[1 .. i] = Leave(g[1 .. i - 1], n, q[i])
  <2>1. DOMAIN q = 1 .. k
    BY <1>1
  <2> QED BY <2>1, LeavingRun
<1> HIDE DEF g
<1>4. ASSUME NEW t, Ok(t), NEW m \in Others(n) PROVE Ok(Leave(t, n, m))
  <2>1. CASE is_upstream(t.node[n].peer[m])
    <3>1. t.node[n].peer[m].st # "Unknown"
      BY <2>1 DEF is_upstream
    <3>2. Good(disconnected(t, n, m), ev) /\ Same(t, disconnected(t, n, m), n)
      BY <1>4, <3>1, DisconnectedOK
    <3> QED BY <1>4, <2>1, <3>2, SameTwice DEF Leave
  <2>2. CASE ~is_upstream(t.node[n].peer[m])
    BY <1>4, <2>2 DEF Leave
  <2> QED BY <2>1, <2>2
<1>5. Ok(s)
  BY DEF Same, Near
<1> HIDE DEF Ok
<1> DEFINE T == {i \in Nat : i <= k => Ok(g[1 .. i])}
<1>6. 0 \in T
  <2>1. 1 .. 0 = {}
    OBVIOUS
  <2> QED BY <1>3, <1>5, <2>1
<1>7. ASSUME NEW j \in Nat, j \in T PROVE j + 1 \in T
  <2> DEFINE i == j + 1
  <2> SUFFICES ASSUME i <= k PROVE Ok(g[1 .. i])
    OBVIOUS
  <2>1. i \in 1 .. k /\ i - 1 = j /\ j <= k
    OBVIOUS
  <2>2. Ok(g[1 .. i - 1])
    BY <1>7, <2>1
  <2> HIDE DEF i
  <2> QED BY <1>1, <1>3, <1>4, <2>1, <2>2
<1>8. k \in T
  <2> HIDE DEF T
  <2> QED BY <1>6, <1>7, NumberInduction
<1>9. Ok(g[1 .. k])
  BY <1>8
<1> QED BY <1>1, <1>2, <1>9 DEF Ok

-----------------------------------------------------------------------------
(* A peer is polled *)

LEMMA RestIsWorse ==
    ASSUME NEW q \in Inboxes, NEW c \in 0 .. Len(q)
    PROVE  Worse(SubSeq(q, c + 1, Len(q)), q)
<1> DEFINE r == Rest(q, c)
<1>1. q \in Seq(Messages) /\ Len(q) \in Nat /\ Len(q) <= BUFFER_SIZE
  BY InboxType
<1>2. /\ r \in Seq(Messages) /\ Len(r) = Len(q) - c
      /\ \A j \in 1 .. Len(q) - c : r[j] = q[c + j]
  BY <1>1, RestIs
<1>3. r = SubSeq(q, c + 1, Len(q))
  BY DEF Rest
<1> HIDE DEF r
<1>4. r \in Inboxes /\ Len(r) <= Len(q) /\ Len(q) - Len(r) = c
  BY <1>1, <1>2, Constants DEF Inboxes
<1>5. \A i \in 1 .. Len(r) : r[i] = q[i + (Len(q) - Len(r))]
  <2> SUFFICES ASSUME NEW i \in 1 .. Len(r) PROVE r[i] = q[i + c]
    BY <1>4
  <2>1. i \in 1 .. Len(q) - c /\ i + c = c + i
    BY <1>1, <1>2
  <2> QED BY <1>2, <2>1
<1> QED BY <1>3, <1>4, <1>5 DEF Worse

LEMMA TailIsWorse ==
    ASSUME NEW q \in Inboxes, q # <<>>
    PROVE  Worse(Tail(q), q) /\ q[1] \in Messages /\ Len(q) >= 1 /\ Head(q) = q[1]
<1>1. q \in Seq(Messages) /\ Len(q) \in Nat /\ Len(q) # 0
  BY InboxType
<1>2. Tail(q) = SubSeq(q, 1 + 1, Len(q)) /\ 1 \in 0 .. Len(q) /\ 1 \in 1 .. Len(q)
  BY <1>1
<1>3. q[1] \in Messages /\ Head(q) = q[1]
  BY <1>1, <1>2, Element
<1>4. Worse(SubSeq(q, 1 + 1, Len(q)), q)
  BY <1>2, RestIsWorse
<1>5. Worse(Tail(q), q)
  BY <1>2, <1>4, Zenon
<1>6. Len(q) >= 1
  BY <1>1
<1> QED BY <1>3, <1>5, <1>6

LEMMA GarbledIsWorse ==
    ASSUME NEW q \in Inboxes, q # <<>>
    PROVE  Worse(<<[type |-> "Garbage"]>> \o Tail(q), q)
<1> DEFINE x == [type |-> "Garbage"]
           r == <<x>> \o Tail(q)
<1>0. x \in Messages /\ x.type = "Garbage"
  BY GarbageType
<1> HIDE DEF x
<1>1. q \in Seq(Messages) /\ Len(q) \in Nat /\ Len(q) # 0 /\ Len(q) <= BUFFER_SIZE
  BY InboxType
<1>2. Tail(q) \in Seq(Messages) /\ Len(Tail(q)) = Len(q) - 1
      /\ \A i \in 1 .. Len(q) - 1 : Tail(q)[i] = q[i + 1]
  BY <1>1
<1>3. <<x>> \in Seq(Messages) /\ Len(<<x>>) = 1 /\ <<x>>[1] = x
  BY <1>0
<1>4. IsJoin(Messages, r, <<x>>, Tail(q))
  BY <1>2, <1>3, Joined
<1> HIDE DEF r
<1>5. r \in Seq(Messages) /\ Len(r) = Len(q) /\ r[1] = x
  BY <1>1, <1>2, <1>3, <1>4 DEF IsJoin
<1>6. ASSUME NEW i \in 1 .. Len(r), i # 1 PROVE r[i] = q[i]
  <2>1. i - 1 \in 1 .. Len(q) - 1 /\ 1 + (i - 1) = i /\ (i - 1) + 1 = i
    BY <1>1, <1>5, <1>6
  <2>2. r[1 + (i - 1)] = Tail(q)[i - 1]
    BY <1>2, <1>3, <1>4, <2>1 DEF IsJoin
  <2> QED BY <1>2, <2>1, <2>2
<1>7. \A i \in 1 .. Len(r) : i + (Len(q) - Len(r)) = i
  BY <1>1, <1>5
<1>8. r \in Inboxes /\ Len(r) <= Len(q)
  BY <1>1, <1>5 DEF Inboxes
<1>9. Worse(r, q)
  BY <1>0, <1>5, <1>6, <1>7, <1>8 DEF Worse
<1> QED BY <1>9 DEF r, x

LEMMA InboxIs ==
    ASSUME NEW s, NEW ev, Good(s, ev), NEW id \in PipeIds, NEW n
    PROVE  Inbox(s, id, n) \in Inboxes /\ Inbox(s, id, n) = Mail(s.net.pipe[id], n)
  BY DEF Good, Pipes, PipeOK, Inbox, Mail

\* Something is taken out of an inbox.
LEMMA ReadOK ==
    ASSUME NEW s, NEW ev, Good(s, ev), NEW id \in PipeIds, NEW n, NEW q, Worse(q, Inbox(s, id, n))
    PROVE  LET t == SetInbox(s, id, n, q)
           IN  Good(t, ev) /\ t.node = s.node /\ \A a \in Nodes : Same(s, t, a)
<1> DEFINE t == SetInbox(s, id, n, q)
           w == s.net.pipe[id]
           w2 == t.net.pipe[id]
<1>0. q \in Inboxes /\ Inbox(s, id, n) = Mail(w, n) /\ PipeOK(w)
  BY InboxIs DEF Worse, Good, Pipes
<1>1. /\ Shape(t) /\ t.node = s.node /\ t.net.links = s.net.links
      /\ t.net.dialing = s.net.dialing
      /\ \A j \in PipeIds : j # id => t.net.pipe[j] = s.net.pipe[j]
      /\ PipeOK(w2) /\ w2.from = w.from /\ w2.to = w.to /\ w2.ends = w.ends
      /\ w.from = n => w2.toFrom = q /\ w2.toTo = w.toTo
      /\ w.from # n => w2.toTo = q /\ w2.toFrom = w.toFrom
  BY <1>0, SetInboxIs DEF Good
<1> HIDE DEF t
<1>2. Worse(w.toFrom, w.toFrom) /\ Worse(w.toTo, w.toTo)
  BY <1>0, SameIsWorse DEF PipeOK
<1>3. Worse(w2.toFrom, w.toFrom) /\ Worse(w2.toTo, w.toTo)
  BY <1>0, <1>1, <1>2 DEF Mail
<1>4. Less(w2, w)
  BY <1>1, <1>3 DEF Less, PipeOK
<1>5. \A j \in PipeIds : Less(t.net.pipe[j], s.net.pipe[j])
  <2> SUFFICES ASSUME NEW j \in PipeIds PROVE Less(t.net.pipe[j], s.net.pipe[j])
    OBVIOUS
  <2>1. CASE j = id
    BY <1>4, <2>1
  <2>2. CASE j # id
    BY <1>1, <2>2, SameIsLess DEF Good, Pipes
  <2> QED BY <2>1, <2>2
<1>6. Good(t, ev) /\ \A a \in Nodes : Same(s, t, a)
  BY <1>1, <1>5, Lessen
<1> QED BY <1>1, <1>6 DEF t

LEMMA PollConnectedOK ==
    ASSUME NEW s, NEW ev, Good(s, ev), NEW n \in Nodes, NEW m \in Others(n),
           s.node[n].peer[m].st = "Connected", NEW msg, msg.epoch \in Nat, msg.offset \in Nat
    PROVE  Good(PollConnected(s, n, m, msg), ev) /\ Same(s, PollConnected(s, n, m, msg), n)
<1> DEFINE p == s.node[n].peer[m]
           p2 == Peer("Receiving", p.id, msg.epoch, msg.offset)
           t == [s EXCEPT !.node[n].peer[m] = p2]
<1>0. m \in Nodes
  BY DEF Others
<1>1. p \in Peers
  BY <1>0 DEF Good, Nodely, NodeOK
<1>2. p.id # 0 /\ p.id \in Ids
  BY <1>1, PeerType DEF HasPipe
<1>3. Fresh(ev, n, p.id) /\ HeldOK(s.net.pipe[p.id], n, m, p)
  BY <1>0, <1>2, HeldIsFresh
<1>4. p2 \in Peers /\ p2.id = p.id /\ p2.st = "Receiving"
  <2>1. "Receiving" \in HasPipe
    BY DEF HasPipe
  <2> HIDE DEF p
  <2>2. IsHolder(p2, "Receiving", p.id, msg.epoch, msg.offset)
    BY <1>2, <2>1, HolderMade
  <2> QED BY <2>2 DEF IsHolder
<1>5. PollConnected(s, n, m, msg) = t
  BY <1>0 DEF PollConnected, Good, Shape, Nodely, NodeOK
<1> HIDE DEF p2
<1>6. HeldOK(s.net.pipe[p2.id], n, m, p2)
  BY <1>3, <1>4 DEF HeldOK
<1>7. Good(t, ev) /\ Same(s, t, n)
  <2>1. p2.st # "Unknown" /\ s.node[n].peer[m].st # "Unknown" /\ Fresh(ev, n, p2.id)
    BY <1>3, <1>4
  <2> QED BY <1>4, <1>6, <2>1, SetPeerOK
<1> QED BY <1>5, <1>7

LEMMA PollAcceptedOK ==
    ASSUME NEW s, NEW ev, Good(s, ev), NEW n \in Nodes, NEW m \in Others(n),
           s.node[n].peer[m].st = "Accepted", NEW msg, msg.epoch \in Nat, msg.offset \in Nat
    PROVE  Good(PollAccepted(s, n, m, msg), ev) /\ Same(s, PollAccepted(s, n, m, msg), n)
<1> DEFINE p == s.node[n].peer[m]
           id == p.id
           w == s.net.pipe[id]
           c == Position(s.node[n])
           say == [type |-> "Subscribed", epoch |-> c.epoch, offset |-> c.offset]
           p2 == Peer("Sending", id, msg.epoch, msg.offset)
           u == Spoken(s, n, m, id, say, p2)
           d == disconnected(s, n, m)
<1>0. m \in Nodes /\ m # n
  BY DEF Others
<1>1. p \in Peers /\ p.st = "Accepted"
  BY <1>0 DEF Good, Nodely, NodeOK
<1>2. id # 0 /\ id \in Ids /\ id \in PipeIds
  BY <1>1, PeerType DEF HasPipe
<1>3. Fresh(ev, n, id) /\ HeldOK(w, n, m, p)
  BY <1>0, <1>2, HeldIsFresh
<1>4. w.from = m /\ w.to = n /\ w.toFrom = <<>> /\ PipeOK(w)
  BY <1>1, <1>2, <1>3 DEF HeldOK, Good, Pipes
<1>5. c.epoch \in Nat /\ c.offset \in Nat
  BY PositionType DEF Good
<1>6. Good(d, ev) /\ Same(s, d, n)
  BY DisconnectedOK
<1>7. PollAccepted(s, n, m, msg) = IF msg.epoch > c.epoch \/ ~IsOpen(s, id, n) THEN d ELSE u
  BY DEF PollAccepted, Spoken
<1> HIDE DEF c, d, p, id, w
<1>8. say \in Messages /\ say.type = "Subscribed"
  BY <1>5, SubscribeType
<1>9. p2 \in Peers /\ p2.id = id /\ p2.st = "Sending"
  <2>1. "Sending" \in HasPipe
    BY DEF HasPipe
  <2>2. IsHolder(p2, "Sending", id, msg.epoch, msg.offset)
    BY <1>2, <2>1, HolderMade
  <2> QED BY <2>2 DEF IsHolder
<1> HIDE DEF p2, say
<1>10. Between(w, n, m) /\ Mail(w, m) = <<>> /\ Len(Mail(w, m)) < BUFFER_SIZE
  BY <1>0, <1>4, Constants DEF Between, Mail
<1>11. Takes(w, n, m, say, p2)
  <2> SUFFICES ASSUME NEW w2, Filled(w2, w, n),
                      m \in w2.ends => Mail(w2, m) = Append(Mail(w, m), say)
               PROVE  HeldOK(w2, n, m, p2)
    BY DEF Takes
  <2>1. w2.from = m /\ w2.to = n
    BY <1>4 DEF Filled
  <2>2. ASSUME m \in w2.ends PROVE Stream(w2.toFrom, p2)
    <3>1. w2.toFrom = Append(<<>>, say)
      BY <1>10, <2>1, <2>2 DEF Mail
    <3>2. Len(w2.toFrom) = 1 /\ w2.toFrom[1] = say
      BY <3>1
    <3> QED BY <1>8, <3>2 DEF Stream
  <2> QED BY <1>9, <2>1, <2>2 DEF HeldOK
<1>12. Good(u, ev) /\ Same(s, u, n)
  <2>1. s.net.pipe[p2.id] = w /\ s.node[n].peer[m].st # "Unknown" /\ Fresh(ev, n, p2.id)
        /\ p2.id # 0 /\ p2.st # "Unknown"
    BY <1>2, <1>3, <1>9 DEF w, p
  <2>2. LET v == Spoken(s, n, m, p2.id, say, p2) IN Good(v, ev) /\ Same(s, v, n)
    BY <1>8, <1>9, <1>10, <1>11, <2>1, SpeakOK
  <2> QED BY <1>9, <2>2
<1> QED BY <1>6, <1>7, <1>12

\* How many blocks a Receiving peer reads.
Readable(q, k) ==
    /\ k \in 1 .. Len(q)
    /\ \A i \in 1 .. k : q[i].type = "Block"
    /\ \/ k \in {Len(q), MAX_BLOCKS_PER_BATCH}
       \/ q[k + 1].type # "Block"

LEMMA ReadableExists ==
    ASSUME NEW q \in Inboxes, q # <<>>, q[1].type = "Block"
    PROVE  \E k : Readable(q, k)
<1> DEFINE L == Len(q)
           x == {k \in 1 .. L : \A i \in 1 .. k : q[i].type = "Block"}
<1>1. L \in Nat /\ L # 0
  BY InboxType
<1>2. 1 \in x
  <2>1. 1 \in 1 .. L /\ \A i \in 1 .. 1 : i = 1
    BY <1>1
  <2> QED BY <2>1
<1>3. PICK y \in x : \A z \in x : y >= z
  <2>1. x \in SUBSET (1 .. L) /\ x # {} /\ L \in Int
    BY <1>1, <1>2
  <2> HIDE DEF x, L
  <2> QED BY <2>1, Maximum
<1>4. y \in 1 .. L /\ \A i \in 1 .. y : q[i].type = "Block"
  BY <1>3
<1>5. ASSUME y # L, q[y + 1].type = "Block" PROVE FALSE
  <2>1. y + 1 \in 1 .. L
    BY <1>1, <1>4, <1>5
  <2>2. ASSUME NEW i \in 1 .. y + 1 PROVE q[i].type = "Block"
    <3>1. i \in 1 .. y \/ i = y + 1
      BY <1>4
    <3> QED BY <1>4, <1>5, <3>1
  <2>3. y + 1 \in x
    BY <2>1, <2>2
  <2>4. ~(y >= y + 1)
    BY <1>4
  <2> HIDE DEF x
  <2> QED BY <1>3, <2>3, <2>4
<1>6. y = L \/ q[y + 1].type # "Block"
  BY <1>5
<1> QED BY <1>4, <1>6 DEF Readable

LEMMA PollReceivingOK ==
    ASSUME NEW s, NEW ev, Good(s, ev), NEW n \in Nodes, NEW m \in Others(n),
           s.node[n].peer[m].id \in PipeIds,
           LET q == Inbox(s, s.node[n].peer[m].id, n) IN q # <<>> /\ q[1].type = "Block"
    PROVE  LET r == PollReceiving(s, n, m)
           IN  Good(r.s, ev) /\ Same(s, r.s, n) /\ r.blocks \in Seq(Blocks)
<1> DEFINE id == s.node[n].peer[m].id
           q == Inbox(s, id, n)
           count == CHOOSE k : Readable(q, k)
           t == SetInbox(s, id, n, SubSeq(q, count + 1, Len(q)))
           B == [i \in 1 .. count |-> q[i].block]
<1>1. q \in Inboxes
  BY InboxIs
<1>2. PollReceiving(s, n, m) = Result(t, B)
  BY DEF PollReceiving, Readable
<1> HIDE DEF q
<1>3. Readable(q, count)
  BY <1>1, ReadableExists DEF q
<1> HIDE DEF count
<1>4. q \in Seq(Messages) /\ Len(q) \in Nat /\ count \in 1 .. Len(q)
      /\ \A i \in 1 .. count : q[i].type = "Block"
  BY <1>1, <1>3, InboxType DEF Readable
<1>5. ASSUME NEW i \in 1 .. count PROVE q[i].block \in Blocks
  <2>1. i \in 1 .. Len(q)
    BY <1>4
  <2>2. q[i] \in Messages
    BY <1>4, <2>1, Element
  <2> QED BY <1>4, <2>2, MessageType
<1>6. B \in Seq(Blocks)
  <2>1. count \in Nat
    BY <1>4
  <2> QED BY <1>5, <2>1
<1>7. Worse(SubSeq(q, count + 1, Len(q)), q)
  <2>1. count \in 0 .. Len(q)
    BY <1>4
  <2> QED BY <1>1, <2>1, RestIsWorse
<1>8. Good(t, ev) /\ Same(s, t, n)
  BY <1>7, ReadOK DEF q
<1> HIDE DEF t, B
<1>9. Result(t, B).s = t /\ Result(t, B).blocks = B
  BY DEF Result
<1> QED BY <1>2, <1>6, <1>8, <1>9

LEMMA PollSendingOK ==
    ASSUME NEW s, NEW ev, Good(s, ev), NEW n \in Nodes, NEW m \in Others(n), NEW late,
           s.node[n].peer[m].st = "Sending"
    PROVE  Good(PollSending(s, n, m, late), ev) /\ Same(s, PollSending(s, n, m, late), n)
<1> DEFINE p == s.node[n].peer[m]
           at == [epoch |-> p.epoch, offset |-> p.offset]
           Q == blocks_starting(s.node[n], at)
           d == disconnected(s, n, m)
           u == send_blocks(s, n, m, Q)
<1>0. m \in Nodes
  BY DEF Others
<1>1. p \in Peers /\ ChainOK(s.node[n])
  BY <1>0 DEF Good, Nodely, NodeOK
<1>2. at.epoch = p.epoch /\ at.offset = p.offset /\ p.epoch \in Nat /\ p.offset \in Nat
  BY <1>1, PeerType
<1>3. PollSending(s, n, m, late) \in {s, d, u}
  BY DEF PollSending
<1> HIDE DEF at
<1>4. Q \in Seq(Blocks) /\ Chained(at, Q)
  BY <1>1, <1>2, BlocksStarting
<1> HIDE DEF Q
<1>5. Chained(p, Q)
  BY <1>2, <1>4 DEF Chained, Covers
<1>6. Good(u, ev) /\ Same(s, u, n)
  BY <1>4, <1>5, SendBlocksOK
<1>7. Good(d, ev) /\ Same(s, d, n)
  BY DisconnectedOK
<1>8. Same(s, s, n)
  BY DEF Same, Near
<1> HIDE DEF u, d
<1> QED BY <1>3, <1>6, <1>7, <1>8

LEMMA PollPeerOK ==
    ASSUME NEW s, NEW ev, Good(s, ev), NEW n \in Nodes, NEW m \in Others(n), NEW late
    PROVE  LET r == PollPeer(s, n, m, late)
           IN  Good(r.s, ev) /\ Same(s, r.s, n) /\ r.blocks \in Seq(Blocks)
<1> DEFINE p == s.node[n].peer[m]
           q == Inbox(s, p.id, n)
           read == SetInbox(s, p.id, n, Tail(q))
           r == PollPeer(s, n, m, late)
           Fine(t) == Good(t, ev) /\ Same(s, t, n)
<1>0. m \in Nodes
  BY DEF Others
<1>1. p \in Peers
  BY <1>0 DEF Good, Nodely, NodeOK
<1>2. p.id \in PipeIds /\ (p.id # 0 <=> p.st \in HasPipe)
  BY <1>1, PeerType
<1>3. q \in Inboxes
  BY <1>2, InboxIs
<1>4. ASSUME NEW t, Fine(t), r = Result(t, <<>>) PROVE Fine(r.s) /\ r.blocks \in Seq(Blocks)
  <2>1. Result(t, <<>>).s = t /\ Result(t, <<>>).blocks = <<>>
    BY DEF Result
  <2>2. r.s = t /\ r.blocks = <<>>
    BY <1>4, <2>1
  <2>3. <<>> \in Seq(Blocks)
    OBVIOUS
  <2> HIDE DEF r, Fine
  <2> QED BY <1>4, <2>2, <2>3
<1>5. Fine(s)
  BY DEF Same, Near
<1>6. CASE p.id = 0
  <2>1. r = Result(s, <<>>)
    BY <1>6 DEF PollPeer
  <2> HIDE DEF r
  <2> QED BY <1>4, <1>5, <2>1 DEF r
<1>7. CASE p.id # 0
  <2>1. p.st \in HasPipe /\ s.node[n].peer[m].st # "Unknown"
    BY <1>2, <1>7 DEF HasPipe
  <2>2. Fine(disconnected(s, n, m)) /\ Fine(Fail(s, n, m))
    BY <2>1, DisconnectedOK
  <2> DEFINE silent == ~IsOpen(s, p.id, n) \/ (late = "idle" /\ p.st # "Sending")
  <2>3. CASE IsOver(p.st, late) \/ (q = <<>> /\ silent)
    <3>1. r = Result(disconnected(s, n, m), <<>>)
      BY <1>7, <2>3 DEF PollPeer
    <3> HIDE DEF r, Fine
    <3> QED BY <1>4, <2>2, <3>1 DEF r, Fine
  <2>4. CASE ~(IsOver(p.st, late) \/ (q = <<>> /\ silent)) /\ q # <<>> /\ Head(q).type \notin Expected(p.st)
    <3>1. r = Result(Fail(s, n, m), <<>>)
      BY <1>7, <2>4 DEF PollPeer
    <3> HIDE DEF r, Fine
    <3> QED BY <1>4, <2>2, <3>1 DEF r, Fine
  <2>5. CASE ~(IsOver(p.st, late) \/ (q = <<>> /\ silent)) /\ (q # <<>> => Head(q).type \in Expected(p.st))
    <3> DEFINE a1 == p.st = "Connected" /\ q # <<>>
               a2 == p.st = "Accepted" /\ q # <<>>
               a3 == p.st = "Receiving" /\ q # <<>>
               a4 == p.st = "Sending"
    <3>0. r = CASE a1 -> Result(PollConnected(read, n, m, Head(q)), <<>>)
                [] a2 -> Result(PollAccepted(read, n, m, Head(q)), <<>>)
                [] a3 -> PollReceiving(s, n, m)
                [] a4 -> Result(PollSending(s, n, m, late), <<>>)
                [] OTHER -> Result(s, <<>>)
      BY <1>7, <2>5 DEF PollPeer
    <3>1. /\ a1 => ~a2 /\ ~a3 /\ ~a4 /\ r = Result(PollConnected(read, n, m, Head(q)), <<>>)
          /\ a2 => ~a1 /\ ~a3 /\ ~a4 /\ r = Result(PollAccepted(read, n, m, Head(q)), <<>>)
          /\ a3 => ~a1 /\ ~a2 /\ ~a4 /\ r = PollReceiving(s, n, m)
          /\ a4 => ~a1 /\ ~a2 /\ ~a3 /\ r = Result(PollSending(s, n, m, late), <<>>)
          /\ ~a1 /\ ~a2 /\ ~a3 /\ ~a4 => r = Result(s, <<>>)
      <4> HIDE DEF r, read, q, p
      <4> QED BY <3>0
    <3>2. ASSUME q # <<>>
          PROVE  /\ Worse(Tail(q), q) /\ q[1] \in Messages /\ Head(q) = q[1]
                 /\ Good(read, ev) /\ read.node = s.node /\ Same(s, read, n)
      <4>1. Worse(Tail(q), q) /\ q[1] \in Messages /\ Head(q) = q[1]
        BY <1>3, <3>2, TailIsWorse
      <4>2. Good(read, ev) /\ read.node = s.node /\ Same(s, read, n)
        BY <1>2, <4>1, ReadOK
      <4> QED BY <4>1, <4>2
    <3>3. CASE a1
      <4>1. q[1].epoch \in Nat /\ q[1].offset \in Nat
        BY <2>5, <3>2, <3>3, MessageType DEF Expected
      <4> DEFINE t == PollConnected(read, n, m, q[1])
      <4>2. read.node[n].peer[m].st = "Connected"
        BY <3>2, <3>3
      <4> HIDE DEF read, r
      <4>3. Good(t, ev) /\ Same(read, t, n)
        BY <3>2, <3>3, <4>1, <4>2, PollConnectedOK
      <4>4. Fine(t)
        BY <3>2, <3>3, <4>3, SameTwice
      <4>5. r = Result(t, <<>>)
        BY <3>1, <3>2, <3>3
      <4> HIDE DEF t, Fine
      <4> QED BY <1>4, <4>4, <4>5 DEF Fine, r
    <3>4. CASE a2
      <4>1. q[1].epoch \in Nat /\ q[1].offset \in Nat
        BY <2>5, <3>2, <3>4, MessageType DEF Expected
      <4> DEFINE t == PollAccepted(read, n, m, q[1])
      <4>2. read.node[n].peer[m].st = "Accepted"
        BY <3>2, <3>4
      <4> HIDE DEF read, r
      <4>3. Good(t, ev) /\ Same(read, t, n)
        BY <3>2, <3>4, <4>1, <4>2, PollAcceptedOK
      <4>4. Fine(t)
        BY <3>2, <3>4, <4>3, SameTwice
      <4>5. r = Result(t, <<>>)
        BY <3>1, <3>2, <3>4
      <4> HIDE DEF t, Fine
      <4> QED BY <1>4, <4>4, <4>5 DEF Fine, r
    <3>5. CASE a3
      <4>1. q[1].type = "Block"
        BY <2>5, <3>2, <3>5 DEF Expected
      <4> HIDE DEF r
      <4>2. LET v == PollReceiving(s, n, m)
            IN  Good(v.s, ev) /\ Same(s, v.s, n) /\ v.blocks \in Seq(Blocks)
        BY <1>2, <3>5, <4>1, PollReceivingOK
      <4> QED BY <3>1, <3>5, <4>2 DEF r
    <3>6. CASE a4
      <4> DEFINE t == PollSending(s, n, m, late)
      <4>1. Fine(t)
        BY <3>6, PollSendingOK
      <4>2. r = Result(t, <<>>)
        BY <3>1, <3>6
      <4> HIDE DEF t, Fine, r
      <4> QED BY <1>4, <4>1, <4>2 DEF Fine, r
    <3>7. CASE ~a1 /\ ~a2 /\ ~a3 /\ ~a4
      <4>1. r = Result(s, <<>>)
        BY <3>1, <3>7
      <4> HIDE DEF r, Fine
      <4> QED BY <1>4, <1>5, <4>1 DEF Fine, r
    <3> QED BY <3>3, <3>4, <3>5, <3>6, <3>7
  <2> QED BY <2>3, <2>4, <2>5
<1> QED BY <1>6, <1>7

LEMMA PollPeersOK ==
    ASSUME NEW s, NEW ev, Good(s, ev), NEW n \in Nodes, NEW y, NEW late
    PROVE  LET r == PollPeers(s, n, y, late)
           IN  Good(r.s, ev) /\ Same(s, r.s, n) /\ r.blocks \in Seq(Blocks)
<1> DEFINE q == SetToSeq(Others(n))
           r0 == Result(s, <<>>)
           g == Polling(n, y, late, r0, q)
           Ok(r) == Good(r.s, ev) /\ Same(s, r.s, n) /\ r.blocks \in Seq(Blocks)
<1>1. PICK k \in Nat : DOMAIN q = 1 .. k /\ \A i \in 1 .. k : q[i] \in Others(n)
  BY OthersList
<1>2. PollPeers(s, n, y, late) = g[DOMAIN q]
  BY PollingIs
<1>3. Ok(r0)
  <2>1. r0.s = s /\ r0.blocks = <<>>
    BY DEF Result
  <2> HIDE DEF r0
  <2> QED BY <2>1 DEF Same, Near
<1> HIDE DEF q, r0
<1>4. g[{}] = r0 /\ \A i \in 1 .. k : g[1 .. i] = PollNext(g[1 .. i - 1], n, q[i], y, late)
  <2>1. DOMAIN q = 1 .. k
    BY <1>1
  <2> QED BY <2>1, PollingRun
<1> HIDE DEF g
<1>5. ASSUME NEW r, Ok(r), NEW m \in Others(n) PROVE Ok(PollNext(r, n, m, y, late))
  <2>1. CASE r.blocks # <<>>
    BY <1>5, <2>1 DEF PollNext
  <2>2. CASE r.blocks = <<>>
    <3> DEFINE l == IF m = y THEN late ELSE "no"
               v == PollPeer(r.s, n, m, l)
    <3>1. PollNext(r, n, m, y, late) = v
      BY <2>2 DEF PollNext
    <3> HIDE DEF l
    <3>2. Good(v.s, ev) /\ Same(r.s, v.s, n) /\ v.blocks \in Seq(Blocks)
      BY <1>5, PollPeerOK
    <3> HIDE DEF v
    <3>3. Same(s, v.s, n)
      BY <1>5, <3>2, SameTwice
    <3> QED BY <3>1, <3>2, <3>3
  <2> QED BY <2>1, <2>2
<1> HIDE DEF Ok
<1> DEFINE T == {i \in Nat : i <= k => Ok(g[1 .. i])}
<1>6. 0 \in T
  <2>1. 1 .. 0 = {}
    OBVIOUS
  <2> QED BY <1>3, <1>4, <2>1
<1>7. ASSUME NEW j \in Nat, j \in T PROVE j + 1 \in T
  <2> DEFINE i == j + 1
  <2> SUFFICES ASSUME i <= k PROVE Ok(g[1 .. i])
    OBVIOUS
  <2>1. i \in 1 .. k /\ i - 1 = j /\ j <= k
    OBVIOUS
  <2>2. Ok(g[1 .. i - 1])
    BY <1>7, <2>1
  <2> HIDE DEF i
  <2> QED BY <1>1, <1>4, <1>5, <2>1, <2>2
<1>8. k \in T
  <2> HIDE DEF T
  <2> QED BY <1>6, <1>7, NumberInduction
<1>9. Ok(g[1 .. k])
  BY <1>8
<1> QED BY <1>1, <1>2, <1>9 DEF Ok

-----------------------------------------------------------------------------
(* Steps *)

\* The invariant, for a state between two steps.
Sound(s) == Good(s, Queues(s)) /\ Knows(s, Queues(s))

LEMMA SoundSame ==
    ASSUME NEW s, Sound(s), NEW n \in Nodes, NEW t, Good(t, Queues(s)), Same(s, t, n)
    PROVE  Sound(t)
<1>1. Queues(t) = Queues(s)
  BY QueuesSame DEF Same
<1>2. Knows(t, Queues(s))
  BY KnowsSame DEF Sound
<1> QED BY <1>1, <1>2 DEF Sound

\* Only what is being dialed is different.
LEMMA SoundDialing ==
    ASSUME NEW s, Sound(s), NEW t, Shape(t), t.node = s.node, t.net.links = s.net.links,
           t.net.pipe = s.net.pipe,
           \A d \in t.net.dialing : d \in s.net.dialing
              \/ \E n \in Nodes : \E m \in Others(n) : d = <<n, m>> /\ {n, m} \in s.net.links
    PROVE  Sound(t)
<1>1. Queues(t) = Queues(s)
  BY DEF Queues
<1>2. Nodely(t) /\ Pipes(t) /\ Held(t)
  BY DEF Sound, Good, Nodely, Pipes, Held
<1>3. LinksOK(t)
  BY DEF Sound, Good, LinksOK
<1>4. Pending(t, Queues(s))
  BY DEF Sound, Good, Pending, PendingOK
<1>5. Knows(t, Queues(s))
  BY DEF Sound, Knows, Known, Linked
<1> QED BY <1>1, <1>2, <1>3, <1>4, <1>5 DEF Sound, Good

LEMMA CutIsLess ==
    ASSUME NEW s, Pipes(s), NEW ids, NEW gone, NEW id \in PipeIds
    PROVE  Less(Cut(s.net.pipe, ids, gone)[id], s.net.pipe[id])
<1> DEFINE w == s.net.pipe[id]
           w2 == [w EXCEPT !.ends = @ \ gone]
<1>1. PipeOK(w)
  BY DEF Pipes
<1>2. Less(w, w)
  BY <1>1, SameIsLess
<1>3. Cut(s.net.pipe, ids, gone)[id] = IF id \in ids THEN w2 ELSE w
  BY DEF Cut
<1>4. Less(w2, w)
  <2> HIDE DEF w
  <2> QED BY <1>1, <1>2 DEF Less, PipeOK
<1> HIDE DEF w2
<1> QED BY <1>2, <1>3, <1>4

LEMMA ConnectOK ==
    ASSUME NEW s, Sound(s), NEW n \in Nodes, NEW m \in Others(n),
           s.node[n].peer[m].st # "Unknown"
    PROVE  Sound(Connect(s, n, m))
<1> DEFINE old == {id \in Ids : s.net.pipe[id].from = n /\ s.net.pipe[id].to = m}
           f == Cut(s.net.pipe, old, {n})
           t == [s EXCEPT !.net.pipe = f]
           p == Peer("Connecting", 0, 0, 0)
           u == [t EXCEPT !.node[n].peer[m] = p]
           more == IF {n, m} \in s.net.links THEN {<<n, m>>} ELSE {}
           v == Connect(s, n, m)
<1>0. Good(s, Queues(s)) /\ Shape(s)
  BY DEF Sound, Good
<1>1. v = [s EXCEPT !.net.pipe = f, !.node[n].peer[m] = p, !.net.dialing = @ \cup more]
  BY DEF Connect
<1>2. /\ Shape(t) /\ t.node = s.node /\ t.net.links = s.net.links
      /\ t.net.dialing = s.net.dialing /\ t.net.pipe = f
  <2> HIDE DEF f
  <2>1. DOMAIN f = PipeIds
    BY DEF f, Cut
  <2> QED BY <1>0, <2>1 DEF Shape
<1>3. \A id \in PipeIds : Less(f[id], s.net.pipe[id])
  BY <1>0, CutIsLess DEF Good
<1> HIDE DEF f, t
<1>4. Good(t, Queues(s)) /\ Same(s, t, n)
  BY <1>0, <1>2, <1>3, Lessen
<1>5. p \in Peers /\ p.id = 0 /\ p.st = "Connecting" /\ t.node[n].peer[m].st # "Unknown"
  BY <1>2, PeersMade
<1> HIDE DEF p
<1>6. Good(u, Queues(s)) /\ Same(t, u, n) /\ u.net = t.net
  BY <1>4, <1>5, SetPeerOK
<1>7. Sound(u)
  BY <1>4, <1>6, SameTwice, SoundSame
<1>8. /\ Shape(v) /\ v.node = u.node /\ v.net.links = u.net.links /\ v.net.pipe = u.net.pipe
      /\ v.net.dialing = u.net.dialing \cup more
  <2>1. u.net = t.net
    BY <1>6
  <2>2. DOMAIN s.node[n] = Fields
    BY <1>0 DEF Good, Nodely, NodeOK
  <2>3. v.node = u.node
    BY <1>0, <1>1 DEF Shape, t
  <2> HIDE DEF v, more, u
  <2>4. /\ Shape(v) /\ v.net.links = s.net.links /\ v.net.pipe = f
        /\ v.net.dialing = s.net.dialing \cup more
    BY <1>0, <1>1, <1>2 DEF Shape
  <2> QED BY <1>2, <2>1, <2>3, <2>4
<1>9. u.net.links = s.net.links
  BY <1>2, <1>6
<1> HIDE DEF u, v
<1>10. \A d \in v.net.dialing : d \in u.net.dialing
          \/ \E a \in Nodes : \E b \in Others(a) : d = <<a, b>> /\ {a, b} \in u.net.links
  BY <1>8, <1>9
<1>11. Sound(v)
  BY <1>7, <1>8, <1>10, SoundDialing
<1> QED BY <1>11 DEF v

LEMMA PollStatesOK ==
    ASSUME Sound(Here), NEW n \in Nodes, NEW y, NEW late, NEW t \in PollStates(n, y, late)
    PROVE  Sound(t)
<1> DEFINE h == HandleEvents(Here, n)
           r == PollPeers(h, n, y, late)
           peer == r.s.node[n].peer
           potential == {m \in Others(n) : peer[m].st = "Registered"}
<1>1. Sound(h)
  BY HandleEventsOK DEF Sound
<1>2. \/ t = HandleBlocks(r.s, n, r.blocks)
      \/ t = r.s
      \/ \E m \in potential : t = Connect(r.s, n, m)
  BY DEF PollStates
<1> HIDE DEF h
<1>3. Good(r.s, Queues(h)) /\ Same(h, r.s, n) /\ r.blocks \in Seq(Blocks)
  BY <1>1, PollPeersOK DEF Sound
<1> HIDE DEF r
<1>4. Sound(r.s)
  BY <1>1, <1>3, SoundSame
<1>5. CASE t = HandleBlocks(r.s, n, r.blocks)
  <2>1. Good(t, Queues(r.s)) /\ Same(r.s, t, n)
    BY <1>3, <1>4, <1>5, HandleBlocksOK DEF Sound
  <2> QED BY <1>4, <2>1, SoundSame
<1>6. CASE \E m \in potential : t = Connect(r.s, n, m)
  <2>1. PICK m \in potential : t = Connect(r.s, n, m)
    BY <1>6
  <2>2. m \in Others(n) /\ r.s.node[n].peer[m].st # "Unknown"
    BY <2>1
  <2> QED BY <1>4, <2>1, <2>2, ConnectOK
<1> QED BY <1>2, <1>4, <1>5, <1>6

\* Forgetting pipes that nobody knows of.
LEMMA BecomeOK ==
    ASSUME NEW s, Sound(s), Become(s)
    PROVE  Sound(Here')
<1> DEFINE known == {s.node[n].peer[m].id : n, m \in Nodes}
                      \cup UNION {{s.node[n].events[i].id : i \in DOMAIN s.node[n].events} :
                                  n \in Nodes}
           f == [id \in PipeIds |-> IF s.net.pipe[id].ends = {} /\ id \notin known THEN NoPipe
                                    ELSE s.net.pipe[id]]
           t == Here'
<1>0. Good(s, Queues(s)) /\ Shape(s) /\ Knows(s, Queues(s))
  BY DEF Sound, Good
<1>1. node' = s.node /\ net' = [s.net EXCEPT !.pipe = f]
  BY DEF Become
<1>2. t = [node |-> node', net |-> net']
  BY DEF Here
<1>3. DOMAIN f = PipeIds /\ \A id \in PipeIds : f[id] = NoPipe \/ f[id] = s.net.pipe[id]
  OBVIOUS
<1>4. \A id \in PipeIds : id \in known => f[id] = s.net.pipe[id]
  OBVIOUS
<1>5. \A n, m \in Nodes : s.node[n].peer[m].id \in known
  OBVIOUS
<1>6. \A n \in Nodes : \A i \in DOMAIN s.node[n].events : s.node[n].events[i].id \in known
  OBVIOUS
<1> HIDE DEF known, f, t
<1>7. /\ Shape(t) /\ t.node = s.node /\ t.net.links = s.net.links
      /\ t.net.dialing = s.net.dialing /\ t.net.pipe = f
  BY <1>0, <1>1, <1>2, <1>3 DEF Shape
<1>8. Queues(t) = Queues(s)
  BY <1>7 DEF Queues
<1>9. Nodely(t) /\ LinksOK(t) /\ Knows(t, Queues(s))
  BY <1>0, <1>7 DEF Good, Nodely, LinksOK, Knows, Known, Linked
<1>10. Pipes(t)
  <2>1. PipeOK(NoPipe)
    <3>1. <<>> \in Inboxes
      BY Constants DEF Inboxes
    <3> QED BY <3>1 DEF PipeOK, NoPipe
  <2> QED BY <1>0, <1>3, <1>7, <2>1 DEF Good, Pipes
<1>11. Held(t)
  <2> SUFFICES ASSUME NEW n \in Nodes, NEW m \in Nodes, s.node[n].peer[m].id # 0
               PROVE  HeldOK(f[s.node[n].peer[m].id], n, m, s.node[n].peer[m])
    BY <1>7 DEF Held
  <2>1. /\ HeldOK(s.net.pipe[s.node[n].peer[m].id], n, m, s.node[n].peer[m])
        /\ s.node[n].peer[m] \in Peers
    BY <1>0, HeldIsFresh
  <2>2. s.node[n].peer[m].id \in PipeIds
    BY <2>1, PeerType
  <2>3. f[s.node[n].peer[m].id] = s.net.pipe[s.node[n].peer[m].id]
    BY <1>4, <1>5, <2>2
  <2> QED BY <2>1, <2>3
<1>12. Pending(t, Queues(s))
  <2> SUFFICES ASSUME NEW n \in Nodes PROVE PendingOK(t, n, Queues(s)[n])
    BY DEF Pending, Queues
  <2> DEFINE q == s.node[n].events
  <2>0. Queues(s)[n] = q
    BY DEF Queues
  <2>1. PendingOK(s, n, q)
    BY <1>0, <2>0 DEF Good, Pending
  <2>2. q \in Seq(Events(n)) /\ DOMAIN q = 1 .. Len(q)
    BY <2>1 DEF PendingOK
  <2>3. ASSUME NEW i \in 1 .. Len(q), q[i].id # 0 PROVE t.net.pipe[q[i].id] = s.net.pipe[q[i].id]
    <3>1. q[i] \in Events(n) /\ q[i].id \in known
      BY <1>6, <2>2, Element
    <3>2. q[i].id \in PipeIds
      BY <3>1, EventType
    <3> QED BY <1>4, <1>7, <3>1, <3>2
  <2> HIDE DEF q
  <2>4. PendingOK(t, n, q)
    BY <1>7, <2>1, <2>3 DEF PendingOK
  <2> QED BY <2>0, <2>4
<1> QED BY <1>7, <1>8, <1>9, <1>10, <1>11, <1>12 DEF Sound, Good, t

LEMMA LinksSet ==
    ASSUME NEW s, NEW ev, Good(s, ev), NEW t, Shape(t), t.node = s.node,
           t.net.pipe = s.net.pipe, LinksOK(t)
    PROVE  Good(t, ev) /\ \A a \in Nodes : Known(t, a) = Known(s, a)
<1>1. Nodely(t) /\ Pipes(t) /\ Held(t)
  BY DEF Good, Nodely, Pipes, Held
<1>2. Pending(t, ev)
  BY DEF Good, Pending, PendingOK
<1>3. \A a \in Nodes : Known(t, a) = Known(s, a)
  BY DEF Known
<1> QED BY <1>1, <1>2, <1>3 DEF Good

\* One more event.
LEMMA LeadsOn ==
    ASSUME NEW S, NEW q \in Seq(S), NEW e, NEW K, NEW L, NEW L2 \in SUBSET Nodes,
           Leads(q, K, L), Follows(L, L2, e)
    PROVE  Leads(Append(q, e), K, L2)
<1> DEFINE l == Len(q)
           Q == Append(q, e)
<1>1. l \in Nat /\ Len(Q) = l + 1 /\ Q[l + 1] = e /\ \A i \in 1 .. l : Q[i] = q[i]
  BY DEF Leads
<1>2. PICK k \in [0 .. l -> SUBSET Nodes] :
         k[0] = K /\ k[l] = L /\ \A i \in 1 .. l : Follows(k[i - 1], k[i], q[i])
  BY DEF Leads
<1> HIDE DEF l, Q
<1> DEFINE k2 == [i \in 0 .. l + 1 |-> IF i = l + 1 THEN L2 ELSE k[i]]
<1>3. k2 \in [0 .. l + 1 -> SUBSET Nodes]
  BY <1>1, <1>2
<1>4. \A i \in 0 .. l : k2[i] = k[i]
  BY <1>1
<1>5. k2[l + 1] = L2
  BY <1>1
<1> HIDE DEF k2
<1>6. k2[0] = K
  BY <1>1, <1>2, <1>4
<1>7. ASSUME NEW i \in 1 .. l + 1 PROVE Follows(k2[i - 1], k2[i], Q[i])
  <2>1. CASE i = l + 1
    <3>1. i - 1 = l /\ l \in 0 .. l
      BY <1>1, <2>1
    <3> QED BY <1>1, <1>2, <1>4, <1>5, <2>1, <3>1
  <2>2. CASE i # l + 1
    <3>1. i \in 1 .. l /\ i - 1 \in 0 .. l /\ i \in 0 .. l
      BY <1>1, <2>2
    <3> QED BY <1>1, <1>2, <1>4, <3>1
  <2> QED BY <2>1, <2>2
<1>8. Leads(Q, K, L2)
  BY <1>1, <1>3, <1>5, <1>6, <1>7 DEF Leads
<1> QED BY <1>8 DEF Q

LEMMA NotifyOK ==
    ASSUME NEW s, Good(s, Queues(s)), NEW n \in Nodes, NEW e \in Events(n),
           e.id # 0 => /\ BroughtOK(s.net.pipe[e.id], n, e) /\ Fresh(Queues(s), n, e.id)
                       /\ \A m \in Nodes : s.node[n].peer[m].id # e.id
    PROVE  LET t == Notify(s, n, e)
           IN  /\ Good(t, Queues(t)) /\ t.net = s.net
               /\ \A a \in Nodes : a # n => t.node[a] = s.node[a]
               /\ \A a \in Nodes : Known(t, a) = Known(s, a) /\ t.node[a].peer = s.node[a].peer
               /\ t.node[n].events = Append(s.node[n].events, e)
               /\ s.node[n].events \in Seq(Events(n))
<1> DEFINE q == s.node[n].events
           t == Notify(s, n, e)
<1>0. DOMAIN s.node[n] = Fields /\ ChainOK(s.node[n])
  BY DEF Good, Nodely, NodeOK
<1>1. /\ Shape(t) /\ t.net = s.net /\ \A a \in Nodes : a # n => t.node[a] = s.node[a]
      /\ DOMAIN t.node[n] = Fields /\ t.node[n].events = Append(q, e)
      /\ t.node[n].peer = s.node[n].peer /\ t.node[n].epoch = s.node[n].epoch
      /\ t.node[n].micros = s.node[n].micros /\ t.node[n].panicked = s.node[n].panicked
  BY <1>0 DEF Good, Shape, Fields, Notify
<1> HIDE DEF t
<1>2. Nodely(t)
  <2> SUFFICES ASSUME NEW a \in Nodes PROVE NodeOK(t.node[a], a)
    BY DEF Nodely
  <2>1. NodeOK(s.node[a], a)
    BY DEF Good, Nodely
  <2>2. CASE a = n
    BY <1>1, <2>1, <2>2 DEF NodeOK, ChainOK
  <2> QED BY <1>1, <2>1, <2>2
<1>3. \A a \in Nodes : t.node[a].peer = s.node[a].peer
  BY <1>1
<1>4. LinksOK(t) /\ Pipes(t) /\ Held(t) /\ \A a \in Nodes : Known(t, a) = Known(s, a)
  <2>1. LinksOK(t) /\ Pipes(t)
    <3>1. t.net = s.net
      BY <1>1
    <3> QED BY <3>1 DEF Good, LinksOK, Pipes
  <2>2. Held(t)
    BY <1>1, <1>3 DEF Good, Held
  <2>3. \A a \in Nodes : Known(t, a) = Known(s, a)
    BY <1>3 DEF Known
  <2> QED BY <2>1, <2>2, <2>3
<1>5. PendingOK(s, n, q) /\ \A a \in Nodes : PendingOK(s, a, s.node[a].events)
  BY DEF Good, Pending, Queues
<1>6. q \in Seq(Events(n)) /\ Len(q) \in Nat
  BY <1>5 DEF PendingOK
<1>7. PendingOK(t, n, Append(q, e))
  <2> DEFINE Q == Append(q, e)
             l == Len(q)
  <2>1. Q \in Seq(Events(n)) /\ Len(Q) = l + 1 /\ Q[l + 1] = e /\ \A i \in 1 .. l : Q[i] = q[i]
    BY <1>6
  <2>2. Fresh(Queues(s), n, e.id) => \A i \in 1 .. l : q[i].id # e.id
    BY DEF Fresh, Queues
  <2>3. \A i \in 1 .. l + 1 : i \in 1 .. l \/ i = l + 1
    BY <1>6
  <2>4. \A i \in 1 .. l : q[i].id # 0 =>
           /\ BroughtOK(s.net.pipe[q[i].id], n, q[i])
           /\ \A m \in Nodes : s.node[n].peer[m].id # q[i].id
           /\ \A j \in 1 .. l : q[j].id = q[i].id => i = j
    BY <1>5 DEF PendingOK
  <2> HIDE DEF Q, q, l
  <2>5. ASSUME NEW i \in 1 .. l + 1, Q[i].id # 0
        PROVE  /\ BroughtOK(t.net.pipe[Q[i].id], n, Q[i])
               /\ \A m \in Nodes : t.node[n].peer[m].id # Q[i].id
               /\ \A j \in 1 .. l + 1 : Q[j].id = Q[i].id => i = j
    <3>1. CASE i = l + 1
      <4>1. Q[i] = e
        BY <2>1, <3>1
      <4>2. /\ BroughtOK(t.net.pipe[Q[i].id], n, Q[i])
            /\ \A m \in Nodes : t.node[n].peer[m].id # Q[i].id
        BY <1>1, <2>5, <4>1
      <4>3. ASSUME NEW j \in 1 .. l + 1, Q[j].id = Q[i].id PROVE i = j
        BY <2>1, <2>2, <2>3, <2>5, <3>1, <4>1, <4>3
      <4> QED BY <4>2, <4>3
    <3>2. CASE i \in 1 .. l
      <4>1. Q[i] = q[i]
        BY <2>1, <3>2
      <4>2. /\ BroughtOK(t.net.pipe[Q[i].id], n, Q[i])
            /\ \A m \in Nodes : t.node[n].peer[m].id # Q[i].id
        BY <1>1, <2>4, <2>5, <3>2, <4>1
      <4>3. ASSUME NEW j \in 1 .. l + 1, Q[j].id = Q[i].id PROVE i = j
        <5>1. CASE j \in 1 .. l
          BY <2>1, <2>4, <2>5, <3>2, <4>1, <4>3, <5>1
        <5>2. CASE j = l + 1
          <6>1. e.id = q[i].id /\ e.id # 0
            BY <2>1, <2>5, <4>1, <4>3, <5>2
          <6> QED BY <2>2, <3>2, <6>1
        <5> QED BY <2>3, <5>1, <5>2
      <4> QED BY <4>2, <4>3
    <3> QED BY <2>3, <3>1, <3>2
  <2>6. PendingOK(t, n, Q)
    BY <2>1, <2>5 DEF PendingOK
  <2> QED BY <2>6 DEF Q, q
<1>8. Pending(t, Queues(t))
  <2> SUFFICES ASSUME NEW a \in Nodes PROVE PendingOK(t, a, t.node[a].events)
    BY DEF Pending, Queues
  <2>1. CASE a = n
    BY <1>1, <1>7, <2>1
  <2>2. CASE a # n
    <3>1. PendingOK(s, a, s.node[a].events) /\ t.node[a] = s.node[a]
      BY <1>1, <1>5, <2>2
    <3> QED BY <1>1, <3>1 DEF PendingOK
  <2> QED BY <2>1, <2>2
<1> QED BY <1>1, <1>2, <1>3, <1>4, <1>6, <1>8 DEF Good, t

LEMMA EventMade ==
    ASSUME NEW n \in Nodes, NEW m \in Others(n)
    PROVE  /\ \A type \in {"Registered", "Unregistered", "ConnectionFailed"} :
                 LET e == Event(type, m, 0)
                 IN  e \in Events(n) /\ e.type = type /\ e.peer = m /\ e.id = 0
           /\ \A type \in {"Connected", "Accepted"}, id \in Ids :
                 LET e == Event(type, m, id)
                 IN  e \in Events(n) /\ e.type = type /\ e.peer = m /\ e.id = id
  BY DEF Event, Events

\* A pipe that nobody uses.
Free(s, ev, id) ==
    /\ \A a, b \in Nodes : s.node[a].peer[b].id # id
    /\ \A a \in Nodes : Fresh(ev, a, id)

LEMMA NoPipeIsFree ==
    ASSUME NEW s, NEW ev, Good(s, ev), NEW id \in Ids, s.net.pipe[id] = NoPipe
    PROVE  Free(s, ev, id)
<1>0. id # 0 /\ NoPipe.from = 0 /\ NoPipe.to = 0
  BY Constants DEF NoPipe
<1>1. ASSUME NEW a \in Nodes, NEW b \in Nodes, s.node[a].peer[b].id = id PROVE FALSE
  <2> DEFINE p == s.node[a].peer[b]
  <2>1. p \in Peers /\ HeldOK(NoPipe, a, b, p)
    BY <1>0, <1>1, HeldIsFresh
  <2>2. p.st \in HasPipe
    BY <1>0, <1>1, <2>1, PeerType
  <2>3. a = b
    BY <1>0, <2>1, <2>2 DEF HeldOK, HasPipe
  <2>4. p = Unknown
    BY <2>3 DEF Good, Nodely, NodeOK
  <2> QED BY <1>0, <1>1, <2>4, PeersMade
<1>2. ASSUME NEW a \in Nodes, NEW i \in 1 .. Len(ev[a]), ev[a][i].id = id PROVE FALSE
  <2> DEFINE e == ev[a][i]
  <2>1. PendingOK(s, a, ev[a])
    BY DEF Good, Pending
  <2>2. e \in Events(a) /\ BroughtOK(NoPipe, a, e)
    BY <1>0, <1>2, <2>1 DEF PendingOK
  <2>3. e.type \in {"Connected", "Accepted"} /\ e.peer # a
    BY <1>0, <1>2, <2>2, EventType DEF Others
  <2> QED BY <1>0, <2>2, <2>3 DEF BroughtOK
<1> QED BY <1>1, <1>2 DEF Free, Fresh

LEMMA NewPipeOK ==
    ASSUME NEW s, NEW ev, Good(s, ev), NEW id \in Ids, Free(s, ev, id), NEW t, Shape(t),
           t.node = s.node, LinksOK(t), PipeOK(t.net.pipe[id]),
           \A j \in PipeIds : j # id => t.net.pipe[j] = s.net.pipe[j]
    PROVE  Good(t, ev) /\ \A a \in Nodes : Known(t, a) = Known(s, a)
<1>1. Nodely(t) /\ \A a \in Nodes : Known(t, a) = Known(s, a)
  BY DEF Good, Nodely, Known
<1>2. Pipes(t)
  BY DEF Good, Pipes
<1>3. Held(t)
  <2> SUFFICES ASSUME NEW n \in Nodes, NEW m \in Nodes, s.node[n].peer[m].id # 0
               PROVE  HeldOK(t.net.pipe[s.node[n].peer[m].id], n, m, s.node[n].peer[m])
    BY DEF Held
  <2>1. /\ HeldOK(s.net.pipe[s.node[n].peer[m].id], n, m, s.node[n].peer[m])
        /\ s.node[n].peer[m] \in Peers
    BY HeldIsFresh
  <2>2. s.node[n].peer[m].id \in PipeIds /\ s.node[n].peer[m].id # id
    BY <2>1, PeerType DEF Free
  <2>3. t.net.pipe[s.node[n].peer[m].id] = s.net.pipe[s.node[n].peer[m].id]
    BY <2>2
  <2> QED BY <2>1, <2>3
<1>4. Pending(t, ev)
  <2> SUFFICES ASSUME NEW n \in Nodes PROVE PendingOK(t, n, ev[n])
    BY DEF Pending, Good
  <2> DEFINE q == ev[n]
  <2>1. PendingOK(s, n, q) /\ Fresh(ev, n, id)
    BY DEF Good, Pending, Free
  <2>2. ASSUME NEW i \in 1 .. Len(q), q[i].id # 0 PROVE t.net.pipe[q[i].id] = s.net.pipe[q[i].id]
    <3>1. q[i] \in Events(n) /\ q[i].id # id
      BY <2>1 DEF PendingOK, Fresh
    <3>2. q[i].id \in PipeIds
      BY <3>1, EventType
    <3> QED BY <3>1, <3>2
  <2> HIDE DEF q
  <2>3. PendingOK(t, n, q)
    BY <2>1, <2>2 DEF PendingOK
  <2> QED BY <2>3 DEF q
<1> QED BY <1>1, <1>2, <1>3, <1>4 DEF Good

LEMMA LinkOK ==
    ASSUME Sound(Here), NEW n \in Nodes, NEW m \in Others(n), Link(n, m)
    PROVE  Sound(Here')
<1> DEFINE s == [Here EXCEPT !.net.links = @ \cup {{n, m}}]
           e1 == Event("Registered", m, 0)
           e2 == Event("Registered", n, 0)
           t == Notify(s, n, e1)
           u == Notify(t, m, e2)
<1>0. /\ m \in Nodes /\ m # n /\ n \in Others(m) /\ {n, m} \notin Here.net.links
      /\ Good(Here, Queues(Here)) /\ Shape(Here)
  BY DEF Others, Link, Sound, Good, Here
<1>1. /\ Shape(s) /\ s.node = Here.node /\ s.net.pipe = Here.net.pipe
      /\ s.net.dialing = Here.net.dialing /\ s.net.links = Here.net.links \cup {{n, m}}
  <2> HIDE DEF e1, e2
  <2> QED BY <1>0 DEF Shape
<1>2. Become(u)
  BY DEF Link
<1>3. /\ e1 \in Events(n) /\ e1.type = "Registered" /\ e1.peer = m /\ e1.id = 0
      /\ e2 \in Events(m) /\ e2.type = "Registered" /\ e2.peer = n /\ e2.id = 0
  BY <1>0, EventMade
<1> HIDE DEF s, e1, e2
<1>4. LinksOK(s)
  BY <1>0, <1>1 DEF Good, LinksOK
<1>5. Good(s, Queues(Here)) /\ (\A a \in Nodes : Known(s, a) = Known(Here, a))
      /\ Queues(s) = Queues(Here)
  BY <1>0, <1>1, <1>4, LinksSet DEF Queues
<1>6. /\ Good(t, Queues(t)) /\ t.net = s.net
      /\ \A a \in Nodes : a # n => t.node[a] = s.node[a]
      /\ \A a \in Nodes : Known(t, a) = Known(s, a)
      /\ t.node[n].events = Append(s.node[n].events, e1) /\ s.node[n].events \in Seq(Events(n))
  BY <1>3, <1>5, NotifyOK
<1> HIDE DEF t
<1>7. /\ Good(u, Queues(u)) /\ u.net = t.net
      /\ \A a \in Nodes : a # m => u.node[a] = t.node[a]
      /\ \A a \in Nodes : Known(u, a) = Known(t, a)
      /\ u.node[m].events = Append(t.node[m].events, e2) /\ t.node[m].events \in Seq(Events(m))
  BY <1>0, <1>3, <1>6, NotifyOK
<1> HIDE DEF u
<1>8. Knows(u, Queues(u))
  <2> SUFFICES ASSUME NEW a \in Nodes PROVE Leads(u.node[a].events, Known(u, a), Linked(u, a))
    BY DEF Knows, Queues
  <2>1. Leads(Here.node[a].events, Known(Here, a), Linked(Here, a))
    BY DEF Sound, Knows, Queues
  <2>2. Known(u, a) = Known(Here, a) /\ u.net.links = Here.net.links \cup {{n, m}}
        /\ Linked(u, a) \in SUBSET Nodes
    BY <1>1, <1>5, <1>6, <1>7 DEF Linked
  <2>3. CASE a = n
    <3>1. u.node[a].events = Append(Here.node[n].events, e1) /\ Here.node[n].events \in Seq(Events(n))
      BY <1>0, <1>1, <1>6, <1>7, <2>3
    <3>2. Linked(u, a) = Linked(Here, a) \cup {m} /\ m \notin Linked(Here, a)
      BY <1>0, <2>2, <2>3 DEF Linked
    <3>3. Follows(Linked(Here, a), Linked(u, a), e1)
      BY <1>3, <3>2 DEF Follows
    <3> QED BY <2>1, <2>2, <2>3, <3>1, <3>3, LeadsOn
  <2>4. CASE a = m
    <3>1. u.node[a].events = Append(Here.node[m].events, e2) /\ Here.node[m].events \in Seq(Events(m))
      BY <1>0, <1>1, <1>6, <1>7, <2>4
    <3>2. Linked(u, a) = Linked(Here, a) \cup {n} /\ n \notin Linked(Here, a)
      <4>1. {m, n} = {n, m}
        OBVIOUS
      <4>2. \A b \in Nodes : {m, b} = {n, m} <=> b = n
        BY <1>0
      <4>3. n \notin Linked(Here, m)
        BY <1>0, <4>1 DEF Linked
      <4>4. \A b : b \in Linked(u, m) <=> b \in Linked(Here, m) \/ b = n
        BY <1>0, <2>2, <4>1, <4>2 DEF Linked
      <4> QED BY <2>4, <4>3, <4>4
    <3>3. Follows(Linked(Here, a), Linked(u, a), e2)
      BY <1>3, <3>2 DEF Follows
    <3> QED BY <2>1, <2>2, <2>4, <3>1, <3>3, LeadsOn
  <2>5. CASE a # n /\ a # m
    <3>1. u.node[a].events = Here.node[a].events
      BY <1>1, <1>6, <1>7, <2>5
    <3>2. Linked(u, a) = Linked(Here, a)
      BY <2>2, <2>5 DEF Linked
    <3> QED BY <2>1, <2>2, <3>1, <3>2
  <2> QED BY <2>3, <2>4, <2>5
<1>9. Sound(u)
  BY <1>7, <1>8 DEF Sound
<1> QED BY <1>2, <1>9, BecomeOK DEF u, t, s, e1, e2

LEMMA UnlinkOK ==
    ASSUME Sound(Here), NEW n \in Nodes, NEW m \in Others(n), Unlink(n, m)
    PROVE  Sound(Here')
<1> DEFINE cut == {id \in Ids : {net.pipe[id].from, net.pipe[id].to} = {n, m}}
           f == Cut(Here.net.pipe, cut, {n, m})
           r == [Here EXCEPT !.net.pipe = f]
           s == [Here EXCEPT !.net.links = @ \ {{n, m}},
                             !.net.dialing = @ \ {<<n, m>>, <<m, n>>},
                             !.net.pipe = Cut(@, cut, {n, m})]
           e1 == Event("Unregistered", m, 0)
           e2 == Event("Unregistered", n, 0)
           t == Notify(s, n, e1)
           u == Notify(t, m, e2)
<1>0. /\ m \in Nodes /\ m # n /\ n \in Others(m) /\ {n, m} \in Here.net.links
      /\ Good(Here, Queues(Here)) /\ Shape(Here)
  BY DEF Others, Unlink, Sound, Good, Here
<1>2. Become(u)
  BY DEF Unlink
<1>3. /\ e1 \in Events(n) /\ e1.type = "Unregistered" /\ e1.peer = m /\ e1.id = 0
      /\ e2 \in Events(m) /\ e2.type = "Unregistered" /\ e2.peer = n /\ e2.id = 0
  BY <1>0, EventMade
<1> HIDE DEF e1, e2, cut
<1>1. /\ Shape(s) /\ s.node = Here.node /\ s.net.pipe = f
      /\ s.net.dialing = Here.net.dialing \ {<<n, m>>, <<m, n>>}
      /\ s.net.links = Here.net.links \ {{n, m}}
      /\ Shape(r) /\ r.node = Here.node /\ r.net.pipe = f
      /\ r.net.dialing = Here.net.dialing /\ r.net.links = Here.net.links
  <2>1. DOMAIN f = PipeIds
    BY DEF Cut
  <2>2. s = [Here EXCEPT !.net.links = @ \ {{n, m}},
                         !.net.dialing = @ \ {<<n, m>>, <<m, n>>}, !.net.pipe = f]
    OBVIOUS
  <2> HIDE DEF f, s
  <2> QED BY <1>0, <2>1, <2>2 DEF Shape
<1>4. \A id \in PipeIds : Less(f[id], Here.net.pipe[id])
  BY <1>0, CutIsLess DEF Good
<1> HIDE DEF s, f, r
<1>5. Good(r, Queues(Here)) /\ Known(r, n) = Known(Here, n) /\ LinksOK(r)
  BY <1>0, <1>1, <1>4, Lessen DEF Same, Good
<1>6. LinksOK(s)
  <2>1. \A l \in s.net.links : \E a \in Nodes : \E b \in Others(a) : l = {a, b}
    BY <1>1, <1>5 DEF LinksOK
  <2>2. ASSUME NEW d \in s.net.dialing
        PROVE  \E a \in Nodes : \E b \in Others(a) : d = <<a, b>> /\ {a, b} \in s.net.links
    <3>0. PICK a \in Nodes : \E b \in Others(a) : d = <<a, b>> /\ {a, b} \in Here.net.links
      <4>1. d \in Here.net.dialing /\ LinksOK(Here)
        BY <1>0, <1>1 DEF Good
      <4> QED BY <4>1 DEF LinksOK
    <3>1. PICK b \in Others(a) : d = <<a, b>> /\ {a, b} \in Here.net.links
      BY <3>0
    <3>2. d # <<n, m>> /\ d # <<m, n>>
      BY <1>1
    <3>3. {a, b} # {n, m}
      BY <3>1, <3>2
    <3> QED BY <1>1, <3>1, <3>3
  <2> QED BY <2>1, <2>2 DEF LinksOK
<1>7. Good(s, Queues(Here)) /\ (\A a \in Nodes : Known(s, a) = Known(Here, a))
      /\ Queues(s) = Queues(Here)
  BY <1>1, <1>5, <1>6, LinksSet DEF Queues, Known
<1>8. /\ Good(t, Queues(t)) /\ t.net = s.net
      /\ \A a \in Nodes : a # n => t.node[a] = s.node[a]
      /\ \A a \in Nodes : Known(t, a) = Known(s, a)
      /\ t.node[n].events = Append(s.node[n].events, e1) /\ s.node[n].events \in Seq(Events(n))
  BY <1>3, <1>7, NotifyOK
<1> HIDE DEF t
<1>9. /\ Good(u, Queues(u)) /\ u.net = t.net
      /\ \A a \in Nodes : a # m => u.node[a] = t.node[a]
      /\ \A a \in Nodes : Known(u, a) = Known(t, a)
      /\ u.node[m].events = Append(t.node[m].events, e2) /\ t.node[m].events \in Seq(Events(m))
  BY <1>0, <1>3, <1>8, NotifyOK
<1> HIDE DEF u
<1>10. Knows(u, Queues(u))
  <2> SUFFICES ASSUME NEW a \in Nodes PROVE Leads(u.node[a].events, Known(u, a), Linked(u, a))
    BY DEF Knows, Queues
  <2>1. Leads(Here.node[a].events, Known(Here, a), Linked(Here, a))
    BY DEF Sound, Knows, Queues
  <2>2. Known(u, a) = Known(Here, a) /\ u.net.links = Here.net.links \ {{n, m}}
        /\ Linked(u, a) \in SUBSET Nodes
    BY <1>1, <1>7, <1>8, <1>9 DEF Linked
  <2>3. CASE a = n
    <3>1. u.node[a].events = Append(Here.node[n].events, e1) /\ Here.node[n].events \in Seq(Events(n))
      BY <1>0, <1>1, <1>8, <1>9, <2>3
    <3>2. Linked(u, a) = Linked(Here, a) \ {m} /\ m \in Linked(Here, a)
      BY <1>0, <2>2, <2>3 DEF Linked
    <3>3. Follows(Linked(Here, a), Linked(u, a), e1)
      BY <1>3, <3>2 DEF Follows
    <3> QED BY <2>1, <2>2, <2>3, <3>1, <3>3, LeadsOn
  <2>4. CASE a = m
    <3>1. u.node[a].events = Append(Here.node[m].events, e2) /\ Here.node[m].events \in Seq(Events(m))
      BY <1>0, <1>1, <1>8, <1>9, <2>4
    <3>2. Linked(u, a) = Linked(Here, a) \ {n} /\ n \in Linked(Here, a)
      <4>1. {m, n} = {n, m}
        OBVIOUS
      <4>2. \A b \in Nodes : {m, b} = {n, m} <=> b = n
        BY <1>0
      <4> QED BY <1>0, <2>2, <2>4, <4>1, <4>2 DEF Linked
    <3>3. Follows(Linked(Here, a), Linked(u, a), e2)
      BY <1>3, <3>2 DEF Follows
    <3> QED BY <2>1, <2>2, <2>4, <3>1, <3>3, LeadsOn
  <2>5. CASE a # n /\ a # m
    <3>1. u.node[a].events = Here.node[a].events
      BY <1>1, <1>8, <1>9, <2>5
    <3>2. Linked(u, a) = Linked(Here, a)
      BY <2>2, <2>5 DEF Linked
    <3> QED BY <2>1, <2>2, <3>1, <3>2
  <2> QED BY <2>3, <2>4, <2>5
<1>11. Sound(u)
  BY <1>9, <1>10 DEF Sound
<1> QED BY <1>2, <1>11, BecomeOK DEF u, t, s, e1, e2

\* An event of a peer to which there is a link, and that changes nothing of it.
LEMMA NewsOK ==
    ASSUME NEW s, Sound(s), NEW n \in Nodes, NEW e \in Events(n),
           e.type \notin {"Registered", "Unregistered"}, {n, e.peer} \in s.net.links,
           e.id # 0 => /\ BroughtOK(s.net.pipe[e.id], n, e) /\ Fresh(Queues(s), n, e.id)
                       /\ \A m \in Nodes : s.node[n].peer[m].id # e.id
    PROVE  LET t == Notify(s, n, e)
           IN  /\ Sound(t) /\ t.net = s.net
               /\ \A a \in Nodes : a # n => t.node[a] = s.node[a]
               /\ \A a \in Nodes : t.node[a].peer = s.node[a].peer
<1> DEFINE t == Notify(s, n, e)
<1>1. /\ Good(t, Queues(t)) /\ t.net = s.net
      /\ \A a \in Nodes : a # n => t.node[a] = s.node[a]
      /\ \A a \in Nodes : Known(t, a) = Known(s, a) /\ t.node[a].peer = s.node[a].peer
      /\ t.node[n].events = Append(s.node[n].events, e)
      /\ s.node[n].events \in Seq(Events(n))
  BY NotifyOK DEF Sound
<1> HIDE DEF t
<1>2. Knows(t, Queues(t))
  <2> SUFFICES ASSUME NEW a \in Nodes PROVE Leads(t.node[a].events, Known(t, a), Linked(t, a))
    BY DEF Knows, Queues
  <2>1. Leads(s.node[a].events, Known(s, a), Linked(s, a))
    BY DEF Sound, Knows, Queues
  <2>2. Known(t, a) = Known(s, a) /\ Linked(t, a) = Linked(s, a) /\ Linked(s, a) \in SUBSET Nodes
    BY <1>1 DEF Linked
  <2>3. CASE a = n
    <3>1. e.peer \in Linked(s, a)
      BY <2>3, EventType DEF Linked, Others
    <3>2. Follows(Linked(s, a), Linked(s, a), e)
      BY <3>1 DEF Follows
    <3> QED BY <1>1, <2>1, <2>2, <2>3, <3>2, LeadsOn
  <2>4. CASE a # n
    BY <1>1, <2>1, <2>2, <2>4
  <2> QED BY <2>3, <2>4
<1> QED BY <1>1, <1>2 DEF Sound, t

LEMMA NegotiateFailsOK ==
    ASSUME Sound(Here), NEW n \in Nodes, NEW m \in Others(n), NegotiateFails(n, m)
    PROVE  Sound(Here')
<1> DEFINE s == [Here EXCEPT !.net.dialing = @ \ {<<n, m>>}]
           e == Event("ConnectionFailed", m, 0)
           t == Notify(s, n, e)
<1>0. Shape(Here) /\ LinksOK(Here) /\ <<n, m>> \in Here.net.dialing /\ Become(t)
  BY DEF Sound, Good, NegotiateFails, Here
<1>1. e \in Events(n) /\ e.type = "ConnectionFailed" /\ e.peer = m /\ e.id = 0
  BY EventMade
<1> HIDE DEF e
<1>2. /\ Shape(s) /\ s.node = Here.node /\ s.net.links = Here.net.links
      /\ s.net.pipe = Here.net.pipe /\ s.net.dialing = Here.net.dialing \ {<<n, m>>}
  BY <1>0 DEF Shape
<1>3. {n, m} \in Here.net.links
  BY <1>0 DEF LinksOK
<1> HIDE DEF s
<1>4. Sound(s)
  <2>1. \A d \in s.net.dialing : d \in Here.net.dialing
    BY <1>2
  <2> QED BY <1>2, <2>1, SoundDialing
<1>5. Sound(t)
  <2>1. e.type \notin {"Registered", "Unregistered"} /\ {n, e.peer} \in s.net.links
    BY <1>1, <1>2, <1>3
  <2> QED BY <1>1, <1>4, <2>1, NewsOK
<1> HIDE DEF t
<1> QED BY <1>0, <1>5, BecomeOK

LEMMA NegotiateOK ==
    ASSUME Sound(Here), NEW n \in Nodes, NEW m \in Others(n), Negotiate(n, m)
    PROVE  Sound(Here')
<1> DEFINE busy == \E id \in Ids : LET p == net.pipe[id]
                                   IN  p.from = n /\ p.to = m /\ m \in p.ends
           id == CHOOSE i \in Ids : net.pipe[i] = NoPipe
           ends == IF busy THEN {n} ELSE {n, m}
           w == [NoPipe EXCEPT !.from = n, !.to = m, !.ends = ends]
           s == [Here EXCEPT !.net.dialing = @ \ {<<n, m>>}, !.net.pipe[id] = w]
           e1 == Event("Connected", m, id)
           e2 == Event("Accepted", n, id)
           t == Notify(s, n, e1)
           u == Notify(t, m, e2)
<1>0. /\ m \in Nodes /\ m # n /\ n \in Others(m) /\ Good(Here, Queues(Here))
      /\ Shape(Here) /\ LinksOK(Here) /\ <<n, m>> \in Here.net.dialing
  BY DEF Others, Sound, Good, Negotiate, Here
<1>1. id \in Ids /\ Here.net.pipe[id] = NoPipe
  BY DEF Negotiate, Here
<1>2. IF busy THEN Become(t) ELSE Become(u)
  BY DEF Negotiate
<1> HIDE DEF id, busy
<1>3. id \in PipeIds /\ id # 0
  BY <1>1, Constants DEF PipeIds
<1>4. /\ DOMAIN w = {"from", "to", "ends", "toFrom", "toTo"} /\ w.from = n /\ w.to = m
      /\ w.ends \subseteq {n, m} /\ w.toFrom = <<>> /\ w.toTo = <<>>
  BY DEF NoPipe
<1> HIDE DEF w
<1>5. /\ Shape(s) /\ s.node = Here.node /\ s.net.links = Here.net.links
      /\ s.net.dialing = Here.net.dialing \ {<<n, m>>} /\ s.net.pipe[id] = w
      /\ \A j \in PipeIds : j # id => s.net.pipe[j] = Here.net.pipe[j]
  BY <1>0, <1>3 DEF Shape
<1>6. /\ e1 \in Events(n) /\ e1.type = "Connected" /\ e1.peer = m /\ e1.id = id
      /\ e2 \in Events(m) /\ e2.type = "Accepted" /\ e2.peer = n /\ e2.id = id
  BY <1>0, <1>1, EventMade
<1> HIDE DEF s, e1, e2
<1>7. PipeOK(s.net.pipe[id])
  <2>1. <<>> \in Inboxes
    BY Constants DEF Inboxes
  <2> QED BY <1>4, <1>5, <2>1 DEF PipeOK
<1>8. LinksOK(s) /\ {n, m} \in s.net.links /\ {m, n} \in s.net.links
  <2>1. {n, m} \in Here.net.links /\ {m, n} = {n, m}
    BY <1>0 DEF LinksOK
  <2>2. LinksOK(s)
    BY <1>0, <1>5 DEF LinksOK
  <2> QED BY <1>5, <2>1, <2>2
<1>9. Free(Here, Queues(Here), id)
  BY <1>0, <1>1, NoPipeIsFree
<1>10. Good(s, Queues(Here)) /\ (\A a \in Nodes : Known(s, a) = Known(Here, a))
       /\ Queues(s) = Queues(Here)
  BY <1>0, <1>1, <1>5, <1>7, <1>8, <1>9, NewPipeOK DEF Queues
<1>11. Sound(s)
  <2>1. Knows(s, Queues(Here))
    BY <1>5, <1>10 DEF Sound, Knows, Linked
  <2> QED BY <1>10, <2>1 DEF Sound
<1>12. /\ \A a, b \in Nodes : s.node[a].peer[b].id # id
       /\ \A a \in Nodes : Fresh(Queues(s), a, id)
  BY <1>5, <1>9, <1>10 DEF Free
<1>13. /\ Sound(t) /\ t.net = s.net
       /\ \A a \in Nodes : a # n => t.node[a] = s.node[a]
       /\ \A a \in Nodes : t.node[a].peer = s.node[a].peer
  <2>1. BroughtOK(s.net.pipe[e1.id], n, e1)
    BY <1>4, <1>5, <1>6 DEF BroughtOK
  <2>2. e1.type \notin {"Registered", "Unregistered"} /\ {n, e1.peer} \in s.net.links
        /\ Fresh(Queues(s), n, e1.id) /\ \A a \in Nodes : s.node[n].peer[a].id # e1.id
    BY <1>6, <1>8, <1>12
  <2> QED BY <1>6, <1>11, <2>1, <2>2, NewsOK
<1> HIDE DEF t
<1>14. Sound(u)
  <2>1. BroughtOK(t.net.pipe[e2.id], m, e2)
    BY <1>4, <1>5, <1>6, <1>13 DEF BroughtOK
  <2>2. Fresh(Queues(t), m, id)
    BY <1>0, <1>12, <1>13 DEF Fresh, Queues
  <2>3. e2.type \notin {"Registered", "Unregistered"} /\ {m, e2.peer} \in t.net.links
        /\ Fresh(Queues(t), m, e2.id) /\ \A a \in Nodes : t.node[m].peer[a].id # e2.id
    BY <1>0, <1>6, <1>8, <1>12, <1>13, <2>2
  <2> QED BY <1>0, <1>6, <1>13, <2>1, <2>3, NewsOK
<1> HIDE DEF u
<1>15. CASE busy
  BY <1>2, <1>13, <1>15, BecomeOK
<1>16. CASE ~busy
  BY <1>2, <1>14, <1>16, BecomeOK
<1> QED BY <1>15, <1>16

LEMMA EndOfStreamOK ==
    ASSUME Sound(Here), NEW id \in Ids, NEW n \in Nodes, EndOfStream(id, n)
    PROVE  Sound(Here')
<1> DEFINE t == Close(Here, id, n)
<1>1. Become(t) /\ id \in PipeIds
  BY DEF EndOfStream, PipeIds
<1>2. Good(t, Queues(Here)) /\ Same(Here, t, n)
  BY <1>1, CloseOK DEF Sound
<1> HIDE DEF t
<1>3. Sound(t)
  BY <1>2, SoundSame
<1> QED BY <1>1, <1>3, BecomeOK

LEMMA GarbleOK ==
    ASSUME Sound(Here), NEW id \in Ids, NEW n \in Nodes, Garble(id, n)
    PROVE  Sound(Here')
<1> DEFINE q == Inbox(Here, id, n)
           Q == <<[type |-> "Garbage"]>> \o Tail(q)
           t == SetInbox(Here, id, n, Q)
<1>1. Become(t) /\ id \in PipeIds /\ q # <<>>
  BY DEF Garble, PipeIds
<1>2. q \in Inboxes
  BY <1>1, InboxIs DEF Sound
<1>3. Worse(Q, q)
  <2> HIDE DEF q
  <2> QED BY <1>1, <1>2, GarbledIsWorse
<1> HIDE DEF Q
<1>4. Good(t, Queues(Here)) /\ Same(Here, t, n)
  BY <1>1, <1>3, ReadOK DEF Sound
<1> HIDE DEF t
<1>5. Sound(t)
  BY <1>4, SoundSame
<1> QED BY <1>1, <1>5, BecomeOK

LEMMA MakeBlockOK ==
    ASSUME Sound(Here), forks \in 0 .. MaxForks, NEW n \in Nodes, MakeBlock(n)
    PROVE  Sound(Here')
<1> DEFINE t == IF IsFull(node[n]) THEN PushMacro(Here, n) ELSE PushMicro(Here, n, forks)
<1>1. Become(t) /\ Here.node[n] = node[n] /\ Here.node[n].epoch < MaxEpoch
  BY DEF MakeBlock, Here
<1>2. Good(Here, Queues(Here)) /\ ChainOK(Here.node[n])
  BY DEF Sound, Good, Nodely, NodeOK
<1>3. Good(t, Queues(Here)) /\ Same(Here, t, n)
  <2>1. CASE IsFull(node[n])
    BY <1>1, <1>2, <2>1, PushMacroOK
  <2>2. CASE ~IsFull(node[n])
    <3>1. Len(Here.node[n].micros) < micro_blocks_in_epoch
      BY <1>1, <1>2, <2>2, Constants DEF IsFull, ChainOK
    <3> QED BY <1>2, <2>2, <3>1, PushMicroOK
  <2> QED BY <2>1, <2>2
<1> HIDE DEF t
<1>4. Sound(t)
  BY <1>3, SoundSame
<1> QED BY <1>1, <1>4, BecomeOK

LEMMA PopBlockOK ==
    ASSUME Sound(Here), NEW n \in Nodes, PopBlock(n)
    PROVE  Sound(Here')
<1> DEFINE t == [Here EXCEPT !.node[n].micros = Front(@)]
           q == Here.node[n].micros
<1>0. DOMAIN Here.node[n] = Fields /\ ChainOK(Here.node[n]) /\ Shape(Here) /\ q # <<>>
  BY DEF Sound, Good, Nodely, NodeOK, PopBlock, Here
<1>1. /\ Shape(t) /\ t.net = Here.net /\ \A a \in Others(n) : t.node[a] = Here.node[a]
      /\ DOMAIN t.node[n] = Fields /\ t.node[n].micros = Front(q)
      /\ t.node[n].peer = Here.node[n].peer /\ t.node[n].epoch = Here.node[n].epoch
      /\ t.node[n].events = Here.node[n].events /\ t.node[n].panicked = Here.node[n].panicked
  BY <1>0 DEF Shape, Fields, Others
<1>2. Become(t)
  BY DEF PopBlock
<1> HIDE DEF t
<1>3. q \in Seq(0 .. MaxForks) /\ Len(q) \in Nat /\ Len(q) # 0
  BY <1>0 DEF ChainOK
<1>4. Front(q) \in Seq(0 .. MaxForks) /\ Len(Front(q)) = Len(q) - 1
  <2> HIDE DEF q
  <2>1. Len(q) - 1 \in Nat /\ ~(Len(q) - 1 > Len(q)) /\ Front(q) = SubSeq(q, 1, Len(q) - 1)
    BY <1>3 DEF Front
  <2> QED BY <1>3, <2>1, StartOf
<1>5. ChainOK(t.node[n])
  BY <1>0, <1>1, <1>3, <1>4, Constants DEF ChainOK
<1>6. Good(t, Queues(Here)) /\ Same(Here, t, n)
  BY <1>1, <1>5, ChainSet DEF Sound
<1>7. Sound(t)
  BY <1>6, SoundSame
<1> QED BY <1>2, <1>7, BecomeOK

LEMMA LoadHistoryOK ==
    ASSUME Sound(Here), NEW n \in Nodes, NEW v \in Nodes, LoadHistory(n, v)
    PROVE  Sound(Here')
<1> DEFINE t == [Here EXCEPT !.node[n].lost = FALSE]
           p == [epoch |-> node[n].epoch, offset |-> 0]
           Q == blocks_starting(node[v], p)
           u == HandleBlocks(t, n, Q)
<1>0. /\ DOMAIN Here.node[n] = Fields /\ ChainOK(Here.node[n]) /\ Shape(Here)
      /\ ChainOK(node[v]) /\ node[n].epoch \in Nat
  BY Constants DEF Sound, Good, Nodely, NodeOK, ChainOK, Here
<1>1. /\ Shape(t) /\ t.net = Here.net /\ \A a \in Others(n) : t.node[a] = Here.node[a]
      /\ DOMAIN t.node[n] = Fields /\ t.node[n].micros = Here.node[n].micros
      /\ t.node[n].peer = Here.node[n].peer /\ t.node[n].epoch = Here.node[n].epoch
      /\ t.node[n].events = Here.node[n].events /\ t.node[n].panicked = Here.node[n].panicked
  BY <1>0 DEF Shape, Fields, Others
<1>2. Become(u)
  BY DEF LoadHistory
<1> HIDE DEF t
<1>3. ChainOK(t.node[n])
  BY <1>0, <1>1 DEF ChainOK
<1>4. Good(t, Queues(Here)) /\ Same(Here, t, n)
  BY <1>1, <1>3, ChainSet DEF Sound
<1>5. Q \in Seq(Blocks)
  <2>1. p.epoch \in Nat /\ p.offset \in Nat
    BY <1>0
  <2> HIDE DEF p
  <2> QED BY <1>0, <2>1, BlocksStarting
<1> HIDE DEF Q
<1>6. Good(u, Queues(Here)) /\ Same(t, u, n)
  BY <1>4, <1>5, HandleBlocksOK
<1> HIDE DEF u
<1>7. Sound(u)
  BY <1>4, <1>6, SameTwice, SoundSame
<1> QED BY <1>2, <1>7, BecomeOK

LEMMA InitOK ==
    ASSUME Init
    PROVE  IInv
<1> DEFINE s == Here
<1>1. /\ Shape(s) /\ s.net.links = {} /\ s.net.dialing = {}
      /\ \A id \in PipeIds : s.net.pipe[id] = NoPipe
  BY DEF Init, Here, Shape
<1>2. \A n \in Nodes : /\ DOMAIN s.node[n] = Fields /\ s.node[n].epoch = 0
                       /\ s.node[n].micros = <<>> /\ s.node[n].panicked = FALSE
                       /\ s.node[n].events = <<>> /\ DOMAIN s.node[n].peer = Nodes
                       /\ \A m \in Nodes : s.node[n].peer[m] = Unknown
  BY DEF Init, Here, Fields
<1> HIDE DEF s
<1>3. Nodely(s)
  <2>1. <<>> \in Seq(0 .. MaxForks) /\ Len(<<>>) = 0
    OBVIOUS
  <2>2. ASSUME NEW n \in Nodes PROVE ChainOK(s.node[n])
    <3>1. s.node[n].epoch = 0 /\ s.node[n].micros = <<>> /\ s.node[n].panicked = FALSE
      BY <1>2
    <3>2. 0 \in 0 .. MaxEpoch /\ 0 <= micro_blocks_in_epoch
      BY Constants
    <3>3. s.node[n].micros \in Seq(0 .. MaxForks) /\ Len(s.node[n].micros) = 0
      BY <2>1, <3>1
    <3> QED BY <3>1, <3>2, <3>3 DEF ChainOK
  <2> QED BY <1>2, <2>2, PeersMade DEF Nodely, NodeOK
<1>4. LinksOK(s)
  BY <1>1 DEF LinksOK
<1>5. Pipes(s)
  <2>1. <<>> \in Inboxes
    BY Constants DEF Inboxes
  <2>2. PipeOK(NoPipe)
    BY <2>1 DEF PipeOK, NoPipe
  <2> QED BY <1>1, <2>2 DEF Pipes
<1>6. Held(s)
  BY <1>2, PeersMade DEF Held
<1>7. Pending(s, Queues(s))
  <2> SUFFICES ASSUME NEW n \in Nodes PROVE PendingOK(s, n, <<>>)
    BY <1>2 DEF Pending, Queues
  <2>1. <<>> \in Seq(Events(n)) /\ 1 .. Len(<<>>) = {}
    OBVIOUS
  <2> QED BY <2>1 DEF PendingOK
<1>8. Knows(s, Queues(s))
  <2> SUFFICES ASSUME NEW n \in Nodes PROVE Leads(<<>>, Known(s, n), Linked(s, n))
    BY <1>2 DEF Knows, Queues
  <2>1. Known(s, n) = {} /\ Linked(s, n) = {}
    BY <1>1, <1>2, PeersMade DEF Known, Linked
  <2> DEFINE z == [i \in 0 .. 0 |-> {}]
  <2>2. z \in [0 .. 0 -> SUBSET Nodes] /\ z[0] = {}
    OBVIOUS
  <2>3. Len(<<>>) = 0 /\ 1 .. 0 = {}
    OBVIOUS
  <2> HIDE DEF z
  <2> QED BY <2>1, <2>2, <2>3 DEF Leads
<1>9. forks \in 0 .. MaxForks /\ troubles \in 0 .. MaxTroubles
  BY Constants DEF Init
<1> QED BY <1>1, <1>3, <1>4, <1>5, <1>6, <1>7, <1>8, <1>9 DEF IInv, Good, s

LEMMA StepOK ==
    ASSUME IInv, [Next]_vars
    PROVE  IInv'
<1>0. Sound(Here) /\ forks \in 0 .. MaxForks /\ troubles \in 0 .. MaxTroubles
  BY DEF IInv, Sound
<1>1. ASSUME Sound(Here'), forks' \in 0 .. MaxForks, troubles' \in 0 .. MaxTroubles
      PROVE  IInv'
  BY <1>1 DEF IInv, Sound
<1>2. (Trouble => troubles' \in 0 .. MaxTroubles) /\ (NoTrouble => troubles' \in 0 .. MaxTroubles)
      /\ (UNCHANGED forks => forks' \in 0 .. MaxForks)
  BY <1>0, Constants DEF Trouble, NoTrouble
<1>3. ASSUME NEW n \in Nodes, Poll(n) PROVE IInv'
  <2>1. PICK t \in PollStates(n, n, "no") : Become(t)
    BY <1>3 DEF Poll
  <2>2. Sound(Here')
    BY <1>0, <2>1, PollStatesOK, BecomeOK
  <2> QED BY <1>1, <1>2, <1>3, <2>2 DEF Poll
<1>4. ASSUME NEW n \in Nodes, NEW late, Timeout(n, late) PROVE IInv'
  <2>1. PICK x \in Others(n) : \E t \in PollStates(n, x, late) : Become(t)
    BY <1>4 DEF Timeout
  <2>2. PICK t \in PollStates(n, x, late) : Become(t)
    BY <2>1
  <2>3. Sound(Here')
    BY <1>0, <2>2, PollStatesOK, BecomeOK
  <2> QED BY <1>1, <1>2, <1>4, <2>3 DEF Timeout
<1>5. ASSUME NEW n \in Nodes, change_upstream(n) PROVE IInv'
  <2> DEFINE t == LeaveAll(Here, n)
  <2>1. Become(t)
    BY <1>5 DEF change_upstream
  <2>2. Good(t, Queues(Here)) /\ Same(Here, t, n)
    BY <1>0, LeaveAllOK DEF Sound
  <2> HIDE DEF t
  <2>3. Sound(Here')
    BY <1>0, <2>1, <2>2, SoundSame, BecomeOK
  <2> QED BY <1>1, <1>2, <1>5, <2>3 DEF change_upstream
<1>6. ASSUME NEW n \in Nodes, NEW m \in Others(n),
             Link(n, m) \/ Unlink(n, m) \/ Negotiate(n, m) \/ NegotiateFails(n, m)
      PROVE  IInv'
  <2>1. Sound(Here')
    BY <1>0, <1>6, LinkOK, UnlinkOK, NegotiateOK, NegotiateFailsOK
  <2>2. (Trouble \/ NoTrouble) /\ UNCHANGED forks
    BY <1>6 DEF Link, Unlink, Negotiate, NegotiateFails
  <2> QED BY <1>1, <1>2, <2>1, <2>2
<1>7. ASSUME NEW id \in Ids, NEW n \in Nodes, EndOfStream(id, n) \/ Garble(id, n) PROVE IInv'
  <2>1. Sound(Here')
    BY <1>0, <1>7, EndOfStreamOK, GarbleOK
  <2>2. (Trouble \/ NoTrouble) /\ UNCHANGED forks
    BY <1>7 DEF EndOfStream, Garble
  <2> QED BY <1>1, <1>2, <2>1, <2>2
<1>8. ASSUME NEW n \in Validators, MakeBlock(n) PROVE IInv'
  <2>1. Sound(Here')
    BY <1>0, <1>8, MakeBlockOK, Constants
  <2> QED BY <1>1, <1>2, <1>8, <2>1 DEF MakeBlock
<1>9. ASSUME NEW n \in Validators, PopBlock(n) PROVE IInv'
  <2>1. Sound(Here')
    BY <1>0, <1>9, PopBlockOK, Constants
  <2>2. forks' \in 0 .. MaxForks /\ NoTrouble
    BY <1>0, <1>9, Constants DEF PopBlock
  <2> QED BY <1>1, <1>2, <2>1, <2>2
<1>10. ASSUME NEW n \in Nodes \ Validators, NEW v \in Validators, LoadHistory(n, v) PROVE IInv'
  <2>1. Sound(Here')
    BY <1>0, <1>10, LoadHistoryOK, Constants
  <2> QED BY <1>1, <1>2, <1>10, <2>1 DEF LoadHistory
<1>11. CASE UNCHANGED vars
  <2>1. Here' = Here /\ forks' = forks /\ troubles' = troubles
    BY <1>11 DEF vars, Here
  <2> QED BY <1>0, <1>1, <2>1
<1> QED BY <1>3, <1>4, <1>5, <1>6, <1>7, <1>8, <1>9, <1>10, <1>11 DEF Next

LEMMA Invariance == Spec => []IInv
  BY InitOK, StepOK, PTL DEF Spec

-----------------------------------------------------------------------------
(* Theorems *)

LEMMA NoPanics ==
    ASSUME IInv
    PROVE  NeverPanics
<1>0. Good(Here, Queues(Here)) /\ Here.node = node /\ Here.net = net
  BY DEF IInv, Here
<1>1. ASSUME NEW n \in Nodes
      PROVE  /\ node[n].epoch \in 0 .. MaxEpoch
             /\ node[n].micros \in BoundedSeq(0 .. MaxForks, micro_blocks_in_epoch)
             /\ ~node[n].panicked
             /\ \A m \in Nodes : node[n].peer[m].st \in PeerStates /\ node[n].peer[m].id \in PipeIds
  <2> DEFINE q == node[n].micros
  <2>1. NodeOK(node[n], n)
    BY <1>0 DEF Good, Nodely
  <2>2. node[n].epoch \in 0 .. MaxEpoch /\ q \in Seq(0 .. MaxForks)
        /\ Len(q) <= micro_blocks_in_epoch /\ node[n].panicked = FALSE
    BY <2>1 DEF NodeOK, ChainOK
  <2>3. q \in BoundedSeq(0 .. MaxForks, micro_blocks_in_epoch)
    <3> HIDE DEF q
    <3>1. Len(q) \in 0 .. micro_blocks_in_epoch /\ q \in [1 .. Len(q) -> 0 .. MaxForks]
      BY <2>2, Constants
    <3> QED BY <3>1 DEF BoundedSeq, SeqOf
  <2>4. \A m \in Nodes : node[n].peer[m] \in Peers
    BY <2>1 DEF NodeOK
  <2> QED BY <2>2, <2>3, <2>4, PeerType
<1>2. ASSUME NEW id \in Ids
      PROVE  /\ net.pipe[id].ends \subseteq {net.pipe[id].from, net.pipe[id].to}
             /\ Len(net.pipe[id].toFrom) <= BUFFER_SIZE /\ Len(net.pipe[id].toTo) <= BUFFER_SIZE
  <2>1. PipeOK(net.pipe[id])
    BY <1>0 DEF Good, Pipes, PipeIds
  <2> QED BY <2>1 DEF PipeOK, Inboxes
<1> QED BY <1>1, <1>2 DEF NeverPanics, TypeOK, IInv

LEMMA NoGaps ==
    ASSUME IInv
    PROVE  StreamHasNoGaps
<1>0. Good(Here, Queues(Here)) /\ Here.node = node /\ Here.net = net
  BY DEF IInv, Here
<1> SUFFICES ASSUME NEW n \in Nodes, NEW m \in Nodes, node[n].peer[m].st = "Sending",
                    IsOpen(Here, node[n].peer[m].id, m)
             PROVE  LET p == node[n].peer[m]
                        q == Inbox(Here, p.id, m)
                    IN  /\ \A i \in 1 .. Len(q) - 1 : q[i].type = "Block" =>
                              q[i + 1].type = "Block" /\ Covers(After(q[i].block), q[i + 1].block)
                        /\ q # <<>> /\ Last(q).type = "Block" =>
                              After(Last(q).block) = [epoch |-> p.epoch, offset |-> p.offset]
  BY DEF StreamHasNoGaps
<1> DEFINE p == node[n].peer[m]
           w == net.pipe[p.id]
           q == Inbox(Here, p.id, m)
<1>1. p \in Peers
  BY <1>0 DEF Good, Nodely, NodeOK
<1>2. p.id # 0
  BY <1>1, PeerType DEF HasPipe
<1>3. HeldOK(w, n, m, p)
  BY <1>0, <1>2, HeldIsFresh
<1>4. m \in w.ends
  BY <1>0 DEF IsOpen
<1>5. w.from = m /\ Stream(w.toFrom, p)
  BY <1>3, <1>4 DEF HeldOK
<1>6. q = w.toFrom
  BY <1>0, <1>5 DEF Inbox
<1> HIDE DEF q
<1>7. Last(q) = q[Len(q)]
  BY DEF Last
<1>8. Stream(q, p)
  BY <1>5, <1>6
<1> HIDE DEF p
<1> QED BY <1>7, <1>8 DEF Stream, q, p

\* The assertions of Replication::poll and send_blocks hold: whatever links come and go, and
\* however events, polls, rollbacks and lost links interleave, a peer is registered only when
\* it is new, every other event is about a peer that is known, and a block that is sent is the
\* one at the position of the peer; no channel ever holds more than its capacity.
THEOREM AssertionsHold == Spec => []NeverPanics
  BY Invariance, NoPanics, PTL

\* No block is left out of a stream (send_blocks, on_block): the blocks on their way from a
\* Sending peer follow each other, the last one just before the position from which the peer
\* will go on, also when the channel was full or the chain was rolled back in between.
THEOREM StreamsHaveNoGaps == Spec => []StreamHasNoGaps
  BY Invariance, NoGaps, PTL
=============================================================================
