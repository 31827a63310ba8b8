----------------------------- MODULE Discovery -----------------------------
(***************************************************************************)
(* How a unicast finds its way: Discovery (src/network/src/discovery)      *)
(* looks for nodes with Kademlia and chooses the next hops of a unicast,   *)
(* Delivery (src/network/src/delivery) dials them and hands it over, and   *)
(* Libp2pBehaviour (src/network/src/libp2p_network) takes unicasts from    *)
(* the node's services and from other nodes.                               *)
(*                                                                         *)
(* One node is watched.  The others connect and disconnect, ask, answer    *)
(* with nodes they know or not at all, and send unicasts of their own; of  *)
(* the swarm there is who is connected and who is being dialed.  Discovery *)
(* does not pass failures to dial on to Kademlia, and Delivery has no use  *)
(* for them, so that to them a dial that fails is one that takes for ever. *)
(***************************************************************************)
EXTENDS Kademlia

CONSTANTS
    MyIds,                  \* the network keys of the node, one after the other
    Messages,
    To,                     \* To[m]: the node that the unicast m is for
    MyMessages,             \* unicasts of the node's own services
    Knows,                  \* Knows[p]: the nodes that p names in an answer, or none
    Hidden,                 \* nodes that others name without their peer_id
    Friends,                \* nodes that are in the table and connected
    DELIVERY_REPLICATION,   \* 5 in the code
    MIN_CLOSEST_PEERS,      \* 10 in the code
    Targets,                \* bound: keys of nodes to look for at random
    Heard,                  \* bound: nodes that ncp hears of
    MaxQueries,             \* bound: queries started
    MaxCopies,              \* bound: unicasts received
    MaxTroubles             \* bound: disconnects, errors, requests, new keys, ageing, lapses...

ASSUME DiscoveryAssumption ==
    /\ MyIds \in Seq(Ids \ Peers) /\ MyIds # <<>>
    /\ To \in [Messages -> Ids] /\ MyMessages \subseteq Messages
    /\ Knows \in [Peers -> SUBSET Ids]
    /\ Hidden \cup Friends \cup Heard \subseteq Peers /\ Targets \subseteq Ids
    /\ {DELIVERY_REPLICATION, MIN_CLOSEST_PEERS} \subseteq Nat \ {0}
    /\ {MaxQueries, MaxCopies, MaxTroubles} \subseteq Nat

VARIABLES
    node,           \* the state of the behaviours
    dialing,        \* dials of the swarm under way
    rpcs,           \* [peer, query]: substreams that wait for an answer
    asked,          \* <<p, q, n>>: p was asked n times for the query q, still active
    sent,           \* sent[m][p]: how often p was sent the unicast m
    consumed,       \* consumed[m]: how often the services got the unicast m
    lapses,         \* lapses[m]: how often the unicast m was forgotten
    copies,         \* unicasts received
    troubles

vars == <<node, dialing, rpcs, asked, sent, consumed, lapses, copies, troubles>>

-----------------------------------------------------------------------------
(* Discovery.                                                               *)

Route(p, m) == [type |-> "Route", peer |-> p, msg |-> <<m>>]
DialPeer(p) == [type |-> "DialPeer", peer |-> p, msg |-> <<>>]
Emit(s, e) == [s EXCEPT !.out_events = Append(@, e)]

add_node(s, p) == [s EXCEPT !.known_nodes = @ \cup {p}]

\* The nodes that are no farther from the destination than this one.
closer_peers(s, to) ==
    LET near(x) == distance_with(x, to) <= distance_with(s.my_id, to)
        good == SelectSeq(find_closest_with_self(s, to),
                    LAMBDA x : near(x) /\ HasPeerId(s, x) /\ get(s, x).addr)
    IN  SubSeq(good, 1, Min({Len(good), DELIVERY_REPLICATION}))

route(s, m) ==
    LET to == To[m]
        f == Flushed(s)
    IN  IF to \in s.known_nodes \/ (HasPeerId(s, to) /\ (to \in s.connected_peers \/ get(s, to).addr))
        THEN Emit(s, Route(to, m))
        ELSE [f EXCEPT !.out_events = @ \o
                [i \in DOMAIN closer_peers(f, to) |-> Route(closer_peers(f, to)[i], m)]]

\* Mutant: only what is for others is compared with what was received.
DuplicateInTransit(s, m) == m \in s.received /\ To[m] # s.my_id

is_duplicate(s, m) == m \in s.received

discovery_deliver_unicast(s, m) == route([s EXCEPT !.received = @ \cup {m}], m)

\* What Discovery does with an event of Kademlia before it passes it on.
OnKadEvent(s, e, with_address) ==
    LET n == add_node(s, e.peer)
    IN  IF e.type # "Discovered" THEN s
        ELSE IF with_address THEN add_address(set_peer_id(n, e.peer), e.peer) ELSE n

\* The timer of the connections: dial the nearest nodes that are not connected.
CheckConnections(s) ==
    LET f == Flushed(s)
        all == find_closest(f, s.my_id)
        far == SelectSeq(SubSeq(all, 1, Min({Len(all), MIN_CLOSEST_PEERS})),
                         LAMBDA x : HasPeerId(f, x) /\ x \notin s.connected_peers)
    IN  [f EXCEPT !.out_events = @ \o [i \in DOMAIN far |-> DialPeer(far[i])]]

\* The timer of the queries: look for a random node, and for this one.
Shake(s, random) == find_node(find_node(s, random), s.my_id)

-----------------------------------------------------------------------------
(* Delivery.                                                                *)

Deliver(s, p, m) == [s EXCEPT !.events = Append(@, Route(p, m))]

delivery_deliver_unicast(s, p, m) ==
    LET dial == [s EXCEPT !.dial_queue = @ \cup {p}, !.events = Append(@, DialPeer(p))]
        d == IF p \in s.dial_queue THEN s ELSE dial
    IN  IF p \in s.connected_peers THEN Deliver(s, p, m)
        ELSE [d EXCEPT !.send_queue[p] = Append(@, m)]

delivery_inject_connected(s, p) ==
    IF p \notin s.dial_queue THEN s
    ELSE [s EXCEPT !.dial_queue = @ \ {p}, !.send_queue[p] = <<>>,
            !.events = @ \o [i \in DOMAIN s.send_queue[p] |-> Route(p, s.send_queue[p][i])]]

\* Mutant: a dial that takes too long is forgotten, not what waits for it.
ExpireDialOnly(s, p) == [s EXCEPT !.dial_queue = @ \ {p}]

ExpireDial(s, p) == [s EXCEPT !.dial_queue = @ \ {p}, !.send_queue[p] = <<>>]

-----------------------------------------------------------------------------
\* A node that knows its friends, as ncp told it of them, and is connected to them.
Init ==
    LET told == FoldLeft(LAMBDA s, p : add_address(set_peer_id(s, p), p),
                         NewKademlia(MyIds[1]), SetToSortSeq(Friends, <))
        met == FoldLeft(set_connected, told, SetToSortSeq(Friends, <))
    IN  /\ node = [met EXCEPT !.connected_peers = Friends] @@
                  [known_nodes |-> {}, out_events |-> <<>>, received |-> {}, dial_queue |-> {},
                   send_queue |-> [p \in Ids |-> <<>>], events |-> <<>>, keys |-> 1]
        /\ dialing = {} /\ rpcs = {} /\ asked = {}
        /\ sent = [m \in Messages |-> [p \in Peers |-> 0]]
        /\ consumed = [m \in Messages |-> 0] /\ lapses = [m \in Messages |-> 0]
        /\ copies = 0 /\ troubles = 0

Trouble == troubles < MaxTroubles /\ troubles' = troubles + 1
Only(s) == node' = s /\ UNCHANGED <<dialing, rpcs, asked, sent, consumed, lapses, copies>>

Times(p, q) == Max({0} \cup {r[3] : r \in {x \in asked : x[1] = p /\ x[2] = q}})

\* An RPC reaches the handler of its peer if the peer is connected.
Swarm(s, e) ==
    /\ node' = s
    /\ dialing' = IF e.type = "DialPeer" THEN (dialing \cup {e.peer}) \ s.connected_peers ELSE dialing
    /\ LET goes == e.type = "SendEvent" /\ e.peer \in s.connected_peers
           log == asked \cup {<<e.peer, e.query, Times(e.peer, e.query) + 1>>}
       IN  /\ rpcs' = IF goes THEN rpcs \cup {<<e.peer, e.query>>} ELSE rpcs
           /\ asked' = {r \in IF goes THEN log ELSE asked : r[2] \in DOMAIN s.active_queries}

\* Discovery::poll(): what is queued, what Kademlia has to do, the timers.
Poll ==
    /\ UNCHANGED <<sent, consumed, lapses, copies, troubles>>
    /\ IF node.out_events # <<>>
       THEN LET e == Head(node.out_events)
                s == [node EXCEPT !.out_events = Tail(@)]
            IN  Swarm(IF e.type = "Route" THEN delivery_deliver_unicast(s, e.peer, e.msg[1]) ELSE s,
                      Event(IF e.type = "Route" THEN "None" ELSE "DialPeer", e.peer, 0))
       ELSE \E order \in SetToSeqs(DOMAIN StartQueries(node).active_queries) :
            \E r \in {kad_poll(node, order)} :
                IF r.event.type # "NotReady"
                THEN \E b \in BOOLEAN : Swarm(OnKadEvent(r.s, r.event, b), r.event)
                ELSE \/ Swarm(r.s, r.event) /\ node' # node
                     \/ Swarm(CheckConnections(r.s), r.event)
                     \/ \E random \in Targets : /\ node.next_query_id + 1 <= MaxQueries
                                                /\ Swarm(Shake(r.s, random), r.event)

\* The handler of the peer sends a unicast; one for a peer that has gone is lost.
HandOver(e) ==
    IF e.type = "Route" /\ e.peer \in node.connected_peers
    THEN sent' = [sent EXCEPT ![e.msg[1]][e.peer] = @ + 1]
    ELSE UNCHANGED sent

\* Delivery::poll().
PollDelivery ==
    /\ node.events # <<>>
    /\ LET e == Head(node.events)
       IN  /\ node' = [node EXCEPT !.events = Tail(@)]
           /\ dialing' = IF e.type = "DialPeer" THEN (dialing \cup {e.peer}) \ node.connected_peers
                         ELSE dialing
           /\ HandOver(e)
    /\ UNCHANGED <<rpcs, asked, consumed, lapses, copies, troubles>>

\* The dial of any entry: it may be the old key of this node.
DialTimeout(p) ==
    /\ node.events = <<>> /\ p \in node.dial_queue
    /\ Only(ExpireDial(node, p)) /\ UNCHANGED troubles

Queries == 1..MaxQueries
InProgress == {<<q, i>> \in Queries \X (1..Cardinality(Peers)) :
    /\ q \in DOMAIN node.active_queries /\ i \in DOMAIN node.active_queries[q].closest_peers
    /\ node.active_queries[q].closest_peers[i].state = "InProgress"}

\* The Delay of an RPC is up.
RpcTimeout(q, i) ==
    /\ <<q, i>> \in InProgress
    /\ Only([node EXCEPT !.active_queries[q].closest_peers[i].state = "TimedOut"])
    /\ UNCHANGED troubles

\* A dial of the node succeeds, or the peer has dialed it.
Connect(p, dialer) ==
    /\ p \notin node.connected_peers
    /\ IF dialer THEN p \in dialing /\ UNCHANGED troubles ELSE Trouble
    /\ node' = delivery_inject_connected(kad_inject_connected(node, p, dialer), p)
    /\ dialing' = dialing \ {p}
    /\ UNCHANGED <<rpcs, asked, sent, consumed, lapses, copies>>

\* The substreams of the connection are gone with it.
Disconnect(p) ==
    /\ p \in node.connected_peers /\ Trouble
    /\ node' = kad_inject_disconnected(node, p)
    /\ rpcs' = {r \in rpcs : r[1] # p}
    /\ UNCHANGED <<dialing, asked, sent, consumed, lapses, copies>>

\* The answer that p gives, as build_result() makes it there.
AnswerOf(p, known, key) ==
    LET all == ByDistance(SetToSortSeq(known \cup {p}, <), key)
    IN  SubSeq(all, 1, Min({Len(all), num_results}))

Answer(p, q) ==
    /\ <<p, q>> \in rpcs
    /\ rpcs' = rpcs \ {<<p, q>>}
    /\ \E known \in {{}, Knows[p]} :
          LET key == IF q \in DOMAIN node.active_queries THEN node.active_queries[q].target ELSE p
          IN  node' = FindNodeRes(node, p, q, AnswerOf(p, known, key), Ids \ Hidden)
    /\ UNCHANGED <<dialing, asked, sent, consumed, lapses, copies, troubles>>

RpcError(p, q) ==
    /\ <<p, q>> \in rpcs /\ Trouble
    /\ rpcs' = rpcs \ {<<p, q>>}
    /\ node' = QueryError(node, p, q)
    /\ UNCHANGED <<dialing, asked, sent, consumed, lapses, copies>>

Request(p, key) == p \in node.connected_peers /\ Trouble /\ Only(FindNodeReq(node, p, key))

\* ncp has heard of the node p.
NcpDiscovered(p, with_address) ==
    LET s == add_node(node, p)
    IN  Trouble /\ Only(IF with_address THEN add_address(set_peer_id(s, p), p) ELSE s)

NodeExpires(p) ==
    /\ p \in node.known_nodes /\ Trouble
    /\ Only([node EXCEPT !.known_nodes = @ \ {p}])

BucketExpires(k) ==
    /\ node.table[k].fresh /\ node.table[k].nodes # <<>> /\ Trouble
    /\ Only([node EXCEPT !.table[k].fresh = FALSE])

PendingIsRipe(k) ==
    /\ node.table[k].pending # <<>> /\ ~node.table[k].ripe
    /\ Only([node EXCEPT !.table[k].ripe = TRUE]) /\ UNCHANGED troubles

\* The cache keeps a unicast for 15 minutes, or until 100 000 others have come.
Forget(m) ==
    /\ m \in node.received /\ Trouble
    /\ node' = [node EXCEPT !.received = @ \ {m}]
    /\ lapses' = [lapses EXCEPT ![m] = @ + 1]
    /\ UNCHANGED <<dialing, rpcs, asked, sent, consumed, copies>>

change_network_key ==
    /\ node.keys < Len(MyIds) /\ Trouble
    /\ Only([change_id(node, MyIds[node.keys + 1]) EXCEPT !.keys = @ + 1])

Consume(m) == consumed' = [consumed EXCEPT ![m] = @ + 1]

\* A service of the node sends a unicast.
SendUnicast(m) ==
    /\ m \in MyMessages \ node.received /\ consumed[m] + lapses[m] = 0
    /\ IF To[m] = node.my_id THEN Consume(m) /\ UNCHANGED node
       ELSE node' = discovery_deliver_unicast(node, m) /\ UNCHANGED consumed
    /\ UNCHANGED <<dialing, rpcs, asked, sent, lapses, copies, troubles>>

\* Another node sends a unicast, its own or one that it routes, maybe back.
ReceiveUnicast(p, m) ==
    LET s == [node EXCEPT !.received = @ \cup {m}]
        mine == ~is_duplicate(node, m) /\ To[m] = node.my_id
    IN  /\ p \in node.connected_peers /\ (m \in MyMessages => m \in node.received \/ lapses[m] > 0)
        /\ copies < MaxCopies /\ copies' = copies + 1
        /\ node' = IF is_duplicate(node, m) THEN node ELSE IF mine THEN s ELSE route(s, m)
        /\ IF mine THEN Consume(m) ELSE UNCHANGED consumed
        /\ UNCHANGED <<dialing, rpcs, asked, sent, lapses, troubles>>

Next ==
    \/ Poll \/ PollDelivery \/ change_network_key
    \/ \E p \in Ids : DialTimeout(p)
    \/ \E p \in Peers : \/ Disconnect(p) \/ NodeExpires(p)
                        \/ \E b \in BOOLEAN : Connect(p, b) \/ (p \in Heard /\ NcpDiscovered(p, b))
                        \/ \E q \in Queries : Answer(p, q) \/ RpcError(p, q)
                        \/ \E m \in Messages : ReceiveUnicast(p, m)
                        \/ \E key \in Targets : Request(p, key)
    \/ \E r \in InProgress : RpcTimeout(r[1], r[2])
    \/ \E k \in 1..Bits : BucketExpires(k) \/ PendingIsRipe(k)
    \/ \E m \in Messages : SendUnicast(m) \/ Forget(m)

Spec == Init /\ [][Next]_vars

\* Discovery has something to do.
Busy ==
    \/ node.out_events # <<>> \/ node.queries_to_starts # <<>>
    \/ node.remote_requests # <<>> \/ node.queued_events # <<>>
    \/ \E q \in DOMAIN node.active_queries :
          LET r == PollQuery(node, node.active_queries[q])
          IN  r.out # None \/ r.cancelled # {} \/ r.anon # {}

\* The swarm polls the behaviours that have something to do, and timers fire: the weak
\* fairness of Poll, PollDelivery, DialTimeout and RpcTimeout.
FairSpec ==
    /\ Spec
    /\ []<>~Busy \/ []<><<Poll>>_vars
    /\ []<>(node.events = <<>>) \/ []<><<PollDelivery>>_vars
    /\ []<>(node.events # <<>> \/ node.dial_queue = {})
          \/ []<><<\E p \in Ids : DialTimeout(p)>>_vars
    /\ []<>(InProgress = {}) \/ []<><<\E r \in InProgress : RpcTimeout(r[1], r[2])>>_vars

-----------------------------------------------------------------------------
(* What must hold.                                                          *)

Increasing(seq, F(_)) == \A i \in 1..(Len(seq) - 1) : F(seq[i]) <= F(seq[i + 1])

\* Every bucket holds nodes of its distance, none of them twice, first_connected_pos is
\* within it, and a node waits for a place only while there is none.
TableIsSound ==
    \A k \in 1..Bits :
        LET b == node.table[k]
        IN  /\ Len(b.nodes) <= MAX_NODES_PER_BUCKET /\ b.fcp \in 0..Len(b.nodes)
            /\ \A x \in NodesOf(b) : bucket_num(node, x) = k
            /\ Cardinality(NodesOf(b)) = Len(b.nodes)
            /\ b.pending # <<>> => is_full(b) /\ b.pending[1] \notin NodesOf(b)

\* (the assertions of KBucket and QueryState, "Must never contain two entries with the same
\* peer IDs") However answers, timeouts, errors and new keys interleave, the table is sound,
\* the list of a query is ordered by the distance to its target and names nobody twice, and
\* nobody is asked twice for one query.
SearchIsSound ==
    /\ TableIsSound
    /\ \A q \in DOMAIN node.active_queries :
          LET list == node.active_queries[q].closest_peers
          IN  /\ Increasing(list, LAMBDA p : distance_with(p.id, node.active_queries[q].target))
              /\ Cardinality({list[i].id : i \in DOMAIN list}) = Len(list)
    /\ \A r \in asked : r[3] = 1

\* (Discovery::received, "so that we don't dispatch the same message twice") A unicast is
\* given to the node's services once, and sent to the same peer once, whichever ways copies
\* of it come and however often the peer is dialed and lost; and once more each time that
\* the cache has forgotten it, for a copy that comes after that is taken for a new one.
UnicastOnce ==
    \A m \in Messages : /\ consumed[m] <= 1 + lapses[m]
                        /\ \A p \in Peers : sent[m][p] <= 1 + lapses[m]

\* Every query ends and every unicast that waits for a dial leaves its queue: what nobody
\* answers, RPCs that are never sent and dials that never come to anything run into timeouts.
NothingIsStuck ==
    []<>(/\ DOMAIN node.active_queries = {} /\ node.queries_to_starts = <<>>
         /\ \A p \in Ids : node.send_queue[p] = <<>>)
=============================================================================
