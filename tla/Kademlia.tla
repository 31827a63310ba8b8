----------------------------- MODULE Kademlia -----------------------------
(***************************************************************************)
(* The Kademlia behaviour (src/network/src/kad): the table of k-buckets    *)
(* (kbucket.rs), the iterative search for the nodes close to a key         *)
(* (query.rs) and the behaviour that runs the searches (behaviour.rs).     *)
(*                                                                         *)
(* Identifiers are numbers of Bits bits; the PeerId of a node is its       *)
(* identifier, for nodes keep their network key while one of them is       *)
(* watched.  A NodeInfo tells if the peer_id and any address is known.     *)
(* An operator takes and returns the state s of the watched node.  Of the  *)
(* two kinds of searches only FIND_NODE is here: nothing in the repository *)
(* asks for or announces providers.                                        *)
(***************************************************************************)
EXTENDS Integers, Sequences, SequencesExt, FiniteSets, FiniteSetsExt

CONSTANTS
    Peers,                  \* the other nodes
    Bits,                   \* max_distance(), 512 in the code
    MAX_NODES_PER_BUCKET,   \* 20 in the code
    parallelism,            \* 3 in the code
    num_results             \* 20 in the code

ASSUME KademliaAssumption ==
    /\ {Bits, MAX_NODES_PER_BUCKET, parallelism, num_results} \subseteq Nat \ {0}
    /\ Peers \subseteq 0..(2^Bits - 1)

Ids == 0..(2^Bits - 1)
None == "None"
Event(type, peer, query) == [type |-> type, peer |-> peer, query |-> query]

-----------------------------------------------------------------------------
(* kbucket.rs.  Positions are those of TLA+ sequences; fcp, the             *)
(* first_connected_pos, counts the nodes below the connected ones.          *)

\* The number of bits of the exclusive or.
distance_with(a, b) == Min({k \in 0..Bits : a \div 2^k = b \div 2^k})

Unknown(id) == [id |-> id, peer |-> FALSE, addr |-> FALSE]

\* fresh: latest_update is recent; ripe: the pending node has waited long enough.
NewBucket == [nodes |-> <<>>, fcp |-> 0, pending |-> <<>>, ripe |-> FALSE, fresh |-> TRUE]
NewTable == [k \in 1..Bits |-> NewBucket]

bucket_num(s, id) == distance_with(s.my_id, id)
position(b, id) == SelectInSeq(b.nodes, LAMBDA n : n.id = id)
is_full(b) == Len(b.nodes) >= MAX_NODES_PER_BUCKET

flush(b) ==
    IF b.pending # <<>> /\ b.ripe
    THEN [b EXCEPT !.nodes = Append(Tail(@), Unknown(b.pending[1])),
                   !.pending = <<>>, !.ripe = FALSE]
    ELSE b

EntryInBucket(b, id) ==
    LET f == flush(b)
    IN  IF position(f, id) # 0 THEN [f EXCEPT !.fresh = TRUE]
        ELSE IF is_full(f) THEN f
        ELSE [f EXCEPT !.nodes = InsertAt(@, f.fcp + 1, Unknown(id)), !.fcp = @ + 1, !.fresh = TRUE]

\* The entry of id, made if there is room for it, with its value set to v.
entry_mut(s, id, v) ==
    IF bucket_num(s, id) = 0 THEN s
    ELSE LET b == EntryInBucket(s.table[bucket_num(s, id)], id)
         IN  [s EXCEPT !.table[bucket_num(s, id)] =
                [b EXCEPT !.nodes = [i \in DOMAIN @ |-> IF @[i].id # id THEN @[i]
                                     ELSE [@[i] EXCEPT !.peer = @ \/ v.peer, !.addr = @ \/ v.addr]]]]

\* The values of the nodes in the table; no value for the others.
get(s, id) ==
    LET b == s.table[bucket_num(s, id)]
    IN  IF bucket_num(s, id) = 0 \/ position(b, id) = 0 THEN Unknown(id)
        ELSE b.nodes[position(b, id)]

is_in(s, id) == bucket_num(s, id) # 0 /\ position(s.table[bucket_num(s, id)], id) # 0
HasPeerId(s, id) == is_in(s, id) /\ get(s, id).peer

ConnectedInBucket(b, id) ==
    LET f == flush(b)
        pos == position(f, id)
    IN  IF pos # 0
        THEN IF pos < f.fcp
             THEN [f EXCEPT !.nodes = InsertAt(RemoveAt(@, pos), f.fcp, @[pos]),
                            !.fcp = @ - 1, !.fresh = TRUE]
             ELSE [f EXCEPT !.fresh = TRUE]
        ELSE IF ~is_full(f)
        THEN [f EXCEPT !.nodes = InsertAt(@, f.fcp + 1, Unknown(id)), !.fresh = TRUE]
        ELSE IF f.fcp > 0 /\ f.pending = <<>>
        THEN [f EXCEPT !.pending = <<id>>]
        ELSE f

\* A node that waits for the place of the oldest one has that one dialed.
set_connected(s, id) ==
    LET k == bucket_num(s, id)
        b == ConnectedInBucket(s.table[k], id)
        t == [s EXCEPT !.table[k] = b]
    IN  IF k = 0 THEN s
        ELSE IF b.pending = <<id>> /\ flush(s.table[k]).pending = <<>> /\ b.nodes[1].peer
        THEN [t EXCEPT !.queued_events = Append(@, Event("DialPeer", b.nodes[1].id, 0))]
        ELSE t

DisconnectedInBucket(b, id) ==
    LET f == flush(b)
        pos == position(f, id)
    IN  IF pos # 0 /\ pos > f.fcp
        THEN [f EXCEPT !.nodes = InsertAt(RemoveAt(@, pos), f.fcp + 1, @[pos]), !.fcp = @ + 1]
        ELSE f

set_disconnected(s, id) ==
    IF bucket_num(s, id) = 0 THEN s
    ELSE [s EXCEPT !.table[bucket_num(s, id)] = DisconnectedInBucket(@, id)]

Flushed(s) == [s EXCEPT !.table = [k \in DOMAIN @ |-> flush(@[k])]]
NodesOf(b) == {b.nodes[i].id : i \in DOMAIN b.nodes}

\* The nodes of the buckets S, bucket by bucket.
InBuckets(s, S) ==
    FlattenSeq([k \in 1..Bits |->
        IF k \in S THEN [i \in DOMAIN s.table[k].nodes |-> s.table[k].nodes[i].id] ELSE <<>>])

ByDistance(seq, id) ==
    FlattenSeq([d \in 1..(Bits + 1) |-> SelectSeq(seq, LAMBDA x : distance_with(x, id) = d - 1)])

\* Both are called on a flushed table.  Buckets that are not updated are left out.
find_closest(s, id) ==
    ByDistance(InBuckets(s, {k \in 1..Bits : s.table[k].fresh}), id)

find_closest_with_self(s, id) ==
    LET closest == find_closest(s, id)
        pos == SelectInSeq(closest, LAMBDA x : distance_with(x, id) >= distance_with(s.my_id, id))
    IN  IF pos = 0 THEN Append(closest, s.my_id) ELSE InsertAt(closest, pos, s.my_id)

\* Every node is put into the table of the new id as if it were not connected.
new_table(s, id) ==
    LET f == Flushed(s)
        t == [f EXCEPT !.my_id = id, !.table = NewTable]
    IN  FoldLeft(LAMBDA u, x : entry_mut(u, x, get(f, x)), t, InBuckets(f, 1..Bits))

-----------------------------------------------------------------------------
(* query.rs.  A peer that is "TimedOut" is InProgress, and its Delay is up. *)

NewQuery(target, known) ==
    [target |-> target, frozen |-> FALSE, no_closer_in_a_row |-> 0,
     closest_peers |-> [i \in 1..Min({Len(known), num_results}) |->
                          [id |-> known[i], state |-> "NotContacted"]]]

is_waiting(p) == p.state \in {"InProgress", "TimedOut"}

SetState(q, id, from, to) ==
    [q EXCEPT !.closest_peers = [i \in DOMAIN @ |->
        IF @[i].id = id /\ @[i].state \in from THEN [@[i] EXCEPT !.state = to] ELSE @[i]]]

inject_rpc_error(q, id) == SetState(q, id, {"InProgress", "TimedOut"}, "Failed")

\* Mutant: only the peer at the place of the new one is compared with it.
AddCloserAgain(q, id) ==
    LET d == distance_with(q.target, id)
        pos == SelectInSeq(q.closest_peers, LAMBDA p : distance_with(q.target, p.id) >= d)
        new == [id |-> id, state |-> "NotContacted"]
    IN  IF pos # 0
        THEN IF q.closest_peers[pos].id = id THEN q
             ELSE [q EXCEPT !.closest_peers = InsertAt(@, pos, new)]
        ELSE q

AddCloser(q, id) ==
    LET d == distance_with(q.target, id)
        pos == SelectInSeq(q.closest_peers, LAMBDA p : distance_with(q.target, p.id) >= d)
        new == [id |-> id, state |-> "NotContacted"]
    IN  IF pos # 0
        THEN IF \E i \in pos..Len(q.closest_peers) : q.closest_peers[i].id = id THEN q
             ELSE [q EXCEPT !.closest_peers = InsertAt(@, pos, new),
                            !.no_closer_in_a_row = IF pos = 1 THEN 0 ELSE @]
        ELSE IF Len(q.closest_peers) < num_results
        THEN [q EXCEPT !.closest_peers = Append(@, new)]
        ELSE q

inject_rpc_result(q, source, closer) ==
    LET marked == SetState(q, source, {"InProgress", "TimedOut"}, "Succeeded")
        added == FoldLeft(AddCloser, [marked EXCEPT !.no_closer_in_a_row = @ + 1], closer)
    IN  IF q.frozen THEN marked
        ELSE [added EXCEPT !.frozen = added.no_closer_in_a_row >= parallelism]

(* QueryState::poll, called again while it cancels RPCs and while it asks   *)
(* for RPCs to nodes without a peer_id (those in anon).  As a call leaves   *)
(* nothing to do for the peers it has passed, one pass does them all.       *)
PollPeer(s, a, i) ==
    LET p == a.q.closest_peers[i]
        Set(state) == [a.q EXCEPT !.closest_peers[i].state = state]
    IN  IF a.out # None THEN a
        ELSE IF p.state = "TimedOut"
        THEN [a EXCEPT !.q = Set("Failed"), !.cancelled = @ \cup {p.id}]
        ELSE IF p.state = "InProgress" THEN [a EXCEPT !.active = @ + 1]
        ELSE IF p.state = "Succeeded"
        THEN [a EXCEPT !.succeeded = @ + 1,
                       !.out = IF a.succeeded + 1 >= num_results THEN "Finished" ELSE None]
        ELSE IF p.state = "NotContacted" /\ (a.q.frozen \/ a.active < parallelism)
        THEN IF HasPeerId(s, p.id)
             THEN [a EXCEPT !.q = Set("InProgress"), !.out = "SendRpc", !.to = p.id]
             ELSE [a EXCEPT !.q = Set("InProgress"), !.active = @ + 1, !.anon = @ \cup {p.id}]
        ELSE a

PollQuery(s, q) ==
    LET start == [q |-> q, active |-> 0, succeeded |-> 0, out |-> None, to |-> s.my_id,
                  anon |-> {}, cancelled |-> {}]
        end == FoldLeft(LAMBDA a, i : PollPeer(s, a, i), start, [i \in DOMAIN q.closest_peers |-> i])
    IN  IF end.out = None /\ end.active = 0 THEN [end EXCEPT !.out = "Finished"] ELSE end

into_closest_peers(q) ==
    LET done == SelectSeq(q.closest_peers, LAMBDA p : p.state = "Succeeded")
    IN  [i \in 1..Min({Len(done), num_results}) |-> done[i].id]
-----------------------------------------------------------------------------
(* behaviour.rs.  poll() returns an event, or Nothing.                      *)

Nothing(s) == Event("NotReady", s.my_id, 0)
Return(s, event) == [s |-> s, event |-> event]

NewKademlia(id) ==
    [my_id |-> id, table |-> NewTable, known_peers |-> {}, connected_peers |-> {},
     active_queries |-> <<>>, queries_to_starts |-> <<>>, pending_rpcs |-> <<>>,
     next_query_id |-> 1, remote_requests |-> <<>>, queued_events |-> <<>>]

change_id(s, id) == new_table(s, id)

set_peer_id(s, id) ==
    [entry_mut(s, id, [peer |-> TRUE, addr |-> FALSE]) EXCEPT !.known_peers = @ \cup {id}]

add_address(s, id) == entry_mut(s, id, [peer |-> FALSE, addr |-> TRUE])

find_node(s, target) ==
    [s EXCEPT !.next_query_id = @ + 1,
              !.queries_to_starts = Append(@, [id |-> s.next_query_id, target |-> target])]

\* Of the RPCs that wait for the node the first one is sent.
kad_inject_connected(s, id, dialer) ==
    LET c == [s EXCEPT !.connected_peers = @ \cup {id}]
        pos == SelectInSeq(s.pending_rpcs, LAMBDA r : r.node = id)
        sent == [c EXCEPT !.pending_rpcs = RemoveAt(@, pos),
                          !.queued_events = Append(@, Event("SendEvent", id, s.pending_rpcs[pos].query))]
        t == set_connected(IF pos = 0 THEN c ELSE sent, id)
    IN  IF id \notin s.known_peers THEN c
        ELSE IF dialer THEN add_address(t, id) ELSE t

FailEverywhere(s, ids) ==
    [s EXCEPT !.active_queries = [q \in DOMAIN @ |->
        FoldLeft(inject_rpc_error, @[q], SetToSeq(ids))]]

kad_inject_disconnected(s, id) ==
    LET c == [s EXCEPT !.connected_peers = @ \ {id}]
    IN  IF id \notin s.known_peers THEN c
        ELSE set_disconnected(FailEverywhere(c, {id}), id)

\* closer: the ids in the answer; named: those of them that came with a peer_id.
FindNodeRes(s, source, query, closer, named) ==
    LET told == [s EXCEPT !.queued_events = @ \o
            [i \in DOMAIN closer |->
                Event(IF closer[i] \in named THEN "Discovered" ELSE "DiscoveredNoPeer", closer[i], 0)]]
        others == SelectSeq(closer, LAMBDA x : x # s.my_id)
    IN  IF query \in DOMAIN s.active_queries /\ source \in s.known_peers
        THEN [told EXCEPT !.active_queries[query] = inject_rpc_result(@, source, others)]
        ELSE told

QueryError(s, source, query) ==
    IF query \in DOMAIN s.active_queries /\ source \in s.known_peers
    THEN [s EXCEPT !.active_queries[query] = inject_rpc_error(@, source)]
    ELSE s

FindNodeReq(s, source, key) ==
    [s EXCEPT !.remote_requests = Append(@, [peer |-> source, key |-> key])]

StartQueries(s) ==
    LET f == Flushed(s)
        new == {s.queries_to_starts[i].id : i \in DOMAIN s.queries_to_starts}
        Target(q) == s.queries_to_starts[SelectInSeq(s.queries_to_starts, LAMBDA x : x.id = q)].target
    IN  IF new = {} THEN s
        ELSE [f EXCEPT !.queries_to_starts = <<>>,
                !.active_queries = [q \in DOMAIN @ \cup new |->
                    IF q \in new THEN NewQuery(Target(q), find_closest(f, Target(q))) ELSE @[q]]]

\* The answer to a request is what is known of the closest nodes.
build_result(s, key) ==
    LET f == Flushed(s)
        all == find_closest_with_self(f, key)
    IN  SubSeq(all, 1, Min({Len(all), num_results}))

\* A query was polled, with the result r.
OnQueryPolled(a, query, r) ==
    LET s == [a.s EXCEPT !.active_queries[query] = r.q,
                         !.pending_rpcs = SelectSeq(@, LAMBDA p : p.node \notin r.cancelled)]
        b == [a EXCEPT !.s = s, !.anon = @ \cup r.anon]
    IN  IF r.out = "Finished" THEN [b EXCEPT !.finished = query]
        ELSE IF r.out = None THEN b
        ELSE IF r.to \in s.connected_peers
        THEN [b EXCEPT !.event = Event("SendEvent", r.to, query)]
        ELSE [b EXCEPT !.event = Event("DialPeer", r.to, query),
                       !.s.pending_rpcs = Append(@, [node |-> r.to, query |-> query])]

\* One query of the loop over the active ones; a is [s, event, finished, anon].
PollActive(a, query) ==
    IF a.event.type # "NotReady" \/ a.finished # 0 THEN a
    ELSE OnQueryPolled(a, query, PollQuery(a.s, a.s.active_queries[query]))

\* The loop has ended with a, after what other nodes and the behaviour had queued.
AfterLoop(s, a) ==
    LET failed == FailEverywhere(a.s, a.anon)
    IN  IF s.remote_requests # <<>>
        THEN Return([Flushed(s) EXCEPT !.remote_requests = Tail(@)],
                    Event("FindNodeRes", Head(s.remote_requests).peer,
                          build_result(s, Head(s.remote_requests).key)))
        ELSE IF s.queued_events # <<>>
        THEN Return([s EXCEPT !.queued_events = Tail(@)], Head(s.queued_events))
        ELSE IF a.event.type # "NotReady" THEN Return(a.s, a.event)
        ELSE IF a.finished # 0
        THEN Return([failed EXCEPT !.active_queries =
                        [q \in DOMAIN @ \ {a.finished} |-> @[q]]],
                    Event("FindNodeResult", s.my_id, a.finished))
        ELSE Return(failed, Nothing(s))

PollStarted(s, order) ==
    AfterLoop(s, FoldLeft(PollActive,
                          [s |-> s, event |-> Nothing(s), finished |-> 0, anon |-> {}], order))

\* order: the order in which the hash map gives the active queries.
kad_poll(s, order) == PollStarted(StartQueries(s), order)
=============================================================================
