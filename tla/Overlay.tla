------------------------------ MODULE Overlay ------------------------------
(***************************************************************************)
(* The overlay of the network: Gatekeeper (src/network/src/gatekeeper)     *)
(* shakes hands with a peer, Floodsub (src/network/src/pubsub) floods      *)
(* messages over the peers that it let in, and Libp2pBehaviour             *)
(* (src/network/src/libp2p_network) passes events between them and to the  *)
(* consumers in the node.                                                  *)
(*                                                                         *)
(* A connection comes at both of its ends at once, and each end notices    *)
(* for itself that it is lost; every message has a substream of its own,   *)
(* so messages overtake each other.  A node's behaviours only queue what   *)
(* they want: Poll(n), a turn of the swarm, carries it out, and anything   *)
(* may come in before that.  A proof of a VDF puzzle is the challenge that *)
(* it solves.                                                              *)
(***************************************************************************)
EXTENDS Integers, Sequences, SequencesExt, FiniteSets

CONSTANTS
    Nodes,
    Seeds,                  \* <<n, m>>: m is in the seed_nodes of n
    Friends,                \* pairs of Seeds whose handshake was before
    Relays,                 \* nodes with an advertised_endpoint
    Publishers,
    Messages,
    readiness_threshold,
    solver_threads,
    Troubled,               \* bound: nodes that have troubles with each other
    Restarting,             \* bound: nodes that are started again
    MaxPublish,             \* bound: publications
    MaxChallenges,          \* bound: challenges for one peer
    MaxTroubles,            \* bound: lost links, lost messages, timeouts, restarts
    MaxPolls                \* bound: polls of the behaviours in one turn

ASSUME OverlayAssumption ==
    /\ Nodes \subseteq Nat \ {0} /\ IsFiniteSet(Nodes)
    /\ Seeds \subseteq Nodes \X Nodes /\ \A p \in Seeds : p[1] # p[2]
    /\ Friends \subseteq Seeds /\ \A p \in Friends : <<p[2], p[1]>> \notin Friends
    /\ Relays \cup Publishers \cup Troubled \cup Restarting \subseteq Nodes
    /\ {readiness_threshold, solver_threads, MaxPolls} \subseteq Nat \ {0}
    /\ {MaxPublish, MaxChallenges, MaxTroubles} \subseteq Nat

VARIABLES
    node,           \* node[n]: the state of the behaviours of n
    links,          \* links[n][m]: who dialed the connection of n and m, or Nobody
    dialing,        \* dials under way
    net,            \* messages under way, a bag
    published,      \* how often a message was published
    excused,        \* pairs whose handshake a trouble has cut short
    troubles

vars == <<node, links, dialing, net, published, excused, troubles>>

None == "None"
Nobody == 0
Others(n) == Nodes \ {n}
Here == [node |-> node, net |-> net, dialing |-> dialing]

-----------------------------------------------------------------------------
(* Gatekeeper.  An operator takes and returns a state s of the node n.      *)

NoProof == [challenge |-> 0, of |-> 0]
DialerPeerState == {"Connected", "WaitingListener", "UnlockRequestSent", "SolvingVDF",
                    "ProofSent", "WaitingDialer"}
ListenerPeerState == {"WaitingProof", "WaitingDialer"}

Msg(type, proof) == [type |-> type, proof |-> proof]
Event(type, m, body) == [type |-> type, peer |-> m, body |-> body]
Permit == Msg("PermitReply", NoProof)

Emit(s, n, e) == [s EXCEPT !.node[n].events = Append(@, e)]
notify(s, n, e) == [s EXCEPT !.node[n].updates = Append(@, e)]
SendEvent(s, n, m, body) == Emit(s, n, Event("SendEvent", m, body))

\* The seeds S of n are to be dialed.
DialSeeds(n, S) == SetToSeq({Event("DialAddress", p[2], None) : p \in {q \in S : q[1] = n}})

\* A new process dials its seeds.
Fresh(n) ==
    [connected |-> {},
     desired |-> {}, out |-> [m \in Nodes |-> None], in |-> [m \in Nodes |-> None],
     unlocked |-> {}, updates |-> <<>>,
     events |-> DialSeeds(n, Seeds),
     challenge |-> [m \in Nodes |-> 0], solved |-> [m \in Nodes |-> NoProof],
     queue |-> <<>>, solvers |-> {}, threads |-> {},
     remotes |-> [m \in Nodes |-> None], allowed |-> {}, rpcs |-> <<>>,
     subscribed |-> FALSE, received |-> {},
     delivered |-> [x \in Messages |-> 0], sent |-> [x \in Messages |-> 0], ready |-> FALSE]

\* A process that has been running, and has shaken hands with friends.
Met(n) ==
    LET dialed == {p[2] : p \in {q \in Friends : q[1] = n}}
        met == dialed \cup {p[1] : p \in {q \in Friends : q[2] = n}}
    IN  [Fresh(n) EXCEPT !.connected = met, !.desired = dialed, !.unlocked = met, !.allowed = met,
           !.remotes = [m \in Nodes |-> IF m \in met THEN "Subscribed" ELSE None],
           !.events = DialSeeds(n, Seeds \ Friends),
           !.subscribed = TRUE, !.ready = Cardinality(met) >= readiness_threshold]

is_network_ready(s, n) == Cardinality(s.node[n].unlocked) >= readiness_threshold

dial_peer(s, n, m) ==
    Emit([s EXCEPT !.node[n].desired = @ \cup {m}], n, Event("DialPeer", m, None))

Unlock(s, n, m) == [s EXCEPT !.node[n].unlocked = @ \cup {m}]
Announce(s, n) == IF is_network_ready(s, n) THEN Emit(s, n, Event("NetworkReady", n, None)) ELSE s

send_new_challenge(s, n, m) ==
    LET c == s.node[n].challenge[m] + 1         \* a random one
    IN  SendEvent([s EXCEPT !.node[n].challenge[m] = c, !.node[n].in[m] = "WaitingProof"],
                  n, m, Msg("ChallengeReply", [challenge |-> c, of |-> 0]))

local_check_proof(s, n, m, proof) ==
    /\ proof # NoProof
    /\ s.node[n].challenge[m] # 0
    /\ proof.challenge = s.node[n].challenge[m] /\ proof.of = proof.challenge

LetIn(s, n, m) ==
    Emit([s EXCEPT !.node[n].in[m] = "WaitingDialer"], n, Event("PrepareDialer", m, None))

\* Mutant: a peer that is known already is not answered.
IgnoreUnlocked(s, n, m, proof) ==
    IF m \in s.node[n].unlocked THEN s
    ELSE IF s.node[n].out[m] # None THEN LetIn(Unlock(s, n, m), n, m)
    ELSE IF local_check_proof(s, n, m, proof)
    THEN Announce(LetIn(Unlock(s, n, m), n, m), n)
    ELSE send_new_challenge(s, n, m)

handle_unlock_request(s, n, m, proof) ==
    IF m \in s.node[n].unlocked THEN LetIn(s, n, m)
    ELSE IF s.node[n].out[m] # None THEN LetIn(Unlock(s, n, m), n, m)
    ELSE IF local_check_proof(s, n, m, proof)
    THEN Announce(LetIn(Unlock(s, n, m), n, m), n)
    ELSE send_new_challenge(s, n, m)

handle_challenge_reply(s, n, m, challenge) ==
    LET old == s.node[n].solved[m]
    IN  IF s.node[n].out[m] = None THEN s
        ELSE IF old.challenge = challenge /\ old.of # 0
        THEN SendEvent([s EXCEPT !.node[n].out[m] = "UnlockRequestSent"], n, m,
                       Msg("UnlockRequest", old))
        ELSE [s EXCEPT !.node[n].solved[m] = [challenge |-> challenge, of |-> 0],
                       !.node[n].out[m] = "SolvingVDF",
                       !.node[n].queue = Append(@, m)]

handle_permit_reply(s, n, m) ==
    Announce(Emit([Unlock(s, n, m) EXCEPT !.node[n].out[m] = "WaitingDialer"],
                  n, Event("Finished", m, None)), n)

\* inject_node_event.
HandleMessage(s, n, m, msg) ==
    CASE msg.type = "UnlockRequest" -> handle_unlock_request(s, n, m, msg.proof)
      [] msg.type = "ChallengeReply" -> handle_challenge_reply(s, n, m, msg.proof.challenge)
      [] msg.type = "PermitReply" -> handle_permit_reply(s, n, m)

\* inject_connected, inject_replaced.
GatekeeperConnected(s, n, m, dialed) ==
    LET wanted == m \in s.node[n].desired \/ (dialed /\ <<n, m>> \in Seeds)
        t == [s EXCEPT !.node[n].connected = @ \cup {m},
                       !.node[n].desired = IF wanted THEN @ \cup {m} ELSE @]
    IN  IF wanted THEN notify([t EXCEPT !.node[n].out[m] = "Connected"], n,
                              Event("Connected", m, None))
        ELSE t

GatekeeperDisconnected(s, n, m, dialed) ==
    LET t == [s EXCEPT !.node[n].connected = @ \ {m},
                       !.node[n].out[m] = None, !.node[n].in[m] = None]
    IN  IF dialed /\ (m \in s.node[n].desired \/ <<n, m>> \in Seeds)
        THEN Emit(t, n, Event("DialAddress", m, None)) ELSE t

\* A thread for the first peer of the queue.  The solvers are counted by peer:
\* a peer with two puzzles is one solver, until the first of them is solved.
\* Two threads on one and the same puzzle are one.
StartSolver(s, n) ==
    IF Cardinality(s.node[n].solvers) >= solver_threads \/ s.node[n].queue = <<>> THEN s
    ELSE LET m == Head(s.node[n].queue)
         IN  [s EXCEPT !.node[n].queue = Tail(@), !.node[n].solvers = @ \cup {m},
                       !.node[n].threads = @ \cup {[peer |-> m, of |-> s.node[n].solved[m].challenge]}]

HandleUpdate(s, n, e) ==
    LET m == e.peer
        Set(st) == [s EXCEPT !.node[n].out[m] = st]
    IN  CASE e.type = "Connected" ->
                Emit(Set("WaitingListener"), n, Event("PrepareListener", m, None))
          [] e.type = "EnabledListener" ->
                SendEvent(Set("UnlockRequestSent"), n, m,
                          Msg("UnlockRequest", IF s.node[n].solved[m].of = 0 THEN NoProof
                                               ELSE s.node[n].solved[m]))
          [] e.type = "EnabledDialer" ->
                IF s.node[n].in[m] = None THEN Set(None)
                ELSE SendEvent([s EXCEPT !.node[n].in[m] = None], n, m, Permit)
          [] e.type = "VDFSolved" ->
                LET t == [Set("ProofSent") EXCEPT !.node[n].solved[m].of = e.body]
                IN  IF m \in s.node[n].connected
                    THEN SendEvent(t, n, m, Msg("UnlockRequest", t.node[n].solved[m]))
                    ELSE dial_peer(t, n, m)

-----------------------------------------------------------------------------
(* Floodsub.  remotes[m] is None, or whether m has subscribed.              *)

Rpc(type, x) == [type |-> type, message |-> x]
SendRpc(s, n, m, rpc) == [s EXCEPT !.node[n].rpcs = Append(@, Event("SendEvent", m, rpc))]
SendRpcs(s, n, S, rpc) == FoldLeft(LAMBDA t, m : SendRpc(t, n, m, rpc), s, SetToSeq(S))

Remotes(s, n) == {m \in Nodes : s.node[n].remotes[m] # None}
Subscribers(s, n) == {m \in Nodes : s.node[n].remotes[m] = "Subscribed"}

subscribe(s, n) ==
    IF s.node[n].subscribed THEN s
    ELSE [SendRpcs(s, n, Remotes(s, n), Rpc("Subscribe", None)) EXCEPT !.node[n].subscribed = TRUE]

\* Mutant: a publisher does not remember its own message.
PublishAndForget(s, n, x) ==
    IF ~s.node[n].subscribed THEN s
    ELSE SendRpcs(s, n, Subscribers(s, n), Rpc("Message", x))

publish(s, n, x) ==
    IF ~s.node[n].subscribed THEN s
    ELSE SendRpcs([s EXCEPT !.node[n].received = @ \cup {x}], n, Subscribers(s, n),
                  Rpc("Message", x))

\* Mutant: the peer may have gone in the meantime.
EnableAnyway(s, n, m) ==
    LET t == [s EXCEPT !.node[n].remotes[m] = IF @ = None THEN "Silent" ELSE @,
                       !.node[n].allowed = @ \cup {m}]
    IN  IF s.node[n].subscribed THEN SendRpc(t, n, m, Rpc("Subscribe", None)) ELSE t

enable_outgoing(s, n, m) ==
    LET t == [s EXCEPT !.node[n].remotes[m] = IF @ = None THEN "Silent" ELSE @,
                       !.node[n].allowed = @ \cup {m}]
    IN  IF m \notin s.node[n].connected THEN s
        ELSE IF s.node[n].subscribed THEN SendRpc(t, n, m, Rpc("Subscribe", None)) ELSE t

enable_incoming(s, n, m) ==
    IF m \notin s.node[n].connected THEN s ELSE [s EXCEPT !.node[n].allowed = @ \cup {m}]

FloodsubDisconnected(s, n, m) ==
    [s EXCEPT !.node[n].allowed = @ \ {m}, !.node[n].remotes[m] = None]

\* inject_node_event.
HandleRpc(s, n, m, rpc) ==
    LET x == rpc.message
        seen == [s EXCEPT !.node[n].received = @ \cup {x}]
        dispatched == IF s.node[n].subscribed
                      THEN [seen EXCEPT !.node[n].rpcs = Append(@, Event("Message", n, rpc))]
                      ELSE seen
    IN  IF m \notin s.node[n].allowed THEN s
        ELSE IF rpc.type = "Subscribe" THEN [s EXCEPT !.node[n].remotes[m] = "Subscribed"]
        ELSE IF x \in s.node[n].received THEN s
        ELSE IF n \notin Relays THEN dispatched
        ELSE SendRpcs(dispatched, n, Subscribers(s, n) \ {m}, rpc)

-----------------------------------------------------------------------------
(* Libp2pBehaviour and the swarm *)

Put(s, n, m, msg) ==
    LET e == [from |-> n, to |-> m, msg |-> msg]
    IN  IF m \in s.node[n].connected /\ n \in s.node[m].connected
        THEN [s EXCEPT !.net = @ (+) SetToBag({e})] ELSE s

\* Something that a behaviour has for the swarm or for Libp2pBehaviour.
HandleEvent(s, n, e) ==
    CASE e.type = "SendEvent" -> Put(s, n, e.peer, e.body)
      [] e.type \in {"DialPeer", "DialAddress"} ->
            [s EXCEPT !.dialing = @ \cup {[from |-> n, to |-> e.peer, how |-> e.type]}]
      [] e.type = "Message" -> [s EXCEPT !.node[n].delivered[e.body.message] = @ + 1]
      [] e.type = "PrepareListener" ->
            notify(enable_incoming(s, n, e.peer), n, Event("EnabledListener", e.peer, None))
      [] e.type = "PrepareDialer" ->
            notify(enable_outgoing(s, n, e.peer), n, Event("EnabledDialer", e.peer, None))
      [] e.type = "Finished" -> enable_outgoing(s, n, e.peer)
      [] e.type = "NetworkReady" -> [s EXCEPT !.node[n].ready = @ \/ s.node[n].subscribed]

\* Floodsub::poll.
PollFloodsub(s, n) ==
    HandleEvent([s EXCEPT !.node[n].rpcs = Tail(@)], n, Head(s.node[n].rpcs))

\* Gatekeeper::poll.
PollGatekeeper(s, n) ==
    LET a == StartSolver(s, n)
        b == IF a.node[n].updates = <<>> THEN a
             ELSE HandleUpdate([a EXCEPT !.node[n].updates = Tail(@)], n, Head(a.node[n].updates))
    IN  IF b.node[n].events = <<>> THEN b
        ELSE HandleEvent([b EXCEPT !.node[n].events = Tail(@)], n, Head(b.node[n].events))

PollOnce(s, n) == IF s.node[n].rpcs # <<>> THEN PollFloodsub(s, n) ELSE PollGatekeeper(s, n)

HandleNetwork(s, n, m, msg) ==
    IF "proof" \in DOMAIN msg THEN HandleMessage(s, n, m, msg) ELSE HandleRpc(s, n, m, msg)

-----------------------------------------------------------------------------
(* Actions *)

Become(s) == node' = s.node /\ net' = s.net /\ dialing' = s.dialing

Init ==
    /\ node = [n \in Nodes |-> Met(n)]
    /\ links = [n \in Nodes |-> [m \in Nodes |->
                   IF <<n, m>> \in Friends THEN n ELSE IF <<m, n>> \in Friends THEN m ELSE Nobody]]
    /\ dialing = {}
    /\ net = EmptyBag
    /\ published = [x \in Messages |-> 0]
    /\ excused = {}
    /\ troubles = 0

\* A handshake of n and m may never end.
Excuse(n, m, why) == [pair |-> {n, m}, why |-> why]

Trouble == troubles < MaxTroubles /\ troubles' = troubles + 1
NoTrouble == UNCHANGED troubles

Busy(n) ==
    \/ node[n].rpcs # <<>> \/ node[n].updates # <<>> \/ node[n].events # <<>>
    \/ StartSolver(Here, n) # Here

\* Peers whose puzzle has changed while it was being solved.
Stale(n) == {e.peer : e \in {u \in ToSet(node[n].updates) :
                                u.type = "VDFSolved" /\ u.body # node[n].solved[u.peer].challenge}}

\* A turn of the swarm: the behaviours are polled until they have nothing.
Turn(s, n) == FoldLeft(LAMBDA t, i : PollOnce(t, n), s, [i \in 1 .. MaxPolls |-> i])

Poll(n) ==
    /\ Busy(n)
    /\ Become(Turn(Here, n))
    /\ excused' = excused \cup {Excuse(n, m, "puzzled") : m \in Stale(n)}
    /\ NoTrouble /\ UNCHANGED <<links, published>>

\* A message comes in.
Deliver(e) ==
    LET s == HandleNetwork([Here EXCEPT !.net = @ (-) SetToBag({e})], e.to, e.from, e.msg)
    IN  /\ e \in BagToSet(net)
        /\ s.node[e.to].challenge[e.from] <= MaxChallenges
        /\ Become(s)
        /\ NoTrouble /\ UNCHANGED <<links, published, excused>>

\* inject_dial_upgrade_error: the message is dropped.
Lose(e) ==
    /\ e \in BagToSet(net) /\ Trouble
    /\ net' = net (-) SetToBag({e})
    /\ excused' = excused \cup {Excuse(e.from, e.to, "late")}
    /\ UNCHANGED <<node, links, dialing, published>>

\* A thread has solved its puzzle.
Solve(n, w) ==
    /\ w \in node[n].threads
    /\ Become(notify([Here EXCEPT !.node[n].solvers = @ \ {w.peer}, !.node[n].threads = @ \ {w}],
                     n, Event("VDFSolved", w.peer, w.of)))
    /\ NoTrouble /\ UNCHANGED <<links, published, excused>>

\* HANDSHAKE_STEP_TIMEOUT: an entry of an ExpiringQueue.
Expire(n, m) ==
    /\ Trouble
    /\ \/ node[n].out[m] # None /\ node' = [node EXCEPT ![n].out[m] = None]
       \/ node[n].in[m] # None /\ node' = [node EXCEPT ![n].in[m] = None]
    /\ excused' = excused \cup {Excuse(n, m, "late")}
    /\ UNCHANGED <<links, dialing, net, published>>

\* LRU_EXPIRE_TIME, long after the last copy has arrived.
Forget(n, x) ==
    /\ x \in node[n].received /\ Trouble
    /\ \A e \in BagToSet(net) : e.msg # Rpc("Message", x)
    /\ \A m \in Nodes : \A i \in 1 .. Len(node[m].rpcs) : node[m].rpcs[i].body # Rpc("Message", x)
    /\ node' = [node EXCEPT ![n].received = @ \ {x}]
    /\ UNCHANGED <<links, dialing, net, published, excused>>

HasLink(n, m) == links[n][m] # Nobody
Linked(n, m) == HasLink(n, m) /\ HasLink(m, n)
Purge(b, n, m) ==
    LET keep == {e \in BagToSet(b) : {e.from, e.to} # {n, m}} IN [e \in keep |-> b[e]]

\* What the end n of a connection is told.
Disconnected(s, n, m) ==
    FloodsubDisconnected(GatekeeperDisconnected(s, n, m, links[n][m] = n), n, m)
Connected(s, n, m, dialer) ==
    GatekeeperConnected(IF HasLink(n, m) THEN FloodsubDisconnected(s, n, m) ELSE s,
                        n, m, n = dialer)

\* A dial succeeds.  DialPeer does nothing if there is a connection; it is
\* replaced otherwise, at the ends that have not noticed that it is lost.
Dialed(d) ==
    LET n == d.from
        m == d.to
        s == [Here EXCEPT !.dialing = @ \ {d}, !.net = Purge(@, n, m)]
    IN  /\ d \in dialing
        /\ IF HasLink(n, m) /\ d.how = "DialPeer"
           THEN dialing' = dialing \ {d} /\ UNCHANGED <<node, net, links, excused>>
           ELSE /\ Become(Connected(Connected(s, n, m, n), m, n, n))
                /\ links' = [links EXCEPT ![n][m] = n, ![m][n] = n]
                /\ excused' = excused \ {Excuse(n, m, "late")}
        /\ NoTrouble /\ UNCHANGED published

DialFails(d) ==
    /\ d \in dialing /\ Trouble
    /\ dialing' = dialing \ {d}
    /\ UNCHANGED <<node, links, net, published, excused>>

\* n notices that its connection is lost, then m does.
Drop(n, m) ==
    /\ HasLink(n, m)
    /\ Become(Disconnected([Here EXCEPT !.net = Purge(@, n, m)], n, m))
    /\ links' = [links EXCEPT ![n][m] = Nobody]
    /\ UNCHANGED <<published, excused>>
Unlink(n, m) == Linked(n, m) /\ Trouble /\ Drop(n, m)
Notice(n, m) == ~HasLink(m, n) /\ NoTrouble /\ Drop(n, m)

\* The process of n is started again.
Restart(n) ==
    LET mail == {e \in BagToSet(net) : n \notin {e.from, e.to}}
    IN  /\ Trouble
        /\ Become([node |-> [node EXCEPT ![n] = Fresh(n)],
                   dialing |-> {d \in dialing : d.from # n},
                   net |-> [e \in mail |-> net[e]]])
        /\ links' = [links EXCEPT ![n] = [m \in Nodes |-> Nobody]]
        /\ UNCHANGED <<published, excused>>

\* ControlMessage::Subscribe, for the topic and for NETWORK_STATUS_TOPIC.
Subscribe(n) ==
    /\ ~node[n].subscribed
    /\ Become([subscribe(Here, n) EXCEPT !.node[n].ready = is_network_ready(Here, n)])
    /\ NoTrouble /\ UNCHANGED <<links, published, excused>>

\* ControlMessage::Publish.
Publish(n, x) ==
    /\ n \in Publishers /\ published[x] < MaxPublish
    /\ published' = [published EXCEPT ![x] = @ + 1]
    /\ Become([publish(Here, n, x) EXCEPT !.node[n].sent[x] = @ + 1])
    /\ NoTrouble /\ UNCHANGED <<links, excused>>

Internal ==
    \/ \E n \in Nodes : Poll(n) \/ Subscribe(n) \/ \E w \in node[n].threads : Solve(n, w)
    \/ \E e \in BagToSet(net) : Deliver(e)
    \/ \E d \in dialing : Dialed(d)
    \/ \E n \in Nodes : \E m \in Others(n) : Notice(n, m)

External ==
    \/ \E n \in Nodes, x \in Messages : Publish(n, x) \/ Forget(n, x)
    \/ \E n \in Restarting : Restart(n)
    \/ \E n \in Troubled : \E m \in Troubled \ {n} : Expire(n, m) \/ Unlink(n, m)
    \/ \E e \in BagToSet(net) : {e.from, e.to} \subseteq Troubled /\ Lose(e)
    \/ \E d \in dialing : {d.from, d.to} \subseteq Troubled /\ DialFails(d)

Next == Internal \/ External

Spec == Init /\ [][Next]_vars

\* The swarm of every node runs, substreams and solvers make progress.  This
\* is WF_vars(Internal), spelled out: Awake is ENABLED Internal, and Internal
\* steps are the ones that publish nothing and make no trouble.
Awake ==
    \/ \E n \in Nodes : Busy(n) \/ ~node[n].subscribed \/ node[n].threads # {}
    \/ net # EmptyBag \/ dialing # {}
    \/ \E n, m \in Nodes : HasLink(n, m) /\ ~HasLink(m, n)
Moves == UNCHANGED <<troubles, published>>

FairSpec == Spec /\ ([]<>~Awake \/ []<><<Moves>>_vars)

-----------------------------------------------------------------------------
(* Properties *)

\* Every piece of state has its type: handshakes are with others, and what
\* the behaviours have queued is of the kinds that their poll functions know.
TypeOK ==
    /\ \A n \in Nodes :
         /\ node[n].desired \cup node[n].unlocked \cup node[n].allowed
              \cup node[n].connected \subseteq Others(n)
         /\ \A m \in Nodes :
              /\ node[n].out[m] \in DialerPeerState \cup {None}
              /\ node[n].in[m] \in ListenerPeerState \cup {None}
              /\ node[n].remotes[m] \in {None, "Silent", "Subscribed"}
              /\ links[n][m] \in {Nobody, n, m}
              /\ HasLink(n, m) <=> m \in node[n].connected
              /\ Linked(n, m) => links[n][m] = links[m][n]
         /\ Cardinality(node[n].solvers) <= solver_threads
         /\ node[n].received \subseteq Messages
    /\ \A e \in BagToSet(net) : Linked(e.from, e.to)
    /\ troubles \in 0 .. MaxTroubles

\* A consumer gets a message at most once per publication, over however many
\* paths it comes, and never its own (Floodsub::received).
AtMostOnce ==
    \A n \in Nodes, x \in Messages : node[n].delivered[x] + node[n].sent[x] <= published[x]

\* Floodsub lets in and sends to peers that are connected, and only to peers
\* that the gatekeeper has let in or wants, whatever the order in which
\* handshakes end and connections go.
NoGhosts ==
    /\ TypeOK
    /\ \A n \in Nodes, m \in Nodes :
        (m \in node[n].allowed \/ node[n].remotes[m] # None) =>
            /\ m \in node[n].connected
            /\ m \in node[n].unlocked \cup node[n].desired

\* Two nodes know each other's subscriptions and their consumers know that
\* the network is ready.
Open(n, m) ==
    /\ node[n].remotes[m] = "Subscribed" /\ node[m].remotes[n] = "Subscribed"
    /\ readiness_threshold = 1 => node[n].ready /\ node[m].ready

\* A handshake with a peer that a node wants ends, unless the connection or
\* a message is lost, one of its steps takes too long, or the answer to an
\* older puzzle is kept with a new one (VDFSolved) and gets in its way.
HandshakeCompletes ==
    \A n, m \in Nodes : <<n, m>> \in Seeds =>
        (Linked(n, m) /\ m \in node[n].desired) ~>
            (Open(n, m) \/ ~Linked(n, m) \/ \E e \in excused : e.pair = {n, m})
=============================================================================
