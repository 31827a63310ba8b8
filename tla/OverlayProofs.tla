--------------------------- MODULE OverlayProofs ---------------------------
(***************************************************************************)
(* Proofs about the overlay of the network.                                *)
(***************************************************************************)
EXTENDS Overlay, Induction

-----------------------------------------------------------------------------
(* Lists: sequences of whatever. *)

IsList(q) == \E T : q \in Seq(T)

LEMMA EmptyList == IsList(<<>>)
<1>1. <<>> \in Seq({})
  OBVIOUS
<1> QED BY <1>1 DEF IsList

LEMMA AppendList ==
    ASSUME NEW q, IsList(q), NEW e
    PROVE  /\ IsList(Append(q, e)) /\ Len(q) \in Nat /\ Len(Append(q, e)) = Len(q) + 1
           /\ \A i \in 1 .. Len(q) : Append(q, e)[i] = q[i]
           /\ Append(q, e)[Len(q) + 1] = e
<1>1. PICK T : q \in Seq(T)
  BY DEF IsList
<1>2. Append(q, e) \in Seq(T \cup {e})
  BY <1>1
<1> QED BY <1>1, <1>2 DEF IsList

LEMMA TailList ==
    ASSUME NEW q, IsList(q), q # <<>>
    PROVE  /\ IsList(Tail(q)) /\ Len(q) \in Nat /\ Len(q) > 0 /\ Len(Tail(q)) = Len(q) - 1
           /\ \A i \in 1 .. Len(q) - 1 : Tail(q)[i] = q[i + 1]
           /\ Head(q) = q[1]
<1>1. PICK T : q \in Seq(T)
  BY DEF IsList
<1>2. Tail(q) \in Seq(T)
  BY <1>1
<1> QED BY <1>1, <1>2 DEF IsList

\* A finite set is listed.
LEMMA SetList ==
    ASSUME NEW S, IsFiniteSet(S)
    PROVE  /\ IsList(SetToSeq(S)) /\ SetToSeq(S) \in Seq(S)
           /\ \A i \in 1 .. Len(SetToSeq(S)) : SetToSeq(S)[i] \in S
<1>1. PICK k \in Nat : ExistsBijection(1 .. k, S)
  BY FS_NatBijection
<1>2. Cardinality(S) = k
  BY <1>1, FS_CountingElements
<1>3. PICK f : f \in Bijection(1 .. k, S)
  BY <1>1 DEF ExistsBijection
<1>4. f \in [1 .. k -> S] /\ IsInjective(f)
  BY <1>3 DEF Bijection, Injection, IsInjective
<1>5. SetToSeq(S) \in [1 .. k -> S]
  BY <1>2, <1>4 DEF SetToSeq
<1>6. SetToSeq(S) \in Seq(S)
  BY <1>5
<1> QED BY <1>6 DEF IsList

-----------------------------------------------------------------------------
(* What holds of one node. *)

Fields == {"connected", "desired", "out", "in", "unlocked", "updates", "events", "challenge",
           "solved", "queue", "solvers", "threads", "remotes", "allowed", "rpcs", "subscribed", "received",
           "delivered", "sent", "ready"}

\* What the handlers of the gatekeeper and of floodsub have for each other.
IsMsg(b) == "proof" \in DOMAIN b /\ b.type \in {"UnlockRequest", "ChallengeReply", "PermitReply"}
IsRpc(b) == b = Rpc("Subscribe", None) \/ \E x \in Messages : b = Rpc("Message", x)

UpdateOK(r, n, e) ==
    /\ e.type \in {"Connected", "EnabledListener", "EnabledDialer", "VDFSolved"}
    /\ e.peer \in Others(n)
    /\ e.type = "Connected" => e.peer \in r.desired

EventOK(r, n, e) ==
    /\ e.type \in {"SendEvent", "DialPeer", "DialAddress", "PrepareListener", "PrepareDialer",
                   "Finished", "NetworkReady"}
    /\ e.type # "NetworkReady" => e.peer \in Others(n)
    /\ e.type = "SendEvent" => IsMsg(e.body)
    /\ e.type = "PrepareListener" => e.peer \in r.desired
    /\ e.type \in {"PrepareDialer", "Finished"} => e.peer \in r.unlocked

RpcOK(n, e) ==
    \/ e.type = "SendEvent" /\ e.peer \in Others(n) /\ IsRpc(e.body)
    \/ e.type = "Message" /\ \E x \in Messages : e.body = Rpc("Message", x)

\* The handshakes of the node n with the state r.
HandshakesOK(r, n) ==
    /\ r.connected \cup r.desired \cup r.unlocked \subseteq Others(n)
    /\ DOMAIN r.out = Nodes /\ DOMAIN r.in = Nodes
    /\ \A m \in Nodes : /\ r.out[m] \in DialerPeerState \cup {None}
                        /\ r.in[m] \in ListenerPeerState \cup {None}
UpdatesOK(r, n) == IsList(r.updates) /\ \A i \in 1 .. Len(r.updates) : UpdateOK(r, n, r.updates[i])
EventsOK(r, n) == IsList(r.events) /\ \A i \in 1 .. Len(r.events) : EventOK(r, n, r.events[i])
SolversOK(r, n) ==
    /\ IsList(r.queue) /\ \A i \in 1 .. Len(r.queue) : r.queue[i] \in Others(n)
    /\ IsFiniteSet(r.solvers) /\ Cardinality(r.solvers) <= solver_threads
    /\ \A w \in r.threads : w.peer \in Others(n)

GateOK(r, n) ==
    DOMAIN r = Fields /\ HandshakesOK(r, n) /\ UpdatesOK(r, n) /\ EventsOK(r, n) /\ SolversOK(r, n)

\* Floodsub knows peers that are connected, and that the gatekeeper has let in or wants.
RemotesOK(r, n) ==
    /\ r.allowed \subseteq Others(n)
    /\ DOMAIN r.remotes = Nodes
    /\ \A m \in Nodes :
          /\ r.remotes[m] \in {None, "Silent", "Subscribed"}
          /\ (m \in r.allowed \/ r.remotes[m] # None) =>
                m \in r.connected /\ m \in r.unlocked \cup r.desired
RpcsOK(r, n) == IsList(r.rpcs) /\ \A i \in 1 .. Len(r.rpcs) : RpcOK(n, r.rpcs[i])
CountsOK(r) ==
    /\ r.received \subseteq Messages
    /\ r.delivered \in [Messages -> Nat] /\ r.sent \in [Messages -> Nat]

FloodOK(r, n) == RemotesOK(r, n) /\ RpcsOK(r, n) /\ CountsOK(r)

-----------------------------------------------------------------------------
(* Steps of the gatekeeper of a node.  They leave floodsub alone. *)

Shape(s) == DOMAIN s = {"node", "net", "dialing"} /\ DOMAIN s.node = Nodes
SameElsewhere(s, t, n) == \A k \in Nodes : k # n => t.node[k] = s.node[k]
SameFlood(r, q) ==
    /\ q.connected = r.connected /\ q.remotes = r.remotes /\ q.allowed = r.allowed
    /\ q.rpcs = r.rpcs /\ q.subscribed = r.subscribed /\ q.received = r.received
    /\ q.delivered = r.delivered /\ q.sent = r.sent
    /\ r.desired \subseteq q.desired /\ r.unlocked \subseteq q.unlocked

GateIn(s, n) == n \in Nodes /\ Shape(s) /\ GateOK(s.node[n], n)
Gate(s, t, n) ==
    /\ GateIn(t, n) /\ t.net = s.net /\ t.dialing = s.dialing
    /\ SameElsewhere(s, t, n) /\ SameFlood(s.node[n], t.node[n])

LEMMA GateStays ==
    ASSUME NEW n, NEW s, GateIn(s, n)
    PROVE  Gate(s, s, n)
  BY DEF Gate, SameElsewhere, SameFlood

LEMMA GateTwice ==
    ASSUME NEW n, NEW s, NEW t, NEW u, Gate(s, t, n), Gate(t, u, n)
    PROVE  Gate(s, u, n)
  BY DEF Gate, SameElsewhere, SameFlood

LEMMA EmitOK ==
    ASSUME NEW n, NEW s, GateIn(s, n), NEW e, EventOK(s.node[n], n, e)
    PROVE  Gate(s, Emit(s, n, e), n)
<1> DEFINE r == s.node[n]
           t == Emit(s, n, e)
           q == t.node[n]
<1>1. /\ Shape(t) /\ t.net = s.net /\ t.dialing = s.dialing /\ SameElsewhere(s, t, n)
      /\ DOMAIN q = Fields /\ q.events = Append(r.events, e)
      /\ \A f \in Fields \ {"events"} : q[f] = r[f]
  BY DEF GateIn, Shape, GateOK, Fields, Emit, SameElsewhere
<1> HIDE DEF t, q
<1>2. /\ SameFlood(r, q) /\ q.desired = r.desired /\ q.unlocked = r.unlocked
      /\ q.connected = r.connected /\ q.out = r.out /\ q.in = r.in /\ q.updates = r.updates
      /\ q.queue = r.queue /\ q.solvers = r.solvers /\ q.threads = r.threads
  BY <1>1 DEF SameFlood, Fields
<1>3. EventsOK(q, n)
  <2>1. EventsOK(r, n)
    BY DEF GateIn, GateOK
  <2>2. \A i \in 1 .. Len(q.events) : EventOK(r, n, q.events[i])
    BY <1>1, <2>1, AppendList DEF EventsOK
  <2>3. IsList(q.events)
    BY <1>1, <2>1, AppendList DEF EventsOK
  <2> HIDE DEF r
  <2>4. \A x : EventOK(r, n, x) => EventOK(q, n, x)
    BY <1>2 DEF EventOK
  <2> QED BY <2>2, <2>3, <2>4, Zenon DEF EventsOK
<1>4. HandshakesOK(q, n) /\ UpdatesOK(q, n) /\ SolversOK(q, n)
  BY <1>2 DEF GateIn, GateOK, HandshakesOK, UpdatesOK, UpdateOK, SolversOK
<1> QED BY <1>1, <1>2, <1>3, <1>4 DEF Gate, GateIn, GateOK, t, q

LEMMA NotifyOK ==
    ASSUME NEW n, NEW s, GateIn(s, n), NEW e, UpdateOK(s.node[n], n, e)
    PROVE  Gate(s, notify(s, n, e), n)
<1> DEFINE r == s.node[n]
           t == notify(s, n, e)
           q == t.node[n]
<1>1. /\ Shape(t) /\ t.net = s.net /\ t.dialing = s.dialing /\ SameElsewhere(s, t, n)
      /\ DOMAIN q = Fields /\ q.updates = Append(r.updates, e)
      /\ \A f \in Fields \ {"updates"} : q[f] = r[f]
  BY DEF GateIn, Shape, GateOK, Fields, notify, SameElsewhere
<1> HIDE DEF t, q
<1>2. /\ SameFlood(r, q) /\ q.desired = r.desired /\ q.unlocked = r.unlocked
      /\ q.connected = r.connected /\ q.out = r.out /\ q.in = r.in /\ q.events = r.events
      /\ q.queue = r.queue /\ q.solvers = r.solvers /\ q.threads = r.threads
  BY <1>1 DEF SameFlood, Fields
<1>3. UpdatesOK(q, n)
  <2>1. UpdatesOK(r, n)
    BY DEF GateIn, GateOK
  <2>2. \A i \in 1 .. Len(q.updates) : UpdateOK(r, n, q.updates[i])
    BY <1>1, <2>1, AppendList DEF UpdatesOK
  <2> QED BY <1>1, <1>2, <2>1, <2>2, AppendList DEF UpdatesOK, UpdateOK
<1>4. HandshakesOK(q, n) /\ EventsOK(q, n) /\ SolversOK(q, n)
  BY <1>2 DEF GateIn, GateOK, HandshakesOK, EventsOK, EventOK, SolversOK
<1> QED BY <1>1, <1>2, <1>3, <1>4 DEF Gate, GateIn, GateOK, t, q

\* A step that queues nothing.
Quiet(s, t, n) ==
    LET r == s.node[n]
        q == t.node[n]
    IN  /\ Shape(t) /\ t.net = s.net /\ t.dialing = s.dialing /\ SameElsewhere(s, t, n)
        /\ DOMAIN q = Fields /\ SameFlood(r, q)
        /\ q.updates = r.updates /\ q.events = r.events

LEMMA QuietOK ==
    ASSUME NEW n, NEW s, GateIn(s, n), NEW t, Quiet(s, t, n),
           HandshakesOK(t.node[n], n), SolversOK(t.node[n], n)
    PROVE  Gate(s, t, n)
<1> DEFINE r == s.node[n]
           q == t.node[n]
<1>1. UpdatesOK(q, n)
  BY DEF GateIn, GateOK, Quiet, UpdatesOK, UpdateOK, SameFlood
<1>2. EventsOK(q, n)
  BY DEF GateIn, GateOK, Quiet, EventsOK, EventOK, SameFlood
<1> QED BY <1>1, <1>2 DEF Gate, Quiet, GateIn, GateOK

LEMMA UnlockOK ==
    ASSUME NEW n, NEW s, GateIn(s, n), NEW m \in Others(n)
    PROVE  Gate(s, Unlock(s, n, m), n) /\ m \in Unlock(s, n, m).node[n].unlocked
<1> DEFINE r == s.node[n]
           t == Unlock(s, n, m)
           q == t.node[n]
<1>1. /\ Shape(t) /\ t.net = s.net /\ t.dialing = s.dialing /\ SameElsewhere(s, t, n)
      /\ DOMAIN q = Fields /\ q.unlocked = r.unlocked \cup {m}
      /\ \A f \in Fields \ {"unlocked"} : q[f] = r[f]
  BY DEF GateIn, Shape, GateOK, Fields, Unlock, SameElsewhere
<1> HIDE DEF t, q
<1>2. Quiet(s, t, n) /\ HandshakesOK(q, n) /\ SolversOK(q, n)
  BY <1>1 DEF Quiet, SameFlood, Fields, GateIn, GateOK, HandshakesOK, SolversOK, q
<1> QED BY <1>1, <1>2, QuietOK DEF t, q

\* The state of the handshake with m changes.
SetOut(s, n, m, v) == [s EXCEPT !.node[n].out[m] = v]
SetIn(s, n, m, v) == [s EXCEPT !.node[n].in[m] = v]

LEMMA SetOutOK ==
    ASSUME NEW n, NEW s, GateIn(s, n), NEW m \in Others(n), NEW v \in DialerPeerState \cup {None}
    PROVE  Gate(s, SetOut(s, n, m, v), n)
<1> DEFINE r == s.node[n]
           t == SetOut(s, n, m, v)
           q == t.node[n]
<1>1. /\ Shape(t) /\ t.net = s.net /\ t.dialing = s.dialing /\ SameElsewhere(s, t, n)
      /\ DOMAIN q = Fields /\ q.out = [r.out EXCEPT ![m] = v]
      /\ \A f \in Fields \ {"out"} : q[f] = r[f]
  BY DEF GateIn, Shape, GateOK, Fields, SetOut, SameElsewhere
<1> HIDE DEF t, q
<1>2. Quiet(s, t, n) /\ HandshakesOK(q, n) /\ SolversOK(q, n)
  BY <1>1 DEF Quiet, SameFlood, Fields, GateIn, GateOK, HandshakesOK, SolversOK, q
<1> QED BY <1>1, <1>2, QuietOK DEF t, q

LEMMA SetInOK ==
    ASSUME NEW n, NEW s, GateIn(s, n), NEW m \in Others(n), NEW v \in ListenerPeerState \cup {None}
    PROVE  Gate(s, SetIn(s, n, m, v), n)
<1> DEFINE r == s.node[n]
           t == SetIn(s, n, m, v)
           q == t.node[n]
<1>1. /\ Shape(t) /\ t.net = s.net /\ t.dialing = s.dialing /\ SameElsewhere(s, t, n)
      /\ DOMAIN q = Fields /\ q.in = [r.in EXCEPT ![m] = v]
      /\ \A f \in Fields \ {"in"} : q[f] = r[f]
  BY DEF GateIn, Shape, GateOK, Fields, SetIn, SameElsewhere
<1> HIDE DEF t, q
<1>2. Quiet(s, t, n) /\ HandshakesOK(q, n) /\ SolversOK(q, n)
  BY <1>1 DEF Quiet, SameFlood, Fields, GateIn, GateOK, HandshakesOK, SolversOK, q
<1> QED BY <1>1, <1>2, QuietOK DEF t, q

LEMMA SendEventOK ==
    ASSUME NEW n, NEW s, GateIn(s, n), NEW m \in Others(n), NEW b, IsMsg(b)
    PROVE  Gate(s, SendEvent(s, n, m, b), n)
<1>1. EventOK(s.node[n], n, Event("SendEvent", m, b))
  BY DEF EventOK, Event
<1> QED BY <1>1, EmitOK DEF SendEvent

LEMMA AnnounceOK ==
    ASSUME NEW n, NEW s, GateIn(s, n)
    PROVE  Gate(s, Announce(s, n), n)
<1>1. EventOK(s.node[n], n, Event("NetworkReady", n, None))
  BY DEF EventOK, Event
<1> QED BY <1>1, EmitOK, GateStays DEF Announce

LEMMA LetInOK ==
    ASSUME NEW n, NEW s, GateIn(s, n), NEW m \in Others(n), m \in s.node[n].unlocked
    PROVE  Gate(s, LetIn(s, n, m), n)
<1> DEFINE t == SetIn(s, n, m, "WaitingDialer")
           e == Event("PrepareDialer", m, None)
<1>1. Gate(s, t, n)
  BY SetInOK DEF ListenerPeerState
<1>2. LetIn(s, n, m) = Emit(t, n, e)
  BY DEF LetIn, SetIn
<1> HIDE DEF t
<1>3. EventOK(t.node[n], n, e)
  BY <1>1 DEF EventOK, Event, Gate, SameFlood
<1>4. Gate(t, Emit(t, n, e), n)
  BY <1>1, <1>3, EmitOK DEF Gate
<1> QED BY <1>1, <1>2, <1>4, GateTwice

LEMMA UnlockRequestOK ==
    ASSUME NEW n, NEW s, GateIn(s, n), NEW m \in Others(n), NEW p
    PROVE  Gate(s, handle_unlock_request(s, n, m, p), n)
<1> DEFINE u == Unlock(s, n, m)
           l == LetIn(u, n, m)
           c == s.node[n].challenge[m] + 1
           t == [s EXCEPT !.node[n].challenge[m] = c, !.node[n].in[m] = "WaitingProof"]
           b == Msg("ChallengeReply", [challenge |-> c, of |-> 0])
<1>1. Gate(s, u, n) /\ m \in u.node[n].unlocked
  BY UnlockOK
<1> HIDE DEF u
<1>2. Gate(u, l, n)
  BY <1>1, LetInOK DEF Gate
<1>3. Gate(s, l, n)
  BY <1>1, <1>2, GateTwice
<1> HIDE DEF l
<1>4. Gate(l, Announce(l, n), n)
  BY <1>3, AnnounceOK DEF Gate
<1>5. Gate(s, Announce(l, n), n)
  BY <1>3, <1>4, GateTwice
<1>6. Gate(s, t, n)
  <2> DEFINE r == s.node[n]
             q == t.node[n]
  <2> HIDE DEF c
  <2>1. /\ Shape(t) /\ t.net = s.net /\ t.dialing = s.dialing /\ SameElsewhere(s, t, n)
        /\ DOMAIN q = Fields /\ q.in = [r.in EXCEPT ![m] = "WaitingProof"]
        /\ \A f \in Fields \ {"in", "challenge"} : q[f] = r[f]
    BY DEF GateIn, Shape, GateOK, Fields, SameElsewhere
  <2> HIDE DEF t, q
  <2>2. Quiet(s, t, n) /\ HandshakesOK(q, n) /\ SolversOK(q, n)
    BY <2>1 DEF Quiet, SameFlood, Fields, GateIn, GateOK, HandshakesOK, SolversOK, q, ListenerPeerState
  <2> QED BY <2>1, <2>2, QuietOK DEF q
<1>7. send_new_challenge(s, n, m) = SendEvent(t, n, m, b)
  BY DEF send_new_challenge
<1>8. IsMsg(b)
  BY DEF IsMsg, Msg
<1> HIDE DEF t, b
<1>9. Gate(t, SendEvent(t, n, m, b), n)
  BY <1>6, <1>8, SendEventOK DEF Gate
<1>10. Gate(s, send_new_challenge(s, n, m), n)
  BY <1>6, <1>7, <1>9, GateTwice
<1>11. m \in s.node[n].unlocked => Gate(s, LetIn(s, n, m), n)
  BY LetInOK
<1> QED BY <1>3, <1>5, <1>10, <1>11 DEF handle_unlock_request, l, u

LEMMA ChallengeReplyOK ==
    ASSUME NEW n, NEW s, GateIn(s, n), NEW m \in Others(n), NEW c
    PROVE  Gate(s, handle_challenge_reply(s, n, m, c), n)
<1> DEFINE old == s.node[n].solved[m]
           t == SetOut(s, n, m, "UnlockRequestSent")
           b == Msg("UnlockRequest", old)
           new == [challenge |-> c, of |-> 0]
           u == [s EXCEPT !.node[n].solved[m] = new, !.node[n].out[m] = "SolvingVDF",
                          !.node[n].queue = Append(@, m)]
<1>1. Gate(s, t, n)
  BY SetOutOK DEF DialerPeerState
<1>2. IsMsg(b)
  BY DEF IsMsg, Msg
<1>3. Gate(s, SendEvent(t, n, m, b), n)
  <2> HIDE DEF t, b
  <2>1. Gate(t, SendEvent(t, n, m, b), n)
    BY <1>1, <1>2, SendEventOK DEF Gate
  <2> QED BY <1>1, <2>1, GateTwice
<1>4. Gate(s, u, n)
  <2> DEFINE r == s.node[n]
             q == u.node[n]
  <2> HIDE DEF new
  <2>1. /\ Shape(u) /\ u.net = s.net /\ u.dialing = s.dialing /\ SameElsewhere(s, u, n)
        /\ DOMAIN q = Fields /\ q.out = [r.out EXCEPT ![m] = "SolvingVDF"]
        /\ q.queue = Append(r.queue, m)
        /\ \A f \in Fields \ {"out", "solved", "queue"} : q[f] = r[f]
    BY DEF GateIn, Shape, GateOK, Fields, SameElsewhere
  <2> HIDE DEF u, q
  <2>2. Quiet(s, u, n) /\ HandshakesOK(q, n) /\ q.solvers = r.solvers /\ q.threads = r.threads
    BY <2>1 DEF Quiet, SameFlood, Fields, GateIn, GateOK, HandshakesOK, q, DialerPeerState
  <2>3. SolversOK(r, n)
    BY DEF GateIn, GateOK
  <2>4. SolversOK(q, n)
    BY <2>1, <2>2, <2>3, AppendList DEF SolversOK
  <2> QED BY <2>2, <2>4, QuietOK DEF q
<1>5. handle_challenge_reply(s, n, m, c) \in {s, SendEvent(t, n, m, b), u}
  BY DEF handle_challenge_reply, SetOut
<1> HIDE DEF t, b, u
<1> QED BY <1>3, <1>4, <1>5, GateStays

LEMMA PermitReplyOK ==
    ASSUME NEW n, NEW s, GateIn(s, n), NEW m \in Others(n)
    PROVE  Gate(s, handle_permit_reply(s, n, m), n)
<1> DEFINE u == Unlock(s, n, m)
           t == SetOut(u, n, m, "WaitingDialer")
           e == Event("Finished", m, None)
           v == Emit(t, n, e)
<1>1. Gate(s, u, n) /\ m \in u.node[n].unlocked
  BY UnlockOK
<1>2. handle_permit_reply(s, n, m) = Announce(v, n)
  BY DEF handle_permit_reply, SetOut
<1> HIDE DEF u
<1>3. Gate(u, t, n)
  BY <1>1, SetOutOK DEF Gate, DialerPeerState
<1> HIDE DEF t
<1>4. EventOK(t.node[n], n, e)
  BY <1>1, <1>3 DEF EventOK, Event, Gate, SameFlood
<1>5. Gate(t, v, n)
  BY <1>3, <1>4, EmitOK DEF Gate
<1> HIDE DEF v
<1>6. Gate(v, Announce(v, n), n)
  BY <1>5, AnnounceOK DEF Gate
<1>7. Gate(s, v, n)
  BY <1>1, <1>3, <1>5, GateTwice
<1> QED BY <1>2, <1>6, <1>7, GateTwice

LEMMA HandleMessageOK ==
    ASSUME NEW n, NEW s, GateIn(s, n), NEW m \in Others(n), NEW msg, IsMsg(msg)
    PROVE  Gate(s, HandleMessage(s, n, m, msg), n)
<1>1. HandleMessage(s, n, m, msg) \in {handle_unlock_request(s, n, m, msg.proof),
        handle_challenge_reply(s, n, m, msg.proof.challenge), handle_permit_reply(s, n, m)}
  BY DEF HandleMessage, IsMsg
<1> QED BY <1>1, UnlockRequestOK, ChallengeReplyOK, PermitReplyOK

\* Something that was queued is taken.
TakeUpdate(s, n) == [s EXCEPT !.node[n].updates = Tail(@)]
TakeEvent(s, n) == [s EXCEPT !.node[n].events = Tail(@)]

LEMMA TakeUpdateOK ==
    ASSUME NEW n, NEW s, GateIn(s, n), s.node[n].updates # <<>>
    PROVE  /\ Gate(s, TakeUpdate(s, n), n)
           /\ UpdateOK(TakeUpdate(s, n).node[n], n, Head(s.node[n].updates))
<1> DEFINE r == s.node[n]
           t == TakeUpdate(s, n)
           q == t.node[n]
<1>1. /\ Shape(t) /\ t.net = s.net /\ t.dialing = s.dialing /\ SameElsewhere(s, t, n)
      /\ DOMAIN q = Fields /\ q.updates = Tail(r.updates)
      /\ \A f \in Fields \ {"updates"} : q[f] = r[f]
  BY DEF GateIn, Shape, GateOK, Fields, TakeUpdate, SameElsewhere
<1> HIDE DEF t, q
<1>2. /\ SameFlood(r, q) /\ q.desired = r.desired /\ q.unlocked = r.unlocked
      /\ q.connected = r.connected /\ q.out = r.out /\ q.in = r.in /\ q.events = r.events
      /\ q.queue = r.queue /\ q.solvers = r.solvers /\ q.threads = r.threads
  BY <1>1 DEF SameFlood, Fields
<1>3. UpdatesOK(r, n)
  BY DEF GateIn, GateOK
<1>4. UpdatesOK(q, n) /\ UpdateOK(r, n, Head(r.updates))
  <2>1. \A i \in 1 .. Len(q.updates) : UpdateOK(r, n, q.updates[i])
    BY <1>1, <1>3, TailList DEF UpdatesOK
  <2>2. UpdateOK(r, n, Head(r.updates))
    BY <1>3, TailList DEF UpdatesOK
  <2> QED BY <1>1, <1>2, <1>3, <2>1, <2>2, TailList DEF UpdatesOK, UpdateOK
<1>5. HandshakesOK(q, n) /\ EventsOK(q, n) /\ SolversOK(q, n)
  BY <1>2 DEF GateIn, GateOK, HandshakesOK, EventsOK, EventOK, SolversOK
<1>6. UpdateOK(q, n, Head(r.updates))
  BY <1>2, <1>4 DEF UpdateOK
<1> QED BY <1>1, <1>2, <1>4, <1>5, <1>6 DEF Gate, GateIn, GateOK, t, q

LEMMA TakeEventOK ==
    ASSUME NEW n, NEW s, GateIn(s, n), s.node[n].events # <<>>
    PROVE  /\ Gate(s, TakeEvent(s, n), n)
           /\ EventOK(TakeEvent(s, n).node[n], n, Head(s.node[n].events))
<1> DEFINE r == s.node[n]
           t == TakeEvent(s, n)
           q == t.node[n]
<1>1. /\ Shape(t) /\ t.net = s.net /\ t.dialing = s.dialing /\ SameElsewhere(s, t, n)
      /\ DOMAIN q = Fields /\ q.events = Tail(r.events)
      /\ \A f \in Fields \ {"events"} : q[f] = r[f]
  BY DEF GateIn, Shape, GateOK, Fields, TakeEvent, SameElsewhere
<1> HIDE DEF t, q
<1>2. /\ SameFlood(r, q) /\ q.desired = r.desired /\ q.unlocked = r.unlocked
      /\ q.connected = r.connected /\ q.out = r.out /\ q.in = r.in /\ q.updates = r.updates
      /\ q.queue = r.queue /\ q.solvers = r.solvers /\ q.threads = r.threads
  BY <1>1 DEF SameFlood, Fields
<1>3. EventsOK(r, n)
  BY DEF GateIn, GateOK
<1>4. EventsOK(q, n) /\ EventOK(r, n, Head(r.events))
  <2>1. \A i \in 1 .. Len(q.events) : EventOK(r, n, q.events[i])
    BY <1>1, <1>3, TailList DEF EventsOK
  <2>2. EventOK(r, n, Head(r.events))
    BY <1>3, TailList DEF EventsOK
  <2> QED BY <1>1, <1>2, <1>3, <2>1, <2>2, TailList DEF EventsOK, EventOK
<1>5. HandshakesOK(q, n) /\ UpdatesOK(q, n) /\ SolversOK(q, n)
  BY <1>2 DEF GateIn, GateOK, HandshakesOK, UpdatesOK, UpdateOK, SolversOK
<1>6. EventOK(q, n, Head(r.events))
  BY <1>2, <1>4 DEF EventOK
<1> QED BY <1>1, <1>2, <1>4, <1>5, <1>6 DEF Gate, GateIn, GateOK, t, q

LEMMA StartSolverOK ==
    ASSUME NEW n, NEW s, GateIn(s, n)
    PROVE  Gate(s, StartSolver(s, n), n)
<1>1. CASE Cardinality(s.node[n].solvers) >= solver_threads \/ s.node[n].queue = <<>>
  BY <1>1, GateStays DEF StartSolver
<1>2. CASE ~(Cardinality(s.node[n].solvers) >= solver_threads \/ s.node[n].queue = <<>>)
  <2> DEFINE r == s.node[n]
             t == StartSolver(s, n)
             q == t.node[n]
             m == Head(r.queue)
             w == [peer |-> m, of |-> r.solved[m].challenge]
  <2>1. t = [s EXCEPT !.node[n].queue = Tail(@), !.node[n].solvers = @ \cup {m},
                      !.node[n].threads = @ \cup {w}]
    BY <1>2 DEF StartSolver
  <2> HIDE DEF t, w, m
  <2>2. /\ Shape(t) /\ t.net = s.net /\ t.dialing = s.dialing /\ SameElsewhere(s, t, n)
        /\ DOMAIN q = Fields /\ q.queue = Tail(r.queue)
        /\ q.solvers = r.solvers \cup {m} /\ q.threads = r.threads \cup {w}
        /\ \A f \in Fields \ {"queue", "solvers", "threads"} : q[f] = r[f]
    BY <2>1 DEF GateIn, Shape, GateOK, Fields, SameElsewhere
  <2> HIDE DEF q
  <2>3. Quiet(s, t, n) /\ HandshakesOK(q, n)
    BY <2>2 DEF Quiet, SameFlood, Fields, GateIn, GateOK, HandshakesOK, q
  <2>4. SolversOK(r, n)
    BY DEF GateIn, GateOK
  <2>5. IsList(q.queue) /\ \A i \in 1 .. Len(q.queue) : q.queue[i] \in Others(n)
    BY <1>2, <2>2, <2>4, TailList DEF SolversOK
  <2>6. m \in Others(n)
    BY <1>2, <2>4, TailList DEF SolversOK, m
  <2>7. w.peer = m
    BY DEF w
  <2>8. IsFiniteSet(q.solvers) /\ Cardinality(q.solvers) <= solver_threads
    <3>1. IsFiniteSet(r.solvers) /\ Cardinality(r.solvers) \in Nat
      BY <2>4, FS_CardinalityType DEF SolversOK
    <3>2. IsFiniteSet(r.solvers \cup {m})
          /\ Cardinality(r.solvers \cup {m}) \in {Cardinality(r.solvers), Cardinality(r.solvers) + 1}
      BY <3>1, FS_AddElement
    <3> QED BY <1>2, <2>2, <3>1, <3>2, OverlayAssumption
  <2>9. SolversOK(q, n)
    BY <2>2, <2>4, <2>5, <2>6, <2>7, <2>8 DEF SolversOK
  <2> QED BY <2>3, <2>9, QuietOK DEF t, q
<1> QED BY <1>1, <1>2

LEMMA DialPeerOK ==
    ASSUME NEW n, NEW s, GateIn(s, n), NEW m \in Others(n)
    PROVE  Gate(s, dial_peer(s, n, m), n)
<1> DEFINE r == s.node[n]
           t == [s EXCEPT !.node[n].desired = @ \cup {m}]
           q == t.node[n]
           e == Event("DialPeer", m, None)
<1>1. /\ Shape(t) /\ t.net = s.net /\ t.dialing = s.dialing /\ SameElsewhere(s, t, n)
      /\ DOMAIN q = Fields /\ q.desired = r.desired \cup {m}
      /\ \A f \in Fields \ {"desired"} : q[f] = r[f]
  BY DEF GateIn, Shape, GateOK, Fields, SameElsewhere
<1>2. dial_peer(s, n, m) = Emit(t, n, e)
  BY DEF dial_peer
<1>3. EventOK(q, n, e)
  BY DEF EventOK, Event
<1> HIDE DEF t, q, e
<1>4. Quiet(s, t, n) /\ HandshakesOK(q, n) /\ SolversOK(q, n)
  BY <1>1 DEF Quiet, SameFlood, Fields, GateIn, GateOK, HandshakesOK, SolversOK, q
<1>5. Gate(s, t, n)
  BY <1>4, QuietOK DEF q
<1>6. Gate(t, Emit(t, n, e), n)
  BY <1>3, <1>5, EmitOK DEF Gate, q
<1> QED BY <1>2, <1>5, <1>6, GateTwice

LEMMA HandleUpdateOK ==
    ASSUME NEW n, NEW s, GateIn(s, n), NEW e, UpdateOK(s.node[n], n, e)
    PROVE  Gate(s, HandleUpdate(s, n, e), n)
<1> DEFINE m == e.peer
<1>1. m \in Others(n)
  BY DEF UpdateOK
<1>2. CASE e.type = "Connected"
  <2> DEFINE t == SetOut(s, n, m, "WaitingListener")
             f == Event("PrepareListener", m, None)
  <2>1. HandleUpdate(s, n, e) = Emit(t, n, f)
    BY <1>2 DEF HandleUpdate, SetOut
  <2>2. Gate(s, t, n)
    BY <1>1, SetOutOK DEF DialerPeerState
  <2> HIDE DEF t
  <2>3. EventOK(t.node[n], n, f)
    BY <1>1, <1>2, <2>2 DEF EventOK, Event, UpdateOK, Gate, SameFlood
  <2>4. Gate(t, Emit(t, n, f), n)
    BY <2>2, <2>3, EmitOK DEF Gate
  <2> QED BY <2>1, <2>2, <2>4, GateTwice
<1>3. CASE e.type = "EnabledListener"
  <2> DEFINE t == SetOut(s, n, m, "UnlockRequestSent")
             b == Msg("UnlockRequest", IF s.node[n].solved[m].of = 0 THEN NoProof
                                       ELSE s.node[n].solved[m])
  <2>1. HandleUpdate(s, n, e) = SendEvent(t, n, m, b)
    BY <1>3 DEF HandleUpdate, SetOut
  <2>2. Gate(s, t, n)
    BY <1>1, SetOutOK DEF DialerPeerState
  <2>3. IsMsg(b)
    BY DEF IsMsg, Msg
  <2> HIDE DEF t, b
  <2>4. Gate(t, SendEvent(t, n, m, b), n)
    BY <1>1, <2>2, <2>3, SendEventOK DEF Gate
  <2> QED BY <2>1, <2>2, <2>4, GateTwice
<1>4. CASE e.type = "EnabledDialer"
  <2> DEFINE t == SetIn(s, n, m, None)
  <2>1. HandleUpdate(s, n, e) \in {SetOut(s, n, m, None), SendEvent(t, n, m, Permit)}
    BY <1>4 DEF HandleUpdate, SetOut, SetIn
  <2>2. Gate(s, SetOut(s, n, m, None), n) /\ Gate(s, t, n)
    BY <1>1, SetOutOK, SetInOK
  <2>3. IsMsg(Permit)
    BY DEF IsMsg, Msg, Permit
  <2> HIDE DEF t
  <2>4. Gate(t, SendEvent(t, n, m, Permit), n)
    BY <1>1, <2>2, <2>3, SendEventOK DEF Gate
  <2> QED BY <2>1, <2>2, <2>4, GateTwice
<1>5. CASE e.type = "VDFSolved"
  <2> DEFINE r == s.node[n]
             t == [[s EXCEPT !.node[n].out[m] = "ProofSent"] EXCEPT !.node[n].solved[m].of = e.body]
             q == t.node[n]
             b == Msg("UnlockRequest", t.node[n].solved[m])
  <2>1. HandleUpdate(s, n, e) \in {SendEvent(t, n, m, b), dial_peer(t, n, m)}
    BY <1>5 DEF HandleUpdate
  <2>2. /\ Shape(t) /\ t.net = s.net /\ t.dialing = s.dialing /\ SameElsewhere(s, t, n)
        /\ DOMAIN q = Fields /\ q.out = [r.out EXCEPT ![m] = "ProofSent"]
        /\ \A f \in Fields \ {"out", "solved"} : q[f] = r[f]
    BY <1>1 DEF GateIn, Shape, GateOK, Fields, SameElsewhere
  <2>3. IsMsg(b)
    BY DEF IsMsg, Msg
  <2> HIDE DEF t, q, b, m
  <2>4. Quiet(s, t, n) /\ HandshakesOK(q, n) /\ SolversOK(q, n)
    BY <1>1, <2>2 DEF Quiet, SameFlood, Fields, GateIn, GateOK, HandshakesOK, SolversOK, q, DialerPeerState
  <2>5. Gate(s, t, n)
    BY <2>4, QuietOK DEF q
  <2>6. Gate(t, SendEvent(t, n, m, b), n)
    BY <1>1, <2>3, <2>5, SendEventOK DEF Gate
  <2>7. Gate(t, dial_peer(t, n, m), n)
    BY <1>1, <2>5, DialPeerOK DEF Gate
  <2> QED BY <2>1, <2>5, <2>6, <2>7, GateTwice
<1> QED BY <1>2, <1>3, <1>4, <1>5 DEF UpdateOK

-----------------------------------------------------------------------------
(* What floodsub has queued. *)

\* A copy of the message x for other nodes or for the node's consumers; one for
\* the consumers.
Queued(r, x) == \E i \in 1 .. Len(r.rpcs) : r.rpcs[i].body = Rpc("Message", x)
PendingAt(r, x, i) == r.rpcs[i].type = "Message" /\ r.rpcs[i].body = Rpc("Message", x)
IsPending(r, x) == \E i \in 1 .. Len(r.rpcs) : PendingAt(r, x, i)
PendingOnce(r, x) ==
    \A i, j \in 1 .. Len(r.rpcs) : PendingAt(r, x, i) /\ PendingAt(r, x, j) => i = j

\* The rpcs of q are those of r, and more to send to some of S.
Sends(r, q, S, rpc) ==
    /\ IsList(q.rpcs) /\ Len(r.rpcs) \in Nat /\ Len(q.rpcs) \in Nat
    /\ Len(r.rpcs) <= Len(q.rpcs)
    /\ \A i \in 1 .. Len(r.rpcs) : q.rpcs[i] = r.rpcs[i]
    /\ \A i \in 1 .. Len(q.rpcs) : i > Len(r.rpcs) =>
          \E m \in S : q.rpcs[i] = Event("SendEvent", m, rpc)

LEMMA SendsFacts ==
    ASSUME NEW n, NEW r, NEW q, NEW S, S \subseteq Others(n), NEW rpc, IsRpc(rpc),
           RpcsOK(r, n), Sends(r, q, S, rpc)
    PROVE  /\ RpcsOK(q, n)
           /\ \A x \in Messages : Queued(q, x) => Queued(r, x) \/ rpc = Rpc("Message", x)
           /\ \A x \in Messages : IsPending(q, x) <=> IsPending(r, x)
           /\ \A x \in Messages : PendingOnce(r, x) => PendingOnce(q, x)
<1>1. ASSUME NEW i \in 1 .. Len(q.rpcs), ~(i \in 1 .. Len(r.rpcs))
      PROVE  /\ q.rpcs[i].type = "SendEvent" /\ q.rpcs[i].peer \in S /\ q.rpcs[i].body = rpc
             /\ RpcOK(n, q.rpcs[i]) /\ \A x : ~PendingAt(q, x, i)
  <2>1. PICK m \in S : q.rpcs[i] = Event("SendEvent", m, rpc)
    BY <1>1 DEF Sends
  <2> QED BY <2>1 DEF Event, RpcOK, PendingAt
<1>2. \A i \in 1 .. Len(r.rpcs) : i \in 1 .. Len(q.rpcs) /\ q.rpcs[i] = r.rpcs[i]
  BY DEF Sends
<1>3. RpcsOK(q, n)
  BY <1>1, <1>2 DEF RpcsOK, Sends
<1>4. \A x \in Messages : Queued(q, x) => Queued(r, x) \/ rpc = Rpc("Message", x)
  BY <1>1, <1>2 DEF Queued
<1>5. \A x, i : i \in 1 .. Len(q.rpcs) /\ PendingAt(q, x, i)
                   => i \in 1 .. Len(r.rpcs) /\ PendingAt(r, x, i)
  BY <1>1, <1>2 DEF PendingAt
<1>6. \A x, i : i \in 1 .. Len(r.rpcs) /\ PendingAt(r, x, i)
                   => i \in 1 .. Len(q.rpcs) /\ PendingAt(q, x, i)
  BY <1>2 DEF PendingAt
<1>7. \A x \in Messages : IsPending(q, x) <=> IsPending(r, x)
  BY <1>5, <1>6 DEF IsPending
<1>8. \A x \in Messages : PendingOnce(r, x) => PendingOnce(q, x)
  BY <1>5 DEF PendingOnce
<1> QED BY <1>3, <1>4, <1>7, <1>8

LEMMA TailFacts ==
    ASSUME NEW n, NEW r, NEW q, RpcsOK(r, n), r.rpcs # <<>>, q.rpcs = Tail(r.rpcs)
    PROVE  /\ RpcsOK(q, n) /\ RpcOK(n, Head(r.rpcs))
           /\ \A x \in Messages : Queued(q, x) => Queued(r, x)
           /\ \A x \in Messages : IsPending(q, x) => IsPending(r, x)
           /\ \A x \in Messages : PendingOnce(r, x) => PendingOnce(q, x)
           /\ \A x \in Messages : Head(r.rpcs).body = Rpc("Message", x) => Queued(r, x)
           /\ \A x \in Messages : PendingAt(r, x, 1) => IsPending(r, x)
           /\ \A x \in Messages : PendingAt(r, x, 1) /\ PendingOnce(r, x) => ~IsPending(q, x)
<1> DEFINE k == Len(r.rpcs)
<1>1. /\ IsList(q.rpcs) /\ k \in Nat /\ k > 0 /\ Len(q.rpcs) = k - 1
      /\ \A i \in 1 .. k - 1 : q.rpcs[i] = r.rpcs[i + 1]
      /\ Head(r.rpcs) = r.rpcs[1]
  BY TailList DEF RpcsOK
<1>2. \A i \in 1 .. Len(q.rpcs) : i + 1 \in 1 .. k /\ i + 1 # 1 /\ q.rpcs[i] = r.rpcs[i + 1]
  BY <1>1
<1>3. 1 \in 1 .. k
  BY <1>1
<1>4. RpcsOK(q, n) /\ RpcOK(n, Head(r.rpcs))
  BY <1>1, <1>2, <1>3 DEF RpcsOK
<1>5. \A x \in Messages : Queued(q, x) => Queued(r, x)
  BY <1>2 DEF Queued
<1>6. \A x, i : i \in 1 .. Len(q.rpcs) /\ PendingAt(q, x, i) => PendingAt(r, x, i + 1)
  BY <1>2 DEF PendingAt
<1>7. \A x \in Messages : IsPending(q, x) => IsPending(r, x)
  BY <1>2, <1>6 DEF IsPending
<1>8. \A x \in Messages : PendingOnce(r, x) => PendingOnce(q, x)
  <2> SUFFICES ASSUME NEW x \in Messages, PendingOnce(r, x), NEW i \in 1 .. Len(q.rpcs),
                      NEW j \in 1 .. Len(q.rpcs), PendingAt(q, x, i), PendingAt(q, x, j)
               PROVE  i = j
    BY DEF PendingOnce
  <2>1. i + 1 = j + 1
    BY <1>2, <1>6 DEF PendingOnce
  <2> QED BY <2>1
<1>9. \A x \in Messages : Head(r.rpcs).body = Rpc("Message", x) => Queued(r, x)
  BY <1>1, <1>3 DEF Queued
<1>10. \A x \in Messages : PendingAt(r, x, 1) => IsPending(r, x)
  BY <1>3 DEF IsPending
<1>11. \A x \in Messages : PendingAt(r, x, 1) /\ PendingOnce(r, x) => ~IsPending(q, x)
  BY <1>2, <1>3, <1>6 DEF IsPending, PendingOnce
<1> QED BY <1>4, <1>5, <1>7, <1>8, <1>9, <1>10, <1>11

\* The state with other rpcs of a node.
WithRpcs(s, n, q) == [s EXCEPT !.node[n].rpcs = q]

\* A step of floodsub at the node n: the gatekeeper is left alone.
SameGate(r, q) ==
    /\ DOMAIN q = Fields
    /\ \A f \in {"connected", "desired", "out", "in", "unlocked", "updates", "events", "queue",
                 "solvers", "threads"} : q[f] = r[f]

LEMMA SameGateOK ==
    ASSUME NEW n, NEW r, NEW q, GateOK(r, n), SameGate(r, q)
    PROVE  GateOK(q, n)
<1>1. /\ q.connected = r.connected /\ q.desired = r.desired /\ q.out = r.out /\ q.in = r.in
      /\ q.unlocked = r.unlocked /\ q.updates = r.updates /\ q.events = r.events
      /\ q.queue = r.queue /\ q.solvers = r.solvers /\ q.threads = r.threads
  BY DEF SameGate
<1>2. DOMAIN q = Fields
  BY DEF SameGate
<1>3. HandshakesOK(q, n)
  BY <1>1 DEF GateOK, HandshakesOK
<1>4. UpdatesOK(q, n)
  BY <1>1 DEF GateOK, UpdatesOK, UpdateOK
<1>5. EventsOK(q, n)
  BY <1>1 DEF GateOK, EventsOK, EventOK
<1>6. SolversOK(q, n)
  BY <1>1 DEF GateOK, SolversOK
<1> QED BY <1>2, <1>3, <1>4, <1>5, <1>6 DEF GateOK

LEMMA WithRpcsFacts ==
    ASSUME NEW n, NEW s, GateIn(s, n), NEW l
    PROVE  LET t == WithRpcs(s, n, l)
               r == s.node[n]
               q == t.node[n]
           IN  /\ Shape(t) /\ t.net = s.net /\ t.dialing = s.dialing /\ SameElsewhere(s, t, n)
               /\ SameGate(r, q) /\ q.rpcs = l
               /\ \A f \in Fields \ {"rpcs"} : q[f] = r[f]
               /\ \A k : WithRpcs(t, n, k) = WithRpcs(s, n, k)
<1> DEFINE t == WithRpcs(s, n, l)
           r == s.node[n]
           q == t.node[n]
<1>1. /\ Shape(t) /\ t.net = s.net /\ t.dialing = s.dialing /\ SameElsewhere(s, t, n)
      /\ DOMAIN q = Fields /\ q.rpcs = l
      /\ \A f \in Fields \ {"rpcs"} : q[f] = r[f]
  BY DEF GateIn, Shape, GateOK, Fields, WithRpcs, SameElsewhere
<1>2. ASSUME NEW k PROVE WithRpcs(t, n, k) = WithRpcs(s, n, k)
  BY DEF GateIn, Shape, GateOK, Fields, WithRpcs
<1> HIDE DEF t, q
<1>3. SameGate(r, q)
  BY <1>1 DEF SameGate, Fields
<1> QED BY <1>1, <1>2, <1>3 DEF t, q

\* One rpc after the other, as FoldLeft does it.
IsSending(g, s, n, seq, rpc) ==
    g = [x \in SUBSET DOMAIN seq |->
            IF x = {} THEN s ELSE SendRpc(g[x \ {Max(x)}], n, seq[Max(x)], rpc)]

LEMMA SendRpcsIsFold ==
    ASSUME NEW s, NEW n, NEW S, NEW rpc
    PROVE  SendRpcs(s, n, S, rpc)
             = (CHOOSE g : IsSending(g, s, n, SetToSeq(S), rpc))[DOMAIN SetToSeq(S)]
  BY DEF SendRpcs, FoldLeft, MapThenFoldSet, IsSending

LEMMA MaxIsThere ==
    ASSUME NEW k \in Int, NEW x \in SUBSET (1 .. k), x # {}
    PROVE  Max(x) \in x
<1>1. PICK y \in x : \A z \in x : y >= z
  BY Maximum
<1> QED BY <1>1 DEF Max

LEMMA SendRpcIs ==
    ASSUME NEW n, NEW s, GateIn(s, n), NEW l, NEW m, NEW rpc
    PROVE  SendRpc(WithRpcs(s, n, l), n, m, rpc)
             = WithRpcs(s, n, Append(l, Event("SendEvent", m, rpc)))
<1> DEFINE t == WithRpcs(s, n, l)
           e == Event("SendEvent", m, rpc)
<1>1. t.node[n].rpcs = l
  BY WithRpcsFacts
<1>2. SendRpc(t, n, m, rpc) = WithRpcs(t, n, Append(t.node[n].rpcs, e))
  BY DEF SendRpc, WithRpcs
<1>3. \A k : WithRpcs(t, n, k) = WithRpcs(s, n, k)
  BY WithRpcsFacts
<1> HIDE DEF t, e
<1>4. SendRpc(t, n, m, rpc) = WithRpcs(s, n, Append(l, e))
  BY <1>1, <1>2, <1>3
<1> QED BY <1>4 DEF t, e

\* What a list of rpcs may become.
LongerBy(old, S, rpc, l) ==
    /\ Len(old) <= Len(l)
    /\ \A i \in 1 .. Len(old) : l[i] = old[i]
    /\ \A i \in 1 .. Len(l) : i > Len(old) => \E m \in S : l[i] = Event("SendEvent", m, rpc)

\* The step to t has sent rpc to some of S, and done nothing else.
Sent(s, t, n, S, rpc) ==
    LET r == s.node[n]
        q == t.node[n]
    IN  /\ Shape(t) /\ t.net = s.net /\ t.dialing = s.dialing /\ SameElsewhere(s, t, n)
        /\ SameGate(r, q) /\ Sends(r, q, S, rpc)
        /\ \A f \in Fields \ {"rpcs"} : q[f] = r[f]

LEMMA LongerIsSent ==
    ASSUME NEW n, NEW s, GateIn(s, n), IsList(s.node[n].rpcs), NEW S, NEW rpc,
           NEW l, IsList(l), Len(l) \in Nat, LongerBy(s.node[n].rpcs, S, rpc, l)
    PROVE  Sent(s, WithRpcs(s, n, l), n, S, rpc)
<1> DEFINE t == WithRpcs(s, n, l)
           r == s.node[n]
           q == t.node[n]
<1>1. /\ Shape(t) /\ t.net = s.net /\ t.dialing = s.dialing /\ SameElsewhere(s, t, n)
      /\ SameGate(r, q) /\ q.rpcs = l
      /\ \A f \in Fields \ {"rpcs"} : q[f] = r[f]
  BY WithRpcsFacts
<1>2. Len(r.rpcs) \in Nat
  BY DEF IsList
<1> HIDE DEF t, q
<1>3. Sends(r, q, S, rpc)
  BY <1>1, <1>2 DEF Sends, LongerBy
<1> QED BY <1>1, <1>3 DEF Sent, t, q

LEMMA NothingIsSent ==
    ASSUME NEW n, NEW s, GateIn(s, n), IsList(s.node[n].rpcs), NEW S, NEW rpc
    PROVE  Sent(s, s, n, S, rpc)
<1>1. Len(s.node[n].rpcs) \in Nat
  BY DEF IsList
<1>2. Sends(s.node[n], s.node[n], S, rpc)
  BY <1>1 DEF Sends
<1>3. DOMAIN s.node[n] = Fields
  BY DEF GateIn, GateOK
<1> QED BY <1>2, <1>3 DEF Sent, GateIn, SameElsewhere, SameGate

LEMMA SendRpcOK ==
    ASSUME NEW n, NEW s, GateIn(s, n), IsList(s.node[n].rpcs), NEW m, NEW rpc
    PROVE  Sent(s, SendRpc(s, n, m, rpc), n, {m}, rpc)
<1> DEFINE e == Event("SendEvent", m, rpc)
           old == s.node[n].rpcs
           l == Append(old, e)
<1>1. SendRpc(s, n, m, rpc) = WithRpcs(s, n, l)
  BY DEF SendRpc, WithRpcs
<1>2. /\ IsList(l) /\ Len(old) \in Nat /\ Len(l) = Len(old) + 1
      /\ \A i \in 1 .. Len(old) : l[i] = old[i]
      /\ l[Len(old) + 1] = e
  BY AppendList
<1> HIDE DEF l, old
<1>3. LongerBy(old, {m}, rpc, l) /\ Len(l) \in Nat
  BY <1>2 DEF LongerBy
<1> QED BY <1>1, <1>2, <1>3, LongerIsSent DEF old

LEMMA SendRpcsOK ==
    ASSUME NEW n, NEW s, GateIn(s, n), IsList(s.node[n].rpcs), NEW S, IsFiniteSet(S), NEW rpc
    PROVE  Sent(s, SendRpcs(s, n, S, rpc), n, S, rpc)
<1> DEFINE old == s.node[n].rpcs
           seq == SetToSeq(S)
           I == DOMAIN seq
<1>1. PICK T : old \in Seq(T)
  BY DEF IsList
<1>2. seq \in Seq(S)
  BY SetList
<1>3. I = 1 .. Len(seq) /\ Len(seq) \in Nat /\ \A i \in I : seq[i] \in S
  BY <1>2
<1> HIDE DEF seq
<1>4. IsFiniteSet(I)
  BY <1>3, FS_Interval
<1> HIDE DEF I
<1> DEFINE E(m) == Event("SendEvent", m, rpc)
           U == T \cup {E(m) : m \in S}
           Ls == {l \in Seq(U) : LongerBy(old, S, rpc, l)}
           States == {s} \cup {WithRpcs(s, n, l) : l \in Ls}
           D == [i \in I |-> [t \in States |-> SendRpc(t, n, seq[i], rpc)]]
           ch == [x \in SUBSET I |-> Max(x)]
<1>5. s \in States
  OBVIOUS
<1>6. ASSUME NEW i \in I, NEW t \in States
      PROVE  SendRpc(t, n, seq[i], rpc) \in States
  <2>1. PICK l \in Ls : SendRpc(t, n, seq[i], rpc) = WithRpcs(s, n, Append(l, E(seq[i])))
    <3>1. CASE t = s
      <4>1. old \in Seq(U) /\ Len(old) \in Nat
        BY <1>1
      <4>2. old \in Ls
        BY <4>1 DEF LongerBy
      <4>3. SendRpc(t, n, seq[i], rpc) = WithRpcs(s, n, Append(old, E(seq[i])))
        BY <3>1 DEF SendRpc, WithRpcs
      <4> HIDE DEF Ls, E
      <4> QED BY <4>2, <4>3
    <3>2. CASE t # s
      <4>1. PICK l \in Ls : t = WithRpcs(s, n, l)
        BY <3>2
      <4>2. SendRpc(t, n, seq[i], rpc) = WithRpcs(s, n, Append(l, E(seq[i])))
        BY <4>1, SendRpcIs
      <4> HIDE DEF Ls, E
      <4> QED BY <4>2
    <3> QED BY <3>1, <3>2
  <2> DEFINE k == Append(l, E(seq[i]))
  <2>2. SendRpc(t, n, seq[i], rpc) = WithRpcs(s, n, k)
    BY <2>1
  <2>3. seq[i] \in S
    BY <1>3
  <2>4. E(seq[i]) \in U
    BY <2>3
  <2>5. /\ k \in Seq(U) /\ Len(l) \in Nat /\ Len(k) = Len(l) + 1 /\ Len(old) \in Nat
        /\ k[Len(l) + 1] = E(seq[i]) /\ \A j \in 1 .. Len(l) : k[j] = l[j]
    <3> HIDE DEF E, U
    <3> QED BY <1>1, <2>4
  <2>6. LongerBy(old, S, rpc, k)
    <3>1. LongerBy(old, S, rpc, l)
      OBVIOUS
    <3> HIDE DEF k, old
    <3> QED BY <2>3, <2>5, <3>1 DEF LongerBy
  <2>7. k \in Ls
    BY <2>5, <2>6
  <2> HIDE DEF k, Ls
  <2> QED BY <2>2, <2>7
<1> HIDE DEF States
<1>7. \A x \in SUBSET I : x # {} => Max(x) \in x
  <2> SUFFICES ASSUME NEW x \in SUBSET I, x # {} PROVE Max(x) \in x
    OBVIOUS
  <2>1. Len(seq) \in Int /\ x \in SUBSET (1 .. Len(seq))
    BY <1>3
  <2> QED BY <2>1, MaxIsThere
<1>8. PICK f : f \in [SUBSET I -> States] /\ IsFold(f, I, s, D, ch)
  <2>1. D \in [I -> [States -> States]]
    BY <1>6
  <2>2. \A x \in SUBSET I : x # {} => ch[x] \in x
    BY <1>7
  <2> HIDE DEF D, ch
  <2>3. CanFold(I, States, s, D, ch)
    BY <1>4, <1>5, <2>1, <2>2 DEF CanFold
  <2> QED BY <2>3, FoldExists
<1>9. IsSending(f, s, n, seq, rpc)
  <2>1. f = [x \in SUBSET I |-> IF x = {} THEN s ELSE D[ch[x]][f[x \ {ch[x]}]]]
    BY <1>8 DEF IsFold
  <2>2. ASSUME NEW x \in SUBSET I, x # {}
        PROVE  D[ch[x]][f[x \ {ch[x]}]] = SendRpc(f[x \ {Max(x)}], n, seq[Max(x)], rpc)
    <3>1. ch[x] = Max(x) /\ Max(x) \in x /\ x \ {Max(x)} \in SUBSET I
      BY <1>7, <2>2
    <3>2. f[x \ {Max(x)}] \in States /\ Max(x) \in I
      BY <1>8, <3>1
    <3> HIDE DEF ch
    <3> QED BY <3>1, <3>2
  <2> HIDE DEF D, ch
  <2>3. f = [x \in SUBSET I |-> IF x = {} THEN s
                               ELSE SendRpc(f[x \ {Max(x)}], n, seq[Max(x)], rpc)]
    BY <2>1, <2>2
  <2> QED BY <2>3 DEF IsSending, I
<1> DEFINE g == CHOOSE h : IsSending(h, s, n, seq, rpc)
<1>10. IsSending(g, s, n, seq, rpc)
  BY <1>9
<1> HIDE DEF g
<1>11. g = [x \in SUBSET I |-> IF x = {} THEN s
                              ELSE SendRpc(g[x \ {Max(x)}], n, seq[Max(x)], rpc)]
  BY <1>10 DEF IsSending, I
<1> DEFINE G == {x \in SUBSET I : g[x] \in States}
<1>12. SUBSET I \subseteq G
  <2>1. {} \in G
    BY <1>5, <1>11
  <2>2. ASSUME NEW x \in SUBSET I, x # {}, \A y \in x : x \ {y} \in G
        PROVE  x \in G
    <3>1. Max(x) \in x /\ Max(x) \in I
      BY <1>7, <2>2
    <3>2. g[x \ {Max(x)}] \in States
      BY <2>2, <3>1
    <3>3. g[x] = SendRpc(g[x \ {Max(x)}], n, seq[Max(x)], rpc)
      BY <1>11, <2>2
    <3> QED BY <1>6, <3>1, <3>2, <3>3
  <2> HIDE DEF G
  <2> QED BY <1>4, <2>1, <2>2, SetInduction
<1>13. g[I] \in States
  BY <1>12
<1>14. SendRpcs(s, n, S, rpc) = g[I]
  BY SendRpcsIsFold DEF g, I, seq
<1>15. CASE g[I] = s
  BY <1>14, <1>15, NothingIsSent
<1>16. CASE g[I] # s
  <2>1. PICK l \in Ls : g[I] = WithRpcs(s, n, l)
    BY <1>13, <1>16 DEF States
  <2>2. IsList(l) /\ Len(l) \in Nat /\ LongerBy(old, S, rpc, l)
    <3>1. l \in Seq(U) /\ LongerBy(old, S, rpc, l)
      OBVIOUS
    <3> HIDE DEF U, old, Ls
    <3> QED BY <3>1 DEF IsList
  <2> HIDE DEF Ls
  <2> QED BY <1>14, <2>1, <2>2, LongerIsSent
<1> QED BY <1>15, <1>16

-----------------------------------------------------------------------------
(* What holds of the network. *)

\* A copy of the message x is under way, or x is one of X that are just being handled.
InFlight(s, x, X) ==
    \/ x \in X
    \/ \E e \in DOMAIN s.net : e.msg = Rpc("Message", x)
    \/ \E m \in Nodes : Queued(s.node[m], x)

\* The node with the state r has published x, or got or will get it, no more
\* often than it was published, and not as often if a copy can still be news.
Once(r, x, count, flying) ==
    /\ PendingOnce(r, x)
    /\ IsPending(r, x) => x \in r.received
    /\ IF IsPending(r, x) THEN r.delivered[x] + r.sent[x] + 1 <= count
                          ELSE r.delivered[x] + r.sent[x] <= count
    /\ flying /\ x \notin r.received => r.delivered[x] + r.sent[x] < count

OnceOK(s, P, X) ==
    /\ P \in [Messages -> Nat]
    /\ \A x \in Messages : InFlight(s, x, X) => P[x] > 0
    /\ \A n \in Nodes, x \in Messages : Once(s.node[n], x, P[x], InFlight(s, x, X))

LinksOK(s, L) ==
    /\ DOMAIN L = Nodes /\ \A n \in Nodes : DOMAIN L[n] = Nodes
    /\ \A n, m \in Nodes :
          /\ L[n][m] \in {Nobody, n, m}
          /\ L[n][m] # Nobody <=> m \in s.node[n].connected
          /\ L[n][m] # Nobody /\ L[m][n] # Nobody => L[n][m] = L[m][n]

MailOK(s) ==
    \A e \in DOMAIN s.net :
        /\ e.from \in Nodes /\ e.to \in Nodes /\ (IsMsg(e.msg) \/ IsRpc(e.msg))
        /\ e.to \in s.node[e.from].connected /\ e.from \in s.node[e.to].connected

DialsOK(s) == \A d \in s.dialing : d.from \in Nodes /\ d.to \in Others(d.from)

NodesOK(s) == \A n \in Nodes : GateOK(s.node[n], n) /\ FloodOK(s.node[n], n)

Good(s, L, P, X) ==
    Shape(s) /\ NodesOK(s) /\ LinksOK(s, L) /\ MailOK(s) /\ DialsOK(s) /\ OnceOK(s, P, X)

\* A message of the gatekeeper is no rpc.
LEMMA MsgIsNoRpc ==
    ASSUME NEW b, IsMsg(b)
    PROVE  \A x : b # Rpc("Message", x)
<1>1. \A x : "proof" \notin DOMAIN Rpc("Message", x)
  BY DEF Rpc
<1> QED BY <1>1 DEF IsMsg

\* Nothing is published, no copy appears that was not there.
Calm(s, t, X) ==
    /\ \A x \in Messages : InFlight(t, x, X) => InFlight(s, x, X)
    /\ \A n \in Nodes :
          /\ t.node[n].received = s.node[n].received
          /\ t.node[n].delivered = s.node[n].delivered /\ t.node[n].sent = s.node[n].sent
          /\ \A x \in Messages : /\ IsPending(t.node[n], x) => IsPending(s.node[n], x)
                                 /\ PendingOnce(s.node[n], x) => PendingOnce(t.node[n], x)

LEMMA CalmOK ==
    ASSUME NEW s, NEW t, NEW P, NEW X, OnceOK(s, P, X), Calm(s, t, X),
           \A n \in Nodes : CountsOK(s.node[n])
    PROVE  OnceOK(t, P, X)
<1> SUFFICES ASSUME NEW n \in Nodes, NEW x \in Messages
             PROVE  Once(t.node[n], x, P[x], InFlight(t, x, X))
  BY DEF OnceOK, Calm
<1> DEFINE r == s.node[n]
           q == t.node[n]
<1>1. Once(r, x, P[x], InFlight(s, x, X)) /\ P[x] \in Nat
  BY DEF OnceOK
<1>2. /\ q.received = r.received /\ q.delivered = r.delivered /\ q.sent = r.sent
      /\ IsPending(q, x) => IsPending(r, x)
      /\ PendingOnce(r, x) => PendingOnce(q, x)
      /\ InFlight(t, x, X) => InFlight(s, x, X)
  BY DEF Calm
<1>3. r.delivered[x] \in Nat /\ r.sent[x] \in Nat
  BY DEF CountsOK
<1> HIDE DEF r, q
<1>4. Once(q, x, P[x], InFlight(t, x, X))
  BY <1>1, <1>2, <1>3 DEF Once
<1> QED BY <1>4 DEF q

LEMMA SameRpcs ==
    ASSUME NEW r, NEW q, q.rpcs = r.rpcs
    PROVE  \A x : /\ Queued(q, x) <=> Queued(r, x)
                  /\ IsPending(q, x) <=> IsPending(r, x)
                  /\ PendingOnce(q, x) <=> PendingOnce(r, x)
<1>1. \A x : Queued(q, x) <=> Queued(r, x)
  BY DEF Queued
<1>2. \A x, i : PendingAt(q, x, i) <=> PendingAt(r, x, i)
  BY DEF PendingAt
<1>3. \A x : IsPending(q, x) <=> IsPending(r, x)
  BY <1>2 DEF IsPending
<1>4. \A x : PendingOnce(q, x) <=> PendingOnce(r, x)
  BY <1>2 DEF PendingOnce
<1> QED BY <1>1, <1>3, <1>4

\* What floodsub has stays as it is at all nodes, and so does the mail.
LEMMA SameQueues ==
    ASSUME NEW s, NEW t, NEW X,
           \A n \in Nodes : /\ t.node[n].rpcs = s.node[n].rpcs
                            /\ t.node[n].received = s.node[n].received
                            /\ t.node[n].delivered = s.node[n].delivered
                            /\ t.node[n].sent = s.node[n].sent,
           \A e \in DOMAIN t.net : e \in DOMAIN s.net \/ IsMsg(e.msg)
    PROVE  Calm(s, t, X)
<1>1. \A n \in Nodes, x \in Messages :
        /\ Queued(t.node[n], x) <=> Queued(s.node[n], x)
        /\ IsPending(t.node[n], x) <=> IsPending(s.node[n], x)
        /\ PendingOnce(t.node[n], x) <=> PendingOnce(s.node[n], x)
  BY SameRpcs
<1>2. ASSUME NEW x \in Messages, InFlight(t, x, X) PROVE InFlight(s, x, X)
  <2>1. \A e \in DOMAIN t.net : e.msg = Rpc("Message", x) => e \in DOMAIN s.net
    BY MsgIsNoRpc
  <2> QED BY <1>1, <1>2, <2>1 DEF InFlight
<1> QED BY <1>1, <1>2 DEF Calm

LEMMA SameFloodOK ==
    ASSUME NEW n, NEW r, NEW q, FloodOK(r, n), SameFlood(r, q)
    PROVE  FloodOK(q, n)
<1>1. RemotesOK(q, n)
  BY DEF FloodOK, RemotesOK, SameFlood
<1>2. RpcsOK(q, n)
  BY DEF FloodOK, RpcsOK, SameFlood
<1>3. CountsOK(q)
  BY DEF FloodOK, CountsOK, SameFlood
<1> QED BY <1>1, <1>2, <1>3 DEF FloodOK

LEMMA GateGood ==
    ASSUME NEW s, NEW L, NEW P, NEW X, Good(s, L, P, X), NEW n, NEW t, Gate(s, t, n)
    PROVE  Good(t, L, P, X)
<1>1. n \in Nodes /\ Shape(t) /\ t.net = s.net /\ t.dialing = s.dialing
  BY DEF Gate, GateIn
<1>2. \A k \in Nodes : SameFlood(s.node[k], t.node[k])
  BY DEF Gate, SameElsewhere, SameFlood
<1>3. NodesOK(t)
  <2>1. \A k \in Nodes : FloodOK(t.node[k], k)
    BY <1>2, SameFloodOK DEF Good, NodesOK
  <2>2. \A k \in Nodes : GateOK(t.node[k], k)
    BY DEF Gate, GateIn, SameElsewhere, Good, NodesOK
  <2> QED BY <2>1, <2>2 DEF NodesOK
<1>4. \A k \in Nodes : t.node[k].connected = s.node[k].connected
  BY <1>2 DEF SameFlood
<1>5. LinksOK(t, L)
  BY <1>4 DEF Good, LinksOK
<1>6. MailOK(t)
  BY <1>1, <1>4 DEF Good, MailOK
<1>7. DialsOK(t)
  BY <1>1 DEF Good, DialsOK
<1>8. Calm(s, t, X)
  BY <1>1, <1>2, SameQueues DEF SameFlood
<1>9. OnceOK(t, P, X)
  BY <1>8, CalmOK DEF Good, NodesOK, FloodOK
<1> QED BY <1>1, <1>3, <1>5, <1>6, <1>7, <1>9 DEF Good

LEMMA GoodIsGateIn ==
    ASSUME NEW s, NEW L, NEW P, NEW X, Good(s, L, P, X), NEW n \in Nodes
    PROVE  GateIn(s, n)
  BY DEF Good, NodesOK, GateIn

\* A step of floodsub that keeps who is connected: what is left to show.
LEMMA FloodGood ==
    ASSUME NEW s, NEW L, NEW P, NEW X, Good(s, L, P, X), NEW n \in Nodes, NEW t, Shape(t),
           SameElsewhere(s, t, n), SameGate(s.node[n], t.node[n]), FloodOK(t.node[n], n),
           t.net = s.net, t.dialing = s.dialing, OnceOK(t, P, X)
    PROVE  Good(t, L, P, X)
<1>1. GateOK(t.node[n], n)
  BY SameGateOK DEF Good, NodesOK
<1>2. NodesOK(t)
  BY <1>1 DEF Good, NodesOK, SameElsewhere
<1>3. \A k \in Nodes : t.node[k].connected = s.node[k].connected
  BY DEF SameElsewhere, SameGate
<1>4. LinksOK(t, L)
  BY <1>3 DEF Good, LinksOK
<1>5. MailOK(t)
  BY <1>3 DEF Good, MailOK
<1>6. DialsOK(t)
  BY DEF Good, DialsOK
<1> QED BY <1>2, <1>4, <1>5, <1>6 DEF Good

LEMMA GoodLess ==
    ASSUME NEW s, NEW L, NEW P, NEW X, Good(s, L, P, X), NEW Y, Y \subseteq X
    PROVE  Good(s, L, P, Y)
<1>1. \A x : InFlight(s, x, Y) => InFlight(s, x, X)
  BY DEF InFlight
<1>2. OnceOK(s, P, Y)
  BY <1>1 DEF Good, OnceOK, Once
<1> QED BY <1>2 DEF Good

\* A step that only takes mail away, or dials.
LEMMA LessMailGood ==
    ASSUME NEW s, NEW L, NEW P, NEW X, Good(s, L, P, X), NEW t, Shape(t), t.node = s.node,
           DOMAIN t.net \subseteq DOMAIN s.net, DialsOK(t),
           NEW Y, \A x \in Messages : x \in Y => InFlight(s, x, X)
    PROVE  Good(t, L, P, Y)
<1>1. \A x \in Messages : InFlight(t, x, Y) => InFlight(s, x, X)
  BY DEF InFlight
<1>2. OnceOK(t, P, Y)
  BY <1>1 DEF Good, OnceOK, Once
<1>3. MailOK(t)
  BY DEF Good, MailOK
<1>4. NodesOK(t) /\ LinksOK(t, L)
  BY DEF Good, NodesOK, LinksOK
<1> QED BY <1>2, <1>3, <1>4 DEF Good

LEMMA PutGood ==
    ASSUME NEW s, NEW L, NEW P, NEW X, Good(s, L, P, X), NEW n \in Nodes, NEW m \in Others(n),
           NEW b, IsMsg(b) \/ IsRpc(b), \A x \in Messages : b = Rpc("Message", x) => x \in X
    PROVE  Good(Put(s, n, m, b), L, P, X)
<1>1. CASE ~(m \in s.node[n].connected /\ n \in s.node[m].connected)
  BY <1>1 DEF Put
<1>2. CASE m \in s.node[n].connected /\ n \in s.node[m].connected
  <2> DEFINE e == [from |-> n, to |-> m, msg |-> b]
             t == [s EXCEPT !.net = @ (+) SetToBag({e})]
  <2>1. Put(s, n, m, b) = t
    BY <1>2 DEF Put
  <2>2. e.from = n /\ e.to = m /\ e.msg = b /\ m \in Nodes
    BY DEF Others
  <2> HIDE DEF e
  <2>3. Shape(t) /\ t.node = s.node /\ t.dialing = s.dialing /\ t.net = s.net (+) SetToBag({e})
    BY DEF Good, Shape
  <2>4. DOMAIN t.net = DOMAIN s.net \cup {e}
    BY <2>3 DEF (+), SetToBag, BagToSet
  <2> HIDE DEF t
  <2>5. MailOK(t)
    BY <1>2, <2>2, <2>3, <2>4 DEF Good, MailOK
  <2>6. \A x \in Messages : InFlight(t, x, X) => InFlight(s, x, X)
    BY <2>2, <2>3, <2>4 DEF InFlight
  <2>7. OnceOK(t, P, X)
    BY <2>3, <2>6 DEF Good, OnceOK, Once
  <2>8. NodesOK(t) /\ LinksOK(t, L) /\ DialsOK(t)
    BY <2>3 DEF Good, NodesOK, LinksOK, DialsOK
  <2> QED BY <2>1, <2>3, <2>5, <2>7, <2>8 DEF Good
<1> QED BY <1>1, <1>2

LEMMA SentGood ==
    ASSUME NEW s, NEW L, NEW P, NEW X, Good(s, L, P, X), NEW n \in Nodes, NEW t, NEW S,
           S \subseteq Others(n), NEW rpc, IsRpc(rpc), Sent(s, t, n, S, rpc),
           \A x \in Messages : rpc = Rpc("Message", x) => x \in X
    PROVE  Good(t, L, P, X)
<1> DEFINE r == s.node[n]
           q == t.node[n]
<1>1. /\ Shape(t) /\ t.net = s.net /\ t.dialing = s.dialing /\ SameElsewhere(s, t, n)
      /\ SameGate(r, q) /\ Sends(r, q, S, rpc)
      /\ \A f \in Fields \ {"rpcs"} : q[f] = r[f]
  BY DEF Sent
<1>2. /\ q.remotes = r.remotes /\ q.allowed = r.allowed /\ q.connected = r.connected
      /\ q.unlocked = r.unlocked /\ q.desired = r.desired /\ q.received = r.received
      /\ q.delivered = r.delivered /\ q.sent = r.sent
  BY <1>1 DEF Fields
<1>3. GateOK(r, n) /\ FloodOK(r, n)
  BY DEF Good, NodesOK
<1> HIDE DEF r, q
<1>4. /\ RpcsOK(q, n)
      /\ \A x \in Messages : Queued(q, x) => Queued(r, x) \/ rpc = Rpc("Message", x)
      /\ \A x \in Messages : IsPending(q, x) <=> IsPending(r, x)
      /\ \A x \in Messages : PendingOnce(r, x) => PendingOnce(q, x)
  BY <1>1, <1>3, SendsFacts DEF FloodOK
<1>5. FloodOK(q, n)
  BY <1>2, <1>3, <1>4 DEF FloodOK, RemotesOK, CountsOK
<1>6. \A x \in Messages : InFlight(t, x, X) => InFlight(s, x, X)
  BY <1>1, <1>4 DEF InFlight, SameElsewhere, r, q
<1>7. Calm(s, t, X)
  <2> SUFFICES ASSUME NEW k \in Nodes
               PROVE  /\ t.node[k].received = s.node[k].received
                      /\ t.node[k].delivered = s.node[k].delivered
                      /\ t.node[k].sent = s.node[k].sent
                      /\ \A x \in Messages :
                            /\ IsPending(t.node[k], x) => IsPending(s.node[k], x)
                            /\ PendingOnce(s.node[k], x) => PendingOnce(t.node[k], x)
    BY <1>6 DEF Calm
  <2>1. CASE k = n
    BY <1>2, <1>4, <2>1 DEF r, q
  <2>2. CASE k # n
    BY <1>1, <2>2 DEF SameElsewhere
  <2> QED BY <2>1, <2>2
<1>8. OnceOK(t, P, X)
  BY <1>7, CalmOK DEF Good, NodesOK, FloodOK
<1> QED BY <1>1, <1>5, <1>8, FloodGood DEF r, q

-----------------------------------------------------------------------------
(* Floodsub is polled. *)

TakeRpc(s, n) == [s EXCEPT !.node[n].rpcs = Tail(@)]
MessagesOf(b) == {x \in Messages : b = Rpc("Message", x)}

LEMMA TakeRpcFacts ==
    ASSUME NEW s, NEW L, NEW P, Good(s, L, P, {}), NEW n \in Nodes, s.node[n].rpcs # <<>>
    PROVE  LET t == TakeRpc(s, n)
               r == s.node[n]
               q == t.node[n]
           IN  /\ Shape(t) /\ t.net = s.net /\ t.dialing = s.dialing /\ SameElsewhere(s, t, n)
               /\ SameGate(r, q) /\ q.rpcs = Tail(r.rpcs) /\ SameFlood(r, [q EXCEPT !.rpcs = r.rpcs])
               /\ FloodOK(q, n) /\ RpcOK(n, Head(r.rpcs))
               /\ \A x \in Messages :
                     /\ InFlight(t, x, MessagesOf(Head(r.rpcs).body)) => InFlight(s, x, {})
                     /\ IsPending(q, x) => IsPending(r, x)
                     /\ PendingOnce(r, x) => PendingOnce(q, x)
                     /\ PendingAt(r, x, 1) => IsPending(r, x)
                     /\ PendingAt(r, x, 1) /\ PendingOnce(r, x) => ~IsPending(q, x)
<1> DEFINE t == TakeRpc(s, n)
           r == s.node[n]
           q == t.node[n]
           X == MessagesOf(Head(r.rpcs).body)
<1>1. t = WithRpcs(s, n, Tail(r.rpcs))
  BY DEF TakeRpc, WithRpcs
<1>2. /\ Shape(t) /\ t.net = s.net /\ t.dialing = s.dialing /\ SameElsewhere(s, t, n)
      /\ SameGate(r, q) /\ q.rpcs = Tail(r.rpcs)
      /\ \A f \in Fields \ {"rpcs"} : q[f] = r[f]
  BY <1>1, GoodIsGateIn, WithRpcsFacts
<1> HIDE DEF t
<1>3. /\ q.remotes = r.remotes /\ q.allowed = r.allowed /\ q.connected = r.connected
      /\ q.unlocked = r.unlocked /\ q.desired = r.desired /\ q.received = r.received
      /\ q.delivered = r.delivered /\ q.sent = r.sent /\ q.subscribed = r.subscribed
      /\ DOMAIN q = Fields
  BY <1>2 DEF Fields, SameGate
<1>4. GateOK(r, n) /\ FloodOK(r, n)
  BY DEF Good, NodesOK
<1>5. r.rpcs # <<>>
  OBVIOUS
<1> HIDE DEF r, q
<1>6. /\ RpcsOK(q, n) /\ RpcOK(n, Head(r.rpcs))
      /\ \A x \in Messages : Queued(q, x) => Queued(r, x)
      /\ \A x \in Messages : IsPending(q, x) => IsPending(r, x)
      /\ \A x \in Messages : PendingOnce(r, x) => PendingOnce(q, x)
      /\ \A x \in Messages : Head(r.rpcs).body = Rpc("Message", x) => Queued(r, x)
      /\ \A x \in Messages : PendingAt(r, x, 1) => IsPending(r, x)
      /\ \A x \in Messages : PendingAt(r, x, 1) /\ PendingOnce(r, x) => ~IsPending(q, x)
  BY <1>2, <1>4, <1>5, TailFacts DEF FloodOK
<1>7. FloodOK(q, n)
  BY <1>3, <1>4, <1>6 DEF FloodOK, RemotesOK, CountsOK
<1>8. SameFlood(r, [q EXCEPT !.rpcs = r.rpcs])
  BY <1>3 DEF SameFlood, Fields
<1>9. \A x \in Messages : InFlight(t, x, X) => InFlight(s, x, {})
  <2>1. \A x \in Messages : x \in X => Queued(r, x)
    BY <1>6 DEF MessagesOf
  <2> HIDE DEF X
  <2> QED BY <1>2, <1>6, <2>1 DEF InFlight, SameElsewhere, r, q
<1> QED BY <1>2, <1>6, <1>7, <1>8, <1>9 DEF t, r, q

\* The message that is sent is out of the queue, and not yet under way.
LEMMA TakeRpcGood ==
    ASSUME NEW s, NEW L, NEW P, Good(s, L, P, {}), NEW n \in Nodes, s.node[n].rpcs # <<>>
    PROVE  Good(TakeRpc(s, n), L, P, MessagesOf(Head(s.node[n].rpcs).body))
<1> DEFINE t == TakeRpc(s, n)
           r == s.node[n]
           q == t.node[n]
           X == MessagesOf(Head(r.rpcs).body)
<1>1. /\ Shape(t) /\ t.net = s.net /\ t.dialing = s.dialing /\ SameElsewhere(s, t, n)
      /\ SameGate(r, q) /\ FloodOK(q, n) /\ SameFlood(r, [q EXCEPT !.rpcs = r.rpcs])
      /\ \A x \in Messages : /\ InFlight(t, x, X) => InFlight(s, x, {})
                             /\ IsPending(q, x) => IsPending(r, x)
                             /\ PendingOnce(r, x) => PendingOnce(q, x)
  BY TakeRpcFacts
<1> HIDE DEF t, X
<1>2. q.received = r.received /\ q.delivered = r.delivered /\ q.sent = r.sent
  BY <1>1 DEF SameFlood, SameGate, Fields
<1>3. Calm(s, t, X)
  <2> SUFFICES ASSUME NEW k \in Nodes
               PROVE  /\ t.node[k].received = s.node[k].received
                      /\ t.node[k].delivered = s.node[k].delivered
                      /\ t.node[k].sent = s.node[k].sent
                      /\ \A x \in Messages :
                            /\ IsPending(t.node[k], x) => IsPending(s.node[k], x)
                            /\ PendingOnce(s.node[k], x) => PendingOnce(t.node[k], x)
    BY <1>1 DEF Calm, InFlight
  <2>1. CASE k = n
    BY <1>1, <1>2, <2>1
  <2>2. CASE k # n
    BY <1>1, <2>2 DEF SameElsewhere
  <2> QED BY <2>1, <2>2
<1>4. OnceOK(s, P, X)
  <2>1. \A x \in Messages : InFlight(s, x, X) => InFlight(s, x, {})
    BY <1>1 DEF InFlight
  <2> QED BY <2>1 DEF Good, OnceOK, Once
<1>5. OnceOK(t, P, X)
  BY <1>3, <1>4, CalmOK DEF Good, NodesOK, FloodOK
<1>6. Good(s, L, P, X)
  BY <1>4 DEF Good
<1> QED BY <1>1, <1>5, <1>6, FloodGood DEF t, X

\* A consumer gets a message that was queued for it.
LEMMA ConsumeGood ==
    ASSUME NEW s, NEW L, NEW P, Good(s, L, P, {}), NEW n \in Nodes, s.node[n].rpcs # <<>>,
           Head(s.node[n].rpcs).type = "Message"
    PROVE  Good(PollFloodsub(s, n), L, P, {})
<1> DEFINE t == TakeRpc(s, n)
           r == s.node[n]
           q == t.node[n]
           X == MessagesOf(Head(r.rpcs).body)
<1>1. /\ Shape(t) /\ t.net = s.net /\ t.dialing = s.dialing /\ SameElsewhere(s, t, n)
      /\ SameGate(r, q) /\ q.rpcs = Tail(r.rpcs) /\ SameFlood(r, [q EXCEPT !.rpcs = r.rpcs])
      /\ FloodOK(q, n) /\ RpcOK(n, Head(r.rpcs))
      /\ \A x \in Messages : /\ InFlight(t, x, X) => InFlight(s, x, {})
                             /\ IsPending(q, x) => IsPending(r, x)
                             /\ PendingOnce(r, x) => PendingOnce(q, x)
                             /\ PendingAt(r, x, 1) => IsPending(r, x)
                             /\ PendingAt(r, x, 1) /\ PendingOnce(r, x) => ~IsPending(q, x)
  BY TakeRpcFacts
<1>2. PICK y \in Messages : Head(r.rpcs).body = Rpc("Message", y)
  BY <1>1 DEF RpcOK
<1> DEFINE u == [t EXCEPT !.node[n].delivered[y] = @ + 1]
           v == u.node[n]
<1>3. PollFloodsub(s, n) = u
  <2>1. Head(r.rpcs).body.message = y
    BY <1>2 DEF Rpc
  <2> QED BY <2>1 DEF PollFloodsub, HandleEvent, TakeRpc
<1>4. PendingAt(r, y, 1)
  <2>1. Head(r.rpcs) = r.rpcs[1]
    BY TailList DEF Good, NodesOK, FloodOK, RpcsOK
  <2> QED BY <1>2, <2>1 DEF PendingAt
<1> HIDE DEF t, X
<1>5. /\ q.received = r.received /\ q.delivered = r.delivered /\ q.sent = r.sent
      /\ DOMAIN q = Fields /\ q.delivered \in [Messages -> Nat] /\ q.sent \in [Messages -> Nat]
  BY <1>1 DEF SameFlood, SameGate, Fields, FloodOK, CountsOK
<1>6. /\ Shape(u) /\ u.net = t.net /\ u.dialing = t.dialing /\ SameElsewhere(t, u, n)
      /\ DOMAIN v = Fields /\ v.delivered = [q.delivered EXCEPT ![y] = @ + 1]
      /\ \A f \in Fields \ {"delivered"} : v[f] = q[f]
  BY <1>1, <1>5 DEF Shape, Fields, SameElsewhere
<1> HIDE DEF u, v, q, r
<1>7. SameGate(r, v) /\ SameElsewhere(s, u, n)
  BY <1>1, <1>6 DEF SameGate, Fields, SameElsewhere
<1>8. /\ v.remotes = q.remotes /\ v.allowed = q.allowed /\ v.connected = q.connected
      /\ v.unlocked = q.unlocked /\ v.desired = q.desired /\ v.received = q.received
      /\ v.rpcs = q.rpcs /\ v.sent = q.sent
  BY <1>6 DEF Fields
<1>9. v.delivered \in [Messages -> Nat]
  BY <1>5, <1>6
<1>10. FloodOK(v, n)
  BY <1>1, <1>8, <1>9 DEF FloodOK, RemotesOK, RpcsOK, CountsOK
<1>11. \A x : /\ Queued(v, x) <=> Queued(q, x)
              /\ IsPending(v, x) <=> IsPending(q, x)
              /\ PendingOnce(v, x) <=> PendingOnce(q, x)
  BY <1>8, SameRpcs
<1>12. \A x \in Messages : InFlight(u, x, {}) => InFlight(s, x, {})
  BY <1>1, <1>6, <1>11 DEF InFlight, SameElsewhere, v, q
<1>13. ASSUME NEW x \in Messages
       PROVE  Once(v, x, P[x], InFlight(u, x, {}))
  <2>1. Once(r, x, P[x], InFlight(s, x, {})) /\ P[x] \in Nat
    BY DEF Good, OnceOK, r
  <2>2. q.delivered[x] \in Nat /\ q.sent[x] \in Nat
    BY <1>5
  <2>3. CASE x = y
    <3>1. PendingOnce(v, x) /\ ~IsPending(v, x) /\ x \in v.received
      BY <1>1, <1>4, <1>5, <1>8, <1>11, <2>1, <2>3 DEF Once
    <3>2. v.delivered[x] = q.delivered[x] + 1
      BY <1>5, <1>6, <2>3
    <3>3. q.delivered[x] + q.sent[x] + 1 <= P[x]
      BY <1>1, <1>4, <1>5, <2>1, <2>3 DEF Once
    <3> QED BY <1>8, <2>1, <2>2, <3>1, <3>2, <3>3 DEF Once
  <2>4. CASE x # y
    <3>1. v.delivered[x] = q.delivered[x]
      BY <1>5, <1>6, <2>4
    <3>2. /\ IsPending(v, x) => IsPending(r, x)
          /\ PendingOnce(r, x) => PendingOnce(v, x)
          /\ InFlight(u, x, {}) => InFlight(s, x, {})
      BY <1>1, <1>11, <1>12
    <3>3. v.received = r.received /\ v.sent[x] = r.sent[x] /\ v.delivered[x] = r.delivered[x]
      BY <1>5, <1>8, <3>1
    <3>4. r.delivered[x] \in Nat /\ r.sent[x] \in Nat
      BY <1>5, <2>2
    <3> QED BY <2>1, <3>2, <3>3, <3>4 DEF Once
  <2> QED BY <2>3, <2>4
<1>14. OnceOK(u, P, {})
  <2>1. ASSUME NEW k \in Nodes, NEW x \in Messages, k # n
        PROVE  Once(u.node[k], x, P[x], InFlight(u, x, {}))
    <3>1. u.node[k] = s.node[k]
      BY <1>7, <2>1 DEF SameElsewhere
    <3>2. Once(s.node[k], x, P[x], InFlight(s, x, {}))
      BY DEF Good, OnceOK
    <3> QED BY <1>12, <3>1, <3>2 DEF Once
  <2> QED BY <1>12, <1>13, <2>1 DEF Good, OnceOK, v
<1>15. Good(u, L, P, {})
  BY <1>1, <1>6, <1>7, <1>10, <1>14, FloodGood DEF r, v
<1> QED BY <1>3, <1>15

LEMMA PollFloodsubGood ==
    ASSUME NEW s, NEW L, NEW P, Good(s, L, P, {}), NEW n \in Nodes, s.node[n].rpcs # <<>>
    PROVE  Good(PollFloodsub(s, n), L, P, {})
<1> DEFINE e == Head(s.node[n].rpcs)
           t == TakeRpc(s, n)
           X == MessagesOf(e.body)
<1>1. RpcOK(n, e) /\ Good(t, L, P, X)
  BY TakeRpcFacts, TakeRpcGood
<1>2. CASE e.type = "SendEvent"
  <2>1. PollFloodsub(s, n) = Put(t, n, e.peer, e.body)
    BY <1>2 DEF PollFloodsub, HandleEvent, TakeRpc
  <2>2. e.peer \in Others(n) /\ IsRpc(e.body)
    BY <1>1, <1>2 DEF RpcOK
  <2>3. \A x \in Messages : e.body = Rpc("Message", x) => x \in X
    BY DEF MessagesOf
  <2> HIDE DEF t, X, e
  <2>4. Good(Put(t, n, e.peer, e.body), L, P, X)
    BY <1>1, <2>2, <2>3, PutGood
  <2> QED BY <2>1, <2>4, GoodLess
<1>3. CASE e.type # "SendEvent"
  BY <1>1, <1>3, ConsumeGood DEF RpcOK
<1> QED BY <1>2, <1>3

-----------------------------------------------------------------------------
(* The gatekeeper is polled. *)

\* Floodsub lets a peer in or learns of a subscription.
LEMMA RemotesGood ==
    ASSUME NEW s, NEW L, NEW P, NEW X, Good(s, L, P, X), NEW n \in Nodes, NEW t, Shape(t),
           t.net = s.net, t.dialing = s.dialing, SameElsewhere(s, t, n),
           DOMAIN t.node[n] = Fields,
           \A f \in Fields \ {"remotes", "allowed", "subscribed", "ready"} :
              t.node[n][f] = s.node[n][f],
           RemotesOK(t.node[n], n)
    PROVE  Good(t, L, P, X)
<1> DEFINE r == s.node[n]
           q == t.node[n]
<1>1. /\ q.rpcs = r.rpcs /\ q.received = r.received /\ q.delivered = r.delivered
      /\ q.sent = r.sent
  BY DEF Fields
<1>2. SameGate(r, q)
  BY DEF SameGate, Fields
<1>3. FloodOK(q, n)
  BY <1>1 DEF Good, NodesOK, FloodOK, RpcsOK, CountsOK
<1>4. Calm(s, t, X)
  BY <1>1, SameQueues DEF SameElsewhere
<1>5. OnceOK(t, P, X)
  BY <1>4, CalmOK DEF Good, NodesOK, FloodOK
<1> QED BY <1>2, <1>3, <1>5, FloodGood

LEMMA IncomingGood ==
    ASSUME NEW s, NEW L, NEW P, NEW X, Good(s, L, P, X), NEW n \in Nodes, NEW m \in Others(n),
           m \in s.node[n].unlocked \cup s.node[n].desired
    PROVE  Good(enable_incoming(s, n, m), L, P, X)
           /\ enable_incoming(s, n, m).node[n].desired = s.node[n].desired
<1>1. CASE m \notin s.node[n].connected
  BY <1>1 DEF enable_incoming
<1>2. CASE m \in s.node[n].connected
  <2> DEFINE t == [s EXCEPT !.node[n].allowed = @ \cup {m}]
             r == s.node[n]
             q == t.node[n]
  <2>1. enable_incoming(s, n, m) = t
    BY <1>2 DEF enable_incoming
  <2>2. Shape(s) /\ DOMAIN r = Fields /\ RemotesOK(r, n)
    BY DEF Good, NodesOK, GateOK, FloodOK
  <2>3. /\ Shape(t) /\ t.net = s.net /\ t.dialing = s.dialing /\ SameElsewhere(s, t, n)
        /\ DOMAIN q = Fields /\ q.allowed = r.allowed \cup {m}
        /\ \A f \in Fields \ {"allowed"} : q[f] = r[f]
    BY <2>2 DEF Shape, Fields, SameElsewhere
  <2> HIDE DEF t
  <2>4. /\ q.remotes = r.remotes /\ q.connected = r.connected /\ q.unlocked = r.unlocked
        /\ q.desired = r.desired
    BY <2>3 DEF Fields
  <2>5. RemotesOK(q, n)
    BY <1>2, <2>2, <2>3, <2>4 DEF RemotesOK
  <2>6. Good(t, L, P, X)
    BY <2>3, <2>5, RemotesGood
  <2> QED BY <2>1, <2>4, <2>6
<1> QED BY <1>1, <1>2

LEMMA OutgoingGood ==
    ASSUME NEW s, NEW L, NEW P, Good(s, L, P, {}), NEW n \in Nodes, NEW m \in Others(n),
           m \in s.node[n].unlocked \cup s.node[n].desired
    PROVE  Good(enable_outgoing(s, n, m), L, P, {})
<1>1. CASE m \notin s.node[n].connected
  BY <1>1 DEF enable_outgoing
<1>2. CASE m \in s.node[n].connected
  <2> DEFINE v == IF s.node[n].remotes[m] = None THEN "Silent" ELSE s.node[n].remotes[m]
             t == [s EXCEPT !.node[n].remotes[m] = IF @ = None THEN "Silent" ELSE @,
                            !.node[n].allowed = @ \cup {m}]
             r == s.node[n]
             q == t.node[n]
             sub == Rpc("Subscribe", None)
  <2>1. enable_outgoing(s, n, m) \in {t, SendRpc(t, n, m, sub)}
    BY <1>2 DEF enable_outgoing
  <2>2. Shape(s) /\ DOMAIN r = Fields /\ RemotesOK(r, n) /\ m \in Nodes
    BY DEF Good, NodesOK, GateOK, FloodOK, Others
  <2>3. /\ Shape(t) /\ t.net = s.net /\ t.dialing = s.dialing /\ SameElsewhere(s, t, n)
        /\ DOMAIN q = Fields /\ q.allowed = r.allowed \cup {m}
        /\ q.remotes = [r.remotes EXCEPT ![m] = v]
        /\ \A f \in Fields \ {"allowed", "remotes"} : q[f] = r[f]
    BY <2>2 DEF Shape, Fields, SameElsewhere
  <2>4. v \in {"Silent", "Subscribed"}
    BY <2>2 DEF RemotesOK
  <2> HIDE DEF t, v
  <2>5. /\ q.connected = r.connected /\ q.unlocked = r.unlocked /\ q.desired = r.desired
    BY <2>3 DEF Fields
  <2>6. RemotesOK(q, n)
    BY <1>2, <2>2, <2>3, <2>4, <2>5 DEF RemotesOK
  <2>7. Good(t, L, P, {})
    BY <2>3, <2>6, RemotesGood
  <2>8. IsRpc(sub) /\ \A x \in Messages : sub # Rpc("Message", x)
    BY DEF IsRpc, Rpc
  <2>9. Sent(t, SendRpc(t, n, m, sub), n, {m}, sub)
    BY <2>7, GoodIsGateIn, SendRpcOK DEF Good, NodesOK, FloodOK, RpcsOK
  <2> HIDE DEF sub
  <2>10. Good(SendRpc(t, n, m, sub), L, P, {})
    BY <2>7, <2>8, <2>9, SentGood
  <2> QED BY <2>1, <2>7, <2>10
<1> QED BY <1>1, <1>2

\* What the gatekeeper has for the swarm.
LEMMA GateEventGood ==
    ASSUME NEW s, NEW L, NEW P, Good(s, L, P, {}), NEW n \in Nodes, NEW e,
           EventOK(s.node[n], n, e)
    PROVE  Good(HandleEvent(s, n, e), L, P, {})
<1> DEFINE m == e.peer
<1>1. CASE e.type = "SendEvent"
  <2>1. HandleEvent(s, n, e) = Put(s, n, m, e.body)
    BY <1>1 DEF HandleEvent
  <2>2. m \in Others(n) /\ IsMsg(e.body)
    BY <1>1 DEF EventOK
  <2>3. \A x \in Messages : e.body = Rpc("Message", x) => x \in {}
    BY <2>2, MsgIsNoRpc
  <2> QED BY <2>1, <2>2, <2>3, PutGood
<1>2. CASE e.type \in {"DialPeer", "DialAddress"}
  <2> DEFINE d == [from |-> n, to |-> m, how |-> e.type]
             t == [s EXCEPT !.dialing = @ \cup {d}]
  <2>1. HandleEvent(s, n, e) = t
    BY <1>2 DEF HandleEvent
  <2>2. d.from = n /\ d.to = m /\ m \in Others(n)
    BY <1>2 DEF EventOK
  <2> HIDE DEF d
  <2>3. Shape(t) /\ t.node = s.node /\ t.net = s.net /\ t.dialing = s.dialing \cup {d}
    BY DEF Good, Shape
  <2> HIDE DEF t
  <2>4. DialsOK(t)
    BY <2>2, <2>3 DEF Good, DialsOK
  <2>5. \A x \in Messages : x \in {} => InFlight(s, x, {})
    OBVIOUS
  <2>6. DOMAIN t.net \subseteq DOMAIN s.net
    BY <2>3
  <2> QED BY <2>1, <2>3, <2>4, <2>5, <2>6, LessMailGood
<1>3. CASE e.type = "PrepareListener"
  <2> DEFINE t == enable_incoming(s, n, m)
             u == Event("EnabledListener", m, None)
  <2>1. HandleEvent(s, n, e) = notify(t, n, u)
    BY <1>3 DEF HandleEvent
  <2>2. m \in Others(n) /\ m \in s.node[n].desired
    BY <1>3 DEF EventOK
  <2>3. Good(t, L, P, {})
    BY <2>2, IncomingGood
  <2> HIDE DEF t
  <2>4. UpdateOK(t.node[n], n, u)
    BY <2>2 DEF UpdateOK, Event
  <2>5. Gate(t, notify(t, n, u), n)
    BY <2>3, <2>4, GoodIsGateIn, NotifyOK
  <2> QED BY <2>1, <2>3, <2>5, GateGood
<1>4. CASE e.type = "PrepareDialer"
  <2> DEFINE t == enable_outgoing(s, n, m)
             u == Event("EnabledDialer", m, None)
  <2>1. HandleEvent(s, n, e) = notify(t, n, u)
    BY <1>4 DEF HandleEvent
  <2>2. m \in Others(n) /\ m \in s.node[n].unlocked
    BY <1>4 DEF EventOK
  <2>3. Good(t, L, P, {})
    BY <2>2, OutgoingGood
  <2> HIDE DEF t
  <2>4. UpdateOK(t.node[n], n, u)
    BY <2>2 DEF UpdateOK, Event
  <2>5. Gate(t, notify(t, n, u), n)
    BY <2>3, <2>4, GoodIsGateIn, NotifyOK
  <2> QED BY <2>1, <2>3, <2>5, GateGood
<1>5. CASE e.type = "Finished"
  <2>1. HandleEvent(s, n, e) = enable_outgoing(s, n, m)
    BY <1>5 DEF HandleEvent
  <2>2. m \in Others(n) /\ m \in s.node[n].unlocked
    BY <1>5 DEF EventOK
  <2> QED BY <2>1, <2>2, OutgoingGood
<1>6. CASE e.type = "NetworkReady"
  <2> DEFINE t == [s EXCEPT !.node[n].ready = @ \/ s.node[n].subscribed]
             r == s.node[n]
             q == t.node[n]
  <2>1. HandleEvent(s, n, e) = t
    BY <1>6 DEF HandleEvent
  <2>2. GateIn(s, n)
    BY GoodIsGateIn
  <2>3. /\ Shape(t) /\ t.net = s.net /\ t.dialing = s.dialing /\ SameElsewhere(s, t, n)
        /\ DOMAIN q = Fields /\ \A f \in Fields \ {"ready"} : q[f] = r[f]
    BY <2>2 DEF GateIn, Shape, GateOK, Fields, SameElsewhere
  <2> HIDE DEF t
  <2>4. Quiet(s, t, n) /\ HandshakesOK(q, n) /\ SolversOK(q, n)
    BY <2>2, <2>3 DEF Quiet, SameFlood, Fields, GateIn, GateOK, HandshakesOK, SolversOK
  <2>5. Gate(s, t, n)
    BY <2>2, <2>4, QuietOK
  <2> QED BY <2>1, <2>5, GateGood
<1> QED BY <1>1, <1>2, <1>3, <1>4, <1>5, <1>6 DEF EventOK

LEMMA PollGatekeeperGood ==
    ASSUME NEW s, NEW L, NEW P, Good(s, L, P, {}), NEW n \in Nodes
    PROVE  Good(PollGatekeeper(s, n), L, P, {})
<1> DEFINE a == StartSolver(s, n)
           t == TakeUpdate(a, n)
           u == Head(a.node[n].updates)
           b == IF a.node[n].updates = <<>> THEN a ELSE HandleUpdate(t, n, u)
           c == TakeEvent(b, n)
           e == Head(b.node[n].events)
<1>1. PollGatekeeper(s, n) = IF b.node[n].events = <<>> THEN b ELSE HandleEvent(c, n, e)
  BY DEF PollGatekeeper, TakeUpdate, TakeEvent
<1>2. Good(a, L, P, {})
  BY GoodIsGateIn, StartSolverOK, GateGood
<1> HIDE DEF a
<1>3. Good(b, L, P, {})
  <2>1. CASE a.node[n].updates = <<>>
    BY <1>2, <2>1
  <2>2. CASE a.node[n].updates # <<>>
    <3>1. Gate(a, t, n) /\ UpdateOK(t.node[n], n, u)
      BY <1>2, <2>2, GoodIsGateIn, TakeUpdateOK
    <3> HIDE DEF t, u
    <3>2. Gate(t, HandleUpdate(t, n, u), n)
      BY <3>1, HandleUpdateOK DEF Gate
    <3>3. Gate(a, HandleUpdate(t, n, u), n)
      BY <3>1, <3>2, GateTwice
    <3> QED BY <1>2, <2>2, <3>3, GateGood
  <2> QED BY <2>1, <2>2
<1> HIDE DEF b
<1>4. ASSUME b.node[n].events # <<>>
      PROVE  Good(HandleEvent(c, n, e), L, P, {})
  <2>1. Gate(b, c, n) /\ EventOK(c.node[n], n, e)
    BY <1>3, <1>4, GoodIsGateIn, TakeEventOK
  <2> HIDE DEF c, e
  <2>2. Good(c, L, P, {})
    BY <1>3, <2>1, GateGood
  <2> QED BY <2>1, <2>2, GateEventGood
<1> HIDE DEF c, e
<1> QED BY <1>1, <1>3, <1>4

LEMMA PollOnceGood ==
    ASSUME NEW s, NEW L, NEW P, Good(s, L, P, {}), NEW n \in Nodes
    PROVE  Good(PollOnce(s, n), L, P, {})
  BY PollFloodsubGood, PollGatekeeperGood DEF PollOnce

-----------------------------------------------------------------------------
(* A turn of the swarm: PollOnce, again and again. *)

IsTurn(h, k, s, n) ==
    /\ DOMAIN h = 0 .. k /\ h[0] = s
    /\ \A i \in 1 .. k : h[i] = PollOnce(h[i - 1], n)

LEMMA TurnExists ==
    ASSUME NEW s, NEW n, NEW k \in Nat
    PROVE  \E h : IsTurn(h, k, s, n)
<1> DEFINE T == {i \in Nat : \E h : IsTurn(h, i, s, n)}
<1>1. 0 \in T
  <2> DEFINE h == [i \in 0 .. 0 |-> s]
  <2>1. IsTurn(h, 0, s, n)
    BY DEF IsTurn
  <2> QED BY <2>1
<1>2. ASSUME NEW i \in T PROVE i + 1 \in T
  <2>1. PICK h : IsTurn(h, i, s, n)
    OBVIOUS
  <2> DEFINE g == [j \in 0 .. i + 1 |-> IF j = i + 1 THEN PollOnce(h[i], n) ELSE h[j]]
  <2>2. DOMAIN g = 0 .. i + 1 /\ g[0] = s
    BY <2>1 DEF IsTurn
  <2>3. ASSUME NEW j \in 1 .. i + 1 PROVE g[j] = PollOnce(g[j - 1], n)
    <3>1. CASE j = i + 1
      BY <3>1
    <3>2. CASE j # i + 1
      <4>1. j \in 1 .. i /\ j - 1 \in 0 .. i + 1 /\ j - 1 # i + 1
        BY <3>2
      <4>2. g[j] = h[j] /\ g[j - 1] = h[j - 1]
        BY <4>1
      <4> QED BY <2>1, <4>1, <4>2 DEF IsTurn
    <3> QED BY <3>1, <3>2
  <2> HIDE DEF g
  <2>4. IsTurn(g, i + 1, s, n)
    BY <2>2, <2>3 DEF IsTurn
  <2> QED BY <2>4
<1> HIDE DEF T
<1>3. \A i \in Nat : i \in T
  BY <1>1, <1>2, NumberInduction
<1> QED BY <1>3 DEF T

IsPolling(g, s, n, k) ==
    g = [x \in SUBSET (1 .. k) |-> IF x = {} THEN s ELSE PollOnce(g[x \ {Max(x)}], n)]

LEMMA TurnIsFold ==
    ASSUME NEW s, NEW n
    PROVE  Turn(s, n) = (CHOOSE g : IsPolling(g, s, n, MaxPolls))[1 .. MaxPolls]
<1>1. DOMAIN [i \in 1 .. MaxPolls |-> i] = 1 .. MaxPolls
  OBVIOUS
<1> QED BY <1>1 DEF Turn, FoldLeft, MapThenFoldSet, IsPolling

LEMMA TurnGood ==
    ASSUME NEW s, NEW L, NEW P, Good(s, L, P, {}), NEW n \in Nodes
    PROVE  Good(Turn(s, n), L, P, {})
<1> DEFINE k == MaxPolls
<1>0. k \in Nat
  BY OverlayAssumption
<1> HIDE DEF k
<1>1. PICK h : IsTurn(h, k, s, n)
  BY <1>0, TurnExists
<1> DEFINE I == 1 .. k
           f == [x \in SUBSET I |-> h[Cardinality(x)]]
           g == CHOOSE w : IsPolling(w, s, n, k)
<1>2. IsFiniteSet(I) /\ Cardinality(I) = k
  BY <1>0, FS_Interval
<1>3. \A x \in SUBSET I : x # {} => Max(x) \in x
  BY <1>0, MaxIsThere
<1>4. IsPolling(f, s, n, k)
  <2>1. ASSUME NEW x \in SUBSET I
        PROVE  f[x] = IF x = {} THEN s ELSE PollOnce(f[x \ {Max(x)}], n)
    <3>1. CASE x = {}
      BY <1>0, <1>1, <3>1, FS_EmptySet DEF IsTurn
    <3>2. CASE x # {}
      <4>1. Max(x) \in x /\ x \ {Max(x)} \in SUBSET I
        BY <1>3, <3>2
      <4>2. IsFiniteSet(x) /\ Cardinality(x) \in Nat /\ Cardinality(x) <= k
        BY <1>0, <1>2, FS_Subset, FS_CardinalityType
      <4>3. Cardinality(x \ {Max(x)}) = Cardinality(x) - 1 /\ Cardinality(x) # 0
        BY <4>1, <4>2, FS_RemoveElement, FS_EmptySet
      <4>4. Cardinality(x) \in 1 .. k
        BY <1>0, <4>2, <4>3
      <4>5. h[Cardinality(x)] = PollOnce(h[Cardinality(x) - 1], n)
        BY <1>1, <4>4 DEF IsTurn
      <4> QED BY <3>2, <4>1, <4>3, <4>5
    <3> QED BY <3>1, <3>2
  <2>2. f = [x \in SUBSET I |-> f[x]]
    OBVIOUS
  <2> HIDE DEF f
  <2>3. f = [x \in SUBSET I |-> IF x = {} THEN s ELSE PollOnce(f[x \ {Max(x)}], n)]
    BY <2>1, <2>2
  <2> QED BY <2>3 DEF IsPolling
<1>5. IsPolling(g, s, n, k)
  BY <1>4
<1> HIDE DEF f, g
<1>6. \A x \in SUBSET I : g[x] = IF x = {} THEN s ELSE PollOnce(g[x \ {Max(x)}], n)
  BY <1>5 DEF IsPolling
<1> DEFINE G == {x \in SUBSET I : Good(g[x], L, P, {})}
<1> HIDE DEF I
<1>7. SUBSET I \subseteq G
  <2>1. {} \in G
    BY <1>6
  <2>2. ASSUME NEW x \in SUBSET I, x # {}, \A y \in x : x \ {y} \in G
        PROVE  x \in G
    <3>1. Max(x) \in x
      BY <1>3, <2>2
    <3>2. Good(g[x \ {Max(x)}], L, P, {})
      BY <2>2, <3>1
    <3>3. g[x] = PollOnce(g[x \ {Max(x)}], n)
      BY <1>6, <2>2
    <3> QED BY <3>2, <3>3, PollOnceGood
  <2> HIDE DEF G
  <2> QED BY <1>2, <2>1, <2>2, SetInduction
<1>8. Good(g[I], L, P, {})
  BY <1>7
<1> QED BY <1>8, TurnIsFold DEF g, I, k

-----------------------------------------------------------------------------
(* A message comes in. *)

\* The message x is queued for the consumers.
LEMMA DispatchFacts ==
    ASSUME NEW n, NEW r, NEW q, RpcsOK(r, n), NEW x \in Messages,
           q.rpcs = Append(r.rpcs, Event("Message", n, Rpc("Message", x)))
    PROVE  /\ RpcsOK(q, n)
           /\ \A y \in Messages : Queued(q, y) => Queued(r, y) \/ y = x
           /\ \A y \in Messages : y # x => /\ IsPending(q, y) => IsPending(r, y)
                                           /\ PendingOnce(r, y) => PendingOnce(q, y)
           /\ ~IsPending(r, x) => PendingOnce(q, x)
<1> DEFINE e == Event("Message", n, Rpc("Message", x))
           k == Len(r.rpcs)
<1>1. e.type = "Message" /\ e.body = Rpc("Message", x) /\ q.rpcs = Append(r.rpcs, e)
  BY DEF Event
<1>2. \A y : Rpc("Message", y) = Rpc("Message", x) => y = x
  BY DEF Rpc
<1> HIDE DEF e
<1>3. /\ IsList(q.rpcs) /\ k \in Nat /\ Len(q.rpcs) = k + 1
      /\ \A i \in 1 .. k : q.rpcs[i] = r.rpcs[i]
      /\ q.rpcs[k + 1] = e
  BY <1>1, AppendList DEF RpcsOK
<1>4. \A i \in 1 .. Len(q.rpcs) : (i \in 1 .. k /\ q.rpcs[i] = r.rpcs[i]) \/ i = k + 1
  BY <1>3
<1>5. RpcsOK(q, n)
  <2>1. RpcOK(n, e)
    BY <1>1 DEF RpcOK
  <2> QED BY <1>3, <1>4, <2>1 DEF RpcsOK
<1>6. \A y \in Messages : Queued(q, y) => Queued(r, y) \/ y = x
  BY <1>1, <1>2, <1>3, <1>4 DEF Queued
<1>7. \A y, i : i \in 1 .. Len(q.rpcs) /\ PendingAt(q, y, i)
                   => (i \in 1 .. k /\ PendingAt(r, y, i)) \/ (y = x /\ i = k + 1)
  BY <1>1, <1>2, <1>3, <1>4 DEF PendingAt
<1>8. \A y \in Messages : y # x => (IsPending(q, y) => IsPending(r, y))
  BY <1>7 DEF IsPending
<1>9. \A y \in Messages : y # x => (PendingOnce(r, y) => PendingOnce(q, y))
  BY <1>7 DEF PendingOnce
<1>10. ~IsPending(r, x) => PendingOnce(q, x)
  BY <1>7 DEF IsPending, PendingOnce
<1> QED BY <1>5, <1>6, <1>8, <1>9, <1>10

\* The node n remembers the news x, and dispatches it or not.
LEMMA SeenGood ==
    ASSUME NEW s, NEW L, NEW P, NEW x \in Messages, Good(s, L, P, {x}), NEW n \in Nodes, NEW t,
           Shape(t), t.net = s.net, t.dialing = s.dialing, SameElsewhere(s, t, n),
           DOMAIN t.node[n] = Fields, x \notin s.node[n].received,
           t.node[n].received = s.node[n].received \cup {x},
           \A f \in Fields \ {"received", "rpcs"} : t.node[n][f] = s.node[n][f],
           \/ t.node[n].rpcs = s.node[n].rpcs
           \/ t.node[n].rpcs = Append(s.node[n].rpcs, Event("Message", n, Rpc("Message", x)))
    PROVE  Good(t, L, P, {x})
<1> DEFINE r == s.node[n]
           q == t.node[n]
           Quietly == q.rpcs = r.rpcs
<1>1. /\ q.remotes = r.remotes /\ q.allowed = r.allowed /\ q.connected = r.connected
      /\ q.unlocked = r.unlocked /\ q.desired = r.desired
      /\ q.delivered = r.delivered /\ q.sent = r.sent
  BY DEF Fields
<1>2. SameGate(r, q)
  BY DEF SameGate, Fields
<1>3. FloodOK(r, n)
  BY DEF Good, NodesOK
<1>4. \/ Quietly
      \/ q.rpcs = Append(r.rpcs, Event("Message", n, Rpc("Message", x)))
  OBVIOUS
<1>5. q.received = r.received \cup {x} /\ x \notin r.received
  OBVIOUS
<1>6. \A y \in Messages : Once(r, y, P[y], InFlight(s, y, {x})) /\ P[y] \in Nat
  BY DEF Good, OnceOK
<1> HIDE DEF r, q
<1>7. /\ RpcsOK(q, n)
      /\ \A y \in Messages : Queued(q, y) => Queued(r, y) \/ y = x
      /\ \A y \in Messages : y # x => /\ IsPending(q, y) => IsPending(r, y)
                                      /\ PendingOnce(r, y) => PendingOnce(q, y)
      /\ ~IsPending(r, x) => PendingOnce(q, x)
  <2>1. CASE Quietly
    <3>1. RpcsOK(q, n)
      BY <1>3, <2>1 DEF FloodOK, RpcsOK
    <3>2. \A y : /\ Queued(q, y) <=> Queued(r, y)
                 /\ IsPending(q, y) <=> IsPending(r, y)
                 /\ PendingOnce(q, y) <=> PendingOnce(r, y)
      BY <2>1, SameRpcs
    <3>3. PendingOnce(r, x)
      BY <1>6 DEF Once
    <3> QED BY <3>1, <3>2, <3>3
  <2>2. CASE ~Quietly
    BY <1>3, <1>4, <2>2, DispatchFacts DEF FloodOK
  <2> QED BY <2>1, <2>2
<1>8. FloodOK(q, n)
  BY <1>1, <1>3, <1>5, <1>7 DEF FloodOK, RemotesOK, CountsOK
<1>9. \A y \in Messages : InFlight(t, y, {x}) => InFlight(s, y, {x})
  BY <1>7 DEF InFlight, SameElsewhere, r, q
<1>10. ASSUME NEW y \in Messages PROVE Once(q, y, P[y], InFlight(t, y, {x}))
  <2>1. r.delivered[y] \in Nat /\ r.sent[y] \in Nat
    BY <1>3 DEF FloodOK, CountsOK
  <2>2. CASE y = x
    <3>1. InFlight(s, x, {x})
      BY DEF InFlight
    <3>2. ~IsPending(r, x) /\ r.delivered[x] + r.sent[x] < P[x]
      BY <1>5, <1>6, <3>1 DEF Once
    <3>3. PendingOnce(q, x)
      BY <1>7, <3>2
    <3> QED BY <1>1, <1>5, <1>6, <2>1, <2>2, <3>2, <3>3 DEF Once
  <2>3. CASE y # x
    <3>1. /\ IsPending(q, y) => IsPending(r, y)
          /\ PendingOnce(r, y) => PendingOnce(q, y)
          /\ y \in q.received <=> y \in r.received
      BY <1>5, <1>7, <2>3
    <3>2. Once(r, y, P[y], InFlight(s, y, {x})) /\ P[y] \in Nat
      BY <1>6
    <3>3. InFlight(t, y, {x}) => InFlight(s, y, {x})
      BY <1>9
    <3> QED BY <1>1, <2>1, <3>1, <3>2, <3>3 DEF Once
  <2> QED BY <2>2, <2>3
<1>11. OnceOK(t, P, {x})
  <2>1. ASSUME NEW k \in Nodes, NEW y \in Messages, k # n
        PROVE  Once(t.node[k], y, P[y], InFlight(t, y, {x}))
    <3>1. t.node[k] = s.node[k]
      BY <2>1 DEF SameElsewhere
    <3>2. Once(s.node[k], y, P[y], InFlight(s, y, {x}))
      BY DEF Good, OnceOK
    <3> QED BY <1>9, <3>1, <3>2 DEF Once
  <2> QED BY <1>9, <1>10, <2>1 DEF Good, OnceOK, q
<1> QED BY <1>2, <1>8, <1>11, FloodGood DEF r, q

LEMMA KnownAreOthers ==
    ASSUME NEW s, NEW L, NEW P, NEW X, Good(s, L, P, X), NEW n \in Nodes
    PROVE  /\ Remotes(s, n) \subseteq Others(n) /\ Subscribers(s, n) \subseteq Others(n)
           /\ IsFiniteSet(Others(n))
<1>1. IsFiniteSet(Others(n))
  BY OverlayAssumption, FS_Subset DEF Others
<1>2. RemotesOK(s.node[n], n) /\ HandshakesOK(s.node[n], n)
  BY DEF Good, NodesOK, FloodOK, GateOK
<1> QED BY <1>1, <1>2 DEF RemotesOK, HandshakesOK, Remotes, Subscribers, None

\* Floodsub sends something to some of its peers.
LEMMA SendRpcsGood ==
    ASSUME NEW s, NEW L, NEW P, NEW X, Good(s, L, P, X), NEW n \in Nodes, NEW S,
           S \subseteq Others(n), NEW rpc, IsRpc(rpc),
           \A x \in Messages : rpc = Rpc("Message", x) => x \in X
    PROVE  Good(SendRpcs(s, n, S, rpc), L, P, X) /\ Sent(s, SendRpcs(s, n, S, rpc), n, S, rpc)
<1>1. IsFiniteSet(S)
  BY KnownAreOthers, FS_Subset
<1>2. Sent(s, SendRpcs(s, n, S, rpc), n, S, rpc)
  BY <1>1, GoodIsGateIn, SendRpcsOK DEF Good, NodesOK, FloodOK, RpcsOK
<1> QED BY <1>2, SentGood

LEMMA HandleRpcGood ==
    ASSUME NEW s, NEW L, NEW P, NEW n \in Nodes, NEW m \in Others(n), NEW rpc, IsRpc(rpc),
           Good(s, L, P, MessagesOf(rpc))
    PROVE  Good(HandleRpc(s, n, m, rpc), L, P, {})
<1> DEFINE X == MessagesOf(rpc)
           x == rpc.message
           r == s.node[n]
           seen == [s EXCEPT !.node[n].received = @ \cup {x}]
           sent == [seen EXCEPT !.node[n].rpcs = Append(@, Event("Message", n, rpc))]
           dispatched == IF s.node[n].subscribed THEN sent ELSE seen
<1>1. Good(s, L, P, {})
  BY GoodLess
<1>2. Shape(s) /\ DOMAIN r = Fields /\ RemotesOK(r, n) /\ m \in Nodes
  BY DEF Good, NodesOK, GateOK, FloodOK, Others
<1>3. CASE m \notin r.allowed \/ (rpc.type # "Subscribe" /\ x \in r.received)
  BY <1>1, <1>3 DEF HandleRpc
<1>4. CASE m \in r.allowed /\ rpc.type = "Subscribe"
  <2> DEFINE t == [s EXCEPT !.node[n].remotes[m] = "Subscribed"]
             q == t.node[n]
  <2>1. HandleRpc(s, n, m, rpc) = t
    BY <1>4 DEF HandleRpc
  <2>2. /\ Shape(t) /\ t.net = s.net /\ t.dialing = s.dialing /\ SameElsewhere(s, t, n)
        /\ DOMAIN q = Fields /\ q.remotes = [r.remotes EXCEPT ![m] = "Subscribed"]
        /\ \A f \in Fields \ {"remotes"} : q[f] = r[f]
    BY <1>2 DEF Shape, Fields, SameElsewhere
  <2> HIDE DEF t
  <2>3. /\ q.allowed = r.allowed /\ q.connected = r.connected /\ q.unlocked = r.unlocked
        /\ q.desired = r.desired
    BY <2>2 DEF Fields
  <2>4. RemotesOK(q, n)
    BY <1>2, <1>4, <2>2, <2>3 DEF RemotesOK
  <2> QED BY <1>1, <2>1, <2>2, <2>4, RemotesGood
<1>5. CASE m \in r.allowed /\ rpc.type # "Subscribe" /\ x \notin r.received
  <2>1. x \in Messages /\ rpc = Rpc("Message", x) /\ X = {x}
    BY <1>5 DEF IsRpc, Rpc, MessagesOf
  <2>2. Good(s, L, P, {x})
    BY <2>1
  <2>3. HandleRpc(s, n, m, rpc)
          \in {dispatched, SendRpcs(dispatched, n, Subscribers(s, n) \ {m}, rpc)}
    BY <1>5 DEF HandleRpc
  <2>4. Good(dispatched, L, P, {x})
    <3>1. /\ Shape(seen) /\ seen.net = s.net /\ seen.dialing = s.dialing
          /\ SameElsewhere(s, seen, n) /\ DOMAIN seen.node[n] = Fields
          /\ seen.node[n].received = r.received \cup {x}
          /\ \A f \in Fields \ {"received"} : seen.node[n][f] = r[f]
      BY <1>2 DEF Shape, Fields, SameElsewhere
    <3>2. /\ Shape(sent) /\ sent.net = s.net /\ sent.dialing = s.dialing
          /\ SameElsewhere(s, sent, n) /\ DOMAIN sent.node[n] = Fields
          /\ sent.node[n].received = r.received \cup {x}
          /\ sent.node[n].rpcs = Append(r.rpcs, Event("Message", n, rpc))
          /\ \A f \in Fields \ {"received", "rpcs"} : sent.node[n][f] = r[f]
      <4> HIDE DEF seen, x
      <4> DEFINE new == Append(seen.node[n].rpcs, Event("Message", n, rpc))
      <4>1. seen.node[n].rpcs = r.rpcs
        BY <3>1 DEF Fields
      <4>2. /\ Shape(sent) /\ sent.net = seen.net /\ sent.dialing = seen.dialing
            /\ SameElsewhere(seen, sent, n) /\ DOMAIN sent.node[n] = Fields
            /\ sent.node[n].rpcs = new
            /\ \A f \in Fields \ {"rpcs"} : sent.node[n][f] = seen.node[n][f]
        <5> HIDE DEF r
        <5> QED BY <3>1 DEF Shape, Fields, SameElsewhere
      <4> HIDE DEF sent
      <4> QED BY <3>1, <4>1, <4>2 DEF Fields, SameElsewhere
    <3> HIDE DEF seen, sent, x
    <3>3. seen.node[n].rpcs = r.rpcs
      BY <3>1 DEF Fields
    <3>4. Good(seen, L, P, {x})
      BY <1>5, <2>1, <2>2, <3>1, <3>3, SeenGood
    <3>5. Good(sent, L, P, {x})
      BY <1>5, <2>1, <2>2, <3>2, SeenGood
    <3> QED BY <3>4, <3>5
  <2> HIDE DEF dispatched, x
  <2>5. Subscribers(s, n) \ {m} \subseteq Others(n)
    BY KnownAreOthers
  <2>6. \A y \in Messages : rpc = Rpc("Message", y) => y \in {x}
    BY <2>1 DEF Rpc
  <2>7. Good(SendRpcs(dispatched, n, Subscribers(s, n) \ {m}, rpc), L, P, {x})
    BY <2>4, <2>5, <2>6, SendRpcsGood
  <2> QED BY <2>3, <2>4, <2>7, GoodLess
<1> QED BY <1>3, <1>4, <1>5

LEMMA HandleNetworkGood ==
    ASSUME NEW s, NEW L, NEW P, NEW n \in Nodes, NEW m \in Others(n), NEW b,
           IsMsg(b) \/ IsRpc(b), Good(s, L, P, MessagesOf(b))
    PROVE  Good(HandleNetwork(s, n, m, b), L, P, {})
<1>1. CASE "proof" \in DOMAIN b
  <2>1. IsMsg(b)
    BY <1>1 DEF IsRpc, Rpc
  <2>2. Gate(s, HandleMessage(s, n, m, b), n)
    BY <2>1, GoodIsGateIn, HandleMessageOK
  <2> QED BY <1>1, <2>2, GateGood, GoodLess DEF HandleNetwork
<1>2. CASE "proof" \notin DOMAIN b
  BY <1>2, HandleRpcGood DEF HandleNetwork, IsMsg
<1> QED BY <1>1, <1>2

-----------------------------------------------------------------------------
(* Connections come and go. *)

\* The end n of a connection has come, or may have been there before.
LEMMA JoinGood ==
    ASSUME NEW s, NEW L, NEW P, NEW X, Good(s, L, P, X), NEW n \in Nodes, NEW t, Shape(t),
           t.net = s.net, t.dialing = s.dialing, SameElsewhere(s, t, n), GateOK(t.node[n], n),
           \A f \in Fields \ {"connected", "desired"} : t.node[n][f] = s.node[n][f],
           s.node[n].connected \subseteq t.node[n].connected,
           s.node[n].desired \subseteq t.node[n].desired,
           NEW K, LinksOK(t, K)
    PROVE  Good(t, K, P, X)
<1> DEFINE r == s.node[n]
           q == t.node[n]
<1>1. /\ q.rpcs = r.rpcs /\ q.received = r.received /\ q.delivered = r.delivered
      /\ q.sent = r.sent /\ q.remotes = r.remotes /\ q.allowed = r.allowed
      /\ q.unlocked = r.unlocked
  BY DEF Fields
<1>2. FloodOK(r, n)
  BY DEF Good, NodesOK
<1>3. r.connected \subseteq q.connected /\ r.desired \subseteq q.desired
  OBVIOUS
<1>4. FloodOK(q, n)
  <2> HIDE DEF r, q
  <2>1. RemotesOK(q, n)
    BY <1>1, <1>2, <1>3 DEF FloodOK, RemotesOK
  <2>2. RpcsOK(q, n) /\ CountsOK(q)
    BY <1>1, <1>2 DEF FloodOK, RpcsOK, CountsOK
  <2> QED BY <2>1, <2>2 DEF FloodOK
<1>5. NodesOK(t)
  BY <1>4 DEF Good, NodesOK, SameElsewhere
<1>6. Calm(s, t, X)
  BY <1>1, SameQueues DEF SameElsewhere
<1>7. OnceOK(t, P, X)
  BY <1>6, CalmOK DEF Good, NodesOK, FloodOK
<1>8. \A k \in Nodes : s.node[k].connected \subseteq t.node[k].connected
  BY <1>3 DEF SameElsewhere
<1>9. MailOK(t)
  <2> SUFFICES ASSUME NEW e \in DOMAIN t.net
               PROVE  /\ e.from \in Nodes /\ e.to \in Nodes /\ (IsMsg(e.msg) \/ IsRpc(e.msg))
                      /\ e.to \in t.node[e.from].connected /\ e.from \in t.node[e.to].connected
    BY DEF MailOK
  <2>1. /\ e.from \in Nodes /\ e.to \in Nodes /\ (IsMsg(e.msg) \/ IsRpc(e.msg))
        /\ e.to \in s.node[e.from].connected /\ e.from \in s.node[e.to].connected
    BY DEF Good, MailOK
  <2> QED BY <1>8, <2>1
<1>10. DialsOK(t)
  BY DEF Good, DialsOK
<1> QED BY <1>5, <1>7, <1>9, <1>10 DEF Good

LEMMA GatekeeperConnectedGood ==
    ASSUME NEW s, NEW L, NEW P, Good(s, L, P, {}), NEW n \in Nodes, NEW m \in Others(n),
           NEW dialer, NEW K, DOMAIN K = Nodes, \A k \in Nodes : DOMAIN K[k] = Nodes,
           \A i, j \in Nodes :
              /\ K[i][j] \in {Nobody, i, j}
              /\ K[i][j] # Nobody <=> (j \in s.node[i].connected \/ (i = n /\ j = m))
              /\ K[i][j] # Nobody /\ K[j][i] # Nobody => K[i][j] = K[j][i]
    PROVE  LET t == GatekeeperConnected(s, n, m, n = dialer)
           IN  /\ Good(t, K, P, {}) /\ SameElsewhere(s, t, n)
               /\ t.node[n].connected = s.node[n].connected \cup {m}
<1> DEFINE r == s.node[n]
           wanted == m \in r.desired \/ ((n = dialer) /\ <<n, m>> \in Seeds)
           want == IF wanted THEN r.desired \cup {m} ELSE r.desired
           t == [s EXCEPT !.node[n].connected = @ \cup {m},
                          !.node[n].desired = IF wanted THEN @ \cup {m} ELSE @]
           q == t.node[n]
           u == SetOut(t, n, m, "Connected")
           e == Event("Connected", m, None)
<1>1. GatekeeperConnected(s, n, m, n = dialer) = IF wanted THEN notify(u, n, e) ELSE t
  BY DEF GatekeeperConnected, SetOut
<1>2. GateIn(s, n)
  BY GoodIsGateIn
<1>3. /\ Shape(t) /\ t.net = s.net /\ t.dialing = s.dialing /\ SameElsewhere(s, t, n)
      /\ DOMAIN q = Fields /\ q.connected = r.connected \cup {m} /\ q.desired = want
      /\ \A f \in Fields \ {"connected", "desired"} : q[f] = r[f]
  <2> HIDE DEF wanted
  <2> QED BY <1>2 DEF GateIn, Shape, GateOK, Fields, SameElsewhere
<1>4. want \subseteq Others(n) /\ r.desired \subseteq want /\ (wanted => m \in want)
  BY <1>2 DEF GateIn, GateOK, HandshakesOK
<1> HIDE DEF t, want, wanted
<1>5. GateOK(q, n)
  <2>1. /\ q.unlocked = r.unlocked /\ q.out = r.out /\ q.in = r.in /\ q.updates = r.updates
        /\ q.events = r.events /\ q.queue = r.queue /\ q.solvers = r.solvers /\ q.threads = r.threads
    BY <1>3 DEF Fields
  <2>2. GateOK(r, n)
    BY <1>2 DEF GateIn
  <2>3. HandshakesOK(q, n)
    BY <1>3, <1>4, <2>1, <2>2 DEF GateOK, HandshakesOK
  <2>4. UpdatesOK(q, n)
    BY <1>3, <1>4, <2>1, <2>2 DEF GateOK, UpdatesOK, UpdateOK
  <2>5. EventsOK(q, n)
    BY <1>3, <1>4, <2>1, <2>2 DEF GateOK, EventsOK, EventOK
  <2>6. SolversOK(q, n)
    BY <2>1, <2>2 DEF GateOK, SolversOK
  <2> QED BY <1>3, <2>3, <2>4, <2>5, <2>6 DEF GateOK
<1>6. LinksOK(t, K)
  <2>1. \A i, j \in Nodes :
          j \in t.node[i].connected <=> (j \in s.node[i].connected \/ (i = n /\ j = m))
    BY <1>3 DEF SameElsewhere
  <2> QED BY <2>1 DEF LinksOK
<1>7. Good(t, K, P, {})
  BY <1>3, <1>4, <1>5, <1>6, JoinGood
<1>8. Gate(t, u, n)
  BY <1>7, GoodIsGateIn, SetOutOK DEF DialerPeerState
<1> HIDE DEF u
<1>9. ASSUME wanted PROVE Gate(t, notify(u, n, e), n)
  <2>1. UpdateOK(u.node[n], n, e)
    BY <1>3, <1>4, <1>8, <1>9 DEF UpdateOK, Event, Gate, SameFlood
  <2> HIDE DEF e
  <2>2. Gate(u, notify(u, n, e), n)
    BY <1>8, <2>1, NotifyOK DEF Gate
  <2> QED BY <1>8, <2>2, GateTwice
<1> HIDE DEF e
<1>10. ASSUME wanted
       PROVE  /\ Good(notify(u, n, e), K, P, {}) /\ SameElsewhere(s, notify(u, n, e), n)
              /\ notify(u, n, e).node[n].connected = r.connected \cup {m}
  <2> DEFINE v == notify(u, n, e)
  <2>1. Gate(t, v, n)
    BY <1>9, <1>10
  <2> HIDE DEF v
  <2>2. Good(v, K, P, {})
    BY <1>7, <2>1, GateGood
  <2>3. SameElsewhere(s, v, n) /\ v.node[n].connected = r.connected \cup {m}
    BY <1>3, <2>1 DEF Gate, SameElsewhere, SameFlood
  <2> QED BY <2>2, <2>3 DEF v
<1> QED BY <1>1, <1>3, <1>7, <1>10

\* Floodsub forgets a peer.
LEMMA FloodsubDisconnectedGood ==
    ASSUME NEW s, NEW L, NEW P, Good(s, L, P, {}), NEW n \in Nodes, NEW m \in Others(n)
    PROVE  LET t == FloodsubDisconnected(s, n, m)
           IN  /\ Good(t, L, P, {}) /\ SameElsewhere(s, t, n)
               /\ t.net = s.net /\ t.dialing = s.dialing
               /\ m \notin t.node[n].allowed /\ t.node[n].remotes[m] = None
               /\ \A f \in Fields \ {"remotes", "allowed"} : t.node[n][f] = s.node[n][f]
<1> DEFINE t == FloodsubDisconnected(s, n, m)
           r == s.node[n]
           q == t.node[n]
<1>1. Shape(s) /\ DOMAIN r = Fields /\ RemotesOK(r, n) /\ m \in Nodes
  BY DEF Good, NodesOK, GateOK, FloodOK, Others
<1>2. /\ Shape(t) /\ t.net = s.net /\ t.dialing = s.dialing /\ SameElsewhere(s, t, n)
      /\ DOMAIN q = Fields /\ q.remotes = [r.remotes EXCEPT ![m] = None]
      /\ q.allowed = r.allowed \ {m}
      /\ \A f \in Fields \ {"remotes", "allowed"} : q[f] = r[f]
  BY <1>1 DEF Shape, Fields, SameElsewhere, FloodsubDisconnected
<1> HIDE DEF t
<1>3. q.connected = r.connected /\ q.unlocked = r.unlocked /\ q.desired = r.desired
  BY <1>2 DEF Fields
<1>4. RemotesOK(q, n) /\ q.remotes[m] = None
  BY <1>1, <1>2, <1>3 DEF RemotesOK
<1>5. Good(t, L, P, {})
  BY <1>2, <1>4, RemotesGood
<1> QED BY <1>2, <1>4, <1>5 DEF t

NoMail(s, n, m) == \A e \in DOMAIN s.net : {e.from, e.to} # {n, m}

\* The end n of its connection with m is told that it is lost.
LEMMA DisconnectedGood ==
    ASSUME NEW s, NEW L, NEW P, Good(s, L, P, {}), NEW n \in Nodes, NEW m \in Others(n),
           NoMail(s, n, m), NEW dialed
    PROVE  Good(FloodsubDisconnected(GatekeeperDisconnected(s, n, m, dialed), n, m),
                [L EXCEPT ![n][m] = Nobody], P, {})
<1> DEFINE f == FloodsubDisconnected(s, n, m)
           g == GatekeeperDisconnected(s, n, m, dialed)
           t == FloodsubDisconnected(g, n, m)
           K == [L EXCEPT ![n][m] = Nobody]
           e == Event("DialAddress", m, None)
           r == f.node[n]
           q == t.node[n]
           p == s.node[n]
           h == [s EXCEPT !.node[n].connected = @ \ {m},
                          !.node[n].out[m] = None, !.node[n].in[m] = None]
<1>1. /\ Good(f, L, P, {}) /\ SameElsewhere(s, f, n) /\ f.net = s.net /\ f.dialing = s.dialing
      /\ m \notin r.allowed /\ r.remotes[m] = None
      /\ \A c \in Fields \ {"remotes", "allowed"} : r[c] = p[c]
  BY FloodsubDisconnectedGood
<1>2. Shape(s) /\ DOMAIN p = Fields /\ RemotesOK(p, n) /\ HandshakesOK(p, n) /\ m \in Nodes
  BY DEF Good, NodesOK, GateOK, FloodOK, Others
<1>3. /\ Shape(h) /\ h.net = s.net /\ h.dialing = s.dialing /\ SameElsewhere(s, h, n)
      /\ DOMAIN h.node[n] = Fields /\ h.node[n].connected = p.connected \ {m}
      /\ h.node[n].out = [p.out EXCEPT ![m] = None] /\ h.node[n].in = [p.in EXCEPT ![m] = None]
      /\ \A c \in Fields \ {"connected", "out", "in"} : h.node[n][c] = p[c]
  BY <1>2 DEF Shape, Fields, SameElsewhere
<1>4. g \in {h, Emit(h, n, e)}
  BY DEF GatekeeperDisconnected
<1> HIDE DEF h, e
<1>5. /\ Shape(g) /\ g.net = s.net /\ g.dialing = s.dialing /\ SameElsewhere(s, g, n)
      /\ DOMAIN g.node[n] = Fields /\ g.node[n].connected = p.connected \ {m}
      /\ g.node[n].out = [p.out EXCEPT ![m] = None] /\ g.node[n].in = [p.in EXCEPT ![m] = None]
      /\ g.node[n].events \in {p.events, Append(p.events, e)}
      /\ \A c \in Fields \ {"connected", "out", "in", "events"} : g.node[n][c] = p[c]
  <2>1. CASE g = h
    <3>1. h.node[n].events = p.events
      BY <1>3 DEF Fields
    <3> QED BY <1>3, <2>1, <3>1
  <2>2. CASE g = Emit(h, n, e)
    <3> DEFINE k == Emit(h, n, e)
    <3>1. h.node[n].events = p.events
      BY <1>3 DEF Fields
    <3>2. /\ Shape(k) /\ k.net = h.net /\ k.dialing = h.dialing /\ SameElsewhere(h, k, n)
          /\ DOMAIN k.node[n] = Fields /\ k.node[n].events = Append(p.events, e)
          /\ \A c \in Fields \ {"events"} : k.node[n][c] = h.node[n][c]
      BY <1>3, <3>1 DEF Shape, Fields, SameElsewhere, Emit
    <3> HIDE DEF k
    <3>3. /\ k.node[n].connected = h.node[n].connected /\ k.node[n].out = h.node[n].out
          /\ k.node[n].in = h.node[n].in
      BY <3>2 DEF Fields
    <3>4. \A c \in Fields \ {"connected", "out", "in", "events"} : k.node[n][c] = p[c]
      BY <1>3, <3>2
    <3>5. SameElsewhere(s, k, n)
      BY <1>3, <3>2 DEF SameElsewhere
    <3> QED BY <1>3, <2>2, <3>2, <3>3, <3>4, <3>5 DEF k
  <2> QED BY <1>4, <2>1, <2>2
<1> HIDE DEF g
<1>6. /\ Shape(t) /\ t.net = g.net /\ t.dialing = g.dialing /\ SameElsewhere(g, t, n)
      /\ DOMAIN q = Fields /\ q.remotes = [g.node[n].remotes EXCEPT ![m] = None]
      /\ q.allowed = g.node[n].allowed \ {m}
      /\ \A c \in Fields \ {"remotes", "allowed"} : q[c] = g.node[n][c]
  BY <1>5 DEF Shape, Fields, SameElsewhere, FloodsubDisconnected
<1> HIDE DEF t, f
<1>7. /\ q.desired = p.desired /\ q.unlocked = p.unlocked /\ q.updates = p.updates
      /\ q.queue = p.queue /\ q.solvers = p.solvers /\ q.threads = p.threads /\ q.rpcs = p.rpcs
      /\ q.received = p.received /\ q.delivered = p.delivered /\ q.sent = p.sent
      /\ q.connected = p.connected \ {m} /\ q.allowed = p.allowed \ {m}
      /\ q.remotes = [p.remotes EXCEPT ![m] = None]
      /\ q.out = [p.out EXCEPT ![m] = None] /\ q.in = [p.in EXCEPT ![m] = None]
      /\ q.events \in {p.events, Append(p.events, e)}
  BY <1>5, <1>6 DEF Fields
<1>8. GateOK(p, n) /\ FloodOK(p, n)
  BY DEF Good, NodesOK
<1> HIDE DEF p, q
<1>9. GateOK(q, n)
  <2>1. HandshakesOK(q, n)
    BY <1>7, <1>8 DEF GateOK, HandshakesOK
  <2>2. UpdatesOK(q, n)
    BY <1>7, <1>8 DEF GateOK, UpdatesOK, UpdateOK
  <2>3. SolversOK(q, n)
    BY <1>7, <1>8 DEF GateOK, SolversOK
  <2>4. EventOK(p, n, e)
    BY DEF EventOK, Event, e
  <2>5. IsList(q.events) /\ \A i \in 1 .. Len(q.events) : EventOK(p, n, q.events[i])
    <3>1. EventsOK(p, n)
      BY <1>8 DEF GateOK
    <3>2. CASE q.events = p.events
      BY <3>1, <3>2 DEF EventsOK
    <3>3. CASE q.events = Append(p.events, e)
      BY <2>4, <3>1, <3>3, AppendList DEF EventsOK
    <3> QED BY <1>7, <3>2, <3>3
  <2>6. EventsOK(q, n)
    BY <1>7, <2>5 DEF EventsOK, EventOK
  <2> QED BY <1>6, <2>1, <2>2, <2>3, <2>6 DEF GateOK, q
<1>10. FloodOK(q, n)
  <2>1. RemotesOK(q, n)
    BY <1>2, <1>7 DEF RemotesOK, p
  <2>2. RpcsOK(q, n) /\ CountsOK(q)
    BY <1>7, <1>8 DEF FloodOK, RpcsOK, CountsOK
  <2> QED BY <2>1, <2>2 DEF FloodOK
<1>11. SameElsewhere(s, t, n) /\ t.net = s.net /\ t.dialing = s.dialing
  BY <1>5, <1>6 DEF SameElsewhere
<1>12. NodesOK(t)
  BY <1>9, <1>10, <1>11 DEF Good, NodesOK, SameElsewhere, q
<1>13. Calm(s, t, {})
  BY <1>7, <1>11, SameQueues DEF SameElsewhere, p, q
<1>14. OnceOK(t, P, {})
  BY <1>13, CalmOK DEF Good, NodesOK, FloodOK
<1>15. \A i, j \in Nodes :
          j \in t.node[i].connected <=> (j \in s.node[i].connected /\ ~(i = n /\ j = m))
  BY <1>7, <1>11 DEF SameElsewhere, p, q
<1>16. LinksOK(t, K)
  BY <1>2, <1>15 DEF Good, LinksOK
<1>17. MailOK(t)
  <2> SUFFICES ASSUME NEW a \in DOMAIN t.net
               PROVE  /\ a.from \in Nodes /\ a.to \in Nodes /\ (IsMsg(a.msg) \/ IsRpc(a.msg))
                      /\ a.to \in t.node[a.from].connected /\ a.from \in t.node[a.to].connected
    BY DEF MailOK
  <2>1. /\ a.from \in Nodes /\ a.to \in Nodes /\ (IsMsg(a.msg) \/ IsRpc(a.msg))
        /\ a.to \in s.node[a.from].connected /\ a.from \in s.node[a.to].connected
    BY <1>11 DEF Good, MailOK
  <2>2. {a.from, a.to} # {n, m}
    BY <1>11 DEF NoMail
  <2>3. ~(a.from = n /\ a.to = m) /\ ~(a.to = n /\ a.from = m)
    BY <2>2
  <2> QED BY <1>15, <2>1, <2>3
<1>18. DialsOK(t)
  BY <1>11 DEF Good, DialsOK
<1>19. Good(t, K, P, {})
  BY <1>6, <1>12, <1>14, <1>16, <1>17, <1>18 DEF Good
<1> QED BY <1>19 DEF t, g

-----------------------------------------------------------------------------
(* A new process. *)

LEMMA DialSeedsOK ==
    ASSUME NEW n \in Nodes, NEW S, S \subseteq Seeds
    PROVE  /\ IsList(DialSeeds(n, S))
           /\ \A r : \A i \in 1 .. Len(DialSeeds(n, S)) : EventOK(r, n, DialSeeds(n, S)[i])
<1> DEFINE D == {q \in S : q[1] = n}
           E(p) == Event("DialAddress", p[2], None)
           T == {E(p) : p \in D}
<1>1. IsFiniteSet(Nodes \X Nodes)
  BY OverlayAssumption, FS_Product
<1>2. D \subseteq Nodes \X Nodes
  BY OverlayAssumption
<1>3. IsFiniteSet(D)
  BY <1>1, <1>2, FS_Subset
<1>4. ASSUME NEW e \in T, NEW r PROVE EventOK(r, n, e)
  <2>1. PICK p \in D : e = E(p)
    OBVIOUS
  <2>2. p[2] \in Others(n)
    BY OverlayAssumption DEF Others
  <2> QED BY <2>1, <2>2 DEF EventOK, Event
<1>5. IsFiniteSet(T)
  <2> DEFINE h == [p \in D |-> E(p)]
  <2>1. h \in Surjection(D, T)
    BY DEF Surjection
  <2> HIDE DEF E, D, T
  <2> QED BY <1>3, <2>1, FS_Surjection
<1> HIDE DEF T
<1>6. IsList(SetToSeq(T)) /\ \A i \in 1 .. Len(SetToSeq(T)) : SetToSeq(T)[i] \in T
  BY <1>5, SetList
<1>7. DialSeeds(n, S) = SetToSeq(T)
  BY DEF DialSeeds, T
<1> QED BY <1>4, <1>6, <1>7

LEMMA FreshOK ==
    ASSUME NEW n \in Nodes
    PROVE  /\ GateOK(Fresh(n), n) /\ FloodOK(Fresh(n), n)
           /\ Fresh(n).connected = {} /\ Fresh(n).received = {}
           /\ \A x \in Messages : /\ Fresh(n).delivered[x] = 0 /\ Fresh(n).sent[x] = 0
                                  /\ ~IsPending(Fresh(n), x) /\ PendingOnce(Fresh(n), x)
                                  /\ ~Queued(Fresh(n), x)
<1> DEFINE r == Fresh(n)
           seeds == DialSeeds(n, Seeds)
<1>1. /\ DOMAIN r = Fields /\ r.connected = {} /\ r.desired = {} /\ r.unlocked = {}
      /\ r.out = [m \in Nodes |-> None] /\ r.in = [m \in Nodes |-> None]
      /\ r.updates = <<>> /\ r.queue = <<>> /\ r.solvers = {} /\ r.threads = {} /\ r.rpcs = <<>>
      /\ r.allowed = {} /\ r.remotes = [m \in Nodes |-> None] /\ r.received = {}
      /\ r.delivered = [x \in Messages |-> 0] /\ r.sent = [x \in Messages |-> 0]
      /\ r.events = seeds
  BY DEF Fresh, Fields
<1>2. IsList(seeds) /\ \A i \in 1 .. Len(seeds) : EventOK(r, n, seeds[i])
  BY DialSeedsOK
<1> HIDE DEF r, seeds
<1>3. IsFiniteSet({}) /\ Cardinality({}) = 0
  BY FS_EmptySet
<1>4. GateOK(r, n)
  <2>1. HandshakesOK(r, n)
    BY <1>1 DEF HandshakesOK
  <2>2. UpdatesOK(r, n)
    BY <1>1, EmptyList DEF UpdatesOK
  <2>3. EventsOK(r, n)
    BY <1>1, <1>2 DEF EventsOK
  <2>4. SolversOK(r, n)
    BY <1>1, <1>3, EmptyList, OverlayAssumption DEF SolversOK
  <2> QED BY <1>1, <2>1, <2>2, <2>3, <2>4 DEF GateOK
<1>5. FloodOK(r, n)
  BY <1>1, EmptyList DEF FloodOK, RemotesOK, RpcsOK, CountsOK
<1>6. ASSUME NEW x \in Messages
      PROVE  ~IsPending(r, x) /\ PendingOnce(r, x) /\ ~Queued(r, x)
  BY <1>1 DEF IsPending, PendingOnce, Queued
<1> QED BY <1>1, <1>4, <1>5, <1>6 DEF r

\* The friends that n has dialed, and those that it has met.
DialedBy(n) == {p[2] : p \in {q \in Friends : q[1] = n}}
MetBy(n) == DialedBy(n) \cup {p[1] : p \in {q \in Friends : q[2] = n}}

LEMMA MetOK ==
    ASSUME NEW n \in Nodes
    PROVE  /\ GateOK(Met(n), n) /\ FloodOK(Met(n), n) /\ Met(n).connected = MetBy(n)
           /\ \A x \in Messages : /\ Met(n).delivered[x] = 0 /\ Met(n).sent[x] = 0
                                  /\ ~IsPending(Met(n), x) /\ PendingOnce(Met(n), x)
                                  /\ ~Queued(Met(n), x)
<1> DEFINE r == Met(n)
           p == Fresh(n)
           seeds == DialSeeds(n, Seeds \ Friends)
           met == MetBy(n)
           ready == Cardinality(met) >= readiness_threshold
<1>0. r = [p EXCEPT !.connected = met, !.desired = DialedBy(n), !.unlocked = met, !.allowed = met,
             !.remotes = [m \in Nodes |-> IF m \in met THEN "Subscribed" ELSE None],
             !.events = seeds, !.subscribed = TRUE, !.ready = ready]
  BY DEF Met, MetBy, DialedBy
<1>1. /\ GateOK(p, n) /\ FloodOK(p, n)
      /\ \A x \in Messages : /\ p.delivered[x] = 0 /\ p.sent[x] = 0
                             /\ ~IsPending(p, x) /\ PendingOnce(p, x) /\ ~Queued(p, x)
  BY FreshOK
<1>2. DOMAIN p = Fields
  BY <1>1 DEF GateOK
<1> HIDE DEF r, p, seeds, met, ready
<1>3. /\ DOMAIN r = Fields /\ r.connected = met /\ r.desired = DialedBy(n) /\ r.unlocked = met
      /\ r.allowed = met
      /\ r.remotes = [m \in Nodes |-> IF m \in met THEN "Subscribed" ELSE None]
      /\ r.events = seeds
      /\ \A f \in Fields \ {"connected", "desired", "unlocked", "allowed", "remotes", "events",
                            "subscribed", "ready"} : r[f] = p[f]
  BY <1>0, <1>2 DEF Fields
<1>4. /\ r.out = p.out /\ r.in = p.in /\ r.updates = p.updates /\ r.queue = p.queue
      /\ r.solvers = p.solvers /\ r.threads = p.threads /\ r.rpcs = p.rpcs /\ r.received = p.received
      /\ r.delivered = p.delivered /\ r.sent = p.sent
  BY <1>3 DEF Fields
<1>5. IsList(seeds) /\ \A i \in 1 .. Len(seeds) : EventOK(r, n, seeds[i])
  BY DialSeedsOK DEF seeds
<1>6. met \subseteq Others(n) /\ DialedBy(n) \subseteq met
  BY OverlayAssumption DEF met, MetBy, DialedBy, Others
<1>7. p.updates = <<>>
  BY DEF p, Fresh
<1>8. GateOK(r, n)
  <2>1. HandshakesOK(r, n)
    BY <1>1, <1>3, <1>4, <1>6 DEF GateOK, HandshakesOK
  <2>2. UpdatesOK(r, n)
    BY <1>4, <1>7, EmptyList DEF UpdatesOK
  <2>3. EventsOK(r, n)
    BY <1>3, <1>5 DEF EventsOK
  <2>4. SolversOK(r, n)
    BY <1>1, <1>4 DEF GateOK, SolversOK
  <2> QED BY <1>3, <2>1, <2>2, <2>3, <2>4 DEF GateOK
<1>9. FloodOK(r, n)
  <2>1. RemotesOK(r, n)
    BY <1>3, <1>6 DEF RemotesOK
  <2>2. RpcsOK(r, n) /\ CountsOK(r)
    BY <1>1, <1>4 DEF FloodOK, RpcsOK, CountsOK
  <2> QED BY <2>1, <2>2 DEF FloodOK
<1>10. \A x : /\ Queued(r, x) <=> Queued(p, x)
              /\ IsPending(r, x) <=> IsPending(p, x)
              /\ PendingOnce(r, x) <=> PendingOnce(p, x)
  BY <1>4, SameRpcs
<1> QED BY <1>1, <1>3, <1>4, <1>8, <1>9, <1>10 DEF r, met

-----------------------------------------------------------------------------
(* The actions. *)

\* The parts of Here.
LEMMA HereIs ==
    /\ Here.node = node /\ Here.net = net /\ Here.dialing = dialing
    /\ DOMAIN Here = {"node", "net", "dialing"}
  BY DEF Here

\* A state has become the next one.
LEMMA Becomes ==
    ASSUME NEW s, NEW L, NEW P, Good(s, L, P, {}),
           NEW a, NEW b, NEW c, a = s.node, b = s.net, c = s.dialing
    PROVE  Good([node |-> a, net |-> b, dialing |-> c], L, P, {})
<1> DEFINE t == [node |-> a, net |-> b, dialing |-> c]
<1>1. Shape(t) /\ t.node = s.node /\ t.net = s.net /\ t.dialing = s.dialing
  BY DEF Good, Shape
<1> HIDE DEF t
<1>2. DialsOK(t) /\ DOMAIN t.net \subseteq DOMAIN s.net
  BY <1>1 DEF Good, DialsOK
<1>3. \A x \in Messages : x \in {} => InFlight(s, x, {})
  OBVIOUS
<1>4. Good(t, L, P, {})
  BY <1>1, <1>2, <1>3, LessMailGood
<1> QED BY <1>4 DEF t

\* The inductive invariant.
IInv == Good(Here, links, published, {}) /\ troubles \in 0 .. MaxTroubles

LEMMA InitGood ==
    ASSUME Init
    PROVE  IInv
<1> DEFINE s == Here
<1>1. s.node = [n \in Nodes |-> Met(n)] /\ s.net = EmptyBag /\ s.dialing = {}
      /\ DOMAIN s = {"node", "net", "dialing"}
  BY HereIs DEF Init
<1> HIDE DEF s
<1>2. /\ Shape(s) /\ \A n \in Nodes : s.node[n] = Met(n)
      /\ DOMAIN s.net = {}
  BY <1>1 DEF Shape, EmptyBag, SetToBag
<1>3. NodesOK(s)
  BY <1>2, MetOK DEF NodesOK
<1>4. MailOK(s) /\ DialsOK(s)
  BY <1>1, <1>2 DEF MailOK, DialsOK
<1>5. OnceOK(s, published, {})
  <2>1. published = [x \in Messages |-> 0]
    BY DEF Init
  <2>2. ASSUME NEW x \in Messages PROVE ~InFlight(s, x, {})
    BY <1>2, MetOK DEF InFlight
  <2>3. ASSUME NEW n \in Nodes, NEW x \in Messages
        PROVE  Once(s.node[n], x, published[x], InFlight(s, x, {}))
    <3> DEFINE r == s.node[n]
    <3>1. r.delivered[x] = 0 /\ r.sent[x] = 0 /\ ~IsPending(r, x) /\ PendingOnce(r, x)
      BY <1>2, MetOK
    <3> HIDE DEF r
    <3>2. Once(r, x, published[x], InFlight(s, x, {}))
      BY <2>1, <2>2, <3>1 DEF Once
    <3> QED BY <3>2 DEF r
  <2> QED BY <2>1, <2>2, <2>3 DEF OnceOK
<1>6. LinksOK(s, links)
  <2>1. links = [n \in Nodes |-> [m \in Nodes |->
                   IF <<n, m>> \in Friends THEN n ELSE IF <<m, n>> \in Friends THEN m ELSE Nobody]]
    BY DEF Init
  <2>2. \A n, m \in Nodes : m \in s.node[n].connected
                               <=> <<n, m>> \in Friends \/ <<m, n>> \in Friends
    <3> SUFFICES ASSUME NEW n \in Nodes, NEW m \in Nodes
                 PROVE  m \in MetBy(n) <=> <<n, m>> \in Friends \/ <<m, n>> \in Friends
      BY <1>2, MetOK
    <3>1. \A p \in Friends : p = <<p[1], p[2]>>
      BY OverlayAssumption
    <3> QED BY <3>1 DEF MetBy, DialedBy
  <2>3. \A n, m \in Nodes : ~(<<n, m>> \in Friends /\ <<m, n>> \in Friends)
    BY OverlayAssumption
  <2>4. \A n \in Nodes : n # Nobody
    BY OverlayAssumption DEF Nobody
  <2> QED BY <2>1, <2>2, <2>3, <2>4 DEF LinksOK
<1>7. troubles \in 0 .. MaxTroubles
  BY OverlayAssumption DEF Init
<1> QED BY <1>2, <1>3, <1>4, <1>5, <1>6, <1>7 DEF IInv, Good, s

LEMMA PollInv ==
    ASSUME Good(Here, links, published, {}), NEW n \in Nodes, Poll(n)
    PROVE  Good(Here', links', published', {})
<1> DEFINE s == Turn(Here, n)
<1>1. Good(s, links, published, {})
  BY TurnGood
<1>2. /\ node' = s.node /\ net' = s.net /\ dialing' = s.dialing
      /\ links' = links /\ published' = published
  BY DEF Poll, Become
<1> HIDE DEF s
<1> QED BY <1>1, <1>2, Becomes DEF Here

LEMMA DeliverInv ==
    ASSUME Good(Here, links, published, {}), NEW e, Deliver(e)
    PROVE  Good(Here', links', published', {})
<1> DEFINE h == Here
           t == [h EXCEPT !.net = @ (-) SetToBag({e})]
           s == HandleNetwork(t, e.to, e.from, e.msg)
           X == MessagesOf(e.msg)
<1>1. /\ e \in DOMAIN h.net /\ node' = s.node /\ net' = s.net /\ dialing' = s.dialing
      /\ links' = links /\ published' = published
  BY HereIs DEF Deliver, Become, BagToSet
<1> HIDE DEF h, s, X
<1>2. Good(h, links, published, {})
  BY DEF h
<1>3. /\ e.from \in Nodes /\ e.to \in Nodes /\ e.from \in Others(e.to)
      /\ IsMsg(e.msg) \/ IsRpc(e.msg)
  BY <1>1, <1>2 DEF Good, MailOK, NodesOK, GateOK, HandshakesOK
<1>4. Shape(t) /\ t.node = h.node /\ t.dialing = h.dialing /\ t.net = h.net (-) SetToBag({e})
  BY <1>2 DEF Good, Shape
<1> HIDE DEF t
<1>5. DOMAIN t.net \subseteq DOMAIN h.net
  BY <1>4 DEF (-), BagToSet
<1>6. DialsOK(t)
  BY <1>2, <1>4 DEF Good, DialsOK
<1>7. \A x \in Messages : x \in X => InFlight(h, x, {})
  BY <1>1 DEF X, MessagesOf, InFlight
<1>8. Good(t, links, published, X)
  BY <1>2, <1>4, <1>5, <1>6, <1>7, LessMailGood
<1>9. Good(s, links, published, {})
  BY <1>3, <1>8, HandleNetworkGood DEF s, X
<1> QED BY <1>1, <1>9, Becomes DEF Here

\* Mail or dials go.
LEMMA LessInv ==
    ASSUME Good(Here, links, published, {}), node' = node, links' = links,
           published' = published, DOMAIN net' \subseteq DOMAIN net, dialing' \subseteq dialing
    PROVE  Good(Here', links', published', {})
<1> DEFINE h == Here
           t == Here'
<1>1. Shape(t) /\ t.node = h.node /\ t.net = net' /\ t.dialing = dialing'
  BY DEF Here, Good, Shape
<1>2. h.net = net /\ h.dialing = dialing
  BY DEF Here
<1> HIDE DEF h, t
<1>3. Good(h, links, published, {})
  BY DEF h
<1>4. DOMAIN t.net \subseteq DOMAIN h.net /\ DialsOK(t)
  BY <1>1, <1>2, <1>3 DEF Good, DialsOK
<1>5. \A x \in Messages : x \in {} => InFlight(h, x, {})
  OBVIOUS
<1>6. Good(t, links, published, {})
  BY <1>1, <1>3, <1>4, <1>5, LessMailGood
<1> QED BY <1>6 DEF t

LEMMA LoseInv ==
    ASSUME Good(Here, links, published, {}), NEW e, Lose(e)
    PROVE  Good(Here', links', published', {})
<1>1. DOMAIN net' \subseteq DOMAIN net
  BY DEF Lose, (-), BagToSet
<1> QED BY <1>1, LessInv DEF Lose

LEMMA DialFailsInv ==
    ASSUME Good(Here, links, published, {}), NEW d, DialFails(d)
    PROVE  Good(Here', links', published', {})
  BY LessInv DEF DialFails

LEMMA SolveInv ==
    ASSUME Good(Here, links, published, {}), NEW n \in Nodes, NEW w, Solve(n, w)
    PROVE  Good(Here', links', published', {})
<1> DEFINE h == Here
           t == [h EXCEPT !.node[n].solvers = @ \ {w.peer}, !.node[n].threads = @ \ {w}]
           e == Event("VDFSolved", w.peer, w.of)
           s == notify(t, n, e)
           r == h.node[n]
           q == t.node[n]
<1>1. /\ w \in r.threads /\ node' = s.node /\ net' = s.net /\ dialing' = s.dialing
      /\ links' = links /\ published' = published
  BY HereIs DEF Solve, Become
<1> HIDE DEF h, s
<1>2. Good(h, links, published, {}) /\ GateIn(h, n)
  BY GoodIsGateIn DEF h
<1>3. /\ Shape(t) /\ t.net = h.net /\ t.dialing = h.dialing /\ SameElsewhere(h, t, n)
      /\ DOMAIN q = Fields /\ q.solvers = r.solvers \ {w.peer} /\ q.threads = r.threads \ {w}
      /\ \A f \in Fields \ {"solvers", "threads"} : q[f] = r[f]
  BY <1>2 DEF GateIn, Shape, GateOK, Fields, SameElsewhere
<1> HIDE DEF t, e
<1>4. Quiet(h, t, n) /\ HandshakesOK(q, n)
  BY <1>2, <1>3 DEF Quiet, SameFlood, Fields, GateIn, GateOK, HandshakesOK
<1>5. SolversOK(r, n) /\ q.queue = r.queue
  BY <1>2, <1>3 DEF GateIn, GateOK, Fields
<1>6. IsFiniteSet(q.solvers) /\ Cardinality(q.solvers) <= solver_threads
  <2>1. IsFiniteSet(r.solvers) /\ Cardinality(r.solvers) \in Nat
    BY <1>5, FS_CardinalityType DEF SolversOK
  <2>2. /\ IsFiniteSet(r.solvers \ {w.peer})
        /\ Cardinality(r.solvers \ {w.peer}) \in Nat
        /\ Cardinality(r.solvers \ {w.peer}) <= Cardinality(r.solvers)
    BY <2>1, FS_Subset, FS_CardinalityType
  <2> QED BY <1>3, <1>5, <2>1, <2>2, OverlayAssumption DEF SolversOK
<1>7. SolversOK(q, n) /\ w.peer \in Others(n)
  BY <1>1, <1>3, <1>5, <1>6 DEF SolversOK
<1>8. Gate(h, t, n)
  BY <1>2, <1>4, <1>7, QuietOK
<1>9. UpdateOK(q, n, e)
  BY <1>7 DEF UpdateOK, Event, e
<1>10. Gate(t, s, n)
  BY <1>8, <1>9, NotifyOK DEF Gate, s
<1>11. Good(s, links, published, {})
  BY <1>2, <1>8, <1>10, GateTwice, GateGood
<1> QED BY <1>1, <1>11, Becomes DEF Here

LEMMA ExpireInv ==
    ASSUME Good(Here, links, published, {}), NEW n \in Nodes, NEW m \in Others(n), Expire(n, m)
    PROVE  Good(Here', links', published', {})
<1> DEFINE s == SetOut(Here, n, m, None)
           t == SetIn(Here, n, m, None)
<1>1. /\ node' = s.node \/ node' = t.node
      /\ net' = s.net /\ dialing' = s.dialing /\ net' = t.net /\ dialing' = t.dialing
      /\ links' = links /\ published' = published
  BY DEF Expire, Here, SetOut, SetIn
<1>2. Gate(Here, s, n) /\ Gate(Here, t, n)
  BY GoodIsGateIn, SetOutOK, SetInOK
<1> HIDE DEF s, t
<1>3. Good(s, links, published, {}) /\ Good(t, links, published, {})
  BY <1>2, GateGood
<1> QED BY <1>1, <1>3, Becomes DEF Here

LEMMA SubscribeInv ==
    ASSUME Good(Here, links, published, {}), NEW n \in Nodes, Subscribe(n)
    PROVE  Good(Here', links', published', {})
<1> DEFINE h == Here
           sub == Rpc("Subscribe", None)
           t == SendRpcs(h, n, Remotes(h, n), sub)
           now == is_network_ready(h, n)
           s == [[t EXCEPT !.node[n].subscribed = TRUE] EXCEPT !.node[n].ready = now]
<1>1. /\ node' = s.node /\ net' = s.net /\ dialing' = s.dialing
      /\ links' = links /\ published' = published
  BY HereIs DEF Subscribe, Become, subscribe
<1> HIDE DEF h, now
<1>2. Good(h, links, published, {})
  BY DEF h
<1>3. IsRpc(sub) /\ \A x \in Messages : sub = Rpc("Message", x) => x \in {}
  BY DEF IsRpc, Rpc
<1> HIDE DEF sub
<1>4. Good(t, links, published, {})
  BY <1>2, <1>3, KnownAreOthers, SendRpcsGood
<1> HIDE DEF t
<1>5. Shape(t) /\ DOMAIN t.node[n] = Fields /\ RemotesOK(t.node[n], n)
  BY <1>4 DEF Good, NodesOK, GateOK, FloodOK
<1>6. /\ Shape(s) /\ s.net = t.net /\ s.dialing = t.dialing /\ SameElsewhere(t, s, n)
      /\ DOMAIN s.node[n] = Fields
      /\ \A f \in Fields \ {"subscribed", "ready"} : s.node[n][f] = t.node[n][f]
  BY <1>5 DEF Shape, Fields, SameElsewhere
<1> HIDE DEF s
<1>7. RemotesOK(s.node[n], n)
  <2>1. /\ s.node[n].remotes = t.node[n].remotes /\ s.node[n].allowed = t.node[n].allowed
        /\ s.node[n].connected = t.node[n].connected /\ s.node[n].unlocked = t.node[n].unlocked
        /\ s.node[n].desired = t.node[n].desired
    BY <1>6 DEF Fields
  <2> QED BY <1>5, <2>1 DEF RemotesOK
<1>8. Good(s, links, published, {})
  BY <1>4, <1>6, <1>7, RemotesGood
<1> QED BY <1>1, <1>8, Becomes DEF Here

LEMMA ForgetInv ==
    ASSUME Good(Here, links, published, {}), NEW n \in Nodes, NEW x \in Messages, Forget(n, x)
    PROVE  Good(Here', links', published', {})
<1> DEFINE h == Here
           s == [h EXCEPT !.node[n].received = @ \ {x}]
           r == h.node[n]
           q == s.node[n]
           P == published
<1>1. /\ node' = s.node /\ net' = s.net /\ dialing' = s.dialing
      /\ links' = links /\ published' = published
  BY DEF Forget, Here
<1>2. ~InFlight(h, x, {})
  BY HereIs DEF Forget, InFlight, Queued, BagToSet
<1> HIDE DEF h
<1>3. Good(h, links, P, {})
  BY DEF h
<1>4. Shape(h) /\ DOMAIN r = Fields /\ FloodOK(r, n)
  BY <1>3 DEF Good, NodesOK, GateOK
<1>5. /\ Shape(s) /\ s.net = h.net /\ s.dialing = h.dialing /\ SameElsewhere(h, s, n)
      /\ DOMAIN q = Fields /\ q.received = r.received \ {x}
      /\ \A f \in Fields \ {"received"} : q[f] = r[f]
  BY <1>4 DEF Shape, Fields, SameElsewhere
<1>6. \A y \in Messages : Once(r, y, P[y], InFlight(h, y, {})) /\ P[y] \in Nat
  BY <1>3 DEF Good, OnceOK
<1> HIDE DEF s
<1>7. /\ q.remotes = r.remotes /\ q.allowed = r.allowed /\ q.connected = r.connected
      /\ q.unlocked = r.unlocked /\ q.desired = r.desired /\ q.rpcs = r.rpcs
      /\ q.delivered = r.delivered /\ q.sent = r.sent /\ SameGate(r, q)
  BY <1>5 DEF Fields, SameGate
<1>8. FloodOK(q, n)
  BY <1>4, <1>5, <1>7 DEF FloodOK, RemotesOK, RpcsOK, CountsOK
<1>9. \A y : /\ Queued(q, y) <=> Queued(r, y)
             /\ IsPending(q, y) <=> IsPending(r, y)
             /\ PendingOnce(q, y) <=> PendingOnce(r, y)
  BY <1>7, SameRpcs
<1>10. \A y \in Messages : InFlight(s, y, {}) => InFlight(h, y, {})
  BY <1>5, <1>9 DEF InFlight, SameElsewhere
<1>11. ~IsPending(r, x)
  BY <1>2 DEF InFlight, Queued, IsPending, PendingAt
<1>12. OnceOK(s, P, {})
  <2>1. ASSUME NEW y \in Messages PROVE Once(q, y, P[y], InFlight(s, y, {}))
    <3>1. r.delivered[y] \in Nat /\ r.sent[y] \in Nat
      BY <1>4 DEF FloodOK, CountsOK
    <3>2. Once(r, y, P[y], InFlight(h, y, {})) /\ P[y] \in Nat
      BY <1>6
    <3>3. /\ IsPending(q, y) <=> IsPending(r, y)
          /\ PendingOnce(q, y) <=> PendingOnce(r, y)
          /\ InFlight(s, y, {}) => InFlight(h, y, {})
          /\ y # x => (y \in q.received <=> y \in r.received)
      BY <1>5, <1>9, <1>10
    <3> HIDE DEF q, r
    <3>4. CASE y = x
      BY <1>2, <1>7, <1>11, <3>1, <3>2, <3>3, <3>4 DEF Once
    <3>5. CASE y # x
      BY <1>7, <3>1, <3>2, <3>3, <3>5 DEF Once
    <3> QED BY <3>4, <3>5
  <2>2. ASSUME NEW k \in Nodes, NEW y \in Messages, k # n
        PROVE  Once(s.node[k], y, P[y], InFlight(s, y, {}))
    <3>1. s.node[k] = h.node[k]
      BY <1>5, <2>2 DEF SameElsewhere
    <3>2. Once(h.node[k], y, P[y], InFlight(h, y, {}))
      BY <1>3 DEF Good, OnceOK
    <3> QED BY <1>10, <3>1, <3>2 DEF Once
  <2> QED BY <1>3, <1>10, <2>1, <2>2 DEF Good, OnceOK
<1>13. Good(s, links, P, {})
  BY <1>3, <1>5, <1>7, <1>8, <1>12, FloodGood
<1> QED BY <1>1, <1>13, Becomes DEF Here

\* The message x is published once more: the publisher may remember and send it.
LEMMA PublishGood ==
    ASSUME NEW s, NEW L, NEW P, Good(s, L, P, {}), NEW n \in Nodes, NEW x \in Messages, NEW S,
           S \subseteq Others(n), NEW t, Shape(t), t.net = s.net, t.dialing = s.dialing,
           SameElsewhere(s, t, n), DOMAIN t.node[n] = Fields,
           Sends(s.node[n], t.node[n], S, Rpc("Message", x)),
           t.node[n].received \in {s.node[n].received, s.node[n].received \cup {x}},
           t.node[n].rpcs = s.node[n].rpcs \/ x \in t.node[n].received,
           t.node[n].sent = [s.node[n].sent EXCEPT ![x] = @ + 1],
           \A f \in Fields \ {"received", "rpcs", "sent"} : t.node[n][f] = s.node[n][f]
    PROVE  Good(t, L, [P EXCEPT ![x] = @ + 1], {})
<1> DEFINE r == s.node[n]
           q == t.node[n]
           K == [P EXCEPT ![x] = @ + 1]
           rpc == Rpc("Message", x)
<1>1. /\ q.remotes = r.remotes /\ q.allowed = r.allowed /\ q.connected = r.connected
      /\ q.unlocked = r.unlocked /\ q.desired = r.desired
      /\ q.delivered = r.delivered /\ SameGate(r, q)
  BY DEF Fields, SameGate
<1>2. FloodOK(r, n) /\ IsRpc(rpc) /\ Sends(r, q, S, rpc)
  BY DEF Good, NodesOK, IsRpc
<1>3. /\ q.received \in {r.received, r.received \cup {x}}
      /\ q.rpcs = r.rpcs \/ x \in q.received
      /\ q.sent = [r.sent EXCEPT ![x] = @ + 1]
  OBVIOUS
<1>4. /\ P \in [Messages -> Nat]
      /\ \A y \in Messages : InFlight(s, y, {}) => P[y] > 0
      /\ \A k \in Nodes, y \in Messages : Once(s.node[k], y, P[y], InFlight(s, y, {}))
  BY DEF Good, OnceOK
<1>5. /\ K \in [Messages -> Nat] /\ K[x] = P[x] + 1
      /\ \A y \in Messages : y # x => K[y] = P[y]
  BY <1>4
<1>6. \A y : rpc = Rpc("Message", y) => y = x
  BY DEF Rpc
<1> HIDE DEF r, q, K, rpc
<1>7. /\ RpcsOK(q, n)
      /\ \A y \in Messages : Queued(q, y) => Queued(r, y) \/ rpc = Rpc("Message", y)
      /\ \A y \in Messages : IsPending(q, y) <=> IsPending(r, y)
      /\ \A y \in Messages : PendingOnce(r, y) => PendingOnce(q, y)
  BY <1>2, SendsFacts DEF FloodOK
<1>8. FloodOK(q, n)
  BY <1>1, <1>2, <1>3, <1>7 DEF FloodOK, RemotesOK, CountsOK
<1>9. \A y \in Messages : InFlight(t, y, {}) => InFlight(s, y, {}) \/ (y = x /\ q.rpcs # r.rpcs)
  <2>1. \A y \in Messages : Queued(q, y) => Queued(r, y) \/ (y = x /\ q.rpcs # r.rpcs)
    BY <1>6, <1>7, SameRpcs
  <2> QED BY <2>1 DEF InFlight, SameElsewhere, r, q
<1>10. ASSUME NEW y \in Messages PROVE Once(q, y, K[y], InFlight(t, y, {}))
  <2>1. r.delivered[y] \in Nat /\ r.sent[y] \in Nat /\ P[y] \in Nat
    BY <1>2, <1>4 DEF FloodOK, CountsOK
  <2>2. Once(r, y, P[y], InFlight(s, y, {}))
    BY <1>4 DEF r
  <2>3. CASE y = x
    <3>1. q.sent[y] = r.sent[y] + 1 /\ q.delivered[y] = r.delivered[y] /\ K[y] = P[y] + 1
      BY <1>1, <1>2, <1>3, <1>5, <2>3 DEF FloodOK, CountsOK
    <3>2. /\ IsPending(q, y) <=> IsPending(r, y)
          /\ PendingOnce(r, y) => PendingOnce(q, y)
          /\ y \in r.received => y \in q.received
          /\ InFlight(t, y, {}) /\ y \notin q.received => InFlight(s, y, {}) /\ y \notin r.received
      BY <1>3, <1>7, <1>9, <2>3
    <3> QED BY <2>1, <2>2, <3>1, <3>2 DEF Once
  <2>4. CASE y # x
    <3>1. q.sent[y] = r.sent[y] /\ q.delivered[y] = r.delivered[y] /\ K[y] = P[y]
      BY <1>1, <1>2, <1>3, <1>5, <2>4 DEF FloodOK, CountsOK
    <3>2. /\ IsPending(q, y) <=> IsPending(r, y)
          /\ PendingOnce(r, y) => PendingOnce(q, y)
          /\ y \in r.received <=> y \in q.received
          /\ InFlight(t, y, {}) => InFlight(s, y, {})
      BY <1>3, <1>7, <1>9, <2>4
    <3> QED BY <2>1, <2>2, <3>1, <3>2 DEF Once
  <2> QED BY <2>3, <2>4
<1>11. ASSUME NEW k \in Nodes, NEW y \in Messages, k # n
       PROVE  Once(t.node[k], y, K[y], InFlight(t, y, {}))
  <2> DEFINE c == s.node[k]
  <2>1. t.node[k] = c
    BY <1>11 DEF SameElsewhere
  <2>2. Once(c, y, P[y], InFlight(s, y, {}))
    BY <1>4
  <2>3. c.delivered[y] \in Nat /\ c.sent[y] \in Nat /\ P[y] \in Nat
    BY <1>4 DEF Good, NodesOK, FloodOK, CountsOK
  <2> HIDE DEF c
  <2>4. CASE y = x
    BY <1>5, <2>1, <2>2, <2>3, <2>4 DEF Once
  <2>5. CASE y # x
    BY <1>5, <1>9, <2>1, <2>2, <2>3, <2>5 DEF Once
  <2> QED BY <2>4, <2>5
<1>12. \A y \in Messages : InFlight(t, y, {}) => K[y] > 0
  BY <1>4, <1>5, <1>9
<1>13. OnceOK(t, K, {})
  BY <1>5, <1>10, <1>11, <1>12 DEF OnceOK, q
<1>15. NodesOK(t)
  <2>1. GateOK(q, n)
    BY <1>1, SameGateOK DEF Good, NodesOK, r
  <2> QED BY <1>8, <2>1 DEF Good, NodesOK, SameElsewhere, q
<1>16. \A k \in Nodes : t.node[k].connected = s.node[k].connected
  BY <1>1 DEF SameElsewhere, q, r
<1>17. LinksOK(t, L)
  BY <1>16 DEF Good, LinksOK
<1>18. MailOK(t)
  BY <1>16 DEF Good, MailOK
<1>19. DialsOK(t)
  BY DEF Good, DialsOK
<1> QED BY <1>13, <1>15, <1>17, <1>18, <1>19 DEF Good, K

LEMMA PublishInv ==
    ASSUME Good(Here, links, published, {}), NEW n \in Nodes, NEW x \in Messages, Publish(n, x)
    PROVE  Good(Here', links', published', {})
<1> DEFINE h == Here
           t == publish(h, n, x)
           s == [t EXCEPT !.node[n].sent[x] = @ + 1]
           g == [h EXCEPT !.node[n].received = @ \cup {x}]
           S == Subscribers(h, n)
           rpc == Rpc("Message", x)
           r == h.node[n]
           K == [published EXCEPT ![x] = @ + 1]
<1>1. /\ node' = s.node /\ net' = s.net /\ dialing' = s.dialing
      /\ links' = links /\ published' = K
  BY DEF Publish, Become
<1> HIDE DEF h, K
<1>2. Good(h, links, published, {})
  BY DEF h
<1>3. /\ Shape(h) /\ DOMAIN r = Fields /\ GateIn(h, n) /\ IsList(r.rpcs)
      /\ r.sent \in [Messages -> Nat] /\ S \subseteq Others(n) /\ IsFiniteSet(S)
  BY <1>2, GoodIsGateIn, KnownAreOthers, FS_Subset DEF Good, NodesOK, GateOK, FloodOK, RpcsOK, CountsOK
<1> HIDE DEF S
<1>4. /\ Shape(t) /\ t.net = h.net /\ t.dialing = h.dialing /\ SameElsewhere(h, t, n)
      /\ DOMAIN t.node[n] = Fields /\ Sends(r, t.node[n], S, rpc)
      /\ t.node[n].received \in {r.received, r.received \cup {x}}
      /\ t.node[n].rpcs = r.rpcs \/ x \in t.node[n].received
      /\ \A f \in Fields \ {"received", "rpcs"} : t.node[n][f] = r[f]
  <2>1. CASE ~r.subscribed
    <3>1. t = h
      BY <2>1 DEF publish
    <3>2. Sent(h, h, n, S, rpc)
      BY <1>3, NothingIsSent
    <3> QED BY <1>3, <3>1, <3>2 DEF Sent
  <2>2. CASE r.subscribed
    <3>1. t = SendRpcs(g, n, S, rpc)
      BY <2>2 DEF publish, S
    <3>2. /\ Shape(g) /\ g.net = h.net /\ g.dialing = h.dialing /\ SameElsewhere(h, g, n)
          /\ DOMAIN g.node[n] = Fields /\ g.node[n].received = r.received \cup {x}
          /\ \A f \in Fields \ {"received"} : g.node[n][f] = r[f]
      BY <1>3 DEF Shape, Fields, SameElsewhere
    <3> HIDE DEF g, t, r
    <3>3. SameGate(r, g.node[n]) /\ g.node[n].rpcs = r.rpcs
      BY <3>2 DEF SameGate, Fields
    <3>4. GateIn(g, n) /\ IsList(g.node[n].rpcs)
      BY <1>3, <3>2, <3>3, SameGateOK DEF GateIn, r
    <3>5. Sent(g, t, n, S, rpc)
      BY <1>3, <3>1, <3>4, SendRpcsOK
    <3>6. /\ Shape(t) /\ t.net = g.net /\ t.dialing = g.dialing /\ SameElsewhere(g, t, n)
          /\ DOMAIN t.node[n] = Fields /\ Sends(g.node[n], t.node[n], S, rpc)
          /\ \A f \in Fields \ {"rpcs"} : t.node[n][f] = g.node[n][f]
      BY <3>5 DEF Sent, SameGate
    <3>7. t.node[n].received = r.received \cup {x}
      BY <3>2, <3>6 DEF Fields
    <3>8. Sends(r, t.node[n], S, rpc)
      BY <3>3, <3>6 DEF Sends
    <3> QED BY <3>2, <3>6, <3>7, <3>8 DEF SameElsewhere
  <2> QED BY <2>1, <2>2
<1> HIDE DEF t, r
<1>5. t.node[n].sent = r.sent
  BY <1>4 DEF Fields
<1>6. /\ Shape(s) /\ s.net = t.net /\ s.dialing = t.dialing /\ SameElsewhere(t, s, n)
      /\ DOMAIN s.node[n] = Fields /\ s.node[n].sent = [r.sent EXCEPT ![x] = @ + 1]
      /\ \A f \in Fields \ {"sent"} : s.node[n][f] = t.node[n][f]
  BY <1>4, <1>5 DEF Shape, Fields, SameElsewhere
<1> HIDE DEF s, rpc
<1>7. /\ s.node[n].rpcs = t.node[n].rpcs /\ s.node[n].received = t.node[n].received
      /\ SameElsewhere(h, s, n) /\ s.net = h.net /\ s.dialing = h.dialing
      /\ \A f \in Fields \ {"received", "rpcs", "sent"} : s.node[n][f] = r[f]
  BY <1>4, <1>6 DEF Fields, SameElsewhere
<1>8. Sends(r, s.node[n], S, rpc)
  BY <1>4, <1>7 DEF Sends
<1>9. Good(s, links, K, {})
  BY <1>2, <1>3, <1>4, <1>6, <1>7, <1>8, PublishGood DEF r, K, rpc
<1> QED BY <1>1, <1>9, Becomes DEF Here

\* A connection comes at the end n.
LEMMA ConnectedGood ==
    ASSUME NEW s, NEW L, NEW P, Good(s, L, P, {}), NEW n \in Nodes, NEW m \in Others(n),
           NEW dialer, NEW K, DOMAIN K = Nodes,
           \A k \in Nodes : DOMAIN K[k] = Nodes,
           \A i, j \in Nodes :
              /\ K[i][j] \in {Nobody, i, j}
              /\ K[i][j] # Nobody <=> (L[i][j] # Nobody \/ (i = n /\ j = m))
              /\ K[i][j] # Nobody /\ K[j][i] # Nobody => K[i][j] = K[j][i]
    PROVE  Good(Connected(s, n, m, dialer), K, P, {})
<1> DEFINE t == IF HasLink(n, m) THEN FloodsubDisconnected(s, n, m) ELSE s
<1>1. Good(t, L, P, {})
  BY FloodsubDisconnectedGood
<1> HIDE DEF t
<1>2. \A i, j \in Nodes : L[i][j] # Nobody <=> j \in t.node[i].connected
  BY <1>1 DEF Good, LinksOK
<1>3. \A i, j \in Nodes :
         /\ K[i][j] \in {Nobody, i, j}
         /\ K[i][j] # Nobody <=> (j \in t.node[i].connected \/ (i = n /\ j = m))
         /\ K[i][j] # Nobody /\ K[j][i] # Nobody => K[i][j] = K[j][i]
  BY <1>2
<1>4. Good(GatekeeperConnected(t, n, m, n = dialer), K, P, {})
  BY <1>1, <1>3, GatekeeperConnectedGood
<1> QED BY <1>4 DEF Connected, t

LEMMA DialedInv ==
    ASSUME Good(Here, links, published, {}), NEW d, Dialed(d)
    PROVE  Good(Here', links', published', {})
<1> DEFINE n == d.from
           m == d.to
           h == Here
           s == [h EXCEPT !.dialing = @ \ {d}, !.net = Purge(@, n, m)]
           t == Connected(s, n, m, n)
           u == Connected(t, m, n, n)
           L == links
           K == [i \in Nodes |-> [j \in Nodes |->
                   IF i = n /\ j = m THEN n
                   ELSE IF i = m /\ j = n THEN IF L[i][j] = Nobody THEN Nobody ELSE n
                   ELSE L[i][j]]]
           M == [L EXCEPT ![n][m] = n, ![m][n] = n]
<1>1. d \in h.dialing /\ published' = published
  BY HereIs DEF Dialed
<1>2. CASE HasLink(n, m) /\ d.how = "DialPeer"
  <2>1. node' = node /\ net' = net /\ links' = links /\ dialing' = dialing \ {d}
    BY <1>2 DEF Dialed
  <2> QED BY <1>1, <2>1, LessInv
<1>3. CASE ~(HasLink(n, m) /\ d.how = "DialPeer")
  <2>1. node' = u.node /\ net' = u.net /\ dialing' = u.dialing /\ links' = M
    BY <1>3 DEF Dialed, Become
  <2>2. Good(h, L, published, {}) /\ n \in Nodes /\ m \in Others(n) /\ m \in Nodes /\ n \in Others(m)
        /\ n # m /\ n # Nobody
    BY <1>1, OverlayAssumption DEF Good, DialsOK, Others, Nobody
  <2> HIDE DEF h, n, m, L
  <2>3. /\ Shape(s) /\ s.node = h.node /\ s.dialing = h.dialing \ {d}
        /\ s.net = Purge(h.net, n, m)
    BY <2>2 DEF Good, Shape
  <2> HIDE DEF s
  <2>4. DOMAIN s.net \subseteq DOMAIN h.net /\ DialsOK(s)
    BY <2>2, <2>3 DEF Purge, BagToSet, Good, DialsOK
  <2>5. \A x \in Messages : x \in {} => InFlight(h, x, {})
    OBVIOUS
  <2>6. Good(s, L, published, {})
    BY <2>2, <2>3, <2>4, <2>5, LessMailGood
  <2>7. /\ DOMAIN L = Nodes /\ \A i \in Nodes : DOMAIN L[i] = Nodes
        /\ \A i, j \in Nodes : /\ L[i][j] \in {Nobody, i, j}
                               /\ L[i][j] # Nobody /\ L[j][i] # Nobody => L[i][j] = L[j][i]
    BY <2>2 DEF Good, LinksOK
  <2>8. /\ DOMAIN K = Nodes /\ \A i \in Nodes : DOMAIN K[i] = Nodes
        /\ \A i, j \in Nodes :
              /\ K[i][j] \in {Nobody, i, j}
              /\ K[i][j] # Nobody <=> (L[i][j] # Nobody \/ (i = n /\ j = m))
              /\ K[i][j] # Nobody /\ K[j][i] # Nobody => K[i][j] = K[j][i]
    BY <2>2, <2>7
  <2>9. /\ DOMAIN M = Nodes /\ \A i \in Nodes : DOMAIN M[i] = Nodes
        /\ \A i, j \in Nodes :
              M[i][j] = IF (i = n /\ j = m) \/ (i = m /\ j = n) THEN n ELSE L[i][j]
    BY <2>2, <2>7
  <2>10. \A i, j \in Nodes :
            /\ M[i][j] \in {Nobody, i, j}
            /\ M[i][j] # Nobody <=> (K[i][j] # Nobody \/ (i = m /\ j = n))
            /\ M[i][j] # Nobody /\ M[j][i] # Nobody => M[i][j] = M[j][i]
    <3> HIDE DEF M, K
    <3> QED BY <2>2, <2>7, <2>8, <2>9
  <2> HIDE DEF K, M
  <2>11. Good(t, K, published, {})
    BY <2>2, <2>6, <2>8, ConnectedGood
  <2> HIDE DEF t
  <2>12. Good(u, M, published, {})
    BY <2>2, <2>9, <2>10, <2>11, ConnectedGood
  <2> HIDE DEF u
  <2> QED BY <1>1, <2>1, <2>12, Becomes DEF Here
<1> QED BY <1>2, <1>3

LEMMA DropInv ==
    ASSUME Good(Here, links, published, {}), NEW n \in Nodes, NEW m \in Others(n), Drop(n, m)
    PROVE  Good(Here', links', published', {})
<1> DEFINE h == Here
           s == [h EXCEPT !.net = Purge(@, n, m)]
           u == Disconnected(s, n, m)
           K == [links EXCEPT ![n][m] = Nobody]
<1>1. /\ node' = u.node /\ net' = u.net /\ dialing' = u.dialing /\ links' = K
      /\ published' = published
  BY DEF Drop, Become
<1> HIDE DEF h
<1>2. Good(h, links, published, {})
  BY DEF h
<1>3. Shape(s) /\ s.node = h.node /\ s.dialing = h.dialing /\ s.net = Purge(h.net, n, m)
  BY <1>2 DEF Good, Shape
<1> HIDE DEF s
<1>4. DOMAIN s.net \subseteq DOMAIN h.net /\ DialsOK(s) /\ NoMail(s, n, m)
  BY <1>2, <1>3 DEF Purge, BagToSet, Good, DialsOK, NoMail
<1>5. \A x \in Messages : x \in {} => InFlight(h, x, {})
  OBVIOUS
<1>6. Good(s, links, published, {})
  BY <1>2, <1>3, <1>4, <1>5, LessMailGood
<1>7. Good(u, K, published, {})
  BY <1>4, <1>6, DisconnectedGood DEF Disconnected
<1> HIDE DEF u, K
<1> QED BY <1>1, <1>7, Becomes DEF Here

LEMMA RestartInv ==
    ASSUME Good(Here, links, published, {}), NEW n \in Nodes, Restart(n)
    PROVE  Good(Here', links', published', {})
<1> DEFINE h == Here
           t == Here'
           mail == {e \in DOMAIN h.net : n \notin {e.from, e.to}}
           P == published
<1>1. /\ t.node = [h.node EXCEPT ![n] = Fresh(n)]
      /\ t.dialing = {d \in h.dialing : d.from # n} /\ t.net = [e \in mail |-> h.net[e]]
      /\ DOMAIN t = {"node", "net", "dialing"}
  BY DEF Restart, Become, Here, BagToSet
<1>2. links' = [links EXCEPT ![n] = [m \in Nodes |-> Nobody]] /\ published' = published
  BY DEF Restart
<1>3. Good(h, links, P, {})
  BY DEF h
<1> HIDE DEF h, t
<1>4. /\ Shape(t) /\ t.node[n] = Fresh(n) /\ SameElsewhere(h, t, n) /\ DOMAIN t.net = mail
  BY <1>1, <1>3 DEF Good, Shape, SameElsewhere
<1>5. NodesOK(t)
  BY <1>3, <1>4, FreshOK DEF Good, NodesOK, SameElsewhere
<1>6. LinksOK(t, links')
  <2>1. \A i, j \in Nodes : j \in t.node[i].connected <=> (i # n /\ j \in h.node[i].connected)
    BY <1>4, FreshOK DEF SameElsewhere
  <2>2. LinksOK(h, links)
    BY <1>3 DEF Good
  <2> QED BY <1>2, <2>1, <2>2 DEF LinksOK
<1>7. MailOK(t)
  <2> SUFFICES ASSUME NEW e \in DOMAIN t.net
               PROVE  /\ e.from \in Nodes /\ e.to \in Nodes /\ (IsMsg(e.msg) \/ IsRpc(e.msg))
                      /\ e.to \in t.node[e.from].connected /\ e.from \in t.node[e.to].connected
    BY DEF MailOK
  <2>1. e \in DOMAIN h.net /\ e.from # n /\ e.to # n
    BY <1>4
  <2>2. /\ e.from \in Nodes /\ e.to \in Nodes /\ (IsMsg(e.msg) \/ IsRpc(e.msg))
        /\ e.to \in h.node[e.from].connected /\ e.from \in h.node[e.to].connected
    BY <1>3, <2>1 DEF Good, MailOK
  <2> QED BY <1>4, <2>1, <2>2 DEF SameElsewhere
<1>8. DialsOK(t)
  BY <1>1, <1>3 DEF Good, DialsOK
<1>9. OnceOK(t, P, {})
  <2>1. OnceOK(h, P, {})
    BY <1>3 DEF Good
  <2>2. \A x \in Messages : InFlight(t, x, {}) => InFlight(h, x, {})
    BY <1>4, FreshOK DEF InFlight, SameElsewhere
  <2>3. ASSUME NEW x \in Messages PROVE Once(t.node[n], x, P[x], InFlight(t, x, {}))
    <3> DEFINE r == Fresh(n)
    <3>1. /\ r.delivered[x] = 0 /\ r.sent[x] = 0 /\ ~IsPending(r, x) /\ PendingOnce(r, x)
      BY FreshOK
    <3>2. P[x] \in Nat /\ (InFlight(t, x, {}) => P[x] > 0)
      BY <2>1, <2>2 DEF OnceOK
    <3> HIDE DEF r
    <3>3. Once(r, x, P[x], InFlight(t, x, {}))
      BY <3>1, <3>2 DEF Once
    <3> QED BY <1>4, <3>3 DEF r
  <2>4. ASSUME NEW k \in Nodes, NEW x \in Messages, k # n
        PROVE  Once(t.node[k], x, P[x], InFlight(t, x, {}))
    <3>1. t.node[k] = h.node[k]
      BY <1>4, <2>4 DEF SameElsewhere
    <3>2. Once(h.node[k], x, P[x], InFlight(h, x, {}))
      BY <2>1 DEF OnceOK
    <3> QED BY <2>2, <3>1, <3>2 DEF Once
  <2> QED BY <2>1, <2>2, <2>3, <2>4 DEF OnceOK
<1> QED BY <1>2, <1>4, <1>5, <1>6, <1>7, <1>8, <1>9 DEF Good, t

LEMMA StepGood ==
    ASSUME IInv, Next
    PROVE  Good(Here', links', published', {})
<1> USE DEF IInv
<1>1. ASSUME NEW n \in Nodes, Poll(n) \/ Subscribe(n) \/ \E w \in node[n].threads : Solve(n, w)
      PROVE  Good(Here', links', published', {})
  BY <1>1, PollInv, SubscribeInv, SolveInv
<1>2. ASSUME NEW e \in BagToSet(net), Deliver(e) \/ Lose(e)
      PROVE  Good(Here', links', published', {})
  BY <1>2, DeliverInv, LoseInv
<1>3. ASSUME NEW d \in dialing, Dialed(d) \/ DialFails(d)
      PROVE  Good(Here', links', published', {})
  BY <1>3, DialedInv, DialFailsInv
<1>4. ASSUME NEW n \in Nodes, NEW m \in Others(n), Notice(n, m) \/ Expire(n, m) \/ Unlink(n, m)
      PROVE  Good(Here', links', published', {})
  BY <1>4, DropInv, ExpireInv DEF Notice, Unlink
<1>5. ASSUME NEW n \in Nodes, NEW x \in Messages, Publish(n, x) \/ Forget(n, x)
      PROVE  Good(Here', links', published', {})
  BY <1>5, PublishInv, ForgetInv
<1>6. ASSUME NEW n \in Nodes, Restart(n)
      PROVE  Good(Here', links', published', {})
  BY <1>6, RestartInv
<1>7. Troubled \subseteq Nodes /\ Restarting \subseteq Nodes
  BY OverlayAssumption
<1>8. \A n \in Troubled : n \in Nodes /\ \A m \in Troubled \ {n} : m \in Others(n)
  BY <1>7 DEF Others
<1>9. CASE Internal
  BY <1>1, <1>2, <1>3, <1>4, <1>9 DEF Internal
<1>10. CASE External
  BY <1>2, <1>3, <1>4, <1>5, <1>6, <1>7, <1>8, <1>10 DEF External
<1> QED BY <1>9, <1>10 DEF Next

LEMMA StepTroubles ==
    ASSUME troubles \in 0 .. MaxTroubles, Next
    PROVE  troubles' \in 0 .. MaxTroubles
<1>1. CASE troubles' = troubles
  BY <1>1
<1>2. CASE Trouble
  BY <1>2, OverlayAssumption DEF Trouble
<1>3. troubles' = troubles \/ Trouble
  <2>1. CASE Internal
    BY <2>1 DEF Internal, Poll, Subscribe, Solve, Deliver, Dialed, Notice, NoTrouble
  <2>2. CASE External
    BY <2>2 DEF External, Publish, Forget, Restart, Expire, Unlink, Lose, DialFails, NoTrouble
  <2> QED BY <2>1, <2>2 DEF Next
<1> QED BY <1>1, <1>2, <1>3

LEMMA Invariance == Spec => []IInv
<1>1. Init => IInv
  BY InitGood
<1>2. IInv /\ [Next]_vars => IInv'
  <2>1. ASSUME IInv, Next PROVE IInv'
    <3>1. Good(Here', links', published', {})
      BY <2>1, StepGood
    <3>2. troubles' \in 0 .. MaxTroubles
      BY <2>1, StepTroubles DEF IInv
    <3> QED BY <3>1, <3>2 DEF IInv
  <2>2. ASSUME IInv, UNCHANGED vars PROVE IInv'
    BY <2>2 DEF IInv, vars, Here
  <2> QED BY <2>1, <2>2
<1> QED BY <1>1, <1>2, PTL DEF Spec

\* A consumer gets a message at most once per publication and never its own,
\* over however many paths, restarts and lost connections: Floodsub::received
\* holds back every copy that is not news.
THEOREM MessagesComeOnce == Spec => []AtMostOnce
<1>1. IInv => AtMostOnce
  <2> SUFFICES ASSUME IInv, NEW n \in Nodes, NEW x \in Messages
               PROVE  node[n].delivered[x] + node[n].sent[x] <= published[x]
    BY DEF AtMostOnce
  <2> DEFINE r == node[n]
  <2>1. Once(r, x, published[x], InFlight(Here, x, {})) /\ published[x] \in Nat
    BY HereIs DEF IInv, Good, OnceOK
  <2>2. r.delivered[x] \in Nat /\ r.sent[x] \in Nat
    BY HereIs DEF IInv, Good, NodesOK, FloodOK, CountsOK
  <2> HIDE DEF r
  <2>3. r.delivered[x] + r.sent[x] <= published[x]
    BY <2>1, <2>2 DEF Once
  <2> QED BY <2>3 DEF r
<1> QED BY <1>1, Invariance, PTL

\* Floodsub lets in and sends to peers that are connected and that the
\* gatekeeper has let in or wants; every queue holds what its poll function
\* knows, and the two ends of a connection agree on who has dialed it.
THEOREM FloodsubHasNoGhosts == Spec => []NoGhosts
<1>1. ASSUME IInv PROVE TypeOK
  <2>1. /\ NodesOK(Here) /\ LinksOK(Here, links) /\ MailOK(Here) /\ Here.node = node
        /\ Here.net = net /\ troubles \in 0 .. MaxTroubles
    BY <1>1, HereIs DEF IInv, Good
  <2>2. ASSUME NEW n \in Nodes
        PROVE  /\ node[n].desired \cup node[n].unlocked \cup node[n].allowed
                    \cup node[n].connected \subseteq Others(n)
               /\ Cardinality(node[n].solvers) <= solver_threads
               /\ node[n].received \subseteq Messages
    BY <2>1 DEF NodesOK, GateOK, HandshakesOK, SolversOK, FloodOK, RemotesOK, CountsOK
  <2>3. ASSUME NEW n \in Nodes, NEW m \in Nodes
        PROVE  /\ node[n].out[m] \in DialerPeerState \cup {None}
               /\ node[n].in[m] \in ListenerPeerState \cup {None}
               /\ node[n].remotes[m] \in {None, "Silent", "Subscribed"}
    BY <2>1 DEF NodesOK, GateOK, HandshakesOK, FloodOK, RemotesOK
  <2>4. ASSUME NEW n \in Nodes, NEW m \in Nodes
        PROVE  /\ links[n][m] \in {Nobody, n, m}
               /\ HasLink(n, m) <=> m \in node[n].connected
               /\ Linked(n, m) => links[n][m] = links[m][n]
    BY <2>1 DEF LinksOK, HasLink, Linked
  <2>5. ASSUME NEW e \in BagToSet(net) PROVE Linked(e.from, e.to)
    BY <2>1, <2>4 DEF MailOK, BagToSet, Linked
  <2> QED BY <2>1, <2>2, <2>3, <2>4, <2>5 DEF TypeOK
<1>2. ASSUME IInv PROVE NoGhosts
  <2>1. \A n \in Nodes : RemotesOK(node[n], n)
    BY <1>2, HereIs DEF IInv, Good, NodesOK, FloodOK
  <2> QED BY <1>1, <1>2, <2>1 DEF NoGhosts, RemotesOK
<1> QED BY <1>2, Invariance, PTL
=============================================================================
