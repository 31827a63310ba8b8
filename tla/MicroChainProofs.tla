-------------------------- MODULE MicroChainProofs --------------------------
(***************************************************************************)
(* Proofs about MicroChain, for every group of validators, any slots, any  *)
(* rule that selects leaders and any bounds.                               *)
(*                                                                         *)
(* What a node knows is Local: its proof and its votes are about its own   *)
(* chain and view, and each piece of its evidence is two blocks of one     *)
(* leader.  Blocks of honest leaders can only come from these leaders, so  *)
(* every one that a chain or a piece of evidence contains has been sent    *)
(* (IsSigned).  An honest leader has left the view of each block that it   *)
(* has signed (HasAdvanced), as its fork choice only ever gets heavier;    *)
(* so it signs one block for a parent and a view (SignsOnce).  A slashing  *)
(* transaction can show an honest validator's blocks only if they have     *)
(* been sent (IsClean), and one on a chain shows two for one view, as the  *)
(* block has been validated (IsSound): such a validator lost its view.     *)
(***************************************************************************)
EXTENDS MicroChain, Induction

Paths == Seq(Entry)
Infos == [path : Paths, vc : 0 .. MaxView + 2]
Votes == [type : {"vote"}, from : Validators, info : Infos]

NodeStates ==
    [up : BOOLEAN, done : BOOLEAN, chain : Paths, vc : Views, proof : Infos,
     votes : SUBSET Votes, cheats : [Validators -> SUBSET Paths]]

\* N is the network.

Leader(p) == select_leader(Front(p), Last(p).vc)

\* The blocks of honest leaders have been sent by them.
IsSigned(p, N) ==
    Leader(p) \in Honest => \E m \in N : m.type = "block" /\ m.path = p

\* v has signed two blocks for one view.
SignedTwo(v, N) ==
    \E m1, m2 \in N :
        /\ m1.type = "block" /\ m2.type = "block" /\ m1.pkey = v /\ m2.pkey = v
        /\ m1.path # m2.path /\ SameView(m1.path, m2.path)

\* The proof of a slashing transaction against an honest validator is two
\* blocks that it has sent.
IsFounded(tx, N) ==
    tx.signer \in Honest =>
        tx.cheater = tx.signer /\ (tx.sound => SignedTwo(tx.signer, N))

IsClean(p, N) == \A tx \in Last(p).slash : IsFounded(tx, N)

\* Those of a block that was validated have been compared.
IsSound(p) == \A tx \in Last(p).slash : tx.sound

PathOK(p, N) ==
    /\ p \in Paths /\ Len(p) <= MicroBlocks
    /\ \A i \in 1 .. Len(p) : /\ IsSigned(Prefix(p, i), N) /\ IsClean(Prefix(p, i), N)
                             /\ IsSound(Prefix(p, i))

\* Different blocks of the leader v.
IsEvidence(e, v, N) ==
    /\ \E p, q \in e : p # q
    /\ \A p \in e : p \in Paths /\ p # <<>> /\ Leader(p) = v /\ IsSigned(p, N)

Local(s, N) ==
    /\ s \in NodeStates
    /\ PathOK(s.chain, N)
    /\ s.proof = IF s.vc = 0 THEN NoProof ELSE ChainInfo(s.chain, s.vc - 1)
    /\ \A m \in s.votes : m.info = ChainInfo(s.chain, s.vc)
    /\ \A v \in Validators : s.cheats[v] # NoEvidence => IsEvidence(s.cheats[v], v, N)

BlockOK(b, N) ==
    /\ b.type = "block"
    /\ b.path \in Paths \ {<<>>} /\ b.proof \in Infos
    /\ b.pkey = Leader(b.path)
    /\ IsSigned(b.path, N) /\ IsClean(b.path, N)

VoteOK(m) == m \in Votes /\ m.info.vc < MaxView

ProofOK(m) == m.type = "proof" /\ m.info \in Infos /\ m.info.vc < MaxView

FeedOK(m) == m.type = "feed" /\ m.start \in Nat

MsgOK(m, N) == BlockOK(m, N) \/ VoteOK(m) \/ ProofOK(m) \/ FeedOK(m)

ViewsOf(p) == [i \in 1 .. Len(p) |-> p[i].vc]

\* The fork choice of a node in the state s may become that of t.
Grows(s, t) ==
    /\ s.done => t.done
    /\ \/ t.done
       \/ Weight(t) = Weight(s)
       \/ Heavier(Weight(t), Weight(s))

\* An honest leader that has not lost its view is past its own blocks.
HasAdvanced ==
    \A v \in Honest : forgets[v] = 0 /\ ~node[v].done =>
        \A m \in BlocksOf(v) : Heavier(Weight(node[v]), ViewsOf(m.path))

\* It has signed one block for a parent and a view.
SignsOnce ==
    \A v \in Honest : forgets[v] = 0 =>
        \A m1, m2 \in BlocksOf(v) :
            Front(m1.path) = Front(m2.path) /\ Last(m1.path).vc = Last(m2.path).vc
                => m1.path = m2.path

\* Downloads are between honest nodes.
FeedsAreKept == \A m \in net : m.type = "feed" => m.from \in Honest

IInv ==
    /\ node \in [Honest -> NodeStates]
    /\ \A n \in Honest : Local(node[n], net)
    /\ IsFiniteSet(net)
    /\ \A m \in net : MsgOK(m, net)
    /\ FeedsAreKept
    /\ forgets \in [Honest -> 0 .. MaxForgets]
    /\ HasAdvanced
    /\ SignsOnce

-----------------------------------------------------------------------------
(* Sequences *)

LEMMA SeqEqual ==
    ASSUME NEW S, NEW p \in Seq(S), NEW q \in Seq(S), Len(p) = Len(q),
           \A i \in 1 .. Len(p) : p[i] = q[i]
    PROVE  p = q
  OBVIOUS

LEMMA PrefixFacts ==
    ASSUME NEW S, NEW p \in Seq(S), NEW k \in 0 .. Len(p)
    PROVE  /\ Prefix(p, k) \in Seq(S)
           /\ Len(Prefix(p, k)) = k
           /\ \A i \in 1 .. k : Prefix(p, k)[i] = p[i]
           /\ Prefix(p, Len(p)) = p
           /\ \A j \in 0 .. k : Prefix(Prefix(p, k), j) = Prefix(p, j)
<1>1. \A i \in 0 .. Len(p) : /\ Prefix(p, i) \in Seq(S)
                            /\ Len(Prefix(p, i)) = i
                            /\ \A x \in 1 .. i : Prefix(p, i)[x] = p[x]
  BY DEF Prefix
<1>2. Prefix(p, Len(p)) = p
  BY <1>1, SeqEqual
<1>3. ASSUME NEW j \in 0 .. k
      PROVE  Prefix(Prefix(p, k), j) = Prefix(p, j)
  <2>1. /\ Prefix(Prefix(p, k), j) \in Seq(S)
        /\ Len(Prefix(Prefix(p, k), j)) = j
        /\ \A x \in 1 .. j : Prefix(Prefix(p, k), j)[x] = Prefix(p, k)[x]
    BY <1>1 DEF Prefix
  <2>. QED  BY <1>1, <2>1, SeqEqual
<1>. QED  BY <1>1, <1>2, <1>3

LEMMA FrontFacts ==
    ASSUME NEW S, NEW p \in Seq(S), p # <<>>
    PROVE  /\ Len(p) \in Nat \ {0}
           /\ Front(p) = Prefix(p, Len(p) - 1)
           /\ Front(p) \in Seq(S) /\ Len(Front(p)) = Len(p) - 1
           /\ \A i \in 1 .. Len(p) - 1 : Front(p)[i] = p[i]
           /\ Last(p) = p[Len(p)] /\ Last(p) \in S
<1>1. Len(p) \in Nat \ {0}
  OBVIOUS
<1>2. Front(p) = Prefix(p, Len(p) - 1)
  BY DEF Front, Prefix
<1>. QED  BY <1>1, <1>2, PrefixFacts DEF Last

\* A sequence is what comes before its last element, and that element.
LEMMA SameBlock ==
    ASSUME NEW S, NEW p \in Seq(S), NEW q \in Seq(S), p # <<>>, q # <<>>,
           Front(p) = Front(q), Last(p) = Last(q)
    PROVE  p = q
<1>1. Len(p) = Len(q)
  BY FrontFacts
<1>2. \A i \in 1 .. Len(p) : p[i] = q[i]
  BY <1>1, FrontFacts
<1>. QED  BY <1>1, <1>2, SeqEqual

LEMMA AppendFacts ==
    ASSUME NEW S, NEW p \in Seq(S), NEW e \in S
    PROVE  /\ Append(p, e) \in Seq(S) /\ Append(p, e) # <<>>
           /\ Len(Append(p, e)) = Len(p) + 1
           /\ Front(Append(p, e)) = p /\ Last(Append(p, e)) = e
<1>1. /\ Append(p, e) \in Seq(S) /\ Len(Append(p, e)) = Len(p) + 1
      /\ Append(p, e) # <<>>
      /\ \A i \in 1 .. Len(p) : Append(p, e)[i] = p[i]
      /\ Append(p, e)[Len(p) + 1] = e
  OBVIOUS
<1>2. Last(Append(p, e)) = e
  BY <1>1, FrontFacts
<1>3. Front(Append(p, e)) = p
  <2>1. ASSUME NEW a \in Seq(S), a = Append(p, e)
        PROVE  Front(a) = p
    <3>1. a # <<>> /\ Len(a) = Len(p) + 1 /\ Len(p) \in Nat
      BY <1>1, <2>1
    <3>2. /\ Front(a) \in Seq(S) /\ Len(Front(a)) = Len(p)
          /\ \A i \in 1 .. Len(p) : Front(a)[i] = a[i]
      BY <3>1, FrontFacts
    <3>3. \A i \in 1 .. Len(p) : Front(a)[i] = p[i]
      BY <1>1, <2>1, <3>2
    <3>. QED  BY <3>2, <3>3, SeqEqual
  <2>. QED  BY <1>1, <2>1
<1>. QED  BY <1>1, <1>2, <1>3

-----------------------------------------------------------------------------
(* Weights *)

LEMMA ViewsAreNumbers ==
    MaxView \in Nat /\ 0 \in Views /\ \A vc \in Views : vc \in Nat /\ vc <= MaxView
  BY MicroChainAssumption DEF Views

LEMMA PathFacts ==
    ASSUME NEW p \in Paths
    PROVE  /\ Len(p) \in Nat
           /\ \A i \in 1 .. Len(p) :
                p[i] \in Entry /\ p[i].vc \in Views /\ p[i].vc \in Nat
<1>1. Len(p) \in Nat /\ \A i \in 1 .. Len(p) : p[i] \in Entry
  BY DEF Paths
<1>2. \A e \in Entry : e.vc \in Views
  BY DEF Entry
<1>. QED  BY <1>1, <1>2, ViewsAreNumbers

LEMMA ViewsFacts ==
    ASSUME NEW p \in Paths
    PROVE  /\ ViewsOf(p) \in Seq(Nat) /\ Len(ViewsOf(p)) = Len(p)
           /\ \A i \in 1 .. Len(p) : ViewsOf(p)[i] = p[i].vc
<1>1. /\ Len(p) \in Nat
      /\ \A i \in 1 .. Len(p) : p[i].vc \in Nat
  BY PathFacts
<1>. QED  BY <1>1 DEF ViewsOf

\* The weight of a chain and a view.
Weigh(c, vc) == ViewsOf(c) \o <<vc>>

LEMMA WeighFacts ==
    ASSUME NEW c \in Paths, NEW vc \in Views
    PROVE  /\ Weigh(c, vc) \in Seq(Nat) /\ Len(Weigh(c, vc)) = Len(c) + 1
           /\ \A i \in 1 .. Len(c) : Weigh(c, vc)[i] = c[i].vc
           /\ Weigh(c, vc)[Len(c) + 1] = vc
<1>1. Len(c) \in Nat /\ vc \in Nat
  BY PathFacts, ViewsAreNumbers
<1>2. /\ ViewsOf(c) \in Seq(Nat) /\ Len(ViewsOf(c)) = Len(c)
      /\ \A i \in 1 .. Len(c) : ViewsOf(c)[i] = c[i].vc
  BY ViewsFacts
<1>. QED  BY <1>1, <1>2 DEF Weigh

LEMMA WeighFrontAndLast ==
    ASSUME NEW p \in Paths, p # <<>>
    PROVE  Weigh(Front(p), Last(p).vc) = ViewsOf(p)
<1>. DEFINE c == Front(p)
            v == Weigh(c, Last(p).vc)
            w == ViewsOf(p)
<1>1. /\ c \in Paths /\ Len(c) \in Nat /\ Len(p) = Len(c) + 1
      /\ \A i \in 1 .. Len(c) : c[i] = p[i]
      /\ Last(p) = p[Len(c) + 1]
  BY FrontFacts DEF Paths
<1>. HIDE DEF c
<1>2. Last(p).vc \in Views
  BY <1>1, PathFacts
<1>3. /\ v \in Seq(Nat) /\ Len(v) = Len(c) + 1 /\ v[Len(c) + 1] = Last(p).vc
      /\ \A i \in 1 .. Len(c) : v[i] = c[i].vc
  BY <1>1, <1>2, WeighFacts
<1>4. /\ w \in Seq(Nat) /\ Len(w) = Len(c) + 1
      /\ \A i \in 1 .. Len(c) + 1 : w[i] = p[i].vc
  BY <1>1, ViewsFacts
<1>. HIDE DEF v, w
<1>5. \A i \in 1 .. Len(c) : v[i] = w[i]
  <2>1. TAKE i \in 1 .. Len(c)
  <2>2. i \in 1 .. Len(c) + 1
    BY <1>1
  <2>. QED  BY <1>1, <1>3, <1>4, <2>2
<1>6. v[Len(c) + 1] = w[Len(c) + 1]
  BY <1>1, <1>3, <1>4
<1>7. \A i \in 1 .. Len(v) : v[i] = w[i]
  BY <1>1, <1>3, <1>5, <1>6
<1>8. v = w
  BY <1>3, <1>4, <1>7, SeqEqual
<1>. QED  BY <1>8 DEF v, w, c

LEMMA WeightIsWeigh ==
    ASSUME NEW s
    PROVE  Weight(s) = Weigh(s.chain, s.vc)
  BY DEF Weight, Weigh, ViewsOf, offset

LEMMA WeightType ==
    ASSUME NEW s, s.chain \in Paths, s.vc \in Views
    PROVE  Weight(s) \in Seq(Nat)
  BY WeightIsWeigh, WeighFacts

\* Heavier without SubSeq.
LEMMA HeavierMeans ==
    ASSUME NEW v \in Seq(Nat), NEW w \in Seq(Nat)
    PROVE  Heavier(v, w) <=>
             \/ \E i \in 1 .. Len(w) :
                  /\ i <= Len(v) /\ v[i] > w[i]
                  /\ \A j \in 1 .. i - 1 : v[j] = w[j]
             \/ /\ Len(v) > Len(w)
                /\ \A j \in 1 .. Len(w) : v[j] = w[j]
<1>1. ASSUME Len(v) > Len(w)
      PROVE  SubSeq(v, 1, Len(w)) = w <=> \A j \in 1 .. Len(w) : v[j] = w[j]
  <2>1. /\ SubSeq(v, 1, Len(w)) \in Seq(Nat) /\ Len(SubSeq(v, 1, Len(w))) = Len(w)
        /\ \A j \in 1 .. Len(w) : SubSeq(v, 1, Len(w))[j] = v[j]
    BY <1>1, Len(w) \in 0 .. Len(v), PrefixFacts DEF Prefix
  <2>. QED  BY <2>1, SeqEqual
<1>. QED  BY <1>1 DEF Heavier

LEMMA HeavierIsStrict ==
    ASSUME NEW v \in Seq(Nat)
    PROVE  ~Heavier(v, v)
  BY HeavierMeans

LEMMA HeavierIsTransitive ==
    ASSUME NEW u \in Seq(Nat), NEW v \in Seq(Nat), NEW w \in Seq(Nat),
           Heavier(u, v), Heavier(v, w)
    PROVE  Heavier(u, w)
<1>. /\ Len(u) \in Nat /\ Len(v) \in Nat /\ Len(w) \in Nat
     /\ \A i \in 1 .. Len(u) : u[i] \in Nat
     /\ \A i \in 1 .. Len(v) : v[i] \in Nat
     /\ \A i \in 1 .. Len(w) : w[i] \in Nat
  OBVIOUS
<1>1. CASE \E i \in 1 .. Len(v) : /\ i <= Len(u) /\ u[i] > v[i]
                                  /\ \A j \in 1 .. i - 1 : u[j] = v[j]
  <2>1. PICK i \in 1 .. Len(v) : /\ i <= Len(u) /\ u[i] > v[i]
                                 /\ \A j \in 1 .. i - 1 : u[j] = v[j]
    BY <1>1
  <2>2. CASE \E k \in 1 .. Len(w) : /\ k <= Len(v) /\ v[k] > w[k]
                                    /\ \A j \in 1 .. k - 1 : v[j] = w[j]
    <3>1. PICK k \in 1 .. Len(w) : /\ k <= Len(v) /\ v[k] > w[k]
                                   /\ \A j \in 1 .. k - 1 : v[j] = w[j]
      BY <2>2
    <3>2. CASE i < k
      <4>1. i \in 1 .. Len(w) /\ i \in 1 .. k - 1 /\ u[i] > w[i]
        <5>1. i \in 1 .. Len(w) /\ i \in 1 .. k - 1
          BY <3>1, <3>2
        <5>2. v[i] = w[i]
          BY <3>1, <5>1
        <5>. QED  BY <2>1, <5>1, <5>2
      <4>2. ASSUME NEW j \in 1 .. i - 1
            PROVE  u[j] = w[j]
        <5>1. j \in 1 .. k - 1
          BY <3>2
        <5>. QED  BY <2>1, <3>1, <5>1
      <4>. QED  BY <2>1, <4>1, <4>2, HeavierMeans
    <3>3. CASE k <= i
      <4>1. /\ k <= Len(u) /\ u[k] \in Nat /\ v[k] \in Nat /\ w[k] \in Nat
            /\ u[k] >= v[k] /\ v[k] > w[k]
        <5>1. k <= Len(u)
          BY <2>1, <3>1, <3>3
        <5>2. CASE k = i
          BY <2>1, <3>1, <5>1, <5>2
        <5>3. CASE k # i
          <6>1. k \in 1 .. i - 1
            BY <3>3, <5>3
          <6>. QED  BY <2>1, <3>1, <5>1, <6>1
        <5>. QED  BY <5>2, <5>3
      <4>2. ASSUME NEW j \in 1 .. k - 1
            PROVE  u[j] = w[j]
        <5>1. j \in 1 .. i - 1
          BY <3>3
        <5>. QED  BY <2>1, <3>1, <5>1
      <4>3. u[k] > w[k]
        BY <4>1
      <4>. QED  BY <4>1, <4>2, <4>3, HeavierMeans
    <3>. QED  BY <3>2, <3>3
  <2>3. CASE Len(v) > Len(w) /\ \A j \in 1 .. Len(w) : v[j] = w[j]
    <3>1. CASE i <= Len(w)
      <4>1. /\ u[i] > w[i] /\ \A j \in 1 .. i - 1 : u[j] = w[j]
        BY <2>1, <2>3, <3>1
      <4>. QED  BY <2>1, <3>1, <4>1, HeavierMeans
    <3>2. CASE i > Len(w)
      <4>1. Len(u) > Len(w) /\ \A j \in 1 .. Len(w) : u[j] = w[j]
        BY <2>1, <2>3, <3>2
      <4>. QED  BY <4>1, HeavierMeans
    <3>. QED  BY <3>1, <3>2
  <2>. QED  BY <2>2, <2>3, HeavierMeans
<1>2. CASE Len(u) > Len(v) /\ \A j \in 1 .. Len(v) : u[j] = v[j]
  <2>2. CASE \E k \in 1 .. Len(w) : /\ k <= Len(v) /\ v[k] > w[k]
                                    /\ \A j \in 1 .. k - 1 : v[j] = w[j]
    <3>1. PICK k \in 1 .. Len(w) : /\ k <= Len(v) /\ v[k] > w[k]
                                   /\ \A j \in 1 .. k - 1 : v[j] = w[j]
      BY <2>2
    <3>2. /\ k <= Len(u) /\ u[k] > w[k]
          /\ \A j \in 1 .. k - 1 : u[j] = w[j]
      BY <1>2, <3>1
    <3>. QED  BY <3>2, HeavierMeans
  <2>3. CASE Len(v) > Len(w) /\ \A j \in 1 .. Len(w) : v[j] = w[j]
    <3>1. Len(u) > Len(w) /\ \A j \in 1 .. Len(w) : u[j] = w[j]
      BY <1>2, <2>3
    <3>. QED  BY <3>1, HeavierMeans
  <2>. QED  BY <2>2, <2>3, HeavierMeans
<1>. QED  BY <1>1, <1>2, HeavierMeans

\* Growing is transitive.
LEMMA GrowsTwice ==
    ASSUME NEW s, s.chain \in Paths, s.vc \in Views,
           NEW t, t.chain \in Paths, t.vc \in Views,
           NEW u, u.chain \in Paths, u.vc \in Views,
           Grows(s, t), Grows(t, u)
    PROVE  Grows(s, u)
<1>1. /\ Weight(s) \in Seq(Nat) /\ Weight(t) \in Seq(Nat) /\ Weight(u) \in Seq(Nat)
  BY WeightType
<1>. QED  BY <1>1, HeavierIsTransitive DEF Grows

-----------------------------------------------------------------------------
(* Chains *)

LEMMA PathPrefix ==
    ASSUME NEW N, NEW p, PathOK(p, N), NEW k \in 0 .. Len(p)
    PROVE  PathOK(Prefix(p, k), N) /\ Len(Prefix(p, k)) = k
<1>1. p \in Paths /\ Len(p) \in Nat /\ MicroBlocks \in Nat /\ Len(p) <= MicroBlocks
  BY PathFacts, MicroChainAssumption DEF PathOK
<1>2. /\ Prefix(p, k) \in Paths /\ Len(Prefix(p, k)) = k
      /\ \A i \in 1 .. k : Prefix(Prefix(p, k), i) = Prefix(p, i)
  BY <1>1, PrefixFacts DEF Paths
<1>3. \A i \in 1 .. k : IsSigned(Prefix(p, i), N) /\ IsClean(Prefix(p, i), N) /\ IsSound(Prefix(p, i))
  BY <1>1 DEF PathOK
<1>. QED  BY <1>1, <1>2, <1>3 DEF PathOK

LEMMA PathExtended ==
    ASSUME NEW N, NEW p \in Paths, p # <<>>, PathOK(Front(p), N),
           Len(Front(p)) # MicroBlocks, IsSigned(p, N), IsClean(p, N), IsSound(p)
    PROVE  PathOK(p, N)
<1>1. /\ Len(p) \in Nat \ {0} /\ Len(Front(p)) = Len(p) - 1
      /\ Front(p) = Prefix(p, Len(p) - 1)
  BY FrontFacts DEF Paths
<1>2. Len(p) <= MicroBlocks
  BY <1>1, MicroChainAssumption DEF PathOK
<1>3. /\ Prefix(p, Len(p)) = p
      /\ \A i \in 1 .. Len(p) - 1 : Prefix(Front(p), i) = Prefix(p, i)
  BY <1>1, PrefixFacts DEF Paths
<1>4. \A i \in 1 .. Len(p) - 1 : IsSigned(Prefix(p, i), N) /\ IsClean(Prefix(p, i), N) /\ IsSound(Prefix(p, i))
  BY <1>1, <1>3 DEF PathOK
<1>5. ASSUME NEW i \in 1 .. Len(p)
      PROVE  IsSigned(Prefix(p, i), N) /\ IsClean(Prefix(p, i), N) /\ IsSound(Prefix(p, i))
  <2>1. i = Len(p) \/ i \in 1 .. Len(p) - 1
    BY <1>1
  <2>. QED  BY <1>3, <1>4, <2>1
<1>. QED  BY <1>2, <1>5 DEF PathOK

LEMMA ProofForType ==
    ASSUME NEW c \in Paths, NEW vc \in Views
    PROVE  ProofFor(c, vc) \in Infos
<1>1. NoProof \in Infos
  <2>1. <<>> \in Paths
    BY DEF Paths
  <2>. QED  BY <2>1, ViewsAreNumbers DEF NoProof, Infos
<1>2. ASSUME vc # 0
      PROVE  ChainInfo(c, vc - 1) \in Infos
  BY <1>2, MicroChainAssumption DEF Views, ChainInfo, Infos
<1>. QED  BY <1>1, <1>2 DEF ProofFor

\* Applying a block, reverting blocks and changing the view do this.
Moved(s, c, vc) ==
    [s EXCEPT !.chain = c, !.vc = vc, !.proof = ProofFor(c, vc), !.votes = {}]

LEMMA MovedIsLocal ==
    ASSUME NEW N, NEW s, Local(s, N), NEW c, PathOK(c, N), NEW vc \in Views
    PROVE  /\ Local(Moved(s, c, vc), N)
           /\ Moved(s, c, vc).chain = c /\ Moved(s, c, vc).vc = vc
           /\ Moved(s, c, vc).done = s.done /\ Moved(s, c, vc).up = s.up
<1>1. s \in NodeStates /\ c \in Paths /\ ProofFor(c, vc) \in Infos
  BY ProofForType DEF Local, PathOK
<1>. DEFINE t == Moved(s, c, vc)
<1>2. /\ t \in NodeStates /\ t.chain = c /\ t.vc = vc /\ t.proof = ProofFor(c, vc)
      /\ t.votes = {} /\ t.cheats = s.cheats /\ t.done = s.done /\ t.up = s.up
  BY <1>1 DEF Moved, NodeStates
<1>. HIDE DEF t
<1>3. Local(t, N)
  BY <1>2 DEF Local, ProofFor
<1>. QED  BY <1>2, <1>3 DEF t

\* Back to an offset with a higher view.
LEMMA HigherViewIsHeavier ==
    ASSUME NEW c \in Paths, NEW k \in 0 .. Len(c), NEW x \in Views, NEW vc \in Views,
           vc > IF k < Len(c) THEN c[k + 1].vc ELSE x
    PROVE  Heavier(Weigh(Prefix(c, k), vc), Weigh(c, x))
<1>. DEFINE p == Prefix(c, k)
            v == Weigh(p, vc)
            w == Weigh(c, x)
<1>1. /\ Len(c) \in Nat /\ p \in Paths /\ Len(p) = k
      /\ \A i \in 1 .. k : p[i] = c[i]
  BY PathFacts, PrefixFacts DEF Paths
<1>. HIDE DEF p
<1>2. /\ v \in Seq(Nat) /\ Len(v) = k + 1 /\ v[k + 1] = vc
      /\ \A i \in 1 .. k : v[i] = p[i].vc
  BY <1>1, WeighFacts
<1>3. /\ w \in Seq(Nat) /\ Len(w) = Len(c) + 1 /\ w[Len(c) + 1] = x
      /\ \A i \in 1 .. Len(c) : w[i] = c[i].vc
  BY WeighFacts
<1>. HIDE DEF v, w
<1>4. v[k + 1] > w[k + 1]
  <2>1. CASE k < Len(c)
    BY <1>1, <1>2, <1>3, <2>1
  <2>2. CASE k = Len(c)
    BY <1>2, <1>3, <2>2
  <2>. QED  BY <1>1, <2>1, <2>2
<1>5. ASSUME NEW j \in 1 .. k
      PROVE  v[j] = w[j]
  <2>1. j \in 1 .. Len(c)
    BY <1>1
  <2>. QED  BY <1>1, <1>2, <1>3, <2>1
<1>6. k + 1 \in 1 .. Len(w) /\ k + 1 <= Len(v) /\ (k + 1) - 1 = k
  BY <1>1, <1>2, <1>3
<1>7. Heavier(v, w)
  BY <1>2, <1>3, <1>4, <1>5, <1>6, HeavierMeans
<1>. QED  BY <1>7 DEF p, v, w

\* A block on top of the chain, of its view or a higher one.
LEMMA BlockIsHeavier ==
    ASSUME NEW p \in Paths, p # <<>>, NEW x \in Views, Last(p).vc >= x
    PROVE  /\ Heavier(Weigh(p, 0), Weigh(Front(p), x))
           /\ Heavier(Weigh(p, 0), ViewsOf(p))
<1>. DEFINE c == Front(p)
            v == Weigh(p, 0)
            w == Weigh(c, x)
            u == ViewsOf(p)
<1>1. /\ c \in Paths /\ Len(c) \in Nat /\ Len(p) = Len(c) + 1
      /\ \A i \in 1 .. Len(c) : c[i] = p[i]
      /\ Last(p) = p[Len(c) + 1]
  BY FrontFacts DEF Paths
<1>. HIDE DEF c
<1>2. /\ v \in Seq(Nat) /\ Len(v) = Len(c) + 2
      /\ \A i \in 1 .. Len(c) + 1 : v[i] = p[i].vc
  BY <1>1, WeighFacts, ViewsAreNumbers
<1>3. /\ w \in Seq(Nat) /\ Len(w) = Len(c) + 1 /\ w[Len(c) + 1] = x
      /\ \A i \in 1 .. Len(c) : w[i] = c[i].vc
  BY <1>1, WeighFacts
<1>4. /\ u \in Seq(Nat) /\ Len(u) = Len(c) + 1
      /\ \A i \in 1 .. Len(c) + 1 : u[i] = p[i].vc
  BY <1>1, ViewsFacts
<1>5. p[Len(c) + 1].vc \in Nat /\ x \in Nat /\ p[Len(c) + 1].vc >= x
  BY <1>1, PathFacts, ViewsAreNumbers
<1>. HIDE DEF v, w, u
<1>6. Heavier(v, u)
  <2>1. \A j \in 1 .. Len(u) : v[j] = u[j]
    BY <1>2, <1>4
  <2>2. Len(v) > Len(u)
    BY <1>1, <1>2, <1>4
  <2>. QED  BY <1>2, <1>4, <2>1, <2>2, HeavierMeans
<1>7. \A j \in 1 .. Len(c) : v[j] = w[j]
  <2>1. TAKE j \in 1 .. Len(c)
  <2>2. j \in 1 .. Len(c) + 1
    BY <1>1
  <2>. QED  BY <1>1, <1>2, <1>3, <2>2
<1>8. Len(c) + 1 \in 1 .. Len(w) /\ Len(c) + 1 <= Len(v) /\ (Len(c) + 1) - 1 = Len(c)
  BY <1>1, <1>2, <1>3
<1>9. CASE p[Len(c) + 1].vc > x
  <2>1. v[Len(c) + 1] > w[Len(c) + 1]
    BY <1>1, <1>2, <1>3, <1>9
  <2>. QED  BY <1>2, <1>3, <1>6, <1>7, <1>8, <2>1, HeavierMeans DEF v, w, u, c
<1>10. CASE p[Len(c) + 1].vc = x
  <2>1. v[Len(c) + 1] = w[Len(c) + 1]
    BY <1>1, <1>2, <1>3, <1>10
  <2>2. \A j \in 1 .. Len(w) : v[j] = w[j]
    BY <1>1, <1>3, <1>7, <2>1
  <2>3. Len(v) > Len(w)
    BY <1>1, <1>2, <1>3
  <2>4. Heavier(v, w)
    BY <1>2, <1>3, <2>2, <2>3, HeavierMeans
  <2>. QED  BY <1>6, <2>4 DEF v, w, u, c
<1>. QED  BY <1>5, <1>9, <1>10

-----------------------------------------------------------------------------
(* What the handlers return *)

OutOK(o) == IsFiniteSet(o) /\ \A m \in o : VoteOK(m) \/ ProofOK(m) \/ FeedOK(m)

Okay(s, r, N) == Local(r.s, N) /\ Grows(s, r.s) /\ OutOK(r.out)

LEMMA FeedIsOK ==
    ASSUME NEW from, NEW to, NEW start \in Nat
    PROVE  OutOK({Feed(from, to, start)})
  BY FS_Singleton DEF OutOK, FeedOK, Feed

LEMMA RequestIsOK ==
    ASSUME NEW n, NEW from
    PROVE  OutOK({Request(n, from)})
  BY FeedIsOK DEF Request

LEMMA SealedIsOK ==
    ASSUME NEW c \in Paths, NEW vc \in Views, vc > 0, NEW proof, NEW n
    PROVE  OutOK({SealedProof(ChainInfo(c, vc - 1), proof, n)})
<1>. DEFINE m == SealedProof(ChainInfo(c, vc - 1), proof, n)
<1>1. m.type = "proof" /\ m.info = [path |-> c, vc |-> vc - 1]
  BY DEF SealedProof, ChainInfo
<1>2. vc - 1 \in 0 .. MaxView + 2 /\ vc - 1 < MaxView
  BY ViewsAreNumbers
<1>3. m.info \in Infos /\ m.info.vc = vc - 1
  BY <1>1, <1>2 DEF Infos
<1>4. ProofOK(m)
  BY <1>1, <1>2, <1>3 DEF ProofOK
<1>. QED  BY <1>4, FS_Singleton DEF OutOK

LEMMA NothingIsOK == OutOK({})
  BY FS_EmptySet DEF OutOK

LEMMA BothAreOK ==
    ASSUME NEW o1, NEW o2, OutOK(o1), OutOK(o2)
    PROVE  OutOK(o1 \cup o2)
  BY FS_Union DEF OutOK

LEMMA SameIsOkay ==
    ASSUME NEW N, NEW s, Local(s, N), NEW r, r.s = s, OutOK(r.out)
    PROVE  Okay(s, r, N)
  BY DEF Okay, Grows

LEMMA CanceledIsOkay ==
    ASSUME NEW N, NEW s, Local(s, N), NEW o, OutOK(o), NEW r, r = Canceled(s, o)
    PROVE  Okay(s, r, N) /\ r.res \in {"canceled", "error", "ok"}
<1>1. r.s = s /\ r.out = o /\ r.res = "canceled"
  BY DEF Canceled
<1>. QED  BY <1>1, SameIsOkay

LEMMA ErrorIsOkay ==
    ASSUME NEW N, NEW s, Local(s, N),
           NEW r, r = [s |-> s, out |-> {}, res |-> "error"]
    PROVE  Okay(s, r, N) /\ r.res \in {"canceled", "error", "ok"}
<1>1. r.s = s /\ r.out = {} /\ r.res = "error"
  OBVIOUS
<1>. QED  BY <1>1, NothingIsOK, SameIsOkay

LEMMA StateFacts ==
    ASSUME NEW N, NEW s, Local(s, N)
    PROVE  /\ s \in NodeStates /\ s.chain \in Paths /\ s.vc \in Views
           /\ Len(s.chain) \in Nat /\ PathOK(s.chain, N)
           /\ s.proof = ProofFor(s.chain, s.vc)
  BY PathFacts DEF Local, NodeStates, ProofFor

\* The two ways to move.
LEMMA MovedBackIsOkay ==
    ASSUME NEW N, NEW s, Local(s, N), NEW k \in 0 .. Len(s.chain),
           NEW vc \in Views,
           vc > IF k < Len(s.chain) THEN s.chain[k + 1].vc ELSE s.vc,
           NEW r, r.s = Moved(s, Prefix(s.chain, k), vc), OutOK(r.out)
    PROVE  Okay(s, r, N)
<1>1. s.chain \in Paths /\ s.vc \in Views /\ PathOK(s.chain, N)
  BY StateFacts
<1>2. PathOK(Prefix(s.chain, k), N)
  BY <1>1, PathPrefix
<1>3. /\ Local(r.s, N) /\ r.s.chain = Prefix(s.chain, k) /\ r.s.vc = vc
      /\ r.s.done = s.done
  BY <1>2, MovedIsLocal
<1>4. Heavier(Weigh(Prefix(s.chain, k), vc), Weigh(s.chain, s.vc))
  BY <1>1, HigherViewIsHeavier
<1>5. Grows(s, r.s)
  BY <1>3, <1>4, WeightIsWeigh DEF Grows
<1>. QED  BY <1>3, <1>5 DEF Okay

LEMMA MovedOnIsOkay ==
    ASSUME NEW N, NEW s, Local(s, N), NEW p \in Paths, p # <<>>,
           PathOK(p, N), Front(p) = s.chain, Last(p).vc >= s.vc,
           NEW r, r.s = Moved(s, p, 0), OutOK(r.out)
    PROVE  Okay(s, r, N) /\ Heavier(Weight(r.s), ViewsOf(p))
<1>1. s.chain \in Paths /\ s.vc \in Views /\ 0 \in Views
  BY StateFacts, ViewsAreNumbers
<1>2. Local(r.s, N) /\ r.s.chain = p /\ r.s.vc = 0 /\ r.s.done = s.done
  BY <1>1, MovedIsLocal
<1>3. Heavier(Weigh(p, 0), Weigh(s.chain, s.vc)) /\ Heavier(Weigh(p, 0), ViewsOf(p))
  BY <1>1, BlockIsHeavier
<1>4. Grows(s, r.s) /\ Heavier(Weight(r.s), ViewsOf(p))
  BY <1>2, <1>3, WeightIsWeigh DEF Grows
<1>. QED  BY <1>2, <1>4 DEF Okay

LEMMA RollbackIsOkay ==
    ASSUME NEW N, NEW n, NEW s, Local(s, N), NEW from,
           NEW info \in Infos, info.vc < MaxView, NEW proof
    PROVE  /\ Okay(s, try_rollback(n, s, from, info, proof), N)
           /\ try_rollback(n, s, from, info, proof).res \in {"canceled", "error", "ok"}
<1>. DEFINE r == try_rollback(n, s, from, info, proof)
            count == Len(info.path)
            local_vc == IF count < offset(s) THEN s.chain[count + 1].vc ELSE s.vc
<1>1. /\ s \in NodeStates /\ s.chain \in Paths /\ s.vc \in Views
      /\ info.path \in Paths /\ count \in Nat /\ Len(s.chain) \in Nat
      /\ info.vc \in 0 .. MaxView + 2 /\ info = ChainInfo(info.path, info.vc)
  BY StateFacts, PathFacts DEF Infos, ChainInfo
<1>2. CASE s.done \/ count > offset(s) \/ info.vc < local_vc
  <2>1. r = Canceled(s, {})
    BY <1>2 DEF try_rollback
  <2>. QED  BY <2>1, NothingIsOK, SameIsOkay DEF Canceled
<1>3. CASE /\ ~(s.done \/ count > offset(s) \/ info.vc < local_vc)
           /\ info.path # Prefix(s.chain, count)
  <2>1. r = Canceled(s, {Request(n, from)})
    BY <1>3 DEF try_rollback
  <2>. QED  BY <2>1, RequestIsOK, SameIsOkay DEF Canceled
<1>4. CASE /\ ~(s.done \/ count > offset(s) \/ info.vc < local_vc)
           /\ info.path = Prefix(s.chain, count) /\ proof # info
  <2>1. r = [s |-> s, out |-> {}, res |-> "error"]
    BY <1>4 DEF try_rollback
  <2>. QED  BY <2>1, NothingIsOK, SameIsOkay
<1>5. CASE /\ ~(s.done \/ count > offset(s) \/ info.vc < local_vc)
           /\ info.path = Prefix(s.chain, count) /\ proof = info
  <2>. DEFINE t == update_validation_status(
                      SetViewChange(PopTo(s, count), info.vc + 1, proof))
  <2>1. r = [s |-> t, out |-> {}, res |-> "ok"]
    BY <1>5 DEF try_rollback
  <2>2. info.vc + 1 \in Views /\ info.vc + 1 # 0 /\ (info.vc + 1) - 1 = info.vc
    BY <1>1, ViewsAreNumbers DEF Views
  <2>3. ProofFor(Prefix(s.chain, count), info.vc + 1) = proof
    BY <1>1, <1>5, <2>2 DEF ProofFor
  <2>4. t = Moved(s, Prefix(s.chain, count), info.vc + 1)
    BY <1>1, <2>3 DEF update_validation_status, SetViewChange, PopTo, Moved, NodeStates
  <2>5. count \in 0 .. Len(s.chain)
    BY <1>1, <1>5 DEF offset
  <2>6. info.vc + 1 > IF count < Len(s.chain) THEN s.chain[count + 1].vc ELSE s.vc
    <3>1. local_vc \in Nat
      BY <1>1, PathFacts, ViewsAreNumbers DEF offset
    <3>. QED  BY <1>1, <1>5, <3>1 DEF offset
  <2>7. r.s = Moved(s, Prefix(s.chain, count), info.vc + 1) /\ r.out = {} /\ r.res = "ok"
    BY <2>1, <2>4
  <2>. HIDE DEF r, t, count
  <2>8. OutOK(r.out)
    BY <2>7, NothingIsOK
  <2>9. Okay(s, r, N)
    BY <2>2, <2>5, <2>6, <2>7, <2>8, MovedBackIsOkay
  <2>. QED  BY <2>7, <2>9 DEF r
<1>. QED  BY <1>2, <1>3, <1>4, <1>5

LEMMA ForkIsOkay ==
    ASSUME NEW N, NEW n, NEW s, Local(s, N), NEW b, BlockOK(b, N),
           Len(b.path) - 1 < Len(s.chain),
           select_leader(Prefix(s.chain, Len(b.path) - 1), Last(b.path).vc) = b.pkey
    PROVE  /\ Okay(s, resolve_fork(n, s, b), N)
           /\ resolve_fork(n, s, b).res \in {"canceled", "error", "ok"}
<1>. DEFINE r == resolve_fork(n, s, b)
            count == Len(b.path) - 1
            local == Prefix(s.chain, count + 1)
            vc == Last(b.path).vc
<1>1. /\ s \in NodeStates /\ s.chain \in Paths /\ Len(s.chain) \in Nat
      /\ PathOK(s.chain, N)
  BY StateFacts
<1>2. /\ b.path \in Paths /\ b.path # <<>> /\ b.pkey = Leader(b.path)
      /\ IsSigned(b.path, N) /\ b.proof \in Infos
  BY DEF BlockOK
<1>3. /\ Len(b.path) \in Nat \ {0} /\ count \in Nat /\ count + 1 = Len(b.path)
      /\ Front(b.path) \in Paths /\ Last(b.path) \in Entry /\ vc \in Views
  <2>1. /\ Len(b.path) \in Nat \ {0} /\ Front(b.path) \in Paths /\ Last(b.path) \in Entry
    BY <1>2, FrontFacts DEF Paths
  <2>. QED  BY <2>1 DEF Entry
<1>4. /\ local \in Paths /\ local # <<>> /\ Len(local) = count + 1
      /\ Front(local) = Prefix(s.chain, count) /\ Last(local).vc \in Views
      /\ IsSigned(local, N)
  <2>1. count + 1 \in 1 .. Len(s.chain) /\ count + 1 \in 0 .. Len(s.chain)
    BY <1>1, <1>3
  <2>2. /\ local \in Paths /\ Len(local) = count + 1
        /\ Prefix(local, count) = Prefix(s.chain, count)
    <3>1. count \in 0 .. count + 1 /\ s.chain \in Seq(Entry)
      BY <1>1, <1>3 DEF Paths
    <3>. HIDE DEF count
    <3>. QED  BY <2>1, <3>1, PrefixFacts DEF Paths
  <2>3. local # <<>>
    BY <1>3, <2>2
  <2>4. Front(local) = Prefix(local, count) /\ Last(local) \in Entry
    BY <1>3, <2>2, <2>3, FrontFacts DEF Paths
  <2>5. IsSigned(local, N)
    BY <1>1, <2>1 DEF PathOK
  <2>. QED  BY <2>2, <2>3, <2>4, <2>5 DEF Entry
<1>5. CASE b.path = local
  <2>1. r = Canceled(s, {})
    BY <1>5 DEF resolve_fork
  <2>. QED  BY <2>1, NothingIsOK, CanceledIsOkay
<1>6. CASE b.path # local /\ vc = Last(local).vc
  <2>. DEFINE t == [s EXCEPT !.cheats[b.pkey] = {b.path, local}]
  <2>1. r = Canceled(t, {})
    BY <1>6 DEF resolve_fork
  <2>2. Leader(local) = b.pkey
    BY <1>4, <1>6 DEF Leader
  <2>3. IsEvidence({b.path, local}, b.pkey, N)
    BY <1>2, <1>4, <1>6, <2>2 DEF IsEvidence
  <2>4. /\ t \in NodeStates /\ t.chain = s.chain /\ t.vc = s.vc /\ t.done = s.done
        /\ t.proof = s.proof /\ t.votes = s.votes
        /\ \A v \in Validators : t.cheats[v] = IF v = b.pkey THEN {b.path, local}
                                              ELSE s.cheats[v]
    BY <1>1, <1>2, <1>4 DEF NodeStates
  <2>. HIDE DEF t, local, r
  <2>5. Local(t, N)
    BY <2>3, <2>4 DEF Local
  <2>6. Grows(s, t)
    BY <2>4, WeightIsWeigh DEF Grows
  <2>7. r.s = t /\ r.out = {} /\ r.res = "canceled"
    BY <2>1 DEF Canceled
  <2>. QED  BY <2>5, <2>6, <2>7, NothingIsOK DEF Okay, r
<1>7. CASE b.path # local /\ vc < Last(local).vc
  <2>0. vc # Last(local).vc
    BY <1>3, <1>4, <1>7, ViewsAreNumbers
  <2>1. r = Canceled(s, {Feed(n, b.pkey, count)})
    BY <1>7, <2>0 DEF resolve_fork
  <2>2. OutOK({Feed(n, b.pkey, count)})
    BY <1>3, FeedIsOK
  <2>. QED  BY <2>1, <2>2, CanceledIsOkay
<1>8. CASE b.path # local /\ vc > Last(local).vc /\ b.proof = NoProof
  <2>0. vc # Last(local).vc /\ ~(vc < Last(local).vc)
    BY <1>3, <1>4, <1>8, ViewsAreNumbers
  <2>1. r = [s |-> s, out |-> {}, res |-> "error"]
    BY <1>8, <2>0 DEF resolve_fork
  <2>. QED  BY <2>1, ErrorIsOkay
<1>9. CASE b.path # local /\ vc > Last(local).vc /\ b.proof # NoProof
  <2>0. vc # Last(local).vc /\ ~(vc < Last(local).vc)
    BY <1>3, <1>4, <1>9, ViewsAreNumbers
  <2>. DEFINE info == ChainInfo(Front(b.path), vc - 1)
  <2>1. r = try_rollback(n, s, b.pkey, info, b.proof)
    BY <1>9, <2>0 DEF resolve_fork
  <2>2. vc - 1 \in 0 .. MaxView + 2 /\ vc - 1 < MaxView
    BY <1>3, <1>4, <1>9, ViewsAreNumbers
  <2>3. info \in Infos /\ info.vc < MaxView
    BY <1>3, <2>2 DEF Infos, ChainInfo
  <2>. HIDE DEF info, r
  <2>4. Okay(s, r, N) /\ r.res \in {"canceled", "error", "ok"}
    BY <2>1, <2>3, RollbackIsOkay
  <2>. QED  BY <2>4 DEF r
<1>. QED  BY <1>3, <1>4, <1>5, <1>6, <1>7, <1>8, <1>9, ViewsAreNumbers

LEMMA ApplyIsOkay ==
    ASSUME NEW N, NEW n, NEW s, Local(s, N), NEW b, BlockOK(b, N)
    PROVE  /\ Okay(s, apply_micro_block(n, s, b), N)
           /\ apply_micro_block(n, s, b).ok \in BOOLEAN
<1>. DEFINE r == apply_micro_block(n, s, b)
            res == validate_micro_block(s, b)
            vc == Last(b.path).vc
<1>1. /\ s \in NodeStates /\ s.chain \in Paths /\ s.vc \in Views
      /\ PathOK(s.chain, N) /\ Len(s.chain) \in Nat
  BY StateFacts
<1>2. /\ b.path \in Paths /\ b.path # <<>> /\ IsSigned(b.path, N) /\ IsClean(b.path, N)
  BY DEF BlockOK
<1>3. vc \in Views
  <2>1. Last(b.path) \in Entry
    BY <1>2, FrontFacts DEF Paths
  <2>. QED  BY <2>1 DEF Entry
<1>4. CASE res = "ok"
  <2>1. /\ Len(s.chain) # MicroBlocks /\ Front(b.path) = s.chain /\ ~(vc < s.vc)
    BY <1>4 DEF validate_micro_block, is_epoch_full, offset
  <2>2. vc >= s.vc
    BY <1>1, <1>3, <2>1, ViewsAreNumbers
  <2>9. IsSound(b.path)
    BY <1>4 DEF validate_micro_block, SlashingIsValid, CanConfiscate, EvidenceIsValid, IsSound
  <2>3. PathOK(b.path, N)
    BY <1>1, <1>2, <2>1, <2>9, PathExtended
  <2>4. r = Done(PushMicro(s, b), {})
    BY <1>4 DEF apply_micro_block
  <2>5. PushMicro(s, b) = Moved(s, b.path, 0)
    BY <1>1 DEF PushMicro, update_validation_status, Moved, ProofFor, NodeStates
  <2>6. r.s = Moved(s, b.path, 0) /\ r.out = {} /\ r.ok = TRUE
    BY <2>4, <2>5 DEF Done
  <2>. HIDE DEF r
  <2>7. Okay(s, r, N)
    BY <1>2, <2>1, <2>2, <2>3, <2>6, NothingIsOK, MovedOnIsOkay
  <2>. QED  BY <2>6, <2>7 DEF r
<1>5. CASE res = "InvalidPreviousHash"
  <2>1. r = Done(s, {Request(n, select_leader(s.chain, vc))})
    BY <1>5 DEF apply_micro_block
  <2>. QED  BY <2>1, RequestIsOK, SameIsOkay DEF Done
<1>6. CASE res = "InvalidViewChange"
  <2>1. r = Done(s, {SealedProof(ChainInfo(s.chain, s.vc - 1), s.proof, n)})
    BY <1>6 DEF apply_micro_block
  <2>2. vc < s.vc
    BY <1>6 DEF validate_micro_block
  <2>3. s.vc > 0
    BY <1>1, <1>3, <2>2, ViewsAreNumbers
  <2>4. OutOK({SealedProof(ChainInfo(s.chain, s.vc - 1), s.proof, n)})
    BY <1>1, <2>3, SealedIsOK
  <2>. QED  BY <2>1, <2>4, SameIsOkay DEF Done
<1>7. CASE res \notin {"ok", "InvalidPreviousHash", "InvalidViewChange"}
  <2>1. r = Done(s, {})
    BY <1>7 DEF apply_micro_block
  <2>. QED  BY <2>1, NothingIsOK, SameIsOkay DEF Done
<1>. QED  BY <1>4, <1>5, <1>6, <1>7

LEMMA BlockIsOkay ==
    ASSUME NEW N, NEW n, NEW s, Local(s, N), NEW b, BlockOK(b, N)
    PROVE  /\ Okay(s, handle_micro_block(n, s, b), N)
           /\ handle_micro_block(n, s, b).ok \in BOOLEAN
<1>. DEFINE h == handle_micro_block(n, s, b)
            count == Len(b.path) - 1
            r == resolve_fork(n, s, b)
            leads == select_leader(Prefix(s.chain, count), Last(b.path).vc) = b.pkey
<1>1. /\ Len(s.chain) \in Nat /\ Len(b.path) \in Nat
  BY StateFacts, PathFacts DEF BlockOK
<1>2. CASE s.done \/ count > offset(s)
  <2>1. h = Done(s, {})
    BY <1>2 DEF handle_micro_block
  <2>. QED  BY <2>1, NothingIsOK, SameIsOkay DEF Done
<1>3. CASE ~(s.done \/ count > offset(s)) /\ ~leads
  <2>1. h = Failed(s)
    BY <1>3 DEF handle_micro_block
  <2>. QED  BY <2>1, NothingIsOK, SameIsOkay DEF Failed
<1>4. CASE ~(s.done \/ count > offset(s)) /\ leads /\ count = offset(s)
  <2>1. h = apply_micro_block(n, s, b)
    BY <1>4 DEF handle_micro_block
  <2>. QED  BY <2>1, ApplyIsOkay
<1>5. CASE ~(s.done \/ count > offset(s)) /\ leads /\ count # offset(s)
  <2>1. count < Len(s.chain)
    BY <1>1, <1>5 DEF offset
  <2>2. Okay(s, r, N) /\ r.res \in {"canceled", "error", "ok"}
    BY <1>5, <2>1, ForkIsOkay
  <2>3. CASE r.res = "canceled"
    <3>1. h = Done(r.s, r.out)
      BY <1>5, <2>3 DEF handle_micro_block
    <3>2. h.s = r.s /\ h.out = r.out /\ h.ok = TRUE
      BY <3>1 DEF Done
    <3>. HIDE DEF h, r
    <3>. QED  BY <2>2, <3>2 DEF Okay, h
  <2>4. CASE r.res = "error"
    <3>1. h = Failed(s)
      BY <1>5, <2>4 DEF handle_micro_block
    <3>. QED  BY <3>1, NothingIsOK, SameIsOkay DEF Failed
  <2>5. CASE r.res = "ok"
    <3>. DEFINE a == apply_micro_block(n, r.s, b)
    <3>1. h = Done(a.s, r.out \cup a.out)
      BY <1>5, <2>5 DEF handle_micro_block
    <3>2. h.s = a.s /\ h.out = r.out \cup a.out /\ h.ok = TRUE
      BY <3>1 DEF Done
    <3>. HIDE DEF h, r
    <3>3. Local(r.s, N) /\ Grows(s, r.s) /\ OutOK(r.out)
      BY <2>2 DEF Okay
    <3>4. Okay(r.s, a, N)
      BY <3>3, ApplyIsOkay
    <3>. HIDE DEF a
    <3>5. Local(a.s, N) /\ Grows(r.s, a.s) /\ OutOK(a.out)
      BY <3>4 DEF Okay
    <3>6. Grows(s, a.s)
      BY <3>3, <3>5, StateFacts, GrowsTwice
    <3>7. OutOK(r.out \cup a.out)
      BY <3>3, <3>5, BothAreOK
    <3>. QED  BY <3>2, <3>5, <3>6, <3>7 DEF Okay, h
  <2>. QED  BY <2>2, <2>3, <2>4, <2>5
<1>. QED  BY <1>2, <1>3, <1>4, <1>5

LEMMA CollectIsOkay ==
    ASSUME NEW N, NEW n, NEW s, Local(s, N), NEW m, VoteOK(m),
           m.info.path = s.chain, m.info.vc = s.vc
    PROVE  Okay(s, Collect(n, s, m), N)
<1>. DEFINE r == Collect(n, s, m)
            votes == IF m.from \in {v.from : v \in s.votes} THEN s.votes
                     ELSE s.votes \cup {m}
            info == ChainInfo(s.chain, s.vc)
<1>1. /\ s \in NodeStates /\ s.chain \in Paths /\ s.vc \in Views /\ Len(s.chain) \in Nat
      /\ s.votes \subseteq Votes
  BY StateFacts DEF NodeStates
<1>2. m \in Votes /\ m.info = info /\ s.vc < MaxView
  BY DEF VoteOK, Votes, Infos, ChainInfo
<1>3. votes \subseteq Votes /\ votes # {} /\ \A v \in votes : v.info = info
  BY <1>1, <1>2 DEF Local
<1>. HIDE DEF votes, info
<1>4. CASE Quorum({v.from : v \in votes})
  <2>. DEFINE t == [SetViewChange(s, s.vc + 1, ViewChangeProof(votes)) EXCEPT !.votes = {}]
  <2>1. r = Done(t, {})
    BY <1>4 DEF Collect, votes
  <2>2. ViewChangeProof(votes) = info
    <3>1. PICK x \in votes : TRUE
      BY <1>3
    <3>2. info \in {v.info : v \in votes} /\ \A v \in votes : v.info = info
      BY <1>3, <3>1
    <3>3. (CHOOSE v \in votes : TRUE) \in votes
      BY <3>1
    <3>. QED  BY <1>3, <3>2, <3>3 DEF ViewChangeProof
  <2>3. s.vc + 1 \in Views /\ s.vc + 1 # 0 /\ (s.vc + 1) - 1 = s.vc /\ s.vc + 1 > s.vc
    BY <1>1, <1>2, ViewsAreNumbers DEF Views
  <2>4. ProofFor(s.chain, s.vc + 1) = info
    BY <2>3 DEF ProofFor, info
  <2>5. t = Moved(s, s.chain, s.vc + 1)
    BY <1>1, <2>2, <2>4 DEF SetViewChange, Moved, NodeStates
  <2>6. Prefix(s.chain, Len(s.chain)) = s.chain /\ Len(s.chain) \in 0 .. Len(s.chain)
    BY <1>1, PrefixFacts DEF Paths
  <2>7. r.s = Moved(s, Prefix(s.chain, Len(s.chain)), s.vc + 1) /\ r.out = {}
    BY <2>1, <2>5, <2>6 DEF Done
  <2>8. s.vc + 1 > IF Len(s.chain) < Len(s.chain) THEN s.chain[Len(s.chain) + 1].vc
                   ELSE s.vc
    BY <1>1, <2>3
  <2>9. OutOK(r.out)
    BY <2>7, NothingIsOK
  <2>. HIDE DEF r, t
  <2>10. Okay(s, r, N)
    BY <2>3, <2>6, <2>7, <2>8, <2>9, MovedBackIsOkay
  <2>. QED  BY <2>10 DEF r
<1>5. CASE ~Quorum({v.from : v \in votes})
  <2>. DEFINE t == [s EXCEPT !.votes = votes]
  <2>1. r = Done(t, {})
    BY <1>5 DEF Collect, votes
  <2>2. /\ t \in NodeStates /\ t.chain = s.chain /\ t.vc = s.vc /\ t.done = s.done
        /\ t.proof = s.proof /\ t.votes = votes /\ t.cheats = s.cheats
    BY <1>1, <1>3 DEF NodeStates
  <2>3. r.s = t /\ r.out = {}
    BY <2>1 DEF Done
  <2>. HIDE DEF r, t
  <2>4. Local(t, N)
    BY <1>3, <2>2 DEF Local, info
  <2>5. Grows(s, t)
    BY <2>2, WeightIsWeigh DEF Grows
  <2>. QED  BY <2>3, <2>4, <2>5, NothingIsOK DEF Okay, r
<1>. QED  BY <1>4, <1>5

LEMMA DoneIsOkay ==
    ASSUME NEW N, NEW s, Local(s, N), NEW o, OutOK(o), NEW r, r = Done(s, o)
    PROVE  Okay(s, r, N)
<1>1. r.s = s /\ r.out = o
  BY DEF Done
<1>. QED  BY <1>1, SameIsOkay

LEMMA FailedIsOkay ==
    ASSUME NEW N, NEW s, Local(s, N), NEW r, r = Failed(s)
    PROVE  Okay(s, r, N)
<1>1. r.s = s /\ r.out = {}
  BY DEF Failed
<1>. QED  BY <1>1, NothingIsOK, SameIsOkay

LEMMA VoteIsOkay ==
    ASSUME NEW N, NEW n, NEW s, Local(s, N), NEW m, VoteOK(m)
    PROVE  Okay(s, handle_view_change_message(n, s, m), N)
<1>. DEFINE r == handle_view_change_message(n, s, m)
<1>1. s.vc \in Nat /\ m.info.vc \in Nat
  BY StateFacts, ViewsAreNumbers DEF VoteOK, Votes, Infos
<1>2. \/ r = Done(s, {})
      \/ r = Failed(s)
      \/ r = Done(s, {Request(n, m.from)})
      \/ r = Collect(n, s, m) /\ m.info.path = s.chain /\ m.info.vc = s.vc
  BY <1>1 DEF handle_view_change_message
<1>. HIDE DEF r
<1>3. Okay(s, r, N)
  BY <1>2, DoneIsOkay, FailedIsOkay, NothingIsOK, RequestIsOK, CollectIsOkay
<1>. QED  BY <1>3 DEF r

LEMMA TimerIsOkay ==
    ASSUME NEW N, NEW n \in Validators, NEW s, Local(s, N), s.vc < MaxView
    PROVE  Okay(s, handle_micro_block_viewchange_timer(n, s), N)
<1>. DEFINE vote == Vote(n, ChainInfo(s.chain, s.vc))
            r == handle_view_change_message(n, s, vote)
            o == IF r.s.proof = NoProof THEN {}
                 ELSE {SealedProof(ChainInfo(r.s.chain, r.s.vc - 1), r.s.proof, n)}
            h == handle_micro_block_viewchange_timer(n, s)
<1>1. s.chain \in Paths /\ s.vc \in 0 .. MaxView + 2
  BY StateFacts, ViewsAreNumbers
<1>2. VoteOK(vote)
  BY <1>1 DEF VoteOK, Votes, Vote, Infos, ChainInfo
<1>3. h = Done(r.s, r.out \cup {vote} \cup o)
  BY DEF handle_micro_block_viewchange_timer
<1>4. h.s = r.s /\ h.out = r.out \cup {vote} \cup o
  BY <1>3 DEF Done
<1>. HIDE DEF vote
<1>5. Okay(s, r, N)
  BY <1>2, VoteIsOkay
<1>. HIDE DEF r, h
<1>6. Local(r.s, N) /\ Grows(s, r.s) /\ OutOK(r.out)
  BY <1>5 DEF Okay
<1>7. OutOK({vote})
  BY <1>2, FS_Singleton DEF OutOK
<1>8. OutOK(o)
  <2>1. r.s.chain \in Paths /\ r.s.vc \in Views /\ r.s.proof = ProofFor(r.s.chain, r.s.vc)
    BY <1>6, StateFacts
  <2>2. CASE r.s.proof = NoProof
    BY <2>2, NothingIsOK
  <2>3. CASE r.s.proof # NoProof
    <3>1. r.s.vc > 0
      BY <2>1, <2>3, ViewsAreNumbers DEF ProofFor
    <3>2. OutOK({SealedProof(ChainInfo(r.s.chain, r.s.vc - 1), r.s.proof, n)})
      BY <2>1, <3>1, SealedIsOK
    <3>. QED  BY <2>3, <3>2
  <2>. QED  BY <2>2, <2>3
<1>. HIDE DEF o
<1>9. OutOK(r.out \cup {vote} \cup o)
  BY <1>6, <1>7, <1>8, BothAreOK
<1>. QED  BY <1>4, <1>6, <1>9 DEF Okay, h

LEMMA FreshIsLocal ==
    ASSUME NEW N, NEW c, PathOK(c, N), NEW done \in BOOLEAN
    PROVE  /\ Local(Fresh(c, done), N)
           /\ Fresh(c, done).done = done
<1>. DEFINE t == Fresh(c, done)
<1>1. c \in Paths /\ NoProof \in Infos /\ 0 \in Views
  <2>1. c \in Paths /\ 0 \in Views
    BY ViewsAreNumbers DEF PathOK
  <2>2. ProofFor(c, 0) \in Infos
    BY <2>1, ProofForType
  <2>. QED  BY <2>1, <2>2 DEF ProofFor
<1>2. /\ t \in NodeStates /\ t.chain = c /\ t.vc = 0 /\ t.proof = NoProof
      /\ t.votes = {} /\ t.done = done
      /\ \A v \in Validators : t.cheats[v] = NoEvidence
  BY <1>1 DEF Fresh, NodeStates, NoEvidence
<1>. HIDE DEF t
<1>3. Local(t, N)
  BY <1>2 DEF Local
<1>. QED  BY <1>2, <1>3 DEF t

LEMMA MacroIsOkay ==
    ASSUME NEW N, NEW s, Local(s, N)
    PROVE  Okay(s, Done(apply_macro_block(s), {}), N)
<1>1. PathOK(<<>>, N)
  BY MicroChainAssumption DEF PathOK, Paths
<1>2. CASE s.done
  BY <1>2, DoneIsOkay, NothingIsOK DEF apply_macro_block
<1>3. CASE ~s.done
  <2>. DEFINE t == Fresh(<<>>, TRUE)
              r == Done(t, {})
  <2>1. Local(t, N) /\ t.done = TRUE
    BY <1>1, FreshIsLocal
  <2>2. apply_macro_block(s) = t
    BY <1>3 DEF apply_macro_block
  <2>3. r.s = t /\ r.out = {}
    BY DEF Done
  <2>. HIDE DEF t, r
  <2>4. Okay(s, r, N)
    BY <2>1, <2>3, NothingIsOK DEF Okay, Grows
  <2>. QED  BY <2>2, <2>4 DEF r
<1>. QED  BY <1>2, <1>3

-----------------------------------------------------------------------------
(* The blocks of a response, one after the other *)

\* One block of the response.
Fed(n, peer, r, i) ==
    IF ~r.ok THEN r
    ELSE LET p == Prefix(peer.chain, i)
             h == handle_micro_block(n, r.s, Block(p, ProofOf(p)))
         IN  [h EXCEPT !.out = @ \cup r.out]

Offsets(peer, start) == [i \in 1 .. offset(peer) - start |-> start + i]

\* The fold over the response, as FoldLeft does it: g[x] is the result after
\* the blocks at the places in x.
IsFeeding(g, n, s, peer, start) ==
    g = [x \in SUBSET DOMAIN Offsets(peer, start) |->
            IF x = {} THEN Done(s, {})
            ELSE Fed(n, peer, g[x \ {Max(x)}], Offsets(peer, start)[Max(x)])]

LEMMA ResponseIsFold ==
    ASSUME NEW n, NEW s, NEW peer, ~peer.done, NEW start
    PROVE  handle_response_blocks(n, s, peer, start)
             = (CHOOSE g : IsFeeding(g, n, s, peer, start))[DOMAIN Offsets(peer, start)]
  BY DEF handle_response_blocks, FoldLeft, MapThenFoldSet, IsFeeding, Fed, Offsets

LEMMA MaxIsThere ==
    ASSUME NEW k \in Int, NEW x \in SUBSET (1 .. k), x # {}
    PROVE  Max(x) \in x
<1>. DEFINE T == {k - y : y \in x}
<1>0. \A y \in x : y \in Int /\ 1 <= y /\ y <= k
  OBVIOUS
<1>1. T \subseteq Nat /\ T # {}
  <2>1. \A y \in x : k - y \in Nat
    BY <1>0
  <2>. QED  BY <2>1
<1>2. PICK m \in T : \A j \in T : m <= j
  BY <1>1, Minimum
<1>3. PICK y \in x : m = k - y
  BY <1>2
<1>4. ASSUME NEW z \in x
      PROVE  y >= z
  <2>1. m <= k - z
    BY <1>2
  <2>. QED  BY <1>0, <1>3, <2>1
<1>. QED  BY <1>4 DEF Max

LEMMA BlockOfChain ==
    ASSUME NEW N, NEW c, PathOK(c, N), NEW i \in 1 .. Len(c)
    PROVE  BlockOK(Block(Prefix(c, i), ProofOf(Prefix(c, i))), N)
<1>. DEFINE p == Prefix(c, i)
            b == Block(p, ProofOf(p))
<1>1. c \in Paths /\ Len(c) \in Nat /\ i \in 0 .. Len(c)
  BY PathFacts DEF PathOK
<1>2. p \in Paths /\ Len(p) = i
  BY <1>1, PrefixFacts DEF Paths
<1>3. p # <<>>
  BY <1>2
<1>4. IsSigned(p, N) /\ IsClean(p, N)
  BY DEF PathOK
<1>. HIDE DEF p
<1>5. Front(p) \in Paths /\ Last(p) \in Entry
  BY <1>2, <1>3, FrontFacts DEF Paths
<1>6. Last(p).vc \in Views
  BY <1>5 DEF Entry
<1>7. ProofOf(p) = ProofFor(Front(p), Last(p).vc)
  BY DEF ProofOf
<1>8. ProofOf(p) \in Infos
  BY <1>5, <1>6, <1>7, ProofForType
<1>9. b.type = "block" /\ b.path = p /\ b.proof = ProofOf(p) /\ b.pkey = Leader(p)
  BY DEF Block, Leader
<1>. HIDE DEF b
<1>10. BlockOK(b, N)
  BY <1>2, <1>3, <1>4, <1>8, <1>9 DEF BlockOK
<1>. QED  BY <1>10 DEF b, p

LEMMA ResponseIsOkay ==
    ASSUME NEW N, NEW n, NEW s, Local(s, N), NEW peer, Local(peer, N),
           NEW start \in Nat
    PROVE  Okay(s, handle_response_blocks(n, s, peer, start), N)
<1>1. CASE peer.done
  <2>1. handle_response_blocks(n, s, peer, start) = Done(apply_macro_block(s), {})
    BY <1>1 DEF handle_response_blocks
  <2>. QED  BY <2>1, MacroIsOkay
<1>2. CASE ~peer.done
  <2>. DEFINE k == offset(peer) - start
              I == 1 .. k
              seq == Offsets(peer, start)
  <2>1. k \in Int /\ DOMAIN seq = I /\ IsFiniteSet(I) /\ offset(peer) \in Nat
        /\ \A i \in I : seq[i] \in 1 .. offset(peer)
    <3>1. offset(peer) \in Nat
      BY StateFacts DEF offset
    <3>2. k \in Int
      BY <3>1
    <3>3. IsFiniteSet(I)
      BY <3>2, FS_Interval
    <3>. QED  BY <3>1, <3>2, <3>3 DEF Offsets
  <2>. HIDE DEF k
  <2>. DEFINE B(i) == Block(Prefix(peer.chain, seq[i]), ProofOf(Prefix(peer.chain, seq[i])))
              O == UNION {handle_micro_block(n, t, B(i)).out : t \in NodeStates, i \in I}
              S == {r \in [s : NodeStates, out : SUBSET O, ok : BOOLEAN] : Okay(s, r, N)}
              D == [i \in I |-> [r \in S |-> Fed(n, peer, r, seq[i])]]
              base == Done(s, {})
              ch == [x \in SUBSET I |-> Max(x)]
  <2>2. base \in S
    <3>1. Okay(s, base, N)
      BY DoneIsOkay, NothingIsOK
    <3>2. s \in NodeStates
      BY StateFacts
    <3>. QED  BY <3>1, <3>2 DEF Done
  <2>3. ASSUME NEW i \in I, NEW r \in S
        PROVE  Fed(n, peer, r, seq[i]) \in S
    <3>1. CASE ~r.ok
      BY <3>1 DEF Fed
    <3>2. CASE r.ok
      <4>. DEFINE h == handle_micro_block(n, r.s, B(i))
                  g == Fed(n, peer, r, seq[i])
      <4>1. /\ r.s \in NodeStates /\ Local(r.s, N) /\ Grows(s, r.s) /\ OutOK(r.out)
            /\ r.out \subseteq O
        BY DEF Okay
      <4>2. BlockOK(B(i), N)
        <5>1. PathOK(peer.chain, N) /\ seq[i] \in 1 .. Len(peer.chain)
          BY <2>1, StateFacts DEF offset
        <5>. HIDE DEF seq
        <5>. QED  BY <5>1, BlockOfChain
      <4>3. h.out \subseteq O
        BY <4>1
      <4>. HIDE DEF B, O
      <4>4. Okay(r.s, h, N) /\ h.ok \in BOOLEAN
        BY <4>1, <4>2, BlockIsOkay
      <4>5. g = [h EXCEPT !.out = @ \cup r.out]
        BY <3>2 DEF Fed, B
      <4>6. h = [s |-> h.s, out |-> h.out, ok |-> h.ok]
        BY DEF handle_micro_block, apply_micro_block, Done, Failed
      <4>7. g = [s |-> h.s, out |-> h.out \cup r.out, ok |-> h.ok]
        BY <4>5, <4>6
      <4>. HIDE DEF h, g
      <4>8. Local(h.s, N) /\ Grows(r.s, h.s) /\ OutOK(h.out)
        BY <4>4 DEF Okay
      <4>9. Grows(s, h.s)
        BY <4>1, <4>8, StateFacts, GrowsTwice
      <4>10. OutOK(h.out \cup r.out) /\ h.out \cup r.out \subseteq O
        BY <4>1, <4>3, <4>8, BothAreOK DEF h
      <4>11. Okay(s, g, N)
        BY <4>7, <4>8, <4>9, <4>10 DEF Okay
      <4>12. h.s \in NodeStates
        BY <4>8, StateFacts
      <4>. QED  BY <4>4, <4>7, <4>10, <4>11, <4>12 DEF g
    <3>. QED  BY <3>1, <3>2
  <2>. HIDE DEF S, O
  <2>4. D \in [I -> [S -> S]]
    BY <2>3
  <2>5. \A x \in SUBSET I : x # {} => ch[x] \in x
    BY <2>1, MaxIsThere
  <2>6. PICK f : f \in [SUBSET I -> S] /\ IsFold(f, I, base, D, ch)
    <3>. HIDE DEF D, ch, base, I
    <3>1. CanFold(I, S, base, D, ch)
      BY <2>1, <2>2, <2>4, <2>5 DEF CanFold
    <3>. QED  BY <3>1, FoldExists
  <2>7. IsFeeding(f, n, s, peer, start)
    <3>1. f = [x \in SUBSET I |-> IF x = {} THEN base ELSE D[ch[x]][f[x \ {ch[x]}]]]
      BY <2>6 DEF IsFold
    <3>2. ASSUME NEW x \in SUBSET I, x # {}
          PROVE  D[ch[x]][f[x \ {ch[x]}]] = Fed(n, peer, f[x \ {Max(x)}], seq[Max(x)])
      <4>1. ch[x] = Max(x) /\ Max(x) \in x /\ x \ {Max(x)} \in SUBSET I
        BY <2>5, <3>2
      <4>2. f[x \ {Max(x)}] \in S /\ Max(x) \in I
        BY <2>6, <4>1
      <4>. HIDE DEF seq, I, ch
      <4>. QED  BY <4>1, <4>2
    <3>. HIDE DEF D, ch, I, seq, base
    <3>3. f = [x \in SUBSET I |-> IF x = {} THEN base
                                 ELSE Fed(n, peer, f[x \ {Max(x)}], seq[Max(x)])]
      BY <3>1, <3>2
    <3>. QED  BY <2>1, <3>3 DEF IsFeeding, seq, base
  <2>. DEFINE g == CHOOSE h : IsFeeding(h, n, s, peer, start)
  <2>8. IsFeeding(g, n, s, peer, start)
    BY <2>7
  <2>. HIDE DEF g
  <2>9. g = [x \in SUBSET I |-> IF x = {} THEN base
                               ELSE Fed(n, peer, g[x \ {Max(x)}], seq[Max(x)])]
    BY <2>1, <2>8 DEF IsFeeding
  <2>. DEFINE T == {x \in SUBSET I : g[x] \in S}
  <2>10. SUBSET I \subseteq T
    <3>1. {} \in T
      BY <2>2, <2>9
    <3>2. ASSUME NEW x \in SUBSET I, x # {}, \A y \in x : x \ {y} \in T
          PROVE  x \in T
      <4>1. Max(x) \in x /\ Max(x) \in I
        BY <2>5, <3>2
      <4>2. g[x \ {Max(x)}] \in S
        BY <3>2, <4>1
      <4>. HIDE DEF seq, I, base
      <4>3. g[x] = Fed(n, peer, g[x \ {Max(x)}], seq[Max(x)])
        BY <2>9, <3>2
      <4>. QED  BY <2>3, <4>1, <4>2, <4>3
    <3>3. IsFiniteSet(I)
      BY <2>1
    <3>. HIDE DEF T, I
    <3>4. \A x \in SUBSET I : x # {} /\ (\A y \in x : x \ {y} \in T) => x \in T
      BY <3>2
    <3>. QED  BY <3>1, <3>3, <3>4, SetInduction
  <2>11. g[I] \in S
    BY <2>10
  <2>12. handle_response_blocks(n, s, peer, start) = g[I]
    BY <1>2, <2>1, ResponseIsFold DEF g
  <2>. QED  BY <2>11, <2>12 DEF S
<1>. QED  BY <1>1, <1>2

-----------------------------------------------------------------------------
(* The invariant *)

\* What holds of a node or a message holds when more has been sent.
LEMMA Monotone ==
    ASSUME NEW N, NEW N2, N \subseteq N2
    PROVE  /\ \A p : PathOK(p, N) => PathOK(p, N2)
           /\ \A s : Local(s, N) => Local(s, N2)
           /\ \A m : MsgOK(m, N) => MsgOK(m, N2)
<1>1. \A p : IsSigned(p, N) => IsSigned(p, N2)
  BY DEF IsSigned
<1>2. \A p : IsClean(p, N) => IsClean(p, N2)
  <2>1. \A v : SignedTwo(v, N) => SignedTwo(v, N2)
    BY DEF SignedTwo
  <2>. QED  BY <2>1 DEF IsClean, IsFounded
<1>3. \A p : PathOK(p, N) => PathOK(p, N2)
  BY <1>1, <1>2 DEF PathOK
<1>4. \A e, v : IsEvidence(e, v, N) => IsEvidence(e, v, N2)
  BY <1>1 DEF IsEvidence
<1>5. \A s : Local(s, N) => Local(s, N2)
  BY <1>3, <1>4 DEF Local
<1>6. \A m : MsgOK(m, N) => MsgOK(m, N2)
  BY <1>1, <1>2 DEF MsgOK, BlockOK
<1>. QED  BY <1>3, <1>5, <1>6

LEMMA TypesDiffer ==
    ASSUME NEW N, NEW m
    PROVE  /\ VoteOK(m) => m.type = "vote"
           /\ MsgOK(m, N) /\ m.type = "block" => BlockOK(m, N)
           /\ MsgOK(m, N) /\ m.type = "vote" => VoteOK(m)
           /\ MsgOK(m, N) /\ m.type = "proof" => ProofOK(m)
           /\ MsgOK(m, N) /\ m.type = "feed" => FeedOK(m)
<1>1. VoteOK(m) => m.type = "vote"
  BY DEF VoteOK, Votes
<1>. QED  BY <1>1 DEF MsgOK, BlockOK, ProofOK, FeedOK

\* The fork choice of every node that has not lost its view grows.
AllGrow == \A x \in Honest : forgets'[x] # forgets[x] \/ Grows(node[x], node'[x])

LEMMA BecomeKeeps ==
    ASSUME IInv, NEW n \in Honest, NEW r, Okay(node[n], r, net), Become(n, r)
    PROVE  IInv' /\ AllGrow
<1>. DEFINE new == {m \in r.out : IsKept(m)}
<1>1. /\ node' = [node EXCEPT ![n] = r.s] /\ net' = net \cup new /\ forgets' = forgets
      /\ node \in [Honest -> NodeStates]
  BY DEF Become, IInv
<1>2. /\ Local(r.s, net) /\ Grows(node[n], r.s) /\ IsFiniteSet(r.out)
      /\ \A m \in new : VoteOK(m) \/ ProofOK(m) \/ FeedOK(m)
  BY DEF Okay, OutOK
<1>3. /\ \A m \in new : m.type # "block" /\ MsgOK(m, net)
  BY <1>2, TypesDiffer DEF MsgOK, ProofOK, FeedOK
<1>4. IsFiniteSet(new)
  BY <1>2, FS_Subset
<1>. HIDE DEF new
<1>5. \A s : Local(s, net) => Local(s, net')
  BY <1>1, Monotone
<1>6. \A m : MsgOK(m, net) => MsgOK(m, net')
  BY <1>1, Monotone
<1>7. \A v : BlocksOf(v)' = BlocksOf(v)
  BY <1>1, <1>3 DEF BlocksOf
<1>8. node' \in [Honest -> NodeStates]
  BY <1>1, <1>2 DEF Local
<1>9. ASSUME NEW x \in Honest
      PROVE  Local(node'[x], net') /\ Grows(node[x], node'[x])
  <2>1. CASE x = n
    BY <1>1, <1>2, <1>5, <2>1
  <2>2. CASE x # n
    <3>1. node'[x] = node[x] /\ Local(node[x], net)
      BY <1>1, <2>2 DEF IInv
    <3>. QED  BY <1>5, <3>1 DEF Grows
  <2>. QED  BY <2>1, <2>2
<1>10. IsFiniteSet(net')
  BY <1>1, <1>4, FS_Union DEF IInv
<1>11. \A m \in net' : MsgOK(m, net')
  BY <1>1, <1>3, <1>6 DEF IInv
<1>12. HasAdvanced'
  <2>1. SUFFICES ASSUME NEW v \in Honest, forgets[v] = 0, ~node'[v].done,
                        NEW m \in BlocksOf(v)
                 PROVE  Heavier(Weight(node'[v]), ViewsOf(m.path))
    BY <1>1, <1>7 DEF HasAdvanced
  <2>2. Grows(node[v], node'[v])
    BY <1>9
  <2>3. Heavier(Weight(node[v]), ViewsOf(m.path))
    BY <2>1, <2>2 DEF Grows, HasAdvanced, IInv
  <2>4. Weight(node[v]) \in Seq(Nat) /\ Weight(node'[v]) \in Seq(Nat)
    BY <1>1, <1>8, WeightType DEF NodeStates
  <2>5. ViewsOf(m.path) \in Seq(Nat)
    <3>1. m.path \in Paths
      BY TypesDiffer DEF BlocksOf, IInv, BlockOK
    <3>. QED  BY <3>1, ViewsFacts
  <2>. QED  BY <2>1, <2>2, <2>3, <2>4, <2>5, HeavierIsTransitive DEF Grows
<1>13. SignsOnce'
  BY <1>1, <1>7 DEF SignsOnce, IInv
<1>14. FeedsAreKept'
  <2>1. \A m \in new : m.type = "feed" => m.from \in Honest
    BY DEF new, IsKept
  <2>. QED  BY <1>1, <2>1 DEF FeedsAreKept, IInv
<1>. QED  BY <1>1, <1>8, <1>9, <1>10, <1>11, <1>12, <1>13, <1>14 DEF IInv, AllGrow

\* A step that loses the view of n.
LEMMA ForgetKeeps ==
    ASSUME IInv, NEW n \in Honest, Forgotten < MaxForgets,
           NEW t, Local(t, net), node' = [node EXCEPT ![n] = t],
           forgets' = [forgets EXCEPT ![n] = @ + 1], net' = net
    PROVE  IInv' /\ AllGrow
<1>1. forgets \in [Honest -> 0 .. MaxForgets] /\ MaxForgets \in Nat
  BY MicroChainAssumption DEF IInv
<1>2. forgets[n] < MaxForgets
  <2>1. IsFiniteSet(Honest)
    BY SlotsAssumption, FS_Subset DEF Honest
  <2>2. forgets \in [Honest -> Nat]
    BY <1>1
  <2>3. Forgotten = SumOver(forgets, Honest)
    <3>1. DOMAIN forgets = Honest
      BY <2>2
    <3>. QED  BY <3>1 DEF Forgotten, FoldFunction, FoldFunctionOnSet, MapThenFoldSet,
                          SumOver, Sums, IsSum, Pick
  <2>4. SumOver(forgets, Honest) = SumOver(forgets, Honest \ {n}) + forgets[n]
    BY <2>1, <2>2, SumRemove
  <2>5. SumOver(forgets, Honest \ {n}) \in Nat
    BY <2>1, <2>2, SumNat
  <2>. QED  BY <1>1, <2>2, <2>3, <2>4, <2>5
<1>3. /\ forgets' \in [Honest -> 0 .. MaxForgets]
      /\ forgets'[n] = forgets[n] + 1 /\ forgets'[n] # 0 /\ forgets'[n] # forgets[n]
      /\ \A x \in Honest : x # n => forgets'[x] = forgets[x]
  BY <1>1, <1>2
<1>4. /\ \A s : Local(s, net) => Local(s, net')
      /\ \A m : MsgOK(m, net) => MsgOK(m, net')
  BY Monotone
<1>5. /\ node \in [Honest -> NodeStates] /\ node' \in [Honest -> NodeStates]
      /\ node'[n] = t /\ \A x \in Honest : x # n => node'[x] = node[x]
  BY DEF IInv, Local
<1>6. \A x \in Honest : Local(node'[x], net')
  BY <1>4, <1>5 DEF IInv
<1>7. \A m \in net' : MsgOK(m, net')
  BY <1>4 DEF IInv
<1>8. \A v : BlocksOf(v)' = BlocksOf(v)
  BY DEF BlocksOf
<1>9. HasAdvanced' /\ SignsOnce'
  BY <1>3, <1>5, <1>8 DEF IInv, HasAdvanced, SignsOnce
<1>10. AllGrow
  BY <1>3, <1>5 DEF AllGrow, Grows
<1>. QED  BY <1>3, <1>5, <1>6, <1>7, <1>9, <1>10 DEF IInv, FeedsAreKept

-----------------------------------------------------------------------------
(* The steps *)

LEMMA NodeFacts ==
    ASSUME IInv, NEW n \in Honest
    PROVE  /\ Local(node[n], net) /\ node[n] \in NodeStates /\ n \in Validators
           /\ node[n].chain \in Paths /\ node[n].vc \in Views
           /\ PathOK(node[n].chain, net)
  BY StateFacts DEF IInv, Honest

LEMMA KnownPathsType ==
    ASSUME IInv
    PROVE  KnownPaths \subseteq Paths
<1>. DEFINE paths == {node[n].chain : n \in Honest}
                       \cup {m.path : m \in {b \in net : b.type = "block"}}
<1>1. \A p \in paths : p \in Paths
  BY NodeFacts, TypesDiffer DEF IInv, BlockOK
<1>2. ASSUME NEW p \in paths, NEW i \in 0 .. Len(p)
      PROVE  Prefix(p, i) \in Paths
  BY <1>1, PrefixFacts DEF Paths
<1>. QED  BY <1>2 DEF KnownPaths

LEMMA KnownInfosType ==
    ASSUME IInv
    PROVE  \A i \in KnownInfos : i \in Infos /\ i.vc < MaxView
  BY KnownPathsType, MicroChainAssumption DEF KnownInfos, Infos, ChainInfo

\* A faulty leader's proof against an honest validator shows what it has sent.
LEMMA AccusationsAreFounded ==
    ASSUME NEW path, NEW tx \in Accusations(path)
    PROVE  tx \in SlashingTransaction /\ IsFounded(tx, net)
<1>1. tx \in SlashingTransaction
  BY DEF Accusations
<1>2. CASE tx.signer \in Faulty
  BY <1>1, <1>2 DEF IsFounded, Honest
<1>3. CASE tx.signer \notin Faulty
  <2>1. IsShown(tx)
    BY <1>3 DEF Accusations
  <2>2. PICK m1 \in BlocksOf(tx.signer), m2 \in BlocksOf(tx.signer) :
            /\ tx.cheater = m1.pkey
            /\ tx.sound = (m1.path # m2.path /\ SameView(m1.path, m2.path))
    BY <2>1 DEF IsShown
  <2>3. /\ m1 \in net /\ m1.type = "block" /\ m1.pkey = tx.signer
        /\ m2 \in net /\ m2.type = "block" /\ m2.pkey = tx.signer
    BY DEF BlocksOf
  <2>4. tx.sound => SignedTwo(tx.signer, net)
    BY <2>2, <2>3 DEF SignedTwo
  <2>. QED  BY <1>1, <2>2, <2>3, <2>4 DEF IsFounded
<1>. QED  BY <1>2, <1>3

LEMMA FaultyBlocksAreOK ==
    ASSUME IInv, NEW m \in FaultyBlocks
    PROVE  BlockOK(m, net)
<1>. DEFINE Slashes(i) == {{}} \cup {{tx} : tx \in Accusations(i.path)}
            Proofs(i) == {NoProof} \cup {x \in {ProofFor(i.path, i.vc)} : Provable(x)}
<1>0. PICK i \in FaultyViews :
        m \in {Block(Append(i.path, [vc |-> i.vc, var |-> var, slash |-> slash]), proof) :
                var \in 1 .. FaultyVariants, slash \in Slashes(i), proof \in Proofs(i)}
  BY DEF FaultyBlocks
<1>1. PICK var \in 1 .. FaultyVariants, slash \in Slashes(i), proof \in Proofs(i) :
        m = Block(Append(i.path, [vc |-> i.vc, var |-> var, slash |-> slash]), proof)
  <2>. HIDE DEF Slashes, Proofs
  <2>. QED  BY <1>0
<1>. DEFINE e == [vc |-> i.vc, var |-> var, slash |-> slash]
            path == Append(i.path, e)
<1>2. i.path \in Paths /\ i.vc \in Views /\ select_leader(i.path, i.vc) \in Faulty
  <2>1. PICK p \in KnownPaths, vc \in Views : i = ChainInfo(p, vc)
    BY DEF FaultyViews
  <2>. QED  BY <2>1, KnownPathsType DEF FaultyViews, ChainInfo
<1>3. \A tx \in slash : tx \in SlashingTransaction /\ IsFounded(tx, net)
  <2>1. \A tx \in slash : tx \in Accusations(i.path)
    OBVIOUS
  <2>. QED  BY <2>1, AccusationsAreFounded
<1>4. e \in Entry
  <2>1. var \in 1 .. MaxVariants
    BY MicroChainAssumption
  <2>2. slash \in SUBSET SlashingTransaction
    BY <1>3
  <2>. QED  BY <1>2, <2>1, <2>2 DEF Entry
<1>5. e.vc = i.vc /\ e.slash = slash
  OBVIOUS
<1>6. m = Block(path, proof)
  BY <1>1
<1>. HIDE DEF e
<1>7. path \in Paths /\ path # <<>> /\ Front(path) = i.path /\ Last(path) = e
  BY <1>2, <1>4, AppendFacts DEF Paths
<1>. HIDE DEF path
<1>8. proof \in Infos
  <2>1. ProofFor(i.path, i.vc) \in Infos /\ ProofFor(i.path, 0) \in Infos
    BY <1>2, ViewsAreNumbers, ProofForType
  <2>2. ProofFor(i.path, 0) = NoProof
    BY DEF ProofFor
  <2>. QED  BY <2>1, <2>2
<1>9. m.type = "block" /\ m.path = path /\ m.proof = proof /\ m.pkey = Leader(path)
  BY <1>6 DEF Block, Leader
<1>10. IsSigned(path, net)
  BY <1>2, <1>5, <1>7 DEF IsSigned, Honest, Leader
<1>11. IsClean(path, net)
  BY <1>3, <1>5, <1>7 DEF IsClean
<1>. QED  BY <1>7, <1>8, <1>9, <1>10, <1>11 DEF BlockOK

LEMMA HandleBlockKeeps ==
    ASSUME IInv, NEW n \in Honest, NEW m \in net \cup FaultyBlocks, HandleBlock(n, m)
    PROVE  IInv' /\ AllGrow
<1>1. BlockOK(m, net)
  BY FaultyBlocksAreOK, TypesDiffer DEF HandleBlock, IInv
<1>2. Okay(node[n], handle_micro_block(n, node[n], m), net)
  BY <1>1, NodeFacts, BlockIsOkay
<1>. QED  BY <1>2, BecomeKeeps DEF HandleBlock

LEMMA HandleVoteKeeps ==
    ASSUME IInv, NEW n \in Honest, NEW m \in net \cup FaultyVotes, HandleVote(n, m)
    PROVE  IInv' /\ AllGrow
<1>1. VoteOK(m)
  <2>1. CASE m \in net
    BY <2>1, TypesDiffer DEF HandleVote, IInv
  <2>2. CASE m \in FaultyVotes
    <3>1. PICK f \in Faulty, info \in KnownInfos : m = Vote(f, info)
      BY <2>2 DEF FaultyVotes
    <3>. QED  BY <3>1, KnownInfosType, MicroChainAssumption DEF Vote, VoteOK, Votes
  <2>. QED  BY <2>1, <2>2
<1>2. Okay(node[n], handle_view_change_message(n, node[n], m), net)
  BY <1>1, NodeFacts, VoteIsOkay
<1>. QED  BY <1>2, BecomeKeeps DEF HandleVote

LEMMA HandleProofKeeps ==
    ASSUME IInv, NEW n \in Honest, NEW m \in net \cup FaultyProofs, HandleProof(n, m)
    PROVE  IInv' /\ AllGrow
<1>1. m.info \in Infos /\ m.info.vc < MaxView
  <2>1. CASE m \in net
    BY <2>1, TypesDiffer DEF HandleProof, IInv, ProofOK
  <2>2. CASE m \in FaultyProofs
    <3>1. PICK v \in Validators, info \in KnownInfos : m = SealedProof(info, info, v)
      BY <2>2 DEF FaultyProofs
    <3>. QED  BY <3>1, KnownInfosType DEF SealedProof
  <2>. QED  BY <2>1, <2>2
<1>2. Okay(node[n], try_rollback(n, node[n], m.from, m.info, m.proof), net)
  BY <1>1, NodeFacts, RollbackIsOkay
<1>. QED  BY <1>2, BecomeKeeps DEF HandleProof

LEMMA HandleFeedKeeps ==
    ASSUME IInv, NEW n \in Honest, NEW m \in net, HandleFeed(n, m)
    PROVE  IInv' /\ AllGrow
<1>1. m.start \in Nat
  BY TypesDiffer DEF HandleFeed, IInv, FeedOK
<1>3. m.from \in Honest
  BY DEF HandleFeed, IInv, FeedsAreKept
<1>2. Okay(node[n], handle_response_blocks(n, node[n], node[m.from], m.start), net)
  BY <1>1, <1>3, NodeFacts, ResponseIsOkay
<1>. QED  BY <1>2, BecomeKeeps DEF HandleFeed

LEMMA TimeoutKeeps ==
    ASSUME IInv, NEW n \in Honest, Timeout(n)
    PROVE  IInv' /\ AllGrow
<1>1. Okay(node[n], handle_micro_block_viewchange_timer(n, node[n]), net)
  BY NodeFacts, TimerIsOkay DEF Timeout
<1>. QED  BY <1>1, BecomeKeeps DEF Timeout

LEMMA HandleMacroBlockKeeps ==
    ASSUME IInv, NEW n \in Honest, HandleMacroBlock(n)
    PROVE  IInv' /\ AllGrow
<1>1. Okay(node[n], Done(apply_macro_block(node[n]), {}), net)
  BY NodeFacts, MacroIsOkay
<1>. QED  BY <1>1, BecomeKeeps DEF HandleMacroBlock

LEMMA RestartKeeps ==
    ASSUME IInv, NEW n \in Honest, Restart(n)
    PROVE  IInv' /\ AllGrow
<1>1. Local(Fresh(node[n].chain, node[n].done), net)
  BY NodeFacts, FreshIsLocal DEF NodeStates
<1>. QED  BY <1>1, ForgetKeeps DEF Restart

LEMMA PopMicroBlockKeeps ==
    ASSUME IInv, NEW n \in Honest, PopMicroBlock(n)
    PROVE  IInv' /\ AllGrow
<1>. DEFINE s == node[n]
            k == Len(s.chain) - 1
            t == PopTo(s, k)
<1>1. /\ Local(s, net) /\ s \in NodeStates /\ s.chain \in Paths
      /\ PathOK(s.chain, net)
  BY NodeFacts
<1>2. k \in 0 .. Len(s.chain)
  BY <1>1, PathFacts DEF PopMicroBlock, offset
<1>3. t = Moved(s, Prefix(s.chain, k), 0)
  BY <1>1 DEF PopTo, update_validation_status, Moved, ProofFor, NodeStates
<1>4. PathOK(Prefix(s.chain, k), net)
  BY <1>1, <1>2, PathPrefix
<1>5. Local(t, net)
  BY <1>1, <1>3, <1>4, MovedIsLocal, ViewsAreNumbers
<1>6. node' = [node EXCEPT ![n] = t]
  BY DEF PopMicroBlock, offset
<1>. HIDE DEF t
<1>. QED  BY <1>5, <1>6, ForgetKeeps DEF PopMicroBlock

\* The transactions that a leader makes from its evidence are well-formed, and
\* those that it can use are founded.
LEMMA ConfiscatedFacts ==
    ASSUME IInv, NEW n \in Honest, NEW tx \in Confiscated(node[n]), tx.sound,
           tx.offset \in 0 .. MicroBlocks
    PROVE  tx \in SlashingTransaction /\ IsFounded(tx, net)
<1>1. PICK v \in Cheaters(node[n]) : tx = Confiscate(v, node[n].cheats[v])
  BY DEF Confiscated
<1>. DEFINE e == node[n].cheats[v]
            p == CHOOSE q \in e : TRUE
<1>2. v \in Validators /\ e # NoEvidence
  BY DEF Cheaters, validators
<1>3. IsEvidence(e, v, net)
  BY <1>2, NodeFacts DEF Local
<1>. HIDE DEF e
<1>4. p \in e
  BY <1>2 DEF NoEvidence
<1>5. /\ tx.cheater = v /\ tx.signer = v /\ tx.vc = Last(p).vc
      /\ tx.sound = \A q \in e : SameView(p, q)
      /\ tx = [cheater |-> v, signer |-> v, offset |-> tx.offset, vc |-> tx.vc,
               sound |-> tx.sound]
  BY <1>1 DEF Confiscate, e
<1>10. tx.sound \in BOOLEAN
  BY <1>5
<1>6. p \in Paths /\ p # <<>>
  BY <1>3, <1>4 DEF IsEvidence
<1>. HIDE DEF p
<1>7. Last(p).vc \in Views
  <2>1. Last(p) \in Entry
    BY <1>6, FrontFacts DEF Paths
  <2>. QED  BY <2>1 DEF Entry
<1>8. tx \in SlashingTransaction
  BY <1>2, <1>5, <1>7, <1>10 DEF SlashingTransaction
<1>9. ASSUME v \in Honest
      PROVE  SignedTwo(v, net)
  <2>1. PICK x \in e, y \in e : x # y
    BY <1>3 DEF IsEvidence
  <2>2. SameView(x, y)
    BY <1>5, <2>1 DEF SameView
  <2>3. /\ Leader(x) = v /\ Leader(y) = v /\ IsSigned(x, net) /\ IsSigned(y, net)
    BY <1>3, <2>1 DEF IsEvidence
  <2>4. PICK m1 \in net : m1.type = "block" /\ m1.path = x
    BY <1>9, <2>3 DEF IsSigned
  <2>5. PICK m2 \in net : m2.type = "block" /\ m2.path = y
    BY <1>9, <2>3 DEF IsSigned
  <2>6. m1.pkey = v /\ m2.pkey = v
    BY <2>3, <2>4, <2>5, TypesDiffer DEF IInv, BlockOK
  <2>. QED  BY <2>1, <2>2, <2>4, <2>5, <2>6 DEF SignedTwo
<1>. QED  BY <1>5, <1>8, <1>9 DEF IsFounded

\* Of a leader that does not panic, all of them.
LEMMA SlashingIsFounded ==
    ASSUME IInv, NEW n \in Honest, ~Panics(node[n])
    PROVE  /\ Confiscated(node[n]) \subseteq SlashingTransaction
           /\ \A tx \in Confiscated(node[n]) : tx.sound /\ IsFounded(tx, net)
           /\ SlashingIsValid(node[n].chain, Confiscated(node[n]))
<1>1. ASSUME NEW tx \in Confiscated(node[n])
      PROVE  /\ CanConfiscate(node[n].chain, tx) /\ tx.sound
             /\ tx \in SlashingTransaction /\ IsFounded(tx, net)
  <2>1. CanConfiscate(node[n].chain, tx)
    BY DEF Panics
  <2>2. tx.sound /\ tx.offset <= Len(node[n].chain)
    BY <2>1 DEF CanConfiscate, EvidenceIsValid
  <2>3. tx.offset \in Nat
    <3>1. PICK v \in Cheaters(node[n]) : tx = Confiscate(v, node[n].cheats[v])
      BY DEF Confiscated
    <3>. DEFINE e == node[n].cheats[v]
                p == CHOOSE q \in e : TRUE
    <3>2. v \in Validators /\ e # NoEvidence
      BY DEF Cheaters, validators
    <3>3. IsEvidence(e, v, net)
      BY <3>2, NodeFacts DEF Local
    <3>. HIDE DEF e
    <3>4. p \in e
      BY <3>2 DEF NoEvidence
    <3>5. tx.offset = Len(p) - 1
      BY <3>1 DEF Confiscate, e
    <3>6. p \in Paths /\ p # <<>>
      BY <3>3, <3>4 DEF IsEvidence
    <3>. HIDE DEF p
    <3>. QED  BY <3>5, <3>6, FrontFacts DEF Paths
  <2>4. tx.offset \in 0 .. MicroBlocks
    <3>1. Len(node[n].chain) \in Nat /\ Len(node[n].chain) <= MicroBlocks
      BY NodeFacts, PathFacts DEF PathOK
    <3>. QED  BY <2>2, <2>3, <3>1, MicroChainAssumption
  <2>. QED  BY <2>1, <2>2, <2>4, ConfiscatedFacts
<1>2. \A tx1, tx2 \in Confiscated(node[n]) : tx1.cheater = tx2.cheater => tx1 = tx2
  <2>1. TAKE tx1, tx2 \in Confiscated(node[n])
  <2>2. PICK v \in Cheaters(node[n]) : tx1 = Confiscate(v, node[n].cheats[v])
    BY DEF Confiscated
  <2>3. PICK w \in Cheaters(node[n]) : tx2 = Confiscate(w, node[n].cheats[w])
    BY DEF Confiscated
  <2>4. tx1.cheater = v /\ tx2.cheater = w
    BY <2>2, <2>3 DEF Confiscate
  <2>. QED  BY <2>2, <2>3, <2>4
<1>. QED  BY <1>1, <1>2 DEF SlashingIsValid

LEMMA CreateKeeps ==
    ASSUME IInv, NEW n \in Honest, CreateMicroBlock(n)
    PROVE  IInv' /\ AllGrow
<1>. DEFINE s == node[n]
            var == Cardinality(Signed(s.chain, s.vc)) + 1
            b == NewBlock(s, var)
<1>1. /\ Local(s, net) /\ s \in NodeStates /\ s.chain \in Paths
      /\ s.vc \in Views /\ PathOK(s.chain, net) /\ Len(s.chain) \in Nat
      /\ s.proof \in Infos
  BY NodeFacts, PathFacts DEF NodeStates
<1>2. /\ IsValidating(n, s) /\ leader(s) = n /\ ~s.done /\ Len(s.chain) # MicroBlocks
  BY DEF CreateMicroBlock, IsValidating, is_epoch_full, offset
<1>3. CASE Panics(s)
  <2>. DEFINE t == [s EXCEPT !.up = FALSE]
              r == Done(t, {})
  <2>1. Become(n, r)
    BY <1>3 DEF CreateMicroBlock
  <2>2. /\ t \in NodeStates /\ t.chain = s.chain /\ t.vc = s.vc /\ t.done = s.done
        /\ t.proof = s.proof /\ t.votes = s.votes /\ t.cheats = s.cheats
    BY <1>1 DEF NodeStates
  <2>3. r.s = t /\ r.out = {}
    BY DEF Done
  <2>. HIDE DEF r, t
  <2>4. Local(t, net)
    BY <1>1, <2>2 DEF Local
  <2>5. Grows(s, t)
    BY <2>2, WeightIsWeigh DEF Grows
  <2>6. Okay(s, r, net)
    BY <2>3, <2>4, <2>5, NothingIsOK DEF Okay
  <2>. QED  BY <2>1, <2>6, BecomeKeeps
<1>4. CASE ~Panics(s)
  <2>. DEFINE e == [vc |-> s.vc, var |-> var, slash |-> Confiscated(s)]
              p == Append(s.chain, e)
              r == Done(PushMicro(s, b), {b})
  <2>1. e \in Entry
    <3>1. var \in 1 .. MaxVariants
      <4>1. IsFiniteSet(Signed(s.chain, s.vc))
        BY FS_Subset DEF Signed, IInv
      <4>2. Cardinality(Signed(s.chain, s.vc)) \in Nat
        BY <4>1, FS_CardinalityType
      <4>3. Cardinality(Signed(s.chain, s.vc)) < MaxVariants
        BY DEF CreateMicroBlock
      <4>. QED  BY <4>2, <4>3, MicroChainAssumption
    <3>2. Confiscated(s) \subseteq SlashingTransaction
      BY <1>4, SlashingIsFounded
    <3>. HIDE DEF var
    <3>. QED  BY <1>1, <3>1, <3>2 DEF Entry
  <2>2. Become(n, r)
    BY <1>4 DEF CreateMicroBlock
  <2>3. b = Block(p, s.proof)
    BY DEF NewBlock
  <2>. HIDE DEF b
  <2>4. p \in Paths /\ p # <<>> /\ Front(p) = s.chain /\ Last(p) = e
    <3>. HIDE DEF e
    <3>. QED  BY <1>1, <2>1, AppendFacts DEF Paths
  <2>5. Last(p).vc = s.vc /\ Last(p).slash = Confiscated(s)
    BY <2>4
  <2>. HIDE DEF e, p
  <2>6. Leader(p) = n
    BY <1>2, <2>4, <2>5 DEF Leader, leader
  <2>7. b.type = "block" /\ b.path = p /\ b.proof = s.proof /\ b.pkey = n
    BY <2>3, <2>6 DEF Block, Leader
  <2>8. /\ node' = [node EXCEPT ![n] = r.s] /\ net' = net \cup {b} /\ forgets' = forgets
    <3>1. IsKept(b)
      BY <2>7 DEF IsKept
    <3>. QED  BY <2>2, <3>1 DEF Become, Done
  <2>9. r.s = Moved(s, p, 0)
    BY <1>1, <2>7 DEF Done, PushMicro, update_validation_status, Moved, ProofFor, NodeStates
  <2>. HIDE DEF r
  <2>10. /\ \A x : Local(x, net) => Local(x, net')
         /\ \A x : PathOK(x, net) => PathOK(x, net')
         /\ \A m : MsgOK(m, net) => MsgOK(m, net')
    BY <2>8, Monotone
  <2>11. IsSigned(p, net')
    BY <2>7, <2>8 DEF IsSigned
  <2>12. IsClean(p, net') /\ IsSound(p)
    <3>1. IsClean(p, net) /\ IsSound(p)
      BY <1>4, <2>5, SlashingIsFounded DEF IsClean, IsSound
    <3>2. \A v : SignedTwo(v, net) => SignedTwo(v, net')
      BY <2>8 DEF SignedTwo
    <3>. QED  BY <3>1, <3>2 DEF IsClean, IsFounded
  <2>13. PathOK(p, net')
    BY <1>1, <1>2, <2>4, <2>10, <2>11, <2>12, PathExtended
  <2>14. /\ Local(r.s, net') /\ Grows(s, r.s)
         /\ Heavier(Weight(r.s), ViewsOf(p))
    <3>1. ASSUME NEW r2, r2.s = Moved(s, p, 0), r2.out = {}
          PROVE  Okay(s, r2, net') /\ Heavier(Weight(r2.s), ViewsOf(p))
      <4>1. Local(s, net') /\ OutOK(r2.out)
        BY <1>1, <2>10, <3>1, NothingIsOK
      <4>2. Last(p).vc >= s.vc
        BY <1>1, <2>5, ViewsAreNumbers
      <4>. QED  BY <2>4, <2>13, <3>1, <4>1, <4>2, MovedOnIsOkay
    <3>2. Okay(s, Done(r.s, {}), net') /\ Heavier(Weight(r.s), ViewsOf(p))
      BY <2>9, <3>1 DEF Done
    <3>. QED  BY <3>2 DEF Okay, Done
  <2>15. node \in [Honest -> NodeStates] /\ node' \in [Honest -> NodeStates]
    BY <2>8, <2>14 DEF IInv, Local
  <2>16. ASSUME NEW x \in Honest
         PROVE  Local(node'[x], net') /\ Grows(node[x], node'[x])
    <3>1. CASE x = n
      BY <2>8, <2>14, <2>15, <3>1
    <3>2. CASE x # n
      <4>1. node'[x] = node[x] /\ Local(node[x], net)
        BY <2>8, <2>15, <3>2 DEF IInv
      <4>. QED  BY <2>10, <4>1 DEF Grows
    <3>. QED  BY <3>1, <3>2
  <2>17. IsFiniteSet(net')
    BY <2>8, FS_AddElement DEF IInv
  <2>18. \A m \in net' : MsgOK(m, net')
    <3>1. BlockOK(b, net')
      BY <1>1, <2>4, <2>6, <2>7, <2>11, <2>12 DEF BlockOK
    <3>. QED  BY <2>8, <2>10, <3>1 DEF IInv, MsgOK
  <2>19. FeedsAreKept'
    BY <2>7, <2>8 DEF FeedsAreKept, IInv
  <2>20. /\ BlocksOf(n)' = BlocksOf(n) \cup {b}
         /\ \A v \in Honest : v # n => BlocksOf(v)' = BlocksOf(v)
    BY <2>7, <2>8 DEF BlocksOf
  <2>21. HasAdvanced'
    <3>1. SUFFICES ASSUME NEW v \in Honest, forgets[v] = 0, ~node'[v].done,
                          NEW m \in BlocksOf(v)'
                   PROVE  Heavier(Weight(node'[v]), ViewsOf(m.path))
      BY <2>8 DEF HasAdvanced
    <3>2. CASE v = n /\ m = b
      BY <2>7, <2>8, <2>14, <2>15, <3>2
    <3>3. CASE ~(v = n /\ m = b)
      <4>1. m \in BlocksOf(v)
        BY <2>20, <3>3
      <4>2. Grows(node[v], node'[v])
        BY <2>16
      <4>3. Heavier(Weight(node[v]), ViewsOf(m.path))
        BY <3>1, <4>1, <4>2 DEF Grows, HasAdvanced, IInv
      <4>4. Weight(node[v]) \in Seq(Nat) /\ Weight(node'[v]) \in Seq(Nat)
        BY <2>15, WeightType DEF NodeStates
      <4>5. ViewsOf(m.path) \in Seq(Nat)
        <5>1. m.path \in Paths
          BY <4>1, TypesDiffer DEF BlocksOf, IInv, BlockOK
        <5>. QED  BY <5>1, ViewsFacts
      <4>. QED  BY <3>1, <4>2, <4>3, <4>4, <4>5, HeavierIsTransitive DEF Grows
    <3>. QED  BY <3>2, <3>3
  <2>22. ASSUME forgets[n] = 0, NEW m \in BlocksOf(n), Front(m.path) = s.chain,
                Last(m.path).vc = s.vc
         PROVE  FALSE
    <3>1. m.path \in Paths /\ m.path # <<>>
      BY TypesDiffer DEF BlocksOf, IInv, BlockOK
    <3>2. Heavier(Weight(s), ViewsOf(m.path))
      BY <1>2, <2>22 DEF HasAdvanced, IInv
    <3>3. Weight(s) = ViewsOf(m.path)
      <4>1. Weight(s) = Weigh(Front(m.path), Last(m.path).vc)
        BY <2>22, WeightIsWeigh
      <4>. QED  BY <3>1, <4>1, WeighFrontAndLast
    <3>4. Weight(s) \in Seq(Nat)
      BY <1>1, WeightType
    <3>. QED  BY <3>2, <3>3, <3>4, HeavierIsStrict
  <2>23. SignsOnce'
    <3>1. SUFFICES ASSUME NEW v \in Honest, forgets[v] = 0,
                          NEW m1 \in BlocksOf(v)', NEW m2 \in BlocksOf(v)',
                          Front(m1.path) = Front(m2.path),
                          Last(m1.path).vc = Last(m2.path).vc
                   PROVE  m1.path = m2.path
      BY <2>8 DEF SignsOnce
    <3>2. CASE m1 \in BlocksOf(v) /\ m2 \in BlocksOf(v)
      BY <3>1, <3>2 DEF SignsOnce, IInv
    <3>3. CASE v = n /\ m1 = b /\ m2 # b
      BY <2>4, <2>5, <2>7, <2>20, <2>22, <3>1, <3>3
    <3>4. CASE v = n /\ m2 = b /\ m1 # b
      BY <2>4, <2>5, <2>7, <2>20, <2>22, <3>1, <3>4
    <3>. QED  BY <2>20, <3>2, <3>3, <3>4
  <2>. QED  BY <2>8, <2>15, <2>16, <2>17, <2>18, <2>19, <2>21, <2>23 DEF IInv, AllGrow
<1>. QED  BY <1>3, <1>4

LEMMA InitKeeps == Init => IInv
<1>. SUFFICES ASSUME Init PROVE IInv
  OBVIOUS
<1>1. \A N, F : PathOK(<<>>, N)
  BY MicroChainAssumption DEF PathOK, Paths
<1>2. \A n \in Honest : node[n] = Fresh(<<>>, FALSE) /\ Local(node[n], net)
  BY <1>1, FreshIsLocal DEF Init
<1>3. node \in [Honest -> NodeStates]
  BY <1>2 DEF Init, Local
<1>4. IsFiniteSet(net) /\ net = {}
  BY FS_EmptySet DEF Init
<1>5. forgets \in [Honest -> 0 .. MaxForgets]
  BY MicroChainAssumption DEF Init
<1>6. HasAdvanced /\ SignsOnce /\ FeedsAreKept
  BY <1>4 DEF HasAdvanced, SignsOnce, FeedsAreKept, BlocksOf
<1>. QED  BY <1>2, <1>3, <1>4, <1>5, <1>6 DEF IInv

LEMMA NextKeeps == IInv /\ [Next]_vars => IInv' /\ AllGrow
<1>. SUFFICES ASSUME IInv, [Next]_vars PROVE IInv' /\ AllGrow
  OBVIOUS
<1>1. ASSUME UNCHANGED <<node, net, forgets>>
      PROVE  IInv' /\ AllGrow
  BY <1>1 DEF IInv, HasAdvanced, SignsOnce, FeedsAreKept, BlocksOf, AllGrow, Grows
<1>2. CASE UNCHANGED vars
  BY <1>1, <1>2 DEF vars
<1>3. CASE DecideMacroBlock
  BY <1>1, <1>3 DEF DecideMacroBlock
<1>4. ASSUME NEW n \in Honest, Step(n)
      PROVE  IInv' /\ AllGrow
  BY <1>4, CreateKeeps, TimeoutKeeps, HandleBlockKeeps, HandleVoteKeeps, HandleProofKeeps,
     HandleFeedKeeps, HandleMacroBlockKeeps, RestartKeeps, PopMicroBlockKeeps DEF Step
<1>. QED  BY <1>2, <1>3, <1>4 DEF Next

\* The inductive invariant: every node's view, proof, votes and evidence are
\* about its own chain, and blocks of honest leaders come from them, one for
\* a parent and a view unless the leader has lost its view.
THEOREM IInvariant == Spec => []IInv
<1>1. Init => IInv
  BY InitKeeps
<1>2. IInv /\ [Next]_vars => IInv'
  BY NextKeeps
<1>. QED  BY <1>1, <1>2, PTL DEF Spec

\* Whatever blocks, votes, proofs and downloads a leader has handled before,
\* the block it is about to create is valid on its own chain: the
\* expect("created a valid block") of create_micro_block never fires.
THEOREM CreatedBlocksAreValid == Spec => []CreatedBlockIsValid
<1>1. IInv => TypeOK
  <2>. SUFFICES ASSUME IInv PROVE TypeOK
    OBVIOUS
  <2>1. ASSUME NEW n \in Honest
        PROVE  LET s == node[n]
               IN  /\ s.up \in BOOLEAN /\ s.done \in BOOLEAN
                   /\ s.chain \in Seq(Entry) /\ offset(s) <= MicroBlocks
                   /\ s.vc \in Views
                   /\ \A m \in s.votes : m.type = "vote" /\ m.from \in Validators
                   /\ \A v \in Validators : s.cheats[v] \subseteq Seq(Entry)
    BY NodeFacts DEF NodeStates, Votes, Paths, PathOK, offset
  <2>2. \A m \in net : m.type \in {"block", "vote", "proof", "feed"}
    BY TypesDiffer DEF IInv, MsgOK, BlockOK, ProofOK, FeedOK
  <2>. QED  BY <2>1, <2>2 DEF TypeOK, IInv
<1>2. ASSUME IInv, NEW n \in Honest, IsValidating(n, node[n]), leader(node[n]) = n,
             ~Panics(node[n])
      PROVE  validate_micro_block(node[n], NewBlock(node[n], 1)) = "ok"
  <2>. DEFINE s == node[n]
              e == [vc |-> s.vc, var |-> 1, slash |-> Confiscated(s)]
              p == Append(s.chain, e)
              b == NewBlock(s, 1)
  <2>1. /\ s.chain \in Paths /\ s.vc \in Views /\ s.vc \in Nat
        /\ s.proof = ProofFor(s.chain, s.vc)
    BY <1>2, NodeFacts, StateFacts, ViewsAreNumbers
  <2>2. e \in Entry
    <3>1. Confiscated(s) \subseteq SlashingTransaction /\ 1 \in 1 .. MaxVariants
      BY <1>2, MicroChainAssumption, SlashingIsFounded
    <3>. QED  BY <2>1, <3>1 DEF Entry
  <2>3. b = Block(p, s.proof)
    BY DEF NewBlock
  <2>4. Front(p) = s.chain /\ Last(p) = e
    <3>. HIDE DEF e
    <3>. QED  BY <2>1, <2>2, AppendFacts DEF Paths
  <2>5. Front(p) = s.chain /\ Last(p).vc = s.vc /\ Last(p).slash = Confiscated(s)
    BY <2>4
  <2>. HIDE DEF e, p, b
  <2>6. b.path = p /\ b.proof = s.proof /\ b.pkey = n
    BY <1>2, <2>3, <2>5 DEF Block, leader
  <2>7. ~is_epoch_full(s)
    BY <1>2 DEF IsValidating
  <2>8. s.vc > 0 => s.proof = ChainInfo(s.chain, s.vc - 1)
    BY <2>1 DEF ProofFor
  <2>9. ~(s.vc < s.vc)
    BY <2>1
  <2>11. SlashingIsValid(s.chain, Confiscated(s))
    BY <1>2, SlashingIsFounded
  <2>10. validate_micro_block(s, b) = "ok"
    BY <1>2, <2>5, <2>6, <2>7, <2>8, <2>9, <2>11 DEF validate_micro_block, leader
  <2>. QED  BY <2>10 DEF b
<1>3. IInv => CreatedBlockIsValid
  BY <1>1, <1>2 DEF CreatedBlockIsValid
<1>. QED  BY <1>3, IInvariant, PTL

\* In whoever's block a slashing transaction has come to an honest node's
\* chain: if its two blocks have the signature of an honest validator, then it
\* is the one punished, and it has lost its view before.  The validation has
\* found two blocks for one parent and view, and otherwise it signs only one.
THEOREM HonestAreNotSlashed == Spec => []OnlyCheatersAreSlashed
<1>1. ASSUME IInv, NEW n \in Honest, NEW i \in 1 .. offset(node[n]),
             NEW tx \in node[n].chain[i].slash, tx.signer \in Honest
      PROVE  tx.cheater = tx.signer /\ forgets[tx.signer] > 0
  <2>. DEFINE c == node[n].chain
              v == tx.signer
  <2>1. c \in Paths /\ PathOK(c, net) /\ Len(c) \in Nat /\ i \in 1 .. Len(c)
    BY <1>1, NodeFacts, PathFacts DEF offset
  <2>2. tx \in c[i].slash
    BY <1>1
  <2>. HIDE DEF c
  <2>3. Last(Prefix(c, i)) = c[i]
    <3>1. i \in 0 .. Len(c)
      BY <2>1
    <3>2. Prefix(c, i) \in Seq(Entry) /\ Len(Prefix(c, i)) = i /\ Prefix(c, i)[i] = c[i]
      BY <2>1, <3>1, PrefixFacts DEF Paths
    <3>3. Prefix(c, i) # <<>>
      BY <2>1, <3>2
    <3>. QED  BY <3>2, <3>3, FrontFacts
  <2>4. IsClean(Prefix(c, i), net) /\ IsSound(Prefix(c, i))
    BY <2>1 DEF PathOK
  <2>5. v \in Honest /\ tx.cheater = v /\ SignedTwo(v, net)
    BY <1>1, <2>2, <2>3, <2>4 DEF IsClean, IsSound, IsFounded
  <2>. HIDE DEF v
  <2>6. PICK m1 \in BlocksOf(v), m2 \in BlocksOf(v) :
            m1.path # m2.path /\ SameView(m1.path, m2.path)
    BY <2>5 DEF SignedTwo, BlocksOf
  <2>7. forgets[v] # 0
    BY <1>1, <2>5, <2>6 DEF IInv, SignsOnce, SameView
  <2>8. forgets[v] \in Nat
    BY <1>1, <2>5, MicroChainAssumption DEF IInv
  <2>9. tx.cheater = v /\ forgets[v] > 0
    BY <2>5, <2>7, <2>8
  <2>. QED  BY <2>9 DEF v
<1>2. IInv => OnlyCheatersAreSlashed
  BY <1>1 DEF OnlyCheatersAreSlashed
<1>. QED  BY <1>2, IInvariant, PTL

\* Each step of a node leaves the views of its chain and its own view as they
\* are, or makes them heavier: nodes never return to a fork they have left.
THEOREM ForkChoiceOnlyGrows == Spec => ForkChoiceGrows
<1>1. IInv /\ [Next]_vars =>
        [\A n \in Honest :
            \/ forgets'[n] # forgets[n]
            \/ node'[n].done
            \/ Weight(node'[n]) = Weight(node[n])
            \/ Heavier(Weight(node'[n]), Weight(node[n]))]_vars
  BY NextKeeps DEF AllGrow, Grows
<1>. QED  BY <1>1, IInvariant, PTL DEF Spec, ForkChoiceGrows
=============================================================================
