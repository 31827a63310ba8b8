--------------------------- MODULE SnowballProofs ---------------------------
(***************************************************************************)
(* Proofs about Snowball, for any participants, pools and troubles.        *)
(*                                                                         *)
(* A participant signs in the session that it is in, and leaves it with    *)
(* the next round: session ids only get longer.  A handler may go through  *)
(* several phases, so what it keeps is stated with the messages that it    *)
(* has prepared and not sent.                                              *)
(***************************************************************************)
EXTENDS Snowball, Induction

Fields ==
    {"me", "facilitator", "st", "sid", "participants", "pending", "commit_phase",
     "excl", "commits", "mats", "fees", "cloaks", "signatures", "trans", "queue",
     "out", "exclusions"}

\* The phases before the signature.
Early == {"SharedKeying", "Commitment", "CloakedVals"}

\* What is signed with the messages of a step.
Signs(s) ==
    {<<s.me, m.sid, m.payload.sig>> :
        m \in {x \in s.out : x.payload.kind = "Signature"}}

OneEach(A) == \A x, y \in A : x[2] = y[2] => x[3] = y[3]

\* A is all that a participant in phase st of session sid has signed.
Past(A, st, sid) ==
    /\ \A x \in A : Len(x[2]) \in Nat
    /\ OneEach(A)
    /\ st = "PoolWait" => A = {}
    /\ st \in Waiting => \A x \in A : Len(x[2]) <= Len(sid)
    /\ st \in Early => \A x \in A : Len(x[2]) < Len(sid)

IsState(s) ==
    /\ DOMAIN s = Fields /\ s.st \in States /\ IsSeq(s.sid) /\ IsFiniteSet(s.queue)

\* The state s, in the middle of a step, of who had signed A before.
Good(s, A) == IsState(s) /\ Past(A \cup Signs(s), s.st, s.sid)

\* s and r may differ in what does not matter here.
Alike(s, r) ==
    /\ DOMAIN r = Fields /\ r.me = s.me /\ r.out = s.out /\ r.sid = s.sid
    /\ r.st = s.st /\ IsFiniteSet(r.queue)

-----------------------------------------------------------------------------
(* Sessions *)

LEMMA SidFacts ==
    ASSUME NEW x, IsSeq(x), NEW e
    PROVE  Len(x) \in Nat /\ IsSeq(Append(x, e)) /\ Len(Append(x, e)) = Len(x) + 1
  BY SeqFacts

LEMMA ShortSids == \A x : IsSeq(<<x>>) /\ Len(<<x>>) = 1
  BY DEF IsSeq

LEMMA EmptySid == IsSeq(<<>>) /\ Len(<<>>) = 0
  BY DEF IsSeq

LEMMA AlikeGood ==
    ASSUME NEW s, NEW r, NEW A, Good(s, A), Alike(s, r)
    PROVE  Good(r, A)
<1>1. Signs(r) = Signs(s)
  BY DEF Alike, Signs
<1> QED BY <1>1 DEF Good, IsState, Alike

-----------------------------------------------------------------------------
(* The phases *)

Final == {"Succeeded", "Failed"}

LEMMA FinishGood ==
    ASSUME NEW s, NEW A, Good(s, A), NEW st \in Final, NEW tx
    PROVE  Good(Finish(s, st, tx), A) /\ Finish(s, st, tx).me = s.me
<1> DEFINE r == Finish(s, st, tx)
<1>1. /\ DOMAIN r = Fields /\ r.me = s.me /\ r.out = s.out /\ r.sid = <<>>
      /\ r.st = st /\ r.queue = {}
  BY DEF Finish, New, Fields
<1> HIDE DEF r
<1>2. Signs(r) = Signs(s)
  BY <1>1 DEF Signs
<1>3. IsState(r)
  <2>1. IsFiniteSet({})
    BY FS_EmptySet
  <2> QED BY <1>1, <2>1, EmptySid DEF IsState, States, Final
<1>4. Past(A \cup Signs(r), r.st, r.sid)
  BY <1>1, <1>2 DEF Past, Good, Final, Waiting, Early
<1> QED BY <1>1, <1>3, <1>4 DEF Good, r

\* A message is sent and the next phase begins.
Sends(s, payload, st) == prep_rx(send_signed_message(s, payload), st)

LEMMA SendFacts ==
    ASSUME NEW s, IsState(s), NEW payload, NEW st \in States
    PROVE  LET r == Sends(s, payload, st)
           IN  /\ IsState(r) /\ r.me = s.me /\ r.sid = s.sid /\ r.st = st
               /\ payload.kind # "Signature" => Signs(r) = Signs(s)
               /\ Signs(r) \subseteq Signs(s) \cup {<<s.me, s.sid, payload.sig>>}
<1> DEFINE r == Sends(s, payload, st)
           new == {[from |-> s.me, to |-> p, sid |-> s.sid, payload |-> payload] :
                      p \in s.participants \ {s.me}}
<1>1. /\ DOMAIN r = Fields /\ r.me = s.me /\ r.out = s.out \cup new /\ r.sid = s.sid
      /\ r.st = st /\ r.queue = s.queue
  BY DEF Sends, prep_rx, send_signed_message, IsState, Fields
<1>2. \A m \in new : m.sid = s.sid /\ m.payload = payload
  OBVIOUS
<1> HIDE DEF r, new
<1>3. IsState(r)
  BY <1>1 DEF IsState
<1>4. payload.kind # "Signature" => Signs(r) = Signs(s)
  BY <1>1, <1>2 DEF Signs
<1>5. Signs(r) \subseteq Signs(s) \cup {<<s.me, s.sid, payload.sig>>}
  BY <1>1, <1>2 DEF Signs
<1> QED BY <1>1, <1>3, <1>4, <1>5 DEF r

\* start, from any phase: the session id grows, and what was signed is older.
LEMMA StartGood ==
    ASSUME NEW s, NEW A, Good(s, A), s.st \notin Final
    PROVE  Good(start(s), A) /\ start(s).me = s.me
<1> DEFINE n == [s EXCEPT !.sid = Append(@, s.participants)]
           payload == [kind |-> "SharedKeying"]
           r == Sends(n, payload, "SharedKeying")
<1>1. IsState(s) /\ IsSeq(s.sid) /\ Past(A \cup Signs(s), s.st, s.sid)
  BY DEF Good, IsState
<1>2. /\ DOMAIN n = Fields /\ n.me = s.me /\ n.out = s.out /\ n.st = s.st
      /\ n.sid = Append(s.sid, s.participants) /\ n.queue = s.queue
  BY <1>1 DEF IsState, Fields
<1>3. Len(s.sid) \in Nat /\ IsSeq(n.sid) /\ Len(n.sid) = Len(s.sid) + 1
  BY <1>1, <1>2, SidFacts
<1>4. start(s) = IF Cardinality(s.participants) < MinParticipants
                 THEN Finish(s, "Failed", NoTx) ELSE r
  BY DEF start, Sends
<1>p. payload.kind # "Signature" /\ "SharedKeying" \in States
  BY DEF States, Waiting
<1> HIDE DEF n, payload
<1>5. IsState(n) /\ Signs(n) = Signs(s)
  BY <1>1, <1>2, <1>3 DEF IsState, Signs
<1>6. /\ IsState(r) /\ r.me = s.me /\ r.sid = n.sid /\ r.st = "SharedKeying"
      /\ Signs(r) = Signs(s)
  BY <1>2, <1>5, <1>p, SendFacts
<1> HIDE DEF r
<1>7. s.st \in Waiting \cup {"PoolWait"}
  BY <1>1 DEF IsState, States, Final
<1>8. \A x \in A \cup Signs(s) : Len(x[2]) \in Nat /\ Len(x[2]) <= Len(s.sid)
  BY <1>1, <1>7 DEF Past
<1>9. Past(A \cup Signs(r), "SharedKeying", n.sid)
  BY <1>1, <1>3, <1>6, <1>8 DEF Past
<1>10. Good(r, A)
  BY <1>6, <1>9 DEF Good
<1>11. Good(Finish(s, "Failed", NoTx), A) /\ Finish(s, "Failed", NoTx).me = s.me
  BY FinishGood DEF Final
<1> QED BY <1>4, <1>6, <1>10, <1>11

\* A phase that signs nothing follows one that has not signed, or the signature.
LEMMA PhaseGood ==
    ASSUME NEW s, NEW A, Good(s, A), NEW payload, payload.kind # "Signature",
           NEW st \in Waiting, s.st \in Waiting, st \in Early => s.st \in Early
    PROVE  LET r == Sends(s, payload, st) IN Good(r, A) /\ r.me = s.me
<1> DEFINE r == Sends(s, payload, st)
<1>1. IsState(s) /\ Past(A \cup Signs(s), s.st, s.sid)
  BY DEF Good
<1>2. st \in States
  BY DEF States
<1>3. /\ IsState(r) /\ r.me = s.me /\ r.sid = s.sid /\ r.st = st
      /\ Signs(r) = Signs(s)
  BY <1>1, <1>2, SendFacts
<1> HIDE DEF r
<1>4. Past(A \cup Signs(s), st, s.sid)
  BY <1>1 DEF Past, Waiting
<1> QED BY <1>3, <1>4 DEF Good, r

LEMMA CommitGood ==
    ASSUME NEW s, NEW A, Good(s, A), s.st = "SharedKeying"
    PROVE  Good(commit(s), A) /\ commit(s).me = s.me
<1> DEFINE cloaks == dc_keys(s.participants, s.me, s.sid)
           matrix == encode_matrix(s.me, s.participants, cloaks)
           fee == IF cheat[s.me] = "fee" THEN Fee[s.me] + 1 ELSE Fee[s.me]
           cloaked == dc_encode_scalar(fee, s.participants, s.me, cloaks)
           n == [s EXCEPT !.commit_phase = s.participants, !.cloaks = cloaks,
                          !.mats = Put(Empty, s.me, matrix),
                          !.fees = Put(Empty, s.me, cloaked),
                          !.commits = Put(Empty, s.me, <<matrix, cloaked>>)]
           payload == [kind |-> "Commitment", cmt |-> <<matrix, cloaked>>,
                       parts |-> s.participants]
<1>1. commit(s) = IF Cardinality(s.participants) < MinParticipants
                  THEN Finish(s, "Failed", NoTx) ELSE Sends(n, payload, "Commitment")
  BY DEF commit, Sends
<1> HIDE DEF matrix, cloaked, cloaks
<1>2. Alike(s, n)
  BY DEF Good, IsState, Alike, Fields
<1>3. payload.kind # "Signature"
  OBVIOUS
<1> HIDE DEF n, payload
<1>4. Good(n, A) /\ n.me = s.me /\ n.st = s.st
  BY <1>2, AlikeGood DEF Alike
<1>5. Good(Sends(n, payload, "Commitment"), A) /\ Sends(n, payload, "Commitment").me = s.me
  BY <1>3, <1>4, PhaseGood DEF Waiting, Early
<1>6. Good(Finish(s, "Failed", NoTx), A) /\ Finish(s, "Failed", NoTx).me = s.me
  BY FinishGood DEF Final
<1> QED BY <1>1, <1>5, <1>6

LEMMA ShareGood ==
    ASSUME NEW s, NEW A, Good(s, A), s.st = "Commitment"
    PROVE  Good(share_cloaked_data(s), A) /\ share_cloaked_data(s).me = s.me
<1> DEFINE excl == s.commit_phase \ s.participants
           fee == IF cheat[s.me] = "data" THEN (s.fees[s.me] + 1) % Q ELSE s.fees[s.me]
           n == [s EXCEPT !.excl = excl]
           payload == [kind |-> "CloakedVals", matrix |-> s.mats[s.me], fee |-> fee,
                       excl |-> excl]
<1>1. share_cloaked_data(s) = IF Cardinality(s.participants) < MinParticipants
                              THEN Finish(s, "Failed", NoTx)
                              ELSE Sends(n, payload, "CloakedVals")
  BY DEF share_cloaked_data, Sends
<1> HIDE DEF excl, fee
<1>2. Alike(s, n)
  BY DEF Good, IsState, Alike, Fields
<1>3. payload.kind # "Signature"
  OBVIOUS
<1> HIDE DEF n, payload
<1>4. Good(n, A) /\ n.me = s.me /\ n.st = s.st
  BY <1>2, AlikeGood DEF Alike
<1>5. Good(Sends(n, payload, "CloakedVals"), A) /\ Sends(n, payload, "CloakedVals").me = s.me
  BY <1>3, <1>4, PhaseGood DEF Waiting, Early
<1>6. Good(Finish(s, "Failed", NoTx), A) /\ Finish(s, "Failed", NoTx).me = s.me
  BY FinishGood DEF Final
<1> QED BY <1>1, <1>5, <1>6

\* The signature of a round: nothing was signed in this session before.
LEMMA SignGood ==
    ASSUME NEW s, NEW A, Good(s, A), s.st = "CloakedVals", NEW payload
    PROVE  LET r == Sends(s, payload, "Signature") IN Good(r, A) /\ r.me = s.me
<1> DEFINE r == Sends(s, payload, "Signature")
           new == <<s.me, s.sid, payload.sig>>
           B == A \cup Signs(s)
<1>1. IsState(s) /\ IsSeq(s.sid) /\ Past(B, "CloakedVals", s.sid)
  BY DEF Good, IsState
<1>2. "Signature" \in States
  BY DEF States, Waiting
<1>3. /\ IsState(r) /\ r.me = s.me /\ r.sid = s.sid /\ r.st = "Signature"
      /\ Signs(r) \subseteq Signs(s) \cup {new}
  BY <1>1, <1>2, SendFacts
<1>4. new[2] = s.sid
  OBVIOUS
<1>5. Len(s.sid) \in Nat
  BY <1>1, SidFacts
<1> HIDE DEF r, new
<1>6. \A x \in B : Len(x[2]) \in Nat /\ Len(x[2]) < Len(s.sid)
  BY <1>1 DEF Past, Early
<1>7. \A x \in A \cup Signs(r) : x \in B \/ x = new
  BY <1>3
<1>8. \A x \in A \cup Signs(r) : Len(x[2]) \in Nat /\ Len(x[2]) <= Len(s.sid)
  BY <1>4, <1>5, <1>6, <1>7
<1>9. OneEach(A \cup Signs(r))
  <2>1. \A x \in B : x[2] # new[2]
    BY <1>4, <1>5, <1>6
  <2>2. OneEach(B)
    BY <1>1 DEF Past
  <2> QED BY <1>7, <2>1, <2>2 DEF OneEach
<1>10. Past(A \cup Signs(r), "Signature", s.sid)
  BY <1>8, <1>9 DEF Past, Early
<1> QED BY <1>3, <1>10 DEF Good, r

LEMMA SuperGood ==
    ASSUME NEW s, NEW A, Good(s, A), s.st = "CloakedVals"
    PROVE  Good(make_supertransaction(s), A) /\ make_supertransaction(s).me = s.me
<1> DEFINE outs == dc_decode(s.participants, s.mats, s.excl, KeysOf(s))
           tx == [sess |-> s.sid, parts |-> s.commit_phase, outs |-> outs,
                  fee |-> dc_scalar_open(s.participants, s.fees, s.excl, KeysOf(s))]
           sig == IF cheat[s.me] = "sig" THEN NoTx ELSE tx
           n == [s EXCEPT !.trans = tx, !.signatures = Put(Empty, s.me, sig)]
           payload == [kind |-> "Signature", sig |-> sig]
           r == make_supertransaction(s)
<1>1. r \in {Finish(s, "Failed", NoTx), start(s), Sends(n, payload, "Signature")}
  BY DEF make_supertransaction, Sends
<1> HIDE DEF tx, sig, r
<1>2. Alike(s, n)
  BY DEF Good, IsState, Alike, Fields
<1> HIDE DEF n, payload
<1>3. Good(n, A) /\ n.me = s.me /\ n.st = s.st
  BY <1>2, AlikeGood DEF Alike
<1>4. Good(Sends(n, payload, "Signature"), A) /\ Sends(n, payload, "Signature").me = s.me
  BY <1>3, SignGood
<1>5. Good(Finish(s, "Failed", NoTx), A) /\ Finish(s, "Failed", NoTx).me = s.me
  BY FinishGood DEF Final
<1>6. Good(start(s), A) /\ start(s).me = s.me
  BY StartGood DEF Final
<1> QED BY <1>1, <1>4, <1>5, <1>6 DEF r

LEMMA SignSuperGood ==
    ASSUME NEW s, NEW A, Good(s, A), s.st = "Signature"
    PROVE  Good(sign_supertransaction(s), A) /\ sign_supertransaction(s).me = s.me
<1> DEFINE payload == [kind |-> "SecretKeying"]
           r == sign_supertransaction(s)
<1>1. r \in {start(s), Finish(s, "Succeeded", s.trans), Sends(s, payload, "SecretKeying")}
  BY DEF sign_supertransaction, Sends
<1>2. payload.kind # "Signature"
  OBVIOUS
<1> HIDE DEF payload, r
<1>3. Good(Sends(s, payload, "SecretKeying"), A) /\ Sends(s, payload, "SecretKeying").me = s.me
  BY <1>2, PhaseGood DEF Waiting, Early
<1>4. Good(Finish(s, "Succeeded", s.trans), A) /\ Finish(s, "Succeeded", s.trans).me = s.me
  BY FinishGood DEF Final
<1>5. Good(start(s), A) /\ start(s).me = s.me
  BY StartGood DEF Final
<1> QED BY <1>1, <1>3, <1>4, <1>5 DEF r

LEMMA BlameGood ==
    ASSUME NEW s, NEW A, Good(s, A), s.st = "SecretKeying"
    PROVE  Good(blame_discovery(s), A) /\ blame_discovery(s).me = s.me
<1> DEFINE invalid == {p \in s.commit_phase :
                       LET u == Uncloaked(s.commit_phase, s.sid, s.mats, s.fees, s.excl, p)
                       IN  ~validate_uncloaked_contrib(s, p, u.msgs, u.fee)}
           excl == IF had_dropouts(s) THEN {}
                   ELSE invalid \cup dc_reconstruct(s.commit_phase, s.sid, s.mats, s.fees,
                                                    s.excl, KeysOf(s))
           n == [s EXCEPT !.participants = @ \ excl, !.exclusions = @ \cup excl]
<1>1. blame_discovery(s) = start(n)
  BY DEF blame_discovery
<1> HIDE DEF excl
<1>2. Alike(s, n)
  BY DEF Good, IsState, Alike, Fields
<1> HIDE DEF n
<1>3. Good(n, A) /\ n.me = s.me /\ n.st = s.st
  BY <1>2, AlikeGood DEF Alike
<1> QED BY <1>1, <1>3, StartGood DEF Final

LEMMA NextPhaseGood ==
    ASSUME NEW s, NEW A, Good(s, A), s.st \in Waiting
    PROVE  Good(perform_next_phase(s), A) /\ perform_next_phase(s).me = s.me
<1> DEFINE r == perform_next_phase(s)
<1>1. CASE s.st = "SharedKeying"
  <2>1. r = commit(s)
    BY <1>1 DEF perform_next_phase
  <2> QED BY <1>1, <2>1, CommitGood
<1>2. CASE s.st = "Commitment"
  <2>1. r = share_cloaked_data(s)
    BY <1>2 DEF perform_next_phase
  <2> QED BY <1>2, <2>1, ShareGood
<1>3. CASE s.st = "CloakedVals"
  <2>1. r = make_supertransaction(s)
    BY <1>3 DEF perform_next_phase
  <2> QED BY <1>3, <2>1, SuperGood
<1>4. CASE s.st = "Signature"
  <2>1. r = sign_supertransaction(s)
    BY <1>4 DEF perform_next_phase
  <2> QED BY <1>4, <2>1, SignSuperGood
<1>5. CASE s.st = "SecretKeying"
  <2>1. r = blame_discovery(s)
    BY <1>5 DEF perform_next_phase
  <2> QED BY <1>5, <2>1, BlameGood
<1> QED BY <1>1, <1>2, <1>3, <1>4, <1>5 DEF Waiting

-----------------------------------------------------------------------------
(* Messages *)

LEMMA AcceptAlike ==
    ASSUME NEW s, NEW r, NEW m, Alike(s, r)
    PROVE  Alike(s, Accept(r, m))
<1> DEFINE n == [r EXCEPT !.pending = @ \ {m.from}, !.participants = @ \cup {m.from}]
           a == [n EXCEPT !.commits = Put(@, m.from, m.payload.cmt)]
           b == [n EXCEPT !.mats = Put(@, m.from, m.payload.matrix),
                          !.fees = Put(@, m.from, m.payload.fee)]
           c == [n EXCEPT !.signatures = Put(@, m.from, m.payload.sig)]
<1>1. Accept(r, m) \in {n, a, b, c}
  BY DEF Accept
<1>2. Alike(s, n)
  BY DEF Alike, Fields
<1> HIDE DEF n
<1>3. Alike(s, a) /\ Alike(s, b) /\ Alike(s, c)
  BY <1>2 DEF Alike, Fields
<1> QED BY <1>1, <1>2, <1>3

AcceptRun(g, I, s) ==
    g = [x \in SUBSET I |-> IF x = {} THEN s ELSE Accept(g[x \ {Pick(x)}], Pick(x))]

\* The messages of a pass are accepted one after the other.
LEMMA AcceptRunExists ==
    ASSUME NEW I, IsFiniteSet(I), NEW s
    PROVE  \E g : AcceptRun(g, I, s)
<1> DEFINE Small(n) == {x \in SUBSET I : Cardinality(x) <= n}
           Step(g, x) == IF x = {} THEN s ELSE Accept(g[x \ {Pick(x)}], Pick(x))
           Part(g, n) == g = [x \in Small(n) |-> Step(g, x)]
           T == {n \in Nat : \E g : Part(g, n)}
<1>1. \A x \in SUBSET I : IsFiniteSet(x) /\ Cardinality(x) \in Nat
  BY FS_Subset, FS_CardinalityType
<1>2. 0 \in T
  <2>1. \A x \in Small(0) : x = {}
    BY <1>1, FS_EmptySet
  <2>2. Part([x \in Small(0) |-> s], 0)
    BY <2>1
  <2> HIDE DEF Part
  <2> QED BY <2>2
<1>3. ASSUME NEW n \in Nat, n \in T PROVE n + 1 \in T
  <2>1. PICK g : Part(g, n)
    BY <1>3
  <2> DEFINE h == [x \in Small(n + 1) |-> Step(g, x)]
  <2>2. ASSUME NEW x \in Small(n + 1), x # {}
        PROVE  x \ {Pick(x)} \in Small(n)
    <3>1. Pick(x) \in x
      BY <2>2 DEF Pick
    <3>2. Cardinality(x \ {Pick(x)}) = Cardinality(x) - 1
      BY <1>1, <3>1, FS_RemoveElement
    <3> QED BY <1>1, <3>1, <3>2
  <2>3. \A x \in Small(n) : x \in Small(n + 1)
    BY <1>1
  <2>4. \A x \in Small(n) : h[x] = g[x]
    BY <2>1, <2>3
  <2>5. \A x \in Small(n + 1) : Step(g, x) = Step(h, x)
    BY <2>2, <2>4
  <2> HIDE DEF Step, Small
  <2>6. Part(h, n + 1)
    BY <2>5
  <2> HIDE DEF Part
  <2> QED BY <2>6
<1>4. Nat \subseteq T
  <2> HIDE DEF T
  <2> QED BY <1>2, <1>3, NumberInduction
<1>5. PICK g : Part(g, Cardinality(I))
  BY <1>1, <1>4
<1>6. Small(Cardinality(I)) = SUBSET I
  BY <1>1, FS_Subset
<1> QED BY <1>5, <1>6 DEF AcceptRun

LEMMA AcceptAllAlike ==
    ASSUME NEW I, IsFiniteSet(I), NEW s, Alike(s, s)
    PROVE  Alike(s, FoldSet(LAMBDA m, r : Accept(r, m), s, I))
<1> DEFINE g == CHOOSE h : AcceptRun(h, I, s)
<1>1. FoldSet(LAMBDA m, r : Accept(r, m), s, I) = g[I]
  BY DEF FoldSet, MapThenFoldSet, AcceptRun, Pick
<1>2. AcceptRun(g, I, s)
  BY AcceptRunExists
<1> HIDE DEF g
<1> DEFINE T == {x \in SUBSET I : Alike(s, g[x])}
<1>3. {} \in T
  BY <1>2 DEF AcceptRun
<1>4. ASSUME NEW x \in SUBSET I, x # {}, \A m \in x : x \ {m} \in T
      PROVE  x \in T
  <2>1. Pick(x) \in x
    BY <1>4 DEF Pick
  <2>2. g[x] = Accept(g[x \ {Pick(x)}], Pick(x))
    BY <1>2, <1>4 DEF AcceptRun
  <2>3. Alike(s, g[x \ {Pick(x)}])
    BY <1>4, <2>1
  <2> QED BY <2>2, <2>3, AcceptAlike
<1>5. SUBSET I \subseteq T
  <2> HIDE DEF T
  <2> QED BY <1>3, <1>4, SetInduction
<1> QED BY <1>1, <1>5

LEMMA ScanGood ==
    ASSUME NEW s, NEW A, Good(s, A)
    PROVE  Good(Scan(s), A) /\ Scan(s).me = s.me
<1> DEFINE good == {m \in s.queue : Accepts(s, m)}
           bad == {m \in s.queue : Discards(s, m)}
           base == [s EXCEPT !.queue = @ \ good]
           n == FoldSet(LAMBDA m, r : Accept(r, m), base, good)
           c == [n EXCEPT !.queue = @ \ bad]
<1>1. Scan(s) \in {s, c} \/ (s.st \in Waiting /\ Scan(s) = perform_next_phase(n))
  BY DEF Scan
<1>2. DOMAIN s = Fields /\ IsFiniteSet(s.queue)
  BY DEF Good, IsState
<1>3. IsFiniteSet(good) /\ IsFiniteSet(s.queue \ good)
  BY <1>2, FS_Subset
<1> HIDE DEF good, bad
<1>4. Alike(s, base) /\ Alike(base, base)
  BY <1>2, <1>3 DEF Alike, Fields
<1> HIDE DEF base
<1>5. Alike(base, n)
  BY <1>3, <1>4, AcceptAllAlike
<1> HIDE DEF n
<1>6. Good(n, A) /\ n.me = s.me /\ n.st = s.st
  BY <1>4, <1>5, AlikeGood DEF Alike
<1>7. Good(c, A) /\ c.me = s.me
  <2>1. DOMAIN n = Fields /\ IsFiniteSet(n.queue \ bad)
    BY <1>6, FS_Subset DEF Good, IsState
  <2>2. Alike(n, c)
    BY <2>1 DEF Alike, Fields
  <2> QED BY <1>6, <2>2, AlikeGood DEF Alike
<1>8. s.st \in Waiting => Good(perform_next_phase(n), A) /\ perform_next_phase(n).me = s.me
  BY <1>6, NextPhaseGood
<1> QED BY <1>1, <1>7, <1>8

ScanRun(g, s, n) == g = [i \in 0 .. n |-> IF i = 0 THEN s ELSE Scan(g[i - 1])]

LEMMA ScanRunExists ==
    ASSUME NEW s, NEW n \in Nat
    PROVE  \E g : ScanRun(g, s, n)
<1> DEFINE T == {k \in Nat : \E g : ScanRun(g, s, k)}
<1>1. 0 \in T
  <2>1. ScanRun([i \in 0 .. 0 |-> s], s, 0)
    BY DEF ScanRun
  <2> QED BY <2>1
<1>2. ASSUME NEW k \in Nat, k \in T PROVE k + 1 \in T
  <2>1. PICK g : ScanRun(g, s, k)
    BY <1>2
  <2> DEFINE h == [i \in 0 .. k + 1 |-> IF i = 0 THEN s ELSE Scan(g[i - 1])]
  <2>2. \A i \in 0 .. k : h[i] = g[i]
    BY <2>1 DEF ScanRun
  <2>3. \A i \in 0 .. k + 1 : i # 0 => i - 1 \in 0 .. k
    OBVIOUS
  <2>4. \A i \in 0 .. k + 1 : i # 0 => h[i - 1] = g[i - 1]
    BY <2>2, <2>3
  <2>5. ScanRun(h, s, k + 1)
    BY <2>4 DEF ScanRun
  <2> QED BY <2>5
<1>3. Nat \subseteq T
  <2> HIDE DEF T
  <2> QED BY <1>1, <1>2, NumberInduction
<1> QED BY <1>3

\* on_message_received: the phases that a message may end, one after the other.
LEMMA ReceivedGood ==
    ASSUME NEW s, NEW A, Good(s, A), NEW m
    PROVE  Good(on_message_received(s, m), A) /\ on_message_received(s, m).me = s.me
<1> DEFINE flood == Cardinality({x \in s.queue : x.from = m.from}) >= MSG_FLOOD_LIMIT
           q == IF flood THEN s ELSE [s EXCEPT !.queue = @ \cup {m}]
           g == CHOOSE h : ScanRun(h, q, MaxScans)
<1>1. on_message_received(s, m) = g[MaxScans]
  BY DEF on_message_received, ScanRun
<1>2. MaxScans \in Nat
  BY DEF MaxScans
<1> HIDE DEF flood
<1>3. Alike(s, q)
  <2>1. DOMAIN s = Fields /\ IsFiniteSet(s.queue) /\ IsFiniteSet(s.queue \cup {m})
    BY FS_AddElement DEF Good, IsState
  <2> QED BY <2>1 DEF Alike, Fields
<1> HIDE DEF q
<1>4. ScanRun(g, q, MaxScans)
  BY <1>2, ScanRunExists
<1> HIDE DEF g
<1>5. Good(q, A) /\ q.me = s.me
  BY <1>3, AlikeGood DEF Alike
<1> DEFINE T == {i \in Nat : i <= MaxScans => Good(g[i], A) /\ g[i].me = s.me}
<1>6. 0 \in T
  BY <1>2, <1>4, <1>5 DEF ScanRun
<1>7. ASSUME NEW i \in Nat, i \in T PROVE i + 1 \in T
  <2> SUFFICES ASSUME i + 1 <= MaxScans PROVE Good(g[i + 1], A) /\ g[i + 1].me = s.me
    OBVIOUS
  <2>1. i + 1 \in 0 .. MaxScans /\ i + 1 # 0 /\ (i + 1) - 1 = i /\ i <= MaxScans
    BY <1>2
  <2>2. g[i + 1] = Scan(g[i])
    BY <1>4, <2>1 DEF ScanRun
  <2>3. Good(g[i], A) /\ g[i].me = s.me
    BY <1>7, <2>1
  <2> QED BY <2>2, <2>3, ScanGood
<1>8. Nat \subseteq T
  <2> HIDE DEF T
  <2> QED BY <1>6, <1>7, NumberInduction
<1> QED BY <1>1, <1>2, <1>8

-----------------------------------------------------------------------------
(* The inductive invariant *)

By(p, S) == {x \in S : x[1] = p}

IInv ==
    /\ DOMAIN sb = Participants
    /\ \A p \in Participants : sb[p].me = p /\ sb[p].out = {} /\ Good(sb[p], By(p, signed))
    /\ \A x \in signed : x[1] \in Participants
    /\ \A n \in notes : IsSeq(n.sid)

\* The end of a handler: what it has prepared is sent.
LEMMA BecomeIInv ==
    ASSUME IInv, NEW p \in Participants, NEW s, NEW taken, Good(s, By(p, signed)),
           s.me = p, Become(p, s, taken), \A n \in notes' : IsSeq(n.sid)
    PROVE  IInv'
<1> DEFINE r == [s EXCEPT !.out = {}, !.exclusions = {}]
<1>1. sb' = [sb EXCEPT ![p] = r] /\ signed' = signed \cup Signs(s)
  BY DEF Become, Signs
<1>2. /\ DOMAIN r = Fields /\ r.me = p /\ r.out = {} /\ r.st = s.st /\ r.sid = s.sid
      /\ r.queue = s.queue
  BY DEF Good, IsState, Fields
<1>3. \A x \in Signs(s) : x[1] = p
  BY DEF Signs
<1> HIDE DEF r
<1>4. DOMAIN sb = Participants
  BY DEF IInv
<1>5. DOMAIN sb' = Participants /\ sb'[p] = r /\ \A q \in Participants \ {p} : sb'[q] = sb[q]
  BY <1>1, <1>4
<1>6. By(p, signed') = By(p, signed) \cup Signs(s)
  BY <1>1, <1>3 DEF By
<1>7. \A q \in Participants \ {p} : By(q, signed') = By(q, signed)
  BY <1>1, <1>3 DEF By
<1>8. Signs(r) = {}
  BY <1>2 DEF Signs
<1>9. IsState(r)
  BY <1>2 DEF Good, IsState
<1>10. Good(r, By(p, signed'))
  <2>1. By(p, signed') \cup Signs(r) = By(p, signed) \cup Signs(s)
    BY <1>6, <1>8
  <2> QED BY <1>2, <1>9, <2>1 DEF Good
<1>11. \A x \in signed' : x[1] \in Participants
  BY <1>1, <1>3 DEF IInv
<1>12. ASSUME NEW q \in Participants
       PROVE  sb'[q].me = q /\ sb'[q].out = {} /\ Good(sb'[q], By(q, signed'))
  <2>1. CASE q = p
    BY <1>2, <1>5, <1>10, <2>1
  <2>2. CASE q # p
    <3>1. sb'[q] = sb[q] /\ By(q, signed') = By(q, signed)
      BY <1>5, <1>7, <2>2
    <3> QED BY <3>1 DEF IInv
  <2> QED BY <2>1, <2>2
<1> QED BY <1>5, <1>11, <1>12 DEF IInv

LEMMA KeepsIInv ==
    ASSUME IInv, UNCHANGED <<sb, signed>>, \A n \in notes' : IsSeq(n.sid)
    PROVE  IInv'
  BY DEF IInv

LEMMA InitIInv == Init => IInv
<1> SUFFICES ASSUME Init PROVE IInv
  OBVIOUS
<1>1. sb = [p \in Participants |-> New(p, 1)] /\ signed = {} /\ notes = {}
  BY DEF Init
<1>2. ASSUME NEW p \in Participants
      PROVE  sb[p].me = p /\ sb[p].out = {} /\ Good(sb[p], By(p, signed))
  <2> DEFINE s == New(p, 1)
  <2>1. /\ DOMAIN s = Fields /\ s.me = p /\ s.out = {} /\ s.st = "PoolWait" /\ s.sid = <<>>
        /\ s.queue = {}
    BY DEF New, Fields
  <2>2. sb[p] = s
    BY <1>1
  <2> HIDE DEF s
  <2>3. IsState(s)
    BY <2>1, EmptySid, FS_EmptySet DEF IsState, States
  <2>4. By(p, signed) \cup Signs(s) = {}
    BY <1>1, <2>1 DEF By, Signs
  <2>5. Past({}, "PoolWait", <<>>)
    BY DEF Past, OneEach
  <2> QED BY <2>1, <2>2, <2>3, <2>4, <2>5 DEF Good
<1> QED BY <1>1, <1>2 DEF IInv

LEMMA FormPoolNotes ==
    ASSUME IInv, NEW joined, FormPool(joined)
    PROVE  \A n \in notes' : IsSeq(n.sid)
<1>1. \A p : Started(p, <<pools + 1>>, joined).sid = <<pools + 1>>
  BY DEF Started
<1>2. \A n \in notes : IsSeq(n.sid)
  BY DEF IInv
<1> QED BY <1>1, <1>2, ShortSids DEF FormPool

LEMMA JoinIInv == ASSUME IInv, HandleJoin PROVE IInv'
<1>1. UNCHANGED <<sb, signed>>
  BY DEF HandleJoin
<1>2. PICK j \in joins : \/ FormPool(pool.joined \cup {j})
                         \/ notes' = notes
  BY DEF HandleJoin
<1>3. \A n \in notes' : IsSeq(n.sid)
  BY <1>2, FormPoolNotes DEF IInv
<1> QED BY <1>1, <1>3, KeepsIInv

LEMMA LoseIInv == ASSUME IInv, LoseJoin PROVE IInv'
  BY KeepsIInv DEF LoseJoin, IInv

LEMMA PoolTimerIInv == ASSUME IInv, PoolTimer PROVE IInv'
<1>1. UNCHANGED <<sb, signed>> /\ FormPool(pool.joined)
  BY DEF PoolTimer
<1> QED BY <1>1, FormPoolNotes, KeepsIInv

LEMMA FacilitatorIInv == ASSUME IInv, ChangeFacilitator PROVE IInv'
<1>1. UNCHANGED <<sb, signed>>
  BY DEF ChangeFacilitator
<1>2. \/ FormPool(pool.joined)
      \/ notes' = notes \cup {Canceled(p) : p \in pool.joined}
  BY DEF ChangeFacilitator
<1>3. \A p : Canceled(p).sid = <<>>
  BY DEF Canceled
<1>4. \A n \in notes' : IsSeq(n.sid)
  BY <1>2, <1>3, FormPoolNotes, EmptySid DEF IInv
<1> QED BY <1>1, <1>4, KeepsIInv

\* Joining again: the queue is dropped, in PoolWait nothing was signed.
LEMMA JoinGood ==
    ASSUME NEW s, NEW A, Good(s, A), s.st = "PoolWait", NEW f
    PROVE  LET r == send_pool_join([s EXCEPT !.facilitator = f])
               q == send_pool_join(s)
           IN  Good(r, A) /\ r.me = s.me /\ Good(q, A) /\ q.me = s.me
<1> DEFINE n == [s EXCEPT !.facilitator = f]
<1>1. DOMAIN s = Fields /\ IsFiniteSet({})
  BY FS_EmptySet DEF Good, IsState
<1>2. Alike(s, send_pool_join(n)) /\ Alike(s, send_pool_join(s))
  BY <1>1 DEF Alike, Fields, send_pool_join
<1> HIDE DEF n
<1>3. Good(send_pool_join(n), A) /\ Good(send_pool_join(s), A)
  BY <1>2, AlikeGood
<1> QED BY <1>2, <1>3 DEF n, Alike

LEMMA ChangeIInv ==
    ASSUME IInv, NEW p \in Participants, change_facilitator(p)
    PROVE  IInv'
<1> DEFINE r == send_pool_join([sb[p] EXCEPT !.facilitator = pool.number])
<1>1. Become(p, r, {}) /\ sb[p].st = "PoolWait" /\ notes' = notes
  BY DEF change_facilitator
<1>2. Good(r, By(p, signed)) /\ r.me = p
  BY <1>1, JoinGood DEF IInv
<1> HIDE DEF r
<1> QED BY <1>1, <1>2, BecomeIInv DEF IInv

LEMMA RejoinIInv ==
    ASSUME IInv, NEW p \in Participants, Rejoin(p)
    PROVE  IInv'
<1> DEFINE r == send_pool_join(sb[p])
<1>1. Become(p, r, {}) /\ sb[p].st = "PoolWait" /\ notes' = notes
  BY DEF Rejoin
<1>2. Good(r, By(p, signed)) /\ r.me = p
  BY <1>1, JoinGood DEF IInv
<1> HIDE DEF r
<1> QED BY <1>1, <1>2, BecomeIInv DEF IInv

LEMMA NotificationIInv ==
    ASSUME IInv, NEW p \in Participants, on_pool_notification(p)
    PROVE  IInv'
<1> DEFINE Own(n) == {q \in n.participants : cheat[q] # "ownsig"}
           Begin(n) == [sb[p] EXCEPT !.sid = n.sid, !.participants = Own(n)]
<1>1. PICK n \in notes :
        /\ notes' = notes \ {n}
        /\ \/ sb[p].st = "PoolWait" /\ Become(p, start(Begin(n)), {})
           \/ UNCHANGED <<sb, net, signed>>
  BY DEF on_pool_notification
<1>2. \A k \in notes' : IsSeq(k.sid)
  BY <1>1 DEF IInv
<1>3. CASE sb[p].st = "PoolWait" /\ Become(p, start(Begin(n)), {})
  <2> DEFINE s == sb[p]
             r == Begin(n)
             A == By(p, signed)
  <2>1. Good(s, A) /\ s.me = p /\ s.st = "PoolWait" /\ IsSeq(n.sid)
    BY <1>3 DEF IInv
  <2>2. IsState(s) /\ Past(A \cup Signs(s), "PoolWait", s.sid)
    BY <2>1 DEF Good
  <2>3. /\ DOMAIN r = Fields /\ r.me = s.me /\ r.out = s.out /\ r.st = "PoolWait"
        /\ r.sid = n.sid /\ r.queue = s.queue
    BY <2>1, <2>2 DEF IsState, Fields
  <2> HIDE DEF s, r, A
  <2>4. IsState(r) /\ Signs(r) = Signs(s)
    BY <2>1, <2>2, <2>3 DEF IsState, Signs
  <2>5. Past(A \cup Signs(r), "PoolWait", n.sid)
    BY <2>2, <2>4 DEF Past, Waiting, Early
  <2>6. Good(r, A)
    BY <2>3, <2>4, <2>5 DEF Good
  <2>7. Good(start(r), A) /\ start(r).me = p
    BY <2>1, <2>3, <2>6, StartGood DEF Final
  <2>8. Become(p, start(r), {})
    BY <1>3 DEF r
  <2> QED BY <1>2, <2>7, <2>8, BecomeIInv DEF A
<1>4. CASE UNCHANGED <<sb, net, signed>>
  BY <1>2, <1>4, KeepsIInv
<1> QED BY <1>1, <1>3, <1>4

LEMMA ReceiveIInv ==
    ASSUME IInv, NEW p \in Participants, Receive(p)
    PROVE  IInv'
<1>1. PICK m \in net : Become(p, on_message_received(sb[p], m), {m})
  BY DEF Receive
<1>2. \A n \in notes' : IsSeq(n.sid)
  BY DEF Receive, facilitation, IInv
<1>3. Good(sb[p], By(p, signed)) /\ sb[p].me = p
  BY DEF IInv
<1>4. LET r == on_message_received(sb[p], m) IN Good(r, By(p, signed)) /\ r.me = p
  BY <1>3, ReceivedGood
<1> QED BY <1>1, <1>2, <1>4, BecomeIInv

LEMMA TimerIInv ==
    ASSUME IInv, NEW p \in Participants, handle_timer(p)
    PROVE  IInv'
<1>1. /\ Become(p, perform_next_phase(sb[p]), {}) /\ sb[p].st \in Waiting
      /\ notes' = notes
  BY DEF handle_timer, IsArmed
<1>2. Good(sb[p], By(p, signed)) /\ sb[p].me = p
  BY DEF IInv
<1>3. LET r == perform_next_phase(sb[p]) IN Good(r, By(p, signed)) /\ r.me = p
  BY <1>1, <1>2, NextPhaseGood
<1> QED BY <1>1, <1>3, BecomeIInv DEF IInv

LEMMA NextIInv == IInv /\ [Next]_vars => IInv'
<1> SUFFICES ASSUME IInv, [Next]_vars PROVE IInv'
  OBVIOUS
<1>1. CASE UNCHANGED vars
  <2>1. UNCHANGED <<sb, signed>> /\ notes' = notes
    BY <1>1 DEF vars, facilitation
  <2> QED BY <2>1, KeepsIInv DEF IInv
<1>2. CASE HandleJoin \/ LoseJoin \/ PoolTimer \/ ChangeFacilitator
  BY <1>2, JoinIInv, LoseIInv, PoolTimerIInv, FacilitatorIInv
<1>3. ASSUME NEW p \in Participants,
             \/ change_facilitator(p) \/ on_pool_notification(p) \/ Receive(p)
             \/ handle_timer(p) \/ Rejoin(p)
      PROVE  IInv'
  BY <1>3, ChangeIInv, NotificationIInv, ReceiveIInv, TimerIInv, RejoinIInv
<1> QED BY <1>1, <1>2, <1>3 DEF Next

\* NonceIsFresh: nobody signs two transactions in one session, which would give
\* the secret key away, however often rounds start again after dropouts,
\* collisions, bad signatures and early timers, and with any number of cheaters.
THEOREM NoncesAreFresh == Spec => []NonceIsFresh
<1>1. IInv => NonceIsFresh
  <2> SUFFICES ASSUME IInv, NEW x \in signed, NEW y \in signed, x[1] = y[1], x[2] = y[2]
               PROVE  x[3] = y[3]
    BY DEF NonceIsFresh
  <2> DEFINE p == x[1]
  <2>1. p \in Participants /\ x \in By(p, signed) /\ y \in By(p, signed)
    BY DEF IInv, By
  <2>2. Past(By(p, signed) \cup Signs(sb[p]), sb[p].st, sb[p].sid)
    BY <2>1 DEF IInv, Good
  <2>3. OneEach(By(p, signed) \cup Signs(sb[p]))
    BY <2>2 DEF Past
  <2> QED BY <2>1, <2>3 DEF OneEach
<1> QED BY <1>1, InitIInv, NextIInv, PTL DEF Spec
=============================================================================
