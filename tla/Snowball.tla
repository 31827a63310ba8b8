------------------------------ MODULE Snowball ------------------------------
(***************************************************************************)
(* Snowball (wallet/src/snowball/mod.rs): wallets that want to spend join  *)
(* a pool at the facilitator (node/src/txpool/mod.rs), share their outputs *)
(* anonymously (the module DiceMix) and sign one transaction together.     *)
(*                                                                         *)
(* A phase ends for a participant when it has an answer from everybody     *)
(* that it waits for, or when its timer fires; who has not answered is     *)
(* left out.  Messages may be late, and a timer may always be too early.   *)
(*                                                                         *)
(* Curve points are left out: an output is its amount, a commitment is     *)
(* what it commits to, a signature is the transaction that was signed, and *)
(* a transaction is valid if the amounts balance and all signatures are on *)
(* it.  The outputs of every round are fresh, so that a transaction has    *)
(* the session that it was made in.                                        *)
(***************************************************************************)
EXTENDS DiceMix, SequencesExt

CONSTANTS
    Participants,       \* a set of numbers
    MinParticipants,    \* of a round, 3 in the code: need_3_participants
    MIN_PARTICIPANTS, MAX_PARTICIPANTS, \* of a pool
    MSG_FLOOD_LIMIT,
    Txouts,             \* my_txouts of every participant: a sequence of amounts
    Fee,                \* my_fee
    Faulty,             \* participants that may deviate
    Cheats,             \* how they may: see CheatKinds
    Collisions,         \* sets of participants whose chunks may collide
    MaxPools,           \* bound: pools that are formed
    MaxFacilitators,    \* bound: facilitators in a row
    MaxTroubles         \* bound: early timers, cheats and collisions

ASSUME SnowballAssumption ==
    /\ Participants \subseteq Nat
    /\ {MinParticipants, MIN_PARTICIPANTS, MAX_PARTICIPANTS, MSG_FLOOD_LIMIT, MaxPools,
        MaxFacilitators} \subseteq Nat \ {0}
    /\ MaxTroubles \in Nat
    /\ \A p \in Participants : Len(Txouts[p]) <= MAX_UTXOS /\ Fee[p] \in Nat

VARIABLES
    sb,         \* sb[p]: the Snowball of participant p
    net,        \* messages of participants on their way
    pool,       \* the facilitator: its number and who has joined
    joins,      \* PoolJoin messages on their way
    notes,      \* pool notifications on their way
    pools,      \* how many pools have been formed
    troubles,   \* how many of them there were
    cheat,      \* cheat[p]: what participant p does wrong
    collided,   \* the participants whose chunks collide in the first round
    signed      \* history: <<participant, session, transaction>>

facilitation == <<pool, joins, notes, pools, troubles>>
fate == <<cheat, collided>>
vars == <<sb, net, facilitation, fate, signed>>

\* A bad proof of ownership, a fee that does not balance, data that is not
\* what was committed to, a bad signature.
CheatKinds == {"ownsig", "fee", "data", "sig"}

Waiting == {"SharedKeying", "Commitment", "CloakedVals", "Signature", "SecretKeying"}
States == {"PoolWait", "Succeeded", "Failed"} \cup Waiting

NoTx == [sess |-> <<>>, parts |-> {}, outs |-> {}, fee |-> 0]
Empty == [p \in {} |-> 0]
Put(f, p, v) == [q \in DOMAIN f \cup {p} |-> IF q = p THEN v ELSE f[q]]

Amount(outs) == MapThenSumSet(LAMBDA o : o[3], outs)
SumSeq(seq) == FoldLeft(LAMBDA r, x : r + x, 0, seq)

\* my_txins: what comes in is what goes out and the fee.
AmountIn(p) == SumSeq(Txouts[p]) + Fee[p]

\* A Snowball in PoolWait.  out has the messages of the step.
New(p, facilitator) ==
    [me |-> p, facilitator |-> facilitator, st |-> "PoolWait", sid |-> <<>>,
     participants |-> {}, pending |-> {}, commit_phase |-> {}, excl |-> {},
     commits |-> Empty, mats |-> Empty, fees |-> Empty, cloaks |-> Empty,
     signatures |-> Empty, trans |-> NoTx, queue |-> {}, out |-> {},
     exclusions |-> {}]

\* change_state to Succeeded or Failed: nothing is left but the result.
Finish(s, st, tx) ==
    [New(s.me, s.facilitator) EXCEPT !.st = st, !.trans = tx, !.out = s.out,
                                     !.exclusions = s.exclusions]

-----------------------------------------------------------------------------
(* Sending, and waiting for answers *)

send_signed_message(s, payload) ==
    [s EXCEPT !.out = @ \cup {[from |-> s.me, to |-> p, sid |-> s.sid,
                               payload |-> payload] : p \in s.participants \ {s.me}}]

\* From now on participants has those who have answered.
prep_rx(s, st) ==
    [s EXCEPT !.pending = s.participants \ {s.me}, !.participants = {s.me}, !.st = st]

\* start: a new round, and a new session id from the old one, the round and
\* the participants.  The nonce of the signature depends on it.
start(s) ==
    IF Cardinality(s.participants) < MinParticipants THEN Finish(s, "Failed", NoTx)
    ELSE LET new == [s EXCEPT !.sid = Append(@, s.participants)]
         IN  prep_rx(send_signed_message(new, [kind |-> "SharedKeying"]), "SharedKeying")

-----------------------------------------------------------------------------
(* The phases *)

\* encode_matrix: sheets from 1; those without an output are empty.
encode_matrix(p, participants, cloaks) ==
    [i \in 1 .. MAX_UTXOS |->
        dc_encode_sheet(i, IF i <= Len(Txouts[p]) THEN Txouts[p][i] ELSE 0,
                        participants, p, cloaks)]

\* commit: build the matrix, publish a commitment to it.
commit(s) ==
    LET cloaks == dc_keys(s.participants, s.me, s.sid)
        matrix == encode_matrix(s.me, s.participants, cloaks)
        fee == IF cheat[s.me] = "fee" THEN Fee[s.me] + 1 ELSE Fee[s.me]
        cloaked == dc_encode_scalar(fee, s.participants, s.me, cloaks)
        new == [s EXCEPT !.commit_phase = s.participants, !.cloaks = cloaks,
                         !.mats = Put(Empty, s.me, matrix),
                         !.fees = Put(Empty, s.me, cloaked),
                         !.commits = Put(Empty, s.me, <<matrix, cloaked>>)]
    IN  IF Cardinality(s.participants) < MinParticipants THEN Finish(s, "Failed", NoTx)
        ELSE prep_rx(send_signed_message(new,
                        [kind |-> "Commitment", cmt |-> <<matrix, cloaked>>,
                         parts |-> s.participants]), "Commitment")

\* share_cloaked_data: publish the matrix, and the keys shared with those
\* who have not committed.
share_cloaked_data(s) ==
    LET excl == s.commit_phase \ s.participants
        fee == IF cheat[s.me] = "data" THEN (s.fees[s.me] + 1) % Q ELSE s.fees[s.me]
        new == [s EXCEPT !.excl = excl]
    IN  IF Cardinality(s.participants) < MinParticipants THEN Finish(s, "Failed", NoTx)
        ELSE prep_rx(send_signed_message(new,
                        [kind |-> "CloakedVals", matrix |-> s.mats[s.me], fee |-> fee,
                         excl |-> excl]), "CloakedVals")

had_dropouts(s) == s.commit_phase # s.participants

KeysOf(s) == [p \in s.participants |-> dc_keys(s.excl \cup {p}, p, s.sid)]

\* My outputs may not come across, if chunks of participants collide.
HaveCollided(s) == s.me \in collided /\ Len(s.sid) = 2

\* make_supertransaction: sign what comes out of the sharing.
make_supertransaction(s) ==
    LET outs == dc_decode(s.participants, s.mats, s.excl, KeysOf(s))
        tx == [sess |-> s.sid, parts |-> s.commit_phase, outs |-> outs,
               fee |-> dc_scalar_open(s.participants, s.fees, s.excl, KeysOf(s))]
        missing == {a \in ToSet(Txouts[s.me]) : \A o \in outs : o[3] # a}
        sig == IF cheat[s.me] = "sig" THEN NoTx ELSE tx
        new == [s EXCEPT !.trans = tx, !.signatures = Put(Empty, s.me, sig)]
    IN  IF Cardinality(s.participants) < MinParticipants THEN Finish(s, "Failed", NoTx)
        ELSE IF \/ had_dropouts(s) \/ HaveCollided(s)
                \/ outs = DecodeError \/ missing # {}
        THEN start(s)
        ELSE prep_rx(send_signed_message(new, [kind |-> "Signature", sig |-> sig]),
                     "Signature")

\* validate_transaction, as a validator would.
IsValid(tx, signatures) ==
    /\ MapThenSumSet(AmountIn, tx.parts) % Q = (Amount(tx.outs) + tx.fee) % Q
    /\ \A p \in tx.parts : signatures[p] = tx

\* Mutant: those who have not signed are left out of the check.
SignWithWhoAnswers(s) ==
    IF \A p \in DOMAIN s.signatures : s.signatures[p] = s.trans
    THEN Finish(s, "Succeeded", s.trans)
    ELSE prep_rx(send_signed_message(s, [kind |-> "SecretKeying"]), "SecretKeying")

\* Mutant: without all signatures the round begins again in its session.
SignInSameSession(s) ==
    CASE ~(s.commit_phase \subseteq DOMAIN s.signatures) ->
            prep_rx(send_signed_message(s, [kind |-> "SharedKeying"]), "SharedKeying")
      [] s.commit_phase \subseteq DOMAIN s.signatures /\ IsValid(s.trans, s.signatures) ->
            Finish(s, "Succeeded", s.trans)
      [] OTHER -> prep_rx(send_signed_message(s, [kind |-> "SecretKeying"]),
                          "SecretKeying")

\* sign_supertransaction: done, if all have signed the same transaction.
sign_supertransaction(s) ==
    CASE ~(s.commit_phase \subseteq DOMAIN s.signatures) -> start(s)
      [] s.commit_phase \subseteq DOMAIN s.signatures /\ IsValid(s.trans, s.signatures) ->
            Finish(s, "Succeeded", s.trans)
      [] OTHER -> prep_rx(send_signed_message(s, [kind |-> "SecretKeying"]),
                          "SecretKeying")

\* The messages of a participant must be outputs, balance with its inputs,
\* and it must have signed.  An empty sheet is not an output.
validate_uncloaked_contrib(s, p, msgs, fee) ==
    /\ \A i \in DOMAIN msgs : msgs[i] # 0
    /\ (SumSeq(msgs) + fee) % Q = AmountIn(p) % Q
    /\ s.signatures[p] = s.trans

\* blame_discovery: go on without those who do not pass.
blame_discovery(s) ==
    LET invalid == {p \in s.commit_phase :
                       LET u == Uncloaked(s.commit_phase, s.sid, s.mats, s.fees, s.excl, p)
                       IN  ~validate_uncloaked_contrib(s, p, u.msgs, u.fee)}
        excl == IF had_dropouts(s) THEN {}
                ELSE invalid \cup dc_reconstruct(s.commit_phase, s.sid, s.mats, s.fees,
                                                 s.excl, KeysOf(s))
    IN  start([s EXCEPT !.participants = @ \ excl, !.exclusions = @ \cup excl])

perform_next_phase(s) ==
    CASE s.st = "SharedKeying" -> commit(s)
      [] s.st = "Commitment" -> share_cloaked_data(s)
      [] s.st = "CloakedVals" -> make_supertransaction(s)
      [] s.st = "Signature" -> sign_supertransaction(s)
      [] s.st = "SecretKeying" -> blame_discovery(s)

\* The leader of those who have signed sends the transaction; the code takes
\* the one whose hash is next to that of them all.
leader_id(participants) == Min(participants)

-----------------------------------------------------------------------------
(* Messages of participants *)

\* handle_message: whether a message is one that the phase waits for.
Accepts(s, m) ==
    /\ m.payload.kind = s.st /\ m.sid = s.sid /\ m.from \in s.pending
    /\ s.st = "Commitment" => m.payload.parts = s.commit_phase
    /\ s.st = "CloakedVals" =>
         /\ s.commits[m.from] = <<m.payload.matrix, m.payload.fee>>
         /\ m.payload.excl = s.excl
         /\ \A i \in DOMAIN m.payload.matrix :
              Len(m.payload.matrix[i]) = Cardinality(s.commit_phase)

\* What is for another phase or session stays in the queue.
Discards(s, m) == m.payload.kind = s.st /\ m.sid = s.sid /\ ~Accepts(s, m)

Accept(s, m) ==
    LET new == [s EXCEPT !.pending = @ \ {m.from}, !.participants = @ \cup {m.from}]
    IN  CASE s.st = "Commitment" ->
               [new EXCEPT !.commits = Put(@, m.from, m.payload.cmt)]
          [] s.st = "CloakedVals" ->
               [new EXCEPT !.mats = Put(@, m.from, m.payload.matrix),
                           !.fees = Put(@, m.from, m.payload.fee)]
          [] s.st = "Signature" ->
               [new EXCEPT !.signatures = Put(@, m.from, m.payload.sig)]
          [] OTHER -> new

\* One pass over the queue; the next phase begins if nobody is missing.  The
\* pass ends there, and what was not looked at stays: the queue has no order
\* here, and all that would be discarded is taken to be behind.  No later
\* phase looks at it again, but it counts for MSG_FLOOD_LIMIT.
Scan(s) ==
    LET good == {m \in s.queue : Accepts(s, m)}
        bad == {m \in s.queue : Discards(s, m)}
        new == FoldSet(LAMBDA m, r : Accept(r, m), [s EXCEPT !.queue = @ \ good], good)
    IN  IF s.st \notin Waiting \/ s.pending = {} THEN s
        ELSE IF good # {} /\ new.pending = {} THEN perform_next_phase(new)
        ELSE [new EXCEPT !.queue = @ \ bad]

\* on_message_received: queue the message, then scan until nothing happens.
\* MaxScans is more than a step can begin phases.
MaxScans == 4

on_message_received(s, m) ==
    LET flood == Cardinality({x \in s.queue : x.from = m.from}) >= MSG_FLOOD_LIMIT
        queued == IF flood THEN s ELSE [s EXCEPT !.queue = @ \cup {m}]
        After[i \in 0 .. MaxScans] == IF i = 0 THEN queued ELSE Scan(After[i - 1])
    IN  After[MaxScans]

-----------------------------------------------------------------------------
(* The pool *)

send_pool_join(s) == [s EXCEPT !.queue = {}, !.st = "PoolWait"]

Started(p, sid, participants) ==
    [to |-> p, from |-> pool.number, kind |-> "Started", sid |-> sid,
     participants |-> participants]

Canceled(p) ==
    [to |-> p, from |-> pool.number, kind |-> "Canceled", sid |-> <<>>,
     participants |-> {}]

CanForm(joined) == Cardinality(joined) >= MIN_PARTICIPANTS /\ pools < MaxPools

\* try_to_form_pool: everybody who has joined gets a notification.
FormPool(joined) ==
    /\ notes' = notes \cup {Started(p, <<pools + 1>>, joined) : p \in joined}
    /\ pools' = pools + 1

\* handle_join_message: with a new member the pool may be full.
HandleJoin ==
    \E j \in joins :
        LET joined == pool.joined \cup {j}
            full == /\ j \notin pool.joined
                    /\ Cardinality(joined) >= MAX_PARTICIPANTS /\ CanForm(joined)
        IN  /\ joins' = joins \ {j}
            /\ IF full THEN FormPool(joined) /\ pool' = [pool EXCEPT !.joined = {}]
               ELSE pool' = [pool EXCEPT !.joined = joined] /\ UNCHANGED <<notes, pools>>
            /\ UNCHANGED <<sb, net, fate, signed, troubles>>

\* The network does not promise to deliver a unicast.
LoseJoin ==
    /\ troubles < MaxTroubles /\ troubles' = troubles + 1
    /\ \E j \in joins : joins' = joins \ {j}
    /\ UNCHANGED <<pool, notes, pools, sb, net, fate, signed>>

PoolTimer ==
    /\ CanForm(pool.joined)
    /\ FormPool(pool.joined)
    /\ pool' = [pool EXCEPT !.joined = {}]
    /\ UNCHANGED <<joins, sb, net, fate, signed, troubles>>

\* A new epoch: the service of the old facilitator is dropped, which forms a
\* last pool or cancels.  What is sent to it later is lost.  Left out once
\* participants have begun.
ChangeFacilitator ==
    /\ pool.number < MaxFacilitators
    /\ \A p \in Participants : sb[p].st = "PoolWait"
    /\ pool' = [number |-> pool.number + 1, joined |-> {}]
    /\ IF CanForm(pool.joined) THEN FormPool(pool.joined)
       ELSE notes' = notes \cup {Canceled(p) : p \in pool.joined} /\ UNCHANGED pools
    /\ joins' = {}
    /\ UNCHANGED <<sb, net, fate, signed, troubles>>

-----------------------------------------------------------------------------
(* The participants *)

IsDone(s) == s.st \in {"Succeeded", "Failed"}

\* A step of p that takes some messages and leads to s: its own messages go
\* out, and what it signs is noted.  Nobody reads what is
\* sent to those who are done.
Become(p, s, taken) ==
    /\ sb' = [sb EXCEPT ![p] = [s EXCEPT !.out = {}, !.exclusions = {}]]
    /\ net' = {m \in (net \ taken) \cup s.out : ~IsDone(sb'[m.to])}
    /\ signed' = signed \cup {<<p, m.sid, m.payload.sig>> :
                                 m \in {x \in s.out : x.payload.kind = "Signature"}}

\* In other phases only the facilitator is noted, and nobody goes back to
\* PoolWait.
change_facilitator(p) ==
    /\ sb[p].facilitator < pool.number
    /\ sb[p].st = "PoolWait"
    /\ Become(p, send_pool_join([sb[p] EXCEPT !.facilitator = pool.number]), {})
    /\ joins' = joins \cup {p}
    /\ UNCHANGED <<pool, notes, pools, troubles, fate>>

\* on_pool_notification: only from the facilitator, and only in PoolWait.
on_pool_notification(p) ==
    \E n \in notes :
        LET s == sb[p]
            owners == {q \in n.participants : cheat[q] # "ownsig"}
            relevant == /\ n.from = s.facilitator /\ s.st = "PoolWait"
                        /\ n.kind = "Started" /\ p \in n.participants
        IN  /\ n.to = p
            /\ notes' = notes \ {n}
            /\ IF relevant
               THEN Become(p, start([s EXCEPT !.sid = n.sid, !.participants = owners]), {})
               ELSE UNCHANGED <<sb, net, signed>>
            /\ UNCHANGED <<pool, joins, pools, troubles, fate>>

Receive(p) ==
    /\ ~IsDone(sb[p])
    /\ \E m \in net : m.to = p /\ Become(p, on_message_received(sb[p], m), {m})
    /\ UNCHANGED <<facilitation, fate>>

\* Nothing is on its way to those who follow the protocol.
Quiet == \A m \in net \cup notes : m.to \in Faulty \/ IsDone(sb[m.to])

\* Mutant: the timer of the first phase is not armed.
ArmedAfterKeying(s) == s.st \in Waiting \ {"SharedKeying"}

\* Every phase arms the timer.
IsArmed(s) == s.st \in Waiting

\* handle_timer: on to the next phase.  A timer is early if answers are on
\* their way.
handle_timer(p) ==
    /\ IsArmed(sb[p])
    /\ \/ Quiet /\ UNCHANGED troubles
       \/ ~Quiet /\ troubles < MaxTroubles /\ troubles' = troubles + 1
    /\ Become(p, perform_next_phase(sb[p]), {})
    /\ UNCHANGED <<pool, joins, notes, pools, fate>>

\* handle_timer in PoolWait: join again.  Left out where the facilitator has
\* it already, forms no more pools or is not the facilitator any more.
Rejoin(p) ==
    /\ sb[p].st = "PoolWait" /\ pools < MaxPools /\ sb[p].facilitator = pool.number
    /\ p \notin pool.joined /\ p \notin joins
    /\ Become(p, send_pool_join(sb[p]), {})
    /\ joins' = joins \cup {p}
    /\ UNCHANGED <<pool, notes, pools, troubles, fate>>

-----------------------------------------------------------------------------
Init ==
    /\ sb = [p \in Participants |-> New(p, 1)]
    /\ net = {} /\ notes = {} /\ pools = 0
    /\ pool = [number |-> 1, joined |-> {}]
    /\ joins = Participants
    /\ cheat \in [Participants -> Cheats \cup {"none"}]
    /\ \A p \in Participants \ Faulty : cheat[p] = "none"
    /\ collided \in Collisions
    /\ troubles = Cardinality({p \in Participants : cheat[p] # "none"})
                    + (IF collided = {} THEN 0 ELSE 1)
    /\ troubles <= MaxTroubles
    /\ signed = {}

Next ==
    \/ HandleJoin \/ LoseJoin \/ PoolTimer \/ ChangeFacilitator
    \/ \E p \in Participants :
         \/ change_facilitator(p) \/ on_pool_notification(p) \/ Receive(p)
         \/ handle_timer(p) \/ Rejoin(p)

Spec == Init /\ [][Next]_vars

\* Messages arrive and timers fire.  Weak fairness of the handlers of p is
\* spelled out: p is woken up if something is there for it, or nothing at all.
Awake(p) ==
    \/ IsArmed(sb[p]) /\ Quiet
    \/ ~IsDone(sb[p]) /\ \E m \in net \cup notes : m.to = p
Moves(p) ==
    \/ sb'[p] # sb[p]
    \/ \E m \in (net \cup notes) \ (net' \cup notes') : m.to = p

FairSpec ==
    /\ Spec
    /\ \A p \in Participants \ Faulty : []<>~Awake(p) \/ []<><<Moves(p)>>_vars

-----------------------------------------------------------------------------
(* Properties *)

\* Every participant takes part in its own round and waits for others only,
\* and only for those it has commitments of.
TypeOK ==
    /\ \A p \in Participants :
         /\ sb[p].st \in States
         /\ sb[p].st \in Waiting => p \in sb[p].participants
         /\ sb[p].participants \cap sb[p].pending = {}
         /\ sb[p].st \in {"CloakedVals", "Signature"} => sb[p].pending \subseteq DOMAIN sb[p].commits
    /\ \A m \in net : m.from # m.to

\* The nonce of a signature is a function of the session id, and two
\* signatures with one nonce give the secret key away: nobody signs two
\* transactions in one session, however often the rounds start again.
NonceIsFresh ==
    \A x, y \in signed : x[1] = y[1] /\ x[2] = y[2] => x[3] = y[3]

\* Who has succeeded has the transaction that all its participants have
\* signed, with exactly the outputs that they wanted.
SuccessIsUnanimous ==
    /\ TypeOK
    /\ \A p \in Participants : sb[p].st = "Succeeded" =>
        LET tx == sb[p].trans
        IN  /\ p \in tx.parts /\ Cardinality(tx.parts) >= MinParticipants
            /\ \A q \in tx.parts : <<q, tx.sess, tx>> \in signed
            /\ \A q \in tx.parts \ Faulty : \A i \in 1 .. Len(Txouts[q]) :
                 Cardinality({o \in tx.outs : o[1] = i /\ o[3] = Txouts[q][i]})
                   = Cardinality({r \in tx.parts : Len(Txouts[r]) >= i /\ Txouts[r][i] = Txouts[q][i]})

\* Whatever is lost, late or wrong, every round ends, and a participant is
\* not held by the others: once a pool is formed it succeeds or fails.
EveryoneFinishes ==
    \A p \in Participants \ Faulty :
        sb[p].st \in Waiting ~> sb[p].st \in {"Succeeded", "Failed"}
=============================================================================
