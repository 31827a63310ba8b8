------------------------------- MODULE DiceMix -------------------------------
(***************************************************************************)
(* DiceMix (crypto/src/dicemix/mod.rs): every participant publishes the    *)
(* powers of its messages under pads that cancel in the sum over all       *)
(* participants; the messages are the roots of the power sums.             *)
(*                                                                         *)
(* A message is one chunk, an element of a small field; 0 is no message.   *)
(* Chunks of long messages are put together by a short hash, which may     *)
(* collide: that is a choice of the module Snowball.  A sheet has one      *)
(* message, a matrix of a participant has MAX_UTXOS sheets.                *)
(***************************************************************************)
EXTENDS Integers, FiniteSets, Sequences
LOCAL INSTANCE FiniteSetsExt
LOCAL INSTANCE SequencesExt

CONSTANTS
    Q,                  \* the order of the field
    Digest(_, _),       \* the pad of a shared key and a cell, a field element
    MAX_UTXOS,          \* sheets of a matrix
    MaxColumns          \* bound: participants of a round

ASSUME DiceMixAssumption == Q \in Nat \ {0, 1} /\ {MAX_UTXOS, MaxColumns} \subseteq Nat \ {0}

Field == 0 .. Q - 1

\* exp_vec: powers by repeated multiplication.
Power[x \in Field, n \in 0 .. MaxColumns] ==
    IF n = 0 THEN 1 ELSE (Power[x, n - 1] * x) % Q

\* gen_cell_seed: sheets are numbered by the caller, columns from 0.
Seed(sheet, col) == <<sheet, col>>
SumSeed == <<"sum">>

\* What two participants share: a Diffie-Hellman key of their session keys,
\* hashed with both names and the session.
dc_keys(participants, me, sess) ==
    [p \in participants \ {me} |-> [pair |-> {p, me}, sess |-> sess]]

\* Pads cancel: the smaller of the two subtracts what the other one adds.
dc_slot_pad(participants, me, cloaks, seed) ==
    MapThenSumSet(LAMBDA p : IF me < p THEN Q - Digest(cloaks[p], seed)
                             ELSE Digest(cloaks[p], seed),
                  participants \ {me}) % Q

\* One column for every participant.
dc_encode_sheet(sheet, msg, participants, me, cloaks) ==
    [c \in 1 .. Cardinality(participants \cup {me}) |->
        (Power[msg, c] + dc_slot_pad(participants, me, cloaks, Seed(sheet, c - 1))) % Q]

dc_encode_scalar(x, participants, me, cloaks) ==
    (x + dc_slot_pad(participants, me, cloaks, SumSeed)) % Q

\* The pads that are left in a sum when some participants are missing, from
\* the keys that the others have published.
MissingPads(participants, excl, k_excl, seed) ==
    MapThenSumSet(LAMBDA p : dc_slot_pad(excl, p, k_excl[p], seed), participants) % Q

dc_scalar_open(participants, elts, excl, k_excl) ==
    (MapThenSumSet(LAMBDA p : elts[p], DOMAIN elts)
        + Q - MissingPads(participants, excl, k_excl, SumSeed)) % Q

dc_open(participants, mats, sheet, col, excl, k_excl) ==
    (MapThenSumSet(LAMBDA p : mats[p][sheet + 1][col + 1], DOMAIN mats)
        + Q - MissingPads(participants, excl, k_excl, Seed(sheet, col))) % Q

\* Every ascending sequence of messages with its power sums.
Ascending == {s \in UNION {[1 .. n -> Field] : n \in 1 .. MaxColumns} :
                 \A i \in 1 .. Len(s) - 1 : s[i] <= s[i + 1]}
PowerSums ==
    {<<s, [c \in 1 .. Len(s) |-> FoldLeft(LAMBDA r, x : (r + Power[x, c]) % Q, 0, s)]>> :
        s \in Ascending}

\* The solver finds the roots in any order: the ascending sequences whose
\* power sums these are.
dc_solve(row) == {x[1] : x \in {y \in PowerSums : y[2] = row}}

\* The messages of all sheets as a set of <<sheet, which, message>>, or an
\* error.
DecodeError == {<<0, 0, 0>>}

dc_decode(participants, mats, excl, k_excl) ==
    LET cols == Cardinality(participants \cup excl)
        Row(s) == [c \in 1 .. cols |->
                      dc_open(participants, mats, s - 1, c - 1, excl, k_excl)]
        roots == [s \in 1 .. MAX_UTXOS |-> dc_solve(Row(s))]
    IN  IF \E s \in 1 .. MAX_UTXOS : roots[s] = {} THEN DecodeError
        ELSE {<<s, i, (CHOOSE r \in roots[s] : TRUE)[i]>> :
                 s \in 1 .. MAX_UTXOS, i \in 1 .. cols}
             \ {<<s, i, 0>> : s \in 1 .. MAX_UTXOS, i \in 1 .. cols}

\* Blame discovery: what a participant has sent, with the pads that follow
\* from everyone's session key taken off.
Uncloaked(participants, sess, mats, fees, excl, p) ==
    LET cloaks == dc_keys((participants \cup excl) \ {p}, p, sess)
        Unpad(x, seed) == (x + Q - dc_slot_pad(participants, p, cloaks, seed)) % Q
    IN  [msgs |-> [s \in 1 .. MAX_UTXOS |-> Unpad(mats[p][s][1], Seed(s - 1, 0))],
         fee |-> Unpad(fees[p], SumSeed)]

\* Encode it again and compare.  The result is whoever has sent something
\* else; the validator that the caller hands in judges messages and fee.
dc_reconstruct(participants, sess, mats, fees, excl, k_excl) ==
    {p \in participants :
        LET others == (participants \cup excl) \ {p}
            cloaks == dc_keys(others, p, sess)
            msgs == Uncloaked(participants, sess, mats, fees, excl, p).msgs
        IN  \/ \E s \in 1 .. MAX_UTXOS :
                  dc_encode_sheet(s - 1, msgs[s], others, p, cloaks) # mats[p][s]
            \/ \E q \in excl : cloaks[q] # k_excl[p][q]}
=============================================================================
