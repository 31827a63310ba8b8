----------------------------- MODULE MCSnowball -----------------------------
(***************************************************************************)
(* An instance of Snowball for TLC.                                        *)
(***************************************************************************)
EXTENDS Snowball, TLC
LOCAL INSTANCE FiniteSetsExt

MCTxouts == (1 :> <<2>>) @@ (2 :> <<3>>) @@ (3 :> <<5>>)
MCFee == (1 :> 1) @@ (2 :> 1) @@ (3 :> 2)

\* Some element of the field, different for most cells.
MCDigest(cloak, seed) ==
    (MapThenSumSet(LAMBDA p : p, cloak.pair) * 3 + Len(cloak.sess) * 5
       + (IF Len(seed) = 2 THEN seed[1] * 4 + seed[2] * 7 + 1 ELSE 6)) % Q
=============================================================================
