------------------------------ MODULE MCWallet ------------------------------
(***************************************************************************)
(* An instance of Wallet for TLC.                                          *)
(***************************************************************************)
EXTENDS Wallet

\* A payment and two stakes that have expired, and an output of others.
MCGenesis ==
    {Output(<<0, 1>>, "payment", Me, 3),
     Output(<<0, 2>>, "stake", Me, 2), Output(<<0, 3>>, "stake", Me, 3), Output(<<0, 4>>, "payment", Other, 3)}

\* One payment to this account.
MCIncoming ==
    {[id |-> 100, type |-> "payment", ins |-> {<<0, 4>>}, fee |-> 1,
      outs |-> {Output(<<100, 1>>, "payment", Me, 2)}]}
=============================================================================
