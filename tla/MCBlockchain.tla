---------------------------- MODULE MCBlockchain ----------------------------
EXTENDS Blockchain

CONSTANTS s0, s1, s2, s3, t1, t2, p

MCStake ==
    [u \in {s0, s1, s2, s3} |-> [validator |-> 1, amount |-> 1]] @@
    [u \in {t1, t2} |-> [validator |-> 2, amount |-> 2]] @@
    [u \in {p} |-> [validator |-> NoValidator, amount |-> 2]]

MCAccount == [v \in {1, 2} |-> v]

Tx(ins, outs) == [ins |-> ins, outs |-> outs]
MCTransactions ==
    {Tx({}, {}), Tx({s1}, {s2}), Tx({t1}, {t2}),
     Tx({s2}, {s3}), Tx({s2}, {}), Tx({s0}, {}), Tx({t1}, {p})}

MCDraw(random, i) == random + i
MCLucky(random) == random = 1
MCShrink(random) == random
=============================================================================
