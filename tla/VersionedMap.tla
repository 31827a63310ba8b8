---------------------------- MODULE VersionedMap ----------------------------
(***************************************************************************)
(* What a versioned map promises: it remembers its contents at every lsn   *)
(* since the oldest one, the present never changes the past, and going     *)
(* back to an lsn gives exactly the contents of that time.                 *)
(***************************************************************************)
EXTENDS Integers

CONSTANTS Keys, Values, NoValue, MaxLsn

Lsns == 0 .. MaxLsn
Contents == [Keys -> Values \cup {NoValue}]
Empty == [k \in Keys |-> NoValue]

VARIABLES
    versions,       \* versions[l]: the contents at lsn l
    oldest          \* the last checkpoint, before it nothing is remembered

vars == <<versions, oldest>>

\* Nothing has happened after lsn.
Last(lsn) == \A l \in Lsns : l >= lsn => versions[l] = versions[lsn]

Init == versions = [l \in Lsns |-> Empty] /\ oldest = 0

Write(lsn, k, v) ==
    /\ lsn >= oldest /\ Last(lsn)
    /\ versions' = [l \in Lsns |-> IF l < lsn THEN versions[l]
                                   ELSE [versions[lsn] EXCEPT ![k] = v]]
    /\ UNCHANGED oldest

Rollback(lsn) ==
    /\ lsn >= oldest
    /\ versions' = [l \in Lsns |-> versions[IF l < lsn THEN l ELSE lsn]]
    /\ UNCHANGED oldest

Checkpoint(lsn) ==
    /\ lsn >= oldest /\ Last(lsn)
    /\ versions' = [l \in Lsns |-> versions[lsn]]
    /\ oldest' = lsn

Reset ==
    /\ versions' = [l \in Lsns |-> Empty]
    /\ oldest' = 0

Next ==
    \/ \E lsn \in Lsns : \/ Rollback(lsn) \/ Checkpoint(lsn)
                         \/ \E k \in Keys, v \in Values \cup {NoValue} :
                                Write(lsn, k, v)
    \/ Reset

Spec == Init /\ [][Next]_vars
=============================================================================
