-------------------------------- MODULE Mvcc --------------------------------
(***************************************************************************)
(* One MultiVersionedMap in use: Blockchain writes it with growing lsns,   *)
(* rolls it back block by block and makes a checkpoint at a macro block,   *)
(* when the patch goes into a column family of the database.  The loop of  *)
(* rollback_to_lsn is modelled record by record.                           *)
(***************************************************************************)
EXTENDS MultiVersionedMap

CONSTANTS
    Keys, Values,
    MaxLsn,         \* bound: lsns are 0 .. MaxLsn
    MaxUndo,        \* bound: the longest undo log that is written to
    NoLsn           \* no rollback is running

Lsns == 0 .. MaxLsn
Contents == [Keys -> Values \cup {NoValue}]

ASSUME MvccAssumption ==
    /\ NoValue \notin Values
    /\ MaxLsn \in Nat
    /\ MaxUndo \in Nat
    /\ NoLsn \notin Lsns

VARIABLES
    m,              \* the map
    to_lsn,         \* the argument of the rollback that is running, or NoLsn
    disk            \* the copy of the map in the database

vars == <<m, to_lsn, disk>>

Idle == to_lsn = NoLsn

Init ==
    /\ m = new(Keys)
    /\ to_lsn = NoLsn
    /\ disk = [k \in Keys |-> NoValue]

\* "lsn must not decrease" is up to the caller.
Insert(lsn, k, v) ==
    /\ Idle /\ Len(m.undo) < MaxUndo
    /\ lsn >= current_lsn(m)
    /\ m' = insert(m, lsn, k, v)
    /\ UNCHANGED <<to_lsn, disk>>

Remove(lsn, k) ==
    /\ Idle /\ Len(m.undo) < MaxUndo
    /\ lsn >= current_lsn(m)
    /\ m' = remove(m, lsn, k)
    /\ UNCHANGED <<to_lsn, disk>>

Checkpoint ==
    /\ Idle
    /\ m' = checkpoint(m)
    /\ disk' = reverse_patch(m, disk)
    /\ UNCHANGED to_lsn

\* A call of rollback_to_lsn, not "too old".
Rollback(lsn) ==
    /\ Idle
    /\ lsn >= m.checkpoint_lsn
    /\ to_lsn' = lsn
    /\ UNCHANGED <<m, disk>>

UndoLast ==
    /\ ~ Idle
    /\ current_lsn(m) > to_lsn
    /\ m' = undo_last(m)
    /\ UNCHANGED <<to_lsn, disk>>

RollbackDone ==
    /\ ~ Idle
    /\ current_lsn(m) <= to_lsn
    /\ to_lsn' = NoLsn
    /\ UNCHANGED <<m, disk>>

\* Only a map that is never stored is reset (epoch_activity).
Reset ==
    /\ Idle
    /\ \A k \in Keys : disk[k] = NoValue
    /\ m' = new(Keys)
    /\ UNCHANGED <<to_lsn, disk>>

Next ==
    \/ \E lsn \in Lsns, k \in Keys :
         \/ \E v \in Values : Insert(lsn, k, v)
         \/ Remove(lsn, k)
    \/ \E lsn \in Lsns : Rollback(lsn)
    \/ Checkpoint \/ UndoLast \/ RollbackDone \/ Reset

Spec == Init /\ [][Next]_vars

-----------------------------------------------------------------------------
(* Properties *)

UndoRecord == [lsn : Lsns, key : Keys, value : Values \cup {NoValue}]

TypeOK ==
    /\ m \in [map : Contents, undo : Seq(UndoRecord), checkpoint_lsn : Lsns]
    /\ to_lsn \in Lsns \cup {NoLsn}
    /\ disk \in Contents

\* The asserts of the loop of rollback_to_lsn hold in every round ("rollback
\* before the checkpoint", "duplicate key", "key exists"), wherever the writes
\* and earlier rollbacks have left the undo log.
UndoAsserts ==
    ~ Idle /\ current_lsn(m) > to_lsn =>
        /\ m.undo # <<>>
        /\ LET last == m.undo[Len(m.undo)]
           IN  /\ last.lsn > to_lsn
               /\ (last.value = NoValue) # (m.map[last.key] = NoValue)

\* The database holds the map as it was at the last checkpoint, although
\* checkpoint() only writes the keys named in the undo log that rollbacks
\* have cut: undoing everything that is in the log leads there.
DiskIsCheckpoint == disk = Without(m, DOMAIN m.undo)

\* The loop computes rollback_to_lsn: every round leaves the result the same,
\* and at the end it is the map.
LoopRollsBack ==
    [][~ Idle => LET result == rollback_to_lsn(m, to_lsn)
                 IN  /\ rollback_to_lsn(m', to_lsn) = result
                     /\ to_lsn' = NoLsn => m' = result]_vars

\* What is left of the contents at lsn l once the rollback to t is over.
Version(mm, t, l) ==
    Without(mm, Newer(mm, IF t # NoLsn /\ l > t THEN t ELSE l))

Versions ==
    INSTANCE VersionedMap
    WITH versions <- [l \in Lsns |-> Version(m, to_lsn, l)],
         oldest <- m.checkpoint_lsn

\* The map implements VersionedMap: rolling back gives exactly the contents
\* that the map had at that lsn, and no write changes an earlier version.
KeepsVersions == Versions!Spec
=============================================================================
