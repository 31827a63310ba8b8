-------------------------- MODULE MultiVersionedMap --------------------------
(***************************************************************************)
(* The versioned map of blockchain/src/mvcc.rs as operators: m is a record *)
(* of the map, its undo log and the lsn of the last checkpoint.  A missing *)
(* key has the value NoValue, and so a record of the undo log is the value *)
(* that its key had before: UndoRecord::Remove has NoValue.                *)
(***************************************************************************)
EXTENDS Integers, Sequences, FiniteSetsExt

CONSTANTS NoValue       \* None

new(keys) ==
    [map |-> [k \in keys |-> NoValue], undo |-> <<>>, checkpoint_lsn |-> 0]

current_lsn(m) ==
    IF m.undo = <<>> THEN m.checkpoint_lsn ELSE m.undo[Len(m.undo)].lsn

Undo(lsn, k, value) == [lsn |-> lsn, key |-> k, value |-> value]

\* Mutant of insert: the value that is overwritten is not kept.
InsertOnly(m, lsn, k, v) ==
    [m EXCEPT !.map[k] = v, !.undo = Append(@, Undo(lsn, k, NoValue))]

\* Overwriting leaves two records: back to no value, then to the old one.
insert(m, lsn, k, v) ==
    LET old == Undo(lsn, k, m.map[k])
        added == Undo(lsn, k, NoValue)
    IN  [map |-> [m.map EXCEPT ![k] = v],
         undo |-> IF m.map[k] = NoValue THEN Append(m.undo, added)
                  ELSE Append(Append(m.undo, old), added),
         checkpoint_lsn |-> m.checkpoint_lsn]

\* Mutant of remove: the removed value is not kept.
RemoveUnlogged(m, lsn, k) == [m EXCEPT !.map[k] = NoValue]

remove(m, lsn, k) ==
    IF m.map[k] = NoValue THEN m
    ELSE [map |-> [m.map EXCEPT ![k] = NoValue],
          undo |-> Append(m.undo, Undo(lsn, k, m.map[k])),
          checkpoint_lsn |-> m.checkpoint_lsn]

\* Mutant of undo_last: the last record is dropped and not applied.
DropLast(m) == [m EXCEPT !.undo = SubSeq(@, 1, Len(@) - 1)]

\* One round of the loop of rollback_to_lsn.
undo_last(m) ==
    LET last == m.undo[Len(m.undo)]
    IN  [map |-> [m.map EXCEPT ![last.key] = last.value],
         undo |-> SubSeq(m.undo, 1, Len(m.undo) - 1),
         checkpoint_lsn |-> m.checkpoint_lsn]

\* The records that are newer than lsn, and the map without them: a key gets
\* back what the oldest of them remembers.
Newer(m, lsn) == {i \in DOMAIN m.undo : m.undo[i].lsn > lsn}

Without(m, records) ==
    [k \in DOMAIN m.map |->
        LET mine == {i \in records : m.undo[i].key = k}
        IN  IF mine = {} THEN m.map[k] ELSE m.undo[Min(mine)].value]

\* The number of records that the loop of rollback_to_lsn leaves.
Kept(m, lsn) == Max({0} \cup (DOMAIN m.undo \ Newer(m, lsn)))

\* What the loop of rollback_to_lsn computes.
rollback_to_lsn(m, lsn) ==
    [map |-> Without(m, Newer(m, lsn)),
     undo |-> SubSeq(m.undo, 1, Kept(m, lsn)),
     checkpoint_lsn |-> m.checkpoint_lsn]

\* Mutant of checkpoint: the lsn of the next block.
CheckpointAhead(m) ==
    [m EXCEPT !.undo = <<>>, !.checkpoint_lsn = current_lsn(m) + 1]

checkpoint(m) ==
    [map |-> m.map, undo |-> <<>>, checkpoint_lsn |-> current_lsn(m)]

\* Mutant of reverse_patch: a removed key is not part of the patch.
PatchInsertsOnly(m, stored) ==
    [k \in DOMAIN m.map |->
        IF m.map[k] # NoValue /\ \E i \in DOMAIN m.undo : m.undo[i].key = k
        THEN m.map[k] ELSE stored[k]]

\* The patch that checkpoint() returns, applied to a stored copy of the map.
reverse_patch(m, stored) ==
    [k \in DOMAIN m.map |->
        IF \E i \in DOMAIN m.undo : m.undo[i].key = k
        THEN m.map[k] ELSE stored[k]]
=============================================================================
