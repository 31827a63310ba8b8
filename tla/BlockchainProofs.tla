-------------------------- MODULE BlockchainProofs --------------------------
(***************************************************************************)
(* Proofs about Blockchain.  The first part is on MultiVersionedMap: what  *)
(* its operations do to the versions of a map, for any keys and values.    *)
(* The second is on recovery and undo logs, the third on the ledger        *)
(* (outputs, stakes, validators, activity, where blocks are found), the    *)
(* fourth on types.                                                        *)
(***************************************************************************)
EXTENDS Blockchain, Induction

\* A map with the keys K.
IsMap(m, K) ==
    /\ m = [map |-> m.map, undo |-> m.undo, checkpoint_lsn |-> m.checkpoint_lsn]
    /\ m.map = [k \in K |-> m.map[k]]
    /\ m.undo \in Seq({m.undo[i] : i \in 1 .. Len(m.undo)})
    /\ \A i \in 1 .. Len(m.undo) : m.undo[i].lsn \in Int
    /\ m.checkpoint_lsn \in Int

\* The log is in the order of the lsns.
Sorted(m) == \A i, j \in 1 .. Len(m.undo) : i <= j => m.undo[i].lsn <= m.undo[j].lsn

\* Nothing in the log is newer than lsn.
UpTo(m, lsn) == \A i \in 1 .. Len(m.undo) : m.undo[i].lsn <= lsn

\* The contents of the map as of lsn.
At(m, lsn) == Without(m, Newer(m, lsn))

\* m2 is m after some writes at lsn.
Wrote(m, m2, K, lsn) ==
    /\ IsMap(m2, K) /\ Sorted(m2) /\ UpTo(m2, lsn)
    /\ m2.checkpoint_lsn = m.checkpoint_lsn
    /\ \A l \in Int : l < lsn => At(m2, l) = At(m, l)
    /\ Len(m.undo) <= Len(m2.undo)
    /\ \A i \in 1 .. Len(m.undo) : m2.undo[i] = m.undo[i]
    /\ \A i \in 1 .. Len(m2.undo) : i > Len(m.undo) => m2.undo[i].lsn = lsn

\* The log has a record of the key.
Recorded(m, k) == \E i \in 1 .. Len(m.undo) : m.undo[i].key = k

Ready(m, K, lsn) == IsMap(m, K) /\ Sorted(m) /\ UpTo(m, lsn)

-----------------------------------------------------------------------------
(* The least and the greatest element *)

LEMMA MinIs ==
    ASSUME NEW S \in SUBSET Nat, NEW n \in S, \A k \in S : n <= k
    PROVE  Min(S) = n
<1>1. \E x \in S : \A y \in S : x <= y
  OBVIOUS
<1>2. Min(S) \in S /\ \A y \in S : Min(S) <= y
  BY <1>1 DEF Min
<1>3. n \in Nat /\ Min(S) \in Nat
  BY <1>2
<1>4. n <= Min(S) /\ Min(S) <= n
  BY <1>2, <1>3
<1> QED BY <1>3, <1>4

LEMMA MinExists ==
    ASSUME NEW S \in SUBSET Nat, S # {}
    PROVE  Min(S) \in S /\ \A y \in S : Min(S) <= y
<1>1. PICK n \in S : \A k \in S : n <= k
  BY Minimum
<1> QED BY <1>1, MinIs

\* Elements above do not count.
LEMMA MinOfUnion ==
    ASSUME NEW S \in SUBSET Nat, NEW T \in SUBSET Nat, S # {},
           \A x \in S, y \in T : x < y
    PROVE  Min(S \cup T) = Min(S)
<1>1. Min(S) \in S /\ \A y \in S : Min(S) <= y
  BY MinExists
<1>2. ASSUME NEW y \in S \cup T PROVE Min(S) <= y
  <2>1. y \in Nat /\ Min(S) \in Nat
    BY <1>1
  <2> QED BY <1>1, <2>1
<1> QED BY <1>1, <1>2, MinIs

LEMMA MaxIs ==
    ASSUME NEW S \in SUBSET Nat, NEW n \in S, \A k \in S : k <= n
    PROVE  Max(S) = n
<1>1. \E x \in S : \A y \in S : x >= y
  OBVIOUS
<1>2. Max(S) \in S /\ \A y \in S : Max(S) >= y
  BY <1>1 DEF Max
<1>3. n \in Nat /\ Max(S) \in Nat
  BY <1>2
<1>4. n <= Max(S) /\ Max(S) <= n
  BY <1>2, <1>3
<1> QED BY <1>3, <1>4

-----------------------------------------------------------------------------
(* Writes *)

\* Record r is appended to the log and its key gets the value v.
Push(m, r, v) ==
    [map |-> [m.map EXCEPT ![r.key] = v],
     undo |-> Append(m.undo, r),
     checkpoint_lsn |-> m.checkpoint_lsn]

\* Undoing a push and the records I before it is undoing I.
LEMMA PushWithout ==
    ASSUME NEW K, NEW m, IsMap(m, K), NEW r, NEW v, r.lsn \in Int,
           r.key \in K => r.value = m.map[r.key],
           NEW I \in SUBSET (1 .. Len(m.undo))
    PROVE  Without(Push(m, r, v), I \cup {Len(m.undo) + 1}) = Without(m, I)
<1> DEFINE n == Len(m.undo)
           p == Push(m, r, v)
           Mine(q, J, k) == {i \in J : q.undo[i].key = k}
           Old(k) == Mine(m, I, k)
           New(k) == Mine(p, I \cup {n + 1}, k)
<1>1. /\ n \in Nat /\ \A i \in 1 .. n : p.undo[i] = m.undo[i]
      /\ p.undo[n + 1] = r
  BY SeqAppend DEF IsMap, Push
<1>a. I \subseteq Nat /\ I \subseteq 1 .. n /\ \A i \in I : i < n + 1
  BY <1>1
<1>2. /\ DOMAIN m.map = K /\ DOMAIN p.map = K
      /\ \A k \in K : p.map[k] = IF k = r.key THEN v ELSE m.map[k]
  BY DEF IsMap, Push
<1>3. ASSUME NEW k \in K
      PROVE  (IF New(k) = {} THEN p.map[k] ELSE p.undo[Min(New(k))].value)
               = (IF Old(k) = {} THEN m.map[k] ELSE m.undo[Min(Old(k))].value)
  <2>1. CASE k # r.key
    <3>1. New(k) = Old(k)
      BY <1>1, <2>1
    <3>2. ASSUME Old(k) # {}
          PROVE  p.undo[Min(Old(k))] = m.undo[Min(Old(k))]
      <4>1. Old(k) \in SUBSET Nat /\ Old(k) \in SUBSET (1 .. n)
        BY <1>a
      <4>2. Min(Old(k)) \in Old(k)
        BY <3>2, <4>1, MinExists
      <4> QED BY <1>1, <4>1, <4>2
    <3> HIDE DEF Old, New, p, n
    <3> QED BY <1>2, <2>1, <3>1, <3>2
  <2>2. CASE k = r.key
    <3>1. New(k) = Old(k) \cup {n + 1}
      BY <1>1, <2>2
    <3>2. Old(k) \in SUBSET Nat /\ {n + 1} \in SUBSET Nat
          /\ \A x \in Old(k), y \in {n + 1} : x < y
      <4>1. Old(k) \subseteq I
        OBVIOUS
      <4>2. n + 1 \in Nat
        BY <1>1
      <4> HIDE DEF Old, n
      <4> QED BY <1>a, <4>1, <4>2
    <3>3. CASE Old(k) = {}
      <4>1. Min({n + 1}) = n + 1
        BY <1>1, MinIs
      <4>2. New(k) = {n + 1}
        BY <3>1, <3>3
      <4> HIDE DEF Old, New, p, n
      <4> QED BY <1>1, <2>2, <3>3, <4>1, <4>2
    <3>4. CASE Old(k) # {}
      <4>1. Min(New(k)) = Min(Old(k))
        <5> HIDE DEF Old, New, n
        <5> QED BY <3>1, <3>2, <3>4, MinOfUnion
      <4>2. Min(Old(k)) \in 1 .. n
        <5>1. Min(Old(k)) \in Old(k)
          BY <3>2, <3>4, MinExists
        <5> QED BY <5>1
      <4>3. New(k) # {}
        BY <3>1
      <4> HIDE DEF Old, New, p, n
      <4> QED BY <1>1, <3>4, <4>1, <4>2, <4>3
    <3> QED BY <3>3, <3>4
  <2> QED BY <2>1, <2>2
<1>4. /\ Without(m, I) = [k \in K |-> IF Old(k) = {} THEN m.map[k] ELSE m.undo[Min(Old(k))].value]
      /\ Without(p, I \cup {n + 1})
           = [k \in K |-> IF New(k) = {} THEN p.map[k] ELSE p.undo[Min(New(k))].value]
  BY <1>2 DEF Without
<1> HIDE DEF Old, New, p, n
<1>5. Without(p, I \cup {n + 1}) = Without(m, I)
  BY <1>3, <1>4
<1> QED BY <1>5 DEF p, n

\* A push is a write.
LEMMA PushWrites ==
    ASSUME NEW K, NEW m, NEW r, NEW v, r.lsn \in Int, Ready(m, K, r.lsn),
           r.key \in K => r.value = m.map[r.key]
    PROVE  /\ Wrote(m, Push(m, r, v), K, r.lsn)
           /\ Push(m, r, v).map = [m.map EXCEPT ![r.key] = v]
           /\ current_lsn(Push(m, r, v)) = r.lsn
           /\ Recorded(Push(m, r, v), r.key)
<1> DEFINE n == Len(m.undo)
           p == Push(m, r, v)
<1>0. IsMap(m, K) /\ Sorted(m) /\ UpTo(m, r.lsn)
  BY DEF Ready
<1>1. /\ n \in Nat /\ \A i \in 1 .. n : p.undo[i] = m.undo[i]
      /\ p.undo[n + 1] = r /\ Len(p.undo) = n + 1
      /\ DOMAIN m.undo = 1 .. n /\ DOMAIN p.undo = 1 .. n + 1
      /\ p.undo \in Seq({p.undo[i] : i \in 1 .. Len(p.undo)})
  BY <1>0, SeqAppend DEF IsMap, Push
<1>a. \A i \in 1 .. n + 1 : i \in 1 .. n \/ i = n + 1
  BY <1>1
<1>2. p = [map |-> [m.map EXCEPT ![r.key] = v], undo |-> p.undo,
           checkpoint_lsn |-> m.checkpoint_lsn]
  BY DEF Push
<1>3. \A i \in 1 .. n : m.undo[i].lsn \in Int /\ m.undo[i].lsn <= r.lsn
  BY <1>0 DEF IsMap, UpTo
<1>4. IsMap(p, K)
  <2>1. p.map = [k \in K |-> p.map[k]]
    BY <1>0, <1>2 DEF IsMap
  <2>2. \A i \in 1 .. Len(p.undo) : p.undo[i].lsn \in Int
    <3> HIDE DEF n, p
    <3> QED BY <1>1, <1>a, <1>3
  <2> QED BY <1>0, <1>1, <1>2, <2>1, <2>2 DEF IsMap
<1>5. UpTo(p, r.lsn)
  <2>1. ASSUME NEW i \in 1 .. n + 1 PROVE p.undo[i].lsn <= r.lsn
    <3>1. CASE i \in 1 .. n
      BY <1>1, <1>3, <3>1
    <3>2. CASE i = n + 1
      BY <1>1, <3>2
    <3> QED BY <1>a, <3>1, <3>2
  <2> QED BY <1>1, <2>1 DEF UpTo
<1>6. Sorted(p)
  <2>1. ASSUME NEW i \in 1 .. n + 1, NEW j \in 1 .. n + 1, i <= j
        PROVE  p.undo[i].lsn <= p.undo[j].lsn
    <3>1. CASE j = n + 1
      BY <1>1, <1>5, <3>1 DEF UpTo
    <3>2. CASE j \in 1 .. n
      <4>1. i \in 1 .. n
        BY <1>1, <2>1, <3>2
      <4> QED BY <1>0, <1>1, <2>1, <3>2, <4>1 DEF Sorted
    <3> QED BY <1>a, <3>1, <3>2
  <2> QED BY <1>1, <2>1 DEF Sorted
<1>7. ASSUME NEW l \in Int, l < r.lsn
      PROVE  At(p, l) = At(m, l)
  <2>1. Newer(p, l) = Newer(m, l) \cup {n + 1}
    <3>1. n + 1 \in 1 .. n + 1 /\ \A i \in 1 .. n : i \in 1 .. n + 1
      BY <1>1
    <3> HIDE DEF n, p
    <3> QED BY <1>1, <1>a, <1>7, <3>1 DEF Newer
  <2>2. Newer(m, l) \in SUBSET (1 .. n)
    BY <1>1 DEF Newer
  <2> QED BY <1>0, <2>1, <2>2, PushWithout DEF At
<1>8. current_lsn(p) = r.lsn
  <2>1. p.undo # <<>>
    BY <1>1
  <2> QED BY <1>1, <2>1 DEF current_lsn
<1>9. Recorded(p, r.key)
  <2>1. n + 1 \in 1 .. n + 1
    BY <1>1
  <2> QED BY <1>1, <2>1 DEF Recorded
<1>10. /\ Len(m.undo) <= Len(p.undo)
       /\ \A i \in 1 .. Len(p.undo) : i > Len(m.undo) => p.undo[i].lsn = r.lsn
  BY <1>1, <1>a
<1> QED BY <1>1, <1>2, <1>4, <1>5, <1>6, <1>7, <1>8, <1>9, <1>10 DEF Wrote

LEMMA WroteReady ==
    ASSUME NEW K, NEW m, NEW p, NEW lsn, Wrote(m, p, K, lsn)
    PROVE  Ready(p, K, lsn)
  BY DEF Wrote, Ready

LEMMA LenIsNat ==
    ASSUME NEW K, NEW m, IsMap(m, K)
    PROVE  /\ Len(m.undo) \in Nat /\ DOMAIN m.undo = 1 .. Len(m.undo)
           /\ DOMAIN m.map = K
  BY DEF IsMap

LEMMA WroteNothing ==
    ASSUME NEW K, NEW m, NEW lsn, Ready(m, K, lsn)
    PROVE  Wrote(m, m, K, lsn)
  BY LenIsNat DEF Wrote, Ready

LEMMA WroteTwice ==
    ASSUME NEW K, NEW m, NEW p, NEW q, NEW lsn, IsMap(m, K),
           Wrote(m, p, K, lsn), Wrote(p, q, K, lsn)
    PROVE  /\ Wrote(m, q, K, lsn)
           /\ \A k : Recorded(p, k) => Recorded(q, k)
<1>1. IsMap(p, K) /\ IsMap(q, K)
  BY DEF Wrote
<1>2. Len(m.undo) \in Nat /\ Len(p.undo) \in Nat /\ Len(q.undo) \in Nat
  BY <1>1, LenIsNat
<1>3. Len(m.undo) <= Len(p.undo) /\ Len(p.undo) <= Len(q.undo)
  BY DEF Wrote
<1>4. /\ \A i \in 1 .. Len(m.undo) : i \in 1 .. Len(p.undo)
      /\ \A i \in 1 .. Len(p.undo) : i \in 1 .. Len(q.undo)
      /\ Len(m.undo) <= Len(q.undo)
  BY <1>2, <1>3
<1>5. \A i \in 1 .. Len(m.undo) : q.undo[i] = m.undo[i]
  BY <1>4 DEF Wrote
<1>8. ASSUME NEW i \in 1 .. Len(q.undo), i > Len(m.undo)
      PROVE  q.undo[i].lsn = lsn
  <2>1. CASE i \in 1 .. Len(p.undo)
    BY <1>8, <2>1 DEF Wrote
  <2>2. CASE i > Len(p.undo)
    BY <1>8, <2>2 DEF Wrote
  <2> QED BY <1>2, <2>1, <2>2
<1>6. Wrote(m, q, K, lsn)
  BY <1>4, <1>5, <1>8 DEF Wrote
<1>7. ASSUME NEW k, Recorded(p, k) PROVE Recorded(q, k)
  BY <1>4, <1>7 DEF Recorded, Wrote
<1> QED BY <1>6, <1>7

LEMMA UndoFields ==
    ASSUME NEW lsn, NEW k, NEW v
    PROVE  Undo(lsn, k, v).lsn = lsn /\ Undo(lsn, k, v).key = k /\ Undo(lsn, k, v).value = v
  BY DEF Undo

\* insert is a write.
LEMMA InsertWrites ==
    ASSUME NEW K, NEW m, NEW lsn \in Int, Ready(m, K, lsn), NEW k, NEW v
    PROVE  /\ Wrote(m, insert(m, lsn, k, v), K, lsn)
           /\ insert(m, lsn, k, v).map = [m.map EXCEPT ![k] = v]
           /\ current_lsn(insert(m, lsn, k, v)) = lsn
           /\ Recorded(insert(m, lsn, k, v), k)
<1> DEFINE old == Undo(lsn, k, m.map[k])
           added == Undo(lsn, k, NoValue)
           p == Push(m, old, NoValue)
<1>1. /\ old.lsn = lsn /\ old.key = k /\ old.value = m.map[k]
      /\ added.lsn = lsn /\ added.key = k /\ added.value = NoValue
  BY UndoFields
<1>0. IsMap(m, K)
  BY DEF Ready
<1> HIDE DEF old, added
<1>2. CASE m.map[k] = NoValue
  <2>1. insert(m, lsn, k, v) = Push(m, added, v)
    BY <1>1, <1>2 DEF insert, Push, added, old
  <2> QED BY <1>1, <1>2, <2>1, PushWrites
<1>3. CASE m.map[k] # NoValue
  <2>1. /\ Wrote(m, p, K, lsn) /\ p.map = [m.map EXCEPT ![k] = NoValue]
    BY <1>1, PushWrites
  <2>2. [p.map EXCEPT ![k] = v] = [m.map EXCEPT ![k] = v]
    BY <2>1, <1>0 DEF IsMap
  <2>3. insert(m, lsn, k, v) = Push(p, added, v)
    <3>1. insert(m, lsn, k, v) =
            [map |-> [m.map EXCEPT ![k] = v], undo |-> Append(Append(m.undo, old), added),
             checkpoint_lsn |-> m.checkpoint_lsn]
      BY <1>3 DEF insert, old, added
    <3>2. p.undo = Append(m.undo, old) /\ p.checkpoint_lsn = m.checkpoint_lsn
      BY DEF Push
    <3> HIDE DEF p
    <3> QED BY <1>1, <2>2, <3>1, <3>2 DEF Push
  <2> HIDE DEF p
  <2>4. Ready(p, K, lsn)
    BY <2>1, WroteReady
  <2>5. k \in K => p.map[k] = NoValue
    BY <2>1, <1>0 DEF IsMap
  <2>6. /\ Wrote(p, Push(p, added, v), K, lsn)
        /\ Push(p, added, v).map = [p.map EXCEPT ![k] = v]
        /\ current_lsn(Push(p, added, v)) = lsn
        /\ Recorded(Push(p, added, v), k)
    BY <1>1, <2>4, <2>5, PushWrites
  <2> QED BY <1>0, <2>1, <2>2, <2>3, <2>6, WroteTwice
<1> QED BY <1>2, <1>3

\* remove is a write.
LEMMA RemoveWrites ==
    ASSUME NEW K, NEW m, NEW lsn \in Int, Ready(m, K, lsn), NEW k
    PROVE  /\ Wrote(m, remove(m, lsn, k), K, lsn)
           /\ remove(m, lsn, k).map = [m.map EXCEPT ![k] = NoValue]
<1> DEFINE old == Undo(lsn, k, m.map[k])
<1>1. old.lsn = lsn /\ old.key = k /\ old.value = m.map[k]
  BY UndoFields
<1> HIDE DEF old
<1>2. CASE m.map[k] = NoValue
  <2>1. [m.map EXCEPT ![k] = NoValue] = m.map
    BY <1>2 DEF Ready, IsMap
  <2> QED BY <1>2, <2>1, WroteNothing DEF remove
<1>3. CASE m.map[k] # NoValue
  <2>1. remove(m, lsn, k) = Push(m, old, NoValue)
    BY <1>1, <1>3 DEF remove, Push, old
  <2> QED BY <1>1, <2>1, PushWrites
<1> QED BY <1>2, <1>3

-----------------------------------------------------------------------------
(* Versions *)

LEMMA AtNow ==
    ASSUME NEW K, NEW m, IsMap(m, K), NEW l \in Int, UpTo(m, l)
    PROVE  At(m, l) = m.map
<1>1. DOMAIN m.undo = 1 .. Len(m.undo) /\ DOMAIN m.map = K
  BY LenIsNat
<1>2. Newer(m, l) = {}
  BY <1>1 DEF Newer, UpTo, IsMap
<1>3. Without(m, {}) = [k \in K |-> m.map[k]]
  BY <1>1 DEF Without
<1> QED BY <1>2, <1>3 DEF At, IsMap

\* Every version has the same keys, and a key without a record has not changed.
LEMMA AtKeys ==
    ASSUME NEW K, NEW m, IsMap(m, K), NEW l
    PROVE  /\ At(m, l) = [k \in K |-> At(m, l)[k]]
           /\ \A k \in K : ~Recorded(m, k) => At(m, l)[k] = m.map[k]
<1>1. DOMAIN m.undo = 1 .. Len(m.undo) /\ DOMAIN m.map = K
  BY LenIsNat
<1>2. ASSUME NEW k \in K, ~Recorded(m, k)
      PROVE  {i \in Newer(m, l) : m.undo[i].key = k} = {}
  BY <1>1, <1>2 DEF Recorded, Newer
<1> QED BY <1>1, <1>2 DEF At, Without

\* Where the loop of rollback_to_lsn stops.
LEMMA KeptFacts ==
    ASSUME NEW K, NEW m, IsMap(m, K), Sorted(m), NEW l \in Int
    PROVE  LET n == Kept(m, l)
           IN  /\ n \in 0 .. Len(m.undo)
               /\ Newer(m, l) = {i \in 1 .. Len(m.undo) : i > n}
               /\ \A i \in 1 .. n : m.undo[i].lsn <= l
<1> DEFINE N == {i \in 1 .. Len(m.undo) : m.undo[i].lsn > l} \cup {Len(m.undo) + 1}
           S == {0} \cup (DOMAIN m.undo \ Newer(m, l))
<1>1. Len(m.undo) \in Nat /\ DOMAIN m.undo = 1 .. Len(m.undo)
      /\ \A i \in 1 .. Len(m.undo) : m.undo[i].lsn \in Int
  BY LenIsNat DEF IsMap
<1>2. PICK k \in N : \A j \in N : k <= j
  <2>1. N \subseteq Nat /\ N # {}
    BY <1>1
  <2> HIDE DEF N
  <2> QED BY <2>1, Minimum
<1>3. k \in Nat /\ 1 <= k /\ k <= Len(m.undo) + 1
  BY <1>1, <1>2
<1>4. ASSUME NEW i \in 1 .. Len(m.undo)
      PROVE  m.undo[i].lsn > l <=> i >= k
  <2>1. CASE i < k
    BY <1>1, <1>2, <1>3, <2>1
  <2>2. CASE i >= k
    <3>1. k \in 1 .. Len(m.undo) /\ m.undo[k].lsn > l
      BY <1>1, <1>2, <1>3, <2>2
    <3>2. m.undo[k].lsn <= m.undo[i].lsn
      BY <2>2, <3>1 DEF Sorted
    <3> QED BY <1>1, <2>2, <3>1, <3>2
  <2> QED BY <1>3, <2>1, <2>2
<1>5. S = {0} \cup {i \in 1 .. Len(m.undo) : i < k}
  BY <1>1, <1>3, <1>4 DEF Newer
<1>6. S \in SUBSET Nat /\ k - 1 \in S /\ \A j \in S : j <= k - 1
  <2>1. k - 1 = 0 \/ k - 1 \in 1 .. Len(m.undo)
    BY <1>1, <1>3
  <2>2. k - 1 \in S
    BY <1>3, <1>5, <2>1
  <2> HIDE DEF S
  <2>3. S \in SUBSET Nat
    BY <1>5
  <2>4. \A j \in S : j <= k - 1
    BY <1>3, <1>5
  <2> QED BY <2>2, <2>3, <2>4
<1>7. Max(S) = k - 1
  <2> HIDE DEF S
  <2> QED BY <1>6, MaxIs
<1>8. Kept(m, l) = k - 1
  BY <1>7 DEF Kept
<1>9. Newer(m, l) = {i \in 1 .. Len(m.undo) : i > k - 1}
  BY <1>1, <1>3, <1>4 DEF Newer
<1>10. \A i \in 1 .. k - 1 : m.undo[i].lsn <= l
  BY <1>1, <1>3, <1>4
<1> QED BY <1>3, <1>1, <1>8, <1>9, <1>10

\* Rolling back gives the version, and older versions stay what they are.
LEMMA RollbackFacts ==
    ASSUME NEW K, NEW m, IsMap(m, K), Sorted(m), NEW to \in Int
    PROVE  LET r == rollback_to_lsn(m, to)
           IN  /\ Ready(r, K, to) /\ r.map = At(m, to)
               /\ r.checkpoint_lsn = m.checkpoint_lsn
               /\ \A l \in Int : l <= to => At(r, l) = At(m, l)
               /\ \A i \in 1 .. Len(r.undo) : i \in 1 .. Len(m.undo) /\ r.undo[i] = m.undo[i]
               /\ \A i \in 1 .. Len(m.undo) : m.undo[i].lsn <= to => i \in 1 .. Len(r.undo)
<1> DEFINE r == rollback_to_lsn(m, to)
           n == Kept(m, to)
<1>1. /\ Len(m.undo) \in Nat /\ DOMAIN m.undo = 1 .. Len(m.undo) /\ DOMAIN m.map = K
      /\ \A i \in 1 .. Len(m.undo) : m.undo[i].lsn \in Int
  BY LenIsNat DEF IsMap
<1>2. /\ n \in 0 .. Len(m.undo) /\ Newer(m, to) = {i \in 1 .. Len(m.undo) : i > n}
      /\ \A i \in 1 .. n : m.undo[i].lsn <= to
  BY KeptFacts
<1>3. /\ r.map = At(m, to) /\ r.undo = SubSeq(m.undo, 1, n)
      /\ r.checkpoint_lsn = m.checkpoint_lsn
      /\ r = [map |-> r.map, undo |-> r.undo, checkpoint_lsn |-> r.checkpoint_lsn]
  BY DEF rollback_to_lsn, At
<1> HIDE DEF r, n
<1>4. /\ r.undo \in Seq({r.undo[i] : i \in 1 .. Len(r.undo)}) /\ Len(r.undo) = n
      /\ \A i \in 1 .. n : r.undo[i] = m.undo[i]
  <2>1. m.undo \in Seq({m.undo[i] : i \in 1 .. Len(m.undo)})
    BY DEF IsMap
  <2> DEFINE t == SubSeq(m.undo, 1, n)
  <2>2. /\ t \in Seq({t[i] : i \in 1 .. Len(t)}) /\ Len(t) = n
        /\ \A i \in 1 .. n : t[i] = m.undo[i]
    BY <1>2, <2>1, SeqPrefix
  <2>3. r.undo = t
    BY <1>3
  <2> HIDE DEF t
  <2> QED BY <2>2, <2>3
<1>5. \A i \in 1 .. n : i \in 1 .. Len(m.undo)
  BY <1>1, <1>2
<1>6. IsMap(r, K) /\ Sorted(r) /\ UpTo(r, to)
  <2>1. r.map = [k \in K |-> r.map[k]]
    BY <1>3, AtKeys
  <2>2. IsMap(r, K)
    BY <1>1, <1>3, <1>4, <1>5, <2>1 DEF IsMap
  <2>3. Sorted(r)
    BY <1>4, <1>5 DEF Sorted
  <2>4. UpTo(r, to)
    BY <1>2, <1>4 DEF UpTo
  <2> QED BY <2>2, <2>3, <2>4
<1>7. ASSUME NEW l \in Int, l <= to
      PROVE  At(r, l) = At(m, l)
  <2> DEFINE Below(k) == {i \in Newer(r, l) : r.undo[i].key = k}
             Above(k) == {i \in Newer(m, to) : m.undo[i].key = k}
             All(k) == {i \in Newer(m, l) : m.undo[i].key = k}
  <2>1. Newer(r, l) = {i \in 1 .. n : m.undo[i].lsn > l} /\ DOMAIN r.map = K
    BY <1>4, <1>6, LenIsNat DEF Newer
  <2>2. Newer(m, l) = Newer(r, l) \cup Newer(m, to)
    <3>1. ASSUME NEW i \in 1 .. Len(m.undo)
          PROVE  m.undo[i].lsn > l <=> i \in Newer(r, l) \/ i \in Newer(m, to)
      <4>1. CASE i \in 1 .. n
        BY <1>2, <2>1, <4>1
      <4>2. CASE i > n
        BY <1>1, <1>2, <1>7, <2>1, <4>2 DEF Newer
      <4> QED BY <1>1, <1>2, <4>1, <4>2
    <3> QED BY <1>1, <1>2, <1>5, <2>1, <3>1 DEF Newer
  <2>3. ASSUME NEW k \in K
        PROVE  (IF Below(k) = {} THEN r.map[k] ELSE r.undo[Min(Below(k))].value)
                 = (IF All(k) = {} THEN m.map[k] ELSE m.undo[Min(All(k))].value)
    <3>1. All(k) = Below(k) \cup Above(k)
      BY <1>4, <2>1, <2>2
    <3>2. /\ Below(k) \in SUBSET Nat /\ Above(k) \in SUBSET Nat
          /\ \A x \in Below(k) : x \in 1 .. n
          /\ \A y \in Above(k) : y > n
      BY <1>1, <1>2, <2>1
    <3>3. r.map[k] = IF Above(k) = {} THEN m.map[k] ELSE m.undo[Min(Above(k))].value
      BY <1>1, <1>3 DEF At, Without
    <3> HIDE DEF Below, Above, All
    <3>4. CASE Below(k) = {}
      BY <3>1, <3>3, <3>4
    <3>5. CASE Below(k) # {}
      <4>1. \A x \in Below(k), y \in Above(k) : x < y
        BY <1>2, <3>2
      <4>2. Min(All(k)) = Min(Below(k)) /\ Min(Below(k)) \in Below(k)
        BY <3>1, <3>2, <3>5, <4>1, MinOfUnion, MinExists
      <4>3. r.undo[Min(Below(k))] = m.undo[Min(Below(k))]
        BY <1>4, <3>2, <4>2
      <4> QED BY <3>1, <3>5, <4>2, <4>3
    <3> QED BY <3>4, <3>5
  <2>4. /\ At(r, l) = [k \in K |-> IF Below(k) = {} THEN r.map[k] ELSE r.undo[Min(Below(k))].value]
        /\ At(m, l) = [k \in K |-> IF All(k) = {} THEN m.map[k] ELSE m.undo[Min(All(k))].value]
    BY <1>1, <2>1 DEF At, Without
  <2> HIDE DEF Below, Above, All
  <2> QED BY <2>3, <2>4
<1>8. \A i \in 1 .. Len(m.undo) : m.undo[i].lsn <= to => i \in 1 .. n
  BY <1>1, <1>2 DEF Newer
<1> QED BY <1>3, <1>4, <1>5, <1>6, <1>7, <1>8 DEF r, Ready

\* The version at lsn begins with a record or the checkpoint of that lsn.
HasLsn(m, lsn) ==
    \/ \E i \in 1 .. Len(m.undo) : m.undo[i].lsn = lsn
    \/ m.checkpoint_lsn = lsn /\ \A i \in 1 .. Len(m.undo) : m.undo[i].lsn >= lsn

LEMMA HasLsnWrote ==
    ASSUME NEW K, NEW m, NEW p, NEW lsn \in Int, IsMap(m, K), Wrote(m, p, K, lsn),
           NEW l \in Int, l <= lsn, HasLsn(m, l)
    PROVE  HasLsn(p, l)
<1>1. /\ Len(m.undo) \in Nat /\ Len(p.undo) \in Nat /\ Len(m.undo) <= Len(p.undo)
      /\ \A i \in 1 .. Len(m.undo) : p.undo[i] = m.undo[i]
      /\ \A i \in 1 .. Len(p.undo) : i > Len(m.undo) => p.undo[i].lsn = lsn
      /\ p.checkpoint_lsn = m.checkpoint_lsn
  BY LenIsNat DEF Wrote
<1>2. CASE \E i \in 1 .. Len(m.undo) : m.undo[i].lsn = l
  <2>1. PICK i \in 1 .. Len(m.undo) : m.undo[i].lsn = l
    BY <1>2
  <2>2. i \in 1 .. Len(p.undo) /\ p.undo[i].lsn = l
    BY <1>1, <2>1
  <2> QED BY <2>2 DEF HasLsn
<1>3. CASE m.checkpoint_lsn = l /\ \A i \in 1 .. Len(m.undo) : m.undo[i].lsn >= l
  <2>1. ASSUME NEW i \in 1 .. Len(p.undo) PROVE p.undo[i].lsn >= l
    <3>1. CASE i \in 1 .. Len(m.undo)
      BY <1>1, <1>3, <3>1
    <3>2. CASE i > Len(m.undo)
      BY <1>1, <3>2
    <3> QED BY <1>1, <3>1, <3>2
  <2> QED BY <1>1, <1>3, <2>1 DEF HasLsn
<1> QED BY <1>2, <1>3 DEF HasLsn

LEMMA HasLsnRollback ==
    ASSUME NEW K, NEW m, IsMap(m, K), Sorted(m), NEW to \in Int,
           NEW l \in Int, l <= to, HasLsn(m, l)
    PROVE  HasLsn(rollback_to_lsn(m, to), l)
<1> DEFINE r == rollback_to_lsn(m, to)
<1>1. /\ r.checkpoint_lsn = m.checkpoint_lsn
      /\ \A i \in 1 .. Len(r.undo) : i \in 1 .. Len(m.undo) /\ r.undo[i] = m.undo[i]
      /\ \A i \in 1 .. Len(m.undo) : m.undo[i].lsn <= to => i \in 1 .. Len(r.undo)
  BY RollbackFacts
<1> HIDE DEF r
<1>2. HasLsn(r, l)
  BY <1>1 DEF HasLsn
<1> QED BY <1>2 DEF r

LEMMA CurrentLsnAt ==
    ASSUME NEW K, NEW m, IsMap(m, K), Sorted(m), NEW l \in Int
    PROVE  /\ HasLsn(m, l) => current_lsn(rollback_to_lsn(m, l)) = l
           /\ m.checkpoint_lsn <= l => current_lsn(rollback_to_lsn(m, l)) <= l
<1> DEFINE r == rollback_to_lsn(m, l)
<1>1. /\ Ready(r, K, l) /\ r.checkpoint_lsn = m.checkpoint_lsn
      /\ \A i \in 1 .. Len(r.undo) : i \in 1 .. Len(m.undo) /\ r.undo[i] = m.undo[i]
  BY RollbackFacts
<1>2. HasLsn(m, l) => HasLsn(r, l)
  BY HasLsnRollback
<1> HIDE DEF r
<1>3. /\ IsMap(r, K) /\ Sorted(r) /\ Len(r.undo) \in Nat
      /\ \A i \in 1 .. Len(r.undo) : r.undo[i].lsn \in Int /\ r.undo[i].lsn <= l
  BY <1>1, LenIsNat DEF Ready, IsMap, UpTo
<1>4. CASE Len(r.undo) = 0
  <2>1. r.undo = <<>>
    BY <1>3, <1>4 DEF IsMap
  <2>2. current_lsn(r) = m.checkpoint_lsn
    BY <1>1, <2>1 DEF current_lsn
  <2> QED BY <1>2, <1>1, <1>4, <2>2 DEF HasLsn, r
<1>5. CASE Len(r.undo) > 0
  <2>1. Len(r.undo) \in 1 .. Len(r.undo) /\ r.undo # <<>>
    BY <1>3, <1>5
  <2>2. current_lsn(r) = r.undo[Len(r.undo)].lsn
    BY <2>1 DEF current_lsn
  <2>3. ASSUME HasLsn(r, l) PROVE r.undo[Len(r.undo)].lsn >= l
    <3>1. CASE \E i \in 1 .. Len(r.undo) : r.undo[i].lsn = l
      BY <1>3, <2>1, <3>1 DEF Sorted
    <3>2. CASE \A i \in 1 .. Len(r.undo) : r.undo[i].lsn >= l
      BY <2>1, <3>2
    <3> QED BY <2>3, <3>1, <3>2 DEF HasLsn
  <2> QED BY <1>2, <1>3, <2>1, <2>2, <2>3 DEF r
<1> QED BY <1>3, <1>4, <1>5

LEMMA CheckpointFacts ==
    ASSUME NEW K, NEW m, IsMap(m, K), Sorted(m), NEW lsn \in Int, current_lsn(m) = lsn
    PROVE  LET p == checkpoint(m)
           IN  /\ \A l \in Int : Ready(p, K, l) /\ At(p, l) = m.map
               /\ p.map = m.map /\ p.checkpoint_lsn = lsn
               /\ HasLsn(p, lsn)
<1> DEFINE p == checkpoint(m)
<1>1. p = [map |-> m.map, undo |-> <<>>, checkpoint_lsn |-> lsn]
  BY DEF checkpoint
<1>2. /\ p.map = m.map /\ p.undo = <<>> /\ p.checkpoint_lsn = lsn /\ Len(p.undo) = 0
      /\ p = [map |-> p.map, undo |-> p.undo, checkpoint_lsn |-> p.checkpoint_lsn]
  BY <1>1
<1> HIDE DEF p
<1>3. IsMap(p, K) /\ Sorted(p) /\ HasLsn(p, lsn)
  BY <1>2 DEF IsMap, Sorted, HasLsn
<1>4. ASSUME NEW l \in Int PROVE Ready(p, K, l) /\ At(p, l) = m.map
  <2>1. UpTo(p, l)
    BY <1>2 DEF UpTo
  <2> QED BY <1>2, <1>3, <2>1, AtNow DEF Ready
<1> QED BY <1>2, <1>3, <1>4 DEF p

LEMMA NewFacts ==
    ASSUME NEW K
    PROVE  LET p == new(K)
           IN  /\ \A l \in Int : Ready(p, K, l) /\ At(p, l) = [k \in K |-> NoValue]
               /\ p.map = [k \in K |-> NoValue] /\ p.checkpoint_lsn = 0
<1> DEFINE p == new(K)
<1>2. /\ p.map = [k \in K |-> NoValue] /\ p.undo = <<>> /\ p.checkpoint_lsn = 0 /\ Len(p.undo) = 0
      /\ p = [map |-> p.map, undo |-> p.undo, checkpoint_lsn |-> p.checkpoint_lsn]
  BY DEF new
<1> HIDE DEF p
<1>3. IsMap(p, K) /\ Sorted(p)
  BY <1>2 DEF IsMap, Sorted
<1>4. ASSUME NEW l \in Int PROVE Ready(p, K, l) /\ At(p, l) = [k \in K |-> NoValue]
  <2>1. UpTo(p, l)
    BY <1>2 DEF UpTo
  <2> QED BY <1>2, <1>3, <2>1, AtNow DEF Ready
<1> QED BY <1>2, <1>4 DEF p

\* A patch of a copy of an older version makes it the map.
LEMMA PatchFacts ==
    ASSUME NEW K, NEW m, IsMap(m, K), NEW stored
    PROVE  /\ reverse_patch(m, stored)
                = [k \in K |-> IF Recorded(m, k) THEN m.map[k] ELSE stored[k]]
           /\ \A l : stored = At(m, l) => reverse_patch(m, stored) = m.map
<1>1. DOMAIN m.undo = 1 .. Len(m.undo) /\ DOMAIN m.map = K
  BY LenIsNat
<1>2. reverse_patch(m, stored)
        = [k \in K |-> IF Recorded(m, k) THEN m.map[k] ELSE stored[k]]
  BY <1>1 DEF reverse_patch, Recorded
<1>3. ASSUME NEW l, stored = At(m, l)
      PROVE  reverse_patch(m, stored) = m.map
  <2>1. \A k \in K : ~Recorded(m, k) => stored[k] = m.map[k]
    BY <1>3, AtKeys
  <2>2. m.map = [k \in K |-> m.map[k]]
    BY DEF IsMap
  <2> QED BY <1>2, <2>1, <2>2
<1> QED BY <1>2, <1>3

-----------------------------------------------------------------------------
(* Writes of many keys *)

\* g[s] is the map m after the keys in s have been inserted.
IsInserting(g, I, m, lsn, contents) ==
    g = [s \in SUBSET I |-> IF s = {} THEN m
            ELSE insert(g[s \ {Pick(s)}], lsn, Pick(s), contents[Pick(s)])]

IsRemoving(g, I, m, lsn) ==
    g = [s \in SUBSET I |-> IF s = {} THEN m
            ELSE remove(g[s \ {Pick(s)}], lsn, Pick(s))]

Given(contents) == {k \in DOMAIN contents : contents[k] # NoValue}

LEMMA InsertAllIsFold ==
    ASSUME NEW m, NEW lsn, NEW contents
    PROVE  LET I == Given(contents)
           IN  InsertAll(m, lsn, contents) = (CHOOSE g : IsInserting(g, I, m, lsn, contents))[I]
  BY DEF InsertAll, FoldSet, MapThenFoldSet, IsInserting, Pick, Given

LEMMA RemoveAllIsFold ==
    ASSUME NEW m, NEW lsn, NEW I
    PROVE  RemoveAll(m, lsn, I) = (CHOOSE g : IsRemoving(g, I, m, lsn))[I]
  BY DEF RemoveAll, FoldSet, MapThenFoldSet, IsRemoving, Pick

\* The maps that writes at lsn can make of m: a set of them.
Reach(m, K, V, lsn) ==
    [map : [K -> V],
     undo : Seq({m.undo[i] : i \in 1 .. Len(m.undo)} \cup
                {Undo(lsn, kv[1], kv[2]) : kv \in K \X V}),
     checkpoint_lsn : {m.checkpoint_lsn}]

LEMMA ReachFacts ==
    ASSUME NEW K, NEW V, NEW m, NEW lsn, IsMap(m, K), NoValue \in V,
           \A k \in K : m.map[k] \in V
    PROVE  /\ m \in Reach(m, K, V, lsn)
           /\ \A p \in Reach(m, K, V, lsn), k \in K, v \in V :
                /\ insert(p, lsn, k, v) \in Reach(m, K, V, lsn)
                /\ remove(p, lsn, k) \in Reach(m, K, V, lsn)
<1> DEFINE U == {m.undo[i] : i \in 1 .. Len(m.undo)} \cup
                {Undo(lsn, kv[1], kv[2]) : kv \in K \X V}
<1>1. ASSUME NEW k \in K, NEW v \in V PROVE Undo(lsn, k, v) \in U
  <2>1. <<k, v>> \in K \X V /\ <<k, v>>[1] = k /\ <<k, v>>[2] = v
    OBVIOUS
  <2> QED BY <2>1
<1>2. m.undo \in Seq(U)
  BY DEF IsMap
<1>3. Reach(m, K, V, lsn) = [map : [K -> V], undo : Seq(U), checkpoint_lsn : {m.checkpoint_lsn}]
  BY DEF Reach
<1> HIDE DEF U
<1>4. m \in Reach(m, K, V, lsn)
  <2>1. m.map \in [K -> V]
    BY DEF IsMap
  <2>2. m = [map |-> m.map, undo |-> m.undo, checkpoint_lsn |-> m.checkpoint_lsn]
    BY DEF IsMap
  <2> QED BY <1>2, <1>3, <2>1, <2>2
<1>5. ASSUME NEW p \in Reach(m, K, V, lsn), NEW k \in K, NEW v \in V
      PROVE  /\ insert(p, lsn, k, v) \in Reach(m, K, V, lsn)
             /\ remove(p, lsn, k) \in Reach(m, K, V, lsn)
  <2>1. p.map \in [K -> V] /\ p.undo \in Seq(U) /\ p.checkpoint_lsn = m.checkpoint_lsn
    BY <1>3
  <2>2. /\ Undo(lsn, k, NoValue) \in U /\ Undo(lsn, k, p.map[k]) \in U
        /\ [p.map EXCEPT ![k] = v] \in [K -> V]
        /\ [p.map EXCEPT ![k] = NoValue] \in [K -> V]
    BY <1>1, <2>1
  <2>3. /\ Append(p.undo, Undo(lsn, k, NoValue)) \in Seq(U)
        /\ Append(p.undo, Undo(lsn, k, p.map[k])) \in Seq(U)
        /\ Append(Append(p.undo, Undo(lsn, k, p.map[k])), Undo(lsn, k, NoValue)) \in Seq(U)
    BY <2>1, <2>2
  <2>4. insert(p, lsn, k, v) \in Reach(m, K, V, lsn)
    BY <1>3, <2>1, <2>2, <2>3 DEF insert
  <2>5. remove(p, lsn, k) \in Reach(m, K, V, lsn)
    BY <1>3, <2>1, <2>2, <2>3 DEF remove
  <2> QED BY <2>4, <2>5
<1> QED BY <1>4, <1>5

\* InsertAll is a write of its keys.
LEMMA InsertAllFacts ==
    ASSUME NEW K, NEW m, NEW lsn \in Int, Ready(m, K, lsn),
           NEW contents, Given(contents) \subseteq K, IsFiniteSet(Given(contents))
    PROVE  LET p == InsertAll(m, lsn, contents)
           IN  /\ Wrote(m, p, K, lsn)
               /\ p.map = [k \in K |-> IF k \in Given(contents) THEN contents[k] ELSE m.map[k]]
               /\ \A k \in Given(contents) : Recorded(p, k)
<1> DEFINE I == Given(contents)
           V == {m.map[k] : k \in K} \cup {contents[k] : k \in I} \cup {NoValue}
           S == Reach(m, K, V, lsn)
           D == [k \in I |-> [q \in S |-> insert(q, lsn, k, contents[k])]]
           ch == [s \in SUBSET I |-> Pick(s)]
           g == CHOOSE h : IsInserting(h, I, m, lsn, contents)
<1>0. IsMap(m, K)
  BY DEF Ready
<1>1. \A s \in SUBSET I : s # {} => Pick(s) \in s
  BY DEF Pick
<1>2. IsInserting(g, I, m, lsn, contents)
  <2>1. NoValue \in V /\ (\A k \in K : m.map[k] \in V) /\ (\A k \in I : contents[k] \in V)
    OBVIOUS
  <2> HIDE DEF V, I
  <2>2. m \in S /\ \A q \in S, k \in K, v \in V : insert(q, lsn, k, v) \in S
    BY <1>0, <2>1, ReachFacts
  <2>3. I \subseteq K /\ IsFiniteSet(I)
    BY DEF I
  <2> HIDE DEF S
  <2>4. D \in [I -> [S -> S]]
    BY <2>1, <2>2, <2>3
  <2>5. \A s \in SUBSET I : s # {} => ch[s] \in s
    BY <1>1
  <2>6. PICK f : f \in [SUBSET I -> S] /\ IsFold(f, I, m, D, ch)
    <3> HIDE DEF D, ch, g
    <3>1. m \in S
      BY <2>2
    <3>2. IsFiniteSet(I)
      BY <2>3
    <3>3. CanFold(I, S, m, D, ch)
      BY <2>4, <2>5, <3>1, <3>2 DEF CanFold
    <3> QED BY <3>3, FoldExists
  <2>7. \A s \in SUBSET I : f[s] = IF s = {} THEN m ELSE D[ch[s]][f[s \ {ch[s]}]]
    <3> HIDE DEF D, ch, g
    <3> QED BY <2>6 DEF IsFold
  <2>8. ASSUME NEW s \in SUBSET I, s # {}
        PROVE  D[ch[s]][f[s \ {ch[s]}]]
                 = insert(f[s \ {Pick(s)}], lsn, Pick(s), contents[Pick(s)])
    <3>1. ch[s] = Pick(s) /\ Pick(s) \in I /\ s \ {Pick(s)} \in SUBSET I
      BY <1>1, <2>8
    <3>2. f[s \ {Pick(s)}] \in S
      BY <2>6, <3>1
    <3> QED BY <3>1, <3>2
  <2> HIDE DEF D, ch
  <2>9. IsInserting(f, I, m, lsn, contents)
    <3>1. \A s \in SUBSET I : f[s] = IF s = {} THEN m
              ELSE insert(f[s \ {Pick(s)}], lsn, Pick(s), contents[Pick(s)])
      BY <2>7, <2>8
    <3>2. f = [s \in SUBSET I |-> f[s]]
      BY <2>6
    <3> QED BY <3>1, <3>2 DEF IsInserting
  <2> QED BY <2>9
<1> HIDE DEF g, I
<1>3. /\ g[{}] = m
      /\ \A s \in SUBSET I : s # {} =>
            g[s] = insert(g[s \ {Pick(s)}], lsn, Pick(s), contents[Pick(s)])
  BY <1>2 DEF IsInserting
<1> DEFINE Map(s) == [k \in K |-> IF k \in s THEN contents[k] ELSE m.map[k]]
           Good(s) == /\ Wrote(m, g[s], K, lsn) /\ g[s].map = Map(s)
                      /\ \A k \in s : Recorded(g[s], k)
           T == {s \in SUBSET I : Good(s)}
<1>4. {} \in T
  <2>1. Map({}) = m.map
    BY <1>0 DEF IsMap
  <2> QED BY <1>3, <2>1, WroteNothing
<1>5. ASSUME NEW s \in SUBSET I, s # {}, \A x \in s : s \ {x} \in T
      PROVE  s \in T
  <2> DEFINE x == Pick(s)
             q == g[s \ {x}]
             p == g[s]
  <2>1. x \in s /\ x \in K /\ Good(s \ {x})
    BY <1>1, <1>5 DEF I
  <2>2. p = insert(q, lsn, x, contents[x])
    BY <1>3, <1>5
  <2> HIDE DEF x, q, p
  <2>3. Wrote(m, q, K, lsn) /\ q.map = Map(s \ {x}) /\ \A k \in s \ {x} : Recorded(q, k)
    BY <2>1 DEF q
  <2>4. /\ Wrote(q, p, K, lsn) /\ p.map = [q.map EXCEPT ![x] = contents[x]]
        /\ Recorded(p, x)
    <3>1. Ready(q, K, lsn)
      BY <2>3, WroteReady
    <3>2. /\ Wrote(q, insert(q, lsn, x, contents[x]), K, lsn)
          /\ insert(q, lsn, x, contents[x]).map = [q.map EXCEPT ![x] = contents[x]]
          /\ Recorded(insert(q, lsn, x, contents[x]), x)
      BY <3>1, InsertWrites
    <3> QED BY <2>2, <3>2
  <2>5. Wrote(m, p, K, lsn) /\ \A k : Recorded(q, k) => Recorded(p, k)
    BY <1>0, <2>3, <2>4, WroteTwice
  <2>6. p.map = Map(s)
    BY <2>1, <2>3, <2>4
  <2> QED BY <2>1, <2>3, <2>4, <2>5, <2>6 DEF p
<1>6. I \in T
  <2>1. IsFiniteSet(I)
    BY DEF I
  <2> HIDE DEF T
  <2>2. SUBSET I \subseteq T
    BY <1>4, <1>5, <2>1, SetInduction
  <2> QED BY <2>2
<1>7. InsertAll(m, lsn, contents) = g[I]
  BY InsertAllIsFold DEF g, I
<1> QED BY <1>6, <1>7 DEF I

\* RemoveAll is a write of its keys.
LEMMA RemoveAllFacts ==
    ASSUME NEW K, NEW m, NEW lsn \in Int, Ready(m, K, lsn),
           NEW I, I \subseteq K, IsFiniteSet(I)
    PROVE  LET p == RemoveAll(m, lsn, I)
           IN  /\ Wrote(m, p, K, lsn)
               /\ p.map = [k \in K |-> IF k \in I THEN NoValue ELSE m.map[k]]
<1> DEFINE V == {m.map[k] : k \in K} \cup {NoValue}
           S == Reach(m, K, V, lsn)
           D == [k \in I |-> [q \in S |-> remove(q, lsn, k)]]
           ch == [s \in SUBSET I |-> Pick(s)]
           g == CHOOSE h : IsRemoving(h, I, m, lsn)
<1>0. IsMap(m, K)
  BY DEF Ready
<1>1. \A s \in SUBSET I : s # {} => Pick(s) \in s
  BY DEF Pick
<1>2. IsRemoving(g, I, m, lsn)
  <2>1. NoValue \in V /\ (\A k \in K : m.map[k] \in V)
    OBVIOUS
  <2> HIDE DEF V
  <2>2. m \in S /\ \A q \in S, k \in K, v \in V : remove(q, lsn, k) \in S
    BY <1>0, <2>1, ReachFacts
  <2>3. I \subseteq K /\ IsFiniteSet(I)
    OBVIOUS
  <2> HIDE DEF S
  <2>4. D \in [I -> [S -> S]]
    BY <2>1, <2>2, <2>3
  <2>5. \A s \in SUBSET I : s # {} => ch[s] \in s
    BY <1>1
  <2>6. PICK f : f \in [SUBSET I -> S] /\ IsFold(f, I, m, D, ch)
    <3> HIDE DEF D, ch, g
    <3>1. m \in S
      BY <2>2
    <3>2. IsFiniteSet(I)
      BY <2>3
    <3>3. CanFold(I, S, m, D, ch)
      BY <2>4, <2>5, <3>1, <3>2 DEF CanFold
    <3> QED BY <3>3, FoldExists
  <2>7. \A s \in SUBSET I : f[s] = IF s = {} THEN m ELSE D[ch[s]][f[s \ {ch[s]}]]
    <3> HIDE DEF D, ch, g
    <3> QED BY <2>6 DEF IsFold
  <2>8. ASSUME NEW s \in SUBSET I, s # {}
        PROVE  D[ch[s]][f[s \ {ch[s]}]]
                 = remove(f[s \ {Pick(s)}], lsn, Pick(s))
    <3>1. ch[s] = Pick(s) /\ Pick(s) \in I /\ s \ {Pick(s)} \in SUBSET I
      BY <1>1, <2>8
    <3>2. f[s \ {Pick(s)}] \in S
      BY <2>6, <3>1
    <3> QED BY <3>1, <3>2
  <2> HIDE DEF D, ch
  <2>9. IsRemoving(f, I, m, lsn)
    <3>1. \A s \in SUBSET I : f[s] = IF s = {} THEN m
              ELSE remove(f[s \ {Pick(s)}], lsn, Pick(s))
      BY <2>7, <2>8
    <3>2. f = [s \in SUBSET I |-> f[s]]
      BY <2>6
    <3> QED BY <3>1, <3>2 DEF IsRemoving
  <2> QED BY <2>9
<1> HIDE DEF g
<1>3. /\ g[{}] = m
      /\ \A s \in SUBSET I : s # {} =>
            g[s] = remove(g[s \ {Pick(s)}], lsn, Pick(s))
  BY <1>2 DEF IsRemoving
<1> DEFINE Map(s) == [k \in K |-> IF k \in s THEN NoValue ELSE m.map[k]]
           Good(s) == /\ Wrote(m, g[s], K, lsn) /\ g[s].map = Map(s)
           T == {s \in SUBSET I : Good(s)}
<1>4. {} \in T
  <2>1. Map({}) = m.map
    BY <1>0 DEF IsMap
  <2> QED BY <1>3, <2>1, WroteNothing
<1>5. ASSUME NEW s \in SUBSET I, s # {}, \A x \in s : s \ {x} \in T
      PROVE  s \in T
  <2> DEFINE x == Pick(s)
             q == g[s \ {x}]
             p == g[s]
  <2>1. x \in s /\ x \in K /\ Good(s \ {x})
    BY <1>1, <1>5
  <2>2. p = remove(q, lsn, x)
    BY <1>3, <1>5
  <2> HIDE DEF x, q, p
  <2>3. Wrote(m, q, K, lsn) /\ q.map = Map(s \ {x})
    BY <2>1 DEF q
  <2>4. /\ Wrote(q, p, K, lsn) /\ p.map = [q.map EXCEPT ![x] = NoValue]
    <3>1. Ready(q, K, lsn)
      BY <2>3, WroteReady
    <3>2. /\ Wrote(q, remove(q, lsn, x), K, lsn)
          /\ remove(q, lsn, x).map = [q.map EXCEPT ![x] = NoValue]
      BY <3>1, RemoveWrites
    <3> QED BY <2>2, <3>2
  <2>5. Wrote(m, p, K, lsn)
    BY <1>0, <2>3, <2>4, WroteTwice
  <2>6. p.map = Map(s)
    BY <2>1, <2>3, <2>4
  <2> QED BY <2>1, <2>3, <2>4, <2>5, <2>6 DEF p
<1>6. I \in T
  <2> HIDE DEF T
  <2>2. SUBSET I \subseteq T
    BY <1>4, <1>5, SetInduction
  <2> QED BY <2>2
<1>7. RemoveAll(m, lsn, I) = g[I]
  BY RemoveAllIsFold DEF g
<1> QED BY <1>6, <1>7

-----------------------------------------------------------------------------
(* The fields of a chain and its lsns *)

MapNames ==
    {"block_by_hash", "output_by_hash", "balance", "escrow", "election_result",
     "epoch_activity"}

Fields == MapNames \cup {"epoch", "offset", "view_change_proof", "awards", "cache"}

KeysOf ==
    [block_by_hash |-> Lsns, output_by_hash |-> Utxos, balance |-> {Unit},
     escrow |-> Utxos, election_result |-> {Unit}, epoch_activity |-> Validators]

IsRecord(c) == c = [f \in Fields |-> c[f]]

IsElected(e) == e = [f \in {"random", "view_change", "validators"} |-> e[f]]

\* A chain whose maps can be written at lsn.
IsChain(c, lsn) ==
    /\ IsRecord(c) /\ c.epoch \in Nat /\ c.offset \in Nat
    /\ \A f \in MapNames : Ready(c[f], KeysOf[f], lsn)

\* r is c after writes at lsn.
Writes(c, r, lsn) ==
    /\ IsRecord(r)
    /\ \A f \in MapNames : Wrote(c[f], r[f], KeysOf[f], lsn)

\* The lsn of the block before offset is the number before.
LEMMA LsnFacts ==
    ASSUME NEW e \in Nat, NEW o \in Nat
    PROVE  /\ LSN(e, o) \in Nat /\ PreviousLsn(e, o) \in Int
           /\ PreviousLsn(e, o) = LSN(e, o) - 1
           /\ LSN(e, o) = LSN(e, 0) + o
           /\ PreviousLsn(e, o + 1) = LSN(e, o)
           /\ LSN(e, MACRO_BLOCK_OFFSET) \in Nat
           /\ LSN(e, MACRO_BLOCK_OFFSET) = PreviousLsn(e + 1, 0)
           /\ LSN(e, MACRO_BLOCK_OFFSET) > PreviousLsn(e, 0)
           /\ o <= MicroBlocksInEpoch + 1 => LSN(e, o) <= LSN(e, MACRO_BLOCK_OFFSET)
<1> DEFINE w == MicroBlocksInEpoch + 2
           p == e * w
<1>1. w \in Nat /\ MicroBlocksInEpoch \in Nat /\ p \in Nat
  BY BlockchainAssumption
<1>2. (e - 1) * w = p - w
  BY <1>1
<1>3. /\ LSN(e, o) = p + o /\ LSN(e, 0) = p + 0 /\ LSN(e - 1, MACRO_BLOCK_OFFSET) = (p - w) + (w - 1)
      /\ LSN(e, MACRO_BLOCK_OFFSET) = p + (w - 1)
  BY <1>1, <1>2 DEF LSN, MACRO_BLOCK_OFFSET
<1>4. o > 0 => LSN(e, o - 1) = p + (o - 1)
  BY <1>1 DEF LSN
<1>5. w >= 2 /\ w = MicroBlocksInEpoch + 2
  BY <1>1
<1> HIDE DEF p, w
<1>6. PreviousLsn(e, o) = LSN(e, o) - 1 /\ LSN(e, o) \in Nat /\ PreviousLsn(e, 0) = p - 1
  BY <1>1, <1>3, <1>4 DEF PreviousLsn
<1>7. PreviousLsn(e, o + 1) = LSN(e, o) /\ PreviousLsn(e + 1, 0) = LSN(e, MACRO_BLOCK_OFFSET)
  <2>1. o + 1 # 0 /\ (o + 1) - 1 = o /\ (e + 1) - 1 = e
    OBVIOUS
  <2> QED BY <2>1 DEF PreviousLsn
<1> QED BY <1>1, <1>3, <1>5, <1>6, <1>7

LEMMA LsnOrder ==
    ASSUME NEW e \in Nat, NEW o \in Nat, NEW p \in Nat
    PROVE  /\ LSN(e, o) \in Nat /\ PreviousLsn(e, o) \in Int
           /\ LSN(e, o + 1) = LSN(e, o) + 1
           /\ PreviousLsn(e, o) = LSN(e, o) - 1
           /\ o <= p => LSN(e, o) <= LSN(e, p) /\ PreviousLsn(e, o) <= PreviousLsn(e, p)
           /\ o <= p => PreviousLsn(e, o) < LSN(e, p)
<1>1. /\ LSN(e, 0) \in Nat /\ LSN(e, o) = LSN(e, 0) + o /\ LSN(e, p) = LSN(e, 0) + p
      /\ PreviousLsn(e, o) = LSN(e, o) - 1 /\ PreviousLsn(e, p) = LSN(e, p) - 1
  BY LsnFacts
<1>2. LSN(e, o + 1) = LSN(e, 0) + (o + 1)
  <2>1. o + 1 \in Nat
    OBVIOUS
  <2> QED BY <2>1, LsnFacts
<1> QED BY <1>1, <1>2

-----------------------------------------------------------------------------
(* Recursion over the blocks: the functions exist, and are unrolled by a block *)

\* g[i] is the chain after i of the micro blocks.
MicroRun(g, c, s, n) ==
    g = [i \in 0 .. n |-> IF i = 0 THEN c ELSE register_micro_block(g[i - 1], s[i])]

LEMMA MicroRunExists ==
    ASSUME NEW c, NEW s, NEW n \in Nat
    PROVE  \E g : MicroRun(g, c, s, n)
<1> DEFINE T == {k \in Nat : \E g : MicroRun(g, c, s, k)}
<1>1. 0 \in T
  <2>1. MicroRun([i \in 0 .. 0 |-> c], c, s, 0)
    BY DEF MicroRun
  <2> QED BY <2>1
<1>2. ASSUME NEW k \in Nat, k \in T PROVE k + 1 \in T
  <2>1. PICK g : MicroRun(g, c, s, k)
    BY <1>2
  <2> DEFINE h == [i \in 0 .. k + 1 |-> IF i = 0 THEN c ELSE register_micro_block(g[i - 1], s[i])]
  <2>2. \A i \in 0 .. k : h[i] = g[i]
    BY <2>1 DEF MicroRun
  <2>3. \A i \in 0 .. k + 1 : i # 0 => i - 1 \in 0 .. k
    OBVIOUS
  <2>4. \A i \in 0 .. k + 1 : i # 0 => h[i - 1] = g[i - 1]
    BY <2>2, <2>3
  <2>5. MicroRun(h, c, s, k + 1)
    BY <2>4 DEF MicroRun
  <2> QED BY <2>5
<1>3. Nat \subseteq T
  <2> HIDE DEF T
  <2> QED BY <1>1, <1>2, NumberInduction
<1> QED BY <1>3

LEMMA MicroRunSame ==
    ASSUME NEW c, NEW s, NEW t, NEW g, NEW h, NEW n \in Nat, NEW m \in Nat, m <= n,
           MicroRun(g, c, s, n), MicroRun(h, c, t, m), \A i \in 1 .. m : s[i] = t[i]
    PROVE  \A i \in 0 .. m : g[i] = h[i]
<1> DEFINE T == {k \in Nat : k <= m => g[k] = h[k]}
<1>1. /\ g[0] = c /\ h[0] = c
      /\ \A k \in 1 .. m : g[k] = register_micro_block(g[k - 1], s[k])
      /\ \A k \in 1 .. m : h[k] = register_micro_block(h[k - 1], t[k])
  BY DEF MicroRun
<1>2. ASSUME NEW k \in Nat, k \in T PROVE k + 1 \in T
  <2>1. CASE k + 1 <= m
    <3>1. k + 1 \in 1 .. m /\ (k + 1) - 1 = k /\ g[k] = h[k]
      BY <1>2, <2>1
    <3> QED BY <1>1, <3>1
  <2> QED BY <2>1
<1>3. Nat \subseteq T
  <2>1. 0 \in T
    BY <1>1
  <2> HIDE DEF T
  <2> QED BY <1>2, <2>1, NumberInduction
<1> QED BY <1>3

LEMMA RegisterMicrosIsRun ==
    ASSUME NEW c, NEW s, Len(s) \in Nat
    PROVE  \E g : MicroRun(g, c, s, Len(s)) /\ RegisterMicros(c, s) = g[Len(s)]
<1> DEFINE g == CHOOSE h : MicroRun(h, c, s, Len(s))
<1>1. MicroRun(g, c, s, Len(s))
  BY MicroRunExists
<1>2. RegisterMicros(c, s) = g[Len(s)]
  BY DEF RegisterMicros, MicroRun
<1> HIDE DEF g
<1> QED BY <1>1, <1>2

\* RegisterMicros block by block.
LEMMA RegisterMicrosUnroll ==
    ASSUME NEW c, NEW s, Len(s) \in Nat
    PROVE  /\ Len(s) = 0 => RegisterMicros(c, s) = c
           /\ \A t : Len(t) = Len(s) /\ (\A i \in 1 .. Len(s) : t[i] = s[i])
                    => RegisterMicros(c, t) = RegisterMicros(c, s)
           /\ \A t : Len(t) = Len(s) + 1 /\ (\A i \in 1 .. Len(s) : t[i] = s[i])
                    => RegisterMicros(c, t) = register_micro_block(RegisterMicros(c, s), t[Len(s) + 1])
<1>1. PICK g : MicroRun(g, c, s, Len(s)) /\ RegisterMicros(c, s) = g[Len(s)]
  BY RegisterMicrosIsRun
<1>2. Len(s) = 0 => RegisterMicros(c, s) = c
  BY <1>1 DEF MicroRun
<1>3. ASSUME NEW t, Len(t) = Len(s), \A i \in 1 .. Len(s) : t[i] = s[i]
      PROVE  RegisterMicros(c, t) = RegisterMicros(c, s)
  <2>1. PICK h : MicroRun(h, c, t, Len(s)) /\ RegisterMicros(c, t) = h[Len(s)]
    BY <1>3, RegisterMicrosIsRun
  <2>2. \A i \in 0 .. Len(s) : h[i] = g[i]
    BY <1>1, <1>3, <2>1, MicroRunSame
  <2> QED BY <1>1, <2>1, <2>2
<1>4. ASSUME NEW t, Len(t) = Len(s) + 1, \A i \in 1 .. Len(s) : t[i] = s[i]
      PROVE  RegisterMicros(c, t) = register_micro_block(RegisterMicros(c, s), t[Len(s) + 1])
  <2>1. Len(s) + 1 \in Nat /\ Len(s) <= Len(s) + 1 /\ (Len(s) + 1) - 1 = Len(s)
        /\ Len(s) + 1 \in 0 .. Len(s) + 1 /\ Len(s) + 1 # 0
    OBVIOUS
  <2>2. PICK h : MicroRun(h, c, t, Len(s) + 1) /\ RegisterMicros(c, t) = h[Len(s) + 1]
    BY <1>4, <2>1, RegisterMicrosIsRun
  <2>3. \A i \in 0 .. Len(s) : h[i] = g[i]
    BY <1>1, <1>4, <2>1, <2>2, MicroRunSame
  <2>4. h[Len(s) + 1] = register_micro_block(h[Len(s)], t[Len(s) + 1])
    BY <2>1, <2>2 DEF MicroRun
  <2>5. h[Len(s)] = g[Len(s)]
    BY <2>3
  <2> QED BY <1>1, <2>2, <2>4, <2>5
<1> QED BY <1>2, <1>3, <1>4

\* g[i] is the chain after i of the macro blocks.
MacroRun(g, c, s, n) ==
    g = [i \in 0 .. n |-> IF i = 0 THEN c ELSE register_macro_block(g[i - 1], s[i])]

LEMMA MacroRunExists ==
    ASSUME NEW c, NEW s, NEW n \in Nat
    PROVE  \E g : MacroRun(g, c, s, n)
<1> DEFINE T == {k \in Nat : \E g : MacroRun(g, c, s, k)}
<1>1. 0 \in T
  <2>1. MacroRun([i \in 0 .. 0 |-> c], c, s, 0)
    BY DEF MacroRun
  <2> QED BY <2>1
<1>2. ASSUME NEW k \in Nat, k \in T PROVE k + 1 \in T
  <2>1. PICK g : MacroRun(g, c, s, k)
    BY <1>2
  <2> DEFINE h == [i \in 0 .. k + 1 |-> IF i = 0 THEN c ELSE register_macro_block(g[i - 1], s[i])]
  <2>2. \A i \in 0 .. k : h[i] = g[i]
    BY <2>1 DEF MacroRun
  <2>3. \A i \in 0 .. k + 1 : i # 0 => i - 1 \in 0 .. k
    OBVIOUS
  <2>4. \A i \in 0 .. k + 1 : i # 0 => h[i - 1] = g[i - 1]
    BY <2>2, <2>3
  <2>5. MacroRun(h, c, s, k + 1)
    BY <2>4 DEF MacroRun
  <2> QED BY <2>5
<1>3. Nat \subseteq T
  <2> HIDE DEF T
  <2> QED BY <1>1, <1>2, NumberInduction
<1> QED BY <1>3

LEMMA MacroRunSame ==
    ASSUME NEW c, NEW s, NEW t, NEW g, NEW h, NEW n \in Nat, NEW m \in Nat, m <= n,
           MacroRun(g, c, s, n), MacroRun(h, c, t, m), \A i \in 1 .. m : s[i] = t[i]
    PROVE  \A i \in 0 .. m : g[i] = h[i]
<1> DEFINE T == {k \in Nat : k <= m => g[k] = h[k]}
<1>1. /\ g[0] = c /\ h[0] = c
      /\ \A k \in 1 .. m : g[k] = register_macro_block(g[k - 1], s[k])
      /\ \A k \in 1 .. m : h[k] = register_macro_block(h[k - 1], t[k])
  BY DEF MacroRun
<1>2. ASSUME NEW k \in Nat, k \in T PROVE k + 1 \in T
  <2>1. CASE k + 1 <= m
    <3>1. k + 1 \in 1 .. m /\ (k + 1) - 1 = k /\ g[k] = h[k]
      BY <1>2, <2>1
    <3> QED BY <1>1, <3>1
  <2> QED BY <2>1
<1>3. Nat \subseteq T
  <2>1. 0 \in T
    BY <1>1
  <2> HIDE DEF T
  <2> QED BY <1>2, <2>1, NumberInduction
<1> QED BY <1>3

LEMMA RegisterMacrosIsRun ==
    ASSUME NEW c, NEW s, Len(s) \in Nat
    PROVE  \E g : MacroRun(g, c, s, Len(s)) /\ RegisterMacros(c, s) = g[Len(s)]
<1> DEFINE g == CHOOSE h : MacroRun(h, c, s, Len(s))
<1>1. MacroRun(g, c, s, Len(s))
  BY MacroRunExists
<1>2. RegisterMacros(c, s) = g[Len(s)]
  BY DEF RegisterMacros, MacroRun
<1> HIDE DEF g
<1> QED BY <1>1, <1>2

\* RegisterMacros block by block.
LEMMA RegisterMacrosUnroll ==
    ASSUME NEW c, NEW s, Len(s) \in Nat
    PROVE  /\ Len(s) = 0 => RegisterMacros(c, s) = c
           /\ \A t : Len(t) = Len(s) /\ (\A i \in 1 .. Len(s) : t[i] = s[i])
                    => RegisterMacros(c, t) = RegisterMacros(c, s)
           /\ \A t : Len(t) = Len(s) + 1 /\ (\A i \in 1 .. Len(s) : t[i] = s[i])
                    => RegisterMacros(c, t) = register_macro_block(RegisterMacros(c, s), t[Len(s) + 1])
<1>1. PICK g : MacroRun(g, c, s, Len(s)) /\ RegisterMacros(c, s) = g[Len(s)]
  BY RegisterMacrosIsRun
<1>2. Len(s) = 0 => RegisterMacros(c, s) = c
  BY <1>1 DEF MacroRun
<1>3. ASSUME NEW t, Len(t) = Len(s), \A i \in 1 .. Len(s) : t[i] = s[i]
      PROVE  RegisterMacros(c, t) = RegisterMacros(c, s)
  <2>1. PICK h : MacroRun(h, c, t, Len(s)) /\ RegisterMacros(c, t) = h[Len(s)]
    BY <1>3, RegisterMacrosIsRun
  <2>2. \A i \in 0 .. Len(s) : h[i] = g[i]
    BY <1>1, <1>3, <2>1, MacroRunSame
  <2> QED BY <1>1, <2>1, <2>2
<1>4. ASSUME NEW t, Len(t) = Len(s) + 1, \A i \in 1 .. Len(s) : t[i] = s[i]
      PROVE  RegisterMacros(c, t) = register_macro_block(RegisterMacros(c, s), t[Len(s) + 1])
  <2>1. Len(s) + 1 \in Nat /\ Len(s) <= Len(s) + 1 /\ (Len(s) + 1) - 1 = Len(s)
        /\ Len(s) + 1 \in 0 .. Len(s) + 1 /\ Len(s) + 1 # 0
    OBVIOUS
  <2>2. PICK h : MacroRun(h, c, t, Len(s) + 1) /\ RegisterMacros(c, t) = h[Len(s) + 1]
    BY <1>4, <2>1, RegisterMacrosIsRun
  <2>3. \A i \in 0 .. Len(s) : h[i] = g[i]
    BY <1>1, <1>4, <2>1, <2>2, MacroRunSame
  <2>4. h[Len(s) + 1] = register_macro_block(h[Len(s)], t[Len(s) + 1])
    BY <2>1, <2>2 DEF MacroRun
  <2>5. h[Len(s)] = g[Len(s)]
    BY <2>3
  <2> QED BY <1>1, <2>2, <2>4, <2>5
<1> QED BY <1>2, <1>3, <1>4

\* g[i] is the cache after i macro blocks.
CacheRun(g, s, n) ==
    g = [i \in 0 .. n |-> IF i = 0 THEN <<>> ELSE cache_push_block(g[i - 1], s[i])]

LEMMA CacheRunExists ==
    ASSUME NEW s, NEW n \in Nat
    PROVE  \E g : CacheRun(g, s, n)
<1> DEFINE T == {k \in Nat : \E g : CacheRun(g, s, k)}
<1>1. 0 \in T
  <2>1. CacheRun([i \in 0 .. 0 |-> <<>>], s, 0)
    BY DEF CacheRun
  <2> QED BY <2>1
<1>2. ASSUME NEW k \in Nat, k \in T PROVE k + 1 \in T
  <2>1. PICK g : CacheRun(g, s, k)
    BY <1>2
  <2> DEFINE h == [i \in 0 .. k + 1 |-> IF i = 0 THEN <<>> ELSE cache_push_block(g[i - 1], s[i])]
  <2>2. \A i \in 0 .. k : h[i] = g[i]
    BY <2>1 DEF CacheRun
  <2>3. \A i \in 0 .. k + 1 : i # 0 => i - 1 \in 0 .. k
    OBVIOUS
  <2>4. \A i \in 0 .. k + 1 : i # 0 => h[i - 1] = g[i - 1]
    BY <2>2, <2>3
  <2>5. CacheRun(h, s, k + 1)
    BY <2>4 DEF CacheRun
  <2> QED BY <2>5
<1>3. Nat \subseteq T
  <2> HIDE DEF T
  <2> QED BY <1>1, <1>2, NumberInduction
<1> QED BY <1>3

\* g[i] has the activity after i skipped leaders.
SkipRun(g, c, lsn, n) ==
    g = [i \in 0 .. n |-> IF i = 0 THEN c.epoch_activity ELSE insert(g[i - 1], lsn, select_leader(ElectionResult(c), i - 1), Failed)]

LEMMA SkipRunExists ==
    ASSUME NEW c, NEW lsn, NEW n \in Nat
    PROVE  \E g : SkipRun(g, c, lsn, n)
<1> DEFINE T == {k \in Nat : \E g : SkipRun(g, c, lsn, k)}
<1>1. 0 \in T
  <2>1. SkipRun([i \in 0 .. 0 |-> c.epoch_activity], c, lsn, 0)
    BY DEF SkipRun
  <2> QED BY <2>1
<1>2. ASSUME NEW k \in Nat, k \in T PROVE k + 1 \in T
  <2>1. PICK g : SkipRun(g, c, lsn, k)
    BY <1>2
  <2> DEFINE h == [i \in 0 .. k + 1 |-> IF i = 0 THEN c.epoch_activity ELSE insert(g[i - 1], lsn, select_leader(ElectionResult(c), i - 1), Failed)]
  <2>2. \A i \in 0 .. k : h[i] = g[i]
    BY <2>1 DEF SkipRun
  <2>3. \A i \in 0 .. k + 1 : i # 0 => i - 1 \in 0 .. k
    OBVIOUS
  <2>4. \A i \in 0 .. k + 1 : i # 0 => h[i - 1] = g[i - 1]
    BY <2>2, <2>3
  <2>5. SkipRun(h, c, lsn, k + 1)
    BY <2>4 DEF SkipRun
  <2> QED BY <2>5
<1>3. Nat \subseteq T
  <2> HIDE DEF T
  <2> QED BY <1>1, <1>2, NumberInduction
<1> QED BY <1>3

\* g[i] is the chain without i of its micro blocks.
PopRun(g, c, n) ==
    g = [i \in 0 .. n |-> IF i = 0 THEN c ELSE pop_micro_block(g[i - 1])]

LEMMA PopRunExists ==
    ASSUME NEW c, NEW n \in Nat
    PROVE  \E g : PopRun(g, c, n)
<1> DEFINE T == {k \in Nat : \E g : PopRun(g, c, k)}
<1>1. 0 \in T
  <2>1. PopRun([i \in 0 .. 0 |-> c], c, 0)
    BY DEF PopRun
  <2> QED BY <2>1
<1>2. ASSUME NEW k \in Nat, k \in T PROVE k + 1 \in T
  <2>1. PICK g : PopRun(g, c, k)
    BY <1>2
  <2> DEFINE h == [i \in 0 .. k + 1 |-> IF i = 0 THEN c ELSE pop_micro_block(g[i - 1])]
  <2>2. \A i \in 0 .. k : h[i] = g[i]
    BY <2>1 DEF PopRun
  <2>3. \A i \in 0 .. k + 1 : i # 0 => i - 1 \in 0 .. k
    OBVIOUS
  <2>4. \A i \in 0 .. k + 1 : i # 0 => h[i - 1] = g[i - 1]
    BY <2>2, <2>3
  <2>5. PopRun(h, c, k + 1)
    BY <2>4 DEF PopRun
  <2> QED BY <2>5
<1>3. Nat \subseteq T
  <2> HIDE DEF T
  <2> QED BY <1>1, <1>2, NumberInduction
<1> QED BY <1>3

-----------------------------------------------------------------------------
(* What a block writes *)

IsMicro(b) == b.ins \subseteq Utxos /\ b.outs \subseteq Utxos /\ b.view_change \in Nat
IsMacro(b) == b.ins \subseteq Utxos /\ b.outs \subseteq Utxos

\* The outputs in map after these have been spent and created.
Moved(map, ins, contents) ==
    [k \in Utxos |-> IF k \in Given(contents) THEN contents[k]
                     ELSE IF k \in ins THEN NoValue ELSE map[k]]

LEMMA KeysFacts ==
    /\ KeysOf["block_by_hash"] = Lsns /\ KeysOf["output_by_hash"] = Utxos
    /\ KeysOf["balance"] = {Unit} /\ KeysOf["escrow"] = Utxos
    /\ KeysOf["election_result"] = {Unit} /\ KeysOf["epoch_activity"] = Validators
  BY DEF KeysOf

LEMMA ChainFacts ==
    ASSUME NEW c, NEW lsn, IsChain(c, lsn)
    PROVE  /\ IsRecord(c) /\ c.epoch \in Nat /\ c.offset \in Nat
           /\ Ready(c.block_by_hash, Lsns, lsn) /\ Ready(c.output_by_hash, Utxos, lsn)
           /\ Ready(c.balance, {Unit}, lsn) /\ Ready(c.escrow, Utxos, lsn)
           /\ Ready(c.election_result, {Unit}, lsn)
           /\ Ready(c.epoch_activity, Validators, lsn)
  BY KeysFacts DEF IsChain, MapNames

LEMMA MoveFacts ==
    ASSUME NEW m, NEW lsn \in Int, Ready(m, Utxos, lsn), NEW ins \in SUBSET Utxos,
           NEW contents, Given(contents) \subseteq Utxos
    PROVE  LET p == InsertAll(RemoveAll(m, lsn, ins), lsn, contents)
           IN  Wrote(m, p, Utxos, lsn) /\ p.map = Moved(m.map, ins, contents)
<1> DEFINE q == RemoveAll(m, lsn, ins)
           p == InsertAll(q, lsn, contents)
<1>1. IsFiniteSet(ins) /\ IsFiniteSet(Given(contents))
  BY BlockchainAssumption, FS_Subset
<1>2. /\ Wrote(m, q, Utxos, lsn)
      /\ q.map = [k \in Utxos |-> IF k \in ins THEN NoValue ELSE m.map[k]]
  BY <1>1, RemoveAllFacts
<1> HIDE DEF q
<1>3. Ready(q, Utxos, lsn)
  BY <1>2, WroteReady
<1>4. /\ Wrote(q, p, Utxos, lsn)
      /\ p.map = [k \in Utxos |-> IF k \in Given(contents) THEN contents[k] ELSE q.map[k]]
  BY <1>1, <1>3, InsertAllFacts
<1> HIDE DEF p
<1>5. Wrote(m, p, Utxos, lsn)
  BY <1>2, <1>4, WroteTwice DEF Ready
<1>6. p.map = Moved(m.map, ins, contents)
  BY <1>2, <1>4 DEF Moved
<1> QED BY <1>5, <1>6 DEF p, q

\* The new outputs, and the stakes among them.
NewOutputs(outs, lsn) == [u \in outs |-> lsn]
NewStakes(outs, epoch) ==
    [u \in {o \in outs : Stake[o].validator # NoValidator} |-> epoch + StakeEpochs]

LEMMA InputsFacts ==
    ASSUME NEW c, NEW lsn \in Int, IsChain(c, lsn), NEW b,
           NEW ins \in SUBSET Utxos, NEW outs \in SUBSET Utxos, NEW reward
    PROVE  LET r == register_inputs_and_outputs(c, lsn, b, ins, outs, reward)
           IN  /\ Writes(c, r, lsn)
               /\ r.epoch = c.epoch /\ r.offset = c.offset /\ r.awards = c.awards
               /\ r.cache = c.cache /\ r.view_change_proof = c.view_change_proof
               /\ r.election_result = c.election_result
               /\ r.epoch_activity = c.epoch_activity
               /\ r.block_by_hash.map = [c.block_by_hash.map EXCEPT ![lsn] = b]
               /\ current_lsn(r.block_by_hash) = lsn
               /\ r.output_by_hash.map = Moved(c.output_by_hash.map, ins, NewOutputs(outs, lsn))
               /\ r.escrow.map = Moved(c.escrow.map, ins, NewStakes(outs, c.epoch))
               /\ r.balance.map = [c.balance.map EXCEPT ![Unit] = c.balance.map[Unit] + reward]
<1> DEFINE r == register_inputs_and_outputs(c, lsn, b, ins, outs, reward)
           B == insert(c.block_by_hash, lsn, lsn, b)
           O == InsertAll(RemoveAll(c.output_by_hash, lsn, ins), lsn, NewOutputs(outs, lsn))
           E == InsertAll(RemoveAll(c.escrow, lsn, ins), lsn, NewStakes(outs, c.epoch))
           M == insert(c.balance, lsn, Unit, c.balance.map[Unit] + reward)
<1>1. /\ IsRecord(c) /\ Ready(c.block_by_hash, Lsns, lsn) /\ Ready(c.output_by_hash, Utxos, lsn)
      /\ Ready(c.balance, {Unit}, lsn) /\ Ready(c.escrow, Utxos, lsn)
      /\ Ready(c.election_result, {Unit}, lsn) /\ Ready(c.epoch_activity, Validators, lsn)
  BY ChainFacts
<1>2. r = [c EXCEPT !.block_by_hash = B, !.output_by_hash = O, !.escrow = E, !.balance = M]
  BY DEF register_inputs_and_outputs, NewOutputs, NewStakes
<1>3. /\ Wrote(c.block_by_hash, B, Lsns, lsn) /\ current_lsn(B) = lsn
      /\ B.map = [c.block_by_hash.map EXCEPT ![lsn] = b]
  BY <1>1, InsertWrites
<1>4. /\ Wrote(c.balance, M, {Unit}, lsn)
      /\ M.map = [c.balance.map EXCEPT ![Unit] = c.balance.map[Unit] + reward]
  BY <1>1, InsertWrites
<1>5. Given(NewOutputs(outs, lsn)) \subseteq Utxos /\ Given(NewStakes(outs, c.epoch)) \subseteq Utxos
  BY DEF Given, NewOutputs, NewStakes
<1>6. /\ Wrote(c.output_by_hash, O, Utxos, lsn)
      /\ O.map = Moved(c.output_by_hash.map, ins, NewOutputs(outs, lsn))
  BY <1>1, <1>5, MoveFacts
<1>7. /\ Wrote(c.escrow, E, Utxos, lsn)
      /\ E.map = Moved(c.escrow.map, ins, NewStakes(outs, c.epoch))
  BY <1>1, <1>5, MoveFacts
<1>8. /\ Wrote(c.election_result, c.election_result, {Unit}, lsn)
      /\ Wrote(c.epoch_activity, c.epoch_activity, Validators, lsn)
  BY <1>1, WroteNothing
<1> HIDE DEF r, B, O, E, M
<1>9. /\ IsRecord(r) /\ r.epoch = c.epoch /\ r.offset = c.offset /\ r.awards = c.awards
      /\ r.cache = c.cache /\ r.view_change_proof = c.view_change_proof
      /\ r.election_result = c.election_result
      /\ r.epoch_activity = c.epoch_activity
      /\ r.block_by_hash = B /\ r.output_by_hash = O /\ r.escrow = E /\ r.balance = M
  BY <1>1, <1>2 DEF IsRecord, Fields, MapNames
<1>10. Writes(c, r, lsn)
  BY <1>3, <1>4, <1>6, <1>7, <1>8, <1>9, KeysFacts DEF Writes, MapNames
<1> QED BY <1>3, <1>4, <1>6, <1>7, <1>9, <1>10 DEF r

\* Writes one after another, and the chain after them.
LEMMA WritesFacts ==
    ASSUME NEW c, NEW r, NEW lsn \in Int, IsChain(c, lsn), Writes(c, r, lsn),
           r.epoch \in Nat, r.offset \in Nat
    PROVE  /\ IsChain(r, lsn)
           /\ \A s : Writes(r, s, lsn) => Writes(c, s, lsn)
<1>1. IsChain(r, lsn)
  <2>1. ASSUME NEW f \in MapNames PROVE Ready(r[f], KeysOf[f], lsn)
    <3>1. Wrote(c[f], r[f], KeysOf[f], lsn)
      BY DEF Writes
    <3> QED BY <3>1, WroteReady
  <2> QED BY <2>1 DEF IsChain, Writes
<1>2. ASSUME NEW s, Writes(r, s, lsn) PROVE Writes(c, s, lsn)
  <2>1. ASSUME NEW f \in MapNames PROVE Wrote(c[f], s[f], KeysOf[f], lsn)
    <3>1. IsMap(c[f], KeysOf[f])
      BY DEF IsChain, Ready
    <3>2. Wrote(c[f], r[f], KeysOf[f], lsn) /\ Wrote(r[f], s[f], KeysOf[f], lsn)
      BY <1>2 DEF Writes
    <3> QED BY <3>1, <3>2, WroteTwice
  <2> QED BY <1>2, <2>1 DEF Writes
<1> QED BY <1>1, <1>2

\* A new election result.
LEMMA ElectInsert ==
    ASSUME NEW c, NEW lsn \in Int, IsChain(c, lsn), NEW e
    PROVE  LET E == insert(c.election_result, lsn, Unit, e)
           IN  /\ Wrote(c.election_result, E, {Unit}, lsn) /\ current_lsn(E) = lsn
               /\ E.map = [c.election_result.map EXCEPT ![Unit] = e] /\ E.map[Unit] = e
<1> DEFINE E == insert(c.election_result, lsn, Unit, e)
<1>1. Ready(c.election_result, {Unit}, lsn)
  BY ChainFacts
<1>2. /\ Wrote(c.election_result, E, {Unit}, lsn) /\ current_lsn(E) = lsn
      /\ E.map = [c.election_result.map EXCEPT ![Unit] = e]
  BY <1>1, InsertWrites
<1>3. c.election_result.map = [k \in {Unit} |-> c.election_result.map[k]]
  BY <1>1 DEF Ready, IsMap
<1> HIDE DEF E
<1>4. E.map[Unit] = e
  BY <1>2, <1>3
<1> QED BY <1>2, <1>4 DEF E

OnlyElection(c, r) == \A f \in MapNames \ {"election_result"} : r[f] = c[f]

Elects(c, r, lsn, e) ==
    /\ IsRecord(r) /\ OnlyElection(c, r)
    /\ r.election_result = insert(c.election_result, lsn, Unit, e)

LEMMA ElectFacts ==
    ASSUME NEW c, NEW lsn \in Int, IsChain(c, lsn), NEW e, NEW r, Elects(c, r, lsn, e)
    PROVE  /\ Writes(c, r, lsn) /\ ElectionResult(r) = e
           /\ current_lsn(r.election_result) = lsn
           /\ r.election_result.map = [c.election_result.map EXCEPT ![Unit] = e]
<1> DEFINE E == insert(c.election_result, lsn, Unit, e)
<1>1. KeysOf["election_result"] = {Unit}
  BY KeysFacts
<1>2. /\ Wrote(c.election_result, E, {Unit}, lsn) /\ current_lsn(E) = lsn
      /\ E.map = [c.election_result.map EXCEPT ![Unit] = e] /\ E.map[Unit] = e
  BY ElectInsert
<1>3. r.election_result = E /\ IsRecord(r) /\ OnlyElection(c, r)
  BY DEF Elects
<1> HIDE DEF E
<1>4. ASSUME NEW f \in MapNames PROVE Wrote(c[f], r[f], KeysOf[f], lsn)
  <2>1. CASE f = "election_result"
    BY <1>1, <1>2, <1>3, <2>1
  <2>2. CASE f # "election_result"
    <3>1. r[f] = c[f] /\ Ready(c[f], KeysOf[f], lsn)
      BY <1>3, <2>2 DEF IsChain, OnlyElection
    <3> QED BY <3>1, WroteNothing
  <2> QED BY <2>1, <2>2
<1> QED BY <1>2, <1>3, <1>4 DEF Writes, ElectionResult

\* What is not written by what is about elections.
KeptBy(c, r) ==
    /\ r.epoch = c.epoch /\ r.awards = c.awards /\ r.cache = c.cache

\* The election result without a slashed cheater.
Slashed(e, cheater) ==
    IF cheater = NoValidator THEN e ELSE [e EXCEPT !.validators[cheater] = 0]

LEMMA SlashFacts ==
    ASSUME NEW c, NEW lsn \in Int, IsChain(c, lsn), NEW cheater
    PROVE  LET r == slash(c, lsn, cheater)
           IN  /\ Writes(c, r, lsn) /\ KeptBy(c, r) /\ r.offset = c.offset
               /\ ElectionResult(r) = Slashed(ElectionResult(c), cheater)
               /\ OnlyElection(c, r)
<1> DEFINE r == slash(c, lsn, cheater)
           e == [ElectionResult(c) EXCEPT !.validators[cheater] = 0]
<1>0. IsRecord(c)
  BY DEF IsChain
<1>1. CASE cheater = NoValidator
  <2>1. r = c
    BY <1>1 DEF slash
  <2>2. Writes(c, c, lsn)
    BY WroteNothing DEF Writes, IsChain
  <2> QED BY <1>1, <2>1, <2>2 DEF KeptBy, Slashed, OnlyElection
<1>2. CASE cheater # NoValidator
  <2>1. r = [c EXCEPT !.election_result = insert(c.election_result, lsn, Unit, e)]
    BY <1>2 DEF slash
  <2>2. Slashed(ElectionResult(c), cheater) = e
    BY <1>2 DEF Slashed
  <2> DEFINE E == insert(c.election_result, lsn, Unit, e)
  <2> HIDE DEF r, E
  <2>3. /\ IsRecord(r) /\ r.election_result = E /\ KeptBy(c, r) /\ r.offset = c.offset
        /\ OnlyElection(c, r)
    BY <1>0, <2>1 DEF IsRecord, Fields, MapNames, KeptBy, E, OnlyElection
  <2>4. Elects(c, r, lsn, e)
    BY <2>3 DEF E, Elects
  <2> HIDE DEF e
  <2>5. Writes(c, r, lsn) /\ ElectionResult(r) = e
    BY <2>4, ElectFacts
  <2> QED BY <2>2, <2>3, <2>5 DEF r
<1> QED BY <1>1, <1>2

SameElection(c, d) ==
    /\ ElectionResult(c).random = ElectionResult(d).random
    /\ ElectionResult(c).validators = ElectionResult(d).validators

LEMMA SameLeader ==
    ASSUME NEW c, NEW d, SameElection(c, d), NEW vc
    PROVE  select_leader(ElectionResult(c), vc) = select_leader(ElectionResult(d), vc)
  BY DEF SameElection, select_leader

LEMMA FailSkippedIsRun ==
    ASSUME NEW c, NEW lsn, NEW b, b.view_change \in Nat
    PROVE  \E g : SkipRun(g, c, lsn, b.view_change) /\ FailSkipped(c, lsn, b) = g[b.view_change]
<1> DEFINE g == CHOOSE h : SkipRun(h, c, lsn, b.view_change)
<1>1. SkipRun(g, c, lsn, b.view_change)
  BY SkipRunExists
<1>2. FailSkipped(c, lsn, b) = g[b.view_change]
  BY DEF FailSkipped, SkipRun
<1> HIDE DEF g
<1> QED BY <1>1, <1>2

\* What the steps of the loop write.
Skips(g, c, lsn, n) ==
    /\ g[0] = c.epoch_activity
    /\ \A i \in 0 .. n : Wrote(c.epoch_activity, g[i], Validators, lsn)
    /\ \A i \in 1 .. n : g[i].map =
          [g[i - 1].map EXCEPT ![select_leader(ElectionResult(c), i - 1)] = Failed]

LEMMA SkipRunWrites ==
    ASSUME NEW c, NEW lsn \in Int, IsChain(c, lsn), NEW n \in Nat, NEW g, SkipRun(g, c, lsn, n)
    PROVE  Skips(g, c, lsn, n)
<1> DEFINE a == c.epoch_activity
           T == {k \in Nat : k <= n => Wrote(a, g[k], Validators, lsn)}
           Leader(i) == select_leader(ElectionResult(c), i)
<1>1. /\ g[0] = a
      /\ \A k \in 1 .. n : g[k] = insert(g[k - 1], lsn, Leader(k - 1), Failed)
  BY DEF SkipRun
<1> HIDE DEF Leader
<1>2. Ready(a, Validators, lsn)
  BY ChainFacts
<1> HIDE DEF a
<1>3. 0 \in T
  BY <1>1, <1>2, WroteNothing
<1>4. ASSUME NEW k \in Nat, k + 1 <= n, Wrote(a, g[k], Validators, lsn)
      PROVE  /\ Wrote(a, g[k + 1], Validators, lsn)
             /\ g[k + 1].map = [g[k].map EXCEPT ![Leader(k)] = Failed]
  <2>1. k + 1 \in 1 .. n /\ (k + 1) - 1 = k
    BY <1>4
  <2>2. g[k + 1] = insert(g[k], lsn, Leader(k), Failed)
    BY <1>1, <2>1
  <2>3. Ready(g[k], Validators, lsn)
    BY <1>4, WroteReady
  <2>4. /\ Wrote(g[k], g[k + 1], Validators, lsn)
        /\ g[k + 1].map = [g[k].map EXCEPT ![Leader(k)] = Failed]
    BY <2>2, <2>3, InsertWrites
  <2>5. IsMap(a, Validators)
    BY <1>2 DEF Ready
  <2> QED BY <1>4, <2>4, <2>5, WroteTwice
<1>5. ASSUME NEW k \in Nat, k \in T PROVE k + 1 \in T
  <2> SUFFICES ASSUME k + 1 <= n PROVE Wrote(a, g[k + 1], Validators, lsn)
    OBVIOUS
  <2>1. Wrote(a, g[k], Validators, lsn)
    BY <1>5
  <2> QED BY <1>4, <2>1
<1>6. Nat \subseteq T
  <2> HIDE DEF T
  <2> QED BY <1>3, <1>5, NumberInduction
<1>7. ASSUME NEW i \in 1 .. n PROVE g[i].map = [g[i - 1].map EXCEPT ![Leader(i - 1)] = Failed]
  <2>1. i - 1 \in Nat /\ (i - 1) + 1 = i /\ (i - 1) + 1 <= n /\ i - 1 <= n
    OBVIOUS
  <2>2. Wrote(a, g[i - 1], Validators, lsn)
    BY <1>6, <2>1
  <2> QED BY <1>4, <2>1, <2>2
<1> QED BY <1>1, <1>6, <1>7 DEF a, Leader, Skips

LEMMA FailSkippedFacts ==
    ASSUME NEW c, NEW lsn \in Int, IsChain(c, lsn), NEW b, b.view_change \in Nat
    PROVE  /\ Wrote(c.epoch_activity, FailSkipped(c, lsn, b), Validators, lsn)
           /\ \A d : IsChain(d, lsn) /\ SameElection(c, d)
                       /\ d.epoch_activity.map = c.epoch_activity.map
                     => FailSkipped(d, lsn, b).map = FailSkipped(c, lsn, b).map
<1> DEFINE n == b.view_change
<1>1. PICK g : SkipRun(g, c, lsn, n) /\ FailSkipped(c, lsn, b) = g[n]
  BY FailSkippedIsRun
<1>0. n \in Nat
  OBVIOUS
<1>2. /\ g[0] = c.epoch_activity
      /\ \A i \in 0 .. n : Wrote(c.epoch_activity, g[i], Validators, lsn)
      /\ \A i \in 1 .. n : g[i].map =
            [g[i - 1].map EXCEPT ![select_leader(ElectionResult(c), i - 1)] = Failed]
  <2> HIDE DEF n
  <2>1. Skips(g, c, lsn, n)
    BY <1>0, <1>1, SkipRunWrites
  <2> QED BY <2>1 DEF Skips
<1>3. ASSUME NEW d, IsChain(d, lsn), SameElection(c, d),
             d.epoch_activity.map = c.epoch_activity.map
      PROVE  FailSkipped(d, lsn, b).map = FailSkipped(c, lsn, b).map
  <2>1. PICK h : SkipRun(h, d, lsn, n) /\ FailSkipped(d, lsn, b) = h[n]
    BY FailSkippedIsRun
  <2>2. /\ h[0] = d.epoch_activity
        /\ \A i \in 1 .. n : h[i].map =
              [h[i - 1].map EXCEPT ![select_leader(ElectionResult(d), i - 1)] = Failed]
    <3> HIDE DEF n
    <3>1. Skips(h, d, lsn, n)
      BY <1>0, <1>3, <2>1, SkipRunWrites
    <3> QED BY <3>1 DEF Skips
  <2> DEFINE T == {k \in Nat : k <= n => h[k].map = g[k].map}
  <2>3. 0 \in T
    BY <1>2, <1>3, <2>2
  <2>4. ASSUME NEW k \in Nat, k \in T PROVE k + 1 \in T
    <3> SUFFICES ASSUME k + 1 <= n PROVE h[k + 1].map = g[k + 1].map
      OBVIOUS
    <3>1. k + 1 \in 1 .. n /\ (k + 1) - 1 = k /\ h[k].map = g[k].map
      BY <2>4
    <3>2. select_leader(ElectionResult(c), k) = select_leader(ElectionResult(d), k)
      BY <1>3, SameLeader
    <3>3. h[k + 1].map = [h[k].map EXCEPT ![select_leader(ElectionResult(d), k)] = Failed]
      BY <2>2, <3>1
    <3>4. g[k + 1].map = [g[k].map EXCEPT ![select_leader(ElectionResult(c), k)] = Failed]
      BY <1>2, <3>1
    <3> QED BY <3>1, <3>2, <3>3, <3>4
  <2>5. Nat \subseteq T
    <3> HIDE DEF T
    <3> QED BY <2>3, <2>4, NumberInduction
  <2>6. h[n].map = g[n].map
    BY <2>5
  <2> QED BY <1>1, <2>1, <2>6
<1>4. n \in 0 .. n
  OBVIOUS
<1> QED BY <1>1, <1>2, <1>3, <1>4

LEMMA ActivityFacts ==
    ASSUME NEW c, NEW lsn \in Int, IsChain(c, lsn), NEW b, b.view_change \in Nat
    PROVE  LET r == UpdateActivity(c, lsn, b)
           IN  /\ Writes(c, r, lsn) /\ KeptBy(c, r) /\ r.offset = c.offset
               /\ \A f \in MapNames \ {"epoch_activity"} : r[f] = c[f]
<1> DEFINE a == FailSkipped(c, lsn, b)
           leader == select_leader(ElectionResult(c), b.view_change)
           p == IF a.map[leader] # NoValue THEN a ELSE insert(a, lsn, leader, Active)
           r == UpdateActivity(c, lsn, b)
<1>1. Wrote(c.epoch_activity, a, Validators, lsn) /\ IsRecord(c)
  BY FailSkippedFacts DEF IsChain
<1>2. r = [c EXCEPT !.epoch_activity = p]
  BY DEF UpdateActivity
<1> HIDE DEF a, leader, r
<1>3. Wrote(a, insert(a, lsn, leader, Active), Validators, lsn) /\ IsMap(c.epoch_activity, Validators)
  BY <1>1, WroteReady, InsertWrites, ChainFacts DEF Ready
<1>4. Wrote(c.epoch_activity, p, Validators, lsn)
  BY <1>1, <1>3, WroteTwice
<1> HIDE DEF p
<1>5. /\ IsRecord(r) /\ r.epoch_activity = p /\ KeptBy(c, r) /\ r.offset = c.offset
      /\ \A f \in MapNames \ {"epoch_activity"} : r[f] = c[f]
  BY <1>1, <1>2 DEF IsRecord, Fields, MapNames, KeptBy
<1>6. ASSUME NEW f \in MapNames PROVE Wrote(c[f], r[f], KeysOf[f], lsn)
  <2>1. CASE f = "epoch_activity"
    BY <1>4, <1>5, <2>1, KeysFacts
  <2>2. CASE f # "epoch_activity"
    <3>1. r[f] = c[f] /\ Ready(c[f], KeysOf[f], lsn)
      BY <1>5, <2>2 DEF IsChain
    <3> QED BY <3>1, WroteNothing
  <2> QED BY <2>1, <2>2
<1> QED BY <1>5, <1>6 DEF Writes, r

LEMMA ActivitySame ==
    ASSUME NEW c, NEW d, NEW lsn \in Int, IsChain(c, lsn), IsChain(d, lsn),
           NEW b, b.view_change \in Nat, SameElection(c, d),
           d.epoch_activity.map = c.epoch_activity.map
    PROVE  UpdateActivity(d, lsn, b).epoch_activity.map = UpdateActivity(c, lsn, b).epoch_activity.map
<1> DEFINE A(x) == FailSkipped(x, lsn, b)
           leader == select_leader(ElectionResult(c), b.view_change)
           P(x) == IF A(x).map[leader] # NoValue THEN A(x) ELSE insert(A(x), lsn, leader, Active)
<1>1. A(c).map = A(d).map
  BY FailSkippedFacts
<1>2. select_leader(ElectionResult(d), b.view_change) = leader
  BY SameLeader
<1>3. Wrote(c.epoch_activity, A(c), Validators, lsn) /\ Wrote(d.epoch_activity, A(d), Validators, lsn)
  BY FailSkippedFacts
<1>4. IsRecord(c) /\ IsRecord(d)
  BY DEF IsChain
<1>5. UpdateActivity(c, lsn, b).epoch_activity = P(c)
  BY <1>4 DEF UpdateActivity, IsRecord, Fields, MapNames
<1>6. UpdateActivity(d, lsn, b) = [d EXCEPT !.epoch_activity = P(d)]
  BY <1>2 DEF UpdateActivity
<1>7. UpdateActivity(d, lsn, b).epoch_activity = P(d)
  <2> HIDE DEF P
  <2> QED BY <1>4, <1>6 DEF IsRecord, Fields, MapNames
<1> HIDE DEF A, leader, P
<1>0. Ready(A(c), Validators, lsn) /\ Ready(A(d), Validators, lsn)
  BY <1>3, WroteReady
<1>8. /\ insert(A(c), lsn, leader, Active).map = [A(c).map EXCEPT ![leader] = Active]
      /\ insert(A(d), lsn, leader, Active).map = [A(d).map EXCEPT ![leader] = Active]
  <2>1. ASSUME NEW m, Ready(m, Validators, lsn)
        PROVE  insert(m, lsn, leader, Active).map = [m.map EXCEPT ![leader] = Active]
    BY <2>1, InsertWrites
  <2> QED BY <1>0, <2>1
<1>9. P(c).map = P(d).map
  BY <1>1, <1>8 DEF P
<1> QED BY <1>5, <1>7, <1>9

\* The election result after a micro block.
ElectedBy(e, b) == [Slashed(e, b.cheater) EXCEPT !.view_change = 0, !.random = b.random]

\* The activity after a micro block.
ActivityAfter(c, lsn, b) ==
    UpdateActivity(slash(c, lsn, b.cheater), lsn, b).epoch_activity.map

LEMMA TransactionsFacts ==
    ASSUME NEW c, NEW lsn \in Int, IsChain(c, lsn), NEW b, IsMicro(b)
    PROVE  LET r == RegisterTransactions(c, lsn, b)
           IN  /\ Writes(c, r, lsn) /\ KeptBy(c, r) /\ r.offset = c.offset
               /\ current_lsn(r.block_by_hash) = lsn
               /\ ElectionResult(r) = Slashed(ElectionResult(c), b.cheater)
               /\ r.block_by_hash.map = [c.block_by_hash.map EXCEPT ![lsn] = b]
               /\ r.output_by_hash.map = Moved(c.output_by_hash.map, b.ins, NewOutputs(b.outs, lsn))
               /\ r.escrow.map = Moved(c.escrow.map, b.ins, NewStakes(b.outs, c.epoch))
               /\ r.balance.map = [c.balance.map EXCEPT ![Unit] = c.balance.map[Unit] + BlockReward]
               /\ r.epoch_activity.map = ActivityAfter(c, lsn, b)
<1> DEFINE s == slash(c, lsn, b.cheater)
           u == UpdateActivity(s, lsn, b)
           r == register_inputs_and_outputs(u, lsn, b, b.ins, b.outs, BlockReward)
<1>1. r = RegisterTransactions(c, lsn, b) /\ u.epoch_activity.map = ActivityAfter(c, lsn, b)
  BY DEF RegisterTransactions, ActivityAfter
<1>2. b.ins \in SUBSET Utxos /\ b.outs \in SUBSET Utxos /\ b.view_change \in Nat
      /\ c.epoch \in Nat /\ c.offset \in Nat
  BY DEF IsMicro, IsChain
<1>3. /\ Writes(c, s, lsn) /\ KeptBy(c, s) /\ s.offset = c.offset
      /\ ElectionResult(s) = Slashed(ElectionResult(c), b.cheater)
      /\ OnlyElection(c, s)
  BY SlashFacts
<1> HIDE DEF s
<1>4. IsChain(s, lsn) /\ \A x : Writes(s, x, lsn) => Writes(c, x, lsn)
  BY <1>2, <1>3, WritesFacts DEF KeptBy
<1>5. /\ Writes(s, u, lsn) /\ KeptBy(s, u) /\ u.offset = s.offset
      /\ \A f \in MapNames \ {"epoch_activity"} : u[f] = s[f]
  BY <1>2, <1>4, ActivityFacts
<1> HIDE DEF u
<1>6. Writes(c, u, lsn) /\ u.epoch \in Nat /\ u.offset \in Nat /\ u.epoch = c.epoch
  BY <1>2, <1>3, <1>4, <1>5 DEF KeptBy
<1>7. IsChain(u, lsn) /\ \A x : Writes(u, x, lsn) => Writes(c, x, lsn)
  BY <1>6, WritesFacts
<1>8. /\ u.block_by_hash = c.block_by_hash /\ u.output_by_hash = c.output_by_hash
      /\ u.escrow = c.escrow /\ u.balance = c.balance
      /\ u.election_result = s.election_result
  BY <1>3, <1>5 DEF OnlyElection, MapNames
<1>9. /\ Writes(u, r, lsn)
      /\ r.epoch = u.epoch /\ r.offset = u.offset /\ r.awards = u.awards
      /\ r.cache = u.cache /\ r.election_result = u.election_result
      /\ r.epoch_activity = u.epoch_activity
      /\ r.block_by_hash.map = [u.block_by_hash.map EXCEPT ![lsn] = b]
      /\ current_lsn(r.block_by_hash) = lsn
      /\ r.output_by_hash.map = Moved(u.output_by_hash.map, b.ins, NewOutputs(b.outs, lsn))
      /\ r.escrow.map = Moved(u.escrow.map, b.ins, NewStakes(b.outs, u.epoch))
      /\ r.balance.map = [u.balance.map EXCEPT ![Unit] = u.balance.map[Unit] + BlockReward]
  BY <1>2, <1>7, InputsFacts
<1> HIDE DEF r
<1>10. /\ Writes(c, r, lsn) /\ KeptBy(c, r) /\ r.offset = c.offset
  BY <1>3, <1>5, <1>7, <1>9 DEF KeptBy
<1>11. ElectionResult(r) = Slashed(ElectionResult(c), b.cheater)
  BY <1>3, <1>8, <1>9 DEF ElectionResult
<1> QED BY <1>1, <1>6, <1>8, <1>9, <1>10, <1>11

\* r is c after a micro block.
AfterMicro(c, r, lsn, b) ==
    /\ Writes(c, r, lsn) /\ KeptBy(c, r) /\ r.offset = c.offset + 1
    /\ r.view_change_proof = FALSE
    /\ current_lsn(r.block_by_hash) = lsn /\ current_lsn(r.election_result) = lsn
    /\ ElectionResult(r) = ElectedBy(ElectionResult(c), b)
    /\ r.election_result.map = [k \in {Unit} |-> ElectedBy(ElectionResult(c), b)]
    /\ r.block_by_hash.map = [c.block_by_hash.map EXCEPT ![lsn] = b]
    /\ r.output_by_hash.map = Moved(c.output_by_hash.map, b.ins, NewOutputs(b.outs, lsn))
    /\ r.escrow.map = Moved(c.escrow.map, b.ins, NewStakes(b.outs, c.epoch))
    /\ r.balance.map = [c.balance.map EXCEPT ![Unit] = c.balance.map[Unit] + BlockReward]
    /\ r.epoch_activity.map = ActivityAfter(c, lsn, b)

\* lsn is that of the next block of c.
AtEnd(c, lsn) == lsn \in Int /\ IsChain(c, lsn) /\ lsn = LSN(c.epoch, c.offset)

LEMMA MicroFacts ==
    ASSUME NEW c, NEW lsn, AtEnd(c, lsn), NEW b, IsMicro(b)
    PROVE  AfterMicro(c, register_micro_block(c, b), lsn, b)
<1> DEFINE t == RegisterTransactions(c, lsn, b)
           e == [ElectionResult(t) EXCEPT !.view_change = 0, !.random = b.random]
           E == insert(t.election_result, lsn, Unit, e)
           r == register_micro_block(c, b)
<1>0. lsn \in Int /\ IsChain(c, lsn) /\ lsn = LSN(c.epoch, c.offset)
  BY DEF AtEnd
<1>1. /\ Writes(c, t, lsn) /\ KeptBy(c, t) /\ t.offset = c.offset
      /\ current_lsn(t.block_by_hash) = lsn
      /\ ElectionResult(t) = Slashed(ElectionResult(c), b.cheater)
      /\ t.block_by_hash.map = [c.block_by_hash.map EXCEPT ![lsn] = b]
      /\ t.output_by_hash.map = Moved(c.output_by_hash.map, b.ins, NewOutputs(b.outs, lsn))
      /\ t.escrow.map = Moved(c.escrow.map, b.ins, NewStakes(b.outs, c.epoch))
      /\ t.balance.map = [c.balance.map EXCEPT ![Unit] = c.balance.map[Unit] + BlockReward]
      /\ t.epoch_activity.map = ActivityAfter(c, lsn, b)
  BY <1>0, TransactionsFacts
<1>2. r = [t EXCEPT !.offset = @ + 1, !.election_result = E, !.view_change_proof = FALSE]
  BY <1>0 DEF register_micro_block
<1> HIDE DEF t, r
<1>3. e = ElectedBy(ElectionResult(c), b)
  BY <1>1 DEF ElectedBy
<1>4. c.epoch \in Nat /\ c.offset \in Nat /\ IsRecord(t)
  BY <1>0, <1>1 DEF IsChain, Writes
<1>5. IsChain(t, lsn) /\ \A x : Writes(t, x, lsn) => Writes(c, x, lsn)
  BY <1>0, <1>1, <1>4, WritesFacts DEF KeptBy
<1> HIDE DEF E, e
<1>6. /\ IsRecord(r) /\ r.election_result = E /\ r.offset = t.offset + 1
      /\ r.view_change_proof = FALSE /\ KeptBy(t, r) /\ OnlyElection(t, r)
  BY <1>2, <1>4 DEF IsRecord, Fields, MapNames, KeptBy, OnlyElection
<1>7. Elects(t, r, lsn, e)
  BY <1>6 DEF E, Elects
<1>8. /\ Writes(t, r, lsn) /\ ElectionResult(r) = e /\ current_lsn(r.election_result) = lsn
      /\ r.election_result.map = [t.election_result.map EXCEPT ![Unit] = e]
  BY <1>0, <1>5, <1>7, ElectFacts
<1>9. r.election_result.map = [k \in {Unit} |-> e]
  <2>1. t.election_result.map = [k \in {Unit} |-> t.election_result.map[k]]
    BY <1>5, ChainFacts DEF Ready, IsMap
  <2> QED BY <1>8, <2>1
<1>10. /\ r.block_by_hash = t.block_by_hash /\ r.output_by_hash = t.output_by_hash
       /\ r.escrow = t.escrow /\ r.balance = t.balance /\ r.epoch_activity = t.epoch_activity
  BY <1>6 DEF OnlyElection, MapNames
<1>11. KeptBy(c, r) /\ Writes(c, r, lsn) /\ r.offset = c.offset + 1
  BY <1>1, <1>5, <1>6, <1>8 DEF KeptBy
<1> QED BY <1>1, <1>3, <1>6, <1>8, <1>9, <1>10, <1>11 DEF r, AfterMicro

LEMMA ElectedByFacts ==
    ASSUME NEW e, IsElected(e), NEW b
    PROVE  /\ IsElected(ElectedBy(e, b)) /\ ElectedBy(e, b).view_change = 0
           /\ \A d : IsElected(d) /\ d.random = e.random /\ d.validators = e.validators
                     => ElectedBy(d, b) = ElectedBy(e, b)
<1> DEFINE V(x) == IF b.cheater = NoValidator THEN x.validators
                   ELSE [x.validators EXCEPT ![b.cheater] = 0]
           R(x) == [random |-> b.random, view_change |-> 0, validators |-> V(x)]
<1>1. ASSUME NEW x, IsElected(x) PROVE ElectedBy(x, b) = R(x)
  <2> DEFINE s == Slashed(x, b.cheater)
             v == V(x)
  <2>1. IsElected(s) /\ s.validators = v
    <3>1. CASE b.cheater = NoValidator
      BY <1>1, <3>1 DEF Slashed
    <3>2. CASE b.cheater # NoValidator
      <4>1. s = [x EXCEPT !.validators = v]
        BY <3>2 DEF Slashed
      <4> HIDE DEF s, v
      <4> QED BY <1>1, <4>1 DEF IsElected
    <3> QED BY <3>1, <3>2
  <2> HIDE DEF s, v
  <2> DEFINE q == [s EXCEPT !.view_change = 0, !.random = b.random]
  <2>2. IsElected(q) /\ q.random = b.random /\ q.view_change = 0 /\ q.validators = v
    BY <2>1 DEF IsElected
  <2>3. q = ElectedBy(x, b)
    BY DEF ElectedBy, s
  <2> HIDE DEF q
  <2>4. q = [random |-> q.random, view_change |-> q.view_change, validators |-> q.validators]
    BY <2>2 DEF IsElected
  <2> QED BY <2>2, <2>3, <2>4 DEF v
<1>2. ElectedBy(e, b) = R(e)
  BY <1>1
<1>3. IsElected(R(e)) /\ R(e).view_change = 0
  <2> HIDE DEF V
  <2> QED BY DEF IsElected
<1>4. ASSUME NEW d, IsElected(d), d.random = e.random, d.validators = e.validators
      PROVE  ElectedBy(d, b) = ElectedBy(e, b)
  <2>1. V(d) = V(e)
    BY <1>4
  <2>2. ElectedBy(d, b) = R(d)
    BY <1>1, <1>4
  <2> HIDE DEF V
  <2> QED BY <1>2, <2>1, <2>2
<1> QED BY <1>2, <1>3, <1>4

SameMaps(c, d) ==
    /\ c.block_by_hash.map = d.block_by_hash.map
    /\ c.output_by_hash.map = d.output_by_hash.map
    /\ c.balance.map = d.balance.map
    /\ c.escrow.map = d.escrow.map
    /\ c.epoch_activity.map = d.epoch_activity.map

\* c and d have the same contents and can differ in their logs and in the number
\* of the view change.
Same(c, d) ==
    /\ c.epoch = d.epoch /\ c.offset = d.offset
    /\ SameMaps(c, d) /\ SameElection(c, d)

\* A micro block does the same to both.
LEMMA MicroSame ==
    ASSUME NEW c, NEW d, NEW lsn, AtEnd(c, lsn), IsChain(d, lsn), Same(c, d),
           IsElected(ElectionResult(c)), IsElected(ElectionResult(d)),
           NEW b, IsMicro(b)
    PROVE  LET r == register_micro_block(c, b)
               s == register_micro_block(d, b)
           IN  /\ Same(r, s) /\ r.election_result.map = s.election_result.map
               /\ IsElected(ElectionResult(r)) /\ view_change(r) = 0
<1> DEFINE r == register_micro_block(c, b)
           s == register_micro_block(d, b)
<1>0. AtEnd(d, lsn) /\ lsn \in Int /\ IsChain(c, lsn) /\ IsChain(d, lsn)
  BY DEF Same, AtEnd
<1>1. AfterMicro(c, r, lsn, b)
  BY MicroFacts
<1>2. AfterMicro(d, s, lsn, b)
  BY <1>0, MicroFacts
<1> HIDE DEF r, s
<1>3. /\ ElectedBy(ElectionResult(c), b) = ElectedBy(ElectionResult(d), b)
      /\ IsElected(ElectedBy(ElectionResult(c), b))
      /\ ElectedBy(ElectionResult(c), b).view_change = 0
  BY ElectedByFacts DEF Same, SameElection
<1>4. ActivityAfter(c, lsn, b) = ActivityAfter(d, lsn, b)
  <2> DEFINE x == slash(c, lsn, b.cheater)
             y == slash(d, lsn, b.cheater)
  <2>1. /\ Writes(c, x, lsn) /\ KeptBy(c, x) /\ x.offset = c.offset
        /\ ElectionResult(x) = Slashed(ElectionResult(c), b.cheater) /\ OnlyElection(c, x)
    BY <1>0, SlashFacts
  <2>2. /\ Writes(d, y, lsn) /\ KeptBy(d, y) /\ y.offset = d.offset
        /\ ElectionResult(y) = Slashed(ElectionResult(d), b.cheater) /\ OnlyElection(d, y)
    BY <1>0, SlashFacts
  <2> HIDE DEF x, y
  <2>3. IsChain(x, lsn) /\ IsChain(y, lsn)
    <3>1. x.epoch \in Nat /\ x.offset \in Nat /\ y.epoch \in Nat /\ y.offset \in Nat
      BY <1>0, <2>1, <2>2 DEF KeptBy, IsChain
    <3> QED BY <1>0, <2>1, <2>2, <3>1, WritesFacts
  <2>4. x.epoch_activity = c.epoch_activity /\ y.epoch_activity = d.epoch_activity
    BY <2>1, <2>2 DEF OnlyElection, MapNames
  <2>5. SameElection(x, y)
    <3>1. /\ ElectionResult(c).random = ElectionResult(d).random
          /\ ElectionResult(c).validators = ElectionResult(d).validators
      BY DEF Same, SameElection
    <3> DEFINE g == ElectionResult(c)
               h == ElectionResult(d)
    <3>2. IsElected(g) /\ IsElected(h) /\ g.random = h.random /\ g.validators = h.validators
      BY <3>1
    <3> HIDE DEF g, h
    <3>3. /\ Slashed(g, b.cheater).random = Slashed(h, b.cheater).random
          /\ Slashed(g, b.cheater).validators = Slashed(h, b.cheater).validators
      BY <3>2 DEF Slashed, IsElected
    <3> QED BY <2>1, <2>2, <3>3 DEF SameElection, g, h
  <2>6. x.epoch_activity.map = y.epoch_activity.map
    BY <2>4 DEF Same, SameMaps
  <2>7. UpdateActivity(y, lsn, b).epoch_activity.map = UpdateActivity(x, lsn, b).epoch_activity.map
    BY <1>0, <2>3, <2>5, <2>6, ActivitySame DEF IsMicro
  <2> QED BY <2>7 DEF ActivityAfter, x, y
<1>5. SameMaps(r, s)
  BY <1>1, <1>2, <1>4 DEF Same, SameMaps, AfterMicro
<1>6. r.epoch = s.epoch /\ r.offset = s.offset
  BY <1>1, <1>2 DEF Same, KeptBy, AfterMicro
<1>7. ElectionResult(r) = ElectionResult(s) /\ r.election_result.map = s.election_result.map
  BY <1>1, <1>2, <1>3 DEF AfterMicro
<1>8. Same(r, s)
  BY <1>5, <1>6, <1>7 DEF Same, SameElection
<1> QED BY <1>1, <1>3, <1>7, <1>8 DEF r, s, view_change, AfterMicro

-----------------------------------------------------------------------------
(* Macro blocks *)

MacroLsn(c) == LSN(c.epoch, MACRO_BLOCK_OFFSET)

\* The last checkpoints are not after lsn.
Stamped(c, lsn) == \A f \in MapNames : c[f].checkpoint_lsn <= lsn

\* r is c after UpdateMetadata of the macro block b.
AfterMacro(c, r, b) ==
    LET lsn == MacroLsn(c)
        ins == b.ins \ b.outs
        outs == b.outs \ b.ins
    IN  /\ Writes(c, r, lsn)
        /\ r.epoch = c.epoch + 1 /\ r.offset = 0
        /\ r.view_change_proof = c.view_change_proof
        /\ r.awards = (IF c.epoch = 0 THEN c.awards ELSE AwardsOfMacroBlock(c, b).awards)
        /\ r.cache = cache_push_block(c.cache, b)
        /\ current_lsn(r.block_by_hash) = lsn /\ current_lsn(r.election_result) = lsn
        /\ r.election_result.map =
              [k \in {Unit} |-> next_election_result(RegisterOutputs(c, b), b.random)]
        /\ r.block_by_hash.map = [c.block_by_hash.map EXCEPT ![lsn] = b]
        /\ r.output_by_hash.map = Moved(c.output_by_hash.map, ins, NewOutputs(outs, lsn))
        /\ r.escrow.map = Moved(c.escrow.map, ins, NewStakes(outs, c.epoch))
        /\ r.balance.map = [c.balance.map EXCEPT ![Unit] = c.balance.map[Unit] + b.reward]
        /\ r.epoch_activity = c.epoch_activity

LEMMA MetadataFacts ==
    ASSUME NEW c, IsChain(c, MacroLsn(c)), NEW b, IsMacro(b)
    PROVE  /\ AfterMacro(c, UpdateMetadata(c, b), b)
           /\ RegisterOutputs(c, b).epoch = c.epoch
           /\ RegisterOutputs(c, b).escrow.map
                = Moved(c.escrow.map, b.ins \ b.outs, NewStakes(b.outs \ b.ins, c.epoch))
<1> DEFINE lsn == MacroLsn(c)
           ins == b.ins \ b.outs
           outs == b.outs \ b.ins
           t == RegisterOutputs(c, b)
           e == next_election_result(t, b.random)
           E == insert(t.election_result, lsn, Unit, e)
           A == IF c.epoch = 0 THEN t.awards ELSE AwardsOfMacroBlock(c, b).awards
           r == UpdateMetadata(c, b)
<1>0. c.epoch \in Nat /\ c.offset \in Nat /\ lsn \in Int /\ IsChain(c, lsn)
      /\ ins \in SUBSET Utxos /\ outs \in SUBSET Utxos
  BY LsnFacts DEF IsChain, MacroLsn, IsMacro
<1>1. t = register_inputs_and_outputs(c, lsn, b, ins, outs, b.reward)
  BY DEF RegisterOutputs, MacroLsn
<1>2. r = [t EXCEPT !.awards = A, !.epoch = @ + 1, !.offset = 0,
                    !.cache = cache_push_block(@, b), !.election_result = E]
  BY DEF UpdateMetadata, MacroLsn
<1> HIDE DEF lsn, ins, outs, t, r
<1>3. /\ Writes(c, t, lsn)
      /\ t.epoch = c.epoch /\ t.offset = c.offset /\ t.awards = c.awards
      /\ t.cache = c.cache /\ t.view_change_proof = c.view_change_proof
      /\ t.election_result = c.election_result
      /\ t.epoch_activity = c.epoch_activity
      /\ t.block_by_hash.map = [c.block_by_hash.map EXCEPT ![lsn] = b]
      /\ current_lsn(t.block_by_hash) = lsn
      /\ t.output_by_hash.map = Moved(c.output_by_hash.map, ins, NewOutputs(outs, lsn))
      /\ t.escrow.map = Moved(c.escrow.map, ins, NewStakes(outs, c.epoch))
      /\ t.balance.map = [c.balance.map EXCEPT ![Unit] = c.balance.map[Unit] + b.reward]
  <2>1. IsChain(c, lsn) /\ lsn \in Int /\ ins \in SUBSET Utxos /\ outs \in SUBSET Utxos
    BY <1>0
  <2> QED BY <1>1, <2>1, InputsFacts
<1>4. IsChain(t, lsn) /\ \A x : Writes(t, x, lsn) => Writes(c, x, lsn)
  BY <1>0, <1>3, WritesFacts
<1>5. IsRecord(t)
  BY <1>4 DEF IsChain
<1> HIDE DEF E, A
<1>6. /\ IsRecord(r) /\ r.election_result = E /\ r.offset = 0 /\ r.epoch = t.epoch + 1
      /\ r.view_change_proof = t.view_change_proof /\ OnlyElection(t, r)
      /\ r.awards = A /\ r.cache = cache_push_block(t.cache, b)
  BY <1>2, <1>5 DEF IsRecord, Fields, MapNames, OnlyElection
<1> HIDE DEF e
<1>7. Elects(t, r, lsn, e)
  BY <1>6 DEF E, Elects
<1>8. /\ Writes(t, r, lsn) /\ ElectionResult(r) = e /\ current_lsn(r.election_result) = lsn
      /\ r.election_result.map = [t.election_result.map EXCEPT ![Unit] = e]
  BY <1>0, <1>4, <1>7, ElectFacts
<1>9. r.election_result.map = [k \in {Unit} |-> e]
  <2>1. t.election_result.map = [k \in {Unit} |-> t.election_result.map[k]]
    BY <1>4, ChainFacts DEF Ready, IsMap
  <2> QED BY <1>8, <2>1
<1>10. /\ r.block_by_hash = t.block_by_hash /\ r.output_by_hash = t.output_by_hash
       /\ r.escrow = t.escrow /\ r.balance = t.balance /\ r.epoch_activity = t.epoch_activity
  BY <1>6 DEF OnlyElection, MapNames
<1>11. Writes(c, r, lsn)
  BY <1>4, <1>8
<1>12. r.awards = IF c.epoch = 0 THEN c.awards ELSE AwardsOfMacroBlock(c, b).awards
  BY <1>3, <1>6 DEF A
<1>13. AfterMacro(c, r, b)
  BY <1>3, <1>6, <1>8, <1>9, <1>10, <1>11, <1>12 DEF AfterMacro, lsn, ins, outs, e, t
<1> QED BY <1>3, <1>13 DEF r, t, ins, outs

\* What is elected, and who is awarded, is a matter of the contents.
LEMMA ElectionSame ==
    ASSUME NEW c, NEW d, c.epoch = d.epoch, c.escrow.map = d.escrow.map, NEW random
    PROVE  next_election_result(c, random) = next_election_result(d, random)
<1>1. \A v, e : ActiveStakes(c, v, e) = ActiveStakes(d, v, e)
  BY DEF ActiveStakes, StakesOf
<1>2. \A e : get_stakers_majority(c, e) = get_stakers_majority(d, e)
  BY <1>1 DEF get_stakers_majority
<1> QED BY <1>2 DEF next_election_result

LEMMA ElectionFacts ==
    ASSUME NEW c, NEW random
    PROVE  /\ IsElected(next_election_result(c, random))
           /\ next_election_result(c, random).view_change = 0
<1> DEFINE s == get_stakers_majority(c, c.epoch + 1)
           v == select_validators_slots(s, random).validators
<1>1. select_validators_slots(s, random)
        = [random |-> random, view_change |-> 0, validators |-> v]
  BY DEF select_validators_slots
<1>2. next_election_result(c, random) = select_validators_slots(s, random)
  BY DEF next_election_result
<1> HIDE DEF s, v
<1> QED BY <1>1, <1>2 DEF IsElected

LEMMA AwardsSame ==
    ASSUME NEW c, NEW d, c.awards = d.awards, c.escrow.map = d.escrow.map,
           election_result_by_offset(c, 0) = election_result_by_offset(d, 0), NEW b
    PROVE  AwardsOfMacroBlock(c, b) = AwardsOfMacroBlock(d, b)
<1>1. \A v : StakesOf(c, v) = StakesOf(d, v)
  BY DEF StakesOf
<1>2. validators_at_epoch_start(c) = validators_at_epoch_start(d)
  BY DEF validators_at_epoch_start
<1>3. epoch_activity_from_macro_block(c, b.activity_map)
        = epoch_activity_from_macro_block(d, b.activity_map)
  BY <1>1, <1>2 DEF epoch_activity_from_macro_block
<1> QED BY <1>3 DEF AwardsOfMacroBlock

\* c and d have the same contents at the beginning of an epoch.
SameEpoch(c, d) ==
    /\ c.epoch = d.epoch /\ SameMaps(c, d)
    /\ c.awards = d.awards /\ c.cache = d.cache
    /\ election_result_by_offset(c, 0) = election_result_by_offset(d, 0)

LEMMA MacroSame ==
    ASSUME NEW c, NEW d, IsChain(c, MacroLsn(c)), IsChain(d, MacroLsn(d)),
           SameEpoch(c, d), NEW b, IsMacro(b)
    PROVE  LET r == UpdateMetadata(c, b)
               s == UpdateMetadata(d, b)
           IN  /\ Same(r, s) /\ r.election_result.map = s.election_result.map
               /\ r.awards = s.awards /\ r.cache = s.cache
<1> DEFINE r == UpdateMetadata(c, b)
           s == UpdateMetadata(d, b)
           x == RegisterOutputs(c, b)
           y == RegisterOutputs(d, b)
<1>1. AfterMacro(c, r, b) /\ AfterMacro(d, s, b)
  BY MetadataFacts
<1>2. x.epoch = y.epoch /\ x.escrow.map = y.escrow.map
  <2> DEFINE ins == b.ins \ b.outs
             outs == b.outs \ b.ins
  <2>1. x.epoch = c.epoch /\ x.escrow.map = Moved(c.escrow.map, ins, NewStakes(outs, c.epoch))
    BY MetadataFacts
  <2>2. y.epoch = d.epoch /\ y.escrow.map = Moved(d.escrow.map, ins, NewStakes(outs, d.epoch))
    BY MetadataFacts
  <2> HIDE DEF x, y, ins, outs
  <2> QED BY <2>1, <2>2 DEF SameEpoch, SameMaps
<1>3. next_election_result(x, b.random) = next_election_result(y, b.random)
  <2> HIDE DEF x, y
  <2> QED BY <1>2, ElectionSame
<1>4. AwardsOfMacroBlock(c, b) = AwardsOfMacroBlock(d, b)
  BY AwardsSame DEF SameEpoch, SameMaps
<1>5. MacroLsn(c) = MacroLsn(d)
  BY DEF SameEpoch, MacroLsn
<1> HIDE DEF r, s
<1>6. /\ SameMaps(r, s) /\ r.election_result.map = s.election_result.map
      /\ r.epoch = s.epoch /\ r.offset = s.offset /\ r.awards = s.awards /\ r.cache = s.cache
  BY <1>1, <1>3, <1>4, <1>5 DEF AfterMacro, SameEpoch, SameMaps
<1> QED BY <1>6 DEF Same, SameElection, ElectionResult, r, s

\* A chain as a macro block leaves it: its logs are empty, and the last
\* checkpoint is that of the block.
IsBase(c) ==
    LET lsn == PreviousLsn(c.epoch, 0)
    IN  /\ IsRecord(c) /\ c.epoch \in Nat /\ c.offset = 0
        /\ \A f \in MapNames, l \in Int :
              Ready(c[f], KeysOf[f], l) /\ At(c[f], l) = c[f].map
        /\ Stamped(c, lsn)
        /\ HasLsn(c.block_by_hash, lsn) /\ HasLsn(c.election_result, lsn)
        /\ IsElected(ElectionResult(c)) /\ view_change(c) = 0

LEMMA CurrentLsnUpTo ==
    ASSUME NEW K, NEW m, NEW lsn \in Int, Ready(m, K, lsn), m.checkpoint_lsn <= lsn
    PROVE  current_lsn(m) \in Int /\ current_lsn(m) <= lsn
<1>1. IsMap(m, K) /\ UpTo(m, lsn) /\ Len(m.undo) \in Nat
  BY LenIsNat DEF Ready
<1>2. CASE m.undo = <<>>
  BY <1>1, <1>2 DEF current_lsn, IsMap
<1>3. CASE m.undo # <<>>
  <2>1. Len(m.undo) \in 1 .. Len(m.undo)
    BY <1>1, <1>3 DEF IsMap
  <2> QED BY <1>1, <1>3, <2>1 DEF current_lsn, IsMap, UpTo
<1> QED BY <1>2, <1>3

\* r is c after register_macro_block, and q before the maps are finalized.
LEMMA MacroFacts ==
    ASSUME NEW c, IsChain(c, MacroLsn(c)), Stamped(c, MacroLsn(c)), NEW b, IsMacro(b)
    PROVE  LET q == UpdateMetadata(c, b)
               r == register_macro_block(c, b)
           IN  /\ IsBase(r)
               /\ r.epoch = c.epoch + 1 /\ r.offset = 0 /\ r.awards = q.awards
               /\ r.cache = cache_push_block(c.cache, b)
               /\ \A f \in MapNames \ {"epoch_activity"} : r[f].map = q[f].map
               /\ r.epoch_activity = new(Validators)
<1> DEFINE lsn == MacroLsn(c)
           q == UpdateMetadata(c, b)
           r == register_macro_block(c, b)
<1>0. c.epoch \in Nat /\ lsn \in Nat /\ IsChain(c, lsn) /\ Stamped(c, lsn)
      /\ lsn = PreviousLsn(c.epoch + 1, 0)
  BY LsnFacts DEF IsChain, MacroLsn
<1>1. AfterMacro(c, q, b)
  BY MetadataFacts
<1>2. /\ Writes(c, q, lsn) /\ q.epoch = c.epoch + 1 /\ q.offset = 0
      /\ q.cache = cache_push_block(c.cache, b)
      /\ current_lsn(q.block_by_hash) = lsn /\ current_lsn(q.election_result) = lsn
      /\ q.election_result.map =
              [k \in {Unit} |-> next_election_result(RegisterOutputs(c, b), b.random)]
  BY <1>1 DEF AfterMacro
<1>3. r = [q EXCEPT !.block_by_hash = checkpoint(q.block_by_hash),
                    !.output_by_hash = checkpoint(q.output_by_hash),
                    !.escrow = checkpoint(q.escrow),
                    !.election_result = checkpoint(q.election_result),
                    !.balance = checkpoint(q.balance),
                    !.epoch_activity = new(Validators)]
  BY DEF register_macro_block
<1> HIDE DEF lsn, q, r
<1>4. IsRecord(q)
  BY <1>2 DEF Writes
<1>5. /\ IsRecord(r) /\ r.epoch = q.epoch /\ r.offset = q.offset
      /\ r.awards = q.awards /\ r.cache = q.cache
      /\ r.epoch_activity = new(Validators)
      /\ r.block_by_hash = checkpoint(q.block_by_hash)
      /\ r.output_by_hash = checkpoint(q.output_by_hash)
      /\ r.escrow = checkpoint(q.escrow)
      /\ r.election_result = checkpoint(q.election_result)
      /\ r.balance = checkpoint(q.balance)
  BY <1>3, <1>4 DEF IsRecord, Fields, MapNames
<1>6. \A f \in MapNames \ {"epoch_activity"} : r[f] = checkpoint(q[f])
  BY <1>5 DEF MapNames
<1>7. ASSUME NEW f \in MapNames
      PROVE  Ready(q[f], KeysOf[f], lsn) /\ current_lsn(q[f]) \in Int /\ current_lsn(q[f]) <= lsn
  <2>1. Wrote(c[f], q[f], KeysOf[f], lsn)
    BY <1>2 DEF Writes
  <2>2. Ready(q[f], KeysOf[f], lsn)
    BY <2>1, WroteReady
  <2>3. q[f].checkpoint_lsn <= lsn
    BY <1>0, <2>1 DEF Wrote, Stamped
  <2> QED BY <1>0, <2>2, <2>3, CurrentLsnUpTo
<1>8. ASSUME NEW f \in MapNames, f # "epoch_activity"
      PROVE  /\ \A l \in Int : Ready(r[f], KeysOf[f], l) /\ At(r[f], l) = r[f].map
             /\ r[f].map = q[f].map /\ r[f].checkpoint_lsn = current_lsn(q[f])
             /\ HasLsn(r[f], current_lsn(q[f]))
  <2> DEFINE m == q[f]
             p == checkpoint(m)
  <2>1. r[f] = p
    BY <1>6, <1>8
  <2>2. IsMap(m, KeysOf[f]) /\ Sorted(m) /\ current_lsn(m) \in Int
    BY <1>7 DEF Ready
  <2> HIDE DEF m
  <2>3. /\ \A l \in Int : Ready(p, KeysOf[f], l) /\ At(p, l) = m.map
        /\ p.map = m.map /\ p.checkpoint_lsn = current_lsn(m)
        /\ HasLsn(p, current_lsn(m))
    BY <2>2, CheckpointFacts
  <2> HIDE DEF p
  <2> QED BY <2>1, <2>3 DEF m
<1>9. /\ \A l \in Int : Ready(r.epoch_activity, Validators, l)
                        /\ At(r.epoch_activity, l) = r.epoch_activity.map
      /\ r.epoch_activity.checkpoint_lsn = 0
  <2>1. /\ \A l \in Int : Ready(new(Validators), Validators, l)
                          /\ At(new(Validators), l) = [k \in Validators |-> NoValue]
        /\ new(Validators).map = [k \in Validators |-> NoValue]
        /\ new(Validators).checkpoint_lsn = 0
    BY NewFacts
  <2> QED BY <1>5, <2>1
<1>10. ASSUME NEW f \in MapNames
       PROVE  /\ \A l \in Int : Ready(r[f], KeysOf[f], l) /\ At(r[f], l) = r[f].map
              /\ r[f].checkpoint_lsn <= lsn
  <2>1. CASE f = "epoch_activity"
    BY <1>0, <1>9, <2>1, KeysFacts
  <2>2. CASE f # "epoch_activity"
    BY <1>7, <1>8, <2>2
  <2> QED BY <2>1, <2>2
<1>11. HasLsn(r.block_by_hash, lsn) /\ HasLsn(r.election_result, lsn)
  <2>1. "block_by_hash" \in MapNames /\ "election_result" \in MapNames
    BY DEF MapNames
  <2> QED BY <1>2, <1>8, <2>1
<1>12. IsElected(ElectionResult(r)) /\ view_change(r) = 0
  <2>1. "election_result" \in MapNames
    BY DEF MapNames
  <2>2. r.election_result.map = q.election_result.map
    BY <1>8, <2>1
  <2>3. ElectionResult(r) = next_election_result(RegisterOutputs(c, b), b.random)
    BY <1>2, <2>2 DEF ElectionResult
  <2> QED BY <2>3, ElectionFacts DEF view_change
<1>13. IsBase(r)
  BY <1>0, <1>2, <1>5, <1>10, <1>11, <1>12 DEF IsBase, Stamped
<1> QED BY <1>2, <1>5, <1>8, <1>13 DEF q, r

-----------------------------------------------------------------------------
(* The chain after some of the micro blocks of an epoch *)

IsMicros(s) == IsSeq(s) /\ \A i \in 1 .. Len(s) : IsMicro(s[i])

Ref(base, s, o) == RegisterMicros(base, SubSeq(s, 1, o))

Unrolls(base, s) ==
    /\ Ref(base, s, 0) = base
    /\ Ref(base, s, Len(s)) = RegisterMicros(base, s)
    /\ \A o \in 0 .. Len(s) - 1 :
          Ref(base, s, o + 1) = register_micro_block(Ref(base, s, o), s[o + 1])

LEMMA RefUnroll ==
    ASSUME NEW base, NEW s, IsSeq(s)
    PROVE  Unrolls(base, s)
<1> DEFINE S(o) == SubSeq(s, 1, o)
<1>1. Len(s) \in Nat /\ \A o \in 0 .. Len(s) : Len(S(o)) = o /\ \A i \in 1 .. o : S(o)[i] = s[i]
  BY SeqFacts DEF Begins
<1> HIDE DEF S
<1>2. RegisterMicros(base, S(0)) = base
  BY <1>1, RegisterMicrosUnroll
<1>3. RegisterMicros(base, S(Len(s))) = RegisterMicros(base, s)
  BY <1>1, RegisterMicrosUnroll
<1>4. ASSUME NEW o \in 0 .. Len(s) - 1
      PROVE  RegisterMicros(base, S(o + 1))
               = register_micro_block(RegisterMicros(base, S(o)), s[o + 1])
  <2>1. o \in 0 .. Len(s) /\ o + 1 \in 0 .. Len(s) /\ o + 1 \in 1 .. o + 1
        /\ \A i \in 1 .. o : i \in 1 .. o + 1
    BY <1>1
  <2>2. /\ Len(S(o)) = o /\ Len(S(o + 1)) = o + 1 /\ o \in Nat
        /\ \A i \in 1 .. o : S(o + 1)[i] = S(o)[i]
        /\ S(o + 1)[o + 1] = s[o + 1]
    BY <1>1, <2>1
  <2> QED BY <2>2, RegisterMicrosUnroll
<1> QED BY <1>2, <1>3, <1>4 DEF Ref, S, Unrolls

LEMMA RefSame ==
    ASSUME NEW base, NEW s, NEW t, IsSeq(s), IsSeq(t), NEW n \in Nat, Begins(s, t, n)
    PROVE  \A o \in 0 .. n : Ref(base, t, o) = Ref(base, s, o)
<1> SUFFICES ASSUME NEW o \in 0 .. n PROVE Ref(base, t, o) = Ref(base, s, o)
  OBVIOUS
<1> DEFINE x == SubSeq(s, 1, o)
           y == SubSeq(t, 1, o)
<1>1. o \in 0 .. Len(s) /\ o \in 0 .. Len(t) /\ \A i \in 1 .. o : t[i] = s[i]
  BY SeqFacts DEF Begins
<1>2. Len(x) = o /\ Len(y) = o /\ (\A i \in 1 .. o : x[i] = s[i]) /\ \A i \in 1 .. o : y[i] = t[i]
  BY <1>1, SeqFacts DEF Begins
<1> HIDE DEF x, y
<1>3. RegisterMicros(base, y) = RegisterMicros(base, x)
  BY <1>1, <1>2, RegisterMicrosUnroll
<1> QED BY <1>3 DEF Ref, x, y

\* x has o micro blocks on top of base, and no view change.
RefOK(x, base, o) ==
    /\ AtEnd(x, LSN(base.epoch, o))
    /\ x.epoch = base.epoch /\ x.offset = o
    /\ x.awards = base.awards /\ x.cache = base.cache
    /\ IsElected(ElectionResult(x)) /\ view_change(x) = 0

LEMMA ReadyLater ==
    ASSUME NEW c, NEW l \in Int, NEW k \in Int, l <= k, IsChain(c, l)
    PROVE  IsChain(c, k)
<1>1. ASSUME NEW f \in MapNames PROVE Ready(c[f], KeysOf[f], k)
  <2>1. Ready(c[f], KeysOf[f], l)
    BY DEF IsChain
  <2> QED BY <2>1 DEF Ready, UpTo, IsMap
<1> QED BY <1>1 DEF IsChain

LEMMA RefStep ==
    ASSUME NEW x, NEW base, NEW o \in Nat, base.epoch \in Nat, RefOK(x, base, o), NEW b, IsMicro(b)
    PROVE  RefOK(register_micro_block(x, b), base, o + 1)
<1> DEFINE lsn == LSN(base.epoch, o)
           r == register_micro_block(x, b)
<1>1. AtEnd(x, lsn) /\ IsChain(x, lsn) /\ lsn \in Int
  BY DEF RefOK, AtEnd
<1>2. LSN(base.epoch, o + 1) = lsn + 1 /\ LSN(base.epoch, o + 1) \in Int
  <2> DEFINE e == base.epoch
  <2>1. e \in Nat
    OBVIOUS
  <2> HIDE DEF e
  <2>2. LSN(e, o + 1) = LSN(e, o) + 1 /\ LSN(e, o) \in Nat
    BY <2>1, LsnOrder
  <2> QED BY <2>2 DEF e
<1> HIDE DEF lsn
<1>3. AfterMicro(x, r, lsn, b)
  BY <1>1, MicroFacts
<1> HIDE DEF r
<1>4. r.epoch = base.epoch /\ r.offset = o + 1 /\ r.awards = base.awards /\ r.cache = base.cache
  BY <1>3 DEF AfterMicro, KeptBy, RefOK
<1>5. IsChain(r, lsn)
  BY <1>1, <1>3, <1>4, WritesFacts DEF AfterMicro
<1>6. AtEnd(r, LSN(base.epoch, o + 1))
  BY <1>1, <1>2, <1>4, <1>5, ReadyLater DEF AtEnd
<1>7. IsElected(ElectionResult(r)) /\ view_change(r) = 0
  BY <1>3, ElectedByFacts DEF AfterMicro, RefOK, view_change
<1> QED BY <1>4, <1>6, <1>7 DEF RefOK, r

LEMMA BaseIsRef ==
    ASSUME NEW base, IsBase(base)
    PROVE  base.epoch \in Nat /\ RefOK(base, base, 0)
<1>1. base.epoch \in Nat /\ LSN(base.epoch, 0) \in Int
  BY LsnFacts DEF IsBase
<1>2. IsChain(base, LSN(base.epoch, 0))
  BY <1>1 DEF IsBase, IsChain
<1> QED BY <1>1, <1>2 DEF IsBase, RefOK, AtEnd

LEMMA RefFacts ==
    ASSUME NEW base, IsBase(base), NEW s, IsMicros(s)
    PROVE  \A o \in 0 .. Len(s) : RefOK(Ref(base, s, o), base, o)
<1>1. IsSeq(s) /\ Len(s) \in Nat
  BY SeqFacts DEF IsMicros
<1>0. /\ Ref(base, s, 0) = base
      /\ \A i \in 0 .. Len(s) - 1 :
            Ref(base, s, i + 1) = register_micro_block(Ref(base, s, i), s[i + 1])
  <2>1. Unrolls(base, s)
    BY <1>1, RefUnroll
  <2> QED BY <2>1 DEF Unrolls
<1> DEFINE T == {o \in Nat : o <= Len(s) => RefOK(Ref(base, s, o), base, o)}
<1>2. 0 \in T
  BY <1>0, BaseIsRef
<1>3. ASSUME NEW o \in Nat, o \in T PROVE o + 1 \in T
  <2> SUFFICES ASSUME o + 1 <= Len(s) PROVE RefOK(Ref(base, s, o + 1), base, o + 1)
    OBVIOUS
  <2>1. o \in 0 .. Len(s) - 1 /\ o + 1 \in 1 .. Len(s) /\ RefOK(Ref(base, s, o), base, o)
    BY <1>1, <1>3
  <2>2. Ref(base, s, o + 1) = register_micro_block(Ref(base, s, o), s[o + 1])
    BY <1>0, <2>1
  <2>3. IsMicro(s[o + 1])
    BY <2>1 DEF IsMicros
  <2>4. base.epoch \in Nat
    BY BaseIsRef
  <2> QED BY <2>1, <2>2, <2>3, <2>4, RefStep
<1>4. Nat \subseteq T
  <2> HIDE DEF T
  <2> QED BY <1>2, <1>3, NumberInduction
<1> QED BY <1>1, <1>4

-----------------------------------------------------------------------------
(* Chains that remember every block of the epoch *)

\* The version of c at l has the contents of x, and begins with its block.
VersionIs(c, l, x) ==
    /\ \A f \in MapNames : At(c[f], l) = x[f].map
    /\ HasLsn(c.block_by_hash, l) /\ HasLsn(c.election_result, l)

\* c is base with the micro blocks s, possibly followed by a view change, and
\* its logs lead back to every one of them.
Tracks(c, base, s) ==
    /\ IsChain(c, LSN(base.epoch, Len(s)))
    /\ c.epoch = base.epoch /\ c.offset = Len(s)
    /\ Stamped(c, PreviousLsn(base.epoch, 0))
    /\ \A o \in 0 .. Len(s) : VersionIs(c, PreviousLsn(base.epoch, o), Ref(base, s, o))
    /\ \A f \in MapNames \ {"election_result"} : UpTo(c[f], PreviousLsn(base.epoch, Len(s)))
    /\ IsElected(ElectionResult(c)) /\ SameElection(c, Ref(base, s, Len(s)))
    /\ view_change(c) # 0 => c.view_change_proof

LEMMA VersionWrote ==
    ASSUME NEW c, NEW r, NEW lsn \in Int, IsChain(c, lsn), Writes(c, r, lsn),
           NEW l \in Int, l < lsn, NEW x, VersionIs(c, l, x)
    PROVE  VersionIs(r, l, x)
<1>1. ASSUME NEW f \in MapNames
      PROVE  At(r[f], l) = x[f].map /\ IsMap(c[f], KeysOf[f]) /\ Wrote(c[f], r[f], KeysOf[f], lsn)
  <2>1. Wrote(c[f], r[f], KeysOf[f], lsn) /\ At(c[f], l) = x[f].map /\ IsMap(c[f], KeysOf[f])
    BY DEF Writes, VersionIs, IsChain, Ready
  <2> QED BY <2>1 DEF Wrote
<1>2. "block_by_hash" \in MapNames /\ "election_result" \in MapNames
  BY DEF MapNames
<1>3. ASSUME NEW f \in MapNames, HasLsn(c[f], l) PROVE HasLsn(r[f], l)
  <2>1. l <= lsn
    OBVIOUS
  <2> QED BY <1>1, <1>3, <2>1, HasLsnWrote
<1>4. HasLsn(r.block_by_hash, l) /\ HasLsn(r.election_result, l)
  BY <1>2, <1>3 DEF VersionIs
<1> QED BY <1>1, <1>4 DEF VersionIs

LEMMA HasCurrentLsn ==
    ASSUME NEW K, NEW m, NEW lsn \in Int, Ready(m, K, lsn), current_lsn(m) = lsn
    PROVE  HasLsn(m, lsn)
<1>1. IsMap(m, K) /\ Len(m.undo) \in Nat
  BY LenIsNat DEF Ready
<1>2. CASE m.undo = <<>>
  <2>1. Len(m.undo) = 0
    BY <1>2
  <2> QED BY <1>2, <2>1 DEF current_lsn, HasLsn
<1>3. CASE m.undo # <<>>
  <2>1. Len(m.undo) \in 1 .. Len(m.undo)
    BY <1>1, <1>3 DEF IsMap
  <2> QED BY <1>3, <2>1 DEF current_lsn, HasLsn
<1> QED BY <1>2, <1>3

LEMMA TrackFacts ==
    ASSUME NEW c, NEW base, NEW s, IsBase(base), IsMicros(s), Tracks(c, base, s)
    PROVE  LET n == Len(s)
               lsn == LSN(base.epoch, n)
               x == Ref(base, s, n)
           IN  /\ n \in Nat /\ base.epoch \in Nat /\ AtEnd(c, lsn) /\ lsn \in Nat
               /\ RefOK(x, base, n) /\ AtEnd(x, lsn)
               /\ Same(c, x) /\ IsElected(ElectionResult(x)) /\ IsElected(ElectionResult(c))
<1> DEFINE n == Len(s)
           e == base.epoch
           lsn == LSN(e, n)
           x == Ref(base, s, n)
<1>1. n \in Nat /\ e \in Nat /\ n \in 0 .. n
  BY SeqFacts, BaseIsRef DEF IsMicros
<1>2. RefOK(x, base, n)
  BY <1>1, RefFacts
<1>3. /\ IsChain(c, lsn) /\ c.epoch = e /\ c.offset = n
      /\ VersionIs(c, PreviousLsn(e, n), x)
      /\ \A f \in MapNames \ {"election_result"} : UpTo(c[f], PreviousLsn(e, n))
      /\ IsElected(ElectionResult(c)) /\ SameElection(c, x)
  BY <1>1 DEF Tracks
<1> HIDE DEF n, e, x
<1>4. lsn \in Nat /\ PreviousLsn(e, n) \in Int
  BY <1>1, LsnOrder
<1>5. ASSUME NEW f \in MapNames, f # "election_result" PROVE c[f].map = x[f].map
  <2>1. IsMap(c[f], KeysOf[f]) /\ UpTo(c[f], PreviousLsn(e, n)) /\ At(c[f], PreviousLsn(e, n)) = x[f].map
    BY <1>3, <1>5 DEF IsChain, Ready, VersionIs
  <2> QED BY <1>4, <2>1, AtNow
<1>6. SameMaps(c, x)
  BY <1>5 DEF SameMaps, MapNames
<1>7. Same(c, x)
  BY <1>2, <1>3, <1>6 DEF Same, RefOK, e
<1> QED BY <1>1, <1>2, <1>3, <1>4, <1>7 DEF AtEnd, RefOK, n, e, x

\* A micro block on top.
LEMMA TrackMicro ==
    ASSUME NEW c, NEW base, NEW s, IsBase(base), IsMicros(s), Tracks(c, base, s),
           NEW t, IsMicros(t), Len(t) = Len(s) + 1, Begins(s, t, Len(s))
    PROVE  Tracks(register_micro_block(c, t[Len(t)]), base, t)
<1> DEFINE n == Len(s)
           e == base.epoch
           lsn == LSN(e, n)
           b == t[n + 1]
           x == Ref(base, s, n)
           y == register_micro_block(x, b)
           r == register_micro_block(c, b)
<1>1. /\ n \in Nat /\ e \in Nat /\ AtEnd(c, lsn) /\ lsn \in Nat
      /\ RefOK(x, base, n) /\ AtEnd(x, lsn)
      /\ Same(c, x) /\ IsElected(ElectionResult(x)) /\ IsElected(ElectionResult(c))
  BY TrackFacts
<1>2. /\ IsChain(c, lsn) /\ c.epoch = e /\ c.offset = n /\ Stamped(c, PreviousLsn(e, 0))
      /\ \A o \in 0 .. n : VersionIs(c, PreviousLsn(e, o), Ref(base, s, o))
  BY DEF Tracks
<1>3. IsMicro(b) /\ n + 1 = Len(t)
  BY <1>1 DEF IsMicros
<1>4. IsSeq(s) /\ IsSeq(t)
  BY DEF IsMicros
<1>5. \A o \in 0 .. n : Ref(base, t, o) = Ref(base, s, o)
  BY <1>1, <1>4, RefSame
<1>6. Ref(base, t, n + 1) = y
  <2>1. Unrolls(base, t)
    BY <1>4, RefUnroll
  <2>2. n \in 0 .. n /\ n \in 0 .. Len(t) - 1
    BY <1>1
  <2>3. Ref(base, t, n + 1) = register_micro_block(Ref(base, t, n), b)
    BY <2>1, <2>2 DEF Unrolls
  <2> QED BY <1>5, <2>2, <2>3
<1> HIDE DEF n, e, b, x
<1>7. AfterMicro(c, r, lsn, b)
  BY <1>1, <1>3, MicroFacts
<1>8. Same(r, y) /\ r.election_result.map = y.election_result.map
      /\ IsElected(ElectionResult(r)) /\ view_change(r) = 0
  <2> HIDE DEF lsn
  <2>1. IsChain(x, lsn)
    BY <1>1 DEF AtEnd
  <2> QED BY <1>1, <1>3, <2>1, MicroSame
<1> HIDE DEF r, y, lsn
<1>9. /\ LSN(e, n + 1) = lsn + 1 /\ LSN(e, n + 1) \in Nat /\ PreviousLsn(e, n + 1) = lsn
      /\ lsn \in Int /\ n + 1 \in Nat
  <2>1. n + 1 \in Nat
    BY <1>1
  <2>2. LSN(e, n + 1) = lsn + 1
    BY <1>1, LsnOrder DEF lsn
  <2>3. PreviousLsn(e, n + 1) = LSN(e, n + 1) - 1
    BY <1>1, <2>1, LsnOrder
  <2> QED BY <1>1, <2>1, <2>2, <2>3
<1>10. /\ Writes(c, r, lsn) /\ r.epoch = e /\ r.offset = n + 1
       /\ current_lsn(r.block_by_hash) = lsn /\ current_lsn(r.election_result) = lsn
  BY <1>2, <1>7 DEF AfterMicro, KeptBy
<1>11. IsChain(r, lsn)
  BY <1>1, <1>2, <1>9, <1>10, WritesFacts
<1>12. IsChain(r, LSN(e, n + 1))
  BY <1>9, <1>11, ReadyLater
<1>13. Stamped(r, PreviousLsn(e, 0))
  BY <1>2, <1>10 DEF Stamped, Writes, Wrote
<1>14. ASSUME NEW o \in 0 .. n PROVE VersionIs(r, PreviousLsn(e, o), Ref(base, t, o))
  <2>1. PreviousLsn(e, o) \in Int /\ PreviousLsn(e, o) < lsn
    <3>1. o \in Nat /\ o <= n
      BY <1>1
    <3> QED BY <1>1, <3>1, LsnOrder DEF lsn
  <2>2. VersionIs(c, PreviousLsn(e, o), Ref(base, t, o))
    BY <1>2, <1>5
  <2> QED BY <1>2, <1>9, <1>10, <2>1, <2>2, VersionWrote
<1>15. VersionIs(r, lsn, y)
  <2>1. ASSUME NEW f \in MapNames PROVE At(r[f], lsn) = r[f].map
    <3>1. Ready(r[f], KeysOf[f], lsn)
      BY <1>11 DEF IsChain
    <3> QED BY <1>9, <3>1, AtNow DEF Ready
  <2>2. \A f \in MapNames : r[f].map = y[f].map
    BY <1>8 DEF Same, SameMaps, MapNames
  <2>3. Ready(r.block_by_hash, Lsns, lsn) /\ Ready(r.election_result, {Unit}, lsn)
    BY <1>11, ChainFacts
  <2>4. HasLsn(r.block_by_hash, lsn) /\ HasLsn(r.election_result, lsn)
    BY <1>9, <1>10, <2>3, HasCurrentLsn
  <2> QED BY <2>1, <2>2, <2>4 DEF VersionIs
<1>16. ASSUME NEW o \in 0 .. n + 1 PROVE VersionIs(r, PreviousLsn(e, o), Ref(base, t, o))
  <2>1. o \in 0 .. n \/ o = n + 1
    BY <1>1
  <2> QED BY <1>6, <1>9, <1>14, <1>15, <2>1
<1>17. \A f \in MapNames : UpTo(r[f], lsn)
  BY <1>11 DEF IsChain, Ready
<1>18. Tracks(r, base, t)
  BY <1>3, <1>6, <1>8, <1>9, <1>10, <1>12, <1>13, <1>16, <1>17 DEF Tracks, Same, e
<1> QED BY <1>3, <1>18 DEF r, b

-----------------------------------------------------------------------------
(* Going back to an earlier block of the epoch *)

Past(c, lsn, o) == [RollbackMaps(c, lsn) EXCEPT !.offset = o]

LEMMA PastFields ==
    ASSUME NEW c, IsRecord(c), NEW lsn, NEW o
    PROVE  LET p == Past(c, lsn, o)
           IN  /\ IsRecord(p) /\ KeptBy(c, p) /\ p.offset = o
               /\ \A f \in MapNames : p[f] = rollback_to_lsn(c[f], lsn)
<1> DEFINE p == Past(c, lsn, o)
<1>1. p = [c EXCEPT
            !.block_by_hash = rollback_to_lsn(c.block_by_hash, lsn),
            !.output_by_hash = rollback_to_lsn(c.output_by_hash, lsn),
            !.balance = rollback_to_lsn(c.balance, lsn),
            !.escrow = rollback_to_lsn(c.escrow, lsn),
            !.epoch_activity = rollback_to_lsn(c.epoch_activity, lsn),
            !.election_result = rollback_to_lsn(c.election_result, lsn),
            !.offset = o]
  BY DEF Past, RollbackMaps
<1> HIDE DEF p
<1>2. IsRecord(p) /\ p.offset = o
  BY <1>1 DEF IsRecord, Fields, MapNames
<1>3. KeptBy(c, p)
  BY <1>1 DEF IsRecord, Fields, MapNames, KeptBy
<1>4. \A f \in MapNames : p[f] = rollback_to_lsn(c[f], lsn)
  BY <1>1 DEF IsRecord, Fields, MapNames
<1> QED BY <1>2, <1>3, <1>4 DEF p

\* p has the maps of c as of lsn.
IsPast(c, p, lsn) ==
    /\ \A f \in MapNames : p[f] = rollback_to_lsn(c[f], lsn)
    /\ \A f \in MapNames : Ready(p[f], KeysOf[f], lsn)
    /\ \A f \in MapNames : p[f].map = At(c[f], lsn)
    /\ \A f \in MapNames : p[f].checkpoint_lsn = c[f].checkpoint_lsn

LEMMA PastFacts ==
    ASSUME NEW c, NEW p, NEW k \in Int, IsChain(c, k), NEW lsn \in Int,
           \A f \in MapNames : p[f] = rollback_to_lsn(c[f], lsn)
    PROVE  /\ IsPast(c, p, lsn)
           /\ \A l \in Int : \A x : l <= lsn /\ VersionIs(c, l, x) => VersionIs(p, l, x)
<1>1. ASSUME NEW f \in MapNames
      PROVE  /\ Ready(p[f], KeysOf[f], lsn) /\ p[f].map = At(c[f], lsn)
             /\ p[f].checkpoint_lsn = c[f].checkpoint_lsn
             /\ \A l \in Int : l <= lsn => At(p[f], l) = At(c[f], l)
             /\ \A l \in Int : l <= lsn /\ HasLsn(c[f], l) => HasLsn(p[f], l)
  <2>1. p[f] = rollback_to_lsn(c[f], lsn) /\ IsMap(c[f], KeysOf[f]) /\ Sorted(c[f])
    BY DEF IsChain, Ready
  <2> QED BY <2>1, RollbackFacts, HasLsnRollback
<1>2. IsPast(c, p, lsn)
  BY <1>1 DEF IsPast
<1>3. ASSUME NEW l \in Int, NEW x, l <= lsn, VersionIs(c, l, x) PROVE VersionIs(p, l, x)
  <2>1. \A f \in MapNames : At(p[f], l) = x[f].map
    BY <1>1, <1>3 DEF VersionIs
  <2>2. "block_by_hash" \in MapNames /\ "election_result" \in MapNames
    BY DEF MapNames
  <2>3. \A f \in MapNames : HasLsn(c[f], l) => HasLsn(p[f], l)
    BY <1>1, <1>3
  <2>4. HasLsn(p.block_by_hash, l) /\ HasLsn(p.election_result, l)
    BY <1>3, <2>2, <2>3 DEF VersionIs
  <2> QED BY <2>1, <2>4 DEF VersionIs
<1> QED BY <1>2, <1>3

\* The chain as it was after o micro blocks.
LEMMA TrackPast ==
    ASSUME NEW c, NEW base, NEW s, IsBase(base), IsMicros(s), Tracks(c, base, s),
           NEW o \in Nat, o <= Len(s)
    PROVE  LET lsn == PreviousLsn(base.epoch, o)
               p == Past(c, lsn, o)
               x == Ref(base, s, o)
           IN  /\ IsRecord(p) /\ KeptBy(c, p) /\ p.epoch = base.epoch /\ p.offset = o
               /\ lsn \in Int /\ IsPast(c, p, lsn) /\ IsChain(p, lsn)
               /\ RefOK(x, base, o) /\ VersionIs(c, lsn, x)
               /\ \A f \in MapNames : p[f].map = x[f].map
               /\ \A q \in 0 .. o : VersionIs(p, PreviousLsn(base.epoch, q), Ref(base, s, q))
<1> DEFINE e == base.epoch
           lsn == PreviousLsn(e, o)
           p == Past(c, lsn, o)
           x == Ref(base, s, o)
<1>1. e \in Nat /\ lsn \in Int /\ o \in 0 .. Len(s) /\ Len(s) \in Nat
  <2>1. e \in Nat
    BY BaseIsRef
  <2>2. Len(s) \in Nat
    BY SeqFacts DEF IsMicros
  <2> HIDE DEF e
  <2> QED BY <2>1, <2>2, LsnOrder
<1>2. /\ IsChain(c, LSN(e, Len(s))) /\ c.epoch = e
      /\ \A q \in 0 .. Len(s) : VersionIs(c, PreviousLsn(e, q), Ref(base, s, q))
  BY DEF Tracks
<1>3. RefOK(x, base, o)
  BY <1>1, RefFacts
<1>4. IsRecord(p) /\ KeptBy(c, p) /\ p.offset = o /\ \A f \in MapNames : p[f] = rollback_to_lsn(c[f], lsn)
  <2>1. IsRecord(c)
    BY <1>2 DEF IsChain
  <2> QED BY <2>1, PastFields
<1> HIDE DEF lsn, p, x, e
<1>5. LSN(e, Len(s)) \in Int
  BY <1>1, LsnOrder
<1>6. /\ IsPast(c, p, lsn)
      /\ \A l \in Int : \A y : l <= lsn /\ VersionIs(c, l, y) => VersionIs(p, l, y)
  BY <1>1, <1>2, <1>4, <1>5, PastFacts
<1>7. VersionIs(c, lsn, x)
  BY <1>1, <1>2 DEF lsn, x
<1>8. \A f \in MapNames : p[f].map = x[f].map
  BY <1>6, <1>7 DEF IsPast, VersionIs
<1>9. ASSUME NEW q \in 0 .. o PROVE VersionIs(p, PreviousLsn(e, q), Ref(base, s, q))
  <2>1. q \in Nat /\ q <= o /\ q \in 0 .. Len(s)
    BY <1>1
  <2>2. PreviousLsn(e, q) \in Int /\ PreviousLsn(e, q) <= lsn
    BY <1>1, <2>1, LsnOrder DEF lsn
  <2> QED BY <1>2, <1>6, <2>1, <2>2
<1>10. IsChain(p, lsn)
  BY <1>1, <1>2, <1>4, <1>6 DEF IsChain, IsPast, KeptBy
<1> QED BY <1>1, <1>2, <1>3, <1>4, <1>6, <1>7, <1>8, <1>9, <1>10 DEF KeptBy, lsn, p, x, e

\* r is c with the number of the view change at its end set to vc.
ChangesView(c, r, vc) ==
    /\ Elects(c, r, LSN(c.epoch, c.offset), [ElectionResult(c) EXCEPT !.view_change = vc])
    /\ KeptBy(c, r) /\ r.offset = c.offset
    /\ vc # 0 => r.view_change_proof

LEMMA ViewFacts ==
    ASSUME NEW c, IsRecord(c), NEW vc
    PROVE  /\ ChangesView(c, set_view_change(c, vc), vc)
           /\ ChangesView(c, reset_view_change(c), 0)
<1> DEFINE lsn == LSN(c.epoch, c.offset)
           X(v) == [ElectionResult(c) EXCEPT !.view_change = v]
           E(v) == insert(c.election_result, lsn, Unit, X(v))
           R(v, p) == [c EXCEPT !.election_result = E(v), !.view_change_proof = p]
<1>1. ASSUME NEW v, NEW p, v # 0 => p
      PROVE  ChangesView(c, R(v, p), v)
  <2> DEFINE r == R(v, p)
  <2> HIDE DEF E
  <2>1. IsRecord(r) /\ r.election_result = E(v) /\ r.view_change_proof = p
    BY DEF IsRecord, Fields, MapNames
  <2>2. OnlyElection(c, r)
    BY DEF IsRecord, Fields, MapNames, OnlyElection
  <2>3. KeptBy(c, r) /\ r.offset = c.offset
    BY DEF IsRecord, Fields, MapNames, KeptBy
  <2> HIDE DEF r
  <2>4. Elects(c, r, lsn, X(v))
    BY <2>1, <2>2 DEF Elects, E
  <2>5. v # 0 => r.view_change_proof
    BY <1>1, <2>1
  <2>6. ChangesView(c, r, v)
    BY <2>3, <2>4, <2>5 DEF ChangesView
  <2> QED BY <2>6 DEF r
<1>2. set_view_change(c, vc) = R(vc, TRUE)
  BY DEF set_view_change
<1>3. reset_view_change(c) = R(0, FALSE)
  BY DEF reset_view_change
<1> HIDE DEF R
<1>4. ChangesView(c, R(vc, TRUE), vc)
  BY <1>1
<1>5. ChangesView(c, R(0, FALSE), 0)
  BY <1>1
<1> QED BY <1>2, <1>3, <1>4, <1>5

LEMMA TrackElect ==
    ASSUME NEW c, NEW base, NEW s, IsBase(base), IsMicros(s), Tracks(c, base, s),
           NEW r, NEW vc, ChangesView(c, r, vc)
    PROVE  Tracks(r, base, s) /\ view_change(r) = vc
<1> DEFINE n == Len(s)
           e == base.epoch
           lsn == LSN(e, n)
           x == [ElectionResult(c) EXCEPT !.view_change = vc]
<1>1. n \in Nat /\ e \in Nat /\ lsn \in Nat /\ lsn \in Int
  BY TrackFacts
<1>2. /\ IsChain(c, lsn) /\ c.epoch = e /\ c.offset = n /\ Stamped(c, PreviousLsn(e, 0))
      /\ \A o \in 0 .. n : VersionIs(c, PreviousLsn(e, o), Ref(base, s, o))
      /\ \A f \in MapNames \ {"election_result"} : UpTo(c[f], PreviousLsn(e, n))
      /\ IsElected(ElectionResult(c)) /\ SameElection(c, Ref(base, s, n))
  BY DEF Tracks
<1>3. IsElected(x) /\ x.view_change = vc /\ x.random = ElectionResult(c).random
      /\ x.validators = ElectionResult(c).validators
  BY <1>2 DEF IsElected
<1>4. Elects(c, r, lsn, x)
  BY <1>2 DEF ChangesView
<1> HIDE DEF x, n, e, lsn
<1>5. Writes(c, r, lsn) /\ ElectionResult(r) = x
  BY <1>1, <1>2, <1>4, ElectFacts
<1>6. r.epoch = e /\ r.offset = n /\ (vc # 0 => r.view_change_proof)
  BY <1>2 DEF KeptBy, ChangesView
<1>7. IsChain(r, lsn)
  BY <1>1, <1>2, <1>5, <1>6, WritesFacts
<1>8. Stamped(r, PreviousLsn(e, 0))
  BY <1>2, <1>5 DEF Stamped, Writes, Wrote
<1>9. ASSUME NEW o \in 0 .. n PROVE VersionIs(r, PreviousLsn(e, o), Ref(base, s, o))
  <2>1. PreviousLsn(e, o) \in Int /\ PreviousLsn(e, o) < lsn
    <3>1. o \in Nat /\ o <= n
      BY <1>1
    <3> QED BY <1>1, <3>1, LsnOrder DEF lsn
  <2> QED BY <1>1, <1>2, <1>5, <2>1, VersionWrote
<1>10. \A f \in MapNames \ {"election_result"} : UpTo(r[f], PreviousLsn(e, n))
  BY <1>2, <1>4 DEF Elects, OnlyElection
<1>11. IsElected(ElectionResult(r)) /\ SameElection(r, Ref(base, s, n)) /\ view_change(r) = vc
  BY <1>2, <1>3, <1>5 DEF SameElection, view_change
<1> QED BY <1>6, <1>7, <1>8, <1>9, <1>10, <1>11 DEF Tracks, e, n, lsn

\* A view change at the end.
LEMMA TrackView ==
    ASSUME NEW c, NEW base, NEW s, IsBase(base), IsMicros(s), Tracks(c, base, s), NEW vc
    PROVE  /\ Tracks(set_view_change(c, vc), base, s) /\ KeptBy(c, set_view_change(c, vc))
           /\ Tracks(reset_view_change(c), base, s) /\ KeptBy(c, reset_view_change(c))
           /\ view_change(set_view_change(c, vc)) = vc /\ view_change(reset_view_change(c)) = 0
<1>1. IsRecord(c)
  BY DEF Tracks, IsChain
<1>2. ChangesView(c, set_view_change(c, vc), vc) /\ ChangesView(c, reset_view_change(c), 0)
  BY <1>1, ViewFacts
<1>3. /\ Tracks(set_view_change(c, vc), base, s) /\ Tracks(reset_view_change(c), base, s)
      /\ view_change(set_view_change(c, vc)) = vc /\ view_change(reset_view_change(c)) = 0
  BY <1>2, TrackElect
<1> QED BY <1>2, <1>3 DEF ChangesView

\* The last micro block is popped.
LEMMA TrackPop ==
    ASSUME NEW c, NEW base, NEW s, IsBase(base), IsMicros(s), Tracks(c, base, s),
           NEW t, IsMicros(t), Len(t) = Len(s) - 1, Begins(s, t, Len(t))
    PROVE  LET r == pop_micro_block(c)
           IN  Tracks(r, base, t) /\ KeptBy(c, r) /\ view_change(r) = 0
<1> DEFINE o == Len(t)
           e == base.epoch
           lsn == PreviousLsn(e, o)
           p == Past(c, lsn, o)
           x == Ref(base, s, o)
<1>1. o \in Nat /\ e \in Nat /\ o <= Len(s) /\ IsSeq(s) /\ IsSeq(t) /\ Len(s) \in Nat /\ o = Len(s) - 1
  BY SeqFacts, BaseIsRef DEF IsMicros
<1>2. c.epoch = e /\ c.offset = Len(s) /\ Stamped(c, PreviousLsn(e, 0)) /\ IsRecord(c)
  BY DEF Tracks, IsChain
<1>3. pop_micro_block(c) = reset_view_change(p)
  <2>1. RollbackMaps(c, lsn).offset = c.offset
    BY <1>2 DEF RollbackMaps, IsRecord, Fields, MapNames
  <2> QED BY <1>1, <1>2, <2>1 DEF pop_micro_block, Past
<1>4. /\ IsRecord(p) /\ KeptBy(c, p) /\ p.epoch = e /\ p.offset = o
      /\ lsn \in Int /\ IsPast(c, p, lsn) /\ IsChain(p, lsn)
      /\ RefOK(x, base, o) /\ VersionIs(c, lsn, x)
      /\ \A f \in MapNames : p[f].map = x[f].map
      /\ \A q \in 0 .. o : VersionIs(p, PreviousLsn(e, q), Ref(base, s, q))
  <2> HIDE DEF o
  <2> QED BY <1>1, TrackPast
<1>5. \A q \in 0 .. o : Ref(base, t, q) = Ref(base, s, q)
  BY <1>1, RefSame
<1> HIDE DEF p, x, o, e
<1>6. LSN(e, o) \in Int /\ lsn <= LSN(e, o)
  <2>1. LSN(e, o) \in Nat /\ lsn = LSN(e, o) - 1
    BY <1>1, LsnFacts
  <2> QED BY <2>1
<1> HIDE DEF lsn
<1>7. IsChain(p, LSN(e, o))
  BY <1>4, <1>6, ReadyLater
<1>8. Stamped(p, PreviousLsn(e, 0))
  BY <1>2, <1>4 DEF Stamped, IsPast
<1>9. \A f \in MapNames : UpTo(p[f], lsn)
  BY <1>4 DEF IsChain, Ready
<1>10. ElectionResult(p) = ElectionResult(x)
  BY <1>4 DEF ElectionResult, MapNames
<1>11. o \in 0 .. o /\ Ref(base, t, o) = x
  BY <1>1, <1>5 DEF x
<1>12. /\ IsElected(ElectionResult(p)) /\ SameElection(p, Ref(base, t, o))
       /\ view_change(p) = 0
  BY <1>4, <1>10, <1>11 DEF RefOK, SameElection, view_change
<1>13. Tracks(p, base, t)
  BY <1>4, <1>5, <1>7, <1>8, <1>9, <1>12 DEF Tracks, e, o, lsn
<1>14. /\ Tracks(reset_view_change(p), base, t) /\ KeptBy(p, reset_view_change(p))
       /\ view_change(reset_view_change(p)) = 0
  BY <1>13, TrackView
<1> QED BY <1>3, <1>4, <1>14 DEF KeptBy

LEMMA MicrosFacts ==
    /\ IsMicros(<<>>) /\ Len(<<>>) = 0
    /\ \A s : IsMicros(s) => \A o \in 0 .. Len(s) : IsMicros(SubSeq(s, 1, o))
    /\ \A s, b : IsMicros(s) /\ IsMicro(b) => IsMicros(Append(s, b))
<1>1. IsMicros(<<>>) /\ Len(<<>>) = 0
  BY DEF IsMicros, IsSeq
<1>2. ASSUME NEW s, IsMicros(s), NEW o \in 0 .. Len(s) PROVE IsMicros(SubSeq(s, 1, o))
  <2> DEFINE t == SubSeq(s, 1, o)
  <2>1. IsSeq(t) /\ Len(t) = o /\ Begins(s, t, o) /\ Len(s) \in Nat
    BY <1>2, SeqFacts DEF IsMicros
  <2> HIDE DEF t
  <2>2. \A i \in 1 .. o : i \in 1 .. Len(s) /\ t[i] = s[i]
    BY <2>1 DEF Begins
  <2>3. IsMicros(t)
    BY <1>2, <2>1, <2>2 DEF IsMicros
  <2> QED BY <2>3 DEF t
<1>3. ASSUME NEW s, NEW b, IsMicros(s), IsMicro(b) PROVE IsMicros(Append(s, b))
  <2> DEFINE t == Append(s, b)
             n == Len(s)
  <2>1. IsSeq(t) /\ Len(t) = n + 1 /\ Begins(s, t, n) /\ n \in Nat /\ t[n + 1] = b
    BY <1>3, SeqFacts DEF IsMicros
  <2> HIDE DEF t
  <2>2. ASSUME NEW i \in 1 .. n + 1 PROVE IsMicro(t[i])
    <3>1. CASE i \in 1 .. n
      BY <1>3, <2>1, <3>1 DEF Begins, IsMicros
    <3>2. CASE i = n + 1
      BY <1>3, <2>1, <3>2
    <3> QED BY <2>1, <3>1, <3>2
  <2>3. IsMicros(t)
    BY <2>1, <2>2 DEF IsMicros
  <2> QED BY <2>3 DEF t
<1> QED BY <1>1, <1>2, <1>3

\* What is tracked depends on the blocks alone.
LEMMA TrackSame ==
    ASSUME NEW c, NEW base, NEW s, NEW t, IsMicros(s), IsMicros(t),
           Len(t) = Len(s), Begins(s, t, Len(s)), Tracks(c, base, s)
    PROVE  Tracks(c, base, t)
<1> DEFINE n == Len(s)
<1>1. IsSeq(s) /\ IsSeq(t) /\ n \in Nat /\ n \in 0 .. n
  BY SeqFacts DEF IsMicros
<1>2. \A o \in 0 .. n : Ref(base, t, o) = Ref(base, s, o)
  BY <1>1, RefSame
<1> HIDE DEF n
<1>3. Ref(base, t, n) = Ref(base, s, n)
  BY <1>1, <1>2
<1> QED BY <1>2, <1>3 DEF Tracks, n

LEMMA PoppedIsRun ==
    ASSUME NEW c, c.offset \in Nat
    PROVE  \E g : PopRun(g, c, c.offset) /\ Popped(c) = g[c.offset]
<1> DEFINE g == CHOOSE h : PopRun(h, c, c.offset)
<1>1. PopRun(g, c, c.offset)
  BY PopRunExists
<1>2. Popped(c) = g[c.offset]
  BY DEF Popped, PopRun
<1> HIDE DEF g
<1> QED BY <1>1, <1>2

\* All micro blocks of the epoch are popped.
LEMMA TrackPopped ==
    ASSUME NEW c, NEW base, NEW s, IsBase(base), IsMicros(s), Tracks(c, base, s)
    PROVE  Tracks(Popped(c), base, <<>>) /\ KeptBy(c, Popped(c))
<1> DEFINE n == Len(s)
           S(k) == SubSeq(s, 1, n - k)
<1>1. n \in Nat /\ IsSeq(s)
  BY SeqFacts DEF IsMicros
<1>2. c.offset = n
  BY DEF Tracks
<1>3. PICK g : PopRun(g, c, n) /\ Popped(c) = g[n]
  BY <1>1, <1>2, PoppedIsRun
<1>4. g[0] = c /\ \A k \in 1 .. n : g[k] = pop_micro_block(g[k - 1])
  BY <1>1, <1>3 DEF PopRun
<1>5. ASSUME NEW k \in 0 .. n
      PROVE  IsMicros(S(k)) /\ Len(S(k)) = n - k /\ Begins(s, S(k), n - k)
  <2>1. n - k \in 0 .. n
    BY <1>1
  <2> QED BY <1>1, <2>1, MicrosFacts, SeqFacts
<1> HIDE DEF S
<1> DEFINE T == {k \in Nat : k <= n => Tracks(g[k], base, S(k)) /\ KeptBy(c, g[k])}
<1>6. 0 \in T
  <2>1. IsMicros(S(0)) /\ Len(S(0)) = n /\ Begins(s, S(0), n)
    BY <1>1, <1>5
  <2>2. Tracks(c, base, S(0))
    BY <2>1, TrackSame
  <2> QED BY <1>4, <2>2 DEF KeptBy
<1>7. ASSUME NEW k \in Nat, k \in T PROVE k + 1 \in T
  <2> SUFFICES ASSUME k + 1 <= n
               PROVE  Tracks(g[k + 1], base, S(k + 1)) /\ KeptBy(c, g[k + 1])
    OBVIOUS
  <2>1. k + 1 \in 1 .. n /\ k + 1 \in 0 .. n /\ k \in 0 .. n /\ (k + 1) - 1 = k /\ n - (k + 1) = (n - k) - 1
    BY <1>1
  <2>2. g[k + 1] = pop_micro_block(g[k]) /\ Tracks(g[k], base, S(k)) /\ KeptBy(c, g[k])
    BY <1>1, <1>4, <1>7, <2>1
  <2>3. /\ IsMicros(S(k)) /\ Len(S(k)) = n - k /\ Begins(s, S(k), n - k)
        /\ IsMicros(S(k + 1)) /\ Len(S(k + 1)) = n - (k + 1) /\ Begins(s, S(k + 1), n - (k + 1))
    BY <1>5, <2>1
  <2>4. Len(S(k + 1)) = Len(S(k)) - 1 /\ Begins(S(k), S(k + 1), Len(S(k + 1)))
    <3> DEFINE m == n - (k + 1)
               x == S(k)
               y == S(k + 1)
    <3> HIDE DEF n
    <3>1. m \in Nat /\ Len(x) = m + 1 /\ Len(y) = m
      BY <1>1, <2>1, <2>3
    <3>2. \A i \in 1 .. m : i \in 1 .. n - k
      BY <1>1, <2>1
    <3>3. \A i \in 1 .. m : y[i] = x[i]
      BY <2>3, <3>2 DEF Begins
    <3> HIDE DEF m, x, y
    <3>4. Len(y) = Len(x) - 1 /\ Begins(x, y, Len(y))
      BY <3>1, <3>3 DEF Begins
    <3> QED BY <3>4 DEF x, y
  <2>5. Tracks(pop_micro_block(g[k]), base, S(k + 1)) /\ KeptBy(g[k], pop_micro_block(g[k]))
    BY <2>2, <2>3, <2>4, TrackPop
  <2> QED BY <2>2, <2>5 DEF KeptBy
<1>8. Nat \subseteq T
  <2> HIDE DEF T
  <2> QED BY <1>6, <1>7, NumberInduction
<1>9. Tracks(g[n], base, S(n)) /\ KeptBy(c, g[n])
  BY <1>1, <1>8
<1>10. IsMicros(S(n)) /\ Len(S(n)) = 0 /\ IsMicros(<<>>) /\ Len(<<>>) = 0
  <2>1. n \in 0 .. n /\ n - n = 0
    BY <1>1
  <2> QED BY <1>5, <2>1, MicrosFacts
<1>11. Begins(S(n), <<>>, 0)
  BY <1>10 DEF Begins
<1> QED BY <1>3, <1>9, <1>10, <1>11, TrackSame

\* The micro blocks of an epoch, one after the other.
LEMMA TrackSeq ==
    ASSUME NEW c, NEW base, NEW s, IsBase(base), IsMicros(s), Tracks(c, base, <<>>)
    PROVE  LET r == RegisterMicros(c, s)
           IN  /\ Tracks(r, base, s) /\ KeptBy(c, r)
               /\ view_change(c) = 0 => view_change(r) = 0
<1> DEFINE n == Len(s)
           S(o) == SubSeq(s, 1, o)
           R(o) == Ref(c, s, o)
           Good(o) == /\ Tracks(R(o), base, S(o)) /\ KeptBy(c, R(o))
                      /\ view_change(c) = 0 => view_change(R(o)) = 0
           T == {o \in Nat : o <= n => Good(o)}
<1>1. n \in Nat /\ IsSeq(s)
  BY SeqFacts DEF IsMicros
<1>2. /\ R(0) = c /\ R(n) = RegisterMicros(c, s)
      /\ \A o \in 0 .. n - 1 : R(o + 1) = register_micro_block(R(o), s[o + 1])
  <2>1. Unrolls(c, s)
    BY <1>1, RefUnroll
  <2> QED BY <2>1 DEF Unrolls
<1>3. ASSUME NEW o \in 0 .. n
      PROVE  IsMicros(S(o)) /\ Len(S(o)) = o /\ Begins(s, S(o), o)
  BY <1>1, MicrosFacts, SeqFacts
<1> HIDE DEF S, R
<1>4. 0 \in T
  <2>1. IsMicros(S(0)) /\ Len(S(0)) = 0 /\ IsMicros(<<>>) /\ Len(<<>>) = 0
    BY <1>1, <1>3, MicrosFacts
  <2>2. Begins(<<>>, S(0), 0)
    BY <2>1 DEF Begins
  <2>3. Tracks(c, base, S(0))
    BY <2>1, <2>2, TrackSame
  <2> QED BY <1>2, <2>3 DEF KeptBy
<1>5. ASSUME NEW o \in Nat, o \in T PROVE o + 1 \in T
  <2> SUFFICES ASSUME o + 1 <= n PROVE Good(o + 1)
    OBVIOUS
  <2>1. o \in 0 .. n - 1 /\ o \in 0 .. n /\ o + 1 \in 0 .. n /\ o + 1 \in 1 .. n /\ o + 1 \in 1 .. o + 1
    BY <1>1
  <2>2. R(o + 1) = register_micro_block(R(o), s[o + 1]) /\ Good(o)
    BY <1>1, <1>2, <1>5, <2>1
  <2>3. /\ IsMicros(S(o)) /\ Len(S(o)) = o /\ Begins(s, S(o), o)
        /\ IsMicros(S(o + 1)) /\ Len(S(o + 1)) = o + 1 /\ Begins(s, S(o + 1), o + 1)
    BY <1>3, <2>1
  <2>4. Begins(S(o), S(o + 1), o)
    BY <2>1, <2>3 DEF Begins
  <2>5. S(o + 1)[o + 1] = s[o + 1] /\ IsMicro(s[o + 1])
    BY <2>1, <2>3 DEF Begins, IsMicros
  <2>6. Tracks(R(o), base, S(o)) /\ KeptBy(c, R(o))
    BY <2>2
  <2>7. Tracks(R(o + 1), base, S(o + 1))
    <3>1. Tracks(register_micro_block(R(o), S(o + 1)[Len(S(o + 1))]), base, S(o + 1))
      BY <2>3, <2>4, <2>6, TrackMicro
    <3> QED BY <2>2, <2>3, <2>5, <3>1
  <2>8. AfterMicro(R(o), R(o + 1), LSN(base.epoch, o), s[o + 1])
    <3>1. AtEnd(R(o), LSN(base.epoch, o))
      BY <2>3, <2>6, TrackFacts
    <3> QED BY <2>2, <2>5, <3>1, MicroFacts
  <2>9. KeptBy(c, R(o + 1))
    BY <2>6, <2>8 DEF AfterMicro, KeptBy
  <2>10. view_change(R(o + 1)) = 0
    <3>1. IsElected(ElectionResult(R(o)))
      BY <2>6 DEF Tracks
    <3> QED BY <2>8, <3>1, ElectedByFacts DEF AfterMicro, view_change
  <2> QED BY <2>7, <2>9, <2>10
<1>6. Nat \subseteq T
  <2> HIDE DEF T
  <2> QED BY <1>4, <1>5, NumberInduction
<1>7. Good(n)
  BY <1>1, <1>6
<1>8. IsMicros(S(n)) /\ Len(S(n)) = n /\ Begins(s, S(n), n)
  BY <1>1, <1>3
<1>9. Begins(S(n), s, n)
  BY <1>1, <1>8 DEF Begins
<1>10. Tracks(R(n), base, s)
  BY <1>7, <1>8, <1>9, TrackSame
<1> QED BY <1>2, <1>7, <1>10

-----------------------------------------------------------------------------
(* Chains with the same blocks *)

\* c has the contents of base, at the beginning of the epoch.
SameBase(c, base) ==
    /\ c.epoch = base.epoch
    /\ \A f \in MapNames : c[f].map = base[f].map

LEMMA BaseTracks ==
    ASSUME NEW c, NEW base, IsBase(c), IsBase(base), SameBase(c, base)
    PROVE  Tracks(c, base, <<>>)
<1> DEFINE e == base.epoch
           lsn == PreviousLsn(e, 0)
<1>1. IsMicros(<<>>) /\ Len(<<>>) = 0 /\ e \in Nat /\ c.epoch = e /\ c.offset = 0
  BY MicrosFacts DEF IsBase, SameBase
<1>2. Ref(base, <<>>, 0) = base
  <2>1. Unrolls(base, <<>>)
    BY <1>1, RefUnroll DEF IsMicros
  <2> QED BY <2>1 DEF Unrolls
<1> HIDE DEF e
<1>3. lsn \in Int /\ LSN(e, 0) \in Int
  <2>1. e \in Nat /\ 0 \in Nat
    BY <1>1
  <2>2. PreviousLsn(e, 0) \in Int /\ LSN(e, 0) \in Nat
    BY <2>1, LsnFacts
  <2> QED BY <2>2
<1>4. /\ IsRecord(c) /\ Stamped(c, lsn) /\ HasLsn(c.block_by_hash, lsn)
      /\ HasLsn(c.election_result, lsn) /\ IsElected(ElectionResult(c)) /\ view_change(c) = 0
  BY <1>1 DEF IsBase
<1> HIDE DEF lsn
<1>5. ASSUME NEW f \in MapNames, NEW l \in Int
      PROVE  Ready(c[f], KeysOf[f], l) /\ At(c[f], l) = base[f].map
  BY DEF IsBase, SameBase
<1>6. IsChain(c, LSN(e, 0))
  BY <1>1, <1>3, <1>4, <1>5 DEF IsChain
<1>7. VersionIs(c, lsn, base)
  BY <1>3, <1>4, <1>5 DEF VersionIs
<1>8. \A f \in MapNames : UpTo(c[f], lsn)
  BY <1>3, <1>5 DEF Ready
<1>9. SameElection(c, base)
  BY DEF SameElection, ElectionResult, SameBase, MapNames
<1>10. \A o \in 0 .. 0 : o = 0
  OBVIOUS
<1> QED BY <1>1, <1>2, <1>4, <1>6, <1>7, <1>8, <1>9, <1>10 DEF Tracks, e, lsn

LEMMA SameContents ==
    ASSUME NEW c, NEW d, Same(c, d), c.awards = d.awards, c.cache = d.cache,
           IsElected(ElectionResult(c)), IsElected(ElectionResult(d))
    PROVE  Contents(c) = Contents(d)
<1> DEFINE x == ElectionResult(c)
           y == ElectionResult(d)
<1>1. x.random = y.random /\ x.validators = y.validators
  BY DEF Same, SameElection
<1>2. [x EXCEPT !.view_change = 0] = [y EXCEPT !.view_change = 0]
  <2> HIDE DEF x, y
  <2>1. IsElected(x) /\ IsElected(y)
    BY DEF x, y
  <2> QED BY <1>1, <2>1 DEF IsElected
<1> HIDE DEF x, y
<1>3. /\ c.epoch = d.epoch /\ c.offset = d.offset /\ c.block_by_hash.map = d.block_by_hash.map
      /\ c.output_by_hash.map = d.output_by_hash.map /\ c.balance.map = d.balance.map
      /\ c.escrow.map = d.escrow.map /\ c.epoch_activity.map = d.epoch_activity.map
  BY DEF Same, SameMaps
<1> QED BY <1>2, <1>3 DEF Contents, x, y

\* Chains that track the same blocks.
LEMMA TracksSame ==
    ASSUME NEW c, NEW d, NEW base, NEW s, IsBase(base), IsMicros(s),
           Tracks(c, base, s), Tracks(d, base, s), c.awards = d.awards, c.cache = d.cache
    PROVE  Contents(c) = Contents(d)
<1> DEFINE x == Ref(base, s, Len(s))
<1>1. Same(c, x) /\ IsElected(ElectionResult(c))
  BY TrackFacts
<1>2. Same(d, x) /\ IsElected(ElectionResult(d))
  BY TrackFacts
<1> HIDE DEF x
<1>3. Same(c, d)
  BY <1>1, <1>2 DEF Same, SameMaps, SameElection
<1> QED BY <1>1, <1>2, <1>3, SameContents

\* What HistoryIsExact says of an earlier offset.
LEMMA TrackHistory ==
    ASSUME NEW c, NEW base, NEW s, IsBase(base), IsMicros(s), Tracks(c, base, s),
           NEW o \in Nat, o <= Len(s),
           NEW t, Begins(s, t, o), Len(t) = o, IsMicros(t),
           NEW d, Tracks(d, base, t), c.awards = d.awards, c.cache = d.cache, view_change(d) = 0
    PROVE  LET lsn == PreviousLsn(c.epoch, o)
               p == Past(c, lsn, o)
           IN  /\ Contents(p) = Contents(d)
               /\ election_result_by_offset(c, o) = ElectionResult(d)
               /\ current_lsn(p.block_by_hash) = lsn
               /\ current_lsn(p.election_result) = lsn
               /\ \A m \in {p.output_by_hash, p.balance, p.escrow, p.epoch_activity} :
                     current_lsn(m) <= lsn
<1> DEFINE e == base.epoch
           lsn == PreviousLsn(e, o)
           p == Past(c, lsn, o)
           x == Ref(base, s, o)
<1>1. /\ IsRecord(p) /\ KeptBy(c, p) /\ p.epoch = e /\ p.offset = o
      /\ lsn \in Int /\ IsPast(c, p, lsn) /\ IsChain(p, lsn)
      /\ RefOK(x, base, o) /\ VersionIs(c, lsn, x)
      /\ \A f \in MapNames : p[f].map = x[f].map
  BY TrackPast
<1>2. c.epoch = e /\ Stamped(c, PreviousLsn(e, 0)) /\ IsChain(c, LSN(e, Len(s)))
  BY DEF Tracks
<1>3. Same(d, x) /\ IsElected(ElectionResult(d))
  <2>1. IsSeq(s) /\ IsSeq(t) /\ o \in 0 .. o
    BY DEF IsMicros
  <2>2. Ref(base, t, o) = x
    BY <2>1, RefSame
  <2>3. Same(d, Ref(base, t, Len(t))) /\ IsElected(ElectionResult(d))
    BY TrackFacts
  <2> QED BY <2>2, <2>3
<1>4. PreviousLsn(e, 0) <= lsn /\ PreviousLsn(e, 0) \in Int
  <2>1. e \in Nat
    BY BaseIsRef
  <2> HIDE DEF e
  <2>2. 0 \in Nat /\ 0 <= o
    OBVIOUS
  <2> QED BY <2>1, <2>2, LsnOrder
<1>5. p.election_result = rollback_to_lsn(c.election_result, lsn)
  BY <1>1 DEF IsPast, MapNames
<1> HIDE DEF e, lsn, p, x
<1>6. ElectionResult(p) = ElectionResult(x) /\ IsElected(ElectionResult(x)) /\ view_change(x) = 0
  BY <1>1 DEF RefOK, ElectionResult, MapNames
<1>7. ElectionResult(x) = ElectionResult(d)
  <2>1. /\ ElectionResult(x).random = ElectionResult(d).random
        /\ ElectionResult(x).validators = ElectionResult(d).validators
        /\ ElectionResult(x).view_change = ElectionResult(d).view_change
    BY <1>3, <1>6 DEF Same, SameElection, view_change
  <2> QED BY <1>3, <1>6, <2>1 DEF IsElected
<1>8. Same(p, d)
  <2>1. SameMaps(p, x)
    BY <1>1 DEF SameMaps, MapNames
  <2>2. p.epoch = x.epoch /\ p.offset = x.offset
    BY <1>1 DEF RefOK, e
  <2> QED BY <1>3, <1>6, <2>1, <2>2 DEF Same, SameMaps, SameElection
<1>9. Contents(p) = Contents(d)
  BY <1>1, <1>3, <1>6, <1>8, SameContents DEF KeptBy
<1>10. election_result_by_offset(c, o) = ElectionResult(d)
  BY <1>2, <1>5, <1>6, <1>7 DEF election_result_by_offset, ElectionResult, lsn
<1>11. ASSUME NEW f \in MapNames
       PROVE  /\ HasLsn(c[f], lsn) => current_lsn(p[f]) = lsn
              /\ current_lsn(p[f]) <= lsn
  <2>1. p[f] = rollback_to_lsn(c[f], lsn)
    BY <1>1 DEF IsPast
  <2>2. IsMap(c[f], KeysOf[f]) /\ Sorted(c[f]) /\ c[f].checkpoint_lsn <= PreviousLsn(e, 0)
    BY <1>2 DEF IsChain, Ready, Stamped
  <2>3. c[f].checkpoint_lsn <= lsn
    BY <1>1, <1>4, <2>2 DEF IsMap
  <2> QED BY <1>1, <2>1, <2>2, <2>3, CurrentLsnAt
<1>12. current_lsn(p.block_by_hash) = lsn /\ current_lsn(p.election_result) = lsn
  BY <1>1, <1>11 DEF VersionIs, MapNames
<1>13. \A m \in {p.output_by_hash, p.balance, p.escrow, p.epoch_activity} : current_lsn(m) <= lsn
  BY <1>11 DEF MapNames
<1> QED BY <1>2, <1>9, <1>10, <1>12, <1>13 DEF e, lsn, p

-----------------------------------------------------------------------------
(* The chain after some of the macro blocks *)

IsMacros(m) == IsSeq(m) /\ \A i \in 1 .. Len(m) : IsMacro(m[i])

After(m, j) == RegisterMacros(NewChain, SubSeq(m, 1, j))

\* A macro block can be registered on top of c.
MacroReady(c) == IsChain(c, MacroLsn(c)) /\ Stamped(c, MacroLsn(c))

LEMMA NewChainReady == MacroReady(NewChain) /\ NewChain.epoch = 0
<1> DEFINE c == NewChain
           l == LSN(0, 0)
           lsn == LSN(0, MACRO_BLOCK_OFFSET)
           B == insert(new({Unit}), l, Unit, 0)
<1>1. l \in Nat /\ lsn \in Nat /\ l <= lsn /\ l \in Int /\ lsn \in Int
  <2>1. 0 \in Nat /\ MicroBlocksInEpoch \in Nat
    BY BlockchainAssumption
  <2>2. LSN(0, 0) \in Nat /\ LSN(0, MACRO_BLOCK_OFFSET) \in Nat
    BY <2>1, LsnFacts
  <2>3. 0 <= MicroBlocksInEpoch + 1
    BY <2>1
  <2>4. LSN(0, 0) <= LSN(0, MACRO_BLOCK_OFFSET)
    BY <2>1, <2>3, LsnFacts
  <2> QED BY <2>2, <2>4
<1>2. Ready(B, {Unit}, lsn) /\ B.checkpoint_lsn = 0
  <2>1. Ready(new({Unit}), {Unit}, l) /\ new({Unit}).checkpoint_lsn = 0
    BY <1>1, NewFacts
  <2> HIDE DEF l
  <2>2. Wrote(new({Unit}), B, {Unit}, l)
    BY <1>1, <2>1, InsertWrites
  <2> HIDE DEF B, lsn
  <2>3. IsMap(B, {Unit}) /\ Sorted(B) /\ UpTo(B, l) /\ B.checkpoint_lsn = 0
    BY <2>1, <2>2 DEF Wrote
  <2>4. UpTo(B, lsn)
    BY <1>1, <2>3 DEF UpTo, IsMap
  <2> QED BY <2>3, <2>4 DEF Ready
<1> HIDE DEF B
<1>3. /\ IsRecord(c) /\ c.epoch = 0 /\ c.offset = 0
      /\ c.block_by_hash = new(Lsns) /\ c.output_by_hash = new(Utxos)
      /\ c.balance = B /\ c.escrow = new(Utxos) /\ c.election_result = new({Unit})
      /\ c.epoch_activity = new(Validators)
  BY DEF NewChain, IsRecord, Fields, MapNames, B
<1> HIDE DEF c
<1>4. MacroLsn(c) = lsn
  BY <1>3 DEF MacroLsn
<1> HIDE DEF lsn
<1>5. ASSUME NEW f \in MapNames PROVE Ready(c[f], KeysOf[f], lsn) /\ c[f].checkpoint_lsn <= lsn
  <2>1. \A K : Ready(new(K), K, lsn) /\ new(K).checkpoint_lsn = 0
    BY <1>1, NewFacts
  <2>2. 0 <= lsn
    BY <1>1
  <2>3. CASE f = "balance"
    BY <1>2, <1>3, <2>2, <2>3, KeysFacts
  <2>4. CASE f # "balance"
    BY <1>3, <2>1, <2>2, <2>4, KeysFacts DEF MapNames
  <2> QED BY <2>3, <2>4
<1> QED BY <1>3, <1>4, <1>5 DEF MacroReady, IsChain, Stamped, c

LEMMA BaseReady ==
    ASSUME NEW c, IsBase(c)
    PROVE  MacroReady(c)
<1> DEFINE e == c.epoch
           l == PreviousLsn(e, 0)
           lsn == LSN(e, MACRO_BLOCK_OFFSET)
<1>1. e \in Nat /\ IsRecord(c) /\ c.offset = 0 /\ Stamped(c, l)
  BY DEF IsBase
<1>2. \A f \in MapNames, k \in Int : Ready(c[f], KeysOf[f], k)
  BY DEF IsBase
<1> HIDE DEF e
<1>3. l \in Int /\ lsn \in Int /\ l <= lsn
  <2>1. e \in Nat /\ 0 \in Nat
    BY <1>1
  <2>2. l \in Int /\ lsn \in Nat /\ lsn > l
    BY <2>1, LsnFacts
  <2> HIDE DEF l, lsn
  <2> QED BY <2>2
<1> HIDE DEF l, lsn
<1>4. IsChain(c, lsn)
  BY <1>1, <1>2, <1>3 DEF IsChain, e
<1>5. ASSUME NEW f \in MapNames PROVE c[f].checkpoint_lsn <= lsn
  <2>1. c[f].checkpoint_lsn \in Int /\ c[f].checkpoint_lsn <= l
    BY <1>1, <1>2, <1>3 DEF Stamped, Ready, IsMap
  <2> QED BY <1>3, <2>1
<1> QED BY <1>4, <1>5 DEF MacroReady, MacroLsn, Stamped, e, lsn

LEMMA TrackReady ==
    ASSUME NEW c, NEW base, IsBase(base), Tracks(c, base, <<>>)
    PROVE  MacroReady(c)
<1> DEFINE e == c.epoch
           l == PreviousLsn(e, 0)
           lsn == LSN(e, MACRO_BLOCK_OFFSET)
<1>1. e \in Nat /\ Stamped(c, l) /\ IsChain(c, LSN(e, 0))
  BY MicrosFacts DEF Tracks, IsBase
<1> HIDE DEF e
<1>3. l \in Int /\ lsn \in Int /\ l <= lsn /\ LSN(e, 0) \in Int /\ LSN(e, 0) <= lsn
  <2>1. e \in Nat /\ 0 \in Nat /\ 0 <= MicroBlocksInEpoch + 1
    BY <1>1, BlockchainAssumption
  <2>2. l \in Int /\ lsn \in Nat /\ lsn > l /\ LSN(e, 0) \in Nat /\ LSN(e, 0) <= lsn
    BY <2>1, LsnFacts
  <2> HIDE DEF l, lsn
  <2> QED BY <2>2
<1> HIDE DEF l, lsn
<1>4. IsChain(c, lsn)
  BY <1>1, <1>3, ReadyLater
<1>5. ASSUME NEW f \in MapNames PROVE c[f].checkpoint_lsn <= lsn
  <2>1. c[f].checkpoint_lsn \in Int /\ c[f].checkpoint_lsn <= l
    BY <1>1, <1>4 DEF Stamped, IsChain, Ready, IsMap
  <2> QED BY <1>3, <2>1
<1> QED BY <1>4, <1>5 DEF MacroReady, MacroLsn, Stamped, e, lsn

MacrosUnroll(m) ==
    /\ After(m, 0) = NewChain
    /\ After(m, Len(m)) = RegisterMacros(NewChain, m)
    /\ \A j \in 0 .. Len(m) - 1 : After(m, j + 1) = register_macro_block(After(m, j), m[j + 1])

LEMMA AfterUnroll ==
    ASSUME NEW s, IsSeq(s)
    PROVE  MacrosUnroll(s)
<1> DEFINE S(o) == SubSeq(s, 1, o)
<1>1. Len(s) \in Nat /\ \A o \in 0 .. Len(s) : Len(S(o)) = o /\ \A i \in 1 .. o : S(o)[i] = s[i]
  BY SeqFacts DEF Begins
<1> HIDE DEF S
<1>2. RegisterMacros(NewChain, S(0)) = NewChain
  BY <1>1, RegisterMacrosUnroll
<1>3. RegisterMacros(NewChain, S(Len(s))) = RegisterMacros(NewChain, s)
  BY <1>1, RegisterMacrosUnroll
<1>4. ASSUME NEW o \in 0 .. Len(s) - 1
      PROVE  RegisterMacros(NewChain, S(o + 1))
               = register_macro_block(RegisterMacros(NewChain, S(o)), s[o + 1])
  <2>1. o \in 0 .. Len(s) /\ o + 1 \in 0 .. Len(s) /\ o + 1 \in 1 .. o + 1
        /\ \A i \in 1 .. o : i \in 1 .. o + 1
    BY <1>1
  <2>2. /\ Len(S(o)) = o /\ Len(S(o + 1)) = o + 1 /\ o \in Nat
        /\ \A i \in 1 .. o : S(o + 1)[i] = S(o)[i]
        /\ S(o + 1)[o + 1] = s[o + 1]
    BY <1>1, <2>1
  <2> QED BY <2>2, RegisterMacrosUnroll
<1> QED BY <1>2, <1>3, <1>4 DEF After, S, MacrosUnroll

LEMMA AfterSame ==
    ASSUME NEW s, NEW t, IsSeq(s), IsSeq(t), NEW n \in Nat, Begins(s, t, n)
    PROVE  \A o \in 0 .. n : After(t, o) = After(s, o)
<1> SUFFICES ASSUME NEW o \in 0 .. n PROVE After(t, o) = After(s, o)
  OBVIOUS
<1> DEFINE x == SubSeq(s, 1, o)
           y == SubSeq(t, 1, o)
<1>1. o \in 0 .. Len(s) /\ o \in 0 .. Len(t) /\ \A i \in 1 .. o : t[i] = s[i]
  BY SeqFacts DEF Begins
<1>2. Len(x) = o /\ Len(y) = o /\ (\A i \in 1 .. o : x[i] = s[i]) /\ \A i \in 1 .. o : y[i] = t[i]
  BY <1>1, SeqFacts DEF Begins
<1> HIDE DEF x, y
<1>3. RegisterMacros(NewChain, y) = RegisterMacros(NewChain, x)
  BY <1>1, <1>2, RegisterMacrosUnroll
<1> QED BY <1>3 DEF After, x, y

LEMMA AfterFacts ==
    ASSUME NEW m, IsMacros(m)
    PROVE  \A j \in 0 .. Len(m) : LET c == After(m, j)
              IN  MacroReady(c) /\ c.epoch = j /\ (j > 0 => IsBase(c))
<1>1. IsSeq(m) /\ Len(m) \in Nat
  BY SeqFacts DEF IsMacros
<1>0. /\ After(m, 0) = NewChain
      /\ \A j \in 0 .. Len(m) - 1 : After(m, j + 1) = register_macro_block(After(m, j), m[j + 1])
  <2>1. MacrosUnroll(m)
    BY <1>1, AfterUnroll
  <2> QED BY <2>1 DEF MacrosUnroll
<1> DEFINE Good(c, j) == MacroReady(c) /\ c.epoch = j /\ (j > 0 => IsBase(c))
           T == {j \in Nat : j <= Len(m) => Good(After(m, j), j)}
<1>2. 0 \in T
  BY <1>0, NewChainReady
<1>3. ASSUME NEW j \in Nat, j \in T PROVE j + 1 \in T
  <2> SUFFICES ASSUME j + 1 <= Len(m) PROVE Good(After(m, j + 1), j + 1)
    OBVIOUS
  <2>1. j \in 0 .. Len(m) - 1 /\ j + 1 \in 1 .. Len(m) /\ Good(After(m, j), j)
    BY <1>1, <1>3
  <2>2. After(m, j + 1) = register_macro_block(After(m, j), m[j + 1])
    BY <1>0, <2>1
  <2>3. IsMacro(m[j + 1])
    BY <2>1 DEF IsMacros
  <2> DEFINE c == After(m, j)
             r == register_macro_block(c, m[j + 1])
  <2>4. IsChain(c, MacroLsn(c)) /\ Stamped(c, MacroLsn(c)) /\ c.epoch = j
    BY <2>1 DEF MacroReady
  <2> HIDE DEF c
  <2>5. IsBase(r) /\ r.epoch = j + 1
    BY <2>3, <2>4, MacroFacts
  <2> HIDE DEF r
  <2>6. MacroReady(r)
    BY <2>5, BaseReady
  <2> QED BY <2>2, <2>5, <2>6 DEF r, c
<1>4. Nat \subseteq T
  <2> HIDE DEF T
  <2> QED BY <1>2, <1>3, NumberInduction
<1> QED BY <1>1, <1>4

-----------------------------------------------------------------------------
(* The cache of macro blocks *)

Smaller(i, j) == IF i <= j THEN i ELSE j

\* q has the last of the first j blocks of m, as many as the cache can hold.
LastOf(q, m, j) ==
    LET k == Smaller(j, StakeEpochs + 1)
    IN  IsSeq(q) /\ Len(q) = k /\ \A i \in 1 .. k : q[i] = m[(j - k) + i]

LEMMA CachePush ==
    ASSUME NEW q, NEW m, NEW j \in Nat, LastOf(q, m, j)
    PROVE  LastOf(cache_push_block(q, m[j + 1]), m, j + 1)
<1> DEFINE W == StakeEpochs + 1
           b == m[j + 1]
           r == cache_push_block(q, b)
<1>1. W \in Nat /\ W > 0
  BY BlockchainAssumption
<1>2. IsSeq(q)
  BY DEF LastOf
<1>3. CASE j < W
  <2>1. Smaller(j, W) = j /\ Smaller(j + 1, W) = j + 1
    BY <1>1, <1>3 DEF Smaller
  <2>2. Len(q) = j /\ \A i \in 1 .. j : q[i] = m[i]
    <3>1. \A i \in 1 .. j : (j - j) + i = i
      OBVIOUS
    <3> QED BY <2>1, <3>1 DEF LastOf
  <2>3. r = Append(q, b)
    BY <1>1, <1>3, <2>2 DEF cache_push_block
  <2> HIDE DEF r, b, W
  <2>4. IsSeq(r) /\ Len(r) = j + 1 /\ (\A i \in 1 .. j : r[i] = q[i]) /\ r[j + 1] = b
    BY <1>2, <2>2, <2>3, SeqFacts DEF Begins
  <2>5. ASSUME NEW i \in 1 .. j + 1 PROVE r[i] = m[((j + 1) - (j + 1)) + i]
    <3>1. ((j + 1) - (j + 1)) + i = i /\ (i \in 1 .. j \/ i = j + 1)
      OBVIOUS
    <3> QED BY <2>2, <2>4, <3>1 DEF b
  <2>6. LastOf(r, m, j + 1)
    BY <2>1, <2>4, <2>5 DEF LastOf, W
  <2> QED BY <2>6 DEF r, b
<1>4. CASE j >= W
  <2>1. Smaller(j, W) = W /\ Smaller(j + 1, W) = W
    BY <1>1, <1>4 DEF Smaller
  <2>2. Len(q) = W /\ \A i \in 1 .. W : q[i] = m[(j - W) + i]
    BY <2>1 DEF LastOf
  <2> DEFINE t == Tail(q)
  <2>3. r = Append(t, b)
    BY <2>2 DEF cache_push_block
  <2> HIDE DEF r, b, W
  <2>4. IsSeq(t) /\ Len(t) = W - 1 /\ \A i \in 1 .. Len(t) : t[i] = q[i + 1]
    BY <1>1, <1>2, <2>2, SeqTail
  <2> HIDE DEF t
  <2>5. IsSeq(r) /\ Len(r) = W /\ (\A i \in 1 .. W - 1 : r[i] = t[i]) /\ r[W] = b
    <3>1. IsSeq(r) /\ Len(r) = Len(t) + 1 /\ Begins(t, r, Len(t)) /\ r[Len(t) + 1] = b
      BY <2>3, <2>4, SeqFacts
    <3>2. Len(t) + 1 = W
      BY <1>1, <2>4
    <3> QED BY <2>4, <3>1, <3>2 DEF Begins
  <2>6. ASSUME NEW i \in 1 .. W PROVE r[i] = m[((j + 1) - W) + i]
    <3>1. CASE i \in 1 .. W - 1
      <4>1. i + 1 \in 1 .. W /\ (j - W) + (i + 1) = ((j + 1) - W) + i
        BY <1>1, <3>1
      <4>2. r[i] = q[i + 1]
        BY <2>4, <2>5, <3>1
      <4>3. q[i + 1] = m[(j - W) + (i + 1)]
        BY <2>2, <4>1
      <4> QED BY <4>1, <4>2, <4>3
    <3>2. CASE i = W
      <4>1. ((j + 1) - W) + i = j + 1
        BY <1>1, <3>2
      <4> QED BY <2>5, <3>2, <4>1 DEF b
    <3> QED BY <1>1, <3>1, <3>2
  <2>7. LastOf(r, m, j + 1)
    BY <2>1, <2>5, <2>6 DEF LastOf, W
  <2> QED BY <2>7 DEF r, b
<1> QED BY <1>1, <1>3, <1>4

LEMMA EmptyCache == \A m : LastOf(<<>>, m, 0)
<1>1. Smaller(0, StakeEpochs + 1) = 0
  BY BlockchainAssumption DEF Smaller
<1>2. IsSeq(<<>>) /\ Len(<<>>) = 0
  BY DEF IsSeq
<1> QED BY <1>1, <1>2 DEF LastOf

LEMMA CacheOfIsLast ==
    ASSUME NEW t, Len(t) \in Nat
    PROVE  LastOf(CacheOf(t), t, Len(t))
<1> DEFINE n == Len(t)
           g == CHOOSE h : CacheRun(h, t, n)
<1>1. CacheRun(g, t, n)
  BY CacheRunExists
<1>2. CacheOf(t) = g[n]
  BY DEF CacheOf, CacheRun
<1> HIDE DEF g
<1>3. g[0] = <<>> /\ \A k \in 1 .. n : g[k] = cache_push_block(g[k - 1], t[k])
  BY <1>1 DEF CacheRun
<1> DEFINE T == {k \in Nat : k <= n => LastOf(g[k], t, k)}
<1>4. 0 \in T
  BY <1>3, EmptyCache
<1>5. ASSUME NEW k \in Nat, k \in T PROVE k + 1 \in T
  <2> SUFFICES ASSUME k + 1 <= n PROVE LastOf(g[k + 1], t, k + 1)
    OBVIOUS
  <2>1. k + 1 \in 1 .. n /\ (k + 1) - 1 = k /\ LastOf(g[k], t, k)
    BY <1>5
  <2>2. g[k + 1] = cache_push_block(g[k], t[k + 1])
    BY <1>3, <2>1
  <2> QED BY <2>1, <2>2, CachePush
<1>6. Nat \subseteq T
  <2> HIDE DEF T
  <2> QED BY <1>4, <1>5, NumberInduction
<1> QED BY <1>2, <1>6

LEMMA CacheOfChain ==
    ASSUME NEW m, IsMacros(m)
    PROVE  \A j \in 0 .. Len(m) : LastOf(After(m, j).cache, m, j)
<1>1. IsSeq(m) /\ Len(m) \in Nat
  BY SeqFacts DEF IsMacros
<1>0. /\ After(m, 0) = NewChain
      /\ \A j \in 0 .. Len(m) - 1 : After(m, j + 1) = register_macro_block(After(m, j), m[j + 1])
  <2>1. MacrosUnroll(m)
    BY <1>1, AfterUnroll
  <2> QED BY <2>1 DEF MacrosUnroll
<1> DEFINE T == {j \in Nat : j <= Len(m) => LastOf(After(m, j).cache, m, j)}
<1>2. 0 \in T
  <2>1. NewChain.cache = <<>>
    BY DEF NewChain
  <2> QED BY <1>0, <2>1, EmptyCache
<1>3. ASSUME NEW j \in Nat, j \in T PROVE j + 1 \in T
  <2> SUFFICES ASSUME j + 1 <= Len(m) PROVE LastOf(After(m, j + 1).cache, m, j + 1)
    OBVIOUS
  <2> DEFINE c == After(m, j)
             r == register_macro_block(c, m[j + 1])
  <2>1. j \in 0 .. Len(m) - 1 /\ j + 1 \in 1 .. Len(m) /\ LastOf(c.cache, m, j) /\ j \in 0 .. Len(m)
    BY <1>1, <1>3
  <2>2. After(m, j + 1) = r
    BY <1>0, <2>1
  <2>3. IsMacro(m[j + 1])
    BY <2>1 DEF IsMacros
  <2>4. MacroReady(c)
    BY <2>1, AfterFacts
  <2> HIDE DEF c
  <2>5. r.cache = cache_push_block(c.cache, m[j + 1])
    BY <2>3, <2>4, MacroFacts DEF MacroReady
  <2> HIDE DEF r
  <2> QED BY <2>1, <2>2, <2>5, CachePush
<1>4. Nat \subseteq T
  <2> HIDE DEF T
  <2> QED BY <1>2, <1>3, NumberInduction
<1> QED BY <1>1, <1>4

\* The cache that a fast recovery fills with the newest macro blocks.
LEMMA RecoveredCache ==
    ASSUME NEW m, IsMacros(m), Len(m) > 0
    PROVE  LET epoch == Len(m) - 1
               oldest == IF epoch > StakeEpochs + 1 THEN epoch - (StakeEpochs + 1) ELSE 0
           IN  CacheOf(SubSeq(m, oldest + 1, Len(m))) = After(m, Len(m)).cache
<1> DEFINE n == Len(m)
           W == StakeEpochs + 1
           a == IF n - 1 > W THEN (n - 1) - W ELSE 0
           t == SubSeq(m, a + 1, n)
           q == CacheOf(t)
           r == After(m, n).cache
           k == Smaller(n, W)
<1>1. n \in Nat /\ W \in Nat /\ a \in Nat /\ a < n /\ k \in Nat /\ k <= n - a /\ k <= n
  <2>1. n \in Nat /\ n > 0
    BY SeqFacts DEF IsMacros
  <2>2. W \in Nat
    BY BlockchainAssumption
  <2> HIDE DEF n, W
  <2> QED BY <2>1, <2>2 DEF Smaller
<1>2. Smaller(n - a, W) = k
  BY <1>1 DEF Smaller
<1>3. Len(t) = n - a /\ \A i \in 1 .. n - a : t[i] = m[a + i]
  <2> DEFINE U == {m[i] : i \in 1 .. n}
  <2>1. m \in Seq(U)
    BY DEF IsMacros, IsSeq
  <2> HIDE DEF U, a
  <2>2. Len(t) = n - a
    BY <1>1, <2>1
  <2>3. \A i \in 1 .. n - a : t[i] = m[(a + 1) + i - 1]
    BY <1>1, <2>1
  <2>4. \A i \in 1 .. n - a : (a + 1) + i - 1 = a + i
    BY <1>1
  <2> QED BY <2>2, <2>3, <2>4
<1> HIDE DEF a, t, W
<1>4. LastOf(q, t, n - a)
  <2>1. n - a \in Nat
    BY <1>1
  <2> QED BY <1>3, <2>1, CacheOfIsLast
<1>5. LastOf(r, m, n)
  <2>1. n \in 0 .. n
    BY <1>1
  <2> QED BY <2>1, CacheOfChain
<1> HIDE DEF q, r, n, k
<1>6. IsSeq(q) /\ Len(q) = k /\ \A i \in 1 .. k : q[i] = t[((n - a) - k) + i]
  BY <1>2, <1>4 DEF LastOf, W
<1>7. IsSeq(r) /\ Len(r) = k /\ \A i \in 1 .. k : r[i] = m[(n - k) + i]
  BY <1>5 DEF LastOf, W, k
<1>8. ASSUME NEW i \in 1 .. k PROVE q[i] = r[i]
  <2>1. ((n - a) - k) + i \in 1 .. n - a /\ a + (((n - a) - k) + i) = (n - k) + i
    BY <1>1
  <2> QED BY <1>3, <1>6, <1>7, <2>1
<1>9. q = r
  BY <1>1, <1>6, <1>7, <1>8 DEF IsSeq
<1> QED BY <1>9 DEF q, r, t, a, n, W

-----------------------------------------------------------------------------
(* Snapshots and fast recovery *)

\* The maps that are stored.
StoredMaps == {"block_by_hash", "output_by_hash", "escrow"}

\* What is stored besides them is that of the chain b.
MetadataIs(s, b) ==
    /\ s.epoch = b.epoch - 1
    /\ s.balance = b.balance.map[Unit] /\ s.election_result = ElectionResult(b)
    /\ s.awards = b.awards

SnapshotIs(s, b) == MetadataIs(s, b) /\ \A f \in StoredMaps : s[f] = b[f].map

\* The chain that a fast recovery starts from.
Start(s) ==
    LET lsn == LSN(s.epoch, MACRO_BLOCK_OFFSET)
    IN  [NewChain EXCEPT
            !.epoch = s.epoch + 1,
            !.election_result = insert(@, lsn, Unit, s.election_result),
            !.balance = insert(@, lsn, Unit, s.balance),
            !.block_by_hash = InsertAll(@, lsn, s.block_by_hash),
            !.output_by_hash = InsertAll(@, lsn, s.output_by_hash),
            !.escrow = InsertAll(@, lsn, s.escrow),
            !.awards = s.awards]

\* The maps of c after Start, filled with the contents of b.
Fills(c, b, lsn) ==
    /\ Writes(NewChain, c, lsn)
    /\ \A f \in MapNames : c[f].map = b[f].map
    /\ HasLsn(c.block_by_hash, lsn) /\ HasLsn(c.election_result, lsn)

LEMMA GenesisStays ==
    ASSUME NEW m, IsMacros(m), Len(m) > 0, m[1] = Genesis
    PROVE  \A j \in 1 .. Len(m) : LET c == After(m, j)
              IN  /\ c.block_by_hash.map[LSN(0, MACRO_BLOCK_OFFSET)] = Genesis
                  /\ c.epoch_activity = new(Validators)
<1> DEFINE key == LSN(0, MACRO_BLOCK_OFFSET)
           Good(j) == /\ After(m, j).block_by_hash.map[key] = Genesis
                      /\ After(m, j).epoch_activity = new(Validators)
           T == {j \in Nat : j + 1 <= Len(m) => Good(j + 1)}
<1>1. IsSeq(m) /\ Len(m) \in Nat
  BY SeqFacts DEF IsMacros
<1>2. key \in Lsns /\ key \in Nat /\ \A e \in Nat : e > 0 => LSN(e, MACRO_BLOCK_OFFSET) # key
  <2> DEFINE w == MicroBlocksInEpoch + 2
             a == MACRO_BLOCK_OFFSET
  <2>1. w \in Nat /\ w > 0 /\ MaxEpoch \in Nat /\ a \in Nat
    BY BlockchainAssumption DEF MACRO_BLOCK_OFFSET
  <2>2. \A e \in Nat : LSN(e, a) = e * w + a /\ e * w \in Nat /\ (e > 0 => e * w > 0)
    BY <2>1 DEF LSN
  <2>3. LSN(0, a) = a
    BY <2>1 DEF LSN
  <2> HIDE DEF w, a
  <2>4. LSN(MaxEpoch, a) >= a /\ LSN(MaxEpoch, a) \in Nat
    <3> DEFINE p == MaxEpoch * w
    <3>1. LSN(MaxEpoch, a) = p + a /\ p \in Nat
      BY <2>1, <2>2
    <3> HIDE DEF p
    <3> QED BY <2>1, <3>1
  <2>5. Lsns = 0 .. LSN(MaxEpoch, a)
    BY DEF Lsns, a
  <2>6. a \in Lsns
    BY <2>1, <2>4, <2>5
  <2>7. \A e \in Nat : e > 0 => LSN(e, a) # a
    BY <2>1, <2>2
  <2> QED BY <2>1, <2>3, <2>6, <2>7 DEF a
<1>3. /\ After(m, 0) = NewChain
      /\ \A j \in 0 .. Len(m) - 1 : After(m, j + 1) = register_macro_block(After(m, j), m[j + 1])
  <2>1. MacrosUnroll(m)
    BY <1>1, AfterUnroll
  <2> QED BY <2>1 DEF MacrosUnroll
<1>4. ASSUME NEW j \in 0 .. Len(m) - 1
      PROVE  LET c == After(m, j)
                 r == After(m, j + 1)
             IN  /\ c.epoch = j /\ r.epoch_activity = new(Validators)
                 /\ r.block_by_hash.map = [c.block_by_hash.map EXCEPT ![MacroLsn(c)] = m[j + 1]]
                 /\ c.block_by_hash.map = [k \in Lsns |-> c.block_by_hash.map[k]]
  <2> DEFINE c == After(m, j)
             b == m[j + 1]
             q == UpdateMetadata(c, b)
             r == register_macro_block(c, b)
  <2>1. j + 1 \in 1 .. Len(m) /\ j \in 0 .. Len(m)
    BY <1>1
  <2>2. MacroReady(c) /\ c.epoch = j
    BY <2>1, AfterFacts
  <2>3. After(m, j + 1) = r
    BY <1>3
  <2>4. IsMacro(b)
    BY <2>1 DEF IsMacros
  <2> HIDE DEF c, b
  <2>5. r.epoch_activity = new(Validators) /\ r.block_by_hash.map = q.block_by_hash.map
    BY <2>2, <2>4, MacroFacts DEF MacroReady, MapNames
  <2>6. AfterMacro(c, q, b)
    BY <2>2, <2>4, MetadataFacts DEF MacroReady
  <2> HIDE DEF q, r
  <2>7. q.block_by_hash.map = [c.block_by_hash.map EXCEPT ![MacroLsn(c)] = b]
    BY <2>6 DEF AfterMacro
  <2>8. c.block_by_hash.map = [k \in Lsns |-> c.block_by_hash.map[k]]
    BY <2>2, ChainFacts DEF MacroReady, Ready, IsMap
  <2> QED BY <2>2, <2>3, <2>5, <2>7, <2>8 DEF c, b
<1> HIDE DEF key
<1>5. 0 \in T
  <2>1. 0 \in 0 .. Len(m) - 1 /\ 0 + 1 = 1
    BY <1>1
  <2> DEFINE c == After(m, 0)
             r == After(m, 1)
  <2>2. /\ c.epoch = 0 /\ r.epoch_activity = new(Validators)
        /\ r.block_by_hash.map = [c.block_by_hash.map EXCEPT ![MacroLsn(c)] = m[1]]
        /\ c.block_by_hash.map = [k \in Lsns |-> c.block_by_hash.map[k]]
    BY <1>4, <2>1
  <2>3. MacroLsn(c) = key
    BY <2>2 DEF MacroLsn, key
  <2> HIDE DEF c, r
  <2>4. r.block_by_hash.map[key] = Genesis
    BY <1>2, <2>2, <2>3
  <2> QED BY <2>1, <2>2, <2>4 DEF r
<1>6. ASSUME NEW j \in Nat, j \in T PROVE j + 1 \in T
  <2> SUFFICES ASSUME (j + 1) + 1 <= Len(m) PROVE Good((j + 1) + 1)
    OBVIOUS
  <2> DEFINE i == j + 1
             c == After(m, i)
             r == After(m, i + 1)
  <2>1. i \in 0 .. Len(m) - 1 /\ i \in Nat /\ i > 0 /\ Good(i)
    BY <1>1, <1>6
  <2>2. /\ c.epoch = i /\ r.epoch_activity = new(Validators)
        /\ r.block_by_hash.map = [c.block_by_hash.map EXCEPT ![MacroLsn(c)] = m[i + 1]]
        /\ c.block_by_hash.map = [k \in Lsns |-> c.block_by_hash.map[k]]
    BY <1>4, <2>1
  <2> HIDE DEF i
  <2>3. MacroLsn(c) # key
    BY <1>2, <2>1, <2>2 DEF MacroLsn
  <2>4. c.block_by_hash.map[key] = Genesis
    BY <2>1
  <2> HIDE DEF c, r
  <2>5. r.block_by_hash.map[key] = Genesis
    BY <1>2, <2>2, <2>3, <2>4
  <2> QED BY <2>2, <2>5 DEF r, i
<1>7. Nat \subseteq T
  <2> HIDE DEF T
  <2> QED BY <1>5, <1>6, NumberInduction
<1>8. ASSUME NEW j \in 1 .. Len(m) PROVE Good(j)
  <2>1. j - 1 \in T /\ (j - 1) + 1 = j
    BY <1>1, <1>7
  <2> QED BY <1>1, <2>1
<1> QED BY <1>8 DEF key

\* A new map is filled.
LEMMA FillFacts ==
    ASSUME NEW K, IsFiniteSet(K), NEW lsn \in Int, NEW contents, contents = [k \in K |-> contents[k]]
    PROVE  LET p == InsertAll(new(K), lsn, contents)
           IN  /\ Wrote(new(K), p, K, lsn) /\ p.map = contents
               /\ (\E k \in K : contents[k] # NoValue) => HasLsn(p, lsn)
<1> DEFINE m == new(K)
           p == InsertAll(m, lsn, contents)
           G == Given(contents)
<1>1. Ready(m, K, lsn) /\ m.map = [k \in K |-> NoValue]
  BY NewFacts
<1>2. m.undo = <<>> /\ Len(m.undo) = 0
  BY DEF new
<1>3. G \subseteq K /\ (\A k \in K : k \in G <=> contents[k] # NoValue)
  BY DEF Given
<1>4. IsFiniteSet(G)
  BY <1>3, FS_Subset
<1> HIDE DEF m
<1>5. /\ Wrote(m, p, K, lsn)
      /\ p.map = [k \in K |-> IF k \in G THEN contents[k] ELSE m.map[k]]
      /\ \A k \in G : Recorded(p, k)
  BY <1>1, <1>3, <1>4, InsertAllFacts
<1> HIDE DEF p, G
<1>6. p.map = contents
  BY <1>1, <1>3, <1>5
<1>7. ASSUME NEW k \in K, contents[k] # NoValue PROVE HasLsn(p, lsn)
  <2>1. PICK i \in 1 .. Len(p.undo) : p.undo[i].key = k
    BY <1>3, <1>5, <1>7 DEF Recorded
  <2>2. Len(p.undo) \in Nat
    BY <1>5, LenIsNat DEF Wrote
  <2>3. p.undo[i].lsn = lsn
    BY <1>2, <1>5, <2>1, <2>2 DEF Wrote
  <2> QED BY <2>1, <2>3 DEF HasLsn
<1> QED BY <1>5, <1>6, <1>7 DEF p, m

\* A map with one entry.
Single(v) == [k \in {Unit} |-> v]

LEMMA UnitFacts ==
    ASSUME NEW m, NEW lsn \in Int, Ready(m, {Unit}, lsn), NEW v
    PROVE  LET p == insert(m, lsn, Unit, v)
           IN  /\ Wrote(m, p, {Unit}, lsn) /\ HasLsn(p, lsn)
               /\ p.map = Single(v)
<1> DEFINE p == insert(m, lsn, Unit, v)
<1>1. /\ Wrote(m, p, {Unit}, lsn) /\ p.map = [m.map EXCEPT ![Unit] = v]
      /\ current_lsn(p) = lsn
  BY InsertWrites
<1>2. m.map = [k \in {Unit} |-> m.map[k]]
  BY DEF Ready, IsMap
<1> HIDE DEF p
<1>3. p.map = Single(v)
  BY <1>1, <1>2 DEF Single
<1>4. HasLsn(p, lsn)
  BY <1>1, WroteReady, HasCurrentLsn
<1> QED BY <1>1, <1>3, <1>4 DEF p

\* A chain with macro blocks that a snapshot can be taken of.
IsGrown(b) ==
    /\ IsBase(b) /\ b.epoch > 0 /\ b.epoch_activity = new(Validators)
    /\ b.block_by_hash.map[LSN(0, MACRO_BLOCK_OFFSET)] = Genesis

LEMMA StartFields ==
    ASSUME NEW s, NEW lsn, lsn = LSN(s.epoch, MACRO_BLOCK_OFFSET)
    PROVE  LET c == Start(s)
           IN  /\ IsRecord(c) /\ c.epoch = s.epoch + 1 /\ c.offset = 0 /\ c.awards = s.awards
               /\ c.block_by_hash = InsertAll(new(Lsns), lsn, s.block_by_hash)
               /\ c.output_by_hash = InsertAll(new(Utxos), lsn, s.output_by_hash)
               /\ c.escrow = InsertAll(new(Utxos), lsn, s.escrow)
               /\ c.balance = insert(NewChain.balance, lsn, Unit, s.balance)
               /\ c.election_result = insert(new({Unit}), lsn, Unit, s.election_result)
               /\ c.epoch_activity = new(Validators)
<1> DEFINE c == Start(s)
           n == NewChain
           A(K, f) == InsertAll(new(K), lsn, f)
           I(m, v) == insert(m, lsn, Unit, v)
<1>1. /\ IsRecord(n) /\ n.offset = 0
      /\ n.block_by_hash = new(Lsns) /\ n.output_by_hash = new(Utxos)
      /\ n.escrow = new(Utxos) /\ n.election_result = new({Unit})
      /\ n.epoch_activity = new(Validators)
  BY DEF NewChain, IsRecord, Fields, MapNames
<1>2. c = [n EXCEPT
            !.epoch = s.epoch + 1,
            !.election_result = I(n.election_result, s.election_result),
            !.balance = I(n.balance, s.balance),
            !.block_by_hash = A(Lsns, s.block_by_hash),
            !.output_by_hash = A(Utxos, s.output_by_hash),
            !.escrow = A(Utxos, s.escrow),
            !.awards = s.awards]
  <2> HIDE DEF n
  <2> QED BY <1>1 DEF Start, n
<1> HIDE DEF n, A, I, c
<1>3. /\ IsRecord(c) /\ c.epoch = s.epoch + 1 /\ c.offset = 0 /\ c.awards = s.awards
      /\ c.epoch_activity = new(Validators)
  BY <1>1, <1>2 DEF IsRecord, Fields, MapNames
<1>4. /\ c.block_by_hash = A(Lsns, s.block_by_hash)
      /\ c.output_by_hash = A(Utxos, s.output_by_hash)
      /\ c.escrow = A(Utxos, s.escrow)
      /\ c.balance = I(n.balance, s.balance)
      /\ c.election_result = I(n.election_result, s.election_result)
  BY <1>1, <1>2 DEF IsRecord, Fields, MapNames
<1> QED BY <1>1, <1>3, <1>4 DEF c, A, I, n

LEMMA StartFills ==
    ASSUME NEW s, NEW b, IsGrown(b), SnapshotIs(s, b)
    PROVE  LET c == Start(s)
               lsn == PreviousLsn(b.epoch, 0)
           IN  /\ c.epoch = b.epoch /\ c.offset = 0 /\ c.awards = b.awards
               /\ lsn \in Int /\ MacroLsn(NewChain) <= lsn
               /\ Fills(c, b, lsn)
<1> DEFINE c == Start(s)
           e == b.epoch
           lsn == PreviousLsn(e, 0)
           n == NewChain
<1>1. e \in Nat /\ e > 0 /\ IsBase(b) /\ s.epoch = e - 1
  BY DEF IsGrown, IsBase, SnapshotIs, MetadataIs
<1>2. lsn = LSN(s.epoch, MACRO_BLOCK_OFFSET) /\ lsn \in Int
  <2> HIDE DEF e
  <2>1. e - 1 \in Nat /\ (e - 1) + 1 = e /\ 0 \in Nat
    BY <1>1
  <2>2. LSN(e - 1, MACRO_BLOCK_OFFSET) = PreviousLsn((e - 1) + 1, 0)
    BY <2>1, LsnFacts
  <2>3. LSN(e - 1, MACRO_BLOCK_OFFSET) \in Nat
    BY <2>1, LsnFacts
  <2> QED BY <1>1, <2>1, <2>2, <2>3
<1>3. MacroLsn(n) <= lsn /\ MacroLsn(n) \in Int
  <2> DEFINE w == MicroBlocksInEpoch + 2
             a == MACRO_BLOCK_OFFSET
             p == (e - 1) * w
  <2>1. w \in Nat /\ a \in Nat /\ p \in Nat
    <3> HIDE DEF e
    <3> QED BY <1>1, BlockchainAssumption DEF MACRO_BLOCK_OFFSET
  <2>2. MacroLsn(n) = a
    BY <2>1, NewChainReady DEF MacroLsn, LSN
  <2>3. lsn = p + a
    BY <1>1, <1>2 DEF LSN
  <2> HIDE DEF p, a, lsn
  <2> QED BY <2>1, <2>2, <2>3
<1>4. /\ IsRecord(c) /\ c.epoch = s.epoch + 1 /\ c.offset = 0 /\ c.awards = s.awards
      /\ c.block_by_hash = InsertAll(new(Lsns), lsn, s.block_by_hash)
      /\ c.output_by_hash = InsertAll(new(Utxos), lsn, s.output_by_hash)
      /\ c.escrow = InsertAll(new(Utxos), lsn, s.escrow)
      /\ c.balance = insert(n.balance, lsn, Unit, s.balance)
      /\ c.election_result = insert(new({Unit}), lsn, Unit, s.election_result)
      /\ c.epoch_activity = new(Validators)
  BY <1>2, StartFields
<1>5. /\ n.block_by_hash = new(Lsns) /\ n.output_by_hash = new(Utxos)
      /\ n.escrow = new(Utxos) /\ n.election_result = new({Unit})
      /\ n.epoch_activity = new(Validators)
  BY DEF NewChain
<1>6. IsChain(n, lsn)
  BY <1>2, <1>3, NewChainReady, ReadyLater DEF MacroReady
<1>7. /\ s.block_by_hash = b.block_by_hash.map /\ s.output_by_hash = b.output_by_hash.map
      /\ s.escrow = b.escrow.map /\ s.balance = b.balance.map[Unit]
      /\ s.election_result = b.election_result.map[Unit] /\ s.awards = b.awards
  BY DEF SnapshotIs, MetadataIs, StoredMaps, ElectionResult
<1>8. /\ b.block_by_hash.map = [k \in Lsns |-> b.block_by_hash.map[k]]
      /\ b.output_by_hash.map = [k \in Utxos |-> b.output_by_hash.map[k]]
      /\ b.escrow.map = [k \in Utxos |-> b.escrow.map[k]]
      /\ b.balance.map = [k \in {Unit} |-> b.balance.map[k]]
      /\ b.election_result.map = [k \in {Unit} |-> b.election_result.map[k]]
  <2>1. \A f \in MapNames : b[f].map = [k \in KeysOf[f] |-> b[f].map[k]]
    BY <1>1, <1>2 DEF IsBase, Ready, IsMap
  <2> QED BY <2>1, KeysFacts DEF MapNames
<1>9. \E k \in Lsns : b.block_by_hash.map[k] # NoValue
  <2> DEFINE key == LSN(0, MACRO_BLOCK_OFFSET)
  <2>1. key \in Lsns
    <3> DEFINE w == MicroBlocksInEpoch + 2
               a == MACRO_BLOCK_OFFSET
               p == MaxEpoch * w
    <3>1. w \in Nat /\ MaxEpoch \in Nat /\ a \in Nat /\ p \in Nat
      BY BlockchainAssumption DEF MACRO_BLOCK_OFFSET
    <3>2. LSN(MaxEpoch, a) = p + a /\ LSN(0, a) = a
      BY <3>1 DEF LSN
    <3> HIDE DEF p, a
    <3>3. a \in 0 .. p + a
      BY <3>1
    <3> QED BY <3>2, <3>3 DEF Lsns, a
  <2>2. b.block_by_hash.map[key] # NoValue
    BY GenesisAssumption DEF IsGrown
  <2> QED BY <2>1, <2>2
<1>10. IsFiniteSet(Lsns) /\ IsFiniteSet(Utxos)
  <2>1. LSN(MaxEpoch, MACRO_BLOCK_OFFSET) \in Nat
    BY LsnFacts, BlockchainAssumption
  <2> QED BY <2>1, BlockchainAssumption, FS_Interval DEF Lsns
<1> HIDE DEF lsn, c, n
<1>11. Wrote(n.block_by_hash, c.block_by_hash, Lsns, lsn) /\ c.block_by_hash.map = b.block_by_hash.map
       /\ HasLsn(c.block_by_hash, lsn)
  BY <1>2, <1>4, <1>5, <1>7, <1>8, <1>9, <1>10, FillFacts
<1>12. Wrote(n.output_by_hash, c.output_by_hash, Utxos, lsn) /\ c.output_by_hash.map = b.output_by_hash.map
  BY <1>2, <1>4, <1>5, <1>7, <1>8, <1>10, FillFacts
<1>13. Wrote(n.escrow, c.escrow, Utxos, lsn) /\ c.escrow.map = b.escrow.map
  BY <1>2, <1>4, <1>5, <1>7, <1>8, <1>10, FillFacts
<1>14. Wrote(n.balance, c.balance, {Unit}, lsn) /\ c.balance.map = b.balance.map
  <2>1. Ready(n.balance, {Unit}, lsn)
    BY <1>6, ChainFacts
  <2>2. Wrote(n.balance, c.balance, {Unit}, lsn) /\ c.balance.map = Single(s.balance)
    <3> DEFINE m == n.balance
               v == s.balance
    <3>1. c.balance = insert(m, lsn, Unit, v) /\ lsn \in Int
      BY <1>2, <1>4
    <3>2. Ready(m, {Unit}, lsn)
      BY <2>1
    <3> HIDE DEF m, v
    <3>3. Wrote(m, c.balance, {Unit}, lsn) /\ c.balance.map = Single(v)
      BY <3>1, <3>2, UnitFacts
    <3> QED BY <3>3 DEF m, v
  <2> QED BY <1>7, <1>8, <2>2 DEF Single
<1>15. /\ Wrote(n.election_result, c.election_result, {Unit}, lsn) /\ HasLsn(c.election_result, lsn)
       /\ c.election_result.map = b.election_result.map
  <2>1. Ready(n.election_result, {Unit}, lsn)
    BY <1>6, ChainFacts
  <2>2. /\ Wrote(n.election_result, c.election_result, {Unit}, lsn) /\ HasLsn(c.election_result, lsn)
        /\ c.election_result.map = Single(s.election_result)
    BY <1>2, <1>4, <1>5, <2>1, UnitFacts
  <2> QED BY <1>7, <1>8, <2>2 DEF Single
<1>16. Wrote(n.epoch_activity, c.epoch_activity, Validators, lsn) /\ c.epoch_activity.map = b.epoch_activity.map
  <2>1. Ready(n.epoch_activity, Validators, lsn)
    BY <1>6, ChainFacts
  <2>2. c.epoch_activity = n.epoch_activity /\ b.epoch_activity = c.epoch_activity
    BY <1>4, <1>5 DEF IsGrown
  <2> QED BY <2>1, <2>2, WroteNothing
<1>17. Writes(n, c, lsn)
  BY <1>4, <1>11, <1>12, <1>13, <1>14, <1>15, <1>16, KeysFacts DEF Writes, MapNames
<1>18. Fills(c, b, lsn)
  BY <1>11, <1>12, <1>13, <1>14, <1>15, <1>16, <1>17 DEF Fills, MapNames, n
<1>19. c.epoch = e
  BY <1>1, <1>4
<1> QED BY <1>2, <1>3, <1>4, <1>7, <1>18, <1>19 DEF c, n, lsn

LEMMA StartTracks ==
    ASSUME NEW s, NEW b, IsGrown(b), SnapshotIs(s, b)
    PROVE  LET c == Start(s)
           IN  Tracks(c, b, <<>>) /\ c.awards = b.awards /\ view_change(c) = 0
<1> DEFINE c == Start(s)
           e == b.epoch
           lsn == PreviousLsn(e, 0)
           n == NewChain
<1>1. /\ c.epoch = e /\ c.offset = 0 /\ c.awards = b.awards /\ lsn \in Int
      /\ MacroLsn(n) <= lsn /\ Fills(c, b, lsn)
  BY StartFills
<1>2. IsBase(b) /\ e \in Nat /\ IsMicros(<<>>) /\ Len(<<>>) = 0
  BY MicrosFacts DEF IsGrown, IsBase
<1>3. Ref(b, <<>>, 0) = b
  <2>1. Unrolls(b, <<>>)
    BY <1>2, RefUnroll DEF IsMicros
  <2> QED BY <2>1 DEF Unrolls
<1> HIDE DEF c, e
<1>4. LSN(e, 0) \in Int /\ lsn <= LSN(e, 0)
  <2>1. e \in Nat /\ 0 \in Nat
    BY <1>2
  <2>2. lsn = LSN(e, 0) - 1 /\ LSN(e, 0) \in Nat
    BY <2>1, LsnFacts
  <2> QED BY <2>2
<1> HIDE DEF lsn, n
<1>5. IsChain(n, MacroLsn(n)) /\ Stamped(n, MacroLsn(n)) /\ MacroLsn(n) \in Int
  <2>1. n.epoch \in Nat
    BY NewChainReady DEF n
  <2>2. MacroLsn(n) \in Int
    BY <2>1, LsnFacts DEF MacroLsn
  <2> QED BY <2>2, NewChainReady DEF MacroReady, n
<1>6. IsChain(n, lsn)
  BY <1>1, <1>5, ReadyLater
<1>7. Writes(n, c, lsn)
  BY <1>1 DEF Fills, n
<1>8. IsChain(c, lsn)
  BY <1>1, <1>2, <1>6, <1>7, WritesFacts
<1>9. IsChain(c, LSN(e, 0))
  BY <1>1, <1>4, <1>8, ReadyLater
<1>10. Stamped(c, lsn)
  <2>1. ASSUME NEW f \in MapNames PROVE c[f].checkpoint_lsn <= lsn
    <3>1. c[f].checkpoint_lsn = n[f].checkpoint_lsn /\ n[f].checkpoint_lsn <= MacroLsn(n)
          /\ n[f].checkpoint_lsn \in Int
      BY <1>5, <1>7 DEF Writes, Wrote, Stamped, IsChain, Ready, IsMap
    <3> QED BY <1>1, <1>5, <3>1
  <2> QED BY <2>1 DEF Stamped
<1>11. ASSUME NEW f \in MapNames PROVE UpTo(c[f], lsn) /\ At(c[f], lsn) = b[f].map
  <2>1. IsMap(c[f], KeysOf[f]) /\ UpTo(c[f], lsn)
    BY <1>8 DEF IsChain, Ready
  <2>2. c[f].map = b[f].map
    BY <1>1 DEF Fills
  <2> QED BY <1>1, <2>1, <2>2, AtNow
<1>12. VersionIs(c, lsn, b)
  BY <1>1, <1>11 DEF VersionIs, Fills
<1>13. ElectionResult(c) = ElectionResult(b)
  BY <1>1 DEF Fills, ElectionResult, MapNames
<1>14. SameElection(c, b) /\ IsElected(ElectionResult(c)) /\ view_change(c) = 0
  BY <1>2, <1>13 DEF SameElection, IsBase, view_change
<1>15. \A o \in 0 .. 0 : o = 0
  OBVIOUS
<1>16. Tracks(c, b, <<>>)
  BY <1>1, <1>2, <1>3, <1>9, <1>10, <1>11, <1>12, <1>14, <1>15 DEF Tracks, e, lsn
<1> QED BY <1>1, <1>14, <1>16 DEF c

LEMMA TrackCache ==
    ASSUME NEW c, NEW base, NEW s, Tracks(c, base, s), NEW q
    PROVE  LET r == [c EXCEPT !.cache = q]
           IN  /\ Tracks(r, base, s) /\ r.cache = q /\ r.awards = c.awards
               /\ view_change(r) = view_change(c)
<1> DEFINE r == [c EXCEPT !.cache = q]
<1>1. IsRecord(c)
  BY DEF Tracks, IsChain
<1>2. /\ IsRecord(r) /\ r.cache = q /\ r.awards = c.awards /\ r.epoch = c.epoch
      /\ r.offset = c.offset /\ r.view_change_proof = c.view_change_proof
  BY <1>1 DEF IsRecord, Fields, MapNames
<1>3. \A f \in MapNames : r[f] = c[f]
  BY <1>1 DEF IsRecord, Fields, MapNames
<1> HIDE DEF r
<1>4. ElectionResult(r) = ElectionResult(c)
  BY <1>3 DEF ElectionResult, MapNames
<1>5. IsChain(r, LSN(base.epoch, Len(s))) /\ Stamped(r, PreviousLsn(base.epoch, 0))
  BY <1>2, <1>3 DEF Tracks, IsChain, Stamped
<1>6. ASSUME NEW l, NEW x, VersionIs(c, l, x) PROVE VersionIs(r, l, x)
  <2>1. r.block_by_hash = c.block_by_hash /\ r.election_result = c.election_result
    BY <1>3 DEF MapNames
  <2> QED BY <1>3, <1>6, <2>1 DEF VersionIs
<1>7. \A o \in 0 .. Len(s) : VersionIs(r, PreviousLsn(base.epoch, o), Ref(base, s, o))
  BY <1>6 DEF Tracks
<1>8. \A f \in MapNames \ {"election_result"} : UpTo(r[f], PreviousLsn(base.epoch, Len(s)))
  BY <1>3 DEF Tracks
<1>9. /\ IsElected(ElectionResult(r)) /\ SameElection(r, Ref(base, s, Len(s)))
      /\ view_change(r) = view_change(c)
  BY <1>4 DEF Tracks, SameElection, view_change
<1>10. Tracks(r, base, s)
  BY <1>2, <1>5, <1>7, <1>8, <1>9 DEF Tracks
<1> QED BY <1>2, <1>9, <1>10 DEF r

\* The chain that the blocks m and u of the database give.
Stored(d, m, u, s) == d.macros = m /\ d.micros = u /\ d.snapshot = s

LEMMA GrownFacts ==
    ASSUME NEW m, IsMacros(m), Len(m) > 0, m[1] = Genesis
    PROVE  /\ \A j \in 1 .. Len(m) : IsGrown(After(m, j)) /\ After(m, j).epoch = j
           /\ RegisterMacros(NewChain, m) = After(m, Len(m))
<1>1. IsSeq(m) /\ Len(m) \in Nat
  BY SeqFacts DEF IsMacros
<1>2. ASSUME NEW j \in 1 .. Len(m) PROVE IsGrown(After(m, j)) /\ After(m, j).epoch = j
  <2>1. j \in 0 .. Len(m) /\ j > 0
    BY <1>1
  <2>2. IsBase(After(m, j)) /\ After(m, j).epoch = j
    BY <2>1, AfterFacts
  <2>3. /\ After(m, j).block_by_hash.map[LSN(0, MACRO_BLOCK_OFFSET)] = Genesis
        /\ After(m, j).epoch_activity = new(Validators)
    BY GenesisStays
  <2> QED BY <2>1, <2>2, <2>3 DEF IsGrown
<1>3. MacrosUnroll(m)
  BY <1>1, AfterUnroll
<1> QED BY <1>2, <1>3 DEF MacrosUnroll

\* Fast recovery gives the chain of the blocks.
LEMMA FastFacts ==
    ASSUME NEW m, IsMacros(m), Len(m) > 0, m[1] = Genesis, NEW u, IsMicros(u),
           NEW s, SnapshotIs(s, After(m, Len(m))), NEW d, Stored(d, m, u, s)
    PROVE  LET r == try_recover_fast(d)
               b == After(m, Len(m))
           IN  /\ Tracks(r, b, u) /\ r.awards = b.awards /\ r.cache = b.cache
               /\ view_change(r) = 0
<1> DEFINE n == Len(m)
           b == After(m, n)
           c == Start(s)
           epoch == n - 1
           oldest == IF epoch > StakeEpochs + 1 THEN epoch - (StakeEpochs + 1) ELSE 0
           q == CacheOf(SubSeq(m, oldest + 1, n))
           x == RegisterMicros(c, u)
           r == try_recover_fast(d)
<1>1. n \in Nat /\ n \in 1 .. n
  BY SeqFacts DEF IsMacros
<1>2. IsGrown(b) /\ b.epoch = n
  BY <1>1, GrownFacts
<1>3. s.epoch = n - 1
  BY <1>2 DEF SnapshotIs, MetadataIs
<1>4. q = b.cache
  BY RecoveredCache
<1>5. r = [x EXCEPT !.cache = q]
  BY <1>3 DEF try_recover_fast, Start, Stored
<1> HIDE DEF b, q, r, x, c
<1>6. Tracks(c, b, <<>>) /\ c.awards = b.awards /\ view_change(c) = 0
  <2>1. SnapshotIs(s, b)
    BY DEF b
  <2> QED BY <1>2, <2>1, StartTracks DEF c
<1>7. Tracks(x, b, u) /\ KeptBy(c, x) /\ view_change(x) = 0
  <2>1. IsBase(b)
    BY <1>2 DEF IsGrown
  <2> QED BY <1>6, <2>1, TrackSeq DEF x
<1>8. Tracks(r, b, u) /\ r.cache = q /\ r.awards = x.awards /\ view_change(r) = view_change(x)
  BY <1>5, <1>7, TrackCache
<1> QED BY <1>4, <1>6, <1>7, <1>8 DEF KeptBy, b, r

-----------------------------------------------------------------------------
(* What a macro block writes to the snapshot *)

\* s with the keys that the maps of q have recorded from r.
Patched(w, s, q, r, f) ==
    w[f] = [k \in KeysOf[f] |-> IF Recorded(q[f], k) THEN r[f].map[k] ELSE s[f][k]]

LEMMA StoredFacts == StoredMaps \subseteq MapNames /\ "epoch_activity" \notin StoredMaps
  BY DEF StoredMaps, MapNames

LEMMA WriteFacts ==
    ASSUME NEW c, MacroReady(c), NEW b, IsMacro(b), NEW s
    PROVE  LET q == UpdateMetadata(c, b)
               r == register_macro_block(c, b)
               w == write_snapshot(c, b, s)
           IN  /\ MetadataIs(w, r)
               /\ \A f \in StoredMaps : Patched(w, s, q, r, f)
               /\ \A l \in Int : l < MacroLsn(c) /\ (\A f \in StoredMaps : s[f] = At(c[f], l))
                                 => SnapshotIs(w, r)
<1> DEFINE q == UpdateMetadata(c, b)
           r == register_macro_block(c, b)
           w == write_snapshot(c, b, s)
           lsn == MacroLsn(c)
<1>1. /\ r.epoch = c.epoch + 1 /\ r.awards = q.awards
      /\ \A f \in MapNames \ {"epoch_activity"} : r[f].map = q[f].map
  BY MacroFacts DEF MacroReady
<1>2. Writes(c, q, lsn)
  BY MetadataFacts DEF MacroReady, AfterMacro
<1>3. /\ w.epoch = c.epoch /\ w.balance = q.balance.map[Unit]
      /\ w.election_result = ElectionResult(q) /\ w.awards = q.awards
      /\ w.block_by_hash = reverse_patch(q.block_by_hash, s.block_by_hash)
      /\ w.output_by_hash = reverse_patch(q.output_by_hash, s.output_by_hash)
      /\ w.escrow = reverse_patch(q.escrow, s.escrow)
  BY DEF write_snapshot, Batch
<1>4. c.epoch \in Nat
  BY DEF MacroReady, IsChain
<1> HIDE DEF q, r, w, lsn
<1>5. MetadataIs(w, r)
  <2>1. r.balance.map = q.balance.map /\ ElectionResult(r) = ElectionResult(q)
    BY <1>1 DEF MapNames, ElectionResult
  <2> QED BY <1>1, <1>3, <1>4, <2>1 DEF MetadataIs
<1>6. \A f \in StoredMaps : w[f] = reverse_patch(q[f], s[f])
  BY <1>3 DEF StoredMaps
<1>7. ASSUME NEW f \in StoredMaps
      PROVE  /\ IsMap(q[f], KeysOf[f]) /\ r[f].map = q[f].map
             /\ Wrote(c[f], q[f], KeysOf[f], lsn)
  BY <1>1, <1>2, StoredFacts DEF Writes, Wrote
<1>8. ASSUME NEW f \in StoredMaps PROVE Patched(w, s, q, r, f)
  <2> DEFINE P == [k \in KeysOf[f] |-> IF Recorded(q[f], k) THEN q[f].map[k] ELSE s[f][k]]
  <2>1. reverse_patch(q[f], s[f]) = P
    BY <1>7, PatchFacts
  <2>2. r[f].map = q[f].map /\ w[f] = reverse_patch(q[f], s[f])
    BY <1>6, <1>7
  <2> QED BY <2>1, <2>2 DEF Patched
<1>9. ASSUME NEW l \in Int, l < lsn, \A f \in StoredMaps : s[f] = At(c[f], l)
      PROVE  SnapshotIs(w, r)
  <2>1. ASSUME NEW f \in StoredMaps PROVE w[f] = r[f].map
    <3>1. s[f] = At(q[f], l) /\ IsMap(q[f], KeysOf[f])
      BY <1>7, <1>9 DEF Wrote
    <3>2. reverse_patch(q[f], s[f]) = q[f].map
      BY <3>1, PatchFacts
    <3> QED BY <1>6, <1>7, <3>2
  <2> QED BY <1>5, <2>1 DEF SnapshotIs
<1> QED BY <1>5, <1>8, <1>9 DEF q, r, w, lsn

LEMMA MacrosFacts ==
    ASSUME NEW m, IsMacros(m), NEW b, IsMacro(b)
    PROVE  LET t == Append(m, b)
           IN  IsMacros(t) /\ Len(t) = Len(m) + 1 /\ Begins(m, t, Len(m)) /\ t[Len(m) + 1] = b
<1> DEFINE t == Append(m, b)
           n == Len(m)
<1>1. IsSeq(t) /\ Len(t) = n + 1 /\ Begins(m, t, n) /\ n \in Nat /\ t[n + 1] = b
  BY SeqFacts DEF IsMacros
<1> HIDE DEF t
<1>2. ASSUME NEW i \in 1 .. n + 1 PROVE IsMacro(t[i])
  <2>1. CASE i \in 1 .. n
    BY <1>1, <2>1 DEF Begins, IsMacros
  <2>2. CASE i = n + 1
    BY <1>1, <2>2
  <2> QED BY <1>1, <2>1, <2>2
<1>3. IsMacros(t)
  BY <1>1, <1>2 DEF IsMacros
<1> QED BY <1>1, <1>3 DEF t

LEMMA TrackSameEpoch ==
    ASSUME NEW c, NEW base, IsBase(base), Tracks(c, base, <<>>),
           c.awards = base.awards, c.cache = base.cache
    PROVE  /\ SameEpoch(c, base)
           /\ \A f \in MapNames : At(c[f], PreviousLsn(c.epoch, 0)) = base[f].map
<1> DEFINE e == base.epoch
           lsn == PreviousLsn(e, 0)
<1>1. IsMicros(<<>>) /\ Len(<<>>) = 0
  BY MicrosFacts
<1>2. Ref(base, <<>>, 0) = base
  <2>1. Unrolls(base, <<>>)
    BY <1>1, RefUnroll DEF IsMicros
  <2> QED BY <2>1 DEF Unrolls
<1>3. Same(c, base)
  BY <1>1, <1>2, TrackFacts
<1>4. c.epoch = e /\ VersionIs(c, lsn, base)
  BY <1>1, <1>2 DEF Tracks
<1>5. lsn \in Int
  <2>1. e \in Nat /\ 0 \in Nat
    BY DEF IsBase
  <2> HIDE DEF e
  <2> QED BY <2>1, LsnFacts
<1> HIDE DEF e
<1>6. \A f \in MapNames : At(c[f], lsn) = base[f].map /\ At(base[f], lsn) = base[f].map
  BY <1>4, <1>5 DEF VersionIs, IsBase
<1>7. At(c.election_result, lsn) = At(base.election_result, lsn)
  BY <1>6 DEF MapNames
<1>8. election_result_by_offset(c, 0) = election_result_by_offset(base, 0)
  BY <1>4, <1>7 DEF election_result_by_offset, rollback_to_lsn, At, e
<1>9. SameMaps(c, base)
  BY <1>3 DEF Same
<1> QED BY <1>4, <1>6, <1>8, <1>9 DEF SameEpoch, e

\* A macro block on top of chains with the same contents.
LEMMA MacroTracks ==
    ASSUME NEW c, NEW base, IsBase(base), Tracks(c, base, <<>>),
           c.awards = base.awards, c.cache = base.cache, NEW b, IsMacro(b)
    PROVE  LET r == register_macro_block(c, b)
               t == register_macro_block(base, b)
           IN  /\ Tracks(r, t, <<>>) /\ r.awards = t.awards /\ r.cache = t.cache
               /\ SameBase(r, t) /\ IsBase(t) /\ view_change(r) = 0
<1> DEFINE r == register_macro_block(c, b)
           t == register_macro_block(base, b)
           q == UpdateMetadata(c, b)
           p == UpdateMetadata(base, b)
<1>1. MacroReady(c) /\ MacroReady(base)
  BY TrackReady, BaseReady
<1>2. SameEpoch(c, base)
  BY TrackSameEpoch
<1>3. /\ Same(q, p) /\ q.election_result.map = p.election_result.map
      /\ q.awards = p.awards /\ q.cache = p.cache
  BY <1>1, <1>2, MacroSame DEF MacroReady
<1>4. /\ IsBase(r) /\ r.epoch = c.epoch + 1 /\ r.awards = q.awards
      /\ r.cache = cache_push_block(c.cache, b)
      /\ \A f \in MapNames \ {"epoch_activity"} : r[f].map = q[f].map
      /\ r.epoch_activity = new(Validators)
  BY <1>1, MacroFacts DEF MacroReady
<1>5. /\ IsBase(t) /\ t.epoch = base.epoch + 1 /\ t.awards = p.awards
      /\ t.cache = cache_push_block(base.cache, b)
      /\ \A f \in MapNames \ {"epoch_activity"} : t[f].map = p[f].map
      /\ t.epoch_activity = new(Validators)
  BY <1>1, MacroFacts DEF MacroReady
<1> HIDE DEF r, t, p, q
<1>6. c.epoch = base.epoch
  BY <1>2 DEF SameEpoch
<1>7. ASSUME NEW f \in MapNames PROVE r[f].map = t[f].map
  <2>1. CASE f = "epoch_activity"
    BY <1>4, <1>5, <2>1
  <2>2. CASE f # "epoch_activity"
    <3>1. q[f].map = p[f].map
      BY <1>3, <2>2 DEF Same, SameMaps, MapNames
    <3> QED BY <1>4, <1>5, <2>2, <3>1
  <2> QED BY <2>1, <2>2
<1>8. SameBase(r, t)
  BY <1>4, <1>5, <1>6, <1>7 DEF SameBase
<1>9. Tracks(r, t, <<>>)
  BY <1>4, <1>5, <1>8, BaseTracks
<1>10. view_change(r) = 0
  BY <1>4 DEF IsBase
<1> QED BY <1>3, <1>4, <1>5, <1>8, <1>9, <1>10 DEF r, t

LEMMA SnapshotSame ==
    ASSUME NEW s, NEW r, NEW t, SnapshotIs(s, r), SameBase(r, t), r.awards = t.awards
    PROVE  SnapshotIs(s, t)
<1>1. r.balance.map = t.balance.map /\ ElectionResult(r) = ElectionResult(t)
  BY DEF SameBase, MapNames, ElectionResult
<1>2. \A f \in StoredMaps : r[f].map = t[f].map
  BY StoredFacts DEF SameBase
<1> QED BY <1>1, <1>2 DEF SnapshotIs, MetadataIs, SameBase

\* A macro block is applied to a chain without micro blocks.
LEMMA ApplyFacts ==
    ASSUME NEW m, IsMacros(m), Len(m) > 0, m[1] = Genesis,
           NEW s, SnapshotIs(s, After(m, Len(m))),
           NEW c, Tracks(c, After(m, Len(m)), <<>>), c.awards = After(m, Len(m)).awards,
           c.cache = After(m, Len(m)).cache, NEW b, IsMacro(b)
    PROVE  LET x == Append(m, b)
               t == After(x, Len(x))
               r == register_macro_block(c, b)
           IN  /\ IsMacros(x) /\ Len(x) > 0 /\ x[1] = Genesis /\ Len(x) = Len(m) + 1
               /\ Tracks(r, t, <<>>) /\ r.awards = t.awards /\ r.cache = t.cache
               /\ view_change(r) = 0
               /\ SnapshotIs(write_snapshot(c, b, s), t)
<1> DEFINE n == Len(m)
           x == Append(m, b)
           t == After(x, n + 1)
           r == register_macro_block(c, b)
           base == After(m, n)
<1>1. /\ IsMacros(x) /\ Len(x) = n + 1 /\ Begins(m, x, n) /\ x[n + 1] = b /\ n \in Nat /\ n > 0
      /\ IsSeq(m)
  BY MacrosFacts, SeqFacts DEF IsMacros
<1>2. x[1] = Genesis
  BY <1>1 DEF Begins
<1>3. IsBase(base) /\ base.epoch = n
  <2>1. n \in 1 .. n
    BY <1>1
  <2> QED BY <2>1, GrownFacts DEF IsGrown
<1>4. t = register_macro_block(base, b)
  <2>1. IsSeq(x)
    BY <1>1 DEF IsMacros
  <2>2. MacrosUnroll(x)
    BY <2>1, AfterUnroll
  <2>3. n \in 0 .. Len(x) - 1 /\ n \in 0 .. n
    BY <1>1
  <2>4. t = register_macro_block(After(x, n), x[n + 1])
    BY <2>2, <2>3 DEF MacrosUnroll
  <2>5. After(x, n) = base
    BY <1>1, <2>1, <2>3, AfterSame
  <2> QED BY <1>1, <2>4, <2>5
<1>5. Tracks(c, base, <<>>) /\ c.awards = base.awards /\ c.cache = base.cache /\ SnapshotIs(s, base)
  OBVIOUS
<1> HIDE DEF base, t
<1>6. /\ Tracks(r, t, <<>>) /\ r.awards = t.awards /\ r.cache = t.cache
      /\ SameBase(r, t) /\ IsBase(t) /\ view_change(r) = 0
  BY <1>3, <1>4, <1>5, MacroTracks
<1>7. SnapshotIs(write_snapshot(c, b, s), r)
  <2> DEFINE l == PreviousLsn(c.epoch, 0)
  <2>1. MacroReady(c)
    BY <1>3, <1>5, TrackReady
  <2>2. \A f \in MapNames : At(c[f], l) = base[f].map
    BY <1>3, <1>5, TrackSameEpoch
  <2>3. \A f \in StoredMaps : s[f] = At(c[f], l)
    BY <1>5, <2>2, StoredFacts DEF SnapshotIs
  <2>4. l \in Int /\ l < MacroLsn(c)
    <3> DEFINE e == c.epoch
    <3>1. e \in Nat /\ 0 \in Nat
      BY <2>1 DEF MacroReady, IsChain
    <3> HIDE DEF e
    <3>2. PreviousLsn(e, 0) \in Int /\ LSN(e, MACRO_BLOCK_OFFSET) \in Nat
          /\ LSN(e, MACRO_BLOCK_OFFSET) > PreviousLsn(e, 0)
      BY <3>1, LsnFacts
    <3>3. PreviousLsn(e, 0) < LSN(e, MACRO_BLOCK_OFFSET)
      BY <3>2
    <3> QED BY <3>2, <3>3 DEF MacroLsn, e
  <2> HIDE DEF l
  <2> QED BY <2>1, <2>3, <2>4, WriteFacts
<1>8. SnapshotIs(write_snapshot(c, b, s), t)
  <2> HIDE DEF r
  <2> QED BY <1>6, <1>7, SnapshotSame
<1>9. Len(x) > 0 /\ t = After(x, Len(x))
  BY <1>1 DEF t
<1> QED BY <1>1, <1>2, <1>6, <1>8, <1>9

-----------------------------------------------------------------------------
(* The snapshot while the blocks are loaded *)

\* Macro block i of m writes the key k of the map f.
Touched(m, i, f, k) == Recorded(UpdateMetadata(After(m, i - 1), m[i])[f], k)

TouchedIn(m, i, n, f, k) == \E j \in i .. n : Touched(m, j, f, k)

\* Every stored key is what it was after j macro blocks, or one of the others
\* will write it.
KnownKey(s, m, j, f, k) ==
    s[f][k] = After(m, j)[f].map[k] \/ TouchedIn(m, j + 1, Len(m), f, k)

Known(s, m, j) ==
    \A f \in StoredMaps : /\ s[f] = [k \in KeysOf[f] |-> s[f][k]]
                          /\ \A k \in KeysOf[f] : KnownKey(s, m, j, f, k)

LEMMA AfterStill ==
    ASSUME NEW m, IsMacros(m), NEW j \in 0 .. Len(m), NEW f \in StoredMaps, NEW l \in Int
    PROVE  LET x == After(m, j)[f]
           IN  IsMap(x, KeysOf[f]) /\ At(x, l) = x.map
<1>1. IsSeq(m) /\ Len(m) \in Nat /\ f \in MapNames
  BY SeqFacts, StoredFacts DEF IsMacros
<1>2. CASE j = 0
  <2>1. MacrosUnroll(m)
    BY <1>1, AfterUnroll
  <2>2. After(m, j) = NewChain
    BY <1>2, <2>1 DEF MacrosUnroll
  <2>3. NewChain[f] = new(KeysOf[f])
    BY KeysFacts DEF NewChain, StoredMaps
  <2> DEFINE K == KeysOf[f]
             p == new(K)
  <2>4. IsMap(p, K) /\ At(p, l) = p.map
    <3> HIDE DEF K
    <3>1. Ready(p, K, l) /\ At(p, l) = [k \in K |-> NoValue] /\ p.map = [k \in K |-> NoValue]
      BY NewFacts
    <3> QED BY <3>1 DEF Ready
  <2>5. After(m, j)[f] = p
    BY <2>2, <2>3
  <2> HIDE DEF p
  <2> QED BY <2>4, <2>5
<1>3. CASE j > 0
  <2>1. IsBase(After(m, j))
    BY <1>3, AfterFacts
  <2> QED BY <1>1, <2>1 DEF IsBase, Ready
<1> QED BY <1>1, <1>2, <1>3

\* A macro block changes only what it has recorded.
LEMMA Untouched ==
    ASSUME NEW m, IsMacros(m), NEW j \in 0 .. Len(m) - 1, NEW f \in StoredMaps, NEW k \in KeysOf[f],
           ~ Touched(m, j + 1, f, k)
    PROVE  After(m, j + 1)[f].map[k] = After(m, j)[f].map[k]
<1> DEFINE c == After(m, j)
           b == m[j + 1]
           q == UpdateMetadata(c, b)
           r == register_macro_block(c, b)
           lsn == MacroLsn(c)
           l == lsn - 1
<1>1. IsSeq(m) /\ Len(m) \in Nat /\ f \in MapNames /\ f # "epoch_activity"
  BY SeqFacts, StoredFacts DEF IsMacros
<1>2. j \in 0 .. Len(m) /\ j + 1 \in 1 .. Len(m) /\ (j + 1) - 1 = j
  BY <1>1
<1>3. After(m, j + 1) = r
  <2>1. MacrosUnroll(m)
    BY <1>1, AfterUnroll
  <2> QED BY <2>1 DEF MacrosUnroll
<1>4. MacroReady(c) /\ c.epoch = j /\ IsMacro(b)
  BY <1>2, AfterFacts DEF IsMacros
<1>5. \A x \in Int : IsMap(c[f], KeysOf[f]) /\ At(c[f], x) = c[f].map
  BY <1>2, AfterStill
<1>6. ~ Recorded(q[f], k)
  BY <1>2 DEF Touched
<1> HIDE DEF c, b
<1>7. lsn \in Int /\ l \in Int /\ l < lsn
  <2>1. c.epoch \in Nat
    BY <1>4
  <2>2. lsn \in Nat
    BY <2>1, LsnFacts DEF MacroLsn
  <2> QED BY <2>2
<1>8. Writes(c, q, lsn)
  BY <1>4, MetadataFacts DEF MacroReady, AfterMacro
<1>9. r[f].map = q[f].map
  BY <1>1, <1>4, MacroFacts DEF MacroReady
<1> HIDE DEF q, r, lsn, l
<1>10. IsMap(q[f], KeysOf[f]) /\ At(q[f], l) = At(c[f], l)
  BY <1>1, <1>7, <1>8 DEF Writes, Wrote
<1>11. At(q[f], l)[k] = q[f].map[k]
  BY <1>6, <1>10, AtKeys
<1>12. r[f].map[k] = c[f].map[k]
  BY <1>5, <1>7, <1>9, <1>10, <1>11
<1> QED BY <1>3, <1>12 DEF r, c

LEMMA UntouchedRun ==
    ASSUME NEW m, IsMacros(m), NEW j \in Nat, NEW f \in StoredMaps, NEW k \in KeysOf[f],
           NEW i \in Nat, j <= i, i <= Len(m), ~ TouchedIn(m, j + 1, i, f, k)
    PROVE  After(m, i)[f].map[k] = After(m, j)[f].map[k]
<1> DEFINE V(x) == After(m, x)[f].map[k]
           T == {d \in Nat : j + d <= i => V(j + d) = V(j)}
<1>1. Len(m) \in Nat
  BY SeqFacts DEF IsMacros
<1>2. 0 \in T
  OBVIOUS
<1>3. ASSUME NEW d \in Nat, d \in T PROVE d + 1 \in T
  <2> SUFFICES ASSUME j + (d + 1) <= i PROVE V(j + (d + 1)) = V(j)
    OBVIOUS
  <2> DEFINE x == j + d
  <2>1. x \in 0 .. Len(m) - 1 /\ x + 1 \in j + 1 .. i /\ j + (d + 1) = x + 1 /\ V(x) = V(j)
    BY <1>1, <1>3
  <2>2. ~ Touched(m, x + 1, f, k)
    BY <2>1 DEF TouchedIn
  <2> HIDE DEF x
  <2>3. V(x + 1) = V(x)
    BY <2>1, <2>2, Untouched
  <2> QED BY <2>1, <2>3
<1>4. Nat \subseteq T
  <2> HIDE DEF T
  <2> QED BY <1>2, <1>3, NumberInduction
<1>5. i - j \in Nat /\ j + (i - j) = i
  OBVIOUS
<1>6. i - j \in T
  BY <1>4, <1>5
<1> QED BY <1>5, <1>6

\* A snapshot of the newest macro block.
LEMMA KnownExact ==
    ASSUME NEW m, IsMacros(m), NEW s, SnapshotIs(s, After(m, Len(m)))
    PROVE  Known(s, m, 0)
<1> DEFINE n == Len(m)
<1>1. n \in Nat /\ n \in 0 .. n
  BY SeqFacts DEF IsMacros
<1> SUFFICES ASSUME NEW f \in StoredMaps
             PROVE  /\ s[f] = [k \in KeysOf[f] |-> s[f][k]]
                    /\ \A k \in KeysOf[f] : KnownKey(s, m, 0, f, k)
  BY DEF Known
<1>2. s[f] = After(m, n)[f].map
  BY DEF SnapshotIs
<1>3. IsMap(After(m, n)[f], KeysOf[f])
  BY <1>1, AfterStill
<1>4. s[f] = [k \in KeysOf[f] |-> s[f][k]]
  BY <1>2, <1>3 DEF IsMap
<1>5. ASSUME NEW k \in KeysOf[f] PROVE KnownKey(s, m, 0, f, k)
  <2>1. CASE TouchedIn(m, 0 + 1, n, f, k)
    BY <2>1 DEF KnownKey
  <2>2. CASE ~ TouchedIn(m, 0 + 1, n, f, k)
    <3>1. 0 \in Nat /\ 0 <= n /\ n <= Len(m)
      BY <1>1
    <3>2. After(m, n)[f].map[k] = After(m, 0)[f].map[k]
      BY <1>1, <2>2, <3>1, UntouchedRun
    <3> QED BY <1>2, <3>2 DEF KnownKey
  <2> QED BY <2>1, <2>2
<1> QED BY <1>4, <1>5

\* A recovery that starts again.
LEMMA KnownFirst ==
    ASSUME NEW m, IsMacros(m), NEW s, NEW j \in 0 .. Len(m), Known(s, m, j)
    PROVE  Known(s, m, 0)
<1> DEFINE n == Len(m)
<1>1. n \in Nat /\ j \in Nat /\ 0 \in Nat /\ j <= n /\ 0 <= j /\ j <= Len(m)
  BY SeqFacts DEF IsMacros
<1> SUFFICES ASSUME NEW f \in StoredMaps, NEW k \in KeysOf[f]
             PROVE  KnownKey(s, m, 0, f, k)
  BY DEF Known
<1>2. KnownKey(s, m, j, f, k)
  BY DEF Known
<1>3. CASE TouchedIn(m, 0 + 1, n, f, k)
  BY <1>3 DEF KnownKey
<1>4. CASE ~ TouchedIn(m, 0 + 1, n, f, k)
  <2>1. ~ TouchedIn(m, 0 + 1, j, f, k) /\ ~ TouchedIn(m, j + 1, n, f, k)
    BY <1>1, <1>4 DEF TouchedIn
  <2>2. After(m, j)[f].map[k] = After(m, 0)[f].map[k]
    BY <1>1, <2>1, UntouchedRun
  <2> QED BY <1>2, <2>1, <2>2 DEF KnownKey
<1> QED BY <1>3, <1>4

\* A macro block that is loaded.
LEMMA KnownStep ==
    ASSUME NEW m, IsMacros(m), NEW s, NEW j \in 0 .. Len(m) - 1, Known(s, m, j)
    PROVE  LET w == write_snapshot(After(m, j), m[j + 1], s)
           IN  /\ After(m, j + 1) = register_macro_block(After(m, j), m[j + 1])
               /\ Known(w, m, j + 1) /\ MetadataIs(w, After(m, j + 1))
<1> DEFINE n == Len(m)
           c == After(m, j)
           b == m[j + 1]
           r == register_macro_block(c, b)
           q == UpdateMetadata(c, b)
           w == write_snapshot(c, b, s)
<1>1. IsSeq(m) /\ n \in Nat
  BY SeqFacts DEF IsMacros
<1>2. j \in 0 .. n /\ j + 1 \in 1 .. n /\ (j + 1) - 1 = j /\ j \in Nat
  BY <1>1
<1>3. After(m, j + 1) = r
  <2>1. MacrosUnroll(m)
    BY <1>1, AfterUnroll
  <2> QED BY <2>1 DEF MacrosUnroll
<1>4. MacroReady(c) /\ IsMacro(b)
  BY <1>2, AfterFacts DEF IsMacros
<1>5. \A f \in StoredMaps : \A k : Touched(m, j + 1, f, k) <=> Recorded(q[f], k)
  BY <1>2 DEF Touched
<1> HIDE DEF c, b
<1>6. MetadataIs(w, r) /\ \A f \in StoredMaps : Patched(w, s, q, r, f)
  BY <1>4, WriteFacts
<1> HIDE DEF q, r, w
<1>7. ASSUME NEW f \in StoredMaps
      PROVE  /\ w[f] = [k \in KeysOf[f] |-> w[f][k]]
             /\ \A k \in KeysOf[f] : KnownKey(w, m, j + 1, f, k)
  <2>1. w[f] = [k \in KeysOf[f] |-> IF Recorded(q[f], k) THEN r[f].map[k] ELSE s[f][k]]
    BY <1>6 DEF Patched
  <2>2. ASSUME NEW k \in KeysOf[f] PROVE KnownKey(w, m, j + 1, f, k)
    <3>1. CASE Recorded(q[f], k)
      <4>1. w[f][k] = r[f].map[k]
        BY <2>1, <3>1
      <4> QED BY <1>3, <4>1 DEF KnownKey
    <3>2. CASE ~ Recorded(q[f], k)
      <4>1. w[f][k] = s[f][k]
        BY <2>1, <3>2
      <4>2. ~ Touched(m, j + 1, f, k)
        BY <1>5, <3>2
      <4>3. r[f].map[k] = c[f].map[k]
        BY <1>3, <4>2, Untouched DEF c
      <4>4. KnownKey(s, m, j, f, k)
        BY DEF Known
      <4>5. CASE s[f][k] = c[f].map[k]
        BY <1>3, <4>1, <4>3, <4>5 DEF KnownKey
      <4>6. CASE TouchedIn(m, j + 1, n, f, k)
        <5>1. PICK i \in j + 1 .. n : Touched(m, i, f, k)
          BY <4>6 DEF TouchedIn
        <5>2. i # j + 1
          BY <4>2, <5>1
        <5>3. i \in (j + 1) + 1 .. n
          BY <1>1, <1>2, <5>1, <5>2
        <5>4. TouchedIn(m, (j + 1) + 1, n, f, k)
          BY <5>1, <5>3 DEF TouchedIn
        <5> QED BY <5>4 DEF KnownKey
      <4> QED BY <4>4, <4>5, <4>6 DEF KnownKey, c
    <3> QED BY <3>1, <3>2
  <2> QED BY <2>1, <2>2
<1>8. Known(w, m, j + 1)
  BY <1>7 DEF Known
<1> QED BY <1>3, <1>6, <1>8 DEF w, r, c, b

\* All of them are loaded.
LEMMA KnownLast ==
    ASSUME NEW m, IsMacros(m), NEW s, Known(s, m, Len(m)), MetadataIs(s, After(m, Len(m)))
    PROVE  SnapshotIs(s, After(m, Len(m)))
<1> DEFINE n == Len(m)
<1>1. n \in Nat /\ n \in 0 .. n
  BY SeqFacts DEF IsMacros
<1>2. ASSUME NEW f \in StoredMaps PROVE s[f] = After(m, n)[f].map
  <2>1. IsMap(After(m, n)[f], KeysOf[f])
    BY <1>1, AfterStill
  <2>2. ASSUME NEW k \in KeysOf[f] PROVE s[f][k] = After(m, n)[f].map[k]
    <3>1. KnownKey(s, m, n, f, k)
      BY DEF Known
    <3>2. ~ TouchedIn(m, n + 1, n, f, k)
      BY <1>1 DEF TouchedIn
    <3> QED BY <3>1, <3>2 DEF KnownKey
  <2>3. s[f] = [k \in KeysOf[f] |-> s[f][k]]
    BY DEF Known
  <2> QED BY <2>1, <2>2, <2>3 DEF IsMap
<1> QED BY <1>2 DEF SnapshotIs

-----------------------------------------------------------------------------
(* The blocks that are made *)

LEMMA StakesAreUtxos ==
    ASSUME NEW c, NEW v, NEW epoch
    PROVE  ActiveStakes(c, v, epoch) \subseteq Utxos
  BY DEF ActiveStakes, StakesOf

LEMMA BodyFacts ==
    ASSUME NEW c, NEW created, NEW body \in Bodies(c, created)
    PROVE  body.ins \subseteq Utxos /\ body.outs \subseteq Utxos
<1> DEFINE Confiscated(v) == IF v = NoValidator THEN {} ELSE ActiveStakes(c, v, c.epoch)
           cheaters == {NoValidator} \cup {v \in Validators : CanSlash(c, v)}
           txs == ValidTransactions(c, created)
<1>1. \A v : Confiscated(v) \subseteq Utxos
  BY StakesAreUtxos
<1>2. \A tx \in txs : tx.ins \subseteq Utxos /\ tx.outs \subseteq Utxos
  BY BlockchainAssumption DEF ValidTransactions
<1>3. \E p \in txs \X cheaters :
         body = [ins |-> p[1].ins \cup Confiscated(p[2]), outs |-> p[1].outs, cheater |-> p[2]]
  BY DEF Bodies
<1> HIDE DEF Confiscated, cheaters, txs
<1>4. PICK p \in txs \X cheaters :
         body = [ins |-> p[1].ins \cup Confiscated(p[2]), outs |-> p[1].outs, cheater |-> p[2]]
  BY <1>3
<1>5. p[1] \in txs
  BY <1>4
<1>6. body.ins = p[1].ins \cup Confiscated(p[2]) /\ body.outs = p[1].outs
  BY <1>4
<1> QED BY <1>1, <1>2, <1>5, <1>6

LEMMA MicroBlockFacts ==
    ASSUME NEW c, NEW created, NEW b \in MicroBlocks(c, created)
    PROVE  IsMacro(b) /\ (view_change(c) \in Nat => IsMicro(b))
<1>1. PICK vc \in view_change(c) .. MaxViewChange, random \in Randoms, body \in Bodies(c, created) :
         b = [view_change |-> vc, random |-> random,
              ins |-> body.ins, outs |-> body.outs, cheater |-> body.cheater]
  BY DEF MicroBlocks
<1>2. b.ins = body.ins /\ b.outs = body.outs /\ b.view_change = vc
  BY <1>1
<1>3. IsMacro(b)
  BY <1>2, BodyFacts DEF IsMacro
<1>4. ASSUME view_change(c) \in Nat PROVE vc \in Nat
  BY <1>4, BlockchainAssumption
<1> QED BY <1>2, <1>3, <1>4 DEF IsMacro, IsMicro

\* What the blocks of a sequence spend and create are outputs.
LEMMA BlocksFacts ==
    ASSUME NEW m, IsMacros(m)
    PROVE  Inputs(m) \subseteq Utxos /\ Outputs(m) \subseteq Utxos
<1>1. \A b \in ToSet(m) : IsMacro(b)
  BY SeqFacts DEF ToSet, IsMacros
<1> QED BY <1>1 DEF Inputs, Outputs, IsMacro

LEMMA CreatedFacts ==
    ASSUME NEW c, NEW micros, IsMacros(micros), NEW random
    PROVE  IsMacro(create_macro_block(c, micros, random))
<1>1. Inputs(micros) \subseteq Utxos /\ Outputs(micros) \subseteq Utxos
  BY BlocksFacts
<1>2. /\ create_macro_block(c, micros, random).ins = Inputs(micros)
      /\ create_macro_block(c, micros, random).outs = Outputs(micros)
  BY DEF create_macro_block
<1> QED BY <1>1, <1>2 DEF IsMacro

LEMMA GenesisFacts == IsMacro(Genesis) /\ IsMacros(<<Genesis>>)
<1>1. IsMacro(Genesis)
  BY BlockchainAssumption DEF IsMacro, Genesis
<1> HIDE DEF Genesis
<1>2. Len(<<Genesis>>) = 1 /\ <<Genesis>>[1] = Genesis /\ <<Genesis>> \in Seq({Genesis})
  OBVIOUS
<1>3. {<<Genesis>>[i] : i \in 1 .. Len(<<Genesis>>)} = {Genesis}
  BY <1>2
<1> QED BY <1>1, <1>2, <1>3 DEF IsMacros, IsSeq

\* The chains that are one block longer than e.
OneMore(d, e) ==
    {[c |-> register_micro_block(e.c, b), micros |-> Append(e.micros, b)] :
        b \in MicroBlocks(e.c, Outputs(d.macros) \cup Outputs(e.micros))}

EpochRun(g, d, start, n) ==
    g = [i \in 0 .. n |-> IF i = 0 THEN {start} ELSE UNION {OneMore(d, e) : e \in g[i - 1]}]

LEMMA EpochRunExists ==
    ASSUME NEW d, NEW start, NEW n \in Nat
    PROVE  \E g : EpochRun(g, d, start, n)
<1> DEFINE T == {k \in Nat : \E g : EpochRun(g, d, start, k)}
<1>1. 0 \in T
  <2>1. EpochRun([i \in 0 .. 0 |-> {start}], d, start, 0)
    BY DEF EpochRun
  <2> QED BY <2>1
<1>2. ASSUME NEW k \in Nat, k \in T PROVE k + 1 \in T
  <2>1. PICK g : EpochRun(g, d, start, k)
    BY <1>2
  <2> DEFINE AllLonger(S) == UNION {OneMore(d, e) : e \in S}
             h == [i \in 0 .. k + 1 |-> IF i = 0 THEN {start} ELSE AllLonger(g[i - 1])]
  <2> HIDE DEF AllLonger
  <2>2. g = [i \in 0 .. k |-> IF i = 0 THEN {start} ELSE AllLonger(g[i - 1])]
    BY <2>1 DEF EpochRun, AllLonger
  <2>3. \A i \in 0 .. k : h[i] = g[i]
    <3> TAKE i \in 0 .. k
    <3>1. i \in 0 .. k + 1
      OBVIOUS
    <3>2. g[i] = IF i = 0 THEN {start} ELSE AllLonger(g[i - 1])
      BY <2>2
    <3> QED BY <3>1, <3>2
  <2>4. \A i \in 0 .. k + 1 : i # 0 => i - 1 \in 0 .. k
    OBVIOUS
  <2>5. \A i \in 0 .. k + 1 : i # 0 => h[i - 1] = g[i - 1]
    BY <2>3, <2>4
  <2>6. h = [i \in 0 .. k + 1 |-> IF i = 0 THEN {start} ELSE AllLonger(h[i - 1])]
    BY <2>5
  <2>7. EpochRun(h, d, start, k + 1)
    BY <2>6 DEF EpochRun, AllLonger
  <2> QED BY <2>7
<1>3. Nat \subseteq T
  <2> HIDE DEF T
  <2> QED BY <1>1, <1>2, NumberInduction
<1> QED BY <1>3

LEMMA FullEpochsIsRun ==
    ASSUME NEW d
    PROVE  \E g, start : /\ EpochRun(g, d, start, MicroBlocksInEpoch)
                         /\ start.micros = <<>> /\ FullEpochs(d) = g[MicroBlocksInEpoch]
                         /\ start.c = try_recover_fast([d EXCEPT !.micros = <<>>])
<1> DEFINE start == [c |-> try_recover_fast([d EXCEPT !.micros = <<>>]), micros |-> <<>>]
           g == CHOOSE h : EpochRun(h, d, start, MicroBlocksInEpoch)
<1>1. MicroBlocksInEpoch \in Nat
  BY BlockchainAssumption
<1>2. EpochRun(g, d, start, MicroBlocksInEpoch)
  BY <1>1, EpochRunExists
<1>3. FullEpochs(d) = g[MicroBlocksInEpoch]
  BY DEF FullEpochs, EpochRun, OneMore
<1>4. start.micros = <<>> /\ start.c = try_recover_fast([d EXCEPT !.micros = <<>>])
  OBVIOUS
<1> HIDE DEF g, start
<1> QED BY <1>2, <1>3, <1>4

LEMMA FullEpochsFacts ==
    ASSUME NEW d
    PROVE  \A e \in FullEpochs(d) : IsMacros(e.micros)
<1> DEFINE n == MicroBlocksInEpoch
<1>1. PICK g, start : /\ EpochRun(g, d, start, n)
                      /\ start.micros = <<>> /\ FullEpochs(d) = g[n]
  BY FullEpochsIsRun
<1>2. n \in Nat
  BY BlockchainAssumption
<1> DEFINE T == {k \in Nat : k <= n => \A e \in g[k] : IsMacros(e.micros)}
<1>3. 0 \in T
  <2>1. g[0] = {start}
    BY <1>1, <1>2 DEF EpochRun
  <2>2. IsMacros(<<>>)
    BY MicrosFacts DEF IsMacros, IsMicros
  <2> QED BY <1>1, <2>1, <2>2
<1>4. ASSUME NEW k \in Nat, k \in T PROVE k + 1 \in T
  <2> SUFFICES ASSUME k + 1 <= n, NEW e \in g[k + 1] PROVE IsMacros(e.micros)
    OBVIOUS
  <2>1. k + 1 \in 0 .. n /\ k + 1 # 0 /\ (k + 1) - 1 = k
    BY <1>2
  <2>2. g[k + 1] = UNION {OneMore(d, x) : x \in g[k]}
    BY <1>1, <2>1 DEF EpochRun
  <2>3. PICK x \in g[k] : e \in OneMore(d, x)
    BY <2>2
  <2> DEFINE M == MicroBlocks(x.c, Outputs(d.macros) \cup Outputs(x.micros))
             Longer(b) == [c |-> register_micro_block(x.c, b), micros |-> Append(x.micros, b)]
  <2>4. \E b \in M : e = Longer(b)
    BY <2>3 DEF OneMore
  <2>5. \A b : Longer(b).micros = Append(x.micros, b)
    OBVIOUS
  <2>6. \A b \in M : IsMacro(b)
    BY MicroBlockFacts
  <2> HIDE DEF M, Longer
  <2>7. PICK b \in M : e.micros = Append(x.micros, b)
    BY <2>4, <2>5
  <2>8. IsMacro(b)
    BY <2>6
  <2>9. IsMacros(x.micros)
    BY <1>2, <1>4
  <2> QED BY <2>7, <2>8, <2>9, MacrosFacts
<1>5. Nat \subseteq T
  <2> HIDE DEF T
  <2> QED BY <1>3, <1>4, NumberInduction
<1> QED BY <1>1, <1>2, <1>5

LEMMA AgreedFacts ==
    ASSUME IsMicros(disk.micros)
    PROVE  \A b \in Agreed : IsMacro(b)
<1>1. IsMacros(disk.micros)
  BY DEF IsMicros, IsMacros, IsMicro, IsMacro
<1> DEFINE epochs == IF chain.offset = 0 THEN FullEpochs(disk)
                     ELSE {[c |-> chain, micros |-> disk.micros]}
<1>2. \A e \in epochs : IsMacros(e.micros)
  BY <1>1, FullEpochsFacts
<1>3. \A b \in Agreed : \E e \in epochs, random \in Randoms :
         b = create_macro_block(e.c, e.micros, random)
  BY DEF Agreed
<1> HIDE DEF epochs
<1> QED BY <1>2, <1>3, CreatedFacts

-----------------------------------------------------------------------------
(* The inductive invariant *)

Top(m) == After(m, Len(m))

\* The blocks m and u and the snapshot s of the database.  A snapshot that is as
\* new as the last macro block is that of the chain; an older one is left by a
\* node that stopped while it loaded its blocks, and can be completed.
GoodDisk(m, u, s) ==
    /\ IsMacros(m) /\ Len(m) > 0 /\ m[1] = Genesis /\ IsMicros(u)
    /\ Known(s, m, 0)
    /\ s.epoch = Len(m) - 1 => SnapshotIs(s, Top(m))

\* c is the chain of these blocks.
GoodChain(c, m, u, s) ==
    /\ s.epoch = Len(m) - 1
    /\ Tracks(c, Top(m), u)
    /\ c.awards = Top(m).awards /\ c.cache = Top(m).cache
    /\ view_change(c) \in Nat

\* c is the chain of the macro blocks that have been loaded.
GoodLoad(c, m, s) ==
    /\ c.epoch \in 0 .. Len(m)
    /\ c = After(m, c.epoch)
    /\ Known(s, m, c.epoch)
    /\ c.epoch > 0 => MetadataIs(s, c)

IInv ==
    /\ disk = [macros |-> disk.macros, micros |-> disk.micros, snapshot |-> disk.snapshot]
    /\ GoodDisk(disk.macros, disk.micros, disk.snapshot)
    /\ loading \in BOOLEAN
    /\ loading => GoodLoad(chain, disk.macros, disk.snapshot)
    /\ Running => GoodChain(chain, disk.macros, disk.micros, disk.snapshot)

LEMMA TopFacts ==
    ASSUME NEW m, NEW u, NEW s, GoodDisk(m, u, s)
    PROVE  /\ IsBase(Top(m)) /\ Top(m).epoch = Len(m) /\ Len(m) \in Nat
           /\ RegisterMacros(NewChain, m) = Top(m)
           /\ Tracks(Top(m), Top(m), <<>>) /\ view_change(Top(m)) = 0
<1>1. Len(m) \in Nat /\ Len(m) \in 1 .. Len(m)
  BY SeqFacts DEF GoodDisk, IsMacros
<1>2. IsGrown(Top(m)) /\ Top(m).epoch = Len(m) /\ RegisterMacros(NewChain, m) = Top(m)
  BY <1>1, GrownFacts DEF GoodDisk, Top
<1>3. IsBase(Top(m))
  BY <1>2 DEF IsGrown
<1>4. Tracks(Top(m), Top(m), <<>>)
  BY <1>3, BaseTracks DEF SameBase
<1> QED BY <1>1, <1>2, <1>3, <1>4 DEF IsBase

LEMMA PushGood ==
    ASSUME NEW m, NEW u, NEW s, GoodDisk(m, u, s), NEW c, GoodChain(c, m, u, s),
           NEW b, IsMicro(b)
    PROVE  LET t == Append(u, b)
               r == register_micro_block(c, b)
           IN  GoodDisk(m, t, s) /\ GoodChain(r, m, t, s)
<1> DEFINE t == Append(u, b)
           r == register_micro_block(c, b)
           lsn == LSN(Top(m).epoch, Len(u))
<1>1. IsBase(Top(m)) /\ IsMicros(u) /\ IsSeq(u)
  BY TopFacts DEF GoodDisk, IsMicros
<1>2. IsMicros(t)
  BY <1>1, MicrosFacts
<1>3. Len(t) = Len(u) + 1 /\ Begins(u, t, Len(u)) /\ t[Len(u) + 1] = b
  BY <1>1, SeqFacts
<1>4. Tracks(c, Top(m), u)
  BY DEF GoodChain
<1> HIDE DEF t, r, lsn
<1>5. Tracks(r, Top(m), t)
  <2>1. Tracks(register_micro_block(c, t[Len(t)]), Top(m), t)
    BY <1>1, <1>2, <1>3, <1>4, TrackMicro
  <2> QED BY <1>3, <2>1 DEF r
<1>6. AfterMicro(c, r, lsn, b)
  <2>1. AtEnd(c, lsn)
    BY <1>1, <1>4, TrackFacts DEF lsn
  <2> QED BY <2>1, MicroFacts DEF r
<1>7. view_change(r) = 0
  <2>1. IsElected(ElectionResult(c))
    BY <1>4 DEF Tracks
  <2> QED BY <1>6, <2>1, ElectedByFacts DEF AfterMicro, view_change
<1>8. r.awards = c.awards /\ r.cache = c.cache
  BY <1>6 DEF AfterMicro, KeptBy
<1>9. GoodChain(r, m, t, s)
  BY <1>5, <1>7, <1>8 DEF GoodChain
<1>10. GoodDisk(m, t, s)
  BY <1>2 DEF GoodDisk
<1> QED BY <1>9, <1>10 DEF r, t

LEMMA PopGood ==
    ASSUME NEW m, NEW u, NEW s, GoodDisk(m, u, s), NEW c, GoodChain(c, m, u, s),
           c.offset > 0
    PROVE  LET t == Front(u)
               r == pop_micro_block(c)
           IN  GoodDisk(m, t, s) /\ GoodChain(r, m, t, s)
<1> DEFINE t == Front(u)
           r == pop_micro_block(c)
<1>1. IsBase(Top(m)) /\ IsMicros(u) /\ IsSeq(u) /\ Len(u) \in Nat
  BY TopFacts, SeqFacts DEF GoodDisk, IsMicros
<1>2. Tracks(c, Top(m), u)
  BY DEF GoodChain
<1>3. Len(u) - 1 \in 0 .. Len(u)
  BY <1>1, <1>2 DEF Tracks
<1>4. t = SubSeq(u, 1, Len(u) - 1)
  BY DEF Front
<1> HIDE DEF t, r
<1>5. IsMicros(t) /\ Len(t) = Len(u) - 1 /\ Begins(u, t, Len(t))
  BY <1>1, <1>3, <1>4, MicrosFacts, SeqFacts
<1>6. Tracks(r, Top(m), t) /\ KeptBy(c, r) /\ view_change(r) = 0
  BY <1>1, <1>2, <1>5, TrackPop DEF r
<1>7. GoodChain(r, m, t, s)
  BY <1>6 DEF GoodChain, KeptBy
<1>8. GoodDisk(m, t, s)
  BY <1>5 DEF GoodDisk
<1> QED BY <1>7, <1>8 DEF r, t

LEMMA ViewGood ==
    ASSUME NEW m, NEW u, NEW s, GoodDisk(m, u, s), NEW c, GoodChain(c, m, u, s),
           NEW vc \in Nat
    PROVE  GoodChain(set_view_change(c, vc), m, u, s)
<1> DEFINE r == set_view_change(c, vc)
<1>1. IsBase(Top(m)) /\ IsMicros(u)
  BY TopFacts DEF GoodDisk
<1>2. Tracks(c, Top(m), u)
  BY DEF GoodChain
<1>3. Tracks(r, Top(m), u) /\ KeptBy(c, r) /\ view_change(r) = vc
  BY <1>1, <1>2, TrackView
<1> HIDE DEF r
<1> QED BY <1>3 DEF GoodChain, KeptBy, r

LEMMA ApplyGood ==
    ASSUME NEW m, NEW u, NEW s, GoodDisk(m, u, s), NEW c, GoodChain(c, m, u, s),
           NEW b, IsMacro(b)
    PROVE  LET p == Popped(c)
               x == Append(m, b)
               r == register_macro_block(p, b)
               w == write_snapshot(p, b, s)
           IN  GoodDisk(x, <<>>, w) /\ GoodChain(r, x, <<>>, w)
<1> DEFINE p == Popped(c)
           x == Append(m, b)
           r == register_macro_block(p, b)
           w == write_snapshot(p, b, s)
<1>1. /\ IsBase(Top(m)) /\ IsMicros(u) /\ Len(m) \in Nat
      /\ IsMacros(m) /\ Len(m) > 0 /\ m[1] = Genesis
  BY TopFacts DEF GoodDisk
<1>2. /\ Tracks(c, Top(m), u) /\ c.awards = Top(m).awards /\ c.cache = Top(m).cache
      /\ SnapshotIs(s, Top(m))
  BY DEF GoodChain, GoodDisk
<1>3. Tracks(p, Top(m), <<>>) /\ KeptBy(c, p)
  BY <1>1, <1>2, TrackPopped
<1> HIDE DEF p
<1>4. p.awards = Top(m).awards /\ p.cache = Top(m).cache
  BY <1>2, <1>3 DEF KeptBy
<1>5. /\ IsMacros(x) /\ Len(x) > 0 /\ x[1] = Genesis /\ Len(x) = Len(m) + 1
      /\ Tracks(r, Top(x), <<>>) /\ r.awards = Top(x).awards /\ r.cache = Top(x).cache
      /\ view_change(r) = 0
      /\ SnapshotIs(w, Top(x))
  BY <1>1, <1>2, <1>3, <1>4, ApplyFacts DEF Top
<1> HIDE DEF x, r, w
<1>6. Known(w, x, 0)
  BY <1>5, KnownExact DEF Top
<1>7. GoodDisk(x, <<>>, w)
  BY <1>5, <1>6, MicrosFacts DEF GoodDisk
<1>8. w.epoch = Len(x) - 1
  <2>1. Top(x).epoch = Len(x)
    BY <1>7, TopFacts
  <2> QED BY <1>5, <2>1 DEF SnapshotIs, MetadataIs
<1>9. GoodChain(r, x, <<>>, w)
  BY <1>5, <1>8 DEF GoodChain
<1> QED BY <1>7, <1>9 DEF p, x, r, w

LEMMA NoMicrosGood ==
    ASSUME NEW m, NEW u, NEW s, GoodDisk(m, u, s)
    PROVE  GoodDisk(m, <<>>, s)
  BY MicrosFacts DEF GoodDisk

LEMMA FastGood ==
    ASSUME NEW m, NEW u, NEW s, GoodDisk(m, u, s), s.epoch = Len(m) - 1,
           NEW d, Stored(d, m, u, s)
    PROVE  GoodChain(try_recover_fast(d), m, u, s)
<1> DEFINE r == try_recover_fast(d)
<1>1. /\ Tracks(r, Top(m), u) /\ r.awards = Top(m).awards /\ r.cache = Top(m).cache
      /\ view_change(r) = 0
  BY FastFacts DEF GoodDisk, Top
<1> HIDE DEF r
<1> QED BY <1>1 DEF GoodChain, r

LEMMA LoadStartGood ==
    ASSUME NEW m, NEW u, NEW s, GoodDisk(m, u, s)
    PROVE  GoodLoad(NewChain, m, s)
<1>1. Len(m) \in Nat /\ IsSeq(m) /\ NewChain.epoch = 0
  BY TopFacts, NewChainReady DEF GoodDisk, IsMacros
<1>2. After(m, 0) = NewChain
  BY <1>1, AfterUnroll DEF MacrosUnroll
<1>3. Known(s, m, 0)
  BY DEF GoodDisk
<1> HIDE DEF NewChain
<1> QED BY <1>1, <1>2, <1>3 DEF GoodLoad

LEMMA LoadStepGood ==
    ASSUME NEW m, NEW u, NEW s, GoodDisk(m, u, s), NEW c, GoodLoad(c, m, s),
           c.epoch < Len(m)
    PROVE  LET b == m[c.epoch + 1]
               r == register_macro_block(c, b)
               w == write_snapshot(c, b, s)
           IN  GoodDisk(m, u, w) /\ GoodLoad(r, m, w)
<1> DEFINE j == c.epoch
           b == m[j + 1]
           r == register_macro_block(c, b)
           w == write_snapshot(c, b, s)
<1>1. /\ IsMacros(m) /\ Len(m) > 0 /\ m[1] = Genesis /\ Len(m) \in Nat /\ IsMicros(u)
      /\ j \in 0 .. Len(m) - 1 /\ j + 1 \in 0 .. Len(m) /\ j + 1 \in 1 .. Len(m)
  BY TopFacts DEF GoodDisk, GoodLoad
<1>2. c = After(m, j) /\ Known(s, m, j)
  BY DEF GoodLoad
<1>3. After(m, j + 1) = r /\ Known(w, m, j + 1) /\ MetadataIs(w, r)
  <2> HIDE DEF j
  <2>1. LET q == write_snapshot(After(m, j), m[j + 1], s)
        IN  /\ After(m, j + 1) = register_macro_block(After(m, j), m[j + 1])
            /\ Known(q, m, j + 1) /\ MetadataIs(q, After(m, j + 1))
    BY <1>1, <1>2, KnownStep
  <2>2. c = After(m, j)
    BY <1>2
  <2> QED BY <2>1, <2>2
<1> HIDE DEF w, r, b
<1>4. r.epoch = j + 1
  <2> HIDE DEF j
  <2>1. After(m, j + 1).epoch = j + 1
    BY <1>1, AfterFacts
  <2> QED BY <1>3, <2>1
<1>5. GoodLoad(r, m, w)
  <2> HIDE DEF j
  <2> QED BY <1>1, <1>3, <1>4 DEF GoodLoad
<1>6. Known(w, m, 0)
  <2> HIDE DEF j
  <2> QED BY <1>1, <1>3, KnownFirst
<1>7. ASSUME w.epoch = Len(m) - 1 PROVE SnapshotIs(w, Top(m))
  <2> HIDE DEF j
  <2>1. j + 1 = Len(m)
    BY <1>1, <1>3, <1>4, <1>7 DEF MetadataIs
  <2>2. Known(w, m, Len(m)) /\ MetadataIs(w, After(m, Len(m)))
    BY <1>3, <2>1
  <2> QED BY <1>1, <2>2, KnownLast DEF Top
<1>8. GoodDisk(m, u, w)
  BY <1>1, <1>6, <1>7 DEF GoodDisk
<1> QED BY <1>5, <1>8 DEF w, r, b

LEMMA LoadEndGood ==
    ASSUME NEW m, NEW u, NEW s, GoodDisk(m, u, s), NEW c, GoodLoad(c, m, s),
           c.epoch = Len(m)
    PROVE  GoodChain(RegisterMicros(c, u), m, u, s)
<1> DEFINE r == RegisterMicros(c, u)
<1>1. /\ IsBase(Top(m)) /\ Top(m).epoch = Len(m) /\ Len(m) \in Nat /\ Len(m) > 0
      /\ Tracks(Top(m), Top(m), <<>>) /\ view_change(Top(m)) = 0
      /\ IsMacros(m) /\ IsMicros(u)
  BY TopFacts DEF GoodDisk
<1>2. c = Top(m) /\ MetadataIs(s, c)
  BY <1>1 DEF GoodLoad, Top
<1>3. s.epoch = Len(m) - 1
  BY <1>1, <1>2 DEF MetadataIs
<1>4. Tracks(c, Top(m), <<>>) /\ view_change(c) = 0
  BY <1>1, <1>2
<1>5. Tracks(r, Top(m), u) /\ KeptBy(c, r) /\ view_change(r) = 0
  BY <1>1, <1>4, TrackSeq
<1> HIDE DEF r
<1> QED BY <1>2, <1>3, <1>5 DEF GoodChain, KeptBy, r

LEMMA InitGood ==
    LET m == <<Genesis>>
        w == write_snapshot(NewChain, Genesis, EmptySnapshot)
    IN  /\ GoodDisk(m, <<>>, w)
        /\ GoodChain(register_macro_block(NewChain, Genesis), m, <<>>, w)
<1> DEFINE m == <<Genesis>>
           s == EmptySnapshot
           w == write_snapshot(NewChain, Genesis, s)
           r == register_macro_block(NewChain, Genesis)
           l == MacroLsn(NewChain) - 1
<1>1. IsMacro(Genesis) /\ IsMacros(m)
  BY GenesisFacts
<1>2. Len(m) = 1 /\ m[1] = Genesis /\ IsSeq(m)
  BY <1>1 DEF IsMacros
<1>3. MacroReady(NewChain) /\ NewChain.epoch = 0
  BY NewChainReady
<1>4. MacroLsn(NewChain) \in Int
  <2>1. 0 \in Nat
    OBVIOUS
  <2>2. LSN(0, MACRO_BLOCK_OFFSET) \in Nat
    BY <2>1, LsnFacts
  <2> HIDE DEF NewChain
  <2> QED BY <1>3, <2>2 DEF MacroLsn
<1>5. ASSUME NEW f \in StoredMaps PROVE s[f] = At(NewChain[f], l)
  <2>1. /\ s.block_by_hash = new(Lsns).map /\ s.output_by_hash = new(Utxos).map
        /\ s.escrow = new(Utxos).map
    BY DEF EmptySnapshot
  <2>2. /\ NewChain.block_by_hash = new(Lsns) /\ NewChain.output_by_hash = new(Utxos)
        /\ NewChain.escrow = new(Utxos)
    BY DEF NewChain
  <2>3. l \in Int
    BY <1>4
  <2> HIDE DEF s, l
  <2>4. \A K : At(new(K), l) = new(K).map
    BY <2>3, NewFacts
  <2> QED BY <2>1, <2>2, <2>4 DEF StoredMaps
<1>6. l \in Int /\ l < MacroLsn(NewChain)
  BY <1>4
<1> HIDE DEF s, w, r, l, m
<1>7. SnapshotIs(w, r)
  BY <1>1, <1>3, <1>5, <1>6, WriteFacts DEF w, r
<1>8. Top(m) = r
  <2>1. After(m, 0) = NewChain /\ \A j \in 0 .. Len(m) - 1 : After(m, j + 1) = register_macro_block(After(m, j), m[j + 1])
    BY <1>2, AfterUnroll DEF MacrosUnroll
  <2>2. 0 \in 0 .. Len(m) - 1 /\ 0 + 1 = 1
    BY <1>2
  <2>3. After(m, 0 + 1) = register_macro_block(After(m, 0), m[0 + 1])
    BY <2>1, <2>2
  <2> QED BY <1>2, <2>1, <2>2, <2>3 DEF Top, r
<1>9. Known(w, m, 0)
  BY <1>1, <1>7, <1>8, KnownExact DEF Top
<1>10. GoodDisk(m, <<>>, w)
  BY <1>1, <1>2, <1>7, <1>8, <1>9, MicrosFacts DEF GoodDisk
<1>11. /\ Top(m).epoch = Len(m) /\ Tracks(Top(m), Top(m), <<>>) /\ view_change(Top(m)) = 0
  BY <1>10, TopFacts
<1>12. w.epoch = Len(m) - 1
  BY <1>7, <1>8, <1>11 DEF SnapshotIs, MetadataIs
<1>13. GoodChain(r, m, <<>>, w)
  BY <1>8, <1>11, <1>12 DEF GoodChain
<1> QED BY <1>10, <1>13 DEF m, w, r, s

LEMMA InitIInv == Init => IInv
<1> SUFFICES ASSUME Init PROVE IInv
  OBVIOUS
<1> DEFINE w == write_snapshot(NewChain, Genesis, EmptySnapshot)
<1>1. /\ disk.macros = <<Genesis>> /\ disk.micros = <<>> /\ disk.snapshot = w
      /\ disk = [macros |-> disk.macros, micros |-> disk.micros, snapshot |-> disk.snapshot]
  BY DEF Init
<1>2. chain = register_macro_block(NewChain, Genesis) /\ loading = FALSE
  BY DEF Init
<1> HIDE DEF w
<1>3. GoodDisk(<<Genesis>>, <<>>, w)
  BY InitGood DEF w
<1>4. GoodChain(chain, <<Genesis>>, <<>>, w)
  BY <1>2, InitGood DEF w
<1> QED BY <1>1, <1>2, <1>3, <1>4 DEF IInv

LEMMA PushIInv == ASSUME IInv, PushMicroBlock PROVE IInv'
<1>1. Running /\ loading' = loading
  BY DEF PushMicroBlock
<1>2. PICK b \in MicroBlocks(chain, Created(disk)) :
         /\ disk' = [disk EXCEPT !.micros = Append(@, b)]
         /\ chain' = register_micro_block(chain, b)
  BY DEF PushMicroBlock
<1>3. GoodDisk(disk.macros, disk.micros, disk.snapshot)
  BY DEF IInv
<1>4. GoodChain(chain, disk.macros, disk.micros, disk.snapshot)
  BY <1>1 DEF IInv
<1>5. IsMicro(b)
  BY <1>4, MicroBlockFacts DEF GoodChain
<1>6. /\ GoodDisk(disk.macros, Append(disk.micros, b), disk.snapshot)
      /\ GoodChain(chain', disk.macros, Append(disk.micros, b), disk.snapshot)
  BY <1>2, <1>3, <1>4, <1>5, PushGood
<1>7. /\ disk'.macros = disk.macros /\ disk'.micros = Append(disk.micros, b)
      /\ disk'.snapshot = disk.snapshot
      /\ disk' = [macros |-> disk'.macros, micros |-> disk'.micros, snapshot |-> disk'.snapshot]
  BY <1>2 DEF IInv
<1> QED BY <1>1, <1>6, <1>7 DEF IInv, Running

LEMMA PopIInv == ASSUME IInv, PopMicroBlock PROVE IInv'
<1>1. /\ Running /\ chain.offset > 0 /\ loading' = loading /\ chain' = pop_micro_block(chain)
      /\ disk' = [disk EXCEPT !.micros = Front(@)]
  BY DEF PopMicroBlock
<1>2. GoodDisk(disk.macros, disk.micros, disk.snapshot)
  BY DEF IInv
<1>3. GoodChain(chain, disk.macros, disk.micros, disk.snapshot)
  BY <1>1 DEF IInv
<1>4. /\ GoodDisk(disk.macros, Front(disk.micros), disk.snapshot)
      /\ GoodChain(chain', disk.macros, Front(disk.micros), disk.snapshot)
  BY <1>1, <1>2, <1>3, PopGood
<1>5. /\ disk'.macros = disk.macros /\ disk'.micros = Front(disk.micros)
      /\ disk'.snapshot = disk.snapshot
      /\ disk' = [macros |-> disk'.macros, micros |-> disk'.micros, snapshot |-> disk'.snapshot]
  BY <1>1 DEF IInv
<1> QED BY <1>1, <1>4, <1>5 DEF IInv, Running

LEMMA ViewIInv == ASSUME IInv, SetViewChange PROVE IInv'
<1>1. Running /\ loading' = loading /\ disk' = disk
  BY DEF SetViewChange
<1>2. PICK vc \in view_change(chain) + 1 .. MaxViewChange : chain' = set_view_change(chain, vc)
  BY DEF SetViewChange
<1>3. GoodDisk(disk.macros, disk.micros, disk.snapshot)
  BY DEF IInv
<1>4. GoodChain(chain, disk.macros, disk.micros, disk.snapshot)
  BY <1>1 DEF IInv
<1>5. vc \in Nat
  <2>1. view_change(chain) \in Nat /\ MaxViewChange \in Nat
    BY <1>4, BlockchainAssumption DEF GoodChain
  <2> QED BY <2>1
<1>6. GoodChain(chain', disk.macros, disk.micros, disk.snapshot)
  BY <1>2, <1>3, <1>4, <1>5, ViewGood
<1> QED BY <1>1, <1>3, <1>6 DEF IInv, Running

LEMMA ApplyIInv == ASSUME IInv, ApplyMacroBlock PROVE IInv'
<1> DEFINE p == Popped(chain)
<1>1. Running /\ loading' = loading
  BY DEF ApplyMacroBlock
<1>2. PICK b \in Agreed :
         \/ /\ chain' = register_macro_block(p, b)
            /\ disk' = [macros |-> Append(disk.macros, b), micros |-> <<>>,
                        snapshot |-> write_snapshot(p, b, disk.snapshot)]
         \/ /\ chain' = Down
            /\ disk' = [disk EXCEPT !.micros = <<>>]
  BY DEF ApplyMacroBlock
<1>3. GoodDisk(disk.macros, disk.micros, disk.snapshot)
  BY DEF IInv
<1>4. GoodChain(chain, disk.macros, disk.micros, disk.snapshot)
  BY <1>1 DEF IInv
<1>5. IsMacro(b)
  BY <1>3, AgreedFacts DEF GoodDisk
<1>6. CASE /\ chain' = register_macro_block(p, b)
           /\ disk' = [macros |-> Append(disk.macros, b), micros |-> <<>>,
                       snapshot |-> write_snapshot(p, b, disk.snapshot)]
  <2> DEFINE x == Append(disk.macros, b)
             w == write_snapshot(p, b, disk.snapshot)
  <2>1. GoodDisk(x, <<>>, w) /\ GoodChain(chain', x, <<>>, w)
    BY <1>3, <1>4, <1>5, <1>6, ApplyGood
  <2> HIDE DEF x, w
  <2>2. /\ disk'.macros = x /\ disk'.micros = <<>> /\ disk'.snapshot = w
        /\ disk' = [macros |-> disk'.macros, micros |-> disk'.micros, snapshot |-> disk'.snapshot]
    BY <1>6 DEF x, w
  <2> QED BY <1>1, <2>1, <2>2 DEF IInv, Running
<1>7. CASE chain' = Down /\ disk' = [disk EXCEPT !.micros = <<>>]
  <2>1. GoodDisk(disk.macros, <<>>, disk.snapshot)
    BY <1>3, NoMicrosGood
  <2>2. /\ disk'.macros = disk.macros /\ disk'.micros = <<>>
        /\ disk'.snapshot = disk.snapshot
        /\ disk' = [macros |-> disk'.macros, micros |-> disk'.micros, snapshot |-> disk'.snapshot]
    BY <1>7 DEF IInv
  <2> QED BY <1>1, <1>7, <2>1, <2>2 DEF IInv, Running
<1> QED BY <1>2, <1>6, <1>7

LEMMA StopIInv == ASSUME IInv, Crash PROVE IInv'
  BY DEF IInv, Crash, Running

LEMMA FastIInv == ASSUME IInv, RecoverFast PROVE IInv'
<1>1. /\ disk.snapshot.epoch = Len(disk.macros) - 1 /\ chain' = try_recover_fast(disk)
      /\ disk' = disk /\ loading' = loading /\ ~ loading
  BY DEF RecoverFast, Stopped
<1>2. GoodDisk(disk.macros, disk.micros, disk.snapshot)
  BY DEF IInv
<1>3. GoodChain(chain', disk.macros, disk.micros, disk.snapshot)
  BY <1>1, <1>2, FastGood DEF Stored
<1> QED BY <1>1, <1>2, <1>3 DEF IInv, Running

LEMMA StartIInv == ASSUME IInv, StartRecoverBlocks PROVE IInv'
<1>1. chain' = NewChain /\ loading' = TRUE /\ disk' = disk
  BY DEF StartRecoverBlocks
<1>2. GoodDisk(disk.macros, disk.micros, disk.snapshot)
  BY DEF IInv
<1>3. GoodLoad(chain', disk.macros, disk.snapshot)
  BY <1>1, <1>2, LoadStartGood
<1> QED BY <1>1, <1>2, <1>3 DEF IInv, Running

LEMMA LoadMacroIInv == ASSUME IInv, RecoverMacroBlock PROVE IInv'
<1> DEFINE b == disk.macros[chain.epoch + 1]
           w == write_snapshot(chain, b, disk.snapshot)
<1>1. /\ loading /\ chain.epoch < Len(disk.macros) /\ loading' = loading
      /\ chain' = register_macro_block(chain, b)
      /\ disk' = [disk EXCEPT !.snapshot = w]
  BY DEF RecoverMacroBlock
<1>2. GoodDisk(disk.macros, disk.micros, disk.snapshot)
  BY DEF IInv
<1>3. GoodLoad(chain, disk.macros, disk.snapshot)
  BY <1>1 DEF IInv
<1>4. GoodDisk(disk.macros, disk.micros, w) /\ GoodLoad(chain', disk.macros, w)
  BY <1>1, <1>2, <1>3, LoadStepGood
<1> HIDE DEF w
<1>5. /\ disk'.macros = disk.macros /\ disk'.micros = disk.micros /\ disk'.snapshot = w
      /\ disk' = [macros |-> disk'.macros, micros |-> disk'.micros, snapshot |-> disk'.snapshot]
  BY <1>1 DEF IInv
<1> QED BY <1>1, <1>4, <1>5 DEF IInv, Running

LEMMA LoadMicrosIInv == ASSUME IInv, RecoverMicroBlocks PROVE IInv'
<1>1. /\ loading /\ chain.epoch = Len(disk.macros) /\ loading' = FALSE /\ disk' = disk
      /\ chain' = RegisterMicros(chain, disk.micros)
  BY DEF RecoverMicroBlocks
<1>2. GoodDisk(disk.macros, disk.micros, disk.snapshot)
  BY DEF IInv
<1>3. GoodLoad(chain, disk.macros, disk.snapshot)
  BY <1>1 DEF IInv
<1>4. GoodChain(chain', disk.macros, disk.micros, disk.snapshot)
  BY <1>1, <1>2, <1>3, LoadEndGood
<1> QED BY <1>1, <1>2, <1>4 DEF IInv, Running

LEMMA NextIInv == IInv /\ [Next]_vars => IInv'
<1> SUFFICES ASSUME IInv, [Next]_vars PROVE IInv'
  OBVIOUS
<1>1. CASE UNCHANGED vars
  BY <1>1 DEF vars, IInv, Running
<1> QED BY <1>1, PushIInv, PopIInv, ViewIInv, ApplyIInv, StopIInv, FastIInv, StartIInv,
           LoadMacroIInv, LoadMicrosIInv DEF Next

-----------------------------------------------------------------------------
(* Theorems *)

\* The blocks of the database are well formed, a snapshot as new as the last of
\* them is exact, an older one can be completed by loading the blocks, and the
\* memory of a running node is that of its blocks and its undo logs lead back to
\* each of them.
THEOREM Invariance == Spec => []IInv
  BY InitIInv, NextIInv, PTL DEF Spec

LEMMA RecoveryFollows == IInv => RecoveryIsExact
<1> SUFFICES ASSUME IInv, Running PROVE
         /\ disk.snapshot.epoch = Len(disk.macros) - 1
         /\ Contents(try_recover_fast(disk)) = Contents(chain)
         /\ Contents(ReplayBlocks(disk)) = Contents(chain)
  BY DEF RecoveryIsExact
<1> DEFINE m == disk.macros
           u == disk.micros
           s == disk.snapshot
           fast == try_recover_fast(disk)
           replay == ReplayBlocks(disk)
<1>1. GoodDisk(m, u, s) /\ GoodChain(chain, m, u, s) /\ Stored(disk, m, u, s)
  BY DEF IInv, Stored
<1> HIDE DEF m, u, s
<1>2. s.epoch = Len(m) - 1
  BY <1>1 DEF GoodChain
<1>3. /\ IsBase(Top(m)) /\ IsMicros(u) /\ Tracks(Top(m), Top(m), <<>>)
      /\ RegisterMacros(NewChain, m) = Top(m)
  BY <1>1, TopFacts DEF GoodDisk
<1>4. GoodChain(fast, m, u, s)
  BY <1>1, <1>2, FastGood
<1>5. replay = RegisterMicros(Top(m), u)
  BY <1>3 DEF ReplayBlocks, m, u
<1>6. Tracks(replay, Top(m), u) /\ replay.awards = Top(m).awards /\ replay.cache = Top(m).cache
  BY <1>3, <1>5, TrackSeq DEF KeptBy
<1> HIDE DEF fast, replay
<1>7. Contents(fast) = Contents(chain)
  BY <1>1, <1>3, <1>4, TracksSame DEF GoodChain
<1>8. Contents(replay) = Contents(chain)
  BY <1>1, <1>3, <1>6, TracksSame DEF GoodChain
<1> QED BY <1>2, <1>7, <1>8 DEF fast, replay, m, s

\* RecoveryIsExact: whatever blocks were pushed, popped, replaced and reloaded,
\* and wherever the node stopped in between, the snapshot is as new as the last
\* macro block while it runs, and a fast recovery and a replay of all blocks both
\* rebuild what it has.
THEOREM Recovery == Spec => []RecoveryIsExact
  BY Invariance, RecoveryFollows, PTL

LEMMA HistoryFollows == IInv => HistoryIsExact
<1> SUFFICES ASSUME IInv, Running, NEW offset \in 0 .. chain.offset - 1 PROVE
        LET lsn == PreviousLsn(chain.epoch, offset)
            past == [RollbackMaps(chain, lsn) EXCEPT !.offset = offset]
            then == try_recover_fast([disk EXCEPT !.micros = SubSeq(@, 1, offset)])
        IN  /\ Contents(past) = Contents(then)
            /\ election_result_by_offset(chain, offset) = ElectionResult(then)
            /\ current_lsn(past.block_by_hash) = lsn
            /\ current_lsn(past.election_result) = lsn
            /\ \A m \in {past.output_by_hash, past.balance, past.escrow,
                          past.epoch_activity} : current_lsn(m) <= lsn
  BY DEF HistoryIsExact
<1> DEFINE m == disk.macros
           u == disk.micros
           s == disk.snapshot
           t == SubSeq(disk.micros, 1, offset)
           d == [disk EXCEPT !.micros = t]
           then == try_recover_fast(d)
<1>1. GoodDisk(m, u, s) /\ GoodChain(chain, m, u, s)
  BY DEF IInv
<1>2. Stored(d, m, t, s)
  BY DEF IInv, Stored
<1> HIDE DEF m, s, d
<1>3. /\ IsBase(Top(m)) /\ IsMicros(u) /\ IsSeq(u) /\ Len(u) \in Nat
      /\ Tracks(chain, Top(m), u)
  BY <1>1, TopFacts, SeqFacts DEF GoodDisk, GoodChain, IsMicros
<1>4. offset \in Nat /\ offset <= Len(u) /\ offset \in 0 .. Len(u)
  BY <1>3 DEF Tracks
<1>5. IsMicros(t) /\ Len(t) = offset /\ Begins(u, t, offset)
  BY <1>3, <1>4, MicrosFacts, SeqFacts
<1> HIDE DEF t, u
<1>6. GoodDisk(m, t, s)
  BY <1>1, <1>5 DEF GoodDisk
<1>7. /\ Tracks(then, Top(m), t) /\ then.awards = Top(m).awards /\ then.cache = Top(m).cache
      /\ view_change(then) = 0
  BY <1>1, <1>2, <1>5, FastFacts DEF GoodDisk, GoodChain, Top
<1>8. then.awards = chain.awards /\ then.cache = chain.cache
  BY <1>1, <1>7 DEF GoodChain
<1> HIDE DEF then
<1>9. LET lsn == PreviousLsn(chain.epoch, offset)
          p == Past(chain, lsn, offset)
      IN  /\ Contents(p) = Contents(then)
          /\ election_result_by_offset(chain, offset) = ElectionResult(then)
          /\ current_lsn(p.block_by_hash) = lsn
          /\ current_lsn(p.election_result) = lsn
          /\ \A x \in {p.output_by_hash, p.balance, p.escrow, p.epoch_activity} :
                current_lsn(x) <= lsn
  BY <1>3, <1>4, <1>5, <1>7, <1>8, TrackHistory
<1>10. then = try_recover_fast([disk EXCEPT !.micros = SubSeq(@, 1, offset)])
  BY DEF then, d, t
<1> QED BY <1>9, <1>10 DEF Past

\* HistoryIsExact: for every earlier block of the epoch, rolling the maps of a
\* running node back to it gives what a node with only the blocks up to it has,
\* its leaders and randoms included, and leaves the lsns that the asserts of
\* pop_micro_block expect.
THEOREM History == Spec => []HistoryIsExact
  BY Invariance, HistoryFollows, PTL

LEMMA ProofFollows == IInv => ViewChangeHasProof
<1> SUFFICES ASSUME IInv, Running, view_change(chain) > 0 PROVE chain.view_change_proof
  BY DEF ViewChangeHasProof
<1>1. GoodChain(chain, disk.macros, disk.micros, disk.snapshot)
  BY DEF IInv
<1>2. view_change(chain) \in Nat /\ Tracks(chain, Top(disk.macros), disk.micros)
  BY <1>1 DEF GoodChain
<1>3. view_change(chain) # 0
  BY <1>2
<1> QED BY <1>2, <1>3 DEF Tracks

\* ViewChangeHasProof: a running node whose last block was followed by a view
\* change holds the proof of it, through pushes, pops, macro blocks and restarts.
THEOREM ViewChangeProof == Spec => []ViewChangeHasProof
  BY Invariance, ProofFollows, PTL

-----------------------------------------------------------------------------
(* Who wins a lottery *)

IsGroup(group) == group \in [Validators -> Nat]

UpToKey(v) == {w \in Validators : w <= v}

LEMMA WeightIsSum ==
    ASSUME NEW group, IsGroup(group), NEW v
    PROVE  WeightUpTo(group, v) = SumOver(group, UpToKey(v))
<1>1. DOMAIN group = Validators
  BY DEF IsGroup
<1>2. {w \in DOMAIN group : w <= v} = UpToKey(v)
  BY <1>1 DEF UpToKey
<1> HIDE DEF UpToKey
<1> QED BY <1>2 DEF WeightUpTo, MapThenSumSet, MapThenFoldSet, SumOver, Sums, IsSum, Pick

\* The greatest of a finite set of numbers.
LEMMA MaxExists ==
    ASSUME NEW S \in SUBSET Nat, IsFiniteSet(S), S # {}
    PROVE  Max(S) \in S /\ \A y \in S : y <= Max(S)
<1>1. PICK n \in S : \A y \in S : y <= n
  BY Greatest
<1> QED BY <1>1, MaxIs

\* Keys without a weight do not win.
LEMMA WinnerIsMember ==
    ASSUME NEW group, IsGroup(group), Members(group) # {}, NEW random \in Nat
    PROVE  select_winner(group, random) \in Members(group)
<1> DEFINE W(v) == WeightUpTo(group, v)
           top == Max(Validators)
           need == random % W(top)
           S == {v \in Validators : W(v) > need}
           w == Min(S)
<1>1. /\ group \in [Validators -> Nat] /\ DOMAIN group = Validators
      /\ Validators \in SUBSET Nat /\ IsFiniteSet(Validators)
  BY ElectionAssumption, StakersAssumption DEF IsGroup
<1>2. select_winner(group, random) = w
  BY <1>1 DEF select_winner
<1>3. PICK p \in Validators : group[p] > 0
  BY <1>1 DEF Members
<1>4. top \in Validators /\ \A v \in Validators : v <= top
  BY <1>1, <1>3, MaxExists
<1>5. ASSUME NEW v \in Validators
      PROVE  W(v) = SumOver(group, UpToKey(v)) /\ W(v) \in Nat /\ UpToKey(v) \in SUBSET Validators
  <2>1. UpToKey(v) \in SUBSET Validators
    BY DEF UpToKey
  <2>2. W(v) = SumOver(group, UpToKey(v))
    BY WeightIsSum
  <2> HIDE DEF W
  <2>3. SumOver(group, UpToKey(v)) \in Nat
    BY <1>1, <2>1, SumNat
  <2> QED BY <2>1, <2>2, <2>3
<1>6. ASSUME NEW v \in Validators
      PROVE  /\ UpToKey(v) \ {v} \in SUBSET Validators
             /\ W(v) = SumOver(group, UpToKey(v) \ {v}) + group[v]
             /\ SumOver(group, UpToKey(v) \ {v}) \in Nat
  <2>1. v \in UpToKey(v) /\ UpToKey(v) \in SUBSET Validators
    BY <1>1 DEF UpToKey
  <2>2. UpToKey(v) \ {v} \in SUBSET Validators
    BY <2>1
  <2>3. SumOver(group, UpToKey(v)) = SumOver(group, UpToKey(v) \ {v}) + group[v]
    BY <1>1, <2>1, SumRemove
  <2>4. SumOver(group, UpToKey(v) \ {v}) \in Nat
    BY <1>1, <2>2, SumNat
  <2> HIDE DEF W
  <2> QED BY <1>5, <2>2, <2>3, <2>4
<1>7. W(top) > 0
  <2> HIDE DEF W, top
  <2>1. p \in UpToKey(top) /\ UpToKey(top) \in SUBSET Validators /\ UpToKey(top) \ {p} \in SUBSET Validators
    BY <1>4 DEF UpToKey
  <2>2. SumOver(group, UpToKey(top)) = SumOver(group, UpToKey(top) \ {p}) + group[p]
    BY <1>1, <2>1, SumRemove
  <2>3. SumOver(group, UpToKey(top) \ {p}) \in Nat /\ group[p] \in Nat
    BY <1>1, <2>1, SumNat
  <2> QED BY <1>3, <1>4, <1>5, <2>2, <2>3
<1> HIDE DEF W
<1>8. need \in Nat /\ need < W(top)
  BY <1>4, <1>5, <1>7
<1> HIDE DEF need, top
<1>9. S \in SUBSET Nat /\ S # {}
  BY <1>1, <1>4, <1>5, <1>8
<1>10. w \in S /\ \A y \in S : w <= y
  BY <1>9, MinExists
<1> HIDE DEF w
<1>11. w \in Validators /\ W(w) > need /\ w \in Nat /\ W(w) \in Nat
  BY <1>1, <1>5, <1>10
<1>12. ASSUME group[w] = 0 PROVE FALSE
  <2> DEFINE below == UpToKey(w) \ {w}
  <2>1. W(w) = SumOver(group, below)
    BY <1>6, <1>11, <1>12
  <2>2. below \in SUBSET Nat /\ IsFiniteSet(below) /\ below \in SUBSET Validators
    BY <1>1, <1>6, <1>11, FS_Subset
  <2>3. below # {}
    <3>1. below = {} => SumOver(group, below) = 0
      BY <1>1, <2>2, SumUnroll
    <3> QED BY <1>8, <1>11, <2>1, <3>1
  <2> DEFINE q == Max(below)
  <2>4. q \in below /\ \A y \in below : y <= q
    BY <2>2, <2>3, MaxExists
  <2> HIDE DEF q
  <2>5. q \in Validators /\ q < w /\ q \in Nat
    BY <1>1, <1>11, <2>4 DEF UpToKey
  <2>6. UpToKey(q) = below
    <3>1. ASSUME NEW x \in Validators PROVE x <= q <=> (x <= w /\ x # w)
      <4>1. x \in Nat
        BY <1>1
      <4>2. x <= w /\ x # w => x <= q
        BY <2>4 DEF UpToKey
      <4> QED BY <1>11, <2>5, <4>1, <4>2
    <3> QED BY <3>1 DEF UpToKey
  <2>7. W(q) = W(w)
    BY <1>5, <2>1, <2>5, <2>6
  <2>8. q \in S
    BY <1>11, <2>5, <2>7
  <2> QED BY <1>10, <1>11, <2>5, <2>8
<1>13. group[w] \in Nat
  BY <1>1, <1>11
<1>14. group[w] > 0
  BY <1>12, <1>13
<1> QED BY <1>1, <1>2, <1>11, <1>14 DEF Members

\* Slots go to stakers.
LEMMA ElectedAreStakers ==
    ASSUME NEW stakers, IsGroup(stakers), Members(stakers) # {},
           NEW random \in Randoms \cup {GenesisRandom}
    PROVE  Members(select_validators_slots(stakers, random).validators) \subseteq Members(stakers)
<1> DEFINE Won(v) == {i \in 0 .. SlotCount - 1 :
                         select_winner(stakers, generate_u64(random, i)) = v}
           validators == [v \in DOMAIN stakers |-> Cardinality(Won(v))]
<1>1. select_validators_slots(stakers, random).validators = validators
  BY DEF select_validators_slots
<1> HIDE DEF Won
<1> SUFFICES ASSUME NEW v \in DOMAIN stakers, Cardinality(Won(v)) > 0 PROVE v \in Members(stakers)
  BY <1>1 DEF Members
<1>2. Won(v) # {}
  BY FS_EmptySet
<1>3. PICK i \in 0 .. SlotCount - 1 : select_winner(stakers, generate_u64(random, i)) = v
  BY <1>2 DEF Won
<1>4. i \in 0 .. SlotCount + MaxViewChange
  BY ElectionAssumption, BlockchainAssumption
<1>5. generate_u64(random, i) \in Nat
  BY <1>4, StakersAssumption
<1> QED BY <1>3, <1>5, WinnerIsMember

-----------------------------------------------------------------------------
(* Stakes *)

LEMMA AmountFacts ==
    ASSUME NEW S \in SUBSET Utxos
    PROVE  Amount(S) \in Nat /\ (S = {} => Amount(S) = 0)
<1> DEFINE f == [u \in Utxos |-> Stake[u].amount]
<1>1. f \in [Utxos -> Nat] /\ IsFiniteSet(Utxos)
  BY BlockchainAssumption
<1>2. Amount(S) = SumOver([u \in Utxos |-> Stake[u].amount], S)
  <2>1. \A u \in S : f[u] = Stake[u].amount
    OBVIOUS
  <2> QED BY DEF Amount, MapThenSumSet, MapThenFoldSet, SumOver, Sums, IsSum, Pick
<1>3. Amount(S) = SumOver(f, S)
  BY <1>2
<1> HIDE DEF f
<1>4. SumOver(f, S) \in Nat
  BY <1>1, SumNat
<1>5. S = {} => SumOver(f, S) = 0
  BY <1>1, SumUnroll
<1> QED BY <1>3, <1>4, <1>5

\* Who counts as a staker of an epoch has a stake that is locked in it.
LEMMA StakersFacts ==
    ASSUME NEW c, NEW epoch
    PROVE  LET stakers == get_stakers_majority(c, epoch)
           IN  /\ IsGroup(stakers)
               /\ \A v \in Members(stakers) : v \in Validators /\ ActiveStakes(c, v, epoch) # {}
<1> DEFINE A(v) == Amount(ActiveStakes(c, v, epoch))
           stakers == get_stakers_majority(c, epoch)
<1>1. \A v : A(v) \in Nat /\ (ActiveStakes(c, v, epoch) = {} => A(v) = 0)
  BY StakesAreUtxos, AmountFacts
<1>2. stakers = [v \in Validators |-> IF A(v) >= MinStake THEN A(v) ELSE 0]
  BY DEF get_stakers_majority
<1> HIDE DEF A, stakers
<1>3. IsGroup(stakers)
  BY <1>1, <1>2 DEF IsGroup
<1>4. ASSUME NEW v \in Members(stakers) PROVE v \in Validators /\ ActiveStakes(c, v, epoch) # {}
  <2>1. v \in Validators /\ stakers[v] > 0
    BY <1>2 DEF Members
  <2>2. A(v) # 0
    BY <1>1, <1>2, <2>1
  <2> QED BY <1>1, <2>1, <2>2
<1> QED BY <1>3, <1>4 DEF stakers

\* Every validator of t has a stake that is locked in its epoch.
Staked(t) ==
    \A v \in Members(ElectionResult(t).validators) : ActiveStakes(t, v, t.epoch) # {}

LEMMA MacroStaked ==
    ASSUME NEW c, MacroReady(c), NEW b, IsMacro(b), b.random \in Randoms \cup {GenesisRandom},
           Members(get_stakers_majority(RegisterOutputs(c, b), c.epoch + 1)) # {}
    PROVE  Staked(register_macro_block(c, b))
<1> DEFINE q == UpdateMetadata(c, b)
           r == register_macro_block(c, b)
           o == RegisterOutputs(c, b)
           stakers == get_stakers_majority(o, c.epoch + 1)
<1>1. /\ AfterMacro(c, q, b) /\ o.epoch = c.epoch
      /\ o.escrow.map = Moved(c.escrow.map, b.ins \ b.outs, NewStakes(b.outs \ b.ins, c.epoch))
  BY MetadataFacts DEF MacroReady
<1>2. r.epoch = c.epoch + 1 /\ \A f \in MapNames \ {"epoch_activity"} : r[f].map = q[f].map
  BY MacroFacts DEF MacroReady
<1> HIDE DEF q, r, o
<1>3. r.escrow.map = o.escrow.map /\ r.election_result.map = q.election_result.map
  BY <1>1, <1>2 DEF AfterMacro, MapNames
<1>4. ElectionResult(r) = select_validators_slots(stakers, b.random)
  BY <1>1, <1>3 DEF AfterMacro, ElectionResult, next_election_result, o, Unit
<1>5. IsGroup(stakers) /\ \A v \in Members(stakers) : ActiveStakes(o, v, c.epoch + 1) # {}
  BY StakersFacts
<1>6. Members(stakers) # {}
  BY DEF o
<1> HIDE DEF stakers
<1>7. Members(ElectionResult(r).validators) \subseteq Members(stakers)
  BY <1>4, <1>5, <1>6, ElectedAreStakers
<1>8. \A v : ActiveStakes(r, v, r.epoch) = ActiveStakes(o, v, c.epoch + 1)
  BY <1>2, <1>3 DEF ActiveStakes, StakesOf
<1> QED BY <1>5, <1>7, <1>8 DEF Staked, r

-----------------------------------------------------------------------------
(* What the micro blocks of an epoch do to the outputs *)

\* The outputs in map are those of old without the inputs and with the outputs
\* of some blocks.
OutputsAre(map, old, ins, outs) ==
    \A k \in Utxos : map[k] # NoValue <=> k \notin ins /\ (k \in outs \/ old[k] # NoValue)

StakesAre(map, old, ins, outs, epoch) ==
    map = [k \in Utxos |-> IF k \in ins THEN NoValue
                           ELSE IF k \in outs /\ Stake[k].validator # NoValidator
                           THEN epoch + StakeEpochs ELSE old[k]]

\* All outputs in map were made before.
MadeOf(map, made) == \A k \in Utxos : map[k] # NoValue => k \in made

\* A block that spends outputs that exist and makes new ones.
LEMMA OutputsStep ==
    ASSUME NEW map, NEW old, NEW ins, NEW outs, NEW made, OutputsAre(map, old, ins, outs),
           NEW i \in SUBSET Utxos, NEW o \in SUBSET Utxos, NEW lsn \in Nat,
           ins \subseteq made, outs \subseteq made, MadeOf(old, made),
           i \subseteq made, o \cap made = {}
    PROVE  OutputsAre(Moved(map, i, NewOutputs(o, lsn)), old, ins \cup i, outs \cup o)
<1> DEFINE n == NewOutputs(o, lsn)
           r == Moved(map, i, n)
<1>1. Given(n) = o /\ \A k \in o : n[k] = lsn
  BY StakersAssumption DEF Given, NewOutputs
<1>2. lsn # NoValue
  BY StakersAssumption
<1> HIDE DEF n
<1>3. \A k \in Utxos : r[k] = IF k \in o THEN lsn ELSE IF k \in i THEN NoValue ELSE map[k]
  BY <1>1 DEF Moved
<1> HIDE DEF r
<1> QED BY <1>2, <1>3 DEF OutputsAre, MadeOf, r, n

LEMMA StakesStep ==
    ASSUME NEW map, NEW old, NEW ins, NEW outs, NEW made, NEW epoch \in Nat,
           StakesAre(map, old, ins, outs, epoch),
           NEW i \in SUBSET Utxos, NEW o \in SUBSET Utxos,
           ins \subseteq made, outs \subseteq made, MadeOf(old, made),
           i \subseteq made, o \cap made = {}
    PROVE  StakesAre(Moved(map, i, NewStakes(o, epoch)), old, ins \cup i, outs \cup o, epoch)
<1> DEFINE s == {k \in o : Stake[k].validator # NoValidator}
           n == NewStakes(o, epoch)
           t == epoch + StakeEpochs
           r == Moved(map, i, n)
<1>1. Given(n) = s /\ \A k \in s : n[k] = t
  BY StakersAssumption, BlockchainAssumption DEF Given, NewStakes
<1> HIDE DEF n, t
<1>2. r = [k \in Utxos |-> IF k \in s THEN t ELSE IF k \in i THEN NoValue ELSE map[k]]
  BY <1>1 DEF Moved
<1> HIDE DEF r
<1>3. ASSUME NEW k \in Utxos
      PROVE  r[k] = IF k \in ins \cup i THEN NoValue
                    ELSE IF k \in outs \cup o /\ Stake[k].validator # NoValidator THEN t
                    ELSE old[k]
  <2>1. map[k] = IF k \in ins THEN NoValue
                 ELSE IF k \in outs /\ Stake[k].validator # NoValidator THEN t ELSE old[k]
    BY DEF StakesAre, t
  <2> QED BY <1>2, <2>1
<1> QED BY <1>2, <1>3 DEF StakesAre, r, n, t

\* The same outputs are unspent.
SameKeys(map, other) == \A k \in Utxos : map[k] # NoValue <=> other[k] # NoValue

\* A macro block with all inputs and outputs does the same, for what was made and
\* spent since is new.
LEMMA OutputsOfMacro ==
    ASSUME NEW map, NEW old, NEW ins, NEW outs, NEW made, OutputsAre(map, old, ins, outs),
           outs \subseteq Utxos, outs \cap made = {}, MadeOf(old, made), NEW lsn \in Nat
    PROVE  SameKeys(Moved(old, ins \ outs, NewOutputs(outs \ ins, lsn)), map)
<1> DEFINE n == NewOutputs(outs \ ins, lsn)
           r == Moved(old, ins \ outs, n)
<1>1. Given(n) = outs \ ins /\ \A k \in outs \ ins : n[k] = lsn
  BY StakersAssumption DEF Given, NewOutputs
<1>2. lsn # NoValue
  BY StakersAssumption
<1> HIDE DEF n
<1>3. \A k \in Utxos : r[k] = IF k \in outs \ ins THEN lsn
                              ELSE IF k \in ins \ outs THEN NoValue ELSE old[k]
  BY <1>1 DEF Moved
<1> HIDE DEF r
<1>4. SameKeys(r, map)
  BY <1>2, <1>3 DEF OutputsAre, MadeOf, SameKeys
<1> QED BY <1>4 DEF r, n

LEMMA StakesOfMacro ==
    ASSUME NEW map, NEW old, NEW ins, NEW outs, NEW made, NEW epoch \in Nat,
           StakesAre(map, old, ins, outs, epoch),
           outs \subseteq Utxos, outs \cap made = {}, MadeOf(old, made)
    PROVE  Moved(old, ins \ outs, NewStakes(outs \ ins, epoch)) = map
<1> DEFINE s == {k \in outs \ ins : Stake[k].validator # NoValidator}
           n == NewStakes(outs \ ins, epoch)
           t == epoch + StakeEpochs
           r == Moved(old, ins \ outs, n)
<1>1. Given(n) = s /\ \A k \in s : n[k] = t
  BY StakersAssumption, BlockchainAssumption DEF Given, NewStakes
<1> HIDE DEF n, t
<1>2. r = [k \in Utxos |-> IF k \in s THEN t ELSE IF k \in ins \ outs THEN NoValue ELSE old[k]]
  BY <1>1 DEF Moved
<1>3. map = [k \in Utxos |-> IF k \in ins THEN NoValue
                             ELSE IF k \in outs /\ Stake[k].validator # NoValidator
                             THEN t ELSE old[k]]
  BY DEF StakesAre, t
<1> HIDE DEF r
<1>4. ASSUME NEW k \in Utxos PROVE r[k] = map[k]
  <2>1. k \in outs => old[k] = NoValue
    BY DEF MadeOf
  <2> QED BY <1>2, <1>3, <2>1
<1>5. r = map
  BY <1>2, <1>3, <1>4
<1> QED BY <1>5 DEF r, n

LEMMA BlocksStep ==
    ASSUME NEW s, NEW t, IsSeq(s), IsSeq(t), Len(t) = Len(s) + 1, Begins(s, t, Len(s))
    PROVE  /\ Inputs(t) = Inputs(s) \cup t[Len(t)].ins
           /\ Outputs(t) = Outputs(s) \cup t[Len(t)].outs
<1> DEFINE n == Len(s)
<1>1. n \in Nat /\ DOMAIN s = 1 .. n /\ DOMAIN t = 1 .. n + 1 /\ \A i \in 1 .. n : t[i] = s[i]
  BY SeqFacts DEF Begins
<1> HIDE DEF n
<1>2. ToSet(t) = ToSet(s) \cup {t[n + 1]}
  <2>1. 1 .. n + 1 = (1 .. n) \cup {n + 1}
    BY <1>1
  <2>2. ToSet(t) = {t[i] : i \in 1 .. n + 1} /\ ToSet(s) = {s[i] : i \in 1 .. n}
    BY <1>1 DEF ToSet
  <2>3. {t[i] : i \in 1 .. n} = {s[i] : i \in 1 .. n}
    BY <1>1
  <2> QED BY <2>1, <2>2, <2>3
<1>3. Len(t) = n + 1
  BY DEF n
<1> QED BY <1>2, <1>3 DEF Inputs, Outputs

LEMMA NoBlocks == Inputs(<<>>) = {} /\ Outputs(<<>>) = {}
  BY DEF Inputs, Outputs, ToSet

\* Every block of s spends what was made before it, and makes what was not.
NewIn(made, s) ==
    \A i \in 1 .. Len(s) : LET before == made \cup Outputs(SubSeq(s, 1, i - 1))
                           IN  s[i].ins \subseteq before /\ s[i].outs \cap before = {}

\* The outputs and stakes of base are among made, and its money is a number.
Ledger(base, made) ==
    /\ MadeOf(base.output_by_hash.map, made) /\ MadeOf(base.escrow.map, made)
    /\ base.balance.map[Unit] \in Int /\ base.awards.budget \in Int

\* x is what the blocks s make of base.
Flows(x, base, s) ==
    /\ OutputsAre(x.output_by_hash.map, base.output_by_hash.map, Inputs(s), Outputs(s))
    /\ StakesAre(x.escrow.map, base.escrow.map, Inputs(s), Outputs(s), base.epoch)
    /\ x.balance.map[Unit] = base.balance.map[Unit] + Len(s) * BlockReward

Separate(made, s) ==
    Inputs(s) \subseteq made \cup Outputs(s) /\ Outputs(s) \cap made = {} /\ Outputs(s) \subseteq Utxos

LEMMA FlowStep ==
    ASSUME NEW x, NEW base, NEW made, NEW s, NEW t, IsMicros(s), IsMicros(t),
           Len(t) = Len(s) + 1, Begins(s, t, Len(s)),
           base.epoch \in Nat, RefOK(x, base, Len(s)), Ledger(base, made),
           Flows(x, base, s), Separate(made, s),
           t[Len(t)].ins \subseteq made \cup Outputs(s),
           t[Len(t)].outs \cap (made \cup Outputs(s)) = {}
    PROVE  Flows(register_micro_block(x, t[Len(t)]), base, t) /\ Separate(made, t)
<1> DEFINE n == Len(s)
           b == t[Len(t)]
           r == register_micro_block(x, b)
           lsn == LSN(base.epoch, n)
           all == made \cup Outputs(s)
<1>1. IsSeq(s) /\ IsSeq(t) /\ n \in Nat /\ Len(t) \in 1 .. Len(t) /\ IsMicro(b)
  BY SeqFacts DEF IsMicros
<1>2. Inputs(t) = Inputs(s) \cup b.ins /\ Outputs(t) = Outputs(s) \cup b.outs
  BY <1>1, BlocksStep
<1>3. b.ins \in SUBSET Utxos /\ b.outs \in SUBSET Utxos
  BY <1>1 DEF IsMicro
<1>4. b.ins \subseteq all /\ b.outs \cap all = {} /\ Len(t) = n + 1
  OBVIOUS
<1> HIDE DEF b
<1>5. x.epoch = base.epoch /\ AtEnd(x, lsn) /\ IsChain(x, lsn) /\ lsn \in Nat
  BY <1>1, LsnOrder DEF RefOK, AtEnd
<1> HIDE DEF lsn
<1>6. AfterMicro(x, r, lsn, b)
  BY <1>1, <1>5, MicroFacts
<1> HIDE DEF r, n
<1>7. /\ r.output_by_hash.map = Moved(x.output_by_hash.map, b.ins, NewOutputs(b.outs, lsn))
      /\ r.escrow.map = Moved(x.escrow.map, b.ins, NewStakes(b.outs, base.epoch))
      /\ r.balance.map = [x.balance.map EXCEPT ![Unit] = x.balance.map[Unit] + BlockReward]
  BY <1>5, <1>6 DEF AfterMicro
<1>8. Inputs(s) \subseteq all /\ Outputs(s) \subseteq all
      /\ MadeOf(base.output_by_hash.map, all) /\ MadeOf(base.escrow.map, all)
  BY DEF Separate, Ledger, MadeOf
<1> HIDE DEF all
<1>9. OutputsAre(r.output_by_hash.map, base.output_by_hash.map, Inputs(t), Outputs(t))
  <2>1. OutputsAre(x.output_by_hash.map, base.output_by_hash.map, Inputs(s), Outputs(s))
    BY DEF Flows
  <2> QED BY <1>2, <1>3, <1>4, <1>5, <1>7, <1>8, <2>1, OutputsStep
<1>10. StakesAre(r.escrow.map, base.escrow.map, Inputs(t), Outputs(t), base.epoch)
  <2>1. StakesAre(x.escrow.map, base.escrow.map, Inputs(s), Outputs(s), base.epoch)
    BY DEF Flows
  <2> QED BY <1>2, <1>3, <1>4, <1>5, <1>7, <1>8, <2>1, StakesStep
<1>11. r.balance.map[Unit] = base.balance.map[Unit] + Len(t) * BlockReward
  <2>1. Unit \in DOMAIN x.balance.map
    BY <1>5, ChainFacts DEF Ready, IsMap
  <2>2. r.balance.map[Unit] = x.balance.map[Unit] + BlockReward
    BY <1>7, <2>1
  <2>3. x.balance.map[Unit] = base.balance.map[Unit] + n * BlockReward /\ base.balance.map[Unit] \in Int
    BY DEF Flows, Ledger, n
  <2>4. BlockReward \in Nat
    BY BlockchainAssumption
  <2>5. (n + 1) * BlockReward = n * BlockReward + BlockReward /\ n * BlockReward \in Int
    BY <1>1, <2>4
  <2>6. Len(t) * BlockReward = n * BlockReward + BlockReward
    BY <1>4, <2>5
  <2> DEFINE p == n * BlockReward
  <2>7. p \in Int /\ Len(t) * BlockReward = p + BlockReward
        /\ x.balance.map[Unit] = base.balance.map[Unit] + p
    BY <2>3, <2>5, <2>6
  <2> HIDE DEF p
  <2> QED BY <2>2, <2>3, <2>4, <2>7
<1>12. Separate(made, t)
  BY <1>2, <1>3, <1>4 DEF Separate, all
<1> QED BY <1>9, <1>10, <1>11, <1>12 DEF Flows, r, b

LEMMA WholeSeq ==
    ASSUME NEW s, IsSeq(s)
    PROVE  SubSeq(s, 1, Len(s)) = s
<1> DEFINE n == Len(s)
           t == SubSeq(s, 1, n)
<1>1. n \in Nat /\ n \in 0 .. n
  BY SeqFacts
<1>2. IsSeq(t) /\ Len(t) = n /\ \A i \in 1 .. n : t[i] = s[i]
  BY <1>1, SeqFacts DEF Begins
<1> HIDE DEF t
<1>3. DOMAIN t = 1 .. n /\ DOMAIN s = 1 .. n
  BY <1>2, SeqFacts
<1>4. t = s
  <2> HIDE DEF n
  <2> QED BY <1>2, <1>3 DEF IsSeq
<1> QED BY <1>4 DEF t

LEMMA EmptyPrefix ==
    ASSUME NEW s, IsSeq(s)
    PROVE  SubSeq(s, 1, 0) = <<>>
<1> DEFINE t == SubSeq(s, 1, 0)
<1>1. 0 \in 0 .. Len(s)
  BY SeqFacts
<1>2. IsSeq(t) /\ Len(t) = 0
  BY <1>1, SeqFacts
<1> HIDE DEF t
<1>3. t = <<>>
  BY <1>2 DEF IsSeq
<1> QED BY <1>3 DEF t

LEMMA FlowsRef ==
    ASSUME NEW base, IsBase(base), NEW u, IsMicros(u), NEW made, Ledger(base, made), NewIn(made, u)
    PROVE  Flows(Ref(base, u, Len(u)), base, u) /\ Separate(made, u)
<1> DEFINE n == Len(u)
           S(o) == SubSeq(u, 1, o)
           x(o) == Ref(base, u, o)
<1>1. IsSeq(u) /\ n \in Nat /\ base.epoch \in Nat
  BY SeqFacts, BaseIsRef DEF IsMicros
<1>2. \A o \in 0 .. n : RefOK(x(o), base, o)
  BY RefFacts
<1>3. /\ x(0) = base
      /\ \A o \in 0 .. n - 1 : x(o + 1) = register_micro_block(x(o), u[o + 1])
  <2>1. Unrolls(base, u)
    BY <1>1, RefUnroll
  <2> QED BY <2>1 DEF Unrolls
<1>4. \A o \in 0 .. n : IsMicros(S(o)) /\ Len(S(o)) = o /\ \A i \in 1 .. o : S(o)[i] = u[i]
  BY <1>1, MicrosFacts, SeqFacts DEF Begins
<1>5. S(n) = u
  BY <1>1, WholeSeq
<1>6. \A o \in 0 .. n - 1 : /\ u[o + 1].ins \subseteq made \cup Outputs(S(o))
                            /\ u[o + 1].outs \cap (made \cup Outputs(S(o))) = {}
  <2> TAKE o \in 0 .. n - 1
  <2>1. o + 1 \in 1 .. n /\ (o + 1) - 1 = o
    BY <1>1
  <2> QED BY <2>1 DEF NewIn
<1> HIDE DEF S, x
<1> DEFINE T == {o \in Nat : o <= n => Flows(x(o), base, S(o)) /\ Separate(made, S(o))}
<1>7. 0 \in T
  <2>1. Len(S(0)) = 0 /\ Inputs(S(0)) = {} /\ Outputs(S(0)) = {}
    <3>1. Len(S(0)) = 0 /\ IsSeq(S(0))
      BY <1>1, <1>4 DEF IsMicros
    <3>2. ToSet(S(0)) = {}
      BY <3>1, SeqFacts DEF ToSet
    <3> QED BY <3>1, <3>2 DEF Inputs, Outputs
  <2>2. 0 * BlockReward = 0
    BY BlockchainAssumption
  <2>3. base.escrow.map = [k \in Utxos |-> base.escrow.map[k]]
    <3>1. "escrow" \in MapNames /\ KeysOf["escrow"] = Utxos /\ 0 \in Int
      BY KeysFacts DEF MapNames
    <3>2. Ready(base["escrow"], Utxos, 0)
      BY <3>1 DEF IsBase
    <3> QED BY <3>2 DEF Ready, IsMap
  <2>4. Flows(base, base, S(0))
    BY <2>1, <2>2, <2>3 DEF Flows, OutputsAre, StakesAre, Ledger
  <2> QED BY <1>3, <2>1, <2>4 DEF Separate
<1>8. ASSUME NEW o \in Nat, o \in T PROVE o + 1 \in T
  <2> SUFFICES ASSUME o + 1 <= n
               PROVE  Flows(x(o + 1), base, S(o + 1)) /\ Separate(made, S(o + 1))
    OBVIOUS
  <2>1. o \in 0 .. n /\ o \in 0 .. n - 1 /\ o + 1 \in 0 .. n /\ o + 1 \in 1 .. o + 1
    BY <1>1
  <2>2. Flows(x(o), base, S(o)) /\ Separate(made, S(o))
    BY <1>1, <1>8
  <2>3. /\ IsMicros(S(o)) /\ IsMicros(S(o + 1)) /\ Len(S(o)) = o /\ Len(S(o + 1)) = o + 1
        /\ S(o + 1)[o + 1] = u[o + 1]
    BY <1>4, <2>1
  <2>4. Begins(S(o), S(o + 1), o)
    <3>1. ASSUME NEW i \in 1 .. o PROVE S(o + 1)[i] = S(o)[i]
      <4>1. i \in 1 .. o + 1
        OBVIOUS
      <4> QED BY <1>4, <2>1, <4>1
    <3> QED BY <2>3, <3>1 DEF Begins
  <2>5. RefOK(x(o), base, o)
    BY <1>2, <2>1
  <2>6. u[o + 1].ins \subseteq made \cup Outputs(S(o))
        /\ u[o + 1].outs \cap (made \cup Outputs(S(o))) = {}
    BY <1>6, <2>1
  <2>7. /\ Flows(register_micro_block(x(o), u[o + 1]), base, S(o + 1))
        /\ Separate(made, S(o + 1))
    BY <1>1, <2>2, <2>3, <2>4, <2>5, <2>6, FlowStep
  <2> QED BY <1>3, <2>1, <2>7
<1>9. Nat \subseteq T
  <2> HIDE DEF T
  <2> QED BY <1>7, <1>8, NumberInduction
<1>10. Flows(x(n), base, S(n)) /\ Separate(made, S(n))
  BY <1>1, <1>9
<1> QED BY <1>5, <1>10 DEF x

LEMMA TrackFlows ==
    ASSUME NEW c, NEW base, NEW u, IsBase(base), IsMicros(u), Tracks(c, base, u),
           NEW made, Ledger(base, made), NewIn(made, u)
    PROVE  /\ Flows(c, base, u) /\ Separate(made, u)
           /\ MadeOf(c.output_by_hash.map, made \cup Outputs(u))
           /\ MadeOf(c.escrow.map, made \cup Outputs(u))
<1> DEFINE x == Ref(base, u, Len(u))
<1>1. Flows(x, base, u) /\ Separate(made, u)
  BY FlowsRef
<1>2. Same(c, x)
  BY TrackFacts
<1> HIDE DEF x
<1>3. Flows(c, base, u)
  BY <1>1, <1>2 DEF Flows, Same, SameMaps
<1>4. MadeOf(c.output_by_hash.map, made \cup Outputs(u))
  BY <1>3 DEF Flows, OutputsAre, MadeOf, Ledger
<1>5. MadeOf(c.escrow.map, made \cup Outputs(u))
  BY <1>3 DEF Flows, StakesAre, MadeOf, Ledger
<1> QED BY <1>1, <1>3, <1>4, <1>5

-----------------------------------------------------------------------------
(* Valid blocks *)

\* A valid block spends outputs of the chain, confiscated stakes included, and
\* makes new ones.
LEMMA ValidBlock ==
    ASSUME NEW c, NEW made, MadeOf(c.output_by_hash.map, made), MadeOf(c.escrow.map, made),
           NEW b \in MicroBlocks(c, made)
    PROVE  b.ins \subseteq made /\ b.outs \cap made = {}
<1> DEFINE Confiscated(v) == IF v = NoValidator THEN {} ELSE ActiveStakes(c, v, c.epoch)
           cheaters == {NoValidator} \cup {v \in Validators : CanSlash(c, v)}
           txs == ValidTransactions(c, made)
<1>1. PICK vc \in view_change(c) .. MaxViewChange, random \in Randoms, body \in Bodies(c, made) :
         b = [view_change |-> vc, random |-> random,
              ins |-> body.ins, outs |-> body.outs, cheater |-> body.cheater]
  BY DEF MicroBlocks
<1>2. b.ins = body.ins /\ b.outs = body.outs
  BY <1>1
<1>3. \A v : Confiscated(v) \subseteq made
  BY DEF ActiveStakes, StakesOf, MadeOf
<1>4. \A tx \in txs : tx.ins \subseteq made /\ tx.outs \cap made = {}
  <2> TAKE tx \in txs
  <2>1. /\ tx \in Transactions /\ tx.outs \cap made = {}
        /\ \A u \in tx.ins : c.output_by_hash.map[u] # NoValue
    BY DEF ValidTransactions
  <2>2. tx.ins \subseteq Utxos
    BY <2>1, BlockchainAssumption
  <2> QED BY <2>1, <2>2 DEF MadeOf
<1>5. \E p \in txs \X cheaters :
         body = [ins |-> p[1].ins \cup Confiscated(p[2]), outs |-> p[1].outs, cheater |-> p[2]]
  BY DEF Bodies
<1> HIDE DEF Confiscated, cheaters, txs
<1>6. PICK p \in txs \X cheaters :
         body = [ins |-> p[1].ins \cup Confiscated(p[2]), outs |-> p[1].outs, cheater |-> p[2]]
  BY <1>5
<1>7. p[1] \in txs
  BY <1>6
<1>8. body.ins = p[1].ins \cup Confiscated(p[2]) /\ body.outs = p[1].outs
  BY <1>6
<1> QED BY <1>2, <1>3, <1>4, <1>7, <1>8

LEMMA PrefixOutputs ==
    ASSUME NEW s, IsSeq(s), NEW o \in 0 .. Len(s)
    PROVE  Outputs(SubSeq(s, 1, o)) = UNION {s[i].outs : i \in 1 .. o}
<1> DEFINE t == SubSeq(s, 1, o)
<1>1. IsSeq(t) /\ Len(t) = o /\ \A i \in 1 .. o : t[i] = s[i]
  BY SeqFacts DEF Begins
<1> HIDE DEF t
<1>2. DOMAIN t = 1 .. o
  BY <1>1, SeqFacts
<1>3. ToSet(t) = {s[i] : i \in 1 .. o}
  BY <1>1, <1>2 DEF ToSet
<1> QED BY <1>3 DEF Outputs, t

\* What is new in a sequence is new in what it begins with, and in a longer one
\* if the rest is.
LEMMA NewInPrefix ==
    ASSUME NEW made, NEW s, NEW t, IsSeq(s), IsSeq(t), Len(t) <= Len(s), Begins(s, t, Len(t)),
           NewIn(made, s)
    PROVE  NewIn(made, t)
<1>1. Len(s) \in Nat /\ Len(t) \in Nat /\ \A i \in 1 .. Len(t) : t[i] = s[i]
  BY SeqFacts DEF Begins
<1>2. ASSUME NEW i \in 1 .. Len(t)
      PROVE  LET before == made \cup Outputs(SubSeq(t, 1, i - 1))
             IN  t[i].ins \subseteq before /\ t[i].outs \cap before = {}
  <2>1. i \in 1 .. Len(s) /\ i - 1 \in 0 .. Len(t) /\ i - 1 \in 0 .. Len(s) /\ t[i] = s[i]
        /\ \A j \in 1 .. i - 1 : t[j] = s[j]
    BY <1>1
  <2>2. Outputs(SubSeq(t, 1, i - 1)) = UNION {t[j].outs : j \in 1 .. i - 1}
    BY <2>1, PrefixOutputs
  <2>3. Outputs(SubSeq(s, 1, i - 1)) = UNION {s[j].outs : j \in 1 .. i - 1}
    BY <2>1, PrefixOutputs
  <2>4. {t[j].outs : j \in 1 .. i - 1} = {s[j].outs : j \in 1 .. i - 1}
    BY <2>1
  <2>5. LET before == made \cup Outputs(SubSeq(s, 1, i - 1))
        IN  s[i].ins \subseteq before /\ s[i].outs \cap before = {}
    BY <2>1 DEF NewIn
  <2> QED BY <2>1, <2>2, <2>3, <2>4, <2>5
<1> QED BY <1>2 DEF NewIn

LEMMA NewInAppend ==
    ASSUME NEW made, NEW s, NEW t, IsSeq(s), IsSeq(t), Len(t) = Len(s) + 1, Begins(s, t, Len(s)),
           NewIn(made, s),
           t[Len(t)].ins \subseteq made \cup Outputs(s),
           t[Len(t)].outs \cap (made \cup Outputs(s)) = {}
    PROVE  NewIn(made, t)
<1> DEFINE n == Len(s)
<1>1. n \in Nat /\ Len(t) = n + 1 /\ \A i \in 1 .. n : t[i] = s[i]
  BY SeqFacts DEF Begins
<1>2. Outputs(s) = UNION {s[j].outs : j \in 1 .. n}
  <2>1. DOMAIN s = 1 .. n
    BY SeqFacts
  <2> QED BY <2>1 DEF Outputs, ToSet
<1>3. ASSUME NEW i \in 1 .. Len(t)
      PROVE  LET before == made \cup Outputs(SubSeq(t, 1, i - 1))
             IN  t[i].ins \subseteq before /\ t[i].outs \cap before = {}
  <2>1. i - 1 \in 0 .. Len(t) /\ i - 1 \in 0 .. n /\ \A j \in 1 .. i - 1 : t[j] = s[j]
    BY <1>1
  <2>2. Outputs(SubSeq(t, 1, i - 1)) = UNION {t[j].outs : j \in 1 .. i - 1}
    BY <2>1, PrefixOutputs
  <2>3. {t[j].outs : j \in 1 .. i - 1} = {s[j].outs : j \in 1 .. i - 1}
    BY <2>1
  <2>4. CASE i = n + 1
    <3>1. i - 1 = n /\ Len(t) = i
      BY <1>1, <2>4
    <3>2. Outputs(SubSeq(t, 1, i - 1)) = Outputs(s)
      BY <1>2, <2>2, <2>3, <3>1
    <3> QED BY <3>1, <3>2
  <2>5. CASE i # n + 1
    <3>1. i \in 1 .. n /\ t[i] = s[i]
      BY <1>1, <2>5
    <3>2. Outputs(SubSeq(s, 1, i - 1)) = UNION {s[j].outs : j \in 1 .. i - 1}
      BY <2>1, PrefixOutputs
    <3>3. LET before == made \cup Outputs(SubSeq(s, 1, i - 1))
          IN  s[i].ins \subseteq before /\ s[i].outs \cap before = {}
      BY <3>1 DEF NewIn
    <3> QED BY <2>2, <2>3, <3>1, <3>2, <3>3
  <2> QED BY <2>4, <2>5
<1> QED BY <1>3 DEF NewIn

\* c is base with the valid blocks s.
Grows(c, base, made, s) ==
    IsMicros(s) /\ Tracks(c, base, s) /\ view_change(c) \in Nat /\ NewIn(made, s)

LEMMA GrowMicro ==
    ASSUME NEW base, IsBase(base), NEW made, Ledger(base, made),
           NEW c, NEW s, Grows(c, base, made, s), NEW b \in MicroBlocks(c, made \cup Outputs(s))
    PROVE  LET t == Append(s, b)
           IN  Grows(register_micro_block(c, b), base, made, t) /\ Len(t) = Len(s) + 1
<1> DEFINE t == Append(s, b)
           r == register_micro_block(c, b)
           lsn == LSN(base.epoch, Len(s))
<1>1. IsMicros(s) /\ IsSeq(s) /\ Tracks(c, base, s) /\ view_change(c) \in Nat /\ NewIn(made, s)
  BY DEF Grows, IsMicros
<1>2. IsMicro(b)
  BY <1>1, MicroBlockFacts
<1>3. /\ MadeOf(c.output_by_hash.map, made \cup Outputs(s))
      /\ MadeOf(c.escrow.map, made \cup Outputs(s))
  BY <1>1, TrackFlows
<1>4. b.ins \subseteq made \cup Outputs(s) /\ b.outs \cap (made \cup Outputs(s)) = {}
  BY <1>3, ValidBlock
<1>5. IsMicros(t)
  BY <1>1, <1>2, MicrosFacts
<1>6. Len(t) = Len(s) + 1 /\ Begins(s, t, Len(s)) /\ t[Len(t)] = b
  BY <1>1, SeqFacts
<1> HIDE DEF t, r
<1>7. Tracks(r, base, t)
  BY <1>1, <1>5, <1>6, TrackMicro DEF r
<1>8. NewIn(made, t)
  BY <1>1, <1>4, <1>5, <1>6, NewInAppend DEF IsMicros
<1>9. view_change(r) = 0
  <2>1. AtEnd(c, lsn) /\ IsElected(ElectionResult(c))
    BY <1>1, TrackFacts
  <2> HIDE DEF lsn
  <2>2. AfterMicro(c, r, lsn, b)
    BY <1>2, <2>1, MicroFacts DEF r
  <2> QED BY <2>1, <2>2, ElectedByFacts DEF AfterMicro, view_change
<1> QED BY <1>5, <1>6, <1>7, <1>8, <1>9 DEF Grows, r, t

\* The epochs of other nodes are valid blocks on top of the same macro blocks.
LEMMA EpochsGrow ==
    ASSUME NEW m, NEW u, NEW s, GoodDisk(m, u, s), s.epoch = Len(m) - 1,
           Ledger(Top(m), Outputs(m)),
           NEW d, Stored(d, m, u, s), d = [macros |-> m, micros |-> u, snapshot |-> s]
    PROVE  \A e \in FullEpochs(d) : Grows(e.c, Top(m), Outputs(m), e.micros)
<1> DEFINE n == MicroBlocksInEpoch
           base == Top(m)
           made == Outputs(m)
           d0 == [d EXCEPT !.micros = <<>>]
<1>1. PICK g, start : /\ EpochRun(g, d, start, n)
                      /\ start.micros = <<>> /\ FullEpochs(d) = g[n]
                      /\ start.c = try_recover_fast(d0)
  BY FullEpochsIsRun
<1>2. n \in Nat
  BY BlockchainAssumption
<1>3. IsBase(base) /\ Ledger(base, made) /\ d.macros = m
  BY TopFacts DEF Stored
<1>4. Grows(start.c, base, made, <<>>)
  <2>1. Stored(d0, m, <<>>, s)
    BY DEF Stored
  <2>2. GoodDisk(m, <<>>, s)
    BY NoMicrosGood
  <2> HIDE DEF d0
  <2>3. GoodChain(start.c, m, <<>>, s)
    BY <1>1, <2>1, <2>2, FastGood
  <2>4. Tracks(start.c, base, <<>>) /\ view_change(start.c) \in Nat
    BY <2>3 DEF GoodChain
  <2>5. IsMicros(<<>>) /\ Len(<<>>) = 0
    BY MicrosFacts
  <2>6. NewIn(made, <<>>)
    BY <2>5 DEF NewIn
  <2> QED BY <2>4, <2>5, <2>6 DEF Grows
<1> HIDE DEF base, made
<1> DEFINE T == {k \in Nat : k <= n => \A e \in g[k] : Grows(e.c, base, made, e.micros)}
<1>5. 0 \in T
  <2>1. g[0] = {start}
    BY <1>1, <1>2 DEF EpochRun
  <2> QED BY <1>1, <1>4, <2>1
<1>6. ASSUME NEW k \in Nat, k \in T PROVE k + 1 \in T
  <2> SUFFICES ASSUME k + 1 <= n, NEW e \in g[k + 1] PROVE Grows(e.c, base, made, e.micros)
    OBVIOUS
  <2>1. k + 1 \in 0 .. n /\ k + 1 # 0 /\ (k + 1) - 1 = k
    BY <1>2
  <2>2. g[k + 1] = UNION {OneMore(d, x) : x \in g[k]}
    BY <1>1, <2>1 DEF EpochRun
  <2>3. PICK x \in g[k] : e \in OneMore(d, x)
    BY <2>2
  <2> DEFINE M == MicroBlocks(x.c, made \cup Outputs(x.micros))
             Longer(b) == [c |-> register_micro_block(x.c, b), micros |-> Append(x.micros, b)]
  <2>4. \E b \in M : e = Longer(b)
    BY <1>3, <2>3 DEF OneMore, made
  <2>5. \A b : Longer(b).micros = Append(x.micros, b) /\ Longer(b).c = register_micro_block(x.c, b)
    OBVIOUS
  <2>6. Grows(x.c, base, made, x.micros)
    BY <1>2, <1>6
  <2>7. \A b \in M : Grows(register_micro_block(x.c, b), base, made, Append(x.micros, b))
    BY <1>3, <2>6, GrowMicro
  <2> HIDE DEF M, Longer
  <2>8. PICK b \in M : e = Longer(b)
    BY <2>4
  <2> QED BY <2>5, <2>7, <2>8
<1>7. Nat \subseteq T
  <2> HIDE DEF T
  <2> QED BY <1>5, <1>6, NumberInduction
<1> QED BY <1>1, <1>2, <1>7 DEF base, made

-----------------------------------------------------------------------------
(* Macro blocks in the place of micro blocks *)

\* b has the inputs and outputs of the micro blocks s that led to c.
MadeFrom(b, c, s, random) ==
    /\ b.ins = Inputs(s) /\ b.outs = Outputs(s) /\ b.random = random
    /\ b.reward = FullReward(awards_from_active_epoch(c, random).awards)
    /\ b.validators = next_election_result(c, random).validators

LEMMA CreatedFrom ==
    ASSUME NEW c, NEW s, NEW random
    PROVE  MadeFrom(create_macro_block(c, s, random), c, s, random)
<1> DEFINE a == awards_from_active_epoch(c, random)
           v == next_election_result(c, random).validators
           f == FullReward(a.awards)
<1>1. create_macro_block(c, s, random)
        = [random |-> random, ins |-> Inputs(s), outs |-> Outputs(s),
           activity_map |-> a.activity_map, reward |-> f, validators |-> v]
  BY DEF create_macro_block
<1> HIDE DEF a, v, f
<1> QED BY <1>1 DEF MadeFrom, a, v, f

\* p has no micro blocks and gets b.
LEMMA MacroReplaces ==
    ASSUME NEW base, IsBase(base), NEW made, Ledger(base, made),
           NEW c, NEW s, Grows(c, base, made, s), NEW b, NEW random, MadeFrom(b, c, s, random),
           NEW p, Tracks(p, base, <<>>)
    PROVE  LET q == UpdateMetadata(p, b)
               o == RegisterOutputs(p, b)
           IN  /\ MacroReady(p) /\ IsMacro(b) /\ AfterMacro(p, q, b)
               /\ o.epoch = c.epoch /\ o.escrow.map = c.escrow.map
               /\ q.escrow.map = c.escrow.map
               /\ SameKeys(q.output_by_hash.map, c.output_by_hash.map)
<1> DEFINE q == UpdateMetadata(p, b)
           o == RegisterOutputs(p, b)
           lsn == MacroLsn(p)
<1>1. IsMicros(s) /\ Tracks(c, base, s) /\ NewIn(made, s)
  BY DEF Grows
<1>2. Flows(c, base, s) /\ Separate(made, s) /\ c.epoch = base.epoch
  BY <1>1, TrackFlows DEF Tracks
<1>3. b.ins = Inputs(s) /\ b.outs = Outputs(s)
  BY DEF MadeFrom
<1>4. MacroReady(p)
  BY TrackReady
<1>5. IsMacro(b)
  <2>1. IsMacros(s)
    BY <1>1 DEF IsMicros, IsMacros, IsMicro, IsMacro
  <2> QED BY <1>3, <2>1, BlocksFacts DEF IsMacro
<1>6. /\ AfterMacro(p, q, b) /\ o.epoch = p.epoch
      /\ o.escrow.map = Moved(p.escrow.map, b.ins \ b.outs, NewStakes(b.outs \ b.ins, p.epoch))
  BY <1>4, <1>5, MetadataFacts DEF MacroReady
<1>7. p.epoch = base.epoch /\ base.epoch \in Nat /\ p.escrow.map = base.escrow.map
      /\ p.output_by_hash.map = base.output_by_hash.map
  <2>1. IsMicros(<<>>) /\ Len(<<>>) = 0
    BY MicrosFacts
  <2>2. Ref(base, <<>>, 0) = base
    BY <2>1, RefUnroll DEF IsMicros, Unrolls
  <2>3. Same(p, base)
    BY <2>1, <2>2, TrackFacts
  <2> QED BY <2>3 DEF Same, SameMaps, IsBase
<1>8. lsn \in Nat
  <2>1. p.epoch \in Nat
    BY <1>7
  <2> QED BY <2>1, LsnFacts DEF MacroLsn
<1> HIDE DEF q, o, lsn
<1>9. /\ q.escrow.map = Moved(base.escrow.map, b.ins \ b.outs, NewStakes(b.outs \ b.ins, base.epoch))
      /\ q.output_by_hash.map = Moved(base.output_by_hash.map, b.ins \ b.outs,
                                      NewOutputs(b.outs \ b.ins, lsn))
      /\ o.escrow.map = q.escrow.map
  BY <1>6, <1>7 DEF AfterMacro, lsn
<1>10. q.escrow.map = c.escrow.map
  <2>1. /\ StakesAre(c.escrow.map, base.escrow.map, b.ins, b.outs, base.epoch)
        /\ b.outs \cap made = {} /\ b.outs \subseteq Utxos /\ MadeOf(base.escrow.map, made)
    BY <1>2, <1>3 DEF Flows, Separate, Ledger
  <2>2. Moved(base.escrow.map, b.ins \ b.outs, NewStakes(b.outs \ b.ins, base.epoch)) = c.escrow.map
    BY <1>7, <2>1, StakesOfMacro
  <2> QED BY <1>9, <2>2
<1>11. SameKeys(q.output_by_hash.map, c.output_by_hash.map)
  <2>1. /\ OutputsAre(c.output_by_hash.map, base.output_by_hash.map, b.ins, b.outs)
        /\ b.outs \cap made = {} /\ b.outs \subseteq Utxos /\ MadeOf(base.output_by_hash.map, made)
    BY <1>2, <1>3 DEF Flows, Separate, Ledger
  <2>2. SameKeys(Moved(base.output_by_hash.map, b.ins \ b.outs, NewOutputs(b.outs \ b.ins, lsn)),
                 c.output_by_hash.map)
    BY <1>8, <2>1, OutputsOfMacro
  <2> QED BY <1>9, <2>2
<1>12. o.epoch = c.epoch
  BY <1>2, <1>6, <1>7
<1> QED BY <1>4, <1>5, <1>6, <1>9, <1>10, <1>11, <1>12 DEF q, o

-----------------------------------------------------------------------------
(* Money *)

LEMMA WinnersFacts ==
    ASSUME NEW awards, awards.budget \in Int, NEW activity, NEW random
    PROVE  LET w == check_winners(finalize_epoch(awards, activity), random)
           IN  w.amount \in Int /\ w.awards.budget \in Int
<1> DEFINE f == finalize_epoch(awards, activity)
           cleared == [budget |-> f.budget, activity |-> NewAwards.activity]
           w == check_winners(f, random)
<1>1. f.budget = awards.budget + ServiceAward
  BY DEF finalize_epoch
<1>2. f.budget \in Int
  BY <1>1, StakersAssumption
<1>3. NewAwards.budget = 0
  BY DEF NewAwards
<1> HIDE DEF f
<1>4. \/ w = [winner |-> NoWinner, amount |-> 0, awards |-> f]
      \/ w = [winner |-> NoWinner, amount |-> 0, awards |-> cleared]
      \/ w = [winner |-> Winner(f, random), amount |-> f.budget, awards |-> NewAwards]
  BY DEF check_winners
<1>5. cleared.budget \in Int
  BY <1>2
<1> HIDE DEF w, cleared
<1>6. w.amount \in Int /\ w.awards.budget \in Int
  BY <1>2, <1>3, <1>4, <1>5
<1> QED BY <1>6 DEF w, f

LEMMA RewardFacts ==
    ASSUME NEW winner, winner.amount \in Int
    PROVE  /\ FullReward(winner) \in Int
           /\ FullReward(winner)
                = MicroBlocksInEpoch * BlockReward + BlockReward + winner.amount
           /\ MicroBlocksInEpoch * BlockReward \in Int /\ BlockReward \in Int
<1>1. MicroBlocksInEpoch \in Nat /\ BlockReward \in Nat
  BY BlockchainAssumption
<1>2. BlockReward * (MicroBlocksInEpoch + 1) = MicroBlocksInEpoch * BlockReward + BlockReward
      /\ MicroBlocksInEpoch * BlockReward \in Int
  BY <1>1
<1> DEFINE q == MicroBlocksInEpoch * BlockReward
<1>3. FullReward(winner) = q + BlockReward + winner.amount /\ q \in Int
  BY <1>2 DEF FullReward
<1> HIDE DEF q
<1>4. FullReward(winner) \in Int
  BY <1>1, <1>3
<1> QED BY <1>1, <1>2, <1>3, <1>4 DEF q

LEMMA MacroLedger ==
    ASSUME NEW c, MacroReady(c), NEW made, Ledger(c, made), NEW b, IsMacro(b), b.reward \in Int
    PROVE  Ledger(register_macro_block(c, b), made \cup b.outs)
<1> DEFINE q == UpdateMetadata(c, b)
           r == register_macro_block(c, b)
           lsn == MacroLsn(c)
           A == AwardsOfMacroBlock(c, b)
<1>1. AfterMacro(c, q, b)
  BY MetadataFacts DEF MacroReady
<1>2. r.awards = q.awards /\ \A f \in MapNames \ {"epoch_activity"} : r[f].map = q[f].map
  BY MacroFacts DEF MacroReady
<1>3. A.awards.budget \in Int
  BY WinnersFacts DEF AwardsOfMacroBlock, Ledger
<1>4. Unit \in DOMAIN c.balance.map
  BY ChainFacts DEF MacroReady, Ready, IsMap
<1> HIDE DEF q, r, A
<1>5. /\ r.output_by_hash.map = Moved(c.output_by_hash.map, b.ins \ b.outs, NewOutputs(b.outs \ b.ins, lsn))
      /\ r.escrow.map = Moved(c.escrow.map, b.ins \ b.outs, NewStakes(b.outs \ b.ins, c.epoch))
      /\ r.balance.map = [c.balance.map EXCEPT ![Unit] = c.balance.map[Unit] + b.reward]
      /\ r.awards = IF c.epoch = 0 THEN c.awards ELSE A.awards
  BY <1>1, <1>2 DEF AfterMacro, MapNames, A, lsn
<1>6. r.awards.budget \in Int
  BY <1>3, <1>5 DEF Ledger
<1>7. r.balance.map[Unit] \in Int
  BY <1>4, <1>5 DEF Ledger
<1>8. MadeOf(c.output_by_hash.map, made) /\ MadeOf(c.escrow.map, made)
  BY DEF Ledger
<1>9. Given(NewOutputs(b.outs \ b.ins, lsn)) \subseteq b.outs
      /\ Given(NewStakes(b.outs \ b.ins, c.epoch)) \subseteq b.outs
  BY DEF Given, NewOutputs, NewStakes
<1> DEFINE out == NewOutputs(b.outs \ b.ins, lsn)
           in == NewStakes(b.outs \ b.ins, c.epoch)
<1>10. r.output_by_hash.map = Moved(c.output_by_hash.map, b.ins \ b.outs, out) /\ Given(out) \subseteq b.outs
       /\ r.escrow.map = Moved(c.escrow.map, b.ins \ b.outs, in) /\ Given(in) \subseteq b.outs
  BY <1>5, <1>9
<1> HIDE DEF out, in, lsn
<1>11. MadeOf(r.output_by_hash.map, made \cup b.outs)
  BY <1>8, <1>10 DEF MadeOf, Moved
<1>12. MadeOf(r.escrow.map, made \cup b.outs)
  BY <1>8, <1>10 DEF MadeOf, Moved
<1> QED BY <1>6, <1>7, <1>11, <1>12 DEF Ledger, r

-----------------------------------------------------------------------------
(* The inductive invariant *)

LedgerGood(m, u) ==
    /\ Ledger(Top(m), Outputs(m)) /\ Staked(Top(m))
    /\ NewIn(Outputs(m), u) /\ Len(u) <= MicroBlocksInEpoch

LInv == LedgerGood(disk.macros, disk.micros)

LEMMA TopAppend ==
    ASSUME NEW m, IsMacros(m), NEW b
    PROVE  Top(Append(m, b)) = register_macro_block(Top(m), b)
           /\ Outputs(Append(m, b)) = Outputs(m) \cup b.outs
<1> DEFINE n == Len(m)
           x == Append(m, b)
<1>1. IsSeq(m) /\ IsSeq(x) /\ Len(x) = n + 1 /\ Begins(m, x, n) /\ x[n + 1] = b /\ n \in Nat
  BY SeqFacts DEF IsMacros
<1> HIDE DEF x
<1>2. MacrosUnroll(x)
  BY <1>1, AfterUnroll
<1>3. n \in 0 .. Len(x) - 1 /\ n \in 0 .. n
  BY <1>1
<1>4. After(x, n + 1) = register_macro_block(After(x, n), x[n + 1])
  BY <1>2, <1>3 DEF MacrosUnroll
<1>5. After(x, n) = After(m, n)
  BY <1>1, <1>3, AfterSame
<1>6. Outputs(x) = Outputs(m) \cup x[Len(x)].outs
  BY <1>1, BlocksStep
<1> QED BY <1>1, <1>4, <1>5, <1>6 DEF Top, x

\* A running node has valid blocks.
LEMMA ChainGrows ==
    ASSUME IInv, LInv, Running
    PROVE  LET m == disk.macros
               u == disk.micros
           IN  /\ GoodDisk(m, u, disk.snapshot) /\ GoodChain(chain, m, u, disk.snapshot)
               /\ IsBase(Top(m)) /\ Ledger(Top(m), Outputs(m))
               /\ Grows(chain, Top(m), Outputs(m), u)
               /\ chain.offset = Len(u) /\ Len(u) \in Nat
<1> DEFINE m == disk.macros
           u == disk.micros
           d == disk.snapshot
<1>1. GoodDisk(m, u, d) /\ GoodChain(chain, m, u, d)
  BY DEF IInv
<1>2. Ledger(Top(m), Outputs(m)) /\ NewIn(Outputs(m), u)
  BY DEF LInv, LedgerGood
<1> HIDE DEF m, u, d
<1>3. Grows(chain, Top(m), Outputs(m), u)
  BY <1>1, <1>2 DEF GoodDisk, GoodChain, Grows
<1>4. IsBase(Top(m))
  BY <1>1, TopFacts
<1>5. chain.offset = Len(u) /\ Len(u) \in Nat
  BY <1>3, SeqFacts DEF Grows, Tracks, IsMicros
<1> QED BY <1>1, <1>2, <1>3, <1>4, <1>5 DEF m, u, d

LEMMA EpochIsLen ==
    ASSUME IInv, Running
    PROVE  /\ chain.epoch = Len(disk.macros) /\ Top(disk.macros).epoch = Len(disk.macros)
           /\ MacroReady(Top(disk.macros))
<1> DEFINE m == disk.macros
           u == disk.micros
           d == disk.snapshot
<1>1. GoodDisk(m, u, d) /\ GoodChain(chain, m, u, d)
  BY DEF IInv
<1> HIDE DEF m, u, d
<1>2. IsBase(Top(m)) /\ Top(m).epoch = Len(m)
  BY <1>1, TopFacts
<1>3. chain.epoch = Len(m)
  BY <1>1, <1>2 DEF GoodChain, Tracks
<1>4. MacroReady(Top(m))
  BY <1>2, BaseReady
<1> QED BY <1>2, <1>3, <1>4 DEF m

\* The macro blocks that can be applied are made from valid blocks.
LEMMA AgreedGrows ==
    ASSUME IInv, LInv, Running, NEW b \in Agreed
    PROVE  \E c, s, random :
              /\ Grows(c, Top(disk.macros), Outputs(disk.macros), s)
              /\ random \in Randoms /\ b = create_macro_block(c, s, random)
              /\ Members(get_stakers_majority(c, c.epoch + 1)) # {}
              /\ chain.offset # 0 => c = chain /\ s = disk.micros
<1> DEFINE m == disk.macros
           u == disk.micros
           d == disk.snapshot
           epochs == IF chain.offset = 0 THEN FullEpochs(disk)
                     ELSE {[c |-> chain, micros |-> disk.micros]}
<1>1. /\ GoodDisk(m, u, d) /\ GoodChain(chain, m, u, d) /\ Stored(disk, m, u, d)
      /\ disk = [macros |-> m, micros |-> u, snapshot |-> d]
  BY DEF IInv, Stored
<1>2. Ledger(Top(m), Outputs(m)) /\ NewIn(Outputs(m), u)
  BY DEF LInv, LedgerGood
<1> HIDE DEF m, u, d
<1>3. Grows(chain, Top(m), Outputs(m), u)
  BY <1>1, <1>2 DEF GoodDisk, GoodChain, Grows
<1>4. ASSUME NEW e \in epochs
      PROVE  Grows(e.c, Top(m), Outputs(m), e.micros)
             /\ (chain.offset # 0 => e.c = chain /\ e.micros = u)
  <2>1. CASE chain.offset = 0
    <3>1. e \in FullEpochs(disk)
      BY <2>1
    <3>2. d.epoch = Len(m) - 1
      BY <1>1 DEF GoodChain
    <3> QED BY <1>1, <1>2, <2>1, <3>1, <3>2, EpochsGrow
  <2>2. CASE chain.offset # 0
    <3>1. e = [c |-> chain, micros |-> u]
      BY <2>2 DEF u
    <3>2. e.c = chain /\ e.micros = u
      BY <3>1
    <3> QED BY <1>3, <3>2
  <2> QED BY <2>1, <2>2
<1>5. \E e \in epochs, random \in Randoms :
         /\ b = create_macro_block(e.c, e.micros, random)
         /\ Members(get_stakers_majority(e.c, e.c.epoch + 1)) # {}
  BY DEF Agreed
<1> HIDE DEF epochs
<1>6. PICK e \in epochs, random \in Randoms :
         /\ b = create_macro_block(e.c, e.micros, random)
         /\ Members(get_stakers_majority(e.c, e.c.epoch + 1)) # {}
  BY <1>5
<1> QED BY <1>4, <1>6 DEF m, u

LEMMA ApplyLedger ==
    ASSUME NEW m, NEW u, NEW d, GoodDisk(m, u, d), LedgerGood(m, u),
           NEW c, NEW s, Grows(c, Top(m), Outputs(m), s), NEW random \in Randoms,
           NEW b, MadeFrom(b, c, s, random), b.reward \in Int,
           Members(get_stakers_majority(c, c.epoch + 1)) # {}
    PROVE  LedgerGood(Append(m, b), <<>>)
<1> DEFINE base == Top(m)
           made == Outputs(m)
           x == Append(m, b)
           o == RegisterOutputs(base, b)
<1>1. IsBase(base) /\ Tracks(base, base, <<>>) /\ IsMacros(m)
  BY TopFacts DEF GoodDisk
<1>2. Ledger(base, made)
  BY DEF LedgerGood
<1>3. Top(x) = register_macro_block(base, b) /\ Outputs(x) = made \cup b.outs
  BY <1>1, TopAppend
<1>4. Grows(c, base, made, s)
  OBVIOUS
<1> HIDE DEF base, made, x
<1>5. MacroReady(base) /\ IsMacro(b) /\ o.epoch = c.epoch /\ o.escrow.map = c.escrow.map
  BY <1>1, <1>2, <1>4, MacroReplaces
<1>6. Ledger(Top(x), Outputs(x))
  BY <1>2, <1>3, <1>5, MacroLedger
<1>7. Staked(Top(x))
  <2>1. b.random \in Randoms \cup {GenesisRandom}
    BY DEF MadeFrom
  <2>2. c.epoch = base.epoch
    BY <1>4 DEF Grows, Tracks
  <2> HIDE DEF o
  <2>3. \A v, e : ActiveStakes(o, v, e) = ActiveStakes(c, v, e)
    BY <1>5 DEF ActiveStakes, StakesOf
  <2>4. get_stakers_majority(o, base.epoch + 1) = get_stakers_majority(c, c.epoch + 1)
    BY <2>2, <2>3 DEF get_stakers_majority
  <2>5. Members(get_stakers_majority(o, base.epoch + 1)) # {}
    BY <2>4
  <2>6. Staked(register_macro_block(base, b))
    BY <1>5, <2>1, <2>5, MacroStaked DEF o
  <2> QED BY <1>3, <2>6
<1>8. NewIn(Outputs(x), <<>>) /\ Len(<<>>) <= MicroBlocksInEpoch
  BY MicrosFacts, BlockchainAssumption DEF NewIn
<1> QED BY <1>6, <1>7, <1>8 DEF LedgerGood, x

LEMMA GenesisStaked ==
    LET o == RegisterOutputs(NewChain, Genesis)
    IN  Members(get_stakers_majority(o, NewChain.epoch + 1)) # {}
<1> DEFINE o == RegisterOutputs(NewChain, Genesis)
           n == NewStakes(GenesisOutputs, 0)
           G(v) == {u \in GenesisOutputs : Stake[u].validator = v}
           stakers == get_stakers_majority(o, 1)
<1>1. IsMacro(Genesis) /\ MacroReady(NewChain) /\ NewChain.epoch = 0
  BY GenesisFacts, NewChainReady
<1>2. /\ Genesis.ins \ Genesis.outs = {} /\ Genesis.outs \ Genesis.ins = GenesisOutputs
  BY DEF Genesis
<1>3. NewChain.escrow.map = [u \in Utxos |-> NoValue]
  BY DEF NewChain, new
<1>4. o.escrow.map = Moved(NewChain.escrow.map, {}, n)
  <2> HIDE DEF Genesis, NewChain
  <2> QED BY <1>1, <1>2, MetadataFacts DEF MacroReady
<1> HIDE DEF o, NewChain, Genesis
<1>5. PICK v \in Validators : GenesisStakers[v] > 0 /\ GenesisStakers[v] >= MinStake
  BY StakersAssumption
<1>6. GenesisStakers[v] = Amount(G(v))
  BY DEF GenesisStakers
<1>7. StakeEpochs \in Nat /\ 0 + StakeEpochs >= 1 /\ 0 + StakeEpochs # NoValue
      /\ v # NoValidator /\ GenesisOutputs \subseteq Utxos
  BY StakersAssumption, BlockchainAssumption
<1>8. \A u \in G(v) : u \in Given(n) /\ n[u] = 0 + StakeEpochs
  BY <1>7 DEF NewStakes, Given
<1>9. Given(n) \subseteq GenesisOutputs
  BY DEF NewStakes, Given
<1> HIDE DEF n
<1>10. ActiveStakes(o, v, 1) = G(v)
  BY <1>3, <1>4, <1>7, <1>8, <1>9 DEF Moved, ActiveStakes, StakesOf
<1> HIDE DEF G
<1>11. stakers[v] = IF Amount(G(v)) >= MinStake THEN Amount(G(v)) ELSE 0
  BY <1>10 DEF get_stakers_majority
<1>12. v \in DOMAIN stakers
  BY DEF get_stakers_majority
<1> HIDE DEF stakers
<1>13. v \in Members(stakers)
  BY <1>5, <1>6, <1>11, <1>12 DEF Members
<1>14. NewChain.epoch + 1 = 1
  BY <1>1
<1> QED BY <1>13, <1>14 DEF stakers, o

LEMMA GenesisTop == Top(<<Genesis>>) = register_macro_block(NewChain, Genesis)
<1> DEFINE m == <<Genesis>>
<1>0. Len(m) = 1 /\ m[1] = Genesis /\ IsSeq(m)
  BY GenesisFacts DEF IsMacros
<1> HIDE DEF m
<1>1. After(m, 0) = NewChain /\ \A j \in 0 .. Len(m) - 1 : After(m, j + 1) = register_macro_block(After(m, j), m[j + 1])
  BY <1>0, AfterUnroll DEF MacrosUnroll
<1>2. 0 \in 0 .. Len(m) - 1 /\ 0 + 1 = 1
  BY <1>0
<1>3. After(m, 0 + 1) = register_macro_block(After(m, 0), m[0 + 1])
  BY <1>1, <1>2
<1> QED BY <1>0, <1>1, <1>2, <1>3 DEF Top, m

LEMMA InitLedger == LedgerGood(<<Genesis>>, <<>>)
<1> DEFINE m == <<Genesis>>
<1>1. IsMacro(Genesis) /\ IsMacros(m) /\ MacroReady(NewChain)
  BY GenesisFacts, NewChainReady
<1>2. Len(m) = 1 /\ m[1] = Genesis /\ IsSeq(m) /\ IsMacros(<<>>) /\ Len(<<>>) = 0
  BY <1>1, MicrosFacts DEF IsMacros, IsMicros
<1>3. Top(m) = register_macro_block(NewChain, Genesis)
  BY GenesisTop
<1>4. Outputs(m) = {} \cup Genesis.outs
  <2>1. ToSet(m) = {Genesis}
    <3> HIDE DEF Genesis
    <3> QED BY <1>2, SeqFacts DEF ToSet
  <2> HIDE DEF m, Genesis
  <2> QED BY <2>1 DEF Outputs
<1>5. Ledger(NewChain, {})
  <2>1. /\ NewChain.output_by_hash.map = [u \in Utxos |-> NoValue]
        /\ NewChain.escrow.map = [u \in Utxos |-> NoValue]
        /\ NewChain.awards.budget = 0
    BY DEF NewChain, new, NewAwards
  <2>2. NewChain.balance.map[Unit] = 0
    BY DEF NewChain, insert, new, Unit
  <2> HIDE DEF NewChain
  <2> QED BY <2>1, <2>2 DEF Ledger, MadeOf
<1>6. Genesis.reward = 0 /\ Genesis.random = GenesisRandom
  BY DEF Genesis
<1> HIDE DEF m
<1>7. Ledger(Top(m), Outputs(m))
  <2>1. Genesis.reward \in Int
    BY <1>6
  <2> HIDE DEF Genesis, NewChain
  <2>2. Ledger(register_macro_block(NewChain, Genesis), {} \cup Genesis.outs)
    BY <1>1, <1>5, <2>1, MacroLedger
  <2> QED BY <1>3, <1>4, <2>2
<1>8. Staked(Top(m))
  <2>1. Genesis.random \in Randoms \cup {GenesisRandom}
    BY <1>6
  <2> HIDE DEF Genesis, NewChain
  <2>2. Members(get_stakers_majority(RegisterOutputs(NewChain, Genesis), NewChain.epoch + 1)) # {}
    BY GenesisStaked
  <2>3. Staked(register_macro_block(NewChain, Genesis))
    BY <1>1, <2>1, <2>2, MacroStaked
  <2> QED BY <1>3, <2>3
<1>9. NewIn(Outputs(m), <<>>) /\ Len(<<>>) <= MicroBlocksInEpoch
  BY MicrosFacts, BlockchainAssumption DEF NewIn
<1> QED BY <1>7, <1>8, <1>9 DEF LedgerGood, m

LEMMA InitLInv == Init => LInv
<1> SUFFICES ASSUME Init PROVE LInv
  OBVIOUS
<1>1. disk.macros = <<Genesis>> /\ disk.micros = <<>>
  BY DEF Init
<1> QED BY <1>1, InitLedger DEF LInv

LEMMA PushLInv == ASSUME IInv, LInv, PushMicroBlock PROVE LInv'
<1> DEFINE m == disk.macros
           u == disk.micros
           made == Outputs(m)
<1>1. Running /\ ~ is_epoch_full(chain)
  BY DEF PushMicroBlock
<1>2. PICK b \in MicroBlocks(chain, Created(disk)) :
         disk' = [disk EXCEPT !.micros = Append(@, b)]
  BY DEF PushMicroBlock
<1>3. disk'.macros = m /\ disk'.micros = Append(u, b)
  BY <1>2 DEF IInv
<1>4. /\ IsBase(Top(m)) /\ Ledger(Top(m), made) /\ Grows(chain, Top(m), made, u)
      /\ chain.offset = Len(u) /\ Len(u) \in Nat
  BY <1>1, ChainGrows
<1>5. Created(disk) = made \cup Outputs(u)
  BY DEF Created
<1>6. Ledger(Top(m), made) /\ Staked(Top(m))
  BY DEF LInv, LedgerGood
<1> HIDE DEF m, u, made
<1>7. Grows(register_micro_block(chain, b), Top(m), made, Append(u, b))
      /\ Len(Append(u, b)) = Len(u) + 1
  BY <1>4, <1>5, GrowMicro
<1>8. Len(Append(u, b)) <= MicroBlocksInEpoch
  BY <1>1, <1>4, <1>7, BlockchainAssumption DEF is_epoch_full
<1>9. LedgerGood(m, Append(u, b))
  BY <1>6, <1>7, <1>8 DEF LedgerGood, Grows, made
<1> QED BY <1>3, <1>9 DEF LInv

LEMMA PopLInv == ASSUME IInv, LInv, PopMicroBlock PROVE LInv'
<1> DEFINE m == disk.macros
           u == disk.micros
           f == SubSeq(u, 1, Len(u) - 1)
<1>1. Running /\ chain.offset > 0 /\ disk' = [disk EXCEPT !.micros = Front(@)]
  BY DEF PopMicroBlock
<1>2. disk'.macros = m /\ disk'.micros = f
  BY <1>1 DEF IInv, Front
<1>3. IsSeq(u) /\ chain.offset = Len(u) /\ Len(u) \in Nat
  BY <1>1, ChainGrows DEF Grows, IsMicros
<1>4. LedgerGood(m, u)
  BY DEF LInv
<1> HIDE DEF m, u
<1>5. Len(u) - 1 \in 0 .. Len(u)
  BY <1>1, <1>3
<1>6. IsSeq(f) /\ Len(f) = Len(u) - 1 /\ Begins(u, f, Len(u) - 1)
  BY <1>3, <1>5, SeqFacts
<1> HIDE DEF f
<1>7. Len(f) <= Len(u) /\ Begins(u, f, Len(f)) /\ Len(f) <= MicroBlocksInEpoch
  BY <1>3, <1>4, <1>6, BlockchainAssumption DEF LedgerGood
<1>8. NewIn(Outputs(m), f)
  BY <1>3, <1>4, <1>6, <1>7, NewInPrefix DEF LedgerGood
<1>9. LedgerGood(m, f)
  BY <1>4, <1>7, <1>8 DEF LedgerGood
<1> QED BY <1>2, <1>9 DEF LInv

LEMMA RewardIsNumber ==
    ASSUME NEW c, c.awards.budget \in Int, NEW random
    PROVE  LET w == awards_from_active_epoch(c, random).awards
           IN  w.amount \in Int /\ FullReward(w) \in Int
<1> DEFINE w == awards_from_active_epoch(c, random).awards
           a == ActivityOfAccounts(Members(ElectionResult(c).validators),
                    {v \in Members(ElectionResult(c).validators) : c.epoch_activity.map[v] # Failed})
<1>1. w = check_winners(finalize_epoch(c.awards, a), random)
  BY DEF awards_from_active_epoch
<1> HIDE DEF a
<1>2. w.amount \in Int
  BY <1>1, WinnersFacts
<1> QED BY <1>2, RewardFacts

LEMMA ApplyLInv == ASSUME IInv, LInv, ApplyMacroBlock PROVE LInv'
<1> DEFINE p == Popped(chain)
           m == disk.macros
           u == disk.micros
<1>1. Running
  BY DEF ApplyMacroBlock
<1>2. PICK b \in Agreed :
         \/ /\ RewardAgrees(p, b)
            /\ disk' = [macros |-> Append(disk.macros, b), micros |-> <<>>,
                        snapshot |-> write_snapshot(p, b, disk.snapshot)]
         \/ disk' = [disk EXCEPT !.micros = <<>>]
  BY DEF ApplyMacroBlock
<1>3. /\ GoodDisk(m, u, disk.snapshot) /\ IsBase(Top(m)) /\ LedgerGood(m, u)
      /\ IsMicros(u) /\ Tracks(chain, Top(m), u) /\ chain.awards = Top(m).awards
  BY <1>1, ChainGrows DEF LInv, Grows, GoodChain
<1>4. CASE /\ RewardAgrees(p, b)
           /\ disk' = [macros |-> Append(disk.macros, b), micros |-> <<>>,
                       snapshot |-> write_snapshot(p, b, disk.snapshot)]
  <2>1. disk'.macros = Append(m, b) /\ disk'.micros = <<>>
    BY <1>4
  <2>2. PICK c, s, random :
              /\ Grows(c, Top(m), Outputs(m), s)
              /\ random \in Randoms /\ b = create_macro_block(c, s, random)
              /\ Members(get_stakers_majority(c, c.epoch + 1)) # {}
    BY <1>1, AgreedGrows
  <2>3. MadeFrom(b, c, s, random)
    BY <2>2, CreatedFrom
  <2>4. p.awards = Top(m).awards
    BY <1>3, TrackPopped DEF KeptBy
  <2>5. p.awards.budget \in Int
    BY <1>3, <2>4 DEF LedgerGood, Ledger
  <2> HIDE DEF p, m, u
  <2>6. AwardsOfMacroBlock(p, b).amount \in Int
    BY <2>5, WinnersFacts DEF AwardsOfMacroBlock
  <2>7. b.reward \in Int
    BY <1>4, <2>6, RewardFacts DEF RewardAgrees
  <2>8. LedgerGood(Append(m, b), <<>>)
    BY <1>3, <2>2, <2>3, <2>7, ApplyLedger
  <2> QED BY <2>1, <2>8 DEF LInv
<1>5. CASE disk' = [disk EXCEPT !.micros = <<>>]
  <2>1. disk'.macros = m /\ disk'.micros = <<>>
    BY <1>5 DEF IInv
  <2>2. NewIn(Outputs(m), <<>>) /\ Len(<<>>) <= MicroBlocksInEpoch
    BY MicrosFacts, BlockchainAssumption DEF NewIn
  <2>3. LedgerGood(m, <<>>)
    BY <1>3, <2>2 DEF LedgerGood
  <2> QED BY <2>1, <2>3 DEF LInv
<1> QED BY <1>2, <1>4, <1>5

LEMMA NextLInv == IInv /\ LInv /\ [Next]_vars => LInv'
<1> SUFFICES ASSUME IInv, LInv, [Next]_vars PROVE LInv'
  OBVIOUS
<1>1. CASE disk'.macros = disk.macros /\ disk'.micros = disk.micros
  BY <1>1 DEF LInv
<1>2. \/ PushMicroBlock \/ PopMicroBlock \/ ApplyMacroBlock \/ disk' = disk \/ RecoverMacroBlock
  BY DEF Next, vars, SetViewChange, Crash, RecoverFast, StartRecoverBlocks, RecoverMicroBlocks
<1>3. RecoverMacroBlock => disk'.macros = disk.macros /\ disk'.micros = disk.micros
  BY DEF RecoverMacroBlock, IInv
<1> QED BY <1>1, <1>2, <1>3, PushLInv, PopLInv, ApplyLInv

-----------------------------------------------------------------------------
(* Theorems *)

\* The outputs and the stakes of the chain were made by its blocks; every micro
\* block of the epoch spends what was made before it and makes what is new; the
\* validators of an epoch are elected among those whose stakes are locked in it.
THEOREM LedgerInvariance == Spec => [](IInv /\ LInv)
<1>1. IInv /\ LInv /\ [Next]_vars => (IInv /\ LInv)'
  BY NextIInv, NextLInv
<1>2. Init => IInv /\ LInv
  BY InitIInv, InitLInv
<1> QED BY <1>1, <1>2, PTL DEF Spec

LEMMA StakedFollows == IInv /\ LInv => ValidatorsAreStaked
<1> SUFFICES ASSUME IInv, LInv, Running, chain.offset = 0
             PROVE  \A v \in Members(ElectionResult(chain).validators) :
                       ActiveStakes(chain, v, chain.epoch) # {}
  BY DEF ValidatorsAreStaked
<1> DEFINE m == disk.macros
           u == disk.micros
           x == Ref(Top(m), u, 0)
<1>1. /\ IsBase(Top(m)) /\ Grows(chain, Top(m), Outputs(m), u)
      /\ chain.offset = Len(u) /\ IsMicros(u) /\ IsSeq(u)
  BY ChainGrows DEF Grows, IsMicros
<1>2. Staked(Top(m))
  BY DEF LInv, LedgerGood
<1> HIDE DEF m, u
<1>3. x = Top(m)
  BY <1>1, RefUnroll DEF Unrolls
<1>4. Same(chain, x)
  <2>1. Same(chain, Ref(Top(m), u, Len(u)))
    BY <1>1, TrackFacts DEF Grows
  <2> QED BY <1>1, <2>1
<1>5. Same(chain, Top(m))
  BY <1>3, <1>4
<1>6. /\ ElectionResult(chain).validators = ElectionResult(Top(m)).validators
      /\ chain.epoch = Top(m).epoch /\ chain.escrow.map = Top(m).escrow.map
  BY <1>5 DEF Same, SameMaps, SameElection
<1>7. \A v, e : ActiveStakes(chain, v, e) = ActiveStakes(Top(m), v, e)
  BY <1>6 DEF ActiveStakes, StakesOf
<1> QED BY <1>2, <1>6, <1>7 DEF Staked

\* ValidatorsAreStaked: when an epoch starts every validator has a stake that is
\* locked in it, whatever was staked, taken back, confiscated or expired before,
\* and again after the blocks of the epoch were popped or the node restarted.
THEOREM StakedValidators == Spec => []ValidatorsAreStaked
  BY LedgerInvariance, StakedFollows, PTL

LEMMA ReplacesFollows == IInv /\ LInv => MacroReplacesMicros
<1> SUFFICES ASSUME IInv, LInv, Running, is_epoch_full(chain), NEW b \in Agreed
             PROVE  LET c == Popped(chain)
                        after == register_macro_block(c, b)
                        Unspent(x) == {u \in Utxos : x.output_by_hash.map[u] # NoValue}
                        award == b.reward - FullReward([amount |-> 0])
                    IN  /\ ValidatorsAgree(c, b)
                        /\ Unspent(after) = Unspent(chain)
                        /\ after.escrow.map = chain.escrow.map
                        /\ after.balance.map[Unit] = chain.balance.map[Unit] + BlockReward + award
  BY DEF MacroReplacesMicros
<1> DEFINE m == disk.macros
           u == disk.micros
           base == Top(m)
           made == Outputs(m)
           p == Popped(chain)
           q == UpdateMetadata(p, b)
           r == register_macro_block(p, b)
           o == RegisterOutputs(p, b)
<1>1. /\ IsBase(base) /\ Ledger(base, made) /\ Grows(chain, base, made, u)
      /\ chain.offset = Len(u) /\ Len(u) \in Nat
      /\ IsMicros(u) /\ Tracks(chain, base, u) /\ NewIn(made, u)
      /\ chain.awards = base.awards
  BY ChainGrows DEF Grows, GoodChain
<1>2. Len(u) = MicroBlocksInEpoch /\ chain.offset # 0
  BY <1>1, BlockchainAssumption DEF LInv, LedgerGood, is_epoch_full
<1>3. PICK random : b = create_macro_block(chain, u, random)
  BY <1>2, AgreedGrows
<1>4. MadeFrom(b, chain, u, random)
  BY <1>3, CreatedFrom
<1> HIDE DEF m, u, base, made
<1>5. Tracks(p, base, <<>>) /\ KeptBy(chain, p)
  BY <1>1, TrackPopped
<1> HIDE DEF p
<1>6. /\ MacroReady(p) /\ IsMacro(b) /\ AfterMacro(p, q, b)
      /\ o.epoch = chain.epoch /\ o.escrow.map = chain.escrow.map
      /\ q.escrow.map = chain.escrow.map
      /\ SameKeys(q.output_by_hash.map, chain.output_by_hash.map)
  BY <1>1, <1>4, <1>5, MacroReplaces
<1>7. \A f \in MapNames \ {"epoch_activity"} : r[f].map = q[f].map
  BY <1>6, MacroFacts DEF MacroReady
<1> HIDE DEF q, r, o
<1>8. /\ r.escrow.map = chain.escrow.map
      /\ SameKeys(r.output_by_hash.map, chain.output_by_hash.map)
      /\ r.balance.map = q.balance.map
  BY <1>6, <1>7 DEF MapNames
<1>9. ValidatorsAgree(p, b)
  <2>1. next_election_result(o, random) = next_election_result(chain, random)
    BY <1>6, ElectionSame
  <2> QED BY <1>4, <2>1 DEF ValidatorsAgree, MadeFrom, o
<1>10. {k \in Utxos : r.output_by_hash.map[k] # NoValue}
          = {k \in Utxos : chain.output_by_hash.map[k] # NoValue}
  BY <1>8 DEF SameKeys
<1>11. r.balance.map[Unit] = chain.balance.map[Unit] + BlockReward
                                + (b.reward - FullReward([amount |-> 0]))
  <2> DEFINE w == awards_from_active_epoch(chain, random).awards
             none == [amount |-> 0]
             start == base.balance.map[Unit]
             all == MicroBlocksInEpoch * BlockReward
  <2>1. w.amount \in Int
    BY <1>1, RewardIsNumber DEF Ledger
  <2>2. b.reward = FullReward(w)
    BY <1>4 DEF MadeFrom
  <2>3. none.amount = 0
    OBVIOUS
  <2> HIDE DEF w, none
  <2>4. FullReward(w) = all + BlockReward + w.amount /\ all \in Int /\ BlockReward \in Int
    BY <2>1, RewardFacts
  <2>5. FullReward(none) = all + BlockReward + 0
    BY <2>3, RewardFacts
  <2>6. chain.balance.map[Unit] = start + all
    BY <1>1, <1>2, TrackFlows DEF Flows
  <2>7. p.balance.map = base.balance.map /\ Unit \in DOMAIN p.balance.map
    <3>1. IsMicros(<<>>) /\ IsSeq(<<>>) /\ Len(<<>>) = 0
      BY MicrosFacts DEF IsMicros
    <3>2. Ref(base, <<>>, 0) = base
      BY <3>1, RefUnroll DEF Unrolls
    <3>3. Same(p, base)
      BY <1>1, <1>5, <3>1, <3>2, TrackFacts
    <3>4. Unit \in DOMAIN p.balance.map
      BY <1>6, ChainFacts DEF MacroReady, Ready, IsMap
    <3> QED BY <3>3, <3>4 DEF Same, SameMaps
  <2>8. r.balance.map = [p.balance.map EXCEPT ![Unit] = p.balance.map[Unit] + b.reward]
    BY <1>6, <1>8 DEF AfterMacro
  <2>9. r.balance.map[Unit] = start + b.reward /\ start \in Int
    BY <1>1, <2>7, <2>8 DEF Ledger
  <2> HIDE DEF start, all
  <2>10. r.balance.map[Unit] = chain.balance.map[Unit] + BlockReward + (b.reward - FullReward(none))
    BY <2>1, <2>2, <2>4, <2>5, <2>6, <2>9
  <2> QED BY <2>10 DEF none
<1> QED BY <1>8, <1>9, <1>10, <1>11 DEF p, r

\* MacroReplacesMicros: the macro block made of a full epoch of valid micro blocks,
\* applied after they have been popped, leaves the outputs and the stakes that they
\* left, elects the validators that it announces, and adds its own reward and the
\* award to the money.
THEOREM MacroBlocksReplace == Spec => []MacroReplacesMicros
  BY LedgerInvariance, ReplacesFollows, PTL

-----------------------------------------------------------------------------
(* Where the blocks are read *)

EpochOf(lsn) == lsn \div (MicroBlocksInEpoch + 2)
OffsetOf(lsn) == lsn % (MicroBlocksInEpoch + 2)

LEMMA DivisionFacts ==
    ASSUME NEW w \in Nat \ {0}, NEW n \in Nat
    PROVE  n \div w \in Nat /\ n % w \in 0 .. w - 1 /\ (n \div w) * w + (n % w) = n
  OBVIOUS

\* An epoch and an offset have an lsn of their own.
LEMMA LsnParts ==
    /\ \A lsn \in Nat : /\ EpochOf(lsn) \in Nat /\ OffsetOf(lsn) \in 0 .. MACRO_BLOCK_OFFSET
                        /\ LSN(EpochOf(lsn), OffsetOf(lsn)) = lsn
    /\ \A e \in Nat, o \in 0 .. MACRO_BLOCK_OFFSET :
          EpochOf(LSN(e, o)) = e /\ OffsetOf(LSN(e, o)) = o
<1> DEFINE w == MicroBlocksInEpoch + 2
<1>1. w \in Nat \ {0} /\ 0 .. MACRO_BLOCK_OFFSET = 0 .. w - 1
  BY BlockchainAssumption DEF MACRO_BLOCK_OFFSET
<1>2. /\ \A e, o : LSN(e, o) = e * w + o
      /\ \A n : EpochOf(n) = n \div w /\ OffsetOf(n) = n % w
  BY DEF LSN, EpochOf, OffsetOf
<1> HIDE DEF w
<1>3. ASSUME NEW lsn \in Nat
      PROVE  /\ EpochOf(lsn) \in Nat /\ OffsetOf(lsn) \in 0 .. MACRO_BLOCK_OFFSET
             /\ LSN(EpochOf(lsn), OffsetOf(lsn)) = lsn
  <2>1. lsn \div w \in Nat /\ lsn % w \in 0 .. w - 1 /\ (lsn \div w) * w + (lsn % w) = lsn
    BY <1>1, DivisionFacts
  <2> QED BY <1>1, <1>2, <2>1
<1>4. ASSUME NEW e \in Nat, NEW o \in 0 .. w - 1
      PROVE  (e * w + o) \div w = e /\ (e * w + o) % w = o
  <2> DEFINE n == e * w + o
             q == n \div w
             r == n % w
  <2>1. n \in Nat
    BY <1>1
  <2>2. q \in Nat /\ r \in 0 .. w - 1 /\ q * w + r = n
    BY <1>1, <2>1, DivisionFacts
  <2> HIDE DEF q, r
  <2>3. (q - e) * w = o - r
    BY <1>1, <2>2
  <2>4. ~ q > e
    <3>1. q > e => (q - e) * w >= w
      BY <1>1, <2>2
    <3> QED BY <1>1, <2>2, <2>3, <3>1
  <2>5. ~ q < e
    <3>1. q < e => (e - q) * w >= w
      BY <1>1, <2>2
    <3>2. (e - q) * w = 0 - ((q - e) * w)
      BY <1>1, <2>2
    <3> QED BY <1>1, <2>2, <2>3, <3>1, <3>2
  <2>6. q = e
    BY <2>2, <2>4, <2>5
  <2>7. r = o
    BY <1>1, <2>2, <2>6
  <2> QED BY <2>6, <2>7 DEF q, r
<1>5. ASSUME NEW e \in Nat, NEW o \in 0 .. MACRO_BLOCK_OFFSET
      PROVE  EpochOf(LSN(e, o)) = e /\ OffsetOf(LSN(e, o)) = o
  BY <1>1, <1>2, <1>4
<1> QED BY <1>3, <1>5

\* The block of the database at an lsn.
BlockAt(m, u, lsn) ==
    IF OffsetOf(lsn) = MACRO_BLOCK_OFFSET
    THEN IF EpochOf(lsn) + 1 \in 1 .. Len(m) THEN m[EpochOf(lsn) + 1] ELSE NoValue
    ELSE IF EpochOf(lsn) = Len(m) /\ OffsetOf(lsn) + 1 \in 1 .. Len(u)
         THEN u[OffsetOf(lsn) + 1] ELSE NoValue

PlacedIn(map, m, u) == map = [lsn \in Lsns |-> BlockAt(m, u, lsn)]

\* The outputs in map name blocks before lsn that create them.
FoundIn(map, blocks, lsn) ==
    \A k \in Utxos : map[k] # NoValue =>
        map[k] \in Lsns /\ map[k] < lsn /\ k \in blocks[map[k]].outs

LEMMA LsnsAreNats == Lsns \subseteq Nat
  BY DEF Lsns

LEMMA LsnBound ==
    ASSUME NEW e \in Nat, e <= MaxEpoch, NEW o \in Nat, o <= MicroBlocksInEpoch + 1
    PROVE  LSN(e, o) \in Lsns
<1> DEFINE w == MicroBlocksInEpoch + 2
           p == e * w
           q == MaxEpoch * w
           d == MaxEpoch - e
<1>1. w \in Nat /\ d \in Nat /\ MaxEpoch \in Nat
  BY BlockchainAssumption
<1>2. LSN(e, o) = p + o /\ LSN(MaxEpoch, MACRO_BLOCK_OFFSET) = q + (MicroBlocksInEpoch + 1)
  BY DEF LSN, MACRO_BLOCK_OFFSET
<1>3. p \in Nat /\ q \in Nat /\ d * w \in Nat /\ d * w = q - p
  BY <1>1
<1> HIDE DEF p, q, d, w
<1>4. p <= q
  <2> DEFINE z == d * w
  <2>1. z \in Nat /\ z = q - p
    BY <1>3
  <2> HIDE DEF z
  <2> QED BY <1>3, <2>1
<1>5. p + o \in 0 .. q + (MicroBlocksInEpoch + 1)
  BY <1>3, <1>4, BlockchainAssumption
<1> QED BY <1>2, <1>5 DEF Lsns

LEMMA PlaceMicro ==
    ASSUME NEW map, NEW m, NEW s, NEW t, Len(m) \in Nat, IsSeq(s), IsSeq(t),
           Len(t) = Len(s) + 1, Begins(s, t, Len(s)), Len(t) <= MicroBlocksInEpoch,
           PlacedIn(map, m, s)
    PROVE  PlacedIn([map EXCEPT ![LSN(Len(m), Len(s))] = t[Len(t)]], m, t)
<1> DEFINE n == Len(s)
           e == Len(m)
           at == LSN(e, n)
           r == [map EXCEPT ![at] = t[Len(t)]]
<1>1. n \in Nat /\ e \in Nat /\ n + 1 <= MicroBlocksInEpoch /\ Len(t) = n + 1
      /\ \A i \in 1 .. n : t[i] = s[i]
  BY SeqFacts DEF Begins
<1>2. n \in 0 .. MACRO_BLOCK_OFFSET /\ n # MACRO_BLOCK_OFFSET
  BY <1>1, BlockchainAssumption DEF MACRO_BLOCK_OFFSET
<1>3. EpochOf(at) = e /\ OffsetOf(at) = n
  BY <1>1, <1>2, LsnParts
<1>4. \A lsn \in Lsns : /\ EpochOf(lsn) \in Nat /\ OffsetOf(lsn) \in 0 .. MACRO_BLOCK_OFFSET
                        /\ LSN(EpochOf(lsn), OffsetOf(lsn)) = lsn
  BY LsnsAreNats, LsnParts
<1>5. map = [lsn \in Lsns |-> BlockAt(m, s, lsn)]
  BY DEF PlacedIn
<1>6. r = [lsn \in Lsns |-> IF lsn = at THEN t[n + 1] ELSE BlockAt(m, s, lsn)]
  BY <1>1, <1>5
<1> HIDE DEF n, e, r
<1>7. ASSUME NEW lsn \in Lsns
      PROVE  (IF lsn = at THEN t[n + 1] ELSE BlockAt(m, s, lsn)) = BlockAt(m, t, lsn)
  <2>1. CASE lsn = at
    BY <1>1, <1>2, <1>3, <2>1 DEF BlockAt, e
  <2>2. CASE lsn # at
    <3> DEFINE o == OffsetOf(lsn)
               f == EpochOf(lsn)
    <3>1. o \in Nat /\ ~ (f = e /\ o = n)
      BY <1>4, <2>2
    <3> HIDE DEF o, f
    <3>2. f = e => (o + 1 \in 1 .. n + 1 <=> o + 1 \in 1 .. n)
      BY <1>1, <3>1
    <3>3. o + 1 \in 1 .. n => t[o + 1] = s[o + 1]
      BY <1>1
    <3>4. /\ BlockAt(m, s, lsn) = IF o = MACRO_BLOCK_OFFSET
                                  THEN IF f + 1 \in 1 .. Len(m) THEN m[f + 1] ELSE NoValue
                                  ELSE IF f = e /\ o + 1 \in 1 .. n THEN s[o + 1] ELSE NoValue
          /\ BlockAt(m, t, lsn) = IF o = MACRO_BLOCK_OFFSET
                                  THEN IF f + 1 \in 1 .. Len(m) THEN m[f + 1] ELSE NoValue
                                  ELSE IF f = e /\ o + 1 \in 1 .. n + 1 THEN t[o + 1] ELSE NoValue
      BY <1>1 DEF BlockAt, o, f, e, n
    <3> QED BY <2>2, <3>2, <3>3, <3>4
  <2> QED BY <2>1, <2>2
<1>8. r = [lsn \in Lsns |-> BlockAt(m, t, lsn)]
  BY <1>6, <1>7
<1> QED BY <1>8 DEF PlacedIn, r, n, e

LEMMA PlaceMacro ==
    ASSUME NEW map, NEW m, NEW x, IsSeq(m), IsSeq(x), Len(x) = Len(m) + 1,
           Begins(m, x, Len(m)), PlacedIn(map, m, <<>>)
    PROVE  PlacedIn([map EXCEPT ![LSN(Len(m), MACRO_BLOCK_OFFSET)] = x[Len(x)]], x, <<>>)
<1> DEFINE e == Len(m)
           at == LSN(e, MACRO_BLOCK_OFFSET)
           r == [map EXCEPT ![at] = x[Len(x)]]
<1>1. e \in Nat /\ Len(x) = e + 1 /\ Len(<<>>) = 0 /\ \A i \in 1 .. e : x[i] = m[i]
  BY SeqFacts, MicrosFacts DEF Begins
<1>2. MACRO_BLOCK_OFFSET \in 0 .. MACRO_BLOCK_OFFSET
  BY BlockchainAssumption DEF MACRO_BLOCK_OFFSET
<1>3. EpochOf(at) = e /\ OffsetOf(at) = MACRO_BLOCK_OFFSET
  BY <1>1, <1>2, LsnParts
<1>4. \A lsn \in Lsns : /\ EpochOf(lsn) \in Nat /\ OffsetOf(lsn) \in Nat
                        /\ LSN(EpochOf(lsn), OffsetOf(lsn)) = lsn
  BY LsnsAreNats, LsnParts
<1>5. map = [lsn \in Lsns |-> BlockAt(m, <<>>, lsn)]
  BY DEF PlacedIn
<1>6. r = [lsn \in Lsns |-> IF lsn = at THEN x[e + 1] ELSE BlockAt(m, <<>>, lsn)]
  BY <1>1, <1>5
<1> HIDE DEF e, r
<1>7. ASSUME NEW lsn \in Lsns
      PROVE  (IF lsn = at THEN x[e + 1] ELSE BlockAt(m, <<>>, lsn)) = BlockAt(x, <<>>, lsn)
  <2> DEFINE o == OffsetOf(lsn)
             f == EpochOf(lsn)
  <2>1. o \in Nat /\ f \in Nat /\ (f = e /\ o = MACRO_BLOCK_OFFSET <=> lsn = at)
    BY <1>3, <1>4
  <2>2. /\ BlockAt(m, <<>>, lsn) = IF o = MACRO_BLOCK_OFFSET
                                   THEN IF f + 1 \in 1 .. e THEN m[f + 1] ELSE NoValue
                                   ELSE NoValue
        /\ BlockAt(x, <<>>, lsn) = IF o = MACRO_BLOCK_OFFSET
                                   THEN IF f + 1 \in 1 .. e + 1 THEN x[f + 1] ELSE NoValue
                                   ELSE NoValue
    <3>1. o + 1 \notin 1 .. 0
      BY <2>1
    <3> QED BY <1>1, <3>1 DEF BlockAt, e
  <2> HIDE DEF o, f
  <2>3. f # e => (f + 1 \in 1 .. e + 1 <=> f + 1 \in 1 .. e)
    BY <1>1, <2>1
  <2>4. f + 1 \in 1 .. e => x[f + 1] = m[f + 1]
    BY <1>1
  <2>5. e + 1 \in 1 .. e + 1
    BY <1>1
  <2> QED BY <2>1, <2>2, <2>3, <2>4, <2>5
<1>8. r = [lsn \in Lsns |-> BlockAt(x, <<>>, lsn)]
  BY <1>6, <1>7
<1> QED BY <1>8 DEF PlacedIn, r, e

\* A block at an lsn that is not used yet.
LEMMA FindStep ==
    ASSUME NEW map, NEW blocks, NEW lsn \in Lsns, FoundIn(map, blocks, lsn),
           DOMAIN blocks = Lsns, NEW b, NEW ins, NEW outs, outs \subseteq b.outs,
           NEW next \in Nat, lsn < next
    PROVE  FoundIn(Moved(map, ins, NewOutputs(outs, lsn)), [blocks EXCEPT ![lsn] = b], next)
<1> DEFINE made == NewOutputs(outs, lsn)
           r == Moved(map, ins, made)
           q == [blocks EXCEPT ![lsn] = b]
<1>1. lsn \in Nat /\ lsn # NoValue
  BY StakersAssumption, LsnsAreNats
<1>2. Given(made) = outs /\ \A k \in outs : made[k] = lsn
  BY <1>1 DEF Given, NewOutputs
<1> HIDE DEF made
<1>3. \A k \in Utxos : r[k] = IF k \in outs THEN lsn ELSE IF k \in ins THEN NoValue ELSE map[k]
  BY <1>2 DEF Moved
<1>4. q[lsn] = b /\ \A l \in Lsns : l # lsn => q[l] = blocks[l]
  OBVIOUS
<1> HIDE DEF r, q
<1>5. ASSUME NEW k \in Utxos, r[k] # NoValue
      PROVE  r[k] \in Lsns /\ r[k] < next /\ k \in q[r[k]].outs
  <2>1. CASE k \in outs
    BY <1>3, <1>4, <2>1
  <2>2. CASE k \notin outs
    <3>1. r[k] = map[k] /\ map[k] # NoValue
      BY <1>3, <1>5, <2>2
    <3>2. map[k] \in Lsns /\ map[k] < lsn /\ k \in blocks[map[k]].outs
      BY <3>1 DEF FoundIn
    <3>3. map[k] \in Nat
      BY <3>2, LsnsAreNats
    <3> QED BY <1>1, <1>4, <3>1, <3>2, <3>3
  <2> QED BY <2>1, <2>2
<1> QED BY <1>5 DEF FoundIn, r, q, made

\* The blocks of c are m and s, and its outputs are found in them.
Located(c, m, s) ==
    /\ PlacedIn(c.block_by_hash.map, m, s)
    /\ FoundIn(c.output_by_hash.map, c.block_by_hash.map, LSN(Len(m), Len(s)))

LEMMA LocateStep ==
    ASSUME NEW x, NEW base, NEW m, NEW s, NEW t, IsMicros(s), IsMicros(t),
           Len(t) = Len(s) + 1, Begins(s, t, Len(s)), Len(t) <= MicroBlocksInEpoch,
           base.epoch = Len(m), Len(m) \in Nat, Len(m) <= MaxEpoch,
           RefOK(x, base, Len(s)), Located(x, m, s)
    PROVE  Located(register_micro_block(x, t[Len(t)]), m, t)
<1> DEFINE n == Len(s)
           e == Len(m)
           b == t[Len(t)]
           r == register_micro_block(x, b)
           lsn == LSN(e, n)
<1>1. IsSeq(s) /\ IsSeq(t) /\ n \in Nat /\ Len(t) \in 1 .. Len(t) /\ IsMicro(b)
  BY SeqFacts DEF IsMicros
<1>2. AtEnd(x, lsn)
  BY DEF RefOK
<1>3. lsn \in Nat /\ LSN(e, n + 1) = lsn + 1
  BY <1>1, LsnOrder
<1>4. lsn \in Lsns
  BY <1>1, LsnBound, BlockchainAssumption
<1> HIDE DEF lsn
<1>5. AfterMicro(x, r, lsn, b)
  BY <1>1, <1>2, MicroFacts
<1>6. /\ r.block_by_hash.map = [x.block_by_hash.map EXCEPT ![lsn] = b]
      /\ r.output_by_hash.map = Moved(x.output_by_hash.map, b.ins, NewOutputs(b.outs, lsn))
  BY <1>5 DEF AfterMicro
<1> HIDE DEF r
<1>7. PlacedIn(x.block_by_hash.map, m, s) /\ FoundIn(x.output_by_hash.map, x.block_by_hash.map, lsn)
  BY DEF Located, lsn
<1>8. DOMAIN x.block_by_hash.map = Lsns
  BY <1>7 DEF PlacedIn
<1>9. PlacedIn(r.block_by_hash.map, m, t)
  BY <1>1, <1>6, <1>7, PlaceMicro DEF lsn
<1>10. FoundIn(r.output_by_hash.map, r.block_by_hash.map, LSN(Len(m), Len(t)))
  <2>1. lsn + 1 \in Nat /\ lsn < lsn + 1 /\ b.outs \subseteq b.outs
    BY <1>3
  <2> HIDE DEF b
  <2>2. FoundIn(r.output_by_hash.map, r.block_by_hash.map, lsn + 1)
    BY <1>4, <1>6, <1>7, <1>8, <2>1, FindStep
  <2> QED BY <1>3, <2>2
<1> QED BY <1>9, <1>10 DEF Located, r

LEMMA LocateRef ==
    ASSUME NEW base, IsBase(base), NEW u, IsMicros(u), NEW m, base.epoch = Len(m),
           Len(u) <= MicroBlocksInEpoch, Len(u) # 0 => Len(m) <= MaxEpoch,
           Located(base, m, <<>>)
    PROVE  Located(Ref(base, u, Len(u)), m, u)
<1> DEFINE n == Len(u)
           S(o) == SubSeq(u, 1, o)
           x(o) == Ref(base, u, o)
<1>1. IsSeq(u) /\ n \in Nat /\ Len(m) \in Nat
  BY SeqFacts, BaseIsRef DEF IsMicros
<1>2. \A o \in 0 .. n : RefOK(x(o), base, o)
  BY RefFacts
<1>3. /\ x(0) = base
      /\ \A o \in 0 .. n - 1 : x(o + 1) = register_micro_block(x(o), u[o + 1])
  <2>1. Unrolls(base, u)
    BY <1>1, RefUnroll
  <2> QED BY <2>1 DEF Unrolls
<1>4. \A o \in 0 .. n : IsMicros(S(o)) /\ Len(S(o)) = o /\ \A i \in 1 .. o : S(o)[i] = u[i]
  BY <1>1, MicrosFacts, SeqFacts DEF Begins
<1>5. S(n) = u
  BY <1>1, WholeSeq
<1>6. S(0) = <<>>
  BY <1>1, EmptyPrefix
<1> HIDE DEF S, x
<1> DEFINE T == {o \in Nat : o <= n => Located(x(o), m, S(o))}
<1>7. 0 \in T
  BY <1>3, <1>6
<1>8. ASSUME NEW o \in Nat, o \in T PROVE o + 1 \in T
  <2> SUFFICES ASSUME o + 1 <= n PROVE Located(x(o + 1), m, S(o + 1))
    OBVIOUS
  <2>1. /\ o \in 0 .. n /\ o \in 0 .. n - 1 /\ o + 1 \in 0 .. n /\ o + 1 \in 1 .. o + 1
        /\ n # 0 /\ o + 1 <= MicroBlocksInEpoch
    BY <1>1, BlockchainAssumption
  <2>2. Located(x(o), m, S(o))
    BY <1>1, <1>8
  <2>3. /\ IsMicros(S(o)) /\ IsMicros(S(o + 1)) /\ Len(S(o)) = o /\ Len(S(o + 1)) = o + 1
        /\ S(o + 1)[o + 1] = u[o + 1]
    BY <1>4, <2>1
  <2>4. Begins(S(o), S(o + 1), o)
    <3>1. ASSUME NEW i \in 1 .. o PROVE S(o + 1)[i] = S(o)[i]
      <4>1. i \in 1 .. o + 1
        OBVIOUS
      <4> QED BY <1>4, <2>1, <4>1
    <3> QED BY <2>3, <3>1 DEF Begins
  <2>5. RefOK(x(o), base, o)
    BY <1>2, <2>1
  <2>6. Located(register_micro_block(x(o), u[o + 1]), m, S(o + 1))
    BY <1>1, <2>1, <2>2, <2>3, <2>4, <2>5, LocateStep
  <2> QED BY <1>3, <2>1, <2>6
<1>9. Nat \subseteq T
  <2> HIDE DEF T
  <2> QED BY <1>7, <1>8, NumberInduction
<1>10. Located(x(n), m, S(n))
  BY <1>1, <1>9
<1> QED BY <1>5, <1>10 DEF x

LEMMA LocateMacro ==
    ASSUME NEW c, MacroReady(c), NEW m, IsMacros(m), c.epoch = Len(m), Len(m) <= MaxEpoch,
           Located(c, m, <<>>), NEW b, IsMacro(b)
    PROVE  Located(register_macro_block(c, b), Append(m, b), <<>>)
<1> DEFINE e == Len(m)
           x == Append(m, b)
           q == UpdateMetadata(c, b)
           r == register_macro_block(c, b)
           lsn == LSN(e, MACRO_BLOCK_OFFSET)
<1>1. IsSeq(m) /\ IsSeq(x) /\ e \in Nat /\ Len(x) = e + 1 /\ Begins(m, x, e) /\ x[e + 1] = b
  BY SeqFacts DEF IsMacros
<1>2. lsn \in Nat /\ LSN(e + 1, 0) = lsn + 1 /\ LSN(e, 0) <= lsn /\ Len(<<>>) = 0 /\ LSN(e, 0) \in Nat
  <2>1. /\ LSN(e, MACRO_BLOCK_OFFSET) \in Nat /\ LSN(e, MACRO_BLOCK_OFFSET) = PreviousLsn(e + 1, 0)
        /\ LSN(e, 0) <= LSN(e, MACRO_BLOCK_OFFSET) /\ LSN(e, 0) \in Nat
    BY <1>1, LsnFacts, BlockchainAssumption
  <2>2. e + 1 \in Nat
    BY <1>1
  <2>3. PreviousLsn(e + 1, 0) = LSN(e + 1, 0) - 1 /\ LSN(e + 1, 0) \in Nat
    BY <2>2, LsnFacts
  <2> QED BY <2>1, <2>3, MicrosFacts
<1>3. lsn \in Lsns
  <2>1. MACRO_BLOCK_OFFSET \in Nat /\ MACRO_BLOCK_OFFSET <= MicroBlocksInEpoch + 1
    BY BlockchainAssumption DEF MACRO_BLOCK_OFFSET
  <2> QED BY <1>1, <2>1, LsnBound
<1>4. AfterMacro(c, q, b) /\ MacroLsn(c) = lsn
  BY MetadataFacts DEF MacroReady, MacroLsn
<1>5. \A f \in MapNames \ {"epoch_activity"} : r[f].map = q[f].map
  BY MacroFacts DEF MacroReady
<1> HIDE DEF q, r, x, lsn
<1>6. /\ r.block_by_hash.map = [c.block_by_hash.map EXCEPT ![lsn] = b]
      /\ r.output_by_hash.map = Moved(c.output_by_hash.map, b.ins \ b.outs,
                                      NewOutputs(b.outs \ b.ins, lsn))
  BY <1>4, <1>5 DEF AfterMacro, MapNames
<1>7. /\ PlacedIn(c.block_by_hash.map, m, <<>>)
      /\ FoundIn(c.output_by_hash.map, c.block_by_hash.map, LSN(e, 0))
  BY <1>2 DEF Located
<1>8. DOMAIN c.block_by_hash.map = Lsns
  BY <1>7 DEF PlacedIn
<1>9. PlacedIn(r.block_by_hash.map, x, <<>>)
  <2>1. PlacedIn([c.block_by_hash.map EXCEPT ![LSN(Len(m), MACRO_BLOCK_OFFSET)] = x[Len(x)]], x, <<>>)
    BY <1>1, <1>7, PlaceMacro
  <2> QED BY <1>1, <1>6, <2>1 DEF lsn
<1>10. FoundIn(r.output_by_hash.map, r.block_by_hash.map, LSN(Len(x), Len(<<>>)))
  <2>1. FoundIn(c.output_by_hash.map, c.block_by_hash.map, lsn)
    <3>1. \A l \in Lsns : l < LSN(e, 0) => l < lsn
      BY <1>2, LsnsAreNats
    <3> QED BY <1>7, <3>1 DEF FoundIn
  <2>2. lsn + 1 \in Nat /\ lsn < lsn + 1 /\ b.outs \ b.ins \subseteq b.outs
    BY <1>2
  <2> DEFINE outs == b.outs \ b.ins
             ins == b.ins \ b.outs
  <2> HIDE DEF outs, ins
  <2>3. r.output_by_hash.map = Moved(c.output_by_hash.map, ins, NewOutputs(outs, lsn))
        /\ outs \subseteq b.outs
    BY <1>6, <2>2 DEF outs, ins
  <2>4. FoundIn(r.output_by_hash.map, r.block_by_hash.map, lsn + 1)
    BY <1>3, <1>6, <1>8, <2>1, <2>2, <2>3, FindStep
  <2> QED BY <1>1, <1>2, <2>4
<1> QED BY <1>9, <1>10 DEF Located, r, x

ReadGood(m, u) ==
    /\ Located(Top(m), m, <<>>) /\ Len(m) <= MaxEpoch + 1
    /\ Len(u) # 0 => Len(m) <= MaxEpoch

RInv == ReadGood(disk.macros, disk.micros)

LEMMA InitRead == ReadGood(<<Genesis>>, <<>>)
<1> DEFINE m == <<Genesis>>
           none == <<>>
<1>1. IsMacro(Genesis) /\ IsMacros(m) /\ MacroReady(NewChain) /\ NewChain.epoch = 0
  BY GenesisFacts, NewChainReady
<1>2. IsMacros(none) /\ Len(none) = 0 /\ Append(none, Genesis) = m /\ Len(m) = 1
  <2>1. IsMicros(none) /\ Len(none) = 0
    BY MicrosFacts
  <2> HIDE DEF Genesis
  <2>2. Append(<<>>, Genesis) = <<Genesis>>
    OBVIOUS
  <2>3. Len(m) = 1
    OBVIOUS
  <2> QED BY <2>1, <2>2, <2>3 DEF IsMicros, IsMacros
<1>3. Located(NewChain, none, <<>>)
  <2>1. /\ NewChain.output_by_hash.map = [u \in Utxos |-> NoValue]
        /\ NewChain.block_by_hash.map = [lsn \in Lsns |-> NoValue]
    BY DEF NewChain, new
  <2>2. \A lsn \in Lsns : BlockAt(none, <<>>, lsn) = NoValue
    <3>1. \A lsn \in Lsns : EpochOf(lsn) + 1 \notin 1 .. 0 /\ OffsetOf(lsn) + 1 \notin 1 .. 0
      BY LsnsAreNats, LsnParts
    <3> QED BY <1>2, <3>1 DEF BlockAt
  <2> HIDE DEF NewChain
  <2> QED BY <2>1, <2>2 DEF Located, PlacedIn, FoundIn
<1>4. MaxEpoch \in Nat
  BY BlockchainAssumption
<1> HIDE DEF none
<1>5. Located(register_macro_block(NewChain, Genesis), m, <<>>)
  <2> HIDE DEF m, Genesis, NewChain
  <2>1. NewChain.epoch = Len(none) /\ Len(none) <= MaxEpoch
    BY <1>1, <1>2, <1>4
  <2>2. Located(register_macro_block(NewChain, Genesis), Append(none, Genesis), <<>>)
    BY <1>1, <1>2, <1>3, <2>1, LocateMacro
  <2> QED BY <1>2, <2>2
<1>6. Top(m) = register_macro_block(NewChain, Genesis)
  BY GenesisTop
<1> QED BY <1>2, <1>4, <1>5, <1>6, MicrosFacts DEF ReadGood, m

LEMMA InitRInv == Init => RInv
<1> SUFFICES ASSUME Init PROVE RInv
  OBVIOUS
<1>1. disk.macros = <<Genesis>> /\ disk.micros = <<>>
  BY DEF Init
<1> QED BY <1>1, InitRead DEF RInv

LEMMA NextRInv == IInv /\ LInv /\ RInv /\ [Next]_vars => RInv'
<1> SUFFICES ASSUME IInv, LInv, RInv, [Next]_vars PROVE RInv'
  OBVIOUS
<1> DEFINE m == disk.macros
           u == disk.micros
<1>0. ReadGood(m, u) /\ IsMacros(m) /\ IsSeq(m) /\ Len(m) \in Nat /\ IsSeq(u) /\ Len(u) \in Nat
      /\ MaxEpoch \in Nat
  <2>1. GoodDisk(m, u, disk.snapshot)
    BY DEF IInv
  <2>2. IsMacros(m) /\ IsSeq(m) /\ IsSeq(u)
    BY <2>1 DEF GoodDisk, IsMacros, IsMicros
  <2> QED BY <2>2, SeqFacts, BlockchainAssumption DEF RInv
<1>1. CASE disk'.macros = disk.macros /\ disk'.micros = disk.micros
  BY <1>1 DEF RInv
<1>2. CASE PushMicroBlock
  <2>1. Running /\ chain.epoch < MaxEpoch
    BY <1>2 DEF PushMicroBlock
  <2>2. PICK b : disk' = [disk EXCEPT !.micros = Append(@, b)]
    BY <1>2 DEF PushMicroBlock
  <2>3. disk'.macros = m
    BY <2>2 DEF IInv
  <2>4. chain.epoch = Len(m)
    BY <2>1, EpochIsLen
  <2> QED BY <1>0, <2>1, <2>3, <2>4 DEF RInv, ReadGood
<1>3. CASE PopMicroBlock
  <2>1. Running /\ chain.offset > 0
    BY <1>3 DEF PopMicroBlock
  <2>2. disk'.macros = m
    BY <1>3 DEF IInv, PopMicroBlock
  <2>3. Len(u) # 0
    BY <1>0, <2>1, ChainGrows
  <2> QED BY <1>0, <2>2, <2>3 DEF RInv, ReadGood
<1>4. CASE ApplyMacroBlock
  <2> DEFINE p == Popped(chain)
  <2>1. Running /\ chain.epoch < MaxEpoch
    BY <1>4 DEF ApplyMacroBlock
  <2>2. PICK b \in Agreed :
           \/ disk' = [macros |-> Append(disk.macros, b), micros |-> <<>>,
                       snapshot |-> write_snapshot(p, b, disk.snapshot)]
           \/ disk' = [disk EXCEPT !.micros = <<>>]
    BY <1>4 DEF ApplyMacroBlock
  <2>3. chain.epoch = Len(m) /\ Top(m).epoch = Len(m) /\ MacroReady(Top(m))
    BY <2>1, EpochIsLen
  <2>4. IsMacro(b)
    BY AgreedFacts DEF IInv, GoodDisk
  <2>5. Len(<<>>) = 0
    BY MicrosFacts
  <2>6. CASE disk' = [macros |-> Append(disk.macros, b), micros |-> <<>>,
                      snapshot |-> write_snapshot(p, b, disk.snapshot)]
    <3>1. disk'.macros = Append(m, b) /\ disk'.micros = <<>>
      BY <2>6
    <3>2. Len(m) <= MaxEpoch /\ Len(m) + 1 <= MaxEpoch + 1
      BY <1>0, <2>1, <2>3
    <3> HIDE DEF m
    <3>3. Located(register_macro_block(Top(m), b), Append(m, b), <<>>)
      BY <1>0, <2>3, <2>4, <3>2, LocateMacro DEF ReadGood
    <3>4. Top(Append(m, b)) = register_macro_block(Top(m), b) /\ Len(Append(m, b)) = Len(m) + 1
      BY <1>0, TopAppend, SeqFacts
    <3>5. ReadGood(Append(m, b), <<>>)
      BY <2>5, <3>2, <3>3, <3>4 DEF ReadGood
    <3> QED BY <3>1, <3>5 DEF RInv
  <2>7. CASE disk' = [disk EXCEPT !.micros = <<>>]
    <3>1. disk'.macros = m /\ disk'.micros = <<>>
      BY <2>7 DEF IInv
    <3> QED BY <1>0, <2>5, <3>1 DEF RInv, ReadGood
  <2> QED BY <2>2, <2>6, <2>7
<1>5. \/ PushMicroBlock \/ PopMicroBlock \/ ApplyMacroBlock \/ disk' = disk \/ RecoverMacroBlock
  BY DEF Next, vars, SetViewChange, Crash, RecoverFast, StartRecoverBlocks, RecoverMicroBlocks
<1>6. RecoverMacroBlock => disk'.macros = disk.macros /\ disk'.micros = disk.micros
  BY DEF RecoverMacroBlock, IInv
<1> QED BY <1>1, <1>2, <1>3, <1>4, <1>5, <1>6

\* What is found in the cache is what the database has.
LEMMA CacheReads ==
    ASSUME NEW c, NEW m, IsSeq(m), LastOf(c.cache, m, Len(m)), c.epoch = Len(m),
           NEW e \in Nat
    PROVE  LET x == get_block_cached(c, e)
           IN  x = NoValue \/ (e + 1 \in 1 .. Len(m) /\ x = m[e + 1])
<1> DEFINE n == Len(m)
           W == StakeEpochs + 1
           k == Smaller(n, W)
           lower == IF c.epoch > W THEN c.epoch - W ELSE 0
           idx == e - lower + 1
           x == get_block_cached(c, e)
<1>1. n \in Nat /\ W \in Nat /\ c.epoch = n
  BY SeqFacts, BlockchainAssumption
<1>2. IsSeq(c.cache) /\ Len(c.cache) = k /\ \A i \in 1 .. k : c.cache[i] = m[(n - k) + i]
  BY DEF LastOf
<1>3. DOMAIN c.cache = 1 .. k
  BY <1>2, SeqFacts
<1>4. x = IF e > c.epoch \/ idx \notin DOMAIN c.cache THEN NoValue ELSE c.cache[idx]
  BY DEF get_block_cached
<1>5. n - k = lower /\ k \in Nat /\ k <= n
  BY <1>1 DEF Smaller
<1> HIDE DEF x, n, k, lower
<1>6. CASE x = NoValue
  BY <1>6 DEF x
<1>7. CASE x # NoValue
  <2>1. idx \in 1 .. k /\ x = c.cache[idx]
    BY <1>3, <1>4, <1>7
  <2>2. (n - k) + idx = e + 1 /\ e + 1 \in 1 .. n
    BY <1>1, <1>5, <2>1
  <2> QED BY <1>2, <2>1, <2>2 DEF x, n
<1> QED BY <1>6, <1>7

LEMMA ReadFollows == IInv /\ LInv /\ RInv => BlocksCanBeRead
<1> SUFFICES ASSUME IInv, LInv, RInv, Running
             PROVE  LET blocks == chain.block_by_hash.map
                        outputs == chain.output_by_hash.map
                    IN  /\ \A lsn \in Lsns : block(chain, disk, lsn) = blocks[lsn]
                        /\ \A k \in Utxos : outputs[k] # NoValue => k \in blocks[outputs[k]].outs
  BY DEF BlocksCanBeRead
<1> DEFINE m == disk.macros
           u == disk.micros
           base == Top(m)
           x == Ref(base, u, Len(u))
<1>1. /\ GoodDisk(m, u, disk.snapshot) /\ GoodChain(chain, m, u, disk.snapshot)
      /\ IsBase(base) /\ IsMicros(u) /\ Tracks(chain, base, u) /\ chain.cache = base.cache
  BY ChainGrows DEF Grows, GoodChain
<1>2. chain.epoch = Len(m) /\ base.epoch = Len(m) /\ IsMacros(m) /\ IsSeq(m) /\ IsSeq(u)
  BY <1>1, EpochIsLen DEF GoodDisk, IsMacros, IsMicros
<1>3. /\ Located(base, m, <<>>) /\ Len(u) <= MicroBlocksInEpoch
      /\ Len(u) # 0 => Len(m) <= MaxEpoch
  BY DEF RInv, ReadGood, LInv, LedgerGood
<1>4. DOMAIN m = 1 .. Len(m) /\ DOMAIN u = 1 .. Len(u) /\ Len(m) \in Nat
  BY <1>2, SeqFacts
<1>5. disk.macros = m /\ disk.micros = u
  OBVIOUS
<1> HIDE DEF m, u, base
<1>6. Located(x, m, u)
  BY <1>1, <1>2, <1>3, LocateRef
<1>7. Same(chain, x)
  BY <1>1, TrackFacts
<1> HIDE DEF x
<1>8. /\ PlacedIn(chain.block_by_hash.map, m, u)
      /\ FoundIn(chain.output_by_hash.map, chain.block_by_hash.map, LSN(Len(m), Len(u)))
  BY <1>6, <1>7 DEF Located, Same, SameMaps
<1>9. LastOf(chain.cache, m, Len(m))
  <2>1. Len(m) \in 0 .. Len(m)
    BY <1>4
  <2> QED BY <1>1, <1>2, <2>1, CacheOfChain DEF Top, base
<1>10. ASSUME NEW lsn \in Lsns PROVE block(chain, disk, lsn) = BlockAt(m, u, lsn)
  <2> DEFINE e == EpochOf(lsn)
             o == OffsetOf(lsn)
             cached == get_block_cached(chain, e)
  <2>1. e \in Nat
    BY LsnsAreNats, LsnParts
  <2>2. block(chain, disk, lsn)
          = IF o = MACRO_BLOCK_OFFSET
            THEN IF cached # NoValue THEN cached
                 ELSE IF e + 1 \in DOMAIN m THEN m[e + 1] ELSE NoValue
            ELSE IF e = Len(m) /\ o + 1 \in DOMAIN u THEN u[o + 1] ELSE NoValue
    BY <1>5 DEF block, EpochOf, OffsetOf
  <2>3. BlockAt(m, u, lsn)
          = IF o = MACRO_BLOCK_OFFSET
            THEN IF e + 1 \in 1 .. Len(m) THEN m[e + 1] ELSE NoValue
            ELSE IF e = Len(m) /\ o + 1 \in 1 .. Len(u) THEN u[o + 1] ELSE NoValue
    BY DEF BlockAt
  <2> HIDE DEF e, o
  <2>4. cached = NoValue \/ (e + 1 \in 1 .. Len(m) /\ cached = m[e + 1])
    BY <1>2, <1>9, <2>1, CacheReads
  <2> HIDE DEF cached
  <2> QED BY <1>4, <2>2, <2>3, <2>4
<1>11. \A lsn \in Lsns : block(chain, disk, lsn) = chain.block_by_hash.map[lsn]
  BY <1>8, <1>10 DEF PlacedIn
<1> QED BY <1>8, <1>11 DEF FoundIn

\* BlocksCanBeRead: after any pushes, pops, macro blocks and restarts block() finds
\* every block that the chain has, in the cache or in the database, and nothing
\* else, and every output that is not spent is found in a block that creates it.
THEOREM BlocksAreRead == Spec => []BlocksCanBeRead
<1>1. IInv /\ LInv /\ RInv /\ [Next]_vars => (IInv /\ LInv /\ RInv)'
  BY NextIInv, NextLInv, NextRInv
<1>2. Init => IInv /\ LInv /\ RInv
  BY InitIInv, InitLInv, InitRInv
<1> QED BY <1>1, <1>2, ReadFollows, PTL DEF Spec

-----------------------------------------------------------------------------
(* The activity of the leaders *)

LEMMA SkippedMap ==
    ASSUME NEW c, NEW lsn \in Int, IsChain(c, lsn), NEW b, b.view_change \in Nat
    PROVE  FailSkipped(c, lsn, b).map =
              [v \in Validators |->
                  IF v \in {select_leader(ElectionResult(c), vc) : vc \in 0 .. b.view_change - 1}
                  THEN Failed ELSE c.epoch_activity.map[v]]
<1> DEFINE n == b.view_change
           L(i) == select_leader(ElectionResult(c), i)
           old == c.epoch_activity.map
           Later(k) == [v \in Validators |-> IF v \in {L(i) : i \in 0 .. k - 1} THEN Failed ELSE old[v]]
<1>1. PICK g : SkipRun(g, c, lsn, n) /\ FailSkipped(c, lsn, b) = g[n]
  BY FailSkippedIsRun
<1>2. n \in Nat
  OBVIOUS
<1> HIDE DEF n, L
<1>3. g[0] = c.epoch_activity /\ \A i \in 1 .. n : g[i].map = [g[i - 1].map EXCEPT ![L(i - 1)] = Failed]
  <2>1. Skips(g, c, lsn, n)
    BY <1>1, <1>2, SkipRunWrites
  <2> QED BY <2>1 DEF Skips, L
<1>4. old = [v \in Validators |-> old[v]]
  BY ChainFacts DEF Ready, IsMap
<1> HIDE DEF old
<1> DEFINE T == {k \in Nat : k <= n => g[k].map = Later(k)}
<1>5. 0 \in T
  <2>1. {L(i) : i \in 0 .. 0 - 1} = {}
    OBVIOUS
  <2>2. g[0].map = old
    BY <1>3 DEF old
  <2> QED BY <1>4, <2>1, <2>2
<1>6. ASSUME NEW k \in Nat, k \in T PROVE k + 1 \in T
  <2> SUFFICES ASSUME k + 1 <= n PROVE g[k + 1].map = Later(k + 1)
    OBVIOUS
  <2>1. k + 1 \in 1 .. n /\ (k + 1) - 1 = k /\ k <= n
    BY <1>2
  <2>2. g[k + 1].map = [Later(k) EXCEPT ![L(k)] = Failed]
    BY <1>3, <1>6, <2>1
  <2>3. \A v : v \in {L(i) : i \in 0 .. (k + 1) - 1} <=> v = L(k) \/ v \in {L(i) : i \in 0 .. k - 1}
    <3>1. 0 .. (k + 1) - 1 = (0 .. k - 1) \cup {k}
      OBVIOUS
    <3> QED BY <3>1
  <2> QED BY <2>2, <2>3
<1>7. Nat \subseteq T
  <2> HIDE DEF T
  <2> QED BY <1>5, <1>6, NumberInduction
<1>8. g[n].map = Later(n)
  BY <1>2, <1>7
<1> QED BY <1>1, <1>8 DEF n, L, old

\* Who was skipped has failed, and who was not and made a block is active.
Judged(map, skipped, leaders) ==
    map = [v \in Validators |-> IF v \in skipped THEN Failed
                                ELSE IF v \in leaders THEN Active ELSE NoValue]

LEMMA JudgeStep ==
    ASSUME NEW c, NEW lsn \in Int, IsChain(c, lsn), NEW b, b.view_change \in Nat,
           b.cheater = NoValidator, NEW S, NEW M, Judged(c.epoch_activity.map, S, M)
    PROVE  LET e == ElectionResult(c)
           IN  Judged(ActivityAfter(c, lsn, b),
                      S \cup {select_leader(e, vc) : vc \in 0 .. b.view_change - 1},
                      M \cup {select_leader(e, b.view_change)})
<1> DEFINE e == ElectionResult(c)
           N == {select_leader(e, vc) : vc \in 0 .. b.view_change - 1}
           leader == select_leader(e, b.view_change)
           a == FailSkipped(c, lsn, b)
           old == c.epoch_activity.map
           p == IF a.map[leader] # NoValue THEN a ELSE insert(a, lsn, leader, Active)
           r == ActivityAfter(c, lsn, b)
<1>1. slash(c, lsn, b.cheater) = c
  BY DEF slash
<1>2. UpdateActivity(c, lsn, b) = [c EXCEPT !.epoch_activity = p]
  BY DEF UpdateActivity
<1>3. a.map = [v \in Validators |-> IF v \in N THEN Failed ELSE old[v]]
  BY SkippedMap
<1>4. Wrote(c.epoch_activity, a, Validators, lsn) /\ IsRecord(c)
  BY FailSkippedFacts DEF IsChain
<1> HIDE DEF N, leader, a
<1>5. insert(a, lsn, leader, Active).map = [a.map EXCEPT ![leader] = Active]
  <2>1. Ready(a, Validators, lsn)
    BY <1>4, WroteReady
  <2> QED BY <2>1, InsertWrites
<1> HIDE DEF p
<1>6. r = p.map
  BY <1>1, <1>2, <1>4 DEF ActivityAfter, IsRecord, Fields, MapNames
<1>7. r = IF a.map[leader] # NoValue THEN a.map ELSE [a.map EXCEPT ![leader] = Active]
  BY <1>5, <1>6 DEF p
<1>8. old = [v \in Validators |-> IF v \in S THEN Failed ELSE IF v \in M THEN Active ELSE NoValue]
  BY DEF Judged
<1>9. Active # NoValue /\ Failed # NoValue
  BY ActivityAssumption
<1> HIDE DEF r, old
<1>10. r = [v \in Validators |-> r[v]]
  BY <1>3, <1>7
<1>11. ASSUME NEW v \in Validators
       PROVE  r[v] = IF v \in S \cup N THEN Failed ELSE IF v \in M \cup {leader} THEN Active ELSE NoValue
  BY <1>3, <1>7, <1>8, <1>9
<1>12. Judged(r, S \cup N, M \cup {leader})
  BY <1>10, <1>11 DEF Judged
<1> QED BY <1>12 DEF r, N, leader

\* E has the election result by which every block of s was judged.
SkippedIn(E, s, n) == UNION {{select_leader(E[i], vc) : vc \in 0 .. s[i].view_change - 1} : i \in 1 .. n}
LeadersIn(E, s, n) == {select_leader(E[i], s[i].view_change) : i \in 1 .. n}

LEMMA JudgeRef ==
    ASSUME NEW base, IsBase(base), NEW u, IsMicros(u),
           base.epoch_activity.map = [v \in Validators |-> NoValue],
           \A i \in 1 .. Len(u) : u[i].cheater = NoValidator,
           NEW E, \A i \in 1 .. Len(u) : E[i] = ElectionResult(Ref(base, u, i - 1))
    PROVE  Judged(Ref(base, u, Len(u)).epoch_activity.map,
                  SkippedIn(E, u, Len(u)), LeadersIn(E, u, Len(u)))
<1> DEFINE n == Len(u)
           x(o) == Ref(base, u, o)
           S(o) == SkippedIn(E, u, o)
           M(o) == LeadersIn(E, u, o)
<1>1. IsSeq(u) /\ n \in Nat
  BY SeqFacts DEF IsMicros
<1>2. \A o \in 0 .. n : RefOK(x(o), base, o)
  BY RefFacts
<1>3. /\ x(0) = base
      /\ \A o \in 0 .. n - 1 : x(o + 1) = register_micro_block(x(o), u[o + 1])
  <2>1. Unrolls(base, u)
    BY <1>1, RefUnroll
  <2> QED BY <2>1 DEF Unrolls
<1>4. \A i \in 1 .. n : IsMicro(u[i]) /\ u[i].cheater = NoValidator /\ E[i] = ElectionResult(x(i - 1))
  BY DEF IsMicros
<1> HIDE DEF x
<1>5. S(0) = {} /\ M(0) = {}
  BY DEF SkippedIn, LeadersIn
<1>6. ASSUME NEW o \in Nat
      PROVE  /\ S(o + 1) = S(o) \cup {select_leader(E[o + 1], vc) : vc \in 0 .. u[o + 1].view_change - 1}
             /\ M(o + 1) = M(o) \cup {select_leader(E[o + 1], u[o + 1].view_change)}
  <2>1. 1 .. o + 1 = (1 .. o) \cup {o + 1}
    OBVIOUS
  <2> DEFINE F(i) == {select_leader(E[i], vc) : vc \in 0 .. u[i].view_change - 1}
             G(i) == select_leader(E[i], u[i].view_change)
  <2>2. \A k : S(k) = UNION {F(i) : i \in 1 .. k} /\ M(k) = {G(i) : i \in 1 .. k}
    BY DEF SkippedIn, LeadersIn
  <2> HIDE DEF F, G, S, M
  <2>3. S(o + 1) = S(o) \cup F(o + 1) /\ M(o + 1) = M(o) \cup {G(o + 1)}
    BY <2>1, <2>2
  <2> QED BY <2>3 DEF F, G
<1> HIDE DEF S, M, n
<1> DEFINE T == {o \in Nat : o <= n => Judged(x(o).epoch_activity.map, S(o), M(o))}
<1>7. 0 \in T
  BY <1>3, <1>5 DEF Judged
<1>8. ASSUME NEW o \in Nat, o \in T PROVE o + 1 \in T
  <2> SUFFICES ASSUME o + 1 <= n PROVE Judged(x(o + 1).epoch_activity.map, S(o + 1), M(o + 1))
    OBVIOUS
  <2> DEFINE b == u[o + 1]
             c == x(o)
             lsn == LSN(base.epoch, o)
             e == ElectionResult(c)
  <2>1. o \in 0 .. n /\ o \in 0 .. n - 1 /\ o + 1 \in 1 .. n /\ (o + 1) - 1 = o
    BY <1>1
  <2>2. Judged(c.epoch_activity.map, S(o), M(o))
    BY <1>1, <1>8
  <2>3. AtEnd(c, lsn) /\ lsn \in Int /\ IsChain(c, lsn)
    BY <1>2, <2>1 DEF RefOK, AtEnd
  <2>4. IsMicro(b) /\ b.view_change \in Nat /\ b.cheater = NoValidator /\ E[o + 1] = e
    BY <1>4, <2>1 DEF IsMicro
  <2> HIDE DEF b, c, lsn
  <2>5. AfterMicro(c, register_micro_block(c, b), lsn, b)
    BY <2>3, <2>4, MicroFacts
  <2>6. x(o + 1).epoch_activity.map = ActivityAfter(c, lsn, b)
    BY <1>3, <2>1, <2>5 DEF AfterMicro, b, c
  <2>7. Judged(ActivityAfter(c, lsn, b),
               S(o) \cup {select_leader(e, vc) : vc \in 0 .. b.view_change - 1},
               M(o) \cup {select_leader(e, b.view_change)})
    BY <2>2, <2>3, <2>4, JudgeStep
  <2>8. /\ S(o + 1) = S(o) \cup {select_leader(e, vc) : vc \in 0 .. b.view_change - 1}
        /\ M(o + 1) = M(o) \cup {select_leader(e, b.view_change)}
    <3>1. /\ S(o + 1) = S(o) \cup {select_leader(E[o + 1], vc) : vc \in 0 .. u[o + 1].view_change - 1}
          /\ M(o + 1) = M(o) \cup {select_leader(E[o + 1], u[o + 1].view_change)}
      BY <1>6
    <3>2. E[o + 1] = e /\ u[o + 1] = b
      BY <2>4 DEF b
    <3> HIDE DEF e
    <3> QED BY <3>1, <3>2
  <2> QED BY <2>6, <2>7, <2>8
<1>9. Nat \subseteq T
  <2> HIDE DEF T
  <2> QED BY <1>7, <1>8, NumberInduction
<1>10. Judged(x(n).epoch_activity.map, S(n), M(n))
  BY <1>1, <1>9
<1> QED BY <1>10 DEF x, S, M, n

\* An epoch begins without activity.
LEMMA FreshActivity ==
    ASSUME NEW m, NEW u, NEW s, GoodDisk(m, u, s)
    PROVE  Top(m).epoch_activity.map = [v \in Validators |-> NoValue]
<1>1. Len(m) \in Nat /\ Len(m) \in 1 .. Len(m)
  BY SeqFacts DEF GoodDisk, IsMacros
<1>2. IsGrown(Top(m))
  BY <1>1, GrownFacts DEF GoodDisk, Top
<1> QED BY <1>2 DEF IsGrown, new

LEMMA ActivityFollows == IInv => ActivityOfLeaders
<1> DEFINE LeaderAt(i, vc) == select_leader(election_result_by_offset(chain, i - 1), vc)
           blocks == DOMAIN disk.micros
           skipped == UNION {{LeaderAt(i, vc) : vc \in 0 .. disk.micros[i].view_change - 1} : i \in blocks}
           leaders == {LeaderAt(i, disk.micros[i].view_change) : i \in blocks}
<1> SUFFICES ASSUME IInv, Running, \A b \in ToSet(disk.micros) : b.cheater = NoValidator
             PROVE  Judged(chain.epoch_activity.map, skipped, leaders)
  BY DEF ActivityOfLeaders, Judged
<1> DEFINE m == disk.macros
           u == disk.micros
           n == Len(u)
           base == Top(m)
           E == [i \in 1 .. n |-> election_result_by_offset(chain, i - 1)]
<1>1. /\ GoodDisk(m, u, disk.snapshot) /\ GoodChain(chain, m, u, disk.snapshot)
  BY DEF IInv
<1>2. \A i \in DOMAIN u : u[i].cheater = NoValidator
  BY DEF ToSet
<1> HIDE DEF m
<1>3. /\ IsBase(base) /\ IsMicros(u) /\ IsSeq(u) /\ Tracks(chain, base, u)
  BY <1>1, TopFacts DEF GoodDisk, GoodChain, IsMicros
<1>4. base.epoch_activity.map = [v \in Validators |-> NoValue]
  BY <1>1, FreshActivity
<1>5. DOMAIN u = 1 .. n /\ n \in Nat
  BY <1>3, SeqFacts
<1>6. skipped = SkippedIn(E, u, n) /\ leaders = LeadersIn(E, u, n)
  <2>1. \A i \in 1 .. n : E[i] = election_result_by_offset(chain, i - 1)
    OBVIOUS
  <2> HIDE DEF E, n
  <2> QED BY <1>5, <2>1 DEF SkippedIn, LeadersIn
<1> HIDE DEF base, n, E
<1>7. ASSUME NEW i \in 1 .. n PROVE E[i] = ElectionResult(Ref(base, u, i - 1))
  <2> DEFINE o == i - 1
             lsn == PreviousLsn(base.epoch, o)
             p == Past(chain, lsn, o)
  <2>1. o \in Nat /\ o <= Len(u)
    BY <1>5 DEF n
  <2>2. IsPast(chain, p, lsn) /\ \A f \in MapNames : p[f].map = Ref(base, u, o)[f].map
    BY <1>3, <2>1, TrackPast
  <2> HIDE DEF p
  <2>3. p.election_result = rollback_to_lsn(chain.election_result, lsn)
        /\ p.election_result.map = Ref(base, u, o).election_result.map
    BY <2>2 DEF IsPast, MapNames
  <2>4. chain.epoch = base.epoch
    BY <1>3 DEF Tracks
  <2> QED BY <2>3, <2>4 DEF E, election_result_by_offset, ElectionResult
<1>8. Judged(Ref(base, u, n).epoch_activity.map, SkippedIn(E, u, n), LeadersIn(E, u, n))
  BY <1>2, <1>3, <1>4, <1>5, <1>7, JudgeRef DEF n
<1>9. chain.epoch_activity.map = Ref(base, u, n).epoch_activity.map
  BY <1>3, TrackFacts DEF Same, SameMaps, n
<1> QED BY <1>6, <1>8, <1>9

\* ActivityOfLeaders: unless a cheater was punished in the epoch, the activity that
\* awards are made from is that of the leaders of its blocks, judged by the election
\* results that the node rolls back to, also after pops, view changes and restarts.
THEOREM LeadersActivity == Spec => []ActivityOfLeaders
  BY Invariance, ActivityFollows, PTL

-----------------------------------------------------------------------------
(* The types of maps *)

LEMMA TypedFields ==
    ASSUME NEW K, NEW V, NEW m \in VersionedMap(K, V)
    PROVE  /\ m.map \in [K -> V \cup {NoValue}] /\ m.checkpoint_lsn \in Lsns
           /\ m.undo \in Seq([lsn : Lsns, key : K, value : V \cup {NoValue}])
  BY DEF VersionedMap

LEMMA TypedNew ==
    ASSUME NEW K, NEW V
    PROVE  new(K) \in VersionedMap(K, V)
<1>1. 0 \in Lsns
  BY LsnBound, BlockchainAssumption DEF LSN
<1> QED BY <1>1 DEF VersionedMap, new

LEMMA TypedWrite ==
    ASSUME NEW K, NEW V, NEW m \in VersionedMap(K, V), NEW lsn \in Lsns, NEW k \in K
    PROVE  /\ \A v \in V \cup {NoValue} : insert(m, lsn, k, v) \in VersionedMap(K, V)
           /\ remove(m, lsn, k) \in VersionedMap(K, V)
<1> DEFINE W == V \cup {NoValue}
           U == [lsn : Lsns, key : K, value : W]
<1>1. m.map \in [K -> W] /\ m.undo \in Seq(U) /\ m.checkpoint_lsn \in Lsns /\ NoValue \in W
  BY TypedFields
<1>2. VersionedMap(K, V) = [map : [K -> W], undo : Seq(U), checkpoint_lsn : Lsns]
  BY DEF VersionedMap
<1>3. \A v \in W : Undo(lsn, k, v) \in U
  BY DEF Undo
<1> HIDE DEF W, U
<1>4. Undo(lsn, k, NoValue) \in U /\ Undo(lsn, k, m.map[k]) \in U
  BY <1>1, <1>3
<1>5. /\ Append(m.undo, Undo(lsn, k, NoValue)) \in Seq(U)
      /\ Append(m.undo, Undo(lsn, k, m.map[k])) \in Seq(U)
      /\ Append(Append(m.undo, Undo(lsn, k, m.map[k])), Undo(lsn, k, NoValue)) \in Seq(U)
  BY <1>1, <1>4
<1>6. \A v \in W : [m.map EXCEPT ![k] = v] \in [K -> W]
  BY <1>1
<1>7. ASSUME NEW v \in W PROVE insert(m, lsn, k, v) \in VersionedMap(K, V)
  BY <1>1, <1>2, <1>5, <1>6 DEF insert
<1>8. remove(m, lsn, k) \in VersionedMap(K, V)
  BY <1>1, <1>2, <1>5, <1>6 DEF remove
<1> QED BY <1>7, <1>8 DEF W

LEMMA TypedCheckpoint ==
    ASSUME NEW K, NEW V, NEW m \in VersionedMap(K, V)
    PROVE  checkpoint(m) \in VersionedMap(K, V)
<1> DEFINE U == [lsn : Lsns, key : K, value : V \cup {NoValue}]
<1>1. m.map \in [K -> V \cup {NoValue}] /\ m.undo \in Seq(U) /\ m.checkpoint_lsn \in Lsns
  BY TypedFields
<1>2. m.undo # <<>> => m.undo[Len(m.undo)] \in U
  <2> HIDE DEF U
  <2> QED BY <1>1, SeqElements
<1>3. current_lsn(m) \in Lsns
  BY <1>1, <1>2 DEF current_lsn
<1> QED BY <1>1, <1>3 DEF checkpoint, VersionedMap

LEMMA TypedRollback ==
    ASSUME NEW K, NEW V, NEW m \in VersionedMap(K, V), NEW lsn \in Int
    PROVE  rollback_to_lsn(m, lsn) \in VersionedMap(K, V)
<1> DEFINE W == V \cup {NoValue}
           U == [lsn : Lsns, key : K, value : W]
           N == Newer(m, lsn)
           n == Kept(m, lsn)
<1>1. m.map \in [K -> W] /\ m.undo \in Seq(U) /\ m.checkpoint_lsn \in Lsns
  BY TypedFields
<1>2. N \subseteq 1 .. Len(m.undo) /\ DOMAIN m.undo = 1 .. Len(m.undo) /\ Len(m.undo) \in Nat
  BY <1>1 DEF Newer
<1>3. ASSUME NEW k \in K PROVE Without(m, N)[k] \in W
  <2> DEFINE mine == {i \in N : m.undo[i].key = k}
  <2>1. CASE mine = {}
    BY <1>1, <2>1 DEF Without
  <2>2. CASE mine # {}
    <3>1. mine \subseteq Nat /\ mine \subseteq 1 .. Len(m.undo)
      BY <1>2
    <3> HIDE DEF mine
    <3>2. Min(mine) \in mine
      BY <2>2, <3>1, MinExists
    <3>3. m.undo[Min(mine)] \in U
      <4> HIDE DEF U
      <4> QED BY <1>1, <3>1, <3>2, SeqElements
    <3>4. Without(m, N)[k] = m.undo[Min(mine)].value
      BY <1>1, <2>2 DEF Without, mine
    <3> QED BY <3>3, <3>4
  <2> QED BY <2>1, <2>2
<1>4. Without(m, N) \in [K -> W]
  <2>1. Without(m, N) = [k \in K |-> Without(m, N)[k]]
    BY <1>1 DEF Without
  <2> QED BY <1>3, <2>1
<1>5. n \in 0 .. Len(m.undo)
  <2> DEFINE S == {0} \cup (DOMAIN m.undo \ N)
  <2>1. S \subseteq 0 .. Len(m.undo) /\ S # {}
    BY <1>2
  <2> HIDE DEF S, N
  <2>2. IsFiniteSet(S) /\ S \in SUBSET Nat
    <3>1. IsFiniteSet(0 .. Len(m.undo)) /\ 0 .. Len(m.undo) \subseteq Nat
      BY <1>2, FS_Interval
    <3> QED BY <2>1, <3>1, FS_Subset
  <2>3. Max(S) \in S
    BY <2>1, <2>2, MaxExists
  <2> QED BY <2>1, <2>3 DEF Kept, S, N
<1>6. SubSeq(m.undo, 1, n) \in Seq(U)
  <2> HIDE DEF n, U
  <2> QED BY <1>1, <1>5, SeqElements
<1> QED BY <1>1, <1>4, <1>6 DEF rollback_to_lsn, VersionedMap

\* InsertAll and RemoveAll of keys K and values V.
LEMMA TypedInsertAll ==
    ASSUME NEW K, NEW V, NEW m \in VersionedMap(K, V), NEW lsn \in Lsns, NEW contents,
           Given(contents) \subseteq K, IsFiniteSet(Given(contents)),
           \A k \in Given(contents) : contents[k] \in V
    PROVE  InsertAll(m, lsn, contents) \in VersionedMap(K, V)
<1> DEFINE I == Given(contents)
           S == VersionedMap(K, V)
           D == [k \in I |-> [q \in S |-> insert(q, lsn, k, contents[k])]]
           ch == [s \in SUBSET I |-> Pick(s)]
           g == CHOOSE h : IsInserting(h, I, m, lsn, contents)
<1>1. \A s \in SUBSET I : s # {} => Pick(s) \in s
  BY DEF Pick
<1>2. \A q \in S, k \in I : insert(q, lsn, k, contents[k]) \in S
  BY TypedWrite
<1>3. IsFiniteSet(I) /\ m \in S
  OBVIOUS
<1> HIDE DEF I, S
<1>4. \E f : IsInserting(f, I, m, lsn, contents)
  <2>1. D \in [I -> [S -> S]]
    BY <1>2
  <2>2. \A s \in SUBSET I : s # {} => ch[s] \in s
    BY <1>1
  <2>3. PICK f : f \in [SUBSET I -> S] /\ IsFold(f, I, m, D, ch)
    <3> HIDE DEF D, ch, g
    <3>1. CanFold(I, S, m, D, ch)
      BY <1>3, <2>1, <2>2 DEF CanFold
    <3> QED BY <3>1, FoldExists
  <2>4. \A s \in SUBSET I : f[s] = IF s = {} THEN m ELSE D[ch[s]][f[s \ {ch[s]}]]
    <3> HIDE DEF D, ch, g
    <3> QED BY <2>3 DEF IsFold
  <2>5. ASSUME NEW s \in SUBSET I, s # {}
        PROVE  D[ch[s]][f[s \ {ch[s]}]]
                 = insert(f[s \ {Pick(s)}], lsn, Pick(s), contents[Pick(s)])
    <3>1. ch[s] = Pick(s) /\ Pick(s) \in I /\ s \ {Pick(s)} \in SUBSET I
      BY <1>1, <2>5
    <3>2. f[s \ {Pick(s)}] \in S
      BY <2>3, <3>1
    <3> QED BY <3>1, <3>2
  <2> HIDE DEF D, ch
  <2>6. \A s \in SUBSET I : f[s] = IF s = {} THEN m
            ELSE insert(f[s \ {Pick(s)}], lsn, Pick(s), contents[Pick(s)])
    BY <2>4, <2>5
  <2>7. f = [s \in SUBSET I |-> f[s]]
    BY <2>3
  <2> QED BY <2>6, <2>7 DEF IsInserting
<1>5. IsInserting(g, I, m, lsn, contents)
  BY <1>4
<1> HIDE DEF g
<1>6. /\ g[{}] = m
      /\ \A s \in SUBSET I : s # {} =>
            g[s] = insert(g[s \ {Pick(s)}], lsn, Pick(s), contents[Pick(s)])
  BY <1>5 DEF IsInserting
<1> DEFINE T == {s \in SUBSET I : g[s] \in S}
<1>7. ASSUME NEW s \in SUBSET I, s # {}, \A x \in s : s \ {x} \in T PROVE s \in T
  <2>1. Pick(s) \in s /\ Pick(s) \in I /\ s \ {Pick(s)} \in T
    BY <1>1, <1>7
  <2>2. g[s \ {Pick(s)}] \in S
    BY <2>1
  <2>3. g[s] \in S
    BY <1>2, <1>6, <1>7, <2>1, <2>2
  <2> QED BY <2>3
<1>8. {} \in T
  BY <1>3, <1>6
<1>9. SUBSET I \subseteq T
  <2> HIDE DEF T
  <2> QED BY <1>3, <1>7, <1>8, SetInduction
<1>10. InsertAll(m, lsn, contents) = g[I]
  BY InsertAllIsFold DEF g, I
<1>11. I \in T
  <2> HIDE DEF T
  <2> QED BY <1>9
<1> QED BY <1>10, <1>11 DEF S

LEMMA TypedRemoveAll ==
    ASSUME NEW K, NEW V, NEW m \in VersionedMap(K, V), NEW lsn \in Lsns,
           NEW I, I \subseteq K, IsFiniteSet(I)
    PROVE  RemoveAll(m, lsn, I) \in VersionedMap(K, V)
<1> DEFINE S == VersionedMap(K, V)
           D == [k \in I |-> [q \in S |-> remove(q, lsn, k)]]
           ch == [s \in SUBSET I |-> Pick(s)]
           g == CHOOSE h : IsRemoving(h, I, m, lsn)
<1>1. \A s \in SUBSET I : s # {} => Pick(s) \in s
  BY DEF Pick
<1>2. \A q \in S, k \in I : remove(q, lsn, k) \in S
  BY TypedWrite
<1>3. IsFiniteSet(I) /\ m \in S
  OBVIOUS
<1> HIDE DEF S
<1>4. \E f : IsRemoving(f, I, m, lsn)
  <2>1. D \in [I -> [S -> S]]
    BY <1>2
  <2>2. \A s \in SUBSET I : s # {} => ch[s] \in s
    BY <1>1
  <2>3. PICK f : f \in [SUBSET I -> S] /\ IsFold(f, I, m, D, ch)
    <3> HIDE DEF D, ch, g
    <3>1. CanFold(I, S, m, D, ch)
      BY <1>3, <2>1, <2>2 DEF CanFold
    <3> QED BY <3>1, FoldExists
  <2>4. \A s \in SUBSET I : f[s] = IF s = {} THEN m ELSE D[ch[s]][f[s \ {ch[s]}]]
    <3> HIDE DEF D, ch, g
    <3> QED BY <2>3 DEF IsFold
  <2>5. ASSUME NEW s \in SUBSET I, s # {}
        PROVE  D[ch[s]][f[s \ {ch[s]}]]
                 = remove(f[s \ {Pick(s)}], lsn, Pick(s))
    <3>1. ch[s] = Pick(s) /\ Pick(s) \in I /\ s \ {Pick(s)} \in SUBSET I
      BY <1>1, <2>5
    <3>2. f[s \ {Pick(s)}] \in S
      BY <2>3, <3>1
    <3> QED BY <3>1, <3>2
  <2> HIDE DEF D, ch
  <2>6. \A s \in SUBSET I : f[s] = IF s = {} THEN m
            ELSE remove(f[s \ {Pick(s)}], lsn, Pick(s))
    BY <2>4, <2>5
  <2>7. f = [s \in SUBSET I |-> f[s]]
    BY <2>3
  <2> QED BY <2>6, <2>7 DEF IsRemoving
<1>5. IsRemoving(g, I, m, lsn)
  BY <1>4
<1> HIDE DEF g
<1>6. /\ g[{}] = m
      /\ \A s \in SUBSET I : s # {} =>
            g[s] = remove(g[s \ {Pick(s)}], lsn, Pick(s))
  BY <1>5 DEF IsRemoving
<1> DEFINE T == {s \in SUBSET I : g[s] \in S}
<1>7. ASSUME NEW s \in SUBSET I, s # {}, \A x \in s : s \ {x} \in T PROVE s \in T
  <2>1. Pick(s) \in s /\ Pick(s) \in I /\ s \ {Pick(s)} \in T
    BY <1>1, <1>7
  <2>2. g[s \ {Pick(s)}] \in S
    BY <2>1
  <2>3. g[s] \in S
    BY <1>2, <1>6, <1>7, <2>1, <2>2
  <2> QED BY <2>3
<1>8. {} \in T
  BY <1>3, <1>6
<1>9. SUBSET I \subseteq T
  <2> HIDE DEF T
  <2> QED BY <1>3, <1>7, <1>8, SetInduction
<1>10. RemoveAll(m, lsn, I) = g[I]
  BY RemoveAllIsFold DEF g
<1>11. I \in T
  <2> HIDE DEF T
  <2> QED BY <1>9
<1> QED BY <1>10, <1>11 DEF S

-----------------------------------------------------------------------------
(* The types of chains *)

ValuesOf ==
    [block_by_hash |-> Blocks, output_by_hash |-> Lsns, balance |-> Nat,
     escrow |-> Nat, election_result |-> ElectionResults,
     epoch_activity |-> {Active, Failed}]

TypedMaps(c) == \A f \in MapNames : c[f] \in VersionedMap(KeysOf[f], ValuesOf[f])

\* Somebody can be drawn as a leader.
HasLeaders(e) == e \in ElectionResults /\ Members(e.validators) # {}

IsTyped(c) ==
    /\ TypedMaps(c) /\ c.epoch \in 0 .. MaxEpoch /\ c.offset \in 0 .. MicroBlocksInEpoch
    /\ c.view_change_proof \in BOOLEAN /\ c.awards \in AwardsType
    /\ c.cache \in Seq(MacroBlock \cup {Genesis})
    /\ c.balance.map[Unit] \in Nat

TypedChain(c) == IsTyped(c) /\ HasLeaders(ElectionResult(c))

LEMMA TypedMapsFacts ==
    ASSUME NEW c
    PROVE  TypedMaps(c) <=>
              /\ c.block_by_hash \in VersionedMap(Lsns, Blocks)
              /\ c.output_by_hash \in VersionedMap(Utxos, Lsns)
              /\ c.balance \in VersionedMap({Unit}, Nat)
              /\ c.escrow \in VersionedMap(Utxos, Nat)
              /\ c.election_result \in VersionedMap({Unit}, ElectionResults)
              /\ c.epoch_activity \in VersionedMap(Validators, {Active, Failed})
<1>1. /\ ValuesOf["block_by_hash"] = Blocks /\ ValuesOf["output_by_hash"] = Lsns
      /\ ValuesOf["balance"] = Nat /\ ValuesOf["escrow"] = Nat
      /\ ValuesOf["election_result"] = ElectionResults
      /\ ValuesOf["epoch_activity"] = {Active, Failed}
  BY DEF ValuesOf
<1> QED BY <1>1, KeysFacts DEF TypedMaps, MapNames

LEMMA ConstantTypes ==
    /\ MicroBlocksInEpoch \in Nat \ {0} /\ MaxEpoch \in Nat \ {0} /\ StakeEpochs \in Nat
    /\ BlockReward \in Nat /\ MaxViewChange \in Nat /\ SlotCount \in Nat \ {0}
    /\ MinStake \in Nat /\ ServiceAward \in Nat /\ IsFiniteSet(Utxos)
  BY BlockchainAssumption, StakersAssumption, ElectionAssumption

LEMMA LeaderTyped ==
    ASSUME NEW e, HasLeaders(e), NEW vc \in 0 .. MaxViewChange
    PROVE  select_leader(e, vc) \in Validators
<1>1. e.validators \in [Validators -> 0 .. SlotCount] /\ e.random \in Randoms \cup {GenesisRandom}
  BY DEF HasLeaders, ElectionResults
<1>2. IsGroup(e.validators)
  BY <1>1, ConstantTypes DEF IsGroup
<1>3. generate_u64(e.random, vc) \in Nat
  <2>1. vc \in 0 .. SlotCount + MaxViewChange
    BY ConstantTypes
  <2> QED BY <1>1, <2>1, StakersAssumption
<1>4. select_leader(e, vc) \in Members(e.validators)
  BY <1>2, <1>3, WinnerIsMember DEF HasLeaders, select_leader
<1> QED BY <1>1, <1>4 DEF Members

LEMMA SlashedTyped ==
    ASSUME NEW e \in ElectionResults, NEW cheater
    PROVE  /\ Slashed(e, cheater) \in ElectionResults
           /\ Slashed(e, cheater).validators =
                IF cheater = NoValidator THEN e.validators
                ELSE [e.validators EXCEPT ![cheater] = 0]
<1>1. /\ e = [random |-> e.random, view_change |-> e.view_change, validators |-> e.validators]
      /\ e.random \in Randoms \cup {GenesisRandom} /\ e.view_change \in 0 .. MaxViewChange
      /\ e.validators \in [Validators -> 0 .. SlotCount] /\ 0 \in 0 .. SlotCount
  BY ConstantTypes DEF ElectionResults
<1>2. CASE cheater = NoValidator
  BY <1>2 DEF Slashed
<1>3. CASE cheater # NoValidator
  <2> DEFINE v == [e.validators EXCEPT ![cheater] = 0]
  <2>1. v \in [Validators -> 0 .. SlotCount]
    BY <1>1
  <2>2. Slashed(e, cheater) = [e EXCEPT !.validators = v]
    BY <1>3 DEF Slashed
  <2> HIDE DEF v
  <2>3. Slashed(e, cheater) = [random |-> e.random, view_change |-> e.view_change, validators |-> v]
    BY <1>1, <2>2
  <2> QED BY <1>1, <1>3, <2>1, <2>3 DEF ElectionResults, v
<1> QED BY <1>2, <1>3

\* What the transactions of a block write.
LEMMA MovedTyped ==
    ASSUME NEW m, NEW V, m \in VersionedMap(Utxos, V), NEW lsn \in Lsns,
           NEW ins \in SUBSET Utxos, NEW contents, DOMAIN contents \subseteq Utxos,
           \A k \in DOMAIN contents : contents[k] \in V
    PROVE  InsertAll(RemoveAll(m, lsn, ins), lsn, contents) \in VersionedMap(Utxos, V)
<1>1. Given(contents) \subseteq Utxos /\ \A k \in Given(contents) : contents[k] \in V
  BY DEF Given
<1>2. IsFiniteSet(ins) /\ IsFiniteSet(Given(contents))
  BY <1>1, ConstantTypes, FS_Subset
<1>3. RemoveAll(m, lsn, ins) \in VersionedMap(Utxos, V)
  BY <1>2, TypedRemoveAll
<1> QED BY <1>1, <1>2, <1>3, TypedInsertAll

LEMMA InputsTyped ==
    ASSUME NEW c, NEW lsn \in Lsns, IsChain(c, lsn), TypedMaps(c), c.balance.map[Unit] \in Nat,
           NEW b \in Blocks, NEW ins \in SUBSET Utxos, NEW outs \in SUBSET Utxos, NEW reward \in Nat
    PROVE  LET r == register_inputs_and_outputs(c, lsn, b, ins, outs, reward)
           IN  TypedMaps(r) /\ r.balance.map[Unit] \in Nat
<1> DEFINE r == register_inputs_and_outputs(c, lsn, b, ins, outs, reward)
           total == c.balance.map[Unit] + reward
<1>1. IsRecord(c) /\ c.epoch \in Nat /\ lsn \in Int
  BY LsnsAreNats DEF IsChain, Lsns
<1>2. /\ c.block_by_hash \in VersionedMap(Lsns, Blocks)
      /\ c.output_by_hash \in VersionedMap(Utxos, Lsns)
      /\ c.balance \in VersionedMap({Unit}, Nat)
      /\ c.escrow \in VersionedMap(Utxos, Nat)
      /\ c.election_result \in VersionedMap({Unit}, ElectionResults)
      /\ c.epoch_activity \in VersionedMap(Validators, {Active, Failed})
  BY TypedMapsFacts
<1>3. insert(c.block_by_hash, lsn, lsn, b) \in VersionedMap(Lsns, Blocks)
  BY <1>2, TypedWrite
<1>4. insert(c.balance, lsn, Unit, total) \in VersionedMap({Unit}, Nat) /\ total \in Nat
  <2>1. total \in Nat
    OBVIOUS
  <2> HIDE DEF total
  <2> QED BY <1>2, <2>1, TypedWrite
<1>5. InsertAll(RemoveAll(c.output_by_hash, lsn, ins), lsn, NewOutputs(outs, lsn))
        \in VersionedMap(Utxos, Lsns)
  BY <1>2, MovedTyped DEF NewOutputs
<1>6. InsertAll(RemoveAll(c.escrow, lsn, ins), lsn, NewStakes(outs, c.epoch))
        \in VersionedMap(Utxos, Nat)
  <2>1. c.epoch + StakeEpochs \in Nat
    BY <1>1, ConstantTypes
  <2> QED BY <1>2, <2>1, MovedTyped DEF NewStakes
<1>7. /\ r.block_by_hash = insert(c.block_by_hash, lsn, lsn, b)
      /\ r.balance = insert(c.balance, lsn, Unit, total)
      /\ r.output_by_hash = InsertAll(RemoveAll(c.output_by_hash, lsn, ins), lsn, NewOutputs(outs, lsn))
      /\ r.escrow = InsertAll(RemoveAll(c.escrow, lsn, ins), lsn, NewStakes(outs, c.epoch))
      /\ r.election_result = c.election_result /\ r.epoch_activity = c.epoch_activity
  BY <1>1 DEF register_inputs_and_outputs, IsRecord, Fields, MapNames, NewOutputs, NewStakes
<1> HIDE DEF r
<1>8. TypedMaps(r)
  BY <1>2, <1>3, <1>4, <1>5, <1>6, <1>7, TypedMapsFacts
<1>9. r.balance.map[Unit] = total
  <2>1. c.balance.map \in [{Unit} -> Nat \cup {NoValue}]
    BY <1>2, TypedFields
  <2> QED BY <1>7, <2>1 DEF insert
<1> QED BY <1>4, <1>8, <1>9 DEF r

LEMMA ElectTyped ==
    ASSUME NEW c, TypedMaps(c), NEW lsn \in Lsns, NEW e \in ElectionResults,
           NEW r, OnlyElection(c, r), r.election_result = insert(c.election_result, lsn, Unit, e)
    PROVE  TypedMaps(r) /\ r.balance = c.balance
<1>1. insert(c.election_result, lsn, Unit, e) \in VersionedMap({Unit}, ElectionResults)
  <2>1. c.election_result \in VersionedMap({Unit}, ElectionResults)
    BY TypedMapsFacts
  <2> QED BY <2>1, TypedWrite
<1>2. /\ r.block_by_hash = c.block_by_hash /\ r.output_by_hash = c.output_by_hash
      /\ r.balance = c.balance /\ r.escrow = c.escrow /\ r.epoch_activity = c.epoch_activity
  BY DEF OnlyElection, MapNames
<1> QED BY <1>1, <1>2, TypedMapsFacts

LEMMA SlashTyped ==
    ASSUME NEW c, NEW lsn \in Lsns, IsChain(c, lsn), TypedMaps(c), ElectionResult(c) \in ElectionResults,
           NEW cheater
    PROVE  TypedMaps(slash(c, lsn, cheater)) /\ slash(c, lsn, cheater).balance = c.balance
<1>1. CASE cheater = NoValidator
  BY <1>1 DEF slash
<1>2. CASE cheater # NoValidator
  <2> DEFINE e == Slashed(ElectionResult(c), cheater)
             r == slash(c, lsn, cheater)
  <2>1. e \in ElectionResults
    BY SlashedTyped
  <2>2. r.election_result = insert(c.election_result, lsn, Unit, e)
    BY <1>2 DEF slash, Slashed, IsChain, IsRecord, Fields, MapNames
  <2>3. OnlyElection(c, r)
    BY LsnsAreNats, SlashFacts
  <2> HIDE DEF e, r
  <2>4. TypedMaps(r) /\ r.balance = c.balance
    BY <2>1, <2>2, <2>3, ElectTyped
  <2> QED BY <2>4 DEF r
<1> QED BY <1>1, <1>2

LEMMA ActivityTyped ==
    ASSUME NEW c, NEW lsn \in Lsns, IsChain(c, lsn), TypedMaps(c), HasLeaders(ElectionResult(c)),
           NEW b, b.view_change \in 0 .. MaxViewChange
    PROVE  LET r == UpdateActivity(c, lsn, b) IN TypedMaps(r) /\ r.balance = c.balance
<1> DEFINE n == b.view_change
           V == VersionedMap(Validators, {Active, Failed})
           a == FailSkipped(c, lsn, b)
           leader == select_leader(ElectionResult(c), n)
           r == UpdateActivity(c, lsn, b)
<1>0. n \in Nat /\ n <= MaxViewChange /\ MaxViewChange \in Nat /\ lsn \in Int
  BY ConstantTypes, LsnsAreNats DEF Lsns
<1>1. PICK g : SkipRun(g, c, lsn, n) /\ a = g[n]
  BY <1>0, FailSkippedIsRun
<1>2. /\ g[0] = c.epoch_activity
      /\ \A k \in 1 .. n : g[k] = insert(g[k - 1], lsn, select_leader(ElectionResult(c), k - 1), Failed)
  BY <1>0, <1>1 DEF SkipRun
<1>3. c.epoch_activity \in V
  BY TypedMapsFacts
<1>4. \A q \in V, v \in Validators, x \in {Active, Failed} : insert(q, lsn, v, x) \in V
  BY TypedWrite
<1> HIDE DEF V, n, a
<1> DEFINE T == {k \in Nat : k <= n => g[k] \in V}
<1>5. 0 \in T
  BY <1>2, <1>3
<1>6. ASSUME NEW k \in Nat, k \in T PROVE k + 1 \in T
  <2> SUFFICES ASSUME k + 1 <= n PROVE g[k + 1] \in V
    OBVIOUS
  <2>1. k + 1 \in 1 .. n /\ (k + 1) - 1 = k /\ k \in 0 .. MaxViewChange /\ g[k] \in V
    BY <1>0, <1>6
  <2>2. select_leader(ElectionResult(c), k) \in Validators
    BY <2>1, LeaderTyped
  <2> QED BY <1>2, <1>4, <2>1, <2>2
<1>7. Nat \subseteq T
  <2> HIDE DEF T
  <2> QED BY <1>5, <1>6, NumberInduction
<1>8. a \in V
  BY <1>0, <1>1, <1>7
<1>9. leader \in Validators
  <2>1. n \in 0 .. MaxViewChange
    BY <1>0
  <2> QED BY <2>1, LeaderTyped
<1>10. r.epoch_activity = IF a.map[leader] # NoValue THEN a ELSE insert(a, lsn, leader, Active)
  BY DEF UpdateActivity, IsChain, IsRecord, Fields, MapNames, a, n
<1>11. \A f \in MapNames \ {"epoch_activity"} : r[f] = c[f]
  BY <1>0, ActivityFacts DEF n
<1> HIDE DEF leader, r
<1>12. r.epoch_activity \in V
  BY <1>4, <1>8, <1>9, <1>10
<1>13. /\ r.block_by_hash = c.block_by_hash /\ r.output_by_hash = c.output_by_hash
       /\ r.balance = c.balance /\ r.escrow = c.escrow /\ r.election_result = c.election_result
  BY <1>11 DEF MapNames
<1> QED BY <1>12, <1>13, TypedMapsFacts DEF V, r

\* The block b can follow when e is elected.
Led(e, b) == b \in MicroBlock /\ Members(Slashed(e, b.cheater).validators) # {}

LEMMA MicroTyped ==
    ASSUME NEW c, TypedChain(c), NEW lsn, AtEnd(c, lsn), c.offset < MicroBlocksInEpoch,
           NEW b, Led(ElectionResult(c), b)
    PROVE  TypedChain(register_micro_block(c, b))
<1> DEFINE s == slash(c, lsn, b.cheater)
           u == UpdateActivity(s, lsn, b)
           t == register_inputs_and_outputs(u, lsn, b, b.ins, b.outs, BlockReward)
           e == ElectedBy(ElectionResult(c), b)
           r == register_micro_block(c, b)
<1>0. /\ lsn \in Int /\ IsChain(c, lsn) /\ lsn = LSN(c.epoch, c.offset)
      /\ c.epoch \in Nat /\ c.epoch <= MaxEpoch /\ c.offset \in Nat /\ MicroBlocksInEpoch \in Nat
  BY ConstantTypes DEF AtEnd, TypedChain, IsTyped
<1>1. lsn \in Lsns
  BY <1>0, LsnBound
<1>2. /\ b \in MicroBlock /\ b.ins \in SUBSET Utxos /\ b.outs \in SUBSET Utxos
      /\ b.view_change \in 0 .. MaxViewChange /\ b.view_change \in Nat /\ b.random \in Randoms
      /\ b \in Blocks /\ IsMicro(b)
  BY ConstantTypes DEF Led, MicroBlock, Blocks, IsMicro
<1>3. ElectionResult(c) \in ElectionResults /\ TypedMaps(c) /\ c.balance.map[Unit] \in Nat
  BY DEF TypedChain, IsTyped, HasLeaders
<1>4. TypedMaps(s) /\ s.balance = c.balance
  BY <1>0, <1>1, <1>3, SlashTyped
<1>5. /\ Writes(c, s, lsn) /\ KeptBy(c, s) /\ s.offset = c.offset
      /\ ElectionResult(s) = Slashed(ElectionResult(c), b.cheater)
  BY <1>0, SlashFacts
<1>6. ElectionResult(s) \in ElectionResults /\ HasLeaders(ElectionResult(s))
  <2>1. Slashed(ElectionResult(c), b.cheater) \in ElectionResults
    BY <1>3, SlashedTyped
  <2> QED BY <1>5, <2>1 DEF HasLeaders, Led
<1>7. r = register_micro_block(c, b) /\ AfterMicro(c, r, lsn, b)
  BY <1>2, MicroFacts
<1> HIDE DEF s
<1>8. IsChain(s, lsn)
  BY <1>0, <1>5, WritesFacts DEF KeptBy
<1>9. TypedMaps(u) /\ u.balance = s.balance
  BY <1>1, <1>2, <1>4, <1>6, <1>8, ActivityTyped
<1>10. Writes(s, u, lsn) /\ KeptBy(s, u) /\ u.offset = s.offset
  BY <1>0, <1>2, <1>8, ActivityFacts
<1>11. IsChain(u, lsn)
  <2>1. u.epoch = c.epoch /\ u.offset = c.offset
    BY <1>5, <1>10 DEF KeptBy
  <2> HIDE DEF u
  <2> QED BY <1>0, <1>8, <1>10, <2>1, WritesFacts
<1> HIDE DEF u
<1>12. TypedMaps(t) /\ t.balance.map[Unit] \in Nat
  <2>1. u.balance.map[Unit] \in Nat /\ BlockReward \in Nat
    BY <1>3, <1>4, <1>9, ConstantTypes
  <2> QED BY <1>1, <1>2, <1>9, <1>11, <2>1, InputsTyped
<1>13. t = RegisterTransactions(c, lsn, b)
  BY DEF RegisterTransactions, u, s
<1> HIDE DEF t, r, e
<1>14. ElectionResult(t) = Slashed(ElectionResult(c), b.cheater) /\ IsRecord(t)
  <2> DEFINE q == RegisterTransactions(c, lsn, b)
  <2>1. /\ Writes(c, q, lsn) /\ KeptBy(c, q) /\ q.offset = c.offset
        /\ current_lsn(q.block_by_hash) = lsn
        /\ ElectionResult(q) = Slashed(ElectionResult(c), b.cheater)
        /\ q.block_by_hash.map = [c.block_by_hash.map EXCEPT ![lsn] = b]
        /\ q.output_by_hash.map = Moved(c.output_by_hash.map, b.ins, NewOutputs(b.outs, lsn))
        /\ q.escrow.map = Moved(c.escrow.map, b.ins, NewStakes(b.outs, c.epoch))
        /\ q.balance.map = [c.balance.map EXCEPT ![Unit] = c.balance.map[Unit] + BlockReward]
        /\ q.epoch_activity.map = ActivityAfter(c, lsn, b)
    BY <1>0, <1>2, TransactionsFacts
  <2> HIDE DEF q
  <2> QED BY <1>13, <2>1 DEF Writes, q
<1>15. e \in ElectionResults /\ HasLeaders(e)
  <2> DEFINE x == ElectionResult(t)
  <2>1. x \in ElectionResults /\ Members(x.validators) # {} /\ e = [x EXCEPT !.view_change = 0, !.random = b.random]
    BY <1>5, <1>6, <1>14 DEF HasLeaders, ElectedBy, e
  <2> HIDE DEF x
  <2>2. x = [random |-> x.random, view_change |-> x.view_change, validators |-> x.validators]
        /\ x.validators \in [Validators -> 0 .. SlotCount]
    BY <2>1 DEF ElectionResults
  <2>3. e = [random |-> b.random, view_change |-> 0, validators |-> x.validators]
    BY <2>1, <2>2
  <2>4. 0 \in 0 .. MaxViewChange
    BY ConstantTypes
  <2> QED BY <1>2, <2>1, <2>2, <2>3, <2>4 DEF HasLeaders, ElectionResults
<1>16. /\ r.election_result = insert(t.election_result, lsn, Unit, e) /\ OnlyElection(t, r)
       /\ r.view_change_proof = FALSE
  <2>1. e = [ElectionResult(t) EXCEPT !.view_change = 0, !.random = b.random]
    BY <1>14 DEF ElectedBy, e
  <2>2. r = [t EXCEPT !.offset = @ + 1, !.election_result = insert(t.election_result, lsn, Unit, e),
                      !.view_change_proof = FALSE]
    BY <1>0, <1>13, <2>1 DEF register_micro_block, r
  <2> QED BY <1>14, <2>2 DEF IsRecord, Fields, MapNames, OnlyElection
<1>17. TypedMaps(r) /\ r.balance = t.balance
  BY <1>1, <1>12, <1>15, <1>16, ElectTyped
<1>18. /\ r.epoch = c.epoch /\ r.offset = c.offset + 1 /\ r.awards = c.awards /\ r.cache = c.cache
       /\ ElectionResult(r) = e
  BY <1>7 DEF AfterMicro, KeptBy, e
<1>19. IsTyped(r)
  <2>1. /\ c.epoch \in 0 .. MaxEpoch /\ c.awards \in AwardsType
        /\ c.cache \in Seq(MacroBlock \cup {Genesis})
    BY DEF IsTyped, TypedChain
  <2>2. r.offset \in 0 .. MicroBlocksInEpoch /\ r.view_change_proof \in BOOLEAN
    <3>1. c.offset + 1 \in 0 .. MicroBlocksInEpoch
      BY <1>0
    <3> QED BY <1>16, <1>18, <3>1
  <2>3. r.balance.map[Unit] \in Nat
    BY <1>12, <1>17
  <2> QED BY <1>17, <1>18, <2>1, <2>2, <2>3 DEF IsTyped
<1> QED BY <1>15, <1>18, <1>19 DEF TypedChain, r

-----------------------------------------------------------------------------
(* The types of the chains of an epoch *)

\* Each of the micro blocks s can follow the ones before it on top of base.
LedOn(base, s) == \A i \in 1 .. Len(s) : Led(ElectionResult(Ref(base, s, i - 1)), s[i])

LEMMA LedSame ==
    ASSUME NEW d, NEW e, d.validators = e.validators, d \in ElectionResults,
           e \in ElectionResults, NEW b, Led(e, b)
    PROVE  Led(d, b)
<1> DEFINE V(x) == IF b.cheater = NoValidator THEN x.validators
                   ELSE [x.validators EXCEPT ![b.cheater] = 0]
<1>1. \A x \in ElectionResults : Slashed(x, b.cheater).validators = V(x)
  BY SlashedTyped
<1>2. V(d) = V(e)
  OBVIOUS
<1> HIDE DEF V
<1>3. Slashed(d, b.cheater).validators = Slashed(e, b.cheater).validators
  BY <1>1, <1>2
<1> QED BY <1>3 DEF Led

LEMMA SeqTyped ==
    ASSUME NEW c, NEW base, NEW s, IsBase(base), IsMicros(s), Tracks(c, base, <<>>),
           TypedChain(base), TypedChain(c), Len(s) <= MicroBlocksInEpoch, LedOn(base, s)
    PROVE  /\ \A o \in 0 .. Len(s) : TypedChain(Ref(base, s, o)) /\ TypedChain(Ref(c, s, o))
           /\ TypedChain(RegisterMicros(base, s)) /\ TypedChain(RegisterMicros(c, s))
<1> DEFINE n == Len(s)
           e == base.epoch
           R(o) == Ref(c, s, o)
           X(o) == Ref(base, s, o)
           T == {o \in Nat : o <= n => TypedChain(R(o)) /\ TypedChain(X(o))}
<1>1. n \in Nat /\ IsSeq(s) /\ MicroBlocksInEpoch \in Nat
  BY SeqFacts, ConstantTypes DEF IsMicros
<1>2. /\ R(0) = c /\ R(n) = RegisterMicros(c, s)
      /\ \A o \in 0 .. n - 1 : R(o + 1) = register_micro_block(R(o), s[o + 1])
      /\ X(0) = base /\ X(n) = RegisterMicros(base, s)
      /\ \A o \in 0 .. n - 1 : X(o + 1) = register_micro_block(X(o), s[o + 1])
  <2>1. Unrolls(c, s) /\ Unrolls(base, s)
    BY <1>1, RefUnroll
  <2> QED BY <2>1 DEF Unrolls
<1>3. 0 \in T
  BY <1>2
<1>4. ASSUME NEW o \in 0 .. n
      PROVE  /\ AtEnd(R(o), LSN(e, o)) /\ R(o).offset = o
             /\ AtEnd(X(o), LSN(e, o)) /\ X(o).offset = o
             /\ ElectionResult(R(o)).validators = ElectionResult(X(o)).validators
  <2> DEFINE t == SubSeq(s, 1, o)
  <2>1. IsMicros(t) /\ Len(t) = o /\ Begins(s, t, o) /\ IsSeq(t)
    BY <1>1, MicrosFacts, SeqFacts
  <2>2. Tracks(RegisterMicros(c, t), base, t)
    BY <2>1, TrackSeq
  <2>3. RegisterMicros(c, t) = R(o)
    BY DEF Ref
  <2> HIDE DEF t
  <2>4. Ref(base, t, o) = X(o)
    <3>1. o \in 0 .. o /\ o \in Nat
      BY <1>1
    <3> QED BY <1>1, <2>1, <3>1, RefSame
  <2> HIDE DEF R, X, n
  <2>5. Tracks(R(o), base, t)
    BY <2>2, <2>3
  <2>6. /\ AtEnd(R(o), LSN(e, o)) /\ RefOK(Ref(base, t, o), base, o)
    BY <2>1, <2>5, TrackFacts
  <2>7. R(o).offset = o /\ SameElection(R(o), Ref(base, t, o))
    BY <2>1, <2>5 DEF Tracks
  <2> QED BY <2>4, <2>6, <2>7 DEF RefOK, SameElection
<1>5. ASSUME NEW o \in Nat, o \in T PROVE o + 1 \in T
  <2> SUFFICES ASSUME o + 1 <= n PROVE TypedChain(R(o + 1)) /\ TypedChain(X(o + 1))
    OBVIOUS
  <2>1. /\ o \in 0 .. n /\ o \in 0 .. n - 1 /\ o + 1 \in 1 .. n /\ (o + 1) - 1 = o
        /\ o < MicroBlocksInEpoch
    BY <1>1
  <2>2. TypedChain(R(o)) /\ TypedChain(X(o))
    BY <1>5, <2>1
  <2>3. Led(ElectionResult(X(o)), s[o + 1])
    BY <2>1 DEF LedOn
  <2> HIDE DEF R, X, n
  <2>4. /\ AtEnd(R(o), LSN(e, o)) /\ R(o).offset = o
        /\ AtEnd(X(o), LSN(e, o)) /\ X(o).offset = o
        /\ ElectionResult(R(o)).validators = ElectionResult(X(o)).validators
    BY <1>4, <2>1
  <2>5. Led(ElectionResult(R(o)), s[o + 1])
    <3>1. ElectionResult(R(o)) \in ElectionResults /\ ElectionResult(X(o)) \in ElectionResults
      BY <2>2 DEF TypedChain, HasLeaders
    <3> QED BY <2>3, <2>4, <3>1, LedSame
  <2>6. TypedChain(register_micro_block(R(o), s[o + 1]))
    BY <2>1, <2>2, <2>4, <2>5, MicroTyped
  <2>7. TypedChain(register_micro_block(X(o), s[o + 1]))
    BY <2>1, <2>2, <2>3, <2>4, MicroTyped
  <2> QED BY <1>2, <2>1, <2>6, <2>7
<1>6. Nat \subseteq T
  <2> HIDE DEF T
  <2> QED BY <1>3, <1>5, NumberInduction
<1>7. \A o \in 0 .. n : TypedChain(R(o)) /\ TypedChain(X(o))
  BY <1>1, <1>6
<1>8. n \in 0 .. n
  BY <1>1
<1> QED BY <1>2, <1>7, <1>8

LEMMA ViewTyped ==
    ASSUME NEW c, TypedChain(c), NEW lsn, AtEnd(c, lsn), NEW vc \in 0 .. MaxViewChange,
           NEW r, ChangesView(c, r, vc), r.view_change_proof \in BOOLEAN
    PROVE  TypedChain(r)
<1> DEFINE x == ElectionResult(c)
           e == [x EXCEPT !.view_change = vc]
<1>1. /\ lsn \in Int /\ IsChain(c, lsn) /\ lsn = LSN(c.epoch, c.offset)
      /\ c.epoch \in Nat /\ c.epoch <= MaxEpoch /\ c.offset \in Nat
      /\ c.offset <= MicroBlocksInEpoch /\ MicroBlocksInEpoch \in Nat
  BY ConstantTypes DEF AtEnd, TypedChain, IsTyped
<1>2. lsn \in Lsns
  BY <1>1, LsnBound
<1>3. TypedMaps(c) /\ x \in ElectionResults /\ Members(x.validators) # {}
  BY DEF TypedChain, IsTyped, HasLeaders
<1>4. Elects(c, r, lsn, e) /\ KeptBy(c, r) /\ r.offset = c.offset
  BY <1>1 DEF ChangesView
<1> HIDE DEF x
<1>5. e \in ElectionResults /\ HasLeaders(e)
  <2>1. x = [random |-> x.random, view_change |-> x.view_change, validators |-> x.validators]
        /\ x.validators \in [Validators -> 0 .. SlotCount] /\ x.random \in Randoms \cup {GenesisRandom}
    BY <1>3 DEF ElectionResults
  <2>2. e = [random |-> x.random, view_change |-> vc, validators |-> x.validators]
    BY <2>1
  <2> QED BY <1>3, <2>1, <2>2 DEF HasLeaders, ElectionResults
<1> HIDE DEF e
<1>6. TypedMaps(r) /\ r.balance = c.balance
  BY <1>2, <1>3, <1>4, <1>5, ElectTyped DEF Elects
<1>7. /\ Writes(c, r, lsn) /\ ElectionResult(r) = e
      /\ current_lsn(r.election_result) = lsn
      /\ r.election_result.map = [c.election_result.map EXCEPT ![Unit] = e]
  BY <1>1, <1>4, ElectFacts
<1>8. IsTyped(r)
  BY <1>4, <1>6 DEF IsTyped, TypedChain, KeptBy
<1> QED BY <1>5, <1>7, <1>8 DEF TypedChain

LEMMA ViewProof ==
    ASSUME NEW c, IsRecord(c), NEW vc
    PROVE  /\ set_view_change(c, vc).view_change_proof = TRUE
           /\ reset_view_change(c).view_change_proof = FALSE
  BY DEF set_view_change, reset_view_change, IsRecord, Fields, MapNames

\* A chain of the epoch that begins with base, with the micro blocks s.
EpochTyped(base, s) ==
    /\ IsBase(base) /\ IsMicros(s) /\ TypedChain(base) /\ LedOn(base, s)
    /\ Len(s) <= MicroBlocksInEpoch

LEMMA EpochRefs ==
    ASSUME NEW base, NEW s, EpochTyped(base, s)
    PROVE  \A o \in 0 .. Len(s) : TypedChain(Ref(base, s, o))
<1>1. Tracks(base, base, <<>>)
  BY BaseTracks DEF EpochTyped, SameBase
<1> QED BY <1>1, SeqTyped DEF EpochTyped

LEMMA RollbackTyped ==
    ASSUME NEW c, NEW p, TypedMaps(c), NEW lsn \in Int,
           \A f \in MapNames : p[f] = rollback_to_lsn(c[f], lsn)
    PROVE  TypedMaps(p)
<1> SUFFICES ASSUME NEW f \in MapNames PROVE p[f] \in VersionedMap(KeysOf[f], ValuesOf[f])
  BY DEF TypedMaps
<1>1. c[f] \in VersionedMap(KeysOf[f], ValuesOf[f]) /\ p[f] = rollback_to_lsn(c[f], lsn)
  BY DEF TypedMaps
<1> QED BY <1>1, TypedRollback

LEMMA PopTyped ==
    ASSUME NEW c, NEW base, NEW s, EpochTyped(base, s), Tracks(c, base, s), TypedChain(c),
           Len(s) # 0
    PROVE  TypedChain(pop_micro_block(c))
<1> DEFINE o == Len(s) - 1
           e == base.epoch
           lsn == PreviousLsn(e, o)
           p == Past(c, lsn, o)
           x == Ref(base, s, o)
<1>1. /\ o \in Nat /\ e \in Nat /\ o <= Len(s) /\ Len(s) \in Nat /\ o \in 0 .. Len(s)
      /\ o <= MicroBlocksInEpoch /\ MicroBlocksInEpoch \in Nat
      /\ IsBase(base) /\ IsMicros(s)
  BY SeqFacts, BaseIsRef, ConstantTypes DEF IsMicros, EpochTyped
<1>2. c.epoch = e /\ c.offset = Len(s) /\ IsRecord(c)
  BY DEF Tracks, IsChain
<1>3. pop_micro_block(c) = reset_view_change(p)
  <2>1. RollbackMaps(c, lsn).offset = c.offset
    BY <1>2 DEF RollbackMaps, IsRecord, Fields, MapNames
  <2> QED BY <1>1, <1>2, <2>1 DEF pop_micro_block, Past
<1>4. /\ IsRecord(p) /\ KeptBy(c, p) /\ p.epoch = e /\ p.offset = o
      /\ lsn \in Int /\ IsPast(c, p, lsn) /\ IsChain(p, lsn)
      /\ RefOK(x, base, o) /\ VersionIs(c, lsn, x)
      /\ \A f \in MapNames : p[f].map = x[f].map
      /\ \A q \in 0 .. o : VersionIs(p, PreviousLsn(e, q), Ref(base, s, q))
  <2> HIDE DEF o
  <2> QED BY <1>1, TrackPast
<1>5. TypedChain(x)
  <2> HIDE DEF o
  <2> QED BY <1>1, EpochRefs
<1>6. p.view_change_proof = c.view_change_proof
  BY <1>2 DEF Past, RollbackMaps, IsRecord, Fields, MapNames
<1> HIDE DEF p, x, o, e, lsn
<1>7. TypedMaps(p)
  <2>1. TypedMaps(c)
    BY DEF TypedChain, IsTyped
  <2> QED BY <1>4, <2>1, RollbackTyped DEF IsPast
<1>8. ElectionResult(p) = ElectionResult(x) /\ p.balance.map = x.balance.map
  BY <1>4 DEF ElectionResult, MapNames
<1>9. TypedChain(p)
  <2>1. /\ c.epoch \in 0 .. MaxEpoch /\ c.awards \in AwardsType /\ c.view_change_proof \in BOOLEAN
        /\ c.cache \in Seq(MacroBlock \cup {Genesis})
        /\ x.balance.map[Unit] \in Nat /\ HasLeaders(ElectionResult(x))
    BY <1>5 DEF TypedChain, IsTyped
  <2>2. p.offset \in 0 .. MicroBlocksInEpoch
    BY <1>1, <1>4
  <2>3. IsTyped(p)
    BY <1>4, <1>6, <1>7, <1>8, <2>1, <2>2 DEF IsTyped, KeptBy
  <2> QED BY <1>8, <2>1, <2>3 DEF TypedChain
<1>10. AtEnd(p, LSN(e, o))
  <2>1. LSN(e, o) \in Int /\ lsn <= LSN(e, o)
    <3>1. LSN(e, o) \in Nat /\ lsn = LSN(e, o) - 1
      BY <1>1, LsnFacts DEF lsn
    <3> QED BY <3>1
  <2>2. IsChain(p, LSN(e, o))
    BY <1>4, <2>1, ReadyLater
  <2> QED BY <1>4, <2>1, <2>2 DEF AtEnd
<1>11. ChangesView(p, reset_view_change(p), 0) /\ reset_view_change(p).view_change_proof = FALSE
  BY <1>4, ViewFacts, ViewProof
<1>12. 0 \in 0 .. MaxViewChange /\ FALSE \in BOOLEAN
  BY ConstantTypes
<1>13. TypedChain(reset_view_change(p))
  BY <1>9, <1>10, <1>11, <1>12, ViewTyped
<1> QED BY <1>3, <1>13

LEMMA EpochPrefix ==
    ASSUME NEW base, NEW s, EpochTyped(base, s), NEW t, IsMicros(t), NEW o \in 0 .. Len(s),
           Len(t) = o, Begins(s, t, o)
    PROVE  EpochTyped(base, t)
<1>1. /\ IsMicros(s) /\ IsSeq(s) /\ IsSeq(t) /\ Len(s) \in Nat /\ o \in Nat
      /\ Len(s) <= MicroBlocksInEpoch /\ MicroBlocksInEpoch \in Nat
  BY SeqFacts, ConstantTypes DEF EpochTyped, IsMicros
<1>2. \A q \in 0 .. o : Ref(base, t, q) = Ref(base, s, q)
  BY <1>1, RefSame
<1>3. ASSUME NEW i \in 1 .. Len(t) PROVE Led(ElectionResult(Ref(base, t, i - 1)), t[i])
  <2>1. i \in 1 .. Len(s) /\ i - 1 \in 0 .. o /\ t[i] = s[i]
    BY <1>1 DEF Begins
  <2>2. Ref(base, t, i - 1) = Ref(base, s, i - 1)
    BY <1>2, <2>1
  <2> QED BY <2>1, <2>2 DEF EpochTyped, LedOn
<1>4. Len(t) <= MicroBlocksInEpoch
  BY <1>1
<1> QED BY <1>3, <1>4 DEF EpochTyped, LedOn

LEMMA PoppedTyped ==
    ASSUME NEW c, NEW base, NEW s, EpochTyped(base, s), Tracks(c, base, s), TypedChain(c)
    PROVE  TypedChain(Popped(c))
<1> DEFINE n == Len(s)
           S(k) == SubSeq(s, 1, n - k)
<1>1. n \in Nat /\ IsSeq(s) /\ IsMicros(s) /\ IsBase(base)
  BY SeqFacts DEF IsMicros, EpochTyped
<1>2. c.offset = n
  BY DEF Tracks
<1>3. PICK g : PopRun(g, c, n) /\ Popped(c) = g[n]
  BY <1>1, <1>2, PoppedIsRun
<1>4. g[0] = c /\ \A k \in 1 .. n : g[k] = pop_micro_block(g[k - 1])
  BY <1>1, <1>3 DEF PopRun
<1>5. ASSUME NEW k \in 0 .. n
      PROVE  /\ IsMicros(S(k)) /\ Len(S(k)) = n - k /\ Begins(s, S(k), n - k)
             /\ EpochTyped(base, S(k))
  <2>1. n - k \in 0 .. n
    BY <1>1
  <2>2. IsMicros(S(k)) /\ Len(S(k)) = n - k /\ Begins(s, S(k), n - k)
    BY <1>1, <2>1, MicrosFacts, SeqFacts
  <2> HIDE DEF S
  <2> QED BY <2>1, <2>2, EpochPrefix
<1> HIDE DEF S
<1> DEFINE T == {k \in Nat : k <= n => Tracks(g[k], base, S(k)) /\ TypedChain(g[k])}
<1>6. 0 \in T
  <2>1. IsMicros(S(0)) /\ Len(S(0)) = n /\ Begins(s, S(0), n)
    BY <1>1, <1>5
  <2>2. Tracks(c, base, S(0))
    BY <1>1, <2>1, TrackSame
  <2> QED BY <1>4, <2>2
<1>7. ASSUME NEW k \in Nat, k \in T PROVE k + 1 \in T
  <2> SUFFICES ASSUME k + 1 <= n
               PROVE  Tracks(g[k + 1], base, S(k + 1)) /\ TypedChain(g[k + 1])
    OBVIOUS
  <2>1. k + 1 \in 1 .. n /\ k + 1 \in 0 .. n /\ k \in 0 .. n /\ (k + 1) - 1 = k /\ n - (k + 1) = (n - k) - 1
    BY <1>1
  <2>2. g[k + 1] = pop_micro_block(g[k]) /\ Tracks(g[k], base, S(k)) /\ TypedChain(g[k])
    BY <1>1, <1>4, <1>7, <2>1
  <2>3. /\ IsMicros(S(k)) /\ Len(S(k)) = n - k /\ Begins(s, S(k), n - k) /\ EpochTyped(base, S(k))
        /\ IsMicros(S(k + 1)) /\ Len(S(k + 1)) = n - (k + 1) /\ Begins(s, S(k + 1), n - (k + 1))
    BY <1>5, <2>1
  <2>4. /\ Len(S(k + 1)) = Len(S(k)) - 1 /\ Begins(S(k), S(k + 1), Len(S(k + 1)))
        /\ Len(S(k)) # 0
    <3> DEFINE m == n - (k + 1)
               x == S(k)
               y == S(k + 1)
    <3> HIDE DEF n
    <3>1. m \in Nat /\ Len(x) = m + 1 /\ Len(y) = m
      BY <1>1, <2>1, <2>3
    <3>2. \A i \in 1 .. m : i \in 1 .. n - k
      BY <1>1, <2>1
    <3>3. \A i \in 1 .. m : y[i] = x[i]
      BY <2>3, <3>2 DEF Begins
    <3> HIDE DEF m, x, y
    <3>4. Len(y) = Len(x) - 1 /\ Begins(x, y, Len(y)) /\ Len(x) # 0
      BY <3>1, <3>3 DEF Begins
    <3> QED BY <3>4 DEF x, y
  <2>5. Tracks(pop_micro_block(g[k]), base, S(k + 1))
    BY <1>1, <2>2, <2>3, <2>4, TrackPop
  <2>6. TypedChain(pop_micro_block(g[k]))
    BY <2>2, <2>3, <2>4, PopTyped
  <2> QED BY <2>2, <2>5, <2>6
<1>8. Nat \subseteq T
  <2> HIDE DEF T
  <2> QED BY <1>6, <1>7, NumberInduction
<1> QED BY <1>1, <1>3, <1>8

-----------------------------------------------------------------------------
(* The types of macro blocks *)

LEMMA SlotsTyped ==
    ASSUME NEW stakers, IsGroup(stakers), Members(stakers) # {},
           NEW random \in Randoms \cup {GenesisRandom}
    PROVE  HasLeaders(select_validators_slots(stakers, random))
<1> DEFINE Won(v) == {i \in 0 .. SlotCount - 1 :
                         select_winner(stakers, generate_u64(random, i)) = v}
           validators == [v \in DOMAIN stakers |-> Cardinality(Won(v))]
           e == select_validators_slots(stakers, random)
           w == select_winner(stakers, generate_u64(random, 0))
<1>1. e = [random |-> random, view_change |-> 0, validators |-> validators]
  BY DEF select_validators_slots
<1>2. DOMAIN stakers = Validators /\ SlotCount \in Nat /\ SlotCount # 0 /\ 0 \in 0 .. MaxViewChange
      /\ 0 \in 0 .. SlotCount + MaxViewChange
  BY ConstantTypes DEF IsGroup
<1>3. generate_u64(random, 0) \in Nat
  BY <1>2, StakersAssumption
<1>4. w \in Members(stakers)
  BY <1>3, WinnerIsMember
<1>5. w \in Validators
  BY <1>2, <1>4 DEF Members
<1>6. ASSUME NEW v PROVE IsFiniteSet(Won(v)) /\ Cardinality(Won(v)) \in 0 .. SlotCount
  <2>1. IsFiniteSet(0 .. SlotCount - 1) /\ Cardinality(0 .. SlotCount - 1) = SlotCount
    BY <1>2, FS_Interval
  <2>2. Won(v) \in SUBSET (0 .. SlotCount - 1)
    OBVIOUS
  <2> HIDE DEF Won
  <2>3. IsFiniteSet(Won(v)) /\ Cardinality(Won(v)) <= SlotCount
    BY <2>1, <2>2, FS_Subset
  <2>4. Cardinality(Won(v)) \in Nat
    BY <2>3, FS_CardinalityType
  <2> QED BY <1>2, <2>3, <2>4
<1>7. 0 \in Won(w)
  BY <1>2
<1> HIDE DEF Won, w, e
<1>8. Cardinality(Won(w)) > 0
  <2>1. Cardinality(Won(w)) # 0
    BY <1>6, <1>7, FS_EmptySet
  <2> QED BY <1>2, <1>6, <2>1
<1>9. validators \in [Validators -> 0 .. SlotCount] /\ w \in Members(validators)
  BY <1>2, <1>5, <1>6, <1>8 DEF Members
<1> HIDE DEF validators
<1>10. e \in ElectionResults /\ e.validators = validators
  BY <1>1, <1>2, <1>9 DEF ElectionResults
<1> QED BY <1>9, <1>10 DEF HasLeaders, e

LEMMA AwardsTyped ==
    ASSUME NEW awards \in AwardsType, NEW validators, NEW active, NEW random
    PROVE  LET w == check_winners(finalize_epoch(awards, ActivityOfAccounts(validators, active)), random)
           IN  w.amount \in Nat /\ w.awards \in AwardsType /\ FullReward(w) \in Nat
<1> DEFINE a == ActivityOfAccounts(validators, active)
           f == finalize_epoch(awards, a)
           cleared == [budget |-> f.budget, activity |-> NewAwards.activity]
           w == check_winners(f, random)
<1>1. a \in [Accounts -> AwardStates]
  BY DEF ActivityOfAccounts, AwardStates
<1> HIDE DEF a
<1>2. f \in AwardsType
  BY <1>1, ConstantTypes DEF finalize_epoch, AwardsType
<1>3. NewAwards \in AwardsType
  BY DEF NewAwards, AwardsType, AwardStates
<1> HIDE DEF f
<1>4. cleared \in AwardsType
  BY <1>2, <1>3 DEF AwardsType
<1>5. \/ w = [winner |-> NoWinner, amount |-> 0, awards |-> f]
      \/ w = [winner |-> NoWinner, amount |-> 0, awards |-> cleared]
      \/ w = [winner |-> Winner(f, random), amount |-> f.budget, awards |-> NewAwards]
  BY DEF check_winners
<1>6. f.budget \in Nat
  BY <1>2 DEF AwardsType
<1> HIDE DEF w, cleared
<1>7. w.amount \in Nat /\ w.awards \in AwardsType
  BY <1>2, <1>3, <1>4, <1>5, <1>6
<1>8. FullReward(w) \in Nat
  <2>1. BlockReward * (MicroBlocksInEpoch + 1) \in Nat
    BY ConstantTypes
  <2> QED BY <1>7, <2>1 DEF FullReward
<1> QED BY <1>7, <1>8 DEF w, f, a

\* What a macro block needs to be registered.
Macros == MacroBlock \cup {Genesis}

LEMMA MacrosTyped ==
    ASSUME NEW b \in Macros
    PROVE  /\ b \in Blocks /\ IsMacro(b) /\ b.reward \in Nat
           /\ b.random \in Randoms \cup {GenesisRandom}
<1>1. CASE b \in MacroBlock
  BY <1>1 DEF MacroBlock, Blocks, IsMacro
<1>2. CASE b = Genesis
  <2>1. IsMacro(Genesis)
    BY GenesisFacts
  <2>2. Genesis.reward = 0 /\ Genesis.random = GenesisRandom
    BY DEF Genesis
  <2> HIDE DEF Genesis
  <2> QED BY <1>2, <2>1, <2>2 DEF Blocks
<1> QED BY <1>1, <1>2 DEF Macros

LEMMA CacheTyped ==
    ASSUME NEW U, NEW cache \in Seq(U), NEW b \in U
    PROVE  cache_push_block(cache, b) \in Seq(U)
<1>1. cache # <<>> => Tail(cache) \in Seq(U)
  OBVIOUS
<1>2. Len(cache) = StakeEpochs + 1 => cache # <<>>
  BY ConstantTypes
<1>3. \A q \in Seq(U) : Append(q, b) \in Seq(U)
  OBVIOUS
<1> QED BY <1>1, <1>2, <1>3 DEF cache_push_block

LEMMA MacroTyped ==
    ASSUME NEW c, IsTyped(c), MacroReady(c), c.epoch < MaxEpoch, NEW b \in Macros,
           Members(get_stakers_majority(RegisterOutputs(c, b), c.epoch + 1)) # {}
    PROVE  TypedChain(register_macro_block(c, b))
<1> DEFINE lsn == MacroLsn(c)
           ins == b.ins \ b.outs
           outs == b.outs \ b.ins
           t == RegisterOutputs(c, b)
           stakers == get_stakers_majority(t, c.epoch + 1)
           e == next_election_result(t, b.random)
           E == insert(t.election_result, lsn, Unit, e)
           A == IF c.epoch = 0 THEN t.awards ELSE AwardsOfMacroBlock(c, b).awards
           q == UpdateMetadata(c, b)
           r == register_macro_block(c, b)
<1>1. /\ b \in Blocks /\ IsMacro(b) /\ b.reward \in Nat
      /\ b.random \in Randoms \cup {GenesisRandom}
  BY MacrosTyped
<1>2. /\ c.epoch \in Nat /\ IsChain(c, lsn) /\ ins \in SUBSET Utxos /\ outs \in SUBSET Utxos
      /\ IsRecord(c)
  BY <1>1 DEF MacroReady, IsChain, IsMacro
<1>3. lsn \in Lsns
  BY <1>2, ConstantTypes, LsnBound DEF MacroLsn, MACRO_BLOCK_OFFSET
<1>4. /\ TypedMaps(c) /\ c.balance.map[Unit] \in Nat /\ c.awards \in AwardsType
      /\ c.view_change_proof \in BOOLEAN /\ c.cache \in Seq(Macros)
  BY DEF IsTyped, Macros
<1>5. t = register_inputs_and_outputs(c, lsn, b, ins, outs, b.reward)
  BY DEF RegisterOutputs, MacroLsn
<1>6. q = [t EXCEPT !.awards = A, !.epoch = @ + 1, !.offset = 0,
                    !.cache = cache_push_block(@, b), !.election_result = E]
  BY DEF UpdateMetadata, MacroLsn
<1>7. r = [q EXCEPT !.block_by_hash = checkpoint(q.block_by_hash),
                    !.output_by_hash = checkpoint(q.output_by_hash),
                    !.escrow = checkpoint(q.escrow),
                    !.election_result = checkpoint(q.election_result),
                    !.balance = checkpoint(q.balance),
                    !.epoch_activity = new(Validators)]
  BY DEF register_macro_block
<1>8. t.epoch = c.epoch /\ AfterMacro(c, q, b)
  BY <1>1, MetadataFacts DEF MacroReady
<1>9. IsRecord(t) /\ t.cache = c.cache /\ t.view_change_proof = c.view_change_proof
      /\ t.awards = c.awards
  BY <1>2, <1>5 DEF register_inputs_and_outputs, IsRecord, Fields, MapNames
<1> HIDE DEF lsn, ins, outs, t, q, r
<1>10. TypedMaps(t) /\ t.balance.map[Unit] \in Nat
  <2>1. LET x == register_inputs_and_outputs(c, lsn, b, ins, outs, b.reward)
        IN  TypedMaps(x) /\ x.balance.map[Unit] \in Nat
    BY <1>1, <1>2, <1>3, <1>4, InputsTyped
  <2> QED BY <1>5, <2>1
<1>11. e = select_validators_slots(stakers, b.random)
  BY <1>8 DEF next_election_result
<1>12. IsGroup(stakers) /\ Members(stakers) # {}
  BY StakersFacts DEF t
<1> HIDE DEF stakers, e, A, E
<1>13. HasLeaders(e) /\ e \in ElectionResults
  <2>1. HasLeaders(e)
    BY <1>1, <1>11, <1>12, SlotsTyped
  <2> QED BY <2>1 DEF HasLeaders
<1>14. A \in AwardsType
  BY <1>4, <1>9, AwardsTyped DEF A, AwardsOfMacroBlock, epoch_activity_from_macro_block
<1>15. /\ IsRecord(q) /\ q.election_result = E /\ OnlyElection(t, q) /\ q.awards = A
       /\ q.epoch = c.epoch + 1 /\ q.offset = 0 /\ q.view_change_proof = c.view_change_proof
       /\ q.cache = cache_push_block(c.cache, b)
  BY <1>6, <1>8, <1>9 DEF IsRecord, Fields, MapNames, OnlyElection
<1>16. TypedMaps(q) /\ q.balance = t.balance
  BY <1>3, <1>10, <1>13, <1>15, ElectTyped DEF E
<1>17. cache_push_block(c.cache, b) \in Seq(Macros)
  <2> HIDE DEF Macros
  <2> QED BY <1>4, CacheTyped
<1>18. /\ r.epoch = q.epoch /\ r.offset = q.offset /\ r.view_change_proof = q.view_change_proof
       /\ r.awards = q.awards /\ r.cache = q.cache
       /\ r.epoch_activity = new(Validators)
       /\ r.block_by_hash = checkpoint(q.block_by_hash)
       /\ r.output_by_hash = checkpoint(q.output_by_hash)
       /\ r.escrow = checkpoint(q.escrow)
       /\ r.election_result = checkpoint(q.election_result)
       /\ r.balance = checkpoint(q.balance)
  BY <1>7, <1>15 DEF IsRecord, Fields, MapNames
<1>19. TypedMaps(r)
  <2>1. new(Validators) \in VersionedMap(Validators, {Active, Failed})
    BY TypedNew
  <2> QED BY <1>16, <1>18, <2>1, TypedMapsFacts, TypedCheckpoint
<1>20. r.balance.map[Unit] \in Nat /\ ElectionResult(r) = e
  <2>1. r.balance.map = q.balance.map /\ r.election_result.map = q.election_result.map
    BY <1>18 DEF checkpoint
  <2>2. q.election_result.map[Unit] = e
    <3>1. t.election_result \in VersionedMap({Unit}, ElectionResults)
      BY <1>10, TypedMapsFacts
    <3>2. t.election_result.map \in [{Unit} -> ElectionResults \cup {NoValue}]
      BY <3>1, TypedFields
    <3> QED BY <1>15, <3>2 DEF E, insert
  <2> QED BY <1>10, <1>16, <2>1, <2>2 DEF ElectionResult
<1>21. r.epoch \in 0 .. MaxEpoch /\ r.offset \in 0 .. MicroBlocksInEpoch
  BY <1>2, <1>15, <1>18, ConstantTypes
<1>22. IsTyped(r)
  BY <1>4, <1>14, <1>15, <1>17, <1>18, <1>19, <1>20, <1>21 DEF IsTyped, Macros
<1> QED BY <1>13, <1>20, <1>22 DEF TypedChain, r

LEMMA CreatedTyped ==
    ASSUME NEW base, IsBase(base), TypedChain(base), NEW made, Ledger(base, made),
           NEW c, NEW s, Grows(c, base, made, s), NEW random \in Randoms,
           NEW b, b = create_macro_block(c, s, random),
           Members(get_stakers_majority(c, c.epoch + 1)) # {},
           NEW p, Tracks(p, base, <<>>), p.awards \in AwardsType, RewardAgrees(p, b)
    PROVE  /\ b \in MacroBlock
           /\ Members(get_stakers_majority(RegisterOutputs(p, b), p.epoch + 1)) # {}
<1> DEFINE a == awards_from_active_epoch(c, random)
           v == next_election_result(c, random).validators
           f == FullReward(a.awards)
           n == Len(s)
<1>1. b = [random |-> random, ins |-> Inputs(s), outs |-> Outputs(s),
           activity_map |-> a.activity_map, reward |-> f, validators |-> v]
  BY DEF create_macro_block
<1>2. IsMicros(s) /\ Tracks(c, base, s) /\ n \in Nat /\ IsSeq(s)
  BY SeqFacts DEF Grows, IsMicros
<1>3. Inputs(s) \subseteq Utxos /\ Outputs(s) \subseteq Utxos
  <2>1. IsMacros(s)
    BY <1>2 DEF IsMicros, IsMacros, IsMicro, IsMacro
  <2> QED BY <2>1, BlocksFacts
<1>4. a.activity_map \subseteq Validators
  <2>1. a.activity_map \subseteq validators_at_epoch_start(c)
    BY DEF awards_from_active_epoch
  <2>2. c.epoch = base.epoch /\ VersionIs(c, PreviousLsn(base.epoch, 0), Ref(base, s, 0))
    BY <1>2 DEF Tracks
  <2>3. Ref(base, s, 0) = base
    BY <1>2, RefUnroll DEF Unrolls
  <2>4. election_result_by_offset(c, 0) = ElectionResult(base)
    <3>1. At(c.election_result, PreviousLsn(c.epoch, 0)) = base.election_result.map
      BY <2>2, <2>3 DEF VersionIs, MapNames
    <3> QED BY <3>1 DEF election_result_by_offset, rollback_to_lsn, At, ElectionResult
  <2>5. ElectionResult(base).validators \in [Validators -> 0 .. SlotCount]
    BY DEF TypedChain, HasLeaders, ElectionResults
  <2>6. validators_at_epoch_start(c) \subseteq Validators
    BY <2>4, <2>5 DEF validators_at_epoch_start, Members
  <2> QED BY <2>1, <2>6
<1>5. v \in [Validators -> 0 .. SlotCount]
  <2> DEFINE stakers == get_stakers_majority(c, c.epoch + 1)
  <2>1. IsGroup(stakers)
    BY StakersFacts
  <2>2. v = select_validators_slots(stakers, random).validators
    BY DEF next_election_result
  <2> HIDE DEF stakers, v
  <2>3. HasLeaders(select_validators_slots(stakers, random))
    BY <2>1, SlotsTyped DEF stakers
  <2> QED BY <2>2, <2>3 DEF HasLeaders, ElectionResults
<1> HIDE DEF a, v, f
<1>6. b.reward \in Nat
  BY AwardsTyped DEF RewardAgrees, AwardsOfMacroBlock, epoch_activity_from_macro_block
<1>7. b \in MacroBlock
  BY <1>1, <1>3, <1>4, <1>5, <1>6 DEF MacroBlock
<1>8. MadeFrom(b, c, s, random)
  BY CreatedFrom
<1> DEFINE o == RegisterOutputs(p, b)
<1>9. o.escrow.map = c.escrow.map /\ p.epoch = c.epoch
  BY <1>2, <1>8, MacroReplaces DEF Tracks
<1> HIDE DEF o
<1>10. \A w, e : ActiveStakes(o, w, e) = ActiveStakes(c, w, e)
  BY <1>9 DEF ActiveStakes, StakesOf
<1>11. get_stakers_majority(o, p.epoch + 1) = get_stakers_majority(c, c.epoch + 1)
  BY <1>9, <1>10 DEF get_stakers_majority
<1> QED BY <1>7, <1>11 DEF o

LEMMA ValidTyped ==
    ASSUME NEW c, TypedChain(c), NEW created, NEW b \in MicroBlocks(c, created)
    PROVE  Led(ElectionResult(c), b)
<1> DEFINE e == ElectionResult(c)
           Confiscated(v) == IF v = NoValidator THEN {} ELSE ActiveStakes(c, v, c.epoch)
           cheaters == {NoValidator} \cup {v \in Validators : CanSlash(c, v)}
           txs == ValidTransactions(c, created)
<1>1. PICK vc \in view_change(c) .. MaxViewChange, random \in Randoms, body \in Bodies(c, created) :
         b = [view_change |-> vc, random |-> random,
              ins |-> body.ins, outs |-> body.outs, cheater |-> body.cheater]
  BY DEF MicroBlocks
<1>2. body.ins \subseteq Utxos /\ body.outs \subseteq Utxos
  BY BodyFacts
<1>3. \E p \in txs \X cheaters :
         body = [ins |-> p[1].ins \cup Confiscated(p[2]), outs |-> p[1].outs, cheater |-> p[2]]
  BY DEF Bodies
<1>4. body.cheater \in cheaters
  <2> HIDE DEF Confiscated, cheaters, txs
  <2>1. PICK p \in txs \X cheaters :
         body = [ins |-> p[1].ins \cup Confiscated(p[2]), outs |-> p[1].outs, cheater |-> p[2]]
    BY <1>3
  <2>2. p[2] \in cheaters
    BY <2>1
  <2> QED BY <2>1, <2>2
<1>5. /\ e \in ElectionResults /\ Members(e.validators) # {}
      /\ e.validators \in [Validators -> 0 .. SlotCount] /\ e.view_change \in 0 .. MaxViewChange
  BY DEF TypedChain, HasLeaders, ElectionResults
<1>6. vc \in 0 .. MaxViewChange
  BY <1>5, ConstantTypes DEF view_change
<1>7. b \in MicroBlock /\ b.cheater = body.cheater
  BY <1>1, <1>2, <1>4, <1>6 DEF MicroBlock
<1>8. Members(Slashed(e, b.cheater).validators) # {}
  <2>1. CASE b.cheater = NoValidator
    BY <1>5, <2>1 DEF Slashed
  <2>2. CASE b.cheater # NoValidator
    <3> DEFINE w == [e.validators EXCEPT ![b.cheater] = 0]
    <3>1. Slashed(e, b.cheater).validators = w
      BY <1>5, <2>2, SlashedTyped
    <3>2. PICK v \in Members(e.validators) : v # b.cheater
      BY <1>4, <1>7, <2>2 DEF CanSlash
    <3>3. v \in DOMAIN w /\ w[v] = e.validators[v] /\ e.validators[v] > 0
      BY <1>5, <3>2 DEF Members
    <3> HIDE DEF w
    <3>4. v \in Members(w)
      BY <3>3 DEF Members
    <3> QED BY <3>1, <3>4
  <2> QED BY <2>1, <2>2
<1> QED BY <1>7, <1>8 DEF Led

-----------------------------------------------------------------------------
(* The types of a node *)

LEMMA NewTyped == IsTyped(NewChain)
<1> DEFINE c == NewChain
           B == insert(new({Unit}), LSN(0, 0), Unit, 0)
<1>1. /\ c.block_by_hash = new(Lsns) /\ c.output_by_hash = new(Utxos)
      /\ c.escrow = new(Utxos) /\ c.election_result = new({Unit})
      /\ c.epoch_activity = new(Validators) /\ c.balance = B
      /\ c.epoch = 0 /\ c.offset = 0 /\ c.view_change_proof = FALSE
      /\ c.awards = NewAwards /\ c.cache = <<>>
  BY DEF NewChain
<1>2. LSN(0, 0) \in Lsns
  BY LsnBound, ConstantTypes
<1>3. new({Unit}) \in VersionedMap({Unit}, Nat)
  BY TypedNew
<1>4. B \in VersionedMap({Unit}, Nat)
  <2> HIDE DEF Unit
  <2> QED BY <1>2, <1>3, TypedWrite
<1>5. B.map[Unit] = 0
  BY DEF insert, new, Unit
<1>6. NewAwards \in AwardsType
  BY DEF NewAwards, AwardsType, AwardStates
<1>7. <<>> \in Seq(MacroBlock \cup {Genesis})
  OBVIOUS
<1> HIDE DEF c, B
<1>8. TypedMaps(c)
  BY <1>1, <1>4, TypedNew, TypedMapsFacts
<1>9. /\ c.epoch \in 0 .. MaxEpoch /\ c.offset \in 0 .. MicroBlocksInEpoch
      /\ c.balance.map[Unit] \in Nat
  BY <1>1, <1>5, ConstantTypes
<1>10. /\ c.view_change_proof \in BOOLEAN /\ c.awards \in AwardsType
       /\ c.cache \in Seq(MacroBlock \cup {Genesis})
  BY <1>1, <1>6, <1>7, Zenon
<1>11. IsTyped(c)
  BY <1>8, <1>9, <1>10, Zenon DEF IsTyped
<1> QED BY <1>11 DEF c

\* What fast recovery starts from.
LEMMA StartTyped ==
    ASSUME NEW s, NEW b, IsGrown(b), SnapshotIs(s, b), TypedChain(b)
    PROVE  TypedChain(Start(s))
<1> DEFINE c == Start(s)
           lsn == LSN(s.epoch, MACRO_BLOCK_OFFSET)
<1>1. /\ c.epoch = s.epoch + 1 /\ c.offset = 0 /\ c.awards = s.awards
      /\ c.block_by_hash = InsertAll(new(Lsns), lsn, s.block_by_hash)
      /\ c.output_by_hash = InsertAll(new(Utxos), lsn, s.output_by_hash)
      /\ c.escrow = InsertAll(new(Utxos), lsn, s.escrow)
      /\ c.balance = insert(NewChain.balance, lsn, Unit, s.balance)
      /\ c.election_result = insert(new({Unit}), lsn, Unit, s.election_result)
      /\ c.epoch_activity = new(Validators)
  BY StartFields
<1>2. c.view_change_proof = FALSE /\ c.cache = <<>>
  BY DEF Start, NewChain
<1>3. /\ s.epoch = b.epoch - 1 /\ s.balance = b.balance.map[Unit]
      /\ s.election_result = ElectionResult(b) /\ s.awards = b.awards
      /\ s.block_by_hash = b.block_by_hash.map /\ s.output_by_hash = b.output_by_hash.map
      /\ s.escrow = b.escrow.map
  BY DEF SnapshotIs, MetadataIs, StoredMaps
<1>4. /\ TypedMaps(b) /\ b.epoch \in 0 .. MaxEpoch /\ b.epoch > 0 /\ b.awards \in AwardsType
      /\ b.balance.map[Unit] \in Nat /\ HasLeaders(ElectionResult(b))
  BY DEF TypedChain, IsTyped, IsGrown
<1>5. s.epoch \in Nat /\ s.epoch <= MaxEpoch /\ c.epoch = b.epoch
  BY <1>1, <1>3, <1>4, ConstantTypes
<1> HIDE DEF c
<1>6. lsn \in Lsns
  BY <1>5, ConstantTypes, LsnBound DEF MACRO_BLOCK_OFFSET
<1> HIDE DEF lsn
<1>7. ASSUME NEW K, NEW V, NEW f \in [K -> V \cup {NoValue}], IsFiniteSet(Given(f))
      PROVE  InsertAll(new(K), lsn, f) \in VersionedMap(K, V)
  <2>1. Given(f) \subseteq K /\ \A k \in Given(f) : f[k] \in V
    BY DEF Given
  <2> QED BY <1>6, <1>7, <2>1, TypedNew, TypedInsertAll
<1>8. /\ s.block_by_hash \in [Lsns -> Blocks \cup {NoValue}]
      /\ s.output_by_hash \in [Utxos -> Lsns \cup {NoValue}]
      /\ s.escrow \in [Utxos -> Nat \cup {NoValue}]
  BY <1>3, <1>4, TypedMapsFacts, TypedFields
<1>9. /\ IsFiniteSet(Given(s.block_by_hash)) /\ IsFiniteSet(Given(s.output_by_hash))
      /\ IsFiniteSet(Given(s.escrow))
  <2>1. IsFiniteSet(Lsns) /\ IsFiniteSet(Utxos)
    BY ConstantTypes, LsnFacts, FS_Interval, BlockchainAssumption DEF Lsns, LSN, MACRO_BLOCK_OFFSET
  <2>2. /\ Given(s.block_by_hash) \subseteq Lsns /\ Given(s.output_by_hash) \subseteq Utxos
        /\ Given(s.escrow) \subseteq Utxos
    BY <1>8 DEF Given
  <2> QED BY <2>1, <2>2, FS_Subset
<1>10. /\ c.block_by_hash \in VersionedMap(Lsns, Blocks)
       /\ c.output_by_hash \in VersionedMap(Utxos, Lsns)
       /\ c.escrow \in VersionedMap(Utxos, Nat)
  BY <1>1, <1>7, <1>8, <1>9
<1>11. c.balance \in VersionedMap({Unit}, Nat)
  <2>1. NewChain.balance \in VersionedMap({Unit}, Nat)
    BY NewTyped, TypedMapsFacts DEF IsTyped
  <2> HIDE DEF NewChain, Unit
  <2> QED BY <1>1, <1>3, <1>4, <1>6, <2>1, TypedWrite
<1>12. c.election_result \in VersionedMap({Unit}, ElectionResults)
  <2>1. new({Unit}) \in VersionedMap({Unit}, ElectionResults)
    BY TypedNew
  <2> HIDE DEF Unit
  <2> QED BY <1>1, <1>3, <1>4, <1>6, <2>1, TypedWrite DEF HasLeaders
<1>13. TypedMaps(c)
  BY <1>1, <1>10, <1>11, <1>12, TypedNew, TypedMapsFacts
<1>14. c.balance.map[Unit] = s.balance /\ ElectionResult(c) = s.election_result
  <2>1. \A f \in MapNames : c[f].map = b[f].map
    BY StartFills DEF Fills, c
  <2> QED BY <1>3, <2>1 DEF MapNames, ElectionResult
<1>15. <<>> \in Seq(MacroBlock \cup {Genesis})
  OBVIOUS
<1>16. /\ c.epoch \in 0 .. MaxEpoch /\ c.offset \in 0 .. MicroBlocksInEpoch
       /\ c.balance.map[Unit] \in Nat /\ c.awards \in AwardsType
  BY <1>1, <1>3, <1>4, <1>5, <1>14, ConstantTypes
<1>17. c.view_change_proof \in BOOLEAN /\ c.cache \in Seq(MacroBlock \cup {Genesis})
  BY <1>2, <1>15, Zenon
<1>18. IsTyped(c)
  BY <1>13, <1>16, <1>17, Zenon DEF IsTyped
<1> QED BY <1>3, <1>4, <1>14, <1>18 DEF TypedChain, c

\* The blocks m and u of the database.
TypesGood(m, u) ==
    /\ m \in Seq(Macros) /\ u \in Seq(MicroBlock)
    /\ \A j \in 1 .. Len(m) : TypedChain(After(m, j))
    /\ EpochTyped(Top(m), u)

TInv == TypesGood(disk.macros, disk.micros) /\ (Running => TypedChain(chain))

LEMMA NoMicrosTyped ==
    ASSUME NEW base, IsBase(base), TypedChain(base)
    PROVE  EpochTyped(base, <<>>)
<1>1. IsMicros(<<>>) /\ Len(<<>>) = 0
  BY MicrosFacts
<1> QED BY <1>1, ConstantTypes DEF EpochTyped, LedOn

LEMMA EpochAppend ==
    ASSUME NEW base, NEW s, EpochTyped(base, s), Len(s) < MicroBlocksInEpoch,
           NEW b, IsMicro(b), Led(ElectionResult(Ref(base, s, Len(s))), b)
    PROVE  EpochTyped(base, Append(s, b))
<1> DEFINE t == Append(s, b)
           n == Len(s)
<1>1. IsMicros(s) /\ IsSeq(s) /\ n \in Nat /\ MicroBlocksInEpoch \in Nat
  BY SeqFacts, ConstantTypes DEF EpochTyped, IsMicros
<1>2. IsMicros(t)
  BY <1>1, MicrosFacts
<1>3. IsSeq(t) /\ Len(t) = n + 1 /\ Begins(s, t, n) /\ t[n + 1] = b
  BY <1>1, SeqFacts
<1> HIDE DEF t
<1>4. \A q \in 0 .. n : Ref(base, t, q) = Ref(base, s, q)
  BY <1>1, <1>3, RefSame
<1>5. ASSUME NEW i \in 1 .. Len(t) PROVE Led(ElectionResult(Ref(base, t, i - 1)), t[i])
  <2>1. i - 1 \in 0 .. n /\ (i = n + 1 \/ i \in 1 .. n)
    BY <1>1, <1>3
  <2>2. Ref(base, t, i - 1) = Ref(base, s, i - 1)
    BY <1>4, <2>1
  <2>3. CASE i = n + 1
    <3>1. i - 1 = n
      BY <1>1, <2>3
    <3> QED BY <1>3, <2>2, <2>3, <3>1
  <2>4. CASE i \in 1 .. n
    BY <1>3, <2>2, <2>4 DEF EpochTyped, LedOn, Begins
  <2> QED BY <2>1, <2>3, <2>4
<1>6. Len(t) <= MicroBlocksInEpoch
  BY <1>1, <1>3
<1> QED BY <1>2, <1>5, <1>6 DEF EpochTyped, LedOn, t

LEMMA InitTInv == Init => TInv
<1> SUFFICES ASSUME Init PROVE TInv
  OBVIOUS
<1> DEFINE m == <<Genesis>>
           r == register_macro_block(NewChain, Genesis)
<1>1. disk.macros = m /\ disk.micros = <<>> /\ chain = r
  BY DEF Init
<1>2. Top(m) = r
  BY GenesisTop
<1>3. IsMacros(m) /\ Genesis \in Macros
  BY GenesisFacts DEF Macros
<1>4. Len(m) = 1 /\ m \in Seq(Macros)
  <2> HIDE DEF Genesis
  <2> QED BY <1>3
<1>5. TypedChain(r)
  <2>1. IsTyped(NewChain) /\ MacroReady(NewChain) /\ NewChain.epoch < MaxEpoch
    <3>1. NewChain.epoch = 0
      BY NewChainReady
    <3> HIDE DEF NewChain
    <3> QED BY <3>1, NewTyped, NewChainReady, ConstantTypes
  <2>2. Members(get_stakers_majority(RegisterOutputs(NewChain, Genesis), NewChain.epoch + 1)) # {}
    BY GenesisStaked
  <2> HIDE DEF NewChain, Genesis
  <2> QED BY <1>3, <2>1, <2>2, MacroTyped
<1>6. IsBase(r)
  <2>1. IInv
    BY InitIInv
  <2>2. GoodDisk(m, <<>>, disk.snapshot)
    BY <1>1, <2>1 DEF IInv
  <2> HIDE DEF m, r
  <2> QED BY <1>2, <2>2, TopFacts
<1> HIDE DEF m, r
<1>7. EpochTyped(Top(m), <<>>)
  BY <1>2, <1>5, <1>6, NoMicrosTyped
<1>8. <<>> \in Seq(MicroBlock)
  OBVIOUS
<1>9. \A j \in 1 .. Len(m) : j = Len(m)
  BY <1>4
<1>10. \A j \in 1 .. Len(m) : TypedChain(After(m, j))
  BY <1>2, <1>5, <1>9 DEF Top
<1> QED BY <1>1, <1>4, <1>5, <1>7, <1>8, <1>10 DEF TInv, TypesGood

LEMMA PushTInv == ASSUME IInv, LInv, TInv, PushMicroBlock PROVE TInv'
<1> DEFINE m == disk.macros
           u == disk.micros
           x == Ref(Top(m), u, Len(u))
           lsn == LSN(Top(m).epoch, Len(u))
<1>1. Running /\ ~ is_epoch_full(chain)
  BY DEF PushMicroBlock
<1>2. PICK b \in MicroBlocks(chain, Created(disk)) :
         disk' = [disk EXCEPT !.micros = Append(@, b)] /\ chain' = register_micro_block(chain, b)
  BY DEF PushMicroBlock
<1>3. disk'.macros = m /\ disk'.micros = Append(u, b)
  BY <1>2 DEF IInv
<1>4. /\ GoodDisk(m, u, disk.snapshot) /\ GoodChain(chain, m, u, disk.snapshot)
      /\ IsBase(Top(m)) /\ chain.offset = Len(u) /\ Len(u) \in Nat
  BY <1>1, ChainGrows
<1>5. TypesGood(m, u) /\ TypedChain(chain)
  BY <1>1 DEF TInv
<1>6. IsMicro(b)
  BY <1>4, MicroBlockFacts DEF GoodChain
<1> HIDE DEF m, u
<1>7. EpochTyped(Top(m), u) /\ u \in Seq(MicroBlock) /\ IsMicros(u) /\ Tracks(chain, Top(m), u)
  BY <1>4, <1>5 DEF TypesGood, GoodDisk, GoodChain
<1>8. Led(ElectionResult(chain), b)
  BY <1>5, ValidTyped
<1>9. Len(u) \in 0 .. Len(u) /\ Len(u) < MicroBlocksInEpoch /\ chain.offset < MicroBlocksInEpoch
  BY <1>1, <1>4, ConstantTypes DEF is_epoch_full
<1>10. TypedChain(x) /\ SameElection(chain, x)
  BY <1>7, <1>9, EpochRefs DEF Tracks
<1> HIDE DEF x
<1>11. Led(ElectionResult(x), b)
  BY <1>5, <1>8, <1>10, LedSame DEF TypedChain, HasLeaders, SameElection
<1>12. EpochTyped(Top(m), Append(u, b))
  BY <1>6, <1>7, <1>9, <1>11, EpochAppend DEF x
<1>13. AtEnd(chain, lsn)
  BY <1>4, <1>7, TrackFacts
<1> HIDE DEF lsn
<1>14. TypedChain(chain')
  BY <1>2, <1>5, <1>8, <1>9, <1>13, MicroTyped
<1>15. Append(u, b) \in Seq(MicroBlock)
  BY <1>7, <1>8, SeqElements DEF Led
<1> QED BY <1>3, <1>5, <1>12, <1>14, <1>15 DEF TInv, TypesGood

LEMMA PopTInv == ASSUME IInv, LInv, TInv, PopMicroBlock PROVE TInv'
<1> DEFINE m == disk.macros
           u == disk.micros
           f == SubSeq(u, 1, Len(u) - 1)
<1>1. /\ Running /\ chain.offset > 0 /\ disk' = [disk EXCEPT !.micros = Front(@)]
      /\ chain' = pop_micro_block(chain)
  BY DEF PopMicroBlock
<1>2. disk'.macros = m /\ disk'.micros = f
  BY <1>1 DEF IInv, Front
<1>3. IsMicros(u) /\ chain.offset = Len(u) /\ Len(u) \in Nat /\ Tracks(chain, Top(m), u)
  BY <1>1, ChainGrows DEF Grows
<1>4. TypesGood(m, u) /\ TypedChain(chain)
  BY <1>1 DEF TInv
<1> HIDE DEF m, u
<1>5. Len(u) - 1 \in 0 .. Len(u) /\ Len(u) # 0
  BY <1>1, <1>3
<1>6. EpochTyped(Top(m), u) /\ u \in Seq(MicroBlock) /\ IsSeq(u)
  BY <1>3, <1>4 DEF TypesGood, IsMicros
<1>7. IsSeq(f) /\ Len(f) = Len(u) - 1 /\ Begins(u, f, Len(u) - 1) /\ f \in Seq(MicroBlock)
  BY <1>5, <1>6, SeqFacts, SeqElements
<1> HIDE DEF f
<1>8. IsMicros(f)
  <2>1. \A i \in 1 .. Len(f) : i \in 1 .. Len(u)
    BY <1>3, <1>7
  <2> QED BY <1>3, <1>7, <2>1 DEF IsMicros, Begins
<1>9. EpochTyped(Top(m), f)
  BY <1>5, <1>6, <1>7, <1>8, EpochPrefix
<1>10. TypedChain(chain')
  BY <1>1, <1>3, <1>4, <1>5, <1>6, PopTyped
<1> QED BY <1>2, <1>4, <1>7, <1>9, <1>10 DEF TInv, TypesGood

LEMMA ViewTInv == ASSUME IInv, LInv, TInv, SetViewChange PROVE TInv'
<1> DEFINE m == disk.macros
           u == disk.micros
           lsn == LSN(Top(m).epoch, Len(u))
<1>1. Running /\ disk' = disk
  BY DEF SetViewChange
<1>2. PICK vc \in view_change(chain) + 1 .. MaxViewChange : chain' = set_view_change(chain, vc)
  BY DEF SetViewChange
<1>3. /\ IsBase(Top(m)) /\ IsMicros(u) /\ Tracks(chain, Top(m), u) /\ view_change(chain) \in Nat
  BY <1>1, ChainGrows DEF Grows
<1>4. TypesGood(m, u) /\ TypedChain(chain)
  BY <1>1 DEF TInv
<1> HIDE DEF m, u
<1>5. vc \in 0 .. MaxViewChange
  BY <1>3, ConstantTypes
<1>6. AtEnd(chain, lsn) /\ IsRecord(chain)
  BY <1>3, TrackFacts DEF Tracks, IsChain
<1> HIDE DEF lsn
<1>7. ChangesView(chain, chain', vc) /\ chain'.view_change_proof \in BOOLEAN
  BY <1>2, <1>6, ViewFacts, ViewProof, Zenon
<1>8. TypedChain(chain')
  BY <1>4, <1>5, <1>6, <1>7, ViewTyped
<1> QED BY <1>1, <1>4, <1>8 DEF TInv, m, u

LEMMA ApplyTInv == ASSUME IInv, LInv, TInv, ApplyMacroBlock PROVE TInv'
<1> DEFINE p == Popped(chain)
           m == disk.macros
           u == disk.micros
<1>1. Running /\ chain.epoch < MaxEpoch
  BY DEF ApplyMacroBlock
<1>2. PICK b \in Agreed :
         \/ /\ RewardAgrees(p, b)
            /\ chain' = register_macro_block(p, b)
            /\ disk' = [macros |-> Append(disk.macros, b), micros |-> <<>>,
                        snapshot |-> write_snapshot(p, b, disk.snapshot)]
         \/ chain' = Down /\ disk' = [disk EXCEPT !.micros = <<>>]
  BY DEF ApplyMacroBlock
<1>3. /\ GoodDisk(m, u, disk.snapshot) /\ IsBase(Top(m)) /\ Ledger(Top(m), Outputs(m))
      /\ IsMicros(u) /\ Tracks(chain, Top(m), u) /\ chain.awards = Top(m).awards
  BY <1>1, ChainGrows DEF Grows, GoodChain
<1>4. TypesGood(m, u) /\ TypedChain(chain)
  BY <1>1 DEF TInv
<1>5. EpochTyped(Top(m), u) /\ TypedChain(Top(m)) /\ m \in Seq(Macros) /\ IsSeq(m) /\ IsMacros(m)
  BY <1>3, <1>4 DEF TypesGood, EpochTyped, GoodDisk, IsMacros
<1>6. CASE /\ RewardAgrees(p, b)
           /\ chain' = register_macro_block(p, b)
           /\ disk' = [macros |-> Append(disk.macros, b), micros |-> <<>>,
                       snapshot |-> write_snapshot(p, b, disk.snapshot)]
  <2> DEFINE x == Append(m, b)
             n == Len(m)
             base == Top(m)
  <2>1. disk'.macros = x /\ disk'.micros = <<>>
    BY <1>6
  <2>2. PICK c, s, random :
              /\ Grows(c, base, Outputs(m), s)
              /\ random \in Randoms /\ b = create_macro_block(c, s, random)
              /\ Members(get_stakers_majority(c, c.epoch + 1)) # {}
    BY <1>1, AgreedGrows
  <2>3. Tracks(p, base, <<>>) /\ p.awards = base.awards
    BY <1>3, TrackPopped DEF KeptBy
  <2>4. TypedChain(p)
    BY <1>3, <1>4, <1>5, PoppedTyped
  <2>5. GoodDisk(x, <<>>, disk'.snapshot)
    BY <2>1, ApplyIInv DEF IInv
  <2>6. chain.epoch = n /\ base.epoch = n /\ MacroReady(base)
    BY <1>1, EpochIsLen
  <2>7. p.epoch = n /\ MacroReady(p) /\ p.awards \in AwardsType
    BY <1>3, <2>3, <2>4, <2>6, TrackReady DEF Tracks, TypedChain, IsTyped
  <2>8. IsSeq(x) /\ Len(x) = n + 1 /\ Begins(m, x, n) /\ n \in Nat
    BY <1>5, SeqFacts
  <2>9. Top(x) = register_macro_block(base, b)
    BY <1>5, TopAppend
  <2>10. Tracks(base, base, <<>>)
    BY <1>3, TopFacts
  <2> HIDE DEF p, m, u, x, n, base
  <2>11. /\ b \in MacroBlock
         /\ Members(get_stakers_majority(RegisterOutputs(p, b), p.epoch + 1)) # {}
    BY <1>3, <1>5, <1>6, <2>2, <2>3, <2>7, CreatedTyped DEF base
  <2>12. RegisterOutputs(base, b).escrow.map = c.escrow.map
         /\ RegisterOutputs(p, b).escrow.map = c.escrow.map
    <3>1. MadeFrom(b, c, s, random)
      BY <2>2, CreatedFrom
    <3> QED BY <1>3, <2>2, <2>3, <2>10, <3>1, MacroReplaces DEF base
  <2>13. Members(get_stakers_majority(RegisterOutputs(base, b), base.epoch + 1)) # {}
    <3>1. \A w, e : ActiveStakes(RegisterOutputs(base, b), w, e)
                     = ActiveStakes(RegisterOutputs(p, b), w, e)
      BY <2>12 DEF ActiveStakes, StakesOf
    <3>2. get_stakers_majority(RegisterOutputs(base, b), base.epoch + 1)
            = get_stakers_majority(RegisterOutputs(p, b), p.epoch + 1)
      BY <2>6, <2>7, <3>1 DEF get_stakers_majority
    <3> QED BY <2>11, <3>2
  <2>14. b \in Macros
    BY <2>11 DEF Macros
  <2>15. n < MaxEpoch
    BY <1>1, <2>6
  <2>16. TypedChain(chain')
    BY <1>6, <2>4, <2>7, <2>11, <2>14, <2>15, MacroTyped DEF TypedChain
  <2>17. TypedChain(Top(x))
    BY <1>5, <2>6, <2>9, <2>13, <2>14, <2>15, MacroTyped DEF TypedChain, base
  <2>18. EpochTyped(Top(x), <<>>)
    BY <2>5, <2>17, TopFacts, NoMicrosTyped
  <2>19. ASSUME NEW j \in 1 .. Len(x) PROVE TypedChain(After(x, j))
    <3>1. j = Len(x) \/ (j \in 1 .. n /\ j \in 0 .. n)
      BY <2>8
    <3>2. CASE j = Len(x)
      BY <2>17, <3>2 DEF Top
    <3>3. CASE j \in 1 .. n /\ j \in 0 .. n
      <4>1. After(x, j) = After(m, j)
        BY <1>5, <2>8, <3>3, AfterSame
      <4> QED BY <1>4, <3>3, <4>1 DEF TypesGood, n
    <3> QED BY <3>1, <3>2, <3>3
  <2>20. x \in Seq(Macros) /\ <<>> \in Seq(MicroBlock)
    BY <1>5, <2>14, SeqElements DEF x
  <2> QED BY <2>1, <2>16, <2>18, <2>19, <2>20 DEF TInv, TypesGood
<1>7. CASE chain' = Down /\ disk' = [disk EXCEPT !.micros = <<>>]
  <2>1. disk'.macros = m /\ disk'.micros = <<>>
    BY <1>7 DEF IInv
  <2>2. EpochTyped(Top(m), <<>>) /\ <<>> \in Seq(MicroBlock)
    BY <1>3, <1>5, NoMicrosTyped
  <2> HIDE DEF m
  <2> QED BY <1>4, <1>7, <2>1, <2>2 DEF TInv, TypesGood, Running
<1> QED BY <1>2, <1>6, <1>7

LEMMA FastTInv == ASSUME IInv, TInv, RecoverFast PROVE TInv'
<1> DEFINE m == disk.macros
           u == disk.micros
           s == disk.snapshot
           b == Top(m)
           c == Start(s)
           x == RegisterMicros(c, u)
           epoch == Len(m) - 1
           oldest == IF epoch > StakeEpochs + 1 THEN epoch - (StakeEpochs + 1) ELSE 0
           q == CacheOf(SubSeq(m, oldest + 1, Len(m)))
<1>1. s.epoch = Len(m) - 1 /\ chain' = try_recover_fast(disk) /\ disk' = disk
  BY DEF RecoverFast
<1>2. GoodDisk(m, u, s) /\ TypesGood(m, u)
  BY DEF IInv, TInv
<1>3. chain' = [x EXCEPT !.cache = q]
  BY <1>1 DEF try_recover_fast, Start
<1> HIDE DEF m, u, s, q, x, c, b
<1>4. q = b.cache
  BY <1>2, RecoveredCache DEF GoodDisk, q, b, Top
<1>5. IsGrown(b) /\ SnapshotIs(s, b)
  <2>1. Len(m) \in 1 .. Len(m)
    BY <1>2, TopFacts DEF GoodDisk
  <2> QED BY <1>1, <1>2, <2>1, GrownFacts DEF GoodDisk, b, Top
<1>6. EpochTyped(b, u)
  BY <1>2 DEF TypesGood, b
<1>7. TypedChain(c) /\ Tracks(c, b, <<>>)
  BY <1>5, <1>6, StartTyped, StartTracks DEF EpochTyped, c
<1>8. TypedChain(x)
  BY <1>6, <1>7, SeqTyped DEF EpochTyped, x
<1>9. IsRecord(x)
  <2>1. Tracks(x, b, u)
    BY <1>6, <1>7, <1>5, StartTracks, TrackSeq DEF EpochTyped, x, c
  <2> QED BY <2>1 DEF Tracks, IsChain
<1>10. \A f \in Fields : f # "cache" => chain'[f] = x[f]
  BY <1>3, <1>9 DEF IsRecord
<1>11. chain'.cache = b.cache /\ b.cache \in Seq(MacroBlock \cup {Genesis})
  BY <1>3, <1>4, <1>6, <1>9 DEF IsRecord, Fields, EpochTyped, TypedChain, IsTyped
<1>12. /\ chain'.block_by_hash = x.block_by_hash /\ chain'.output_by_hash = x.output_by_hash
       /\ chain'.balance = x.balance /\ chain'.escrow = x.escrow
       /\ chain'.election_result = x.election_result
       /\ chain'.epoch_activity = x.epoch_activity
       /\ chain'.epoch = x.epoch /\ chain'.offset = x.offset /\ chain'.awards = x.awards
       /\ chain'.view_change_proof = x.view_change_proof
  BY <1>10 DEF Fields, MapNames
<1>13. TypedMaps(chain')
  BY <1>8, <1>12, TypedMapsFacts DEF TypedChain, IsTyped
<1>14. IsTyped(chain')
  BY <1>8, <1>11, <1>12, <1>13, Zenon DEF TypedChain, IsTyped
<1>15. TypedChain(chain')
  BY <1>8, <1>12, <1>14 DEF TypedChain, ElectionResult
<1> QED BY <1>1, <1>2, <1>15 DEF TInv, m, u

LEMMA LoadTInv == ASSUME IInv, TInv, RecoverMicroBlocks PROVE TInv'
<1> DEFINE m == disk.macros
           u == disk.micros
<1>1. /\ loading /\ chain.epoch = Len(m) /\ chain' = RegisterMicros(chain, u) /\ disk' = disk
  BY DEF RecoverMicroBlocks
<1>2. GoodDisk(m, u, disk.snapshot) /\ TypesGood(m, u) /\ GoodLoad(chain, m, disk.snapshot)
  BY <1>1 DEF IInv, TInv
<1> HIDE DEF m, u
<1>3. chain = Top(m) /\ EpochTyped(Top(m), u)
  BY <1>1, <1>2 DEF GoodLoad, Top, TypesGood
<1>4. Tracks(Top(m), Top(m), <<>>)
  BY <1>2, TopFacts
<1>5. TypedChain(chain')
  BY <1>1, <1>3, <1>4, SeqTyped DEF EpochTyped
<1> QED BY <1>1, <1>2, <1>5 DEF TInv, m, u

LEMMA NextTInv == IInv /\ LInv /\ TInv /\ [Next]_vars => TInv'
<1> SUFFICES ASSUME IInv, LInv, TInv, [Next]_vars PROVE TInv'
  OBVIOUS
<1>1. CASE UNCHANGED vars
  BY <1>1 DEF vars, TInv, Running
<1>2. CASE Crash \/ StartRecoverBlocks
  BY <1>2 DEF Crash, StartRecoverBlocks, TInv, Running
<1>3. CASE RecoverMacroBlock
  <2>1. disk'.macros = disk.macros /\ disk'.micros = disk.micros /\ loading'
    BY <1>3 DEF RecoverMacroBlock, IInv
  <2> QED BY <2>1 DEF TInv, Running
<1> QED BY <1>1, <1>2, <1>3, PushTInv, PopTInv, ViewTInv, ApplyTInv, FastTInv, LoadTInv DEF Next

LEMMA TypesFollow == IInv /\ TInv => TypeOK
<1> SUFFICES ASSUME IInv, TInv PROVE TypeOK
  OBVIOUS
<1> DEFINE m == disk.macros
<1>1. loading \in BOOLEAN
  BY DEF IInv
<1>2. m \in Seq(MacroBlock \cup {Genesis}) /\ disk.micros \in Seq(MicroBlock)
  BY DEF TInv, TypesGood, Macros
<1>3. IsTyped(chain) \/ (chain = Down /\ ~ loading)
  <2>1. CASE Running
    BY <2>1 DEF TInv, TypedChain
  <2>2. CASE loading
    <3>1. GoodLoad(chain, m, disk.snapshot) /\ GoodDisk(m, disk.micros, disk.snapshot)
      BY <2>2 DEF IInv
    <3>2. chain.epoch \in 0 .. Len(m) /\ chain = After(m, chain.epoch) /\ Len(m) \in Nat /\ IsSeq(m)
      BY <3>1, TopFacts DEF GoodLoad, GoodDisk, IsMacros
    <3>3. CASE chain.epoch = 0
      <4>1. After(m, 0) = NewChain
        BY <3>2, AfterUnroll DEF MacrosUnroll
      <4> HIDE DEF NewChain
      <4> QED BY <3>2, <3>3, <4>1, NewTyped
    <3>4. CASE chain.epoch # 0
      <4>1. chain.epoch \in 1 .. Len(m)
        BY <3>2, <3>4
      <4>2. TypedChain(After(m, chain.epoch))
        BY <4>1 DEF TInv, TypesGood
      <4> QED BY <3>2, <4>2 DEF TypedChain
    <3> QED BY <3>3, <3>4
  <2> QED BY <2>1, <2>2 DEF Running
<1>4. CASE chain = Down /\ ~ loading
  BY <1>1, <1>2, <1>4, Zenon DEF TypeOK
<1>5. CASE IsTyped(chain)
  <2>1. /\ chain.block_by_hash \in VersionedMap(Lsns, Blocks)
        /\ chain.output_by_hash \in VersionedMap(Utxos, Lsns)
        /\ chain.balance \in VersionedMap({Unit}, Nat)
        /\ chain.escrow \in VersionedMap(Utxos, Nat)
        /\ chain.election_result \in VersionedMap({Unit}, ElectionResults)
        /\ chain.epoch_activity \in VersionedMap(Validators, {Active, Failed})
    BY <1>5, TypedMapsFacts DEF IsTyped
  <2>2. /\ chain.epoch \in 0 .. MaxEpoch /\ chain.offset \in 0 .. MicroBlocksInEpoch
        /\ chain.view_change_proof \in BOOLEAN /\ chain.awards \in AwardsType
        /\ chain.cache \in Seq(MacroBlock \cup {Genesis})
    BY <1>5 DEF IsTyped
  <2> QED BY <1>1, <1>2, <2>1, <2>2, Zenon DEF TypeOK
<1> QED BY <1>3, <1>4, <1>5

\* The blocks of the database and the memory of the node have their types, through
\* every crash and both recoveries: undo logs hold lsns of the epochs that there
\* are, the slots of validators and the leaders drawn from them are in range, an
\* epoch has no more micro blocks than it may, and an award is never negative.
THEOREM Types == Spec => []TypeOK
<1>1. Init => IInv /\ LInv /\ TInv
  BY InitIInv, InitLInv, InitTInv
<1>2. IInv /\ LInv /\ TInv /\ [Next]_vars => (IInv /\ LInv /\ TInv)'
  BY NextIInv, NextLInv, NextTInv
<1> QED BY <1>1, <1>2, TypesFollow, PTL DEF Spec
=============================================================================
