----------------------------- MODULE MvccProofs -----------------------------
(***************************************************************************)
(* Proofs about Mvcc, for every set of keys and values and every bound on  *)
(* the lsns and the undo log.  Every write is one or two pushes onto the   *)
(* undo log and a round of the rollback loop takes one push back, so the   *)
(* lemmas are about Push and are used in both directions.                  *)
(***************************************************************************)
EXTENDS Mvcc, WellFoundedInduction, TLAPS

Map == [map : Contents, undo : Seq(UndoRecord), checkpoint_lsn : Lsns]

\* Record r is appended to the undo log and its key gets the value v.
Push(mm, r, v) ==
    [map |-> [mm.map EXCEPT ![r.key] = v],
     undo |-> Append(mm.undo, r),
     checkpoint_lsn |-> mm.checkpoint_lsn]

\* r remembers what is overwritten, and is not older than the log.
Pushable(mm, r, v) ==
    /\ r \in UndoRecord /\ v \in Values \cup {NoValue}
    /\ r.value = mm.map[r.key]
    /\ (r.value = NoValue) # (v = NoValue)
    /\ r.lsn >= current_lsn(mm)

Sorted(mm) ==
    /\ \A i \in DOMAIN mm.undo : mm.undo[i].lsn >= mm.checkpoint_lsn
    /\ \A i, j \in DOMAIN mm.undo : i <= j => mm.undo[i].lsn <= mm.undo[j].lsn

After(mm, i) == {j \in DOMAIN mm.undo : j > i}

\* When the records after i are undone, record i flips its key.
Flips(mm) ==
    \A i \in DOMAIN mm.undo :
        LET r == mm.undo[i]
        IN  (r.value = NoValue) # (Without(mm, After(mm, i))[r.key] = NoValue)

LogInv(mm) == Sorted(mm) /\ Flips(mm)

IInv ==
    /\ TypeOK
    /\ LogInv(m)
    /\ ~ Idle => to_lsn >= m.checkpoint_lsn
    /\ DiskIsCheckpoint

-----------------------------------------------------------------------------
(* The undo log *)

LEMMA MinOf ==
    ASSUME NEW S \in SUBSET Nat, S # {}
    PROVE  Min(S) \in S /\ \A j \in S : Min(S) <= j
<1> DEFINE less == {ss \in Nat \X Nat : ss[1] < ss[2]}
<1>0. OpToRel(<, Nat) = less
    BY Zenon DEF OpToRel
<1>a. IsWellFoundedOn(less, Nat)
    BY <1>0, NatLessThanWellFounded, Zenon
<1> HIDE DEF less
<1>1. PICK x \in S : \A y \in S : ~ (<<y, x>> \in less)
    BY <1>a, WFMin
<1>2. \A y \in S : x <= y
  <2> TAKE y \in S
  <2>1. <<y, x>> \in Nat \X Nat /\ <<y, x>>[1] = y /\ <<y, x>>[2] = x
      OBVIOUS
  <2>2. ~ (y < x)
      BY <1>1, <2>1 DEF less
  <2> QED BY <2>2
<1> QED BY <1>2 DEF Min

\* The oldest of some records stays the oldest when a newer one is added.
LEMMA MinAdd ==
    ASSUME NEW n \in Nat, NEW S \in SUBSET (1 .. n), S # {}
    PROVE  Min(S \cup {n + 1}) = Min(S)
<1> DEFINE T == S \cup {n + 1}
<1>1. Min(S) \in S /\ \A j \in S : Min(S) <= j
  <2>1. S \in SUBSET Nat OBVIOUS
  <2> QED BY <2>1, MinOf
<1>2. Min(T) \in T /\ \A j \in T : Min(T) <= j
  <2>1. T \in SUBSET Nat /\ T # {} OBVIOUS
  <2> HIDE DEF T
  <2> QED BY <2>1, MinOf
<1>3. Min(S) \in 1 .. n /\ Min(S) \in T
    BY <1>1
<1>4. Min(T) # n + 1
    BY <1>2, <1>3
<1>5. Min(T) \in S
    BY <1>2, <1>4
<1> HIDE DEF T
<1>6. Min(T) <= Min(S) /\ Min(S) <= Min(T)
    BY <1>1, <1>2, <1>3, <1>5
<1>7. Min(T) \in Nat /\ Min(S) \in Nat
  <2>1. \A j \in S : j \in Nat
      OBVIOUS
  <2> QED BY <1>1, <1>5, <2>1
<1>8. Min(T) = Min(S)
    BY <1>6, <1>7
<1> QED BY <1>8 DEF T

LEMMA MinOne ==
    ASSUME NEW n \in Nat
    PROVE  Min({n}) = n
    BY MinOf

\* m2 is mm and one more record: the facts that the other lemmas use.
Pushed(mm, r, v, m2, n) ==
    /\ n \in Nat
    /\ DOMAIN mm.undo = 1 .. n
    /\ m2 \in Map
    /\ m2.checkpoint_lsn = mm.checkpoint_lsn
    /\ m2.map = [mm.map EXCEPT ![r.key] = v]
    /\ DOMAIN m2.undo = 1 .. (n + 1)
    /\ \A i \in 1 .. n : m2.undo[i] = mm.undo[i]
    /\ m2.undo[n + 1] = r
    /\ current_lsn(m2) = r.lsn

LEMMA PushShape ==
    ASSUME NEW mm \in Map, NEW r \in UndoRecord, NEW v \in Values \cup {NoValue}
    PROVE  Pushed(mm, r, v, Push(mm, r, v), Len(mm.undo))
<1>1. mm.map \in [Keys -> Values \cup {NoValue}] /\ r.key \in Keys
    BY DEF Map, Contents, UndoRecord
<1>2. [mm.map EXCEPT ![r.key] = v] \in Contents
    BY <1>1 DEF Contents
<1>3. mm.undo \in Seq(UndoRecord) /\ Append(mm.undo, r) \in Seq(UndoRecord)
    BY DEF Map
<1>4. Push(mm, r, v) = [map |-> [mm.map EXCEPT ![r.key] = v],
                        undo |-> Append(mm.undo, r),
                        checkpoint_lsn |-> mm.checkpoint_lsn]
    BY DEF Push
<1>5. Push(mm, r, v) \in Map
    BY <1>2, <1>3, <1>4 DEF Map
<1>6. /\ Len(Append(mm.undo, r)) = Len(mm.undo) + 1
      /\ Append(mm.undo, r)[Len(mm.undo) + 1] = r
      /\ \A i \in 1 .. Len(mm.undo) : Append(mm.undo, r)[i] = mm.undo[i]
      /\ DOMAIN mm.undo = 1 .. Len(mm.undo)
      /\ DOMAIN Append(mm.undo, r) = 1 .. (Len(mm.undo) + 1)
      /\ Append(mm.undo, r) # <<>>
      /\ Len(mm.undo) \in Nat
    BY <1>3
<1> QED BY <1>4, <1>5, <1>6 DEF Pushed, current_lsn

\* Undoing a push and the records I before it is undoing I.
LEMMA PushWithout ==
    ASSUME NEW mm \in Map, NEW r \in UndoRecord, NEW v \in Values \cup {NoValue},
           r.value = mm.map[r.key],
           NEW I \in SUBSET (1 .. Len(mm.undo))
    PROVE  Without(Push(mm, r, v), I \cup {Len(mm.undo) + 1}) = Without(mm, I)
<1> DEFINE n == Len(mm.undo)
           m2 == Push(mm, r, v)
<1>0. Pushed(mm, r, v, m2, n)
    BY PushShape
<1>1. n \in Nat /\ DOMAIN mm.undo = 1 .. n
    BY <1>0 DEF Pushed
<1>2. /\ m2.map = [mm.map EXCEPT ![r.key] = v]
      /\ m2.undo[n + 1] = r
      /\ \A i \in 1 .. n : m2.undo[i] = mm.undo[i]
    BY <1>0 DEF Pushed
<1>3. DOMAIN mm.map = Keys /\ DOMAIN m2.map = Keys /\ r.key \in Keys
    BY <1>2 DEF Map, Contents, UndoRecord
<1> HIDE DEF n, m2
<1>4. ASSUME NEW k \in Keys
      PROVE  Without(m2, I \cup {n + 1})[k] = Without(mm, I)[k]
  <2> DEFINE S == {i \in I : mm.undo[i].key = k}
             T == {i \in I \cup {n + 1} : m2.undo[i].key = k}
  <2>0. /\ Without(m2, I \cup {n + 1})[k]
             = IF T = {} THEN m2.map[k] ELSE m2.undo[Min(T)].value
        /\ Without(mm, I)[k] = IF S = {} THEN mm.map[k] ELSE mm.undo[Min(S)].value
      BY <1>3 DEF Without
  <2>1. I \subseteq 1 .. n /\ S \in SUBSET (1 .. n)
      BY DEF n
  <2>2. CASE r.key = k
    <3>1. T = S \cup {n + 1}
        BY <1>2, <2>1, <2>2
    <3>2. CASE S = {}
      <4>1. T = {n + 1} /\ Min(T) = n + 1
          BY <3>1, <3>2, <1>1, MinOne
      <4> QED BY <2>0, <4>1, <3>2, <1>2, <2>2
    <3>3. CASE S # {}
      <4> HIDE DEF S, T
      <4>1. Min(T) = Min(S)
          BY <3>1, <3>3, <2>1, <1>1, MinAdd
      <4>2. Min(S) \in S
        <5>1. S \in SUBSET Nat BY <2>1, <1>1
        <5> QED BY <5>1, <3>3, MinOf
      <4>3. T # {} /\ Min(S) \in 1 .. n
          BY <3>1, <3>3, <4>2, <2>1
      <4> QED BY <2>0, <4>1, <4>3, <3>3, <1>2
    <3> QED BY <3>2, <3>3
  <2>3. CASE r.key # k
    <3>1. T = S
        BY <1>2, <2>1, <2>3
    <3>2. m2.map[k] = mm.map[k]
        BY <1>2, <1>3, <2>3
    <3>3. S # {} => Min(S) \in 1 .. n
      <4> HIDE DEF S
      <4>1. S \in SUBSET Nat BY <2>1, <1>1
      <4> QED BY <4>1, <2>1, MinOf
    <3> HIDE DEF S, T
    <3> QED BY <2>0, <3>1, <3>2, <3>3, <1>2
  <2> QED BY <2>2, <2>3
<1>5. Without(m2, I \cup {n + 1}) = [k \in Keys |-> Without(m2, I \cup {n + 1})[k]]
    BY <1>3 DEF Without
<1>6. Without(mm, I) = [k \in Keys |-> Without(mm, I)[k]]
    BY <1>3 DEF Without
<1>7. Without(m2, I \cup {n + 1}) = Without(mm, I)
  <2> DEFINE f == Without(m2, I \cup {n + 1})
             g == Without(mm, I)
  <2>1. f = [k \in Keys |-> f[k]] /\ g = [k \in Keys |-> g[k]]
      BY <1>5, <1>6
  <2>2. \A k \in Keys : f[k] = g[k]
      BY <1>4
  <2> HIDE DEF f, g
  <2>3. f = g
      BY <2>1, <2>2
  <2> QED BY <2>3 DEF f, g
<1> QED BY <1>7 DEF n, m2

\* Undoing nothing.
LEMMA WithoutNone ==
    ASSUME NEW mm \in Map
    PROVE  Without(mm, {}) = mm.map
<1>1. mm.map \in [Keys -> Values \cup {NoValue}]
    BY DEF Map, Contents
<1>2. Without(mm, {}) = [k \in DOMAIN mm.map |-> mm.map[k]]
    BY DEF Without
<1> QED BY <1>1, <1>2

\* current_lsn is the newest lsn of the log.
LEMMA Newest ==
    ASSUME NEW mm \in Map, Sorted(mm), MaxLsn \in Nat
    PROVE  /\ current_lsn(mm) \in Lsns
           /\ mm.checkpoint_lsn \in Lsns
           /\ current_lsn(mm) >= mm.checkpoint_lsn
           /\ \A i \in DOMAIN mm.undo : mm.undo[i].lsn <= current_lsn(mm)
<1>1. mm.undo \in Seq(UndoRecord) /\ mm.checkpoint_lsn \in Lsns
    BY DEF Map
<1>2. CASE mm.undo = <<>>
    BY <1>1, <1>2 DEF current_lsn, Lsns
<1>3. CASE mm.undo # <<>>
  <2>1. Len(mm.undo) \in DOMAIN mm.undo /\ mm.undo[Len(mm.undo)] \in UndoRecord
      BY <1>1, <1>3
  <2>2. current_lsn(mm) = mm.undo[Len(mm.undo)].lsn
      BY <1>3 DEF current_lsn
  <2>3. \A i \in DOMAIN mm.undo : i <= Len(mm.undo)
      BY <1>1
  <2> QED BY <1>1, <2>1, <2>2, <2>3 DEF Sorted, UndoRecord
<1> QED BY <1>2, <1>3

\* Sorted holds after a push exactly if the record may be pushed.
LEMMA PushSorted ==
    ASSUME NEW mm \in Map, NEW r \in UndoRecord, NEW v \in Values \cup {NoValue},
           MaxLsn \in Nat
    PROVE  /\ Sorted(mm) /\ r.lsn >= current_lsn(mm) => Sorted(Push(mm, r, v))
           /\ Sorted(Push(mm, r, v)) => Sorted(mm) /\ r.lsn >= current_lsn(mm)
<1> DEFINE n == Len(mm.undo)
           m2 == Push(mm, r, v)
<1>0. Pushed(mm, r, v, m2, n)
    BY PushShape
<1>1. /\ n \in Nat /\ DOMAIN mm.undo = 1 .. n
      /\ m2.checkpoint_lsn = mm.checkpoint_lsn
      /\ DOMAIN m2.undo = 1 .. (n + 1)
      /\ m2.undo[n + 1] = r
      /\ \A i \in 1 .. n : m2.undo[i] = mm.undo[i]
    BY <1>0 DEF Pushed
<1>2. mm.checkpoint_lsn \in Int /\ r.lsn \in Int /\ mm.undo \in Seq(UndoRecord)
    BY DEF Map, Lsns, UndoRecord
<1>3. \A i \in 1 .. n : mm.undo[i].lsn \in Int
  <2>1. \A i \in 1 .. n : mm.undo[i] \in UndoRecord
    <3> HIDE DEF n
    <3> QED BY <1>1, <1>2
  <2> QED BY <2>1 DEF UndoRecord, Lsns
<1>4. ASSUME Sorted(mm), r.lsn >= current_lsn(mm)
      PROVE  Sorted(m2)
  <2>1. /\ current_lsn(mm) \in Int
        /\ current_lsn(mm) >= mm.checkpoint_lsn
        /\ \A i \in 1 .. n : mm.undo[i].lsn <= current_lsn(mm)
      BY <1>4, <1>1, Newest DEF Lsns
  <2> HIDE DEF n, m2
  <2>2. ASSUME NEW i \in 1 .. (n + 1)
        PROVE  m2.undo[i].lsn >= m2.checkpoint_lsn
    <3>1. CASE i \in 1 .. n
        BY <3>1, <1>1, <1>4 DEF Sorted
    <3>2. CASE i = n + 1
        BY <3>2, <1>1, <1>2, <1>4, <2>1
    <3> QED BY <3>1, <3>2, <1>1
  <2>3. ASSUME NEW i \in 1 .. (n + 1), NEW j \in 1 .. (n + 1), i <= j
        PROVE  m2.undo[i].lsn <= m2.undo[j].lsn
    <3>1. CASE j \in 1 .. n
      <4>1. i \in 1 .. n BY <3>1, <2>3, <1>1
      <4> QED BY <3>1, <4>1, <2>3, <1>1, <1>4 DEF Sorted
    <3>2. CASE j = n + 1 /\ i \in 1 .. n
        BY <3>2, <1>1, <1>2, <1>3, <1>4, <2>1
    <3>3. CASE j = n + 1 /\ i = n + 1
        BY <3>3, <1>1, <1>2
    <3> QED BY <3>1, <3>2, <3>3, <1>1
  <2> QED BY <1>1, <2>2, <2>3 DEF Sorted
<1>5. ASSUME Sorted(m2)
      PROVE  Sorted(mm) /\ r.lsn >= current_lsn(mm)
  <2> HIDE DEF n, m2
  <2>1. Sorted(mm)
      BY <1>1, <1>5 DEF Sorted
  <2>2. CASE mm.undo = <<>>
    <3>1. m2.undo[n + 1].lsn >= m2.checkpoint_lsn
        BY <1>1, <1>5 DEF Sorted
    <3> QED BY <2>1, <2>2, <3>1, <1>1 DEF current_lsn
  <2>3. CASE mm.undo # <<>>
    <3>1. n \in 1 .. n
        BY <2>3, <1>1, <1>2 DEF n
    <3>2. m2.undo[n].lsn <= m2.undo[n + 1].lsn
        BY <1>1, <1>5, <3>1 DEF Sorted
    <3>3. current_lsn(mm) = mm.undo[n].lsn
        BY <2>3 DEF current_lsn, n
    <3> QED BY <2>1, <3>1, <3>2, <3>3, <1>1, <1>2, <1>3
  <2> QED BY <2>2, <2>3
<1> QED BY <1>4, <1>5

\* Flips holds after a push exactly if it holds before and the push flips.
LEMMA PushFlips ==
    ASSUME NEW mm \in Map, NEW r \in UndoRecord, NEW v \in Values \cup {NoValue},
           r.value = mm.map[r.key]
    PROVE  Flips(Push(mm, r, v))
             <=> Flips(mm) /\ (r.value = NoValue) # (v = NoValue)
<1> DEFINE n == Len(mm.undo)
           m2 == Push(mm, r, v)
           F(p, i) == (p.undo[i].value = NoValue)
                        # (Without(p, After(p, i))[p.undo[i].key] = NoValue)
<1>0. Pushed(mm, r, v, m2, n)
    BY PushShape
<1>1. /\ n \in Nat /\ DOMAIN mm.undo = 1 .. n
      /\ m2 \in Map
      /\ DOMAIN m2.undo = 1 .. (n + 1)
      /\ m2.undo[n + 1] = r
      /\ m2.map = [mm.map EXCEPT ![r.key] = v]
      /\ \A i \in 1 .. n : m2.undo[i] = mm.undo[i]
    BY <1>0 DEF Pushed
<1>2. ASSUME NEW i \in 1 .. n
      PROVE  Without(m2, After(m2, i)) = Without(mm, After(mm, i))
  <2>1. After(mm, i) \in SUBSET (1 .. n)
      BY <1>1 DEF After
  <2>2. After(m2, i) = After(mm, i) \cup {n + 1}
    <3> HIDE DEF n, m2
    <3> QED BY <1>1 DEF After
  <2> QED BY <2>1, <2>2, PushWithout
<1>3. Without(m2, After(m2, n + 1)) = m2.map
  <2>1. After(m2, n + 1) = {}
    <3> HIDE DEF n, m2
    <3> QED BY <1>1 DEF After
  <2> QED BY <1>1, <2>1, WithoutNone
<1>4. m2.map[r.key] = v
    BY <1>1 DEF Map, Contents, UndoRecord
<1> HIDE DEF n, m2
<1>5. Flips(m2) <=> \A i \in 1 .. (n + 1) : F(m2, i)
    BY <1>1 DEF Flips
<1>6. Flips(mm) <=> \A i \in 1 .. n : F(mm, i)
    BY <1>1 DEF Flips
<1>7. \A i \in 1 .. n : F(m2, i) <=> F(mm, i)
    BY <1>1, <1>2
<1>8. F(m2, n + 1) <=> (r.value = NoValue) # (v = NoValue)
    BY <1>1, <1>3, <1>4
<1> HIDE DEF F
<1>9. 1 .. (n + 1) = (1 .. n) \cup {n + 1}
    BY <1>1
<1>10. Flips(m2) <=> Flips(mm) /\ (r.value = NoValue) # (v = NoValue)
    BY <1>5, <1>6, <1>7, <1>8, <1>9
<1> QED BY <1>10 DEF m2

\* The contents at the last checkpoint are not changed by a push.
LEMMA PushAll ==
    ASSUME NEW mm \in Map, NEW r \in UndoRecord, NEW v \in Values \cup {NoValue},
           r.value = mm.map[r.key]
    PROVE  Without(Push(mm, r, v), DOMAIN Push(mm, r, v).undo)
             = Without(mm, DOMAIN mm.undo)
<1>1. Pushed(mm, r, v, Push(mm, r, v), Len(mm.undo))
    BY PushShape
<1>2. /\ DOMAIN mm.undo = 1 .. Len(mm.undo)
      /\ DOMAIN Push(mm, r, v).undo = (1 .. Len(mm.undo)) \cup {Len(mm.undo) + 1}
    BY <1>1 DEF Pushed
<1> QED BY <1>1, <1>2, PushWithout

\* A push changes no version older than its lsn, and is seen from then on.
LEMMA PushVersion ==
    ASSUME NEW mm \in Map, NEW r \in UndoRecord, NEW v \in Values \cup {NoValue},
           r.value = mm.map[r.key],
           Sorted(mm), r.lsn >= current_lsn(mm), MaxLsn \in Nat,
           NEW l \in Lsns
    PROVE  Without(Push(mm, r, v), Newer(Push(mm, r, v), l))
             = IF l < r.lsn THEN Without(mm, Newer(mm, l)) ELSE Push(mm, r, v).map
<1> DEFINE n == Len(mm.undo)
           m2 == Push(mm, r, v)
<1>0. Pushed(mm, r, v, m2, n)
    BY PushShape
<1>1. /\ n \in Nat /\ DOMAIN mm.undo = 1 .. n
      /\ m2 \in Map
      /\ DOMAIN m2.undo = 1 .. (n + 1)
      /\ m2.undo[n + 1] = r
      /\ \A i \in 1 .. n : m2.undo[i] = mm.undo[i]
    BY <1>0 DEF Pushed
<1>2. l \in Int /\ r.lsn \in Int /\ mm.undo \in Seq(UndoRecord)
    BY DEF Map, Lsns, UndoRecord
<1>3. \A i \in 1 .. n : mm.undo[i].lsn \in Int
  <2>1. \A i \in 1 .. n : mm.undo[i] \in UndoRecord
    <3> HIDE DEF n
    <3> QED BY <1>1, <1>2
  <2> QED BY <2>1 DEF UndoRecord, Lsns
<1>4. CASE l < r.lsn
  <2>1. Newer(m2, l) = Newer(mm, l) \cup {n + 1}
    <3> HIDE DEF n, m2
    <3> QED BY <1>1, <1>2, <1>4 DEF Newer
  <2>2. Newer(mm, l) \in SUBSET (1 .. n)
      BY <1>1 DEF Newer
  <2> QED BY <1>4, <2>1, <2>2, PushWithout
<1>5. CASE ~ (l < r.lsn)
  <2>1. /\ current_lsn(mm) \in Int
        /\ \A i \in 1 .. n : mm.undo[i].lsn <= current_lsn(mm)
      BY <1>1, Newest DEF Lsns
  <2>2. Newer(m2, l) = {}
    <3> HIDE DEF n, m2
    <3>1. \A i \in 1 .. (n + 1) : ~ (m2.undo[i].lsn > l)
        BY <1>1, <1>2, <1>3, <1>5, <2>1
    <3> QED BY <1>1, <3>1 DEF Newer
  <2> QED BY <1>1, <1>5, <2>2, WithoutNone
<1> QED BY <1>4, <1>5

\* A round of the loop of rollback_to_lsn takes a push back.
LEMMA UndoPush ==
    ASSUME NEW mm \in Map, mm.undo # <<>>
    PROVE  LET last == mm.undo[Len(mm.undo)]
               u == undo_last(mm)
           IN  /\ u \in Map /\ last \in UndoRecord
               /\ mm.map[last.key] \in Values \cup {NoValue}
               /\ u.map[last.key] = last.value
               /\ mm = Push(u, last, mm.map[last.key])
<1> DEFINE n == Len(mm.undo)
           last == mm.undo[n]
           u == undo_last(mm)
           s == SubSeq(mm.undo, 1, n - 1)
<1>1. /\ mm.map \in [Keys -> Values \cup {NoValue}]
      /\ mm.undo \in Seq(UndoRecord) /\ mm.checkpoint_lsn \in Lsns
    BY DEF Map, Contents
<1>2. n \in Nat /\ n >= 1 /\ last \in UndoRecord
    BY <1>1
<1>3. last.key \in Keys /\ last.value \in Values \cup {NoValue}
    BY <1>2 DEF UndoRecord
<1>4. s \in Seq(UndoRecord) /\ Append(s, last) = mm.undo
  <2>1. s \in Seq(UndoRecord) /\ Len(s) = n - 1
        /\ \A i \in 1 .. (n - 1) : s[i] = mm.undo[i]
      BY <1>1, <1>2
  <2> QED BY <2>1, <1>1, <1>2
<1>9. mm = [map |-> mm.map, undo |-> mm.undo, checkpoint_lsn |-> mm.checkpoint_lsn]
    BY DEF Map
<1>5. u = [map |-> [mm.map EXCEPT ![last.key] = last.value],
           undo |-> s, checkpoint_lsn |-> mm.checkpoint_lsn]
    BY <1>9 DEF undo_last
<1> HIDE DEF last, s, u
<1>6. u \in Map
    BY <1>1, <1>3, <1>4, <1>5 DEF Map, Contents
<1>7. u.map[last.key] = last.value /\ mm.map[last.key] \in Values \cup {NoValue}
    BY <1>1, <1>3, <1>5
<1>8. [u.map EXCEPT ![last.key] = mm.map[last.key]] = mm.map
    BY <1>1, <1>3, <1>5
<1>10. mm = Push(u, last, mm.map[last.key])
    BY <1>4, <1>5, <1>8, <1>9 DEF Push
<1> QED BY <1>2, <1>6, <1>7, <1>10 DEF last, u, n

\* From the newest lsn on, the contents are the map.
LEMMA VersionNow ==
    ASSUME NEW mm \in Map, Sorted(mm), MaxLsn \in Nat,
           NEW l \in Lsns, l >= current_lsn(mm)
    PROVE  Without(mm, Newer(mm, l)) = mm.map
<1>1. mm.undo \in Seq(UndoRecord)
    BY DEF Map
<1>2. \A i \in DOMAIN mm.undo : mm.undo[i].lsn \in Int
  <2>1. \A i \in DOMAIN mm.undo : mm.undo[i] \in UndoRecord
      BY <1>1
  <2> QED BY <2>1 DEF UndoRecord, Lsns
<1>3. /\ current_lsn(mm) \in Int
      /\ \A i \in DOMAIN mm.undo : mm.undo[i].lsn <= current_lsn(mm)
    BY Newest DEF Lsns
<1>4. Newer(mm, l) = {}
    BY <1>2, <1>3 DEF Newer, Lsns
<1> QED BY <1>4, WithoutNone

\* What a write at lsn does: m2 is a log again, over the same checkpoint, and
\* only the versions from lsn on are changed.
Written(mm, m2, lsn) ==
    /\ m2 \in Map
    /\ LogInv(m2)
    /\ m2.checkpoint_lsn = mm.checkpoint_lsn
    /\ Without(m2, DOMAIN m2.undo) = Without(mm, DOMAIN mm.undo)
    /\ current_lsn(m2) = lsn
    /\ \A l \in Lsns :
         Without(m2, Newer(m2, l))
           = IF l < lsn THEN Without(mm, Newer(mm, l)) ELSE m2.map

LEMMA PushWrites ==
    ASSUME NEW mm \in Map, LogInv(mm), MaxLsn \in Nat,
           NEW r, NEW v, Pushable(mm, r, v)
    PROVE  Written(mm, Push(mm, r, v), r.lsn)
<1>1. r \in UndoRecord /\ v \in Values \cup {NoValue} /\ r.value = mm.map[r.key]
      /\ r.lsn >= current_lsn(mm) /\ (r.value = NoValue) # (v = NoValue)
    BY DEF Pushable
<1>2. Sorted(mm) /\ Flips(mm)
    BY DEF LogInv
<1>3. Pushed(mm, r, v, Push(mm, r, v), Len(mm.undo))
    BY <1>1, PushShape
<1>4. LogInv(Push(mm, r, v))
    BY <1>1, <1>2, PushSorted, PushFlips DEF LogInv
<1>5. \A l \in Lsns :
        Without(Push(mm, r, v), Newer(Push(mm, r, v), l))
          = IF l < r.lsn THEN Without(mm, Newer(mm, l)) ELSE Push(mm, r, v).map
    BY <1>1, <1>2, PushVersion
<1>6. Without(Push(mm, r, v), DOMAIN Push(mm, r, v).undo)
        = Without(mm, DOMAIN mm.undo)
    BY <1>1, PushAll
<1> QED BY <1>3, <1>4, <1>5, <1>6 DEF Written, Pushed

LEMMA WriteTwice ==
    ASSUME NEW mm, NEW m1, NEW m2, NEW lsn,
           Written(mm, m1, lsn), Written(m1, m2, lsn)
    PROVE  Written(mm, m2, lsn)
    BY DEF Written

LEMMA UndoIsRecord ==
    ASSUME NEW lsn \in Lsns, NEW k \in Keys, NEW v \in Values \cup {NoValue}
    PROVE  /\ Undo(lsn, k, v) \in UndoRecord
           /\ Undo(lsn, k, v).lsn = lsn
           /\ Undo(lsn, k, v).key = k
           /\ Undo(lsn, k, v).value = v
    BY DEF Undo, UndoRecord

LEMMA InsertWrites ==
    ASSUME NEW mm \in Map, LogInv(mm), MaxLsn \in Nat, NoValue \notin Values,
           NEW lsn \in Lsns, NEW k \in Keys, NEW v \in Values,
           lsn >= current_lsn(mm)
    PROVE  Written(mm, insert(mm, lsn, k, v), lsn)
<1> DEFINE old == Undo(lsn, k, mm.map[k])
           added == Undo(lsn, k, NoValue)
<1>1. mm.map \in [Keys -> Values \cup {NoValue}]
    BY DEF Map, Contents
<1>2. /\ old \in UndoRecord /\ old.lsn = lsn /\ old.key = k /\ old.value = mm.map[k]
      /\ added \in UndoRecord /\ added.lsn = lsn /\ added.key = k
      /\ added.value = NoValue
  <2>1. mm.map[k] \in Values \cup {NoValue} BY <1>1
  <2> QED BY <2>1, UndoIsRecord
<1>3. insert(mm, lsn, k, v)
        = [map |-> [mm.map EXCEPT ![k] = v],
           undo |-> IF mm.map[k] = NoValue THEN Append(mm.undo, added)
                    ELSE Append(Append(mm.undo, old), added),
           checkpoint_lsn |-> mm.checkpoint_lsn]
    BY DEF insert
<1> HIDE DEF old, added
<1>4. CASE mm.map[k] = NoValue
  <2>1. Pushable(mm, added, v)
      BY <1>2, <1>4 DEF Pushable
  <2>2. insert(mm, lsn, k, v) = Push(mm, added, v)
      BY <1>2, <1>3, <1>4 DEF Push
  <2>3. Written(mm, Push(mm, added, v), added.lsn)
      BY <2>1, PushWrites
  <2> QED BY <2>2, <2>3, <1>2
<1>5. CASE mm.map[k] # NoValue
  <2> DEFINE m1 == Push(mm, old, NoValue)
  <2>1. Pushable(mm, old, NoValue)
      BY <1>2, <1>5 DEF Pushable
  <2>2. Written(mm, m1, lsn)
      BY <2>1, <1>2, PushWrites
  <2>3. /\ m1.map = [mm.map EXCEPT ![k] = NoValue]
        /\ m1.undo = Append(mm.undo, old)
        /\ m1.checkpoint_lsn = mm.checkpoint_lsn
      BY <1>2 DEF Push
  <2> HIDE DEF m1
  <2>4. m1 \in Map /\ LogInv(m1) /\ current_lsn(m1) = lsn
      BY <2>2 DEF Written
  <2>5. m1.map[k] = NoValue /\ lsn >= lsn
      BY <2>3, <1>1 DEF Lsns
  <2>6. Pushable(m1, added, v)
      BY <1>2, <2>4, <2>5 DEF Pushable
  <2>7. Written(m1, Push(m1, added, v), added.lsn)
      BY <2>4, <2>6, PushWrites
  <2>8. insert(mm, lsn, k, v) = Push(m1, added, v)
    <3>1. [[mm.map EXCEPT ![k] = NoValue] EXCEPT ![k] = v] = [mm.map EXCEPT ![k] = v]
        BY <1>1
    <3> QED BY <1>2, <1>3, <1>5, <2>3, <3>1 DEF Push
  <2> QED BY <1>2, <2>2, <2>7, <2>8, WriteTwice
<1> QED BY <1>4, <1>5

LEMMA RemoveWrites ==
    ASSUME NEW mm \in Map, LogInv(mm), MaxLsn \in Nat,
           NEW lsn \in Lsns, NEW k \in Keys,
           lsn >= current_lsn(mm), mm.map[k] # NoValue
    PROVE  Written(mm, remove(mm, lsn, k), lsn)
<1> DEFINE old == Undo(lsn, k, mm.map[k])
<1>1. mm.map[k] \in Values \cup {NoValue}
    BY DEF Map, Contents
<1>2. old \in UndoRecord /\ old.lsn = lsn /\ old.key = k /\ old.value = mm.map[k]
    BY <1>1, UndoIsRecord
<1>3. remove(mm, lsn, k)
        = [map |-> [mm.map EXCEPT ![k] = NoValue],
           undo |-> Append(mm.undo, old),
           checkpoint_lsn |-> mm.checkpoint_lsn]
    BY DEF remove
<1> HIDE DEF old
<1>4. Pushable(mm, old, NoValue)
    BY <1>2 DEF Pushable
<1>5. remove(mm, lsn, k) = Push(mm, old, NoValue)
    BY <1>2, <1>3 DEF Push
<1> QED BY <1>2, <1>4, <1>5, PushWrites

\* What a round of the rollback loop does: it takes back a record of the newest
\* lsn, which flips its key, and keeps every version older than that.
LEMMA UndoKeeps ==
    ASSUME NEW mm \in Map, LogInv(mm), mm.undo # <<>>, MaxLsn \in Nat
    PROVE  LET last == mm.undo[Len(mm.undo)]
               u == undo_last(mm)
           IN  /\ u \in Map
               /\ LogInv(u)
               /\ u.checkpoint_lsn = mm.checkpoint_lsn
               /\ Without(u, DOMAIN u.undo) = Without(mm, DOMAIN mm.undo)
               /\ (last.value = NoValue) # (mm.map[last.key] = NoValue)
               /\ last.lsn = current_lsn(mm)
               /\ \A l \in Lsns : l < last.lsn =>
                    Without(u, Newer(u, l)) = Without(mm, Newer(mm, l))
<1> DEFINE last == mm.undo[Len(mm.undo)]
           u == undo_last(mm)
           v == mm.map[last.key]
<1>1. /\ u \in Map /\ last \in UndoRecord
      /\ v \in Values \cup {NoValue}
      /\ u.map[last.key] = last.value
      /\ mm = Push(u, last, v)
    BY UndoPush
<1>2. last.lsn = current_lsn(mm)
    BY DEF current_lsn
<1> HIDE DEF last, u, v
<1>3. Sorted(Push(u, last, v)) /\ Flips(Push(u, last, v))
    BY <1>1 DEF LogInv
<1>4. Sorted(u) /\ last.lsn >= current_lsn(u)
    BY <1>1, <1>3, PushSorted
<1>5. Flips(u) /\ (last.value = NoValue) # (v = NoValue)
    BY <1>1, <1>3, PushFlips
<1>6. Without(u, DOMAIN u.undo) = Without(mm, DOMAIN mm.undo)
    BY <1>1, PushAll
<1>7. \A l \in Lsns : l < last.lsn =>
        Without(u, Newer(u, l)) = Without(mm, Newer(mm, l))
    BY <1>1, <1>4, PushVersion
<1>8. u.checkpoint_lsn = mm.checkpoint_lsn
    BY <1>1 DEF Push
<1> QED BY <1>1, <1>2, <1>4, <1>5, <1>6, <1>7, <1>8 DEF last, u, v, LogInv

-----------------------------------------------------------------------------
(* The inductive invariant *)

LEMMA TypeIsMap == TypeOK <=> m \in Map /\ to_lsn \in Lsns \cup {NoLsn} /\ disk \in Contents
    BY DEF TypeOK, Map

\* A map with an empty log.
LEMMA EmptyLog ==
    ASSUME NEW c \in Contents, NEW lsn \in Lsns
    PROVE  LET mm == [map |-> c, undo |-> <<>>, checkpoint_lsn |-> lsn]
           IN  /\ mm \in Map /\ LogInv(mm)
               /\ current_lsn(mm) = lsn
               /\ Without(mm, DOMAIN mm.undo) = c
               /\ \A l \in Lsns : Without(mm, Newer(mm, l)) = c
<1> DEFINE mm == [map |-> c, undo |-> <<>>, checkpoint_lsn |-> lsn]
<1>1. mm \in Map /\ mm.undo = <<>> /\ mm.map = c /\ mm.checkpoint_lsn = lsn
    BY DEF Map
<1> HIDE DEF mm
<1>2. DOMAIN mm.undo = {}
    BY <1>1
<1>3. LogInv(mm)
    BY <1>2 DEF LogInv, Sorted, Flips
<1>4. \A l \in Lsns : Newer(mm, l) = {}
    BY <1>2 DEF Newer
<1>5. Without(mm, {}) = c
    BY <1>1, WithoutNone
<1> QED BY <1>1, <1>2, <1>3, <1>4, <1>5 DEF mm, current_lsn

\* The patch of checkpoint() makes the copy on the disk equal to the map.
LEMMA PatchIsMap ==
    ASSUME m \in Map, DiskIsCheckpoint
    PROVE  reverse_patch(m, disk) = m.map
<1>1. m.map \in [Keys -> Values \cup {NoValue}]
    BY DEF Map, Contents
<1>2. ASSUME NEW k \in Keys, ~ \E i \in DOMAIN m.undo : m.undo[i].key = k
      PROVE  disk[k] = m.map[k]
    BY <1>1, <1>2 DEF DiskIsCheckpoint, Without
<1>3. reverse_patch(m, disk) = [k \in Keys |-> m.map[k]]
    BY <1>1, <1>2 DEF reverse_patch
<1> QED BY <1>1, <1>3

LEMMA InitIInv == Init => IInv
<1> SUFFICES ASSUME Init PROVE IInv
    OBVIOUS
<1> DEFINE none == [k \in Keys |-> NoValue]
<1>1. none \in Contents /\ 0 \in Lsns
    BY MvccAssumption DEF Contents, Lsns
<1>2. /\ m = [map |-> none, undo |-> <<>>, checkpoint_lsn |-> 0]
      /\ to_lsn = NoLsn /\ disk = none
    BY DEF Init, new
<1> HIDE DEF none
<1>3. m \in Map /\ LogInv(m) /\ Without(m, DOMAIN m.undo) = none
    BY <1>1, <1>2, EmptyLog
<1>4. TypeOK
    BY <1>1, <1>2, <1>3, TypeIsMap
<1> QED BY <1>2, <1>3, <1>4 DEF IInv, Idle, DiskIsCheckpoint

\* A write or a round of the loop keeps the invariant.
LEMMA SameCheckpoint ==
    ASSUME IInv, m' \in Map, LogInv(m'), m'.checkpoint_lsn = m.checkpoint_lsn,
           Without(m', DOMAIN m'.undo) = Without(m, DOMAIN m.undo),
           UNCHANGED <<to_lsn, disk>>
    PROVE  IInv'
<1>1. m' \in Map /\ to_lsn' \in Lsns \cup {NoLsn} /\ disk' \in Contents
    BY TypeIsMap DEF IInv
<1>2. TypeOK'
    BY <1>1 DEF TypeOK, Map
<1> QED BY <1>2 DEF IInv, Idle, DiskIsCheckpoint

\* The rollback loop finds a record to undo.
LEMMA LoopFinds ==
    ASSUME IInv, ~ Idle, current_lsn(m) > to_lsn
    PROVE  m.undo # <<>> /\ m \in Map /\ LogInv(m)
<1>1. m \in Map /\ LogInv(m) /\ to_lsn >= m.checkpoint_lsn /\ to_lsn \in Lsns
    BY TypeIsMap DEF IInv, Idle
<1>2. m.checkpoint_lsn \in Int /\ to_lsn \in Int
    BY <1>1 DEF Map, Lsns
<1> QED BY <1>1, <1>2 DEF current_lsn

LEMMA StepIInv == IInv /\ [Next]_vars => IInv'
<1> SUFFICES ASSUME IInv, [Next]_vars PROVE IInv'
    OBVIOUS
<1>0. /\ m \in Map /\ to_lsn \in Lsns \cup {NoLsn} /\ disk \in Contents
      /\ LogInv(m) /\ DiskIsCheckpoint /\ TypeOK
      /\ MaxLsn \in Nat /\ NoValue \notin Values
    BY TypeIsMap, MvccAssumption DEF IInv
<1>1. ASSUME NEW lsn \in Lsns, NEW k \in Keys, NEW v \in Values, Insert(lsn, k, v)
      PROVE  IInv'
  <2>1. Written(m, insert(m, lsn, k, v), lsn)
      BY <1>0, <1>1, InsertWrites DEF Insert
  <2> QED BY <2>1, <1>1, SameCheckpoint DEF Insert, Written
<1>2. ASSUME NEW lsn \in Lsns, NEW k \in Keys, Remove(lsn, k)
      PROVE  IInv'
  <2>1. CASE m.map[k] = NoValue
      BY <2>1, <1>0, <1>2, SameCheckpoint DEF Remove, remove
  <2>2. CASE m.map[k] # NoValue
    <3>1. Written(m, remove(m, lsn, k), lsn)
        BY <1>0, <1>2, <2>2, RemoveWrites DEF Remove
    <3> QED BY <3>1, <1>2, SameCheckpoint DEF Remove, Written
  <2> QED BY <2>1, <2>2
<1>3. ASSUME NEW lsn \in Lsns, Rollback(lsn)
      PROVE  IInv'
  <2>1. TypeOK'
      BY <1>0, <1>3 DEF Rollback, TypeOK
  <2> QED BY <1>0, <1>3, <2>1 DEF IInv, Rollback, Idle, DiskIsCheckpoint
<1>4. CASE Checkpoint
  <2>1. m.map \in Contents /\ current_lsn(m) \in Lsns
      BY <1>0, Newest DEF Map, LogInv
  <2>2. /\ m' = [map |-> m.map, undo |-> <<>>, checkpoint_lsn |-> current_lsn(m)]
        /\ disk' = m.map /\ to_lsn' = to_lsn /\ Idle
      BY <1>0, <1>4, PatchIsMap DEF Checkpoint, checkpoint
  <2>3. m' \in Map /\ LogInv(m') /\ Without(m', DOMAIN m'.undo) = m.map
      BY <2>1, <2>2, EmptyLog
  <2>4. TypeOK'
      BY <1>0, <2>1, <2>2, <2>3 DEF TypeOK, Map
  <2> QED BY <2>2, <2>3, <2>4 DEF IInv, Idle, DiskIsCheckpoint
<1>5. CASE UndoLast
  <2>1. m.undo # <<>>
      BY <1>5, LoopFinds DEF UndoLast
  <2>2. /\ m' \in Map /\ LogInv(m') /\ m'.checkpoint_lsn = m.checkpoint_lsn
        /\ Without(m', DOMAIN m'.undo) = Without(m, DOMAIN m.undo)
      BY <1>0, <1>5, <2>1, UndoKeeps DEF UndoLast
  <2> QED BY <1>5, <2>2, SameCheckpoint DEF UndoLast
<1>6. CASE RollbackDone
  <2>1. TypeOK'
      BY <1>0, <1>6 DEF RollbackDone, TypeOK
  <2> QED BY <1>0, <1>6, <2>1 DEF IInv, RollbackDone, Idle, DiskIsCheckpoint
<1>7. CASE Reset
  <2> DEFINE none == [k \in Keys |-> NoValue]
  <2>1. none \in Contents /\ 0 \in Lsns
      BY <1>0 DEF Contents, Lsns
  <2>2. /\ m' = [map |-> none, undo |-> <<>>, checkpoint_lsn |-> 0]
        /\ disk' = none /\ to_lsn' = to_lsn /\ Idle
    <3>1. disk = none
        BY <1>0, <1>7 DEF Reset, Contents
    <3> QED BY <1>7, <3>1 DEF Reset, new
  <2> HIDE DEF none
  <2>3. m' \in Map /\ LogInv(m') /\ Without(m', DOMAIN m'.undo) = none
      BY <2>1, <2>2, EmptyLog
  <2>4. TypeOK'
      BY <1>0, <2>1, <2>2, <2>3 DEF TypeOK, Map
  <2> QED BY <2>2, <2>3, <2>4 DEF IInv, Idle, DiskIsCheckpoint
<1>8. CASE UNCHANGED vars
    BY <1>8 DEF vars, IInv, TypeOK, Idle, DiskIsCheckpoint, LogInv
<1> QED BY <1>1, <1>2, <1>3, <1>4, <1>5, <1>6, <1>7, <1>8 DEF Next

\* IInv holds in every state of the map.
THEOREM IInvariant == Spec => []IInv
<1>1. Init => IInv
    BY InitIInv
<1>2. IInv /\ [Next]_vars => IInv'
    BY StepIInv
<1> QED BY <1>1, <1>2, PTL DEF Spec

\* The map, its undo log and the copy in the database stay well-formed.
THEOREM TypeCorrect == Spec => []TypeOK
<1>1. IInv => TypeOK
    BY DEF IInv
<1> QED BY <1>1, IInvariant, PTL

\* No assert of rollback_to_lsn fires, after any writes, checkpoints and
\* rollbacks.
THEOREM RollbackNeverPanics == Spec => []UndoAsserts
<1>1. IInv => UndoAsserts
  <2> SUFFICES ASSUME IInv, ~ Idle, current_lsn(m) > to_lsn
               PROVE  /\ m.undo # <<>>
                      /\ LET last == m.undo[Len(m.undo)]
                         IN  /\ last.lsn > to_lsn
                             /\ (last.value = NoValue)
                                  # (m.map[last.key] = NoValue)
      BY DEF UndoAsserts
  <2>1. m.undo # <<>> /\ m \in Map /\ LogInv(m)
      BY LoopFinds
  <2> QED BY <2>1, UndoKeeps, MvccAssumption
<1> QED BY <1>1, IInvariant, PTL

\* The patch of checkpoint() is complete: the database always has the contents
\* of the last checkpoint.
THEOREM DatabaseHasCheckpoint == Spec => []DiskIsCheckpoint
<1>1. IInv => DiskIsCheckpoint
    BY DEF IInv
<1> QED BY <1>1, IInvariant, PTL

-----------------------------------------------------------------------------
(* Refinement of VersionedMap *)

\* The contents at l when no rollback is running, and when one to t is.
LEMMA VersionIdle ==
    ASSUME NEW mm, NEW l
    PROVE  Version(mm, NoLsn, l) = Without(mm, Newer(mm, l))
    BY DEF Version

LEMMA VersionDuring ==
    ASSUME NEW mm, NEW t \in Lsns, NEW l \in Lsns
    PROVE  Version(mm, t, l) = Without(mm, Newer(mm, IF l > t THEN t ELSE l))
    BY MvccAssumption DEF Version

LEMMA WriteImplements ==
    ASSUME IInv, Idle, NEW lsn \in Lsns, lsn >= current_lsn(m),
           NEW k \in Keys, NEW v \in Values \cup {NoValue},
           Written(m, m', lsn), m'.map = [m.map EXCEPT ![k] = v],
           to_lsn' = to_lsn
    PROVE  Versions!Write(lsn, k, v)
<1>1. m \in Map /\ Sorted(m) /\ to_lsn = NoLsn /\ MaxLsn \in Nat
    BY TypeIsMap, MvccAssumption DEF IInv, LogInv, Idle
<1>2. /\ current_lsn(m) \in Int /\ m.checkpoint_lsn \in Int
      /\ current_lsn(m) >= m.checkpoint_lsn
    BY <1>1, Newest DEF Lsns
<1>3. \A l \in Lsns : l >= lsn => Version(m, to_lsn, l) = m.map
  <2> SUFFICES ASSUME NEW l \in Lsns, l >= lsn PROVE Version(m, to_lsn, l) = m.map
      OBVIOUS
  <2>1. l >= current_lsn(m)
      BY <1>2 DEF Lsns
  <2> QED BY <2>1, <1>1, VersionNow, VersionIdle
<1>4. \A l \in Lsns : Version(m, to_lsn, l)' =
        IF l < lsn THEN Version(m, to_lsn, l) ELSE [m.map EXCEPT ![k] = v]
  <2> SUFFICES ASSUME NEW l \in Lsns
               PROVE  Version(m', to_lsn', l) =
                        IF l < lsn THEN Version(m, to_lsn, l)
                        ELSE [m.map EXCEPT ![k] = v]
      BY DEF Version, Without, Newer
  <2> QED BY <1>1, VersionIdle DEF Written
<1>5. lsn >= lsn /\ lsn >= m.checkpoint_lsn
    BY <1>2 DEF Lsns
<1>6. Versions!Last(lsn)
    BY <1>3, <1>5 DEF Versions!Last, Versions!Lsns, Lsns
<1>7. [l \in Lsns |-> Version(m, to_lsn, l)]' =
        [l \in Lsns |-> IF l < lsn THEN Version(m, to_lsn, l)
                        ELSE [m.map EXCEPT ![k] = v]]
    BY <1>4
<1>8. m'.checkpoint_lsn = m.checkpoint_lsn
    BY DEF Written
<1> QED BY <1>3, <1>5, <1>6, <1>7, <1>8 DEF Versions!Write, Versions!Lsns, Lsns

\* The contents at every lsn, that is versions of the refinement mapping.
AllVersions == [l \in Lsns |-> Version(m, to_lsn, l)]

LEMMA InitImplements == Init => Versions!Init
<1> SUFFICES ASSUME Init PROVE Versions!Init
    OBVIOUS
<1> DEFINE none == [k \in Keys |-> NoValue]
<1>1. none \in Contents /\ 0 \in Lsns
    BY MvccAssumption DEF Contents, Lsns
<1>2. m = [map |-> none, undo |-> <<>>, checkpoint_lsn |-> 0] /\ to_lsn = NoLsn
    BY DEF Init, new
<1>3. \A l \in Lsns : Version(m, to_lsn, l) = none
  <2> HIDE DEF none
  <2> QED BY <1>1, <1>2, EmptyLog, VersionIdle
<1>4. AllVersions = [l \in Lsns |-> none]
    BY <1>3 DEF AllVersions
<1> QED BY <1>2, <1>4
        DEF Versions!Init, Versions!Empty, Versions!Lsns, Lsns, AllVersions

LEMMA StepImplements == IInv /\ [Next]_vars => [Versions!Next]_(Versions!vars)
<1> SUFFICES ASSUME IInv, [Next]_vars
             PROVE  Versions!Next \/ (AllVersions' = AllVersions
                                      /\ m.checkpoint_lsn' = m.checkpoint_lsn)
    BY DEF Versions!vars, AllVersions
<1>0. /\ m \in Map /\ to_lsn \in Lsns \cup {NoLsn}
      /\ LogInv(m) /\ Sorted(m)
      /\ MaxLsn \in Nat /\ NoValue \notin Values /\ NoLsn \notin Lsns
    BY TypeIsMap, MvccAssumption DEF IInv, LogInv
<1>a. Versions!Lsns = Lsns
    BY DEF Versions!Lsns, Lsns
<1>1. ASSUME NEW lsn \in Lsns, NEW k \in Keys, NEW v \in Values, Insert(lsn, k, v)
      PROVE  Versions!Next
  <2>1. Written(m, m', lsn) /\ lsn >= current_lsn(m) /\ Idle /\ to_lsn' = to_lsn
      BY <1>0, <1>1, InsertWrites DEF Insert
  <2>2. m'.map = [m.map EXCEPT ![k] = v]
      BY <1>1 DEF Insert, insert
  <2>3. Versions!Write(lsn, k, v)
      BY <2>1, <2>2, WriteImplements
  <2> QED BY <2>3, <1>a DEF Versions!Next
<1>2. ASSUME NEW lsn \in Lsns, NEW k \in Keys, Remove(lsn, k)
      PROVE  Versions!Next \/ (m' = m /\ to_lsn' = to_lsn)
  <2>1. CASE m.map[k] = NoValue
      BY <2>1, <1>2 DEF Remove, remove
  <2>2. CASE m.map[k] # NoValue
    <3>1. Written(m, m', lsn) /\ lsn >= current_lsn(m) /\ Idle /\ to_lsn' = to_lsn
        BY <1>0, <1>2, <2>2, RemoveWrites DEF Remove
    <3>2. m'.map = [m.map EXCEPT ![k] = NoValue]
        BY <1>2, <2>2 DEF Remove, remove
    <3>3. Versions!Write(lsn, k, NoValue)
        BY <3>1, <3>2, WriteImplements
    <3> QED BY <3>3, <1>a DEF Versions!Next
  <2> QED BY <2>1, <2>2
<1>3. ASSUME NEW lsn \in Lsns, Rollback(lsn)
      PROVE  Versions!Next
  <2>1. to_lsn = NoLsn /\ to_lsn' = lsn /\ m' = m /\ lsn >= m.checkpoint_lsn
      BY <1>3 DEF Rollback, Idle
  <2>2. ASSUME NEW l \in Lsns
        PROVE  Version(m', to_lsn', l) = AllVersions[IF l < lsn THEN l ELSE lsn]
    <3>1. Version(m', to_lsn', l) = Without(m, Newer(m, IF l > lsn THEN lsn ELSE l))
        BY <2>1, VersionDuring
    <3>2. (IF l > lsn THEN lsn ELSE l) = (IF l < lsn THEN l ELSE lsn)
          /\ (IF l < lsn THEN l ELSE lsn) \in Lsns
        BY DEF Lsns
    <3> QED BY <2>1, <3>1, <3>2, VersionIdle DEF AllVersions
  <2>3. AllVersions' = [l \in Lsns |-> AllVersions[IF l < lsn THEN l ELSE lsn]]
      BY <2>2 DEF AllVersions
  <2>4. Versions!Rollback(lsn)
      BY <2>1, <2>3, <1>a DEF Versions!Rollback, AllVersions
  <2> QED BY <2>4, <1>a DEF Versions!Next
<1>4. CASE Checkpoint
  <2> DEFINE lsn == current_lsn(m)
  <2>1. /\ m.map \in Contents /\ lsn \in Lsns /\ m.checkpoint_lsn \in Lsns
        /\ lsn >= m.checkpoint_lsn
      BY <1>0, Newest DEF Map
  <2>2. /\ m' = [map |-> m.map, undo |-> <<>>, checkpoint_lsn |-> lsn]
        /\ to_lsn' = NoLsn /\ to_lsn = NoLsn
      BY <1>4 DEF Checkpoint, checkpoint, Idle
  <2> HIDE DEF lsn
  <2>3. \A l \in Lsns : Version(m', to_lsn', l) = m.map
      BY <2>1, <2>2, EmptyLog, VersionIdle
  <2>4. \A l \in Lsns : l >= lsn => Version(m, to_lsn, l) = m.map
      BY <1>0, <2>2, VersionNow, VersionIdle DEF lsn
  <2>5. lsn >= lsn
      BY <2>1 DEF Lsns
  <2>6. AllVersions' = [l \in Lsns |-> AllVersions[lsn]] /\ m.checkpoint_lsn' = lsn
    <3>1. AllVersions[lsn] = m.map
        BY <2>1, <2>4, <2>5 DEF AllVersions
    <3> QED BY <2>2, <2>3, <3>1 DEF AllVersions
  <2>7. Versions!Last(lsn)
      BY <2>1, <2>4, <2>5, <1>a DEF Versions!Last
  <2>8. Versions!Checkpoint(lsn)
      BY <2>1, <2>6, <2>7, <1>a DEF Versions!Checkpoint, AllVersions
  <2> QED BY <2>1, <2>8, <1>a DEF Versions!Next
<1>5. CASE UndoLast
  <2>1. to_lsn # NoLsn /\ to_lsn \in Lsns /\ current_lsn(m) > to_lsn
        /\ to_lsn' = to_lsn /\ m' = undo_last(m)
      BY <1>0, <1>5 DEF UndoLast, Idle
  <2>2. m.undo # <<>>
      BY <1>5, LoopFinds DEF UndoLast
  <2>3. /\ m'.checkpoint_lsn = m.checkpoint_lsn
        /\ \A l \in Lsns : l < current_lsn(m) =>
             Without(m', Newer(m', l)) = Without(m, Newer(m, l))
      BY <1>0, <2>1, <2>2, UndoKeeps
  <2>4. ASSUME NEW l \in Lsns
        PROVE  Version(m', to_lsn', l) = Version(m, to_lsn, l)
    <3> DEFINE s == IF l > to_lsn THEN to_lsn ELSE l
    <3>1. current_lsn(m) \in Int
        BY <1>0, Newest DEF Lsns
    <3>2. s \in Lsns /\ s < current_lsn(m)
        BY <2>1, <3>1 DEF Lsns
    <3> QED BY <2>1, <2>3, <3>2, VersionDuring
  <2> QED BY <2>3, <2>4 DEF AllVersions
<1>6. CASE RollbackDone
  <2>1. to_lsn # NoLsn /\ to_lsn \in Lsns /\ current_lsn(m) <= to_lsn
        /\ to_lsn' = NoLsn /\ m' = m
      BY <1>0, <1>6 DEF RollbackDone, Idle
  <2>2. ASSUME NEW l \in Lsns
        PROVE  Version(m', to_lsn', l) = Version(m, to_lsn, l)
    <3>1. current_lsn(m) \in Int
        BY <1>0, Newest DEF Lsns
    <3>2. CASE l > to_lsn
      <4>1. l >= current_lsn(m) /\ to_lsn >= current_lsn(m)
          BY <2>1, <3>1, <3>2 DEF Lsns
      <4>2. Version(m', to_lsn', l) = m.map
          BY <1>0, <2>1, <4>1, VersionNow, VersionIdle
      <4>3. Version(m, to_lsn, l) = m.map
          BY <1>0, <2>1, <3>2, <4>1, VersionNow, VersionDuring
      <4> QED BY <4>2, <4>3
    <3>3. CASE ~ (l > to_lsn)
        BY <2>1, <3>3, VersionDuring, VersionIdle
    <3> QED BY <3>2, <3>3
  <2> QED BY <2>1, <2>2 DEF AllVersions
<1>7. CASE Reset
  <2> DEFINE none == [k \in Keys |-> NoValue]
  <2>1. none \in Contents /\ 0 \in Lsns
      BY <1>0 DEF Contents, Lsns
  <2>2. /\ m' = [map |-> none, undo |-> <<>>, checkpoint_lsn |-> 0]
        /\ to_lsn' = NoLsn
      BY <1>7 DEF Reset, new, Idle
  <2>3. \A l \in Lsns : Version(m', to_lsn', l) = none
    <3> HIDE DEF none
    <3> QED BY <2>1, <2>2, EmptyLog, VersionIdle
  <2>4. AllVersions' = [l \in Lsns |-> none] /\ m.checkpoint_lsn' = 0
      BY <2>2, <2>3 DEF AllVersions
  <2> QED BY <2>4, <1>a
          DEF Versions!Next, Versions!Reset, Versions!Empty, AllVersions
<1>8. CASE m' = m /\ to_lsn' = to_lsn
    BY <1>8 DEF AllVersions
<1> QED BY <1>1, <1>2, <1>3, <1>4, <1>5, <1>6, <1>7, <1>8 DEF Next, vars

\* The map with an undo log implements the map that remembers every version:
\* for any keys, values and lsns, a rollback restores exactly the contents of
\* its lsn, and a write changes no earlier version.
THEOREM ImplementsVersionedMap == Spec => KeepsVersions
<1>1. Init => Versions!Init
    BY InitImplements
<1>2. IInv /\ [Next]_vars => [Versions!Next]_(Versions!vars)
    BY StepImplements
<1> QED BY <1>1, <1>2, IInvariant, PTL DEF Spec, KeepsVersions, Versions!Spec

-----------------------------------------------------------------------------
(* The loop computes rollback_to_lsn *)

LEMMA MaxOf ==
    ASSUME NEW n \in Nat, NEW S \in SUBSET (0 .. n), S # {}
    PROVE  Max(S) \in S /\ \A j \in S : j <= Max(S)
<1> DEFINE T == {n - i : i \in S}
<1>1. T \in SUBSET Nat /\ T # {}
  <2>1. \A i \in S : n - i \in Nat
      OBVIOUS
  <2> QED BY <2>1
<1>2. Min(T) \in T /\ \A j \in T : Min(T) <= j
    BY <1>1, MinOf
<1>3. PICK x \in S : Min(T) = n - x
    BY <1>2
<1>4. \A i \in S : i <= x
  <2> TAKE i \in S
  <2>1. n - x <= n - i
      BY <1>2, <1>3
  <2> QED BY <2>1
<1>5. \A i \in S : x >= i
    BY <1>4
<1> HIDE DEF T
<1>6. Max(S) \in S /\ \A i \in S : Max(S) >= i
    BY <1>5 DEF Max
<1> QED BY <1>6

\* Once nothing is newer than l, a rollback to l keeps the whole log.
LEMMA RolledBack ==
    ASSUME NEW mm \in Map, Sorted(mm), MaxLsn \in Nat,
           NEW l \in Lsns, l >= current_lsn(mm)
    PROVE  rollback_to_lsn(mm, l) = mm
<1> DEFINE n == Len(mm.undo)
           S == {0} \cup (1 .. n)
<1>1. mm.undo \in Seq(UndoRecord) /\ n \in Nat /\ DOMAIN mm.undo = 1 .. n
    BY DEF Map
<1>2. \A i \in DOMAIN mm.undo : mm.undo[i].lsn \in Int
  <2>1. \A i \in DOMAIN mm.undo : mm.undo[i] \in UndoRecord
      BY <1>1
  <2> QED BY <2>1 DEF UndoRecord, Lsns
<1>3. /\ current_lsn(mm) \in Int
      /\ \A i \in DOMAIN mm.undo : mm.undo[i].lsn <= current_lsn(mm)
    BY Newest DEF Lsns
<1>4. Newer(mm, l) = {}
    BY <1>2, <1>3 DEF Newer, Lsns
<1>5. Kept(mm, l) = Max(S)
    BY <1>1, <1>4 DEF Kept
<1>6. Max(S) = n
  <2> HIDE DEF n
  <2>1. S \in SUBSET (0 .. n) /\ S # {} /\ n \in S
      BY <1>1
  <2> HIDE DEF S
  <2>2. Max(S) \in S /\ \A j \in S : j <= Max(S)
      BY <1>1, <2>1, MaxOf
  <2>3. Max(S) \in 0 .. n /\ n <= Max(S)
      BY <2>1, <2>2
  <2> QED BY <1>1, <2>3
<1>7. SubSeq(mm.undo, 1, n) = mm.undo
    BY <1>1
<1>8. Without(mm, Newer(mm, l)) = mm.map
    BY VersionNow
<1>9. mm = [map |-> mm.map, undo |-> mm.undo, checkpoint_lsn |-> mm.checkpoint_lsn]
    BY DEF Map
<1> QED BY <1>5, <1>6, <1>7, <1>8, <1>9 DEF rollback_to_lsn

\* A round of the loop leaves the result of the rollback as it was.
LEMMA RoundKeepsResult ==
    ASSUME NEW mm \in Map, LogInv(mm), mm.undo # <<>>, MaxLsn \in Nat,
           NEW l \in Lsns, l < current_lsn(mm)
    PROVE  rollback_to_lsn(undo_last(mm), l) = rollback_to_lsn(mm, l)
<1> DEFINE n == Len(mm.undo)
           u == undo_last(mm)
           old == DOMAIN mm.undo \ Newer(mm, l)
           S == {0} \cup old
<1>1. /\ mm.undo \in Seq(UndoRecord) /\ n \in Nat /\ n >= 1
      /\ DOMAIN mm.undo = 1 .. n
    BY DEF Map
<1>2. u.undo = SubSeq(mm.undo, 1, n - 1) /\ u.checkpoint_lsn = mm.checkpoint_lsn
    BY DEF undo_last
<1>3. /\ u.undo \in Seq(UndoRecord) /\ DOMAIN u.undo = 1 .. n - 1
      /\ \A i \in 1 .. n - 1 : u.undo[i] = mm.undo[i]
    BY <1>1, <1>2
<1>4. mm.undo[n].lsn = current_lsn(mm)
    BY DEF current_lsn
<1>5. Without(u, Newer(u, l)) = Without(mm, Newer(mm, l))
    BY <1>4, UndoKeeps
<1> HIDE DEF u
<1>6. n \notin old
    BY <1>1, <1>4 DEF Newer
<1>7. DOMAIN u.undo \ Newer(u, l) = old
    BY <1>1, <1>3, <1>6 DEF Newer
<1>8. S \in SUBSET (0 .. n - 1)
    BY <1>1, <1>6
<1> HIDE DEF old, n
<1>9. Kept(u, l) = Max(S) /\ Kept(mm, l) = Max(S)
    BY <1>7 DEF Kept, old
<1>10. Max(S) \in 0 .. n - 1
  <2>1. n - 1 \in Nat
      BY <1>1
  <2> QED BY <1>8, <2>1, MaxOf
<1>11. SubSeq(u.undo, 1, Max(S)) = SubSeq(mm.undo, 1, Max(S))
  <2> HIDE DEF S
  <2> DEFINE k == Max(S)
  <2>1. k \in Nat /\ k <= n - 1 /\ n \in Nat
      BY <1>1, <1>10
  <2> HIDE DEF k
  <2>2. SubSeq(u.undo, 1, k) = [i \in 1 .. k |-> u.undo[i]]
      BY <1>3, <2>1
  <2>3. SubSeq(mm.undo, 1, k) = [i \in 1 .. k |-> mm.undo[i]]
      BY <1>1, <2>1
  <2>4. \A i \in 1 .. k : u.undo[i] = mm.undo[i]
      BY <1>3, <2>1
  <2> QED BY <2>2, <2>3, <2>4 DEF k
<1> QED BY <1>2, <1>5, <1>9, <1>11 DEF rollback_to_lsn, u

\* LoopRollsBack: the loop over the undo records computes what rollback_to_lsn is
\* taken to give everywhere else: every round leaves that result as it was, and the
\* loop ends with it.
THEOREM LoopIsRollback == Spec => LoopRollsBack
<1> DEFINE Step == ~ Idle => LET result == rollback_to_lsn(m, to_lsn)
                             IN  /\ rollback_to_lsn(m', to_lsn) = result
                                 /\ to_lsn' = NoLsn => m' = result
<1>1. IInv /\ [Next]_vars => Step \/ UNCHANGED vars
  <2> SUFFICES ASSUME IInv, Next, ~ Idle PROVE Step
      OBVIOUS
  <2>1. m \in Map /\ LogInv(m) /\ Sorted(m) /\ to_lsn \in Lsns /\ to_lsn # NoLsn
        /\ MaxLsn \in Nat
      BY TypeIsMap, MvccAssumption DEF IInv, Idle, LogInv
  <2>2. UndoLast \/ RollbackDone
      BY DEF Next, Insert, Remove, Rollback, Checkpoint, Reset
  <2>3. current_lsn(m) \in Int /\ to_lsn \in Int
      BY <2>1, Newest DEF Lsns
  <2>4. CASE UndoLast
    <3>1. m' = undo_last(m) /\ to_lsn' = to_lsn /\ current_lsn(m) > to_lsn
        BY <2>4 DEF UndoLast
    <3>2. m.undo # <<>>
        BY <3>1, LoopFinds
    <3>3. to_lsn < current_lsn(m)
        BY <2>3, <3>1
    <3>4. rollback_to_lsn(undo_last(m), to_lsn) = rollback_to_lsn(m, to_lsn)
        BY <2>1, <3>2, <3>3, RoundKeepsResult
    <3> QED BY <2>1, <3>1, <3>4
  <2>5. CASE RollbackDone
    <3>1. m' = m /\ current_lsn(m) <= to_lsn
        BY <2>5 DEF RollbackDone
    <3>2. to_lsn >= current_lsn(m)
        BY <2>3, <3>1
    <3>3. rollback_to_lsn(m, to_lsn) = m
        BY <2>1, <3>2, RolledBack
    <3> QED BY <3>1, <3>3
  <2> QED BY <2>2, <2>4, <2>5
<1> QED BY <1>1, IInvariant, PTL DEF Spec, LoopRollsBack
=============================================================================
