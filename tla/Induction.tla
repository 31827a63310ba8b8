----------------------------- MODULE Induction -----------------------------
(***************************************************************************)
(* Induction over numbers and finite sets, and definition by recursion     *)
(* over finite sets, with sets and functions in the place of predicates    *)
(* and operators: what the folds of the models compute, for every input;   *)
(* and the sequences whose elements are of no particular set.              *)
(***************************************************************************)
EXTENDS Integers, Sequences, FiniteSets, FiniteSetTheorems, WellFoundedInduction, TLAPS

\* A set of numbers that is not empty has a least one.
LEMMA Minimum ==
    ASSUME NEW T, T \subseteq Nat, T # {}
    PROVE  \E n \in T : \A k \in T : n <= k
<1> DEFINE R == OpToRel(<, Nat)
<1>1. IsWellFoundedOn(R, Nat)
  BY NatLessThanWellFounded
<1>2. \A x, y \in Nat : x < y => <<x, y>> \in R
  BY DEF OpToRel
<1> HIDE DEF R
<1>3. PICK n \in T : \A k \in T : ~(<<k, n>> \in R)
  BY <1>1, WFMin
<1>4. \A k \in T : ~(k < n)
  BY <1>2, <1>3
<1> QED BY <1>4

\* A set of numbers that is bounded and not empty has a greatest one.
LEMMA Maximum ==
    ASSUME NEW k \in Int, NEW x \in SUBSET (1 .. k), x # {}
    PROVE  \E y \in x : \A z \in x : y >= z
<1> DEFINE T == {k - y : y \in x}
<1>0. \A y \in x : y \in Int /\ 1 <= y /\ y <= k
  OBVIOUS
<1>1. T \subseteq Nat /\ T # {}
  <2>1. \A y \in x : k - y \in Nat
    BY <1>0
  <2> QED BY <2>1
<1>2. PICK m \in T : \A j \in T : m <= j
  BY <1>1, Minimum
<1>3. PICK y \in x : m = k - y
  BY <1>2
<1>4. ASSUME NEW z \in x
      PROVE  y >= z
  <2>1. m <= k - z
    BY <1>2
  <2> QED BY <1>0, <1>3, <2>1
<1> QED BY <1>4

\* Induction over the natural numbers.
LEMMA NumberInduction ==
    ASSUME NEW T, 0 \in T, \A n \in Nat : n \in T => n + 1 \in T
    PROVE  Nat \subseteq T
<1> SUFFICES ASSUME Nat \ T # {} PROVE FALSE
  OBVIOUS
<1>1. PICK n \in Nat \ T : \A k \in Nat \ T : n <= k
  BY Minimum
<1>2. n - 1 \in Nat \ T
  BY <1>1
<1> QED BY <1>1, <1>2

\* Induction over the subsets of a finite set: by what is left when an element
\* is taken away.
LEMMA SetInduction ==
    ASSUME NEW I, IsFiniteSet(I), NEW T, {} \in T,
           \A s \in SUBSET I : s # {} /\ (\A x \in s : s \ {x} \in T) => s \in T
    PROVE  SUBSET I \subseteq T
<1> DEFINE N == {n \in Nat : \A s \in SUBSET I : Cardinality(s) = n => s \in T}
<1>1. \A s \in SUBSET I : IsFiniteSet(s) /\ Cardinality(s) \in Nat
  BY FS_Subset, FS_CardinalityType
<1>2. 0 \in N
  BY <1>1, FS_EmptySet
<1>3. ASSUME NEW n \in Nat, n \in N PROVE n + 1 \in N
  <2> SUFFICES ASSUME NEW s \in SUBSET I, Cardinality(s) = n + 1 PROVE s \in T
    OBVIOUS
  <2>1. s # {}
    <3>1. Cardinality({}) = 0
      BY FS_EmptySet
    <3> QED BY <3>1
  <2>2. ASSUME NEW x \in s PROVE s \ {x} \in T
    <3>1. Cardinality(s \ {x}) = Cardinality(s) - 1
      BY <1>1, FS_RemoveElement
    <3>2. Cardinality(s \ {x}) = n
      BY <3>1
    <3> QED BY <1>3, <3>2
  <2> QED BY <2>1, <2>2
<1>4. Nat \subseteq N
  <2> HIDE DEF N
  <2> QED BY <1>2, <1>3, NumberInduction
<1> QED BY <1>1, <1>4

\* A finite set of numbers that is not empty has a greatest one.
LEMMA Greatest ==
    ASSUME NEW S \in SUBSET Nat, IsFiniteSet(S), S # {}
    PROVE  \E n \in S : \A y \in S : y <= n
<1> DEFINE T == {s \in SUBSET S : s # {} => \E x \in s : \A y \in s : y <= x}
<1>1. {} \in T
  OBVIOUS
<1>2. ASSUME NEW s \in SUBSET S, s # {}, \A x \in s : s \ {x} \in T
      PROVE  s \in T
  <2>1. PICK x \in s : TRUE
    BY <1>2
  <2>2. CASE s \ {x} = {}
    <3>1. \A y \in s : y <= x
      BY <2>2
    <3> QED BY <3>1
  <2>3. CASE s \ {x} # {}
    <3>1. PICK z \in s \ {x} : \A y \in s \ {x} : y <= z
      BY <1>2, <2>3
    <3>2. x \in Nat /\ z \in Nat /\ \A y \in s : y \in Nat
      OBVIOUS
    <3>3. CASE z <= x
      <4>1. \A y \in s : y <= x
        BY <3>1, <3>2, <3>3
      <4> QED BY <4>1
    <3>4. CASE ~ (z <= x)
      <4>1. \A y \in s : y <= z
        BY <3>1, <3>2, <3>4
      <4> QED BY <4>1
    <3> QED BY <3>3, <3>4
  <2> QED BY <2>2, <2>3
<1>3. SUBSET S \subseteq T
  <2> HIDE DEF T
  <2> QED BY <1>1, <1>2, SetInduction
<1> QED BY <1>3

\* f is base on {}, and on s it is made from its value on s without ch[s].
IsFold(f, I, base, D, ch) ==
    f = [s \in SUBSET I |-> IF s = {} THEN base ELSE D[ch[s]][f[s \ {ch[s]}]]]

\* There is such a function on the subsets of a finite set.
CanFold(I, S, base, D, ch) ==
    /\ IsFiniteSet(I) /\ base \in S /\ D \in [I -> [S -> S]]
    /\ \A s \in SUBSET I : s # {} => ch[s] \in s

LEMMA FoldExists ==
    ASSUME NEW I, NEW S, NEW base, NEW D, NEW ch, CanFold(I, S, base, D, ch)
    PROVE  \E f : f \in [SUBSET I -> S] /\ IsFold(f, I, base, D, ch)
<1>0. /\ IsFiniteSet(I) /\ base \in S /\ D \in [I -> [S -> S]]
      /\ \A s \in SUBSET I : s # {} => ch[s] \in s
  BY DEF CanFold
<1> DEFINE Small(n) == {s \in SUBSET I : Cardinality(s) <= n}
           Next(g, s) == IF s = {} THEN base ELSE D[ch[s]][g[s \ {ch[s]}]]
           Partial(n) == {g \in [Small(n) -> S] : \A s \in Small(n) : g[s] = Next(g, s)}
           N == {n \in Nat : Partial(n) # {}}
<1>1. \A s \in SUBSET I : IsFiniteSet(s) /\ Cardinality(s) \in Nat
  BY <1>0, FS_Subset, FS_CardinalityType
<1>2. 0 \in N
  <2>1. \A s \in Small(0) : s = {}
    BY <1>1, FS_EmptySet
  <2>2. [s \in Small(0) |-> base] \in Partial(0)
    BY <1>0, <2>1
  <2> QED BY <2>2
<1>3. ASSUME NEW n \in Nat, n \in N PROVE n + 1 \in N
  <2>1. PICK g \in Partial(n) : TRUE
    BY <1>3
  <2> DEFINE h == [s \in Small(n + 1) |-> Next(g, s)]
  <2>2. ASSUME NEW s \in Small(n + 1), s # {}
        PROVE  ch[s] \in I /\ s \ {ch[s]} \in Small(n)
    <3>1. ch[s] \in s
      BY <1>0, <2>2
    <3>2. Cardinality(s \ {ch[s]}) = Cardinality(s) - 1
      BY <1>1, <3>1, FS_RemoveElement
    <3> QED BY <1>1, <3>1, <3>2
  <2>3. \A s \in Small(n) : s \in Small(n + 1)
    BY <1>1
  <2>4. \A s \in Small(n) : h[s] = g[s]
    BY <2>1, <2>3
  <2>5. \A s \in Small(n + 1) : Next(g, s) \in S
    BY <1>0, <2>1, <2>2
  <2>6. \A s \in Small(n + 1) : h[s] = Next(h, s)
    BY <2>2, <2>4
  <2>7. h \in Partial(n + 1)
    BY <2>5, <2>6
  <2> HIDE DEF Partial
  <2> QED BY <2>7
<1>4. Nat \subseteq N
  <2> HIDE DEF N
  <2> QED BY <1>2, <1>3, NumberInduction
<1>5. PICK f \in Partial(Cardinality(I)) : TRUE
  BY <1>0, <1>1, <1>4
<1>6. Small(Cardinality(I)) = SUBSET I
  BY <1>0, FS_Subset, FS_CardinalityType
<1>7. f \in [SUBSET I -> S] /\ \A s \in SUBSET I : f[s] = Next(f, s)
  BY <1>5, <1>6
<1> HIDE DEF Next
<1>8. f = [s \in SUBSET I |-> Next(f, s)]
  BY <1>7
<1> QED BY <1>7, <1>8 DEF Next, IsFold

-----------------------------------------------------------------------------
(* Sums over finite sets, the way that MapThenFoldSet computes them *)

Pick(s) == CHOOSE x \in s : TRUE

IsSum(g, f, I) ==
    g = [s \in SUBSET I |-> IF s = {} THEN 0 ELSE f[Pick(s)] + g[s \ {Pick(s)}]]

Sums(f, I) == CHOOSE g : IsSum(g, f, I)

SumOver(f, I) == Sums(f, I)[I]

LEMMA SumsExist ==
    ASSUME NEW J, IsFiniteSet(J), NEW f \in [J -> Nat], NEW I \in SUBSET J
    PROVE  IsSum(Sums(f, I), f, I)
<1> DEFINE D == [x \in I |-> [n \in Nat |-> f[x] + n]]
           ch == [s \in SUBSET I |-> Pick(s)]
<1>1. \A s \in SUBSET I : s # {} => Pick(s) \in s
  BY DEF Pick
<1>2. D \in [I -> [Nat -> Nat]]
  OBVIOUS
<1>3. IsFiniteSet(I)
  BY FS_Subset
<1>4. \A s \in SUBSET I : s # {} => ch[s] \in s
  BY <1>1
<1>5. 0 \in Nat
  OBVIOUS
<1>6. PICK g : g \in [SUBSET I -> Nat] /\ IsFold(g, I, 0, D, ch)
  <2> HIDE DEF D, ch
  <2>1. CanFold(I, Nat, 0, D, ch)
    BY <1>2, <1>3, <1>4, <1>5 DEF CanFold
  <2> QED BY <2>1, FoldExists
<1>7. \A s \in SUBSET I : s # {} =>
        D[ch[s]][g[s \ {ch[s]}]] = f[Pick(s)] + g[s \ {Pick(s)}]
  <2>1. \A s \in SUBSET I : s # {} => ch[s] = Pick(s) /\ Pick(s) \in I
    BY <1>1
  <2>2. \A s \in SUBSET I : g[s] \in Nat
    BY <1>6
  <2> HIDE DEF ch
  <2> QED BY <2>1, <2>2
<1>8. IsSum(g, f, I)
  <2> HIDE DEF D, ch
  <2> QED BY <1>6, <1>7 DEF IsSum, IsFold
<1> QED BY <1>8 DEF Sums

\* The sum over a part does not depend on what it is a part of.
LEMMA SumsAgree ==
    ASSUME NEW I, IsFiniteSet(I), NEW K \in SUBSET I, NEW f, NEW g, NEW h,
           IsSum(g, f, I), IsSum(h, f, K)
    PROVE  \A s \in SUBSET K : g[s] = h[s]
<1> DEFINE T == {s \in SUBSET K : g[s] = h[s]}
<1>1. IsFiniteSet(K)
  BY FS_Subset
<1>2. {} \in T
  BY DEF IsSum
<1>3. ASSUME NEW s \in SUBSET K, s # {}, \A x \in s : s \ {x} \in T
      PROVE  s \in T
  <2>1. Pick(s) \in s
    BY <1>3 DEF Pick
  <2>2. g[s \ {Pick(s)}] = h[s \ {Pick(s)}]
    BY <1>3, <2>1
  <2>3. s \in SUBSET I
    OBVIOUS
  <2> QED BY <1>3, <2>2, <2>3 DEF IsSum
<1>4. SUBSET K \subseteq T
  <2> HIDE DEF T
  <2> QED BY <1>1, <1>2, <1>3, SetInduction
<1> QED BY <1>4

LEMMA SumUnroll ==
    ASSUME NEW J, IsFiniteSet(J), NEW f \in [J -> Nat], NEW I \in SUBSET J
    PROVE  /\ I = {} => SumOver(f, I) = 0
           /\ I # {} => SumOver(f, I) = f[Pick(I)] + SumOver(f, I \ {Pick(I)})
<1>1. IsFiniteSet(I)
  BY FS_Subset
<1>2. IsSum(Sums(f, I), f, I)
  BY SumsExist
<1>3. CASE I = {}
  BY <1>2, <1>3 DEF IsSum, SumOver
<1>4. CASE I # {}
  <2> DEFINE K == I \ {Pick(I)}
  <2>1. IsSum(Sums(f, K), f, K)
    BY SumsExist
  <2>2. Sums(f, I)[K] = Sums(f, K)[K]
    BY <1>1, <1>2, <2>1, SumsAgree
  <2>3. Sums(f, I)[I] = f[Pick(I)] + Sums(f, I)[K]
    BY <1>2, <1>4 DEF IsSum
  <2> QED BY <1>4, <2>2, <2>3 DEF SumOver
<1> QED BY <1>3, <1>4

LEMMA SumNat ==
    ASSUME NEW J, IsFiniteSet(J), NEW f \in [J -> Nat], NEW I \in SUBSET J
    PROVE  SumOver(f, I) \in Nat
<1> DEFINE T == {s \in SUBSET J : SumOver(f, s) \in Nat}
<1>1. {} \in T
  <2>1. SumOver(f, {}) = 0
    BY SumUnroll
  <2> QED BY <2>1
<1>2. ASSUME NEW s \in SUBSET J, s # {}, \A x \in s : s \ {x} \in T
      PROVE  s \in T
  <2>1. Pick(s) \in s
    BY <1>2 DEF Pick
  <2>2. SumOver(f, s) = f[Pick(s)] + SumOver(f, s \ {Pick(s)})
    BY <1>2, SumUnroll
  <2> QED BY <1>2, <2>1, <2>2
<1>3. SUBSET J \subseteq T
  <2> HIDE DEF T
  <2> QED BY <1>1, <1>2, SetInduction
<1> QED BY <1>3

\* The order in which the elements are taken does not matter.
LEMMA SumRemove ==
    ASSUME NEW J, IsFiniteSet(J), NEW f \in [J -> Nat],
           NEW I \in SUBSET J, NEW x \in I
    PROVE  SumOver(f, I) = SumOver(f, I \ {x}) + f[x]
<1> DEFINE T == {s \in SUBSET J : \A y \in s : SumOver(f, s) = SumOver(f, s \ {y}) + f[y]}
<1>1. {} \in T
  OBVIOUS
<1>2. ASSUME NEW s \in SUBSET J, s # {}, \A y \in s : s \ {y} \in T
      PROVE  s \in T
  <2> SUFFICES ASSUME NEW y \in s
               PROVE  SumOver(f, s) = SumOver(f, s \ {y}) + f[y]
    OBVIOUS
  <2> DEFINE c == Pick(s)
  <2>1. c \in s
    BY <1>2 DEF Pick
  <2>2. SumOver(f, s) = f[c] + SumOver(f, s \ {c})
    BY <1>2, SumUnroll
  <2>3. /\ SumOver(f, s \ {c}) \in Nat /\ SumOver(f, s \ {y}) \in Nat
        /\ SumOver(f, (s \ {c}) \ {y}) \in Nat
    BY SumNat
  <2> HIDE DEF c
  <2>4. CASE y = c
    BY <2>1, <2>2, <2>3, <2>4
  <2>5. CASE y # c
    <3>1. SumOver(f, s \ {c}) = SumOver(f, (s \ {c}) \ {y}) + f[y]
      BY <1>2, <2>1, <2>5
    <3>2. SumOver(f, s \ {y}) = SumOver(f, (s \ {y}) \ {c}) + f[c]
      BY <1>2, <2>1, <2>5
    <3>3. (s \ {y}) \ {c} = (s \ {c}) \ {y}
      OBVIOUS
    <3> QED BY <2>1, <2>2, <2>3, <3>1, <3>2, <3>3
  <2> QED BY <2>4, <2>5
<1>3. SUBSET J \subseteq T
  <2> HIDE DEF T
  <2> QED BY <1>1, <1>2, SetInduction
<1> QED BY <1>3

LEMMA SumUnion ==
    ASSUME NEW J, IsFiniteSet(J), NEW f \in [J -> Nat],
           NEW A \in SUBSET J, NEW B \in SUBSET J, A \cap B = {}
    PROVE  SumOver(f, A \cup B) = SumOver(f, A) + SumOver(f, B)
<1> DEFINE T == {b \in SUBSET B : SumOver(f, A \cup b) = SumOver(f, A) + SumOver(f, b)}
<1>1. {} \in T
  <2>1. SumOver(f, {}) = 0 /\ SumOver(f, A) \in Nat /\ A \cup {} = A
    BY SumUnroll, SumNat
  <2> QED BY <2>1
<1>2. ASSUME NEW b \in SUBSET B, b # {}, \A x \in b : b \ {x} \in T
      PROVE  b \in T
  <2>1. PICK x \in b : TRUE
    BY <1>2
  <2>2. SumOver(f, A \cup (b \ {x})) = SumOver(f, A) + SumOver(f, b \ {x})
    BY <1>2, <2>1
  <2>3. SumOver(f, A \cup b) = SumOver(f, (A \cup b) \ {x}) + f[x]
    BY SumRemove
  <2>4. SumOver(f, b) = SumOver(f, b \ {x}) + f[x]
    BY SumRemove
  <2>5. (A \cup b) \ {x} = A \cup (b \ {x})
    BY <2>1
  <2>6. SumOver(f, A) \in Nat /\ SumOver(f, b \ {x}) \in Nat /\ f[x] \in Nat
    BY SumNat
  <2> QED BY <2>2, <2>3, <2>4, <2>5, <2>6
<1>3. IsFiniteSet(B)
  BY FS_Subset
<1>4. SUBSET B \subseteq T
  <2> HIDE DEF T
  <2> QED BY <1>1, <1>2, <1>3, SetInduction
<1> QED BY <1>4

-----------------------------------------------------------------------------
(* Sequences *)

IsSeq(s) == s \in Seq({s[i] : i \in 1 .. Len(s)})

\* t begins with the first n elements of s.
Begins(s, t, n) == n <= Len(s) /\ n <= Len(t) /\ \A i \in 1 .. n : t[i] = s[i]

LEMMA SeqAppend ==
    ASSUME NEW s, s \in Seq({s[i] : i \in 1 .. Len(s)}), NEW r
    PROVE  LET t == Append(s, r)
           IN  /\ t \in Seq({t[i] : i \in 1 .. Len(t)})
               /\ Len(s) \in Nat /\ Len(t) = Len(s) + 1
               /\ DOMAIN s = 1 .. Len(s) /\ DOMAIN t = 1 .. Len(s) + 1
               /\ \A i \in 1 .. Len(s) : t[i] = s[i]
               /\ t[Len(s) + 1] = r
<1> DEFINE U == {s[i] : i \in 1 .. Len(s)} \cup {r}
           t == Append(s, r)
<1>1. s \in Seq(U)
  OBVIOUS
<1>2. r \in U
  OBVIOUS
<1> HIDE DEF U
<1>3. /\ t \in Seq(U) /\ Len(s) \in Nat /\ Len(t) = Len(s) + 1
      /\ DOMAIN s = 1 .. Len(s) /\ DOMAIN t = 1 .. Len(s) + 1
      /\ \A i \in 1 .. Len(s) : t[i] = s[i]
      /\ t[Len(s) + 1] = r
  BY <1>1, <1>2
<1> HIDE DEF t
<1>4. t \in Seq({t[i] : i \in 1 .. Len(t)})
  BY <1>3
<1> QED BY <1>3, <1>4 DEF t

LEMMA SeqPrefix ==
    ASSUME NEW s, s \in Seq({s[i] : i \in 1 .. Len(s)}), NEW k \in 0 .. Len(s)
    PROVE  LET t == SubSeq(s, 1, k)
           IN  /\ t \in Seq({t[i] : i \in 1 .. Len(t)}) /\ Len(t) = k
               /\ \A i \in 1 .. k : t[i] = s[i]
<1> DEFINE U == {s[i] : i \in 1 .. Len(s)}
           t == SubSeq(s, 1, k)
<1>1. s \in Seq(U)
  OBVIOUS
<1> HIDE DEF U
<1>2. t \in Seq(U) /\ Len(t) = k /\ \A i \in 1 .. k : t[i] = s[i]
  BY <1>1
<1> HIDE DEF t
<1>3. t \in Seq({t[i] : i \in 1 .. Len(t)})
  BY <1>2
<1> QED BY <1>2, <1>3 DEF t

LEMMA SeqFacts ==
    ASSUME NEW s, IsSeq(s)
    PROVE  /\ Len(s) \in Nat /\ DOMAIN s = 1 .. Len(s)
           /\ \A o \in 0 .. Len(s) : LET t == SubSeq(s, 1, o)
                IN  IsSeq(t) /\ Len(t) = o /\ Begins(s, t, o)
           /\ \A b : LET t == Append(s, b)
                IN  /\ IsSeq(t) /\ Len(t) = Len(s) + 1 /\ Begins(s, t, Len(s))
                    /\ t[Len(s) + 1] = b
<1>1. Len(s) \in Nat /\ DOMAIN s = 1 .. Len(s)
  BY DEF IsSeq
<1>2. ASSUME NEW o \in 0 .. Len(s)
      PROVE  LET t == SubSeq(s, 1, o) IN IsSeq(t) /\ Len(t) = o /\ Begins(s, t, o)
  <2> DEFINE t == SubSeq(s, 1, o)
  <2>1. IsSeq(t) /\ Len(t) = o /\ \A i \in 1 .. o : t[i] = s[i]
    BY SeqPrefix DEF IsSeq
  <2> HIDE DEF t
  <2>2. Begins(s, t, o)
    BY <1>1, <2>1 DEF Begins
  <2> QED BY <2>1, <2>2 DEF t
<1>3. ASSUME NEW b
      PROVE  LET t == Append(s, b)
             IN  /\ IsSeq(t) /\ Len(t) = Len(s) + 1 /\ Begins(s, t, Len(s))
                 /\ t[Len(s) + 1] = b
  <2> DEFINE t == Append(s, b)
  <2>1. /\ IsSeq(t) /\ Len(t) = Len(s) + 1 /\ t[Len(s) + 1] = b
        /\ \A i \in 1 .. Len(s) : t[i] = s[i]
    BY SeqAppend DEF IsSeq
  <2> HIDE DEF t
  <2>2. Begins(s, t, Len(s))
    BY <1>1, <2>1 DEF Begins
  <2> QED BY <2>1, <2>2 DEF t
<1> QED BY <1>1, <1>2, <1>3

LEMMA SeqTail ==
    ASSUME NEW s, IsSeq(s), Len(s) > 0
    PROVE  LET t == Tail(s)
           IN  IsSeq(t) /\ Len(t) = Len(s) - 1 /\ \A i \in 1 .. Len(t) : t[i] = s[i + 1]
<1> DEFINE U == {s[i] : i \in 1 .. Len(s)}
           t == Tail(s)
<1>1. s \in Seq(U) /\ s # <<>>
  BY DEF IsSeq
<1> HIDE DEF U
<1>2. t \in Seq(U) /\ Len(t) = Len(s) - 1 /\ \A i \in 1 .. Len(t) : t[i] = s[i + 1]
  BY <1>1
<1> HIDE DEF t
<1>3. IsSeq(t)
  BY <1>2 DEF IsSeq
<1> QED BY <1>2, <1>3 DEF t

LEMMA SeqElements ==
    ASSUME NEW U, NEW s \in Seq(U)
    PROVE  /\ Len(s) \in Nat /\ DOMAIN s = 1 .. Len(s)
           /\ \A i \in 1 .. Len(s) : s[i] \in U
           /\ \A n \in 0 .. Len(s) : SubSeq(s, 1, n) \in Seq(U)
           /\ \A x \in U : Append(s, x) \in Seq(U)
           /\ s # <<>> => Len(s) \in 1 .. Len(s)
  OBVIOUS
=============================================================================
