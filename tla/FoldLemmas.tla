----------------------------- MODULE FoldLemmas -----------------------------
(***************************************************************************)
(* What the proofs need of the library's folds and sums, and of functions  *)
(* that are defined by recursion over 1..n: that they exist, and what they *)
(* are one element further on.                                             *)
(***************************************************************************)
EXTENDS Integers, Sequences, FiniteSets, SequencesExt, SequenceTheorems,
        FiniteSetTheorems, WellFoundedInduction, TLAPS

\* Every set of naturals has a least element: what an induction rests on.
LEMMA LeastNatural ==
    ASSUME NEW T \in SUBSET Nat, T # {}
    PROVE  \E n \in T : \A m \in T : n <= m
<1> DEFINE R == OpToRel(<, Nat)
<1>1. PICK n \in T : \A m \in T : ~(<<m, n>> \in R)
  <2>1. IsWellFoundedOn(R, Nat)
    BY NatLessThanWellFounded
  <2> HIDE DEF R
  <2> QED
    BY <2>1, WFMin
<1>2. \A m \in T : ~(m < n)
  BY <1>1 DEF OpToRel
<1> QED
  BY <1>2

\* An induction up to n, over a set of numbers.
LEMMA UpTo ==
    ASSUME NEW n \in Nat, NEW T, 0 \in T, \A i \in 1 .. n : i - 1 \in T => i \in T
    PROVE  \A i \in 0 .. n : i \in T
<1> DEFINE U == {i \in 0 .. n : i \notin T}
<1>1. SUFFICES ASSUME U # {}
               PROVE  FALSE
  OBVIOUS
<1>2. PICK i \in U : \A m \in U : i <= m
  <2>1. U \in SUBSET Nat
    OBVIOUS
  <2> HIDE DEF U
  <2> QED
    BY <1>1, <2>1, LeastNatural
<1>3. i # 0
  BY <1>2
<1>4. i \in 1 .. n /\ i - 1 \in 0 .. n /\ ~(i <= i - 1)
  BY <1>2, <1>3
<1>5. i - 1 \in T
  BY <1>2, <1>4
<1> QED
  BY <1>2, <1>4, <1>5

\* The largest of a set of numbers up to n that holds n.
LEMMA LargestIs ==
    ASSUME NEW n \in Nat, NEW t \in SUBSET (1 .. n), n \in t
    PROVE  Max(t) = n
<1>1. \A y \in t : n >= y
  OBVIOUS
<1>2. \A x \in t : (\A y \in t : x >= y) => x = n
  OBVIOUS
<1> QED
  BY <1>1, <1>2 DEF Max

\* The largest of a set of numbers is one of them.
LEMMA LargestIsIn ==
    ASSUME NEW n \in Nat, NEW t \in SUBSET (1 .. n), t # {}
    PROVE  Max(t) \in t
<1> DEFINE T == {m \in 0 .. n : \A y \in t : y <= m}
<1>1. n \in T /\ T \in SUBSET Nat
  OBVIOUS
<1>2. PICK m \in T : \A k \in T : m <= k
  <2> HIDE DEF T
  <2> QED
    BY <1>1, LeastNatural
<1>3. m \in t
  <2>1. SUFFICES ASSUME m \notin t
                 PROVE  FALSE
    OBVIOUS
  <2>2. PICK y \in t : TRUE
    OBVIOUS
  <2>3. m - 1 \in 0 .. n /\ \A z \in t : z <= m - 1
    BY <1>2, <2>1, <2>2
  <2> QED
    BY <1>2, <2>3
<1>4. \A y \in t : m >= y
  BY <1>2
<1> QED
  BY <1>3, <1>4 DEF Max

\* A fold over n elements, on the sets of indices the library's definition
\* runs through.
IsFold(f, n, A, base, step) ==
    /\ f \in [SUBSET (1 .. n) -> A]
    /\ \A t \in SUBSET (1 .. n) :
          f[t] = IF t = {} THEN base ELSE step[f[t \ {Max(t)}]][Max(t)]

\* It is a function that exists,
LEMMA FoldExists ==
    ASSUME NEW n \in Nat, NEW A, NEW base \in A, NEW step \in [A -> [1 .. n -> A]]
    PROVE  \E f : IsFold(f, n, A, base, step)
<1> DEFINE T == {k \in 0 .. n : \E f : IsFold(f, k, A, base, step)}
<1>1. 0 \in T
  <2> DEFINE f == [t \in SUBSET (1 .. 0) |-> base]
  <2>1. \A t \in SUBSET (1 .. 0) : t = {}
    OBVIOUS
  <2>2. f \in [SUBSET (1 .. 0) -> A] /\ \A t \in SUBSET (1 .. 0) : f[t] = base
    OBVIOUS
  <2> HIDE DEF f
  <2>3. IsFold(f, 0, A, base, step)
    BY <2>1, <2>2 DEF IsFold
  <2> QED
    BY <2>3
<1>2. ASSUME NEW k \in 1 .. n, k - 1 \in T
      PROVE  k \in T
  <2>1. k \in Nat /\ k \in 0 .. n
    OBVIOUS
  <2>2. PICK f : IsFold(f, k - 1, A, base, step)
    BY <1>2
  <2>f. /\ f \in [SUBSET (1 .. k - 1) -> A]
        /\ \A t \in SUBSET (1 .. k - 1) :
              f[t] = IF t = {} THEN base ELSE step[f[t \ {Max(t)}]][Max(t)]
    BY <2>2 DEF IsFold
  <2> DEFINE g == [t \in SUBSET (1 .. k) |-> IF k \in t THEN step[f[t \ {k}]][k] ELSE f[t]]
  <2>3. ASSUME NEW t \in SUBSET (1 .. k), k \in t
        PROVE  t \ {k} \in SUBSET (1 .. k - 1) /\ t \ {k} \in SUBSET (1 .. k) /\ k \notin t \ {k} /\ Max(t) = k
    <3>1. Max(t) = k
      BY <2>1, <2>3, LargestIs
    <3>2. \A y \in t \ {k} : y \in 1 .. k - 1
      BY <2>1
    <3> QED
      BY <3>1, <3>2
  <2>4. ASSUME NEW t \in SUBSET (1 .. k), k \notin t
        PROVE  t \in SUBSET (1 .. k - 1)
    <3>1. \A y \in t : y \in 1 .. k - 1
      BY <2>1, <2>4
    <3> QED
      BY <3>1
  <2>5. g \in [SUBSET (1 .. k) -> A]
    <3>1. ASSUME NEW t \in SUBSET (1 .. k)
          PROVE  (IF k \in t THEN step[f[t \ {k}]][k] ELSE f[t]) \in A
      <4>1. CASE k \in t
        <5>1. f[t \ {k}] \in A
          BY <2>f, <2>3, <4>1
        <5> QED
          BY <2>1, <4>1, <5>1
      <4>2. CASE k \notin t
        BY <2>f, <2>4, <4>2
      <4> QED
        BY <4>1, <4>2
    <3> QED
      BY <3>1
  <2>6. ASSUME NEW t \in SUBSET (1 .. k)
        PROVE  g[t] = IF t = {} THEN base ELSE step[g[t \ {Max(t)}]][Max(t)]
    <3>1. CASE k \in t
      <4>1. g[t] = step[f[t \ {k}]][k]
        BY <3>1
      <4>2. g[t \ {k}] = f[t \ {k}] /\ Max(t) = k
        BY <2>3, <3>1
      <4> HIDE DEF g
      <4> QED
        BY <3>1, <4>1, <4>2
    <3>2. CASE k \notin t
      <4>1. t \in SUBSET (1 .. k - 1)
        BY <2>4, <3>2
      <4>2. t \ {Max(t)} \in SUBSET (1 .. k) /\ k \notin t \ {Max(t)}
        BY <3>2
      <4>3. g[t] = f[t] /\ g[t \ {Max(t)}] = f[t \ {Max(t)}]
        BY <3>2, <4>2
      <4>4. f[t] = IF t = {} THEN base ELSE step[f[t \ {Max(t)}]][Max(t)]
        BY <2>f, <4>1
      <4> HIDE DEF g
      <4> QED
        BY <4>3, <4>4
    <3> QED
      BY <3>1, <3>2
  <2> HIDE DEF g
  <2>7. IsFold(g, k, A, base, step)
    BY <2>5, <2>6 DEF IsFold
  <2> QED
    BY <2>1, <2>7
<1> HIDE DEF T
<1>3. n \in T
  <2>1. n \in 0 .. n
    OBVIOUS
  <2> QED
    BY <1>1, <1>2, <2>1, UpTo
<1> QED
  BY <1>3 DEF T

\* and what it is on the first i elements follows from the element i.
LEMMA FoldOfPrefix ==
    ASSUME NEW n \in Nat, NEW i \in 1 .. n
    PROVE  /\ 1 .. i \in SUBSET (1 .. n) /\ 1 .. i # {} /\ 1 .. i - 1 \in SUBSET (1 .. n)
           /\ Max(1 .. i) = i /\ (1 .. i) \ {i} = 1 .. i - 1
<1>1. i \in Nat /\ i \in 1 .. i /\ 1 .. i \in SUBSET (1 .. i)
  OBVIOUS
<1>2. Max(1 .. i) = i
  BY <1>1, LargestIs
<1>3. \A y : y \in (1 .. i) \ {i} <=> y \in 1 .. i - 1
  OBVIOUS
<1>4. (1 .. i) \ {i} = 1 .. i - 1
  BY <1>3
<1>5. (\A y \in 1 .. i : y \in 1 .. n) /\ \A y \in 1 .. i - 1 : y \in 1 .. n
  OBVIOUS
<1> QED
  BY <1>1, <1>2, <1>4, <1>5

-------------------------------------------------------------------------------
(* Recursion over 1..n.                                                    *)

\* Each element is taken from the one before, or from the one after.
IsForward(f, n, A, first, step) ==
    /\ f \in [1 .. n -> A]
    /\ \A i \in 1 .. n : f[i] = IF i = 1 THEN first ELSE step[f[i - 1]][i]
IsBackward(b, n, A, last, step) ==
    /\ b \in [1 .. n -> A]
    /\ \A i \in 1 .. n : b[i] = IF i = n THEN last ELSE step[b[i + 1]][i]

\* There is a function of the one kind,
LEMMA ForwardExists ==
    ASSUME NEW n \in Nat, NEW A, NEW first \in A, NEW step \in [A -> [1 .. n -> A]]
    PROVE  \E f : IsForward(f, n, A, first, step)
<1> DEFINE Takes(f, k) == /\ f \in [1 .. k -> A]
                          /\ \A i \in 1 .. k : f[i] = IF i = 1 THEN first ELSE step[f[i - 1]][i]
           T == {k \in 0 .. n : \E f : Takes(f, k)}
<1>1. 0 \in T
  <2> DEFINE f == [i \in 1 .. 0 |-> first]
  <2>1. Takes(f, 0)
    OBVIOUS
  <2> HIDE DEF Takes, f
  <2> QED
    BY <2>1
<1>2. ASSUME NEW k \in 1 .. n, k - 1 \in T
      PROVE  k \in T
  <2>1. k \in 0 .. n /\ k \in Nat /\ k \in 1 .. k
    OBVIOUS
  <2>2. PICK f : Takes(f, k - 1)
    BY <1>2
  <2> DEFINE g == [i \in 1 .. k |-> IF i < k THEN f[i] ELSE IF k = 1 THEN first ELSE step[f[k - 1]][k]]
  <2>3. k # 1 => k - 1 \in 1 .. k - 1 /\ k - 1 < k /\ f[k - 1] \in A
    BY <2>1, <2>2
  <2>4. ASSUME NEW i \in 1 .. k, i < k
        PROVE  i \in 1 .. k - 1 /\ i - 1 < k /\ (i # 1 => i - 1 \in 1 .. k)
    BY <2>1, <2>4
  <2>5. g \in [1 .. k -> A]
    BY <2>1, <2>2, <2>3, <2>4
  <2>6. \A i \in 1 .. k : g[i] = IF i = 1 THEN first ELSE step[g[i - 1]][i]
    <3>1. ASSUME NEW i \in 1 .. k, i < k
          PROVE  g[i] = IF i = 1 THEN first ELSE step[g[i - 1]][i]
      <4>1. i \in 1 .. k - 1 /\ i - 1 < k /\ (i # 1 => i - 1 \in 1 .. k)
        BY <2>4, <3>1
      <4>2. g[i] = f[i] /\ (i # 1 => g[i - 1] = f[i - 1])
        BY <3>1, <4>1
      <4> HIDE DEF g
      <4> QED
        BY <2>2, <4>1, <4>2
    <3>2. g[k] = IF k = 1 THEN first ELSE step[g[k - 1]][k]
      <4>1. k # 1 => g[k - 1] = f[k - 1]
        BY <2>1, <2>3
      <4>2. g[k] = IF k = 1 THEN first ELSE step[f[k - 1]][k]
        BY <2>1
      <4> HIDE DEF g
      <4> QED
        BY <4>1, <4>2
    <3>3. \A i \in 1 .. k : i < k \/ i = k
      BY <2>1
    <3> HIDE DEF g
    <3> QED
      BY <3>1, <3>2, <3>3
  <2> HIDE DEF g
  <2>7. Takes(g, k)
    BY <2>5, <2>6
  <2> HIDE DEF Takes
  <2> QED
    BY <2>1, <2>7
<1> HIDE DEF T
<1>3. n \in T
  <2>1. n \in 0 .. n
    OBVIOUS
  <2> QED
    BY <1>1, <1>2, <2>1, UpTo
<1>4. PICK f : Takes(f, n)
  BY <1>3 DEF T
<1>5. IsForward(f, n, A, first, step)
  BY <1>4 DEF IsForward
<1> QED
  BY <1>5

\* and one of the other.
LEMMA BackwardExists ==
    ASSUME NEW n \in Nat, NEW A, NEW last \in A, NEW step \in [A -> [1 .. n -> A]]
    PROVE  \E b : IsBackward(b, n, A, last, step)
<1> DEFINE back == [a \in A |-> [i \in 1 .. n |-> step[a][n + 1 - i]]]
<1>1. \A i \in 1 .. n : n + 1 - i \in 1 .. n
  OBVIOUS
<1>2. back \in [A -> [1 .. n -> A]]
  BY <1>1
<1>3. PICK f : IsForward(f, n, A, last, back)
  <2> HIDE DEF back
  <2> QED
    BY <1>2, ForwardExists
<1>f. /\ f \in [1 .. n -> A]
      /\ \A i \in 1 .. n : f[i] = IF i = 1 THEN last ELSE back[f[i - 1]][i]
  BY <1>3 DEF IsForward
<1> DEFINE b == [i \in 1 .. n |-> f[n + 1 - i]]
<1>4. b \in [1 .. n -> A]
  BY <1>1, <1>f
<1>5. ASSUME NEW i \in 1 .. n
      PROVE  b[i] = IF i = n THEN last ELSE step[b[i + 1]][i]
  <2>1. PICK j \in 1 .. n : j = n + 1 - i /\ (j = 1 <=> i = n) /\ n + 1 - j = i
    BY <1>1
  <2>2. b[i] = IF i = n THEN last ELSE back[f[j - 1]][j]
    <3>1. b[i] = f[j]
      BY <2>1
    <3> HIDE DEF b, back
    <3> QED
      BY <1>f, <2>1, <3>1
  <2>3. ASSUME i # n
        PROVE  back[f[j - 1]][j] = step[b[i + 1]][i]
    <3>1. i + 1 \in 1 .. n /\ n + 1 - (i + 1) = j - 1 /\ j - 1 \in 1 .. n
      BY <2>1, <2>3
    <3>2. b[i + 1] = f[j - 1] /\ f[j - 1] \in A
      BY <1>f, <3>1
    <3>3. back[f[j - 1]][j] = step[f[j - 1]][i]
      BY <2>1, <3>2
    <3> HIDE DEF b, back
    <3> QED
      BY <3>2, <3>3
  <2> HIDE DEF b, back
  <2> QED
    BY <2>2, <2>3
<1> HIDE DEF b
<1>6. IsBackward(b, n, A, last, step)
  BY <1>4, <1>5 DEF IsBackward
<1> QED
  BY <1>6

\* Sequences are flattened one after another.
LEMMA FlattenRuns ==
    ASSUME NEW S, NEW ss \in Seq(Seq(S)), ss # <<>>
    PROVE  \E g \in [1 .. Len(ss) -> Seq(S)] :
              /\ \A i \in 1 .. Len(ss) : g[i] = IF i = 1 THEN ss[1] ELSE g[i - 1] \o ss[i]
              /\ FlattenSeq(ss) = g[Len(ss)]
<1> DEFINE n == Len(ss)
           A == Seq(S)
           step == [a \in A |-> [i \in 1 .. n |-> a \o ss[i]]]
           Flat(f) == f = [i \in 1 .. n |-> IF i = 1 THEN ss[i] ELSE f[i - 1] \o ss[i]]
<1>1. n \in Nat /\ n # 0 /\ 1 \in 1 .. n /\ n \in 1 .. n /\ \A i \in 1 .. n : ss[i] \in A
  BY EmptySeq, LenProperties, ElementOfSeq
<1>2. step \in [A -> [1 .. n -> A]]
  <2>1. \A a \in A, i \in 1 .. n : a \o ss[i] \in A
    BY <1>1, ConcatProperties
  <2> HIDE DEF A
  <2> QED
    BY <2>1
<1>3. PICK g : IsForward(g, n, A, ss[1], step)
  <2> HIDE DEF step, n, A
  <2> QED
    BY <1>1, <1>2, ForwardExists
<1>g. g \in [1 .. n -> A] /\ \A i \in 1 .. n : g[i] = IF i = 1 THEN ss[1] ELSE step[g[i - 1]][i]
  BY <1>3 DEF IsForward
<1>4. \A i \in 1 .. n : g[i] = IF i = 1 THEN ss[1] ELSE g[i - 1] \o ss[i]
  <2>1. \A i \in 1 .. n : i # 1 => i - 1 \in 1 .. n
    BY <1>1
  <2> HIDE DEF A, n
  <2> QED
    BY <1>g, <2>1
<1>5. Flat(g)
  <2> HIDE DEF A, n, step
  <2> QED
    BY <1>g, <1>4
<1> DEFINE f == CHOOSE f : Flat(f)
<1>6. Flat(f)
  <2> HIDE DEF Flat
  <2> QED
    BY <1>5
<1>7. FlattenSeq(ss) = f[n]
  BY <1>1 DEF FlattenSeq
<1> HIDE DEF f
<1> DEFINE T == {i \in 0 .. n : i # 0 => f[i] = g[i]}
<1>8. n \in T
  <2>1. 0 \in T
    BY <1>1
  <2>2. ASSUME NEW i \in 1 .. n, i - 1 \in T
        PROVE  i \in T
    <3>1. i \in 0 .. n /\ (i # 1 => i - 1 # 0)
      BY <1>1
    <3>2. f[i] = IF i = 1 THEN ss[i] ELSE f[i - 1] \o ss[i]
      BY <1>6
    <3>3. f[i] = g[i]
      BY <1>4, <2>2, <3>1, <3>2
    <3> QED
      BY <3>1, <3>3
  <2>3. n \in 0 .. n
    BY <1>1
  <2> HIDE DEF T, n
  <2> QED
    BY <1>1, <2>1, <2>2, <2>3, UpTo
<1> QED
  BY <1>1, <1>g, <1>4, <1>7, <1>8

-------------------------------------------------------------------------------
(* Sums over finite sets.                                                  *)

\* The library's sum takes some element of the set at a time.
Some(t) == CHOOSE x \in t : TRUE
Sums(f, S, h) ==
    \A t \in SUBSET S : f[t] = IF t = {} THEN 0 ELSE h[Some(t)] + f[t \ {Some(t)}]

Summed(D, h) ==
    (CHOOSE g : g = [t \in SUBSET D |-> IF t = {} THEN 0 ELSE h[Some(t)] + g[t \ {Some(t)}]])[D]

\* Without one of its elements a set is smaller by one.
LEMMA OneLess ==
    ASSUME NEW S, IsFiniteSet(S), NEW t \in SUBSET S, NEW x \in t
    PROVE  /\ Cardinality(t) \in Nat /\ t \ {x} \in SUBSET S
           /\ Cardinality(t \ {x}) = Cardinality(t) - 1 /\ Cardinality(t \ {x}) \in Nat
<1>1. IsFiniteSet(t)
  BY FS_Subset
<1>2. IsFiniteSet(t \ {x}) /\ Cardinality(t \ {x}) = Cardinality(t) - 1
  BY <1>1, FS_RemoveElement
<1> QED
  BY <1>1, <1>2, FS_CardinalityType

\* There are sums,
LEMMA SumsExist ==
    ASSUME NEW S, IsFiniteSet(S), NEW h \in [S -> Nat]
    PROVE  \E f \in [SUBSET S -> Nat] : Sums(f, S, h)
<1> DEFINE n == Cardinality(S)
           Upto(f, k) == /\ f \in [SUBSET S -> Nat]
                         /\ \A t \in SUBSET S : Cardinality(t) <= k =>
                               f[t] = IF t = {} THEN 0 ELSE h[Some(t)] + f[t \ {Some(t)}]
           T == {k \in 0 .. n : \E f : Upto(f, k)}
<1>1. n \in Nat
  BY FS_CardinalityType
<1>s. \A t \in SUBSET S : t # {} => Some(t) \in t
  BY DEF Some
<1>2. 0 \in T
  <2> DEFINE f == [t \in SUBSET S |-> 0]
  <2>1. f \in [SUBSET S -> Nat]
    OBVIOUS
  <2>2. ASSUME NEW t \in SUBSET S, Cardinality(t) <= 0
        PROVE  t = {}
    <3>1. IsFiniteSet(t) /\ Cardinality(t) \in Nat
      BY FS_Subset, FS_CardinalityType
    <3> QED
      BY <2>2, <3>1, FS_EmptySet
  <2>3. \A t \in SUBSET S : f[t] = 0
    OBVIOUS
  <2> HIDE DEF f
  <2>4. Upto(f, 0)
    BY <2>1, <2>2, <2>3
  <2> HIDE DEF Upto
  <2> QED
    BY <1>1, <2>4
<1>3. ASSUME NEW k \in 1 .. n, k - 1 \in T
      PROVE  k \in T
  <2>1. k \in 0 .. n /\ k \in Nat
    BY <1>1
  <2>2. PICK f : Upto(f, k - 1)
    BY <1>3
  <2> DEFINE Next1(t) == IF t = {} THEN 0 ELSE h[Some(t)] + f[t \ {Some(t)}]
             g == [t \in SUBSET S |-> IF Cardinality(t) = k THEN Next1(t) ELSE f[t]]
  <2>3. ASSUME NEW t \in SUBSET S, t # {}
        PROVE  /\ t \ {Some(t)} \in SUBSET S /\ Some(t) \in S
               /\ Cardinality(t) = k => Cardinality(t \ {Some(t)}) # k
               /\ Cardinality(t) <= k - 1 => Cardinality(t \ {Some(t)}) # k
    BY <1>s, <2>1, <2>3, OneLess
  <2>4. g \in [SUBSET S -> Nat]
    <3>1. ASSUME NEW t \in SUBSET S
          PROVE  Next1(t) \in Nat
      <4>1. CASE t = {}
        BY <4>1
      <4>2. CASE t # {}
        <5>1. h[Some(t)] \in Nat /\ f[t \ {Some(t)}] \in Nat
          BY <2>2, <2>3, <4>2
        <5> QED
          BY <4>2, <5>1
      <4> QED
        BY <4>1, <4>2
    <3> HIDE DEF Next1
    <3> QED
      BY <2>2, <3>1
  <2>5. ASSUME NEW t \in SUBSET S, Cardinality(t) <= k
        PROVE  g[t] = IF t = {} THEN 0 ELSE h[Some(t)] + g[t \ {Some(t)}]
    <3>1. g[t] = Next1(t)
      <4>1. CASE Cardinality(t) = k
        BY <4>1
      <4>2. CASE Cardinality(t) # k
        <5>1. Cardinality(t) \in Nat
          BY FS_Subset, FS_CardinalityType
        <5>2. Cardinality(t) <= k - 1
          BY <2>1, <2>5, <4>2, <5>1
        <5>3. f[t] = Next1(t)
          BY <2>2, <5>2
        <5>4. g[t] = f[t]
          BY <4>2
        <5> QED
          BY <5>3, <5>4
      <4> QED
        BY <4>1, <4>2
    <3>2. ASSUME t # {}
          PROVE  g[t \ {Some(t)}] = f[t \ {Some(t)}]
      <4>1. Cardinality(t) \in Nat
        BY FS_Subset, FS_CardinalityType
      <4>2. Cardinality(t \ {Some(t)}) # k /\ t \ {Some(t)} \in SUBSET S
        BY <2>1, <2>3, <2>5, <3>2, <4>1
      <4> QED
        BY <4>2
    <3> HIDE DEF g
    <3> QED
      BY <3>1, <3>2
  <2> HIDE DEF g
  <2>6. Upto(g, k)
    BY <2>4, <2>5
  <2> HIDE DEF Upto
  <2> QED
    BY <2>1, <2>6
<1> HIDE DEF T
<1>4. n \in T
  <2>1. n \in 0 .. n
    BY <1>1
  <2> HIDE DEF n
  <2> QED
    BY <1>1, <1>2, <1>3, <2>1, UpTo
<1>5. PICK f : Upto(f, n)
  BY <1>4 DEF T
<1>6. \A t \in SUBSET S : Cardinality(t) <= n
  BY FS_Subset
<1>7. Sums(f, S, h)
  BY <1>5, <1>6 DEF Sums
<1> QED
  BY <1>5, <1>7

\* which do not depend on the order in which the elements are taken
LEMMA SumOfAny ==
    ASSUME NEW S, IsFiniteSet(S), NEW h \in [S -> Nat], NEW f \in [SUBSET S -> Nat], Sums(f, S, h)
    PROVE  f[{}] = 0 /\ \A t \in SUBSET S : \A x \in t : f[t] = h[x] + f[t \ {x}]
<1> DEFINE n == Cardinality(S)
           T == {k \in 0 .. n : \A t \in SUBSET S : Cardinality(t) = k =>
                                    \A x \in t : f[t] = h[x] + f[t \ {x}]}
<1>1. n \in Nat
  BY FS_CardinalityType
<1>s. \A t \in SUBSET S : t # {} => Some(t) \in t
  BY DEF Some
<1>2. 0 \in T
  <2>1. \A t \in SUBSET S : Cardinality(t) = 0 => t = {}
    BY FS_Subset, FS_EmptySet
  <2> QED
    BY <1>1, <2>1
<1>3. ASSUME NEW k \in 1 .. n, k - 1 \in T
      PROVE  k \in T
  <2>1. k \in 0 .. n /\ k \in Nat
    BY <1>1
  <2>2. ASSUME NEW t \in SUBSET S, Cardinality(t) = k, NEW x \in t
        PROVE  f[t] = h[x] + f[t \ {x}]
    <3> DEFINE y == Some(t)
    <3>1. y \in t /\ f[t] = h[y] + f[t \ {y}]
      BY <1>s, <2>2 DEF Sums
    <3> HIDE DEF y
    <3>2. CASE x = y
      BY <3>1, <3>2
    <3>3. CASE x # y
      <4>1. /\ t \ {y} \in SUBSET S /\ t \ {x} \in SUBSET S /\ x \in t \ {y} /\ y \in t \ {x}
            /\ Cardinality(t \ {y}) = k - 1 /\ Cardinality(t \ {x}) = k - 1
        BY <2>2, <3>1, <3>3, OneLess
      <4>2. f[t \ {y}] = h[x] + f[(t \ {y}) \ {x}] /\ f[t \ {x}] = h[y] + f[(t \ {x}) \ {y}]
        BY <1>3, <4>1
      <4>3. (t \ {y}) \ {x} = (t \ {x}) \ {y} /\ (t \ {x}) \ {y} \in SUBSET S
        OBVIOUS
      <4>4. PICK rest \in Nat : rest = f[(t \ {y}) \ {x}] /\ rest = f[(t \ {x}) \ {y}]
        BY <4>3
      <4>5. PICK a \in Nat, b \in Nat : a = h[x] /\ b = h[y]
        BY <3>1
      <4>6. f[t] = b + (a + rest) /\ f[t \ {x}] = b + rest
        BY <3>1, <4>2, <4>4, <4>5
      <4>7. b + (a + rest) = a + (b + rest)
        OBVIOUS
      <4> QED
        BY <4>5, <4>6, <4>7
    <3> QED
      BY <3>2, <3>3
  <2> QED
    BY <2>1, <2>2
<1> HIDE DEF T
<1>4. ASSUME NEW t \in SUBSET S, NEW x \in t
      PROVE  f[t] = h[x] + f[t \ {x}]
  <2>1. Cardinality(t) \in Nat /\ Cardinality(t) <= n
    BY FS_Subset, FS_CardinalityType
  <2>2. Cardinality(t) \in 0 .. n
    BY <1>1, <2>1
  <2>3. \A k \in 0 .. n : k \in T
    <3> HIDE DEF n
    <3> QED
      BY <1>1, <1>2, <1>3, UpTo
  <2> QED
    BY <2>2, <2>3 DEF T
<1>5. f[{}] = 0
  BY DEF Sums
<1> QED
  BY <1>4, <1>5

\* nor on the set the sums are taken for: the library's sum over a part of it
\* is the same.
LEMMA SumOfPart ==
    ASSUME NEW S, IsFiniteSet(S), NEW h \in [S -> Nat], NEW f \in [SUBSET S -> Nat], Sums(f, S, h),
           NEW D \in SUBSET S
    PROVE  Summed(D, h) = f[D]
<1> DEFINE Part(g) == g = [t \in SUBSET D |-> IF t = {} THEN 0 ELSE h[Some(t)] + g[t \ {Some(t)}]]
           r == [t \in SUBSET D |-> f[t]]
           g == CHOOSE g : Part(g)
           n == Cardinality(S)
           T == {k \in 0 .. n : \A t \in SUBSET D : Cardinality(t) = k => g[t] = f[t]}
<1>1. n \in Nat
  BY FS_CardinalityType
<1>s. \A t \in SUBSET S : t # {} => Some(t) \in t
  BY DEF Some
<1>2. Part(r)
  <2>1. ASSUME NEW t \in SUBSET D
        PROVE  r[t] = IF t = {} THEN 0 ELSE h[Some(t)] + r[t \ {Some(t)}]
    <3>1. t \in SUBSET S /\ t \ {Some(t)} \in SUBSET D
      OBVIOUS
    <3>2. r[t] = f[t] /\ r[t \ {Some(t)}] = f[t \ {Some(t)}]
      BY <3>1
    <3> HIDE DEF r
    <3> QED
      BY <3>1, <3>2 DEF Sums
  <2>2. r = [t \in SUBSET D |-> r[t]]
    OBVIOUS
  <2> HIDE DEF r
  <2> QED
    BY <2>1, <2>2
<1>3. Part(g)
  <2> HIDE DEF Part
  <2> QED
    BY <1>2
<1> HIDE DEF g
<1>4. 0 \in T
  <2>1. \A t \in SUBSET S : Cardinality(t) = 0 => t = {}
    BY FS_Subset, FS_EmptySet
  <2>2. g[{}] = 0 /\ f[{}] = 0
    BY <1>3 DEF Sums
  <2>3. \A t \in SUBSET D : Cardinality(t) = 0 => g[t] = f[t]
    BY <2>1, <2>2
  <2>4. 0 \in 0 .. n
    BY <1>1
  <2> QED
    BY <2>3, <2>4
<1>5. ASSUME NEW k \in 1 .. n, k - 1 \in T
      PROVE  k \in T
  <2>1. k \in 0 .. n /\ k \in Nat
    BY <1>1
  <2>2. ASSUME NEW t \in SUBSET D, Cardinality(t) = k
        PROVE  g[t] = f[t]
    <3>1. CASE t = {}
      BY <1>3, <3>1 DEF Sums
    <3>2. CASE t # {}
      <4>1. t \in SUBSET S /\ Some(t) \in t /\ t \ {Some(t)} \in SUBSET D
        BY <1>s, <3>2
      <4>2. Cardinality(t \ {Some(t)}) = k - 1
        BY <2>2, <4>1, OneLess
      <4>3. g[t \ {Some(t)}] = f[t \ {Some(t)}]
        BY <1>5, <4>1, <4>2
      <4>4. g[t] = h[Some(t)] + g[t \ {Some(t)}]
        BY <1>3, <3>2
      <4>5. f[t] = h[Some(t)] + f[t \ {Some(t)}]
        BY <3>2, <4>1 DEF Sums
      <4> QED
        BY <4>3, <4>4, <4>5
    <3> QED
      BY <3>1, <3>2
  <2> QED
    BY <2>1, <2>2
<1> HIDE DEF T
<1>6. g[D] = f[D]
  <2>1. Cardinality(D) \in Nat /\ Cardinality(D) <= n
    BY FS_Subset, FS_CardinalityType
  <2>2. Cardinality(D) \in 0 .. n
    BY <1>1, <2>1
  <2>3. \A k \in 0 .. n : k \in T
    <3> HIDE DEF n
    <3> QED
      BY <1>1, <1>4, <1>5, UpTo
  <2> QED
    BY <2>2, <2>3 DEF T
<1> QED
  BY <1>6 DEF g, Summed

\* So the sum grows by each element that is added.
LEMMA SumIs ==
    ASSUME NEW S, IsFiniteSet(S), NEW h \in [S -> Nat]
    PROVE  /\ Summed({}, h) = 0
           /\ \A D \in SUBSET S : Summed(D, h) \in Nat
           /\ \A D \in SUBSET S : \A x \in D : Summed(D, h) = h[x] + Summed(D \ {x}, h)
<1>1. PICK f \in [SUBSET S -> Nat] : Sums(f, S, h)
  BY SumsExist
<1>2. \A D \in SUBSET S : Summed(D, h) = f[D]
  BY <1>1, SumOfPart
<1>3. f[{}] = 0 /\ \A D \in SUBSET S : \A x \in D : f[D] = h[x] + f[D \ {x}]
  BY <1>1, SumOfAny
<1>4. {} \in SUBSET S /\ \A D \in SUBSET S : \A x : D \ {x} \in SUBSET S
  OBVIOUS
<1> QED
  BY <1>2, <1>3, <1>4
===============================================================================
