--------------------------- MODULE DrawingDesk_proofs ---------------------------
(***************************************************************************)
(* What holds of the desk for every board, drawing and limits of speed and *)
(* acceleration: that what is sent follows the path, at speeds the goals   *)
(* can meet and no slower than they must be, and that what is previewed,   *)
(* what is drawn and what was saved are the same figure. The argument has  *)
(* two parts, the profile of a window, which is the least of what each of  *)
(* its waypoints allows from where it is, and the recipe, whose points are *)
(* followed from the runs of a drawing to the waypoints on the board.      *)
(***************************************************************************)
EXTENDS DrawingDesk, FoldLemmas

-------------------------------------------------------------------------------
(* Lengths along a path.                                                   *)

\* How far one step of a path goes.
Span(step) == MapThenSumSet(LAMBDA c : Magnitude(step[c]), 1 .. 3)

\* A length is a number,
LEMMA SpanIsNumber ==
    ASSUME NEW step \in Places
    PROVE  Span(step) \in Nat
<1> DEFINE S == 1 .. 3
           h == [c \in S |-> Magnitude(step[c])]
           Taken(g) == g = [t \in SUBSET S |-> IF t = {} THEN 0
                               ELSE Magnitude(step[Some(t)]) + g[t \ {Some(t)}]]
           TakenOf(g) == g = [t \in SUBSET S |-> IF t = {} THEN 0
                               ELSE h[Some(t)] + g[t \ {Some(t)}]]
<1>1. IsFiniteSet(S)
  <2>1. 1 \in Int /\ 3 \in Int
    OBVIOUS
  <2> QED
    BY <2>1, FS_Interval
<1>2. h \in [S -> Nat]
  BY DEF Magnitude, Places
<1>3. \A g : Taken(g) <=> TakenOf(g)
  <2>1. ASSUME NEW t \in SUBSET S, t # {}
        PROVE  h[Some(t)] = Magnitude(step[Some(t)])
    <3>1. Some(t) \in S
      BY <2>1 DEF Some
    <3> HIDE DEF S
    <3> QED
      BY <3>1
  <2> HIDE DEF h
  <2> QED
    BY <2>1
<1>4. (CHOOSE g : Taken(g))[S] = Summed(S, h)
  <2>1. (CHOOSE g : Taken(g)) = (CHOOSE g : TakenOf(g))
    <3> HIDE DEF Taken, TakenOf
    <3> QED
      BY <1>3, Zenon
  <2>2. Summed(S, h) = (CHOOSE g : TakenOf(g))[S]
    BY DEF Summed
  <2> HIDE DEF Taken, TakenOf
  <2> QED
    BY <2>1, <2>2
<1>5. Summed(S, h) \in Nat
  <2> HIDE DEF S, h
  <2> QED
    BY <1>1, <1>2, SumIs
<1>6. Span(step) = (CHOOSE g : Taken(g))[S]
  BY Zenon DEF Span, MapThenSumSet, MapThenFoldSet, Some
<1> HIDE DEF Taken, TakenOf, h, S
<1> QED
  BY <1>4, <1>5, <1>6

\* the length of a path is one as well,
LEMMA LengthIsNumber ==
    ASSUME NEW w \in Seq(Places), NEW i \in 1 .. Len(w) - 1
    PROVE  Step(w, i) \in Places /\ Length(w, i) = Span(Step(w, i)) /\ Length(w, i) \in Nat
<1>1. Len(w) \in Nat
  BY LenProperties
<1>2. i \in 1 .. Len(w) /\ i + 1 \in 1 .. Len(w)
  BY <1>1
<1>3. w[i] \in Places /\ w[i + 1] \in Places
  BY <1>2, ElementOfSeq
<1>4. Step(w, i) \in Places
  <2>1. PICK u \in [1 .. 3 -> Int], v \in [1 .. 3 -> Int] : u = w[i + 1] /\ v = w[i]
    BY <1>3 DEF Places
  <2>2. [c \in 1 .. 3 |-> u[c] - v[c]] \in [1 .. 3 -> Int]
    OBVIOUS
  <2> QED
    BY <2>1, <2>2 DEF Step, Places
<1>5. Length(w, i) = Span(Step(w, i))
  BY DEF Length, Span
<1> QED
  BY <1>4, <1>5, SpanIsNumber

\* and a distance is the sum of those it covers.
LEMMA DistanceAdds ==
    ASSUME NEW w \in Seq(Places), NEW i \in 1 .. Len(w), NEW j \in i .. Len(w)
    PROVE  /\ Distance(w, i, j) \in Nat /\ Distance(w, i, i) = 0
           /\ i < j => /\ Distance(w, i, j) = Length(w, i) + Distance(w, i + 1, j)
                       /\ Distance(w, i, j) = Distance(w, i, j - 1) + Length(w, j - 1)
<1> DEFINE n == Len(w)
           S == 1 .. n - 1
           h == [k \in S |-> Length(w, k)]
<1>1. n \in Nat /\ i \in 1 .. n /\ j \in 1 .. n /\ i <= j
  BY LenProperties
<1>2. IsFiniteSet(S)
  <2>1. 1 \in Int /\ n - 1 \in Int
    BY <1>1
  <2> QED
    BY <2>1, FS_Interval
<1>3. h \in [S -> Nat]
  BY LengthIsNumber
<1>4. ASSUME NEW a \in 1 .. n, NEW b \in 1 .. n
      PROVE  a .. b - 1 \in SUBSET S /\ Distance(w, a, b) = Summed(a .. b - 1, h)
  <2> DEFINE D == a .. b - 1
             Taken(g) == g = [t \in SUBSET D |-> IF t = {} THEN 0
                                 ELSE Length(w, Some(t)) + g[t \ {Some(t)}]]
             TakenOf(g) == g = [t \in SUBSET D |-> IF t = {} THEN 0
                                 ELSE h[Some(t)] + g[t \ {Some(t)}]]
  <2>1. D \in SUBSET S
    <3>1. \A k \in D : k \in S
      BY <1>1
    <3> QED
      BY <3>1
  <2>2. \A g : Taken(g) <=> TakenOf(g)
    <3>1. ASSUME NEW t \in SUBSET D, t # {}
          PROVE  h[Some(t)] = Length(w, Some(t))
      <4>1. Some(t) \in S
        BY <2>1, <3>1 DEF Some
      <4> HIDE DEF S
      <4> QED
        BY <4>1
    <3> HIDE DEF h
    <3> QED
      BY <3>1
  <2>3. (CHOOSE g : Taken(g))[D] = Summed(D, h)
    <3>1. (CHOOSE g : Taken(g)) = (CHOOSE g : TakenOf(g))
      <4> HIDE DEF Taken, TakenOf
      <4> QED
        BY <2>2, Zenon
    <3>2. Summed(D, h) = (CHOOSE g : TakenOf(g))[D]
      BY DEF Summed
    <3> HIDE DEF Taken, TakenOf
    <3> QED
      BY <3>1, <3>2
  <2>4. Distance(w, a, b) = (CHOOSE g : Taken(g))[D]
    BY Zenon DEF Distance, MapThenSumSet, MapThenFoldSet, Some
  <2> HIDE DEF Taken
  <2> QED
    BY <2>1, <2>3, <2>4
<1>5. /\ Summed({}, h) = 0
      /\ \A D \in SUBSET S : Summed(D, h) \in Nat
      /\ \A D \in SUBSET S : \A x \in D : Summed(D, h) = h[x] + Summed(D \ {x}, h)
  <2> HIDE DEF S, h
  <2> QED
    BY <1>2, <1>3, SumIs
<1>6. Distance(w, i, j) \in Nat
  BY <1>1, <1>4, <1>5
<1>7. Distance(w, i, i) = 0
  <2>1. i .. i - 1 = {}
    BY <1>1
  <2> QED
    BY <1>1, <1>4, <1>5, <2>1
<1>8. ASSUME i < j
      PROVE  /\ Distance(w, i, j) = Length(w, i) + Distance(w, i + 1, j)
             /\ Distance(w, i, j) = Distance(w, i, j - 1) + Length(w, j - 1)
  <2>1. /\ i + 1 \in 1 .. n /\ j - 1 \in 1 .. n /\ i \in S /\ j - 1 \in S
        /\ i \in i .. j - 1 /\ j - 1 \in i .. j - 1
    BY <1>1, <1>8
  <2>2. h[i] = Length(w, i) /\ h[j - 1] = Length(w, j - 1)
    BY <2>1
  <2>3. (i .. j - 1) \ {i} = i + 1 .. j - 1
    <3>1. \A k : k \in (i .. j - 1) \ {i} <=> k \in i + 1 .. j - 1
      BY <1>1
    <3> QED
      BY <3>1
  <2>4. (i .. j - 1) \ {j - 1} = i .. (j - 1) - 1
    <3>1. \A k : k \in (i .. j - 1) \ {j - 1} <=> k \in i .. (j - 1) - 1
      BY <1>1
    <3> QED
      BY <3>1
  <2>5. /\ Distance(w, i, j) = Summed(i .. j - 1, h) /\ i .. j - 1 \in SUBSET S
        /\ Distance(w, i + 1, j) = Summed(i + 1 .. j - 1, h)
        /\ Distance(w, i, j - 1) = Summed(i .. (j - 1) - 1, h)
        /\ Summed(i .. (j - 1) - 1, h) \in Nat
    BY <1>1, <1>4, <1>5, <2>1
  <2>6. /\ Summed(i .. j - 1, h) = Length(w, i) + Summed(i + 1 .. j - 1, h)
        /\ Summed(i .. j - 1, h) = Length(w, j - 1) + Summed(i .. (j - 1) - 1, h)
    <3>1. /\ Summed(i .. j - 1, h) = h[i] + Summed((i .. j - 1) \ {i}, h)
          /\ Summed(i .. j - 1, h) = h[j - 1] + Summed((i .. j - 1) \ {j - 1}, h)
      <4> HIDE DEF S, h
      <4> QED
        BY <1>5, <2>1, <2>5
    <3> HIDE DEF S, h
    <3> QED
      BY <2>2, <2>3, <2>4, <3>1
  <2>7. PICK l \in Nat, d \in Nat : l = Length(w, j - 1) /\ d = Summed(i .. (j - 1) - 1, h)
    BY <2>1, <2>5, LengthIsNumber
  <2> HIDE DEF S, h, n
  <2> QED
    BY <2>5, <2>6, <2>7
<1> QED
  BY <1>6, <1>7, <1>8

-------------------------------------------------------------------------------
(* The profile of a window.                                                *)

\* The least and the largest of two numbers.
LEMMA MinOfTwo ==
    ASSUME NEW a \in Int, NEW b \in Int
    PROVE  Min({a, b}) = (IF a <= b THEN a ELSE b) /\ Max({a, b}) = (IF a <= b THEN b ELSE a)
BY DEF Min, Max

\* A cap is a number.
LEMMA CapIsNumber ==
    ASSUME NEW w, NEW p
    PROVE  SpeedCap(w, p) \in Nat
BY WindowsAssumption, MinOfTwo DEF SpeedCap

\* A profile keeps to the caps, starts and ends no faster than it may, and the
\* speed changes no faster than the acceleration allows.
Feasible(c, w, from, to) ==
    /\ c \in [1 .. Len(w) -> Nat]
    /\ c[1] <= from /\ c[Len(w)] <= to
    /\ \A p \in 1 .. Len(w) : c[p] <= SpeedCap(w, p)
    /\ \A p \in 1 .. Len(w) - 1 :
          c[p + 1] <= c[p] + Gain(w, p) /\ c[p] <= c[p + 1] + Gain(w, p)

\* What the acceleration pass computes,
LEMMA AcceleratedIs ==
    ASSUME NEW w \in Seq(Places), w # <<>>, NEW from \in Nat
    PROVE  LET f == Accelerated(w, from) IN
           /\ f \in [1 .. Len(w) -> Nat]
           /\ f[1] = Min({SpeedCap(w, 1), from})
           /\ \A p \in 2 .. Len(w) : f[p] = Min({SpeedCap(w, p), f[p - 1] + Gain(w, p - 1)})
<1> DEFINE n == Len(w)
           first == Min({SpeedCap(w, 1), from})
           step == [a \in Nat |-> [p \in 1 .. n |->
                       IF p = 1 THEN 0 ELSE Min({SpeedCap(w, p), a + Gain(w, p - 1)})]]
           Passed(f) == f = [p \in 1 .. n |-> IF p = 1 THEN Min({SpeedCap(w, 1), from})
                                ELSE Min({SpeedCap(w, p), f[p - 1] + Gain(w, p - 1)})]
<1>1. n \in Nat /\ n >= 1
  BY EmptySeq
<1>2. first \in Nat
  BY CapIsNumber, MinOfTwo
<1>3. step \in [Nat -> [1 .. n -> Nat]]
  <2>1. ASSUME NEW a \in Nat, NEW p \in 1 .. n, p # 1
        PROVE  Min({SpeedCap(w, p), a + Gain(w, p - 1)}) \in Nat
    <3>1. p - 1 \in 1 .. Len(w) - 1
      BY <1>1, <2>1
    <3>2. Gain(w, p - 1) \in Nat
      BY <3>1, LengthIsNumber, WindowsAssumption DEF Gain
    <3>3. a + Gain(w, p - 1) \in Nat /\ SpeedCap(w, p) \in Nat
      BY <3>2, CapIsNumber
    <3> QED
      BY <3>3, MinOfTwo
  <2> QED
    BY <2>1
<1>4. PICK g : IsForward(g, n, Nat, first, step)
  <2> HIDE DEF n, step, first
  <2> QED
    BY <1>1, <1>2, <1>3, ForwardExists
<1>5. Passed(g) /\ g \in [1 .. n -> Nat]
  <2>1. ASSUME NEW p \in 1 .. n, p # 1
        PROVE  step[g[p - 1]][p] = Min({SpeedCap(w, p), g[p - 1] + Gain(w, p - 1)})
    <3>1. g[p - 1] \in Nat
      BY <1>1, <1>4, <2>1 DEF IsForward
    <3> QED
      BY <2>1, <3>1
  <2> HIDE DEF step, n
  <2> QED
    BY <1>4, <2>1 DEF IsForward
<1> DEFINE f == CHOOSE f : Passed(f)
<1>6. Passed(f)
  <2> HIDE DEF Passed
  <2> QED
    BY <1>5
<1>7. Accelerated(w, from) = f
  BY DEF Accelerated
<1> HIDE DEF f
<1> DEFINE T == {p \in 0 .. n : p # 0 => f[p] \in Nat}
<1>8. \A p \in 0 .. n : p \in T
  <2>1. 0 \in T
    BY <1>1
  <2>2. ASSUME NEW p \in 1 .. n, p - 1 \in T
        PROVE  p \in T
    <3>1. p \in 0 .. n /\ (p # 1 => p - 1 # 0)
      BY <1>1
    <3>2. CASE p = 1
      BY <1>2, <1>6, <3>1, <3>2
    <3>3. CASE p # 1
      <4>1. f[p - 1] \in Nat
        BY <2>2, <3>1, <3>3
      <4>2. step[f[p - 1]][p] \in Nat
        BY <1>3, <4>1
      <4>3. f[p] = step[f[p - 1]][p]
        BY <1>6, <3>3, <4>1
      <4> HIDE DEF step
      <4> QED
        BY <3>1, <4>2, <4>3
    <3> QED
      BY <3>2, <3>3
  <2> HIDE DEF T, n
  <2> QED
    BY <1>1, <2>1, <2>2, UpTo
<1>9. f \in [1 .. n -> Nat]
  <2>1. \A p \in 1 .. n : f[p] \in Nat
    BY <1>1, <1>8
  <2> QED
    BY <1>6, <2>1
<1>10. f[1] = first
  BY <1>1, <1>6
<1>11. ASSUME NEW p \in 2 .. n
       PROVE  f[p] = Min({SpeedCap(w, p), f[p - 1] + Gain(w, p - 1)})
  <2>1. p \in 1 .. n /\ p # 1
    BY <1>1
  <2> QED
    BY <1>6, <2>1
<1> QED
  BY <1>7, <1>9, <1>10, <1>11

\* and what the deceleration pass makes of it.
LEMMA ForwardBackwardIs ==
    ASSUME NEW w \in Seq(Places), w # <<>>, NEW from \in Nat, NEW to \in Nat
    PROVE  LET f == Accelerated(w, from)
               b == ForwardBackward(w, from, to) IN
           /\ b \in [1 .. Len(w) -> Nat]
           /\ b[Len(w)] = Min({f[Len(w)], to})
           /\ \A p \in 1 .. Len(w) - 1 : b[p] = Min({f[p], b[p + 1] + Gain(w, p)})
<1> DEFINE n == Len(w)
           f == Accelerated(w, from)
           last == Min({f[n], to})
           step == [a \in Nat |-> [p \in 1 .. n |-> IF p = n THEN 0 ELSE Min({f[p], a + Gain(w, p)})]]
           Passed(b) == b = [p \in 1 .. n |-> IF p = n THEN Min({f[p], to})
                                ELSE Min({f[p], b[p + 1] + Gain(w, p)})]
<1>1. n \in Nat /\ n >= 1 /\ f \in [1 .. n -> Nat]
  <2>1. n \in Nat /\ n >= 1
    BY EmptySeq
  <2>2. f \in [1 .. n -> Nat]
    BY AcceleratedIs
  <2> QED
    BY <2>1, <2>2
<1> HIDE DEF f
<1>2. last \in Nat
  BY <1>1, MinOfTwo
<1>3. step \in [Nat -> [1 .. n -> Nat]]
  <2>1. ASSUME NEW a \in Nat, NEW p \in 1 .. n, p # n
        PROVE  Min({f[p], a + Gain(w, p)}) \in Nat
    <3>1. p \in 1 .. Len(w) - 1
      BY <1>1, <2>1
    <3>2. Gain(w, p) \in Nat
      BY <3>1, LengthIsNumber, WindowsAssumption DEF Gain
    <3>3. a + Gain(w, p) \in Nat /\ f[p] \in Nat
      BY <1>1, <3>2
    <3> QED
      BY <3>3, MinOfTwo
  <2> QED
    BY <2>1
<1>4. PICK g : IsBackward(g, n, Nat, last, step)
  <2> HIDE DEF n, step, last
  <2> QED
    BY <1>1, <1>2, <1>3, BackwardExists
<1>5. Passed(g) /\ g \in [1 .. n -> Nat]
  <2>1. ASSUME NEW p \in 1 .. n, p # n
        PROVE  step[g[p + 1]][p] = Min({f[p], g[p + 1] + Gain(w, p)})
    <3>1. g[p + 1] \in Nat
      BY <1>1, <1>4, <2>1 DEF IsBackward
    <3> QED
      BY <2>1, <3>1
  <2> HIDE DEF step, n
  <2> QED
    BY <1>4, <2>1 DEF IsBackward
<1> DEFINE b == CHOOSE b : Passed(b)
<1>6. Passed(b)
  <2> HIDE DEF Passed
  <2> QED
    BY <1>5
<1>7. ForwardBackward(w, from, to) = b
  BY DEF ForwardBackward, f
<1> HIDE DEF b
<1> DEFINE T == {k \in 0 .. n : k # 0 => b[n + 1 - k] \in Nat}
<1>8. \A k \in 0 .. n : k \in T
  <2>1. 0 \in T
    BY <1>1
  <2>2. ASSUME NEW k \in 1 .. n, k - 1 \in T
        PROVE  k \in T
    <3>1. PICK p \in 1 .. n : p = n + 1 - k /\ (k = 1 <=> p = n) /\ p + 1 = n + 1 - (k - 1)
      <4>1. /\ n + 1 - k \in 1 .. n /\ (k = 1 <=> n + 1 - k = n)
            /\ (n + 1 - k) + 1 = n + 1 - (k - 1)
        BY <1>1
      <4> QED
        BY <4>1
    <3>2. k \in 0 .. n
      BY <1>1
    <3>3. b[p] \in Nat
      <4>1. CASE k = 1
        BY <1>2, <1>6, <3>1, <4>1
      <4>2. CASE k # 1
        <5>1. b[p + 1] \in Nat
          BY <2>2, <3>1, <4>2
        <5>2. step[b[p + 1]][p] \in Nat
          BY <1>3, <5>1
        <5>3. b[p] = step[b[p + 1]][p]
          BY <1>6, <3>1, <4>2, <5>1
        <5> HIDE DEF step
        <5> QED
          BY <5>2, <5>3
      <4> QED
        BY <4>1, <4>2
    <3> QED
      BY <3>1, <3>2, <3>3
  <2> HIDE DEF T, n
  <2> QED
    BY <1>1, <2>1, <2>2, UpTo
<1>9. b \in [1 .. n -> Nat]
  <2>1. ASSUME NEW p \in 1 .. n
        PROVE  b[p] \in Nat
    <3>1. PICK k \in 1 .. n : k = n + 1 - p /\ p = n + 1 - k
      <4>1. n + 1 - p \in 1 .. n /\ p = n + 1 - (n + 1 - p)
        BY <1>1
      <4> QED
        BY <4>1
    <3> QED
      BY <1>1, <1>8, <3>1
  <2> QED
    BY <1>6, <2>1
<1>10. b[n] = last
  BY <1>1, <1>6
<1>11. ASSUME NEW p \in 1 .. n - 1
       PROVE  b[p] = Min({f[p], b[p + 1] + Gain(w, p)})
  <2>1. p \in 1 .. n /\ p # n
    BY <1>1
  <2> QED
    BY <1>6, <2>1
<1> HIDE DEF Passed
<1> QED
  BY <1>7, <1>9, <1>10, <1>11 DEF f

\* Of all profiles a window allows, the two passes compute one, and the fastest
\* at every waypoint (_retime_goal_window).
LEMMA FastestProfile ==
    ASSUME NEW w \in Seq(Places), w # <<>>, NEW from \in Nat, NEW to \in Nat
    PROVE  /\ Feasible(ForwardBackward(w, from, to), w, from, to)
           /\ \A c : Feasible(c, w, from, to) =>
                 \A p \in 1 .. Len(w) : c[p] <= ForwardBackward(w, from, to)[p]
<1> DEFINE n == Len(w)
           f == Accelerated(w, from)
           b == ForwardBackward(w, from, to)
<1>1. n \in Nat /\ n >= 1 /\ 1 \in 1 .. n /\ n \in 1 .. n
  BY EmptySeq
<1>2. /\ f \in [1 .. n -> Nat]
      /\ f[1] = Min({SpeedCap(w, 1), from})
      /\ \A p \in 2 .. n : f[p] = Min({SpeedCap(w, p), f[p - 1] + Gain(w, p - 1)})
  BY AcceleratedIs
<1>3. /\ b \in [1 .. n -> Nat]
      /\ b[n] = Min({f[n], to})
      /\ \A p \in 1 .. n - 1 : b[p] = Min({f[p], b[p + 1] + Gain(w, p)})
  BY ForwardBackwardIs
<1>4. (\A p : SpeedCap(w, p) \in Nat) /\ \A p \in 1 .. n - 1 : Gain(w, p) \in Nat
  BY CapIsNumber, LengthIsNumber, WindowsAssumption DEF Gain
<1> HIDE DEF n, f, b
<1>5. f[1] <= SpeedCap(w, 1) /\ f[1] <= from /\ (f[1] = SpeedCap(w, 1) \/ f[1] = from)
  BY <1>2, <1>4, MinOfTwo
<1>6. ASSUME NEW p \in 1 .. n - 1
      PROVE  /\ p + 1 \in 1 .. n /\ p \in 1 .. n
             /\ f[p + 1] <= SpeedCap(w, p + 1) /\ f[p + 1] <= f[p] + Gain(w, p)
             /\ f[p + 1] = SpeedCap(w, p + 1) \/ f[p + 1] = f[p] + Gain(w, p)
  <2>1. p + 1 \in 2 .. n /\ (p + 1) - 1 = p /\ p \in 1 .. n /\ p + 1 \in 1 .. n
    BY <1>1
  <2>2. f[p + 1] = Min({SpeedCap(w, p + 1), f[p] + Gain(w, p)})
    BY <1>2, <2>1
  <2>3. f[p] + Gain(w, p) \in Nat /\ SpeedCap(w, p + 1) \in Nat
    BY <1>2, <1>4, <2>1
  <2>4. Min({SpeedCap(w, p + 1), f[p] + Gain(w, p)})
          = IF SpeedCap(w, p + 1) <= f[p] + Gain(w, p) THEN SpeedCap(w, p + 1) ELSE f[p] + Gain(w, p)
    BY <2>3, MinOfTwo
  <2> QED
    BY <2>1, <2>2, <2>3, <2>4
<1>7. ASSUME NEW p \in 1 .. n - 1
      PROVE  /\ b[p] <= f[p] /\ b[p] <= b[p + 1] + Gain(w, p)
             /\ b[p] = f[p] \/ b[p] = b[p + 1] + Gain(w, p)
  <2>1. b[p] = Min({f[p], b[p + 1] + Gain(w, p)})
    BY <1>3
  <2>2. f[p] \in Nat /\ b[p + 1] + Gain(w, p) \in Nat
    BY <1>2, <1>3, <1>4, <1>6
  <2>3. Min({f[p], b[p + 1] + Gain(w, p)})
          = IF f[p] <= b[p + 1] + Gain(w, p) THEN f[p] ELSE b[p + 1] + Gain(w, p)
    BY <2>2, MinOfTwo
  <2> QED
    BY <2>1, <2>2, <2>3
<1>8. b[n] <= f[n] /\ b[n] <= to /\ (b[n] = f[n] \/ b[n] = to)
  <2>1. f[n] \in Nat /\ b[n] = Min({f[n], to})
    BY <1>1, <1>2, <1>3
  <2>2. Min({f[n], to}) = IF f[n] <= to THEN f[n] ELSE to
    BY <2>1, MinOfTwo
  <2> QED
    BY <2>1, <2>2
<1>9. ASSUME NEW p \in 1 .. n
      PROVE  b[p] <= f[p] /\ f[p] <= SpeedCap(w, p) /\ b[p] \in Nat /\ f[p] \in Nat
  <2>1. b[p] <= f[p]
    <3>1. p = n \/ p \in 1 .. n - 1
      BY <1>1
    <3> QED
      BY <1>7, <1>8, <3>1
  <2>2. f[p] <= SpeedCap(w, p)
    <3>1. CASE p = 1
      BY <1>5, <3>1
    <3>2. CASE p # 1
      <4>1. p - 1 \in 1 .. n - 1 /\ (p - 1) + 1 = p
        BY <1>1, <3>2
      <4> QED
        BY <1>6, <4>1
    <3> QED
      BY <3>1, <3>2
  <2> QED
    BY <1>2, <1>3, <2>1, <2>2
<1>10. Feasible(b, w, from, to)
  <2>1. ASSUME NEW p \in 1 .. n
        PROVE  b[p] <= SpeedCap(w, p)
    <3>1. b[p] <= f[p] /\ f[p] <= SpeedCap(w, p) /\ b[p] \in Nat /\ f[p] \in Nat /\ SpeedCap(w, p) \in Nat
      BY <1>4, <1>9
    <3> QED
      BY <3>1
  <2>2. ASSUME NEW p \in 1 .. n - 1
        PROVE  b[p + 1] <= b[p] + Gain(w, p) /\ b[p] <= b[p + 1] + Gain(w, p)
    <3>1. PICK x \in Nat, y \in Nat, u \in Nat, v \in Nat, g \in Nat :
             x = b[p] /\ y = b[p + 1] /\ u = f[p] /\ v = f[p + 1] /\ g = Gain(w, p)
      BY <1>4, <1>6, <1>9
    <3>2. y <= v /\ v <= u + g /\ x <= y + g /\ (x = u \/ x = y + g)
      BY <1>6, <1>7, <1>9, <3>1
    <3>3. y <= x + g /\ x <= y + g
      BY <3>2
    <3> QED
      BY <3>1, <3>3
  <2>3. b[1] <= from /\ b[n] <= to
    <3>1. b[1] <= f[1] /\ f[1] <= from /\ b[1] \in Nat /\ f[1] \in Nat
      BY <1>1, <1>5, <1>9
    <3> QED
      BY <1>8, <3>1
  <2> QED
    BY <1>3, <2>1, <2>2, <2>3 DEF Feasible, n
<1>11. ASSUME NEW c, Feasible(c, w, from, to)
       PROVE  \A p \in 1 .. n : c[p] <= b[p]
  <2>1. /\ c \in [1 .. n -> Nat] /\ c[1] <= from /\ c[n] <= to
        /\ \A p \in 1 .. n : c[p] <= SpeedCap(w, p)
        /\ \A p \in 1 .. n - 1 : c[p + 1] <= c[p] + Gain(w, p) /\ c[p] <= c[p + 1] + Gain(w, p)
    BY <1>11 DEF Feasible, n
  <2> DEFINE T == {p \in 0 .. n : p # 0 => c[p] <= f[p]}
  <2>2. \A p \in 0 .. n : p \in T
    <3>1. 0 \in T
      BY <1>1
    <3>2. ASSUME NEW q \in 1 .. n, q - 1 \in T
          PROVE  q \in T
      <4>1. q \in 0 .. n
        BY <1>1
      <4>2. CASE q = 1
        <5>1. c[1] <= SpeedCap(w, 1) /\ c[1] <= from
          BY <1>1, <2>1
        <5> QED
          BY <1>5, <4>1, <4>2, <5>1
      <4>3. CASE q # 1
        <5>1. PICK p \in 1 .. n - 1 : q = p + 1 /\ p # 0 /\ q - 1 = p
          <6>1. q - 1 \in 1 .. n - 1 /\ q = (q - 1) + 1
            BY <1>1, <4>3
          <6> QED
            BY <6>1
        <5>2. c[p] <= f[p]
          BY <3>2, <5>1
        <5>3. PICK x \in Nat, y \in Nat, u \in Nat, v \in Nat, g \in Nat, s \in Nat :
                 x = c[p] /\ y = c[p + 1] /\ u = f[p] /\ v = f[p + 1] /\ g = Gain(w, p) /\ s = SpeedCap(w, p + 1)
          BY <1>4, <1>6, <1>9, <2>1
        <5>4. x <= u /\ y <= x + g /\ y <= s /\ (v = s \/ v = u + g)
          BY <1>6, <2>1, <5>2, <5>3
        <5>5. y <= v
          BY <5>4
        <5> QED
          BY <4>1, <5>1, <5>3, <5>5
      <4> QED
        BY <4>2, <4>3
    <3> HIDE DEF T
    <3> QED
      BY <1>1, <3>1, <3>2, UpTo
  <2>3. \A p \in 1 .. n : c[p] <= f[p]
    BY <1>1, <2>2
  <2> HIDE DEF T
  <2> DEFINE U == {k \in 0 .. n : k # 0 => c[n + 1 - k] <= b[n + 1 - k]}
  <2>4. \A k \in 0 .. n : k \in U
    <3>1. 0 \in U
      BY <1>1
    <3>2. ASSUME NEW k \in 1 .. n, k - 1 \in U
          PROVE  k \in U
      <4>1. k \in 0 .. n
        BY <1>1
      <4>2. PICK p \in 1 .. n : p = n + 1 - k /\ (k = 1 <=> p = n) /\ p + 1 = n + 1 - (k - 1)
        <5>1. /\ n + 1 - k \in 1 .. n /\ (k = 1 <=> n + 1 - k = n)
              /\ (n + 1 - k) + 1 = n + 1 - (k - 1)
          BY <1>1
        <5> QED
          BY <5>1
      <4>3. c[p] <= f[p]
        BY <2>3
      <4>4. c[p] <= b[p]
        <5>1. CASE p = n
          BY <1>8, <2>1, <4>3, <5>1
        <5>2. CASE p # n
          <6>1. p \in 1 .. n - 1 /\ k - 1 # 0
            BY <1>1, <4>2, <5>2
          <6>2. c[p + 1] <= b[p + 1]
            BY <3>2, <4>2, <6>1
          <6>3. PICK x \in Nat, y \in Nat, u \in Nat, v \in Nat, g \in Nat, z \in Nat :
                   x = c[p] /\ y = c[p + 1] /\ u = b[p] /\ v = b[p + 1] /\ g = Gain(w, p) /\ z = f[p]
            BY <1>4, <1>6, <1>9, <2>1, <6>1
          <6>4. x <= z /\ y <= v /\ x <= y + g /\ (u = z \/ u = v + g)
            BY <1>7, <2>1, <4>3, <6>1, <6>2, <6>3
          <6>5. x <= u
            BY <6>4
          <6> QED
            BY <6>3, <6>5
        <5> QED
          BY <5>1, <5>2
      <4> QED
        BY <4>1, <4>2, <4>4
    <3> HIDE DEF U
    <3> QED
      BY <1>1, <3>1, <3>2, UpTo
  <2>5. ASSUME NEW p \in 1 .. n
        PROVE  c[p] <= b[p]
    <3>1. PICK k \in 1 .. n : p = n + 1 - k
      <4>1. n + 1 - p \in 1 .. n /\ p = n + 1 - (n + 1 - p)
        BY <1>1
      <4> QED
        BY <4>1
    <3>2. k \in U /\ k # 0
      BY <1>1, <2>4, <3>1
    <3> QED
      BY <3>1, <3>2
  <2> QED
    BY <2>5
<1> QED
  BY <1>10, <1>11 DEF b, n

\* The speed a window allows at a waypoint whatever the others allow, and how
\* far apart two of them are.
LimitAt(w, from, p) ==
    Min({SpeedCap(w, p)} \cup (IF p = 1 THEN {from} ELSE {}) \cup (IF p = Len(w) THEN {0} ELSE {}))
Between(w, p, q) == IF p < q THEN Distance(w, p, q) ELSE Distance(w, q, p)

\* The limit is one of those it is the least of.
LEMMA LimitIs ==
    ASSUME NEW w \in Seq(Places), NEW from \in Nat, NEW p \in 1 .. Len(w)
    PROVE  /\ LimitAt(w, from, p) \in Nat /\ LimitAt(w, from, p) <= SpeedCap(w, p)
           /\ p = 1 => LimitAt(w, from, p) <= from
           /\ p = Len(w) => LimitAt(w, from, p) = 0
           /\ \/ LimitAt(w, from, p) = SpeedCap(w, p)
              \/ p = 1 /\ LimitAt(w, from, p) = from
              \/ p = Len(w) /\ LimitAt(w, from, p) = 0
<1> DEFINE L == {SpeedCap(w, p)} \cup (IF p = 1 THEN {from} ELSE {}) \cup (IF p = Len(w) THEN {0} ELSE {})
<1>1. L \in SUBSET Nat /\ SpeedCap(w, p) \in L
  BY CapIsNumber
<1>2. PICK m \in L : \A l \in L : m <= l
  <2> HIDE DEF L
  <2> QED
    BY <1>1, LeastNatural
<1>3. \A x \in L : (\A l \in L : x <= l) => x = m
  <2> HIDE DEF L
  <2> QED
    BY <1>1, <1>2
<1>4. LimitAt(w, from, p) = m
  <2>1. LimitAt(w, from, p) = Min(L)
    BY DEF LimitAt
  <2> HIDE DEF L
  <2> QED
    BY <1>2, <1>3, <2>1 DEF Min
<1>5. p = 1 => from \in L
  OBVIOUS
<1>6. p = Len(w) => 0 \in L
  OBVIOUS
<1>7. \A x \in L : x = SpeedCap(w, p) \/ (p = 1 /\ x = from) \/ (p = Len(w) /\ x = 0)
  OBVIOUS
<1> HIDE DEF L
<1>8. p = Len(w) => m = 0
  BY <1>1, <1>2, <1>6
<1> QED
  BY <1>1, <1>2, <1>4, <1>5, <1>7, <1>8

\* Two waypoints next to each other are as far from a third as their step makes
\* them.
LEMMA BetweenSteps ==
    ASSUME NEW w \in Seq(Places), NEW q \in 1 .. Len(w)
    PROVE  /\ Between(w, q, q) = 0 /\ \A p \in 1 .. Len(w) : Between(w, p, q) \in Nat
           /\ \A p \in 1 .. Len(w) - 1 :
                 /\ Length(w, p) \in Nat /\ p + 1 \in 1 .. Len(w) /\ p \in 1 .. Len(w)
                 /\ \/ p < q /\ Between(w, p, q) = Between(w, p + 1, q) + Length(w, p)
                    \/ q <= p /\ Between(w, p + 1, q) = Between(w, p, q) + Length(w, p)
<1>1. Len(w) \in Nat
  BY LenProperties
<1>2. ASSUME NEW p \in 1 .. Len(w)
      PROVE  Between(w, p, q) \in Nat
  BY <1>1, DistanceAdds DEF Between
<1>3. Between(w, q, q) = 0
  BY <1>1, DistanceAdds DEF Between
<1>4. ASSUME NEW p \in 1 .. Len(w) - 1
      PROVE  /\ Length(w, p) \in Nat /\ p + 1 \in 1 .. Len(w) /\ p \in 1 .. Len(w)
             /\ \/ p < q /\ Between(w, p, q) = Between(w, p + 1, q) + Length(w, p)
                \/ q <= p /\ Between(w, p + 1, q) = Between(w, p, q) + Length(w, p)
  <2>1. p + 1 \in 1 .. Len(w) /\ p \in 1 .. Len(w) /\ Length(w, p) \in Nat
    BY <1>1, LengthIsNumber
  <2>2. CASE p < q
    <3>1. q \in p .. Len(w) /\ q \in p + 1 .. Len(w)
      BY <1>1, <2>2
    <3>2. Distance(w, p, q) = Length(w, p) + Distance(w, p + 1, q) /\ Distance(w, p + 1, q) \in Nat
      BY <2>1, <2>2, <3>1, DistanceAdds
    <3>3. Between(w, p, q) = Distance(w, p, q)
      BY <2>2 DEF Between
    <3>4. Between(w, p + 1, q) = Distance(w, p + 1, q)
      BY <1>1, <2>2 DEF Between
    <3> QED
      BY <2>1, <2>2, <3>2, <3>3, <3>4
  <2>3. CASE ~(p < q)
    <3>1. p \in q .. Len(w) /\ p + 1 \in q .. Len(w) /\ q < p + 1 /\ (p + 1) - 1 = p /\ ~(p + 1 < q)
      BY <1>1, <2>3
    <3>2. Distance(w, q, p + 1) = Distance(w, q, (p + 1) - 1) + Length(w, (p + 1) - 1)
      BY <3>1, DistanceAdds
    <3>3. Between(w, p, q) = Distance(w, q, p) /\ Between(w, p + 1, q) = Distance(w, q, p + 1)
      BY <2>3, <3>1 DEF Between
    <3> QED
      BY <2>1, <2>3, <3>1, <3>2, <3>3
  <2> QED
    BY <2>2, <2>3
<1> QED
  BY <1>2, <1>3, <1>4

\* A feasible profile is slower than any limit and the distance to it allow.
LEMMA FeasibleIsBounded ==
    ASSUME NEW w \in Seq(Places), w # <<>>, NEW from \in Nat, NEW c, Feasible(c, w, from, 0),
           NEW q \in 1 .. Len(w)
    PROVE  \A p \in 1 .. Len(w) : c[p] <= LimitAt(w, from, q) + 2 * Acceleration * Between(w, p, q)
<1> DEFINE n == Len(w)
           L == LimitAt(w, from, q)
           D(p) == 2 * Acceleration * Between(w, p, q)
<1>1. n \in Nat /\ n >= 1 /\ q \in 1 .. n
  BY EmptySeq
<1>2. /\ c \in [1 .. n -> Nat] /\ c[1] <= from /\ c[n] <= 0
      /\ \A p \in 1 .. n : c[p] <= SpeedCap(w, p)
      /\ \A p \in 1 .. n - 1 : c[p + 1] <= c[p] + Gain(w, p) /\ c[p] <= c[p + 1] + Gain(w, p)
  BY DEF Feasible
<1>3. L \in Nat /\ c[q] <= L
  <2>1. c[q] <= SpeedCap(w, q) /\ c[q] \in Nat
    BY <1>2
  <2> QED
    BY <1>2, <2>1, LimitIs
<1>4. /\ D(q) = 0
      /\ \A p \in 1 .. n : D(p) \in Nat
      /\ \A p \in 1 .. n - 1 :
            /\ Gain(w, p) \in Nat /\ p + 1 \in 1 .. n /\ p \in 1 .. n
            /\ \/ p < q /\ D(p) = D(p + 1) + Gain(w, p)
               \/ q <= p /\ D(p + 1) = D(p) + Gain(w, p)
  <2>1. Acceleration \in Nat
    BY WindowsAssumption
  <2>2. D(q) = 0
    BY <2>1, BetweenSteps
  <2>3. ASSUME NEW p \in 1 .. n
        PROVE  D(p) \in Nat
    BY <2>1, BetweenSteps
  <2>4. ASSUME NEW p \in 1 .. n - 1
        PROVE  /\ Gain(w, p) \in Nat /\ p + 1 \in 1 .. n /\ p \in 1 .. n
               /\ \/ p < q /\ D(p) = D(p + 1) + Gain(w, p)
                  \/ q <= p /\ D(p + 1) = D(p) + Gain(w, p)
    <3>1. PICK x \in Nat, y \in Nat, l \in Nat : x = Between(w, p, q) /\ y = Between(w, p + 1, q) /\ l = Length(w, p)
      BY BetweenSteps
    <3>2. (p < q /\ x = y + l) \/ (q <= p /\ y = x + l)
      BY <3>1, BetweenSteps
    <3>3. 2 * Acceleration * (y + l) = 2 * Acceleration * y + 2 * Acceleration * l
      BY <2>1
    <3>4. 2 * Acceleration * (x + l) = 2 * Acceleration * x + 2 * Acceleration * l
      BY <2>1
    <3>5. 2 * Acceleration * l \in Nat
      BY <2>1
    <3>6. p + 1 \in 1 .. n /\ p \in 1 .. n
      BY <1>1
    <3> QED
      BY <3>1, <3>2, <3>3, <3>4, <3>5, <3>6 DEF Gain
  <2> QED
    BY <2>2, <2>3, <2>4
<1> HIDE DEF L, D
<1> DEFINE T == {k \in 0 .. n : q + k \in 1 .. n => c[q + k] <= L + D(q + k)}
           U == {k \in 0 .. n : q - k \in 1 .. n => c[q - k] <= L + D(q - k)}
<1>5. \A k \in 0 .. n : k \in T
  <2>1. 0 \in T
    BY <1>1, <1>2, <1>3, <1>4
  <2>2. ASSUME NEW k \in 1 .. n, k - 1 \in T
        PROVE  k \in T
    <3>1. k \in 0 .. n
      BY <1>1
    <3>2. ASSUME q + k \in 1 .. n
          PROVE  c[q + k] <= L + D(q + k)
      <4>1. PICK p \in 1 .. n - 1 : p = q + (k - 1) /\ q + k = p + 1 /\ q <= p
        <5>1. q + (k - 1) \in 1 .. n - 1 /\ q + k = (q + (k - 1)) + 1 /\ q <= q + (k - 1)
          BY <1>1, <3>2
        <5> QED
          BY <5>1
      <4>2. p \in 1 .. n /\ c[p] <= L + D(p)
        BY <1>1, <2>2, <4>1
      <4>3. PICK x \in Nat, y \in Nat, d \in Nat, e \in Nat, g \in Nat :
               x = c[p] /\ y = c[p + 1] /\ d = D(p) /\ e = D(p + 1) /\ g = Gain(w, p)
        BY <1>2, <1>4
      <4>4. x <= L + d /\ y <= x + g /\ e = d + g
        BY <1>1, <1>2, <1>4, <4>1, <4>2, <4>3
      <4>5. y <= L + e
        BY <1>3, <4>4
      <4> QED
        BY <4>1, <4>3, <4>5
    <3> QED
      BY <3>1, <3>2
  <2> HIDE DEF T
  <2> QED
    BY <1>1, <2>1, <2>2, UpTo
<1>6. \A k \in 0 .. n : k \in U
  <2>1. 0 \in U
    BY <1>1, <1>2, <1>3, <1>4
  <2>2. ASSUME NEW k \in 1 .. n, k - 1 \in U
        PROVE  k \in U
    <3>1. k \in 0 .. n
      BY <1>1
    <3>2. ASSUME q - k \in 1 .. n
          PROVE  c[q - k] <= L + D(q - k)
      <4>1. PICK p \in 1 .. n - 1 : p = q - k /\ q - (k - 1) = p + 1 /\ p < q
        <5>1. q - k \in 1 .. n - 1 /\ q - (k - 1) = (q - k) + 1 /\ q - k < q
          BY <1>1, <3>2
        <5> QED
          BY <5>1
      <4>2. p + 1 \in 1 .. n /\ c[p + 1] <= L + D(p + 1)
        BY <1>1, <2>2, <4>1
      <4>3. PICK x \in Nat, y \in Nat, d \in Nat, e \in Nat, g \in Nat :
               x = c[p] /\ y = c[p + 1] /\ d = D(p) /\ e = D(p + 1) /\ g = Gain(w, p)
        BY <1>2, <1>4
      <4>4. y <= L + e /\ x <= y + g /\ d = e + g
        <5>1. ~(q <= p)
          BY <1>1, <4>1
        <5>2. D(p) = D(p + 1) + Gain(w, p)
          BY <1>4, <5>1
        <5> QED
          BY <1>2, <4>2, <4>3, <5>2
      <4>5. x <= L + d
        BY <1>3, <4>4
      <4> QED
        BY <4>1, <4>3, <4>5
    <3> QED
      BY <3>1, <3>2
  <2> HIDE DEF U
  <2> QED
    BY <1>1, <2>1, <2>2, UpTo
<1>7. ASSUME NEW p \in 1 .. n
      PROVE  c[p] <= L + D(p)
  <2>1. CASE q <= p
    <3>1. PICK k \in 0 .. n : p = q + k
      <4>1. p - q \in 0 .. n /\ p = q + (p - q)
        BY <1>1, <2>1
      <4> QED
        BY <4>1
    <3>2. k \in T
      BY <1>5
    <3> QED
      BY <3>1, <3>2
  <2>2. CASE ~(q <= p)
    <3>1. PICK k \in 0 .. n : p = q - k
      <4>1. q - p \in 0 .. n /\ p = q - (q - p)
        BY <1>1, <2>2
      <4> QED
        BY <4>1
    <3>2. k \in U
      BY <1>6
    <3> QED
      BY <3>1, <3>2
  <2> QED
    BY <2>1, <2>2
<1> QED
  BY <1>7 DEF L, D

\* The two passes come to the least of what the limits allow from where they
\* are.
LEMMA ProfileIsLeast ==
    ASSUME NEW w \in Seq(Places), w # <<>>, NEW from \in Nat, NEW p \in 1 .. Len(w)
    PROVE  ForwardBackward(w, from, 0)[p]
              = Min({LimitAt(w, from, q) + 2 * Acceleration * Between(w, p, q) : q \in 1 .. Len(w)})
<1> DEFINE n == Len(w)
           A(i, q) == LimitAt(w, from, q) + 2 * Acceleration * Between(w, i, q)
           All(i) == {A(i, q) : q \in 1 .. n}
           m == [i \in 1 .. n |-> Min(All(i))]
           b == ForwardBackward(w, from, 0)
<1>1. n \in Nat /\ n >= 1 /\ 1 \in 1 .. n /\ n \in 1 .. n
  BY EmptySeq
<1>2. Acceleration \in Nat
  BY WindowsAssumption
<1>3. ASSUME NEW i \in 1 .. n, NEW q \in 1 .. n
      PROVE  A(i, q) \in Nat
  <2>1. LimitAt(w, from, q) \in Nat /\ Between(w, i, q) \in Nat
    BY LimitIs, BetweenSteps
  <2> QED
    BY <1>2, <2>1
<1>4. ASSUME NEW i \in 1 .. n
      PROVE  /\ m[i] \in Nat /\ m[i] \in All(i)
             /\ \A q \in 1 .. n : m[i] <= A(i, q)
  <2>1. All(i) \in SUBSET Nat /\ All(i) # {}
    BY <1>1, <1>3
  <2> HIDE DEF A
  <2>2. m[i] = Min(All(i))
    OBVIOUS
  <2> HIDE DEF m, All
  <2>3. PICK l \in All(i) : \A x \in All(i) : l <= x
    BY <2>1, LeastNatural
  <2>4. Min(All(i)) \in All(i) /\ \A x \in All(i) : Min(All(i)) <= x
    BY <2>3 DEF Min
  <2> USE DEF All
  <2>5. \A q \in 1 .. n : A(i, q) \in All(i)
    OBVIOUS
  <2> HIDE DEF All
  <2> QED
    BY <2>1, <2>2, <2>4, <2>5
<1>5. ASSUME NEW i \in 1 .. n - 1, NEW q \in 1 .. n
      PROVE  /\ i \in 1 .. n /\ i + 1 \in 1 .. n /\ Gain(w, i) \in Nat
             /\ A(i + 1, q) <= A(i, q) + Gain(w, i) /\ A(i, q) <= A(i + 1, q) + Gain(w, i)
  <2>1. PICK x \in Nat, y \in Nat, l \in Nat : x = Between(w, i, q) /\ y = Between(w, i + 1, q) /\ l = Length(w, i)
    BY BetweenSteps
  <2>2. x = y + l \/ y = x + l
    BY <2>1, BetweenSteps
  <2>3. 2 * Acceleration * (y + l) = 2 * Acceleration * y + 2 * Acceleration * l
    BY <1>2
  <2>4. 2 * Acceleration * (x + l) = 2 * Acceleration * x + 2 * Acceleration * l
    BY <1>2
  <2>5. 2 * Acceleration * l \in Nat /\ 2 * Acceleration * x \in Nat /\ 2 * Acceleration * y \in Nat
    BY <1>2
  <2>6. LimitAt(w, from, q) \in Nat
    BY LimitIs
  <2>7. i \in 1 .. n /\ i + 1 \in 1 .. n
    BY <1>1
  <2> DEFINE L == LimitAt(w, from, q)
             ax == 2 * Acceleration * x
             ay == 2 * Acceleration * y
             al == 2 * Acceleration * l
  <2>8. A(i, q) = L + ax /\ A(i + 1, q) = L + ay /\ Gain(w, i) = al
    BY <2>1 DEF Gain
  <2>9. ax = ay + al \/ ay = ax + al
    BY <2>2, <2>3, <2>4
  <2>10. L \in Nat /\ ax \in Nat /\ ay \in Nat /\ al \in Nat
    BY <2>5, <2>6
  <2> HIDE DEF A, L, ax, ay, al
  <2>11. L + ay <= (L + ax) + al /\ L + ax <= (L + ay) + al
    BY <2>9, <2>10
  <2> QED
    BY <2>7, <2>8, <2>10, <2>11
<1>6. Feasible(m, w, from, 0)
  <2>1. m \in [1 .. n -> Nat]
    BY <1>4
  <2>2. ASSUME NEW i \in 1 .. n
        PROVE  m[i] <= LimitAt(w, from, i)
    <3>1. m[i] <= A(i, i)
      BY <1>4
    <3>2. A(i, i) = LimitAt(w, from, i)
      BY <1>2, LimitIs, BetweenSteps
    <3> HIDE DEF A, m
    <3> QED
      BY <3>1, <3>2
  <2>3. ASSUME NEW i \in 1 .. n - 1
        PROVE  m[i + 1] <= m[i] + Gain(w, i) /\ m[i] <= m[i + 1] + Gain(w, i)
    <3> HIDE DEF m, A
    <3>1. i \in 1 .. n /\ i + 1 \in 1 .. n /\ Gain(w, i) \in Nat
      BY <1>1, <1>5
    <3>2. PICK q \in 1 .. n : m[i] = A(i, q)
      BY <1>4, <3>1
    <3>3. PICK r \in 1 .. n : m[i + 1] = A(i + 1, r)
      BY <1>4, <3>1
    <3>4. m[i + 1] <= A(i + 1, q) /\ A(i + 1, q) <= A(i, q) + Gain(w, i)
      BY <1>4, <1>5, <3>1
    <3>5. m[i] <= A(i, r) /\ A(i, r) <= A(i + 1, r) + Gain(w, i)
      BY <1>4, <1>5, <3>1
    <3>6. /\ A(i, q) \in Nat /\ A(i, r) \in Nat /\ A(i + 1, q) \in Nat /\ A(i + 1, r) \in Nat
          /\ m[i] \in Nat /\ m[i + 1] \in Nat
      BY <1>3, <1>4, <3>1
    <3> QED
      BY <3>1, <3>2, <3>3, <3>4, <3>5, <3>6
  <2>4. /\ \A i \in 1 .. n : m[i] <= SpeedCap(w, i)
        /\ m[1] <= from /\ m[n] <= 0
    <3>1. \A i \in 1 .. n : /\ m[i] \in Nat /\ LimitAt(w, from, i) \in Nat /\ SpeedCap(w, i) \in Nat
                           /\ m[i] <= LimitAt(w, from, i) /\ LimitAt(w, from, i) <= SpeedCap(w, i)
      BY <1>4, <2>2, LimitIs, CapIsNumber
    <3>2. LimitAt(w, from, 1) <= from /\ LimitAt(w, from, n) = 0
      BY <1>1, LimitIs
    <3> HIDE DEF m
    <3> QED
      BY <1>1, <3>1, <3>2
  <2> HIDE DEF m
  <2> QED
    BY <2>1, <2>3, <2>4 DEF Feasible
<1>7. Feasible(b, w, from, 0) /\ \A i \in 1 .. n : m[i] <= b[i]
  <2> HIDE DEF m
  <2> QED
    BY <1>6, FastestProfile
<1>8. \A q \in 1 .. n : b[p] <= A(p, q)
  BY <1>7, FeasibleIsBounded
<1>9. b[p] \in Nat
  BY <1>7 DEF Feasible
<1> HIDE DEF A, b
<1>10. m[p] \in Nat /\ m[p] <= b[p] /\ b[p] <= m[p]
  <2>1. m[p] \in All(p)
    BY <1>4
  <2>2. PICK q \in 1 .. n : m[p] = A(p, q)
    BY <2>1
  <2> HIDE DEF m
  <2> QED
    BY <1>4, <1>7, <1>8, <2>2
<1>11. b[p] = m[p]
  <2> HIDE DEF m
  <2> QED
    BY <1>9, <1>10
<1>12. m[p] = Min(All(p))
  OBVIOUS
<1> HIDE DEF m
<1> QED
  BY <1>11, <1>12 DEF A, b

-------------------------------------------------------------------------------
(* What a drawing becomes.                                                 *)

\* Boards, and the runs of a drawing.
Planes == [offset : Points, yaw : Int]
Runs == Seq(Points) \ {<<>>}

\* Points of the plane and places.
LEMMA PointIs ==
    /\ \A x \in Int, y \in Int : <<x, y>> \in Points
    /\ \A x \in Int, y \in Int, z \in Int : <<x, y, z>> \in Places
    /\ \A p \in Points : p[1] \in Int /\ p[2] \in Int /\ p = <<p[1], p[2]>>
    /\ \A p \in Places : p[1] \in Int /\ p[2] \in Int /\ p[3] \in Int
BY DEF Points, Places

\* A rotation keeps points.
LEMMA RotationIs ==
    ASSUME NEW p \in Points, NEW t \in Int
    PROVE  /\ RotateInPlane(p, t) \in Points
           /\ t % 4 \in 0 .. 3 /\ Cosine(t) \in {-1, 0, 1} /\ Sine(t) \in {-1, 0, 1}
<1>1. t % 4 \in 0 .. 3
  OBVIOUS
<1>2. Cosine(t) \in {-1, 0, 1} /\ Sine(t) \in {-1, 0, 1}
  BY <1>1 DEF Cosine, Sine
<1>3. p[1] \in Int /\ p[2] \in Int
  BY PointIs
<1>4. /\ p[1] * Cosine(t) - p[2] * Sine(t) \in Int
      /\ p[1] * Sine(t) + p[2] * Cosine(t) \in Int
  BY <1>2, <1>3
<1> QED
  BY <1>1, <1>2, <1>4, PointIs DEF RotateInPlane

\* The anchor of a board is a place.
LEMMA AnchorIs ==
    ASSUME NEW board \in Planes
    PROVE  EffectiveAnchor(board) \in Places /\ EffectiveAnchor(board)[3] = AnchorXYZ[3] /\ board.yaw \in Int
<1>1. board.offset \in Points /\ board.yaw \in Int
  BY DEF Planes
<1> QED
  BY <1>1, BoardAssumption, PointIs DEF EffectiveAnchor

\* Clamping keeps points.
LEMMA ClampIs ==
    ASSUME NEW p \in Points
    PROVE  ClampToExtent(p) \in Points
<1>1. ASSUME NEW i \in 1 .. 2
      PROVE  Min({Max({p[i], Extent[1][i]}), Extent[2][i]}) \in Int
  <2>1. p[i] \in Int /\ Extent[1][i] \in Int /\ Extent[2][i] \in Int
    BY BoardAssumption DEF Points
  <2>2. PICK m \in Int : m = Max({p[i], Extent[1][i]})
    BY <2>1, MinOfTwo
  <2> QED
    BY <2>1, <2>2, MinOfTwo
<1> QED
  BY <1>1 DEF ClampToExtent, Points

\* What every step of a fold keeps holds of its result.
LEMMA FoldStays ==
    ASSUME NEW n \in Nat, NEW A, NEW f, f[1 .. 0] \in A,
           \A i \in 1 .. n : f[1 .. i - 1] \in A => f[1 .. i] \in A
    PROVE  \A i \in 0 .. n : f[1 .. i] \in A
<1> DEFINE T == {i \in 0 .. n : f[1 .. i] \in A}
<1>1. 0 \in T
  <2>1. 0 \in 0 .. n
    OBVIOUS
  <2> QED
    BY <2>1
<1>2. ASSUME NEW i \in 1 .. n, i - 1 \in T
      PROVE  i \in T
  <2>1. i \in 0 .. n
    OBVIOUS
  <2> QED
    BY <1>2, <2>1
<1>3. \A i \in 0 .. n : i \in T
  <2> HIDE DEF T
  <2> QED
    BY <1>1, <1>2, UpTo
<1> QED
  BY <1>3

\* Flattening keeps the elements.
LEMMA FlattenIs ==
    ASSUME NEW S, NEW ss \in Seq(Seq(S))
    PROVE  FlattenSeq(ss) \in Seq(S)
<1>1. CASE ss = <<>>
  BY <1>1, EmptySeq DEF FlattenSeq
<1>2. CASE ss # <<>>
  <2>1. PICK g \in [1 .. Len(ss) -> Seq(S)] : FlattenSeq(ss) = g[Len(ss)]
    BY <1>2, FlattenRuns
  <2>2. Len(ss) \in 1 .. Len(ss)
    BY <1>2, EmptySeq
  <2> QED
    BY <2>1, <2>2
<1> QED
  BY <1>1, <1>2

\* Where a point is placed among the stretches (segment_in_area, one point).
Placing(stretches, p) ==
    IF stretches # <<>> /\ InWorkingArea(Last(stretches)[1]) = InWorkingArea(p)
    THEN Append(Front(stretches), Append(Last(stretches), p))
    ELSE Append(stretches, <<p>>)

\* A stroke falls into stretches that have a point.
LEMMA StretchesAre ==
    ASSUME NEW s \in Seq(Points)
    PROVE  Stretches(s) \in Seq(Runs)
<1> DEFINE n == Len(s)
           A == Seq(Runs)
           step == [a \in A |-> [i \in 1 .. n |-> Placing(a, s[i])]]
           Folded(f) == f = [t \in SUBSET (1 .. n) |->
                               IF t = {} THEN <<>> ELSE Placing(f[t \ {Max(t)}], s[Max(t)])]
<1>1. n \in Nat /\ DOMAIN s = 1 .. n /\ <<>> \in A
  BY LenProperties, EmptySeq
<1>2. ASSUME NEW a \in A, NEW i \in 1 .. n
      PROVE  Placing(a, s[i]) \in A
  <2>1. s[i] \in Points
    BY ElementOfSeq
  <2>2. <<s[i]>> \in Runs
    BY <2>1 DEF Runs
  <2>3. CASE Placing(a, s[i]) = Append(a, <<s[i]>>)
    BY <2>2, <2>3, AppendProperties
  <2>4. CASE a # <<>> /\ Placing(a, s[i]) = Append(Front(a), Append(Last(a), s[i]))
    <3>1. Front(a) \in Seq(Runs) /\ Last(a) \in Runs
      <4>1. Len(a) \in Nat \ {0} /\ \A k \in 1 .. Len(a) : a[k] \in Runs
        BY <2>4, EmptySeq, ElementOfSeq
      <4>2. Len(a) \in 1 .. Len(a) /\ \A k \in 1 .. Len(a) - 1 : k \in 1 .. Len(a)
        BY <4>1
      <4>3. SubSeq(a, 1, Len(a) - 1) \in Seq(Runs)
        <5>1. 1 \in Int /\ Len(a) - 1 \in Int /\ \A k \in 1 .. Len(a) - 1 : a[k] \in Runs
          BY <4>1, <4>2
        <5> HIDE DEF A
        <5> QED
          BY <5>1, SubSeqProperties
      <4> QED
        BY <4>1, <4>2, <4>3 DEF Front, Last
    <3>2. Append(Last(a), s[i]) \in Runs
      <4>1. PICK run \in Seq(Points) : run = Last(a)
        BY <3>1 DEF Runs
      <4>2. Append(run, s[i]) \in Seq(Points) /\ Append(run, s[i]) # <<>>
        BY <2>1, AppendProperties
      <4> QED
        BY <4>1, <4>2 DEF Runs
    <3> QED
      BY <2>4, <3>1, <3>2, AppendProperties
  <2> QED
    BY <2>3, <2>4 DEF Placing
<1>3. step \in [A -> [1 .. n -> A]]
  <2> HIDE DEF A
  <2> QED
    BY <1>2
<1>4. PICK g : IsFold(g, n, A, <<>>, step)
  <2> HIDE DEF step, n, A
  <2> QED
    BY <1>1, <1>3, FoldExists
<1>5. Folded(g)
  <2>1. ASSUME NEW t \in SUBSET (1 .. n), t # {}
        PROVE  step[g[t \ {Max(t)}]][Max(t)] = Placing(g[t \ {Max(t)}], s[Max(t)])
    <3>1. g[t \ {Max(t)}] \in A /\ Max(t) \in 1 .. n
      BY <1>1, <1>4, <2>1, LargestIsIn DEF IsFold
    <3> HIDE DEF A
    <3> QED
      BY <3>1
  <2> HIDE DEF step, A
  <2> QED
    BY <1>4, <2>1 DEF IsFold
<1> DEFINE f == CHOOSE f : Folded(f)
<1>6. Folded(f)
  <2> HIDE DEF Folded
  <2> QED
    BY <1>5
<1>7. Stretches(s) = f[1 .. n]
  BY <1>1, Zenon DEF Stretches, FoldLeft, MapThenFoldSet, Placing
<1> HIDE DEF f
<1>8. f[1 .. 0] \in A
  BY <1>1, <1>6
<1>9. ASSUME NEW i \in 1 .. n, f[1 .. i - 1] \in A
      PROVE  f[1 .. i] \in A
  <2>1. /\ 1 .. i \in SUBSET (1 .. n) /\ 1 .. i # {}
        /\ Max(1 .. i) = i /\ (1 .. i) \ {i} = 1 .. i - 1
    BY <1>1, FoldOfPrefix
  <2>2. f[1 .. i] = Placing(f[(1 .. i) \ {Max(1 .. i)}], s[Max(1 .. i)])
    BY <1>6, <2>1
  <2> HIDE DEF A
  <2> QED
    BY <1>2, <1>9, <2>1, <2>2
<1>10. f[1 .. n] \in A
  <2> HIDE DEF A, n
  <2>1. n \in 0 .. n
    BY <1>1
  <2> QED
    BY <1>1, <1>8, <1>9, <2>1, FoldStays
<1> QED
  BY <1>7, <1>10

\* A stretch in the area that is long enough is kept.
Keeping(runs, run) ==
    IF InWorkingArea(run[1]) /\ Len(run) >= MinRun THEN Append(runs, run) ELSE runs

\* The in-area runs of a stroke are runs.
LEMMA InAreaRunsAre ==
    ASSUME NEW stroke \in Seq(Points)
    PROVE  InAreaRuns(stroke) \in Seq(Runs)
<1> DEFINE s == Stretches(stroke)
           n == Len(s)
           A == Seq(Runs)
           step == [a \in A |-> [i \in 1 .. n |-> Keeping(a, s[i])]]
           Folded(f) == f = [t \in SUBSET (1 .. n) |->
                               IF t = {} THEN <<>> ELSE Keeping(f[t \ {Max(t)}], s[Max(t)])]
<1>1. s \in Seq(Runs)
  BY StretchesAre
<1>2. InAreaRuns(stroke) = FoldLeft(Keeping, <<>>, s)
  BY DEF InAreaRuns, Keeping
<1> HIDE DEF s
<1>3. n \in Nat /\ DOMAIN s = 1 .. n /\ <<>> \in A
  BY <1>1, LenProperties, EmptySeq
<1>4. ASSUME NEW a \in A, NEW i \in 1 .. n
      PROVE  Keeping(a, s[i]) \in A
  BY <1>1, ElementOfSeq, AppendProperties DEF Keeping
<1>5. step \in [A -> [1 .. n -> A]]
  <2> HIDE DEF A
  <2> QED
    BY <1>4
<1>6. PICK g : IsFold(g, n, A, <<>>, step)
  <2> HIDE DEF step, n, A
  <2> QED
    BY <1>3, <1>5, FoldExists
<1>7. Folded(g)
  <2>1. ASSUME NEW t \in SUBSET (1 .. n), t # {}
        PROVE  step[g[t \ {Max(t)}]][Max(t)] = Keeping(g[t \ {Max(t)}], s[Max(t)])
    <3>1. g[t \ {Max(t)}] \in A /\ Max(t) \in 1 .. n
      BY <1>3, <1>6, <2>1, LargestIsIn DEF IsFold
    <3> HIDE DEF A
    <3> QED
      BY <3>1
  <2> HIDE DEF step, A
  <2> QED
    BY <1>6, <2>1 DEF IsFold
<1> DEFINE f == CHOOSE f : Folded(f)
<1>8. Folded(f)
  <2> HIDE DEF Folded
  <2> QED
    BY <1>7
<1>9. InAreaRuns(stroke) = f[1 .. n]
  BY <1>3, <1>2, Zenon DEF FoldLeft, MapThenFoldSet
<1> HIDE DEF f
<1>10. f[1 .. 0] \in A
  BY <1>3, <1>8
<1>11. ASSUME NEW i \in 1 .. n, f[1 .. i - 1] \in A
       PROVE  f[1 .. i] \in A
  <2>1. /\ 1 .. i \in SUBSET (1 .. n) /\ 1 .. i # {}
        /\ Max(1 .. i) = i /\ (1 .. i) \ {i} = 1 .. i - 1
    BY <1>3, FoldOfPrefix
  <2>2. f[1 .. i] = Keeping(f[(1 .. i) \ {Max(1 .. i)}], s[Max(1 .. i)])
    BY <1>8, <2>1
  <2> HIDE DEF A
  <2> QED
    BY <1>4, <1>11, <2>1, <2>2
<1>12. f[1 .. n] \in A
  <2> HIDE DEF A, n
  <2>1. n \in 0 .. n
    BY <1>3
  <2> QED
    BY <1>3, <1>10, <1>11, <2>1, FoldStays
<1> QED
  BY <1>9, <1>12

\* What is submitted comes to runs.
LEMMA SubmittedRunsAre ==
    ASSUME NEW drawing \in Drawings
    PROVE  SubmittedRuns(drawing) \in Seq(Runs)
<1> DEFINE clamped(s) == [i \in 1 .. Len(drawing[s]) |-> ClampToExtent(drawing[s][i])]
           ss == [s \in 1 .. Len(drawing) |-> InAreaRuns(clamped(s))]
<1>1. drawing \in Seq(Seq(Points)) /\ Len(drawing) \in Nat
  BY InputAssumption, LenProperties
<1>2. ASSUME NEW s \in 1 .. Len(drawing)
      PROVE  InAreaRuns(clamped(s)) \in Seq(Runs)
  <2>1. drawing[s] \in Seq(Points) /\ Len(drawing[s]) \in Nat
    BY <1>1, ElementOfSeq, LenProperties
  <2>2. \A i \in 1 .. Len(drawing[s]) : ClampToExtent(drawing[s][i]) \in Points
    BY <2>1, ElementOfSeq, ClampIs
  <2>3. clamped(s) \in Seq(Points)
    BY <2>1, <2>2
  <2> HIDE DEF clamped
  <2> QED
    BY <2>3, InAreaRunsAre
<1>3. ss \in Seq(Seq(Runs))
  <2> HIDE DEF clamped
  <2> QED
    BY <1>1, <1>2
<1>4. SubmittedRuns(drawing) = FlattenSeq(ss)
  BY DEF SubmittedRuns
<1> HIDE DEF ss
<1> QED
  BY <1>3, <1>4, FlattenIs

\* All that was flattened is found in the result.
LEMMA FlattenHolds ==
    ASSUME NEW S, NEW ss \in Seq(Seq(S)), NEW i \in 1 .. Len(ss), NEW k \in 1 .. Len(ss[i])
    PROVE  \E j \in 1 .. Len(FlattenSeq(ss)) : FlattenSeq(ss)[j] = ss[i][k]
<1> DEFINE n == Len(ss)
<1>1. n \in Nat /\ ss # <<>> /\ i \in 1 .. n /\ \A m \in 1 .. n : ss[m] \in Seq(S)
  BY EmptySeq, LenProperties, ElementOfSeq
<1>2. PICK g \in [1 .. n -> Seq(S)] :
         /\ \A m \in 1 .. n : g[m] = IF m = 1 THEN ss[1] ELSE g[m - 1] \o ss[m]
         /\ FlattenSeq(ss) = g[n]
  BY <1>1, FlattenRuns
<1> DEFINE Found(s) == \E j \in 1 .. Len(s) : s[j] = ss[i][k]
           T == {m \in 0 .. n : i <= m => Found(g[m])}
<1> HIDE DEF n
<1>3. ASSUME NEW m \in 1 .. n, m - 1 \in T
      PROVE  m \in T
  <2>1. m \in 0 .. n
    BY <1>1
  <2>2. SUFFICES ASSUME i <= m
                 PROVE  Found(g[m])
    BY <2>1
  <2>3. Len(ss[m]) \in Nat /\ ss[m] \in Seq(S)
    BY <1>1, LenProperties
  <2>4. CASE m = 1
    <3>1. i = m
      BY <1>1, <2>2, <2>4
    <3> QED
      BY <1>2, <2>4, <3>1
  <2>5. CASE m # 1
    <3>1. m - 1 \in 1 .. n
      BY <1>1, <2>5
    <3>2. PICK a \in Seq(S), b \in Seq(S) : a = g[m - 1] /\ b = ss[m] /\ g[m] = a \o b
      BY <1>2, <2>3, <2>5, <3>1
    <3>3. /\ Len(a) \in Nat /\ Len(b) \in Nat /\ Len(a \o b) = Len(a) + Len(b)
          /\ \A j \in 1 .. Len(a) + Len(b) : (a \o b)[j] = IF j <= Len(a) THEN a[j] ELSE b[j - Len(a)]
      BY ConcatProperties, LenProperties
    <3>4. CASE i = m
      <4>1. k \in 1 .. Len(b)
        BY <3>2, <3>4
      <4>2. Len(a) + k \in 1 .. Len(a) + Len(b) /\ ~(Len(a) + k <= Len(a)) /\ (Len(a) + k) - Len(a) = k
        BY <3>3, <4>1
      <4>3. (a \o b)[Len(a) + k] = b[k] /\ Len(a) + k \in 1 .. Len(a \o b)
        BY <3>3, <4>2
      <4> QED
        BY <3>2, <3>4, <4>3
    <3>5. CASE i # m
      <4>1. i <= m - 1
        BY <1>1, <2>2, <3>5
      <4>2. PICK j \in 1 .. Len(a) : a[j] = ss[i][k]
        BY <1>3, <3>2, <4>1
      <4>3. j \in 1 .. Len(a \o b) /\ j \in 1 .. Len(a) + Len(b) /\ j <= Len(a)
        BY <3>3
      <4> QED
        BY <3>2, <3>3, <4>2, <4>3
    <3> QED
      BY <3>4, <3>5
  <2> QED
    BY <2>4, <2>5
<1>4. 0 \in T
  BY <1>1
<1>5. \A m \in 0 .. n : m \in T
  <2> HIDE DEF T
  <2> QED
    BY <1>1, <1>3, <1>4, UpTo
<1>6. n \in T /\ i <= n
  BY <1>1, <1>5
<1> QED
  BY <1>2, <1>6

\* A run is framed by segments, and each of its points is drawn by one.
LEMMA FrameIs ==
    ASSUME NEW run \in Runs
    PROVE  /\ FrameRun(run) \in Seq(Segments) /\ FrameRun(run) # <<>>
           /\ \A i \in 1 .. Len(run) : \E k \in 1 .. Len(FrameRun(run)) :
                 LET segment == FrameRun(run)[k] IN
                 /\ segment.z = DrawZ
                 /\ (segment.type = "lin" /\ segment.points = <<run[i]>>) \/ segment = Through(run)
<1> DEFINE n == Len(run)
           opening == <<Lin(run[1], SafeZ), Lin(run[1], DrawZ)>>
           lines == [i \in 1 .. n - 1 |-> Lin(run[i + 1], DrawZ)]
           body == IF n >= 3 THEN <<Through(run)>> ELSE lines
           closing == <<Lin(Last(run), SafeZ)>>
<1>1. n \in Nat /\ n >= 1 /\ run \in Seq(Points) /\ \A i \in 1 .. n : run[i] \in Points
  BY EmptySeq, ElementOfSeq DEF Runs
<1>2. ASSUME NEW p \in Points, NEW z \in Int
      PROVE  Lin(p, z) \in Segments
  <2>1. <<p>> \in Seq(Points) /\ <<p>> # <<>>
    OBVIOUS
  <2> QED
    BY <2>1 DEF Lin, Segments
<1>3. DrawZ \in Int /\ SafeZ \in Int
  BY BoardAssumption
<1>4. opening \in Seq(Segments) /\ Len(opening) = 2 /\ opening[2] = Lin(run[1], DrawZ)
  BY <1>1, <1>2, <1>3
<1>5. closing \in Seq(Segments) /\ Len(closing) = 1
  BY <1>1, <1>2, <1>3 DEF Last
<1>6. body \in Seq(Segments)
  <2>1. CASE n >= 3
    <3>1. Through(run) \in Segments
      BY <1>1, <1>3 DEF Through, Segments, Runs
    <3> QED
      BY <2>1, <3>1
  <2>2. CASE ~(n >= 3)
    <3>1. \A i \in 1 .. n - 1 : Lin(run[i + 1], DrawZ) \in Segments
      <4>1. \A i \in 1 .. n - 1 : run[i + 1] \in Points
        BY <1>1
      <4> QED
        BY <1>2, <1>3, <4>1
    <3>2. lines \in Seq(Segments)
      BY <1>1, <3>1
    <3> QED
      BY <2>2, <3>2
  <2> QED
    BY <2>1, <2>2
<1>7. Len(body) \in Nat /\ (n >= 3 => Len(body) = 1 /\ body[1] = Through(run))
      /\ (~(n >= 3) => Len(body) = n - 1 /\ \A i \in 1 .. n - 1 : body[i] = Lin(run[i + 1], DrawZ))
  <2>1. ~(n >= 3) => Len(lines) = n - 1
    BY <1>1
  <2>2. ~(n >= 3) => body = lines
    OBVIOUS
  <2>3. \A i \in 1 .. n - 1 : lines[i] = Lin(run[i + 1], DrawZ)
    OBVIOUS
  <2>4. n >= 3 => body = <<Through(run)>>
    OBVIOUS
  <2> HIDE DEF lines
  <2> QED
    BY <1>1, <1>6, <2>1, <2>2, <2>3, <2>4, LenProperties
<1>8. FrameRun(run) = (opening \o body) \o closing
  BY DEF FrameRun
<1> DEFINE framed == FrameRun(run)
           front == opening \o body
<1> HIDE DEF opening, body, closing, lines, n
<1>9. /\ front \in Seq(Segments) /\ Len(front) = 2 + Len(body)
      /\ \A i \in 1 .. 2 + Len(body) : front[i] = IF i <= 2 THEN opening[i] ELSE body[i - 2]
  <2>1. /\ opening \o body \in Seq(Segments) /\ Len(opening \o body) = Len(opening) + Len(body)
        /\ \A i \in 1 .. Len(opening) + Len(body) :
              (opening \o body)[i] = IF i <= Len(opening) THEN opening[i] ELSE body[i - Len(opening)]
    BY <1>4, <1>6, ConcatProperties
  <2> QED
    BY <1>4, <2>1
<1>10. framed = front \o closing
  BY <1>8
<1> HIDE DEF front, framed
<1>11. /\ framed \in Seq(Segments) /\ Len(framed) = 2 + Len(body) + 1
       /\ \A i \in 1 .. 2 + Len(body) : framed[i] = IF i <= 2 THEN opening[i] ELSE body[i - 2]
  <2>1. Len(front) \in Nat /\ Len(closing) \in Nat
    BY <1>7, <1>9, <1>5
  <2>2. /\ front \o closing \in Seq(Segments) /\ Len(front \o closing) = Len(front) + Len(closing)
        /\ \A i \in 1 .. Len(front) + Len(closing) :
              (front \o closing)[i] = IF i <= Len(front) THEN front[i] ELSE closing[i - Len(front)]
    BY <1>5, <1>9, ConcatProperties
  <2> QED
    BY <1>5, <1>7, <1>9, <1>10, <2>1, <2>2
<1>12. ASSUME NEW i \in 1 .. n
       PROVE  \E k \in 1 .. Len(framed) :
                 /\ framed[k].z = DrawZ
                 /\ (framed[k].type = "lin" /\ framed[k].points = <<run[i]>>) \/ framed[k] = Through(run)
  <2>1. CASE n >= 3
    <3>1. Len(body) = 1 /\ body[1] = Through(run) /\ 3 - 2 = 1 /\ ~(3 <= 2)
      BY <1>7, <2>1
    <3>2. 3 \in 1 .. 2 + Len(body) /\ 3 \in 1 .. Len(framed)
      BY <1>11, <3>1
    <3>3. framed[3] = body[3 - 2]
      BY <1>11, <3>1, <3>2
    <3> QED
      BY <3>1, <3>2, <3>3 DEF Through
  <2>2. CASE ~(n >= 3) /\ i = 1
    <3>1. 2 \in 1 .. 2 + Len(body) /\ 2 \in 1 .. Len(framed) /\ framed[2] = Lin(run[i], DrawZ)
      BY <1>4, <1>7, <1>11, <2>2
    <3> QED
      BY <3>1 DEF Lin
  <2>3. CASE ~(n >= 3) /\ i # 1
    <3>1. i - 1 \in 1 .. n - 1 /\ i + 1 \in 1 .. 2 + Len(body) /\ i + 1 \in 1 .. Len(framed) /\ ~(i + 1 <= 2)
          /\ (i + 1) - 2 = i - 1 /\ (i - 1) + 1 = i
      BY <1>1, <1>7, <1>11, <2>3
    <3>2. framed[i + 1] = body[i - 1] /\ body[i - 1] = Lin(run[i], DrawZ)
      BY <1>7, <1>11, <2>3, <3>1
    <3> QED
      BY <3>1, <3>2 DEF Lin
  <2> QED
    BY <2>1, <2>2, <2>3
<1>13. framed # <<>>
  BY <1>7, <1>11, EmptySeq
<1> QED
  BY <1>11, <1>12, <1>13 DEF framed, n

\* A drawing's recipe is one,
LEMMA RecipeIs ==
    ASSUME NEW runs \in Seq(Runs), NEW board \in Planes
    PROVE  /\ ToRecipeStructure(runs, board) \in Recipes
           /\ runs # <<>> => ToRecipeStructure(runs, board).segments # <<>>
<1> DEFINE ss == [i \in 1 .. Len(runs) |-> FrameRun(runs[i])]
           framed == FlattenSeq(ss)
           segments == IF framed = <<>> THEN framed
                       ELSE Append(framed, Lin(Last(framed).points[1], RetractZ))
<1>1. Len(runs) \in Nat /\ \A i \in 1 .. Len(runs) : runs[i] \in Runs
  BY LenProperties, ElementOfSeq
<1>2. ss \in Seq(Seq(Segments)) /\ Len(ss) = Len(runs) /\ \A i \in 1 .. Len(runs) : ss[i] # <<>>
  BY <1>1, FrameIs
<1>3. framed \in Seq(Segments)
  <2> HIDE DEF ss
  <2> QED
    BY <1>2, FlattenIs
<1>4. framed # <<>> => Lin(Last(framed).points[1], RetractZ) \in Segments
  <2> HIDE DEF framed
  <2>1. SUFFICES ASSUME framed # <<>>
                 PROVE  Lin(Last(framed).points[1], RetractZ) \in Segments
    OBVIOUS
  <2>2. Last(framed) \in Segments
    BY <1>3, <2>1, EmptySeq, ElementOfSeq DEF Last
  <2>3. PICK points \in Seq(Points) : points # <<>> /\ points = Last(framed).points
    BY <2>2 DEF Segments
  <2>4. points[1] \in Points
    BY <2>3, EmptySeq, ElementOfSeq
  <2>5. <<points[1]>> \in Seq(Points) /\ <<points[1]>> # <<>>
    BY <2>4
  <2> QED
    BY <2>3, <2>5, BoardAssumption DEF Lin, Segments
<1>5. segments \in Seq(Segments) /\ (framed # <<>> => segments # <<>>)
  <2> HIDE DEF framed
  <2> QED
    BY <1>3, <1>4, AppendProperties
<1>6. runs # <<>> => framed # <<>>
  <2>1. SUFFICES ASSUME runs # <<>>
                 PROVE  framed # <<>>
    OBVIOUS
  <2>2. Len(runs) \in Nat \ {0}
    BY <2>1, EmptySeq
  <2> HIDE DEF ss
  <2>3. ss # <<>>
    BY <1>2, <2>2, EmptySeq
  <2> QED
    BY <1>2, <2>2, <2>3, FlattenHolds
<1>7. ToRecipeStructure(runs, board) =
        [segments |-> segments, anchor |-> EffectiveAnchor(board), plane_rotate |-> board.yaw,
         rotate |-> 0, scale |-> 1]
  BY DEF ToRecipeStructure
<1> HIDE DEF segments, framed
<1> QED
  BY <1>5, <1>6, <1>7, AnchorIs DEF Recipes

\* Points of a recipe's segments, before they are placed on the board.
Locals == [xy : Points, z : Int]

\* Knots are spaced by at least one.
LEMMA SpacingIs ==
    ASSUME NEW p \in Points, NEW q \in Points
    PROVE  KnotSpacing(p, q) \in Nat \ {0}
<1> DEFINE apart == Max({p[1] - q[1], q[1] - p[1]}) + Max({p[2] - q[2], q[2] - p[2]})
           roots == {r \in 2 .. apart + 4 : Square(Square(r)) <= 256 * SquaredDistance(p, q)}
<1>1. apart \in Int
  <2>1. ASSUME NEW c \in 1 .. 2
        PROVE  Max({p[c] - q[c], q[c] - p[c]}) \in Int
    <3>1. PICK x \in Int, y \in Int : x = p[c] - q[c] /\ y = q[c] - p[c]
      BY DEF Points
    <3>2. Max({x, y}) \in Int
      BY MinOfTwo
    <3> QED
      BY <3>1, <3>2
  <2> QED
    BY <2>1
<1>2. KnotSpacing(p, q) = 1 + Cardinality(roots)
  BY DEF KnotSpacing
<1> HIDE DEF apart
<1>3. Cardinality(roots) \in Nat
  <2>1. 2 \in Int /\ apart + 4 \in Int
    BY <1>1
  <2>2. IsFiniteSet(2 .. apart + 4)
    BY <2>1, FS_Interval
  <2>3. roots \subseteq 2 .. apart + 4
    OBVIOUS
  <2> QED
    BY <2>2, <2>3, FS_Subset, FS_CardinalityType
<1> HIDE DEF roots
<1> QED
  BY <1>2, <1>3

\* A bend is a whole number each way.
LEMMA BendIs ==
    ASSUME NEW o \in Points, NEW p \in Points, NEW q \in Points
    PROVE  Bend(o, p, q) \in Points
<1> DEFINE u == KnotSpacing(o, p)
           v == KnotSpacing(p, q)
           share == u * (u + v)
<1>1. u \in Nat \ {0} /\ v \in Nat \ {0}
  BY SpacingIs
<1>2. Bend(o, p, q) =
        [c \in 1 .. 2 |->
            IF o = p THEN 4 * (p[c] - q[c])
            ELSE (4 * v * (v * (p[c] - o[c]) + u * (p[c] - q[c]))) \div share]
  BY DEF Bend
<1>3. share \in Nat \ {0}
  BY <1>1
<1> HIDE DEF u, v, share
<1>4. ASSUME NEW c \in 1 .. 2
      PROVE  /\ 4 * (p[c] - q[c]) \in Int
             /\ (4 * v * (v * (p[c] - o[c]) + u * (p[c] - q[c]))) \div share \in Int
  <2>1. PICK a \in Int, b \in Int : a = p[c] - o[c] /\ b = p[c] - q[c]
    BY DEF Points
  <2>2. PICK k \in Int : k = 4 * v * (v * a + u * b)
    BY <1>1, <2>1
  <2>3. k \div share \in Int
    BY <1>3, <2>2
  <2> QED
    BY <2>1, <2>2, <2>3
<1> QED
  BY <1>2, <1>4 DEF Points

\* The curve through a run keeps its points, at every other place.
LEMMA CurveIs ==
    ASSUME NEW points \in Runs
    PROVE  /\ CatmullRom(points) \in Seq(Points) /\ Len(CatmullRom(points)) = 2 * Len(points) - 1
           /\ \A i \in 1 .. Len(points) : 2 * i - 1 \in 1 .. 2 * Len(points) - 1
                                       /\ CatmullRom(points)[2 * i - 1] = points[i]
<1> DEFINE n == Len(points)
           at(s) == IF s % 2 = 1 THEN points[(s + 1) \div 2] ELSE HalfWay(points, s \div 2)
<1>1. n \in Nat /\ n >= 1 /\ \A i \in 1 .. n : points[i] \in Points
  BY EmptySeq, ElementOfSeq DEF Runs
<1>2. ASSUME NEW i \in 1 .. n - 1
      PROVE  HalfWay(points, i) \in Points
  <2> DEFINE before == IF i = 1 THEN points[i] ELSE points[i - 1]
             after == IF i + 1 = n THEN points[i + 1] ELSE points[i + 2]
             left == Bend(before, points[i], points[i + 1])
             right == Bend(after, points[i + 1], points[i])
  <2>1. points[i] \in Points /\ points[i + 1] \in Points
    BY <1>1
  <2>2. before \in Points
    <3>1. i # 1 => i - 1 \in 1 .. n
      BY <1>1
    <3> QED
      BY <1>1, <2>1, <3>1
  <2>3. after \in Points
    <3>1. i + 1 # n => i + 2 \in 1 .. n
      BY <1>1
    <3> QED
      BY <1>1, <2>1, <3>1
  <2>4. HalfWay(points, i) =
          IF points[i] = points[i + 1] THEN points[i]
          ELSE [c \in 1 .. 2 |-> (16 * (points[i][c] + points[i + 1][c]) + left[c] + right[c] + 16) \div 32]
    BY DEF HalfWay
  <2> HIDE DEF before, after
  <2>5. left \in Points /\ right \in Points
    BY <2>1, <2>2, <2>3, BendIs
  <2> HIDE DEF left, right
  <2>6. ASSUME NEW c \in 1 .. 2
        PROVE  (16 * (points[i][c] + points[i + 1][c]) + left[c] + right[c] + 16) \div 32 \in Int
    <3>1. PICK x \in Int, y \in Int, b \in Int, a \in Int :
             x = points[i][c] /\ y = points[i + 1][c] /\ b = left[c] /\ a = right[c]
      BY <2>1, <2>5 DEF Points
    <3>2. (16 * (x + y) + b + a + 16) \div 32 \in Int
      OBVIOUS
    <3> QED
      BY <3>1, <3>2
  <2> QED
    BY <2>1, <2>4, <2>6 DEF Points
<1>3. ASSUME NEW s \in 1 .. 2 * n - 1
      PROVE  at(s) \in Points
  <2>1. CASE s % 2 = 1
    <3>1. (s + 1) \div 2 \in 1 .. n
      BY <1>1, <2>1
    <3> QED
      BY <1>1, <2>1, <3>1
  <2>2. CASE s % 2 # 1
    <3>1. s \div 2 \in 1 .. n - 1
      BY <1>1, <2>2
    <3> QED
      BY <1>2, <2>2, <3>1
  <2> QED
    BY <2>1, <2>2
<1>4. CatmullRom(points) = [s \in 1 .. 2 * n - 1 |-> at(s)]
  BY DEF CatmullRom
<1>5. ASSUME NEW i \in 1 .. n
      PROVE  2 * i - 1 \in 1 .. 2 * n - 1 /\ at(2 * i - 1) = points[i]
  <2>1. 2 * i - 1 \in 1 .. 2 * n - 1 /\ (2 * i - 1) % 2 = 1 /\ ((2 * i - 1) + 1) \div 2 = i
    BY <1>1
  <2> QED
    BY <2>1
<1>6. 2 * n - 1 \in Nat
  BY <1>1
<1> HIDE DEF at, n
<1>7. [s \in 1 .. 2 * n - 1 |-> at(s)] \in Seq(Points) /\ Len([s \in 1 .. 2 * n - 1 |-> at(s)]) = 2 * n - 1
  BY <1>3, <1>6
<1> QED
  BY <1>4, <1>5, <1>7 DEF n

\* A segment has a local point, and so has each point it is drawn through.
LEMMA SegmentPointsAre ==
    ASSUME NEW segment \in Segments
    PROVE  /\ SegmentLocalPoints(segment) \in Seq(Locals) /\ SegmentLocalPoints(segment) # <<>>
           /\ \A i \in 1 .. Len(segment.points) : \E k \in 1 .. Len(SegmentLocalPoints(segment)) :
                 SegmentLocalPoints(segment)[k] = [xy |-> segment.points[i], z |-> segment.z]
<1> DEFINE points == segment.points
           curve == IF segment.type = "lin" THEN points ELSE CatmullRom(points)
           local == [i \in 1 .. Len(curve) |-> [xy |-> curve[i], z |-> segment.z]]
<1>1. points \in Runs /\ segment.z \in Int
  BY DEF Segments, Runs
<1> HIDE DEF points
<1>2. points \in Seq(Points) /\ Len(points) \in Nat /\ Len(points) >= 1
  BY <1>1, EmptySeq DEF Runs
<1>3. curve \in Seq(Points) /\ Len(curve) >= 1
  BY <1>1, <1>2, CurveIs
<1>4. \A i \in 1 .. Len(points) : \E k \in 1 .. Len(curve) : curve[k] = points[i]
  <2>1. CASE segment.type = "lin"
    BY <2>1
  <2>2. CASE segment.type # "lin"
    BY <1>1, <2>2, CurveIs
  <2> QED
    BY <2>1, <2>2
<1>5. SegmentLocalPoints(segment) = local
  BY DEF SegmentLocalPoints, points
<1> HIDE DEF curve
<1>6. Len(curve) \in Nat /\ \A i \in 1 .. Len(curve) : curve[i] \in Points
  BY <1>3, LenProperties, ElementOfSeq
<1>7. \A i \in 1 .. Len(curve) : [xy |-> curve[i], z |-> segment.z] \in Locals
  BY <1>1, <1>6 DEF Locals
<1>8. local \in Seq(Locals) /\ Len(local) = Len(curve)
  BY <1>6, <1>7
<1>9. local # <<>>
  BY <1>3, <1>8, EmptySeq
<1>10. \A i \in 1 .. Len(points) : \E k \in 1 .. Len(local) : local[k] = [xy |-> points[i], z |-> segment.z]
  BY <1>4, <1>8
<1> HIDE DEF local
<1> QED
  BY <1>5, <1>8, <1>9, <1>10 DEF points

\* A recipe's local points are some, if it has a segment, and its waypoints are
\* the places they are turned to.
LEMMA WaypointsAre ==
    ASSUME NEW recipe \in Recipes
    PROVE  LET local == LocalPoints(recipe)
               waypoints == BuildWaypoints(recipe)
               turned(i) == RotateInPlane(Scaled(local[i].xy, recipe.scale), recipe.rotate + recipe.plane_rotate) IN
           /\ [i \in 1 .. Len(recipe.segments) |-> SegmentLocalPoints(recipe.segments[i])] \in Seq(Seq(Locals))
           /\ Len(recipe.segments) \in Nat
           /\ \A i \in 1 .. Len(recipe.segments) : recipe.segments[i] \in Segments
           /\ local \in Seq(Locals) /\ waypoints \in Seq(Places) /\ Len(waypoints) = Len(local)
           /\ recipe.segments # <<>> => waypoints # <<>>
           /\ \A i \in 1 .. Len(local) :
                 /\ local[i] \in Locals
                 /\ Scaled(local[i].xy, recipe.scale) \in Points
                 /\ turned(i) \in Points
                 /\ waypoints[i] = <<recipe.anchor[1] + turned(i)[1], recipe.anchor[2] + turned(i)[2],
                                     recipe.anchor[3] + local[i].z>>
<1> DEFINE segments == recipe.segments
           ss == [i \in 1 .. Len(segments) |-> SegmentLocalPoints(segments[i])]
           local == LocalPoints(recipe)
           turns == recipe.rotate + recipe.plane_rotate
           turned(i) == RotateInPlane(Scaled(local[i].xy, recipe.scale), turns)
           place(i) == <<recipe.anchor[1] + turned(i)[1], recipe.anchor[2] + turned(i)[2],
                         recipe.anchor[3] + local[i].z>>
<1>1. /\ segments \in Seq(Segments) /\ recipe.anchor \in Places /\ turns \in Int /\ recipe.scale \in Int
  BY DEF Recipes
<1>2. Len(segments) \in Nat /\ \A i \in 1 .. Len(segments) : segments[i] \in Segments
  BY <1>1, LenProperties, ElementOfSeq
<1>3. ss \in Seq(Seq(Locals)) /\ Len(ss) = Len(segments)
  BY <1>2, SegmentPointsAre
<1>4. local = FlattenSeq(ss)
  BY DEF LocalPoints
<1> HIDE DEF local
<1>5. local \in Seq(Locals)
  <2> HIDE DEF ss
  <2> QED
    BY <1>3, <1>4, FlattenIs
<1>6. segments # <<>> => local # <<>>
  <2>1. SUFFICES ASSUME segments # <<>>
                 PROVE  local # <<>>
    OBVIOUS
  <2>2. Len(segments) \in Nat \ {0} /\ 1 \in 1 .. Len(segments)
    BY <1>1, <2>1, EmptySeq
  <2>3. ss[1] = SegmentLocalPoints(segments[1])
    BY <2>2
  <2>4. 1 \in 1 .. Len(ss[1])
    <3>1. ss[1] \in Seq(Locals) /\ ss[1] # <<>>
      BY <1>2, <2>2, <2>3, SegmentPointsAre
    <3> QED
      BY <3>1, EmptySeq
  <2> HIDE DEF ss
  <2>5. 1 \in 1 .. Len(ss)
    BY <1>3, <2>2
  <2>6. \E j \in 1 .. Len(local) : local[j] = ss[1][1]
    BY <1>3, <1>4, <2>4, <2>5, FlattenHolds
  <2> QED
    BY <2>6, EmptySeq
<1>7. ASSUME NEW i \in 1 .. Len(local)
      PROVE  /\ local[i] \in Locals /\ Scaled(local[i].xy, recipe.scale) \in Points
             /\ turned(i) \in Points /\ place(i) \in Places
  <2>1. local[i] \in Locals /\ local[i].xy \in Points /\ local[i].z \in Int
    <3>1. local[i] \in Locals
      BY <1>5, ElementOfSeq
    <3> QED
      BY <3>1 DEF Locals
  <2>2. local[i].xy[1] * recipe.scale \in Int /\ local[i].xy[2] * recipe.scale \in Int
    BY <1>1, <2>1, PointIs
  <2>3. Scaled(local[i].xy, recipe.scale) \in Points
    BY <2>2, PointIs DEF Scaled
  <2>4. turned(i) \in Points
    BY <1>1, <2>3, RotationIs
  <2> HIDE DEF turned
  <2>5. /\ recipe.anchor[1] + turned(i)[1] \in Int /\ recipe.anchor[2] + turned(i)[2] \in Int
        /\ recipe.anchor[3] + local[i].z \in Int
    <3>1. /\ recipe.anchor[1] \in Int /\ recipe.anchor[2] \in Int /\ recipe.anchor[3] \in Int
          /\ turned(i)[1] \in Int /\ turned(i)[2] \in Int
      BY <1>1, <2>4, PointIs
    <3>2. \A x, y : x \in Int /\ y \in Int => x + y \in Int
      OBVIOUS
    <3> QED
      BY <2>1, <3>1, <3>2, Zenon
  <2> QED
    BY <2>1, <2>3, <2>4, <2>5, PointIs
<1>8. BuildWaypoints(recipe) = [i \in 1 .. Len(local) |-> place(i)]
  BY DEF BuildWaypoints, local
<1>9. Len(local) \in Nat
  BY <1>5, LenProperties
<1>10. /\ BuildWaypoints(recipe) \in Seq(Places) /\ Len(BuildWaypoints(recipe)) = Len(local)
       /\ \A i \in 1 .. Len(local) : BuildWaypoints(recipe)[i] = place(i)
  <2> HIDE DEF place
  <2> QED
    BY <1>7, <1>8, <1>9
<1>11. segments # <<>> => BuildWaypoints(recipe) # <<>>
  BY <1>5, <1>6, <1>10, EmptySeq
<1> HIDE DEF place
<1> QED
  BY <1>2, <1>3, <1>5, <1>7, <1>10, <1>11 DEF local, place

\* The segments start at waypoints.
LEMMA StartsAre ==
    ASSUME NEW recipe \in Recipes, recipe.segments # <<>>
    PROVE  /\ SegmentStarts(recipe) # {}
           /\ \A start \in SegmentStarts(recipe) : start \in 1 .. Len(BuildWaypoints(recipe))
<1> DEFINE n == Len(recipe.segments)
           S == 1 .. n
           ss == [i \in S |-> SegmentLocalPoints(recipe.segments[i])]
           Count(s) == Len(SegmentLocalPoints(recipe.segments[s]))
           h == [s \in S |-> Count(s)]
           Before(s) == MapThenSumSet(Count, 1 .. s - 1)
<1>1. n \in Nat /\ n >= 1 /\ 1 \in S /\ n \in S
  <2>1. recipe.segments \in Seq(Segments)
    BY DEF Recipes
  <2> QED
    BY <2>1, EmptySeq
<1>2. IsFiniteSet(S)
  <2>1. 1 \in Int
    OBVIOUS
  <2> QED
    BY <1>1, <2>1, FS_Interval
<1>3. ASSUME NEW s \in S
      PROVE  /\ SegmentLocalPoints(recipe.segments[s]) \in Seq(Locals)
             /\ Count(s) \in Nat /\ Count(s) >= 1 /\ h[s] = Count(s) /\ ss[s] = SegmentLocalPoints(recipe.segments[s])
  <2>1. recipe.segments[s] \in Segments
    BY WaypointsAre
  <2> QED
    BY <2>1, SegmentPointsAre, EmptySeq
<1>4. h \in [S -> Nat]
  BY <1>3
<1>5. ASSUME NEW s \in S
      PROVE  1 .. s - 1 \in SUBSET S /\ Before(s) = Summed(1 .. s - 1, h)
  <2> DEFINE D == 1 .. s - 1
             Taken(g) == g = [t \in SUBSET D |-> IF t = {} THEN 0 ELSE Count(Some(t)) + g[t \ {Some(t)}]]
             TakenOf(g) == g = [t \in SUBSET D |-> IF t = {} THEN 0 ELSE h[Some(t)] + g[t \ {Some(t)}]]
  <2>1. D \in SUBSET S
    <3>1. \A k \in D : k \in S
      BY <1>1
    <3> QED
      BY <3>1
  <2>2. \A g : Taken(g) <=> TakenOf(g)
    <3>1. ASSUME NEW t \in SUBSET D, t # {}
          PROVE  h[Some(t)] = Count(Some(t))
      <4>1. Some(t) \in S
        BY <2>1, <3>1 DEF Some
      <4> HIDE DEF S, h, Count
      <4> QED
        BY <1>3, <4>1
    <3> HIDE DEF h, Count
    <3> QED
      BY <3>1
  <2>3. (CHOOSE g : Taken(g))[D] = Summed(D, h)
    <3>1. (CHOOSE g : Taken(g)) = (CHOOSE g : TakenOf(g))
      <4> HIDE DEF Taken, TakenOf
      <4> QED
        BY <2>2, Zenon
    <3>2. Summed(D, h) = (CHOOSE g : TakenOf(g))[D]
      BY DEF Summed
    <3> HIDE DEF Taken, TakenOf
    <3> QED
      BY <3>1, <3>2
  <2>4. Before(s) = (CHOOSE g : Taken(g))[D]
    BY Zenon DEF MapThenSumSet, MapThenFoldSet, Some
  <2> HIDE DEF Taken, Before
  <2> QED
    BY <2>1, <2>3, <2>4
<1>6. SegmentStarts(recipe) = {1 + Before(s) : s \in S}
  BY DEF SegmentStarts
<1>7. ss \in Seq(Seq(Locals)) /\ Len(ss) = n /\ Len(BuildWaypoints(recipe)) = Len(FlattenSeq(ss))
  <2>1. ss \in Seq(Seq(Locals)) /\ Len(BuildWaypoints(recipe)) = Len(LocalPoints(recipe))
    BY WaypointsAre
  <2>2. LocalPoints(recipe) = FlattenSeq(ss)
    BY DEF LocalPoints
  <2>3. Len(ss) = n
    BY <1>1
  <2> QED
    BY <2>1, <2>2, <2>3
<1>8. PICK g \in [1 .. n -> Seq(Locals)] :
         /\ \A i \in 1 .. n : g[i] = IF i = 1 THEN ss[1] ELSE g[i - 1] \o ss[i]
         /\ FlattenSeq(ss) = g[n]
  <2> HIDE DEF ss, n
  <2>1. ss # <<>>
    BY <1>1, <1>7, EmptySeq
  <2> QED
    BY <1>7, <2>1, FlattenRuns
<1>9. /\ Summed({}, h) = 0
      /\ \A D \in SUBSET S : Summed(D, h) \in Nat
      /\ \A D \in SUBSET S : \A x \in D : Summed(D, h) = h[x] + Summed(D \ {x}, h)
  <2> HIDE DEF S, h
  <2> QED
    BY <1>2, <1>4, SumIs
<1>10. ASSUME NEW i \in 1 .. n
       PROVE  /\ Summed(1 .. i, h) \in Nat /\ Summed(1 .. i - 1, h) \in Nat
              /\ Summed(1 .. i, h) = h[i] + Summed(1 .. i - 1, h)
  <2>1. i \in 1 .. i /\ (1 .. i) \ {i} = 1 .. i - 1 /\ 1 .. i \in SUBSET S /\ 1 .. i - 1 \in SUBSET S
    BY <1>1, FoldOfPrefix
  <2> HIDE DEF S, h
  <2>2. Summed(1 .. i, h) = h[i] + Summed((1 .. i) \ {i}, h)
    BY <1>9, <2>1
  <2>3. (1 .. i) \ {i} = 1 .. i - 1
    BY <2>1
  <2>4. Summed(1 .. i, h) \in Nat /\ Summed(1 .. i - 1, h) \in Nat
    BY <1>9, <2>1
  <2> QED
    BY <2>2, <2>3, <2>4
<1> DEFINE T == {i \in 0 .. n :
                    /\ i > 0 => Len(g[i]) = Summed(1 .. i, h)
                    /\ \A s \in 1 .. i : 1 + Summed(1 .. s - 1, h) <= Summed(1 .. i, h)}
<1>11. \A i \in 0 .. n : i \in T
  <2>1. 0 \in T
    BY <1>1
  <2>2. ASSUME NEW i \in 1 .. n, i - 1 \in T
        PROVE  i \in T
    <3>1. /\ i \in 0 .. n /\ i \in S /\ Len(ss[i]) = h[i] /\ h[i] \in Nat /\ h[i] >= 1 /\ ss[i] \in Seq(Locals)
      <4>1. i \in 0 .. n /\ i \in S
        BY <1>1
      <4> HIDE DEF h, ss, S
      <4> QED
        BY <1>3, <4>1
    <3>2. /\ Summed(1 .. i, h) \in Nat /\ Summed(1 .. i - 1, h) \in Nat
          /\ Summed(1 .. i, h) = h[i] + Summed(1 .. i - 1, h)
      BY <1>10
    <3> HIDE DEF ss, h, S
    <3>3. Len(g[i]) = Summed(1 .. i, h)
      <4>1. CASE i = 1
        <5>1. 1 .. i - 1 = {}
          BY <4>1
        <5> QED
          BY <1>8, <1>9, <3>1, <3>2, <4>1, <5>1
      <4>2. CASE i # 1
        <5>1. i - 1 \in 1 .. n /\ i - 1 > 0
          BY <1>1, <4>2
        <5>2. g[i] = g[i - 1] \o ss[i] /\ g[i - 1] \in Seq(Locals)
          BY <1>8, <4>2, <5>1
        <5>3. Len(g[i - 1] \o ss[i]) = Len(g[i - 1]) + Len(ss[i])
          BY <3>1, <5>2, ConcatProperties
        <5>4. Len(g[i - 1]) = Summed(1 .. i - 1, h)
          BY <2>2, <5>1
        <5> QED
          BY <3>1, <3>2, <5>2, <5>3, <5>4
      <4> QED
        BY <4>1, <4>2
    <3>4. ASSUME NEW s \in 1 .. i
          PROVE  1 + Summed(1 .. s - 1, h) <= Summed(1 .. i, h)
      <4>1. CASE s = i
        BY <3>1, <3>2, <4>1
      <4>2. CASE s # i
        <5>1. s \in 1 .. i - 1 /\ s \in 1 .. n
          BY <1>1, <4>2
        <5>2. 1 + Summed(1 .. s - 1, h) <= Summed(1 .. i - 1, h)
          BY <2>2, <5>1
        <5>3. Summed(1 .. s - 1, h) \in Nat
          BY <1>10, <5>1
        <5> QED
          BY <3>1, <3>2, <5>2, <5>3
      <4> QED
        BY <4>1, <4>2
    <3> QED
      BY <3>1, <3>3, <3>4
  <2> HIDE DEF T, n
  <2> QED
    BY <1>1, <2>1, <2>2, UpTo
<1>12. ASSUME NEW s \in S
       PROVE  1 + Before(s) \in 1 .. Len(BuildWaypoints(recipe))
  <2>1. /\ Len(g[n]) = Summed(1 .. n, h) /\ 1 + Summed(1 .. s - 1, h) <= Summed(1 .. n, h)
        /\ Summed(1 .. s - 1, h) \in Nat /\ Summed(1 .. n, h) \in Nat
    <3>1. n \in 0 .. n /\ n > 0
      BY <1>1
    <3>2. n \in T
      <4> HIDE DEF T, n
      <4> QED
        BY <1>11, <3>1
    <3> HIDE DEF h
    <3> QED
      BY <1>10, <3>1, <3>2
  <2>2. Before(s) = Summed(1 .. s - 1, h)
    BY <1>5
  <2>3. Len(BuildWaypoints(recipe)) = Len(g[n])
    BY <1>7, <1>8
  <2> HIDE DEF Before, h, ss
  <2> QED
    BY <2>1, <2>2, <2>3
<1> HIDE DEF Before
<1> QED
  BY <1>1, <1>6, <1>12

\* The least of some places on a path is one of them.
LEMMA LeastIsIn ==
    ASSUME NEW n \in Nat, NEW t \in SUBSET (1 .. n), t # {}
    PROVE  Min(t) \in t
<1>1. t \in SUBSET Nat
  OBVIOUS
<1>2. PICK m \in t : \A x \in t : m <= x
  BY <1>1, LeastNatural
<1> QED
  BY <1>2 DEF Min

\* A cut falls on the path.
LEMMA CutIs ==
    ASSUME NEW w \in Seq(Places), w # <<>>, NEW starts \in SUBSET (1 .. Len(w)), starts # {},
           NEW count \in Nat, NEW i \in 1 .. count - 1
    PROVE  CutFor(w, starts, i, count) \in 1 .. Len(w)
<1> DEFINE n == Len(w)
           total == Distance(w, 1, n)
           Gap(s) == Magnitude(Distance(w, 1, s) * count - total * i)
           nearest == {s \in starts : \A t \in starts : Gap(s) <= Gap(t)}
           past == {p \in 1 .. n : Distance(w, 1, p) * count >= total * i}
<1>1. n \in Nat /\ n >= 1 /\ 1 \in 1 .. n /\ n \in 1 .. n
  BY EmptySeq
<1>2. \A p \in 1 .. n : Distance(w, 1, p) \in Nat
  BY <1>1, DistanceAdds
<1>3. total \in Nat
  BY <1>1, <1>2
<1>4. Min(nearest) \in 1 .. n
  <2>1. ASSUME NEW s \in starts
        PROVE  Gap(s) \in Nat
    <3>1. Distance(w, 1, s) \in Nat
      BY <1>2
    <3> HIDE DEF total
    <3>2. Distance(w, 1, s) * count - total * i \in Int
      BY <1>3, <3>1
    <3> QED
      BY <3>2 DEF Magnitude
  <2> HIDE DEF Gap
  <2>2. PICK g \in {Gap(s) : s \in starts} : \A h \in {Gap(s) : s \in starts} : g <= h
    <3>1. {Gap(s) : s \in starts} \in SUBSET Nat /\ {Gap(s) : s \in starts} # {}
      BY <2>1
    <3> QED
      BY <3>1, LeastNatural
  <2>3. nearest \in SUBSET (1 .. n) /\ nearest # {}
    <3>1. PICK s \in starts : g = Gap(s)
      OBVIOUS
    <3>2. \A t \in starts : Gap(s) <= Gap(t)
      BY <2>2, <3>1
    <3> QED
      BY <3>2
  <2> HIDE DEF nearest
  <2> QED
    BY <1>1, <2>3, LeastIsIn
<1>5. Min(past) \in 1 .. n
  <2>1. total * count >= total * i
    <3>1. \A t \in Nat, c \in Nat, k \in Nat : k <= c => t * c >= t * k
      OBVIOUS
    <3> HIDE DEF total
    <3> QED
      BY <1>3, <3>1
  <2>2. past \in SUBSET (1 .. n) /\ n \in past
    BY <1>1, <2>1
  <2> HIDE DEF past
  <2> QED
    BY <1>1, <2>2, LeastIsIn
<1>6. CutFor(w, starts, i, count)
        = IF 2 * Gap(Min(nearest)) <= GoalLength * count THEN Min(nearest) ELSE Min(past)
  BY DEF CutFor, NearestStart
<1> HIDE DEF Gap, nearest, past
<1> QED
  BY <1>4, <1>5, <1>6

\* Cuts are interior and ascend.
Cuts(n) == {c \in Seq(2 .. n - 1) : \A k \in 1 .. Len(c) - 1 : c[k] < c[k + 1]}

\* A cut is added if it is inside the path and after the last one.
Cutting(cuts, cut, w) ==
    IF 1 < cut /\ cut < Len(w) /\ (cuts = <<>> \/ cut > Last(cuts)) THEN Append(cuts, cut) ELSE cuts

\* The cuts that are kept are interior and ascend.
LEMMA CutsAre ==
    ASSUME NEW w \in Seq(Places), w # <<>>, NEW starts \in SUBSET (1 .. Len(w)), starts # {}
    PROVE  SplitCuts(w, starts) \in Cuts(Len(w))
<1> DEFINE total == Distance(w, 1, Len(w))
           count == (total + GoalLength - 1) \div GoalLength
           s == [i \in 1 .. count - 1 |-> i]
           m == IF count = 0 THEN 0 ELSE count - 1
           A == Cuts(Len(w))
           Cut(i) == CutFor(w, starts, i, count)
           step == [a \in A |-> [i \in 1 .. m |-> Cutting(a, Cut(i), w)]]
           Folded(f) == f = [t \in SUBSET (1 .. m) |->
                               IF t = {} THEN <<>>
                               ELSE Cutting(f[t \ {Max(t)}], Cut(s[Max(t)]), w)]
<1>1. Len(w) \in Nat /\ Len(w) >= 1 /\ 1 \in 1 .. Len(w) /\ Len(w) \in 1 .. Len(w)
  BY EmptySeq
<1>2. total \in Nat
  BY <1>1, DistanceAdds
<1>3. count \in Nat
  <2> HIDE DEF total
  <2>1. GoalLength \in Nat /\ GoalLength >= 1
    BY WindowsAssumption
  <2>2. PICK a \in Nat : a = total + GoalLength - 1
    BY <1>2, <2>1
  <2>3. a \div GoalLength \in Nat
    BY <2>1
  <2> QED
    BY <2>2, <2>3
<1> DEFINE split == SplitCuts(w, starts)
<1>4. split = FoldLeft(LAMBDA c, i : Cutting(c, Cut(i), w), <<>>, s)
  BY DEF SplitCuts, Cutting
<1> HIDE DEF split, count
<1>5. m \in Nat /\ 1 .. m = 1 .. count - 1 /\ DOMAIN s = 1 .. m /\ \A i \in 1 .. m : s[i] = i
  BY <1>3
<1>6. <<>> \in A
  BY EmptySeq DEF Cuts
<1>7. ASSUME NEW a \in A, NEW i \in 1 .. m
      PROVE  Cutting(a, Cut(i), w) \in A
  <2>1. Cut(i) \in 1 .. Len(w)
    BY <1>3, <1>5, CutIs
  <2>2. PICK cut \in 1 .. Len(w) : cut = Cut(i)
    BY <2>1
  <2> HIDE DEF Cut
  <2>3. CASE Cutting(a, cut, w) = a
    BY <2>2, <2>3
  <2>4. CASE 1 < cut /\ cut < Len(w) /\ (a = <<>> \/ cut > Last(a)) /\ Cutting(a, cut, w) = Append(a, cut)
    <3>1. cut \in 2 .. Len(w) - 1
      BY <1>1, <2>4
    <3>2. a \in Seq(2 .. Len(w) - 1) /\ Len(a) \in Nat /\ \A k \in 1 .. Len(a) - 1 : a[k] < a[k + 1]
      BY LenProperties DEF Cuts
    <3>3. /\ Append(a, cut) \in Seq(2 .. Len(w) - 1) /\ Len(Append(a, cut)) = Len(a) + 1
          /\ \A k \in 1 .. Len(a) : Append(a, cut)[k] = a[k]
          /\ Append(a, cut)[Len(a) + 1] = cut
      BY <3>1, <3>2, AppendProperties
    <3>4. ASSUME NEW k \in 1 .. Len(a)
          PROVE  Append(a, cut)[k] < Append(a, cut)[k + 1]
      <4>1. CASE k = Len(a)
        <5>1. a # <<>> /\ Last(a) = a[k]
          BY <4>1 DEF Last
        <5> QED
          BY <2>4, <3>3, <4>1, <5>1
      <4>2. CASE k # Len(a)
        <5>1. k \in 1 .. Len(a) - 1 /\ k + 1 \in 1 .. Len(a)
          BY <3>2, <4>2
        <5> QED
          BY <3>2, <3>3, <5>1
      <4> QED
        BY <4>1, <4>2
    <3>5. 1 .. Len(Append(a, cut)) - 1 = 1 .. Len(a)
      BY <3>2, <3>3
    <3> QED
      BY <2>2, <2>4, <3>3, <3>4, <3>5 DEF Cuts
  <2> QED
    BY <2>2, <2>3, <2>4 DEF Cutting
<1> HIDE DEF A, Cut, m, s
<1>8. step \in [A -> [1 .. m -> A]]
  BY <1>7
<1>9. PICK g : IsFold(g, m, A, <<>>, step)
  <2> HIDE DEF step
  <2> QED
    BY <1>5, <1>6, <1>8, FoldExists
<1>10. Folded(g)
  <2>1. ASSUME NEW t \in SUBSET (1 .. m), t # {}
        PROVE  step[g[t \ {Max(t)}]][Max(t)] = Cutting(g[t \ {Max(t)}], Cut(s[Max(t)]), w)
    <3>1. g[t \ {Max(t)}] \in A /\ Max(t) \in 1 .. m
      BY <1>5, <1>9, <2>1, LargestIsIn DEF IsFold
    <3> QED
      BY <1>5, <3>1
  <2> HIDE DEF step
  <2> QED
    BY <1>9, <2>1 DEF IsFold
<1> DEFINE f == CHOOSE f : Folded(f)
<1>11. Folded(f)
  <2> HIDE DEF Folded
  <2> QED
    BY <1>10
<1>12. split = f[1 .. m]
  BY <1>4, <1>5, Zenon DEF FoldLeft, MapThenFoldSet
<1> HIDE DEF f
<1>13. f[1 .. 0] \in A
  BY <1>6, <1>11
<1>14. ASSUME NEW i \in 1 .. m, f[1 .. i - 1] \in A
       PROVE  f[1 .. i] \in A
  <2>1. /\ 1 .. i \in SUBSET (1 .. m) /\ 1 .. i # {}
        /\ Max(1 .. i) = i /\ (1 .. i) \ {i} = 1 .. i - 1
    BY <1>5, FoldOfPrefix
  <2>2. f[1 .. i] = Cutting(f[(1 .. i) \ {Max(1 .. i)}], Cut(s[Max(1 .. i)]), w)
    BY <1>11, <2>1
  <2>3. s[Max(1 .. i)] = i
    BY <1>5, <2>1
  <2>4. Cutting(f[1 .. i - 1], Cut(i), w) \in A
    BY <1>7, <1>14
  <2> QED
    BY <2>1, <2>2, <2>3, <2>4
<1>15. f[1 .. m] \in A
  <2>1. m \in 0 .. m
    BY <1>5
  <2> QED
    BY <1>5, <1>13, <1>14, <2>1, FoldStays
<1> QED
  BY <1>12, <1>15 DEF split, A

-------------------------------------------------------------------------------
(* The goals of a path.                                                    *)

\* The goals gs of the path w, cut at the waypoints b: a goal goes from one of
\* them to the next.
SlicedAt(gs, w, b) ==
    /\ Len(gs) \in Nat \ {0} /\ DOMAIN gs = 1 .. Len(gs)
    /\ b \in Seq(1 .. Len(w)) /\ Len(b) = Len(gs) + 1
    /\ b[1] = 1 /\ b[Len(gs) + 1] = Len(w)
    /\ \A k \in 1 .. Len(gs) : b[k] <= b[k + 1] /\ gs[k] = SubSeq(w, b[k], b[k + 1])
Sliced(gs, w) == \E b : SlicedAt(gs, w, b)

\* What SliceGoals returns,
LEMMA SlicesAre ==
    ASSUME NEW w \in Seq(Places), w # <<>>, NEW cuts \in Cuts(Len(w))
    PROVE  Sliced(SliceGoals(w, cuts), w)
<1> DEFINE n == Len(w)
           c == Len(cuts)
           N == 1 .. n
           b == (<<1>> \o cuts) \o <<n>>
           gs == [k \in 1 .. Len(b) - 1 |-> SubSeq(w, b[k], b[k + 1])]
<1>1. n \in Nat /\ n >= 1
  BY EmptySeq
<1>2. cuts \in Seq(2 .. n - 1) /\ c \in Nat /\ \A k \in 1 .. c - 1 : cuts[k] < cuts[k + 1]
  BY LenProperties DEF Cuts
<1>3. \A k \in 1 .. c : cuts[k] \in 2 .. n - 1
  BY <1>2, ElementOfSeq
<1>4. cuts \in Seq(N)
  <2>1. \A k \in 1 .. c : cuts[k] \in N
    BY <1>1, <1>3
  <2>2. cuts = [k \in 1 .. c |-> cuts[k]]
    BY <1>2, LenProperties
  <2> HIDE DEF N, n, c
  <2>3. [k \in 1 .. c |-> cuts[k]] \in Seq(N)
    BY <1>2, <2>1
  <2> QED
    BY <2>2, <2>3
<1>5. <<1>> \in Seq(N) /\ <<n>> \in Seq(N) /\ Len(<<1>>) = 1 /\ Len(<<n>>) = 1
  <2>1. 1 \in N /\ n \in N
    BY <1>1
  <2> HIDE DEF N, n
  <2> QED
    BY <2>1
<1>6. SliceGoals(w, cuts) = gs
  BY DEF SliceGoals
<1> DEFINE front == <<1>> \o cuts
<1>7. /\ front \in Seq(N) /\ Len(front) = c + 1 /\ front[1] = 1
      /\ \A k \in 2 .. c + 1 : front[k] = cuts[k - 1]
  <2> HIDE DEF N, n
  <2>1. /\ <<1>> \o cuts \in Seq(N) /\ Len(<<1>> \o cuts) = 1 + c
        /\ \A k \in 1 .. 1 + c : (<<1>> \o cuts)[k] = IF k <= 1 THEN <<1>>[k] ELSE cuts[k - 1]
    BY <1>4, <1>5, ConcatProperties
  <2> HIDE DEF c
  <2> QED
    BY <1>2, <2>1
<1>8. /\ b \in Seq(N) /\ Len(b) = c + 2 /\ b[1] = 1 /\ b[c + 2] = n
      /\ \A k \in 2 .. c + 1 : b[k] = cuts[k - 1]
  <2> HIDE DEF N, n, front
  <2>1. /\ front \o <<n>> \in Seq(N) /\ Len(front \o <<n>>) = (c + 1) + 1
        /\ \A k \in 1 .. (c + 1) + 1 :
              (front \o <<n>>)[k] = IF k <= c + 1 THEN front[k] ELSE <<n>>[k - (c + 1)]
    BY <1>5, <1>7, ConcatProperties
  <2>2. b = front \o <<n>>
    BY DEF front
  <2> HIDE DEF c, b
  <2>3. (c + 2) - (c + 1) = 1 /\ c + 2 \in 1 .. (c + 1) + 1 /\ ~(c + 2 <= c + 1)
        /\ 1 \in 1 .. (c + 1) + 1 /\ \A k \in 2 .. c + 1 : k \in 1 .. (c + 1) + 1 /\ k <= c + 1
    BY <1>2
  <2>4. (front \o <<n>>)[c + 2] = <<n>>[1]
    BY <2>1, <2>3
  <2> QED
    BY <1>2, <1>7, <2>1, <2>2, <2>3, <2>4
<1> HIDE DEF b, front, N
<1>9. Len(gs) = c + 1 /\ DOMAIN gs = 1 .. c + 1 /\ \A k \in 1 .. c + 1 : gs[k] = SubSeq(w, b[k], b[k + 1])
  <2>1. Len(b) - 1 = c + 1 /\ c + 1 \in Nat
    BY <1>2, <1>8
  <2> HIDE DEF c
  <2>2. gs = [k \in 1 .. c + 1 |-> SubSeq(w, b[k], b[k + 1])]
    BY <2>1
  <2> HIDE DEF gs
  <2>3. Len([k \in 1 .. c + 1 |-> SubSeq(w, b[k], b[k + 1])]) = c + 1
    BY <2>1
  <2> QED
    BY <2>2, <2>3
<1> HIDE DEF gs, c, n
<1>10. ASSUME NEW k \in 1 .. c + 1
       PROVE  b[k] <= b[k + 1]
  <2>1. CASE k = 1
    <3>1. CASE c = 0
      BY <1>1, <1>8, <2>1, <3>1
    <3>2. CASE c # 0
      <4>1. 1 \in 1 .. c /\ 2 \in 2 .. c + 1
        BY <1>2, <3>2
      <4>2. b[2] = cuts[1] /\ cuts[1] >= 2
        BY <1>1, <1>3, <1>8, <4>1
      <4> QED
        BY <1>1, <1>3, <1>8, <2>1, <4>1, <4>2
    <3> QED
      BY <3>1, <3>2
  <2>2. CASE k # 1 /\ k = c + 1
    <3>1. k - 1 \in 1 .. c /\ k \in 2 .. c + 1 /\ k + 1 = c + 2
      BY <1>2, <2>2
    <3>2. b[k] = cuts[k - 1] /\ cuts[k - 1] \in 2 .. n - 1 /\ b[k + 1] = n
      BY <1>3, <1>8, <3>1
    <3> QED
      BY <1>1, <3>2
  <2>3. CASE k # 1 /\ k # c + 1
    <3>1. k - 1 \in 1 .. c - 1 /\ k - 1 \in 1 .. c /\ k \in 1 .. c /\ k \in 2 .. c + 1 /\ k + 1 \in 2 .. c + 1
          /\ (k + 1) - 1 = k /\ (k - 1) + 1 = k
      BY <1>2, <2>3
    <3>2. b[k] = cuts[k - 1] /\ b[k + 1] = cuts[k] /\ cuts[k - 1] < cuts[k]
          /\ cuts[k - 1] \in 2 .. n - 1 /\ cuts[k] \in 2 .. n - 1
      BY <1>2, <1>3, <1>8, <3>1
    <3> QED
      BY <1>1, <3>2
  <2> QED
    BY <2>1, <2>2, <2>3
<1>11. SlicedAt(gs, w, b)
  <2>1. c + 1 \in Nat \ {0} /\ (c + 1) + 1 = c + 2
    BY <1>2
  <2> QED
    BY <1>8, <1>9, <1>10, <2>1 DEF SlicedAt, N, n
<1> QED
  BY <1>6, <1>11 DEF Sliced

\* and the one goal of the monolithic sender.
LEMMA WholeIsSliced ==
    ASSUME NEW w \in Seq(Places), w # <<>>
    PROVE  Sliced(<<w>>, w)
<1> DEFINE n == Len(w)
           gs == <<w>>
           b == <<1, n>>
<1>1. n \in Nat /\ n >= 1 /\ SubSeq(w, 1, n) = w
  BY EmptySeq, SubSeqFull
<1> HIDE DEF n
<1>2. b \in Seq(1 .. n) /\ Len(b) = 2 /\ b[1] = 1 /\ b[2] = n
  <2>1. 1 \in 1 .. n /\ n \in 1 .. n
    BY <1>1
  <2> QED
    BY <2>1
<1>3. Len(gs) = 1 /\ DOMAIN gs = 1 .. 1 /\ gs[1] = w
  OBVIOUS
<1> HIDE DEF gs, b
<1>4. SlicedAt(gs, w, b)
  <2>1. \A k \in 1 .. 1 : k = 1
    OBVIOUS
  <2> QED
    BY <1>1, <1>2, <1>3, <2>1 DEF SlicedAt, n
<1> QED
  BY <1>4 DEF Sliced, gs

\* A goal is a stretch of the path, and the next one starts where it ends.
LEMMA GoalIs ==
    ASSUME NEW w \in Seq(Places), NEW gs, Sliced(gs, w), NEW k \in 1 .. Len(gs)
    PROVE  /\ gs[k] \in Seq(Places) /\ gs[k] # <<>> /\ Len(gs[k]) \in Nat /\ Len(gs[k]) >= 1
           /\ k + 1 \in 1 .. Len(gs) => gs[k][Len(gs[k])] = gs[k + 1][1]
<1>1. PICK b : SlicedAt(gs, w, b)
  BY DEF Sliced
<1>2. Len(gs) \in Nat /\ \A i \in 1 .. Len(gs) + 1 : b[i] \in 1 .. Len(w)
  BY <1>1, ElementOfSeq DEF SlicedAt
<1>3. ASSUME NEW i \in 1 .. Len(gs)
      PROVE  /\ gs[i] \in Seq(Places) /\ Len(gs[i]) = b[i + 1] - b[i] + 1 /\ Len(gs[i]) >= 1
             /\ b[i] \in Nat /\ b[i + 1] \in Nat /\ b[i] <= b[i + 1]
             /\ gs[i][1] = w[b[i]] /\ gs[i][Len(gs[i])] = w[b[i + 1]]
  <2>1. b[i] \in 1 .. Len(w) /\ b[i + 1] \in 1 .. Len(w) /\ b[i] <= b[i + 1]
        /\ gs[i] = SubSeq(w, b[i], b[i + 1])
    <3>1. i \in 1 .. Len(gs) + 1 /\ i + 1 \in 1 .. Len(gs) + 1
      BY <1>2
    <3> QED
      BY <1>1, <1>2, <3>1 DEF SlicedAt
  <2>2. PICK l \in 1 .. Len(w), r \in 1 .. Len(w) : l = b[i] /\ r = b[i + 1] /\ l <= r
    BY <2>1
  <2>3. Len(w) \in Nat
    BY LenProperties
  <2>4. l \in Int /\ r \in Int /\ \A j \in l .. r : w[j] \in Places
    <3>1. \A j \in l .. r : j \in 1 .. Len(w)
      BY <2>3
    <3> QED
      BY <2>3, <3>1, ElementOfSeq
  <2>5. /\ SubSeq(w, l, r) \in Seq(Places)
        /\ Len(SubSeq(w, l, r)) = IF l <= r THEN r - l + 1 ELSE 0
        /\ \A j \in 1 .. r - l + 1 : SubSeq(w, l, r)[j] = w[l + j - 1]
    BY <2>4, SubSeqProperties
  <2>6. 1 \in 1 .. r - l + 1 /\ r - l + 1 \in 1 .. r - l + 1 /\ l + 1 - 1 = l /\ l + (r - l + 1) - 1 = r
    BY <2>2, <2>3
  <2>7. SubSeq(w, l, r)[1] = w[l] /\ SubSeq(w, l, r)[r - l + 1] = w[r]
    BY <2>5, <2>6
  <2>8. gs[i] = SubSeq(w, l, r)
    BY <2>1, <2>2
  <2>9. l \in Nat /\ r \in Nat /\ r - l + 1 >= 1 /\ Len(SubSeq(w, l, r)) = r - l + 1
    BY <2>2, <2>3, <2>5
  <2> QED
    BY <2>2, <2>5, <2>7, <2>8, <2>9
<1>4. k + 1 \in 1 .. Len(gs) => gs[k][Len(gs[k])] = gs[k + 1][1]
  BY <1>3
<1>5. gs[k] # <<>>
  BY <1>3, EmptySeq
<1> QED
  BY <1>3, <1>4, <1>5, LenProperties

\* A window begins with its goal, and goes on with what follows it.
LEMMA WindowIs ==
    ASSUME NEW goal \in Seq(Places), goal # <<>>, NEW next \in Seq(Places),
           next # <<>> => goal[Len(goal)] = next[1]
    PROVE  /\ Window(goal, next) \in Seq(Places) /\ Window(goal, next) # <<>>
           /\ Len(goal) \in Nat \ {0} /\ Len(next) \in Nat
           /\ \A p \in 1 .. Len(goal) : Window(goal, next)[p] = goal[p]
           /\ next = <<>> => Window(goal, next) = goal
           /\ next # <<>> =>
                 /\ Len(next) >= 1 /\ Len(Window(goal, next)) = (Len(goal) - 1) + Len(next)
                 /\ \A p \in 1 .. Len(next) : Window(goal, next)[(Len(goal) - 1) + p] = next[p]
<1>1. Len(goal) \in Nat \ {0} /\ Len(next) \in Nat
  BY EmptySeq, LenProperties
<1>2. CASE next = <<>>
  BY <1>1, <1>2 DEF Window
<1>3. CASE next # <<>>
  <2> DEFINE m == Len(goal)
             l == Len(next)
             rest == Tail(next)
             v == goal \o rest
  <2>1. Window(goal, next) = v
    BY <1>3 DEF Window
  <2>2. /\ rest \in Seq(Places) /\ Len(rest) = l - 1 /\ l >= 1
        /\ \A i \in 1 .. Len(rest) : rest[i] = next[i + 1]
    BY <1>3, EmptySeq, HeadTailProperties
  <2> HIDE DEF rest
  <2>3. /\ v \in Seq(Places) /\ Len(v) = m + Len(rest)
        /\ \A i \in 1 .. m + Len(rest) : v[i] = IF i <= m THEN goal[i] ELSE rest[i - m]
    BY <2>2, ConcatProperties
  <2> HIDE DEF v
  <2>4. Len(v) = (m - 1) + l /\ v # <<>>
    BY <1>1, <2>2, <2>3, EmptySeq
  <2>5. ASSUME NEW p \in 1 .. m
        PROVE  v[p] = goal[p]
    <3>1. p \in 1 .. m + Len(rest) /\ p <= m
      BY <1>1, <2>2
    <3> QED
      BY <2>3, <3>1
  <2>6. ASSUME NEW p \in 1 .. l
        PROVE  v[(m - 1) + p] = next[p]
    <3>1. CASE p = 1
      <4>1. (m - 1) + p = m /\ m \in 1 .. m
        BY <1>1, <3>1
      <4> QED
        BY <1>3, <2>5, <3>1, <4>1
    <3>2. CASE p # 1
      <4>1. /\ (m - 1) + p \in 1 .. m + Len(rest) /\ ~((m - 1) + p <= m)
            /\ ((m - 1) + p) - m = p - 1 /\ p - 1 \in 1 .. Len(rest) /\ (p - 1) + 1 = p
        BY <1>1, <2>2, <3>2
      <4>2. v[(m - 1) + p] = rest[((m - 1) + p) - m]
        BY <2>3, <4>1
      <4>3. rest[p - 1] = next[(p - 1) + 1]
        BY <2>2, <4>1
      <4> QED
        BY <4>1, <4>2, <4>3
    <3> QED
      BY <3>1, <3>2
  <2> QED
    BY <1>1, <1>3, <2>1, <2>2, <2>3, <2>4, <2>5, <2>6
<1> QED
  BY <1>2, <1>3

\* After m waypoints of v, l waypoints of both paths are the same.
Shares(v, w, m, l) ==
    /\ v \in Seq(Places) /\ w \in Seq(Places) /\ m \in Nat /\ l \in Nat
    /\ m + l <= Len(v) /\ l <= Len(w) /\ \A p \in 1 .. l : v[m + p] = w[p]

\* Where two paths have the same waypoints, their steps allow the same speeds.
LEMMA SameSpeeds ==
    ASSUME NEW v, NEW w, NEW m, NEW l, Shares(v, w, m, l)
    PROVE  /\ \A p \in 1 .. l - 1 : Gain(v, m + p) = Gain(w, p)
           /\ \A p \in 2 .. l - 1 : SpeedCap(v, m + p) = SpeedCap(w, p)
<1>1. /\ v \in Seq(Places) /\ w \in Seq(Places) /\ m \in Nat /\ l \in Nat
      /\ m + l <= Len(v) /\ l <= Len(w) /\ \A p \in 1 .. l : v[m + p] = w[p]
  BY DEF Shares
<1>2. Len(v) \in Nat /\ Len(w) \in Nat
  BY <1>1, LenProperties
<1>3. ASSUME NEW p \in 1 .. l - 1
      PROVE  /\ Step(v, m + p) = Step(w, p) /\ Length(v, m + p) = Length(w, p)
             /\ m + p \in 1 .. Len(v) - 1 /\ p \in 1 .. Len(w) - 1
  <2>1. /\ m + p \in 1 .. Len(v) - 1 /\ p \in 1 .. Len(w) - 1 /\ (m + p) + 1 = m + (p + 1)
        /\ p \in 1 .. l /\ p + 1 \in 1 .. l
    BY <1>1, <1>2
  <2>2. v[m + p] = w[p] /\ v[(m + p) + 1] = w[p + 1]
    <3>1. v[m + p] = w[p]
      BY <1>1, <2>1
    <3>2. v[m + (p + 1)] = w[p + 1]
      BY <1>1, <2>1
    <3> QED
      BY <2>1, <3>1, <3>2
  <2>3. Step(v, m + p) = Step(w, p)
    BY <2>2 DEF Step
  <2>4. Length(v, m + p) = Span(Step(v, m + p)) /\ Length(w, p) = Span(Step(w, p))
    BY <1>1, <2>1, LengthIsNumber
  <2> QED
    BY <2>1, <2>3, <2>4
<1>4. ASSUME NEW p \in 2 .. l - 1
      PROVE  SpeedCap(v, m + p) = SpeedCap(w, p)
  <2>1. p \in 1 .. l - 1 /\ p - 1 \in 1 .. l - 1 /\ (m + p) - 1 = m + (p - 1)
    BY <1>1
  <2>2. /\ Step(v, m + p) = Step(w, p) /\ Length(v, m + p) = Length(w, p)
        /\ m + p \in 1 .. Len(v) - 1 /\ p \in 1 .. Len(w) - 1
    BY <1>3, <2>1
  <2>3. /\ Step(v, (m + p) - 1) = Step(w, p - 1) /\ Length(v, (m + p) - 1) = Length(w, p - 1)
        /\ (m + p) - 1 \in 1 .. Len(v) - 1 /\ p - 1 \in 1 .. Len(w) - 1
    BY <1>3, <2>1
  <2>4. Direction(v, m + p) = Direction(w, p) /\ Direction(v, (m + p) - 1) = Direction(w, p - 1)
    BY <2>2, <2>3 DEF Direction
  <2>5. (Moves(v, m + p) <=> Moves(w, p)) /\ (Moves(v, (m + p) - 1) <=> Moves(w, p - 1))
    BY <2>2, <2>3 DEF Moves, Intervals
  <2> QED
    BY <2>4, <2>5 DEF SpeedCap
<1> QED
  BY <1>3, <1>4 DEF Gain

\* No cap is above the limit.
LEMMA CapsAreLimited ==
    ASSUME NEW w, NEW p
    PROVE  SpeedCap(w, p) <= SpeedLimit
<1>1. SpeedLimit \in Nat /\ CornerLimit \in Nat
  BY WindowsAssumption
<1>2. Min({SpeedLimit, CornerLimit}) <= SpeedLimit
  BY <1>1, MinOfTwo
<1> QED
  BY <1>1, <1>2 DEF SpeedCap

\* A window starts at the speed it is entered with, if that is one some feasible
\* profile starts with.
LEMMA StartsAsEntered ==
    ASSUME NEW w \in Seq(Places), w # <<>>, NEW from \in Nat,
           NEW c, Feasible(c, w, from, 0), c[1] = from
    PROVE  ForwardBackward(w, from, 0)[1] = from
<1>1. 1 \in 1 .. Len(w)
  BY EmptySeq
<1> DEFINE b == ForwardBackward(w, from, 0)
<1>2. Feasible(b, w, from, 0) /\ c[1] <= b[1]
  BY <1>1, FastestProfile
<1>3. b[1] \in Nat /\ b[1] <= from
  BY <1>1, <1>2 DEF Feasible
<1> HIDE DEF b
<1>4. b[1] = from
  BY <1>2, <1>3
<1> QED
  BY <1>4 DEF b

\* From rest any window can start.
LEMMA StartsAtRest ==
    ASSUME NEW w \in Seq(Places), w # <<>>
    PROVE  ForwardBackward(w, 0, 0)[1] = 0
<1>1. 1 \in 1 .. Len(w) /\ 0 \in Nat
  BY EmptySeq
<1> DEFINE b == ForwardBackward(w, 0, 0)
<1>2. Feasible(b, w, 0, 0)
  BY <1>1, FastestProfile
<1>3. b[1] \in Nat /\ b[1] <= 0
  BY <1>1, <1>2 DEF Feasible
<1> HIDE DEF b
<1>4. b[1] = 0
  BY <1>3
<1> QED
  BY <1>4 DEF b

\* The speed carried over a seam is a number, and one that the next window can
\* start with, whatever follows there: the rest of the profile, and then rest.
LEMMA SeamIs ==
    ASSUME NEW goal \in Seq(Places), goal # <<>>, NEW next \in Seq(Places), next # <<>>,
           goal[Len(goal)] = next[1], NEW from \in Nat,
           NEW after \in Seq(Places), after # <<>> => next[Len(next)] = after[1]
    PROVE  /\ SeamSpeed(goal, next, from) \in Nat
           /\ ForwardBackward(Window(next, after), SeamSpeed(goal, next, from), 0)[1]
                 = SeamSpeed(goal, next, from)
<1> DEFINE v == Window(goal, next)
           w == Window(next, after)
           m == Len(goal) - 1
           l == Len(next)
           b == ForwardBackward(v, from, 0)
           seam == b[Len(goal)]
           c == [p \in 1 .. Len(w) |-> IF p < l THEN b[m + p] ELSE 0]
<1>1. /\ v \in Seq(Places) /\ v # <<>> /\ m \in Nat /\ m + 1 = Len(goal)
      /\ l \in Nat /\ l >= 1 /\ Len(v) = m + l
      /\ \A p \in 1 .. l : v[m + p] = next[p]
  BY WindowIs
<1>2. /\ w \in Seq(Places) /\ w # <<>> /\ Len(w) \in Nat /\ l <= Len(w)
      /\ \A p \in 1 .. l : w[p] = next[p]
  <2>1. /\ w \in Seq(Places) /\ w # <<>> /\ Len(w) \in Nat /\ \A p \in 1 .. l : w[p] = next[p]
    BY WindowIs, LenProperties
  <2>2. CASE after = <<>>
    <3>1. w = next
      BY <2>2 DEF Window
    <3> QED
      BY <1>1, <2>1, <3>1
  <2>3. CASE after # <<>>
    <3>1. Len(w) = (l - 1) + Len(after) /\ Len(after) \in Nat /\ Len(after) >= 1
      BY <2>3, WindowIs
    <3> HIDE DEF w, l
    <3> QED
      BY <1>1, <2>1, <3>1
  <2> QED
    BY <2>2, <2>3
<1>3. SeamSpeed(goal, next, from) = seam
  BY DEF SeamSpeed, RetimeGoalWindow
<1>4. Feasible(b, v, from, 0)
  BY <1>1, FastestProfile
<1> HIDE DEF v, w, m, l, b
<1>5. /\ b \in [1 .. m + l -> Nat] /\ b[m + l] <= 0
      /\ \A p \in 1 .. m + l : b[p] <= SpeedCap(v, p)
      /\ \A p \in 1 .. (m + l) - 1 : b[p + 1] <= b[p] + Gain(v, p) /\ b[p] <= b[p + 1] + Gain(v, p)
  BY <1>1, <1>4 DEF Feasible
<1>6. b[m + l] = 0
  <2>1. m + l \in 1 .. m + l
    BY <1>1
  <2>2. PICK x \in Nat : x = b[m + l]
    BY <1>5, <2>1
  <2> QED
    BY <1>5, <2>2
<1>7. ASSUME NEW p \in 1 .. l
      PROVE  m + p \in 1 .. m + l /\ b[m + p] \in Nat
  <2>1. m + p \in 1 .. m + l
    BY <1>1
  <2> QED
    BY <1>5, <2>1
<1>8. seam \in Nat /\ seam = b[m + 1]
  BY <1>1, <1>7
<1>9. /\ \A p \in 1 .. l - 1 : Gain(v, m + p) = Gain(w, p)
      /\ \A p \in 2 .. l - 1 : SpeedCap(v, m + p) = SpeedCap(w, p)
  <2>1. m + l <= Len(v) /\ \A p \in 1 .. l : v[m + p] = w[p]
    BY <1>1, <1>2
  <2>2. Shares(v, w, m, l)
    BY <1>1, <1>2, <2>1 DEF Shares
  <2> QED
    BY <2>2, SameSpeeds
<1>10. ASSUME NEW p \in 1 .. Len(w)
       PROVE  /\ c[p] \in Nat /\ (p <= l => c[p] = b[m + p]) /\ (p >= l => c[p] = 0)
  <2>1. c[p] = IF p < l THEN b[m + p] ELSE 0
    OBVIOUS
  <2> HIDE DEF c
  <2>2. CASE p < l
    <3>1. p \in 1 .. l /\ ~(p >= l)
      BY <1>1, <2>2
    <3> QED
      BY <1>7, <2>1, <2>2, <3>1
  <2>3. CASE ~(p < l)
    <3>1. p <= l => p = l
      BY <1>1, <1>2, <2>3
    <3> QED
      BY <1>6, <2>1, <2>3, <3>1
  <2> QED
    BY <2>2, <2>3
<1>11. c \in [1 .. Len(w) -> Nat]
  <2>1. \A p \in 1 .. Len(w) : (IF p < l THEN b[m + p] ELSE 0) \in Nat
    BY <1>1, <1>2, <1>7
  <2> QED
    BY <2>1
<1> HIDE DEF c, seam
<1>12. ASSUME NEW p \in 1 .. Len(w)
       PROVE  c[p] <= SpeedCap(w, p)
  <2>1. SpeedCap(w, p) \in Nat
    BY CapIsNumber
  <2>2. CASE p >= l
    BY <1>10, <2>1, <2>2
  <2>3. CASE p = 1 /\ p < l
    <3>1. p \in 1 .. l /\ c[p] = b[m + p] /\ b[m + p] <= SpeedCap(v, m + p)
      BY <1>1, <1>5, <1>7, <1>10, <2>3
    <3>2. SpeedCap(v, m + p) <= SpeedLimit /\ SpeedCap(v, m + p) \in Nat /\ SpeedLimit \in Nat
      BY CapIsNumber, CapsAreLimited, WindowsAssumption
    <3>3. SpeedCap(w, p) = SpeedLimit
      <4>1. ~Moves(w, p - 1)
        BY <2>3 DEF Moves, Intervals
      <4> QED
        BY <4>1 DEF SpeedCap
    <3>4. c[p] \in Nat
      BY <1>10
    <3> QED
      BY <3>1, <3>2, <3>3, <3>4
  <2>4. CASE p # 1 /\ p < l
    <3>1. p \in 1 .. l /\ p \in 2 .. l - 1 /\ m + p \in 1 .. m + l
      BY <1>1, <1>7, <2>4
    <3>2. c[p] = b[m + p] /\ b[m + p] <= SpeedCap(v, m + p) /\ SpeedCap(v, m + p) = SpeedCap(w, p)
      BY <1>5, <1>9, <1>10, <2>4, <3>1
    <3> QED
      BY <3>2
  <2> QED
    BY <1>1, <2>2, <2>3, <2>4
<1>13. ASSUME NEW p \in 1 .. Len(w) - 1
       PROVE  c[p + 1] <= c[p] + Gain(w, p) /\ c[p] <= c[p + 1] + Gain(w, p)
  <2>1. p \in 1 .. Len(w) /\ p + 1 \in 1 .. Len(w)
    BY <1>2
  <2>2. Gain(w, p) \in Nat
    <3>1. Length(w, p) \in Nat /\ Acceleration \in Nat
      BY <1>2, LengthIsNumber, WindowsAssumption
    <3>2. \A a \in Nat, x \in Nat : 2 * a * x \in Nat
      OBVIOUS
    <3> QED
      BY <3>1, <3>2, Zenon DEF Gain
  <2>3. CASE p < l
    <3>1. p \in 1 .. l - 1 /\ p \in 1 .. l /\ p + 1 \in 1 .. l /\ m + p \in 1 .. (m + l) - 1 /\ (m + p) + 1 = m + (p + 1)
          /\ p <= l /\ p + 1 <= l
      BY <1>1, <2>3
    <3>2. c[p] = b[m + p] /\ c[p + 1] = b[(m + p) + 1] /\ Gain(w, p) = Gain(v, m + p)
      BY <1>9, <1>10, <2>1, <3>1
    <3> QED
      BY <1>5, <3>1, <3>2
  <2>4. CASE ~(p < l)
    <3>1. c[p] = 0 /\ c[p + 1] = 0
      BY <1>1, <1>10, <2>1, <2>4
    <3> QED
      BY <2>2, <3>1
  <2> QED
    BY <2>3, <2>4
<1>14. c[1] = seam /\ c[Len(w)] = 0
  <2>1. 1 \in 1 .. Len(w) /\ Len(w) \in 1 .. Len(w)
    BY <1>1, <1>2
  <2> QED
    BY <1>1, <1>2, <1>8, <1>10, <2>1
<1>15. Feasible(c, w, seam, 0)
  BY <1>8, <1>11, <1>12, <1>13, <1>14 DEF Feasible
<1>16. ForwardBackward(w, seam, 0)[1] = seam
  BY <1>2, <1>8, <1>14, <1>15, StartsAsEntered
<1> QED
  BY <1>3, <1>8, <1>16 DEF w

\* The goals of a path, but for the waypoints that start the later ones, make
\* the path again.
LEMMA GoalsMakePath ==
    ASSUME NEW w \in Seq(Places), w # <<>>, NEW gs, Sliced(gs, w), NEW n \in 0 .. Len(gs)
    PROVE  LET drawn == FlattenSeq([k \in 1 .. n |-> IF k = 1 THEN gs[k] ELSE Tail(gs[k])]) IN
           IsPrefix(drawn, w) /\ (n = Len(gs) => drawn = w)
<1> DEFINE ss == [k \in 1 .. n |-> IF k = 1 THEN gs[k] ELSE Tail(gs[k])]
           drawn == FlattenSeq(ss)
<1>1. PICK b : SlicedAt(gs, w, b)
  BY DEF Sliced
<1>2. /\ Len(gs) \in Nat \ {0} /\ n \in Nat /\ n <= Len(gs) /\ Len(w) \in Nat
      /\ \A k \in 1 .. Len(gs) + 1 : b[k] \in 1 .. Len(w)
      /\ b[1] = 1 /\ b[Len(gs) + 1] = Len(w)
      /\ \A k \in 1 .. Len(gs) : b[k] <= b[k + 1] /\ gs[k] = SubSeq(w, b[k], b[k + 1])
  BY <1>1, LenProperties, ElementOfSeq DEF SlicedAt
<1>3. CASE n = 0
  <2>1. ss = <<>>
    BY <1>3
  <2>2. drawn = <<>>
    BY <2>1 DEF FlattenSeq
  <2>3. SubSeq(<<>>, 1, 0) = <<>> /\ SubSeq(w, 1, 0) = <<>>
    BY SubSeqEmpty
  <2> QED
    BY <1>2, <1>3, <2>2, <2>3 DEF IsPrefix
<1>4. CASE n # 0
  <2>1. ASSUME NEW k \in 1 .. n
        PROVE  /\ k \in 1 .. Len(gs) /\ gs[k] \in Seq(Places) /\ gs[k] # <<>> /\ Tail(gs[k]) \in Seq(Places)
               /\ b[k] \in 1 .. Len(w) /\ b[k + 1] \in b[k] .. Len(w)
    <3>1. k \in 1 .. Len(gs) /\ k \in 1 .. Len(gs) + 1 /\ k + 1 \in 1 .. Len(gs) + 1
      BY <1>2
    <3>2. b[k] \in 1 .. Len(w) /\ b[k + 1] \in 1 .. Len(w) /\ b[k] <= b[k + 1]
      BY <1>2, <3>1
    <3>3. gs[k] \in Seq(Places) /\ gs[k] # <<>>
      BY <3>1, GoalIs
    <3> QED
      BY <1>2, <3>1, <3>2, <3>3, HeadTailProperties
  <2>2. ss \in Seq(Seq(Places)) /\ Len(ss) = n /\ ss # <<>>
    <3>1. \A k \in 1 .. n : (IF k = 1 THEN gs[k] ELSE Tail(gs[k])) \in Seq(Places)
      BY <2>1
    <3>2. ss \in Seq(Seq(Places)) /\ Len(ss) = n
      BY <1>2, <3>1
    <3> HIDE DEF ss
    <3> QED
      BY <1>4, <3>2, EmptySeq
  <2>3. PICK g \in [1 .. n -> Seq(Places)] :
           /\ \A i \in 1 .. n : g[i] = IF i = 1 THEN ss[1] ELSE g[i - 1] \o ss[i]
           /\ drawn = g[n]
    <3> HIDE DEF ss
    <3> QED
      BY <2>2, FlattenRuns
  <2> DEFINE T == {i \in 0 .. n : i # 0 => g[i] = SubSeq(w, 1, b[i + 1])}
  <2>4. \A i \in 0 .. n : i \in T
    <3>1. 0 \in T
      BY <1>2
    <3>2. ASSUME NEW i \in 1 .. n, i - 1 \in T
          PROVE  i \in T
      <4>1. i \in 0 .. n /\ i \in 1 .. Len(gs)
        BY <1>2
      <4>2. CASE i = 1
        <5>1. g[1] = gs[1] /\ gs[1] = SubSeq(w, b[1], b[1 + 1]) /\ b[1] = 1
          BY <1>2, <2>3, <4>1, <4>2
        <5> QED
          BY <4>1, <4>2, <5>1
      <4>3. CASE i # 1
        <5>1. g[i - 1] = SubSeq(w, 1, b[i]) /\ (i - 1) + 1 = i
          BY <3>2, <4>3
        <5>2. g[i] = g[i - 1] \o Tail(gs[i]) /\ gs[i] = SubSeq(w, b[i], b[i + 1])
          BY <1>2, <2>3, <4>1, <4>3
        <5>3. PICK l \in 1 .. Len(w), r \in 1 .. Len(w) : l = b[i] /\ r = b[i + 1] /\ r \in l .. Len(w)
          <6>1. b[i] \in 1 .. Len(w) /\ b[i + 1] \in b[i] .. Len(w)
            BY <2>1
          <6>2. b[i + 1] \in 1 .. Len(w)
            BY <1>2, <6>1
          <6> QED
            BY <6>1, <6>2
        <5>4. Tail(SubSeq(w, l, r)) = SubSeq(w, l + 1, r)
          BY <5>3, HeadTailOfSubSeq
        <5>5. SubSeq(w, 1, l) \o SubSeq(w, l + 1, r) = SubSeq(w, 1, r)
          <6>1. 1 \in 1 .. Len(w) + 1 /\ l \in 1 - 1 .. Len(w) /\ r \in l .. Len(w)
            BY <1>2, <5>3
          <6> QED
            BY <6>1, ConcatAdjacentSubSeq
        <5>6. g[i] = SubSeq(w, 1, r)
          BY <5>1, <5>2, <5>3, <5>4, <5>5
        <5> QED
          BY <4>1, <5>3, <5>6
      <4> QED
        BY <4>2, <4>3
    <3> HIDE DEF T
    <3> QED
      BY <1>2, <3>1, <3>2, UpTo
  <2>5. PICK r \in 1 .. Len(w) : r = b[n + 1] /\ drawn = SubSeq(w, 1, r)
    <3>1. n \in T
      BY <1>2, <2>4
    <3>2. n + 1 \in 1 .. Len(gs) + 1
      BY <1>2
    <3> QED
      BY <1>2, <1>4, <2>3, <3>1, <3>2
  <2> HIDE DEF drawn
  <2>6. drawn \in Seq(Places) /\ Len(drawn) = r
    <3>1. 1 \in Int /\ r \in Int /\ \A i \in 1 .. r : w[i] \in Places
      <4>1. \A i \in 1 .. r : i \in 1 .. Len(w)
        BY <1>2
      <4> QED
        BY <4>1, ElementOfSeq
    <3>2. SubSeq(w, 1, r) \in Seq(Places) /\ Len(SubSeq(w, 1, r)) = IF 1 <= r THEN r - 1 + 1 ELSE 0
      BY <3>1, SubSeqProperties
    <3> QED
      BY <2>5, <3>2
  <2>7. SubSeq(drawn, 1, Len(drawn)) = drawn
    BY <2>6, SubSeqFull
  <2>8. IsPrefix(drawn, w)
    BY <1>2, <2>5, <2>6, <2>7 DEF IsPrefix
  <2>9. n = Len(gs) => drawn = w
    BY <1>2, <2>5, SubSeqFull
  <2> QED
    BY <2>8, <2>9 DEF drawn
<1> QED
  BY <1>3, <1>4

-------------------------------------------------------------------------------
(* What the desk holds.                                                    *)

\* A set of scales has a largest.
LEMMA LargestScale ==
    ASSUME NEW T \in SUBSET Scales, T # {}
    PROVE  Max(T) \in T
<1> DEFINE n == Cardinality(T)
           Has(t) == \E m \in t : \A x \in t : x <= m
           U == {k \in 0 .. n : \A t \in SUBSET T : Cardinality(t) = k /\ t # {} => Has(t)}
<1>1. IsFiniteSet(T) /\ T \in SUBSET Nat
  BY InputAssumption, FS_Subset
<1>2. n \in Nat
  BY <1>1, FS_CardinalityType
<1>3. 0 \in U
  <2>1. \A t \in SUBSET T : Cardinality(t) = 0 => t = {}
    BY <1>1, FS_Subset, FS_EmptySet
  <2> QED
    BY <1>2, <2>1
<1>4. ASSUME NEW k \in 1 .. n, k - 1 \in U
      PROVE  k \in U
  <2>1. ASSUME NEW t \in SUBSET T, Cardinality(t) = k, t # {}
        PROVE  Has(t)
    <3>1. PICK x \in t : TRUE
      BY <2>1
    <3>2. t \ {x} \in SUBSET T /\ Cardinality(t \ {x}) = k - 1
      BY <1>1, <2>1, OneLess
    <3>3. CASE t \ {x} = {}
      <4>1. \A y \in t : y = x
        BY <3>3
      <4> QED
        BY <1>1, <4>1
    <3>4. CASE t \ {x} # {}
      <4>1. PICK m \in t \ {x} : \A y \in t \ {x} : y <= m
        BY <1>4, <3>2, <3>4
      <4>2. x \in Nat /\ m \in Nat /\ \A y \in t : y \in Nat
        BY <1>1
      <4>3. CASE x <= m
        BY <4>1, <4>3
      <4>4. CASE ~(x <= m)
        <5>1. \A y \in t : y <= x
          BY <4>1, <4>2, <4>4
        <5> QED
          BY <5>1
      <4> QED
        BY <4>3, <4>4
    <3> QED
      BY <3>3, <3>4
  <2> HIDE DEF Has
  <2>2. k \in 0 .. n
    BY <1>2
  <2> QED
    BY <2>1, <2>2
<1>5. n \in U
  <2>1. n \in 0 .. n
    BY <1>2
  <2> HIDE DEF U, n
  <2> QED
    BY <1>2, <1>3, <1>4, <2>1, UpTo
<1>6. PICK m \in T : \A x \in T : x <= m
  <2>1. Has(T)
    <3>1. T \in SUBSET T
      OBVIOUS
    <3> HIDE DEF Has
    <3> QED
      BY <1>5, <3>1
  <2> QED
    BY <2>1
<1> QED
  BY <1>1, <1>6 DEF Max

\* The recipes at hand: what is loaded is of the present board, and what was
\* saved is of some board.
Materials ==
    /\ plane \in Planes /\ savedRuns \in Seq(Runs)
    /\ \A recipe \in loaded :
          /\ recipe \in Recipes /\ recipe.segments # <<>>
          /\ recipe.anchor = EffectiveAnchor(plane) /\ recipe.plane_rotate = plane.yaw
    /\ \A recipe \in saved : \E board \in Planes : recipe = ToRecipeStructure(savedRuns, board)
    /\ \A recipe \in job : recipe \in Recipes /\ recipe.segments # <<>>

\* A load yields a recipe of the present board.
LEMMA LoadedIs ==
    ASSUME NEW recipe \in Recipes, NEW board \in Planes, NEW asked \in Int,
           NEW r \in Loaded(recipe, board, asked)
    PROVE  /\ r \in Recipes /\ r.segments # <<>> /\ r.segments = recipe.segments /\ r.rotate = recipe.rotate
           /\ r.anchor = EffectiveAnchor(board) /\ r.plane_rotate = board.yaw
           /\ r.scale \in EffectiveScale(recipe, asked)
<1>1. PICK s \in EffectiveScale(recipe, asked) :
        /\ recipe.segments # <<>>
        /\ r = [recipe EXCEPT !.anchor = EffectiveAnchor(board), !.plane_rotate = board.yaw, !.scale = s]
  BY DEF Loaded
<1>2. s \in Int
  <2>1. recipe.scale \in Int
    BY DEF Recipes
  <2>2. FittingScales(recipe) # {} => Max(FittingScales(recipe)) \in Int
    <3>1. FittingScales(recipe) \in SUBSET Scales
      BY DEF FittingScales
    <3>2. FittingScales(recipe) # {} => Max(FittingScales(recipe)) \in Scales
      BY <3>1, LargestScale
    <3>3. \A x \in Scales : x \in Int
      BY InputAssumption
    <3> QED
      BY <3>2, <3>3
  <2> QED
    BY <2>1, <2>2 DEF EffectiveScale
<1>3. /\ recipe.segments \in Seq(Segments) /\ recipe.rotate \in Int
      /\ recipe = [segments |-> recipe.segments, anchor |-> recipe.anchor,
                   plane_rotate |-> recipe.plane_rotate, rotate |-> recipe.rotate, scale |-> recipe.scale]
  BY DEF Recipes
<1>4. EffectiveAnchor(board) \in Places /\ board.yaw \in Int
  BY AnchorIs
<1>5. r = [segments |-> recipe.segments, anchor |-> EffectiveAnchor(board),
           plane_rotate |-> board.yaw, rotate |-> recipe.rotate, scale |-> s]
  BY <1>1, <1>3
<1> QED
  BY <1>1, <1>2, <1>3, <1>4, <1>5 DEF Recipes

\* What a name stands for is a recipe.
LEMMA ResolvedIs ==
    ASSUME Materials, NEW name \in DOMAIN Bundled \cup {SaveName}, NEW recipe \in Resolve(name)
    PROVE  recipe \in Recipes
<1>1. CASE recipe \in saved
  BY <1>1, RecipeIs DEF Materials
<1>2. CASE recipe \notin saved
  <2>1. name \in DOMAIN Bundled /\ recipe = Bundled[name]
    BY <1>2 DEF Resolve
  <2> QED
    BY <2>1, InputAssumption
<1> QED
  BY <1>1, <1>2

\* A job is of the recipes it was started with.
LEMMA StartTakes ==
    ASSUME NEW recipes, NEW by, StartJob(recipes, by), Materials,
           \A r \in recipes : r \in Recipes /\ r.segments # <<>>
    PROVE  Materials'
BY DEF StartJob, deskVars, Materials

\* Every step keeps the recipes at hand so.
LEMMA MaterialsKept ==
    ASSUME Materials, [Next]_vars
    PROVE  Materials'
<1>1. /\ plane \in Planes /\ savedRuns \in Seq(Runs)
      /\ \A recipe \in loaded :
            /\ recipe \in Recipes /\ recipe.segments # <<>>
            /\ recipe.anchor = EffectiveAnchor(plane) /\ recipe.plane_rotate = plane.yaw
      /\ \A recipe \in saved : \E board \in Planes : recipe = ToRecipeStructure(savedRuns, board)
      /\ \A recipe \in job : recipe \in Recipes /\ recipe.segments # <<>>
  BY DEF Materials
<1>2. ASSUME UNCHANGED deskVars, job' = job \/ job' = {}
      PROVE  Materials'
  BY <1>1, <1>2 DEF deskVars, Materials
<1>3. CASE SetPlane
  <2>1. /\ \E offset \in Offsets, yaw \in Yaws : plane' = Calibration(offset, yaw)
        /\ loaded' = {} /\ UNCHANGED <<saved, savedRuns, job>>
    BY <1>3 DEF SetPlane, senderVars
  <2>2. plane' \in Planes
    BY <2>1, BoardAssumption DEF Calibration, Planes
  <2> QED
    BY <1>1, <2>1, <2>2 DEF Materials
<1>4. CASE Save
  <2>1. PICK drawing \in Drawings :
          /\ savedRuns' = SubmittedRuns(drawing)
          /\ saved' = {ToRecipeStructure(SubmittedRuns(drawing), plane)}
    BY <1>4 DEF Save
  <2>2. UNCHANGED <<plane, loaded, job>>
    BY <1>4 DEF Save, senderVars
  <2>3. savedRuns' \in Seq(Runs)
    BY <2>1, SubmittedRunsAre
  <2>4. \A recipe \in saved' : recipe = ToRecipeStructure(savedRuns', plane)
    BY <2>1
  <2> QED
    BY <1>1, <2>2, <2>3, <2>4 DEF Materials
<1>5. CASE LoadRecipe
  <2>1. PICK name \in DOMAIN Bundled \cup {SaveName}, asked \in Scales \cup {Fit, Authored} :
          \E recipe \in Resolve(name) :
             loaded' = IF Loaded(recipe, plane, asked) # {} THEN Loaded(recipe, plane, asked) ELSE loaded
    BY <1>5 DEF LoadRecipe
  <2>2. PICK recipe \in Resolve(name) :
          loaded' = IF Loaded(recipe, plane, asked) # {} THEN Loaded(recipe, plane, asked) ELSE loaded
    BY <2>1
  <2>3. UNCHANGED <<plane, saved, savedRuns, job>>
    BY <1>5 DEF LoadRecipe, senderVars
  <2>4. recipe \in Recipes
    BY ResolvedIs
  <2>5. \A r \in loaded' :
           /\ r \in Recipes /\ r.segments # <<>>
           /\ r.anchor = EffectiveAnchor(plane) /\ r.plane_rotate = plane.yaw
    <3>1. \A r \in Loaded(recipe, plane, asked) :
             /\ r \in Recipes /\ r.segments # <<>>
             /\ r.anchor = EffectiveAnchor(plane) /\ r.plane_rotate = plane.yaw
      <4>1. asked \in Int
        BY InputAssumption DEF Fit, Authored
      <4> QED
        BY <1>1, <2>4, <4>1, LoadedIs
    <3> QED
      BY <1>1, <2>2, <3>1
  <2> QED
    BY <1>1, <2>3, <2>5 DEF Materials
<1>6. CASE ClearRecipe
  BY <1>1, <1>6 DEF ClearRecipe, senderVars, Materials
<1>7. CASE Execute
  <2>1. PICK drawing \in Drawings :
          /\ SubmittedRuns(drawing) # <<>>
          /\ StartJob({ToRecipeStructure(SubmittedRuns(drawing), plane)}, "streamed")
    BY <1>7 DEF Execute
  <2>2. /\ ToRecipeStructure(SubmittedRuns(drawing), plane) \in Recipes
        /\ ToRecipeStructure(SubmittedRuns(drawing), plane).segments # <<>>
    BY <1>1, <2>1, SubmittedRunsAre, RecipeIs
  <2> QED
    BY <2>1, <2>2, StartTakes
<1>8. CASE ExecuteRecipe
  <2>1. StartJob(loaded, "streamed")
    BY <1>8 DEF ExecuteRecipe
  <2> QED
    BY <1>1, <2>1, StartTakes
<1>9. CASE Replay
  <2>1. PICK by \in Senders, name \in DOMAIN Bundled \cup {SaveName} :
          \E recipe \in Resolve(name) : recipe.segments # <<>> /\ StartJob({recipe}, by)
    BY <1>9 DEF Replay
  <2>2. PICK recipe \in Resolve(name) : recipe.segments # <<>> /\ StartJob({recipe}, by)
    BY <2>1
  <2>3. recipe \in Recipes
    BY ResolvedIs
  <2> QED
    BY <2>2, <2>3, StartTakes
<1>10. CASE ReadyReached \/ AnchorReached \/ GoalPlanned \/ SendGoal \/ SendAtRest \/ Drained \/ Fails
  <2>1. UNCHANGED deskVars /\ job' = job
    BY <1>10 DEF ReadyReached, AnchorReached, GoalPlanned, SendGoal, SendAtRest, Drained, Fails, Moved, At
  <2> QED
    BY <1>2, <2>1
<1>11. CASE ResultArrives
  BY <1>2, <1>11 DEF ResultArrives
<1>12. CASE UNCHANGED vars
  BY <1>2, <1>12 DEF vars, senderVars
<1> QED
  BY <1>3, <1>4, <1>5, <1>6, <1>7, <1>8, <1>9, <1>10, <1>11, <1>12 DEF Next

-------------------------------------------------------------------------------
(* What a sender has sent.                                                 *)

\* What may follow a goal: nothing, or the next one.
Successors(gs, k) == {<<>>} \cup (IF k < Len(gs) THEN {gs[k + 1]} ELSE {})
\* A goal can be entered at a speed if its window's profile starts with it.
CanStart(goal, next, from) == ForwardBackward(Window(goal, next), from, 0)[1] = from
\* Goals as they are sent.
Sends == [path : Seq(Places), speeds : Seq(Nat)]

\* What follows a goal starts where it ends.
LEMMA SuccessorIs ==
    ASSUME NEW w \in Seq(Places), NEW gs, Sliced(gs, w), NEW k \in 1 .. Len(gs),
           NEW next \in Successors(gs, k)
    PROVE  /\ next \in Seq(Places)
           /\ next # <<>> => /\ k < Len(gs) /\ k + 1 \in 1 .. Len(gs) /\ next = gs[k + 1]
                             /\ gs[k][Len(gs[k])] = next[1]
<1>1. Len(gs) \in Nat
  BY DEF Sliced, SlicedAt
<1>2. CASE next = <<>>
  BY <1>2, EmptySeq
<1>3. CASE next # <<>>
  <2>1. k < Len(gs) /\ next = gs[k + 1]
    BY <1>3 DEF Successors
  <2>2. k + 1 \in 1 .. Len(gs)
    BY <1>1, <2>1
  <2> QED
    BY <2>1, <2>2, GoalIs
<1> QED
  BY <1>2, <1>3

\* A goal's speeds are numbers, and without a successor the last of them is 0.
LEMMA RetimeIs ==
    ASSUME NEW goal \in Seq(Places), goal # <<>>, NEW next \in Seq(Places), NEW from \in Nat,
           next # <<>> => goal[Len(goal)] = next[1]
    PROVE  /\ RetimeGoalWindow(goal, next, from) \in Seq(Nat)
           /\ next = <<>> => RetimeGoalWindow(goal, next, from)[Len(goal)] = 0
<1> DEFINE w == Window(goal, next)
           b == ForwardBackward(w, from, 0)
<1>1. w \in Seq(Places) /\ w # <<>> /\ (next = <<>> => w = goal)
  BY WindowIs
<1> HIDE DEF w
<1>2. Feasible(b, w, from, 0) /\ Len(w) \in Nat /\ Len(w) >= 1
  BY <1>1, FastestProfile, EmptySeq
<1> HIDE DEF b
<1>3. b \in [1 .. Len(w) -> Nat] /\ b[Len(w)] <= 0
  BY <1>2 DEF Feasible
<1>4. b[Len(w)] \in Nat
  BY <1>2, <1>3
<1>5. b[Len(w)] = 0
  BY <1>3, <1>4
<1>6. b \in Seq(Nat)
  BY <1>2, <1>3, SeqDef
<1>7. RetimeGoalWindow(goal, next, from) = b
  BY DEF RetimeGoalWindow, b, w
<1> QED
  BY <1>1, <1>5, <1>6, <1>7

\* From rest a goal can start, whatever follows it.
LEMMA RestStarts ==
    ASSUME NEW w \in Seq(Places), NEW gs, Sliced(gs, w), NEW k \in 1 .. Len(gs),
           NEW next \in Successors(gs, k)
    PROVE  CanStart(gs[k], next, 0)
<1>1. gs[k] \in Seq(Places) /\ gs[k] # <<>>
  BY GoalIs
<1>2. next \in Seq(Places) /\ (next # <<>> => gs[k][Len(gs[k])] = next[1])
  BY SuccessorIs
<1>3. Window(gs[k], next) \in Seq(Places) /\ Window(gs[k], next) # <<>>
  BY <1>1, <1>2, WindowIs
<1> QED
  BY <1>3, StartsAtRest DEF CanStart

\* One goal ends where the next starts, and the same if there is a next.
Joined(goal, next) == goal # <<>> /\ next # <<>> /\ goal[Len(goal)] = next[1]
Follows(goal, next) == next # <<>> => goal[Len(goal)] = next[1]

\* With the speed of the seam the next goal can start, and then come to rest.
LEMMA SeamCanStart ==
    ASSUME NEW goal \in Seq(Places), NEW next \in Seq(Places), Joined(goal, next), NEW from \in Nat,
           NEW after \in Seq(Places), Follows(next, after)
    PROVE  SeamSpeed(goal, next, from) \in Nat /\ CanStart(next, after, SeamSpeed(goal, next, from))
<1>1. goal # <<>> /\ next # <<>> /\ goal[Len(goal)] = next[1] /\ (after # <<>> => next[Len(next)] = after[1])
  BY DEF Joined, Follows
<1> QED
  BY <1>1, SeamIs DEF CanStart

\* With that speed it can start whatever follows it.
LEMMA SeamStarts ==
    ASSUME NEW w \in Seq(Places), NEW gs, Sliced(gs, w), NEW k \in 1 .. Len(gs), k < Len(gs),
           NEW from \in Nat
    PROVE  /\ SeamSpeed(gs[k], gs[k + 1], from) \in Nat /\ k + 1 \in 1 .. Len(gs)
           /\ \A next \in Successors(gs, k + 1) : CanStart(gs[k + 1], next, SeamSpeed(gs[k], gs[k + 1], from))
<1>1. k + 1 \in 1 .. Len(gs)
  BY DEF Sliced, SlicedAt
<1>2. gs[k] \in Seq(Places) /\ gs[k + 1] \in Seq(Places) /\ Joined(gs[k], gs[k + 1])
  BY <1>1, GoalIs DEF Joined
<1>3. \A next \in Successors(gs, k + 1) : next \in Seq(Places) /\ Follows(gs[k + 1], next)
  BY <1>1, SuccessorIs DEF Follows
<1>4. <<>> \in Successors(gs, k + 1)
  BY DEF Successors
<1>5. \A next \in Successors(gs, k + 1) :
         /\ SeamSpeed(gs[k], gs[k + 1], from) \in Nat
         /\ CanStart(gs[k + 1], next, SeamSpeed(gs[k], gs[k + 1], from))
  BY <1>2, <1>3, SeamCanStart
<1> QED
  BY <1>1, <1>4, <1>5

\* What a sender has sent, and what it has yet to send.
Sending ==
    /\ stage \in {"idle", "ready", "anchor", "plan", "send", "drain", "succeeded", "failed"}
    /\ path \in Seq(Places) /\ sent \in Seq(Sends)
    /\ entry \in Nat /\ (sender # "streamed" => entry = 0)
    /\ path = <<>> => sent = <<>> /\ stage \in {"idle", "ready", "anchor", "failed"}
    /\ stage \in {"idle", "ready", "anchor"} => path = <<>> /\ sent = <<>> /\ entry = 0
    /\ path # <<>> =>
          /\ Sliced(goals, path) /\ Len(sent) <= Len(goals)
          /\ \A k \in 1 .. Len(sent) : sent[k].path = goals[k]
    /\ stage \in {"plan", "send"} =>
          /\ Len(sent) < Len(goals)
          /\ \A next \in Successors(goals, Len(sent) + 1) : CanStart(goals[Len(sent) + 1], next, entry)
    /\ stage \in {"drain", "succeeded"} =>
          /\ sent # <<>> /\ Last(sent).speeds[Len(Last(sent).path)] = 0
          /\ sender = "streamed" \/ Len(sent) = Len(goals)

\* A job starts with nothing sent.
LEMMA StartSends ==
    ASSUME NEW recipes, NEW by, StartJob(recipes, by)
    PROVE  Sending'
<1>1. path' = <<>> /\ sent' = <<>> /\ entry' = 0 /\ stage' = "ready"
  BY DEF StartJob
<1> QED
  BY <1>1, EmptySeq DEF Sending

\* At the anchor the path is built and cut.
LEMMA AnchorSends ==
    ASSUME Sending, Materials, AnchorReached
    PROVE  Sending'
<1>1. PICK recipe \in job :
        /\ path' = BuildWaypoints(recipe)
        /\ goals' = IF sender = "monolithic" THEN <<path'>>
                    ELSE SliceGoals(path', SplitCuts(path', SegmentStarts(recipe)))
  BY DEF AnchorReached
<1>2. /\ stage = "anchor" /\ stage' = "plan"
      /\ UNCHANGED <<sender, sent, entry>>
  BY DEF AnchorReached, At
<1>3. sent = <<>> /\ entry = 0
  BY <1>2 DEF Sending
<1>4. recipe \in Recipes /\ recipe.segments # <<>>
  BY DEF Materials
<1>5. path' \in Seq(Places) /\ path' # <<>>
  BY <1>1, <1>4, WaypointsAre
<1>6. Sliced(goals', path')
  <2>1. CASE sender = "monolithic"
    BY <1>1, <1>5, <2>1, WholeIsSliced
  <2>2. CASE sender # "monolithic"
    <3>1. SegmentStarts(recipe) \in SUBSET (1 .. Len(path')) /\ SegmentStarts(recipe) # {}
      BY <1>1, <1>4, StartsAre
    <3>2. SplitCuts(path', SegmentStarts(recipe)) \in Cuts(Len(path'))
      BY <1>5, <3>1, CutsAre
    <3> QED
      BY <1>1, <1>5, <2>2, <3>2, SlicesAre
  <2> QED
    BY <2>1, <2>2
<1>7. Len(goals') \in Nat \ {0} /\ Len(sent') = 0
  BY <1>2, <1>3, <1>6 DEF Sliced, SlicedAt
<1>8. \A next \in Successors(goals', Len(sent') + 1) : CanStart(goals'[Len(sent') + 1], next, entry')
  <2>1. 1 \in 1 .. Len(goals') /\ Len(sent') + 1 = 1 /\ entry' = 0
    BY <1>2, <1>3, <1>7
  <2>2. \A next \in Successors(goals', 1) : CanStart(goals'[1], next, 0)
    BY <1>5, <1>6, <2>1, RestStarts
  <2> QED
    BY <2>1, <2>2
<1>9. sent' = <<>> /\ sent' \in Seq(Sends) /\ entry' = 0 /\ entry' \in Nat /\ \A k \in 1 .. Len(sent') : FALSE
  BY <1>2, <1>3, <1>7, EmptySeq
<1>10. Len(sent') <= Len(goals') /\ Len(sent') < Len(goals')
  BY <1>7
<1> QED
  BY <1>2, <1>5, <1>6, <1>8, <1>9, <1>10 DEF Sending

\* What one more goal does to what has been sent.
LEMMA OneMore ==
    ASSUME Sending, stage \in {"plan", "send"}, NEW speeds \in Seq(Nat),
           sent' = Append(sent, [path |-> goals[Len(sent) + 1], speeds |-> speeds])
    PROVE  /\ path # <<>> /\ Sliced(goals, path) /\ Len(goals) \in Nat /\ Len(sent) \in Nat
           /\ Len(sent) + 1 \in 1 .. Len(goals)
           /\ sent' \in Seq(Sends) /\ sent' # <<>> /\ Len(sent') = Len(sent) + 1
           /\ \A k \in 1 .. Len(sent') : sent'[k].path = goals[k]
           /\ Last(sent').path = goals[Len(sent) + 1] /\ Last(sent').speeds = speeds
<1> DEFINE more == [path |-> goals[Len(sent) + 1], speeds |-> speeds]
<1>1. /\ path # <<>> /\ path \in Seq(Places) /\ sent \in Seq(Sends) /\ Sliced(goals, path)
      /\ Len(sent) < Len(goals)
      /\ \A k \in 1 .. Len(sent) : sent[k].path = goals[k]
  BY DEF Sending
<1>2. Len(goals) \in Nat /\ Len(sent) \in Nat /\ Len(sent) + 1 \in 1 .. Len(goals)
  BY <1>1, LenProperties DEF Sliced, SlicedAt
<1>3. more \in Sends
  BY <1>1, <1>2, GoalIs DEF Sends
<1>4. more.path = goals[Len(sent) + 1] /\ more.speeds = speeds /\ sent' = Append(sent, more)
  OBVIOUS
<1> HIDE DEF more
<1>5. /\ sent' \in Seq(Sends) /\ sent' # <<>> /\ Len(sent') = Len(sent) + 1
      /\ \A i \in 1 .. Len(sent) : sent'[i] = sent[i]
      /\ sent'[Len(sent) + 1] = more
  <2>1. PICK s \in Seq(Sends) : s = sent
    BY <1>1
  <2>2. /\ Append(s, more) \in Seq(Sends) /\ Append(s, more) # <<>> /\ Len(Append(s, more)) = Len(s) + 1
        /\ \A i \in 1 .. Len(s) : Append(s, more)[i] = s[i]
        /\ Append(s, more)[Len(s) + 1] = more
    BY <1>3, AppendProperties
  <2> QED
    BY <1>4, <2>1, <2>2
<1>6. ASSUME NEW k \in 1 .. Len(sent')
      PROVE  sent'[k].path = goals[k]
  <2>1. k \in 1 .. Len(sent) \/ k = Len(sent) + 1
    BY <1>2, <1>5
  <2> QED
    BY <1>1, <1>4, <1>5, <2>1
<1>7. Last(sent') = more
  BY <1>5 DEF Last
<1> QED
  BY <1>1, <1>2, <1>4, <1>5, <1>6, <1>7

\* The streamed sender sends a goal.
LEMMA SendGoalSends ==
    ASSUME Sending, SendGoal
    PROVE  Sending'
<1> DEFINE k == Len(sent) + 1
           goal == goals[k]
<1>1. PICK next \in Successors(goals, k) :
        /\ sender = "streamed"
        /\ At("send", IF next = <<>> THEN "drain" ELSE "send")
        /\ sent' = Append(sent, [path |-> goal, speeds |-> RetimeGoalWindow(goal, next, entry)])
        /\ entry' = SeamSpeed(goal, next, entry)
        /\ UNCHANGED <<path, goals>>
  BY DEF SendGoal, Successors
<1>2. /\ stage = "send" /\ stage' = IF next = <<>> THEN "drain" ELSE "send"
      /\ sender' = "streamed" /\ path' = path /\ goals' = goals
  BY <1>1 DEF At
<1>3. /\ path \in Seq(Places) /\ entry \in Nat
      /\ path # <<>> /\ Sliced(goals, path) /\ Len(sent) < Len(goals)
  BY <1>2 DEF Sending
<1>4. Len(goals) \in Nat /\ Len(sent) \in Nat /\ k \in 1 .. Len(goals)
  <2>1. sent \in Seq(Sends)
    BY DEF Sending
  <2> QED
    BY <1>3, <2>1, LenProperties DEF Sliced, SlicedAt
<1>5. goal \in Seq(Places) /\ goal # <<>>
  BY <1>3, <1>4, GoalIs
<1>6. /\ next \in Seq(Places)
      /\ next # <<>> => /\ k < Len(goals) /\ k + 1 \in 1 .. Len(goals) /\ next = goals[k + 1]
                        /\ goal[Len(goal)] = next[1]
  BY <1>3, <1>4, SuccessorIs
<1> DEFINE speeds == RetimeGoalWindow(goal, next, entry)
<1>7. speeds \in Seq(Nat) /\ (next = <<>> => speeds[Len(goal)] = 0)
  BY <1>3, <1>5, <1>6, RetimeIs
<1>8. SeamSpeed(goal, next, entry) = speeds[Len(goal)]
  BY DEF SeamSpeed
<1>9. sent' = Append(sent, [path |-> goals[Len(sent) + 1], speeds |-> speeds]) /\ stage \in {"plan", "send"}
  BY <1>1, <1>2
<1> HIDE DEF speeds
<1>10. /\ sent' \in Seq(Sends) /\ sent' # <<>> /\ Len(sent') = Len(sent) + 1
       /\ \A j \in 1 .. Len(sent') : sent'[j].path = goals[j]
       /\ Last(sent').path = goals[Len(sent) + 1] /\ Last(sent').speeds = speeds
  BY <1>7, <1>9, OneMore
<1>11. Len(sent') <= Len(goals')
  BY <1>2, <1>4, <1>10
<1>12. CASE next = <<>>
  <2>1. stage' = "drain" /\ entry' \in Nat
    BY <1>1, <1>2, <1>7, <1>8, <1>12
  <2>2. Last(sent').speeds[Len(Last(sent').path)] = 0
    BY <1>7, <1>10, <1>12
  <2> QED
    BY <1>2, <1>3, <1>10, <1>11, <2>1, <2>2 DEF Sending
<1>13. CASE next # <<>>
  <2>1. stage' = "send" /\ next = goals[k + 1] /\ k < Len(goals)
    BY <1>2, <1>6, <1>13
  <2>2. /\ entry' \in Nat
        /\ \A after \in Successors(goals, k + 1) : CanStart(goals[k + 1], after, entry')
    BY <1>1, <1>3, <1>4, <2>1, SeamStarts
  <2>3. Len(sent') = k
    BY <1>10
  <2> HIDE DEF k, goal
  <2> QED
    BY <1>2, <1>3, <1>10, <1>11, <2>1, <2>2, <2>3 DEF Sending
<1> QED
  BY <1>12, <1>13

\* A sender that brings every goal to rest sends one.
LEMMA SendAtRestSends ==
    ASSUME Sending, SendAtRest
    PROVE  Sending'
<1> DEFINE k == Len(sent) + 1
           goal == goals[k]
           speeds == RetimeGoalWindow(goal, <<>>, 0)
<1>1. /\ sender # "streamed"
      /\ At("send", IF k = Len(goals) THEN "drain" ELSE "plan")
      /\ sent' = Append(sent, [path |-> goal, speeds |-> speeds])
      /\ UNCHANGED <<path, goals, entry>>
  BY DEF SendAtRest
<1>2. /\ stage = "send" /\ stage' = IF k = Len(goals) THEN "drain" ELSE "plan"
      /\ sender' = sender /\ path' = path /\ goals' = goals /\ entry' = entry
  BY <1>1 DEF At
<1>3. /\ path \in Seq(Places) /\ entry = 0 /\ sent \in Seq(Sends)
      /\ path # <<>> /\ Sliced(goals, path) /\ Len(sent) < Len(goals)
  BY <1>1, <1>2 DEF Sending
<1>4. Len(goals) \in Nat /\ Len(sent) \in Nat /\ k \in 1 .. Len(goals)
  BY <1>3, LenProperties DEF Sliced, SlicedAt
<1>5. goal \in Seq(Places) /\ goal # <<>>
  BY <1>3, <1>4, GoalIs
<1>6. speeds \in Seq(Nat) /\ speeds[Len(goal)] = 0
  BY <1>5, RetimeIs, EmptySeq
<1>7. sent' = Append(sent, [path |-> goals[Len(sent) + 1], speeds |-> speeds]) /\ stage \in {"plan", "send"}
  BY <1>1, <1>2
<1> HIDE DEF speeds
<1>8. /\ sent' \in Seq(Sends) /\ sent' # <<>> /\ Len(sent') = Len(sent) + 1
      /\ \A j \in 1 .. Len(sent') : sent'[j].path = goals[j]
      /\ Last(sent').path = goals[Len(sent) + 1] /\ Last(sent').speeds = speeds
  BY <1>6, <1>7, OneMore
<1>9. Len(sent') <= Len(goals')
  BY <1>2, <1>4, <1>8
<1>10. CASE k = Len(goals)
  <2>1. stage' = "drain" /\ Len(sent') = Len(goals') /\ entry' = 0 /\ entry' \in Nat
    BY <1>2, <1>3, <1>8, <1>10
  <2>2. Last(sent').speeds[Len(Last(sent').path)] = 0
    BY <1>6, <1>8
  <2> QED
    BY <1>2, <1>3, <1>8, <1>9, <2>1, <2>2 DEF Sending
<1>11. CASE k # Len(goals)
  <2>1. stage' = "plan" /\ entry' = 0 /\ entry' \in Nat
    BY <1>2, <1>3, <1>11
  <2>2. Len(sent') < Len(goals') /\ Len(sent') = k /\ k + 1 \in 1 .. Len(goals)
    BY <1>2, <1>4, <1>8, <1>11
  <2>3. \A next \in Successors(goals, k + 1) : CanStart(goals[k + 1], next, 0)
    BY <1>3, <2>2, RestStarts
  <2> HIDE DEF k, goal
  <2> QED
    BY <1>2, <1>3, <1>8, <1>9, <2>1, <2>2, <2>3 DEF Sending
<1> QED
  BY <1>10, <1>11

\* A step that moves the stage alone keeps what has been sent, if it does not
\* claim more than the stage it leaves.
LEMMA StageMoves ==
    ASSUME Sending, path' = path /\ goals' = goals /\ sent' = sent /\ entry' = entry /\ sender' = sender,
           \/ stage' \in {stage, "failed"}
           \/ <<stage, stage'>> \in {<<"ready", "anchor">>, <<"plan", "send">>, <<"drain", "succeeded">>}
    PROVE  Sending'
BY DEF Sending

\* Sending is kept by every step.
LEMMA SendingKept ==
    ASSUME Sending, Materials, [Next]_vars
    PROVE  Sending'
<1>1. CASE SetPlane \/ Save \/ LoadRecipe \/ ClearRecipe
  <2>1. path' = path /\ goals' = goals /\ sent' = sent /\ entry' = entry /\ sender' = sender /\ stage' = stage
    BY <1>1 DEF SetPlane, Save, LoadRecipe, ClearRecipe, senderVars
  <2> QED
    BY <2>1, StageMoves
<1>2. CASE Execute \/ ExecuteRecipe \/ Replay
  <2>1. \E recipes, by : StartJob(recipes, by)
    BY <1>2 DEF Execute, ExecuteRecipe, Replay
  <2> QED
    BY <2>1, StartSends
<1>3. CASE ReadyReached \/ GoalPlanned \/ Drained
  <2>1. /\ path' = path /\ goals' = goals /\ sent' = sent /\ entry' = entry /\ sender' = sender
        /\ <<stage, stage'>> \in {<<"ready", "anchor">>, <<"plan", "send">>, <<"drain", "succeeded">>}
    <3>1. CASE ReadyReached
      BY <3>1 DEF ReadyReached, Moved, At
    <3>2. CASE GoalPlanned
      BY <3>2 DEF GoalPlanned, Moved, At
    <3>3. CASE Drained
      BY <3>3 DEF Drained, Moved, At
    <3> QED
      BY <1>3, <3>1, <3>2, <3>3
  <2> QED
    BY <2>1, StageMoves
<1>4. CASE Fails
  <2>1. path' = path /\ goals' = goals /\ sent' = sent /\ entry' = entry /\ sender' = sender /\ stage' = "failed"
    BY <1>4 DEF Fails, Moved, At
  <2> QED
    BY <2>1, StageMoves
<1>5. CASE AnchorReached
  BY <1>5, AnchorSends
<1>6. CASE SendGoal
  BY <1>6, SendGoalSends
<1>7. CASE SendAtRest
  BY <1>7, SendAtRestSends
<1>8. CASE ResultArrives
  <2>1. path' = <<>> /\ sent' = <<>> /\ entry' = 0 /\ stage' = "idle"
    BY <1>8 DEF ResultArrives
  <2> QED
    BY <2>1, EmptySeq DEF Sending
<1>9. CASE UNCHANGED vars
  <2>1. path' = path /\ goals' = goals /\ sent' = sent /\ entry' = entry /\ sender' = sender /\ stage' = stage
    BY <1>9 DEF vars, senderVars
  <2> QED
    BY <2>1, StageMoves
<1> QED
  BY <1>1, <1>2, <1>3, <1>4, <1>5, <1>6, <1>7, <1>8, <1>9 DEF Next

\* What the desk holds and what a sender has sent.
DeskHolds == Materials /\ Sending

\* It is so in every behaviour: the strengthening the properties follow from.
THEOREM DeskInvariant ==
    Spec => []DeskHolds
<1>1. Init => DeskHolds
  <2> SUFFICES ASSUME Init
               PROVE  DeskHolds
    OBVIOUS
  <2>1. plane \in Planes
    <3>1. <<0, 0>> \in Points
      BY PointIs
    <3> QED
      BY <3>1 DEF Init, Uncalibrated, Calibration, Planes
  <2>2. Materials
    BY <2>1, EmptySeq DEF Init, Materials
  <2>3. Sending
    BY EmptySeq DEF Init, Sending
  <2> QED
    BY <2>2, <2>3 DEF DeskHolds
<1>2. DeskHolds /\ [Next]_vars => DeskHolds'
  BY MaterialsKept, SendingKept DEF DeskHolds
<1> QED
  BY <1>1, <1>2, PTL DEF Spec

-------------------------------------------------------------------------------
(* What a sender promises.                                                 *)

\* What has been sent, but for the waypoints that start the later goals, is a
\* beginning of the path.
LEMMA SentPathIs ==
    ASSUME Sending, path # <<>>
    PROVE  IsPrefix(SentPath, path) /\ (Len(sent) = Len(goals) => SentPath = path)
<1>1. /\ path \in Seq(Places) /\ sent \in Seq(Sends) /\ Sliced(goals, path) /\ Len(sent) <= Len(goals)
      /\ \A k \in 1 .. Len(sent) : sent[k].path = goals[k]
  BY DEF Sending
<1>2. PICK n \in 0 .. Len(goals) : n = Len(sent) /\ DOMAIN sent = 1 .. n
  <2>1. Len(goals) \in Nat /\ Len(sent) \in Nat /\ DOMAIN sent = 1 .. Len(sent)
    BY <1>1, LenProperties DEF Sliced, SlicedAt
  <2>2. Len(sent) \in 0 .. Len(goals)
    BY <1>1, <2>1
  <2> QED
    BY <2>1, <2>2
<1>3. [k \in DOMAIN sent |-> IF k = 1 THEN sent[k].path ELSE Tail(sent[k].path)]
         = [k \in 1 .. n |-> IF k = 1 THEN goals[k] ELSE Tail(goals[k])]
  BY <1>1, <1>2
<1>4. SentPath = FlattenSeq([k \in 1 .. n |-> IF k = 1 THEN goals[k] ELSE Tail(goals[k])])
  BY <1>3 DEF SentPath
<1>5. LET drawn == FlattenSeq([k \in 1 .. n |-> IF k = 1 THEN goals[k] ELSE Tail(goals[k])]) IN
      IsPrefix(drawn, path) /\ (n = Len(goals) => drawn = path)
  BY <1>1, GoalsMakePath
<1> QED
  BY <1>2, <1>4, <1>5

\* The goals sent follow the path: each starts where the one before ended, a
\* chain that is closed ends at rest, and only the streamed sender reports
\* success for less than the whole path.
THEOREM SentGoalsFollowPath ==
    Spec => []SentFollowsPath
<1>1. ASSUME DeskHolds
      PROVE  SentFollowsPath
  <2> SUFFICES ASSUME path # <<>>
               PROVE  /\ IsPrefix(SentPath, path)
                      /\ \A k \in DOMAIN sent : k > 1 => Last(sent[k - 1].path) = Head(sent[k].path)
                      /\ stage \in {"drain", "succeeded"} =>
                            /\ Last(sent).speeds[Len(Last(sent).path)] = 0
                            /\ sender = "streamed" \/ SentPath = path
    BY DEF SentFollowsPath
  <2>1. Sending
    BY <1>1 DEF DeskHolds
  <2>2. /\ path \in Seq(Places) /\ sent \in Seq(Sends) /\ Sliced(goals, path) /\ Len(sent) <= Len(goals)
        /\ \A k \in 1 .. Len(sent) : sent[k].path = goals[k]
    BY <2>1 DEF Sending
  <2>3. IsPrefix(SentPath, path) /\ (Len(sent) = Len(goals) => SentPath = path)
    BY <2>1, SentPathIs
  <2>4. Len(goals) \in Nat /\ Len(sent) \in Nat /\ DOMAIN sent = 1 .. Len(sent)
    BY <2>2, LenProperties DEF Sliced, SlicedAt
  <2>5. ASSUME NEW k \in DOMAIN sent, k > 1
        PROVE  Last(sent[k - 1].path) = Head(sent[k].path)
    <3>1. k \in 1 .. Len(sent) /\ k - 1 \in 1 .. Len(sent) /\ k - 1 \in 1 .. Len(goals) /\ (k - 1) + 1 = k
          /\ k \in 1 .. Len(goals)
      BY <2>2, <2>4, <2>5
    <3>2. sent[k - 1].path = goals[k - 1] /\ sent[k].path = goals[k]
      BY <2>2, <3>1
    <3>3. goals[k - 1][Len(goals[k - 1])] = goals[(k - 1) + 1][1]
      BY <2>2, <3>1, GoalIs
    <3>4. goals[k] \in Seq(Places) /\ goals[k] # <<>>
      BY <2>2, <3>1, GoalIs
    <3>5. Head(goals[k]) = goals[k][1]
      BY <3>4
    <3> QED
      BY <3>1, <3>2, <3>3, <3>5 DEF Last
  <2>6. stage \in {"drain", "succeeded"} =>
           /\ Last(sent).speeds[Len(Last(sent).path)] = 0
           /\ sender = "streamed" \/ Len(sent) = Len(goals)
    BY <2>1 DEF Sending
  <2> QED
    BY <2>3, <2>5, <2>6
<1> QED
  BY <1>1, DeskInvariant, PTL

\* A goal starts at the speed the one before it ended with, whether or not the
\* goal after it can be planned.
THEOREM SeamSpeedFeasible ==
    Spec => []SeamSpeedIsFeasible
<1>1. ASSUME DeskHolds
      PROVE  SeamSpeedIsFeasible
  <2> SUFFICES ASSUME stage = "send",
                      NEW next \in {<<>>} \cup {goals[j] : j \in DOMAIN goals \cap {Len(sent) + 1 + 1}}
               PROVE  ForwardBackward(Window(goals[Len(sent) + 1], next), entry, 0)[1] = entry
    BY DEF SeamSpeedIsFeasible
  <2>1. /\ path # <<>> /\ path \in Seq(Places) /\ sent \in Seq(Sends) /\ Sliced(goals, path) /\ Len(sent) < Len(goals)
        /\ \A after \in Successors(goals, Len(sent) + 1) : CanStart(goals[Len(sent) + 1], after, entry)
    BY <1>1 DEF DeskHolds, Sending
  <2>2. Len(goals) \in Nat /\ Len(sent) \in Nat /\ DOMAIN goals = 1 .. Len(goals)
    BY <2>1, LenProperties DEF Sliced, SlicedAt
  <2>3. next \in Successors(goals, Len(sent) + 1)
    <3>1. CASE next = <<>>
      BY <3>1 DEF Successors
    <3>2. CASE next # <<>>
      <4>1. next = goals[Len(sent) + 1 + 1] /\ Len(sent) + 1 + 1 \in 1 .. Len(goals)
        BY <2>2, <3>2
      <4>2. Len(sent) + 1 < Len(goals)
        BY <2>2, <4>1
      <4> QED
        BY <4>1, <4>2 DEF Successors
    <3> QED
      BY <3>1, <3>2
  <2> QED
    BY <2>1, <2>3 DEF CanStart
<1> QED
  BY <1>1, DeskInvariant, PTL

\* The profile of the goal in hand is the fastest there is.
THEOREM ProfileFastest ==
    Spec => []ProfileIsFastest
<1>1. ASSUME DeskHolds
      PROVE  ProfileIsFastest
  <2> DEFINE k == Len(sent) + 1
             window == Window(goals[k], IF k < Len(goals) THEN goals[k + 1] ELSE <<>>)
  <2> SUFFICES ASSUME stage = "send", NEW p \in 1 .. Len(window)
               PROVE  ForwardBackward(window, entry, 0)[p]
                         = Min({LimitAt(window, entry, q) + 2 * Acceleration * Between(window, p, q) :
                                   q \in 1 .. Len(window)})
    BY DEF ProfileIsFastest, LimitAt, Between
  <2>1. /\ path # <<>> /\ path \in Seq(Places) /\ sent \in Seq(Sends) /\ Sliced(goals, path) /\ Len(sent) < Len(goals)
        /\ entry \in Nat
    BY <1>1 DEF DeskHolds, Sending
  <2>2. Len(goals) \in Nat /\ Len(sent) \in Nat /\ k \in 1 .. Len(goals)
    <3>1. Len(goals) \in Nat /\ Len(sent) \in Nat
      BY <2>1, LenProperties DEF Sliced, SlicedAt
    <3> QED
      BY <2>1, <3>1
  <2> DEFINE next == IF k < Len(goals) THEN goals[k + 1] ELSE <<>>
  <2>3. next \in Successors(goals, k)
    BY DEF Successors
  <2>4. goals[k] \in Seq(Places) /\ goals[k] # <<>>
    BY <2>1, <2>2, GoalIs
  <2>5. next \in Seq(Places) /\ (next # <<>> => goals[k][Len(goals[k])] = next[1])
    BY <2>1, <2>2, <2>3, SuccessorIs
  <2>6. window \in Seq(Places) /\ window # <<>>
    <3> HIDE DEF next
    <3>1. Window(goals[k], next) \in Seq(Places) /\ Window(goals[k], next) # <<>>
      BY <2>4, <2>5, WindowIs
    <3> QED
      BY <3>1 DEF next
  <2> HIDE DEF window
  <2> QED
    BY <2>1, <2>6, ProfileIsLeast
<1> QED
  BY <1>1, DeskInvariant, PTL

-------------------------------------------------------------------------------
(* What is previewed, and what is drawn.                                   *)

\* Two coordinates and a number of quarter turns.
Whole(x, y, t) == x \in Int /\ y \in Int /\ t \in Int

\* A quarter turn swaps the coordinates and changes a sign.
Turn(x, y, r) ==
    CASE r = 0 -> <<x, y>> [] r = 1 -> <<-y, x>> [] r = 2 -> <<-x, -y>> [] r = 3 -> <<y, -x>>

\* A rotation is by the quarter turns that are left of whole ones.
LEMMA QuarterTurns ==
    ASSUME NEW x, NEW y, NEW t, Whole(x, y, t)
    PROVE  RotateInPlane(<<x, y>>, t) = Turn(x, y, t % 4)
<1>1. x \in Int /\ y \in Int /\ t \in Int
  BY DEF Whole
<1>2. t % 4 \in 0 .. 3
  BY <1>1
<1>3. RotateInPlane(<<x, y>>, t) = <<x * Cosine(t) - y * Sine(t), x * Sine(t) + y * Cosine(t)>>
  BY DEF RotateInPlane
<1>4. CASE t % 4 = 0
  <2>1. Cosine(t) = 1 /\ Sine(t) = 0
    BY <1>1, <1>4 DEF Cosine, Sine
  <2>2. x * (1) - y * (0) = x /\ x * (0) + y * (1) = y
    BY <1>1
  <2> QED
    BY <1>3, <1>4, <2>1, <2>2 DEF Turn
<1>5. CASE t % 4 = 1
  <2>1. Cosine(t) = 0 /\ Sine(t) = 1
    BY <1>1, <1>5 DEF Cosine, Sine
  <2>2. x * (0) - y * (1) = -y /\ x * (1) + y * (0) = x
    BY <1>1
  <2> QED
    BY <1>3, <1>5, <2>1, <2>2 DEF Turn
<1>6. CASE t % 4 = 2
  <2>1. Cosine(t) = -1 /\ Sine(t) = 0
    BY <1>1, <1>6 DEF Cosine, Sine
  <2>2. x * (-1) - y * (0) = -x /\ x * (0) + y * (-1) = -y
    BY <1>1
  <2> QED
    BY <1>3, <1>6, <2>1, <2>2 DEF Turn
<1>7. CASE t % 4 = 3
  <2>1. Cosine(t) = 0 /\ Sine(t) = -1
    BY <1>1, <1>7 DEF Cosine, Sine
  <2>2. x * (0) - y * (-1) = y /\ x * (-1) + y * (0) = -x
    BY <1>1
  <2> QED
    BY <1>3, <1>7, <2>1, <2>2 DEF Turn
<1> QED
  BY <1>4, <1>5, <1>6, <1>7, <1>2

\* To turn, scale and turn again is to scale and turn by both.
LEMMA TurnedTwice ==
    ASSUME NEW p \in Points, NEW a \in Int, NEW b \in Int, NEW s \in Int
    PROVE  /\ RotateInPlane(p, a) \in Points /\ Scaled(RotateInPlane(p, a), s) \in Points
           /\ RotateInPlane(Scaled(RotateInPlane(p, a), s), b) = RotateInPlane(Scaled(p, s), a + b)
<1>1. PICK x \in Int, y \in Int : p = <<x, y>>
  BY PointIs
<1>2. PICK u \in Int, v \in Int : u = x * s /\ v = y * s
  OBVIOUS
<1>3. (-x) * s = -u /\ (-y) * s = -v
  BY <1>2
<1>4. -u \in Int /\ -v \in Int /\ -x \in Int /\ -y \in Int /\ -(-u) = u /\ -(-v) = v
  OBVIOUS
<1>5. PICK c \in Int : c = a + b
  OBVIOUS
<1>6. /\ Whole(x, y, a) /\ Whole(u, v, c)
      /\ Whole(u, v, b) /\ Whole(-v, u, b) /\ Whole(-u, -v, b) /\ Whole(v, -u, b)
  BY <1>4 DEF Whole
<1>7. /\ RotateInPlane(<<x, y>>, a) = Turn(x, y, a % 4)
      /\ RotateInPlane(<<u, v>>, c) = Turn(u, v, c % 4)
      /\ RotateInPlane(<<u, v>>, b) = Turn(u, v, b % 4)
      /\ RotateInPlane(<<-v, u>>, b) = Turn(-v, u, b % 4)
      /\ RotateInPlane(<<-u, -v>>, b) = Turn(-u, -v, b % 4)
      /\ RotateInPlane(<<v, -u>>, b) = Turn(v, -u, b % 4)
  BY <1>6, QuarterTurns, Zenon
<1>8. Scaled(p, s) = <<u, v>>
  BY <1>1, <1>2 DEF Scaled
<1>9. a % 4 \in 0 .. 3 /\ b % 4 \in 0 .. 3
  OBVIOUS
<1> DEFINE turned == Scaled(RotateInPlane(p, a), s)
<1>10. CASE a % 4 = 0
  <2>1. RotateInPlane(p, a) = <<x, y>>
    BY <1>1, <1>7, <1>10 DEF Turn
  <2>2. turned = <<u, v>> /\ RotateInPlane(p, a) \in Points /\ turned \in Points
    BY <1>2, <1>3, <1>4, <2>1, PointIs DEF Scaled
  <2> HIDE DEF turned
  <2>3. CASE b % 4 = 0
    <3>1. c % 4 = 0
      BY <1>5, <1>10, <2>3
    <3>2. RotateInPlane(<<u, v>>, c) = <<u, v>>
      BY <1>7, <3>1 DEF Turn
    <3>3. RotateInPlane(<<u, v>>, b) = <<u, v>>
      BY <1>4, <1>7, <2>3 DEF Turn
    <3> QED
      BY <1>8, <1>5, <2>2, <3>2, <3>3 DEF turned
  <2>4. CASE b % 4 = 1
    <3>1. c % 4 = 1
      BY <1>5, <1>10, <2>4
    <3>2. RotateInPlane(<<u, v>>, c) = <<-v, u>>
      BY <1>7, <3>1 DEF Turn
    <3>3. RotateInPlane(<<u, v>>, b) = <<-v, u>>
      BY <1>4, <1>7, <2>4 DEF Turn
    <3> QED
      BY <1>8, <1>5, <2>2, <3>2, <3>3 DEF turned
  <2>5. CASE b % 4 = 2
    <3>1. c % 4 = 2
      BY <1>5, <1>10, <2>5
    <3>2. RotateInPlane(<<u, v>>, c) = <<-u, -v>>
      BY <1>7, <3>1 DEF Turn
    <3>3. RotateInPlane(<<u, v>>, b) = <<-u, -v>>
      BY <1>4, <1>7, <2>5 DEF Turn
    <3> QED
      BY <1>8, <1>5, <2>2, <3>2, <3>3 DEF turned
  <2>6. CASE b % 4 = 3
    <3>1. c % 4 = 3
      BY <1>5, <1>10, <2>6
    <3>2. RotateInPlane(<<u, v>>, c) = <<v, -u>>
      BY <1>7, <3>1 DEF Turn
    <3>3. RotateInPlane(<<u, v>>, b) = <<v, -u>>
      BY <1>4, <1>7, <2>6 DEF Turn
    <3> QED
      BY <1>8, <1>5, <2>2, <3>2, <3>3 DEF turned
  <2> QED
    BY <1>9, <2>2, <2>3, <2>4, <2>5, <2>6 DEF turned
<1>11. CASE a % 4 = 1
  <2>1. RotateInPlane(p, a) = <<-y, x>>
    BY <1>1, <1>7, <1>11 DEF Turn
  <2>2. turned = <<-v, u>> /\ RotateInPlane(p, a) \in Points /\ turned \in Points
    BY <1>2, <1>3, <1>4, <2>1, PointIs DEF Scaled
  <2> HIDE DEF turned
  <2>3. CASE b % 4 = 0
    <3>1. c % 4 = 1
      BY <1>5, <1>11, <2>3
    <3>2. RotateInPlane(<<u, v>>, c) = <<-v, u>>
      BY <1>7, <3>1 DEF Turn
    <3>3. RotateInPlane(<<-v, u>>, b) = <<-v, u>>
      BY <1>4, <1>7, <2>3 DEF Turn
    <3> QED
      BY <1>8, <1>5, <2>2, <3>2, <3>3 DEF turned
  <2>4. CASE b % 4 = 1
    <3>1. c % 4 = 2
      BY <1>5, <1>11, <2>4
    <3>2. RotateInPlane(<<u, v>>, c) = <<-u, -v>>
      BY <1>7, <3>1 DEF Turn
    <3>3. RotateInPlane(<<-v, u>>, b) = <<-u, -v>>
      BY <1>4, <1>7, <2>4 DEF Turn
    <3> QED
      BY <1>8, <1>5, <2>2, <3>2, <3>3 DEF turned
  <2>5. CASE b % 4 = 2
    <3>1. c % 4 = 3
      BY <1>5, <1>11, <2>5
    <3>2. RotateInPlane(<<u, v>>, c) = <<v, -u>>
      BY <1>7, <3>1 DEF Turn
    <3>3. RotateInPlane(<<-v, u>>, b) = <<v, -u>>
      BY <1>4, <1>7, <2>5 DEF Turn
    <3> QED
      BY <1>8, <1>5, <2>2, <3>2, <3>3 DEF turned
  <2>6. CASE b % 4 = 3
    <3>1. c % 4 = 0
      BY <1>5, <1>11, <2>6
    <3>2. RotateInPlane(<<u, v>>, c) = <<u, v>>
      BY <1>7, <3>1 DEF Turn
    <3>3. RotateInPlane(<<-v, u>>, b) = <<u, v>>
      BY <1>4, <1>7, <2>6 DEF Turn
    <3> QED
      BY <1>8, <1>5, <2>2, <3>2, <3>3 DEF turned
  <2> QED
    BY <1>9, <2>2, <2>3, <2>4, <2>5, <2>6 DEF turned
<1>12. CASE a % 4 = 2
  <2>1. RotateInPlane(p, a) = <<-x, -y>>
    BY <1>1, <1>7, <1>12 DEF Turn
  <2>2. turned = <<-u, -v>> /\ RotateInPlane(p, a) \in Points /\ turned \in Points
    BY <1>2, <1>3, <1>4, <2>1, PointIs DEF Scaled
  <2> HIDE DEF turned
  <2>3. CASE b % 4 = 0
    <3>1. c % 4 = 2
      BY <1>5, <1>12, <2>3
    <3>2. RotateInPlane(<<u, v>>, c) = <<-u, -v>>
      BY <1>7, <3>1 DEF Turn
    <3>3. RotateInPlane(<<-u, -v>>, b) = <<-u, -v>>
      BY <1>4, <1>7, <2>3 DEF Turn
    <3> QED
      BY <1>8, <1>5, <2>2, <3>2, <3>3 DEF turned
  <2>4. CASE b % 4 = 1
    <3>1. c % 4 = 3
      BY <1>5, <1>12, <2>4
    <3>2. RotateInPlane(<<u, v>>, c) = <<v, -u>>
      BY <1>7, <3>1 DEF Turn
    <3>3. RotateInPlane(<<-u, -v>>, b) = <<v, -u>>
      BY <1>4, <1>7, <2>4 DEF Turn
    <3> QED
      BY <1>8, <1>5, <2>2, <3>2, <3>3 DEF turned
  <2>5. CASE b % 4 = 2
    <3>1. c % 4 = 0
      BY <1>5, <1>12, <2>5
    <3>2. RotateInPlane(<<u, v>>, c) = <<u, v>>
      BY <1>7, <3>1 DEF Turn
    <3>3. RotateInPlane(<<-u, -v>>, b) = <<u, v>>
      BY <1>4, <1>7, <2>5 DEF Turn
    <3> QED
      BY <1>8, <1>5, <2>2, <3>2, <3>3 DEF turned
  <2>6. CASE b % 4 = 3
    <3>1. c % 4 = 1
      BY <1>5, <1>12, <2>6
    <3>2. RotateInPlane(<<u, v>>, c) = <<-v, u>>
      BY <1>7, <3>1 DEF Turn
    <3>3. RotateInPlane(<<-u, -v>>, b) = <<-v, u>>
      BY <1>4, <1>7, <2>6 DEF Turn
    <3> QED
      BY <1>8, <1>5, <2>2, <3>2, <3>3 DEF turned
  <2> QED
    BY <1>9, <2>2, <2>3, <2>4, <2>5, <2>6 DEF turned
<1>13. CASE a % 4 = 3
  <2>1. RotateInPlane(p, a) = <<y, -x>>
    BY <1>1, <1>7, <1>13 DEF Turn
  <2>2. turned = <<v, -u>> /\ RotateInPlane(p, a) \in Points /\ turned \in Points
    BY <1>2, <1>3, <1>4, <2>1, PointIs DEF Scaled
  <2> HIDE DEF turned
  <2>3. CASE b % 4 = 0
    <3>1. c % 4 = 3
      BY <1>5, <1>13, <2>3
    <3>2. RotateInPlane(<<u, v>>, c) = <<v, -u>>
      BY <1>7, <3>1 DEF Turn
    <3>3. RotateInPlane(<<v, -u>>, b) = <<v, -u>>
      BY <1>4, <1>7, <2>3 DEF Turn
    <3> QED
      BY <1>8, <1>5, <2>2, <3>2, <3>3 DEF turned
  <2>4. CASE b % 4 = 1
    <3>1. c % 4 = 0
      BY <1>5, <1>13, <2>4
    <3>2. RotateInPlane(<<u, v>>, c) = <<u, v>>
      BY <1>7, <3>1 DEF Turn
    <3>3. RotateInPlane(<<v, -u>>, b) = <<u, v>>
      BY <1>4, <1>7, <2>4 DEF Turn
    <3> QED
      BY <1>8, <1>5, <2>2, <3>2, <3>3 DEF turned
  <2>5. CASE b % 4 = 2
    <3>1. c % 4 = 1
      BY <1>5, <1>13, <2>5
    <3>2. RotateInPlane(<<u, v>>, c) = <<-v, u>>
      BY <1>7, <3>1 DEF Turn
    <3>3. RotateInPlane(<<v, -u>>, b) = <<-v, u>>
      BY <1>4, <1>7, <2>5 DEF Turn
    <3> QED
      BY <1>8, <1>5, <2>2, <3>2, <3>3 DEF turned
  <2>6. CASE b % 4 = 3
    <3>1. c % 4 = 2
      BY <1>5, <1>13, <2>6
    <3>2. RotateInPlane(<<u, v>>, c) = <<-u, -v>>
      BY <1>7, <3>1 DEF Turn
    <3>3. RotateInPlane(<<v, -u>>, b) = <<-u, -v>>
      BY <1>4, <1>7, <2>6 DEF Turn
    <3> QED
      BY <1>8, <1>5, <2>2, <3>2, <3>3 DEF turned
  <2> QED
    BY <1>9, <2>2, <2>3, <2>4, <2>5, <2>6 DEF turned
<1> QED
  BY <1>9, <1>10, <1>11, <1>12, <1>13

\* A fold that keeps some of a sequence's elements, one by one.
Gathers(f, n, S, keeps, value) ==
    /\ f \in [0 .. n -> Seq(S)] /\ f[0] = <<>>
    /\ \A i \in 1 .. n : f[i] = IF i \in keeps THEN Append(f[i - 1], value[i]) ELSE f[i - 1]

\* The preview with one more of the recipe's points.
Previewing(points, p, scale) == IF PenIsDown(p) THEN Append(points, Scaled(p.xy, scale)) ELSE points

\* A recipe's points of the plane, and where they are turned and scaled to.
LEMMA UnitsAre ==
    ASSUME NEW recipe \in Recipes, NEW scale \in Int
    PROVE  LET local == LocalPoints(recipe)
               units == UnitPoints(recipe) IN
           /\ Len(local) \in Nat /\ Len(units) = Len(local) /\ DOMAIN units = 1 .. Len(local)
           /\ \A i \in 1 .. Len(local) :
                 /\ local[i] \in Locals /\ units[i].z = local[i].z
                 /\ units[i].xy = RotateInPlane(local[i].xy, recipe.rotate)
                 /\ Scaled(units[i].xy, scale) \in Points
<1> DEFINE local == LocalPoints(recipe)
<1>1. local \in Seq(Locals) /\ Len(local) \in Nat /\ recipe.rotate \in Int
  BY WaypointsAre, LenProperties DEF Recipes
<1>2. UnitPoints(recipe) = [i \in 1 .. Len(local) |-> [local[i] EXCEPT !.xy = RotateInPlane(@, recipe.rotate)]]
  BY DEF UnitPoints
<1> HIDE DEF local
<1>3. ASSUME NEW i \in 1 .. Len(local)
      PROVE  /\ local[i] \in Locals /\ UnitPoints(recipe)[i].z = local[i].z
             /\ UnitPoints(recipe)[i].xy = RotateInPlane(local[i].xy, recipe.rotate)
             /\ Scaled(UnitPoints(recipe)[i].xy, scale) \in Points
  <2>1. local[i] \in Locals
    BY <1>1, ElementOfSeq
  <2>2. PICK p \in Points, z \in Int : local[i] = [xy |-> p, z |-> z]
    BY <2>1 DEF Locals
  <2>3. UnitPoints(recipe)[i] = [xy |-> RotateInPlane(p, recipe.rotate), z |-> z]
    BY <1>2, <2>2
  <2>4. Scaled(RotateInPlane(p, recipe.rotate), scale) \in Points
    <3>1. 0 \in Int
      OBVIOUS
    <3> QED
      BY <1>1, <3>1, TurnedTwice
  <2> QED
    BY <2>1, <2>2, <2>3, <2>4
<1> QED
  BY <1>1, <1>2, <1>3 DEF local

\* What the loader previews: the points at which the pen is down.
LEMMA PreviewIs ==
    ASSUME NEW recipe \in Recipes, NEW scale \in Int
    PROVE  LET local == LocalPoints(recipe)
               keeps == {i \in 1 .. Len(local) : local[i].z < SafeZ}
               value == [i \in 1 .. Len(local) |-> Scaled(UnitPoints(recipe)[i].xy, scale)] IN
           \E f : /\ Gathers(f, Len(local), Points, keeps, value)
                  /\ PenDownPoints(recipe, scale) = f[Len(local)]
<1> DEFINE local == LocalPoints(recipe)
           s == UnitPoints(recipe)
           n == Len(local)
           keeps == {i \in 1 .. n : local[i].z < SafeZ}
           value == [i \in 1 .. n |-> Scaled(s[i].xy, scale)]
           preview == PenDownPoints(recipe, scale)
           A == Seq(Points)
           step == [a \in A |-> [i \in 1 .. n |-> Previewing(a, s[i], scale)]]
           Folded(f) == f = [t \in SUBSET (1 .. n) |->
                               IF t = {} THEN <<>> ELSE Previewing(f[t \ {Max(t)}], s[Max(t)], scale)]
<1>1. preview = FoldLeft(LAMBDA points, p : Previewing(points, p, scale), <<>>, s)
  BY DEF PenDownPoints, Previewing
<1> HIDE DEF preview
<1>2. /\ n \in Nat /\ DOMAIN s = 1 .. n
      /\ \A i \in 1 .. n : /\ value[i] \in Points /\ value[i] = Scaled(s[i].xy, scale)
                           /\ i \in keeps <=> s[i].z < SafeZ
  BY UnitsAre
<1>3. ASSUME NEW a \in A, NEW i \in 1 .. n
      PROVE  Previewing(a, s[i], scale) \in A /\ Previewing(a, s[i], scale) = IF i \in keeps THEN Append(a, value[i]) ELSE a
  <2>1. Previewing(a, s[i], scale) = IF i \in keeps THEN Append(a, value[i]) ELSE a
    BY <1>2 DEF Previewing, PenIsDown
  <2> HIDE DEF s, n, value, keeps
  <2>2. PICK v \in Points : v = value[i]
    BY <1>2
  <2>3. Append(a, v) \in A
    BY AppendProperties
  <2> QED
    BY <2>1, <2>2, <2>3
<1> HIDE DEF s, n, A, value, keeps
<1>4. <<>> \in A
  BY EmptySeq DEF A
<1>5. step \in [A -> [1 .. n -> A]]
  BY <1>3
<1>6. PICK g : IsFold(g, n, A, <<>>, step)
  <2> HIDE DEF step
  <2> QED
    BY <1>2, <1>4, <1>5, FoldExists
<1>7. Folded(g)
  <2>1. ASSUME NEW t \in SUBSET (1 .. n), t # {}
        PROVE  step[g[t \ {Max(t)}]][Max(t)] = Previewing(g[t \ {Max(t)}], s[Max(t)], scale)
    <3>1. g[t \ {Max(t)}] \in A /\ Max(t) \in 1 .. n
      BY <1>2, <1>6, <2>1, LargestIsIn DEF IsFold
    <3> QED
      BY <3>1
  <2> HIDE DEF step
  <2> QED
    BY <1>6, <2>1 DEF IsFold
<1> DEFINE f == CHOOSE f : Folded(f)
           h == [i \in 0 .. n |-> f[1 .. i]]
<1>8. Folded(f)
  <2> HIDE DEF Folded
  <2> QED
    BY <1>7
<1>9. preview = f[1 .. n]
  BY <1>1, <1>2, Zenon DEF FoldLeft, MapThenFoldSet
<1> HIDE DEF f
<1>10. f[1 .. 0] = <<>>
  BY <1>2, <1>8
<1>11. ASSUME NEW i \in 1 .. n
       PROVE  f[1 .. i] = Previewing(f[1 .. i - 1], s[i], scale)
  <2>1. /\ 1 .. i \in SUBSET (1 .. n) /\ 1 .. i # {}
        /\ Max(1 .. i) = i /\ (1 .. i) \ {i} = 1 .. i - 1
    BY <1>2, FoldOfPrefix
  <2>2. f[1 .. i] = Previewing(f[(1 .. i) \ {Max(1 .. i)}], s[Max(1 .. i)], scale)
    BY <1>8, <2>1
  <2> QED
    BY <2>1, <2>2
<1>12. \A i \in 0 .. n : f[1 .. i] \in A
  <2>1. \A i \in 1 .. n : f[1 .. i - 1] \in A => f[1 .. i] \in A
    BY <1>3, <1>11
  <2> QED
    BY <1>2, <1>4, <1>10, <2>1, FoldStays
<1>13. ASSUME NEW i \in 1 .. n
       PROVE  h[i] = IF i \in keeps THEN Append(h[i - 1], value[i]) ELSE h[i - 1]
  <2>1. i \in 0 .. n /\ i - 1 \in 0 .. n
    BY <1>2
  <2>2. h[i] = f[1 .. i] /\ h[i - 1] = f[1 .. i - 1] /\ f[1 .. i - 1] \in A
    BY <1>12, <2>1
  <2> HIDE DEF h
  <2> QED
    BY <1>3, <1>11, <2>2
<1>14. h \in [0 .. n -> A] /\ h[0] = <<>> /\ h[n] = f[1 .. n]
  BY <1>2, <1>10, <1>12
<1> HIDE DEF h
<1>15. Gathers(h, n, Points, keeps, value)
  BY <1>13, <1>14 DEF Gathers, A
<1> QED
  BY <1>9, <1>14, <1>15 DEF keeps, value, n, local, s, preview

\* The waypoints drawn with one more of them.
Drawing(waypoints, w, height) == IF w[3] < height THEN Append(waypoints, w) ELSE waypoints

\* What the sender draws: the waypoints at which the pen is down.
LEMMA DrawnIs ==
    ASSUME NEW recipe \in Recipes
    PROVE  LET local == LocalPoints(recipe)
               keeps == {i \in 1 .. Len(local) : local[i].z < SafeZ} IN
           \E f : /\ Gathers(f, Len(local), Places, keeps, BuildWaypoints(recipe))
                  /\ PenDownWaypoints(recipe) = f[Len(local)]
<1> DEFINE local == LocalPoints(recipe)
           s == BuildWaypoints(recipe)
           n == Len(local)
           keeps == {i \in 1 .. n : local[i].z < SafeZ}
           value == s
           height == recipe.anchor[3] + SafeZ
           drawn == PenDownWaypoints(recipe)
           A == Seq(Places)
           step == [a \in A |-> [i \in 1 .. n |-> Drawing(a, s[i], height)]]
           Folded(f) == f = [t \in SUBSET (1 .. n) |->
                               IF t = {} THEN <<>> ELSE Drawing(f[t \ {Max(t)}], s[Max(t)], height)]
<1>1. drawn = FoldLeft(LAMBDA waypoints, w : Drawing(waypoints, w, height), <<>>, s)
  BY DEF PenDownWaypoints, Drawing
<1> HIDE DEF drawn
<1>2. /\ n \in Nat /\ DOMAIN s = 1 .. n
      /\ \A i \in 1 .. n : value[i] \in Places /\ value[i] = s[i] /\ (i \in keeps <=> s[i][3] < height)
  <2>1. /\ local \in Seq(Locals) /\ s \in Seq(Places) /\ Len(s) = n
        /\ \A i \in 1 .. n : \E x, y : s[i] = <<x, y, recipe.anchor[3] + local[i].z>>
    BY WaypointsAre
  <2>2. n \in Nat /\ DOMAIN s = 1 .. n
    BY <2>1, LenProperties
  <2>3. recipe.anchor[3] \in Int /\ SafeZ \in Int
    BY BoardAssumption, PointIs DEF Recipes
  <2> HIDE DEF local, s
  <2>4. ASSUME NEW i \in 1 .. n
        PROVE  s[i] \in Places /\ (i \in keeps <=> s[i][3] < height)
    <3>1. local[i].z \in Int
      <4>1. local[i] \in Locals
        BY <2>1, ElementOfSeq
      <4> QED
        BY <4>1 DEF Locals
    <3>2. s[i] \in Places /\ s[i][3] = recipe.anchor[3] + local[i].z
      BY <2>1, ElementOfSeq
    <3> QED
      BY <2>3, <3>1, <3>2
  <2> QED
    BY <2>2, <2>4
<1>3. ASSUME NEW a \in A, NEW i \in 1 .. n
      PROVE  Drawing(a, s[i], height) \in A /\ Drawing(a, s[i], height) = IF i \in keeps THEN Append(a, value[i]) ELSE a
  <2>1. Drawing(a, s[i], height) = IF i \in keeps THEN Append(a, value[i]) ELSE a
    BY <1>2 DEF Drawing
  <2> HIDE DEF s, n, value, keeps
  <2>2. PICK v \in Places : v = value[i]
    BY <1>2
  <2>3. Append(a, v) \in A
    BY AppendProperties
  <2> QED
    BY <2>1, <2>2, <2>3
<1> HIDE DEF s, n, A, value, keeps
<1>4. <<>> \in A
  BY EmptySeq DEF A
<1>5. step \in [A -> [1 .. n -> A]]
  BY <1>3
<1>6. PICK g : IsFold(g, n, A, <<>>, step)
  <2> HIDE DEF step
  <2> QED
    BY <1>2, <1>4, <1>5, FoldExists
<1>7. Folded(g)
  <2>1. ASSUME NEW t \in SUBSET (1 .. n), t # {}
        PROVE  step[g[t \ {Max(t)}]][Max(t)] = Drawing(g[t \ {Max(t)}], s[Max(t)], height)
    <3>1. g[t \ {Max(t)}] \in A /\ Max(t) \in 1 .. n
      BY <1>2, <1>6, <2>1, LargestIsIn DEF IsFold
    <3> QED
      BY <3>1
  <2> HIDE DEF step
  <2> QED
    BY <1>6, <2>1 DEF IsFold
<1> DEFINE f == CHOOSE f : Folded(f)
           h == [i \in 0 .. n |-> f[1 .. i]]
<1>8. Folded(f)
  <2> HIDE DEF Folded
  <2> QED
    BY <1>7
<1>9. drawn = f[1 .. n]
  BY <1>1, <1>2, Zenon DEF FoldLeft, MapThenFoldSet
<1> HIDE DEF f
<1>10. f[1 .. 0] = <<>>
  BY <1>2, <1>8
<1>11. ASSUME NEW i \in 1 .. n
       PROVE  f[1 .. i] = Drawing(f[1 .. i - 1], s[i], height)
  <2>1. /\ 1 .. i \in SUBSET (1 .. n) /\ 1 .. i # {}
        /\ Max(1 .. i) = i /\ (1 .. i) \ {i} = 1 .. i - 1
    BY <1>2, FoldOfPrefix
  <2>2. f[1 .. i] = Drawing(f[(1 .. i) \ {Max(1 .. i)}], s[Max(1 .. i)], height)
    BY <1>8, <2>1
  <2> QED
    BY <2>1, <2>2
<1>12. \A i \in 0 .. n : f[1 .. i] \in A
  <2>1. \A i \in 1 .. n : f[1 .. i - 1] \in A => f[1 .. i] \in A
    BY <1>3, <1>11
  <2> QED
    BY <1>2, <1>4, <1>10, <2>1, FoldStays
<1>13. ASSUME NEW i \in 1 .. n
       PROVE  h[i] = IF i \in keeps THEN Append(h[i - 1], value[i]) ELSE h[i - 1]
  <2>1. i \in 0 .. n /\ i - 1 \in 0 .. n
    BY <1>2
  <2>2. h[i] = f[1 .. i] /\ h[i - 1] = f[1 .. i - 1] /\ f[1 .. i - 1] \in A
    BY <1>12, <2>1
  <2> HIDE DEF h
  <2> QED
    BY <1>3, <1>11, <2>2
<1>14. h \in [0 .. n -> A] /\ h[0] = <<>> /\ h[n] = f[1 .. n]
  BY <1>2, <1>10, <1>12
<1> HIDE DEF h
<1>15. Gathers(h, n, Places, keeps, value)
  BY <1>13, <1>14 DEF Gathers, A
<1> QED
  BY <1>9, <1>14, <1>15 DEF keeps, value, n, local, s, drawn

\* Folds that keep the same elements keep them in step,
LEMMA GatherInStep ==
    ASSUME NEW n \in Nat, NEW S, NEW T, NEW keeps, NEW v, NEW w, NEW f, NEW g, NEW R,
           Gathers(f, n, S, keeps, v), Gathers(g, n, T, keeps, w),
           \A i \in 1 .. n : v[i] \in S /\ w[i] \in T /\ (i \in keeps => <<v[i], w[i]>> \in R)
    PROVE  /\ f[n] \in Seq(S) /\ Len(f[n]) = Len(g[n])
           /\ \A j \in 1 .. Len(f[n]) : <<f[n][j], g[n][j]>> \in R
<1> DEFINE Agree(a, b) == Len(a) = Len(b) /\ \A j \in 1 .. Len(a) : <<a[j], b[j]>> \in R
           U == {i \in 0 .. n : Agree(f[i], g[i])}
<1>1. 0 \in U
  BY EmptySeq DEF Gathers
<1>2. ASSUME NEW i \in 1 .. n, i - 1 \in U
      PROVE  i \in U
  <2>1. i \in 0 .. n /\ i - 1 \in 0 .. n
    OBVIOUS
  <2>2. PICK a \in Seq(S), b \in Seq(T) : a = f[i - 1] /\ b = g[i - 1] /\ Agree(a, b)
    BY <1>2, <2>1 DEF Gathers
  <2>3. /\ f[i] = IF i \in keeps THEN Append(a, v[i]) ELSE a
        /\ g[i] = IF i \in keeps THEN Append(b, w[i]) ELSE b
    BY <2>2 DEF Gathers
  <2>4. CASE i \in keeps
    <3>1. PICK x \in S, y \in T : x = v[i] /\ y = w[i] /\ <<x, y>> \in R
      BY <2>4
    <3>2. /\ Len(Append(a, x)) = Len(a) + 1 /\ \A j \in 1 .. Len(a) : Append(a, x)[j] = a[j]
          /\ Append(a, x)[Len(a) + 1] = x
      BY AppendProperties
    <3>3. /\ Len(Append(b, y)) = Len(b) + 1 /\ \A j \in 1 .. Len(b) : Append(b, y)[j] = b[j]
          /\ Append(b, y)[Len(b) + 1] = y
      BY AppendProperties
    <3>4. Len(a) \in Nat
      BY LenProperties
    <3>5. ASSUME NEW j \in 1 .. Len(a) + 1
          PROVE  <<Append(a, x)[j], Append(b, y)[j]>> \in R
      <4>1. j \in 1 .. Len(a) \/ j = Len(a) + 1
        BY <3>4
      <4> QED
        BY <2>2, <3>1, <3>2, <3>3, <4>1
    <3>6. Agree(Append(a, x), Append(b, y))
      BY <2>2, <3>2, <3>3, <3>5
    <3> HIDE DEF Agree
    <3> QED
      BY <2>1, <2>3, <2>4, <3>1, <3>6
  <2>5. CASE i \notin keeps
    BY <2>1, <2>2, <2>3, <2>5
  <2> QED
    BY <2>4, <2>5
<1>3. n \in U
  <2>1. n \in 0 .. n
    OBVIOUS
  <2> HIDE DEF U
  <2> QED
    BY <1>1, <1>2, <2>1, UpTo
<1>4. f[n] \in Seq(S)
  BY DEF Gathers
<1> QED
  BY <1>3, <1>4

\* and what is kept is there at the end.
LEMMA GatheredIsThere ==
    ASSUME NEW n \in Nat, NEW S, NEW keeps, NEW v, NEW f, Gathers(f, n, S, keeps, v),
           \A i \in 1 .. n : v[i] \in S,
           NEW k \in 1 .. n, k \in keeps
    PROVE  \E j \in 1 .. Len(f[n]) : f[n][j] = v[k]
<1> DEFINE Has(a) == \E j \in 1 .. Len(a) : a[j] = v[k]
           U == {i \in 0 .. n : i >= k => Has(f[i])}
<1>1. 0 \in U
  OBVIOUS
<1>2. ASSUME NEW i \in 1 .. n, i - 1 \in U
      PROVE  i \in U
  <2>1. i \in 0 .. n /\ i - 1 \in 0 .. n
    OBVIOUS
  <2>2. PICK a \in Seq(S) : a = f[i - 1]
    BY <2>1 DEF Gathers
  <2>3. f[i] = IF i \in keeps THEN Append(a, v[i]) ELSE a
    BY <2>2 DEF Gathers
  <2>4. i - 1 >= k => Has(a)
    BY <1>2, <2>2
  <2>5. PICK x \in S : x = v[i]
    OBVIOUS
  <2>6. /\ Append(a, x) \in Seq(S) /\ Len(Append(a, x)) = Len(a) + 1
        /\ \A j \in 1 .. Len(a) : Append(a, x)[j] = a[j]
        /\ Append(a, x)[Len(a) + 1] = x /\ Len(a) \in Nat
    BY AppendProperties, LenProperties
  <2>7. CASE i = k
    <3>1. f[i] = Append(a, x)
      BY <2>3, <2>5, <2>7
    <3>2. Len(a) + 1 \in 1 .. Len(Append(a, x)) /\ Append(a, x)[Len(a) + 1] = v[k]
      BY <2>5, <2>6, <2>7
    <3>3. Has(Append(a, x))
      BY <3>2
    <3> HIDE DEF Has
    <3> QED
      BY <2>1, <3>1, <3>3
  <2>8. CASE i # k /\ i >= k
    <3>1. PICK j \in 1 .. Len(a) : a[j] = v[k]
      BY <2>4, <2>8
    <3>2. j \in 1 .. Len(Append(a, x)) /\ Append(a, x)[j] = v[k]
      BY <2>6, <3>1
    <3>3. Has(Append(a, x)) /\ Has(a)
      BY <3>1, <3>2
    <3> HIDE DEF Has
    <3> QED
      BY <2>1, <2>3, <2>5, <3>3
  <2>9. CASE ~(i >= k)
    BY <2>1, <2>9
  <2> QED
    BY <2>7, <2>8, <2>9
<1>3. n \in U /\ n >= k
  <2>1. n \in 0 .. n /\ n >= k
    OBVIOUS
  <2> HIDE DEF U
  <2> QED
    BY <1>1, <1>2, <2>1, UpTo
<1> QED
  BY <1>3

\* A waypoint of a recipe for the present board lies on it where the point of
\* the plane it comes from does, turned by the recipe and scaled.
LEMMA WaypointOnBoard ==
    ASSUME NEW recipe \in Recipes, plane \in Planes,
           recipe.anchor = EffectiveAnchor(plane), recipe.plane_rotate = plane.yaw,
           NEW i \in 1 .. Len(LocalPoints(recipe))
    PROVE  PlanePoint(BuildWaypoints(recipe)[i])
              = OnBoard(Scaled(RotateInPlane(LocalPoints(recipe)[i].xy, recipe.rotate), recipe.scale))
<1>1. /\ LocalPoints(recipe)[i] \in Locals
      /\ LET turned == RotateInPlane(Scaled(LocalPoints(recipe)[i].xy, recipe.scale),
                                     recipe.rotate + recipe.plane_rotate) IN
         BuildWaypoints(recipe)[i] = <<recipe.anchor[1] + turned[1], recipe.anchor[2] + turned[2],
                                       recipe.anchor[3] + LocalPoints(recipe)[i].z>>
  BY WaypointsAre
<1>2. PICK p \in Points : p = LocalPoints(recipe)[i].xy
  BY <1>1 DEF Locals
<1>3. recipe.rotate \in Int /\ recipe.scale \in Int /\ plane.yaw \in Int
  BY AnchorIs DEF Recipes
<1>4. RotateInPlane(Scaled(RotateInPlane(p, recipe.rotate), recipe.scale), plane.yaw)
         = RotateInPlane(Scaled(p, recipe.scale), recipe.rotate + plane.yaw)
  BY <1>3, TurnedTwice
<1> QED
  BY <1>1, <1>2, <1>4 DEF OnBoard, PlanePoint, PlaneToWorld

\* What the loader previews is what the sender draws.
THEOREM PreviewRuns ==
    Spec => []PreviewIsWhatRuns
<1>1. ASSUME DeskHolds
      PROVE  PreviewIsWhatRuns
  <2> SUFFICES ASSUME NEW recipe \in loaded
               PROVE  LET preview == PenDownPoints(recipe, recipe.scale)
                          drawn == PenDownWaypoints(recipe)
                      IN  /\ Len(preview) = Len(drawn)
                          /\ \A i \in DOMAIN preview : OnBoard(preview[i]) = PlanePoint(drawn[i])
    BY DEF PreviewIsWhatRuns
  <2>1. /\ plane \in Planes /\ recipe \in Recipes
        /\ recipe.anchor = EffectiveAnchor(plane) /\ recipe.plane_rotate = plane.yaw
        /\ recipe.scale \in Int
    BY <1>1 DEF DeskHolds, Materials, Recipes
  <2> DEFINE local == LocalPoints(recipe)
             n == Len(local)
             keeps == {i \in 1 .. n : local[i].z < SafeZ}
             value == [i \in 1 .. n |-> Scaled(UnitPoints(recipe)[i].xy, recipe.scale)]
             waypoints == BuildWaypoints(recipe)
             preview == PenDownPoints(recipe, recipe.scale)
             drawn == PenDownWaypoints(recipe)
             Same == {pair \in Points \X Places : OnBoard(pair[1]) = PlanePoint(pair[2])}
  <2>2. PICK f : Gathers(f, n, Points, keeps, value) /\ preview = f[n]
    BY <2>1, PreviewIs
  <2>3. PICK g : Gathers(g, n, Places, keeps, waypoints) /\ drawn = g[n]
    BY <2>1, DrawnIs
  <2>4. n \in Nat
    BY <2>1, UnitsAre
  <2>5. ASSUME NEW i \in 1 .. n
        PROVE  value[i] \in Points /\ waypoints[i] \in Places /\ <<value[i], waypoints[i]>> \in Same
    <3>1. /\ value[i] \in Points
          /\ value[i] = Scaled(RotateInPlane(local[i].xy, recipe.rotate), recipe.scale)
      BY <2>1, UnitsAre
    <3>2. waypoints[i] \in Places
      BY <2>1, WaypointsAre, ElementOfSeq
    <3>3. PlanePoint(waypoints[i]) = OnBoard(value[i])
      <4> HIDE DEF value
      <4> QED
        BY <2>1, <3>1, WaypointOnBoard
    <3> HIDE DEF value, waypoints
    <3> QED
      BY <3>1, <3>2, <3>3
  <2> HIDE DEF n, keeps, value, waypoints, preview, drawn, Same
  <2>6. /\ f[n] \in Seq(Points) /\ Len(f[n]) = Len(g[n])
        /\ \A j \in 1 .. Len(f[n]) : <<f[n][j], g[n][j]>> \in Same
    BY <2>2, <2>3, <2>4, <2>5, GatherInStep
  <2>7. Len(preview) = Len(drawn)
        /\ \A i \in DOMAIN preview : OnBoard(preview[i]) = PlanePoint(drawn[i])
    BY <2>2, <2>3, <2>6, LenProperties DEF Same
  <2> QED
    BY <2>7 DEF preview, drawn
<1> QED
  BY <1>1, DeskInvariant, PTL

\* A point of a run that is framed into a recipe is among the recipe's points,
\* at the drawing height.
LEMMA RunIsDrawn ==
    ASSUME NEW runs \in Seq(Runs), NEW board \in Planes, NEW r \in 1 .. Len(runs),
           NEW i \in 1 .. Len(runs[r]),
           NEW recipe \in Recipes, recipe.segments = ToRecipeStructure(runs, board).segments
    PROVE  \E l \in 1 .. Len(LocalPoints(recipe)) : LocalPoints(recipe)[l] = [xy |-> runs[r][i], z |-> DrawZ]
<1> DEFINE p == runs[r][i]
           frames == [k \in 1 .. Len(runs) |-> FrameRun(runs[k])]
           framed == FlattenSeq(frames)
           segments == recipe.segments
           ss == [k \in 1 .. Len(segments) |-> SegmentLocalPoints(segments[k])]
<1>1. Len(runs) \in Nat /\ \A k \in 1 .. Len(runs) : runs[k] \in Runs
  BY LenProperties, ElementOfSeq
<1>2. frames \in Seq(Seq(Segments)) /\ Len(frames) = Len(runs) /\ frames[r] = FrameRun(runs[r])
  BY <1>1, FrameIs
<1>3. PICK k \in 1 .. Len(FrameRun(runs[r])) :
        LET segment == FrameRun(runs[r])[k] IN
        /\ segment.z = DrawZ
        /\ (segment.type = "lin" /\ segment.points = <<p>>) \/ segment = Through(runs[r])
  BY <1>1, FrameIs
<1>4. PICK j \in 1 .. Len(framed) : framed[j] = FrameRun(runs[r])[k]
  <2>1. r \in 1 .. Len(frames) /\ k \in 1 .. Len(frames[r])
    BY <1>2, <1>3
  <2> HIDE DEF frames
  <2>2. \E j \in 1 .. Len(framed) : framed[j] = frames[r][k]
    BY <1>2, <2>1, FlattenHolds
  <2> QED
    BY <1>2, <2>2
<1>5. framed \in Seq(Segments)
  <2> HIDE DEF frames
  <2> QED
    BY <1>2, FlattenIs
<1>6. segments = IF framed = <<>> THEN framed
                 ELSE Append(framed, Lin(Last(framed).points[1], RetractZ))
  BY DEF ToRecipeStructure
<1>7. segments \in Seq(Segments)
  BY DEF Recipes
<1> HIDE DEF framed, segments
<1>8. j \in 1 .. Len(segments) /\ segments[j] = FrameRun(runs[r])[k]
  <2>1. framed # <<>> /\ Len(framed) \in Nat
    BY <1>5, EmptySeq, LenProperties
  <2>2. segments = Append(framed, Lin(Last(framed).points[1], RetractZ))
    BY <1>6, <2>1
  <2>3. Len(segments) = Len(framed) + 1 /\ segments[j] = framed[j]
    BY <1>5, <2>2
  <2> QED
    BY <1>4, <2>1, <2>3
<1>9. segments[j] \in Segments /\ segments[j].z = DrawZ
  BY <1>3, <1>7, <1>8, ElementOfSeq
<1>10. \E m \in 1 .. Len(segments[j].points) : segments[j].points[m] = p
  <2>1. CASE segments[j].points = <<p>>
    BY <2>1
  <2>2. CASE segments[j] = Through(runs[r])
    <3>1. segments[j].points = runs[r]
      BY <2>2 DEF Through
    <3> QED
      BY <3>1
  <2> QED
    BY <1>3, <1>8, <2>1, <2>2
<1>11. PICK m \in 1 .. Len(SegmentLocalPoints(segments[j])) :
          SegmentLocalPoints(segments[j])[m] = [xy |-> p, z |-> DrawZ]
  <2>1. PICK s \in Segments : s = segments[j] /\ s.z = DrawZ
    BY <1>9
  <2>2. PICK m \in 1 .. Len(s.points) : s.points[m] = p
    BY <1>10, <2>1
  <2>3. \E o \in 1 .. Len(SegmentLocalPoints(s)) :
           SegmentLocalPoints(s)[o] = [xy |-> s.points[m], z |-> s.z]
    BY SegmentPointsAre
  <2> QED
    BY <2>1, <2>2, <2>3
<1>12. ss \in Seq(Seq(Locals)) /\ ss[j] = SegmentLocalPoints(segments[j]) /\ j \in 1 .. Len(ss)
  <2>1. ss \in Seq(Seq(Locals))
    BY WaypointsAre DEF segments
  <2>2. Len(segments) \in Nat
    BY <1>7, LenProperties
  <2> QED
    BY <1>8, <2>1, <2>2
<1>13. LocalPoints(recipe) = FlattenSeq(ss)
  BY DEF LocalPoints, segments
<1>14. m \in 1 .. Len(ss[j]) /\ ss[j][m] = [xy |-> p, z |-> DrawZ]
  BY <1>11, <1>12
<1> HIDE DEF ss, p
<1>15. \E l \in 1 .. Len(FlattenSeq(ss)) : FlattenSeq(ss)[l] = ss[j][m]
  BY <1>12, <1>14, FlattenHolds
<1> QED
  BY <1>13, <1>14, <1>15 DEF p

\* A drawing saved on one board and loaded on another comes out where it was
\* drawn.
THEOREM SavedFollowsBoard ==
    Spec => []SavedDrawingFollowsBoard
<1>1. ASSUME DeskHolds
      PROVE  SavedDrawingFollowsBoard
  <2> SUFFICES ASSUME NEW recipe \in saved, NEW again \in Loaded(recipe, plane, 1),
                      NEW run \in Range(savedRuns), NEW p \in Range(run)
               PROVE  \E w \in Range(PenDownWaypoints(again)) : PlanePoint(w) = OnBoard(p)
    BY DEF SavedDrawingFollowsBoard
  <2>1. plane \in Planes /\ savedRuns \in Seq(Runs)
    BY <1>1 DEF DeskHolds, Materials
  <2>2. PICK board \in Planes : recipe = ToRecipeStructure(savedRuns, board)
    BY <1>1 DEF DeskHolds, Materials
  <2>3. recipe \in Recipes /\ recipe.rotate = 0
    BY <2>1, <2>2, RecipeIs DEF ToRecipeStructure
  <2>4. /\ again \in Recipes /\ again.segments = recipe.segments /\ again.rotate = 0
        /\ again.anchor = EffectiveAnchor(plane) /\ again.plane_rotate = plane.yaw
        /\ again.scale = 1
    <3>1. /\ again \in Recipes /\ again.segments = recipe.segments /\ again.rotate = recipe.rotate
          /\ again.anchor = EffectiveAnchor(plane) /\ again.plane_rotate = plane.yaw
          /\ again.scale \in EffectiveScale(recipe, 1)
      <4>1. 1 \in Int
        OBVIOUS
      <4> QED
        BY <2>1, <2>3, <4>1, LoadedIs
    <3>2. EffectiveScale(recipe, 1) = {1}
      BY DEF EffectiveScale, Fit, Authored
    <3> QED
      BY <2>3, <3>1, <3>2
  <2>5. PICK r \in 1 .. Len(savedRuns) : run = savedRuns[r]
    BY <2>1, LenProperties DEF Range
  <2>6. run \in Seq(Points)
    BY <2>1, <2>5, ElementOfSeq DEF Runs
  <2>7. PICK i \in 1 .. Len(savedRuns[r]) : p = savedRuns[r][i]
    BY <2>5, <2>6, LenProperties DEF Range
  <2>8. p \in Points
    BY <2>5, <2>6, <2>7, ElementOfSeq
  <2> DEFINE local == LocalPoints(again)
             n == Len(local)
             keeps == {k \in 1 .. n : local[k].z < SafeZ}
             waypoints == BuildWaypoints(again)
             drawn == PenDownWaypoints(again)
  <2>9. PICK l \in 1 .. n : local[l] = [xy |-> p, z |-> DrawZ]
    <3>1. again.segments = ToRecipeStructure(savedRuns, board).segments
      BY <2>2, <2>4
    <3> QED
      BY <2>1, <2>4, <2>7, <3>1, RunIsDrawn
  <2>10. l \in keeps
    BY <2>9, DeskAssumption DEF CheckStartup
  <2>11. PICK f : Gathers(f, n, Places, keeps, waypoints) /\ drawn = f[n]
    BY <2>4, DrawnIs
  <2>12. n \in Nat /\ drawn \in Seq(Places) /\ \A k \in 1 .. n : waypoints[k] \in Places
    <3>1. n \in Nat /\ waypoints \in Seq(Places) /\ Len(waypoints) = n
      BY <2>4, WaypointsAre, LenProperties
    <3>2. n \in 0 .. n
      BY <3>1
    <3> HIDE DEF n, keeps, waypoints, drawn
    <3>3. f[n] \in Seq(Places)
      BY <2>11, <3>2 DEF Gathers
    <3> QED
      BY <2>11, <3>1, <3>3, ElementOfSeq
  <2>13. PlanePoint(waypoints[l]) = OnBoard(p)
    <3>1. RotateInPlane(p, 0) = p /\ Scaled(p, 1) = p
      <4>1. PICK x \in Int, y \in Int : p = <<x, y>>
        BY <2>8, PointIs
      <4>2. Whole(x, y, 0) /\ 0 % 4 = 0
        BY DEF Whole
      <4>3. RotateInPlane(<<x, y>>, 0) = <<x, y>>
        <5>1. RotateInPlane(<<x, y>>, 0) = Turn(x, y, 0 % 4)
          BY <4>2, QuarterTurns, Zenon
        <5> QED
          BY <4>2, <5>1 DEF Turn
      <4>4. x * 1 = x /\ y * 1 = y
        OBVIOUS
      <4> QED
        BY <4>1, <4>3, <4>4 DEF Scaled
    <3>2. local[l].xy = p
      BY <2>9
    <3> QED
      BY <2>1, <2>4, <2>9, <3>1, <3>2, WaypointOnBoard
  <2> HIDE DEF n, keeps, waypoints, drawn
  <2>14. \E j \in 1 .. Len(f[n]) : f[n][j] = waypoints[l]
    BY <2>9, <2>10, <2>11, <2>12, GatheredIsThere
  <2>15. waypoints[l] \in Range(drawn)
    BY <2>11, <2>12, <2>14, LenProperties DEF Range
  <2> QED
    BY <2>13, <2>15 DEF drawn
<1> QED
  BY <1>1, DeskInvariant, PTL
=================================================================================
