-------------------------- MODULE ClientGridProofs --------------------------
(***************************************************************************)
(* GridSize and GridEnds of ClientGrid for every number of significands,   *)
(* range, step and memory.                                                 *)
(***************************************************************************)
EXTENDS ClientGrid, SequenceLemmas, TLAPS

-----------------------------------------------------------------------------
(* The spacing of a client's numbers.                                      *)

\* f is the recursive function of Spacing as far as n.
Halving(f, w, n) == f = [k \in 0 .. n |-> IF k < w THEN 1 ELSE 2 * f[k \div 2]]

\* Half of a number that is not 0 is smaller.
LEMMA Half ==
    ASSUME NEW k \in Nat
    PROVE  /\ k \div 2 \in Nat /\ 2 * (k \div 2) <= k /\ k <= 2 * (k \div 2) + 1
           /\ k # 0 => k \div 2 < k
OBVIOUS

\* There is such a function for each n.
LEMMA HalvingExists ==
    ASSUME NEW w \in Nat \ {0}, NEW n \in Nat
    PROVE  \E f : Halving(f, w, n)
<1> DEFINE S == {k \in 0 .. n : \E f : Halving(f, w, k)}
<1>1. 0 \in S
  <2> DEFINE g == [k \in 0 .. 0 |-> 1]
  <2>1. g = [k \in 0 .. 0 |-> IF k < w THEN 1 ELSE 2 * g[k \div 2]]
    OBVIOUS
  <2>2. Halving(g, w, 0)
    BY <2>1 DEF Halving
  <2> HIDE DEF g
  <2> QED
    BY <2>2
<1>2. ASSUME NEW k \in 0 .. n - 1, k \in S PROVE k + 1 \in S
  <2>1. PICK f : Halving(f, w, k)
    BY <1>2
  <2> DEFINE last == IF k + 1 < w THEN 1 ELSE 2 * f[(k + 1) \div 2]
             g == [i \in 0 .. k + 1 |-> IF i = k + 1 THEN last ELSE f[i]]
  <2>2. ASSUME NEW i \in 0 .. k + 1
        PROVE  g[i] = IF i < w THEN 1 ELSE 2 * g[i \div 2]
    <3>1. i \div 2 \in 0 .. k
      <4>1. CASE i = 0
        BY <4>1
      <4>2. CASE i # 0
        BY <4>2, Half
      <4> QED
        BY <4>1, <4>2
    <3>2. g[i \div 2] = f[i \div 2]
      BY <3>1
    <3>3. CASE i = k + 1
      BY <3>2, <3>3
    <3>4. CASE i # k + 1
      <4>1. i \in 0 .. k /\ g[i] = f[i]
        BY <3>4
      <4>2. f[i] = IF i < w THEN 1 ELSE 2 * f[i \div 2]
        BY <2>1, <4>1 DEF Halving
      <4> QED
        BY <3>2, <4>1, <4>2
    <3> QED
      BY <3>3, <3>4
  <2>3. g = [i \in 0 .. k + 1 |-> IF i < w THEN 1 ELSE 2 * g[i \div 2]]
    <3> DEFINE e(i) == IF i < w THEN 1 ELSE 2 * g[i \div 2]
    <3>1. \A i \in 0 .. k + 1 : g[i] = e(i)
      BY <2>2
    <3>2. g = [i \in 0 .. k + 1 |-> g[i]]
      OBVIOUS
    <3> HIDE DEF g, e
    <3>3. g = [i \in 0 .. k + 1 |-> e(i)]
      BY <3>1, <3>2
    <3> QED
      BY <3>3 DEF e
  <2>4. Halving(g, w, k + 1)
    BY <2>3 DEF Halving
  <2> HIDE DEF g
  <2> QED
    BY <2>4
<1>3. \A k \in 0 .. n : k \in S
  <2> HIDE DEF S
  <2> QED
    BY <1>1, <1>2, Climb
<1> QED
  BY <1>3

\* Two such functions agree where both are defined.
LEMMA HalvingAgree ==
    ASSUME NEW w \in Nat \ {0}, NEW n \in Nat, NEW m \in Nat, n <= m,
           NEW f, Halving(f, w, n), NEW g, Halving(g, w, m)
    PROVE  \A k \in 0 .. n : f[k] = g[k]
<1> DEFINE T == {k \in 0 .. n : f[k] # g[k]}
<1> SUFFICES ASSUME T # {} PROVE FALSE
  OBVIOUS
<1>1. T \subseteq Nat
  OBVIOUS
<1>2. PICK k \in T : \A i \in T : k <= i
  BY <1>1, LeastNat
<1>3. k \in 0 .. n /\ k \in 0 .. m /\ f[k] # g[k]
  BY <1>2
<1>4. f[k] = IF k < w THEN 1 ELSE 2 * f[k \div 2]
  BY <1>3 DEF Halving
<1>5. g[k] = IF k < w THEN 1 ELSE 2 * g[k \div 2]
  BY <1>3 DEF Halving
<1>6. ~ (k < w)
  BY <1>3, <1>4, <1>5
<1>7. k \div 2 \in 0 .. n /\ k \div 2 < k
  BY <1>3, <1>6, Half
<1>8. k \div 2 \notin T
  BY <1>2, <1>3, <1>7
<1>9. f[k \div 2] = g[k \div 2]
  BY <1>7, <1>8
<1> QED
  BY <1>3, <1>4, <1>5, <1>9

\* The same for all natural numbers.
Halves(f, w) == f = [k \in Nat |-> IF k < w THEN 1 ELSE 2 * f[k \div 2]]

\* Some function has that form: at k, the value of the function as far as k.
LEMMA HalvesExists ==
    ASSUME NEW w \in Nat \ {0}
    PROVE  \E f : Halves(f, w)
<1> DEFINE At(k) == CHOOSE f : Halving(f, w, k)
           g == [k \in Nat |-> At(k)[k]]
           e(k) == IF k < w THEN 1 ELSE 2 * g[k \div 2]
<1>1. \A k \in Nat : Halving(At(k), w, k)
  BY HalvingExists
<1>2. \A k \in Nat : g[k] = At(k)[k]
  OBVIOUS
<1>3. g = [k \in Nat |-> g[k]]
  OBVIOUS
<1> HIDE DEF At, g
<1>4. ASSUME NEW k \in Nat PROVE g[k] = e(k)
  <2>1. At(k)[k] = IF k < w THEN 1 ELSE 2 * At(k)[k \div 2]
    BY <1>1 DEF Halving
  <2>2. k \div 2 \in Nat /\ k \div 2 <= k
    BY Half
  <2>3. \A i \in 0 .. k \div 2 : At(k \div 2)[i] = At(k)[i]
    BY <1>1, <2>2, HalvingAgree
  <2>4. At(k)[k \div 2] = g[k \div 2]
    BY <1>2, <2>2, <2>3
  <2> QED
    BY <1>2, <2>1, <2>4
<1> HIDE DEF e
<1>5. g = [k \in Nat |-> e(k)]
  BY <1>3, <1>4
<1>6. Halves(g, w)
  BY <1>5 DEF Halves, e
<1> QED
  BY <1>6

\* Spacing is what its definition says.
LEMMA SpacingAt ==
    ASSUME NEW w \in Nat \ {0}, NEW k \in Nat
    PROVE  Spacing(w)[k] = IF k < w THEN 1 ELSE 2 * Spacing(w)[k \div 2]
<1>1. Spacing(w) = CHOOSE f : Halves(f, w)
  BY DEF Spacing, Halves
<1>2. Halves(Spacing(w), w)
  BY <1>1, HalvesExists
<1> QED
  BY <1>2 DEF Halves

\* Induction along the halving.
LEMMA HalvingInduction ==
    ASSUME NEW w \in Nat \ {0}, NEW S,
           \A k \in Nat : k < w \/ k \div 2 \in S => k \in S
    PROVE  \A k \in Nat : k \in S
<1> DEFINE T == {k \in Nat : k \notin S}
<1> SUFFICES ASSUME T # {} PROVE FALSE
  OBVIOUS
<1>1. T \subseteq Nat
  OBVIOUS
<1>2. PICK k \in T : \A i \in T : k <= i
  BY <1>1, LeastNat
<1>3. k \in Nat /\ k \notin S
  BY <1>2
<1>4. ~ (k < w) /\ k \div 2 \notin S
  BY <1>3
<1>5. k \div 2 \in Nat /\ k \div 2 < k
  BY <1>3, <1>4, Half
<1> QED
  BY <1>2, <1>3, <1>4, <1>5

\* The distance of neighbouring numbers is positive.
LEMMA SpacingNat ==
    ASSUME NEW w \in Nat \ {0}
    PROVE  \A k \in Nat : Spacing(w)[k] \in Nat \ {0}
<1> DEFINE S == {k \in Nat : Spacing(w)[k] \in Nat \ {0}}
<1>1. ASSUME NEW k \in Nat, k < w \/ k \div 2 \in S PROVE k \in S
  <2>1. Spacing(w)[k] = IF k < w THEN 1 ELSE 2 * Spacing(w)[k \div 2]
    BY SpacingAt
  <2>2. CASE k < w
    BY <2>1, <2>2
  <2>3. CASE ~ (k < w)
    BY <1>1, <2>1, <2>3
  <2> QED
    BY <2>2, <2>3
<1>2. \A k \in Nat : k \in S
  <2> HIDE DEF S
  <2> QED
    BY <1>1, HalvingInduction
<1> QED
  BY <1>2

\* A number k of distance u to its neighbours has a significand of the full length:
\* between h and 2 * h times u, or less where the distance is the least one.
Normal(h, k, u) == k < 2 * (h * u) /\ (u = 1 \/ h * u <= k)

LEMMA NormalDouble ==
    ASSUME NEW h \in Nat \ {0}, NEW k \in Nat, NEW u \in Nat \ {0},
           2 * h <= k, Normal(h, k \div 2, u)
    PROVE  Normal(h, k, 2 * u)
<1> DEFINE i == k \div 2
           p == h * u
<1>1. i \in Nat /\ 2 * i <= k /\ k <= 2 * i + 1
  BY Half
<1>2. p \in Nat /\ h * (2 * u) = 2 * p
  OBVIOUS
<1>3. i < 2 * p /\ (u = 1 \/ p <= i)
  BY DEF Normal
<1>4. u = 1 => p = h
  OBVIOUS
<1> HIDE DEF i, p
<1>5. k < 2 * (2 * p)
  BY <1>1, <1>2, <1>3
<1>6. 2 * p <= k
  BY <1>1, <1>2, <1>3, <1>4
<1> QED
  BY <1>2, <1>5, <1>6 DEF Normal

LEMMA SpacingNormal ==
    ASSUME NEW h \in Nat \ {0}
    PROVE  \A k \in Nat : Normal(h, k, Spacing(2 * h)[k])
<1> DEFINE w == 2 * h
           S == {k \in Nat : Normal(h, k, Spacing(w)[k])}
<1>0. w \in Nat \ {0}
  OBVIOUS
<1>1. ASSUME NEW k \in Nat, k < w \/ k \div 2 \in S PROVE k \in S
  <2> HIDE DEF w
  <2>1. Spacing(w)[k] = IF k < w THEN 1 ELSE 2 * Spacing(w)[k \div 2]
    BY <1>0, SpacingAt
  <2>2. CASE k < w
    <3>1. Spacing(w)[k] = 1
      BY <2>1, <2>2
    <3>2. Normal(h, k, 1)
      BY <2>2 DEF Normal, w
    <3> QED
      BY <3>1, <3>2
  <2>3. CASE ~ (k < w)
    <3> DEFINE u == Spacing(w)[k \div 2]
    <3>1. Spacing(w)[k] = 2 * u
      BY <2>1, <2>3
    <3>2. u \in Nat \ {0}
      BY <1>0, Half, SpacingNat
    <3>3. Normal(h, k \div 2, u)
      BY <1>1, <2>3
    <3>4. 2 * h <= k
      BY <2>3 DEF w
    <3> HIDE DEF u
    <3>5. Normal(h, k, 2 * u)
      BY <3>2, <3>3, <3>4, NormalDouble
    <3> QED
      BY <3>1, <3>5
  <2> QED
    BY <2>2, <2>3
<1>2. \A k \in Nat : k \in S
  <2> HIDE DEF S, w
  <2> QED
    BY <1>0, <1>1, HalvingInduction
<1> QED
  BY <1>2

\* Of two distances one is the other or a multiple of twice the other.
Nested(u, v) == v = u \/ \E d \in Nat \ {0} : v = d * (2 * u)

LEMMA SpacingNested ==
    ASSUME NEW w \in Nat \ {0}
    PROVE  \A k \in Nat : \A m \in 0 .. k : Nested(Spacing(w)[m], Spacing(w)[k])
<1> DEFINE S == {k \in Nat : \A m \in 0 .. k : Nested(Spacing(w)[m], Spacing(w)[k])}
<1>1. ASSUME NEW k \in Nat, k < w \/ k \div 2 \in S, NEW m \in 0 .. k
      PROVE  Nested(Spacing(w)[m], Spacing(w)[k])
  <2>1. Spacing(w)[k] = IF k < w THEN 1 ELSE 2 * Spacing(w)[k \div 2]
    BY SpacingAt
  <2>2. Spacing(w)[m] = IF m < w THEN 1 ELSE 2 * Spacing(w)[m \div 2]
    BY SpacingAt
  <2>3. k \div 2 \in Nat /\ Spacing(w)[k \div 2] \in Nat \ {0}
    BY Half, SpacingNat
  <2>4. m \div 2 \in 0 .. k \div 2 /\ Spacing(w)[m \div 2] \in Nat \ {0}
    BY Half, SpacingNat
  <2> DEFINE u == Spacing(w)[m \div 2]
             v == Spacing(w)[k \div 2]
  <2>5. CASE k < w
    <3>1. Spacing(w)[k] = 1 /\ Spacing(w)[m] = 1
      BY <2>1, <2>2, <2>5
    <3> QED
      BY <3>1 DEF Nested
  <2>6. CASE ~ (k < w) /\ m < w
    <3>1. Spacing(w)[k] = 2 * v /\ Spacing(w)[m] = 1
      BY <2>1, <2>2, <2>6
    <3>2. v \in Nat \ {0}
      BY <2>3
    <3> HIDE DEF v
    <3>3. 2 * v = v * (2 * 1)
      BY <3>2
    <3>4. Nested(1, 2 * v)
      BY <3>2, <3>3 DEF Nested
    <3> QED
      BY <3>1, <3>4
  <2>7. CASE ~ (k < w) /\ ~ (m < w)
    <3>1. Spacing(w)[k] = 2 * v /\ Spacing(w)[m] = 2 * u
      BY <2>1, <2>2, <2>7
    <3>2. u \in Nat \ {0} /\ v \in Nat \ {0}
      BY <2>3, <2>4
    <3>3. Nested(u, v)
      BY <1>1, <2>4, <2>7
    <3> HIDE DEF u, v
    <3>4. Nested(2 * u, 2 * v)
      <4>1. CASE v = u
        BY <4>1 DEF Nested
      <4>2. CASE \E d \in Nat \ {0} : v = d * (2 * u)
        <5>1. PICK d \in Nat \ {0} : v = d * (2 * u)
          BY <4>2
        <5>2. 2 * v = d * (2 * (2 * u))
          BY <3>2, <5>1
        <5> QED
          BY <5>2 DEF Nested
      <4> QED
        BY <3>3, <4>1, <4>2 DEF Nested
    <3> QED
      BY <3>1, <3>4
  <2> QED
    BY <2>5, <2>6, <2>7
<1>2. \A k \in Nat : k < w \/ k \div 2 \in S => k \in S
  BY <1>1
<1>3. \A k \in Nat : k \in S
  <2> HIDE DEF S
  <2> QED
    BY <1>2, HalvingInduction
<1> QED
  BY <1>3

\* The larger number has the larger distance.
LEMMA NestedOrder ==
    ASSUME NEW u \in Nat \ {0}, NEW v \in Nat \ {0}, Nested(u, v)
    PROVE  u <= v /\ (v # u => 2 * u <= v)
<1>1. CASE v = u
  BY <1>1
<1>2. CASE \E d \in Nat \ {0} : v = d * (2 * u)
  <2>1. PICK d \in Nat \ {0} : v = d * (2 * u)
    BY <1>2
  <2>2. 2 * u <= d * (2 * u)
    OBVIOUS
  <2> QED
    BY <2>1, <2>2
<1> QED
  BY <1>1, <1>2 DEF Nested

LEMMA SpacingMonotone ==
    ASSUME NEW w \in Nat \ {0}, NEW k \in Nat, NEW m \in Nat, m <= k
    PROVE  Spacing(w)[m] <= Spacing(w)[k]
<1>1. Nested(Spacing(w)[m], Spacing(w)[k])
  BY SpacingNested
<1>2. Spacing(w)[m] \in Nat \ {0} /\ Spacing(w)[k] \in Nat \ {0}
  BY SpacingNat
<1> QED
  BY <1>1, <1>2, NestedOrder

-----------------------------------------------------------------------------
(* Rounding of a number that is not negative.                              *)

\* r is the multiple of v below a or the one above, whichever is not farther.
Nearest(a, v, r) ==
    \E q \in Nat :
        /\ q * v <= a /\ a < q * v + v
        /\ \/ r = q * v /\ 2 * (a - q * v) <= v
           \/ r = q * v + v /\ 2 * (a - q * v) >= v

LEMMA RoundAbsNearest ==
    ASSUME NEW a \in Nat, NEW v \in Nat \ {0}
    PROVE  Nearest(a, v, RoundAbs(a, v))
<1> DEFINE q == a \div v
           r == a % v
           p == q * v
<1>1. q \in Nat /\ p \in Nat /\ p <= a /\ a < p + v
  OBVIOUS
<1>2. r = a - p
  OBVIOUS
<1>3. (q + 1) * v = p + v
  BY <1>1
<1>4. RoundAbs(a, v) = IF 2 * r > v \/ (2 * r = v /\ q % 2 = 1) THEN (q + 1) * v ELSE p
  BY DEF RoundAbs
<1> HIDE DEF p, r
<1>5. \/ RoundAbs(a, v) = p /\ 2 * (a - p) <= v
      \/ RoundAbs(a, v) = p + v /\ 2 * (a - p) >= v
  <2>1. CASE 2 * r > v \/ (2 * r = v /\ q % 2 = 1)
    BY <1>1, <1>2, <1>3, <1>4, <2>1
  <2>2. CASE ~ (2 * r > v \/ (2 * r = v /\ q % 2 = 1))
    <3>1. RoundAbs(a, v) = p
      BY <1>4, <2>2
    <3>2. r \in Int
      BY <1>1, <1>2
    <3>3. ~ (2 * r > v)
      BY <2>2
    <3> QED
      BY <1>1, <1>2, <3>1, <3>2, <3>3
  <2> QED
    BY <2>1, <2>2
<1> HIDE DEF q
<1> QED
  BY <1>1, <1>5 DEF Nearest, p

\* Rounding moves a number by at most half the distance.
LEMMA NearestError ==
    ASSUME NEW a \in Nat, NEW v \in Nat \ {0}, NEW r, Nearest(a, v, r)
    PROVE  r \in Nat /\ 2 * (r - a) <= v /\ 2 * (a - r) <= v
<1>1. PICK q \in Nat :
        /\ q * v <= a /\ a < q * v + v
        /\ \/ r = q * v /\ 2 * (a - q * v) <= v
           \/ r = q * v + v /\ 2 * (a - q * v) >= v
  BY DEF Nearest
<1> DEFINE p == q * v
<1>2. p \in Nat
  OBVIOUS
<1> HIDE DEF p
<1> QED
  BY <1>1, <1>2 DEF p

\* Rounding does not cross a multiple of the distance.
LEMMA NearestBeside ==
    ASSUME NEW a \in Nat, NEW v \in Nat \ {0}, NEW r, Nearest(a, v, r), NEW m \in Nat
    PROVE  /\ a <= m * v => r <= m * v
           /\ m * v <= a => m * v <= r
<1>1. PICK q \in Nat :
        /\ q * v <= a /\ a < q * v + v
        /\ \/ r = q * v /\ 2 * (a - q * v) <= v
           \/ r = q * v + v /\ 2 * (a - q * v) >= v
  BY DEF Nearest
<1> DEFINE p == q * v
           b == m * v
<1>2. p \in Nat /\ b \in Nat
  OBVIOUS
<1>3. m < q => b + v <= p
  OBVIOUS
<1>4. q < m => p + v <= b
  OBVIOUS
<1>5. q = m => p = b
  OBVIOUS
<1>6. /\ p <= a /\ a < p + v
      /\ \/ r = p /\ 2 * (a - p) <= v
         \/ r = p + v /\ 2 * (a - p) >= v
  BY <1>1, Zenon
<1> HIDE DEF p, b
<1>7. a <= b => r <= b
  BY <1>2, <1>3, <1>4, <1>5, <1>6
<1>8. b <= a => b <= r
  BY <1>2, <1>3, <1>4, <1>5, <1>6
<1> QED
  BY <1>7, <1>8 DEF b

\* b is a number of the client: at most 2 * h times some distance.
Number(h, b) == \E k \in Nat : \E j \in 0 .. 2 * h : b = j * Spacing(2 * h)[k]

\* What a number is rounded to is a number of the client.
LEMMA RoundIsNumber ==
    ASSUME NEW h \in Nat \ {0}, NEW a \in Nat, NEW r, Nearest(a, Spacing(2 * h)[a], r)
    PROVE  Number(h, r)
<1> DEFINE v == Spacing(2 * h)[a]
<1>1. v \in Nat \ {0} /\ Normal(h, a, v)
  BY SpacingNat, SpacingNormal
<1>2. Nearest(a, v, r)
  OBVIOUS
<1> HIDE DEF v
<1>3. PICK q \in Nat :
        /\ q * v <= a /\ a < q * v + v
        /\ \/ r = q * v /\ 2 * (a - q * v) <= v
           \/ r = q * v + v /\ 2 * (a - q * v) >= v
  BY <1>2 DEF Nearest
<1>4. q * v < (2 * h) * v
  <2>1. a < 2 * (h * v)
    BY <1>1 DEF Normal
  <2>2. (2 * h) * v = 2 * (h * v)
    BY <1>1
  <2>3. q * v \in Nat /\ h * v \in Nat
    BY <1>1
  <2> QED
    BY <1>3, <2>1, <2>2, <2>3
<1>5. q < 2 * h
  <2>1. q >= 2 * h => q * v >= (2 * h) * v
    BY <1>1
  <2>2. q * v \in Nat /\ (2 * h) * v \in Nat
    BY <1>1
  <2> QED
    BY <1>4, <2>1, <2>2
<1>6. q \in 0 .. 2 * h /\ q + 1 \in 0 .. 2 * h
  BY <1>5
<1>7. (q + 1) * v = q * v + v
  BY <1>1
<1>8. r = q * v \/ r = (q + 1) * v
  BY <1>3, <1>7
<1>9. \E j \in 0 .. 2 * h : r = j * v
  BY <1>6, <1>8
<1> QED
  BY <1>9 DEF Number, v

\* A number of the client is a multiple of the distance at a, or a is beyond it
\* and in a coarser region.
LEMMA NumberOrCoarser ==
    ASSUME NEW h \in Nat \ {0}, NEW a \in Nat, NEW b, Number(h, b),
           NEW v, v = Spacing(2 * h)[a]
    PROVE  \/ \E m \in Nat : b = m * v
           \/ b <= h * v /\ h * v <= a
<1>1. PICK k \in Nat, j \in 0 .. 2 * h : b = j * Spacing(2 * h)[k]
  BY DEF Number
<1> DEFINE u == Spacing(2 * h)[k]
<1>2. u \in Nat \ {0} /\ v \in Nat \ {0} /\ Normal(h, a, v)
  BY SpacingNat, SpacingNormal
<1>3. a <= k => Nested(v, u)
  BY SpacingNested
<1>4. k < a => Nested(u, v)
  BY SpacingNested
<1>5. b = j * u /\ j \in Nat
  BY <1>1
<1> HIDE DEF u
<1>6. CASE v = u
  BY <1>5, <1>6
<1>7. CASE \E d \in Nat \ {0} : u = d * (2 * v)
  <2>1. PICK d \in Nat \ {0} : u = d * (2 * v)
    BY <1>7
  <2>2. j * (d * (2 * v)) = (j * (d * 2)) * v
    BY <1>2, <1>5
  <2>3. j * (d * 2) \in Nat
    BY <1>5
  <2> QED
    BY <1>5, <2>1, <2>2, <2>3
<1>8. CASE \E d \in Nat \ {0} : v = d * (2 * u)
  <2>1. PICK d \in Nat \ {0} : v = d * (2 * u)
    BY <1>8
  <2>2. 2 * u <= v
    BY <1>2, <2>1, NestedOrder DEF Nested
  <2>3. h * v <= a
    BY <1>2, <2>2 DEF Normal
  <2>4. j * u <= (2 * h) * u
    BY <1>1, <1>2
  <2>5. h * (2 * u) <= h * v
    BY <1>2, <2>2
  <2>6. (2 * h) * u = h * (2 * u)
    BY <1>2
  <2>7. j * u \in Int /\ h * v \in Int /\ h * (2 * u) \in Int
    BY <1>2, <1>5
  <2>8. b <= h * v
    BY <1>5, <2>4, <2>5, <2>6, <2>7
  <2> QED
    BY <2>3, <2>8
<1> QED
  BY <1>3, <1>4, <1>6, <1>7, <1>8 DEF Nested

\* Rounding does not cross a number of the client.
LEMMA RoundAbsBeside ==
    ASSUME NEW h \in Nat \ {0}, NEW a \in Nat, NEW b \in Nat, Number(h, b),
           NEW r, Nearest(a, Spacing(2 * h)[a], r)
    PROVE  (a <= b => r <= b) /\ (b <= a => b <= r)
<1> DEFINE v == Spacing(2 * h)[a]
<1>1. v \in Nat \ {0}
  BY SpacingNat
<1>2. (\E m \in Nat : b = m * v) \/ (b <= h * v /\ h * v <= a)
  BY NumberOrCoarser
<1>3. Nearest(a, v, r)
  OBVIOUS
<1> HIDE DEF v
<1>4. CASE \E m \in Nat : b = m * v
  <2>1. PICK m \in Nat : b = m * v
    BY <1>4
  <2>2. (a <= m * v => r <= m * v) /\ (m * v <= a => m * v <= r)
    BY <1>1, <1>3, NearestBeside
  <2> QED
    BY <2>1, <2>2
<1>5. CASE b <= h * v /\ h * v <= a
  <2> DEFINE c == h * v
  <2>1. (a <= c => r <= c) /\ (c <= a => c <= r)
    BY <1>1, <1>3, NearestBeside
  <2>2. c \in Nat /\ r \in Nat
    BY <1>1, <1>3, NearestError
  <2>3. b <= c /\ c <= a
    BY <1>5
  <2> HIDE DEF c
  <2> QED
    BY <2>1, <2>2, <2>3
<1> QED
  BY <1>2, <1>4, <1>5

\* Rounding does not lead into a finer region.
LEMMA RoundAbsCoarser ==
    ASSUME NEW h \in Nat \ {0}, NEW a \in Nat, NEW r \in Nat,
           Nearest(a, Spacing(2 * h)[a], r)
    PROVE  Spacing(2 * h)[a] <= Spacing(2 * h)[r]
<1> DEFINE v == Spacing(2 * h)[a]
           u == Spacing(2 * h)[r]
<1>1. u \in Nat \ {0} /\ v \in Nat \ {0} /\ Normal(h, a, v) /\ Normal(h, r, u)
  BY SpacingNat, SpacingNormal
<1>2. a <= r => v <= u
  BY SpacingMonotone
<1>3. r <= a => Nested(u, v)
  BY SpacingNested
<1>4. Nearest(a, v, r)
  OBVIOUS
<1> HIDE DEF u, v
<1>5. ASSUME r < a, u < v PROVE FALSE
  <2>1. 2 * u <= v
    BY <1>1, <1>3, <1>5, NestedOrder
  <2>2. h * v <= a
    BY <1>1, <1>5 DEF Normal
  <2>3. h * v <= r
    BY <1>1, <1>4, <2>2, NearestBeside
  <2>4. r < 2 * (h * u)
    BY <1>1 DEF Normal
  <2>5. 2 * (h * u) <= h * v
    <3>1. h * (2 * u) <= h * v
      BY <1>1, <2>1
    <3>2. h * (2 * u) = 2 * (h * u)
      BY <1>1
    <3> QED
      BY <3>1, <3>2
  <2>6. h * u \in Nat /\ h * v \in Nat
    BY <1>1
  <2> QED
    BY <2>3, <2>4, <2>5, <2>6
<1>6. v <= u
  BY <1>1, <1>2, <1>5
<1> QED
  BY <1>6 DEF u, v

-----------------------------------------------------------------------------
(* Rounding of all numbers: Ulp and Round for a client with 2 * h          *)
(* significands.                                                           *)

UlpOf(h, n) == Spacing(2 * h)[Abs(n)]
RoundOf(h, n) ==
    IF n < 0 THEN -RoundAbs(-n, UlpOf(h, n)) ELSE RoundAbs(n, UlpOf(h, n))

LEMMA AbsNat ==
    ASSUME NEW n \in Int
    PROVE  /\ Abs(n) \in Nat
           /\ n < 0 => Abs(n) = -n
           /\ n >= 0 => Abs(n) = n
BY DEF Abs

LEMMA UlpNat ==
    ASSUME NEW h \in Nat \ {0}, NEW n \in Int
    PROVE  UlpOf(h, n) \in Nat \ {0}
BY AbsNat, SpacingNat DEF UlpOf

LEMMA UlpMonotone ==
    ASSUME NEW h \in Nat \ {0}, NEW n \in Int, NEW m \in Int, Abs(n) <= Abs(m)
    PROVE  UlpOf(h, n) <= UlpOf(h, m)
BY AbsNat, SpacingMonotone DEF UlpOf

\* Rounding keeps the sign and rounds the size.
LEMMA RoundSigned ==
    ASSUME NEW h \in Nat \ {0}, NEW n \in Int
    PROVE  \E r \in Nat :
              /\ Nearest(Abs(n), UlpOf(h, n), r)
              /\ RoundOf(h, n) = IF n < 0 THEN -r ELSE r
<1> DEFINE v == UlpOf(h, n)
           r == RoundAbs(Abs(n), v)
<1>1. Abs(n) \in Nat /\ v \in Nat \ {0}
  BY AbsNat, UlpNat
<1>2. Nearest(Abs(n), v, r)
  BY <1>1, RoundAbsNearest
<1>3. r \in Nat
  BY <1>1, <1>2, NearestError
<1>4. RoundOf(h, n) = IF n < 0 THEN -r ELSE r
  <2>1. CASE n < 0
    <3>1. Abs(n) = -n
      BY <2>1, AbsNat
    <3> QED
      BY <2>1, <3>1 DEF RoundOf
  <2>2. CASE ~ (n < 0)
    <3>1. Abs(n) = n
      BY <2>2, AbsNat
    <3> QED
      BY <2>2, <3>1 DEF RoundOf
  <2> QED
    BY <2>1, <2>2
<1> QED
  BY <1>2, <1>3, <1>4

\* An addition is wrong by at most half the distance at the exact sum.
LEMMA RoundError ==
    ASSUME NEW h \in Nat \ {0}, NEW n \in Int
    PROVE  /\ RoundOf(h, n) \in Int
           /\ 2 * (RoundOf(h, n) - n) <= UlpOf(h, n)
           /\ 2 * (n - RoundOf(h, n)) <= UlpOf(h, n)
<1> DEFINE v == UlpOf(h, n)
<1>1. PICK r \in Nat :
        Nearest(Abs(n), v, r) /\ RoundOf(h, n) = IF n < 0 THEN -r ELSE r
  BY RoundSigned
<1>2. v \in Nat \ {0} /\ Abs(n) \in Nat
  BY AbsNat, UlpNat
<1> HIDE DEF v
<1>3. 2 * (r - Abs(n)) <= v /\ 2 * (Abs(n) - r) <= v
  BY <1>1, <1>2, NearestError
<1>4. RoundOf(h, n) \in Int /\ 2 * (RoundOf(h, n) - n) <= v /\ 2 * (n - RoundOf(h, n)) <= v
  <2>1. CASE n < 0
    <3>1. Abs(n) = -n /\ RoundOf(h, n) = -r
      BY <1>1, <2>1, AbsNat
    <3> QED
      BY <1>2, <1>3, <3>1
  <2>2. CASE ~ (n < 0)
    <3>1. Abs(n) = n /\ RoundOf(h, n) = r
      BY <1>1, <2>2, AbsNat
    <3> QED
      BY <1>2, <1>3, <3>1
  <2> QED
    BY <2>1, <2>2
<1> QED
  BY <1>4 DEF v

\* The distance at the exact sum is at most the one at the rounded sum.
LEMMA RoundCoarser ==
    ASSUME NEW h \in Nat \ {0}, NEW n \in Int
    PROVE  UlpOf(h, n) <= UlpOf(h, RoundOf(h, n))
<1>1. PICK r \in Nat :
        Nearest(Abs(n), UlpOf(h, n), r) /\ RoundOf(h, n) = IF n < 0 THEN -r ELSE r
  BY RoundSigned
<1>2. Abs(RoundOf(h, n)) = r
  BY <1>1 DEF Abs
<1>3. Abs(n) \in Nat
  BY AbsNat
<1>4. Nearest(Abs(n), Spacing(2 * h)[Abs(n)], r)
  BY <1>1 DEF UlpOf
<1>5. Spacing(2 * h)[Abs(n)] <= Spacing(2 * h)[r]
  BY <1>3, <1>4, RoundAbsCoarser
<1> QED
  BY <1>2, <1>5 DEF UlpOf

\* Rounding does not cross what another number was rounded to.
LEMMA RoundBeside ==
    ASSUME NEW h \in Nat \ {0}, NEW n \in Int, NEW y \in Int
    PROVE  /\ n <= RoundOf(h, y) => RoundOf(h, n) <= RoundOf(h, y)
           /\ RoundOf(h, y) <= n => RoundOf(h, y) <= RoundOf(h, n)
<1>1. PICK r \in Nat :
        Nearest(Abs(n), UlpOf(h, n), r) /\ RoundOf(h, n) = IF n < 0 THEN -r ELSE r
  BY RoundSigned
<1>2. PICK b \in Nat :
        Nearest(Abs(y), UlpOf(h, y), b) /\ RoundOf(h, y) = IF y < 0 THEN -b ELSE b
  BY RoundSigned
<1>3. Abs(n) \in Nat /\ Abs(y) \in Nat
  BY AbsNat
<1>4. Number(h, b)
  <2>1. Nearest(Abs(y), Spacing(2 * h)[Abs(y)], b)
    BY <1>2 DEF UlpOf
  <2> QED
    BY <1>3, <2>1, RoundIsNumber
<1>5. (Abs(n) <= b => r <= b) /\ (b <= Abs(n) => b <= r)
  <2>1. Nearest(Abs(n), Spacing(2 * h)[Abs(n)], r)
    BY <1>1 DEF UlpOf
  <2> QED
    BY <1>3, <1>4, <2>1, RoundAbsBeside
<1>6. Abs(n) = IF n < 0 THEN -n ELSE n
  BY DEF Abs
<1>7. RoundOf(h, n) = IF n < 0 THEN -r ELSE r
  BY <1>1
<1>8. RoundOf(h, y) = IF y < 0 THEN -b ELSE b
  BY <1>2
<1> QED
  BY <1>5, <1>6, <1>7, <1>8

-----------------------------------------------------------------------------
(* The loop.                                                               *)

\* p additions of s, each wrong by at most c / 2 as long as the sum is at most lim,
\* have led from l to y; only the last one has passed lim.
Progress(l, lim, s, c, p, y) ==
    /\ y <= lim => /\ p * (2 * s - c) <= 2 * (y - l)
                   /\ 2 * (y - l) <= p * (2 * s + c)
    /\ y > lim => /\ (p - 1) * (2 * s - c) <= 2 * (lim - l)
                  /\ p * (2 * s + c) > 2 * (lim - l)

LEMMA ProgressStart ==
    ASSUME NEW l \in Int, NEW lim \in Int, NEW s \in Int, NEW c \in Nat, l <= lim
    PROVE  Progress(l, lim, s, c, 0, l)
<1>1. 0 * (2 * s - c) = 0 /\ 0 * (2 * s + c) = 0
  OBVIOUS
<1> QED
  BY <1>1 DEF Progress

LEMMA ProgressStep ==
    ASSUME NEW l \in Int, NEW lim \in Int, NEW s \in Int, NEW c \in Nat,
           NEW p \in Nat, NEW y \in Int, NEW z \in Int,
           Progress(l, lim, s, c, p, y), y <= lim,
           z <= lim => 2 * (z - (y + s)) <= c /\ 2 * ((y + s) - z) <= c,
           z > lim => y + s > lim
    PROVE  Progress(l, lim, s, c, p + 1, z)
<1> DEFINE least == 2 * s - c
           most == 2 * s + c
           a == p * least
           b == p * most
<1>1. least \in Int /\ most \in Int /\ a \in Int /\ b \in Int
  OBVIOUS
<1>2. (p + 1) * least = a + least /\ (p + 1) * most = b + most
  BY <1>1
<1>3. ((p + 1) - 1) * least = a
  OBVIOUS
<1>4. a <= 2 * (y - l) /\ 2 * (y - l) <= b
  BY DEF Progress
<1> HIDE DEF a, b
<1>5. z <= lim => a + least <= 2 * (z - l) /\ 2 * (z - l) <= b + most
  BY <1>1, <1>4
<1>6. z > lim => a <= 2 * (lim - l) /\ b + most > 2 * (lim - l)
  BY <1>1, <1>4
<1> HIDE DEF least, most
<1>7. /\ z <= lim => /\ (p + 1) * least <= 2 * (z - l)
                     /\ 2 * (z - l) <= (p + 1) * most
      /\ z > lim => /\ ((p + 1) - 1) * least <= 2 * (lim - l)
                    /\ (p + 1) * most > 2 * (lim - l)
  BY <1>2, <1>3, <1>5, <1>6
<1> QED
  BY <1>7 DEF Progress, least, most

\* The size is no larger between two numbers than at one of them.
LEMMA AbsBetween ==
    ASSUME NEW a \in Int, NEW b \in Int, NEW z \in Int, a <= z, z <= b
    PROVE  Abs(z) <= Abs(IF Abs(a) > Abs(b) THEN a ELSE b)
BY DEF Abs

\* The types, and lo is a number of the client.
GridTypes ==
    /\ client \in Clients
    /\ pc \in {"enter", "loop", "done", "bad_alloc"}
    /\ lo \in Int /\ hi \in Int /\ step \in Int /\ x \in Int
    /\ points \in Nat
    /\ \E l \in Int : lo = Round(l)

\* Where the loop is, and why it was left.
LoopEnds ==
    /\ pc = "loop" => step > 0
    /\ pc = "done" /\ step > 0 => x > Limit
    /\ pc = "bad_alloc" => step > 0 /\ points = MaxPoints /\ x <= Limit

\* The additions so far.
Added ==
    pc # "enter" /\ step > 0 =>
        /\ lo <= x
        /\ lo <= Limit /\ 2 * step > Coarsest =>
               Progress(lo, Limit, step, Coarsest, points, x)

GridInv == GridTypes /\ LoopEnds /\ Added

\* Half of the number of significands.
HalfWide == Significands[client] \div 2

\* Ulp and Round are those of the lemmas.
LEMMA ClientRounding ==
    ASSUME client \in Clients
    PROVE  /\ HalfWide \in Nat \ {0}
           /\ \A n \in Int : Ulp(n) = UlpOf(HalfWide, n)
           /\ \A n \in Int : Round(n) = RoundOf(HalfWide, n)
<1> DEFINE w == Significands[client]
<1>1. w \in Nat \ {0} /\ w % 2 = 0
  BY ClientGridAssumption
<1>2. HalfWide \in Nat \ {0} /\ w = 2 * HalfWide
  BY <1>1 DEF HalfWide
<1>3. \A n \in Int : Ulp(n) = UlpOf(HalfWide, n)
  BY <1>2 DEF Ulp, UlpOf
<1> QED
  BY <1>2, <1>3 DEF Round, RoundOf

LEMMA RoundInt ==
    ASSUME client \in Clients, NEW n \in Int
    PROVE  Round(n) \in Int
BY ClientRounding, RoundError

LEMMA LimitTypes ==
    ASSUME GridTypes
    PROVE  Limit \in Int /\ Coarsest \in Nat \ {0}
<1>1. client \in Clients /\ hi + Eps \in Int /\ lo \in Int
  BY ClientGridAssumption DEF GridTypes
<1>2. Limit \in Int
  BY <1>1, RoundInt DEF Limit
<1>3. (IF Abs(lo) > Abs(Limit) THEN lo ELSE Limit) \in Int
  BY <1>1, <1>2
<1>4. Coarsest \in Nat \ {0}
  BY <1>1, <1>3, ClientRounding, UlpNat DEF Coarsest
<1> QED
  BY <1>2, <1>4

\* One more addition.
LEMMA Addition ==
    ASSUME GridInv, pc = "loop", x <= Limit, NEW z, z = Round(x + step)
    PROVE  /\ z \in Int /\ lo <= z
           /\ lo <= Limit /\ 2 * step > Coarsest =>
                  Progress(lo, Limit, step, Coarsest, points + 1, z)
<1> DEFINE h == HalfWide
           n == x + step
           y == hi + Eps
           far == IF Abs(lo) > Abs(Limit) THEN lo ELSE Limit
<1>1. /\ client \in Clients /\ lo \in Int /\ hi \in Int /\ step \in Int /\ x \in Int
      /\ points \in Nat /\ step > 0 /\ lo <= x
  BY ClientGridAssumption DEF GridInv, GridTypes, LoopEnds, Added
<1>2. Limit \in Int /\ Coarsest \in Nat
  BY LimitTypes DEF GridInv
<1>3. n \in Int /\ y \in Int /\ far \in Int
  BY <1>1, <1>2, ClientGridAssumption
<1>4. h \in Nat \ {0}
  BY <1>1, ClientRounding
<1>5. z = RoundOf(h, n) /\ Limit = RoundOf(h, y) /\ Coarsest = UlpOf(h, far)
  BY <1>1, <1>3, ClientRounding DEF Limit, Coarsest
<1>6. PICK l \in Int : lo = RoundOf(h, l)
  BY <1>1, ClientRounding DEF GridInv, GridTypes
<1>7. lo <= n
  BY <1>1
<1> HIDE DEF h, n, y
<1>8. z \in Int /\ 2 * (z - n) <= UlpOf(h, n) /\ 2 * (n - z) <= UlpOf(h, n)
  BY <1>3, <1>4, <1>5, RoundError
<1>9. lo <= z
  BY <1>3, <1>4, <1>5, <1>6, <1>7, RoundBeside
<1>10. z > Limit => n > Limit
  <2>1. n <= Limit => z <= Limit
    BY <1>3, <1>4, <1>5, RoundBeside
  <2> QED
    BY <1>2, <1>3, <1>8, <2>1
<1>11. ASSUME z <= Limit PROVE 2 * (z - n) <= Coarsest /\ 2 * (n - z) <= Coarsest
  <2>1. UlpOf(h, n) <= UlpOf(h, z)
    BY <1>3, <1>4, <1>5, RoundCoarser
  <2>2. Abs(z) <= Abs(far)
    BY <1>1, <1>2, <1>8, <1>9, <1>11, AbsBetween
  <2> HIDE DEF far
  <2>3. UlpOf(h, z) <= UlpOf(h, far)
    BY <1>3, <1>4, <1>8, <2>2, UlpMonotone
  <2>4. UlpOf(h, n) \in Nat /\ UlpOf(h, z) \in Nat /\ UlpOf(h, far) \in Nat
    BY <1>3, <1>4, <1>8, UlpNat
  <2> QED
    BY <1>3, <1>5, <1>8, <2>1, <2>3, <2>4
<1>12. ASSUME lo <= Limit, 2 * step > Coarsest
       PROVE  Progress(lo, Limit, step, Coarsest, points + 1, z)
  <2>1. Progress(lo, Limit, step, Coarsest, points, x)
    BY <1>1, <1>12 DEF GridInv, Added
  <2>2. z <= Limit => 2 * (z - (x + step)) <= Coarsest /\ 2 * ((x + step) - z) <= Coarsest
    BY <1>11 DEF n
  <2>3. z > Limit => x + step > Limit
    BY <1>10 DEF n
  <2> QED
    BY <1>1, <1>2, <1>8, <2>1, <2>2, <2>3, ProgressStep
<1> QED
  BY <1>8, <1>9, <1>12

\* No step changes the arguments, the limit or the coarsest distance.
LEMMA ArgumentsKept ==
    ASSUME [Next]_vars
    PROVE  /\ client' = client /\ lo' = lo /\ hi' = hi /\ step' = step
           /\ Limit' = Limit /\ Coarsest' = Coarsest
           /\ (\E l \in Int : lo = Round(l)) => (\E l \in Int : lo' = Round(l)')
<1>1. client' = client /\ lo' = lo /\ hi' = hi /\ step' = step
  BY DEF Next, Enter, AddPoint, Leave, Ended, vars
<1>2. Limit' = Limit
  BY <1>1 DEF Limit, Round, Ulp
<1>3. Coarsest' = Coarsest
  BY <1>1, <1>2 DEF Coarsest, Ulp
<1>4. \A l \in Int : Round(l)' = Round(l)
  BY <1>1 DEF Round, Ulp
<1> QED
  BY <1>1, <1>2, <1>3, <1>4

LEMMA GridInit ==
    ASSUME Init
    PROVE  GridInv
<1>1. client \in Clients
  BY DEF Init
<1>2. PICK l \in Los, s \in Spans : lo = Round(l) /\ hi = Round(l + s)
  BY DEF Init
<1>3. PICK t \in Steps : step = Round(t)
  BY DEF Init
<1>4. l \in Int /\ l + s \in Int /\ t \in Int
  BY ClientGridAssumption
<1>5. lo \in Int /\ hi \in Int /\ step \in Int
  BY <1>1, <1>2, <1>3, <1>4, RoundInt
<1>6. GridTypes
  BY <1>1, <1>2, <1>4, <1>5, ClientGridAssumption DEF Init, GridTypes
<1> QED
  BY <1>6 DEF Init, GridInv, LoopEnds, Added

LEMMA GridStep ==
    ASSUME GridInv, [Next]_vars
    PROVE  GridInv'
<1>1. /\ client' = client /\ lo' = lo /\ hi' = hi /\ step' = step
      /\ Limit' = Limit /\ Coarsest' = Coarsest
      /\ (\E l \in Int : lo = Round(l)) => (\E l \in Int : lo' = Round(l)')
  BY ArgumentsKept
<1>2. /\ GridTypes /\ LoopEnds /\ Added
      /\ lo \in Int /\ step \in Int /\ x \in Int /\ points \in Nat
      /\ Limit \in Int /\ Coarsest \in Nat
  BY LimitTypes DEF GridInv, GridTypes
<1>3. ASSUME pc' \in {"enter", "loop", "done", "bad_alloc"}, x' \in Int, points' \in Nat
      PROVE  GridTypes'
  BY <1>1, <1>2, <1>3 DEF GridTypes
<1>4. CASE Enter
  <2>1. \/ pc' = "done" /\ points' = 1 /\ step <= 0
        \/ pc' = "loop" /\ points' = 0 /\ ~ (step <= 0)
    BY <1>4 DEF Enter, OnePoint
  <2>2. x' = lo
    BY <1>4 DEF Enter
  <2>3. GridTypes'
    BY <1>2, <1>3, <2>1, <2>2
  <2>4. LoopEnds'
    BY <1>1, <1>2, <2>1 DEF LoopEnds
  <2>5. ASSUME step > 0, lo <= Limit
        PROVE  Progress(lo, Limit, step, Coarsest, points', x')
    <3>1. points' = 0
      BY <1>2, <2>1, <2>5
    <3>2. Progress(lo, Limit, step, Coarsest, 0, lo)
      BY <1>2, <2>5, ProgressStart
    <3> QED
      BY <2>2, <3>1, <3>2
  <2>6. Added'
    BY <1>1, <1>2, <2>2, <2>5 DEF Added
  <2> QED
    BY <2>3, <2>4, <2>6 DEF GridInv
<1>5. CASE AddPoint
  <2>1. pc = "loop" /\ x <= Limit /\ step > 0
    BY <1>2, <1>5 DEF AddPoint, InRange, Limit, LoopEnds
  <2>2. CASE points' = points + 1 /\ x' = Round(x + step) /\ pc' = pc
    <3>1. /\ x' \in Int /\ lo <= x'
          /\ lo <= Limit /\ 2 * step > Coarsest =>
                 Progress(lo, Limit, step, Coarsest, points + 1, x')
      BY <2>1, <2>2, Addition
    <3>2. GridTypes'
      BY <1>2, <1>3, <2>1, <2>2, <3>1
    <3>3. LoopEnds'
      BY <1>1, <2>1, <2>2 DEF LoopEnds
    <3>4. Added'
      BY <1>1, <2>2, <3>1 DEF Added
    <3> QED
      BY <3>2, <3>3, <3>4 DEF GridInv
  <2>3. CASE points = MaxPoints /\ pc' = "bad_alloc" /\ UNCHANGED <<points, x>>
    <3>1. GridTypes'
      BY <1>2, <1>3, <2>3
    <3>2. LoopEnds'
      <4>1. MaxPoints' = MaxPoints
        OBVIOUS
      <4> QED
        BY <1>1, <2>1, <2>3, <4>1 DEF LoopEnds
    <3>3. Added'
      BY <1>1, <1>2, <2>1, <2>3 DEF Added
    <3> QED
      BY <3>1, <3>2, <3>3 DEF GridInv
  <2> QED
    BY <1>5, <2>2, <2>3 DEF AddPoint
<1>6. CASE Leave
  <2>1. pc = "loop" /\ pc' = "done" /\ x' = x /\ points' = points /\ ~ (x <= Limit)
    BY <1>6 DEF Leave, InRange, Limit
  <2>2. GridTypes'
    BY <1>2, <1>3, <2>1
  <2>3. LoopEnds'
    BY <1>1, <1>2, <2>1 DEF LoopEnds
  <2>4. Added'
    BY <1>1, <1>2, <2>1 DEF Added
  <2> QED
    BY <2>2, <2>3, <2>4 DEF GridInv
<1>7. CASE Ended \/ UNCHANGED vars
  <2>1. pc' = pc /\ x' = x /\ points' = points
    BY <1>7 DEF Ended, vars
  <2>2. GridTypes'
    BY <1>2, <1>3, <2>1 DEF GridTypes
  <2>3. LoopEnds'
    BY <1>1, <1>2, <2>1 DEF LoopEnds
  <2>4. Added'
    BY <1>1, <1>2, <2>1 DEF Added
  <2> QED
    BY <2>2, <2>3, <2>4 DEF GridInv
<1> QED
  BY <1>4, <1>5, <1>6, <1>7 DEF Next

LEMMA GridAlways == Spec => []GridInv
<1>1. Init => GridInv
  BY GridInit
<1>2. GridInv /\ [Next]_vars => GridInv'
  BY GridStep
<1> QED
  BY <1>1, <1>2, PTL DEF Spec

-----------------------------------------------------------------------------
\* For every client, range, step and memory, the loop of grid_values leaves the
\* number of points that the range and the step ask for, up to the rounding of the
\* additions.
THEOREM PointsCounted == Spec => []GridSize
<1>1. GridInv => GridSize
  <2> SUFFICES ASSUME GridInv, pc = "done", step > 0, lo <= Limit, 2 * step > Coarsest
               PROVE  /\ (points - 1) * (2 * step - Coarsest) <= 2 * (Limit - lo)
                      /\ points * (2 * step + Coarsest) > 2 * (Limit - lo)
    BY DEF GridSize
  <2>1. x > Limit
    BY DEF GridInv, LoopEnds
  <2>2. Progress(lo, Limit, step, Coarsest, points, x)
    BY DEF GridInv, Added
  <2> QED
    BY <2>1, <2>2 DEF Progress
<1> QED
  BY <1>1, GridAlways, PTL

\* The memory is filled only with a step of at most half the coarsest distance, or
\* by a range with more points than fit.
THEOREM MemorySuffices == Spec => []GridEnds
<1>1. GridInv => GridEnds
  <2> SUFFICES ASSUME GridInv, pc = "bad_alloc"
               PROVE  /\ step > 0
                      /\ \/ 2 * step <= Coarsest
                         \/ MaxPoints * (2 * step - Coarsest) <= 2 * (Limit - lo)
    BY DEF GridEnds
  <2>1. step > 0 /\ points = MaxPoints /\ x <= Limit /\ lo <= x
    BY DEF GridInv, LoopEnds, Added
  <2>2. /\ lo \in Int /\ step \in Int /\ x \in Int /\ MaxPoints \in Nat
        /\ Limit \in Int /\ Coarsest \in Nat
    BY LimitTypes, ClientGridAssumption DEF GridInv, GridTypes
  <2>3. ASSUME 2 * step > Coarsest
        PROVE  MaxPoints * (2 * step - Coarsest) <= 2 * (Limit - lo)
    <3>1. lo <= Limit
      BY <2>1, <2>2
    <3>2. Progress(lo, Limit, step, Coarsest, points, x)
      BY <2>1, <2>3, <3>1 DEF GridInv, Added
    <3>3. MaxPoints * (2 * step - Coarsest) <= 2 * (x - lo)
      BY <2>1, <3>2 DEF Progress
    <3>4. MaxPoints * (2 * step - Coarsest) \in Int
      BY <2>2
    <3> QED
      BY <2>1, <2>2, <3>3, <3>4
  <2> QED
    BY <2>1, <2>2, <2>3
<1> QED
  BY <1>1, GridAlways, PTL
=============================================================================
