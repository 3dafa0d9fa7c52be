--------------------------- MODULE SequenceLemmas ---------------------------
(***************************************************************************)
(* Sums of sizes and FlattenSeq, as the log of the server needs them, for  *)
(* sequences of every length.                                              *)
(*                                                                         *)
(* Both are recursive functions.  The induction is by least                *)
(* counterexample: the natural numbers are well founded (WFMin and         *)
(* NatLessThanWellFounded of the library, which take no operator).         *)
(***************************************************************************)
EXTENDS Integers, Sequences, SequencesExt, SequenceTheorems, WellFoundedInduction, TLAPS

\* A set of natural numbers that is not empty has a least element.
LEMMA LeastNat ==
    ASSUME NEW T, T \subseteq Nat, T # {}
    PROVE  \E m \in T : \A k \in T : m <= k
<1> DEFINE R == OpToRel(<, Nat)
<1>1. IsWellFoundedOn(R, Nat)
  BY NatLessThanWellFounded
<1>2. \A x, y \in Nat : <<x, y>> \in R <=> x < y
  BY DEF OpToRel
<1> HIDE DEF R
<1>3. PICK m \in T : \A y \in T : ~ (<<y, m>> \in R)
  BY <1>1, WFMin
<1>4. \A k \in T : ~ (k < m)
  BY <1>2, <1>3
<1> QED
  BY <1>3, <1>4

\* Induction from a up to b: what holds of a, and with k of k + 1, holds as far as b.
LEMMA Climb ==
    ASSUME NEW a \in Nat, NEW b \in Nat, NEW S,
           a \in S,
           \A k \in a .. b - 1 : k \in S => k + 1 \in S
    PROVE  \A k \in a .. b : k \in S
<1> DEFINE T == {k \in a .. b : k \notin S}
<1> SUFFICES ASSUME T # {} PROVE FALSE
  OBVIOUS
<1>1. T \subseteq Nat
  OBVIOUS
<1>2. PICK m \in T : \A k \in T : m <= k
  BY <1>1, LeastNat
<1>3. m \in a .. b /\ m \notin S /\ m # a
  BY <1>2
<1>4. m - 1 \in a .. b - 1 /\ m - 1 \notin T
  BY <1>2, <1>3
<1>5. m - 1 \in S
  BY <1>4
<1>6. (m - 1) + 1 \in S
  BY <1>4, <1>5
<1> QED
  BY <1>3, <1>6

-----------------------------------------------------------------------------
\* f adds up the numbers w[1], w[2], ...
Adds(f, w, n) == f = [k \in 0 .. n |-> IF k = 0 THEN 0 ELSE f[k - 1] + w[k]]

\* There are such sums: the recursive function of a sum is defined.
LEMMA AddsExist ==
    ASSUME NEW n \in Nat, NEW w \in [1 .. n -> Nat]
    PROVE  \E f : Adds(f, w, n)
<1> DEFINE S == {k \in 0 .. n : \E f : Adds(f, w, k)}
<1>1. 0 \in S
  <2> DEFINE g == [k \in 0 .. 0 |-> 0]
  <2>1. g = [k \in 0 .. 0 |-> IF k = 0 THEN 0 ELSE g[k - 1] + w[k]]
    OBVIOUS
  <2>2. Adds(g, w, 0)
    BY <2>1 DEF Adds
  <2> HIDE DEF g
  <2> QED
    BY <2>2
<1>2. ASSUME NEW k \in 0 .. n - 1, k \in S PROVE k + 1 \in S
  <2>1. PICK f : Adds(f, w, k)
    BY <1>2
  <2> DEFINE g == [i \in 0 .. k + 1 |-> IF i = k + 1 THEN f[k] + w[k + 1] ELSE f[i]]
  <2>2. \A i \in 0 .. k : f[i] = IF i = 0 THEN 0 ELSE f[i - 1] + w[i]
    BY <2>1 DEF Adds
  <2>3. ASSUME NEW i \in 0 .. k + 1 
        PROVE g[i] = IF i = 0 THEN 0 ELSE g[i - 1] + w[i]
    <3>1. CASE i = k + 1
      BY <3>1
    <3>2. CASE i # k + 1
      BY <2>2, <3>2
    <3> QED
    BY <3>1, <3>2
  <2>4. g = [i \in 0 .. k + 1 |-> IF i = 0 THEN 0 ELSE g[i - 1] + w[i]]
    BY <2>3
  <2>5. Adds(g, w, k + 1)
    BY <2>4 DEF Adds
  <2> HIDE DEF g
  <2> QED
    BY <2>5
<1>3. \A k \in 0 .. n : k \in S
  <2> HIDE DEF S
  <2> QED
    BY <1>1, <1>2, Climb
<1> QED
    BY <1>3

\* They are natural numbers.
LEMMA AddsNat ==
    ASSUME NEW n \in Nat, NEW w \in [1 .. n -> Nat], NEW f, Adds(f, w, n)
    PROVE  \A k \in 0 .. n : f[k] \in Nat
<1> DEFINE S == {k \in 0 .. n : f[k] \in Nat}
<1>0. \A i \in 0 .. n : f[i] = IF i = 0 THEN 0 ELSE f[i - 1] + w[i]
  BY DEF Adds
<1>1. 0 \in S
  BY <1>0
<1>2. ASSUME NEW k \in 0 .. n - 1, k \in S PROVE k + 1 \in S
  BY <1>0, <1>2
<1>3. \A k \in 0 .. n : k \in S
  <2> HIDE DEF S
  <2> QED
    BY <1>1, <1>2, Climb
<1> QED
    BY <1>3

\* One number more is added to the sum of the others.
LEMMA AddsOneMore ==
    ASSUME NEW n \in Nat, NEW w \in [1 .. n -> Nat], NEW v \in [1 .. n + 1 -> Nat],
           NEW f, Adds(f, w, n), NEW g, Adds(g, v, n + 1),
           \A k \in 1 .. n : w[k] = v[k]
    PROVE  g[n + 1] = f[n] + v[n + 1]
<1> DEFINE S == {k \in 0 .. n : f[k] = g[k]}
<1>1. \A i \in 0 .. n : f[i] = IF i = 0 THEN 0 ELSE f[i - 1] + w[i]
  BY DEF Adds
<1>2. \A i \in 0 .. n + 1 : g[i] = IF i = 0 THEN 0 ELSE g[i - 1] + v[i]
  BY DEF Adds
<1>3. 0 \in S
  BY <1>1, <1>2
<1>4. ASSUME NEW k \in 0 .. n - 1, k \in S PROVE k + 1 \in S
  <2>1. f[k + 1] = f[k] + w[k + 1]
    BY <1>1
  <2>2. g[k + 1] = g[k] + v[k + 1]
    BY <1>2
  <2>3. w[k + 1] = v[k + 1] /\ f[k] = g[k]
    BY <1>4
  <2> QED
    BY <2>1, <2>2, <2>3
<1>5. \A k \in 0 .. n : k \in S
  <2> HIDE DEF S
  <2> QED
    BY <1>3, <1>4, Climb
<1>6. g[n + 1] = g[n] + v[n + 1]
  BY <1>2
<1> QED
  BY <1>5, <1>6

-----------------------------------------------------------------------------
\* Concatenation, kept folded: the provers then use only what CatEmpty says.
Cat(s, t) == s \o t

\* Concatenation of sequences over S is a sequence over S.
LEMMA CatType ==
    ASSUME NEW S, NEW s \in Seq(S), NEW t \in Seq(S)
    PROVE  Cat(s, t) \in Seq(S)
BY DEF Cat

\* Only nothing and nothing make nothing.
LEMMA CatEmpty ==
    ASSUME NEW S, NEW s \in Seq(S), NEW t \in Seq(S)
    PROVE  Cat(s, t) = <<>> <=> s = <<>> /\ t = <<>>
BY ConcatEqualIffEmpty DEF Cat

\* The empty sequence is neutral.
LEMMA CatNothing ==
    ASSUME NEW S, NEW s \in Seq(S)
    PROVE  Cat(s, <<>>) = s /\ Cat(<<>>, s) = s
BY ConcatEmptySeq DEF Cat

\* Concatenation is associative.
LEMMA CatAssociates ==
    ASSUME NEW S, NEW s \in Seq(S), NEW t \in Seq(S), NEW u \in Seq(S)
    PROVE  Cat(Cat(s, t), u) = Cat(s, Cat(t, u))
BY ConcatAssociative DEF Cat

\* f joins the sequences q[1], q[2], ... as FlattenSeq does.
Joins(f, q, n) == f = [i \in 1 .. n |-> IF i = 1 THEN q[i] ELSE Cat(f[i - 1], q[i])]

\* There is such an f: the recursive function of FlattenSeq is defined.
LEMMA JoinsExist ==
    ASSUME NEW n \in Nat \ {0}, NEW q
    PROVE  \E f : Joins(f, q, n)
<1> DEFINE S == {k \in 1 .. n : \E f : Joins(f, q, k)}
<1>1. 1 \in S
  <2> DEFINE g == [i \in 1 .. 1 |-> q[1]]
  <2>1. g = [i \in 1 .. 1 |-> IF i = 1 THEN q[i] ELSE Cat(g[i - 1], q[i])]
    OBVIOUS
  <2>2. Joins(g, q, 1)
    BY <2>1 DEF Joins
  <2> HIDE DEF g
  <2> QED
    BY <2>2
<1>2. ASSUME NEW k \in 1 .. n - 1, k \in S PROVE k + 1 \in S
  <2>1. PICK f : Joins(f, q, k)
    BY <1>2
  <2> DEFINE g == [i \in 1 .. k + 1 |-> IF i = k + 1 THEN Cat(f[k], q[k + 1]) ELSE f[i]]
  <2>2. \A i \in 1 .. k : f[i] = IF i = 1 THEN q[i] ELSE Cat(f[i - 1], q[i])
    BY <2>1 DEF Joins
  <2>3. ASSUME NEW i \in 1 .. k + 1
        PROVE  g[i] = IF i = 1 THEN q[i] ELSE Cat(g[i - 1], q[i])
    <3>1. CASE i = k + 1
      BY <3>1
    <3>2. CASE i # k + 1
      BY <2>2, <3>2
    <3> QED
      BY <3>1, <3>2
  <2>4. g = [i \in 1 .. k + 1 |-> IF i = 1 THEN q[i] ELSE Cat(g[i - 1], q[i])]
    BY <2>3
  <2>5. Joins(g, q, k + 1)
    BY <2>4 DEF Joins
  <2> HIDE DEF g
  <2> QED
    BY <2>5
<1>3. \A k \in 1 .. n : k \in S
  <2> HIDE DEF S
  <2> QED
    BY <1>1, <1>2, Climb
<1> QED
  BY <1>3

\* FlattenSeq is the last of them.
LEMMA FlattenJoins ==
    ASSUME NEW n \in Nat \ {0}, NEW S, NEW q \in [1 .. n -> Seq(S)]
    PROVE  \E f : /\ Joins(f, q, n)
                  /\ FlattenSeq(q) = f[n]
<1> DEFINE f == CHOOSE g : Joins(g, q, n)
<1>1. Joins(f, q, n)
  BY JoinsExist
<1>2. Len(q) = n
  OBVIOUS
<1>3. FlattenSeq(q) = f[n]
  BY <1>2 DEF FlattenSeq, Joins, Cat
<1> HIDE DEF f
<1> QED
  BY <1>1, <1>3

\* What that says, step by step.
Joined(f, q, n, S) ==
    /\ f[1] = q[1]
    /\ \A i \in 1 .. n - 1 : f[i + 1] = Cat(f[i], q[i + 1])
    /\ \A i \in 1 .. n : f[i] \in Seq(S)

\* Every f that joins q has these values, all of them sequences over S.
LEMMA JoinsUnfold ==
    ASSUME NEW n \in Nat \ {0}, NEW S, NEW q \in [1 .. n -> Seq(S)], NEW f, Joins(f, q, n)
    PROVE  Joined(f, q, n, S)
<1>0. \A i \in 1 .. n : f[i] = IF i = 1 THEN q[i] ELSE Cat(f[i - 1], q[i])
  BY DEF Joins
<1>1. f[1] = q[1]
  BY <1>0
<1>2. \A i \in 1 .. n - 1 : f[i + 1] = Cat(f[i], q[i + 1])
  BY <1>0
<1> DEFINE T == {k \in 1 .. n : f[k] \in Seq(S)}
<1>3. 1 \in T
  BY <1>1
<1>4. ASSUME NEW k \in 1 .. n - 1, k \in T PROVE k + 1 \in T
  <2>1. f[k] \in Seq(S) /\ q[k + 1] \in Seq(S)
    BY <1>4
  <2>2. Cat(f[k], q[k + 1]) \in Seq(S)
    BY <2>1, CatType
  <2> QED
    BY <1>2, <2>2
<1>5. \A k \in 1 .. n : k \in T
  <2> HIDE DEF T
  <2> QED
    BY <1>3, <1>4, Climb
<1> QED
  BY <1>1, <1>2, <1>5 DEF Joined

\* Where f is p and then g, it stays so while the parts are the same.
Follows(f, q, g, r, n, S) ==
    \A a, b \in 1 .. n, p \in Seq(S) :
        a <= b /\ f[a] = Cat(p, g[a]) /\ (\A i \in a + 1 .. b : q[i] = r[i])
            => f[b] = Cat(p, g[b])

\* Two joinings that differ by a front p do so as far as their parts agree.
LEMMA JoinsFollow ==
    ASSUME NEW n \in Nat \ {0}, NEW S,
           NEW q \in [1 .. n -> Seq(S)], NEW f, Joins(f, q, n),
           NEW r \in [1 .. n -> Seq(S)], NEW g, Joins(g, r, n)
    PROVE  Follows(f, q, g, r, n, S)
<1> SUFFICES ASSUME NEW a \in 1 .. n, NEW b \in 1 .. n, NEW p \in Seq(S),
                    a <= b, f[a] = Cat(p, g[a]), \A i \in a + 1 .. b : q[i] = r[i]
             PROVE  f[b] = Cat(p, g[b])
  BY DEF Follows
<1> DEFINE T == {k \in a .. b : f[k] = Cat(p, g[k])}
<1>f. Joined(f, q, n, S)
  BY JoinsUnfold
<1>g. Joined(g, r, n, S)
  BY JoinsUnfold
<1>1. a \in T
  OBVIOUS
<1>2. ASSUME NEW k \in a .. b - 1, k \in T PROVE k + 1 \in T
  <2>0. k \in 1 .. n - 1 /\ k + 1 \in a + 1 .. b /\ k \in 1 .. n /\ k + 1 \in 1 .. n
    OBVIOUS
  <2>1. f[k + 1] = Cat(f[k], q[k + 1])
    BY <2>0, <1>f DEF Joined
  <2>2. g[k + 1] = Cat(g[k], r[k + 1]) /\ g[k] \in Seq(S)
    BY <2>0, <1>g DEF Joined
  <2>3. q[k + 1] = r[k + 1] /\ r[k + 1] \in Seq(S)
    BY <2>0
  <2>4. Cat(Cat(p, g[k]), r[k + 1]) = Cat(p, Cat(g[k], r[k + 1]))
    BY <2>2, <2>3, CatAssociates
  <2>5. f[k] = Cat(p, g[k])
    BY <1>2
  <2> QED
    BY <2>0, <2>1, <2>2, <2>3, <2>4, <2>5
<1>3. \A k \in a .. b : k \in T
  <2> HIDE DEF T
  <2>1. a \in Nat /\ b \in Nat
    OBVIOUS
  <2> QED
    BY <1>1, <1>2, <2>1, Climb
<1>4. b \in T
  BY <1>3
<1> QED
  BY <1>4

\* A part that is not empty leaves what is joined not empty.
LEMMA JoinsNonEmpty ==
    ASSUME NEW n \in Nat \ {0}, NEW S, NEW q \in [1 .. n -> Seq(S)], NEW f, Joins(f, q, n),
           NEW j \in 1 .. n, q[j] # <<>>
    PROVE  f[n] # <<>>
<1> DEFINE T == {k \in j .. n : f[k] # <<>>}
<1>f. Joined(f, q, n, S)
  BY JoinsUnfold
<1>1. j \in T
  <2>1. CASE j = 1
    BY <2>1, <1>f DEF Joined
  <2>2. CASE j # 1
    <3>1. j - 1 \in 1 .. n - 1 /\ j - 1 \in 1 .. n /\ (j - 1) + 1 = j
      BY <2>2
    <3>2. f[j] = Cat(f[j - 1], q[j]) /\ f[j - 1] \in Seq(S) /\ q[j] \in Seq(S)
      BY <3>1, <1>f DEF Joined
    <3>3. Cat(f[j - 1], q[j]) # <<>>
      BY <3>2, CatEmpty
    <3> QED
      BY <3>2, <3>3
  <2> QED
    BY <2>1, <2>2
<1>2. ASSUME NEW k \in j .. n - 1, k \in T PROVE k + 1 \in T
  <2>1. k \in 1 .. n - 1 /\ k \in 1 .. n /\ k + 1 \in j .. n /\ k + 1 \in 1 .. n
    OBVIOUS
  <2>2. f[k + 1] = Cat(f[k], q[k + 1]) /\ f[k] \in Seq(S) /\ q[k + 1] \in Seq(S)
    BY <2>1, <1>f DEF Joined
  <2>3. f[k] # <<>>
    BY <1>2
  <2>4. Cat(f[k], q[k + 1]) # <<>>
    BY <2>2, <2>3, CatEmpty
  <2> QED
    BY <2>1, <2>2, <2>4
<1>3. \A k \in j .. n : k \in T
  <2> HIDE DEF T
  <2>1. j \in Nat /\ n \in Nat
    OBVIOUS
  <2> QED
    BY <1>1, <1>2, <2>1, Climb
<1>4. n \in T
  BY <1>3
<1> QED
  BY <1>4

\* FlattenSeq of sequences over S is one.
LEMMA FlattenType ==
    ASSUME NEW n \in Nat \ {0}, NEW S, NEW q \in [1 .. n -> Seq(S)]
    PROVE  FlattenSeq(q) \in Seq(S)
<1>1. PICK f : Joins(f, q, n) /\ FlattenSeq(q) = f[n]
  BY FlattenJoins
<1>2. Joined(f, q, n, S)
  BY <1>1, JoinsUnfold
<1> QED
  BY <1>1, <1>2 DEF Joined

\* It is not empty when some part is not.
LEMMA FlattenNonEmpty ==
    ASSUME NEW n \in Nat \ {0}, NEW S, NEW q \in [1 .. n -> Seq(S)],
           NEW j \in 1 .. n, q[j] # <<>>
    PROVE  FlattenSeq(q) # <<>>
<1>1. PICK f : Joins(f, q, n) /\ FlattenSeq(q) = f[n]
  BY FlattenJoins
<1>2. f[n] # <<>>
  BY <1>1, JoinsNonEmpty
<1> QED
  BY <1>1, <1>2

\* It is empty when every part is.
LEMMA FlattenNothing ==
    ASSUME NEW n \in Nat \ {0}, NEW S, NEW q \in [1 .. n -> Seq(S)],
           \A i \in 1 .. n : q[i] = <<>>
    PROVE  FlattenSeq(q) = <<>>
<1>1. PICK f : Joins(f, q, n) /\ FlattenSeq(q) = f[n]
  BY FlattenJoins
<1>2. Joined(f, q, n, S)
  BY <1>1, JoinsUnfold
<1> DEFINE T == {k \in 1 .. n : f[k] = <<>>}
<1>3. 1 \in T
  BY <1>2 DEF Joined
<1>4. ASSUME NEW k \in 1 .. n - 1, k \in T PROVE k + 1 \in T
  <2>1. f[k + 1] = Cat(f[k], q[k + 1]) /\ f[k] = <<>> /\ q[k + 1] = <<>> /\ k + 1 \in 1 .. n
    BY <1>2, <1>4 DEF Joined
  <2>2. <<>> \in Seq(S)
    OBVIOUS
  <2>3. Cat(<<>>, <<>>) = <<>>
    BY <2>2, CatNothing
  <2> QED
    BY <2>1, <2>3
<1>5. \A k \in 1 .. n : k \in T
  <2> HIDE DEF T
  <2> QED
    BY <1>3, <1>4, Climb
<1> QED
  BY <1>1, <1>5

\* How the parts q become r: the last one grows by b; the first is gone; part
\* j + 1 moves to j.
Grows(q, r, n, b) ==
    /\ \A i \in 1 .. n - 1 : q[i] = r[i]
    /\ r[n] = Cat(q[n], b)

Drops(q, r, n) ==
    /\ r[1] = <<>>
    /\ \A i \in 2 .. n : q[i] = r[i]

Moves(q, r, n, j) ==
    /\ q[j] = <<>> /\ r[j] = q[j + 1] /\ r[j + 1] = <<>>
    /\ \A i \in 1 .. n : i # j /\ i # j + 1 => q[i] = r[i]

\* The last part grows at its end, and so does the whole.
LEMMA FlattenLast ==
    ASSUME NEW n \in Nat \ {0}, n > 1, NEW S,
           NEW q \in [1 .. n -> Seq(S)], NEW r \in [1 .. n -> Seq(S)], NEW b \in Seq(S),
           Grows(q, r, n, b)
    PROVE  FlattenSeq(r) = Cat(FlattenSeq(q), b)
<1> USE DEF Grows
<1>1. PICK f : Joins(f, q, n) /\ FlattenSeq(q) = f[n]
  BY FlattenJoins
<1>2. PICK g : Joins(g, r, n) /\ FlattenSeq(r) = g[n]
  BY FlattenJoins
<1>f. Joined(f, q, n, S)
  BY <1>1, JoinsUnfold
<1>g. Joined(g, r, n, S)
  BY <1>2, JoinsUnfold
<1>h. Follows(f, q, g, r, n, S)
  BY <1>1, <1>2, JoinsFollow
<1>3. 1 \in 1 .. n /\ n - 1 \in 1 .. n /\ n \in 1 .. n /\ n - 1 \in 1 .. n - 1
      /\ 1 <= n - 1 /\ (n - 1) + 1 = n /\ 1 \in 1 .. n - 1
  OBVIOUS
<1>4. <<>> \in Seq(S) /\ f[1] = Cat(<<>>, g[1])
  BY <1>f, <1>g, <1>3, CatNothing DEF Joined
<1>5. \A i \in 1 + 1 .. n - 1 : q[i] = r[i]
  OBVIOUS
<1>6. f[n - 1] = Cat(<<>>, g[n - 1])
  BY <1>h, <1>3, <1>4, <1>5 DEF Follows
<1>7. f[n - 1] = g[n - 1]
  BY <1>g, <1>3, <1>6, CatNothing DEF Joined
<1>8. f[n] = Cat(f[n - 1], q[n]) /\ g[n] = Cat(g[n - 1], r[n])
  BY <1>f, <1>g, <1>3 DEF Joined
<1>9. Cat(Cat(f[n - 1], q[n]), b) = Cat(f[n - 1], Cat(q[n], b))
  <2>1. f[n - 1] \in Seq(S) /\ q[n] \in Seq(S)
    BY <1>f, <1>3 DEF Joined
  <2> QED
    BY <2>1, CatAssociates
<1> QED
  BY <1>1, <1>2, <1>7, <1>8, <1>9

\* The first part goes, and with it the front of the whole.
LEMMA FlattenFirst ==
    ASSUME NEW n \in Nat \ {0}, n > 1, NEW S,
           NEW q \in [1 .. n -> Seq(S)], NEW r \in [1 .. n -> Seq(S)],
           Drops(q, r, n)
    PROVE  FlattenSeq(q) = Cat(q[1], FlattenSeq(r))
<1> USE DEF Drops
<1>1. PICK f : Joins(f, q, n) /\ FlattenSeq(q) = f[n]
  BY FlattenJoins
<1>2. PICK g : Joins(g, r, n) /\ FlattenSeq(r) = g[n]
  BY FlattenJoins
<1>h. Follows(f, q, g, r, n, S)
  BY <1>1, <1>2, JoinsFollow
<1>3. 1 \in 1 .. n /\ n \in 1 .. n /\ 1 <= n /\ \A i \in 1 + 1 .. n : q[i] = r[i]
  OBVIOUS
<1>f. Joined(f, q, n, S)
  BY <1>1, JoinsUnfold
<1>g. Joined(g, r, n, S)
  BY <1>2, JoinsUnfold
<1>4. f[1] = q[1] /\ g[1] = r[1]
  BY <1>f, <1>g DEF Joined
<1>5. q[1] \in Seq(S) /\ f[1] = Cat(q[1], g[1])
  BY <1>3, <1>4, CatNothing
<1>6. f[n] = Cat(q[1], g[n])
  BY <1>h, <1>3, <1>5 DEF Follows
<1> QED
  BY <1>1, <1>2, <1>6

\* A part moves to its empty neighbour, and the whole stays what it was.
LEMMA FlattenMove ==
    ASSUME NEW n \in Nat \ {0}, NEW S,
           NEW q \in [1 .. n -> Seq(S)], NEW r \in [1 .. n -> Seq(S)], NEW j \in 1 .. n - 1,
           Moves(q, r, n, j)
    PROVE  FlattenSeq(q) = FlattenSeq(r)
<1> USE DEF Moves
<1>1. PICK f : Joins(f, q, n) /\ FlattenSeq(q) = f[n]
  BY FlattenJoins
<1>2. PICK g : Joins(g, r, n) /\ FlattenSeq(r) = g[n]
  BY FlattenJoins
<1>f. Joined(f, q, n, S)
  BY <1>1, JoinsUnfold
<1>g. Joined(g, r, n, S)
  BY <1>2, JoinsUnfold
<1>h. Follows(f, q, g, r, n, S)
  BY <1>1, <1>2, JoinsFollow
<1>3. j \in 1 .. n /\ j + 1 \in 1 .. n /\ n \in 1 .. n /\ 1 \in 1 .. n
  OBVIOUS
<1>4. f[j + 1] = g[j + 1]
  <2>1. f[j + 1] = Cat(f[j], q[j + 1]) /\ g[j + 1] = Cat(g[j], r[j + 1])
    BY <1>f, <1>g DEF Joined
  <2>2. q[j + 1] \in Seq(S) /\ f[j] \in Seq(S) /\ g[j] \in Seq(S)
    BY <1>3, <1>f, <1>g DEF Joined
  <2>3. g[j + 1] = g[j]
    BY <2>1, <2>2, CatNothing
  <2>4. CASE j = 1
    <3>1. f[j] = <<>> /\ g[j] = q[j + 1]
      BY <1>f, <1>g, <2>4 DEF Joined
    <3>2. f[j + 1] = q[j + 1]
      BY <2>1, <2>2, <3>1, CatNothing
    <3> QED
      BY <2>3, <3>1, <3>2
  <2>5. CASE j # 1
    <3>1. j - 1 \in 1 .. n - 1 /\ j - 1 \in 1 .. n /\ (j - 1) + 1 = j /\ 1 <= j - 1
          /\ \A i \in 1 + 1 .. j - 1 : q[i] = r[i]
      BY <2>5
    <3>2. f[j] = Cat(f[j - 1], q[j]) /\ g[j] = Cat(g[j - 1], r[j]) /\ f[j - 1] \in Seq(S)
          /\ g[j - 1] \in Seq(S)
      BY <1>f, <1>g, <3>1 DEF Joined
    <3>3. f[j] = f[j - 1]
      BY <3>2, CatNothing
    <3>4. q[1] = r[1] /\ g[1] \in Seq(S)
      BY <1>g, <1>3, <2>5 DEF Joined
    <3>5. <<>> \in Seq(S) /\ f[1] = Cat(<<>>, g[1])
      BY <1>f, <1>g, <3>4, CatNothing DEF Joined
    <3>6. f[j - 1] = Cat(<<>>, g[j - 1])
      BY <1>h, <1>3, <3>1, <3>5 DEF Follows
    <3>7. f[j - 1] = g[j - 1]
      BY <3>2, <3>6, CatNothing
    <3> QED
      BY <2>1, <2>3, <3>2, <3>3, <3>7
  <2> QED
    BY <2>4, <2>5
<1>5. <<>> \in Seq(S) /\ f[j + 1] = Cat(<<>>, g[j + 1])
  <2>1. g[j + 1] \in Seq(S)
    BY <1>g, <1>3 DEF Joined
  <2>2. Cat(<<>>, g[j + 1]) = g[j + 1]
    BY <2>1, CatNothing
  <2> QED
    BY <1>4, <2>2
<1>6. j + 1 <= n /\ \A i \in (j + 1) + 1 .. n : q[i] = r[i]
  OBVIOUS
<1>7. f[n] = Cat(<<>>, g[n])
  BY <1>h, <1>3, <1>5, <1>6 DEF Follows
<1>8. g[n] \in Seq(S)
  BY <1>g, <1>3 DEF Joined
<1>9. f[n] = g[n]
  BY <1>7, <1>8, CatNothing
<1> QED
  BY <1>1, <1>2, <1>9

\* What follows some front is a suffix in the sense of IsSuffix.
LEMMA EndIsSuffix ==
    ASSUME NEW S, NEW u \in Seq(S), NEW s \in Seq(S)
    PROVE  IsSuffix(s, Cat(u, s))
<1> DEFINE t == u \o s
<1>1. t \in Seq(S) /\ Len(t) = Len(u) + Len(s) /\ Len(u) \in Nat /\ Len(s) \in Nat
  OBVIOUS
<1>2. \A i \in 1 .. Len(s) : s[(Len(s) - i) + 1] = t[(Len(t) - i) + 1]
  BY <1>1
<1> HIDE DEF t
<1>3. Reverse(s) \in Seq(S) /\ Len(Reverse(s)) = Len(s)
  BY <1>1 DEF Reverse
<1>4. Reverse(t) \in Seq(S) /\ Len(Reverse(t)) = Len(t)
  BY <1>1 DEF Reverse
<1>5. \A i \in 1 .. Len(s) : Reverse(s)[i] = Reverse(t)[i]
  BY <1>1, <1>2 DEF Reverse
<1>6. SubSeq(Reverse(s), 1, Len(s)) = SubSeq(Reverse(t), 1, Len(s))
  BY <1>1, <1>3, <1>4, <1>5
<1>7. IsSuffix(s, t)
  BY <1>1, <1>3, <1>4, <1>6 DEF IsSuffix, IsPrefix
<1> QED
  BY <1>7 DEF t, Cat
=============================================================================
