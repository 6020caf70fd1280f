---------------------------- MODULE SessionProofs ----------------------------
(***************************************************************************)
(* Invariance proofs about sessions of the experiment runner, for any       *)
(* scenario files and options, any number of sessions, and failures of      *)
(* docker and Jaeger at any point.                                          *)
(***************************************************************************)
EXTENDS Session, FiniteSetTheorems, SequenceTheorems, TLAPS

-----------------------------------------------------------------------------
(* Lists. *)

\* Induction over the numbers, stated with a set: of the counterexamples up to m,
\* each would have its predecessor among those below m, and those are fewer.
LEMMA Induct ==
  ASSUME NEW P, 0 \in P, \A n \in Nat : n \in P => n + 1 \in P
  PROVE  Nat \subseteq P
<1> SUFFICES ASSUME NEW m \in Nat, m \notin P PROVE FALSE
  OBVIOUS
<1> DEFINE Left == {n \in 0..m : n \notin P}
<1> DEFINE Shift == [n \in Left |-> n - 1]
<1>1. IsFiniteSet(0..m) /\ Left \in SUBSET (0..m) /\ m \in Left
  BY FS_Interval
<1>2. IsFiniteSet(Left) /\ IsFiniteSet(Left \ {m})
  BY <1>1, FS_Subset, FS_RemoveElement
<1>3. Cardinality(Left \ {m}) < Cardinality(Left)
  <2> HIDE DEF Left, Shift
  <2> QED BY <1>1, <1>2, FS_RemoveElement, FS_CardinalityType
<1>4. \A n \in Left : n - 1 \in Left \ {m}
  OBVIOUS
<1>5. Shift \in [Left -> Left \ {m}]
  BY <1>4
<1>6. PICK x, y \in Left : x # y /\ Shift[x] = Shift[y]
  <2> HIDE DEF Left, Shift
  <2> QED BY <1>2, <1>3, <1>5, FS_PigeonHole
<1> QED
  BY <1>6

\* FlattenSeq, unfolded: the lists are appended one by one.
LEMMA FlattenUnfold ==
  ASSUME NEW seqs, Len(seqs) \in Nat
  PROVE  \E f : /\ \A i \in 1..Len(seqs) : f[i] = IF i = 1 THEN seqs[i] ELSE f[i - 1] \o seqs[i]
                /\ FlattenSeq(seqs) = IF Len(seqs) = 0 THEN seqs ELSE f[Len(seqs)]
<1> DEFINE N == Len(seqs)
<1> DEFINE Up(g, n) == g = [i \in 1..n |-> IF i = 1 THEN seqs[i] ELSE g[i - 1] \o seqs[i]]
<1> DEFINE P == {n \in Nat : \E g : Up(g, n)}
<1>2. \E g : Up(g, 0)
  <2> WITNESS [i \in 1..0 |-> 0]
  <2> QED OBVIOUS
<1>3. ASSUME NEW n \in Nat, NEW g, Up(g, n) PROVE \E h : Up(h, n + 1)
  <2> DEFINE h == [i \in 1..(n + 1) |->
                     IF i <= n THEN g[i] ELSE IF i = 1 THEN seqs[i] ELSE g[n] \o seqs[i]]
  <2>1. Up(h, n + 1)
    <3>1. \A i \in 1..(n + 1) : h[i] = IF i = 1 THEN seqs[i] ELSE h[i - 1] \o seqs[i]
      <4> SUFFICES ASSUME NEW i \in 1..(n + 1)
                   PROVE  h[i] = IF i = 1 THEN seqs[i] ELSE h[i - 1] \o seqs[i]
        OBVIOUS
      <4>1. CASE i <= n
        <5>0. i \in 1..n
          BY <4>1
        <5>1. g[i] = IF i = 1 THEN seqs[i] ELSE g[i - 1] \o seqs[i]
          BY <1>3, <5>0, Zenon
        <5>2. h[i] = g[i] /\ (i # 1 => h[i - 1] = g[i - 1])
          BY <4>1
        <5> HIDE DEF h
        <5> QED BY <5>1, <5>2
      <4>2. CASE i = n + 1
        BY <4>2
      <4> QED BY <4>1, <4>2
    <3>2. h = [i \in 1..(n + 1) |-> h[i]]
      OBVIOUS
    <3> HIDE DEF h
    <3> QED BY <3>1, <3>2
  <2> QED BY <2>1
<1>4. Nat \subseteq P
  <2>1. 0 \in P
    BY <1>2
  <2>2. \A n \in Nat : n \in P => n + 1 \in P
    <3> SUFFICES ASSUME NEW n \in Nat, n \in P PROVE n + 1 \in P
      OBVIOUS
    <3>1. PICK g : Up(g, n)
      OBVIOUS
    <3>2. \E h : Up(h, n + 1)
      BY <1>3, <3>1
    <3> HIDE DEF Up
    <3> QED BY <3>2
  <2> HIDE DEF P
  <2> QED BY <2>1, <2>2, Induct
<1> DEFINE f == CHOOSE g : Up(g, N)
<1>5. Up(f, N)
  <2>1. \E g : Up(g, N)
    BY <1>4
  <2> HIDE DEF Up
  <2> QED BY <2>1
<1>6. FlattenSeq(seqs) = IF N = 0 THEN seqs ELSE f[N]
  BY Zenon DEF FlattenSeq, f
<1> HIDE DEF f
<1>7. \A i \in 1..N : f[i] = IF i = 1 THEN seqs[i] ELSE f[i - 1] \o seqs[i]
  BY <1>5, Zenon
<1> QED
  BY <1>6, <1>7, Zenon

\* FlattenSeq: what is put together from lists of members of S is one.
LEMMA FlattenList ==
  ASSUME NEW S, NEW seqs \in Seq(Seq(S))
  PROVE  FlattenSeq(seqs) \in Seq(S)
<1> DEFINE N == Len(seqs)
<1>1. N \in Nat /\ \A i \in 1..N : seqs[i] \in Seq(S)
  OBVIOUS
<1>2. PICK f : /\ \A i \in 1..N : f[i] = IF i = 1 THEN seqs[i] ELSE f[i - 1] \o seqs[i]
               /\ FlattenSeq(seqs) = IF N = 0 THEN seqs ELSE f[N]
  BY <1>1, FlattenUnfold
<1> DEFINE A(n) == n \in 1..N => f[n] \in Seq(S)
           Q == {n \in Nat : A(n)}
<1>3. ASSUME NEW n \in Nat, n \in 1..N => f[n] \in Seq(S), n + 1 \in 1..N
      PROVE  f[n + 1] \in Seq(S)
  <2>1. CASE n = 0
    BY <1>1, <1>2, <1>3, <2>1
  <2>2. CASE n # 0
    <3>1. f[n] \in Seq(S) /\ seqs[n + 1] \in Seq(S)
      BY <1>1, <1>3, <2>2
    <3>2. f[n] \o seqs[n + 1] \in Seq(S)
      BY <3>1, ConcatProperties
    <3>3. PICK m \in 1..N : m = n + 1 /\ m # 1 /\ m - 1 = n
      BY <1>3, <2>2
    <3>4. f[m] = f[m - 1] \o seqs[m]
      BY <1>2, <3>3, Zenon
    <3> QED BY <3>2, <3>3, <3>4
  <2> QED BY <2>1, <2>2
<1>4. Nat \subseteq Q
  <2>1. \A n \in Nat : A(n) => A(n + 1)
    BY <1>3
  <2>2. A(0)
    BY <1>1
  <2>3. 0 \in Q /\ \A n \in Nat : n \in Q => n + 1 \in Q
    <3> HIDE DEF A
    <3> QED BY <2>1, <2>2
  <2> HIDE DEF Q
  <2> QED BY <2>3, Induct
<1>5. CASE N = 0
  <2>1. seqs = << >>
    BY <1>5
  <2> QED BY <1>2, <1>5, <2>1
<1>6. CASE N # 0
  BY <1>1, <1>2, <1>4, <1>6
<1> QED
  BY <1>5, <1>6

LEMMA ListFacts ==
  ASSUME NEW l, IsList(l)
  PROVE  /\ Len(l) \in Nat /\ DOMAIN l = 1..Len(l)
         /\ \A S : (\A i \in DOMAIN l : l[i] \in S) => l \in Seq(S)
<1>1. Len(l) \in Nat /\ DOMAIN l = 1..Len(l) /\ l = [i \in 1..Len(l) |-> l[i]]
  BY DEF IsList
<1> QED
  BY <1>1

\* Division with a rest, and that it is the only one.
LEMMA DivMod ==
  ASSUME NEW x \in Nat, NEW l \in Nat \ {0}
  PROVE  x \div l \in Nat /\ x % l \in 0..(l - 1) /\ x = ((x \div l) * l) + (x % l)
OBVIOUS

LEMMA Steps ==
  ASSUME NEW a \in Nat, NEW b \in Nat, NEW l \in Nat \ {0}, a < b
  PROVE  a * l + l <= b * l
<1>1. b - a - 1 \in Nat /\ b = a + 1 + (b - a - 1)
  OBVIOUS
<1>2. PICK d \in Nat : b = a + 1 + d
  BY <1>1
<1>3. b * l = a * l + l + d * l /\ d * l \in Nat /\ a * l \in Nat
  BY <1>2
<1> QED
  BY ONLY <1>3, l \in Nat

LEMMA OnlyRest ==
  ASSUME NEW l \in Nat \ {0}, NEW a \in Nat, NEW b \in Nat,
         NEW q \in 0..(l - 1), NEW r \in 0..(l - 1), a * l + q = b * l + r
  PROVE  a = b /\ q = r
<1>1. a * l \in Nat /\ b * l \in Nat
  OBVIOUS
<1>2. ASSUME a < b PROVE FALSE
  <2>1. a * l + l <= b * l
    BY <1>2, Steps
  <2> QED BY ONLY <2>1, <1>1, q \in 0..(l - 1), r \in 0..(l - 1), a * l + q = b * l + r, l \in Nat
<1>3. ASSUME b < a PROVE FALSE
  <2>1. b * l + l <= a * l
    BY <1>3, Steps
  <2> QED BY ONLY <2>1, <1>1, q \in 0..(l - 1), r \in 0..(l - 1), a * l + q = b * l + r, l \in Nat
<1>4. a = b
  BY <1>2, <1>3
<1> QED
  BY <1>1, <1>4

\* expand_matrix: one more field.
Extend(combo, key, value) ==
  [k \in DOMAIN combo \cup {key} |-> IF k = key THEN value ELSE combo[k]]
Combine(combos, key, values) ==
  [i \in 1..Len(combos) * Len(values) |->
     Extend(combos[((i - 1) \div Len(values)) + 1], key, values[((i - 1) % Len(values)) + 1])]

\* Element e of the list l is combination a with value q.
IsCombined(l, combos, key, values, e, a, q) ==
  /\ e = (a - 1) * Len(values) + q /\ e \in DOMAIN l
  /\ l[e] = Extend(combos[a], key, values[q])

\* Each combination with each value is once among them.
LEMMA Combined ==
  ASSUME NEW combos, NEW key, NEW values, IsList(values),
         Len(combos) \in Nat, DOMAIN combos = 1..Len(combos),
         NEW l, l = Combine(combos, key, values)
  PROVE  /\ Len(l) \in Nat /\ DOMAIN l = 1..Len(l)
         /\ \A e \in DOMAIN l : \E a \in DOMAIN combos, q \in DOMAIN values :
              IsCombined(l, combos, key, values, e, a, q)
         /\ \A a \in DOMAIN combos, q \in DOMAIN values : \E e \in DOMAIN l :
              IsCombined(l, combos, key, values, e, a, q)
<1> DEFINE L == Len(values)
<1> DEFINE A == Len(combos)
           n == A * L
<1>1. L \in Nat /\ A \in Nat /\ n \in Nat /\ DOMAIN values = 1..L /\ DOMAIN combos = 1..A
  BY ListFacts
<1>2. l = [i \in 1..n |-> Extend(combos[((i - 1) \div L) + 1], key, values[((i - 1) % L) + 1])]
  BY Zenon DEF Combine
<1> HIDE DEF n, A, L
<1>3. /\ DOMAIN l = 1..n /\ Len(l) = n
      /\ \A i \in 1..n : l[i] = Extend(combos[((i - 1) \div L) + 1], key, values[((i - 1) % L) + 1])
  <2> HIDE DEF Extend
  <2> QED BY <1>1, <1>2
<1>4. ASSUME NEW e \in 1..n
      PROVE  \E a \in 1..A, q \in 1..L :
               e = (a - 1) * L + q /\ l[e] = Extend(combos[a], key, values[q])
  <2>1. L # 0
    BY <1>1, <1>4 DEF n
  <2>2. e - 1 \in Nat /\ L \in Nat \ {0} /\ e <= n
    BY <1>1, <1>4, <2>1
  <2> DEFINE x == (e - 1) \div L
             y == (e - 1) % L
  <2>3. x \in Nat /\ y \in 0..(L - 1) /\ e - 1 = x * L + y
    BY <2>2, DivMod
  <2>4. l[e] = Extend(combos[x + 1], key, values[y + 1])
    BY <1>3, <1>4, Zenon
  <2> HIDE DEF x, y
  <2>5. x < A
    <3> SUFFICES ASSUME A <= x PROVE FALSE
      BY <1>1, <2>3
    <3>1. x * L >= A * L
      <4>1. CASE A = x
        BY <1>1, <4>1
      <4>2. CASE A < x
        <5>1. A * L + L <= x * L
          BY <1>1, <2>2, <2>3, <4>2, Steps
        <5>2. A * L \in Nat /\ x * L \in Nat
          BY <1>1, <2>3
        <5> QED BY ONLY <5>1, <5>2, <1>1
      <4> QED BY <1>1, <2>3, <4>1, <4>2
    <3>2. x * L \in Nat
      BY <1>1, <2>3
    <3> QED BY ONLY <3>1, <3>2, <2>2, <2>3, <1>4, <1>1 DEF n
  <2>6. x + 1 \in 1..A /\ y + 1 \in 1..L /\ (x + 1) - 1 = x
    BY <1>1, <2>3, <2>5
  <2>7. x * L \in Nat
    BY <1>1, <2>3
  <2>8. e = x * L + (y + 1)
    BY ONLY <2>3, <2>7, <1>4, <1>1
  <2> HIDE DEF Extend
  <2> QED BY <2>4, <2>6, <2>8
<1>5. ASSUME NEW a \in 1..A, NEW q \in 1..L
      PROVE  (a - 1) * L + q \in 1..n /\ l[(a - 1) * L + q] = Extend(combos[a], key, values[q])
  <2> DEFINE z == a - 1
             e == z * L + q
  <2>1. z \in Nat /\ z < A /\ L \in Nat \ {0} /\ z + 1 = a
    BY <1>1
  <2> HIDE DEF z
  <2>2. z * L \in Nat /\ z * L + L <= n
    BY <1>1, <2>1, Steps DEF n
  <2>3. e \in 1..n /\ e - 1 \in Nat /\ e - 1 = z * L + (q - 1) /\ q - 1 \in 0..(L - 1)
    BY ONLY <1>1, <2>2, q \in 1..L
  <2> HIDE DEF e
  <2> DEFINE x == (e - 1) \div L
             y == (e - 1) % L
  <2>4. x \in Nat /\ y \in 0..(L - 1) /\ e - 1 = x * L + y
    BY <2>1, <2>3, DivMod
  <2>5. l[e] = Extend(combos[x + 1], key, values[y + 1])
    BY <1>3, <2>3, Zenon
  <2> HIDE DEF x, y
  <2>6. x = z /\ y = q - 1
    BY <2>1, <2>3, <2>4, OnlyRest
  <2>7. x + 1 = a /\ y + 1 = q
    BY <2>1, <2>6
  <2> HIDE DEF Extend
  <2> QED BY <2>3, <2>5, <2>7 DEF e, z
<1>6. Len(l) \in Nat /\ DOMAIN l = 1..Len(l)
  BY <1>1, <1>3, Zenon
<1>7. ASSUME NEW e \in DOMAIN l
      PROVE  \E a \in DOMAIN combos, q \in DOMAIN values :
               IsCombined(l, combos, key, values, e, a, q)
  <2>1. e \in 1..n
    BY <1>3, Zenon
  <2>2. PICK a \in 1..A : \E q \in 1..L :
               e = (a - 1) * L + q /\ l[e] = Extend(combos[a], key, values[q])
    BY <1>4, <2>1, Zenon
  <2>3. PICK q \in 1..L : e = (a - 1) * L + q /\ l[e] = Extend(combos[a], key, values[q])
    BY <2>2, Zenon
  <2>4. a \in DOMAIN combos /\ q \in DOMAIN values
    BY <1>1, Zenon
  <2>5. IsCombined(l, combos, key, values, e, a, q)
    BY <2>3, <1>7, Zenon DEF IsCombined, L
  <2> QED BY <2>4, <2>5, Zenon
<1>8. ASSUME NEW a \in DOMAIN combos, NEW q \in DOMAIN values
      PROVE  \E e \in DOMAIN l : IsCombined(l, combos, key, values, e, a, q)
  <2> DEFINE e == (a - 1) * L + q
  <2>1. a \in 1..A /\ q \in 1..L
    BY <1>1, Zenon
  <2>2. e \in DOMAIN l /\ l[e] = Extend(combos[a], key, values[q])
    BY <1>3, <1>5, <2>1, Zenon
  <2>3. IsCombined(l, combos, key, values, e, a, q)
    BY <2>2, Zenon DEF IsCombined, L
  <2> HIDE DEF e
  <2> QED BY <2>2, <2>3, Zenon
<1> QED
  BY <1>6, <1>7, <1>8, Zenon

\* expand_matrix, unfolded: a field at a time.
LEMMA ProductUnfold ==
  ASSUME NEW m, Len(m) \in Nat
  PROVE  \E f : /\ \A j \in 0..Len(m) : f[j] = IF j = 0 THEN << <<>> >>
                                              ELSE Combine(f[j - 1], m[j][1], m[j][2])
                /\ expand_matrix(m) = f[Len(m)]
<1> DEFINE N == Len(m)
           Up(g, n) == g = [j \in 0..n |-> IF j = 0 THEN << <<>> >>
                                            ELSE Combine(g[j - 1], m[j][1], m[j][2])]
           P == {n \in Nat : \E g : Up(g, n)}
<1> DEFINE f == CHOOSE g : Up(g, N)
<1>1. expand_matrix(m) = f[N]
  BY Zenon DEF expand_matrix, Combine, Extend
<1>2. \E g : Up(g, 0)
  <2> DEFINE h == [j \in 0..0 |-> << <<>> >>]
  <2>1. h = [j \in 0..0 |-> IF j = 0 THEN << <<>> >>
                            ELSE Combine(h[j - 1], m[j][1], m[j][2])]
    <3>1. \A j \in 0..0 : j = 0
      OBVIOUS
    <3> HIDE DEF h
    <3> QED BY <3>1 DEF h
  <2> HIDE DEF h
  <2> QED BY <2>1
<1>3. ASSUME NEW n \in Nat, NEW g, Up(g, n) PROVE \E h : Up(h, n + 1)
  <2> DEFINE h == [j \in 0..(n + 1) |->
                     IF j <= n THEN g[j] ELSE Combine(g[n], m[j][1], m[j][2])]
  <2>1. Up(h, n + 1)
    <3>1. ASSUME NEW j \in 0..(n + 1)
          PROVE  h[j] = IF j = 0 THEN << <<>> >> ELSE Combine(h[j - 1], m[j][1], m[j][2])
      <4>1. CASE j <= n
        <5>0. j \in 0..n
          BY <4>1
        <5>1. g[j] = IF j = 0 THEN << <<>> >> ELSE Combine(g[j - 1], m[j][1], m[j][2])
          BY <1>3, <5>0, Zenon
        <5>2. h[j] = g[j] /\ (j # 0 => h[j - 1] = g[j - 1])
          BY <4>1
        <5> HIDE DEF h
        <5> QED BY <5>1, <5>2
      <4>2. CASE j = n + 1
        <5>1. h[j] = Combine(g[n], m[j][1], m[j][2]) /\ h[j - 1] = g[n] /\ j # 0
          BY <4>2
        <5> HIDE DEF h
        <5> QED BY <5>1
      <4> QED BY <4>1, <4>2
    <3>2. h = [j \in 0..(n + 1) |-> h[j]]
      OBVIOUS
    <3> HIDE DEF h
    <3> QED BY <3>1, <3>2
  <2> QED BY <2>1
<1>4. Nat \subseteq P
  <2> HIDE DEF Up
  <2> SUFFICES 0 \in P /\ \A n \in Nat : n \in P => n + 1 \in P
    <3> HIDE DEF P
    <3> QED BY Induct
  <2> QED BY <1>2, <1>3
<1>5. Up(f, N)
  <2>1. \E g : Up(g, N)
    BY <1>4
  <2> HIDE DEF Up
  <2> QED BY <2>1
<1> HIDE DEF f
<1>6. \A j \in 0..N : f[j] = IF j = 0 THEN << <<>> >> ELSE Combine(f[j - 1], m[j][1], m[j][2])
  BY <1>5, Zenon
<1> QED
  BY <1>1, <1>6, Zenon

\* expand_matrix: the combinations of a matrix are a list.
LEMMA MatrixList ==
  ASSUME NEW m, IsList(m), \A i \in DOMAIN m : IsList(m[i][2])
  PROVE  \E n \in Nat : DOMAIN expand_matrix(m) = 1..n
<1> DEFINE N == Len(m)
           A(f, n) == n \in 0..N => Len(f[n]) \in Nat /\ DOMAIN f[n] = 1..Len(f[n])
<1>1. N \in Nat /\ DOMAIN m = 1..N
  BY ListFacts
<1>2. PICK f : /\ \A j \in 0..N : f[j] = IF j = 0 THEN << <<>> >>
                                         ELSE Combine(f[j - 1], m[j][1], m[j][2])
               /\ expand_matrix(m) = f[N]
  BY <1>1, ProductUnfold
<1> DEFINE Q == {n \in Nat : A(f, n)}
<1>3. A(f, 0)
  <2>1. f[0] = << <<>> >>
    BY <1>1, <1>2
  <2> QED BY <2>1
<1>4. ASSUME NEW n \in Nat, A(f, n) PROVE A(f, n + 1)
  <2> SUFFICES ASSUME n + 1 \in 0..N
               PROVE  Len(f[n + 1]) \in Nat /\ DOMAIN f[n + 1] = 1..Len(f[n + 1])
    OBVIOUS
  <2>1. PICK j \in 0..N : j = n + 1 /\ j # 0 /\ j - 1 = n /\ j \in DOMAIN m
    BY <1>1
  <2>2. f[j] = Combine(f[j - 1], m[j][1], m[j][2])
    BY <1>2, <2>1, Zenon
  <2>3. f[j] = Combine(f[n], m[j][1], m[j][2])
    BY <2>1, <2>2
  <2>4. Len(f[n]) \in Nat /\ DOMAIN f[n] = 1..Len(f[n]) /\ IsList(m[j][2])
    BY <1>1, <1>4, <2>1
  <2>5. Len(f[j]) \in Nat /\ DOMAIN f[j] = 1..Len(f[j])
    BY <2>3, <2>4, Combined
  <2> QED BY <2>1, <2>5
<1>5. Nat \subseteq Q
  <2>1. 0 \in Q /\ \A n \in Nat : n \in Q => n + 1 \in Q
    <3> HIDE DEF A
    <3> QED BY <1>3, <1>4
  <2> HIDE DEF Q
  <2> QED BY <2>1, Induct
<1> QED
  BY <1>1, <1>2, <1>5

-----------------------------------------------------------------------------
(* The agenda. *)

\* What validation and the overrides leave true of a scenario.
SceneOK(s) ==
  /\ s.client_impl \in Impls /\ s.nat_type \in NatTypes
  /\ s.transport \in {"tcp", "quic", "both"}
  /\ ~HasMock(s) => s.server_count \in 3..7
  /\ s.runs \in Int

LEMMA Parsed ==
  ASSUME NEW raw, NEW defaults
  PROVE  DOMAIN parse_scenario(raw, defaults) = Fields
BY DEF parse_scenario

LEMMA Expanded ==
  ASSUME NEW c \in Commands, Accepted(c)
  PROVE  /\ \E n \in Nat : DOMAIN expand_scenarios(c.document) = 1..n
         /\ \A i \in DOMAIN expand_scenarios(c.document) :
              LET s == expand_scenarios(c.document)[i] IN DOMAIN s = Fields /\ Valid(s)
<1> DEFINE d == c.document
           raw == IF d.matrix # None THEN expand_matrix(d.matrix) ELSE d.scenarios
<1>1. WellTyped(c) /\ WellFormed(d) /\ validate(expand_scenarios(d))
  BY SessionAssumption DEF Accepted
<1>2. \E n \in Nat : DOMAIN raw = 1..n
  <2>1. CASE d.matrix # None
    BY <1>1, <2>1, MatrixList DEF WellTyped
  <2>2. CASE d.matrix = None
    BY <1>1, <2>2, ListFacts DEF WellTyped, WellFormed
  <2> QED BY <2>1, <2>2
<1>3. expand_scenarios(d) = [i \in DOMAIN raw |-> parse_scenario(raw[i], d.defaults)]
  BY DEF expand_scenarios
<1> HIDE DEF raw
<1>4. DOMAIN expand_scenarios(d) = DOMAIN raw
      /\ \A i \in DOMAIN raw : expand_scenarios(d)[i] = parse_scenario(raw[i], d.defaults)
  BY <1>3
<1> QED
  BY <1>1, <1>2, <1>4, Parsed DEF validate

LEMMA Overridden ==
  ASSUME NEW c \in Commands, NEW s, DOMAIN s = Fields, Valid(s)
  PROVE  SceneOK(Override(s, c.options))
<1>1. {"client_impl", "nat_type", "transport", "server_count", "runs", "timeout_s",
       "mock_behaviors"} \subseteq Fields
  BY DEF Fields, Builtin
<1>2. c.options.runs = None \/ c.options.runs \in Int
  BY SessionAssumption DEF WellTyped
<1> DEFINE t == Override(s, c.options)
<1>3. /\ t.client_impl = s.client_impl /\ t.nat_type = s.nat_type /\ t.transport = s.transport
      /\ t.server_count = s.server_count /\ t.mock_behaviors = s.mock_behaviors
      /\ t.runs = IF c.options.runs \in {None, 0} THEN s.runs ELSE c.options.runs
  BY <1>1 DEF Override
<1>4. /\ s.client_impl \in Impls /\ s.nat_type \in NatTypes
      /\ s.transport \in {"tcp", "quic", "both"}
      /\ s.runs \in Nat \ {0} /\ (s.mock_behaviors = None => s.server_count \in 3..7)
  BY DEF Valid
<1>5. SceneOK(t)
  <2> HIDE DEF t
  <2> QED BY <1>2, <1>3, <1>4 DEF SceneOK, HasMock
<1> QED
  BY <1>5

\* What a session runs, for any file and options: a list of valid scenarios.
LEMMA SelectedList ==
  ASSUME NEW c \in Commands, Accepted(c)
  PROVE  \E S : Selected(c) \in Seq(S) /\ \A s \in S : SceneOK(s)
<1> DEFINE sc == expand_scenarios(c.document)
           over == [i \in DOMAIN sc |-> Override(sc[i], c.options)]
           S == {over[i] : i \in DOMAIN sc}
           pieces == [i \in DOMAIN over |->
                        IF Matches(over[i], c.options.filter) THEN <<over[i]>> ELSE <<>>]
<1>1. PICK n \in Nat : DOMAIN sc = 1..n
  BY Expanded
<1>2. Selected(c) = FlattenSeq(pieces)
  BY DEF Selected, apply_filter
<1>3. \A s \in S : SceneOK(s)
  BY Expanded, Overridden
<1> HIDE DEF sc
<1>4. pieces \in Seq(Seq(S))
  <2>1. DOMAIN over = 1..n /\ \A i \in 1..n : over[i] \in S
    BY <1>1
  <2> HIDE DEF over, S
  <2>2. \A i \in 1..n : <<over[i]>> \in Seq(S) /\ <<>> \in Seq(S)
    BY <2>1
  <2>3. pieces = [i \in 1..n |-> IF Matches(over[i], c.options.filter)
                                 THEN <<over[i]>> ELSE <<>>]
    BY <2>1
  <2> QED BY <2>2, <2>3
<1>5. Selected(c) \in Seq(S)
  <2> HIDE DEF S, pieces
  <2> QED BY <1>2, <1>4, FlattenList
<1> QED
  BY <1>3, <1>5

AgendaOK(a) ==
  /\ Len(a) \in Nat /\ DOMAIN a = 1..Len(a)
  /\ \A k \in DOMAIN a : SceneOK(a[k].scenario)
                         /\ a[k].run_num \in 1..a[k].scenario.runs

LEMMA AgendaList ==
  ASSUME NEW c \in Commands, Accepted(c)
  PROVE  LET a == Agenda(Selected(c))
         IN  /\ AgendaOK(a)
             /\ \A k \in DOMAIN a : \E i \in DOMAIN Selected(c) :
                  a[k].scenario = Selected(c)[i]
<1> DEFINE sel == Selected(c)
           S == {sel[i] : i \in DOMAIN sel}
<1>1. sel \in Seq(S) /\ \A s \in S : SceneOK(s)
  <2>1. PICK R : sel \in Seq(R) /\ \A s \in R : SceneOK(s)
    BY SelectedList
  <2>2. DOMAIN sel = 1..Len(sel) /\ Len(sel) \in Nat /\ sel = [i \in 1..Len(sel) |-> sel[i]]
        /\ \A i \in DOMAIN sel : sel[i] \in R
    BY <2>1
  <2> HIDE DEF sel
  <2> QED BY <2>1, <2>2
<1> DEFINE
           T == {r \in [scenario : S, run_num : Int] : r.run_num \in 1..r.scenario.runs}
           pieces == [i \in DOMAIN sel |->
                        [n \in 1..sel[i].runs |-> [scenario |-> sel[i], run_num |-> n]]]
<1>2. Agenda(sel) = FlattenSeq(pieces)
  BY DEF Agenda
<1>3. pieces \in Seq(Seq(T))
  <2>1. Len(sel) \in Nat /\ DOMAIN sel = 1..Len(sel) /\ \A i \in 1..Len(sel) : sel[i] \in S
    BY <1>1
  <2> HIDE DEF sel
  <2>2. ASSUME NEW s \in S
        PROVE  [n \in 1..s.runs |-> [scenario |-> s, run_num |-> n]] \in Seq(T)
    <3>1. s.runs \in Int
      BY <1>1 DEF SceneOK
    <3>2. PICK m \in Nat : 1..s.runs = 1..m
      <4>1. CASE s.runs \in Nat
        BY <4>1
      <4>2. CASE s.runs \notin Nat
        <5>1. 1..s.runs = 1..0
          BY <3>1, <4>2
        <5> QED BY <5>1
      <4> QED BY <4>1, <4>2
    <3>3. \A n \in 1..s.runs : [scenario |-> s, run_num |-> n] \in T
      BY <3>1
    <3> DEFINE runs == [n \in 1..m |-> [scenario |-> s, run_num |-> n]]
    <3>4. [n \in 1..s.runs |-> [scenario |-> s, run_num |-> n]] = runs
      BY <3>2, Zenon
    <3>5. \A n \in 1..m : runs[n] \in T
      BY <3>2, <3>3
    <3> HIDE DEF T
    <3>6. runs \in Seq(T)
      BY <3>2, <3>5
    <3> QED BY <3>4, <3>6, Zenon
  <2> HIDE DEF T
  <2>3. \A i \in 1..Len(sel) : pieces[i] \in Seq(T)
    BY <2>1, <2>2
  <2>4. pieces = [i \in 1..Len(sel) |-> pieces[i]]
    BY <2>1
  <2> HIDE DEF pieces
  <2> QED BY <2>1, <2>3, <2>4
<1>4. Agenda(sel) \in Seq(T)
  <2> HIDE DEF T, pieces, sel
  <2> QED BY <1>2, <1>3, FlattenList
<1>5. \A r \in T : /\ SceneOK(r.scenario) /\ r.run_num \in 1..r.scenario.runs
                   /\ \E i \in DOMAIN sel : r.scenario = sel[i]
  BY <1>1
<1> DEFINE a == Agenda(sel)
<1>6. Len(a) \in Nat /\ DOMAIN a = 1..Len(a) /\ \A k \in DOMAIN a : a[k] \in T
  <2> HIDE DEF T, a
  <2> QED BY <1>4 DEF a
<1> HIDE DEF sel, T, a
<1> QED
  BY <1>5, <1>6 DEF AgendaOK, sel, a

-----------------------------------------------------------------------------
(* The environment. *)

\* What build_env sets, whatever the scenario.
Keys ==
  {"NAT_TYPE", "TRANSPORT", "PACKET_LOSS", "LATENCY_MS", "TCP_BLOCK_PORT", "PORT_REMAP",
   "PORT_FORWARD", "UPNP", "OBS_ADDR_THRESH", "AUTONAT_REFRESH", "MOCK_BEHAVIOR",
   "MOCK_DELAY", "MOCK_JITTER", "MOCK_PROBABILITY", "MOCK_TCP_BEHAVIOR",
   "MOCK_QUIC_BEHAVIOR"}

LEMMA EnvKeys ==
  ASSUME NEW s
  PROVE  DOMAIN build_env(s) = Keys /\ build_env(s) = [k \in Keys |-> build_env(s)[k]]
<1>1. DOMAIN build_env(s) = Keys
  BY DEF build_env, Keys
<1>2. build_env(s) = [k \in DOMAIN build_env(s) |-> build_env(s)[k]]
  BY DEF build_env
<1> QED
  BY <1>1, <1>2

\* Where all keys are set again, nothing is left of an environment.
LEMMA Overwritten ==
  ASSUME NEW s, NEW env, DOMAIN env \subseteq Keys
  PROVE  update(env, build_env(s)) = build_env(s)
<1>1. DOMAIN env \cup DOMAIN build_env(s) = Keys
  BY EnvKeys
<1>2. update(env, build_env(s)) = [k \in Keys |-> build_env(s)[k]]
  BY <1>1, EnvKeys DEF update
<1> QED
  BY <1>2, EnvKeys

EnvInv == DOMAIN environ \subseteq Keys /\ EnvironmentIsOwn

LEMMA StepEnv == EnvInv /\ [Next]_vars => EnvInv'
<1> SUFFICES ASSUME EnvInv, [Next]_vars PROVE EnvInv'
  OBVIOUS
<1> USE DEF EnvInv
<1>1. ASSUME UNCHANGED environ, pc' = "running" => UNCHANGED <<pc, agenda, at>> PROVE EnvInv'
  BY <1>1 DEF EnvironmentIsOwn, Scene
<1>2. ASSUME NEW c \in Commands, Call(c), pc' # "running" PROVE EnvInv'
  BY <1>2 DEF Call, NoEnv, EnvironmentIsOwn
<1>3. CASE StartRun
  <2>1. environ' = build_env(Scene)
    BY <1>3, Overwritten DEF StartRun
  <2>2. Scene' = Scene
    BY <1>3 DEF StartRun, progress, Scene
  <2> QED
    BY <2>1, <2>2, EnvKeys DEF EnvironmentIsOwn
<1> QED
  BY <1>1, <1>2, <1>3 DEF Next, Decline, Begin, RunRaises, Raise, FinishRun, Summary,
     progress, vars

\* build_env, main: the containers of a run get the environment that they would
\* get in a session of their own; nothing is left of the scenarios before.
THEOREM NothingIsInherited == Spec => []EnvironmentIsOwn
<1>1. Init => EnvInv
  BY DEF Init, EnvInv, NoEnv, EnvironmentIsOwn
<1>2. EnvInv => EnvironmentIsOwn
  BY DEF EnvInv
<1> QED
  BY <1>1, <1>2, StepEnv, PTL DEF Spec

-----------------------------------------------------------------------------
(* Where a session is. *)

Judgements == [judged : SUBSET (Nat \X Nat), pass : BOOLEAN]

Control ==
  /\ pc \in {"shell", "between", "running"} /\ exit \in {0, 1}
  /\ session \in 0..MaxSessions /\ AgendaOK(agenda)
  /\ at \in 1..Len(agenda) + 1 /\ (pc = "running" => at <= Len(agenda))
  /\ pc # "shell" => session >= 1 /\ command \in Commands
  /\ Len(report) \in Nat /\ Len(report) <= at
  /\ pc # "shell" => Len(report) = at - 1

\* A run is not among the unclean ones while it can still go on.
UncleanInv ==
  /\ unclean \subseteq (1..session) \X Nat
  /\ pc # "shell" => \A r \in unclean : r[1] = session => r[2] < at

\* What runs is of unclean runs, but for what the run at hand has started itself.
UpInv ==
  /\ pc = "running" => Enabled(Profiles) \subseteq DOMAIN up
  /\ \A c \in DOMAIN up :
       \/ up[c] \in unclean
       \/ pc = "running" /\ c \in Enabled(Profiles) /\ up[c] = Run

LEMMA InitControl == Init => Control /\ UncleanInv /\ UpInv
<1> SUFFICES ASSUME Init PROVE Control /\ UncleanInv /\ UpInv
  OBVIOUS
<1>1. AgendaOK(<<>>)
  BY DEF AgendaOK
<1> QED
  BY <1>1, SessionAssumption DEF Init, Control, UncleanInv, UpInv

LEMMA StepControl == Control /\ report \in Seq(Judgements) /\ [Next]_vars => Control'
<1> SUFFICES ASSUME Control, report \in Seq(Judgements), [Next]_vars PROVE Control'
  OBVIOUS
<1> USE SessionAssumption DEF Control
<1>1. CASE Decline
  <2>1. AgendaOK(agenda') /\ Len(agenda') = 0
    BY <1>1 DEF Decline, AgendaOK
  <2> QED BY <1>1, <2>1 DEF Decline, Call
<1>2. CASE Begin
  <2>1. AgendaOK(agenda')
    BY <1>2, AgendaList DEF Begin
  <2>2. Len(agenda') \in Nat
    BY <2>1 DEF AgendaOK
  <2> QED BY <1>2, <2>1, <2>2 DEF Begin, Call
<1>3. CASE StartRun
  BY <1>3 DEF StartRun, Raise, progress
<1>4. CASE RunRaises
  BY <1>4 DEF RunRaises, Raise, progress
<1>5. CASE FinishRun
  <2>1. Len(agenda) \in Nat
    BY DEF AgendaOK
  <2>2. Len(report') = Len(report) + 1
    BY <1>5 DEF FinishRun
  <2> QED BY <1>5, <2>1, <2>2 DEF FinishRun, progress
<1>6. CASE Summary
  BY <1>6 DEF Summary, progress
<1>7. CASE UNCHANGED vars
  BY <1>7 DEF vars, progress
<1> QED
  BY <1>1, <1>2, <1>3, <1>4, <1>5, <1>6, <1>7 DEF Next

LEMMA StepUnclean == Control /\ UncleanInv /\ [Next]_vars => UncleanInv'
<1> SUFFICES ASSUME Control, UncleanInv, [Next]_vars PROVE UncleanInv'
  OBVIOUS
<1> USE DEF Control, UncleanInv
<1>1. session \in Nat /\ at \in Nat
  BY SessionAssumption DEF AgendaOK
<1>2. ASSUME NEW c \in Commands, Call(c) PROVE UncleanInv'
  <2>1. \A r \in unclean : r[1] \in 1..session /\ r \in (1..session') \X Nat
    BY <1>1, <1>2 DEF Call
  <2> QED BY <1>1, <1>2, <2>1 DEF Call
<1>3. ASSUME Raise, UNCHANGED session, pc # "shell" PROVE UncleanInv'
  BY <1>1, <1>3 DEF Raise, Run
<1>4. ASSUME UNCHANGED <<session, at, unclean>>, pc' = "shell" \/ pc # "shell" PROVE UncleanInv'
  BY <1>4
<1>5. CASE UNCHANGED vars
  BY <1>5 DEF vars, progress
<1>6. CASE FinishRun
  <2>1. /\ UNCHANGED session /\ at' = at + 1 /\ pc = "running"
        /\ unclean' \in {unclean, unclean \cup {Run}}
    BY <1>6 DEF FinishRun, progress
  <2>2. Run \in (1..session) \X Nat /\ Run[2] = at
    BY <1>1, <2>1 DEF Run
  <2>3. \A r \in unclean : r \in (1..session) \X Nat /\ (r[1] = session => r[2] < at')
    BY <1>1, <2>1
  <2> QED BY <1>1, <2>1, <2>2, <2>3
<1> QED
  BY <1>2, <1>3, <1>4, <1>5, <1>6 DEF Next, Decline, Begin, StartRun, RunRaises, Summary,
     progress

LEMMA StepUp == UpInv /\ [Next]_vars => UpInv'
<1> SUFFICES ASSUME UpInv, [Next]_vars PROVE UpInv'
  OBVIOUS
<1>1. ASSUME NEW c \in Commands, Call(c), pc' # "running" PROVE UpInv'
  BY <1>1 DEF Call, UpInv
<1>2. CASE StartRun
  <2>1. pc = "between" /\ Profiles' = Profiles /\ Run' = Run
    BY <1>2 DEF StartRun, progress, Profiles, Scene, Run
  <2>2. PICK spared \in Parts, same \in Parts, failed \in Parts :
          /\ up' = Started(Enabled(Profiles) \ failed, spared, same)
          /\ \/ failed = {} /\ pc' = "running" /\ UNCHANGED unclean
             \/ Raise
    BY <1>2 DEF StartRun
  <2> DEFINE services == Enabled(Profiles) \ failed
             now == Started(services, spared, same)
  <2>3. \A c \in DOMAIN now : now[c] \in unclean \/ (c \in services /\ now[c] = Run)
    BY <2>1 DEF Started, Stopped, UpInv
  <2>4. services \subseteq DOMAIN now
    BY DEF Started
  <2>5. CASE failed = {} /\ pc' = "running" /\ UNCHANGED unclean
    <3>1. (Enabled(Profiles))' = Enabled(Profiles)
      BY <2>1 DEF Enabled
    <3>2. services = Enabled(Profiles)
      BY <2>5
    <3> HIDE DEF now, services
    <3> QED
      BY <2>1, <2>2, <2>3, <2>4, <2>5, <3>1, <3>2 DEF UpInv, now, services
  <2>6. CASE Raise
    <3>1. \A c \in DOMAIN now : now[c] \in unclean'
      BY <2>3, <2>6 DEF Raise
    <3> HIDE DEF now
    <3> QED
      BY <2>2, <2>6, <3>1 DEF Raise, UpInv, now
  <2> QED
    BY <2>2, <2>5, <2>6
<1>3. CASE RunRaises
  BY <1>3 DEF RunRaises, Raise, UpInv
<1>4. CASE FinishRun
  <2>1. PICK spared \in Parts :
          /\ up' = Stopped(Profiles, spared)
          /\ unclean' = IF spared = {} THEN unclean ELSE unclean \cup {Run}
    BY <1>4 DEF FinishRun
  <2>2. pc' = "between" /\ pc = "running"
    BY <1>4 DEF FinishRun
  <2>3. ASSUME NEW c \in DOMAIN up' PROVE up'[c] \in unclean'
    <3>1. c \in DOMAIN up /\ up'[c] = up[c] /\ (c \in Enabled(Profiles) => spared # {})
      BY <2>1, <2>3 DEF Stopped
    <3> QED BY <2>1, <3>1 DEF UpInv
  <2> QED BY <2>2, <2>3 DEF UpInv
<1>5. CASE Summary
  BY <1>5 DEF Summary, UpInv
<1>6. CASE UNCHANGED vars
  BY <1>6 DEF vars, progress, UpInv, Run, Profiles, Scene, Enabled
<1> QED
  BY <1>1, <1>2, <1>3, <1>4, <1>5, <1>6 DEF Next, Decline, Begin

\* run_scenario, Compose: while a run is under way, every container that runs is
\* its own or was left by a run that raised or whose final down failed, whatever
\* the downs before it spare.
THEOREM StrangersAreExplained == Spec => []StrangersExplained
<1>1. UpInv => StrangersExplained
  BY DEF UpInv, StrangersExplained
<1> QED
  BY <1>1, InitControl, StepUp, PTL DEF Spec
-----------------------------------------------------------------------------
(* The end of a run. *)

LEMMA FileKind == \A k, kind : File(k, kind)[3] = kind
BY DEF File

\* run_scenario: what a run leaves on disk are files of its own, with its own
\* results or the spans of clients that it has heard; it is judged on these spans
\* or on a file that was there before.
LEMMA Finished ==
  ASSUME FinishRun
  PROVE  \E heard \in Heard :
           /\ DOMAIN disk \subseteq DOMAIN disk'
           /\ \A f \in DOMAIN disk' :
                \/ f \in DOMAIN disk /\ disk'[f] = disk[f]
                \/ f = File(at, f[3]) /\ disk'[f] \in {{Run}, heard} \ {{}}
           /\ \E judged, pass :
                /\ report' = Append(report, [judged |-> judged, pass |-> pass])
                /\ pass \in BOOLEAN
                /\ \/ judged = {} \/ judged = heard
                   \/ /\ File(at, "json") \in DOMAIN disk
                      /\ judged = disk[File(at, "json")]
<1> DEFINE exported(heard) == IF heard = {} THEN disk ELSE Store(disk, "json", heard)
           written(heard) == IF Toggles THEN Store(exported(heard), "toggles.json", {Run})
                             ELSE exported(heard)
           judged(heard) == Asserts /\ File(at, "json") \in DOMAIN written(heard)
<1>1. PICK heard \in Heard, failed \in BOOLEAN :
        /\ disk' = IF judged(heard)
                   THEN Store(written(heard), "assertions.json", {Run})
                   ELSE written(heard)
        /\ report' = Append(report,
             [judged |-> IF judged(heard) THEN written(heard)[File(at, "json")] ELSE {},
              pass |-> ~failed])
  BY DEF FinishRun
<1> DEFINE Holds(d) == /\ DOMAIN disk \subseteq DOMAIN d
                       /\ \A f \in DOMAIN d :
                            \/ f \in DOMAIN disk /\ d[f] = disk[f]
                            \/ f = File(at, f[3]) /\ d[f] \in {{Run}, heard} \ {{}}
<1>2. ASSUME NEW d, NEW kind, NEW runs, Holds(d), runs \in {{Run}, heard} \ {{}}
      PROVE  Holds(Store(d, kind, runs))
  <2> DEFINE u == Store(d, kind, runs)
  <2> HIDE DEF u
  <2>0. /\ DOMAIN u = DOMAIN d \cup {File(at, kind)}
        /\ \A f \in DOMAIN u : u[f] = IF f = File(at, kind) THEN runs ELSE d[f]
    BY DEF Store, update, u
  <2>1. DOMAIN disk \subseteq DOMAIN u
    BY <1>2, <2>0
  <2>2. ASSUME NEW f \in DOMAIN u, f = File(at, kind) PROVE f = File(at, f[3]) /\ u[f] = runs
    BY <2>0, <2>2, FileKind
  <2>3. ASSUME NEW f \in DOMAIN u, f # File(at, kind) PROVE f \in DOMAIN d /\ u[f] = d[f]
    BY <2>0, <2>3
  <2>4. Holds(u)
    BY <1>2, <2>1, <2>2, <2>3
  <2> QED BY <2>4 DEF u
<1>3. Holds(disk)
  OBVIOUS
<1> HIDE DEF Holds
<1>4. {Run} # {}
  OBVIOUS
<1>5. Holds(exported(heard)) /\ Holds(written(heard)) /\ Holds(disk')
  <2>1. Holds(exported(heard))
    BY <1>2, <1>3
  <2> HIDE DEF exported
  <2>2. Holds(written(heard))
    BY <1>2, <1>4, <2>1
  <2> HIDE DEF written, judged
  <2> QED BY <1>1, <1>2, <1>4, <2>1, <2>2
<1>6. ASSUME judged(heard)
      PROVE  \/ written(heard)[File(at, "json")] = heard
             \/ /\ File(at, "json") \in DOMAIN disk
                /\ written(heard)[File(at, "json")] = disk[File(at, "json")]
  <2>1. File(at, "json") # File(at, "toggles.json")
    BY FileKind
  <2> DEFINE e == exported(heard)
             w == written(heard)
             v == Store(e, "toggles.json", {Run})
             u == Store(disk, "json", heard)
  <2>2. /\ DOMAIN v = DOMAIN e \cup {File(at, "toggles.json")}
        /\ \A f \in DOMAIN v : v[f] = IF f = File(at, "toggles.json") THEN {Run} ELSE e[f]
    <3> HIDE DEF e, v
    <3> QED BY DEF Store, update, v
  <2>3. /\ DOMAIN u = DOMAIN disk \cup {File(at, "json")}
        /\ \A f \in DOMAIN u : u[f] = IF f = File(at, "json") THEN heard ELSE disk[f]
    <3> HIDE DEF u
    <3> QED BY DEF Store, update, u
  <2>4. w = (IF Toggles THEN v ELSE e) /\ e = (IF heard = {} THEN disk ELSE u)
    OBVIOUS
  <2>5. File(at, "json") \in DOMAIN w
    BY <1>6
  <2> HIDE DEF e, u, v, w
  <2>6. w[File(at, "json")] = e[File(at, "json")] /\ File(at, "json") \in DOMAIN e
    BY <2>1, <2>2, <2>4, <2>5
  <2>7. \/ e[File(at, "json")] = heard
        \/ File(at, "json") \in DOMAIN disk /\ e[File(at, "json")] = disk[File(at, "json")]
    BY <2>3, <2>4, <2>6
  <2> QED BY <2>6, <2>7 DEF w
<1>7. (~failed) \in BOOLEAN
  OBVIOUS
<1> HIDE DEF written, judged
<1> QED
  BY <1>1, <1>5, <1>6, <1>7 DEF Holds

LEMMA HeardRuns ==
  ASSUME NEW heard \in Heard, NEW r \in heard
  PROVE  \E c \in DOMAIN up : r = up[c]
BY DEF Heard

\* Everything that is recorded of a run is recorded under its number.
Recorded ==
  /\ DOMAIN up \subseteq Enabled({e[2] : e \in compose})
  /\ \A f \in DOMAIN disk : disk[f] # {} /\ disk[f] \subseteq (1..session) \X Nat
  /\ report \in Seq(Judgements)

LEMMA UpTyped ==
  ASSUME Control, UncleanInv, UpInv
  PROVE  \A c \in DOMAIN up : up[c] \in (1..session) \X Nat /\ up[c] \in {Run} \cup unclean
<1>1. session \in Nat /\ at \in Nat
  BY SessionAssumption DEF Control, AgendaOK
<1>2. pc # "shell" => Run \in (1..session) \X Nat
  BY <1>1 DEF Control, Run
<1> QED
  BY <1>2 DEF UpInv, UncleanInv

LEMMA EnabledServices ==
  ASSUME NEW profiles
  PROVE  Enabled(profiles) \subseteq Enabled({e[2] : e \in compose})
<1>1. ASSUME NEW c, NEW p, <<c, p>> \in compose PROVE p \in {e[2] : e \in compose}
  BY <1>1
<1> QED
  BY <1>1 DEF Enabled

LEMMA StepRecorded ==
  Control /\ UncleanInv /\ UpInv /\ Recorded /\ [Next]_vars => Recorded'
<1> SUFFICES ASSUME Control, UncleanInv, UpInv, Recorded, [Next]_vars PROVE Recorded'
  OBVIOUS
<1> USE DEF Recorded
<1>1. session \in Nat /\ at \in Nat
  BY SessionAssumption DEF Control, AgendaOK
<1>2. ASSUME NEW c \in Commands, Call(c) PROVE Recorded'
  <2>1. (1..session) \X Nat \subseteq (1..session') \X Nat
    BY <1>1, <1>2 DEF Call
  <2>2. report' \in Seq(Judgements)
    BY <1>2 DEF Call
  <2> QED BY <1>2, <2>1, <2>2 DEF Call
<1>3. CASE StartRun
  <2>1. \A failed, spared, same :
          DOMAIN Started(Enabled(Profiles) \ failed, spared, same)
            \subseteq Enabled({e[2] : e \in compose})
    BY EnabledServices DEF Started, Stopped
  <2>2. DOMAIN up' \subseteq Enabled({e[2] : e \in compose})
    BY <1>3, <2>1 DEF StartRun
  <2> QED BY <1>3, <2>2 DEF StartRun, progress
<1>4. CASE RunRaises \/ Summary
  BY <1>4 DEF RunRaises, Summary, progress
<1>5. CASE FinishRun
  <2>1. UNCHANGED session /\ DOMAIN up' \subseteq DOMAIN up
    BY <1>5 DEF FinishRun, progress, Stopped
  <2>2. PICK heard \in Heard :
           /\ \A f \in DOMAIN disk' :
                \/ f \in DOMAIN disk /\ disk'[f] = disk[f]
                \/ f = File(at, f[3]) /\ disk'[f] \in {{Run}, heard} \ {{}}
           /\ \E judged, pass :
                /\ report' = Append(report, [judged |-> judged, pass |-> pass])
                /\ pass \in BOOLEAN
                /\ \/ judged = {} \/ judged = heard
                   \/ /\ File(at, "json") \in DOMAIN disk
                      /\ judged = disk[File(at, "json")]
    BY <1>5, Finished
  <2>3. heard \subseteq (1..session) \X Nat
    BY HeardRuns, UpTyped
  <2>4. {Run} \subseteq (1..session) \X Nat
    BY <1>1, <1>5 DEF FinishRun, Control, Run
  <2>5. \A f \in DOMAIN disk' : disk'[f] # {} /\ disk'[f] \subseteq (1..session) \X Nat
    BY <2>2, <2>3, <2>4
  <2>6. report' \in Seq(Judgements)
    <3>1. PICK judged, pass :
            /\ report' = Append(report, [judged |-> judged, pass |-> pass])
            /\ pass \in BOOLEAN /\ judged \subseteq (1..session) \X Nat
      BY <2>2, <2>3
    <3>2. judged \subseteq Nat \X Nat
      BY <1>1, <3>1
    <3>3. [judged |-> judged, pass |-> pass] \in Judgements
      BY <3>1, <3>2 DEF Judgements
    <3> HIDE DEF Judgements
    <3> QED BY <3>1, <3>3
  <2> QED BY <2>1, <2>5, <2>6
<1>6. CASE UNCHANGED vars
  BY <1>6 DEF vars, progress
<1> QED
  BY <1>2, <1>3, <1>4, <1>5, <1>6 DEF Next, Decline, Begin

SessionInv == Control /\ UncleanInv /\ UpInv /\ Recorded

LEMMA SessionInvariant == Spec => []SessionInv
<1>1. Init => SessionInv
  <2>1. Init => Recorded
    BY DEF Init, Recorded
  <2> QED BY <2>1, InitControl DEF SessionInv
<1>2. SessionInv /\ [Next]_vars => SessionInv'
  BY StepControl, StepUnclean, StepUp, StepRecorded DEF SessionInv, Recorded
<1> QED
  BY <1>1, <1>2, PTL DEF Spec

\* main: whatever scenario files, options and failures of docker, the runs of a
\* session are counted along its agenda, and what runs and what is on disk is of
\* sessions that have begun.
THEOREM TypeCorrect == Spec => []TypeOK
<1>1. SessionInv => TypeOK
  BY UpTyped DEF SessionInv, Control, UncleanInv, Recorded, TypeOK
<1> QED
  BY <1>1, SessionInvariant, PTL
-----------------------------------------------------------------------------
(* The clients and the servers of a run. *)

LEMMA ClientProfile ==
  ASSUME NEW c \in Clients, NEW p
  PROVE  <<c, p>> \in compose <=> p = <<c[2], c[3]>>
<1>1. c[1] = "client"
  BY DEF Clients
<1>2. \A i : c # <<"server", i>> /\ c # <<"unreliable", i>> /\ c # <<"mock", i>>
  BY <1>1
<1> QED
  BY <1>2 DEF compose

LEMMA ClientsOf ==
  ASSUME NEW s, SceneOK(s)
  PROVE  /\ get_client_container(s) \in Clients
         /\ Enabled(get_profiles(s)) \cap Clients =
              {get_client_container(s)}
              \cup {c \in {<<"client", "go", "mock">>} : HasMock(s)}
<1>1. s.client_impl \in Impls /\ Kind(s) \in Kinds /\ (HasMock(s) => Kind(s) = "mock")
  BY DEF SceneOK, Kind, Kinds
<1>2. ASSUME NEW c \in Clients PROVE c \in Services
  <2>1. <<c, <<c[2], c[3]>>>> \in compose
    BY ClientProfile
  <2>2. c = <<c, <<c[2], c[3]>>>>[1]
    OBVIOUS
  <2> QED BY <2>1, <2>2, Zenon DEF Services
<1>3. ASSUME NEW c \in Clients
      PROVE  c \in Enabled(get_profiles(s)) <=>
               \/ <<c[2], c[3]>> = <<s.client_impl, Kind(s)>>
               \/ HasMock(s) /\ <<c[2], c[3]>> = <<"go", "mock">>
  <2>1. c # <<"router">> /\ c # <<"jaeger">>
    BY DEF Clients
  <2>2. c \in Enabled(get_profiles(s)) <=> <<c[2], c[3]>> \in get_profiles(s)
    <3>1. \A p : <<c, p>> \in compose <=> p = <<c[2], c[3]>>
      BY ClientProfile
    <3>2. c \in Enabled(get_profiles(s)) <=> \E p \in get_profiles(s) : <<c, p>> \in compose
      BY <1>2, <2>1 DEF Enabled
    <3> QED BY <3>1, <3>2, Zenon
  <2>3. \A x : <<c[2], c[3]>> # <<x>>
    OBVIOUS
  <2> QED BY <2>2, <2>3 DEF get_profiles
<1>4. \A c \in Clients : c = <<"client", c[2], c[3]>>
  BY DEF Clients
<1>5. {get_client_container(s), <<"client", "go", "mock">>} \subseteq Clients
  BY <1>1 DEF get_client_container, Clients, Impls, Kinds
<1> QED
  BY <1>3, <1>4, <1>5 DEF get_client_container

LEMMA ServersOf ==
  ASSUME NEW s, SceneOK(s)
  PROVE  /\ ~HasMock(s) => {<<"server", i>> : i \in 1..3} \subseteq Enabled(get_profiles(s))
         /\ ~HasMock(s) /\ s.server_count >= 5 =>
              {<<"server", i>> : i \in 1..5} \subseteq Enabled(get_profiles(s))
         /\ HasMock(s) => {<<"mock", i>> : i \in 1..3} \subseteq Enabled(get_profiles(s))
<1>1. s.client_impl \in Impls /\ (~HasMock(s) => Kind(s) \in {"nat", "nonat"})
  BY DEF SceneOK, Kind
<1>2. ASSUME NEW c, NEW p, p \in get_profiles(s), <<c, p>> \in compose
      PROVE  c \in Enabled(get_profiles(s))
  <2>1. c \in Services
    BY <1>2 DEF Services
  <2> QED BY <1>2, <2>1 DEF Enabled
<1>3. ~HasMock(s) => {<<"server", i>> : i \in 1..3} \subseteq Enabled(get_profiles(s))
  <2>1. \A i \in 1..3 : ~HasMock(s) =>
          /\ <<s.client_impl, Kind(s)>> \in get_profiles(s)
          /\ <<<<"server", i>>, <<s.client_impl, Kind(s)>>>> \in compose
    BY <1>1 DEF compose, get_profiles
  <2> QED BY <1>2, <2>1
<1>4. ~HasMock(s) /\ s.server_count >= 5 =>
        {<<"server", i>> : i \in {4, 5}} \subseteq Enabled(get_profiles(s))
  <2>1. \A i \in {4, 5} : ~HasMock(s) /\ s.server_count >= 5 =>
          /\ <<"5servers">> \in get_profiles(s)
          /\ <<<<"server", i>>, <<"5servers">>>> \in compose
    BY DEF compose, get_profiles
  <2> QED BY <1>2, <2>1
<1>5. HasMock(s) => {<<"mock", i>> : i \in 1..3} \subseteq Enabled(get_profiles(s))
  <2>1. \A i \in 1..3 : HasMock(s) =>
          /\ <<"go", "mock">> \in get_profiles(s)
          /\ <<<<"mock", i>>, <<"go", "mock">>>> \in compose
    BY DEF compose, get_profiles
  <2> QED BY <1>2, <2>1
<1>6. 1..5 = (1..3) \cup {4, 5}
  OBVIOUS
<1> QED
  BY <1>3, <1>4, <1>5, <1>6

\* While a run is under way what its profiles enable runs, and nothing else is its
\* own.
LEMMA OwnContainers ==
  ASSUME SessionInv, pc = "running"
  PROVE  /\ SceneOK(Scene) /\ Enabled(Profiles) \subseteq DOMAIN up
         /\ \A c \in DOMAIN up : up[c] = Run => c \in Enabled(Profiles)
<1>1. at \in DOMAIN agenda
  BY DEF SessionInv, Control, AgendaOK
<1>2. SceneOK(Scene)
  BY <1>1 DEF SessionInv, Control, AgendaOK, Scene
<1>3. Run \notin unclean
  <2>1. at \in Nat
    BY DEF SessionInv, Control, AgendaOK
  <2> QED BY <2>1 DEF SessionInv, UncleanInv, Run
<1> QED
  BY <1>2, <1>3 DEF SessionInv, UpInv

\* get_profiles, get_client_container, compose.yml: while a run is under way the
\* client whose log is shown runs, and the run has started no other, but for the Go
\* client in a run of the Rust or JavaScript client with the mock servers; every
\* other container that runs was left by a run that raised or whose down failed.
THEOREM ClientsAreExplained == Spec => []ClientsExplained
<1>1. SessionInv => ClientsExplained
  <2>1. ASSUME SessionInv, pc = "running"
        PROVE  /\ get_client_container(Scene) \in DOMAIN up
               /\ \/ HasMock(Scene) /\ Scene.client_impl # "go"
                  \/ Here \subseteq {get_client_container(Scene)}
    <3>1. Here \subseteq Enabled(Profiles) \cap Clients /\ Enabled(Profiles) \subseteq DOMAIN up
      BY <2>1, OwnContainers DEF Here
    <3>2. SceneOK(Scene)
      BY <2>1, OwnContainers
    <3>3. Enabled(Profiles) \cap Clients =
            {get_client_container(Scene)} \cup {c \in {<<"client", "go", "mock">>} : HasMock(Scene)}
      BY <3>2, ClientsOf DEF Profiles
    <3>4. HasMock(Scene) /\ Scene.client_impl = "go" =>
            get_client_container(Scene) = <<"client", "go", "mock">>
      BY DEF get_client_container, Kind
    <3> QED BY <3>1, <3>3, <3>4
  <2>2. SessionInv => StrangersExplained
    BY DEF SessionInv, UpInv, StrangersExplained
  <2> QED BY <2>1, <2>2 DEF ClientsExplained
<1> QED
  BY <1>1, SessionInvariant, PTL

LEMMA Count ==
  ASSUME NEW S, IsFiniteSet(S), NEW what, NEW n \in Nat,
         \A i \in 1..n : <<what, i>> \in S
  PROVE  Cardinality(S) \in Nat /\ Cardinality(S) >= n
<1> DEFINE T == {<<what, i>> : i \in 1..n}
           f == [i \in 1..n |-> <<what, i>>]
<1>1. IsFiniteSet(1..n) /\ Cardinality(1..n) = n
  <2>1. 1 \in Int /\ n \in Int /\ (1 > n => n = 0)
    OBVIOUS
  <2> QED BY ONLY <2>1, FS_Interval
<1>2. f \in Bijection(1..n, T)
  <2>1. f \in [1..n -> T] /\ \A i, j \in 1..n : f[i] = f[j] => i = j
    OBVIOUS
  <2>2. \A t \in T : \E i \in 1..n : f[i] = t
    OBVIOUS
  <2> HIDE DEF f, T
  <2> QED BY <2>1, <2>2 DEF Bijection, Injection, Surjection, IsInjective
<1>3. IsFiniteSet(T) /\ Cardinality(T) = n
  <2> HIDE DEF f, T
  <2> QED BY <1>1, <1>2, FS_Bijection DEF ExistsBijection
<1>4. T \subseteq S
  OBVIOUS
<1> HIDE DEF T
<1> QED
  BY <1>3, <1>4, FS_Subset, FS_CardinalityType

LEMMA ServersFinite == IsFiniteSet(Servers)
<1> DEFINE Kinds2 == {"server", "unreliable", "mock"}
<1>1. IsFiniteSet(Kinds2)
  <2>1. IsFiniteSet({"server"}) /\ IsFiniteSet({"unreliable"}) /\ IsFiniteSet({"mock"})
    BY FS_Singleton
  <2>2. IsFiniteSet({"server"} \cup {"unreliable"})
    BY ONLY <2>1, FS_Union
  <2>3. IsFiniteSet(({"server"} \cup {"unreliable"}) \cup {"mock"})
    BY ONLY <2>1, <2>2, FS_Union
  <2>4. Kinds2 = ({"server"} \cup {"unreliable"}) \cup {"mock"}
    OBVIOUS
  <2> QED BY ONLY <2>3, <2>4
<1>2. \A n \in Nat : IsFiniteSet(1..n)
  BY FS_Interval
<1>3. PICK n \in Nat : n = 7
  OBVIOUS
<1>4. Servers \subseteq Kinds2 \X (1..n)
  <2>1. ASSUME NEW e \in compose, e[1] \notin Clients PROVE e[1] \in Kinds2 \X (1..n)
    BY <1>3, <2>1 DEF compose
  <2> QED BY <2>1 DEF Servers, Services
<1> HIDE DEF Kinds2
<1>5. IsFiniteSet(Kinds2 \X (1..n))
  BY <1>1, <1>2, FS_Product
<1> QED
  BY <1>4, <1>5, FS_Subset

\* get_obs_thresh, get_profiles: for every scenario that sets no threshold itself,
\* there are at least as many servers as addresses need observers, unless four
\* servers are asked for.
THEOREM ThresholdIsInReach == Spec => []ThresholdInReach
<1>1. ASSUME SessionInv PROVE ThresholdInReach
  <2> SUFFICES ASSUME pc = "running", Scene.obs_addr_thresh = None,
                      HasMock(Scene) \/ Scene.server_count # 4
               PROVE  Cardinality(Serving) >= get_obs_thresh(Scene)
    BY DEF ThresholdInReach, ThresholdAlways
  <2>1. Serving = Enabled(Profiles) \cap Servers /\ SceneOK(Scene)
    BY <1>1, OwnContainers DEF Serving
  <2>2. IsFiniteSet(Serving)
    <3>1. Serving \subseteq Servers
      BY <2>1
    <3> QED BY <3>1, ServersFinite, FS_Subset
  <2>3. \A i : <<"server", i>> \notin Clients /\ <<"mock", i>> \notin Clients
    BY DEF Clients
  <2>4. \A i : <<"server", i>> \notin {<<"router">>, <<"jaeger">>}
               /\ <<"mock", i>> \notin {<<"router">>, <<"jaeger">>}
    OBVIOUS
  <2>5. \A c \in Enabled(Profiles) : c \notin {<<"router">>, <<"jaeger">>} => c \in Services
    BY DEF Enabled
  <2>6. CASE HasMock(Scene)
    <3>0. PICK n \in Nat : n = 3
      OBVIOUS
    <3>1. \A i \in 1..n : <<"mock", i>> \in Serving
      BY <2>1, <2>3, <2>4, <2>5, <2>6, <3>0, ServersOf DEF Servers, Profiles
    <3>2. get_obs_thresh(Scene) = 2
      BY <2>6 DEF get_obs_thresh
    <3>3. Cardinality(Serving) \in Nat /\ Cardinality(Serving) >= n
      BY ONLY <2>2, <3>0, <3>1, Count
    <3> QED BY <3>0, <3>2, <3>3
  <2>7. CASE ~HasMock(Scene) /\ Scene.server_count = 3
    <3>0. PICK n \in Nat : n = 3
      OBVIOUS
    <3>1. \A i \in 1..n : <<"server", i>> \in Serving
      BY <2>1, <2>3, <2>4, <2>5, <2>7, <3>0, ServersOf DEF Servers, Profiles
    <3>2. get_obs_thresh(Scene) = 2
      BY <2>7 DEF get_obs_thresh
    <3>3. Cardinality(Serving) \in Nat /\ Cardinality(Serving) >= n
      BY ONLY <2>2, <3>0, <3>1, Count
    <3> QED BY <3>0, <3>2, <3>3
  <2>8. CASE ~HasMock(Scene) /\ Scene.server_count \in 5..7
    <3>0. PICK n \in Nat : n = 5
      OBVIOUS
    <3>4. {<<"server", i>> : i \in 1..5} \subseteq Enabled(Profiles)
      BY <2>1, <2>8, ServersOf DEF Profiles
    <3>1. \A i \in 1..n : <<"server", i>> \in Serving
      BY <2>1, <2>3, <2>4, <2>5, <3>0, <3>4 DEF Servers
    <3>2. get_obs_thresh(Scene) = 4
      BY <2>8 DEF get_obs_thresh
    <3>3. Cardinality(Serving) \in Nat /\ Cardinality(Serving) >= n
      BY ONLY <2>2, <3>0, <3>1, Count
    <3> QED BY <3>0, <3>2, <3>3
  <2> QED BY <2>1, <2>6, <2>7, <2>8 DEF SceneOK
<1> QED
  BY <1>1, SessionInvariant, PTL
-----------------------------------------------------------------------------
(* The labels of the runs. *)

LEMMA SeqIsList == ASSUME NEW S, NEW l \in Seq(S) PROVE IsList(l)
BY DEF IsList

\* The parts of a list after the first n.
Rest(l, n) == {l[i] : i \in (n + 1)..Len(l)}

\* r extends l, of which the first n parts are kept and the others are in rest.
Extends(r, l, n, rest) ==
  /\ n <= Len(r) /\ Rest(r, n) = rest
  /\ \A i \in 1..n : r[i] = l[i]

\* r is l, and all is rest, with the part p if the condition c holds.
One(c, p) == {x \in {p} : c}
Adds(r, all, l, rest, c, p) ==
  r = l \o (IF c THEN <<p>> ELSE <<>>) /\ all = rest \cup One(c, p)

LEMMA PartAdded ==
  ASSUME NEW S, NEW b, NEW l \in Seq(S), NEW n \in Nat, NEW rest, Extends(l, b, n, rest),
         NEW c \in BOOLEAN, NEW p \in S, NEW r, NEW all, Adds(r, all, l, rest, c, p)
  PROVE  r \in Seq(S) /\ Extends(r, b, n, all)
<1> DEFINE m == IF c THEN <<p>> ELSE <<>>
<1>0. r = l \o m /\ all = rest \cup One(c, p)
  BY DEF Adds
<1>1. m \in Seq(S) /\ Len(m) = (IF c THEN 1 ELSE 0) /\ (c => m[1] = p)
  OBVIOUS
<1> HIDE DEF m
<1>2. /\ r \in Seq(S) /\ Len(r) = Len(l) + Len(m) /\ Len(l) \in Nat
      /\ \A i \in 1..Len(l) + Len(m) : r[i] = IF i <= Len(l) THEN l[i] ELSE m[i - Len(l)]
  <2>1. l \in Seq(S) /\ m \in Seq(S) /\ Len(l) \in Nat
    BY <1>1
  <2>2. /\ l \o m \in Seq(S) /\ Len(l \o m) = Len(l) + Len(m)
        /\ \A i \in 1..Len(l) + Len(m) :
             (l \o m)[i] = IF i <= Len(l) THEN l[i] ELSE m[i - Len(l)]
    BY ONLY <2>1, ConcatProperties, Zenon
  <2> QED BY <1>0, <2>1, <2>2, Zenon
<1>3. \A i \in 1..Len(l) : r[i] = l[i]
  BY <1>1, <1>2
<1>4. CASE c
  <2>1. Len(r) = Len(l) + 1 /\ r[Len(r)] = p
    BY <1>1, <1>2, <1>4
  <2>2. \A i : i \in (n + 1)..Len(r) <=> i \in (n + 1)..Len(l) \/ i = Len(r)
    BY <1>2, <2>1 DEF Extends
  <2>3. \A i \in (n + 1)..Len(l) : r[i] = l[i]
    BY <1>3
  <2>4. Rest(r, n) = Rest(l, n) \cup {p}
    BY <2>1, <2>2, <2>3 DEF Rest
  <2>5. \A i \in 1..n : r[i] = l[i]
    BY <1>2, <1>3 DEF Extends
  <2> QED BY <1>0, <1>2, <1>4, <2>1, <2>4, <2>5 DEF Extends, One
<1>5. CASE ~c
  <2>1. Len(r) = Len(l)
    BY <1>1, <1>2, <1>5
  <2>2. \A i \in (n + 1)..Len(l) : r[i] = l[i]
    BY <1>3
  <2>3. Rest(r, n) = Rest(l, n)
    BY <2>1, <2>2 DEF Rest
  <2>4. \A i \in 1..n : r[i] = l[i]
    BY <1>2, <1>3 DEF Extends
  <2> QED BY <1>0, <1>2, <1>5, <2>1, <2>3, <2>4 DEF Extends, One
<1> QED
  BY <1>4, <1>5

\* What build_run_label puts before the optional parts, and these.
Base(s) == IF s.name # <<>> THEN s.name ELSE Unnamed(s)

Added(s, run_num) ==
  One(s.client_impl # "go", <<s.client_impl>>)
  \cup One(s.packet_loss # 0, <<"loss", s.packet_loss>>)
  \cup One(s.latency_ms # 0, <<"lat", s.latency_ms>>)
  \cup One(s.runs > 1, <<"run", run_num>>)

LEMMA LabelParts ==
  ASSUME NEW s, NEW run_num, IsList(Base(s))
  PROVE  /\ IsList(build_run_label(s, run_num))
         /\ Extends(build_run_label(s, run_num), Base(s), Len(Base(s)), Added(s, run_num))
<1> DEFINE B == Base(s)
           n == Len(B)
           S == {B[i] : i \in DOMAIN B} \cup
                {<<s.client_impl>>, <<"loss", s.packet_loss>>,
                 <<"lat", s.latency_ms>>, <<"run", run_num>>}
           c1 == s.client_impl # "go"
           c2 == s.packet_loss # 0
           c3 == s.latency_ms # 0
           c4 == s.runs > 1
           p1 == <<s.client_impl>>
           p2 == <<"loss", s.packet_loss>>
           p3 == <<"lat", s.latency_ms>>
           p4 == <<"run", run_num>>
           r1 == B \o (IF c1 THEN <<p1>> ELSE <<>>)
           r2 == r1 \o (IF c2 THEN <<p2>> ELSE <<>>)
           r3 == r2 \o (IF c3 THEN <<p3>> ELSE <<>>)
           r4 == r3 \o (IF c4 THEN <<p4>> ELSE <<>>)
           a1 == {} \cup One(c1, p1)
           a2 == a1 \cup One(c2, p2)
           a3 == a2 \cup One(c3, p3)
           a4 == a3 \cup One(c4, p4)
<1>1. build_run_label(s, run_num) = r4
  BY DEF build_run_label, Base
<1>2. Added(s, run_num) = a4
  BY DEF Added
<1>3. n \in Nat /\ B \in Seq(S) /\ Extends(B, B, n, {})
  <2>1. n \in Nat /\ B \in Seq(S)
    BY ListFacts
  <2> QED BY <2>1 DEF Extends, Rest
<1>4. /\ c1 \in BOOLEAN /\ c2 \in BOOLEAN /\ c3 \in BOOLEAN /\ c4 \in BOOLEAN
      /\ p1 \in S /\ p2 \in S /\ p3 \in S /\ p4 \in S
  OBVIOUS
<1>5. /\ Adds(r1, a1, B, {}, c1, p1) /\ Adds(r2, a2, r1, a1, c2, p2)
      /\ Adds(r3, a3, r2, a2, c3, p3) /\ Adds(r4, a4, r3, a3, c4, p4)
  BY DEF Adds
<1> HIDE DEF B, n, S, c1, c2, c3, c4, p1, p2, p3, p4, r1, r2, r3, r4, a1, a2, a3, a4
<1>6. r4 \in Seq(S) /\ Extends(r4, B, n, a4)
  BY <1>3, <1>4, <1>5, PartAdded
<1> QED
  BY <1>1, <1>2, <1>6, SeqIsList DEF B, n

Tails == {"rust", "js", "loss", "lat", "run"}

LEMMA AddedTails ==
  ASSUME NEW s, SceneOK(s), NEW run_num
  PROVE  \A x \in Added(s, run_num) : x[1] \in Tails
BY DEF Added, One, Tails, SceneOK, Impls

LEMMA NatPart ==
  /\ NatParts["none"] = <<<<"none">>>> /\ NatParts["symmetric"] = <<<<"symmetric">>>>
  /\ NatParts["full-cone"] = <<<<"full">>, <<"cone">>>>
  /\ NatParts["address-restricted"] = <<<<"address">>, <<"restricted">>>>
  /\ NatParts["port-restricted"] = <<<<"port">>, <<"restricted">>>>
BY DEF NatParts, NatTypes

LEMMA UnnamedParts ==
  ASSUME NEW s, SceneOK(s)
  PROVE  LET u == Unnamed(s)
             n == Len(u)
         IN  /\ IsList(u) /\ n >= 3 /\ u[1] = NatParts[s.nat_type][1]
             /\ u[n - 1] = <<s.transport>>
             /\ u[n] = IF HasMock(s) THEN <<"mock">> ELSE <<"servers", s.server_count>>
<1> DEFINE N == NatParts[s.nat_type]
           last == IF HasMock(s) THEN <<"mock">> ELSE <<"servers", s.server_count>>
           T == <<<<s.transport>>, last>>
           S == {N[1], N[2], <<s.transport>>, last}
           u == Unnamed(s)
<1>1. N \in Seq(S) /\ Len(N) \in 1..2
  <2>1. (\E x : N = <<x>>) \/ (\E x, y : N = <<x, y>>)
    <3> HIDE DEF N
    <3> QED BY NatPart DEF NatTypes, SceneOK, N
  <2> HIDE DEF N
  <2>2. ASSUME NEW x, N = <<x>> PROVE N \in Seq({N[1], N[2]}) /\ Len(N) = 1
    BY <2>2
  <2>3. ASSUME NEW x, NEW y, N = <<x, y>> PROVE N \in Seq({N[1], N[2]}) /\ Len(N) = 2
    BY <2>3
  <2>4. N \in Seq({N[1], N[2]}) /\ Len(N) \in 1..2
    BY <2>1, <2>2, <2>3
  <2>5. DOMAIN N = 1..Len(N) /\ N = [i \in 1..Len(N) |-> N[i]]
        /\ \A i \in 1..Len(N) : N[i] \in S
    BY <2>4
  <2> HIDE DEF S
  <2> QED BY <2>4, <2>5
<1>2. T \in Seq(S) /\ Len(T) = 2 /\ T[1] = <<s.transport>> /\ T[2] = last
  OBVIOUS
<1>3. u = N \o T
  BY DEF Unnamed
<1> HIDE DEF N, T, S, u, last
<1>4. /\ u \in Seq(S) /\ Len(u) = Len(N) + 2
      /\ \A i \in 1..Len(N) + Len(T) : u[i] = IF i <= Len(N) THEN N[i] ELSE T[i - Len(N)]
  <2>1. /\ N \o T \in Seq(S) /\ Len(N \o T) = Len(N) + Len(T)
        /\ \A i \in 1..Len(N) + Len(T) :
             (N \o T)[i] = IF i <= Len(N) THEN N[i] ELSE T[i - Len(N)]
    BY ONLY <1>1, <1>2, ConcatProperties, Zenon
  <2> QED BY <1>2, <1>3, <2>1, Zenon
<1>5. u[1] = N[1] /\ u[Len(N) + 1] = T[1] /\ u[Len(N) + 2] = T[2]
  BY <1>1, <1>2, <1>4
<1>6. Len(u) >= 3 /\ Len(u) - 1 = Len(N) + 1 /\ IsList(u)
  <2>1. IsList(u)
    BY ONLY <1>4, SeqIsList
  <2>2. Len(u) = Len(N) + 2
    BY <1>4
  <2> QED BY ONLY <1>1, <2>1, <2>2
<1> QED
  BY <1>2, <1>4, <1>5, <1>6 DEF u, N, last

LEMMA BaseEnd ==
  ASSUME NEW s, SceneOK(s), PlainName(s.name)
  PROVE  LET b == Base(s) IN IsList(b) /\ Len(b) >= 1 /\ b[Len(b)][1] \notin Tails
<1>1. CASE s.name # <<>>
  <2>1. Base(s) = s.name /\ IsList(s.name) /\ s.name[Len(s.name)][1] \notin Tails
    BY <1>1 DEF Base, PlainName, Tails
  <2>2. Len(s.name) # 0
    BY <1>1, <2>1 DEF IsList
  <2> QED BY <2>1, <2>2 DEF IsList
<1>2. CASE s.name = <<>>
  <2>1. Base(s) = Unnamed(s)
    BY <1>2 DEF Base
  <2> DEFINE u == Unnamed(s)
  <2>2. IsList(u) /\ Len(u) >= 3
        /\ u[Len(u)] = IF HasMock(s) THEN <<"mock">> ELSE <<"servers", s.server_count>>
    BY UnnamedParts
  <2> HIDE DEF u
  <2>3. u[Len(u)][1] \in {"mock", "servers"} /\ Len(u) \in Nat
    BY <2>2 DEF IsList
  <2> QED BY <2>1, <2>2, <2>3 DEF Tails, u
<1> QED
  BY <1>1, <1>2

\* Where a label's base ends can be read off the label.
LEMMA SameBase ==
  ASSUME NEW s, NEW t, SceneOK(s), SceneOK(t), PlainName(s.name), PlainName(t.name),
         NEW i, NEW j, build_run_label(s, i) = build_run_label(t, j)
  PROVE  Base(s) = Base(t) /\ Added(s, i) = Added(t, j)
<1> DEFINE l == build_run_label(s, i)
           b == Base(s)
           d == Base(t)
           n == Len(b)
           m == Len(d)
<1>1. /\ IsList(b) /\ n >= 1 /\ b[n][1] \notin Tails /\ n \in Nat
      /\ IsList(d) /\ m >= 1 /\ d[m][1] \notin Tails /\ m \in Nat
  BY BaseEnd DEF IsList
<1>2. Extends(l, b, n, Added(s, i)) /\ Extends(l, d, m, Added(t, j)) /\ Len(l) \in Nat
  BY <1>1, LabelParts DEF IsList
<1>3. \A x \in Added(s, i) \cup Added(t, j) : x[1] \in Tails
  BY AddedTails
<1> HIDE DEF l, b, d, n, m
<1>4. ~(n < m)
  <2> SUFFICES ASSUME n < m PROVE FALSE
    OBVIOUS
  <2>1. l[m] = d[m] /\ l[m] \in Rest(l, n) /\ Rest(l, n) = Added(s, i)
    BY <1>1, <1>2 DEF Extends, Rest
  <2> QED BY <1>1, <1>3, <2>1
<1>5. ~(m < n)
  <2> SUFFICES ASSUME m < n PROVE FALSE
    OBVIOUS
  <2>1. l[n] = b[n] /\ l[n] \in Rest(l, m) /\ Rest(l, m) = Added(t, j)
    BY <1>1, <1>2 DEF Extends, Rest
  <2> QED BY <1>1, <1>3, <2>1
<1>6. n = m
  BY <1>1, <1>4, <1>5
<1>7. Added(s, i) = Added(t, j) /\ \A k \in 1..n : b[k] = d[k]
  BY <1>2, <1>6 DEF Extends
<1>8. b = d
  <2>1. b = [k \in 1..n |-> b[k]] /\ d = [k \in 1..n |-> d[k]]
    BY <1>1, <1>6 DEF IsList, n, m
  <2> QED BY <1>7, <2>1
<1> QED
  BY <1>7, <1>8 DEF b, d

LEMMA SameAdded ==
  ASSUME NEW s, NEW t, SceneOK(s), SceneOK(t), NEW i \in 1..s.runs, NEW j \in 1..t.runs,
         Added(s, i) = Added(t, j)
  PROVE  /\ s.client_impl = t.client_impl /\ s.packet_loss = t.packet_loss
         /\ s.latency_ms = t.latency_ms /\ i = j
<1>1. \A u, k, x : x \in Added(u, k) <=>
        \/ u.client_impl # "go" /\ x = <<u.client_impl>>
        \/ u.packet_loss # 0 /\ x = <<"loss", u.packet_loss>>
        \/ u.latency_ms # 0 /\ x = <<"lat", u.latency_ms>>
        \/ u.runs > 1 /\ x = <<"run", k>>
  BY DEF Added, One
<1>2. ASSUME NEW u, SceneOK(u), NEW k
      PROVE  /\ \A x \in {"rust", "js"} : <<x>> \in Added(u, k) <=> u.client_impl = x
             /\ \A p : <<"loss", p>> \in Added(u, k) <=> u.packet_loss # 0 /\ p = u.packet_loss
             /\ \A p : <<"lat", p>> \in Added(u, k) <=> u.latency_ms # 0 /\ p = u.latency_ms
             /\ \A p : <<"run", p>> \in Added(u, k) <=> u.runs > 1 /\ p = k
  <2>1. u.client_impl \in {"go", "rust", "js"}
    BY <1>2 DEF SceneOK, Impls
  <2> QED BY <1>1, <2>1
<1>3. s.client_impl = t.client_impl
  BY <1>2 DEF SceneOK, Impls
<1>4. /\ \A p : s.packet_loss # 0 /\ p = s.packet_loss <=> t.packet_loss # 0 /\ p = t.packet_loss
      /\ \A p : s.latency_ms # 0 /\ p = s.latency_ms <=> t.latency_ms # 0 /\ p = t.latency_ms
      /\ \A p : s.runs > 1 /\ p = i <=> t.runs > 1 /\ p = j
  <2> DEFINE A == Added(s, i)
  <2>1. /\ \A p : <<"loss", p>> \in A <=> s.packet_loss # 0 /\ p = s.packet_loss
        /\ \A p : <<"lat", p>> \in A <=> s.latency_ms # 0 /\ p = s.latency_ms
        /\ \A p : <<"run", p>> \in A <=> s.runs > 1 /\ p = i
    BY <1>2
  <2>2. /\ \A p : <<"loss", p>> \in A <=> t.packet_loss # 0 /\ p = t.packet_loss
        /\ \A p : <<"lat", p>> \in A <=> t.latency_ms # 0 /\ p = t.latency_ms
        /\ \A p : <<"run", p>> \in A <=> t.runs > 1 /\ p = j
    BY <1>2
  <2> HIDE DEF A
  <2> QED BY ONLY <2>1, <2>2
<1>5. s.packet_loss = t.packet_loss /\ s.latency_ms = t.latency_ms
  BY ONLY <1>4
<1>6. i = j
  <2>1. /\ s.runs \in Int /\ t.runs \in Int
        /\ i \in 1..s.runs /\ j \in 1..t.runs
    BY DEF SceneOK
  <2> QED BY ONLY <1>4, <2>1
<1> QED
  BY <1>3, <1>5, <1>6

LEMMA SameUnnamed ==
  ASSUME NEW s, NEW t, SceneOK(s), SceneOK(t), Unnamed(s) = Unnamed(t)
  PROVE  /\ s.nat_type = t.nat_type /\ s.transport = t.transport
         /\ HasMock(s) = HasMock(t) /\ (~HasMock(s) => s.server_count = t.server_count)
<1>1. /\ NatParts[s.nat_type][1] = NatParts[t.nat_type][1]
      /\ <<s.transport>> = <<t.transport>>
      /\ (IF HasMock(s) THEN <<"mock">> ELSE <<"servers", s.server_count>>)
         = (IF HasMock(t) THEN <<"mock">> ELSE <<"servers", t.server_count>>)
  BY UnnamedParts
<1>2. s.nat_type = t.nat_type
  <2>1. \A x, y \in NatTypes : NatParts[x][1] = NatParts[y][1] => x = y
    BY DEF NatParts, NatTypes
  <2> QED BY <1>1, <2>1 DEF SceneOK
<1>3. HasMock(s) = HasMock(t) /\ (~HasMock(s) => s.server_count = t.server_count)
  BY <1>1 DEF HasMock
<1> QED
  BY <1>1, <1>2, <1>3
-----------------------------------------------------------------------------
(* The files of a session. *)

Named == \A k \in DOMAIN agenda : PlainName(agenda[k].scenario.name)

\* build_run_label: for plain names a label tells all that identifies a run.
LEMMA OneLabel ==
  ASSUME AgendaOK(agenda), Named, NEW j \in DOMAIN agenda, NEW k \in DOMAIN agenda,
         build_run_label(agenda[j].scenario, agenda[j].run_num)
           = build_run_label(agenda[k].scenario, agenda[k].run_num)
  PROVE  Identity(j) = Identity(k)
<1> DEFINE s == agenda[j].scenario
           t == agenda[k].scenario
<1>1. /\ SceneOK(s) /\ PlainName(s.name) /\ agenda[j].run_num \in 1..s.runs
      /\ SceneOK(t) /\ PlainName(t.name) /\ agenda[k].run_num \in 1..t.runs
  BY DEF AgendaOK, Named
<1>2. /\ Base(s) = Base(t)
      /\ Added(s, agenda[j].run_num) = Added(t, agenda[k].run_num)
  BY <1>1, SameBase
<1>3. /\ s.client_impl = t.client_impl /\ s.packet_loss = t.packet_loss
      /\ s.latency_ms = t.latency_ms /\ agenda[j].run_num = agenda[k].run_num
  BY <1>1, <1>2, SameAdded
<1>4. ASSUME NEW u, NEW v, SceneOK(v), PlainName(u.name), u.name # <<>>, v.name = <<>>,
             Base(u) = Base(v)
      PROVE  FALSE
  <2> DEFINE last == IF HasMock(v) THEN <<"mock">> ELSE <<"servers", v.server_count>>
  <2>1. u.name = NatParts[v.nat_type] \o <<<<v.transport>>, last>>
    BY <1>4 DEF Base, Unnamed
  <2>2. last \in {<<"mock">>} \cup {<<"servers", n>> : n \in 3..7}
    BY <1>4 DEF SceneOK
  <2> HIDE DEF last
  <2> QED BY <1>4, <2>1, <2>2 DEF PlainName, SceneOK
<1>5. \/ s.name # <<>> /\ t.name # <<>> /\ s.name = t.name
      \/ s.name = <<>> /\ t.name = <<>> /\ Unnamed(s) = Unnamed(t)
  BY <1>1, <1>2, <1>4 DEF Base
<1> QED
  BY <1>1, <1>3, <1>5, SameUnnamed DEF Identity

LEMMA Fresh ==
  ASSUME AgendaOK(agenda), Named, Distinct, NEW j \in DOMAIN agenda, NEW k \in DOMAIN agenda,
         NEW x, NEW y, File(j, x) = File(k, y)
  PROVE  j = k
BY OneLabel DEF File, Distinct

\* A directory of a session's own is new; a file with spans or results of the
\* session, or in its own directory, is one of a run before the one at hand.
FilesInv ==
  /\ Named
  /\ \A f \in DOMAIN disk, n \in Nat : f[1] = <<"own", n>> => n <= session
  /\ pc # "shell" => \A f \in DOMAIN disk :
       f[1] = <<"own", session>> \/ (\E r \in disk[f] : r[1] = session) =>
         \E k \in 1..at - 1 : f = File(k, f[3])

LEMMA FileDir ==
  ASSUME NEW k, NEW kind, NEW n \in Nat, File(k, kind)[1] = <<"own", n>>
  PROVE  n = session
BY DEF File, result_dir

LEMMA StepFiles ==
  PlainNames /\ SessionInv /\ FilesInv /\ [Next]_vars => FilesInv'
<1> SUFFICES ASSUME PlainNames, SessionInv, FilesInv, [Next]_vars PROVE FilesInv'
  OBVIOUS
<1>0. session \in Nat /\ at \in Nat /\ Len(agenda) \in Nat
  BY SessionAssumption DEF SessionInv, Control, AgendaOK
<1>1. ASSUME NEW c \in Commands, Call(c) PROVE
         /\ \A f \in DOMAIN disk', n \in Nat : f[1] = <<"own", n>> => n <= session'
         /\ \A f \in DOMAIN disk' : ~(f[1] = <<"own", session'>> \/ \E r \in disk'[f] : r[1] = session')
  <2>1. \A f \in DOMAIN disk : \A r \in disk[f] : r[1] \in 1..session
    BY DEF SessionInv, Recorded
  <2>2. session' = session + 1 /\ UNCHANGED disk /\ session' \in Nat
    BY <1>0, <1>1 DEF Call
  <2> QED BY <1>0, <2>1, <2>2 DEF FilesInv
<1>2. CASE Decline
  <2>1. Named'
    BY <1>2 DEF Decline, Named
  <2> QED BY <1>1, <1>2, <2>1 DEF Decline, FilesInv
<1>3. CASE Begin
  <2>1. PICK c \in Commands : Call(c) /\ Accepted(c) /\ agenda' = Agenda(Selected(c))
    BY <1>3 DEF Begin
  <2>2. Named'
    BY <2>1, AgendaList DEF Named, PlainNames
  <2> QED BY <1>1, <2>1, <2>2 DEF FilesInv
<1>4. ASSUME UNCHANGED <<progress, at, disk>>, pc' # "shell" => pc # "shell" PROVE FilesInv'
  BY <1>4 DEF progress, FilesInv, Named, File, result_dir
<1>5. CASE FinishRun
  <2>1. PICK heard \in Heard :
          \A f \in DOMAIN disk' :
             \/ f \in DOMAIN disk /\ disk'[f] = disk[f]
             \/ f = File(at, f[3]) /\ disk'[f] \in {{Run}, heard} \ {{}}
    BY <1>5, Finished
  <2>2. /\ UNCHANGED progress /\ at' = at + 1 /\ pc = "running" /\ at \in 1..at' - 1
    BY <1>0, <1>5 DEF FinishRun, SessionInv, Control
  <2>3. \A k, kind : File(k, kind)' = File(k, kind)
    BY <2>2 DEF progress, File, result_dir
  <2>4. \A f \in DOMAIN disk', n \in Nat : f[1] = <<"own", n>> => n <= session'
    BY <1>0, <2>1, <2>2, FileDir DEF FilesInv, progress
  <2>5. ASSUME NEW f \in DOMAIN disk',
               f[1] = <<"own", session'>> \/ \E r \in disk'[f] : r[1] = session'
        PROVE  \E k \in 1..at' - 1 : f = File(k, f[3])'
    <3>1. CASE f \in DOMAIN disk /\ disk'[f] = disk[f]
      <4>1. PICK k \in 1..at - 1 : f = File(k, f[3])
        BY <2>2, <2>5, <3>1 DEF FilesInv, progress
      <4> QED BY <1>0, <2>2, <2>3, <4>1
    <3>2. CASE f = File(at, f[3])
      BY <2>2, <2>3, <3>2
    <3> QED BY <2>1, <3>1, <3>2
  <2>6. Named'
    BY <2>2 DEF FilesInv, Named, progress
  <2> QED BY <2>4, <2>5, <2>6 DEF FilesInv
<1>6. CASE UNCHANGED vars
  BY <1>4, <1>6 DEF vars
<1> QED
  BY <1>2, <1>3, <1>4, <1>5, <1>6 DEF Next, StartRun, RunRaises, Raise, Summary

LEMMA FilesInvariant == PlainNames => (Spec => [](SessionInv /\ FilesInv))
<1>1. Init => FilesInv
  BY DEF Init, FilesInv, Named
<1>2. ASSUME PlainNames PROVE SessionInv /\ FilesInv /\ [Next]_vars => FilesInv'
  BY <1>2, StepFiles
<1> SUFFICES ASSUME PlainNames PROVE Spec => [](SessionInv /\ FilesInv)
  OBVIOUS
<1> QED
  BY <1>1, <1>2, SessionInvariant, PTL DEF Spec

LEMMA SameDistinct == ASSUME UNCHANGED agenda PROVE Distinct' <=> Distinct
<1>1. \A k : Identity(k)' = Identity(k)
  BY DEF Identity
<1>2. (DOMAIN agenda)' = DOMAIN agenda
  OBVIOUS
<1> QED
  BY <1>1, <1>2, Zenon DEF Distinct

LEMMA StepJudged ==
  PlainNames /\ SessionInv /\ FilesInv /\ JudgedOnOwn /\ [Next]_vars => JudgedOnOwn'
<1> SUFFICES ASSUME PlainNames, SessionInv, FilesInv, JudgedOnOwn, [Next]_vars
             PROVE  JudgedOnOwn'
  OBVIOUS
<1>1. ASSUME NEW c \in Commands, Call(c) PROVE JudgedOnOwn'
  BY <1>1 DEF Call, JudgedOnOwn
<1>2. ASSUME UNCHANGED <<progress, report>>, unclean \subseteq unclean' PROVE JudgedOnOwn'
  BY <1>2, SameDistinct DEF JudgedOnOwn, progress
<1>3. CASE FinishRun
  <2> SUFFICES ASSUME command' # None, command'.options.output = 0, Distinct', NEW k \in DOMAIN report'
               PROVE  report'[k].judged \subseteq {<<session', k>>} \cup unclean'
    BY DEF JudgedOnOwn
  <2>1. /\ UNCHANGED progress /\ unclean \subseteq unclean' /\ pc = "running"
        /\ at \in DOMAIN agenda /\ Len(report) = at - 1 /\ command # None
    BY <1>3 DEF FinishRun, SessionInv, Control, AgendaOK, progress
  <2>2. command.options.output = 0 /\ Distinct
    BY <2>1, SameDistinct DEF progress
  <2>3. PICK heard \in Heard : \E judged, pass :
          /\ report' = Append(report, [judged |-> judged, pass |-> pass])
          /\ \/ judged = {} \/ judged = heard
             \/ File(at, "json") \in DOMAIN disk
    BY <1>3, Finished
  <2>8. PICK judged, pass :
          /\ report' = Append(report, [judged |-> judged, pass |-> pass])
          /\ \/ judged = {} \/ judged = heard
             \/ File(at, "json") \in DOMAIN disk
    BY <2>3
  <2>4. heard \subseteq {Run} \cup unclean
    BY HeardRuns, UpTyped DEF SessionInv
  <2>5. File(at, "json") \notin DOMAIN disk
    <3> SUFFICES ASSUME File(at, "json") \in DOMAIN disk PROVE FALSE
      OBVIOUS
    <3>1. File(at, "json")[1] = <<"own", session>>
      BY <2>2 DEF File, result_dir
    <3>2. PICK k1 \in 1..at - 1 : File(at, "json") = File(k1, "json")
      BY <2>1, <3>1, FileKind DEF FilesInv
    <3>3. k1 \in DOMAIN agenda /\ k1 # at
      BY <2>1 DEF SessionInv, Control, AgendaOK
    <3> QED BY <2>1, <2>2, <3>2, <3>3, Fresh DEF SessionInv, Control, FilesInv
  <2>6. CASE k \in DOMAIN report
    BY <2>8, <2>1, <2>2, <2>6 DEF JudgedOnOwn, SessionInv, Recorded, progress
  <2>7. CASE k \notin DOMAIN report
    <3>1. k = at /\ report'[k].judged = judged
      BY <2>8, <2>1, <2>7 DEF SessionInv, Recorded, Control
    <3> QED BY <2>8, <2>1, <2>4, <2>5, <3>1 DEF Run, progress
  <2> QED BY <2>6, <2>7
<1> QED
  BY <1>1, <1>2, <1>3 DEF Next, Decline, Begin, StartRun, RunRaises, Raise, Summary,
     progress, vars

\* run_scenario, evaluate: for plain names, whatever is in the file and whatever
\* fails, a run whose directory is new is judged on its own spans and on those of
\* a client that a run which raised, or whose final down failed, has left behind.
THEOREM VerdictsAreOwn == PlainNames => (Spec => []JudgedOnOwn)
<1> SUFFICES ASSUME PlainNames PROVE Spec => []JudgedOnOwn
  OBVIOUS
<1>1. Init => JudgedOnOwn
  BY DEF Init, JudgedOnOwn
<1>2. SessionInv /\ FilesInv /\ JudgedOnOwn /\ [Next]_vars => JudgedOnOwn'
  BY StepJudged
<1> QED
  BY <1>1, <1>2, FilesInvariant, PTL DEF Spec

\* run_scenario: for plain names, a session of distinct runs overwrites no file
\* that has spans or results of the session, in a directory of its own or not.
THEOREM NothingIsOverwritten == PlainNames => (Spec => ResultsAreKept)
<1> SUFFICES ASSUME PlainNames PROVE Spec => ResultsAreKept
  OBVIOUS
<1>1. ASSUME SessionInv, FilesInv, [Next]_vars, pc = "running", Distinct,
             NEW f \in DOMAIN disk, disk[f] \cap Written # {}
      PROVE  f \in DOMAIN disk' /\ disk'[f] = disk[f]
  <2>1. CASE FinishRun
    <3>1. PICK k \in 1..at - 1 : f = File(k, f[3])
      BY <1>1 DEF FilesInv, Written
    <3>2. at \in DOMAIN agenda /\ k \in DOMAIN agenda /\ k # at
      BY <1>1 DEF SessionInv, Control, AgendaOK
    <3>3. f # File(at, f[3])
      BY <1>1, <3>1, <3>2, Fresh DEF SessionInv, Control, FilesInv
    <3> QED BY <2>1, <3>3, Finished
  <2>2. CASE UNCHANGED disk
    BY <2>2
  <2> QED
    BY <1>1, <2>1, <2>2 DEF Next, Decline, Begin, Call, StartRun, RunRaises, Raise, Summary,
       progress, vars
<1>2. SessionInv /\ FilesInv /\ [Next]_vars =>
        [pc = "running" /\ Distinct =>
           \A f \in DOMAIN disk :
             disk[f] \cap Written # {} => f \in DOMAIN disk' /\ disk'[f] = disk[f]]_vars
  BY <1>1
<1> QED
  BY <1>2, FilesInvariant, PTL DEF Spec, ResultsAreKept
-----------------------------------------------------------------------------
(* Every combination of a matrix. *)

\* Where the elements of the first n lists are.
ListPlaces(seqs, n) == {p \in Nat \X Nat : p[1] \in 1..n /\ p[2] \in DOMAIN seqs[p[1]]}

LEMMA FlattenIndex ==
  ASSUME NEW S, NEW seqs \in Seq(Seq(S))
  PROVE  \E g \in Bijection(DOMAIN FlattenSeq(seqs), ListPlaces(seqs, Len(seqs))) :
           \A k \in DOMAIN FlattenSeq(seqs) : FlattenSeq(seqs)[k] = seqs[g[k][1]][g[k][2]]
<1> DEFINE N == Len(seqs)
           Laid(l, n) == \E g \in Bijection(DOMAIN l, ListPlaces(seqs, n)) :
                           \A k \in DOMAIN l : l[k] = seqs[g[k][1]][g[k][2]]
<1>1. N \in Nat /\ \A i \in 1..N : seqs[i] \in Seq(S)
  OBVIOUS
<1>2. PICK f : /\ \A i \in 1..N : f[i] = IF i = 1 THEN seqs[i] ELSE f[i - 1] \o seqs[i]
               /\ FlattenSeq(seqs) = IF N = 0 THEN seqs ELSE f[N]
  BY <1>1, FlattenUnfold
<1> DEFINE A(n) == n \in 1..N => f[n] \in Seq(S) /\ Laid(f[n], n)
           Q == {n \in Nat : A(n)}
<1>3. ASSUME 1 \in 1..N PROVE A(1)
  <2>1. f[1] = seqs[1] /\ seqs[1] \in Seq(S)
    BY <1>1, <1>2, <1>3
  <2> DEFINE l == seqs[1]
             g == [k \in DOMAIN l |-> <<1, k>>]
  <2>2. DOMAIN l \subseteq Nat
    BY <2>1
  <2>3. g \in Bijection(DOMAIN l, ListPlaces(seqs, 1))
    <3>1. g \in [DOMAIN l -> ListPlaces(seqs, 1)]
      BY <2>2 DEF ListPlaces
    <3>2. IsInjective(g)
      BY DEF IsInjective
    <3>3. \A p \in ListPlaces(seqs, 1) : \E k \in DOMAIN l : g[k] = p
      <4> SUFFICES ASSUME NEW p \in ListPlaces(seqs, 1) PROVE p[2] \in DOMAIN l /\ g[p[2]] = p
        OBVIOUS
      <4> QED BY DEF ListPlaces
    <3> QED BY <3>1, <3>2, <3>3, Zenon DEF Bijection, Injection, Surjection
  <2>4. \A k \in DOMAIN l : l[k] = seqs[g[k][1]][g[k][2]]
    OBVIOUS
  <2> HIDE DEF g
  <2> QED BY <2>1, <2>3, <2>4
<1>4. ASSUME NEW n \in Nat, A(n), n \in 1..N, n + 1 \in 1..N PROVE A(n + 1)
  <2> DEFINE a == f[n]
             b == seqs[n + 1]
             l == f[n + 1]
  <2>1. l = a \o b /\ b \in Seq(S)
    <3>1. PICK m \in 1..N : m = n + 1 /\ m # 1 /\ m - 1 = n
      BY <1>4
    <3>2. f[m] = f[m - 1] \o seqs[m]
      BY <1>2, <3>1, Zenon
    <3> QED BY <1>1, <3>1, <3>2
  <2>2. a \in Seq(S) /\ Laid(a, n)
    BY <1>4
  <2> HIDE DEF a, b, l
  <2>3. PICK g \in Bijection(DOMAIN a, ListPlaces(seqs, n)) :
          \A k \in DOMAIN a : a[k] = seqs[g[k][1]][g[k][2]]
    BY <2>2, Zenon
  <2> DEFINE u == Len(a)
             v == Len(b)
             h == [k \in DOMAIN l |-> IF k \in DOMAIN a THEN g[k] ELSE <<n + 1, k - u>>]
  <2>4. /\ u \in Nat /\ v \in Nat /\ DOMAIN a = 1..u /\ DOMAIN b = 1..v
        /\ l \in Seq(S) /\ DOMAIN l = 1..(u + v)
        /\ \A k \in 1..u : l[k] = a[k]
        /\ \A k \in (u + 1)..(u + v) : l[k] = b[k - u]
    BY <2>1, <2>2
  <2>5. /\ g \in [1..u -> ListPlaces(seqs, n)] /\ \A j, k \in 1..u : g[j] = g[k] => j = k
        /\ \A p \in ListPlaces(seqs, n) : \E k \in 1..u : g[k] = p
    BY <2>4, Zenon DEF Bijection, Injection, Surjection, IsInjective
  <2>6. \A p : p \in ListPlaces(seqs, n + 1) <=>
          p \in ListPlaces(seqs, n) \/ (\E q \in 1..v : p = <<n + 1, q>>)
    <3> SUFFICES ASSUME NEW p
                 PROVE  p \in ListPlaces(seqs, n + 1) <=>
                          p \in ListPlaces(seqs, n) \/ (\E q \in 1..v : p = <<n + 1, q>>)
      OBVIOUS
    <3>1. DOMAIN seqs[n + 1] = 1..v
      BY <2>4 DEF b
    <3>2. ASSUME p \in ListPlaces(seqs, n + 1), p[1] = n + 1
          PROVE  p[2] \in 1..v /\ p = <<n + 1, p[2]>>
      BY <3>1, <3>2 DEF ListPlaces
    <3>3. ASSUME p \in ListPlaces(seqs, n + 1), p[1] # n + 1 PROVE p \in ListPlaces(seqs, n)
      BY <3>3 DEF ListPlaces
    <3>4. ASSUME p \in ListPlaces(seqs, n) PROVE p \in ListPlaces(seqs, n + 1)
      BY <3>4 DEF ListPlaces
    <3>5. ASSUME NEW q \in 1..v PROVE <<n + 1, q>> \in ListPlaces(seqs, n + 1)
      <4>1. q \in Nat /\ n + 1 \in Nat /\ n + 1 \in 1..(n + 1)
        BY <2>4
      <4> HIDE DEF v
      <4> QED BY <3>1, <3>5, <4>1 DEF ListPlaces
    <3> QED BY <3>2, <3>3, <3>4, <3>5, Zenon
  <2>7. \A p \in ListPlaces(seqs, n) : p[1] # n + 1
    BY DEF ListPlaces
  <2> HIDE DEF u, v
  <2>8. /\ \A k \in 1..u : k \in DOMAIN l /\ h[k] = g[k] /\ g[k] \in ListPlaces(seqs, n)
        /\ \A k \in (u + 1)..(u + v) : k \in DOMAIN l /\ h[k] = <<n + 1, k - u>> /\ k - u \in 1..v
        /\ \A k \in DOMAIN l : k \in 1..u \/ k \in (u + 1)..(u + v)
        /\ DOMAIN h = DOMAIN l
    <3>1. \A k \in 1..u : k \in DOMAIN l
      BY <2>4
    <3>2. \A k \in (u + 1)..(u + v) : k \in DOMAIN l /\ k \notin DOMAIN a /\ k - u \in 1..v
      BY <2>4
    <3>3. \A k \in DOMAIN l : k \in 1..u \/ k \in (u + 1)..(u + v)
      BY <2>4
    <3>4. /\ DOMAIN h = DOMAIN l
          /\ \A k \in DOMAIN l : h[k] = IF k \in DOMAIN a THEN g[k] ELSE <<n + 1, k - u>>
      OBVIOUS
    <3> HIDE DEF h
    <3> QED BY <2>4, <2>5, <3>1, <3>2, <3>3, <3>4
  <2> HIDE DEF h
  <2>9. h \in [DOMAIN l -> ListPlaces(seqs, n + 1)]
    <3>1. \A k \in DOMAIN l : h[k] \in ListPlaces(seqs, n + 1)
      BY <2>6, <2>8
    <3>2. h = [k \in DOMAIN l |-> h[k]]
      BY DEF h
    <3> QED BY <3>1, <3>2
  <2>10. \A j, k \in DOMAIN l : h[j] = h[k] => j = k
    <3> SUFFICES ASSUME NEW j \in DOMAIN l, NEW k \in DOMAIN l, h[j] = h[k] PROVE j = k
      OBVIOUS
    <3>1. CASE j \in 1..u /\ k \in 1..u
      BY <2>5, <2>8, <3>1
    <3>2. CASE j \in (u + 1)..(u + v) /\ k \in (u + 1)..(u + v)
      BY <2>4, <2>8, <3>2
    <3>3. CASE j \in 1..u /\ k \in (u + 1)..(u + v)
      BY <2>7, <2>8, <3>3
    <3>4. CASE k \in 1..u /\ j \in (u + 1)..(u + v)
      BY <2>7, <2>8, <3>4
    <3> QED BY <2>8, <3>1, <3>2, <3>3, <3>4
  <2>11. \A p \in ListPlaces(seqs, n + 1) : \E k \in DOMAIN l : h[k] = p
    <3> SUFFICES ASSUME NEW p \in ListPlaces(seqs, n + 1) PROVE \E k \in DOMAIN l : h[k] = p
      OBVIOUS
    <3>1. CASE p \in ListPlaces(seqs, n)
      <4>1. PICK k \in 1..u : g[k] = p
        BY <2>5, <3>1
      <4> QED BY <2>4, <2>8, <4>1
    <3>2. ASSUME NEW q \in 1..v, p = <<n + 1, q>> PROVE \E k \in DOMAIN l : h[k] = p
      <4>1. u + q \in (u + 1)..(u + v) /\ u + q \in DOMAIN l /\ (u + q) - u = q
        BY <2>4, <3>2
      <4>2. h[u + q] = <<n + 1, (u + q) - u>>
        BY <2>8, <4>1
      <4> QED BY <3>2, <4>1, <4>2
    <3> QED BY <2>6, <3>1, <3>2
  <2>12. \A k \in DOMAIN l : l[k] = seqs[h[k][1]][h[k][2]]
    <3> SUFFICES ASSUME NEW k \in DOMAIN l PROVE l[k] = seqs[h[k][1]][h[k][2]]
      OBVIOUS
    <3>1. CASE k \in 1..u
      BY <2>3, <2>4, <2>8, <3>1
    <3>2. CASE k \in (u + 1)..(u + v)
      BY <2>4, <2>8, <3>2 DEF b
    <3> QED BY <2>8, <3>1, <3>2
  <2>13. h \in Bijection(DOMAIN l, ListPlaces(seqs, n + 1))
    BY <2>8, <2>9, <2>10, <2>11, Zenon DEF Bijection, Injection, Surjection, IsInjective
  <2>14. Laid(l, n + 1)
    BY <2>12, <2>13, Zenon
  <2> HIDE DEF Laid
  <2> QED BY <2>4, <2>14 DEF l
<1>5. Nat \subseteq Q
  <2>1. \A n \in Nat : A(n) => A(n + 1)
    <3> SUFFICES ASSUME NEW n \in Nat, A(n) PROVE A(n + 1)
      OBVIOUS
    <3> HIDE DEF A
    <3>1. CASE n = 0 /\ 1 \in 1..N
      BY <1>3, <3>1
    <3>2. CASE n \in 1..N /\ n + 1 \in 1..N
      BY <1>4, <3>2
    <3>3. CASE n + 1 \notin 1..N
      BY <3>3 DEF A
    <3> QED BY <1>1, <3>1, <3>2, <3>3
  <2>2. A(0)
    BY <1>1
  <2> HIDE DEF A
  <2>3. 0 \in Q /\ \A n \in Nat : n \in Q => n + 1 \in Q
    BY <2>1, <2>2
  <2> HIDE DEF Q
  <2> QED BY <2>3, Induct
<1>6. CASE N # 0
  <2>1. N \in 1..N /\ A(N)
    BY <1>1, <1>5, <1>6
  <2> HIDE DEF Laid
  <2>2. Laid(f[N], N)
    BY <2>1
  <2> QED BY <1>2, <1>6, <2>2 DEF Laid
<1>7. CASE N = 0
  <2>1. FlattenSeq(seqs) = <<>> /\ ListPlaces(seqs, N) = {}
    BY <1>2, <1>7 DEF ListPlaces
  <2>2. <<>> \in Bijection({}, {})
    BY DEF Bijection, Injection, Surjection, IsInjective
  <2> QED BY <2>1, <2>2
<1> QED
  BY <1>6, <1>7

\* A choice of a value for each of the first n fields, and a combination that has it.
Selections(m, n) ==
  {c \in [1..n -> UNION {DOMAIN m[i][2] : i \in DOMAIN m}] :
     \A i \in 1..n : c[i] \in DOMAIN m[i][2]}
Has(m, n, combo, c) == \A i \in 1..n : combo[m[i][1]] = m[i][2][c[i]]

\* The combinations of the first n fields: each choice is there once, and nothing else.
Complete(m, n, combos) ==
  /\ Len(combos) \in Nat /\ DOMAIN combos = 1..Len(combos)
  /\ \A e \in DOMAIN combos : /\ DOMAIN combos[e] = {m[i][1] : i \in 1..n}
                              /\ \E c \in Selections(m, n) : Has(m, n, combos[e], c)
  /\ \A c \in Selections(m, n) : \E e \in DOMAIN combos : Has(m, n, combos[e], c)
  /\ \A c \in Selections(m, n) : \A d, e \in DOMAIN combos :
       Has(m, n, combos[d], c) /\ Has(m, n, combos[e], c) => d = e

LEMMA CompleteStep ==
  ASSUME NEW m, NEW N \in Nat, DOMAIN m = 1..N, NEW n \in 0..(N - 1),
         NEW combos, Complete(m, n, combos),
         \A i, j \in DOMAIN m : m[i][1] = m[j][1] => i = j,
         NEW k, k = n + 1, NEW key, key = m[k][1], NEW values, values = m[k][2],
         IsList(values), \A a, b \in DOMAIN values : values[a] = values[b] => a = b
  PROVE  Complete(m, k, Combine(combos, key, values))
<1> DEFINE L == Len(values)
           new == Combine(combos, key, values)
           U == UNION {DOMAIN m[i][2] : i \in DOMAIN m}
           From(e, a, q) == IsCombined(new, combos, key, values, e, a, q)
<1>1. /\ k \in 1..N /\ k \in Nat /\ n \in Nat /\ k \notin 1..n
      /\ 1..k = 1..n \cup {k} /\ 1..k \subseteq DOMAIN m
  OBVIOUS
<1>2. /\ Len(new) \in Nat /\ DOMAIN new = 1..Len(new)
      /\ \A e \in DOMAIN new : \E a \in DOMAIN combos, q \in DOMAIN values : From(e, a, q)
      /\ \A a \in DOMAIN combos, q \in DOMAIN values : \E e \in DOMAIN new : From(e, a, q)
  <2>1. Len(combos) \in Nat /\ DOMAIN combos = 1..Len(combos) /\ IsList(values)
    BY DEF Complete
  <2>2. new = Combine(combos, key, values)
    OBVIOUS
  <2> HIDE DEF new
  <2> QED BY ONLY <2>1, <2>2, Combined
<1> DEFINE Short(c) == [i \in 1..n |-> c[i]]
\* What row a, with value v for the key, has.
<1> DEFINE Widens(row, a, v) == /\ DOMAIN row = {m[i][1] : i \in 1..k} /\ row[key] = v
                                /\ \A i \in 1..n : row[m[i][1]] = combos[a][m[i][1]]
<1>3. ASSUME NEW a \in DOMAIN combos, NEW v
      PROVE  Widens(Extend(combos[a], key, v), a, v)
  <2>1. DOMAIN combos[a] = {m[i][1] : i \in 1..n}
    BY DEF Complete
  <2>2. {m[i][1] : i \in 1..k} = {m[i][1] : i \in 1..n} \cup {m[k][1]}
    BY <1>1
  <2>3. \A i \in 1..n : m[i][1] # key /\ m[i][1] \in DOMAIN combos[a]
    BY <1>1, <2>1
  <2> QED BY <2>1, <2>2, <2>3 DEF Extend
<1> HIDE DEF Widens, new
<1>4. ASSUME NEW e \in DOMAIN new, NEW a \in DOMAIN combos, NEW q \in DOMAIN values, From(e, a, q)
       PROVE  Widens(new[e], a, values[q]) /\ e = (a - 1) * L + q
  <2>1. new[e] = Extend(combos[a], key, values[q]) /\ e = (a - 1) * L + q
    BY <1>4, Zenon DEF IsCombined
  <2>2. Widens(Extend(combos[a], key, values[q]), a, values[q])
    BY <1>3, Zenon
  <2> HIDE DEF L
  <2> QED BY ONLY <2>1, <2>2
<1> HIDE DEF From, L
<1>5. ASSUME NEW c \in Selections(m, k)
      PROVE  Short(c) \in Selections(m, n) /\ c[k] \in DOMAIN values
  <2>1. c \in [1..k -> U] /\ \A i \in 1..k : c[i] \in DOMAIN m[i][2]
    BY DEF Selections
  <2> HIDE DEF U
  <2>2. Short(c) \in [1..n -> U] /\ \A i \in 1..n : Short(c)[i] \in DOMAIN m[i][2]
    BY <1>1, <2>1
  <2>3. c[k] \in DOMAIN m[k][2]
    BY <1>1, <2>1
  <2> QED BY <2>2, <2>3, Zenon DEF Selections, U
<1> DEFINE Chosen(v, c) == v = values[c[k]]
<1>6. ASSUME NEW c, NEW row, NEW a \in DOMAIN combos, NEW v, Widens(row, a, v)
      PROVE  Has(m, k, row, c) <=> Has(m, n, combos[a], Short(c)) /\ Chosen(v, c)
  <2>1. row[m[k][1]] = v /\ \A i \in 1..n : row[m[i][1]] = combos[a][m[i][1]]
    BY <1>6 DEF Widens
  <2>2. \A i \in 1..n : Short(c)[i] = c[i]
    OBVIOUS
  <2>3. Has(m, k, row, c) <=> /\ \A i \in 1..n : row[m[i][1]] = m[i][2][c[i]]
                              /\ row[m[k][1]] = m[k][2][c[k]]
    BY <1>1 DEF Has
  <2> HIDE DEF Short
  <2> QED BY <2>1, <2>2, <2>3 DEF Has
<1> HIDE DEF Short, U, Chosen
<1>7. ASSUME NEW e \in DOMAIN new
      PROVE  /\ DOMAIN new[e] = {m[i][1] : i \in 1..k}
             /\ \E c \in Selections(m, k) : Has(m, k, new[e], c)
  <2>1. PICK a \in DOMAIN combos : \E q \in DOMAIN values : From(e, a, q)
    BY <1>2, Zenon
  <2>2. PICK q \in DOMAIN values : From(e, a, q)
    BY <2>1, Zenon
  <2>3. PICK d \in Selections(m, n) : Has(m, n, combos[a], d)
    BY Zenon DEF Complete
  <2> DEFINE c == [i \in 1..k |-> IF i = k THEN q ELSE d[i]]
  <2>4. d \in [1..n -> U] /\ \A i \in 1..n : d[i] \in DOMAIN m[i][2]
    BY Zenon DEF Selections, U
  <2>5. q \in U /\ q \in DOMAIN m[k][2]
    BY <1>1 DEF U
  <2>6. c \in [1..k -> U] /\ (\A i \in 1..k : c[i] \in DOMAIN m[i][2])
        /\ c[k] = q /\ \A i \in 1..n : c[i] = d[i]
    <3>1. \A i \in 1..k : i = k \/ (i # k /\ i \in 1..n)
      BY <1>1
    <3>2. \A i \in 1..n : i # k /\ i \in 1..k
      BY <1>1
    <3>3. k \in 1..k
      BY <1>1
    <3> QED BY <2>4, <2>5, <3>1, <3>2, <3>3
  <2> HIDE DEF c
  <2>7. c \in Selections(m, k)
    BY <2>6, Zenon DEF Selections, U
  <2>8. Short(c) = d
    BY <2>4, <2>6 DEF Short
  <2>9. Widens(new[e], a, values[q])
    BY <1>4, <2>2, Zenon
  <2>10. Has(m, k, new[e], c) <=> Has(m, n, combos[a], Short(c)) /\ Chosen(values[q], c)
    BY <1>6, <2>9, Zenon
  <2>11. Has(m, k, new[e], c)
    BY <2>3, <2>6, <2>8, <2>10 DEF Chosen
  <2>12. DOMAIN new[e] = {m[i][1] : i \in 1..k}
    BY <2>9, Zenon DEF Widens
  <2> QED BY <2>7, <2>11, <2>12, Zenon
<1>8. ASSUME NEW c \in Selections(m, k) PROVE \E e \in DOMAIN new : Has(m, k, new[e], c)
  <2>1. Short(c) \in Selections(m, n) /\ c[k] \in DOMAIN values
    BY <1>5
  <2>2. PICK a \in DOMAIN combos : Has(m, n, combos[a], Short(c))
    BY <2>1, Zenon DEF Complete
  <2>3. PICK q \in DOMAIN values : q = c[k]
    BY <2>1
  <2>4. PICK e \in DOMAIN new : From(e, a, q)
    BY <1>2, Zenon
  <2>5. Widens(new[e], a, values[q])
    BY <1>4, <2>4, Zenon
  <2>6. Has(m, k, new[e], c) <=> Has(m, n, combos[a], Short(c)) /\ Chosen(values[q], c)
    BY <1>6, <2>5, Zenon
  <2> QED BY <2>2, <2>3, <2>6 DEF Chosen
<1>9. ASSUME NEW c \in Selections(m, k), NEW d \in DOMAIN new, NEW e \in DOMAIN new,
             Has(m, k, new[d], c), Has(m, k, new[e], c)
      PROVE  d = e
  <2>1. Short(c) \in Selections(m, n) /\ c[k] \in DOMAIN values
    BY <1>5
  <2>2. ASSUME NEW x \in DOMAIN new, Has(m, k, new[x], c)
        PROVE  \E a \in DOMAIN combos : /\ Has(m, n, combos[a], Short(c))
                                        /\ x = (a - 1) * L + c[k]
    <3>1. PICK a \in DOMAIN combos : \E q \in DOMAIN values : From(x, a, q)
      BY <1>2, Zenon
    <3>2. PICK q \in DOMAIN values : From(x, a, q)
      BY <3>1, Zenon
    <3>3. Widens(new[x], a, values[q]) /\ x = (a - 1) * L + q
      BY <1>4, <3>2, Zenon
    <3>4. Has(m, n, combos[a], Short(c)) /\ Chosen(values[q], c)
      BY <1>6, <2>2, <3>3, Zenon
    <3>5. q = c[k]
      BY <2>1, <3>4, Zenon DEF Chosen
    <3> QED BY <3>3, <3>4, <3>5, Zenon
  <2>3. PICK a \in DOMAIN combos : Has(m, n, combos[a], Short(c)) /\ d = (a - 1) * L + c[k]
    BY <1>9, <2>2, Zenon
  <2>4. PICK b \in DOMAIN combos : Has(m, n, combos[b], Short(c)) /\ e = (b - 1) * L + c[k]
    BY <1>9, <2>2, Zenon
  <2>5. a = b
    BY <2>1, <2>3, <2>4, Zenon DEF Complete
  <2> QED BY <2>3, <2>4, <2>5, Zenon
<1>10. Complete(m, k, new)
  BY <1>2, <1>7, <1>8, <1>9, Zenon DEF Complete
<1> QED
  BY <1>10, Zenon DEF new

\* expand_matrix: every choice of values is one combination, once.
LEMMA MatrixComplete ==
  ASSUME NEW m, IsList(m), \A i \in DOMAIN m : IsList(m[i][2]),
         \A i, j \in DOMAIN m : m[i][1] = m[j][1] => i = j,
         \A i \in DOMAIN m : \A a, b \in DOMAIN m[i][2] : m[i][2][a] = m[i][2][b] => a = b
  PROVE  Complete(m, Len(m), expand_matrix(m))
<1> DEFINE N == Len(m)
<1>1. N \in Nat /\ DOMAIN m = 1..N
  BY ListFacts
<1>2. PICK f : /\ \A j \in 0..N : f[j] = IF j = 0 THEN << <<>> >>
                                         ELSE Combine(f[j - 1], m[j][1], m[j][2])
               /\ expand_matrix(m) = f[N]
  BY <1>1, ProductUnfold
<1> DEFINE A(n) == n \in 0..N => Complete(m, n, f[n])
           Q == {n \in Nat : A(n)}
<1>3. A(0)
  <2>1. f[0] = << <<>> >>
    BY <1>1, <1>2
  <2> DEFINE one == << <<>> >>
  <2>2. /\ Len(one) = 1 /\ DOMAIN one = 1..1 /\ \A e \in DOMAIN one : e = 1 /\ DOMAIN one[e] = {}
        /\ 1 \in DOMAIN one
    OBVIOUS
  <2> HIDE DEF one
  <2>3. \A combo, c : Has(m, 0, combo, c)
    BY DEF Has
  <2>4. <<>> \in Selections(m, 0)
    BY DEF Selections
  <2>5. {m[i][1] : i \in 1..0} = {}
    OBVIOUS
  <2>6. Complete(m, 0, one)
    BY <2>2, <2>3, <2>4, <2>5 DEF Complete
  <2> QED BY <2>1, <2>6 DEF one
<1>4. ASSUME NEW n \in Nat, A(n) PROVE A(n + 1)
  <2> SUFFICES ASSUME n + 1 \in 0..N PROVE Complete(m, n + 1, f[n + 1])
    OBVIOUS
  <2>1. PICK j \in 0..N : j = n + 1 /\ j # 0 /\ j - 1 = n /\ j \in DOMAIN m
    BY <1>1
  <2>2. f[j] = Combine(f[j - 1], m[j][1], m[j][2])
    BY <1>2, <2>1, Zenon
  <2>3. n \in 0..(N - 1) /\ Complete(m, n, f[n])
    BY <1>1, <1>4
  <2>4. IsList(m[j][2]) /\ \A a, b \in DOMAIN m[j][2] : m[j][2][a] = m[j][2][b] => a = b
    BY <2>1, Zenon
  <2>5. Complete(m, j, Combine(f[n], m[j][1], m[j][2]))
    BY <1>1, <2>1, <2>3, <2>4, CompleteStep
  <2> QED BY <2>1, <2>2, <2>5
<1>5. Nat \subseteq Q
  <2>1. 0 \in Q /\ \A n \in Nat : n \in Q => n + 1 \in Q
    <3> HIDE DEF A
    <3> QED BY <1>3, <1>4
  <2> HIDE DEF Q
  <2> QED BY <2>1, Induct
<1> QED
  BY <1>1, <1>2, <1>5

\* Where the elements of a list are among those of another: each is there once.
Picks(sel, over, filter, h) ==
  /\ h \in [DOMAIN sel -> DOMAIN over]
  /\ \A k \in DOMAIN sel : sel[k] = over[h[k]] /\ Matches(over[h[k]], filter)
  /\ \A j, k \in DOMAIN sel : h[j] = h[k] => j = k
  /\ \A e \in DOMAIN over : Matches(over[e], filter) => \E k \in DOMAIN sel : h[k] = e

\* apply_filter: the scenarios that match are kept, each once.
LEMMA FilterPicks ==
  ASSUME NEW over, NEW n \in Nat, DOMAIN over = 1..n, NEW filter
  PROVE  \E h : Picks(apply_filter(over, filter), over, filter, h)
<1> DEFINE S == {over[i] : i \in 1..n}
           pieces == [i \in DOMAIN over |->
                        IF Matches(over[i], filter) THEN <<over[i]>> ELSE <<>>]
           sel == FlattenSeq(pieces)
<1>1. apply_filter(over, filter) = sel
  BY DEF apply_filter
<1>2. /\ DOMAIN pieces = 1..n
      /\ \A i \in 1..n : pieces[i] = IF Matches(over[i], filter) THEN <<over[i]>> ELSE <<>>
  OBVIOUS
<1>3. pieces = [i \in 1..n |-> pieces[i]]
  BY <1>2
<1> HIDE DEF pieces
<1>4. pieces \in Seq(Seq(S)) /\ Len(pieces) = n
  <2>1. \A i \in 1..n : over[i] \in S
    OBVIOUS
  <2> HIDE DEF S
  <2>2. \A i \in 1..n : <<over[i]>> \in Seq(S) /\ <<>> \in Seq(S)
    BY <2>1
  <2>3. \A i \in 1..n : pieces[i] \in Seq(S)
    BY <1>2, <2>2, Zenon
  <2> QED BY <1>3, <2>3
<1>5. PICK g \in Bijection(DOMAIN sel, ListPlaces(pieces, n)) :
        \A k \in DOMAIN sel : sel[k] = pieces[g[k][1]][g[k][2]]
  BY <1>4, FlattenIndex
<1> HIDE DEF sel
<1> DEFINE P == ListPlaces(pieces, n)
<1>6. /\ g \in [DOMAIN sel -> P] /\ \A j, k \in DOMAIN sel : g[j] = g[k] => j = k
      /\ \A p \in P : \E k \in DOMAIN sel : g[k] = p
  BY <1>5, Zenon DEF Bijection, Injection, Surjection, IsInjective
<1>7. \A p : p \in P <=> \E i \in 1..n : Matches(over[i], filter) /\ p = <<i, 1>>
  <2>1. \A i \in 1..n : DOMAIN pieces[i] = IF Matches(over[i], filter) THEN {1} ELSE {}
    <3> SUFFICES ASSUME NEW i \in 1..n
                 PROVE  DOMAIN pieces[i] = IF Matches(over[i], filter) THEN {1} ELSE {}
      OBVIOUS
    <3>1. \A x : DOMAIN <<x>> = {1} /\ DOMAIN <<>> = {}
      OBVIOUS
    <3> QED BY <1>2, <3>1
  <2>2. \A p : p \in P <=> p \in Nat \X Nat /\ p[1] \in 1..n /\ p[2] \in DOMAIN pieces[p[1]]
    BY DEF ListPlaces
  <2> HIDE DEF P
  <2>3. ASSUME NEW p \in P PROVE p[1] \in 1..n /\ Matches(over[p[1]], filter) /\ p = <<p[1], 1>>
    BY <2>1, <2>2
  <2>4. ASSUME NEW i \in 1..n, Matches(over[i], filter) PROVE <<i, 1>> \in P
    BY <2>1, <2>2, <2>4
  <2> QED BY <2>3, <2>4, Zenon
<1>8. \A i \in 1..n : Matches(over[i], filter) => pieces[i][1] = over[i]
  BY <1>2
<1> HIDE DEF P
<1> DEFINE h == [k \in DOMAIN sel |-> g[k][1]]
<1>9. ASSUME NEW k \in DOMAIN sel
      PROVE  /\ h[k] \in 1..n /\ Matches(over[h[k]], filter) /\ g[k] = <<h[k], 1>>
             /\ sel[k] = over[h[k]]
  <2>1. g[k] \in P
    BY <1>6
  <2>2. PICK i \in 1..n : Matches(over[i], filter) /\ g[k] = <<i, 1>>
    BY <1>7, <2>1, Zenon
  <2>3. sel[k] = pieces[g[k][1]][g[k][2]]
    BY <1>5
  <2>4. h[k] = i
    BY <2>2
  <2>5. sel[k] = over[i]
    BY <1>8, <2>2, <2>3
  <2> HIDE DEF h
  <2> QED BY <2>2, <2>4, <2>5
<1>10. h \in [DOMAIN sel -> DOMAIN over]
  <2>1. \A k \in DOMAIN sel : h[k] \in DOMAIN over
    BY <1>9
  <2>2. h = [k \in DOMAIN sel |-> h[k]]
    OBVIOUS
  <2> HIDE DEF h
  <2> QED BY <2>1, <2>2
<1> HIDE DEF h
<1>11. ASSUME NEW j \in DOMAIN sel, NEW k \in DOMAIN sel, h[j] = h[k] PROVE j = k
  BY <1>6, <1>9, <1>11
<1>12. ASSUME NEW e \in DOMAIN over, Matches(over[e], filter)
       PROVE  \E k \in DOMAIN sel : h[k] = e
  <2>1. PICK k \in DOMAIN sel : g[k] = <<e, 1>>
    BY <1>6, <1>7, <1>12, Zenon
  <2>2. g[k] = <<h[k], 1>>
    BY <1>9
  <2> QED BY <2>1, <2>2
<1> QED
  BY <1>1, <1>9, <1>10, <1>11, <1>12 DEF Picks

\* Which scenario and which of its runs an entry of an agenda is: each is there once.
Schedules(a, sel, K, R) ==
  /\ K \in [DOMAIN a -> DOMAIN sel]
  /\ \A k \in DOMAIN a : a[k].scenario = sel[K[k]] /\ R[k] \in 1..sel[K[k]].runs
  /\ \A j, k \in DOMAIN a : K[j] = K[k] /\ R[j] = R[k] => j = k
  /\ \A i \in DOMAIN sel : \A r \in 1..sel[i].runs : \E k \in DOMAIN a : K[k] = i /\ R[k] = r

\* main: the runs of a list of scenarios.
LEMMA AgendaSchedules ==
  ASSUME NEW n \in Nat, NEW sel, sel = [i \in 1..n |-> sel[i]], \A i \in 1..n : sel[i].runs \in Int
  PROVE  \E K, R : Schedules(Agenda(sel), sel, K, R)
<1> DEFINE S == {sel[i] : i \in 1..n}
           T == [scenario : S, run_num : Int]
           Runs(s) == [r \in 1..s.runs |-> [scenario |-> s, run_num |-> r]]
           pieces == [i \in DOMAIN sel |->
                        [r \in 1..sel[i].runs |-> [scenario |-> sel[i], run_num |-> r]]]
           a == FlattenSeq(pieces)
<1>1. Agenda(sel) = a
  BY DEF Agenda
<1>2. DOMAIN sel = 1..n
  OBVIOUS
<1>3. /\ DOMAIN pieces = 1..n /\ pieces = [i \in 1..n |-> pieces[i]]
      /\ \A i \in 1..n : pieces[i] = Runs(sel[i])
  BY <1>2
<1> HIDE DEF pieces
<1>4. ASSUME NEW i \in 1..n
      PROVE  /\ pieces[i] \in Seq(T) /\ DOMAIN pieces[i] = 1..sel[i].runs
             /\ \A r \in 1..sel[i].runs : pieces[i][r].scenario = sel[i]
  <2> DEFINE s == sel[i]
  <2>1. s.runs \in Int /\ s \in S
    OBVIOUS
  <2> HIDE DEF s, S
  <2>2. PICK m \in Nat : 1..s.runs = 1..m
    <3>1. CASE s.runs \in Nat
      BY <3>1
    <3>2. CASE s.runs \notin Nat
      <4>1. 1..s.runs = 1..0
        BY <2>1, <3>2
      <4> QED BY <4>1
    <3> QED BY <3>1, <3>2
  <2>3. \A r \in 1..m : [scenario |-> s, run_num |-> r] \in T
    BY <2>1
  <2> HIDE DEF T
  <2>4. Runs(s) = [r \in 1..m |-> [scenario |-> s, run_num |-> r]]
    BY <2>2, Zenon
  <2>5. Runs(s) \in Seq(T) /\ DOMAIN Runs(s) = 1..m /\ \A r \in 1..m : Runs(s)[r].scenario = s
    <3> DEFINE f == [r \in 1..m |-> [scenario |-> s, run_num |-> r]]
    <3>1. f \in Seq(T) /\ DOMAIN f = 1..m /\ \A r \in 1..m : f[r].scenario = s
      BY <2>2, <2>3
    <3> HIDE DEF f, Runs
    <3> QED BY <2>4, <3>1 DEF f
  <2>6. pieces[i] = Runs(s)
    BY <1>3, Zenon DEF s
  <2> HIDE DEF Runs
  <2>7. /\ pieces[i] \in Seq(T) /\ DOMAIN pieces[i] = 1..s.runs
        /\ \A r \in 1..s.runs : pieces[i][r].scenario = s
    BY <2>2, <2>5, <2>6
  <2> QED BY <2>7, Zenon DEF s
<1> HIDE DEF T, S, Runs
<1>5. pieces \in Seq(Seq(T)) /\ Len(pieces) = n
  BY <1>3, <1>4
<1>6. PICK g \in Bijection(DOMAIN a, ListPlaces(pieces, n)) :
        \A k \in DOMAIN a : a[k] = pieces[g[k][1]][g[k][2]]
  BY <1>5, FlattenIndex
<1> HIDE DEF a
<1> DEFINE P == ListPlaces(pieces, n)
<1>7. /\ g \in [DOMAIN a -> P] /\ \A j, k \in DOMAIN a : g[j] = g[k] => j = k
      /\ \A p \in P : \E k \in DOMAIN a : g[k] = p
  BY <1>6, Zenon DEF Bijection, Injection, Surjection, IsInjective
<1>8. /\ \A p \in P : p[1] \in 1..n /\ p[2] \in 1..sel[p[1]].runs /\ p = <<p[1], p[2]>>
      /\ \A i \in 1..n : \A r \in 1..sel[i].runs : <<i, r>> \in P
  BY <1>4 DEF ListPlaces
<1> HIDE DEF P
<1> DEFINE K == [k \in DOMAIN a |-> g[k][1]]
           R == [k \in DOMAIN a |-> g[k][2]]
<1>9. ASSUME NEW k \in DOMAIN a
      PROVE  /\ K[k] \in 1..n /\ R[k] \in 1..sel[K[k]].runs /\ g[k] = <<K[k], R[k]>>
             /\ a[k].scenario = sel[K[k]]
  <2>1. g[k] \in P
    BY <1>7
  <2>2. g[k][1] \in 1..n /\ g[k][2] \in 1..sel[g[k][1]].runs /\ g[k] = <<g[k][1], g[k][2]>>
    BY <1>8, <2>1, Zenon
  <2>3. a[k] = pieces[g[k][1]][g[k][2]]
    BY <1>6
  <2>4. a[k].scenario = sel[g[k][1]]
    BY <1>4, <2>2, <2>3
  <2>5. K[k] = g[k][1] /\ R[k] = g[k][2]
    OBVIOUS
  <2> HIDE DEF K, R
  <2> QED BY <2>2, <2>4, <2>5
<1>10. K \in [DOMAIN a -> DOMAIN sel]
  <2>1. \A k \in DOMAIN a : K[k] \in DOMAIN sel
    BY <1>2, <1>9
  <2>2. K = [k \in DOMAIN a |-> K[k]]
    OBVIOUS
  <2> HIDE DEF K
  <2> QED BY <2>1, <2>2
<1> HIDE DEF K, R
<1>11. ASSUME NEW j \in DOMAIN a, NEW k \in DOMAIN a, K[j] = K[k], R[j] = R[k] PROVE j = k
  BY <1>7, <1>9, <1>11
<1>12. ASSUME NEW i \in DOMAIN sel, NEW r \in 1..sel[i].runs
       PROVE  \E k \in DOMAIN a : K[k] = i /\ R[k] = r
  <2>1. PICK k \in DOMAIN a : g[k] = <<i, r>>
    BY <1>2, <1>7, <1>8, Zenon
  <2>2. g[k] = <<K[k], R[k]>>
    BY <1>9
  <2> QED BY <2>1, <2>2
<1>13. Schedules(a, sel, K, R)
  BY <1>9, <1>10, <1>11, <1>12 DEF Schedules
<1> QED
  BY <1>1, <1>13

\* The scenarios of a session before the filter.
Overriding(c) ==
  LET scenarios == expand_scenarios(c.document) IN
  [i \in DOMAIN scenarios |-> Override(scenarios[i], c.options)]

LEMMA SelectedPicks ==
  ASSUME NEW c \in Commands, Accepted(c)
  PROVE  \E h : Picks(Selected(c), Overriding(c), c.options.filter, h)
<1> DEFINE over == Overriding(c)
<1>1. PICK n \in Nat : DOMAIN over = 1..n
  BY Expanded DEF Overriding
<1>2. Selected(c) = apply_filter(over, c.options.filter)
  BY DEF Selected, Overriding
<1> HIDE DEF over
<1>3. \E h : Picks(apply_filter(over, c.options.filter), over, c.options.filter, h)
  BY <1>1, FilterPicks
<1> QED
  BY <1>2, <1>3 DEF over

LEMMA SelectedSchedules ==
  ASSUME NEW c \in Commands, Accepted(c)
  PROVE  \E K, R : Schedules(Agenda(Selected(c)), Selected(c), K, R)
<1> DEFINE sel == Selected(c)
<1>1. PICK S : sel \in Seq(S) /\ \A s \in S : SceneOK(s)
  BY SelectedList
<1> HIDE DEF sel
<1>2. /\ Len(sel) \in Nat /\ sel = [i \in 1..Len(sel) |-> sel[i]]
      /\ \A i \in 1..Len(sel) : sel[i] \in S
  BY <1>1
<1>3. \A i \in 1..Len(sel) : sel[i].runs \in Int
  BY <1>1, <1>2 DEF SceneOK
<1> QED
  BY <1>2, <1>3, AgendaSchedules DEF sel

\* The scenarios of a matrix: parsing and the options leave the fields of the
\* matrix as they are, and each scenario is to be run as often as was asked.
LEMMA MatrixScenes ==
  ASSUME NEW c \in Commands, Accepted(c), NEW m, m = c.document.matrix, m # None,
         MatrixAsWritten(c)
  PROVE  /\ DOMAIN Overriding(c) = DOMAIN expand_matrix(m)
         /\ \A e \in DOMAIN Overriding(c) :
              /\ Overriding(c)[e].runs = Asked(c) /\ Asked(c) \in Nat
              /\ \A i \in DOMAIN m : Overriding(c)[e][m[i][1]] = expand_matrix(m)[e][m[i][1]]
<1> DEFINE raw == expand_matrix(m)
           d == c.document.defaults
           opt == c.options
           over == Overriding(c)
           sc == expand_scenarios(c.document)
<1>1. IsList(m) /\ \A i \in DOMAIN m : IsList(m[i][2])
  BY SessionAssumption DEF WellTyped
<1>2. Complete(m, Len(m), raw) /\ Len(m) \in Nat /\ DOMAIN m = 1..Len(m)
  BY <1>1, MatrixComplete, ListFacts DEF MatrixAsWritten
<1>3. /\ sc = [e \in DOMAIN raw |-> parse_scenario(raw[e], d)]
      /\ over = [e \in DOMAIN sc |-> Override(sc[e], opt)]
  BY DEF expand_scenarios, Overriding
<1>4. \A e \in DOMAIN sc : DOMAIN sc[e] = Fields /\ Valid(sc[e])
  BY Expanded
<1> HIDE DEF raw, sc, over
<1>5. /\ DOMAIN sc = DOMAIN raw /\ DOMAIN over = DOMAIN raw
      /\ \A e \in DOMAIN raw : sc[e] = parse_scenario(raw[e], d) /\ over[e] = Override(sc[e], opt)
  BY <1>3
<1>6. ASSUME NEW e \in DOMAIN raw
      PROVE  /\ over[e].runs = Asked(c) /\ Asked(c) \in Nat
             /\ \A i \in DOMAIN m : over[e][m[i][1]] = raw[e][m[i][1]]
  <2> DEFINE r == raw[e]
             s == parse_scenario(r, d)
             t == Override(s, opt)
  <2>1. DOMAIN r = {m[i][1] : i \in DOMAIN m}
    BY <1>2 DEF Complete
  <2>2. \A i \in DOMAIN m : /\ m[i][1] \in Fields \ {"runs", "timeout_s", "dynamic_toggles"}
                            /\ r[m[i][1]] # None /\ m[i][1] \in DOMAIN r
    <3>1. PICK x \in Selections(m, Len(m)) : Has(m, Len(m), r, x)
      BY <1>2, Zenon DEF Complete
    <3>2. \A i \in DOMAIN m : x[i] \in DOMAIN m[i][2] /\ r[m[i][1]] = m[i][2][x[i]]
      BY <1>2, <3>1 DEF Selections, Has
    <3>3. \A i \in DOMAIN m : m[i][1] \in Fields \ {"runs", "timeout_s", "dynamic_toggles"}
                              /\ \A a \in DOMAIN m[i][2] : m[i][2][a] # None
      BY DEF MatrixAsWritten
    <3>4. \A i \in DOMAIN m : r[m[i][1]] # None
      <4> HIDE DEF r
      <4> QED BY <3>2, <3>3
    <3> QED BY <2>1, <3>3, <3>4
  <2>3. "runs" \notin DOMAIN r /\ "runs" \in Fields /\ Builtin.runs = 1 /\ "timeout_s" \in Fields
    BY <2>1, <2>2 DEF Fields, Builtin
  <2>4. DOMAIN s = Fields /\ Valid(s)
    BY <1>4, <1>5
  <2> HIDE DEF r
  <2>5. \A f \in Fields \ {"dynamic_toggles"} :
          s[f] = IF f \in DOMAIN r /\ r[f] # None THEN r[f]
                 ELSE IF f \in DOMAIN d THEN d[f] ELSE Builtin[f]
    BY DEF parse_scenario
  <2> HIDE DEF s
  <2>6. /\ t.runs = IF opt.runs \in {None, 0} THEN s.runs ELSE opt.runs
        /\ \A f \in Fields \ {"runs", "timeout_s"} : t[f] = s[f]
    BY <2>3, <2>4 DEF Override
  <2> HIDE DEF t
  <2>7. s.runs = IF "runs" \in DOMAIN d THEN d.runs ELSE 1
    BY <2>3, <2>5
  <2>8. s.runs \in Nat /\ (opt.runs # None => opt.runs \in Nat)
    BY <2>4 DEF Valid, MatrixAsWritten
  <2>9. t.runs = Asked(c) /\ Asked(c) \in Nat
    BY <2>6, <2>7, <2>8 DEF Asked
  <2>10. \A i \in DOMAIN m : t[m[i][1]] = r[m[i][1]]
    BY <2>2, <2>5, <2>6
  <2> QED BY <1>5, <2>9, <2>10 DEF r, s, t
<1> QED
  BY <1>5, <1>6 DEF over, raw

\* As many as are numbered.
LEMMA CountNumbered ==
  ASSUME NEW S, NEW R, NEW n \in Nat, \A k \in S : R[k] \in 1..n,
         \A j, k \in S : R[j] = R[k] => j = k, \A r \in 1..n : \E k \in S : R[k] = r
  PROVE  Cardinality(S) = n
<1> DEFINE f == [r \in 1..n |-> CHOOSE k \in S : R[k] = r]
<1>1. \A r \in 1..n : f[r] \in S /\ R[f[r]] = r
  OBVIOUS
<1>2. f = [r \in 1..n |-> f[r]]
  OBVIOUS
<1> HIDE DEF f
<1>3. f \in Bijection(1..n, S)
  BY <1>1, <1>2 DEF Bijection, Injection, Surjection, IsInjective
<1> QED
  BY <1>3, FS_CountingElements DEF ExistsBijection

\* An agenda of which each entry is one run of one scenario e of those that match.
Covers(a, over, filter, n, E, R) ==
  /\ \A k \in DOMAIN a : /\ E[k] \in DOMAIN over /\ Matches(over[E[k]], filter)
                         /\ a[k].scenario = over[E[k]] /\ R[k] \in 1..n
  /\ \A j, k \in DOMAIN a : E[j] = E[k] /\ R[j] = R[k] => j = k
  /\ \A e \in DOMAIN over : Matches(over[e], filter) =>
       \A r \in 1..n : \E k \in DOMAIN a : E[k] = e /\ R[k] = r

LEMMA AgendaCovers ==
  ASSUME NEW a, NEW sel, NEW over, NEW filter, NEW n,
         \A e \in DOMAIN over : over[e].runs = n,
         NEW h, Picks(sel, over, filter, h), NEW K, NEW R, Schedules(a, sel, K, R)
  PROVE  \E E : Covers(a, over, filter, n, E, R)
<1> DEFINE E == [k \in DOMAIN a |-> h[K[k]]]
<1>1. /\ \A k \in DOMAIN sel : /\ h[k] \in DOMAIN over /\ sel[k] = over[h[k]]
                               /\ Matches(over[h[k]], filter)
      /\ \A j, k \in DOMAIN sel : h[j] = h[k] => j = k
      /\ \A e \in DOMAIN over : Matches(over[e], filter) => \E k \in DOMAIN sel : h[k] = e
  BY DEF Picks
<1>2. /\ \A k \in DOMAIN a : /\ K[k] \in DOMAIN sel /\ a[k].scenario = sel[K[k]]
                             /\ R[k] \in 1..sel[K[k]].runs
      /\ \A j, k \in DOMAIN a : K[j] = K[k] /\ R[j] = R[k] => j = k
      /\ \A i \in DOMAIN sel : \A r \in 1..sel[i].runs : \E k \in DOMAIN a : K[k] = i /\ R[k] = r
  BY DEF Schedules
<1>3. \A k \in DOMAIN a : E[k] = h[K[k]]
  OBVIOUS
<1> HIDE DEF E
<1>4. ASSUME NEW k \in DOMAIN a
      PROVE  /\ E[k] \in DOMAIN over /\ Matches(over[E[k]], filter)
             /\ a[k].scenario = over[E[k]] /\ R[k] \in 1..n
  BY <1>1, <1>2, <1>3
<1>5. ASSUME NEW j \in DOMAIN a, NEW k \in DOMAIN a, E[j] = E[k], R[j] = R[k] PROVE j = k
  BY <1>1, <1>2, <1>3, <1>5
<1>6. ASSUME NEW e \in DOMAIN over, Matches(over[e], filter), NEW r \in 1..n
      PROVE  \E k \in DOMAIN a : E[k] = e /\ R[k] = r
  <2>1. PICK i \in DOMAIN sel : h[i] = e
    BY <1>1, <1>6
  <2>2. sel[i].runs = n
    BY <1>1, <2>1
  <2>3. PICK k \in DOMAIN a : K[k] = i /\ R[k] = r
    BY <1>2, <2>2
  <2> QED BY <1>3, <2>1, <2>3
<1>7. Covers(a, over, filter, n, E, R)
  BY <1>4, <1>5, <1>6 DEF Covers
<1> QED
  BY <1>7

\* What Selected gives for the agenda of a matrix.
LEMMA MatrixCovers ==
  ASSUME NEW c \in Commands, Accepted(c), NEW m, m = c.document.matrix, m # None,
         MatrixAsWritten(c), NEW over, over = Overriding(c), NEW a, a = Agenda(Selected(c))
  PROVE  \E E, R : Covers(a, over, c.options.filter, Asked(c), E, R)
<1> DEFINE n == Asked(c)
           sel == Selected(c)
           filter == c.options.filter
<1>1. PICK h : Picks(sel, over, filter, h)
  BY SelectedPicks
<1>2. PICK K, R : Schedules(a, sel, K, R)
  BY SelectedSchedules
<1>3. \A e \in DOMAIN over : over[e].runs = n
  BY MatrixScenes
<1> HIDE DEF n, sel, filter
<1>4. \E E : Covers(a, over, filter, n, E, R)
  BY ONLY <1>1, <1>2, <1>3, AgendaCovers
<1> QED
  BY <1>4 DEF n, filter

\* The choices of a value for each field of a matrix that a filter admits.
Admitted(m, wanted) ==
  {x \in [DOMAIN m -> UNION {DOMAIN m[i][2] : i \in DOMAIN m}] :
     \A i \in DOMAIN m :
       /\ x[i] \in DOMAIN m[i][2]
       /\ m[i][1] \in DOMAIN wanted => m[i][2][x[i]] = wanted[m[i][1]]}

\* A scenario and the choice that it was made of.
Made(m, s, x) == \A i \in DOMAIN m : s[m[i][1]] = m[i][2][x[i]]

\* Each admitted choice is a scenario that matches, and no other; and each
\* scenario that matches is made of one.
OneEach(m, over, wanted) ==
  /\ \A x \in Admitted(m, wanted) : \E e \in DOMAIN over :
       /\ Matches(over[e], wanted)
       /\ \A y \in DOMAIN over : Made(m, over[y], x) <=> y = e
  /\ \A e \in DOMAIN over : Matches(over[e], wanted) =>
       \E x \in Admitted(m, wanted) : Made(m, over[e], x)

LEMMA MatchesAdmitted ==
  ASSUME NEW c \in Commands, Accepted(c), NEW m, m = c.document.matrix, m # None,
         MatrixAsWritten(c), NEW over, over = Overriding(c), NEW wanted, wanted = c.options.filter,
         DOMAIN wanted \subseteq Fields
  PROVE  OneEach(m, over, wanted)
<1> DEFINE raw == expand_matrix(m)
           N == Len(m)
<1>1. IsList(m) /\ \A i \in DOMAIN m : IsList(m[i][2])
  BY SessionAssumption DEF WellTyped
<1>2. Complete(m, N, raw) /\ N \in Nat /\ DOMAIN m = 1..N
  BY <1>1, MatrixComplete, ListFacts DEF MatrixAsWritten
<1>3. DOMAIN over = DOMAIN raw
      /\ \A e \in DOMAIN over : \A i \in DOMAIN m : over[e][m[i][1]] = raw[e][m[i][1]]
  BY MatrixScenes
<1> HIDE DEF raw, N
<1>4. \A e \in DOMAIN over : \A x : Made(m, over[e], x) <=> Has(m, N, raw[e], x)
  BY <1>2, <1>3 DEF Made, Has
<1>5. \A key \in DOMAIN wanted : key \in Fields /\ \E i \in DOMAIN m : m[i][1] = key
  BY DEF MatrixAsWritten
<1>6. ASSUME NEW e \in DOMAIN over, NEW x, Made(m, over[e], x)
      PROVE  Matches(over[e], wanted) <=>
               \A i \in DOMAIN m : m[i][1] \in DOMAIN wanted => m[i][2][x[i]] = wanted[m[i][1]]
  <2>1. Matches(over[e], wanted) <=> \A key \in DOMAIN wanted : over[e][key] = wanted[key]
    BY <1>5 DEF Matches
  <2>2. \A i \in DOMAIN m : over[e][m[i][1]] = m[i][2][x[i]]
    BY <1>6 DEF Made
  <2>3. (\A key \in DOMAIN wanted : over[e][key] = wanted[key])
          <=> \A i \in DOMAIN m : m[i][1] \in DOMAIN wanted => m[i][2][x[i]] = wanted[m[i][1]]
    BY <1>5, <2>2
  <2> QED BY <2>1, <2>3
<1>7. \A x : x \in Admitted(m, wanted) <=>
        /\ x \in Selections(m, N)
        /\ \A i \in DOMAIN m : m[i][1] \in DOMAIN wanted => m[i][2][x[i]] = wanted[m[i][1]]
  <2> DEFINE U == UNION {DOMAIN m[i][2] : i \in DOMAIN m}
  <2>1. \A x : x \in Selections(m, N) <=>
          x \in [1..N -> U] /\ \A i \in 1..N : x[i] \in DOMAIN m[i][2]
    BY Zenon DEF Selections
  <2>2. \A x : x \in Admitted(m, wanted) <=>
          /\ x \in [DOMAIN m -> U] /\ \A i \in DOMAIN m : x[i] \in DOMAIN m[i][2]
          /\ \A i \in DOMAIN m : m[i][1] \in DOMAIN wanted => m[i][2][x[i]] = wanted[m[i][1]]
    <3> HIDE DEF U
    <3>1. Admitted(m, wanted) = {x \in [DOMAIN m -> U] :
            \A i \in DOMAIN m :
              /\ x[i] \in DOMAIN m[i][2]
              /\ m[i][1] \in DOMAIN wanted => m[i][2][x[i]] = wanted[m[i][1]]}
      BY Zenon DEF Admitted, U
    <3> QED BY <3>1
  <2> HIDE DEF U
  <2> QED BY <1>2, <2>1, <2>2
<1>8. ASSUME NEW x \in Admitted(m, wanted)
      PROVE  \E e \in DOMAIN over : /\ Matches(over[e], wanted)
                                    /\ \A y \in DOMAIN over : Made(m, over[y], x) <=> y = e
  <2>1. x \in Selections(m, N)
    BY <1>7
  <2>2. PICK e \in DOMAIN raw : Has(m, N, raw[e], x)
    BY <1>2, <2>1, Zenon DEF Complete
  <2>3. \A y \in DOMAIN raw : Has(m, N, raw[y], x) => y = e
    BY <1>2, <2>1, <2>2, Zenon DEF Complete
  <2>4. \A y \in DOMAIN over : Made(m, over[y], x) <=> y = e
    BY <1>3, <1>4, <2>2, <2>3
  <2>5. Matches(over[e], wanted)
    BY <1>3, <1>6, <1>7, <2>4
  <2> QED BY <1>3, <2>4, <2>5
<1>9. ASSUME NEW e \in DOMAIN over, Matches(over[e], wanted)
      PROVE  \E x \in Admitted(m, wanted) : Made(m, over[e], x)
  <2>1. PICK x \in Selections(m, N) : Has(m, N, raw[e], x)
    BY <1>2, <1>3, Zenon DEF Complete
  <2>2. Made(m, over[e], x)
    BY <1>4, <2>1
  <2>3. x \in Admitted(m, wanted)
    BY <1>6, <1>7, <1>9, <2>1, <2>2
  <2> QED BY <2>2, <2>3
<1> QED
  BY <1>8, <1>9 DEF OneEach

\* The agenda is that of the command, and a session that ends well has done it all.
DoneInv ==
  /\ pc # "shell" =>
       /\ command \in Commands /\ Accepted(command) /\ agenda = Agenda(Selected(command))
       /\ exit = 0
  /\ pc = "shell" /\ exit = 0 /\ command # None =>
       /\ command \in Commands
       /\ Accepted(command) /\ ~command.options.dry_run =>
            agenda = Agenda(Selected(command)) /\ Len(report) = Len(agenda)

LEMMA NothingSelected == Agenda(<<>>) = <<>>
<1> DEFINE none == [i \in DOMAIN <<>> |->
                      [n \in 1..<<>>[i].runs |-> [scenario |-> <<>>[i], run_num |-> n]]]
<1>1. Agenda(<<>>) = FlattenSeq(none)
  BY DEF Agenda
<1>2. none = <<>>
  OBVIOUS
<1>3. Len(<<>>) = 0
  OBVIOUS
<1>4. FlattenSeq(<<>>) = <<>>
  BY <1>3, FlattenUnfold
<1> QED
  BY <1>1, <1>2, <1>4

LEMMA StepDone == SessionInv /\ DoneInv /\ [Next]_vars => DoneInv'
<1> SUFFICES ASSUME SessionInv, DoneInv, [Next]_vars PROVE DoneInv'
  OBVIOUS
<1>1. CASE Decline
  <2>1. PICK c \in Commands :
          /\ command' = c /\ agenda' = <<>> /\ report' = <<>> /\ pc' = "shell"
          /\ \/ ~Accepted(c) /\ exit' = 1
             \/ Accepted(c) /\ (c.options.dry_run \/ Selected(c) = <<>>) /\ exit' = 0
             \/ exit' = 1
    BY <1>1 DEF Decline, Call
  <2>2. CASE exit' # 0
    BY <2>1, <2>2 DEF DoneInv
  <2>3. CASE Accepted(c) /\ (c.options.dry_run \/ Selected(c) = <<>>)
    <3>1. Selected(c) = <<>> => Agenda(Selected(c)) = <<>>
      BY NothingSelected
    <3>2. command' \in Commands /\ pc' = "shell"
      BY <2>1
    <3>3. Accepted(command') /\ ~command'.options.dry_run =>
            agenda' = Agenda(Selected(command')) /\ Len(report') = Len(agenda')
      BY <2>1, <2>3, <3>1
    <3> QED BY <3>2, <3>3 DEF DoneInv
  <2> QED BY <2>1, <2>2, <2>3
<1>2. CASE Begin
  BY <1>2 DEF Begin, Call, DoneInv
<1>3. ASSUME pc # "shell", UNCHANGED progress, pc' # "shell", UNCHANGED exit PROVE DoneInv'
  BY <1>3 DEF progress, DoneInv
<1>4. ASSUME Raise PROVE DoneInv'
  BY <1>4 DEF Raise, DoneInv
<1>5. CASE Summary
  <2>1. /\ pc = "between" /\ at > Len(agenda) /\ UNCHANGED <<progress, report>> /\ pc' = "shell"
    BY <1>5 DEF Summary
  <2>2. Len(report) = Len(agenda)
    BY <2>1 DEF SessionInv, Control, AgendaOK
  <2> QED BY <2>1, <2>2 DEF progress, DoneInv
<1>6. CASE UNCHANGED vars
  BY <1>6 DEF vars, progress, DoneInv
<1> QED
  BY <1>1, <1>2, <1>3, <1>4, <1>5, <1>6 DEF Next, StartRun, RunRaises, FinishRun

\* The runs made of a choice, and of all that the filter admits.
RunsMade(m, x) == {k \in DOMAIN report : Made(m, agenda[k].scenario, x)}

LEMMA Counted ==
  ASSUME NEW m, NEW over, NEW wanted, NEW n \in Nat, NEW E, NEW R,
         Covers(agenda, over, wanted, n, E, R), DOMAIN report = DOMAIN agenda,
         NEW x, NEW e \in DOMAIN over, Matches(over[e], wanted),
         \A y \in DOMAIN over : Made(m, over[y], x) <=> y = e
  PROVE  Cardinality(RunsMade(m, x)) = n
<1> DEFINE S == RunsMade(m, x)
<1>1. \A k \in DOMAIN agenda : /\ E[k] \in DOMAIN over /\ agenda[k].scenario = over[E[k]]
                               /\ R[k] \in 1..n
  BY DEF Covers
<1>2. \A k : k \in S <=> k \in DOMAIN agenda /\ E[k] = e
  BY <1>1 DEF RunsMade
<1>3. \A j, k \in DOMAIN agenda : E[j] = E[k] /\ R[j] = R[k] => j = k
  BY Zenon DEF Covers
<1>4. \A r \in 1..n : \E k \in DOMAIN agenda : E[k] = e /\ R[k] = r
  BY Zenon DEF Covers
<1> HIDE DEF S
<1>5. /\ \A k \in S : R[k] \in 1..n
      /\ \A j, k \in S : R[j] = R[k] => j = k
      /\ \A r \in 1..n : \E k \in S : R[k] = r
  BY <1>1, <1>2, <1>3, <1>4
<1>6. Cardinality(S) = n
  BY <1>5, CountNumbered
<1> QED
  BY <1>6 DEF S

\* What MatrixCovers and MatchesAdmitted say of a session that has done it all.
LEMMA AllDone ==
  ASSUME command \in Commands, Accepted(command), NEW m, m = command.document.matrix, m # None,
         MatrixAsWritten(command), agenda = Agenda(Selected(command)),
         NEW l \in Nat, DOMAIN report = 1..l, DOMAIN agenda = 1..l,
         NEW wanted, wanted = command.options.filter
  PROVE  /\ DOMAIN wanted \subseteq Fields =>
              /\ \A x \in Admitted(m, wanted) : Cardinality(RunsMade(m, x)) = Asked(command)
              /\ l = Cardinality(UNION {RunsMade(m, x) : x \in Admitted(m, wanted)})
         /\ ~(DOMAIN wanted \subseteq Fields) => l = 0
<1> DEFINE over == Overriding(command)
           n == Asked(command)
<1>1. PICK E, R : Covers(agenda, over, wanted, n, E, R)
  BY MatrixCovers
<1>2. \A e \in DOMAIN over : n \in Nat
  BY MatrixScenes
<1>3. ASSUME DOMAIN wanted \subseteq Fields
      PROVE  /\ \A x \in Admitted(m, wanted) : Cardinality(RunsMade(m, x)) = n
             /\ l = Cardinality(UNION {RunsMade(m, x) : x \in Admitted(m, wanted)})
  <2>1. OneEach(m, over, wanted)
    <3>1. over = Overriding(command)
      OBVIOUS
    <3> HIDE DEF over
    <3> QED BY <1>3, <3>1, MatchesAdmitted
  <2> HIDE DEF over, n
  <2>2. ASSUME NEW x \in Admitted(m, wanted) PROVE Cardinality(RunsMade(m, x)) = n
    <3>1. PICK e \in DOMAIN over : /\ Matches(over[e], wanted)
                                   /\ \A y \in DOMAIN over : Made(m, over[y], x) <=> y = e
      BY <2>1, Zenon DEF OneEach
    <3> QED BY <1>1, <1>2, <3>1, Counted
  <2>3. UNION {RunsMade(m, x) : x \in Admitted(m, wanted)} = 1..l
    <3>1. ASSUME NEW k \in 1..l PROVE \E x \in Admitted(m, wanted) : k \in RunsMade(m, x)
      <4>1. /\ E[k] \in DOMAIN over /\ Matches(over[E[k]], wanted)
            /\ agenda[k].scenario = over[E[k]]
        BY <1>1 DEF Covers
      <4>2. PICK x \in Admitted(m, wanted) : Made(m, over[E[k]], x)
        BY <2>1, <4>1 DEF OneEach
      <4> QED BY <4>1, <4>2 DEF RunsMade
    <3>2. \A x : RunsMade(m, x) \subseteq 1..l
      BY DEF RunsMade
    <3> QED BY <3>1, <3>2
  <2>4. Cardinality(1..l) = l
    BY FS_Interval
  <2> QED BY <2>2, <2>3, <2>4
<1>4. ASSUME ~(DOMAIN wanted \subseteq Fields) PROVE l = 0
  <2>1. PICK key \in DOMAIN wanted : key \notin Fields /\ wanted[key] # ""
    BY <1>4 DEF MatrixAsWritten
  <2>2. \A s : ~Matches(s, wanted)
    BY <2>1 DEF Matches
  <2>3. DOMAIN agenda = {}
    BY <1>1, <2>2 DEF Covers
  <2> QED BY <2>3
<1> QED
  BY <1>3, <1>4

\* A matrix that is run is like those of scenarios/.
MatricesAsWritten ==
  \A c \in Commands : Accepted(c) /\ c.document.matrix # None => MatrixAsWritten(c)

LEMMA DoneRan ==
  ASSUME MatricesAsWritten, SessionInv, DoneInv
  PROVE  EveryComboRan
<1> SUFFICES ASSUME pc = "shell", exit = 0, command # None, ~command.options.dry_run,
                    Accepted(command), command.document.matrix # None
             PROVE  EveryComboRan
  BY DEF EveryComboRan
<1> DEFINE m == command.document.matrix
           wanted == command.options.filter
           l == Len(report)
<1>1. /\ command \in Commands /\ agenda = Agenda(Selected(command)) /\ Len(report) = Len(agenda)
      /\ MatrixAsWritten(command)
  BY DEF DoneInv, MatricesAsWritten
<1>2. l \in Nat /\ DOMAIN report = 1..l /\ DOMAIN agenda = 1..l
  BY <1>1 DEF SessionInv, Control, Recorded, AgendaOK
<1>3. /\ DOMAIN wanted \subseteq Fields =>
           /\ \A x \in Admitted(m, wanted) : Cardinality(RunsMade(m, x)) = Asked(command)
           /\ l = Cardinality(UNION {RunsMade(m, x) : x \in Admitted(m, wanted)})
      /\ ~(DOMAIN wanted \subseteq Fields) => l = 0
  <2> HIDE DEF l
  <2> QED BY <1>1, <1>2, AllDone
<1> QED
  BY <1>3, Zenon DEF EveryComboRan, Admitted, RunsMade, Made

\* expand_matrix, parse_scenario, the overrides, apply_filter and the loops of
\* main: for any matrix like those of scenarios/, when a session ends without a
\* failure, each combination of values that the filter admits has been run as often
\* as was asked, and nothing else has.
THEOREM EveryCombinationIsRun == MatricesAsWritten => (Spec => []EveryComboRan)
<1> SUFFICES ASSUME MatricesAsWritten PROVE Spec => []EveryComboRan
  OBVIOUS
<1>1. Init => DoneInv
  BY DEF Init, DoneInv
<1>2. SessionInv /\ DoneInv => EveryComboRan
  BY DoneRan
<1> QED
  BY <1>1, <1>2, StepDone, SessionInvariant, PTL DEF Spec
=============================================================================
