----------------------------- MODULE Induction -----------------------------
(***************************************************************************)
(* Induction for the proofs about recursively defined values.  It is stated *)
(* for sets of numbers, so that a proof names the set of those numbers for  *)
(* which its claim holds: no lemma here takes an operator.  The last lemmas *)
(* are what FlattenSeq, a recursive function, computes.                     *)
(***************************************************************************)
EXTENDS SequencesExt, TLAPS, WellFoundedInduction

\* A set of natural numbers that is not empty has a least one.
LEMMA LeastNumber ==
  ASSUME NEW T, T \subseteq Nat, T # {} PROVE \E m \in T : \A k \in T : m <= k
<1>1. IsWellFoundedOn(OpToRel(<,Nat), Nat)
  BY NatLessThanWellFounded, Zenon
<1>2. PICK m \in T : \A k \in T : ~ (<<k, m>> \in OpToRel(<,Nat))
  BY <1>1, WFMin, Zenon
<1>3. \A k \in T : ~(k < m)
  BY <1>2, Zenon DEF OpToRel
<1> QED BY <1>3

\* One without numbers above n has a greatest one.
LEMMA GreatestNumber ==
  ASSUME NEW n \in Nat, NEW T, T \subseteq 0 .. n, T # {} PROVE \E m \in T : \A k \in T : k <= m
<1>1. PICK D : D = {n - k : k \in T}
  OBVIOUS
<1>2. \A k \in T : k \in Nat /\ n - k \in Nat
  OBVIOUS
<1>3. D \subseteq Nat /\ D # {}
  BY <1>1, <1>2
<1>4. PICK d \in D : \A e \in D : d <= e
  BY <1>3, LeastNumber
<1>5. PICK m \in T : d = n - m
  BY <1>1, <1>4
<1>6. ASSUME NEW k \in T PROVE k <= m
  <2>1. n - k \in D
    BY <1>1
  <2>2. d <= n - k
    BY <1>4, <2>1
  <2> QED BY <1>2, <1>5, <2>2
<1> QED BY <1>5, <1>6

\* As Max.
LEMMA GreatestIn ==
  ASSUME NEW n \in Nat, NEW T, T \subseteq 1 .. n, T # {}
  PROVE  Max(T) \in T /\ \A k \in T : k <= Max(T)
<1>1. PICK m \in T : \A k \in T : k <= m
  <2>1. T \subseteq 0 .. n
    OBVIOUS
  <2> QED BY <2>1, GreatestNumber
<1>2. \A x \in T : (\A y \in T : x >= y) => x = m
  BY <1>1
<1>3. Max(T) = m
  BY <1>1, <1>2 DEF Max
<1> QED BY <1>1, <1>3

\* A set with 0, and with the successor of each of its numbers, has all numbers.
LEMMA NumbersFromZero ==
  ASSUME NEW T, 0 \in T, \A n \in Nat : n \in T => n + 1 \in T
  PROVE  \A n \in Nat : n \in T
<1> SUFFICES ASSUME NEW n \in Nat, n \notin T PROVE FALSE
  OBVIOUS
<1>1. PICK m \in Nat \ T : \A k \in Nat \ T : m <= k
  <2>1. Nat \ T \subseteq Nat /\ Nat \ T # {}
    OBVIOUS
  <2> QED BY <2>1, LeastNumber
<1>2. m # 0 /\ m - 1 \in Nat
  BY <1>1
<1>3. m - 1 \in T
  BY <1>1, <1>2
<1> QED BY <1>1, <1>2, <1>3

\* f[0] = a and f[k] = step[k][f[k - 1]] define a function from 0 to N.
Recursion(N, S, a, step) ==
  \E f \in [0 .. N -> S] : f[0] = a /\ \A k \in 1 .. N : f[k] = step[k][f[k - 1]]

LEMMA FunctionFromZero ==
  ASSUME NEW N \in Nat, NEW S, NEW a \in S, NEW step \in [1 .. N -> [S -> S]]
  PROVE  Recursion(N, S, a, step)
<1> DEFINE Upto(n, f) == f[0] = a /\ \A k \in 1 .. n : f[k] = step[k][f[k - 1]]
           T == {n \in Nat : n <= N => \E f \in [0 .. n -> S] : Upto(n, f)}
<1>1. 0 \in T
  <2>1. [k \in 0 .. 0 |-> a] \in [0 .. 0 -> S] /\ Upto(0, [k \in 0 .. 0 |-> a])
    OBVIOUS
  <2> QED BY <2>1
<1>2. ASSUME NEW n \in Nat, n \in T PROVE n + 1 \in T
  <2> SUFFICES ASSUME n + 1 <= N PROVE \E f \in [0 .. n + 1 -> S] : Upto(n + 1, f)
    OBVIOUS
  <2>1. PICK f \in [0 .. n -> S] : Upto(n, f)
    BY <1>2
  <2> DEFINE e == [k \in 0 .. n + 1 |-> IF k <= n THEN f[k] ELSE step[n + 1][f[n]]]
  <2>2. step[n + 1] \in [S -> S] /\ f[n] \in S
    OBVIOUS
  <2>3. step[n + 1][f[n]] \in S
    BY <2>2
  <2>4. e \in [0 .. n + 1 -> S]
    BY <2>3
  <2>5. \A k \in 0 .. n : e[k] = f[k]
    OBVIOUS
  <2>6. e[n + 1] = step[n + 1][f[n]]
    OBVIOUS
  <2> HIDE DEF e
  <2>7. ASSUME NEW k \in 1 .. n + 1 PROVE e[k] = step[k][e[k - 1]]
    <3>1. CASE k \in 1 .. n
      <4>1. k \in 0 .. n /\ k - 1 \in 0 .. n
        BY <3>1
      <4> QED BY <2>1, <2>5, <3>1, <4>1
    <3>2. CASE k = n + 1
      <4>1. k - 1 = n /\ n \in 0 .. n
        BY <3>2
      <4> QED BY <2>5, <2>6, <3>2, <4>1
    <3> QED BY <3>1, <3>2
  <2>8. e[0] = a
    BY <2>1, <2>5
  <2> QED BY <2>4, <2>7, <2>8
<1> HIDE DEF T
<1>3. N \in T
  BY <1>1, <1>2, NumbersFromZero
<1> QED BY <1>3 DEF T, Recursion

\* f[p] = rule[p][f] defines a function of 0 .. L where rule[p] looks above p only.
FromAbove(L, V, rule) ==
  \A p \in 0 .. L : \A g, h \in [0 .. L -> V] : (\A q \in p + 1 .. L : g[q] = h[q]) => rule[p][g] = rule[p][h]
Solves(f, L, rule) == \A p \in 0 .. L : f[p] = rule[p][f]

LEMMA FunctionFromAbove ==
  ASSUME NEW L \in Nat, NEW V, NEW v \in V, NEW rule \in [0 .. L -> [[0 .. L -> V] -> V]], FromAbove(L, V, rule)
  PROVE  \E f \in [0 .. L -> V] : Solves(f, L, rule)
<1> DEFINE Above(f, k) == \A p \in 0 .. L : p + k > L => f[p] = rule[p][f]
           T == {k \in Nat : k <= L + 1 => \E f \in [0 .. L -> V] : Above(f, k)}
<1>1. 0 \in T
  <2>1. [p \in 0 .. L |-> v] \in [0 .. L -> V]
    OBVIOUS
  <2>2. \A f : Above(f, 0)
    OBVIOUS
  <2> QED BY <2>1, <2>2
<1>2. ASSUME NEW k \in Nat, k \in T PROVE k + 1 \in T
  <2> SUFFICES ASSUME k + 1 <= L + 1 PROVE \E f \in [0 .. L -> V] : Above(f, k + 1)
    OBVIOUS
  <2>1. PICK f \in [0 .. L -> V] : Above(f, k)
    BY <1>2
  <2>2. PICK m \in 0 .. L : m + k = L
    <3>1. L - k \in 0 .. L /\ (L - k) + k = L
      OBVIOUS
    <3> QED BY <3>1
  <2> HIDE DEF T
  <2>3. PICK w \in V : w = rule[m][f]
    OBVIOUS
  <2>4. PICK e \in [0 .. L -> V] : e[m] = w /\ \A q \in 0 .. L : q # m => e[q] = f[q]
    <3>1. PICK e : e = [f EXCEPT ![m] = w]
      OBVIOUS
    <3>2. e \in [0 .. L -> V] /\ e[m] = w /\ \A q \in 0 .. L : q # m => e[q] = f[q]
      BY <3>1
    <3> QED BY <3>2
  <2>5. ASSUME NEW p \in 0 .. L, p >= m PROVE rule[p][e] = rule[p][f]
    <3>1. \A q \in p + 1 .. L : e[q] = f[q]
      BY <2>4, <2>5
    <3> QED BY <3>1 DEF FromAbove
  <2>6. ASSUME NEW p \in 0 .. L, p + (k + 1) > L PROVE e[p] = rule[p][e]
    <3>1. p >= m
      BY <2>2, <2>6
    <3>2. CASE p = m
      BY <2>3, <2>4, <2>5, <3>1, <3>2
    <3>3. CASE p # m
      <4>1. p + k > L
        BY <2>2, <3>1, <3>3
      <4>2. f[p] = rule[p][f]
        BY <2>1, <4>1
      <4> QED BY <2>4, <2>5, <3>1, <3>3, <4>2
    <3> QED BY <3>2, <3>3
  <2> QED BY <2>6
<1> HIDE DEF T
<1>3. L + 1 \in T
  BY <1>1, <1>2, NumbersFromZero
<1>4. PICK f \in [0 .. L -> V] : Above(f, L + 1)
  BY <1>3 DEF T
<1>5. \A p \in 0 .. L : p + (L + 1) > L
  OBVIOUS
<1> QED BY <1>4, <1>5 DEF Solves

\* A set with the empty sequence, and with the sequences that are one longer, has all.
LEMMA SequencesGrow ==
  ASSUME NEW A, NEW T, <<>> \in T, \A s \in Seq(A), b \in A : s \in T => Append(s, b) \in T
  PROVE  \A s \in Seq(A) : s \in T
<1> DEFINE N == {n \in Nat : \A s \in Seq(A) : Len(s) = n => s \in T}
<1>1. 0 \in N
  BY DEF N
<1>2. ASSUME NEW n \in Nat, n \in N PROVE n + 1 \in N
  <2> SUFFICES ASSUME NEW s \in Seq(A), Len(s) = n + 1 PROVE s \in T
    BY DEF N
  <2>1. PICK t \in Seq(A), b \in A : s = Append(t, b)
    <3>1. SubSeq(s, 1, n) \in Seq(A) /\ s[n + 1] \in A /\ s = Append(SubSeq(s, 1, n), s[n + 1])
      OBVIOUS
    <3> QED BY <3>1, Zenon
  <2>2. Len(t) = n
    BY <2>1
  <2> QED BY <1>2, <2>1, <2>2 DEF N
<1> HIDE DEF N
<1>3. \A n \in Nat : n \in N
  BY <1>1, <1>2, NumbersFromZero
<1> QED BY <1>3 DEF N

LEMMA EmptyFirst == ASSUME NEW A, NEW s \in Seq(A) PROVE <<>> \o s = s
  OBVIOUS

\* The sequences that FlattenSeq appends, one after the other.
Flattens(f, ss) == f[0] = <<>> /\ \A k \in 1 .. Len(ss) : f[k] = f[k - 1] \o ss[k]

LEMMA FlattenIs ==
  ASSUME NEW A, NEW ss \in Seq(Seq(A)), NEW f \in [0 .. Len(ss) -> Seq(A)], Flattens(f, ss)
  PROVE  FlattenSeq(ss) = f[Len(ss)]
<1>0. Len(ss) \in Nat /\ \A k \in 1 .. Len(ss) : ss[k] \in Seq(A)
  OBVIOUS
<1>1. CASE Len(ss) = 0
  BY <1>1 DEF FlattenSeq, Flattens
<1>2. CASE Len(ss) # 0
  <2> DEFINE Is(g) == g = [i \in 1 .. Len(ss) |-> IF i = 1 THEN ss[i] ELSE g[i - 1] \o ss[i]]
             flatten == CHOOSE g : Is(g)
  <2>1. FlattenSeq(ss) = flatten[Len(ss)]
    BY <1>2 DEF FlattenSeq
  <2>2. ASSUME NEW k \in 1 .. Len(ss) PROVE f[k] = IF k = 1 THEN ss[k] ELSE f[k - 1] \o ss[k]
    <3>1. f[k] = f[k - 1] \o ss[k] /\ f[0] = <<>>
      BY DEF Flattens
    <3>2. CASE k = 1
      <4>1. f[k - 1] = <<>>
        BY <3>1, <3>2
      <4>2. <<>> \o ss[k] = ss[k]
        BY <1>0, EmptyFirst
      <4> QED BY <3>1, <3>2, <4>1, <4>2
    <3>3. CASE k # 1
      BY <3>1, <3>3
    <3> QED BY <3>2, <3>3
  <2>3. \E g : Is(g)
    <3> DEFINE g == [i \in 1 .. Len(ss) |-> f[i]]
    <3>1. \A i \in 1 .. Len(ss) : g[i] = IF i = 1 THEN ss[i] ELSE g[i - 1] \o ss[i]
      BY <1>0, <2>2
    <3>2. Is(g)
      BY <2>2
    <3> QED BY <3>2
  <2>4. Is(flatten)
    BY <2>3
  <2> HIDE DEF flatten
  <2>5. ASSUME NEW k \in 1 .. Len(ss) PROVE flatten[k] = IF k = 1 THEN ss[k] ELSE flatten[k - 1] \o ss[k]
    BY <2>4
  <2> DEFINE T == {n \in Nat : n + 1 <= Len(ss) => flatten[n + 1] = f[n + 1]}
  <2>6. 0 \in T
    BY <1>0, <2>2, <2>5
  <2>7. ASSUME NEW n \in Nat, n \in T PROVE n + 1 \in T
    <3> SUFFICES ASSUME n + 2 <= Len(ss) PROVE flatten[n + 2] = f[n + 2]
      OBVIOUS
    <3>1. n + 2 \in 1 .. Len(ss) /\ (n + 2) - 1 = n + 1 /\ n + 2 # 1
      BY <1>0
    <3>2. flatten[n + 1] = f[n + 1]
      BY <1>0, <2>7
    <3> QED BY <2>2, <2>5, <3>1, <3>2
  <2> HIDE DEF T
  <2>8. \A n \in Nat : n \in T
    BY <2>6, <2>7, NumbersFromZero
  <2>9. PICK m \in Nat : m + 1 = Len(ss)
    <3>1. Len(ss) - 1 \in Nat /\ (Len(ss) - 1) + 1 = Len(ss)
      BY <1>0, <1>2
    <3> QED BY <3>1
  <2>10. m \in T
    BY <2>8
  <2>11. flatten[m + 1] = f[m + 1]
    BY <2>9, <2>10 DEF T
  <2> QED BY <2>1, <2>9, <2>11
<1> QED BY <1>1, <1>2

Flattening(ss, A) == \E f \in [0 .. Len(ss) -> Seq(A)] : Flattens(f, ss)

LEMMA FlattenExists == ASSUME NEW A, NEW ss \in Seq(Seq(A)) PROVE Flattening(ss, A)
<1>1. PICK N \in Nat : N = Len(ss)
  OBVIOUS
<1>2. PICK step : step = [k \in 1 .. N |-> [s \in Seq(A) |-> s \o ss[k]]]
  OBVIOUS
<1>3. step \in [1 .. N -> [Seq(A) -> Seq(A)]]
  <2>1. ASSUME NEW k \in 1 .. N, NEW s \in Seq(A) PROVE s \o ss[k] \in Seq(A)
    <3>1. ss[k] \in Seq(A)
      BY <1>1
    <3> QED BY <3>1
  <2> QED BY <1>2, <2>1
<1>4. PICK f \in [0 .. N -> Seq(A)] : f[0] = <<>> /\ \A k \in 1 .. N : f[k] = step[k][f[k - 1]]
  <2>1. <<>> \in Seq(A)
    OBVIOUS
  <2>2. Recursion(N, Seq(A), <<>>, step)
    BY <1>3, <2>1, FunctionFromZero
  <2> QED BY <2>2 DEF Recursion
<1>5. ASSUME NEW k \in 1 .. N PROVE f[k] = f[k - 1] \o ss[k]
  <2>1. f[k - 1] \in Seq(A)
    <3>1. k - 1 \in 0 .. N
      OBVIOUS
    <3> QED BY <1>4, <3>1
  <2>2. step[k] = [s \in Seq(A) |-> s \o ss[k]]
    BY <1>2
  <2>3. step[k][f[k - 1]] = f[k - 1] \o ss[k]
    BY <2>1, <2>2
  <2> QED BY <1>4, <2>3
<1> QED BY <1>1, <1>4, <1>5 DEF Flattens, Flattening

\* What FlattenSeq gives is a sequence of what its sequences hold.
LEMMA FlattenType == ASSUME NEW A, NEW ss \in Seq(Seq(A)) PROVE FlattenSeq(ss) \in Seq(A)
<1>1. PICK f \in [0 .. Len(ss) -> Seq(A)] : Flattens(f, ss)
  BY FlattenExists DEF Flattening
<1>2. FlattenSeq(ss) = f[Len(ss)]
  BY <1>1, FlattenIs
<1> QED BY <1>2

\* FlattenSeq of one more sequence ends in that sequence.
LEMMA FlattenAppend ==
  ASSUME NEW A, NEW ss \in Seq(Seq(A)), NEW s \in Seq(A)
  PROVE  FlattenSeq(Append(ss, s)) = FlattenSeq(ss) \o s
<1>1. PICK f \in [0 .. Len(ss) -> Seq(A)] : Flattens(f, ss)
  BY FlattenExists DEF Flattening
<1>2. FlattenSeq(ss) = f[Len(ss)]
  BY <1>1, FlattenIs
<1>3. PICK N \in Nat : N = Len(ss)
  OBVIOUS
<1>4. PICK ts \in Seq(Seq(A)) : ts = Append(ss, s)
  OBVIOUS
<1>5. Len(ts) = N + 1 /\ ts[N + 1] = s /\ \A k \in 1 .. N : ts[k] = ss[k]
  BY <1>3, <1>4
<1> DEFINE e == [k \in 0 .. N + 1 |-> IF k <= N THEN f[k] ELSE f[N] \o s]
<1>6. e \in [0 .. N + 1 -> Seq(A)]
  <2>1. \A k \in 0 .. N : f[k] \in Seq(A)
    BY <1>3
  <2>2. \A r \in Seq(A) : r \o s \in Seq(A)
    OBVIOUS
  <2>3. N \in 0 .. N
    OBVIOUS
  <2>4. ASSUME NEW k \in 0 .. N + 1 PROVE (IF k <= N THEN f[k] ELSE f[N] \o s) \in Seq(A)
    <3>1. CASE k <= N
      BY <2>1, <3>1
    <3>2. CASE ~(k <= N)
      BY <2>1, <2>2, <2>3, <3>2
    <3> QED BY <3>1, <3>2
  <2> QED BY <2>4
<1>7. e[N + 1] = f[N] \o s /\ \A k \in 0 .. N : e[k] = f[k]
  <2>1. N + 1 \in 0 .. N + 1 /\ ~(N + 1 <= N)
    OBVIOUS
  <2>2. \A k \in 0 .. N : k \in 0 .. N + 1 /\ k <= N
    OBVIOUS
  <2> QED BY <2>1, <2>2, Zenon
<1> HIDE DEF e
<1>8. ASSUME NEW k \in 1 .. N + 1 PROVE e[k] = e[k - 1] \o ts[k]
  <2>1. CASE k \in 1 .. N
    <3>1. k \in 0 .. N /\ k - 1 \in 0 .. N
      BY <2>1
    <3>2. f[k] = f[k - 1] \o ss[k]
      BY <1>1, <1>3, <2>1 DEF Flattens
    <3>3. e[k] = f[k] /\ e[k - 1] = f[k - 1] /\ ts[k] = ss[k]
      BY <1>5, <1>7, <2>1, <3>1
    <3> QED BY <3>2, <3>3
  <2>2. CASE k = N + 1
    <3>1. k - 1 = N /\ N \in 0 .. N
      BY <2>2
    <3> QED BY <1>5, <1>7, <2>2, <3>1
  <2>3. k \in 1 .. N \/ k = N + 1
    OBVIOUS
  <2> QED BY <2>1, <2>2, <2>3
<1>9. Flattens(e, ts)
  <2>1. e[0] = <<>>
    BY <1>1, <1>7 DEF Flattens
  <2> QED BY <1>5, <1>8, <2>1 DEF Flattens
<1>10. FlattenSeq(ts) = e[N + 1]
  BY <1>5, <1>6, <1>9, FlattenIs
<1> QED BY <1>2, <1>3, <1>4, <1>7, <1>10
=============================================================================
