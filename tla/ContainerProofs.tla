--------------------------- MODULE ContainerProofs ---------------------------
(***************************************************************************)
(* Proofs about the reader of blocks (BlockReader), as Container has it,   *)
(* and about the values and blocks of EBML (EbmlValues): what is read of   *)
(* any octets is of its type, whoever reads a track gets its frames, and   *)
(* what is written is read back.  A file is any sequence of octets.        *)
(***************************************************************************)
EXTENDS Container, TLAPS, Induction, FiniteSetTheorems

\* What a file is made of.
Octet == 0 .. Base - 1

----------------------------------------------------------------------------
(* Powers of two *)

Bits == OctetBits * OctetBits

LEMMA BitsAre == OctetBits \in 5 .. 8 /\ Bits \in Nat /\ Bits >= 25
<1>1. OctetBits \in 5 .. 8
  BY EbmlValuesAssumption
<1>2. CASE OctetBits = 5
  BY <1>2 DEF Bits
<1>3. CASE OctetBits = 6
  BY <1>3 DEF Bits
<1>4. CASE OctetBits = 7
  BY <1>4 DEF Bits
<1>5. CASE OctetBits = 8
  BY <1>5 DEF Bits
<1> QED BY <1>1, <1>2, <1>3, <1>4, <1>5

IsTwo(f) == f = [n \in 0 .. Bits |-> IF n = 0 THEN 1 ELSE 2 * f[n - 1]]

LEMMA TwoExists == \E f \in [0 .. Bits -> Nat] : IsTwo(f)
<1>1. PICK N \in Nat : N = Bits
  BY BitsAre
<1>2. PICK step : step = [k \in 1 .. N |-> [x \in Nat |-> 2 * x]]
  OBVIOUS
<1>3. step \in [1 .. N -> [Nat -> Nat]]
  BY <1>2
<1>4. PICK f \in [0 .. N -> Nat] : f[0] = 1 /\ \A k \in 1 .. N : f[k] = step[k][f[k - 1]]
  <2>1. 1 \in Nat
    OBVIOUS
  <2>2. Recursion(N, Nat, 1, step)
    BY <1>3, <2>1, FunctionFromZero
  <2> QED BY <2>2 DEF Recursion
<1>5. ASSUME NEW k \in 0 .. N PROVE f[k] = IF k = 0 THEN 1 ELSE 2 * f[k - 1]
  <2>1. CASE k = 0
    BY <1>4, <2>1
  <2>2. CASE k # 0
    <3>1. k \in 1 .. N /\ f[k - 1] \in Nat
      BY <2>2
    <3> QED BY <1>2, <1>4, <2>2, <3>1
  <2> QED BY <2>1, <2>2
<1>6. f = [n \in 0 .. N |-> IF n = 0 THEN 1 ELSE 2 * f[n - 1]]
  BY <1>5
<1> QED BY <1>1, <1>6 DEF IsTwo

LEMMA TwoIs ==
  /\ Two \in [0 .. Bits -> Nat] /\ Two[0] = 1
  /\ \A n \in 1 .. Bits : Two[n] = 2 * Two[n - 1]
<1>1. Two = CHOOSE f : IsTwo(f)
  BY DEF Two, IsTwo, Bits
<1>2. IsTwo(Two)
  BY <1>1, TwoExists
<1>3. \A n \in 0 .. Bits : Two[n] = IF n = 0 THEN 1 ELSE 2 * Two[n - 1]
  BY <1>2 DEF IsTwo
<1>4. Two[0] = 1 /\ \A n \in 1 .. Bits : Two[n] = 2 * Two[n - 1]
  BY <1>3, BitsAre
<1> DEFINE T == {n \in Nat : n <= Bits => Two[n] \in Nat}
<1>5. 0 \in T
  BY <1>4
<1>6. ASSUME NEW n \in Nat, n \in T PROVE n + 1 \in T
  <2>1. CASE n + 1 <= Bits
    <3>1. n + 1 \in 1 .. Bits /\ (n + 1) - 1 = n /\ n <= Bits
      BY <2>1, BitsAre
    <3> QED BY <1>4, <1>6, <3>1
  <2>2. CASE ~(n + 1 <= Bits)
    BY <2>2
  <2> QED BY <2>1, <2>2
<1> HIDE DEF T
<1>7. \A n \in Nat : n \in T
  BY <1>5, <1>6, NumbersFromZero
<1>8. \A n \in 0 .. Bits : Two[n] \in Nat
  BY <1>7, BitsAre DEF T
<1> QED BY <1>2, <1>4, <1>8 DEF IsTwo

LEMMA TwoStep ==
  ASSUME NEW n \in Nat, n + 1 <= Bits
  PROVE  Two[n + 1] = 2 * Two[n] /\ Two[n] \in Nat
<1>1. n \in 0 .. Bits /\ n + 1 \in 1 .. Bits /\ (n + 1) - 1 = n
  BY BitsAre
<1> QED BY <1>1, TwoIs

LEMMA TwoPositive == \A n \in 0 .. Bits : Two[n] \in Nat \ {0}
<1> DEFINE T == {n \in Nat : n <= Bits => Two[n] \in Nat \ {0}}
<1>1. 0 \in T
  BY TwoIs
<1>2. ASSUME NEW n \in Nat, n \in T PROVE n + 1 \in T
  <2> SUFFICES ASSUME n + 1 <= Bits PROVE Two[n + 1] \in Nat \ {0}
    OBVIOUS
  <2>1. Two[n] \in Nat \ {0}
    BY <1>2, BitsAre
  <2> QED BY <2>1, TwoStep
<1> HIDE DEF T
<1>3. \A n \in Nat : n \in T
  BY <1>1, <1>2, NumbersFromZero
<1> QED BY <1>3, BitsAre DEF T

\* The place of the first bit of a number.
LEMMA FirstBit ==
  ASSUME NEW n \in 0 .. Bits, NEW x \in 1 .. Two[n] - 1
  PROVE  \E j \in 0 .. n - 1 : x \in Two[j] .. Two[j + 1] - 1
<1> DEFINE R(m) == \A y \in 1 .. Two[m] - 1 : \E j \in 0 .. m - 1 : y \in Two[j] .. Two[j + 1] - 1
           T == {m \in Nat : m <= Bits => R(m)}
<1>1. 0 \in T
  BY TwoIs
<1>2. ASSUME NEW m \in Nat, m \in T PROVE m + 1 \in T
  <2> SUFFICES ASSUME m + 1 <= Bits, NEW y \in 1 .. Two[m + 1] - 1
               PROVE  \E j \in 0 .. m : y \in Two[j] .. Two[j + 1] - 1
    OBVIOUS
  <2>1. Two[m] \in Nat /\ Two[m + 1] = 2 * Two[m] /\ R(m)
    BY <1>2, TwoStep, BitsAre
  <2>2. CASE y < Two[m]
    <3>1. y \in 1 .. Two[m] - 1
      BY <2>1, <2>2
    <3>2. PICK j \in 0 .. m - 1 : y \in Two[j] .. Two[j + 1] - 1
      BY <2>1, <3>1
    <3> QED BY <3>2
  <2>3. CASE ~(y < Two[m])
    <3>1. y \in Two[m] .. Two[m + 1] - 1
      BY <2>1, <2>3
    <3> QED BY <3>1
  <2> QED BY <2>2, <2>3
<1> HIDE DEF T
<1>3. \A m \in Nat : m \in T
  BY <1>1, <1>2, NumbersFromZero
<1> QED BY <1>3, BitsAre DEF T

\* k octets, or the k * (OctetBits - 1) bits of a number in k octets, are not more
\* than a word.
LEMMA Products ==
  /\ OctetBits \in 0 .. Bits /\ OctetBits - 1 \in 0 .. Bits
  /\ \A k \in 0 .. OctetBits : k * OctetBits \in 0 .. Bits /\ k * (OctetBits - 1) \in 0 .. Bits
<1>1. OctetBits \in 5 .. 8
  BY BitsAre
<1>2. ASSUME NEW k \in 0 .. OctetBits PROVE k * OctetBits \in 0 .. Bits /\ k * (OctetBits - 1) \in 0 .. Bits
  <2>1. CASE OctetBits = 5
    BY <2>1 DEF Bits
  <2>2. CASE OctetBits = 6
    BY <2>2 DEF Bits
  <2>3. CASE OctetBits = 7
    BY <2>3 DEF Bits
  <2>4. CASE OctetBits = 8
    BY <2>4 DEF Bits
  <2> QED BY <1>1, <2>1, <2>2, <2>3, <2>4
<1>3. OctetBits <= Bits
  BY <1>1, BitsAre
<1> QED BY <1>1, <1>2, <1>3, BitsAre

LEMMA PowersAre ==
  /\ Base \in Nat \ {0} /\ \A k \in 0 .. OctetBits : Power(k) \in Nat \ {0} /\ Limit(k) \in Nat \ {0}
  /\ SizeUnknown \in Nat
<1>1. Base \in Nat \ {0}
  BY Products, TwoPositive DEF Base
<1>2. ASSUME NEW k \in 0 .. OctetBits PROVE Power(k) \in Nat \ {0} /\ Limit(k) \in Nat \ {0}
  BY Products, TwoPositive DEF Power, Limit
<1>3. OctetBits \in 0 .. OctetBits
  BY BitsAre
<1>4. Limit(OctetBits) \in Nat \ {0}
  BY <1>2, <1>3
<1> QED BY <1>1, <1>2, <1>4 DEF SizeUnknown

----------------------------------------------------------------------------
(* What is read is a number, and so are the octets it takes *)

LEMMA OctetsAre == Octet \subseteq Nat
  BY PowersAre DEF Octet

IsNumber(f, s) ==
  f = [k \in 0 .. Len(s) |-> IF k = 0 THEN 0 ELSE (f[k - 1] * Base + s[k]) % Power(OctetBits)]

LEMMA NumberStepType == ASSUME NEW v \in Nat, NEW o \in Nat PROVE (v * Base + o) % Power(OctetBits) \in Nat
<1>1. Power(OctetBits) \in Nat \ {0} /\ Base \in Nat
  <2>1. OctetBits \in 0 .. OctetBits
    BY BitsAre
  <2> QED BY <2>1, PowersAre
<1>2. PICK x \in Nat : x = v * Base + o
  BY <1>1
<1> QED BY <1>1, <1>2

LEMMA NumberExists == ASSUME NEW s \in Seq(Octet) PROVE \E f \in [0 .. Len(s) -> Nat] : IsNumber(f, s)
<1>1. PICK N \in Nat : N = Len(s)
  OBVIOUS
<1>2. \A k \in 1 .. N : s[k] \in Nat
  <2>1. \A k \in 1 .. N : s[k] \in Octet
    BY <1>1
  <2> QED BY <2>1, OctetsAre, Zenon
<1>3. PICK step : step = [k \in 1 .. N |-> [x \in Nat |-> (x * Base + s[k]) % Power(OctetBits)]]
  OBVIOUS
<1>4. step \in [1 .. N -> [Nat -> Nat]]
  <2>1. ASSUME NEW k \in 1 .. N, NEW x \in Nat PROVE (x * Base + s[k]) % Power(OctetBits) \in Nat
    BY <1>2, NumberStepType
  <2> QED BY <1>3, <2>1
<1>5. PICK f \in [0 .. N -> Nat] : f[0] = 0 /\ \A k \in 1 .. N : f[k] = step[k][f[k - 1]]
  <2>1. 0 \in Nat
    OBVIOUS
  <2>2. Recursion(N, Nat, 0, step)
    BY <1>4, <2>1, FunctionFromZero
  <2> QED BY <2>2 DEF Recursion
<1>6. ASSUME NEW k \in 0 .. N
      PROVE  f[k] = IF k = 0 THEN 0 ELSE (f[k - 1] * Base + s[k]) % Power(OctetBits)
  <2>1. CASE k = 0
    BY <1>5, <2>1
  <2>2. CASE k # 0
    <3>1. k \in 1 .. N /\ f[k - 1] \in Nat
      BY <2>2
    <3> QED BY <1>3, <1>5, <2>2, <3>1
  <2> QED BY <2>1, <2>2
<1>7. f = [k \in 0 .. N |-> IF k = 0 THEN 0 ELSE (f[k - 1] * Base + s[k]) % Power(OctetBits)]
  BY <1>6
<1> QED BY <1>1, <1>7 DEF IsNumber

LEMMA NumberIs ==
  ASSUME NEW s \in Seq(Octet)
  PROVE  \E f : /\ Number(s) = f[Len(s)] /\ f[0] = 0
                /\ \A k \in 1 .. Len(s) : f[k] = (f[k - 1] * Base + s[k]) % Power(OctetBits)
                /\ \A k \in 0 .. Len(s) : f[k] \in Nat
<1> DEFINE f == CHOOSE g : IsNumber(g, s)
<1>1. Number(s) = f[Len(s)]
  BY DEF Number, IsNumber
<1>2. IsNumber(f, s)
  BY NumberExists
<1> HIDE DEF f
<1>3. PICK N \in Nat : N = Len(s)
  OBVIOUS
<1>4. \A k \in 0 .. N : f[k] = IF k = 0 THEN 0 ELSE (f[k - 1] * Base + s[k]) % Power(OctetBits)
  BY <1>2, <1>3 DEF IsNumber
<1>5. f[0] = 0 /\ \A k \in 1 .. N : f[k] = (f[k - 1] * Base + s[k]) % Power(OctetBits)
  <2>1. 0 \in 0 .. N /\ \A k \in 1 .. N : k \in 0 .. N /\ k # 0
    OBVIOUS
  <2> QED BY <1>4, <2>1, Zenon
<1> DEFINE T == {n \in Nat : n <= N => f[n] \in Nat}
<1>6. 0 \in T
  BY <1>5
<1>7. ASSUME NEW n \in Nat, n \in T PROVE n + 1 \in T
  <2> SUFFICES ASSUME n + 1 <= N PROVE f[n + 1] \in Nat
    OBVIOUS
  <2>1. n + 1 \in 1 .. N /\ (n + 1) - 1 = n /\ f[n] \in Nat
    BY <1>7
  <2>2. s[n + 1] \in Nat
    <3>1. s[n + 1] \in Octet
      BY <1>3, <2>1
    <3> QED BY <3>1, OctetsAre, Zenon
  <2>3. f[n + 1] = (f[n] * Base + s[n + 1]) % Power(OctetBits)
    BY <1>5, <2>1
  <2> QED BY <2>1, <2>2, <2>3, NumberStepType
<1> HIDE DEF T
<1>8. \A n \in Nat : n \in T
  BY <1>6, <1>7, NumbersFromZero
<1>9. \A k \in 0 .. N : f[k] \in Nat
  BY <1>8 DEF T
<1> QED BY <1>1, <1>3, <1>5, <1>9

LEMMA NumberType == ASSUME NEW s \in Seq(Octet) PROVE Number(s) \in Nat
<1>1. Len(s) \in 0 .. Len(s)
  OBVIOUS
<1> QED BY <1>1, NumberIs

\* The length of a number, told by its first octet.
FirstIn(o, i) == o \in Two[OctetBits - i] .. Two[OctetBits - i + 1] - 1
LengthBy(o) == IF o = 0 THEN 1 ELSE CHOOSE i \in 1 .. OctetBits : FirstIn(o, i)

LEMMA LengthByIs ==
  ASSUME NEW o \in Octet
  PROVE  LengthBy(o) \in 1 .. OctetBits /\ (o # 0 => FirstIn(o, LengthBy(o)))
<1>1. CASE o = 0
  BY <1>1, BitsAre DEF LengthBy
<1>2. CASE o # 0
  <2>1. o \in 1 .. Two[OctetBits] - 1
    BY <1>2, PowersAre DEF Octet, Base
  <2>2. PICK j \in 0 .. OctetBits - 1 : o \in Two[j] .. Two[j + 1] - 1
    BY <2>1, FirstBit, Products
  <2>3. PICK i \in 1 .. OctetBits : j = OctetBits - i
    <3>1. OctetBits - j \in 1 .. OctetBits /\ j = OctetBits - (OctetBits - j)
      BY BitsAre
    <3> QED BY <3>1
  <2>4. FirstIn(o, i)
    BY <2>2, <2>3 DEF FirstIn
  <2> QED BY <1>2, <2>4 DEF LengthBy
<1> QED BY <1>1, <1>2

LEMMA ReadVUIntIs ==
  ASSUME NEW s \in Seq(Octet), s # <<>>
  PROVE  readVUInt(s) = LET k == LengthBy(s[1])
                        IN  IF Len(s) < k THEN UnexpectedEOF(Len(s))
                            ELSE Got((s[1] % Two[OctetBits - k]) * Power(k - 1) + Number(SubSeq(s, 2, k)), k)
  BY Zenon DEF readVUInt, LengthBy, FirstIn

\* What a read gives: whether it succeeded, a value of V, and a number of octets.
Reads(V) == [ok : BOOLEAN, v : V, n : Nat]

LEMMA GotIs == ASSUME NEW V, NEW v \in V, NEW n \in Nat PROVE Got(v, n) \in Reads(V)
  BY DEF Got, Reads

LEMMA UnexpectedEOFIs == ASSUME NEW n \in Nat PROVE UnexpectedEOF(n) \in Reads(Nat) /\ ~UnexpectedEOF(n).ok
  BY DEF UnexpectedEOF, Reads

\* A number of an octet and those after it.
LEMMA HighAndLow ==
  ASSUME NEW a \in Nat, NEW m \in Nat \ {0}, NEW p \in Nat, NEW l \in Nat PROVE (a % m) * p + l \in Nat
<1>1. PICK q \in Nat : q = a % m
  OBVIOUS
<1> QED BY <1>1

LEMMA PartOf ==
  ASSUME NEW A, NEW s \in Seq(A), NEW i \in Nat \ {0}, NEW j \in Int, j <= Len(s) PROVE SubSeq(s, i, j) \in Seq(A)
  OBVIOUS

LEMMA ReadVUIntType ==
  ASSUME NEW s \in Seq(Octet)
  PROVE  readVUInt(s) \in Reads(Nat) /\ readVUInt(s).n \in 0 .. OctetBits /\ (readVUInt(s).ok => readVUInt(s).n > 0)
<1>1. CASE s = <<>>
  <2>1. readVUInt(s) = UnexpectedEOF(0)
    BY <1>1 DEF readVUInt
  <2>2. 0 \in Nat /\ 0 \in 0 .. OctetBits
    BY BitsAre
  <2> QED BY <2>1, <2>2, UnexpectedEOFIs DEF UnexpectedEOF
<1>2. CASE s # <<>>
  <2>1. s[1] \in Octet
    BY <1>2
  <2>2. PICK k : k = LengthBy(s[1])
    OBVIOUS
  <2>3. k \in 1 .. OctetBits
    BY <2>1, <2>2, LengthByIs
  <2>4. readVUInt(s) = IF Len(s) < k THEN UnexpectedEOF(Len(s))
                       ELSE Got((s[1] % Two[OctetBits - k]) * Power(k - 1) + Number(SubSeq(s, 2, k)), k)
    BY <1>2, <2>2, ReadVUIntIs
  <2>5. CASE Len(s) < k
    <3>1. readVUInt(s) = UnexpectedEOF(Len(s))
      BY <2>4, <2>5
    <3>2. Len(s) \in Nat /\ Len(s) \in 0 .. OctetBits
      BY <2>3, <2>5, BitsAre
    <3> QED BY <3>1, <3>2, UnexpectedEOFIs DEF UnexpectedEOF
  <2>6. CASE ~(Len(s) < k)
    <3>1. s[1] \in Nat
      BY <2>1, OctetsAre, Zenon
    <3>2. Two[OctetBits - k] \in Nat \ {0}
      <4>1. OctetBits - k \in 0 .. Bits
        BY <2>3, Products, BitsAre
      <4> QED BY <4>1, TwoPositive
    <3>3. Power(k - 1) \in Nat
      <4>1. k - 1 \in 0 .. OctetBits
        BY <2>3, BitsAre
      <4> QED BY <4>1, PowersAre
    <3>4. Number(SubSeq(s, 2, k)) \in Nat
      <4>1. SubSeq(s, 2, k) \in Seq(Octet)
        <5>1. k \in Int /\ k <= Len(s) /\ 2 \in Nat \ {0}
          BY <2>3, <2>6, BitsAre
        <5> QED BY <5>1, PartOf
      <4> QED BY <4>1, NumberType
    <3>5. PICK v : v = (s[1] % Two[OctetBits - k]) * Power(k - 1) + Number(SubSeq(s, 2, k))
      OBVIOUS
    <3>6. v \in Nat
      BY <3>1, <3>2, <3>3, <3>4, <3>5, HighAndLow
    <3>7. readVUInt(s) = Got(v, k)
      BY <2>4, <2>6, <3>5
    <3>8. k \in Nat /\ k \in 0 .. OctetBits /\ k > 0
      BY <2>3, BitsAre
    <3>9. Got(v, k) \in Reads(Nat)
      BY <3>6, <3>8, GotIs
    <3>10. Got(v, k).n = k
      BY DEF Got
    <3> QED BY <3>7, <3>8, <3>9, <3>10
  <2> QED BY <2>5, <2>6
<1> QED BY <1>1, <1>2

LEMMA ReadDataSizeType == ASSUME NEW s \in Seq(Octet) PROVE readDataSize(s) \in Reads(Nat)
<1>1. readVUInt(s) \in Reads(Nat)
  BY ReadVUIntType
<1>2. SizeUnknown \in Nat
  BY PowersAre
<1>3. readVUInt(s).n \in Nat
  BY <1>1 DEF Reads
<1>4. Got(SizeUnknown, readVUInt(s).n) \in Reads(Nat)
  BY <1>2, <1>3, GotIs
<1> QED BY <1>1, <1>4 DEF readDataSize

LEMMA ReadVIntType == ASSUME NEW s \in Seq(Octet) PROVE readVInt(s) \in Reads(Int)
<1>1. PICK r : r = readVUInt(s)
  OBVIOUS
<1>2. r \in Reads(Nat) /\ r.n \in 0 .. OctetBits
  BY <1>1, ReadVUIntType
<1>3. CASE r.ok
  <2>1. Limit(r.n) \in Nat
    BY <1>2, PowersAre
  <2>2. PICK l \in Nat : l = Limit(r.n)
    BY <2>1
  <2>3. Bias(r.n) \in Int
    BY <2>2 DEF Bias
  <2>4. r.v \in Int /\ r.n \in Nat
    BY <1>2 DEF Reads
  <2>5. r.v - Bias(r.n) \in Int
    BY <2>3, <2>4
  <2>6. readVInt(s) = Got(r.v - Bias(r.n), r.n)
    BY <1>1, <1>3 DEF readVInt
  <2> QED BY <2>4, <2>5, <2>6, GotIs
<1>4. CASE ~r.ok
  <2>1. readVInt(s) = r
    BY <1>1, <1>4 DEF readVInt
  <2> QED BY <1>2, <2>1 DEF Reads
<1> QED BY <1>3, <1>4

----------------------------------------------------------------------------
(* The frames of a block that is read are a sequence *)

IsSequence(f) == \E A : f \in Seq(A)

LEMMA SequenceOf == ASSUME NEW n \in Nat, NEW S, NEW f \in [1 .. n -> S] PROVE IsSequence(f) /\ Len(f) = n
<1>1. f \in Seq(S)
  OBVIOUS
<1>2. Len(f) = n
  OBVIOUS
<1> QED BY <1>1, <1>2 DEF IsSequence

LEMMA AppendIs ==
  ASSUME NEW A, NEW q \in Seq(A), NEW x \in A
  PROVE  Append(q, x) = [n \in 1 .. Len(q) + 1 |-> IF n = Len(q) + 1 THEN x ELSE q[n]]
<1>1. PICK p \in Seq(A) : p = Append(q, x)
  <2>1. Append(q, x) \in Seq(A)
    OBVIOUS
  <2> QED BY <2>1
<1>2. p \in [1 .. Len(q) + 1 -> A]
  <2>1. Len(p) = Len(q) + 1
    BY <1>1
  <2> QED BY <2>1
<1>3. \A n \in 1 .. Len(q) + 1 : Append(q, x)[n] = IF n = Len(q) + 1 THEN x ELSE q[n]
  OBVIOUS
<1> QED BY <1>1, <1>2, <1>3

LEMMA OneMore == ASSUME NEW f, IsSequence(f), NEW e PROVE IsSequence(Append(f, e))
<1>1. PICK A : f \in Seq(A)
  BY DEF IsSequence
<1>2. f \in Seq(A \cup {e}) /\ e \in A \cup {e}
  BY <1>1
<1>3. Append(f, e) \in Seq(A \cup {e})
  BY <1>2
<1> QED BY <1>3 DEF IsSequence

LEMMA SequenceDomain == ASSUME NEW f, IsSequence(f) PROVE Len(f) \in Nat /\ DOMAIN f = 1 .. Len(f)
  BY DEF IsSequence

\* That a read gives a sequence, if it succeeds.
GivesSequence(r) == r.ok => IsSequence(r.v)

LEMMA FailedRead == ASSUME NEW n PROVE GivesSequence(UnexpectedEOF(n))
  BY DEF GivesSequence, UnexpectedEOF

LEMMA CutIs == ASSUME NEW s, NEW sizes, IsSequence(sizes) PROVE GivesSequence(Cut(s, sizes))
<1> DEFINE end == Bounds(sizes)
           frames == [i \in DOMAIN sizes |-> SubSeq(s, end[i - 1] + 1, end[i])]
<1>1. Cut(s, sizes) = IF Len(s) < TotalSize(sizes) THEN UnexpectedEOF(Len(s)) ELSE Got(frames, TotalSize(sizes))
  BY DEF Cut
<1>2. frames \in [DOMAIN sizes -> {SubSeq(s, end[i - 1] + 1, end[i]) : i \in DOMAIN sizes}]
  OBVIOUS
<1> HIDE DEF end, frames
<1>3. IsSequence(frames)
  BY <1>2, SequenceDomain, SequenceOf
<1>4. GivesSequence(Got(frames, TotalSize(sizes)))
  BY <1>3 DEF GivesSequence, Got
<1> QED BY <1>1, <1>4, FailedRead

LEMMA CutWithLastIs ==
  ASSUME NEW rest, NEW n, NEW r, GivesSequence(r) PROVE GivesSequence(CutWithLast(rest, n, r))
<1>1. PICK e : e = n - r.n - TotalSize(r.v)
  OBVIOUS
<1>2. CASE ~r.ok \/ e <= 0
  <2>1. CutWithLast(rest, n, r) = UnexpectedEOF(1)
    BY <1>1, <1>2 DEF CutWithLast
  <2> QED BY <2>1, FailedRead
<1>3. CASE ~(~r.ok \/ e <= 0)
  <2>1. CutWithLast(rest, n, r) = Cut(SubSeq(rest, r.n + 1, Len(rest)), Append(r.v, e))
    BY <1>1, <1>3 DEF CutWithLast
  <2>2. IsSequence(Append(r.v, e))
    BY <1>3, OneMore DEF GivesSequence
  <2> QED BY <2>1, <2>2, CutIs
<1> QED BY <1>2, <1>3

\* The ends of sizes in Xiph lacing, and what is between them.
XiphEnds(s) == {i \in DOMAIN s : s[i] # Base - 1}
NextEnd(s, i) == Min({e \in XiphEnds(s) : e > i} \cup {Len(s) + 1})
IsNth(g, s, k) == g = [i \in 0 .. k |-> IF i = 0 THEN 0 ELSE NextEnd(s, g[i - 1])]
XiphSizesOf(g, s, k) == [i \in 1 .. k |-> TotalSize(SubSeq(s, g[i - 1] + 1, g[i]))]

LEMMA XiphSizesAre ==
  ASSUME NEW s, NEW k
  PROVE  LET nth == CHOOSE g : IsNth(g, s, k)
         IN  XiphSizes(s, k) = IF nth[k] > Len(s) THEN UnexpectedEOF(Len(s)) ELSE Got(XiphSizesOf(nth, s, k), nth[k])
  BY Zenon DEF XiphSizes, XiphSizesOf, IsNth, NextEnd, XiphEnds

LEMMA XiphSizesIs == ASSUME NEW s, NEW k \in Nat PROVE GivesSequence(XiphSizes(s, k))
<1>1. PICK nth : XiphSizes(s, k) = IF nth[k] > Len(s) THEN UnexpectedEOF(Len(s)) ELSE Got(XiphSizesOf(nth, s, k), nth[k])
  BY XiphSizesAre
<1>2. XiphSizesOf(nth, s, k) \in [1 .. k -> {TotalSize(SubSeq(s, nth[i - 1] + 1, nth[i])) : i \in 1 .. k}]
  BY DEF XiphSizesOf
<1>3. IsSequence(XiphSizesOf(nth, s, k))
  BY <1>2, SequenceOf
<1>4. GivesSequence(Got(XiphSizesOf(nth, s, k), nth[k]))
  BY <1>3 DEF GivesSequence, Got
<1> QED BY <1>1, <1>4, FailedRead

\* Sizes in EBML lacing, at least one.
SomeSizes == Seq(Int) \ {<<>>}
FirstSize(s) == LET r == readVUInt(s) IN [r EXCEPT !.v = <<r.v>>]
NextSize(s, before) ==
  LET r == readVInt(SubSeq(s, before.n + 1, Len(s)))
  IN  IF before.ok /\ r.ok /\ Last(before.v) + r.v > 0
      THEN Got(Append(before.v, Last(before.v) + r.v), before.n + r.n)
      ELSE [before EXCEPT !.ok = FALSE]
IsSizes(f, s, k) == f = [i \in 0 .. k |-> IF i = 0 THEN FirstSize(s) ELSE NextSize(s, f[i - 1])]

LEMMA FirstSizeType == ASSUME NEW s \in Seq(Octet) PROVE FirstSize(s) \in Reads(SomeSizes)
<1>1. PICK r : r = readVUInt(s)
  OBVIOUS
<1>2. r \in Reads(Nat)
  BY <1>1, ReadVUIntType
<1>3. r = [ok |-> r.ok, v |-> r.v, n |-> r.n] /\ r.ok \in BOOLEAN /\ r.v \in Nat /\ r.n \in Nat
  BY <1>2 DEF Reads
<1>4. FirstSize(s) = [ok |-> r.ok, v |-> <<r.v>>, n |-> r.n]
  BY <1>1, <1>3 DEF FirstSize
<1>5. <<r.v>> \in SomeSizes
  BY <1>3 DEF SomeSizes
<1> QED BY <1>3, <1>4, <1>5 DEF Reads

LEMMA NextSizeType ==
  ASSUME NEW s \in Seq(Octet), NEW before \in Reads(SomeSizes) PROVE NextSize(s, before) \in Reads(SomeSizes)
<1>1. before.v \in SomeSizes /\ before.n \in Nat /\ before.ok \in BOOLEAN
  BY DEF Reads
<1>2. SubSeq(s, before.n + 1, Len(s)) \in Seq(Octet)
  <2>1. before.n + 1 \in Nat \ {0} /\ Len(s) \in Int /\ Len(s) <= Len(s)
    BY <1>1
  <2> QED BY <2>1, PartOf
<1>3. PICK r : r = readVInt(SubSeq(s, before.n + 1, Len(s)))
  OBVIOUS
<1>4. r.v \in Int /\ r.n \in Nat
  BY <1>2, <1>3, ReadVIntType DEF Reads
<1>5. Last(before.v) \in Int
  BY <1>1 DEF SomeSizes, Last
<1>6. CASE before.ok /\ r.ok /\ Last(before.v) + r.v > 0
  <2>1. NextSize(s, before) = Got(Append(before.v, Last(before.v) + r.v), before.n + r.n)
    BY <1>3, <1>6 DEF NextSize
  <2>2. Append(before.v, Last(before.v) + r.v) \in SomeSizes
    <3>1. Last(before.v) + r.v \in Int
      BY <1>4, <1>5
    <3> QED BY <1>1, <3>1 DEF SomeSizes
  <2>3. before.n + r.n \in Nat
    BY <1>1, <1>4
  <2> QED BY <2>1, <2>2, <2>3, GotIs
<1>7. CASE ~(before.ok /\ r.ok /\ Last(before.v) + r.v > 0)
  <2>1. NextSize(s, before) = [before EXCEPT !.ok = FALSE]
    BY <1>3, <1>7 DEF NextSize
  <2> QED BY <2>1 DEF Reads
<1> QED BY <1>6, <1>7

LEMMA SizesExist ==
  ASSUME NEW s \in Seq(Octet), NEW k \in Nat PROVE \E f \in [0 .. k -> Reads(SomeSizes)] : IsSizes(f, s, k)
<1>1. PICK step : step = [i \in 1 .. k |-> [x \in Reads(SomeSizes) |-> NextSize(s, x)]]
  OBVIOUS
<1>2. step \in [1 .. k -> [Reads(SomeSizes) -> Reads(SomeSizes)]]
  BY <1>1, NextSizeType
<1>3. PICK f \in [0 .. k -> Reads(SomeSizes)] : f[0] = FirstSize(s) /\ \A i \in 1 .. k : f[i] = step[i][f[i - 1]]
  <2>1. Recursion(k, Reads(SomeSizes), FirstSize(s), step)
    BY <1>2, FirstSizeType, FunctionFromZero
  <2> QED BY <2>1 DEF Recursion
<1>4. ASSUME NEW i \in 0 .. k PROVE f[i] = IF i = 0 THEN FirstSize(s) ELSE NextSize(s, f[i - 1])
  <2>1. CASE i = 0
    BY <1>3, <2>1
  <2>2. CASE i # 0
    <3>1. i \in 1 .. k /\ f[i - 1] \in Reads(SomeSizes)
      BY <2>2
    <3> QED BY <1>1, <1>3, <2>2, <3>1
  <2> QED BY <2>1, <2>2
<1> QED BY <1>4 DEF IsSizes

\* What is read of sizes in EBML lacing, one after the other.
SizesInTurn(read, s, k) ==
  /\ read[0] = FirstSize(s) /\ \A i \in 1 .. k : read[i] = NextSize(s, read[i - 1])
  /\ \A i \in 0 .. k : read[i] \in Reads(SomeSizes)

LEMMA ReadingExists ==
  ASSUME NEW s \in Seq(Octet), NEW k \in Nat
  PROVE  \E read : /\ SizesInTurn(read, s, k)
                   /\ EbmlSizes(s, k) = IF k = 0 THEN [read[0] EXCEPT !.v = <<>>] ELSE read[k - 1]
<1> DEFINE read == CHOOSE g : IsSizes(g, s, k)
<1>1. EbmlSizes(s, k) = IF k = 0 THEN [read[0] EXCEPT !.v = <<>>] ELSE read[k - 1]
  BY Zenon DEF EbmlSizes, IsSizes, FirstSize, NextSize
<1>2. IsSizes(read, s, k)
  BY SizesExist
<1> HIDE DEF read
<1>3. read[0] = FirstSize(s) /\ \A i \in 1 .. k : read[i] = NextSize(s, read[i - 1])
  <2>1. \A i \in 0 .. k : read[i] = IF i = 0 THEN FirstSize(s) ELSE NextSize(s, read[i - 1])
    BY <1>2 DEF IsSizes
  <2>2. 0 \in 0 .. k /\ \A i \in 1 .. k : i \in 0 .. k /\ i # 0
    OBVIOUS
  <2> QED BY <2>1, <2>2, Zenon
<1> DEFINE T == {n \in Nat : n <= k => read[n] \in Reads(SomeSizes)}
<1>4. 0 \in T
  BY <1>3, FirstSizeType
<1>5. ASSUME NEW n \in Nat, n \in T PROVE n + 1 \in T
  <2> SUFFICES ASSUME n + 1 <= k PROVE read[n + 1] \in Reads(SomeSizes)
    OBVIOUS
  <2>1. n + 1 \in 1 .. k /\ (n + 1) - 1 = n /\ read[n] \in Reads(SomeSizes)
    BY <1>5
  <2>2. read[n + 1] = NextSize(s, read[n])
    BY <1>3, <2>1
  <2> QED BY <2>1, <2>2, NextSizeType
<1> HIDE DEF T
<1>6. \A n \in Nat : n \in T
  BY <1>4, <1>5, NumbersFromZero
<1>7. \A i \in 0 .. k : read[i] \in Reads(SomeSizes)
  BY <1>6 DEF T
<1> QED BY <1>1, <1>3, <1>7 DEF SizesInTurn

LEMMA EbmlSizesIs == ASSUME NEW s \in Seq(Octet), NEW k \in Nat PROVE GivesSequence(EbmlSizes(s, k))
<1>1. PICK read : /\ SizesInTurn(read, s, k)
                  /\ EbmlSizes(s, k) = IF k = 0 THEN [read[0] EXCEPT !.v = <<>>] ELSE read[k - 1]
  BY ReadingExists
<1>2. \A i \in 0 .. k : read[i] \in Reads(SomeSizes)
  BY <1>1 DEF SizesInTurn
<1>3. CASE k = 0
  <2>1. read[0] \in Reads(SomeSizes)
    BY <1>2
  <2>2. EbmlSizes(s, k).v = <<>>
    <3>1. EbmlSizes(s, k) = [read[0] EXCEPT !.v = <<>>]
      BY <1>1, <1>3
    <3> QED BY <2>1, <3>1 DEF Reads
  <2>3. <<>> \in Seq({})
    OBVIOUS
  <2> QED BY <2>2, <2>3 DEF GivesSequence, IsSequence
<1>4. CASE k # 0
  <2>1. k - 1 \in 0 .. k
    BY <1>4
  <2>2. read[k - 1] \in Reads(SomeSizes)
    BY <1>2, <2>1
  <2>3. EbmlSizes(s, k).v \in Seq(Int)
    BY <1>1, <1>4, <2>2 DEF Reads, SomeSizes
  <2> QED BY <2>3 DEF GivesSequence, IsSequence
<1> QED BY <1>3, <1>4

LEMMA UnlaceIs == ASSUME NEW l \in 0 .. 3, NEW s \in Seq(Octet), NEW n PROVE GivesSequence(Unlace(l, s, n))
<1>1. CASE l = LacingNo
  <2>1. <<n>> \in Seq({n})
    OBVIOUS
  <2>2. IsSequence(<<n>>)
    BY <2>1 DEF IsSequence
  <2>3. Unlace(l, s, n) = Cut(s, <<n>>)
    BY <1>1 DEF Unlace
  <2> QED BY <2>2, <2>3, CutIs
<1>2. CASE l # LacingNo /\ (s = <<>> \/ (l = LacingFixed /\ (n - 1) % (s[1] + 1) # 0))
  <2>1. Unlace(l, s, n) = UnexpectedEOF(Len(s))
    BY <1>2 DEF Unlace
  <2> QED BY <2>1, FailedRead
<1>3. CASE l # LacingNo /\ ~(s = <<>> \/ (l = LacingFixed /\ (n - 1) % (s[1] + 1) # 0))
  <2>1. s[1] \in Nat /\ Tail(s) \in Seq(Octet)
    <3>1. s[1] \in Octet /\ Tail(s) \in Seq(Octet)
      BY <1>3
    <3> QED BY <3>1, OctetsAre, Zenon
  <2>2. PICK k \in Nat : k = s[1]
    BY <2>1
  <2>3. CASE l = LacingFixed
    <3>1. PICK e : e = (n - 1) \div (s[1] + 1)
      OBVIOUS
    <3>2. PICK sizes : sizes = [i \in 1 .. k + 1 |-> e]
      OBVIOUS
    <3>3. Unlace(l, s, n) = Cut(Tail(s), sizes)
      BY <1>3, <2>2, <2>3, <3>1, <3>2 DEF Unlace, LacingFixed, LacingXiph, LacingEBML
    <3>4. sizes \in [1 .. k + 1 -> {e}] /\ k + 1 \in Nat
      BY <3>2
    <3>5. IsSequence(sizes)
      BY <3>4, SequenceOf
    <3> QED BY <3>3, <3>5, CutIs
  <2>4. CASE l = LacingXiph
    <3>1. Unlace(l, s, n) = CutWithLast(Tail(s), n - 1, XiphSizes(Tail(s), k))
      BY <1>3, <2>2, <2>4 DEF Unlace, LacingFixed, LacingXiph, LacingEBML
    <3> QED BY <3>1, XiphSizesIs, CutWithLastIs
  <2>5. CASE l = LacingEBML
    <3>1. Unlace(l, s, n) = CutWithLast(Tail(s), n - 1, EbmlSizes(Tail(s), k))
      BY <1>3, <2>2, <2>5 DEF Unlace, LacingFixed, LacingXiph, LacingEBML
    <3> QED BY <2>1, <3>1, EbmlSizesIs, CutWithLastIs
  <2> QED BY <1>3, <2>3, <2>4, <2>5 DEF LacingNo, LacingXiph, LacingFixed, LacingEBML
<1> QED BY <1>1, <1>2, <1>3

LEMMA LacingIs == ASSUME NEW o \in Nat PROVE (o \div 2) % 4 \in 0 .. 3
<1>1. PICK q \in Nat : q = o \div 2
  OBVIOUS
<1> QED BY <1>1

IsBlock(b) ==
  /\ DOMAIN b = {"track", "timecode", "keyframe", "invisible", "lacing", "discardable", "data"}
  /\ IsSequence(b.data)
GivesBlock(r) == r.ok => IsBlock(r.v)

LEMMA AfterTrackIs ==
  ASSUME NEW t, NEW s \in Seq(Octet), NEW n PROVE GivesBlock(AfterTrack(t, s, n))
<1>1. CASE ~t.ok \/ Len(s) < 3 \/ n < 3
  <2>1. AfterTrack(t, s, n) = UnexpectedEOF(Len(s))
    BY <1>1 DEF AfterTrack
  <2> QED BY <2>1 DEF GivesBlock, UnexpectedEOF
<1>2. CASE ~(~t.ok \/ Len(s) < 3 \/ n < 3)
  <2>1. s[3] \in Nat
    <3>1. s[3] \in Octet
      BY <1>2
    <3> QED BY <3>1, OctetsAre, Zenon
  <2>2. (s[3] \div 2) % 4 \in 0 .. 3
    BY <2>1, LacingIs
  <2>3. SubSeq(s, 4, Len(s)) \in Seq(Octet)
    <3>1. 4 \in Nat \ {0} /\ Len(s) \in Int /\ Len(s) <= Len(s)
      OBVIOUS
    <3> QED BY <3>1, PartOf
  <2>4. PICK frames : frames = Unlace((s[3] \div 2) % 4, SubSeq(s, 4, Len(s)), n - 3)
    OBVIOUS
  <2>5. GivesSequence(frames)
    BY <2>2, <2>3, <2>4, UnlaceIs
  <2>6. AfterTrack(t, s, n) = BlockOf(t.v, readInt(s, 2).v, s[3], frames, n + t.n)
    BY <1>2, <2>4 DEF AfterTrack
  <2>7. CASE ~frames.ok
    BY <2>6, <2>7 DEF BlockOf, GivesBlock
  <2>8. CASE frames.ok
    BY <2>5, <2>6, <2>8 DEF BlockOf, Got, GivesBlock, GivesSequence, IsBlock
  <2> QED BY <2>7, <2>8
<1> QED BY <1>1, <1>2

LEMMA UnmarshalBlockIs == ASSUME NEW s \in Seq(Octet), NEW n PROVE GivesBlock(UnmarshalBlock(s, n))
<1>1. PICK t : t = readVUInt(s)
  OBVIOUS
<1>2. t.n \in Nat
  BY <1>1, ReadVUIntType DEF Reads
<1>3. SubSeq(s, t.n + 1, Len(s)) \in Seq(Octet)
  <2>1. t.n + 1 \in Nat \ {0} /\ Len(s) \in Int /\ Len(s) <= Len(s)
    BY <1>2
  <2> QED BY <2>1, PartOf
<1>4. UnmarshalBlock(s, n) = AfterTrack(t, SubSeq(s, t.n + 1, Len(s)), n - t.n)
  BY <1>1 DEF UnmarshalBlock
<1> QED BY <1>3, <1>4, AfterTrackIs

----------------------------------------------------------------------------
(* What the reader of blocks holds, and what a step of Unmarshal does to it *)

Names == {revTable(n)[1] : n \in Nat}
Calls == [name : Names, end : Nat \cup {Unknown}]

CursorTypes == at \in Nat /\ stack \in Seq(Calls)
ParserTypes ==
  /\ DOMAIN parser = {"pc", "tracks", "timecode", "block", "priority"} /\ IsBlock(parser.block)
  /\ parser.pc \in {"none", "header", "refused", "cluster", "send", "ended", "crashed"}
DemuxTypes ==
  /\ DOMAIN demux = {"pc", "block", "made", "frame"}
  /\ demux.pc \in {"receive", "make", "hand", "ended"}

\* The elements of type Block.
LEMMA BlocksInTable ==
  ASSUME NEW n PROVE revTable(n)[1] \in {"SimpleBlock", "Block"} => revTable(n)[3] = "Block"
<1>1. DOMAIN table = 1 .. 31
  BY DEF table
<1>2. CASE n \in DOMAIN table
  <2>1. n \in 1 .. 31
    BY <1>1, <1>2
  <2> QED BY <1>2, <2>1 DEF table, revTable
<1>3. CASE n \notin DOMAIN table
  BY <1>3 DEF revTable
<1> QED BY <1>2, <1>3

LEMMA AvailableIs ==
  ASSUME file \in Seq(Octet), CursorTypes PROVE Available \in Seq(Octet)
<1>1. PICK T : T = Ends \cup {Len(file)}
  OBVIOUS
<1>2. T \subseteq Nat /\ Len(file) \in T
  <2>1. \A i \in DOMAIN stack : stack[i].end \in Nat \cup {Unknown}
    <3>1. \A i \in DOMAIN stack : stack[i] \in Calls
      BY DEF CursorTypes
    <3> QED BY <3>1, Zenon DEF Calls
  <2>2. Ends \subseteq Nat
    BY <2>1, Zenon DEF Ends
  <2>3. Len(file) \in Nat
    OBVIOUS
  <2> QED BY <1>1, <2>2, <2>3
<1>3. PICK m \in T : \A k \in T : m <= k
  BY <1>2, LeastNumber
<1>4. Min(T) = m
  <2>1. \A x \in T : (\A y \in T : x <= y) => x = m
    BY <1>2, <1>3
  <2> QED BY <1>3, <2>1 DEF Min
<1>5. m \in Int /\ m <= Len(file) /\ at + 1 \in Nat \ {0}
  BY <1>2, <1>3 DEF CursorTypes
<1>6. Available = SubSeq(file, at + 1, m)
  BY <1>1, <1>4 DEF Available
<1> QED BY <1>5, <1>6, PartOf

\* What a step of Unmarshal does: it goes on, ends the header, ends, or gives a block.
Step ==
  \/ parser.pc = "header" /\ parser'.pc \in {"header", "refused"} /\ reader' = reader
  \/ parser.pc = "header" /\ parser'.pc = "cluster" /\ reader' = NewReaders(parser.tracks)
  \/ parser.pc = "cluster" /\ parser'.pc \in {"cluster", "ended", "crashed"} /\ reader' = reader
  \/ parser.pc = "cluster" /\ parser'.pc = "send" /\ parser'.timecode = parser.timecode /\ reader' = reader
Stepped == CursorTypes' /\ ParserTypes' /\ Step /\ UNCHANGED <<file, option, demux>>

LEMMA Skipping ==
  ASSUME CursorTypes, ParserTypes, Parsing, NEW n \in Nat, SkipOrFail(n) PROVE Stepped
<1>1. CASE option.ignoreUnknown
  <2>1. at' = at + n /\ UNCHANGED <<parser, stack, file, option, demux, reader>>
    BY <1>1 DEF SkipOrFail
  <2>2. CursorTypes'
    BY <2>1 DEF CursorTypes
  <2>3. ParserTypes'
    BY <2>1 DEF ParserTypes
  <2> QED BY <2>1, <2>2, <2>3 DEF Stepped, Step, Parsing
<1>2. CASE ~option.ignoreUnknown
  <2>1. parser' = [parser EXCEPT !.pc = Fails(@)] /\ UNCHANGED <<at, stack, file, option, demux, reader>>
    BY <1>2 DEF SkipOrFail
  <2>2. CursorTypes'
    BY <2>1 DEF CursorTypes
  <2>3. DOMAIN parser' = DOMAIN parser /\ parser'.block = parser.block /\ parser'.pc = Fails(parser.pc)
    BY <2>1 DEF ParserTypes
  <2>4. ParserTypes'
    BY <2>3 DEF ParserTypes, Fails, IsBlock
  <2>5. Step
    BY <2>1, <2>3 DEF Step, Parsing, Fails
  <2> QED BY <2>1, <2>2, <2>4, <2>5 DEF Stepped
<1> QED BY <1>1, <1>2

LEMMA Entering ==
  ASSUME CursorTypes, ParserTypes, Parsing, NEW x, x.octets \in Nat, x.size.v \in Nat, x.row[1] \in Names, EnterMaster(x)
  PROVE  Stepped
<1>1. CursorTypes'
  <2>1. PICK c : c = [name |-> x.row[1],
                      end |-> IF x.size.v = SizeUnknown THEN Unknown ELSE at + x.octets + x.size.v]
    OBVIOUS
  <2>2. c \in Calls
    BY <2>1 DEF Calls, CursorTypes
  <2>3. at' = at + x.octets /\ stack' = Append(stack, c)
    BY <2>1 DEF EnterMaster
  <2> QED BY <2>2, <2>3 DEF CursorTypes
<1>2. parser' = [parser EXCEPT !.block = NoBlock, !.priority = 0] \/ parser' = parser
  BY DEF EnterMaster
<1>3. IsBlock(NoBlock)
  <2>1. <<>> \in Seq({})
    OBVIOUS
  <2>2. NoBlock.data = <<>>
    BY DEF NoBlock
  <2>3. IsSequence(NoBlock.data)
    BY <2>1, <2>2 DEF IsSequence
  <2> QED BY <2>3 DEF IsBlock, NoBlock
<1>4. ParserTypes' /\ parser'.pc = parser.pc
  BY <1>2, <1>3 DEF ParserTypes
<1>5. UNCHANGED <<file, option, demux, reader>>
  BY DEF EnterMaster
<1> QED BY <1>1, <1>4, <1>5 DEF Stepped, Step, Parsing

LEMMA EndingFile ==
  ASSUME CursorTypes, ParserTypes, Parsing, NEW s, EndOfFile(s) PROVE Stepped
<1>1. /\ parser' = [parser EXCEPT !.pc = IF @ = "header" THEN "refused" ELSE "ended"]
      /\ UNCHANGED <<file, option, at, stack, demux, reader>>
  BY DEF EndOfFile
<1>2. CursorTypes'
  BY <1>1 DEF CursorTypes
<1>3. /\ DOMAIN parser' = DOMAIN parser /\ parser'.block = parser.block
      /\ parser'.pc = IF parser.pc = "header" THEN "refused" ELSE "ended"
  BY <1>1 DEF ParserTypes
<1>4. ParserTypes'
  BY <1>3 DEF ParserTypes, IsBlock
<1>5. Step
  BY <1>1, <1>3 DEF Step, Parsing
<1> QED BY <1>1, <1>2, <1>4, <1>5 DEF Stepped

LEMMA Leaving ==
  ASSUME CursorTypes, ParserTypes, Parsing, NEW s, NEW x, LeaveMaster(s, x) PROVE Stepped
<1>1. UNCHANGED <<file, option, at, demux>> /\ stack # <<>>
  BY DEF LeaveMaster
<1>2. CASE parser.pc = "header" /\ Path = <<"Segment", "Tracks">>
  <2>1. /\ parser' = [parser EXCEPT !.pc = "cluster"]
        /\ stack' = <<>> /\ reader' = NewReaders(parser.tracks)
    BY <1>2 DEF LeaveMaster
  <2>2. CursorTypes'
    BY <1>1, <2>1 DEF CursorTypes
  <2>3. DOMAIN parser' = DOMAIN parser /\ parser'.block = parser.block /\ parser'.pc = "cluster"
    BY <2>1 DEF ParserTypes
  <2>4. ParserTypes'
    BY <2>3 DEF ParserTypes, IsBlock
  <2>5. Step
    BY <1>2, <2>1, <2>3 DEF Step
  <2> QED BY <1>1, <2>2, <2>4, <2>5 DEF Stepped
<1>3. CASE ~(parser.pc = "header" /\ Path = <<"Segment", "Tracks">>)
  <2>1. stack' = Front(stack) /\ UNCHANGED reader
    BY <1>3 DEF LeaveMaster
  <2>2. CursorTypes'
    <3>1. Front(stack) \in Seq(Calls)
      BY <1>1 DEF CursorTypes, Front
    <3> QED BY <1>1, <2>1, <3>1 DEF CursorTypes
  <2>3. CASE parser.pc = "cluster" /\ Path = <<"Cluster", "BlockGroup">>
    <3>1. parser' = [parser EXCEPT !.pc = "send", !.block.keyframe = parser.priority # 0]
      BY <1>3, <2>3 DEF LeaveMaster
    <3>2. PICK b : b = [parser.block EXCEPT !.keyframe = parser.priority # 0]
      OBVIOUS
    <3>3. /\ DOMAIN parser' = DOMAIN parser /\ parser'.block = b
          /\ parser'.pc = "send" /\ parser'.timecode = parser.timecode
      BY <3>1, <3>2 DEF ParserTypes
    <3>4. IsBlock(b)
      BY <3>2 DEF ParserTypes, IsBlock
    <3>5. ParserTypes'
      BY <3>3, <3>4 DEF ParserTypes
    <3>6. Step
      BY <2>1, <2>3, <3>3 DEF Step
    <3> QED BY <1>1, <2>2, <3>5, <3>6 DEF Stepped
  <2>4. CASE ~(parser.pc = "cluster" /\ Path = <<"Cluster", "BlockGroup">>)
    <3>1. parser' = parser
      BY <1>3, <2>4 DEF LeaveMaster
    <3>2. ParserTypes'
      BY <3>1 DEF ParserTypes
    <3>3. Step
      BY <2>1, <3>1 DEF Step, Parsing
    <3> QED BY <1>1, <2>2, <3>2, <3>3 DEF Stepped
  <2> QED BY <2>3, <2>4
<1> QED BY <1>2, <1>3

\* The name of an element is the last of its path.
LEMMA LastOfPath ==
  ASSUME CursorTypes, NEW name
  PROVE  /\ Append(Path, name) = <<"Cluster", "SimpleBlock">> => name = "SimpleBlock"
         /\ Append(Path, name) = <<"Cluster", "BlockGroup", "Block">> => name = "Block"
<1>1. PICK p : p = Path
  OBVIOUS
<1>2. p \in Seq(Names)
  <2>1. \A i \in 1 .. Len(stack) : stack[i].name \in Names
    <3>1. \A i \in 1 .. Len(stack) : stack[i] \in Calls
      BY DEF CursorTypes
    <3> QED BY <3>1, Zenon DEF Calls
  <2> QED BY <1>1, <2>1 DEF Path, CursorTypes
<1>3. PICK q : q = Append(p, name)
  OBVIOUS
<1>4. Len(q) = Len(p) + 1 /\ q[Len(q)] = name
  BY <1>2, <1>3
<1>5. q = <<"Cluster", "SimpleBlock">> => name = "SimpleBlock"
  BY <1>4
<1>6. q = <<"Cluster", "BlockGroup", "Block">> => name = "Block"
  BY <1>4
<1> QED BY <1>1, <1>3, <1>5, <1>6

LEMMA Storing ==
  ASSUME CursorTypes, ParserTypes, Parsing, NEW name, NEW v, parser' = Stored(name, v), reader' = reader,
         name \in {"SimpleBlock", "Block"} => IsBlock(v)
  PROVE  ParserTypes' /\ Step
<1>1. CASE parser.pc = "header"
  <2>1. parser' = [parser EXCEPT !.tracks = @ \cup {v}] \/ parser' = parser
    BY <1>1 DEF Stored
  <2>2. DOMAIN parser' = DOMAIN parser /\ parser'.pc = parser.pc /\ parser'.block = parser.block
    BY <2>1 DEF ParserTypes
  <2> QED BY <1>1, <2>2 DEF ParserTypes, IsBlock, Step
<1>2. CASE parser.pc # "header"
  <2>1. parser.pc = "cluster"
    BY <1>2 DEF Parsing
  <2>2. \/ parser' = [parser EXCEPT !.timecode = v]
        \/ parser' = [parser EXCEPT !.pc = "send", !.block = v] /\ name = "SimpleBlock"
        \/ parser' = [parser EXCEPT !.block = v] /\ name = "Block"
        \/ parser' = [parser EXCEPT !.priority = v]
        \/ parser' = parser
    BY <1>2, LastOfPath DEF Stored
  <2>3. CASE \/ parser' = [parser EXCEPT !.timecode = v] \/ parser' = [parser EXCEPT !.priority = v]
             \/ parser' = parser
    <3>1. DOMAIN parser' = DOMAIN parser /\ parser'.pc = parser.pc /\ parser'.block = parser.block
      BY <2>3 DEF ParserTypes
    <3> QED BY <2>1, <3>1 DEF ParserTypes, IsBlock, Step
  <2>4. CASE parser' = [parser EXCEPT !.pc = "send", !.block = v] /\ name = "SimpleBlock"
    <3>1. /\ DOMAIN parser' = DOMAIN parser /\ parser'.pc = "send" /\ parser'.block = v
          /\ parser'.timecode = parser.timecode
      BY <2>4 DEF ParserTypes
    <3> QED BY <2>1, <2>4, <3>1 DEF ParserTypes, Step
  <2>5. CASE parser' = [parser EXCEPT !.block = v] /\ name = "Block"
    <3>1. DOMAIN parser' = DOMAIN parser /\ parser'.pc = parser.pc /\ parser'.block = v
      BY <2>5 DEF ParserTypes
    <3> QED BY <2>1, <2>5, <3>1 DEF ParserTypes, Step
  <2> QED BY <2>2, <2>3, <2>4, <2>5
<1> QED BY <1>1, <1>2

LEMMA Valuing ==
  ASSUME CursorTypes, ParserTypes, Parsing, NEW s \in Seq(Octet), NEW n, NEW x, x.octets \in Nat, x.size.v \in Nat,
         x.row = revTable(n), ReadValue(s, x)
  PROVE  Stepped
<1>1. PICK val \in {decode(x.row[3], SubSeq(s, x.octets + 1, Len(s)), x.size.v)} :
        IF val.ok
        THEN /\ at' = at + x.octets + x.size.v
             /\ parser' = Stored(x.row[1], val.v)
             /\ UNCHANGED <<file, option, stack, demux, reader>>
        ELSE SkipOrFail(1)
  BY DEF ReadValue
<1>2. CASE val.ok
  <2>1. /\ at' = at + x.octets + x.size.v /\ parser' = Stored(x.row[1], val.v)
        /\ UNCHANGED <<file, option, stack, demux, reader>>
    BY <1>1, <1>2
  <2>2. CursorTypes'
    BY <2>1 DEF CursorTypes
  <2>3. ASSUME x.row[1] \in {"SimpleBlock", "Block"} PROVE IsBlock(val.v)
    <3>1. x.row[3] = "Block"
      BY <2>3, BlocksInTable
    <3>2. PICK r : r = SubSeq(s, x.octets + 1, Len(s))
      OBVIOUS
    <3>3. r \in Seq(Octet)
      <4>1. x.octets + 1 \in Nat \ {0} /\ Len(s) \in Int /\ Len(s) <= Len(s)
        OBVIOUS
      <4> QED BY <3>2, <4>1, PartOf
    <3>4. val = UnmarshalBlock(r, x.size.v)
      BY <1>1, <3>1, <3>2 DEF decode
    <3> QED BY <1>2, <3>3, <3>4, UnmarshalBlockIs DEF GivesBlock
  <2>4. ParserTypes' /\ Step
    BY <2>1, <2>3, Storing
  <2> QED BY <2>1, <2>2, <2>4 DEF Stepped
<1>3. CASE ~val.ok
  <2>1. SkipOrFail(1) /\ 1 \in Nat
    BY <1>1, <1>3
  <2> QED BY <2>1, Skipping
<1> QED BY <1>2, <1>3

LEMMA UnmarshalSteps ==
  ASSUME file \in Seq(Octet), CursorTypes, ParserTypes, Unmarshal PROVE Stepped
<1>1. Parsing
  BY DEF Unmarshal
<1>2. PICK s \in {Available} : \E e \in {readVUInt(s)} :
        \E x \in {HeadOf(e, readDataSize(SubSeq(s, e.n + 1, Len(s))))} :
          CutOff(s, x) \/ UnknownElement(x) \/ EnterMaster(x) \/ EndOfFile(s) \/ LeaveMaster(s, x) \/ ReadValue(s, x)
  BY DEF Unmarshal
<1>3. PICK e \in {readVUInt(s)} : \E x \in {HeadOf(e, readDataSize(SubSeq(s, e.n + 1, Len(s))))} :
        CutOff(s, x) \/ UnknownElement(x) \/ EnterMaster(x) \/ EndOfFile(s) \/ LeaveMaster(s, x) \/ ReadValue(s, x)
  BY <1>2
<1>4. PICK size : size = readDataSize(SubSeq(s, e.n + 1, Len(s)))
  OBVIOUS
<1>5. PICK x : x = HeadOf(e, size)
  OBVIOUS
<1>6. CutOff(s, x) \/ UnknownElement(x) \/ EnterMaster(x) \/ EndOfFile(s) \/ LeaveMaster(s, x) \/ ReadValue(s, x)
  BY <1>3, <1>4, <1>5
<1>7. s \in Seq(Octet)
  BY <1>2, AvailableIs
<1>8. e.n \in Nat /\ e.v \in Nat
  BY <1>3, <1>7, ReadVUIntType DEF Reads
<1>9. size.n \in Nat /\ size.v \in Nat
  <2>1. e.n + 1 \in Nat \ {0} /\ Len(s) \in Int /\ Len(s) <= Len(s)
    BY <1>7, <1>8
  <2>2. SubSeq(s, e.n + 1, Len(s)) \in Seq(Octet)
    BY <1>7, <2>1, PartOf
  <2> QED BY <1>4, <2>2, ReadDataSizeType DEF Reads
<1>10. x.octets \in Nat /\ x.size.v \in Nat /\ x.row = revTable(e.v)
  BY <1>5, <1>8, <1>9 DEF HeadOf
<1>11. x.row[1] \in Names
  BY <1>8, <1>10 DEF Names
<1>12. CASE CutOff(s, x)
  <2>1. SkipOrFail(Len(s)) /\ Len(s) \in Nat
    BY <1>7, <1>12 DEF CutOff
  <2> QED BY <1>1, <2>1, Skipping
<1>13. CASE UnknownElement(x)
  <2>1. SkipOrFail(1) /\ 1 \in Nat
    BY <1>13 DEF UnknownElement
  <2> QED BY <1>1, <2>1, Skipping
<1>14. CASE EnterMaster(x)
  BY <1>1, <1>10, <1>11, <1>14, Entering
<1>15. CASE EndOfFile(s)
  BY <1>1, <1>15, EndingFile
<1>16. CASE LeaveMaster(s, x)
  BY <1>1, <1>16, Leaving
<1>17. CASE ReadValue(s, x)
  BY <1>1, <1>7, <1>10, <1>17, Valuing
<1> QED BY <1>6, <1>12, <1>13, <1>14, <1>15, <1>16, <1>17

----------------------------------------------------------------------------
(* The frames of blocks *)

IsEntry(e) == DOMAIN e = {"block", "timecodes"} /\ IsSequence(e.block.data)
IsEntries(ss) == IsSequence(ss) /\ \A n \in DOMAIN ss : IsEntry(ss[n])

LEMMA CommonSet == ASSUME NEW B, \A f \in B : IsSequence(f) PROVE \E A : B \subseteq Seq(A)
<1>1. PICK A : A = UNION {{f[l] : l \in DOMAIN f} : f \in B}
  OBVIOUS
<1>2. ASSUME NEW f \in B PROVE f \in Seq(A)
  <2>1. PICK S : f \in Seq(S)
    BY DEF IsSequence
  <2>2. \A l \in DOMAIN f : f[l] \in A
    <3>1. {f[l] : l \in DOMAIN f} \in {{g[l] : l \in DOMAIN g} : g \in B}
      OBVIOUS
    <3> QED BY <1>1, <3>1, Zenon
  <2> QED BY <2>1, <2>2
<1> QED BY <1>2

LEMMA FramesOfIs ==
  ASSUME NEW e, IsEntry(e), NEW t
  PROVE  /\ IsSequence(FramesOf(e, t))
         /\ Len(FramesOf(e, t)) = IF e.block.track = t THEN Len(e.block.data) ELSE 0
<1>1. CASE e.block.track # t
  <2>1. FramesOf(e, t) = <<>>
    BY <1>1 DEF FramesOf
  <2>2. <<>> \in Seq({}) /\ Len(<<>>) = 0
    OBVIOUS
  <2> QED BY <1>1, <2>1, <2>2 DEF IsSequence
<1>2. CASE e.block.track = t
  <2>1. PICK d : d = e.block.data
    OBVIOUS
  <2>2. Len(d) \in Nat /\ DOMAIN d = 1 .. Len(d)
    BY <2>1, SequenceDomain DEF IsEntry
  <2>3. PICK n \in Nat : n = Len(d)
    BY <2>2
  <2> DEFINE frame(l) == [b |-> d[l], keyframe |-> e.block.keyframe,
                          timestamps |-> {c + e.block.timecode : c \in e.timecodes}]
  <2>4. FramesOf(e, t) = [l \in 1 .. n |-> frame(l)]
    BY <1>2, <2>1, <2>2, <2>3 DEF FramesOf
  <2> HIDE DEF frame
  <2>5. FramesOf(e, t) \in [1 .. n -> {frame(l) : l \in 1 .. n}]
    BY <2>4
  <2>6. IsSequence(FramesOf(e, t)) /\ Len(FramesOf(e, t)) = n
    BY <2>5, SequenceOf
  <2> QED BY <1>2, <2>1, <2>3, <2>6
<1> QED BY <1>1, <1>2

LEMMA NoEntries == ASSUME NEW t PROVE AllFramesOf(<<>>, t) = <<>>
<1>1. [n \in DOMAIN <<>> |-> FramesOf(<<>>[n], t)] = <<>>
  OBVIOUS
<1>2. FlattenSeq(<<>>) = <<>>
  <2>1. <<>> \in Seq(Seq({}))
    OBVIOUS
  <2>2. PICK f \in [0 .. 0 -> Seq({})] : Flattens(f, <<>>)
    BY <2>1, FlattenExists DEF Flattening
  <2>3. FlattenSeq(<<>>) = f[0]
    BY <2>1, <2>2, FlattenIs
  <2> QED BY <2>2, <2>3 DEF Flattens
<1> QED BY <1>1, <1>2 DEF AllFramesOf

LEMMA AllFramesAppend ==
  ASSUME NEW ss, IsEntries(ss), NEW e, IsEntry(e), NEW t
  PROVE  /\ IsSequence(AllFramesOf(ss, t))
         /\ AllFramesOf(Append(ss, e), t) = AllFramesOf(ss, t) \o FramesOf(e, t)
<1>1. PICK N \in Nat : N = Len(ss) /\ DOMAIN ss = 1 .. N
  BY SequenceDomain DEF IsEntries
<1>2. PICK q : q = [n \in 1 .. N |-> FramesOf(ss[n], t)]
  OBVIOUS
<1>3. PICK B : B = {q[n] : n \in 1 .. N} \cup {FramesOf(e, t)}
  OBVIOUS
<1>4. \A f \in B : IsSequence(f)
  BY <1>1, <1>2, <1>3, FramesOfIs DEF IsEntries
<1>5. PICK A : B \subseteq Seq(A)
  BY <1>4, CommonSet
<1>6. q \in Seq(Seq(A)) /\ FramesOf(e, t) \in Seq(A)
  <2>1. \A n \in 1 .. N : q[n] \in Seq(A)
    BY <1>3, <1>5
  <2> QED BY <1>2, <1>3, <1>5, <2>1
<1>7. AllFramesOf(ss, t) = FlattenSeq(q)
  BY <1>1, <1>2 DEF AllFramesOf
<1>8. FlattenSeq(q) \in Seq(A)
  BY <1>6, FlattenType
<1>9. FlattenSeq(Append(q, FramesOf(e, t))) = FlattenSeq(q) \o FramesOf(e, t)
  BY <1>6, FlattenAppend
<1>10. [n \in DOMAIN Append(ss, e) |-> FramesOf(Append(ss, e)[n], t)] = Append(q, FramesOf(e, t))
  <2>1. PICK S : ss \in Seq(S)
    BY DEF IsEntries, IsSequence
  <2>2. /\ DOMAIN Append(ss, e) = 1 .. N + 1 /\ \A n \in 1 .. N : Append(ss, e)[n] = ss[n]
        /\ Append(ss, e)[N + 1] = e
    BY <1>1, <2>1
  <2>3. Append(q, FramesOf(e, t)) = [n \in 1 .. N + 1 |-> IF n = N + 1 THEN FramesOf(e, t) ELSE q[n]]
    <3>1. Len(q) = N
      BY <1>2
    <3>2. \A f \in Seq(A) :
            Append(q, f) = [n \in 1 .. Len(q) + 1 |-> IF n = Len(q) + 1 THEN f ELSE q[n]]
      BY <1>6, AppendIs
    <3> QED BY <1>6, <3>1, <3>2
  <2>4. \A n \in 1 .. N + 1 : FramesOf(Append(ss, e)[n], t) = IF n = N + 1 THEN FramesOf(e, t) ELSE q[n]
    BY <1>2, <2>2
  <2> QED BY <2>2, <2>3, <2>4
<1>11. AllFramesOf(Append(ss, e), t) = FlattenSeq(Append(q, FramesOf(e, t)))
  BY <1>10 DEF AllFramesOf
<1> QED BY <1>7, <1>8, <1>9, <1>11 DEF IsSequence

\* Several blocks are a last one after the others.
LEMMA SplitLast ==
  ASSUME NEW ss, IsEntries(ss), ss # <<>>
  PROVE  \E p, e : /\ IsEntries(p) /\ IsEntry(e) /\ ss = Append(p, e)
                   /\ p = SubSeq(ss, 1, Len(ss) - 1) /\ e = Last(ss)
<1>1. PICK A : ss \in Seq(A)
  BY DEF IsEntries, IsSequence
<1>2. PICK N \in Nat : Len(ss) = N + 1
  <2>1. Len(ss) \in Nat /\ Len(ss) # 0
    BY <1>1
  <2>2. Len(ss) - 1 \in Nat /\ Len(ss) = (Len(ss) - 1) + 1
    BY <2>1
  <2> QED BY <2>2
<1>3. PICK p : p = SubSeq(ss, 1, N)
  OBVIOUS
<1>4. PICK e : e = ss[N + 1]
  OBVIOUS
<1>5. p \in Seq(A) /\ Len(p) = N /\ e \in A /\ \A n \in 1 .. N : p[n] = ss[n]
  BY <1>1, <1>2, <1>3, <1>4
<1>6. ss = Append(p, e)
  BY <1>1, <1>2, <1>4, <1>5
<1>7. IsEntry(e)
  <2>1. N + 1 \in DOMAIN ss
    BY <1>1, <1>2
  <2> QED BY <1>4, <2>1 DEF IsEntries
<1>8. IsEntries(p)
  <2>1. DOMAIN p = 1 .. N /\ 1 .. N \subseteq DOMAIN ss
    BY <1>1, <1>2, <1>5
  <2>2. IsSequence(p)
    BY <1>5 DEF IsSequence
  <2> QED BY <1>5, <2>1, <2>2 DEF IsEntries
<1>9. e = Last(ss) /\ Len(ss) - 1 = N
  BY <1>2, <1>4 DEF Last
<1> QED BY <1>3, <1>6, <1>7, <1>8, <1>9

LEMMA AppendLast ==
  ASSUME NEW p, IsEntries(p), NEW e, IsEntry(e)
  PROVE  /\ IsEntries(Append(p, e)) /\ Append(p, e) # <<>> /\ Last(Append(p, e)) = e
         /\ SubSeq(Append(p, e), 1, Len(Append(p, e)) - 1) = p
<1>1. PICK A : p \in Seq(A)
  BY DEF IsEntries, IsSequence
<1>2. PICK S : S = A \cup {e}
  OBVIOUS
<1>3. p \in Seq(S) /\ e \in S
  BY <1>1, <1>2
<1>4. PICK q : q = Append(p, e)
  OBVIOUS
<1>5. q \in Seq(S) /\ Len(q) = Len(p) + 1 /\ q[Len(p) + 1] = e /\ \A n \in 1 .. Len(p) : q[n] = p[n]
  BY <1>3, <1>4
<1>6. Last(q) = e /\ q # <<>>
  BY <1>3, <1>5 DEF Last
<1>7. SubSeq(q, 1, Len(q) - 1) = p
  BY <1>3, <1>5
<1>8. IsEntries(q)
  <2>1. DOMAIN q = 1 .. Len(p) + 1 /\ DOMAIN p = 1 .. Len(p) /\ Len(p) \in Nat
    BY <1>3, <1>5
  <2>2. \A n \in DOMAIN q : n \in DOMAIN p \/ n = Len(p) + 1
    BY <2>1
  <2>3. \A n \in DOMAIN q : IsEntry(q[n])
    BY <1>5, <2>1, <2>2 DEF IsEntries
  <2>4. IsSequence(q)
    BY <1>5 DEF IsSequence
  <2> QED BY <2>3, <2>4 DEF IsEntries
<1> QED BY <1>4, <1>6, <1>7, <1>8

\* That frames fit those of blocks, one and several.
FrameFits(g, f) == g.b = f.b /\ g.keyframe = f.keyframe /\ g.timestamp \in f.timestamps
Fits(got, frames) == Len(got) <= Len(frames) /\ \A i \in DOMAIN got : FrameFits(got[i], frames[i])

LEMMA Appended ==
  ASSUME NEW f, IsSequence(f), NEW g, IsSequence(g)
  PROVE  /\ IsSequence(f \o g) /\ Len(f \o g) = Len(f) + Len(g)
         /\ \A i \in 1 .. Len(f) : (f \o g)[i] = f[i]
         /\ \A i \in 1 .. Len(g) : (f \o g)[Len(f) + i] = g[i]
<1>1. PICK A : f \in Seq(A) /\ g \in Seq(A)
  <2>1. PICK B : B = {f, g}
    OBVIOUS
  <2>2. \A h \in B : IsSequence(h)
    BY <2>1
  <2>3. \E A : B \subseteq Seq(A)
    BY <2>2, CommonSet
  <2> QED BY <2>1, <2>3
<1>2. f \o g \in Seq(A)
  BY <1>1
<1>3. Len(f \o g) = Len(f) + Len(g) /\ \A i \in 1 .. Len(f) : (f \o g)[i] = f[i]
  BY <1>1
<1>4. \A i \in 1 .. Len(g) : (f \o g)[Len(f) + i] = g[i]
  BY <1>1
<1> QED BY <1>2, <1>3, <1>4 DEF IsSequence

LEMMA FitsMore ==
  ASSUME NEW got, IsSequence(got), NEW f, IsSequence(f), NEW g, IsSequence(g), Fits(got, f)
  PROVE  Fits(got, f \o g)
<1>1. Len(got) \in Nat /\ Len(f) \in Nat /\ Len(g) \in Nat /\ DOMAIN got = 1 .. Len(got)
  BY SequenceDomain
<1>2. \A i \in DOMAIN got : i \in 1 .. Len(f)
  BY <1>1 DEF Fits
<1>3. \A i \in DOMAIN got : (f \o g)[i] = f[i]
  BY <1>2, Appended
<1>4. Len(got) <= Len(f \o g)
  BY <1>1, Appended DEF Fits
<1> QED BY <1>3, <1>4 DEF Fits

LEMMA FitsNext ==
  ASSUME NEW got, IsSequence(got), NEW f, IsSequence(f), NEW g, IsSequence(g), Fits(got, f \o g),
         NEW k \in 0 .. Len(g) - 1, Len(got) = Len(f) + k, NEW frame, FrameFits(frame, g[k + 1])
  PROVE  Fits(Append(got, frame), f \o g) /\ IsSequence(Append(got, frame)) /\ Len(Append(got, frame)) = Len(got) + 1
<1>1. Len(got) \in Nat /\ Len(f) \in Nat /\ Len(g) \in Nat /\ DOMAIN got = 1 .. Len(got)
  BY SequenceDomain
<1>2. PICK A : got \in Seq(A)
  BY DEF IsSequence
<1>3. PICK S : S = A \cup {frame}
  OBVIOUS
<1>4. PICK q : q = Append(got, frame)
  OBVIOUS
<1>5. got \in Seq(S) /\ frame \in S
  BY <1>2, <1>3
<1>6. q \in Seq(S) /\ Len(q) = Len(got) + 1 /\ q[Len(got) + 1] = frame /\ \A i \in 1 .. Len(got) : q[i] = got[i]
  BY <1>4, <1>5
<1>7. PICK h : h = f \o g
  OBVIOUS
<1>8. h[Len(got) + 1] = g[k + 1]
  <2>1. k + 1 \in 1 .. Len(g) /\ Len(got) + 1 = Len(f) + (k + 1)
    BY <1>1
  <2>2. (f \o g)[Len(f) + (k + 1)] = g[k + 1]
    BY <2>1, Appended
  <2> QED BY <1>7, <2>1, <2>2
<1>9. Len(h) = Len(f) + Len(g)
  BY <1>7, Appended
<1>10. ASSUME NEW i \in DOMAIN q PROVE FrameFits(q[i], h[i])
  <2>1. i \in DOMAIN got \/ i = Len(got) + 1
    BY <1>1, <1>6
  <2>2. CASE i \in DOMAIN got
    <3>1. q[i] = got[i]
      BY <1>1, <1>6, <2>2
    <3>2. FrameFits(got[i], h[i])
      BY <1>7, <2>2 DEF Fits
    <3> QED BY <3>1, <3>2
  <2>3. CASE i = Len(got) + 1
    BY <1>6, <1>8, <2>3
  <2> QED BY <2>1, <2>2, <2>3
<1>11. Len(q) <= Len(h)
  BY <1>1, <1>6, <1>9
<1>12. IsSequence(q)
  BY <1>6 DEF IsSequence
<1> QED BY <1>4, <1>6, <1>7, <1>10, <1>11, <1>12 DEF Fits

\* A block of which more timecodes are known has the same frames.
Grown(e, c) == [e EXCEPT !.timecodes = @ \cup {c}]

LEMMA GrownIs ==
  ASSUME NEW e, IsEntry(e), NEW c
  PROVE  /\ IsEntry(Grown(e, c)) /\ Grown(e, c).block = e.block
         /\ Grown(e, c).timecodes = e.timecodes \cup {c}
  BY DEF IsEntry, Grown

LEMMA FrameOf ==
  ASSUME NEW e, IsEntry(e), NEW t, e.block.track = t, NEW l \in 1 .. Len(e.block.data)
  PROVE  FramesOf(e, t)[l] = [b |-> e.block.data[l], keyframe |-> e.block.keyframe,
                              timestamps |-> {c + e.block.timecode : c \in e.timecodes}]
<1>1. l \in DOMAIN e.block.data
  BY SequenceDomain DEF IsEntry
<1> QED BY <1>1 DEF FramesOf

LEMMA GrownFrames ==
  ASSUME NEW e, IsEntry(e), NEW c, NEW t, NEW l \in 1 .. Len(FramesOf(e, t)), NEW g, FrameFits(g, FramesOf(e, t)[l])
  PROVE  FrameFits(g, FramesOf(Grown(e, c), t)[l])
<1>1. e.block.track = t /\ l \in 1 .. Len(e.block.data)
  BY FramesOfIs
<1>2. PICK f : f = FramesOf(e, t)[l]
  OBVIOUS
<1>3. PICK h : h = FramesOf(Grown(e, c), t)[l]
  OBVIOUS
<1>4. /\ f.b = e.block.data[l] /\ f.keyframe = e.block.keyframe
      /\ f.timestamps = {d + e.block.timecode : d \in e.timecodes}
  <2>1. f = [b |-> e.block.data[l], keyframe |-> e.block.keyframe,
             timestamps |-> {d + e.block.timecode : d \in e.timecodes}]
    BY <1>1, <1>2, FrameOf
  <2> QED BY <2>1
<1>5. /\ h.b = e.block.data[l] /\ h.keyframe = e.block.keyframe
      /\ h.timestamps = {d + e.block.timecode : d \in e.timecodes \cup {c}}
  <2>1. PICK q : q = Grown(e, c)
    OBVIOUS
  <2>2. IsEntry(q) /\ q.block = e.block /\ q.timecodes = e.timecodes \cup {c}
    BY <2>1, GrownIs
  <2>3. h = [b |-> q.block.data[l], keyframe |-> q.block.keyframe,
             timestamps |-> {d + q.block.timecode : d \in q.timecodes}]
    BY <1>1, <1>3, <2>1, <2>2, FrameOf
  <2> QED BY <2>2, <2>3
<1>6. f.timestamps \subseteq h.timestamps
  BY <1>4, <1>5
<1> QED BY <1>2, <1>3, <1>4, <1>5, <1>6 DEF FrameFits

LEMMA FitsGrown ==
  ASSUME NEW got, IsSequence(got), NEW f, IsSequence(f), NEW e, IsEntry(e), NEW c, NEW t,
         Fits(got, f \o FramesOf(e, t))
  PROVE  /\ Fits(got, f \o FramesOf(Grown(e, c), t))
         /\ Len(f \o FramesOf(Grown(e, c), t)) = Len(f \o FramesOf(e, t))
<1>1. PICK g : g = FramesOf(e, t)
  OBVIOUS
<1>2. PICK h : h = FramesOf(Grown(e, c), t)
  OBVIOUS
<1>3. IsSequence(g) /\ IsSequence(h) /\ Len(h) = Len(g)
  BY <1>1, <1>2, FramesOfIs, GrownIs
<1>4. Len(got) \in Nat /\ Len(f) \in Nat /\ Len(g) \in Nat /\ DOMAIN got = 1 .. Len(got)
  BY <1>3, SequenceDomain
<1>5. Len(f \o h) = Len(f \o g) /\ Len(f \o g) = Len(f) + Len(g)
  BY <1>3, Appended
<1>6. ASSUME NEW i \in DOMAIN got PROVE FrameFits(got[i], (f \o h)[i])
  <2>1. FrameFits(got[i], (f \o g)[i])
    BY <1>1 DEF Fits
  <2>2. i \in 1 .. Len(f) \/ \E l \in 1 .. Len(g) : i = Len(f) + l
    <3>1. i \in 1 .. Len(f) + Len(g)
      BY <1>1, <1>4, <1>5 DEF Fits
    <3>2. CASE i > Len(f)
      <4>1. i - Len(f) \in 1 .. Len(g) /\ i = Len(f) + (i - Len(f))
        BY <1>4, <3>1, <3>2
      <4> QED BY <4>1
    <3> QED BY <1>4, <3>1, <3>2
  <2>3. CASE i \in 1 .. Len(f)
    BY <1>3, <2>1, <2>3, Appended
  <2>4. ASSUME NEW l \in 1 .. Len(g), i = Len(f) + l PROVE FrameFits(got[i], (f \o h)[i])
    <3>1. (f \o g)[i] = g[l] /\ (f \o h)[i] = h[l]
      BY <1>3, <2>4, Appended
    <3> QED BY <1>1, <1>2, <2>1, <2>4, <3>1, GrownFrames
  <2> QED BY <2>2, <2>3, <2>4
<1> QED BY <1>1, <1>2, <1>5, <1>6 DEF Fits

----------------------------------------------------------------------------
(* The inductive invariant of reading *)

ReaderTypes == file \in Seq(Octet) /\ CursorTypes /\ ParserTypes /\ DemuxTypes /\ IsEntries(sent)

\* The blocks that the second goroutine took: all but one that is being sent.
Taken == IF parser.pc = "send" THEN SubSeq(sent, 1, Len(sent) - 1) ELSE sent

\* The block that is being sent is the last one noted.
SendingInv ==
  parser.pc = "send" => /\ sent # <<>> /\ Last(sent).block = parser.block
                        /\ parser.timecode \in Last(sent).timecodes

\* Nothing is sent before there are readers.
HeaderInv ==
  parser.pc \in {"none", "header", "refused"} => sent = <<>> /\ demux.pc = "receive" /\ DOMAIN reader = {}

\* The timecode of the cluster is one of those noted with the last block taken.
TimecodeInv == Taken # <<>> => parser.timecode \in Last(Taken).timecodes

\* When the second goroutine ends nothing is read any more.
EndingInv == demux.pc = "ended" => parser.pc = "ended"

\* The second goroutine makes frames of the last block it took; the one in hand
\* is the last it made.
Busy == demux.pc \in {"make", "hand"}
BusyInv ==
  Busy => /\ Taken # <<>> /\ demux.block = Last(Taken).block
          /\ demux.made \in 0 .. Len(demux.block.data)
          /\ demux.pc = "hand" =>
               /\ demux.made > 0
               /\ demux.frame.b = demux.block.data[demux.made] /\ demux.frame.keyframe = demux.block.keyframe
               /\ \E c \in Last(Taken).timecodes : demux.frame.timestamp = c + demux.block.timecode

\* How many frames of that block the reader of track t has not yet been handed.
Handed == IF demux.pc = "hand" THEN demux.made - 1 ELSE demux.made
Pending(t) == IF Busy /\ demux.block.track = t THEN Len(demux.block.data) - Handed ELSE 0

\* A reader got the frames of the blocks taken, but those pending.
GotInv(t) ==
  /\ DOMAIN reader[t] = {"state", "got"} /\ IsSequence(reader[t].got)
  /\ Fits(reader[t].got, AllFramesOf(Taken, t))
  /\ reader[t].state = "closed" \/ Len(reader[t].got) + Pending(t) = Len(AllFramesOf(Taken, t))
  /\ reader[t].state = "eof" => demux.pc = "ended"
ReadersInv == \A t \in DOMAIN reader : GotInv(t)

FlowInv == SendingInv /\ HeaderInv /\ TimecodeInv /\ EndingInv /\ BusyInv
ReadingInv == ReaderTypes /\ FlowInv /\ ReadersInv

LEMMA InitReading == ASSUME BlockReaderInit PROVE ReadingInv
<1>1. <<>> \in Seq(Octet) /\ <<>> \in Seq(Calls) /\ <<>> \in Seq({}) /\ DOMAIN <<>> = {}
  OBVIOUS
<1>2. IsSequence(<<>>) /\ IsEntries(<<>>)
  BY <1>1 DEF IsSequence, IsEntries
<1>3. IsBlock(NoBlock)
  BY <1>2 DEF IsBlock, NoBlock
<1>4. ReaderTypes
  BY <1>1, <1>2, <1>3 DEF BlockReaderInit, ReaderTypes, CursorTypes, ParserTypes, DemuxTypes, NewParser, NewDemux
<1>5. FlowInv
  BY <1>1 DEF BlockReaderInit, FlowInv, SendingInv, HeaderInv, TimecodeInv, EndingInv, BusyInv, Busy, Taken, NewParser, NewDemux
<1>6. ReadersInv
  BY <1>1 DEF BlockReaderInit, ReadersInv
<1> QED BY <1>4, <1>5, <1>6 DEF ReadingInv

LEMMA OpenReading ==
  ASSUME ReadingInv, NEW octets, NEW opt, NewSimpleBlockReader(octets, opt) PROVE ReadingInv'
<1>1. /\ parser.pc = "none" /\ octets \in Seq(Octet) /\ file' = octets
      /\ parser' = [parser EXCEPT !.pc = "header"] /\ UNCHANGED <<at, stack, demux, reader, sent>>
  BY DEF NewSimpleBlockReader, Octet
<1>2. DOMAIN parser' = DOMAIN parser /\ parser'.block = parser.block /\ parser'.pc = "header"
  BY <1>1 DEF ReadingInv, ReaderTypes, ParserTypes
<1>3. ReaderTypes'
  BY <1>1, <1>2 DEF ReadingInv, ReaderTypes, ParserTypes, CursorTypes, DemuxTypes, IsBlock
<1>4. sent = <<>> /\ demux.pc = "receive" /\ DOMAIN reader = {}
  BY <1>1 DEF ReadingInv, FlowInv, HeaderInv
<1>5. FlowInv'
  BY <1>1, <1>2, <1>4 DEF FlowInv, SendingInv, HeaderInv, TimecodeInv, EndingInv, BusyInv, Busy, Taken
<1>6. ReadersInv'
  BY <1>1, <1>4 DEF ReadersInv
<1> QED BY <1>3, <1>5, <1>6 DEF ReadingInv

\* Unmarshal while it reads the header.
LEMMA HeaderStep ==
  ASSUME ReadingInv, Stepped, parser.pc = "header", Note PROVE ReadingInv'
<1>1. sent = <<>> /\ demux.pc = "receive" /\ DOMAIN reader = {}
  BY DEF ReadingInv, FlowInv, HeaderInv
<1>2. parser'.pc \in {"header", "refused", "cluster"}
  BY DEF Stepped, Step
<1>3. sent' = <<>>
  BY <1>1, <1>2 DEF Note
<1>4. IsEntries(<<>>)
  BY <1>1 DEF ReadingInv, ReaderTypes
<1>5. ReaderTypes'
  BY <1>3, <1>4 DEF Stepped, ReadingInv, ReaderTypes, DemuxTypes
<1>6. HeaderInv'
  BY <1>1, <1>3 DEF HeaderInv, Stepped, Step
<1>7. FlowInv'
  BY <1>1, <1>2, <1>3, <1>6 DEF FlowInv, SendingInv, TimecodeInv, EndingInv, BusyInv, Busy, Taken, Stepped
<1>8. ASSUME NEW t \in DOMAIN reader' PROVE GotInv(t)'
  <2>1. reader' = NewReaders(parser.tracks)
    BY <1>1, <1>8 DEF Stepped, Step
  <2>2. reader'[t] = [state |-> "reading", got |-> <<>>]
    BY <1>8, <2>1 DEF NewReaders
  <2>3. Taken' = <<>> /\ demux'.pc = "receive"
    BY <1>1, <1>2, <1>3 DEF Taken, Stepped
  <2>4. AllFramesOf(Taken', t) = <<>>
    BY <2>3, NoEntries
  <2>5. Pending(t)' = 0
    BY <2>3 DEF Pending, Busy
  <2>6. Len(<<>>) = 0 /\ <<>> \in Seq({}) /\ DOMAIN <<>> = {}
    OBVIOUS
  <2>7. Fits(<<>>, <<>>) /\ IsSequence(<<>>)
    BY <2>6 DEF Fits, IsSequence
  <2> QED BY <2>2, <2>4, <2>5, <2>6, <2>7 DEF GotInv
<1>9. ReadersInv'
  BY <1>8 DEF ReadersInv
<1> QED BY <1>5, <1>7, <1>9 DEF ReadingInv

\* The blocks taken, when some were, are a last one after the others; if that one
\* was taken with more timecodes, nothing else about them is different.
SentWith(c) == [sent EXCEPT ![Len(sent)].timecodes = @ \cup {c}]

LEMMA NotedAgain ==
  ASSUME ReadingInv, sent # <<>>, NEW c
  PROVE  \E p, e : /\ IsEntries(p) /\ IsEntry(e) /\ sent = Append(p, e) /\ e = Last(sent)
                   /\ SentWith(c) = Append(p, Grown(e, c))
<1>0. PICK r : r = SentWith(c)
  OBVIOUS
<1>1. IsEntries(sent)
  BY DEF ReadingInv, ReaderTypes
<1>2. PICK p, e : IsEntries(p) /\ IsEntry(e) /\ sent = Append(p, e) /\ e = Last(sent)
  BY <1>1, SplitLast
<1>3. PICK A : p \in Seq(A)
  BY <1>2 DEF IsEntries, IsSequence
<1>4. PICK g : g = Grown(e, c)
  OBVIOUS
<1>5. PICK S : S = A \cup {e, g}
  OBVIOUS
<1>6. p \in Seq(S) /\ e \in S /\ g \in S
  BY <1>3, <1>5
<1>7. sent \in Seq(S) /\ Len(sent) = Len(p) + 1 /\ sent[Len(sent)] = e
  BY <1>2, <1>6
<1>8. r = [sent EXCEPT ![Len(sent)] = g]
  BY <1>0, <1>4, <1>7 DEF Grown, SentWith
<1>9. r = Append(p, g)
  <2>1. r = [n \in 1 .. Len(p) + 1 |-> IF n = Len(p) + 1 THEN g ELSE p[n]]
    <3>1. PICK N \in Nat : N = Len(p)
      BY <1>6
    <3>2. \A n \in 1 .. N : sent[n] = p[n]
      BY <1>2, <1>6, <3>1
    <3>3. DOMAIN sent = 1 .. N + 1 /\ Len(sent) = N + 1
      BY <1>7, <3>1
    <3>4. DOMAIN r = 1 .. N + 1 /\ r[N + 1] = g /\ \A n \in 1 .. N : r[n] = p[n]
      BY <1>8, <3>2, <3>3
    <3>5. \A n \in 1 .. N + 1 : r[n] = IF n = N + 1 THEN g ELSE p[n]
      <4>1. \A n \in 1 .. N + 1 : n = N + 1 \/ (n \in 1 .. N /\ n # N + 1)
        OBVIOUS
      <4> QED BY <3>4, <4>1, Zenon
    <3>6. r = [n \in 1 .. N + 1 |-> r[n]]
      BY <1>8, <3>3
    <3> QED BY <3>1, <3>5, <3>6
  <2>2. Append(p, g) = [n \in 1 .. Len(p) + 1 |-> IF n = Len(p) + 1 THEN g ELSE p[n]]
    BY <1>6, AppendIs
  <2> QED BY <2>1, <2>2
<1> QED BY <1>0, <1>2, <1>4, <1>9

\* Unmarshal goes on in the clusters, or ends.
LEMMA GoingOn ==
  ASSUME ReadingInv, Stepped, parser.pc = "cluster", parser'.pc \in {"cluster", "ended", "crashed"}, Note
  PROVE  ReadingInv'
<1>1. reader' = reader /\ demux' = demux /\ file' = file
  BY DEF Stepped, Step
<1>2. Taken = sent /\ Taken' = sent'
  BY DEF Taken
<1>3. sent' = IF sent = <<>> THEN sent ELSE [sent EXCEPT ![Len(sent)].timecodes = @ \cup {parser'.timecode}]
  BY DEF Note
<1>4. demux.pc # "ended"
  BY DEF ReadingInv, FlowInv, EndingInv
<1>5. CASE sent = <<>>
  <2>1. sent' = sent
    BY <1>3, <1>5
  <2>2. ReaderTypes'
    BY <1>1, <2>1 DEF Stepped, ReadingInv, ReaderTypes, DemuxTypes, IsEntries
  <2>3. FlowInv'
    BY <1>1, <1>2, <1>4, <1>5, <2>1
       DEF ReadingInv, FlowInv, SendingInv, HeaderInv, TimecodeInv, EndingInv, BusyInv, Busy
  <2>4. ReadersInv'
    BY <1>1, <1>2, <2>1 DEF ReadingInv, ReadersInv, GotInv, Pending, Busy, Handed
  <2> QED BY <2>2, <2>3, <2>4 DEF ReadingInv
<1>6. CASE sent # <<>>
  <2>1. PICK c : c = parser'.timecode
    OBVIOUS
  <2>2. PICK p, e : /\ IsEntries(p) /\ IsEntry(e) /\ sent = Append(p, e) /\ e = Last(sent)
                    /\ sent' = Append(p, Grown(e, c))
    <3>1. sent' = SentWith(c)
      BY <1>3, <1>6, <2>1 DEF SentWith
    <3> QED BY <1>6, <3>1, NotedAgain
  <2>3. sent' = Append(p, Grown(e, c))
    BY <2>2
  <2>4. IsEntries(sent') /\ sent' # <<>> /\ Last(sent') = Grown(e, c)
    <3>1. IsEntry(Grown(e, c))
      BY <2>2, GrownIs
    <3>2. PICK g : g = Grown(e, c)
      OBVIOUS
    <3>3. IsEntries(Append(p, g)) /\ Append(p, g) # <<>> /\ Last(Append(p, g)) = g
      BY <2>2, <3>1, <3>2, AppendLast
    <3> QED BY <2>3, <3>2, <3>3
  <2>5. ReaderTypes'
    BY <1>1, <2>4 DEF Stepped, ReadingInv, ReaderTypes, DemuxTypes
  <2>6. Grown(e, c).block = e.block /\ Grown(e, c).timecodes = e.timecodes \cup {c}
    BY <2>2, GrownIs
  <2>7. BusyInv'
    <3>1. Busy' => /\ demux.block = e.block /\ demux.made \in 0 .. Len(demux.block.data)
                   /\ demux.pc = "hand" =>
                        /\ demux.made > 0
                        /\ demux.frame.b = demux.block.data[demux.made] /\ demux.frame.keyframe = demux.block.keyframe
                        /\ \E d \in e.timecodes : demux.frame.timestamp = d + demux.block.timecode
      BY <1>1, <1>2, <2>2 DEF ReadingInv, FlowInv, BusyInv, Busy
    <3> QED BY <1>1, <1>2, <2>4, <2>6, <3>1 DEF BusyInv, Busy
  <2>8. FlowInv'
    <3>1. TimecodeInv'
      BY <1>2, <2>1, <2>4, <2>6 DEF TimecodeInv
    <3>2. SendingInv' /\ HeaderInv' /\ EndingInv'
      BY <1>1, <1>4 DEF SendingInv, HeaderInv, EndingInv
    <3> QED BY <2>7, <3>1, <3>2 DEF FlowInv
  <2>9. ASSUME NEW t \in DOMAIN reader PROVE GotInv(t)'
    <3>1. GotInv(t)
      BY DEF ReadingInv, ReadersInv
    <3>2. /\ IsSequence(AllFramesOf(p, t))
          /\ AllFramesOf(Taken, t) = AllFramesOf(p, t) \o FramesOf(e, t)
          /\ AllFramesOf(Taken', t) = AllFramesOf(p, t) \o FramesOf(Grown(e, c), t)
      <4>1. IsSequence(AllFramesOf(p, t)) /\ AllFramesOf(Append(p, e), t) = AllFramesOf(p, t) \o FramesOf(e, t)
        BY <2>2, AllFramesAppend
      <4>2. IsEntry(Grown(e, c))
        BY <2>2, GrownIs
      <4>3. AllFramesOf(Append(p, Grown(e, c)), t) = AllFramesOf(p, t) \o FramesOf(Grown(e, c), t)
        BY <2>2, <4>2, AllFramesAppend
      <4>4. Taken = Append(p, e) /\ Taken' = Append(p, Grown(e, c))
        BY <1>2, <2>2
      <4> QED BY <4>1, <4>3, <4>4
    <3>3. PICK got : got = reader[t].got
      OBVIOUS
    <3>4. IsSequence(got) /\ Fits(got, AllFramesOf(Taken, t))
      BY <3>1, <3>3 DEF GotInv
    <3>5. Fits(got, AllFramesOf(Taken', t)) /\ Len(AllFramesOf(Taken', t)) = Len(AllFramesOf(Taken, t))
      BY <2>2, <3>2, <3>4, FitsGrown
    <3>6. Pending(t)' = Pending(t)
      BY <1>1 DEF Pending, Busy, Handed
    <3> QED BY <1>1, <3>1, <3>3, <3>5, <3>6 DEF GotInv
  <2>10. ReadersInv'
    BY <1>1, <2>9 DEF ReadersInv
  <2> QED BY <2>5, <2>8, <2>10 DEF ReadingInv
<1> QED BY <1>5, <1>6

\* Unmarshal gives a block.
LEMMA Giving ==
  ASSUME ReadingInv, Stepped, parser.pc = "cluster", parser'.pc = "send", Note PROVE ReadingInv'
<1>1. reader' = reader /\ demux' = demux /\ file' = file /\ parser'.timecode = parser.timecode
  BY DEF Stepped, Step
<1>2. PICK e : e = [block |-> parser'.block, timecodes |-> {parser'.timecode}]
  OBVIOUS
<1>3. IsEntry(e)
  BY <1>2 DEF IsEntry, Stepped, ParserTypes, IsBlock
<1>4. sent' = Append(sent, e)
  BY <1>2 DEF Note
<1>5. IsEntries(sent)
  BY DEF ReadingInv, ReaderTypes
<1>6. IsEntries(sent') /\ sent' # <<>> /\ Last(sent') = e /\ SubSeq(sent', 1, Len(sent') - 1) = sent
  BY <1>3, <1>4, <1>5, AppendLast
<1>7. Taken = sent /\ Taken' = sent
  BY <1>6 DEF Taken
<1>8. ReaderTypes'
  BY <1>1, <1>6 DEF Stepped, ReadingInv, ReaderTypes, DemuxTypes
<1>9. SendingInv'
  BY <1>2, <1>6 DEF SendingInv
<1>10. HeaderInv' /\ EndingInv'
  BY <1>1 DEF HeaderInv, EndingInv, ReadingInv, FlowInv
<1>11. TimecodeInv' /\ BusyInv'
  BY <1>1, <1>7 DEF ReadingInv, FlowInv, TimecodeInv, BusyInv, Busy
<1>12. ReadersInv'
  BY <1>1, <1>7 DEF ReadingInv, ReadersInv, GotInv, Pending, Busy, Handed
<1> QED BY <1>8, <1>9, <1>10, <1>11, <1>12 DEF ReadingInv, FlowInv

LEMMA UnmarshalReading == ASSUME ReadingInv, Unmarshal PROVE ReadingInv'
<1>1. Stepped
  BY UnmarshalSteps DEF ReadingInv, ReaderTypes
<1>2. Note
  BY DEF Unmarshal
<1>3. CASE parser.pc = "header"
  BY <1>1, <1>2, <1>3, HeaderStep
<1>4. CASE parser.pc = "cluster" /\ parser'.pc \in {"cluster", "ended", "crashed"}
  BY <1>1, <1>2, <1>4, GoingOn
<1>5. CASE parser.pc = "cluster" /\ parser'.pc = "send"
  BY <1>1, <1>2, <1>5, Giving
<1> QED BY <1>1, <1>3, <1>4, <1>5 DEF Stepped, Step

LEMMA Receiving == ASSUME ReadingInv, ReceiveBlock PROVE ReadingInv'
<1>1. /\ parser.pc = "send" /\ demux.pc = "receive" /\ parser' = [parser EXCEPT !.pc = "cluster"]
      /\ demux' = [demux EXCEPT !.pc = "make", !.block = parser.block, !.made = 0]
      /\ UNCHANGED <<file, option, at, stack, reader, sent>>
  BY DEF ReceiveBlock
<1>2. /\ DOMAIN parser' = DOMAIN parser /\ parser'.pc = "cluster" /\ parser'.block = parser.block
      /\ parser'.timecode = parser.timecode
  BY <1>1 DEF ReadingInv, ReaderTypes, ParserTypes
<1>3. DOMAIN demux' = DOMAIN demux /\ demux'.pc = "make" /\ demux'.block = parser.block /\ demux'.made = 0
  BY <1>1 DEF ReadingInv, ReaderTypes, DemuxTypes
<1>4. ReaderTypes'
  BY <1>1, <1>2, <1>3 DEF ReadingInv, ReaderTypes, ParserTypes, CursorTypes, DemuxTypes, IsBlock, IsEntries
<1>5. sent # <<>> /\ Last(sent).block = parser.block /\ parser.timecode \in Last(sent).timecodes
  BY <1>1 DEF ReadingInv, FlowInv, SendingInv
<1>6. PICK p, e : /\ IsEntries(p) /\ IsEntry(e) /\ sent = Append(p, e)
                  /\ p = SubSeq(sent, 1, Len(sent) - 1) /\ e = Last(sent)
  BY <1>5, SplitLast DEF ReadingInv, ReaderTypes
<1>7. Taken = p /\ Taken' = sent
  BY <1>1, <1>2, <1>6 DEF Taken
<1>8. Len(e.block.data) \in Nat
  BY <1>6, SequenceDomain DEF IsEntry
<1>9. FlowInv'
  <2>1. SendingInv' /\ HeaderInv' /\ EndingInv'
    BY <1>2, <1>3 DEF SendingInv, HeaderInv, EndingInv
  <2>2. TimecodeInv'
    BY <1>1, <1>2, <1>5, <1>7 DEF TimecodeInv
  <2>3. BusyInv'
    BY <1>1, <1>3, <1>5, <1>6, <1>7, <1>8 DEF BusyInv, Busy
  <2> QED BY <2>1, <2>2, <2>3 DEF FlowInv
<1>10. ASSUME NEW t \in DOMAIN reader PROVE GotInv(t)'
  <2>1. GotInv(t)
    BY DEF ReadingInv, ReadersInv
  <2>2. PICK got : got = reader[t].got
    OBVIOUS
  <2>3. IsSequence(got) /\ Fits(got, AllFramesOf(p, t)) /\ Len(got) \in Nat
    BY <1>7, <2>1, <2>2, SequenceDomain DEF GotInv
  <2>4. /\ IsSequence(AllFramesOf(p, t)) /\ IsSequence(FramesOf(e, t))
        /\ AllFramesOf(Taken', t) = AllFramesOf(p, t) \o FramesOf(e, t)
    <3>1. IsSequence(AllFramesOf(p, t)) /\ AllFramesOf(Append(p, e), t) = AllFramesOf(p, t) \o FramesOf(e, t)
      BY <1>6, AllFramesAppend
    <3>2. IsSequence(FramesOf(e, t))
      BY <1>6, FramesOfIs
    <3>3. Taken' = Append(p, e)
      BY <1>6, <1>7
    <3> QED BY <3>1, <3>2, <3>3
  <2>5. Fits(got, AllFramesOf(Taken', t))
    BY <2>3, <2>4, FitsMore
  <2>6. Len(AllFramesOf(Taken', t)) = Len(AllFramesOf(p, t)) + Len(FramesOf(e, t))
    BY <2>4, Appended
  <2>7. Len(FramesOf(e, t)) = IF e.block.track = t THEN Len(e.block.data) ELSE 0
    BY <1>6, FramesOfIs
  <2>8. Pending(t) = 0
    BY <1>1 DEF Pending, Busy
  <2>9. Pending(t)' = Len(FramesOf(e, t))
    BY <1>3, <1>5, <1>6, <1>8, <2>7 DEF Pending, Busy, Handed
  <2>10. reader[t].state = "closed" \/ Len(got) + Pending(t)' = Len(AllFramesOf(Taken', t))
    <3>1. reader[t].state = "closed" \/ Len(got) + 0 = Len(AllFramesOf(p, t))
      BY <1>7, <2>1, <2>2, <2>8 DEF GotInv
    <3> QED BY <2>3, <2>6, <2>9, <3>1
  <2>11. reader[t].state # "eof"
    BY <1>1, <2>1 DEF GotInv
  <2> QED BY <1>1, <2>1, <2>2, <2>3, <2>5, <2>10, <2>11 DEF GotInv
<1>11. ReadersInv'
  BY <1>1, <1>10 DEF ReadersInv
<1> QED BY <1>4, <1>9, <1>11 DEF ReadingInv

\* What the second goroutine does to its own state only keeps the readers as they
\* are, if no frame is pending that was not.
LEMMA ReadersStay ==
  ASSUME ReadingInv, reader' = reader, Taken' = Taken, demux.pc # "ended",
         \A t \in DOMAIN reader : Pending(t)' = Pending(t) \/ reader[t].state = "closed"
  PROVE  ReadersInv'
<1>1. ASSUME NEW t \in DOMAIN reader PROVE GotInv(t)'
  BY DEF ReadingInv, ReadersInv, GotInv
<1> QED BY <1>1 DEF ReadersInv

LEMMA Making == ASSUME ReadingInv, MakeFrame PROVE ReadingInv'
<1>1. demux.pc = "make" /\ UNCHANGED <<file, option, at, stack, parser, reader, sent>>
  BY DEF MakeFrame
<1>2. Taken' = Taken
  BY <1>1 DEF Taken
<1>3. /\ Taken # <<>> /\ demux.block = Last(Taken).block /\ demux.made \in 0 .. Len(demux.block.data)
      /\ parser.timecode \in Last(Taken).timecodes
  BY <1>1 DEF ReadingInv, FlowInv, BusyInv, Busy, TimecodeInv
<1>4. Len(demux.block.data) \in Nat
  <2>1. IsEntries(Taken)
    BY SplitLast DEF Taken, ReadingInv, ReaderTypes, FlowInv, SendingInv
  <2>2. IsEntry(Last(Taken))
    BY <1>3, <2>1, SplitLast
  <2> QED BY <1>3, <2>2, SequenceDomain DEF IsEntry
<1>5. CASE demux.made = Len(demux.block.data)
  <2>1. demux' = [demux EXCEPT !.pc = "receive"]
    BY <1>5 DEF MakeFrame
  <2>2. DOMAIN demux' = DOMAIN demux /\ demux'.pc = "receive"
    BY <2>1 DEF ReadingInv, ReaderTypes, DemuxTypes
  <2>3. ReaderTypes'
    BY <1>1, <2>2 DEF ReadingInv, ReaderTypes, ParserTypes, CursorTypes, DemuxTypes, IsBlock, IsEntries
  <2>4. FlowInv'
    BY <1>1, <1>2, <2>2
       DEF ReadingInv, FlowInv, SendingInv, HeaderInv, TimecodeInv, EndingInv, BusyInv, Busy
  <2>5. \A t \in DOMAIN reader : Pending(t)' = Pending(t)
    BY <1>1, <1>4, <1>5, <2>2 DEF Pending, Busy, Handed
  <2> QED BY <1>1, <1>2, <2>3, <2>4, <2>5, ReadersStay DEF ReadingInv
<1>6. CASE demux.made # Len(demux.block.data)
  <2>1. demux' = [demux EXCEPT !.pc = "hand", !.made = @ + 1,
                               !.frame = [keyframe |-> demux.block.keyframe,
                                          timestamp |-> parser.timecode + demux.block.timecode,
                                          b |-> demux.block.data[demux.made + 1]]]
    BY <1>6 DEF MakeFrame
  <2>2. /\ DOMAIN demux' = DOMAIN demux /\ demux'.pc = "hand" /\ demux'.block = demux.block
        /\ demux'.made = demux.made + 1 /\ demux'.frame.b = demux.block.data[demux.made + 1]
        /\ demux'.frame.keyframe = demux.block.keyframe
        /\ demux'.frame.timestamp = parser.timecode + demux.block.timecode
    BY <2>1 DEF ReadingInv, ReaderTypes, DemuxTypes
  <2>3. ReaderTypes'
    BY <1>1, <2>2 DEF ReadingInv, ReaderTypes, ParserTypes, CursorTypes, DemuxTypes, IsBlock, IsEntries
  <2>4. demux'.made \in 0 .. Len(demux.block.data) /\ demux'.made > 0 /\ demux'.made - 1 = demux.made
    BY <1>3, <1>4, <1>6, <2>2
  <2>5. BusyInv'
    BY <1>2, <1>3, <2>2, <2>4 DEF BusyInv, Busy
  <2>6. SendingInv' /\ HeaderInv' /\ TimecodeInv' /\ EndingInv'
    BY <1>1, <1>2, <2>2 DEF ReadingInv, FlowInv, SendingInv, HeaderInv, TimecodeInv, EndingInv
  <2>7. \A t \in DOMAIN reader : Pending(t)' = Pending(t)
    BY <1>1, <2>2, <2>4 DEF Pending, Busy, Handed
  <2> QED BY <1>1, <1>2, <2>3, <2>5, <2>6, <2>7, ReadersStay DEF ReadingInv, FlowInv
<1> QED BY <1>5, <1>6

\* A frame was handed on: it is made of the next block, or the reader has it.
LEMMA Handing == ASSUME ReadingInv, HandFrame PROVE ReadingInv'
<1>1. PICK u : u = demux.block.track
  OBVIOUS
<1>2. /\ demux.pc = "hand" /\ reader[u].state = "reading"
      /\ reader' = [reader EXCEPT ![u].got = Append(@, demux.frame)]
      /\ demux' = [demux EXCEPT !.pc = "make"]
      /\ UNCHANGED <<file, option, at, stack, parser, sent>>
  BY <1>1 DEF HandFrame
<1>3. DOMAIN demux' = DOMAIN demux /\ demux'.pc = "make" /\ demux'.block = demux.block /\ demux'.made = demux.made
  BY <1>2 DEF ReadingInv, ReaderTypes, DemuxTypes
<1>4. Taken' = Taken
  BY <1>2 DEF Taken
<1>5. ReaderTypes'
  BY <1>2, <1>3 DEF ReadingInv, ReaderTypes, ParserTypes, CursorTypes, DemuxTypes, IsBlock, IsEntries
<1>6. DOMAIN reader' = DOMAIN reader
  BY <1>2
<1>7. FlowInv'
  BY <1>2, <1>3, <1>4, <1>6
     DEF ReadingInv, FlowInv, SendingInv, HeaderInv, TimecodeInv, EndingInv, BusyInv, Busy
<1>8. /\ Taken # <<>> /\ demux.block = Last(Taken).block
      /\ demux.made \in 0 .. Len(demux.block.data) /\ demux.made > 0
      /\ demux.frame.b = demux.block.data[demux.made] /\ demux.frame.keyframe = demux.block.keyframe
      /\ \E c \in Last(Taken).timecodes : demux.frame.timestamp = c + demux.block.timecode
  BY <1>2 DEF ReadingInv, FlowInv, BusyInv, Busy
<1>9. IsEntries(Taken)
  BY SplitLast DEF Taken, ReadingInv, ReaderTypes, FlowInv, SendingInv
<1>10. PICK p, e : IsEntries(p) /\ IsEntry(e) /\ Taken = Append(p, e) /\ e = Last(Taken)
  BY <1>8, <1>9, SplitLast
<1>11. Len(e.block.data) \in Nat
  BY <1>10, SequenceDomain DEF IsEntry
<1>12. PICK k : k = demux.made - 1
  OBVIOUS
<1>13. k \in 0 .. Len(e.block.data) - 1 /\ k + 1 = demux.made /\ demux.made \in 1 .. Len(e.block.data)
  BY <1>8, <1>10, <1>11, <1>12
<1>14. ASSUME NEW t \in DOMAIN reader, t # u PROVE GotInv(t)'
  <2>1. reader'[t] = reader[t]
    BY <1>2, <1>14
  <2>2. Pending(t) = 0 /\ Pending(t)' = 0
    BY <1>1, <1>3, <1>14 DEF Pending
  <2> QED BY <1>2, <1>4, <1>14, <2>1, <2>2 DEF ReadingInv, ReadersInv, GotInv
<1>15. ASSUME u \in DOMAIN reader PROVE GotInv(u)'
  <2>1. GotInv(u)
    BY <1>15 DEF ReadingInv, ReadersInv
  <2>2. PICK got : got = reader[u].got
    OBVIOUS
  <2>3. reader'[u] = [reader[u] EXCEPT !.got = Append(@, demux.frame)]
    BY <1>2, <1>15
  <2>4. /\ DOMAIN reader'[u] = {"state", "got"} /\ reader'[u].state = "reading"
        /\ reader'[u].got = Append(got, demux.frame)
    BY <1>2, <2>1, <2>2, <2>3 DEF GotInv
  <2>5. PICK f, g : f = AllFramesOf(p, u) /\ g = FramesOf(e, u)
    OBVIOUS
  <2>6. IsSequence(f) /\ IsSequence(g) /\ AllFramesOf(Taken, u) = f \o g
    <3>1. IsSequence(AllFramesOf(p, u)) /\ AllFramesOf(Append(p, e), u) = AllFramesOf(p, u) \o FramesOf(e, u)
      BY <1>10, AllFramesAppend
    <3>2. IsSequence(FramesOf(e, u))
      BY <1>10, FramesOfIs
    <3> QED BY <1>10, <2>5, <3>1, <3>2
  <2>7. e.block.track = u /\ Len(g) = Len(e.block.data)
    BY <1>1, <1>8, <1>10, <2>5, FramesOfIs
  <2>8. FrameFits(demux.frame, g[k + 1])
    <3>1. g[k + 1] = [b |-> e.block.data[k + 1], keyframe |-> e.block.keyframe,
                      timestamps |-> {c + e.block.timecode : c \in e.timecodes}]
      BY <1>10, <1>13, <2>5, <2>7, FrameOf
    <3> QED BY <1>8, <1>10, <1>13, <3>1 DEF FrameFits
  <2>9. IsSequence(got) /\ Fits(got, f \o g) /\ Len(got) \in Nat
    BY <2>1, <2>2, <2>6, SequenceDomain DEF GotInv
  <2>10. Len(f \o g) = Len(f) + Len(g) /\ Len(f) \in Nat
    BY <2>6, Appended, SequenceDomain
  <2>11. Pending(u) = Len(e.block.data) - k /\ Pending(u)' = Len(e.block.data) - (k + 1)
    BY <1>1, <1>2, <1>3, <1>8, <1>10, <1>12, <1>13 DEF Pending, Busy, Handed
  <2>12. Len(got) + Pending(u) = Len(f \o g)
    BY <1>2, <2>1, <2>2, <2>6 DEF GotInv
  <2>13. Len(got) = Len(f) + k
    <3>1. PICK N \in Nat : N = Len(e.block.data)
      BY <1>11
    <3>2. PICK n \in Nat : n = Len(got)
      BY <2>9
    <3>3. PICK m \in Nat : m = Len(f)
      BY <2>10
    <3>4. PICK j \in Int : j = k
      BY <1>13
    <3>5. n + (N - j) = m + N
      BY <2>7, <2>10, <2>11, <2>12, <3>1, <3>2, <3>3, <3>4
    <3>6. n = m + j
      BY <3>5
    <3> QED BY <3>2, <3>3, <3>4, <3>6
  <2>14. /\ Fits(Append(got, demux.frame), f \o g) /\ IsSequence(Append(got, demux.frame))
         /\ Len(Append(got, demux.frame)) = Len(got) + 1
    BY <1>13, <2>6, <2>7, <2>8, <2>9, <2>13, FitsNext
  <2>15. Len(got) + 1 + Pending(u)' = Len(f \o g)
    <3>1. PICK N \in Nat : N = Len(e.block.data)
      BY <1>11
    <3>2. PICK n \in Nat : n = Len(got)
      BY <2>9
    <3>3. PICK j \in Int : j = k
      BY <1>13
    <3>4. n + 1 + (N - (j + 1)) = n + (N - j)
      OBVIOUS
    <3> QED BY <2>11, <2>12, <3>1, <3>2, <3>3, <3>4
  <2> QED BY <1>4, <2>4, <2>6, <2>14, <2>15 DEF GotInv
<1>16. ReadersInv'
  BY <1>6, <1>14, <1>15 DEF ReadersInv
<1> QED BY <1>5, <1>7, <1>16 DEF ReadingInv

LEMMA Dropping == ASSUME ReadingInv, DropFrame PROVE ReadingInv'
<1>1. /\ demux.pc = "hand" /\ reader[demux.block.track].state = "closed" /\ demux' = [demux EXCEPT !.pc = "make"]
      /\ UNCHANGED <<file, option, at, stack, parser, reader, sent>>
  BY DEF DropFrame
<1>2. DOMAIN demux' = DOMAIN demux /\ demux'.pc = "make" /\ demux'.block = demux.block /\ demux'.made = demux.made
  BY <1>1 DEF ReadingInv, ReaderTypes, DemuxTypes
<1>3. Taken' = Taken
  BY <1>1 DEF Taken
<1>4. ReaderTypes'
  BY <1>1, <1>2 DEF ReadingInv, ReaderTypes, ParserTypes, CursorTypes, DemuxTypes, IsBlock, IsEntries
<1>5. FlowInv'
  BY <1>1, <1>2, <1>3
     DEF ReadingInv, FlowInv, SendingInv, HeaderInv, TimecodeInv, EndingInv, BusyInv, Busy
<1>6. \A t \in DOMAIN reader : Pending(t)' = Pending(t) \/ reader[t].state = "closed"
  BY <1>1, <1>2 DEF Pending
<1>7. ReadersInv'
  BY <1>1, <1>3, <1>6, ReadersStay
<1> QED BY <1>4, <1>5, <1>7 DEF ReadingInv

LEMMA EndingReaders == ASSUME ReadingInv, EndReaders PROVE ReadingInv'
<1>1. /\ parser.pc = "ended" /\ demux.pc = "receive" /\ demux' = [demux EXCEPT !.pc = "ended"]
      /\ UNCHANGED <<file, option, at, stack, parser, reader, sent>>
  BY DEF EndReaders
<1>2. DOMAIN demux' = DOMAIN demux /\ demux'.pc = "ended"
  BY <1>1 DEF ReadingInv, ReaderTypes, DemuxTypes
<1>3. Taken' = Taken
  BY <1>1 DEF Taken
<1>4. ReaderTypes'
  BY <1>1, <1>2 DEF ReadingInv, ReaderTypes, ParserTypes, CursorTypes, DemuxTypes, IsBlock, IsEntries
<1>5. FlowInv'
  BY <1>1, <1>2, <1>3
     DEF ReadingInv, FlowInv, SendingInv, HeaderInv, TimecodeInv, EndingInv, BusyInv, Busy
<1>6. \A t \in DOMAIN reader : Pending(t)' = Pending(t)
  BY <1>1, <1>2 DEF Pending, Busy
<1>7. ReadersInv'
  BY <1>1, <1>3, <1>6, ReadersStay
<1> QED BY <1>4, <1>5, <1>7 DEF ReadingInv

\* Whoever reads is told that it is the end, or closes the reader.
LEMMA ReaderEnds ==
  ASSUME ReadingInv, NEW t \in DOMAIN reader, NEW state, reader' = [reader EXCEPT ![t].state = state],
         state = "closed" \/ (state = "eof" /\ demux.pc = "ended" /\ reader[t].state = "reading"),
         UNCHANGED <<file, option, at, stack, parser, demux, sent>>
  PROVE  ReadingInv'
<1>1. Taken' = Taken /\ DOMAIN reader' = DOMAIN reader
  BY DEF Taken
<1>2. ReaderTypes'
  BY DEF ReadingInv, ReaderTypes, ParserTypes, CursorTypes, DemuxTypes, IsBlock, IsEntries
<1>3. FlowInv'
  BY <1>1 DEF ReadingInv, FlowInv, SendingInv, HeaderInv, TimecodeInv, EndingInv, BusyInv, Busy
<1>4. ASSUME NEW u \in DOMAIN reader PROVE GotInv(u)'
  <2>1. GotInv(u)
    BY DEF ReadingInv, ReadersInv
  <2>2. DOMAIN reader'[u] = {"state", "got"} /\ reader'[u].got = reader[u].got
    BY <2>1 DEF GotInv
  <2>3. Pending(u)' = Pending(u)
    BY DEF Pending, Busy, Handed
  <2>4. CASE u = t
    <3>1. reader'[u].state = state
      BY <2>1, <2>4 DEF GotInv
    <3> QED BY <1>1, <2>1, <2>2, <2>3, <2>4, <3>1 DEF GotInv
  <2>5. CASE u # t
    <3>1. reader'[u] = reader[u]
      BY <2>5
    <3> QED BY <1>1, <2>1, <2>3, <3>1 DEF GotInv
  <2> QED BY <2>4, <2>5
<1>5. ReadersInv'
  BY <1>1, <1>4 DEF ReadersInv
<1> QED BY <1>2, <1>3, <1>5 DEF ReadingInv

----------------------------------------------------------------------------
(* The theorem about reading *)

LEMMA ReadingStays == ASSUME ReadingInv, UNCHANGED readerVars PROVE ReadingInv'
<1>1. UNCHANGED <<file, option, at, stack, parser, demux, reader, sent>>
  BY DEF readerVars
<1>2. Taken' = Taken
  BY <1>1 DEF Taken
<1>3. ReaderTypes'
  BY <1>1 DEF ReadingInv, ReaderTypes, ParserTypes, CursorTypes, DemuxTypes, IsBlock, IsEntries
<1>4. FlowInv'
  BY <1>1, <1>2 DEF ReadingInv, FlowInv, SendingInv, HeaderInv, TimecodeInv, EndingInv, BusyInv, Busy
<1>5. ReadersInv'
  BY <1>1, <1>2 DEF ReadingInv, ReadersInv, GotInv, Pending, Busy, Handed
<1> QED BY <1>3, <1>4, <1>5 DEF ReadingInv

LEMMA Opening ==
  ASSUME ReadingInv, NEW octets, NEW content, NEW gap, OpenFile(octets, content, gap) PROVE ReadingInv'
BY OpenReading DEF OpenFile

LEMMA DemuxReading == ASSUME ReadingInv, Demux PROVE ReadingInv'
BY Receiving, Making, Handing, Dropping, EndingReaders DEF Demux

LEMMA NextReading == ASSUME ReadingInv, [Next]_vars PROVE ReadingInv'
<1>1. CASE Begin
  BY <1>1, ReadingStays DEF Begin
<1>2. ASSUME NEW f \in Files, Write(f) PROVE ReadingInv'
  BY <1>2, ReadingStays DEF Write
<1>3. ASSUME NEW f \in Files, Exit(f) PROVE ReadingInv'
  BY <1>3, ReadingStays DEF Exit
<1>4. ASSUME NEW f \in Files, OpenRecording(f) PROVE ReadingInv'
  BY <1>4, Opening DEF OpenRecording
<1>5. ASSUME NEW c \in Others, OpenOther(c) PROVE ReadingInv'
  BY <1>5, Opening DEF OpenOther
<1>6. CASE ReadElement
  BY <1>6, UnmarshalReading DEF ReadElement, Reading
<1>7. CASE ReadBlock
  BY <1>7, DemuxReading DEF ReadBlock, Reading
<1>8. ASSUME NEW t \in DOMAIN reader, ReadFrame(t) PROVE ReadingInv'
  <2>1. /\ demux.pc = "ended" /\ reader[t].state = "reading"
        /\ reader' = [reader EXCEPT ![t].state = "eof"]
        /\ UNCHANGED <<file, option, at, stack, parser, demux, sent>>
    BY <1>8 DEF ReadFrame, Reading, ReadEOF
  <2> QED BY <2>1, ReaderEnds
<1>9. ASSUME NEW t \in DOMAIN reader, Close(t) PROVE ReadingInv'
  <2>1. /\ reader' = [reader EXCEPT ![t].state = "closed"]
        /\ UNCHANGED <<file, option, at, stack, parser, demux, sent>>
    BY <1>9 DEF Close, Reading, CloseReader
  <2> QED BY <2>1, ReaderEnds
<1>10. CASE UNCHANGED vars
  BY <1>10, ReadingStays DEF vars, readerVars
<1> QED BY <1>1, <1>2, <1>3, <1>4, <1>5, <1>6, <1>7, <1>8, <1>9, <1>10 DEF Next

\* The frames of the blocks taken are the first ones of all.
LEMMA ReachTheirReader == ASSUME ReadingInv PROVE FramesReachTheirReader
<1> SUFFICES ASSUME NEW t \in DOMAIN reader
             PROVE  /\ Fits(reader[t].got, AllFramesOf(sent, t))
                    /\ reader[t].state = "eof" => Len(reader[t].got) = Len(AllFramesOf(sent, t))
  BY DEF FramesReachTheirReader, Fits, FrameFits
<1>1. GotInv(t)
  BY DEF ReadingInv, ReadersInv
<1>2. CASE parser.pc # "send"
  <2>1. Taken = sent
    BY <1>2 DEF Taken
  <2>2. reader[t].state = "eof" => Pending(t) = 0 /\ reader[t].state # "closed" /\ Len(reader[t].got) \in Nat
    BY <1>1, SequenceDomain DEF GotInv, Pending, Busy
  <2> QED BY <1>1, <2>1, <2>2 DEF GotInv
<1>3. CASE parser.pc = "send"
  <2>1. reader[t].state # "eof"
    BY <1>1, <1>3 DEF GotInv, ReadingInv, FlowInv, EndingInv
  <2>2. PICK p, e : /\ IsEntries(p) /\ IsEntry(e) /\ sent = Append(p, e)
                    /\ p = SubSeq(sent, 1, Len(sent) - 1) /\ e = Last(sent)
    BY <1>3, SplitLast DEF ReadingInv, ReaderTypes, FlowInv, SendingInv
  <2>3. Taken = p
    BY <1>3, <2>2 DEF Taken
  <2>4. IsSequence(AllFramesOf(p, t)) /\ AllFramesOf(Append(p, e), t) = AllFramesOf(p, t) \o FramesOf(e, t)
    BY <2>2, AllFramesAppend
  <2>5. IsSequence(FramesOf(e, t))
    BY <2>2, FramesOfIs
  <2>6. Fits(reader[t].got, AllFramesOf(p, t) \o FramesOf(e, t))
    BY <1>1, <2>3, <2>4, <2>5, FitsMore DEF GotInv
  <2> QED BY <2>1, <2>2, <2>4, <2>6
<1> QED BY <1>2, <1>3

LEMMA ReadingCorrect == Spec => []ReadingInv
<1>1. Init => ReadingInv
  BY InitReading DEF Init
<1>2. ReadingInv /\ [Next]_vars => ReadingInv'
  BY NextReading
<1> QED BY <1>1, <1>2, PTL DEF Spec

\* Whoever reads a track of a file gets the frames of the blocks sent for it in
\* their order, none twice and none left out, and all of them before being told
\* that it is the end; the frames of a laced block and of a block group too, and
\* with whatever the file is made of (NewSimpleBlockReader, blockreader.go).
THEOREM EachFrameReachesItsReader == Spec => []FramesReachTheirReader
<1>1. ReadingInv => FramesReachTheirReader
  BY ReachTheirReader
<1> QED BY <1>1, ReadingCorrect, PTL

----------------------------------------------------------------------------
(* What is written as octets is read back *)

LEMMA Dividing ==
  ASSUME NEW v \in Int, NEW p \in Nat \ {0}
  PROVE  /\ v \div p \in Int /\ (v >= 0 => v \div p \in Nat) /\ v % p \in 0 .. p - 1
         /\ v = p * (v \div p) + (v % p)
  OBVIOUS

LEMMA Quotient ==
  ASSUME NEW v \in Nat, NEW p \in Nat \ {0} PROVE v \div p \in Nat /\ v % p \in 0 .. p - 1
  OBVIOUS

LEMMA QuotientIs ==
  ASSUME NEW p \in Nat \ {0}, NEW q \in Int, NEW r \in 0 .. p - 1
  PROVE  (p * q + r) \div p = q /\ (p * q + r) % p = r
  OBVIOUS

LEMMA DividingTwice ==
  ASSUME NEW v \in Nat, NEW p \in Nat \ {0}, NEW q \in Nat \ {0}
  PROVE  p * q \in Nat \ {0} /\ (v \div p) \div q = v \div (p * q)
  OBVIOUS

LEMMA QuotientBelow ==
  ASSUME NEW v \in Nat, NEW p \in Nat \ {0}, NEW q \in Nat \ {0}, v < p * q PROVE v \div p < q
  OBVIOUS

\* A digit more: the last one of w, after those before it.
LEMMA DigitMore ==
  ASSUME NEW w \in Nat, NEW base \in Nat \ {0}, NEW p \in Nat \ {0}
  PROVE  ((w \div base) % p) * base + (w % base) = w % (p * base)
<1>1. PICK a \in Nat, c \in 0 .. base - 1 : a = w \div base /\ c = w % base /\ w = base * a + c
  BY Dividing
<1>2. PICK d \in Nat, e \in 0 .. p - 1 : d = a \div p /\ e = a % p /\ a = p * d + e
  BY Dividing
<1>3. PICK m \in Nat \ {0} : m = p * base
  BY DividingTwice
<1>4. e * base + c \in 0 .. m - 1
  <2>1. e * base + base <= p * base
    OBVIOUS
  <2> QED BY <1>3, <2>1
<1>5. w = m * d + (e * base + c)
  <2>1. base * (p * d + e) = (p * base) * d + e * base
    OBVIOUS
  <2>2. base * a = m * d + e * base
    BY <1>2, <1>3, <2>1
  <2> QED BY <1>1, <2>2
<1>6. w % m = e * base + c
  BY <1>4, <1>5, QuotientIs
<1> QED BY <1>1, <1>2, <1>3, <1>6

LEMMA TwoSum ==
  ASSUME NEW m \in Nat, NEW n \in Nat, m + n <= Bits PROVE Two[m + n] = Two[m] * Two[n]
<1> DEFINE T == {k \in Nat : m + k <= Bits => Two[m + k] = Two[m] * Two[k]}
<1>1. Two[m] \in Nat
  BY TwoPositive, BitsAre
<1>2. 0 \in T
  BY <1>1, TwoIs
<1>3. ASSUME NEW k \in Nat, k \in T PROVE k + 1 \in T
  <2> SUFFICES ASSUME m + (k + 1) <= Bits PROVE Two[m + (k + 1)] = Two[m] * Two[k + 1]
    OBVIOUS
  <2>1. m + k + 1 <= Bits /\ k + 1 <= Bits /\ m + k <= Bits /\ m + k \in Nat
    BY BitsAre
  <2>2. Two[k + 1] = 2 * Two[k] /\ Two[k] \in Nat /\ Two[(m + k) + 1] = 2 * Two[m + k]
    BY <2>1, TwoStep
  <2>3. Two[m + k] = Two[m] * Two[k]
    BY <1>3, <2>1
  <2>4. m + (k + 1) = (m + k) + 1
    OBVIOUS
  <2> QED BY <1>1, <2>2, <2>3, <2>4
<1> HIDE DEF T
<1>4. \A k \in Nat : k \in T
  BY <1>2, <1>3, NumbersFromZero
<1> QED BY <1>4 DEF T

LEMMA TwoGrows ==
  ASSUME NEW m \in Nat, NEW n \in Nat, m <= n, n <= Bits
  PROVE  Two[m] \in Nat \ {0} /\ Two[n] \in Nat \ {0} /\ Two[m] <= Two[n]
<1>1. PICK d \in Nat : m + d = n
  <2>1. n - m \in Nat /\ m + (n - m) = n
    OBVIOUS
  <2> QED BY <2>1
<1>2. m \in 0 .. Bits /\ n \in 0 .. Bits /\ d \in 0 .. Bits
  BY <1>1, BitsAre
<1>3. PICK x \in Nat \ {0}, y \in Nat \ {0} : x = Two[m] /\ y = Two[d]
  BY <1>2, TwoPositive
<1>4. Two[n] = x * y
  BY <1>1, <1>3, TwoSum
<1>5. x <= x * y
  OBVIOUS
<1> QED BY <1>2, <1>3, <1>4, <1>5, TwoPositive

LEMMA PowerNext ==
  /\ Power(0) = 1 /\ Power(1) = Base
  /\ \A k \in 0 .. OctetBits - 1 : Power(k + 1) = Power(k) * Base
<1>1. Power(0) = 1
  <2>1. 0 * OctetBits = 0
    BY BitsAre
  <2> QED BY <2>1, TwoIs DEF Power
<1>2. ASSUME NEW k \in 0 .. OctetBits - 1 PROVE Power(k + 1) = Power(k) * Base
  <2>1. (k + 1) * OctetBits = k * OctetBits + OctetBits
    BY BitsAre
  <2>2. k * OctetBits \in Nat /\ OctetBits \in Nat /\ k * OctetBits + OctetBits <= Bits
    <3>1. k \in 0 .. OctetBits /\ k + 1 \in 0 .. OctetBits
      BY BitsAre
    <3>2. k * OctetBits \in 0 .. Bits /\ (k + 1) * OctetBits \in 0 .. Bits
      BY <3>1, Products
    <3> QED BY <2>1, <3>2, BitsAre
  <2> QED BY <2>1, <2>2, TwoSum DEF Power, Base
<1>3. Power(1) = Base
  <2>1. 1 * OctetBits = OctetBits
    BY BitsAre
  <2> QED BY <2>1 DEF Power, Base
<1> QED BY <1>1, <1>2, <1>3

LEMMA LimitIs ==
  ASSUME NEW k \in 1 .. OctetBits
  PROVE  /\ Limit(k) = Power(k - 1) * Two[OctetBits - k]
         /\ Two[OctetBits - k] \in Nat \ {0} /\ Power(k - 1) \in Nat \ {0}
<1>1. k * (OctetBits - 1) = (k - 1) * OctetBits + (OctetBits - k)
  BY BitsAre
<1>2. (k - 1) * OctetBits \in 0 .. Bits /\ k * (OctetBits - 1) \in 0 .. Bits /\ OctetBits - k \in Nat
  <2>1. k - 1 \in 0 .. OctetBits /\ k \in 0 .. OctetBits /\ OctetBits - k \in Nat
    BY BitsAre
  <2> QED BY <2>1, Products
<1>3. PICK m \in Nat, n \in Nat : m = (k - 1) * OctetBits /\ n = OctetBits - k
  BY <1>2
<1>4. Two[m + n] = Two[m] * Two[n]
  BY <1>1, <1>2, <1>3, TwoSum
<1>5. n \in 0 .. Bits /\ m \in 0 .. Bits
  BY <1>2, <1>3, BitsAre
<1> QED BY <1>1, <1>3, <1>4, <1>5, TwoPositive DEF Limit, Power

LEMMA LimitsGrow ==
  ASSUME NEW j \in 0 .. OctetBits, NEW k \in j .. OctetBits
  PROVE  /\ Limit(j) \in Nat \ {0} /\ Limit(k) \in Nat \ {0} /\ Power(j) \in Nat \ {0} /\ Power(k) \in Nat \ {0}
         /\ Limit(j) <= Limit(k) /\ Power(j) <= Power(k) /\ Limit(k) <= Power(k)
<1>1. j \in 0 .. OctetBits /\ k \in 0 .. OctetBits /\ OctetBits \in Nat /\ j <= k
  BY BitsAre
<1>2. /\ j * OctetBits \in 0 .. Bits /\ k * OctetBits \in 0 .. Bits
      /\ j * (OctetBits - 1) \in 0 .. Bits /\ k * (OctetBits - 1) \in 0 .. Bits
  BY <1>1, Products
<1>3. /\ j * OctetBits <= k * OctetBits /\ j * (OctetBits - 1) <= k * (OctetBits - 1)
      /\ k * (OctetBits - 1) <= k * OctetBits
  BY <1>1, BitsAre
<1>4. PICK a \in Nat, c \in Nat, d \in Nat, e \in Nat : /\ a = j * OctetBits /\ c = k * OctetBits
                                                       /\ d = j * (OctetBits - 1) /\ e = k * (OctetBits - 1)
  BY <1>2
<1>5. a <= c /\ d <= e /\ e <= c /\ c <= Bits /\ e <= Bits
  BY <1>2, <1>3, <1>4, BitsAre
<1>6. /\ Two[d] <= Two[e] /\ Two[a] <= Two[c] /\ Two[e] <= Two[c]
      /\ {Two[a], Two[c], Two[d], Two[e]} \subseteq Nat \ {0}
  BY <1>5, TwoGrows
<1> QED BY <1>4, <1>6 DEF Limit, Power

LEMMA OctetsIs ==
  ASSUME NEW v \in Nat, NEW k \in 0 .. OctetBits
  PROVE  /\ Octets(v, k) \in Seq(Octet) /\ Len(Octets(v, k)) = k
         /\ \A i \in 1 .. k : Octets(v, k)[i] = (v \div Power(k - i)) % Base
<1>1. k \in Nat
  BY BitsAre
<1>2. ASSUME NEW i \in 1 .. k PROVE (v \div Power(k - i)) % Base \in Octet
  <2>1. k - i \in 0 .. OctetBits
    BY <1>1, BitsAre
  <2>2. PICK p \in Nat \ {0} : p = Power(k - i)
    BY <2>1, PowersAre
  <2>3. PICK q \in Nat : q = v \div p
    BY Quotient
  <2>4. q % Base \in 0 .. Base - 1
    BY PowersAre, Quotient
  <2> QED BY <2>2, <2>3, <2>4 DEF Octet
<1>3. PICK s : s = [i \in 1 .. k |-> (v \div Power(k - i)) % Base]
  OBVIOUS
<1>4. s \in [1 .. k -> Octet]
  BY <1>2, <1>3
<1>5. s \in Seq(Octet) /\ Len(s) = k
  BY <1>1, <1>4
<1> QED BY <1>3, <1>5 DEF Octets

\* The value of a word is that of its octets.
LEMMA NumberOfOctets ==
  ASSUME NEW v \in Nat, NEW k \in 0 .. OctetBits PROVE Number(Octets(v, k)) = v % Power(k)
<1>1. PICK s \in Seq(Octet) : s = Octets(v, k) /\ Len(s) = k /\ \A i \in 1 .. k : s[i] = (v \div Power(k - i)) % Base
  BY OctetsIs
<1>2. k \in Nat /\ OctetBits \in Nat
  BY BitsAre
<1>3. PICK f : /\ Number(s) = f[k] /\ f[0] = 0
               /\ \A j \in 1 .. k : f[j] = (f[j - 1] * Base + s[j]) % Power(OctetBits)
  BY <1>1, NumberIs
<1> DEFINE T == {j \in Nat : j <= k => f[j] = (v \div Power(k - j)) % Power(j)}
<1>4. 0 \in T
  <2>1. PICK p \in Nat \ {0} : p = Power(k)
    BY <1>2, PowersAre
  <2>2. PICK q \in Nat : q = v \div p
    BY Quotient
  <2>3. q % 1 = 0
    OBVIOUS
  <2>4. k - 0 = k
    BY <1>2
  <2> QED BY <1>3, <2>1, <2>2, <2>3, <2>4, PowerNext
<1>5. ASSUME NEW j \in Nat, j \in T PROVE j + 1 \in T
  <2> SUFFICES ASSUME j + 1 <= k PROVE f[j + 1] = (v \div Power(k - (j + 1))) % Power(j + 1)
    OBVIOUS
  <2>1. /\ j + 1 \in 1 .. k /\ (j + 1) - 1 = j /\ j \in 0 .. OctetBits - 1
        /\ j + 1 \in 0 .. OctetBits /\ OctetBits \in j + 1 .. OctetBits
    BY <1>2
  <2>2. PICK d \in 0 .. OctetBits - 1 : d = k - (j + 1) /\ d + 1 = k - j
    <3>1. k - (j + 1) \in 0 .. OctetBits - 1 /\ (k - (j + 1)) + 1 = k - j
      BY <1>2
    <3> QED BY <3>1
  <2>3. PICK base \in Nat \ {0}, p \in Nat \ {0}, u \in Nat \ {0} : base = Base /\ p = Power(j) /\ u = Power(d)
    <3>1. j \in 0 .. OctetBits /\ d \in 0 .. OctetBits
      BY <1>2, <2>1
    <3> QED BY <3>1, PowersAre
  <2>4. Power(j + 1) = p * base /\ Power(d + 1) = u * base
    BY <2>1, <2>3, PowerNext
  <2>5. PICK w \in Nat : w = v \div u
    BY Quotient
  <2>6. f[j] = (w \div base) % p
    <3>1. f[j] = (v \div Power(d + 1)) % Power(j)
      BY <1>2, <1>5, <2>2
    <3>2. (v \div u) \div base = v \div (u * base)
      BY DividingTwice
    <3> QED BY <2>3, <2>4, <2>5, <3>1, <3>2
  <2>7. s[j + 1] = w % base
    BY <1>1, <2>1, <2>2, <2>3, <2>5
  <2>8. f[j + 1] = (f[j] * Base + s[j + 1]) % Power(OctetBits)
    BY <1>3, <2>1
  <2>9. f[j] * base + s[j + 1] = w % (p * base)
    BY <2>6, <2>7, DigitMore
  <2>10. PICK m \in Nat \ {0} : m = p * base
    BY DividingTwice
  <2>11. PICK x \in 0 .. m - 1 : x = w % m
    BY Quotient
  <2>12. Power(OctetBits) \in Nat \ {0} /\ m <= Power(OctetBits)
    BY <2>1, <2>4, <2>10, LimitsGrow
  <2>13. x % Power(OctetBits) = x
    BY <2>12
  <2> QED BY <2>2, <2>3, <2>4, <2>5, <2>8, <2>9, <2>10, <2>11, <2>13
<1> HIDE DEF T
<1>6. \A j \in Nat : j \in T
  BY <1>4, <1>5, NumbersFromZero
<1>7. f[k] = (v \div Power(k - k)) % Power(k)
  BY <1>2, <1>6 DEF T
<1>8. k - k = 0 /\ v \div 1 = v
  BY <1>2
<1> QED BY <1>1, <1>3, <1>7, <1>8, PowerNext

\* A number with its marker: the first octet, then the octets of the rest.
MarkedOctet(v, k) == (v \div Power(k - 1)) + Two[OctetBits - k]

LEMMA MarkedIs ==
  ASSUME NEW k \in 1 .. OctetBits, NEW v \in 0 .. Limit(k) - 1
  PROVE  /\ Marked(v, k) \in Seq(Octet) /\ Len(Marked(v, k)) = k
         /\ Marked(v, k)[1] = MarkedOctet(v, k) /\ MarkedOctet(v, k) \in Octet /\ FirstIn(MarkedOctet(v, k), k)
         /\ \A i \in 1 .. k - 1 : Marked(v, k)[i + 1] = Octets(v, k - 1)[i]
<1>1. k \in 0 .. OctetBits /\ k - 1 \in 0 .. OctetBits /\ k \in Nat /\ OctetBits \in Nat
  BY BitsAre
<1>2. PICK p \in Nat \ {0}, t \in Nat \ {0} : p = Power(k - 1) /\ t = Two[OctetBits - k] /\ Limit(k) = p * t
  BY LimitIs
<1>3. v \in Nat /\ v < p * t
  <2>1. Limit(k) \in Nat
    BY <1>1, PowersAre
  <2> QED BY <1>2, <2>1
<1>4. PICK q \in Nat : q = v \div p
  BY <1>3, Quotient
<1>5. q < t
  BY <1>3, <1>4, QuotientBelow
<1>6. Two[OctetBits - k + 1] = 2 * t /\ 2 * t <= Base
  <2>1. /\ OctetBits - k \in Nat /\ (OctetBits - k) + 1 <= OctetBits /\ OctetBits <= Bits
        /\ (OctetBits - k) + 1 <= Bits
    BY <1>1, Products, BitsAre
  <2>2. Two[(OctetBits - k) + 1] <= Two[OctetBits]
    BY <1>1, <2>1, TwoGrows
  <2> QED BY <1>2, <2>1, <2>2, TwoStep DEF Base
<1>7. Base \in Nat
  BY PowersAre
<1>8. q % Base = q
  BY <1>5, <1>6, <1>7
<1>9. MarkedOctet(v, k) = q + t
  BY <1>2, <1>4 DEF MarkedOctet
<1>10. q + t \in Octet /\ FirstIn(q + t, k)
  BY <1>2, <1>5, <1>6, <1>7 DEF Octet, FirstIn
<1>11. PICK s \in Seq(Octet) : s = Octets(v, k) /\ Len(s) = k /\ \A i \in 1 .. k : s[i] = (v \div Power(k - i)) % Base
  BY <1>1, <1>3, OctetsIs
<1>12. s[1] = q
  BY <1>2, <1>4, <1>8, <1>11
<1>13. PICK m : m = [s EXCEPT ![1] = s[1] + t]
  OBVIOUS
<1>14. m \in Seq(Octet) /\ Len(m) = k /\ m[1] = q + t /\ \A i \in 2 .. k : m[i] = s[i]
  BY <1>10, <1>11, <1>12, <1>13
<1>15. Marked(v, k) = m
  BY <1>2, <1>11, <1>13 DEF Marked
<1>16. ASSUME NEW i \in 1 .. k - 1 PROVE m[i + 1] = Octets(v, k - 1)[i]
  <2>1. i + 1 \in 2 .. k /\ i + 1 \in 1 .. k /\ k - (i + 1) = (k - 1) - i
    BY <1>1
  <2>2. s[i + 1] = (v \div Power(k - (i + 1))) % Base
    BY <1>11, <2>1
  <2>3. Octets(v, k - 1)[i] = (v \div Power((k - 1) - i)) % Base
    BY <1>1, <1>3, OctetsIs
  <2> QED BY <1>14, <2>1, <2>2, <2>3
<1> QED BY <1>9, <1>10, <1>14, <1>15, <1>16

\* There is one length that a first octet tells.
LEMMA LengthIs ==
  ASSUME NEW k \in 1 .. OctetBits, NEW o \in Octet, FirstIn(o, k) PROVE o # 0 /\ LengthBy(o) = k
<1>1. o # 0 /\ o \in Nat
  <2>1. OctetBits - k \in 0 .. Bits
    BY BitsAre, Products
  <2>2. Two[OctetBits - k] \in Nat \ {0}
    BY <2>1, TwoPositive
  <2>3. o \in Nat
    BY OctetsAre
  <2> QED BY <2>2, <2>3 DEF FirstIn
<1>2. ASSUME NEW i \in 1 .. OctetBits, NEW j \in 1 .. OctetBits, FirstIn(o, i), FirstIn(o, j), i < j PROVE FALSE
  <2>1. /\ OctetBits - j + 1 \in Nat /\ OctetBits - i \in Nat /\ OctetBits - j + 1 <= OctetBits - i
        /\ OctetBits - i <= Bits
    BY <1>2, BitsAre, Products
  <2>2. PICK x \in Nat, y \in Nat : x = Two[OctetBits - j + 1] /\ y = Two[OctetBits - i] /\ x <= y
    BY <2>1, TwoGrows
  <2>3. o >= y /\ o <= x - 1
    BY <1>1, <1>2, <2>2 DEF FirstIn
  <2> QED BY <1>1, <2>2, <2>3
<1>3. ASSUME NEW i \in 1 .. OctetBits, FirstIn(o, i) PROVE i = k
  <2>1. i \in Int /\ k \in Int
    BY BitsAre
  <2>2. i < k \/ k < i \/ i = k
    BY <2>1
  <2> QED BY <1>2, <1>3, <2>2
<1>4. LengthBy(o) \in 1 .. OctetBits /\ FirstIn(o, LengthBy(o))
  BY <1>1, LengthByIs
<1> QED BY <1>1, <1>3, <1>4

LEMMA ReadMarked ==
  ASSUME NEW k \in 1 .. OctetBits, NEW v \in 0 .. Limit(k) - 1,
         NEW s \in Seq(Octet), Len(s) >= k, \A i \in 1 .. k : s[i] = Marked(v, k)[i]
  PROVE  readVUInt(s) = Got(v, k)
<1>1. k \in Nat /\ k - 1 \in 0 .. OctetBits /\ k - 1 \in Nat /\ 1 \in 1 .. k /\ k \in 0 .. OctetBits
  BY BitsAre
<1>2. PICK p \in Nat \ {0}, t \in Nat \ {0} : p = Power(k - 1) /\ t = Two[OctetBits - k] /\ Limit(k) = p * t
  BY LimitIs
<1>3. v \in Nat /\ v < p * t
  <2>1. Limit(k) \in Nat
    BY <1>1, PowersAre
  <2> QED BY <1>2, <2>1
<1>4. PICK q \in Nat : q = v \div p /\ q < t
  <2>1. v \div p \in Nat /\ v \div p < t
    BY <1>3, Quotient, QuotientBelow
  <2> QED BY <2>1
<1>5. PICK o \in Octet : o = MarkedOctet(v, k) /\ FirstIn(o, k) /\ s[1] = o
  BY <1>1, MarkedIs
<1>6. s # <<>> /\ LengthBy(s[1]) = k /\ Len(s) \in Nat
  BY <1>1, <1>5, LengthIs
<1>7. readVUInt(s) = Got((o % Two[OctetBits - k]) * Power(k - 1) + Number(SubSeq(s, 2, k)), k)
  <2>1. ~(Len(s) < k)
    BY <1>1, <1>6
  <2> QED BY <1>5, <1>6, <2>1, ReadVUIntIs
<1>8. o % t = q
  <2>1. o = q + t
    BY <1>2, <1>4, <1>5 DEF MarkedOctet
  <2>2. PICK x \in Int : x = 1
    OBVIOUS
  <2>3. o = t * x + q /\ q \in 0 .. t - 1
    BY <1>4, <2>1, <2>2
  <2>4. (t * x + q) % t = q
    BY <2>3, QuotientIs, Zenon
  <2> QED BY <2>3, <2>4
<1>9. SubSeq(s, 2, k) = Octets(v, k - 1)
  <2>1. PICK m \in Seq(Octet) : m = Octets(v, k - 1) /\ Len(m) = k - 1
    BY <1>1, <1>3, OctetsIs
  <2>2. \A i \in 1 .. k - 1 : i + 1 \in 1 .. k /\ s[i + 1] = m[i]
    <3>1. \A i \in 1 .. k - 1 : i + 1 \in 1 .. k
      BY <1>1
    <3>2. \A i \in 1 .. k - 1 : Marked(v, k)[i + 1] = m[i]
      BY <2>1, MarkedIs
    <3> QED BY <3>1, <3>2
  <2>3. SubSeq(s, 2, k) = m
    BY <1>1, <1>6, <2>1, <2>2
  <2> QED BY <2>1, <2>3
<1>10. Number(SubSeq(s, 2, k)) = v % p
  BY <1>1, <1>2, <1>3, <1>9, NumberOfOctets
<1>11. q * p + (v % p) = v
  <2>1. v \in Int
    BY <1>3
  <2>2. v = p * (v \div p) + (v % p) /\ v % p \in 0 .. p - 1
    BY <2>1, Dividing
  <2>3. p * q = q * p
    OBVIOUS
  <2> QED BY <1>4, <2>2, <2>3
<1> QED BY <1>2, <1>7, <1>8, <1>10, <1>11

LEMMA MarkedIsRead ==
  ASSUME NEW k \in 1 .. OctetBits, NEW v \in 0 .. Limit(k) - 1 PROVE readVUInt(Marked(v, k)) = Got(v, k)
<1>1. PICK m \in Seq(Octet) : m = Marked(v, k) /\ Len(m) = k
  BY MarkedIs
<1>2. Len(m) >= k /\ \A i \in 1 .. k : m[i] = Marked(v, k)[i]
  BY <1>1, BitsAre
<1> QED BY <1>1, <1>2, ReadMarked

----------------------------------------------------------------------------
(* Each number in the octets that it takes *)

LEMMA LeastIn == ASSUME NEW T, T \subseteq Nat, T # {} PROVE Min(T) \in T /\ \A k \in T : Min(T) <= k
<1>1. PICK m \in T : \A k \in T : m <= k
  BY LeastNumber
<1>2. \A x \in T : (\A y \in T : x <= y) => x = m
  BY <1>1
<1>3. Min(T) = m
  BY <1>1, <1>2 DEF Min
<1> QED BY <1>1, <1>3

\* What Shortest gives when the lengths below the longest one that fit are ks.
LeastOf(ks) == IF ks = {} THEN OctetBits ELSE Min(ks)

LEMMA LeastOfIs ==
  ASSUME NEW ks \in SUBSET (1 .. OctetBits - 1)
  PROVE  LeastOf(ks) \in ks \/ (ks = {} /\ LeastOf(ks) = OctetBits)
<1>1. ks \subseteq Nat
  BY BitsAre
<1> QED BY <1>1, LeastIn DEF LeastOf

LEMMA DataSizeWritten ==
  ASSUME NEW v \in 0 .. SizeUnknown - 1, NEW n \in 0 .. OctetBits
  PROVE  \E k \in 1 .. OctetBits : /\ encodeDataSize(v, n) = Marked(v, k) /\ v \in 0 .. Limit(k) - 2 /\ k >= n
                                   /\ \A j \in 1 .. k - 1 : j < n \/ ~(v < Limit(j) - 1)
<1>1. PICK ks \in SUBSET (1 .. OctetBits - 1) : ks = {k \in 1 .. OctetBits - 1 : k >= n /\ v < Limit(k) - 1}
  OBVIOUS
<1>2. SizeUnknown \in Nat /\ SizeUnknown = Limit(OctetBits) - 1 /\ v \in Nat /\ ~(v >= SizeUnknown)
  BY PowersAre DEF SizeUnknown
<1>3. encodeDataSize(v, n) = Marked(v, LeastOf(ks))
  BY <1>1, <1>2, Zenon DEF encodeDataSize, Shortest, LeastOf
<1>4. PICK k : k = LeastOf(ks)
  OBVIOUS
<1>5. k \in 1 .. OctetBits /\ v < Limit(k) - 1 /\ k >= n
  <2>1. CASE k \in ks
    BY <1>1, <2>1, BitsAre
  <2>2. CASE k = OctetBits
    BY <1>2, <2>2, BitsAre
  <2> QED BY <1>4, <2>1, <2>2, LeastOfIs
<1>6. Limit(k) \in Nat
  <2>1. k \in 0 .. OctetBits
    BY <1>5, BitsAre
  <2> QED BY <2>1, PowersAre
<1>7. ASSUME NEW j \in 1 .. k - 1, j >= n, v < Limit(j) - 1 PROVE FALSE
  <2>1. j \in 1 .. OctetBits - 1 /\ j < k
    BY <1>5, BitsAre
  <2>2. j \in ks
    BY <1>1, <1>7, <2>1
  <2>3. Min(ks) <= j /\ ks # {}
    <3>1. ks \subseteq Nat
      BY BitsAre
    <3> QED BY <2>2, <3>1, LeastIn
  <2>4. k = Min(ks)
    BY <1>4, <2>3 DEF LeastOf
  <2>5. k \in Int /\ j \in Int
    BY <1>5, BitsAre
  <2> QED BY <2>1, <2>3, <2>4, <2>5
<1>8. \A j \in 1 .. k - 1 : j < n \/ ~(v < Limit(j) - 1)
  <2>1. \A j \in 1 .. k - 1 : j >= n \/ j < n
    BY BitsAre
  <2> QED BY <1>7, <2>1
<1> QED BY <1>2, <1>3, <1>4, <1>5, <1>6, <1>8

LEMMA ElementIDWritten ==
  ASSUME NEW v \in IDs
  PROVE  \E k \in 1 .. OctetBits - 1 : encodeElementID(v) = Marked(v, k) /\ v \in 0 .. Limit(k) - 1
<1>1. PICK ks \in SUBSET (1 .. OctetBits - 1) : ks = {k \in 1 .. OctetBits - 1 : k >= 1 /\ v < Limit(k)}
  OBVIOUS
<1>2. encodeElementID(v) = Marked(v, LeastOf(ks))
  BY <1>1, Zenon DEF encodeElementID, Shortest, LeastOf
<1>3. \A k \in 1 .. OctetBits - 1 : Limit(k) \in Nat /\ k >= 1
  <2>1. \A k \in 1 .. OctetBits - 1 : k \in 0 .. OctetBits /\ k >= 1
    BY BitsAre
  <2> QED BY <2>1, PowersAre
<1>4. OctetBits - 1 \in ks
  <2>1. OctetBits - 1 \in 1 .. OctetBits - 1
    BY BitsAre
  <2>2. v < Limit(OctetBits - 1)
    BY <1>3, <2>1 DEF IDs
  <2> QED BY <1>1, <1>3, <2>1, <2>2
<1>5. PICK k \in ks : k = LeastOf(ks)
  BY <1>4, LeastOfIs
<1>6. v \in 0 .. Limit(k) - 1
  BY <1>1, <1>3, <1>5 DEF IDs
<1> QED BY <1>1, <1>2, <1>5, <1>6

LEMMA UIntWritten ==
  ASSUME NEW v \in 0 .. Power(OctetBits) - 1, NEW n \in 0 .. OctetBits
  PROVE  \E k \in 1 .. OctetBits : encodeUInt(v, n) = Octets(v, k) /\ v \in 0 .. Power(k) - 1
<1>1. PICK ks \in SUBSET (1 .. OctetBits - 1) : ks = {k \in 1 .. OctetBits - 1 : k >= n /\ v < Power(k)}
  OBVIOUS
<1>2. encodeUInt(v, n) = Octets(v, LeastOf(ks))
  BY <1>1, Zenon DEF encodeUInt, Shortest, LeastOf
<1>3. \A k \in 1 .. OctetBits : Power(k) \in Nat
  <2>1. \A k \in 1 .. OctetBits : k \in 0 .. OctetBits
    BY BitsAre
  <2> QED BY <2>1, PowersAre
<1>4. PICK k : k = LeastOf(ks)
  OBVIOUS
<1>5. k \in 1 .. OctetBits /\ v < Power(k) /\ v \in Nat
  <2>1. v \in Nat /\ v < Power(OctetBits) /\ OctetBits \in 1 .. OctetBits
    BY <1>3, BitsAre
  <2>2. CASE k \in ks
    BY <1>1, <2>1, <2>2, BitsAre
  <2>3. CASE k = OctetBits
    BY <2>1, <2>3, BitsAre
  <2> QED BY <1>4, <2>1, <2>2, <2>3, LeastOfIs
<1> QED BY <1>2, <1>3, <1>4, <1>5

\* Lengths are halved at least by an octet less.
LEMMA Halves ==
  /\ OctetBits - 1 \in 1 .. OctetBits /\ OctetBits \in 1 .. OctetBits
  /\ Limit(OctetBits - 1) \in Nat \ {0} /\ Power(OctetBits - 1) \in Nat \ {0} /\ Power(OctetBits) \in Nat \ {0}
  /\ Limit(OctetBits) \in Nat \ {0} /\ SizeUnknown \in Nat /\ Limit(OctetBits) <= Power(OctetBits)
  /\ 2 * Limit(OctetBits - 1) <= Limit(OctetBits) /\ 2 * Power(OctetBits - 1) <= Power(OctetBits)
  /\ \E h \in Nat \ {0} : h = Base \div 2 /\ Base = 2 * h /\ \A k \in 1 .. OctetBits : Power(k) = 2 * (Power(k - 1) * h)
<1>1. OctetBits - 1 \in 1 .. OctetBits /\ OctetBits \in 1 .. OctetBits
  BY BitsAre
<1>2. \A k \in 0 .. OctetBits : Limit(k) \in Nat \ {0} /\ Power(k) \in Nat \ {0}
  BY PowersAre
<1>3. OctetBits - 1 \in 0 .. OctetBits /\ OctetBits \in 0 .. OctetBits
  BY BitsAre
<1>4. Limit(OctetBits) <= Power(OctetBits)
  <2>1. OctetBits \in OctetBits .. OctetBits
    BY BitsAre
  <2> QED BY <1>3, <2>1, LimitsGrow
<1>5. PICK h \in Nat \ {0} : h = Two[OctetBits - 1] /\ Base = 2 * h
  <2>1. OctetBits - 1 \in Nat /\ (OctetBits - 1) + 1 = OctetBits /\ OctetBits <= Bits /\ OctetBits - 1 \in 0 .. Bits
    BY BitsAre, Products
  <2>2. Two[OctetBits] = 2 * Two[OctetBits - 1]
    BY <2>1, TwoStep
  <2>3. Two[OctetBits - 1] \in Nat \ {0}
    BY <2>1, TwoPositive
  <2> QED BY <2>2, <2>3 DEF Base
<1>6. h = Base \div 2
  BY <1>5
<1>7. ASSUME NEW k \in 1 .. OctetBits PROVE Power(k) = 2 * (Power(k - 1) * h)
  <2>1. k - 1 \in 0 .. OctetBits - 1 /\ (k - 1) + 1 = k /\ k - 1 \in 0 .. OctetBits
    BY BitsAre
  <2>2. PICK p \in Nat : p = Power(k - 1)
    BY <1>2, <2>1
  <2>3. Power(k) = p * Base
    BY <2>1, <2>2, PowerNext
  <2> QED BY <1>5, <2>2, <2>3
<1>8. h >= 2
  <2>1. 1 \in Nat /\ OctetBits - 1 \in Nat /\ 1 <= OctetBits - 1 /\ OctetBits - 1 <= Bits
    BY BitsAre, Products
  <2>2. Two[1] <= Two[OctetBits - 1]
    BY <2>1, TwoGrows
  <2>3. Two[1] = 2
    BY TwoIs, BitsAre
  <2> QED BY <1>5, <2>2, <2>3
<1>9. 2 * Power(OctetBits - 1) <= Power(OctetBits)
  <2>1. PICK p \in Nat : p = Power(OctetBits - 1)
    BY <1>2, <1>3
  <2>2. Power(OctetBits) = 2 * (p * h)
    BY <1>1, <1>7, <2>1
  <2>3. p <= p * h
    BY <1>8
  <2>4. PICK x \in Nat : x = p * h
    OBVIOUS
  <2> QED BY <2>1, <2>2, <2>3, <2>4
<1>10. 2 * Limit(OctetBits - 1) <= Limit(OctetBits)
  <2>1. OctetBits * (OctetBits - 1) = (OctetBits - 1) * (OctetBits - 1) + (OctetBits - 1)
    BY BitsAre
  <2>2. (OctetBits - 1) * (OctetBits - 1) \in 0 .. Bits /\ OctetBits * (OctetBits - 1) \in 0 .. Bits
    BY <1>3, Products
  <2>3. PICK m \in Nat, n \in Nat : m = (OctetBits - 1) * (OctetBits - 1) /\ n = OctetBits - 1
    BY <2>2, BitsAre
  <2>4. m + n <= Bits
    BY <2>1, <2>2, <2>3, BitsAre
  <2>5. Two[m + n] = Two[m] * Two[n]
    BY <2>4, TwoSum
  <2>6. Limit(OctetBits) = Limit(OctetBits - 1) * h
    BY <1>5, <2>1, <2>3, <2>5 DEF Limit
  <2>7. PICK l \in Nat : l = Limit(OctetBits - 1)
    BY <1>2, <1>3
  <2>8. 2 * l <= l * h
    BY <1>8
  <2> QED BY <2>6, <2>7, <2>8
<1> QED BY <1>1, <1>2, <1>3, <1>4, <1>5, <1>6, <1>7, <1>9, <1>10, PowersAre

\* Numbers of either sign that every encoding has room for.
Signed == -(Limit(OctetBits - 1) - 1) .. Limit(OctetBits - 1) - 1

LEMMA VIntWritten ==
  ASSUME NEW w \in Signed
  PROVE  \E k \in 1 .. OctetBits : \E x \in 0 .. Limit(k) - 1 : encodeVInt(w) = Marked(x, k) /\ w = x - Bias(k)
<1>1. PICK ks \in SUBSET (1 .. OctetBits - 1) : ks = {k \in 1 .. OctetBits - 1 : k >= 1 /\ w \in -Bias(k) .. Bias(k)}
  OBVIOUS
<1>2. PICK k : k = LeastOf(ks)
  OBVIOUS
<1>3. encodeVInt(w) = encodeDataSize(w + Bias(k), k)
  BY <1>1, <1>2, Zenon DEF encodeVInt, Shortest, LeastOf
<1>4. w \in -Bias(OctetBits) .. Bias(OctetBits)
  <2>1. PICK l \in Nat, m \in Nat : l = Limit(OctetBits - 1) /\ m = Limit(OctetBits) /\ 2 * l <= m
    BY Halves
  <2>2. w \in -(l - 1) .. l - 1
    BY <2>1 DEF Signed
  <2> QED BY <2>1, <2>2 DEF Bias
<1>5. k \in 1 .. OctetBits /\ w \in -Bias(k) .. Bias(k)
  <2>1. CASE k \in ks
    BY <1>1, <2>1, BitsAre
  <2>2. CASE k = OctetBits
    BY <1>4, <2>2, Halves
  <2> QED BY <1>2, <2>1, <2>2, LeastOfIs
<1>6. PICK l \in Nat \ {0}, m \in Nat : l = Limit(k) /\ m = Limit(OctetBits) /\ l <= m
  <2>1. k \in 0 .. OctetBits /\ OctetBits \in k .. OctetBits
    BY <1>5, BitsAre
  <2> QED BY <2>1, LimitsGrow
<1>7. PICK c \in Int : c = Bias(k) /\ 2 * c + 2 <= l
  BY <1>6 DEF Bias
<1>8. PICK x \in Nat : x = w + c /\ x < l - 1 /\ w = x - c
  <2>1. w \in Int /\ -c <= w /\ w <= c
    BY <1>5, <1>7
  <2>2. w + c \in Nat /\ w + c < l - 1 /\ w = (w + c) - c
    BY <1>6, <1>7, <2>1
  <2> QED BY <2>2
<1>9. x \in 0 .. SizeUnknown - 1 /\ k \in 0 .. OctetBits
  <2>1. SizeUnknown = m - 1
    BY <1>6 DEF SizeUnknown
  <2> QED BY <1>5, <1>6, <1>8, <2>1, BitsAre
<1>10. PICK j \in 1 .. OctetBits : /\ encodeDataSize(x, k) = Marked(x, j) /\ j >= k
                                   /\ \A i \in 1 .. j - 1 : i < k \/ ~(x < Limit(i) - 1)
  BY <1>9, DataSizeWritten
<1>11. j = k
  <2>1. j \in Int /\ k \in Int
    BY <1>5, BitsAre
  <2>2. ASSUME k < j PROVE FALSE
    <3>1. k \in 1 .. j - 1 /\ ~(k < k)
      BY <1>5, <2>1, <2>2
    <3> QED BY <1>6, <1>8, <1>10, <3>1
  <2> QED BY <1>10, <2>1, <2>2
<1>12. x \in 0 .. Limit(k) - 1
  BY <1>6, <1>8
<1> QED BY <1>3, <1>5, <1>7, <1>8, <1>10, <1>11, <1>12

\* Words.
LEMMA ReadOctets ==
  ASSUME NEW k \in 0 .. OctetBits, NEW v \in 0 .. Power(k) - 1,
         NEW s \in Seq(Octet), Len(s) >= k, \A i \in 1 .. k : s[i] = Octets(v, k)[i]
  PROVE  readUInt(s, k) = Got(v, k)
<1>1. k \in Nat /\ Power(k) \in Nat \ {0} /\ v \in Nat /\ Len(s) \in Nat
  BY BitsAre, PowersAre
<1>2. PICK m \in Seq(Octet) : m = Octets(v, k) /\ Len(m) = k
  BY <1>1, OctetsIs
<1>3. SubSeq(s, 1, k) = m
  BY <1>1, <1>2
<1>4. Number(m) = v
  <2>1. v % Power(k) = v
    BY <1>1, SMTT(30)
  <2> QED BY <1>1, <1>2, <2>1, NumberOfOctets
<1>5. ~(Len(s) < k)
  BY <1>1
<1> QED BY <1>3, <1>4, <1>5 DEF readUInt

\* Words with a sign.
LEMMA ReadSigned ==
  ASSUME NEW k \in 1 .. OctetBits, NEW v \in 0 .. Power(k) - 1,
         NEW s \in Seq(Octet), Len(s) >= k, \A i \in 1 .. k : s[i] = Octets(v, k)[i]
  PROVE  readInt(s, k) = Got(IF 2 * v >= Power(k) THEN v - Power(k) ELSE v, k)
<1>1. k \in 0 .. OctetBits /\ k > 0
  BY BitsAre
<1>2. readUInt(s, k) = Got(v, k)
  BY <1>1, ReadOctets
<1>3. readInt(s, k) = IF 2 * v >= Power(k) THEN Got(v - Power(k), k) ELSE Got(v, k)
  BY <1>1, <1>2 DEF readInt, Got
<1> QED BY <1>3

\* A negative number, through a word.
LEMMA Modulo ==
  ASSUME NEW P \in Nat \ {0}, NEW w \in -P .. P - 1
  PROVE  w % P = IF w < 0 THEN w + P ELSE w
  OBVIOUS

LEMMA ReadSignedWord ==
  ASSUME NEW k \in 1 .. OctetBits, NEW w \in -(Power(k) \div 2) .. Power(k) \div 2 - 1,
         NEW s \in Seq(Octet), Len(s) >= k, \A i \in 1 .. k : s[i] = Octets(w % Power(k), k)[i]
  PROVE  readInt(s, k) = Got(w, k)
<1>1. PICK h \in Nat \ {0} : Power(k) = 2 * h
  <2>1. PICK h \in Nat \ {0} : Power(k) = 2 * (Power(k - 1) * h)
    BY Halves
  <2>2. k - 1 \in 0 .. OctetBits
    BY BitsAre
  <2>3. PICK p \in Nat \ {0} : p = Power(k - 1)
    BY <2>2, PowersAre
  <2>4. p * h \in Nat \ {0}
    BY DividingTwice
  <2> QED BY <2>1, <2>3, <2>4
<1>2. PICK P \in Nat \ {0} : P = Power(k) /\ P = 2 * h
  BY <1>1
<1>3. w \in -h .. h - 1
  BY <1>2
<1>4. PICK v \in 0 .. P - 1 : v = w % P /\ v = IF w < 0 THEN w + P ELSE w
  BY <1>2, <1>3
<1>5. readInt(s, k) = Got(IF 2 * v >= P THEN v - P ELSE v, k)
  BY <1>2, <1>4, ReadSigned
<1>6. w = IF 2 * v >= P THEN v - P ELSE v
  BY <1>2, <1>3, <1>4
<1> QED BY <1>5, <1>6

LEMMA NumberIsReadBack ==
  ASSUME NEW v \in IDs, NEW n \in 0 .. OctetBits PROVE NumberReadsBack(v, n)
<1>1. PICK l \in Nat \ {0}, m \in Nat, P \in Nat \ {0} :
        l = Limit(OctetBits - 1) /\ m = Limit(OctetBits) /\ P = Power(OctetBits) /\ 2 * l <= m /\ m <= P
  BY Halves
<1>2. v \in 0 .. l - 1
  BY <1>1 DEF IDs
<1>3. \A k \in 1 .. OctetBits : k \in 0 .. OctetBits
  BY BitsAre
<1>4. ReadsBack(readDataSize(encodeDataSize(v, n)), v)
  <2>1. v \in 0 .. SizeUnknown - 1
    BY <1>1, <1>2 DEF SizeUnknown
  <2>2. PICK k \in 1 .. OctetBits : encodeDataSize(v, n) = Marked(v, k) /\ v \in 0 .. Limit(k) - 2
    BY <2>1, DataSizeWritten
  <2>3. Limit(k) \in Nat
    BY <1>3, PowersAre
  <2>4. v \in 0 .. Limit(k) - 1 /\ v # Limit(k) - 1
    BY <2>2, <2>3
  <2>5. readVUInt(Marked(v, k)) = Got(v, k)
    BY <2>4, MarkedIsRead
  <2>6. readDataSize(Marked(v, k)) = Got(v, k)
    BY <2>4, <2>5 DEF readDataSize, Got
  <2> QED BY <2>2, <2>6 DEF ReadsBack, Got
<1>5. ReadsBack(readVUInt(encodeElementID(v)), v)
  <2>1. PICK k \in 1 .. OctetBits - 1 : encodeElementID(v) = Marked(v, k) /\ v \in 0 .. Limit(k) - 1
    BY ElementIDWritten
  <2>2. k \in 1 .. OctetBits
    BY BitsAre
  <2>3. readVUInt(Marked(v, k)) = Got(v, k)
    BY <2>1, <2>2, MarkedIsRead
  <2> QED BY <2>1, <2>3 DEF ReadsBack, Got
<1>6. ASSUME NEW w \in Signed PROVE ReadsBack(readVInt(encodeVInt(w)), w)
  <2>1. PICK k \in 1 .. OctetBits : \E x \in 0 .. Limit(k) - 1 : encodeVInt(w) = Marked(x, k) /\ w = x - Bias(k)
    BY VIntWritten
  <2>2. PICK x \in 0 .. Limit(k) - 1 : encodeVInt(w) = Marked(x, k) /\ w = x - Bias(k)
    BY <2>1
  <2>3. readVUInt(Marked(x, k)) = Got(x, k)
    BY MarkedIsRead
  <2>4. readVInt(Marked(x, k)) = Got(x - Bias(k), k)
    BY <2>3 DEF readVInt, Got
  <2> QED BY <2>2, <2>4 DEF ReadsBack, Got
<1>7. v \in Signed /\ -v \in Signed
  BY <1>1, <1>2 DEF Signed
<1>8. ASSUME NEW x \in 0 .. P - 1
      PROVE  \E k \in 1 .. OctetBits :
               /\ encodeUInt(x, n) = Octets(x, k) /\ x \in 0 .. Power(k) - 1
               /\ Octets(x, k) \in Seq(Octet) /\ Len(Octets(x, k)) = k
               /\ readUInt(Octets(x, k), k) = Got(x, k)
               /\ readInt(Octets(x, k), k) = Got(IF 2 * x >= Power(k) THEN x - Power(k) ELSE x, k)
  <2>1. PICK k \in 1 .. OctetBits : encodeUInt(x, n) = Octets(x, k) /\ x \in 0 .. Power(k) - 1
    BY <1>1, UIntWritten
  <2>2. Octets(x, k) \in Seq(Octet) /\ Len(Octets(x, k)) = k /\ k \in 0 .. OctetBits
    BY <1>3, OctetsIs
  <2>3. Len(Octets(x, k)) >= k /\ \A i \in 1 .. k : Octets(x, k)[i] = Octets(x, k)[i]
    BY <2>2, BitsAre
  <2>4. readUInt(Octets(x, k), k) = Got(x, k)
    BY <2>1, <2>2, <2>3, ReadOctets
  <2>5. readInt(Octets(x, k), k) = Got(IF 2 * x >= Power(k) THEN x - Power(k) ELSE x, k)
    BY <2>1, <2>2, <2>3, ReadSigned
  <2> QED BY <2>1, <2>2, <2>4, <2>5
<1>9. v \in 0 .. P - 1
  BY <1>1, <1>2
<1>10. ReadsBack(readUInt(encodeUInt(v, n), Len(encodeUInt(v, n))), v)
  <2>1. PICK k \in 1 .. OctetBits : /\ encodeUInt(v, n) = Octets(v, k) /\ Len(Octets(v, k)) = k
                                    /\ readUInt(Octets(v, k), k) = Got(v, k)
    BY <1>8, <1>9
  <2> QED BY <2>1 DEF ReadsBack, Got
<1>11. ReadsBack(readInt(encodeInt(v, n), Len(encodeInt(v, n))), v) <=> encodeInt(v, n)[1] < Base \div 2
  <2>1. PICK k \in 1 .. OctetBits :
           /\ encodeUInt(v, n) = Octets(v, k) /\ v \in 0 .. Power(k) - 1 /\ Len(Octets(v, k)) = k
           /\ readInt(Octets(v, k), k) = Got(IF 2 * v >= Power(k) THEN v - Power(k) ELSE v, k)
    BY <1>8, <1>9
  <2>2. encodeInt(v, n) = Octets(v, k)
    <3>1. v % P = v
      BY <1>9
    <3> QED BY <1>1, <2>1, <3>1 DEF encodeInt
  <2>3. PICK p \in Nat \ {0}, h \in Nat \ {0} :
          p = Power(k - 1) /\ h = Base \div 2 /\ Base = 2 * h /\ Power(k) = 2 * (p * h)
    <3>1. k - 1 \in 0 .. OctetBits
      BY BitsAre
    <3>2. Power(k - 1) \in Nat \ {0}
      BY <3>1, PowersAre
    <3> QED BY <3>2, Halves
  <2>4. PICK u \in Nat \ {0} : u = p * h /\ Power(k) = 2 * u
    BY <2>3, DividingTwice
  <2>5. ReadsBack(readInt(Octets(v, k), k), v) <=> 2 * v < Power(k)
    <3>1. ReadsBack(readInt(Octets(v, k), k), v) <=> (IF 2 * v >= Power(k) THEN v - Power(k) ELSE v) = v
      BY <2>1 DEF ReadsBack, Got
    <3> QED BY <1>2, <2>4, <3>1
  <2>6. PICK q \in Nat : q = v \div p
    <3>1. v \in Nat
      BY <1>2
    <3> QED BY <3>1, Quotient
  <2>7. Octets(v, k)[1] = q % Base
    <3>1. 1 \in 1 .. k /\ v \in Nat
      BY <1>2, BitsAre
    <3>2. Octets(v, k)[1] = (v \div Power(k - 1)) % Base
      BY <1>3, <3>1, OctetsIs
    <3> QED BY <2>3, <2>6, <3>2
  <2>8. q % Base = q
    <3>1. v < p * Base
      <4>1. p * Base = 2 * u
        BY <2>3, <2>4
      <4> QED BY <2>1, <2>4, <4>1
    <3>2. PICK b \in Nat \ {0} : b = Base
      BY <2>3
    <3>3. q < b
      BY <1>2, <2>6, <3>1, <3>2, QuotientBelow
    <3> QED BY <3>2, <3>3
  <2>9. q < h <=> v < u
    <3>1. v \in Nat
      BY <1>2
    <3>2. ASSUME v < u PROVE q < h
      BY <2>4, <2>6, <3>1, <3>2, QuotientBelow
    <3>3. ASSUME q < h PROVE v < u
      <4>1. v \in Int
        BY <3>1
      <4>2. v = p * q + (v % p) /\ v % p \in 0 .. p - 1
        BY <2>6, <4>1, Dividing
      <4>3. p * q + p <= p * h
        BY <3>3
      <4> QED BY <2>4, <4>2, <4>3
    <3> QED BY <3>2, <3>3
  <2>10. 2 * v < Power(k) <=> v < u
    BY <1>2, <2>4
  <2> QED BY <2>1, <2>2, <2>3, <2>5, <2>7, <2>8, <2>9, <2>10
<1>12. ASSUME v > 0 PROVE ReadsBack(readInt(encodeInt(-v, n), Len(encodeInt(-v, n))), -v)
  <2>1. PICK x \in 0 .. P - 1 : x = P - v /\ encodeInt(-v, n) = encodeUInt(x, n)
    <3>1. -v \in -P .. P - 1 /\ -v < 0 /\ -v + P = P - v /\ P - v \in 0 .. P - 1
      BY <1>2, <1>9, <1>12
    <3>2. (-v) % P = P - v
      BY <3>1, Modulo
    <3> QED BY <1>1, <3>1, <3>2 DEF encodeInt
  <2>2. PICK k \in 1 .. OctetBits :
           /\ encodeUInt(x, n) = Octets(x, k) /\ x \in 0 .. Power(k) - 1 /\ Len(Octets(x, k)) = k
           /\ readInt(Octets(x, k), k) = Got(IF 2 * x >= Power(k) THEN x - Power(k) ELSE x, k)
    BY <1>8
  <2>3. k = OctetBits
    <3>1. PICK y \in Nat \ {0} : y = Power(OctetBits - 1) /\ 2 * y <= P
      BY <1>1, Halves
    <3>2. ASSUME k # OctetBits PROVE FALSE
      <4>1. k \in 0 .. OctetBits /\ OctetBits - 1 \in k .. OctetBits
        BY <3>2, BitsAre
      <4>2. PICK z \in Nat : z = Power(k) /\ z <= y
        BY <3>1, <4>1, LimitsGrow
      <4>3. x < y
        BY <2>2, <4>2
      <4> QED BY <1>1, <1>2, <2>1, <3>1, <4>3
    <3> QED BY <3>2
  <2>4. 2 * x >= P /\ x - P = -v
    BY <1>1, <1>2, <2>1
  <2>5. readInt(Octets(x, k), k) = Got(-v, k)
    BY <1>1, <2>2, <2>3, <2>4
  <2> QED BY <2>1, <2>2, <2>5 DEF ReadsBack, Got
<1> QED BY <1>4, <1>5, <1>6, <1>7, <1>10, <1>11, <1>12 DEF NumberReadsBack

----------------------------------------------------------------------------
(* Frames one after the other, and where each of them ends *)

LEMMA SameSequence ==
  ASSUME NEW A, NEW a \in Seq(A), NEW b \in Seq(A), Len(a) = Len(b), \A i \in 1 .. Len(a) : a[i] = b[i]
  PROVE  a = b
  OBVIOUS

\* c is the m elements of s after the first q; and c is a with b after it.
PartOfAt(A, s, q, m, c) == c \in Seq(A) /\ Len(c) = m /\ \A i \in 1 .. m : c[i] = s[q + i]
Joined(A, a, b, c) ==
  /\ c \in Seq(A) /\ Len(c) = Len(a) + Len(b) /\ \A i \in 1 .. Len(a) : c[i] = a[i]
  /\ \A i \in 1 .. Len(b) : c[Len(a) + i] = b[i]

LEMMA PartAt ==
  ASSUME NEW A, NEW s \in Seq(A), NEW q \in Nat, NEW m \in Nat, q + m <= Len(s), NEW c, c = SubSeq(s, q + 1, q + m)
  PROVE  PartOfAt(A, s, q, m, c)
  BY DEF PartOfAt

LEMMA JoinedAt ==
  ASSUME NEW A, NEW a \in Seq(A), NEW b \in Seq(A), NEW c, c = a \o b PROVE Joined(A, a, b, c)
  BY DEF Joined

BoundsOf(f, sizes) == f[0] = 0 /\ \A i \in 1 .. Len(sizes) : f[i] = f[i - 1] + sizes[i]

LEMMA BoundsAre ==
  ASSUME NEW sizes \in Seq(Int) PROVE Bounds(sizes) \in [0 .. Len(sizes) -> Int] /\ BoundsOf(Bounds(sizes), sizes)
<1>1. PICK N \in Nat : N = Len(sizes)
  OBVIOUS
<1>2. \A k \in 1 .. N : sizes[k] \in Int
  BY <1>1
<1> DEFINE Is(f) == f = [i \in 0 .. N |-> IF i = 0 THEN 0 ELSE f[i - 1] + sizes[i]]
<1>3. Bounds(sizes) = CHOOSE f : Is(f)
  BY <1>1 DEF Bounds
<1>4. PICK step : step = [k \in 1 .. N |-> [x \in Int |-> x + sizes[k]]]
  OBVIOUS
<1>5. step \in [1 .. N -> [Int -> Int]]
  BY <1>2, <1>4
<1>6. PICK f \in [0 .. N -> Int] : f[0] = 0 /\ \A k \in 1 .. N : f[k] = step[k][f[k - 1]]
  <2>1. 0 \in Int
    OBVIOUS
  <2>2. Recursion(N, Int, 0, step)
    BY <1>5, <2>1, FunctionFromZero
  <2> QED BY <2>2 DEF Recursion
<1>7. \A k \in 1 .. N : f[k] = f[k - 1] + sizes[k]
  <2>1. \A k \in 1 .. N : k - 1 \in 0 .. N /\ f[k - 1] \in Int
    OBVIOUS
  <2> QED BY <1>4, <1>6, <2>1
<1>8. Is(f)
  <2>1. ASSUME NEW k \in 0 .. N PROVE f[k] = IF k = 0 THEN 0 ELSE f[k - 1] + sizes[k]
    <3>1. CASE k = 0
      BY <1>6, <3>1
    <3>2. CASE k # 0
      <4>1. k \in 1 .. N
        BY <3>2
      <4> QED BY <1>7, <3>2, <4>1
    <3> QED BY <3>1, <3>2
  <2> QED BY <2>1
<1>9. ASSUME NEW g, Is(g) PROVE g = f
  <2>1. /\ g[0] = 0 /\ \A k \in 1 .. N : g[k] = g[k - 1] + sizes[k]
    <3>1. \A k \in 0 .. N : g[k] = IF k = 0 THEN 0 ELSE g[k - 1] + sizes[k]
      BY <1>9
    <3>2. 0 \in 0 .. N /\ \A k \in 1 .. N : k \in 0 .. N /\ k # 0
      OBVIOUS
    <3> QED BY <3>1, <3>2, Zenon
  <2> DEFINE T == {n \in Nat : n <= N => g[n] = f[n]}
  <2>2. 0 \in T
    BY <1>6, <2>1
  <2>3. ASSUME NEW n \in Nat, n \in T PROVE n + 1 \in T
    <3> SUFFICES ASSUME n + 1 <= N PROVE g[n + 1] = f[n + 1]
      OBVIOUS
    <3>1. n + 1 \in 1 .. N /\ (n + 1) - 1 = n /\ g[n] = f[n]
      BY <2>3
    <3> QED BY <1>7, <2>1, <3>1
  <2> HIDE DEF T
  <2>4. \A n \in Nat : n \in T
    BY <2>2, <2>3, NumbersFromZero
  <2>5. \A n \in 0 .. N : g[n] = f[n]
    BY <2>4 DEF T
  <2>6. \E G : g = [i \in 0 .. N |-> G[i]]
    <3>1. PICK G : G = [i \in 0 .. N |-> IF i = 0 THEN 0 ELSE g[i - 1] + sizes[i]]
      OBVIOUS
    <3>2. g = [i \in 0 .. N |-> IF i = 0 THEN 0 ELSE g[i - 1] + sizes[i]]
      BY <1>9
    <3>3. \A i \in 0 .. N : G[i] = IF i = 0 THEN 0 ELSE g[i - 1] + sizes[i]
      BY <3>1
    <3> QED BY <3>1, <3>2, <3>3
  <2> QED BY <2>5, <2>6
<1>10. Bounds(sizes) = f
  BY <1>3, <1>8, <1>9
<1> QED BY <1>1, <1>6, <1>7, <1>10 DEF BoundsOf

LEMMA TotalIs ==
  ASSUME NEW sizes \in Seq(Int), NEW f, BoundsOf(f, sizes)
  PROVE  /\ TotalSize(sizes) = f[Len(sizes)] /\ TotalSize(sizes) \in Int
         /\ \A n \in 0 .. Len(sizes) : f[n] = Bounds(sizes)[n] /\ f[n] \in Int
<1>1. PICK N \in Nat : N = Len(sizes)
  OBVIOUS
<1>2. PICK g : g = Bounds(sizes) /\ g \in [0 .. N -> Int] /\ BoundsOf(g, sizes)
  BY <1>1, BoundsAre
<1> DEFINE T == {n \in Nat : n <= N => g[n] = f[n]}
<1>3. 0 \in T
  BY <1>2 DEF BoundsOf
<1>4. ASSUME NEW n \in Nat, n \in T PROVE n + 1 \in T
  <2> SUFFICES ASSUME n + 1 <= N PROVE g[n + 1] = f[n + 1]
    OBVIOUS
  <2>1. n + 1 \in 1 .. N /\ (n + 1) - 1 = n /\ g[n] = f[n]
    BY <1>4
  <2> QED BY <1>1, <1>2, <2>1 DEF BoundsOf
<1> HIDE DEF T
<1>5. \A n \in Nat : n \in T
  BY <1>3, <1>4, NumbersFromZero
<1>6. \A n \in 0 .. N : f[n] = g[n] /\ f[n] \in Int
  BY <1>2, <1>5 DEF T
<1>7. N \in 0 .. N
  OBVIOUS
<1> QED BY <1>1, <1>2, <1>6, <1>7 DEF TotalSize

LEMMA TotalAppend ==
  ASSUME NEW sizes \in Seq(Int), NEW x \in Int
  PROVE  /\ TotalSize(<<>>) = 0 /\ TotalSize(Append(sizes, x)) = TotalSize(sizes) + x
         /\ \A n \in 0 .. Len(sizes) : Bounds(Append(sizes, x))[n] = Bounds(sizes)[n]
<1>1. PICK N \in Nat : N = Len(sizes)
  OBVIOUS
<1>2. PICK more \in Seq(Int) : more = Append(sizes, x)
  <2>1. Append(sizes, x) \in Seq(Int)
    OBVIOUS
  <2> QED BY <2>1
<1>3. Len(more) = N + 1 /\ more[N + 1] = x /\ \A k \in 1 .. N : more[k] = sizes[k]
  BY <1>1, <1>2
<1>4. PICK g : g = Bounds(more) /\ g \in [0 .. N + 1 -> Int] /\ BoundsOf(g, more)
  BY <1>3, BoundsAre
<1>5. BoundsOf(g, sizes)
  <2>1. \A i \in 1 .. N : i \in 1 .. N + 1
    OBVIOUS
  <2> QED BY <1>1, <1>3, <1>4, <2>1 DEF BoundsOf
<1>6. TotalSize(sizes) = g[N]
  BY <1>1, <1>5, TotalIs
<1>7. TotalSize(more) = g[N + 1]
  BY <1>3, <1>4 DEF TotalSize
<1>8. N + 1 \in 1 .. Len(more) /\ (N + 1) - 1 = N
  BY <1>3
<1>9. g[N + 1] = g[N] + x
  BY <1>3, <1>4, <1>8 DEF BoundsOf
<1>10. TotalSize(<<>>) = 0
  <2>1. <<>> \in Seq(Int) /\ Len(<<>>) = 0
    OBVIOUS
  <2> QED BY <2>1, BoundsAre DEF TotalSize, BoundsOf
<1> QED BY <1>1, <1>2, <1>4, <1>5, <1>6, <1>7, <1>9, <1>10, TotalIs

\* Sizes that are natural numbers end in their order.
LEMMA BoundsGrow ==
  ASSUME NEW sizes \in Seq(Nat), NEW f, BoundsOf(f, sizes), NEW i \in 0 .. Len(sizes), NEW j \in i .. Len(sizes)
  PROVE  f[i] \in Nat /\ f[j] \in Nat /\ f[i] <= f[j]
<1>1. PICK N \in Nat : N = Len(sizes)
  OBVIOUS
<1>2. \A k \in 1 .. N : sizes[k] \in Nat
  BY <1>1
<1> DEFINE T == {n \in Nat : n <= N => /\ f[n] \in Nat /\ (i <= n => f[i] <= f[n])}
<1>3. 0 \in T
  BY DEF BoundsOf
<1>4. ASSUME NEW n \in Nat, n \in T PROVE n + 1 \in T
  <2> SUFFICES ASSUME n + 1 <= N PROVE f[n + 1] \in Nat /\ (i <= n + 1 => f[i] <= f[n + 1])
    OBVIOUS
  <2>1. n + 1 \in 1 .. N /\ (n + 1) - 1 = n /\ f[n] \in Nat /\ (i <= n => f[i] <= f[n])
    BY <1>4
  <2>2. PICK z \in Nat : z = sizes[n + 1] /\ f[n + 1] = f[n] + z
    BY <1>1, <1>2, <2>1 DEF BoundsOf
  <2>3. f[n + 1] \in Nat /\ f[n] <= f[n + 1]
    BY <2>1, <2>2
  <2>4. ASSUME i <= n + 1 PROVE f[i] <= f[n + 1]
    <3>1. CASE i <= n
      <4>1. f[i] <= f[n] /\ f[n] <= f[n + 1]
        BY <2>1, <2>3, <3>1
      <4>2. f[i] \in Int
        <5>1. \A s \in Seq(Nat) : s \in Seq(Int)
          OBVIOUS
        <5> QED BY <5>1, TotalIs
      <4> QED BY <2>1, <2>3, <4>1, <4>2
    <3>2. CASE i = n + 1
      BY <2>3, <3>2
    <3> QED BY <2>4, <3>1, <3>2
  <2> QED BY <2>3, <2>4
<1> HIDE DEF T
<1>5. \A n \in Nat : n \in T
  BY <1>3, <1>4, NumbersFromZero
<1>6. i \in Nat /\ j \in Nat /\ i <= j /\ j <= N /\ i <= N
  BY <1>1
<1>7. i \in T /\ j \in T
  BY <1>5, <1>6
<1> QED BY <1>6, <1>7 DEF T

\* The lengths of frames, and where they are in all of them.
Lengths(frames) == [i \in 1 .. Len(frames) |-> Len(frames[i])]

LEMMA LengthsAre ==
  ASSUME NEW A, NEW frames \in Seq(Seq(A))
  PROVE  /\ Lengths(frames) \in Seq(Nat) /\ Lengths(frames) \in Seq(Int) /\ Len(Lengths(frames)) = Len(frames)
         /\ \A i \in 1 .. Len(frames) : Lengths(frames)[i] = Len(frames[i]) /\ Len(frames[i]) \in Nat /\ frames[i] \in Seq(A)
<1>1. PICK N \in Nat : N = Len(frames)
  OBVIOUS
<1>2. \A i \in 1 .. N : frames[i] \in Seq(A)
  BY <1>1
<1>3. \A i \in 1 .. N : Len(frames[i]) \in Nat
  BY <1>2
<1>4. PICK l : l = [i \in 1 .. N |-> Len(frames[i])]
  OBVIOUS
<1>5. l \in [1 .. N -> Nat]
  BY <1>3, <1>4
<1>6. l \in Seq(Nat) /\ l \in Seq(Int) /\ Len(l) = N
  BY <1>5
<1> QED BY <1>1, <1>2, <1>3, <1>4, <1>6 DEF Lengths

LEMMA Pieces ==
  ASSUME NEW A, NEW frames \in Seq(Seq(A)), NEW p, BoundsOf(p, Lengths(frames))
  PROVE  /\ FlattenSeq(frames) \in Seq(A) /\ Len(FlattenSeq(frames)) = p[Len(frames)]
         /\ \A i \in 1 .. Len(frames) :
              /\ p[i - 1] \in Nat /\ p[i] = p[i - 1] + Len(frames[i]) /\ p[i] <= p[Len(frames)]
              /\ \A j \in 1 .. Len(frames[i]) : FlattenSeq(frames)[p[i - 1] + j] = frames[i][j]
<1>1. PICK N \in Nat : N = Len(frames)
  OBVIOUS
<1>2. /\ Lengths(frames) \in Seq(Nat) /\ Len(Lengths(frames)) = N
      /\ \A i \in 1 .. N : Lengths(frames)[i] = Len(frames[i]) /\ Len(frames[i]) \in Nat /\ frames[i] \in Seq(A)
  BY <1>1, LengthsAre
<1>3. p[0] = 0 /\ \A i \in 1 .. N : p[i] = p[i - 1] + Len(frames[i])
  BY <1>2 DEF BoundsOf
<1>4. \A i \in 0 .. N : \A j \in i .. N : p[i] \in Nat /\ p[j] \in Nat /\ p[i] <= p[j]
  BY <1>2, BoundsGrow
<1>5. PICK f \in [0 .. N -> Seq(A)] : f[0] = <<>> /\ \A k \in 1 .. N : f[k] = f[k - 1] \o frames[k]
  BY <1>1, FlattenExists DEF Flattening, Flattens
<1>6. FlattenSeq(frames) = f[N]
  BY <1>1, <1>5, FlattenIs DEF Flattens
<1> DEFINE Holds(i, n) == \A j \in 1 .. Len(frames[i]) : f[n][p[i - 1] + j] = frames[i][j]
           T == {n \in Nat : n <= N => Len(f[n]) = p[n] /\ \A i \in 1 .. n : Holds(i, n)}
<1>7. 0 \in T
  BY <1>3, <1>5
<1>8. ASSUME NEW n \in Nat, n \in T PROVE n + 1 \in T
  <2> SUFFICES ASSUME n + 1 <= N PROVE Len(f[n + 1]) = p[n + 1] /\ \A i \in 1 .. n + 1 : Holds(i, n + 1)
    OBVIOUS
  <2>1. n + 1 \in 1 .. N /\ n + 1 \in 0 .. N /\ (n + 1) - 1 = n /\ n \in 0 .. N /\ n <= N
    OBVIOUS
  <2>2. PICK a \in Seq(A), b \in Seq(A), c \in Seq(A) : a = f[n] /\ b = frames[n + 1] /\ c = f[n + 1] /\ c = a \o b
    BY <1>2, <1>5, <2>1
  <2>3. Len(a) = p[n] /\ \A i \in 1 .. n : Holds(i, n)
    BY <1>8, <2>1, <2>2
  <2>4. Len(c) = Len(a) + Len(b) /\ p[n + 1] = p[n] + Len(b)
    BY <1>3, <2>1, <2>2
  <2>5. ASSUME NEW i \in 1 .. n + 1, NEW j \in 1 .. Len(frames[i]) PROVE c[p[i - 1] + j] = frames[i][j]
    <3>1. CASE i = n + 1
      <4>1. p[i - 1] = Len(a) /\ j \in 1 .. Len(b)
        BY <2>1, <2>2, <2>3, <3>1
      <4>2. c[Len(a) + j] = b[j]
        <5>1. PICK y \in 1 .. Len(b) : y = j
          BY <4>1
        <5>2. Joined(A, a, b, c)
          BY <2>2, JoinedAt
        <5>3. c[Len(a) + y] = b[y]
          BY <5>1, <5>2 DEF Joined
        <5> QED BY <2>2, <5>1, <5>3
      <4> QED BY <2>2, <3>1, <4>1, <4>2
    <3>2. CASE i # n + 1
      <4>1. i \in 1 .. n /\ i \in 1 .. N /\ i - 1 \in 0 .. N /\ n \in i .. N /\ i \in 0 .. N
        BY <2>1, <3>2
      <4>2. p[i] <= p[n] /\ p[i] \in Nat /\ p[n] \in Nat
        BY <1>4, <4>1
      <4>3. p[i - 1] \in Nat /\ p[i] = p[i - 1] + Len(frames[i]) /\ Len(frames[i]) \in Nat
        BY <1>2, <1>3, <1>4, <4>1, SMTT(30)
      <4>4. PICK x \in 1 .. Len(a) : x = p[i - 1] + j
        <5>1. PICK q \in Nat, m \in Nat : q = p[i - 1] /\ m = Len(frames[i]) /\ p[i] = q + m
          BY <4>3
        <5>2. PICK y \in 1 .. m, l \in Nat : y = j /\ l = Len(a) /\ q + m <= l
          BY <2>3, <4>2, <5>1
        <5>3. q + y \in 1 .. l
          BY <5>2
        <5> QED BY <5>1, <5>2, <5>3
      <4>5. c[x] = a[x]
        <5>1. Joined(A, a, b, c)
          BY <2>2, JoinedAt
        <5> QED BY <4>4, <5>1 DEF Joined
      <4> QED BY <2>2, <2>3, <4>1, <4>4, <4>5
    <3> QED BY <3>1, <3>2
  <2>6. Len(f[n + 1]) = p[n + 1]
    BY <2>2, <2>3, <2>4
  <2> QED BY <2>2, <2>5, <2>6
<1> HIDE DEF T
<1>9. \A n \in Nat : n \in T
  BY <1>7, <1>8, NumbersFromZero
<1>10. Len(f[N]) = p[N] /\ \A i \in 1 .. N : Holds(i, N)
  BY <1>9 DEF T
<1>11. \A i \in 1 .. N : p[i - 1] \in Nat /\ p[i] <= p[N]
  <2>1. \A i \in 1 .. N : i - 1 \in 0 .. N /\ N \in i .. N /\ i \in 0 .. N /\ N \in i - 1 .. N
    OBVIOUS
  <2> QED BY <1>4, <2>1
<1> QED BY <1>1, <1>3, <1>5, <1>6, <1>10, <1>11

\* Frames cut at their lengths are themselves.
LEMMA CutFrames ==
  ASSUME NEW A, NEW frames \in Seq(Seq(A))
  PROVE  Cut(FlattenSeq(frames), Lengths(frames)) = Got(frames, Len(FlattenSeq(frames)))
<1>1. PICK N \in Nat : N = Len(frames)
  OBVIOUS
<1>2. /\ Lengths(frames) \in Seq(Int) /\ Len(Lengths(frames)) = N
      /\ \A i \in 1 .. N : Len(frames[i]) \in Nat /\ frames[i] \in Seq(A)
  BY <1>1, LengthsAre
<1>3. PICK p : p = Bounds(Lengths(frames)) /\ BoundsOf(p, Lengths(frames)) /\ TotalSize(Lengths(frames)) = p[N]
  BY <1>2, BoundsAre DEF TotalSize
<1>4. PICK s \in Seq(A) : s = FlattenSeq(frames) /\ Len(s) = p[N]
  BY <1>1, <1>3, Pieces
<1>5. \A i \in 1 .. N : /\ p[i - 1] \in Nat /\ p[i] = p[i - 1] + Len(frames[i]) /\ p[i] <= p[N]
                        /\ \A j \in 1 .. Len(frames[i]) : s[p[i - 1] + j] = frames[i][j]
  BY <1>1, <1>3, <1>4, Pieces, SMTT(30)
<1>6. ASSUME NEW i \in 1 .. N PROVE SubSeq(s, p[i - 1] + 1, p[i]) = frames[i]
  <2>1. PICK b \in Seq(A), m \in Nat, q \in Nat : b = frames[i] /\ m = Len(b) /\ q = p[i - 1] /\ p[i] = q + m
    BY <1>2, <1>5
  <2>2. q + m <= Len(s) /\ \A j \in 1 .. m : s[q + j] = b[j]
    BY <1>4, <1>5, <2>1
  <2>3. PICK c : c = SubSeq(s, q + 1, q + m)
    OBVIOUS
  <2>4. PartOfAt(A, s, q, m, c)
    BY <1>4, <2>1, <2>2, <2>3, PartAt
  <2>5. c \in Seq(A) /\ Len(b) = Len(c) /\ \A j \in 1 .. Len(b) : b[j] = c[j]
    BY <2>1, <2>2, <2>4 DEF PartOfAt
  <2>6. b = c
    BY <2>1, <2>5, SameSequence, Zenon
  <2> QED BY <2>1, <2>3, <2>6
<1>7. DOMAIN Lengths(frames) = 1 .. N
  BY <1>1 DEF Lengths
<1>8. [i \in 1 .. N |-> SubSeq(s, p[i - 1] + 1, p[i])] = frames
  BY <1>1, <1>6
<1>9. ~(Len(s) < TotalSize(Lengths(frames)))
  BY <1>3, <1>4
<1> QED BY <1>3, <1>4, <1>7, <1>8, <1>9 DEF Cut

\* What was cut was that long.
LEMMA CutGives ==
  ASSUME NEW A, NEW s \in Seq(A), NEW sizes \in Seq(Nat), Cut(s, sizes).ok
  PROVE  /\ Cut(s, sizes).v \in Seq(Seq(A)) /\ Lengths(Cut(s, sizes).v) = sizes
         /\ Cut(s, sizes).n = TotalSize(sizes) /\ TotalSize(sizes) <= Len(s)
<1>1. PICK N \in Nat : N = Len(sizes)
  OBVIOUS
<1>2. sizes \in Seq(Int) /\ DOMAIN sizes = 1 .. N
  BY <1>1
<1>3. PICK p : p = Bounds(sizes) /\ BoundsOf(p, sizes) /\ TotalSize(sizes) = p[N] /\ p[N] \in Int
  BY <1>1, <1>2, BoundsAre, TotalIs DEF TotalSize
<1>4. ~(Len(s) < p[N])
  BY <1>3 DEF Cut, UnexpectedEOF
<1>5. PICK frames : frames = [i \in 1 .. N |-> SubSeq(s, p[i - 1] + 1, p[i])]
  OBVIOUS
<1>6. Cut(s, sizes) = Got(frames, p[N])
  BY <1>2, <1>3, <1>4, <1>5 DEF Cut
<1>7. ASSUME NEW i \in 1 .. N PROVE frames[i] \in Seq(A) /\ Len(frames[i]) = sizes[i]
  <2>1. i - 1 \in 0 .. N /\ i \in i - 1 .. N /\ i \in 0 .. N /\ N \in i .. N
    OBVIOUS
  <2>2. p[i - 1] \in Nat /\ p[i] \in Nat /\ p[i] <= p[N] /\ p[i - 1] <= p[i]
    BY <1>1, <1>3, <2>1, BoundsGrow
  <2>3. p[i] = p[i - 1] + sizes[i] /\ sizes[i] \in Nat
    BY <1>1, <1>3 DEF BoundsOf
  <2>4. PICK q \in Nat, m \in Nat : q = p[i - 1] /\ m = sizes[i] /\ p[i] = q + m /\ q + m <= Len(s)
    BY <1>3, <1>4, <2>2, <2>3, SMTT(30)
  <2>5. PICK c : c = frames[i] /\ c = SubSeq(s, q + 1, q + m)
    BY <1>5, <2>4
  <2>6. c \in Seq(A) /\ Len(c) = m
    <3>1. PartOfAt(A, s, q, m, c)
      BY <2>4, <2>5, PartAt
    <3> QED BY <3>1 DEF PartOfAt
  <2> QED BY <2>4, <2>5, <2>6
<1>8. frames \in Seq(Seq(A)) /\ Len(frames) = N
  <2>1. frames \in [1 .. N -> Seq(A)]
    BY <1>5, <1>7
  <2> QED BY <2>1
<1>9. Lengths(frames) = sizes
  <2>1. \A i \in 1 .. N : Lengths(frames)[i] = sizes[i]
    BY <1>7, <1>8 DEF Lengths
  <2>2. PICK l \in Seq(Nat) : l = Lengths(frames) /\ Len(l) = N
    BY <1>8, LengthsAre
  <2>3. \A i \in 1 .. N : l[i] = sizes[i]
    BY <2>1, <2>2
  <2>4. l = sizes
    BY <1>1, <2>2, <2>3, SameSequence
  <2> QED BY <2>2, <2>4
<1> QED BY <1>3, <1>4, <1>6, <1>8, <1>9 DEF Got

----------------------------------------------------------------------------
(* A block is read back if its frames are *)

LEMMA SmallPowers ==
  \E z \in Nat \ {0} : Two[OctetBits - 1] = 16 * z /\ Base = 32 * z
<1>1. Two[0] = 1 /\ Two[1] = 2 /\ Two[2] = 4 /\ Two[3] = 8 /\ Two[4] = 16 /\ Two[5] = 32
  <2>1. 1 \in 1 .. Bits /\ 2 \in 1 .. Bits /\ 3 \in 1 .. Bits /\ 4 \in 1 .. Bits /\ 5 \in 1 .. Bits
    BY BitsAre
  <2> QED BY <2>1, TwoIs
<1>2. PICK d \in Nat : OctetBits - 1 = 4 + d /\ OctetBits = 5 + d
  <2>1. OctetBits - 5 \in Nat /\ OctetBits - 1 = 4 + (OctetBits - 5) /\ OctetBits = 5 + (OctetBits - 5)
    BY BitsAre
  <2> QED BY <2>1
<1>3. 4 + d <= Bits /\ 5 + d <= Bits /\ d \in 0 .. Bits
  BY <1>2, BitsAre, Products
<1>4. Two[4 + d] = Two[4] * Two[d] /\ Two[5 + d] = Two[5] * Two[d]
  BY <1>3, TwoSum
<1>5. PICK z \in Nat \ {0} : z = Two[d]
  BY <1>3, TwoPositive
<1> QED BY <1>1, <1>2, <1>4, <1>5 DEF Base

LEMMA FlagsAre ==
  ASSUME NEW b \in Block
  PROVE  LET f == packFlags(b)
         IN  /\ f \in Octet /\ (f >= Two[OctetBits - 1]) = b.keyframe /\ ((f \div 8) % 2 = 1) = b.invisible
             /\ (f \div 2) % 4 = b.lacing /\ (f % 2 = 1) = b.discardable
<1>1. b.keyframe \in BOOLEAN /\ b.invisible \in BOOLEAN /\ b.discardable \in BOOLEAN /\ b.lacing \in 0 .. 3
  BY DEF Block, LacingNo, LacingEBML
<1>2. PICK z \in Nat \ {0} : Two[OctetBits - 1] = 16 * z /\ Base = 32 * z
  BY SmallPowers
<1>3. PICK key \in {0, 1}, inv \in {0, 1}, dis \in {0, 1}, l \in 0 .. 3 :
        /\ key = Bit(b.keyframe) /\ inv = Bit(b.invisible) /\ dis = Bit(b.discardable) /\ l = b.lacing
        /\ b.keyframe = (key = 1) /\ b.invisible = (inv = 1) /\ b.discardable = (dis = 1)
  <2>1. \A x \in BOOLEAN : Bit(x) \in {0, 1} /\ x = (Bit(x) = 1)
    BY DEF Bit
  <2> QED BY <1>1, <2>1
<1>4. PICK w \in Nat : w = key * z /\ (key = 0 => w = 0) /\ (key = 1 => w = z)
  <2>1. key * z \in Nat /\ (key = 0 => key * z = 0) /\ (key = 1 => key * z = z)
    OBVIOUS
  <2> QED BY <2>1
<1>5. PICK f \in Nat : f = 16 * w + inv * 8 + l * 2 + dis
  OBVIOUS
<1>6. packFlags(b) = f
  <2>1. key * (16 * z) = 16 * w
    BY <1>4
  <2> QED BY <1>2, <1>3, <1>5, <2>1 DEF packFlags
<1>7. f \in Octet
  BY <1>2, <1>4, <1>5 DEF Octet
<1>8. (f >= 16 * z) = (key = 1)
  BY <1>4, <1>5
<1>9. f \div 8 = 2 * w + inv /\ f \div 2 = 8 * w + inv * 4 + l /\ f % 2 = dis
  BY <1>5
<1>10. (f \div 8) % 2 = inv /\ (f \div 2) % 4 = l
  BY <1>9
<1> QED BY <1>2, <1>3, <1>6, <1>7, <1>8, <1>9, <1>10

\* What is in octets before the frames.
HeadOfBlock(m, E, T, f, L) ==
  /\ m \in Seq(Octet) /\ Len(m) = Len(E) + 3 + Len(L)
  /\ \A i \in 1 .. Len(E) : m[i] = E[i]
  /\ \A i \in 1 .. 2 : m[Len(E) + i] = T[i]
  /\ m[Len(E) + 3] = f
  /\ \A i \in 1 .. Len(L) : m[Len(E) + 3 + i] = L[i]

LEMMA HeadOfBlockIs ==
  ASSUME NEW E \in Seq(Octet), NEW T \in Seq(Octet), Len(T) = 2, NEW f \in Octet, NEW L \in Seq(Octet)
  PROVE  HeadOfBlock(E \o T \o <<f>> \o L, E, T, f, L)
<1>1. PICK F : F = <<f>>
  OBVIOUS
<1>2. F \in Seq(Octet) /\ Len(F) = 1 /\ F[1] = f
  BY <1>1
<1>3. PICK a : a = E \o T
  OBVIOUS
<1>4. PICK b : b = a \o F
  OBVIOUS
<1>5. PICK m : m = b \o L
  OBVIOUS
<1>6. PICK k \in Nat, n \in Nat : k = Len(E) /\ n = Len(L)
  OBVIOUS
<1>7. a \in Seq(Octet) /\ Len(a) = k + 2 /\ (\A i \in 1 .. k : a[i] = E[i]) /\ \A i \in 1 .. 2 : a[k + i] = T[i]
  <2>1. Joined(Octet, E, T, a)
    BY <1>3, JoinedAt
  <2> QED BY <1>6, <2>1 DEF Joined
<1>8. /\ b \in Seq(Octet) /\ Len(b) = k + 3 /\ \A i \in 1 .. k : b[i] = E[i]
      /\ \A i \in 1 .. 2 : b[k + i] = T[i]
      /\ b[k + 3] = f
  <2>1. Joined(Octet, a, F, b)
    BY <1>2, <1>4, <1>7, JoinedAt
  <2>2. b \in Seq(Octet) /\ Len(b) = k + 3 /\ (\A i \in 1 .. k + 2 : b[i] = a[i]) /\ b[(k + 2) + 1] = f
    BY <1>2, <1>7, <2>1 DEF Joined
  <2>3. (\A i \in 1 .. k : i \in 1 .. k + 2) /\ (\A i \in 1 .. 2 : k + i \in 1 .. k + 2) /\ (k + 2) + 1 = k + 3
    OBVIOUS
  <2> QED BY <1>7, <2>2, <2>3
<1>9. /\ m \in Seq(Octet) /\ Len(m) = k + 3 + n /\ \A i \in 1 .. k : m[i] = E[i]
      /\ \A i \in 1 .. 2 : m[k + i] = T[i]
      /\ m[k + 3] = f /\ \A i \in 1 .. n : m[k + 3 + i] = L[i]
  <2>1. Joined(Octet, b, L, m)
    BY <1>5, <1>8, JoinedAt
  <2>2. m \in Seq(Octet) /\ Len(m) = k + 3 + n /\ (\A i \in 1 .. k + 3 : m[i] = b[i]) /\ \A i \in 1 .. n : m[k + 3 + i] = L[i]
    BY <1>6, <1>8, <2>1 DEF Joined
  <2>3. (\A i \in 1 .. k : i \in 1 .. k + 3) /\ (\A i \in 1 .. 2 : k + i \in 1 .. k + 3) /\ k + 3 \in 1 .. k + 3
    OBVIOUS
  <2> QED BY <1>8, <2>2, <2>3
<1> QED BY <1>1, <1>3, <1>4, <1>5, <1>6, <1>9 DEF HeadOfBlock

LEMMA BlockIsReadBack ==
  ASSUME NEW b \in Block, NEW L \in Seq(Octet), L = Lace(b)
  PROVE  BlockReadsBack(b) <=> ReadsBack(Unlace(b.lacing, L, Len(L)), b.data)
<1>1. b.track \in IDs /\ b.timecode \in -(Power(2) \div 2) .. Power(2) \div 2 - 1
  BY DEF Block
<1>2. PICK k \in 1 .. OctetBits - 1 : encodeElementID(b.track) = Marked(b.track, k) /\ b.track \in 0 .. Limit(k) - 1
  BY <1>1, ElementIDWritten
<1>3. k \in 1 .. OctetBits /\ k \in Nat /\ 2 \in 1 .. OctetBits /\ 2 \in 0 .. OctetBits
  BY BitsAre
<1>4. PICK E \in Seq(Octet) : E = Marked(b.track, k) /\ Len(E) = k
  BY <1>2, <1>3, MarkedIs
<1>5. PICK w \in Nat : w = b.timecode % Power(2) /\ w < Power(2)
  <2>1. PICK P \in Nat \ {0} : P = Power(2)
    BY <1>3, PowersAre
  <2>2. b.timecode \in Int
    BY <1>1, <2>1
  <2>3. b.timecode % P \in 0 .. P - 1
    BY <2>2, Dividing
  <2> QED BY <2>1, <2>3
<1>6. PICK T \in Seq(Octet) : T = Octets(w, 2) /\ Len(T) = 2
  BY <1>3, OctetsIs
<1>7. PICK f \in Octet : f = packFlags(b)
  BY FlagsAre
<1>8. PICK m : m = MarshalBlock(b) /\ m = E \o T \o <<f>> \o L
  BY <1>2, <1>4, <1>5, <1>6, <1>7 DEF MarshalBlock
<1>9. HeadOfBlock(m, E, T, f, L)
  BY <1>4, <1>6, <1>7, <1>8, HeadOfBlockIs
<1>10. PICK n \in Nat : n = Len(L)
  OBVIOUS
<1>11. /\ m \in Seq(Octet) /\ Len(m) = k + 3 + n /\ \A i \in 1 .. k : m[i] = E[i]
       /\ \A i \in 1 .. 2 : m[k + i] = T[i]
       /\ m[k + 3] = f /\ \A i \in 1 .. n : m[k + 3 + i] = L[i]
  BY <1>4, <1>9, <1>10 DEF HeadOfBlock
<1>12. readVUInt(m) = Got(b.track, k)
  <2>1. Len(m) >= k /\ \A i \in 1 .. k : m[i] = Marked(b.track, k)[i]
    BY <1>3, <1>4, <1>10, <1>11
  <2> QED BY <1>2, <1>3, <1>11, <2>1, ReadMarked
<1>13. PICK s : s = SubSeq(m, k + 1, Len(m))
  OBVIOUS
<1>14. s \in Seq(Octet) /\ Len(s) = 3 + n /\ \A i \in 1 .. 3 + n : s[i] = m[k + i]
  <2>1. 3 + n \in Nat /\ k + (3 + n) = Len(m)
    BY <1>3, <1>10, <1>11
  <2>2. s = SubSeq(m, k + 1, k + (3 + n)) /\ k + (3 + n) <= Len(m)
    BY <1>11, <1>13, <2>1
  <2>3. PartOfAt(Octet, m, k, 3 + n, s)
    BY <1>3, <1>11, <2>1, <2>2, PartAt
  <2> QED BY <2>3 DEF PartOfAt
<1>15. s[1] = T[1] /\ s[2] = T[2] /\ s[3] = f
  <2>1. 1 \in 1 .. 3 + n /\ 2 \in 1 .. 3 + n /\ 3 \in 1 .. 3 + n /\ 1 \in 1 .. 2 /\ 2 \in 1 .. 2
    OBVIOUS
  <2> QED BY <1>11, <1>14, <2>1
<1>16. readInt(s, 2) = Got(b.timecode, 2)
  <2>1. Len(s) >= 2 /\ \A i \in 1 .. 2 : s[i] = T[i]
    BY <1>14, <1>15
  <2>2. \A i \in 1 .. 2 : s[i] = Octets(b.timecode % Power(2), 2)[i]
    BY <1>5, <1>6, <2>1
  <2> QED BY <1>1, <1>3, <1>14, <2>1, <2>2, ReadSignedWord
<1>17. SubSeq(s, 4, Len(s)) = L
  <2>1. PICK c : c = SubSeq(s, 3 + 1, 3 + n)
    OBVIOUS
  <2>2. PartOfAt(Octet, s, 3, n, c)
    <3>1. 3 \in Nat /\ 3 + n <= Len(s)
      BY <1>14
    <3> QED BY <1>14, <2>1, <3>1, PartAt
  <2>3. ASSUME NEW i \in 1 .. n PROVE c[i] = L[i]
    <3>1. 3 + i \in 1 .. 3 + n /\ k + (3 + i) = k + 3 + i
      BY <1>3
    <3>2. c[i] = s[3 + i]
      BY <2>2 DEF PartOfAt
    <3> QED BY <1>11, <1>14, <3>1, <3>2
  <2>4. c \in Seq(Octet) /\ Len(c) = Len(L) /\ \A i \in 1 .. Len(c) : c[i] = L[i]
    BY <1>10, <2>2, <2>3 DEF PartOfAt
  <2>5. c = L
    BY <2>4, SameSequence, Zenon
  <2>6. 3 + 1 = 4
    OBVIOUS
  <2> QED BY <1>14, <2>1, <2>5, <2>6
<1>18. PICK u : u = Unlace(b.lacing, L, n)
  OBVIOUS
<1>19. PICK len : len = Len(m)
  OBVIOUS
<1>20. UnmarshalBlock(m, len) = BlockOf(b.track, b.timecode, f, u, len - k + k)
  <2>1. UnmarshalBlock(m, len) = AfterTrack(Got(b.track, k), s, len - k)
    BY <1>12, <1>13, <1>19 DEF UnmarshalBlock, Got
  <2>2. len - k >= 3 /\ (len - k) - 3 = n /\ ~(Len(s) < 3)
    BY <1>3, <1>11, <1>14, <1>19, SMTT(30)
  <2>3. (s[3] \div 2) % 4 = b.lacing
    BY <1>7, <1>15, FlagsAre
  <2>4. readInt(s, 2).v = b.timecode
    BY <1>16 DEF Got
  <2>5. Got(b.track, k).ok /\ Got(b.track, k).v = b.track /\ Got(b.track, k).n = k
    BY DEF Got
  <2>6. len - k \in Int /\ ~(len - k < 3)
    BY <1>3, <1>11, <1>19
  <2>7. AfterTrack(Got(b.track, k), s, len - k)
        = BlockOf(b.track, b.timecode, f, Unlace(b.lacing, L, n), len - k + k)
    BY <1>15, <1>17, <2>2, <2>3, <2>4, <2>5, <2>6 DEF AfterTrack
  <2> QED BY <1>18, <2>1, <2>7
<1>21. ReadsBack(UnmarshalBlock(m, len), b) <=> ReadsBack(u, b.data)
  <2>1. CASE ~u.ok
    BY <1>20, <2>1 DEF BlockOf, ReadsBack
  <2>2. CASE u.ok
    <3>1. UnmarshalBlock(m, len).ok /\ UnmarshalBlock(m, len).v =
            [track |-> b.track, timecode |-> b.timecode, keyframe |-> b.keyframe, invisible |-> b.invisible,
             lacing |-> b.lacing, discardable |-> b.discardable, data |-> u.v]
      <4>1. /\ (f >= Two[OctetBits - 1]) = b.keyframe /\ ((f \div 8) % 2 = 1) = b.invisible
            /\ (f \div 2) % 4 = b.lacing /\ (f % 2 = 1) = b.discardable
        BY <1>7, FlagsAre
      <4>2. UnmarshalBlock(m, len) = Got([track |-> b.track, timecode |-> b.timecode, keyframe |-> f >= Two[OctetBits - 1],
              invisible |-> (f \div 8) % 2 = 1, lacing |-> (f \div 2) % 4, discardable |-> f % 2 = 1, data |-> u.v],
              len - k + k)
        BY <1>20, <2>2 DEF BlockOf
      <4> QED BY <4>1, <4>2 DEF Got
    <3>2. b = [track |-> b.track, timecode |-> b.timecode, keyframe |-> b.keyframe, invisible |-> b.invisible,
               lacing |-> b.lacing, discardable |-> b.discardable, data |-> b.data]
      BY DEF Block
    <3>3. ASSUME UnmarshalBlock(m, len).v = b PROVE u.v = b.data
      BY <3>1, <3>3
    <3> QED BY <2>2, <3>1, <3>2, <3>3 DEF ReadsBack
  <2> QED BY <2>1, <2>2
<1> QED BY <1>8, <1>10, <1>18, <1>19, <1>21 DEF BlockReadsBack

----------------------------------------------------------------------------
(* The frames of a block without lacing, and of fixed size *)

LEMMA DataIs ==
  ASSUME NEW b \in Block
  PROVE  /\ b.data \in Seq(Seq(Octet)) /\ FlattenSeq(b.data) \in Seq(Octet)
         /\ \A i \in 1 .. Len(b.data) : b.data[i] \in Seq(Octet) /\ Len(b.data[i]) \in IDs /\ Len(b.data[i]) \in Nat
<1>1. PICK F : F = {frame \in Seq(Octet) : Len(frame) \in IDs}
  OBVIOUS
<1>2. b.data \in Seq(F)
  BY <1>1 DEF Block, Octet
<1>3. F \subseteq Seq(Octet)
  BY <1>1
<1>4. b.data \in Seq(Seq(Octet))
  BY <1>2, <1>3
<1>5. \A i \in 1 .. Len(b.data) : b.data[i] \in F
  BY <1>2
<1>6. \A f \in F : f \in Seq(Octet) /\ Len(f) \in IDs /\ Len(f) \in Nat
  BY <1>1
<1> QED BY <1>4, <1>5, <1>6, FlattenType

LEMMA TotalOfLengths ==
  ASSUME NEW A, NEW frames \in Seq(Seq(A)) PROVE TotalSize(Lengths(frames)) = Len(FlattenSeq(frames))
<1>1. Lengths(frames) \in Seq(Int) /\ Len(Lengths(frames)) = Len(frames)
  BY LengthsAre
<1>2. PICK p : BoundsOf(p, Lengths(frames)) /\ TotalSize(Lengths(frames)) = p[Len(frames)]
  BY <1>1, BoundsAre DEF TotalSize
<1> QED BY <1>2, Pieces

LEMMA ElementType == ASSUME NEW A, NEW s \in Seq(A), NEW i \in 1 .. Len(s) PROVE s[i] \in A
  OBVIOUS

LEMMA NotEmpty == ASSUME NEW A, NEW s \in Seq(A), s # <<>> PROVE Len(s) \in Nat /\ Len(s) # 0
  OBVIOUS

LEMMA NoData == ASSUME NEW b \in Block, b.data = <<>> PROVE Lace(b) = <<>> /\ ~ReadsBack(Unlace(b.lacing, <<>>, 0), b.data)
<1>1. Lace(b) = <<>>
  BY DEF Lace
<1>2. CASE b.lacing # LacingNo
  <2>1. Unlace(b.lacing, <<>>, 0) = UnexpectedEOF(Len(<<>>))
    BY <1>2 DEF Unlace
  <2> QED BY <1>1, <2>1 DEF ReadsBack, UnexpectedEOF
<1>3. CASE b.lacing = LacingNo
  <2>1. PICK s \in Seq(Octet) : s = <<>>
    <3>1. <<>> \in Seq(Octet)
      OBVIOUS
    <3> QED BY <3>1
  <2>2. PICK sizes \in Seq(Nat) : sizes = <<0>> /\ Len(sizes) = 1
    <3>1. <<0>> \in Seq(Nat) /\ Len(<<0>>) = 1
      OBVIOUS
    <3> QED BY <3>1
  <2>3. PICK u : u = Cut(s, sizes) /\ u = Unlace(b.lacing, <<>>, 0)
    BY <1>3, <2>1, <2>2 DEF Unlace
  <2>4. ASSUME u.ok, u.v = <<>> PROVE FALSE
    <3>1. u.v \in Seq(Seq(Octet)) /\ Lengths(u.v) = sizes
      BY <2>3, <2>4, CutGives
    <3>2. Len(Lengths(u.v)) = Len(u.v)
      BY <3>1, LengthsAre
    <3>3. Len(u.v) = 0
      BY <2>4
    <3> QED BY <2>2, <3>1, <3>2, <3>3
  <2> QED BY <1>1, <2>3, <2>4 DEF ReadsBack
<1> QED BY <1>2, <1>3

LEMMA UnlacedIsReadBack ==
  ASSUME NEW b \in Block, b.lacing = LacingNo, b.data # <<>>, ~LacerFails(b)
  PROVE  Lace(b) \in Seq(Octet) /\ ReadsBack(Unlace(b.lacing, Lace(b), Len(Lace(b))), b.data)
<1>1. PICK frames \in Seq(Seq(Octet)) : frames = b.data /\ FlattenSeq(frames) \in Seq(Octet)
  BY DataIs
<1>2. Len(frames) = 1
  <2>1. ~(Len(frames) > 1)
    BY <1>1 DEF LacerFails
  <2>2. frames # <<>>
    BY <1>1
  <2>3. Len(frames) \in Nat /\ Len(frames) # 0
    BY <2>2, NotEmpty
  <2>4. PICK n \in Nat : n = Len(frames)
    BY <2>3
  <2>5. n = 1
    BY <2>1, <2>3, <2>4
  <2> QED BY <2>4, <2>5
<1>3. PICK F \in Seq(Octet) : F = FlattenSeq(frames)
  BY <1>1
<1>4. Lace(b) = F
  <2>1. <<>> \o F = F
    BY EmptyFirst
  <2> QED BY <1>1, <1>3, <2>1 DEF Lace
<1>5. Lengths(frames) = <<Len(F)>>
  <2>1. PICK l \in Seq(Int) : l = Lengths(frames) /\ Len(l) = 1
    BY <1>2, LengthsAre
  <2>2. PICK x \in Int : x = l[1] /\ l = Append(<<>>, x)
    <3>1. l[1] \in Int
      <4>1. 1 \in 1 .. Len(l)
        BY <2>1
      <4> QED BY <2>1, <4>1, ElementType
    <3>2. PICK m : m = Append(<<>>, l[1])
      OBVIOUS
    <3>3. m \in Seq(Int) /\ Len(m) = 1 /\ m[1] = l[1]
      BY <3>1, <3>2
    <3>4. Len(l) = Len(m) /\ \A i \in 1 .. Len(l) : l[i] = m[i]
      <4>1. \A i \in 1 .. Len(l) : i = 1
        BY <2>1
      <4> QED BY <2>1, <3>3, <4>1
    <3>5. l = m
      BY <2>1, <3>3, <3>4, SameSequence, Zenon
    <3>6. l[1] \in Int /\ l = Append(<<>>, l[1])
      BY <3>1, <3>2, <3>5, Zenon
    <3> QED BY <3>6, Zenon
  <2>3. TotalSize(l) = x
    <3>1. <<>> \in Seq(Int)
      OBVIOUS
    <3>2. TotalSize(<<>>) = 0 /\ TotalSize(Append(<<>>, x)) = TotalSize(<<>>) + x
      BY <3>1, TotalAppend
    <3> QED BY <2>2, <3>2
  <2>4. x = Len(F)
    BY <1>3, <2>1, <2>3, TotalOfLengths
  <2>5. Append(<<>>, Len(F)) = <<Len(F)>>
    OBVIOUS
  <2> QED BY <2>1, <2>2, <2>4, <2>5
<1>6. Cut(F, <<Len(F)>>) = Got(frames, Len(F))
  BY <1>3, <1>5, CutFrames
<1>7. Unlace(b.lacing, F, Len(F)) = Got(frames, Len(F))
  BY <1>6 DEF Unlace
<1> QED BY <1>1, <1>4, <1>7 DEF ReadsBack, Got

LEMMA ThreeJoined ==
  ASSUME NEW A, NEW a \in Seq(A), NEW b \in Seq(A), NEW c \in Seq(A) PROVE (a \o b) \o c = a \o (b \o c)
  OBVIOUS

LEMMA OctetAndRest ==
  ASSUME NEW A, NEW o \in A, NEW r \in Seq(A)
  PROVE  \E L \in Seq(A) : L = <<o>> \o r /\ Len(L) = Len(r) + 1 /\ L[1] = o /\ Tail(L) = r /\ L # <<>>
<1>1. PICK L : L = <<o>> \o r
  OBVIOUS
<1>2. <<o>> \in Seq(A) /\ Len(<<o>>) = 1 /\ <<o>>[1] = o
  OBVIOUS
<1>3. Joined(A, <<o>>, r, L)
  BY <1>1, <1>2, JoinedAt
<1>4. L \in Seq(A) /\ Len(L) = 1 + Len(r) /\ L[1] = o /\ \A i \in 1 .. Len(r) : L[1 + i] = r[i]
  BY <1>2, <1>3 DEF Joined
<1>5. PICK t : t = Tail(L)
  OBVIOUS
<1>6. t \in Seq(A) /\ Len(t) = Len(r) /\ \A i \in 1 .. Len(r) : t[i] = r[i]
  BY <1>4, <1>5
<1>7. t = r
  <2>1. Len(t) = Len(r) /\ \A i \in 1 .. Len(t) : t[i] = r[i]
    BY <1>6
  <2> QED BY <1>6, <2>1, SameSequence, Zenon
<1>8. Len(L) = Len(r) + 1 /\ Len(L) # 0
  BY <1>4
<1>9. L # <<>>
  <2>1. Len(<<>>) = 0
    OBVIOUS
  <2> QED BY <1>8, <2>1
<1> QED BY <1>1, <1>4, <1>5, <1>7, <1>8, <1>9, Zenon

\* What is written with lacing: the number of frames less one, their sizes, and they.
Laced(b, S, k, L) ==
  LET F == FlattenSeq(b.data)
  IN  /\ L = Lace(b) /\ L \in Seq(Octet) /\ L # <<>> /\ Tail(L) = S \o F /\ S \o F \in Seq(Octet)
      /\ Len(L) - 1 = Len(S) + Len(F) /\ Len(S \o F) = Len(S) + Len(F) /\ L[1] = k - 1

LEMMA LacedIs ==
  ASSUME NEW b \in Block, b.lacing # LacingNo, b.data # <<>>, ~LacerFails(b), NEW S \in Seq(Octet), S = LaceSizes(b)
  PROVE  Len(b.data) \in Nat \ {0} /\ Laced(b, S, Len(b.data), Lace(b))
<1>1. PICK frames \in Seq(Seq(Octet)), F \in Seq(Octet) : frames = b.data /\ F = FlattenSeq(frames)
  BY DataIs
<1>2. PICK k \in Nat \ {0} : k = Len(frames)
  BY <1>1
<1>3. k - 1 \in Octet
  <2>1. ~(k > Base - 1)
    BY <1>1, <1>2 DEF LacerFails
  <2>2. Base \in Nat
    BY PowersAre
  <2> QED BY <2>1, <2>2 DEF Octet
<1>4. PICK o \in Octet : o = k - 1
  BY <1>3
<1>5. Lace(b) = (<<o>> \o S) \o F
  BY <1>1, <1>2, <1>4 DEF Lace
<1>6. PICK r \in Seq(Octet) : r = S \o F /\ Len(r) = Len(S) + Len(F)
  <2>1. PICK c : c = S \o F
    OBVIOUS
  <2>2. Joined(Octet, S, F, c)
    BY <1>1, <2>1, JoinedAt
  <2> QED BY <2>1, <2>2 DEF Joined
<1>7. (<<o>> \o S) \o F = <<o>> \o r
  <2>1. <<o>> \in Seq(Octet)
    OBVIOUS
  <2>2. (<<o>> \o S) \o F = <<o>> \o (S \o F)
    BY <2>1, ThreeJoined
  <2> QED BY <1>6, <2>2
<1>8. PICK L \in Seq(Octet) : L = <<o>> \o r /\ Len(L) = Len(r) + 1 /\ L[1] = o /\ Tail(L) = r /\ L # <<>>
  <2> QED BY <1>4, <1>6, OctetAndRest, ZenonT(30)
<1>9. Len(L) - 1 = Len(S) + Len(F)
  BY <1>1, <1>6, <1>8
<1> QED BY <1>1, <1>2, <1>4, <1>5, <1>6, <1>7, <1>8, <1>9 DEF Laced

\* As many times n as there are sizes.
LEMMA TotalOfSame ==
  ASSUME NEW sizes \in Seq(Nat), NEW n \in Nat, \A i \in 1 .. Len(sizes) : sizes[i] = n
  PROVE  TotalSize(sizes) = Len(sizes) * n
<1>1. PICK N \in Nat : N = Len(sizes)
  OBVIOUS
<1>2. sizes \in Seq(Int)
  OBVIOUS
<1>3. PICK p : BoundsOf(p, sizes) /\ TotalSize(sizes) = p[N]
  BY <1>1, <1>2, BoundsAre DEF TotalSize
<1> DEFINE T == {k \in Nat : k <= N => p[k] = k * n}
<1>4. 0 \in T
  BY <1>3 DEF BoundsOf
<1>5. ASSUME NEW k \in Nat, k \in T PROVE k + 1 \in T
  <2> SUFFICES ASSUME k + 1 <= N PROVE p[k + 1] = (k + 1) * n
    OBVIOUS
  <2>1. k + 1 \in 1 .. N /\ (k + 1) - 1 = k /\ p[k] = k * n
    BY <1>5
  <2>2. p[k + 1] = p[k] + n
    BY <1>1, <1>3, <2>1 DEF BoundsOf
  <2>3. (k + 1) * n = k * n + n
    OBVIOUS
  <2> QED BY <2>1, <2>2, <2>3
<1> HIDE DEF T
<1>6. \A k \in Nat : k \in T
  BY <1>4, <1>5, NumbersFromZero
<1> QED BY <1>1, <1>3, <1>6 DEF T

LEMMA UnlaceFixed ==
  ASSUME NEW l, l = LacingFixed, NEW s, s # <<>>, NEW n, (n - 1) % (s[1] + 1) = 0
  PROVE  Unlace(l, s, n) = Cut(Tail(s), [i \in 1 .. s[1] + 1 |-> (n - 1) \div (s[1] + 1)])
<1>1. l # LacingNo
  BY DEF LacingFixed, LacingNo
<1>2. ~(s = <<>> \/ (l = LacingFixed /\ (n - 1) % (s[1] + 1) # 0))
  OBVIOUS
<1>3. l # LacingXiph /\ l # LacingEBML
  BY DEF LacingFixed, LacingXiph, LacingEBML
<1> QED BY <1>1, <1>2, <1>3 DEF Unlace

LEMMA FixedIsReadBack ==
  ASSUME NEW b \in Block, b.lacing = LacingFixed, b.data # <<>>, ~LacerFails(b)
  PROVE  Lace(b) \in Seq(Octet) /\ ReadsBack(Unlace(b.lacing, Lace(b), Len(Lace(b))), b.data)
<1>1. PICK frames \in Seq(Seq(Octet)), F \in Seq(Octet) : frames = b.data /\ F = FlattenSeq(frames)
  BY DataIs
<1>2. PICK S \in Seq(Octet) : S = <<>> /\ S = LaceSizes(b)
  <2>1. <<>> \in Seq(Octet)
    OBVIOUS
  <2>2. LaceSizes(b) = <<>>
    BY DEF LaceSizes, LacingXiph, LacingEBML, LacingFixed
  <2> QED BY <2>1, <2>2
<1>3. PICK k \in Nat \ {0}, L \in Seq(Octet) : k = Len(frames) /\ L = Lace(b) /\ Laced(b, S, k, L)
  <2>1. b.lacing # LacingNo
    BY DEF LacingFixed, LacingNo
  <2>2. Len(b.data) \in Nat \ {0} /\ Laced(b, S, Len(b.data), Lace(b))
    BY <1>2, <2>1, LacedIs
  <2>3. Lace(b) \in Seq(Octet)
    BY <2>2 DEF Laced
  <2> QED BY <1>1, <2>2, <2>3
<1>4. S \o F = F /\ Len(S) = 0
  BY <1>2, EmptyFirst
<1>5. L \in Seq(Octet) /\ L # <<>> /\ Tail(L) = F /\ Len(L) - 1 = Len(F) /\ L[1] = k - 1
  BY <1>1, <1>3, <1>4 DEF Laced
<1>6. PICK n \in Nat : \A i \in 1 .. k : Len(frames[i]) = n
  <2>1. 1 \in 1 .. k
    OBVIOUS
  <2>2. Len(frames[1]) \in Nat
    BY <1>1, <1>3, <2>1, DataIs
  <2>3. \A i \in DOMAIN frames : Len(frames[i]) = Len(frames[1])
    BY <1>1 DEF LacerFails
  <2>4. DOMAIN frames = 1 .. k
    BY <1>1, <1>3
  <2> QED BY <2>2, <2>3, <2>4
<1>7. PICK sizes : sizes = [i \in 1 .. k |-> n]
  OBVIOUS
<1>8. sizes = Lengths(frames)
  BY <1>3, <1>6, <1>7 DEF Lengths
<1>9. Len(F) = k * n
  <2>1. sizes \in [1 .. k -> Nat]
    BY <1>7
  <2>2. sizes \in Seq(Nat) /\ Len(sizes) = k /\ \A i \in 1 .. k : sizes[i] = n
    BY <1>7, <2>1
  <2>3. TotalSize(sizes) = k * n
    BY <2>2, TotalOfSame
  <2> QED BY <1>1, <1>8, <2>3, TotalOfLengths
<1>10. Len(F) \div k = n /\ Len(F) % k = 0
  <2>1. k * n + 0 = Len(F) /\ n \in Int /\ 0 \in 0 .. k - 1
    BY <1>9
  <2>2. (k * n + 0) \div k = n /\ (k * n + 0) % k = 0
    BY <2>1, QuotientIs
  <2> QED BY <2>1, <2>2
<1>11. PICK len : len = Len(L)
  OBVIOUS
<1>12. Unlace(b.lacing, L, len) = Cut(F, sizes)
  <2>1. L[1] + 1 = k
    BY <1>3, <1>5
  <2>2. (len - 1) % (L[1] + 1) = 0 /\ (len - 1) \div (L[1] + 1) = n
    BY <1>5, <1>10, <1>11, <2>1
  <2>3. Unlace(b.lacing, L, len) = Cut(Tail(L), [i \in 1 .. L[1] + 1 |-> (len - 1) \div (L[1] + 1)])
    BY <1>5, <2>2, UnlaceFixed
  <2> QED BY <1>5, <1>7, <2>1, <2>2, <2>3
<1>13. Cut(F, sizes) = Got(frames, Len(F))
  BY <1>1, <1>8, CutFrames
<1> QED BY <1>1, <1>3, <1>5, <1>11, <1>12, <1>13 DEF ReadsBack, Got

----------------------------------------------------------------------------
(* A last frame whose size is not written *)

LEMMA AfterFirst ==
  ASSUME NEW A, NEW a \in Seq(A), NEW b \in Seq(A), NEW c, c = a \o b
  PROVE  c \in Seq(A) /\ Len(c) = Len(a) + Len(b) /\ SubSeq(c, Len(a) + 1, Len(c)) = b
<1>1. PICK m \in Nat, n \in Nat : m = Len(a) /\ n = Len(b)
  OBVIOUS
<1>2. c \in Seq(A) /\ Len(c) = m + n /\ \A i \in 1 .. n : c[m + i] = b[i]
  <2>1. Joined(A, a, b, c)
    BY JoinedAt
  <2> QED BY <1>1, <2>1 DEF Joined
<1>3. PICK d : d = SubSeq(c, m + 1, m + n)
  OBVIOUS
<1>4. PartOfAt(A, c, m, n, d)
  <2>1. m + n <= Len(c)
    BY <1>2
  <2> QED BY <1>2, <1>3, <2>1, PartAt
<1>5. d \in Seq(A) /\ Len(d) = Len(b) /\ \A i \in 1 .. Len(d) : d[i] = b[i]
  BY <1>1, <1>2, <1>4 DEF PartOfAt
<1>6. d = b
  BY <1>5, SameSequence, Zenon
<1> QED BY <1>1, <1>2, <1>3, <1>6

\* The sizes are those of all frames but the last.
SizesBut(sizes, frames) ==
  /\ sizes \in Seq(Int) /\ Len(frames) = Len(sizes) + 1
  /\ \A i \in 1 .. Len(sizes) : sizes[i] = Len(frames[i])

LEMMA SizesButLast ==
  ASSUME NEW A, NEW frames \in Seq(Seq(A)), NEW sizes, SizesBut(sizes, frames), NEW x, x = Len(frames[Len(frames)])
  PROVE  /\ x \in Nat /\ Lengths(frames) = Append(sizes, x) /\ TotalSize(sizes) \in Int
         /\ TotalSize(sizes) + x = Len(FlattenSeq(frames))
<1>1. PICK m \in Nat : m = Len(sizes) /\ Len(frames) = m + 1
  BY DEF SizesBut
<1>2. x \in Nat /\ x \in Int
  <2>1. Len(frames) \in 1 .. Len(frames)
    BY <1>1
  <2>2. Len(frames[Len(frames)]) \in Nat
    BY <2>1, LengthsAre
  <2> QED BY <2>2
<1>3. sizes \in Seq(Int)
  BY DEF SizesBut
<1>4. PICK more \in Seq(Int) : more = Append(sizes, x)
  <2>1. Append(sizes, x) \in Seq(Int)
    BY <1>2, <1>3
  <2> QED BY <2>1
<1>5. Len(more) = m + 1 /\ more[m + 1] = x /\ \A i \in 1 .. m : more[i] = sizes[i]
  BY <1>1, <1>2, <1>3, <1>4
<1>6. PICK l \in Seq(Int) : l = Lengths(frames) /\ Len(l) = m + 1 /\ \A i \in 1 .. m + 1 : l[i] = Len(frames[i])
  BY <1>1, LengthsAre
<1>7. ASSUME NEW i \in 1 .. m + 1 PROVE l[i] = more[i]
  <2>1. CASE i = m + 1
    BY <1>1, <1>5, <1>6, <2>1
  <2>2. CASE i # m + 1
    <3>1. i \in 1 .. m
      BY <2>2
    <3> QED BY <1>1, <1>5, <1>6, <3>1 DEF SizesBut
  <2> QED BY <2>1, <2>2
<1>8. Len(l) = Len(more) /\ \A i \in 1 .. Len(l) : l[i] = more[i]
  BY <1>5, <1>6, <1>7
<1>9. l = more
  BY <1>8, SameSequence, Zenon
<1>10. TotalSize(more) = TotalSize(sizes) + x
  BY <1>2, <1>3, <1>4, TotalAppend
<1>11. TotalSize(l) = Len(FlattenSeq(frames))
  BY <1>6, TotalOfLengths
<1>12. TotalSize(sizes) \in Int
  BY <1>3, BoundsAre, TotalIs
<1> QED BY <1>2, <1>4, <1>6, <1>9, <1>10, <1>11, <1>12

\* Of sizes in S and of frames in F, the sizes and all frames are read.
LastRead(frames, sizes, S, F) ==
  CutWithLast(S \o F, Len(S) + Len(F), Got(sizes, Len(S))) = Got(frames, Len(F))

LEMMA LastCut ==
  ASSUME NEW A, NEW frames \in Seq(Seq(A)), NEW sizes, SizesBut(sizes, frames), Len(frames[Len(frames)]) > 0,
         NEW S \in Seq(A), NEW F \in Seq(A), F = FlattenSeq(frames)
  PROVE  LastRead(frames, sizes, S, F)
<1>1. PICK x : x = Len(frames[Len(frames)])
  OBVIOUS
<1>2. /\ x \in Nat /\ Lengths(frames) = Append(sizes, x) /\ TotalSize(sizes) \in Int
      /\ TotalSize(sizes) + x = Len(F)
  BY <1>1, SizesButLast
<1>3. PICK c : c = S \o F
  OBVIOUS
<1>4. SubSeq(c, Len(S) + 1, Len(c)) = F
  BY <1>3, AfterFirst
<1>5. PICK n \in Nat, k \in Nat, t \in Int : n = Len(S) + Len(F) /\ k = Len(S) /\ t = TotalSize(sizes)
  BY <1>2
<1>6. n - k - t = x /\ x > 0
  BY <1>1, <1>2, <1>5
<1>7. Got(sizes, k).ok /\ Got(sizes, k).v = sizes /\ Got(sizes, k).n = k
  BY DEF Got
<1>8. ~(x <= 0)
  BY <1>2, <1>6
<1>9. CutWithLast(c, n, Got(sizes, k)) = Cut(SubSeq(c, k + 1, Len(c)), Append(sizes, x))
  BY <1>5, <1>6, <1>7, <1>8 DEF CutWithLast
<1>10. Cut(F, Lengths(frames)) = Got(frames, Len(F))
  BY CutFrames
<1> QED BY <1>2, <1>3, <1>4, <1>5, <1>9, <1>10 DEF LastRead

LEMMA AppendAt ==
  ASSUME NEW A, NEW s \in Seq(A), NEW x \in A, NEW q, q = Append(s, x)
  PROVE  q \in Seq(A) /\ Len(s) \in Nat /\ Len(q) = Len(s) + 1 /\ q[Len(s) + 1] = x /\ \A i \in 1 .. Len(s) : q[i] = s[i]
  OBVIOUS

LEMMA NothingLeft ==
  ASSUME NEW k \in Nat, NEW n \in Nat, NEW p \in Nat, NEW t \in Int, NEW e \in Nat, e = k + n - p - t, t + e = n
  PROVE  p = k
  OBVIOUS

LEMMA LastCutGives ==
  ASSUME NEW A, NEW frames \in Seq(Seq(A)), NEW S \in Seq(A), NEW F \in Seq(A), F = FlattenSeq(frames),
         NEW r, r.ok => r.v \in Seq(Nat) /\ r.n \in Nat,
         ReadsBack(CutWithLast(S \o F, Len(S) + Len(F), r), frames)
  PROVE  r.ok /\ SizesBut(r.v, frames) /\ Len(frames[Len(frames)]) > 0 /\ r.n = Len(S)
<1>1. PICK c \in Seq(A) : c = S \o F /\ Len(c) = Len(S) + Len(F)
  <2>1. PICK d : d = S \o F
    OBVIOUS
  <2>2. d \in Seq(A) /\ Len(d) = Len(S) + Len(F)
    BY <2>1, AfterFirst
  <2> QED BY <2>1, <2>2
<1> DEFINE N == Len(S) + Len(F)
<1>2. PICK u : u = CutWithLast(c, N, r) /\ u.ok /\ u.v = frames
  BY <1>1 DEF ReadsBack
<1> HIDE DEF N
<1>3. PICK e : e = N - r.n - TotalSize(r.v)
  OBVIOUS
<1>4. r.ok /\ ~(e <= 0)
  <2>1. ASSUME ~r.ok \/ e <= 0 PROVE FALSE
    <3>1. u = UnexpectedEOF(1)
      BY <1>2, <1>3, <2>1 DEF CutWithLast
    <3> QED BY <1>2, <3>1 DEF UnexpectedEOF
  <2> QED BY <2>1, Zenon
<1>5. u = Cut(SubSeq(c, r.n + 1, Len(c)), Append(r.v, e))
  BY <1>2, <1>3, <1>4 DEF CutWithLast
<1>6. PICK sizes \in Seq(Nat), p \in Nat : sizes = r.v /\ p = r.n
  BY <1>4
<1>7. sizes \in Seq(Int) /\ TotalSize(sizes) \in Int
  <2>1. sizes \in Seq(Int)
    OBVIOUS
  <2> QED BY <2>1, BoundsAre, TotalIs
<1>8. PICK k \in Nat, n \in Nat, t \in Int :
        k = Len(S) /\ n = Len(F) /\ t = TotalSize(sizes) /\ e = k + n - p - t /\ e \in Nat /\ e > 0
  <2>1. PICK k \in Nat, n \in Nat, t \in Int : k = Len(S) /\ n = Len(F) /\ t = TotalSize(sizes)
    BY <1>7
  <2>2. e = k + n - p - t
    BY <1>3, <1>6, <2>1, SMTT(30) DEF N
  <2>3. e \in Nat /\ e > 0
    BY <1>4, <2>2
  <2> QED BY <2>1, <2>2, <2>3
<1>9. PICK more \in Seq(Nat) : more = Append(sizes, e)
  <2>1. Append(sizes, e) \in Seq(Nat)
    BY <1>8
  <2> QED BY <2>1
<1>10. PICK d \in Seq(A) : d = SubSeq(c, p + 1, Len(c))
  <2>1. PICK l \in Nat : l = Len(c)
    OBVIOUS
  <2>2. SubSeq(c, p + 1, l) \in Seq(A)
    BY <2>1
  <2> QED BY <2>1, <2>2
<1>11. Lengths(frames) = more
  <2>1. u = Cut(d, more)
    BY <1>5, <1>6, <1>9, <1>10
  <2>2. Cut(d, more).ok
    BY <1>2, <2>1, Zenon
  <2>3. Lengths(Cut(d, more).v) = more
    BY <2>2, CutGives
  <2>4. Cut(d, more).v = frames
    BY <1>2, <2>1, Zenon
  <2> QED BY <2>3, <2>4, Zenon
<1>12. PICK m \in Nat : m = Len(sizes) /\ Len(more) = m + 1 /\ more[m + 1] = e /\ \A i \in 1 .. m : more[i] = sizes[i]
  <2>1. e \in Nat
    BY <1>8
  <2>2. sizes \in Seq(Nat)
    BY <1>6
  <2>3. /\ more \in Seq(Nat) /\ Len(sizes) \in Nat /\ Len(more) = Len(sizes) + 1 /\ more[Len(sizes) + 1] = e
        /\ \A i \in 1 .. Len(sizes) : more[i] = sizes[i]
    BY <1>9, <2>1, <2>2, AppendAt
  <2> QED BY <2>3
<1>13. Len(frames) = m + 1 /\ \A i \in 1 .. m + 1 : more[i] = Len(frames[i])
  BY <1>11, <1>12, LengthsAre
<1>14. SizesBut(sizes, frames)
  <2>1. \A i \in 1 .. m : i \in 1 .. m + 1
    OBVIOUS
  <2> QED BY <1>7, <1>12, <1>13, <2>1 DEF SizesBut
<1>15. Len(frames[Len(frames)]) = e
  <2>1. m + 1 \in 1 .. m + 1
    OBVIOUS
  <2> QED BY <1>12, <1>13, <2>1
<1>16. TotalSize(sizes) + e = Len(F)
  BY <1>14, <1>15, SizesButLast
<1>17. p = Len(S)
  <2>1. t + e = n
    BY <1>8, <1>16
  <2>2. e \in Nat /\ e = k + n - p - t
    BY <1>8
  <2>3. k \in Nat /\ n \in Nat /\ t \in Int
    BY <1>8
  <2>4. p \in Nat
    BY <1>6
  <2>5. p = k
    BY <2>3, <2>4, <2>1, <2>2
  <2> QED BY <1>8, <2>5
<1> QED BY <1>4, <1>6, <1>8, <1>14, <1>15, <1>17

----------------------------------------------------------------------------
(* Sizes in Xiph lacing *)

\* A size whose last octet is not one of ones, so that its end is found.
Plain(n) == n = 0 \/ n % (Base - 1) # 0

LEMMA OnesAre == Base - 1 \in Nat \ {0} /\ Base - 1 \in Octet /\ \A o \in 0 .. Base - 1 : o \in Octet
<1>1. PICK z \in Nat \ {0} : Base = 32 * z
  BY SmallPowers
<1> QED BY <1>1 DEF Octet

\* A number n and its octets of ones, m of them.
LEMMA OnesOf ==
  ASSUME NEW w \in Nat \ {0}, NEW n \in Nat, NEW m, m = IF n > w THEN (n - 1) \div w ELSE 0
  PROVE  m \in Nat /\ n - m * w \in 0 .. w /\ ((n - m * w # w) <=> (n = 0 \/ n % w # 0))
<1>1. CASE n > w
  <2>1. PICK x \in Nat : x = n - 1 /\ x + 1 = n
    <3>1. n - 1 \in Nat /\ (n - 1) + 1 = n
      BY <1>1
    <3> QED BY <3>1
  <2>2. PICK q \in Nat, r \in 0 .. w - 1 : q = x \div w /\ x = w * q + r
    <3>1. x \in Int
      BY <2>1
    <3>2. x \div w \in Nat /\ x % w \in 0 .. w - 1 /\ x = w * (x \div w) + (x % w)
      BY <3>1, Dividing
    <3> QED BY <3>2
  <2>3. m = q
    BY <1>1, <2>1, <2>2
  <2>4. PICK p \in Nat : p = q * w /\ p = w * q
    OBVIOUS
  <2>5. n = p + r + 1 /\ n - p = r + 1
    BY <2>1, <2>2, <2>4
  <2>6. CASE r = w - 1
    <3>1. n = w * (q + 1) + 0
      <4>1. w * (q + 1) = w * q + w
        OBVIOUS
      <4> QED BY <2>4, <2>5, <2>6, <4>1
    <3>2. (w * (q + 1) + 0) % w = 0
      <4>1. q + 1 \in Int /\ 0 \in 0 .. w - 1
        OBVIOUS
      <4> QED BY <4>1, QuotientIs
    <3>3. n % w = 0 /\ n # 0 /\ n - p = w
      BY <1>1, <2>5, <2>6, <3>1, <3>2
    <3> QED BY <2>3, <2>4, <3>3
  <2>7. CASE r # w - 1
    <3>1. r + 1 \in 0 .. w - 1 /\ n = w * q + (r + 1)
      BY <2>4, <2>5, <2>7
    <3>2. (w * q + (r + 1)) % w = r + 1
      <4>1. q \in Int
        OBVIOUS
      <4> QED BY <3>1, <4>1, QuotientIs
    <3>3. n % w = r + 1
      BY <3>1, <3>2
    <3>4. n % w # 0 /\ n - p \in 0 .. w /\ n - p # w
      BY <2>5, <3>1, <3>3
    <3> QED BY <2>3, <2>4, <3>4
  <2> QED BY <2>6, <2>7
<1>2. CASE ~(n > w)
  <2>1. m = 0 /\ m * w = 0
    BY <1>2
  <2>2. n # w <=> (n = 0 \/ n % w # 0)
    <3>1. CASE n = w
      <4>1. n % w = 0 /\ n # 0
        BY <3>1
      <4> QED BY <3>1, <4>1
    <3>2. CASE n # w
      <4>1. n % w = n
        BY <1>2, <3>2
      <4> QED BY <3>2, <4>1
    <3> QED BY <3>1, <3>2
  <2> QED BY <1>2, <2>1, <2>2
<1> QED BY <1>1, <1>2

LEMMA AppendedOne == ASSUME NEW A, NEW a \in Seq(A), NEW o \in A PROVE a \o <<o>> = Append(a, o)
<1>1. PICK b : b = <<o>>
  OBVIOUS
<1>2. b \in Seq(A) /\ Len(b) = 1 /\ b[1] = o
  BY <1>1
<1>3. PICK c : c = a \o b
  OBVIOUS
<1>4. PICK d : d = Append(a, o)
  OBVIOUS
<1>5. c \in Seq(A) /\ Len(c) = Len(a) + 1 /\ c[Len(a) + 1] = o /\ \A i \in 1 .. Len(a) : c[i] = a[i]
  <2>1. Joined(A, a, b, c)
    BY <1>2, <1>3, JoinedAt
  <2>2. 1 \in 1 .. Len(b)
    BY <1>2
  <2> QED BY <1>2, <2>1, <2>2 DEF Joined
<1>6. d \in Seq(A) /\ Len(a) \in Nat /\ Len(d) = Len(a) + 1 /\ d[Len(a) + 1] = o /\ \A i \in 1 .. Len(a) : d[i] = a[i]
  BY <1>4, AppendAt
<1>7. Len(c) = Len(d) /\ \A i \in 1 .. Len(c) : c[i] = d[i]
  <2>1. \A i \in 1 .. Len(c) : i \in 1 .. Len(a) \/ i = Len(a) + 1
    BY <1>5, <1>6
  <2> QED BY <1>5, <1>6, <2>1
<1>8. c = d
  BY <1>5, <1>6, <1>7, SameSequence, Zenon
<1> QED BY <1>1, <1>3, <1>4, <1>8

LEMMA XiphSizeIs ==
  ASSUME NEW n \in Nat
  PROVE  /\ XiphSize(n) \in Seq(Octet) /\ Len(XiphSize(n)) \in Nat \ {0} /\ TotalSize(XiphSize(n)) = n
         /\ \A i \in 1 .. Len(XiphSize(n)) - 1 : XiphSize(n)[i] = Base - 1
         /\ XiphSize(n)[Len(XiphSize(n))] # Base - 1 <=> Plain(n)
<1>1. PICK w \in Nat \ {0} : w = Base - 1 /\ w \in Octet
  BY OnesAre
<1>2. PICK m : m = IF n > Base - 1 THEN (n - 1) \div (Base - 1) ELSE 0
  OBVIOUS
<1>3. m \in Nat /\ n - m * w \in 0 .. w /\ ((n - m * w # w) <=> (n = 0 \/ n % w # 0))
  BY <1>1, <1>2, OnesOf
<1>4. PICK o \in 0 .. w : o = n - m * w
  BY <1>3
<1>5. o \in Octet /\ o \in Nat
  BY <1>1, OnesAre
<1>6. PICK a : a = [i \in 1 .. m |-> Base - 1]
  OBVIOUS
<1>7. a \in Seq(Octet) /\ a \in Seq(Nat) /\ a \in Seq(Int) /\ Len(a) = m /\ \A i \in 1 .. m : a[i] = w
  <2>1. a \in [1 .. m -> Octet] /\ a \in [1 .. m -> Nat] /\ a \in [1 .. m -> Int]
    BY <1>1, <1>6
  <2> QED BY <1>1, <1>3, <1>6, <2>1
<1>8. PICK x : x = Append(a, o)
  OBVIOUS
<1>9. XiphSize(n) = x
  <2>1. XiphSize(n) = a \o <<o>>
    BY <1>1, <1>2, <1>4, <1>6 DEF XiphSize
  <2>2. a \o <<o>> = Append(a, o)
    BY <1>5, <1>7, AppendedOne
  <2> QED BY <1>8, <2>1, <2>2
<1>10. x \in Seq(Octet) /\ Len(x) = m + 1 /\ x[m + 1] = o /\ \A i \in 1 .. m : x[i] = a[i]
  BY <1>5, <1>7, <1>8, AppendAt
<1>11. TotalSize(x) = n
  <2>1. TotalSize(a) = m * w
    BY <1>1, <1>7, TotalOfSame
  <2>2. o \in Int
    BY <1>5
  <2>3. TotalSize(x) = TotalSize(a) + o
    BY <1>7, <1>8, <2>2, TotalAppend
  <2>4. PICK p \in Nat : p = m * w
    BY <1>3
  <2> QED BY <1>4, <2>1, <2>2, <2>3, <2>4
<1>12. o # w <=> Plain(n)
  BY <1>1, <1>3, <1>4 DEF Plain
<1>13. Len(x) \in Nat \ {0} /\ \A i \in 1 .. Len(x) - 1 : x[i] = Base - 1
  <2>1. Len(x) \in Nat \ {0} /\ \A i \in 1 .. Len(x) - 1 : i \in 1 .. m
    BY <1>3, <1>10
  <2>2. \A i \in 1 .. m : x[i] = Base - 1
    BY <1>1, <1>7, <1>10
  <2> QED BY <2>1, <2>2
<1> QED BY <1>1, <1>9, <1>10, <1>11, <1>12, <1>13

----------------------------------------------------------------------------
(* Where the sizes in Xiph lacing end *)

LEMMA NextEndIs ==
  ASSUME NEW s \in Seq(Octet), NEW i \in Nat
  PROVE  /\ NextEnd(s, i) \in 1 .. Len(s) + 1
         /\ (NextEnd(s, i) \in XiphEnds(s) /\ NextEnd(s, i) > i) \/ NextEnd(s, i) = Len(s) + 1
         /\ \A e \in XiphEnds(s) : e > i => NextEnd(s, i) <= e
<1>1. PICK n \in Nat : n = Len(s) /\ DOMAIN s = 1 .. n
  OBVIOUS
<1>2. XiphEnds(s) \subseteq 1 .. n
  BY <1>1 DEF XiphEnds
<1>3. PICK T : T = {e \in XiphEnds(s) : e > i} \cup {n + 1}
  OBVIOUS
<1>4. T \subseteq Nat /\ T # {}
  BY <1>2, <1>3
<1>5. Min(T) \in T /\ \A e \in T : Min(T) <= e
  BY <1>4, LeastIn
<1>6. NextEnd(s, i) = Min(T)
  BY <1>1, <1>3 DEF NextEnd
<1> QED BY <1>1, <1>2, <1>3, <1>5, <1>6

\* The ends g of k sizes.
EndsOf(g, s, k) ==
  g \in [0 .. k -> 0 .. Len(s) + 1] /\ g[0] = 0 /\ \A i \in 1 .. k : g[i] = NextEnd(s, g[i - 1])

LEMMA EndsExist ==
  ASSUME NEW s \in Seq(Octet), NEW k \in Nat
  PROVE  \E g : /\ EndsOf(g, s, k)
                /\ XiphSizes(s, k) = IF g[k] > Len(s) THEN UnexpectedEOF(Len(s)) ELSE Got(XiphSizesOf(g, s, k), g[k])
<1>1. PICK n \in Nat : n = Len(s)
  OBVIOUS
<1>2. \A i \in 0 .. n + 1 : i \in Nat /\ NextEnd(s, i) \in 0 .. n + 1
  <2>1. \A i \in 0 .. n + 1 : i \in Nat
    OBVIOUS
  <2>2. \A i \in 0 .. n + 1 : NextEnd(s, i) \in 1 .. n + 1
    BY <1>1, <2>1, NextEndIs
  <2> QED BY <2>1, <2>2
<1>3. PICK step : step = [i \in 1 .. k |-> [x \in 0 .. n + 1 |-> NextEnd(s, x)]]
  OBVIOUS
<1>4. step \in [1 .. k -> [0 .. n + 1 -> 0 .. n + 1]]
  BY <1>2, <1>3
<1>5. PICK f \in [0 .. k -> 0 .. n + 1] : f[0] = 0 /\ \A i \in 1 .. k : f[i] = step[i][f[i - 1]]
  <2>1. 0 \in 0 .. n + 1
    OBVIOUS
  <2>2. Recursion(k, 0 .. n + 1, 0, step)
    BY <1>4, <2>1, FunctionFromZero
  <2> QED BY <2>2 DEF Recursion
<1>6. IsNth(f, s, k)
  <2>1. ASSUME NEW i \in 0 .. k PROVE f[i] = IF i = 0 THEN 0 ELSE NextEnd(s, f[i - 1])
    <3>1. CASE i = 0
      BY <1>5, <3>1
    <3>2. CASE i # 0
      <4>1. i \in 1 .. k /\ f[i - 1] \in 0 .. n + 1
        BY <3>2
      <4> QED BY <1>3, <1>5, <3>2, <4>1
    <3> QED BY <3>1, <3>2
  <2> QED BY <2>1 DEF IsNth
<1>7. PICK g : g = CHOOSE h : IsNth(h, s, k)
  OBVIOUS
<1>8. IsNth(g, s, k)
  BY <1>6, <1>7
<1>9. XiphSizes(s, k) = IF g[k] > Len(s) THEN UnexpectedEOF(Len(s)) ELSE Got(XiphSizesOf(g, s, k), g[k])
  BY <1>7, XiphSizesAre
<1>10. g[0] = 0 /\ \A i \in 1 .. k : g[i] = NextEnd(s, g[i - 1])
  <2>1. \A i \in 0 .. k : g[i] = IF i = 0 THEN 0 ELSE NextEnd(s, g[i - 1])
    BY <1>8 DEF IsNth
  <2>2. 0 \in 0 .. k /\ \A i \in 1 .. k : i \in 0 .. k /\ i # 0
    OBVIOUS
  <2> QED BY <2>1, <2>2, Zenon
<1> DEFINE T == {i \in Nat : i <= k => g[i] \in 0 .. n + 1}
<1>11. 0 \in T
  BY <1>10
<1>12. ASSUME NEW i \in Nat, i \in T PROVE i + 1 \in T
  <2> SUFFICES ASSUME i + 1 <= k PROVE g[i + 1] \in 0 .. n + 1
    OBVIOUS
  <2>1. i + 1 \in 1 .. k /\ (i + 1) - 1 = i /\ g[i] \in 0 .. n + 1
    BY <1>12
  <2> QED BY <1>2, <1>10, <2>1
<1> HIDE DEF T
<1>13. \A i \in Nat : i \in T
  BY <1>11, <1>12, NumbersFromZero
<1>14. \A i \in 0 .. k : g[i] \in 0 .. n + 1
  BY <1>13 DEF T
<1>15. g \in [0 .. k -> 0 .. n + 1]
  <2>1. PICK G : G = [i \in 0 .. k |-> IF i = 0 THEN 0 ELSE NextEnd(s, g[i - 1])]
    OBVIOUS
  <2>2. g = G
    BY <1>8, <2>1 DEF IsNth
  <2>3. \A i \in 0 .. k : G[i] \in 0 .. n + 1
    BY <1>14, <2>2
  <2> QED BY <2>1, <2>2, <2>3
<1> QED BY <1>1, <1>9, <1>10, <1>15 DEF EndsOf

LEMMA SequenceOfMore == ASSUME NEW A, NEW B, A \subseteq B, NEW s \in Seq(A) PROVE s \in Seq(B)
  OBVIOUS

LEMMA TotalOfNats == ASSUME NEW t \in Seq(Nat) PROVE TotalSize(t) \in Nat
<1>1. PICK n \in Nat : n = Len(t)
  OBVIOUS
<1>2. t \in Seq(Int)
  OBVIOUS
<1>3. PICK p : BoundsOf(p, t) /\ TotalSize(t) = p[n]
  BY <1>1, <1>2, BoundsAre DEF TotalSize
<1>4. n \in 0 .. Len(t) /\ n \in n .. Len(t)
  BY <1>1
<1> QED BY <1>3, <1>4, BoundsGrow

LEMMA XiphSizesType ==
  ASSUME NEW s \in Seq(Octet), NEW k \in Nat
  PROVE  XiphSizes(s, k).ok => /\ XiphSizes(s, k).v \in Seq(Nat) /\ Len(XiphSizes(s, k).v) = k
                               /\ XiphSizes(s, k).n \in Nat
<1>1. PICK g : /\ EndsOf(g, s, k)
               /\ XiphSizes(s, k) = IF g[k] > Len(s) THEN UnexpectedEOF(Len(s)) ELSE Got(XiphSizesOf(g, s, k), g[k])
  BY EndsExist
<1>2. PICK n \in Nat : n = Len(s)
  OBVIOUS
<1>3. /\ g[0] = 0 /\ (\A i \in 0 .. k : g[i] \in 0 .. n + 1)
      /\ \A i \in 1 .. k : g[i] = NextEnd(s, g[i - 1])
  BY <1>1, <1>2 DEF EndsOf
<1> SUFFICES ASSUME XiphSizes(s, k).ok
             PROVE  /\ XiphSizes(s, k).v \in Seq(Nat) /\ Len(XiphSizes(s, k).v) = k
                    /\ XiphSizes(s, k).n \in Nat
  OBVIOUS
<1>4. ~(g[k] > n) /\ XiphSizes(s, k) = Got(XiphSizesOf(g, s, k), g[k])
  BY <1>1, <1>2 DEF UnexpectedEOF
<1> DEFINE T == {i \in Nat : i <= k => (g[i] <= n => \A j \in 0 .. i : g[j] <= n)}
<1>5. 0 \in T
  OBVIOUS
<1>6. ASSUME NEW i \in Nat, i \in T PROVE i + 1 \in T
  <2> SUFFICES ASSUME i + 1 <= k, g[i + 1] <= n PROVE \A j \in 0 .. i + 1 : g[j] <= n
    OBVIOUS
  <2>1. i + 1 \in 1 .. k /\ (i + 1) - 1 = i /\ i \in 0 .. k /\ i <= k /\ i + 1 \in 0 .. k
    OBVIOUS
  <2>2. PICK a \in 0 .. n + 1, b \in 0 .. n + 1 : a = g[i] /\ b = g[i + 1] /\ b = NextEnd(s, a)
    BY <1>3, <2>1
  <2>3. a \in Nat /\ b \in Nat
    BY <2>2
  <2>4. (b \in XiphEnds(s) /\ b > a) \/ b = n + 1
    BY <1>2, <2>2, <2>3, NextEndIs
  <2>5. a <= n
    BY <2>2, <2>3, <2>4
  <2>6. \A j \in 0 .. i : g[j] <= n
    BY <1>6, <2>1, <2>2, <2>5
  <2>7. \A j \in 0 .. i + 1 : j \in 0 .. i \/ j = i + 1
    OBVIOUS
  <2> QED BY <2>6, <2>7
<1> HIDE DEF T
<1>7. \A i \in Nat : i \in T
  BY <1>5, <1>6, NumbersFromZero
<1>8. \A j \in 0 .. k : g[j] \in 0 .. n
  <2>1. g[k] <= n /\ k \in 0 .. k
    BY <1>3, <1>4
  <2>2. \A j \in 0 .. k : g[j] <= n
    BY <1>7, <2>1 DEF T
  <2> QED BY <1>3, <2>2
<1>9. ASSUME NEW i \in 1 .. k PROVE TotalSize(SubSeq(s, g[i - 1] + 1, g[i])) \in Nat
  <2>1. i - 1 \in 0 .. k /\ i \in 0 .. k
    OBVIOUS
  <2>2. PICK a \in 0 .. n, b \in 0 .. n : a = g[i - 1] /\ b = g[i]
    BY <1>8, <2>1
  <2>3. SubSeq(s, a + 1, b) \in Seq(Octet)
    <3>1. a + 1 \in Nat \ {0} /\ b \in Int /\ b <= Len(s)
      BY <1>2, <2>2
    <3> QED BY <3>1, PartOf
  <2>4. PICK t \in Seq(Nat) : t = SubSeq(s, a + 1, b)
    <3>1. Octet \subseteq Nat
      BY OctetsAre
    <3> QED BY <2>3, <3>1, SequenceOfMore
  <2>5. TotalSize(t) \in Nat
    BY TotalOfNats
  <2> QED BY <2>2, <2>4, <2>5
<1>10. PICK v : v = XiphSizesOf(g, s, k)
  OBVIOUS
<1>11. v \in Seq(Nat) /\ Len(v) = k
  <2>1. v \in [1 .. k -> Nat]
    BY <1>9, <1>10 DEF XiphSizesOf
  <2> QED BY <2>1
<1>12. g[k] \in Nat
  <2>1. k \in 0 .. k
    OBVIOUS
  <2> QED BY <1>8, <2>1
<1> QED BY <1>4, <1>10, <1>11, <1>12 DEF Got

----------------------------------------------------------------------------
(* Blocks with Xiph lacing *)

\* At the beginning of s are the sizes, that end at the bounds p.
XiphChunk(s, a, b, n) ==
  /\ a \in Nat /\ b \in Nat /\ a < b /\ b <= Len(s)
  /\ \A x \in a + 1 .. b - 1 : s[x] = Base - 1
  /\ s[b] # Base - 1 <=> Plain(n)
  /\ SubSeq(s, a + 1, b) = XiphSize(n)
XiphChunks(s, p, sizes) == p[0] = 0 /\ \A i \in 1 .. Len(sizes) : XiphChunk(s, p[i - 1], p[i], sizes[i])

XiphSizesFor(sizes) == FlattenSeq([i \in 1 .. Len(sizes) |-> XiphSize(sizes[i])])

\* The i-th piece of s, a flattened sequence with n pieces and the bounds p.
PieceOf(s, pieces, p, n, i) ==
  /\ p[i - 1] \in Nat /\ p[i] = p[i - 1] + Len(pieces[i]) /\ p[i] <= p[n]
  /\ \A j \in 1 .. Len(pieces[i]) : s[p[i - 1] + j] = pieces[i][j]

LEMMA PiecesAre ==
  ASSUME NEW A, NEW frames \in Seq(Seq(A)), NEW p, BoundsOf(p, Lengths(frames))
  PROVE  \A i \in 1 .. Len(frames) : PieceOf(FlattenSeq(frames), frames, p, Len(frames), i)
  BY Pieces DEF PieceOf

LEMMA ChunksAre ==
  ASSUME NEW sizes \in Seq(Nat), NEW F \in Seq(Octet)
  PROVE  /\ XiphSizesFor(sizes) \in Seq(Octet)
         /\ \E p : /\ XiphChunks(XiphSizesFor(sizes) \o F, p, sizes)
                   /\ p[Len(sizes)] = Len(XiphSizesFor(sizes))
<1>1. PICK m \in Nat : m = Len(sizes)
  OBVIOUS
<1>2. \A i \in 1 .. m : sizes[i] \in Nat
  BY <1>1, ElementType
<1>3. PICK c \in Seq(Seq(Octet)) : c = [i \in 1 .. m |-> XiphSize(sizes[i])] /\ Len(c) = m
  <2>1. PICK f : f = [i \in 1 .. m |-> XiphSize(sizes[i])]
    OBVIOUS
  <2>2. \A i \in 1 .. m : XiphSize(sizes[i]) \in Seq(Octet)
    BY <1>2, XiphSizeIs
  <2>3. f \in [1 .. m -> Seq(Octet)]
    BY <2>1, <2>2
  <2>4. f \in Seq(Seq(Octet)) /\ Len(f) = m
    BY <2>3
  <2> QED BY <2>1, <2>4
<1>4. c \in Seq(Seq(Octet)) /\ Len(c) = m
  BY <1>3
<1>5. Lengths(c) \in Seq(Int)
  BY <1>4, LengthsAre
<1>6. PICK p : BoundsOf(p, Lengths(c))
  BY <1>5, BoundsAre
<1>7. PICK S \in Seq(Octet) : S = XiphSizesFor(sizes) /\ S = FlattenSeq(c) /\ Len(S) = p[m]
  <2>1. XiphSizesFor(sizes) = FlattenSeq(c)
    BY <1>1, <1>3 DEF XiphSizesFor
  <2>2. FlattenSeq(c) \in Seq(Octet) /\ Len(FlattenSeq(c)) = p[m]
    BY <1>4, <1>6, Pieces
  <2> QED BY <2>1, <2>2
<1>8. \A i \in 1 .. m : PieceOf(S, c, p, m, i)
  <2>1. \A i \in 1 .. Len(c) : PieceOf(FlattenSeq(c), c, p, Len(c), i)
    BY <1>3, <1>6, PiecesAre
  <2> QED BY <1>4, <1>7, <2>1
<1>9. PICK s : s = S \o F
  OBVIOUS
<1>10. s \in Seq(Octet) /\ Len(s) = Len(S) + Len(F) /\ Len(S) <= Len(s) /\ \A x \in 1 .. Len(S) : s[x] = S[x]
  <2>1. Joined(Octet, S, F, s)
    BY <1>9, JoinedAt
  <2> QED BY <2>1 DEF Joined
<1>11. ASSUME NEW i \in 1 .. m PROVE XiphChunk(s, p[i - 1], p[i], sizes[i])
  <2>1. PICK n \in Nat : n = sizes[i]
    BY <1>2
  <2>2. PICK d \in Seq(Octet), l \in Nat \ {0} :
          /\ d = c[i] /\ d = XiphSize(n) /\ l = Len(d)
          /\ \A x \in 1 .. l - 1 : d[x] = Base - 1
          /\ d[l] # Base - 1 <=> Plain(n)
    <3>1. c[i] = XiphSize(n)
      BY <1>3, <2>1
    <3> QED BY <3>1, XiphSizeIs
  <2>3. PICK a \in Nat : a = p[i - 1] /\ p[i] = a + l /\ p[i] <= p[m] /\ \A j \in 1 .. l : S[a + j] = d[j]
    <3>1. PICK a \in Nat : a = p[i - 1] /\ p[i] = a + Len(c[i]) /\ p[i] <= p[m]
                            /\ \A j \in 1 .. Len(c[i]) : S[a + j] = c[i][j]
      BY <1>8 DEF PieceOf
    <3>2. Len(c[i]) = l /\ c[i] = d
      BY <2>2
    <3> QED BY <3>1, <3>2
  <2>4. PICK b \in Nat : b = a + l /\ a < b /\ b <= Len(S) /\ b <= Len(s)
    <3>1. PICK x \in Nat, y \in Nat : x = Len(S) /\ y = Len(s) /\ x <= y
      BY <1>10
    <3>2. a + l \in Nat /\ a < a + l /\ a + l <= x
      BY <1>7, <2>3, <3>1, SMTT(30)
    <3>3. a + l <= y
      BY <3>1, <3>2
    <3> QED BY <3>1, <3>2, <3>3
  <2>5. \A j \in 1 .. l : s[a + j] = d[j]
    <3>1. \A j \in 1 .. l : a + j \in 1 .. Len(S)
      BY <2>4
    <3> QED BY <1>10, <2>3, <3>1
  <2>6. \A x \in a + 1 .. b - 1 : s[x] = Base - 1
    <3>1. \A x \in a + 1 .. b - 1 : x - a \in 1 .. l /\ x - a \in 1 .. l - 1 /\ a + (x - a) = x
      BY <2>4
    <3> QED BY <2>2, <2>5, <3>1
  <2>7. s[b] # Base - 1 <=> Plain(n)
    <3>1. l \in 1 .. l
      OBVIOUS
    <3>2. s[b] = d[l]
      BY <2>4, <2>5, <3>1
    <3> QED BY <2>2, <3>2
  <2>8. SubSeq(s, a + 1, b) = d
    <3>1. PICK e : e = SubSeq(s, a + 1, a + l)
      OBVIOUS
    <3>2. PartOfAt(Octet, s, a, l, e)
      BY <1>10, <2>4, <3>1, PartAt
    <3>3. e \in Seq(Octet) /\ Len(e) = Len(d) /\ \A j \in 1 .. Len(e) : e[j] = d[j]
      BY <2>2, <2>5, <3>2 DEF PartOfAt
    <3>4. e = d
      BY <3>3, SameSequence, Zenon
    <3> QED BY <2>4, <3>1, <3>4
  <2> QED BY <2>1, <2>2, <2>3, <2>4, <2>6, <2>7, <2>8 DEF XiphChunk
<1>12. p[0] = 0
  BY <1>6 DEF BoundsOf
<1>13. XiphChunks(s, p, sizes) /\ p[Len(sizes)] = Len(S)
  BY <1>1, <1>7, <1>11, <1>12 DEF XiphChunks
<1> QED BY <1>7, <1>9, <1>13

LEMMA ChunkEnd ==
  ASSUME NEW s \in Seq(Octet), NEW a, NEW b, NEW n, XiphChunk(s, a, b, n),
         NEW e \in XiphEnds(s) \cup {Len(s) + 1}, e > a
  PROVE  e \in Nat /\ e >= b /\ (~Plain(n) => e > b)
<1>1. /\ a \in Nat /\ b \in Nat /\ a < b /\ b <= Len(s)
      /\ (\A x \in a + 1 .. b - 1 : s[x] = Base - 1) /\ (s[b] # Base - 1 <=> Plain(n))
  BY DEF XiphChunk
<1>2. PICK l \in Nat : l = Len(s)
  OBVIOUS
<1>3. e \in Nat
  BY DEF XiphEnds
<1>4. CASE e = l + 1
  BY <1>1, <1>2, <1>4
<1>5. CASE e # l + 1
  <2>1. s[e] # Base - 1
    BY <1>2, <1>5 DEF XiphEnds
  <2>2. ~(e \in a + 1 .. b - 1)
    BY <1>1, <2>1
  <2>3. e >= b
    BY <1>1, <1>3, <2>2
  <2>4. ASSUME ~Plain(n) PROVE e # b
    BY <1>1, <2>1, <2>4
  <2> QED BY <1>1, <1>3, <2>3, <2>4
<1> QED BY <1>4, <1>5

LEMMA PlainEnds ==
  ASSUME NEW s \in Seq(Octet), NEW sizes \in Seq(Nat), NEW p, XiphChunks(s, p, sizes),
         NEW g, EndsOf(g, s, Len(sizes)), \A i \in 1 .. Len(sizes) : Plain(sizes[i])
  PROVE  \A i \in 0 .. Len(sizes) : g[i] = p[i]
<1>1. PICK m \in Nat : m = Len(sizes)
  OBVIOUS
<1>2. g[0] = 0 /\ p[0] = 0 /\ (\A i \in 1 .. m : g[i] = NextEnd(s, g[i - 1]))
  BY <1>1 DEF EndsOf, XiphChunks
<1> DEFINE T == {i \in Nat : i <= m => g[i] = p[i]}
<1>3. 0 \in T
  BY <1>2
<1>4. ASSUME NEW i \in Nat, i \in T PROVE i + 1 \in T
  <2> SUFFICES ASSUME i + 1 <= m PROVE g[i + 1] = p[i + 1]
    OBVIOUS
  <2>1. i + 1 \in 1 .. m /\ (i + 1) - 1 = i /\ g[i] = p[i]
    BY <1>4
  <2>2. XiphChunk(s, p[i], p[i + 1], sizes[i + 1]) /\ Plain(sizes[i + 1])
    BY <1>1, <2>1 DEF XiphChunks
  <2>3. PICK a \in Nat, b \in Nat : a = p[i] /\ b = p[i + 1] /\ a < b /\ b <= Len(s) /\ s[b] # Base - 1
    BY <2>2 DEF XiphChunk
  <2>4. b \in XiphEnds(s) /\ b > a
    <3>1. b \in 1 .. Len(s)
      BY <2>3
    <3> QED BY <2>3, <3>1 DEF XiphEnds
  <2>5. PICK e : e = NextEnd(s, a) /\ g[i + 1] = e
    BY <1>2, <2>1, <2>3
  <2>6. e \in 1 .. Len(s) + 1 /\ ((e \in XiphEnds(s) /\ e > a) \/ e = Len(s) + 1) /\ e <= b
    BY <2>3, <2>4, <2>5, NextEndIs
  <2>7. e > a /\ e \in XiphEnds(s) \cup {Len(s) + 1}
    BY <2>3, <2>6
  <2>8. e >= b
    BY <2>2, <2>3, <2>7, ChunkEnd
  <2> QED BY <2>3, <2>5, <2>6, <2>8
<1> HIDE DEF T
<1>5. \A i \in Nat : i \in T
  BY <1>3, <1>4, NumbersFromZero
<1> QED BY <1>1, <1>5 DEF T

LEMMA OtherEnds ==
  ASSUME NEW s \in Seq(Octet), NEW sizes \in Seq(Nat), NEW p, XiphChunks(s, p, sizes),
         NEW g, EndsOf(g, s, Len(sizes)), NEW j \in 1 .. Len(sizes), ~Plain(sizes[j])
  PROVE  g[Len(sizes)] > p[Len(sizes)]
<1>1. PICK m \in Nat : m = Len(sizes)
  OBVIOUS
<1>2. /\ g[0] = 0 /\ p[0] = 0 /\ (\A i \in 1 .. m : g[i] = NextEnd(s, g[i - 1]))
      /\ \A i \in 0 .. m : g[i] \in Nat
  <2>1. PICK n \in Nat : n = Len(s)
    OBVIOUS
  <2>2. \A i \in 0 .. m : g[i] \in 0 .. n + 1
    BY <1>1, <2>1 DEF EndsOf
  <2>3. \A i \in 0 .. m : g[i] \in Nat
    BY <2>2
  <2> QED BY <1>1, <2>3 DEF EndsOf, XiphChunks
<1> DEFINE T == {i \in Nat : i <= m => /\ p[i] \in Nat /\ g[i] >= p[i] /\ (i >= j => g[i] > p[i])
                                       /\ i > 0 => g[i] \in XiphEnds(s) \cup {Len(s) + 1}}
<1>3. 0 \in T
  <2>1. ~(0 >= j)
    OBVIOUS
  <2> QED BY <1>2, <2>1
<1>4. ASSUME NEW i \in Nat, i \in T PROVE i + 1 \in T
  <2> SUFFICES ASSUME i + 1 <= m
               PROVE  /\ p[i + 1] \in Nat /\ g[i + 1] >= p[i + 1] /\ (i + 1 >= j => g[i + 1] > p[i + 1])
                      /\ g[i + 1] \in XiphEnds(s) \cup {Len(s) + 1}
    OBVIOUS
  <2>1. i + 1 \in 1 .. m /\ (i + 1) - 1 = i /\ i \in 0 .. m /\ i + 1 \in 0 .. m /\ i <= m
    OBVIOUS
  <2>2. p[i] \in Nat /\ g[i] >= p[i] /\ (i >= j => g[i] > p[i]) /\ (i > 0 => g[i] \in XiphEnds(s) \cup {Len(s) + 1})
    BY <1>4, <2>1
  <2>3. XiphChunk(s, p[i], p[i + 1], sizes[i + 1])
    BY <1>1, <2>1 DEF XiphChunks
  <2>4. PICK a \in Nat, b \in Nat : a = p[i] /\ b = p[i + 1] /\ a < b /\ b <= Len(s)
    BY <2>3 DEF XiphChunk
  <2>5. PICK d \in Nat, e \in Nat : d = g[i] /\ e = g[i + 1] /\ e = NextEnd(s, d) /\ d >= a
    BY <1>2, <2>1, <2>2, <2>4
  <2>6. (e \in XiphEnds(s) /\ e > d) \/ e = Len(s) + 1
    BY <2>5, NextEndIs
  <2>7. e \in XiphEnds(s) \cup {Len(s) + 1}
    BY <2>6
  <2>8. e > a
    BY <2>4, <2>5, <2>6, SMTT(30)
  <2>9. e >= b /\ (~Plain(sizes[i + 1]) => e > b)
    BY <2>3, <2>4, <2>7, <2>8, ChunkEnd
  <2>10. ASSUME i + 1 >= j PROVE e > b
    <3>1. CASE i + 1 = j
      BY <2>9, <3>1
    <3>2. CASE i + 1 # j
      <4>1. i >= j /\ i > 0
        BY <2>10, <3>2
      <4>2. d > a /\ d \in XiphEnds(s) \cup {Len(s) + 1}
        BY <2>2, <2>4, <2>5, <4>1
      <4>3. d >= b
        BY <2>3, <2>4, <4>2, ChunkEnd
      <4>4. e = Len(s) + 1 => e > b
        BY <2>4
      <4> QED BY <2>4, <2>5, <2>6, <4>3, <4>4
    <3> QED BY <3>1, <3>2
  <2> QED BY <2>4, <2>5, <2>7, <2>9, <2>10
<1> HIDE DEF T
<1>5. \A i \in Nat : i \in T
  BY <1>3, <1>4, NumbersFromZero
<1>6. m \in T /\ m <= m /\ m >= j
  BY <1>1, <1>5
<1> QED BY <1>1, <1>6 DEF T

LEMMA ChunksReadBack ==
  ASSUME NEW sizes \in Seq(Nat), NEW s \in Seq(Octet), NEW p, XiphChunks(s, p, sizes), p[Len(sizes)] \in 0 .. Len(s)
  PROVE  /\ (\A i \in 1 .. Len(sizes) : Plain(sizes[i])) => XiphSizes(s, Len(sizes)) = Got(sizes, p[Len(sizes)])
         /\ XiphSizes(s, Len(sizes)).ok /\ XiphSizes(s, Len(sizes)).n = p[Len(sizes)]
            => \A i \in 1 .. Len(sizes) : Plain(sizes[i])
<1> DEFINE m == Len(sizes)
<1>1. m \in Nat
  OBVIOUS
<1>2. PICK r : r = XiphSizes(s, m)
  OBVIOUS
<1>3. PICK g : EndsOf(g, s, m) /\ r = IF g[m] > Len(s) THEN UnexpectedEOF(Len(s)) ELSE Got(XiphSizesOf(g, s, m), g[m])
  BY <1>1, <1>2, EndsExist
<1>4. PICK n \in Nat : n = Len(s)
  OBVIOUS
<1>5. ASSUME \A i \in 1 .. m : Plain(sizes[i]) PROVE r = Got(sizes, p[m])
  <2>1. \A i \in 0 .. m : g[i] = p[i]
    BY <1>3, <1>5, PlainEnds
  <2>2. m \in 0 .. m
    BY <1>1
  <2>3. g[m] = p[m] /\ ~(g[m] > n)
    <3>1. g[m] = p[m]
      BY <2>1, <2>2, Zenon
    <3>2. ~(p[m] > n)
      BY <1>4
    <3> QED BY <3>1, <3>2, Zenon
  <2>4. ASSUME NEW i \in 1 .. m PROVE TotalSize(SubSeq(s, g[i - 1] + 1, g[i])) = sizes[i]
    <3>1. i - 1 \in 0 .. m /\ i \in 0 .. m
      BY <1>1
    <3>2. g[i - 1] = p[i - 1] /\ g[i] = p[i]
      BY <2>1, <3>1
    <3>3. SubSeq(s, p[i - 1] + 1, p[i]) = XiphSize(sizes[i])
      BY DEF XiphChunks, XiphChunk
    <3>4. sizes[i] \in Nat
      BY ElementType
    <3>5. TotalSize(XiphSize(sizes[i])) = sizes[i]
      BY <3>4, XiphSizeIs
    <3> QED BY <3>2, <3>3, <3>5
  <2>5. XiphSizesOf(g, s, m) = sizes
    <3>1. XiphSizesOf(g, s, m) = [i \in 1 .. m |-> sizes[i]]
      BY <2>4 DEF XiphSizesOf
    <3>2. sizes = [i \in 1 .. m |-> sizes[i]]
      OBVIOUS
    <3> QED BY <3>1, <3>2
  <2> QED BY <1>3, <1>4, <2>3, <2>5
<1>6. ASSUME r.ok, r.n = p[m], NEW j \in 1 .. m, ~Plain(sizes[j]) PROVE FALSE
  <2>1. g[m] > p[m]
    BY <1>3, <1>6, OtherEnds
  <2>2. r = Got(XiphSizesOf(g, s, m), g[m])
    BY <1>3, <1>6 DEF UnexpectedEOF
  <2>3. r.n = g[m]
    BY <2>2 DEF Got
  <2> QED BY <1>6, <2>1, <2>3
<1> QED BY <1>2, <1>5, <1>6

LEMMA XiphSizesReadBack ==
  ASSUME NEW sizes \in Seq(Nat), NEW F \in Seq(Octet), NEW S \in Seq(Octet), S = XiphSizesFor(sizes),
         NEW s, s = S \o F, NEW r, r = XiphSizes(s, Len(sizes))
  PROVE  /\ (\A i \in 1 .. Len(sizes) : Plain(sizes[i])) => r = Got(sizes, Len(S))
         /\ r.ok /\ r.n = Len(S) => \A i \in 1 .. Len(sizes) : Plain(sizes[i])
<1>1. PICK p : XiphChunks(s, p, sizes) /\ p[Len(sizes)] = Len(S)
  BY ChunksAre
<1>2. s \in Seq(Octet) /\ Len(s) = Len(S) + Len(F)
  BY AfterFirst
<1>3. p[Len(sizes)] \in 0 .. Len(s)
  <2>1. PICK n \in Nat, l \in Nat : n = Len(F) /\ l = Len(S)
    OBVIOUS
  <2> QED BY <1>1, <1>2, <2>1
<1>4. /\ (\A i \in 1 .. Len(sizes) : Plain(sizes[i])) => XiphSizes(s, Len(sizes)) = Got(sizes, p[Len(sizes)])
      /\ XiphSizes(s, Len(sizes)).ok /\ XiphSizes(s, Len(sizes)).n = p[Len(sizes)]
         => \A i \in 1 .. Len(sizes) : Plain(sizes[i])
  BY <1>1, <1>2, <1>3, ChunksReadBack
<1> QED BY <1>1, <1>4

LEMMA UnlaceXiph ==
  ASSUME NEW l, l = LacingXiph, NEW s, s # <<>>, NEW n
  PROVE  Unlace(l, s, n) = CutWithLast(Tail(s), n - 1, XiphSizes(Tail(s), s[1]))
<1>1. l # LacingNo /\ l # LacingFixed /\ l # LacingEBML
  BY DEF LacingFixed, LacingNo, LacingXiph, LacingEBML
<1>2. ~(s = <<>> \/ (l = LacingFixed /\ (n - 1) % (s[1] + 1) # 0))
  BY <1>1
<1> QED BY <1>1, <1>2 DEF Unlace

LEMMA XiphIsReadBack ==
  ASSUME NEW b \in Block, b.lacing = LacingXiph, b.data # <<>>, ~LacerFails(b)
  PROVE  /\ Lace(b) \in Seq(Octet)
         /\ ReadsBack(Unlace(b.lacing, Lace(b), Len(Lace(b))), b.data)
            <=> Len(b.data[Len(b.data)]) > 0 /\ \A i \in 1 .. Len(b.data) - 1 : Plain(Len(b.data[i]))
<1>1. PICK frames \in Seq(Seq(Octet)), F \in Seq(Octet) : frames = b.data /\ F = FlattenSeq(frames)
  BY DataIs
<1>2. PICK k \in Nat \ {0}, m \in Nat : k = Len(frames) /\ m = k - 1 /\ k = m + 1
  <2>1. PICK k \in Nat : k = Len(frames) /\ k # 0
    BY <1>1, NotEmpty
  <2>2. k - 1 \in Nat /\ k = (k - 1) + 1
    BY <2>1
  <2> QED BY <2>1, <2>2
<1>3. PICK sizes \in Seq(Nat) : /\ sizes = [i \in 1 .. m |-> Len(frames[i])] /\ Len(sizes) = m
                                /\ \A i \in 1 .. m : sizes[i] = Len(frames[i])
  <2>1. PICK f : f = [i \in 1 .. m |-> Len(frames[i])]
    OBVIOUS
  <2>2. \A i \in 1 .. m : Len(frames[i]) \in Nat
    <3>1. \A i \in 1 .. m : i \in 1 .. Len(frames)
      BY <1>2
    <3> QED BY <3>1, LengthsAre
  <2>3. f \in [1 .. m -> Nat]
    BY <2>1, <2>2
  <2>4. f \in Seq(Nat) /\ Len(f) = m
    BY <2>3
  <2> QED BY <2>1, <2>4
<1>4. LaceSizes(b) = XiphSizesFor(sizes)
  <2>1. LaceSizes(b) = FlattenSeq([i \in 1 .. m |-> XiphSize(Len(frames[i]))])
    BY <1>1, <1>2 DEF LaceSizes
  <2>2. [i \in 1 .. m |-> XiphSize(Len(frames[i]))] = [i \in 1 .. Len(sizes) |-> XiphSize(sizes[i])]
    BY <1>3
  <2> QED BY <2>1, <2>2 DEF XiphSizesFor
<1>5. PICK S \in Seq(Octet) : S = XiphSizesFor(sizes)
  <2>1. XiphSizesFor(sizes) \in Seq(Octet)
    BY <1>1, ChunksAre
  <2> QED BY <2>1
<1>6. PICK L : L = Lace(b) /\ Laced(b, S, k, L)
  <2>1. b.lacing # LacingNo
    BY DEF LacingXiph, LacingNo
  <2>2. Laced(b, S, Len(b.data), Lace(b))
    BY <1>4, <1>5, <2>1, LacedIs
  <2> QED BY <1>1, <1>2, <2>2
<1>7. PICK rest \in Seq(Octet) : rest = S \o F /\ rest = Tail(L)
  BY <1>1, <1>6 DEF Laced
<1>8. L \in Seq(Octet) /\ L # <<>> /\ Len(L) - 1 = Len(S) + Len(F) /\ L[1] = m
  BY <1>1, <1>2, <1>6 DEF Laced
<1>9. PICK r : r = XiphSizes(rest, m)
  OBVIOUS
<1>10. Unlace(b.lacing, L, Len(L)) = CutWithLast(rest, Len(S) + Len(F), r)
  BY <1>7, <1>8, <1>9, UnlaceXiph
<1>11. SizesBut(sizes, frames)
  <2>1. sizes \in Seq(Int)
    OBVIOUS
  <2> QED BY <1>2, <1>3, <2>1 DEF SizesBut
<1>12. /\ (\A i \in 1 .. m : Plain(sizes[i])) => r = Got(sizes, Len(S))
       /\ r.ok /\ r.n = Len(S) => \A i \in 1 .. m : Plain(sizes[i])
  <2>1. r = XiphSizes(rest, Len(sizes)) /\ m = Len(sizes)
    BY <1>3, <1>9
  <2>2. sizes \in Seq(Nat) /\ F \in Seq(Octet) /\ S \in Seq(Octet) /\ S = XiphSizesFor(sizes) /\ rest = S \o F
    BY <1>1, <1>3, <1>5, <1>7
  <2>3. /\ (\A i \in 1 .. Len(sizes) : Plain(sizes[i])) => r = Got(sizes, Len(S))
        /\ r.ok /\ r.n = Len(S) => \A i \in 1 .. Len(sizes) : Plain(sizes[i])
    BY <2>1, <2>2, XiphSizesReadBack
  <2> QED BY <2>1, <2>3
<1>13. ASSUME \A i \in 1 .. m : Plain(sizes[i]), Len(frames[k]) > 0
       PROVE  ReadsBack(CutWithLast(rest, Len(S) + Len(F), r), frames)
  <2>1. Len(frames[Len(frames)]) > 0
    BY <1>2, <1>13
  <2>2. frames \in Seq(Seq(Octet)) /\ F \in Seq(Octet) /\ S \in Seq(Octet) /\ F = FlattenSeq(frames)
    BY <1>1, <1>5
  <2>3. LastRead(frames, sizes, S, F)
    BY <1>11, <2>1, <2>2, LastCut
  <2>4. r = Got(sizes, Len(S))
    BY <1>12, <1>13
  <2>5. CutWithLast(rest, Len(S) + Len(F), r) = Got(frames, Len(F))
    BY <1>7, <2>3, <2>4 DEF LastRead
  <2> QED BY <2>5 DEF ReadsBack, Got
<1>14. ASSUME ReadsBack(CutWithLast(rest, Len(S) + Len(F), r), frames)
       PROVE  Len(frames[k]) > 0 /\ \A i \in 1 .. m : Plain(sizes[i])
  <2>1. r.ok => r.v \in Seq(Nat) /\ r.n \in Nat
    BY <1>9, XiphSizesType
  <2>2. frames \in Seq(Seq(Octet)) /\ F \in Seq(Octet) /\ S \in Seq(Octet) /\ F = FlattenSeq(frames)
    BY <1>1, <1>5
  <2>3. ReadsBack(CutWithLast(S \o F, Len(S) + Len(F), r), frames)
    BY <1>7, <1>14
  <2>4. r.ok /\ Len(frames[Len(frames)]) > 0 /\ r.n = Len(S)
    BY <2>1, <2>2, <2>3, LastCutGives
  <2> QED BY <1>2, <1>12, <2>4
<1>15. (\A i \in 1 .. m : Plain(sizes[i])) <=> \A i \in 1 .. Len(frames) - 1 : Plain(Len(frames[i]))
  BY <1>2, <1>3
<1> QED BY <1>1, <1>2, <1>6, <1>8, <1>10, <1>13, <1>14, <1>15

----------------------------------------------------------------------------
(* Blocks with EBML lacing *)

\* The octets E at the beginning of t.
StartsWith(t, E) == Len(t) >= Len(E) /\ \A i \in 1 .. Len(E) : t[i] = E[i]

LEMMA IDAt ==
  ASSUME NEW v \in IDs, NEW t \in Seq(Octet), StartsWith(t, encodeElementID(v))
  PROVE  readVUInt(t) = Got(v, Len(encodeElementID(v)))
<1>1. PICK k \in 1 .. OctetBits - 1 : encodeElementID(v) = Marked(v, k) /\ v \in 0 .. Limit(k) - 1
  BY ElementIDWritten
<1>2. k \in 1 .. OctetBits
  BY BitsAre
<1>3. Len(Marked(v, k)) = k
  BY <1>1, <1>2, MarkedIs
<1>4. Len(t) >= k /\ \A i \in 1 .. k : t[i] = Marked(v, k)[i]
  BY <1>1, <1>3 DEF StartsWith
<1>5. readVUInt(t) = Got(v, k)
  BY <1>1, <1>2, <1>4, ReadMarked
<1> QED BY <1>1, <1>3, <1>5

LEMMA IDType == ASSUME NEW v \in IDs PROVE encodeElementID(v) \in Seq(Octet) /\ Len(encodeElementID(v)) \in Nat
<1>1. PICK k \in 1 .. OctetBits - 1 : encodeElementID(v) = Marked(v, k) /\ v \in 0 .. Limit(k) - 1
  BY ElementIDWritten
<1>2. k \in 1 .. OctetBits
  BY BitsAre
<1>3. Marked(v, k) \in Seq(Octet)
  BY <1>1, <1>2, MarkedIs
<1> QED BY <1>1, <1>3

LEMMA VIntType == ASSUME NEW w \in Signed PROVE encodeVInt(w) \in Seq(Octet) /\ Len(encodeVInt(w)) \in Nat
<1>1. PICK k \in 1 .. OctetBits : \E x \in 0 .. Limit(k) - 1 : encodeVInt(w) = Marked(x, k) /\ w = x - Bias(k)
  BY VIntWritten
<1>2. PICK x \in 0 .. Limit(k) - 1 : encodeVInt(w) = Marked(x, k) /\ w = x - Bias(k)
  BY <1>1
<1>3. Marked(x, k) \in Seq(Octet)
  BY <1>2, MarkedIs
<1> QED BY <1>2, <1>3

LEMMA VIntAt ==
  ASSUME NEW w \in Signed, NEW t \in Seq(Octet), StartsWith(t, encodeVInt(w))
  PROVE  readVInt(t) = Got(w, Len(encodeVInt(w)))
<1>1. PICK k \in 1 .. OctetBits : \E x \in 0 .. Limit(k) - 1 : encodeVInt(w) = Marked(x, k) /\ w = x - Bias(k)
  BY VIntWritten
<1>2. PICK x \in 0 .. Limit(k) - 1 : encodeVInt(w) = Marked(x, k) /\ w = x - Bias(k)
  BY <1>1
<1>3. Len(Marked(x, k)) = k
  BY <1>2, MarkedIs
<1>4. Len(t) >= k /\ \A i \in 1 .. k : t[i] = Marked(x, k)[i]
  BY <1>2, <1>3 DEF StartsWith
<1>5. readVUInt(t) = Got(x, k)
  BY <1>4, ReadMarked
<1>6. readVInt(t) = Got(x - Bias(k), k)
  BY <1>5 DEF readVInt, Got
<1> QED BY <1>2, <1>3, <1>6

\* Sizes of frames of which only the first one may be empty.
Positive(v) == v \in Seq(Nat) /\ v # <<>> /\ \A i \in 2 .. Len(v) : v[i] > 0

LEMMA FirstPositive == ASSUME NEW s \in Seq(Octet) PROVE Positive(FirstSize(s).v)
<1>1. PICK r : r = readVUInt(s)
  OBVIOUS
<1>2. r \in Reads(Nat)
  BY <1>1, ReadVUIntType
<1>3. r.v \in Nat /\ FirstSize(s).v = <<r.v>>
  BY <1>1, <1>2 DEF Reads, FirstSize
<1>4. <<r.v>> \in Seq(Nat) /\ Len(<<r.v>>) = 1 /\ <<r.v>> # <<>>
  BY <1>3
<1>5. \A i \in 2 .. 1 : FALSE
  OBVIOUS
<1> QED BY <1>3, <1>4, <1>5 DEF Positive

LEMMA NextPositive ==
  ASSUME NEW s \in Seq(Octet), NEW before \in Reads(SomeSizes), before.ok => Positive(before.v), NextSize(s, before).ok
  PROVE  Positive(NextSize(s, before).v)
<1>1. PICK r : r = readVInt(SubSeq(s, before.n + 1, Len(s)))
  OBVIOUS
<1>2. PICK x : x = Last(before.v) + r.v
  OBVIOUS
<1>3. NextSize(s, before) = IF before.ok /\ r.ok /\ x > 0 THEN Got(Append(before.v, x), before.n + r.n)
                            ELSE [before EXCEPT !.ok = FALSE]
  BY <1>1, <1>2 DEF NextSize
<1>4. before.ok /\ r.ok /\ x > 0
  <2>1. ~[before EXCEPT !.ok = FALSE].ok
    BY DEF Reads
  <2> QED BY <1>3, <2>1
<1>5. x \in Int
  <2>1. SubSeq(s, before.n + 1, Len(s)) \in Seq(Octet)
    <3>1. before.n + 1 \in Nat \ {0} /\ Len(s) \in Int /\ Len(s) <= Len(s)
      BY DEF Reads
    <3> QED BY <3>1, PartOf
  <2>2. r.v \in Int
    BY <1>1, <2>1, ReadVIntType DEF Reads
  <2>3. Last(before.v) \in Int
    BY DEF Reads, SomeSizes, Last
  <2> QED BY <1>2, <2>2, <2>3
<1>6. PICK v \in Seq(Nat) : v = before.v /\ v # <<>> /\ \A i \in 2 .. Len(v) : v[i] > 0
  BY <1>4 DEF Positive
<1>7. x \in Nat
  BY <1>4, <1>5
<1>8. PICK q : q = Append(v, x)
  OBVIOUS
<1>9. q \in Seq(Nat) /\ Len(v) \in Nat /\ Len(q) = Len(v) + 1 /\ q[Len(v) + 1] = x /\ \A i \in 1 .. Len(v) : q[i] = v[i]
  BY <1>6, <1>7, <1>8, AppendAt
<1>10. \A i \in 2 .. Len(q) : q[i] > 0
  <2>1. \A i \in 2 .. Len(q) : i = Len(v) + 1 \/ (i \in 2 .. Len(v) /\ i \in 1 .. Len(v))
    BY <1>9
  <2> QED BY <1>4, <1>6, <1>9, <2>1
<1>11. q # <<>>
  <2>1. Len(q) # 0 /\ Len(<<>>) = 0
    BY <1>9
  <2> QED BY <2>1
<1>12. NextSize(s, before).v = q
  <2>1. NextSize(s, before) = Got(q, before.n + r.n)
    BY <1>3, <1>4, <1>6, <1>8
  <2> QED BY <2>1 DEF Got
<1> QED BY <1>9, <1>10, <1>11, <1>12 DEF Positive

LEMMA EbmlSizesType ==
  ASSUME NEW s \in Seq(Octet), NEW k \in Nat, NEW r, r = EbmlSizes(s, k)
  PROVE  r.ok => r.v \in Seq(Nat) /\ r.n \in Nat /\ (k > 0 => \A i \in 2 .. Len(r.v) : r.v[i] > 0)
<1>1. PICK read : SizesInTurn(read, s, k) /\ r = IF k = 0 THEN [read[0] EXCEPT !.v = <<>>] ELSE read[k - 1]
  BY ReadingExists
<1>2. /\ read[0] = FirstSize(s) /\ \A i \in 1 .. k : read[i] = NextSize(s, read[i - 1])
      /\ \A i \in 0 .. k : read[i] \in Reads(SomeSizes)
  BY <1>1 DEF SizesInTurn
<1> DEFINE T == {n \in Nat : n <= k => (read[n].ok => Positive(read[n].v))}
<1>3. 0 \in T
  BY <1>2, FirstPositive
<1>4. ASSUME NEW n \in Nat, n \in T PROVE n + 1 \in T
  <2> SUFFICES ASSUME n + 1 <= k, read[n + 1].ok PROVE Positive(read[n + 1].v)
    OBVIOUS
  <2>1. n + 1 \in 1 .. k /\ (n + 1) - 1 = n /\ n \in 0 .. k /\ (read[n].ok => Positive(read[n].v))
    BY <1>4
  <2>2. PICK before \in Reads(SomeSizes) : before = read[n] /\ read[n + 1] = NextSize(s, before)
    BY <1>2, <2>1
  <2> QED BY <2>1, <2>2, NextPositive
<1> HIDE DEF T
<1>5. \A n \in Nat : n \in T
  BY <1>3, <1>4, NumbersFromZero
<1>6. CASE k = 0
  <2>1. read[0] \in Reads(SomeSizes)
    BY <1>2
  <2>2. r.v = <<>> /\ r.n \in Nat
    BY <1>1, <1>6, <2>1 DEF Reads
  <2>3. <<>> \in Seq(Nat)
    OBVIOUS
  <2>4. ~(k > 0)
    BY <1>6
  <2> QED BY <2>2, <2>3, <2>4, Zenon
<1>7. CASE k # 0
  <2>1. k - 1 \in 0 .. k /\ k - 1 \in Nat /\ k - 1 <= k
    BY <1>7
  <2>2. r = read[k - 1] /\ r \in Reads(SomeSizes)
    BY <1>1, <1>2, <1>7, <2>1
  <2>3. r.ok => Positive(r.v)
    BY <1>5, <2>1, <2>2 DEF T
  <2>4. r.n \in Nat
    BY <2>2 DEF Reads
  <2> QED BY <2>3, <2>4 DEF Positive
<1> QED BY <1>6, <1>7

\* The sizes w in octets: the first one, and the differences.
Differences(w) == [i \in 1 .. Len(w) - 1 |-> encodeVInt(w[i + 1] - w[i])]
EbmlSizesFor(w) == encodeElementID(w[1]) \o FlattenSeq(Differences(w))

LEMMA DifferencesAre ==
  ASSUME NEW w \in Seq(IDs), w # <<>>
  PROVE  /\ Len(w) \in Nat \ {0} /\ Differences(w) \in Seq(Seq(Octet)) /\ Len(Differences(w)) = Len(w) - 1
         /\ \A i \in 1 .. Len(w) - 1 : /\ w[i + 1] - w[i] \in Signed /\ w[i] \in Int /\ w[i + 1] \in Int
                                      /\ Differences(w)[i] = encodeVInt(w[i + 1] - w[i])
<1>1. PICK q \in Nat : q = Len(w) - 1 /\ Len(w) = q + 1
  <2>1. Len(w) \in Nat /\ Len(w) # 0
    BY NotEmpty
  <2>2. Len(w) - 1 \in Nat /\ Len(w) = (Len(w) - 1) + 1
    BY <2>1
  <2> QED BY <2>2
<1>2. PICK l \in Nat \ {0} : IDs = 0 .. l - 1 /\ Signed = -(l - 1) .. l - 1
  <2>1. PICK l \in Nat \ {0} : l = Limit(OctetBits - 1)
    BY Halves
  <2> QED BY <2>1 DEF IDs, Signed
<1>3. ASSUME NEW i \in 1 .. q PROVE w[i + 1] - w[i] \in Signed /\ w[i] \in Int /\ w[i + 1] \in Int
  <2>1. i \in 1 .. Len(w) /\ i + 1 \in 1 .. Len(w)
    BY <1>1
  <2>2. w[i] \in IDs /\ w[i + 1] \in IDs
    BY <2>1, ElementType
  <2>3. PICK x \in 0 .. l - 1, y \in 0 .. l - 1 : x = w[i] /\ y = w[i + 1]
    BY <1>2, <2>2
  <2>4. y - x \in -(l - 1) .. l - 1
    OBVIOUS
  <2> QED BY <1>2, <2>3, <2>4
<1>4. PICK d : d = [i \in 1 .. q |-> encodeVInt(w[i + 1] - w[i])]
  OBVIOUS
<1>5. d \in [1 .. q -> Seq(Octet)]
  BY <1>3, <1>4, VIntType
<1>6. d \in Seq(Seq(Octet)) /\ Len(d) = q
  BY <1>5
<1>7. Differences(w) = d
  BY <1>1, <1>4 DEF Differences
<1> QED BY <1>1, <1>3, <1>4, <1>6, <1>7

\* The first octets of s are those of the size w[1]; those after p[i - 1] more are of the i-th difference.
EbmlChunks(s, e, p, w) ==
  /\ StartsWith(s, encodeElementID(w[1])) /\ e = Len(encodeElementID(w[1])) /\ p[0] = 0
  /\ \A i \in 1 .. Len(w) - 1 :
       /\ p[i - 1] \in Nat /\ p[i] = p[i - 1] + Len(encodeVInt(w[i + 1] - w[i]))
       /\ e + p[i - 1] <= Len(s)
       /\ StartsWith(SubSeq(s, e + p[i - 1] + 1, Len(s)), encodeVInt(w[i + 1] - w[i]))

LEMMA EbmlChunksAre ==
  ASSUME NEW w \in Seq(IDs), w # <<>>, NEW F \in Seq(Octet)
  PROVE  /\ EbmlSizesFor(w) \in Seq(Octet)
         /\ \E p : /\ EbmlChunks(EbmlSizesFor(w) \o F, Len(encodeElementID(w[1])), p, w)
                   /\ Len(encodeElementID(w[1])) + p[Len(w) - 1] = Len(EbmlSizesFor(w))
<1>1. PICK q \in Nat : q = Len(w) - 1 /\ Len(w) = q + 1
  <2>1. Len(w) \in Nat \ {0}
    BY DifferencesAre
  <2>2. Len(w) - 1 \in Nat /\ Len(w) = (Len(w) - 1) + 1
    BY <2>1
  <2> QED BY <2>2
<1>2. PICK d \in Seq(Seq(Octet)) : /\ d = Differences(w) /\ Len(d) = q
                                   /\ \A i \in 1 .. q : d[i] = encodeVInt(w[i + 1] - w[i])
  BY <1>1, DifferencesAre
<1>3. w[1] \in IDs
  <2>1. 1 \in 1 .. Len(w)
    BY <1>1
  <2> QED BY <2>1, ElementType
<1>4. PICK E \in Seq(Octet), e \in Nat : E = encodeElementID(w[1]) /\ e = Len(E)
  BY <1>3, IDType
<1>5. Lengths(d) \in Seq(Int)
  BY LengthsAre
<1>6. PICK p : BoundsOf(p, Lengths(d))
  BY <1>5, BoundsAre
<1>7. PICK D \in Seq(Octet) : D = FlattenSeq(d) /\ Len(D) = p[q] /\ \A i \in 1 .. q : PieceOf(D, d, p, q, i)
  <2>1. FlattenSeq(d) \in Seq(Octet) /\ Len(FlattenSeq(d)) = p[q]
    BY <1>2, <1>6, Pieces
  <2>2. \A i \in 1 .. Len(d) : PieceOf(FlattenSeq(d), d, p, Len(d), i)
    BY <1>6, PiecesAre
  <2> QED BY <1>2, <2>1, <2>2
<1>8. PICK S : S = E \o D
  OBVIOUS
<1>9. S = EbmlSizesFor(w)
  BY <1>2, <1>4, <1>7, <1>8 DEF EbmlSizesFor
<1>10. /\ S \in Seq(Octet) /\ Len(S) = e + Len(D) /\ (\A x \in 1 .. e : S[x] = E[x])
       /\ \A x \in 1 .. Len(D) : S[e + x] = D[x]
  <2>1. Joined(Octet, E, D, S)
    BY <1>8, JoinedAt
  <2> QED BY <1>4, <2>1 DEF Joined
<1>11. PICK s : s = S \o F
  OBVIOUS
<1>12. PICK n \in Nat, l \in Nat, k \in Nat : /\ n = Len(s) /\ l = Len(D) /\ k = Len(S) /\ k <= n /\ k = e + l
                                              /\ s \in Seq(Octet) /\ \A x \in 1 .. k : s[x] = S[x]
  <2>1. Joined(Octet, S, F, s)
    BY <1>10, <1>11, JoinedAt
  <2>2. PICK l \in Nat, k \in Nat, f \in Nat : l = Len(D) /\ k = Len(S) /\ f = Len(F) /\ k = e + l
    BY <1>10
  <2>3. Len(s) = k + f /\ s \in Seq(Octet) /\ \A x \in 1 .. k : s[x] = S[x]
    BY <2>1, <2>2 DEF Joined
  <2>4. k + f \in Nat /\ k <= k + f
    BY <2>2
  <2> QED BY <2>2, <2>3, <2>4
<1>13. StartsWith(s, E)
  <2>1. \A x \in 1 .. e : x \in 1 .. k
    BY <1>12
  <2>2. \A x \in 1 .. e : s[x] = E[x]
    BY <1>10, <1>12, <2>1
  <2>3. n >= e
    BY <1>12
  <2> QED BY <1>4, <1>12, <2>2, <2>3 DEF StartsWith
<1>14. ASSUME NEW i \in 1 .. q
       PROVE  /\ p[i - 1] \in Nat /\ p[i] = p[i - 1] + Len(d[i])
              /\ e + p[i - 1] <= Len(s) /\ StartsWith(SubSeq(s, e + p[i - 1] + 1, Len(s)), d[i])
  <2>1. PICK c \in Seq(Octet), m \in Nat : c = d[i] /\ m = Len(c)
    BY <1>2
  <2>2. PICK a \in Nat : a = p[i - 1] /\ p[i] = a + m /\ p[i] <= p[q] /\ \A j \in 1 .. m : D[a + j] = c[j]
    <3>1. PieceOf(D, d, p, q, i)
      BY <1>7
    <3> QED BY <2>1, <3>1 DEF PieceOf
  <2>3. a + m <= l
    BY <1>7, <1>12, <2>2
  <2>4. PICK b \in Nat, r \in Nat : b = e + a /\ r = n - b /\ b + r = n /\ m <= r /\ b <= n
    <3>1. e + a \in Nat /\ n - (e + a) \in Nat /\ (e + a) + (n - (e + a)) = n /\ m <= n - (e + a) /\ e + a <= n
      BY <1>12, <2>3
    <3> QED BY <3>1
  <2>5. PICK t : t = SubSeq(s, b + 1, b + r)
    OBVIOUS
  <2>6. PartOfAt(Octet, s, b, r, t)
    <3>1. s \in Seq(Octet) /\ b + r <= Len(s)
      BY <1>12, <2>4
    <3>2. b \in Nat /\ r \in Nat
      BY <2>4
    <3> QED BY <2>5, <3>1, <3>2, PartAt
  <2>7. Len(t) = r /\ \A j \in 1 .. r : t[j] = s[b + j]
    BY <2>6 DEF PartOfAt
  <2>8. ASSUME NEW j \in 1 .. m PROVE t[j] = c[j]
    <3>1. a + j \in 1 .. l /\ e + (a + j) = b + j /\ b + j \in 1 .. k /\ j \in 1 .. r
      BY <1>12, <2>3, <2>4
    <3>2. t[j] = s[b + j] /\ s[b + j] = S[b + j] /\ S[e + (a + j)] = D[a + j]
      BY <1>10, <1>12, <2>7, <3>1
    <3> QED BY <2>2, <3>1, <3>2
  <2>9. StartsWith(t, c)
    BY <2>1, <2>4, <2>7, <2>8 DEF StartsWith
  <2> QED BY <1>12, <2>1, <2>2, <2>4, <2>5, <2>9
<1>15. p[0] = 0
  BY <1>6 DEF BoundsOf
<1>16. EbmlChunks(s, e, p, w)
  BY <1>1, <1>2, <1>4, <1>13, <1>14, <1>15 DEF EbmlChunks
<1>17. e + p[q] = Len(S)
  BY <1>7, <1>12
<1> QED BY <1>1, <1>4, <1>9, <1>10, <1>11, <1>16, <1>17

LEMMA GotFirst ==
  ASSUME NEW x \in Int, NEW e \in Nat, NEW r, r = Got(x, e) PROVE [r EXCEPT !.v = <<r.v>>] = Got(<<x>>, e)
<1>1. r \in Reads(Int) /\ r.v = x /\ r.n = e /\ r.ok = TRUE
  BY GotIs DEF Got
<1>2. r = [ok |-> r.ok, v |-> r.v, n |-> r.n]
  BY <1>1 DEF Reads
<1>3. [r EXCEPT !.v = <<r.v>>] = [ok |-> r.ok, v |-> <<r.v>>, n |-> r.n]
  BY <1>2
<1> QED BY <1>1, <1>3 DEF Got

LEMMA SizesRead ==
  ASSUME NEW w \in Seq(IDs), w # <<>>, \A i \in 2 .. Len(w) : w[i] > 0,
         NEW s \in Seq(Octet), NEW e \in Nat, NEW p, EbmlChunks(s, e, p, w),
         NEW k \in Nat, Len(w) - 1 <= k, NEW read, SizesInTurn(read, s, k)
  PROVE  read[Len(w) - 1] = Got(w, e + p[Len(w) - 1])
<1>1. PICK q \in Nat : q = Len(w) - 1 /\ Len(w) = q + 1 /\ q <= k
  <2>1. Len(w) \in Nat \ {0}
    BY DifferencesAre
  <2>2. Len(w) - 1 \in Nat /\ Len(w) = (Len(w) - 1) + 1
    BY <2>1
  <2> QED BY <2>2
<1>2. /\ StartsWith(s, encodeElementID(w[1])) /\ e = Len(encodeElementID(w[1])) /\ p[0] = 0
      /\ \A i \in 1 .. q :
           /\ p[i - 1] \in Nat /\ p[i] = p[i - 1] + Len(encodeVInt(w[i + 1] - w[i]))
           /\ e + p[i - 1] <= Len(s)
           /\ StartsWith(SubSeq(s, e + p[i - 1] + 1, Len(s)), encodeVInt(w[i + 1] - w[i]))
  BY <1>1 DEF EbmlChunks
<1>3. read[0] = FirstSize(s) /\ \A i \in 1 .. k : read[i] = NextSize(s, read[i - 1])
  BY DEF SizesInTurn
<1>4. \A i \in 1 .. q + 1 : w[i] \in IDs /\ w[i] \in Nat
  <2>1. \A i \in 1 .. q + 1 : w[i] \in IDs
    BY <1>1, ElementType
  <2>2. \A x \in IDs : x \in Nat
    BY Halves DEF IDs
  <2> QED BY <2>1, <2>2
<1>5. \A i \in 1 .. q : w[i + 1] - w[i] \in Signed /\ w[i] \in Int /\ w[i + 1] \in Int
  BY <1>1, DifferencesAre
<1> DEFINE Upto(n, u) == u \in Seq(Int) /\ Len(u) = n + 1 /\ (\A i \in 1 .. n + 1 : u[i] = w[i]) /\ read[n] = Got(u, e + p[n])
           T == {n \in Nat : n <= q => \E u \in Seq(Int) : Upto(n, u)}
<1>6. 0 \in T
  <2>1. PICK x \in Int : x = w[1] /\ x \in IDs
    BY <1>4
  <2>2. readVUInt(s) = Got(x, e)
    BY <1>2, <2>1, IDAt
  <2>3. FirstSize(s) = Got(<<x>>, e)
    <3>1. PICK r : r = readVUInt(s) /\ r = Got(x, e)
      BY <2>2
    <3>2. FirstSize(s) = [r EXCEPT !.v = <<r.v>>]
      BY <3>1 DEF FirstSize
    <3> QED BY <3>1, <3>2, GotFirst
  <2>4. PICK u \in Seq(Int) : u = <<x>> /\ Len(u) = 1 /\ u[1] = x
    <3>1. <<x>> \in Seq(Int) /\ Len(<<x>>) = 1 /\ <<x>>[1] = x
      OBVIOUS
    <3> QED BY <3>1
  <2>5. e + p[0] = e
    BY <1>2
  <2>6. \A i \in 1 .. 0 + 1 : i = 1
    OBVIOUS
  <2>7. Upto(0, u)
    BY <1>3, <2>1, <2>3, <2>4, <2>5, <2>6
  <2> QED BY <2>7
<1>7. ASSUME NEW n \in Nat, n \in T PROVE n + 1 \in T
  <2> SUFFICES ASSUME n + 1 <= q PROVE \E u \in Seq(Int) : Upto(n + 1, u)
    OBVIOUS
  <2>1. /\ n + 1 \in 1 .. q /\ (n + 1) - 1 = n /\ n + 1 \in 1 .. k /\ n + 1 \in 1 .. q + 1
        /\ n + 2 \in 2 .. q + 1 /\ (n + 1) + 1 = n + 2 /\ n + 2 \in 1 .. q + 1
    BY <1>1
  <2>2. PICK u \in Seq(Int) : Upto(n, u)
    BY <1>7, <2>1
  <2>3. PICK x \in Int, y \in Int, z \in Signed : x = w[n + 1] /\ y = w[n + 2] /\ z = y - x /\ y > 0
    BY <1>1, <1>5, <2>1
  <2>4. PICK a \in Nat, c \in Seq(Octet) :
          /\ a = p[n] /\ c = encodeVInt(z) /\ p[n + 1] = a + Len(c) /\ e + a <= Len(s)
          /\ StartsWith(SubSeq(s, e + a + 1, Len(s)), c)
    <3>1. encodeVInt(z) \in Seq(Octet)
      BY VIntType
    <3> QED BY <1>2, <2>1, <2>3, <3>1
  <2>5. PICK m \in Nat : m = Len(c)
    BY <2>4, VIntType
  <2>6. PICK t \in Seq(Octet) : t = SubSeq(s, (e + a) + 1, Len(s))
    <3>1. (e + a) + 1 \in Nat \ {0} /\ Len(s) \in Int /\ Len(s) <= Len(s)
      BY <2>4, SMTT(30)
    <3> QED BY <3>1, PartOf
  <2>7. readVInt(t) = Got(z, m)
    BY <2>4, <2>5, <2>6, VIntAt
  <2>8. Last(u) = x
    BY <2>1, <2>2, <2>3, SMTT(30) DEF Last
  <2>9. x + z = y
    BY <2>3, SMTT(30)
  <2>10. PICK v : v = Append(u, y)
    OBVIOUS
  <2>11. NextSize(s, Got(u, e + a)) = Got(v, (e + a) + m)
    <3>1. Got(u, e + a).ok /\ Got(u, e + a).v = u /\ Got(u, e + a).n = e + a
      BY DEF Got
    <3>2. Got(z, m).ok /\ Got(z, m).v = z /\ Got(z, m).n = m
      BY DEF Got
    <3> QED BY <2>3, <2>6, <2>7, <2>8, <2>9, <2>10, <3>1, <3>2, ZenonT(30) DEF NextSize
  <2>12. read[n + 1] = Got(v, e + p[n + 1])
    <3>1. read[n + 1] = NextSize(s, Got(u, e + a))
      BY <1>3, <2>1, <2>2, <2>4
    <3>2. (e + a) + m = e + p[n + 1]
      BY <2>4, <2>5
    <3> QED BY <2>11, <3>1, <3>2
  <2>13. v \in Seq(Int) /\ Len(v) = n + 2 /\ v[n + 2] = y /\ \A i \in 1 .. n + 1 : v[i] = u[i]
    <3>1. v \in Seq(Int) /\ Len(v) = Len(u) + 1 /\ v[Len(u) + 1] = y /\ \A i \in 1 .. Len(u) : v[i] = u[i]
      BY <2>2, <2>10, AppendAt
    <3> QED BY <2>1, <2>2, <3>1
  <2>14. ASSUME NEW i \in 1 .. n + 2 PROVE v[i] = w[i]
    <3>1. CASE i = n + 2
      BY <2>3, <2>13, <3>1
    <3>2. CASE i # n + 2
      <4>1. i \in 1 .. n + 1
        BY <3>2
      <4> QED BY <2>2, <2>13, <4>1
    <3> QED BY <3>1, <3>2
  <2>15. Upto(n + 1, v)
    BY <2>1, <2>12, <2>13, <2>14
  <2> QED BY <2>13, <2>15
<1> HIDE DEF T
<1>8. \A n \in Nat : n \in T
  BY <1>6, <1>7, NumbersFromZero
<1>9. PICK u \in Seq(Int) : Upto(q, u)
  BY <1>8 DEF T
<1>10. u = w
  <2>1. w \in Seq(Int)
    <3>1. IDs \subseteq Int
      BY Halves DEF IDs
    <3> QED BY <3>1, SequenceOfMore
  <2>2. Len(u) = Len(w) /\ \A i \in 1 .. Len(u) : u[i] = w[i]
    BY <1>1, <1>9
  <2> QED BY <2>1, <2>2, SameSequence, Zenon
<1> QED BY <1>1, <1>9, <1>10

LEMMA UnlaceEbml ==
  ASSUME NEW l, l = LacingEBML, NEW s, s # <<>>, NEW n
  PROVE  Unlace(l, s, n) = CutWithLast(Tail(s), n - 1, EbmlSizes(Tail(s), s[1]))
<1>1. l # LacingNo /\ l # LacingFixed /\ l # LacingXiph
  BY DEF LacingFixed, LacingNo, LacingXiph, LacingEBML
<1>2. ~(s = <<>> \/ (l = LacingFixed /\ (n - 1) % (s[1] + 1) # 0))
  BY <1>1
<1> QED BY <1>1, <1>2 DEF Unlace

\* The sizes that are written of frames: all but the last, or the only one.
SizesWritten(w, frames) ==
  /\ w \in Seq(IDs) /\ w # <<>> /\ Len(w) = (IF Len(frames) = 1 THEN 1 ELSE Len(frames) - 1)
  /\ \A i \in 1 .. Len(w) : w[i] = Len(frames[i])

LEMMA WrittenIs ==
  ASSUME NEW b \in Block, b.lacing = LacingEBML, b.data # <<>>
  PROVE  \E w : SizesWritten(w, b.data) /\ LaceSizes(b) = EbmlSizesFor(w)
<1>1. PICK k \in Nat \ {0} : k = Len(b.data)
  <2>1. b.data \in Seq(Seq(Octet))
    BY DataIs
  <2> QED BY <2>1, NotEmpty
<1>2. PICK q \in Nat : /\ q + 1 = (IF k = 1 THEN 1 ELSE k - 1) /\ 1 .. q = 1 .. k - 2 /\ q + 1 <= k
  <2>1. CASE k = 1
    <3>1. 0 + 1 = 1 /\ 1 .. 0 = 1 .. k - 2 /\ 0 \in Nat
      BY <2>1
    <3> QED BY <2>1, <3>1
  <2>2. CASE k # 1
    <3>1. (k - 2) + 1 = k - 1 /\ k - 2 \in Nat /\ (k - 2) + 1 <= k
      BY <2>2
    <3> QED BY <2>2, <3>1
  <2> QED BY <2>1, <2>2
<1>3. \A i \in 1 .. q + 1 : Len(b.data[i]) \in IDs
  <2>1. \A i \in 1 .. q + 1 : i \in 1 .. Len(b.data)
    BY <1>1, <1>2
  <2> QED BY <2>1, DataIs
<1>4. PICK w : w = [i \in 1 .. q + 1 |-> Len(b.data[i])]
  OBVIOUS
<1>5. w \in [1 .. q + 1 -> IDs]
  BY <1>3, <1>4
<1>6. w \in Seq(IDs) /\ Len(w) = q + 1 /\ w # <<>>
  <2>1. w \in Seq(IDs) /\ Len(w) = q + 1
    BY <1>5
  <2>2. Len(w) # 0 /\ Len(<<>>) = 0
    BY <2>1
  <2> QED BY <2>1, <2>2
<1>7. SizesWritten(w, b.data)
  BY <1>1, <1>2, <1>4, <1>6 DEF SizesWritten
<1>8. w[1] = Len(b.data[1])
  BY <1>4
<1>9. \A i \in 1 .. q : w[i] = Len(b.data[i]) /\ w[i + 1] = Len(b.data[i + 1])
  <2>1. \A i \in 1 .. q : i \in 1 .. q + 1 /\ i + 1 \in 1 .. q + 1
    OBVIOUS
  <2> QED BY <1>4, <2>1
<1>10. [i \in 1 .. k - 2 |-> encodeVInt(Len(b.data[i + 1]) - Len(b.data[i]))] = Differences(w)
  <2>1. Differences(w) = [i \in 1 .. q |-> encodeVInt(w[i + 1] - w[i])]
    <3>1. Len(w) - 1 = q
      BY <1>6
    <3> QED BY <3>1 DEF Differences
  <2> QED BY <1>2, <1>9, <2>1
<1>11. LaceSizes(b) = encodeElementID(Len(b.data[1])) \o
         FlattenSeq([i \in 1 .. k - 2 |-> encodeVInt(Len(b.data[i + 1]) - Len(b.data[i]))])
  <2>1. b.lacing # LacingXiph
    BY DEF LacingXiph, LacingEBML
  <2> QED BY <1>1, <2>1 DEF LaceSizes
<1> QED BY <1>7, <1>8, <1>10, <1>11 DEF EbmlSizesFor

LEMMA GotNothing ==
  ASSUME NEW v \in SomeSizes, NEW e \in Nat, NEW r, r = Got(v, e) PROVE [r EXCEPT !.v = <<>>] = Got(<<>>, e)
<1>1. r \in Reads(SomeSizes) /\ r.n = e /\ r.ok = TRUE
  BY GotIs DEF Got
<1>2. r = [ok |-> r.ok, v |-> r.v, n |-> r.n]
  BY <1>1 DEF Reads
<1>3. [r EXCEPT !.v = <<>>] = [ok |-> r.ok, v |-> <<>>, n |-> r.n]
  BY <1>2
<1> QED BY <1>1, <1>3 DEF Got

\* Frames of which those between the first and the last are not empty.
NoGaps(frames) == \A i \in 2 .. Len(frames) - 1 : Len(frames[i]) > 0

\* The sizes of frames, all but the last, are read of s in its first n octets; reading ends with all of w, in n octets.
SizesAre(s, frames, n) == \E sizes : SizesBut(sizes, frames) /\ EbmlSizes(s, Len(frames) - 1) = Got(sizes, n)
AllRead(read, w, n) == read[Len(w) - 1] = Got(w, n)

LEMMA AllAreRead ==
  ASSUME NEW w \in Seq(IDs), w # <<>>, \A i \in 2 .. Len(w) : w[i] > 0,
         NEW s \in Seq(Octet), NEW e \in Nat, NEW p, EbmlChunks(s, e, p, w),
         NEW k \in Nat, Len(w) - 1 <= k, NEW read, SizesInTurn(read, s, k)
  PROVE  AllRead(read, w, e + p[Len(w) - 1])
<1>1. read[Len(w) - 1] = Got(w, e + p[Len(w) - 1])
  BY SizesRead
<1> QED BY <1>1 DEF AllRead

LEMMA SizesFound ==
  ASSUME NEW frames \in Seq(Seq(Octet)), frames # <<>>, NoGaps(frames), NEW w, SizesWritten(w, frames), NEW s \in Seq(Octet),
         NEW e \in Nat, NEW p, EbmlChunks(s, e, p, w), NEW n \in Nat, e + p[Len(w) - 1] = n
  PROVE  SizesAre(s, frames, n)
<1>1. PICK k \in Nat \ {0}, m \in Nat : k = Len(frames) /\ m = k - 1
  <2>1. PICK k \in Nat : k = Len(frames) /\ k # 0
    BY NotEmpty
  <2>2. k - 1 \in Nat
    BY <2>1
  <2> QED BY <2>1, <2>2
<1>2. /\ w \in Seq(IDs) /\ w # <<>> /\ Len(w) = (IF k = 1 THEN 1 ELSE k - 1)
      /\ \A i \in 1 .. Len(w) : w[i] = Len(frames[i])
  BY <1>1 DEF SizesWritten
<1>3. PICK read : SizesInTurn(read, s, m) /\ EbmlSizes(s, m) = IF m = 0 THEN [read[0] EXCEPT !.v = <<>>] ELSE read[m - 1]
  BY ReadingExists
<1>4. \A i \in 2 .. Len(w) : w[i] > 0
  <2>1. \A i \in 2 .. Len(w) : i \in 1 .. Len(w) /\ i \in 2 .. k - 1
    BY <1>1, <1>2
  <2> QED BY <1>1, <1>2, <2>1 DEF NoGaps
<1>5. Len(w) - 1 <= m
  BY <1>1, <1>2
<1>6. read[Len(w) - 1] = Got(w, n)
  <2>1. w \in Seq(IDs) /\ w # <<>>
    BY <1>2
  <2>2. SizesInTurn(read, s, m) /\ m \in Nat
    BY <1>1, <1>3
  <2>3. AllRead(read, w, e + p[Len(w) - 1])
    BY <1>4, <1>5, <2>1, <2>2, AllAreRead
  <2> QED BY <2>3 DEF AllRead
<1>7. w \in Seq(Int) /\ w \in SomeSizes
  <2>1. IDs \subseteq Int
    BY Halves DEF IDs
  <2>2. w \in Seq(Int)
    BY <1>2, <2>1, SequenceOfMore
  <2> QED BY <1>2, <2>2 DEF SomeSizes
<1>8. CASE k = 1
  <2>1. Len(w) - 1 = 0 /\ m = 0
    BY <1>1, <1>2, <1>8
  <2>2. EbmlSizes(s, m) = [Got(w, n) EXCEPT !.v = <<>>]
    BY <1>3, <1>6, <2>1
  <2>3. EbmlSizes(s, m) = Got(<<>>, n)
    BY <1>7, <2>2, GotNothing
  <2>4. <<>> \in Seq(Int) /\ Len(<<>>) = 0
    OBVIOUS
  <2>5. SizesBut(<<>>, frames)
    <3>1. \A i \in 1 .. 0 : FALSE
      OBVIOUS
    <3> QED BY <1>1, <1>8, <2>4, <3>1 DEF SizesBut
  <2> QED BY <1>1, <2>3, <2>5 DEF SizesAre
<1>9. CASE k # 1
  <2>1. Len(w) - 1 = m - 1 /\ m # 0 /\ Len(w) = m
    BY <1>1, <1>2, <1>9
  <2>2. EbmlSizes(s, m) = Got(w, n)
    BY <1>3, <1>6, <2>1
  <2>3. SizesBut(w, frames)
    BY <1>1, <1>2, <1>7, <2>1 DEF SizesBut
  <2> QED BY <1>1, <2>2, <2>3 DEF SizesAre
<1> QED BY <1>8, <1>9

LEMMA EbmlSizesReadBack ==
  ASSUME NEW frames \in Seq(Seq(Octet)), frames # <<>>, NoGaps(frames), NEW w, SizesWritten(w, frames),
         NEW S \in Seq(Octet), S = EbmlSizesFor(w), NEW F \in Seq(Octet), NEW s \in Seq(Octet), s = S \o F
  PROVE  SizesAre(s, frames, Len(S))
<1>1. w \in Seq(IDs) /\ w # <<>> /\ Len(w) \in Nat \ {0}
  BY DifferencesAre DEF SizesWritten
<1>2. PICK e \in Nat : e = Len(encodeElementID(w[1]))
  <2>1. w[1] \in IDs
    <3>1. 1 \in 1 .. Len(w)
      BY <1>1
    <3> QED BY <1>1, <3>1, ElementType
  <2> QED BY <2>1, IDType
<1>3. PICK p : EbmlChunks(s, e, p, w) /\ e + p[Len(w) - 1] = Len(S)
  BY <1>1, <1>2, EbmlChunksAre
<1>4. Len(S) \in Nat
  OBVIOUS
<1> QED BY <1>3, <1>4, SizesFound, Zenon

LEMMA EbmlIsReadBack ==
  ASSUME NEW b \in Block, b.lacing = LacingEBML, b.data # <<>>, ~LacerFails(b)
  PROVE  /\ Lace(b) \in Seq(Octet)
         /\ ReadsBack(Unlace(b.lacing, Lace(b), Len(Lace(b))), b.data) <=> Len(b.data[Len(b.data)]) > 0 /\ NoGaps(b.data)
<1>1. PICK frames \in Seq(Seq(Octet)), F \in Seq(Octet) : frames = b.data /\ F = FlattenSeq(frames) /\ frames # <<>>
  BY DataIs
<1>2. PICK k \in Nat \ {0}, m \in Nat : k = Len(frames) /\ m = k - 1 /\ k = m + 1
  <2>1. PICK k \in Nat : k = Len(frames) /\ k # 0
    BY <1>1, NotEmpty
  <2>2. k - 1 \in Nat /\ k = (k - 1) + 1
    BY <2>1
  <2> QED BY <2>1, <2>2
<1>3. PICK w : SizesWritten(w, frames) /\ LaceSizes(b) = EbmlSizesFor(w)
  BY <1>1, WrittenIs
<1>4. PICK S \in Seq(Octet) : S = EbmlSizesFor(w)
  <2>1. w \in Seq(IDs) /\ w # <<>>
    BY <1>3 DEF SizesWritten
  <2>2. EbmlSizesFor(w) \in Seq(Octet)
    BY <1>1, <2>1, EbmlChunksAre
  <2> QED BY <2>2
<1>5. PICK L : L = Lace(b) /\ Laced(b, S, k, L)
  <2>1. b.lacing # LacingNo
    BY DEF LacingEBML, LacingNo
  <2>2. Laced(b, S, Len(b.data), Lace(b))
    BY <1>3, <1>4, <2>1, LacedIs
  <2> QED BY <1>1, <1>2, <2>2
<1>6. PICK rest \in Seq(Octet) : rest = S \o F /\ rest = Tail(L)
  BY <1>1, <1>5 DEF Laced
<1>7. L \in Seq(Octet) /\ L # <<>> /\ Len(L) - 1 = Len(S) + Len(F) /\ L[1] = m
  BY <1>1, <1>2, <1>5 DEF Laced
<1>8. PICK r : r = EbmlSizes(rest, m)
  OBVIOUS
<1>9. Unlace(b.lacing, L, Len(L)) = CutWithLast(rest, Len(S) + Len(F), r)
  BY <1>6, <1>7, <1>8, UnlaceEbml
<1>10. frames \in Seq(Seq(Octet)) /\ F \in Seq(Octet) /\ S \in Seq(Octet) /\ F = FlattenSeq(frames) /\ frames # <<>>
  BY <1>1, <1>4
<1>11. ASSUME NoGaps(frames), Len(frames[k]) > 0
       PROVE  ReadsBack(CutWithLast(rest, Len(S) + Len(F), r), frames)
  <2>1. SizesAre(rest, frames, Len(S))
    BY <1>3, <1>4, <1>6, <1>10, <1>11, EbmlSizesReadBack, Zenon
  <2>2. PICK sizes : SizesBut(sizes, frames) /\ EbmlSizes(rest, Len(frames) - 1) = Got(sizes, Len(S))
    BY <2>1 DEF SizesAre
  <2>3. Len(frames[Len(frames)]) > 0
    BY <1>2, <1>11
  <2>4. LastRead(frames, sizes, S, F)
    BY <1>10, <2>2, <2>3, LastCut
  <2>5. r = Got(sizes, Len(S))
    BY <1>2, <1>8, <2>2
  <2>6. CutWithLast(rest, Len(S) + Len(F), r) = Got(frames, Len(F))
    BY <1>6, <2>4, <2>5 DEF LastRead
  <2> QED BY <2>6 DEF ReadsBack, Got
<1>12. ASSUME ReadsBack(CutWithLast(rest, Len(S) + Len(F), r), frames)
       PROVE  Len(frames[k]) > 0 /\ NoGaps(frames)
  <2>1. r.ok => r.v \in Seq(Nat) /\ r.n \in Nat /\ (m > 0 => \A i \in 2 .. Len(r.v) : r.v[i] > 0)
    BY <1>8, EbmlSizesType
  <2>2. ReadsBack(CutWithLast(S \o F, Len(S) + Len(F), r), frames)
    BY <1>6, <1>12
  <2>3. r.ok /\ Len(frames[Len(frames)]) > 0 /\ SizesBut(r.v, frames)
    BY <1>10, <2>1, <2>2, LastCutGives
  <2>4. PICK v \in Seq(Nat) : v = r.v /\ Len(v) = m /\ \A i \in 1 .. m : v[i] = Len(frames[i])
    <3>1. r.v \in Seq(Nat) /\ Len(r.v) \in Nat
      BY <2>1, <2>3
    <3>2. Len(r.v) = m
      BY <1>2, <2>3, <3>1 DEF SizesBut
    <3> QED BY <2>3, <3>1, <3>2 DEF SizesBut
  <2>5. ASSUME NEW i \in 2 .. m PROVE Len(frames[i]) > 0
    <3>1. i \in 1 .. m /\ m > 0
      OBVIOUS
    <3>2. v[i] > 0
      BY <2>1, <2>3, <2>4, <3>1
    <3> QED BY <2>4, <3>1, <3>2
  <2> QED BY <1>2, <2>3, <2>5 DEF NoGaps
<1> QED BY <1>1, <1>2, <1>5, <1>7, <1>9, <1>11, <1>12

LEMMA LacedBlockIsReadBack ==
  ASSUME NEW b \in Block, ~LacerFails(b) PROVE BlockReadsBack(b) <=> LacingSurvives(b)
<1>1. b.data \in Seq(Seq(Octet)) /\ Len(b.data) \in Nat
  BY DataIs
<1>2. CASE b.data = <<>>
  <2>1. Lace(b) = <<>> /\ ~ReadsBack(Unlace(b.lacing, <<>>, 0), b.data)
    BY <1>2, NoData
  <2>2. <<>> \in Seq(Octet) /\ Len(<<>>) = 0
    OBVIOUS
  <2>3. BlockReadsBack(b) <=> ReadsBack(Unlace(b.lacing, <<>>, Len(<<>>)), b.data)
    BY <2>1, <2>2, BlockIsReadBack
  <2>4. Len(b.data) = 0 /\ ~(Len(b.data) > 0)
    BY <1>2
  <2> QED BY <2>1, <2>2, <2>3, <2>4 DEF LacingSurvives
<1>3. CASE b.data # <<>>
  <2>1. ASSUME Lace(b) \in Seq(Octet)
        PROVE  BlockReadsBack(b) <=> ReadsBack(Unlace(b.lacing, Lace(b), Len(Lace(b))), b.data)
    BY <2>1, BlockIsReadBack
  <2>2. Len(b.data) > 0
    <3>1. Len(b.data) \in Nat /\ Len(b.data) # 0
      BY <1>1, <1>3, NotEmpty
    <3> QED BY <3>1
  <2>3. CASE b.lacing = LacingNo
    <3>1. LacingSurvives(b)
      BY <2>2, <2>3 DEF LacingSurvives, LacingNo, LacingXiph, LacingEBML
    <3> QED BY <1>3, <2>1, <2>3, <3>1, UnlacedIsReadBack
  <2>4. CASE b.lacing = LacingFixed
    <3>1. LacingSurvives(b)
      BY <2>2, <2>4 DEF LacingSurvives, LacingFixed, LacingXiph, LacingEBML
    <3> QED BY <1>3, <2>1, <2>4, <3>1, FixedIsReadBack
  <2>5. CASE b.lacing = LacingXiph
    <3>1. b.lacing # LacingEBML
      BY <2>5 DEF LacingXiph, LacingEBML
    <3>2. LacingSurvives(b) <=> Len(b.data[Len(b.data)]) > 0 /\ \A i \in 1 .. Len(b.data) - 1 : Plain(Len(b.data[i]))
      BY <2>2, <2>5, <3>1, Zenon DEF LacingSurvives, Plain
    <3> QED BY <1>3, <2>1, <2>5, <3>2, XiphIsReadBack
  <2>6. CASE b.lacing = LacingEBML
    <3>1. b.lacing # LacingXiph
      BY <2>6 DEF LacingXiph, LacingEBML
    <3>2. LacingSurvives(b) <=> Len(b.data[Len(b.data)]) > 0 /\ NoGaps(b.data)
      BY <2>2, <2>6, <3>1, Zenon DEF LacingSurvives, NoGaps
    <3> QED BY <1>3, <2>1, <2>6, <3>2, EbmlIsReadBack
  <2>7. b.lacing \in LacingNo .. LacingEBML
    BY DEF Block
  <2> QED BY <2>3, <2>4, <2>5, <2>6, <2>7 DEF LacingNo, LacingXiph, LacingFixed, LacingEBML
<1> QED BY <1>2, <1>3

----------------------------------------------------------------------------
(* The theorem about values and blocks *)

\* What is written is read back (value.go, block.go, lacer.go, unlacer.go): each
\* number there is room for, as a size, an ID and a value of whatever octets were
\* asked for, but for readInt of one that fills its octets; and each block that
\* can be laced, of any number of frames of any octets, exactly if its lacing
\* lets the unlacer find where its frames end.
THEOREM ValuesAndBlocksReadBack ==
  /\ \A v \in IDs, n \in 0 .. OctetBits : NumberReadsBack(v, n)
  /\ \A b \in Block : ~LacerFails(b) => (BlockReadsBack(b) <=> LacingSurvives(b))
BY NumberIsReadBack, LacedBlockIsReadBack

\* The same of the numbers and blocks that TLC looks at, in every state.
THEOREM CodecsReadBack == Spec => []CodecsRoundTrip
<1>1. CodecsRoundTrip
  BY ContainerAssumption, ValuesAndBlocksReadBack DEF CodecsRoundTrip
<1> QED BY <1>1, PTL
=============
