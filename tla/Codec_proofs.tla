------------------------------ MODULE Codec_proofs ------------------------------
(***************************************************************************)
(* The loops that turn strings into coefficients and back, for strings of  *)
(* every length.  The compressed format of signatures: comp_encode() and   *)
(* comp_decode() are inverse of each other.  Hash-to-point: its three      *)
(* versions agree, the one with a compaction in passes included.           *)
(***************************************************************************)
EXTENDS CodecCheck, Induction

-----------------------------------------------------------------------------
(* The loops are one scheme: entry k of a recursive function from entry k - 1. *)

\* One iteration of the loop loop[1] on x; k counts from 1.
LoopStep(loop, x, k) ==
    CASE loop[1] = "append"  -> CompAppend(x, loop[2][k], loop[3])
      [] loop[1] = "next"    -> CompNext(x, loop[2])
      [] loop[1] = "bits"    -> x + BB + 1 + (Abs(loop[2][k]) \div 2 ^ LowBits)
      [] loop[1] = "kept"    -> KeepLow(x, loop[2][k])
      [] loop[1] = "vartime" -> KeepSample(x, loop[3], loop[2][k])
      [] loop[1] = "block"   -> HashIteration(x, loop[3], loop[2])
      [] loop[1] = "pass"    -> SqueezeStep(x, k - 1, loop[2])
      [] OTHER               -> SqueezePass(x, loop[2], 2 ^ (k - 1))

\* h[k] is the value after k iterations.
Iterates(h, loop, d, len) == h = [k \in 0..len |-> IF k = 0 THEN d ELSE LoopStep(loop, h[k - 1], k)]

\* The values after 0, 1, ..., len iterations exist.
LEMMA LoopExists ==
  ASSUME NEW loop, NEW d, NEW len \in Nat
  PROVE  \E h : Iterates(h, loop, d, len)
<1> DEFINE E(h, n) == h = [k \in 0..n |-> IF k = 0 THEN d ELSE LoopStep(loop, h[k - 1], k)]
           S == {n \in Nat : \E h : E(h, n)}
<1>1. 0 \in S
  <2> DEFINE h == [k \in 0..0 |-> d]
  <2>1. E(h, 0)
    OBVIOUS
  <2> QED
    BY <2>1, Zenon
<1>2. ASSUME NEW n \in Nat, n \in S PROVE n + 1 \in S
  <2>1. PICK h : E(h, n)
    BY <1>2
  <2> DEFINE e == [k \in 0..(n + 1) |-> IF k = n + 1 THEN LoopStep(loop, h[n], n + 1) ELSE h[k]]
  <2>2. ASSUME NEW k \in 0..(n + 1)
        PROVE  e[k] = IF k = 0 THEN d ELSE LoopStep(loop, e[k - 1], k)
    <3>1. CASE k = n + 1
      <4>1. k # 0 /\ k - 1 = n /\ n \in 0..(n + 1) /\ n # n + 1
        BY <3>1
      <4>2. e[k] = LoopStep(loop, h[n], k) /\ e[n] = h[n]
        BY <3>1, <4>1, Zenon
      <4> QED
        BY <4>1, <4>2, Zenon
    <3>2. CASE k # n + 1
      <4>1. k \in 0..n
        BY <3>2
      <4>2. e[k] = h[k]
        BY <3>2, Zenon
      <4>3. h[k] = IF k = 0 THEN d ELSE LoopStep(loop, h[k - 1], k)
        BY <2>1, <4>1, Zenon
      <4>4. CASE k # 0
        <5>1. k - 1 \in 0..(n + 1) /\ k - 1 # n + 1
          BY <4>1, <4>4
        <5>2. e[k - 1] = h[k - 1]
          BY <5>1, Zenon
        <5> QED
          BY <4>2, <4>3, <4>4, <5>2, Zenon
      <4> QED
        BY <4>2, <4>3, <4>4, Zenon
    <3> QED
      BY <3>1, <3>2
  <2>3. e = [k \in 0..(n + 1) |-> e[k]]
    OBVIOUS
  <2> HIDE DEF e
  <2>4. E(e, n + 1)
    BY <2>2, <2>3, Zenon
  <2> HIDE DEF E
  <2> QED
    BY <2>4
<1>3. len \in S
  <2> HIDE DEF S
  <2> QED
    BY <1>1, <1>2, NatSetInduction
<1> QED
  BY <1>3 DEF Iterates

\* A recursive function over 0..len with the iterations of a loop.
Runs(h, loop, d, len) == h[0] = d /\ \A k \in 1..len : h[k] = LoopStep(loop, h[k - 1], k)

-----------------------------------------------------------------------------
(* The compressed format.                                                    *)

\* comp_encode() before the first coefficient and after the last one.
AppendStart == [ok |-> TRUE, d |-> <<>>, acc |-> 0, acc_len |-> 0]
Finish(t, dlen) ==
    IF ~t.ok \/ (t.acc_len > 0 /\ Len(t.d) >= dlen) THEN Bad
    ELSE LET d == IF t.acc_len > 0 THEN Append(t.d, t.acc % 2 ^ BB) ELSE t.d
         IN  [ok |-> TRUE, s |-> [j \in 1..dlen |-> IF j <= Len(d) THEN d[j] ELSE 0]]

\* comp_decode() before the first coefficient and after the last one.
NextStart == [ok |-> TRUE, s |-> <<>>, acc |-> 0, acc_len |-> 0, j |-> 0]
Result(t, d) ==
    IF t.ok /\ t.acc = 0 /\ \A j \in (t.j + 1)..Len(d) : d[j] = 0
    THEN [ok |-> TRUE, s |-> t.s] ELSE Bad

\* The loop of comp_encode(), and what it does after it.
LEMMA AppendLoop ==
  ASSUME NEW s, Len(s) \in Nat, NEW dlen
  PROVE  \E h : comp_encode(s, dlen) = Finish(h[Len(s)], dlen) /\ Runs(h, <<"append", s, dlen>>, AppendStart, Len(s))
<1> DEFINE loop == <<"append", s, dlen>>
           d == AppendStart
           step(x, k) == With(x, LAMBDA t : CompAppend(t, s[k], dlen))
           E(h) == h = [k \in 0..Len(s) |-> IF k = 0 THEN d ELSE step(h[k - 1], k)]
           f == CHOOSE h : E(h)
<1>1. ASSUME NEW x, NEW k PROVE LoopStep(loop, x, k) = step(x, k)
  BY DEF LoopStep, With
<1>2. comp_encode(s, dlen) = With(f[Len(s)], LAMBDA t : Finish(t, dlen))
  BY DEF comp_encode, Finish, AppendStart
<1> HIDE DEF loop, d, step
<1>3. \E h : Iterates(h, loop, d, Len(s))
  <2> HIDE DEF E, f
  <2> QED
    BY LoopExists
<1>4. PICK h : Iterates(h, loop, d, Len(s))
  BY <1>3
<1>5. E(h)
  BY <1>1, <1>4, Zenon DEF Iterates
<1>6. E(f)
  <2> HIDE DEF E
  <2> QED
    BY <1>5, Zenon
<1> HIDE DEF f
<1>7. f[0] = d
  <2>1. 0 \in 0..Len(s)
    OBVIOUS
  <2> QED
    BY <1>6, <2>1, Zenon
<1>8. ASSUME NEW k \in 1..Len(s) PROVE f[k] = LoopStep(loop, f[k - 1], k)
  <2>1. k \in 0..Len(s) /\ k # 0
    OBVIOUS
  <2> QED
    BY <1>1, <1>6, <2>1, Zenon
<1>9. Runs(f, loop, d, Len(s))
  BY <1>7, <1>8, Zenon DEF Runs
<1>10. With(f[Len(s)], LAMBDA t : Finish(t, dlen)) = Finish(f[Len(s)], dlen)
  BY DEF With
<1> QED
  BY <1>2, <1>9, <1>10, Zenon DEF loop, d

\* The loop of comp_decode(), and its last test.
LEMMA NextLoop ==
  ASSUME NEW n \in Nat, NEW str
  PROVE  \E h : comp_decode(n, str) = Result(h[n], str) /\ Runs(h, <<"next", str>>, NextStart, n)
<1> DEFINE loop == <<"next", str>>
           d == NextStart
           step(x, k) == With(x, LAMBDA t : CompNext(t, str))
           E(h) == h = [k \in 0..n |-> IF k = 0 THEN d ELSE step(h[k - 1], k)]
           f == CHOOSE h : E(h)
<1>1. ASSUME NEW x, NEW k PROVE LoopStep(loop, x, k) = step(x, k)
  BY DEF LoopStep, With
<1>2. comp_decode(n, str) = With(f[n], LAMBDA t : Result(t, str))
  BY DEF comp_decode, Result, NextStart
<1> HIDE DEF loop, d, step
<1>3. \E h : Iterates(h, loop, d, n)
  <2> HIDE DEF E, f
  <2> QED
    BY LoopExists
<1>4. PICK h : Iterates(h, loop, d, n)
  BY <1>3
<1>5. E(h)
  BY <1>1, <1>4, Zenon DEF Iterates
<1>6. E(f)
  <2> HIDE DEF E
  <2> QED
    BY <1>5, Zenon
<1> HIDE DEF f
<1>7. f[0] = d
  <2>1. 0 \in 0..n
    OBVIOUS
  <2> QED
    BY <1>6, <2>1, Zenon
<1>8. ASSUME NEW k \in 1..n PROVE f[k] = LoopStep(loop, f[k - 1], k)
  <2>1. k \in 0..n /\ k # 0
    OBVIOUS
  <2> QED
    BY <1>1, <1>6, <2>1, Zenon
<1>9. Runs(f, loop, d, n)
  BY <1>7, <1>8, Zenon DEF Runs
<1>10. With(f[n], LAMBDA t : Result(t, str)) = Result(f[n], str)
  BY DEF With
<1> QED
  BY <1>2, <1>9, <1>10, Zenon DEF loop, d

\* Quotient and remainder.
LEMMA DivMod ==
  ASSUME NEW a \in Nat, NEW d \in Nat \ {0}
  PROVE  a \div d \in Nat /\ a % d \in Nat /\ a % d < d /\ a = d * (a \div d) + (a % d)
  OBVIOUS

\* Quotient and remainder are what they have to be.
LEMMA DivIs ==
  ASSUME NEW a \in Nat, NEW d \in Nat \ {0}, NEW y \in Nat, NEW r \in Nat, r < d, a = d * y + r
  PROVE  a \div d = y /\ a % d = r
<1> DEFINE k == a \div d
           m == a % d
<1>1. k \in Nat /\ m \in Nat /\ m < d /\ a = d * k + m
  OBVIOUS
<1> HIDE DEF k, m
<1>2. ~(k >= y + 1)
  <2> SUFFICES ASSUME k >= y + 1 PROVE FALSE
    OBVIOUS
  <2>1. d * k >= d * (y + 1)
    BY <1>1
  <2>2. d * (y + 1) = d * y + d
    OBVIOUS
  <2>3. d * k \in Nat /\ d * y \in Nat
    BY <1>1
  <2> QED
    BY <1>1, <2>1, <2>2, <2>3
<1>3. ~(y >= k + 1)
  <2> SUFFICES ASSUME y >= k + 1 PROVE FALSE
    OBVIOUS
  <2>1. d * y >= d * (k + 1)
    BY <1>1
  <2>2. d * (k + 1) = d * k + d
    BY <1>1
  <2>3. d * k \in Nat /\ d * y \in Nat
    BY <1>1
  <2> QED
    BY <1>1, <2>1, <2>2, <2>3
<1>4. k = y
  BY <1>1, <1>2, <1>3
<1>5. m = r
  <2>1. d * k \in Nat /\ d * k = d * y
    BY <1>1, <1>4
  <2> QED
    BY <1>1, <2>1
<1> QED
  BY <1>4, <1>5 DEF k, m

\* A number has one lowest bit set.
LEMMA LowestBitBelow ==
  ASSUME NEW z \in 0..16, NEW y \in 0..16, z < y, NEW g \in Nat, NEW h \in Nat
  PROVE  2 ^ z + 2 ^ (z + 1) * g # 2 ^ y + 2 ^ (y + 1) * h
<1> DEFINE p == 2 ^ z
           m == 2 ^ (y - z - 1)
<1>1. p \in Nat \ {0}
  <2>1. z \in 0..24
    OBVIOUS
  <2> QED
    BY <2>1, PowerNat, Zenon
<1>2. m \in Nat
  <2>1. y - z - 1 \in 0..24
    OBVIOUS
  <2> QED
    BY <2>1, PowerNat, Zenon
<1>3. 2 ^ (z + 1) = 2 * p /\ 2 ^ (y + 1) = 2 * 2 ^ y
  <2>1. z \in 0..23 /\ y \in 0..23
    OBVIOUS
  <2> QED
    BY <2>1, Doubles
<1>4. 2 ^ y = 2 ^ (z + 1) * m
  <2> DEFINE a == z + 1
             b == y - z - 1
  <2>1. a \in 0..24 /\ b \in 0..24 /\ a + b <= 24 /\ a + b = y
    OBVIOUS
  <2> HIDE DEF a, b
  <2>2. 2 ^ y = 2 ^ a * 2 ^ b
    BY <2>1, PowerSum
  <2> QED
    BY <2>2 DEF a, b
<1> DEFINE Y == 2 ^ y
           Z1 == 2 ^ (z + 1)
           Y1 == 2 ^ (y + 1)
<1> SUFFICES ASSUME p + Z1 * g = Y + Y1 * h PROVE FALSE
  OBVIOUS
<1>5. Z1 = 2 * p /\ Y1 = 2 * Y /\ Y = Z1 * m
  BY <1>3, <1>4
<1> HIDE DEF p, m, Y, Z1, Y1
<1>6. Y = p * (2 * m) /\ Y \in Nat
  BY <1>1, <1>2, <1>5
<1>7. Z1 * g = p * (2 * g) /\ Y1 * h = (2 * Y) * h
  BY <1>1, <1>5
<1>8. (2 * Y) * h = Y * (2 * h)
  BY <1>6
<1>9. Y * (2 * h) = p * ((2 * m) * (2 * h))
  <2> DEFINE u == 2 * m
             w == 2 * h
  <2>1. u \in Nat /\ w \in Nat /\ Y = p * u
    BY <1>2, <1>6
  <2> HIDE DEF u, w
  <2>2. Y * w = p * (u * w)
    BY <1>1, <2>1
  <2> QED
    BY <2>2 DEF u, w
<1> DEFINE n == m * h
<1>10. (2 * m) * (2 * h) = 4 * n /\ n \in Nat
  BY <1>2
<1> HIDE DEF n
<1>11. p + p * (2 * g) = p * (2 * m) + p * (4 * n)
  BY <1>6, <1>7, <1>8, <1>9, <1>10
<1>12. p * (1 + 2 * g) = p * (2 * m + 4 * n)
  BY <1>1, <1>2, <1>10, <1>11
<1>13. 1 + 2 * g = 2 * m + 4 * n
  <2> DEFINE u == 1 + 2 * g
             w == 2 * m + 4 * n
  <2>1. u \in Nat /\ w \in Nat /\ p * u = p * w
    BY <1>2, <1>10, <1>12
  <2> HIDE DEF u, w
  <2>2. u = w
    <3>1. CASE u < w
      <4>1. p * u + p <= p * w
        BY <1>1, <2>1, <3>1
      <4> QED
        BY <1>1, <2>1, <4>1
    <3>2. CASE w < u
      <4>1. p * w + p <= p * u
        BY <1>1, <2>1, <3>2
      <4> QED
        BY <1>1, <2>1, <4>1
    <3> QED
      BY <2>1, <3>1, <3>2
  <2> QED
    BY <2>2 DEF u, w
<1> QED
  BY <1>2, <1>10, <1>13

\* ctz32_nonzero() is the position of the lowest bit set.
LEMMA CtzIs ==
  ASSUME NEW z \in 0..(2 * BB), NEW g \in Nat, NEW x, x = 2 ^ z + 2 ^ (z + 1) * g
  PROVE  ctz32_nonzero(x) = z
<1>1. z \in 0..16 /\ 2 * BB <= 16 /\ BB \in Nat
  BY CompAssumption
<1>2. ASSUME NEW y \in 0..(2 * BB)
      PROVE  2 ^ y \in Nat \ {0} /\ 2 ^ (y + 1) = 2 * 2 ^ y
  <2>1. y \in 0..24 /\ y \in 0..23
    BY <1>1
  <2> QED
    BY <2>1, Doubles, PowerNat
<1> DEFINE p == 2 ^ z
           pp == 2 ^ (z + 1)
<1>3. p \in Nat \ {0} /\ pp = 2 * p
  BY <1>2
<1>4. x = pp * g + p /\ x \in Nat /\ p < pp /\ pp \in Nat \ {0}
  <2>1. x = p + pp * g
    OBVIOUS
  <2> HIDE DEF p, pp
  <2>2. pp * g \in Nat
    BY <1>3
  <2> QED
    BY <1>3, <2>1, <2>2
<1>5. x % pp = p
  <2> HIDE DEF p, pp
  <2> QED
    BY <1>3, <1>4, DivIs
<1>6. ASSUME NEW y \in 0..(2 * BB), x % 2 ^ (y + 1) = 2 ^ y PROVE y = z
  <2> DEFINE u == 2 ^ y
             uu == 2 ^ (y + 1)
             h == x \div uu
  <2>1. u \in Nat \ {0} /\ uu = 2 * u /\ x % uu = u
    BY <1>2, <1>6
  <2>2. h \in Nat /\ x = u + uu * h
    <3> HIDE DEF u, uu
    <3> QED
      BY <1>4, <2>1
  <2>3. y \in 0..16
    BY <1>1
  <2>4. 2 ^ z + 2 ^ (z + 1) * g = 2 ^ y + 2 ^ (y + 1) * h
    BY <2>2
  <2> HIDE DEF h
  <2>5. ~(z < y)
    BY <1>1, <2>2, <2>3, <2>4, LowestBitBelow
  <2>6. ~(y < z)
    BY <1>1, <2>2, <2>3, <2>4, LowestBitBelow
  <2> QED
    BY <1>1, <2>3, <2>5, <2>6
<1> DEFINE Q(y) == x % 2 ^ (y + 1) = 2 ^ y
<1>7. ctz32_nonzero(x) = CHOOSE y \in 0..(2 * BB) : Q(y)
  BY DEF ctz32_nonzero
<1>8. Q(z) /\ \A y \in 0..(2 * BB) : Q(y) => y = z
  BY <1>5, <1>6
<1> HIDE DEF Q
<1> QED
  BY <1>7, <1>8

\* A number that is not 0 has a lowest bit set.
LEMMA LowestBit ==
  ASSUME NEW k \in 1..16, NEW x \in Nat \ {0}, x < 2 ^ k
  PROVE  \E z \in 0..(k - 1) : \E g \in Nat : x = 2 ^ z + 2 ^ (z + 1) * g
<1> DEFINE T == {i \in 1..k : x % 2 ^ i # 0}
<1>1. ASSUME NEW i \in 0..16 PROVE 2 ^ i \in Nat \ {0} /\ 2 ^ (i + 1) = 2 * 2 ^ i
  <2>1. i \in 0..24 /\ i \in 0..23
    OBVIOUS
  <2> QED
    BY <2>1, Doubles, PowerNat
<1>2. k \in T
  <2> DEFINE p == 2 ^ k
  <2>1. p \in Nat \ {0} /\ x < p
    BY <1>1
  <2> HIDE DEF p
  <2>2. x % p = x
    BY <2>1
  <2> QED
    BY <2>2 DEF p
<1>3. PICK i \in T : \A y \in T : i <= y
  <2>1. T \subseteq Nat
    OBVIOUS
  <2> HIDE DEF T
  <2> QED
    BY <1>2, <2>1, LeastNumber
<1> DEFINE z == i - 1
<1>4. i \in 1..k /\ x % 2 ^ i # 0 /\ z \in 0..(k - 1) /\ z \in 0..16 /\ z + 1 = i /\ z \notin T
  BY <1>3
<1> HIDE DEF z
<1> DEFINE p == 2 ^ z
           u == x \div p
<1>5. p \in Nat \ {0} /\ 2 ^ (z + 1) = 2 * p
  BY <1>1, <1>4
<1>6. x % p = 0
  <2>1. CASE z = 0
    <3>1. p = 1
      BY <2>1, Powers
    <3> HIDE DEF p
    <3> QED
      BY <3>1
  <2>2. CASE z # 0
    <3>1. z \in 1..k
      BY <1>4, <2>2
    <3> QED
      BY <1>4, <3>1
  <2> QED
    BY <2>1, <2>2
<1>7. u \in Nat /\ x = p * u
  <2> HIDE DEF p
  <2> QED
    BY <1>5, <1>6
<1>8. u % 2 # 0
  <2> SUFFICES ASSUME u % 2 = 0 PROVE FALSE
    OBVIOUS
  <2> DEFINE v == u \div 2
             pp == 2 ^ (z + 1)
  <2>1. v \in Nat /\ u = 2 * v
    <3> HIDE DEF u
    <3> QED
      BY <1>7
  <2>2. pp = 2 * p /\ x % pp # 0
    BY <1>4, <1>5
  <2> HIDE DEF p, u, v, pp
  <2>3. x = pp * v + 0 /\ pp \in Nat \ {0} /\ 0 < pp
    BY <1>5, <1>7, <2>1, <2>2
  <2>4. x % pp = 0
    BY <2>1, <2>3, DivIs
  <2> QED
    BY <2>2, <2>4
<1> DEFINE g == u \div 2
<1>9. g \in Nat /\ u = 1 + 2 * g
  <2> HIDE DEF u
  <2> QED
    BY <1>7, <1>8
<1>10. x = p + (2 * p) * g
  <2> HIDE DEF p, g, u
  <2>1. x = p * (1 + 2 * g)
    BY <1>7, <1>9
  <2> QED
    BY <1>5, <1>9, <2>1
<1> QED
  BY <1>4, <1>5, <1>9, <1>10

\* Sizes of a byte and of the low part of a coefficient.
W == 2 ^ BB
H == 2 ^ LowBits

\* A coefficient as comp_encode() writes it: sign and low bits in a byte, then the
\* high part in unary.
Negative(x) == IF x < 0 THEN 1 ELSE 0
High(x) == Abs(x) \div H
LowPart(x) == Negative(x) + 2 * (Abs(x) % H)
Code(x) == LowPart(x) + W * 2 ^ High(x)
CodeLen(x) == BB + High(x) + 1

\* The sizes of a byte and of its parts.
LEMMA ByteSizes ==
  /\ BB \in Nat /\ BB >= 2 /\ BB <= 8 /\ W \in Nat \ {0} /\ H \in Nat \ {0} /\ W = 2 * H
  /\ B_INF \in Nat /\ B_INF < H * (BB - 1)
<1>1. BB \in 2..8 /\ LowBits = BB - 1 /\ LowBits \in 0..23 /\ LowBits \in 0..24 /\ LowBits + 1 = BB
  BY CompAssumption DEF LowBits
<1>2. H \in Nat \ {0}
  BY <1>1, PowerNat, Zenon DEF H
<1>3. 2 ^ (LowBits + 1) = 2 * 2 ^ LowBits
  BY <1>1, Doubles
<1>4. W = 2 * H
  BY <1>1, <1>3 DEF W, H
<1>5. B_INF \in 1..(H * (BB - 1) - 1)
  BY <1>1, CompAssumption, Zenon DEF H
<1>6. H * (BB - 1) \in Nat
  BY <1>1, <1>2
<1> QED
  BY <1>1, <1>2, <1>4, <1>5, <1>6

\* The parts of a coefficient within the bound.
LEMMA CodeParts ==
  ASSUME NEW x \in Int, Abs(x) <= B_INF
  PROVE  /\ Abs(x) \in Nat /\ High(x) \in 0..(BB - 2) /\ LowPart(x) \in 0..(W - 1)
         /\ LowPart(x) % 2 = Negative(x) /\ (LowPart(x) \div 2) % H = Abs(x) % H
         /\ Abs(x) = (Abs(x) % H) + High(x) * H /\ Negative(x) \in {0, 1}
<1> DEFINE a == Abs(x)
           h == a \div H
           l == a % H
           s == Negative(x)
           c == s + 2 * l
<1>1. a \in Nat /\ s \in {0, 1}
  BY DEF Abs, Negative
<1>2. a < H * (BB - 1) /\ H \in Nat \ {0} /\ BB \in Nat /\ BB >= 2 /\ W = 2 * H
  BY <1>1, ByteSizes
<1> HIDE DEF a, s
<1>3. h \in Nat /\ l \in Nat /\ l < H /\ a = H * h + l
  BY <1>1, <1>2
<1> HIDE DEF h, l
<1>4. ~(h >= BB - 1)
  <2> SUFFICES ASSUME h >= BB - 1 PROVE FALSE
    OBVIOUS
  <2>1. H * h >= H * (BB - 1)
    BY <1>2, <1>3
  <2>2. H * h \in Nat /\ H * (BB - 1) \in Nat
    BY <1>2, <1>3
  <2> QED
    BY <1>2, <1>3, <2>1, <2>2
<1>5. h \in 0..(BB - 2)
  BY <1>2, <1>3, <1>4
<1>6. c \in 0..(W - 1) /\ c % 2 = s /\ c \div 2 = l
  BY <1>1, <1>2, <1>3
<1>7. l % H = l
  BY <1>2, <1>3
<1>8. a = l + h * H
  BY <1>2, <1>3
<1> QED
  BY <1>1, <1>5, <1>6, <1>7, <1>8 DEF a, h, l, s, High, LowPart

-----------------------------------------------------------------------------
\* The state of comp_encode() between two coefficients.
Packing(st) ==
    /\ st \in [ok : BOOLEAN, d : Seq(0..(W - 1)), acc : Nat, acc_len : Nat]
    /\ st.ok /\ st.acc_len < BB /\ st.acc < 2 ^ st.acc_len

\* What Flush() gets after coefficient x.
Added(st, x) ==
    [ok |-> st.ok, d |-> st.d, acc |-> st.acc + Code(x) * 2 ^ st.acc_len,
     acc_len |-> st.acc_len + CodeLen(x)]

\* An append within the bound adds the code of the coefficient.
LEMMA AppendAdds ==
  ASSUME NEW st, Packing(st), NEW x \in Int, Abs(x) <= B_INF, NEW dlen
  PROVE  CompAppend(st, x, dlen) = Flush(Added(st, x), dlen)
<1> DEFINE w == Abs(x)
           sw == IF x < 0 THEN 1 ELSE 0
           wh == w \div 2 ^ LowBits
           p == 2 ^ st.acc_len
<1>1. /\ st = [ok |-> st.ok, d |-> st.d, acc |-> st.acc, acc_len |-> st.acc_len]
      /\ st.acc_len \in Nat /\ st.acc_len < BB /\ st.acc \in Nat /\ st.ok
  BY DEF Packing
<1>2. wh = High(x) /\ sw + 2 * (w % 2 ^ LowBits) = LowPart(x)
  BY DEF High, LowPart, Negative, H
<1>3. w \in Nat /\ ~(w > B_INF) /\ High(x) \in 0..(BB - 2) /\ LowPart(x) \in 0..(W - 1)
  BY CodeParts, ByteSizes
<1>4. CompAppend(st, x, dlen) =
        Flush([st EXCEPT !.acc = @ + (sw + 2 * (w % 2 ^ LowBits)) * 2 ^ st.acc_len + 2 ^ (st.acc_len + BB + wh),
                         !.acc_len = @ + BB + wh + 1], dlen)
  BY <1>1, <1>3 DEF CompAppend
<1>5. 2 ^ (st.acc_len + BB + High(x)) = (W * 2 ^ High(x)) * p /\ p \in Nat /\ 2 ^ High(x) \in Nat
  <2> DEFINE a == st.acc_len
             h == High(x)
  <2>1. /\ a \in 0..24 /\ BB \in 0..24 /\ h \in 0..24 /\ a + BB \in 0..24
        /\ a + BB <= 24 /\ (a + BB) + h <= 24
    <3>1. a \in Nat /\ a < BB /\ h \in 0..(BB - 2) /\ BB \in Nat /\ BB >= 2 /\ BB <= 8
      BY <1>1, <1>3, ByteSizes
    <3> HIDE DEF a, h
    <3> QED
      BY <3>1
  <2> HIDE DEF a, h
  <2>2. 2 ^ (a + BB) = 2 ^ a * 2 ^ BB
    BY <2>1, PowerSum, Zenon
  <2> DEFINE b == a + BB
  <2>3. b \in 0..24 /\ b + h <= 24
    BY <2>1
  <2>4. 2 ^ (b + h) = 2 ^ b * 2 ^ h
    <3> HIDE DEF b
    <3> QED
      BY <2>1, <2>3, PowerSum, Zenon
  <2>5. 2 ^ a \in Nat /\ 2 ^ BB \in Nat /\ 2 ^ h \in Nat
    <3>1. 2 ^ a \in Nat
      BY <2>1, PowerNat, Zenon
    <3>2. 2 ^ BB \in Nat
      BY <2>1, PowerNat, Zenon
    <3>3. 2 ^ h \in Nat
      BY <2>1, PowerNat, Zenon
    <3> QED
      BY <3>1, <3>2, <3>3
  <2>6. 2 ^ ((a + BB) + h) = (2 ^ a * W) * 2 ^ h
    BY <2>2, <2>4, Zenon DEF W
  <2> DEFINE A == 2 ^ a
             X == 2 ^ h
  <2>7. A \in Nat /\ X \in Nat /\ W \in Nat /\ 2 ^ ((a + BB) + h) = (A * W) * X
    BY <2>5, <2>6 DEF W
  <2>8. (A * W) * X = (W * X) * A
    <3> HIDE DEF A, X
    <3> QED
      BY <2>7
  <2> QED
    BY <2>5, <2>6, <2>8 DEF a, h
<1>6. st.acc + LowPart(x) * p + 2 ^ (st.acc_len + BB + High(x)) = st.acc + Code(x) * p
  <2> DEFINE l == LowPart(x)
             u == W * 2 ^ High(x)
  <2>1. u \in Nat
    BY <1>5, ByteSizes
  <2>2. l \in Nat
    BY <1>3, ByteSizes
  <2> HIDE DEF p, l, u
  <2>3. l * p + u * p = (l + u) * p
    BY <1>5, <2>1, <2>2
  <2>4. l * p \in Nat /\ u * p \in Nat
    BY <1>5, <2>1, <2>2
  <2>5. (st.acc + l * p) + u * p = st.acc + (l + u) * p
    BY <1>1, <2>3, <2>4
  <2> QED
    BY <1>5, <2>5 DEF l, u, p, Code
<1>7. st.acc_len + BB + High(x) + 1 = st.acc_len + CodeLen(x)
  BY <1>1, <1>3, ByteSizes DEF CodeLen
<1> DEFINE e == [st EXCEPT !.acc = st.acc + Code(x) * p, !.acc_len = st.acc_len + CodeLen(x)]
<1>8. CompAppend(st, x, dlen) = Flush(e, dlen)
  BY <1>2, <1>4, <1>6, <1>7
<1>9. e = Added(st, x)
  <2> DEFINE v == st.acc + Code(x) * p
             l == st.acc_len + CodeLen(x)
  <2>1. e = [st EXCEPT !.acc = v, !.acc_len = l]
    OBVIOUS
  <2>2. Added(st, x) = [ok |-> st.ok, d |-> st.d, acc |-> v, acc_len |-> l]
    BY DEF Added
  <2>3. st = [ok |-> st.ok, d |-> st.d, acc |-> st.acc, acc_len |-> st.acc_len]
    BY <1>1
  <2> HIDE DEF e, v, l
  <2> DEFINE f == [ok |-> st.ok, d |-> st.d, acc |-> v, acc_len |-> st.acc_len]
             g == [ok |-> st.ok, d |-> st.d, acc |-> v, acc_len |-> l]
  <2>4. [[ok |-> st.ok, d |-> st.d, acc |-> st.acc, acc_len |-> st.acc_len] EXCEPT !.acc = v] = f
    OBVIOUS
  <2>5. [f EXCEPT !.acc_len = l] = g
    OBVIOUS
  <2>6. [st EXCEPT !.acc = v] = f
    BY <2>3, <2>4, Zenon
  <2> HIDE DEF f
  <2>7. [st EXCEPT !.acc = v, !.acc_len = l] = [[st EXCEPT !.acc = v] EXCEPT !.acc_len = l]
    BY Zenon
  <2> QED
    BY <2>1, <2>2, <2>5, <2>6, <2>7, Zenon
<1> QED
  BY <1>8, <1>9, Zenon

\* The records of comp_encode().
Records == [ok : BOOLEAN, d : Seq(0..(W - 1)), acc : Nat, acc_len : Nat]

\* The least power of two.
LEMMA PowerZero == 2 ^ 0 = 1
  BY Powers

\* Powers of two with a byte's bits more.
LEMMA BytePowers ==
  /\ 2 ^ (BB * 0) = 1 /\ 2 ^ (BB * 1) = W /\ 2 ^ (BB * 2) = W * W
  /\ \A a \in 0..16 : 2 ^ (BB + a) = W * 2 ^ a /\ 2 ^ a \in Nat \ {0}
<1>1. BB \in 0..24 /\ BB + BB <= 24 /\ BB * 0 = 0 /\ BB * 1 = BB /\ BB * 2 = BB + BB /\ BB \in Nat
      /\ BB <= 8
  BY ByteSizes
<1>2. 2 ^ (BB + BB) = W * W
  BY <1>1, PowerSum, Zenon DEF W
<1>3. ASSUME NEW a \in 0..16 PROVE 2 ^ (BB + a) = W * 2 ^ a /\ 2 ^ a \in Nat \ {0}
  <2>1. a \in 0..24 /\ BB + a <= 24
    BY <1>1
  <2>2. 2 ^ (BB + a) = W * 2 ^ a
    BY <1>1, <2>1, PowerSum, Zenon DEF W
  <2>3. 2 ^ a \in Nat \ {0}
    BY <2>1, PowerNat, Zenon
  <2> QED
    BY <2>2, <2>3
<1>4. 2 ^ (BB * 0) = 1
  BY <1>1, PowerZero, Zenon
<1>5. 2 ^ (BB * 1) = W
  BY <1>1, Zenon DEF W
<1>6. 2 ^ (BB * 2) = W * W
  BY <1>1, <1>2, Zenon
<1> QED
  BY <1>3, <1>4, <1>5, <1>6, Zenon

\* What is refused stays so.
LEMMA Refused ==
  ASSUME NEW st \in Records, NEW x, NEW dlen
  PROVE  /\ [st EXCEPT !.ok = FALSE] \in Records /\ ~[st EXCEPT !.ok = FALSE].ok
         /\ ~st.ok \/ Abs(x) > B_INF => CompAppend(st, x, dlen) = [st EXCEPT !.ok = FALSE]
<1>1. [st EXCEPT !.ok = FALSE] \in Records /\ ~[st EXCEPT !.ok = FALSE].ok
  BY DEF Records
<1> QED
  BY <1>1 DEF CompAppend

\* One byte is complete.
LEMMA FlushOne ==
  ASSUME NEW st \in Records, NEW dlen \in Nat,
         NEW y \in 0..(W - 1), NEW R \in Nat, NEW r \in 0..(BB - 1),
         st.acc = W * R + y, st.acc_len = BB + r
  PROVE  Flush(st, dlen) = IF Len(st.d) + 1 > dlen THEN [st EXCEPT !.ok = FALSE]
                           ELSE [ok |-> TRUE, d |-> Append(st.d, y), acc |-> R, acc_len |-> r]
<1>1. /\ BB \in Nat \ {0} /\ W \in Nat \ {0} /\ y \in Nat /\ y < W /\ r \in Nat /\ r < BB
      /\ st.acc \in Nat /\ st.acc_len \in Nat /\ st.d \in Seq(0..(W - 1))
  BY ByteSizes DEF Records
<1>2. st.acc_len \div BB = 1 /\ st.acc_len % BB = r
  <2>1. st.acc_len = BB * 1 + r
    BY <1>1
  <2> QED
    BY <1>1, <2>1, DivIs
<1>3. st.acc \div W = R /\ st.acc % W = y
  BY <1>1, DivIs
<1> DEFINE b == [k \in 1..1 |-> (st.acc \div 2 ^ (BB * (k - 1))) % 2 ^ BB]
<1>4. b = <<y>>
  <2>1. \A k \in 1..1 : (st.acc \div 2 ^ (BB * (k - 1))) % 2 ^ BB = y
    <3> SUFFICES ASSUME NEW k \in 1..1 PROVE (st.acc \div 2 ^ (BB * (k - 1))) % 2 ^ BB = y
      OBVIOUS
    <3>1. k - 1 = 0
      OBVIOUS
    <3>2. 2 ^ (BB * (k - 1)) = 1 /\ 2 ^ BB = W
      BY <3>1, BytePowers, Zenon DEF W
    <3>3. st.acc \div 1 = st.acc
      BY <1>1
    <3> QED
      BY <1>3, <3>2, <3>3, Zenon
  <2> QED
    BY <2>1
<1>5. Flush(st, dlen) = IF Len(st.d) + 1 > dlen THEN [st EXCEPT !.ok = FALSE]
                        ELSE [ok |-> TRUE, d |-> st.d \o b, acc |-> st.acc \div 2 ^ (BB * 1),
                              acc_len |-> st.acc_len % BB]
  BY <1>2, Zenon DEF Flush
<1>6. st.acc \div 2 ^ (BB * 1) = R
  BY <1>3, BytePowers, Zenon
<1>7. st.d \o b = Append(st.d, y)
  BY <1>1, <1>4
<1> HIDE DEF b
<1> QED
  BY <1>2, <1>5, <1>6, <1>7, Zenon

\* Two bytes are below R in acc.
TwoDigits(acc, R, z, y) == acc = W * (W * R + z) + y

\* Two bytes are complete.
LEMMA FlushTwo ==
  ASSUME NEW st \in Records, NEW dlen \in Nat,
         NEW y \in 0..(W - 1), NEW z \in 0..(W - 1), NEW R \in Nat, NEW r \in 0..(BB - 1),
         TwoDigits(st.acc, R, z, y), st.acc_len = BB + BB + r
  PROVE  Flush(st, dlen) = IF Len(st.d) + 2 > dlen THEN [st EXCEPT !.ok = FALSE]
                           ELSE [ok |-> TRUE, d |-> st.d \o <<y, z>>, acc |-> R, acc_len |-> r]
<1>1. /\ BB \in Nat \ {0} /\ W \in Nat \ {0} /\ y \in Nat /\ y < W /\ z \in Nat /\ z < W
      /\ r \in Nat /\ r < BB
      /\ st.acc \in Nat /\ st.acc_len \in Nat /\ st.d \in Seq(0..(W - 1))
  BY ByteSizes DEF Records
<1>2. st.acc_len \div BB = 2 /\ st.acc_len % BB = r
  <2>1. st.acc_len = BB * 2 + r
    BY <1>1
  <2> QED
    BY <1>1, <2>1, DivIs
<1> DEFINE v == W * R + z
<1>0. st.acc = W * v + y
  BY DEF TwoDigits
<1>3. v \in Nat /\ v \div W = R /\ v % W = z
  <2>1. v \in Nat
    BY <1>1
  <2> QED
    BY <1>1, <2>1, DivIs
<1>4. st.acc \div W = v /\ st.acc % W = y
  <2> HIDE DEF v
  <2> QED
    BY <1>0, <1>1, <1>3, DivIs
<1>5. st.acc \div (W * W) = R
  <2> DEFINE u == W * z + y
             d == W * W
  <2>1. u \in Nat /\ d \in Nat \ {0}
    <3>1. W * z \in Nat /\ y \in Nat
      BY <1>1
    <3>2. d \in Nat
      BY <1>1
    <3>3. d # 0
      BY <1>1
    <3> QED
      BY <3>1, <3>2, <3>3
  <2>2. u < d
    <3>1. W * z + W <= W * W
      <4>1. W * (z + 1) <= W * W
        BY <1>1
      <4>2. W * (z + 1) = W * z + W
        BY <1>1
      <4> QED
        BY <4>1, <4>2
    <3>2. W * z \in Nat /\ W * W \in Nat
      BY <1>1
    <3> QED
      BY <1>1, <3>1, <3>2
  <2>3. st.acc = d * R + u
    <3>1. W * v = W * (W * R) + W * z
      BY <1>1
    <3>2. W * (W * R) = (W * W) * R
      BY <1>1
    <3>3. (W * W) * R \in Nat /\ W * z \in Nat
      BY <1>1
    <3> HIDE DEF v
    <3> QED
      BY <1>0, <1>1, <3>1, <3>2, <3>3
  <2> HIDE DEF u, d
  <2>4. st.acc \div d = R
    BY <1>1, <2>1, <2>2, <2>3, DivIs
  <2> QED
    BY <2>4 DEF d
<1> DEFINE b == [k \in 1..2 |-> (st.acc \div 2 ^ (BB * (k - 1))) % 2 ^ BB]
<1>6. b = <<y, z>>
  <2>1. (st.acc \div 2 ^ (BB * 0)) % 2 ^ BB = y
    <3>1. st.acc \div 1 = st.acc
      BY <1>1
    <3> QED
      BY <1>4, <3>1, BytePowers, Zenon DEF W
  <2>2. (st.acc \div 2 ^ (BB * 1)) % 2 ^ BB = z
    <3>1. (st.acc \div W) % W = z
      BY <1>3, <1>4, Zenon
    <3> QED
      BY <3>1, BytePowers, Zenon DEF W
  <2>3. b[1] = y
    <3>1. 1 \in 1..2 /\ 1 - 1 = 0
      OBVIOUS
    <3> QED
      BY <2>1, <3>1, Zenon
  <2>4. b[2] = z
    <3>1. 2 \in 1..2 /\ 2 - 1 = 1
      OBVIOUS
    <3> QED
      BY <2>2, <3>1, Zenon
  <2>5. b = [k \in 1..2 |-> b[k]]
    OBVIOUS
  <2> HIDE DEF b
  <2> QED
    BY <2>3, <2>4, <2>5
<1>7. Flush(st, dlen) = IF Len(st.d) + 2 > dlen THEN [st EXCEPT !.ok = FALSE]
                        ELSE [ok |-> TRUE, d |-> st.d \o b, acc |-> st.acc \div 2 ^ (BB * 2),
                              acc_len |-> st.acc_len % BB]
  BY <1>2, Zenon DEF Flush
<1>8. st.acc \div 2 ^ (BB * 2) = R
  BY <1>5, BytePowers, Zenon
<1> HIDE DEF b
<1> QED
  BY <1>2, <1>6, <1>7, <1>8, Zenon

-----------------------------------------------------------------------------
\* The coefficient with the low part lo and the high part z, and the pair comp_decode()
\* refuses as minus zero.
Magnitude(lo, z) == lo \div 2 + z * H
WithSign(t, m) == IF t = 1 THEN -m ELSE m
Value(lo, z) == WithSign(lo % 2, Magnitude(lo, z))
MinusZero(lo, z) == Magnitude(lo, z) = 0 /\ lo % 2 # 0

\* The parts of a value are those it is made of.
LEMMA ValueParts ==
  ASSUME NEW lo \in 0..(W - 1), NEW z \in Nat, ~MinusZero(lo, z)
  PROVE  /\ Value(lo, z) \in Int /\ Abs(Value(lo, z)) = Magnitude(lo, z)
         /\ LowPart(Value(lo, z)) = lo /\ High(Value(lo, z)) = z
<1> DEFINE m == Magnitude(lo, z)
           x == Value(lo, z)
           l == lo \div 2
<1>1. H \in Nat \ {0} /\ W = 2 * H /\ lo \in Nat /\ lo < W
  BY ByteSizes
<1>2. l \in Nat /\ l < H /\ lo % 2 \in {0, 1} /\ lo = 2 * l + (lo % 2)
  <2> DEFINE r == lo % 2
  <2>1. l \in Nat /\ r \in Nat /\ r < 2 /\ lo = 2 * l + r
    <3>1. 2 \in Nat \ {0}
      OBVIOUS
    <3> QED
      BY <1>1, <3>1, DivMod
  <2> HIDE DEF l, r
  <2>2. l < H /\ r \in {0, 1}
    BY <1>1, <2>1
  <2> QED
    BY <2>1, <2>2, Zenon DEF r
<1>3. m \in Nat /\ m = H * z + l
  <2>1. z * H \in Nat /\ z * H = H * z
    BY <1>1
  <2> HIDE DEF l
  <2> QED
    BY <1>2, <2>1 DEF Magnitude, l
<1>4. m = 0 => lo % 2 = 0
  BY <1>2 DEF MinusZero
<1>5. x = IF lo % 2 = 1 THEN -m ELSE m
  BY DEF Value, WithSign
<1> HIDE DEF x, m
<1>6. x \in Int /\ Abs(x) = m /\ Negative(x) = lo % 2
  BY <1>2, <1>3, <1>4, <1>5 DEF Abs, Negative
<1>7. m \div H = z /\ m % H = l
  <2> HIDE DEF l
  <2> QED
    BY <1>1, <1>2, <1>3, DivIs
<1>8. High(x) = z /\ LowPart(x) = lo
  <2>1. High(x) = z
    BY <1>6, <1>7, Zenon DEF High
  <2>2. LowPart(x) = (lo % 2) + 2 * l
    BY <1>6, <1>7, Zenon DEF LowPart
  <2> DEFINE r == lo % 2
  <2>3. LowPart(x) = r + 2 * l /\ lo = 2 * l + r /\ l \in Nat /\ r \in {0, 1}
    BY <1>2, <2>2
  <2> HIDE DEF l, r
  <2> QED
    BY <2>1, <2>3
<1> QED
  BY <1>6, <1>8 DEF x, m

\* Every coefficient is the value of its parts.
LEMMA ValueOfParts ==
  ASSUME NEW x \in Int, Abs(x) <= B_INF
  PROVE  /\ Value(LowPart(x), High(x)) = x /\ Magnitude(LowPart(x), High(x)) = Abs(x)
         /\ ~MinusZero(LowPart(x), High(x))
<1> DEFINE lo == LowPart(x)
           z == High(x)
           l == Abs(x) % H
<1>1. /\ Abs(x) \in Nat /\ lo \in Nat /\ lo % 2 = Negative(x) /\ Abs(x) = l + z * H
      /\ Negative(x) \in {0, 1} /\ lo = Negative(x) + 2 * l
  BY CodeParts, ByteSizes DEF LowPart
<1>2. l \in Nat
  BY <1>1, ByteSizes
<1> HIDE DEF lo, z, l
<1>3. lo \div 2 = l
  BY <1>1, <1>2
<1>4. Magnitude(lo, z) = Abs(x)
  BY <1>1, <1>3, Zenon DEF Magnitude
<1>5. x = (IF lo % 2 = 1 THEN -Abs(x) ELSE Abs(x)) /\ ~(Abs(x) = 0 /\ lo % 2 # 0)
  BY <1>1 DEF Abs, Negative
<1> QED
  BY <1>4, <1>5 DEF Value, WithSign, MinusZero, lo, z

\* A record of comp_decode() that goes on, and the changes made to it.
Yes == TRUE
Read(s, a, l, j) == [ok |-> Yes, s |-> s, acc |-> a, acc_len |-> l, j |-> j]
Taken(r, a, l, s) == [r EXCEPT !.acc = a, !.acc_len = l, !.s = s]
Moved(r, a, j) == [r EXCEPT !.acc = a, !.j = j]
Moved2(r, a, l, j) == [r EXCEPT !.acc = a, !.acc_len = l, !.j = j]

\* Its fields.
LEMMA ReadFields ==
  ASSUME NEW s, NEW a, NEW l, NEW j
  PROVE  /\ Read(s, a, l, j).ok /\ Read(s, a, l, j).s = s /\ Read(s, a, l, j).acc = a
         /\ Read(s, a, l, j).acc_len = l /\ Read(s, a, l, j).j = j
         /\ ~[Read(s, a, l, j) EXCEPT !.ok = FALSE].ok
  BY DEF Read, Yes

\* After the unary part.
LEMMA TakenFields ==
  ASSUME NEW s, NEW a, NEW l, NEW j, NEW a1, NEW l1, NEW s1
  PROVE  Taken(Read(s, a, l, j), a1, l1, s1) = Read(s1, a1, l1, j)
<1>1. [Read(s, a, l, j) EXCEPT !.acc = a1] = Read(s, a1, l, j)
  BY DEF Read
<1>2. [Read(s, a1, l, j) EXCEPT !.acc_len = l1] = Read(s, a1, l1, j)
  BY DEF Read
<1>3. [Read(s, a1, l1, j) EXCEPT !.s = s1] = Read(s1, a1, l1, j)
  BY DEF Read
<1>4. Taken(Read(s, a, l, j), a1, l1, s1)
        = [[[Read(s, a, l, j) EXCEPT !.acc = a1] EXCEPT !.acc_len = l1] EXCEPT !.s = s1]
  BY Zenon DEF Taken
<1> QED
  BY <1>1, <1>2, <1>3, <1>4, Zenon

\* After one byte.
LEMMA MovedFields ==
  ASSUME NEW s, NEW a, NEW l, NEW j, NEW a1, NEW j1
  PROVE  Moved(Read(s, a, l, j), a1, j1) = Read(s, a1, l, j1)
<1>1. [Read(s, a, l, j) EXCEPT !.acc = a1] = Read(s, a1, l, j)
  BY DEF Read
<1>2. [Read(s, a1, l, j) EXCEPT !.j = j1] = Read(s, a1, l, j1)
  BY DEF Read
<1>3. Moved(Read(s, a, l, j), a1, j1)
        = [[Read(s, a, l, j) EXCEPT !.acc = a1] EXCEPT !.j = j1]
  BY Zenon DEF Moved
<1> QED
  BY <1>1, <1>2, <1>3, Zenon

\* After two bytes.
LEMMA Moved2Fields ==
  ASSUME NEW s, NEW a, NEW l, NEW j, NEW a1, NEW l1, NEW j1
  PROVE  Moved2(Read(s, a, l, j), a1, l1, j1) = Read(s, a1, l1, j1)
<1>1. [Read(s, a, l, j) EXCEPT !.acc = a1] = Read(s, a1, l, j)
  BY DEF Read
<1>2. [Read(s, a1, l, j) EXCEPT !.acc_len = l1] = Read(s, a1, l1, j)
  BY DEF Read
<1>3. [Read(s, a1, l1, j) EXCEPT !.j = j1] = Read(s, a1, l1, j1)
  BY DEF Read
<1>4. Moved2(Read(s, a, l, j), a1, l1, j1)
        = [[[Read(s, a, l, j) EXCEPT !.acc = a1] EXCEPT !.acc_len = l1] EXCEPT !.j = j1]
  BY Zenon DEF Moved2
<1> QED
  BY <1>1, <1>2, <1>3, <1>4, Zenon

\* The number whose lowest bit set is z, with F above it, and what comp_decode() refuses.
Lowest(z, F) == 2 ^ z + 2 ^ (z + 1) * F
Unfit(t, m) == m > B_INF \/ (m = 0 /\ t # 0)

\* The unary part: z zeros and a one.
LEMMA TakeIs ==
  ASSUME NEW s \in Seq(Int), NEW l \in Nat, NEW j \in Nat, NEW z \in 0..(2 * BB), NEW F \in Nat,
         Lowest(z, F) \in Nat, NEW t, NEW m0
  PROVE  /\ Unfit(t, m0 + z * H) => ~Take(Read(s, Lowest(z, F), l, j), t, m0).ok
         /\ ~Unfit(t, m0 + z * H) =>
                Take(Read(s, Lowest(z, F), l, j), t, m0)
                  = Read(Append(s, WithSign(t, m0 + z * H)), F, l - (z + 1), j)
<1> DEFINE m == m0 + z * H
           a == Lowest(z, F)
           st == Read(s, a, l, j)
           x == WithSign(t, m)
           p == 2 ^ (z + 1)
           S == Append(s, x)
           e == [st EXCEPT !.acc = F, !.acc_len = l - (z + 1), !.s = S]
<1>0. st.acc = a /\ st.acc_len = l /\ st.s = s
  BY DEF Read
<1>1. ctz32_nonzero(st.acc) = z
  BY <1>0, CtzIs DEF Lowest
<1> HIDE DEF st
<1>2. a \div p = F
  <2>1. z \in 0..23 /\ z \in 0..24
    BY ByteSizes
  <2>2. p = 2 * 2 ^ z
    BY <2>1, Doubles
  <2> DEFINE u == 2 ^ z
  <2>3. u \in Nat \ {0}
    BY <2>1, PowerNat, Zenon
  <2>4. a = p * F + u /\ u < p /\ p \in Nat \ {0} /\ a \in Nat
    <3>1. a = u + p * F /\ p = 2 * u /\ a \in Nat
      BY <2>2 DEF Lowest
    <3> HIDE DEF p, u, a
    <3>2. p * F \in Nat
      BY <2>3, <3>1
    <3> QED
      BY <2>3, <3>1, <3>2
  <2> HIDE DEF p, u, a
  <2> QED
    BY <2>3, <2>4, DivIs
<1>3. Take(st, t, m0) =
        IF Unfit(t, m) THEN [st EXCEPT !.ok = FALSE]
        ELSE [st EXCEPT !.acc = @ \div p, !.acc_len = @ - (z + 1), !.s = Append(@, x)]
  BY <1>1, Zenon DEF Take, H, WithSign, Unfit
<1>4. [st EXCEPT !.acc = @ \div p, !.acc_len = @ - (z + 1), !.s = Append(@, x)] = e
  <2> HIDE DEF x, p
  <2>2. [st EXCEPT !.acc = @ \div p, !.acc_len = @ - (z + 1), !.s = Append(@, x)] =
        [st EXCEPT !.acc = st.acc \div p, !.acc_len = st.acc_len - (z + 1), !.s = Append(st.s, x)]
    OBVIOUS
  <2> QED
    BY <1>0, <1>2, <2>2, Zenon
<1>5. e = Read(S, F, l - (z + 1), j)
  <2> DEFINE v == l - (z + 1)
  <2>1. e = Taken(st, F, v, S)
    BY Zenon DEF Taken
  <2>2. st = Read(s, a, l, j)
    BY DEF st
  <2> HIDE DEF S, v, e, a
  <2>3. Taken(Read(s, a, l, j), F, v, S) = Read(S, F, v, j)
    BY TakenFields
  <2> QED
    BY <2>1, <2>2, <2>3, Zenon DEF v
<1>6. ~[st EXCEPT !.ok = FALSE].ok
  BY DEF Read, st
<1> HIDE DEF e
<1>7. Unfit(t, m) => Take(st, t, m0) = [st EXCEPT !.ok = FALSE]
  BY <1>3, Zenon
<1>8. ~Unfit(t, m) => Take(st, t, m0) = Read(S, F, l - (z + 1), j)
  BY <1>3, <1>4, <1>5, Zenon
<1> QED
  BY <1>6, <1>7, <1>8, Zenon DEF st

\* The bytes of a string are bytes.
LEMMA ByteAt ==
  ASSUME NEW d \in Seq(0..(W - 1)), NEW k \in 1..Len(d)
  PROVE  d[k] \in 0..(W - 1) /\ d[k] \in Nat /\ d[k] < W
<1> DEFINE S == 0..(W - 1)
<1>1. d[k] \in S
  <2>1. d \in Seq(S)
    OBVIOUS
  <2> HIDE DEF S
  <2> QED
    BY <2>1
<1> QED
  BY <1>1, ByteSizes

\* What comp_decode() does with a coefficient: r is its next record.
Outcome(r, s, F, l, j, lo, z) ==
    IF Magnitude(lo, z) > B_INF \/ MinusZero(lo, z) THEN ~r.ok
    ELSE r = Read(Append(s, Value(lo, z)), F, l, j)

\* The unary part, with the low part already read.
LEMMA TakeOutcome ==
  ASSUME NEW s \in Seq(Int), NEW l \in Nat, NEW j \in Nat, NEW z \in 0..(2 * BB), NEW F \in Nat,
         Lowest(z, F) \in Nat, NEW lo
  PROVE  Outcome(Take(Read(s, Lowest(z, F), l, j), lo % 2, lo \div 2), s, F, l - (z + 1), j, lo, z)
<1> DEFINE h == lo \div 2
           r == lo % 2
<1>1. /\ Unfit(r, h + z * H) => ~Take(Read(s, Lowest(z, F), l, j), r, h).ok
      /\ ~Unfit(r, h + z * H) =>
             Take(Read(s, Lowest(z, F), l, j), r, h)
               = Read(Append(s, WithSign(r, h + z * H)), F, l - (z + 1), j)
  <2> HIDE DEF h, r
  <2> QED
    BY TakeIs, SMTT(30)
<1>2. h + z * H = Magnitude(lo, z) /\ WithSign(r, h + z * H) = Value(lo, z)
      /\ (Unfit(r, h + z * H) <=> Magnitude(lo, z) > B_INF \/ MinusZero(lo, z))
  BY DEF Magnitude, Value, MinusZero, Unfit
<1> QED
  BY <1>1, <1>2, Zenon DEF Outcome

\* One coefficient ends in the byte that starts it.
LEMMA NextOne ==
  ASSUME NEW s \in Seq(Int), NEW acc \in Nat, NEW l \in 0..(BB - 1), NEW j \in Nat,
         NEW d \in Seq(0..(W - 1)), j < Len(d),
         NEW lo \in 0..(W - 1), NEW z \in 0..(2 * BB), NEW F \in Nat,
         acc + d[j + 1] * 2 ^ l = W * Lowest(z, F) + lo
  PROVE  Outcome(CompNext(Read(s, acc, l, j), d), s, F, l - (z + 1), j + 1, lo, z)
<1> DEFINE t == Read(s, acc, l, j)
           a == acc + d[j + 1] * 2 ^ l
           v == Lowest(z, F)
           st == [t EXCEPT !.acc = v, !.j = @ + 1]
<1>1. t.ok /\ t.acc = acc /\ t.acc_len = l /\ t.j = j
  BY ReadFields
<1>2. /\ lo \in Nat /\ lo < W /\ W \in Nat \ {0} /\ H \in Nat \ {0} /\ W = 2 * H /\ BB \in Nat
      /\ l \in Nat
  BY ByteSizes
<1>3. v \in Nat \ {0}
  <2>1. z \in 0..24 /\ z + 1 \in 0..24
    <3>1. BB \in Nat /\ BB <= 8
      BY ByteSizes
    <3>2. z \in 0..(2 * BB)
      OBVIOUS
    <3> HIDE DEF t, a, v, st
    <3> QED
      BY <3>1, <3>2
  <2> DEFINE p == 2 ^ z
             pp == 2 ^ (z + 1)
  <2>2. p \in Nat \ {0}
    BY <2>1, PowerNat, Zenon
  <2>3. pp \in Nat
    BY <2>1, PowerNat, Zenon
  <2> HIDE DEF p, pp
  <2>4. p + pp * F \in Nat \ {0}
    BY <2>2, <2>3
  <2> QED
    BY <2>4 DEF p, pp, Lowest
<1> HIDE DEF t
<1>4. a = W * v + lo /\ a \in Nat
  <2>1. a = W * v + lo
    OBVIOUS
  <2> HIDE DEF a, v
  <2> DEFINE wv == W * v
  <2>2. wv \in Nat /\ a = wv + lo
    BY <1>2, <1>3, <2>1
  <2> HIDE DEF wv
  <2>3. a \in Nat
    BY <1>2, <2>2
  <2> QED
    BY <2>1, <2>3, Zenon
<1> HIDE DEF a, v
<1>5. a \div W = v /\ a % 2 = lo % 2 /\ (a \div 2) % H = lo \div 2
  <2>0. a \div W = v
    BY <1>2, <1>3, <1>4, DivIs
  <2> DEFINE h == lo \div 2
             r == lo % 2
             u == H * v
             n == u + h
  <2>1. h \in Nat /\ r \in Nat /\ r < 2 /\ lo = 2 * h + r
    <3>1. lo \in Nat /\ 2 \in Nat \ {0}
      BY <1>2
    <3> QED
      BY <3>1, DivMod, Zenon
  <2> HIDE DEF h, r
  <2>2. h < H
    BY <1>2, <2>1
  <2>3. u \in Nat /\ W * v = 2 * u
    BY <1>2, <1>3
  <2>4. n \in Nat /\ n = H * v + h
    <3> HIDE DEF u
    <3>1. n \in Nat
      BY <2>1, <2>3
    <3> QED
      BY <3>1, Zenon DEF u
  <2> HIDE DEF u
  <2>5. a = 2 * n + r
    BY <1>4, <2>1, <2>3
  <2> HIDE DEF n
  <2>6. a \div 2 = n /\ a % 2 = r
    <3>1. a \in Nat /\ n \in Nat /\ r \in Nat /\ r < 2 /\ 2 \in Nat \ {0}
      BY <1>4, <2>1, <2>4
    <3> QED
      BY <2>5, <3>1, DivIs
  <2>7. n % H = h
    BY <1>2, <1>3, <2>1, <2>2, <2>4, DivIs
  <2> QED
    BY <2>0, <2>6, <2>7, Zenon DEF h, r
<1>6. CompNext(t, d) = Take(st, lo % 2, lo \div 2)
  <2>1. ~(t.j >= Len(d)) /\ v # 0
    <3>1. ~(j >= Len(d))
      OBVIOUS
    <3> QED
      BY <1>1, <1>3, <3>1, Zenon
  <2>2. a = t.acc + d[t.j + 1] * 2 ^ t.acc_len
    BY <1>1, Zenon DEF a
  <2>3. (a \div 2) % 2 ^ LowBits = lo \div 2
    BY <1>5, Zenon DEF H
  <2>4. a \div 2 ^ BB = v
    BY <1>5, Zenon DEF W
  <2> HIDE DEF st
  <2>5. CompNext(t, d) =
        LET acc1 == a
            tt == acc1 % 2
            m == (acc1 \div 2) % 2 ^ LowBits
            acc2 == acc1 \div 2 ^ BB
        IN  IF acc2 # 0 THEN Take([t EXCEPT !.acc = acc2, !.j = @ + 1], tt, m)
            ELSE IF t.j + 1 >= Len(d) \/ d[t.j + 2] = 0 THEN [t EXCEPT !.ok = FALSE]
            ELSE Take([t EXCEPT !.acc = d[t.j + 2] * 2 ^ t.acc_len, !.acc_len = @ + BB,
                                !.j = @ + 2], tt, m)
    BY <1>1, <2>1, <2>2, Zenon DEF CompNext
  <2>6. CompNext(t, d) = Take([t EXCEPT !.acc = v, !.j = @ + 1], a % 2, lo \div 2)
    BY <2>1, <2>3, <2>4, <2>5, Zenon
  <2> QED
    BY <1>5, <2>6, Zenon DEF st
<1>7. st = Read(s, v, l, j + 1)
  <2> DEFINE j1 == t.j + 1
             j2 == j + 1
  <2>1. st = Moved(t, v, j1) /\ j1 = j2
    BY <1>1, Zenon DEF Moved
  <2> HIDE DEF j1, j2, st
  <2>2. Moved(Read(s, acc, l, j), v, j2) = Read(s, v, l, j2)
    BY MovedFields
  <2> QED
    BY <2>1, <2>2, Zenon DEF j2, t
<1>8. Outcome(Take(Read(s, v, l, j + 1), lo % 2, lo \div 2), s, F, l - (z + 1), j + 1, lo, z)
  <2> DEFINE jj == j + 1
             n == l
  <2>1. Lowest(z, F) \in Nat /\ v = Lowest(z, F) /\ jj \in Nat /\ n \in Nat
    BY <1>2, <1>3 DEF v
  <2> HIDE DEF v, jj, n
  <2>2. Outcome(Take(Read(s, Lowest(z, F), n, jj), lo % 2, lo \div 2), s, F, n - (z + 1), jj, lo, z)
    BY <2>1, TakeOutcome, Zenon
  <2> QED
    BY <2>1, <2>2, Zenon DEF jj, n
<1> QED
  BY <1>6, <1>7, <1>8, Zenon DEF t

\* One coefficient goes on in the byte after the one that starts it.
LEMMA NextTwo ==
  ASSUME NEW s \in Seq(Int), NEW acc \in Nat, NEW l \in 0..(BB - 1), NEW j \in Nat,
         NEW d \in Seq(0..(W - 1)), j + 1 < Len(d),
         NEW lo \in 0..(W - 1), NEW z \in 0..(2 * BB), NEW F \in Nat,
         acc + d[j + 1] * 2 ^ l = lo, d[j + 2] # 0, d[j + 2] * 2 ^ l = Lowest(z, F)
  PROVE  Outcome(CompNext(Read(s, acc, l, j), d), s, F, (l + BB) - (z + 1), j + 2, lo, z)
<1> DEFINE t == Read(s, acc, l, j)
           v == Lowest(z, F)
           st == [t EXCEPT !.acc = v, !.acc_len = @ + BB, !.j = @ + 2]
<1>1. t.ok /\ t.acc = acc /\ t.acc_len = l /\ t.j = j
  BY ReadFields
<1>2. /\ lo \in Nat /\ lo < W /\ W \in Nat \ {0} /\ H \in Nat \ {0} /\ W = 2 * H /\ BB \in Nat
      /\ l \in Nat
  BY ByteSizes
<1>3. v \in Nat
  <2> DEFINE b == d[j + 2]
             p == 2 ^ l
  <2>1. b \in Nat
    <3> DEFINE k == j + 2
    <3>1. k \in 1..Len(d)
      OBVIOUS
    <3> HIDE DEF k
    <3> QED
      BY <3>1, ByteAt, Zenon DEF k
  <2>2. p \in Nat
    <3>1. l \in 0..24
      BY ByteSizes
    <3> QED
      BY <3>1, PowerNat, Zenon
  <2>3. v = b * p
    OBVIOUS
  <2> HIDE DEF b, p, v
  <2> QED
    BY <1>2, <2>1, <2>2, <2>3
<1> HIDE DEF v, t
<1>5. lo \div W = 0 /\ (lo \div 2) % H = lo \div 2
  <2>1. lo = W * 0 + lo
    BY <1>2
  <2>2. lo \div W = 0
    <3>1. lo \in Nat /\ W \in Nat \ {0} /\ 0 \in Nat /\ lo < W
      BY <1>2
    <3> QED
      BY <2>1, <3>1, DivIs, Zenon
  <2> DEFINE h == lo \div 2
             r == lo % 2
  <2>3. h \in Nat /\ r \in Nat /\ lo = 2 * h + r
    <3>1. lo \in Nat /\ 2 \in Nat \ {0}
      BY <1>2
    <3> QED
      BY <3>1, DivMod, Zenon
  <2> HIDE DEF h, r
  <2>4. h < H /\ h = H * 0 + h
    BY <1>2, <2>3
  <2>5. h % H = h
    BY <1>2, <2>3, <2>4, DivIs
  <2> QED
    BY <2>2, <2>5, Zenon DEF h
<1>6. CompNext(t, d) = Take(st, lo % 2, lo \div 2)
  <2>1. ~(t.j >= Len(d)) /\ ~(t.j + 1 >= Len(d))
    <3>1. ~(j >= Len(d)) /\ ~(j + 1 >= Len(d))
      OBVIOUS
    <3> QED
      BY <1>1, <3>1, Zenon
  <2>2. lo = t.acc + d[t.j + 1] * 2 ^ t.acc_len
    BY <1>1, Zenon
  <2>3. (lo \div 2) % 2 ^ LowBits = lo \div 2
    BY <1>5, Zenon DEF H
  <2>4. lo \div 2 ^ BB = 0
    BY <1>5, Zenon DEF W
  <2>5. v = d[t.j + 2] * 2 ^ t.acc_len /\ d[t.j + 2] # 0
    BY <1>1, Zenon DEF v
  <2> HIDE DEF st
  <2>6. CompNext(t, d) =
        LET acc1 == lo
            tt == acc1 % 2
            m == (acc1 \div 2) % 2 ^ LowBits
            acc2 == acc1 \div 2 ^ BB
        IN  IF acc2 # 0 THEN Take([t EXCEPT !.acc = acc2, !.j = @ + 1], tt, m)
            ELSE IF t.j + 1 >= Len(d) \/ d[t.j + 2] = 0 THEN [t EXCEPT !.ok = FALSE]
            ELSE Take([t EXCEPT !.acc = v, !.acc_len = @ + BB, !.j = @ + 2], tt, m)
    BY <1>1, <2>1, <2>2, <2>5, Zenon DEF CompNext
  <2> QED
    BY <2>1, <2>3, <2>4, <2>5, <2>6, Zenon DEF st
<1>7. st = Read(s, v, l + BB, j + 2)
  <2> DEFINE j1 == t.j + 2
             j2 == j + 2
             n1 == t.acc_len + BB
             n2 == l + BB
  <2>1. st = Moved2(t, v, n1, j1) /\ j1 = j2 /\ n1 = n2
    BY <1>1, Zenon DEF Moved2
  <2> HIDE DEF j1, j2, st, n1, n2
  <2>2. Moved2(Read(s, acc, l, j), v, n2, j2) = Read(s, v, n2, j2)
    BY Moved2Fields
  <2> QED
    BY <2>1, <2>2, Zenon DEF j2, n2, t
<1>8. Outcome(Take(Read(s, v, l + BB, j + 2), lo % 2, lo \div 2), s, F, (l + BB) - (z + 1), j + 2, lo, z)
  <2> DEFINE jj == j + 2
             n == l + BB
  <2>1. Lowest(z, F) \in Nat /\ v = Lowest(z, F) /\ jj \in Nat /\ n \in Nat
    BY <1>2, <1>3 DEF v
  <2> HIDE DEF v, jj, n
  <2>2. Outcome(Take(Read(s, Lowest(z, F), n, jj), lo % 2, lo \div 2), s, F, n - (z + 1), jj, lo, z)
    BY <2>1, TakeOutcome, Zenon
  <2> QED
    BY <2>1, <2>2, Zenon DEF jj, n
<1> QED
  BY <1>6, <1>7, <1>8, Zenon DEF t

-----------------------------------------------------------------------------
\* A record of comp_encode() that goes on.
Pack(y, a, l) == [ok |-> Yes, d |-> y, acc |-> a, acc_len |-> l]

\* The same, with a byte not complete yet in the accumulator.
PackOK(y, a, l) == y \in Seq(0..(W - 1)) /\ a \in Nat /\ l \in 0..(BB - 1) /\ a < 2 ^ l

\* Its fields.
LEMMA PackFields ==
  ASSUME NEW y, NEW a, NEW l
  PROVE  Pack(y, a, l).ok /\ Pack(y, a, l).d = y /\ Pack(y, a, l).acc = a /\ Pack(y, a, l).acc_len = l
  BY DEF Pack, Yes

\* Such a record is a state between two coefficients.
LEMMA PackTypes ==
  ASSUME NEW y, NEW a, NEW l, PackOK(y, a, l)
  PROVE  Pack(y, a, l) \in Records /\ Packing(Pack(y, a, l))
<1> DEFINE S == Seq(0..(W - 1))
<1>1. y \in S /\ a \in Nat /\ l \in Nat /\ l < BB /\ a < 2 ^ l
  BY ByteSizes DEF PackOK
<1> HIDE DEF S
<1>2. Pack(y, a, l) \in [ok : BOOLEAN, d : S, acc : Nat, acc_len : Nat]
  BY <1>1 DEF Pack, Yes
<1> HIDE DEF Pack
<1> QED
  BY <1>1, <1>2, PackFields DEF Records, Packing, S

\* What comp_encode() has after an append that completes bytes, out being all of them.
Written(r, out, a, l, dlen) ==
    IF Len(out) > dlen THEN r \in Records /\ ~r.ok ELSE r = Pack(out, a, l)

\* The record that Flush() gets.
LEMMA AddedFields ==
  ASSUME NEW y, NEW a, NEW l, PackOK(y, a, l), NEW x \in Int, Abs(x) <= B_INF
  PROVE  /\ Added(Pack(y, a, l), x) \in Records /\ Added(Pack(y, a, l), x).d = y
         /\ Added(Pack(y, a, l), x).acc = a + Code(x) * 2 ^ l
         /\ Added(Pack(y, a, l), x).acc_len = l + CodeLen(x)
         /\ a + Code(x) * 2 ^ l \in Nat /\ Code(x) \in Nat /\ CodeLen(x) \in Nat
<1> DEFINE p == 2 ^ l
           c == Code(x)
           n == CodeLen(x)
           S == Seq(0..(W - 1))
<1>1. High(x) \in 0..(BB - 2) /\ LowPart(x) \in 0..(W - 1)
  BY CodeParts
<1>2. c \in Nat /\ n \in Nat
  <2> DEFINE q == 2 ^ High(x)
             h == High(x)
             lo == LowPart(x)
  <2>1. h \in 0..24 /\ lo \in Nat /\ BB \in Nat /\ W \in Nat
    BY <1>1, ByteSizes
  <2>2. q \in Nat
    BY <2>1, PowerNat, Zenon
  <2> HIDE DEF q, h, lo
  <2>3. lo + W * q \in Nat /\ BB + h + 1 \in Nat
    BY <2>1, <2>2
  <2> QED
    BY <2>3 DEF q, h, lo, Code, CodeLen
<1>3. p \in Nat /\ a \in Nat /\ l \in Nat /\ y \in S
  <2>1. a \in Nat /\ l \in Nat /\ y \in S /\ l \in 0..24
    BY ByteSizes DEF PackOK
  <2> QED
    BY <2>1, PowerNat, Zenon
<1> HIDE DEF c, n, p, S
<1>4. a + c * p \in Nat /\ l + n \in Nat
  <2>1. c * p \in Nat
    BY <1>2, <1>3
  <2> QED
    BY <1>2, <1>3, <2>1
<1>5. Added(Pack(y, a, l), x) = Pack(y, a + c * p, l + n)
  <2>1. Pack(y, a, l).ok = Yes
    BY DEF Pack
  <2>2. /\ Pack(y, a, l).d = y /\ Pack(y, a, l).acc = a /\ Pack(y, a, l).acc_len = l
    BY PackFields
  <2> QED
    BY <2>1, <2>2, Zenon DEF Added, c, n, p, Pack
<1>6. Pack(y, a + c * p, l + n) \in Records
  <2> DEFINE u == a + c * p
             v == l + n
  <2>1. u \in Nat /\ v \in Nat
    BY <1>4
  <2> HIDE DEF u, v
  <2>2. Pack(y, u, v) \in [ok : BOOLEAN, d : S, acc : Nat, acc_len : Nat]
    BY <1>3, <2>1 DEF Pack, Yes
  <2> QED
    BY <2>2 DEF Records, S, u, v
<1>7. /\ Pack(y, a + c * p, l + n).d = y /\ Pack(y, a + c * p, l + n).acc = a + c * p
      /\ Pack(y, a + c * p, l + n).acc_len = l + n
  BY PackFields
<1> QED
  BY <1>2, <1>4, <1>5, <1>6, <1>7, Zenon DEF c, n, p

\* An append that completes one byte.
LEMMA AppendOne ==
  ASSUME NEW y, NEW a, NEW l, PackOK(y, a, l), NEW x \in Int, Abs(x) <= B_INF, NEW dlen \in Nat,
         NEW b \in 0..(W - 1), NEW R \in Nat, NEW r \in 0..(BB - 1),
         a + Code(x) * 2 ^ l = W * R + b, l + CodeLen(x) = BB + r
  PROVE  Written(CompAppend(Pack(y, a, l), x, dlen), Append(y, b), R, r, dlen)
<1> DEFINE st == Pack(y, a, l)
           e == Added(st, x)
           F == Flush(e, dlen)
<1>1. CompAppend(st, x, dlen) = F
  <2>1. Packing(st)
    BY PackTypes, Zenon
  <2> HIDE DEF st
  <2> QED
    BY <2>1, AppendAdds
<1>2. e \in Records /\ e.d = y /\ e.acc = W * R + b /\ e.acc_len = BB + r
  <2>1. /\ e \in Records /\ e.d = y /\ e.acc = a + Code(x) * 2 ^ l /\ e.acc_len = l + CodeLen(x)
    BY AddedFields
  <2> QED
    BY <2>1, Zenon
<1>3. y \in Seq(0..(W - 1)) /\ Len(y) \in Nat /\ Len(Append(y, b)) = Len(y) + 1
  BY DEF PackOK
<1> HIDE DEF st, e, F
<1>4. F = IF Len(e.d) + 1 > dlen THEN [e EXCEPT !.ok = FALSE]
          ELSE [ok |-> TRUE, d |-> Append(e.d, b), acc |-> R, acc_len |-> r]
  BY <1>2, FlushOne DEF F
<1>5. [e EXCEPT !.ok = FALSE] \in Records /\ ~[e EXCEPT !.ok = FALSE].ok
  BY <1>2, Refused
<1>6. [ok |-> TRUE, d |-> Append(y, b), acc |-> R, acc_len |-> r] = Pack(Append(y, b), R, r)
  BY Zenon DEF Pack, Yes
<1>7. Written(F, Append(y, b), R, r, dlen)
  BY <1>2, <1>3, <1>4, <1>5, <1>6, Zenon DEF Written
<1> QED
  BY <1>1, <1>7, Zenon DEF st

\* An append that completes two bytes.
LEMMA AppendTwo ==
  ASSUME NEW y, NEW a, NEW l, PackOK(y, a, l), NEW x \in Int, Abs(x) <= B_INF, NEW dlen \in Nat,
         NEW b \in 0..(W - 1), NEW c \in 0..(W - 1), NEW R \in Nat, NEW r \in 0..(BB - 1),
         TwoDigits(a + Code(x) * 2 ^ l, R, c, b), l + CodeLen(x) = BB + BB + r
  PROVE  Written(CompAppend(Pack(y, a, l), x, dlen), y \o <<b, c>>, R, r, dlen)
<1> DEFINE st == Pack(y, a, l)
           e == Added(st, x)
           F == Flush(e, dlen)
           out == y \o <<b, c>>
<1>1. CompAppend(st, x, dlen) = F
  <2>1. Packing(st)
    BY PackTypes, Zenon
  <2> HIDE DEF st
  <2> QED
    BY <2>1, AppendAdds
<1>2. e \in Records /\ e.d = y /\ TwoDigits(e.acc, R, c, b) /\ e.acc_len = BB + BB + r
  <2>1. /\ e \in Records /\ e.d = y /\ e.acc = a + Code(x) * 2 ^ l /\ e.acc_len = l + CodeLen(x)
    BY AddedFields
  <2> QED
    BY <2>1, Zenon
<1>3. Len(out) = Len(y) + 2
  BY DEF PackOK
<1> HIDE DEF st, e, F
<1>4. F = IF Len(e.d) + 2 > dlen THEN [e EXCEPT !.ok = FALSE]
          ELSE [ok |-> TRUE, d |-> e.d \o <<b, c>>, acc |-> R, acc_len |-> r]
  <2> HIDE DEF out
  <2>1. e \in Records /\ TwoDigits(e.acc, R, c, b) /\ e.acc_len = BB + BB + r
    BY <1>2, Zenon
  <2> QED
    BY <2>1, FlushTwo, SMTT(30) DEF F
<1>5. [e EXCEPT !.ok = FALSE] \in Records /\ ~[e EXCEPT !.ok = FALSE].ok
  BY <1>2, Refused
<1>6. [ok |-> TRUE, d |-> out, acc |-> R, acc_len |-> r] = Pack(out, R, r)
  BY Zenon DEF Pack, Yes
<1>7. e.d \o <<b, c>> = out
  BY <1>2, Zenon
<1> HIDE DEF out
<1>8. Written(F, out, R, r, dlen)
  BY <1>2, <1>3, <1>4, <1>5, <1>6, <1>7, Zenon DEF Written
<1> QED
  BY <1>1, <1>8, Zenon DEF st, out

-----------------------------------------------------------------------------
\* Weights of the bits on both sides: a byte is P * Q, its lower el bits a were written, its
\* upper bits c are what is left to read, b is the byte after it.
LEMMA Balance ==
  ASSUME NEW P \in Nat \ {0}, NEW Q \in Nat, NEW a \in Nat, NEW c \in Nat, NEW b \in Nat,
         NEW C \in Nat, NEW G \in Nat, W = P * Q
  PROVE  c + b * Q = C + W * G <=> (a + C * P) + W * (P * G) = (a + P * c) + W * b
<1> DEFINE A == c + b * Q
           T == C + W * G
<1>1. A \in Nat /\ T \in Nat /\ W \in Nat
  BY ByteSizes
<1>2. P * A = P * c + W * b
  <2>1. P * A = P * c + P * (b * Q)
    OBVIOUS
  <2>2. P * (b * Q) = (P * Q) * b
    OBVIOUS
  <2> QED
    BY <2>1, <2>2
<1>3. P * T = C * P + W * (P * G)
  <2>1. P * T = P * C + P * (W * G)
    BY <1>1
  <2>2. P * (W * G) = W * (P * G) /\ P * C = C * P
    BY <1>1
  <2> QED
    BY <2>1, <2>2
<1> DEFINE p == P * c
           w == W * b
           q == C * P
           v == W * (P * G)
           r == P * A
           s == P * T
<1>4. p \in Nat /\ w \in Nat /\ q \in Nat /\ v \in Nat /\ r = p + w /\ s = q + v
  <2>1. P * G \in Nat
    OBVIOUS
  <2> QED
    BY <1>1, <1>2, <1>3, <2>1
<1>5. r = s <=> A = T
  <2> HIDE DEF A, T
  <2>1. CASE A < T
    <3>1. P * A + P <= P * T
      <4>1. P * (A + 1) <= P * T
        BY <1>1, <2>1
      <4>2. P * (A + 1) = P * A + P
        BY <1>1
      <4> QED
        BY <4>1, <4>2
    <3> HIDE DEF p, w, q, v
    <3> QED
      BY <1>4, <2>1, <1>1, <3>1
  <2>2. CASE T < A
    <3>1. P * T + P <= P * A
      <4>1. P * (T + 1) <= P * A
        BY <1>1, <2>2
      <4>2. P * (T + 1) = P * T + P
        BY <1>1
      <4> QED
        BY <4>1, <4>2
    <3> HIDE DEF p, w, q, v
    <3> QED
      BY <1>4, <2>2, <1>1, <3>1
  <2>3. CASE A = T
    BY <2>3
  <2> QED
    BY <1>1, <2>1, <2>2, <2>3
<1> HIDE DEF r, s
<1>6. r = s <=> (a + q) + v = (a + p) + w
  <2> HIDE DEF p, w, q, v
  <2> QED
    BY <1>4
<1> QED
  BY <1>5, <1>6 DEF A, T, p, w, q, v

\* A number of which every digit is below its bound is below the product of the bounds.
LEMMA DigitsBelow ==
  ASSUME NEW P \in Nat, NEW a \in Nat, a < P, NEW M \in Nat, NEW C \in Nat, C < M
  PROVE  a + C * P < M * P
<1>1. (C + 1) * P <= M * P
  OBVIOUS
<1>2. (C + 1) * P = C * P + P /\ C * P \in Nat /\ M * P \in Nat
  OBVIOUS
<1> QED
  BY <1>1, <1>2

\* What one byte and more bits leave.
LEMMA Leaves ==
  ASSUME NEW E \in Nat, NEW V \in Nat, NEW b \in Nat, NEW e \in Nat, e < W, E + W * V = e + W * b
  PROVE  b - V \in Nat /\ E = W * (b - V) + e
<1>1. W \in Nat
  BY ByteSizes
<1> DEFINE R == b - V
           u == W * R
           wv == W * V
           wb == W * b
<1>2. R \in Int /\ u = wb - wv /\ u \in Int /\ wv \in Int /\ wb \in Int
  BY <1>1
<1>3. E = u + e
  <2> HIDE DEF R, u, wv, wb
  <2>1. E + wv = e + wb
    BY DEF wv, wb
  <2> QED
    BY <1>2, <2>1
<1>4. R >= 0
  <2> SUFFICES ASSUME R <= -1 PROVE FALSE
    BY <1>2
  <2>1. u <= W * (-1)
    <3> HIDE DEF R
    <3> QED
      BY <1>1, <1>2
  <2>2. W * (-1) = -W
    BY <1>1
  <2> HIDE DEF u, R
  <2> QED
    BY <1>1, <1>2, <1>3, <2>1, <2>2
<1> QED
  BY <1>2, <1>3, <1>4

\* The quotient by a byte keeps a bound.
LEMMA QuotientBelow ==
  ASSUME NEW E \in Nat, NEW R \in Nat, NEW e \in Nat, NEW N \in Nat, E = W * R + e, E < W * N
  PROVE  R < N
<1>1. W \in Nat
  BY ByteSizes
<1> SUFFICES ASSUME R >= N PROVE FALSE
  OBVIOUS
<1>2. W * R >= W * N
  BY <1>1
<1>3. W * R \in Nat /\ W * N \in Nat
  BY <1>1
<1> QED
  BY <1>2, <1>3

\* The string of bytes written so far is the start of d.
Begins(y, d) == Len(y) <= Len(d) /\ \A k \in 1..Len(y) : y[k] = d[k]

\* One byte more.
LEMMA BeginsOne ==
  ASSUME NEW y \in Seq(0..(W - 1)), NEW d \in Seq(0..(W - 1)), Begins(y, d), Len(y) + 1 <= Len(d),
         NEW b \in 0..(W - 1), b = d[Len(y) + 1]
  PROVE  Append(y, b) \in Seq(0..(W - 1)) /\ Len(Append(y, b)) = Len(y) + 1 /\ Begins(Append(y, b), d)
<1> DEFINE S == 0..(W - 1)
<1>1. y \in Seq(S) /\ d \in Seq(S) /\ b \in S
  OBVIOUS
<1> HIDE DEF S
<1>2. Append(y, b) \in Seq(S) /\ Len(Append(y, b)) = Len(y) + 1
  BY <1>1
<1>3. ASSUME NEW k \in 1..(Len(y) + 1) PROVE Append(y, b)[k] = d[k]
  <2>1. CASE k = Len(y) + 1
    BY <1>1, <2>1
  <2>2. CASE k # Len(y) + 1
    <3>1. k \in 1..Len(y)
      BY <1>1, <2>2
    <3> QED
      BY <1>1, <3>1 DEF Begins
  <2> QED
    BY <2>1, <2>2
<1> QED
  BY <1>2, <1>3 DEF Begins, S

\* Two bytes more.
LEMMA BeginsTwo ==
  ASSUME NEW y \in Seq(0..(W - 1)), NEW d \in Seq(0..(W - 1)), Begins(y, d), Len(y) + 2 <= Len(d),
         NEW b \in 0..(W - 1), b = d[Len(y) + 1], NEW c \in 0..(W - 1), c = d[Len(y) + 2]
  PROVE  /\ y \o <<b, c>> \in Seq(0..(W - 1)) /\ Len(y \o <<b, c>>) = Len(y) + 2
         /\ Begins(y \o <<b, c>>, d)
<1> DEFINE S == 0..(W - 1)
           o == y \o <<b, c>>
<1>1. y \in Seq(S) /\ d \in Seq(S) /\ b \in S /\ c \in S /\ <<b, c>> \in Seq(S)
  OBVIOUS
<1> HIDE DEF S
<1>2. o \in Seq(S) /\ Len(o) = Len(y) + 2
  BY <1>1
<1>3. ASSUME NEW k \in 1..(Len(y) + 2) PROVE o[k] = d[k]
  <2>1. CASE k = Len(y) + 1
    BY <1>1, <2>1
  <2>2. CASE k = Len(y) + 2
    BY <1>1, <2>2
  <2>3. CASE k \in 1..Len(y)
    <3>1. o[k] = y[k]
      BY <1>1, <2>3
    <3> QED
      BY <2>3, <3>1 DEF Begins
  <2> QED
    BY <1>1, <2>1, <2>2, <2>3
<1> QED
  BY <1>2, <1>3 DEF Begins, S

-----------------------------------------------------------------------------
(* comp_encode() and comp_decode() side by side on the string d: y, a and el  *)
(* are what the first has written, its accumulator and the bits in it; c, l   *)
(* and j are the accumulator of the second, the bits in it and the bytes read. *)

\* The state of comp_decode() between two coefficients.
ReadOK(c, l, j, d) == c \in Nat /\ l \in 0..(BB - 1) /\ c < 2 ^ l /\ j \in 0..Len(d)

\* Both are at the same bit of d: between two bytes, or in one.
Joint(y, a, el, c, l, j, d) ==
    /\ PackOK(y, a, el) /\ ReadOK(c, l, j, d) /\ Begins(y, d)
    /\ \/ el = 0 /\ l = 0 /\ Len(y) = j
       \/ el + l = BB /\ j = Len(y) + 1 /\ d[j] = a + 2 ^ el * c

\* The next coefficient has the low part lo; it ends in the byte that starts it, after z
\* zeros, F being left, or in the byte after it, after w zeros in that byte.
OneByte(c, l, j, d, lo, z, F) ==
    /\ j < Len(d) /\ z < l /\ F < 2 ^ (l - (z + 1))
    /\ c + d[j + 1] * 2 ^ l = W * Lowest(z, F) + lo
TwoBytes(c, l, j, d, lo, w, F) ==
    /\ j + 1 < Len(d) /\ w < BB /\ F < 2 ^ (BB - (w + 1))
    /\ c + d[j + 1] * 2 ^ l = lo /\ d[j + 2] = Lowest(w, F)

\* The powers of two up to twice a byte's size.
LEMMA SmallPowers ==
  ASSUME NEW k \in 0..(2 * BB)
  PROVE  2 ^ k \in Nat \ {0} /\ 2 ^ (k + 1) = 2 * 2 ^ k
<1>1. k \in 0..23 /\ k \in 0..24
  BY ByteSizes
<1>2. 2 ^ k \in Nat \ {0}
  BY <1>1, PowerNat, Zenon
<1> QED
  BY <1>1, <1>2, Doubles

\* Products of them.
LEMMA SmallSums ==
  ASSUME NEW k \in 0..(2 * BB), NEW m \in 0..BB
  PROVE  2 ^ (k + m) = 2 ^ k * 2 ^ m
<1>1. k \in 0..24 /\ m \in 0..24 /\ k + m <= 24
  BY ByteSizes
<1> QED
  BY <1>1, PowerSum, Zenon

\* The code of a coefficient takes its length.
LEMMA CodeBelow ==
  ASSUME NEW x \in Int, Abs(x) <= B_INF
  PROVE  Code(x) \in Nat /\ Code(x) < W * 2 ^ (High(x) + 1) /\ 2 ^ High(x) \in Nat
<1> DEFINE z == High(x)
           lo == LowPart(x)
           Z == 2 ^ z
           wz == W * Z
<1>1. z \in 0..(2 * BB) /\ lo \in Nat /\ lo < W /\ W \in Nat \ {0}
  <2>1. z \in 0..(BB - 2) /\ lo \in 0..(W - 1)
    BY CodeParts
  <2> HIDE DEF z, lo
  <2> QED
    BY <2>1, ByteSizes
<1>2. Z \in Nat \ {0} /\ 2 ^ (z + 1) = 2 * Z
  BY <1>1, SmallPowers
<1>3. wz \in Nat /\ W <= wz /\ W * (2 * Z) = 2 * wz
  <2> HIDE DEF Z
  <2>1. W * 1 <= W * Z
    BY <1>1, <1>2
  <2> QED
    BY <1>1, <1>2, <2>1
<1>4. Code(x) = lo + wz
  BY DEF Code
<1>5. Code(x) \in Nat /\ Code(x) < W * (2 * Z)
  <2> HIDE DEF lo, wz, Z
  <2> QED
    BY <1>1, <1>3, <1>4
<1> QED
  BY <1>2, <1>5

\* A coefficient that ends in the byte that starts it.
LEMMA JointOne ==
  ASSUME NEW y, NEW a, NEW el, NEW c, NEW l, NEW j, NEW d \in Seq(0..(W - 1)),
         Joint(y, a, el, c, l, j, d), NEW x \in Int, Abs(x) <= B_INF, NEW F \in Nat,
         OneByte(c, l, j, d, LowPart(x), High(x), F)
  PROVE  \E y2, a2, el2 : /\ CompAppend(Pack(y, a, el), x, Len(d)) = Pack(y2, a2, el2)
                          /\ Joint(y2, a2, el2, F, l - (High(x) + 1), j + 1, d)
<1> DEFINE z == High(x)
           lo == LowPart(x)
           P == 2 ^ el
           Q == 2 ^ l
           Z == 2 ^ z
           b == d[j + 1]
           e == d[j]
           C == Code(x)
           G == (2 * Z) * F
           E == a + C * P
           V == P * G
           l2 == l - (z + 1)
           N == 2 ^ (el + (z + 1))
<1>1. /\ a \in Nat /\ el \in 0..(BB - 1) /\ a < P /\ c \in Nat /\ l \in 0..(BB - 1) /\ c < Q
      /\ y \in Seq(0..(W - 1)) /\ Begins(y, d) /\ PackOK(y, a, el)
  BY DEF Joint, PackOK, ReadOK
<1>2. /\ z \in 0..(BB - 2) /\ lo \in 0..(W - 1) /\ W \in Nat \ {0} /\ BB \in Nat /\ BB >= 2
      /\ lo \in Nat /\ lo < W
  BY CodeParts, ByteSizes
<1>3. z < l /\ j < Len(d) /\ F < 2 ^ l2 /\ c + b * Q = W * Lowest(z, F) + lo
  BY DEF OneByte
<1>4. l # 0 /\ el + l = BB /\ j = Len(y) + 1 /\ e = a + P * c /\ l2 \in 0..(BB - 1) /\ j \in Nat
  <2>1. l # 0 /\ l2 \in 0..(BB - 1)
    <3>1. l \in Nat /\ l < BB /\ z \in Nat /\ z < l /\ BB \in Nat
      BY <1>1, <1>2, <1>3
    <3> HIDE DEF z
    <3> QED
      BY <3>1
  <2>2. el + l = BB /\ j = Len(y) + 1 /\ e = a + P * c
    BY <2>1 DEF Joint
  <2>3. Len(y) \in Nat
    BY <1>1
  <2> QED
    BY <2>1, <2>2, <2>3
<1>5. b \in Nat /\ b < W /\ e \in Nat /\ e < W /\ b \in 0..(W - 1) /\ e \in 0..(W - 1)
  <2> DEFINE j1 == j + 1
  <2>1. j1 \in 1..Len(d) /\ j \in 1..Len(d)
    <3>1. j \in Nat /\ j < Len(d)
      BY <1>3, <1>4, Zenon
    <3>2. j >= 1 /\ Len(d) \in Nat
      <4>1. Len(y) \in Nat /\ j = Len(y) + 1
        BY <1>1, <1>4
      <4>2. Len(d) \in Nat
        OBVIOUS
      <4> QED
        BY <4>1, <4>2
    <3> HIDE DEF z, lo, P, Q, Z, b, e, C, G, E, V, l2, N
    <3> QED
      BY <3>1, <3>2
  <2>2. d[j] \in 0..(W - 1) /\ d[j] \in Nat /\ d[j] < W
    BY <2>1, ByteAt, Zenon
  <2> HIDE DEF j1
  <2>3. d[j1] \in 0..(W - 1) /\ d[j1] \in Nat /\ d[j1] < W
    BY <2>1, ByteAt, Zenon
  <2> QED
    BY <2>2, <2>3 DEF j1
<1>6. P \in Nat \ {0} /\ Q \in Nat \ {0} /\ Z \in Nat \ {0} /\ W = P * Q /\ 2 ^ (z + 1) = 2 * Z
  <2>1. el \in 0..(2 * BB) /\ l \in 0..(2 * BB) /\ z \in 0..(2 * BB) /\ l \in 0..BB
    BY <1>1, <1>2
  <2>2. 2 ^ (el + l) = P * Q
    BY <2>1, SmallSums
  <2>3. P \in Nat \ {0}
    BY <2>1, SmallPowers
  <2>4. Q \in Nat \ {0}
    BY <2>1, SmallPowers
  <2>5. Z \in Nat \ {0} /\ 2 ^ (z + 1) = 2 * Z
    BY <2>1, SmallPowers
  <2>6. 2 ^ (el + l) = W
    BY <1>4, Zenon DEF W
  <2> QED
    BY <2>2, <2>3, <2>4, <2>5, <2>6
<1>7. C = lo + W * Z /\ C \in Nat /\ C < W * (2 * Z) /\ G \in Nat /\ E \in Nat /\ V \in Nat
  <2>1. C = lo + W * Z
    BY DEF Code
  <2>2. C \in Nat /\ C < W * 2 ^ (z + 1)
    BY CodeBelow
  <2>3. C < W * (2 * Z)
    BY <1>6, <2>2
  <2> HIDE DEF C, P, Z
  <2>4. G \in Nat
    BY <1>6
  <2> HIDE DEF G
  <2>5. V \in Nat /\ C * P \in Nat
    BY <1>6, <2>2, <2>4
  <2> QED
    BY <1>1, <2>1, <2>2, <2>3, <2>4, <2>5
<1>8. c + b * Q = C + W * G
  <2>1. Lowest(z, F) = Z + G
    BY <1>6 DEF Lowest
  <2>2. c + b * Q = W * (Z + G) + lo
    BY <1>3, <2>1
  <2> HIDE DEF Z, G, C, Q, b
  <2>3. W * (Z + G) = W * Z + W * G
    BY <1>2, <1>6, <1>7
  <2>4. W * Z \in Nat /\ W * G \in Nat
    <3>1. W \in Nat /\ Z \in Nat /\ G \in Nat
      BY <1>2, <1>6, <1>7
    <3> QED
      BY <3>1
  <2> DEFINE p == W * Z
             g == W * G
             q == b * Q
  <2>5. c + q = (p + g) + lo /\ C = lo + p /\ p \in Nat /\ g \in Nat /\ lo \in Nat
    BY <1>2, <1>7, <2>2, <2>3, <2>4, Zenon
  <2> HIDE DEF p, g, q
  <2>6. c + q = C + g
    BY <2>5
  <2> QED
    BY <2>6, Zenon DEF g, q
<1>9. N = P * (2 * Z) /\ N \in Nat
  <2>1. el \in 0..(2 * BB) /\ z + 1 \in 0..BB
    <3> HIDE DEF z, lo, P, Q, Z, b, e, C, G, E, V, l2, N
    <3>1. BB \in Nat /\ BB >= 2 /\ z \in 0..(BB - 2) /\ el \in 0..(BB - 1)
      BY <1>1, <1>2, Zenon
    <3> QED
      BY <3>1
  <2> DEFINE z1 == z + 1
  <2>2. 2 ^ (el + z1) = 2 ^ el * 2 ^ z1
    <3>1. z1 \in 0..BB
      BY <2>1
    <3> HIDE DEF z1
    <3> QED
      BY <2>1, <3>1, SmallSums
  <2>3. N = P * (2 * Z)
    BY <1>6, <2>2
  <2> HIDE DEF P, Z, N
  <2> QED
    BY <1>6, <2>3
<1> HIDE DEF z, lo, P, Q, Z, b, e, C
<1> HIDE DEF G, N
<1>10. E + W * V = e + W * b
  <2>1. c + b * Q = C + W * G <=> (a + C * P) + W * (P * G) = (a + P * c) + W * b
    <3>1. /\ P \in Nat \ {0} /\ Q \in Nat /\ a \in Nat /\ c \in Nat /\ b \in Nat /\ C \in Nat /\ G \in Nat
          /\ W = P * Q
      BY <1>1, <1>5, <1>6, <1>7
    <3> QED
      BY <3>1, Balance
  <2> QED
    BY <1>4, <1>8, <2>1, Zenon
<1>11. b - V \in Nat /\ E = W * (b - V) + e
  <2> HIDE DEF E, V
  <2> QED
    BY <1>5, <1>7, <1>10, Leaves
<1> DEFINE R == b - V
<1>12. E < W * N
  <2> DEFINE M == W * (2 * Z)
  <2>1. M \in Nat
    BY <1>2, <1>6
  <2>2. M * P = W * N
    BY <1>2, <1>6, <1>9
  <2> HIDE DEF M
  <2>3. a + C * P < M * P
    <3>1. C < M
      BY <1>7 DEF M
    <3> QED
      BY <1>1, <1>6, <1>7, <2>1, <3>1, DigitsBelow
  <2> QED
    BY <2>2, <2>3
<1>13. V = N * F
  <2>1. V = P * ((2 * Z) * F)
    BY DEF G
  <2>2. P * ((2 * Z) * F) = (P * (2 * Z)) * F
    BY <1>6
  <2> QED
    BY <1>9, <2>1, <2>2
<1> HIDE DEF E, V, R
<1>14. R \in Nat /\ R < N /\ b = R + N * F
  <2>1. R \in Nat /\ E = W * R + e
    BY <1>11 DEF R
  <2>2. R < N
    BY <1>5, <1>7, <1>9, <1>12, <2>1, QuotientBelow
  <2>3. b = R + V
    BY <1>5, <1>7 DEF R
  <2> QED
    BY <1>13, <2>1, <2>2, <2>3
<1>15. CodeLen(x) = BB + (z + 1)
  BY <1>2 DEF CodeLen, z
<1> HIDE DEF l2
<1>16. l2 = l - (z + 1)
  BY DEF l2
<1>17. CASE l2 # 0
  <2> DEFINE r == BB - l2
             o == Append(y, e)
  <2>1. r \in 0..(BB - 1) /\ r = el + (z + 1) /\ el + CodeLen(x) = BB + r
    BY <1>1, <1>2, <1>4, <1>15, <1>16, <1>17
  <2> HIDE DEF r
  <2>2. a + C * P = W * R + e
    BY <1>11 DEF E, R
  <2>3. Written(CompAppend(Pack(y, a, el), x, Len(d)), o, R, r, Len(d))
    <3>1. a + Code(x) * 2 ^ el = W * R + e
      BY <2>2 DEF C, P
    <3>2. Len(d) \in Nat
      OBVIOUS
    <3> QED
      BY <1>1, <1>5, <1>14, <2>1, <3>1, <3>2, AppendOne
  <2>4. o \in Seq(0..(W - 1)) /\ Len(o) = Len(y) + 1 /\ Begins(o, d)
    <3>1. Len(y) + 1 <= Len(d) /\ e = d[Len(y) + 1]
      BY <1>3, <1>4 DEF e
    <3> QED
      BY <1>1, <1>5, <3>1, BeginsOne
  <2> HIDE DEF o
  <2>5. CompAppend(Pack(y, a, el), x, Len(d)) = Pack(o, R, r)
    <3>1. ~(Len(o) > Len(d))
      BY <2>4 DEF Begins
    <3> QED
      BY <2>3, <3>1, Zenon DEF Written
  <2>6. N = 2 ^ r
    BY <2>1 DEF N
  <2>7. PackOK(o, R, r)
    BY <1>14, <2>1, <2>4, <2>6 DEF PackOK
  <2>8. ReadOK(F, l2, j + 1, d)
    BY <1>3, <1>4, <1>16 DEF ReadOK
  <2>9. r + l2 = BB /\ j + 1 = Len(o) + 1 /\ d[j + 1] = R + 2 ^ r * F
    <3>1. r + l2 = BB /\ j + 1 = Len(o) + 1
      BY <1>2, <1>4, <2>4 DEF r
    <3>2. d[j + 1] = R + 2 ^ r * F
      BY <1>14, <2>6 DEF b
    <3> QED
      BY <3>1, <3>2
  <2>10. Joint(o, R, r, F, l2, j + 1, d)
    BY <2>4, <2>7, <2>8, <2>9 DEF Joint
  <2> QED
    BY <2>5, <2>10, Zenon DEF l2, z
<1>18. CASE l2 = 0
  <2> DEFINE o == y \o <<e, b>>
  <2>1. F = 0 /\ R = b
    <3>1. F < 1
      BY <1>3, <1>18, PowerZero, Zenon DEF l2
    <3>2. N * 0 = 0 /\ F = 0
      BY <1>9, <3>1
    <3> QED
      BY <1>5, <1>14, <3>2
  <2>2. el + CodeLen(x) = BB + BB + 0 /\ 0 \in 0..(BB - 1)
    BY <1>1, <1>2, <1>4, <1>15, <1>16, <1>18
  <2>3. TwoDigits(a + Code(x) * 2 ^ el, 0, b, e)
    <3>1. a + C * P = W * b + e
      BY <1>11, <2>1 DEF E, R
    <3>2. W * (W * 0 + b) = W * b
      BY <1>2, <1>5
    <3> QED
      BY <3>1, <3>2, Zenon DEF TwoDigits, C, P
  <2>4. Written(CompAppend(Pack(y, a, el), x, Len(d)), o, 0, 0, Len(d))
    <3>1. Len(d) \in Nat
      OBVIOUS
    <3> QED
      BY <1>1, <1>5, <2>2, <2>3, <3>1, AppendTwo
  <2>5. o \in Seq(0..(W - 1)) /\ Len(o) = Len(y) + 2 /\ Begins(o, d)
    <3>1. Len(y) + 2 <= Len(d) /\ e = d[Len(y) + 1] /\ b = d[Len(y) + 2]
      <4>1. j + 1 = Len(y) + 2 /\ j + 1 <= Len(d)
        BY <1>1, <1>3, <1>4
      <4> QED
        BY <1>4, <4>1 DEF e, b
    <3> QED
      BY <1>1, <1>5, <3>1, BeginsTwo
  <2> HIDE DEF o
  <2>6. CompAppend(Pack(y, a, el), x, Len(d)) = Pack(o, 0, 0)
    <3>1. ~(Len(o) > Len(d))
      BY <2>5 DEF Begins
    <3> QED
      BY <2>4, <3>1, Zenon DEF Written
  <2>7. PackOK(o, 0, 0)
    BY <2>2, <2>5, Powers DEF PackOK
  <2>8. ReadOK(F, l2, j + 1, d)
    BY <1>3, <1>4, <1>16 DEF ReadOK
  <2>9. Joint(o, 0, 0, F, l2, j + 1, d)
    <3>1. Len(o) = j + 1
      BY <1>1, <1>4, <2>5
    <3> QED
      BY <1>18, <2>5, <2>7, <2>8, <3>1 DEF Joint
  <2> QED
    BY <2>6, <2>9, Zenon DEF l2, z
<1> QED
  BY <1>17, <1>18

\* A coefficient that goes on in the byte after the one that starts it.
LEMMA JointTwo ==
  ASSUME NEW y, NEW a, NEW el, NEW c, NEW l, NEW j, NEW d \in Seq(0..(W - 1)),
         Joint(y, a, el, c, l, j, d), NEW x \in Int, Abs(x) <= B_INF, NEW F \in Nat,
         NEW w \in Nat, High(x) = w + l, TwoBytes(c, l, j, d, LowPart(x), w, F)
  PROVE  \E y2, a2, el2 : /\ CompAppend(Pack(y, a, el), x, Len(d)) = Pack(y2, a2, el2)
                          /\ Joint(y2, a2, el2, F, BB - (w + 1), j + 2, d)
<1> DEFINE lo == LowPart(x)
           P == 2 ^ el
           Q == 2 ^ l
           Y == 2 ^ w
           b == d[j + 1]
           e == d[j]
           C == Code(x)
           r == w + 1
           l2 == BB - (w + 1)
<1>1. /\ a \in Nat /\ el \in 0..(BB - 1) /\ a < P /\ c \in Nat /\ l \in 0..(BB - 1) /\ c < Q
      /\ y \in Seq(0..(W - 1)) /\ Begins(y, d) /\ PackOK(y, a, el) /\ j \in Nat
      /\ Len(d) \in Nat /\ Len(y) \in Nat
  BY DEF Joint, PackOK, ReadOK
<1>2. /\ w + l \in 0..(BB - 2) /\ lo \in 0..(W - 1) /\ W \in Nat \ {0} /\ BB \in Nat /\ BB >= 2
      /\ lo \in Nat /\ lo < W
  <2>1. High(x) \in 0..(BB - 2) /\ lo \in 0..(W - 1)
    BY CodeParts
  <2> HIDE DEF lo
  <2> QED
    BY <2>1, ByteSizes
<1>3. j + 1 < Len(d) /\ F < 2 ^ l2 /\ c + b * Q = lo /\ d[j + 2] = Lowest(w, F)
  BY DEF TwoBytes
<1>4. r \in 0..(BB - 1) /\ l2 \in 0..(BB - 1) /\ w \in 0..(2 * BB) /\ r + l2 = BB /\ r # 0
  <2>1. w + l \in 0..(BB - 2) /\ l \in Nat
    BY <1>1, <1>2
  <2> QED
    BY <1>2, <2>1
<1>5. b \in Nat /\ b < W /\ b \in 0..(W - 1)
  <2> DEFINE j1 == j + 1
  <2>1. j1 \in 1..Len(d)
    BY <1>1, <1>3
  <2> HIDE DEF j1
  <2>2. d[j1] \in 0..(W - 1) /\ d[j1] \in Nat /\ d[j1] < W
    BY <2>1, ByteAt, Zenon
  <2> QED
    BY <2>2 DEF j1
<1>6. P \in Nat \ {0} /\ Q \in Nat \ {0} /\ Y \in Nat \ {0} /\ 2 ^ (w + 1) = 2 * Y /\ 2 ^ (w + l) = Y * Q
  <2>1. el \in 0..(2 * BB) /\ l \in 0..(2 * BB) /\ l \in 0..BB
    BY <1>1, <1>2
  <2>2. 2 ^ (w + l) = Y * Q
    BY <1>4, <2>1, SmallSums
  <2>3. P \in Nat \ {0}
    BY <2>1, SmallPowers
  <2>4. Q \in Nat \ {0}
    BY <2>1, SmallPowers
  <2>5. Y \in Nat \ {0} /\ 2 ^ (w + 1) = 2 * Y
    BY <1>4, SmallPowers
  <2> QED
    BY <2>2, <2>3, <2>4, <2>5
<1>7. C = lo + W * (Y * Q) /\ CodeLen(x) = BB + (w + l) + 1
  BY <1>6 DEF Code, CodeLen
<1>8. d[j + 2] = Y + 2 ^ r * F
  BY <1>3 DEF Lowest
<1>9. Y < 2 ^ r
  <2> HIDE DEF Y
  <2> QED
    BY <1>6
<1>10. ReadOK(F, l2, j + 2, d)
  <2> HIDE DEF b, Q, lo, e, C, P, Y
  <2>1. j + 2 \in 0..Len(d)
    BY <1>1, <1>3
  <2> HIDE DEF l2
  <2> QED
    BY <1>3, <1>4, <2>1 DEF ReadOK
<1>11. ASSUME NEW o, o \in Seq(0..(W - 1)), Begins(o, d), j + 1 = Len(o) PROVE Joint(o, Y, r, F, l2, j + 2, d)
  <2>1. PackOK(o, Y, r)
    <3> HIDE DEF r, Y
    <3> QED
      BY <1>4, <1>6, <1>9, <1>11 DEF PackOK
  <2>2. j + 2 = Len(o) + 1
    BY <1>1, <1>11
  <2> HIDE DEF r, Y, l2
  <2> QED
    BY <1>4, <1>8, <1>10, <1>11, <2>1, <2>2 DEF Joint
<1> HIDE DEF lo, P, Q, Y, b, e, C, l2
<1>12. CASE el = 0 /\ l = 0 /\ Len(y) = j
  <2> DEFINE o == Append(y, b)
  <2>1. P = 1 /\ Q = 1 /\ a = 0 /\ c = 0
    <3>1. P = 1 /\ Q = 1
      BY <1>12, Powers DEF P, Q
    <3> QED
      BY <1>1, <3>1
  <2>2. b = lo
    BY <1>2, <1>3, <1>5, <2>1
  <2>3. a + Code(x) * 2 ^ el = W * Y + b
    <3>1. C = lo + W * Y /\ W * Y \in Nat
      BY <1>2, <1>6, <1>7, <2>1
    <3>2. a + C * P = W * Y + b
      <4> DEFINE q == W * Y
      <4>1. C = lo + q /\ q \in Nat
        BY <3>1
      <4> HIDE DEF q
      <4>2. a + C * P = q + b
        BY <1>2, <2>1, <2>2, <4>1
      <4> QED
        BY <4>2 DEF q
    <3> QED
      BY <3>2 DEF C, P
  <2>4. el + CodeLen(x) = BB + r
    BY <1>2, <1>4, <1>7, <1>12
  <2>5. o \in Seq(0..(W - 1)) /\ Len(o) = Len(y) + 1 /\ Begins(o, d)
    <3>1. Len(y) + 1 <= Len(d) /\ b = d[Len(y) + 1]
      BY <1>1, <1>3, <1>12 DEF b
    <3> QED
      BY <1>1, <1>5, <3>1, BeginsOne
  <2> HIDE DEF r
  <2>6. Written(CompAppend(Pack(y, a, el), x, Len(d)), o, Y, r, Len(d))
    BY <1>1, <1>4, <1>5, <1>6, <2>3, <2>4, AppendOne
  <2> HIDE DEF o
  <2>7. CompAppend(Pack(y, a, el), x, Len(d)) = Pack(o, Y, r)
    <3>1. ~(Len(o) > Len(d))
      BY <2>5 DEF Begins
    <3> QED
      BY <2>6, <3>1, Zenon DEF Written
  <2>8. Joint(o, Y, r, F, l2, j + 2, d)
    <3>1. j + 1 = Len(o)
      BY <1>12, <2>5
    <3> QED
      BY <1>11, <2>5, <3>1
  <2> QED
    BY <2>7, <2>8, Zenon DEF l2
<1>13. CASE el + l = BB /\ j = Len(y) + 1 /\ d[j] = a + 2 ^ el * c
  <2> DEFINE o == y \o <<e, b>>
  <2>1. W = P * Q
    <3>1. el \in 0..(2 * BB) /\ l \in 0..BB
      BY <1>1, <1>2
    <3>2. 2 ^ (el + l) = 2 ^ el * 2 ^ l
      BY <3>1, SmallSums
    <3> QED
      BY <1>13, <3>2, Zenon DEF W, P, Q
  <2>2. e = a + P * c
    BY <1>13 DEF P, e
  <2>3. e \in 0..(W - 1) /\ e \in Nat /\ e < W
    <3>1. j \in 1..Len(d)
      <4>1. j = Len(y) + 1 /\ j + 1 < Len(d) /\ j \in Nat /\ Len(d) \in Nat /\ Len(y) \in Nat
        BY <1>1, <1>3, <1>13, Zenon
      <4> HIDE DEF o, lo, P, Q, Y, b, e, C, r, l2
      <4> QED
        BY <4>1
    <3> QED
      BY <3>1, ByteAt DEF e
  <2>4. a + lo * P = e + W * b
    <3>1. c + b * Q = lo + W * 0 <=> (a + lo * P) + W * (P * 0) = (a + P * c) + W * b
      BY <1>1, <1>2, <1>5, <1>6, <2>1, Balance
    <3>2. lo + W * 0 = lo /\ P * 0 = 0 /\ W * (P * 0) = 0
      BY <1>2, <1>6
    <3>3. lo * P \in Nat
      BY <1>2, <1>6
    <3>4. (a + lo * P) + 0 = a + lo * P
      <4> DEFINE q == lo * P
      <4> HIDE DEF q
      <4>1. q \in Nat => (a + q) + 0 = a + q
        BY <1>1
      <4> QED
        BY <3>3, <4>1 DEF q
    <3>5. (a + lo * P) + 0 = (a + P * c) + W * b
      BY <1>3, <3>1, <3>2, Zenon
    <3> QED
      BY <2>2, <3>4, <3>5, Zenon
  <2>5. TwoDigits(a + Code(x) * 2 ^ el, Y, b, e)
    <3> DEFINE v == W * (Y * Q)
    <3>1. v * P = W * (W * Y)
      <4>1. v * P = W * ((Y * Q) * P)
        BY <1>2, <1>6
      <4>2. (Y * Q) * P = (P * Q) * Y
        BY <1>6
      <4> QED
        BY <2>1, <4>1, <4>2
    <3>2. C * P = lo * P + v * P
      <4>1. v \in Nat
        BY <1>2, <1>6
      <4>2. C = lo + v
        BY <1>7
      <4> HIDE DEF v
      <4> QED
        BY <1>2, <1>6, <4>1, <4>2
    <3>3. W * (W * Y + b) = W * (W * Y) + W * b
      BY <1>2, <1>5, <1>6
    <3> DEFINE p1 == lo * P
               p2 == W * (W * Y)
               p3 == W * b
    <3>4. p1 \in Nat /\ p2 \in Nat /\ p3 \in Nat
      <4>1. W * Y \in Nat
        BY <1>2, <1>6
      <4> QED
        BY <1>2, <1>5, <1>6, <4>1
    <3>5. C * P = p1 + p2 /\ W * (W * Y + b) = p2 + p3 /\ a + p1 = e + p3
      BY <2>4, <3>1, <3>2, <3>3, Zenon
    <3> HIDE DEF p1, p2, p3
    <3>6. a + (p1 + p2) = (p2 + p3) + e
      BY <1>1, <2>3, <3>4, <3>5
    <3>7. a + C * P = W * (W * Y + b) + e
      BY <3>5, <3>6, Zenon
    <3> QED
      BY <3>7, Zenon DEF TwoDigits, C, P
  <2>6. el + CodeLen(x) = BB + BB + r
    <3>1. el \in Nat /\ l \in Nat
      BY <1>1
    <3> QED
      BY <1>2, <1>4, <1>7, <1>13, <3>1
  <2>7. o \in Seq(0..(W - 1)) /\ Len(o) = Len(y) + 2 /\ Begins(o, d)
    <3>1. Len(y) + 2 <= Len(d) /\ e = d[Len(y) + 1] /\ b = d[Len(y) + 2]
      <4>1. j + 1 = Len(y) + 2 /\ j + 1 <= Len(d)
        BY <1>1, <1>3, <1>13
      <4> QED
        BY <1>13, <4>1 DEF e, b
    <3> QED
      BY <1>1, <1>5, <2>3, <3>1, BeginsTwo
  <2> HIDE DEF r
  <2>8. Written(CompAppend(Pack(y, a, el), x, Len(d)), o, Y, r, Len(d))
    BY <1>1, <1>4, <1>5, <1>6, <2>3, <2>5, <2>6, AppendTwo
  <2> HIDE DEF o
  <2>9. CompAppend(Pack(y, a, el), x, Len(d)) = Pack(o, Y, r)
    <3>1. ~(Len(o) > Len(d))
      BY <2>7 DEF Begins
    <3> QED
      BY <2>8, <3>1, Zenon DEF Written
  <2>10. Joint(o, Y, r, F, l2, j + 2, d)
    <3>1. j + 1 = Len(o)
      BY <1>1, <1>13, <2>7
    <3> QED
      BY <1>11, <2>7, <3>1
  <2> QED
    BY <2>9, <2>10, Zenon DEF l2
<1> QED
  BY <1>12, <1>13 DEF Joint

-----------------------------------------------------------------------------
\* A bit more to the left.
LEMMA ShiftLowest ==
  ASSUME NEW w \in 0..(BB - 1), NEW l \in 0..(BB - 1), NEW F \in Nat
  PROVE  Lowest(w, F) * 2 ^ l = Lowest(w + l, F) /\ Lowest(w, F) \in Nat \ {0}
<1> DEFINE Y == 2 ^ w
           Q == 2 ^ l
           k == w + l
           K == 2 ^ k
<1>1. w \in 0..(2 * BB) /\ l \in 0..BB /\ l \in 0..(2 * BB) /\ k \in 0..(2 * BB)
  BY ByteSizes
<1>2. Y \in Nat \ {0} /\ 2 ^ (w + 1) = 2 * Y
  BY <1>1, SmallPowers
<1>3. Q \in Nat \ {0}
  BY <1>1, SmallPowers
<1>4. K = Y * Q
  BY <1>1, SmallSums
<1> HIDE DEF k
<1>5. 2 ^ (k + 1) = 2 * K
  BY <1>1, SmallPowers
<1>6. Lowest(w, F) = Y + (2 * Y) * F /\ Lowest(k, F) = K + (2 * K) * F
  BY <1>2, <1>5 DEF Lowest
<1> HIDE DEF Y, Q, K
<1>7. (Y + (2 * Y) * F) * Q = K + (2 * K) * F
  <2> DEFINE G == (2 * Y) * F
  <2>1. G \in Nat /\ (Y + G) * Q = Y * Q + G * Q
    BY <1>2, <1>3
  <2>2. G * Q = (2 * (Y * Q)) * F
    BY <1>2, <1>3
  <2> QED
    BY <1>4, <2>1, <2>2
<1>8. Y + (2 * Y) * F \in Nat \ {0}
  BY <1>2
<1> QED
  BY <1>6, <1>7, <1>8, Zenon DEF k, Q

\* What is above the lowest bit set is bounded with the number.
LEMMA AboveLowest ==
  ASSUME NEW k \in 0..BB, NEW z \in 0..(k - 1), NEW F \in Nat, Lowest(z, F) < 2 ^ k
  PROVE  F < 2 ^ (k - (z + 1))
<1> DEFINE Z == 2 ^ (z + 1)
           m == k - (z + 1)
           M == 2 ^ m
<1>1. z + 1 \in 0..(2 * BB) /\ z \in 0..(2 * BB) /\ m \in 0..BB /\ m \in 0..(2 * BB) /\ (z + 1) + m = k
  BY ByteSizes
<1>2. M \in Nat
  <2> HIDE DEF m
  <2> QED
    BY <1>1, SmallPowers
<1>3. Z \in Nat \ {0} /\ 2 ^ z \in Nat
  <2> DEFINE z1 == z + 1
  <2>1. z1 \in 0..(2 * BB)
    BY <1>1
  <2> HIDE DEF z1
  <2>2. 2 ^ z1 \in Nat \ {0}
    BY <2>1, SmallPowers
  <2>3. 2 ^ z \in Nat
    BY <1>1, SmallPowers
  <2> QED
    BY <2>2, <2>3 DEF z1
<1>4. 2 ^ k = Z * M
  <2> DEFINE z1 == z + 1
  <2>1. z1 \in 0..(2 * BB) /\ z1 + m = k
    BY <1>1
  <2> HIDE DEF z1, m
  <2>2. 2 ^ (z1 + m) = 2 ^ z1 * 2 ^ m
    BY <1>1, <2>1, SmallSums
  <2> QED
    BY <2>1, <2>2 DEF z1
<1>5. Z * F < Z * M
  <2> DEFINE u == 2 ^ z
             p == Z * F
  <2>1. u \in Nat /\ p \in Nat /\ u + p < Z * M
    BY <1>3, <1>4 DEF Lowest
  <2>2. Z * M \in Nat
    BY <1>2, <1>3
  <2> DEFINE q == Z * M
  <2> HIDE DEF u, p, q
  <2>3. p < q
    BY <2>1, <2>2 DEF q
  <2> QED
    BY <2>3 DEF p, q
<1> HIDE DEF Z, M
<1>6. ~(F >= M)
  <2> SUFFICES ASSUME F >= M PROVE FALSE
    OBVIOUS
  <2>1. Z * F >= Z * M
    BY <1>2, <1>3
  <2>2. Z * F \in Nat /\ Z * M \in Nat
    BY <1>2, <1>3
  <2> QED
    BY <1>5, <2>1, <2>2
<1> QED
  BY <1>2, <1>6 DEF M

\* comp_decode() reads a coefficient that ends in the byte that starts it.
LEMMA NextTakesOne ==
  ASSUME NEW s \in Seq(Int), NEW c, NEW l, NEW j, NEW d \in Seq(0..(W - 1)), ReadOK(c, l, j, d),
         NEW x \in Int, Abs(x) <= B_INF, NEW F \in Nat, OneByte(c, l, j, d, LowPart(x), High(x), F)
  PROVE  CompNext(Read(s, c, l, j), d) = Read(Append(s, x), F, l - (High(x) + 1), j + 1)
<1> DEFINE lo == LowPart(x)
           z == High(x)
<1>1. /\ c \in Nat /\ l \in 0..(BB - 1) /\ j \in Nat /\ j < Len(d)
      /\ c + d[j + 1] * 2 ^ l = W * Lowest(z, F) + lo
  BY DEF ReadOK, OneByte
<1>2. lo \in 0..(W - 1) /\ z \in 0..(2 * BB)
  <2>1. z \in 0..(BB - 2) /\ lo \in 0..(W - 1)
    BY CodeParts
  <2> HIDE DEF z, lo
  <2> QED
    BY <2>1, ByteSizes
<1>3. Value(lo, z) = x /\ ~(Magnitude(lo, z) > B_INF \/ MinusZero(lo, z))
  <2>1. Value(lo, z) = x /\ Magnitude(lo, z) = Abs(x) /\ ~MinusZero(lo, z)
    BY ValueOfParts
  <2>2. ~(Abs(x) > B_INF)
    BY CodeParts, ByteSizes
  <2> QED
    BY <2>1, <2>2, Zenon
<1> HIDE DEF lo, z
<1>4. Outcome(CompNext(Read(s, c, l, j), d), s, F, l - (z + 1), j + 1, lo, z)
  BY <1>1, <1>2, NextOne
<1> QED
  BY <1>3, <1>4, Zenon DEF Outcome, z

\* And one that goes on in the byte after it.
LEMMA NextTakesTwo ==
  ASSUME NEW s \in Seq(Int), NEW c, NEW l, NEW j, NEW d \in Seq(0..(W - 1)), ReadOK(c, l, j, d),
         NEW x \in Int, Abs(x) <= B_INF, NEW F \in Nat, NEW w \in Nat, High(x) = w + l,
         TwoBytes(c, l, j, d, LowPart(x), w, F)
  PROVE  CompNext(Read(s, c, l, j), d) = Read(Append(s, x), F, BB - (w + 1), j + 2)
<1> DEFINE lo == LowPart(x)
           z == High(x)
<1>1. /\ c \in Nat /\ l \in 0..(BB - 1) /\ j \in Nat /\ j + 1 < Len(d) /\ w < BB /\ Len(d) \in Nat
      /\ c + d[j + 1] * 2 ^ l = lo /\ d[j + 2] = Lowest(w, F)
  BY DEF ReadOK, TwoBytes
<1>2. lo \in 0..(W - 1) /\ z \in 0..(2 * BB) /\ w \in 0..(BB - 1) /\ BB \in Nat
  <2>1. z \in 0..(BB - 2) /\ lo \in 0..(W - 1)
    BY CodeParts
  <2>2. w \in 0..(BB - 1)
    BY <1>1, ByteSizes
  <2> HIDE DEF z, lo
  <2> QED
    BY <2>1, <2>2, ByteSizes
<1>3. Value(lo, z) = x /\ ~(Magnitude(lo, z) > B_INF \/ MinusZero(lo, z))
  <2>1. Value(lo, z) = x /\ Magnitude(lo, z) = Abs(x) /\ ~MinusZero(lo, z)
    BY ValueOfParts
  <2>2. ~(Abs(x) > B_INF)
    BY CodeParts, ByteSizes
  <2> QED
    BY <2>1, <2>2, Zenon
<1>4. z = w + l
  OBVIOUS
<1> HIDE DEF lo, z
<1>5. d[j + 2] # 0 /\ d[j + 2] * 2 ^ l = Lowest(z, F)
  BY <1>1, <1>2, <1>4, ShiftLowest
<1>6. Outcome(CompNext(Read(s, c, l, j), d), s, F, (l + BB) - (z + 1), j + 2, lo, z)
  BY <1>1, <1>2, <1>5, NextTwo
<1>7. (l + BB) - (z + 1) = BB - (w + 1)
  BY <1>1, <1>2, <1>4
<1> QED
  BY <1>3, <1>6, <1>7, Zenon DEF Outcome

\* What comp_decode() accepts is one of those two.
LEMMA NextSplits ==
  ASSUME NEW s \in Seq(Int), NEW c, NEW l, NEW j, NEW d \in Seq(0..(W - 1)), ReadOK(c, l, j, d),
         CompNext(Read(s, c, l, j), d).ok
  PROVE  \E x \in Int, F \in Nat :
            /\ Abs(x) <= B_INF
            /\ \/ OneByte(c, l, j, d, LowPart(x), High(x), F)
               \/ \E w \in Nat : High(x) = w + l /\ TwoBytes(c, l, j, d, LowPart(x), w, F)
<1> DEFINE t == Read(s, c, l, j)
           b == d[j + 1]
           Q == 2 ^ l
           A == c + b * Q
           lo == A % W
           v == A \div W
           nx == CompNext(t, d)
<1>1. c \in Nat /\ l \in 0..(BB - 1) /\ c < Q /\ j \in Nat /\ j <= Len(d) /\ Len(d) \in Nat
  BY DEF ReadOK
<1>2. t.ok /\ t.acc = c /\ t.acc_len = l /\ t.j = j /\ ~[t EXCEPT !.ok = FALSE].ok
  BY ReadFields
<1> HIDE DEF t
<1>3. j < Len(d)
  <2> SUFFICES ASSUME j >= Len(d) PROVE FALSE
    BY <1>1
  <2>1. CompNext(t, d) = [t EXCEPT !.ok = FALSE]
    BY <1>2, Zenon DEF CompNext
  <2> QED
    BY <1>2, <2>1, Zenon DEF t
<1>4. b \in Nat /\ b < W /\ W \in Nat \ {0} /\ H \in Nat \ {0} /\ W = 2 * H
  <2> DEFINE k == j + 1
  <2>1. k \in 1..Len(d)
    BY <1>1, <1>3
  <2> HIDE DEF k
  <2>2. d[k] \in Nat /\ d[k] < W
    BY <2>1, ByteAt, Zenon
  <2> QED
    BY <2>2, ByteSizes DEF k
<1>5. Q \in Nat \ {0}
  <2>1. l \in 0..(2 * BB)
    BY <1>1, ByteSizes
  <2> QED
    BY <2>1, SmallPowers
<1>6. A \in Nat /\ A < W * Q
  <2> HIDE DEF b, Q
  <2>1. c + b * Q < W * Q
    BY <1>1, <1>4, <1>5, DigitsBelow
  <2>2. b * Q \in Nat
    BY <1>4, <1>5
  <2> QED
    BY <1>1, <2>1, <2>2
<1>7. v \in Nat /\ lo \in Nat /\ lo < W /\ A = W * v + lo /\ lo \in 0..(W - 1)
  <2> HIDE DEF A
  <2>1. v \in Nat /\ lo \in Nat /\ lo < W /\ A = W * v + lo
    BY <1>4, <1>6, DivMod
  <2> HIDE DEF v, lo
  <2> QED
    BY <1>4, <2>1
<1>8. v < Q
  <2> HIDE DEF A, v, lo, Q
  <2> QED
    BY <1>4, <1>5, <1>6, <1>7, QuotientBelow
<1>9. l \in 0..BB /\ BB \in 1..16 /\ BB \in 0..BB /\ BB \in Nat /\ BB <= 8
  BY <1>1, ByteSizes
<1>10. nx.ok
  BY DEF t
<1>11. c + d[j + 1] * 2 ^ l = A
  OBVIOUS
<1> HIDE DEF b, A, v, lo, nx
<1>12. CASE v # 0
  <2>1. l # 0
    <3> SUFFICES ASSUME l = 0 PROVE FALSE
      OBVIOUS
    <3>1. Q = 1
      BY Powers
    <3> QED
      BY <1>7, <1>8, <1>12, <3>1
  <2>2. PICK z \in 0..(l - 1), F \in Nat : v = Lowest(z, F)
    <3>1. l \in 1..16 /\ v \in Nat \ {0} /\ v < 2 ^ l
      BY <1>1, <1>7, <1>8, <1>9, <1>12, <2>1
    <3> HIDE DEF Q
    <3> QED
      BY <3>1, LowestBit DEF Lowest
  <2>3. F < 2 ^ (l - (z + 1))
    BY <1>8, <1>9, <2>2, AboveLowest
  <2>4. z \in 0..(2 * BB) /\ z \in Nat /\ z < l
    BY <1>9
  <2>5. c + d[j + 1] * 2 ^ l = W * Lowest(z, F) + lo
    BY <1>7, <1>11, <2>2
  <2>6. Outcome(nx, s, F, l - (z + 1), j + 1, lo, z)
    <3> HIDE DEF Q
    <3> QED
      BY <1>1, <1>3, <1>7, <2>4, <2>5, NextOne DEF nx, t
  <2>7. ~(Magnitude(lo, z) > B_INF) /\ ~MinusZero(lo, z)
    BY <1>10, <2>6, Zenon DEF Outcome
  <2> DEFINE x == Value(lo, z)
  <2>8. x \in Int /\ Abs(x) = Magnitude(lo, z) /\ LowPart(x) = lo /\ High(x) = z
    BY <1>7, <2>4, <2>7, ValueParts
  <2>9. Abs(x) <= B_INF
    <3>1. Abs(x) \in Int
      BY <2>8 DEF Abs
    <3> QED
      BY <2>7, <2>8, <3>1, ByteSizes
  <2>10. OneByte(c, l, j, d, lo, z, F)
    BY <1>3, <2>3, <2>4, <2>5, Zenon DEF OneByte
  <2> HIDE DEF x
  <2>11. OneByte(c, l, j, d, LowPart(x), High(x), F)
    BY <2>8, <2>10, Zenon
  <2> QED
    BY <2>8, <2>9, <2>11
<1>13. CASE v = 0
  <2>1. A = lo /\ c + d[j + 1] * 2 ^ l = lo
    <3>1. A = lo
      BY <1>4, <1>7, <1>13
    <3> QED
      BY <1>11, <3>1, Zenon
  <2>2. j + 1 < Len(d) /\ d[j + 2] # 0
    <3> SUFFICES ASSUME j + 1 >= Len(d) \/ d[j + 2] = 0 PROVE FALSE
      BY <1>1
    <3>1. lo \div W = 0
      BY <1>13, <2>1, Zenon DEF v
    <3>2. ~(t.j >= Len(d))
      <4>1. ~(j >= Len(d))
        BY <1>1, <1>3
      <4> QED
        BY <1>2, <4>1, Zenon
    <3>3. lo = t.acc + d[t.j + 1] * 2 ^ t.acc_len
      BY <1>2, <2>1, Zenon
    <3>4. lo \div 2 ^ BB = 0
      BY <3>1, Zenon DEF W
    <3>5. CompNext(t, d) =
            LET acc1 == lo
                tt == acc1 % 2
                m == (acc1 \div 2) % 2 ^ LowBits
                acc2 == acc1 \div 2 ^ BB
            IN  IF acc2 # 0 THEN Take([t EXCEPT !.acc = acc2, !.j = @ + 1], tt, m)
                ELSE IF t.j + 1 >= Len(d) \/ d[t.j + 2] = 0 THEN [t EXCEPT !.ok = FALSE]
                ELSE Take([t EXCEPT !.acc = d[t.j + 2] * 2 ^ t.acc_len, !.acc_len = @ + BB, !.j = @ + 2],
                          tt, m)
      BY <1>2, <3>2, <3>3, Zenon DEF CompNext
    <3>6. t.j + 1 >= Len(d) \/ d[t.j + 2] = 0
      BY <1>2, Zenon
    <3>7. CompNext(t, d) = [t EXCEPT !.ok = FALSE]
      BY <3>4, <3>5, <3>6, Zenon
    <3> QED
      BY <1>2, <1>10, <3>7, Zenon DEF nx
  <2>3. d[j + 2] \in Nat \ {0} /\ d[j + 2] < 2 ^ BB
    <3> DEFINE k == j + 2
    <3>1. k \in 1..Len(d)
      BY <1>1, <2>2
    <3> HIDE DEF k
    <3>2. d[k] \in Nat /\ d[k] < W
      BY <3>1, ByteAt, Zenon
    <3> QED
      BY <2>2, <3>2 DEF k, W
  <2>4. PICK w \in 0..(BB - 1), F \in Nat : d[j + 2] = Lowest(w, F)
    <3> DEFINE k == BB
               b2 == d[j + 2]
    <3>1. k \in 1..16 /\ b2 \in Nat \ {0} /\ b2 < 2 ^ k
      BY <1>9, <2>3
    <3> HIDE DEF k, b2
    <3>2. \E w \in 0..(k - 1) : \E g \in Nat : b2 = 2 ^ w + 2 ^ (w + 1) * g
      BY <3>1, LowestBit
    <3> QED
      BY <3>2 DEF Lowest, k, b2
  <2>5. F < 2 ^ (BB - (w + 1))
    <3>1. Lowest(w, F) < 2 ^ BB
      BY <2>3, <2>4, Zenon
    <3> QED
      BY <1>9, <3>1, AboveLowest
  <2> DEFINE z == w + l
  <2>6. z \in 0..(2 * BB) /\ z \in Nat /\ w \in Nat /\ w < BB /\ z = w + l
    BY <1>1, <1>9
  <2>7. d[j + 2] * 2 ^ l = Lowest(z, F)
    BY <1>1, <2>4, ShiftLowest
  <2> HIDE DEF z, Q
  <2>8. Outcome(nx, s, F, (l + BB) - (z + 1), j + 2, lo, z)
    BY <1>1, <1>7, <2>1, <2>2, <2>6, <2>7, NextTwo DEF nx, t
  <2>9. ~(Magnitude(lo, z) > B_INF) /\ ~MinusZero(lo, z)
    BY <1>10, <2>8, Zenon DEF Outcome
  <2> DEFINE x == Value(lo, z)
  <2>10. x \in Int /\ Abs(x) = Magnitude(lo, z) /\ LowPart(x) = lo /\ High(x) = z
    BY <1>7, <2>6, <2>9, ValueParts
  <2>11. Abs(x) <= B_INF
    <3>1. Abs(x) \in Int
      BY <2>10 DEF Abs
    <3> QED
      BY <2>9, <2>10, <3>1, ByteSizes
  <2>12. TwoBytes(c, l, j, d, lo, w, F)
    BY <2>1, <2>2, <2>4, <2>5, <2>6, Zenon DEF TwoBytes
  <2> HIDE DEF x
  <2>13. TwoBytes(c, l, j, d, LowPart(x), w, F) /\ High(x) = w + l
    BY <2>6, <2>10, <2>12, Zenon
  <2> QED
    BY <2>6, <2>10, <2>11, <2>13
<1> QED
  BY <1>12, <1>13

-----------------------------------------------------------------------------
\* One byte is complete, or two are: out is what is then written, R the r bits left.
OneDone(y, a, l, x, b, R, r, out) ==
    /\ out = Append(y, b) /\ l + CodeLen(x) = BB + r /\ a + Code(x) * 2 ^ l = W * R + b
TwoDone(y, a, l, x, b, c, R, r, out) ==
    /\ out = y \o <<b, c>> /\ l + CodeLen(x) = BB + BB + r /\ TwoDigits(a + Code(x) * 2 ^ l, R, c, b)
\* One of the two, R having r bits.
Done1or2(y, a, l, x, R, r, out) ==
    /\ R \in Nat /\ r \in 0..(BB - 1) /\ R < 2 ^ r
    /\ \E b \in 0..(W - 1) :
          \/ OneDone(y, a, l, x, b, R, r, out)
          \/ \E c \in 0..(W - 1) : TwoDone(y, a, l, x, b, c, R, r, out)

\* Every append of a coefficient within the bound completes one byte or two.
LEMMA AppendWrites ==
  ASSUME NEW y, NEW a, NEW l, PackOK(y, a, l), NEW x \in Int, Abs(x) <= B_INF, NEW dlen \in Nat
  PROVE  \E R, r, out : /\ Done1or2(y, a, l, x, R, r, out)
                        /\ Written(CompAppend(Pack(y, a, l), x, dlen), out, R, r, dlen)
<1> DEFINE h == High(x)
           C == Code(x)
           P == 2 ^ l
           n == l + (h + 1)
           N == 2 ^ n
           E == a + C * P
           Z1 == 2 ^ (h + 1)
           b == E % W
           v == E \div W
           ca == CompAppend(Pack(y, a, l), x, dlen)
<1>1. a \in Nat /\ l \in 0..(BB - 1) /\ a < P /\ y \in Seq(0..(W - 1))
  BY DEF PackOK
<1>2. h \in 0..(BB - 2) /\ W \in Nat \ {0} /\ BB \in Nat /\ BB >= 2
  BY CodeParts, ByteSizes
<1>3. C \in Nat /\ C < W * Z1
  BY CodeBelow
<1>4. l + CodeLen(x) = BB + n /\ n \in Nat /\ n \in 0..(2 * BB) /\ n < BB + BB
  <2>1. CodeLen(x) = BB + h + 1
    BY DEF CodeLen
  <2> HIDE DEF h
  <2> QED
    BY <1>1, <1>2, <2>1
<1>5. N = P * Z1 /\ P \in Nat \ {0} /\ Z1 \in Nat \ {0} /\ N \in Nat
  <2> DEFINE h1 == h + 1
  <2>1. l \in 0..(2 * BB) /\ h1 \in 0..BB /\ h1 \in 0..(2 * BB)
    BY <1>1, <1>2
  <2> HIDE DEF h1
  <2>2. 2 ^ (l + h1) = 2 ^ l * 2 ^ h1
    BY <2>1, SmallSums
  <2>3. 2 ^ l \in Nat \ {0}
    BY <2>1, SmallPowers
  <2>4. 2 ^ h1 \in Nat \ {0}
    BY <2>1, SmallPowers
  <2> DEFINE p == 2 ^ l
             q == 2 ^ h1
  <2>5. p * q \in Nat
    <3> HIDE DEF p, q
    <3>1. p \in Nat /\ q \in Nat
      BY <2>3, <2>4 DEF p, q
    <3> QED
      BY <3>1
  <2> QED
    BY <2>2, <2>3, <2>4, <2>5 DEF h1
<1> HIDE DEF h, C, P, N, Z1, n
<1>6. E \in Nat /\ E < W * N
  <2> DEFINE M == W * Z1
  <2>1. M \in Nat /\ C < M
    BY <1>2, <1>3, <1>5
  <2>2. M * P = W * N
    BY <1>2, <1>5
  <2> HIDE DEF M
  <2>3. a + C * P < M * P
    BY <1>1, <1>3, <1>5, <2>1, DigitsBelow
  <2>4. C * P \in Nat
    BY <1>3, <1>5
  <2> QED
    BY <1>1, <2>2, <2>3, <2>4
<1>7. v \in Nat /\ b \in Nat /\ b < W /\ E = W * v + b /\ b \in 0..(W - 1)
  <2> HIDE DEF E
  <2>1. v \in Nat /\ b \in Nat /\ b < W /\ E = W * v + b
    BY <1>2, <1>6, DivMod
  <2> HIDE DEF v, b
  <2> QED
    BY <1>2, <2>1
<1>8. v < N
  <2> HIDE DEF E, v, b
  <2> QED
    BY <1>5, <1>6, <1>7, QuotientBelow
<1>9. a + Code(x) * 2 ^ l = E
  BY DEF C, P
<1> HIDE DEF E, v, b, ca
<1>10. CASE n < BB
  <2> DEFINE o == Append(y, b)
  <2>1. n \in 0..(BB - 1)
    BY <1>2, <1>4, <1>10
  <2>2. a + Code(x) * 2 ^ l = W * v + b
    BY <1>7, <1>9, Zenon
  <2>3. Written(ca, o, v, n, dlen)
    BY <1>4, <1>7, <2>1, <2>2, AppendOne DEF ca
  <2>4. OneDone(y, a, l, x, b, v, n, o)
    BY <1>4, <2>2, Zenon DEF OneDone
  <2> HIDE DEF o
  <2>5. v < 2 ^ n
    BY <1>8, Zenon DEF N
  <2>6. Done1or2(y, a, l, x, v, n, o)
    BY <1>7, <2>1, <2>4, <2>5, Zenon DEF Done1or2
  <2> QED
    BY <2>3, <2>6, Zenon DEF ca
<1>11. CASE n >= BB
  <2> DEFINE r == n - BB
             c == v % W
             R == v \div W
             o == y \o <<b, c>>
  <2>1. r \in 0..(BB - 1) /\ n = r + BB /\ l + CodeLen(x) = BB + BB + r
    BY <1>2, <1>4, <1>11
  <2>2. R \in Nat /\ c \in Nat /\ c < W /\ v = W * R + c
    BY <1>2, <1>7, DivMod
  <2> HIDE DEF r, c, R
  <2>3. c \in 0..(W - 1)
    BY <1>2, <2>2
  <2>4. 2 ^ r \in Nat /\ N = W * 2 ^ r
    <3>1. r \in 0..(2 * BB) /\ BB \in 0..BB
      BY <1>2, <2>1
    <3>2. 2 ^ (r + BB) = 2 ^ r * 2 ^ BB
      BY <3>1, SmallSums
    <3>3. 2 ^ r \in Nat
      BY <3>1, SmallPowers
    <3>4. N = 2 ^ r * W
      BY <2>1, <3>2, Zenon DEF N, W
    <3> DEFINE q == 2 ^ r
    <3>5. q \in Nat /\ N = q * W
      BY <3>3, <3>4
    <3> HIDE DEF q
    <3>6. N = W * q
      BY <1>2, <3>5
    <3> QED
      BY <3>5, <3>6 DEF q
  <2>5. R < 2 ^ r
    <3> DEFINE q == 2 ^ r
    <3>1. q \in Nat /\ v < W * q
      BY <1>8, <2>4
    <3> HIDE DEF q
    <3>2. R < q
      BY <1>7, <2>2, <3>1, QuotientBelow
    <3> QED
      BY <3>2 DEF q
  <2>6. TwoDigits(a + Code(x) * 2 ^ l, R, c, b)
    BY <1>7, <1>9, <2>2, Zenon DEF TwoDigits
  <2>7. Written(ca, o, R, r, dlen)
    BY <1>7, <2>1, <2>2, <2>3, <2>6, AppendTwo DEF ca
  <2>8. TwoDone(y, a, l, x, b, c, R, r, o)
    BY <2>1, <2>6, Zenon DEF TwoDone
  <2> HIDE DEF o
  <2>9. Done1or2(y, a, l, x, R, r, o)
    BY <1>7, <2>1, <2>2, <2>3, <2>5, <2>8, Zenon DEF Done1or2
  <2> QED
    BY <2>7, <2>9, Zenon DEF ca
<1> QED
  BY <1>2, <1>4, <1>10, <1>11

\* An append that succeeds.
LEMMA AppendIs ==
  ASSUME NEW y, NEW a, NEW l, PackOK(y, a, l), NEW x \in Int, Abs(x) <= B_INF, NEW dlen \in Nat,
         NEW y2, NEW a2, NEW l2, CompAppend(Pack(y, a, l), x, dlen) = Pack(y2, a2, l2)
  PROVE  Done1or2(y, a, l, x, a2, l2, y2) /\ Len(y2) <= dlen
<1>1. PICK R, r, out : /\ Done1or2(y, a, l, x, R, r, out)
                       /\ Written(CompAppend(Pack(y, a, l), x, dlen), out, R, r, dlen)
  BY AppendWrites
<1>2. Written(Pack(y2, a2, l2), out, R, r, dlen)
  BY <1>1, Zenon
<1>3. Pack(y2, a2, l2).ok
  BY PackFields
<1>4. ~(Len(out) > dlen) /\ Pack(y2, a2, l2) = Pack(out, R, r)
  BY <1>2, <1>3, Zenon DEF Written
<1>5. y2 = out /\ a2 = R /\ l2 = r
  <2>1. Pack(y2, a2, l2).d = y2 /\ Pack(y2, a2, l2).acc = a2 /\ Pack(y2, a2, l2).acc_len = l2
    BY PackFields
  <2>2. Pack(out, R, r).d = out /\ Pack(out, R, r).acc = R /\ Pack(out, R, r).acc_len = r
    BY PackFields
  <2> QED
    BY <1>4, <2>1, <2>2, Zenon
<1>6. Len(out) \in Nat
  <2> DEFINE S == 0..(W - 1)
  <2>1. y \in Seq(S)
    BY DEF PackOK
  <2>2. PICK b \in S : out = Append(y, b) \/ \E c \in S : out = y \o <<b, c>>
    BY <1>1, Zenon DEF Done1or2, OneDone, TwoDone
  <2> HIDE DEF S
  <2>3. CASE out = Append(y, b)
    BY <2>1, <2>3
  <2>4. CASE \E c \in S : out = y \o <<b, c>>
    <3>1. PICK c \in S : out = y \o <<b, c>>
      BY <2>4
    <3>2. <<b, c>> \in Seq(S)
      OBVIOUS
    <3> DEFINE u == <<b, c>>
    <3>3. u \in Seq(S) /\ out = y \o u
      BY <3>1, <3>2
    <3> HIDE DEF u
    <3> QED
      BY <2>1, <3>3
  <2> QED
    BY <2>2, <2>3, <2>4
<1> QED
  BY <1>1, <1>4, <1>5, <1>6

-----------------------------------------------------------------------------
\* The bytes of d start with those written, and go on with the bits of the accumulator.
Ahead(y, a, l, d) ==
    /\ Begins(y, d)
    /\ l > 0 => Len(y) < Len(d) /\ \E F \in Nat : d[Len(y) + 1] = a + 2 ^ l * F

\* A byte written once an append is done, and what is above it.
LEMMA FirstByte ==
  ASSUME NEW y, NEW a, NEW l, PackOK(y, a, l), NEW x, NEW R, NEW r, NEW out,
         Done1or2(y, a, l, x, R, r, out)
  PROVE  \E b \in 0..(W - 1), V \in Nat :
            /\ a + Code(x) * 2 ^ l = W * V + b /\ Len(out) >= Len(y) + 1 /\ Len(out) \in Nat
            /\ out[Len(y) + 1] = b /\ \A k \in 1..Len(y) : out[k] = y[k]
<1> DEFINE S == 0..(W - 1)
<1>1. y \in Seq(S) /\ Len(y) \in Nat
  BY DEF PackOK
<1>2. PICK b \in S : OneDone(y, a, l, x, b, R, r, out) \/ \E c \in S : TwoDone(y, a, l, x, b, c, R, r, out)
  BY Zenon DEF Done1or2
<1>3. R \in Nat
  BY DEF Done1or2
<1> HIDE DEF S
<1>4. CASE OneDone(y, a, l, x, b, R, r, out)
  <2>1. out = Append(y, b) /\ a + Code(x) * 2 ^ l = W * R + b
    BY <1>4, Zenon DEF OneDone
  <2>2. Len(out) = Len(y) + 1 /\ out[Len(y) + 1] = b /\ \A k \in 1..Len(y) : out[k] = y[k]
    BY <1>1, <2>1
  <2>3. Len(out) >= Len(y) + 1 /\ Len(out) \in Nat
    BY <1>1, <2>2
  <2> QED
    BY <1>3, <2>1, <2>2, <2>3, Zenon DEF S
<1>5. CASE \E c \in S : TwoDone(y, a, l, x, b, c, R, r, out)
  <2>1. PICK c \in S : TwoDone(y, a, l, x, b, c, R, r, out)
    BY <1>5, Zenon
  <2> DEFINE u == <<b, c>>
             V == W * R + c
  <2>2. u \in Seq(S) /\ Len(u) = 2 /\ u[1] = b
    OBVIOUS
  <2>3. out = y \o u /\ a + Code(x) * 2 ^ l = W * V + b
    BY <2>1, Zenon DEF TwoDone, TwoDigits
  <2>4. V \in Nat
    <3>1. c \in Nat /\ W \in Nat
      BY ByteSizes DEF S
    <3>2. W * R \in Nat
      BY <1>3, <3>1
    <3> QED
      BY <3>1, <3>2
  <2> HIDE DEF u, V
  <2>5. Len(out) = Len(y) + 2 /\ out[Len(y) + 1] = b /\ \A k \in 1..Len(y) : out[k] = y[k]
    <3> DEFINE o == y \o <<b, c>>
    <3>1. Len(o) = Len(y) + 2
      BY <1>1
    <3>2. o[Len(y) + 1] = b
      BY <1>1
    <3>3. \A k \in 1..Len(y) : o[k] = y[k]
      BY <1>1
    <3> QED
      BY <2>3, <3>1, <3>2, <3>3, Zenon DEF u
  <2>6. Len(out) >= Len(y) + 1 /\ Len(out) \in Nat
    BY <1>1, <2>5
  <2> QED
    BY <2>3, <2>4, <2>5, <2>6, Zenon DEF S
<1> QED
  BY <1>2, <1>4, <1>5

\* What is above the accumulator is less than the rest of the byte.
LEMMA AheadRest ==
  ASSUME NEW y, NEW a, NEW l, NEW d \in Seq(0..(W - 1)), a \in Nat, y \in Seq(0..(W - 1)),
         l \in 0..(BB - 1), l > 0, Ahead(y, a, l, d)
  PROVE  /\ Len(y) < Len(d)
         /\ \E F \in Nat : F < 2 ^ (BB - l) /\ d[Len(y) + 1] = a + 2 ^ l * F
<1>1. PICK F \in Nat : d[Len(y) + 1] = a + 2 ^ l * F
  BY DEF Ahead
<1> DEFINE P == 2 ^ l
           m == BB - l
           M == 2 ^ m
           k == Len(y) + 1
<1>2. Len(y) < Len(d) /\ k \in 1..Len(d)
  BY DEF Ahead
<1> HIDE DEF k
<1>3. d[k] \in Nat /\ d[k] < W
  BY <1>2, ByteAt, Zenon
<1>4. P \in Nat \ {0} /\ M \in Nat /\ W = P * M
  <2>1. l \in 0..(2 * BB) /\ m \in 0..BB /\ m \in 0..(2 * BB) /\ l + m = BB
    BY ByteSizes
  <2> HIDE DEF m
  <2>2. 2 ^ (l + m) = 2 ^ l * 2 ^ m
    BY <2>1, SmallSums
  <2>3. 2 ^ l \in Nat \ {0}
    BY <2>1, SmallPowers
  <2>4. 2 ^ m \in Nat
    BY <2>1, SmallPowers
  <2> QED
    BY <2>1, <2>2, <2>3, <2>4, Zenon DEF W
<1>5. d[k] = a + P * F
  BY <1>1 DEF k
<1> HIDE DEF P, M
<1>6. ~(F >= M)
  <2> SUFFICES ASSUME F >= M PROVE FALSE
    OBVIOUS
  <2>1. P * F >= P * M
    BY <1>4
  <2> DEFINE p == P * F
  <2>2. p \in Nat /\ a \in Nat /\ W \in Nat
    BY <1>4
  <2>3. p >= W /\ d[k] = a + p /\ d[k] < W
    BY <1>3, <1>4, <1>5, <2>1, Zenon
  <2> HIDE DEF p
  <2> QED
    BY <2>2, <2>3
<1>7. F < M
  BY <1>4, <1>6
<1> QED
  BY <1>1, <1>2, <1>7 DEF M

\* It was so before the append too.
LEMMA AheadBack ==
  ASSUME NEW y, NEW a, NEW l, PackOK(y, a, l), NEW x \in Int, Abs(x) <= B_INF,
         NEW R, NEW r, NEW out, Done1or2(y, a, l, x, R, r, out),
         NEW d \in Seq(0..(W - 1)), Begins(out, d)
  PROVE  Ahead(y, a, l, d)
<1> DEFINE P == 2 ^ l
           m == BB - l
           M == 2 ^ m
           C == Code(x)
<1>1. PICK b \in 0..(W - 1), V \in Nat :
            /\ a + C * P = W * V + b /\ Len(out) >= Len(y) + 1 /\ Len(out) \in Nat
            /\ out[Len(y) + 1] = b /\ \A k \in 1..Len(y) : out[k] = y[k]
  BY FirstByte
<1>2. a \in Nat /\ l \in 0..(BB - 1) /\ a < P /\ Len(y) \in Nat /\ Len(d) \in Nat
  BY DEF PackOK
<1>3. Len(y) < Len(d) /\ d[Len(y) + 1] = b /\ Begins(y, d)
  BY <1>1, <1>2 DEF Begins
<1>4. P \in Nat \ {0} /\ M \in Nat /\ W = P * M /\ C \in Nat /\ b \in Nat
  <2>1. l \in 0..(2 * BB) /\ m \in 0..BB /\ m \in 0..(2 * BB) /\ l + m = BB
    BY <1>2, ByteSizes
  <2> HIDE DEF m
  <2>2. 2 ^ (l + m) = 2 ^ l * 2 ^ m
    BY <2>1, SmallSums
  <2>3. 2 ^ l \in Nat \ {0}
    BY <2>1, SmallPowers
  <2>4. 2 ^ m \in Nat
    BY <2>1, SmallPowers
  <2>5. W = P * M
    BY <2>1, <2>2, Zenon DEF W
  <2>6. C \in Nat
    BY CodeBelow
  <2>7. b \in Nat
    BY ByteSizes
  <2> QED
    BY <2>3, <2>4, <2>5, <2>6, <2>7
<1> HIDE DEF P, M, C
<1> DEFINE MV == M * V
           F == C - MV
           cp == C * P
           pmv == P * MV
<1>5. MV \in Nat /\ F \in Int /\ cp \in Nat /\ pmv \in Nat /\ P * F = cp - pmv /\ W * V = pmv
  <2>1. MV \in Nat
    BY <1>4
  <2>2. W * V = pmv
    BY <1>4
  <2> HIDE DEF MV
  <2> QED
    BY <1>4, <2>1, <2>2
<1>6. b = a + P * F
  <2>1. a + cp = W * V + b
    BY <1>1
  <2> HIDE DEF cp, pmv, F
  <2> QED
    BY <1>2, <1>4, <1>5, <2>1
<1>7. F >= 0
  <2> SUFFICES ASSUME F <= -1 PROVE FALSE
    BY <1>5
  <2> HIDE DEF F
  <2>1. P * F <= P * (-1)
    BY <1>4, <1>5
  <2>2. P * (-1) = -P /\ P * F \in Int
    BY <1>4, <1>5
  <2> QED
    BY <1>2, <1>4, <1>6, <2>1, <2>2
<1>8. F \in Nat /\ d[Len(y) + 1] = a + 2 ^ l * F
  <2>1. F \in Nat
    BY <1>5, <1>7
  <2> QED
    BY <1>3, <1>6, <2>1, Zenon DEF P
<1> QED
  BY <1>3, <1>8, Zenon DEF Ahead

\* Where both are at the same bit of d, and d goes on with what comp_encode() writes of x,
\* comp_decode() finds x.
LEMMA AppendSplits ==
  ASSUME NEW y, NEW a, NEW el, NEW c, NEW l, NEW j, NEW d \in Seq(0..(W - 1)),
         Joint(y, a, el, c, l, j, d), NEW x \in Int, Abs(x) <= B_INF,
         NEW R, NEW r, NEW out, Done1or2(y, a, el, x, R, r, out), Ahead(out, R, r, d)
  PROVE  \E F \in Nat :
            \/ OneByte(c, l, j, d, LowPart(x), High(x), F)
            \/ \E w \in Nat : High(x) = w + l /\ TwoBytes(c, l, j, d, LowPart(x), w, F)
<1> DEFINE z == High(x)
           lo == LowPart(x)
           P == 2 ^ el
           Q == 2 ^ l
           Z == 2 ^ z
           C == Code(x)
           S == 0..(W - 1)
<1>1. /\ a \in Nat /\ el \in 0..(BB - 1) /\ a < P /\ c \in Nat /\ l \in 0..(BB - 1) /\ c < Q
      /\ y \in Seq(S) /\ j \in Nat /\ Len(y) \in Nat /\ Len(d) \in Nat /\ d \in Seq(S)
  BY DEF Joint, PackOK, ReadOK
<1>2. /\ z \in 0..(BB - 2) /\ W \in Nat \ {0} /\ BB \in Nat /\ BB >= 2 /\ lo \in Nat /\ lo < W
  <2>1. z \in 0..(BB - 2) /\ lo \in S
    BY CodeParts
  <2> HIDE DEF z, lo
  <2> QED
    BY <2>1, ByteSizes
<1>3. CodeLen(x) = BB + (z + 1)
  BY <1>2 DEF CodeLen, z
<1>4. R \in Nat /\ r \in 0..(BB - 1) /\ R < 2 ^ r
  BY DEF Done1or2
<1>5. PICK b \in S : OneDone(y, a, el, x, b, R, r, out) \/ \E b2 \in S : TwoDone(y, a, el, x, b, b2, R, r, out)
  BY Zenon DEF Done1or2
<1>6. P \in Nat \ {0} /\ Q \in Nat \ {0} /\ Z \in Nat \ {0} /\ 2 ^ (z + 1) = 2 * Z
  <2>1. el \in 0..(2 * BB) /\ l \in 0..(2 * BB) /\ z \in 0..(2 * BB)
    BY <1>1, <1>2
  <2>2. P \in Nat \ {0}
    BY <2>1, SmallPowers
  <2>3. Q \in Nat \ {0}
    BY <2>1, SmallPowers
  <2>4. Z \in Nat \ {0} /\ 2 ^ (z + 1) = 2 * Z
    BY <2>1, SmallPowers
  <2> QED
    BY <2>2, <2>3, <2>4
<1>7. C = lo + W * Z /\ C \in Nat
  BY CodeBelow DEF Code
<1>8. \A F : Lowest(z, F) = Z + (2 * Z) * F
  BY <1>6 DEF Lowest
<1>9. b \in Nat /\ b < W
  BY <1>2
<1>10. r > 0 /\ out \in Seq(S) => /\ Len(out) < Len(d)
                /\ \E F \in Nat : F < 2 ^ (BB - r) /\ d[Len(out) + 1] = R + 2 ^ r * F
  <2> SUFFICES ASSUME r > 0, out \in Seq(0..(W - 1))
               PROVE  /\ Len(out) < Len(d)
                      /\ \E F \in Nat : F < 2 ^ (BB - r) /\ d[Len(out) + 1] = R + 2 ^ r * F
    BY DEF S
  <2>1. R \in Nat /\ r \in 0..(BB - 1) /\ Ahead(out, R, r, d)
    BY <1>4
  <2> HIDE DEF z, lo, P, Q, Z, C, S
  <2>2. Len(out) < Len(d)
    BY <2>1, AheadRest
  <2>3. \E F \in Nat : F < 2 ^ (BB - r) /\ d[Len(out) + 1] = R + 2 ^ r * F
    BY <2>1, AheadRest
  <2> QED
    BY <2>2, <2>3
<1>11. Begins(out, d)
  BY DEF Ahead
<1>12. a + Code(x) * 2 ^ el = a + C * P
  OBVIOUS
<1> HIDE DEF z, lo, P, Q, Z, C, S
<1>13. CASE OneDone(y, a, el, x, b, R, r, out)
  <2>1. out = Append(y, b) /\ el + CodeLen(x) = BB + r /\ a + C * P = W * R + b
    BY <1>12, <1>13, Zenon DEF OneDone
  <2>2. out \in Seq(S) /\ Len(out) = Len(y) + 1 /\ out[Len(y) + 1] = b
    BY <1>1, <2>1
  <2>3. r = el + (z + 1) /\ r > 0
    BY <1>1, <1>2, <1>3, <1>4, <2>1
  <2>4. PICK F \in Nat : F < 2 ^ (BB - r) /\ d[Len(out) + 1] = R + 2 ^ r * F
    BY <1>10, <2>2, <2>3
  <2>5. Len(y) + 2 <= Len(d) /\ d[Len(y) + 1] = b /\ d[Len(y) + 2] = R + 2 ^ r * F
    <3>1. Len(out) < Len(d)
      BY <1>10, <2>2, <2>3
    <3>2. d[Len(y) + 1] = b
      BY <1>1, <1>11, <2>2 DEF Begins
    <3>3. Len(out) + 1 = Len(y) + 2
      BY <1>1, <2>2
    <3>4. Len(y) + 2 <= Len(d)
      BY <1>1, <3>1, <3>3
    <3>5. d[Len(y) + 2] = R + 2 ^ r * F
      BY <2>4, <3>3, Zenon
    <3> QED
      BY <3>2, <3>4, <3>5, Zenon
  <2>6. CASE el = 0 /\ l = 0 /\ Len(y) = j
    <3>1. P = 1 /\ Q = 1 /\ a = 0 /\ c = 0
      <4>1. P = 1 /\ Q = 1
        BY <2>6, Powers DEF P, Q
      <4> QED
        BY <1>1, <4>1
    <3>2. C = W * R + b
      <4> HIDE DEF C
      <4>1. a + C * P = C
        BY <1>7, <3>1
      <4> QED
        BY <2>1, <4>1, Zenon
    <3>3. b = lo /\ R = Z
      <4>1. C = W * Z + lo
        <5> DEFINE q == W * Z
        <5>1. q \in Nat /\ C = lo + q
          BY <1>2, <1>6, <1>7
        <5> HIDE DEF q
        <5>2. C = q + lo
          BY <1>2, <5>1
        <5> QED
          BY <5>2 DEF q
      <4>2. C \div W = R /\ C % W = b
        BY <1>2, <1>4, <1>7, <1>9, <3>2, DivIs
      <4>3. C \div W = Z /\ C % W = lo
        BY <1>2, <1>6, <1>7, <4>1, DivIs
      <4> QED
        BY <4>2, <4>3
    <3>4. r = z + 1 /\ z \in Nat /\ z < BB /\ z = z + l
      BY <1>2, <2>3, <2>6
    <3>5. d[j + 2] = Lowest(z, F)
      <4>1. 2 ^ r = 2 * Z
        BY <1>6, <3>4
      <4>2. d[j + 2] = R + 2 ^ r * F
        BY <2>5, <2>6
      <4> QED
        BY <1>8, <3>3, <4>1, <4>2, Zenon
    <3>6. c + d[j + 1] * 2 ^ l = lo
      <4>1. d[j + 1] = lo
        BY <2>5, <2>6, <3>3
      <4>2. 0 + lo * 1 = lo
        BY <1>2
      <4> QED
        BY <3>1, <4>1, <4>2, Zenon DEF Q
    <3>7. j + 1 < Len(d)
      BY <1>1, <2>5, <2>6
    <3>8. TwoBytes(c, l, j, d, lo, z, F)
      BY <2>4, <3>4, <3>5, <3>6, <3>7 DEF TwoBytes
    <3> QED
      BY <3>4, <3>8, Zenon DEF lo, z
  <2>7. CASE el + l = BB /\ j = Len(y) + 1 /\ d[j] = a + 2 ^ el * c
    <3> DEFINE b1 == d[j + 1]
               G == (2 * Z) * F
    <3>1. W = P * Q
      <4>1. el \in 0..(2 * BB) /\ l \in 0..BB
        BY <1>1, <1>2
      <4>2. 2 ^ (el + l) = 2 ^ el * 2 ^ l
        BY <4>1, SmallSums
      <4> QED
        BY <2>7, <4>2, Zenon DEF W, P, Q
    <3>2. b = a + P * c /\ b1 = R + 2 ^ r * F /\ j < Len(d)
      <4>1. j + 1 = Len(y) + 2
        BY <1>1, <2>7
      <4>2. b = a + P * c
        BY <2>5, <2>7, Zenon DEF P
      <4>3. b1 = R + 2 ^ r * F
        BY <2>5, <4>1, Zenon
      <4> HIDE DEF b1
      <4>4. j < Len(d)
        BY <1>1, <2>5, <4>1
      <4> QED
        BY <4>2, <4>3, <4>4
    <3>3. z < l /\ BB - r = l - (z + 1)
      BY <1>1, <1>2, <1>4, <2>3, <2>7
    <3>4. 2 ^ r = P * (2 * Z)
      <4> DEFINE z1 == z + 1
      <4>1. el \in 0..(2 * BB) /\ z1 \in 0..BB
        BY <1>1, <1>2
      <4> HIDE DEF z1
      <4>2. 2 ^ (el + z1) = 2 ^ el * 2 ^ z1
        BY <4>1, SmallSums
      <4> QED
        BY <1>6, <2>3, <4>2, Zenon DEF P, z1
    <3>5. G \in Nat /\ P * G = 2 ^ r * F /\ P * G \in Nat
      <4>1. G \in Nat
        BY <1>6
      <4>2. P * G = (P * (2 * Z)) * F
        BY <1>6
      <4>3. P * G \in Nat
        <5> HIDE DEF G
        <5> QED
          BY <1>6, <4>1
      <4> HIDE DEF G
      <4> QED
        BY <3>4, <4>1, <4>2, <4>3
    <3> HIDE DEF G, b1
    <3> DEFINE V == P * G
    <3>6. (a + C * P) + W * V = (a + P * c) + W * b1
      <4>1. b1 = R + V
        BY <3>2, <3>5, Zenon
      <4>2. V \in Nat
        BY <3>5
      <4> HIDE DEF V
      <4>3. W * (R + V) = W * R + W * V
        BY <1>2, <1>4, <4>2
      <4> DEFINE p == W * R
                 q == W * V
      <4>4. p \in Nat /\ q \in Nat
        BY <1>2, <1>4, <4>2
      <4>5. a + C * P = p + b /\ W * b1 = p + q
        BY <2>1, <4>1, <4>3, Zenon
      <4> HIDE DEF p, q
      <4>6. (p + b) + q = b + (p + q)
        BY <1>9, <4>4
      <4>7. (a + C * P) + q = b + W * b1
        BY <4>5, <4>6, Zenon
      <4> QED
        BY <3>2, <4>7, Zenon DEF q
    <3>7. b1 \in Nat
      <4>1. 2 ^ r * F \in Nat
        BY <3>5, Zenon
      <4> QED
        BY <1>4, <3>2, <4>1
    <3> HIDE DEF V
    <3>8. c + b1 * Q = C + W * G <=> (a + C * P) + W * (P * G) = (a + P * c) + W * b1
      <4>1. /\ P \in Nat \ {0} /\ Q \in Nat /\ a \in Nat /\ c \in Nat /\ b1 \in Nat /\ C \in Nat /\ G \in Nat
            /\ W = P * Q
        BY <1>1, <1>6, <1>7, <3>1, <3>5, <3>7
      <4> QED
        BY <4>1, Balance
    <3>9. c + b1 * Q = C + W * G
      BY <3>6, <3>8, Zenon DEF V
    <3>10. C + W * G = W * Lowest(z, F) + lo
      <4>1. Lowest(z, F) = Z + G
        BY <1>8, Zenon DEF G
      <4>2. W * (Z + G) = W * Z + W * G /\ W * Z \in Nat /\ W * G \in Nat
        BY <1>2, <1>6, <3>5
      <4> DEFINE p == W * Z
                 q == W * G
      <4>3. p \in Nat /\ q \in Nat /\ W * (Z + G) = p + q /\ C = lo + p
        BY <1>7, <4>2
      <4> HIDE DEF p, q
      <4>4. C + q = (p + q) + lo
        BY <1>2, <4>3
      <4> QED
        BY <4>1, <4>3, <4>4, Zenon DEF q
    <3>11. F < 2 ^ (l - (z + 1))
      BY <2>4, <3>3, Zenon
    <3>12. OneByte(c, l, j, d, lo, z, F)
      <4>1. c + d[j + 1] * 2 ^ l = W * Lowest(z, F) + lo
        BY <3>9, <3>10, Zenon DEF b1, Q
      <4> QED
        BY <3>2, <3>3, <3>11, <4>1, Zenon DEF OneByte
    <3> QED
      BY <3>12, Zenon DEF lo, z
  <2> QED
    BY <2>6, <2>7 DEF Joint
<1>14. CASE \E b2 \in S : TwoDone(y, a, el, x, b, b2, R, r, out)
  <2>1. PICK b2 \in S : TwoDone(y, a, el, x, b, b2, R, r, out)
    BY <1>14, Zenon
  <2> DEFINE o == y \o <<b, b2>>
             V == W * R + b2
  <2>2. out = o /\ el + CodeLen(x) = BB + BB + r /\ a + C * P = W * V + b
    BY <1>12, <2>1, Zenon DEF TwoDone, TwoDigits
  <2>3. o \in Seq(S) /\ Len(o) = Len(y) + 2 /\ o[Len(y) + 1] = b /\ o[Len(y) + 2] = b2
    <3>1. o \in Seq(S)
      BY <1>1
    <3>2. Len(o) = Len(y) + 2
      BY <1>1
    <3>3. o[Len(y) + 1] = b
      BY <1>1
    <3>4. o[Len(y) + 2] = b2
      BY <1>1
    <3> QED
      BY <3>1, <3>2, <3>3, <3>4, Zenon
  <2> HIDE DEF o
  <2>4. b2 \in Nat /\ b2 < W
    BY <1>2 DEF S
  <2>5. el + (z + 1) = BB + r /\ r \in Nat
    BY <1>1, <1>2, <1>3, <1>4, <2>2
  <2>6. d[Len(y) + 1] = b /\ d[Len(y) + 2] = b2 /\ Len(y) + 2 <= Len(d)
    BY <1>1, <1>11, <2>2, <2>3 DEF Begins
  <2>7. el + l = BB /\ j = Len(y) + 1 /\ d[j] = a + 2 ^ el * c
    <3>1. el # 0
      BY <1>1, <1>2, <2>5
    <3> QED
      BY <3>1 DEF Joint
  <2>8. W = P * Q
    <3>1. el \in 0..(2 * BB) /\ l \in 0..BB
      BY <1>1, <1>2
    <3>2. 2 ^ (el + l) = 2 ^ el * 2 ^ l
      BY <3>1, SmallSums
    <3> QED
      BY <2>7, <3>2, Zenon DEF W, P, Q
  <2>9. b = a + P * c /\ d[j + 1] = b2 /\ j < Len(d) /\ j + 1 = Len(y) + 2
    <3>1. j + 1 = Len(y) + 2
      BY <1>1, <2>7
    <3>2. b = a + P * c
      BY <2>6, <2>7, Zenon DEF P
    <3>3. d[j + 1] = b2
      BY <2>6, <3>1, Zenon
    <3>4. j < Len(d)
      BY <1>1, <2>6, <2>7
    <3> QED
      BY <3>1, <3>2, <3>3, <3>4
  <2>10. V \in Nat
    <3>1. W * R \in Nat
      BY <1>2, <1>4
    <3> QED
      BY <2>4, <3>1
  <2> HIDE DEF V
  <2>11. CASE r = 0
    <3>1. z < l /\ l - (z + 1) = 0
      BY <1>1, <1>2, <2>5, <2>7, <2>11
    <3>2. R = 0
      <4>1. R < 1
        BY <1>4, <2>11, Powers
      <4> QED
        BY <1>4, <4>1
    <3>3. V = b2
      BY <1>2, <2>4, <3>2 DEF V
    <3>4. c + b2 * Q = C + W * 0 <=> (a + C * P) + W * (P * 0) = (a + P * c) + W * b2
      <4>1. /\ P \in Nat \ {0} /\ Q \in Nat /\ a \in Nat /\ c \in Nat /\ b2 \in Nat /\ C \in Nat /\ 0 \in Nat
            /\ W = P * Q
        BY <1>1, <1>6, <1>7, <2>4, <2>8
      <4> QED
        BY <4>1, Balance
    <3>5. (a + C * P) + W * (P * 0) = (a + P * c) + W * b2
      <4>1. P * 0 = 0 /\ W * 0 = 0
        BY <1>2, <1>6
      <4>2. W * b2 \in Nat
        BY <1>2, <2>4
      <4> DEFINE q == W * b2
      <4>3. q \in Nat /\ a + C * P = q + b
        BY <2>2, <3>3, <4>2, Zenon
      <4> HIDE DEF q
      <4>4. (q + b) + 0 = b + q
        BY <1>9, <4>3
      <4> QED
        BY <2>9, <4>1, <4>3, <4>4, Zenon DEF q
    <3>6. c + b2 * Q = C + W * 0
      BY <3>4, <3>5, Zenon
    <3>7. C + W * 0 = W * Lowest(z, 0) + lo
      <4>1. Lowest(z, 0) = Z
        <5>1. Z + (2 * Z) * 0 = Z
          BY <1>6
        <5> QED
          BY <1>8, <5>1, Zenon
      <4> DEFINE p == W * Z
      <4>2. p \in Nat /\ C = lo + p
        BY <1>2, <1>6, <1>7
      <4> HIDE DEF p
      <4>3. C + 0 = p + lo /\ W * 0 = 0
        BY <1>2, <4>2
      <4> QED
        BY <4>1, <4>3, Zenon DEF p
    <3>8. 0 < 2 ^ (l - (z + 1))
      <4>1. 2 ^ (l - (z + 1)) = 1
        BY <3>1, PowerZero, Zenon
      <4> QED
        BY <4>1
    <3>9. c + d[j + 1] * 2 ^ l = W * Lowest(z, 0) + lo
      BY <2>9, <3>6, <3>7, Zenon DEF Q
    <3>10. OneByte(c, l, j, d, lo, z, 0)
      BY <2>9, <3>1, <3>8, <3>9, Zenon DEF OneByte
    <3>11. 0 \in Nat
      OBVIOUS
    <3> QED
      BY <3>10, <3>11, Zenon DEF lo, z
  <2>12. CASE r # 0
    <3> DEFINE w == r - 1
               Y == 2 ^ w
               u == a + lo * P
               u0 == u % W
               u1 == u \div W
    <3>1. z = w + l /\ w \in Nat /\ w < BB /\ r = w + 1 /\ w \in 0..(2 * BB) /\ r > 0
      BY <1>1, <1>2, <1>4, <2>5, <2>7, <2>12
    <3>2. PICK F \in Nat : F < 2 ^ (BB - r) /\ d[Len(out) + 1] = R + 2 ^ r * F
      BY <1>10, <2>2, <2>3, <3>1
    <3>3. j + 1 < Len(d) /\ d[j + 2] = R + 2 ^ r * F
      <4>1. Len(out) < Len(d)
        BY <1>10, <2>2, <2>3, <3>1
      <4>2. Len(out) + 1 = j + 2 /\ Len(out) = j + 1
        BY <1>1, <2>2, <2>3, <2>9
      <4> QED
        BY <3>2, <4>1, <4>2, Zenon
    <3> HIDE DEF w
    <3>4. Y \in Nat \ {0} /\ 2 ^ r = 2 * Y /\ Z = Y * Q
      <4>1. Y \in Nat \ {0} /\ 2 ^ (w + 1) = 2 * Y
        BY <3>1, SmallPowers
      <4>2. l \in 0..BB
        BY <1>1, <1>2
      <4>3. 2 ^ (w + l) = 2 ^ w * 2 ^ l
        BY <3>1, <4>2, SmallSums
      <4>4. Z = Y * Q
        BY <3>1, <4>3, Zenon DEF Z, Q
      <4>5. 2 ^ r = 2 * Y
        BY <3>1, <4>1, Zenon
      <4> QED
        BY <4>1, <4>4, <4>5
    <3> HIDE DEF Y
    <3>5. u \in Nat /\ u < W * P
      <4>1. lo * P \in Nat
        BY <1>2, <1>6
      <4>2. a + lo * P < W * P
        BY <1>1, <1>2, <1>6, DigitsBelow
      <4> QED
        BY <1>1, <4>1, <4>2
    <3>6. a + C * P = u + W * (W * Y)
      <4> DEFINE v == W * (Y * Q)
      <4>1. v * P = W * (W * Y)
        <5>1. v * P = W * ((Y * Q) * P)
          BY <1>2, <1>6, <3>4
        <5>2. (Y * Q) * P = (P * Q) * Y
          BY <1>6, <3>4
        <5> QED
          BY <2>8, <5>1, <5>2
      <4>2. C * P = lo * P + v * P
        <5>1. v \in Nat
          <6>1. Y * Q \in Nat
            BY <1>6, <3>4
          <6> QED
            BY <1>2, <6>1
        <5>2. C = lo + v
          BY <1>7, <3>4, Zenon
        <5> HIDE DEF v
        <5> QED
          BY <1>2, <1>6, <5>1, <5>2
      <4> DEFINE p == lo * P
                 q == W * (W * Y)
      <4>3. p \in Nat /\ q \in Nat
        <5>1. W * Y \in Nat
          BY <1>2, <3>4
        <5> QED
          BY <1>2, <1>6, <5>1
      <4>4. C * P = p + q /\ u = a + p
        BY <4>1, <4>2, Zenon
      <4> HIDE DEF p, q, u
      <4>5. a + (p + q) = (a + p) + q
        BY <1>1, <4>3
      <4> QED
        BY <4>4, <4>5, Zenon DEF q
    <3>7. u0 \in Nat /\ u1 \in Nat /\ u0 < W /\ u = W * u1 + u0
      <4> HIDE DEF u
      <4> QED
        BY <1>2, <3>5, DivMod
    <3> HIDE DEF u, u0, u1
    <3>8. u1 < W
      <4>1. W * P <= W * W
        <5>1. P <= W
          <6>1. P * 1 <= P * Q
            BY <1>6
          <6> QED
            BY <1>6, <2>8, <6>1
        <5> QED
          BY <1>2, <1>6, <5>1
      <4>2. W * P \in Nat /\ W * W \in Nat
        BY <1>2, <1>6
      <4>3. u < W * W
        BY <3>5, <4>1, <4>2
      <4> QED
        BY <1>2, <3>5, <3>7, <4>3, QuotientBelow
    <3> DEFINE K == W * Y + u1
    <3>9. K \in Nat
      <4>1. W * Y \in Nat
        BY <1>2, <3>4
      <4> QED
        BY <3>7, <4>1
    <3>10. a + C * P = W * K + u0
      <4>1. W * K = W * (W * Y) + W * u1
        BY <1>2, <3>4, <3>7
      <4> DEFINE p == W * (W * Y)
                 q == W * u1
      <4>2. p \in Nat /\ q \in Nat
        <5>1. W * Y \in Nat
          BY <1>2, <3>4
        <5> QED
          BY <1>2, <3>7, <5>1
      <4>3. W * K = p + q /\ a + C * P = u + p /\ u = q + u0
        BY <3>6, <3>7, <4>1, Zenon
      <4> HIDE DEF p, q, K
      <4>4. (q + u0) + p = (p + q) + u0
        BY <3>7, <4>2
      <4> QED
        BY <4>3, <4>4, Zenon
    <3> HIDE DEF K
    <3> DEFINE T == a + C * P
    <3>11. T \in Nat /\ T = W * K + u0 /\ T = W * V + b
      <4>1. T = W * K + u0 /\ T = W * V + b
        BY <2>2, <3>10, Zenon
      <4> HIDE DEF T
      <4>2. W * K \in Nat
        BY <1>2, <3>9
      <4> QED
        BY <3>7, <4>1, <4>2
    <3> HIDE DEF T
    <3>12. K = V /\ u0 = b
      <4>1. T \div W = K /\ T % W = u0
        BY <1>2, <3>7, <3>9, <3>11, DivIs
      <4>2. T \div W = V /\ T % W = b
        BY <1>2, <1>9, <2>10, <3>11, DivIs
      <4> QED
        BY <4>1, <4>2
    <3>13. Y = R /\ u1 = b2
      <4>1. K = W * Y + u1 /\ K = W * R + b2
        BY <3>12 DEF K, V
      <4>2. K \div W = Y /\ K % W = u1
        BY <1>2, <3>4, <3>7, <3>8, <3>9, <4>1, DivIs
      <4>3. K \div W = R /\ K % W = b2
        BY <1>2, <1>4, <2>4, <3>9, <4>1, DivIs
      <4> QED
        BY <4>2, <4>3
    <3>14. u = W * b2 + b
      BY <3>7, <3>12, <3>13, Zenon
    <3>15. c + b2 * Q = lo + W * 0 <=> (a + lo * P) + W * (P * 0) = (a + P * c) + W * b2
      <4>1. /\ P \in Nat \ {0} /\ Q \in Nat /\ a \in Nat /\ c \in Nat /\ b2 \in Nat /\ lo \in Nat /\ 0 \in Nat
            /\ W = P * Q
        BY <1>1, <1>2, <1>6, <2>4, <2>8
      <4> QED
        BY <4>1, Balance
    <3>16. c + b2 * Q = lo
      <4>1. P * 0 = 0 /\ W * 0 = 0 /\ lo + 0 = lo
        BY <1>2, <1>6
      <4> DEFINE q == W * b2
      <4>2. q \in Nat /\ u = q + b
        BY <1>2, <2>4, <3>14
      <4> HIDE DEF q
      <4>3. (q + b) + 0 = b + q
        BY <1>9, <4>2
      <4>4. (a + lo * P) + W * (P * 0) = (a + P * c) + W * b2
        BY <2>9, <4>1, <4>2, <4>3, Zenon DEF q, u
      <4> QED
        BY <3>15, <4>1, <4>4, Zenon
    <3>17. c + d[j + 1] * 2 ^ l = lo
      BY <2>9, <3>16, Zenon DEF Q
    <3>18. d[j + 2] = Lowest(w, F)
      <4>1. 2 ^ (w + 1) = 2 * Y /\ 2 ^ r = 2 * Y
        BY <3>1, <3>4, Zenon
      <4> QED
        BY <3>3, <3>13, <4>1, Zenon DEF Lowest, Y
    <3>19. F < 2 ^ (BB - (w + 1))
      BY <3>1, <3>2, Zenon
    <3>20. TwoBytes(c, l, j, d, lo, w, F)
      BY <3>1, <3>3, <3>17, <3>18, <3>19, Zenon DEF TwoBytes
    <3> QED
      BY <3>1, <3>20, Zenon DEF lo, z
  <2> QED
    BY <2>11, <2>12
<1> QED
  BY <1>5, <1>13, <1>14

-----------------------------------------------------------------------------
(* A string that is accepted is the encoding of what it gives.               *)

HasOk(t) == "ok" \in DOMAIN t

\* comp_decode() does not recover.
LEMMA NextStays ==
  ASSUME NEW t, HasOk(t), NEW d
  PROVE  HasOk(CompNext(t, d)) /\ (CompNext(t, d).ok => t.ok)
<1>1. ASSUME NEW r, HasOk(r) PROVE HasOk([r EXCEPT !.ok = FALSE]) /\ ~[r EXCEPT !.ok = FALSE].ok
  BY <1>1, Zenon DEF HasOk
<1>2. ASSUME NEW r, HasOk(r), NEW b, NEW m PROVE HasOk(Take(r, b, m))
  <2> DEFINE tz == ctz32_nonzero(r.acc)
             mm == m + tz * 2 ^ LowBits
             v == IF b = 1 THEN -mm ELSE mm
             r2 == [r EXCEPT !.acc = @ \div 2 ^ (tz + 1), !.acc_len = @ - (tz + 1), !.s = Append(@, v)]
  <2>1. Take(r, b, m) = [r EXCEPT !.ok = FALSE] \/ Take(r, b, m) = r2
    <3> HIDE DEF r2, tz, mm
    <3> QED
      BY Zenon DEF Take, r2, tz, mm
  <2>2. HasOk(r2)
    <3> HIDE DEF tz, mm, v
    <3>1. DOMAIN r2 = DOMAIN r
      OBVIOUS
    <3> QED
      BY <1>2, <3>1, Zenon DEF HasOk
  <2> HIDE DEF r2
  <2> QED
    BY <1>1, <1>2, <2>1, <2>2, Zenon
<1>3. CASE ~t.ok \/ t.j >= Len(d)
  <2>1. CompNext(t, d) = [t EXCEPT !.ok = FALSE]
    BY <1>3, Zenon DEF CompNext
  <2> QED
    BY <1>1, <2>1, Zenon
<1>4. CASE ~(~t.ok \/ t.j >= Len(d))
  <2> DEFINE acc1 == t.acc + d[t.j + 1] * 2 ^ t.acc_len
             b == acc1 % 2
             m == (acc1 \div 2) % 2 ^ LowBits
             acc2 == acc1 \div 2 ^ BB
             t1 == [t EXCEPT !.acc = acc2, !.j = @ + 1]
             t2 == [t EXCEPT !.acc = d[t.j + 2] * 2 ^ t.acc_len, !.acc_len = @ + BB, !.j = @ + 2]
  <2>1. HasOk(t1) /\ HasOk(t2)
    <3> HIDE DEF acc2
    <3>1. DOMAIN t1 = DOMAIN t /\ DOMAIN t2 = DOMAIN t
      OBVIOUS
    <3> QED
      BY <3>1, Zenon DEF HasOk
  <2>2. CompNext(t, d) = IF acc2 # 0 THEN Take(t1, b, m)
                         ELSE IF t.j + 1 >= Len(d) \/ d[t.j + 2] = 0 THEN [t EXCEPT !.ok = FALSE]
                         ELSE Take(t2, b, m)
    BY <1>4, Zenon DEF CompNext
  <2> HIDE DEF acc1, b, m, acc2, t1, t2
  <2>3. HasOk(CompNext(t, d))
    BY <1>1, <1>2, <2>1, <2>2, Zenon
  <2> QED
    BY <1>4, <2>3, Zenon
<1> QED
  BY <1>3, <1>4

\* However a vector goes on after s, comp_encode() has written y after s, el bits being left
\* in the accumulator a.
Follows(s, y, a, el, dlen) ==
    \A t \in Seq(Int) : \A g :
        /\ Len(t) >= Len(s) /\ \A i \in 1..Len(s) : t[i] = s[i]
        /\ Runs(g, <<"append", t, dlen>>, AppendStart, Len(t))
        => g[Len(s)] = Pack(y, a, el)

\* Before the first coefficient.
LEMMA FollowsStart ==
  ASSUME NEW dlen
  PROVE  Follows(<<>>, <<>>, 0, 0, dlen)
<1>1. AppendStart = Pack(<<>>, 0, 0) /\ Len(<<>>) = 0
  BY DEF AppendStart, Pack, Yes
<1> QED
  BY <1>1, Zenon DEF Follows, Runs

\* After one more.
LEMMA FollowsNext ==
  ASSUME NEW s \in Seq(Int), NEW y, NEW a, NEW el, NEW dlen, Follows(s, y, a, el, dlen), NEW x \in Int,
         NEW y2, NEW a2, NEW el2, CompAppend(Pack(y, a, el), x, dlen) = Pack(y2, a2, el2)
  PROVE  Follows(Append(s, x), y2, a2, el2, dlen)
<1> DEFINE k == Len(s)
           u == Append(s, x)
<1>1. k \in Nat /\ Len(u) = k + 1 /\ u[k + 1] = x /\ \A i \in 1..k : u[i] = s[i]
  OBVIOUS
<1> HIDE DEF k, u
<1> SUFFICES ASSUME NEW t \in Seq(Int), NEW g, Len(t) >= Len(u), \A i \in 1..Len(u) : t[i] = u[i],
                    Runs(g, <<"append", t, dlen>>, AppendStart, Len(t))
             PROVE  g[Len(u)] = Pack(y2, a2, el2)
  BY Zenon DEF Follows, u
<1>2. Len(t) \in Nat /\ Len(t) >= k /\ k + 1 \in 1..Len(t) /\ (k + 1) - 1 = k
  BY <1>1
<1>3. \A i \in 1..k : t[i] = s[i]
  <2>1. \A i \in 1..k : i \in 1..(k + 1)
    BY <1>1
  <2> QED
    BY <1>1, <2>1, Zenon
<1>4. t[k + 1] = x
  <2>1. k + 1 \in 1..(k + 1)
    BY <1>1
  <2> QED
    BY <1>1, <2>1, Zenon
<1>5. g[k] = Pack(y, a, el)
  BY <1>2, <1>3, Zenon DEF Follows, k
<1>6. g[k + 1] = LoopStep(<<"append", t, dlen>>, g[k], k + 1)
  BY <1>2, Zenon DEF Runs
<1>7. LoopStep(<<"append", t, dlen>>, g[k], k + 1) = CompAppend(g[k], t[k + 1], dlen)
  <2> HIDE DEF k
  <2> QED
    BY DEF LoopStep
<1> QED
  BY <1>1, <1>4, <1>5, <1>6, <1>7, Zenon

\* So that is what comp_encode() ends from.
LEMMA FollowsEnd ==
  ASSUME NEW s \in Seq(Int), NEW y, NEW a, NEW el, NEW dlen, Follows(s, y, a, el, dlen)
  PROVE  comp_encode(s, dlen) = Finish(Pack(y, a, el), dlen)
<1>1. Len(s) \in Nat /\ Len(s) >= Len(s)
  OBVIOUS
<1>2. PICK h : /\ comp_encode(s, dlen) = Finish(h[Len(s)], dlen)
               /\ Runs(h, <<"append", s, dlen>>, AppendStart, Len(s))
  BY <1>1, AppendLoop, Zenon
<1>3. h[Len(s)] = Pack(y, a, el)
  BY <1>1, <1>2, Zenon DEF Follows
<1> QED
  BY <1>2, <1>3, Zenon

\* Where nothing is left to read but zeros, what comp_encode() has written is the string.
LEMMA EndsEqual ==
  ASSUME NEW d \in Seq(0..(W - 1)), NEW y, NEW a, NEW el, NEW l, NEW j, Joint(y, a, el, 0, l, j, d),
         \A k \in (j + 1)..Len(d) : d[k] = 0
  PROVE  Finish(Pack(y, a, el), Len(d)) = [ok |-> TRUE, s |-> d]
<1> DEFINE S == 0..(W - 1)
           t == Pack(y, a, el)
           D == IF t.acc_len > 0 THEN Append(t.d, t.acc % 2 ^ BB) ELSE t.d
           n == Len(d)
           e == [k \in 1..n |-> IF k <= Len(D) THEN D[k] ELSE 0]
<1>1. /\ y \in Seq(S) /\ a \in Nat /\ el \in 0..(BB - 1) /\ a < 2 ^ el /\ Len(y) \in Nat
      /\ j \in Nat /\ j <= n /\ n \in Nat /\ Len(y) <= n /\ \A k \in 1..Len(y) : y[k] = d[k]
  BY DEF Joint, PackOK, ReadOK, Begins
<1>2. t.ok /\ t.d = y /\ t.acc = a /\ t.acc_len = el
  BY PackFields
<1> HIDE DEF t
<1>3. /\ ~(t.acc_len > 0 /\ Len(t.d) >= n)
      /\ Len(D) = j
      /\ \A k \in 1..j : D[k] = d[k]
  <2>1. CASE el = 0 /\ Len(y) = j
    <3>1. D = y /\ ~(t.acc_len > 0)
      <4>1. ~(el > 0)
        BY <2>1
      <4> QED
        BY <1>2, <4>1, Zenon
    <3> QED
      BY <1>1, <2>1, <3>1, Zenon
  <2>2. CASE el + l = BB /\ j = Len(y) + 1 /\ d[j] = a + 2 ^ el * 0
    <3>1. el > 0
      <4>1. l \in 0..(BB - 1)
        BY DEF Joint, ReadOK
      <4> QED
        BY <1>1, <2>2, <4>1, ByteSizes
    <3>2. d[j] = a
      <4>1. el \in 0..(2 * BB)
        BY <1>1, ByteSizes
      <4>2. 2 ^ el \in Nat
        BY <4>1, SmallPowers
      <4> DEFINE p == 2 ^ el
      <4>3. p \in Nat /\ d[j] = a + p * 0
        BY <2>2, <4>2
      <4> HIDE DEF p
      <4> QED
        BY <1>1, <4>3
    <3>3. a % 2 ^ BB = a
      <4>1. j \in 1..n
        BY <1>1, <2>2
      <4>2. d[j] < W /\ W \in Nat \ {0}
        BY <4>1, ByteAt, ByteSizes
      <4>3. a % W = a
        <5>1. a \in Nat /\ a < W /\ 0 \in Nat /\ a = W * 0 + a
          BY <1>1, <3>2, <4>2
        <5> QED
          BY <4>2, <5>1, DivIs
      <4> QED
        BY <4>3, Zenon DEF W
    <3>4. D = Append(y, a)
      BY <1>2, <3>1, <3>3, Zenon
    <3>5. a \in S
      <4>1. j \in 1..n
        BY <1>1, <2>2
      <4> QED
        BY <3>2, <4>1, ByteAt
    <3> HIDE DEF D, S
    <3>6. Len(D) = j /\ \A k \in 1..j : D[k] = d[k]
      <4>1. Len(D) = j
        BY <1>1, <2>2, <3>4
      <4>2. ASSUME NEW k \in 1..j PROVE D[k] = d[k]
        <5>1. CASE k = j
          BY <1>1, <2>2, <3>2, <3>4, <5>1
        <5>2. CASE k # j
          <6>1. k \in 1..Len(y)
            BY <1>1, <2>2, <5>2
          <6>2. D[k] = y[k]
            BY <1>1, <3>4, <6>1
          <6> QED
            BY <1>1, <6>1, <6>2
        <5> QED
          BY <5>1, <5>2
      <4> QED
        BY <4>1, <4>2
    <3>7. ~(Len(y) >= n)
      BY <1>1, <2>2
    <3> QED
      BY <1>2, <3>6, <3>7, Zenon
  <2>3. \/ el = 0 /\ l = 0 /\ Len(y) = j
        \/ el + l = BB /\ j = Len(y) + 1 /\ d[j] = a + 2 ^ el * 0
    BY DEF Joint
  <2> QED
    BY <2>1, <2>2, <2>3, Zenon
<1>4. Finish(t, n) = [ok |-> TRUE, s |-> e]
  <2> HIDE DEF n
  <2> QED
    BY <1>2, <1>3, Zenon DEF Finish
<1> HIDE DEF D
<1>5. ASSUME NEW k \in 1..n PROVE (IF k <= Len(D) THEN D[k] ELSE 0) = d[k]
  <2>1. CASE k <= j
    <3>1. k \in 1..j
      BY <1>1, <2>1
    <3> QED
      BY <1>3, <2>1, <3>1, Zenon
  <2>2. CASE ~(k <= j)
    <3>1. k \in (j + 1)..n
      BY <1>1, <2>2
    <3>2. d[k] = 0
      BY <3>1
    <3> QED
      BY <1>3, <2>2, <3>2, Zenon
  <2> QED
    BY <2>1, <2>2
<1>6. d = [k \in 1..n |-> d[k]]
  OBVIOUS
<1>7. e = d
  BY <1>5, <1>6, Zenon
<1> QED
  BY <1>4, <1>7, Zenon DEF t, n

\* What comp_decode() has read so far, where it has not refused: some s of k coefficients, and
\* comp_encode() is at the same bit after them.
Decoded(t, k, d) ==
    \E s \in Seq(Int) : \E c, l, j, y, a, el :
        /\ t = Read(s, c, l, j) /\ Len(s) = k /\ InBound(s)
        /\ Joint(y, a, el, c, l, j, d) /\ Follows(s, y, a, el, Len(d))

\* Nothing has been read.
LEMMA DecodedStart ==
  ASSUME NEW d \in Seq(0..(W - 1))
  PROVE  Decoded(NextStart, 0, d) /\ HasOk(NextStart)
<1>1. NextStart = Read(<<>>, 0, 0, 0)
  BY DEF NextStart, Read, Yes
<1>2. HasOk(NextStart)
  BY DEF NextStart, HasOk
<1>3. Joint(<<>>, 0, 0, 0, 0, 0, d)
  <2>1. 2 ^ 0 = 1 /\ 0 \in 0..(BB - 1) /\ Len(d) \in Nat
    BY Powers, ByteSizes
  <2>2. PackOK(<<>>, 0, 0)
    BY <2>1 DEF PackOK
  <2>3. ReadOK(0, 0, 0, d)
    BY <2>1 DEF ReadOK
  <2>4. Begins(<<>>, d)
    BY <2>1 DEF Begins
  <2> QED
    BY <2>2, <2>3, <2>4 DEF Joint
<1>4. <<>> \in Seq(Int) /\ Len(<<>>) = 0 /\ InBound(<<>>)
  BY DEF InBound
<1>5. Follows(<<>>, <<>>, 0, 0, Len(d))
  BY FollowsStart
<1> QED
  BY <1>1, <1>2, <1>3, <1>4, <1>5, Zenon DEF Decoded

\* One coefficient more has been read.
LEMMA DecodedNext ==
  ASSUME NEW d \in Seq(0..(W - 1)), NEW t, NEW k \in Nat, Decoded(t, k, d), CompNext(t, d).ok
  PROVE  Decoded(CompNext(t, d), k + 1, d)
<1>1. PICK s \in Seq(Int) : \E c, l, j, y, a, el :
        /\ t = Read(s, c, l, j) /\ Len(s) = k /\ InBound(s)
        /\ Joint(y, a, el, c, l, j, d) /\ Follows(s, y, a, el, Len(d))
  BY Zenon DEF Decoded
<1>2. PICK c, l, j, y, a, el :
        /\ t = Read(s, c, l, j) /\ Len(s) = k /\ InBound(s)
        /\ Joint(y, a, el, c, l, j, d) /\ Follows(s, y, a, el, Len(d))
  BY <1>1, Zenon
<1>3. ReadOK(c, l, j, d) /\ CompNext(Read(s, c, l, j), d).ok
  <2>1. ReadOK(c, l, j, d)
    BY <1>2, Zenon DEF Joint
  <2> QED
    BY <1>2, <2>1, Zenon
<1>4. PICK x \in Int, F \in Nat :
            /\ Abs(x) <= B_INF
            /\ \/ OneByte(c, l, j, d, LowPart(x), High(x), F)
               \/ \E w \in Nat : High(x) = w + l /\ TwoBytes(c, l, j, d, LowPart(x), w, F)
  BY <1>3, NextSplits
<1> DEFINE u == Append(s, x)
<1>5. \E l2, j2, y2, a2, el2 :
        /\ CompAppend(Pack(y, a, el), x, Len(d)) = Pack(y2, a2, el2)
        /\ Joint(y2, a2, el2, F, l2, j2, d)
        /\ CompNext(Read(s, c, l, j), d) = Read(u, F, l2, j2)
  <2>1. CASE OneByte(c, l, j, d, LowPart(x), High(x), F)
    <3>1. PICK y2, a2, el2 : /\ CompAppend(Pack(y, a, el), x, Len(d)) = Pack(y2, a2, el2)
                             /\ Joint(y2, a2, el2, F, l - (High(x) + 1), j + 1, d)
      BY <1>2, <1>4, <2>1, JointOne
    <3>2. CompNext(Read(s, c, l, j), d) = Read(Append(s, x), F, l - (High(x) + 1), j + 1)
      BY <1>3, <1>4, <2>1, NextTakesOne
    <3> QED
      BY <3>1, <3>2, Zenon
  <2>2. CASE \E w \in Nat : High(x) = w + l /\ TwoBytes(c, l, j, d, LowPart(x), w, F)
    <3>0. PICK w \in Nat : High(x) = w + l /\ TwoBytes(c, l, j, d, LowPart(x), w, F)
      BY <2>2
    <3>1. PICK y2, a2, el2 : /\ CompAppend(Pack(y, a, el), x, Len(d)) = Pack(y2, a2, el2)
                             /\ Joint(y2, a2, el2, F, BB - (w + 1), j + 2, d)
      BY <1>2, <1>4, <3>0, JointTwo
    <3>2. CompNext(Read(s, c, l, j), d) = Read(Append(s, x), F, BB - (w + 1), j + 2)
      BY <1>3, <1>4, <3>0, NextTakesTwo
    <3> QED
      BY <3>1, <3>2, Zenon
  <2> QED
    BY <1>4, <2>1, <2>2
<1>6. PICK l2, j2, y2, a2, el2 :
        /\ CompAppend(Pack(y, a, el), x, Len(d)) = Pack(y2, a2, el2)
        /\ Joint(y2, a2, el2, F, l2, j2, d)
        /\ CompNext(Read(s, c, l, j), d) = Read(u, F, l2, j2)
  BY <1>5, Zenon
<1>7. u \in Seq(Int) /\ Len(u) = k + 1 /\ InBound(u)
  <2>1. u \in Seq(Int) /\ Len(u) = Len(s) + 1 /\ DOMAIN u = 1..(Len(s) + 1)
    BY <1>4
  <2>2. ASSUME NEW i \in DOMAIN u PROVE Abs(u[i]) <= B_INF
    <3>1. CASE i = Len(s) + 1
      <4>1. u[i] = x
        BY <1>4, <3>1
      <4> QED
        BY <1>4, <4>1, Zenon
    <3>2. CASE i # Len(s) + 1
      <4>1. i \in DOMAIN s /\ u[i] = s[i]
        BY <1>4, <2>1, <3>2
      <4> QED
        BY <1>2, <4>1, Zenon DEF InBound
    <3> QED
      BY <3>1, <3>2
  <2> HIDE DEF u
  <2>3. InBound(u)
    BY <2>2, Zenon DEF InBound
  <2> QED
    BY <1>2, <2>1, <2>3, Zenon
<1>8. Follows(u, y2, a2, el2, Len(d))
  BY <1>2, <1>4, <1>6, FollowsNext
<1> HIDE DEF u
<1>9. CompNext(t, d) = Read(u, F, l2, j2)
  BY <1>2, <1>6, Zenon
<1> QED
  BY <1>6, <1>7, <1>8, <1>9, Zenon DEF Decoded

\* What comp_decode() has after k coefficients.
DecodedTo(t, k, d) == HasOk(t) /\ (t.ok => Decoded(t, k, d))

\* A string accepted by comp_decode() is what comp_encode() writes of the vector it gives, on
\* as many bytes: a signature has one encoding.
THEOREM StringCanonical ==
  ASSUME NEW n \in Nat, NEW d \in Seq(0..(W - 1)), comp_decode(n, d).ok
  PROVE  /\ comp_decode(n, d).s \in Seq(Int) /\ Len(comp_decode(n, d).s) = n
         /\ InBound(comp_decode(n, d).s)
         /\ comp_encode(comp_decode(n, d).s, Len(d)) = [ok |-> TRUE, s |-> d]
<1>1. PICK h : comp_decode(n, d) = Result(h[n], d) /\ Runs(h, <<"next", d>>, NextStart, n)
  BY NextLoop
<1> DEFINE t == h[n]
           S == {i \in Nat : i <= n => DecodedTo(h[i], i, d)}
<1>2. /\ comp_decode(n, d) = [ok |-> TRUE, s |-> t.s]
      /\ t.ok /\ t.acc = 0 /\ \A k \in (t.j + 1)..Len(d) : d[k] = 0
  <2>1. ~Bad.ok
    BY DEF Bad
  <2> QED
    BY <1>1, <2>1, Zenon DEF Result
<1>3. 0 \in S
  <2>1. h[0] = NextStart
    BY <1>1, Zenon DEF Runs
  <2>2. DecodedTo(h[0], 0, d)
    BY <2>1, DecodedStart, Zenon DEF DecodedTo
  <2> QED
    BY <2>2
<1>4. ASSUME NEW i \in Nat, i \in S PROVE i + 1 \in S
  <2> SUFFICES ASSUME i + 1 <= n PROVE DecodedTo(h[i + 1], i + 1, d)
    BY DEF S
  <2>1. DecodedTo(h[i], i, d) /\ i + 1 \in 1..n /\ (i + 1) - 1 = i
    BY <1>4
  <2>2. h[i + 1] = LoopStep(<<"next", d>>, h[i], i + 1)
    BY <1>1, <2>1, Zenon DEF Runs
  <2>3. LoopStep(<<"next", d>>, h[i], i + 1) = CompNext(h[i], d)
    BY DEF LoopStep
  <2>4. HasOk(h[i + 1]) /\ (h[i + 1].ok => h[i].ok)
    BY <2>1, <2>2, <2>3, NextStays, Zenon DEF DecodedTo
  <2>5. ASSUME h[i + 1].ok PROVE Decoded(h[i + 1], i + 1, d)
    <3>1. Decoded(h[i], i, d)
      BY <2>1, <2>4, <2>5, Zenon DEF DecodedTo
    <3> QED
      BY <2>2, <2>3, <2>5, <3>1, DecodedNext, Zenon
  <2> QED
    BY <2>4, <2>5, Zenon DEF DecodedTo
<1>5. DecodedTo(t, n, d)
  <2>1. Nat \subseteq S
    <3> HIDE DEF S
    <3> QED
      BY <1>3, <1>4, NatSetInduction
  <2>2. n <= n
    OBVIOUS
  <2> QED
    BY <2>1, <2>2
<1> HIDE DEF t, S
<1>6. Decoded(t, n, d)
  BY <1>2, <1>5, Zenon DEF DecodedTo
<1>7. PICK s \in Seq(Int) : \E c, l, j, y, a, el :
        /\ t = Read(s, c, l, j) /\ Len(s) = n /\ InBound(s)
        /\ Joint(y, a, el, c, l, j, d) /\ Follows(s, y, a, el, Len(d))
  BY <1>6, Zenon DEF Decoded
<1>8. PICK c, l, j, y, a, el :
        /\ t = Read(s, c, l, j) /\ Len(s) = n /\ InBound(s)
        /\ Joint(y, a, el, c, l, j, d) /\ Follows(s, y, a, el, Len(d))
  BY <1>7, Zenon
<1>9. t.s = s /\ t.acc = c /\ t.j = j
  <2>1. Read(s, c, l, j).s = s /\ Read(s, c, l, j).acc = c /\ Read(s, c, l, j).j = j
    BY ReadFields
  <2> QED
    BY <1>8, <2>1, Zenon
<1>10. Joint(y, a, el, 0, l, j, d) /\ \A k \in (j + 1)..Len(d) : d[k] = 0
  BY <1>2, <1>8, <1>9, Zenon
<1>11. Finish(Pack(y, a, el), Len(d)) = [ok |-> TRUE, s |-> d]
  BY <1>10, EndsEqual
<1>12. comp_encode(s, Len(d)) = Finish(Pack(y, a, el), Len(d))
  BY <1>8, FollowsEnd
<1>13. comp_decode(n, d).s = s
  <2>1. comp_decode(n, d).s = t.s
    BY <1>2
  <2> QED
    BY <1>9, <2>1, Zenon
<1> QED
  BY <1>8, <1>11, <1>12, <1>13, Zenon

-----------------------------------------------------------------------------
(* What is written is read back.                                             *)

\* The loop that counts the bits of a vector.
LEMMA BitsLoop ==
  ASSUME NEW s, Len(s) \in Nat
  PROVE  \E h : BitsOf(s) = h[Len(s)] /\ Runs(h, <<"bits", s>>, 0, Len(s))
<1> DEFINE loop == <<"bits", s>>
           step(x, k) == x + BB + 1 + (Abs(s[k]) \div 2 ^ LowBits)
           E(h) == h = [k \in 0..Len(s) |-> IF k = 0 THEN 0 ELSE step(h[k - 1], k)]
           f == CHOOSE h : E(h)
<1>1. ASSUME NEW x, NEW k PROVE LoopStep(loop, x, k) = step(x, k)
  BY DEF LoopStep
<1>2. BitsOf(s) = f[Len(s)]
  BY DEF BitsOf
<1> HIDE DEF loop, step
<1>3. \E h : Iterates(h, loop, 0, Len(s))
  <2> HIDE DEF E, f
  <2> QED
    BY LoopExists
<1>4. PICK h : Iterates(h, loop, 0, Len(s))
  BY <1>3
<1>5. E(h)
  BY <1>1, <1>4, Zenon DEF Iterates
<1>6. E(f)
  <2> HIDE DEF E
  <2> QED
    BY <1>5, Zenon
<1> HIDE DEF f
<1>7. f[0] = 0
  <2>1. 0 \in 0..Len(s)
    OBVIOUS
  <2> QED
    BY <1>6, <2>1, Zenon
<1>8. ASSUME NEW k \in 1..Len(s) PROVE f[k] = LoopStep(loop, f[k - 1], k)
  <2>1. k \in 0..Len(s) /\ k # 0
    OBVIOUS
  <2> QED
    BY <1>1, <1>6, <2>1, Zenon
<1>9. Runs(f, loop, 0, Len(s))
  BY <1>7, <1>8, Zenon DEF Runs
<1> QED
  BY <1>2, <1>9, Zenon DEF loop

\* A record of comp_encode() that has not failed, and the bits written by then.
Going(t, dlen) ==
    PackOK(t.d, t.acc, t.acc_len) /\ t = Pack(t.d, t.acc, t.acc_len) /\ Len(t.d) <= dlen
BitsIn(t) == BB * Len(t.d) + t.acc_len

\* The bytes that an append completes and what it leaves.
LEMMA OutLength ==
  ASSUME NEW y, NEW a, NEW l, PackOK(y, a, l), NEW x \in Int, Abs(x) <= B_INF,
         NEW R, NEW r, NEW out, Done1or2(y, a, l, x, R, r, out)
  PROVE  PackOK(out, R, r) /\ BB * Len(out) + r = (BB * Len(y) + l) + CodeLen(x)
<1> DEFINE S == 0..(W - 1)
           n == CodeLen(x)
<1>1. y \in Seq(S) /\ Len(y) \in Nat /\ l \in 0..(BB - 1)
  BY DEF PackOK
<1>2. PICK b \in S : OneDone(y, a, l, x, b, R, r, out) \/ \E c \in S : TwoDone(y, a, l, x, b, c, R, r, out)
  BY Zenon DEF Done1or2
<1>3. R \in Nat /\ r \in 0..(BB - 1) /\ R < 2 ^ r
  BY DEF Done1or2
<1>4. BB \in Nat /\ n \in Nat
  <2>1. High(x) \in 0..(BB - 2)
    BY CodeParts
  <2> QED
    BY <2>1, ByteSizes DEF CodeLen
<1> HIDE DEF S, n
<1>5. out \in Seq(S) /\ BB * Len(out) + r = (BB * Len(y) + l) + n
  <2>1. CASE OneDone(y, a, l, x, b, R, r, out)
    <3>1. out = Append(y, b) /\ l + n = BB + r
      BY <2>1, Zenon DEF OneDone, n
    <3>2. out \in Seq(S) /\ Len(out) = Len(y) + 1
      BY <1>1, <3>1
    <3>3. BB * (Len(y) + 1) = BB * Len(y) + BB /\ BB * Len(y) \in Nat
      BY <1>1, <1>4
    <3> QED
      BY <1>1, <1>3, <1>4, <3>1, <3>2, <3>3
  <2>2. CASE \E c \in S : TwoDone(y, a, l, x, b, c, R, r, out)
    <3>0. PICK c \in S : TwoDone(y, a, l, x, b, c, R, r, out)
      BY <2>2
    <3>1. out = y \o <<b, c>> /\ l + n = BB + BB + r
      BY <3>0, Zenon DEF TwoDone, n
    <3>2. y \o <<b, c>> \in Seq(S) /\ Len(y \o <<b, c>>) = Len(y) + 2
      BY <1>1
    <3>3. BB * (Len(y) + 2) = BB * Len(y) + BB + BB /\ BB * Len(y) \in Nat
      BY <1>1, <1>4
    <3>4. out \in Seq(S) /\ Len(out) = Len(y) + 2
      BY <3>1, <3>2, Zenon
    <3> QED
      BY <1>1, <1>3, <1>4, <3>1, <3>3, <3>4
  <2> QED
    BY <1>2, <2>1, <2>2
<1>6. PackOK(out, R, r)
  BY <1>3, <1>5 DEF PackOK, S
<1> QED
  BY <1>5, <1>6, Zenon DEF n

\* An append goes on, or the bits do not fit.
LEMMA GoesOn ==
  ASSUME NEW t, NEW dlen \in Nat, Going(t, dlen), NEW x \in Int, Abs(x) <= B_INF
  PROVE  LET u == CompAppend(t, x, dlen)
         IN  \/ Going(u, dlen) /\ BitsIn(u) = BitsIn(t) + CodeLen(x)
             \/ u \in Records /\ ~u.ok /\ BitsIn(t) + CodeLen(x) > BB * dlen
<1> DEFINE y == t.d
           a == t.acc
           l == t.acc_len
           u == CompAppend(t, x, dlen)
<1>1. PackOK(y, a, l) /\ t = Pack(y, a, l)
  BY Zenon DEF Going
<1> HIDE DEF y, a, l
<1>2. PICK R, r, out : /\ Done1or2(y, a, l, x, R, r, out)
                       /\ Written(CompAppend(Pack(y, a, l), x, dlen), out, R, r, dlen)
  BY <1>1, AppendWrites
<1>3. Written(u, out, R, r, dlen)
  BY <1>1, <1>2, Zenon
<1>4. PackOK(out, R, r) /\ BB * Len(out) + r = (BB * Len(y) + l) + CodeLen(x)
  BY <1>1, <1>2, OutLength
<1>5. BitsIn(t) + CodeLen(x) = BB * Len(out) + r
  BY <1>4, Zenon DEF BitsIn, y, l
<1>6. Len(out) \in Nat /\ r \in Nat /\ BB \in Nat \ {0}
  BY <1>4, ByteSizes DEF PackOK
<1> HIDE DEF u
<1>7. CASE Len(out) > dlen
  <2>1. u \in Records /\ ~u.ok
    BY <1>3, <1>7, Zenon DEF Written
  <2>2. BB * Len(out) + r > BB * dlen
    <3>1. BB * Len(out) >= BB * (dlen + 1)
      BY <1>6, <1>7
    <3>2. BB * (dlen + 1) = BB * dlen + BB /\ BB * dlen \in Nat /\ BB * Len(out) \in Nat
      BY <1>6
    <3> QED
      BY <1>6, <3>1, <3>2
  <2> QED
    BY <1>5, <2>1, <2>2, Zenon DEF u
<1>8. CASE ~(Len(out) > dlen)
  <2>1. u = Pack(out, R, r)
    BY <1>3, <1>8, Zenon DEF Written
  <2>2. u.d = out /\ u.acc = R /\ u.acc_len = r
    <3>1. Pack(out, R, r).d = out /\ Pack(out, R, r).acc = R /\ Pack(out, R, r).acc_len = r
      BY PackFields
    <3> QED
      BY <2>1, <3>1, Zenon
  <2>3. Len(out) <= dlen
    BY <1>6, <1>8
  <2>4. Going(u, dlen)
    BY <1>4, <2>1, <2>2, <2>3, Zenon DEF Going
  <2>5. BitsIn(u) = BB * Len(out) + r
    BY <2>2, Zenon DEF BitsIn
  <2> QED
    BY <1>5, <2>4, <2>5, Zenon DEF u
<1> QED
  BY <1>7, <1>8

\* The string that ends with what is written: y, then the bits left in a byte, then zeros.
Ends(y, a, l, d) ==
    /\ Begins(y, d)
    /\ l > 0 => Len(y) < Len(d) /\ d[Len(y) + 1] = a
    /\ \A k \in 1..Len(d) : k > Len(y) /\ ~(l > 0 /\ k = Len(y) + 1) => d[k] = 0

\* comp_encode() ends well exactly if the bits fit, and that is what it returns.
LEMMA FinishIs ==
  ASSUME NEW t, NEW dlen \in Nat, Going(t, dlen)
  PROVE  /\ Finish(t, dlen).ok <=> BitsIn(t) <= BB * dlen
         /\ Finish(t, dlen).ok =>
               \E d \in Seq(0..(W - 1)) : /\ Finish(t, dlen) = [ok |-> TRUE, s |-> d] /\ Len(d) = dlen
                                          /\ Ends(t.d, t.acc, t.acc_len, d)
<1> DEFINE S == 0..(W - 1)
           y == t.d
           a == t.acc
           l == t.acc_len
           D == IF l > 0 THEN Append(y, a % 2 ^ BB) ELSE y
           d == [k \in 1..dlen |-> IF k <= Len(D) THEN D[k] ELSE 0]
           full == l > 0 /\ Len(y) >= dlen
<1>1. /\ y \in Seq(S) /\ Len(y) \in Nat /\ Len(y) <= dlen /\ a \in Nat /\ l \in 0..(BB - 1) /\ a < 2 ^ l
  BY DEF Going, PackOK
<1>2. t.ok
  <2>1. t = Pack(t.d, t.acc, t.acc_len) /\ Pack(t.d, t.acc, t.acc_len).ok
    BY PackFields DEF Going
  <2> QED
    BY <2>1, Zenon
<1>3. Finish(t, dlen) = IF full THEN Bad ELSE [ok |-> TRUE, s |-> d]
  BY <1>2, Zenon DEF Finish
<1>4. Finish(t, dlen).ok <=> ~full
  <2>1. ~Bad.ok /\ [ok |-> TRUE, s |-> d].ok
    BY DEF Bad
  <2> QED
    BY <1>3, <2>1, Zenon
<1>5. BB \in Nat \ {0} /\ W \in Nat \ {0} /\ 0 \in S
  BY ByteSizes
<1>6. ~full <=> BitsIn(t) <= BB * dlen
  <2> DEFINE n == Len(y)
  <2>1. BitsIn(t) = BB * n + l
    BY Zenon DEF BitsIn
  <2>2. n \in Nat /\ n <= dlen
    BY <1>1
  <2> HIDE DEF n
  <2>3. BB * n \in Nat /\ BB * dlen \in Nat
    BY <1>5, <2>2
  <2>4. CASE n = dlen
    <3>1. ~(l > 0) <=> BB * n + l <= BB * dlen
      BY <1>1, <2>3, <2>4
    <3>2. n >= dlen
      BY <2>2, <2>4
    <3> QED
      BY <2>1, <3>1, <3>2, Zenon DEF n
  <2>5. CASE n < dlen
    <3>1. BB * (n + 1) <= BB * dlen
      BY <1>5, <2>2, <2>5
    <3>2. BB * (n + 1) = BB * n + BB
      BY <1>5, <2>2
    <3>3. BB * n + l <= BB * dlen
      BY <1>1, <1>5, <2>3, <3>1, <3>2
    <3>4. ~(n >= dlen)
      BY <2>2, <2>5
    <3> QED
      BY <2>1, <3>3, <3>4, Zenon DEF n
  <2> QED
    BY <2>2, <2>4, <2>5
<1>7. ASSUME ~full
      PROVE  d \in Seq(S) /\ Len(d) = dlen /\ Ends(y, a, l, d)
  <2>1. a \in S /\ a % 2 ^ BB = a
    <3>1. a < W
      <4> DEFINE m == BB - l
                 p == 2 ^ l
                 q == 2 ^ m
      <4>1. l \in 0..(2 * BB) /\ m \in 0..BB /\ m \in 0..(2 * BB) /\ l + m = BB
        BY <1>1, <1>5
      <4> HIDE DEF m
      <4>2. 2 ^ (l + m) = p * q
        BY <4>1, SmallSums
      <4>3. p \in Nat \ {0}
        BY <4>1, SmallPowers
      <4>4. q \in Nat \ {0}
        BY <4>1, SmallPowers
      <4>5. W = p * q /\ a < p
        BY <1>1, <4>1, <4>2, Zenon DEF W
      <4> HIDE DEF p, q
      <4>6. p * 1 <= p * q
        BY <4>3, <4>4
      <4>7. p * 1 = p /\ W \in Nat
        BY <1>5, <4>3
      <4>8. p <= W
        BY <4>5, <4>6, <4>7
      <4> QED
        BY <1>1, <4>3, <4>5, <4>7, <4>8
    <3>2. a = W * 0 + a /\ 0 \in Nat
      BY <1>1, <1>5
    <3>3. a % W = a
      BY <1>1, <1>5, <3>1, <3>2, DivIs
    <3>4. a \in S
      BY <1>1, <1>5, <3>1
    <3> QED
      BY <3>3, <3>4, Zenon DEF W
  <2> HIDE DEF y, a, l, S
  <2>2. /\ D \in Seq(S) /\ Len(D) \in Nat /\ Len(D) <= dlen /\ Len(y) <= Len(D)
        /\ \A k \in 1..Len(y) : D[k] = y[k]
        /\ l > 0 => Len(D) = Len(y) + 1 /\ D[Len(y) + 1] = a
        /\ ~(l > 0) => Len(D) = Len(y)
    <3>1. CASE l > 0
      <4>1. D = Append(y, a)
        BY <2>1, <3>1, Zenon
      <4> HIDE DEF D
      <4>2. D \in Seq(S) /\ Len(D) = Len(y) + 1 /\ D[Len(y) + 1] = a
        BY <1>1, <2>1, <4>1
      <4>3. \A k \in 1..Len(y) : D[k] = y[k]
        BY <1>1, <4>1
      <4>4. Len(y) + 1 <= dlen
        BY <1>1, <1>7, <3>1
      <4> QED
        BY <1>1, <3>1, <4>2, <4>3, <4>4
    <3>2. CASE ~(l > 0)
      <4>1. D = y
        BY <3>2, Zenon
      <4> HIDE DEF D
      <4> QED
        BY <1>1, <3>2, <4>1
    <3> QED
      BY <3>1, <3>2
  <2> HIDE DEF D
  <2>3. ASSUME NEW k \in 1..dlen PROVE (IF k <= Len(D) THEN D[k] ELSE 0) \in S
    <3>1. CASE k <= Len(D)
      <4>1. D[k] \in S
        BY <2>2, <3>1
      <4> QED
        BY <3>1, <4>1, Zenon
    <3>2. CASE ~(k <= Len(D))
      BY <1>5, <3>2, Zenon
    <3> QED
      BY <3>1, <3>2
  <2>4. d \in [1..dlen -> S]
    BY <2>3
  <2>5. d \in Seq(S) /\ Len(d) = dlen
    <3> HIDE DEF d
    <3> QED
      BY <2>4
  <2>6. \A k \in 1..dlen : d[k] = IF k <= Len(D) THEN D[k] ELSE 0
    BY Zenon
  <2> HIDE DEF d
  <2>7. \A k \in 1..dlen : k <= Len(D) => d[k] = D[k]
    BY <2>6, Zenon
  <2>8. \A k \in 1..dlen : ~(k <= Len(D)) => d[k] = 0
    BY <2>6, Zenon
  <2>9. Begins(y, d)
    <3>1. ASSUME NEW k \in 1..Len(y) PROVE y[k] = d[k]
      <4>1. k \in 1..dlen /\ k <= Len(D)
        BY <1>1, <2>2
      <4> QED
        BY <2>2, <2>7, <4>1, Zenon
    <3>2. Len(y) <= Len(d)
      BY <1>1, <2>5, Zenon
    <3> QED
      BY <3>1, <3>2, Zenon DEF Begins
  <2>10. ASSUME l > 0 PROVE Len(y) < Len(d) /\ d[Len(y) + 1] = a
    <3> DEFINE k == Len(y) + 1
    <3>1. k \in 1..dlen /\ k <= Len(D) /\ Len(y) < dlen /\ D[k] = a
      BY <1>1, <2>2, <2>10
    <3> HIDE DEF k
    <3>2. d[k] = a
      BY <2>7, <3>1, Zenon
    <3> QED
      BY <2>5, <3>1, <3>2, Zenon DEF k
  <2>11. ASSUME NEW k \in 1..Len(d), k > Len(y), ~(l > 0 /\ k = Len(y) + 1) PROVE d[k] = 0
    <3>1. k \in 1..dlen
      BY <2>5
    <3>2. ~(k <= Len(D))
      <4>1. CASE l > 0
        BY <1>1, <2>2, <2>11, <4>1
      <4>2. CASE ~(l > 0)
        BY <1>1, <2>2, <2>11, <4>2
      <4> QED
        BY <4>1, <4>2
    <3> QED
      BY <2>8, <3>1, <3>2, Zenon
  <2>12. Ends(y, a, l, d)
    BY <2>9, <2>10, <2>11, Zenon DEF Ends
  <2> QED
    BY <2>5, <2>12
<1> HIDE DEF d
<1>8. ASSUME ~full PROVE Finish(t, dlen) = [ok |-> TRUE, s |-> d]
  BY <1>3, <1>8, Zenon
<1> HIDE DEF full
<1> QED
  BY <1>4, <1>6, <1>7, <1>8, Zenon DEF S, y, a, l

\* Such a string goes on with what the accumulator holds.
LEMMA EndsAhead ==
  ASSUME NEW y, NEW a, NEW l, PackOK(y, a, l), NEW d, Ends(y, a, l, d)
  PROVE  Ahead(y, a, l, d)
<1>1. ASSUME l > 0 PROVE Len(y) < Len(d) /\ \E F \in Nat : d[Len(y) + 1] = a + 2 ^ l * F
  <2>1. Len(y) < Len(d) /\ d[Len(y) + 1] = a
    BY <1>1, Zenon DEF Ends
  <2> DEFINE p == 2 ^ l
  <2>2. a = a + p * 0
    <3>1. l \in 0..(2 * BB) /\ a \in Nat
      BY ByteSizes DEF PackOK
    <3>2. p \in Nat
      BY <3>1, SmallPowers
    <3> HIDE DEF p
    <3> QED
      BY <3>1, <3>2
  <2>3. 0 \in Nat
    OBVIOUS
  <2> QED
    BY <2>1, <2>2, <2>3, Zenon
<1>2. Begins(y, d)
  BY Zenon DEF Ends
<1> QED
  BY <1>1, <1>2, Zenon DEF Ahead

\* And when comp_decode() is there, nothing is left to read but zeros.
LEMMA EndsRead ==
  ASSUME NEW y, NEW a, NEW el, NEW c, NEW l, NEW j, NEW d \in Seq(0..(W - 1)), Joint(y, a, el, c, l, j, d),
         Ends(y, a, el, d)
  PROVE  c = 0 /\ \A k \in (j + 1)..Len(d) : d[k] = 0
<1>1. /\ a \in Nat /\ el \in 0..(BB - 1) /\ c \in Nat /\ l \in 0..(BB - 1) /\ c < 2 ^ l
      /\ Len(y) \in Nat /\ j \in Nat /\ Len(d) \in Nat /\ BB \in Nat
  BY ByteSizes DEF Joint, PackOK, ReadOK
<1>2. CASE el = 0 /\ l = 0 /\ Len(y) = j
  <2>1. c = 0
    <3>1. 2 ^ l = 1
      BY <1>2, Powers
    <3> QED
      BY <1>1, <3>1
  <2>2. ASSUME NEW k \in (j + 1)..Len(d) PROVE d[k] = 0
    <3>1. k \in 1..Len(d) /\ k > Len(y) /\ ~(el > 0)
      BY <1>1, <1>2
    <3> QED
      BY <3>1, Zenon DEF Ends
  <2> QED
    BY <2>1, <2>2
<1>3. CASE el + l = BB /\ j = Len(y) + 1 /\ d[j] = a + 2 ^ el * c
  <2>1. el > 0
    BY <1>1, <1>3
  <2>2. c = 0
    <3> DEFINE p == 2 ^ el
    <3>1. p \in Nat \ {0}
      <4>1. el \in 0..(2 * BB)
        BY <1>1
      <4> QED
        BY <4>1, SmallPowers
    <3>2. a + p * c = a
      BY <1>3, <2>1, Zenon DEF Ends
    <3> HIDE DEF p
    <3>3. p * c = 0
      <4>1. p * c \in Nat
        BY <1>1, <3>1
      <4> QED
        BY <1>1, <3>2, <4>1
    <3>4. CASE c >= 1
      <4>1. p * 1 <= p * c
        BY <1>1, <3>1, <3>4
      <4> QED
        BY <3>1, <3>3, <4>1
    <3> QED
      BY <1>1, <3>4
  <2>3. ASSUME NEW k \in (j + 1)..Len(d) PROVE d[k] = 0
    <3>1. k \in 1..Len(d) /\ k > Len(y) /\ k # Len(y) + 1
      BY <1>1, <1>3
    <3> QED
      BY <3>1, Zenon DEF Ends
  <2> QED
    BY <2>2, <2>3
<1> QED
  BY <1>2, <1>3 DEF Joint

\* Where comp_decode() is at the same bit as comp_encode() was, and comp_encode() has written
\* one coefficient more, comp_decode() reads that coefficient and is at the same bit again.
LEMMA ReadsBack ==
  ASSUME NEW d \in Seq(0..(W - 1)), NEW t, NEW u, Going(t, Len(d)), Going(u, Len(d)),
         NEW x \in Int, Abs(x) <= B_INF, u = CompAppend(t, x, Len(d)),
         Ahead(u.d, u.acc, u.acc_len, d),
         NEW s \in Seq(Int), NEW c, NEW l, NEW j, Joint(t.d, t.acc, t.acc_len, c, l, j, d)
  PROVE  \E c2, l2, j2 : /\ CompNext(Read(s, c, l, j), d) = Read(Append(s, x), c2, l2, j2)
                         /\ Joint(u.d, u.acc, u.acc_len, c2, l2, j2, d)
<1> DEFINE y == t.d
           a == t.acc
           el == t.acc_len
           yu == u.d
           au == u.acc
           elu == u.acc_len
<1>1. /\ PackOK(y, a, el) /\ t = Pack(y, a, el) /\ u = Pack(yu, au, elu) /\ Ahead(yu, au, elu, d)
      /\ Joint(y, a, el, c, l, j, d)
  BY Zenon DEF Going
<1> HIDE DEF y, a, el, yu, au, elu
<1>2. CompAppend(Pack(y, a, el), x, Len(d)) = Pack(yu, au, elu) /\ Len(d) \in Nat
  <2>1. CompAppend(Pack(y, a, el), x, Len(d)) = Pack(yu, au, elu)
    BY <1>1, Zenon
  <2>2. Len(d) \in Nat
    OBVIOUS
  <2> QED
    BY <2>1, <2>2
<1>3. Done1or2(y, a, el, x, au, elu, yu)
  BY <1>1, <1>2, AppendIs
<1>4. PICK F \in Nat :
            \/ OneByte(c, l, j, d, LowPart(x), High(x), F)
            \/ \E w \in Nat : High(x) = w + l /\ TwoBytes(c, l, j, d, LowPart(x), w, F)
  BY <1>1, <1>3, AppendSplits
<1>5. ReadOK(c, l, j, d) /\ Joint(y, a, el, c, l, j, d)
  BY <1>1, Zenon DEF Joint
<1>6. ASSUME NEW y2, NEW a2, NEW el2, CompAppend(Pack(y, a, el), x, Len(d)) = Pack(y2, a2, el2)
      PROVE  y2 = yu /\ a2 = au /\ el2 = elu
  <2>1. Pack(yu, au, elu) = Pack(y2, a2, el2)
    BY <1>2, <1>6, Zenon
  <2>2. Pack(y2, a2, el2).d = y2 /\ Pack(y2, a2, el2).acc = a2 /\ Pack(y2, a2, el2).acc_len = el2
    BY PackFields
  <2>3. Pack(yu, au, elu).d = yu /\ Pack(yu, au, elu).acc = au /\ Pack(yu, au, elu).acc_len = elu
    BY PackFields
  <2> QED
    BY <2>1, <2>2, <2>3, Zenon
<1>7. CASE OneByte(c, l, j, d, LowPart(x), High(x), F)
  <2>1. PICK y2, a2, el2 : /\ CompAppend(Pack(y, a, el), x, Len(d)) = Pack(y2, a2, el2)
                           /\ Joint(y2, a2, el2, F, l - (High(x) + 1), j + 1, d)
    BY <1>5, <1>7, JointOne
  <2>2. CompNext(Read(s, c, l, j), d) = Read(Append(s, x), F, l - (High(x) + 1), j + 1)
    BY <1>5, <1>7, NextTakesOne
  <2>3. y2 = yu /\ a2 = au /\ el2 = elu
    BY <1>6, <2>1, Zenon
  <2> QED
    BY <2>1, <2>2, <2>3, Zenon DEF yu, au, elu
<1>8. CASE \E w \in Nat : High(x) = w + l /\ TwoBytes(c, l, j, d, LowPart(x), w, F)
  <2>0. PICK w \in Nat : High(x) = w + l /\ TwoBytes(c, l, j, d, LowPart(x), w, F)
    BY <1>8
  <2>1. PICK y2, a2, el2 : /\ CompAppend(Pack(y, a, el), x, Len(d)) = Pack(y2, a2, el2)
                           /\ Joint(y2, a2, el2, F, BB - (w + 1), j + 2, d)
    BY <1>5, <2>0, JointTwo
  <2>2. CompNext(Read(s, c, l, j), d) = Read(Append(s, x), F, BB - (w + 1), j + 2)
    BY <1>5, <2>0, NextTakesTwo
  <2>3. y2 = yu /\ a2 = au /\ el2 = elu
    BY <1>6, <2>1, Zenon
  <2> QED
    BY <2>1, <2>2, <2>3, Zenon DEF yu, au, elu
<1> QED
  BY <1>4, <1>7, <1>8

\* After k coefficients: all fits so far, or never will.
Fits(t, s, k, dlen, bits) ==
    Going(t, dlen) /\ BitsIn(t) = bits /\ \A i \in 1..k : Abs(s[i]) <= B_INF
Lost(t, s, k, dlen, bits) ==
    t \in Records /\ ~t.ok /\ ((\E i \in 1..k : Abs(s[i]) > B_INF) \/ bits > BB * dlen)

\* The values of both loops after each coefficient.
LEMMA WrittenBits ==
  ASSUME NEW s \in Seq(Int), NEW dlen \in Nat,
         NEW g, Runs(g, <<"append", s, dlen>>, AppendStart, Len(s)),
         NEW b, Runs(b, <<"bits", s>>, 0, Len(s)), NEW k \in 0..Len(s)
  PROVE  /\ b[k] \in Nat
         /\ \/ \A i \in 0..k : Fits(g[i], s, i, dlen, b[i])
            \/ Lost(g[k], s, k, dlen, b[k])
<1> DEFINE All(k1) == \A i \in 0..k1 : Fits(g[i], s, i, dlen, b[i])
           Inv(k1) == b[k1] \in Nat /\ (All(k1) \/ Lost(g[k1], s, k1, dlen, b[k1]))
           S == {m \in Nat : m <= Len(s) => Inv(m)}
<1>1. 0 \in S
  <2>1. g[0] = AppendStart /\ b[0] = 0
    BY Zenon DEF Runs
  <2>2. AppendStart = Pack(<<>>, 0, 0)
    BY DEF AppendStart, Pack, Yes
  <2>3. g[0].d = <<>> /\ g[0].acc = 0 /\ g[0].acc_len = 0
    BY <2>1 DEF AppendStart
  <2>4. PackOK(<<>>, 0, 0)
    <3>1. 2 ^ 0 = 1 /\ 0 \in 0..(BB - 1)
      BY Powers, ByteSizes
    <3> QED
      BY <3>1 DEF PackOK
  <2>5. Len(<<>>) = 0 /\ 0 <= dlen /\ BB * 0 + 0 = 0 /\ \A i \in 1..0 : Abs(s[i]) <= B_INF
    BY ByteSizes
  <2>6. Going(g[0], dlen) /\ BitsIn(g[0]) = 0
    BY <2>1, <2>2, <2>3, <2>4, <2>5, Zenon DEF Going, BitsIn
  <2>7. Fits(g[0], s, 0, dlen, b[0])
    BY <2>1, <2>5, <2>6, Zenon DEF Fits
  <2>8. \A i \in 0..0 : i = 0
    OBVIOUS
  <2>9. All(0) /\ b[0] \in Nat
    <3>1. All(0)
      BY <2>7, <2>8, Zenon
    <3> QED
      BY <2>1, <3>1
  <2> HIDE DEF All
  <2> QED
    BY <2>9
<1>2. ASSUME NEW m \in Nat, m \in S PROVE m + 1 \in S
  <2> SUFFICES ASSUME m + 1 <= Len(s) PROVE Inv(m + 1)
    BY DEF S
  <2> DEFINE n == m + 1
             x == s[n]
  <2>1. Inv(m) /\ n \in 1..Len(s) /\ n - 1 = m /\ x \in Int /\ n \in 1..n
    BY <1>2
  <2> HIDE DEF Inv, n
  <2>2. g[n] = CompAppend(g[m], x, dlen)
    <3>1. g[n] = LoopStep(<<"append", s, dlen>>, g[m], n)
      BY <2>1, Zenon DEF Runs
    <3> QED
      BY <3>1 DEF LoopStep
  <2>3. b[n] = b[m] + BB + 1 + (Abs(x) \div H)
    <3>1. b[n] = LoopStep(<<"bits", s>>, b[m], n)
      BY <2>1, Zenon DEF Runs
    <3> QED
      BY <3>1 DEF LoopStep, H
  <2> HIDE DEF x
  <2>4. Abs(x) \in Nat /\ Abs(x) \div H \in Nat
    <3>1. Abs(x) \in Nat
      BY <2>1 DEF Abs
    <3> QED
      BY <3>1, ByteSizes, DivMod
  <2>5. b[m] \in Nat /\ b[n] \in Nat /\ b[n] >= b[m] /\ b[n] = b[m] + CodeLen(x)
    <3>1. b[m] \in Nat
      BY <2>1, Zenon DEF Inv
    <3> DEFINE h == Abs(x) \div H
               v == b[m]
    <3>2. h \in Nat /\ v \in Nat /\ b[n] = v + BB + 1 + h /\ CodeLen(x) = BB + h + 1
      BY <2>3, <2>4, <3>1 DEF CodeLen, High
    <3> HIDE DEF h, v
    <3>3. b[n] \in Nat /\ b[n] >= v /\ b[n] = v + CodeLen(x)
      BY <3>2, ByteSizes
    <3> QED
      BY <3>1, <3>3 DEF v
  <2>6. \A i \in 1..m : i \in 1..n
    BY <2>1
  <2>7. CASE Lost(g[m], s, m, dlen, b[m])
    <3>1. g[m] \in Records /\ ~g[m].ok
      BY <2>7, Zenon DEF Lost
    <3>2. g[n] \in Records /\ ~g[n].ok
      <4>1. /\ [g[m] EXCEPT !.ok = FALSE] \in Records /\ ~[g[m] EXCEPT !.ok = FALSE].ok
            /\ ~g[m].ok \/ Abs(x) > B_INF => CompAppend(g[m], x, dlen) = [g[m] EXCEPT !.ok = FALSE]
        BY <3>1, Refused, Zenon
      <4> QED
        BY <2>2, <3>1, <4>1, Zenon
    <3>3. CASE \E i \in 1..m : Abs(s[i]) > B_INF
      <4>1. \E i \in 1..n : Abs(s[i]) > B_INF
        BY <2>6, <3>3, Zenon
      <4> QED
        BY <2>5, <3>2, <4>1, Zenon DEF Lost, Inv, n
    <3>4. CASE b[m] > BB * dlen
      <4>1. b[n] > BB * dlen
        <5> DEFINE q == BB * dlen
        <5>1. q \in Nat /\ b[m] > q
          BY <3>4, ByteSizes
        <5> HIDE DEF q
        <5>2. b[n] > q
          BY <2>5, <5>1
        <5> QED
          BY <5>2 DEF q
      <4> QED
        BY <2>5, <3>2, <4>1, Zenon DEF Lost, Inv, n
    <3> QED
      BY <2>7, <3>3, <3>4, Zenon DEF Lost
  <2>8. CASE All(m)
    <3>1. Fits(g[m], s, m, dlen, b[m])
      <4>1. m \in 0..m
        OBVIOUS
      <4> QED
        BY <2>8, <4>1, Zenon
    <3>2. CASE Abs(x) > B_INF
      <4>1. g[m] \in Records
        <5>1. g[m] = Pack(g[m].d, g[m].acc, g[m].acc_len) /\ PackOK(g[m].d, g[m].acc, g[m].acc_len)
          BY <3>1, Zenon DEF Fits, Going
        <5>2. Pack(g[m].d, g[m].acc, g[m].acc_len) \in Records
          BY <5>1, PackTypes
        <5> QED
          BY <5>1, <5>2, Zenon
      <4>2. /\ [g[m] EXCEPT !.ok = FALSE] \in Records /\ ~[g[m] EXCEPT !.ok = FALSE].ok
            /\ ~g[m].ok \/ Abs(x) > B_INF => CompAppend(g[m], x, dlen) = [g[m] EXCEPT !.ok = FALSE]
        BY <4>1, Refused, Zenon
      <4>3. g[n] \in Records /\ ~g[n].ok
        BY <2>2, <3>2, <4>2, Zenon
      <4>4. \E i \in 1..n : Abs(s[i]) > B_INF
        BY <2>1, <3>2, Zenon DEF x
      <4> QED
        BY <2>5, <4>3, <4>4, Zenon DEF Lost, Inv, n
    <3>3. CASE ~(Abs(x) > B_INF)
      <4>1. Abs(x) <= B_INF
        BY <2>4, <3>3, ByteSizes
      <4>2. Going(g[m], dlen) /\ BitsIn(g[m]) = b[m]
        BY <3>1, Zenon DEF Fits
      <4>3. \/ Going(g[n], dlen) /\ BitsIn(g[n]) = BitsIn(g[m]) + CodeLen(x)
            \/ g[n] \in Records /\ ~g[n].ok /\ BitsIn(g[m]) + CodeLen(x) > BB * dlen
        <5> DEFINE t == g[m]
        <5>0. Going(t, dlen) /\ g[n] = CompAppend(t, x, dlen)
          BY <2>2, <4>2
        <5> HIDE DEF t
        <5>1. LET u == CompAppend(t, x, dlen)
              IN  \/ Going(u, dlen) /\ BitsIn(u) = BitsIn(t) + CodeLen(x)
                  \/ u \in Records /\ ~u.ok /\ BitsIn(t) + CodeLen(x) > BB * dlen
          BY <2>1, <4>1, <5>0, GoesOn
        <5> QED
          BY <5>0, <5>1, Zenon DEF t
      <4>4. CASE Going(g[n], dlen) /\ BitsIn(g[n]) = BitsIn(g[m]) + CodeLen(x)
        <5>1. \A i \in 1..n : Abs(s[i]) <= B_INF
          <6>1. \A i \in 1..n : i \in 1..m \/ i = n
            BY <2>1
          <6> QED
            BY <3>1, <4>1, <6>1, Zenon DEF Fits, x
        <5>2. Fits(g[n], s, n, dlen, b[n])
          BY <2>5, <4>2, <4>4, <5>1, Zenon DEF Fits
        <5>3. \A i \in 0..n : i \in 0..m \/ i = n
          BY <2>1
        <5>4. All(n)
          BY <2>8, <5>2, <5>3, Zenon
        <5> HIDE DEF All
        <5> QED
          BY <2>5, <5>4, Zenon DEF Inv, n
      <4>5. CASE g[n] \in Records /\ ~g[n].ok /\ BitsIn(g[m]) + CodeLen(x) > BB * dlen
        <5>1. b[n] > BB * dlen
          BY <2>5, <4>2, <4>5, Zenon
        <5> QED
          BY <2>5, <4>5, <5>1, Zenon DEF Lost, Inv, n
      <4> QED
        BY <4>3, <4>4, <4>5
    <3> QED
      BY <3>2, <3>3
  <2> QED
    BY <2>1, <2>7, <2>8, Zenon DEF Inv
<1>3. k \in S
  <2> HIDE DEF S
  <2>1. k \in Nat
    OBVIOUS
  <2> QED
    BY <1>1, <1>2, <2>1, NatSetInduction
<1>4. Inv(k)
  <2>1. k <= Len(s)
    OBVIOUS
  <2> HIDE DEF Inv
  <2> QED
    BY <1>3, <2>1
<1> QED
  BY <1>4, Zenon

\* Where every append went on, d goes on with what each of them left.
LEMMA AllAhead ==
  ASSUME NEW s \in Seq(Int), NEW d \in Seq(0..(W - 1)),
         NEW g, Runs(g, <<"append", s, Len(d)>>, AppendStart, Len(s)),
         \A i \in 0..Len(s) : Going(g[i], Len(d)), \A i \in 1..Len(s) : Abs(s[i]) <= B_INF,
         Ahead(g[Len(s)].d, g[Len(s)].acc, g[Len(s)].acc_len, d), NEW k \in 0..Len(s)
  PROVE  Ahead(g[k].d, g[k].acc, g[k].acc_len, d)
<1> DEFINE n == Len(s)
           Q(i) == Ahead(g[i].d, g[i].acc, g[i].acc_len, d)
           S == {m \in Nat : m <= n => Q(n - m)}
<1>0. n \in Nat
  OBVIOUS
<1> HIDE DEF n
<1>1. 0 \in S
  <2>1. n - 0 = n
    BY <1>0
  <2>2. Q(n)
    BY DEF n
  <2> HIDE DEF Q
  <2> QED
    BY <2>1, <2>2
<1>2. ASSUME NEW m \in Nat, m \in S PROVE m + 1 \in S
  <2> SUFFICES ASSUME m + 1 <= n PROVE Q(n - (m + 1))
    BY DEF S
  <2> DEFINE i == n - (m + 1)
             j == n - m
             x == s[j]
  <2>1. i \in 0..n /\ j \in 1..n /\ j - 1 = i /\ j \in 0..n
    BY <1>0
  <2>2. Q(j)
    <3> HIDE DEF Q
    <3> QED
      BY <1>0, <1>2
  <2> HIDE DEF i, j
  <2>3. x \in Int /\ Abs(x) <= B_INF
    <3>1. j \in 1..Len(s)
      BY <2>1 DEF n
    <3>2. s[j] \in Int
      BY <3>1
    <3>3. Abs(s[j]) <= B_INF
      BY <3>1, Zenon
    <3> QED
      BY <3>2, <3>3
  <2>4. g[j] = CompAppend(g[i], x, Len(d))
    <3>1. g[j] = LoopStep(<<"append", s, Len(d)>>, g[i], j)
      BY <2>1, Zenon DEF Runs, n
    <3> QED
      BY <3>1 DEF LoopStep
  <2> HIDE DEF x
  <2> DEFINE y == g[i].d
             a == g[i].acc
             l == g[i].acc_len
             y2 == g[j].d
             a2 == g[j].acc
             l2 == g[j].acc_len
  <2>5. PackOK(y, a, l) /\ g[i] = Pack(y, a, l) /\ g[j] = Pack(y2, a2, l2)
    BY <2>1, Zenon DEF Going, n
  <2>6. Begins(y2, d)
    BY <2>2, Zenon DEF Ahead
  <2> HIDE DEF y, a, l, y2, a2, l2
  <2>7. CompAppend(Pack(y, a, l), x, Len(d)) = Pack(y2, a2, l2)
    BY <2>4, <2>5, Zenon
  <2>8. PackOK(y, a, l) /\ Len(d) \in Nat
    <3>1. Len(d) \in Nat
      OBVIOUS
    <3> QED
      BY <2>5, <3>1, Zenon
  <2>9. Done1or2(y, a, l, x, a2, l2, y2)
    BY <2>3, <2>7, <2>8, AppendIs
  <2>10. Ahead(y, a, l, d)
    BY <2>3, <2>6, <2>8, <2>9, AheadBack
  <2> QED
    BY <2>10, Zenon DEF y, a, l, i
<1>3. n - k \in S
  <2> HIDE DEF S
  <2>1. n - k \in Nat
    BY DEF n
  <2> QED
    BY <1>1, <1>2, <2>1, NatSetInduction
<1>4. n - k <= n /\ n - (n - k) = k
  BY <1>0 DEF n
<1> HIDE DEF Q
<1>5. Q(k)
  BY <1>3, <1>4
<1> QED
  BY <1>5, Zenon DEF Q

\* What comp_decode() has read when it is at the same bit of d as t, after k coefficients of s.
ReadTo(r, t, s, k, d) ==
    \E u \in Seq(Int) : \E c, l, j :
        /\ r = Read(u, c, l, j) /\ Len(u) = k /\ \A i \in 1..k : u[i] = s[i]
        /\ Joint(t.d, t.acc, t.acc_len, c, l, j, d)

\* There, it reads the next one.
LEMMA ReadToNext ==
  ASSUME NEW d \in Seq(0..(W - 1)), NEW s, NEW t, NEW w, NEW r, NEW k \in Nat, ReadTo(r, t, s, k, d),
         s[k + 1] \in Int, Abs(s[k + 1]) <= B_INF,
         Going(t, Len(d)), Going(w, Len(d)), w = CompAppend(t, s[k + 1], Len(d)),
         Ahead(w.d, w.acc, w.acc_len, d)
  PROVE  ReadTo(CompNext(r, d), w, s, k + 1, d)
<1> DEFINE x == s[k + 1]
<1>1. PICK u \in Seq(Int) : \E c, l, j :
        /\ r = Read(u, c, l, j) /\ Len(u) = k /\ \A i \in 1..k : u[i] = s[i]
        /\ Joint(t.d, t.acc, t.acc_len, c, l, j, d)
  BY Zenon DEF ReadTo
<1>2. PICK c, l, j :
        /\ r = Read(u, c, l, j) /\ Len(u) = k /\ \A i \in 1..k : u[i] = s[i]
        /\ Joint(t.d, t.acc, t.acc_len, c, l, j, d)
  BY <1>1, Zenon
<1>3. x \in Int /\ Abs(x) <= B_INF /\ w = CompAppend(t, x, Len(d))
  OBVIOUS
<1>4. Joint(t.d, t.acc, t.acc_len, c, l, j, d)
  BY <1>2, Zenon
<1> HIDE DEF x
<1>5. PICK c2, l2, j2 : /\ CompNext(Read(u, c, l, j), d) = Read(Append(u, x), c2, l2, j2)
                        /\ Joint(w.d, w.acc, w.acc_len, c2, l2, j2, d)
  BY <1>3, <1>4, ReadsBack
<1> DEFINE v == Append(u, x)
<1>6. v \in Seq(Int) /\ Len(v) = k + 1 /\ \A i \in 1..(k + 1) : v[i] = s[i]
  <2>1. v \in Seq(Int) /\ Len(v) = k + 1 /\ v[k + 1] = x
    BY <1>2, <1>3
  <2>2. ASSUME NEW i \in 1..(k + 1), i # k + 1 PROVE v[i] = s[i]
    <3>1. i \in 1..k
      BY <2>2
    <3>2. v[i] = u[i]
      BY <1>2, <1>3, <3>1
    <3> QED
      BY <1>2, <3>1, <3>2, Zenon
  <2> HIDE DEF v
  <2> QED
    BY <2>1, <2>2, Zenon DEF x
<1>7. CompNext(r, d) = Read(v, c2, l2, j2)
  BY <1>2, <1>5, Zenon
<1> HIDE DEF v
<1> QED
  BY <1>5, <1>6, <1>7, Zenon DEF ReadTo

\* At the end of d, the vector has been read.
LEMMA ReadToEnd ==
  ASSUME NEW d \in Seq(0..(W - 1)), NEW s \in Seq(Int), NEW t, NEW r, ReadTo(r, t, s, Len(s), d),
         Ends(t.d, t.acc, t.acc_len, d)
  PROVE  Result(r, d) = [ok |-> TRUE, s |-> s]
<1>1. PICK u \in Seq(Int) : \E c, l, j :
        /\ r = Read(u, c, l, j) /\ Len(u) = Len(s) /\ \A i \in 1..Len(s) : u[i] = s[i]
        /\ Joint(t.d, t.acc, t.acc_len, c, l, j, d)
  BY Zenon DEF ReadTo
<1>2. PICK c, l, j :
        /\ r = Read(u, c, l, j) /\ Len(u) = Len(s) /\ \A i \in 1..Len(s) : u[i] = s[i]
        /\ Joint(t.d, t.acc, t.acc_len, c, l, j, d)
  BY <1>1, Zenon
<1>3. u = s
  <2>1. Len(u) = Len(s) /\ \A i \in 1..Len(s) : u[i] = s[i]
    BY <1>2, Zenon
  <2>2. u = [i \in 1..Len(u) |-> u[i]]
    OBVIOUS
  <2>3. s = [i \in 1..Len(s) |-> s[i]]
    OBVIOUS
  <2> QED
    BY <2>1, <2>2, <2>3, Zenon
<1> DEFINE y == t.d
           a == t.acc
           el == t.acc_len
<1>4. Joint(y, a, el, c, l, j, d) /\ Ends(y, a, el, d)
  BY <1>2, Zenon
<1> HIDE DEF y, a, el
<1>5. c = 0 /\ \A k \in (j + 1)..Len(d) : d[k] = 0
  BY <1>4, EndsRead
<1>6. r.ok /\ r.s = s /\ r.acc = c /\ r.j = j
  <2>1. Read(u, c, l, j).ok /\ Read(u, c, l, j).s = u /\ Read(u, c, l, j).acc = c /\ Read(u, c, l, j).j = j
    BY ReadFields
  <2> QED
    BY <1>2, <1>3, <2>1, Zenon
<1> QED
  BY <1>5, <1>6, Zenon DEF Result

\* comp_decode() reads back what comp_encode() wrote.
LEMMA AllReadBack ==
  ASSUME NEW s \in Seq(Int), NEW d \in Seq(0..(W - 1)),
         NEW g, Runs(g, <<"append", s, Len(d)>>, AppendStart, Len(s)),
         \A i \in 0..Len(s) : Going(g[i], Len(d)), \A i \in 1..Len(s) : Abs(s[i]) <= B_INF,
         Ends(g[Len(s)].d, g[Len(s)].acc, g[Len(s)].acc_len, d)
  PROVE  comp_decode(Len(s), d) = [ok |-> TRUE, s |-> s]
<1> DEFINE n == Len(s)
<1>0. n \in Nat
  OBVIOUS
<1>1. PICK h : comp_decode(n, d) = Result(h[n], d) /\ Runs(h, <<"next", d>>, NextStart, n)
  BY <1>0, NextLoop
<1> DEFINE S == {i \in Nat : i <= n => ReadTo(h[i], g[i], s, i, d)}
<1>2. Ahead(g[n].d, g[n].acc, g[n].acc_len, d)
  <2> DEFINE y == g[n].d
             a == g[n].acc
             el == g[n].acc_len
  <2>1. n \in 0..n
    BY <1>0
  <2>2. PackOK(y, a, el) /\ Ends(y, a, el, d)
    BY <2>1, Zenon DEF Going
  <2> HIDE DEF y, a, el
  <2>3. Ahead(y, a, el, d)
    BY <2>2, EndsAhead
  <2> QED
    BY <2>3, Zenon DEF y, a, el
<1>3. \A k \in 0..n : Ahead(g[k].d, g[k].acc, g[k].acc_len, d)
  BY <1>2, AllAhead
<1>4. 0 \in S
  <2>1. h[0] = NextStart /\ g[0] = AppendStart
    BY <1>1, Zenon DEF Runs
  <2>2. NextStart = Read(<<>>, 0, 0, 0)
    BY DEF NextStart, Read, Yes
  <2>3. g[0].d = <<>> /\ g[0].acc = 0 /\ g[0].acc_len = 0
    BY <2>1 DEF AppendStart
  <2>4. Joint(<<>>, 0, 0, 0, 0, 0, d)
    <3>1. 2 ^ 0 = 1 /\ 0 \in 0..(BB - 1) /\ Len(d) \in Nat
      BY Powers, ByteSizes
    <3>2. PackOK(<<>>, 0, 0)
      BY <3>1 DEF PackOK
    <3>3. ReadOK(0, 0, 0, d)
      BY <3>1 DEF ReadOK
    <3>4. Begins(<<>>, d)
      BY <3>1 DEF Begins
    <3> QED
      BY <3>2, <3>3, <3>4 DEF Joint
  <2>5. <<>> \in Seq(Int) /\ Len(<<>>) = 0 /\ \A i \in 1..0 : <<>>[i] = s[i]
    OBVIOUS
  <2>6. ReadTo(h[0], g[0], s, 0, d)
    BY <2>1, <2>2, <2>3, <2>4, <2>5, Zenon DEF ReadTo
  <2> QED
    BY <2>6
<1>5. ASSUME NEW i \in Nat, i \in S PROVE i + 1 \in S
  <2> SUFFICES ASSUME i + 1 <= n PROVE ReadTo(h[i + 1], g[i + 1], s, i + 1, d)
    BY DEF S
  <2> DEFINE m == i + 1
             x == s[m]
  <2>1. ReadTo(h[i], g[i], s, i, d) /\ m \in 1..n /\ m - 1 = i /\ i \in 0..n /\ m \in 0..n
    BY <1>0, <1>5
  <2> HIDE DEF m
  <2>2. x \in Int /\ Abs(x) <= B_INF
    <3>1. s[m] \in Int
      BY <2>1
    <3>2. Abs(s[m]) <= B_INF
      BY <2>1, Zenon
    <3> QED
      BY <3>1, <3>2
  <2>3. g[m] = CompAppend(g[i], s[m], Len(d))
    <3>1. g[m] = LoopStep(<<"append", s, Len(d)>>, g[i], m)
      BY <2>1, Zenon DEF Runs
    <3> QED
      BY <3>1 DEF LoopStep
  <2>4. h[m] = CompNext(h[i], d)
    <3>1. h[m] = LoopStep(<<"next", d>>, h[i], m)
      BY <1>1, <2>1, Zenon DEF Runs
    <3> QED
      BY <3>1 DEF LoopStep
  <2>5. Going(g[i], Len(d)) /\ Going(g[m], Len(d)) /\ Ahead(g[m].d, g[m].acc, g[m].acc_len, d)
    BY <1>3, <2>1, Zenon
  <2> DEFINE t == g[i]
             w == g[m]
             r == h[i]
  <2>6. /\ Going(t, Len(d)) /\ Going(w, Len(d)) /\ Ahead(w.d, w.acc, w.acc_len, d)
        /\ ReadTo(r, t, s, i, d) /\ w = CompAppend(t, s[i + 1], Len(d))
        /\ s[i + 1] \in Int /\ Abs(s[i + 1]) <= B_INF
    BY <2>1, <2>2, <2>3, <2>5, Zenon DEF m
  <2> HIDE DEF t, w, r
  <2>7. ReadTo(CompNext(r, d), w, s, i + 1, d)
    BY <2>6, ReadToNext
  <2> QED
    BY <2>4, <2>7, Zenon DEF m, w, r
<1>6. ReadTo(h[n], g[n], s, n, d)
  <2>1. Nat \subseteq S
    <3> HIDE DEF S
    <3> QED
      BY <1>4, <1>5, NatSetInduction
  <2>2. n <= n
    BY <1>0
  <2> QED
    BY <1>0, <2>1, <2>2
<1> DEFINE t == g[n]
           r == h[n]
<1>7. ReadTo(r, t, s, Len(s), d) /\ Ends(t.d, t.acc, t.acc_len, d)
  BY <1>6
<1> HIDE DEF t, r
<1>8. Result(r, d) = [ok |-> TRUE, s |-> s]
  BY <1>7, ReadToEnd
<1> QED
  BY <1>1, <1>8, Zenon DEF r

\* comp_encode() refuses a vector exactly when a coefficient is too large or the bits do not
\* fit; what it writes is read back by comp_decode().
THEOREM VectorCanonical ==
  ASSUME NEW s \in Seq(Int), NEW dlen \in Nat
  PROVE  /\ comp_encode(s, dlen).ok <=> InBound(s) /\ BitsOf(s) <= BB * dlen
         /\ comp_encode(s, dlen).ok =>
               comp_decode(Len(s), comp_encode(s, dlen).s) = [ok |-> TRUE, s |-> s]
<1> DEFINE n == Len(s)
           e == comp_encode(s, dlen)
<1>0. n \in Nat /\ n \in 0..n /\ DOMAIN s = 1..n
  OBVIOUS
<1>1. PICK g : e = Finish(g[n], dlen) /\ Runs(g, <<"append", s, dlen>>, AppendStart, n)
  BY <1>0, AppendLoop, Zenon
<1>2. PICK b : BitsOf(s) = b[n] /\ Runs(b, <<"bits", s>>, 0, n)
  BY <1>0, BitsLoop, Zenon
<1>3. /\ b[n] \in Nat
      /\ (\A i \in 0..n : Fits(g[i], s, i, dlen, b[i])) \/ Lost(g[n], s, n, dlen, b[n])
  BY <1>0, <1>1, <1>2, WrittenBits
<1> HIDE DEF e
<1>4. CASE Lost(g[n], s, n, dlen, b[n])
  <2>1. ~e.ok
    <3>1. ~g[n].ok
      BY <1>4, Zenon DEF Lost
    <3>2. Finish(g[n], dlen) = Bad
      BY <3>1, Zenon DEF Finish
    <3>3. ~Bad.ok
      BY DEF Bad
    <3> QED
      BY <1>1, <3>2, <3>3, Zenon
  <2>2. ~(InBound(s) /\ BitsOf(s) <= BB * dlen)
    <3>1. CASE \E i \in 1..n : Abs(s[i]) > B_INF
      <4>1. PICK i \in 1..n : Abs(s[i]) > B_INF
        BY <3>1
      <4> DEFINE v == Abs(s[i])
      <4>2. v \in Int
        <5>1. s[i] \in Int
          OBVIOUS
        <5> QED
          BY <5>1 DEF Abs
      <4>3. ~(v <= B_INF)
        <5>1. v > B_INF
          BY <4>1
        <5> HIDE DEF v
        <5> QED
          BY <4>2, <5>1, ByteSizes
      <4> QED
        BY <1>0, <4>3, Zenon DEF InBound
    <3>2. CASE b[n] > BB * dlen
      <4> DEFINE v == b[n]
                 q == BB * dlen
      <4>1. v \in Nat /\ q \in Nat /\ v > q
        BY <1>3, <3>2, ByteSizes
      <4> HIDE DEF v, q
      <4>2. ~(v <= q)
        BY <4>1
      <4> QED
        BY <1>2, <4>2, Zenon DEF v, q
    <3> QED
      BY <1>4, <3>1, <3>2, Zenon DEF Lost
  <2> QED
    BY <2>1, <2>2, Zenon DEF e
<1>5. CASE \A i \in 0..n : Fits(g[i], s, i, dlen, b[i])
  <2>1. /\ \A i \in 0..n : Going(g[i], dlen)
        /\ BitsIn(g[n]) = b[n] /\ \A i \in 1..n : Abs(s[i]) <= B_INF
    BY <1>0, <1>5, Zenon DEF Fits
  <2> DEFINE t == g[n]
  <2>2. Going(t, dlen)
    BY <1>0, <2>1, Zenon
  <2> HIDE DEF t
  <2>3. /\ Finish(t, dlen).ok <=> BitsIn(t) <= BB * dlen
        /\ Finish(t, dlen).ok =>
              \E d \in Seq(0..(W - 1)) : /\ Finish(t, dlen) = [ok |-> TRUE, s |-> d] /\ Len(d) = dlen
                                         /\ Ends(t.d, t.acc, t.acc_len, d)
    BY <2>2, FinishIs
  <2>4. e.ok <=> BitsOf(s) <= BB * dlen
    BY <1>1, <1>2, <2>1, <2>3, Zenon DEF t
  <2>5. InBound(s)
    BY <1>0, <2>1, Zenon DEF InBound
  <2>6. ASSUME e.ok PROVE comp_decode(n, e.s) = [ok |-> TRUE, s |-> s]
    <3>1. PICK d \in Seq(0..(W - 1)) : /\ Finish(t, dlen) = [ok |-> TRUE, s |-> d] /\ Len(d) = dlen
                                       /\ Ends(t.d, t.acc, t.acc_len, d)
      BY <1>1, <2>3, <2>6, Zenon DEF t
    <3>2. e.s = d
      <4>1. [ok |-> TRUE, s |-> d].s = d
        OBVIOUS
      <4> QED
        BY <1>1, <3>1, <4>1, Zenon DEF t
    <3>3. /\ Runs(g, <<"append", s, Len(d)>>, AppendStart, Len(s))
          /\ \A i \in 0..Len(s) : Going(g[i], Len(d))
          /\ \A i \in 1..Len(s) : Abs(s[i]) <= B_INF
          /\ Ends(g[Len(s)].d, g[Len(s)].acc, g[Len(s)].acc_len, d)
      BY <1>1, <2>1, <3>1, Zenon DEF t
    <3>4. comp_decode(Len(s), d) = [ok |-> TRUE, s |-> s]
      BY <3>3, AllReadBack
    <3> QED
      BY <3>2, <3>4, Zenon
  <2> QED
    BY <2>4, <2>5, <2>6, Zenon DEF e
<1> QED
  BY <1>3, <1>4, <1>5

\* What the compression jobs are.
CompJobOK ==
    /\ job.kind = "string" => job.d \in Seq(0..(W - 1)) /\ Len(job.d) = CompLen
    /\ job.kind = "vector" => job.s \in Seq(Int) /\ Len(job.s) = 2

\* Every compression job of run codec is one of those.
LEMMA CompJobs == Spec => []CompJobOK
<1>1. Init => CompJobOK
  BY DEF Init, CompJobOK
<1>2. ASSUME CompJobOK, [Next]_job PROVE CompJobOK'
  <2>1. CASE CompString
    <3>1. PICK d \in Seqs(0..(2 ^ BB - 1), CompLen) : job' = [kind |-> "string", d |-> d]
      BY <2>1 DEF CompString
    <3> DEFINE S == 0..(W - 1)
    <3>2. d \in [1..CompLen -> S] /\ CompLen \in Nat
      BY CompJobAssumption DEF Seqs, W
    <3> HIDE DEF S
    <3>3. d \in Seq(S) /\ Len(d) = CompLen
      BY <3>2
    <3>4. job'.kind = "string" /\ job'.d = d
      BY <3>1
    <3> QED
      BY <3>3, <3>4 DEF CompJobOK, S
  <2>2. CASE CompVector
    <3>1. PICK s \in Seqs(-CoefMax..CoefMax, 2) : job' = [kind |-> "vector", s |-> s]
      BY <2>2 DEF CompVector
    <3>2. s \in [1..2 -> Int]
      BY <3>1, CompJobAssumption DEF Seqs
    <3>3. s \in Seq(Int) /\ Len(s) = 2
      <4> DEFINE n == 2
      <4>1. s \in [1..n -> Int] /\ n \in Nat
        BY <3>2
      <4> HIDE DEF n
      <4>2. s \in Seq(Int) /\ Len(s) = n
        BY <4>1
      <4> QED
        BY <4>2 DEF n
    <3>4. job'.kind = "vector" /\ job'.s = s
      BY <3>1
    <3> QED
      BY <3>3, <3>4 DEF CompJobOK
  <2>3. CASE job' = job
    BY <1>2, <2>3 DEF CompJobOK
  <2>4. CASE TrimVector \/ PublicVector \/ LegacyString \/ Hash \/ SignTwo \/ SignOne \/ Done
    <3>1. TrimVector => job'.kind \notin {"string", "vector"}
      BY DEF TrimVector
    <3>2. PublicVector => job'.kind \notin {"string", "vector"}
      BY DEF PublicVector
    <3>3. LegacyString => job'.kind \notin {"string", "vector"}
      BY DEF LegacyString
    <3>4. Hash => job'.kind \notin {"string", "vector"}
      BY DEF Hash
    <3>5. SignTwo => job'.kind \notin {"string", "vector"}
      BY DEF SignTwo
    <3>6. SignOne => job'.kind \notin {"string", "vector"}
      BY DEF SignOne
    <3>7. Done => job'.kind \notin {"string", "vector"}
      BY DEF Done
    <3> QED
      BY <2>4, <3>1, <3>2, <3>3, <3>4, <3>5, <3>6, <3>7 DEF CompJobOK
  <2> QED
    BY <1>2, <2>1, <2>2, <2>3, <2>4 DEF Next, Pick
<1> QED
  BY <1>1, <1>2, PTL DEF Spec

\* StringCanonical and VectorCanonical, as run codec states them: a signature has one encoding,
\* and the encoder refuses exactly what does not fit.
THEOREM SignatureEncodings == Spec => []CompressedCanonical
<1>1. CompJobOK => CompressedCanonical
  <2> SUFFICES ASSUME CompJobOK PROVE CompressedCanonical
    OBVIOUS
  <2>1. ASSUME job.kind = "string"
        PROVE  LET r == comp_decode(2, job.d)
               IN  r.ok => InBound(r.s) /\ comp_encode(r.s, CompLen) = [ok |-> TRUE, s |-> job.d]
    <3> DEFINE d == job.d
    <3>1. d \in Seq(0..(W - 1)) /\ Len(d) = CompLen /\ 2 \in Nat
      BY <2>1 DEF CompJobOK
    <3> HIDE DEF d
    <3>2. ASSUME comp_decode(2, d).ok
          PROVE  /\ InBound(comp_decode(2, d).s)
                 /\ comp_encode(comp_decode(2, d).s, Len(d)) = [ok |-> TRUE, s |-> d]
      BY <3>1, <3>2, StringCanonical
    <3> QED
      BY <3>1, <3>2, Zenon DEF d
  <2>2. ASSUME job.kind = "vector", NEW dlen \in 1..(CompLen + 1)
        PROVE  LET e == comp_encode(job.s, dlen)
               IN  /\ e.ok <=> InBound(job.s) /\ BitsOf(job.s) <= BB * dlen
                   /\ e.ok => comp_decode(2, e.s) = [ok |-> TRUE, s |-> job.s]
    <3> DEFINE s == job.s
    <3>1. s \in Seq(Int) /\ Len(s) = 2 /\ dlen \in Nat
      BY <2>2, CompJobAssumption DEF CompJobOK
    <3> HIDE DEF s
    <3>2. /\ comp_encode(s, dlen).ok <=> InBound(s) /\ BitsOf(s) <= BB * dlen
          /\ comp_encode(s, dlen).ok =>
                comp_decode(Len(s), comp_encode(s, dlen).s) = [ok |-> TRUE, s |-> s]
      BY <3>1, VectorCanonical
    <3> QED
      BY <3>1, <3>2, Zenon DEF s
  <2> QED
    BY <2>1, <2>2, Zenon DEF CompressedCanonical
<1> QED
  BY <1>1, CompJobs, PTL

-----------------------------------------------------------------------------
(* Hash-to-point.                                                            *)

\* The reference: the samples that are kept.
LEMMA KeptLoop ==
  ASSUME NEW s, Len(s) \in Nat
  PROVE  \E h : Kept(s) = h[Len(s)] /\ Runs(h, <<"kept", s>>, <<>>, Len(s))
<1> DEFINE loop == <<"kept", s>>
           d == <<>>
           step(x, k) == KeepLow(x, s[k])
           E(h) == h = [k \in 0..Len(s) |-> IF k = 0 THEN d ELSE step(h[k - 1], k)]
           f == CHOOSE h : E(h)
<1>1. ASSUME NEW x, NEW k PROVE LoopStep(loop, x, k) = step(x, k)
  BY DEF LoopStep
<1>2. Kept(s) = f[Len(s)]
  BY DEF Kept
<1> HIDE DEF loop, d, step
<1>3. \E h : Iterates(h, loop, d, Len(s))
  <2> HIDE DEF E, f
  <2> QED
    BY LoopExists
<1>4. PICK h : Iterates(h, loop, d, Len(s))
  BY <1>3
<1>5. E(h)
  BY <1>1, <1>4, Zenon DEF Iterates
<1>6. E(f)
  <2> HIDE DEF E
  <2> QED
    BY <1>5, Zenon
<1> HIDE DEF f
<1>7. f[0] = d
  <2>1. 0 \in 0..Len(s)
    OBVIOUS
  <2> QED
    BY <1>6, <2>1, Zenon
<1>8. ASSUME NEW k \in 1..Len(s) PROVE f[k] = LoopStep(loop, f[k - 1], k)
  <2>1. k \in 0..Len(s) /\ k # 0
    OBVIOUS
  <2> QED
    BY <1>1, <1>6, <2>1, Zenon
<1>9. Runs(f, loop, d, Len(s))
  BY <1>7, <1>8, Zenon DEF Runs
<1> QED
  BY <1>2, <1>9, Zenon DEF loop, d

\* The loop of hash_to_point_vartime().
LEMMA VartimeLoop ==
  ASSUME NEW s, Len(s) \in Nat, NEW n
  PROVE  \E h : hash_to_point_vartime(n, s) = h[Len(s)] /\ Runs(h, <<"vartime", s, n>>, <<>>, Len(s))
<1> DEFINE loop == <<"vartime", s, n>>
           d == <<>>
           step(x, k) == With(x, LAMBDA t : KeepSample(t, n, s[k]))
           E(h) == h = [k \in 0..Len(s) |-> IF k = 0 THEN d ELSE step(h[k - 1], k)]
           f == CHOOSE h : E(h)
<1>1. ASSUME NEW x, NEW k PROVE LoopStep(loop, x, k) = step(x, k)
  BY DEF LoopStep, With
<1>2. hash_to_point_vartime(n, s) = f[Len(s)]
  BY DEF hash_to_point_vartime
<1> HIDE DEF loop, d, step
<1>3. \E h : Iterates(h, loop, d, Len(s))
  <2> HIDE DEF E, f
  <2> QED
    BY LoopExists
<1>4. PICK h : Iterates(h, loop, d, Len(s))
  BY <1>3
<1>5. E(h)
  BY <1>1, <1>4, Zenon DEF Iterates
<1>6. E(f)
  <2> HIDE DEF E
  <2> QED
    BY <1>5, Zenon
<1> HIDE DEF f
<1>7. f[0] = d
  <2>1. 0 \in 0..Len(s)
    OBVIOUS
  <2> QED
    BY <1>6, <2>1, Zenon
<1>8. ASSUME NEW k \in 1..Len(s) PROVE f[k] = LoopStep(loop, f[k - 1], k)
  <2>1. k \in 0..Len(s) /\ k # 0
    OBVIOUS
  <2> QED
    BY <1>1, <1>6, <2>1, Zenon
<1>9. Runs(f, loop, d, Len(s))
  BY <1>7, <1>8, Zenon DEF Runs
<1> QED
  BY <1>2, <1>9, Zenon DEF loop, d

\* The loop of hash_to_point().
LEMMA BlockLoop ==
  ASSUME NEW s, Len(s) \in Nat, NEW n
  PROVE  \E h : hash_to_point(n, s) = h[Len(s)].c /\ Runs(h, <<"block", s, n>>, HashStart, Len(s))
<1> DEFINE loop == <<"block", s, n>>
           d == HashStart
           step(x, k) == With(x, LAMBDA t : HashIteration(t, n, s))
           E(h) == h = [k \in 0..Len(s) |-> IF k = 0 THEN d ELSE step(h[k - 1], k)]
           f == CHOOSE h : E(h)
<1>1. ASSUME NEW x, NEW k PROVE LoopStep(loop, x, k) = step(x, k)
  BY DEF LoopStep, With
<1>2. hash_to_point(n, s) = f[Len(s)].c
  BY DEF hash_to_point
<1> HIDE DEF loop, d, step
<1>3. \E h : Iterates(h, loop, d, Len(s))
  <2> HIDE DEF E, f
  <2> QED
    BY LoopExists
<1>4. PICK h : Iterates(h, loop, d, Len(s))
  BY <1>3
<1>5. E(h)
  BY <1>1, <1>4, Zenon DEF Iterates
<1>6. E(f)
  <2> HIDE DEF E
  <2> QED
    BY <1>5, Zenon
<1> HIDE DEF f
<1>7. f[0] = d
  <2>1. 0 \in 0..Len(s)
    OBVIOUS
  <2> QED
    BY <1>6, <2>1, Zenon
<1>8. ASSUME NEW k \in 1..Len(s) PROVE f[k] = LoopStep(loop, f[k - 1], k)
  <2>1. k \in 0..Len(s) /\ k # 0
    OBVIOUS
  <2> QED
    BY <1>1, <1>6, <2>1, Zenon
<1>9. Runs(f, loop, d, Len(s))
  BY <1>7, <1>8, Zenon DEF Runs
<1> QED
  BY <1>2, <1>9, Zenon DEF loop, d

\* One pass of hash_to_point_ct().
LEMMA PassLoop ==
  ASSUME NEW a, NEW m \in Nat, NEW p
  PROVE  \E h : SqueezePass(a, m, p) = h[m].a /\ Runs(h, <<"pass", p>>, [v |-> 0, a |-> a], m)
<1> DEFINE loop == <<"pass", p>>
           d == [v |-> 0, a |-> a]
           step(x, k) == With(x, LAMBDA t : SqueezeStep(t, k - 1, p))
           E(h) == h = [k \in 0..m |-> IF k = 0 THEN d ELSE step(h[k - 1], k)]
           f == CHOOSE h : E(h)
<1>1. ASSUME NEW x, NEW k PROVE LoopStep(loop, x, k) = step(x, k)
  BY DEF LoopStep, With
<1>2. SqueezePass(a, m, p) = f[m].a
  BY DEF SqueezePass
<1> HIDE DEF loop, d, step
<1>3. \E h : Iterates(h, loop, d, m)
  <2> HIDE DEF E, f
  <2> QED
    BY LoopExists
<1>4. PICK h : Iterates(h, loop, d, m)
  BY <1>3
<1>5. E(h)
  BY <1>1, <1>4, Zenon DEF Iterates
<1>6. E(f)
  <2> HIDE DEF E
  <2> QED
    BY <1>5, Zenon
<1> HIDE DEF f
<1>7. f[0] = d
  <2>1. 0 \in 0..m
    OBVIOUS
  <2> QED
    BY <1>6, <2>1, Zenon
<1>8. ASSUME NEW k \in 1..m PROVE f[k] = LoopStep(loop, f[k - 1], k)
  <2>1. k \in 0..m /\ k # 0
    OBVIOUS
  <2> QED
    BY <1>1, <1>6, <2>1, Zenon
<1>9. Runs(f, loop, d, m)
  BY <1>7, <1>8, Zenon DEF Runs
<1> QED
  BY <1>2, <1>9, Zenon DEF loop, d

-----------------------------------------------------------------------------
\* Where hash_to_point() stands after k samples: bytes j of block blocks - 1.
StandsAt(t, k) ==
    /\ t.blocks \in Nat /\ t.j \in Nat /\ t.j % 2 = 0 /\ t.j <= Block
    /\ (t.blocks - 1) * (Block \div 2) + t.j \div 2 = k

\* hash_to_point() and hash_to_point_vartime() after k samples.
SameAfter(t, c, n, k) ==
    /\ t.c = c /\ c \in Seq(Nat) /\ Len(c) <= n
    /\ Len(c) < n => StandsAt(t, k)

\* One more sample: the block and the place in it are those of sample k + 1.
LEMMA SameSample ==
  ASSUME NEW t, NEW k \in Nat, StandsAt(t, k), NEW samples
  PROVE  LET w == samples[k + 1]
             u == HashStep(t, samples)
         IN  StandsAt(u, k + 1) /\ u.c = IF w < 61445 THEN Append(t.c, Reduce(w)) ELSE t.c
<1> DEFINE h == Block \div 2
           b == IF t.j = Block THEN t.blocks + 1 ELSE t.blocks
           j == IF t.j = Block THEN 0 ELSE t.j
           w == samples[(b - 1) * h + (j \div 2) + 1]
           u == [blocks |-> b, j |-> j + 2, c |-> IF w < 61445 THEN Append(t.c, Reduce(w)) ELSE t.c]
<1>1. HashStep(t, samples) = u
  BY DEF HashStep
<1>2. h \in Nat /\ Block = 2 * h /\ h >= 1
  BY HashAssumption
<1>3. /\ t.blocks \in Nat /\ t.j \in Nat /\ t.j % 2 = 0 /\ t.j <= Block
      /\ (t.blocks - 1) * h + t.j \div 2 = k
  BY DEF StandsAt
<1>4. b \in Nat /\ j \in Nat /\ j % 2 = 0 /\ j + 2 <= Block /\ (b - 1) * h + j \div 2 = k
  <2> HIDE DEF h
  <2>1. CASE t.j = Block
    <3>1. b = t.blocks + 1 /\ j = 0 /\ t.j \div 2 = h
      BY <1>2, <1>3, <2>1
    <3>2. (b - 1) * h = (t.blocks - 1) * h + h
      BY <1>2, <1>3, <3>1
    <3> HIDE DEF b, j
    <3>3. (b - 1) * h \in Int /\ (t.blocks - 1) * h \in Int
      BY <1>2, <1>3, <3>1
    <3> QED
      BY <1>2, <1>3, <3>1, <3>2, <3>3
  <2>2. CASE t.j # Block
    <3>1. b = t.blocks /\ j = t.j
      BY <2>2
    <3> HIDE DEF b, j
    <3>2. j + 2 <= Block
      BY <1>2, <1>3, <2>2, <3>1
    <3> QED
      BY <1>3, <3>1, <3>2
  <2> QED
    BY <2>1, <2>2
<1> HIDE DEF b, j, h
<1>5. (b - 1) * h \in Int /\ j \div 2 \in Int
  BY <1>2, <1>4
<1>6. (b - 1) * h + (j \div 2) + 1 = k + 1
  BY <1>4, <1>5
<1>7. w = samples[k + 1]
  BY <1>6
<1>8. (j + 2) \div 2 = j \div 2 + 1 /\ (j + 2) % 2 = 0
  BY <1>4
<1>9. (b - 1) * h + (j + 2) \div 2 = k + 1
  <2> DEFINE x == (b - 1) * h
             y == j \div 2
             z == (j + 2) \div 2
  <2>1. x \in Int /\ y \in Int /\ x + y = k /\ z = y + 1
    BY <1>4, <1>5, <1>8
  <2> HIDE DEF x, y, z
  <2>2. x + z = k + 1
    BY <2>1
  <2> QED
    BY <2>2 DEF x, z
<1> HIDE DEF w
<1>10. StandsAt(u, k + 1)
  BY <1>4, <1>8, <1>9 DEF StandsAt, h
<1> QED
  BY <1>1, <1>7, <1>10

\* hash_to_point(), which reads SHAKE256 block by block, keeps the same samples as
\* hash_to_point_vartime(), which reads them one by one.
LEMMA BlocksAgree ==
  ASSUME NEW s \in Seq(Nat), NEW n \in Nat
  PROVE  hash_to_point(n, s) = hash_to_point_vartime(n, s)
<1>0. Len(s) \in Nat
  OBVIOUS
<1>1. PICK b : hash_to_point(n, s) = b[Len(s)].c /\ Runs(b, <<"block", s, n>>, HashStart, Len(s))
  BY <1>0, BlockLoop
<1>2. PICK c : hash_to_point_vartime(n, s) = c[Len(s)] /\ Runs(c, <<"vartime", s, n>>, <<>>, Len(s))
  BY <1>0, VartimeLoop
<1> DEFINE S == {k \in Nat : k <= Len(s) => SameAfter(b[k], c[k], n, k)}
<1>3. 0 \in S
  <2>1. b[0] = HashStart /\ c[0] = <<>>
    BY <1>1, <1>2, Zenon DEF Runs
  <2>2. HashStart.c = <<>> /\ HashStart.blocks = 0 /\ HashStart.j = Block
    BY DEF HashStart
  <2>3. Block \in Nat /\ Block % 2 = 0 /\ (0 - 1) * (Block \div 2) + Block \div 2 = 0
    BY HashAssumption
  <2>4. StandsAt(HashStart, 0)
    BY <2>2, <2>3 DEF StandsAt
  <2>5. <<>> \in Seq(Nat) /\ Len(<<>>) <= n
    OBVIOUS
  <2> QED
    BY <2>1, <2>2, <2>4, <2>5, Zenon DEF SameAfter
<1>4. ASSUME NEW k \in Nat, k \in S PROVE k + 1 \in S
  <2> SUFFICES ASSUME k + 1 <= Len(s) PROVE SameAfter(b[k + 1], c[k + 1], n, k + 1)
    OBVIOUS
  <2>1. k + 1 \in 1..Len(s) /\ (k + 1) - 1 = k /\ k <= Len(s)
    OBVIOUS
  <2>2. SameAfter(b[k], c[k], n, k)
    BY <1>4, <2>1
  <2> DEFINE w == s[k + 1]
  <2>3. b[k + 1] = HashIteration(b[k], n, s)
    <3>1. b[k + 1] = LoopStep(<<"block", s, n>>, b[(k + 1) - 1], k + 1)
      BY <1>1, <2>1, Zenon DEF Runs
    <3> QED
      BY <2>1, <3>1 DEF LoopStep
  <2>4. c[k + 1] = KeepSample(c[k], n, w)
    <3>1. c[k + 1] = LoopStep(<<"vartime", s, n>>, c[(k + 1) - 1], k + 1)
      BY <1>2, <2>1, Zenon DEF Runs
    <3> QED
      BY <2>1, <3>1 DEF LoopStep
  <2>5. w \in Nat
    BY <2>1
  <2> HIDE DEF w
  <2>6. b[k].c = c[k] /\ c[k] \in Seq(Nat) /\ Len(c[k]) <= n /\ Len(c[k]) \in Nat
    BY <2>2 DEF SameAfter
  <2>7. CASE Len(c[k]) = n
    <3>1. b[k + 1] = b[k] /\ c[k + 1] = c[k]
      BY <2>3, <2>4, <2>6, <2>7 DEF HashIteration, KeepSample
    <3> QED
      BY <2>6, <2>7, <3>1 DEF SameAfter
  <2>8. CASE Len(c[k]) < n
    <3>1. StandsAt(b[k], k)
      BY <2>2, <2>8 DEF SameAfter
    <3>2. b[k + 1] = HashStep(b[k], s)
      BY <2>3, <2>6, <2>8 DEF HashIteration
    <3>3. c[k + 1] = IF w < 61445 THEN Append(c[k], Reduce(w)) ELSE c[k]
      BY <2>4, <2>8 DEF KeepSample
    <3>4. StandsAt(b[k + 1], k + 1) /\ b[k + 1].c = c[k + 1]
      BY <2>6, <3>1, <3>2, <3>3, SameSample DEF w
    <3>5. Reduce(w) \in Nat
      BY <2>5 DEF Reduce
    <3>6. c[k + 1] \in Seq(Nat) /\ Len(c[k + 1]) <= n
      BY <2>6, <2>8, <3>3, <3>5
    <3> QED
      BY <3>4, <3>6 DEF SameAfter
  <2> QED
    BY <2>6, <2>7, <2>8
<1>5. Len(s) \in S
  <2> HIDE DEF S
  <2> QED
    BY <1>0, <1>3, <1>4, NatSetInduction
<1>6. SameAfter(b[Len(s)], c[Len(s)], n, Len(s))
  BY <1>5
<1> QED
  BY <1>1, <1>2, <1>6 DEF SameAfter

\* Together with what it has kept, hash_to_point_vartime() after k samples.
ReducedTo(c, g, n) ==
    /\ g \in Seq(Nat) /\ c \in Seq(Nat) /\ Len(c) = (IF Len(g) < n THEN Len(g) ELSE n)
    /\ \A i \in 1..Len(c) : c[i] = Reduce(g[i])

\* hash_to_point_vartime() gives the first n kept samples modulo q.
LEMMA VartimeKeeps ==
  ASSUME NEW s \in Seq(Nat), NEW n \in Nat, NEW g, Runs(g, <<"kept", s>>, <<>>, Len(s))
  PROVE  ReducedTo(hash_to_point_vartime(n, s), g[Len(s)], n)
<1>0. Len(s) \in Nat
  OBVIOUS
<1>1. PICK c : hash_to_point_vartime(n, s) = c[Len(s)] /\ Runs(c, <<"vartime", s, n>>, <<>>, Len(s))
  BY <1>0, VartimeLoop
<1> DEFINE S == {k \in Nat : k <= Len(s) => ReducedTo(c[k], g[k], n)}
<1>2. 0 \in S
  <2>1. g[0] = <<>> /\ c[0] = <<>>
    BY <1>1, Zenon DEF Runs
  <2> DEFINE e == <<>>
  <2>2. e \in Seq(Nat) /\ Len(e) = 0 /\ (IF 0 < n THEN 0 ELSE n) = 0
    OBVIOUS
  <2> HIDE DEF e
  <2>3. \A i \in 1..Len(e) : e[i] = Reduce(e[i])
    BY <2>2
  <2>4. ReducedTo(e, e, n)
    BY <2>2, <2>3 DEF ReducedTo
  <2>5. g[0] = e /\ c[0] = e
    BY <2>1 DEF e
  <2> QED
    BY <2>4, <2>5, Zenon
<1>3. ASSUME NEW k \in Nat, k \in S PROVE k + 1 \in S
  <2> SUFFICES ASSUME k + 1 <= Len(s) PROVE ReducedTo(c[k + 1], g[k + 1], n)
    OBVIOUS
  <2>1. k + 1 \in 1..Len(s) /\ (k + 1) - 1 = k /\ k <= Len(s)
    OBVIOUS
  <2>2. ReducedTo(c[k], g[k], n)
    BY <1>3, <2>1
  <2> DEFINE w == s[k + 1]
             x == c[k]
             y == g[k]
  <2>3. g[k + 1] = KeepLow(y, w)
    <3>1. g[k + 1] = LoopStep(<<"kept", s>>, g[(k + 1) - 1], k + 1)
      BY <2>1, Zenon DEF Runs
    <3> QED
      BY <2>1, <3>1 DEF LoopStep
  <2>4. c[k + 1] = KeepSample(x, n, w)
    <3>1. c[k + 1] = LoopStep(<<"vartime", s, n>>, c[(k + 1) - 1], k + 1)
      BY <1>1, <2>1, Zenon DEF Runs
    <3> QED
      BY <2>1, <3>1 DEF LoopStep
  <2>5. w \in Nat
    BY <2>1
  <2>6. ReducedTo(x, y, n)
    BY <2>2
  <2> HIDE DEF w, x, y
  <2>7. /\ y \in Seq(Nat) /\ x \in Seq(Nat) /\ Len(x) = (IF Len(y) < n THEN Len(y) ELSE n)
        /\ \A i \in 1..Len(x) : x[i] = Reduce(y[i])
    BY <2>6 DEF ReducedTo
  <2>8. Len(x) \in Nat /\ Len(y) \in Nat /\ Reduce(w) \in Nat
    BY <2>5, <2>7 DEF Reduce
  <2>9. ReducedTo(KeepSample(x, n, w), KeepLow(y, w), n)
    <3>1. CASE ~(w < 61445)
      <4>1. KeepSample(x, n, w) = x /\ KeepLow(y, w) = y
        BY <3>1 DEF KeepSample, KeepLow, Low
      <4> QED
        BY <2>6, <4>1
    <3>2. CASE w < 61445 /\ ~(Len(x) < n)
      <4>1. KeepSample(x, n, w) = x /\ KeepLow(y, w) = Append(y, w)
        BY <3>2 DEF KeepSample, KeepLow, Low
      <4>2. /\ Append(y, w) \in Seq(Nat) /\ Len(Append(y, w)) = Len(y) + 1
            /\ \A i \in 1..Len(y) : Append(y, w)[i] = y[i]
        BY <2>5, <2>7
      <4>3. Len(x) = n /\ Len(y) >= n /\ ~(Len(y) + 1 < n)
        BY <2>7, <2>8, <3>2
      <4>4. \A i \in 1..Len(x) : x[i] = Reduce(Append(y, w)[i])
        <5> SUFFICES ASSUME NEW i \in 1..Len(x) PROVE x[i] = Reduce(Append(y, w)[i])
          OBVIOUS
        <5>1. i \in 1..Len(y)
          BY <2>8, <4>3
        <5> QED
          BY <2>7, <4>2, <5>1
      <4> QED
        BY <2>7, <4>1, <4>2, <4>3, <4>4 DEF ReducedTo
    <3>3. CASE w < 61445 /\ Len(x) < n
      <4>1. KeepSample(x, n, w) = Append(x, Reduce(w)) /\ KeepLow(y, w) = Append(y, w)
        BY <3>3 DEF KeepSample, KeepLow, Low
      <4> DEFINE v == Reduce(w)
      <4> HIDE DEF v
      <4>2. /\ Append(y, w) \in Seq(Nat) /\ Len(Append(y, w)) = Len(y) + 1
            /\ \A i \in 1..Len(y) : Append(y, w)[i] = y[i]
            /\ Append(y, w)[Len(y) + 1] = w
        BY <2>5, <2>7
      <4>3. /\ Append(x, v) \in Seq(Nat) /\ Len(Append(x, v)) = Len(x) + 1
            /\ \A i \in 1..Len(x) : Append(x, v)[i] = x[i]
            /\ Append(x, v)[Len(x) + 1] = v
        BY <2>7, <2>8 DEF v
      <4>4. Len(x) = Len(y) /\ Len(x) + 1 = (IF Len(y) + 1 < n THEN Len(y) + 1 ELSE n)
        BY <2>7, <2>8, <3>3
      <4>5. \A i \in 1..(Len(x) + 1) : Append(x, v)[i] = Reduce(Append(y, w)[i])
        <5> SUFFICES ASSUME NEW i \in 1..(Len(x) + 1) PROVE Append(x, v)[i] = Reduce(Append(y, w)[i])
          OBVIOUS
        <5>1. CASE i = Len(x) + 1
          BY <4>2, <4>3, <4>4, <5>1 DEF v
        <5>2. CASE i # Len(x) + 1
          <6>1. i \in 1..Len(x) /\ i \in 1..Len(y)
            BY <2>8, <4>4, <5>2
          <6> QED
            BY <2>7, <4>2, <4>3, <6>1
        <5> QED
          BY <5>1, <5>2
      <4> QED
        BY <4>1, <4>2, <4>3, <4>4, <4>5 DEF ReducedTo, v
    <3> QED
      BY <3>1, <3>2, <3>3
  <2> QED
    BY <2>3, <2>4, <2>9
<1>4. Len(s) \in S
  <2> HIDE DEF S
  <2> QED
    BY <1>0, <1>2, <1>3, NatSetInduction
<1> QED
  BY <1>1, <1>4
-----------------------------------------------------------------------------
\* P[r] is the slot of value r out of K values in m slots, in order; the distance of a value
\* from its final slot r does not decrease with r.
Ordered(P, K, m) ==
    /\ K \in Nat /\ P \in [0..(K - 1) -> Nat]
    /\ \A r \in 0..(K - 1) : r <= P[r] /\ P[r] < m
    /\ \A r, t \in 0..(K - 1) : r < t => P[r] - r <= P[t] - t

\* The kept samples g among the first k are those at P.
Places(P, g, s, k) ==
    /\ g \in Seq(Nat) /\ Ordered(P, Len(g), k)
    /\ \A r \in 0..(Len(g) - 1) : g[r + 1] = s[P[r] + 1] /\ Low(s[P[r] + 1])
    /\ \A u \in 0..(k - 1) : Low(s[u + 1]) => \E r \in 0..(Len(g) - 1) : P[r] = u

\* A place behind all others.
LEMMA OrderedMore ==
  ASSUME NEW K, NEW k \in Nat, NEW P, Ordered(P, K, k)
  PROVE  Ordered([r \in 0..K |-> IF r = K THEN k ELSE P[r]], K + 1, k + 1)
<1> DEFINE F == [r \in 0..K |-> IF r = K THEN k ELSE P[r]]
<1>1. /\ K \in Nat /\ P \in [0..(K - 1) -> Nat]
      /\ \A r \in 0..(K - 1) : r <= P[r] /\ P[r] < k
      /\ \A r, t \in 0..(K - 1) : r < t => P[r] - r <= P[t] - t
  BY DEF Ordered
<1>2. F[K] = k /\ \A r \in 0..(K - 1) : F[r] = P[r]
  BY <1>1
<1>3. F \in [0..K -> Nat] /\ (K + 1) - 1 = K
  BY <1>1
<1> HIDE DEF F
<1>4. \A r \in 0..(K - 1) : P[r] - r <= k - K
  <2> SUFFICES ASSUME NEW r \in 0..(K - 1) PROVE P[r] - r <= k - K
    OBVIOUS
  <2>1. K - 1 \in 0..(K - 1) /\ P[K - 1] < k /\ P[K - 1] \in Nat /\ P[r] \in Nat
    BY <1>1
  <2>2. CASE r = K - 1
    BY <1>1, <2>1, <2>2
  <2>3. CASE r < K - 1
    <3>1. P[r] - r <= P[K - 1] - (K - 1)
      BY <1>1, <2>1, <2>3
    <3> QED
      BY <1>1, <2>1, <3>1
  <2> QED
    BY <1>1, <2>2, <2>3
<1>5. K <= k
  <2>1. CASE K = 0
    BY <2>1
  <2>2. CASE K # 0
    <3>1. K - 1 \in 0..(K - 1)
      BY <1>1, <2>2
    <3>2. K - 1 <= P[K - 1] /\ P[K - 1] < k /\ P[K - 1] \in Nat
      BY <1>1, <3>1
    <3> QED
      BY <1>1, <3>2
  <2> QED
    BY <2>1, <2>2
<1>6. ASSUME NEW r \in 0..K PROVE r <= F[r] /\ F[r] < k + 1
  <2>1. CASE r = K
    BY <1>1, <1>2, <1>5, <2>1
  <2>2. CASE r # K
    <3>1. r \in 0..(K - 1)
      BY <1>1, <2>2
    <3>2. F[r] = P[r] /\ r <= P[r] /\ P[r] < k /\ P[r] \in Nat
      BY <1>1, <1>2, <3>1
    <3> QED
      BY <3>2
  <2> QED
    BY <2>1, <2>2
<1>7. ASSUME NEW r \in 0..K, NEW t \in 0..K, r < t PROVE F[r] - r <= F[t] - t
  <2>1. r \in 0..(K - 1)
    BY <1>1, <1>7
  <2>2. CASE t = K
    BY <1>2, <1>4, <2>1, <2>2
  <2>3. CASE t # K
    <3>1. t \in 0..(K - 1)
      BY <1>1, <2>3
    <3> QED
      BY <1>1, <1>2, <1>7, <2>1, <3>1
  <2> QED
    BY <2>2, <2>3
<1>8. Ordered(F, K + 1, k + 1)
  BY <1>1, <1>3, <1>6, <1>7 DEF Ordered
<1> QED
  BY <1>8 DEF F

\* More slots, the same values.
LEMMA OrderedWider ==
  ASSUME NEW K, NEW k \in Nat, NEW P, Ordered(P, K, k)
  PROVE  Ordered(P, K, k + 1)
  BY DEF Ordered

\* The places of the kept samples exist.
LEMMA KeptPlaces ==
  ASSUME NEW s \in Seq(Nat), NEW g, Runs(g, <<"kept", s>>, <<>>, Len(s))
  PROVE  \E P : Places(P, g[Len(s)], s, Len(s))
<1>0. Len(s) \in Nat
  OBVIOUS
<1> DEFINE S == {k \in Nat : k <= Len(s) => \E P : Places(P, g[k], s, k)}
<1>1. 0 \in S
  <2> DEFINE e == <<>>
             P == [r \in 0..(0 - 1) |-> 0]
  <2>1. e \in Seq(Nat) /\ Len(e) = 0 /\ g[0] = e
    BY DEF Runs
  <2>2. P \in [0..(0 - 1) -> Nat]
    OBVIOUS
  <2> HIDE DEF e, P
  <2>3. Ordered(P, 0, 0)
    BY <2>2 DEF Ordered
  <2>4. Places(P, e, s, 0)
    BY <2>1, <2>3 DEF Places
  <2> QED
    BY <2>1, <2>4
<1>2. ASSUME NEW k \in Nat, k \in S PROVE k + 1 \in S
  <2> SUFFICES ASSUME k + 1 <= Len(s) PROVE \E P : Places(P, g[k + 1], s, k + 1)
    OBVIOUS
  <2>1. k + 1 \in 1..Len(s) /\ (k + 1) - 1 = k /\ k <= Len(s)
    OBVIOUS
  <2>2. PICK P : Places(P, g[k], s, k)
    BY <1>2, <2>1
  <2> DEFINE w == s[k + 1]
             y == g[k]
             K == Len(y)
  <2>3. g[k + 1] = KeepLow(y, w)
    <3>1. g[k + 1] = LoopStep(<<"kept", s>>, g[(k + 1) - 1], k + 1)
      BY <2>1, Zenon DEF Runs
    <3> QED
      BY <2>1, <3>1 DEF LoopStep
  <2>4. w \in Nat
    BY <2>1
  <2>5. /\ y \in Seq(Nat) /\ Ordered(P, K, k)
        /\ \A r \in 0..(K - 1) : y[r + 1] = s[P[r] + 1] /\ Low(s[P[r] + 1])
        /\ \A u \in 0..(k - 1) : Low(s[u + 1]) => \E r \in 0..(K - 1) : P[r] = u
    BY <2>2 DEF Places
  <2>6. K \in Nat
    BY <2>5
  <2> HIDE DEF y, K
  <2>7. CASE ~Low(w)
    <3>1. g[k + 1] = y
      BY <2>3, <2>7 DEF KeepLow
    <3>2. ASSUME NEW u \in 0..((k + 1) - 1), Low(s[u + 1]) PROVE \E r \in 0..(K - 1) : P[r] = u
      <4>1. u \in 0..(k - 1)
        BY <2>7, <3>2
      <4> QED
        BY <2>5, <3>2, <4>1, Zenon
    <3>3. Places(P, y, s, k + 1)
      BY <2>5, <3>2, OrderedWider DEF Places, K
    <3> QED
      BY <3>1, <3>3
  <2>8. CASE Low(w)
    <3> DEFINE F == [r \in 0..K |-> IF r = K THEN k ELSE P[r]]
               x == Append(y, w)
    <3>1. g[k + 1] = x
      BY <2>3, <2>8 DEF KeepLow
    <3>2. /\ x \in Seq(Nat) /\ Len(x) = K + 1 /\ x[K + 1] = w
          /\ \A r \in 0..(K - 1) : x[r + 1] = y[r + 1]
      BY <2>4, <2>5, <2>6 DEF K
    <3>3. Ordered(F, K + 1, k + 1)
      BY <2>5, OrderedMore, Zenon
    <3>4. F[K] = k /\ \A r \in 0..(K - 1) : F[r] = P[r]
      BY <2>6
    <3> HIDE DEF F, x
    <3>5. ASSUME NEW r \in 0..((K + 1) - 1) PROVE x[r + 1] = s[F[r] + 1] /\ Low(s[F[r] + 1])
      <4>1. CASE r = K
        BY <2>8, <3>2, <3>4, <4>1
      <4>2. CASE r # K
        <5>1. r \in 0..(K - 1)
          BY <2>6, <4>2
        <5>2. y[r + 1] = s[P[r] + 1] /\ Low(s[P[r] + 1])
          BY <2>5, <5>1, Zenon
        <5>3. x[r + 1] = y[r + 1]
          BY <3>2, <5>1, Zenon
        <5>4. F[r] = P[r]
          BY <3>4, <5>1, Zenon
        <5> QED
          BY <5>2, <5>3, <5>4, Zenon
      <4> QED
        BY <4>1, <4>2
    <3>6. ASSUME NEW u \in 0..((k + 1) - 1), Low(s[u + 1]) PROVE \E r \in 0..((K + 1) - 1) : F[r] = u
      <4>1. CASE u = k
        BY <2>6, <3>4, <4>1
      <4>2. CASE u # k
        <5>1. u \in 0..(k - 1)
          BY <4>2
        <5>2. PICK r \in 0..(K - 1) : P[r] = u
          BY <2>5, <3>6, <5>1, Zenon
        <5>3. r \in 0..((K + 1) - 1) /\ F[r] = u
          BY <2>6, <3>4, <5>2
        <5> QED
          BY <5>3
      <4> QED
        BY <4>1, <4>2
    <3>7. Places(F, x, s, k + 1)
      BY <3>2, <3>3, <3>5, <3>6 DEF Places
    <3> QED
      BY <3>1, <3>7
  <2> QED
    BY <2>7, <2>8
<1>3. Len(s) \in S
  <2> HIDE DEF S
  <2> QED
    BY <1>0, <1>1, <1>2, NatSetInduction
<1> QED
  BY <1>3
-----------------------------------------------------------------------------
\* The array holds the K values val at P, and refused samples everywhere else.
Holds(a, P, K, m, val) ==
    /\ a \in [0..(m - 1) -> Nat] /\ Ordered(P, K, m)
    /\ \A r \in 0..(K - 1) : a[P[r]] = val[r] /\ val[r] < 32768
    /\ \A u \in 0..(m - 1) : a[u] < 32768 => \E r \in 0..(K - 1) : P[r] = u

\* Places in order are different.
LEMMA OrderedApart ==
  ASSUME NEW K, NEW m, NEW P, Ordered(P, K, m), NEW r \in 0..(K - 1), NEW t \in 0..(K - 1)
  PROVE  /\ r < t => P[r] < P[t]
         /\ P[r] = P[t] => r = t
<1>1. /\ K \in Nat /\ P[r] \in Nat /\ P[t] \in Nat
      /\ r < t => P[r] - r <= P[t] - t
      /\ t < r => P[t] - t <= P[r] - r
  BY DEF Ordered
<1>2. r \in Int /\ t \in Int
  BY <1>1
<1> QED
  BY <1>1, <1>2

\* Up to v the places F, from v on the places P.
Between(P, F, K, v) == [r \in 0..(K - 1) |-> IF r < v THEN F[r] ELSE P[r]]

\* While a pass goes on, the places stay in order.
LEMMA BetweenOrdered ==
  ASSUME NEW K, NEW m \in Nat, NEW P, NEW F, Ordered(P, K, m), Ordered(F, K, m),
         \A r \in 0..(K - 1) : F[r] <= P[r], NEW v \in Nat
  PROVE  Ordered(Between(P, F, K, v), K, m)
<1> DEFINE B2 == Between(P, F, K, v)
<1>1. /\ K \in Nat /\ P \in [0..(K - 1) -> Nat] /\ F \in [0..(K - 1) -> Nat]
      /\ \A r \in 0..(K - 1) : r <= P[r] /\ P[r] < m
      /\ \A r \in 0..(K - 1) : r <= F[r] /\ F[r] < m
      /\ \A r, t \in 0..(K - 1) : r < t => P[r] - r <= P[t] - t
      /\ \A r, t \in 0..(K - 1) : r < t => F[r] - r <= F[t] - t
  BY DEF Ordered
<1>2. B2 \in [0..(K - 1) -> Nat] /\ \A r \in 0..(K - 1) : B2[r] = IF r < v THEN F[r] ELSE P[r]
  BY <1>1 DEF Between
<1> HIDE DEF B2
<1>3. \A r \in 0..(K - 1) : r <= B2[r] /\ B2[r] < m
  BY <1>1, <1>2
<1>4. ASSUME NEW r \in 0..(K - 1), NEW t \in 0..(K - 1), r < t PROVE B2[r] - r <= B2[t] - t
  <2>1. P[r] \in Nat /\ P[t] \in Nat /\ F[r] \in Nat /\ F[t] \in Nat /\ r \in Int /\ t \in Int
    BY <1>1
  <2>2. P[r] - r <= P[t] - t /\ F[r] - r <= F[t] - t /\ F[r] <= P[r]
    BY <1>1, <1>4
  <2>3. CASE t < v
    <3>1. r < v
      BY <1>4, <2>1, <2>3
    <3> QED
      BY <1>2, <2>2, <2>3, <3>1
  <2>4. CASE ~(t < v) /\ r < v
    <3>1. B2[t] = P[t] /\ B2[r] = F[r]
      BY <1>2, <2>4
    <3> QED
      BY <2>1, <2>2, <3>1
  <2>5. CASE ~(t < v) /\ ~(r < v)
    BY <1>2, <2>2, <2>5
  <2> QED
    BY <2>3, <2>4, <2>5
<1>5. Ordered(B2, K, m)
  BY <1>1, <1>2, <1>3, <1>4 DEF Ordered
<1> QED
  BY <1>5 DEF B2

\* A value moves to a slot without one: nothing is lost.
LEMMA MoveDown ==
  ASSUME NEW a, NEW P, NEW K, NEW m \in Nat, NEW val, Holds(a, P, K, m, val),
         NEW F, Ordered(F, K, m), NEW v \in 0..(K - 1), NEW x \in 0..(m - 1),
         F[v] = x, \A r \in 0..(K - 1) : r # v => F[r] = P[r],
         \A r \in 0..(K - 1) : P[r] # x
  PROVE  Holds([a EXCEPT ![P[v]] = a[x], ![x] = a[P[v]]], F, K, m, val)
<1> DEFINE u == P[v]
           b == [a EXCEPT ![u] = a[x], ![x] = a[u]]
<1>1. /\ a \in [0..(m - 1) -> Nat] /\ Ordered(P, K, m)
      /\ \A r \in 0..(K - 1) : a[P[r]] = val[r] /\ val[r] < 32768
      /\ \A i \in 0..(m - 1) : a[i] < 32768 => \E r \in 0..(K - 1) : P[r] = i
  BY DEF Holds
<1>2. u \in 0..(m - 1) /\ u # x
  <2>1. P[v] \in Nat /\ P[v] < m
    BY <1>1 DEF Ordered
  <2> QED
    BY <2>1
<1> HIDE DEF u
<1>3. /\ b \in [0..(m - 1) -> Nat] /\ b[x] = a[u] /\ b[u] = a[x]
      /\ \A i \in 0..(m - 1) : i # x /\ i # u => b[i] = a[i]
  <2>1. a \in [0..(m - 1) -> Nat] /\ a[u] \in Nat /\ a[x] \in Nat /\ x \in 0..(m - 1)
    BY <1>1, <1>2
  <2> QED
    BY <1>2, <2>1
<1> HIDE DEF b
<1>4. ASSUME NEW r \in 0..(K - 1) PROVE b[F[r]] = val[r] /\ val[r] < 32768
  <2>1. a[P[r]] = val[r] /\ val[r] < 32768
    BY <1>1
  <2>2. CASE r = v
    BY <1>3, <2>1, <2>2 DEF u
  <2>3. CASE r # v
    <3>1. F[r] = P[r] /\ P[r] # x
      BY <2>3
    <3>2. P[r] # u
      BY <1>1, <2>3, OrderedApart DEF u
    <3>3. P[r] \in 0..(m - 1)
      <4>1. P[r] \in Nat /\ P[r] < m
        <5>1. Ordered(P, K, m)
          BY <1>1
        <5> QED
          BY <5>1, Zenon DEF Ordered
      <4> QED
        BY <4>1
    <3>4. b[P[r]] = a[P[r]]
      BY <1>3, <3>1, <3>2, <3>3, Zenon
    <3> QED
      BY <2>1, <3>1, <3>4
  <2> QED
    BY <2>2, <2>3
<1>5. ASSUME NEW i \in 0..(m - 1), b[i] < 32768 PROVE \E r \in 0..(K - 1) : F[r] = i
  <2>1. CASE i = x
    BY <2>1
  <2>2. CASE i = u
    <3>1. a[x] < 32768
      BY <1>3, <1>5, <2>2
    <3>2. PICK r \in 0..(K - 1) : P[r] = x
      BY <1>1, <3>1
    <3> QED
      BY <3>2
  <2>3. CASE i # x /\ i # u
    <3>1. a[i] < 32768
      BY <1>3, <1>5, <2>3
    <3>2. PICK r \in 0..(K - 1) : P[r] = i
      BY <1>1, <3>1
    <3>3. r # v
      BY <2>3, <3>2 DEF u
    <3>4. F[r] = i
      BY <3>2, <3>3
    <3> QED
      BY <3>4
  <2> QED
    BY <2>1, <2>2, <2>3
<1>6. Holds(b, F, K, m, val)
  BY <1>3, <1>4, <1>5 DEF Holds
<1> QED
  BY <1>6 DEF b, u

\* Value r is a multiple of p slots from its final one.
Steps(P, K, p, e) == e \in [0..(K - 1) -> Nat] /\ \A r \in 0..(K - 1) : P[r] = r + p * e[r]

\* The places after a pass by p slots: the odd multiples are p slots lower.
Lowered(K, p, e) == [r \in 0..(K - 1) |-> r + (2 * p) * (e[r] \div 2)]

\* Products by a positive number compare as their factors.
LEMMA ProductOrder ==
  ASSUME NEW p \in Nat \ {0}, NEW x \in Nat, NEW y \in Nat
  PROVE  (p * x <= p * y) <=> (x <= y)
<1>1. CASE x <= y
  <2>1. y - x \in Nat /\ p * y = p * x + p * (y - x) /\ p * (y - x) >= 0 /\ p * x \in Int /\ p * (y - x) \in Int
    BY <1>1
  <2> QED
    BY <1>1, <2>1
<1>2. CASE ~(x <= y)
  <2>1. x - y - 1 \in Nat /\ p * x = p * y + p * (x - y - 1) + p
    BY <1>2
  <2>2. p * (x - y - 1) >= 0 /\ p * y \in Int /\ p * (x - y - 1) \in Int
    BY <2>1
  <2> QED
    BY <1>2, <2>1, <2>2
<1> QED
  BY <1>1, <1>2

\* A place before and after a pass.
LEMMA LoweredBy ==
  ASSUME NEW p \in Nat \ {0}, NEW r \in Nat, NEW e \in Nat
  PROVE  /\ r + (2 * p) * (e \div 2) = (IF e % 2 = 1 THEN (r + p * e) - p ELSE r + p * e)
         /\ (2 * p) * (e \div 2) \in Nat /\ p * e \in Nat
         /\ e % 2 = 1 => p * e >= p
<1> DEFINE h == e \div 2
           o == e % 2
<1>1. /\ h \in Int /\ h >= 0 /\ (o = 0 \/ o = 1)
      /\ o = 0 => e = 2 * h
      /\ o = 1 => e = 2 * h + 1
  <2>1. h \in Int /\ h >= 0
    OBVIOUS
  <2>2. o = 0 \/ o = 1
    OBVIOUS
  <2>3. o = 0 => e = 2 * h
    OBVIOUS
  <2>4. o = 1 => e = 2 * h + 1
    OBVIOUS
  <2> HIDE DEF h, o
  <2> QED
    BY <2>1, <2>2, <2>3, <2>4
<1> HIDE DEF h, o
<1>2. h \in Nat /\ o \in {0, 1} /\ e = 2 * h + o
  BY <1>1
<1>3. CASE o = 0
  <2>1. e = 2 * h
    BY <1>2, <1>3
  <2>2. (2 * p) * h = p * e /\ p * e \in Nat
    BY <1>2, <2>1
  <2> QED
    BY <1>3, <2>2 DEF h, o
<1>4. CASE o = 1
  <2>1. e = 2 * h + 1
    BY <1>2, <1>4
  <2>2. (2 * p) * h + p = p * e /\ p * e \in Nat /\ (2 * p) * h \in Nat
    BY <1>2, <2>1
  <2> QED
    BY <1>4, <2>2 DEF h, o
<1> QED
  BY <1>2, <1>3, <1>4

\* After a pass the places are in order, and multiples of 2*p slots from the final ones.
LEMMA LoweredOrdered ==
  ASSUME NEW p \in Nat \ {0}, NEW K, NEW m \in Nat, NEW P, Ordered(P, K, m), NEW e, Steps(P, K, p, e)
  PROVE  /\ Ordered(Lowered(K, p, e), K, m)
         /\ \A r \in 0..(K - 1) : /\ Lowered(K, p, e)[r] = (IF e[r] % 2 = 1 THEN P[r] - p ELSE P[r])
                                  /\ Lowered(K, p, e)[r] <= P[r]
                                  /\ e[r] % 2 = 1 => P[r] - r >= p
<1> DEFINE F == Lowered(K, p, e)
<1>1. /\ K \in Nat /\ P \in [0..(K - 1) -> Nat]
      /\ \A r \in 0..(K - 1) : r <= P[r] /\ P[r] < m
      /\ \A r, t \in 0..(K - 1) : r < t => P[r] - r <= P[t] - t
      /\ e \in [0..(K - 1) -> Nat] /\ \A r \in 0..(K - 1) : P[r] = r + p * e[r]
  BY DEF Ordered, Steps
<1>2. \A r \in 0..(K - 1) : F[r] = r + (2 * p) * (e[r] \div 2)
  BY <1>1 DEF Lowered
<1>3. ASSUME NEW r \in 0..(K - 1)
      PROVE  /\ F[r] = (IF e[r] % 2 = 1 THEN P[r] - p ELSE P[r])
             /\ F[r] \in Nat /\ r <= F[r] /\ F[r] <= P[r] /\ F[r] < m
             /\ e[r] % 2 = 1 => P[r] - r >= p
  <2> DEFINE x == e[r]
             y == P[r]
             z == F[r]
  <2>1. x \in Nat /\ r \in Nat /\ y \in Nat /\ y = r + p * x /\ y < m /\ z = r + (2 * p) * (x \div 2)
    BY <1>1, <1>2
  <2> HIDE DEF x, y, z
  <2>2. /\ r + (2 * p) * (x \div 2) = (IF x % 2 = 1 THEN (r + p * x) - p ELSE r + p * x)
        /\ (2 * p) * (x \div 2) \in Nat /\ p * x \in Nat
        /\ x % 2 = 1 => p * x >= p
    BY <2>1, LoweredBy
  <2>3. /\ z = (IF x % 2 = 1 THEN y - p ELSE y)
        /\ z \in Nat /\ r <= z /\ z <= y /\ z < m
        /\ x % 2 = 1 => y - r >= p
    BY <2>1, <2>2
  <2> QED
    BY <2>3 DEF x, y, z
<1>4. ASSUME NEW r \in 0..(K - 1), NEW t \in 0..(K - 1), r < t PROVE F[r] - r <= F[t] - t
  <2> DEFINE x == e[r]
             y == e[t]
             hx == x \div 2
             hy == y \div 2
  <2>1. x \in Nat /\ y \in Nat /\ r \in Nat /\ t \in Nat /\ P[r] = r + p * x /\ P[t] = t + p * y
    BY <1>1
  <2>2. P[r] - r <= P[t] - t
    BY <1>1, <1>4
  <2>3. F[r] = r + (2 * p) * hx /\ F[t] = t + (2 * p) * hy
    BY <1>2
  <2> HIDE DEF x, y, F
  <2>4. p * x <= p * y
    <3> DEFINE px == p * x
               py == p * y
    <3>1. px \in Int /\ py \in Int /\ P[r] = r + px /\ P[t] = t + py
      BY <2>1
    <3> HIDE DEF px, py
    <3>2. px <= py
      BY <2>1, <2>2, <3>1
    <3> QED
      BY <3>2 DEF px, py
  <2>5. x <= y
    BY <2>1, <2>4, ProductOrder
  <2>6. hx \in Nat /\ hy \in Nat /\ hx <= hy /\ 2 * p \in Nat \ {0}
    BY <2>1, <2>5
  <2> HIDE DEF hx, hy
  <2> DEFINE fx == (2 * p) * hx
             fy == (2 * p) * hy
  <2>7. fx <= fy
    BY <2>6, ProductOrder
  <2>8. fx \in Int /\ fy \in Int /\ F[r] = r + fx /\ F[t] = t + fy
    BY <2>3, <2>6
  <2> HIDE DEF fx, fy
  <2> QED
    BY <2>1, <2>7, <2>8
<1>5. F \in [0..(K - 1) -> Nat]
  <2>1. F = [r \in 0..(K - 1) |-> F[r]]
    BY DEF Lowered
  <2> HIDE DEF F
  <2> QED
    BY <1>3, <2>1
<1> HIDE DEF F
<1>6. Ordered(F, K, m)
  BY <1>1, <1>3, <1>4, <1>5 DEF Ordered
<1> QED
  BY <1>3, <1>6 DEF F

\* A pass by p slots at slot u: the values of the slots below u have their new places.
InPass(t, u, P, F, K, m, val) ==
    /\ t.v \in 0..K
    /\ \A r \in 0..(K - 1) : r < t.v <=> P[r] < u
    /\ Holds(t.a, Between(P, F, K, t.v), K, m, val)

\* One slot of a pass.
LEMMA PassSlot ==
  ASSUME NEW p \in Nat \ {0}, NEW K, NEW m \in Nat, NEW P, Ordered(P, K, m), NEW e, Steps(P, K, p, e),
         NEW val, NEW u \in 0..(m - 1), NEW t, InPass(t, u, P, Lowered(K, p, e), K, m, val)
  PROVE  InPass(SqueezeStep(t, u, p), u + 1, P, Lowered(K, p, e), K, m, val)
<1> DEFINE F == Lowered(K, p, e)
           a == t.a
           v == t.v
           Q == Between(P, F, K, v)
<1>1. /\ Ordered(F, K, m)
      /\ \A r \in 0..(K - 1) : /\ F[r] = (IF e[r] % 2 = 1 THEN P[r] - p ELSE P[r])
                               /\ F[r] <= P[r]
                               /\ e[r] % 2 = 1 => P[r] - r >= p
  BY LoweredOrdered
<1> HIDE DEF F
<1>2. /\ v \in 0..K /\ \A r \in 0..(K - 1) : r < v <=> P[r] < u
      /\ Holds(a, Q, K, m, val)
  BY DEF InPass, F
<1>3. /\ a \in [0..(m - 1) -> Nat] /\ Ordered(Q, K, m)
      /\ \A r \in 0..(K - 1) : a[Q[r]] = val[r] /\ val[r] < 32768
      /\ \A i \in 0..(m - 1) : a[i] < 32768 => \E r \in 0..(K - 1) : Q[r] = i
  BY <1>2 DEF Holds
<1>4. K \in Nat /\ P \in [0..(K - 1) -> Nat] /\ F \in [0..(K - 1) -> Nat] /\ v \in Nat
  BY <1>1, <1>2 DEF Ordered
<1>5. \A r \in 0..(K - 1) : Q[r] = IF r < v THEN F[r] ELSE P[r]
  BY DEF Between
<1> DEFINE move == a[u] < 32768 /\ u >= p /\ ((u - v) \div p) % 2 = 1
           n == [v |-> IF a[u] < 32768 THEN v + 1 ELSE v,
                 a |-> IF move THEN [a EXCEPT ![u] = a[u - p], ![u - p] = a[u]] ELSE a]
<1>6. SqueezeStep(t, u, p) = n
  BY DEF SqueezeStep
<1> HIDE DEF a, v, Q
<1>7. CASE ~(a[u] < 32768)
  <2>1. n.v = v /\ n.a = a
    BY <1>7
  <2>2. ASSUME NEW r \in 0..(K - 1) PROVE r < v <=> P[r] < u + 1
    <3>1. P[r] \in Nat /\ (r < v <=> P[r] < u)
      BY <1>2, <1>4
    <3>2. P[r] # u
      <4>1. SUFFICES ASSUME P[r] = u PROVE FALSE
        OBVIOUS
      <4>2. ~(r < v)
        BY <3>1, <4>1
      <4>3. Q[r] = u
        BY <1>5, <4>1, <4>2
      <4>4. a[u] = val[r] /\ val[r] < 32768
        BY <1>3, <4>3
      <4> QED
        BY <1>7, <4>4
    <3> QED
      BY <3>1, <3>2
  <2> HIDE DEF n
  <2>3. InPass(n, u + 1, P, F, K, m, val)
    BY <1>2, <2>1, <2>2 DEF InPass, Q
  <2> QED
    BY <1>6, <2>3 DEF F
<1>8. CASE a[u] < 32768
  <2>1. v \in 0..(K - 1) /\ P[v] = u
    <3>1. PICK r \in 0..(K - 1) : Q[r] = u
      BY <1>3, <1>8
    <3>2. ~(r < v)
      <4> SUFFICES ASSUME r < v PROVE FALSE
        OBVIOUS
      <4>1. Q[r] = F[r] /\ F[r] <= P[r] /\ P[r] < u /\ F[r] \in Nat /\ P[r] \in Nat
        BY <1>1, <1>2, <1>4, <1>5
      <4> QED
        BY <3>1, <4>1
    <3>3. P[r] = u
      BY <1>5, <3>1, <3>2
    <3>4. v \in 0..(K - 1)
      BY <1>4, <3>2
    <3>5. ~(P[v] < u)
      BY <1>2, <1>4, <3>4
    <3>6. v = r
      <4> SUFFICES ASSUME v # r PROVE FALSE
        OBVIOUS
      <4>1. v < r
        BY <1>4, <3>2, <3>4
      <4>2. P[v] < P[r]
        BY <3>4, <4>1, OrderedApart
      <4> QED
        BY <3>3, <3>5, <4>2
    <3> QED
      BY <3>3, <3>4, <3>6
  <2> DEFINE x == e[v]
             G == Between(P, F, K, v + 1)
  <2>2. /\ x \in Nat /\ u = v + p * x
        /\ F[v] = (IF x % 2 = 1 THEN u - p ELSE u)
        /\ x % 2 = 1 => u - v >= p
    BY <1>1, <2>1 DEF Steps
  <2> HIDE DEF x
  <2>3. (u - v) \div p = x
    <3>1. u - v = p * x
      <4>1. p * x \in Int
        BY <2>2
      <4> QED
        BY <1>4, <2>2, <4>1
    <3>2. (p * x) \div p = x
      BY <2>2
    <3> QED
      BY <3>1, <3>2
  <2>4. move <=> x % 2 = 1
    <3>1. x % 2 = 1 => u >= p
      BY <1>4, <2>1, <2>2
    <3> QED
      BY <1>8, <2>3, <3>1
  <2>5. n.v = v + 1 /\ v + 1 \in 0..K
    BY <1>4, <1>8, <2>1
  <2>6. ASSUME NEW r \in 0..(K - 1) PROVE r < v + 1 <=> P[r] < u + 1
    <3>1. P[r] \in Nat /\ (r < v <=> P[r] < u) /\ r \in Nat
      BY <1>2, <1>4
    <3>2. CASE r = v
      BY <1>4, <2>1, <3>2
    <3>3. CASE r < v
      BY <1>4, <3>1, <3>3
    <3>4. CASE v < r
      <4>1. P[v] < P[r]
        BY <2>1, <3>4, OrderedApart
      <4> QED
        BY <1>4, <2>1, <3>1, <3>4, <4>1
    <3> QED
      BY <1>4, <3>1, <3>2, <3>3, <3>4
  <2>7. Ordered(G, K, m)
    <3>1. v + 1 \in Nat /\ \A r \in 0..(K - 1) : F[r] <= P[r]
      BY <1>1, <1>4
    <3> HIDE DEF G
    <3> QED
      BY <1>1, <3>1, BetweenOrdered, Zenon DEF G
  <2>8. \A r \in 0..(K - 1) : G[r] = IF r < v + 1 THEN F[r] ELSE P[r]
    BY DEF Between
  <2>9. G[v] = F[v] /\ \A r \in 0..(K - 1) : r # v => G[r] = Q[r]
    <3>1. G[v] = F[v]
      BY <1>4, <2>1, <2>8
    <3>2. ASSUME NEW r \in 0..(K - 1), r # v PROVE G[r] = Q[r]
      <4>1. r < v + 1 <=> r < v
        BY <1>4, <3>2
      <4> QED
        BY <1>5, <2>8, <4>1
    <3> QED
      BY <3>1, <3>2
  <2> HIDE DEF G
  <2>10. Q[v] = u
    BY <1>4, <1>5, <2>1
  <2>11. Holds(n.a, G, K, m, val)
    <3>1. CASE ~move
      <4>1. n.a = a
        BY <3>1
      <4>2. G[v] = Q[v]
        BY <2>2, <2>4, <2>9, <2>10, <3>1
      <4>3. \A r \in 0..(K - 1) : G[r] = Q[r]
        BY <2>9, <4>2
      <4>4. Holds(a, G, K, m, val)
        <5>1. \A r \in 0..(K - 1) : a[G[r]] = val[r] /\ val[r] < 32768
          BY <1>3, <4>3
        <5>2. ASSUME NEW i \in 0..(m - 1), a[i] < 32768 PROVE \E r \in 0..(K - 1) : G[r] = i
          <6>1. PICK r \in 0..(K - 1) : Q[r] = i
            BY <1>3, <5>2
          <6>2. G[r] = i
            BY <4>3, <6>1
          <6> QED
            BY <6>2
        <5> QED
          BY <1>3, <2>7, <5>1, <5>2 DEF Holds
      <4> QED
        BY <4>1, <4>4
    <3>2. CASE move
      <4> DEFINE y == u - p
      <4>1. n.a = [a EXCEPT ![u] = a[y], ![y] = a[u]]
        BY <3>2
      <4>2. F[v] = y /\ y \in 0..(m - 1) /\ y < u
        BY <1>4, <2>1, <2>2, <2>4, <3>2
      <4> HIDE DEF y
      <4>3. ASSUME NEW r \in 0..(K - 1) PROVE Q[r] # y
        <5>1. Q[r] \in Nat /\ P[r] \in Nat /\ F[r] \in Nat
          BY <1>3, <1>4 DEF Ordered
        <5>2. CASE r < v
          <6>1. F[r] < F[v]
            BY <1>1, <2>1, <5>2, OrderedApart
          <6> QED
            BY <1>5, <4>2, <5>1, <5>2, <6>1
        <5>3. CASE ~(r < v)
          <6>1. Q[r] = P[r] /\ ~(P[r] < u)
            BY <1>2, <1>5, <5>3
          <6> QED
            BY <4>2, <5>1, <6>1
        <5> QED
          BY <5>2, <5>3
      <4>4. G[v] = y
        BY <2>9, <4>2
      <4>5. Holds([a EXCEPT ![Q[v]] = a[y], ![y] = a[Q[v]]], G, K, m, val)
        BY <1>2, <2>1, <2>7, <2>9, <4>2, <4>3, <4>4, MoveDown
      <4> QED
        BY <2>10, <4>1, <4>5
    <3> QED
      BY <3>1, <3>2
  <2> HIDE DEF n
  <2>12. InPass(n, u + 1, P, F, K, m, val)
    BY <2>5, <2>6, <2>11 DEF InPass, G
  <2> QED
    BY <1>6, <2>12 DEF F
<1> QED
  BY <1>7, <1>8

\* A whole pass by p slots.
LEMMA PassMoves ==
  ASSUME NEW p \in Nat \ {0}, NEW K, NEW m \in Nat, NEW P, NEW e, Steps(P, K, p, e),
         NEW val, NEW a, Holds(a, P, K, m, val)
  PROVE  Holds(SqueezePass(a, m, p), Lowered(K, p, e), K, m, val)
<1> DEFINE F == Lowered(K, p, e)
           start == [v |-> 0, a |-> a]
           loop == <<"pass", p>>
<1>1. PICK h : SqueezePass(a, m, p) = h[m].a /\ Runs(h, loop, start, m)
  BY PassLoop
<1>2. /\ Ordered(P, K, m) /\ K \in Nat /\ P \in [0..(K - 1) -> Nat]
      /\ \A r \in 0..(K - 1) : P[r] < m
  BY DEF Holds, Ordered
<1>3. Ordered(F, K, m) /\ F \in [0..(K - 1) -> Nat]
  <2>1. Ordered(F, K, m)
    BY <1>2, LoweredOrdered
  <2> HIDE DEF F
  <2> QED
    BY <2>1 DEF Ordered
<1> DEFINE S == {u \in Nat : u <= m => InPass(h[u], u, P, F, K, m, val)}
<1> HIDE DEF F
<1>4. 0 \in S
  <2>1. h[0] = start
    BY <1>1, Zenon DEF Runs
  <2>2. Between(P, F, K, 0) = P
    <3>1. \A r \in 0..(K - 1) : (IF r < 0 THEN F[r] ELSE P[r]) = P[r]
      BY <1>2
    <3>2. Between(P, F, K, 0) = [r \in 0..(K - 1) |-> P[r]]
      BY <3>1 DEF Between
    <3> QED
      BY <1>2, <3>2
  <2>3. h[0].v = 0 /\ h[0].a = a
    BY <2>1
  <2>4. \A r \in 0..(K - 1) : r < 0 <=> P[r] < 0
    BY <1>2
  <2>5. InPass(h[0], 0, P, F, K, m, val)
    BY <1>2, <2>2, <2>3, <2>4 DEF InPass
  <2> QED
    BY <2>5
<1>5. ASSUME NEW u \in Nat, u \in S PROVE u + 1 \in S
  <2> SUFFICES ASSUME u + 1 <= m PROVE InPass(h[u + 1], u + 1, P, F, K, m, val)
    OBVIOUS
  <2>1. u + 1 \in 1..m /\ (u + 1) - 1 = u /\ u \in 0..(m - 1) /\ u <= m
    OBVIOUS
  <2>2. InPass(h[u], u, P, F, K, m, val)
    BY <1>5, <2>1
  <2>3. h[u + 1] = SqueezeStep(h[u], u, p)
    <3>1. h[u + 1] = LoopStep(loop, h[(u + 1) - 1], u + 1)
      BY <1>1, <2>1, Zenon DEF Runs
    <3> QED
      BY <2>1, <3>1 DEF LoopStep
  <2> DEFINE t == h[u]
  <2> HIDE DEF t
  <2>4. InPass(SqueezeStep(t, u, p), u + 1, P, F, K, m, val)
    BY <1>2, <2>1, <2>2, PassSlot DEF F, t
  <2> QED
    BY <2>3, <2>4 DEF t
<1>6. m \in S
  <2> HIDE DEF S
  <2> QED
    BY <1>4, <1>5, NatSetInduction
<1>7. InPass(h[m], m, P, F, K, m, val)
  BY <1>6
<1>8. Between(P, F, K, h[m].v) = F
  <2>1. \A r \in 0..(K - 1) : r < h[m].v
    BY <1>2, <1>7 DEF InPass
  <2>2. Between(P, F, K, h[m].v) = [r \in 0..(K - 1) |-> F[r]]
    BY <2>1 DEF Between
  <2> QED
    BY <1>3, <2>2
<1> QED
  BY <1>1, <1>7, <1>8 DEF InPass, F

\* Two passes by p are one by 2*p: the distances left after a pass.
LEMMA StepsLeft ==
  ASSUME NEW p \in Nat, NEW K, NEW e \in [0..(K - 1) -> Nat]
  PROVE  Steps(Lowered(K, p, e), K, 2 * p, [r \in 0..(K - 1) |-> e[r] \div 2])
<1>1. \A r \in 0..(K - 1) : e[r] \div 2 \in Nat
  <2> SUFFICES ASSUME NEW r \in 0..(K - 1) PROVE e[r] \div 2 \in Nat
    OBVIOUS
  <2> DEFINE x == e[r]
  <2>1. x \in Nat
    OBVIOUS
  <2> HIDE DEF x
  <2>2. x \div 2 \in Nat
    BY <2>1
  <2> QED
    BY <2>2 DEF x
<1> QED
  BY <1>1 DEF Steps, Lowered

\* The reduction without branches gives a number.
LEMMA ReduceNat == ASSUME NEW w \in Nat PROVE ReduceCt(w) \in Nat
  BY DEF ReduceCt

\* The reduction without branches is the reduction, and marks what is refused.
LEMMA ReduceSame ==
  ASSUME NEW w \in Nat
  PROVE  /\ Low(w) => ReduceCt(w) = Reduce(w) /\ ReduceCt(w) < 32768
         /\ ~Low(w) => ~(ReduceCt(w) < 32768)
<1>1. CASE w < 12289
  BY <1>1 DEF ReduceCt, Reduce, Low
<1>2. CASE 12289 <= w /\ w < 24578
  BY <1>2 DEF ReduceCt, Reduce, Low
<1>3. CASE 24578 <= w /\ w < 36867
  BY <1>3 DEF ReduceCt, Reduce, Low
<1>4. CASE 36867 <= w /\ w < 49156
  BY <1>4 DEF ReduceCt, Reduce, Low
<1>5. CASE 49156 <= w /\ w < 61445
  BY <1>5 DEF ReduceCt, Reduce, Low
<1>6. CASE 61445 <= w
  BY <1>6 DEF ReduceCt, Reduce, Low
<1> QED
  BY <1>1, <1>2, <1>3, <1>4, <1>5, <1>6

\* The passes go on until they can move a value by Over slots.
LEMMA PassesEnough == Passes \in 0..10 /\ 2 ^ Passes > Over
<1> DEFINE T == {k \in 0..10 : 2 ^ k > Over}
<1>1. Over \in Nat /\ Over < 1024
  BY HashAssumption
<1>2. 10 \in T
  BY <1>1, Powers
<1>3. PICK k \in T : \A y \in T : k <= y
  <2>1. T \subseteq Nat
    OBVIOUS
  <2> HIDE DEF T
  <2> QED
    BY <1>2, <2>1, LeastNumber
<1>4. ASSUME k # 0 PROVE 2 ^ (k - 1) <= Over
  <2>1. k - 1 \in 0..10 /\ ~(k <= k - 1)
    BY <1>4
  <2>2. k - 1 \notin T
    BY <1>3, <2>1
  <2>3. ~(2 ^ (k - 1) > Over)
    BY <2>1, <2>2
  <2>4. 2 ^ (k - 1) \in Nat
    <3>1. k - 1 \in 0..24
      BY <2>1
    <3> QED
      BY <3>1, PowerNat, Zenon
  <2> QED
    BY <1>1, <2>3, <2>4
<1> DEFINE Q(x) == 2 ^ x > Over /\ (x = 0 \/ 2 ^ (x - 1) <= Over)
<1>5. k \in 0..10 /\ Q(k)
  BY <1>4
<1>6. Passes = CHOOSE x \in 0..10 : Q(x)
  BY DEF Passes
<1> HIDE DEF Q
<1>7. Passes \in 0..10 /\ Q(Passes)
  BY <1>5, <1>6, Zenon
<1> QED
  BY <1>7 DEF Q

\* The passes of hash_to_point_ct().
LEMMA CtLoop ==
  ASSUME NEW s, NEW m
  PROVE  \E h : /\ Squeezed(m, s) = h[Passes]
                /\ Runs(h, <<"ct", m>>, [u \in 0..(m - 1) |-> ReduceCt(s[u + 1])], Passes)
<1> DEFINE loop == <<"ct", m>>
           d == [u \in 0..(m - 1) |-> ReduceCt(s[u + 1])]
           step(x, k) == With(x, LAMBDA t : SqueezePass(t, m, 2 ^ (k - 1)))
           E(h) == h = [k \in 0..Passes |-> IF k = 0 THEN d ELSE step(h[k - 1], k)]
           f == CHOOSE h : E(h)
<1>1. ASSUME NEW x, NEW k PROVE LoopStep(loop, x, k) = step(x, k)
  BY DEF LoopStep, With
<1>2. Squeezed(m, s) = f[Passes]
  BY DEF Squeezed
<1> HIDE DEF loop, d, step
<1>0. Passes \in Nat
  BY PassesEnough
<1>3. \E h : Iterates(h, loop, d, Passes)
  <2> HIDE DEF E, f
  <2> QED
    BY <1>0, LoopExists
<1>4. PICK h : Iterates(h, loop, d, Passes)
  BY <1>3
<1>5. E(h)
  BY <1>1, <1>4, Zenon DEF Iterates
<1>6. E(f)
  <2> HIDE DEF E
  <2> QED
    BY <1>5, Zenon
<1> HIDE DEF f
<1>7. f[0] = d
  <2>1. 0 \in 0..Passes
    BY <1>0
  <2> QED
    BY <1>6, <2>1, Zenon
<1>8. ASSUME NEW k \in 1..Passes PROVE f[k] = LoopStep(loop, f[k - 1], k)
  <2>1. k \in 0..Passes /\ k # 0
    BY <1>0
  <2> QED
    BY <1>1, <1>6, <2>1, Zenon
<1>9. Runs(f, loop, d, Passes)
  BY <1>7, <1>8, Zenon DEF Runs
<1> QED
  BY <1>2, <1>9, Zenon DEF loop, d

\* The constant-time compaction loses no kept sample and keeps their order: with at least n
\* kept samples out of n + Over, the first n slots end with the first n of them modulo q.
LEMMA CtKeeps ==
  ASSUME NEW n \in Nat, NEW s \in Seq(Nat), Len(s) = n + Over,
         NEW g, Runs(g, <<"kept", s>>, <<>>, Len(s)), Len(g[Len(s)]) >= n
  PROVE  hash_to_point_ct(n, s) = [i \in 1..n |-> Reduce(g[Len(s)][i])]
<1> DEFINE m == n + Over
           y == g[Len(s)]
           K == Len(y)
           val == [r \in 0..(K - 1) |-> Reduce(y[r + 1])]
           d == [u \in 0..(m - 1) |-> ReduceCt(s[u + 1])]
<1>0. m \in Nat /\ Over \in Nat /\ Len(s) = m
  BY HashAssumption
<1>1. PICK P0 : Places(P0, y, s, m)
  BY <1>0, KeptPlaces
<1>2. PICK h : Squeezed(m, s) = h[Passes] /\ Runs(h, <<"ct", m>>, d, Passes)
  <2> HIDE DEF m
  <2> QED
    BY CtLoop
<1>3. /\ y \in Seq(Nat) /\ Ordered(P0, K, m)
      /\ \A r \in 0..(K - 1) : y[r + 1] = s[P0[r] + 1] /\ Low(s[P0[r] + 1])
      /\ \A u \in 0..(m - 1) : Low(s[u + 1]) => \E r \in 0..(K - 1) : P0[r] = u
  BY <1>1 DEF Places
<1>4. K \in Nat /\ n <= K
  BY <1>3
<1>5. \A r \in 0..(K - 1) : val[r] = Reduce(y[r + 1])
  OBVIOUS
<1>6. Passes \in 0..10 /\ 2 ^ Passes > Over
  BY PassesEnough
<1>7. \A u \in 0..(m - 1) : s[u + 1] \in Nat
  BY <1>0
<1>8. /\ d \in [0..(m - 1) -> Nat]
      /\ \A u \in 0..(m - 1) : d[u] = ReduceCt(s[u + 1])
  <2> HIDE DEF m
  <2>1. \A u \in 0..(m - 1) : ReduceCt(s[u + 1]) \in Nat
    <3> SUFFICES ASSUME NEW u \in 0..(m - 1) PROVE ReduceCt(s[u + 1]) \in Nat
      OBVIOUS
    <3> DEFINE w == s[u + 1]
    <3>1. w \in Nat
      BY <1>7
    <3> HIDE DEF w
    <3>2. ReduceCt(w) \in Nat
      BY <3>1, ReduceNat, Zenon
    <3> QED
      BY <3>2 DEF w
  <2> QED
    BY <2>1
<1> HIDE DEF m, y, K, val, d
<1> DEFINE S == {k \in Nat : k <= Passes => \E P, e : Holds(h[k], P, K, m, val) /\ Steps(P, K, 2 ^ k, e)}
<1>9. 0 \in S
  <2> DEFINE e == [r \in 0..(K - 1) |-> P0[r] - r]
  <2>1. h[0] = d
    BY <1>2, Zenon DEF Runs
  <2>2. P0 \in [0..(K - 1) -> Nat] /\ \A r \in 0..(K - 1) : r <= P0[r] /\ P0[r] < m
    BY <1>3 DEF Ordered
  <2>3. e \in [0..(K - 1) -> Nat] /\ \A r \in 0..(K - 1) : P0[r] = r + 1 * e[r]
    BY <2>2
  <2> HIDE DEF e
  <2>4. Steps(P0, K, 2 ^ 0, e)
    BY <2>3, Powers DEF Steps
  <2>5. ASSUME NEW r \in 0..(K - 1) PROVE d[P0[r]] = val[r] /\ val[r] < 32768
    <3> DEFINE u == P0[r]
               w == s[u + 1]
    <3>1. u \in 0..(m - 1)
      BY <1>0, <2>2
    <3>2. y[r + 1] = w /\ Low(w)
      BY <1>3, Zenon
    <3> HIDE DEF u
    <3>3. d[u] = ReduceCt(w) /\ w \in Nat
      BY <1>7, <1>8, <3>1, Zenon
    <3> HIDE DEF w
    <3>4. ReduceCt(w) = Reduce(w) /\ ReduceCt(w) < 32768
      BY <3>2, <3>3, ReduceSame
    <3>5. val[r] = Reduce(w)
      BY <1>5, <3>2, Zenon
    <3>6. d[u] = val[r] /\ val[r] < 32768
      BY <3>3, <3>4, <3>5
    <3> QED
      BY <3>6 DEF u
  <2>6. ASSUME NEW u \in 0..(m - 1), d[u] < 32768 PROVE \E r \in 0..(K - 1) : P0[r] = u
    <3> DEFINE w == s[u + 1]
    <3>1. w \in Nat /\ d[u] = ReduceCt(w)
      BY <1>7, <1>8, Zenon
    <3> HIDE DEF w
    <3>2. Low(w)
      BY <2>6, <3>1, ReduceSame
    <3> QED
      BY <1>3, <3>2, Zenon DEF w
  <2>7. Holds(d, P0, K, m, val)
    BY <1>3, <1>8, <2>5, <2>6 DEF Holds
  <2>8. Holds(h[0], P0, K, m, val)
    BY <2>1, <2>7, Zenon
  <2> QED
    BY <2>4, <2>8, Zenon
<1>10. ASSUME NEW k \in Nat, k \in S PROVE k + 1 \in S
  <2> SUFFICES ASSUME k + 1 <= Passes
               PROVE  \E P, e : Holds(h[k + 1], P, K, m, val) /\ Steps(P, K, 2 ^ (k + 1), e)
    OBVIOUS
  <2>1. k + 1 \in 1..Passes /\ (k + 1) - 1 = k /\ k <= Passes /\ k \in 0..23 /\ k \in 0..24
    BY <1>6
  <2>2. PICK P, e : Holds(h[k], P, K, m, val) /\ Steps(P, K, 2 ^ k, e)
    BY <1>10, <2>1
  <2> DEFINE p == 2 ^ k
             a == h[k]
             F == Lowered(K, p, e)
             f == [r \in 0..(K - 1) |-> e[r] \div 2]
  <2>3. h[k + 1] = SqueezePass(a, m, p)
    <3>1. h[k + 1] = LoopStep(<<"ct", m>>, h[(k + 1) - 1], k + 1)
      BY <1>2, <2>1, Zenon DEF Runs
    <3>2. LoopStep(<<"ct", m>>, a, k + 1) = SqueezePass(a, m, 2 ^ ((k + 1) - 1))
      BY DEF LoopStep
    <3> QED
      BY <2>1, <3>1, <3>2, Zenon
  <2>4. p \in Nat \ {0}
    BY <2>1, PowerNat, Zenon
  <2>5. 2 ^ (k + 1) = 2 * p
    BY <2>1, Doubles
  <2>6. Holds(a, P, K, m, val) /\ Steps(P, K, p, e)
    BY <2>2
  <2> HIDE DEF p, a
  <2>7. Holds(SqueezePass(a, m, p), F, K, m, val)
    BY <1>0, <2>4, <2>6, PassMoves DEF m
  <2>8. Steps(F, K, 2 * p, f)
    <3>1. e \in [0..(K - 1) -> Nat] /\ p \in Nat
      BY <2>4, <2>6 DEF Steps
    <3> QED
      BY <3>1, StepsLeft
  <2> HIDE DEF F, f
  <2> QED
    BY <2>3, <2>5, <2>7, <2>8
<1>11. Passes \in S
  <2>1. Passes \in Nat
    BY <1>6
  <2> HIDE DEF S
  <2> QED
    BY <1>9, <1>10, <2>1, NatSetInduction
<1>12. PICK P, e : Holds(h[Passes], P, K, m, val) /\ Steps(P, K, 2 ^ Passes, e)
  BY <1>6, <1>11
<1>13. ASSUME NEW i \in 1..n PROVE h[Passes][i - 1] = Reduce(y[i])
  <2> DEFINE r == i - 1
             p == 2 ^ Passes
             x == e[r]
  <2>1. r \in 0..(K - 1) /\ r + 1 = i /\ K - 1 \in 0..(K - 1) /\ r \in Nat
    BY <1>4
  <2>2. /\ P \in [0..(K - 1) -> Nat] /\ P[K - 1] < m /\ r <= P[r]
        /\ r < K - 1 => P[r] - r <= P[K - 1] - (K - 1)
    BY <1>12, <2>1 DEF Holds, Ordered
  <2>3. P[r] \in Nat /\ P[K - 1] \in Nat
    BY <2>1, <2>2
  <2>4. P[r] - r <= m - K
    <3>1. CASE r < K - 1
      BY <1>0, <1>4, <2>1, <2>2, <2>3, <3>1
    <3>2. CASE r = K - 1
      BY <1>0, <1>4, <2>1, <2>2, <2>3, <3>2
    <3> QED
      BY <1>4, <2>1, <3>1, <3>2
  <2>5. P[r] - r <= Over
    BY <1>0, <1>4, <2>1, <2>3, <2>4 DEF m
  <2>6. x \in Nat /\ P[r] = r + p * x
    BY <1>12, <2>1 DEF Steps
  <2>7. p \in Nat \ {0} /\ p > Over
    <3>1. Passes \in 0..24
      BY <1>6
    <3> QED
      BY <1>6, <3>1, PowerNat, Zenon
  <2> HIDE DEF p, x, r
  <2>8. x = 0
    <3> SUFFICES ASSUME x >= 1 PROVE FALSE
      BY <2>6
    <3>1. p * 1 <= p * x
      BY <2>6, <2>7, ProductOrder
    <3>2. p * x \in Int /\ p * 1 = p
      BY <2>6, <2>7
    <3> DEFINE px == p * x
    <3>3. px \in Int /\ p <= px /\ P[r] = r + px
      BY <2>6, <3>1, <3>2
    <3> HIDE DEF px
    <3> QED
      BY <1>0, <2>1, <2>3, <2>5, <2>7, <3>3
  <2>9. P[r] = r
    BY <2>1, <2>6, <2>7, <2>8
  <2>10. h[Passes][P[r]] = val[r]
    BY <1>12, <2>1 DEF Holds
  <2>11. h[Passes][r] = Reduce(y[r + 1])
    BY <1>5, <2>1, <2>9, <2>10
  <2> QED
    BY <2>1, <2>11 DEF r
<1>14. hash_to_point_ct(n, s) = [i \in 1..n |-> Squeezed(m, s)[i - 1]]
  BY DEF hash_to_point_ct, m
<1>15. [i \in 1..n |-> Squeezed(m, s)[i - 1]] = [i \in 1..n |-> Reduce(y[i])]
  BY <1>2, <1>13
<1> QED
  BY <1>14, <1>15 DEF y

\* The three versions of hash-to-point return the first n kept samples modulo q, for every
\* degree, every stream of samples with n of them kept, every block size of hash_to_point()
\* and every oversampling of hash_to_point_ct().
THEOREM HashVersions ==
  ASSUME NEW n \in Nat, NEW s \in Seq(Nat), Len(Kept(s)) >= n
  PROVE  LET ref == [i \in 1..n |-> Reduce(Kept(s)[i])]
         IN  /\ hash_to_point(n, s) = ref /\ hash_to_point_vartime(n, s) = ref
             /\ Len(s) = n + Over => hash_to_point_ct(n, s) = ref
<1> DEFINE c == hash_to_point_vartime(n, s)
           y == Kept(s)
<1>0. Len(s) \in Nat
  OBVIOUS
<1>1. PICK g : y = g[Len(s)] /\ Runs(g, <<"kept", s>>, <<>>, Len(s))
  BY <1>0, KeptLoop
<1>2. ReducedTo(c, y, n)
  BY <1>1, VartimeKeeps
<1>3. hash_to_point(n, s) = c
  BY BlocksAgree
<1>4. Len(s) = n + Over => hash_to_point_ct(n, s) = [i \in 1..n |-> Reduce(g[Len(s)][i])]
  <2> SUFFICES ASSUME Len(s) = n + Over
               PROVE  hash_to_point_ct(n, s) = [i \in 1..n |-> Reduce(g[Len(s)][i])]
    OBVIOUS
  <2>1. Len(g[Len(s)]) >= n
    BY <1>1
  <2> QED
    BY <1>1, <2>1, CtKeeps
<1>5. Len(y) >= n
  OBVIOUS
<1> HIDE DEF c, y
<1>6. c = [i \in 1..n |-> Reduce(y[i])]
  <2>1. /\ c \in Seq(Nat) /\ y \in Seq(Nat) /\ Len(c) = (IF Len(y) < n THEN Len(y) ELSE n)
        /\ \A i \in 1..Len(c) : c[i] = Reduce(y[i])
    BY <1>2 DEF ReducedTo
  <2>2. Len(c) = n
    BY <1>5, <2>1
  <2>3. c = [i \in 1..n |-> c[i]]
    BY <2>1, <2>2
  <2> QED
    BY <2>1, <2>2, <2>3
<1> QED
  BY <1>1, <1>3, <1>4, <1>6 DEF c, y

\* What the hash jobs are.
HashJobOK == job.kind = "hash" => job.s \in Seq(Nat) /\ Len(job.s) = HashN + Over

\* Every hash job of run codec is one of those.
LEMMA HashJobs == Spec => []HashJobOK
<1>1. Init => HashJobOK
  BY DEF Init, HashJobOK
<1>2. ASSUME HashJobOK, [Next]_job PROVE HashJobOK'
  <2>1. CASE Hash
    <3>1. PICK p \in Seqs(0..2, HashN + Over) :
             job' = [kind |-> "hash", s |-> [k \in DOMAIN p |-> Sample(k, p[k])]]
      BY <2>1 DEF Hash
    <3> DEFINE m == HashN + Over
               t == [k \in DOMAIN p |-> Sample(k, p[k])]
    <3>2. m \in Nat /\ DOMAIN p = 1..m
      BY <3>1, HashAssumption, HashNAssumption DEF Seqs
    <3>3. ASSUME NEW k \in 1..m PROVE Sample(k, p[k]) \in Nat
      <4>1. k % 5 \in Nat /\ 12289 * (k % 5) + k \in Nat
        BY <3>2
      <4> QED
        BY <4>1 DEF Sample
    <3>4. t \in Seq(Nat) /\ Len(t) = m
      <4> HIDE DEF m
      <4>1. t \in [1..m -> Nat]
        BY <3>2, <3>3
      <4> QED
        BY <3>2, <4>1
    <3>5. job'.s = t
      BY <3>1
    <3> HIDE DEF t
    <3> QED
      BY <3>4, <3>5 DEF HashJobOK
  <2>2. CASE job' = job
    BY <1>2, <2>2 DEF HashJobOK
  <2>3. CASE CompString \/ CompVector \/ TrimVector \/ PublicVector \/ LegacyString \/ SignTwo \/ SignOne \/ Done
    <3>1. CompString => job'.kind # "hash"
      BY DEF CompString
    <3>2. CompVector => job'.kind # "hash"
      BY DEF CompVector
    <3>3. TrimVector => job'.kind # "hash"
      BY DEF TrimVector
    <3>4. PublicVector => job'.kind # "hash"
      BY DEF PublicVector
    <3>5. LegacyString => job'.kind # "hash"
      BY DEF LegacyString
    <3>6. SignTwo => job'.kind # "hash"
      BY DEF SignTwo
    <3>7. SignOne => job'.kind # "hash"
      BY DEF SignOne
    <3>8. Done => job'.kind # "hash"
      BY DEF Done
    <3> QED
      BY <2>3, <3>1, <3>2, <3>3, <3>4, <3>5, <3>6, <3>7, <3>8 DEF HashJobOK
  <2> QED
    BY <1>2, <2>1, <2>2, <2>3 DEF Next, Pick
<1> QED
  BY <1>1, <1>2, PTL DEF Spec

\* HashVersions, as run codec states it: whatever samples are refused, the three versions of
\* hash-to-point agree, and the constant-time one never loses a sample.
THEOREM HashesAgree == Spec => []HashWaysAgree
<1>1. HashJobOK => HashWaysAgree
  <2> SUFFICES ASSUME HashJobOK, job.kind = "hash" PROVE HashWaysAgree
    BY DEF HashWaysAgree
  <2> DEFINE s == job.s
             ref == [i \in 1..HashN |-> Kept(s)[i] % 12289]
  <2>1. s \in Seq(Nat) /\ Len(s) = HashN + Over /\ HashN \in Nat
    BY HashNAssumption DEF HashJobOK
  <2> HIDE DEF s
  <2>2. ASSUME Len(Kept(s)) >= HashN
        PROVE  hash_to_point(HashN, s) = ref /\ hash_to_point_vartime(HashN, s) = ref
               /\ hash_to_point_ct(HashN, s) = ref
    <3>1. ref = [i \in 1..HashN |-> Reduce(Kept(s)[i])]
      BY DEF Reduce
    <3> HIDE DEF ref
    <3> QED
      BY <2>1, <2>2, <3>1, HashVersions
  <2> QED
    BY <2>2 DEF HashWaysAgree, s
<1> QED
  BY <1>1, HashJobs, PTL

-----------------------------------------------------------------------------
(***************************************************************************)
(* The representative mu and the signing seed bind what they are made of,  *)
(* for byte strings of every length, and signing has the room it needs.    *)
(* The argument is one of framing: what is injected can be parsed in one   *)
(* way only.                                                               *)
(***************************************************************************)
\* The entries of a concatenation.
LEMMA ConcatFacts ==
  ASSUME NEW S, NEW a \in Seq(S), NEW b \in Seq(S)
  PROVE  /\ a \o b \in Seq(S) /\ Len(a \o b) = Len(a) + Len(b)
         /\ Len(a) \in Nat /\ Len(b) \in Nat
         /\ \A i \in 1..Len(a) : (a \o b)[i] = a[i]
         /\ \A i \in 1..Len(b) : (a \o b)[Len(a) + i] = b[i]
  OBVIOUS

\* Two equal concatenations whose first parts are as long have equal parts.
LEMMA ConcatCancels ==
  ASSUME NEW S, NEW a \in Seq(S), NEW b \in Seq(S), NEW c \in Seq(S), NEW d \in Seq(S),
         a \o b = c \o d, Len(a) = Len(c)
  PROVE  a = c /\ b = d
<1>1. Len(b) = Len(d)
  <2>1. Len(a \o b) = Len(a) + Len(b) /\ Len(c \o d) = Len(c) + Len(d)
    OBVIOUS
  <2>2. Len(a) \in Nat /\ Len(b) \in Nat /\ Len(d) \in Nat
    OBVIOUS
  <2> QED
    BY <2>1, <2>2
<1>2. ASSUME NEW i \in 1..Len(a) PROVE a[i] = c[i]
  <2>1. (a \o b)[i] = a[i] /\ (c \o d)[i] = c[i]
    OBVIOUS
  <2> QED
    BY <2>1
<1>3. ASSUME NEW i \in 1..Len(b) PROVE b[i] = d[i]
  <2>1. (a \o b)[Len(a) + i] = b[i]
    OBVIOUS
  <2>2. (c \o d)[Len(c) + i] = d[i]
    BY <1>1
  <2> QED
    BY <2>1, <2>2
<1> QED
  BY <1>1, <1>2, <1>3

\* What BytesOf gives: one token for each byte, and the two directions of that.
LEMMA BytesTyped ==
  ASSUME NEW S, NEW u \in Seq(S)
  PROVE  /\ BytesOf(u) \in Seq({B(x) : x \in S}) /\ Len(BytesOf(u)) = Len(u)
         /\ \A i \in 1..Len(u) : BytesOf(u)[i] = B(u[i])
  BY DEF BytesOf

\* A sequence is determined by its bytes.
LEMMA BytesInjective ==
  ASSUME NEW S, NEW s \in Seq(S), NEW t \in Seq(S), BytesOf(s) = BytesOf(t)
  PROVE  s = t
<1>1. Len(s) = Len(t)
  <2>1. Len(BytesOf(s)) = Len(s) /\ Len(BytesOf(t)) = Len(t)
    BY BytesTyped
  <2> QED
    BY <2>1
<1>2. ASSUME NEW i \in 1..Len(s) PROVE s[i] = t[i]
  <2>1. BytesOf(s)[i] = B(s[i]) /\ BytesOf(t)[i] = B(t[i])
    BY <1>1, BytesTyped
  <2>2. B(s[i]) = B(t[i])
    BY <2>1
  <2> QED
    BY <2>2 DEF B
<1> QED
  BY <1>1, <1>2

\* The bytes of a concatenation, part by part.
LEMMA BytesConcat ==
  ASSUME NEW S, NEW s \in Seq(S), NEW t \in Seq(S)
  PROVE  BytesOf(s \o t) = BytesOf(s) \o BytesOf(t)
<1> DEFINE T == {B(x) : x \in S}
           x == BytesOf(s \o t)
           y == BytesOf(s) \o BytesOf(t)
<1>1. s \o t \in Seq(S) /\ Len(s \o t) = Len(s) + Len(t) /\ Len(s) \in Nat /\ Len(t) \in Nat
  OBVIOUS
<1>2. BytesOf(s) \in Seq(T) /\ BytesOf(t) \in Seq(T) /\ x \in Seq(T)
  BY <1>1, BytesTyped
<1>3. Len(BytesOf(s)) = Len(s) /\ Len(BytesOf(t)) = Len(t) /\ Len(x) = Len(s) + Len(t)
  BY <1>1, BytesTyped
<1>4. y \in Seq(T) /\ Len(y) = Len(s) + Len(t)
  <2> HIDE DEF T
  <2> QED
    BY <1>2, <1>3, ConcatFacts
<1>5. ASSUME NEW i \in 1..(Len(s) + Len(t)) PROVE x[i] = y[i]
  <2>0. x[i] = B((s \o t)[i])
    BY <1>1, BytesTyped
  <2>1. CASE i <= Len(s)
    <3>1. i \in 1..Len(s)
      BY <1>1, <2>1
    <3>2. (s \o t)[i] = s[i] /\ BytesOf(s)[i] = B(s[i])
      <4>1. (s \o t)[i] = s[i]
        BY <3>1, ConcatFacts
      <4>2. BytesOf(s)[i] = B(s[i])
        BY <3>1, BytesTyped
      <4> QED
        BY <4>1, <4>2
    <3>3. y[i] = BytesOf(s)[i]
      <4> HIDE DEF T
      <4> QED
        BY <1>2, <1>3, <3>1
    <3> QED
      BY <2>0, <3>2, <3>3
  <2>2. CASE ~(i <= Len(s))
    <3> DEFINE j == i - Len(s)
    <3>1. j \in 1..Len(t) /\ i = Len(s) + j
      BY <1>1, <2>2
    <3> HIDE DEF j
    <3>2. (s \o t)[i] = t[j] /\ BytesOf(t)[j] = B(t[j])
      <4>1. (s \o t)[i] = t[j]
        BY <3>1, ConcatFacts
      <4>2. BytesOf(t)[j] = B(t[j])
        BY <3>1, BytesTyped
      <4> QED
        BY <4>1, <4>2
    <3>3. y[i] = BytesOf(t)[j]
      <4> HIDE DEF T
      <4> QED
        BY <1>1, <1>2, <1>3, <3>1
    <3> QED
      BY <2>0, <3>2, <3>3
  <2> QED
    BY <2>1, <2>2
<1> HIDE DEF x, y, T
<1>6. x = y
  BY <1>2, <1>3, <1>4, <1>5
<1> QED
  BY <1>6 DEF x, y

-----------------------------------------------------------------------------
\* The bytes of requests: those of messages and of lengths and identifiers.
U == Int \cup MsgBytes

\* Concatenation is associative.
LEMMA ConcatAssoc ==
  ASSUME NEW S, NEW a \in Seq(S), NEW b \in Seq(S), NEW c \in Seq(S)
  PROVE  (a \o b) \o c = a \o (b \o c)
  OBVIOUS

\* The bytes between the hashed public key and the end of the message.
Framed(ctx, id, hv) ==
    IF id[1] = 0 THEN <<0, ctx.len>> \o ctx.s \o hv ELSE <<1, ctx.len>> \o ctx.s \o id \o hv

\* An identifier as the code delimits it: the raw one has no more bytes, an object
\* identifier has as many as its second byte says.
IdOK(id) ==
    /\ id \in Seq(Int) /\ id # <<>>
    /\ id[1] = 0 => id = RawId
    /\ id[1] = 6 => Len(id) >= 2 /\ Len(id) = 2 + id[2]

CtxOK(ctx) == ctx.s \in Seq(U) /\ ctx.len = Len(ctx.s)

\* x is the head of what is framed: the kind of the message and the length of the context.
HeadOf(x, ctx, id, hv) ==
    /\ Len(x) = Len(RawId) + 1 /\ 2 \in 1..Len(x)
    /\ x[1] = (IF id[1] = 0 THEN 0 ELSE 1) /\ x[2] = Len(ctx.s)
    /\ Framed(ctx, id, hv) = x \o ctx.s \o (IF id[1] = 0 THEN hv ELSE id \o hv)

\* What is framed starts with such a head.
LEMMA FramedShape ==
  ASSUME NEW ctx, CtxOK(ctx), NEW id \in Seq(U), NEW hv \in Seq(U)
  PROVE  \E x \in Seq(U) : HeadOf(x, ctx, id, hv)
<1>1. CASE id[1] = 0
  <2> DEFINE x == <<0, Len(ctx.s)>>
  <2>1. x \in Seq(U) /\ Len(x) = Len(RawId) + 1 /\ 2 \in 1..Len(x) /\ x[1] = 0 /\ x[2] = Len(ctx.s)
    BY DEF RawId, U
  <2>2. Framed(ctx, id, hv) = x \o ctx.s \o hv
    BY <1>1 DEF Framed, CtxOK
  <2> HIDE DEF x
  <2>3. HeadOf(x, ctx, id, hv)
    BY <1>1, <2>1, <2>2 DEF HeadOf
  <2> QED
    BY <2>1, <2>3
<1>2. CASE id[1] # 0
  <2> DEFINE x == <<1, Len(ctx.s)>>
             s == ctx.s
             w == x \o s
  <2>1. x \in Seq(U) /\ Len(x) = Len(RawId) + 1 /\ 2 \in 1..Len(x) /\ x[1] = 1 /\ x[2] = Len(ctx.s)
    BY DEF RawId, U
  <2>2. s \in Seq(U)
    BY DEF CtxOK
  <2>3. Framed(ctx, id, hv) = w \o id \o hv
    BY <1>2 DEF Framed, CtxOK
  <2> HIDE DEF x
  <2>4. w \in Seq(U)
    BY <2>1, <2>2, ConcatFacts
  <2> HIDE DEF w
  <2>5. w \o id \o hv = w \o (id \o hv)
    BY <2>4, ConcatAssoc
  <2>6. Framed(ctx, id, hv) = x \o ctx.s \o (id \o hv)
    BY <2>3, <2>5 DEF w
  <2>7. HeadOf(x, ctx, id, hv)
    BY <1>2, <2>1, <2>6 DEF HeadOf
  <2> QED
    BY <2>1, <2>7
<1> QED
  BY <1>1, <1>2

\* Framing can be undone: the length byte delimits the context, the second byte of an object
\* identifier delimits the identifier, and the rest is the message or its hash.
LEMMA FramedApart ==
  ASSUME NEW c1, NEW c2, CtxOK(c1), CtxOK(c2),
         NEW id1, NEW id2, IdOK(id1), IdOK(id2), id1[1] \in {0, 6}, id2[1] \in {0, 6},
         NEW h1 \in Seq(U), NEW h2 \in Seq(U),
         Framed(c1, id1, h1) = Framed(c2, id2, h2)
  PROVE  c1.s = c2.s /\ c1.len = c2.len /\ id1 = id2 /\ h1 = h2
<1> DEFINE k1 == IF id1[1] = 0 THEN 0 ELSE 1
           k2 == IF id2[1] = 0 THEN 0 ELSE 1
           t1 == IF id1[1] = 0 THEN h1 ELSE id1 \o h1
           t2 == IF id2[1] = 0 THEN h2 ELSE id2 \o h2
           s1 == c1.s
           s2 == c2.s
<1>0. id1 \in Seq(U) /\ id2 \in Seq(U) /\ s1 \in Seq(U) /\ s2 \in Seq(U)
  <2>1. id1 \in Seq(Int) /\ id2 \in Seq(Int)
    BY DEF IdOK
  <2>2. ASSUME NEW s \in Seq(Int) PROVE s \in Seq(U)
    BY <2>2 DEF U
  <2> QED
    BY <2>1, <2>2 DEF CtxOK
<1>1. k1 \in Int /\ k2 \in Int /\ t1 \in Seq(U) /\ t2 \in Seq(U)
  BY <1>0
<1>2. PICK x1 \in Seq(U) : /\ Len(x1) = Len(RawId) + 1 /\ 2 \in 1..Len(x1)
                           /\ x1[1] = k1 /\ x1[2] = Len(s1)
                           /\ Framed(c1, id1, h1) = x1 \o s1 \o t1
  <2>1. PICK x \in Seq(U) : HeadOf(x, c1, id1, h1)
    BY <1>0, FramedShape, Zenon
  <2> QED
    BY <2>1 DEF HeadOf
<1>3. PICK x2 \in Seq(U) : /\ Len(x2) = Len(RawId) + 1 /\ 2 \in 1..Len(x2)
                           /\ x2[1] = k2 /\ x2[2] = Len(s2)
                           /\ Framed(c2, id2, h2) = x2 \o s2 \o t2
  <2>1. PICK x \in Seq(U) : HeadOf(x, c2, id2, h2)
    BY <1>0, FramedShape, Zenon
  <2> QED
    BY <2>1 DEF HeadOf
<1>5. k1 = k2 /\ s1 = s2 /\ t1 = t2
  <2> HIDE DEF k1, k2, t1, t2, s1, s2
  <2>1. x1 \o s1 \o t1 = x2 \o s2 \o t2
    BY <1>2, <1>3
  <2>2. x1 = x2 /\ s1 = s2 /\ t1 = t2
    <3>1. /\ x1 \in Seq(U) /\ x2 \in Seq(U) /\ s1 \in Seq(U) /\ s2 \in Seq(U)
          /\ t1 \in Seq(U) /\ t2 \in Seq(U)
      BY <1>0, <1>1
    <3> DEFINE i == 2
    <3>2. Len(x1) = Len(x2) /\ i \in 1..Len(x1) /\ x1[i] = Len(s1) /\ x2[i] = Len(s2)
      BY <1>2, <1>3
    <3> HIDE DEF i
    <3> DEFINE w1 == x1 \o s1
               w2 == x2 \o s2
    <3>3. /\ w1 \in Seq(U) /\ Len(w1) = Len(x1) + Len(s1)
          /\ w2 \in Seq(U) /\ Len(w2) = Len(x2) + Len(s2)
          /\ Len(x1) \in Nat /\ Len(s1) \in Nat /\ Len(s2) \in Nat
      BY <3>1, ConcatFacts
    <3>4. w1[i] = x1[i] /\ w2[i] = x2[i]
      BY <3>1, <3>2, ConcatFacts
    <3>5. w1 \o t1 = w2 \o t2
      BY <2>1
    <3> HIDE DEF w1, w2
    <3>6. i \in 1..Len(w1) /\ i \in 1..Len(w2)
      BY <3>2, <3>3
    <3>7. (w1 \o t1)[i] = w1[i] /\ (w2 \o t2)[i] = w2[i]
      BY <3>1, <3>3, <3>6, ConcatFacts
    <3>8. Len(w1) = Len(w2)
      BY <3>2, <3>3, <3>4, <3>5, <3>7
    <3>9. w1 = w2 /\ t1 = t2
      BY <3>1, <3>3, <3>5, <3>8, ConcatCancels
    <3>10. x1 = x2 /\ s1 = s2
      BY <3>1, <3>2, <3>9, ConcatCancels DEF w1, w2
    <3> QED
      BY <3>9, <3>10
  <2> QED
    BY <1>2, <1>3, <2>2
<1>6. c1.len = c2.len
  BY <1>5 DEF CtxOK
<1>7. CASE id1[1] = 0
  <2>1. id2[1] = 0
    BY <1>5, <1>7
  <2> QED
    BY <1>5, <1>6, <1>7, <2>1 DEF IdOK
<1>8. CASE id1[1] = 6
  <2>1. id2[1] = 6 /\ id1 \o h1 = id2 \o h2
    BY <1>5, <1>8
  <2>2. /\ Len(id1) >= 2 /\ Len(id2) >= 2 /\ Len(id1) = 2 + id1[2] /\ Len(id2) = 2 + id2[2]
        /\ Len(id1) \in Nat /\ Len(id2) \in Nat
    <3>1. Len(id1) >= 2 /\ Len(id2) >= 2 /\ Len(id1) = 2 + id1[2] /\ Len(id2) = 2 + id2[2]
      BY <1>8, <2>1, Zenon DEF IdOK
    <3> QED
      BY <1>0, <3>1
  <2>3. 2 \in 1..Len(id1) /\ 2 \in 1..Len(id2)
    BY <2>2
  <2>4. (id1 \o h1)[2] = id1[2] /\ (id2 \o h2)[2] = id2[2]
    BY <1>0, <2>3, ConcatFacts
  <2>5. Len(id1) = Len(id2)
    BY <2>1, <2>2, <2>4
  <2> QED
    BY <1>0, <1>5, <1>6, <2>1, <2>5, ConcatCancels
<1> QED
  BY <1>7, <1>8

\* What is framed is a sequence of bytes.
LEMMA FramedTyped ==
  ASSUME NEW ctx, CtxOK(ctx), NEW id, IdOK(id), NEW hv \in Seq(U)
  PROVE  Framed(ctx, id, hv) \in Seq(U)
<1>1. id \in Seq(U)
  BY DEF IdOK, U
<1>2. PICK x \in Seq(U) : Framed(ctx, id, hv) = x \o ctx.s \o (IF id[1] = 0 THEN hv ELSE id \o hv)
  <2>1. PICK x \in Seq(U) : HeadOf(x, ctx, id, hv)
    BY <1>1, FramedShape, Zenon
  <2> QED
    BY <2>1 DEF HeadOf
<1>3. x \o ctx.s \in Seq(U)
  BY ConcatFacts DEF CtxOK
<1>4. (IF id[1] = 0 THEN hv ELSE id \o hv) \in Seq(U)
  BY <1>1, ConcatFacts
<1> QED
  BY <1>2, <1>3, <1>4, ConcatFacts

\* The bytes hashed for mu, when there are any.
LEMMA MuShape ==
  ASSUME NEW vk, NEW ctx, NEW id, NEW hv, MuInput(vk, ctx, id, hv) # <<>>
  PROVE  id[1] \in {0, 6} /\ MuInput(vk, ctx, id, hv) = vk \o BytesOf(Framed(ctx, id, hv))
  BY DEF MuInput, Framed

\* compute_mu() hashes different bytes for different public keys, contexts, identifiers or
\* hashed messages, whatever their lengths: no request can pass for another one by moving a
\* boundary between two of the fields that are injected one after the other.
THEOREM MuBinds ==
  ASSUME NEW v1, NEW v2, NEW c1, NEW c2, CtxOK(c1), CtxOK(c2),
         NEW id1, NEW id2, IdOK(id1), IdOK(id2), NEW h1 \in Seq(U), NEW h2 \in Seq(U),
         MuInput(Shake256(v1), c1, id1, h1) # <<>>,
         MuInput(Shake256(v1), c1, id1, h1) = MuInput(Shake256(v2), c2, id2, h2)
  PROVE  v1 = v2 /\ id1 = id2 /\ c1.s = c2.s /\ c1.len = c2.len /\ h1 = h2
<1> DEFINE T == {B(x) : x \in U} \cup {<<"H", v1>>, <<"H", v2>>}
           f1 == Framed(c1, id1, h1)
           f2 == Framed(c2, id2, h2)
           k1 == Shake256(v1)
           k2 == Shake256(v2)
           b1 == BytesOf(f1)
           b2 == BytesOf(f2)
<1>1. /\ k1 \in Seq(T) /\ k2 \in Seq(T) /\ Len(k1) = Len(k2)
      /\ k1 = k2 => v1 = v2
  <2>1. k1 = << <<"H", v1>> >> /\ k2 = << <<"H", v2>> >>
    BY DEF Shake256
  <2>2. <<"H", v1>> \in T /\ <<"H", v2>> \in T
    OBVIOUS
  <2> HIDE DEF T, k1, k2
  <2> QED
    BY <2>1, <2>2
<1>2. f1 \in Seq(U) /\ f2 \in Seq(U)
  BY FramedTyped
<1>3. b1 \in Seq({B(x) : x \in U}) /\ b2 \in Seq({B(x) : x \in U})
  BY <1>2, BytesTyped
<1>4. b1 \in Seq(T) /\ b2 \in Seq(T)
  BY <1>3
<1>5. id1[1] \in {0, 6} /\ id2[1] \in {0, 6} /\ k1 \o b1 = k2 \o b2
  <2>1. id1[1] \in {0, 6} /\ MuInput(k1, c1, id1, h1) = k1 \o b1
    BY MuShape
  <2>2. MuInput(k2, c2, id2, h2) # <<>>
    OBVIOUS
  <2>3. id2[1] \in {0, 6} /\ MuInput(k2, c2, id2, h2) = k2 \o b2
    BY <2>2, MuShape
  <2> QED
    BY <2>1, <2>3
<1> HIDE DEF T, k1, k2, b1, b2
<1>6. k1 = k2 /\ b1 = b2
  BY <1>1, <1>4, <1>5, ConcatCancels
<1>7. f1 = f2
  BY <1>2, <1>6, BytesInjective DEF b1, b2
<1> QED
  BY <1>1, <1>5, <1>6, <1>7, FramedApart

-----------------------------------------------------------------------------
\* The representative of a request.
RequestMu(r) ==
    IF r.id = ExternalMu
    THEN (IF r.hvLen # 64 THEN <<>> ELSE BytesOf(r.hv))
    ELSE compute_mu(IF r.keyLen < 65 THEN <<>> ELSE Shake256(BytesOf(r.vkey)),
                    r.ctx, IF r.id = <<>> THEN RawId ELSE r.id, r.hv)

\* What a request that reaches sign_core() has passed, and what it brings there.
LEMMA Reaches ==
  ASSUME NEW r, sign_wrapper(r).ret = "sign"
  PROVE  /\ r.logn \in (IF r.weak THEN 2..8 ELSE 9..10)
         /\ r.keyLen = FNDSA_SIGN_KEY_SIZE(r.logn)
         /\ sign_wrapper(r).mu = RequestMu(r) /\ RequestMu(r) # <<>>
         /\ sign_wrapper(r).seed = make_seedbuf(r.fg, RequestMu(r), r.seed, r.rng)
         /\ sign_wrapper(r).area = (IF r.tmpNull THEN StackTmp(r.logn) ELSE r.tmpLen)
         /\ r.tmpNull \/ ~(r.tmpLen < 20 * 2 ^ r.logn + 31)
<1> DEFINE mu == RequestMu(r)
           seedbuf == make_seedbuf(r.fg, mu, r.seed, r.rng)
           area == IF r.tmpNull THEN StackTmp(r.logn) ELSE r.tmpLen
           no == [ret |-> "no"]
           full == [ret |-> "sign", mu |-> mu, seed |-> seedbuf, area |-> area]
           size == [ret |-> "size", size |-> FNDSA_SIGNATURE_SIZE(r.logn)]
<1>1. sign_wrapper(r) =
        IF r.keyLen = 0 \/ r.head # 80 THEN no
        ELSE IF r.logn \notin (IF r.weak THEN 2..8 ELSE 9..10) THEN no
        ELSE IF r.keyLen # FNDSA_SIGN_KEY_SIZE(r.logn) THEN no
        ELSE IF r.sigNull THEN size
        ELSE IF r.sigLen < FNDSA_SIGNATURE_SIZE(r.logn) \/ mu = <<>> THEN no
        ELSE IF ~r.tmpNull /\ r.tmpLen < 20 * 2 ^ r.logn + 31 THEN no
        ELSE IF seedbuf = <<>> THEN no ELSE full
  BY Zenon DEF sign_wrapper, RequestMu
<1>2. no.ret # "sign" /\ size.ret # "sign"
  OBVIOUS
<1>3. full.mu = mu /\ full.seed = seedbuf /\ full.area = area
  OBVIOUS
<1> HIDE DEF no, full, mu, seedbuf, area, size
<1>4. /\ r.logn \in (IF r.weak THEN 2..8 ELSE 9..10)
      /\ r.keyLen = FNDSA_SIGN_KEY_SIZE(r.logn) /\ mu # <<>>
      /\ r.tmpNull \/ ~(r.tmpLen < 20 * 2 ^ r.logn + 31)
      /\ sign_wrapper(r) = full
  BY <1>1, <1>2, Zenon
<1> QED
  BY <1>3, <1>4 DEF mu, seedbuf, area

\* When sign_wrapper() goes on to sign, the working area, the caller's or its own, still has
\* 20n bytes after sign_step1() has aligned it, wherever it starts, and the key is as long as
\* its parts: for every degree, every address and every length the caller may give.
THEOREM RoomLeft ==
  ASSUME NEW r, sign_wrapper(r).ret = "sign", NEW addr \in Nat, r.tmpLen \in Int
  PROVE  /\ Aligned(addr, sign_wrapper(r).area) >= 20 * 2 ^ r.logn
         /\ r.keyLen = 1 + fg_nbits(r.logn) * (2 ^ r.logn \div 4) + 2 ^ r.logn + 64
<1> DEFINE n == 2 ^ r.logn
           area == sign_wrapper(r).area
<1>1. r.logn \in 2..10 /\ r.logn \in {2, 3, 4, 5, 6, 7, 8, 9, 10}
  <2>1. r.logn \in (IF r.weak THEN 2..8 ELSE 9..10)
    BY Reaches
  <2> QED
    BY <2>1
<1>2. /\ n \in Int /\ StackTmp(r.logn) \in Int /\ StackTmp(r.logn) >= 20 * n + 31
      /\ FNDSA_SIGN_KEY_SIZE(r.logn) = 1 + fg_nbits(r.logn) * (n \div 4) + n + 64
  <2>1. CASE r.logn = 2
    BY <2>1 DEF StackTmp, FNDSA_SIGN_KEY_SIZE, fg_nbits
  <2>2. CASE r.logn = 3
    BY <2>2 DEF StackTmp, FNDSA_SIGN_KEY_SIZE, fg_nbits
  <2>3. CASE r.logn = 4
    BY <2>3 DEF StackTmp, FNDSA_SIGN_KEY_SIZE, fg_nbits
  <2>4. CASE r.logn = 5
    BY <2>4 DEF StackTmp, FNDSA_SIGN_KEY_SIZE, fg_nbits
  <2>5. CASE r.logn = 6
    BY <2>5 DEF StackTmp, FNDSA_SIGN_KEY_SIZE, fg_nbits
  <2>6. CASE r.logn = 7
    BY <2>6 DEF StackTmp, FNDSA_SIGN_KEY_SIZE, fg_nbits
  <2>7. CASE r.logn = 8
    BY <2>7 DEF StackTmp, FNDSA_SIGN_KEY_SIZE, fg_nbits
  <2>8. CASE r.logn = 9
    BY <2>8 DEF StackTmp, FNDSA_SIGN_KEY_SIZE, fg_nbits
  <2>9. CASE r.logn = 10
    BY <2>9 DEF StackTmp, FNDSA_SIGN_KEY_SIZE, fg_nbits
  <2> QED
    BY <1>1, <2>1, <2>2, <2>3, <2>4, <2>5, <2>6, <2>7, <2>8, <2>9
<1> HIDE DEF n
<1>3. area \in Int /\ area >= 20 * n + 31
  BY <1>2, Reaches DEF n
<1> HIDE DEF area
<1>4. (32 - (addr % 32)) % 32 \in 0..31
  <2>1. addr % 32 \in 0..31
    OBVIOUS
  <2> QED
    BY <2>1
<1>5. Aligned(addr, area) >= 20 * n
  BY <1>2, <1>3, <1>4 DEF Aligned
<1> QED
  BY <1>2, <1>5, Reaches DEF n, area

-----------------------------------------------------------------------------
\* What the jobs of the two properties are.
JobOK ==
    /\ job.kind = "sign" =>
         \E id1, id2 \in Ids, c1, c2 \in UpTo(MsgBytes, 1), h1, h2 \in UpTo(MsgBytes, 2), s \in 0..1 :
            job.r1 = Request(c1, id1, h1, 0) /\ job.r2 = Request(c2, id2, h2, s)
    /\ job.kind = "entry" => job.addr \in Nat /\ job.r.tmpLen \in Int

\* Every job of run codec is one of those.
LEMMA JobInvariance == Spec => []JobOK
<1>1. Init => JobOK
  BY DEF Init, JobOK
<1>2. ASSUME JobOK, [Next]_job PROVE JobOK'
  <2>1. CASE SignTwo
    BY <2>1 DEF SignTwo, JobOK
  <2>2. CASE SignOne
    <3>1. PICK e \in EntryPoints, logn \in 1..11, dk \in -1..1, ds \in -1..0, dt \in -1..1,
               addr \in {0, 1, 31}, null \in BOOLEAN, rng \in {<<>>, <<3>>} :
            job' = [kind |-> "entry", addr |-> addr,
                   r |-> [Request(<<>>, <<>>, <<1>>, 0) EXCEPT
                             !.weak = e.weak, !.logn = logn, !.sigNull = null,
                             !.keyLen = IF logn \in 2..10 THEN FNDSA_SIGN_KEY_SIZE(logn) + dk ELSE 0,
                             !.sigLen = IF logn \in 2..10 THEN FNDSA_SIGNATURE_SIZE(logn) + ds ELSE 0,
                             !.tmpNull = ~e.temp, !.tmpLen = 20 * 2 ^ logn + 31 + dt,
                             !.seed = [null |-> ~e.seeded, s |-> <<0>>], !.rng = rng]]
      BY <2>2 DEF SignOne
    <3>2. job'.kind = "entry" /\ job'.addr = addr /\ job'.r.tmpLen = 20 * 2 ^ logn + 31 + dt
      BY <3>1 DEF Request
    <3>3. 2 ^ logn \in Int
      OBVIOUS
    <3> QED
      BY <3>2, <3>3 DEF JobOK
  <2>3. CASE job'.kind \notin {"sign", "entry"}
    BY <2>3 DEF JobOK
  <2>4. CASE job' = job
    BY <1>2, <2>4 DEF JobOK
  <2>5. CASE CompString \/ CompVector \/ TrimVector \/ PublicVector \/ LegacyString \/ Hash \/ Done
    <3>1. CompString => job'.kind \notin {"sign", "entry"}
      BY DEF CompString
    <3>2. CompVector => job'.kind \notin {"sign", "entry"}
      BY DEF CompVector
    <3>3. TrimVector => job'.kind \notin {"sign", "entry"}
      BY DEF TrimVector
    <3>4. PublicVector => job'.kind \notin {"sign", "entry"}
      BY DEF PublicVector
    <3>5. LegacyString => job'.kind \notin {"sign", "entry"}
      BY DEF LegacyString
    <3>6. Hash => job'.kind \notin {"sign", "entry"}
      BY DEF Hash
    <3>7. Done => job'.kind \notin {"sign", "entry"}
      BY DEF Done
    <3> QED
      BY <2>3, <2>5, <3>1, <3>2, <3>3, <3>4, <3>5, <3>6, <3>7
  <2> QED
    BY <1>2, <2>1, <2>2, <2>4, <2>5 DEF Next, Pick
<1> QED
  BY <1>1, <1>2, PTL DEF Spec

\* RoomLeft, for the requests that run codec makes of the eight entry points.
THEOREM RoomForSigning == Spec => []SigningRoom
<1>1. JobOK => SigningRoom
  <2> SUFFICES ASSUME JobOK, job.kind = "entry", sign_wrapper(job.r).ret = "sign"
               PROVE  /\ Aligned(job.addr, sign_wrapper(job.r).area) >= 20 * 2 ^ job.r.logn
                      /\ job.r.keyLen = 1 + fg_nbits(job.r.logn) * (2 ^ job.r.logn \div 4) + 2 ^ job.r.logn + 64
    BY Zenon DEF SigningRoom
  <2>1. job.addr \in Nat /\ job.r.tmpLen \in Int
    BY DEF JobOK
  <2> QED
    BY <2>1, RoomLeft
<1> QED
  BY <1>1, JobInvariance, PTL

-----------------------------------------------------------------------------
\* SHAKE256, as a symbol, tells its inputs apart.
LEMMA ShakeInjective ==
  ASSUME NEW x, NEW y, Shake256(x) = Shake256(y)
  PROVE  x = y
  BY DEF Shake256

\* Hashes are not bytes.
LEMMA HashNotByte == \A x, y : <<"H", x>> # B(y)
  BY DEF B

\* The seed of a signature, when the caller gives the entropy.
Prefix(fg) == BytesOf(<<2026, 830>>) \o Shake256(BytesOf(fg))

\* What make_seedbuf() hashes when the caller gives a seed.
LEMMA SeedShape ==
  ASSUME NEW fg, NEW mu, NEW seed, seed.null = FALSE, NEW rng
  PROVE  make_seedbuf(fg, mu, seed, rng) = Shake256(Prefix(fg) \o mu \o BytesOf(seed.s))
  BY DEF make_seedbuf, Prefix

\* The prefix is a sequence of bytes and hashes.
LEMMA PrefixTyped ==
  ASSUME NEW fg, NEW T, {B(x) : x \in U} \subseteq T, <<"H", BytesOf(fg)>> \in T
  PROVE  /\ BytesOf(<<2026, 830>>) \in Seq(T) /\ Shake256(BytesOf(fg)) \in Seq(T)
         /\ Prefix(fg) \in Seq(T)
<1>1. <<2026, 830>> \in Seq(U)
  BY DEF U
<1>2. BytesOf(<<2026, 830>>) \in Seq({B(x) : x \in U})
  <2> DEFINE w == <<2026, 830>>
  <2>1. w \in Seq(U)
    BY <1>1
  <2> HIDE DEF w
  <2>2. BytesOf(w) \in Seq({B(x) : x \in U})
    BY <2>1, BytesTyped
  <2> QED
    BY <2>2 DEF w
<1> DEFINE p == BytesOf(<<2026, 830>>)
           h == Shake256(BytesOf(fg))
<1>3. p \in Seq(T)
  BY <1>2
<1>4. h \in Seq(T)
  BY DEF Shake256
<1> HIDE DEF p, h
<1>5. p \o h \in Seq(T)
  BY <1>3, <1>4, ConcatFacts
<1> QED
  BY <1>3, <1>4, <1>5 DEF p, h, Prefix

\* make_seedbuf() with one private key gives the same signing seed only for the same message
\* representative and the same caller seed, provided the two seeds have one length: nothing
\* delimits mu from the seed that follows it.
THEOREM SeedBinds ==
  ASSUME NEW fg, NEW M, NEW m1 \in Seq(M), NEW m2 \in Seq(M), NEW rng1, NEW rng2,
         NEW t1 \in Seq(U), NEW t2 \in Seq(U), Len(t1) = Len(t2),
         make_seedbuf(fg, m1, [null |-> FALSE, s |-> t1], rng1)
           = make_seedbuf(fg, m2, [null |-> FALSE, s |-> t2], rng2)
  PROVE  m1 = m2 /\ t1 = t2
<1> DEFINE T == M \cup {B(x) : x \in U} \cup {<<"H", BytesOf(fg)>>}
           p == Prefix(fg)
           e1 == [null |-> FALSE, s |-> t1]
           e2 == [null |-> FALSE, s |-> t2]
           s1 == BytesOf(t1)
           s2 == BytesOf(t2)
<1>1. p \in Seq(T)
  <2>1. {B(x) : x \in U} \subseteq T /\ <<"H", BytesOf(fg)>> \in T
    OBVIOUS
  <2> HIDE DEF T
  <2> QED
    BY <2>1, PrefixTyped
<1>2. m1 \in Seq(T) /\ m2 \in Seq(T)
  OBVIOUS
<1>3. s1 \in Seq(T) /\ s2 \in Seq(T) /\ Len(s1) = Len(s2)
  <2>1. s1 \in Seq({B(x) : x \in U}) /\ s2 \in Seq({B(x) : x \in U}) /\ Len(s1) = Len(s2)
    BY BytesTyped
  <2> QED
    BY <2>1
<1>4. p \o m1 \o s1 = p \o m2 \o s2
  <2> DEFINE x == p \o m1 \o s1
             y == p \o m2 \o s2
  <2>0. e1.null = FALSE /\ e2.null = FALSE /\ e1.s = t1 /\ e2.s = t2
    OBVIOUS
  <2>1. make_seedbuf(fg, m1, e1, rng1) = Shake256(x)
    BY <2>0, SeedShape, Zenon
  <2>2. make_seedbuf(fg, m2, e2, rng2) = Shake256(y)
    BY <2>0, SeedShape, Zenon
  <2> HIDE DEF x, y
  <2>3. x = y
    BY <2>1, <2>2, ShakeInjective
  <2> QED
    BY <2>3 DEF x, y
<1> HIDE DEF T, p
<1>5. p \o m1 \in Seq(T) /\ p \o m2 \in Seq(T)
  BY <1>1, <1>2, ConcatFacts
<1> DEFINE w1 == p \o m1
           w2 == p \o m2
<1>6. w1 = w2 /\ s1 = s2
  <2> HIDE DEF w1, w2, s1, s2
  <2>1. w1 \in Seq(T) /\ w2 \in Seq(T) /\ w1 \o s1 = w2 \o s2
    BY <1>4, <1>5 DEF w1, w2
  <2>2. Len(w1) = Len(w2)
    <3>1. Len(w1 \o s1) = Len(w1) + Len(s1) /\ Len(w2 \o s2) = Len(w2) + Len(s2)
      BY <1>3, <2>1, ConcatFacts
    <3>2. Len(w1) \in Nat /\ Len(w2) \in Nat /\ Len(s1) \in Nat
      BY <1>3, <2>1, ConcatFacts
    <3> QED
      BY <1>3, <2>1, <3>1, <3>2
  <2> QED
    BY <1>3, <2>1, <2>2, ConcatCancels
<1>7. m1 = m2
  BY <1>1, <1>2, <1>6, ConcatCancels
<1>8. t1 = t2
  BY <1>6, BytesInjective
<1> QED
  BY <1>7, <1>8

\* fndsa_falcon_sign_seeded_temp() and the FN-DSA entry points never sign with the same seed:
\* after the common prefix comes the byte 45 in one and the hash of f and g in the other.
LEMMA FalconSeedApart ==
  ASSUME NEW fg, NEW M, NEW mu \in Seq(M), NEW seed, seed.null = FALSE, seed.s \in Seq(U), NEW rng,
         NEW key, NEW msg \in Seq(U), NEW e \in Seq(U)
  PROVE  falcon_seedbuf(key, msg, e) # make_seedbuf(fg, mu, seed, rng)
<1> DEFINE T == M \cup {B(x) : x \in U} \cup {<<"H", BytesOf(fg)>>, <<"H", BytesOf(key)>>}
           p == BytesOf(<<2026, 830>>)
           own == BytesOf(<<45>>)
           hk == Shake256(BytesOf(key))
           hf == Shake256(BytesOf(fg))
           m == BytesOf(msg)
           b == BytesOf(e)
           c == BytesOf(seed.s)
<1>1. {B(x) : x \in U} \subseteq T /\ <<"H", BytesOf(fg)>> \in T /\ <<"H", BytesOf(key)>> \in T
  OBVIOUS
<1>2. ASSUME NEW u \in Seq(U) PROVE BytesOf(u) \in Seq(T)
  <2>1. BytesOf(u) \in Seq({B(x) : x \in U})
    BY BytesTyped
  <2> HIDE DEF T
  <2> QED
    BY <1>1, <2>1
<1>3. mu \in Seq(T)
  OBVIOUS
<1> HIDE DEF T
<1>4. p \in Seq(T) /\ hk \in Seq(T) /\ hf \in Seq(T)
  BY <1>1, PrefixTyped
<1>5. m \in Seq(T) /\ b \in Seq(T) /\ c \in Seq(T)
  BY <1>2
<1>6. own = <<B(45)>> /\ hf = << <<"H", BytesOf(fg)>> >>
  BY DEF BytesOf, Shake256
<1>7. own \in Seq(T) /\ own[1] = B(45) /\ 1 \in 1..Len(own) /\ hf[1] = <<"H", BytesOf(fg)>> /\ 1 \in 1..Len(hf)
  <2>1. B(45) \in T
    BY <1>1 DEF U
  <2> DEFINE t == B(45)
             h == <<"H", BytesOf(fg)>>
  <2> HIDE DEF t, h, own, hf
  <2>2. <<t>> \in Seq(T) /\ <<t>>[1] = t /\ 1 \in 1..Len(<<t>>)
    BY <2>1 DEF t
  <2>3. <<h>>[1] = h /\ 1 \in 1..Len(<<h>>)
    OBVIOUS
  <2>4. own = <<t>> /\ hf = <<h>>
    BY <1>6 DEF t, h
  <2> QED
    BY <2>2, <2>3, <2>4 DEF t, h
<1> DEFINE x == p \o own \o hk \o m \o b
           y == p \o hf \o mu \o c
<1>8. falcon_seedbuf(key, msg, e) = Shake256(x) /\ make_seedbuf(fg, mu, seed, rng) = Shake256(y)
  BY DEF falcon_seedbuf, make_seedbuf
<1> DEFINE i == 1
           j == Len(p) + i
<1> HIDE DEF p, own, hk, hf, m, b, c, i
<1>9. ASSUME NEW a \in Seq(T), NEW z \in Seq(T), j \in 1..Len(a)
      PROVE  a \o z \in Seq(T) /\ (a \o z)[j] = a[j] /\ j \in 1..Len(a \o z)
  BY <1>9, ConcatFacts
<1>10. ASSUME NEW z \in Seq(T), i \in 1..Len(z)
       PROVE  p \o z \in Seq(T) /\ (p \o z)[j] = z[i] /\ j \in 1..Len(p \o z)
  BY <1>4, <1>10, ConcatFacts
<1>11. i \in 1..Len(own) /\ i \in 1..Len(hf)
  BY <1>7 DEF i
<1> HIDE DEF j
<1>12. x[j] = own[i]
  <2> DEFINE x1 == p \o own
             x2 == x1 \o hk
             x3 == x2 \o m
  <2>1. x1 \in Seq(T) /\ x1[j] = own[i] /\ j \in 1..Len(x1)
    BY <1>7, <1>10, <1>11
  <2> HIDE DEF x1
  <2>2. x2 \in Seq(T) /\ x2[j] = own[i] /\ j \in 1..Len(x2)
    BY <1>4, <1>9, <2>1
  <2> HIDE DEF x2
  <2>3. x3 \in Seq(T) /\ x3[j] = own[i] /\ j \in 1..Len(x3)
    BY <1>5, <1>9, <2>2
  <2> HIDE DEF x3
  <2>4. x = x3 \o b
    BY DEF x1, x2, x3
  <2> QED
    BY <1>5, <1>9, <2>3, <2>4
<1>13. y[j] = hf[i]
  BY <1>3, <1>4, <1>5, <1>9, <1>10, <1>11
<1>14. x # y
  BY <1>7, <1>12, <1>13, HashNotByte DEF i
<1> HIDE DEF x, y
<1> QED
  BY <1>8, <1>14, ShakeInjective

-----------------------------------------------------------------------------
\* The bytes of a raw message, one piece after the other.
Joined(pieces) ==
    LET flat[k \in 0..Len(pieces)] == IF k = 0 THEN <<>> ELSE flat[k - 1] \o pieces[k]
    IN  flat[Len(pieces)]

\* The pieces that compute_mu_start() gives to its callback: three of them, or four with a
\* context.
LEMMA JoinedPieces ==
  ASSUME NEW T, NEW p, NEW L \in {3, 4}, Len(p) = L,
         p[1] \in Seq(T), p[2] \in Seq(T), p[3] \in Seq(T)
  PROVE  Joined(p) = IF L = 3 THEN p[1] \o p[2] \o p[3] ELSE p[1] \o p[2] \o p[3] \o p[4]
<1> DEFINE e == <<>>
           w1 == p[1]
           w2 == p[1] \o p[2]
           w3 == p[1] \o p[2] \o p[3]
           w4 == p[1] \o p[2] \o p[3] \o p[4]
           g == [k \in 0..L |-> IF k = 0 THEN e ELSE IF k = 1 THEN w1 ELSE IF k = 2 THEN w2
                                ELSE IF k = 3 THEN w3 ELSE w4]
           f == CHOOSE h : h = [k \in 0..L |-> IF k = 0 THEN <<>> ELSE h[k - 1] \o p[k]]
<1>1. e \o w1 = w1
  OBVIOUS
<1>2. Joined(p) = f[L]
  BY DEF Joined
<1>3. w2 = w1 \o p[2] /\ w3 = w2 \o p[3] /\ w4 = w3 \o p[4]
  BY Zenon
<1>4. \E h : h = [k \in 0..L |-> IF k = 0 THEN e ELSE h[k - 1] \o p[k]]
  <2> HIDE DEF e, w1, w2, w3, w4
  <2>1. g[0] = e /\ g[1] = w1 /\ g[2] = w2 /\ g[3] = w3 /\ (L = 4 => g[4] = w4)
    OBVIOUS
  <2>2. g = [k \in 0..L |-> g[k]]
    OBVIOUS
  <2> HIDE DEF g
  <2>3. ASSUME NEW k \in 0..L PROVE g[k] = IF k = 0 THEN e ELSE g[k - 1] \o p[k]
    <3>1. k = 0 \/ k = 1 \/ k = 2 \/ k = 3 \/ (k = 4 /\ L = 4)
      OBVIOUS
    <3>2. CASE k = 0
      BY <2>1, <3>2, Zenon
    <3>3. CASE k = 1
      <4>1. k # 0 /\ k - 1 = 0
        BY <3>3
      <4> QED
        BY <1>1, <2>1, <3>3, <4>1, Zenon DEF w1
    <3>4. CASE k = 2
      <4>1. k # 0 /\ k - 1 = 1
        BY <3>4
      <4> QED
        BY <1>3, <2>1, <3>4, <4>1, Zenon
    <3>5. CASE k = 3
      <4>1. k # 0 /\ k - 1 = 2
        BY <3>5
      <4> QED
        BY <1>3, <2>1, <3>5, <4>1, Zenon
    <3>6. CASE k = 4 /\ L = 4
      <4>1. k # 0 /\ k - 1 = 3
        BY <3>6
      <4> QED
        BY <1>3, <2>1, <3>6, <4>1, Zenon
    <3> QED
      BY <3>1, <3>2, <3>3, <3>4, <3>5, <3>6
  <2>4. [k \in 0..L |-> g[k]] = [k \in 0..L |-> IF k = 0 THEN e ELSE g[k - 1] \o p[k]]
    BY <2>3, Zenon
  <2> QED
    BY <2>2, <2>4, Zenon
<1>5. f = [k \in 0..L |-> IF k = 0 THEN <<>> ELSE f[k - 1] \o p[k]]
  <2> DEFINE P(h) == h = [k \in 0..L |-> IF k = 0 THEN <<>> ELSE h[k - 1] \o p[k]]
  <2>1. \E h : P(h)
    BY <1>4
  <2>2. P(CHOOSE h : P(h))
    <3> HIDE DEF P
    <3> QED
      BY <2>1, Zenon
  <2> QED
    BY <2>2
<1> HIDE DEF f
<1>6. ASSUME NEW k \in 1..L PROVE f[k] = f[k - 1] \o p[k]
  <2>1. k \in 0..L /\ k # 0
    OBVIOUS
  <2>2. f[k] = [j \in 0..L |-> IF j = 0 THEN <<>> ELSE f[j - 1] \o p[j]][k]
    BY <1>5, Zenon
  <2> QED
    BY <2>1, <2>2, Zenon
<1>7. f[0] = e
  <2>1. 0 \in 0..L
    OBVIOUS
  <2>2. f[0] = [j \in 0..L |-> IF j = 0 THEN <<>> ELSE f[j - 1] \o p[j]][0]
    BY <1>5, Zenon
  <2> QED
    BY <2>1, <2>2, Zenon
<1>8. f[1] = w1
  <2>1. 1 \in 1..L /\ 1 - 1 = 0
    OBVIOUS
  <2>2. f[1] = f[0] \o p[1]
    BY <1>6, <2>1, Zenon
  <2> QED
    BY <1>1, <1>7, <2>2, Zenon
<1>9. f[2] = w2
  <2>1. 2 \in 1..L /\ 2 - 1 = 1
    OBVIOUS
  <2> QED
    BY <1>6, <1>8, <2>1, Zenon
<1>10. f[3] = w3
  <2>1. 3 \in 1..L /\ 3 - 1 = 2
    OBVIOUS
  <2> QED
    BY <1>6, <1>9, <2>1, Zenon
<1>11. CASE L = 3
  BY <1>2, <1>10, <1>11, Zenon
<1>12. CASE L = 4
  <2>1. 4 \in 1..L /\ 4 - 1 = 3 /\ L # 3
    BY <1>12
  <2>2. f[4] = w4
    BY <1>6, <1>10, <2>1, Zenon
  <2> QED
    BY <1>2, <1>12, <2>1, <2>2, Zenon
<1> QED
  BY <1>11, <1>12

\* Concatenation of tuples that are written out.
LEMMA TuplesJoin ==
  /\ \A x, y : <<x>> \o <<y>> = <<x, y>>
  /\ \A x, y, z, t : <<x, y, z>> \o <<t>> = <<x, y, z, t>>
<1>1. ASSUME NEW x, NEW y PROVE <<x>> \o <<y>> = <<x, y>>
  <2> DEFINE S == {x, y}
             a == <<x>>
             b == <<y>>
             c == a \o b
             d == <<x, y>>
  <2>1. a \in Seq(S) /\ b \in Seq(S)
    OBVIOUS
  <2>2. d \in Seq(S) /\ Len(a) = 1 /\ Len(b) = 1 /\ Len(d) = 2 /\ a[1] = x /\ b[1] = y /\ d[1] = x /\ d[2] = y
    OBVIOUS
  <2> HIDE DEF a, b, d, S
  <2>3. /\ c \in Seq(S) /\ Len(c) = Len(a) + Len(b)
        /\ \A i \in 1..Len(a) : c[i] = a[i]
        /\ \A i \in 1..Len(b) : c[Len(a) + i] = b[i]
    BY <2>1, ConcatFacts
  <2> HIDE DEF c
  <2>4. Len(c) = 2 /\ c[1] = x /\ c[1 + 1] = y /\ 1 + 1 = 2
    BY <2>2, <2>3
  <2>5. c = d
    BY <2>2, <2>3, <2>4
  <2> QED
    BY <2>5 DEF a, b, c, d
<1>2. ASSUME NEW x, NEW y, NEW z, NEW t PROVE <<x, y, z>> \o <<t>> = <<x, y, z, t>>
  <2> DEFINE S == {x, y, z, t}
             a == <<x, y, z>>
             b == <<t>>
             c == a \o b
             d == <<x, y, z, t>>
  <2>1. a \in Seq(S) /\ b \in Seq(S)
    OBVIOUS
  <2>2. /\ d \in Seq(S) /\ Len(a) = 3 /\ Len(b) = 1 /\ Len(d) = 4
        /\ a[1] = x /\ a[2] = y /\ a[3] = z /\ b[1] = t
        /\ d[1] = x /\ d[2] = y /\ d[3] = z /\ d[4] = t
    OBVIOUS
  <2> HIDE DEF a, b, d, S
  <2>3. /\ c \in Seq(S) /\ Len(c) = Len(a) + Len(b)
        /\ \A i \in 1..Len(a) : c[i] = a[i]
        /\ \A i \in 1..Len(b) : c[Len(a) + i] = b[i]
    BY <2>1, ConcatFacts
  <2> HIDE DEF c
  <2>4. Len(c) = 4 /\ c[1] = x /\ c[2] = y /\ c[3] = z /\ c[3 + 1] = t /\ 3 + 1 = 4
    BY <2>2, <2>3
  <2>5. c = d
    BY <2>2, <2>3, <2>4
  <2> QED
    BY <2>5 DEF a, b, c, d
<1> QED
  BY <1>1, <1>2

\* What is hashed for mu of a raw message.
LEMMA MuRaw ==
  ASSUME NEW key, key # <<>>, NEW ctx, ~CtxRefused(ctx), NEW id, id[1] = 0, NEW hv
  PROVE  MuInput(key, ctx, id, hv) = key \o BytesOf(<<0, ctx.len>> \o ctx.s \o hv)
  BY DEF MuInput

\* A caller that streams a raw message after compute_mu_start() hashes what compute_mu() does
\* when it has the message at hand, with an empty context too.
LEMMA StreamedRaw ==
  ASSUME NEW v, NEW ctx, CtxOK(ctx), ~CtxRefused(ctx), NEW hv \in Seq(U)
  PROVE  Joined(compute_mu_start(Shake256(v), ctx)) \o BytesOf(hv) = MuInput(Shake256(v), ctx, RawId, hv)
<1> DEFINE T == {B(x) : x \in U} \cup {<<"H", v>>}
           key == Shake256(v)
           s == ctx.s
           two == <<0, ctx.len>>
           b0 == <<B(0)>>
           b1 == <<B(ctx.len)>>
           bs == BytesOf(s)
           bh == BytesOf(hv)
           p == compute_mu_start(key, ctx)
           w == key \o b0 \o b1
<1>1. s \in Seq(U) /\ ctx.len = Len(s) /\ Len(s) \in Nat
  BY DEF CtxOK
<1>2. key # <<>> /\ key \in Seq(T) /\ b0 \in Seq(T) /\ b1 \in Seq(T)
  <2>1. B(0) \in T /\ B(ctx.len) \in T /\ <<"H", v>> \in T
    BY <1>1 DEF U
  <2> DEFINE t0 == B(0)
             t1 == B(ctx.len)
             tk == <<"H", v>>
  <2>2. key = <<tk>>
    BY DEF Shake256
  <2> HIDE DEF t0, t1, tk, T, key
  <2> QED
    BY <2>1, <2>2 DEF t0, t1, tk
<1>3. bs \in Seq(T) /\ bh \in Seq(T) /\ Len(bs) = Len(s)
  <2>1. bs \in Seq({B(x) : x \in U}) /\ bh \in Seq({B(x) : x \in U}) /\ Len(bs) = Len(s)
    BY <1>1, BytesTyped
  <2> QED
    BY <2>1
<1>4. two \in Seq(U) /\ BytesOf(two) = b0 \o b1
  <2>1. two \in Seq(U)
    BY <1>1 DEF U
  <2>2. BytesOf(two) = <<B(0), B(ctx.len)>>
    BY DEF BytesOf
  <2>3. b0 \o b1 = <<B(0), B(ctx.len)>>
    BY TuplesJoin, Zenon
  <2> QED
    BY <2>1, <2>2, <2>3
<1>5. MuInput(key, ctx, RawId, hv) = key \o BytesOf(two \o s \o hv)
  <2>1. RawId[1] = 0
    BY DEF RawId
  <2> HIDE DEF key, two, s
  <2> QED
    BY <1>2, <2>1, MuRaw DEF two, s
<1>6. BytesOf(two \o s \o hv) = (b0 \o b1) \o bs \o bh
  <2> DEFINE ts == two \o s
  <2> HIDE DEF two, bs, bh, s
  <2>1. ts \in Seq(U) /\ BytesOf(ts) = BytesOf(two) \o bs
    BY <1>1, <1>4, ConcatFacts, BytesConcat DEF bs
  <2> HIDE DEF ts
  <2>2. BytesOf(ts \o hv) = BytesOf(ts) \o bh
    BY <2>1, BytesConcat DEF bh
  <2> QED
    BY <1>4, <2>1, <2>2 DEF ts
<1>7. key \o ((b0 \o b1) \o bs \o bh) = w \o bs \o bh
  <2> HIDE DEF T, key, b0, b1, bs, bh
  <2> DEFINE b == b0 \o b1
             c == b \o bs
  <2>1. b \in Seq(T)
    BY <1>2, ConcatFacts
  <2>2. key \o b = w
    BY <1>2, ConcatAssoc
  <2> HIDE DEF b, w
  <2>3. c \in Seq(T)
    BY <1>3, <2>1, ConcatFacts
  <2>4. key \o c = w \o bs
    <3>1. key \in Seq(T) /\ bs \in Seq(T)
      BY <1>2, <1>3
    <3>2. (key \o b) \o bs = key \o (b \o bs)
      BY <2>1, <3>1, ConcatAssoc
    <3> QED
      BY <2>2, <3>2, Zenon
  <2> HIDE DEF c
  <2>5. key \o (c \o bh) = w \o bs \o bh
    <3>1. key \in Seq(T) /\ bh \in Seq(T)
      BY <1>2, <1>3
    <3>2. (key \o c) \o bh = key \o (c \o bh)
      BY <2>3, <3>1, ConcatAssoc
    <3> QED
      BY <2>4, <3>2, Zenon
  <2> QED
    BY <2>5 DEF b, c
<1>8. w \in Seq(T)
  <2> HIDE DEF T, key, b0, b1
  <2> DEFINE k0 == key \o b0
  <2>1. k0 \in Seq(T)
    BY <1>2, ConcatFacts
  <2> HIDE DEF k0
  <2>2. k0 \o b1 \in Seq(T)
    BY <1>2, <2>1, ConcatFacts
  <2> QED
    BY <2>2 DEF k0
<1>9. CASE ctx.len > 0
  <2>1. Len(p) = 4 /\ p[1] = key /\ p[2] = b0 /\ p[3] = b1 /\ p[4] = bs
    <3>1. p = <<key, b0, b1>> \o <<bs>>
      BY <1>9, Zenon DEF compute_mu_start
    <3> HIDE DEF key, b0, b1, bs, p
    <3>2. <<key, b0, b1>> \o <<bs>> = <<key, b0, b1, bs>>
      BY TuplesJoin, Zenon
    <3> QED
      BY <3>1, <3>2
  <2> HIDE DEF T, key, b0, b1, bs, bh, p
  <2>2. Joined(p) = p[1] \o p[2] \o p[3] \o p[4]
    <3> DEFINE L == 4
    <3>1. L \in {3, 4} /\ Len(p) = L /\ L # 3
      BY <2>1
    <3> HIDE DEF L
    <3>2. p[1] \in Seq(T) /\ p[2] \in Seq(T) /\ p[3] \in Seq(T)
      BY <1>2, <2>1, Zenon
    <3> QED
      BY <3>1, <3>2, JoinedPieces, Zenon
  <2>3. Joined(p) = w \o bs
    BY <2>1, <2>2, Zenon
  <2> QED
    BY <1>5, <1>6, <1>7, <2>3, Zenon DEF p, key, bh
<1>10. CASE ~(ctx.len > 0)
  <2>1. Len(p) = 3 /\ p[1] = key /\ p[2] = b0 /\ p[3] = b1
    <3>1. p = <<key, b0, b1>> \o <<>>
      BY <1>10, Zenon DEF compute_mu_start
    <3> HIDE DEF key, b0, b1, bs, p
    <3>2. <<key, b0, b1>> \o <<>> = <<key, b0, b1>>
      OBVIOUS
    <3> QED
      BY <3>1, <3>2
  <2> HIDE DEF T, key, b0, b1, bs, bh, p, s
  <2>2. Joined(p) = p[1] \o p[2] \o p[3]
    <3> DEFINE L == 3
    <3>1. L \in {3, 4} /\ Len(p) = L /\ L = 3
      BY <2>1
    <3> HIDE DEF L
    <3>2. p[1] \in Seq(T) /\ p[2] \in Seq(T) /\ p[3] \in Seq(T)
      BY <1>2, <2>1, Zenon
    <3> QED
      BY <3>1, <3>2, JoinedPieces, Zenon
  <2>3. Joined(p) = w
    BY <2>1, <2>2, Zenon
  <2> HIDE DEF w
  <2>4. w \o bs = w
    <3>1. Len(bs) = 0
      BY <1>1, <1>3, <1>10
    <3>2. bs = <<>>
      BY <1>3, <3>1
    <3>3. w \o <<>> = w
      BY <1>8
    <3> QED
      BY <3>2, <3>3
  <2> QED
    BY <1>5, <1>6, <1>7, <2>3, <2>4, Zenon DEF p, key, bh
<1> QED
  BY <1>9, <1>10

-----------------------------------------------------------------------------
\* The fields of the requests that SignTwo makes.
Fields(r, c, id, h, s) ==
    /\ r.vkey = <<1>> /\ r.fg = <<7>> /\ ~(r.keyLen < 65)
    /\ r.ctx = [null |-> FALSE, s |-> c, len |-> Len(c)] /\ CtxOK(r.ctx) /\ ~CtxRefused(r.ctx)
    /\ r.id = id /\ r.hv = h /\ h \in Seq(U) /\ (r.hvLen = 64 => Len(h) = 2)
    /\ r.seed = [null |-> FALSE, s |-> <<s>>] /\ <<s>> \in Seq(U) /\ Len(<<s>>) = 1

\* Every request that run codec makes is such.
LEMMA RequestFields ==
  ASSUME NEW c \in UpTo(MsgBytes, 1), NEW id \in Ids, NEW h \in UpTo(MsgBytes, 2), NEW s \in 0..1
  PROVE  Fields(Request(c, id, h, s), c, id, h, s)
<1> DEFINE r == Request(c, id, h, s)
<1>1. c \in Seq(MsgBytes) /\ Len(c) \in 0..1
  <2>1. PICK k \in 0..1 : c \in [1..k -> MsgBytes]
    BY DEF UpTo, Seqs
  <2> QED
    BY <2>1
<1>2. h \in Seq(MsgBytes) /\ Len(h) \in 0..2
  <2>1. PICK k \in 0..2 : h \in [1..k -> MsgBytes]
    BY DEF UpTo, Seqs
  <2> QED
    BY <2>1
<1>3. FNDSA_SIGN_KEY_SIZE(2) = 77
  BY DEF FNDSA_SIGN_KEY_SIZE
<1> DEFINE ctx == [null |-> FALSE, s |-> c, len |-> Len(c)]
<1>4. /\ r.vkey = <<1>> /\ r.fg = <<7>> /\ r.keyLen = FNDSA_SIGN_KEY_SIZE(2)
      /\ r.ctx = ctx /\ r.id = id /\ r.hv = h /\ r.hvLen = (IF Len(h) = 2 THEN 64 ELSE Len(h))
      /\ r.seed = [null |-> FALSE, s |-> <<s>>]
  BY DEF Request
<1>5. CtxOK(ctx) /\ ~CtxRefused(ctx)
  <2>1. ctx.null = FALSE /\ ctx.s = c /\ ctx.len = Len(c)
    OBVIOUS
  <2> HIDE DEF ctx
  <2>2. c \in Seq(U)
    BY <1>1 DEF U
  <2>3. ~(Len(c) > CtxMax)
    <3> DEFINE l == Len(c)
    <3>1. l \in 0..1
      BY <1>1
    <3> HIDE DEF l
    <3>2. ~(l > CtxMax)
      BY <3>1, CtxAssumption
    <3> QED
      BY <3>2 DEF l
  <2> QED
    BY <2>1, <2>2, <2>3, Zenon DEF CtxOK, CtxRefused
<1>6. h \in Seq(U)
  BY <1>2 DEF U
<1>7. <<s>> \in Seq(U) /\ Len(<<s>>) = 1
  BY DEF U
<1> HIDE DEF r
<1>8. ~(r.keyLen < 65)
  BY <1>3, <1>4
<1>9. r.hvLen = 64 => Len(h) = 2
  <2> DEFINE l == Len(h)
  <2>1. l \in 0..2 /\ r.hvLen = (IF l = 2 THEN 64 ELSE l)
    BY <1>2, <1>4
  <2> HIDE DEF l
  <2>2. r.hvLen = 64 => l = 2
    BY <2>1
  <2> QED
    BY <2>2 DEF l
<1> HIDE DEF ctx
<1>10. Fields(r, c, id, h, s)
  BY <1>4, <1>5, <1>6, <1>7, <1>8, <1>9, Zenon DEF ctx, Fields
<1> QED
  BY <1>10 DEF r

\* The identifiers of run codec are delimited as the code expects.
LEMMA IdsOK ==
  ASSUME NEW id \in Ids, id # ExternalMu
  PROVE  IdOK(IF id = <<>> THEN RawId ELSE id)
<1>1. IdOK(<<0>>)
  BY DEF IdOK, RawId
<1>2. IdOK(<<6, 0>>) /\ IdOK(<<6, 1, 0>>) /\ IdOK(<<6, 1, 1>>) /\ IdOK(<<6, 2, 0, 1>>)
  BY DEF IdOK, RawId
<1>3. IdOK(<<7>>)
  BY DEF IdOK, RawId
<1> QED
  BY <1>1, <1>2, <1>3, Zenon DEF Ids, RawId

\* A representative given by the caller has an identifier of its own.
LEMMA ExternalApart == RawId # ExternalMu /\ <<>> # ExternalMu
  BY DEF RawId, ExternalMu

\* The representative of a request that is signed: two bytes of the caller, or one hash.
Represents(r, id, h) ==
    LET mu == sign_wrapper(r).mu
        in == MuInput(Shake256(BytesOf(<<1>>)), r.ctx, EffectiveId(r), h)
    IN  /\ sign_wrapper(r).seed = make_seedbuf(<<7>>, mu, r.seed, r.rng)
        /\ EffectiveId(r) = ExternalMu <=> id = ExternalMu
        /\ id = ExternalMu => mu = BytesOf(h) /\ Len(h) = 2
        /\ id # ExternalMu => IdOK(EffectiveId(r)) /\ in # <<>> /\ mu = Shake256(in)

\* What sign_wrapper() signs for a request.
LEMMA Represented ==
  ASSUME NEW c, NEW id \in Ids, NEW h, NEW s, NEW r, Fields(r, c, id, h, s), sign_wrapper(r).ret = "sign"
  PROVE  Represents(r, id, h)
<1> DEFINE in == MuInput(Shake256(BytesOf(<<1>>)), r.ctx, EffectiveId(r), h)
<1>1. /\ r.vkey = <<1>> /\ r.fg = <<7>> /\ ~(r.keyLen < 65) /\ r.id = id /\ r.hv = h
      /\ (r.hvLen = 64 => Len(h) = 2)
  BY Zenon DEF Fields
<1>2. /\ sign_wrapper(r).mu = RequestMu(r) /\ RequestMu(r) # <<>>
      /\ sign_wrapper(r).seed = make_seedbuf(r.fg, RequestMu(r), r.seed, r.rng)
  BY Reaches
<1>3. EffectiveId(r) = (IF id = <<>> THEN RawId ELSE id)
  BY <1>1, Zenon DEF EffectiveId
<1>4. EffectiveId(r) = ExternalMu <=> id = ExternalMu
  BY <1>3, ExternalApart, Zenon
<1>5. id = ExternalMu => sign_wrapper(r).mu = BytesOf(h) /\ Len(h) = 2
  BY <1>1, <1>2, Zenon DEF RequestMu
<1>6. ASSUME id # ExternalMu
      PROVE  IdOK(EffectiveId(r)) /\ in # <<>> /\ sign_wrapper(r).mu = Shake256(in)
  <2>1. IdOK(EffectiveId(r))
    BY <1>3, <1>6, IdsOK, Zenon
  <2>2. RequestMu(r) = IF in = <<>> THEN <<>> ELSE Shake256(in)
    BY <1>1, <1>3, <1>6, Zenon DEF RequestMu, compute_mu
  <2> HIDE DEF in
  <2> QED
    BY <1>2, <2>1, <2>2, Zenon
<1>7. sign_wrapper(r).seed = make_seedbuf(<<7>>, sign_wrapper(r).mu, r.seed, r.rng)
  BY <1>1, <1>2, Zenon
<1> QED
  BY <1>4, <1>5, <1>6, <1>7, Zenon DEF Represents

\* Two requests that sign_wrapper() signs with one representative are the same message under
\* the same identifier and context; with one seed, they also have one representative and one
\* caller seed; the Falcon entry point never uses the seed of an FN-DSA one; and streaming a
\* raw message hashes the same bytes.
THEOREM InputsBound == Spec => []SignedInputsBound
<1>1. JobOK => SignedInputsBound
  <2> DEFINE r1 == job.r1
             r2 == job.r2
             x == sign_wrapper(r1)
             y == sign_wrapper(r2)
             vk == Shake256(BytesOf(r1.vkey))
  <2> SUFFICES ASSUME JobOK, job.kind = "sign"
               PROVE  /\ x.ret = "sign" /\ y.ret = "sign" =>
                           /\ x.mu = y.mu => /\ EffectiveId(r1) = EffectiveId(r2) /\ r1.hv = r2.hv
                                             /\ EffectiveId(r1) # ExternalMu => r1.ctx = r2.ctx
                           /\ x.seed = y.seed => x.mu = y.mu /\ r1.seed = r2.seed
                           /\ falcon_seedbuf(r1.fg, r1.hv, r1.seed.s) # x.seed
                      /\ EffectiveId(r1) = RawId =>
                           Joined(compute_mu_start(vk, r1.ctx)) \o BytesOf(r1.hv)
                             = MuInput(vk, r1.ctx, RawId, r1.hv)
    BY Zenon DEF SignedInputsBound, Joined
  <2>1. PICK id1, id2 \in Ids, c1, c2 \in UpTo(MsgBytes, 1), h1, h2 \in UpTo(MsgBytes, 2), s \in 0..1 :
            r1 = Request(c1, id1, h1, 0) /\ r2 = Request(c2, id2, h2, s)
    BY Zenon DEF JobOK
  <2> HIDE DEF r1, r2
  <2> DEFINE z == 0
  <2>2. z \in 0..1 /\ r1 = Request(c1, id1, h1, z)
    BY <2>1
  <2> HIDE DEF z
  <2>0. Fields(r1, c1, id1, h1, z) /\ Fields(r2, c2, id2, h2, s)
    BY <2>1, <2>2, RequestFields
  <2>3. /\ r1.vkey = <<1>> /\ r1.fg = <<7>>
        /\ r1.ctx = [null |-> FALSE, s |-> c1, len |-> Len(c1)] /\ CtxOK(r1.ctx) /\ ~CtxRefused(r1.ctx)
        /\ r1.id = id1 /\ r1.hv = h1 /\ h1 \in Seq(U)
        /\ r1.seed = [null |-> FALSE, s |-> <<z>>] /\ <<z>> \in Seq(U) /\ Len(<<z>>) = 1
    BY <2>0, Zenon DEF Fields
  <2>4. /\ r2.fg = <<7>>
        /\ r2.ctx = [null |-> FALSE, s |-> c2, len |-> Len(c2)] /\ CtxOK(r2.ctx)
        /\ r2.id = id2 /\ r2.hv = h2 /\ h2 \in Seq(U)
        /\ r2.seed = [null |-> FALSE, s |-> <<s>>] /\ <<s>> \in Seq(U) /\ Len(<<s>>) = 1
    BY <2>0, Zenon DEF Fields
  <2>5. EffectiveId(r1) = RawId =>
           Joined(compute_mu_start(vk, r1.ctx)) \o BytesOf(r1.hv) = MuInput(vk, r1.ctx, RawId, r1.hv)
    BY <2>3, StreamedRaw, Zenon
  <2>6. ASSUME x.ret = "sign", y.ret = "sign"
        PROVE  /\ x.mu = y.mu => /\ EffectiveId(r1) = EffectiveId(r2) /\ r1.hv = r2.hv
                                 /\ EffectiveId(r1) # ExternalMu => r1.ctx = r2.ctx
               /\ x.seed = y.seed => x.mu = y.mu /\ r1.seed = r2.seed
               /\ falcon_seedbuf(r1.fg, r1.hv, r1.seed.s) # x.seed
    <3> DEFINE k == BytesOf(<<1>>)
               in1 == MuInput(Shake256(k), r1.ctx, EffectiveId(r1), h1)
               in2 == MuInput(Shake256(k), r2.ctx, EffectiveId(r2), h2)
               M == {B(b) : b \in U} \cup {<<"H", in1>>, <<"H", in2>>}
               m1 == x.mu
               m2 == y.mu
    <3>1. /\ x.seed = make_seedbuf(<<7>>, m1, r1.seed, r1.rng)
          /\ EffectiveId(r1) = ExternalMu <=> id1 = ExternalMu
          /\ id1 = ExternalMu => m1 = BytesOf(h1) /\ Len(h1) = 2
          /\ id1 # ExternalMu => IdOK(EffectiveId(r1)) /\ in1 # <<>> /\ m1 = Shake256(in1)
      <4>1. Represents(r1, id1, h1)
        BY <2>0, <2>1, <2>6, Represented
      <4> QED
        BY <4>1, Zenon DEF Represents
    <3>2. /\ y.seed = make_seedbuf(<<7>>, m2, r2.seed, r2.rng)
          /\ EffectiveId(r2) = ExternalMu <=> id2 = ExternalMu
          /\ id2 = ExternalMu => m2 = BytesOf(h2) /\ Len(h2) = 2
          /\ id2 # ExternalMu => IdOK(EffectiveId(r2)) /\ in2 # <<>> /\ m2 = Shake256(in2)
      <4>1. Represents(r2, id2, h2)
        BY <2>0, <2>1, <2>6, Represented
      <4> QED
        BY <4>1, Zenon DEF Represents
    <3>3. /\ id1 = ExternalMu => m1 \in Seq(M) /\ Len(m1) = 2
          /\ id1 # ExternalMu => m1 \in Seq(M) /\ Len(m1) = 1
      <4>1. CASE id1 = ExternalMu
        <5>1. m1 = BytesOf(h1) /\ Len(h1) = 2 /\ h1 \in Seq(U)
          BY <2>3, <3>1, <4>1
        <5>2. BytesOf(h1) \in Seq({B(b) : b \in U}) /\ Len(BytesOf(h1)) = Len(h1)
          BY <2>3, BytesTyped
        <5> HIDE DEF m1, in1, in2
        <5> QED
          BY <4>1, <5>1, <5>2
      <4>2. CASE id1 # ExternalMu
        <5>1. m1 = Shake256(in1)
          BY <3>1, <4>2
        <5> HIDE DEF m1, in1, in2
        <5> QED
          BY <4>2, <5>1 DEF Shake256
      <4> QED
        BY <4>1, <4>2
    <3>4. /\ id2 = ExternalMu => m2 \in Seq(M) /\ Len(m2) = 2
          /\ id2 # ExternalMu => m2 \in Seq(M) /\ Len(m2) = 1
      <4>1. CASE id2 = ExternalMu
        <5>1. m2 = BytesOf(h2) /\ Len(h2) = 2 /\ h2 \in Seq(U)
          BY <2>4, <3>2, <4>1
        <5>2. BytesOf(h2) \in Seq({B(b) : b \in U}) /\ Len(BytesOf(h2)) = Len(h2)
          BY <2>4, BytesTyped
        <5> HIDE DEF m2, in1, in2
        <5> QED
          BY <4>1, <5>1, <5>2
      <4>2. CASE id2 # ExternalMu
        <5>1. m2 = Shake256(in2)
          BY <3>2, <4>2
        <5> HIDE DEF m2, in1, in2
        <5> QED
          BY <4>2, <5>1 DEF Shake256
      <4> QED
        BY <4>1, <4>2
    <3>5. ASSUME m1 = m2
          PROVE  /\ EffectiveId(r1) = EffectiveId(r2) /\ r1.hv = r2.hv
                 /\ EffectiveId(r1) # ExternalMu => r1.ctx = r2.ctx
      <4>1. id1 = ExternalMu <=> id2 = ExternalMu
        <5>1. 1 # 2
          OBVIOUS
        <5> QED
          BY <3>3, <3>4, <3>5, <5>1, Zenon
      <4>2. CASE id1 = ExternalMu
        <5>1. BytesOf(h1) = BytesOf(h2)
          BY <3>1, <3>2, <3>5, <4>1, <4>2, Zenon
        <5>2. h1 = h2
          BY <2>3, <2>4, <5>1, BytesInjective
        <5> QED
          BY <2>3, <2>4, <3>1, <3>2, <4>1, <4>2, <5>2, Zenon
      <4>3. CASE id1 # ExternalMu
        <5>1. Shake256(in1) = Shake256(in2)
          BY <3>1, <3>2, <3>5, <4>1, <4>3, Zenon
        <5>2. in1 = in2
          BY <5>1, ShakeInjective, Zenon
        <5> DEFINE d1 == r1.ctx
                   d2 == r2.ctx
                   e1 == EffectiveId(r1)
                   e2 == EffectiveId(r2)
        <5>3. /\ CtxOK(d1) /\ CtxOK(d2) /\ IdOK(e1) /\ IdOK(e2) /\ h1 \in Seq(U) /\ h2 \in Seq(U)
              /\ MuInput(Shake256(k), d1, e1, h1) # <<>>
              /\ MuInput(Shake256(k), d1, e1, h1) = MuInput(Shake256(k), d2, e2, h2)
          BY <2>3, <2>4, <3>1, <3>2, <4>1, <4>3, <5>2, Zenon
        <5> HIDE DEF k, d1, d2, e1, e2
        <5>4. e1 = e2 /\ d1.s = d2.s /\ d1.len = d2.len /\ h1 = h2
          BY <5>3, MuBinds
        <5>5. d1 = [null |-> FALSE, s |-> c1, len |-> Len(c1)] /\ d2 = [null |-> FALSE, s |-> c2, len |-> Len(c2)]
          BY <2>3, <2>4, Zenon DEF d1, d2
        <5>6. d1 = d2
          BY <5>4, <5>5
        <5> QED
          BY <2>3, <2>4, <5>4, <5>6, Zenon DEF d1, d2, e1, e2
      <4> QED
        BY <4>2, <4>3
    <3>6. m1 \in Seq(M) /\ m2 \in Seq(M)
      BY <3>3, <3>4, Zenon
    <3> DEFINE e1 == r1.seed
               e2 == r2.seed
    <3> DEFINE t1 == <<z>>
               t2 == <<s>>
    <3>7. /\ e1 = [null |-> FALSE, s |-> t1] /\ e2 = [null |-> FALSE, s |-> t2]
          /\ t1 \in Seq(U) /\ t2 \in Seq(U) /\ Len(t1) = Len(t2)
      BY <2>3, <2>4
    <3> DEFINE fg == <<7>>
               rng1 == r1.rng
               rng2 == r2.rng
    <3>8. x.seed = make_seedbuf(fg, m1, e1, rng1) /\ y.seed = make_seedbuf(fg, m2, e2, rng2)
      BY <3>1, <3>2
    <3>9. ASSUME x.seed = y.seed PROVE m1 = m2 /\ e1 = e2
      <4> HIDE DEF M, m1, m2, e1, e2, fg, rng1, rng2, t1, t2
      <4>1. make_seedbuf(fg, m1, [null |-> FALSE, s |-> t1], rng1)
              = make_seedbuf(fg, m2, [null |-> FALSE, s |-> t2], rng2)
        BY <3>7, <3>8, <3>9, Zenon
      <4>2. m1 = m2 /\ t1 = t2
        BY <3>6, <3>7, <4>1, SeedBinds
      <4> QED
        BY <3>7, <4>2, Zenon
    <3>10. falcon_seedbuf(fg, h1, e1.s) # x.seed
      <4> HIDE DEF M, m1, m2, e1, e2, fg, rng1, rng2, t1, t2
      <4>1. e1.null = FALSE /\ e1.s = t1
        BY <3>7
      <4> QED
        BY <2>3, <3>6, <3>7, <3>8, <4>1, FalconSeedApart
    <3> QED
      BY <2>3, <3>5, <3>9, <3>10, Zenon
  <2> QED
    BY <2>5, <2>6, Zenon
<1> QED
  BY <1>1, JobInvariance, PTL
================================================================================
