--------------------------- MODULE ModPoly_proofs ---------------------------
(***************************************************************************)
(* The NTT, for every polynomial, every degree from 2 to 1024 and every    *)
(* odd modulus below 2^15, if the constants Q1I and R2 and the two tables  *)
(* of roots are what they should be: the inverse undoes it, slot-wise      *)
(* products are products modulo X^N + 1, and reading it backwards takes    *)
(* the adjoint.                                                            *)
(***************************************************************************)
EXTENDS ModPoly, Induction

R == 4294967296   \* 2^32

\* Equal modulo Q.
Cong(x, y) == \E k \in Int : x = y + Q * k

\* mq_mred() is Montgomery reduction on every product of two residues.
Montgomery ==
    \A x \in 1..(Q * Q) : mq_mred(x) \in Residues /\ Cong(R * mq_mred(x), x)

\* What the constant Q1I of the code is: -1/Q modulo 2^32.
NegInverse == \E c \in Int : (65536 * Q1Ihi + Q1Ilo) * Q + 1 = R * c

\* Entry k of one table times entry k of the other is 1/2, in Montgomery representation.
TablesInverse ==
    \A k \in 1..(N - 1) : GM[k] \in Residues /\ iGM[k] \in Residues /\ Cong(2 * (GM[k] * iGM[k]), R * R)

\* mq_mred() is Montgomery reduction on every product of two residues, for every odd modulus
\* below 2^15, if Q1I is what it should be: with Z = x*Q1I mod 2^32, x + Q*Z is a multiple of
\* 2^32 and below 2^32 * (Q + 1), and its quotient is one more than the high half of Q*(Z >> 16).
THEOREM Reduces == NegInverse => Montgomery
<1> SUFFICES ASSUME NegInverse, NEW x \in 1..(Q * Q)
             PROVE  mq_mred(x) \in Residues /\ Cong(R * mq_mred(x), x)
  BY SMT DEF Montgomery
<1> DEFINE I   == 65536 * Q1Ihi + Q1Ilo
<1>1. /\ Q \in Int /\ 3 <= Q /\ Q <= 32767
      /\ Q1Ilo \in Int /\ 0 <= Q1Ilo /\ Q1Ihi \in Int
  BY ModulusAssumption, SMT
<1>2. Q * Q \in Int /\ Q * Q <= 1073676289
  BY <1>1, SMT
<1>3. x \in Int /\ 1 <= x /\ x <= 1073676289
  BY <1>2, SMT
<1>4. I \in Int
  BY <1>1, SMT
<1>5. PICK c \in Int : I * Q + 1 = 4294967296 * c
  BY SMT DEF NegInverse, R
<1> DEFINE lo == x % 65536
           hi == x \div 65536
           p  == lo * Q1Ilo
           A  == p \div 65536
           B  == p % 65536
           e  == lo * Q1Ihi
           g  == hi * Q1Ilo
           h  == hi * Q1Ihi
           W  == A + e + g
           w  == W % 65536
           m  == W \div 65536
           v  == w * Q
           r1 == v \div 65536
           s  == v % 65536
<1>6. lo \in Int /\ hi \in Int /\ x = 65536 * hi + lo /\ 0 <= lo /\ lo < 65536
  BY <1>3, SMT
<1>7. mq_mred(x) = r1 + 1
  BY SMT DEF mq_mred
<1> HIDE DEF lo, hi
<1>8. p \in Int /\ e \in Int /\ g \in Int /\ h \in Int
  BY <1>1, <1>6, SMT
<1>9. x * I = 4294967296 * h + 65536 * g + 65536 * e + p
  BY <1>1, <1>6, SMT
<1> HIDE DEF p, e, g, h
<1>10. A \in Int /\ B \in Int /\ p = 65536 * A + B /\ 0 <= B /\ B < 65536
  BY <1>8, SMT
<1> HIDE DEF A, B
<1>11. W \in Int /\ W = A + e + g
  BY <1>8, <1>10, SMT
<1> HIDE DEF W
<1>12. w \in Int /\ m \in Int /\ W = 65536 * m + w /\ 0 <= w /\ w < 65536
  BY <1>11, SMT
<1> HIDE DEF w, m
<1>13. v \in Int /\ 0 <= v /\ v < 65536 * Q
  BY <1>1, <1>12, SMT
<1> DEFINE Z == 65536 * w + B
           t == h + m
<1>14. Z \in Int /\ t \in Int /\ Z = x * I - 4294967296 * t
  BY <1>8, <1>9, <1>10, <1>11, <1>12, SMT
<1>15. Q * Z = 65536 * v + Q * B
  BY <1>1, <1>10, <1>12, SMT
<1> HIDE DEF v
<1>16. r1 \in Int /\ s \in Int /\ v = 65536 * r1 + s /\ 0 <= s /\ s < 65536
  BY <1>13, SMT
<1> HIDE DEF r1, s, Z, t, I
<1>17. Q * Z = x * (I * Q) - 4294967296 * (Q * t)
  BY <1>1, <1>3, <1>4, <1>14, SMT
<1> DEFINE L == x * c - Q * t
<1>18. x * (I * Q) = 4294967296 * (x * c) - x
  <2> DEFINE y == I * Q
  <2>1. y \in Int /\ y = 4294967296 * c - 1
    BY <1>1, <1>4, <1>5
  <2> HIDE DEF y
  <2>2. x * y = x * (4294967296 * c) - x
    BY <1>3, <2>1, SMT
  <2>3. x * (4294967296 * c) = 4294967296 * (x * c)
    BY <1>3, SMT
  <2> QED
    BY <2>2, <2>3, SMT DEF y
<1>19. x * c \in Int /\ Q * t \in Int /\ Q * B \in Int /\ x * (I * Q) \in Int /\ Q * Z \in Int
  BY <1>1, <1>3, <1>4, <1>5, <1>10, <1>14, SMT
<1>20. 65536 * s + Q * B + x = 4294967296 * (L - r1)
  BY <1>3, <1>15, <1>16, <1>17, <1>18, <1>19, SMT
<1>21. 0 <= Q * B /\ Q * B <= 2147385345
  BY <1>1, <1>10, SMT
<1>22. L \in Int /\ L - r1 = 1
  BY <1>3, <1>16, <1>19, <1>20, <1>21, SMT
<1>23. 0 <= r1 /\ r1 < Q
  BY <1>1, <1>13, <1>16, SMT
<1>24. R * (r1 + 1) = x + Q * Z
  BY <1>3, <1>15, <1>16, <1>19, <1>20, <1>22, SMT DEF R
<1>25. r1 + 1 \in Residues
  BY <1>1, <1>16, <1>23, SMT DEF Residues
<1>26. Cong(R * (r1 + 1), x)
  BY <1>14, <1>24, SMT DEF Cong
<1> QED
  BY <1>7, <1>25, <1>26, Zenon

\* 2^32 is an integer.
LEMMA RInt == R \in Int
  BY DEF R

\* The modulus is odd and above 2.
LEMMA QFacts == Q \in Int /\ Q > 2 /\ \E k \in Int : Q = 2 * k + 1
<1>1. Q \in Nat /\ 2 < Q /\ Q % 2 = 1
  BY ModulusAssumption
<1>2. Q \div 2 \in Int /\ Q = 2 * (Q \div 2) + 1
  BY <1>1
<1> DEFINE h == Q \div 2
<1> HIDE DEF h
<1>3. h \in Int /\ Q = 2 * h + 1
  BY <1>2 DEF h
<1> QED
  BY <1>1, <1>3

\* Congruence is an equivalence and is kept by sums and products.
LEMMA CongTrans ==
  ASSUME NEW x \in Int, NEW y \in Int, NEW z \in Int, Cong(x, y), Cong(y, z)
  PROVE  Cong(x, z)
<1>1. PICK k \in Int : x = y + Q * k
  BY DEF Cong
<1>2. PICK l \in Int : y = z + Q * l
  BY DEF Cong
<1>3. k + l \in Int /\ x = z + Q * (k + l)
  BY <1>1, <1>2, QFacts
<1> QED
  BY <1>3 DEF Cong

\* Symmetry.
LEMMA CongSym ==
  ASSUME NEW x \in Int, NEW y \in Int, Cong(x, y)
  PROVE  Cong(y, x)
<1>1. PICK k \in Int : x = y + Q * k
  BY DEF Cong
<1>2. -k \in Int /\ y = x + Q * (-k)
  BY <1>1, QFacts
<1> QED
  BY <1>2 DEF Cong

\* The square of 2^32 modulo Q, from 2^32 modulo Q.
LEMMA RSquared ==
  ASSUME NEW r \in Int, NEW u \in Int, R = r + Q * u
  PROVE  Cong(r * r, R * R)
<1> DEFINE k == -(2 * (r * u) + Q * (u * u))
<1>1. Q \in Int
  BY QFacts
<1>2. k \in Int /\ R * R = r * r + Q * (2 * (r * u) + Q * (u * u))
  BY <1>1
<1>3. r * r = R * R + Q * k
  BY <1>1, <1>2
<1> HIDE DEF k
<1> QED
  BY <1>2, <1>3 DEF Cong

\* Sums and differences.
LEMMA CongAdd ==
  ASSUME NEW x \in Int, NEW y \in Int, NEW z \in Int, NEW t \in Int, Cong(x, y), Cong(z, t)
  PROVE  Cong(x + z, y + t) /\ Cong(x - z, y - t)
<1>1. PICK k \in Int : x = y + Q * k
  BY DEF Cong
<1>2. PICK l \in Int : z = t + Q * l
  BY DEF Cong
<1>3. k + l \in Int /\ x + z = (y + t) + Q * (k + l)
  BY <1>1, <1>2, QFacts
<1>4. k - l \in Int /\ x - z = (y - t) + Q * (k - l)
  BY <1>1, <1>2, QFacts
<1> QED
  BY <1>3, <1>4 DEF Cong

\* Products.
LEMMA CongMul ==
  ASSUME NEW x \in Int, NEW y \in Int, NEW z \in Int, Cong(x, y)
  PROVE  Cong(z * x, z * y)
<1>1. PICK k \in Int : x = y + Q * k
  BY DEF Cong
<1>2. z * k \in Int /\ z * x = z * y + Q * (z * k)
  BY <1>1, QFacts
<1> QED
  BY <1>2 DEF Cong

\* A residue in [1,Q] is determined by its class.
LEMMA CongResidues ==
  ASSUME NEW x \in Residues, NEW y \in Residues, Cong(x, y)
  PROVE  x = y
<1>1. PICK k \in Int : x = y + Q * k
  BY DEF Cong
<1>2. x \in Int /\ y \in Int /\ 1 <= x /\ x <= Q /\ 1 <= y /\ y <= Q
  BY QFacts DEF Residues
<1>3. CASE k >= 1
  <2>1. Q * k >= Q
    BY <1>3, QFacts
  <2> QED
    BY <1>1, <1>2, <2>1, QFacts
<1>4. CASE k <= -1
  <2>1. Q * k <= -Q
    BY <1>4, QFacts
  <2> QED
    BY <1>1, <1>2, <2>1, QFacts
<1>5. CASE k = 0
  BY <1>1, <1>2, <1>5, QFacts
<1> QED
  BY <1>3, <1>4, <1>5

\* Two is invertible.
LEMMA CongHalf ==
  ASSUME NEW x \in Int, NEW y \in Int, Cong(2 * x, 2 * y)
  PROVE  Cong(x, y)
<1>1. PICK k \in Int : 2 * x = 2 * y + Q * k
  BY DEF Cong
<1>2. PICK h \in Int : Q = 2 * h + 1
  BY QFacts
<1>3. k = 2 * (x - y - h * k)
  <2>1. Q * k = 2 * (h * k) + k
    BY <1>2
  <2> QED
    BY <1>1, <1>2, <2>1
<1> DEFINE l == x - y - h * k
<1>4. l \in Int /\ k = 2 * l
  BY <1>2, <1>3
<1> HIDE DEF l
<1>5. x = y + Q * l
  <2>1. Q * k = 2 * (Q * l)
    BY <1>4, QFacts
  <2>2. Q * l \in Int
    BY <1>4, QFacts
  <2> QED
    BY <1>1, <2>1, <2>2
<1> QED
  BY <1>4, <1>5 DEF Cong

\* So is 2^32, since the reduction of 1 is its inverse.
LEMMA CongR ==
  ASSUME Montgomery, NEW x \in Int, NEW y \in Int, Cong(R * x, R * y)
  PROVE  Cong(x, y)
<1> DEFINE i == mq_mred(1)
<1>1. i \in Int /\ Cong(R * i, 1)
  <2>1. 1 \in 1..(Q * Q)
    BY QFacts
  <2>2. i \in Residues /\ Cong(R * i, 1)
    BY <2>1 DEF Montgomery
  <2> QED
    BY <2>2, QFacts DEF Residues
<1> HIDE DEF i
<1>2. R \in Int
  BY RInt
<1> DEFINE u == R * i
<1>3. u \in Int /\ Cong(u, 1)
  BY <1>1, <1>2
<1>4. i * (R * x) = x * u /\ i * (R * y) = y * u
  BY <1>1, <1>2
<1>5. R * x \in Int /\ R * y \in Int
  BY <1>2
<1> HIDE DEF u
<1>6. Cong(i * (R * x), i * (R * y))
  BY <1>1, <1>5, CongMul
<1>7. Cong(x * u, y * u)
  BY <1>4, <1>6
<1>8. Cong(x * u, x * 1) /\ Cong(y * u, y * 1)
  <2> DEFINE o == 1
  <2>1. o \in Int /\ Cong(u, o)
    BY <1>3
  <2> HIDE DEF o
  <2>2. Cong(x * u, x * o) /\ Cong(y * u, y * o)
    BY <1>3, <2>1, CongMul
  <2> QED
    BY <2>2 DEF o
<1>9. x * 1 = x /\ y * 1 = y /\ x * u \in Int /\ y * u \in Int
  BY <1>3
<1>10. Cong(x, x * u)
  BY <1>8, <1>9, CongSym
<1>11. Cong(x, y * u)
  BY <1>7, <1>9, <1>10, CongTrans
<1> QED
  BY <1>8, <1>9, <1>11, CongTrans

-----------------------------------------------------------------------------
\* mq_add() and mq_sub() are sum and difference.
LEMMA AddFacts ==
  ASSUME NEW x \in Residues, NEW y \in Residues
  PROVE  /\ mq_add(x, y) \in Residues /\ Cong(mq_add(x, y), x + y)
         /\ mq_sub(x, y) \in Residues /\ Cong(mq_sub(x, y), x - y)
<1>1. x \in Int /\ y \in Int /\ 1 <= x /\ x <= Q /\ 1 <= y /\ y <= Q /\ Q \in Int
  BY QFacts DEF Residues
<1>2. mq_add(x, y) \in Residues /\ (mq_add(x, y) = x + y + Q * 0 \/ mq_add(x, y) = x + y + Q * (-1))
  BY <1>1 DEF mq_add, AddBack, Residues
<1>3. mq_sub(x, y) \in Residues /\ (mq_sub(x, y) = x - y + Q * 0 \/ mq_sub(x, y) = x - y + Q * 1)
  BY <1>1 DEF mq_sub, AddBack, Residues
<1> QED
  BY <1>2, <1>3 DEF Cong

\* mq_half() is the half, also of an odd residue.
LEMMA HalfFacts ==
  ASSUME NEW x \in Residues
  PROVE  mq_half(x) \in Residues /\ Cong(2 * mq_half(x), x)
<1>1. x \in Int /\ 1 <= x /\ x <= Q
  BY QFacts DEF Residues
<1>2. PICK h \in Int : Q = 2 * h + 1
  BY QFacts
<1>3. CASE x % 2 = 1
  <2>1. (x + Q) % 2 = 0
    BY <1>1, <1>2, <1>3
  <2>2. mq_half(x) = (x + Q) \div 2
    BY <1>3 DEF mq_half
  <2>3. mq_half(x) \in Int /\ 2 * mq_half(x) = x + Q * 1
    BY <1>1, <2>1, <2>2, QFacts
  <2>4. mq_half(x) \in Residues
    BY <1>1, <2>3, QFacts DEF Residues
  <2> QED
    BY <2>3, <2>4 DEF Cong
<1>4. CASE x % 2 # 1
  <2>2. mq_half(x) = x \div 2
    BY <1>4 DEF mq_half
  <2>3. mq_half(x) \in Int /\ 2 * mq_half(x) = x + Q * 0
    BY <1>1, <1>4, <2>2, QFacts
  <2>4. mq_half(x) \in Residues
    BY <1>1, <2>3, QFacts DEF Residues
  <2> QED
    BY <2>3, <2>4 DEF Cong
<1> QED
  BY <1>3, <1>4

\* mq_mmul() is the product in Montgomery representation.
LEMMA MulFacts ==
  ASSUME Montgomery, NEW x \in Residues, NEW y \in Residues
  PROVE  mq_mmul(x, y) \in Residues /\ Cong(R * mq_mmul(x, y), x * y)
<1>1. x \in Int /\ 1 <= x /\ x <= Q /\ y \in Int /\ 1 <= y /\ y <= Q /\ Q \in Int
  BY QFacts DEF Residues
<1>2. x * y \in Int /\ 1 <= x * y
  BY <1>1
<1>3. x * y <= x * Q
  BY <1>1
<1>4. x * Q <= Q * Q
  BY <1>1
<1>5. x * y \in 1..(Q * Q)
  BY <1>1, <1>2, <1>3, <1>4
<1> QED
  BY <1>5 DEF Montgomery, mq_mmul

\* The two halves of a butterfly of mqpoly_ntt_to_int() on what a butterfly of
\* mqpoly_int_to_ntt() leaves.
Undone(x, y, g, ig) ==
    LET p == mq_mmul(y, g)
        s == mq_add(x, p)
        t == mq_sub(x, p)
    IN  /\ s \in Residues /\ t \in Residues
        /\ mq_half(mq_add(s, t)) = x
        /\ mq_mmul(mq_sub(s, t), ig) = y

\* The butterfly of the inverse transform undoes that of the transform: (x + yg, x - yg) comes
\* back as (x, y), since g and ig multiply to 1/2.
LEMMA Butterfly ==
  ASSUME Montgomery, NEW x \in Residues, NEW y \in Residues, NEW g \in Residues, NEW ig \in Residues,
         Cong(2 * (g * ig), R * R)
  PROVE  Undone(x, y, g, ig)
<1> DEFINE p == mq_mmul(y, g)
           s == mq_add(x, p)
           t == mq_sub(x, p)
           e == mq_add(s, t)
           d == mq_sub(s, t)
           h == mq_half(e)
           n == mq_mmul(d, ig)
<1>1. p \in Residues /\ Cong(R * p, y * g)
  BY MulFacts
<1> HIDE DEF p
<1>2. s \in Residues /\ t \in Residues /\ Cong(s, x + p) /\ Cong(t, x - p)
  BY <1>1, AddFacts
<1> HIDE DEF s, t
<1>3. e \in Residues /\ d \in Residues /\ Cong(e, s + t) /\ Cong(d, s - t)
  BY <1>2, AddFacts
<1> HIDE DEF e, d
<1>4. h \in Residues /\ Cong(2 * h, e) /\ n \in Residues /\ Cong(R * n, d * ig)
  BY <1>3, HalfFacts, MulFacts
<1> HIDE DEF h, n
<1>5. ASSUME NEW z \in Residues PROVE z \in Int
  BY QFacts DEF Residues
<1>6. x \in Int /\ y \in Int /\ g \in Int /\ ig \in Int /\ p \in Int /\ s \in Int /\ t \in Int
      /\ e \in Int /\ d \in Int /\ h \in Int /\ n \in Int /\ R \in Int
  BY <1>1, <1>2, <1>3, <1>4, <1>5, RInt
<1>7. Cong(e, 2 * x) /\ Cong(d, 2 * p)
  <2>1. Cong(s + t, (x + p) + (x - p)) /\ Cong(s - t, (x + p) - (x - p))
    <3>1. x + p \in Int /\ x - p \in Int
      BY <1>6
    <3> QED
      BY <1>2, <1>6, <3>1, CongAdd
  <2>2. (x + p) + (x - p) = 2 * x /\ (x + p) - (x - p) = 2 * p
    BY <1>6
  <2>3. Cong(s + t, 2 * x) /\ Cong(s - t, 2 * p)
    BY <2>1, <2>2
  <2>4. s + t \in Int /\ s - t \in Int /\ 2 * x \in Int /\ 2 * p \in Int
    BY <1>6
  <2> QED
    BY <1>3, <1>6, <2>3, <2>4, CongTrans
<1>8. h = x
  <2>1. 2 * h \in Int /\ 2 * x \in Int
    BY <1>6
  <2>2. Cong(2 * h, 2 * x)
    BY <1>4, <1>6, <1>7, <2>1, CongTrans
  <2>3. Cong(h, x)
    BY <1>6, <2>2, CongHalf
  <2> QED
    BY <1>4, <2>3, CongResidues
\* 2^64 times what comes out is 2^32 * 2 * p * ig, which is 2 * y * g * ig, which is 2^64 * y.
<1>9. n = y
  <2>1. Cong(R * (R * n), R * (d * ig))
    <3>1. R * n \in Int /\ d * ig \in Int
      BY <1>6
    <3> QED
      BY <1>4, <1>6, <3>1, CongMul
  <2>2. Cong((R * ig) * d, (R * ig) * (2 * p))
    <3>1. R * ig \in Int /\ 2 * p \in Int
      BY <1>6
    <3> QED
      BY <1>6, <1>7, <3>1, CongMul
  <2>3. Cong((2 * ig) * (R * p), (2 * ig) * (y * g))
    <3>1. 2 * ig \in Int /\ R * p \in Int /\ y * g \in Int
      BY <1>6
    <3> QED
      BY <1>1, <3>1, CongMul
  <2>4. Cong(y * (2 * (g * ig)), y * (R * R))
    <3>1. 2 * (g * ig) \in Int /\ R * R \in Int
      BY <1>6
    <3> QED
      BY <1>6, <3>1, CongMul
  <2> DEFINE v1 == R * (R * n)
             v2 == R * (d * ig)
             v3 == (R * ig) * (2 * p)
             v4 == (2 * ig) * (y * g)
             v5 == y * (R * R)
  <2>5. v1 \in Int /\ v2 \in Int /\ v3 \in Int /\ v4 \in Int /\ v5 \in Int
    BY <1>6
  <2>6. (R * ig) * d = v2 /\ (2 * ig) * (R * p) = v3 /\ y * (2 * (g * ig)) = v4 /\ v5 = R * (R * y)
    BY <1>6
  <2>7. Cong(v1, v2) /\ Cong(v2, v3) /\ Cong(v3, v4) /\ Cong(v4, v5)
    BY <2>1, <2>2, <2>3, <2>4, <2>6
  <2>8. Cong(v1, v5)
    <3> HIDE DEF v1, v2, v3, v4, v5
    <3>1. Cong(v1, v3)
      BY <2>5, <2>7, CongTrans
    <3>2. Cong(v1, v4)
      BY <2>5, <2>7, <3>1, CongTrans
    <3> QED
      BY <2>5, <2>7, <3>2, CongTrans
  <2>9. R * n \in Int /\ R * y \in Int
    BY <1>6
  <2>10. Cong(R * n, R * y)
    BY <2>6, <2>8, <2>9, CongR
  <2>11. Cong(n, y)
    BY <1>6, <2>10, CongR
  <2> QED
    BY <1>4, <2>11, CongResidues
<1> QED
  BY <1>2, <1>8, <1>9 DEF Undone, p, s, t, e, d, h, n

-----------------------------------------------------------------------------
\* Stage lm works on m = 2^lm blocks of t entries, which it halves.
Sizes(lm, m, t, ht) ==
    /\ t \in {2, 4, 8, 16, 32, 64, 128, 256, 512, 1024} /\ m \in Nat /\ m >= 1
    /\ N = m * t /\ ht = t \div 2 /\ t = 2 * ht
    /\ m = 2 ^ lm /\ t = 2 ^ (LogN - lm) /\ ht = 2 ^ (LogN - 1 - lm)

\* The sizes of a stage of the transform.
LEMMA StageSizes ==
  ASSUME LogN \in 1..10, NEW lm \in 0..(LogN - 1)
  PROVE  Sizes(lm, 2 ^ lm, 2 ^ (LogN - lm), 2 ^ (LogN - 1 - lm))
<1> DEFINE b == LogN - lm
           c == LogN - 1 - lm
<1>1. b \in 1..10 /\ lm \in 0..9 /\ lm + b = LogN /\ lm + b <= 10 /\ c \in 0..9 /\ c + 1 = b
  OBVIOUS
<1> HIDE DEF b, c
<1>2. 2 ^ (lm + b) = 2 ^ lm * 2 ^ b
  <2>1. b \in 0..24 /\ lm \in 0..24 /\ lm + b <= 24
    BY <1>1
  <2> QED
    BY <1>1, <2>1, PowerSum
<1>3. /\ 2 ^ (c + 1) = 2 * 2 ^ c /\ 2 ^ c \in Nat /\ 2 ^ lm \in Nat /\ 2 ^ lm >= 1
      /\ 2 ^ b \in {2, 4, 8, 16, 32, 64, 128, 256, 512, 1024}
  <2>1. c \in 0..24 /\ c \in 0..23 /\ b \in 0..24 /\ b # 0 /\ lm \in 0..24
    BY <1>1
  <2>2. 2 ^ c \in Nat /\ 2 ^ lm \in Nat /\ 2 ^ lm >= 1
    <3>1. 2 ^ c \in Nat
      BY <2>1, PowerNat, Zenon
    <3>2. 2 ^ lm \in Nat
      BY <2>1, PowerNat, Zenon
    <3>3. 2 ^ lm >= 1
      BY <2>1, PowerNat, Zenon
    <3> QED
      BY <3>1, <3>2, <3>3
  <2>3. 2 ^ b \in {2, 4, 8, 16, 32, 64, 128, 256, 512, 1024}
    <3>1. ListedPower(2 ^ b)
      BY <1>1, PowerList, Zenon
    <3> QED
      BY <3>1 DEF ListedPower
  <2>4. 2 ^ (c + 1) = 2 * 2 ^ c
    BY <2>1, Doubles
  <2> QED
    BY <2>2, <2>3, <2>4
<1>4. 2 ^ b = 2 * 2 ^ c /\ 2 ^ c = 2 ^ b \div 2
  BY <1>1, <1>3
<1>5. N = 2 ^ lm * 2 ^ b
  BY <1>1, <1>2 DEF N
<1> QED
  BY <1>2, <1>3, <1>4, <1>5 DEF Sizes, b, c

\* An entry and its partner, ht entries away, lie in the same block.
Paired(k, t, ht, m) ==
    /\ k \div t \in 0..(m - 1)
    /\ k % t < ht => /\ k + ht \in 0..(m * t - 1) /\ ~((k + ht) % t < ht)
                     /\ (k + ht) \div t = k \div t /\ (k + ht) - ht = k
    /\ ~(k % t < ht) => /\ k - ht \in 0..(m * t - 1) /\ (k - ht) % t < ht
                        /\ (k - ht) \div t = k \div t /\ (k - ht) + ht = k

\* The partner of an entry is half a block away, in the same block.
LEMMA Partner ==
  ASSUME NEW t \in {2, 4, 8, 16, 32, 64, 128, 256, 512, 1024},
         NEW m \in Nat, NEW ht, ht = t \div 2, NEW k \in 0..(m * t - 1)
  PROVE  Paired(k, t, ht, m)
<1>1. CASE t = 2
  BY <1>1 DEF Paired
<1>2. CASE t = 4
  BY <1>2 DEF Paired
<1>3. CASE t = 8
  BY <1>3 DEF Paired
<1>4. CASE t = 16
  BY <1>4 DEF Paired
<1>5. CASE t = 32
  BY <1>5 DEF Paired
<1>6. CASE t = 64
  BY <1>6 DEF Paired
<1>7. CASE t = 128
  BY <1>7 DEF Paired
<1>8. CASE t = 256
  BY <1>8 DEF Paired
<1>9. CASE t = 512
  BY <1>9 DEF Paired
<1>10. CASE t = 1024
  BY <1>10 DEF Paired
<1> QED
  BY <1>1, <1>2, <1>3, <1>4, <1>5, <1>6, <1>7, <1>8, <1>9, <1>10

-----------------------------------------------------------------------------
\* A stage of mqpoly_int_to_ntt() maps polynomials to polynomials, and the stage of
\* mqpoly_ntt_to_int() on blocks of the same size undoes it.
LEMMA StageInverse ==
  ASSUME Montgomery, TablesInverse, LogN \in 1..10, NEW lm \in 0..(LogN - 1), NEW d \in [Idx -> Residues]
  PROVE  /\ ForwardStage(d, lm) \in [Idx -> Residues]
         /\ InverseStage(ForwardStage(d, lm), LogN - 1 - lm) = d
<1> DEFINE m == 2 ^ lm
           t == 2 ^ (LogN - lm)
           ht == 2 ^ (LogN - 1 - lm)
           f == ForwardStage(d, lm)
           low(k) == k % t < ht
           g(k) == GM[(k \div t) + m]
           ig(k) == iGM[(k \div t) + m]
<1>1. Sizes(lm, m, t, ht)
  BY StageSizes
<1>2. f = [k \in Idx |-> IF low(k) THEN mq_add(d[k], mq_mmul(d[k + ht], g(k)))
                                   ELSE mq_sub(d[k - ht], mq_mmul(d[k], g(k)))]
  <2>1. t \div 2 = ht
    <3> HIDE DEF m, t, ht
    <3> QED
      BY <1>1 DEF Sizes
  <2> HIDE DEF t, ht, m
  <2> QED
    BY <2>1, Zenon DEF ForwardStage, t, m
<1>3. InverseStage(f, LogN - 1 - lm) =
        [k \in Idx |-> IF low(k) THEN mq_half(mq_add(f[k], f[k + ht]))
                                 ELSE mq_mmul(mq_sub(f[k - ht], f[k]), ig(k))]
  <2>1. LogN - 1 - (LogN - 1 - lm) = lm /\ 2 * ht = t
    <3>1. LogN - 1 - (LogN - 1 - lm) = lm
      OBVIOUS
    <3>2. 2 * ht = t
      <4> HIDE DEF m, t, ht
      <4> QED
        BY <1>1 DEF Sizes
    <3> QED
      BY <3>1, <3>2, Zenon
  <2> HIDE DEF f
  <2> QED
    BY <2>1, Zenon DEF InverseStage
<1> HIDE DEF f
<1>4. ASSUME NEW k \in Idx
      PROVE  /\ g(k) \in Residues /\ ig(k) \in Residues /\ Cong(2 * (g(k) * ig(k)), R * R)
             /\ low(k) => /\ k + ht \in Idx /\ ~low(k + ht) /\ g(k + ht) = g(k) /\ (k + ht) - ht = k
             /\ ~low(k) => /\ k - ht \in Idx /\ low(k - ht) /\ g(k - ht) = g(k) /\ (k - ht) + ht = k
  <2> HIDE DEF m, t, ht
  <2>1. /\ t \in {2, 4, 8, 16, 32, 64, 128, 256, 512, 1024} /\ m \in Nat /\ m >= 1
        /\ N = m * t /\ ht = t \div 2
    BY <1>1 DEF Sizes
  <2>2. Idx = 0..(m * t - 1)
    BY <2>1 DEF Idx
  <2>3. Paired(k, t, ht, m)
    <3>1. k \in 0..(m * t - 1)
      BY <2>2, Zenon
    <3> QED
      BY <2>1, <3>1, Partner
  <2> DEFINE j == k \div t
  <2>4. j + m \in 1..(N - 1)
    <3>1. j \in 0..(m - 1) /\ m \in Nat
      BY <2>1, <2>3 DEF Paired
    <3>2. m * t >= 2 * m
      BY <2>1
    <3> HIDE DEF j
    <3> QED
      BY <2>1, <3>1, <3>2
  <2> HIDE DEF j
  <2>5. GM[j + m] \in Residues /\ iGM[j + m] \in Residues /\ Cong(2 * (GM[j + m] * iGM[j + m]), R * R)
    BY <2>4 DEF TablesInverse
  <2> QED
    BY <2>2, <2>3, <2>5, Zenon DEF j, Paired
\* The butterfly of k and its partner.
<1>5. ASSUME NEW k \in Idx
      PROVE  f[k] \in Residues
             /\ d[k] = IF low(k) THEN mq_half(mq_add(f[k], f[k + ht]))
                                 ELSE mq_mmul(mq_sub(f[k - ht], f[k]), ig(k))
  <2> HIDE DEF m, t, ht
  <2> DEFINE G == g(k)
             I == ig(k)
  <2>1. G \in Residues /\ I \in Residues /\ Cong(2 * (G * I), R * R)
    BY <1>4
  <2>2. CASE low(k)
    <3> DEFINE x == d[k]
               y == d[k + ht]
               p == mq_mmul(y, G)
    <3>1. k + ht \in Idx /\ ~low(k + ht) /\ g(k + ht) = G /\ (k + ht) - ht = k
      BY <1>4, <2>2
    <3>2. x \in Residues /\ y \in Residues
      BY <3>1
    <3>3. f[k] = mq_add(x, p)
      BY <1>2, <2>2, Zenon
    <3>4. f[k + ht] = mq_sub(x, p)
      <4> DEFINE l == k + ht
      <4>1. l \in Idx /\ ~low(l) /\ g(l) = G /\ l - ht = k
        BY <3>1
      <4>2. f[l] = mq_sub(d[l - ht], mq_mmul(d[l], g(l)))
        <5> HIDE DEF l
        <5> QED
          BY <1>2, <4>1, Zenon
      <4> QED
        BY <4>1, <4>2, Zenon
    <3> HIDE DEF x, y, G, I
    <3>5. /\ mq_add(x, p) \in Residues
          /\ mq_half(mq_add(mq_add(x, p), mq_sub(x, p))) = x
      <4>1. Undone(x, y, G, I)
        BY <2>1, <3>2, Butterfly
      <4> QED
        BY <4>1, Zenon DEF Undone
    <3> QED
      BY <2>2, <3>3, <3>4, <3>5, Zenon DEF x
  <2>3. CASE ~low(k)
    <3> DEFINE x == d[k - ht]
               y == d[k]
               p == mq_mmul(y, G)
    <3>1. k - ht \in Idx /\ low(k - ht) /\ g(k - ht) = G /\ (k - ht) + ht = k
      BY <1>4, <2>3
    <3>2. x \in Residues /\ y \in Residues
      BY <3>1
    <3>3. f[k] = mq_sub(x, p)
      BY <1>2, <2>3, Zenon
    <3>4. f[k - ht] = mq_add(x, p)
      <4> DEFINE l == k - ht
      <4>1. l \in Idx /\ low(l) /\ g(l) = G /\ l + ht = k
        BY <3>1
      <4>2. f[l] = mq_add(d[l], mq_mmul(d[l + ht], g(l)))
        <5> HIDE DEF l
        <5> QED
          BY <1>2, <4>1, Zenon
      <4> QED
        BY <4>1, <4>2, Zenon
    <3> HIDE DEF x, y, G, I
    <3>5. /\ mq_sub(x, p) \in Residues
          /\ mq_mmul(mq_sub(mq_add(x, p), mq_sub(x, p)), I) = y
      <4>1. Undone(x, y, G, I)
        BY <2>1, <3>2, Butterfly
      <4> QED
        BY <4>1, Zenon DEF Undone
    <3> QED
      BY <2>3, <3>3, <3>4, <3>5, Zenon DEF y, I
  <2> QED
    BY <2>2, <2>3
<1>6. f \in [Idx -> Residues]
  <2>1. f = [k \in Idx |-> f[k]]
    BY <1>2, Zenon
  <2> QED
    BY <1>5, <2>1, Zenon
<1>7. d = [k \in Idx |-> d[k]]
  OBVIOUS
<1>8. InverseStage(f, LogN - 1 - lm) = [k \in Idx |-> d[k]]
  BY <1>3, <1>5, Zenon
<1> QED
  BY <1>6, <1>7, <1>8, Zenon DEF f

-----------------------------------------------------------------------------
\* One stage of either transform.
Stage(forward, d, lm) == IF forward THEN ForwardStage(d, lm) ELSE InverseStage(d, lm)

\* The arrays after 0, 1, ..., n stages exist.
LEMMA StagesExist ==
  ASSUME NEW forward \in BOOLEAN, NEW d, NEW len \in Nat
  PROVE  \E h : h = [k \in 0..len |-> IF k = 0 THEN d ELSE Stage(forward, h[k - 1], k - 1)]
<1> DEFINE E(h, n) == h = [k \in 0..n |-> IF k = 0 THEN d ELSE Stage(forward, h[k - 1], k - 1)]
           S == {n \in Nat : \E h : E(h, n)}
<1>1. 0 \in S
  <2> DEFINE h == [k \in 0..0 |-> d]
  <2>1. E(h, 0)
    OBVIOUS
  <2> QED
    BY <2>1, Zenon
<1>2. ASSUME NEW n \in Nat, n \in S PROVE n + 1 \in S
  <2>1. PICK h : E(h, n)
    BY <1>2
  <2> DEFINE e == [k \in 0..(n + 1) |-> IF k = n + 1 THEN Stage(forward, h[n], n) ELSE h[k]]
  <2>2. ASSUME NEW k \in 0..(n + 1)
        PROVE  e[k] = IF k = 0 THEN d ELSE Stage(forward, e[k - 1], k - 1)
    <3>1. CASE k = n + 1
      <4>1. k # 0 /\ k - 1 = n /\ n \in 0..(n + 1) /\ n # n + 1
        BY <3>1
      <4>2. e[k] = Stage(forward, h[n], n) /\ e[n] = h[n]
        BY <3>1, <4>1, Zenon
      <4> QED
        BY <4>1, <4>2, Zenon
    <3>2. CASE k # n + 1
      <4>1. k \in 0..n
        BY <3>2
      <4>2. e[k] = h[k]
        BY <3>2, Zenon
      <4>3. h[k] = IF k = 0 THEN d ELSE Stage(forward, h[k - 1], k - 1)
        BY <2>1, <4>1, Zenon
      <4>4. CASE k # 0
        <5>1. k - 1 \in 0..(n + 1) /\ k - 1 # n + 1
          BY <4>1, <4>4
        <5>2. e[k - 1] = h[k - 1]
          BY <5>1, Zenon
        <5> QED
          BY <4>2, <4>3, <4>4, <5>2, Zenon
      <4> QED
        BY <4>2, <4>3, <4>4, Zenon
    <3> QED
      BY <3>1, <3>2
  <2>3. e = [k \in 0..(n + 1) |-> e[k]]
    OBVIOUS
  <2> HIDE DEF e
  <2>4. E(e, n + 1)
    BY <2>2, <2>3, Zenon
  <2> HIDE DEF E
  <2> QED
    BY <2>4
<1>3. len \in S
  <2> HIDE DEF S
  <2> QED
    BY <1>1, <1>2, NatSetInduction
<1> QED
  BY <1>3

\* The outer loop of mqpoly_int_to_ntt().
LEMMA ForwardLoop ==
  ASSUME LogN \in 1..10, NEW d
  PROVE  \E h : /\ int_to_ntt(d) = h[LogN] /\ h[0] = d
                /\ \A k \in 1..LogN : h[k] = ForwardStage(h[k - 1], k - 1)
<1> DEFINE E(h) == h = [k \in 0..LogN |-> IF k = 0 THEN d ELSE ForwardStage(h[k - 1], k - 1)]
           f == CHOOSE h : E(h)
<1>1. \E h : E(h)
  <2>1. LogN \in Nat
    OBVIOUS
  <2>2. \E h : h = [k \in 0..LogN |-> IF k = 0 THEN d ELSE Stage(TRUE, h[k - 1], k - 1)]
    BY <2>1, StagesExist, ZenonT(40)
  <2> QED
    BY <2>2 DEF Stage
<1>2. E(f)
  <2> HIDE DEF E
  <2> QED
    BY <1>1
<1>3. int_to_ntt(d) = f[LogN]
  BY DEF int_to_ntt
<1> HIDE DEF f
<1>4. f[0] = d
  <2>1. 0 \in 0..LogN
    OBVIOUS
  <2> QED
    BY <1>2, <2>1, Zenon
<1>5. ASSUME NEW k \in 1..LogN PROVE f[k] = ForwardStage(f[k - 1], k - 1)
  <2>1. k \in 0..LogN /\ k # 0
    OBVIOUS
  <2> QED
    BY <1>2, <2>1, Zenon
<1> QED
  BY <1>3, <1>4, <1>5, Zenon

\* The outer loop of mqpoly_ntt_to_int().
LEMMA InverseLoop ==
  ASSUME LogN \in 1..10, NEW d
  PROVE  \E h : /\ ntt_to_int(d) = h[LogN] /\ h[0] = d
                /\ \A k \in 1..LogN : h[k] = InverseStage(h[k - 1], k - 1)
<1> DEFINE E(h) == h = [k \in 0..LogN |-> IF k = 0 THEN d ELSE InverseStage(h[k - 1], k - 1)]
           f == CHOOSE h : E(h)
<1>1. \E h : E(h)
  <2>1. LogN \in Nat
    OBVIOUS
  <2>2. \E h : h = [k \in 0..LogN |-> IF k = 0 THEN d ELSE Stage(FALSE, h[k - 1], k - 1)]
    BY <2>1, StagesExist, ZenonT(40)
  <2> QED
    BY <2>2 DEF Stage
<1>2. E(f)
  <2> HIDE DEF E
  <2> QED
    BY <1>1
<1>3. ntt_to_int(d) = f[LogN]
  BY DEF ntt_to_int
<1> HIDE DEF f
<1>4. f[0] = d
  <2>1. 0 \in 0..LogN
    OBVIOUS
  <2> QED
    BY <1>2, <2>1, Zenon
<1>5. ASSUME NEW k \in 1..LogN PROVE f[k] = InverseStage(f[k - 1], k - 1)
  <2>1. k \in 0..LogN /\ k # 0
    OBVIOUS
  <2> QED
    BY <1>2, <2>1, Zenon
<1> QED
  BY <1>3, <1>4, <1>5, Zenon

-----------------------------------------------------------------------------
\* mqpoly_ntt_to_int() undoes mqpoly_int_to_ntt() on every polynomial: after i stages of the
\* inverse the array is what it was i stages before the end of the transform.
THEOREM NttInverse ==
  ASSUME NegInverse, TablesInverse, LogN \in 1..10, NEW d \in [Idx -> Residues]
  PROVE  int_to_ntt(d) \in [Idx -> Residues] /\ ntt_to_int(int_to_ntt(d)) = d
<1>0. Montgomery
  BY Reduces, Zenon
<1>1. PICK f : /\ int_to_ntt(d) = f[LogN] /\ f[0] = d
               /\ \A k \in 1..LogN : f[k] = ForwardStage(f[k - 1], k - 1)
  BY ForwardLoop
<1>2. PICK h : /\ ntt_to_int(f[LogN]) = h[LogN] /\ h[0] = f[LogN]
               /\ \A k \in 1..LogN : h[k] = InverseStage(h[k - 1], k - 1)
  BY InverseLoop
<1>3. LogN \in Nat /\ LogN \in 0..LogN
  OBVIOUS
<1>4. \A k \in 0..LogN : f[k] \in [Idx -> Residues]
  <2> DEFINE S == {k \in Nat : k \in 0..LogN => f[k] \in [Idx -> Residues]}
  <2>1. 0 \in S
    BY <1>1
  <2>2. ASSUME NEW k \in Nat, k \in S PROVE k + 1 \in S
    <3> SUFFICES ASSUME k + 1 \in 0..LogN PROVE f[k + 1] \in [Idx -> Residues]
      OBVIOUS
    <3>1. k \in 0..LogN /\ k \in 0..(LogN - 1) /\ k + 1 \in 1..LogN /\ (k + 1) - 1 = k
      OBVIOUS
    <3>2. f[k] \in [Idx -> Residues]
      BY <2>2, <3>1
    <3>3. f[k + 1] = ForwardStage(f[k], k)
      <4> DEFINE j == k + 1
      <4>1. j \in 1..LogN /\ j - 1 = k
        BY <3>1
      <4> HIDE DEF j
      <4>2. f[j] = ForwardStage(f[j - 1], j - 1)
        BY <1>1, <4>1, Zenon
      <4> QED
        BY <4>1, <4>2, Zenon DEF j
    <3> QED
      BY <1>0, <3>1, <3>2, <3>3, StageInverse, Zenon
  <2> HIDE DEF S
  <2>3. Nat \subseteq S
    BY <2>1, <2>2, NatSetInduction
  <2> QED
    BY <2>3 DEF S
<1>5. \A i \in 0..LogN : h[i] = f[LogN - i]
  <2> DEFINE S == {i \in Nat : i \in 0..LogN => h[i] = f[LogN - i]}
  <2>1. 0 \in S
    <3>1. LogN - 0 = LogN
      OBVIOUS
    <3> QED
      BY <1>2, <3>1, Zenon
  <2>2. ASSUME NEW i \in Nat, i \in S PROVE i + 1 \in S
    <3> SUFFICES ASSUME i + 1 \in 0..LogN PROVE h[i + 1] = f[LogN - (i + 1)]
      OBVIOUS
    <3> DEFINE j == i + 1
               l == LogN - (i + 1)
               u == LogN - i
    <3>1. /\ i \in 0..LogN /\ j \in 1..LogN /\ j - 1 = i
          /\ l \in 0..(LogN - 1) /\ l \in 0..LogN /\ u \in 1..LogN /\ u - 1 = l /\ LogN - 1 - l = i
      OBVIOUS
    <3> HIDE DEF j, l, u
    <3>2. h[i] = f[u]
      BY <2>2, <3>1 DEF u
    <3>3. h[j] = InverseStage(f[u], i)
      <4>1. h[j] = InverseStage(h[j - 1], j - 1)
        BY <1>2, <3>1, Zenon
      <4> QED
        BY <3>1, <3>2, <4>1, Zenon
    <3>4. f[u] = ForwardStage(f[l], l)
      <4>1. f[u] = ForwardStage(f[u - 1], u - 1)
        BY <1>1, <3>1, Zenon
      <4> QED
        BY <3>1, <4>1, Zenon
    <3>5. f[l] \in [Idx -> Residues]
      BY <1>4, <3>1, Zenon
    <3>6. InverseStage(ForwardStage(f[l], l), LogN - 1 - l) = f[l]
      BY <1>0, <3>1, <3>5, StageInverse, Zenon
    <3>7. h[j] = f[l]
      BY <3>1, <3>3, <3>4, <3>6, Zenon
    <3> QED
      BY <3>7 DEF j, l
  <2> HIDE DEF S
  <2>3. Nat \subseteq S
    BY <2>1, <2>2, NatSetInduction
  <2> QED
    BY <2>3 DEF S
<1>6. h[LogN] = f[0]
  <2>1. LogN - LogN = 0
    OBVIOUS
  <2> QED
    BY <1>3, <1>5, <2>1, Zenon
<1> QED
  BY <1>1, <1>2, <1>3, <1>4, <1>6, Zenon
-----------------------------------------------------------------------------
\* The partial sums of a finite sequence exist.
LEMMA PartialSums ==
  ASSUME NEW f, NEW len \in Nat
  PROVE  \E h : h = [n \in 0..len |-> IF n = 0 THEN 0 ELSE h[n - 1] + f[n - 1]]
<1> DEFINE E(h, n) == h = [k \in 0..n |-> IF k = 0 THEN 0 ELSE h[k - 1] + f[k - 1]]
           S == {n \in Nat : \E h : E(h, n)}
<1>1. 0 \in S
  <2> DEFINE h == [k \in 0..0 |-> 0]
  <2>1. E(h, 0)
    OBVIOUS
  <2> QED
    BY <2>1, Zenon
<1>2. ASSUME NEW n \in Nat, n \in S PROVE n + 1 \in S
  <2>1. PICK h : E(h, n)
    BY <1>2
  <2> DEFINE e == [k \in 0..(n + 1) |-> IF k = n + 1 THEN h[n] + f[n] ELSE h[k]]
  <2>2. ASSUME NEW k \in 0..(n + 1)
        PROVE  e[k] = IF k = 0 THEN 0 ELSE e[k - 1] + f[k - 1]
    <3>1. CASE k = n + 1
      <4>1. k # 0 /\ k - 1 = n /\ n \in 0..(n + 1) /\ n # n + 1
        BY <3>1
      <4>2. e[k] = h[n] + f[n] /\ e[n] = h[n]
        BY <3>1, <4>1, Zenon
      <4> QED
        BY <4>1, <4>2, Zenon
    <3>2. CASE k # n + 1
      <4>1. k \in 0..n
        BY <3>2
      <4>2. e[k] = h[k]
        BY <3>2, Zenon
      <4>3. h[k] = IF k = 0 THEN 0 ELSE h[k - 1] + f[k - 1]
        BY <2>1, <4>1, Zenon
      <4>4. CASE k # 0
        <5>1. k - 1 \in 0..(n + 1) /\ k - 1 # n + 1
          BY <4>1, <4>4
        <5>2. e[k - 1] = h[k - 1]
          BY <5>1, Zenon
        <5> QED
          BY <4>2, <4>3, <4>4, <5>2, Zenon
      <4> QED
        BY <4>2, <4>3, <4>4, Zenon
    <3> QED
      BY <3>1, <3>2
  <2>3. e = [k \in 0..(n + 1) |-> e[k]]
    OBVIOUS
  <2> HIDE DEF e
  <2>4. E(e, n + 1)
    BY <2>2, <2>3, Zenon
  <2> HIDE DEF E
  <2> QED
    BY <2>4
<1>3. len \in S
  <2> HIDE DEF S
  <2> QED
    BY <1>1, <1>2, NatSetInduction
<1> QED
  BY <1>3

\* The partial sums that end in Total.
LEMMA TotalSums ==
  ASSUME NEW len \in Nat, NEW f \in [0..(len - 1) -> Int]
  PROVE  \E h \in [0..len -> Int] :
            /\ Total(f, len) = h[len] /\ h[0] = 0
            /\ \A k \in 0..(len - 1) : h[k + 1] = h[k] + f[k]
<1> DEFINE E(h) == h = [n \in 0..len |-> IF n = 0 THEN 0 ELSE h[n - 1] + f[n - 1]]
           p == CHOOSE h : E(h)
<1>1. E(p)
  <2>1. \E h : E(h)
    BY PartialSums
  <2> HIDE DEF E
  <2> QED
    BY <2>1
<1>2. Total(f, len) = p[len]
  BY DEF Total
<1> HIDE DEF p
<1>3. p[0] = 0
  <2>1. 0 \in 0..len
    OBVIOUS
  <2> QED
    BY <1>1, <2>1, Zenon
<1>4. ASSUME NEW k \in 0..(len - 1) PROVE p[k + 1] = p[k] + f[k]
  <2> DEFINE j == k + 1
  <2>1. j \in 0..len /\ j # 0 /\ j - 1 = k
    OBVIOUS
  <2> HIDE DEF j
  <2>2. p[j] = p[j - 1] + f[j - 1]
    BY <1>1, <2>1, Zenon
  <2> QED
    BY <2>1, <2>2 DEF j
<1>5. \A k \in 0..len : p[k] \in Int
  <2> DEFINE S == {k \in Nat : k \in 0..len => p[k] \in Int}
  <2>1. 0 \in S
    BY <1>3
  <2>2. ASSUME NEW k \in Nat, k \in S PROVE k + 1 \in S
    <3> SUFFICES ASSUME k + 1 \in 0..len PROVE p[k + 1] \in Int
      OBVIOUS
    <3>1. k \in 0..len /\ k \in 0..(len - 1)
      OBVIOUS
    <3>2. p[k] \in Int /\ f[k] \in Int
      BY <2>2, <3>1
    <3> QED
      BY <1>4, <3>1, <3>2
  <2> HIDE DEF S
  <2>3. Nat \subseteq S
    BY <2>1, <2>2, NatSetInduction
  <2> QED
    BY <2>3 DEF S
<1>6. p = [n \in 0..len |-> p[n]]
  BY <1>1, Zenon
<1>7. p \in [0..len -> Int]
  BY <1>5, <1>6, Zenon
<1> QED
  BY <1>2, <1>3, <1>4, <1>7, Zenon

\* The sum of f1 + s * f2 over twice as many indices, folded in the middle.
LEMMA FoldedSum ==
  ASSUME NEW h \in Nat, NEW f1 \in [0..(2 * h - 1) -> Int], NEW f2 \in [0..(2 * h - 1) -> Int],
         NEW s \in Int, NEW g \in [0..(h - 1) -> Int],
         \A i \in 0..(h - 1) : Cong(g[i], (f1[i] + f1[h + i]) + s * (f2[i] + f2[h + i]))
  PROVE  /\ Total(g, h) \in Int /\ Total(f1, 2 * h) \in Int /\ Total(f2, 2 * h) \in Int
         /\ Cong(Total(g, h), Total(f1, 2 * h) + s * Total(f2, 2 * h))
<1>0. 2 * h \in Nat
  OBVIOUS
<1>1. PICK G \in [0..h -> Int] : /\ Total(g, h) = G[h] /\ G[0] = 0
                                 /\ \A k \in 0..(h - 1) : G[k + 1] = G[k] + g[k]
  BY TotalSums, Zenon
<1>2. PICK F1 \in [0..(2 * h) -> Int] :
            /\ Total(f1, 2 * h) = F1[2 * h] /\ F1[0] = 0
            /\ \A k \in 0..(2 * h - 1) : F1[k + 1] = F1[k] + f1[k]
  BY <1>0, TotalSums, Zenon
<1>3. PICK F2 \in [0..(2 * h) -> Int] :
            /\ Total(f2, 2 * h) = F2[2 * h] /\ F2[0] = 0
            /\ \A k \in 0..(2 * h - 1) : F2[k + 1] = F2[k] + f2[k]
  BY <1>0, TotalSums, Zenon
<1> DEFINE e(k) == (F1[k] + (F1[h + k] - F1[h])) + s * (F2[k] + (F2[h + k] - F2[h]))
           S == {k \in Nat : k \in 0..h => Cong(G[k], e(k))}
<1>4. 0 \in S
  <2>1. h \in 0..(2 * h) /\ h + 0 = h
    OBVIOUS
  <2>2. F1[h] \in Int /\ F2[h] \in Int
    BY <2>1
  <2>3. e(0) = 0
    BY <1>2, <1>3, <2>1, <2>2
  <2>4. G[0] = e(0) + Q * 0
    BY <1>1, <2>3, QFacts
  <2> QED
    BY <2>4 DEF Cong
<1>5. ASSUME NEW k \in Nat, k \in S PROVE k + 1 \in S
  <2> SUFFICES ASSUME k + 1 \in 0..h PROVE Cong(G[k + 1], e(k + 1))
    OBVIOUS
  <2>1. /\ k \in 0..h /\ k \in 0..(h - 1) /\ k \in 0..(2 * h - 1) /\ h + k \in 0..(2 * h - 1)
        /\ k \in 0..(2 * h) /\ h + k \in 0..(2 * h) /\ h \in 0..(2 * h) /\ h + (k + 1) = (h + k) + 1
    OBVIOUS
  <2>2. /\ F1[k] \in Int /\ F1[h + k] \in Int /\ F1[h] \in Int
        /\ F2[k] \in Int /\ F2[h + k] \in Int /\ F2[h] \in Int
        /\ f1[k] \in Int /\ f1[h + k] \in Int /\ f2[k] \in Int /\ f2[h + k] \in Int
        /\ G[k] \in Int /\ g[k] \in Int
    BY <2>1
  <2> DEFINE d == (f1[k] + f1[h + k]) + s * (f2[k] + f2[h + k])
  <2>3. Cong(G[k], e(k)) /\ Cong(g[k], d)
    BY <1>5, <2>1
  <2>4. e(k) \in Int /\ d \in Int
    <3>1. \A x, y, z, u, v, w \in Int : (x + (y - z)) + s * (u + (v - w)) \in Int
      OBVIOUS
    <3>2. \A x, y, u, v \in Int : (x + y) + s * (u + v) \in Int
      OBVIOUS
    <3> QED
      BY <2>2, <3>1, <3>2, Zenon
  <2>5. G[k + 1] = G[k] + g[k]
    BY <1>1, <2>1
  <2>6. e(k + 1) = e(k) + d
    <3>1. F1[k + 1] = F1[k] + f1[k] /\ F1[h + (k + 1)] = F1[h + k] + f1[h + k]
      BY <1>2, <2>1
    <3>2. F2[k + 1] = F2[k] + f2[k] /\ F2[h + (k + 1)] = F2[h + k] + f2[h + k]
      BY <1>3, <2>1
    <3> DEFINE a1 == F1[k]
               b1 == F1[h + k]
               c1 == F1[h]
               a2 == F2[k]
               b2 == F2[h + k]
               c2 == F2[h]
               u1 == f1[k]
               v1 == f1[h + k]
               u2 == f2[k]
               v2 == f2[h + k]
    <3>3. e(k + 1) = ((a1 + u1) + ((b1 + v1) - c1)) + s * ((a2 + u2) + ((b2 + v2) - c2))
      BY <3>1, <3>2, Zenon
    <3>4. e(k) = (a1 + (b1 - c1)) + s * (a2 + (b2 - c2)) /\ d = (u1 + v1) + s * (u2 + v2)
      OBVIOUS
    <3>5. /\ a1 \in Int /\ b1 \in Int /\ c1 \in Int /\ u1 \in Int /\ v1 \in Int
          /\ a2 \in Int /\ b2 \in Int /\ c2 \in Int /\ u2 \in Int /\ v2 \in Int
      BY <2>2
    <3> HIDE DEF a1, b1, c1, a2, b2, c2, u1, v1, u2, v2, e, d
    <3> QED
      BY <3>3, <3>4, <3>5
  <2> HIDE DEF e, d
  <2>7. Cong(G[k] + g[k], e(k) + d)
    BY <2>2, <2>3, <2>4, CongAdd, Zenon
  <2> QED
    BY <2>5, <2>6, <2>7, Zenon
<1>6. h \in S
  <2> HIDE DEF S
  <2> QED
    BY <1>4, <1>5, NatSetInduction
<1>7. Cong(G[h], e(h))
  BY <1>6
<1>8. h \in 0..h /\ h \in 0..(2 * h) /\ 2 * h \in 0..(2 * h) /\ h + h = 2 * h
  OBVIOUS
<1>9. /\ G[h] \in Int /\ F1[h] \in Int /\ F2[h] \in Int /\ F1[2 * h] \in Int /\ F2[2 * h] \in Int
  BY <1>8
<1>10. e(h) = F1[2 * h] + s * F2[2 * h]
  BY <1>8, <1>9
<1> QED
  BY <1>1, <1>2, <1>3, <1>7, <1>9, <1>10, Zenon

-----------------------------------------------------------------------------
\* Entry r of b, -len < r < len, read as one of the polynomial X^len = w: X^(r - len) is X^r / w.
Wrapped(b, len, w, r) == IF r >= 0 THEN b[r] ELSE w * b[r + len]

\* Coefficient o of the product of a and b modulo X^len - w.
Terms(a, b, len, w, o) == [i \in 0..(len - 1) |-> a[i] * Wrapped(b, len, w, o - i)]
Conv(a, b, len, w, o) == Total(Terms(a, b, len, w, o), len)

\* Polynomials of a given length with integer coefficients.
Ints(len) == [0..(len - 1) -> Int]

\* a1 is a modulo X^h - s.
Reduced(a, a1, h, s) == \A i \in 0..(h - 1) : Cong(a1[i], a[i] + s * a[i + h])

\* Every term of a product is an integer.
LEMMA TermsInt ==
  ASSUME NEW len \in Nat, NEW a \in Ints(len), NEW b \in Ints(len), NEW w \in Int, NEW o \in 0..(len - 1)
  PROVE  /\ \A i \in 0..(len - 1) : Wrapped(b, len, w, o - i) \in Int
         /\ Terms(a, b, len, w, o) \in [0..(len - 1) -> Int]
<1>1. ASSUME NEW i \in 0..(len - 1) PROVE Wrapped(b, len, w, o - i) \in Int
  <2> DEFINE r == o - i
  <2>1. CASE r >= 0
    <3>1. r \in 0..(len - 1)
      BY <2>1
    <3>2. b[r] \in Int
      BY <3>1 DEF Ints
    <3> QED
      BY <2>1, <3>2 DEF Wrapped
  <2>2. CASE ~(r >= 0)
    <3>1. r + len \in 0..(len - 1)
      BY <2>2
    <3>2. b[r + len] \in Int
      BY <3>1 DEF Ints
    <3>3. w * b[r + len] \in Int
      BY <3>2
    <3> QED
      BY <2>2, <3>3, Zenon DEF Wrapped
  <2> QED
    BY <2>1, <2>2
<1>2. ASSUME NEW i \in 0..(len - 1) PROVE a[i] * Wrapped(b, len, w, o - i) \in Int
  BY <1>1 DEF Ints
<1> QED
  BY <1>1, <1>2, Zenon DEF Terms

\* (a + s*a1)(b + s*b1) with s^2 = w is determined modulo Q by the reductions.
LEMMA CongTerm ==
  ASSUME NEW x \in Int, NEW y \in Int, NEW s \in Int, NEW u \in Int, NEW v \in Int,
         NEW p \in Int, NEW r \in Int,
         Cong(p, x + s * y), Cong(r, u), Cong(s * r, v)
  PROVE  Cong(p * r, x * u + y * v)
<1>1. x + s * y \in Int
  OBVIOUS
<1> DEFINE z == x + s * y
<1>2. Cong(r * p, r * z)
  <2> HIDE DEF z
  <2> QED
    BY <1>1, CongMul DEF z
<1>3. Cong(x * r, x * u)
  BY CongMul
<1>4. s * r \in Int
  OBVIOUS
<1>5. Cong(y * (s * r), y * v)
  <2> DEFINE t == s * r
  <2>1. t \in Int /\ Cong(t, v)
    BY <1>4
  <2> HIDE DEF t
  <2>2. Cong(y * t, y * v)
    BY <2>1, CongMul
  <2> QED
    BY <2>2 DEF t
<1>6. x * r \in Int /\ x * u \in Int /\ y * (s * r) \in Int /\ y * v \in Int /\ p * r \in Int
  BY <1>4
<1>7. Cong(x * r + y * (s * r), x * u + y * v)
  BY <1>3, <1>5, <1>6, CongAdd
<1>8. r * p = p * r /\ r * z = x * r + y * (s * r)
  OBVIOUS
<1>9. Cong(p * r, x * r + y * (s * r))
  BY <1>2, <1>8, Zenon
<1> DEFINE m == x * r + y * (s * r)
           n == x * u + y * v
<1>10. m \in Int /\ n \in Int
  BY <1>6
<1> HIDE DEF m, n, z
<1> QED
  BY <1>6, <1>7, <1>9, <1>10, CongTrans DEF m, n

\* Reduction modulo X^h - s respects the wrapping of a product modulo X^(2h) - s^2: the terms
\* o - i and o + h - i give the term of the reduced polynomial, and o - h - i, o - i s times it.
LEMMA WrappedReduced ==
  ASSUME NEW h \in Nat, NEW b \in Ints(2 * h), NEW b1 \in Ints(h), NEW s \in Int, NEW w \in Int,
         Cong(s * s, w), Reduced(b, b1, h, s), NEW r \in Int, -h < r, r < h
  PROVE  /\ Cong(Wrapped(b1, h, s, r), Wrapped(b, 2 * h, w, r) + s * Wrapped(b, 2 * h, w, r + h))
         /\ Cong(s * Wrapped(b1, h, s, r), Wrapped(b, 2 * h, w, r - h) + s * Wrapped(b, 2 * h, w, r))
<1> DEFINE j == IF r >= 0 THEN r ELSE r + h
           x == b[j]
           y == b[j + h]
           z == b1[j]
<1>1. j \in 0..(h - 1) /\ j \in 0..(2 * h - 1) /\ j + h \in 0..(2 * h - 1)
  OBVIOUS
<1>2. x \in Int /\ y \in Int /\ z \in Int /\ Cong(z, x + s * y)
  BY <1>1, Zenon DEF Ints, Reduced
<1>3. CASE r >= 0
  <2>1. /\ Wrapped(b1, h, s, r) = z /\ Wrapped(b, 2 * h, w, r) = x
        /\ Wrapped(b, 2 * h, w, r + h) = y /\ Wrapped(b, 2 * h, w, r - h) = w * y
    <3>1. j = r /\ r + h >= 0 /\ ~(r - h >= 0) /\ (r - h) + 2 * h = j + h /\ r + h = j + h
      BY <1>3
    <3> HIDE DEF j
    <3> QED
      BY <1>3, <3>1, Zenon DEF Wrapped
  <2> HIDE DEF x, y, z, j
  <2>2. Cong(s * z, s * (x + s * y))
    <3> DEFINE e == x + s * y
    <3>1. e \in Int
      BY <1>2
    <3> HIDE DEF e
    <3> QED
      BY <1>2, <3>1, CongMul DEF e
  <2>3. Cong(y * (s * s), y * w)
    <3> DEFINE e == s * s
    <3>1. e \in Int
      OBVIOUS
    <3> HIDE DEF e
    <3>2. Cong(e, w)
      BY DEF e
    <3>3. Cong(y * e, y * w)
      BY <1>2, <3>1, <3>2, CongMul
    <3> QED
      BY <3>3 DEF e
  <2>4. s * x \in Int /\ y * (s * s) \in Int /\ y * w \in Int /\ y * w = w * y /\ s * z \in Int
    BY <1>2
  <2>5. Cong(s * x, s * x)
    <3>1. s * x = s * x + Q * 0
      BY <2>4, QFacts
    <3> QED
      BY <3>1 DEF Cong
  <2>6. Cong(y * (s * s) + s * x, y * w + s * x)
    BY <2>3, <2>4, <2>5, CongAdd
  <2>7. s * (x + s * y) = y * (s * s) + s * x
    BY <1>2
  <2>8. Cong(s * z, w * y + s * x)
    <3> DEFINE m == y * (s * s) + s * x
               n == w * y + s * x
    <3>1. m \in Int /\ n \in Int /\ Cong(s * z, m) /\ Cong(m, n)
      BY <2>2, <2>4, <2>6, <2>7
    <3> HIDE DEF m, n
    <3> QED
      BY <2>4, <3>1, CongTrans DEF n
  <2> QED
    BY <1>2, <2>1, <2>8, Zenon
<1>4. CASE ~(r >= 0)
  <2>1. /\ Wrapped(b1, h, s, r) = s * z /\ Wrapped(b, 2 * h, w, r) = w * y
        /\ Wrapped(b, 2 * h, w, r + h) = x /\ Wrapped(b, 2 * h, w, r - h) = w * x
    <3>1. /\ j = r + h /\ r + h >= 0 /\ ~(r - h >= 0) /\ (r - h) + 2 * h = j /\ r + 2 * h = j + h
      BY <1>4
    <3> HIDE DEF j
    <3> QED
      BY <1>4, <3>1, Zenon DEF Wrapped
  <2> HIDE DEF x, y, z, j
  <2> DEFINE e == x + s * y
             ss == s * s
             sz == s * z
  <2>2. e \in Int /\ ss \in Int /\ sz \in Int /\ Cong(z, e) /\ Cong(ss, w)
    BY <1>2
  <2>3. Cong(sz, s * e)
    <3> HIDE DEF e
    <3> QED
      BY <1>2, <2>2, CongMul
  <2>4. s * e = s * x + y * ss /\ s * x \in Int /\ y * ss \in Int /\ y * w \in Int /\ y * w = w * y
    BY <1>2
  <2>5. Cong(y * ss, y * w)
    <3> HIDE DEF ss
    <3> QED
      BY <1>2, <2>2, CongMul
  <2>6. Cong(s * x, s * x)
    <3>1. s * x = s * x + Q * 0
      BY <2>4, QFacts
    <3> QED
      BY <3>1 DEF Cong
  <2>7. Cong(y * ss + s * x, y * w + s * x)
    <3> HIDE DEF ss
    <3> QED
      BY <2>4, <2>5, <2>6, CongAdd
  <2> DEFINE m == w * y + s * x
  <2>8. m \in Int /\ m = y * w + s * x /\ s * e = y * ss + s * x /\ s * e \in Int
    BY <1>2, <2>4
  <2>9. Cong(sz, m)
    <3> HIDE DEF m, e, ss, sz
    <3>1. Cong(s * e, m)
      BY <2>7, <2>8
    <3> DEFINE n == s * e
    <3>2. n \in Int
      BY <2>8
    <3> HIDE DEF n
    <3> QED
      BY <2>2, <2>3, <2>8, <3>1, <3>2, CongTrans DEF n
  \* s * sz = ss * z, which is w * z, and that is w * e.
  <2>10. Cong(s * sz, w * x + s * (w * y))
    <3>1. Cong(z * ss, z * w) /\ Cong(w * z, w * e)
      <4> HIDE DEF ss, e
      <4> QED
        BY <1>2, <2>2, CongMul
    <3>2. /\ s * sz = z * ss /\ z * w = w * z /\ w * e = w * x + s * (w * y)
          /\ z * ss \in Int /\ w * z \in Int /\ w * e \in Int
      BY <1>2
    <3> DEFINE a == z * ss
               c == w * z
               d == w * e
    <3>3. a \in Int /\ c \in Int /\ d \in Int /\ Cong(a, c) /\ Cong(c, d)
      BY <3>1, <3>2
    <3> HIDE DEF a, c, d
    <3>4. Cong(a, d)
      BY <3>3, CongTrans
    <3> QED
      BY <3>2, <3>4 DEF a, d
  <2> QED
    BY <2>1, <2>9, <2>10, Zenon DEF m, sz
<1> QED
  BY <1>3, <1>4

\* One step down the tree: the product modulo X^(2h) - w, reduced modulo X^h - s with s^2 = w,
\* is the product of the reductions.
LEMMA ConvReduced ==
  ASSUME NEW h \in Nat, NEW a \in Ints(2 * h), NEW b \in Ints(2 * h), NEW a1 \in Ints(h),
         NEW b1 \in Ints(h), NEW s \in Int, NEW w \in Int, Cong(s * s, w),
         Reduced(a, a1, h, s), Reduced(b, b1, h, s), NEW o \in 0..(h - 1)
  PROVE  /\ Conv(a1, b1, h, s, o) \in Int /\ Conv(a, b, 2 * h, w, o) \in Int
         /\ Conv(a, b, 2 * h, w, o + h) \in Int
         /\ Cong(Conv(a1, b1, h, s, o), Conv(a, b, 2 * h, w, o) + s * Conv(a, b, 2 * h, w, o + h))
<1> DEFINE f1 == Terms(a, b, 2 * h, w, o)
           f2 == Terms(a, b, 2 * h, w, o + h)
           g == Terms(a1, b1, h, s, o)
<1>1. /\ f1 \in [0..(2 * h - 1) -> Int] /\ f2 \in [0..(2 * h - 1) -> Int] /\ g \in [0..(h - 1) -> Int]
  <2>1. 2 * h \in Nat /\ o \in 0..(2 * h - 1) /\ o + h \in 0..(2 * h - 1)
    OBVIOUS
  <2> HIDE DEF f1, f2, g
  <2>2. g \in [0..(h - 1) -> Int]
    BY TermsInt DEF g
  <2>3. f1 \in [0..(2 * h - 1) -> Int]
    BY <2>1, TermsInt, Zenon DEF f1
  <2>4. f2 \in [0..(2 * h - 1) -> Int]
    BY <2>1, TermsInt, Zenon DEF f2
  <2> QED
    BY <2>2, <2>3, <2>4
<1>2. ASSUME NEW i \in 0..(h - 1)
      PROVE  Cong(g[i], (f1[i] + f1[h + i]) + s * (f2[i] + f2[h + i]))
  <2> DEFINE r == o - i
             x == a[i]
             y == a[i + h]
             p == a1[i]
             E == Wrapped(b1, h, s, r)
             e0 == Wrapped(b, 2 * h, w, r)
             e1 == Wrapped(b, 2 * h, w, r + h)
             e2 == Wrapped(b, 2 * h, w, r - h)
  <2>1. /\ r \in Int /\ -h < r /\ r < h /\ i \in 0..(2 * h - 1) /\ i + h \in 0..(2 * h - 1)
        /\ h + i = i + h /\ o - (i + h) = r - h /\ (o + h) - i = r + h /\ (o + h) - (i + h) = r
        /\ 2 * h \in Nat /\ o \in 0..(2 * h - 1) /\ o + h \in 0..(2 * h - 1)
    OBVIOUS
  <2>2. g[i] = p * E /\ f1[i] = x * e0 /\ f2[i] = x * e1 /\ f1[h + i] = y * e2 /\ f2[h + i] = y * e0
    <3>1. g[i] = p * E /\ f1[i] = x * e0
      BY <2>1, Zenon DEF Terms
    <3>2. f2[i] = x * e1
      <4>1. f2[i] = x * Wrapped(b, 2 * h, w, (o + h) - i)
        BY <2>1, Zenon DEF Terms
      <4> QED
        BY <2>1, <4>1, Zenon
    <3>3. f1[i + h] = y * e2
      <4>1. f1[i + h] = y * Wrapped(b, 2 * h, w, o - (i + h))
        BY <2>1, Zenon DEF Terms
      <4> QED
        BY <2>1, <4>1, Zenon
    <3>4. f2[i + h] = y * e0
      <4>1. f2[i + h] = y * Wrapped(b, 2 * h, w, (o + h) - (i + h))
        BY <2>1, Zenon DEF Terms
      <4> QED
        BY <2>1, <4>1, Zenon
    <3> QED
      BY <2>1, <3>1, <3>2, <3>3, <3>4, Zenon
  <2>3. x \in Int /\ y \in Int /\ p \in Int /\ Cong(p, x + s * y)
    BY <2>1, Zenon DEF Ints, Reduced
  <2>4. E \in Int /\ e0 \in Int /\ e1 \in Int /\ e2 \in Int
    <3>1. E \in Int
      BY <2>1, TermsInt, Zenon
    <3>2. e0 \in Int
      BY <2>1, TermsInt, Zenon
    <3>3. e1 \in Int
      <4>1. Wrapped(b, 2 * h, w, (o + h) - i) \in Int
        BY <2>1, TermsInt, Zenon
      <4> QED
        BY <2>1, <4>1, Zenon
    <3>4. e2 \in Int
      <4>1. Wrapped(b, 2 * h, w, o - (i + h)) \in Int
        BY <2>1, TermsInt, Zenon
      <4> QED
        BY <2>1, <4>1, Zenon
    <3> QED
      BY <3>1, <3>2, <3>3, <3>4
  <2>5. Cong(E, e0 + s * e1) /\ Cong(s * E, e2 + s * e0)
    BY <2>1, WrappedReduced, Zenon
  <2> HIDE DEF x, y, p, E, e0, e1, e2, r, f1, f2, g
  <2> DEFINE u == e0 + s * e1
             v == e2 + s * e0
  <2>6. u \in Int /\ v \in Int
    BY <2>4
  <2>7. Cong(p * E, x * u + y * v)
    <3>1. Cong(E, u) /\ Cong(s * E, v)
      BY <2>5
    <3> HIDE DEF u, v
    <3> QED
      BY <2>3, <2>4, <2>6, <3>1, CongTerm
  <2>8. x * u + y * v = (x * e0 + y * e2) + s * (x * e1 + y * e0)
    BY <2>3, <2>4
  <2> HIDE DEF u, v
  <2> QED
    BY <2>2, <2>7, <2>8, Zenon
<1> HIDE DEF f1, f2, g
<1>3. /\ Total(g, h) \in Int /\ Total(f1, 2 * h) \in Int /\ Total(f2, 2 * h) \in Int
      /\ Cong(Total(g, h), Total(f1, 2 * h) + s * Total(f2, 2 * h))
  BY <1>1, <1>2, FoldedSum, Zenon
<1> QED
  BY <1>3, Zenon DEF Conv, f1, f2, g

\* A product of constants modulo X - w.
LEMMA ConvOne ==
  ASSUME NEW a \in Ints(1), NEW b \in Ints(1), NEW w \in Int
  PROVE  Conv(a, b, 1, w, 0) = a[0] * b[0]
<1> DEFINE f == Terms(a, b, 1, w, 0)
<1>1. 0 \in 0..(1 - 1) /\ 1 \in Nat /\ 0 - 0 = 0 /\ 0 >= 0 /\ 0 + 1 = 1
  OBVIOUS
<1>2. f[0] = a[0] * b[0]
  <2>1. f[0] = a[0] * Wrapped(b, 1, w, 0 - 0)
    BY <1>1, Zenon DEF Terms
  <2> QED
    BY <1>1, <2>1, Zenon DEF Wrapped
<1>3. f \in [0..(1 - 1) -> Int]
  BY <1>1, TermsInt, Zenon
<1> HIDE DEF f
<1>4. PICK h \in [0..1 -> Int] : /\ Total(f, 1) = h[1] /\ h[0] = 0
                                 /\ \A k \in 0..(1 - 1) : h[k + 1] = h[k] + f[k]
  BY <1>1, <1>3, TotalSums, Zenon
<1>5. Total(f, 1) = 0 + f[0] /\ f[0] \in Int
  BY <1>1, <1>3, <1>4, Zenon
<1>6. Total(f, 1) = f[0]
  BY <1>5
<1> QED
  BY <1>2, <1>6, Zenon DEF Conv, f

-----------------------------------------------------------------------------
\* The transform as a tree: node 1 is X^N + 1, and the children of the node X^(2h) - w are
\* X^h - s and X^h + s, where s is the root that GM has for the node.
Root(k) == mq_mred(GM[k])
NodeValue(k) == IF k = 1 THEN -1 ELSE IF k % 2 = 0 THEN Root(k \div 2) ELSE -Root(k \div 2)

\* Each root squared is the value of its node, in Montgomery representation.
TablesRoots ==
    /\ Cong(GM[1] * GM[1], -(R * R))
    /\ \A k \in 1..(N - 1) : 2 * k < N =>
          /\ Cong(GM[2 * k] * GM[2 * k], R * GM[k])
          /\ Cong(GM[2 * k + 1] * GM[2 * k + 1], -(R * GM[k]))

\* The degree is even.
LEMMA Degree == ASSUME LogN \in 1..10 PROVE N \in Nat /\ N >= 2
<1>1. 0 \in 0..(LogN - 1)
  OBVIOUS
<1> DEFINE m == 2 ^ 0
           t == 2 ^ (LogN - 0)
           h == 2 ^ (LogN - 1 - 0)
<1>2. Sizes(0, m, t, h)
  BY <1>1, StageSizes
<1>3. m = 1
  BY Powers
<1> HIDE DEF m, t, h
<1>4. t \in {2, 4, 8, 16, 32, 64, 128, 256, 512, 1024} /\ N = m * t
  BY <1>2 DEF Sizes
<1> QED
  BY <1>3, <1>4

\* The products of congruent numbers are congruent.
LEMMA CongProduct ==
  ASSUME NEW x \in Int, NEW y \in Int, NEW u \in Int, NEW v \in Int, Cong(x, u), Cong(y, v)
  PROVE  Cong(x * y, u * v)
<1>1. Cong(x * y, x * v) /\ Cong(v * x, v * u)
  BY CongMul
<1> DEFINE a == x * y
           b == x * v
           c == u * v
<1>2. a \in Int /\ b \in Int /\ c \in Int /\ v * x = b /\ v * u = c
  OBVIOUS
<1>3. Cong(a, b) /\ Cong(b, c)
  BY <1>1, <1>2
<1> HIDE DEF a, b, c
<1>4. Cong(a, c)
  BY <1>2, <1>3, CongTrans
<1> QED
  BY <1>4 DEF a, c

\* Every integer is congruent to itself.
LEMMA CongSelf == ASSUME NEW x \in Int PROVE Cong(x, x)
<1>1. x = x + Q * 0
  BY QFacts
<1> QED
  BY <1>1 DEF Cong

\* A root is the table's entry out of Montgomery representation.
LEMMA RootFacts ==
  ASSUME Montgomery, TablesInverse, NEW k \in 1..(N - 1)
  PROVE  GM[k] \in Residues /\ GM[k] \in Int /\ Root(k) \in Int /\ Cong(R * Root(k), GM[k])
<1>1. GM[k] \in Residues
  BY DEF TablesInverse
<1>2. GM[k] \in Int /\ 1 <= GM[k] /\ GM[k] <= Q
  BY <1>1, QFacts DEF Residues
<1>3. GM[k] \in 1..(Q * Q)
  <2> DEFINE g == GM[k]
  <2>1. g \in Int /\ 1 <= g /\ g <= Q
    BY <1>2
  <2> HIDE DEF g
  <2>2. Q <= Q * Q /\ Q * Q \in Int
    BY QFacts
  <2>3. g \in 1..(Q * Q)
    BY <2>1, <2>2, QFacts
  <2> QED
    BY <2>3 DEF g
<1>4. mq_mred(GM[k]) \in Residues /\ Cong(R * mq_mred(GM[k]), GM[k])
  BY <1>3, Zenon DEF Montgomery
<1> QED
  BY <1>1, <1>2, <1>4, QFacts DEF Root, Residues

\* R * R can be cancelled.
LEMMA CongRR ==
  ASSUME Montgomery, NEW x \in Int, NEW y \in Int, Cong(R * (R * x), R * (R * y))
  PROVE  Cong(x, y)
<1> DEFINE u == R * x
           v == R * y
<1>1. u \in Int /\ v \in Int /\ Cong(R * u, R * v)
  BY RInt
<1> HIDE DEF u, v
<1>2. Cong(u, v)
  BY <1>1, CongR
<1>3. Cong(R * x, R * y)
  BY <1>2 DEF u, v
<1> QED
  BY <1>3, CongR

\* The product of two roots, from the product of their entries.
LEMMA RootProduct ==
  ASSUME Montgomery, TablesInverse, NEW k \in 1..(N - 1), NEW l \in 1..(N - 1), NEW w \in Int,
         Cong(GM[k] * GM[l], R * (R * w))
  PROVE  Cong(Root(k) * Root(l), w)
<1> DEFINE x == Root(k)
           y == Root(l)
           g == GM[k]
           e == GM[l]
           u == R * x
           v == R * y
<1>1. x \in Int /\ y \in Int /\ g \in Int /\ e \in Int /\ Cong(u, g) /\ Cong(v, e)
  BY RootFacts
<1>2. Cong(g * e, R * (R * w))
  OBVIOUS
<1> HIDE DEF x, y, g, e
<1>3. u \in Int /\ v \in Int /\ R * (R * w) \in Int /\ x * y \in Int
  BY <1>1, RInt
<1>4. u * v = R * (R * (x * y))
  BY <1>1, RInt
<1>5. Cong(u * v, g * e)
  <2> HIDE DEF u, v
  <2> QED
    BY <1>1, <1>3, CongProduct
<1> DEFINE a == R * (R * (x * y))
           b == g * e
           c == R * (R * w)
<1>6. a \in Int /\ b \in Int /\ c \in Int
  BY <1>1, <1>3, RInt
<1>7. Cong(a, b) /\ Cong(b, c)
  BY <1>2, <1>4, <1>5, Zenon
<1> HIDE DEF a, b, c
<1>8. Cong(a, c)
  BY <1>6, <1>7, CongTrans
<1>9. Cong(x * y, w)
  BY <1>3, <1>8, CongRR DEF a, c
<1> QED
  BY <1>9 DEF x, y

\* The root of a node squared is the node's value.
LEMMA RootSquare ==
  ASSUME Montgomery, TablesInverse, TablesRoots, LogN \in 1..10, NEW k \in 1..(N - 1)
  PROVE  NodeValue(k) \in Int /\ Cong(Root(k) * Root(k), NodeValue(k))
<1>0. N \in Nat /\ N >= 2
  BY Degree
<1>1. CASE k = 1
  <2>1. R * (R * (-1)) = -(R * R)
    BY RInt
  <2>2. Cong(GM[1] * GM[1], R * (R * (-1)))
    BY <2>1 DEF TablesRoots
  <2>3. -1 \in Int
    OBVIOUS
  <2>4. Cong(Root(k) * Root(k), -1)
    BY <1>1, <2>2, <2>3, RootProduct, Zenon
  <2> QED
    BY <1>1, <2>3, <2>4, Zenon DEF NodeValue
<1>2. CASE k # 1
  <2> DEFINE p == k \div 2
             s == Root(p)
  <2>1. p \in 1..(N - 1) /\ 2 * p < N /\ (k % 2 = 0 => k = 2 * p) /\ (k % 2 # 0 => k = 2 * p + 1)
    BY <1>0, <1>2
  <2> HIDE DEF p
  <2>2. GM[p] \in Int /\ s \in Int /\ Cong(R * s, GM[p])
    BY <2>1, RootFacts
  <2> HIDE DEF s
  <2> DEFINE u == R * s
             v == GM[p]
             o == -1
  <2>3. u \in Int /\ v \in Int /\ Cong(v, u)
    BY <2>2, RInt, CongSym
  <2>4. Cong(R * v, R * u) /\ R * v \in Int /\ R * u \in Int
    <3> HIDE DEF u, v
    <3> QED
      BY <2>3, RInt, CongMul
  <2>5. GM[k] \in Int
    BY RootFacts
  <2> DEFINE g == GM[k] * GM[k]
  <2>6. g \in Int
    BY <2>5
  <2>7. CASE k % 2 = 0
    <3>1. Cong(g, R * v)
      BY <2>1, <2>7, Zenon DEF TablesRoots
    <3>2. Cong(g, R * u)
      <4> DEFINE a == R * v
                 b == R * u
      <4>1. a \in Int /\ b \in Int /\ Cong(a, b) /\ Cong(g, a)
        BY <2>4, <3>1
      <4> HIDE DEF a, b, g
      <4>2. Cong(g, b)
        BY <2>6, <4>1, CongTrans
      <4> QED
        BY <4>2 DEF b
    <3>3. Cong(Root(k) * Root(k), s)
      BY <2>2, <3>2, RootProduct, Zenon
    <3> QED
      BY <1>2, <2>2, <2>7, <3>3, Zenon DEF NodeValue, s, p
  <2>8. CASE k % 2 # 0
    <3>1. Cong(g, -(R * v))
      BY <2>1, <2>8, Zenon DEF TablesRoots
    <3>2. Cong(g, R * (R * (-s)))
      <4> DEFINE a == R * v
                 b == R * u
                 z == 0
      <4>1. a \in Int /\ b \in Int /\ Cong(a, b) /\ Cong(g, -a) /\ z \in Int /\ Cong(z, z)
        BY <2>4, <3>1, CongSelf
      <4>2. R * (R * (-s)) = -b
        BY <2>2, RInt
      <4> HIDE DEF a, b, g, z
      <4>3. Cong(z - a, z - b)
        BY <4>1, CongAdd
      <4>4. z - a = -a /\ z - b = -b /\ -a \in Int /\ -b \in Int
        BY <4>1 DEF z
      <4> DEFINE c == -a
                 d == -b
      <4>5. c \in Int /\ d \in Int /\ Cong(g, c) /\ Cong(c, d)
        BY <4>1, <4>3, <4>4
      <4> HIDE DEF c, d
      <4>6. Cong(g, d)
        BY <2>6, <4>5, CongTrans
      <4> QED
        BY <4>2, <4>6 DEF d
    <3>3. -s \in Int
      BY <2>2
    <3>4. Cong(Root(k) * Root(k), -s)
      BY <3>2, <3>3, RootProduct, Zenon
    <3> QED
      BY <1>2, <2>8, <3>3, <3>4, Zenon DEF NodeValue, s, p
  <2> QED
    BY <2>7, <2>8
<1> QED
  BY <1>1, <1>2

\* A butterfly of mqpoly_int_to_ntt() takes x + X^h * y modulo X^h - s and modulo X^h + s.
LEMMA ButterflyRoot ==
  ASSUME Montgomery, TablesInverse, NEW x \in Residues, NEW y \in Residues, NEW k \in 1..(N - 1)
  PROVE  /\ Cong(mq_add(x, mq_mmul(y, GM[k])), x + Root(k) * y)
         /\ Cong(mq_sub(x, mq_mmul(y, GM[k])), x + (-Root(k)) * y)
<1> DEFINE g == GM[k]
           s == Root(k)
           p == mq_mmul(y, g)
<1>1. g \in Residues /\ g \in Int /\ s \in Int /\ Cong(R * s, g)
  BY RootFacts
<1>2. x \in Int /\ y \in Int
  BY QFacts DEF Residues
<1> HIDE DEF g, s
<1>3. p \in Residues /\ Cong(R * p, y * g)
  BY <1>1, MulFacts
<1>4. p \in Int
  BY <1>3, QFacts DEF Residues
<1> HIDE DEF p
<1>5. Cong(p, s * y)
  <2> DEFINE a == R * s
             b == R * p
             c == y * g
             d == y * a
  <2>1. a \in Int /\ b \in Int /\ c \in Int /\ d \in Int /\ Cong(a, g)
    BY <1>1, <1>2, <1>4, RInt
  <2>2. Cong(g, a)
    <3> HIDE DEF a
    <3> QED
      BY <1>1, <2>1, CongSym
  <2>3. Cong(c, d)
    <3> HIDE DEF a
    <3> QED
      BY <1>1, <1>2, <2>1, <2>2, CongMul
  <2>4. Cong(b, d)
    <3>1. Cong(b, c)
      BY <1>3
    <3> HIDE DEF a, b, c, d
    <3> QED
      BY <2>1, <2>3, <3>1, CongTrans
  <2>5. d = R * (s * y) /\ s * y \in Int
    BY <1>1, <1>2, RInt
  <2>6. Cong(R * p, R * (s * y))
    BY <2>4, <2>5, Zenon
  <2> QED
    BY <1>4, <2>5, <2>6, CongR
<1>6. mq_add(x, p) \in Residues /\ Cong(mq_add(x, p), x + p) /\ mq_sub(x, p) \in Residues /\ Cong(mq_sub(x, p), x - p)
  BY <1>3, AddFacts
<1> DEFINE u == mq_add(x, p)
           v == mq_sub(x, p)
           f == s * y
<1>7. u \in Int /\ v \in Int /\ f \in Int /\ x + p \in Int /\ x - p \in Int /\ Cong(p, f) /\ Cong(x, x)
  BY <1>1, <1>2, <1>4, <1>5, <1>6, QFacts, CongSelf DEF Residues
<1>8. Cong(u, x + p) /\ Cong(v, x - p)
  BY <1>6
<1>9. x + (-s) * y = x - f
  BY <1>1, <1>2
<1> HIDE DEF u, v, f
<1>10. Cong(x + p, x + f) /\ Cong(x - p, x - f)
  BY <1>2, <1>4, <1>7, CongAdd
<1>11. Cong(u, x + f) /\ Cong(v, x - f)
  <2>1. x + f \in Int /\ x - f \in Int
    BY <1>2, <1>7
  <2> QED
    BY <1>7, <1>8, <1>10, <2>1, CongTrans, SMT
<1> QED
  BY <1>9, <1>11, Zenon DEF u, v, f, p, g, s

-----------------------------------------------------------------------------
\* Entries len*j to len*j + len - 1: the polynomial at one node.
Block(d, len, j) == [i \in 0..(len - 1) |-> d[j * len + i]]

\* Where entry i of block j lies.
Placed(t, m, j, i) ==
    j * t + i \in 0..(m * t - 1) /\ (j * t + i) \div t = j /\ (j * t + i) % t = i

\* The lengths of blocks.
BlockLength(t) == t \in {1, 2, 4, 8, 16, 32, 64, 128, 256, 512, 1024}

\* There, if there are m blocks of t entries.
LEMMA BlockIndex ==
  ASSUME NEW t, BlockLength(t), NEW m \in Nat, NEW j \in 0..(m - 1), NEW i \in 0..(t - 1)
  PROVE  Placed(t, m, j, i)
<1>0. CASE t = 1
  BY <1>0 DEF Placed
<1>1. CASE t = 2
  BY <1>1 DEF Placed
<1>2. CASE t = 4
  BY <1>2 DEF Placed
<1>3. CASE t = 8
  BY <1>3 DEF Placed
<1>4. CASE t = 16
  BY <1>4 DEF Placed
<1>5. CASE t = 32
  BY <1>5 DEF Placed
<1>6. CASE t = 64
  BY <1>6 DEF Placed
<1>7. CASE t = 128
  BY <1>7 DEF Placed
<1>8. CASE t = 256
  BY <1>8 DEF Placed
<1>9. CASE t = 512
  BY <1>9 DEF Placed
<1>10. CASE t = 1024
  BY <1>10 DEF Placed
<1> QED
  BY <1>0, <1>1, <1>2, <1>3, <1>4, <1>5, <1>6, <1>7, <1>8, <1>9, <1>10 DEF BlockLength

\* The blocks of a stage hold residues.
LEMMA BlockResidues ==
  ASSUME LogN \in 1..10, NEW lm \in 0..LogN, NEW d \in [Idx -> Residues],
         NEW j \in 0..(2 ^ lm - 1)
  PROVE  /\ Block(d, 2 ^ (LogN - lm), j) \in [0..(2 ^ (LogN - lm) - 1) -> Residues]
         /\ Block(d, 2 ^ (LogN - lm), j) \in Ints(2 ^ (LogN - lm))
<1> DEFINE m == 2 ^ lm
           t == 2 ^ (LogN - lm)
<1>2. j \in 0..(m - 1)
  OBVIOUS
<1>3. t \in {1, 2, 4, 8, 16, 32, 64, 128, 256, 512, 1024} /\ m \in Nat /\ N = m * t
  <2>1. CASE lm # LogN
    <3> DEFINE ht == 2 ^ (LogN - 1 - lm)
    <3>1. Sizes(lm, m, t, ht)
      BY <2>1, StageSizes
    <3> HIDE DEF m, t, ht
    <3> QED
      BY <3>1 DEF Sizes
  <2>2. CASE lm = LogN
    <3>1. LogN - lm = 0 /\ m = N
      BY <2>2 DEF N
    <3>2. t = 1
      BY <3>1, Powers
    <3> HIDE DEF m, t
    <3>3. m = N /\ t = 1
      BY <3>1, <3>2
    <3> QED
      BY <3>3, Degree
  <2> QED
    BY <2>1, <2>2
<1> HIDE DEF m, t
<1>6. BlockLength(t)
  BY <1>3, Zenon DEF BlockLength
<1>7. m \in Nat
  BY <1>3
<1>4. ASSUME NEW i \in 0..(t - 1) PROVE d[j * t + i] \in Residues /\ d[j * t + i] \in Int
  <2>1. j * t + i \in 0..(m * t - 1)
    <3>1. Placed(t, m, j, i)
      BY <1>2, <1>6, <1>7, BlockIndex, Zenon
    <3> QED
      BY <3>1, Zenon DEF Placed
  <2>2. j * t + i \in Idx
    BY <1>3, <2>1 DEF Idx
  <2>3. d[j * t + i] \in Residues
    BY <2>2
  <2> QED
    BY <2>3, QFacts DEF Residues
<1>5. /\ Block(d, t, j) \in [0..(t - 1) -> Residues]
      /\ Block(d, t, j) \in [0..(t - 1) -> Int]
  BY <1>4, Zenon DEF Block
<1> QED
  BY <1>5, Zenon DEF t, Ints

\* A stage reduces the polynomial of node 2^lm + j to those of its children.
LEMMA StageReduces ==
  ASSUME Montgomery, TablesInverse, LogN \in 1..10, NEW lm \in 0..(LogN - 1),
         NEW d \in [Idx -> Residues], NEW j \in 0..(2 ^ lm - 1)
  PROVE  LET t == 2 ^ (LogN - lm)
             h == 2 ^ (LogN - 1 - lm)
             f == ForwardStage(d, lm)
             s == Root(2 ^ lm + j)
         IN  /\ Reduced(Block(d, t, j), Block(f, h, 2 * j), h, s)
             /\ Reduced(Block(d, t, j), Block(f, h, 2 * j + 1), h, -s)
<1> DEFINE m == 2 ^ lm
           t == 2 ^ (LogN - lm)
           h == 2 ^ (LogN - 1 - lm)
           f == ForwardStage(d, lm)
           k == m + j
           s == Root(k)
<1>1. Sizes(lm, m, t, h)
  BY StageSizes
<1>2. f = [i \in Idx |-> IF i % t < h THEN mq_add(d[i], mq_mmul(d[i + h], GM[(i \div t) + m]))
                                      ELSE mq_sub(d[i - h], mq_mmul(d[i], GM[(i \div t) + m]))]
  <2>1. t \div 2 = h
    <3> HIDE DEF m, t, h
    <3> QED
      BY <1>1 DEF Sizes
  <2> HIDE DEF t, h, m
  <2> QED
    BY <2>1, Zenon DEF ForwardStage, t, m
<1> HIDE DEF f
<1>3. j \in 0..(m - 1)
  OBVIOUS
<1> HIDE DEF m, t, h
<1>4. /\ t \in {2, 4, 8, 16, 32, 64, 128, 256, 512, 1024} /\ m \in Nat /\ m >= 1
      /\ N = m * t /\ t = 2 * h /\ h \in Nat
  BY <1>1 DEF Sizes
<1>0. BlockLength(t)
  BY <1>4 DEF BlockLength
<1>7. m \in Nat
  BY <1>4
<1>8. N = m * t
  BY <1>4
<1>5. k \in 1..(N - 1)
  <2>1. m * t >= 2 * m
    BY <1>4
  <2> QED
    BY <1>3, <1>4, <2>1
<1>6. ASSUME NEW i \in 0..(h - 1)
      PROVE  LET A == Block(d, t, j)
             IN  /\ Cong(Block(f, h, 2 * j)[i], A[i] + s * A[i + h])
                 /\ Cong(Block(f, h, 2 * j + 1)[i], A[i] + (-s) * A[i + h])
  <2> DEFINE u == j * t + i
             v == u + h
             x == d[u]
             y == d[v]
  <2>1. /\ i \in 0..(t - 1) /\ i + h \in 0..(t - 1) /\ v = j * t + (i + h) /\ v - h = u
        /\ (2 * j) * h + i = u /\ (2 * j + 1) * h + i = v
    BY <1>3, <1>4
  <2>12. i \in 0..(t - 1)
    BY <2>1
  <2>2. u \in 0..(m * t - 1) /\ u \div t = j /\ u % t = i
    <3>1. Placed(t, m, j, i)
      BY <1>0, <1>3, <1>7, <2>12, BlockIndex, Zenon
    <3> QED
      BY <3>1, Zenon DEF Placed
  <2>3. v \in 0..(m * t - 1) /\ v \div t = j /\ v % t = i + h
    <3> DEFINE l == i + h
    <3>1. l \in 0..(t - 1)
      BY <2>1
    <3> HIDE DEF l
    <3>2. Placed(t, m, j, l)
      BY <1>0, <1>3, <1>7, <3>1, BlockIndex, Zenon
    <3>3. v = j * t + l
      BY <2>1 DEF l
    <3> QED
      BY <3>2, <3>3, Zenon DEF Placed, l
  <2>4. Block(d, t, j)[i] = x /\ Block(d, t, j)[i + h] = y
    BY <2>1, Zenon DEF Block
  <2>5. Block(f, h, 2 * j)[i] = f[u] /\ Block(f, h, 2 * j + 1)[i] = f[v]
    BY <2>1, Zenon DEF Block
  <2>6. u \in Idx /\ v \in Idx
    BY <1>8, <2>2, <2>3, Zenon DEF Idx
  <2> HIDE DEF u
  <2>7. u % t < h /\ ~(v % t < h) /\ (u \div t) + m = k /\ (v \div t) + m = k
    BY <1>3, <1>4, <2>2, <2>3
  <2>8. f[u] = mq_add(x, mq_mmul(y, GM[k]))
    BY <1>2, <2>6, <2>7, Zenon
  <2>9. f[v] = mq_sub(x, mq_mmul(y, GM[k]))
    <3> HIDE DEF v
    <3>1. f[v] = mq_sub(d[v - h], mq_mmul(y, GM[k]))
      BY <1>2, <2>6, <2>7, Zenon
    <3> QED
      BY <2>1, <3>1, Zenon
  <2>10. x \in Residues /\ y \in Residues
    BY <2>6
  <2> HIDE DEF x, y, k
  <2>11. /\ Cong(mq_add(x, mq_mmul(y, GM[k])), x + s * y)
         /\ Cong(mq_sub(x, mq_mmul(y, GM[k])), x + (-s) * y)
    BY <1>5, <2>10, ButterflyRoot, Zenon
  <2> QED
    BY <2>4, <2>5, <2>8, <2>9, <2>11, Zenon
<1> QED
  BY <1>6, Zenon DEF Reduced, t, h, f, s, k, m

\* The value of a child.
LEMMA ChildValue ==
  ASSUME NEW k \in Nat, k >= 1
  PROVE  NodeValue(2 * k) = Root(k) /\ NodeValue(2 * k + 1) = -Root(k)
<1>1. /\ 2 * k # 1 /\ (2 * k) % 2 = 0 /\ (2 * k) \div 2 = k
      /\ 2 * k + 1 # 1 /\ (2 * k + 1) % 2 # 0 /\ (2 * k + 1) \div 2 = k
  OBVIOUS
<1> QED
  BY <1>1, Zenon DEF NodeValue

\* c is a * b modulo X^len - w and Q.
ProductMod(a, b, c, len, w) == \A o \in 0..(len - 1) : Cong(c[o], Conv(a, b, len, w, o))

\* A product stays a product under reduction.
LEMMA ProductReduced ==
  ASSUME NEW h \in Nat, NEW a \in Ints(2 * h), NEW b \in Ints(2 * h), NEW c \in Ints(2 * h),
         NEW a1 \in Ints(h), NEW b1 \in Ints(h), NEW c1 \in Ints(h),
         NEW s \in Int, NEW w \in Int, Cong(s * s, w),
         Reduced(a, a1, h, s), Reduced(b, b1, h, s), Reduced(c, c1, h, s),
         ProductMod(a, b, c, 2 * h, w)
  PROVE  ProductMod(a1, b1, c1, h, s)
<1> SUFFICES ASSUME NEW o \in 0..(h - 1) PROVE Cong(c1[o], Conv(a1, b1, h, s, o))
  BY DEF ProductMod
<1> DEFINE x == Conv(a, b, 2 * h, w, o)
           y == Conv(a, b, 2 * h, w, o + h)
           z == Conv(a1, b1, h, s, o)
           p == c[o]
           r == c[o + h]
           e == c1[o]
<1>1. x \in Int /\ y \in Int /\ z \in Int /\ Cong(z, x + s * y)
  BY ConvReduced, Zenon
<1>2. o \in 0..(2 * h - 1) /\ o + h \in 0..(2 * h - 1)
  OBVIOUS
<1>3. p \in Int /\ r \in Int /\ e \in Int
  BY <1>2, Zenon DEF Ints
<1>4. Cong(p, x) /\ Cong(r, y)
  BY <1>2, Zenon DEF ProductMod
<1>5. Cong(e, p + s * r)
  BY Zenon DEF Reduced
<1> HIDE DEF x, y, z, p, r, e
<1>6. Cong(s * r, s * y)
  BY <1>1, <1>3, <1>4, CongMul
<1>7. s * r \in Int /\ s * y \in Int
  BY <1>1, <1>3
<1>8. Cong(p + s * r, x + s * y)
  BY <1>1, <1>3, <1>4, <1>6, <1>7, CongAdd
<1> DEFINE u == p + s * r
           v == x + s * y
<1>9. u \in Int /\ v \in Int /\ Cong(e, u) /\ Cong(u, v) /\ Cong(z, v)
  BY <1>1, <1>3, <1>5, <1>7, <1>8
<1> HIDE DEF u, v
<1>10. Cong(e, v) /\ Cong(v, z)
  BY <1>1, <1>3, <1>9, CongTrans, CongSym
<1>11. Cong(e, z)
  BY <1>1, <1>3, <1>9, <1>10, CongTrans
<1> QED
  BY <1>11 DEF e, z

\* After lm stages, every block of c is the product of those of a and b at its node.
Multiplied(a, b, c, lm) ==
    \A j \in 0..(2 ^ lm - 1) :
        ProductMod(Block(a, 2 ^ (LogN - lm), j), Block(b, 2 ^ (LogN - lm), j),
                   Block(c, 2 ^ (LogN - lm), j), 2 ^ (LogN - lm), NodeValue(2 ^ lm + j))

\* What a statement about the nodes of the next level takes: the nodes are the two children of
\* each node, and their blocks are half as long.
LEMMA Children ==
  ASSUME LogN \in 1..10, NEW lm \in 0..(LogN - 1), NEW P,
         \A j \in 0..(2 ^ lm - 1) : 2 * j \in P /\ 2 * j + 1 \in P
  PROVE  /\ LogN - (lm + 1) = LogN - 1 - lm /\ 2 ^ (lm + 1) = 2 * 2 ^ lm /\ 2 ^ lm \in Nat
         /\ 0..(2 ^ (lm + 1) - 1) \subseteq P
<1> DEFINE m == 2 ^ lm
<1>1. lm \in 0..23 /\ lm \in 0..24
  OBVIOUS
<1>2. 2 ^ (lm + 1) = 2 * m /\ m \in Nat
  BY <1>1, Doubles, PowerNat
<1>3. \A j \in 0..(m - 1) : 2 * j \in P /\ 2 * j + 1 \in P
  OBVIOUS
<1> HIDE DEF m
<1>4. ASSUME NEW k \in 0..(2 * m - 1) PROVE k \in P
  <2>1. PICK j \in 0..(m - 1) : k = 2 * j \/ k = 2 * j + 1
    <3>1. k \div 2 \in 0..(m - 1) /\ (k = 2 * (k \div 2) \/ k = 2 * (k \div 2) + 1)
      BY <1>2
    <3> QED
      BY <3>1
  <2> QED
    BY <1>3, <2>1
<1>5. LogN - (lm + 1) = LogN - 1 - lm
  OBVIOUS
<1> QED
  BY <1>2, <1>4, <1>5, Zenon DEF m

\* What is known of node m + j, on a level of m nodes with t = 2*h entries each.
NodeOf(m, t, h, j, s, w) ==
    /\ m \in Nat /\ m >= 1 /\ N = m * t /\ t = 2 * h /\ h \in Nat /\ h >= 1
    /\ m + j \in 1..(N - 1) /\ 2 * j \in Nat /\ 2 * j + 1 \in Nat
    /\ s \in Int /\ -s \in Int /\ w \in Int /\ Cong(s * s, w) /\ Cong((-s) * (-s), w)
    /\ NodeValue(2 * m + 2 * j) = s /\ NodeValue(2 * m + (2 * j + 1)) = -s

\* That is so at every level.
LEMMA Nodes ==
  ASSUME Montgomery, TablesInverse, TablesRoots, LogN \in 1..10, NEW lm \in 0..(LogN - 1),
         NEW j \in 0..(2 ^ lm - 1)
  PROVE  NodeOf(2 ^ lm, 2 ^ (LogN - lm), 2 ^ (LogN - 1 - lm), j, Root(2 ^ lm + j), NodeValue(2 ^ lm + j))
<1> DEFINE m == 2 ^ lm
           t == 2 ^ (LogN - lm)
           h == 2 ^ (LogN - 1 - lm)
           k == m + j
           s == Root(k)
           w == NodeValue(k)
<1>1. Sizes(lm, m, t, h) /\ j \in 0..(m - 1)
  BY StageSizes
<1> HIDE DEF m, t, h
<1>2. /\ m \in Nat /\ m >= 1 /\ N = m * t /\ t = 2 * h /\ h \in Nat /\ h >= 1 /\ m * t >= 2 * m
      /\ m * t \in Nat
  BY <1>1 DEF Sizes
<1>3. k \in 1..(N - 1) /\ k \in Nat /\ k >= 1
  BY <1>1, <1>2
<1>4. 2 * k = 2 * m + 2 * j /\ 2 * k + 1 = 2 * m + (2 * j + 1) /\ 2 * j \in Nat /\ 2 * j + 1 \in Nat
  BY <1>1, <1>2
<1> HIDE DEF k
<1>5. s \in Int /\ w \in Int /\ Cong(s * s, w)
  BY <1>3, RootFacts, RootSquare, Zenon
<1>6. NodeValue(2 * k) = s /\ NodeValue(2 * k + 1) = -s
  BY <1>3, ChildValue
<1> HIDE DEF s, w
<1>7. (-s) * (-s) = s * s /\ -s \in Int
  BY <1>5
<1>8. NodeOf(m, t, h, j, s, w)
  <2>1. m + j \in 1..(N - 1)
    BY <1>3 DEF k
  <2> QED
    BY <1>2, <1>4, <1>5, <1>6, <1>7, <2>1, Zenon DEF NodeOf
<1> QED
  BY <1>8 DEF m, t, h, s, w, k

\* The blocks of a node's children.
LEMMA ChildBlocks ==
  ASSUME LogN \in 1..10, NEW lm \in 0..(LogN - 1), NEW d \in [Idx -> Residues],
         NEW j \in 0..(2 ^ lm - 1)
  PROVE  /\ Block(d, 2 ^ (LogN - 1 - lm), 2 * j) \in Ints(2 ^ (LogN - 1 - lm))
         /\ Block(d, 2 ^ (LogN - 1 - lm), 2 * j + 1) \in Ints(2 ^ (LogN - 1 - lm))
<1> DEFINE m == 2 ^ lm
           n == lm + 1
<1>1. n \in 0..LogN /\ LogN - n = LogN - 1 - lm /\ lm \in 0..23 /\ lm \in 0..24
  OBVIOUS
<1>2. 2 ^ n = 2 * m /\ m \in Nat /\ j \in 0..(m - 1)
  BY <1>1, Doubles, PowerNat
<1>3. 2 * j \in 0..(2 ^ n - 1) /\ 2 * j + 1 \in 0..(2 ^ n - 1)
  <2> HIDE DEF m, n
  <2> QED
    BY <1>2
<1> HIDE DEF n, m
<1> QED
  BY <1>1, <1>3, BlockResidues, Zenon

\* A stage keeps products.
LEMMA StageMultiplied ==
  ASSUME Montgomery, TablesInverse, TablesRoots, LogN \in 1..10, NEW lm \in 0..(LogN - 1),
         NEW a \in [Idx -> Residues], NEW b \in [Idx -> Residues], NEW c \in [Idx -> Residues],
         Multiplied(a, b, c, lm)
  PROVE  Multiplied(ForwardStage(a, lm), ForwardStage(b, lm), ForwardStage(c, lm), lm + 1)
<1> DEFINE m == 2 ^ lm
           t == 2 ^ (LogN - lm)
           h == 2 ^ (LogN - 1 - lm)
           A == ForwardStage(a, lm)
           B == ForwardStage(b, lm)
           C == ForwardStage(c, lm)
           G(k) == ProductMod(Block(A, h, k), Block(B, h, k), Block(C, h, k), h, NodeValue(2 * m + k))
           P == {k \in Nat : G(k)}
<1>1. lm \in 0..LogN
  OBVIOUS
<1>2. A \in [Idx -> Residues] /\ B \in [Idx -> Residues] /\ C \in [Idx -> Residues]
  BY StageInverse
<1>3. ASSUME NEW j \in 0..(m - 1) PROVE 2 * j \in P /\ 2 * j + 1 \in P
  <2> DEFINE s == Root(m + j)
             r == -s
             w == NodeValue(m + j)
             x == Block(a, t, j)
             y == Block(b, t, j)
             z == Block(c, t, j)
             u == 2 * j
             v == 2 * j + 1
  <2>1. ProductMod(x, y, z, t, w)
    BY DEF Multiplied
  <2>2. x \in Ints(t) /\ y \in Ints(t) /\ z \in Ints(t)
    BY <1>1, BlockResidues, Zenon
  <2>3. /\ Reduced(x, Block(A, h, u), h, s) /\ Reduced(x, Block(A, h, v), h, r)
        /\ Reduced(y, Block(B, h, u), h, s) /\ Reduced(y, Block(B, h, v), h, r)
        /\ Reduced(z, Block(C, h, u), h, s) /\ Reduced(z, Block(C, h, v), h, r)
    BY StageReduces, Zenon
  <2>4. NodeOf(m, t, h, j, s, w)
    BY Nodes
  <2> HIDE DEF A, B, C
  <2>5. /\ Block(A, h, u) \in Ints(h) /\ Block(B, h, u) \in Ints(h) /\ Block(C, h, u) \in Ints(h)
        /\ Block(A, h, v) \in Ints(h) /\ Block(B, h, v) \in Ints(h) /\ Block(C, h, v) \in Ints(h)
    BY <1>2, ChildBlocks, Zenon
  <2> HIDE DEF x, y, z, s, w, t, h, m, u, v
  <2>6. /\ t = 2 * h /\ h \in Nat /\ s \in Int /\ r \in Int /\ w \in Int /\ Cong(s * s, w) /\ Cong(r * r, w)
        /\ NodeValue(2 * m + u) = s /\ NodeValue(2 * m + v) = r /\ u \in Nat /\ v \in Nat
    BY <2>4, Zenon DEF NodeOf, u, v
  <2> HIDE DEF r
  <2>10. /\ x \in Ints(2 * h) /\ y \in Ints(2 * h) /\ z \in Ints(2 * h)
         /\ ProductMod(x, y, z, 2 * h, w)
    BY <2>1, <2>2, <2>6, Zenon
  <2>11. h \in Nat /\ w \in Int
    BY <2>6, Zenon
  <2>12. ASSUME NEW a1 \in Ints(h), NEW b1 \in Ints(h), NEW c1 \in Ints(h), NEW p \in Int,
                Cong(p * p, w), Reduced(x, a1, h, p), Reduced(y, b1, h, p), Reduced(z, c1, h, p)
         PROVE  ProductMod(a1, b1, c1, h, p)
    BY <2>10, <2>11, <2>12, ProductReduced, Zenon
  <2>7. ProductMod(Block(A, h, u), Block(B, h, u), Block(C, h, u), h, s)
    BY <2>3, <2>5, <2>6, <2>12, Zenon
  <2>8. ProductMod(Block(A, h, v), Block(B, h, v), Block(C, h, v), h, r)
    BY <2>3, <2>5, <2>6, <2>12, Zenon
  <2>9. u \in P /\ v \in P
    BY <2>6, <2>7, <2>8, Zenon
  <2> QED
    BY <2>9 DEF u, v
<1> HIDE DEF P, A, B, C, h
<1>4. /\ LogN - (lm + 1) = LogN - 1 - lm /\ 2 ^ (lm + 1) = 2 * m
      /\ 0..(2 ^ (lm + 1) - 1) \subseteq P
  BY <1>3, Children, Zenon DEF m
<1>5. \A k \in 0..(2 ^ (lm + 1) - 1) : G(k)
  BY <1>4, Zenon DEF P
<1> HIDE DEF m
<1> QED
  BY <1>4, <1>5, Zenon DEF Multiplied, A, B, C, h

\* The arrays between the stages of mqpoly_int_to_ntt().
LEMMA ForwardStages ==
  ASSUME Montgomery, TablesInverse, LogN \in 1..10, NEW d \in [Idx -> Residues]
  PROVE  \E f : /\ int_to_ntt(d) = f[LogN] /\ f[0] = d
                /\ \A k \in 0..LogN : f[k] \in [Idx -> Residues]
                /\ \A k \in 0..(LogN - 1) : f[k + 1] = ForwardStage(f[k], k)
<1>1. PICK f : /\ int_to_ntt(d) = f[LogN] /\ f[0] = d
               /\ \A k \in 1..LogN : f[k] = ForwardStage(f[k - 1], k - 1)
  BY ForwardLoop
<1>2. ASSUME NEW k \in 0..(LogN - 1) PROVE f[k + 1] = ForwardStage(f[k], k)
  <2> DEFINE j == k + 1
  <2>1. j \in 1..LogN /\ j - 1 = k
    OBVIOUS
  <2> HIDE DEF j
  <2>2. f[j] = ForwardStage(f[j - 1], j - 1)
    BY <1>1, <2>1, Zenon
  <2> QED
    BY <2>1, <2>2, Zenon DEF j
<1>3. \A k \in 0..LogN : f[k] \in [Idx -> Residues]
  <2> DEFINE S == {k \in Nat : k \in 0..LogN => f[k] \in [Idx -> Residues]}
  <2>1. 0 \in S
    BY <1>1
  <2>2. ASSUME NEW k \in Nat, k \in S PROVE k + 1 \in S
    <3> SUFFICES ASSUME k + 1 \in 0..LogN PROVE f[k + 1] \in [Idx -> Residues]
      OBVIOUS
    <3>1. k \in 0..LogN /\ k \in 0..(LogN - 1)
      OBVIOUS
    <3>2. f[k] \in [Idx -> Residues]
      BY <2>2, <3>1
    <3> QED
      BY <1>2, <3>1, <3>2, StageInverse, Zenon
  <2> HIDE DEF S
  <2>3. Nat \subseteq S
    BY <2>1, <2>2, NatSetInduction
  <2> QED
    BY <2>3 DEF S
<1> QED
  BY <1>1, <1>2, <1>3, Zenon

\* c is the product of a and b modulo X^N + 1 and Q.
IsProduct(a, b, c) ==
    c \in [Idx -> Residues] /\ \A o \in Idx : Cong(c[o], Conv(a, b, N, -1, o))

\* At the root of the tree and at its leaves.
LEMMA RootAndLeaves ==
  ASSUME LogN \in 1..10
  PROVE  /\ 2 ^ 0 = 1 /\ 2 ^ (LogN - 0) = N /\ 2 ^ (LogN - LogN) = 1 /\ 2 ^ LogN = N
         /\ 0 \in 0..LogN /\ LogN \in 0..LogN /\ LogN \in Nat
<1>1. LogN - 0 = LogN /\ LogN - LogN = 0
  OBVIOUS
<1>2. 2 ^ (LogN - 0) = N /\ 2 ^ LogN = N
  BY <1>1, Zenon DEF N
<1>3. 2 ^ (LogN - LogN) = 1
  <2>1. 2 ^ 0 = 1
    BY Powers
  <2> QED
    BY <1>1, <2>1, Zenon
<1> QED
  BY <1>2, <1>3, Powers

\* The only block before the first stage is the polynomial; a block after the last is one entry.
LEMMA EndBlocks ==
  ASSUME LogN \in 1..10, NEW d \in [Idx -> Residues]
  PROVE  /\ Block(d, N, 0) = d
         /\ \A j \in Idx : Block(d, 1, j) \in Ints(1) /\ Block(d, 1, j)[0] = d[j] /\ d[j] \in Int
<1>1. N \in Nat /\ N >= 2
  BY Degree
<1>2. Block(d, N, 0) = d
  <2>1. \A i \in Idx : 0 * N + i = i
    BY <1>1 DEF Idx
  <2>2. Block(d, N, 0) = [i \in Idx |-> d[0 * N + i]]
    BY Zenon DEF Block, Idx
  <2>3. [i \in Idx |-> d[0 * N + i]] = [i \in Idx |-> d[i]]
    BY <2>1, Zenon
  <2>4. d = [i \in Idx |-> d[i]]
    OBVIOUS
  <2> QED
    BY <2>2, <2>3, <2>4, Zenon
<1>3. ASSUME NEW j \in Idx
      PROVE  Block(d, 1, j) \in Ints(1) /\ Block(d, 1, j)[0] = d[j] /\ d[j] \in Int
  <2>1. 0 \in 0..(1 - 1) /\ j * 1 + 0 = j
    BY <1>1 DEF Idx
  <2>2. d[j] \in Residues
    OBVIOUS
  <2>3. d[j] \in Int
    BY <2>2, QFacts DEF Residues
  <2>4. Block(d, 1, j)[0] = d[j * 1 + 0]
    BY <2>1, Zenon DEF Block
  <2>5. \A i \in 0..(1 - 1) : d[j * 1 + i] \in Int
    <3>1. \A i \in 0..(1 - 1) : j * 1 + i = j
      BY <1>1 DEF Idx
    <3> QED
      BY <2>3, <3>1, Zenon
  <2> QED
    BY <2>1, <2>3, <2>4, <2>5, Zenon DEF Block, Ints
<1> QED
  BY <1>2, <1>3, Zenon

\* The constant R2 of the code is 2^64: a product with it takes one factor 2^-32 away.
LEMMA SlotScale ==
  ASSUME Montgomery, Cong(R2, R * R), NEW p \in Residues
  PROVE  mq_mmul(p, R2) \in Residues /\ Cong(mq_mmul(p, R2), R * p)
<1> DEFINE e == mq_mmul(p, R2)
           rr == R * R
           pr == p * R2
           prr == p * rr
           u == R * e
           v == R * p
<1>1. R2 \in Residues /\ R2 \in Int
  BY ModulusAssumption DEF Residues
<1>2. p \in Int /\ rr \in Int
  BY QFacts, RInt DEF Residues
<1>3. e \in Residues /\ Cong(R * e, pr)
  BY <1>1, MulFacts
<1>4. e \in Int
  BY <1>3, QFacts DEF Residues
<1>5. pr \in Int /\ prr \in Int
  BY <1>1, <1>2
<1>6. Cong(pr, prr)
  <2> HIDE DEF rr
  <2> QED
    BY <1>1, <1>2, CongMul DEF rr
<1> HIDE DEF e
<1>7. prr = R * v /\ v \in Int /\ u \in Int /\ Cong(u, pr)
  BY <1>2, <1>3, <1>4, RInt
<1>8. Cong(u, prr)
  <2> HIDE DEF u, v, pr, prr
  <2> QED
    BY <1>5, <1>6, <1>7, CongTrans
<1>9. Cong(R * e, R * v)
  BY <1>7, <1>8, Zenon
<1>10. Cong(e, v)
  <2> HIDE DEF u, v, pr, prr
  <2> QED
    BY <1>4, <1>7, <1>9, CongR
<1> QED
  BY <1>3, <1>10, Zenon DEF e

\* So mqpoly_mul_ntt() multiplies slot by slot,
LEMMA SlotProduct ==
  ASSUME Montgomery, Cong(R2, R * R), NEW x \in Residues, NEW y \in Residues
  PROVE  /\ mq_mmul(mq_mmul(x, y), R2) \in Residues
         /\ Cong(mq_mmul(mq_mmul(x, y), R2), x * y)
<1> DEFINE p == mq_mmul(x, y)
           e == mq_mmul(p, R2)
           v == R * p
           xy == x * y
<1>1. p \in Residues /\ Cong(v, xy)
  BY MulFacts
<1>2. e \in Residues /\ Cong(e, v)
  BY <1>1, SlotScale, Zenon
<1>3. v \in Int /\ xy \in Int /\ e \in Int
  BY <1>1, <1>2, QFacts, RInt DEF Residues
<1> HIDE DEF e, v, xy
<1>4. Cong(e, xy)
  BY <1>1, <1>2, <1>3, CongTrans
<1> QED
  BY <1>2, <1>4, Zenon DEF e, p, xy

\* and the sum of two products before it is the sum of products.
LEMMA SlotSum ==
  ASSUME Montgomery, Cong(R2, R * R),
         NEW x \in Residues, NEW y \in Residues, NEW u \in Residues, NEW v \in Residues
  PROVE  LET e == mq_mmul(mq_add(mq_mmul(x, y), mq_mmul(u, v)), R2)
         IN  e \in Residues /\ Cong(e, x * y + u * v)
<1> DEFINE p == mq_mmul(x, y)
           r == mq_mmul(u, v)
           t == mq_add(p, r)
           e == mq_mmul(t, R2)
           xy == x * y
           uv == u * v
<1>1. p \in Residues /\ Cong(R * p, xy) /\ r \in Residues /\ Cong(R * r, uv)
  BY MulFacts
<1>2. xy \in Int /\ uv \in Int /\ p \in Int /\ r \in Int
  BY <1>1, QFacts DEF Residues
<1> HIDE DEF p, r, xy, uv
<1>3. t \in Residues /\ Cong(t, p + r)
  BY <1>1, AddFacts
<1>4. e \in Residues /\ Cong(e, R * t)
  BY <1>3, SlotScale, Zenon
<1>5. t \in Int /\ e \in Int
  BY <1>3, <1>4, QFacts DEF Residues
<1> HIDE DEF t, e
<1>6. Cong(R * t, R * (p + r))
  <2> DEFINE z == p + r
  <2>1. z \in Int /\ Cong(t, z)
    BY <1>2, <1>3
  <2> HIDE DEF z
  <2> QED
    BY <1>5, <2>1, RInt, CongMul DEF z
<1> DEFINE a == R * t
           b == R * (p + r)
           Rp == R * p
           Rr == R * r
           c == xy + uv
<1>7. a \in Int /\ b = Rp + Rr /\ Rp \in Int /\ Rr \in Int /\ c \in Int
  BY <1>2, <1>5, RInt
<1>8. Cong(Rp + Rr, c)
  <2>1. Cong(Rp, xy) /\ Cong(Rr, uv)
    BY <1>1
  <2> HIDE DEF Rp, Rr
  <2> QED
    BY <1>2, <1>7, <2>1, CongAdd
<1>9. b \in Int /\ Cong(e, a) /\ Cong(a, b) /\ Cong(b, c)
  BY <1>4, <1>6, <1>7, <1>8
<1> HIDE DEF a, b, c, Rp, Rr
<1>10. Cong(e, b)
  BY <1>5, <1>7, <1>9, CongTrans
<1>11. Cong(e, c)
  BY <1>5, <1>7, <1>9, <1>10, CongTrans
<1> QED
  BY <1>4, <1>11, Zenon DEF e, t, c, p, r, xy, uv

\* The transform of a product is the product of the transforms: after the last stage each block
\* is one entry, and the product at the leaf is that of two numbers.
THEOREM NttOfProduct ==
  ASSUME NegInverse, TablesInverse, TablesRoots, Cong(R2, R * R), LogN \in 1..10,
         NEW a \in [Idx -> Residues], NEW b \in [Idx -> Residues], NEW c, IsProduct(a, b, c)
  PROVE  int_to_ntt(c) = mul_ntt(int_to_ntt(a), int_to_ntt(b))
<1>0. Montgomery /\ c \in [Idx -> Residues]
  BY Reduces, Zenon DEF IsProduct
<1>1. PICK f : /\ int_to_ntt(a) = f[LogN] /\ f[0] = a
               /\ \A k \in 0..LogN : f[k] \in [Idx -> Residues]
               /\ \A k \in 0..(LogN - 1) : f[k + 1] = ForwardStage(f[k], k)
  BY <1>0, ForwardStages, Zenon
<1>2. PICK g : /\ int_to_ntt(b) = g[LogN] /\ g[0] = b
               /\ \A k \in 0..LogN : g[k] \in [Idx -> Residues]
               /\ \A k \in 0..(LogN - 1) : g[k + 1] = ForwardStage(g[k], k)
  BY <1>0, ForwardStages, Zenon
<1>3. PICK h : /\ int_to_ntt(c) = h[LogN] /\ h[0] = c
               /\ \A k \in 0..LogN : h[k] \in [Idx -> Residues]
               /\ \A k \in 0..(LogN - 1) : h[k + 1] = ForwardStage(h[k], k)
  BY <1>0, ForwardStages, Zenon
<1> DEFINE S == {k \in Nat : k \in 0..LogN => Multiplied(f[k], g[k], h[k], k)}
<1>4. 0 \in S
  <2>1. ASSUME NEW j \in 0..(2 ^ 0 - 1) PROVE j = 0 /\ 2 ^ 0 + j = 1
    <3> DEFINE m == 2 ^ 0
    <3>1. m = 1 /\ j \in 0..(m - 1)
      BY Powers
    <3> HIDE DEF m
    <3>2. j = 0 /\ m + j = 1
      BY <3>1
    <3> QED
      BY <3>2 DEF m
  <2>2. NodeValue(1) = -1
    BY Zenon DEF NodeValue
  <2>3. ProductMod(a, b, c, N, -1)
    BY Zenon DEF IsProduct, ProductMod, Idx
  <2>4. ProductMod(Block(a, N, 0), Block(b, N, 0), Block(c, N, 0), N, NodeValue(1))
    BY <1>0, <2>2, <2>3, EndBlocks, Zenon
  <2>5. Multiplied(a, b, c, 0)
    BY <2>1, <2>4, RootAndLeaves, Zenon DEF Multiplied
  <2> QED
    BY <1>1, <1>2, <1>3, <2>5
<1>5. ASSUME NEW k \in Nat, k \in S PROVE k + 1 \in S
  <2> SUFFICES ASSUME k + 1 \in 0..LogN PROVE Multiplied(f[k + 1], g[k + 1], h[k + 1], k + 1)
    OBVIOUS
  <2>1. k \in 0..LogN /\ k \in 0..(LogN - 1)
    OBVIOUS
  <2>2. Multiplied(f[k], g[k], h[k], k)
    BY <1>5, <2>1
  <2> HIDE DEF S
  <2>3. f[k] \in [Idx -> Residues] /\ g[k] \in [Idx -> Residues] /\ h[k] \in [Idx -> Residues]
    BY <1>1, <1>2, <1>3, <2>1, Zenon
  <2>4. Multiplied(ForwardStage(f[k], k), ForwardStage(g[k], k), ForwardStage(h[k], k), k + 1)
    BY <1>0, <2>1, <2>2, <2>3, StageMultiplied, Zenon
  <2>5. f[k + 1] = ForwardStage(f[k], k) /\ g[k + 1] = ForwardStage(g[k], k) /\ h[k + 1] = ForwardStage(h[k], k)
    BY <1>1, <1>2, <1>3, <2>1, Zenon
  <2> QED
    BY <2>4, <2>5, Zenon
<1>6. Multiplied(f[LogN], g[LogN], h[LogN], LogN)
  <2> HIDE DEF S
  <2>1. LogN \in S
    BY <1>4, <1>5, NatSetInduction, RootAndLeaves
  <2> QED
    BY <2>1, RootAndLeaves DEF S
<1> DEFINE A == int_to_ntt(a)
           B == int_to_ntt(b)
           C == int_to_ntt(c)
<1>7. /\ A \in [Idx -> Residues] /\ B \in [Idx -> Residues] /\ C \in [Idx -> Residues]
      /\ Multiplied(A, B, C, LogN)
  BY <1>1, <1>2, <1>3, <1>6, RootAndLeaves, Zenon
<1> HIDE DEF A, B, C
<1>8. ASSUME NEW j \in Idx PROVE C[j] = mq_mmul(mq_mmul(A[j], B[j]), R2)
  <2> DEFINE w == NodeValue(N + j)
             k == N + j
  <2>1. j \in 0..(N - 1) /\ N \in Nat /\ N >= 2
    BY Degree DEF Idx
  <2>2. ProductMod(Block(A, 1, j), Block(B, 1, j), Block(C, 1, j), 1, w)
    BY <1>7, <2>1, RootAndLeaves, Zenon DEF Multiplied
  <2>3. w \in Int
    <3> DEFINE p == k \div 2
    <3>1. p \in 1..(N - 1) /\ k # 1
      BY <2>1
    <3> HIDE DEF p
    <3>2. Root(p) \in Int
      BY <1>0, <3>1, RootFacts
    <3>3. -Root(p) \in Int
      BY <3>2
    <3> QED
      BY <3>1, <3>2, <3>3, Zenon DEF NodeValue, p
  <2>4. 0 \in 0..(1 - 1)
    OBVIOUS
  <2>5. Cong(Block(C, 1, j)[0], Conv(Block(A, 1, j), Block(B, 1, j), 1, w, 0))
    BY <2>2, <2>4, Zenon DEF ProductMod
  <2> HIDE DEF w
  <2>6. Cong(C[j], A[j] * B[j])
    <3>1. Conv(Block(A, 1, j), Block(B, 1, j), 1, w, 0) = Block(A, 1, j)[0] * Block(B, 1, j)[0]
      BY <1>7, <2>3, EndBlocks, ConvOne, Zenon
    <3> QED
      BY <1>7, <2>5, <3>1, EndBlocks, Zenon
  <2> DEFINE x == A[j]
             y == B[j]
             z == C[j]
             e == mq_mmul(mq_mmul(x, y), R2)
  <2>7. x \in Residues /\ y \in Residues /\ z \in Residues
    BY <1>7
  <2>8. e \in Residues /\ Cong(e, x * y)
    BY <1>0, <2>7, SlotProduct, Zenon
  <2>9. Cong(z, x * y)
    BY <2>6
  <2> HIDE DEF x, y, z, e
  <2>10. x \in Int /\ y \in Int /\ z \in Int /\ e \in Int
    BY <2>7, <2>8, QFacts DEF Residues
  <2> DEFINE p == x * y
  <2>11. p \in Int /\ Cong(e, p) /\ Cong(z, p)
    BY <2>8, <2>9, <2>10
  <2> HIDE DEF p
  <2>12. Cong(z, e)
    BY <2>10, <2>11, CongSym, CongTrans
  <2>13. z = e
    BY <2>7, <2>8, <2>12, CongResidues
  <2> QED
    BY <2>13 DEF z, e, x, y
<1>9. C = [j \in Idx |-> mq_mmul(mq_mmul(A[j], B[j]), R2)]
  <2>1. C = [j \in Idx |-> C[j]]
    BY <1>7
  <2> QED
    BY <1>8, <2>1, Zenon
<1> QED
  BY <1>9, Zenon DEF A, B, C, mul_ntt

\* mqpoly_ntt_to_int() of a product of NTT values is the product modulo X^N + 1.
THEOREM NttMultiply ==
  ASSUME NegInverse, TablesInverse, TablesRoots, Cong(R2, R * R), LogN \in 1..10,
         NEW a \in [Idx -> Residues], NEW b \in [Idx -> Residues], NEW c, IsProduct(a, b, c)
  PROVE  ntt_to_int(mul_ntt(int_to_ntt(a), int_to_ntt(b))) = c
<1>1. c \in [Idx -> Residues]
  BY Zenon DEF IsProduct
<1> QED
  BY <1>1, NttInverse, NttOfProduct, Zenon

-----------------------------------------------------------------------------
\* The roots of two nodes that mirror each other on a level multiply to -1.
TablesMirror ==
    \A lm \in 0..(LogN - 1) : \A j \in 0..(2 ^ lm - 1) :
        Cong(GM[2 ^ lm + j] * GM[2 ^ lm + (2 ^ lm - 1 - j)], -(R * R))

\* c is b(1/X) modulo X^len - v, where b is modulo X^len - w and v * w is 1.
AdjMod(b, c, len, w) ==
    /\ Cong(c[0], b[0])
    /\ \A o \in 1..(len - 1) : Cong(c[o], w * b[len - o])

\* A sum and a product of congruent numbers.
LEMMA CongLinear ==
  ASSUME NEW x \in Int, NEW y \in Int, NEW s \in Int, NEW u \in Int, NEW v \in Int, NEW r \in Int,
         Cong(x, u), Cong(y, v), Cong(s, r)
  PROVE  Cong(x + s * y, u + r * v)
<1> DEFINE a == s * y
           b == r * v
<1>1. a \in Int /\ b \in Int /\ Cong(a, b)
  BY CongProduct
<1> HIDE DEF a, b
<1>2. Cong(x + a, u + b)
  BY <1>1, CongAdd
<1> QED
  BY <1>2 DEF a, b

\* The adjoint under reduction: b modulo X^h - r and c modulo X^h - s, where r^2 is the value of
\* b's node and r * s is 1.
LEMMA AdjReduced ==
  ASSUME NEW h \in Nat, h >= 1, NEW b \in Ints(2 * h), NEW c \in Ints(2 * h),
         NEW b1 \in Ints(h), NEW c1 \in Ints(h), NEW s \in Int, NEW r \in Int, NEW w \in Int,
         Cong(r * r, w), Cong(s * r, 1), Reduced(c, c1, h, s), Reduced(b, b1, h, r),
         AdjMod(b, c, 2 * h, w)
  PROVE  AdjMod(b1, c1, h, r)
\* s * w is r.
<1>1. s * w \in Int /\ Cong(s * w, r)
  <2> DEFINE rr == r * r
             sr == s * r
             a == s * rr
             e == s * w
             o == 1
             f == r * sr
             g == r * o
  <2>1. rr \in Int /\ sr \in Int /\ a \in Int /\ e \in Int /\ a = f /\ g = r /\ g \in Int /\ o \in Int
    OBVIOUS
  <2>2. Cong(rr, w) /\ Cong(sr, o)
    OBVIOUS
  <2>3. Cong(a, e)
    <3> HIDE DEF rr
    <3> QED
      BY <2>1, <2>2, CongMul
  <2>4. Cong(f, g)
    <3> HIDE DEF sr, o
    <3> QED
      BY <2>1, <2>2, CongMul
  <2>5. Cong(e, a) /\ Cong(a, r)
    <3> HIDE DEF a, e, f, g, rr, sr, o
    <3> QED
      BY <2>1, <2>3, <2>4, CongSym
  <2> HIDE DEF a, e, f, g, rr, sr, o
  <2>6. Cong(e, r)
    BY <2>1, <2>5, CongTrans
  <2> QED
    BY <2>1, <2>6 DEF e
<1> DEFINE sw == s * w
<1>2. Cong(s, s)
  BY CongSelf
\* What entry o of c1 is, from the entries o and o + h of c.
<1>3. ASSUME NEW x \in Int, NEW y \in Int, NEW p \in Int, NEW z \in Int, NEW e \in Int,
             Cong(e, p + s * z), Cong(p, x), Cong(z, w * y)
      PROVE  Cong(e, x + r * y)
  <2> DEFINE wy == w * y
             m == p + s * z
             n == x + s * wy
             l == x + r * y
  <2>1. wy \in Int /\ m \in Int /\ n \in Int /\ l \in Int /\ n = x + sw * y
    OBVIOUS
  <2>2. Cong(m, n)
    <3>1. Cong(z, wy)
      BY <1>3
    <3> HIDE DEF wy
    <3> QED
      BY <1>2, <1>3, <2>1, <3>1, CongLinear
  <2>3. Cong(n, l)
    <3>1. Cong(x, x) /\ Cong(y, y) /\ sw \in Int /\ Cong(sw, r)
      BY <1>1, CongSelf
    <3> HIDE DEF sw, n
    <3>2. Cong(x + sw * y, l)
      BY <3>1, CongLinear
    <3> QED
      BY <2>1, <3>2, Zenon
  <2>4. Cong(e, m)
    BY <1>3
  <2> HIDE DEF m, n, l, wy
  <2>5. Cong(e, n)
    BY <1>3, <2>1, <2>2, <2>4, CongTrans
  <2>6. Cong(e, l)
    BY <1>3, <2>1, <2>3, <2>5, CongTrans
  <2> QED
    BY <2>6 DEF l
<1>4. Cong(c1[0], b1[0])
  <2> DEFINE x == b[0]
             y == b[h]
             p == c[0]
             z == c[h]
             e == c1[0]
             d == b1[0]
  <2>1. 0 \in 0..(h - 1) /\ 0 \in 0..(2 * h - 1) /\ h \in 0..(2 * h - 1) /\ h \in 1..(2 * h - 1)
        /\ 0 + h = h /\ 2 * h - h = h
    OBVIOUS
  <2>2. x \in Int /\ y \in Int /\ p \in Int /\ z \in Int /\ e \in Int /\ d \in Int
    BY <2>1, Zenon DEF Ints
  <2>3. Cong(e, p + s * z) /\ Cong(d, x + r * y)
    BY <2>1, Zenon DEF Reduced
  <2>4. Cong(p, x) /\ Cong(z, w * y)
    BY <2>1, Zenon DEF AdjMod
  <2> HIDE DEF x, y, p, z, e, d
  <2>5. Cong(e, x + r * y)
    BY <1>3, <2>2, <2>3, <2>4
  <2> DEFINE l == x + r * y
  <2>6. l \in Int /\ Cong(e, l) /\ Cong(d, l)
    BY <2>2, <2>3, <2>5
  <2> HIDE DEF l
  <2>7. Cong(e, d)
    BY <2>2, <2>6, CongSym, CongTrans
  <2> QED
    BY <2>7 DEF e, d
<1>5. ASSUME NEW o \in 1..(h - 1) PROVE Cong(c1[o], r * b1[h - o])
  <2> DEFINE i == h - o
             x == b[i]
             y == b[i + h]
             p == c[o]
             z == c[o + h]
             e == c1[o]
             d == b1[i]
             wy == w * y
  <2>1. /\ i \in 0..(h - 1) /\ i \in 0..(2 * h - 1) /\ i + h \in 0..(2 * h - 1)
        /\ o \in 0..(h - 1) /\ o \in 0..(2 * h - 1) /\ o + h \in 0..(2 * h - 1)
        /\ o \in 1..(2 * h - 1) /\ o + h \in 1..(2 * h - 1)
        /\ 2 * h - o = i + h /\ 2 * h - (o + h) = i
    OBVIOUS
  <2> HIDE DEF i
  <2>2. x \in Int /\ y \in Int /\ p \in Int /\ z \in Int /\ e \in Int /\ d \in Int
    BY <2>1, Zenon DEF Ints
  <2>3. Cong(e, p + s * z) /\ Cong(d, x + r * y)
    BY <2>1, Zenon DEF Reduced
  <2>4. Cong(p, wy) /\ Cong(z, w * x)
    <3>1. Cong(c[o], w * b[2 * h - o]) /\ Cong(c[o + h], w * b[2 * h - (o + h)])
      BY <2>1, Zenon DEF AdjMod
    <3> QED
      BY <2>1, <3>1, Zenon
  <2> HIDE DEF x, y, p, z, e, d
  <2>5. wy \in Int
    BY <2>2
  <2>6. Cong(e, wy + r * x)
    <3> HIDE DEF wy
    <3> QED
      BY <1>3, <2>2, <2>3, <2>4, <2>5
  \* r * d is r * x + r^2 * y.
  <2> DEFINE l == x + r * y
             rr == r * r
             rx == r * x
             m == rx + rr * y
             n == wy + rx
             rd == r * d
  <2>7. l \in Int /\ rr \in Int /\ rx \in Int /\ m \in Int /\ n \in Int /\ rd \in Int /\ r * l = m
        /\ n = rx + w * y
    BY <2>2, <2>5
  <2>8. Cong(rd, m)
    <3>1. Cong(d, l)
      BY <2>3
    <3> HIDE DEF l, m
    <3>2. Cong(r * d, r * l)
      BY <2>2, <2>7, <3>1, CongMul
    <3> QED
      BY <2>7, <3>2, Zenon
  <2>9. Cong(m, n)
    <3>1. Cong(rx, rx) /\ Cong(y, y) /\ Cong(rr, w)
      BY <2>2, <2>7, CongSelf
    <3> HIDE DEF rx, rr, n
    <3>2. Cong(rx + rr * y, rx + w * y)
      BY <2>2, <2>7, <3>1, CongLinear
    <3> QED
      BY <2>7, <3>2, Zenon
  <2>10. Cong(e, n)
    BY <2>6
  <2> HIDE DEF m, n, rd, l, rr, rx, wy
  <2>11. Cong(rd, n)
    BY <2>7, <2>8, <2>9, CongTrans
  <2>12. Cong(n, rd)
    BY <2>7, <2>11, CongSym
  <2>13. Cong(e, rd)
    BY <2>2, <2>7, <2>10, <2>12, CongTrans
  <2> QED
    BY <2>13, Zenon DEF rd, e, d, i
<1> QED
  BY <1>4, <1>5, Zenon DEF AdjMod

\* c is a + b.
Summed(a, b, c, len) == \A o \in 0..(len - 1) : Cong(c[o], a[o] + b[o])

\* Sums under reduction.
LEMMA SumReduced ==
  ASSUME NEW h \in Nat, NEW a \in Ints(2 * h), NEW b \in Ints(2 * h), NEW c \in Ints(2 * h),
         NEW a1 \in Ints(h), NEW b1 \in Ints(h), NEW c1 \in Ints(h), NEW s \in Int,
         Reduced(a, a1, h, s), Reduced(b, b1, h, s), Reduced(c, c1, h, s), Summed(a, b, c, 2 * h)
  PROVE  Summed(a1, b1, c1, h)
<1> SUFFICES ASSUME NEW o \in 0..(h - 1) PROVE Cong(c1[o], a1[o] + b1[o])
  BY DEF Summed
<1> DEFINE x == a[o]
           y == a[o + h]
           u == b[o]
           v == b[o + h]
           p == c[o]
           z == c[o + h]
           d == a1[o]
           e == b1[o]
           f == c1[o]
<1>1. o \in 0..(2 * h - 1) /\ o + h \in 0..(2 * h - 1)
  OBVIOUS
<1>2. /\ x \in Int /\ y \in Int /\ u \in Int /\ v \in Int /\ p \in Int /\ z \in Int
      /\ d \in Int /\ e \in Int /\ f \in Int
  BY <1>1, Zenon DEF Ints
<1>3. Cong(d, x + s * y) /\ Cong(e, u + s * v) /\ Cong(f, p + s * z)
  BY Zenon DEF Reduced
<1>4. Cong(p, x + u) /\ Cong(z, y + v)
  BY <1>1, Zenon DEF Summed
<1> HIDE DEF x, y, u, v, p, z, d, e, f
<1> DEFINE k == x + s * y
           l == u + s * v
           m == p + s * z
           g == x + u
           j == y + v
           n == g + s * j
           de == d + e
<1>5. k \in Int /\ l \in Int /\ m \in Int /\ g \in Int /\ j \in Int /\ n \in Int /\ n = k + l /\ de \in Int
  BY <1>2
<1>6. Cong(de, n)
  <2>1. Cong(d, k) /\ Cong(e, l)
    BY <1>3
  <2> HIDE DEF k, l, n
  <2>2. Cong(d + e, k + l)
    BY <1>2, <1>5, <2>1, CongAdd
  <2> QED
    BY <1>5, <2>2, Zenon
<1>7. Cong(m, n)
  <2>1. Cong(s, s) /\ Cong(p, g) /\ Cong(z, j)
    BY <1>4, CongSelf
  <2> HIDE DEF g, j
  <2> QED
    BY <1>2, <1>5, <2>1, CongLinear
<1>8. Cong(f, m)
  BY <1>3
<1> HIDE DEF m, n, de
<1>9. Cong(f, n) /\ Cong(n, de)
  BY <1>2, <1>5, <1>6, <1>7, <1>8, CongTrans, CongSym
<1>10. Cong(f, de)
  BY <1>2, <1>5, <1>9, CongTrans
<1> QED
  BY <1>10, Zenon DEF f, de, d, e

\* After lm stages, every block of c is the adjoint of the block of b that mirrors it.
Mirrored(b, c, lm) ==
    \A j \in 0..(2 ^ lm - 1) :
        AdjMod(Block(b, 2 ^ (LogN - lm), 2 ^ lm - 1 - j), Block(c, 2 ^ (LogN - lm), j),
               2 ^ (LogN - lm), NodeValue(2 ^ lm + (2 ^ lm - 1 - j)))

\* The roots of mirrored nodes, with one sign changed, are inverse to each other.
LEMMA MirrorRoots ==
  ASSUME Montgomery, TablesInverse, TablesMirror, NEW lm \in 0..(LogN - 1), NEW j \in 0..(2 ^ lm - 1),
         NEW i, i = 2 ^ lm - 1 - j, 2 ^ lm + j \in 1..(N - 1), 2 ^ lm + i \in 1..(N - 1)
  PROVE  LET s == Root(2 ^ lm + j)
             r == Root(2 ^ lm + i)
         IN  Cong(s * (-r), 1) /\ Cong((-s) * r, 1)
<1> DEFINE k == 2 ^ lm + j
           l == 2 ^ lm + i
           s == Root(k)
           r == Root(l)
           e == s * r
           o == -1
           z == 0
<1>1. k \in 1..(N - 1) /\ l \in 1..(N - 1) /\ Cong(GM[k] * GM[l], -(R * R))
  BY Zenon DEF TablesMirror
<1> HIDE DEF k, l
<1>2. -(R * R) = R * (R * o) /\ o \in Int /\ z \in Int
  BY RInt
<1>3. s \in Int /\ r \in Int
  BY <1>1, RootFacts
<1>4. Cong(e, o)
  <2>1. Cong(GM[k] * GM[l], R * (R * o))
    BY <1>1, <1>2, Zenon
  <2> HIDE DEF o
  <2> QED
    BY <1>1, <1>2, <2>1, RootProduct, Zenon
<1> HIDE DEF s, r
<1>5. e \in Int /\ s * (-r) = z - e /\ (-s) * r = z - e /\ z - o = 1
  BY <1>3
<1>6. Cong(z - e, z - o)
  <2>1. Cong(z, z)
    BY <1>2, CongSelf
  <2> HIDE DEF e, o, z
  <2> QED
    BY <1>2, <1>4, <1>5, <2>1, CongAdd
<1> HIDE DEF e, o, z
<1>7. Cong(s * (-r), 1) /\ Cong((-s) * r, 1)
  BY <1>5, <1>6, Zenon
<1> QED
  BY <1>7, Zenon DEF s, r, k, l

\* A stage keeps adjoints.
LEMMA StageMirrored ==
  ASSUME Montgomery, TablesInverse, TablesRoots, TablesMirror, LogN \in 1..10, NEW lm \in 0..(LogN - 1),
         NEW b \in [Idx -> Residues], NEW c \in [Idx -> Residues], Mirrored(b, c, lm)
  PROVE  Mirrored(ForwardStage(b, lm), ForwardStage(c, lm), lm + 1)
<1> DEFINE m == 2 ^ lm
           t == 2 ^ (LogN - lm)
           h == 2 ^ (LogN - 1 - lm)
           B == ForwardStage(b, lm)
           C == ForwardStage(c, lm)
           G(k) == AdjMod(Block(B, h, 2 * m - 1 - k), Block(C, h, k), h, NodeValue(2 * m + (2 * m - 1 - k)))
           P == {k \in Nat : G(k)}
<1>1. lm \in 0..LogN
  OBVIOUS
<1>2. B \in [Idx -> Residues] /\ C \in [Idx -> Residues]
  BY StageInverse
<1>3. ASSUME NEW j \in 0..(m - 1) PROVE 2 * j \in P /\ 2 * j + 1 \in P
  <2> DEFINE i == m - 1 - j
             s == Root(m + j)
             ns == -s
             w == NodeValue(m + j)
             r == Root(m + i)
             nr == -r
             v == NodeValue(m + i)
             y == Block(b, t, i)
             z == Block(c, t, j)
             j0 == 2 * j
             j1 == 2 * j + 1
             i0 == 2 * i
             i1 == 2 * i + 1
  <2>1. i \in 0..(m - 1) /\ 2 * m - 1 - j0 = i1 /\ 2 * m - 1 - j1 = i0
    <3>1. m \in Nat /\ j \in 0..(m - 1)
      <4>1. lm \in 0..24
        OBVIOUS
      <4> QED
        BY <4>1, PowerNat
    <3> HIDE DEF m
    <3> QED
      BY <3>1
  <2>2. AdjMod(y, z, t, v)
    BY Zenon DEF Mirrored
  <2> HIDE DEF i
  <2>3. y \in Ints(t) /\ z \in Ints(t)
    BY <1>1, <2>1, BlockResidues, Zenon
  <2>4. /\ Reduced(y, Block(B, h, i0), h, r) /\ Reduced(y, Block(B, h, i1), h, nr)
        /\ Reduced(z, Block(C, h, j0), h, s) /\ Reduced(z, Block(C, h, j1), h, ns)
    BY <2>1, StageReduces, Zenon
  <2>5. NodeOf(m, t, h, j, s, w) /\ NodeOf(m, t, h, i, r, v)
    BY <2>1, Nodes
  <2> HIDE DEF B, C
  <2>6. /\ Block(B, h, i0) \in Ints(h) /\ Block(B, h, i1) \in Ints(h)
        /\ Block(C, h, j0) \in Ints(h) /\ Block(C, h, j1) \in Ints(h)
    BY <1>2, <2>1, ChildBlocks, Zenon
  <2>7. Cong(s * nr, 1) /\ Cong(ns * r, 1)
    <3>1. m + j \in 1..(N - 1) /\ m + i \in 1..(N - 1)
      BY <2>5, Zenon DEF NodeOf
    <3> QED
      BY <3>1, MirrorRoots, Zenon DEF i
  <2> HIDE DEF y, z, s, w, r, v, t, h, m, i0, i1, j0, j1
  <2>8. /\ t = 2 * h /\ h \in Nat /\ h >= 1 /\ s \in Int /\ ns \in Int /\ v \in Int /\ r \in Int /\ nr \in Int
        /\ Cong(r * r, v) /\ Cong(nr * nr, v) /\ j0 \in Nat /\ j1 \in Nat
        /\ NodeValue(2 * m + i0) = r /\ NodeValue(2 * m + i1) = nr
    BY <2>5, Zenon DEF NodeOf, i0, i1, j0, j1
  <2> HIDE DEF ns, nr
  <2>9. AdjMod(Block(B, h, i1), Block(C, h, j0), h, nr)
    BY <2>2, <2>3, <2>4, <2>6, <2>7, <2>8, AdjReduced, Zenon
  <2>10. AdjMod(Block(B, h, i0), Block(C, h, j1), h, r)
    BY <2>2, <2>3, <2>4, <2>6, <2>7, <2>8, AdjReduced, Zenon
  <2>11. j0 \in P /\ j1 \in P
    BY <2>1, <2>8, <2>9, <2>10, Zenon
  <2> QED
    BY <2>11 DEF j0, j1
<1> HIDE DEF P, B, C, h
<1>4. /\ LogN - (lm + 1) = LogN - 1 - lm /\ 2 ^ (lm + 1) = 2 * m
      /\ 0..(2 ^ (lm + 1) - 1) \subseteq P
  BY <1>3, Children, Zenon DEF m
<1>5. \A k \in 0..(2 ^ (lm + 1) - 1) : G(k)
  BY <1>4, Zenon DEF P
<1> HIDE DEF m
<1> QED
  BY <1>4, <1>5, Zenon DEF Mirrored, B, C, h

\* After lm stages, every block of c is the sum of those of a and b.
Added(a, b, c, lm) ==
    \A j \in 0..(2 ^ lm - 1) :
        Summed(Block(a, 2 ^ (LogN - lm), j), Block(b, 2 ^ (LogN - lm), j),
               Block(c, 2 ^ (LogN - lm), j), 2 ^ (LogN - lm))

\* A stage keeps sums.
LEMMA StageAdded ==
  ASSUME Montgomery, TablesInverse, TablesRoots, LogN \in 1..10, NEW lm \in 0..(LogN - 1),
         NEW a \in [Idx -> Residues], NEW b \in [Idx -> Residues], NEW c \in [Idx -> Residues],
         Added(a, b, c, lm)
  PROVE  Added(ForwardStage(a, lm), ForwardStage(b, lm), ForwardStage(c, lm), lm + 1)
<1> DEFINE m == 2 ^ lm
           t == 2 ^ (LogN - lm)
           h == 2 ^ (LogN - 1 - lm)
           A == ForwardStage(a, lm)
           B == ForwardStage(b, lm)
           C == ForwardStage(c, lm)
           G(k) == Summed(Block(A, h, k), Block(B, h, k), Block(C, h, k), h)
           P == {k \in Nat : G(k)}
<1>1. lm \in 0..LogN
  OBVIOUS
<1>2. A \in [Idx -> Residues] /\ B \in [Idx -> Residues] /\ C \in [Idx -> Residues]
  BY StageInverse
<1>3. ASSUME NEW j \in 0..(m - 1) PROVE 2 * j \in P /\ 2 * j + 1 \in P
  <2> DEFINE s == Root(m + j)
             r == -s
             w == NodeValue(m + j)
             x == Block(a, t, j)
             y == Block(b, t, j)
             z == Block(c, t, j)
             u == 2 * j
             v == 2 * j + 1
  <2>1. Summed(x, y, z, t)
    BY DEF Added
  <2>2. x \in Ints(t) /\ y \in Ints(t) /\ z \in Ints(t)
    BY <1>1, BlockResidues, Zenon
  <2>3. /\ Reduced(x, Block(A, h, u), h, s) /\ Reduced(x, Block(A, h, v), h, r)
        /\ Reduced(y, Block(B, h, u), h, s) /\ Reduced(y, Block(B, h, v), h, r)
        /\ Reduced(z, Block(C, h, u), h, s) /\ Reduced(z, Block(C, h, v), h, r)
    BY StageReduces, Zenon
  <2>4. NodeOf(m, t, h, j, s, w)
    BY Nodes
  <2> HIDE DEF A, B, C
  <2>5. /\ Block(A, h, u) \in Ints(h) /\ Block(B, h, u) \in Ints(h) /\ Block(C, h, u) \in Ints(h)
        /\ Block(A, h, v) \in Ints(h) /\ Block(B, h, v) \in Ints(h) /\ Block(C, h, v) \in Ints(h)
    BY <1>2, ChildBlocks, Zenon
  <2> HIDE DEF x, y, z, s, w, t, h, m, u, v
  <2>6. t = 2 * h /\ h \in Nat /\ s \in Int /\ r \in Int /\ u \in Nat /\ v \in Nat
    BY <2>4, Zenon DEF NodeOf, u, v
  <2> HIDE DEF r
  <2>7. G(u) /\ G(v)
    <3>1. Summed(Block(A, h, u), Block(B, h, u), Block(C, h, u), h)
      BY <2>1, <2>2, <2>3, <2>5, <2>6, SumReduced, Zenon
    <3>2. Summed(Block(A, h, v), Block(B, h, v), Block(C, h, v), h)
      BY <2>1, <2>2, <2>3, <2>5, <2>6, SumReduced, Zenon
    <3> QED
      BY <3>1, <3>2
  <2>8. u \in P /\ v \in P
    BY <2>6, <2>7, Zenon
  <2> QED
    BY <2>8 DEF u, v
<1> HIDE DEF P, A, B, C, h
<1>4. /\ LogN - (lm + 1) = LogN - 1 - lm /\ 2 ^ (lm + 1) = 2 * m
      /\ 0..(2 ^ (lm + 1) - 1) \subseteq P
  BY <1>3, Children, Zenon DEF m
<1>5. \A k \in 0..(2 ^ (lm + 1) - 1) : G(k)
  BY <1>4, Zenon DEF P
<1> HIDE DEF m
<1> QED
  BY <1>4, <1>5, Zenon DEF Added, A, B, C, h

\* c is b(1/X) modulo X^N + 1.
IsAdjoint(b, c) == c \in [Idx -> Residues] /\ AdjMod(b, c, N, -1)

\* c is a + b.
IsSum(a, b, c) == c \in [Idx -> Residues] /\ Summed(a, b, c, N)

\* The node of the root, and the only block there.
LEMMA OnlyRoot ==
  ASSUME NEW j \in 0..(2 ^ 0 - 1)
  PROVE  /\ j = 0 /\ 2 ^ 0 - 1 - j = 0 /\ 2 ^ 0 + (2 ^ 0 - 1 - j) = 1 /\ NodeValue(1) = -1
<1> DEFINE m == 2 ^ 0
<1>1. m = 1 /\ j \in 0..(m - 1)
  BY Powers
<1> HIDE DEF m
<1>2. j = 0 /\ m - 1 - j = 0 /\ m + (m - 1 - j) = 1
  <2>1. j \in 0..0
    BY <1>1
  <2>2. j = 0
    BY <2>1
  <2> QED
    BY <1>1, <2>2
<1>3. NodeValue(1) = -1
  BY Zenon DEF NodeValue
<1> QED
  BY <1>2, <1>3 DEF m

\* The NTT of the adjoint is the NTT read backwards: this is what the muladj functions rely on.
THEOREM NttOfAdjoint ==
  ASSUME NegInverse, TablesInverse, TablesRoots, TablesMirror, LogN \in 1..10,
         NEW b \in [Idx -> Residues], NEW c, IsAdjoint(b, c)
  PROVE  int_to_ntt(c) = [j \in Idx |-> int_to_ntt(b)[N - 1 - j]]
<1>0. Montgomery /\ c \in [Idx -> Residues] /\ AdjMod(b, c, N, -1)
  BY Reduces, Zenon DEF IsAdjoint
<1>1. PICK f : /\ int_to_ntt(b) = f[LogN] /\ f[0] = b
               /\ \A k \in 0..LogN : f[k] \in [Idx -> Residues]
               /\ \A k \in 0..(LogN - 1) : f[k + 1] = ForwardStage(f[k], k)
  BY <1>0, ForwardStages, Zenon
<1>2. PICK g : /\ int_to_ntt(c) = g[LogN] /\ g[0] = c
               /\ \A k \in 0..LogN : g[k] \in [Idx -> Residues]
               /\ \A k \in 0..(LogN - 1) : g[k + 1] = ForwardStage(g[k], k)
  BY <1>0, ForwardStages, Zenon
<1> DEFINE S == {k \in Nat : k \in 0..LogN => Mirrored(f[k], g[k], k)}
<1>3. 0 \in S
  <2>1. AdjMod(Block(b, N, 0), Block(c, N, 0), N, NodeValue(1))
    <3>1. NodeValue(1) = -1
      BY Zenon DEF NodeValue
    <3> QED
      BY <1>0, <3>1, EndBlocks, Zenon
  <2>2. Mirrored(b, c, 0)
    BY <2>1, OnlyRoot, RootAndLeaves, Zenon DEF Mirrored
  <2> QED
    BY <1>1, <1>2, <2>2
<1>4. ASSUME NEW k \in Nat, k \in S PROVE k + 1 \in S
  <2> SUFFICES ASSUME k + 1 \in 0..LogN PROVE Mirrored(f[k + 1], g[k + 1], k + 1)
    OBVIOUS
  <2>1. k \in 0..LogN /\ k \in 0..(LogN - 1)
    OBVIOUS
  <2>2. Mirrored(f[k], g[k], k)
    BY <1>4, <2>1
  <2> HIDE DEF S
  <2>3. f[k] \in [Idx -> Residues] /\ g[k] \in [Idx -> Residues]
    BY <1>1, <1>2, <2>1, Zenon
  <2>4. Mirrored(ForwardStage(f[k], k), ForwardStage(g[k], k), k + 1)
    BY <1>0, <2>1, <2>2, <2>3, StageMirrored, Zenon
  <2> QED
    BY <1>1, <1>2, <2>1, <2>4, Zenon
<1> DEFINE B == int_to_ntt(b)
           C == int_to_ntt(c)
<1>5. B \in [Idx -> Residues] /\ C \in [Idx -> Residues] /\ Mirrored(B, C, LogN)
  <2> HIDE DEF S
  <2>1. LogN \in S
    BY <1>3, <1>4, NatSetInduction, RootAndLeaves
  <2>2. Mirrored(f[LogN], g[LogN], LogN)
    BY <2>1, RootAndLeaves DEF S
  <2> QED
    BY <1>1, <1>2, <2>2, RootAndLeaves, Zenon
<1> HIDE DEF B, C
<1>6. ASSUME NEW j \in Idx PROVE C[j] = B[N - 1 - j]
  <2> DEFINE i == N - 1 - j
  <2>1. j \in 0..(N - 1) /\ i \in Idx
    BY Degree DEF Idx
  <2>2. AdjMod(Block(B, 1, i), Block(C, 1, j), 1, NodeValue(N + i))
    BY <1>5, <2>1, RootAndLeaves, Zenon DEF Mirrored
  <2>3. Cong(Block(C, 1, j)[0], Block(B, 1, i)[0])
    BY <2>2, Zenon DEF AdjMod
  <2> HIDE DEF i
  <2>4. Cong(C[j], B[i])
    BY <1>5, <2>1, <2>3, EndBlocks, Zenon
  <2>5. C[j] = B[i]
    BY <1>5, <2>1, <2>4, CongResidues
  <2> QED
    BY <2>5 DEF i
<1>7. C = [j \in Idx |-> B[N - 1 - j]]
  <2>1. C = [j \in Idx |-> C[j]]
    BY <1>5
  <2> QED
    BY <1>6, <2>1, Zenon
<1> QED
  BY <1>7 DEF B, C

\* The NTT of a sum is the sum of the NTTs.
LEMMA NttOfSum ==
  ASSUME NegInverse, TablesInverse, TablesRoots, LogN \in 1..10,
         NEW a \in [Idx -> Residues], NEW b \in [Idx -> Residues], NEW c, IsSum(a, b, c)
  PROVE  /\ int_to_ntt(c) \in [Idx -> Residues]
         /\ \A j \in Idx : Cong(int_to_ntt(c)[j], int_to_ntt(a)[j] + int_to_ntt(b)[j])
<1>0. Montgomery /\ c \in [Idx -> Residues] /\ Summed(a, b, c, N)
  BY Reduces, Zenon DEF IsSum
<1>1. PICK f : /\ int_to_ntt(a) = f[LogN] /\ f[0] = a
               /\ \A k \in 0..LogN : f[k] \in [Idx -> Residues]
               /\ \A k \in 0..(LogN - 1) : f[k + 1] = ForwardStage(f[k], k)
  BY <1>0, ForwardStages, Zenon
<1>2. PICK g : /\ int_to_ntt(b) = g[LogN] /\ g[0] = b
               /\ \A k \in 0..LogN : g[k] \in [Idx -> Residues]
               /\ \A k \in 0..(LogN - 1) : g[k + 1] = ForwardStage(g[k], k)
  BY <1>0, ForwardStages, Zenon
<1>3. PICK h : /\ int_to_ntt(c) = h[LogN] /\ h[0] = c
               /\ \A k \in 0..LogN : h[k] \in [Idx -> Residues]
               /\ \A k \in 0..(LogN - 1) : h[k + 1] = ForwardStage(h[k], k)
  BY <1>0, ForwardStages, Zenon
<1> DEFINE S == {k \in Nat : k \in 0..LogN => Added(f[k], g[k], h[k], k)}
<1>4. 0 \in S
  <2>1. Summed(Block(a, N, 0), Block(b, N, 0), Block(c, N, 0), N)
    BY <1>0, EndBlocks, Zenon
  <2>2. Added(a, b, c, 0)
    BY <2>1, OnlyRoot, RootAndLeaves, Zenon DEF Added
  <2> QED
    BY <1>1, <1>2, <1>3, <2>2
<1>5. ASSUME NEW k \in Nat, k \in S PROVE k + 1 \in S
  <2> SUFFICES ASSUME k + 1 \in 0..LogN PROVE Added(f[k + 1], g[k + 1], h[k + 1], k + 1)
    OBVIOUS
  <2>1. k \in 0..LogN /\ k \in 0..(LogN - 1)
    OBVIOUS
  <2>2. Added(f[k], g[k], h[k], k)
    BY <1>5, <2>1
  <2> HIDE DEF S
  <2>3. f[k] \in [Idx -> Residues] /\ g[k] \in [Idx -> Residues] /\ h[k] \in [Idx -> Residues]
    BY <1>1, <1>2, <1>3, <2>1, Zenon
  <2>4. Added(ForwardStage(f[k], k), ForwardStage(g[k], k), ForwardStage(h[k], k), k + 1)
    BY <1>0, <2>1, <2>2, <2>3, StageAdded, Zenon
  <2> QED
    BY <1>1, <1>2, <1>3, <2>1, <2>4, Zenon
<1> DEFINE A == int_to_ntt(a)
           B == int_to_ntt(b)
           C == int_to_ntt(c)
<1>6. /\ A \in [Idx -> Residues] /\ B \in [Idx -> Residues] /\ C \in [Idx -> Residues]
      /\ Added(A, B, C, LogN)
  <2> HIDE DEF S
  <2>1. LogN \in S
    BY <1>4, <1>5, NatSetInduction, RootAndLeaves
  <2>2. Added(f[LogN], g[LogN], h[LogN], LogN)
    BY <2>1, RootAndLeaves DEF S
  <2> QED
    BY <1>1, <1>2, <1>3, <2>2, RootAndLeaves, Zenon
<1> HIDE DEF A, B, C
<1>7. ASSUME NEW j \in Idx PROVE Cong(C[j], A[j] + B[j])
  <2>1. Summed(Block(A, 1, j), Block(B, 1, j), Block(C, 1, j), 1)
    <3>1. j \in 0..(N - 1)
      BY DEF Idx
    <3> QED
      BY <1>6, <3>1, RootAndLeaves, Zenon DEF Added
  <2>2. 0 \in 0..(1 - 1)
    OBVIOUS
  <2>3. Cong(Block(C, 1, j)[0], Block(A, 1, j)[0] + Block(B, 1, j)[0])
    BY <2>1, <2>2, Zenon DEF Summed
  <2> QED
    BY <1>6, <2>3, EndBlocks, Zenon
<1> QED
  BY <1>6, <1>7, Zenon DEF A, B, C

\* The NTT of a*b + c*d, as mqpoly_muladj_add_muladj() computes it slot by slot.
LEMMA NttOfTwoProducts ==
  ASSUME NegInverse, TablesInverse, TablesRoots, Cong(R2, R * R), LogN \in 1..10,
         NEW a \in [Idx -> Residues], NEW b \in [Idx -> Residues],
         NEW c \in [Idx -> Residues], NEW d \in [Idx -> Residues],
         NEW p, IsProduct(a, b, p), NEW r, IsProduct(c, d, r), NEW s, IsSum(p, r, s)
  PROVE  int_to_ntt(s) =
            [j \in Idx |-> mq_mmul(mq_add(mq_mmul(int_to_ntt(a)[j], int_to_ntt(b)[j]),
                                          mq_mmul(int_to_ntt(c)[j], int_to_ntt(d)[j])), R2)]
<1> DEFINE A == int_to_ntt(a)
           B == int_to_ntt(b)
           C == int_to_ntt(c)
           D == int_to_ntt(d)
           P == int_to_ntt(p)
           T == int_to_ntt(r)
           S == int_to_ntt(s)
<1>0. Montgomery /\ p \in [Idx -> Residues] /\ r \in [Idx -> Residues]
  BY Reduces, Zenon DEF IsProduct
<1>1. P = mul_ntt(A, B) /\ T = mul_ntt(C, D)
  BY NttOfProduct, Zenon
<1>2. S \in [Idx -> Residues] /\ \A j \in Idx : Cong(S[j], P[j] + T[j])
  BY <1>0, NttOfSum, Zenon
<1>3. /\ A \in [Idx -> Residues] /\ B \in [Idx -> Residues] /\ C \in [Idx -> Residues] /\ D \in [Idx -> Residues]
  BY NttInverse, Zenon
<1> HIDE DEF A, B, C, D, P, T, S
<1>4. ASSUME NEW j \in Idx
      PROVE  S[j] = mq_mmul(mq_add(mq_mmul(A[j], B[j]), mq_mmul(C[j], D[j])), R2)
  <2> DEFINE x == A[j]
             y == B[j]
             u == C[j]
             v == D[j]
             e == mq_mmul(mq_add(mq_mmul(x, y), mq_mmul(u, v)), R2)
             k == P[j]
             l == T[j]
             z == S[j]
             xy == x * y
             uv == u * v
  <2>1. x \in Residues /\ y \in Residues /\ u \in Residues /\ v \in Residues /\ z \in Residues
    BY <1>2, <1>3
  <2>2. k = mq_mmul(mq_mmul(x, y), R2) /\ l = mq_mmul(mq_mmul(u, v), R2)
    BY <1>1, Zenon DEF mul_ntt
  <2>3. Cong(z, k + l)
    BY <1>2
  <2> HIDE DEF x, y, u, v, z, k, l
  <2>4. k \in Residues /\ Cong(k, xy) /\ l \in Residues /\ Cong(l, uv)
    BY <1>0, <2>1, <2>2, SlotProduct, Zenon
  <2>5. e \in Residues /\ Cong(e, xy + uv)
    BY <1>0, <2>1, SlotSum, Zenon
  <2>6. /\ xy \in Int /\ uv \in Int /\ k \in Int /\ l \in Int /\ z \in Int /\ e \in Int
    BY <2>1, <2>4, <2>5, QFacts DEF Residues
  <2> HIDE DEF xy, uv, e
  <2> DEFINE m == k + l
             n == xy + uv
  <2>7. m \in Int /\ n \in Int /\ Cong(m, n) /\ Cong(z, m) /\ Cong(e, n)
    BY <2>3, <2>4, <2>5, <2>6, CongAdd
  <2> HIDE DEF m, n
  <2>8. Cong(z, n) /\ Cong(n, e)
    BY <2>6, <2>7, CongTrans, CongSym
  <2>9. Cong(z, e)
    BY <2>6, <2>7, <2>8, CongTrans
  <2>10. z = e
    BY <2>1, <2>5, <2>9, CongResidues
  <2> QED
    BY <2>10, Zenon DEF z, e, x, y, u, v
<1>5. S = [j \in Idx |-> mq_mmul(mq_add(mq_mmul(A[j], B[j]), mq_mmul(C[j], D[j])), R2)]
  <2>1. S = [j \in Idx |-> S[j]]
    BY <1>2
  <2> QED
    BY <1>4, <2>1, Zenon
<1> QED
  BY <1>5, Zenon DEF S, A, B, C, D

\* The three products with adjoints that sign_core takes of NTT values: each gives back, after
\* mqpoly_ntt_to_int(), the polynomial it stands for.
THEOREM NttAdjointProducts ==
  ASSUME NegInverse, TablesInverse, TablesRoots, TablesMirror, Cong(R2, R * R), LogN \in 1..10,
         NEW a \in [Idx -> Residues], NEW b \in [Idx -> Residues],
         NEW c \in [Idx -> Residues], NEW d \in [Idx -> Residues],
         NEW bb, IsAdjoint(b, bb), NEW dd, IsAdjoint(d, dd),
         NEW p, IsProduct(a, bb, p), NEW r, IsProduct(c, dd, r), NEW s, IsSum(p, r, s)
  PROVE  /\ ntt_to_int(muladj_ntt(int_to_ntt(a), int_to_ntt(b))) = p
         /\ ntt_to_int(muladj_add_muladj(int_to_ntt(a), int_to_ntt(b), int_to_ntt(c), int_to_ntt(d))) = s
         /\ a = b /\ c = d => ntt_to_int(muladj_x2_ntt(int_to_ntt(a), int_to_ntt(c))) = s
<1> DEFINE A == int_to_ntt(a)
           B == int_to_ntt(b)
           C == int_to_ntt(c)
           D == int_to_ntt(d)
           BB == int_to_ntt(bb)
           DD == int_to_ntt(dd)
<1>0. /\ p \in [Idx -> Residues] /\ s \in [Idx -> Residues]
      /\ bb \in [Idx -> Residues] /\ dd \in [Idx -> Residues]
  BY Zenon DEF IsProduct, IsSum, IsAdjoint
<1>1. BB = [j \in Idx |-> B[N - 1 - j]] /\ DD = [j \in Idx |-> D[N - 1 - j]]
  BY NttOfAdjoint, Zenon
<1>2. int_to_ntt(p) = mul_ntt(A, BB)
  BY <1>0, NttOfProduct, Zenon
<1>3. int_to_ntt(s) = [j \in Idx |-> mq_mmul(mq_add(mq_mmul(A[j], BB[j]), mq_mmul(C[j], DD[j])), R2)]
  <2>1. int_to_ntt(s) =
           [j \in Idx |-> mq_mmul(mq_add(mq_mmul(int_to_ntt(a)[j], int_to_ntt(bb)[j]),
                                         mq_mmul(int_to_ntt(c)[j], int_to_ntt(dd)[j])), R2)]
    <3> HIDE DEF A, B, C, D, BB, DD
    <3> QED
      BY <1>0, NttOfTwoProducts, SMTT(30)
  <2> QED
    BY <2>1, Zenon
<1>4. ntt_to_int(int_to_ntt(p)) = p /\ ntt_to_int(int_to_ntt(s)) = s
  BY <1>0, NttInverse, Zenon
<1>5. /\ A \in [Idx -> Residues] /\ C \in [Idx -> Residues]
  BY NttInverse, Zenon
<1> HIDE DEF A, B, C, D, BB, DD
<1>6. muladj_ntt(A, B) = int_to_ntt(p)
  <2>1. mul_ntt(A, BB) = [j \in Idx |-> mq_mmul(mq_mmul(A[j], BB[j]), R2)]
    BY Zenon DEF mul_ntt
  <2>2. muladj_ntt(A, B) = [j \in Idx |-> mq_mmul(mq_mmul(A[j], B[N - 1 - j]), R2)]
    BY Zenon DEF muladj_ntt
  <2> QED
    BY <1>1, <1>2, <2>1, <2>2, Zenon
<1>7. muladj_add_muladj(A, B, C, D) = int_to_ntt(s)
  <2>1. muladj_add_muladj(A, B, C, D) =
           [j \in Idx |-> mq_mmul(mq_add(mq_mmul(A[j], B[N - 1 - j]), mq_mmul(C[j], D[N - 1 - j])), R2)]
    BY Zenon DEF muladj_add_muladj
  <2> QED
    BY <1>1, <1>3, <2>1, Zenon
\* The function with two operands computes half of the slots, and copies the other half.
<1>8. ASSUME A = B, C = D PROVE muladj_x2_ntt(A, C) = int_to_ntt(s)
  <2> DEFINE half(j) == mq_mmul(mq_add(mq_mmul(A[j], A[N - 1 - j]), mq_mmul(C[j], C[N - 1 - j])), R2)
  <2>1. ASSUME NEW j \in Idx PROVE half(N - 1 - j) = half(j)
    <3> DEFINE i == N - 1 - j
               x == A[j]
               y == A[i]
               u == C[j]
               v == C[i]
    <3>1. i \in Idx /\ N - 1 - i = j
      BY Degree DEF Idx
    <3>2. x \in Int /\ y \in Int /\ u \in Int /\ v \in Int
      <4>1. x \in Residues /\ y \in Residues /\ u \in Residues /\ v \in Residues
        BY <1>5, <3>1
      <4> QED
        BY <4>1, QFacts DEF Residues
    <3>3. half(i) = mq_mmul(mq_add(mq_mmul(y, x), mq_mmul(v, u)), R2)
      BY <3>1, Zenon
    <3> HIDE DEF x, y, u, v, i
    <3>4. mq_mmul(y, x) = mq_mmul(x, y) /\ mq_mmul(v, u) = mq_mmul(u, v)
      <4>1. y * x = x * y /\ v * u = u * v
        BY <3>2
      <4> QED
        BY <4>1, Zenon DEF mq_mmul
    <3> QED
      BY <3>3, <3>4, Zenon DEF x, y, u, v, i
  <2>2. muladj_x2_ntt(A, C) = [j \in Idx |-> IF 2 * j < N THEN half(j) ELSE half(N - 1 - j)]
    BY Zenon DEF muladj_x2_ntt
  <2>3. muladj_x2_ntt(A, C) = [j \in Idx |-> half(j)]
    <3> HIDE DEF half
    <3> QED
      BY <2>1, <2>2, Zenon
  <2>4. ASSUME NEW j \in Idx
        PROVE  half(j) = mq_mmul(mq_add(mq_mmul(A[j], BB[j]), mq_mmul(C[j], DD[j])), R2)
    <3>1. BB[j] = A[N - 1 - j] /\ DD[j] = C[N - 1 - j]
      BY <1>1, <1>8, Zenon
    <3> QED
      BY <3>1, Zenon
  <2> HIDE DEF half
  <2> QED
    BY <1>3, <2>3, <2>4, Zenon
<1>9. a = b /\ c = d => A = B /\ C = D
  BY Zenon DEF A, B, C, D
<1>10. /\ ntt_to_int(muladj_ntt(A, B)) = p
       /\ ntt_to_int(muladj_add_muladj(A, B, C, D)) = s
       /\ a = b /\ c = d => ntt_to_int(muladj_x2_ntt(A, C)) = s
  BY <1>4, <1>6, <1>7, <1>8, <1>9, Zenon
<1> QED
  BY <1>10, Zenon DEF A, B, C, D

-----------------------------------------------------------------------------
\* The canonical representative of a number.
LEMMA CanonFacts ==
  ASSUME NEW x \in Int
  PROVE  Canon(x) \in Residues /\ Cong(Canon(x), x)
<1> DEFINE r == x % Q
           k == x \div Q
<1>1. Q \in Nat /\ Q > 0 /\ Q \in Int
  BY ModulusAssumption
<1>2. r \in Int /\ 0 <= r /\ r < Q /\ k \in Int /\ x = Q * k + r
  BY <1>1
<1>3. CASE r = 0
  <2>1. Canon(x) = Q
    BY <1>3, Zenon DEF Canon
  <2> HIDE DEF r, k
  <2>2. Q \in Residues /\ 1 - k \in Int /\ Q = x + Q * (1 - k)
    BY <1>1, <1>2, <1>3 DEF Residues
  <2> QED
    BY <2>1, <2>2, Zenon DEF Cong
<1>4. CASE r # 0
  <2>1. Canon(x) = r
    BY <1>4, Zenon DEF Canon
  <2> HIDE DEF r, k
  <2>2. r \in Residues /\ -k \in Int /\ r = x + Q * (-k)
    BY <1>1, <1>2, <1>4 DEF Residues
  <2> QED
    BY <2>1, <2>2, Zenon DEF Cong
<1> QED
  BY <1>3, <1>4, Zenon

\* The schoolbook product is the product.
LEMMA SchoolProduct ==
  ASSUME LogN \in 1..10, NEW x \in [Idx -> Residues], NEW y \in [Idx -> Residues]
  PROVE  IsProduct(x, y, SchoolMul(x, y))
<1>1. N \in Nat /\ Idx = 0..(N - 1)
  BY Degree DEF Idx
<1>2. x \in Ints(N) /\ y \in Ints(N)
  <2>1. Residues \subseteq Int
    BY QFacts DEF Residues
  <2> QED
    BY <1>1, <2>1 DEF Ints
<1>3. ASSUME NEW k \in Idx
      PROVE  /\ Conv(x, y, N, -1, k) \in Int
             /\ SchoolMul(x, y)[k] = Canon(Conv(x, y, N, -1, k))
  <2> DEFINE F == [i \in Idx |-> IF i <= k THEN x[i] * y[k - i] ELSE -(x[i] * y[N + k - i])]
  <2>1. ASSUME NEW i \in Idx
        PROVE  x[i] * Wrapped(y, N, -1, k - i) = F[i]
    <3>0. i \in Int /\ k \in Int /\ 0 <= i /\ i < N /\ 0 <= k /\ k < N
      BY <1>1
    <3>1. CASE i <= k
      <4>1. k - i >= 0
        BY <3>0, <3>1
      <4>2. Wrapped(y, N, -1, k - i) = y[k - i]
        BY <4>1, Zenon DEF Wrapped
      <4> QED
        BY <3>1, <4>2, Zenon
    <3>2. CASE ~(i <= k)
      <4>1. ~(k - i >= 0) /\ k - i + N = N + k - i /\ N + k - i \in Idx
        BY <1>1, <3>0, <3>2
      <4>2. Wrapped(y, N, -1, k - i) = (-1) * y[k - i + N]
        BY <4>1, Zenon DEF Wrapped
      <4>3. Wrapped(y, N, -1, k - i) = (-1) * y[N + k - i]
        BY <4>1, <4>2, Zenon
      <4> DEFINE u == x[i]
                 v == y[N + k - i]
      <4>4. u \in Int /\ v \in Int
        BY <1>1, <1>2, <4>1 DEF Ints
      <4>5. F[i] = -(u * v)
        BY <3>2, Zenon
      <4> HIDE DEF F, u, v
      <4>6. u * ((-1) * v) = -(u * v)
        BY <4>4
      <4> QED
        BY <4>3, <4>5, <4>6, Zenon DEF u, v
    <3> QED
      BY <3>1, <3>2, Zenon
  <2>2. F = Terms(x, y, N, -1, k)
    <3>1. F = [i \in Idx |-> F[i]]
      BY Zenon
    <3>2. Terms(x, y, N, -1, k) = [i \in Idx |-> x[i] * Wrapped(y, N, -1, k - i)]
      BY <1>1, Zenon DEF Terms
    <3> HIDE DEF F
    <3> QED
      BY <2>1, <3>1, <3>2, Zenon
  <2>3. SchoolMul(x, y)[k] = Canon(Total(F, N))
    BY Zenon DEF SchoolMul
  <2> HIDE DEF F
  <2>4. Conv(x, y, N, -1, k) \in Int
    <3>1. -1 \in Int /\ k \in 0..(N - 1)
      BY <1>1
    <3>2. F \in [0..(N - 1) -> Int]
      BY <1>1, <1>2, <2>2, <3>1, TermsInt, Zenon
    <3>3. PICK h \in [0..N -> Int] : Total(F, N) = h[N]
      BY <1>1, <3>2, TotalSums, Zenon
    <3>4. h[N] \in Int
      BY <1>1, <3>3
    <3> QED
      BY <2>2, <3>3, <3>4, Zenon DEF Conv
  <2> QED
    BY <2>2, <2>3, <2>4, Zenon DEF Conv
<1>4. SchoolMul(x, y) \in [Idx -> Residues]
  <2>1. ASSUME NEW k \in Idx PROVE SchoolMul(x, y)[k] \in Residues
    BY <1>3, CanonFacts, Zenon
  <2>2. SchoolMul(x, y) = [k \in Idx |-> SchoolMul(x, y)[k]]
    BY Zenon DEF SchoolMul
  <2> QED
    BY <2>1, <2>2, Zenon
<1>5. \A k \in Idx : Cong(SchoolMul(x, y)[k], Conv(x, y, N, -1, k))
  BY <1>3, CanonFacts, Zenon
<1> QED
  BY <1>4, <1>5, Zenon DEF IsProduct

\* The adjoint is the polynomial at 1/X.
LEMMA SchoolAdjoint ==
  ASSUME LogN \in 1..10, NEW x \in [Idx -> Residues]
  PROVE  IsAdjoint(x, Adj(x))
<1>1. N \in Nat /\ Idx = 0..(N - 1) /\ 0 \in Idx
  BY Degree DEF Idx
<1>2. \A i \in Idx : x[i] \in Int /\ x[i] \in Residues
  BY QFacts DEF Residues
<1>3. ASSUME NEW o \in 1..(N - 1)
      PROVE  Adj(x)[o] \in Residues /\ Cong(Adj(x)[o], (-1) * x[N - o])
  <2>1. o \in Idx /\ o # 0 /\ N - o \in Idx
    BY <1>1
  <2>2. Adj(x)[o] = Canon(-x[N - o])
    BY <2>1, Zenon DEF Adj
  <2> DEFINE v == x[N - o]
  <2>3. v \in Int
    BY <1>2, <2>1
  <2> HIDE DEF v
  <2>4. -v \in Int /\ -v = (-1) * v
    BY <2>3
  <2> QED
    BY <2>2, <2>4, CanonFacts, Zenon DEF v
<1>4. Adj(x)[0] = x[0]
  BY <1>1, Zenon DEF Adj
<1>5. Adj(x) \in [Idx -> Residues]
  <2>1. ASSUME NEW i \in Idx PROVE Adj(x)[i] \in Residues
    <3>1. i = 0 \/ i \in 1..(N - 1)
      BY <1>1
    <3> QED
      BY <1>1, <1>2, <1>3, <1>4, <3>1, Zenon
  <2>2. Adj(x) = [i \in Idx |-> Adj(x)[i]]
    BY Zenon DEF Adj
  <2> QED
    BY <2>1, <2>2, Zenon
<1>6. Cong(Adj(x)[0], x[0])
  BY <1>1, <1>2, <1>4, CongSelf, Zenon
<1> QED
  BY <1>3, <1>5, <1>6, Zenon DEF IsAdjoint, AdjMod

\* The sum.
LEMMA SchoolSum ==
  ASSUME LogN \in 1..10, NEW x \in [Idx -> Residues], NEW y \in [Idx -> Residues]
  PROVE  IsSum(x, y, SchoolAdd(x, y))
<1>1. Idx = 0..(N - 1)
  BY DEF Idx
<1>2. ASSUME NEW i \in Idx
      PROVE  SchoolAdd(x, y)[i] \in Residues /\ Cong(SchoolAdd(x, y)[i], x[i] + y[i])
  <2>1. SchoolAdd(x, y)[i] = Canon(x[i] + y[i])
    BY Zenon DEF SchoolAdd
  <2>2. x[i] + y[i] \in Int
    BY QFacts DEF Residues
  <2> QED
    BY <2>1, <2>2, CanonFacts, Zenon
<1>3. SchoolAdd(x, y) = [i \in Idx |-> SchoolAdd(x, y)[i]]
  BY Zenon DEF SchoolAdd
<1>4. SchoolAdd(x, y) \in [Idx -> Residues]
  BY <1>2, <1>3, Zenon
<1> QED
  BY <1>1, <1>2, <1>4, Zenon DEF IsSum, Summed

\* What the constants and tables of an instance of the code have to be.
TablesCorrect == NegInverse /\ TablesInverse /\ TablesRoots /\ TablesMirror /\ Cong(R2, R * R)

\* The same conditions over a small residue r of 2^32, as they are checked on given tables.
TablesModulo(r) ==
    /\ Cong(r, R) /\ Cong(R2, r * r) /\ Cong(GM[1] * GM[1], -(r * r))
    /\ \A k \in 1..(N - 1) : 2 * k < N =>
          /\ Cong(GM[2 * k] * GM[2 * k], r * GM[k])
          /\ Cong(GM[2 * k + 1] * GM[2 * k + 1], -(r * GM[k]))
    /\ \A lm \in 0..(LogN - 1) : \A j \in 0..(2 ^ lm - 1) :
          Cong(GM[2 ^ lm + j] * GM[2 ^ lm + (2 ^ lm - 1 - j)], -(r * r))

\* They are enough.
LEMMA TablesFromResidue ==
  ASSUME NEW r \in Int, NegInverse, TablesInverse, TablesModulo(r)
  PROVE  TablesCorrect
<1>1. ASSUME NEW x, NEW y \in Int, NEW z \in Int, Cong(x, y), Cong(y, z) PROVE Cong(x, z)
  <2>1. PICK k \in Int : x = y + Q * k
    BY <1>1, Zenon DEF Cong
  <2>2. x \in Int
    BY <2>1, QFacts
  <2> QED
    BY <1>1, <2>2, CongTrans, Zenon
<1>2. Cong(r, R) /\ R \in Int
  BY RInt, Zenon DEF TablesModulo
<1>3. /\ r * r \in Int /\ R * R \in Int /\ -(r * r) \in Int /\ -(R * R) \in Int
      /\ Cong(r * r, R * R) /\ Cong(-(r * r), -(R * R))
  <2>1. Cong(r * r, R * R)
    BY <1>2, CongProduct, Zenon
  <2> DEFINE x == r * r
             y == R * R
             m == R
  <2>2. x \in Int
    OBVIOUS
  <2>3. m \in Int
    BY <1>2
  <2>4. y \in Int
    <3>1. y = m * m
      OBVIOUS
    <3> HIDE DEF m, y
    <3> QED
      BY <2>3, <3>1
  <2> HIDE DEF x, y, m
  <2>5. Cong((-1) * x, (-1) * y)
    <3>1. Cong(x, y) /\ -1 \in Int
      BY <2>1 DEF x, y
    <3> QED
      BY <2>2, <2>4, <3>1, CongMul, Zenon
  <2>6. (-1) * x = -x /\ (-1) * y = -y /\ -x \in Int /\ -y \in Int
    BY <2>2, <2>4
  <2>7. Cong(-x, -y)
    BY <2>5, <2>6, Zenon
  <2> QED
    BY <2>1, <2>2, <2>4, <2>6, <2>7, Zenon DEF x, y
<1>4. Cong(R2, R * R) /\ Cong(GM[1] * GM[1], -(R * R)) /\ TablesMirror
  BY <1>1, <1>3, Zenon DEF TablesModulo, TablesMirror
<1>5. ASSUME NEW k \in 1..(N - 1), 2 * k < N
      PROVE  /\ Cong(GM[2 * k] * GM[2 * k], R * GM[k])
             /\ Cong(GM[2 * k + 1] * GM[2 * k + 1], -(R * GM[k]))
  <2> DEFINE g == GM[k]
             m == R
  <2>1. g \in Int /\ m \in Int
    <3>1. GM[k] \in Residues
      BY Zenon DEF TablesInverse
    <3> QED
      BY <1>2, <3>1, QFacts DEF Residues
  <2>2. Cong(r, m)
    BY <1>2
  <2>3. Cong(GM[2 * k] * GM[2 * k], r * g) /\ Cong(GM[2 * k + 1] * GM[2 * k + 1], -(r * g))
    BY <1>5, Zenon DEF TablesModulo
  <2> HIDE DEF g, m
  <2>4. r * g \in Int /\ m * g \in Int /\ -(r * g) \in Int /\ -(m * g) \in Int
    BY <2>1
  <2>5. Cong(r * g, m * g)
    BY <2>1, <2>2, CongProduct, CongSelf, Zenon
  <2>6. Cong(-(r * g), -(m * g))
    <3> DEFINE x == r * g
               y == m * g
    <3>1. Cong((-1) * x, (-1) * y)
      <4>1. -1 \in Int
        OBVIOUS
      <4> QED
        BY <2>4, <2>5, <4>1, CongMul, Zenon
    <3>2. x \in Int /\ y \in Int
      BY <2>4
    <3> HIDE DEF x, y
    <3>3. (-1) * x = -x /\ (-1) * y = -y
      BY <3>2
    <3>4. Cong(-x, -y)
      BY <3>1, <3>3, Zenon
    <3> QED
      BY <3>4, Zenon DEF x, y
  <2>7. Cong(GM[2 * k] * GM[2 * k], m * g) /\ Cong(GM[2 * k + 1] * GM[2 * k + 1], -(m * g))
    BY <1>1, <2>3, <2>4, <2>5, <2>6, Zenon
  <2> QED
    BY <2>7, Zenon DEF g, m
<1> QED
  BY <1>4, <1>5, Zenon DEF TablesCorrect, TablesRoots

\* mqpoly_mul_ntt() between the transforms computes the schoolbook product of any two
\* polynomials.
THEOREM SlotwiseIsSchoolbook ==
  ASSUME TablesCorrect, LogN \in 1..10, NEW x \in [Idx -> Residues], NEW y \in [Idx -> Residues]
  PROVE  ntt_to_int(mul_ntt(int_to_ntt(x), int_to_ntt(y))) = SchoolMul(x, y)
<1>1. IsProduct(x, y, SchoolMul(x, y))
  BY SchoolProduct, Zenon
<1> QED
  BY <1>1, NttMultiply, Zenon DEF TablesCorrect

\* The three functions with an adjoint compute what the schoolbook does, of any polynomials.
THEOREM MirroredIsSchoolbook ==
  ASSUME TablesCorrect, LogN \in 1..10, NEW x \in [Idx -> Residues], NEW y \in [Idx -> Residues]
  PROVE  LET X == int_to_ntt(x)
             Y == int_to_ntt(y)
         IN  /\ ntt_to_int(muladj_ntt(X, Y)) = SchoolMul(x, Adj(y))
             /\ ntt_to_int(muladj_x2_ntt(X, Y)) =
                   SchoolAdd(SchoolMul(x, Adj(x)), SchoolMul(y, Adj(y)))
             /\ ntt_to_int(muladj_add_muladj(X, Y, Y, X)) =
                   SchoolAdd(SchoolMul(x, Adj(y)), SchoolMul(y, Adj(x)))
<1> DEFINE xx == Adj(x)
           yy == Adj(y)
           p == SchoolMul(x, yy)
           r == SchoolMul(y, xx)
           v == SchoolMul(x, xx)
           w == SchoolMul(y, yy)
<1>1. IsAdjoint(x, xx) /\ IsAdjoint(y, yy)
  BY SchoolAdjoint, Zenon
<1> HIDE DEF xx, yy
<1>2. xx \in [Idx -> Residues] /\ yy \in [Idx -> Residues]
  BY <1>1, Zenon DEF IsAdjoint
<1>3. IsProduct(x, yy, p) /\ IsProduct(y, xx, r) /\ IsProduct(x, xx, v) /\ IsProduct(y, yy, w)
  BY <1>2, SchoolProduct, Zenon
<1> HIDE DEF p, r, v, w
<1>4. IsSum(p, r, SchoolAdd(p, r)) /\ IsSum(v, w, SchoolAdd(v, w))
  <2>1. /\ p \in [Idx -> Residues] /\ r \in [Idx -> Residues]
        /\ v \in [Idx -> Residues] /\ w \in [Idx -> Residues]
    BY <1>3, Zenon DEF IsProduct
  <2> QED
    BY <2>1, SchoolSum, Zenon
<1>5. NegInverse /\ TablesInverse /\ TablesRoots /\ TablesMirror /\ Cong(R2, R * R)
  BY Zenon DEF TablesCorrect
<1>6. /\ ntt_to_int(muladj_ntt(int_to_ntt(x), int_to_ntt(y))) = p
      /\ ntt_to_int(muladj_add_muladj(int_to_ntt(x), int_to_ntt(y), int_to_ntt(y), int_to_ntt(x))) =
            SchoolAdd(p, r)
  BY <1>1, <1>3, <1>4, <1>5, NttAdjointProducts, SMT
<1>7. ntt_to_int(muladj_x2_ntt(int_to_ntt(x), int_to_ntt(y))) = SchoolAdd(v, w)
  BY <1>1, <1>3, <1>4, <1>5, NttAdjointProducts, SMT
<1> QED
  BY <1>6, <1>7, Zenon DEF p, r, v, w, xx, yy

=============================================================================
