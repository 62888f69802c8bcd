------------------------------ MODULE Induction ------------------------------
(***************************************************************************)
(* Induction over the natural numbers for sets instead of operators: to    *)
(* prove P(n) for every n, show that {n \in Nat : P(n)} holds 0 and n + 1   *)
(* with n.  Then the powers of two up to 2^24.                              *)
(***************************************************************************)
EXTENDS Integers, WellFoundedInduction, TLAPS

\* A set of natural numbers that is not empty has a least element.
LEMMA LeastNumber ==
  ASSUME NEW T, T \subseteq Nat, T # {}
  PROVE  \E x \in T : \A y \in T : x <= y
  <1> DEFINE R == {ss \in Nat \X Nat : ss[1] < ss[2]}
  <1>1. IsWellFoundedOn(R, Nat)
    BY NatLessThanWellFounded DEF OpToRel
  <1>2. PICK x \in T : \A y \in T : ~ (<<y, x>> \in R)
    <2> HIDE DEF R
    <2> QED
      BY <1>1, WFMin
  <1>3. ASSUME NEW y \in T
        PROVE  x <= y
    <2>1. ~ (<<y, x>> \in R)
      BY <1>2
    <2>2. <<y, x>> \in Nat \X Nat
      OBVIOUS
    <2>3. ~(y < x)
      BY <2>1, <2>2
    <2> QED
      BY <2>3
  <1> QED
    BY <1>2, <1>3

\* A set with 0 and the successor of every number in it holds every number.
LEMMA NatSetInduction ==
  ASSUME NEW S, 0 \in S, \A n \in Nat : n \in S => n + 1 \in S
  PROVE  Nat \subseteq S
  <1> SUFFICES ASSUME NEW k \in Nat, k \notin S
               PROVE  FALSE
    OBVIOUS
  <1> DEFINE T == {n \in Nat : n \notin S}
  <1>1. PICK m \in T : \A y \in T : m <= y
    <2>1. T \subseteq Nat /\ T # {}
      OBVIOUS
    <2> HIDE DEF T
    <2> QED
      BY <2>1, LeastNumber
  <1>2. m # 0 /\ m \in Nat /\ m - 1 \in Nat
    OBVIOUS
  <1>3. m - 1 \in S
    BY <1>1, <1>2
  <1> QED
    BY <1>2, <1>3

-----------------------------------------------------------------------------
\* The powers of two that the loops of the code run over.
LEMMA Powers ==
  /\ 2 ^ 0 = 1 /\ 2 ^ 1 = 2 /\ 2 ^ 2 = 4 /\ 2 ^ 3 = 8 /\ 2 ^ 4 = 16 /\ 2 ^ 5 = 32
  /\ 2 ^ 6 = 64 /\ 2 ^ 7 = 128 /\ 2 ^ 8 = 256 /\ 2 ^ 9 = 512 /\ 2 ^ 10 = 1024
  OBVIOUS

\* x is one of the powers of two from 2 to 1024.
ListedPower(x) == x \in {2, 4, 8, 16, 32, 64, 128, 256, 512, 1024}

\* The powers of two from 2 to 1024 are those.
LEMMA PowerList ==
  ASSUME NEW e \in 1..10
  PROVE  ListedPower(2 ^ e)
<1>1. CASE e = 1
  BY <1>1, Powers DEF ListedPower
<1>2. CASE e = 2
  BY <1>2, Powers DEF ListedPower
<1>3. CASE e = 3
  BY <1>3, Powers DEF ListedPower
<1>4. CASE e = 4
  BY <1>4, Powers DEF ListedPower
<1>5. CASE e = 5
  BY <1>5, Powers DEF ListedPower
<1>6. CASE e = 6
  BY <1>6, Powers DEF ListedPower
<1>7. CASE e = 7
  BY <1>7, Powers DEF ListedPower
<1>8. CASE e = 8
  BY <1>8, Powers DEF ListedPower
<1>9. CASE e = 9
  BY <1>9, Powers DEF ListedPower
<1>10. CASE e = 10
  BY <1>10, Powers DEF ListedPower
<1> QED
  BY <1>1, <1>2, <1>3, <1>4, <1>5, <1>6, <1>7, <1>8, <1>9, <1>10

\* Each power of two is twice the one before it.
LEMMA Doubles ==
  ASSUME NEW e \in 0..23
  PROVE  2 ^ (e + 1) = 2 * 2 ^ e
<1>0. CASE e = 0
  <2>1. e + 1 = 1
    BY <1>0
  <2>2. 2 ^ 0 = 1 /\ 2 ^ 1 = 2
    OBVIOUS
  <2> QED
    BY <1>0, <2>1, <2>2
<1>1. CASE e = 1
  <2>1. e + 1 = 2
    BY <1>1
  <2>2. 2 ^ 1 = 2 /\ 2 ^ 2 = 4
    OBVIOUS
  <2> QED
    BY <1>1, <2>1, <2>2
<1>2. CASE e = 2
  <2>1. e + 1 = 3
    BY <1>2
  <2>2. 2 ^ 2 = 4 /\ 2 ^ 3 = 8
    OBVIOUS
  <2> QED
    BY <1>2, <2>1, <2>2
<1>3. CASE e = 3
  <2>1. e + 1 = 4
    BY <1>3
  <2>2. 2 ^ 3 = 8 /\ 2 ^ 4 = 16
    OBVIOUS
  <2> QED
    BY <1>3, <2>1, <2>2
<1>4. CASE e = 4
  <2>1. e + 1 = 5
    BY <1>4
  <2>2. 2 ^ 4 = 16 /\ 2 ^ 5 = 32
    OBVIOUS
  <2> QED
    BY <1>4, <2>1, <2>2
<1>5. CASE e = 5
  <2>1. e + 1 = 6
    BY <1>5
  <2>2. 2 ^ 5 = 32 /\ 2 ^ 6 = 64
    OBVIOUS
  <2> QED
    BY <1>5, <2>1, <2>2
<1>6. CASE e = 6
  <2>1. e + 1 = 7
    BY <1>6
  <2>2. 2 ^ 6 = 64 /\ 2 ^ 7 = 128
    OBVIOUS
  <2> QED
    BY <1>6, <2>1, <2>2
<1>7. CASE e = 7
  <2>1. e + 1 = 8
    BY <1>7
  <2>2. 2 ^ 7 = 128 /\ 2 ^ 8 = 256
    OBVIOUS
  <2> QED
    BY <1>7, <2>1, <2>2
<1>8. CASE e = 8
  <2>1. e + 1 = 9
    BY <1>8
  <2>2. 2 ^ 8 = 256 /\ 2 ^ 9 = 512
    OBVIOUS
  <2> QED
    BY <1>8, <2>1, <2>2
<1>9. CASE e = 9
  <2>1. e + 1 = 10
    BY <1>9
  <2>2. 2 ^ 9 = 512 /\ 2 ^ 10 = 1024
    OBVIOUS
  <2> QED
    BY <1>9, <2>1, <2>2
<1>10. CASE e = 10
  <2>1. e + 1 = 11
    BY <1>10
  <2>2. 2 ^ 10 = 1024 /\ 2 ^ 11 = 2048
    OBVIOUS
  <2> QED
    BY <1>10, <2>1, <2>2
<1>11. CASE e = 11
  <2>1. e + 1 = 12
    BY <1>11
  <2>2. 2 ^ 11 = 2048 /\ 2 ^ 12 = 4096
    OBVIOUS
  <2> QED
    BY <1>11, <2>1, <2>2
<1>12. CASE e = 12
  <2>1. e + 1 = 13
    BY <1>12
  <2>2. 2 ^ 12 = 4096 /\ 2 ^ 13 = 8192
    OBVIOUS
  <2> QED
    BY <1>12, <2>1, <2>2
<1>13. CASE e = 13
  <2>1. e + 1 = 14
    BY <1>13
  <2>2. 2 ^ 13 = 8192 /\ 2 ^ 14 = 16384
    OBVIOUS
  <2> QED
    BY <1>13, <2>1, <2>2
<1>14. CASE e = 14
  <2>1. e + 1 = 15
    BY <1>14
  <2>2. 2 ^ 14 = 16384 /\ 2 ^ 15 = 32768
    OBVIOUS
  <2> QED
    BY <1>14, <2>1, <2>2
<1>15. CASE e = 15
  <2>1. e + 1 = 16
    BY <1>15
  <2>2. 2 ^ 15 = 32768 /\ 2 ^ 16 = 65536
    OBVIOUS
  <2> QED
    BY <1>15, <2>1, <2>2
<1>16. CASE e = 16
  <2>1. e + 1 = 17
    BY <1>16
  <2>2. 2 ^ 16 = 65536 /\ 2 ^ 17 = 131072
    OBVIOUS
  <2> QED
    BY <1>16, <2>1, <2>2
<1>17. CASE e = 17
  <2>1. e + 1 = 18
    BY <1>17
  <2>2. 2 ^ 17 = 131072 /\ 2 ^ 18 = 262144
    OBVIOUS
  <2> QED
    BY <1>17, <2>1, <2>2
<1>18. CASE e = 18
  <2>1. e + 1 = 19
    BY <1>18
  <2>2. 2 ^ 18 = 262144 /\ 2 ^ 19 = 524288
    OBVIOUS
  <2> QED
    BY <1>18, <2>1, <2>2
<1>19. CASE e = 19
  <2>1. e + 1 = 20
    BY <1>19
  <2>2. 2 ^ 19 = 524288 /\ 2 ^ 20 = 1048576
    OBVIOUS
  <2> QED
    BY <1>19, <2>1, <2>2
<1>20. CASE e = 20
  <2>1. e + 1 = 21
    BY <1>20
  <2>2. 2 ^ 20 = 1048576 /\ 2 ^ 21 = 2097152
    OBVIOUS
  <2> QED
    BY <1>20, <2>1, <2>2
<1>21. CASE e = 21
  <2>1. e + 1 = 22
    BY <1>21
  <2>2. 2 ^ 21 = 2097152 /\ 2 ^ 22 = 4194304
    OBVIOUS
  <2> QED
    BY <1>21, <2>1, <2>2
<1>22. CASE e = 22
  <2>1. e + 1 = 23
    BY <1>22
  <2>2. 2 ^ 22 = 4194304 /\ 2 ^ 23 = 8388608
    OBVIOUS
  <2> QED
    BY <1>22, <2>1, <2>2
<1>23. CASE e = 23
  <2>1. e + 1 = 24
    BY <1>23
  <2>2. 2 ^ 23 = 8388608 /\ 2 ^ 24 = 16777216
    OBVIOUS
  <2> QED
    BY <1>23, <2>1, <2>2
<1> QED
  BY <1>0, <1>1, <1>2, <1>3, <1>4, <1>5, <1>6, <1>7, <1>8, <1>9, <1>10, <1>11,
     <1>12, <1>13, <1>14, <1>15, <1>16, <1>17, <1>18, <1>19, <1>20, <1>21, <1>22, <1>23

\* A power of two is a natural number above 0.
LEMMA PowerNat ==
  ASSUME NEW e \in 0..24
  PROVE  2 ^ e \in Nat /\ 2 ^ e >= 1 /\ 2 ^ e \in Nat \ {0}
<1> DEFINE S == {i \in Nat : i <= 24 => 2 ^ i \in Nat /\ 2 ^ i >= 1}
<1>1. 0 \in S
  <2>1. 2 ^ 0 = 1
    BY Powers
  <2> QED
    BY <2>1
<1>2. ASSUME NEW i \in Nat, i \in S PROVE i + 1 \in S
  <2> SUFFICES ASSUME i + 1 <= 24 PROVE 2 ^ (i + 1) \in Nat /\ 2 ^ (i + 1) >= 1
    OBVIOUS
  <2>1. i \in 0..23 /\ i <= 24
    OBVIOUS
  <2>2. 2 ^ (i + 1) = 2 * 2 ^ i
    BY <2>1, Doubles
  <2>3. 2 ^ i \in Nat /\ 2 ^ i >= 1
    BY <1>2, <2>1
  <2> DEFINE u == 2 ^ i
  <2>4. 2 ^ (i + 1) = 2 * u /\ u \in Nat /\ u >= 1
    BY <2>2, <2>3
  <2> HIDE DEF u
  <2>5. 2 * u \in Nat /\ 2 * u >= 1
    BY <2>4
  <2> QED
    BY <2>4, <2>5, Zenon
<1> HIDE DEF S
<1>3. e \in S
  BY <1>1, <1>2, NatSetInduction
<1>4. 2 ^ e \in Nat /\ 2 ^ e >= 1
  BY <1>3 DEF S
<1> QED
  BY <1>4

\* Powers of two multiply by adding exponents.
LEMMA PowerSum ==
  ASSUME NEW a \in 0..24, NEW b \in 0..24, a + b <= 24
  PROVE  2 ^ (a + b) = 2 ^ a * 2 ^ b
<1> DEFINE S == {i \in Nat : a + i <= 24 => 2 ^ (a + i) = 2 ^ a * 2 ^ i}
<1>1. 0 \in S
  <2>0. 2 ^ a \in Nat
    BY PowerNat, Zenon
  <2>1. a + 0 = a /\ 2 ^ 0 = 1 /\ 2 ^ a \in Nat
    BY <2>0, Powers
  <2>2. 2 ^ a = 2 ^ a * 1
    BY <2>1
  <2> QED
    BY <2>1, <2>2, Zenon
<1>2. ASSUME NEW i \in Nat, i \in S PROVE i + 1 \in S
  <2> SUFFICES ASSUME a + (i + 1) <= 24 PROVE 2 ^ (a + (i + 1)) = 2 ^ a * 2 ^ (i + 1)
    OBVIOUS
  <2>1. a + i \in 0..23 /\ i \in 0..23 /\ (a + i) + 1 = a + (i + 1) /\ a + i <= 24 /\ i \in 0..24
    OBVIOUS
  <2> DEFINE x == a + i
             u == 2 ^ a
             v == 2 ^ i
  <2>2. 2 ^ (x + 1) = 2 * 2 ^ x
    <3> HIDE DEF x
    <3>1. x \in 0..23
      BY <2>1 DEF x
    <3> QED
      BY <3>1, Doubles
  <2>3. 2 ^ (i + 1) = 2 * v
    BY <2>1, Doubles
  <2>4. 2 ^ x = u * v
    BY <1>2, <2>1
  <2>5. u \in Nat /\ v \in Nat
    <3>1. i \in 0..24
      BY <2>1
    <3> QED
      BY <3>1, PowerNat, Zenon
  <2>6. 2 ^ (a + (i + 1)) = 2 * 2 ^ x
    BY <2>1, <2>2, Zenon
  <2> HIDE DEF u, v, x
  <2>7. 2 * (u * v) = u * (2 * v)
    BY <2>5
  <2>8. 2 ^ (a + (i + 1)) = u * 2 ^ (i + 1)
    BY <2>3, <2>4, <2>6, <2>7, Zenon
  <2> QED
    BY <2>8 DEF u
<1> HIDE DEF S
<1>3. b \in S
  BY <1>1, <1>2, NatSetInduction
<1> QED
  BY <1>3 DEF S
=============================================================================
