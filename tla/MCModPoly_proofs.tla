-------------------------- MODULE MCModPoly_proofs --------------------------
(***************************************************************************)
(* The round trip and the products that run ntt checks, for every          *)
(* polynomial: the constants of fndsa_mq.c and of fndsa_sign_mq2.c are     *)
(* what ModPoly_proofs needs.                                              *)
(***************************************************************************)
EXTENDS MCModPoly, ModPoly_proofs

\* The transforms modulo q'.
T2 == INSTANCE ModPoly_proofs WITH
    Q <- Q_2, Q1Ilo <- Q1Ilo_2, Q1Ihi <- Q1Ihi_2, R2 <- R2_2, GM <- GM_2, iGM <- iGM_2

\* The constants of fndsa_mq.c.
ConstantsOfQ ==
    /\ Q = 12289 /\ Q1Ilo = 12287 /\ Q1Ihi = -2304 /\ R2 = 5664
    /\ GM = GMq /\ iGM = iGMq

\* The constants of fndsa_sign_mq2.c are such as ModPoly assumes.
LEMMA ModulusQ2 == T2!ModulusAssumption
  BY SMT DEF T2!ModulusAssumption, Q_2, Q1Ilo_2, Q1Ihi_2, R2_2

\* The entries of a table that a degree up to 8 reads.
LEMMA Entries ==
  ASSUME LogN \in 1..3
  PROVE  (N = 2 \/ N = 4 \/ N = 8) /\ 1..(N - 1) \subseteq {1, 2, 3, 4, 5, 6, 7}
<1>1. LogN = 1 \/ LogN = 2 \/ LogN = 3
  OBVIOUS
<1>2. N = 2 \/ N = 4 \/ N = 8
  <2>0. 2 ^ 1 = 2 /\ 2 ^ 2 = 4 /\ 2 ^ 3 = 8
    BY Powers
  <2>1. CASE LogN = 1
    BY <2>0, <2>1, Zenon DEF N
  <2>2. CASE LogN = 2
    BY <2>0, <2>2, Zenon DEF N
  <2>3. CASE LogN = 3
    BY <2>0, <2>3, Zenon DEF N
  <2> QED
    BY <1>1, <2>1, <2>2, <2>3, Zenon
<1> QED
  BY <1>2, SMT

\* Q1I of fndsa_mq.c.
LEMMA InverseQ == ConstantsOfQ => NegInverse
<1>1. (65536 * (-2304) + 12287) * 12289 + 1 = 4294967296 * (-432)
  BY SMT
<1>2. -432 \in Int
  BY SMT
<1> QED
  BY <1>1, <1>2, SMT DEF NegInverse, ConstantsOfQ, R

\* Q1I of fndsa_sign_mq2.c.
LEMMA InverseQ2 == T2!NegInverse
<1>1. (65536 * (-5184) + 18431) * 18433 + 1 = 4294967296 * (-1458)
  BY SMT
<1>2. -1458 \in Int
  BY SMT
<1> QED
  BY <1>1, <1>2, SMT DEF T2!NegInverse, T2!R, Q_2, Q1Ilo_2, Q1Ihi_2

\* The two tables of fndsa_mq.c, entry by entry; 2^32 is 10952 modulo 12289.
LEMMA TablesQ == ConstantsOfQ /\ LogN \in 1..3 => TablesInverse
<1> SUFFICES ASSUME ConstantsOfQ, LogN \in 1..3, NEW k \in 1..(N - 1)
             PROVE  /\ GM[k] \in Residues /\ iGM[k] \in Residues
                    /\ Cong(2 * (GM[k] * iGM[k]), R * R)
  BY Zenon DEF TablesInverse
<1>1. k \in {1, 2, 3, 4, 5, 6, 7}
  BY Entries, Zenon
<1>2. /\ GM[k] \in Int /\ 1 <= GM[k] /\ GM[k] <= 12289
      /\ iGM[k] \in Int /\ 1 <= iGM[k] /\ iGM[k] <= 12289
  BY <1>1, SMT DEF ConstantsOfQ, GMq, iGMq
<1> DEFINE e == 2 * (GM[k] * iGM[k])
           c == 119946304
           J == <<-8754, -556, -9538, -6928, -9448, -3372, -170>>
<1>3. e \in Int /\ c \in Int /\ J[k] \in Int /\ e = c + 12289 * J[k]
  BY <1>1, SMT DEF ConstantsOfQ, GMq, iGMq
<1>4. Q = 12289
  BY SMT DEF ConstantsOfQ
<1>5. Q \in Int /\ GM[k] <= Q /\ iGM[k] <= Q
  BY <1>2, <1>4, SMT
<1> HIDE DEF J, e, c
<1>6. Cong(e, c)
  BY <1>3, <1>4, SMT DEF Cong
<1>7. Cong(c, R * R)
  <2> DEFINE r == 10952
             u == 349496
  <2>1. r \in Int /\ u \in Int /\ R = r + Q * u /\ c = r * r
    BY <1>4, SMT DEF R, c
  <2> HIDE DEF r, u
  <2> QED
    BY <2>1, RSquared, SMT
<1>8. Cong(e, R * R)
  BY <1>3, <1>6, <1>7, RInt, CongTrans, SMT
<1>9. GM[k] \in Residues /\ iGM[k] \in Residues
  BY <1>2, <1>5, SMT DEF Residues
<1> QED
  BY <1>8, <1>9, Zenon DEF e

\* The two tables of fndsa_sign_mq2.c, entry by entry; 2^32 is 4564 modulo 18433.
LEMMA TablesQ2 == LogN \in 1..3 => T2!TablesInverse
<1> SUFFICES ASSUME LogN \in 1..3, NEW k \in 1..(N - 1)
             PROVE  /\ GM_2[k] \in T2!Residues /\ iGM_2[k] \in T2!Residues
                    /\ T2!Cong(2 * (GM_2[k] * iGM_2[k]), T2!R * T2!R)
  BY Zenon DEF T2!TablesInverse, T2!N, N
<1>1. k \in {1, 2, 3, 4, 5, 6, 7}
  BY Entries, Zenon
<1>2. /\ GM_2[k] \in Int /\ 1 <= GM_2[k] /\ GM_2[k] <= 18433
      /\ iGM_2[k] \in Int /\ 1 <= iGM_2[k] /\ iGM_2[k] <= 18433
  BY <1>1, SMT DEF GM_2, iGM_2
<1> DEFINE e == 2 * (GM_2[k] * iGM_2[k])
           c == 20830096
           J == <<17208, 12500, 20592, 17324, 6758, 504, 1000>>
<1>3. e \in Int /\ c \in Int /\ J[k] \in Int /\ e = c + 18433 * J[k]
  BY <1>1, SMT DEF GM_2, iGM_2
<1>4. Q_2 = 18433
  BY SMT DEF Q_2
<1>5. Q_2 \in Int /\ GM_2[k] <= Q_2 /\ iGM_2[k] <= Q_2
  BY <1>2, <1>4, SMT
<1> HIDE DEF J, e, c
<1>6. T2!Cong(e, c)
  BY <1>3, <1>4, SMT DEF T2!Cong
<1>7. T2!Cong(c, T2!R * T2!R)
  <2> DEFINE r == 4564
             u == 233004
  <2>1. r \in Int /\ u \in Int /\ T2!R = r + Q_2 * u /\ c = r * r
    BY <1>4, SMT DEF T2!R, c
  <2> HIDE DEF r, u
  <2> DEFINE v == T2!R
             k1 == -(2 * (r * u) + Q_2 * (u * u))
  <2>2. v \in Int /\ v = r + Q_2 * u
    BY <1>5, <2>1, SMT
  <2> HIDE DEF v
  <2>3. k1 \in Int /\ v * v = r * r + Q_2 * (2 * (r * u) + Q_2 * (u * u))
    BY <1>5, <2>1, <2>2, SMT
  <2>4. r * r = v * v + Q_2 * k1
    BY <1>5, <2>1, <2>2, <2>3, SMT
  <2> HIDE DEF k1
  <2>5. T2!Cong(r * r, v * v)
    BY <2>3, <2>4, SMT DEF T2!Cong
  <2> QED
    BY <2>1, <2>5, Zenon DEF v
<1>8. T2!Cong(e, T2!R * T2!R)
  BY <1>3, <1>6, <1>7, ModulusQ2, T2!RInt, T2!CongTrans, SMT
<1>9. GM_2[k] \in T2!Residues /\ iGM_2[k] \in T2!Residues
  BY <1>2, <1>5, SMT DEF T2!Residues
<1> QED
  BY <1>8, <1>9, Zenon DEF e

\* The pairs of entries that mirror each other on a level of the tree of moduli.
MirrorPair(i, m) ==
    <<i, m>> \in {<<1, 1>>, <<2, 3>>, <<3, 2>>, <<4, 7>>, <<5, 6>>, <<6, 5>>, <<7, 4>>}

\* The entries that the conditions on the roots speak of.
LEMMA SmallIndices ==
  ASSUME LogN \in 1..3
  PROVE  /\ \A k \in 1..(N - 1) : 2 * k < N => k \in {1, 2, 3}
         /\ \A lm \in 0..(LogN - 1) : \A j \in 0..(2 ^ lm - 1) :
               MirrorPair(2 ^ lm + j, 2 ^ lm + (2 ^ lm - 1 - j))
<1>1. ASSUME NEW k \in 1..(N - 1), 2 * k < N PROVE k \in {1, 2, 3}
  <2>1. k \in {1, 2, 3, 4, 5, 6, 7}
    BY Entries, Zenon
  <2>2. N = 2 \/ N = 4 \/ N = 8
    BY Entries, Zenon
  <2> QED
    BY <1>1, <2>1, <2>2, SMT
<1>2. ASSUME NEW lm \in 0..(LogN - 1), NEW j \in 0..(2 ^ lm - 1)
      PROVE  MirrorPair(2 ^ lm + j, 2 ^ lm + (2 ^ lm - 1 - j))
  <2> DEFINE t == 2 ^ lm
  <2>1. t = 1 \/ t = 2 \/ t = 4
    <3>1. lm = 0 \/ lm = 1 \/ lm = 2
      OBVIOUS
    <3>2. CASE lm = 0
      BY <3>2, Powers, Zenon
    <3>3. CASE lm = 1
      BY <3>3, Powers, Zenon
    <3>4. CASE lm = 2
      BY <3>4, Powers, Zenon
    <3> QED
      BY <3>1, <3>2, <3>3, <3>4, Zenon
  <2>2. j \in 0..(t - 1)
    OBVIOUS
  <2> HIDE DEF t
  <2>3. MirrorPair(t + j, t + (t - 1 - j))
    BY <2>1, <2>2, SMT DEF MirrorPair
  <2> QED
    BY <2>3, Zenon DEF t
<1> QED
  BY <1>1, <1>2, Zenon

\* 2^32 modulo q, and modulo q'.
RofQ == 10952
RofQ2 == 4564

\* The table of fndsa_mq.c holds the roots of its modulus in the order the tree of moduli needs.
LEMMA TablesQRoots ==
  ASSUME ConstantsOfQ, LogN \in 1..3
  PROVE  TablesModulo(RofQ)
<1> DEFINE r == RofQ
<1>0. r \in Int /\ r = 10952
  BY SMT DEF RofQ
<1> HIDE DEF r
<1>1. Q = 12289
  BY <1>0, SMT DEF ConstantsOfQ
<1>2. Cong(r, R) /\ Cong(R2, r * r)
  <2> DEFINE u == -349496
             v == -9760
  <2>1. /\ u \in Int /\ r = R + 12289 * u
        /\ v \in Int /\ R2 = r * r + 12289 * v
    BY <1>0, SMT DEF R, ConstantsOfQ
  <2> HIDE DEF u, v
  <2> QED
    BY <1>0, <1>1, <2>1, SMT DEF Cong
<1>3. Cong(GM[1] * GM[1], -(r * r))
  <2>1. 19937 \in Int /\ GM[1] * GM[1] = -(r * r) + 12289 * 19937
    BY <1>0, SMT DEF ConstantsOfQ, GMq
  <2> QED
    BY <1>0, <1>1, <2>1, SMT DEF Cong
<1>4. ASSUME NEW k \in {1, 2, 3}
      PROVE  /\ Cong(GM[2 * k] * GM[2 * k], r * GM[k])
             /\ Cong(GM[2 * k + 1] * GM[2 * k + 1], -(r * GM[k]))
  <2> DEFINE J == <<-735, 2296, 9449>>
             L == <<10193, 11969, 8673>>
             x == GM[2 * k] * GM[2 * k]
             y == GM[2 * k + 1] * GM[2 * k + 1]
             z == r * GM[k]
  <2>1. /\ J[k] \in Int /\ x = z + 12289 * J[k]
        /\ L[k] \in Int /\ y = -z + 12289 * L[k]
    <3>1. k = 1 \/ k = 2 \/ k = 3
      OBVIOUS
    <3>2. CASE k = 1
      BY <1>0, <3>2, SMT DEF ConstantsOfQ, GMq
    <3>3. CASE k = 2
      BY <1>0, <3>3, SMT DEF ConstantsOfQ, GMq
    <3>4. CASE k = 3
      BY <1>0, <3>4, SMT DEF ConstantsOfQ, GMq
    <3> HIDE DEF J, L, x, y, z
    <3> QED
      BY <1>0, <3>1, <3>2, <3>3, <3>4, SMT
  <2> HIDE DEF J, L, x, y, z
  <2>2. Cong(x, z) /\ Cong(y, -z)
    BY <1>0, <1>1, <2>1, SMT DEF Cong
  <2> QED
    BY <2>2, Zenon DEF x, y, z
<1>5. ASSUME NEW i, NEW m, MirrorPair(i, m)
      PROVE  Cong(GM[i] * GM[m], -(r * r))
  <2> DEFINE J == <<19937, 11207, 11207, 18964, 14965, 14965, 18964>>
             x == GM[i] * GM[m]
  <2>1. i \in {1, 2, 3, 4, 5, 6, 7} /\ J[i] \in Int
    BY <1>0, <1>5, SMT DEF MirrorPair
  <2>2. x = -119946304 + 12289 * J[i]
    BY <1>0, <1>5, SMT DEF MirrorPair, ConstantsOfQ, GMq
  <2> HIDE DEF J, x
  <2>3. -(r * r) = -119946304
    BY <1>0, SMT
  <2>4. Cong(x, -(r * r))
    BY <1>0, <1>1, <2>1, <2>2, <2>3, SMT DEF Cong
  <2> QED
    BY <2>4, Zenon DEF x
<1>6. \A k \in 1..(N - 1) : 2 * k < N => k \in {1, 2, 3}
  BY SmallIndices, Zenon
<1>7. \A lm \in 0..(LogN - 1) : \A j \in 0..(2 ^ lm - 1) : MirrorPair(2 ^ lm + j, 2 ^ lm + (2 ^ lm - 1 - j))
  BY SmallIndices, Zenon
<1>8. \A k \in 1..(N - 1) : 2 * k < N =>
         /\ Cong(GM[2 * k] * GM[2 * k], r * GM[k])
         /\ Cong(GM[2 * k + 1] * GM[2 * k + 1], -(r * GM[k]))
  BY <1>0, <1>4, <1>6, SMT
<1>9. \A lm \in 0..(LogN - 1) : \A j \in 0..(2 ^ lm - 1) :
         Cong(GM[2 ^ lm + j] * GM[2 ^ lm + (2 ^ lm - 1 - j)], -(r * r))
  <2> SUFFICES ASSUME NEW lm \in 0..(LogN - 1), NEW j \in 0..(2 ^ lm - 1)
               PROVE  Cong(GM[2 ^ lm + j] * GM[2 ^ lm + (2 ^ lm - 1 - j)], -(r * r))
    OBVIOUS
  <2> DEFINE i == 2 ^ lm + j
             m == 2 ^ lm + (2 ^ lm - 1 - j)
  <2>1. MirrorPair(i, m)
    BY <1>7, Zenon
  <2> HIDE DEF i, m
  <2>2. Cong(GM[i] * GM[m], -(r * r))
    BY <1>5, <2>1
  <2> QED
    BY <2>2 DEF i, m
<1> QED
  BY <1>2, <1>3, <1>8, <1>9, Zenon DEF TablesModulo, r

\* The table of fndsa_sign_mq2.c holds the roots of its modulus in the order the tree of moduli needs.
LEMMA TablesQ2Roots ==
  ASSUME LogN \in 1..3
  PROVE  T2!TablesModulo(RofQ2)
<1> DEFINE r == RofQ2
<1>0. r \in Int /\ r = 4564
  BY SMT DEF RofQ2
<1> HIDE DEF r
<1>1. Q_2 = 18433
  BY <1>0, SMT DEF Q_2
<1>2. T2!Cong(r, T2!R) /\ T2!Cong(R2_2, r * r)
  <2> DEFINE u == -233004
             v == -1130
  <2>1. /\ u \in Int /\ r = T2!R + 18433 * u
        /\ v \in Int /\ R2_2 = r * r + 18433 * v
    BY <1>0, SMT DEF T2!R, R2_2
  <2> HIDE DEF u, v
  <2> QED
    BY <1>0, <1>1, <2>1, SMT DEF T2!Cong
<1>3. T2!Cong(GM_2[1] * GM_2[1], -(r * r))
  <2>1. 17012 \in Int /\ GM_2[1] * GM_2[1] = -(r * r) + 18433 * 17012
    BY <1>0, SMT DEF GM_2
  <2> QED
    BY <1>0, <1>1, <2>1, SMT DEF T2!Cong
<1>4. ASSUME NEW k \in {1, 2, 3}
      PROVE  /\ T2!Cong(GM_2[2 * k] * GM_2[2 * k], r * GM_2[k])
             /\ T2!Cong(GM_2[2 * k + 1] * GM_2[2 * k + 1], -(r * GM_2[k]))
  <2> DEFINE J == <<3788, 3201, -3367>>
             L == <<18488, 8121, 5412>>
             x == GM_2[2 * k] * GM_2[2 * k]
             y == GM_2[2 * k + 1] * GM_2[2 * k + 1]
             z == r * GM_2[k]
  <2>1. /\ J[k] \in Int /\ x = z + 18433 * J[k]
        /\ L[k] \in Int /\ y = -z + 18433 * L[k]
    <3>1. k = 1 \/ k = 2 \/ k = 3
      OBVIOUS
    <3>2. CASE k = 1
      BY <1>0, <3>2, SMT DEF GM_2
    <3>3. CASE k = 2
      BY <1>0, <3>3, SMT DEF GM_2
    <3>4. CASE k = 3
      BY <1>0, <3>4, SMT DEF GM_2
    <3> HIDE DEF J, L, x, y, z
    <3> QED
      BY <1>0, <3>1, <3>2, <3>3, <3>4, SMT
  <2> HIDE DEF J, L, x, y, z
  <2>2. T2!Cong(x, z) /\ T2!Cong(y, -z)
    BY <1>0, <1>1, <2>1, SMT DEF T2!Cong
  <2> QED
    BY <2>2, Zenon DEF x, y, z
<1>5. ASSUME NEW i, NEW m, MirrorPair(i, m)
      PROVE  T2!Cong(GM_2[i] * GM_2[m], -(r * r))
  <2> DEFINE J == <<17012, 11824, 11824, 4078, 2947, 2947, 4078>>
             x == GM_2[i] * GM_2[m]
  <2>1. i \in {1, 2, 3, 4, 5, 6, 7} /\ J[i] \in Int
    BY <1>0, <1>5, SMT DEF MirrorPair
  <2>2. x = -20830096 + 18433 * J[i]
    BY <1>0, <1>5, SMT DEF MirrorPair, GM_2
  <2> HIDE DEF J, x
  <2>3. -(r * r) = -20830096
    BY <1>0, SMT
  <2>4. T2!Cong(x, -(r * r))
    BY <1>0, <1>1, <2>1, <2>2, <2>3, SMT DEF T2!Cong
  <2> QED
    BY <2>4, Zenon DEF x
<1>6. \A k \in 1..(T2!N - 1) : 2 * k < T2!N => k \in {1, 2, 3}
  BY SmallIndices, Zenon DEF N, T2!N
<1>7. \A lm \in 0..(LogN - 1) : \A j \in 0..(2 ^ lm - 1) : MirrorPair(2 ^ lm + j, 2 ^ lm + (2 ^ lm - 1 - j))
  BY SmallIndices, Zenon
<1>8. \A k \in 1..(T2!N - 1) : 2 * k < T2!N =>
         /\ T2!Cong(GM_2[2 * k] * GM_2[2 * k], r * GM_2[k])
         /\ T2!Cong(GM_2[2 * k + 1] * GM_2[2 * k + 1], -(r * GM_2[k]))
  BY <1>0, <1>4, <1>6, SMT
<1>9. \A lm \in 0..(LogN - 1) : \A j \in 0..(2 ^ lm - 1) :
         T2!Cong(GM_2[2 ^ lm + j] * GM_2[2 ^ lm + (2 ^ lm - 1 - j)], -(r * r))
  <2> SUFFICES ASSUME NEW lm \in 0..(LogN - 1), NEW j \in 0..(2 ^ lm - 1)
               PROVE  T2!Cong(GM_2[2 ^ lm + j] * GM_2[2 ^ lm + (2 ^ lm - 1 - j)], -(r * r))
    OBVIOUS
  <2> DEFINE i == 2 ^ lm + j
             m == 2 ^ lm + (2 ^ lm - 1 - j)
  <2>1. MirrorPair(i, m)
    BY <1>7, Zenon
  <2> HIDE DEF i, m
  <2>2. T2!Cong(GM_2[i] * GM_2[m], -(r * r))
    BY <1>5, <2>1
  <2> QED
    BY <2>2 DEF i, m
<1> QED
  BY <1>2, <1>3, <1>8, <1>9, Zenon DEF T2!TablesModulo, r

\* Everything the theorems about the NTT ask of the constants.
LEMMA TablesCorrectQ == ASSUME ConstantsOfQ, LogN \in 1..3 PROVE TablesCorrect
<1>1. RofQ \in Int
  BY SMT DEF RofQ
<1>2. NegInverse /\ TablesInverse /\ TablesModulo(RofQ)
  BY <1>1, InverseQ, TablesQ, TablesQRoots, SMT
<1> QED
  BY <1>1, <1>2, TablesFromResidue, SMT

\* The same modulo q'.
LEMMA TablesCorrectQ2 == ASSUME LogN \in 1..3 PROVE T2!TablesCorrect
<1>1. RofQ2 \in Int
  BY SMT DEF RofQ2
<1>2. T2!NegInverse /\ T2!TablesInverse /\ T2!TablesModulo(RofQ2)
  BY <1>1, InverseQ2, TablesQ2, TablesQ2Roots, SMT
<1> QED
  BY <1>1, <1>2, ModulusQ2, T2!TablesFromResidue, SMT

-----------------------------------------------------------------------------
\* The transforms modulo q, for every polynomial.
LEMMA RoundTripQ ==
  ASSUME ConstantsOfQ, LogN \in 1..3, NEW d \in [Idx -> Residues]
  PROVE  ntt_to_int(int_to_ntt(d)) = d
<1>1. LogN \in 1..10 /\ NegInverse /\ TablesInverse
  BY InverseQ, TablesQ
<1> QED
  BY <1>1, NttInverse, Zenon

\* The instances of the proofs and of the checks modulo q' are the same arithmetic.
LEMMA SameOperations ==
  /\ \A e : T2!int_to_ntt(e) = M2!int_to_ntt(e) /\ T2!ntt_to_int(e) = M2!ntt_to_int(e)
  /\ \A e, f : T2!mul_ntt(e, f) = M2!mul_ntt(e, f) /\ T2!muladj_ntt(e, f) = M2!muladj_ntt(e, f)
  /\ \A e, f : T2!muladj_x2_ntt(e, f) = M2!muladj_x2_ntt(e, f)
  /\ \A e, f, g, h : T2!muladj_add_muladj(e, f, g, h) = M2!muladj_add_muladj(e, f, g, h)
  /\ \A e, f : T2!SchoolMul(e, f) = M2!SchoolMul(e, f) /\ T2!SchoolAdd(e, f) = M2!SchoolAdd(e, f)
  /\ \A e : T2!Adj(e) = M2!Adj(e)
<1>1. \A x, y : T2!mq_mmul(x, y) = M2!mq_mmul(x, y)
  <2>1. ASSUME NEW x PROVE T2!mq_mred(x) = M2!mq_mred(x)
    BY SMT DEF T2!mq_mred, M2!mq_mred
  <2> QED
    BY <2>1, Zenon DEF T2!mq_mmul, M2!mq_mmul
<1>2. \A x, y : T2!mq_add(x, y) = M2!mq_add(x, y) /\ T2!mq_sub(x, y) = M2!mq_sub(x, y)
  BY Zenon DEF T2!mq_add, T2!mq_sub, T2!AddBack, M2!mq_add, M2!mq_sub, M2!AddBack
<1>3. \A x : T2!mq_half(x) = M2!mq_half(x)
  BY Zenon DEF T2!mq_half, M2!mq_half
<1>4. ASSUME NEW e, NEW lm
      PROVE  T2!ForwardStage(e, lm) = M2!ForwardStage(e, lm) /\ T2!InverseStage(e, lm) = M2!InverseStage(e, lm)
  <2>1. T2!ForwardStage(e, lm) = M2!ForwardStage(e, lm)
    BY <1>1, <1>2, SMT DEF T2!ForwardStage, M2!ForwardStage, T2!Idx, T2!N, M2!Idx, M2!N
  <2>2. T2!InverseStage(e, lm) = M2!InverseStage(e, lm)
    BY <1>1, <1>2, <1>3, SMT DEF T2!InverseStage, M2!InverseStage, T2!Idx, T2!N, M2!Idx, M2!N
  <2> QED
    BY <2>1, <2>2
<1>5. \A e, lm : T2!ForwardStage(e, lm) = M2!ForwardStage(e, lm) /\ T2!InverseStage(e, lm) = M2!InverseStage(e, lm)
  BY <1>4, Zenon
<1>6. \A e : T2!int_to_ntt(e) = M2!int_to_ntt(e) /\ T2!ntt_to_int(e) = M2!ntt_to_int(e)
  BY <1>5, Zenon DEF T2!int_to_ntt, T2!ntt_to_int, M2!int_to_ntt, M2!ntt_to_int
<1>7. T2!Idx = M2!Idx /\ T2!N = M2!N
  BY Zenon DEF T2!Idx, T2!N, M2!Idx, M2!N
<1>8. /\ \A e, f : T2!mul_ntt(e, f) = M2!mul_ntt(e, f) /\ T2!muladj_ntt(e, f) = M2!muladj_ntt(e, f)
      /\ \A e, f, g, h : T2!muladj_add_muladj(e, f, g, h) = M2!muladj_add_muladj(e, f, g, h)
  BY <1>1, <1>2, <1>7, Zenon DEF T2!mul_ntt, M2!mul_ntt, T2!muladj_ntt, M2!muladj_ntt,
     T2!muladj_add_muladj, M2!muladj_add_muladj
<1>9. \A e, f : T2!muladj_x2_ntt(e, f) = M2!muladj_x2_ntt(e, f)
  <2> SUFFICES ASSUME NEW e, NEW f PROVE T2!muladj_x2_ntt(e, f) = M2!muladj_x2_ntt(e, f)
    BY Zenon
  <2> DEFINE g(i) == T2!mq_mmul(T2!mq_add(T2!mq_mmul(e[i], e[T2!N - 1 - i]),
                                          T2!mq_mmul(f[i], f[T2!N - 1 - i])), R2_2)
             h(i) == M2!mq_mmul(M2!mq_add(M2!mq_mmul(e[i], e[M2!N - 1 - i]),
                                          M2!mq_mmul(f[i], f[M2!N - 1 - i])), R2_2)
  <2>1. \A i : g(i) = h(i)
    BY <1>1, <1>2, <1>7, Zenon
  <2>2. T2!muladj_x2_ntt(e, f) = [i \in T2!Idx |-> IF 2 * i < T2!N THEN g(i) ELSE g(T2!N - 1 - i)]
    BY Zenon DEF T2!muladj_x2_ntt
  <2>3. M2!muladj_x2_ntt(e, f) = [i \in M2!Idx |-> IF 2 * i < M2!N THEN h(i) ELSE h(M2!N - 1 - i)]
    BY Zenon DEF M2!muladj_x2_ntt
  <2> HIDE DEF g, h
  <2> QED
    BY <1>7, <2>1, <2>2, <2>3, Zenon
<1>10. \A x : T2!Canon(x) = M2!Canon(x)
  BY Zenon DEF T2!Canon, M2!Canon
<1>11. \A f, k : T2!Total(f, k) = M2!Total(f, k)
  BY Zenon DEF T2!Total, M2!Total
<1>12. \A e, f : T2!SchoolMul(e, f) = M2!SchoolMul(e, f)
  BY <1>7, <1>10, <1>11, Zenon DEF T2!SchoolMul, M2!SchoolMul
<1>13. /\ \A e, f : T2!SchoolAdd(e, f) = M2!SchoolAdd(e, f)
       /\ \A e : T2!Adj(e) = M2!Adj(e)
  BY <1>7, <1>10, Zenon DEF T2!SchoolAdd, M2!SchoolAdd, T2!Adj, M2!Adj
<1> QED
  BY <1>6, <1>8, <1>9, <1>12, <1>13, Zenon

\* The transforms modulo q', for every polynomial.
LEMMA RoundTripQ2 ==
  ASSUME LogN \in 1..3, NEW d \in [Idx -> M2!Residues]
  PROVE  M2!ntt_to_int(M2!int_to_ntt(d)) = d
<1>1. LogN \in 1..10 /\ T2!NegInverse /\ T2!TablesInverse
  BY InverseQ2, TablesQ2
<1>2. d \in [T2!Idx -> T2!Residues]
  BY SMT DEF Idx, N, T2!Idx, T2!N, T2!Residues, M2!Residues
<1>3. T2!ntt_to_int(T2!int_to_ntt(d)) = d
  BY <1>1, <1>2, ModulusQ2, T2!NttInverse, SMT
<1> QED
  BY <1>3, SameOperations, Zenon

\* The products modulo q, of every two polynomials.
LEMMA ProductsQ ==
  ASSUME ConstantsOfQ, LogN \in 1..3, NEW x \in [Idx -> Residues], NEW y \in [Idx -> Residues]
  PROVE  /\ ntt_to_int(mul_ntt(int_to_ntt(x), int_to_ntt(y))) = SchoolMul(x, y)
         /\ ntt_to_int(muladj_ntt(int_to_ntt(x), int_to_ntt(y))) = SchoolMul(x, Adj(y))
         /\ ntt_to_int(muladj_x2_ntt(int_to_ntt(x), int_to_ntt(y))) =
               SchoolAdd(SchoolMul(x, Adj(x)), SchoolMul(y, Adj(y)))
         /\ ntt_to_int(muladj_add_muladj(int_to_ntt(x), int_to_ntt(y), int_to_ntt(y), int_to_ntt(x))) =
               SchoolAdd(SchoolMul(x, Adj(y)), SchoolMul(y, Adj(x)))
<1>1. TablesCorrect /\ LogN \in 1..10
  BY TablesCorrectQ
<1> QED
  BY <1>1, SlotwiseIsSchoolbook, MirroredIsSchoolbook, Zenon

\* The products modulo q', of every two polynomials.
LEMMA ProductsQ2 ==
  ASSUME LogN \in 1..3, NEW x \in [Idx -> M2!Residues], NEW y \in [Idx -> M2!Residues]
  PROVE  /\ M2!ntt_to_int(M2!mul_ntt(M2!int_to_ntt(x), M2!int_to_ntt(y))) = M2!SchoolMul(x, y)
         /\ M2!ntt_to_int(M2!muladj_ntt(M2!int_to_ntt(x), M2!int_to_ntt(y))) =
               M2!SchoolMul(x, M2!Adj(y))
         /\ M2!ntt_to_int(M2!muladj_x2_ntt(M2!int_to_ntt(x), M2!int_to_ntt(y))) =
               M2!SchoolAdd(M2!SchoolMul(x, M2!Adj(x)), M2!SchoolMul(y, M2!Adj(y)))
         /\ M2!ntt_to_int(M2!muladj_add_muladj(M2!int_to_ntt(x), M2!int_to_ntt(y),
                                               M2!int_to_ntt(y), M2!int_to_ntt(x))) =
               M2!SchoolAdd(M2!SchoolMul(x, M2!Adj(y)), M2!SchoolMul(y, M2!Adj(x)))
<1>1. T2!TablesCorrect /\ LogN \in 1..10
  BY TablesCorrectQ2
<1>2. x \in [T2!Idx -> T2!Residues] /\ y \in [T2!Idx -> T2!Residues]
  BY SMT DEF Idx, N, T2!Idx, T2!N, T2!Residues, M2!Residues
<1>3. T2!ntt_to_int(T2!mul_ntt(T2!int_to_ntt(x), T2!int_to_ntt(y))) = T2!SchoolMul(x, y)
  BY <1>1, <1>2, ModulusQ2, T2!SlotwiseIsSchoolbook, SMT
<1>4. /\ T2!ntt_to_int(T2!muladj_ntt(T2!int_to_ntt(x), T2!int_to_ntt(y))) = T2!SchoolMul(x, T2!Adj(y))
      /\ T2!ntt_to_int(T2!muladj_x2_ntt(T2!int_to_ntt(x), T2!int_to_ntt(y))) =
            T2!SchoolAdd(T2!SchoolMul(x, T2!Adj(x)), T2!SchoolMul(y, T2!Adj(y)))
      /\ T2!ntt_to_int(T2!muladj_add_muladj(T2!int_to_ntt(x), T2!int_to_ntt(y),
                                            T2!int_to_ntt(y), T2!int_to_ntt(x))) =
            T2!SchoolAdd(T2!SchoolMul(x, T2!Adj(y)), T2!SchoolMul(y, T2!Adj(x)))
  BY <1>1, <1>2, ModulusQ2, T2!MirroredIsSchoolbook, SMT
<1> QED
  BY <1>3, <1>4, SameOperations, Zenon

\* What the polynomials of the run are, modulo either modulus.
LEMMA InputsOfBoth ==
  ASSUME NEW x \in [Idx -> Coefs]
  PROVE  x \in [Idx -> Residues] /\ InQ2(x) \in [Idx -> M2!Residues]
<1>1. x \in [Idx -> Residues]
  BY CoefsAssumption
<1>2. Q_2 \in Int /\ Q_2 = 18433 /\ 1 <= Q_2 /\ 350 <= Q_2
  BY SMT DEF Q_2
<1>3. 1 \in M2!Residues /\ 350 \in M2!Residues /\ Q_2 \in M2!Residues
  BY <1>2, SMT DEF M2!Residues
<1> QED
  BY <1>1, <1>2, <1>3, SMT DEF InQ2

\* The inverse transform gives back every polynomial that run ntt could choose, for both
\* moduli and degrees 2, 4 and 8 (mqpoly_int_to_ntt() and mqpoly_ntt_to_int()).
THEOREM BothRoundTrips ==
  ASSUME ConstantsOfQ, LogN \in 1..3
  PROVE  Spec => []BothRoundTrip
<1> DEFINE Inv == a \in [Idx -> Coefs]
<1>1. Init => Inv
  BY DEF Init, Inputs
<1>2. Inv /\ [Next]_<<a, b>> => Inv'
  BY DEF Next, Pick, Inputs
<1>3. Inv => BothRoundTrip
  <2> SUFFICES ASSUME Inv PROVE BothRoundTrip
    OBVIOUS
  <2>1. a \in [Idx -> Residues]
    BY InputsOfBoth, Zenon
  <2>2. NttRoundTrip
    BY <2>1, RoundTripQ, Zenon DEF NttRoundTrip
  <2>3. InQ2(a) \in [Idx -> M2!Residues]
    BY InputsOfBoth, Zenon
  <2>4. M2!NttRoundTrip
    BY <2>3, RoundTripQ2, Zenon DEF M2!NttRoundTrip
  <2> QED
    BY <2>2, <2>4 DEF BothRoundTrip
<1> QED
  BY <1>1, <1>2, <1>3, PTL DEF Spec

\* Both polynomials that run ntt chooses stay polynomials with coefficients in Coefs.
LEMMA BothInputs == Spec => [](a \in [Idx -> Coefs] /\ b \in [Idx -> Coefs])
<1> DEFINE Inv == a \in [Idx -> Coefs] /\ b \in [Idx -> Coefs]
<1>1. Init => Inv
  BY DEF Init, Inputs
<1>2. Inv /\ [Next]_<<a, b>> => Inv'
  BY DEF Next, Pick, Inputs
<1> QED
  BY <1>1, <1>2, PTL DEF Spec

\* The product of NTT values slot by slot (mqpoly_mul_ntt()) is the product modulo X^N + 1
\* of every two polynomials that run ntt could choose, for both moduli and degrees 2, 4
\* and 8, zero being stored as the modulus.
THEOREM BothMultiplyAlways ==
  ASSUME ConstantsOfQ, LogN \in 1..3
  PROVE  Spec => []BothMultiply
<1>1. ASSUME a \in [Idx -> Coefs], b \in [Idx -> Coefs] PROVE BothMultiply
  <2>1. /\ a \in [Idx -> Residues] /\ b \in [Idx -> Residues]
        /\ InQ2(a) \in [Idx -> M2!Residues] /\ InQ2(b) \in [Idx -> M2!Residues]
    BY <1>1, InputsOfBoth, Zenon
  <2>2. NttMultiplies
    BY <2>1, ProductsQ, Zenon DEF NttMultiplies
  <2>3. M2!NttMultiplies
    BY <2>1, ProductsQ2, Zenon DEF M2!NttMultiplies
  <2> QED
    BY <2>2, <2>3 DEF BothMultiply
<1> QED
  BY <1>1, BothInputs, PTL

\* The products with an adjoint, which sign_core() builds its Gram matrix from, are what the
\* schoolbook gives of every two polynomials that run ntt could choose, for both moduli and
\* degrees 2, 4 and 8 (mq2poly_muladj_ntt(), mqpoly_muladj_x2_ntt() and
\* mqpoly_muladj_add_muladj()).
THEOREM BothAdjointsAlways ==
  ASSUME ConstantsOfQ, LogN \in 1..3
  PROVE  Spec => []BothAdjointProducts
<1>1. ASSUME a \in [Idx -> Coefs], b \in [Idx -> Coefs] PROVE BothAdjointProducts
  <2>1. /\ a \in [Idx -> Residues] /\ b \in [Idx -> Residues]
        /\ InQ2(a) \in [Idx -> M2!Residues] /\ InQ2(b) \in [Idx -> M2!Residues]
    BY <1>1, InputsOfBoth, Zenon
  <2>2. AdjointProducts
    BY <2>1, ProductsQ, Zenon DEF AdjointProducts
  <2>3. M2!AdjointProducts
    BY <2>1, ProductsQ2, Zenon DEF M2!AdjointProducts
  <2> QED
    BY <2>2, <2>3 DEF BothAdjointProducts
<1> QED
  BY <1>1, BothInputs, PTL
=============================================================================
