------------------------------ MODULE Shake_proofs ------------------------------
(***************************************************************************)
(* The permutations of fndsa_sha3.c and of the first implementation's      *)
(* shake.c, portable and Cortex-M4, are the Keccak-f of FIPS 202; the      *)
(* streaming calls return the output of its sponge, for every message and  *)
(* all lengths of the calls.  The lemmas go from lanes to rounds, to the   *)
(* permutations, to one injection or extraction, to the calls' history.    *)
(***************************************************************************)
EXTENDS ShakeCheck, Induction

-----------------------------------------------------------------------------
(* Lanes: exclusive or, complement and rotation.                             *)

Lane == SUBSET Bits
State == [Lanes -> Lane]

\* A lane as it is stored: complemented (1) or not (0).
Mask(m, x) == IF m = 1 THEN NotL(x) ELSE x
Flag == {0, 1}
\* The flag of an exclusive or.
Both(m, n) == (m + n) % 2

LEMMA Fives == ASSUME NEW x \in 1..5 PROVE x = 1 \/ x = 2 \/ x = 3 \/ x = 4 \/ x = 5
  OBVIOUS

\* The bit that a rotation brings to place c.
Back(c, r) == IF r <= c THEN c - r ELSE c - r + 64

LEMMA RotBit ==
  ASSUME NEW b \in Bits, NEW r \in Bits, NEW c \in Bits
  PROVE  c = (b + r) % 64 <=> b = Back(c, r)
<1>1. (b + r) % 64 = IF b + r < 64 THEN b + r ELSE b + r - 64
  BY DEF Bits
<1> QED
  BY <1>1 DEF Bits, Back

LEMMA RotlIs ==
  ASSUME NEW x \in Lane, NEW r \in Bits, NEW c \in Bits
  PROVE  c \in Rotl(x, r) <=> Back(c, r) \in x
<1>1. Back(c, r) \in Bits
  BY DEF Bits, Back
<1>2. ASSUME NEW b \in x PROVE c = (b + r) % 64 <=> b = Back(c, r)
  BY RotBit DEF Lane
<1>3. c \in Rotl(x, r) <=> \E b \in x : c = (b + r) % 64
  BY DEF Rotl
<1> QED
  BY <1>1, <1>2, <1>3

LEMMA RotlLane == ASSUME NEW x \in Lane, NEW r \in Bits PROVE Rotl(x, r) \in Lane
<1>1. ASSUME NEW b \in x PROVE (b + r) % 64 \in Bits
  <2>1. b \in Bits
    BY DEF Lane
  <2> QED
    BY <2>1 DEF Bits
<1> QED
  BY <1>1 DEF Rotl, Lane

LEMMA XorLane ==
  ASSUME NEW x \in Lane, NEW y \in Lane PROVE XorL(x, y) \in Lane /\ NotL(x) \in Lane
  BY DEF XorL, NotL, Lane

\* Masks go through exclusive or and rotation.
LEMMA XorMask ==
  ASSUME NEW x \in Lane, NEW y \in Lane, NEW m \in Flag, NEW n \in Flag
  PROVE  XorL(Mask(m, x), Mask(n, y)) = Mask(Both(m, n), XorL(x, y)) /\ Both(m, n) \in Flag
<1>1. (m = 0 \/ m = 1) /\ (n = 0 \/ n = 1)
  BY DEF Flag
<1>2. XorL(NotL(x), NotL(y)) = XorL(x, y)
  BY DEF XorL, NotL, Lane
<1>3. XorL(NotL(x), y) = NotL(XorL(x, y)) /\ XorL(x, NotL(y)) = NotL(XorL(x, y))
  BY DEF XorL, NotL, Lane
<1> QED
  BY <1>1, <1>2, <1>3 DEF Mask, Flag, Both

LEMMA RotlMask ==
  ASSUME NEW x \in Lane, NEW r \in Bits, NEW m
  PROVE  Rotl(Mask(m, x), r) = Mask(m, Rotl(x, r))
<1>1. NotL(x) \in Lane /\ Rotl(x, r) \in Lane /\ Rotl(NotL(x), r) \in Lane
  BY XorLane, RotlLane
<1>2. ASSUME NEW c \in Bits PROVE c \in Rotl(NotL(x), r) <=> c \notin Rotl(x, r)
  <2>1. c \in Rotl(NotL(x), r) <=> Back(c, r) \in NotL(x)
    BY <1>1, RotlIs
  <2>2. c \in Rotl(x, r) <=> Back(c, r) \in x
    BY RotlIs
  <2>3. Back(c, r) \in Bits
    BY DEF Bits, Back
  <2> QED
    BY <2>1, <2>2, <2>3 DEF NotL
<1>3. Rotl(NotL(x), r) = NotL(Rotl(x, r))
  BY <1>1, <1>2 DEF NotL, Lane
<1> QED
  BY <1>3 DEF Mask

\* The lanes of an odd number of five.
LEMMA Parity ==
  ASSUME NEW a \in Lane, NEW b \in Lane, NEW c \in Lane, NEW d \in Lane, NEW e \in Lane
  PROVE  {u \in Bits : (IF u \in a THEN 1 ELSE 0) + (IF u \in b THEN 1 ELSE 0) + (IF u \in c THEN 1 ELSE 0)
                        + (IF u \in d THEN 1 ELSE 0) + (IF u \in e THEN 1 ELSE 0) \in {1, 3, 5}}
           = XorL(XorL(XorL(a, b), XorL(c, d)), e)
<1> DEFINE P == XorL(XorL(XorL(a, b), XorL(c, d)), e)
           n(u) == (IF u \in a THEN 1 ELSE 0) + (IF u \in b THEN 1 ELSE 0) + (IF u \in c THEN 1 ELSE 0)
                        + (IF u \in d THEN 1 ELSE 0) + (IF u \in e THEN 1 ELSE 0)
<1>1. P \in Lane
  BY XorLane
<1>2. ASSUME NEW u \in Bits PROVE u \in P <=> n(u) \in {1, 3, 5}
  <2>1. u \in P <=> (((u \in a) # (u \in b)) # ((u \in c) # (u \in d))) # (u \in e)
    BY DEF XorL
  <2> HIDE DEF P
  <2> QED
    BY <2>1
<1> QED
  BY <1>1, <1>2 DEF Lane

-----------------------------------------------------------------------------
(* The tables.  Lane (x, y) of the standard, counted from 1, is at Home(x, y) *)
(* between two iterations; six lanes are stored complemented.                 *)

Home(x, y) == (x - 1) + 5 * (y - 1)
Swapped(x, y) == IF Home(x, y) \in {1, 2, 8, 12, 17, 20} THEN 1 ELSE 0
\* After theta, which complements the first and the fourth column.
MidSwapped(x, y) == Both(Swapped(x, y), IF x \in {1, 4} THEN 1 ELSE 0)
\* pi brings to (x, y) the lane of column Src(x, y) and row x.
Src(x, y) == ((x - 1 + 3 * (y - 1)) % 5) + 1

\* Entries of a table are different lanes.
Table(col) ==
    \A x, y \in 1..5 : /\ col[x][y] \in Lanes
                       /\ \A u, v \in 1..5 : col[x][y] = col[u][v] => x = u /\ y = v

\* A holds B with lane (x, y) at col[x][y], complemented where it has to be.
Placed(A, B, col) == \A x, y \in 1..5 : A[col[x][y]] = Mask(Swapped(x, y), B[Home(x, y)])

LEMMA SrcRange == ASSUME NEW x \in 1..5, NEW y \in 1..5 PROVE Src(x, y) \in 1..5
  BY DEF Src

LEMMA HomeIs ==
  ASSUME NEW x \in 1..5, NEW y \in 1..5
  PROVE  Home(x, y) \in Lanes /\ Home(x, y) % 5 = x - 1 /\ Home(x, y) \div 5 = y - 1
  BY Fives DEF Home, Lanes

LEMMA HomeOf ==
  ASSUME NEW i \in Lanes
  PROVE  \E x, y \in 1..5 : i = Home(x, y)
<1>1. (i % 5) + 1 \in 1..5 /\ (i \div 5) + 1 \in 1..5
  BY DEF Lanes
<1>2. i = Home((i % 5) + 1, (i \div 5) + 1)
  BY DEF Home, Lanes
<1> QED
  BY <1>1, <1>2

LEMMA ColAHome == ASSUME NEW x \in 1..5, NEW y \in 1..5 PROVE ColA[x][y] = Home(x, y)
  BY Fives DEF ColA, Home

LEMMA TableA == Table(ColA)
<1>1. ASSUME NEW x \in 1..5, NEW y \in 1..5, NEW u \in 1..5, NEW v \in 1..5, Home(x, y) = Home(u, v)
      PROVE  x = u /\ y = v
  BY <1>1 DEF Home
<1> QED
  BY <1>1, ColAHome, HomeIs DEF Table

\* Where the entries of ColB are.
ColumnB == <<1, 1, 1, 1, 1, 2, 2, 2, 2, 2, 3, 3, 3, 3, 3, 4, 4, 4, 4, 4, 5, 5, 5, 5, 5>>
RowInB == <<1, 3, 5, 2, 4, 4, 1, 3, 5, 2, 2, 4, 1, 3, 5, 5, 2, 4, 1, 3, 3, 5, 2, 4, 1>>

LEMMA PlaceB ==
  ASSUME NEW x \in 1..5, NEW y \in 1..5
  PROVE  ColB[x][y] \in Lanes /\ ColumnB[ColB[x][y] + 1] = x /\ RowInB[ColB[x][y] + 1] = y
  BY Fives DEF ColB, ColumnB, RowInB, Lanes

LEMMA TableB == Table(ColB)
  BY PlaceB, SMTT(60) DEF Table

LEMMA RowsA == ASSUME NEW x \in 1..5, NEW y \in 1..5
               PROVE RowA[y][x] = ColA[Src(x, y)][x] /\ RowA[y][x] = ColB[x][y]
  BY Fives DEF ColA, RowA, ColB, Src

LEMMA RowsB == ASSUME NEW x \in 1..5, NEW y \in 1..5 PROVE RowB[y][x] = ColB[Src(x, y)][x]
  BY Fives DEF ColB, RowB, Src

LEMMA RotRange == ASSUME NEW x \in 1..5, NEW y \in 1..5 PROVE Rot[x][y] \in Bits
  BY Fives DEF Rot, Bits

\* Where the entries of Cycles are.
CycleOf == <<1, 2, 2, 2, 2, 1, 1, 2, 1, 2, 1, 1, 1, 2, 2, 1, 2, 2, 1, 1, 1, 2, 1, 2, 1>>
StepOf == <<1, 1, 4, 10, 7, 1, 5, 12, 12, 2, 4, 3, 8, 5, 3, 10, 9, 11, 2, 9, 7, 8, 6, 6, 11>>

LEMMA PlaceCycle ==
  ASSUME NEW k \in 1..2, NEW m \in 1..12
  PROVE  CycleOf[Cycles[k][m] + 1] = k /\ StepOf[Cycles[k][m] + 1] = m
<1>1. m \in {1, 2, 3, 4, 5, 6, 7, 8, 9, 10, 11, 12} /\ (k = 1 \/ k = 2)
  OBVIOUS
<1>2. CASE k = 1
  BY <1>1, <1>2 DEF Cycles, CycleOf, StepOf
<1>3. CASE k = 2
  BY <1>1, <1>3 DEF Cycles, CycleOf, StepOf
<1> QED
  BY <1>1, <1>2, <1>3

\* The step after i in its cycle leads to the lane that was displaced from i.
LEMMA CyclePlace ==
  ASSUME NEW x \in 1..5, NEW y \in 1..5, Home(x, y) # 0
  PROVE  LET k == CycleOf[Home(x, y) + 1]
             m == StepOf[Home(x, y) + 1]
         IN  k \in 1..2 /\ m \in 1..12 /\ Cycles[k][m] = Home(x, y) /\ Cycles[k][(m % 12) + 1] = RowB[y][x]
<1>1. CASE x = 1
  BY <1>1, Fives DEF Home, Cycles, CycleOf, StepOf, RowB
<1>2. CASE x = 2
  BY <1>2, Fives DEF Home, Cycles, CycleOf, StepOf, RowB
<1>3. CASE x = 3
  BY <1>3, Fives DEF Home, Cycles, CycleOf, StepOf, RowB
<1>4. CASE x = 4
  BY <1>4, Fives DEF Home, Cycles, CycleOf, StepOf, RowB
<1>5. CASE x = 5
  BY <1>5, Fives DEF Home, Cycles, CycleOf, StepOf, RowB
<1> QED
  BY <1>1, <1>2, <1>3, <1>4, <1>5, Fives, Zenon

\* Shuffle brings every lane home.
LEMMA ShuffleIs ==
  ASSUME NEW A, NEW x \in 1..5, NEW y \in 1..5
  PROVE  Shuffle(A)[Home(x, y)] = A[RowB[y][x]]
<1> DEFINE i == Home(x, y)
           k == CycleOf[i + 1]
           m == StepOf[i + 1]
           P(ck) == Cycles[ck[1]][ck[2]] = i
           c == CHOOSE ck \in (1..2) \X (1..12) : P(ck)
<1>1. i \in Lanes
  BY HomeIs
<1>2. CASE i = 0
  <2>1. RowB[y][x] = 0
    <3>1. x = 1 /\ y = 1
      BY <1>2 DEF Home
    <3> QED
      BY <3>1 DEF RowB
  <2> HIDE DEF i
  <2> QED
    BY <1>1, <1>2, <2>1 DEF Shuffle, i
<1>3. CASE i # 0
  <2>1. k \in 1..2 /\ m \in 1..12 /\ Cycles[k][m] = i /\ Cycles[k][(m % 12) + 1] = RowB[y][x]
    BY <1>3, CyclePlace, Zenon
  <2> HIDE DEF k, m
  <2>2. <<k, m>> \in (1..2) \X (1..12) /\ P(<<k, m>>)
    BY <2>1
  <2>3. c \in (1..2) \X (1..12) /\ P(c)
    <3> HIDE DEF P
    <3> QED
      BY <2>2, Zenon
  <2>4. c[1] = k /\ c[2] = m
    <3> HIDE DEF c, i
    <3>1. c[1] \in 1..2 /\ c[2] \in 1..12 /\ Cycles[c[1]][c[2]] = i
      BY <2>3
    <3> QED
      BY <3>1, PlaceCycle, Zenon DEF k, m
  <2>5. Shuffle(A)[i] = A[Cycles[c[1]][(c[2] % 12) + 1]]
    <3> HIDE DEF i
    <3> QED
      BY <1>1, <1>3, Zenon DEF Shuffle, c
  <2> QED
    BY <2>1, <2>4, <2>5, Zenon
<1> QED
  BY <1>2, <1>3

-----------------------------------------------------------------------------
(* Theta and rho.                                                            *)

\* The parities of the columns of the standard.
LEMMA ParityIs ==
  ASSUME NEW B \in State, NEW x \in 1..5
  PROVE  /\ ColumnParity(B)[x - 1] =
                XorL(XorL(XorL(B[Home(x, 1)], B[Home(x, 2)]), XorL(B[Home(x, 3)], B[Home(x, 4)])), B[Home(x, 5)])
         /\ ColumnParity(B)[x - 1] \in Lane
<1> DEFINE a == B[Home(x, 1)]
           b == B[Home(x, 2)]
           c == B[Home(x, 3)]
           d == B[Home(x, 4)]
           e == B[Home(x, 5)]
           P == XorL(XorL(XorL(a, b), XorL(c, d)), e)
<1>1. a \in Lane /\ b \in Lane /\ c \in Lane /\ d \in Lane /\ e \in Lane
  BY HomeIs DEF State
<1>2. /\ At(B, x - 1, 0) = a /\ At(B, x - 1, 1) = b /\ At(B, x - 1, 2) = c
      /\ At(B, x - 1, 3) = d /\ At(B, x - 1, 4) = e
  BY DEF At, Home
<1> HIDE DEF a, b, c, d, e
<1>3. ColumnParity(B)[x - 1] =
        {u \in Bits : (IF u \in a THEN 1 ELSE 0) + (IF u \in b THEN 1 ELSE 0) + (IF u \in c THEN 1 ELSE 0)
                      + (IF u \in d THEN 1 ELSE 0) + (IF u \in e THEN 1 ELSE 0) \in {1, 3, 5}}
  <2>1. x - 1 \in 0..4
    OBVIOUS
  <2> QED
    BY <1>2, <2>1, ZenonT(60) DEF ColumnParity
<1>4. ColumnParity(B)[x - 1] = P
  BY <1>1, <1>3, Parity
<1>5. P \in Lane
  <2>1. XorL(a, b) \in Lane /\ XorL(c, d) \in Lane
    BY <1>1, XorLane
  <2>2. XorL(XorL(a, b), XorL(c, d)) \in Lane
    BY <2>1, XorLane
  <2> QED
    BY <1>1, <2>2, XorLane
<1> QED
  BY <1>4, <1>5, Zenon DEF a, b, c, d, e

\* Three of the columns have an odd number of complemented lanes, the first three and the fourth.
LEMMA ColumnMask ==
  ASSUME NEW x \in 1..5
  PROVE  Both(Both(Both(Swapped(x, 1), Swapped(x, 2)), Both(Swapped(x, 3), Swapped(x, 4))), Swapped(x, 5))
           = IF x = 5 THEN 0 ELSE 1
  BY Fives DEF Swapped, Home, Both

LEMMA SwappedIs == ASSUME NEW x, NEW y PROVE Swapped(x, y) \in Flag /\ MidSwapped(x, y) \in Flag
<1>1. Swapped(x, y) \in {0, 1}
  BY DEF Swapped
<1> QED
  BY <1>1 DEF MidSwapped, Flag, Both

\* The parities that the code computes.
LEMMA ParitiesAre ==
  ASSUME NEW A, NEW col, NEW B \in State, Placed(A, B, col), NEW x \in 1..5
  PROVE  Parities(A, col)[x] = Mask(IF x = 5 THEN 0 ELSE 1, ColumnParity(B)[x - 1])
<1> DEFINE a == B[Home(x, 1)]
           b == B[Home(x, 2)]
           c == B[Home(x, 3)]
           d == B[Home(x, 4)]
           e == B[Home(x, 5)]
           k == Swapped(x, 1)
           l == Swapped(x, 2)
           m == Swapped(x, 3)
           n == Swapped(x, 4)
           f == Swapped(x, 5)
<1>1. \A y \in 1..5 : A[col[x][y]] = Mask(Swapped(x, y), B[Home(x, y)])
  BY DEF Placed
<1>2. Parities(A, col)[x] = XorL(XorL(XorL(A[col[x][1]], A[col[x][2]]), XorL(A[col[x][3]], A[col[x][4]])),
                         A[col[x][5]])
  BY DEF Parities
<1>3. /\ A[col[x][1]] = Mask(k, a) /\ A[col[x][2]] = Mask(l, b) /\ A[col[x][3]] = Mask(m, c)
      /\ A[col[x][4]] = Mask(n, d) /\ A[col[x][5]] = Mask(f, e)
  BY <1>1
<1>4. /\ a \in Lane /\ b \in Lane /\ c \in Lane /\ d \in Lane /\ e \in Lane
      /\ k \in Flag /\ l \in Flag /\ m \in Flag /\ n \in Flag /\ f \in Flag
  BY HomeIs, SwappedIs DEF State
<1>5. ColumnParity(B)[x - 1] = XorL(XorL(XorL(a, b), XorL(c, d)), e)
  BY ParityIs
<1> DEFINE z == IF x = 5 THEN 0 ELSE 1
<1>6. z = Both(Both(Both(k, l), Both(m, n)), f)
  BY ColumnMask
<1> HIDE DEF a, b, c, d, e, k, l, m, n, f, z
<1>7. XorL(XorL(XorL(Mask(k, a), Mask(l, b)), XorL(Mask(m, c), Mask(n, d))), Mask(f, e))
           = Mask(z, XorL(XorL(XorL(a, b), XorL(c, d)), e))
  <2>1. Both(k, l) \in Flag /\ Both(m, n) \in Flag
    BY <1>4, XorMask
  <2>2. XorL(a, b) \in Lane /\ XorL(c, d) \in Lane
    BY <1>4, XorLane
  <2>3. XorL(Mask(k, a), Mask(l, b)) = Mask(Both(k, l), XorL(a, b))
    BY <1>4, XorMask
  <2>4. XorL(Mask(m, c), Mask(n, d)) = Mask(Both(m, n), XorL(c, d))
    BY <1>4, XorMask
  <2>5. XorL(Mask(Both(k, l), XorL(a, b)), Mask(Both(m, n), XorL(c, d)))
           = Mask(Both(Both(k, l), Both(m, n)), XorL(XorL(a, b), XorL(c, d)))
    BY <1>4, <2>1, <2>2, XorMask
  <2>6. Both(Both(k, l), Both(m, n)) \in Flag
    BY <1>4, <2>1, XorMask
  <2>7. XorL(XorL(a, b), XorL(c, d)) \in Lane
    BY <1>4, <2>2, XorLane
  <2>8. XorL(Mask(Both(Both(k, l), Both(m, n)), XorL(XorL(a, b), XorL(c, d))), Mask(f, e))
           = Mask(Both(Both(Both(k, l), Both(m, n)), f), XorL(XorL(XorL(a, b), XorL(c, d)), e))
    BY <1>4, <2>6, <2>7, XorMask
  <2> QED
    BY <1>6, <2>3, <2>4, <2>5, <2>8, Zenon
<1> QED
  BY <1>2, <1>3, <1>5, <1>7, Zenon DEF z

\* What theta adds to the lanes of column x, in the standard and in the code.
Effect(B, x) == XorL(ColumnParity(B)[(x + 3) % 5], Rotl(ColumnParity(B)[x % 5], 1))

LEMMA EffectLane == ASSUME NEW B \in State, NEW x \in 1..5 PROVE Effect(B, x) \in Lane
<1> DEFINE u == ((x + 3) % 5) + 1
           v == (x % 5) + 1
<1>1. u \in 1..5 /\ v \in 1..5 /\ u - 1 = (x + 3) % 5 /\ v - 1 = x % 5 /\ 1 \in Bits
  BY DEF Bits
<1> HIDE DEF u, v
<1>2. ColumnParity(B)[u - 1] \in Lane /\ ColumnParity(B)[v - 1] \in Lane
  BY <1>1, ParityIs
<1>3. Rotl(ColumnParity(B)[v - 1], 1) \in Lane
  BY <1>1, <1>2, RotlLane
<1>4. XorL(ColumnParity(B)[u - 1], Rotl(ColumnParity(B)[v - 1], 1)) \in Lane
  BY <1>2, <1>3, XorLane
<1> QED
  BY <1>1, <1>4, Zenon DEF Effect

LEMMA EffectIs ==
  ASSUME NEW A, NEW col, NEW B \in State, Placed(A, B, col), NEW x \in 1..5
  PROVE  XorL(Parities(A, col)[((x + 3) % 5) + 1], Rotl(Parities(A, col)[(x % 5) + 1], 1))
           = Mask(IF x \in {1, 4} THEN 1 ELSE 0, Effect(B, x))
<1> DEFINE u == ((x + 3) % 5) + 1
           v == (x % 5) + 1
           p == ColumnParity(B)[u - 1]
           r == ColumnParity(B)[v - 1]
           m == IF u = 5 THEN 0 ELSE 1
           n == IF v = 5 THEN 0 ELSE 1
<1>1. /\ u \in 1..5 /\ v \in 1..5 /\ u - 1 = (x + 3) % 5 /\ v - 1 = x % 5 /\ 1 \in Bits
      /\ Both(m, n) = IF x \in {1, 4} THEN 1 ELSE 0
  BY Fives DEF Bits, Both
<1> HIDE DEF u, v
<1>2. p \in Lane /\ r \in Lane /\ m \in Flag /\ n \in Flag
  BY <1>1, ParityIs DEF Flag
<1>3. Parities(A, col)[u] = Mask(m, p) /\ Parities(A, col)[v] = Mask(n, r)
  BY <1>1, ParitiesAre
<1> HIDE DEF p, r, m, n
<1>4. Rotl(Mask(n, r), 1) = Mask(n, Rotl(r, 1)) /\ Rotl(r, 1) \in Lane
  BY <1>1, <1>2, RotlMask, RotlLane
<1>5. XorL(Mask(m, p), Mask(n, Rotl(r, 1))) = Mask(Both(m, n), XorL(p, Rotl(r, 1)))
  BY <1>2, <1>4, XorMask
<1>6. Effect(B, x) = XorL(p, Rotl(r, 1))
  BY <1>1, Zenon DEF Effect, p, r
<1> QED
  BY <1>1, <1>3, <1>4, <1>5, <1>6, Zenon DEF u, v

\* theta() of the standard.
LEMMA ThetaIs ==
  ASSUME NEW B \in State, NEW x \in 1..5, NEW y \in 1..5
  PROVE  Theta(B)[Home(x, y)] = XorL(B[Home(x, y)], Effect(B, x))
<1> DEFINE i == Home(x, y)
           C == ColumnParity(B)
<1>1. i \in Lanes /\ i % 5 = x - 1 /\ i \div 5 = y - 1
  BY HomeIs
<1>2. Theta(B) = [j \in Lanes |-> XorL(At(B, j % 5, j \div 5), XorL(C[((j % 5) + 4) % 5], Rotl(C[((j % 5) + 1) % 5], 1)))]
  BY DEF Theta, With, OnLanes
<1>3. At(B, x - 1, y - 1) = B[i]
  BY DEF At, Home
<1>4. ((x - 1) + 4) % 5 = (x + 3) % 5 /\ ((x - 1) + 1) % 5 = x % 5
  OBVIOUS
<1> HIDE DEF i, C
<1>5. Theta(B)[i] = XorL(At(B, x - 1, y - 1), XorL(C[((x - 1) + 4) % 5], Rotl(C[((x - 1) + 1) % 5], 1)))
  BY <1>1, <1>2
<1> QED
  BY <1>3, <1>4, <1>5, Zenon DEF Effect, C, i

LEMMA ThetaState == ASSUME NEW B \in State PROVE Theta(B) \in State
<1>1. ASSUME NEW i \in Lanes PROVE Theta(B)[i] \in Lane
  <2>1. PICK x \in 1..5, y \in 1..5 : i = Home(x, y)
    BY HomeOf
  <2>2. Theta(B)[i] = XorL(B[i], Effect(B, x))
    BY <2>1, ThetaIs
  <2>3. B[i] \in Lane /\ Effect(B, x) \in Lane
    BY EffectLane DEF State
  <2> QED
    BY <2>2, <2>3, XorLane
<1>2. Theta(B) = [i \in Lanes |-> Theta(B)[i]]
  BY DEF Theta, With, OnLanes
<1> QED
  BY <1>1, <1>2 DEF State

\* The entry of a table that is a given lane.
Entry(col, i) == CHOOSE xy \in (1..5) \X (1..5) : col[xy[1]][xy[2]] = i

LEMMA EntryIs ==
  ASSUME NEW col, Table(col), NEW x \in 1..5, NEW y \in 1..5
  PROVE  Entry(col, col[x][y])[1] = x /\ Entry(col, col[x][y])[2] = y
<1> DEFINE P(xy) == col[xy[1]][xy[2]] = col[x][y]
           c == CHOOSE xy \in (1..5) \X (1..5) : P(xy)
<1>1. <<x, y>> \in (1..5) \X (1..5) /\ P(<<x, y>>)
  OBVIOUS
<1>2. c \in (1..5) \X (1..5) /\ P(c)
  <2> HIDE DEF P
  <2> QED
    BY <1>1, Zenon
<1> HIDE DEF c
<1>3. c[1] \in 1..5 /\ c[2] \in 1..5 /\ col[c[1]][c[2]] = col[x][y]
  BY <1>2
<1>4. c[1] = x /\ c[2] = y
  BY <1>3, SMTT(60) DEF Table
<1> QED
  BY <1>4, Zenon DEF c, Entry

\* Lane (x, y) after theta and rho, stored at col[x][y].
LEMMA ThetaRhoIs ==
  ASSUME NEW A, NEW col, NEW B \in State, Table(col), Placed(A, B, col), NEW x \in 1..5, NEW y \in 1..5
  PROVE  ThetaRho(A, col)[col[x][y]] = Mask(MidSwapped(x, y), Rotl(Theta(B)[Home(x, y)], Rot[x][y]))
<1> DEFINE par == Parities(A, col)
           t == [u \in 1..5 |-> XorL(par[((u + 3) % 5) + 1], Rotl(par[(u % 5) + 1], 1))]
           i == col[x][y]
           c == Entry(col, i)
           m == IF x \in {1, 4} THEN 1 ELSE 0
           b == B[Home(x, y)]
           e == Effect(B, x)
           G(u) == [j \in Lanes |-> LET xy == CHOOSE xy \in (1..5) \X (1..5) : col[xy[1]][xy[2]] = j
                                   IN  Rotl(XorL(A[j], u[xy[1]]), Rot[xy[1]][xy[2]])]
           T(p) == [u \in 1..5 |-> XorL(p[((u + 3) % 5) + 1], Rotl(p[(u % 5) + 1], 1))]
<1>1. ThetaRho(A, col) = G(t)
  <2>1. ThetaRho(A, col) = With(par, LAMBDA p : With(T(p), G))
    BY Zenon DEF ThetaRho
  <2>2. t = T(par)
    OBVIOUS
  <2> HIDE DEF G, T, t, par
  <2>3. With(par, LAMBDA p : With(T(p), G)) = G(T(par))
    BY DEF With
  <2> QED
    BY <2>1, <2>2, <2>3, Zenon
<1>2. i \in Lanes
  BY DEF Table
<1>3. c[1] = x /\ c[2] = y
  BY EntryIs
<1>4. t[x] = Mask(m, e)
  BY EffectIs, Zenon
<1>5. A[i] = Mask(Swapped(x, y), b)
  BY Zenon DEF Placed
<1>6. Theta(B)[Home(x, y)] = XorL(b, e)
  BY ThetaIs
<1>7. Swapped(x, y) \in Flag /\ m \in Flag /\ b \in Lane /\ e \in Lane /\ Rot[x][y] \in Bits
  BY SwappedIs, HomeIs, EffectLane, RotRange DEF Flag, State
<1>8. MidSwapped(x, y) = Both(Swapped(x, y), m)
  BY DEF MidSwapped
<1>9. ThetaRho(A, col)[i] = Rotl(XorL(A[i], t[c[1]]), Rot[c[1]][c[2]])
  <2> HIDE DEF t, i
  <2> QED
    BY <1>1, <1>2, Zenon DEF c, Entry
<1> HIDE DEF t, c, m, b, e
<1>10. XorL(Mask(Swapped(x, y), b), Mask(m, e)) = Mask(Both(Swapped(x, y), m), XorL(b, e))
  BY <1>7, XorMask
<1>11. XorL(b, e) \in Lane
  BY <1>7, XorLane
<1>12. Rotl(Mask(Both(Swapped(x, y), m), XorL(b, e)), Rot[x][y])
          = Mask(Both(Swapped(x, y), m), Rotl(XorL(b, e), Rot[x][y]))
  BY <1>7, <1>11, RotlMask
<1> QED
  BY <1>3, <1>4, <1>5, <1>6, <1>8, <1>9, <1>10, <1>12, Zenon

-----------------------------------------------------------------------------
(* The loops are one scheme: entry k of a recursive function from entry k - 1. *)

\* The state after the first 136 of its 200 bytes are mixed with a block.
MixedByte(A, block, v) == IF v < 136 THEN XorL(StateByte(A, v), block[v]) ELSE StateByte(A, v)
Absorb(A, block) == [i \in Lanes |-> {b \in Bits : b % 8 \in MixedByte(A, block, 8 * i + (b \div 8))}]
\* Block q of the message.
MsgBlock(q) == [v \in 0..135 |-> Msg[136 * q + v]]

\* One iteration of the loop loop[1] on x; k counts from 1.
LoopStep(loop, x, k) ==
    CASE loop[1] = "rho"      -> <<x[2], (2 * x[1] + 3 * x[2]) % 5>>
      [] loop[1] = "rounds"   -> TwoRounds(x, 2 * (k - 1))
      [] loop[1] = "standard" -> [Chi(RhoPi(Theta(x))) EXCEPT ![0] = XorL(@, RC[k])]
      [] loop[1] = "m4"       -> M4Round(x, k - 1)
      [] loop[1] = "inject"   -> InjectStep(x, loop[2], loop[3])
      [] loop[1] = "extract"  -> ExtractStep(x, loop[2], loop[3])
      [] loop[1] = "blocks"   -> KeccakF(Absorb(x, MsgBlock(k - 1)))
      [] loop[1] = "absorb"   -> KeccakF([i \in Lanes |->
                     {b \in Bits : (b \in x[i]) #
                         (8 * i < loop[5] /\ (b % 8) \in PaddedByte(loop[2], loop[3], loop[4], loop[5],
                                                       loop[5] * (k - 1) + 8 * i + (b \div 8)))}])
      [] loop[1] = "squeeze"  -> KeccakF(x)
      [] loop[1] = "legacy_inject" -> LegacyInjectStep(loop[2], x, loop[3], loop[4])
      [] OTHER                -> LegacyExtractStep(loop[2], x)

\* h[k] is the value after k iterations.
Iterates(h, loop, d, len) == h = [k \in 0..len |-> IF k = 0 THEN d ELSE LoopStep(loop, h[k - 1], k)]

\* A recursive function over 0..len with the iterations of a loop.
Runs(h, loop, d, len) == h[0] = d /\ \A k \in 1..len : h[k] = LoopStep(loop, h[k - 1], k)

\* The values after 0, 1, ..., len iterations exist.
LEMMA LoopExists ==
  ASSUME NEW loop, NEW d, NEW len \in Nat
  PROVE  \E h : Iterates(h, loop, d, len)
<1> DEFINE E(h, n) == h = [k \in 0..n |-> IF k = 0 THEN d ELSE LoopStep(loop, h[k - 1], k)]
           S == {n \in Nat : \E h : E(h, n)}
<1>1. 0 \in S
  <2> DEFINE h == [k \in 0..0 |-> d]
  <2>1. E(h, 0)
    OBVIOUS
  <2> QED
    BY <2>1, Zenon
<1>2. ASSUME NEW n \in Nat, n \in S PROVE n + 1 \in S
  <2>1. PICK h : E(h, n)
    BY <1>2
  <2> DEFINE e == [k \in 0..(n + 1) |-> IF k = n + 1 THEN LoopStep(loop, h[n], n + 1) ELSE h[k]]
  <2>2. ASSUME NEW k \in 0..(n + 1)
        PROVE  e[k] = IF k = 0 THEN d ELSE LoopStep(loop, e[k - 1], k)
    <3>1. CASE k = n + 1
      <4>1. k # 0 /\ k - 1 = n /\ n \in 0..(n + 1) /\ n # n + 1
        BY <3>1
      <4>2. e[k] = LoopStep(loop, h[n], k) /\ e[n] = h[n]
        BY <3>1, <4>1, Zenon
      <4> QED
        BY <4>1, <4>2, Zenon
    <3>2. CASE k # n + 1
      <4>1. k \in 0..n
        BY <3>2
      <4>2. e[k] = h[k]
        BY <3>2, Zenon
      <4>3. h[k] = IF k = 0 THEN d ELSE LoopStep(loop, h[k - 1], k)
        BY <2>1, <4>1, Zenon
      <4>4. CASE k # 0
        <5>1. k - 1 \in 0..(n + 1) /\ k - 1 # n + 1
          BY <4>1, <4>4
        <5>2. e[k - 1] = h[k - 1]
          BY <5>1, Zenon
        <5> QED
          BY <4>2, <4>3, <4>4, <5>2, Zenon
      <4> QED
        BY <4>2, <4>3, <4>4, Zenon
    <3> QED
      BY <3>1, <3>2
  <2>3. e = [k \in 0..(n + 1) |-> e[k]]
    OBVIOUS
  <2> HIDE DEF e
  <2>4. E(e, n + 1)
    BY <2>2, <2>3, Zenon
  <2> HIDE DEF E
  <2> QED
    BY <2>4
<1>3. len \in S
  <2> HIDE DEF S
  <2> QED
    BY <1>1, <1>2, NatSetInduction
<1> QED
  BY <1>3 DEF Iterates

LEMMA LoopRuns ==
  ASSUME NEW loop, NEW d, NEW len \in Nat, NEW f, Iterates(f, loop, d, len)
  PROVE  Runs(f, loop, d, len)
<1>1. f[0] = d
  <2>1. 0 \in 0..len
    OBVIOUS
  <2> QED
    BY <2>1, Zenon DEF Iterates
<1>2. ASSUME NEW k \in 1..len PROVE f[k] = LoopStep(loop, f[k - 1], k)
  <2>1. k \in 0..len /\ k # 0
    OBVIOUS
  <2> QED
    BY <2>1, Zenon DEF Iterates
<1> QED
  BY <1>1, <1>2, Zenon DEF Runs

\* The positions that rho visits.
LEMMA RhoLoop ==
  ASSUME NEW x, NEW y, ~(x = 0 /\ y = 0)
  PROVE  \E h : /\ Runs(h, <<"rho">>, <<1, 0>>, 23)
                /\ Offset(x, y) = LET t == CHOOSE t \in 0..23 : h[t] = <<x, y>>
                                  IN  (((t + 1) * (t + 2)) \div 2) % 64
<1> DEFINE loop == <<"rho">>
           d == <<1, 0>>
           step(u, k) == With(u, LAMBDA p : <<p[2], (2 * p[1] + 3 * p[2]) % 5>>)
           E(h) == h = [t \in 0..23 |-> IF t = 0 THEN d ELSE step(h[t - 1], t)]
           f == CHOOSE h : E(h)
<1>1. ASSUME NEW u, NEW k PROVE LoopStep(loop, u, k) = step(u, k)
  BY DEF LoopStep, With
<1>2. Offset(x, y) = LET t == CHOOSE t \in 0..23 : f[t] = <<x, y>> IN (((t + 1) * (t + 2)) \div 2) % 64
  BY Zenon DEF Offset
<1> HIDE DEF loop, d, step
<1>3. \E h : E(h)
  <2>1. PICK h : Iterates(h, loop, d, 23)
    BY LoopExists
  <2>2. E(h)
    BY <1>1, <2>1, Zenon DEF Iterates
  <2> HIDE DEF E
  <2> QED
    BY <2>2, Zenon
<1>4. E(f)
  <2> HIDE DEF E
  <2> QED
    BY <1>3, Zenon
<1>5. Iterates(f, loop, d, 23)
  BY <1>1, <1>4, Zenon DEF Iterates
<1>6. Runs(f, loop, d, 23)
  <2> HIDE DEF f
  <2> QED
    BY <1>5, LoopRuns
<1> HIDE DEF f
<1> QED
  BY <1>2, <1>6, Zenon DEF loop, d

\* The positions themselves, and the step that reaches lane x + 5*y.
RhoX == <<1, 0, 2, 1, 2, 3, 3, 0, 1, 3, 1, 4, 4, 0, 3, 4, 3, 2, 2, 0, 4, 2, 4, 1>>
RhoY == <<0, 2, 1, 2, 3, 3, 0, 1, 3, 1, 4, 4, 0, 3, 4, 3, 2, 2, 0, 4, 2, 4, 1, 1>>
RhoTime == <<0, 0, 18, 6, 12, 7, 23, 2, 9, 22, 1, 3, 17, 16, 20, 13, 8, 4, 5, 15, 19, 10, 21, 14, 11>>

LEMMA Steps24 ==
  ASSUME NEW t \in 0..23
  PROVE  t \in {0, 1, 2, 3, 4, 5, 6, 7, 8, 9, 10, 11} \/ t \in {12, 13, 14, 15, 16, 17, 18, 19, 20, 21, 22, 23}
  OBVIOUS

LEMMA RhoNext ==
  ASSUME NEW t \in 0..22
  PROVE  RhoX[t + 2] = RhoY[t + 1] /\ RhoY[t + 2] = (2 * RhoX[t + 1] + 3 * RhoY[t + 1]) % 5
<1>1. CASE t \in {0, 1, 2, 3, 4, 5, 6, 7, 8, 9, 10, 11}
  BY <1>1 DEF RhoX, RhoY
<1>2. CASE t \in {12, 13, 14, 15, 16, 17, 18, 19, 20, 21, 22}
  BY <1>2 DEF RhoX, RhoY
<1> QED
  BY <1>1, <1>2

LEMMA RhoTimeIs ==
  ASSUME NEW t \in 0..23
  PROVE  RhoTime[RhoX[t + 1] + 5 * RhoY[t + 1] + 1] = t
<1>1. CASE t \in {0, 1, 2, 3, 4, 5, 6, 7, 8, 9, 10, 11}
  BY <1>1 DEF RhoX, RhoY, RhoTime
<1>2. CASE t \in {12, 13, 14, 15, 16, 17, 18, 19, 20, 21, 22, 23}
  BY <1>2 DEF RhoX, RhoY, RhoTime
<1> QED
  BY <1>1, <1>2, Steps24

LEMMA RhoReaches ==
  ASSUME NEW x \in 1..5, NEW y \in 1..5, ~(x = 1 /\ y = 1)
  PROVE  LET t == RhoTime[Home(x, y) + 1]
         IN  /\ t \in 0..23 /\ RhoX[t + 1] = x - 1 /\ RhoY[t + 1] = y - 1
             /\ (((t + 1) * (t + 2)) \div 2) % 64 = Rot[x][y]
<1>1. CASE x = 1
  BY <1>1, Fives DEF Home, RhoX, RhoY, RhoTime, Rot
<1>2. CASE x = 2
  BY <1>2, Fives DEF Home, RhoX, RhoY, RhoTime, Rot
<1>3. CASE x = 3
  BY <1>3, Fives DEF Home, RhoX, RhoY, RhoTime, Rot
<1>4. CASE x = 4
  BY <1>4, Fives DEF Home, RhoX, RhoY, RhoTime, Rot
<1>5. CASE x = 5
  BY <1>5, Fives DEF Home, RhoX, RhoY, RhoTime, Rot
<1> QED
  BY <1>1, <1>2, <1>3, <1>4, <1>5, Fives, Zenon

LEMMA RhoIs ==
  ASSUME NEW h, Runs(h, <<"rho">>, <<1, 0>>, 23), NEW t \in 0..23
  PROVE  h[t] = <<RhoX[t + 1], RhoY[t + 1]>>
<1> DEFINE S == {n \in Nat : n <= 23 => h[n] = <<RhoX[n + 1], RhoY[n + 1]>>}
<1>1. 0 \in S
  BY DEF Runs, RhoX, RhoY
<1>2. ASSUME NEW n \in Nat, n \in S PROVE n + 1 \in S
  <2> SUFFICES ASSUME n + 1 <= 23 PROVE h[n + 1] = <<RhoX[n + 2], RhoY[n + 2]>>
    OBVIOUS
  <2>1. n + 1 \in 1..23 /\ n \in 0..22 /\ (n + 1) - 1 = n
    OBVIOUS
  <2>2. h[n + 1] = LoopStep(<<"rho">>, h[n], n + 1)
    BY <2>1, Zenon DEF Runs
  <2>3. LoopStep(<<"rho">>, h[n], n + 1) = <<h[n][2], (2 * h[n][1] + 3 * h[n][2]) % 5>>
    BY DEF LoopStep
  <2>4. h[n] = <<RhoX[n + 1], RhoY[n + 1]>>
    BY <1>2, <2>1
  <2>5. h[n][1] = RhoX[n + 1] /\ h[n][2] = RhoY[n + 1]
    BY <2>4
  <2> QED
    BY <2>1, <2>2, <2>3, <2>5, RhoNext, Zenon
<1> HIDE DEF S
<1>3. t \in S
  BY <1>1, <1>2, NatSetInduction
<1> QED
  BY <1>3 DEF S

\* The rotations of the code are those of the standard.
LEMMA OffsetIs ==
  ASSUME NEW x \in 1..5, NEW y \in 1..5
  PROVE  Offset(x - 1, y - 1) = Rot[x][y]
<1>1. CASE x = 1 /\ y = 1
  <2>1. x - 1 = 0 /\ y - 1 = 0
    BY <1>1
  <2>2. Offset(x - 1, y - 1) = 0
    BY <2>1, Zenon DEF Offset
  <2> QED
    BY <1>1, <2>2 DEF Rot
<1>2. CASE ~(x = 1 /\ y = 1)
  <2>1. ~(x - 1 = 0 /\ y - 1 = 0)
    BY <1>2
  <2>2. PICK h : /\ Runs(h, <<"rho">>, <<1, 0>>, 23)
                 /\ Offset(x - 1, y - 1) = LET t == CHOOSE t \in 0..23 : h[t] = <<x - 1, y - 1>>
                                           IN  (((t + 1) * (t + 2)) \div 2) % 64
    BY <2>1, RhoLoop, Zenon
  <2> DEFINE P(t) == h[t] = <<x - 1, y - 1>>
             c == CHOOSE t \in 0..23 : P(t)
             v == RhoTime[Home(x, y) + 1]
  <2>3. v \in 0..23 /\ RhoX[v + 1] = x - 1 /\ RhoY[v + 1] = y - 1 /\ (((v + 1) * (v + 2)) \div 2) % 64 = Rot[x][y]
    BY <1>2, RhoReaches, Zenon
  <2>4. P(v)
    <3> HIDE DEF v
    <3> QED
      BY <2>2, <2>3, RhoIs
  <2>5. c \in 0..23 /\ P(c)
    <3> HIDE DEF P, v
    <3> QED
      BY <2>3, <2>4, Zenon
  <2>6. c = v
    <3> HIDE DEF c
    <3>1. h[c] = <<RhoX[c + 1], RhoY[c + 1]>>
      BY <2>2, <2>5, RhoIs
    <3>2. RhoX[c + 1] = x - 1 /\ RhoY[c + 1] = y - 1
      BY <2>5, <3>1
    <3>3. RhoX[c + 1] + 5 * RhoY[c + 1] + 1 = Home(x, y) + 1
      BY <3>2 DEF Home
    <3> QED
      BY <2>5, <3>3, RhoTimeIs
  <2> QED
    BY <2>2, <2>3, <2>6, Zenon
<1> QED
  BY <1>1, <1>2

-----------------------------------------------------------------------------
(* Pi, chi and iota.                                                         *)

\* The row mixes compute chi on lanes that are complemented or not.
LEMMA ChiRow1Is ==
  ASSUME NEW q, NEW r, q[1] \in Lane, q[2] \in Lane, q[3] \in Lane, q[4] \in Lane, q[5] \in Lane,
         r[1] = NotL(q[1]), r[2] = q[2], r[3] = NotL(q[3]), r[4] = NotL(q[4]), r[5] = q[5]
  PROVE  /\ ChiRow1(r)[1] = XorL(q[1], q[3] \ q[2])
         /\ ChiRow1(r)[2] = NotL(XorL(q[2], q[4] \ q[3]))
         /\ ChiRow1(r)[3] = NotL(XorL(q[3], q[5] \ q[4]))
         /\ ChiRow1(r)[4] = XorL(q[4], q[1] \ q[5])
         /\ ChiRow1(r)[5] = XorL(q[5], q[2] \ q[1])
<1>1. ChiRow1(r)[1] = XorL(q[1], q[3] \ q[2])
  BY DEF ChiRow1, NotL, XorL, Lane
<1>2. ChiRow1(r)[2] = NotL(XorL(q[2], q[4] \ q[3]))
  BY DEF ChiRow1, NotL, XorL, Lane
<1>3. ChiRow1(r)[3] = NotL(XorL(q[3], q[5] \ q[4]))
  BY DEF ChiRow1, NotL, XorL, Lane
<1>4. ChiRow1(r)[4] = XorL(q[4], q[1] \ q[5])
  BY DEF ChiRow1, NotL, XorL, Lane
<1>5. ChiRow1(r)[5] = XorL(q[5], q[2] \ q[1])
  BY DEF ChiRow1, NotL, XorL, Lane
<1> QED
  BY <1>1, <1>2, <1>3, <1>4, <1>5

LEMMA ChiRow2Is ==
  ASSUME NEW q, NEW r, q[1] \in Lane, q[2] \in Lane, q[3] \in Lane, q[4] \in Lane, q[5] \in Lane,
         r[1] = NotL(q[1]), r[2] = q[2], r[3] = NotL(q[3]), r[4] = q[4], r[5] = q[5]
  PROVE  /\ ChiRow2(r)[1] = XorL(q[1], q[3] \ q[2])
         /\ ChiRow2(r)[2] = XorL(q[2], q[4] \ q[3])
         /\ ChiRow2(r)[3] = XorL(q[3], q[5] \ q[4])
         /\ ChiRow2(r)[4] = NotL(XorL(q[4], q[1] \ q[5]))
         /\ ChiRow2(r)[5] = XorL(q[5], q[2] \ q[1])
<1>1. ChiRow2(r)[1] = XorL(q[1], q[3] \ q[2])
  BY DEF ChiRow2, NotL, XorL, Lane
<1>2. ChiRow2(r)[2] = XorL(q[2], q[4] \ q[3])
  BY DEF ChiRow2, NotL, XorL, Lane
<1>3. ChiRow2(r)[3] = XorL(q[3], q[5] \ q[4])
  BY DEF ChiRow2, NotL, XorL, Lane
<1>4. ChiRow2(r)[4] = NotL(XorL(q[4], q[1] \ q[5]))
  BY DEF ChiRow2, NotL, XorL, Lane
<1>5. ChiRow2(r)[5] = XorL(q[5], q[2] \ q[1])
  BY DEF ChiRow2, NotL, XorL, Lane
<1> QED
  BY <1>1, <1>2, <1>3, <1>4, <1>5

LEMMA ChiRow3Is ==
  ASSUME NEW q, NEW r, q[1] \in Lane, q[2] \in Lane, q[3] \in Lane, q[4] \in Lane, q[5] \in Lane,
         r[1] = NotL(q[1]), r[2] = q[2], r[3] = NotL(q[3]), r[4] = q[4], r[5] = q[5]
  PROVE  /\ ChiRow3(r)[1] = XorL(q[1], q[3] \ q[2])
         /\ ChiRow3(r)[2] = XorL(q[2], q[4] \ q[3])
         /\ ChiRow3(r)[3] = NotL(XorL(q[3], q[5] \ q[4]))
         /\ ChiRow3(r)[4] = XorL(q[4], q[1] \ q[5])
         /\ ChiRow3(r)[5] = XorL(q[5], q[2] \ q[1])
<1>1. ChiRow3(r)[1] = XorL(q[1], q[3] \ q[2])
  BY DEF ChiRow3, NotL, XorL, Lane
<1>2. ChiRow3(r)[2] = XorL(q[2], q[4] \ q[3])
  BY DEF ChiRow3, NotL, XorL, Lane
<1>3. ChiRow3(r)[3] = NotL(XorL(q[3], q[5] \ q[4]))
  BY DEF ChiRow3, NotL, XorL, Lane
<1>4. ChiRow3(r)[4] = XorL(q[4], q[1] \ q[5])
  BY DEF ChiRow3, NotL, XorL, Lane
<1>5. ChiRow3(r)[5] = XorL(q[5], q[2] \ q[1])
  BY DEF ChiRow3, NotL, XorL, Lane
<1> QED
  BY <1>1, <1>2, <1>3, <1>4, <1>5

LEMMA ChiRow4Is ==
  ASSUME NEW q, NEW r, q[1] \in Lane, q[2] \in Lane, q[3] \in Lane, q[4] \in Lane, q[5] \in Lane,
         r[1] = q[1], r[2] = NotL(q[2]), r[3] = q[3], r[4] = NotL(q[4]), r[5] = NotL(q[5])
  PROVE  /\ ChiRow4(r)[1] = XorL(q[1], q[3] \ q[2])
         /\ ChiRow4(r)[2] = XorL(q[2], q[4] \ q[3])
         /\ ChiRow4(r)[3] = NotL(XorL(q[3], q[5] \ q[4]))
         /\ ChiRow4(r)[4] = XorL(q[4], q[1] \ q[5])
         /\ ChiRow4(r)[5] = XorL(q[5], q[2] \ q[1])
<1>1. ChiRow4(r)[1] = XorL(q[1], q[3] \ q[2])
  BY DEF ChiRow4, NotL, XorL, Lane
<1>2. ChiRow4(r)[2] = XorL(q[2], q[4] \ q[3])
  BY DEF ChiRow4, NotL, XorL, Lane
<1>3. ChiRow4(r)[3] = NotL(XorL(q[3], q[5] \ q[4]))
  BY DEF ChiRow4, NotL, XorL, Lane
<1>4. ChiRow4(r)[4] = XorL(q[4], q[1] \ q[5])
  BY DEF ChiRow4, NotL, XorL, Lane
<1>5. ChiRow4(r)[5] = XorL(q[5], q[2] \ q[1])
  BY DEF ChiRow4, NotL, XorL, Lane
<1> QED
  BY <1>1, <1>2, <1>3, <1>4, <1>5

LEMMA ChiRow5Is ==
  ASSUME NEW q, NEW r, q[1] \in Lane, q[2] \in Lane, q[3] \in Lane, q[4] \in Lane, q[5] \in Lane,
         r[1] = NotL(q[1]), r[2] = q[2], r[3] = q[3], r[4] = NotL(q[4]), r[5] = q[5]
  PROVE  /\ ChiRow5(r)[1] = NotL(XorL(q[1], q[3] \ q[2]))
         /\ ChiRow5(r)[2] = XorL(q[2], q[4] \ q[3])
         /\ ChiRow5(r)[3] = XorL(q[3], q[5] \ q[4])
         /\ ChiRow5(r)[4] = XorL(q[4], q[1] \ q[5])
         /\ ChiRow5(r)[5] = XorL(q[5], q[2] \ q[1])
<1>1. ChiRow5(r)[1] = NotL(XorL(q[1], q[3] \ q[2]))
  BY DEF ChiRow5, NotL, XorL, Lane
<1>2. ChiRow5(r)[2] = XorL(q[2], q[4] \ q[3])
  BY DEF ChiRow5, NotL, XorL, Lane
<1>3. ChiRow5(r)[3] = XorL(q[3], q[5] \ q[4])
  BY DEF ChiRow5, NotL, XorL, Lane
<1>4. ChiRow5(r)[4] = XorL(q[4], q[1] \ q[5])
  BY DEF ChiRow5, NotL, XorL, Lane
<1>5. ChiRow5(r)[5] = XorL(q[5], q[2] \ q[1])
  BY DEF ChiRow5, NotL, XorL, Lane
<1> QED
  BY <1>1, <1>2, <1>3, <1>4, <1>5

\* The columns one and two to the right.
Right1(x) == (x % 5) + 1
Right2(x) == ((x + 1) % 5) + 1
\* Lane a mixed with those.
Mixed(a, b, c) == XorL(a, c \ b)

\* pi moves the lanes that rho has rotated.
LEMMA RhoPiIs ==
  ASSUME NEW C, NEW x \in 1..5, NEW y \in 1..5
  PROVE  RhoPi(C)[Home(x, y)] = Rotl(C[Home(Src(x, y), x)], Rot[Src(x, y)][x])
<1> DEFINE i == Home(x, y)
           u == (x - 1 + 3 * (y - 1)) % 5
<1>1. i \in Lanes /\ i % 5 = x - 1 /\ i \div 5 = y - 1
  BY HomeIs
<1>2. u \in 0..4 /\ u = Src(x, y) - 1 /\ x - 1 \in 0..4 /\ (x - 1) % 5 = x - 1
  BY DEF Src
<1>3. RhoPi(C) = [j \in Lanes |-> Rotl(At(C, (j % 5) + 3 * (j \div 5), j % 5), Offsets[((j % 5) + 3 * (j \div 5)) % 5][j % 5])]
  BY DEF RhoPi, OnLanes
<1>4. At(C, x - 1 + 3 * (y - 1), x - 1) = C[Home(Src(x, y), x)]
  BY <1>2 DEF At, Home
<1>5. Offsets[u][x - 1] = Offset(u, x - 1)
  <2> HIDE DEF u
  <2> QED
    BY <1>2, Zenon DEF Offsets
<1>6. Offset(u, x - 1) = Rot[Src(x, y)][x]
  <2> HIDE DEF u
  <2> QED
    BY <1>2, SrcRange, OffsetIs
<1> HIDE DEF i
<1>7. RhoPi(C)[i] = Rotl(At(C, x - 1 + 3 * (y - 1), x - 1), Offsets[u][x - 1])
  BY <1>1, <1>3
<1> QED
  BY <1>4, <1>5, <1>6, <1>7, Zenon DEF i

LEMMA ChiIs ==
  ASSUME NEW D, NEW x \in 1..5, NEW y \in 1..5
  PROVE  Chi(D)[Home(x, y)] = Mixed(D[Home(x, y)], D[Home(Right1(x), y)], D[Home(Right2(x), y)])
<1> DEFINE i == Home(x, y)
<1>1. i \in Lanes /\ i % 5 = x - 1 /\ i \div 5 = y - 1
  BY HomeIs
<1>2. Chi(D) = [j \in Lanes |-> XorL(At(D, j % 5, j \div 5), At(D, (j % 5) + 2, j \div 5) \ At(D, (j % 5) + 1, j \div 5))]
  BY DEF Chi, OnLanes
<1>3. At(D, x - 1, y - 1) = D[Home(x, y)]
  BY DEF At, Home
<1>4. At(D, (x - 1) + 2, y - 1) = D[Home(Right2(x), y)]
  BY DEF At, Home, Right2
<1>5. At(D, (x - 1) + 1, y - 1) = D[Home(Right1(x), y)]
  BY DEF At, Home, Right1
<1> HIDE DEF i
<1>6. Chi(D)[i] = XorL(At(D, x - 1, y - 1), At(D, (x - 1) + 2, y - 1) \ At(D, (x - 1) + 1, y - 1))
  BY <1>1, <1>2
<1> QED
  BY <1>3, <1>4, <1>5, <1>6, Zenon DEF i, Mixed

\* The five mixes of a row.
RowMix(y, r) == <<ChiRow1(r), ChiRow2(r), ChiRow3(r), ChiRow4(r), ChiRow5(r)>>[y]

\* r holds row y of d after theta, rho and pi.
HoldsRow(r, d, y) == \A x \in 1..5 : d[x] \in Lane /\ r[x] = Mask(MidSwapped(Src(x, y), x), d[x])

LEMMA RowMixIs ==
  ASSUME NEW r, NEW d, NEW y \in 1..5, HoldsRow(r, d, y), NEW x \in 1..5
  PROVE  RowMix(y, r)[x] = Mask(Swapped(x, y), Mixed(d[x], d[Right1(x)], d[Right2(x)]))
<1>0. d[1] \in Lane /\ d[2] \in Lane /\ d[3] \in Lane /\ d[4] \in Lane /\ d[5] \in Lane
  BY DEF HoldsRow
<1>6. /\ Right1(1) = 2 /\ Right1(2) = 3 /\ Right1(3) = 4 /\ Right1(4) = 5 /\ Right1(5) = 1
      /\ Right2(1) = 3 /\ Right2(2) = 4 /\ Right2(3) = 5 /\ Right2(4) = 1 /\ Right2(5) = 2
  BY DEF Right1, Right2
<1>1. CASE y = 1
  <2>1. MidSwapped(Src(1, 1), 1) = 1 /\ MidSwapped(Src(2, 1), 2) = 0 /\ MidSwapped(Src(3, 1), 3) = 1
        /\ MidSwapped(Src(4, 1), 4) = 1 /\ MidSwapped(Src(5, 1), 5) = 0
    BY DEF MidSwapped, Src, Swapped, Home, Both
  <2>2. Swapped(1, 1) = 0 /\ Swapped(2, 1) = 1 /\ Swapped(3, 1) = 1 /\ Swapped(4, 1) = 0 /\ Swapped(5, 1) = 0
    BY DEF Swapped, Home
  <2>3. r[1] = NotL(d[1]) /\ r[2] = d[2] /\ r[3] = NotL(d[3]) /\ r[4] = NotL(d[4]) /\ r[5] = d[5]
    BY <1>1, <2>1 DEF Mask, HoldsRow
  <2>4. RowMix(y, r) = ChiRow1(r)
    BY <1>1 DEF RowMix
  <2>5. /\ ChiRow1(r)[1] = XorL(d[1], d[3] \ d[2])
        /\ ChiRow1(r)[2] = NotL(XorL(d[2], d[4] \ d[3]))
        /\ ChiRow1(r)[3] = NotL(XorL(d[3], d[5] \ d[4]))
        /\ ChiRow1(r)[4] = XorL(d[4], d[1] \ d[5])
        /\ ChiRow1(r)[5] = XorL(d[5], d[2] \ d[1])
    BY <1>0, <2>3, ChiRow1Is, Zenon
  <2>6. CASE x = 1
    BY <1>1, <1>6, <2>2, <2>4, <2>5, <2>6, Zenon DEF Mask, Mixed
  <2>7. CASE x = 2
    BY <1>1, <1>6, <2>2, <2>4, <2>5, <2>7, Zenon DEF Mask, Mixed
  <2>8. CASE x = 3
    BY <1>1, <1>6, <2>2, <2>4, <2>5, <2>8, Zenon DEF Mask, Mixed
  <2>9. CASE x = 4
    BY <1>1, <1>6, <2>2, <2>4, <2>5, <2>9, Zenon DEF Mask, Mixed
  <2>10. CASE x = 5
    BY <1>1, <1>6, <2>2, <2>4, <2>5, <2>10, Zenon DEF Mask, Mixed
  <2> QED
    BY <2>6, <2>7, <2>8, <2>9, <2>10, Fives, Zenon
<1>2. CASE y = 2
  <2>1. MidSwapped(Src(1, 2), 1) = 1 /\ MidSwapped(Src(2, 2), 2) = 0 /\ MidSwapped(Src(3, 2), 3) = 1
        /\ MidSwapped(Src(4, 2), 4) = 0 /\ MidSwapped(Src(5, 2), 5) = 0
    BY DEF MidSwapped, Src, Swapped, Home, Both
  <2>2. Swapped(1, 2) = 0 /\ Swapped(2, 2) = 0 /\ Swapped(3, 2) = 0 /\ Swapped(4, 2) = 1 /\ Swapped(5, 2) = 0
    BY DEF Swapped, Home
  <2>3. r[1] = NotL(d[1]) /\ r[2] = d[2] /\ r[3] = NotL(d[3]) /\ r[4] = d[4] /\ r[5] = d[5]
    BY <1>2, <2>1 DEF Mask, HoldsRow
  <2>4. RowMix(y, r) = ChiRow2(r)
    BY <1>2 DEF RowMix
  <2>5. /\ ChiRow2(r)[1] = XorL(d[1], d[3] \ d[2])
        /\ ChiRow2(r)[2] = XorL(d[2], d[4] \ d[3])
        /\ ChiRow2(r)[3] = XorL(d[3], d[5] \ d[4])
        /\ ChiRow2(r)[4] = NotL(XorL(d[4], d[1] \ d[5]))
        /\ ChiRow2(r)[5] = XorL(d[5], d[2] \ d[1])
    BY <1>0, <2>3, ChiRow2Is, Zenon
  <2>6. CASE x = 1
    BY <1>2, <1>6, <2>2, <2>4, <2>5, <2>6, Zenon DEF Mask, Mixed
  <2>7. CASE x = 2
    BY <1>2, <1>6, <2>2, <2>4, <2>5, <2>7, Zenon DEF Mask, Mixed
  <2>8. CASE x = 3
    BY <1>2, <1>6, <2>2, <2>4, <2>5, <2>8, Zenon DEF Mask, Mixed
  <2>9. CASE x = 4
    BY <1>2, <1>6, <2>2, <2>4, <2>5, <2>9, Zenon DEF Mask, Mixed
  <2>10. CASE x = 5
    BY <1>2, <1>6, <2>2, <2>4, <2>5, <2>10, Zenon DEF Mask, Mixed
  <2> QED
    BY <2>6, <2>7, <2>8, <2>9, <2>10, Fives, Zenon
<1>3. CASE y = 3
  <2>1. MidSwapped(Src(1, 3), 1) = 1 /\ MidSwapped(Src(2, 3), 2) = 0 /\ MidSwapped(Src(3, 3), 3) = 1
        /\ MidSwapped(Src(4, 3), 4) = 0 /\ MidSwapped(Src(5, 3), 5) = 0
    BY DEF MidSwapped, Src, Swapped, Home, Both
  <2>2. Swapped(1, 3) = 0 /\ Swapped(2, 3) = 0 /\ Swapped(3, 3) = 1 /\ Swapped(4, 3) = 0 /\ Swapped(5, 3) = 0
    BY DEF Swapped, Home
  <2>3. r[1] = NotL(d[1]) /\ r[2] = d[2] /\ r[3] = NotL(d[3]) /\ r[4] = d[4] /\ r[5] = d[5]
    BY <1>3, <2>1 DEF Mask, HoldsRow
  <2>4. RowMix(y, r) = ChiRow3(r)
    BY <1>3 DEF RowMix
  <2>5. /\ ChiRow3(r)[1] = XorL(d[1], d[3] \ d[2])
        /\ ChiRow3(r)[2] = XorL(d[2], d[4] \ d[3])
        /\ ChiRow3(r)[3] = NotL(XorL(d[3], d[5] \ d[4]))
        /\ ChiRow3(r)[4] = XorL(d[4], d[1] \ d[5])
        /\ ChiRow3(r)[5] = XorL(d[5], d[2] \ d[1])
    BY <1>0, <2>3, ChiRow3Is, Zenon
  <2>6. CASE x = 1
    BY <1>3, <1>6, <2>2, <2>4, <2>5, <2>6, Zenon DEF Mask, Mixed
  <2>7. CASE x = 2
    BY <1>3, <1>6, <2>2, <2>4, <2>5, <2>7, Zenon DEF Mask, Mixed
  <2>8. CASE x = 3
    BY <1>3, <1>6, <2>2, <2>4, <2>5, <2>8, Zenon DEF Mask, Mixed
  <2>9. CASE x = 4
    BY <1>3, <1>6, <2>2, <2>4, <2>5, <2>9, Zenon DEF Mask, Mixed
  <2>10. CASE x = 5
    BY <1>3, <1>6, <2>2, <2>4, <2>5, <2>10, Zenon DEF Mask, Mixed
  <2> QED
    BY <2>6, <2>7, <2>8, <2>9, <2>10, Fives, Zenon
<1>4. CASE y = 4
  <2>1. MidSwapped(Src(1, 4), 1) = 0 /\ MidSwapped(Src(2, 4), 2) = 1 /\ MidSwapped(Src(3, 4), 3) = 0
        /\ MidSwapped(Src(4, 4), 4) = 1 /\ MidSwapped(Src(5, 4), 5) = 1
    BY DEF MidSwapped, Src, Swapped, Home, Both
  <2>2. Swapped(1, 4) = 0 /\ Swapped(2, 4) = 0 /\ Swapped(3, 4) = 1 /\ Swapped(4, 4) = 0 /\ Swapped(5, 4) = 0
    BY DEF Swapped, Home
  <2>3. r[1] = d[1] /\ r[2] = NotL(d[2]) /\ r[3] = d[3] /\ r[4] = NotL(d[4]) /\ r[5] = NotL(d[5])
    BY <1>4, <2>1 DEF Mask, HoldsRow
  <2>4. RowMix(y, r) = ChiRow4(r)
    BY <1>4 DEF RowMix
  <2>5. /\ ChiRow4(r)[1] = XorL(d[1], d[3] \ d[2])
        /\ ChiRow4(r)[2] = XorL(d[2], d[4] \ d[3])
        /\ ChiRow4(r)[3] = NotL(XorL(d[3], d[5] \ d[4]))
        /\ ChiRow4(r)[4] = XorL(d[4], d[1] \ d[5])
        /\ ChiRow4(r)[5] = XorL(d[5], d[2] \ d[1])
    BY <1>0, <2>3, ChiRow4Is, Zenon
  <2>6. CASE x = 1
    BY <1>4, <1>6, <2>2, <2>4, <2>5, <2>6, Zenon DEF Mask, Mixed
  <2>7. CASE x = 2
    BY <1>4, <1>6, <2>2, <2>4, <2>5, <2>7, Zenon DEF Mask, Mixed
  <2>8. CASE x = 3
    BY <1>4, <1>6, <2>2, <2>4, <2>5, <2>8, Zenon DEF Mask, Mixed
  <2>9. CASE x = 4
    BY <1>4, <1>6, <2>2, <2>4, <2>5, <2>9, Zenon DEF Mask, Mixed
  <2>10. CASE x = 5
    BY <1>4, <1>6, <2>2, <2>4, <2>5, <2>10, Zenon DEF Mask, Mixed
  <2> QED
    BY <2>6, <2>7, <2>8, <2>9, <2>10, Fives, Zenon
<1>5. CASE y = 5
  <2>1. MidSwapped(Src(1, 5), 1) = 1 /\ MidSwapped(Src(2, 5), 2) = 0 /\ MidSwapped(Src(3, 5), 3) = 0
        /\ MidSwapped(Src(4, 5), 4) = 1 /\ MidSwapped(Src(5, 5), 5) = 0
    BY DEF MidSwapped, Src, Swapped, Home, Both
  <2>2. Swapped(1, 5) = 1 /\ Swapped(2, 5) = 0 /\ Swapped(3, 5) = 0 /\ Swapped(4, 5) = 0 /\ Swapped(5, 5) = 0
    BY DEF Swapped, Home
  <2>3. r[1] = NotL(d[1]) /\ r[2] = d[2] /\ r[3] = d[3] /\ r[4] = NotL(d[4]) /\ r[5] = d[5]
    BY <1>5, <2>1 DEF Mask, HoldsRow
  <2>4. RowMix(y, r) = ChiRow5(r)
    BY <1>5 DEF RowMix
  <2>5. /\ ChiRow5(r)[1] = NotL(XorL(d[1], d[3] \ d[2]))
        /\ ChiRow5(r)[2] = XorL(d[2], d[4] \ d[3])
        /\ ChiRow5(r)[3] = XorL(d[3], d[5] \ d[4])
        /\ ChiRow5(r)[4] = XorL(d[4], d[1] \ d[5])
        /\ ChiRow5(r)[5] = XorL(d[5], d[2] \ d[1])
    BY <1>0, <2>3, ChiRow5Is, Zenon
  <2>6. CASE x = 1
    BY <1>5, <1>6, <2>2, <2>4, <2>5, <2>6, Zenon DEF Mask, Mixed
  <2>7. CASE x = 2
    BY <1>5, <1>6, <2>2, <2>4, <2>5, <2>7, Zenon DEF Mask, Mixed
  <2>8. CASE x = 3
    BY <1>5, <1>6, <2>2, <2>4, <2>5, <2>8, Zenon DEF Mask, Mixed
  <2>9. CASE x = 4
    BY <1>5, <1>6, <2>2, <2>4, <2>5, <2>9, Zenon DEF Mask, Mixed
  <2>10. CASE x = 5
    BY <1>5, <1>6, <2>2, <2>4, <2>5, <2>10, Zenon DEF Mask, Mixed
  <2> QED
    BY <2>6, <2>7, <2>8, <2>9, <2>10, Fives, Zenon
<1> QED
  BY <1>1, <1>2, <1>3, <1>4, <1>5, Fives, Zenon

\* The state after chi, lane by lane.
RowOf(A, rows, y) == [u \in 1..5 |-> A[rows[y][u]]]

LEMMA ChiRowsIs ==
  ASSUME NEW A, NEW rows, Table(rows), NEW x \in 1..5, NEW y \in 1..5
  PROVE  ChiRows(A, rows)[rows[y][x]] = RowMix(y, RowOf(A, rows, y))[x]
<1> DEFINE row(v) == RowOf(A, rows, v)
           mixed == <<ChiRow1(row(1)), ChiRow2(row(2)), ChiRow3(row(3)), ChiRow4(row(4)), ChiRow5(row(5))>>
           i == rows[y][x]
           G(c) == [j \in Lanes |-> LET yx == CHOOSE yx \in (1..5) \X (1..5) : rows[yx[1]][yx[2]] = j
                                    IN  c[yx[1]][yx[2]]]
<1>1. ChiRows(A, rows) = With(mixed, G)
  BY Zenon DEF ChiRows, RowOf
<1>2. mixed[y] = RowMix(y, row(y))
  <2> HIDE DEF row
  <2> QED
    BY Fives DEF RowMix
<1>3. i \in Lanes
  BY DEF Table
<1>4. Entry(rows, i)[1] = y /\ Entry(rows, i)[2] = x
  BY EntryIs
<1> HIDE DEF mixed
<1>5. With(mixed, G) = G(mixed)
  <2> HIDE DEF G
  <2> QED
    BY DEF With
<1>6. G(mixed)[i] = mixed[Entry(rows, i)[1]][Entry(rows, i)[2]]
  <2> HIDE DEF i
  <2> QED
    BY <1>3, Zenon DEF Entry
<1> QED
  BY <1>1, <1>2, <1>4, <1>5, <1>6, Zenon

\* A round of the standard.
Round(B, r) == [Chi(RhoPi(Theta(B))) EXCEPT ![0] = XorL(@, RC[r])]

LEMMA RCLane == ASSUME NEW r \in 1..24 PROVE RC[r] \in Lane
<1>1. r \in {1, 2, 3, 4, 5, 6, 7, 8} \/ r \in {9, 10, 11, 12, 13, 14, 15, 16}
        \/ r \in {17, 18, 19, 20, 21, 22, 23, 24}
  OBVIOUS
<1>2. CASE r \in {1, 2, 3, 4, 5, 6, 7, 8}
  BY <1>2 DEF RC, Lane, Bits
<1>3. CASE r \in {9, 10, 11, 12, 13, 14, 15, 16}
  BY <1>3 DEF RC, Lane, Bits
<1>4. CASE r \in {17, 18, 19, 20, 21, 22, 23, 24}
  BY <1>4 DEF RC, Lane, Bits
<1> QED
  BY <1>1, <1>2, <1>3, <1>4

LEMMA RhoPiState ==
  ASSUME NEW C \in State
  PROVE  RhoPi(C) \in State
<1>1. ASSUME NEW i \in Lanes PROVE RhoPi(C)[i] \in Lane
  <2>1. PICK x \in 1..5, y \in 1..5 : i = Home(x, y)
    BY HomeOf
  <2>2. RhoPi(C)[i] = Rotl(C[Home(Src(x, y), x)], Rot[Src(x, y)][x])
    BY <2>1, RhoPiIs
  <2>3. C[Home(Src(x, y), x)] \in Lane /\ Rot[Src(x, y)][x] \in Bits
    BY SrcRange, HomeIs, RotRange DEF State
  <2> QED
    BY <2>2, <2>3, RotlLane
<1>2. RhoPi(C) = [i \in Lanes |-> RhoPi(C)[i]]
  BY DEF RhoPi, OnLanes
<1> QED
  BY <1>1, <1>2 DEF State

LEMMA RightRange == ASSUME NEW x \in 1..5 PROVE Right1(x) \in 1..5 /\ Right2(x) \in 1..5
  BY DEF Right1, Right2

LEMMA ChiState ==
  ASSUME NEW D \in State
  PROVE  Chi(D) \in State
<1>1. ASSUME NEW i \in Lanes PROVE Chi(D)[i] \in Lane
  <2>1. PICK x \in 1..5, y \in 1..5 : i = Home(x, y)
    BY HomeOf
  <2>2. Chi(D)[i] = Mixed(D[Home(x, y)], D[Home(Right1(x), y)], D[Home(Right2(x), y)])
    BY <2>1, ChiIs
  <2>3. D[Home(x, y)] \in Lane /\ D[Home(Right2(x), y)] \in Lane
    BY RightRange, HomeIs DEF State
  <2>4. D[Home(Right2(x), y)] \ D[Home(Right1(x), y)] \in Lane
    BY <2>3 DEF Lane
  <2> QED
    BY <2>2, <2>3, <2>4, XorLane DEF Mixed
<1>2. Chi(D) = [i \in Lanes |-> Chi(D)[i]]
  BY DEF Chi, OnLanes
<1> QED
  BY <1>1, <1>2 DEF State

LEMMA RoundState == ASSUME NEW B \in State, NEW r \in 1..24 PROVE Round(B, r) \in State
<1> DEFINE D == Chi(RhoPi(Theta(B)))
<1>1. D \in State
  BY ThetaState, RhoPiState, ChiState
<1>2. XorL(D[0], RC[r]) \in Lane
  <2>1. D[0] \in Lane
    BY <1>1 DEF State, Lanes
  <2> QED
    BY <2>1, RCLane, XorLane
<1>3. Round(B, r) = [D EXCEPT ![0] = XorL(D[0], RC[r])]
  BY DEF Round
<1> HIDE DEF D
<1> QED
  BY <1>1, <1>2, <1>3 DEF State

\* The round that iota(j) belongs to.
RoundOf(n, j) == n \in 1..24 /\ n = j + 1

\* A holds B after theta, rho and pi, by rows.
HoldsRows(A, B, rows) ==
    \A x, y \in 1..5 : A[rows[y][x]] = Mask(MidSwapped(Src(x, y), x), RhoPi(Theta(B))[Home(x, y)])

\* chi and iota on a state stored by rows.
LEMMA ChiIotaIs ==
  ASSUME NEW A, NEW rows, Table(rows), rows[1][1] = 0, NEW B \in State, NEW j, NEW n, RoundOf(n, j),
         HoldsRows(A, B, rows), NEW x \in 1..5, NEW y \in 1..5
  PROVE  Iota(ChiRows(A, rows), j)[rows[y][x]] = Mask(Swapped(x, y), Round(B, n)[Home(x, y)])
<1> DEFINE D == RhoPi(Theta(B))
           E == Chi(D)
           F == ChiRows(A, rows)
           i == rows[y][x]
           h == Home(x, y)
<1>1. D \in State /\ E \in State
  BY ThetaState, RhoPiState, ChiState
<1> DEFINE d == [u \in 1..5 |-> D[Home(u, y)]]
           r == RowOf(A, rows, y)
<1>2. ASSUME NEW u \in 1..5 PROVE d[u] \in Lane /\ r[u] = Mask(MidSwapped(Src(u, y), u), d[u])
  <2>1. d[u] = D[Home(u, y)]
    OBVIOUS
  <2>2. Home(u, y) \in Lanes
    BY HomeIs
  <2>3. r[u] = A[rows[y][u]]
    BY DEF RowOf
  <2> QED
    BY <1>1, <2>1, <2>2, <2>3 DEF State, HoldsRows
<1>3. F[i] = RowMix(y, r)[x]
  BY ChiRowsIs
<1>4. d[x] = D[Home(x, y)] /\ d[Right1(x)] = D[Home(Right1(x), y)] /\ d[Right2(x)] = D[Home(Right2(x), y)]
  BY RightRange
<1> HIDE DEF D, F, d, r
<1>5. RowMix(y, r)[x] = Mask(Swapped(x, y), Mixed(d[x], d[Right1(x)], d[Right2(x)]))
  <2>1. HoldsRow(r, d, y)
    BY <1>2 DEF HoldsRow
  <2> QED
    BY <2>1, RowMixIs
<1>6. E[h] = Mixed(d[x], d[Right1(x)], d[Right2(x)])
  <2>1. Chi(D)[Home(x, y)] = Mixed(D[Home(x, y)], D[Home(Right1(x), y)], D[Home(Right2(x), y)])
    BY ChiIs
  <2> QED
    BY <1>4, <2>1, Zenon
<1>7. F[i] = Mask(Swapped(x, y), E[h])
  BY <1>3, <1>5, <1>6
<1>0. n \in 1..24 /\ n = j + 1
  BY DEF RoundOf
<1>8. Round(B, n) = [E EXCEPT ![0] = XorL(E[0], RC[n])]
  BY DEF Round, D
<1>9. Iota(F, j) = [F EXCEPT ![0] = XorL(F[0], RC[n])]
  BY <1>0 DEF Iota
<1>10. i \in Lanes /\ DOMAIN F = Lanes /\ h \in Lanes
  <2>1. DOMAIN F = Lanes
    BY DEF F, ChiRows, With
  <2> QED
    BY <2>1, HomeIs DEF Table
<1>11. CASE x = 1 /\ y = 1
  <2>1. i = 0 /\ h = 0 /\ Swapped(x, y) = 0
    BY <1>11 DEF Home, Swapped
  <2> HIDE DEF E, i, h
  <2>2. Iota(F, j)[i] = XorL(F[i], RC[n])
    BY <1>9, <1>10, <2>1
  <2>3. Round(B, n)[h] = XorL(E[h], RC[n])
    BY <1>1, <1>8, <1>10, <2>1 DEF State
  <2> QED
    BY <1>7, <2>1, <2>2, <2>3 DEF Mask, F, i, h
<1>12. CASE ~(x = 1 /\ y = 1)
  <2>1. i # 0
    BY <1>12 DEF Table
  <2>2. h # 0
    BY <1>12 DEF Home
  <2> HIDE DEF E, i, h
  <2>3. Iota(F, j)[i] = F[i]
    BY <1>9, <1>10, <2>1
  <2>4. Round(B, n)[h] = E[h]
    BY <1>1, <1>8, <1>10, <2>2 DEF State
  <2> QED
    BY <1>7, <2>3, <2>4, Zenon DEF F, i, h
<1> QED
  BY <1>11, <1>12

-----------------------------------------------------------------------------
(* The permutation.                                                          *)

LEMMA TableRows == Table(RowA) /\ Table(RowB) /\ RowA[1][1] = 0 /\ RowB[1][1] = 0
<1>1. ASSUME NEW x \in 1..5, NEW y \in 1..5, NEW u \in 1..5, NEW v \in 1..5, Src(x, y) = Src(u, v), x = u
      PROVE  y = v
  BY <1>1, Fives DEF Src
<1>2. ASSUME NEW x \in 1..5, NEW y \in 1..5 PROVE RowA[y][x] \in Lanes /\ RowB[y][x] \in Lanes
  <2>1. Src(x, y) \in 1..5
    BY SrcRange
  <2>2. RowA[y][x] = ColB[x][y] /\ RowB[y][x] = ColB[Src(x, y)][x]
    BY RowsA, RowsB, Zenon
  <2>3. ColB[x][y] \in Lanes /\ ColB[Src(x, y)][x] \in Lanes
    BY <2>1, PlaceB, Zenon
  <2> QED
    BY <2>2, <2>3, Zenon
<1>3. ASSUME NEW x \in 1..5, NEW y \in 1..5, NEW u \in 1..5, NEW v \in 1..5, RowA[y][x] = RowA[v][u]
      PROVE  x = u /\ y = v
  <2>1. ColB[x][y] = ColB[u][v]
    BY <1>3, RowsA
  <2> QED
    BY <2>1, TableB DEF Table
<1>4. ASSUME NEW x \in 1..5, NEW y \in 1..5, NEW u \in 1..5, NEW v \in 1..5, RowB[y][x] = RowB[v][u]
      PROVE  x = u /\ y = v
  <2>1. ColB[Src(x, y)][x] = ColB[Src(u, v)][u] /\ Src(x, y) \in 1..5 /\ Src(u, v) \in 1..5
    BY <1>4, RowsB, SrcRange
  <2>2. Src(x, y) = Src(u, v) /\ x = u
    BY <2>1, TableB DEF Table
  <2> QED
    BY <1>1, <2>2
<1>5. Table(RowA)
  BY <1>2, <1>3 DEF Table
<1>6. Table(RowB)
  BY <1>2, <1>4 DEF Table
<1> QED
  BY <1>5, <1>6 DEF RowA, RowB

\* The rows are where pi leaves the lanes of the columns.
Moved(col, rows) == \A x, y \in 1..5 : rows[y][x] = col[Src(x, y)][x]

\* A round of the code on a state stored by col leaves the standard's by rows.
LEMMA CodeRound ==
  ASSUME NEW A, NEW col, NEW rows, Table(col), Table(rows), rows[1][1] = 0,
         Moved(col, rows), NEW B \in State, Placed(A, B, col), NEW j, NEW n, RoundOf(n, j), NEW x \in 1..5, NEW y \in 1..5
  PROVE  Iota(ChiRows(ThetaRho(A, col), rows), j)[rows[y][x]] = Mask(Swapped(x, y), Round(B, n)[Home(x, y)])
<1> DEFINE T == ThetaRho(A, col)
<1>1. ASSUME NEW u \in 1..5, NEW v \in 1..5
      PROVE  T[rows[v][u]] = Mask(MidSwapped(Src(u, v), u), RhoPi(Theta(B))[Home(u, v)])
  <2>1. Src(u, v) \in 1..5
    BY SrcRange
  <2>2. T[col[Src(u, v)][u]] = Mask(MidSwapped(Src(u, v), u), Rotl(Theta(B)[Home(Src(u, v), u)], Rot[Src(u, v)][u]))
    BY <2>1, ThetaRhoIs
  <2>3. RhoPi(Theta(B))[Home(u, v)] = Rotl(Theta(B)[Home(Src(u, v), u)], Rot[Src(u, v)][u])
    BY RhoPiIs
  <2>4. rows[v][u] = col[Src(u, v)][u]
    BY DEF Moved
  <2> QED
    BY <2>2, <2>3, <2>4, Zenon
<1> HIDE DEF T
<1>2. Iota(ChiRows(T, rows), j)[rows[y][x]] = Mask(Swapped(x, y), Round(B, n)[Home(x, y)])
  <2>1. HoldsRows(T, B, rows)
    BY <1>1 DEF HoldsRows
  <2> QED
    BY <2>1, ChiIotaIs
<1> QED
  BY <1>2 DEF T

\* Two rounds of the code are two rounds of the standard.
LEMMA TwoRoundsIs ==
  ASSUME NEW A, NEW B \in State, Placed(A, B, ColA), NEW j \in 0..22
  PROVE  Placed(TwoRounds(A, j), Round(Round(B, j + 1), j + 2), ColA)
<1> DEFINE m == j + 1
           n == j + 2
           C == Round(B, m)
           D == Round(C, n)
           a2 == ChiA(ThetaRhoA(A), j)
           a4 == ChiB(ThetaRhoB(a2), j)
<1>0. RoundOf(m, j) /\ RoundOf(n, m) /\ m \in 1..24
  BY DEF RoundOf
<1> HIDE DEF m, n
<1>1. C \in State
  BY <1>0, RoundState
<1>2. ASSUME NEW x \in 1..5, NEW y \in 1..5 PROVE a2[RowA[y][x]] = Mask(Swapped(x, y), C[Home(x, y)])
  <2>1. Moved(ColA, RowA)
    BY RowsA DEF Moved
  <2>2. Iota(ChiRows(ThetaRho(A, ColA), RowA), j)[RowA[y][x]] = Mask(Swapped(x, y), Round(B, m)[Home(x, y)])
    BY <1>0, <2>1, TableA, TableRows, CodeRound
  <2> QED
    BY <2>2, Zenon DEF ChiA, ThetaRhoA
<1>3. Placed(a2, C, ColB)
  BY <1>2, RowsA DEF Placed
<1> HIDE DEF a2, C
<1>4. ASSUME NEW x \in 1..5, NEW y \in 1..5 PROVE a4[RowB[y][x]] = Mask(Swapped(x, y), D[Home(x, y)])
  <2>1. Moved(ColB, RowB)
    BY RowsB DEF Moved
  <2>2. Iota(ChiRows(ThetaRho(a2, ColB), RowB), m)[RowB[y][x]] = Mask(Swapped(x, y), Round(C, n)[Home(x, y)])
    BY <1>0, <1>1, <1>3, <2>1, TableB, TableRows, CodeRound
  <2> QED
    BY <2>2, Zenon DEF ChiB, ThetaRhoB, m
<1>5. TwoRounds(A, j) = Shuffle(a4)
  BY DEF TwoRounds, With, a2
<1> HIDE DEF a4, D
<1>6. ASSUME NEW x \in 1..5, NEW y \in 1..5
      PROVE  Shuffle(a4)[ColA[x][y]] = Mask(Swapped(x, y), D[Home(x, y)])
  <2>1. ColA[x][y] = Home(x, y) /\ Shuffle(a4)[Home(x, y)] = a4[RowB[y][x]]
    BY ColAHome, ShuffleIs
  <2> QED
    BY <1>4, <2>1, Zenon
<1>7. Placed(Shuffle(a4), D, ColA)
  BY <1>6 DEF Placed
<1> QED
  BY <1>5, <1>7, Zenon DEF D, C, m, n

\* Complementing six lanes stores the state, and restores it.
LEMMA InvertIs ==
  ASSUME NEW B \in State
  PROVE  Placed(Invert(B), B, ColA) /\ \A A : Placed(A, B, ColA) => Invert(A) = B
<1>1. ASSUME NEW A, NEW x \in 1..5, NEW y \in 1..5
      PROVE  Invert(A)[Home(x, y)] = Mask(Swapped(x, y), A[Home(x, y)]) /\ ColA[x][y] = Home(x, y)
  <2>1. Home(x, y) \in Lanes /\ ColA[x][y] = Home(x, y)
    BY HomeIs, ColAHome
  <2>2. Swapped(x, y) = IF Home(x, y) \in {1, 2, 8, 12, 17, 20} THEN 1 ELSE 0
    BY DEF Swapped
  <2> DEFINE h == Home(x, y)
  <2> HIDE DEF h
  <2>3. h \in Lanes
    BY <2>1 DEF h
  <2>4. Invert(A)[h] = IF h \in {1, 2, 8, 12, 17, 20} THEN NotL(A[h]) ELSE A[h]
    BY <2>3 DEF Invert
  <2> QED
    BY <2>1, <2>2, <2>4 DEF Mask, h
<1>2. Placed(Invert(B), B, ColA)
  BY <1>1 DEF Placed
<1>3. ASSUME NEW A, Placed(A, B, ColA) PROVE Invert(A) = B
  <2>1. ASSUME NEW i \in Lanes PROVE Invert(A)[i] = B[i]
    <3>1. PICK x \in 1..5, y \in 1..5 : i = Home(x, y)
      BY HomeOf
    <3>2. Invert(A)[i] = Mask(Swapped(x, y), A[i]) /\ ColA[x][y] = i
      BY <1>1, <3>1
    <3>3. A[i] = Mask(Swapped(x, y), B[i])
      BY <1>3, <3>1, <3>2 DEF Placed
    <3>4. B[i] \in Lane /\ Swapped(x, y) \in Flag
      BY SwappedIs DEF State
    <3>5. NotL(NotL(B[i])) = B[i]
      BY <3>4 DEF NotL, Lane
    <3>6. Mask(Swapped(x, y), Mask(Swapped(x, y), B[i])) = B[i]
      BY <3>5, Zenon DEF Mask
    <3> QED
      BY <3>2, <3>3, <3>6, Zenon
  <2>2. Invert(A) = [i \in Lanes |-> Invert(A)[i]] /\ B = [i \in Lanes |-> B[i]]
    BY DEF Invert, State
  <2> QED
    BY <2>1, <2>2, Zenon
<1> QED
  BY <1>2, <1>3

\* The iterations of process_block().
LEMMA ProcessLoop ==
  ASSUME NEW A
  PROVE  \E h : Runs(h, <<"rounds">>, Invert(A), Rounds \div 2) /\ process_block(A) = Invert(h[Rounds \div 2])
<1> DEFINE loop == <<"rounds">>
           d == With(A, Invert)
           m == Rounds \div 2
           step(x, k) == With(x, LAMBDA a : TwoRounds(a, 2 * (k - 1)))
           E(h) == h = [k \in 0..m |-> IF k = 0 THEN d ELSE step(h[k - 1], k)]
           f == CHOOSE h : E(h)
<1>1. ASSUME NEW x, NEW k PROVE LoopStep(loop, x, k) = step(x, k)
  BY DEF LoopStep, With
<1>2. process_block(A) = With(f[m], Invert)
  BY Zenon DEF process_block
<1>3. m \in Nat
  BY RoundsAssumption
<1> HIDE DEF loop, step, m
<1>4. \E h : E(h)
  <2>1. PICK h : Iterates(h, loop, d, m)
    BY <1>3, LoopExists
  <2>2. E(h)
    BY <1>1, <2>1, Zenon DEF Iterates
  <2> HIDE DEF E
  <2> QED
    BY <2>2, Zenon
<1>5. E(f)
  <2> HIDE DEF E
  <2> QED
    BY <1>4, Zenon
<1> HIDE DEF f
<1>6. Iterates(f, loop, d, m)
  BY <1>1, <1>5, Zenon DEF Iterates
<1>7. Runs(f, loop, d, m)
  BY <1>3, <1>6, LoopRuns
<1>8. d = Invert(A) /\ With(f[m], Invert) = Invert(f[m])
  BY DEF With
<1> QED
  BY <1>2, <1>7, <1>8, Zenon DEF loop, m

\* Those of the first implementation's portable version.
LEMMA PortableLoop ==
  ASSUME NEW A
  PROVE  \E h : Runs(h, <<"rounds">>, Invert(A), Rounds \div 2) /\ portable_process_block(A) = Invert(h[Rounds \div 2])
<1> DEFINE loop == <<"rounds">>
           d == With(A, Invert)
           m == Rounds \div 2
           step(x, k) == With(x, LAMBDA a : With(LegacyRoundA(a, 2 * (k - 1)), LAMBDA b :
                     With(LegacyRoundB(b, 2 * (k - 1)), LegacyShuffle)))
           E(h) == h = [k \in 0..m |-> IF k = 0 THEN d ELSE step(h[k - 1], k)]
           f == CHOOSE h : E(h)
<1>1. ASSUME NEW x, NEW k PROVE LoopStep(loop, x, k) = step(x, k)
  BY DEF LoopStep, TwoRounds, LegacyRoundA, LegacyRoundB, LegacyShuffle, With
<1>2. portable_process_block(A) = With(f[m], Invert)
  BY Zenon DEF portable_process_block
<1>3. m \in Nat
  BY RoundsAssumption
<1> HIDE DEF loop, step, m
<1>4. \E h : E(h)
  <2>1. PICK h : Iterates(h, loop, d, m)
    BY <1>3, LoopExists
  <2>2. E(h)
    BY <1>1, <2>1, Zenon DEF Iterates
  <2> HIDE DEF E
  <2> QED
    BY <2>2, Zenon
<1>5. E(f)
  <2> HIDE DEF E
  <2> QED
    BY <1>4, Zenon
<1> HIDE DEF f
<1>6. Iterates(f, loop, d, m)
  BY <1>1, <1>5, Zenon DEF Iterates
<1>7. Runs(f, loop, d, m)
  BY <1>3, <1>6, LoopRuns
<1>8. d = Invert(A) /\ With(f[m], Invert) = Invert(f[m])
  BY DEF With
<1> QED
  BY <1>2, <1>7, <1>8, Zenon DEF loop, m

\* The rounds of the standard.
LEMMA StandardLoop ==
  ASSUME NEW A
  PROVE  \E h : Runs(h, <<"standard">>, A, Rounds) /\ KeccakF(A) = h[Rounds]
<1> DEFINE loop == <<"standard">>
           d == A
           m == Rounds
           step(x, k) == With(x, LAMBDA a1 : With(Theta(a1), LAMBDA a2 : With(RhoPi(a2),
                     LAMBDA a3 : [Chi(a3) EXCEPT ![0] = XorL(@, RC[k])])))
           E(h) == h = [r \in 0..m |-> IF r = 0 THEN d ELSE step(h[r - 1], r)]
           f == CHOOSE h : E(h)
<1>1. ASSUME NEW x, NEW k PROVE LoopStep(loop, x, k) = step(x, k)
  <2>1. LoopStep(loop, x, k) = Round(x, k)
    BY DEF LoopStep, Round
  <2>2. step(x, k) = Round(x, k)
    BY DEF With, Round
  <2> QED
    BY <2>1, <2>2, Zenon
<1>2. KeccakF(A) = With(f[m], LAMBDA x : x)
  BY Zenon DEF KeccakF
<1>3. m \in Nat
  BY RoundsAssumption
<1> HIDE DEF loop, step, m
<1>4. \E h : E(h)
  <2>1. PICK h : Iterates(h, loop, d, m)
    BY <1>3, LoopExists
  <2>2. E(h)
    BY <1>1, <2>1, Zenon DEF Iterates
  <2> HIDE DEF E
  <2> QED
    BY <2>2, Zenon
<1>5. E(f)
  <2> HIDE DEF E
  <2> QED
    BY <1>4, Zenon
<1> HIDE DEF f
<1>6. Iterates(f, loop, d, m)
  BY <1>1, <1>5, Zenon DEF Iterates
<1>7. Runs(f, loop, d, m)
  BY <1>3, <1>6, LoopRuns
<1>8. With(f[m], LAMBDA x : x) = f[m]
  BY DEF With
<1> QED
  BY <1>2, <1>7, <1>8, Zenon DEF loop, m

LEMMA StandardNext ==
  ASSUME NEW g, NEW A, Runs(g, <<"standard">>, A, Rounds), NEW r \in 1..Rounds
  PROVE  g[r] = Round(g[r - 1], r)
<1>1. g[r] = LoopStep(<<"standard">>, g[r - 1], r)
  BY Zenon DEF Runs
<1>2. LoopStep(<<"standard">>, g[r - 1], r) = Round(g[r - 1], r)
  BY DEF LoopStep, Round
<1> QED
  BY <1>1, <1>2, Zenon

LEMMA StandardState ==
  ASSUME NEW g, NEW A \in State, Runs(g, <<"standard">>, A, Rounds), NEW r \in 0..Rounds
  PROVE  g[r] \in State
<1> DEFINE S == {n \in Nat : n <= Rounds => g[n] \in State}
<1>1. 0 \in S
  BY DEF Runs
<1>2. ASSUME NEW n \in Nat, n \in S PROVE n + 1 \in S
  <2> SUFFICES ASSUME n + 1 <= Rounds PROVE g[n + 1] \in State
    OBVIOUS
  <2>1. n + 1 \in 1..Rounds /\ n + 1 \in 1..24 /\ (n + 1) - 1 = n /\ n <= Rounds
    BY RoundsAssumption
  <2>2. g[n] \in State
    BY <1>2, <2>1
  <2> DEFINE m == n + 1
  <2>3. g[m] = Round(g[n], m) /\ m \in 1..24
    BY <2>1, StandardNext
  <2> HIDE DEF m
  <2>4. Round(g[n], m) \in State
    BY <2>2, <2>3, RoundState
  <2> QED
    BY <2>3, <2>4 DEF m
<1> HIDE DEF S
<1>3. r \in Nat /\ r <= Rounds
  BY RoundsAssumption
<1>4. r \in S
  BY <1>1, <1>2, <1>3, NatSetInduction
<1> QED
  BY <1>3, <1>4 DEF S

\* Iterations of two rounds of the code are rounds of the standard.
LEMMA RoundsAre ==
  ASSUME NEW B \in State, NEW h, Runs(h, <<"rounds">>, Invert(B), Rounds \div 2)
  PROVE  Invert(h[Rounds \div 2]) = KeccakF(B) /\ KeccakF(B) \in State
<1>1. PICK g : Runs(g, <<"standard">>, B, Rounds) /\ KeccakF(B) = g[Rounds]
  BY StandardLoop
<1>2. PICK m \in Nat : m = Rounds \div 2 /\ Rounds = 2 * m /\ m <= 12
  BY RoundsAssumption
<1> DEFINE S == {n \in Nat : n <= m => Placed(h[n], g[2 * n], ColA)}
<1>3. 0 \in S
  <2>1. h[0] = Invert(B) /\ g[0] = B /\ 2 * 0 = 0
    BY <1>1 DEF Runs
  <2>2. Placed(h[0], g[2 * 0], ColA)
    BY <2>1, InvertIs, Zenon
  <2> QED
    BY <2>2
<1>4. ASSUME NEW n \in Nat, n \in S PROVE n + 1 \in S
  <2> SUFFICES ASSUME n + 1 <= m PROVE Placed(h[n + 1], g[2 * (n + 1)], ColA)
    OBVIOUS
  <2>1. PICK j : j = 2 * n
    OBVIOUS
  <2>2. /\ n + 1 \in 1..m /\ (n + 1) - 1 = n /\ n <= m /\ j \in 0..22 /\ j \in 0..Rounds
        /\ j + 1 \in 1..Rounds /\ j + 2 \in 1..Rounds /\ (j + 1) - 1 = j /\ (j + 2) - 1 = j + 1
        /\ 2 * (n + 1) = j + 2
    BY <1>2, <2>1, RoundsAssumption
  <2>3. Placed(h[n], g[j], ColA)
    BY <1>4, <2>1, <2>2
  <2>4. g[j + 1] = Round(g[j], j + 1) /\ g[j + 2] = Round(g[j + 1], j + 2)
    BY <1>1, <2>2, StandardNext
  <2>5. g[j] \in State
    BY <1>1, <2>2, StandardState
  <2>6. h[n + 1] = LoopStep(<<"rounds">>, h[n], n + 1)
    BY <1>2, <2>2, Zenon DEF Runs
  <2>7. LoopStep(<<"rounds">>, h[n], n + 1) = TwoRounds(h[n], j)
    <3>1. 2 * ((n + 1) - 1) = j
      BY <2>1, <2>2
    <3>2. LoopStep(<<"rounds">>, h[n], n + 1) = TwoRounds(h[n], 2 * ((n + 1) - 1))
      BY DEF LoopStep
    <3> QED
      BY <3>1, <3>2, Zenon
  <2>8. Placed(TwoRounds(h[n], j), Round(Round(g[j], j + 1), j + 2), ColA)
    BY <2>2, <2>3, <2>5, TwoRoundsIs
  <2> QED
    BY <2>2, <2>4, <2>6, <2>7, <2>8, Zenon
<1> HIDE DEF S
<1>5. m \in S
  BY <1>3, <1>4, NatSetInduction
<1>6. Placed(h[m], g[Rounds], ColA)
  BY <1>2, <1>5 DEF S
<1>7. g[Rounds] \in State
  <2>1. Rounds \in 0..Rounds
    BY RoundsAssumption
  <2> QED
    BY <1>1, <2>1, StandardState
<1>8. Invert(h[m]) = g[Rounds]
  BY <1>6, <1>7, InvertIs
<1> QED
  BY <1>1, <1>2, <1>7, <1>8, Zenon

\* process_block() computes the permutation of FIPS 202 on any state.
THEOREM ProcessBlockIsKeccak ==
  ASSUME NEW A \in State
  PROVE  process_block(A) = KeccakF(A) /\ KeccakF(A) \in State
<1>1. PICK h : Runs(h, <<"rounds">>, Invert(A), Rounds \div 2) /\ process_block(A) = Invert(h[Rounds \div 2])
  BY ProcessLoop
<1> QED
  BY <1>1, RoundsAre

\* So does the first implementation's portable version.
LEMMA PortableIsKeccak ==
  ASSUME NEW A \in State
  PROVE  portable_process_block(A) = KeccakF(A)
<1>1. PICK h : Runs(h, <<"rounds">>, Invert(A), Rounds \div 2) /\ portable_process_block(A) = Invert(h[Rounds \div 2])
  BY PortableLoop
<1> QED
  BY <1>1, RoundsAre

-----------------------------------------------------------------------------
(* The Cortex-M4 version.                                                    *)

HomeRows == [y \in 1..5 |-> [x \in 1..5 |-> Home(x, y)]]

LEMMA TableHome == Table(HomeRows) /\ HomeRows[1][1] = 0
<1>1. ASSUME NEW x \in 1..5, NEW y \in 1..5 PROVE HomeRows[y][x] = ColA[x][y]
  BY ColAHome DEF HomeRows
<1>2. Table(HomeRows)
  BY <1>1, TableA DEF Table
<1>3. HomeRows[1][1] = Home(1, 1)
  BY DEF HomeRows
<1> QED
  BY <1>2, <1>3 DEF Home

\* The slot from which a row's lane is loaded holds the word that pi moves there.
LEMMA SlotHolds ==
  ASSUME NEW A, NEW t, NEW x \in 1..5, NEW y \in 1..5
  PROVE  M4Stack(A, t)[KHI_LOAD[y][x]] = M4Word(A, t, Home(Src(x, y), x))
<1> DEFINE s == KHI_LOAD[y][x]
           i == IF s < 10 THEN 5 * (s \div 2) + (s % 2)
                ELSE IF s < 20 THEN 5 * ((s - 10) \div 2) + 2 + (s % 2) ELSE 5 * (s - 20) + 4
<1>1. s \in Lanes /\ i = Home(Src(x, y), x)
  <2>1. CASE x = 1
    BY <2>1, Fives DEF KHI_LOAD, Home, Src, Lanes
  <2>2. CASE x = 2
    BY <2>2, Fives DEF KHI_LOAD, Home, Src, Lanes
  <2>3. CASE x = 3
    BY <2>3, Fives DEF KHI_LOAD, Home, Src, Lanes
  <2>4. CASE x = 4
    BY <2>4, Fives DEF KHI_LOAD, Home, Src, Lanes
  <2>5. CASE x = 5
    BY <2>5, Fives DEF KHI_LOAD, Home, Src, Lanes
  <2> QED
    BY <2>1, <2>2, <2>3, <2>4, <2>5, Fives, Zenon
<1>2. ASSUME NEW u \in Lanes
      PROVE  M4Stack(A, t)[u] = M4Word(A, t, IF u < 10 THEN 5 * (u \div 2) + (u % 2)
                ELSE IF u < 20 THEN 5 * ((u - 10) \div 2) + 2 + (u % 2) ELSE 5 * (u - 20) + 4)
  <2>1. CASE u < 10
    <3>1. u \in 0..9
      BY <2>1 DEF Lanes
    <3> QED
      BY <2>1, <3>1 DEF M4Stack, M4Store01
  <2>2. CASE ~(u < 10) /\ u < 20
    <3>1. u \in 10..19
      BY <2>2 DEF Lanes
    <3> QED
      BY <2>2, <3>1 DEF M4Stack, M4Store23
  <2>3. CASE ~(u < 20)
    <3>1. u \in 20..24 /\ ~(u < 10)
      BY <2>3 DEF Lanes
    <3> QED
      BY <2>3, <3>1 DEF M4Stack, M4Store4
  <2> QED
    BY <2>1, <2>2, <2>3
<1>3. M4Stack(A, t)[s] = M4Word(A, t, i)
  <2> HIDE DEF s
  <2> QED
    BY <1>1, <1>2, Zenon DEF i
<1> QED
  BY <1>1, <1>3, Zenon

\* A word of the stack.
LEMMA M4WordIs ==
  ASSUME NEW A, NEW B \in State, Placed(A, B, ColA), NEW x \in 1..5, NEW y \in 1..5
  PROVE  M4Word(A, M4Theta(A), Home(x, y)) = Mask(MidSwapped(x, y), Rotl(Theta(B)[Home(x, y)], Rot[x][y]))
<1> DEFINE i == Home(x, y)
           par == Parities(A, ColA)
           t == M4Theta(A)
           T(p) == [u \in 0..4 |-> XorL(p[((u + 4) % 5) + 1], Rotl(p[((u + 1) % 5) + 1], 1))]
           m == IF x \in {1, 4} THEN 1 ELSE 0
           b == B[i]
           e == Effect(B, x)
<1>1. i % 5 = x - 1 /\ i \div 5 = y - 1 /\ (x - 1) + 1 = x /\ (y - 1) + 1 = y
  BY HomeIs
<1>2. t[x - 1] = XorL(par[((x + 3) % 5) + 1], Rotl(par[(x % 5) + 1], 1))
  <2>1. t = With(par, T)
    BY Zenon DEF M4Theta
  <2>2. With(par, T) = T(par)
    <3> HIDE DEF T, par
    <3> QED
      BY DEF With
  <2>3. x - 1 \in 0..4 /\ (x - 1) + 4 = x + 3 /\ (x - 1) + 1 = x
    OBVIOUS
  <2> HIDE DEF t, par
  <2> QED
    BY <2>1, <2>2, <2>3, Zenon
<1>3. t[x - 1] = Mask(m, e)
  BY <1>2, EffectIs, ZenonT(60)
<1>4. A[i] = Mask(Swapped(x, y), b)
  BY ColAHome, Zenon DEF Placed
<1>5. M4Word(A, t, i) = Rotl(XorL(A[i], t[x - 1]), Rot[x][y])
  <2> HIDE DEF t, i
  <2> QED
    BY <1>1, Zenon DEF M4Word
<1>6. Theta(B)[i] = XorL(b, e)
  BY ThetaIs
<1>7. Swapped(x, y) \in Flag /\ m \in Flag /\ b \in Lane /\ e \in Lane /\ Rot[x][y] \in Bits
  BY SwappedIs, HomeIs, EffectLane, RotRange DEF Flag, State
<1>8. MidSwapped(x, y) = Both(Swapped(x, y), m)
  BY DEF MidSwapped
<1> HIDE DEF t, m, b, e
<1>9. XorL(Mask(Swapped(x, y), b), Mask(m, e)) = Mask(Both(Swapped(x, y), m), XorL(b, e))
  BY <1>7, XorMask
<1>10. XorL(b, e) \in Lane
  BY <1>7, XorLane
<1>11. Rotl(Mask(Both(Swapped(x, y), m), XorL(b, e)), Rot[x][y])
          = Mask(Both(Swapped(x, y), m), Rotl(XorL(b, e), Rot[x][y]))
  BY <1>7, <1>10, RotlMask
<1> QED
  BY <1>3, <1>4, <1>5, <1>6, <1>8, <1>9, <1>11, Zenon DEF t

\* A round of the assembly is a round of the standard.
LEMMA M4RoundIs ==
  ASSUME NEW A, NEW B \in State, Placed(A, B, ColA), NEW j, NEW n, RoundOf(n, j)
  PROVE  Placed(M4Round(A, j), Round(B, n), ColA)
<1> DEFINE st == M4Stack(A, M4Theta(A))
           F == [i \in Lanes |-> st[KHI_LOAD[(i \div 5) + 1][(i % 5) + 1]]]
           row(y) == [x \in 1..5 |-> st[KHI_LOAD[y][x]]]
           mixed == <<ChiRow1(row(1)), ChiRow2(row(2)), ChiRow3(row(3)), ChiRow4(row(4)), ChiRow5(row(5))>>
           G(c) == [i \in Lanes |-> c[(i \div 5) + 1][(i % 5) + 1]]
<1>1. ASSUME NEW x \in 1..5, NEW y \in 1..5
      PROVE  F[Home(x, y)] = st[KHI_LOAD[y][x]]
  <2>1. Home(x, y) \in Lanes /\ (Home(x, y) \div 5) + 1 = y /\ (Home(x, y) % 5) + 1 = x
    BY HomeIs
  <2> HIDE DEF st
  <2> QED
    BY <2>1, Zenon
<1>2. HoldsRows(F, B, HomeRows)
  <2>1. ASSUME NEW x \in 1..5, NEW y \in 1..5
        PROVE  F[HomeRows[y][x]] = Mask(MidSwapped(Src(x, y), x), RhoPi(Theta(B))[Home(x, y)])
    <3>1. Src(x, y) \in 1..5 /\ HomeRows[y][x] = Home(x, y)
      BY SrcRange DEF HomeRows
    <3>2. st[KHI_LOAD[y][x]] = M4Word(A, M4Theta(A), Home(Src(x, y), x))
      BY SlotHolds
    <3>3. M4Word(A, M4Theta(A), Home(Src(x, y), x))
            = Mask(MidSwapped(Src(x, y), x), Rotl(Theta(B)[Home(Src(x, y), x)], Rot[Src(x, y)][x]))
      BY <3>1, M4WordIs
    <3>4. RhoPi(Theta(B))[Home(x, y)] = Rotl(Theta(B)[Home(Src(x, y), x)], Rot[Src(x, y)][x])
      BY RhoPiIs
    <3> HIDE DEF F, st
    <3> QED
      BY <1>1, <3>1, <3>2, <3>3, <3>4, Zenon
  <2> HIDE DEF F
  <2> QED
    BY <2>1 DEF HoldsRows
<1>3. ASSUME NEW y \in 1..5 PROVE row(y) = RowOf(F, HomeRows, y)
  <2>1. ASSUME NEW x \in 1..5 PROVE st[KHI_LOAD[y][x]] = F[HomeRows[y][x]]
    <3>1. HomeRows[y][x] = Home(x, y)
      BY DEF HomeRows
    <3> HIDE DEF F, st
    <3> QED
      BY <1>1, <3>1, Zenon
  <2> HIDE DEF F, st
  <2> QED
    BY <2>1 DEF RowOf
<1>4. KHI_STEPS(st) = G(mixed)
  <2>1. KHI_STEPS(st) = With(mixed, G)
    <3> HIDE DEF st
    <3> QED
      BY Zenon DEF KHI_STEPS
  <2> HIDE DEF G, mixed
  <2>2. With(mixed, G) = G(mixed)
    BY DEF With
  <2> QED
    BY <2>1, <2>2, Zenon
<1>5. ASSUME NEW x \in 1..5, NEW y \in 1..5
      PROVE  G(mixed)[Home(x, y)] = ChiRows(F, HomeRows)[Home(x, y)]
  <2>1. Home(x, y) \in Lanes /\ (Home(x, y) \div 5) + 1 = y /\ (Home(x, y) % 5) + 1 = x /\ HomeRows[y][x] = Home(x, y)
    BY HomeIs DEF HomeRows
  <2>2. mixed[y] = RowMix(y, row(y))
    <3> HIDE DEF row
    <3> QED
      BY Fives DEF RowMix
  <2>3. ChiRows(F, HomeRows)[HomeRows[y][x]] = RowMix(y, RowOf(F, HomeRows, y))[x]
    <3> HIDE DEF F
    <3> QED
      BY TableHome, ChiRowsIs
  <2>4. row(y) = RowOf(F, HomeRows, y)
    BY <1>3
  <2> HIDE DEF mixed, F, row
  <2>5. G(mixed)[Home(x, y)] = mixed[y][x]
    BY <2>1, Zenon
  <2> QED
    BY <2>1, <2>2, <2>3, <2>4, <2>5, Zenon
<1>6. G(mixed) = ChiRows(F, HomeRows)
  <2>1. ASSUME NEW i \in Lanes PROVE G(mixed)[i] = ChiRows(F, HomeRows)[i]
    <3>1. PICK x \in 1..5, y \in 1..5 : i = Home(x, y)
      BY HomeOf
    <3> HIDE DEF G, mixed, F
    <3> QED
      BY <1>5, <3>1, Zenon
  <2>2. ChiRows(F, HomeRows) = [i \in Lanes |-> ChiRows(F, HomeRows)[i]]
    <3> HIDE DEF F
    <3> QED
      BY DEF ChiRows, With
  <2>3. G(mixed) = [i \in Lanes |-> G(mixed)[i]]
    <3> HIDE DEF mixed
    <3> QED
      OBVIOUS
  <2> HIDE DEF G, mixed, F
  <2> QED
    BY <2>1, <2>2, <2>3, Zenon
<1>7. M4Round(A, j) = Iota(KHI_STEPS(st), j)
  BY DEF M4Round, With
<1> HIDE DEF F, st
<1>8. ASSUME NEW x \in 1..5, NEW y \in 1..5
      PROVE  Iota(ChiRows(F, HomeRows), j)[HomeRows[y][x]] = Mask(Swapped(x, y), Round(B, n)[Home(x, y)])
  BY <1>2, TableHome, ChiIotaIs
<1>9. ASSUME NEW x \in 1..5, NEW y \in 1..5
      PROVE  M4Round(A, j)[ColA[x][y]] = Mask(Swapped(x, y), Round(B, n)[Home(x, y)])
  <2>1. HomeRows[y][x] = ColA[x][y]
    BY ColAHome DEF HomeRows
  <2> HIDE DEF G, mixed
  <2> QED
    BY <1>4, <1>6, <1>7, <1>8, <2>1, ZenonT(60)
<1> QED
  BY <1>9 DEF Placed

LEMMA M4Loop ==
  ASSUME NEW A
  PROVE  \E h : Runs(h, <<"m4">>, Invert(A), Rounds) /\ m4_process_block(A) = Invert(h[Rounds])
<1> DEFINE loop == <<"m4">>
           d == With(A, INVERT_WORDS)
           m == Rounds
           step(x, k) == With(x, LAMBDA a : M4Round(a, k - 1))
           E(h) == h = [j \in 0..m |-> IF j = 0 THEN d ELSE step(h[j - 1], j)]
           f == CHOOSE h : E(h)
<1>1. ASSUME NEW x, NEW k PROVE LoopStep(loop, x, k) = step(x, k)
  BY DEF LoopStep, With
<1>2. m4_process_block(A) = With(f[m], INVERT_WORDS)
  BY Zenon DEF m4_process_block
<1>3. m \in Nat
  BY RoundsAssumption
<1> HIDE DEF loop, step, m
<1>4. \E h : E(h)
  <2>1. PICK h : Iterates(h, loop, d, m)
    BY <1>3, LoopExists
  <2>2. E(h)
    BY <1>1, <2>1, Zenon DEF Iterates
  <2> HIDE DEF E
  <2> QED
    BY <2>2, Zenon
<1>5. E(f)
  <2> HIDE DEF E
  <2> QED
    BY <1>4, Zenon
<1> HIDE DEF f
<1>6. Iterates(f, loop, d, m)
  BY <1>1, <1>5, Zenon DEF Iterates
<1>7. Runs(f, loop, d, m)
  BY <1>3, <1>6, LoopRuns
<1>8. d = Invert(A) /\ With(f[m], INVERT_WORDS) = Invert(f[m])
  BY DEF With, INVERT_WORDS, Invert
<1> QED
  BY <1>2, <1>7, <1>8, Zenon DEF loop, m

\* So does the Cortex-M4 version.
LEMMA M4IsKeccak ==
  ASSUME NEW B \in State
  PROVE  m4_process_block(B) = KeccakF(B)
<1>1. PICK g : Runs(g, <<"standard">>, B, Rounds) /\ KeccakF(B) = g[Rounds]
  BY StandardLoop
<1>2. PICK h : Runs(h, <<"m4">>, Invert(B), Rounds) /\ m4_process_block(B) = Invert(h[Rounds])
  BY M4Loop
<1> DEFINE S == {n \in Nat : n <= Rounds => Placed(h[n], g[n], ColA)}
<1>3. 0 \in S
  <2>1. h[0] = Invert(B) /\ g[0] = B
    BY <1>1, <1>2, Zenon DEF Runs
  <2>2. Placed(h[0], g[0], ColA)
    BY <2>1, InvertIs, Zenon
  <2> QED
    BY <2>2
<1>4. ASSUME NEW n \in Nat, n \in S PROVE n + 1 \in S
  <2> SUFFICES ASSUME n + 1 <= Rounds PROVE Placed(h[n + 1], g[n + 1], ColA)
    OBVIOUS
  <2>1. PICK m : m = n + 1
    OBVIOUS
  <2>2. m \in 1..Rounds /\ m - 1 = n /\ n <= Rounds /\ n \in 0..Rounds /\ RoundOf(m, n)
    BY <2>1, RoundsAssumption DEF RoundOf
  <2>3. Placed(h[n], g[n], ColA)
    BY <1>4, <2>2
  <2>4. g[m] = Round(g[n], m)
    BY <1>1, <2>2, StandardNext
  <2>5. g[n] \in State
    BY <1>1, <2>2, StandardState
  <2>6. h[m] = LoopStep(<<"m4">>, h[n], m)
    BY <1>2, <2>2, Zenon DEF Runs
  <2>7. LoopStep(<<"m4">>, h[n], m) = M4Round(h[n], n)
    <3>1. LoopStep(<<"m4">>, h[n], m) = M4Round(h[n], m - 1)
      BY DEF LoopStep
    <3> QED
      BY <2>2, <3>1, Zenon
  <2>8. Placed(M4Round(h[n], n), Round(g[n], m), ColA)
    BY <2>2, <2>3, <2>5, M4RoundIs
  <2> QED
    BY <2>1, <2>4, <2>6, <2>7, <2>8, Zenon
<1> HIDE DEF S
<1>5. Rounds \in Nat
  BY RoundsAssumption
<1>6. Rounds \in S
  BY <1>3, <1>4, <1>5, NatSetInduction
<1>7. Placed(h[Rounds], g[Rounds], ColA)
  BY <1>5, <1>6 DEF S
<1>8. g[Rounds] \in State
  <2>1. Rounds \in 0..Rounds
    BY RoundsAssumption
  <2> QED
    BY <1>1, <2>1, StandardState
<1> QED
  BY <1>1, <1>2, <1>7, <1>8, InvertIs, Zenon

\* Both of the first implementation's permutations are that of FIPS 202.
THEOREM LegacyProcessBlockIsKeccak ==
  ASSUME NEW A \in State, NEW m4 \in BOOLEAN
  PROVE  legacy_process_block(m4, A) = KeccakF(A)
<1>1. portable_process_block(A) = KeccakF(A) /\ m4_process_block(A) = KeccakF(A)
  BY PortableIsKeccak, M4IsKeccak
<1> QED
  BY <1>1, Zenon DEF legacy_process_block

-----------------------------------------------------------------------------
(* What a loop leaves after k iterations.                                    *)

After(loop, d, k) == (CHOOSE h : Iterates(h, loop, d, k))[k]

LEMMA LoopPrefix ==
  ASSUME NEW loop, NEW d, NEW m \in Nat, NEW n \in Nat, NEW f, Runs(f, loop, d, m), NEW g, Runs(g, loop, d, n),
         NEW k \in Nat, k <= m, k <= n
  PROVE  f[k] = g[k]
<1> DEFINE S == {i \in Nat : i <= k => f[i] = g[i]}
<1>1. 0 \in S
  BY DEF Runs
<1>2. ASSUME NEW i \in Nat, i \in S PROVE i + 1 \in S
  <2> SUFFICES ASSUME i + 1 <= k PROVE f[i + 1] = g[i + 1]
    OBVIOUS
  <2>1. i + 1 \in 1..m /\ i + 1 \in 1..n /\ (i + 1) - 1 = i /\ i <= k
    OBVIOUS
  <2>2. f[i] = g[i]
    BY <1>2, <2>1
  <2>3. f[i + 1] = LoopStep(loop, f[i], i + 1)
    BY <2>1, Zenon DEF Runs
  <2>4. g[i + 1] = LoopStep(loop, g[i], i + 1)
    BY <2>1, Zenon DEF Runs
  <2> QED
    BY <2>2, <2>3, <2>4, Zenon
<1> HIDE DEF S
<1>3. k \in S
  BY <1>1, <1>2, NatSetInduction
<1> QED
  BY <1>3 DEF S

LEMMA AfterRuns ==
  ASSUME NEW loop, NEW d, NEW k \in Nat
  PROVE  \E h : Runs(h, loop, d, k) /\ h[k] = After(loop, d, k)
<1> DEFINE h == CHOOSE h : Iterates(h, loop, d, k)
<1>1. Iterates(h, loop, d, k)
  BY LoopExists, Zenon
<1>2. h[k] = After(loop, d, k)
  BY DEF After
<1> HIDE DEF h
<1>3. Runs(h, loop, d, k)
  BY <1>1, LoopRuns
<1> QED
  BY <1>2, <1>3

LEMMA RunsAfter ==
  ASSUME NEW loop, NEW d, NEW m \in Nat, NEW f, Runs(f, loop, d, m), NEW k \in 0..m
  PROVE  f[k] = After(loop, d, k)
<1>0. k \in Nat /\ k <= m /\ k <= k
  OBVIOUS
<1>1. PICK h : Runs(h, loop, d, k) /\ h[k] = After(loop, d, k)
  BY <1>0, AfterRuns
<1>2. f[k] = h[k]
  BY <1>0, <1>1, LoopPrefix
<1> QED
  BY <1>1, <1>2

LEMMA AfterIs ==
  ASSUME NEW loop, NEW d
  PROVE  /\ After(loop, d, 0) = d
         /\ \A k \in Nat : After(loop, d, k + 1) = LoopStep(loop, After(loop, d, k), k + 1)
<1>1. After(loop, d, 0) = d
  <2>1. PICK h : Runs(h, loop, d, 0) /\ h[0] = After(loop, d, 0)
    BY AfterRuns
  <2> QED
    BY <2>1 DEF Runs
<1>2. ASSUME NEW k \in Nat PROVE After(loop, d, k + 1) = LoopStep(loop, After(loop, d, k), k + 1)
  <2> DEFINE m == k + 1
  <2>1. m \in Nat /\ m \in 1..m /\ m - 1 = k /\ k \in 0..m
    OBVIOUS
  <2> HIDE DEF m
  <2>2. PICK h : Runs(h, loop, d, m) /\ h[m] = After(loop, d, m)
    BY <2>1, AfterRuns
  <2>3. h[m] = LoopStep(loop, h[m - 1], m)
    BY <2>1, <2>2, Zenon DEF Runs
  <2>4. h[k] = After(loop, d, k)
    BY <2>1, <2>2, RunsAfter
  <2> QED
    BY <2>1, <2>2, <2>3, <2>4, Zenon DEF m
<1> QED
  BY <1>1, <1>2

\* The fixpoint that a recursive function chooses ends where the loop does.
LEMMA ChosenAfter ==
  ASSUME NEW loop, NEW d, NEW m \in Nat, NEW f, Iterates(f, loop, d, m)
  PROVE  f[m] = After(loop, d, m)
<1>1. Runs(f, loop, d, m)
  BY LoopRuns
<1>2. m \in 0..m
  OBVIOUS
<1> QED
  BY <1>1, <1>2, RunsAfter

-----------------------------------------------------------------------------
(* The 200 bytes of a state.                                                 *)

Places == 0..199

LEMMA ByteIs ==
  ASSUME NEW v \in Places, NEW b \in 0..7
  PROVE  /\ v \div 8 \in Lanes /\ 8 * (v % 8) + b \in Bits
         /\ (8 * (v % 8) + b) % 8 = b /\ 8 * (v \div 8) + ((8 * (v % 8) + b) \div 8) = v
  BY DEF Places, Lanes, Bits

LEMMA BitIs ==
  ASSUME NEW i \in Lanes, NEW c \in Bits
  PROVE  LET v == 8 * i + (c \div 8)
         IN  v \in Places /\ v \div 8 = i /\ 8 * (v % 8) + (c % 8) = c /\ c % 8 \in 0..7
  BY DEF Places, Lanes, Bits

\* A bit of a lane is a bit of a byte.
LEMMA LaneBit ==
  ASSUME NEW A, NEW i \in Lanes, NEW c \in Bits
  PROVE  c \in A[i] <=> c % 8 \in StateByte(A, 8 * i + (c \div 8))
<1> DEFINE v == 8 * i + (c \div 8)
           b == c % 8
<1>1. v \div 8 = i /\ 8 * (v % 8) + b = c /\ b \in 0..7
  BY BitIs
<1> HIDE DEF v, b
<1>2. b \in StateByte(A, v) <=> 8 * (v % 8) + b \in A[v \div 8]
  BY <1>1 DEF StateByte
<1> QED
  BY <1>1, <1>2, Zenon DEF v, b

LEMMA StatesEqual ==
  ASSUME NEW A \in State, NEW B \in State, \A v \in Places : StateByte(A, v) = StateByte(B, v)
  PROVE  A = B
<1>1. ASSUME NEW i \in Lanes, NEW c \in Bits PROVE c \in A[i] <=> c \in B[i]
  <2>1. c \in A[i] <=> c % 8 \in StateByte(A, 8 * i + (c \div 8))
    BY LaneBit, Zenon
  <2>2. c \in B[i] <=> c % 8 \in StateByte(B, 8 * i + (c \div 8))
    BY LaneBit, Zenon
  <2>3. 8 * i + (c \div 8) \in Places
    BY BitIs
  <2> QED
    BY <2>1, <2>2, <2>3, Zenon
<1>2. ASSUME NEW i \in Lanes PROVE A[i] = B[i]
  <2>1. A[i] \subseteq Bits /\ B[i] \subseteq Bits
    BY DEF State, Lane
  <2> QED
    BY <1>1, <2>1
<1> QED
  BY <1>2 DEF State

LEMMA StateByteIn == ASSUME NEW A, NEW v PROVE StateByte(A, v) \in Byte
  BY DEF StateByte, Byte

LEMMA XorByteIn == ASSUME NEW x \in Byte, NEW y \in Byte PROVE XorL(x, y) \in Byte
  BY DEF XorL, Byte

LEMMA AbsorbIs ==
  ASSUME NEW A, NEW block, \A v \in 0..135 : block[v] \in Byte
  PROVE  /\ Absorb(A, block) \in State
         /\ \A v \in Places : StateByte(Absorb(A, block), v) = MixedByte(A, block, v)
<1> DEFINE X == Absorb(A, block)
<1>1. X \in State
  BY DEF Absorb, State, Lane
<1>2. ASSUME NEW i \in Lanes, NEW c \in Bits
      PROVE  c \in X[i] <=> c % 8 \in MixedByte(A, block, 8 * i + (c \div 8))
  BY DEF Absorb
<1> HIDE DEF X
<1>3. ASSUME NEW v \in Places PROVE StateByte(X, v) = MixedByte(A, block, v)
  <2>1. MixedByte(A, block, v) \in Byte
    <3>1. CASE v < 136
      <4>1. v \in 0..135
        BY <3>1 DEF Places
      <4>2. block[v] \in Byte
        BY <4>1
      <4> QED
        BY <3>1, <4>2, StateByteIn, XorByteIn DEF MixedByte
    <3>2. CASE ~(v < 136)
      BY <3>2, StateByteIn DEF MixedByte
    <3> QED
      BY <3>1, <3>2
  <2>2. ASSUME NEW b \in 0..7 PROVE b \in StateByte(X, v) <=> b \in MixedByte(A, block, v)
    <3> DEFINE c == 8 * (v % 8) + b
    <3>1. v \div 8 \in Lanes /\ c \in Bits /\ c % 8 = b /\ 8 * (v \div 8) + (c \div 8) = v
      BY ByteIs
    <3>2. b \in StateByte(X, v) <=> c \in X[v \div 8]
      BY DEF StateByte
    <3> HIDE DEF c
    <3>3. c \in X[v \div 8] <=> c % 8 \in MixedByte(A, block, 8 * (v \div 8) + (c \div 8))
      BY <1>2, <3>1, Zenon
    <3> QED
      BY <3>1, <3>2, <3>3, Zenon
  <2>3. StateByte(X, v) \in Byte
    BY StateByteIn
  <2> QED
    BY <2>1, <2>2, <2>3 DEF Byte
<1> QED
  BY <1>1, <1>3 DEF X

\* clen bytes of in, from in[pos], mixed into the bytes from dptr on.
MixedIn(A, dptr, in, pos, clen, v) ==
    IF dptr <= v /\ v < dptr + clen THEN XorL(StateByte(A, v), in[pos + v - dptr]) ELSE StateByte(A, v)

LEMMA XorBytesIs ==
  ASSUME NEW A \in State, NEW dptr \in Nat, NEW in, NEW pos \in Nat, NEW clen \in Nat, dptr + clen <= 200,
         \A u \in 0..(clen - 1) : in[pos + u] \in Byte
  PROVE  /\ XorBytes(A, dptr, in, pos, clen) \in State
         /\ \A v \in Places : StateByte(XorBytes(A, dptr, in, pos, clen), v) = MixedIn(A, dptr, in, pos, clen, v)
<1> DEFINE X == XorBytes(A, dptr, in, pos, clen)
           vs(i) == {v \in dptr..(dptr + clen - 1) : v \div 8 = i}
           added(i) == UNION {{8 * (v % 8) + b : b \in in[pos + v - dptr]} : v \in vs(i)}
<1>1. ASSUME NEW v \in dptr..(dptr + clen - 1)
      PROVE  v \in Places /\ v \in Nat /\ in[pos + v - dptr] \in Byte
  <2>1. v - dptr \in 0..(clen - 1) /\ pos + (v - dptr) = pos + v - dptr
    OBVIOUS
  <2>2. in[pos + (v - dptr)] \in Byte
    BY <2>1
  <2> QED
    BY <2>1, <2>2 DEF Places
<1>2. ASSUME NEW i, NEW c
      PROVE  c \in added(i) <=> \E v \in vs(i) : \E b \in in[pos + v - dptr] : c = 8 * (v % 8) + b
  <2> HIDE DEF vs
  <2> QED
    OBVIOUS
<1>3. ASSUME NEW i \in Lanes PROVE added(i) \subseteq Bits
  <2>1. ASSUME NEW v \in vs(i), NEW b \in in[pos + v - dptr] PROVE 8 * (v % 8) + b \in Bits
    <3>1. v \in Places /\ in[pos + v - dptr] \in Byte
      BY <1>1
    <3>2. b \in 0..7
      BY <3>1 DEF Byte
    <3> QED
      BY <3>1, <3>2, ByteIs
  <2> HIDE DEF vs
  <2> QED
    BY <1>2, <2>1
<1>4. ASSUME NEW i \in Lanes PROVE X[i] = XorL(A[i], added(i))
  <2>1. X[i] = IF vs(i) = {} THEN A[i] ELSE XorL(A[i], added(i))
    BY DEF XorBytes
  <2>2. vs(i) = {} => added(i) = {}
    OBVIOUS
  <2>3. XorL(A[i], {}) = A[i]
    BY DEF XorL
  <2> HIDE DEF X, vs, added
  <2> QED
    BY <2>1, <2>2, <2>3
<1>5. X \in State
  <2>1. ASSUME NEW i \in Lanes PROVE X[i] \in Lane
    BY <1>3, <1>4 DEF State, Lane, XorL
  <2>2. X = [i \in Lanes |-> X[i]]
    BY DEF XorBytes
  <2> HIDE DEF X
  <2> QED
    BY <2>1, <2>2 DEF State
<1>6. ASSUME NEW v \in Places PROVE StateByte(X, v) = MixedIn(A, dptr, in, pos, clen, v)
  <2> DEFINE R == dptr <= v /\ v < dptr + clen
             y == in[pos + v - dptr]
  <2>1. ASSUME NEW b \in 0..7 PROVE 8 * (v % 8) + b \in added(v \div 8) <=> (R /\ b \in y)
    <3>1. ASSUME R, b \in y PROVE 8 * (v % 8) + b \in added(v \div 8)
      <4>1. v \in vs(v \div 8)
        BY <3>1 DEF Places
      <4> QED
        BY <1>2, <3>1, <4>1, Zenon
    <3>2. ASSUME 8 * (v % 8) + b \in added(v \div 8) PROVE R /\ b \in y
      <4>0. PICK w \in vs(v \div 8) : \E e \in in[pos + w - dptr] : 8 * (v % 8) + b = 8 * (w % 8) + e
        <5> HIDE DEF vs, added
        <5> QED
          BY <1>2, <3>2, Zenon
      <4>1. PICK e \in in[pos + w - dptr] : 8 * (v % 8) + b = 8 * (w % 8) + e
        BY <4>0
      <4>2. w \in dptr..(dptr + clen - 1) /\ w \div 8 = v \div 8
        OBVIOUS
      <4>3. w \in Places /\ in[pos + w - dptr] \in Byte
        BY <1>1, <4>2
      <4>4. e \in 0..7
        BY <4>3 DEF Byte
      <4>5. w = v /\ e = b
        BY <4>1, <4>2, <4>3, <4>4 DEF Places
      <4>6. R
        BY <4>2, <4>5
      <4> QED
        BY <4>5, <4>6
    <3> QED
      BY <3>1, <3>2
  <2>2. v \div 8 \in Lanes /\ \A b \in 0..7 : 8 * (v % 8) + b \in Bits
    BY ByteIs
  <2>3. ASSUME NEW b \in 0..7
        PROVE  b \in StateByte(X, v) <=> (b \in StateByte(A, v) /\ ~(R /\ b \in y)) \/ (b \notin StateByte(A, v) /\ R /\ b \in y)
    <3>1. b \in StateByte(X, v) <=> 8 * (v % 8) + b \in X[v \div 8]
      BY DEF StateByte
    <3>2. b \in StateByte(A, v) <=> 8 * (v % 8) + b \in A[v \div 8]
      BY DEF StateByte
    <3>3. X[v \div 8] = XorL(A[v \div 8], added(v \div 8))
      BY <1>4, <2>2
    <3> DEFINE c == 8 * (v % 8) + b
               D == added(v \div 8)
    <3>4. c \in D <=> (R /\ b \in y)
      BY <2>1
    <3> HIDE DEF c, D, R, y, X
    <3>5. c \in XorL(A[v \div 8], D) <=> (c \in A[v \div 8] /\ c \notin D) \/ (c \notin A[v \div 8] /\ c \in D)
      BY DEF XorL
    <3> QED
      BY <3>1, <3>2, <3>3, <3>4, <3>5, Zenon DEF c, D
  <2>4. StateByte(X, v) \in Byte /\ StateByte(A, v) \in Byte
    BY StateByteIn
  <2>5. CASE R
    <3>1. v \in dptr..(dptr + clen - 1)
      BY <2>5 DEF Places
    <3>2. y \in Byte
      BY <1>1, <3>1
    <3>3. MixedIn(A, dptr, in, pos, clen, v) = XorL(StateByte(A, v), y)
      BY <2>5 DEF MixedIn
    <3> HIDE DEF X, y, R
    <3>4. StateByte(X, v) = XorL(StateByte(A, v), y)
      BY <2>3, <2>4, <2>5, <3>2 DEF Byte, XorL
    <3> QED
      BY <3>3, <3>4
  <2>6. CASE ~R
    <3>1. MixedIn(A, dptr, in, pos, clen, v) = StateByte(A, v)
      BY <2>6 DEF MixedIn
    <3> HIDE DEF X, R
    <3>2. StateByte(X, v) = StateByte(A, v)
      BY <2>3, <2>4, <2>6 DEF Byte
    <3> QED
      BY <3>1, <3>2
  <2> QED
    BY <2>5, <2>6
<1> QED
  BY <1>5, <1>6 DEF X

-----------------------------------------------------------------------------
(* The message is absorbed block by block.                                   *)

Zero == [i \in Lanes |-> {}]
\* The state after q blocks of the message.
Abs(q) == After(<<"blocks">>, Zero, q)

\* X is that state with n bytes of the next block mixed into it.
Filled(X, q, n) ==
    /\ X \in State
    /\ \A v \in Places : StateByte(X, v) = IF v < n THEN XorL(StateByte(Abs(q), v), Msg[136 * q + v])
                                           ELSE StateByte(Abs(q), v)

LEMMA AbsIs ==
  /\ Abs(0) = Zero
  /\ \A q \in Nat : Abs(q + 1) = KeccakF(Absorb(Abs(q), MsgBlock(q)))
  /\ \A q \in Nat : Abs(q) \in State
<1>1. Abs(0) = Zero
  BY AfterIs DEF Abs
<1>2. ASSUME NEW q \in Nat PROVE Abs(q + 1) = KeccakF(Absorb(Abs(q), MsgBlock(q)))
  <2>1. Abs(q + 1) = LoopStep(<<"blocks">>, Abs(q), q + 1)
    BY AfterIs, Zenon DEF Abs
  <2>2. LoopStep(<<"blocks">>, Abs(q), q + 1) = KeccakF(Absorb(Abs(q), MsgBlock((q + 1) - 1)))
    BY DEF LoopStep
  <2>3. (q + 1) - 1 = q
    OBVIOUS
  <2> QED
    BY <2>1, <2>2, <2>3, Zenon
<1> DEFINE S == {q \in Nat : Abs(q) \in State}
<1>3. 0 \in S
  <2>1. Zero \in State
    BY DEF Zero, State, Lane
  <2> QED
    BY <1>1, <2>1
<1>4. ASSUME NEW q \in Nat, q \in S PROVE q + 1 \in S
  <2>1. Absorb(Abs(q), MsgBlock(q)) \in State
    BY DEF Absorb, State, Lane
  <2>2. KeccakF(Absorb(Abs(q), MsgBlock(q))) \in State
    BY <2>1, ProcessBlockIsKeccak
  <2>3. Abs(q + 1) \in State
    BY <1>2, <2>2, Zenon
  <2> QED
    BY <2>3
<1>5. Nat \subseteq S
  <2> HIDE DEF S
  <2> QED
    BY <1>3, <1>4, NatSetInduction
<1> QED
  BY <1>1, <1>2, <1>5

\* Mixing in clen more bytes of the block.
LEMMA FilledMore ==
  ASSUME NEW X, NEW q \in Nat, NEW n \in 0..135, Filled(X, q, n), NEW in, NEW pos \in Nat, NEW clen \in Nat,
         n + clen <= 136, 136 * q + n + clen <= MaxIn,
         \A u \in 0..(clen - 1) : in[pos + u] = Msg[136 * q + n + u]
  PROVE  Filled(XorBytes(X, n, in, pos, clen), q, n + clen)
<1> DEFINE Y == XorBytes(X, n, in, pos, clen)
           B == Abs(q)
<1>1. ASSUME NEW u \in 0..(clen - 1) PROVE in[pos + u] \in Byte
  <2>1. 136 * q + n + u \in 0..(MaxIn - 1)
    BY ShakeAssumption
  <2>2. in[pos + u] = Msg[136 * q + n + u]
    OBVIOUS
  <2> DEFINE j == 136 * q + n + u
  <2> HIDE DEF j
  <2>3. Msg[j] \in Byte
    BY <2>1, ShakeAssumption DEF j
  <2> QED
    BY <2>2, <2>3 DEF j
<1>2. X \in State
  BY DEF Filled
<1>3. Y \in State /\ \A v \in Places : StateByte(Y, v) = MixedIn(X, n, in, pos, clen, v)
  <2>1. n \in Nat /\ n + clen <= 200
    OBVIOUS
  <2>2. \A u \in 0..(clen - 1) : in[pos + u] \in Byte
    BY <1>1, Zenon
  <2> QED
    BY <1>2, <2>1, <2>2, XorBytesIs, ZenonT(60)
<1>4. ASSUME NEW v \in Places
      PROVE  StateByte(Y, v) = IF v < n + clen THEN XorL(StateByte(B, v), Msg[136 * q + v]) ELSE StateByte(B, v)
  <2>1. StateByte(Y, v) = MixedIn(X, n, in, pos, clen, v)
    BY <1>3
  <2>2. StateByte(X, v) = IF v < n THEN XorL(StateByte(B, v), Msg[136 * q + v]) ELSE StateByte(B, v)
    BY DEF Filled
  <2> HIDE DEF Y, B
  <2>3. CASE v < n
    <3>1. ~(n <= v) /\ v < n + clen
      BY <2>3 DEF Places
    <3> QED
      BY <2>1, <2>2, <2>3, <3>1 DEF MixedIn
  <2>4. CASE n <= v /\ v < n + clen
    <3>1. v - n \in 0..(clen - 1) /\ pos + (v - n) = pos + v - n /\ 136 * q + n + (v - n) = 136 * q + v /\ ~(v < n)
      BY <2>4 DEF Places
    <3>2. in[pos + (v - n)] = Msg[136 * q + n + (v - n)]
      BY <3>1
    <3>3. in[pos + v - n] = Msg[136 * q + v]
      BY <3>1, <3>2, Zenon
    <3>4. StateByte(Y, v) = XorL(StateByte(X, v), in[pos + v - n])
      BY <2>1, <2>4, Zenon DEF MixedIn
    <3>5. StateByte(X, v) = StateByte(B, v)
      BY <2>2, <3>1, Zenon
    <3> QED
      BY <2>4, <3>3, <3>4, <3>5, Zenon
  <2>5. CASE n + clen <= v
    <3>0. v \in Nat /\ n \in Nat /\ clen \in Nat
      BY DEF Places
    <3>1. ~(v < n + clen) /\ ~(v < n)
      BY <2>5, <3>0
    <3> QED
      BY <2>1, <2>2, <3>1 DEF MixedIn
  <2> QED
    BY <2>3, <2>4, <2>5 DEF Places
<1> QED
  BY <1>3, <1>4 DEF Filled

\* A full block.
LEMMA FilledBlock ==
  ASSUME NEW X, NEW q \in Nat, Filled(X, q, 136), 136 * q + 136 <= MaxIn
  PROVE  KeccakF(X) = Abs(q + 1) /\ Filled(Abs(q + 1), q + 1, 0)
<1> DEFINE Y == Absorb(Abs(q), MsgBlock(q))
<1>1. ASSUME NEW v \in 0..135 PROVE MsgBlock(q)[v] = Msg[136 * q + v] /\ MsgBlock(q)[v] \in Byte
  <2>1. 136 * q + v \in 0..(MaxIn - 1)
    BY ShakeAssumption
  <2> DEFINE j == 136 * q + v
  <2>2. MsgBlock(q)[v] = Msg[j]
    BY DEF MsgBlock
  <2> HIDE DEF j
  <2>3. Msg[j] \in Byte
    BY <2>1, ShakeAssumption DEF j
  <2> QED
    BY <2>2, <2>3 DEF j
<1>2. Y \in State /\ \A v \in Places : StateByte(Y, v) = MixedByte(Abs(q), MsgBlock(q), v)
  BY <1>1, AbsorbIs
<1>3. ASSUME NEW v \in Places PROVE StateByte(X, v) = StateByte(Y, v)
  <2>1. StateByte(Y, v) = MixedByte(Abs(q), MsgBlock(q), v)
    BY <1>2
  <2>2. v < 136 => v \in 0..135
    BY DEF Places
  <2>3. StateByte(X, v) = IF v < 136 THEN XorL(StateByte(Abs(q), v), Msg[136 * q + v]) ELSE StateByte(Abs(q), v)
    BY DEF Filled
  <2>4. v < 136 => MsgBlock(q)[v] = Msg[136 * q + v]
    BY <1>1, <2>2
  <2> HIDE DEF Y
  <2>5. CASE v < 136
    BY <2>1, <2>3, <2>4, <2>5, Zenon DEF MixedByte
  <2>6. CASE ~(v < 136)
    BY <2>1, <2>3, <2>6, Zenon DEF MixedByte
  <2> QED
    BY <2>5, <2>6
<1>4. X = Y
  <2>1. X \in State
    BY DEF Filled
  <2> HIDE DEF Y
  <2> QED
    BY <1>2, <1>3, <2>1, StatesEqual
<1>5. KeccakF(X) = Abs(q + 1)
  BY <1>4, AbsIs
<1>6. q + 1 \in Nat
  OBVIOUS
<1>7. Abs(q + 1) \in State
  BY <1>6, AbsIs, Zenon
<1>8. ASSUME NEW v \in Places PROVE ~(v < 0)
  BY DEF Places
<1>9. Filled(Abs(q + 1), q + 1, 0)
  BY <1>7, <1>8, Zenon DEF Filled
<1> QED
  BY <1>5, <1>9

-----------------------------------------------------------------------------
(* Injection, in both implementations.                                       *)

Ctx(a, n, p) == [A |-> a, dptr |-> n, rate |-> 136, pos |-> p]
LCtx(a, n, p) == [A |-> a, dptr |-> n, pos |-> p]

\* The input of an injection of len bytes after the first L bytes.
Feeds(in, L, len) == L + len <= MaxIn /\ \A u \in 0..(len - 1) : in[u] = Msg[L + u]
HasRate(s) == s.rate = 136

\* After k iterations of an injection of len bytes after the first L bytes.
Injecting(a, n, p, L, len, k) ==
    /\ p \in 0..len /\ n = (L + p) % 136
    /\ Filled(a, (L + p) \div 136, n)
    /\ p = len \/ p - n >= 136 * k - (L % 136)

LEMMA InjectNext ==
  ASSUME NEW L \in Nat, NEW len \in Nat, NEW k \in Nat, NEW a, NEW n, NEW p,
         Injecting(a, n, p, L, len, k), NEW m4 \in BOOLEAN,
         NEW in, Feeds(in, L, len)
  PROVE  \E b, m, r : /\ InjectStep(Ctx(a, n, p), in, len) = Ctx(b, m, r)
                      /\ LegacyInjectStep(m4, LCtx(a, n, p), in, len) = LCtx(b, m, r)
                      /\ Injecting(b, m, r, L, len, k + 1)
<1> DEFINE clen == Least(136 - n, len - p)
           q == (L + p) \div 136
           x == XorBytes(a, n, in, p, clen)
<1>1. /\ p \in Nat /\ p <= len /\ n \in 0..135 /\ n \in Nat /\ q \in Nat /\ L + p = 136 * q + n
      /\ Filled(a, q, n) /\ (p = len \/ p - n >= 136 * k - (L % 136))
  BY DEF Injecting
<1>0. L + len <= MaxIn /\ \A u \in 0..(len - 1) : in[u] = Msg[L + u]
  BY DEF Feeds
<1>2. /\ InjectStep(Ctx(a, n, p), in, len)
           = IF len = p THEN Ctx(a, n, p)
             ELSE IF n + clen = 136 THEN Ctx(process_block(x), 0, p + clen)
             ELSE Ctx(x, n + clen, p + clen)
      /\ LegacyInjectStep(m4, LCtx(a, n, p), in, len)
           = IF len = p THEN LCtx(a, n, p)
             ELSE IF n + clen = 136 THEN LCtx(legacy_process_block(m4, x), 0, p + clen)
             ELSE LCtx(x, n + clen, p + clen)
  <2> DEFINE s == Ctx(a, n, p)
             l == LCtx(a, n, p)
  <2>1. clen \in Int /\ p + clen \in Int /\ n + clen \in Int
    BY <1>1 DEF Least
  <2>2. s.A = a /\ s.dptr = n /\ s.rate = 136 /\ s.pos = p /\ l.A = a /\ l.dptr = n /\ l.pos = p
    BY DEF Ctx, LCtx
  <2>3. InjectStep(s, in, len)
          = IF len = p THEN s
            ELSE IF n + clen = 136 THEN [s EXCEPT !.A = process_block(x), !.dptr = 0, !.pos = @ + clen]
            ELSE [s EXCEPT !.A = x, !.dptr = @ + clen, !.pos = @ + clen]
    <3> HIDE DEF s
    <3> QED
      BY <2>2, ZenonT(60) DEF InjectStep
  <2>4. LegacyInjectStep(m4, l, in, len)
          = IF len = p THEN l
            ELSE IF n + clen = 136 THEN [A |-> legacy_process_block(m4, x), dptr |-> 0, pos |-> p + clen]
            ELSE [A |-> x, dptr |-> n + clen, pos |-> p + clen]
    <3> HIDE DEF l
    <3> QED
      BY <2>2, Zenon DEF LegacyInjectStep
  <2> HIDE DEF clen, x
  <2>5. [s EXCEPT !.A = process_block(x), !.dptr = 0, !.pos = @ + clen] = Ctx(process_block(x), 0, p + clen)
    <3> DEFINE w == s.pos + clen
               y == process_block(x)
    <3>1. w = p + clen
      BY <2>2, Zenon
    <3> HIDE DEF w, y
    <3>2. [Ctx(a, n, p) EXCEPT !.A = y] = Ctx(y, n, p)
      BY DEF Ctx
    <3>3. [Ctx(y, n, p) EXCEPT !.dptr = 0] = Ctx(y, 0, p)
      BY DEF Ctx
    <3>4. [Ctx(y, 0, p) EXCEPT !.pos = w] = Ctx(y, 0, w)
      BY DEF Ctx
    <3>5. [[[s EXCEPT !.A = y] EXCEPT !.dptr = 0] EXCEPT !.pos = w] = Ctx(y, 0, w)
      BY <3>2, <3>3, <3>4, Zenon
    <3> QED
      BY <3>1, <3>5, Zenon DEF w, y
  <2>6. [s EXCEPT !.A = x, !.dptr = @ + clen, !.pos = @ + clen] = Ctx(x, n + clen, p + clen)
    <3> DEFINE w == s.pos + clen
               z == s.dptr + clen
    <3>1. w = p + clen /\ z = n + clen
      BY <2>2, Zenon
    <3> HIDE DEF w, z
    <3>2. [Ctx(a, n, p) EXCEPT !.A = x] = Ctx(x, n, p)
      BY DEF Ctx
    <3>3. [Ctx(x, n, p) EXCEPT !.dptr = z] = Ctx(x, z, p)
      BY DEF Ctx
    <3>4. [Ctx(x, z, p) EXCEPT !.pos = w] = Ctx(x, z, w)
      BY DEF Ctx
    <3>5. [[[s EXCEPT !.A = x] EXCEPT !.dptr = z] EXCEPT !.pos = w] = Ctx(x, z, w)
      BY <3>2, <3>3, <3>4, Zenon
    <3> QED
      BY <3>1, <3>5, Zenon DEF w, z
  <2> HIDE DEF s
  <2>7. InjectStep(Ctx(a, n, p), in, len)
           = IF len = p THEN Ctx(a, n, p)
             ELSE IF n + clen = 136 THEN Ctx(process_block(x), 0, p + clen)
             ELSE Ctx(x, n + clen, p + clen)
    BY <2>3, <2>5, <2>6, Zenon DEF s
  <2>8. LegacyInjectStep(m4, LCtx(a, n, p), in, len)
           = IF len = p THEN LCtx(a, n, p)
             ELSE IF n + clen = 136 THEN LCtx(legacy_process_block(m4, x), 0, p + clen)
             ELSE LCtx(x, n + clen, p + clen)
    BY <2>4, Zenon DEF LCtx
  <2> QED
    BY <2>7, <2>8, Zenon
<1>3. CASE len = p
  <2>1. Injecting(a, n, p, L, len, k + 1)
    BY <1>3 DEF Injecting
  <2> QED
    BY <1>2, <1>3, <2>1, Zenon
<1>4. CASE len # p
  <2>1. /\ clen \in Nat /\ clen >= 1 /\ n + clen <= 136 /\ p + clen \in 0..len /\ p + clen <= len
        /\ 136 * q + n + clen <= MaxIn /\ (n + clen # 136 => p + clen = len)
    BY <1>0, <1>1, <1>4, ShakeAssumption DEF Least
  <2> HIDE DEF clen, q, x
  <2>2. ASSUME NEW u \in 0..(clen - 1) PROVE in[p + u] = Msg[136 * q + n + u]
    <3>1. p + u \in 0..(len - 1) /\ L + (p + u) = 136 * q + n + u
      BY <1>1, <2>1
    <3>2. in[p + u] = Msg[L + (p + u)]
      BY <1>0, <3>1
    <3> QED
      BY <3>1, <3>2, Zenon
  <2>3. Filled(x, q, n + clen)
    BY <1>1, <2>1, <2>2, FilledMore DEF x
  <2>4. CASE n + clen = 136
    <3>0. 136 * q + n + clen = 136 * q + (n + clen)
      BY <1>1, <2>1
    <3>1. 136 * q + 136 <= MaxIn /\ Filled(x, q, 136)
      BY <2>1, <2>3, <2>4, <3>0
    <3>9. x \in State
      BY <3>1, Zenon DEF Filled
    <3>2. KeccakF(x) = Abs(q + 1) /\ Filled(Abs(q + 1), q + 1, 0)
      BY <1>1, <3>1, FilledBlock
    <3>3. process_block(x) = KeccakF(x) /\ legacy_process_block(m4, x) = KeccakF(x)
      BY <3>9, ProcessBlockIsKeccak, LegacyProcessBlockIsKeccak
    <3>4. (L + (p + clen)) % 136 = 0 /\ (L + (p + clen)) \div 136 = q + 1
      <4>1. L + (p + clen) = 136 * (q + 1)
        BY <1>1, <2>1, <2>4
      <4> DEFINE z == q + 1
      <4>2. z \in Nat
        BY <1>1
      <4> HIDE DEF z
      <4>3. (136 * z) % 136 = 0 /\ (136 * z) \div 136 = z
        BY <4>2
      <4> QED
        BY <4>1, <4>3, Zenon DEF z
    <3>5. (p + clen) - 0 >= 136 * (k + 1) - (L % 136)
      BY <1>1, <1>4, <2>1, <2>4
    <3>6. Injecting(Abs(q + 1), 0, p + clen, L, len, k + 1)
      BY <2>1, <3>2, <3>4, <3>5, Zenon DEF Injecting
    <3>7. InjectStep(Ctx(a, n, p), in, len) = Ctx(Abs(q + 1), 0, p + clen)
      BY <1>2, <1>4, <2>4, <3>2, <3>3, Zenon
    <3>8. LegacyInjectStep(m4, LCtx(a, n, p), in, len) = LCtx(Abs(q + 1), 0, p + clen)
      BY <1>2, <1>4, <2>4, <3>2, <3>3, Zenon
    <3> QED
      BY <3>6, <3>7, <3>8, Zenon
  <2>5. CASE n + clen # 136
    <3>1. n + clen \in 0..135 /\ p + clen = len
      BY <1>1, <2>1, <2>5
    <3>2. (L + (p + clen)) % 136 = n + clen /\ (L + (p + clen)) \div 136 = q
      <4> DEFINE z == n + clen
      <4>1. L + (p + clen) = 136 * q + z
        BY <1>1, <2>1
      <4>2. z \in 0..135
        BY <3>1
      <4> HIDE DEF z
      <4>3. (136 * q + z) % 136 = z /\ (136 * q + z) \div 136 = q
        BY <1>1, <4>2
      <4> QED
        BY <4>1, <4>3, Zenon DEF z
    <3>3. Injecting(x, n + clen, p + clen, L, len, k + 1)
      BY <2>1, <2>3, <3>1, <3>2, Zenon DEF Injecting
    <3>4. InjectStep(Ctx(a, n, p), in, len) = Ctx(x, n + clen, p + clen)
      BY <1>2, <1>4, <2>5, Zenon
    <3>5. LegacyInjectStep(m4, LCtx(a, n, p), in, len) = LCtx(x, n + clen, p + clen)
      BY <1>2, <1>4, <2>5, Zenon
    <3> QED
      BY <3>3, <3>4, <3>5, Zenon
  <2> QED
    BY <2>4, <2>5
<1> QED
  BY <1>3, <1>4

\* The iterations of shake_inject().
LEMMA InjectLoop ==
  ASSUME NEW ctx, NEW in, NEW len \in Nat, HasRate(ctx)
  PROVE  LET e == After(<<"inject", in, len>>, Ctx(ctx.A, ctx.dptr, 0), (len \div 136) + 2)
         IN  shake_inject(ctx, in, len) = [A |-> e.A, dptr |-> e.dptr, rate |-> e.rate]
<1> DEFINE loop == <<"inject", in, len>>
           d == [A |-> ctx.A, dptr |-> ctx.dptr, rate |-> ctx.rate, pos |-> 0]
           m == len \div ctx.rate + 2
           step(x, k) == With(x, LAMBDA q : InjectStep(q, in, len))
           E(h) == h = [k \in 0..m |-> IF k = 0 THEN d ELSE step(h[k - 1], k)]
           f == CHOOSE h : E(h)
           out(e) == [A |-> e.A, dptr |-> e.dptr, rate |-> e.rate]
<1>1. ASSUME NEW x, NEW k PROVE LoopStep(loop, x, k) = step(x, k)
  BY DEF LoopStep, With
<1>2. shake_inject(ctx, in, len) = With(f[m], LAMBDA e : out(e))
  BY Zenon DEF shake_inject
<1>3. m \in Nat /\ m = (len \div 136) + 2
  BY DEF HasRate
<1>4. d = Ctx(ctx.A, ctx.dptr, 0)
  BY DEF Ctx, HasRate
<1> HIDE DEF loop, step, m, d
<1>5. \E h : E(h)
  <2>1. PICK h : Iterates(h, loop, d, m)
    BY <1>3, LoopExists
  <2>2. E(h)
    BY <1>1, <2>1, Zenon DEF Iterates
  <2> HIDE DEF E
  <2> QED
    BY <2>2, Zenon
<1>6. E(f)
  <2> HIDE DEF E
  <2> QED
    BY <1>5, Zenon
<1> HIDE DEF f
<1>7. Iterates(f, loop, d, m)
  BY <1>1, <1>6, Zenon DEF Iterates
<1>8. f[m] = After(loop, d, m)
  BY <1>3, <1>7, ChosenAfter
<1>9. With(f[m], LAMBDA e : out(e)) = out(f[m])
  <2> HIDE DEF out
  <2> QED
    BY DEF With
<1>10. shake_inject(ctx, in, len) = out(After(loop, d, m))
  BY <1>2, <1>8, <1>9, Zenon
<1>11. After(loop, d, m) = After(<<"inject", in, len>>, Ctx(ctx.A, ctx.dptr, 0), (len \div 136) + 2)
  BY <1>3, <1>4, Zenon DEF loop
<1> QED
  BY <1>10, <1>11, Zenon

\* Those of i_shake256_inject().
LEMMA LegacyInjectLoop ==
  ASSUME NEW m4, NEW ctx, NEW in, NEW len \in Nat
  PROVE  LET e == After(<<"legacy_inject", m4, in, len>>, LCtx(ctx.A, ctx.dptr, 0), (len \div 136) + 2)
         IN  i_shake256_inject(m4, ctx, in, len) = [A |-> e.A, dptr |-> e.dptr]
<1> DEFINE loop == <<"legacy_inject", m4, in, len>>
           d == [A |-> ctx.A, dptr |-> ctx.dptr, pos |-> 0]
           m == len \div 136 + 2
           step(x, k) == With(x, LAMBDA q : LegacyInjectStep(m4, q, in, len))
           E(h) == h = [k \in 0..m |-> IF k = 0 THEN d ELSE step(h[k - 1], k)]
           f == CHOOSE h : E(h)
           out(e) == [A |-> e.A, dptr |-> e.dptr]
<1>1. ASSUME NEW x, NEW k PROVE LoopStep(loop, x, k) = step(x, k)
  BY DEF LoopStep, With
<1>2. i_shake256_inject(m4, ctx, in, len) = With(f[m], LAMBDA e : out(e))
  BY Zenon DEF i_shake256_inject
<1>3. m \in Nat /\ m = (len \div 136) + 2
  OBVIOUS
<1>4. d = LCtx(ctx.A, ctx.dptr, 0)
  BY DEF LCtx
<1> HIDE DEF loop, step, m, d
<1>5. \E h : E(h)
  <2>1. PICK h : Iterates(h, loop, d, m)
    BY <1>3, LoopExists
  <2>2. E(h)
    BY <1>1, <2>1, Zenon DEF Iterates
  <2> HIDE DEF E
  <2> QED
    BY <2>2, Zenon
<1>6. E(f)
  <2> HIDE DEF E
  <2> QED
    BY <1>5, Zenon
<1> HIDE DEF f
<1>7. Iterates(f, loop, d, m)
  BY <1>1, <1>6, Zenon DEF Iterates
<1>8. f[m] = After(loop, d, m)
  BY <1>3, <1>7, ChosenAfter
<1>9. With(f[m], LAMBDA e : out(e)) = out(f[m])
  <2> HIDE DEF out
  <2> QED
    BY DEF With
<1>10. i_shake256_inject(m4, ctx, in, len) = out(After(loop, d, m))
  BY <1>2, <1>8, <1>9, Zenon
<1>11. After(loop, d, m) = After(<<"legacy_inject", m4, in, len>>, LCtx(ctx.A, ctx.dptr, 0), (len \div 136) + 2)
  BY <1>3, <1>4, Zenon DEF loop
<1> QED
  BY <1>10, <1>11, Zenon

\* An injection of len bytes, at any place of a block, fills the blocks with them.
LEMMA Injected ==
  ASSUME NEW L \in Nat, NEW len \in Nat, NEW A, Filled(A, L \div 136, L % 136),
         NEW m4 \in BOOLEAN, NEW in, Feeds(in, L, len),
         NEW ctx, ctx.A = A, ctx.dptr = L % 136, HasRate(ctx), NEW lctx, lctx.A = A, lctx.dptr = L % 136
  PROVE  \E B : /\ Filled(B, (L + len) \div 136, (L + len) % 136)
                /\ shake_inject(ctx, in, len) = [A |-> B, dptr |-> (L + len) % 136, rate |-> 136]
                /\ i_shake256_inject(m4, lctx, in, len) = [A |-> B, dptr |-> (L + len) % 136]
<1> DEFINE n0 == L % 136
           new(k) == After(<<"inject", in, len>>, Ctx(A, n0, 0), k)
           old(k) == After(<<"legacy_inject", m4, in, len>>, LCtx(A, n0, 0), k)
           Reached(k, a, n, p) == new(k) = Ctx(a, n, p) /\ old(k) = LCtx(a, n, p) /\ Injecting(a, n, p, L, len, k)
           S == {k \in Nat : \E a, n, p : Reached(k, a, n, p)}
<1>1. 0 \in S
  <2>1. Injecting(A, n0, 0, L, len, 0)
    BY DEF Injecting
  <2>2. new(0) = Ctx(A, n0, 0) /\ old(0) = LCtx(A, n0, 0)
    BY AfterIs, Zenon
  <2> HIDE DEF n0, new, old
  <2>3. Reached(0, A, n0, 0)
    BY <2>1, <2>2
  <2> HIDE DEF Reached
  <2> QED
    BY <2>3
<1>2. ASSUME NEW k \in Nat, k \in S PROVE k + 1 \in S
  <2>1. PICK a, n, p : Reached(k, a, n, p)
    BY <1>2
  <2>2. PICK b, o, r : /\ InjectStep(Ctx(a, n, p), in, len) = Ctx(b, o, r)
                       /\ LegacyInjectStep(m4, LCtx(a, n, p), in, len) = LCtx(b, o, r)
                       /\ Injecting(b, o, r, L, len, k + 1)
    <3>1. Injecting(a, n, p, L, len, k)
      BY <2>1
    <3> QED
      BY <3>1, InjectNext
  <2>3. new(k + 1) = LoopStep(<<"inject", in, len>>, new(k), k + 1)
    BY AfterIs, ZenonT(60)
  <2>4. old(k + 1) = LoopStep(<<"legacy_inject", m4, in, len>>, old(k), k + 1)
    BY AfterIs, ZenonT(60)
  <2>5. ASSUME NEW x, NEW y PROVE LoopStep(<<"inject", in, len>>, x, y) = InjectStep(x, in, len)
    BY DEF LoopStep
  <2>6. ASSUME NEW x, NEW y PROVE LoopStep(<<"legacy_inject", m4, in, len>>, x, y) = LegacyInjectStep(m4, x, in, len)
    BY DEF LoopStep
  <2>7. new(k) = Ctx(a, n, p) /\ old(k) = LCtx(a, n, p)
    BY <2>1
  <2>8. Reached(k + 1, b, o, r)
    <3> HIDE DEF new, old
    <3> QED
      BY <2>2, <2>3, <2>4, <2>5, <2>6, <2>7, Zenon
  <2> HIDE DEF Reached
  <2> QED
    BY <2>8
<1> DEFINE m == (len \div 136) + 2
<1>3. m \in Nat /\ 136 * m >= len + 137
  OBVIOUS
<1>4. m \in S
  <2> HIDE DEF S, m
  <2> QED
    BY <1>1, <1>2, <1>3, NatSetInduction
<1>5. PICK a, n, p : Reached(m, a, n, p)
  BY <1>4
<1>6. p = len /\ n = (L + len) % 136 /\ Filled(a, (L + len) \div 136, n)
  <2>1. Injecting(a, n, p, L, len, m)
    BY <1>5
  <2> HIDE DEF m
  <2>2. p \in 0..len /\ n = (L + p) % 136 /\ Filled(a, (L + p) \div 136, n) /\ (p = len \/ p - n >= 136 * m - (L % 136))
    BY <2>1 DEF Injecting
  <2>3. p = len
    BY <1>3, <2>2
  <2> QED
    BY <2>2, <2>3, Zenon
<1>7. new(m) = Ctx(a, n, len) /\ old(m) = LCtx(a, n, len)
  BY <1>5, <1>6, Zenon
<1>8. shake_inject(ctx, in, len) = [A |-> new(m).A, dptr |-> new(m).dptr, rate |-> new(m).rate]
  <2>1. Ctx(ctx.A, ctx.dptr, 0) = Ctx(A, n0, 0)
    OBVIOUS
  <2> DEFINE e == After(<<"inject", in, len>>, Ctx(ctx.A, ctx.dptr, 0), m)
  <2>2. e = new(m)
    BY <2>1, Zenon
  <2>3. shake_inject(ctx, in, len) = [A |-> e.A, dptr |-> e.dptr, rate |-> e.rate]
    BY InjectLoop, ZenonT(60)
  <2> QED
    BY <2>2, <2>3, Zenon
<1>9. i_shake256_inject(m4, lctx, in, len) = [A |-> old(m).A, dptr |-> old(m).dptr]
  <2>1. LCtx(lctx.A, lctx.dptr, 0) = LCtx(A, n0, 0)
    OBVIOUS
  <2> DEFINE e == After(<<"legacy_inject", m4, in, len>>, LCtx(lctx.A, lctx.dptr, 0), m)
  <2>2. e = old(m)
    BY <2>1, Zenon
  <2>3. i_shake256_inject(m4, lctx, in, len) = [A |-> e.A, dptr |-> e.dptr]
    BY LegacyInjectLoop
  <2> QED
    BY <2>2, <2>3, Zenon
<1> HIDE DEF new, old, m
<1>10. new(m).A = a /\ new(m).dptr = n /\ new(m).rate = 136 /\ old(m).A = a /\ old(m).dptr = n
  BY <1>7 DEF Ctx, LCtx
<1>11. /\ shake_inject(ctx, in, len) = [A |-> a, dptr |-> n, rate |-> 136]
       /\ i_shake256_inject(m4, lctx, in, len) = [A |-> a, dptr |-> n]
  BY <1>8, <1>9, <1>10, Zenon
<1> QED
  BY <1>6, <1>11, Zenon

-----------------------------------------------------------------------------
(* The last block: the padding, in both implementations.                     *)

Suffixes == {{0, 1, 2, 3, 4}, {1, 2}}
\* Block j of the padded message.
PaddedBlock(L, suffix, j) == [v \in 0..135 |-> PaddedByte(Msg, L, suffix, 136, 136 * j + v)]
\* The state that the last permutation of the absorption takes.
Final(L, suffix) == Absorb(Abs(L \div 136), PaddedBlock(L, suffix, L \div 136))

\* What the last block holds at its byte v.
LastByte(L, suffix, v) ==
    (IF v < L % 136 THEN Msg[136 * (L \div 136) + v] ELSE IF v = L % 136 THEN suffix ELSE {})
    \cup (IF v = 135 THEN {7} ELSE {})

LEMMA LastBlock ==
  ASSUME NEW L \in Nat, L <= MaxIn, NEW suffix \in Suffixes, NEW v \in 0..135
  PROVE  /\ PaddedBlock(L, suffix, L \div 136)[v] = LastByte(L, suffix, v)
         /\ LastByte(L, suffix, v) \in Byte
<1> DEFINE q == L \div 136
           n == L % 136
           p == 136 * q + v
<1>1. q \in Nat /\ n \in 0..135 /\ L = 136 * q + n
  OBVIOUS
<1>2. PaddedBlock(L, suffix, q)[v] = PaddedByte(Msg, L, suffix, 136, p)
  BY DEF PaddedBlock
<1>3. PaddedByte(Msg, L, suffix, 136, p) = (IF p < L THEN Msg[p] ELSE IF p = L THEN suffix ELSE {})
                                           \cup (IF p = 136 * (q + 1) - 1 THEN {7} ELSE {})
  BY Zenon DEF PaddedByte
<1>4. LastByte(L, suffix, v) = (IF v < n THEN Msg[p] ELSE IF v = n THEN suffix ELSE {})
                               \cup (IF v = 135 THEN {7} ELSE {})
  BY Zenon DEF LastByte
<1>5. p < L => p \in 0..(MaxIn - 1)
  BY ShakeAssumption
<1>6. (p < L <=> v < n) /\ (p = L <=> v = n) /\ (p = 136 * (q + 1) - 1 <=> v = 135)
  <2> HIDE DEF q, n
  <2> QED
    BY <1>1
<1> HIDE DEF p, q, n
<1>7. PaddedBlock(L, suffix, q)[v] = LastByte(L, suffix, v)
  BY <1>2, <1>3, <1>4, <1>6, Zenon
<1>8. LastByte(L, suffix, v) \in Byte
  <2>1. p < L => Msg[p] \in Byte
    BY <1>5, ShakeAssumption
  <2>2. suffix \in Byte /\ {} \in Byte /\ {7} \in Byte
    BY DEF Suffixes, Byte
  <2>3. (IF v < n THEN Msg[p] ELSE IF v = n THEN suffix ELSE {}) \in Byte
    BY <1>6, <2>1, <2>2, Zenon
  <2>4. (IF v = 135 THEN {7} ELSE {}) \in Byte
    BY <2>2
  <2> QED
    BY <1>4, <2>3, <2>4 DEF Byte
<1> QED
  BY <1>7, <1>8 DEF q

LEMMA FinalIs ==
  ASSUME NEW L \in Nat, L <= MaxIn, NEW suffix \in Suffixes
  PROVE  /\ Final(L, suffix) \in State
         /\ \A v \in Places : StateByte(Final(L, suffix), v)
              = IF v < 136 THEN XorL(StateByte(Abs(L \div 136), v), LastByte(L, suffix, v))
                ELSE StateByte(Abs(L \div 136), v)
<1> DEFINE q == L \div 136
           block == PaddedBlock(L, suffix, q)
           B == Abs(q)
<1>1. ASSUME NEW v \in 0..135 PROVE block[v] = LastByte(L, suffix, v) /\ block[v] \in Byte
  BY LastBlock
<1>2. Final(L, suffix) = Absorb(B, block)
  BY Zenon DEF Final
<1> HIDE DEF block, B
<1>3. Absorb(B, block) \in State /\ \A v \in Places : StateByte(Absorb(B, block), v) = MixedByte(B, block, v)
  BY <1>1, AbsorbIs
<1>4. ASSUME NEW v \in Places
      PROVE  StateByte(Final(L, suffix), v) = IF v < 136 THEN XorL(StateByte(B, v), LastByte(L, suffix, v)) ELSE StateByte(B, v)
  <2>1. StateByte(Final(L, suffix), v) = MixedByte(B, block, v)
    BY <1>2, <1>3
  <2>2. v < 136 => block[v] = LastByte(L, suffix, v)
    BY <1>1 DEF Places
  <2> QED
    BY <2>1, <2>2, Zenon DEF MixedByte
<1> QED
  BY <1>2, <1>3, <1>4 DEF B

\* One byte mixed in.
LEMMA XorByteIs ==
  ASSUME NEW A \in State, NEW n \in 0..135, NEW y \in Byte
  PROVE  /\ XorByte(A, n, y) \in State
         /\ \A v \in Places : StateByte(XorByte(A, n, y), v)
                                = IF v = n THEN XorL(StateByte(A, v), y) ELSE StateByte(A, v)
<1> DEFINE in == [u \in {0} |-> y]
           X == XorBytes(A, n, in, 0, 1)
<1>1. ASSUME NEW u \in 0..(1 - 1) PROVE in[0 + u] \in Byte
  <2>1. 0 + u = 0
    OBVIOUS
  <2>2. in[0] = y
    OBVIOUS
  <2> QED
    BY <2>1, <2>2
<1>2. in[0] = y
  OBVIOUS
<1> HIDE DEF in
<1>3. X \in State /\ \A v \in Places : StateByte(X, v) = MixedIn(A, n, in, 0, 1, v)
  <2>1. n \in Nat /\ 0 \in Nat /\ 1 \in Nat /\ n + 1 <= 200
    OBVIOUS
  <2> QED
    BY <1>1, <2>1, XorBytesIs
<1>4. ASSUME NEW v \in Places
      PROVE  MixedIn(A, n, in, 0, 1, v) = IF v = n THEN XorL(StateByte(A, v), y) ELSE StateByte(A, v)
  <2>1. (n <= v /\ v < n + 1) <=> v = n
    BY DEF Places
  <2>2. v = n => 0 + v - n = 0
    OBVIOUS
  <2> QED
    BY <1>2, <2>1, <2>2, Zenon DEF MixedIn
<1> HIDE DEF X
<1>5. XorByte(A, n, y) = X
  BY DEF XorByte, X, in
<1> QED
  BY <1>3, <1>4, <1>5

\* shake_flip() and sha3_close() make the last block of what is absorbed.
LEMMA PadIs ==
  ASSUME NEW L \in Nat, L <= MaxIn, NEW suffix \in Suffixes, NEW X, Filled(X, L \div 136, L % 136)
  PROVE  Pad(X, L % 136, 136, suffix) = Final(L, suffix)
<1> DEFINE q == L \div 136
           n == L % 136
           Y == XorByte(X, n, suffix)
           Z == XorByte(Y, 135, {7})
           F == Final(L, suffix)
<1>1. n \in 0..135 /\ 135 \in 0..135
  OBVIOUS
<1>2. suffix \in Byte /\ {7} \in Byte /\ 7 \notin suffix
  BY DEF Suffixes, Byte
<1>3. X \in State /\ \A v \in Places : StateByte(X, v) = IF v < n THEN XorL(StateByte(Abs(q), v), Msg[136 * q + v])
                                                         ELSE StateByte(Abs(q), v)
  BY DEF Filled
<1>4. Pad(X, n, 136, suffix) = Z
  <2>1. 136 - 1 = 135
    OBVIOUS
  <2> QED
    BY <2>1, Zenon DEF Pad
<1>5. F \in State /\ \A v \in Places : StateByte(F, v) = IF v < 136 THEN XorL(StateByte(Abs(q), v), LastByte(L, suffix, v))
                                                         ELSE StateByte(Abs(q), v)
  BY FinalIs
<1>6. ASSUME NEW v
      PROVE  LastByte(L, suffix, v) = (IF v < n THEN Msg[136 * q + v] ELSE IF v = n THEN suffix ELSE {})
                                      \cup (IF v = 135 THEN {7} ELSE {})
  BY Zenon DEF LastByte
<1> HIDE DEF q, n, F
<1>7. Y \in State /\ \A v \in Places : StateByte(Y, v) = IF v = n THEN XorL(StateByte(X, v), suffix) ELSE StateByte(X, v)
  BY <1>1, <1>2, <1>3, XorByteIs
<1> HIDE DEF Y
<1>8. Z \in State /\ \A v \in Places : StateByte(Z, v) = IF v = 135 THEN XorL(StateByte(Y, v), {7}) ELSE StateByte(Y, v)
  BY <1>1, <1>2, <1>7, XorByteIs
<1> HIDE DEF Z
<1>9. ASSUME NEW v \in Places PROVE StateByte(Z, v) = StateByte(F, v)
  <2> DEFINE b == StateByte(Abs(q), v)
             x == StateByte(X, v)
             y == StateByte(Y, v)
             z == StateByte(Z, v)
             f == StateByte(F, v)
             w == Msg[136 * q + v]
             t == LastByte(L, suffix, v)
  <2>1. /\ x = IF v < n THEN XorL(b, w) ELSE b
        /\ y = IF v = n THEN XorL(x, suffix) ELSE x
        /\ z = IF v = 135 THEN XorL(y, {7}) ELSE y
        /\ f = IF v < 136 THEN XorL(b, t) ELSE b
        /\ t = (IF v < n THEN w ELSE IF v = n THEN suffix ELSE {}) \cup (IF v = 135 THEN {7} ELSE {})
    BY <1>3, <1>5, <1>6, <1>7, <1>8
  <2> SUFFICES z = f
    OBVIOUS
  <2> HIDE DEF b, x, y, z, f, w, t
  <2>2. CASE v < n
    <3>1. v # n /\ v # 135 /\ v < 136
      BY <1>1, <2>2 DEF Places
    <3>2. w \cup {} = w
      OBVIOUS
    <3>3. t = w \cup {}
      BY <2>1, <2>2, <3>1, Zenon
    <3> QED
      BY <2>1, <2>2, <3>1, <3>2, <3>3, Zenon
  <2>3. CASE v = n /\ v # 135
    <3>1. ~(v < n) /\ v < 136
      BY <1>1, <2>3 DEF Places
    <3>2. t = suffix \cup {}
      BY <2>1, <2>3, <3>1, Zenon
    <3>3. suffix \cup {} = suffix
      OBVIOUS
    <3> QED
      BY <2>1, <2>3, <3>1, <3>2, <3>3, Zenon
  <2>4. CASE v = n /\ v = 135
    <3>1. ~(v < n) /\ v < 136
      BY <1>1, <2>4 DEF Places
    <3>2. t = suffix \cup {7}
      BY <2>1, <2>4, <3>1, Zenon
    <3>3. z = XorL(XorL(b, suffix), {7}) /\ f = XorL(b, suffix \cup {7})
      BY <2>1, <2>4, <3>1, <3>2, Zenon
    <3>4. XorL(XorL(b, suffix), {7}) = XorL(b, suffix \cup {7})
      BY <1>2 DEF XorL
    <3> QED
      BY <3>3, <3>4, Zenon
  <2>5. CASE ~(v < n) /\ v # n /\ v = 135
    <3>1. v < 136
      BY <2>5
    <3>2. t = {} \cup {7}
      BY <2>1, <2>5, Zenon
    <3>3. {} \cup {7} = {7}
      OBVIOUS
    <3> QED
      BY <2>1, <2>5, <3>1, <3>2, <3>3, Zenon
  <2>6. CASE ~(v < n) /\ v # n /\ v # 135
    <3>1. t = {} \cup {}
      BY <2>1, <2>6, Zenon
    <3>2. XorL(b, {} \cup {}) = b
      BY DEF XorL
    <3>3. z = b
      BY <2>1, <2>6, Zenon
    <3> QED
      BY <2>1, <3>1, <3>2, <3>3, Zenon
  <2> QED
    BY <2>2, <2>3, <2>4, <2>5, <2>6, Zenon
<1>10. Z = F
  BY <1>5, <1>8, <1>9, StatesEqual
<1> QED
  BY <1>4, <1>10, Zenon DEF n, F

-----------------------------------------------------------------------------
(* The standard's sponge.                                                    *)

\* Block j of the padded message, mixed into the first 17 lanes, bit by bit.
Absorbed(x, in, len, suffix, rate, k) ==
    [i \in Lanes |-> {b \in Bits : (b \in x[i]) #
        (8 * i < rate /\ (b % 8) \in PaddedByte(in, len, suffix, rate, rate * (k - 1) + 8 * i + (b \div 8)))}]

LEMMA AbsorbedIs ==
  ASSUME NEW x, NEW L \in Nat, NEW suffix, NEW k \in Nat, NEW j, j = k - 1
  PROVE  Absorbed(x, Msg, L, suffix, 136, k) = Absorb(x, PaddedBlock(L, suffix, j))
<1> DEFINE block == PaddedBlock(L, suffix, j)
           padded(i, b) == PaddedByte(Msg, L, suffix, 136, 136 * (k - 1) + 8 * i + (b \div 8))
           X == Absorbed(x, Msg, L, suffix, 136, k)
           Y == Absorb(x, block)
<1>1. ASSUME NEW i \in Lanes, NEW b \in Bits PROVE b \in X[i] <=> b \in Y[i]
  <2> DEFINE v == 8 * i + (b \div 8)
             c == b % 8
  <2>1. b \in X[i] <=> ((b \in x[i]) # (8 * i < 136 /\ c \in padded(i, b)))
    BY DEF Absorbed
  <2>2. b \in Y[i] <=> c \in MixedByte(x, block, v)
    BY DEF Absorb
  <2>3. b \in x[i] <=> c \in StateByte(x, v)
    BY LaneBit, Zenon
  <2>4. v \in Nat /\ (8 * i < 136 <=> v < 136)
    BY DEF Lanes, Bits
  <2>5. v < 136 => block[v] = padded(i, b)
    <3> SUFFICES ASSUME v < 136 PROVE block[v] = padded(i, b)
      OBVIOUS
    <3>1. v \in 0..135
      BY <2>4
    <3>2. 136 * j + v = 136 * (k - 1) + 8 * i + (b \div 8)
      BY DEF Lanes, Bits
    <3> HIDE DEF v
    <3>3. block[v] = PaddedByte(Msg, L, suffix, 136, 136 * j + v)
      BY <3>1 DEF PaddedBlock
    <3> QED
      BY <3>2, <3>3, Zenon
  <2> HIDE DEF X, Y, v, c, block, padded
  <2>6. CASE v < 136
    <3>1. MixedByte(x, block, v) = XorL(StateByte(x, v), padded(i, b))
      BY <2>5, <2>6, Zenon DEF MixedByte
    <3>2. c \in XorL(StateByte(x, v), padded(i, b))
            <=> (c \in StateByte(x, v) /\ c \notin padded(i, b)) \/ (c \notin StateByte(x, v) /\ c \in padded(i, b))
      BY DEF XorL
    <3> QED
      BY <2>1, <2>2, <2>3, <2>4, <2>6, <3>1, <3>2
  <2>7. CASE ~(v < 136)
    <3>1. MixedByte(x, block, v) = StateByte(x, v)
      BY <2>7, Zenon DEF MixedByte
    <3> QED
      BY <2>1, <2>2, <2>3, <2>4, <2>7, <3>1
  <2> QED
    BY <2>6, <2>7
<1>2. ASSUME NEW i \in Lanes PROVE X[i] = Y[i]
  <2>1. X[i] \subseteq Bits /\ Y[i] \subseteq Bits
    BY DEF Absorbed, Absorb
  <2> HIDE DEF X, Y
  <2> QED
    BY <1>1, <2>1
<1>3. X = [i \in Lanes |-> X[i]] /\ Y = [i \in Lanes |-> Y[i]]
  BY DEF Absorbed, Absorb
<1> HIDE DEF X, Y
<1>4. X = Y
  BY <1>2, <1>3, Zenon
<1> QED
  BY <1>4 DEF X, Y

\* The standard's loop over the blocks of the message.
LEMMA SpongeLoop ==
  ASSUME NEW in, NEW len \in Nat, NEW suffix
  PROVE  SpongeBlocks(in, len, suffix, 136)
           = After(<<"absorb", in, len, suffix, 136>>, Zero, (len \div 136) + 1)
<1> DEFINE loop == <<"absorb", in, len, suffix, 136>>
           d == [i \in Lanes |-> {}]
           m == len \div 136 + 1
           step(x, k) == With(x, LAMBDA A : KeccakF([i \in Lanes |->
                     {b \in Bits : (b \in A[i]) #
                         (8 * i < 136 /\ (b % 8) \in PaddedByte(in, len, suffix, 136,
                                                       136 * (k - 1) + 8 * i + (b \div 8)))}]))
           E(h) == h = [k \in 0..m |-> IF k = 0 THEN d ELSE step(h[k - 1], k)]
           f == CHOOSE h : E(h)
<1>1. ASSUME NEW x, NEW k PROVE LoopStep(loop, x, k) = step(x, k)
  <2>1. LoopStep(loop, x, k) = KeccakF(Absorbed(x, in, len, suffix, 136, k))
    <3>1. loop[1] = "absorb" /\ loop[2] = in /\ loop[3] = len /\ loop[4] = suffix /\ loop[5] = 136
      OBVIOUS
    <3> HIDE DEF loop
    <3>2. LoopStep(loop, x, k) = KeccakF(Absorbed(x, loop[2], loop[3], loop[4], loop[5], k))
      BY <3>1 DEF LoopStep, Absorbed
    <3> QED
      BY <3>1, <3>2, Zenon
  <2>2. step(x, k) = KeccakF(Absorbed(x, in, len, suffix, 136, k))
    BY DEF With, Absorbed
  <2> QED
    BY <2>1, <2>2, Zenon
<1>2. SpongeBlocks(in, len, suffix, 136) = f[m]
  BY Zenon DEF SpongeBlocks
<1>3. m \in Nat /\ m = (len \div 136) + 1
  OBVIOUS
<1>4. d = Zero
  BY DEF Zero
<1> HIDE DEF loop, step, m, d
<1>5. \E h : E(h)
  <2>1. PICK h : Iterates(h, loop, d, m)
    BY <1>3, LoopExists
  <2>2. E(h)
    BY <1>1, <2>1, Zenon DEF Iterates
  <2> HIDE DEF E
  <2> QED
    BY <2>2, Zenon
<1>6. E(f)
  <2> HIDE DEF E
  <2> QED
    BY <1>5, Zenon
<1> HIDE DEF f
<1>7. Iterates(f, loop, d, m)
  BY <1>1, <1>6, Zenon DEF Iterates
<1>8. f[m] = After(loop, d, m)
  BY <1>3, <1>7, ChosenAfter
<1> QED
  BY <1>2, <1>3, <1>4, <1>8, Zenon DEF loop

\* Before the last block the padded message is the message.
LEMMA FullBlock ==
  ASSUME NEW L \in Nat, L <= MaxIn, NEW suffix, NEW j \in Nat, j < L \div 136
  PROVE  PaddedBlock(L, suffix, j) = MsgBlock(j)
<1>1. ASSUME NEW v \in 0..135 PROVE PaddedByte(Msg, L, suffix, 136, 136 * j + v) = Msg[136 * j + v]
  <2> DEFINE p == 136 * j + v
             q == L \div 136
  <2>1. q \in Nat /\ j < q /\ 136 * q <= L
    OBVIOUS
  <2> HIDE DEF q
  <2>2. p < L /\ p # 136 * (q + 1) - 1
    BY <2>1
  <2>3. p \in 0..(MaxIn - 1)
    BY <2>2, ShakeAssumption
  <2> HIDE DEF p
  <2>4. PaddedByte(Msg, L, suffix, 136, p) = Msg[p] \cup {}
    BY <2>2, Zenon DEF PaddedByte, q
  <2>5. Msg[p] \cup {} = Msg[p]
    OBVIOUS
  <2> QED
    BY <2>4, <2>5, Zenon DEF p
<1> QED
  BY <1>1, Zenon DEF PaddedBlock, MsgBlock

\* The standard absorbs the same blocks, and the same last one.
LEMMA SpongeBlocksAre ==
  ASSUME NEW L \in Nat, L <= MaxIn, NEW suffix \in Suffixes
  PROVE  SpongeBlocks(Msg, L, suffix, 136) = KeccakF(Final(L, suffix))
<1> DEFINE loop == <<"absorb", Msg, L, suffix, 136>>
           q == L \div 136
           S == {k \in Nat : k <= q => After(loop, Zero, k) = Abs(k)}
<1>1. ASSUME NEW k \in Nat
      PROVE  After(loop, Zero, k + 1) = KeccakF(Absorb(After(loop, Zero, k), PaddedBlock(L, suffix, k)))
  <2> DEFINE x == After(loop, Zero, k)
             r == k + 1
  <2>1. After(loop, Zero, r) = LoopStep(loop, x, r)
    <3> HIDE DEF loop
    <3> QED
      BY AfterIs, Zenon
  <2>2. loop[1] = "absorb" /\ loop[2] = Msg /\ loop[3] = L /\ loop[4] = suffix /\ loop[5] = 136
    OBVIOUS
  <2>3. r \in Nat /\ k = r - 1
    OBVIOUS
  <2> HIDE DEF loop, x, r
  <2>4. LoopStep(loop, x, r) = KeccakF(Absorbed(x, loop[2], loop[3], loop[4], loop[5], r))
    BY <2>2 DEF LoopStep, Absorbed
  <2>5. Absorbed(x, Msg, L, suffix, 136, r) = Absorb(x, PaddedBlock(L, suffix, k))
    BY <2>3, AbsorbedIs
  <2> QED
    BY <2>1, <2>2, <2>4, <2>5, Zenon DEF x, r
<1> HIDE DEF loop
<1>2. 0 \in S
  BY AfterIs, AbsIs
<1>3. ASSUME NEW k \in Nat, k \in S PROVE k + 1 \in S
  <2> SUFFICES ASSUME k + 1 <= q PROVE After(loop, Zero, k + 1) = Abs(k + 1)
    OBVIOUS
  <2>1. k < q /\ k <= q
    OBVIOUS
  <2>2. After(loop, Zero, k) = Abs(k)
    BY <1>3, <2>1
  <2>3. PaddedBlock(L, suffix, k) = MsgBlock(k)
    BY <2>1, FullBlock
  <2>4. Abs(k + 1) = KeccakF(Absorb(Abs(k), MsgBlock(k)))
    BY AbsIs, Zenon
  <2> QED
    BY <1>1, <2>2, <2>3, <2>4, Zenon
<1> HIDE DEF S
<1>4. q \in Nat /\ q <= q
  OBVIOUS
<1>5. q \in S
  BY <1>2, <1>3, <1>4, NatSetInduction
<1>6. After(loop, Zero, q) = Abs(q)
  BY <1>4, <1>5 DEF S
<1>7. After(loop, Zero, q + 1) = KeccakF(Absorb(Abs(q), PaddedBlock(L, suffix, q)))
  BY <1>1, <1>4, <1>6, Zenon
<1>8. SpongeBlocks(Msg, L, suffix, 136) = After(loop, Zero, q + 1)
  BY SpongeLoop, Zenon DEF loop
<1> QED
  BY <1>7, <1>8, Zenon DEF Final

\* The state that output block k, from 1, is read from.
Out(F, k) == After(<<"squeeze">>, F, k)

LEMMA OutIs ==
  ASSUME NEW F
  PROVE  Out(F, 0) = F /\ \A k \in Nat : Out(F, k + 1) = KeccakF(Out(F, k))
<1>1. Out(F, 0) = F
  BY AfterIs DEF Out
<1>2. ASSUME NEW k \in Nat PROVE Out(F, k + 1) = KeccakF(Out(F, k))
  <2>1. Out(F, k + 1) = LoopStep(<<"squeeze">>, Out(F, k), k + 1)
    BY AfterIs, Zenon DEF Out
  <2>2. LoopStep(<<"squeeze">>, Out(F, k), k + 1) = KeccakF(Out(F, k))
    BY DEF LoopStep
  <2> QED
    BY <2>1, <2>2, Zenon
<1> QED
  BY <1>1, <1>2

LEMMA OutState ==
  ASSUME NEW F \in State, NEW k \in Nat
  PROVE  Out(F, k) \in State
<1> DEFINE S == {n \in Nat : Out(F, n) \in State}
<1>1. 0 \in S
  BY OutIs
<1>2. ASSUME NEW n \in Nat, n \in S PROVE n + 1 \in S
  <2>1. Out(F, n + 1) = KeccakF(Out(F, n))
    BY OutIs, Zenon
  <2>2. KeccakF(Out(F, n)) \in State
    BY <1>2, ProcessBlockIsKeccak
  <2>3. Out(F, n + 1) \in State
    BY <2>1, <2>2, Zenon
  <2> QED
    BY <2>3
<1>3. Nat \subseteq S
  <2> HIDE DEF S
  <2> QED
    BY <1>1, <1>2, NatSetInduction
<1> QED
  BY <1>3

LEMMA OutShift ==
  ASSUME NEW F, NEW k \in Nat
  PROVE  Out(KeccakF(F), k) = Out(F, k + 1)
<1> DEFINE G == KeccakF(F)
           S == {n \in Nat : Out(G, n) = Out(F, n + 1)}
<1>1. 0 \in S
  <2>1. 0 \in Nat /\ 0 + 1 = 1
    OBVIOUS
  <2>2. Out(F, 0 + 1) = KeccakF(Out(F, 0))
    BY <2>1, OutIs, Zenon
  <2>3. Out(F, 0) = F /\ Out(G, 0) = G
    BY OutIs, Zenon
  <2>4. Out(G, 0) = Out(F, 0 + 1)
    BY <2>2, <2>3, Zenon
  <2> QED
    BY <2>4
<1>2. ASSUME NEW n \in Nat, n \in S PROVE n + 1 \in S
  <2> DEFINE r == n + 1
  <2>1. r \in Nat
    OBVIOUS
  <2>2. Out(G, n) = Out(F, r)
    BY <1>2
  <2>3. Out(G, r) = KeccakF(Out(G, n))
    BY OutIs, Zenon
  <2> HIDE DEF r
  <2>4. Out(F, r + 1) = KeccakF(Out(F, r))
    BY <2>1, OutIs, Zenon
  <2>5. Out(G, r) = Out(F, r + 1)
    BY <2>2, <2>3, <2>4, Zenon
  <2> HIDE DEF G
  <2>6. r \in S
    BY <2>1, <2>5
  <2> QED
    BY <2>6 DEF r
<1>3. k \in S
  <2> HIDE DEF S
  <2> QED
    BY <1>1, <1>2, NatSetInduction
<1> QED
  BY <1>3

LEMMA SqueezedIs ==
  ASSUME NEW A, NEW blocks \in Nat
  PROVE  Squeezed(A, blocks) = Out(A, blocks)
<1> DEFINE loop == <<"squeeze">>
           d == A
           m == blocks
           step(x, k) == With(x, KeccakF)
           E(h) == h = [k \in 0..m |-> IF k = 0 THEN d ELSE step(h[k - 1], k)]
           f == CHOOSE h : E(h)
<1>1. ASSUME NEW x, NEW k PROVE LoopStep(loop, x, k) = step(x, k)
  BY DEF LoopStep, With
<1>2. Squeezed(A, blocks) = f[m]
  BY Zenon DEF Squeezed
<1>3. m \in Nat
  OBVIOUS
<1> HIDE DEF loop, step, m, d
<1>5. \E h : E(h)
  <2>1. PICK h : Iterates(h, loop, d, m)
    BY <1>3, LoopExists
  <2>2. E(h)
    BY <1>1, <2>1, Zenon DEF Iterates
  <2> HIDE DEF E
  <2> QED
    BY <2>2, Zenon
<1>6. E(f)
  <2> HIDE DEF E
  <2> QED
    BY <1>5, Zenon
<1> HIDE DEF f
<1>7. Iterates(f, loop, d, m)
  BY <1>1, <1>6, Zenon DEF Iterates
<1>8. f[m] = After(loop, d, m)
  BY <1>3, <1>7, ChosenAfter
<1> QED
  BY <1>2, <1>8, Zenon DEF loop, d, m, Out

\* Output byte p.
OutByte(F, p) == StateByte(Out(F, (p \div 136) + 1), p % 136)

\* The standard's output, bytes from on.
LEMMA SpongeIs ==
  ASSUME NEW L \in Nat, L <= MaxIn, NEW suffix \in Suffixes, NEW from \in Nat, NEW n \in Nat
  PROVE  Sponge(Msg, L, suffix, 136, from, n) = [u \in 1..n |-> OutByte(Final(L, suffix), from + u - 1)]
<1> DEFINE F == Final(L, suffix)
           G == KeccakF(F)
           S == [k \in (from \div 136)..((from + n) \div 136) |-> Squeezed(G, k)]
           bytes(T) == [u \in 1..n |-> LET p == from + u - 1 IN StateByte(T[p \div 136], p % 136)]
<1>1. SpongeBlocks(Msg, L, suffix, 136) = G
  BY SpongeBlocksAre
<1>2. Sponge(Msg, L, suffix, 136, from, n) = bytes(S)
  <2>1. Sponge(Msg, L, suffix, 136, from, n)
          = With(SpongeBlocks(Msg, L, suffix, 136), LAMBDA A :
                With([k \in (from \div 136)..((from + n) \div 136) |-> Squeezed(A, k)], LAMBDA T : bytes(T)))
    BY Zenon DEF Sponge
  <2> HIDE DEF F, G, bytes
  <2>2. With(G, LAMBDA A : With([k \in (from \div 136)..((from + n) \div 136) |-> Squeezed(A, k)], LAMBDA T : bytes(T)))
          = With([k \in (from \div 136)..((from + n) \div 136) |-> Squeezed(G, k)], LAMBDA T : bytes(T))
    BY DEF With
  <2>3. With(S, LAMBDA T : bytes(T)) = bytes(S)
    <3> HIDE DEF S
    <3> QED
      BY DEF With
  <2> QED
    BY <1>1, <2>1, <2>2, <2>3, Zenon
<1>3. ASSUME NEW u \in 1..n
      PROVE  StateByte(S[(from + u - 1) \div 136], (from + u - 1) % 136) = OutByte(F, from + u - 1)
  <2> DEFINE p == from + u - 1
             k == p \div 136
  <2>1. k \in Nat /\ k \in (from \div 136)..((from + n) \div 136)
    OBVIOUS
  <2> HIDE DEF F, G, k
  <2>2. S[k] = Squeezed(G, k)
    BY <2>1
  <2>3. Squeezed(G, k) = Out(G, k)
    BY <2>1, SqueezedIs
  <2>4. Out(G, k) = Out(F, k + 1)
    BY <2>1, OutShift DEF G
  <2> HIDE DEF p, S
  <2>5. StateByte(S[k], p % 136) = OutByte(F, p)
    BY <2>2, <2>3, <2>4, Zenon DEF OutByte, k
  <2> QED
    BY <2>5 DEF p, k
<1> HIDE DEF F, S
<1>4. bytes(S) = [u \in 1..n |-> OutByte(F, from + u - 1)]
  BY <1>3
<1> QED
  BY <1>2, <1>4, Zenon DEF F

-----------------------------------------------------------------------------
(* Extraction, in both implementations.                                      *)

ECtx(a, n, l, t) == [A |-> a, dptr |-> n, rate |-> 136, left |-> l, out |-> t]
LECtx(a, n, l, t) == [A |-> a, dptr |-> n, left |-> l, out |-> t]

\* c bytes of the state b from byte d on.
Read(b, d, c) == [u \in 1..c |-> StateByte(b, d + u - 1)]
\* What the loops do first: at the end of a block they permute.
Turned(a, n, b, d) == IF n = 136 THEN b = KeccakF(a) /\ d = 0 ELSE b = a /\ d = n

LEMMA ExtractStepIs ==
  ASSUME NEW a \in State, NEW n, NEW l, NEW t, NEW len, NEW null \in BOOLEAN, NEW b, NEW d,
         ~(len = 0 \/ l = 0), Turned(a, n, b, d), NEW c, c = Least(136 - d, l)
  PROVE  ExtractStep(ECtx(a, n, l, t), len, null)
           = ECtx(b, d + c, l - c, IF null THEN t ELSE t \o Read(b, d, c))
<1> DEFINE s == ECtx(a, n, l, t)
           x == ECtx(b, d, l, t)
           body(e) == LET clen == Least(e.rate - e.dptr, e.left)
                          bytes == [u \in 1..clen |-> StateByte(e.A, e.dptr + u - 1)]
                      IN  [e EXCEPT !.dptr = @ + clen, !.left = @ - clen,
                                    !.out = IF null THEN @ ELSE @ \o bytes]
<1>1. s.A = a /\ s.dptr = n /\ s.rate = 136 /\ s.left = l /\ s.out = t
  BY DEF ECtx
<1>2. x.A = b /\ x.dptr = d /\ x.rate = 136 /\ x.left = l /\ x.out = t
  BY DEF ECtx
<1>3. process_block(a) = KeccakF(a)
  BY ProcessBlockIsKeccak
<1>4. (IF s.dptr = s.rate THEN [s EXCEPT !.A = process_block(s.A), !.dptr = 0] ELSE s) = x
  <2>1. CASE n = 136
    <3>1. b = KeccakF(a) /\ d = 0
      BY <2>1, Zenon DEF Turned
    <3>2. [ECtx(a, n, l, t) EXCEPT !.A = b] = ECtx(b, n, l, t)
      BY DEF ECtx
    <3>3. [ECtx(b, n, l, t) EXCEPT !.dptr = 0] = ECtx(b, 0, l, t)
      BY DEF ECtx
    <3>4. [[s EXCEPT !.A = b] EXCEPT !.dptr = 0] = x
      BY <3>1, <3>2, <3>3, Zenon
    <3>5. process_block(s.A) = b
      BY <1>1, <1>3, <3>1, Zenon
    <3>6. [[s EXCEPT !.A = process_block(s.A)] EXCEPT !.dptr = 0] = x
      BY <3>4, <3>5, Zenon
    <3> QED
      BY <1>1, <2>1, <3>6, Zenon
  <2>2. CASE n # 136
    <3>1. b = a /\ d = n
      BY <2>2, Zenon DEF Turned
    <3> QED
      BY <1>1, <2>2, <3>1, Zenon
  <2> QED
    BY <2>1, <2>2
<1>5. body(x) = ECtx(b, d + c, l - c, IF null THEN t ELSE t \o Read(b, d, c))
  <2> DEFINE y == d + c
             z == l - c
             w == IF null THEN t ELSE t \o Read(b, d, c)
  <2>1. [u \in 1..c |-> StateByte(x.A, x.dptr + u - 1)] = Read(b, d, c)
    BY <1>2, Zenon DEF Read
  <2>2. Least(x.rate - x.dptr, x.left) = c
    BY <1>2, Zenon
  <2>3. x.dptr + c = y /\ x.left - c = z /\ (IF null THEN x.out ELSE x.out \o Read(b, d, c)) = w
    BY <1>2, Zenon
  <2> HIDE DEF y, z, w
  <2>4. [ECtx(b, d, l, t) EXCEPT !.dptr = y] = ECtx(b, y, l, t)
    BY DEF ECtx
  <2>5. [ECtx(b, y, l, t) EXCEPT !.left = z] = ECtx(b, y, z, t)
    BY DEF ECtx
  <2>6. [ECtx(b, y, z, t) EXCEPT !.out = w] = ECtx(b, y, z, w)
    BY DEF ECtx
  <2>7. [[[x EXCEPT !.dptr = y] EXCEPT !.left = z] EXCEPT !.out = w] = ECtx(b, y, z, w)
    BY <2>4, <2>5, <2>6, Zenon
  <2> HIDE DEF x
  <2>8. body(x) = [[[x EXCEPT !.dptr = x.dptr + c] EXCEPT !.left = x.left - c]
                      EXCEPT !.out = IF null THEN x.out ELSE x.out \o Read(b, d, c)]
    BY <2>1, <2>2, Zenon
  <2>9. body(x) = ECtx(b, y, z, w)
    BY <2>3, <2>7, <2>8, ZenonT(60)
  <2> QED
    BY <2>9, Zenon DEF y, z, w
<1>6. ExtractStep(s, len, null) = body(x)
  <2>1. ExtractStep(s, len, null)
          = With(IF s.dptr = s.rate THEN [s EXCEPT !.A = process_block(s.A), !.dptr = 0] ELSE s, LAMBDA e : body(e))
    <3> HIDE DEF s, x
    <3> QED
      BY <1>1, Zenon DEF ExtractStep
  <2> HIDE DEF s, x, body
  <2>2. With(x, LAMBDA e : body(e)) = body(x)
    BY DEF With
  <2> QED
    BY <1>4, <2>1, <2>2, Zenon
<1> QED
  BY <1>5, <1>6, Zenon

LEMMA LegacyExtractStepIs ==
  ASSUME NEW a \in State, NEW n, NEW l, NEW t, NEW m4 \in BOOLEAN, NEW b, NEW d,
         l # 0, Turned(a, n, b, d), NEW c, c = Least(136 - d, l)
  PROVE  LegacyExtractStep(m4, LECtx(a, n, l, t)) = LECtx(b, d + c, l - c, t \o Read(b, d, c))
<1> DEFINE s == LECtx(a, n, l, t)
           x == LECtx(b, d, l, t)
           body(e) == LET clen == Least(136 - e.dptr, e.left)
                      IN  [e EXCEPT !.dptr = @ + clen, !.left = @ - clen,
                                    !.out = @ \o [u \in 1..clen |-> StateByte(e.A, e.dptr + u - 1)]]
<1>1. s.A = a /\ s.dptr = n /\ s.left = l /\ s.out = t
  BY DEF LECtx
<1>2. x.A = b /\ x.dptr = d /\ x.left = l /\ x.out = t
  BY DEF LECtx
<1>3. legacy_process_block(m4, a) = KeccakF(a)
  BY LegacyProcessBlockIsKeccak
<1>4. (IF s.dptr = 136 THEN [s EXCEPT !.A = legacy_process_block(m4, s.A), !.dptr = 0] ELSE s) = x
  <2>1. CASE n = 136
    <3>1. b = KeccakF(a) /\ d = 0
      BY <2>1, Zenon DEF Turned
    <3>2. [LECtx(a, n, l, t) EXCEPT !.A = b] = LECtx(b, n, l, t)
      BY DEF LECtx
    <3>3. [LECtx(b, n, l, t) EXCEPT !.dptr = 0] = LECtx(b, 0, l, t)
      BY DEF LECtx
    <3>4. [[s EXCEPT !.A = b] EXCEPT !.dptr = 0] = x
      BY <3>1, <3>2, <3>3, Zenon
    <3>5. legacy_process_block(m4, s.A) = b
      BY <1>1, <1>3, <3>1, Zenon
    <3>6. [[s EXCEPT !.A = legacy_process_block(m4, s.A)] EXCEPT !.dptr = 0] = x
      BY <3>4, <3>5, Zenon
    <3> QED
      BY <1>1, <2>1, <3>6, Zenon
  <2>2. CASE n # 136
    <3>1. b = a /\ d = n
      BY <2>2, Zenon DEF Turned
    <3> QED
      BY <1>1, <2>2, <3>1, Zenon
  <2> QED
    BY <2>1, <2>2
<1>5. body(x) = LECtx(b, d + c, l - c, t \o Read(b, d, c))
  <2> DEFINE y == d + c
             z == l - c
             w == t \o Read(b, d, c)
  <2>1. [u \in 1..c |-> StateByte(x.A, x.dptr + u - 1)] = Read(b, d, c)
    BY <1>2, Zenon DEF Read
  <2>2. Least(136 - x.dptr, x.left) = c
    BY <1>2, Zenon
  <2>3. x.dptr + c = y /\ x.left - c = z /\ x.out \o Read(b, d, c) = w
    BY <1>2, Zenon
  <2> HIDE DEF y, z, w
  <2>4. [LECtx(b, d, l, t) EXCEPT !.dptr = y] = LECtx(b, y, l, t)
    BY DEF LECtx
  <2>5. [LECtx(b, y, l, t) EXCEPT !.left = z] = LECtx(b, y, z, t)
    BY DEF LECtx
  <2>6. [LECtx(b, y, z, t) EXCEPT !.out = w] = LECtx(b, y, z, w)
    BY DEF LECtx
  <2>7. [[[x EXCEPT !.dptr = y] EXCEPT !.left = z] EXCEPT !.out = w] = LECtx(b, y, z, w)
    BY <2>4, <2>5, <2>6, Zenon
  <2> HIDE DEF x
  <2>8. body(x) = [[[x EXCEPT !.dptr = x.dptr + c] EXCEPT !.left = x.left - c]
                      EXCEPT !.out = x.out \o Read(b, d, c)]
    BY <2>1, <2>2, Zenon
  <2>9. body(x) = LECtx(b, y, z, w)
    BY <2>3, <2>7, <2>8, ZenonT(60)
  <2> QED
    BY <2>9, Zenon DEF y, z, w
<1>6. LegacyExtractStep(m4, s) = body(x)
  <2>1. LegacyExtractStep(m4, s)
          = With(IF s.dptr = 136 THEN [s EXCEPT !.A = legacy_process_block(m4, s.A), !.dptr = 0] ELSE s, LAMBDA e : body(e))
    <3> HIDE DEF s, x
    <3> QED
      BY <1>1, Zenon DEF LegacyExtractStep
  <2> HIDE DEF s, x, body
  <2>2. With(x, LAMBDA e : body(e)) = body(x)
    BY DEF With
  <2> QED
    BY <1>4, <2>1, <2>2, Zenon
<1> QED
  BY <1>5, <1>6, Zenon

\* The g output bytes from byte o on.
Drawn(F, o, g) == [u \in 1..g |-> OutByte(F, o + u - 1)]

\* Byte o + g is byte d of output block q, and c more of its bytes are left.
Within(o, g, q, d, c) ==
    /\ o \in Nat /\ g \in Nat /\ q \in Nat /\ d \in 0..135 /\ c \in Nat
    /\ o + g = 136 * q + d /\ d + c <= 136
DrawnAfter(F, o, g, c) == Drawn(F, o, g + c)
Next1(q) == q + 1

LEMMA ConcatIs ==
  ASSUME NEW S, NEW s \in Seq(S), NEW t \in Seq(S)
  PROVE  /\ s \o t \in Seq(S) /\ Len(s \o t) = Len(s) + Len(t)
         /\ \A u \in 1..(Len(s) + Len(t)) : (s \o t)[u] = IF u <= Len(s) THEN s[u] ELSE t[u - Len(s)]
<1>1. s \o t \in Seq(S) /\ Len(s \o t) = Len(s) + Len(t)
  OBVIOUS
<1>2. ASSUME NEW u \in 1..(Len(s) + Len(t)) PROVE (s \o t)[u] = IF u <= Len(s) THEN s[u] ELSE t[u - Len(s)]
  OBVIOUS
<1> QED
  BY <1>1, <1>2

\* Bytes of one block follow those already drawn.
LEMMA DrawnMore ==
  ASSUME NEW F, NEW o, NEW g, NEW c, NEW q, NEW d, Within(o, g, q, d, c)
  PROVE  Drawn(F, o, g) \o Read(Out(F, Next1(q)), d, c) = DrawnAfter(F, o, g, c)
<1> DEFINE s == Drawn(F, o, g)
           t == Read(Out(F, Next1(q)), d, c)
           w == Drawn(F, o, g + c)
<1>0. /\ o \in Nat /\ g \in Nat /\ q \in Nat /\ d \in 0..135 /\ c \in Nat
      /\ o + g = 136 * q + d /\ d + c <= 136 /\ Next1(q) = q + 1 /\ DrawnAfter(F, o, g, c) = w
  BY DEF Within, Next1, DrawnAfter
<1>1. s \in Seq(Byte) /\ Len(s) = g /\ \A u \in 1..g : s[u] = OutByte(F, o + u - 1)
  <2>1. ASSUME NEW u \in 1..g PROVE OutByte(F, o + u - 1) \in Byte
    BY StateByteIn DEF OutByte
  <2> QED
    BY <1>0, <2>1 DEF Drawn
<1>2. t \in Seq(Byte) /\ Len(t) = c /\ \A u \in 1..c : t[u] = StateByte(Out(F, q + 1), d + u - 1)
  <2>1. ASSUME NEW u \in 1..c PROVE StateByte(Out(F, q + 1), d + u - 1) \in Byte
    BY StateByteIn
  <2> QED
    BY <1>0, <2>1 DEF Read
<1>3. w \in Seq(Byte) /\ Len(w) = g + c /\ \A u \in 1..(g + c) : w[u] = OutByte(F, o + u - 1)
  <2>1. ASSUME NEW u \in 1..(g + c) PROVE OutByte(F, o + u - 1) \in Byte
    BY StateByteIn DEF OutByte
  <2> QED
    BY <1>0, <2>1 DEF Drawn
<1> HIDE DEF s, t, w
<1>4. s \o t \in Seq(Byte) /\ Len(s \o t) = g + c
  <2>1. s \in Seq(Byte) /\ t \in Seq(Byte) /\ Len(s) = g /\ Len(t) = c
    BY <1>1, <1>2, Zenon
  <2>2. s \o t \in Seq(Byte) /\ Len(s \o t) = Len(s) + Len(t)
    BY <2>1, ConcatIs, Zenon
  <2> QED
    BY <2>1, <2>2, Zenon
<1>5. ASSUME NEW u \in 1..(g + c) PROVE (s \o t)[u] = w[u]
  <2>0. u \in Int /\ u >= 1 /\ u <= g + c
    BY <1>0
  <2>1. CASE u <= g
    <3>1. u \in 1..g
      BY <1>0, <2>0, <2>1
    <3>2. (s \o t)[u] = s[u]
      BY <1>1, <1>2, <3>1
    <3> QED
      BY <1>1, <1>3, <3>1, <3>2
  <2>2. CASE u > g
    <3> DEFINE j == u - g
    <3>1. j \in 1..c /\ (s \o t)[u] = t[j]
      <4>1. j \in 1..c /\ u \in 1..(g + c) /\ ~(u <= g)
        BY <1>0, <2>0, <2>2
      <4>2. s \in Seq(Byte) /\ t \in Seq(Byte) /\ Len(s) = g /\ Len(t) = c
        BY <1>1, <1>2, Zenon
      <4>3. (s \o t)[u] = IF u <= Len(s) THEN s[u] ELSE t[u - Len(s)]
        BY <4>1, <4>2, ConcatIs, Zenon
      <4> QED
        BY <4>1, <4>2, <4>3, Zenon
    <3>2. o + u - 1 = 136 * q + (d + j - 1) /\ d + j - 1 \in 0..135
      BY <1>0, <2>0, <2>2
    <3> DEFINE p == o + u - 1
               e == d + j - 1
    <3>3. p = 136 * q + e /\ e \in 0..135
      BY <3>2
    <3> HIDE DEF j, p, e
    <3>4. p \div 136 = q /\ p % 136 = e
      BY <1>0, <3>3
    <3>5. t[j] = StateByte(Out(F, q + 1), e)
      BY <1>2, <3>1 DEF e
    <3>6. w[u] = OutByte(F, p)
      BY <1>3 DEF p
    <3> QED
      BY <3>1, <3>4, <3>5, <3>6, Zenon DEF OutByte
  <2>3. u <= g \/ u > g
    BY <1>0, <2>0
  <2> QED
    BY <2>1, <2>2, <2>3, Zenon
<1>6. s \o t = w
  <2> DEFINE x == s \o t
  <2>1. x \in Seq(Byte) /\ w \in Seq(Byte) /\ Len(x) = g + c /\ Len(w) = g + c
    BY <1>3, <1>4, Zenon
  <2>2. \A u \in 1..(g + c) : x[u] = w[u]
    BY <1>5
  <2> HIDE DEF x
  <2>3. x = w
    BY <1>0, <2>1, <2>2
  <2> QED
    BY <2>3 DEF x
<1> QED
  BY <1>0, <1>6, Zenon DEF s, t, w

\* After p bytes of output, Block(p) blocks have been made and Ptr(p) bytes read
\* from the last one.
Block(p) == (p + 135) \div 136
Ptr(p) == p + 136 - 136 * Block(p)

LEMMA TurnIs ==
  ASSUME NEW F, NEW p \in Nat
  PROVE  Turned(Out(F, Block(p)), Ptr(p), Out(F, (p \div 136) + 1), p % 136)
<1> DEFINE q == p \div 136
           d == p % 136
<1>1. q \in Nat /\ d \in 0..135 /\ p = 136 * q + d
  OBVIOUS
<1>2. CASE d = 0
  <2>1. Block(p) = q /\ Ptr(p) = 136
    BY <1>1, <1>2 DEF Block, Ptr
  <2>2. Out(F, q + 1) = KeccakF(Out(F, q))
    BY <1>1, OutIs, ZenonT(60)
  <2> QED
    BY <1>2, <2>1, <2>2, Zenon DEF Turned
<1>3. CASE d # 0
  <2>1. Block(p) = q + 1 /\ Ptr(p) = d /\ Ptr(p) # 136
    BY <1>1, <1>3 DEF Block, Ptr
  <2> QED
    BY <2>1, Zenon DEF Turned
<1> QED
  BY <1>2, <1>3

LEMMA PtrMore ==
  ASSUME NEW p \in Nat, NEW c \in Nat, c >= 1, (p % 136) + c <= 136
  PROVE  Block(p + c) = (p \div 136) + 1 /\ Ptr(p + c) = (p % 136) + c
<1> DEFINE q == p \div 136
           d == p % 136
<1>1. q \in Nat /\ d \in 0..135 /\ p = 136 * q + d /\ d + c <= 136
  OBVIOUS
<1> HIDE DEF q, d
<1>2. p + c = 136 * q + (d + c)
  BY <1>1
<1>3. Block(p + c) = q + 1
  BY <1>1, <1>2 DEF Block
<1>4. Ptr(p + c) = d + c
  BY <1>1, <1>2, <1>3 DEF Ptr
<1> QED
  BY <1>3, <1>4 DEF q, d

\* The loop variables when g of len bytes have been drawn from byte o on.
Drawing(F, o, len, g, null) ==
    ECtx(Out(F, Block(o + g)), Ptr(o + g), len - g, IF null THEN <<>> ELSE Drawn(F, o, g))
LDrawing(F, o, len, g) == LECtx(Out(F, Block(o + g)), Ptr(o + g), len - g, Drawn(F, o, g))

\* How far k iterations get.
Reaches(o, len, g, k) == g \in 0..len /\ (g = len \/ k = 0 \/ (Ptr(o + g) = 136 /\ g >= 136 * (k - 1)))

LEMMA ExtractNext ==
  ASSUME NEW F \in State, NEW o \in Nat, NEW len \in Nat, NEW k \in Nat, NEW g, Reaches(o, len, g, k),
         NEW null \in BOOLEAN, NEW m4 \in BOOLEAN
  PROVE  \E h : /\ ExtractStep(Drawing(F, o, len, g, null), len, null) = Drawing(F, o, len, h, null)
                /\ LegacyExtractStep(m4, LDrawing(F, o, len, g)) = LDrawing(F, o, len, h)
                /\ Reaches(o, len, h, k + 1)
<1> DEFINE p == o + g
           q == p \div 136
           d == p % 136
           a == Out(F, Block(p))
           n == Ptr(p)
           b == Out(F, q + 1)
           l == len - g
           c == Least(136 - d, l)
           t == Drawn(F, o, g)
           u == IF null THEN <<>> ELSE t
<1>1. g \in Nat /\ g <= len /\ (g = len \/ k = 0 \/ (n = 136 /\ g >= 136 * (k - 1)))
  BY DEF Reaches
<1>2. p \in Nat /\ q \in Nat /\ d \in 0..135 /\ p = 136 * q + d /\ l \in Nat /\ Block(p) \in Nat
  BY <1>1 DEF Block
<1>3. Drawing(F, o, len, g, null) = ECtx(a, n, l, u) /\ LDrawing(F, o, len, g) = LECtx(a, n, l, t)
  BY Zenon DEF Drawing, LDrawing
<1>4. CASE g = len
  <2>1. l = 0
    BY <1>1, <1>4
  <2>2. Reaches(o, len, g, k + 1)
    BY <1>1, <1>4 DEF Reaches
  <2>3. ECtx(a, n, l, u).left = 0 /\ LECtx(a, n, l, t).left = 0
    BY <2>1 DEF ECtx, LECtx
  <2> HIDE DEF a, n, u, t, l
  <2>4. ExtractStep(ECtx(a, n, l, u), len, null) = ECtx(a, n, l, u)
    BY <2>3, Zenon DEF ExtractStep
  <2>5. LegacyExtractStep(m4, LECtx(a, n, l, t)) = LECtx(a, n, l, t)
    BY <2>3, Zenon DEF LegacyExtractStep
  <2> QED
    BY <1>3, <2>2, <2>4, <2>5, Zenon
<1>5. CASE g # len
  <2> DEFINE h == g + c
  <2>1. /\ l # 0 /\ len # 0 /\ c \in Nat /\ c >= 1 /\ d + c <= 136 /\ h \in 0..len
        /\ (h = len \/ d + c = 136) /\ (h # len => h >= g + (136 - d))
    BY <1>1, <1>2, <1>5 DEF Least
  <2>2. a \in State
    BY <1>2, OutState
  <2>3. Turned(a, n, b, d)
    BY <1>2, TurnIs
  <2>4. Block(p + c) = q + 1 /\ Ptr(p + c) = d + c
    <3>1. p \in Nat /\ c \in Nat /\ c >= 1 /\ (p % 136) + c <= 136
      BY <1>2, <2>1
    <3> HIDE DEF p, c
    <3>2. Block(p + c) = (p \div 136) + 1 /\ Ptr(p + c) = (p % 136) + c
      BY <3>1, PtrMore
    <3> QED
      BY <3>2, Zenon
  <2>5. p + c = o + h /\ l - c = len - h
    BY <1>1, <2>1
  <2>6. c = Least(136 - d, l)
    OBVIOUS
  <2>7. t \o Read(b, d, c) = Drawn(F, o, h)
    <3>1. Within(o, g, q, d, c)
      BY <1>1, <1>2, <2>1 DEF Within
    <3> HIDE DEF c, q, d
    <3>2. Drawn(F, o, g) \o Read(Out(F, Next1(q)), d, c) = DrawnAfter(F, o, g, c)
      BY <3>1, DrawnMore, Zenon
    <3> QED
      BY <3>2, Zenon DEF Next1, DrawnAfter
  <2>8. n = 136 => d = 0
    <3>1. CASE n = 136
      BY <2>3, <3>1, Zenon DEF Turned
    <3> QED
      BY <3>1
  <2>9. Reaches(o, len, h, k + 1)
    <3>1. h = len \/ (Ptr(o + h) = 136 /\ h >= 136 * ((k + 1) - 1))
      <4>1. CASE h # len
        <5>1. d + c = 136 /\ h >= g + (136 - d)
          BY <2>1, <4>1
        <5>2. Ptr(o + h) = 136
          BY <2>4, <2>5, <5>1, Zenon
        <5>3. h >= 136 * ((k + 1) - 1)
          <6> HIDE DEF h, n, d
          <6> QED
            BY <1>1, <1>2, <1>5, <2>1, <2>8, <5>1
        <5> QED
          BY <5>2, <5>3
      <4> QED
        BY <4>1
    <3> QED
      BY <2>1, <3>1 DEF Reaches
  <2> HIDE DEF a, n, b, d, l, c, t, u, h, p, q
  <2>10. ExtractStep(ECtx(a, n, l, u), len, null)
           = ECtx(b, d + c, l - c, IF null THEN u ELSE u \o Read(b, d, c))
    <3>1. ~(len = 0 \/ l = 0)
      BY <2>1
    <3> QED
      BY <2>2, <2>3, <2>6, <3>1, ExtractStepIs
  <2>11. LegacyExtractStep(m4, LECtx(a, n, l, t)) = LECtx(b, d + c, l - c, t \o Read(b, d, c))
    BY <2>1, <2>2, <2>3, <2>6, LegacyExtractStepIs
  <2>12. b = Out(F, Block(o + h)) /\ d + c = Ptr(o + h)
    BY <2>4, <2>5, Zenon DEF b
  <2>13. (IF null THEN u ELSE u \o Read(b, d, c)) = IF null THEN <<>> ELSE Drawn(F, o, h)
    BY <2>7, Zenon DEF u
  <2>14. ECtx(b, d + c, l - c, IF null THEN u ELSE u \o Read(b, d, c)) = Drawing(F, o, len, h, null)
    BY <2>5, <2>12, <2>13, Zenon DEF Drawing
  <2>15. LECtx(b, d + c, l - c, t \o Read(b, d, c)) = LDrawing(F, o, len, h)
    BY <2>5, <2>7, <2>12, Zenon DEF LDrawing
  <2> QED
    BY <1>3, <2>9, <2>10, <2>11, <2>14, <2>15, Zenon
<1> QED
  BY <1>4, <1>5

\* The iterations of shake_extract().
LEMMA ExtractLoop ==
  ASSUME NEW ctx, NEW len \in Nat, NEW null, HasRate(ctx)
  PROVE  LET e == After(<<"extract", len, null>>, ECtx(ctx.A, ctx.dptr, len, <<>>), (len \div 136) + 2)
         IN  shake_extract(ctx, len, null) = [sc |-> [A |-> e.A, dptr |-> e.dptr, rate |-> e.rate], out |-> e.out]
<1> DEFINE loop == <<"extract", len, null>>
           d == [A |-> ctx.A, dptr |-> ctx.dptr, rate |-> ctx.rate, left |-> len, out |-> <<>>]
           m == len \div ctx.rate + 2
           step(x, k) == With(x, LAMBDA q : ExtractStep(q, len, null))
           E(h) == h = [k \in 0..m |-> IF k = 0 THEN d ELSE step(h[k - 1], k)]
           f == CHOOSE h : E(h)
           out(e) == [sc |-> [A |-> e.A, dptr |-> e.dptr, rate |-> e.rate], out |-> e.out]
<1>1. ASSUME NEW x, NEW k PROVE LoopStep(loop, x, k) = step(x, k)
  <2>1. loop[1] = "extract" /\ loop[2] = len /\ loop[3] = null
    OBVIOUS
  <2> HIDE DEF loop
  <2>2. LoopStep(loop, x, k) = ExtractStep(x, loop[2], loop[3])
    BY <2>1 DEF LoopStep
  <2>3. step(x, k) = ExtractStep(x, len, null)
    BY DEF With
  <2> HIDE DEF step
  <2> QED
    BY <2>1, <2>2, <2>3, Zenon
<1>2. shake_extract(ctx, len, null) = With(f[m], LAMBDA e : out(e))
  BY Zenon DEF shake_extract
<1>3. m \in Nat /\ m = (len \div 136) + 2
  BY DEF HasRate
<1>4. d = ECtx(ctx.A, ctx.dptr, len, <<>>)
  BY DEF ECtx, HasRate
<1> HIDE DEF loop, step, m, d
<1>5. \E h : E(h)
  <2>1. PICK h : Iterates(h, loop, d, m)
    BY <1>3, LoopExists
  <2>2. E(h)
    BY <1>1, <2>1, Zenon DEF Iterates
  <2> HIDE DEF E
  <2> QED
    BY <2>2, Zenon
<1>6. E(f)
  <2> HIDE DEF E
  <2> QED
    BY <1>5, Zenon
<1> HIDE DEF f
<1>7. Iterates(f, loop, d, m)
  BY <1>1, <1>6, Zenon DEF Iterates
<1>8. f[m] = After(loop, d, m)
  BY <1>3, <1>7, ChosenAfter
<1>9. With(f[m], LAMBDA e : out(e)) = out(f[m])
  <2> HIDE DEF out
  <2> QED
    BY DEF With
<1>10. shake_extract(ctx, len, null) = out(After(loop, d, m))
  BY <1>2, <1>8, <1>9, Zenon
<1>11. After(loop, d, m) = After(<<"extract", len, null>>, ECtx(ctx.A, ctx.dptr, len, <<>>), (len \div 136) + 2)
  BY <1>3, <1>4, Zenon DEF loop
<1> QED
  BY <1>10, <1>11, Zenon

\* Those of i_shake256_extract(): the tag is any other.
LEMMA LegacyExtractLoop ==
  ASSUME NEW m4, NEW ctx, NEW len \in Nat
  PROVE  LET e == After(<<"legacy_extract", m4>>, LECtx(ctx.A, ctx.dptr, len, <<>>), (len \div 136) + 2)
         IN  i_shake256_extract(m4, ctx, len) = [sc |-> [A |-> e.A, dptr |-> e.dptr], out |-> e.out]
<1> DEFINE loop == <<"legacy_extract", m4>>
           d == [A |-> ctx.A, dptr |-> ctx.dptr, left |-> len, out |-> <<>>]
           m == len \div 136 + 2
           step(x, k) == With(x, LAMBDA q : LegacyExtractStep(m4, q))
           E(h) == h = [k \in 0..m |-> IF k = 0 THEN d ELSE step(h[k - 1], k)]
           f == CHOOSE h : E(h)
           out(e) == [sc |-> [A |-> e.A, dptr |-> e.dptr], out |-> e.out]
<1>1. ASSUME NEW x, NEW k PROVE LoopStep(loop, x, k) = step(x, k)
  <2>1. loop[1] = "legacy_extract" /\ loop[2] = m4
    OBVIOUS
  <2> HIDE DEF loop
  <2>2. LoopStep(loop, x, k) = LegacyExtractStep(loop[2], x)
    BY <2>1 DEF LoopStep
  <2>3. step(x, k) = LegacyExtractStep(m4, x)
    BY DEF With
  <2> HIDE DEF step
  <2> QED
    BY <2>1, <2>2, <2>3, Zenon
<1>2. i_shake256_extract(m4, ctx, len) = With(f[m], LAMBDA e : out(e))
  BY Zenon DEF i_shake256_extract
<1>3. m \in Nat /\ m = (len \div 136) + 2
  OBVIOUS
<1>4. d = LECtx(ctx.A, ctx.dptr, len, <<>>)
  BY DEF LECtx
<1> HIDE DEF loop, step, m, d
<1>5. \E h : E(h)
  <2>1. PICK h : Iterates(h, loop, d, m)
    BY <1>3, LoopExists
  <2>2. E(h)
    BY <1>1, <2>1, Zenon DEF Iterates
  <2> HIDE DEF E
  <2> QED
    BY <2>2, Zenon
<1>6. E(f)
  <2> HIDE DEF E
  <2> QED
    BY <1>5, Zenon
<1> HIDE DEF f
<1>7. Iterates(f, loop, d, m)
  BY <1>1, <1>6, Zenon DEF Iterates
<1>8. f[m] = After(loop, d, m)
  BY <1>3, <1>7, ChosenAfter
<1>9. With(f[m], LAMBDA e : out(e)) = out(f[m])
  <2> HIDE DEF out
  <2> QED
    BY DEF With
<1>10. i_shake256_extract(m4, ctx, len) = out(After(loop, d, m))
  BY <1>2, <1>8, <1>9, Zenon
<1>11. After(loop, d, m) = After(<<"legacy_extract", m4>>, LECtx(ctx.A, ctx.dptr, len, <<>>), (len \div 136) + 2)
  BY <1>3, <1>4, Zenon DEF loop
<1> QED
  BY <1>10, <1>11, Zenon

\* An extraction of len bytes at any place of a block returns the next len bytes.
LEMMA Extracted ==
  ASSUME NEW F \in State, NEW o \in Nat, NEW len \in Nat, NEW null \in BOOLEAN, NEW m4 \in BOOLEAN,
         NEW ctx, ctx.A = Out(F, Block(o)), ctx.dptr = Ptr(o), HasRate(ctx),
         NEW lctx, lctx.A = Out(F, Block(o)), lctx.dptr = Ptr(o)
  PROVE  /\ shake_extract(ctx, len, null)
              = [sc |-> [A |-> Out(F, Block(o + len)), dptr |-> Ptr(o + len), rate |-> 136],
                 out |-> IF null THEN <<>> ELSE Drawn(F, o, len)]
         /\ i_shake256_extract(m4, lctx, len)
              = [sc |-> [A |-> Out(F, Block(o + len)), dptr |-> Ptr(o + len)], out |-> Drawn(F, o, len)]
<1> DEFINE a == Out(F, Block(o))
           n == Ptr(o)
           new(k) == After(<<"extract", len, null>>, ECtx(a, n, len, <<>>), k)
           old(k) == After(<<"legacy_extract", m4>>, LECtx(a, n, len, <<>>), k)
           Reached(k, g) == /\ new(k) = Drawing(F, o, len, g, null) /\ old(k) = LDrawing(F, o, len, g)
                            /\ Reaches(o, len, g, k)
           S == {k \in Nat : \E g : Reached(k, g)}
<1>1. 0 \in S
  <2>1. Reaches(o, len, 0, 0)
    BY DEF Reaches
  <2>2. new(0) = ECtx(a, n, len, <<>>) /\ old(0) = LECtx(a, n, len, <<>>)
    BY AfterIs, Zenon
  <2>3. o + 0 = o /\ len - 0 = len
    OBVIOUS
  <2>4. Drawn(F, o, 0) = <<>>
    BY DEF Drawn
  <2>5. (IF null THEN <<>> ELSE Drawn(F, o, 0)) = <<>>
    BY <2>4, Zenon
  <2>6. Drawing(F, o, len, 0, null) = ECtx(a, n, len, <<>>)
    BY <2>3, <2>5, Zenon DEF Drawing
  <2>7. LDrawing(F, o, len, 0) = LECtx(a, n, len, <<>>)
    BY <2>3, <2>4, Zenon DEF LDrawing
  <2> HIDE DEF new, old
  <2>8. Reached(0, 0)
    BY <2>1, <2>2, <2>6, <2>7, Zenon
  <2> HIDE DEF Reached
  <2> QED
    BY <2>8
<1>2. ASSUME NEW k \in Nat, k \in S PROVE k + 1 \in S
  <2>1. PICK g : Reached(k, g)
    BY <1>2
  <2>2. PICK h : /\ ExtractStep(Drawing(F, o, len, g, null), len, null) = Drawing(F, o, len, h, null)
                 /\ LegacyExtractStep(m4, LDrawing(F, o, len, g)) = LDrawing(F, o, len, h)
                 /\ Reaches(o, len, h, k + 1)
    <3>1. Reaches(o, len, g, k)
      BY <2>1
    <3> QED
      BY <3>1, ExtractNext
  <2>3. new(k + 1) = LoopStep(<<"extract", len, null>>, new(k), k + 1)
    BY AfterIs, Zenon
  <2>4. old(k + 1) = LoopStep(<<"legacy_extract", m4>>, old(k), k + 1)
    BY AfterIs, Zenon
  <2>5. ASSUME NEW x, NEW y PROVE LoopStep(<<"extract", len, null>>, x, y) = ExtractStep(x, len, null)
    BY DEF LoopStep
  <2>6. ASSUME NEW x, NEW y PROVE LoopStep(<<"legacy_extract", m4>>, x, y) = LegacyExtractStep(m4, x)
    BY DEF LoopStep
  <2>7. new(k) = Drawing(F, o, len, g, null) /\ old(k) = LDrawing(F, o, len, g)
    BY <2>1
  <2>8. Reached(k + 1, h)
    <3> HIDE DEF new, old
    <3> QED
      BY <2>2, <2>3, <2>4, <2>5, <2>6, <2>7, Zenon
  <2> HIDE DEF Reached
  <2> QED
    BY <2>8
<1> DEFINE m == (len \div 136) + 2
<1>3. m \in Nat /\ 136 * (m - 1) > len /\ m # 0
  OBVIOUS
<1>4. m \in S
  <2> HIDE DEF S, m
  <2> QED
    BY <1>1, <1>2, <1>3, NatSetInduction
<1>5. PICK g : Reached(m, g)
  BY <1>4
<1>6. g = len
  <2>1. Reaches(o, len, g, m)
    BY <1>5
  <2> HIDE DEF m
  <2> QED
    BY <1>3, <2>1 DEF Reaches
<1>7. new(m) = Drawing(F, o, len, len, null) /\ old(m) = LDrawing(F, o, len, len)
  BY <1>5, <1>6, Zenon
<1>8. shake_extract(ctx, len, null)
        = [sc |-> [A |-> new(m).A, dptr |-> new(m).dptr, rate |-> new(m).rate], out |-> new(m).out]
  <2>1. ECtx(ctx.A, ctx.dptr, len, <<>>) = ECtx(a, n, len, <<>>)
    OBVIOUS
  <2> DEFINE e == After(<<"extract", len, null>>, ECtx(ctx.A, ctx.dptr, len, <<>>), m)
  <2>2. e = new(m)
    BY <2>1, Zenon
  <2>3. shake_extract(ctx, len, null) = [sc |-> [A |-> e.A, dptr |-> e.dptr, rate |-> e.rate], out |-> e.out]
    BY ExtractLoop, ZenonT(60)
  <2> QED
    BY <2>2, <2>3, Zenon
<1>9. i_shake256_extract(m4, lctx, len) = [sc |-> [A |-> old(m).A, dptr |-> old(m).dptr], out |-> old(m).out]
  <2>1. LECtx(lctx.A, lctx.dptr, len, <<>>) = LECtx(a, n, len, <<>>)
    OBVIOUS
  <2> DEFINE e == After(<<"legacy_extract", m4>>, LECtx(lctx.A, lctx.dptr, len, <<>>), m)
  <2>2. e = old(m)
    BY <2>1, Zenon
  <2>3. i_shake256_extract(m4, lctx, len) = [sc |-> [A |-> e.A, dptr |-> e.dptr], out |-> e.out]
    BY LegacyExtractLoop, ZenonT(60)
  <2> QED
    BY <2>2, <2>3, Zenon
<1> HIDE DEF new, old, m
<1>10. /\ new(m).A = Out(F, Block(o + len)) /\ new(m).dptr = Ptr(o + len) /\ new(m).rate = 136
       /\ new(m).out = IF null THEN <<>> ELSE Drawn(F, o, len)
       /\ old(m).A = Out(F, Block(o + len)) /\ old(m).dptr = Ptr(o + len) /\ old(m).out = Drawn(F, o, len)
  BY <1>7 DEF Drawing, LDrawing, ECtx, LECtx
<1> QED
  BY <1>8, <1>9, <1>10, Zenon

-----------------------------------------------------------------------------
(* The invariant.                                                            *)

Context(a, n) == sc = [A |-> a, dptr |-> n, rate |-> 136] /\ lsc = [A |-> a, dptr |-> n]
Taking(a, n) == outLen = 0 /\ n = inLen % 136 /\ Filled(a, inLen \div 136, n)
Giving(a, n) == a = Out(Final(inLen, {0, 1, 2, 3, 4}), Block(outLen)) /\ n = Ptr(outLen)

\* Both contexts hold the same state; while the message is injected, it is the
\* state after the message's full blocks with the rest of it mixed in; after the
\* flip, it is the output block being read.
ContextInv ==
    /\ asm \in BOOLEAN /\ phase \in {"inject", "extract"}
    /\ inLen \in 0..MaxIn /\ outLen \in Nat
    /\ \E a, n : /\ Context(a, n)
                 /\ phase = "inject" => Taking(a, n)
                 /\ phase = "extract" => Giving(a, n)

\* What a call returned is a part of the standard's output.
Returns(kind, L, from, n, bytes) ==
    /\ kind \in {"shake", "sha3"} /\ L \in 0..MaxIn /\ from \in Nat /\ n \in Nat
    /\ bytes = Drawn(Final(L, Suffix(kind)), from, n)

LEMMA ReturnedIs ==
  ASSUME NEW kind, NEW L, NEW from, NEW n, NEW bytes, Returns(kind, L, from, n, bytes)
  PROVE  Sponge(Msg, L, Suffix(kind), 136, from, Len(bytes)) = bytes
<1>0. /\ kind \in {"shake", "sha3"} /\ L \in 0..MaxIn /\ from \in Nat /\ n \in Nat
      /\ bytes = Drawn(Final(L, Suffix(kind)), from, n)
  BY DEF Returns
<1>1. L \in Nat /\ L <= MaxIn
  BY <1>0, ShakeAssumption
<1>2. Suffix(kind) \in Suffixes
  BY DEF Suffix, Suffixes
<1>3. Len(bytes) = n
  BY <1>0 DEF Drawn
<1> DEFINE suffix == Suffix(kind)
<1> HIDE DEF suffix
<1>4. suffix \in Suffixes
  BY <1>2 DEF suffix
<1>5. Sponge(Msg, L, suffix, 136, from, n) = [u \in 1..n |-> OutByte(Final(L, suffix), from + u - 1)]
  BY <1>0, <1>1, <1>4, SpongeIs
<1> QED
  BY <1>0, <1>3, <1>5, Zenon DEF Drawn, suffix

LEMMA ContextInit == Init => ContextInv /\ StreamIsSponge
<1> SUFFICES ASSUME Init PROVE ContextInv /\ StreamIsSponge
  OBVIOUS
<1>1. shake_init(Size) = [A |-> Zero, dptr |-> 0, rate |-> 136]
  BY ShakeAssumption DEF shake_init, Zero
<1>2. i_shake256_init = [A |-> Zero, dptr |-> 0]
  BY DEF i_shake256_init, Zero
<1>3. Context(Zero, 0)
  BY <1>1, <1>2, Zenon DEF Init, Context
<1>4. Taking(Zero, 0)
  <2>1. inLen = 0 /\ outLen = 0 /\ 0 % 136 = 0 /\ 0 \div 136 = 0
    BY DEF Init
  <2>2. Zero \in State
    BY DEF Zero, State, Lane
  <2>3. ASSUME NEW v \in Places PROVE ~(v < 0)
    BY DEF Places
  <2>4. Filled(Zero, 0, 0)
    BY <2>2, <2>3, AbsIs, Zenon DEF Filled
  <2> QED
    BY <2>1, <2>4, Zenon DEF Taking
<1>5. asm \in BOOLEAN /\ phase = "inject" /\ inLen \in 0..MaxIn /\ outLen \in Nat
  BY ShakeAssumption DEF Init
<1>6. ContextInv
  <2>1. phase \in {"inject", "extract"} /\ phase # "extract"
    BY <1>5
  <2> QED
    BY <1>3, <1>4, <1>5, <2>1, Zenon DEF ContextInv
<1>7. StreamIsSponge
  BY DEF Init, Nothing, StreamIsSponge
<1> QED
  BY <1>6, <1>7

\* A call that returns nothing cannot break the property.
LEMMA QuietStep == ASSUME got' = Nothing PROVE StreamIsSponge'
  BY DEF StreamIsSponge, Nothing

LEMMA InjectStepInv == ASSUME ContextInv, Inject PROVE ContextInv' /\ StreamIsSponge'
<1>1. PICK len \in Chunks :
         /\ inLen + len <= MaxIn
         /\ sc' = shake_inject(sc, [u \in 0..(len - 1) |-> Msg[inLen + u]], len)
         /\ lsc' = i_shake256_inject(asm, lsc, [u \in 0..(len - 1) |-> Msg[inLen + u]], len)
         /\ inLen' = inLen + len
  BY DEF Inject
<1>2. phase = "inject" /\ got' = Nothing /\ asm' = asm /\ phase' = phase /\ outLen' = outLen
  BY DEF Inject
<1>3. PICK a, n : Context(a, n) /\ Taking(a, n)
  BY <1>2 DEF ContextInv
<1> DEFINE in == [u \in 0..(len - 1) |-> Msg[inLen + u]]
           L == inLen
           l == lsc
           s == sc
           M == inLen + len
<1>4. L \in Nat /\ len \in Nat /\ asm \in BOOLEAN /\ outLen = 0 /\ M \in 0..MaxIn
  BY <1>1, <1>3, ShakeAssumption DEF ContextInv, Taking
<1>5. Feeds(in, L, len)
  BY <1>1 DEF Feeds
<1>6. /\ s.A = a /\ s.dptr = L % 136 /\ HasRate(s) /\ l.A = a /\ l.dptr = L % 136
      /\ Filled(a, L \div 136, L % 136)
  BY <1>3 DEF Context, Taking, HasRate
<1>7. sc' = shake_inject(s, in, len) /\ lsc' = i_shake256_inject(asm, l, in, len) /\ inLen' = M
  BY <1>1
<1> HIDE DEF in, L, l, s
<1>8. PICK B : /\ Filled(B, (L + len) \div 136, (L + len) % 136)
               /\ shake_inject(s, in, len) = [A |-> B, dptr |-> (L + len) % 136, rate |-> 136]
               /\ i_shake256_inject(asm, l, in, len) = [A |-> B, dptr |-> (L + len) % 136]
  BY <1>4, <1>5, <1>6, Injected
<1>11. PICK r : r = M % 136
  OBVIOUS
<1>9. Context(B, r)' /\ Taking(B, r)'
  <2>1. sc' = [A |-> B, dptr |-> r, rate |-> 136] /\ lsc' = [A |-> B, dptr |-> r]
    BY <1>7, <1>8, <1>11, Zenon DEF L
  <2>2. outLen' = 0 /\ Filled(B, inLen' \div 136, r) /\ inLen' % 136 = r
    BY <1>2, <1>4, <1>7, <1>8, <1>11, Zenon DEF L
  <2> QED
    BY <2>1, <2>2 DEF Context, Taking
<1>10. ContextInv'
  <2>1. asm' \in BOOLEAN /\ phase' = "inject" /\ inLen' \in 0..MaxIn /\ outLen' \in Nat
    BY <1>2, <1>4, <1>7
  <2>2. phase' \in {"inject", "extract"} /\ phase' # "extract"
    BY <2>1
  <2> QED
    BY <1>9, <2>1, <2>2 DEF ContextInv
<1> QED
  BY <1>2, <1>10, QuietStep

LEMMA FlipStepInv == ASSUME ContextInv, Flip PROVE ContextInv' /\ StreamIsSponge'
<1>1. /\ phase = "inject" /\ sc' = shake_flip(sc) /\ lsc' = i_shake256_flip(lsc) /\ phase' = "extract"
      /\ got' = Nothing /\ asm' = asm /\ inLen' = inLen /\ outLen' = outLen
  BY DEF Flip
<1>2. PICK a, n : Context(a, n) /\ Taking(a, n)
  BY <1>1 DEF ContextInv
<1> DEFINE first == {0, 1, 2, 3, 4}
           F == Final(inLen, first)
<1>3. inLen \in Nat /\ inLen <= MaxIn /\ outLen = 0 /\ n = inLen % 136 /\ Filled(a, inLen \div 136, n)
  BY <1>2, ShakeAssumption DEF ContextInv, Taking
<1>4. first \in Suffixes
  BY DEF Suffixes
<1>5. Pad(a, n, 136, first) = F
  <2>1. Pad(a, inLen % 136, 136, first) = F
    <3> HIDE DEF first
    <3> QED
      BY <1>3, <1>4, PadIs
  <2> QED
    BY <1>3, <2>1, Zenon
<1>6. sc = [A |-> a, dptr |-> n, rate |-> 136] /\ lsc = [A |-> a, dptr |-> n]
  BY <1>2 DEF Context
<1>7. sc.A = a /\ sc.dptr = n /\ sc.rate = 136 /\ lsc.A = a /\ lsc.dptr = n
  BY <1>6
<1> HIDE DEF F
<1>8. sc' = [A |-> F, dptr |-> 136, rate |-> 136]
  <2>1. sc' = [[sc EXCEPT !.A = Pad(sc.A, sc.dptr, sc.rate, first)] EXCEPT !.dptr = sc.rate]
    BY <1>1, Zenon DEF shake_flip
  <2>2. sc' = [[sc EXCEPT !.A = F] EXCEPT !.dptr = 136]
    BY <1>5, <1>7, <2>1, Zenon
  <2>3. [sc EXCEPT !.A = F] = [A |-> F, dptr |-> n, rate |-> 136]
    BY <1>6
  <2>4. [[A |-> F, dptr |-> n, rate |-> 136] EXCEPT !.dptr = 136] = [A |-> F, dptr |-> 136, rate |-> 136]
    OBVIOUS
  <2> QED
    BY <2>2, <2>3, <2>4, Zenon
<1>9. lsc' = [A |-> F, dptr |-> 136]
  <2>1. lsc' = [A |-> XorByte(XorByte(lsc.A, lsc.dptr, first), 135, {7}), dptr |-> 136]
    BY <1>1, Zenon DEF i_shake256_flip
  <2>2. Pad(a, n, 136, first) = XorByte(XorByte(a, n, first), 135, {7})
    <3>1. 136 - 1 = 135
      OBVIOUS
    <3> QED
      BY <3>1, Zenon DEF Pad
  <2> QED
    BY <1>5, <1>7, <2>1, <2>2, Zenon
<1>12. PICK G : G = F
  OBVIOUS
<1>10. Context(G, 136)' /\ Giving(G, 136)'
  <2>1. Block(0) = 0 /\ Ptr(0) = 136
    BY DEF Block, Ptr
  <2>2. Out(F, 0) = F
    BY OutIs
  <2>3. G = Out(Final(inLen', {0, 1, 2, 3, 4}), Block(outLen'))
    BY <1>1, <1>3, <1>12, <2>1, <2>2, Zenon DEF F
  <2>4. 136 = Ptr(outLen')
    BY <1>1, <1>3, <2>1, Zenon
  <2> QED
    BY <1>8, <1>9, <1>12, <2>3, <2>4 DEF Context, Giving
<1>11. ContextInv'
  <2>1. asm' \in BOOLEAN /\ inLen' \in 0..MaxIn /\ outLen' \in Nat
    BY <1>1, <1>3 DEF ContextInv
  <2>2. phase' \in {"inject", "extract"} /\ phase' # "inject"
    BY <1>1
  <2> QED
    BY <1>10, <2>1, <2>2 DEF ContextInv
<1> QED
  BY <1>1, <1>11, QuietStep

LEMMA ExtractStepInv == ASSUME ContextInv, Extract PROVE ContextInv' /\ StreamIsSponge'
<1>1. PICK len \in OutChunks, null \in BOOLEAN :
         \E x \in {shake_extract(sc, len, null)}, y \in {i_shake256_extract(asm, lsc, len)} :
              /\ sc' = x.sc
              /\ lsc' = y.sc
              /\ got' = IF null THEN Nothing
                        ELSE [kind |-> "shake", len |-> inLen, from |-> outLen,
                              bytes |-> x.out, legacy |-> y.out]
              /\ outLen' = outLen + len
  BY DEF Extract
<1>2. phase = "extract" /\ asm' = asm /\ phase' = phase /\ inLen' = inLen
  BY DEF Extract
<1>3. PICK a, n : Context(a, n) /\ Giving(a, n)
  BY <1>2 DEF ContextInv
<1> DEFINE F == Final(inLen, {0, 1, 2, 3, 4})
           o == outLen
           x == shake_extract(sc, len, null)
           y == i_shake256_extract(asm, lsc, len)
           b == Out(F, Block(o + len))
           t == Drawn(F, o, len)
<1>4. o \in Nat /\ len \in Nat /\ asm \in BOOLEAN /\ inLen \in Nat /\ inLen \in 0..MaxIn /\ inLen <= MaxIn
  BY ShakeAssumption DEF ContextInv
<1>5. F \in State
  <2>1. {0, 1, 2, 3, 4} \in Suffixes
    BY DEF Suffixes
  <2> QED
    BY <1>4, <2>1, FinalIs
<1>6. a = Out(F, Block(o)) /\ n = Ptr(o)
  BY <1>3, Zenon DEF Giving
<1>7. sc.A = a /\ sc.dptr = n /\ HasRate(sc) /\ lsc.A = a /\ lsc.dptr = n
  BY <1>3 DEF Context, HasRate
<1>8. /\ x = [sc |-> [A |-> b, dptr |-> Ptr(o + len), rate |-> 136], out |-> IF null THEN <<>> ELSE t]
      /\ y = [sc |-> [A |-> b, dptr |-> Ptr(o + len)], out |-> t]
  <2> DEFINE s == sc
             l == lsc
  <2>1. s.A = Out(F, Block(o)) /\ s.dptr = Ptr(o) /\ HasRate(s) /\ l.A = Out(F, Block(o)) /\ l.dptr = Ptr(o)
    BY <1>6, <1>7, Zenon
  <2> HIDE DEF s, l, o, F
  <2>2. /\ shake_extract(s, len, null)
              = [sc |-> [A |-> Out(F, Block(o + len)), dptr |-> Ptr(o + len), rate |-> 136],
                 out |-> IF null THEN <<>> ELSE Drawn(F, o, len)]
        /\ i_shake256_extract(asm, l, len)
              = [sc |-> [A |-> Out(F, Block(o + len)), dptr |-> Ptr(o + len)], out |-> Drawn(F, o, len)]
    BY <1>4, <1>5, <2>1, Extracted
  <2> QED
    BY <2>2, Zenon DEF s, l
<1>9. /\ sc' = x.sc /\ lsc' = y.sc /\ outLen' = o + len
      /\ got' = IF null THEN Nothing
                ELSE [kind |-> "shake", len |-> inLen, from |-> outLen, bytes |-> x.out, legacy |-> y.out]
  <2> HIDE DEF x, y
  <2> QED
    BY <1>1 DEF x, y
<1> HIDE DEF x, y, F, b, t
<1>10. sc' = [A |-> b, dptr |-> Ptr(o + len), rate |-> 136] /\ lsc' = [A |-> b, dptr |-> Ptr(o + len)]
  BY <1>8, <1>9
<1>14. PICK c, r : c = b /\ r = Ptr(o + len)
  OBVIOUS
<1>11. Context(c, r)' /\ Giving(c, r)'
  <2>1. c = Out(Final(inLen', {0, 1, 2, 3, 4}), Block(outLen')) /\ r = Ptr(outLen')
    BY <1>2, <1>9, <1>14, Zenon DEF b, F
  <2> QED
    BY <1>10, <1>14, <2>1 DEF Context, Giving
<1>12. ContextInv'
  <2>1. asm' \in BOOLEAN /\ inLen' \in 0..MaxIn /\ outLen' \in Nat /\ phase' = "extract"
    BY <1>2, <1>4, <1>9
  <2>2. phase' \in {"inject", "extract"} /\ phase' # "inject"
    BY <2>1
  <2> QED
    BY <1>11, <2>1, <2>2 DEF ContextInv
<1>13. StreamIsSponge'
  <2>1. CASE null
    BY <1>9, <2>1, QuietStep
  <2>2. CASE ~null
    <3>1. x.out = t /\ y.out = t
      BY <1>8, <2>2
    <3>2. got' = [kind |-> "shake", len |-> inLen, from |-> o, bytes |-> t, legacy |-> t]
      BY <1>9, <2>2, <3>1, Zenon
    <3>3. got'.kind = "shake" /\ got'.len = inLen /\ got'.from = o /\ got'.bytes = t /\ got'.legacy = t
      BY <3>2
    <3>4. sc'.rate = 136
      BY <1>10
    <3>5. Suffix("shake") = {0, 1, 2, 3, 4}
      BY DEF Suffix
    <3>6. Sponge(Msg, inLen, Suffix("shake"), 136, o, Len(t)) = t
      <4>1. t = Drawn(Final(inLen, Suffix("shake")), o, len)
        BY <3>5, Zenon DEF t, F
      <4> DEFINE L == inLen
                 from == o
                 kind == "shake"
      <4>2. kind \in {"shake", "sha3"} /\ L \in 0..MaxIn /\ from \in Nat /\ len \in Nat
        BY <1>4
      <4>3. t = Drawn(Final(L, Suffix(kind)), from, len)
        BY <4>1, Zenon
      <4> HIDE DEF L, from, kind
      <4>4. Returns(kind, L, from, len, t)
        BY <4>2, <4>3, Zenon DEF Returns
      <4>5. Sponge(Msg, L, Suffix(kind), 136, from, Len(t)) = t
        BY <4>4, ReturnedIs, Zenon
      <4> QED
        BY <4>5, Zenon DEF L, from, kind
    <3> QED
      BY <3>3, <3>4, <3>6, Zenon DEF StreamIsSponge
  <2> QED
    BY <2>1, <2>2
<1> QED
  BY <1>12, <1>13

LEMMA CloseStepInv == ASSUME ContextInv, Close PROVE ContextInv' /\ StreamIsSponge'
<1>1. \E x \in {sha3_close(sc)} :
         /\ sc' = x.sc
         /\ got' = [kind |-> "sha3", len |-> inLen, from |-> 0, bytes |-> x.out, legacy |-> x.out]
  BY DEF Close
<1>2. phase = "inject" /\ lsc' = i_shake256_init /\ inLen' = 0 /\ asm' = asm /\ phase' = phase /\ outLen' = outLen
  BY DEF Close
<1>3. PICK a, n : Context(a, n) /\ Taking(a, n)
  BY <1>2 DEF ContextInv
<1> DEFINE first == {1, 2}
           F == Final(inLen, first)
           x == sha3_close(sc)
           G == KeccakF(F)
           t == Drawn(F, 0, 32)
<1>4. inLen \in Nat /\ inLen <= MaxIn /\ inLen \in 0..MaxIn /\ outLen = 0 /\ n = inLen % 136 /\ Filled(a, inLen \div 136, n)
  BY <1>3, ShakeAssumption DEF ContextInv, Taking
<1>5. first \in Suffixes
  BY DEF Suffixes
<1>6. Pad(a, n, 136, first) = F
  <2>1. Pad(a, inLen % 136, 136, first) = F
    <3> HIDE DEF first
    <3> QED
      BY <1>4, <1>5, PadIs
  <2> QED
    BY <1>4, <2>1, Zenon
<1>7. F \in State
  <2> HIDE DEF first
  <2> QED
    BY <1>4, <1>5, FinalIs
<1>8. sc.A = a /\ sc.dptr = n /\ sc.rate = 136
  BY <1>3 DEF Context
<1>9. process_block(F) = G
  BY <1>7, ProcessBlockIsKeccak
<1>10. (200 - 136) \div 2 = 32 /\ 8 * 32 = 256
  OBVIOUS
<1>11. shake_init(256) = [A |-> Zero, dptr |-> 0, rate |-> 136]
  BY DEF shake_init, Zero
<1>12. [u \in 1..32 |-> StateByte(G, u - 1)] = t
  <2>1. ASSUME NEW u \in 1..32 PROVE StateByte(G, u - 1) = OutByte(F, 0 + u - 1)
    <3> DEFINE p == 0 + u - 1
    <3>1. p = u - 1 /\ p \div 136 = 0 /\ p % 136 = p /\ 0 \in Nat
      OBVIOUS
    <3>2. Out(F, 0 + 1) = KeccakF(Out(F, 0)) /\ Out(F, 0) = F
      BY <3>1, OutIs, Zenon
    <3> HIDE DEF F, p
    <3>3. OutByte(F, p) = StateByte(Out(F, 0 + 1), p)
      BY <3>1, Zenon DEF OutByte
    <3>4. OutByte(F, p) = StateByte(G, u - 1)
      BY <3>1, <3>2, <3>3, Zenon
    <3> QED
      BY <3>4 DEF p
  <2> HIDE DEF G, F
  <2> QED
    BY <2>1 DEF Drawn
<1> HIDE DEF F
<1>13. x = [sc |-> [A |-> Zero, dptr |-> 0, rate |-> 136], out |-> t]
  <2> DEFINE body(A) == [sc |-> sha3_init(8 * 32), out |-> [u \in 1..32 |-> StateByte(A, u - 1)]]
  <2> DEFINE c == (200 - sc.rate) \div 2
             v == process_block(Pad(sc.A, sc.dptr, sc.rate, first))
             close(A) == [sc |-> sha3_init(8 * c), out |-> [u \in 1..c |-> StateByte(A, u - 1)]]
  <2>1. x = body(G)
    <3>1. x = With(v, LAMBDA A : close(A))
      BY Zenon DEF sha3_close
    <3>2. With(v, LAMBDA A : close(A)) = close(v)
      <4> HIDE DEF v, close
      <4> QED
        BY DEF With
    <3>3. c = 32
      BY <1>8
    <3>4. v = G
      BY <1>6, <1>8, <1>9, Zenon
    <3> HIDE DEF x, G, v, c
    <3>5. close(v) = body(G)
      BY <3>3, <3>4, Zenon
    <3> HIDE DEF close, body
    <3> QED
      BY <3>1, <3>2, <3>5, Zenon
  <2>3. sha3_init(8 * 32) = [A |-> Zero, dptr |-> 0, rate |-> 136]
    BY <1>10, <1>11, Zenon DEF sha3_init
  <2> QED
    BY <1>12, <2>1, <2>3, Zenon
<1>14. sc' = x.sc /\ got' = [kind |-> "sha3", len |-> inLen, from |-> 0, bytes |-> x.out, legacy |-> x.out]
  <2> HIDE DEF x
  <2> QED
    BY <1>1 DEF x
<1> HIDE DEF x, t
<1>15. sc' = [A |-> Zero, dptr |-> 0, rate |-> 136] /\ x.out = t
  BY <1>13, <1>14
<1>16. Context(Zero, 0)' /\ Taking(Zero, 0)'
  <2>1. i_shake256_init = [A |-> Zero, dptr |-> 0]
    BY DEF i_shake256_init, Zero
  <2>2. 0 % 136 = 0 /\ 0 \div 136 = 0
    OBVIOUS
  <2>3. Zero \in State
    BY DEF Zero, State, Lane
  <2>4. ASSUME NEW v \in Places PROVE ~(v < 0)
    BY DEF Places
  <2>5. Filled(Zero, 0, 0)
    BY <2>3, <2>4, AbsIs, Zenon DEF Filled
  <2>6. outLen' = 0 /\ 0 = inLen' % 136 /\ Filled(Zero, inLen' \div 136, 0)
    BY <1>2, <1>4, <2>2, <2>5, Zenon
  <2> QED
    BY <1>2, <1>15, <2>1, <2>6 DEF Context, Taking
<1>17. ContextInv'
  <2>1. asm' \in BOOLEAN /\ inLen' \in 0..MaxIn /\ outLen' \in Nat /\ phase' = "inject"
    BY <1>2, <1>4, ShakeAssumption DEF ContextInv
  <2>2. phase' \in {"inject", "extract"} /\ phase' # "extract"
    BY <2>1
  <2> QED
    BY <1>16, <2>1, <2>2 DEF ContextInv
<1>18. StreamIsSponge'
  <2>1. got' = [kind |-> "sha3", len |-> inLen, from |-> 0, bytes |-> t, legacy |-> t]
    BY <1>14, <1>15, Zenon
  <2>2. got'.kind = "sha3" /\ got'.len = inLen /\ got'.from = 0 /\ got'.bytes = t /\ got'.legacy = t
    BY <2>1
  <2>3. sc'.rate = 136
    BY <1>15
  <2>4. Sponge(Msg, inLen, Suffix("sha3"), 136, 0, Len(t)) = t
    <3>1. Suffix("sha3") = {1, 2}
      BY DEF Suffix
    <3> DEFINE L == inLen
               kind == "sha3"
               m == 32
    <3>2. kind \in {"shake", "sha3"} /\ L \in 0..MaxIn /\ 0 \in Nat /\ m \in Nat
      BY <1>4
    <3>3. t = Drawn(Final(L, Suffix(kind)), 0, m)
      BY <3>1, Zenon DEF t, F
    <3> HIDE DEF L, kind, m
    <3>4. Returns(kind, L, 0, m, t)
      BY <3>2, <3>3, Zenon DEF Returns
    <3>5. Sponge(Msg, L, Suffix(kind), 136, 0, Len(t)) = t
      BY <3>4, ReturnedIs, Zenon
    <3> QED
      BY <3>5, Zenon DEF L, kind
  <2> QED
    BY <2>2, <2>3, <2>4, Zenon DEF StreamIsSponge
<1> QED
  BY <1>17, <1>18

\* Whatever the calls, of whatever lengths, on whatever message: the bytes that
\* shake_extract() and sha3_close() return are the standard's, and the first
\* implementation's, with either permutation, are the same.
THEOREM StreamAlwaysSponge == Spec => []StreamIsSponge
<1> DEFINE Safe == ContextInv /\ StreamIsSponge
<1>1. Init => Safe
  BY ContextInit
<1>2. Safe /\ [Next]_vars => Safe'
  <2> SUFFICES ASSUME Safe, [Next]_vars PROVE Safe'
    OBVIOUS
  <2>1. CASE Inject
    BY <2>1, InjectStepInv
  <2>2. CASE Flip
    BY <2>2, FlipStepInv
  <2>3. CASE Extract
    BY <2>3, ExtractStepInv
  <2>4. CASE Close
    BY <2>4, CloseStepInv
  <2>5. CASE UNCHANGED vars
    <3>1. /\ asm' = asm /\ sc' = sc /\ lsc' = lsc /\ phase' = phase /\ inLen' = inLen
          /\ outLen' = outLen /\ got' = got
      BY <2>5 DEF vars
    <3>2. ContextInv'
      BY <3>1 DEF ContextInv, Context, Taking, Giving
    <3>3. StreamIsSponge'
      BY <3>1 DEF StreamIsSponge
    <3> QED
      BY <3>2, <3>3
  <2> QED
    BY <2>1, <2>2, <2>3, <2>4, <2>5 DEF Next
<1> QED
  BY <1>1, <1>2, PTL DEF Spec
=============================================================================
