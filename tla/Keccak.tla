------------------------------- MODULE Keccak -------------------------------
(***************************************************************************)
(* process_block() of fndsa_sha3.c, the Keccak permutation, on lanes of    *)
(* full width: a lane is the set of its bits that are 1.  The code keeps   *)
(* six lanes complemented, runs two rounds per iteration without moving    *)
(* the lanes that the standard's pi step moves, and undoes the displacement*)
(* at the end of the iteration.                                            *)
(***************************************************************************)
EXTENDS Integers, Once

CONSTANT Rounds      \* 24 in the code; even

ASSUME RoundsAssumption == Rounds \in 2..24 /\ Rounds % 2 = 0

Bits == 0..63
Lanes == 0..24
XorL(x, y) == (x \ y) \cup (y \ x)
NotL(x) == Bits \ x
Rotl(x, r) == {(b + r) % 64 : b \in x}

\* The round constants, as sets of bits.
RC == << {0}, {1, 7, 15}, {1, 3, 7, 15, 63}, {15, 31, 63}, {0, 1, 3, 7, 15}, {0, 31},
         {0, 7, 15, 31, 63}, {0, 3, 15, 63}, {1, 3, 7}, {3, 7}, {0, 3, 15, 31},
         {1, 3, 31}, {0, 1, 3, 7, 15, 31}, {0, 1, 3, 7, 63}, {0, 3, 7, 15, 63},
         {0, 1, 15, 63}, {1, 15, 63}, {7, 63}, {1, 3, 15}, {1, 3, 31, 63},
         {0, 7, 15, 31, 63}, {7, 15, 63}, {0, 31}, {3, 15, 31, 63} >>

\* The lanes of each column, for the first and for the second round.
ColA == << <<0, 5, 10, 15, 20>>, <<1, 6, 11, 16, 21>>, <<2, 7, 12, 17, 22>>,
           <<3, 8, 13, 18, 23>>, <<4, 9, 14, 19, 24>> >>
ColB == << <<0, 3, 1, 4, 2>>, <<6, 9, 7, 5, 8>>, <<12, 10, 13, 11, 14>>,
           <<18, 16, 19, 17, 15>>, <<24, 22, 20, 23, 21>> >>
Rot == << <<0, 36, 3, 41, 18>>, <<1, 44, 10, 45, 2>>, <<62, 6, 43, 15, 61>>,
          <<28, 55, 25, 21, 56>>, <<27, 20, 39, 8, 14>> >>

\* XOR into each lane the parities of the columns beside its own, then rotate it.
Parities(A, col) ==
    [x \in 1..5 |-> XorL(XorL(XorL(A[col[x][1]], A[col[x][2]]), XorL(A[col[x][3]], A[col[x][4]])),
                         A[col[x][5]])]
ThetaRho(A, col) ==
    With(Parities(A, col), LAMBDA par :
        With([x \in 1..5 |-> XorL(par[((x + 3) % 5) + 1], Rotl(par[(x % 5) + 1], 1))], LAMBDA t :
            [i \in Lanes |-> LET xy == CHOOSE xy \in (1..5) \X (1..5) : col[xy[1]][xy[2]] = i
                             IN  Rotl(XorL(A[i], t[xy[1]]), Rot[xy[1]][xy[2]])]))
ThetaRhoA(A) == ThetaRho(A, ColA)
ThetaRhoB(A) == ThetaRho(A, ColB)

\* The lanes of each row, for the first and for the second round.
RowA == << <<0, 6, 12, 18, 24>>, <<3, 9, 10, 16, 22>>, <<1, 7, 13, 19, 20>>,
           <<4, 5, 11, 17, 23>>, <<2, 8, 14, 15, 21>> >>
RowB == << <<0, 9, 13, 17, 21>>, <<18, 22, 1, 5, 14>>, <<6, 10, 19, 23, 2>>,
           <<24, 3, 7, 11, 15>>, <<12, 16, 20, 4, 8>> >>

\* The five rows mix alike up to the lanes that are complemented.
ChiRow1(x) == LET bnn == NotL(x[3]) IN
    << XorL(x[1], x[2] \cup x[3]), XorL(x[2], bnn \cup x[4]), XorL(x[3], x[4] \cap x[5]),
       XorL(x[4], x[5] \cup x[1]), XorL(x[5], x[1] \cap x[2]) >>
ChiRow2(x) == LET bnn == NotL(x[5]) IN
    << XorL(x[1], x[2] \cup x[3]), XorL(x[2], x[3] \cap x[4]), XorL(x[3], x[4] \cup bnn),
       XorL(x[4], x[5] \cup x[1]), XorL(x[5], x[1] \cap x[2]) >>
ChiRow3(x) == LET bnn == NotL(x[4]) IN
    << XorL(x[1], x[2] \cup x[3]), XorL(x[2], x[3] \cap x[4]), XorL(x[3], bnn \cap x[5]),
       XorL(bnn, x[5] \cup x[1]), XorL(x[5], x[1] \cap x[2]) >>
ChiRow4(x) == LET bnn == NotL(x[4]) IN
    << XorL(x[1], x[2] \cap x[3]), XorL(x[2], x[3] \cup x[4]), XorL(x[3], bnn \cup x[5]),
       XorL(bnn, x[5] \cap x[1]), XorL(x[5], x[1] \cup x[2]) >>
ChiRow5(x) == LET bnn == NotL(x[2]) IN
    << XorL(x[1], bnn \cap x[3]), XorL(bnn, x[3] \cup x[4]), XorL(x[3], x[4] \cap x[5]),
       XorL(x[4], x[5] \cup x[1]), XorL(x[5], x[1] \cap x[2]) >>

\* The new value of every lane, rows[y][x] being replaced by row y's entry x.
ChiRows(A, rows) ==
    LET row(y) == [x \in 1..5 |-> A[rows[y][x]]]
    IN  With(<<ChiRow1(row(1)), ChiRow2(row(2)), ChiRow3(row(3)), ChiRow4(row(4)), ChiRow5(row(5))>>,
             LAMBDA c : [i \in Lanes |->
                 LET yx == CHOOSE yx \in (1..5) \X (1..5) : rows[yx[1]][yx[2]] = i
                 IN  c[yx[1]][yx[2]]])
Iota(A, j) == [A EXCEPT ![0] = XorL(@, RC[j + 1])]
ChiA(A, j) == Iota(ChiRows(A, RowA), j)
ChiB(A, j) == Iota(ChiRows(A, RowB), j + 1)

\* The assignments that bring the lanes back to their places, as two cycles:
\* every lane takes the next one's value.
Cycles == << <<5, 18, 11, 10, 6, 22, 20, 12, 19, 15, 24, 8>>,
             <<1, 9, 14, 2, 13, 23, 4, 21, 16, 3, 17, 7>> >>
Shuffle(A) ==
    [i \in Lanes |-> IF i = 0 THEN A[0]
                     ELSE LET ck == CHOOSE ck \in (1..2) \X (1..12) : Cycles[ck[1]][ck[2]] = i
                          IN  A[Cycles[ck[1]][(ck[2] % 12) + 1]]]

Invert(A) == [i \in Lanes |-> IF i \in {1, 2, 8, 12, 17, 20} THEN NotL(A[i]) ELSE A[i]]

TwoRounds(A, j) ==
    With(ThetaRhoA(A), LAMBDA a1 : With(ChiA(a1, j), LAMBDA a2 :
        With(ThetaRhoB(a2), LAMBDA a3 : With(ChiB(a3, j), Shuffle))))
process_block(A) ==
    LET after[k \in 0..(Rounds \div 2)] ==
            IF k = 0 THEN With(A, Invert)
            ELSE With(after[k - 1], LAMBDA a : TwoRounds(a, 2 * (k - 1)))
    IN  With(after[Rounds \div 2], Invert)

-----------------------------------------------------------------------------
\* The permutation of FIPS 202, lane (x, y) at x + 5*y.
At(A, x, y) == A[(x % 5) + 5 * (y % 5)]
OnLanes(f(_, _)) == [i \in Lanes |-> f(i % 5, i \div 5)]

ColumnParity(A) ==
    LET has(b, x, y) == IF b \in At(A, x, y) THEN 1 ELSE 0
    IN  [x \in 0..4 |-> {b \in Bits : has(b, x, 0) + has(b, x, 1) + has(b, x, 2)
                                      + has(b, x, 3) + has(b, x, 4) \in {1, 3, 5}}]
Theta(A) ==
    With(ColumnParity(A), LAMBDA C :
        OnLanes(LAMBDA x, y : XorL(At(A, x, y), XorL(C[(x + 4) % 5], Rotl(C[(x + 1) % 5], 1)))))

\* rho: (1, 0) is step 0, step t rotates by (t + 1)(t + 2)/2 and is followed by
\* (y, 2x + 3y).
Offset(x, y) ==
    LET pos[t \in 0..23] == IF t = 0 THEN <<1, 0>>
                            ELSE With(pos[t - 1], LAMBDA p : <<p[2], (2 * p[1] + 3 * p[2]) % 5>>)
        t == CHOOSE t \in 0..23 : pos[t] = <<x, y>>
    IN  IF x = 0 /\ y = 0 THEN 0 ELSE (((t + 1) * (t + 2)) \div 2) % 64
Offsets == [x \in 0..4 |-> [y \in 0..4 |-> Offset(x, y)]]
RhoPi(A) == OnLanes(LAMBDA x, y : Rotl(At(A, x + 3 * y, x), Offsets[(x + 3 * y) % 5][x]))
Chi(A) == OnLanes(LAMBDA x, y : XorL(At(A, x, y), At(A, x + 2, y) \ At(A, x + 1, y)))

\* The round constants are those of the standard.
KeccakF(A) ==
    LET a[r \in 0..Rounds] ==
            IF r = 0 THEN A
            ELSE With(a[r - 1], LAMBDA a1 : With(Theta(a1), LAMBDA a2 : With(RhoPi(a2),
                     LAMBDA a3 : [Chi(a3) EXCEPT ![0] = XorL(@, RC[r])])))
    IN  With(a[Rounds], LAMBDA x : x)
=============================================================================
