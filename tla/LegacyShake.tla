----------------------------- MODULE LegacyShake -----------------------------
(***************************************************************************)
(* shake.c of the first implementation: SHAKE256 only, on either of two    *)
(* permutations chosen when it is compiled.  The portable one is, statement*)
(* by statement, that of fndsa_sha3.c; the Cortex-M4 one does one round    *)
(* per iteration, through a copy of the state on the stack.                *)
(***************************************************************************)
EXTENDS Shake

LegacyRoundA(A, j) == With(ThetaRhoA(A), LAMBDA a : ChiA(a, j))
LegacyRoundB(A, j) == With(ThetaRhoB(A), LAMBDA a : ChiB(a, j))
LegacyShuffle(A) == Shuffle(A)
portable_process_block(A) ==
    LET after[k \in 0..(Rounds \div 2)] ==
            IF k = 0 THEN With(A, Invert)
            ELSE With(after[k - 1], LAMBDA a : With(LegacyRoundA(a, 2 * (k - 1)), LAMBDA b :
                     With(LegacyRoundB(b, 2 * (k - 1)), LegacyShuffle)))
    IN  With(after[Rounds \div 2], Invert)

\* The words t0..t4 of the assembly.
M4Theta(A) ==
    With(Parities(A, ColA), LAMBDA par :
        [x \in 0..4 |-> XorL(par[((x + 4) % 5) + 1], Rotl(par[((x + 1) % 5) + 1], 1))])

\* Lane i, mixed and rotated, as stored on the stack.
M4Word(A, t, i) == Rotl(XorL(A[i], t[i % 5]), Rot[(i % 5) + 1][(i \div 5) + 1])
\* The stack is written two columns at a time, then the last column.
M4Store01(A, t) == [s \in 0..9 |-> M4Word(A, t, 5 * (s \div 2) + (s % 2))]
M4Store23(A, t) == [s \in 10..19 |-> M4Word(A, t, 5 * ((s - 10) \div 2) + 2 + (s % 2))]
M4Store4(A, t) == [s \in 20..24 |-> M4Word(A, t, 5 * (s - 20) + 4)]
M4Stack(A, t) ==
    [s \in Lanes |-> IF s < 10 THEN M4Store01(A, t)[s]
                     ELSE IF s < 20 THEN M4Store23(A, t)[s] ELSE M4Store4(A, t)[s]]

\* KHI_LOAD's slots; row y is stored in A[5*(y-1)..].
KHI_LOAD == << <<0, 3, 14, 17, 24>>, <<11, 21, 4, 7, 18>>, <<1, 12, 15, 23, 8>>,
               <<20, 2, 5, 16, 19>>, <<10, 13, 22, 6, 9>> >>
KHI_STEPS(st) ==
    LET row(y) == [x \in 1..5 |-> st[KHI_LOAD[y][x]]]
    IN  With(<<ChiRow1(row(1)), ChiRow2(row(2)), ChiRow3(row(3)), ChiRow4(row(4)), ChiRow5(row(5))>>,
             LAMBDA c : [i \in Lanes |-> c[(i \div 5) + 1][(i % 5) + 1]])
M4Round(A, j) ==
    With(M4Theta(A), LAMBDA t : With(M4Stack(A, t), LAMBDA st : Iota(KHI_STEPS(st), j)))
INVERT_WORDS(A) == [i \in Lanes |-> IF i \in {1, 2, 8, 12, 17, 20} THEN NotL(A[i]) ELSE A[i]]
m4_process_block(A) ==
    LET after[j \in 0..Rounds] ==
            IF j = 0 THEN With(A, INVERT_WORDS)
            ELSE With(after[j - 1], LAMBDA a : M4Round(a, j - 1))
    IN  With(after[Rounds], INVERT_WORDS)

-----------------------------------------------------------------------------
\* The contexts, [A, dptr]; asm is FALCON_ASM_CORTEXM4.
legacy_process_block(asm, A) == IF asm THEN m4_process_block(A) ELSE portable_process_block(A)

i_shake256_init == [A |-> [i \in Lanes |-> {}], dptr |-> 0]

LegacyInjectStep(asm, s, in, len) ==
    LET clen == Least(136 - s.dptr, len - s.pos)
        A == XorBytes(s.A, s.dptr, in, s.pos, clen)
    IN  IF len = s.pos THEN s
        ELSE IF s.dptr + clen = 136
        THEN [A |-> legacy_process_block(asm, A), dptr |-> 0, pos |-> s.pos + clen]
        ELSE [A |-> A, dptr |-> s.dptr + clen, pos |-> s.pos + clen]
i_shake256_inject(asm, sc, in, len) ==
    LET s[k \in 0..(len \div 136 + 2)] ==
            IF k = 0 THEN [A |-> sc.A, dptr |-> sc.dptr, pos |-> 0]
            ELSE With(s[k - 1], LAMBDA p : LegacyInjectStep(asm, p, in, len))
    IN  With(s[len \div 136 + 2], LAMBDA e : [A |-> e.A, dptr |-> e.dptr])

i_shake256_flip(sc) == [A |-> XorByte(XorByte(sc.A, sc.dptr, {0, 1, 2, 3, 4}), 135, {7}), dptr |-> 136]

LegacyExtractStep(asm, s) ==
    IF s.left = 0 THEN s
    ELSE With(IF s.dptr = 136 THEN [s EXCEPT !.A = legacy_process_block(asm, @), !.dptr = 0] ELSE s,
              LAMBDA t :
                LET clen == Least(136 - t.dptr, t.left)
                IN  [t EXCEPT !.dptr = @ + clen, !.left = @ - clen,
                              !.out = @ \o [u \in 1..clen |-> StateByte(t.A, t.dptr + u - 1)]])
i_shake256_extract(asm, sc, len) ==
    LET s[k \in 0..(len \div 136 + 2)] ==
            IF k = 0 THEN [A |-> sc.A, dptr |-> sc.dptr, left |-> len, out |-> <<>>]
            ELSE With(s[k - 1], LAMBDA p : LegacyExtractStep(asm, p))
    IN  With(s[len \div 136 + 2], LAMBDA e : [sc |-> [A |-> e.A, dptr |-> e.dptr], out |-> e.out])
=============================================================================
