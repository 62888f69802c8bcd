------------------------------ MODULE KgenVect ------------------------------
(***************************************************************************)
(* The vectors of fndsa_kgen_fxp.c that the NTRU solver reduces with: FFT, *)
(* inverse FFT and slot-wise operations, in the portable and the AVX2      *)
(* builds.  The AVX2 transforms run the last (first) two stages on eight   *)
(* values held in two registers of four lanes, with the lanes permuted     *)
(* between the stages; those permutations are modelled.                    *)
(***************************************************************************)
EXTENDS Fpc

H(logn) == 2 ^ (logn - 1)

\* GM_TAB[k] is the power of the primitive root in FFT order.
GM_TAB(k) == Exp(Rev(LogMax, k))

VectComplex(logn, f) == [u \in 0..(H(logn) - 1) |-> At(f, u, H(logn))]

VectFftStage(logn, c, lm) ==
    LET t  == 2 ^ (logn - lm)
        ht == t \div 2
        s(k) == GM_TAB(2 ^ lm + (k \div t))
    IN  [k \in DOMAIN c |-> IF k % t < ht THEN FPC_ADD(c[k], FPC_MUL(s(k), c[k + ht]))
                                          ELSE FPC_SUB(c[k - ht], FPC_MUL(s(k), c[k]))]

VectStages(logn, c, last) ==
    LET after[lm \in 0..last] == IF lm = 0 THEN c ELSE VectFftStage(logn, after[lm - 1], lm)
    IN  after[last]

vect_FFT(logn, f) == Pack(H(logn), VectStages(logn, VectComplex(logn, f), logn - 1))

VectIfftStage(logn, c, lm) ==
    LET ht == 2 ^ (logn - 1 - lm)
        t  == 2 * ht
        s(k) == Conj(GM_TAB(2 ^ lm + (k \div t)))
    IN  [k \in DOMAIN c |-> IF k % t < ht THEN Half(FPC_ADD(c[k], c[k + ht]))
                                          ELSE FPC_MUL(s(k), Half(FPC_SUB(c[k - ht], c[k])))]

\* Stages from first down to 1.
VectInverseStages(logn, c, first) ==
    LET after[lm \in 1..(first + 1)] == IF lm = first + 1 THEN c ELSE VectIfftStage(logn, after[lm + 1], lm)
    IN  after[1]

vect_iFFT(logn, f) == Pack(H(logn), VectInverseStages(logn, VectComplex(logn, f), logn - 1))

-----------------------------------------------------------------------------
(* Registers of four lanes, numbered 1 to 4. *)

Lanes == 1..4
Add4(x, y) == [l \in Lanes |-> FPC_ADD(x[l], y[l])]
Sub4(x, y) == [l \in Lanes |-> FPC_SUB(x[l], y[l])]
Mul4(x, y) == [l \in Lanes |-> FPC_MUL(x[l], y[l])]
Half4(x) == [l \in Lanes |-> Half(x[l])]
LowHalves(x, y) == <<x[1], x[2], y[1], y[2]>>      \* permute2x128, 0x20
HighHalves(x, y) == <<x[3], x[4], y[3], y[4]>>     \* permute2x128, 0x31
UnpackLo(x, y) == <<x[1], y[1], x[3], y[3]>>       \* unpacklo_epi64
UnpackHi(x, y) == <<x[2], y[2], x[4], y[4]>>       \* unpackhi_epi64
SwapMiddle(x) == <<x[1], x[3], x[2], x[4]>>        \* permute4x64, 0xD8

\* Two forward stages on the values v0 (0..3) and v1 (4..7).
fxp_FFT4(v0, v1, k) ==
    LET g0 == <<GM_TAB(k), GM_TAB(k), GM_TAB(k + 1), GM_TAB(k + 1)>>
        a0 == LowHalves(v0, v1)
        a1 == Mul4(HighHalves(v0, v1), g0)
        b0 == Add4(a0, a1)
        b1 == Sub4(a0, a1)
        g1 == [l \in Lanes |-> GM_TAB(2 * k + l - 1)]
        c0 == UnpackLo(b0, b1)
        c1 == Mul4(UnpackHi(b0, b1), g1)
        d0 == Add4(c0, c1)
        d1 == Sub4(c0, c1)
        e0 == UnpackLo(d0, d1)
        e1 == UnpackHi(d0, d1)
    IN  <<LowHalves(e0, e1), HighHalves(e0, e1)>>

\* Mutant: the roots of the first inverse stage are taken in index order.
InverseFFT4InOrder(v0, v1, k) ==
    LET g1 == [l \in Lanes |-> Conj(GM_TAB(2 * k + l - 1))]
        a0 == UnpackLo(v0, v1)
        a1 == UnpackHi(v0, v1)
        b0 == Half4(Add4(a0, a1))
        b1 == Mul4(Half4(Sub4(a0, a1)), g1)
        g0 == <<Conj(GM_TAB(k)), Conj(GM_TAB(k + 1)), Conj(GM_TAB(k)), Conj(GM_TAB(k + 1))>>
        c0 == LowHalves(b0, b1)
        c1 == HighHalves(b0, b1)
        d0 == Half4(Add4(c0, c1))
        d1 == Mul4(Half4(Sub4(c0, c1)), g0)
    IN  <<SwapMiddle(UnpackLo(d0, d1)), SwapMiddle(UnpackHi(d0, d1))>>

fxp_iFFT4(v0, v1, k) ==
    LET g1 == <<Conj(GM_TAB(2 * k)), Conj(GM_TAB(2 * k + 2)),
                Conj(GM_TAB(2 * k + 1)), Conj(GM_TAB(2 * k + 3))>>
        a0 == UnpackLo(v0, v1)
        a1 == UnpackHi(v0, v1)
        b0 == Half4(Add4(a0, a1))
        b1 == Mul4(Half4(Sub4(a0, a1)), g1)
        g0 == <<Conj(GM_TAB(k)), Conj(GM_TAB(k + 1)), Conj(GM_TAB(k)), Conj(GM_TAB(k + 1))>>
        c0 == LowHalves(b0, b1)
        c1 == HighHalves(b0, b1)
        d0 == Half4(Add4(c0, c1))
        d1 == Mul4(Half4(Sub4(c0, c1)), g0)
    IN  <<SwapMiddle(UnpackLo(d0, d1)), SwapMiddle(UnpackHi(d0, d1))>>

\* Values 8g .. 8g+7 of c as two registers.
Load4(c, g, r) == [l \in Lanes |-> c[8 * g + 4 * r + l - 1]]

\* From n = 16 on, the last two stages run by groups of eight.
avx2_vect_FFT(logn, f) ==
    LET c  == VectComplex(logn, f)
        c1 == VectStages(logn, c, logn - 3)
        m  == H(logn) \div 2
        after == [g \in 0..(H(logn) \div 8 - 1) |-> fxp_FFT4(Load4(c1, g, 0), Load4(c1, g, 1), m + 2 * g)]
    IN  IF logn < 4 THEN vect_FFT(logn, f)
        ELSE Pack(H(logn), [k \in DOMAIN c |-> after[k \div 8][((k % 8) \div 4) + 1][(k % 4) + 1]])

avx2_vect_iFFT(logn, f) ==
    LET c  == VectComplex(logn, f)
        m  == H(logn) \div 2
        after == [g \in 0..(H(logn) \div 8 - 1) |-> fxp_iFFT4(Load4(c, g, 0), Load4(c, g, 1), m + 2 * g)]
        c1 == [k \in DOMAIN c |-> after[k \div 8][((k % 8) \div 4) + 1][(k % 4) + 1]]
    IN  IF logn < 4 THEN vect_iFFT(logn, f)
        ELSE Pack(H(logn), VectInverseStages(logn, c1, logn - 3))

-----------------------------------------------------------------------------
(* Slot-wise operations; the AVX2 versions take four slots at a time.       *)

vect_set(f) == [i \in DOMAIN f |-> fpr_of32(f[i])]
vect_add(a, b) == [i \in DOMAIN a |-> fpr_add(a[i], b[i])]
vect_mul_realconst(a, c) == [i \in DOMAIN a |-> fpr_mul(a[i], c)]
vect_mul2e(a, e) == [i \in DOMAIN a |-> fpr_mul(a[i], fpr_of32(2 ^ e))]

vect_mul_fft(logn, a, b) ==
    Pack(H(logn), [i \in 0..(H(logn) - 1) |-> FPC_MUL(At(a, i, H(logn)), At(b, i, H(logn)))])

\* Mutant: the loop starts one slot late.
AdjSkipsFirst(logn, a) == [i \in DOMAIN a |-> IF i > H(logn) THEN fpr_neg(a[i]) ELSE a[i]]

vect_adj_fft(logn, a) == [i \in DOMAIN a |-> IF i >= H(logn) THEN fpr_neg(a[i]) ELSE a[i]]

vect_mul_selfadj_fft(logn, a, b) == [i \in DOMAIN a |-> fpr_mul(a[i], b[i % H(logn)])]
vect_div_selfadj_fft(logn, a, b) == [i \in DOMAIN a |-> fpr_div(a[i], b[i % H(logn)])]

SlotNorm(a, i, hn) == fpr_add(fpr_sqr(a[i]), fpr_sqr(a[i + hn]))

vect_norm_fft(logn, a, b) ==
    [i \in 0..(H(logn) - 1) |-> fpr_add(SlotNorm(a, i, H(logn)), SlotNorm(b, i, H(logn)))]

vect_invnorm_fft(logn, a, b, e) ==
    [i \in 0..(H(logn) - 1) |-> fpr_div(fpr_of32(2 ^ e),
        fpr_add(SlotNorm(a, i, H(logn)), SlotNorm(b, i, H(logn))))]

vect_inv_mul2e_fft(logn, a, e) ==
    LET z(i) == SlotNorm(a, i, H(logn))
    IN  Pack(H(logn), [i \in 0..(H(logn) - 1) |->
            << fpr_div(fpr_mul(a[i], fpr_of32(2 ^ e)), z(i)),
               fpr_div(fpr_mul(fpr_neg(a[i + H(logn)]), fpr_of32(2 ^ e)), z(i)) >>])
=============================================================================
