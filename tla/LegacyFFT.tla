----------------------------- MODULE LegacyFFT -----------------------------
(***************************************************************************)
(* fft.c of the legacy core: the same FFT slots as fndsa_sign_fpoly.c, but *)
(* every polynomial takes n slots, the transforms are the classical ones,  *)
(* and the roots come from one table.                                      *)
(***************************************************************************)
EXTENDS Fpc

HN(logn) == 2 ^ (logn - 1)
QN(logn) == 2 ^ (logn - 2)

\* fpr_gm_tab: exp(i*pi*rev(k)/NMax) (the table in fpr.c).
fpr_gm_tab(k) == Exp(Rev(LogMax, k))

\* One iteration of the main loop of FFT, on hn complex slots; its first iteration
\* is the reading of the array as complex numbers.
FftStage(c, logn, u) ==
    LET m  == 2 ^ u
        t  == HN(logn) \div 2 ^ (u - 1)
        ht == t \div 2
        s(k) == fpr_gm_tab(m + (k \div t))
    IN  [k \in DOMAIN c |-> IF k % t < ht THEN FPC_ADD(c[k], FPC_MUL(c[k + ht], s(k)))
                                          ELSE FPC_SUB(c[k - ht], FPC_MUL(c[k], s(k)))]

Complex(f, logn) == [u \in 0..(HN(logn) - 1) |-> At(f, u, HN(logn))]

FFT(f, logn) ==
    LET after[u \in 0..(logn - 1)] == IF u = 0 THEN Complex(f, logn) ELSE FftStage(after[u - 1], logn, u)
    IN  Pack(HN(logn), after[logn - 1])

\* Iteration with m = 2^u, downwards; the last one is left out and the factor is 2/n.
IfftStage(c, logn, u) ==
    LET hm == 2 ^ (u - 1)
        t  == 2 ^ (logn - u)
        s(k) == Conj(fpr_gm_tab(hm + (k \div (2 * t))))
    IN  [k \in DOMAIN c |-> IF k % (2 * t) < t THEN FPC_ADD(c[k], c[k + t])
                                               ELSE FPC_MUL(FPC_SUB(c[k - t], c[k]), s(k))]

\* Mutant: the values are divided by n.
iFFTByN(f, logn) ==
    LET after[u \in 2..(logn + 1)] ==
            IF u = logn + 1 THEN Complex(f, logn) ELSE IfftStage(after[u + 1], logn, u)
        ni == fpr_inv(2 ^ logn)
    IN  IF logn = 0 THEN f
        ELSE Pack(HN(logn), [k \in 0..(HN(logn) - 1) |-> Scale(ni, after[2][k])])

iFFT(f, logn) ==
    LET after[u \in 2..(logn + 1)] ==
            IF u = logn + 1 THEN Complex(f, logn) ELSE IfftStage(after[u + 1], logn, u)
        ni == fpr_inv(2 ^ (logn - 1))
    IN  IF logn = 0 THEN f
        ELSE Pack(HN(logn), [k \in 0..(HN(logn) - 1) |-> Scale(ni, after[2][k])])

poly_add(a, b) == Eager([u \in DOMAIN a |-> fpr_add(a[u], b[u])])
poly_sub(a, b) == Eager([u \in DOMAIN a |-> fpr_sub(a[u], b[u])])
poly_neg(a) == Eager([u \in DOMAIN a |-> fpr_neg(a[u])])
poly_mulconst(a, x) == Eager([u \in DOMAIN a |-> fpr_mul(a[u], x)])

\* A slot-wise operation on the complex values of f.
Slotwise(logn, Op(_)) == Pack(HN(logn), [u \in 0..(HN(logn) - 1) |-> Op(u)])

poly_adj_fft(a, logn) == Slotwise(logn, LAMBDA u : Conj(At(a, u, HN(logn))))

poly_mul_fft(a, b, logn) ==
    Slotwise(logn, LAMBDA u : FPC_MUL(At(a, u, HN(logn)), At(b, u, HN(logn))))

poly_muladj_fft(a, b, logn) ==
    Slotwise(logn, LAMBDA u : FPC_MUL(At(a, u, HN(logn)), Conj(At(b, u, HN(logn)))))

Norm(a) == fpr_add(fpr_sqr(a[1]), fpr_sqr(a[2]))

poly_mulselfadj_fft(a, logn) == Slotwise(logn, LAMBDA u : <<Norm(At(a, u, HN(logn))), 0>>)

poly_div_fft(a, b, logn) ==
    Slotwise(logn, LAMBDA u : FPC_DIV(At(a, u, HN(logn)), At(b, u, HN(logn))))

\* Only n/2 slots are written.
poly_invnorm2_fft(a, b, logn) ==
    [u \in 0..(HN(logn) - 1) |->
        fpr_inv(fpr_add(Norm(At(a, u, HN(logn))), Norm(At(b, u, HN(logn)))))]

poly_add_muladj_fft(F, G, f, g, logn) ==
    Slotwise(logn, LAMBDA u :
        FPC_ADD(FPC_MUL(At(F, u, HN(logn)), Conj(At(f, u, HN(logn)))),
                FPC_MUL(At(G, u, HN(logn)), Conj(At(g, u, HN(logn))))))

\* b is self-adjoint: its n/2 real slots.
poly_mul_autoadj_fft(a, b, logn) == [u \in DOMAIN a |-> fpr_mul(a[u], b[u % HN(logn)])]
poly_div_autoadj_fft(a, b, logn) == [u \in DOMAIN a |-> fpr_mul(a[u], fpr_inv(b[u % HN(logn)]))]

\* LDL decomposition of the Gram matrix: l10 = adj(g01)/g00, d11 = g11 - g01*adj(g01)/g00.
LdlSlot(g00, g01, g11) ==
    LET mu == FPC_DIV(g01, g00)
    IN  [l10 |-> Conj(mu), d11 |-> FPC_SUB(g11, FPC_MUL(mu, Conj(g01)))]

\* In place: g01 becomes l10 and g11 becomes d11.
poly_LDL_fft(g00, g01, g11, logn) ==
    LET slot(u) == LdlSlot(At(g00, u, HN(logn)), At(g01, u, HN(logn)), At(g11, u, HN(logn)))
    IN  [g01 |-> Slotwise(logn, LAMBDA u : slot(u).l10),
         g11 |-> Slotwise(logn, LAMBDA u : slot(u).d11)]

\* The same with separate outputs.
poly_LDLmv_fft(g00, g01, g11, logn) ==
    LET slot(u) == LdlSlot(At(g00, u, HN(logn)), At(g01, u, HN(logn)), At(g11, u, HN(logn)))
    IN  [d11 |-> Slotwise(logn, LAMBDA u : slot(u).d11),
         l10 |-> Slotwise(logn, LAMBDA u : slot(u).l10)]

poly_split_fft(f, logn) ==
    LET hn == HN(logn)
        qn == QN(logn)
        a(u) == At(f, 2 * u, hn)
        b(u) == At(f, 2 * u + 1, hn)
    IN  IF logn = 1 THEN [f0 |-> [k \in {0} |-> f[0]], f1 |-> [k \in {0} |-> f[1]]]
        ELSE [f0 |-> Pack(qn, [u \in 0..(qn - 1) |-> Half(FPC_ADD(a(u), b(u)))]),
              f1 |-> Pack(qn, [u \in 0..(qn - 1) |->
                        Half(FPC_MUL(FPC_SUB(a(u), b(u)), Conj(fpr_gm_tab(u + hn))))])]

poly_merge_fft(f0, f1, logn) ==
    LET hn == HN(logn)
        qn == QN(logn)
        b(u) == FPC_MUL(At(f1, u, qn), fpr_gm_tab(u + hn))
    IN  IF logn = 1 THEN [k \in 0..1 |-> IF k = 0 THEN f0[0] ELSE f1[0]]
        ELSE Slotwise(logn, LAMBDA k :
                IF k % 2 = 0 THEN FPC_ADD(At(f0, k \div 2, qn), b(k \div 2))
                             ELSE FPC_SUB(At(f0, k \div 2, qn), b(k \div 2)))
=============================================================================
