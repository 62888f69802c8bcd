------------------------------- MODULE Fpoly -------------------------------
(***************************************************************************)
(* fndsa_sign_fpoly.c: polynomials modulo X^n + 1 in FFT representation.   *)
(* A self-adjoint polynomial has real FFT values and takes n/2 slots.  The *)
(* forward transforms work in place over 32-bit words (a real number takes *)
(* two), so memory is modelled there; the other functions read one slot    *)
(* pair and write it, or write to a separate array.  The SSE2, NEON, RV64D *)
(* and portable versions of a function compute the same slots.             *)
(***************************************************************************)
EXTENDS Fpc

\* Degrees of FFT slots.
HalfN(logn) == 2 ^ (logn - 1)
QuarterN(logn) == 2 ^ (logn - 2)

\* The constant tables, from the formulas their comments give.
fpoly_SIN(k) == Sin(Rev(LogMax - 1, k))

RNJ(k, logn) == fpr_inv(fpr_add(Cos(RootExp(logn, 2 * (k - QuarterN(logn)))),
                                Cos(RootExp(logn, 2 * (k - QuarterN(logn))))))

IRNJ(k, logn) == Cos(RootExp(logn, 2 * (k - QuarterN(logn))))

X_PLUS_1_SQUARED_OVER_X(k, logn) == fpr_add(2, fpr_mul(2, Cos(RootExp(logn, k - HalfN(logn)))))

X_MINUS_1_OVER_X_PLUS_1_TIMES_I(k, logn) ==
    LET e == RootExp(logn, k - HalfN(logn))
    IN  fpr_div(fpr_neg(Sin(e)), fpr_add(1, Cos(e)))

-----------------------------------------------------------------------------
(* Word memory: word w of the area of d; the real d[j] is words 2j, 2j+1.  *)

Hi == 0   \* what the second word of a stored real shows when read as an integer

StoreReal(mem, j, v) == [mem EXCEPT ![2 * j] = v, ![2 * j + 1] = Hi]
LoadReals(mem, base, len) == [j \in 0..(len - 1) |-> mem[2 * (base + j)]]

\* memmove of len words.
MoveWords(mem, dst, src, len) ==
    [w \in DOMAIN mem |-> IF w \in dst..(dst + len - 1) THEN mem[src + w - dst] ELSE mem[w]]

\* First pass: even/odd splits, the odd half multiplied by X + 1, from k = 1 up.
SplitPass(aa, lk) ==
    LET k  == 2 ^ lk
        dk == 2 * k
    IN  [x \in DOMAIN aa |->
            IF x % dk < k THEN aa[x]
            ELSE IF x < dk THEN 2 * aa[x] ELSE aa[x] + aa[x - dk]]

SplitPasses(logn, aa) ==
    LET after[lk \in 0..(logn - 2)] == IF lk = 0 THEN aa ELSE SplitPass(after[lk - 1], lk - 1)
    IN  after[logn - 2]

\* Mutant: the entries are converted downwards.
ConvertWordsDown(mem, base, aw, hn) ==
    LET after[j \in 0..hn] ==
            IF j = 0 THEN mem
            ELSE StoreReal(after[j - 1], base + hn - j, fpr_of32(after[j - 1][aw + hn - j]))
    IN  after[hn]

\* Conversion to reals over the integers, upwards: d[j] covers words that hold aa
\* entries with index at most j.
ConvertWords(mem, base, aw, hn) ==
    LET after[j \in 0..hn] ==
            IF j = 0 THEN mem
            ELSE StoreReal(after[j - 1], base + j - 1, fpr_of32(after[j - 1][aw + j - 1]))
    IN  after[hn]

\* Second and third passes: merge back, first with sqrt(2), then with RNJ.
MergePass(logn, d, lm) ==
    LET lk == logn - 2 - lm
        k  == 2 ^ lk
        r(x) == IF lm = 0 THEN fpr_add(Cos(NMax \div 4), Cos(NMax \div 4))
                ELSE RNJ(2 ^ lm + (x \div (2 * k)), lm + 2)
    IN  [x \in DOMAIN d |->
            IF x % (2 * k) < k THEN fpr_add(d[x], fpr_mul(d[x + k], r(x)))
                               ELSE fpr_sub(d[x - k], fpr_mul(d[x], r(x)))]

MergePasses(logn, d) ==
    LET after[lm \in 0..(logn - 1)] ==
            IF lm = 0 THEN d ELSE MergePass(logn, after[lm - 1], lm - 1)
    IN  after[logn - 1]

\* d at real index base, the hn integers a at word index aw; returns the memory.
fpoly_FFT_int32_selfadj(logn, mem, base, aw) ==
    LET hn   == HalfN(logn)
        top  == 2 * (base + hn) - hn
        m1   == MoveWords(mem, top, aw, hn)
        aa   == SplitPasses(logn, [x \in 0..(hn - 1) |-> m1[top + x]])
        m2   == [w \in DOMAIN m1 |-> IF w \in top..(top + hn - 1) THEN aa[w - top] ELSE m1[w]]
        m3   == ConvertWords(m2, base, top, hn)
        d    == MergePasses(logn, LoadReals(m3, base, hn))
    IN  IF logn = 1 THEN StoreReal(mem, base, fpr_of32(mem[aw]))
        ELSE [w \in DOMAIN m3 |->
                IF w \in (2 * base)..(2 * (base + hn) - 1) /\ w % 2 = 0
                THEN d[(w - 2 * base) \div 2] ELSE m3[w]]

\* Sixteen-bit integers at the end of the area become 32-bit ones over themselves, from
\* the first on; halfword h of the area of hn reals, the value in the low halfword.
WidenHalves(halves, hn) ==
    LET after[i \in 0..hn] ==
            IF i = 0 THEN halves
            ELSE [after[i - 1] EXCEPT ![2 * hn + 2 * (i - 1)] = after[i - 1][3 * hn + i - 1],
                                      ![2 * hn + 2 * (i - 1) + 1] = Hi]
    IN  after[hn]

\* halves is the area of d as halfwords; the source starts at halfword ah.
fpoly_FFT_int16_selfadj(logn, halves, ah) ==
    LET hn == HalfN(logn)
        h1 == IF logn = 1 THEN [halves EXCEPT ![0] = halves[ah]]
              ELSE WidenHalves(MoveWords(halves, 3 * hn, ah, hn), hn)
    IN  fpoly_FFT_int32_selfadj(logn, [w \in 0..(2 * hn - 1) |-> h1[2 * w]], 0, IF logn = 1 THEN 0 ELSE hn)

\* c = (a + b*X^(n/2))/2 with a = c + adj(c) and b = (adj(c) - c)*X^(n/2), transformed
\* apart.  The n integers are moved to the upper half of the area; a is built below
\* them, b over their second half.  d is the result.
fpoly_FFT_int32(logn, mem, aw) ==
    LET n   == 2 ^ logn
        hn  == n \div 2
        m1  == MoveWords(mem, n, aw, n)
        cc(m, j) == m[n + j]
        m2  == [w \in DOMAIN m1 |->
                    IF w \notin hn..(n - 1) THEN m1[w]
                    ELSE IF w = hn THEN 2 * cc(m1, 0) ELSE cc(m1, w - hn) - cc(m1, n - (w - hn))]
        m3  == fpoly_FFT_int32_selfadj(logn, m2, 0, hn)
        m4  == [w \in DOMAIN m3 |->
                    IF w < n + hn THEN m3[w]
                    ELSE IF w = n + hn THEN 2 * m3[w] ELSE m3[w] + cc(m3, hn - (w - n - hn))]
        m5  == fpoly_FFT_int32_selfadj(logn, m4, hn, n + hn)
    IN  [j \in 0..(n - 1) |-> fpr_half(m5[2 * j])]

-----------------------------------------------------------------------------

fpoly_add(a, b) == [i \in DOMAIN a |-> fpr_add(a[i], b[i])]
fpoly_sub(a, b) == [i \in DOMAIN a |-> fpr_sub(a[i], b[i])]

fpoly_mul_fft(logn, a, b) ==
    LET hn == HalfN(logn)
    IN  Pack(hn, [i \in 0..(hn - 1) |-> FPC_MUL(At(a, i, hn), At(b, i, hn))])

\* a and the result are self-adjoint.
fpoly_invmul_selfadj_fft(a, x) == [i \in DOMAIN a |-> fpr_div(x, a[i])]

fpoly_div_selfadj_fft(logn, a, b) ==
    LET hn == HalfN(logn)
    IN  [i \in DOMAIN a |-> fpr_mul(a[i], fpr_inv(b[i % hn]))]

\* d = a*(X + 1)*b for a self-adjoint b, through theta = (X+1)^2/X and
\* mu = ((X-1)/(X+1))*X^(n/2).
fpoly_mul_iXadj_fft(logn, a, b) ==
    LET hn == HalfN(logn)
        mu(i) == X_MINUS_1_OVER_X_PLUS_1_TIMES_I(hn + i, logn)
        bt(i) == fpr_half(fpr_mul(b[i], X_PLUS_1_SQUARED_OVER_X(hn + i, logn)))
    IN  Pack(hn, [i \in 0..(hn - 1) |->
            << fpr_mul(bt(i), fpr_add(a[i], fpr_mul(a[i + hn], mu(i)))),
               fpr_mul(bt(i), fpr_sub(a[i + hn], fpr_mul(a[i], mu(i)))) >>])

\* Mutant: e is left with its factor (X+1)^2/X.
LdlNoTheta(logn, a0, b1) ==
    LET e == [i \in DOMAIN a0 |-> fpr_div(b1[i], a0[i])]
    IN  [e |-> e, d |-> [i \in DOMAIN a0 |-> fpr_sub(a0[i], fpr_mul(e[i], b1[i]))]]

\* e = L10/(X+1) and d = a0 - a1*adj(a1)/a0, given a0 and b1 = (X+1)*a1.
fpoly_LDL_fft(logn, a0, b1) ==
    LET hn == HalfN(logn)
        e  == [i \in 0..(hn - 1) |->
                IF logn = 1 THEN fpr_half(fpr_div(b1[0], a0[0]))
                ELSE fpr_div(b1[i], fpr_mul(X_PLUS_1_SQUARED_OVER_X(hn + i, logn), a0[i]))]
    IN  [e |-> e, d |-> [i \in 0..(hn - 1) |-> fpr_sub(a0[i], fpr_mul(e[i], b1[i]))]]

\* Mutant: the sign of the odd roots is dropped.
SplitRootUnsigned(logn, i) ==
    LET lo == fpoly_SIN(QuarterN(logn) + (i \div 2))
        hi == fpoly_SIN(HalfN(logn) - 1 - (i \div 2))
    IN  IF i % 2 = 0 THEN <<hi, lo>> ELSE <<lo, hi>>

\* exp(i*...) for split and merge, out of the sine table alone.
SplitRoot(logn, i) ==
    LET hn == HalfN(logn)
        qn == QuarterN(logn)
        lo == fpoly_SIN(qn + (i \div 2))
        hi == fpoly_SIN(hn - 1 - (i \div 2))
    IN  IF i % 2 = 0 THEN <<hi, lo>> ELSE <<fpr_neg(lo), hi>>

\* f0 takes the place of f: its values go to the even slots and are then squeezed.
fpoly_split_fft(logn, f) ==
    LET hn == HalfN(logn)
        qn == QuarterN(logn)
        a(i) == At(f, 2 * i, hn)
        b(i) == At(f, 2 * i + 1, hn)
        holes == [k \in 0..(2 * hn - 1) |->
                    LET i == (k % hn) \div 2
                    IN  IF k % 2 = 1 THEN f[k]
                        ELSE Half(FPC_ADD(a(i), b(i)))[IF k < hn THEN 1 ELSE 2]]
    IN  IF logn = 1 THEN [f0 |-> [k \in {0} |-> f[0]], f1 |-> [k \in {0} |-> f[1]]]
        ELSE [f0 |-> [i \in 0..(hn - 1) |-> holes[2 * i]],
              f1 |-> Pack(qn, [i \in 0..(qn - 1) |->
                        Half(FPC_MUL(FPC_SUB(a(i), b(i)), Conj(SplitRoot(logn, i))))])]

\* a = a0 + X*a1 for self-adjoint a; the result holds a0 and b1 = (X+1)*a1.
fpoly_split_selfadj_fft(logn, a) ==
    LET qn == QuarterN(logn)
    IN  IF logn = 1 THEN [a0 |-> a, b1 |-> [k \in {0} |-> 0]]
        ELSE [a0 |-> [i \in 0..(qn - 1) |-> fpr_half(fpr_add(a[2 * i], a[2 * i + 1]))],
              b1 |-> [i \in 0..(qn - 1) |->
                        fpr_mul(fpr_sub(a[2 * i], a[2 * i + 1]), IRNJ(qn + i, logn))]]

fpoly_merge_fft(logn, f0, f1) ==
    LET hn == HalfN(logn)
        qn == QuarterN(logn)
        b(i) == FPC_MUL(At(f1, i, qn), SplitRoot(logn, i))
        c == [k \in 0..(hn - 1) |->
                LET i == k \div 2
                IN  IF k % 2 = 0 THEN FPC_ADD(At(f0, i, qn), b(i)) ELSE FPC_SUB(At(f0, i, qn), b(i))]
    IN  IF logn = 1 THEN [k \in 0..1 |-> IF k = 0 THEN f0[0] ELSE f1[0]] ELSE Pack(hn, c)

-----------------------------------------------------------------------------
\* The reference for the samplers of both cores: what fast Fourier sampling computes, in
\* exact arithmetic on the values at the roots of X^n + 1.

Slots(logn) == 0..(2 ^ (logn - 1) - 1)

Even(logn, c) == Eager([u \in Slots(logn - 1) |-> Half(FPC_ADD(c[2 * u], c[2 * u + 1]))])
Odd(logn, c) == Eager([u \in Slots(logn - 1) |->
                    Half(FPC_MUL(FPC_SUB(c[2 * u], c[2 * u + 1]), Conj(Root(logn, 2 * u))))])

\* Value at a root of the polynomial with coefficients z.
Eval(logn, z, u) ==
    LET x == Root(logn, u)
        n == 2 ^ logn
        h[i \in 0..n] == IF i = n THEN <<0, 0>> ELSE FPC_ADD(<<z[i] % P, 0>>, FPC_MUL(x, h[i + 1]))
    IN  h[0]

\* For target T and Gram value A, the centre and the variance of each coefficient, given
\* the sampled coefficients z.
RECURSIVE Centres(_, _, _, _)
Centres(logn, T, A, z) ==
    IF logn = 1 THEN [j \in 0..1 |-> IF j = 0 THEN <<T[0][1], A[0][1]>> ELSE <<T[0][2], A[0][1]>>]
    ELSE LET n   == 2 ^ logn
             z0  == Eager([i \in 0..(n \div 2 - 1) |-> z[2 * i]])
             z1  == Eager([i \in 0..(n \div 2 - 1) |-> z[2 * i + 1]])
             T0  == Even(logn, T)
             T1  == Odd(logn, T)
             A0  == Even(logn, A)
             A1  == Odd(logn, A)
             S   == Slots(logn - 1)
             L10 == Eager([u \in S |-> FPC_DIV(Conj(A1[u]), A0[u])])
             D   == Eager([u \in S |-> FPC_SUB(A0[u], FPC_MUL(A1[u], L10[u]))])
             T0b == Eager([u \in S |-> FPC_ADD(T0[u], FPC_MUL(FPC_SUB(T1[u], Eval(logn - 1, z1, u)), L10[u]))])
             c1  == Centres(logn - 1, T1, D, z1)
             c0  == Centres(logn - 1, T0b, A0, z0)
         IN  Eager([j \in 0..(n - 1) |-> IF j % 2 = 0 THEN c0[j \div 2] ELSE c1[j \div 2]])
=============================================================================
