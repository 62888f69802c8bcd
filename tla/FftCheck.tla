------------------------------ MODULE FftCheck ------------------------------
(***************************************************************************)
(* The three FFT codes of the repository (fndsa_sign_fpoly.c, the vectors  *)
(* of fndsa_kgen_fxp.c and the legacy fft.c) against evaluation at the     *)
(* roots, schoolbook arithmetic and one another, at every degree up to     *)
(* 2^LogMax; and the legacy sampling against the reference.                *)
(***************************************************************************)
EXTENDS Fpoly, LegacyVrfy, KgenVect, FiniteSetsExt

CONSTANTS
    Inputs,   \* Inputs[deg]: coefficient arrays tried at degree 2^deg
    Keys,     \* NTRU keys [logn, f, g, F, G]
    Hashed    \* Hashed[logn]: hashed messages

VARIABLES
    deg,   \* degree of a and b
    a, b,  \* coefficient arrays
    key, hm,  \* a key and a hashed message of its degree
    sample,   \* what the legacy dynamic sampling drew for them, in coefficients
    signed    \* the signatures made with the tree and without

vars == <<deg, a, b, key, hm, sample, signed>>

NoKey == [logn |-> 0]

\* Either two polynomials or a signing job.
Init ==
    /\ \/ /\ deg \in DOMAIN Inputs /\ a \in Inputs[deg] /\ b \in Inputs[deg]
          /\ key = NoKey /\ hm = <<>>
       \/ /\ deg = 0 /\ a = <<>> /\ b = <<>>
          /\ key \in Keys /\ hm \in Hashed[key.logn]
    /\ sample = [z0 |-> <<>>, z1 |-> <<>>] /\ signed = [tree |-> <<>>, dyn |-> <<>>]

\* Other inputs of the same degree.
Pick == deg > 0 /\ a' \in Inputs[deg] /\ UNCHANGED <<deg, b, key, hm, sample, signed>>

\* One attempt to sign, both ways.
Attempt ==
    /\ key # NoKey /\ sample.z0 = <<>>
    /\ \E ek \in {expand_privkey(key, key.logn)} :
       \E zt \in {SampleTree(hm, ek, key.logn)}, zd \in {SampleDyn(hm, key, key.logn)} :
          /\ sample' = [z0 |-> iFFT(zd.z0, key.logn), z1 |-> iFFT(zd.z1, key.logn)]
          /\ signed' = [tree |-> do_sign_tree(hm, ek, zt, key.logn),
                        dyn |-> do_sign_dyn(hm, key, zd, key.logn)]
    /\ UNCHANGED <<deg, a, b, key, hm>>

\* A signature is there.
Done == signed.dyn # <<>> /\ UNCHANGED vars

Next == Pick \/ Attempt \/ Done

Spec == Init /\ [][Next]_vars

-----------------------------------------------------------------------------

Dim == 2 ^ deg
Hn == 2 ^ (deg - 1)
Reals(c) == Eager([i \in DOMAIN c |-> fpr_of32(c[i])])

\* FFT of the coefficients c at degree 2^logn, by evaluation.
Values(logn, c) == Eager(Pack(2 ^ (logn - 1), [u \in Slots(logn) |-> Eval(logn, c, u)]))

\* Schoolbook product modulo X^n + 1.
Times(x, y) ==
    [k \in DOMAIN x |-> MapThenSumSet(
        LAMBDA i : IF i <= k THEN x[i] * y[k - i] ELSE -(x[i] * y[Dim + k - i]), DOMAIN x)]
Plus(x, y) == [k \in DOMAIN x |-> x[k] + y[k]]
Adjoint(x) == [k \in DOMAIN x |-> IF k = 0 THEN x[0] ELSE -x[Dim - k]]
EvenPart(x) == [k \in 0..(Hn - 1) |-> x[2 * k]]
OddPart(x) == [k \in 0..(Hn - 1) |-> x[2 * k + 1]]
XPlus1(x) == [k \in DOMAIN x |-> IF k = 0 THEN x[0] - x[Cardinality(DOMAIN x) - 1] ELSE x[k] + x[k - 1]]

\* Real slots of a self-adjoint polynomial.
RealSlots(v) == [u \in 0..(Cardinality(DOMAIN v) \div 2 - 1) |-> v[u]]

Words(c, aw) == [w \in 0..(2 * Dim - 1) |-> IF w - aw \in DOMAIN c THEN c[w - aw] ELSE 0]

Halves(c, ah) == [k \in 0..(4 * Hn - 1) |-> IF k - ah \in 0..(Hn - 1) THEN c[k - ah] ELSE 0]

SelfAdj == Plus(Times(a, Adjoint(a)), Times(b, Adjoint(b)))

\* The four forward transforms give the values at the roots, in the same slots,
\* whether the integers given to fpoly_FFT_int32 lie at the start or at the end of the
\* area that receives the result (sign_core does the latter), and the inverse
\* transforms give the coefficients back.
FftEvaluates ==
    deg > 0 =>
        LET v == Values(deg, a)
            s == SelfAdj
        IN  /\ \A aw \in {0, Dim} : fpoly_FFT_int32(deg, Words(a, aw), aw) = v
            /\ LET m == fpoly_FFT_int32_selfadj(deg, Words(s, Hn), 0, Hn)
               IN  LoadReals(m, 0, Hn) = RealSlots(Values(deg, s))
            /\ \A ah \in {0, 3 * Hn} : LET m == fpoly_FFT_int16_selfadj(deg, Halves(s, ah), ah)
                                       IN  LoadReals(m, 0, Hn) = RealSlots(Values(deg, s))
            /\ FFT(Reals(a), deg) = v
            /\ vect_FFT(deg, vect_set(a)) = v
            /\ avx2_vect_FFT(deg, vect_set(a)) = v
            /\ \A c \in {iFFT(v, deg), vect_iFFT(deg, v), avx2_vect_iFFT(deg, v)} : c = Reals(a)

\* Splitting gives the FFT of the even and odd coefficients and merging undoes it, in
\* both cores; for a self-adjoint polynomial the odd part comes times X + 1.
SplitMergeExact ==
    deg > 0 =>
        LET v  == Values(deg, a)
            v0 == IF deg = 1 THEN Reals(EvenPart(a)) ELSE Values(deg - 1, EvenPart(a))
            v1 == IF deg = 1 THEN Reals(OddPart(a)) ELSE Values(deg - 1, OddPart(a))
            s  == SelfAdj
            sp == fpoly_split_selfadj_fft(deg, RealSlots(Values(deg, s)))
        IN  /\ fpoly_split_fft(deg, v) = [f0 |-> v0, f1 |-> v1]
            /\ poly_split_fft(v, deg) = [f0 |-> v0, f1 |-> v1]
            /\ fpoly_merge_fft(deg, v0, v1) = v
            /\ poly_merge_fft(v0, v1, deg) = v
            /\ deg > 1 => /\ sp.a0 = RealSlots(Values(deg - 1, EvenPart(s)))
                          /\ sp.b1 = RealSlots(Values(deg - 1, XPlus1(OddPart(s))))

\* The slot-wise operations are the ring operations, and a division by a polynomial
\* without a zero slot multiplies back.
SlotOperations ==
    deg > 0 =>
        LET va == Values(deg, a)
            vb == Values(deg, b)
            s  == Values(deg, SelfAdj)
            rs == RealSlots(s)
            one == [k \in 0..(Dim - 1) |-> IF k < Hn THEN 1 ELSE 0]
            ab == Values(deg, Times(a, b))
            aB == Values(deg, Times(a, Adjoint(b)))
        IN  /\ fpoly_mul_fft(deg, va, vb) = ab /\ poly_mul_fft(va, vb, deg) = ab
            /\ vect_mul_fft(deg, va, vb) = ab
            /\ poly_muladj_fft(va, vb, deg) = aB
            /\ vect_mul_fft(deg, va, vect_adj_fft(deg, vb)) = aB
            /\ poly_mul_fft(va, poly_adj_fft(vb, deg), deg) = aB
            /\ poly_add(poly_mulselfadj_fft(va, deg), poly_mulselfadj_fft(vb, deg)) = s
            /\ poly_add_muladj_fft(va, vb, va, vb, deg) = s
            /\ vect_norm_fft(deg, va, vb) = rs
            /\ poly_sub(poly_mulconst(va, 2), va) = va /\ poly_add(va, poly_neg(va)) = poly_sub(va, va)
            /\ vect_add(va, vect_mul_realconst(va, 3)) = vect_mul2e(va, 2)
            /\ (\A u \in DOMAIN rs : rs[u] # 0) =>
                /\ poly_mul_fft(poly_div_fft(va, s, deg), s, deg) = va
                /\ poly_mul_autoadj_fft(poly_div_autoadj_fft(va, rs, deg), rs, deg) = va
                /\ vect_mul_selfadj_fft(deg, vect_div_selfadj_fft(deg, va, rs), rs) = va
                /\ fpoly_mul_fft(deg, fpoly_div_selfadj_fft(deg, va, rs), s) = va
                /\ fpoly_invmul_selfadj_fft(rs, 1) = poly_invnorm2_fft(va, vb, deg)
                /\ vect_invnorm_fft(deg, va, vb, 3) = vect_mul2e(poly_invnorm2_fft(va, vb, deg), 3)
            /\ (\A u \in 0..(Hn - 1) : At(va, u, Hn) # <<0, 0>>) =>
                poly_mul_fft(vect_inv_mul2e_fft(deg, va, 2), va, deg) = vect_mul2e(one, 2)

\* One level of the LDL decomposition: from the halves of a self-adjoint polynomial the
\* low-RAM core gets the same diagonal as the legacy core, and its product with
\* (X+1)*e is the product with the legacy l10.
LdlAgrees ==
    deg > 1 =>
        LET s   == SelfAdj
            g0  == Values(deg - 1, EvenPart(s))
            g1  == Values(deg - 1, OddPart(s))
            u   == Values(deg - 1, EvenPart(a))
            sp  == fpoly_split_selfadj_fft(deg, RealSlots(Values(deg, s)))
            lr  == fpoly_LDL_fft(deg - 1, sp.a0, sp.b1)
            leg == poly_LDLmv_fft(g0, g1, g0, deg - 1)
            inplace == poly_LDL_fft(g0, g1, g0, deg - 1)
        IN  (\A k \in 0..(2 ^ (deg - 2) - 1) : g0[k] # 0) =>
                /\ lr.d = RealSlots(leg.d11)
                /\ fpoly_mul_iXadj_fft(deg - 1, u, lr.e) = poly_mul_fft(u, leg.l10, deg - 1)
                /\ inplace = [g01 |-> leg.l10, g11 |-> leg.d11]

-----------------------------------------------------------------------------

\* do_sign_tree and do_sign_dyn give the same answer when the integer sampler does: the
\* stored tree, with its two unrolled levels, holds what the dynamic one recomputes.
\* And the answer satisfies the verification equation, f*s1 + g*s2 = f*c modulo q.
SigningWaysAgree ==
    key # NoKey =>
        LET n == 2 ^ key.logn
            Coef(x, y, k) == MapThenSumSet(
                LAMBDA i : IF i <= k THEN x[i] * y[k - i] ELSE -(x[i] * y[n + k - i]), 0..(n - 1))
            s == signed.dyn
        IN  /\ signed.tree = signed.dyn
            /\ s # <<>> => \A k \in 0..(n - 1) :
                (Coef(key.f, s.s1, k) + Coef(key.g, s.s2, k) - Coef(key.f, hm, k)) % Q = 0

\* The legacy sampling draws z1, then z0, around the centres and with the variances of
\* the exact nearest-plane recursion on the lattice of the key: variance q^2/g00 for
\* z1, and g00 for z0 after the correction by adj(g01)/g00.  fndsa_sign_core.c feeds
\* its sampler with the same two problems.
LegacyNearestPlane ==
    key # NoKey =>
        LET logn == key.logn
            h  == HN(logn)
            Unpack(v) == Eager([u \in Slots(logn) |-> At(v, u, h)])
            vf == Values(logn, key.f)
            vg == Values(logn, key.g)
            vF == Values(logn, key.F)
            vG == Values(logn, key.G)
            c  == poly_mulconst(Values(logn, hm), fpr_inv(fpr_of32(12289)))
            t1 == poly_mul_fft(c, vf, logn)
            g00 == poly_add_muladj_fft(vf, vg, vf, vg, logn)
            l10 == poly_div_fft(poly_add_muladj_fft(vF, vG, vf, vg, logn), g00, logn)
            qq == [k \in DOMAIN hm |-> IF k < h THEN fpr_sqr(fpr_of32(12289)) ELSE 0]
            t0 == poly_sub(poly_mul_fft(poly_sub(t1, Values(logn, sample.z1)), l10, logn),
                           poly_mul_fft(c, vF, logn))
            c1 == Centres(logn, Unpack(t1), Unpack(poly_div_fft(qq, g00, logn)), sample.z1)
            c0 == Centres(logn, Unpack(t0), Unpack(g00), sample.z0)
        IN  \A k \in DOMAIN sample.z0 :
                /\ fpr_of32(samp(c1[k][1], c1[k][2])) = sample.z1[k]
                /\ fpr_of32(samp(c0[k][1], c0[k][2])) = sample.z0[k]

\* The legacy verifier accepts the signatures the legacy signer accepts, with the
\* public key it computes itself; the key can be recovered from such a signature when
\* s2 is invertible; and G is recovered from f, g and F exactly when it fits in bytes.
LegacyVerifies ==
    key # NoKey =>
        LET logn == key.logn
            pub == compute_public(key.f, key.g, logn)
            s   == signed.dyn
            rec == verify_recover(hm, s.s1, s.s2, logn)
            priv == complete_private(key.f, key.g, key.F, logn)
        IN  /\ pub.ok
            /\ priv.ok = (\A u \in DOMAIN key.G : key.G[u] \in -127..127)
            /\ priv.ok => priv.G = key.G
            /\ s # <<>> /\ s.ok =>
                /\ verify_raw(hm, s.s2, to_ntt_monty(pub.h, logn), logn)
                /\ is_invertible(s.s2, logn) = (count_nttzero(s.s2, logn) = 0)
                /\ rec.ok = is_invertible(s.s2, logn)
                /\ rec.ok => rec.h = pub.h
=============================================================================
