----------------------------- MODULE LegacySign -----------------------------
(***************************************************************************)
(* sign.c of the legacy core: the LDL tree, the expanded private key, fast *)
(* Fourier sampling with the tree and without it, and one signature        *)
(* attempt each way.  The integer sampler is a function of its arguments,  *)
(* so that two samplings that hand it the same centres and variances in    *)
(* the same place of the tree give the same integers.  The leaf keeps the  *)
(* variance itself where the code stores sqrt(x)/sigma.                    *)
(***************************************************************************)
EXTENDS LegacyFFT, FiniteSets

\* sampler(mu, isigma): some small integer that depends on both.
samp(mu, leaf) == ((mu + 2 * leaf) % 3) - 1

Single(x) == [k \in {0} |-> x]

ffLDL_treesize(logn) == (logn + 1) * 2 ^ logn

\* The tree as an array of ffLDL_treesize(logn) reals: L, then the left and right trees.
Node(l10, left, right) ==
    LET n == Cardinality(DOMAIN l10)
        s == Cardinality(DOMAIN left)
    IN  Eager([k \in 0..(n + 2 * s - 1) |->
            IF k < n THEN l10[k] ELSE IF k < n + s THEN left[k - n] ELSE right[k - n - s]])

Subtree(tree, from, logn) == Eager([k \in 0..(ffLDL_treesize(logn) - 1) |-> tree[from + k]])

\* The matrix is quasi-cyclic: g11 = g0.
RECURSIVE ffLDL_fft_inner(_, _, _)
ffLDL_fft_inner(g0, g1, logn) ==
    IF logn = 0 THEN Single(g0[0])
    ELSE LET ldl == poly_LDLmv_fft(g0, g1, g0, logn)
             s0  == poly_split_fft(g0, logn)
             s1  == poly_split_fft(ldl.d11, logn)
         IN  Node(ldl.l10, ffLDL_fft_inner(s0.f0, s0.f1, logn - 1),
                           ffLDL_fft_inner(s1.f0, s1.f1, logn - 1))

ffLDL_fft(g00, g01, g11, logn) ==
    IF logn = 0 THEN Single(g00[0])
    ELSE LET ldl == poly_LDLmv_fft(g00, g01, g11, logn)
             s0  == poly_split_fft(g00, logn)
             s1  == poly_split_fft(ldl.d11, logn)
         IN  Node(ldl.l10, ffLDL_fft_inner(s0.f0, s0.f1, logn - 1),
                           ffLDL_fft_inner(s1.f0, s1.f1, logn - 1))

smallints_to_fpr(t) == [u \in DOMAIN t |-> fpr_of32(t[u])]

\* B0 = [[g, -f], [G, -F]] in FFT representation.
LoadBasis(key, logn) ==
    [b00 |-> FFT(smallints_to_fpr(key.g), logn), b01 |-> poly_neg(FFT(smallints_to_fpr(key.f), logn)),
     b10 |-> FFT(smallints_to_fpr(key.G), logn), b11 |-> poly_neg(FFT(smallints_to_fpr(key.F), logn))]

\* Mutant: g01 is built with the rows exchanged.
GramSwapped(b, logn) ==
    [g00 |-> poly_add(poly_mulselfadj_fft(b.b00, logn), poly_mulselfadj_fft(b.b01, logn)),
     g01 |-> poly_add(poly_muladj_fft(b.b10, b.b00, logn), poly_muladj_fft(b.b11, b.b01, logn)),
     g11 |-> poly_add(poly_mulselfadj_fft(b.b10, logn), poly_mulselfadj_fft(b.b11, logn))]

\* G = B*adj(B), its upper triangle.
Gram(b, logn) ==
    [g00 |-> poly_add(poly_mulselfadj_fft(b.b00, logn), poly_mulselfadj_fft(b.b01, logn)),
     g01 |-> poly_add(poly_muladj_fft(b.b00, b.b10, logn), poly_muladj_fft(b.b01, b.b11, logn)),
     g11 |-> poly_add(poly_mulselfadj_fft(b.b10, logn), poly_mulselfadj_fft(b.b11, logn))]

expand_privkey(key, logn) ==
    LET b == LoadBasis(key, logn)
        g == Gram(b, logn)
    IN  [basis |-> b, tree |-> ffLDL_fft(g.g00, g.g01, g.g11, logn)]

-----------------------------------------------------------------------------

\* t0 + (t1 - z1)*l10
Babai(t0, t1, z1, l10, logn) == poly_add(t0, poly_mul_fft(poly_sub(t1, z1), l10, logn))

\* Sampling with the Gram matrix; the right half first.
RECURSIVE ffSampling_fft_dyntree(_, _, _, _, _, _)
ffSampling_fft_dyntree(t0, t1, g00, g01, g11, logn) ==
    IF logn = 0
    THEN [z0 |-> Single(fpr_of32(samp(t0[0], g00[0]))), z1 |-> Single(fpr_of32(samp(t1[0], g00[0])))]
    ELSE LET ldl == poly_LDL_fft(g00, g01, g11, logn)
             d0  == poly_split_fft(g00, logn)
             d1  == poly_split_fft(ldl.g11, logn)
             s1  == poly_split_fft(t1, logn)
             r1  == ffSampling_fft_dyntree(s1.f0, s1.f1, d1.f0, d1.f1, d1.f0, logn - 1)
             z1  == poly_merge_fft(r1.z0, r1.z1, logn)
             tb0 == Babai(t0, t1, z1, ldl.g01, logn)
             s0  == poly_split_fft(tb0, logn)
             r0  == ffSampling_fft_dyntree(s0.f0, s0.f1, d0.f0, d0.f1, d0.f0, logn - 1)
         IN  [z0 |-> poly_merge_fft(r0.z0, r0.z1, logn), z1 |-> z1]

\* The unrolled levels: split and merge of four values need only 1/sqrt(8), 1/sqrt(2).
invsqrt2 == Cos(NMax \div 4)
invsqrt8 == fpr_half(invsqrt2)

\* ffSampling_fft at logn = 1: two pairs of samples.
SampleTwo(t0, t1, tree) ==
    LET z1 == [k \in 0..1 |-> fpr_of32(samp(t1[k], tree[3]))]
        c  == FPC_MUL(<<fpr_sub(t1[0], z1[0]), fpr_sub(t1[1], z1[1])>>, <<tree[0], tree[1]>>)
        z0 == [k \in 0..1 |-> fpr_of32(samp(fpr_add(c[k + 1], t0[k]), tree[2]))]
    IN  [z0 |-> z0, z1 |-> z1]

\* Mutant: the merge subtracts where it adds.
SampleHalfSign(t, tree) ==
    LET cr == fpr_sub(t[0], t[1])
        ci == fpr_sub(t[2], t[3])
        even == [k \in 0..1 |-> fpr_half(IF k = 0 THEN fpr_add(t[0], t[1]) ELSE fpr_add(t[2], t[3]))]
        odd  == [k \in 0..1 |-> fpr_mul(IF k = 0 THEN fpr_add(cr, ci) ELSE fpr_sub(ci, cr), invsqrt8)]
        r  == SampleTwo(even, odd, tree)
        m  == fpr_mul(fpr_sub(r.z1[0], r.z1[1]), invsqrt2)
    IN  [k \in 0..3 |-> (IF k % 2 = 0 THEN fpr_add(r.z0[k \div 2], m) ELSE fpr_sub(r.z0[k \div 2], m))]

\* One half of the unrolled logn = 2 block: split t, sample with the subtree, merge.
SampleHalf(t, tree) ==
    LET cr == fpr_sub(t[0], t[1])
        ci == fpr_sub(t[2], t[3])
        even == [k \in 0..1 |-> fpr_half(IF k = 0 THEN fpr_add(t[0], t[1]) ELSE fpr_add(t[2], t[3]))]
        odd  == [k \in 0..1 |-> fpr_mul(IF k = 0 THEN fpr_add(cr, ci) ELSE fpr_sub(ci, cr), invsqrt8)]
        r  == SampleTwo(even, odd, tree)
        mr == fpr_mul(fpr_sub(r.z1[0], r.z1[1]), invsqrt2)
        mi == fpr_mul(fpr_add(r.z1[0], r.z1[1]), invsqrt2)
    IN  [k \in 0..3 |-> CASE k = 0 -> fpr_add(r.z0[0], mr) [] k = 1 -> fpr_sub(r.z0[0], mr)
                          [] k = 2 -> fpr_add(r.z0[1], mi) [] OTHER -> fpr_sub(r.z0[1], mi)]

\* Sampling with the tree.
RECURSIVE ffSampling_fft(_, _, _, _)
ffSampling_fft(tree, t0, t1, logn) ==
    LET n == 2 ^ logn
        tree0 == Subtree(tree, n, logn - 1)
        tree1 == Subtree(tree, n + ffLDL_treesize(logn - 1), logn - 1)
        l10   == [k \in 0..(n - 1) |-> tree[k]]
    IN  IF logn = 1 THEN SampleTwo(t0, t1, tree)
        ELSE IF logn = 2 THEN
            LET z1 == SampleHalf(t1, tree1)
            IN  [z0 |-> SampleHalf(Babai(t0, t1, z1, l10, 2), tree0), z1 |-> z1]
        ELSE LET s1 == poly_split_fft(t1, logn)
                 r1 == ffSampling_fft(tree1, s1.f0, s1.f1, logn - 1)
                 z1 == poly_merge_fft(r1.z0, r1.z1, logn)
                 s0 == poly_split_fft(Babai(t0, t1, z1, l10, logn), logn)
                 r0 == ffSampling_fft(tree0, s0.f0, s0.f1, logn - 1)
             IN  [z0 |-> poly_merge_fft(r0.z0, r0.z1, logn), z1 |-> z1]

-----------------------------------------------------------------------------

\* is_short_half(): the bound floor(1.2^2*1.55^2*2*1024)*q scaled to the degree; the sum
\* saturates at 2^31, which the bounded inputs here stay below.
L2Bound(logn) == (7085 * 12289) \div 2 ^ (10 - logn)

SumSquares(s) ==
    LET n == Cardinality(DOMAIN s)
        sum[k \in 0..n] == IF k = 0 THEN 0 ELSE sum[k - 1] + s[k - 1] * s[k - 1]
    IN  sum[n]

is_short_half(sqn, s2, logn) == sqn + SumSquares(s2) < L2Bound(logn)

\* t = (c*b11/q, -c*b01/q)
TargetOf(hm, b, logn) ==
    LET c  == FFT(smallints_to_fpr(hm), logn)
        ni == fpr_inv(fpr_of32(12289))
    IN  [t0 |-> poly_mulconst(poly_mul_fft(c, b.b11, logn), ni),
         t1 |-> poly_mulconst(poly_mul_fft(c, b.b01, logn), fpr_neg(ni))]

\* s1 = c - (z0*b00 + z1*b10), s2 = -(z0*b01 + z1*b11), and the norm test.
Finish(hm, b, z, logn) ==
    LET v0 == iFFT(poly_add(poly_mul_fft(z.z0, b.b00, logn), poly_mul_fft(z.z1, b.b10, logn)), logn)
        v1 == iFFT(poly_add(poly_mul_fft(z.z1, b.b11, logn), poly_mul_fft(z.z0, b.b01, logn)), logn)
        s1 == [u \in DOMAIN hm |-> hm[u] - fpr_rint(v0[u])]
        s2 == [u \in DOMAIN hm |-> -fpr_rint(v1[u])]
    IN  [s1 |-> s1, s2 |-> s2, ok |-> is_short_half(SumSquares(s1), s2, logn)]

SampleTree(hm, ek, logn) ==
    LET t == TargetOf(hm, ek.basis, logn)
    IN  ffSampling_fft(ek.tree, t.t0, t.t1, logn)

do_sign_tree(hm, ek, z, logn) == Finish(hm, ek.basis, z, logn)

SampleDyn(hm, key, logn) ==
    LET b == LoadBasis(key, logn)
        g == Gram(b, logn)
        t == TargetOf(hm, b, logn)
    IN  ffSampling_fft_dyntree(t.t0, t.t1, g.g00, g.g01, g.g11, logn)

\* The basis is rebuilt after the sampling: the Gram matrix and the temporaries of
\* the sampling take its place.
do_sign_dyn(hm, key, z, logn) == Finish(hm, LoadBasis(key, logn), z, logn)
=============================================================================
