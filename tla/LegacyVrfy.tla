----------------------------- MODULE LegacyVrfy -----------------------------
(***************************************************************************)
(* vrfy.c of the legacy core: polynomials modulo q = 12289 with residues   *)
(* 0..q-1 and 16-bit Montgomery products, the public key, the completion   *)
(* of the private key and verification.                                    *)
(***************************************************************************)
EXTENDS LegacySign

Q == 12289
Q0I == 12287
R == 4091       \* 2^16 mod q
R2 == 10952     \* 2^32 mod q

mq_conv_small(x) == IF x < 0 THEN x + Q ELSE x
mq_add(x, y) == IF x + y >= Q THEN x + y - Q ELSE x + y
mq_sub(x, y) == IF x < y THEN x - y + Q ELSE x - y
mq_rshift1(x) == (IF x % 2 = 1 THEN x + Q ELSE x) \div 2

\* x*y/2^16 modulo q.
mq_montymul(x, y) ==
    LET z == x * y
        w == (((z % 65536) * Q0I) % 65536) * Q
        v == (z + w) \div 65536
    IN  IF v >= Q THEN v - Q ELSE v
mq_montysqr(x) == mq_montymul(x, x)

\* Mutant: the chain is left one squaring early.
DivShortChain(x, y) ==
    LET y0 == mq_montymul(y, R2)
        y1 == mq_montysqr(y0)
        y2 == mq_montymul(y1, y0)
        y3 == mq_montymul(y2, y1)
    IN  mq_montymul(mq_montymul(y3, y0), x)

\* x/y modulo q: y^12287 by an addition chain, zero when y is zero.
mq_div_12289(x, y) ==
    LET y0  == mq_montymul(y, R2)
        y1  == mq_montysqr(y0)
        y2  == mq_montymul(y1, y0)
        y3  == mq_montymul(y2, y1)
        y8  == mq_montysqr(mq_montysqr(mq_montysqr(mq_montysqr(mq_montysqr(y3)))))
        y9  == mq_montymul(y8, y2)
        y10 == mq_montymul(y9, y8)
        y13 == mq_montymul(mq_montysqr(mq_montysqr(y10)), y9)
        y16 == mq_montymul(mq_montysqr(mq_montysqr(y13)), y10)
        y18 == mq_montymul(mq_montysqr(y16), y0)
    IN  mq_montymul(y18, x)

\* g^e modulo q, for the tables.
PowQ(g, e) ==
    LET r[k \in 0..10] == IF k = 10 THEN 1
                          ELSE LET s == r[k + 1]
                               IN  (((s * s) % Q) * (IF (e \div 2 ^ k) % 2 = 1 THEN g ELSE 1)) % Q
    IN  r[0]

\* R*g^rev(x), and the same for 1/g; the entries in use up to NMax.
GMb == [x \in 0..(NMax - 1) |-> (R * PowQ(7, Rev(10, x))) % Q]
iGMb == [x \in 0..(NMax - 1) |-> (R * PowQ(8778, Rev(10, x))) % Q]

NttStage(c, logn, u) ==
    LET t  == 2 ^ (logn - u)
        ht == t \div 2
        s(k) == GMb[2 ^ u + (k \div t)]
    IN  Eager([k \in DOMAIN c |-> IF k % t < ht THEN mq_add(c[k], mq_montymul(c[k + ht], s(k)))
                                                ELSE mq_sub(c[k - ht], mq_montymul(c[k], s(k)))])

mq_NTT(c, logn) ==
    LET after[u \in 0..logn] == IF u = 0 THEN c ELSE NttStage(after[u - 1], logn, u - 1)
    IN  after[logn]

InttStage(c, logn, u) ==
    LET t == 2 ^ (logn - 1 - u)
        s(k) == iGMb[2 ^ u + (k \div (2 * t))]
    IN  Eager([k \in DOMAIN c |-> IF k % (2 * t) < t THEN mq_add(c[k], c[k + t])
                                  ELSE mq_montymul(mq_sub(c[k - t], c[k]), s(k))])

mq_iNTT(c, logn) ==
    LET after[u \in 0..logn] == IF u = logn THEN c ELSE InttStage(after[u + 1], logn, u)
        ni[u \in 0..logn] == IF u = 0 THEN R ELSE mq_rshift1(ni[u - 1])
    IN  Eager([k \in DOMAIN c |-> mq_montymul(after[0][k], ni[logn])])

mq_poly_tomonty(c) == [u \in DOMAIN c |-> mq_montymul(c[u], R2)]
mq_poly_montymul_ntt(c, d) == [u \in DOMAIN c |-> mq_montymul(c[u], d[u])]
mq_poly_sub(c, d) == [u \in DOMAIN c |-> mq_sub(c[u], d[u])]
Small(c) == [u \in DOMAIN c |-> mq_conv_small(c[u])]

-----------------------------------------------------------------------------

to_ntt_monty(h, logn) == mq_poly_tomonty(mq_NTT(h, logn))

is_short(s1, s2, logn) == SumSquares(s1) + SumSquares(s2) < L2Bound(logn)

\* -s1 = s2*h - c0 brought to [-q/2, q/2]; h is in Montgomery NTT form.
verify_raw(c0, s2, h, logn) ==
    LET tt == mq_poly_sub(mq_iNTT(mq_poly_montymul_ntt(mq_NTT(Small(s2), logn), h), logn), c0)
    IN  is_short([u \in DOMAIN tt |-> IF tt[u] > Q \div 2 THEN tt[u] - Q ELSE tt[u]], s2, logn)

compute_public(f, g, logn) ==
    LET tt == mq_NTT(Small(f), logn)
        h  == mq_NTT(Small(g), logn)
    IN  IF \E u \in DOMAIN tt : tt[u] = 0 THEN [ok |-> FALSE, h |-> h]
        ELSE [ok |-> TRUE, h |-> mq_iNTT([u \in DOMAIN h |-> mq_div_12289(h[u], tt[u])], logn)]

\* G = g*F/f, refused when it does not fit in a byte.
complete_private(f, g, F, logn) ==
    LET t2 == mq_NTT(Small(f), logn)
        gF == mq_poly_montymul_ntt(mq_poly_tomonty(mq_NTT(Small(g), logn)), mq_NTT(Small(F), logn))
        t1 == mq_iNTT([u \in DOMAIN gF |-> mq_div_12289(gF[u], t2[u])], logn)
        G  == [u \in DOMAIN t1 |-> IF t1[u] >= Q \div 2 THEN t1[u] - Q ELSE t1[u]]
    IN  IF \E u \in DOMAIN t2 : t2[u] = 0 \/ G[u] \notin -127..127 THEN [ok |-> FALSE, G |-> <<>>]
        ELSE [ok |-> TRUE, G |-> G]

count_nttzero(sig, logn) ==
    LET s2 == mq_NTT(Small(sig), logn)
    IN  Cardinality({u \in DOMAIN s2 : s2[u] = 0})

is_invertible(s2, logn) == LET tt == mq_NTT(Small(s2), logn) IN \A u \in DOMAIN tt : tt[u] # 0

\* h = (c0 - s1)/s2, acceptable when s2 is invertible and the vector is short.
verify_recover(c0, s1, s2, logn) ==
    LET tt == mq_NTT(Small(s2), logn)
        h  == mq_NTT([u \in DOMAIN c0 |-> mq_sub(c0[u], mq_conv_small(s1[u]))], logn)
    IN  [h |-> mq_iNTT([u \in DOMAIN h |-> mq_div_12289(h[u], tt[u])], logn),
         ok |-> (\A u \in DOMAIN tt : tt[u] # 0) /\ is_short(s1, s2, logn)]
=============================================================================
