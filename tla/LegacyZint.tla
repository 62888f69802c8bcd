----------------------------- MODULE LegacyZint -----------------------------
(***************************************************************************)
(* The big integers of the legacy keygen.c.  The layout is that of Zint;   *)
(* what differs is the Montgomery reduction (R is the word, not the        *)
(* machine word, and p0i and R2 are computed), the subtraction that can be *)
(* disabled, and the GCD, which decides on two top words that are not      *)
(* aligned and returns its result in a.                                    *)
(***************************************************************************)
EXTENDS Bezout

CONSTANTS
    Squarings,    \* squarings in modp_R2: WB + 1 = 2^Squarings
    LPRIMES       \* the legacy table of small primes: p and s

ASSUME SquaringsAssumption == WB + 1 = 2^Squarings

modp_set(x, p) == IF x < 0 THEN x + p ELSE x
modp_norm(x, p) == IF x >= (p + 1) \div 2 THEN x - p ELSE x

\* -1/p mod 2^WB.
modp_ninv31(p) ==
    LET y[i \in 0..4] == IF i = 0 THEN U32(2 - p)
                         ELSE With(y[i - 1], LAMBDA v : U32(v * U32(2 - p * v)))
    IN  (-y[4]) % Base

modp_R(p) == Base - p
modp_add(a, b, p) == AddIfNegative(a + b - p, p)
modp_sub(a, b, p) == AddIfNegative(a - b, p)

modp_montymul(a, b, p, p0i) ==
    AddIfNegative((a * b + ((a * b * p0i) % Base) * p) \div Base - p, p)

\* 2^(2*WB) mod p: 2 in Montgomery form, squared up to 2^(WB+1), then halved.
modp_R2(p, p0i) ==
    LET z[i \in 0..Squarings] ==
          IF i = 0 THEN modp_add(modp_R(p), modp_R(p), p)
          ELSE With(z[i - 1], LAMBDA v : modp_montymul(v, v, p, p0i))
    IN  With(z[Squarings], LAMBDA v : (v + (v % 2) * p) \div 2)

\* 2^(WB*x) mod p: the pair (z, r) for each bit of x - 1.
modp_Rx(x, p, p0i, R2) ==
    LET zr[i \in 0..x - 1] ==
          IF i = 0 THEN <<modp_R(p), R2>>
          ELSE With(zr[i - 1], LAMBDA s :
                 <<IF ((x - 1) \div 2^(i - 1)) % 2 = 1 THEN modp_montymul(s[1], s[2], p, p0i)
                   ELSE s[1],
                   modp_montymul(s[2], s[2], p, p0i)>>)
    IN  zr[x - 1][1]

\* a/b mod p as a * b^(p-2), one bit of the exponent at a time; 0 when b is 0.
modp_div(a, b, p, p0i) ==
    LET z[i \in 0..WB] ==
          IF i = 0 THEN modp_R(p)
          ELSE With(z[i - 1], LAMBDA v :
                 With(modp_montymul(v, v, p, p0i), LAMBDA q :
                   IF ((p - 2) \div 2^(WB - i)) % 2 = 1 THEN modp_montymul(q, b, p, p0i) ELSE q))
    IN  modp_montymul(a, modp_montymul(z[WB], 1, p, p0i), p, p0i)

-----------------------------------------------------------------------------
\* a - b, or a itself when ctl is FALSE; the carry is computed either way.
zint_sub(a, b, ctl) ==
    With(Pass(Len(a), 0, LAMBDA i, cc : U32(a[i] - b[i] - cc)), LAMBDA w :
         [a |-> IF ctl THEN Words(w) ELSE a, cc |-> CarryOf(w)])

l_mul_small(m, x) ==
    With(Pass(Len(m), 0, LAMBDA u, cc : m[u] * x + cc),
         LAMBDA z : [m |-> Words(z), cc |-> CarryOf(z)])

l_mod_small_unsigned(d, p, p0i, R2) ==
    LET x[u \in 1..Len(d) + 1] ==
          IF u = Len(d) + 1 THEN 0
          ELSE modp_add(modp_montymul(x[u + 1], R2, p, p0i), AddIfNegative(d[u] - p, p), p)
    IN  x[1]

l_mod_small_signed(d, p, p0i, R2, Rx) ==
    IF d = <<>> THEN 0
    ELSE modp_sub(l_mod_small_unsigned(d, p, p0i, R2), IF d[Len(d)] >= Half THEN Rx ELSE 0, p)

l_add_mul_small(x, y, s) ==
    With(Pass(Len(x), 0, LAMBDA u, cc : y[u] * s + x[u] + cc),
         LAMBDA z : Append(Words(z), CarryOf(z)))

l_norm_zero(x, p) ==
    LET wp(u) == p[u] \div 2 + (IF u < Len(p) /\ p[u + 1] % 2 = 1 THEN Half ELSE 0)
    IN  zint_sub(x, p, \E u \in DOMAIN x :
                          x[u] > wp(u) /\ \A v \in u + 1 .. Len(x) : x[v] = wp(v)).a

l_rebuild_CRT(xx, normalize_signed) ==
    LET xlen == Len(xx[1])
        tmp[u \in 1..xlen] ==
          IF u = 1 THEN <<LPRIMES[1].p>>
          ELSE With(l_mul_small(tmp[u - 1], LPRIMES[u].p), LAMBDA r : Append(r.m, r.cc))
        Lift(w, xp, u, p, p0i) ==
          With(l_mod_small_unsigned(w, p, p0i, modp_R2(p, p0i)), LAMBDA xq :
            l_add_mul_small(w, tmp[u - 1], modp_montymul(LPRIMES[u].s, modp_sub(xp, xq, p), p, p0i)))
        x[v \in DOMAIN xx, u \in 1..xlen] ==
          IF u = 1 THEN <<xx[v][1]>>
          ELSE With(x[v, u - 1], LAMBDA w :
                 With(modp_ninv31(LPRIMES[u].p), LAMBDA p0i :
                   Lift(w, xx[v][u], u, LPRIMES[u].p, p0i)))
    IN  [v \in DOMAIN xx |-> IF normalize_signed THEN l_norm_zero(x[v, xlen], tmp[xlen])
                             ELSE x[v, xlen]]

l_negate(a, ctl) ==
    Words(Pass(Len(a), ctl, LAMBDA u, cc : (IF ctl = 1 THEN Base - 1 - a[u] ELSE a[u]) + cc))

l_add_scaled_mul_small(x, y, k, sch, scl) ==
    IF y = <<>> THEN x
    ELSE Words(Pass(Len(x), 0, LAMBDA u, cc :
                 IF u <= sch THEN x[u] ELSE Scaled(y, scl, u - sch) * k + x[u] + cc))

l_sub_scaled(x, y, sch, scl) ==
    IF y = <<>> THEN x
    ELSE Words(Pass(Len(x), 0, LAMBDA u, cc :
                 IF u <= sch THEN x[u] ELSE U32(x[u] - Scaled(y, scl, u - sch) - cc)))

\* A one-word integer as a signed number.
zint_one_to_plain(x) == IF x[1] >= Half THEN x[1] - Base ELSE x[1]

-----------------------------------------------------------------------------
\* The bezout of keygen.c.

l_co_reduce(a, b, xa, xb, ya, yb) ==
    LET Reduced(z) == [w   |-> l_negate(Words(Shifted(z)), IF CarryOf(z) < 0 THEN 1 ELSE 0),
                       neg |-> CarryOf(z) < 0]
    IN  [a |-> With(Combine(a, b, xa, xb), Reduced), b |-> With(Combine(a, b, ya, yb), Reduced)]

\* Whether a is below m, then what is to be subtracted: -m, m or nothing.
l_finish_mod(a, m, neg) ==
    With(CarryOf(Pass(Len(a), 0, LAMBDA u, cc : U32(a[u] - m[u] - cc))), LAMBDA below :
         LET mw(u) == IF neg = 1 THEN Base - 1 - m[u] ELSE IF below = 0 THEN m[u] ELSE 0
         IN  Words(Pass(Len(a), neg, LAMBDA u, cc : U32(a[u] - mw(u) - cc))))

l_co_reduce_mod(a, b, m, m0i, xa, xb, ya, yb) ==
    LET Reduced(ca, cb) ==
          With(((a[1] * ca + b[1] * cb) * m0i) % Base, LAMBDA f :
            With(Pass(Len(a), 0, LAMBDA u, cc : a[u] * ca + b[u] * cb + m[u] * f + cc), LAMBDA z :
              l_finish_mod([u \in DOMAIN z |-> U32(Shifted(z)[u])], m,
                           IF CarryOf(z) < 0 THEN 1 ELSE 0)))
    IN  <<Reduced(xa, xb), Reduced(ya, yb)>>

LegacyInit(x, y) ==
    [a |-> x, b |-> y,
     u0 |-> [j \in DOMAIN x |-> IF j = 1 THEN 1 ELSE 0], v0 |-> [j \in DOMAIN x |-> 0],
     u1 |-> y, v1 |-> [x EXCEPT ![1] = U32(@ - 1)]]

\* The two top words of a number, or its only one; top is that of the larger.
HiWords(c, top) == IF top >= 2 THEN c[top] * Base + c[top - 1] ELSE c[1]

\* One inner iteration: a is divided by two if it is even or the larger of two odd
\* numbers, otherwise b is; the low words are doubled instead of the other being halved.
LegacyInner(s, i) ==
    LET oa  == (s.al \div 2^i) % 2 = 1
        ob  == (s.bl \div 2^i) % 2 = 1
        cAB == oa /\ ob /\ s.ah > s.bh
        cBA == oa /\ ob /\ ~(s.ah > s.bh)
        t   == IF cAB THEN [s EXCEPT !.al = U32(@ - s.bl), !.ah = @ - s.bh,
                                     !.pa = @ - s.qa, !.pb = @ - s.qb]
               ELSE IF cBA THEN [s EXCEPT !.bl = U32(@ - s.al), !.bh = @ - s.ah,
                                          !.qa = @ - s.pa, !.qb = @ - s.pb]
               ELSE s
    IN  IF cAB \/ ~oa
        THEN [t EXCEPT !.ah = @ \div 2, !.bl = U32(2 * @), !.qa = 2 * @, !.qb = 2 * @]
        ELSE [t EXCEPT !.bh = @ \div 2, !.al = U32(2 * @), !.pa = 2 * @, !.pb = 2 * @]

LegacyFactors(a, b) ==
    LET top == TopWord(a, b)
        s[i \in 0..WB] ==
          IF i = 0 THEN [ah |-> HiWords(a, top), bh |-> HiWords(b, top), al |-> a[1], bl |-> b[1],
                         pa |-> 1, pb |-> 0, qa |-> 0, qb |-> 1]
          ELSE With(s[i - 1], LAMBDA r : LegacyInner(r, i - 1))
    IN  s[WB]

LegacyStep(s, x, y) ==
    With(LegacyFactors(s.a, s.b), LAMBDA f :
      With(l_co_reduce(s.a, s.b, f.pa, f.pb, f.qa, f.qb), LAMBDA r :
        LET Mod(u0, u1, m) ==
              l_co_reduce_mod(u0, u1, m, modp_ninv31(m[1]), Signed(f.pa, r.a.neg),
                              Signed(f.pb, r.a.neg), Signed(f.qa, r.b.neg), Signed(f.qb, r.b.neg))
        IN  With(<<Mod(s.u0, s.u1, y), Mod(s.v0, s.v1, x)>>, LAMBDA uv :
              [a |-> r.a.w, b |-> r.b.w, u0 |-> uv[1][1], u1 |-> uv[1][2],
               v0 |-> uv[2][1], v1 |-> uv[2][2]])))

\* The outer loop counts num down from here by WB - 1.
LegacyNum(len) == 2 * WB * len + WB - 1

\* 1 when the GCD, in a, is one and both operands are odd.
LegacyReturn(s, x, y) == IF One(s.a) /\ x[1] % 2 = 1 /\ y[1] % 2 = 1 THEN 1 ELSE 0
=============================================================================
