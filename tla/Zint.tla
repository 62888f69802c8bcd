-------------------------------- MODULE Zint --------------------------------
(***************************************************************************)
(* The big integers of key generation (fndsa_kgen_zint31.c, with the small *)
(* primes of fndsa_kgen_inner.h): little-endian sequences of words of WB   *)
(* bits, each in a machine word of one bit more (31 bits in a uint32_t in  *)
(* the code).  A register of two machine words is the code's uint64_t.     *)
(* Masks that select are conditions here, and a loop that carries from one *)
(* word to the next is a Pass.                                             *)
(***************************************************************************)
EXTENDS Integers, Sequences, Once

CONSTANTS
    WB,       \* bits of a word
    Base,     \* 2^WB
    Half,     \* 2^(WB-1), the sign bit of a top word
    PRIMES    \* the table of small primes

\* A value cut to the machine word.
U32(w) == w % (2 * Base)

ASSUME WordAssumption == WB \in 3..7 /\ Base = 2^WB /\ Half = 2^(WB - 1)

\* p0i = -1/p and R2 = R^2 mod p, where R is the size of the machine word.
ASSUME PrimesAssumption ==
    \A i \in DOMAIN PRIMES :
        /\ PRIMES[i].p \in Half + 1 .. Base - 1
        /\ (PRIMES[i].p * PRIMES[i].p0i + 1) % (2 * Base) = 0
        /\ PRIMES[i].R2 = (4 * Base * Base) % PRIMES[i].p

-----------------------------------------------------------------------------
\* Small primes.

\* d, plus p when the machine word d has its top bit set.
AddIfNegative(d, p) == IF U32(d) >= Base THEN U32(d + p) ELSE U32(d)

mp_set(v, p) == IF v < 0 THEN v + p ELSE v
mp_norm(x, p) == IF x > p \div 2 THEN x - p ELSE x
mp_add(a, b, p) == AddIfNegative(a + b - p, p)
mp_sub(a, b, p) == AddIfNegative(a - b, p)
mp_half(a, p) == (a + (a % 2) * p) \div 2

mp_mmul(a, b, p, p0i) ==
    AddIfNegative((a * b + U32(a * b * p0i) * p) \div (2 * Base) - p, p)

\* 2^(WB*e) mod p: the pair (d, x) for each bit of e.
mp_Rx31(e, p, p0i, R2) ==
    LET dx[i \in 0..e] ==
          IF i = 0 THEN <<1, mp_half(R2, p)>>
          ELSE With(dx[i - 1], LAMBDA s :
                 <<IF (e \div 2^(i - 1)) % 2 = 1 THEN mp_mmul(s[1], s[2], p, p0i) ELSE s[1],
                   mp_mmul(s[2], s[2], p, p0i)>>)
    IN  dx[e][1]

\* x/y mod p by a binary GCD of 2*WB steps; 0 when y is not invertible.
mp_div(x, y, p) ==
    LET Step(s) ==
          LET odd == s.a % 2 = 1
              t   == IF odd /\ s.a < s.b THEN [a |-> s.b, b |-> s.a, u |-> s.v, v |-> s.u] ELSE s
          IN  IF odd THEN [t EXCEPT !.a = (t.a - t.b) \div 2, !.u = mp_half(mp_sub(t.u, t.v, p), p)]
              ELSE [t EXCEPT !.a = t.a \div 2, !.u = mp_half(t.u, p)]
        s[i \in 0..2 * WB] ==
          IF i = 0 THEN [a |-> y, b |-> p, u |-> x, v |-> 0] ELSE With(s[i - 1], Step)
    IN  With(s[2 * WB], LAMBDA r : IF r.b < 2 THEN r.v ELSE 0)

-----------------------------------------------------------------------------
\* Words and carries.

\* The values t(i, carry) of a loop over n words; the carry is what is above the word.
Pass(n, c0, t(_, _)) ==
    LET z[i \in 0..n] == IF i = 0 THEN c0 * Base ELSE t(i, z[i - 1] \div Base)
    IN  [i \in 1..n |-> z[i]]

Words(z) == [i \in DOMAIN z |-> z[i] % Base]
CarryOf(z) == z[Len(z)] \div Base

zint_mul_small(m, x) ==
    With(Pass(Len(m), 0, LAMBDA i, cc : m[i] * x + cc),
         LAMBDA z : [m |-> Words(z), cc |-> CarryOf(z)])

\* Horner's rule from the top word.
zint_mod_small_unsigned(d, p, p0i, R2) ==
    LET x[i \in 1..Len(d) + 1] ==
          IF i = Len(d) + 1 THEN 0
          ELSE mp_add(mp_mmul(x[i + 1], mp_half(R2, p), p, p0i), AddIfNegative(d[i] - p, p), p)
    IN  x[1]

zint_mod_small_signed(d, p, p0i, R2, Rx) ==
    IF d = <<>> THEN 0
    ELSE mp_sub(zint_mod_small_unsigned(d, p, p0i, R2), IF d[Len(d)] >= Half THEN Rx ELSE 0, p)

zint_add_mul_small(x, y, s) ==
    With(Pass(Len(x), 0, LAMBDA i, cc : y[i] * s + x[i] + cc),
         LAMBDA z : Append(Words(z), CarryOf(z)))

\* Mutant: the modulus is halved word by word, without the bit of the word above.
NormZeroWordHalves(x, m) ==
    LET sub == \E i \in DOMAIN x :
                 /\ x[i] > m[i] \div 2
                 /\ \A j \in i + 1 .. Len(x) : x[j] = m[j] \div 2
    IN  Words(Pass(Len(x), 0, LAMBDA i, cc : IF sub THEN U32(x[i] - m[i] - cc) ELSE x[i]))

\* x - m when x is above (m-1)/2, compared word by word from the top.
zint_norm_zero(x, m) ==
    LET wp(i) == m[i] \div 2 + (IF i < Len(m) /\ m[i + 1] % 2 = 1 THEN Half ELSE 0)
        sub   == \E i \in DOMAIN x : x[i] > wp(i) /\ \A j \in i + 1 .. Len(x) : x[j] = wp(j)
    IN  Words(Pass(Len(x), 0, LAMBDA i, cc : IF sub THEN U32(x[i] - m[i] - cc) ELSE x[i]))

\* Each of the integers xx, given by its residues modulo the first primes.
zint_rebuild_CRT(xx, normalize_signed) ==
    LET xlen == Len(xx[1])
        tmp[i \in 1..xlen] ==
          IF i = 1 THEN <<PRIMES[1].p>>
          ELSE With(zint_mul_small(tmp[i - 1], PRIMES[i].p), LAMBDA r : Append(r.m, r.cc))
        x[j \in DOMAIN xx, i \in 1..xlen] ==
          IF i = 1 THEN <<xx[j][1]>>
          ELSE With(x[j, i - 1], LAMBDA w :
                 With(zint_mod_small_unsigned(w, PRIMES[i].p, PRIMES[i].p0i, PRIMES[i].R2),
                   LAMBDA xq : zint_add_mul_small(w, tmp[i - 1],
                     mp_mmul(PRIMES[i].s, mp_sub(xx[j][i], xq, PRIMES[i].p),
                             PRIMES[i].p, PRIMES[i].p0i))))
    IN  [j \in DOMAIN xx |-> IF normalize_signed THEN zint_norm_zero(x[j, xlen], tmp[xlen])
                             ELSE x[j, xlen]]

zint_negate(a, ctl) ==
    Words(Pass(Len(a), IF ctl THEN 1 ELSE 0,
               LAMBDA i, cc : (IF ctl THEN Base - 1 - a[i] ELSE a[i]) + cc))

\* The words of y * 2^scl from the lowest, y being extended with its sign.
Scaled(y, scl, i) ==
    LET w(k) == IF k = 0 THEN 0 ELSE IF k <= Len(y) THEN y[k]
                ELSE IF y[Len(y)] >= Half THEN Base - 1 ELSE 0
    IN  ((w(i) * 2^scl) % Base) + (w(i - 1) \div 2^(WB - scl))

\* x + k * 2^(WB*sch + scl) * y, cut to the words of x.
zint_add_scaled_mul_small(x, y, k, sch, scl) ==
    IF y = <<>> THEN x
    ELSE Words(Pass(Len(x), 0, LAMBDA i, cc :
                 IF i <= sch THEN x[i] ELSE Scaled(y, scl, i - sch) * k + x[i] + cc))

zint_sub_scaled(x, y, sch, scl) ==
    IF y = <<>> THEN x
    ELSE Words(Pass(Len(x), 0, LAMBDA i, cc :
                 IF i <= sch THEN x[i] ELSE U32(x[i] - Scaled(y, scl, i - sch) - cc)))
=============================================================================
