------------------------------ MODULE ModPoly ------------------------------
(***************************************************************************)
(* Arithmetic modulo a small odd prime as fndsa_mq.c (q = 12289) and       *)
(* fndsa_sign_mq2.c (q' = 18433) do it in the portable build, and          *)
(* polynomials modulo X^N + 1 over it.  Residues are kept in [1,Q], so     *)
(* that zero is Q, and products use Montgomery reduction with R = 2^32.    *)
(* The uint32_t mask idiom  x += Q & (x >> 16)  adds Q when x, read as a   *)
(* signed number, is negative; no intermediate value leaves the range      *)
(* where the two readings agree.                                           *)
(*                                                                         *)
(* A polynomial is a function on 0..N-1.  One pass of the outer loop of a  *)
(* transform is a stage; within it every entry is read and written by one  *)
(* butterfly only, so a stage is a function of the array before it.        *)
(***************************************************************************)
EXTENDS Integers

CONSTANTS
    Q,       \* the modulus
    Q1Ilo,   \* -1/Q mod 2^32: low 16 bits, read as signed
    Q1Ihi,   \* and high 16 bits, read as signed
    R2,      \* 2^64 mod Q
    LogN,    \* degree parameter
    GM,      \* GM[k]: powers of the root in bit-reversed order (Montgomery)
    iGM      \* their inverses, halved

ASSUME ModulusAssumption ==
    /\ Q \in Nat /\ 2 < Q /\ Q < 32768 /\ Q % 2 = 1
    /\ Q1Ilo \in Nat /\ Q1Ilo < 32768
    /\ Q1Ihi \in Int /\ -32768 <= Q1Ihi /\ Q1Ihi < 0
    /\ R2 \in 1..Q

\* Residues as the code stores them.
Residues == 1..Q

AddBack(x) == IF x < 0 THEN x + Q ELSE x

mq_add(x, y) == Q - AddBack(Q - (x + y))
mq_sub(x, y) == Q - AddBack(y - x)
mq_half(x) == (IF x % 2 = 1 THEN x + Q ELSE x) \div 2

\* Mutant: the high half of the input is left out of the reduction.
MredLowOnly(x) ==
    LET lo == x % 65536
        w  == ((lo * Q1Ilo) \div 65536 + lo * Q1Ihi) % 65536
    IN  (w * Q) \div 65536 + 1

\* x * Q1I mod 2^32, its high half times Q, and the high half of that plus one.
mq_mred(x) ==
    LET lo == x % 65536
        hi == x \div 65536
        w  == ((lo * Q1Ilo) \div 65536 + lo * Q1Ihi + hi * Q1Ilo) % 65536
    IN  (w * Q) \div 65536 + 1

mq_mmul(x, y) == mq_mred(x * y)

Sq(x) == mq_mmul(x, x)

\* x/y by the code's addition chain for y^(12289-2); 0/0 and x/0 are zero.
mq_div(x, y) ==
    LET y1    == mq_mmul(y, R2)
        y3    == mq_mmul(Sq(y1), y1)
        y160  == Sq(Sq(Sq(Sq(Sq(mq_mmul(y3, Sq(y1)))))))
        y163  == mq_mmul(y160, y3)
        y323  == mq_mmul(y163, y160)
        y1455 == mq_mmul(Sq(Sq(y323)), y163)
        y6143 == mq_mmul(Sq(Sq(y1455)), y323)
    IN  mq_mmul(x, mq_mmul(Sq(y6143), y1))

\* One coefficient between its representations: signed (int8_t or int16_t), external
\* [0,Q-1] and internal [1,Q].
coef_signed_to_int(x) == Q - AddBack(-x)
coef_int_to_signed(x) == IF x > (Q - 1) \div 2 THEN x - Q ELSE x
coef_ext_to_int(x) == IF x = 0 THEN x + Q ELSE x

-----------------------------------------------------------------------------
N == 2 ^ LogN
Idx == 0..(N - 1)

small_to_int(f) == [i \in Idx |-> coef_signed_to_int(f[i])]
signed_to_int(d) == [i \in Idx |-> coef_signed_to_int(d[i])]
int_to_signed(d) == [i \in Idx |-> coef_int_to_signed(d[i])]
ext_to_int(d) == [i \in Idx |-> coef_ext_to_int(d[i])]

\* Mutant: the difference is taken before the multiplication.
ForwardStageLate(d, lm) ==
    LET m  == 2 ^ lm
        t  == 2 ^ (LogN - lm)
        ht == t \div 2
    IN  [k \in Idx |->
            LET s == GM[(k \div t) + m]
            IN  IF k % t < ht THEN mq_add(d[k], mq_mmul(d[k + ht], s))
                              ELSE mq_mmul(mq_sub(d[k - ht], d[k]), s)]

ForwardStage(d, lm) ==
    LET m  == 2 ^ lm
        t  == 2 ^ (LogN - lm)
        ht == t \div 2
    IN  [k \in Idx |->
            LET s == GM[(k \div t) + m]
            IN  IF k % t < ht THEN mq_add(d[k], mq_mmul(d[k + ht], s))
                              ELSE mq_sub(d[k - ht], mq_mmul(d[k], s))]

int_to_ntt(d) ==
    LET after[lm \in 0..LogN] == IF lm = 0 THEN d ELSE ForwardStage(after[lm - 1], lm - 1)
    IN  after[LogN]

InverseStage(d, lm) ==
    LET hm == 2 ^ (LogN - 1 - lm)
        t  == 2 ^ lm
        dt == 2 * t
    IN  [k \in Idx |->
            IF k % dt < t THEN mq_half(mq_add(d[k], d[k + t]))
                          ELSE mq_mmul(mq_sub(d[k - t], d[k]), iGM[(k \div dt) + hm])]

ntt_to_int(d) ==
    LET after[lm \in 0..LogN] == IF lm = 0 THEN d ELSE InverseStage(after[lm - 1], lm - 1)
    IN  after[LogN]

add(a, b) == [i \in Idx |-> mq_add(a[i], b[i])]
sub(a, b) == [i \in Idx |-> mq_sub(a[i], b[i])]
neg(a) == [i \in Idx |-> mq_sub(Q, a[i])]
mul_ntt(a, b) == [i \in Idx |-> mq_mmul(mq_mmul(a[i], b[i]), R2)]
mulconst(a, m) == [i \in Idx |-> mq_mmul(a[i], mq_mmul(m, R2))]

\* The NTT of adj(b) is that of b backwards.
muladj_ntt(a, b) == [i \in Idx |-> mq_mmul(mq_mmul(a[i], b[N - 1 - i]), R2)]

\* Mutant: the second product takes b as it is.
MuladjX2Plain(a, b) ==
    LET half(i) == mq_mmul(mq_add(mq_mmul(a[i], a[N - 1 - i]), mq_mmul(b[i], b[i])), R2)
    IN  [i \in Idx |-> IF 2 * i < N THEN half(i) ELSE half(N - 1 - i)]

muladj_x2_ntt(a, b) ==
    LET half(i) == mq_mmul(mq_add(mq_mmul(a[i], a[N - 1 - i]),
                                  mq_mmul(b[i], b[N - 1 - i])), R2)
    IN  [i \in Idx |-> IF 2 * i < N THEN half(i) ELSE half(N - 1 - i)]

muladj_add_muladj(a, b, c, d) ==
    [i \in Idx |-> mq_mmul(mq_add(mq_mmul(a[i], b[N - 1 - i]),
                                  mq_mmul(c[i], d[N - 1 - i])), R2)]

\* Montgomery's trick: running products upwards, one inversion, then downwards.  The
\* result is the array and the flag (all inputs nonzero); tmp[] keeps the products.
Products(b) ==
    LET p[i \in Idx] == IF i = 0 THEN b[0] ELSE mq_mmul(p[i - 1], b[i])
    IN  p

\* inv[i]: the value of the running inverse when entry i is reached from above.
RunningInverse(b) ==
    LET p == Products(b)
        inv[i \in Idx] == IF i = N - 1 THEN mq_div(1, p[i]) ELSE mq_mmul(inv[i + 1], b[i + 1])
    IN  inv

\* Mutant: entries other than the first take the running inverse itself.
InvNttNoProduct(a) ==
    LET inv == RunningInverse(a)
    IN  [val |-> [i \in Idx |-> inv[i]], ok |-> inv[N - 1] # Q]

inv_ntt(a) ==
    LET p == Products(a)
        inv == RunningInverse(a)
    IN  [val |-> [i \in Idx |-> IF i = 0 THEN inv[0] ELSE mq_mmul(inv[i], p[i - 1])],
         ok  |-> inv[N - 1] # Q]

div_ntt(a, b) ==
    LET i1 == inv_ntt(b)
    IN  [val |-> [i \in Idx |-> mq_mmul(mq_mmul(a[i], i1.val[i]), R2)], ok |-> i1.ok]

-----------------------------------------------------------------------------
\* The arithmetic of Z_Q[X]/(X^N + 1) that the operations above are compared with,
\* coefficient by coefficient, zero being Q.
Canon(x) == IF x % Q = 0 THEN Q ELSE x % Q

\* The sum of f[0], ..., f[len - 1].
Total(f, len) ==
    LET s[n \in 0..len] == IF n = 0 THEN 0 ELSE s[n - 1] + f[n - 1]
    IN  s[len]

\* The product, with X^N = -1.
SchoolMul(x, y) ==
    [k \in Idx |-> Canon(Total([i \in Idx |-> IF i <= k THEN x[i] * y[k - i]
                                                        ELSE -(x[i] * y[N + k - i])], N))]

\* The polynomial at 1/X.
Adj(x) == [i \in Idx |-> IF i = 0 THEN x[0] ELSE Canon(-x[N - i])]

SchoolAdd(x, y) == [i \in Idx |-> Canon(x[i] + y[i])]

=============================================================================
