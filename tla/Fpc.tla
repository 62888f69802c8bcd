-------------------------------- MODULE Fpc --------------------------------
(***************************************************************************)
(* Real and complex numbers for the FFT code, without rounding.  A real    *)
(* number is an element of GF(P), P = 3 mod 4, and a complex number a pair *)
(* re + i*im in GF(P^2), where conjugation is x -> x^P as it is over the   *)
(* complex numbers.  W plays exp(i*pi/NMax): it has order 2*NMax, norm 1   *)
(* and W^(NMax/2) = i.  An identity between cosines, sines and FFT values  *)
(* that the code relies on holds for W too; a wrong index, sign or factor  *)
(* breaks it for both.                                                     *)
(***************************************************************************)
EXTENDS Integers

CONSTANTS
    P,        \* the prime
    LogMax,   \* the largest degree is 2^LogMax (10 in the code)
    W         \* <<re, im>>

ASSUME FieldAssumption == P \in 3..46340 /\ P % 4 = 3 /\ LogMax \in Nat \ {0}

Real == 0..(P - 1)
NMax == 2 ^ LogMax

\* The integer a value stands for, when it is small.
fpr_rint(x) == IF 2 * x > P THEN x - P ELSE x
fpr_of32(i) == i % P
fpr_add(x, y) == (x + y) % P
fpr_sub(x, y) == (x - y) % P
fpr_neg(x) == (-x) % P
fpr_mul(x, y) == (x * y) % P
fpr_sqr(x) == (x * x) % P
fpr_half(x) == IF x % 2 = 0 THEN x \div 2 ELSE (x + P) \div 2

\* x^e; the inverse of x is x^(P-2), and zero for zero.
PowMod(x, e) ==
    LET r[k \in 0..16] == IF k = 16 THEN 1
                          ELSE (fpr_sqr(r[k + 1]) * (IF (e \div 2 ^ k) % 2 = 1 THEN x ELSE 1)) % P
    IN  r[0]
fpr_inv(x) == PowMod(x, P - 2)
fpr_div(x, y) == fpr_mul(x, fpr_inv(y))

FPC_ADD(a, b) == <<fpr_add(a[1], b[1]), fpr_add(a[2], b[2])>>
FPC_SUB(a, b) == <<fpr_sub(a[1], b[1]), fpr_sub(a[2], b[2])>>
FPC_MUL(a, b) ==
    << fpr_sub(fpr_mul(a[1], b[1]), fpr_mul(a[2], b[2])),
       fpr_add(fpr_mul(a[1], b[2]), fpr_mul(a[2], b[1])) >>
FPC_DIV(a, b) ==
    LET m == fpr_inv(fpr_add(fpr_sqr(b[1]), fpr_sqr(b[2])))
    IN  FPC_MUL(a, <<fpr_mul(b[1], m), fpr_mul(fpr_neg(b[2]), m)>>)

Conj(a) == <<a[1], fpr_neg(a[2])>>
Half(a) == <<fpr_half(a[1]), fpr_half(a[2])>>
Scale(x, a) == <<fpr_mul(x, a[1]), fpr_mul(x, a[2])>>

\* exp(i*e*pi/NMax), from a table of the powers of W.
Powers == LET pw[e \in 0..(2 * NMax - 1)] == IF e = 0 THEN <<1, 0>> ELSE FPC_MUL(pw[e - 1], W)
          IN  pw
Exp(e) == Powers[e % (2 * NMax)]
Cos(e) == Exp(e)[1]
Sin(e) == Exp(e)[2]

\* v itself; comparing it makes TLC evaluate an array once instead of at every access.
Eager(v) == CHOOSE x \in {v} : x = x

\* Bit reversal of k over b bits.
Rev(b, k) ==
    LET r[x \in 0..b] == IF x = 0 THEN 0
                         ELSE 2 * r[x - 1] + ((k \div 2 ^ (x - 1)) % 2)
    IN  r[b]

\* The FFT arrays: n/2 real parts, then n/2 imaginary parts.
At(f, u, hn) == <<f[u], f[u + hn]>>
Pack(hn, c) == Eager([k \in 0..(2 * hn - 1) |-> IF k < hn THEN c[k][1] ELSE c[k - hn][2]])

\* Slot u of an FFT of degree 2^logn is the value at x = exp(i*pi*(4*rev(u) + 1)/n).
RootExp(logn, u) == (2 ^ (LogMax - logn)) * (4 * Rev(logn - 1, u) + 1)
Root(logn, u) == Exp(RootExp(logn, u))
=============================================================================
