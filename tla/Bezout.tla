------------------------------- MODULE Bezout -------------------------------
(***************************************************************************)
(* zint_bezout of fndsa_kgen_zint31.c: the optimised binary GCD with the   *)
(* cofactors.  A state is the record of the six big integers; BezoutInit   *)
(* sets them up, BezoutStep is one iteration of the outer loop, and        *)
(* BezoutReturn the test at the end.  The 31 of the code is WB.            *)
(***************************************************************************)
EXTENDS Zint

\* (a*xa + b*xb) before the division by the word size.
Combine(a, b, xa, xb) == Pass(Len(a), 0, LAMBDA i, cc : a[i] * xa + b[i] * xb + cc)

\* The words above the lowest, the top one being the last carry.
Shifted(z) == [i \in DOMAIN z |-> IF i < Len(z) THEN z[i + 1] % Base ELSE CarryOf(z)]

\* |(a*xa + b*xb) / 2^WB| and whether it was negative.
CoReduced(z) ==
    [w |-> zint_negate(Words(Shifted(z)), CarryOf(z) < 0), neg |-> CarryOf(z) < 0]

zint_co_reduce(a, b, xa, xb, ya, yb) ==
    [a |-> With(Combine(a, b, xa, xb), CoReduced), b |-> With(Combine(a, b, ya, yb), CoReduced)]

\* a + m when a is negative, a - m when it is not below m; the top word may use its extra bit.
zint_finish_mod(a, m, neg) ==
    With(CarryOf(Pass(Len(a), 0, LAMBDA i, cc : U32(a[i] - m[i] - cc))), LAMBDA below :
         LET mw(i) == IF neg THEN Base - 1 - m[i] ELSE IF below = 0 THEN m[i] ELSE 0
         IN  Words(Pass(Len(a), IF neg THEN 1 ELSE 0, LAMBDA i, cc : U32(a[i] - mw(i) - cc))))

\* (a*xa + b*xb) / 2^WB mod m.
CoReducedMod(a, b, m, m0i, xa, xb) ==
    With(((a[1] * xa + b[1] * xb) * m0i) % Base, LAMBDA f :
      With(Pass(Len(a), 0, LAMBDA i, cc : a[i] * xa + b[i] * xb + m[i] * f + cc), LAMBDA z :
        zint_finish_mod([i \in DOMAIN z |-> U32(Shifted(z)[i])], m, CarryOf(z) < 0)))

zint_co_reduce_mod(a, b, m, m0i, xa, xb, ya, yb) ==
    <<CoReducedMod(a, b, m, m0i, xa, xb), CoReducedMod(a, b, m, m0i, ya, yb)>>

\* -1/x mod 2^WB for an odd x, by Newton's iteration.
mp_ninv31(x) ==
    LET y[i \in 0..4] == IF i = 0 THEN U32(2 - x)
                         ELSE With(y[i - 1], LAMBDA v : U32(v * U32(2 - x * v)))
    IN  (-y[4]) % Base

-----------------------------------------------------------------------------
BezoutInit(x, y) ==
    [a |-> x, b |-> y,
     u0 |-> [i \in DOMAIN x |-> IF i = 1 THEN 1 ELSE 0], v0 |-> [i \in DOMAIN x |-> 0],
     u1 |-> y, v1 |-> [x EXCEPT ![1] = U32(@ - 1)]]

\* Index of the highest word that is not zero in both, or 0.
TopWord(a, b) ==
    LET used == {i \in DOMAIN a : a[i] # 0 \/ b[i] # 0}
    IN  IF used = {} THEN 0 ELSE CHOOSE i \in used : \A j \in used : j <= i

\* Leading zeros of the machine word w.
lzcnt_nonzero(w) == CHOOSE s \in 0..WB : Base <= w * 2^s /\ w * 2^s < 2 * Base

\* The approximations xa and xb: WB + 1 top bits, aligned on the larger number, over the
\* lowest word; the numbers themselves when they have at most two words.
Approx(a, b) ==
    With(TopWord(a, b), LAMBDA top :
      LET s     == lzcnt_nonzero(IF a[top] > b[top] THEN a[top] ELSE b[top])
          hi(c) == CASE top >= 3 -> c[top] * 2^s + c[top - 1] \div 2^(WB - s)
                     [] top = 2 -> c[2]
                     [] OTHER -> 0
      IN  <<hi(a) * Base + a[1], hi(b) * Base + b[1]>>)

\* A pair of coefficients, packed in one register of two machine words.
Reg(v) == v % (4 * Base * Base)

\* Mutant: the halves are read as they are, without the bias that keeps the low one from
\* borrowing from the high one.
UnpackNoBias(fg) ==
    With(Reg(fg), LAMBDA v :
         LET Sign(h) == IF h >= Base THEN h - 2 * Base ELSE h
         IN  <<Sign(U32(v)), Sign(v \div (2 * Base))>>)

Unpack(fg) ==
    With(Reg(fg + (Base - 1) * (2 * Base + 1)), LAMBDA v :
         <<U32(v) - (Base - 1), v \div (2 * Base) - (Base - 1)>>)

\* One inner iteration on xa, xb and the packed coefficients of both.
InnerStep(s) ==
    LET odd == s.xa % 2 = 1
        t   == IF odd /\ s.xa < s.xb
               THEN [xa |-> s.xb, xb |-> s.xa, fg0 |-> s.fg1, fg1 |-> s.fg0] ELSE s
    IN  [xa  |-> (IF odd THEN t.xa - t.xb ELSE t.xa) \div 2,
         xb  |-> t.xb,
         fg0 |-> IF odd THEN Reg(t.fg0 - t.fg1) ELSE t.fg0,
         fg1 |-> Reg(2 * t.fg1)]

\* The update factors (f0, g0) and (f1, g1).
Factors(xa, xb) ==
    LET s[i \in 0..WB] == IF i = 0 THEN [xa |-> xa, xb |-> xb, fg0 |-> 1, fg1 |-> 2 * Base]
                          ELSE With(s[i - 1], InnerStep)
    IN  With(s[WB], LAMBDA r : <<Unpack(r.fg0), Unpack(r.fg1)>>)

Signed(f, neg) == IF neg THEN -f ELSE f

\* The six integers after the factors are applied, with the signs corrected.
Apply(s, x, y, f0, g0, f1, g1) ==
    With(zint_co_reduce(s.a, s.b, f0, g0, f1, g1), LAMBDA r :
      LET Mod(u0, u1, m) ==
            zint_co_reduce_mod(u0, u1, m, mp_ninv31(m[1]), Signed(f0, r.a.neg),
                               Signed(g0, r.a.neg), Signed(f1, r.b.neg), Signed(g1, r.b.neg))
      IN  With(<<Mod(s.u0, s.u1, y), Mod(s.v0, s.v1, x)>>, LAMBDA uv :
            [a |-> r.a.w, b |-> r.b.w, u0 |-> uv[1][1], u1 |-> uv[1][2],
             v0 |-> uv[2][1], v1 |-> uv[2][2]]))

BezoutStep(s, x, y) ==
    With(Approx(s.a, s.b), LAMBDA q :
      With(Factors(q[1], q[2]), LAMBDA f : Apply(s, x, y, f[1][1], f[1][2], f[2][1], f[2][2])))

\* The outer loop counts num down from here by WB.
BezoutNum(len) == 2 * WB * len + WB

One(a) == \A i \in DOMAIN a : a[i] = IF i = 1 THEN 1 ELSE 0

\* 1 when the GCD, in b, is one and both operands are odd.
BezoutReturn(s, x, y) == IF One(s.b) /\ x[1] % 2 = 1 /\ y[1] % 2 = 1 THEN 1 ELSE 0
=============================================================================
