----------------------------- MODULE ZintCheck -----------------------------
(***************************************************************************)
(* The big integers of key generation against plain integers.  A behaviour *)
(* is one call of zint_bezout(), of either implementation, an iteration of *)
(* its outer loop at a time; a state of kind "ops" is a pair of operands   *)
(* for the other functions.                                                *)
(***************************************************************************)
EXTENDS LegacyZint

CONSTANTS
    Operands,    \* operands of zint_bezout()
    Longs,       \* operands x of the other functions
    Shorts,      \* operands y, not longer
    Factor       \* the small multipliers k

VARIABLES
    kind,        \* "fndsa", "legacy", "ops" or "none"
    x, y,        \* the operands
    s,           \* the six integers of zint_bezout()
    num          \* its loop counter
vars == <<kind, x, y, s, num>>

Init ==
    \/ /\ kind = "ops" /\ x \in Longs /\ y \in Shorts /\ s = <<>> /\ num = 0
    \/ /\ x \in Operands /\ y \in {o \in Operands : Len(o) = Len(x)}
       /\ \/ kind = "fndsa" /\ s = BezoutInit(x, y) /\ num = BezoutNum(Len(x))
          \/ kind = "legacy" /\ s = LegacyInit(x, y) /\ num = LegacyNum(Len(x))

Iterate ==
    /\ kind = "fndsa" /\ num >= WB
    /\ \E t \in {BezoutStep(s, x, y)} : s' = t
    /\ num' = num - WB
    /\ UNCHANGED <<kind, x, y>>

LegacyIterate ==
    /\ kind = "legacy" /\ num >= WB - 1
    /\ \E t \in {LegacyStep(s, x, y)} : s' = t
    /\ num' = num - (WB - 1)
    /\ UNCHANGED <<kind, x, y>>

Next == Iterate \/ LegacyIterate
Spec == Init /\ [][Next]_vars

-----------------------------------------------------------------------------
\* The integer that words stand for, unsigned and in two's complement.
Val(a) == LET v[i \in 0..Len(a)] == IF i = 0 THEN 0 ELSE v[i - 1] + a[i] * Base^(i - 1)
          IN  v[Len(a)]
Plain(a) == IF a[Len(a)] >= Half THEN Val(a) - Base^Len(a) ELSE Val(a)

\* The words are words, and stand for v modulo their size.
Is(a, v) == (\A i \in DOMAIN a : a[i] \in 0..Base - 1) /\ (Val(a) - v) % Base^Len(a) = 0

RECURSIVE Gcd(_, _)
Gcd(m, n) == IF n = 0 THEN m ELSE Gcd(n, m % n)

Cofactors(c, u, v, X, Y) == (c - X * u + Y * v) % (X * Y) = 0 /\ u <= Y /\ v <= X

\* zint_bezout(), which takes its decisions from approximations of a and b and runs for
\* a fixed number of iterations, keeps after each of them that both are nonnegative, not
\* above the larger operand, have the operands' GCD, and are x*u - y*v modulo x*y with
\* cofactors in range; and it returns 1 exactly for odd operands without a common factor,
\* and then with x*u - y*v = 1.  For y = 1 it reduces u to 0, and x*u - y*v is 1 - x.
BezoutCorrect ==
    kind \in {"fndsa", "legacy"} =>
    \E X \in {Val(x)}, Y \in {Val(y)} :
      LET odd  == X % 2 = 1 /\ Y % 2 = 1
          ends == num < (IF kind = "fndsa" THEN WB ELSE WB - 1)
          ret  == IF kind = "fndsa" THEN BezoutReturn(s, x, y) ELSE LegacyReturn(s, x, y)
          u    == Val(IF kind = "fndsa" THEN s.u1 ELSE s.u0)
          v    == Val(IF kind = "fndsa" THEN s.v1 ELSE s.v0)
      IN  /\ odd => \E a \in {Val(s.a)}, b \in {Val(s.b)} :
                      /\ Gcd(a, b) = Gcd(X, Y)
                      /\ \A c \in {a, b} : c <= X \/ c <= Y
                      /\ Cofactors(a, Val(s.u0), Val(s.v0), X, Y)
                      /\ Cofactors(b, Val(s.u1), Val(s.v1), X, Y)
          /\ ends => /\ ret = 1 <=> odd /\ Gcd(X, Y) = 1
                     /\ ret = 1 => X * u - Y * v = IF Y = 1 THEN 1 - X ELSE 1

-----------------------------------------------------------------------------
\* A rebuilt integer is the one in 0..m-1, or the one nearest to zero, that has the residues.
Rebuilt(Rebuild(_, _), table, X) ==
    LET m   == table[1].p * table[2].p * table[3].p
        res == [j \in 1..2 |-> [i \in 1..3 |-> ((X + j) % m) % table[i].p]]
    IN  \E t \in {Rebuild(res, FALSE)}, sg \in {Rebuild(res, TRUE)} :
          \A j \in 1..2 : /\ Val(t[j]) = (X + j) % m
                          /\ Plain(sg[j]) \in -((m - 1) \div 2)..((m - 1) \div 2)
                          /\ (Plain(sg[j]) - X - j) % m = 0

\* Each function of the big integers, of both implementations, returns the words of the
\* exact result, whatever the carries and borrows between words, the sign of the
\* operands, and the scaling by whole words and by bits: products and sums with a small
\* factor, remainders, the CRT and its normalisation around zero, negation, and the
\* subtraction of a scaled multiple that Babai's reduction repeats.
ZintExact ==
    kind = "ops" =>
    \E X \in {Val(x)}, Z \in {Plain(x)}, Y \in {Plain(y)}, n \in {Len(x)} :
      /\ \A k \in Factor :
           /\ \A r \in {zint_mul_small(x, k), l_mul_small(x, k)} : Is(Append(r.m, r.cc), X * k)
           /\ \A r \in {zint_add_mul_small(x, x, k), l_add_mul_small(x, x, k)} : Is(r, X + X * k)
           /\ \A sch \in 0..n - 1, scl \in {0, 1, WB - 1}, e \in {-1, 1} :
                LET scaled == Base^sch * ((2^scl * Y) % Base^(n - sch))   \* modulo Base^n
                IN  /\ Is(zint_add_scaled_mul_small(x, y, e * k, sch, scl), Z + e * k * scaled)
                    /\ Is(l_add_scaled_mul_small(x, y, e * k, sch, scl), Z + e * k * scaled)
                    /\ Is(zint_sub_scaled(x, y, sch, scl), Z - scaled)
                    /\ Is(l_sub_scaled(x, y, sch, scl), Z - scaled)
      /\ \A neg \in BOOLEAN : \A r \in {zint_negate(x, neg), l_negate(x, IF neg THEN 1 ELSE 0)} :
           Is(r, IF neg THEN -X ELSE X)
      /\ Plain(<<x[1]>>) = zint_one_to_plain(x)
      /\ \A i \in DOMAIN PRIMES :
           LET p   == PRIMES[i].p
               p0i == PRIMES[i].p0i
           IN  /\ zint_mod_small_unsigned(x, p, p0i, PRIMES[i].R2) = X % p
               /\ zint_mod_small_signed(x, p, p0i, PRIMES[i].R2, mp_Rx31(n, p, p0i, PRIMES[i].R2))
                    = Z % p
               /\ \E q \in {mp_div(X % p, Y % p, p)} : (q * Y - (IF Y % p = 0 THEN 0 ELSE X)) % p = 0
               /\ mp_norm(X % p, p) \in -(p \div 2)..(p \div 2)
               /\ mp_set(mp_norm(X % p, p), p) = X % p
      /\ \A i \in DOMAIN LPRIMES :
           \E p \in {LPRIMES[i].p} : \E p0i \in {modp_ninv31(p)} : \E R2 \in {modp_R2(p, p0i)} :
               /\ l_mod_small_unsigned(x, p, p0i, R2) = X % p
               /\ l_mod_small_signed(x, p, p0i, R2, modp_Rx(n, p, p0i, R2)) = Z % p
               /\ \E q \in {modp_div(X % p, Y % p, p, p0i)} :
                    (q * Y - (IF Y % p = 0 THEN 0 ELSE X)) % p = 0
               /\ modp_norm(X % p, p) \in -(p \div 2)..(p \div 2)
               /\ modp_set(modp_norm(X % p, p), p) = X % p
      /\ Rebuilt(zint_rebuild_CRT, PRIMES, X) /\ Rebuilt(l_rebuild_CRT, LPRIMES, X)
=============================================================================
