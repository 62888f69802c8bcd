----------------------------- MODULE FalconPoly -----------------------------
(***************************************************************************)
(* The two rings of the signing core: modulo q = 12289 (fndsa_mq.c) and    *)
(* modulo q' = 18433 (fndsa_sign_mq2.c), and the three operations that     *)
(* join them to recover an integer from its two residues.  The names in    *)
(* the second ring are those of fndsa_sign_mq2.c; the first ring is used   *)
(* as MQ!name for mqpoly_name.                                             *)
(***************************************************************************)
EXTENDS Integers

CONSTANT LogN

ASSUME LogNAssumption == LogN \in 1..3   \* the part of the tables given below

q == 12289
q2 == 18433

MQ == INSTANCE ModPoly WITH
    Q <- 12289, Q1Ilo <- 12287, Q1Ihi <- -2304, R2 <- 5664,
    GM <- <<11183, 10651, 1669, 12036, 5517, 11593, 9397>>,
    iGM <- <<553, 5310, 819, 1446, 348, 3386, 6271>>

MQ2 == INSTANCE ModPoly WITH
    Q <- 18433, Q1Ilo <- 18431, Q1Ihi <- -5184, R2 <- 806,
    GM <- <<17110, 12162, 16208, 10701, 9705, 3451, 5078>>,
    iGM <- <<9878, 10329, 12352, 15894, 7491, 4364, 3866>>

\* mq_div's addition chain inverts every residue but zero: TLC goes through all of them.
ASSUME DivisionAssumption ==
    \A y \in 1..(q - 1) : MQ!mq_div(1, y) \in 1..q /\ (MQ!mq_div(1, y) * y) % q = 1

\* Coefficient indices.
Ix == 0..(2 ^ LogN - 1)

mq2poly_small_to_mod(f) == MQ2!small_to_int(f)
mq2poly_signed_to_mod(d) == MQ2!signed_to_int(d)
mq2poly_mod_to_signed(d) == MQ2!int_to_signed(d)
mq2poly_NTT(d) == MQ2!int_to_ntt(d)
mq2poly_iNTT(d) == MQ2!ntt_to_int(d)
mq2poly_mul_ntt(a, b) == MQ2!mul_ntt(a, b)
mq2poly_muladj_ntt(a, b) == MQ2!muladj_ntt(a, b)
mq2poly_muladj_x2_ntt(a, b) == MQ2!muladj_x2_ntt(a, b)
mq2poly_sub(a, b) == MQ2!sub(a, b)
mq2poly_add(a, b) == MQ2!add(a, b)
mq2poly_mulconst(a, m) == MQ2!mulconst(a, m)

MQ2_IQ == 3          \* 1/q mod q'
Q2_IQ_MR == 13692    \* the same in Montgomery representation

-----------------------------------------------------------------------------
(* One coefficient: y1 in [-9216,9216] is known modulo q', y2 in           *)
(* [-6144,6144] modulo q.                                                  *)

\* By which y1 moves when it is off by q'.
Shift(y1) == IF y1 < 0 THEN q2 ELSE -q2

\* Mutant: only a difference of exactly zero counts as agreement.
NeedsAdjustZero(y1, y2) == IF y1 - y2 = 0 THEN 0 ELSE 1

NeedsAdjust(y1, y2) == IF y1 - y2 \in {-q, 0, q} THEN 0 ELSE 1

Adjusted(y1, bit) == IF bit = 1 THEN y1 + Shift(y1) ELSE y1

\* Mutant: the quotient is not brought back to the range around zero.
CrtCoefUnsigned(xq, xq2) ==
    LET u == MQ2!coef_signed_to_int(xq2 - xq)
    IN  xq + q * MQ2!mq_mmul(u, Q2_IQ_MR)

CrtCoef(xq, xq2) ==
    LET u == MQ2!coef_signed_to_int(xq2 - xq)
        v == xq + q * MQ2!mq_mmul(u, Q2_IQ_MR)
    IN  IF v > (q * q2) \div 2 THEN v - q * q2 ELSE v

\* adjust_save on the first m coefficients of a: the new array and the saved bits.
mq2mqpoly_adjust_save(m, a, b) ==
    LET bit == [i \in 0..(m - 1) |-> NeedsAdjust(a[i], b[i])]
    IN  [val |-> [i \in DOMAIN a |-> IF i < m THEN Adjusted(a[i], bit[i]) ELSE a[i]],
         adj |-> bit]

mq2mqpoly_adjust(m, a, adj) ==
    [i \in DOMAIN a |-> IF i < m THEN Adjusted(a[i], adj[i]) ELSE a[i]]

mq2mqpoly_CRT(aq, aq2) == [i \in Ix |-> CrtCoef(aq[i], aq2[i])]

=============================================================================
