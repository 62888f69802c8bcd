----------------------------- MODULE MCModPoly -----------------------------
(* Both moduli: fndsa_mq.c through the constants, fndsa_sign_mq2.c through   *)
(* the instance M2 on the corresponding coefficients.  The tables hold the   *)
(* entries that degrees up to 8 read.                                        *)
EXTENDS ModPolyCheck

Q1Ihiq == -2304
GMq == <<11183, 10651, 1669, 12036, 5517, 11593, 9397>>
iGMq == <<553, 5310, 819, 1446, 348, 3386, 6271>>
Coefsq == {1, 7143, 12289}

Q_2 == 18433
Q1Ilo_2 == 18431
Q1Ihi_2 == -5184
R2_2 == 806
GM_2 == <<17110, 12162, 16208, 10701, 9705, 3451, 5078>>
iGM_2 == <<9878, 10329, 12352, 15894, 7491, 4364, 3866>>
Coefs_2 == {1, 350, 18433}

\* 7143 and 350 are roots of X^4 + 1; 12289 and 18433 stand for zero.
InQ2(x) == [i \in DOMAIN x |-> CASE x[i] = 1 -> 1 [] x[i] = 7143 -> 350 [] OTHER -> 18433]

M2 == INSTANCE ModPolyCheck WITH
    Q <- Q_2, Q1Ilo <- Q1Ilo_2, Q1Ihi <- Q1Ihi_2, R2 <- R2_2, GM <- GM_2, iGM <- iGM_2,
    Coefs <- Coefs_2, a <- InQ2(a), b <- InQ2(b)

\* mqpoly_ntt_to_int() undoes mqpoly_int_to_ntt() on every polynomial, for q in fndsa_mq.c
\* and for q' in fndsa_sign_mq2.c, zero coming back as the modulus itself.
BothRoundTrip == NttRoundTrip /\ M2!NttRoundTrip

\* For both moduli, the product of NTT values taken slot by slot (mqpoly_mul_ntt() and its
\* counterpart) is the product modulo X^N + 1, also where zero is stored as the modulus.
BothMultiply == NttMultiplies /\ M2!NttMultiplies

\* For both moduli, the products with an adjoint that sign_core builds its Gram matrix
\* from, which read the NTT values of the second operand backwards, are the products with
\* the adjoint polynomial.
BothAdjointProducts == AdjointProducts /\ M2!AdjointProducts
=============================================================================
