\* fndsa_mq.c and fndsa_sign_mq2.c at N = 4: coefficients 1, a root of X^4 + 1, and zero.
SPECIFICATION Spec
CONSTANTS
    Q = 12289  Q1Ilo = 12287  Q1Ihi <- Q1Ihiq  R2 = 5664
    LogN = 2
    GM <- GMq
    iGM <- iGMq
    Coefs <- Coefsq
INVARIANTS BothRoundTrip BothMultiply BothAdjointProducts DivisionExact
