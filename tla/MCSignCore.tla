----------------------------- MODULE MCSignCore -----------------------------
(* Keys of degree 2 with f*G - g*F = q, and challenges, for TLC. *)
EXTENDS SignCore

P(x0, x1) == [i \in Coef |-> IF i = 0 THEN x0 ELSE x1]

\* f*adj(f) + g*adj(g) is: below q/2; between q/2 and q'/2, so that its residues differ by q and
\* it still needs no adjustment; above q'/2; above it with F unreduced, so that
\* F*adj(f) + G*adj(g) needs both moduli; over MAX_NORM.
MCKeys == {
    [f |-> P(40, 21),   g |-> P(1, 63),    F |-> P(-15, 124)],
    [f |-> P(41, 28),   g |-> P(60, 47),   F |-> P(-100, 82)],
    [f |-> P(9, 1),     g |-> P(86, 47),   F |-> P(-99, 60)],
    [f |-> P(-91, -66), g |-> P(26, -45),  F |-> P(71, -122)],
    [f |-> P(-14, -89), g |-> P(-93, 9),   F |-> P(39, -6)] }

MCNonces == 1..4

\* Zero coefficients, the largest ones, and two others.
MCHash == <<P(0, 0), P(12288, 0), P(6145, 6144), P(1234, 10987)>>
=============================================================================
