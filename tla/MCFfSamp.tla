------------------------------ MODULE MCFfSamp ------------------------------
(* Degree 8 over GF(46271^2); the Gram values have no zero in the recursion. *)
EXTENDS FfSamp

MCW == <<11941, 26483>>

Poly(s) == [i \in 0..(Len(s) - 1) |-> s[i + 1]]

MCTargets == {Poly(<<3, -1, 4, 1, -5, 9, 2, -6>>)}
MCGrams == {Poly(<<7, 3, 12, 9>>), Poly(<<5, 6, 1, 2>>)}
MCHashes == {Poly(<<12, -7, 0, 5, 1, -3, 8, 2>>)}
MCZs == {-1, 2}
=============================================================================
