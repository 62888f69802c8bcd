---------------------------- MODULE ModPolyCheck ----------------------------
(***************************************************************************)
(* The NTT operations of ModPoly against schoolbook arithmetic in          *)
(* Z_Q[X]/(X^N + 1), over all pairs of polynomials with coefficients in a  *)
(* small set that includes the stored form Q of zero and a root of X^N + 1 *)
(* (so that some inputs are not invertible).                               *)
(***************************************************************************)
EXTENDS ModPoly

CONSTANT Coefs   \* coefficients tried

ASSUME CoefsAssumption == Coefs \subseteq Residues

VARIABLES a, b

Inputs == [Idx -> Coefs]

Init == a \in Inputs /\ b \in Inputs

\* The next pair of inputs.
Pick == a' \in Inputs /\ UNCHANGED b

Next == Pick

Spec == Init /\ [][Next]_<<a, b>>

-----------------------------------------------------------------------------

\* mqpoly_ntt_to_int undoes mqpoly_int_to_ntt exactly, zero staying in its form Q.
NttRoundTrip == ntt_to_int(int_to_ntt(a)) = a

\* A pointwise product of NTT values is the product modulo X^N + 1.
NttMultiplies == ntt_to_int(mul_ntt(int_to_ntt(a), int_to_ntt(b))) = SchoolMul(a, b)

\* The products with an adjoint read the second operand backwards: they give
\* a*adj(b), a*adj(a) + b*adj(b) and a*adj(b) + b*adj(a).
AdjointProducts ==
    LET A == int_to_ntt(a)
        B == int_to_ntt(b)
    IN  /\ ntt_to_int(muladj_ntt(A, B)) = SchoolMul(a, Adj(b))
        /\ ntt_to_int(muladj_x2_ntt(A, B)) =
              SchoolAdd(SchoolMul(a, Adj(a)), SchoolMul(b, Adj(b)))
        /\ ntt_to_int(muladj_add_muladj(A, B, B, A)) =
              SchoolAdd(SchoolMul(a, Adj(b)), SchoolMul(b, Adj(a)))

\* mqpoly_inv_ntt and mqpoly_div_ntt succeed exactly on invertible divisors, and then
\* multiplying back gives the dividend; one inversion serves all N values.
DivisionExact ==
    LET A == int_to_ntt(a)
        B == int_to_ntt(b)
        invertible == \A i \in Idx : B[i] # Q
    IN  /\ inv_ntt(B).ok = invertible
        /\ div_ntt(A, B).ok = invertible
        /\ invertible => /\ mul_ntt(inv_ntt(B).val, B) = [i \in Idx |-> 1]
                         /\ mul_ntt(div_ntt(A, B).val, B) = A

=============================================================================
