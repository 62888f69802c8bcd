------------------------------- MODULE MCFft -------------------------------
(* Degrees 2 to 16 over GF(46271^2): the monomials, on which the transforms are *)
(* determined by linearity, and a dense polynomial; NTRU keys of degree 2, 4, 8. *)
EXTENDS FftCheck, Sequences

MCW == <<11941, 26483>>

Poly(s) == [i \in 0..(Len(s) - 1) |-> s[i + 1]]

Dense == <<3, -1, 4, 1, -5, 9, 2, -6, 5, 3, -5, 8, 9, -7, 9, 3>>

MCInputs ==
    [d \in 1..4 |->
        {[i \in 0..(2 ^ d - 1) |-> IF i = m THEN 1 ELSE 0] : m \in {k \in 0..(2 ^ d - 1) : d < 4 \/ k % 3 = 0}}
        \cup {Poly(SubSeq(Dense, 1, 2 ^ d))}]

MCKeys == {
    [logn |-> 1, f |-> Poly(<<-10, 35>>), g |-> Poly(<<29, -24>>),
     F |-> Poly(<<-138, -123>>), G |-> Poly(<<-47, -139>>)],
    [logn |-> 2, f |-> Poly(<<-16, 20, 29, 30>>), g |-> Poly(<<20, 10, -21, -11>>),
     F |-> Poly(<<-90, 174, -218, 142>>), G |-> Poly(<<-116, -40, -1, -166>>)],
    [logn |-> 3, f |-> Poly(<<-13, -7, 15, 40, -2, 13, 24, 9>>),
     g |-> Poly(<<33, 4, 28, 34, 12, 34, -11, 3>>),
     F |-> Poly(<<-57, -3, -22, 58, 24, 47, 7, -31>>),
     G |-> Poly(<<-50, 5, -15, 50, 84, -118, -55, 31>>)]}

MCHashed == [d \in 1..3 |-> {Poly(SubSeq(<<120, 7, 70, 55, 9, 12, 31, 64>>, 1, 2 ^ d)),
                             Poly(SubSeq(<<12000, 700, 8321, 77, 0, 4096, 11111, 5>>, 1, 2 ^ d))}]
=============================================================================
