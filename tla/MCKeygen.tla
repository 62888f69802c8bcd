------------------------------ MODULE MCKeygen ------------------------------
(* zint_bezout() on words of three bits, up to four words, so that every     *)
(* case of its approximation occurs; the other functions on words of seven   *)
(* bits and three words, through the instance Z7 and three primes.           *)
(* A behaviour is either a call of zint_bezout(), or a KEYGEN command as     *)
(* KeygenMem describes it, for all degrees.                                  *)
EXTENDS ZintCheck, KeygenMem

P3 == <<[p |-> 7, p0i |-> 9, R2 |-> 4, s |-> 2], [p |-> 5, p0i |-> 3, R2 |-> 1, s |-> 3]>>
L3 == <<[p |-> 7, s |-> 1], [p |-> 5, s |-> 4]>>

P7 == <<[p |-> 127, p0i |-> 129, R2 |-> 4, s |-> 2],
        [p |-> 113, p0i |-> 111, R2 |-> 109, s |-> 99],
        [p |-> 109, p0i |-> 155, R2 |-> 27, s |-> 52]>>
L7 == <<[p |-> 127, s |-> 1], [p |-> 113, s |-> 106], [p |-> 109, s |-> 26]>>

MCOperands == UNION {[1..n -> 0..7] : n \in 1..2} \cup [1..3 -> {0, 1, 4, 7}] \cup [1..4 -> {0, 1, 7}]
\* The last ones are around half of the product of the three primes, <<49, 94, 47>>.
MCLongs ==
    [1..3 -> {0, 1, 63, 64, 127}] \cup {<<lo, mid, 47>> : lo \in 46..49, mid \in {30, 31, 93, 94, 95}}
MCShorts == [1..2 -> {0, 1, 64, 127}]

MCInit ==
    \/ Init /\ logn = 0 /\ pc = "done" /\ depth = 0 /\ d = 0 /\ scale_FG = 0 /\ FGlen = 0
            /\ mem = {} /\ lost = {}
    \/ KeygenInit /\ kind = "none" /\ x = <<>> /\ y = <<>> /\ s = <<>> /\ num = 0
MCNext == (Next /\ UNCHANGED kgvars) \/ (KeygenNext /\ UNCHANGED vars)
MCSpec == MCInit /\ [][MCNext]_<<vars, kgvars>>

Z7 == INSTANCE ZintCheck WITH
    WB <- 7, Base <- 128, Half <- 64, Squarings <- 3, PRIMES <- P7, LPRIMES <- L7

\* ZintCheck's ZintExact on words of seven bits: every function of the big integers of
\* key generation returns the words of the exact integer result.
WideZintExact == Z7!ZintExact
=============================================================================
