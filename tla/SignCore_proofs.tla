---------------------------- MODULE SignCore_proofs ----------------------------
(***************************************************************************)
(* The signing core for every key, challenge and sampler, not only for     *)
(* those TLC enumerates.                                                   *)
(*                                                                         *)
(* First the steps from residues to integers, and that every step of a     *)
(* call brings it closer to its end.  Then, from the bottom up: residues   *)
(* and Montgomery representation, the NTT of two coefficients, the ring,   *)
(* inversion; what each statement does to the polynomials of the area;     *)
(* what the area holds at each statement of the loop body (Area); and      *)
(* from that invariant what the sampler is given, which vector is tested,  *)
(* and that what is returned verifies.                                     *)
(***************************************************************************)
EXTENDS SignCore, TLAPS


\* f*adj(f) + g*adj(g) has coefficients of at most 16822 (the check on the key's norm), more
\* than q'/2: from y1, the value modulo q' = 18433, and y2, the value modulo q = 12289,
\* adjust_save finds it.
THEOREM AdjustRecovers ==
    ASSUME NEW v \in Int, -16822 <= v, v <= 16822,
           NEW y1 \in Int, -9216 <= y1, y1 <= 9216, \E j \in Int : v = y1 + 18433 * j,
           NEW y2 \in Int, -6144 <= y2, y2 <= 6144, \E k \in Int : v = y2 + 12289 * k
    PROVE  Adjusted(y1, NeedsAdjust(y1, y2)) = v
<1>a. PICK j \in Int : v = y1 + 18433 * j
  OBVIOUS
<1>b. PICK k \in Int : v = y2 + 12289 * k
  OBVIOUS
<1> USE <1>a, <1>b
<1>1. j = -1 \/ j = 0 \/ j = 1
  OBVIOUS
<1>2. k = -1 \/ k = 0 \/ k = 1
  OBVIOUS
<1>3. CASE j = 0
  <2>1. v = y1 /\ y1 - y2 \in {-12289, 0, 12289}
    BY <1>2, <1>3
  <2> QED
    BY <2>1 DEF Adjusted, NeedsAdjust, q
<1>4. CASE j = 1
  <2>1. v = y1 + 18433 /\ y1 < 0
    BY <1>4
  <2>2. y1 - y2 = 12289 * k - 18433
    BY <2>1
  <2>3. y1 - y2 = -30722 \/ y1 - y2 = -18433 \/ y1 - y2 = -6144
    BY <2>2, <1>2
  <2>4. NeedsAdjust(y1, y2) = 1
    BY <2>3 DEF NeedsAdjust, q
  <2> QED
    BY <2>1, <2>4 DEF Adjusted, Shift, q2
<1>5. CASE j = -1
  <2>1. v = y1 - 18433 /\ ~(y1 < 0)
    BY <1>5
  <2>2. y1 - y2 = 12289 * k + 18433
    BY <2>1
  <2>3. y1 - y2 = 30722 \/ y1 - y2 = 18433 \/ y1 - y2 = 6144
    BY <2>2, <1>2
  <2>4. NeedsAdjust(y1, y2) = 1
    BY <2>3 DEF NeedsAdjust, q
  <2> QED
    BY <2>1, <2>4 DEF Adjusted, Shift, q2
<1> QED
  BY <1>1, <1>3, <1>4, <1>5

\* mq_mred of fndsa_mq.c is Montgomery reduction for every product of two residues: the
\* result is in [1,q] and times 2^32 it is x modulo q.
THEOREM MredQ ==
    ASSUME NEW x \in Int, 1 <= x, x <= 151019521
    PROVE  /\ MQ!mq_mred(x) \in Int /\ 1 <= MQ!mq_mred(x) /\ MQ!mq_mred(x) <= 12289
           /\ \E k \in Int : MQ!mq_mred(x) * 4294967296 = x + 12289 * k
<1> DEFINE lo == x % 65536
           hi == x \div 65536
           A  == (lo * 12287) \div 65536
           B  == (lo * 12287) % 65536
           W  == A + lo * (-2304) + hi * 12287
           w  == W % 65536
           m  == W \div 65536
           r1 == (w * 12289) \div 65536
           s  == (w * 12289) % 65536
<1>1. lo \in Int /\ hi \in Int /\ x = 65536 * hi + lo /\ 0 <= lo /\ lo < 65536
  BY SMT
<1> HIDE DEF lo, hi
<1>2. A \in Int /\ B \in Int /\ 12287 * lo = 65536 * A + B /\ 0 <= B /\ B < 65536
  BY <1>1, SMT
<1> HIDE DEF A, B
<1>3. W \in Int /\ W = A - 2304 * lo + 12287 * hi
  BY <1>1, <1>2, SMT
<1> HIDE DEF W
<1>4. w \in Int /\ m \in Int /\ W = 65536 * m + w /\ 0 <= w /\ w < 65536
  BY <1>3, SMT
<1> HIDE DEF w, m
<1>5. r1 \in Int /\ s \in Int /\ 12289 * w = 65536 * r1 + s /\ 0 <= s /\ s < 65536
  BY <1>4, SMT
<1> HIDE DEF r1, s
<1>6. MQ!mq_mred(x) = r1 + 1
  BY SMT DEF MQ!mq_mred, r1, w, W, A, lo, hi
<1> DEFINE L == 28313856 * hi - 12289 * m - 432 * x
\* x * Q1I * Q = -x modulo 2^32, written out.
<1>7. 65536 * s + 12289 * B + x = 4294967296 * (L - r1)
  BY <1>1, <1>2, <1>3, <1>4, <1>5, SMT
\* The left-hand side is positive and below 2^33.
<1>8. L \in Int /\ L - r1 = 1
  BY <1>1, <1>2, <1>4, <1>5, <1>7, SMT
<1>9. r1 \in Int /\ 0 <= r1 /\ r1 < 12289
  BY <1>4, <1>5, SMT
<1>10. (r1 + 1) * 4294967296 = x + 12289 * (65536 * w + B)
  BY <1>2, <1>4, <1>5, <1>7, <1>8, SMT
<1> HIDE DEF L
<1> DEFINE K == 65536 * w + B
<1>11. K \in Int
  BY <1>2, <1>4, SMT
<1>12. MQ!mq_mred(x) \in Int /\ 1 <= MQ!mq_mred(x) /\ MQ!mq_mred(x) <= 12289
  BY <1>6, <1>9, SMT
<1>13. MQ!mq_mred(x) * 4294967296 = x + 12289 * K
  BY <1>6, <1>10, SMT
<1> HIDE DEF K
<1>14. \E k \in Int : MQ!mq_mred(x) * 4294967296 = x + 12289 * k
  BY <1>11, <1>13, SMT
<1> QED
  BY <1>12, <1>14, SMT

\* The same modulo q', for fndsa_sign_mq2.c.
THEOREM MredQ2 ==
    ASSUME NEW x \in Int, 1 <= x, x <= 339775489
    PROVE  /\ MQ2!mq_mred(x) \in Int /\ 1 <= MQ2!mq_mred(x) /\ MQ2!mq_mred(x) <= 18433
           /\ \E k \in Int : MQ2!mq_mred(x) * 4294967296 = x + 18433 * k
<1> DEFINE lo == x % 65536
           hi == x \div 65536
           A  == (lo * 18431) \div 65536
           B  == (lo * 18431) % 65536
           W  == A + lo * (-5184) + hi * 18431
           w  == W % 65536
           m  == W \div 65536
           r1 == (w * 18433) \div 65536
           s  == (w * 18433) % 65536
<1>1. lo \in Int /\ hi \in Int /\ x = 65536 * hi + lo /\ 0 <= lo /\ lo < 65536
  BY SMT
<1> HIDE DEF lo, hi
<1>2. A \in Int /\ B \in Int /\ 18431 * lo = 65536 * A + B /\ 0 <= B /\ B < 65536
  BY <1>1, SMT
<1> HIDE DEF A, B
<1>3. W \in Int /\ W = A - 5184 * lo + 18431 * hi
  BY <1>1, <1>2, SMT
<1> HIDE DEF W
<1>4. w \in Int /\ m \in Int /\ W = 65536 * m + w /\ 0 <= w /\ w < 65536
  BY <1>3, SMT
<1> HIDE DEF w, m
<1>5. r1 \in Int /\ s \in Int /\ 18433 * w = 65536 * r1 + s /\ 0 <= s /\ s < 65536
  BY <1>4, SMT
<1> HIDE DEF r1, s
<1>6. MQ2!mq_mred(x) = r1 + 1
  BY SMT DEF MQ2!mq_mred, r1, w, W, A, lo, hi
<1> DEFINE L == 95556672 * hi - 18433 * m - 1458 * x
\* x * Q1I * Q = -x modulo 2^32, written out.
<1>7. 65536 * s + 18433 * B + x = 4294967296 * (L - r1)
  BY <1>1, <1>2, <1>3, <1>4, <1>5, SMT
\* The left-hand side is positive and below 2^33.
<1>8. L \in Int /\ L - r1 = 1
  BY <1>1, <1>2, <1>4, <1>5, <1>7, SMT
<1>9. r1 \in Int /\ 0 <= r1 /\ r1 < 18433
  BY <1>4, <1>5, SMT
<1>10. (r1 + 1) * 4294967296 = x + 18433 * (65536 * w + B)
  BY <1>2, <1>4, <1>5, <1>7, <1>8, SMT
<1> HIDE DEF L
<1> DEFINE K == 65536 * w + B
<1>11. K \in Int
  BY <1>2, <1>4, SMT
<1>12. MQ2!mq_mred(x) \in Int /\ 1 <= MQ2!mq_mred(x) /\ MQ2!mq_mred(x) <= 18433
  BY <1>6, <1>9, SMT
<1>13. MQ2!mq_mred(x) * 4294967296 = x + 18433 * K
  BY <1>6, <1>10, SMT
<1> HIDE DEF K
<1>14. \E k \in Int : MQ2!mq_mred(x) * 4294967296 = x + 18433 * k
  BY <1>11, <1>13, SMT
<1> QED
  BY <1>12, <1>14, SMT

\* u times Q2_IQ_MR in Montgomery representation is u/q modulo q': 3u, since 3q = 2q' + 1.
LEMMA DivideByQ ==
    ASSUME NEW u \in Int, 1 <= u, u <= 18433
    PROVE  /\ MQ2!mq_mmul(u, Q2_IQ_MR) \in Int
           /\ 1 <= MQ2!mq_mmul(u, Q2_IQ_MR) /\ MQ2!mq_mmul(u, Q2_IQ_MR) <= 18433
           /\ \E p \in Int : MQ2!mq_mmul(u, Q2_IQ_MR) = 3 * u + 18433 * p
<1> DEFINE x == u * 13692
           t == MQ2!mq_mred(x)
<1>1. x \in Int /\ x = 13692 * u /\ 1 <= x /\ x <= 339775489
  BY SMT
<1>2. MQ2!mq_mmul(u, Q2_IQ_MR) = t
  BY SMT DEF MQ2!mq_mmul, Q2_IQ_MR
<1> HIDE DEF x
<1>3. /\ t \in Int /\ 1 <= t /\ t <= 18433
      /\ \E k \in Int : t * 4294967296 = x + 18433 * k
  BY <1>1, MredQ2, SMT
<1> HIDE DEF t
<1>4. PICK k \in Int : t * 4294967296 = x + 18433 * k
  BY <1>3, SMT
\* 16975 * 2^32 = 1 modulo q'.
<1> DEFINE p == 12609 * u + 16975 * k - 3955247103 * t
<1>5. p \in Int /\ t = 3 * u + 18433 * p
  BY <1>1, <1>3, <1>4, SMT
<1> HIDE DEF p
<1>6. \E i \in Int : t = 3 * u + 18433 * i
  BY <1>5, SMT
<1> QED
  BY <1>2, <1>3, <1>6, SMT

\* mq2mqpoly_CRT finds every integer v of absolute value below q*q'/2 from its signed
\* residues modulo q = 12289 and q' = 18433.
THEOREM CrtRecovers ==
    ASSUME NEW v \in Int, -113261568 <= v, v <= 113261568,
           NEW xq \in Int, -6144 <= xq, xq <= 6144, \E a \in Int : v = xq + 12289 * a,
           NEW xq2 \in Int, -9216 <= xq2, xq2 <= 9216, \E b \in Int : v = xq2 + 18433 * b
    PROVE  CrtCoef(xq, xq2) = v
<1>a. PICK a \in Int : v = xq + 12289 * a
  OBVIOUS
<1>b. PICK b \in Int : v = xq2 + 18433 * b
  OBVIOUS
<1> USE <1>a, <1>b
<1> DEFINE x == xq2 - xq
           u == MQ2!coef_signed_to_int(x)
           t == MQ2!mq_mmul(u, Q2_IQ_MR)
           V == xq + 12289 * t
<1>1. x \in Int /\ x = 12289 * a - 18433 * b /\ -15360 <= x /\ x <= 15360
  BY SMT
<1>2. CrtCoef(xq, xq2) = IF V > 113261568 THEN V - 226523137 ELSE V
  <2>1. (q * q2) \div 2 = 113261568 /\ q * q2 = 226523137
    BY SMT DEF q, q2
  <2> QED
    BY <2>1, SMT DEF CrtCoef, q
<1> HIDE DEF x
<1>3. u \in Int /\ 1 <= u /\ u <= 18433 /\ (u = x \/ u = x + 18433)
  BY <1>1, SMT DEF MQ2!coef_signed_to_int, MQ2!AddBack
<1> HIDE DEF u
<1>4. /\ t \in Int /\ 1 <= t /\ t <= 18433
      /\ \E i \in Int : t = 3 * u + 18433 * i
  BY <1>3, DivideByQ, SMT
<1> HIDE DEF t
<1>5. PICK p \in Int : t = 3 * u + 18433 * p
  BY <1>4, SMT
\* The quotient agrees with a modulo q'.
<1>6. \E i \in Int : t = a + 18433 * i
  <2>1. CASE u = x
    <3> DEFINE i == 2 * a - 3 * b + p
    <3>1. i \in Int /\ t = a + 18433 * i
      BY <2>1, <1>1, <1>3, <1>4, <1>5, SMT
    <3> HIDE DEF i
    <3> QED
      BY <3>1, SMT
  <2>2. CASE u = x + 18433
    <3> DEFINE i == 2 * a - 3 * b + 3 + p
    <3>1. i \in Int /\ t = a + 18433 * i
      BY <2>2, <1>1, <1>3, <1>4, <1>5, SMT
    <3> HIDE DEF i
    <3> QED
      BY <3>1, SMT
  <2> QED
    BY <1>3, <2>1, <2>2, SMT
<1>7. PICK i \in Int : t = a + 18433 * i
  BY <1>6, SMT
<1>8. V \in Int /\ V = v + 226523137 * i /\ 6145 <= V /\ V <= 226529281
  BY <1>4, <1>7, SMT
<1> HIDE DEF V
<1>9. CASE V > 113261568
  <2>1. i = 1
    BY <1>8, <1>9, SMT
  <2> QED
    BY <2>1, <1>2, <1>8, <1>9, SMT
<1>10. CASE ~(V > 113261568)
  <2>1. i = 0
    BY <1>8, <1>10, SMT
  <2> QED
    BY <2>1, <1>2, <1>8, <1>10, SMT
<1> QED
  BY <1>9, <1>10, SMT

-----------------------------------------------------------------------------
(* The loop of sign_core().                                                  *)

\* The loop body is a sequence of statements, and not empty.
LEMMA BodyLength == Len(Body) \in Nat \ {0}
<1>1. GramBothModuli = [i \in 1..18 |-> GramBothModuli[i]]
  BY DEF GramBothModuli
<1>2. FirstCentre = [i \in 1..8 |-> FirstCentre[i]]
  BY DEF FirstCentre
<1>3. RebuildG = [i \in 1..29 |-> RebuildG[i]]
  BY DEF RebuildG
<1>4. SecondCentre = [i \in 1..20 |-> SecondCentre[i]]
  BY DEF SecondCentre
<1>5. BuildS1 = [i \in 1..34 |-> BuildS1[i]]
  BY DEF BuildS1
<1>6. BuildS0 = [i \in 1..11 |-> BuildS0[i]]
  BY DEF BuildS0
<1> DEFINE S == {GramBothModuli[i] : i \in 1..18} \cup {FirstCentre[i] : i \in 1..8}
                \cup {RebuildG[i] : i \in 1..29} \cup {SecondCentre[i] : i \in 1..20}
                \cup {BuildS1[i] : i \in 1..34} \cup {BuildS0[i] : i \in 1..11}
                \cup {<<"ffsamp", 16>>, <<"ffsamp", 18>>}
<1>7. <<<<"ffsamp", 16>>>> \in Seq(S) /\ <<<<"ffsamp", 18>>>> \in Seq(S)
  <2>1. <<"ffsamp", 16>> \in S /\ <<"ffsamp", 18>> \in S
    OBVIOUS
  <2> HIDE DEF S
  <2> QED
    BY <2>1
<1>8. /\ GramBothModuli \in Seq(S) /\ FirstCentre \in Seq(S) /\ RebuildG \in Seq(S)
      /\ SecondCentre \in Seq(S) /\ BuildS1 \in Seq(S) /\ BuildS0 \in Seq(S)
  <2>1. /\ \A i \in 1..18 : GramBothModuli[i] \in S
        /\ \A i \in 1..8 : FirstCentre[i] \in S
        /\ \A i \in 1..29 : RebuildG[i] \in S
        /\ \A i \in 1..20 : SecondCentre[i] \in S
        /\ \A i \in 1..34 : BuildS1[i] \in S
        /\ \A i \in 1..11 : BuildS0[i] \in S
    OBVIOUS
  <2> HIDE DEF S
  <2>2. GramBothModuli \in Seq(S)
    BY <1>1, <2>1
  <2>3. FirstCentre \in Seq(S)
    BY <1>2, <2>1
  <2>4. RebuildG \in Seq(S)
    BY <1>3, <2>1
  <2>5. SecondCentre \in Seq(S)
    BY <1>4, <2>1
  <2>6. BuildS1 \in Seq(S)
    BY <1>5, <2>1
  <2>7. BuildS0 \in Seq(S)
    BY <1>6, <2>1
  <2> QED
    BY <2>2, <2>3, <2>4, <2>5, <2>6, <2>7
<1>9. Len(<<<<"ffsamp", 16>>>>) > 0
  OBVIOUS
<1> DEFINE first == <<<<"ffsamp", 16>>>>
           second == <<<<"ffsamp", 18>>>>
<1> HIDE DEF S, first, second
<1>10. /\ first \in Seq(S) /\ second \in Seq(S) /\ Len(first) > 0
       /\ Body = GramBothModuli \o FirstCentre \o first \o RebuildG \o SecondCentre \o second
                     \o BuildS1 \o BuildS0
  BY <1>7, <1>9 DEF Body, first, second
<1>11. ASSUME NEW s \in Seq(S), NEW t \in Seq(S)
       PROVE  s \o t \in Seq(S) /\ Len(s \o t) = Len(s) + Len(t)
  OBVIOUS
<1> QED
  BY <1>8, <1>10, <1>11

-----------------------------------------------------------------------------
\* Where a call is: an attempt under way is one of the MaxAttempts, and the next statement
\* is one of the body.
CallOK ==
    /\ counter \in 0..MaxAttempts /\ line \in 1..(Len(Body) + 1)
    /\ pc \in {"attempt", "body", "check", "done"}
    /\ pc = "body" => line <= Len(Body)
    /\ pc \in {"body", "check"} => counter < MaxAttempts

\* Every step but the return keeps CallOK and adds to Progress: a statement one line, a
\* rejected vector an attempt, worth more than all the lines of the body.
LEMMA StepAdvances ==
    ASSUME CallOK, Next, vars' # vars
    PROVE  CallOK' /\ Progress' > Progress /\ counter' <= MaxAttempts
<1> DEFINE L == Len(Body)
           K == L + 3
<1>0. L \in Nat \ {0} /\ K \in Nat /\ K = L + 3 /\ MaxAttempts \in Nat \ {0}
  BY BodyLength, AttemptsAssumption
<1>1. /\ counter \in Nat /\ line \in Nat /\ counter * K \in Nat
      /\ (counter + 1) * K = counter * K + K
  BY <1>0 DEF CallOK
<1>2. /\ Progress = counter * K + (CASE pc = "attempt" -> 0
                                     [] pc = "body"    -> line
                                     [] pc = "check"   -> L + 1
                                     [] pc = "done"    -> L + 2)
      /\ Progress' = counter' * K + (CASE pc' = "attempt" -> 0
                                       [] pc' = "body"    -> line'
                                       [] pc' = "check"   -> L + 1
                                       [] pc' = "done"    -> L + 2)
  BY DEF Progress
<1> HIDE DEF L, K
<1>3. CASE Attempt
  BY <1>0, <1>1, <1>2, <1>3 DEF Attempt, CallOK, L
<1>4. CASE pc = "body" /\ Advance /\ counter' = counter
  BY <1>0, <1>1, <1>2, <1>4 DEF Advance, CallOK, L
<1>5. CASE CheckNorm
  <2>1. CASE pc' = "done" /\ UNCHANGED line
    <3>1. pc = "body" /\ line' = line /\ counter' = counter
      BY <1>5, <2>1 DEF CheckNorm, At
    <3> QED
      BY <1>0, <1>1, <1>2, <2>1, <3>1 DEF CallOK, L
  <2>2. CASE Advance
    BY <1>4, <1>5, <2>2 DEF CheckNorm, At
  <2> QED
    BY <1>5, <2>1, <2>2 DEF CheckNorm
<1>6. CASE Check
  BY <1>0, <1>1, <1>2, <1>6 DEF Check, CallOK, L
<1>7. CASE Statement \/ AdjustSave \/ Adjust \/ FfSamp1 \/ FfSamp2
  BY <1>4, <1>7 DEF Statement, AdjustSave, Adjust, FfSamp1, FfSamp2, At
<1> QED
  BY <1>3, <1>5, <1>6, <1>7 DEF Next, Returned

\* CallOK holds in every reachable state.
LEMMA CallInvariance == Spec => []CallOK
<1>1. Init => CallOK
  BY BodyLength, AttemptsAssumption DEF Init, CallOK
<1>2. CallOK /\ [Next]_vars => CallOK'
  <2> SUFFICES ASSUME CallOK, [Next]_vars PROVE CallOK'
    OBVIOUS
  <2>1. CASE vars' = vars
    BY <2>1 DEF vars, CallOK
  <2>2. CASE vars' # vars
    BY <2>2, StepAdvances
  <2> QED
    BY <2>1, <2>2
<1> QED
  BY <1>1, <1>2, PTL DEF Spec

\* sign_core() comes to its return for every key, hash, sampler and number of attempts:
\* each step adds to Progress, which CallOK bounds, so no call runs forever.
THEOREM CallAdvances == Spec => SignAdvances
<1>1. CallOK /\ [Next]_vars => [Progress' > Progress /\ counter' <= MaxAttempts]_vars
  BY StepAdvances
<1> QED
  BY <1>1, CallInvariance, PTL DEF Spec, SignAdvances

-----------------------------------------------------------------------------
(* Residues.                                                                 *)

R == 4294967296   \* 2^32

\* Equal modulo p.
Cong(p, x, y) == \E k \in Int : x = y + p * k
\* t is x modulo p as the code keeps it, zero being p.
Res(p, t, x) == t \in 1..p /\ Cong(p, t, x)

LEMMA CongSame == ASSUME NEW p \in Int, NEW x \in Int PROVE Cong(p, x, x)
<1>1. 0 \in Int /\ x = x + p * 0
  OBVIOUS
<1> QED
  BY <1>1 DEF Cong

LEMMA CongTurn ==
  ASSUME NEW p \in Int, NEW x \in Int, NEW y \in Int, Cong(p, x, y) PROVE Cong(p, y, x)
<1>1. PICK k \in Int : x = y + p * k
  BY Zenon DEF Cong
<1> DEFINE i == -k
<1>2. i \in Int /\ p * i = -(p * k)
  OBVIOUS
<1>3. y = x + p * i
  BY <1>1, <1>2
<1> HIDE DEF i
<1> QED
  BY <1>2, <1>3 DEF Cong

LEMMA CongTrans ==
  ASSUME NEW p \in Int, NEW x \in Int, NEW y \in Int, NEW w \in Int, Cong(p, x, y), Cong(p, y, w)
  PROVE  Cong(p, x, w)
<1>1. PICK k \in Int : x = y + p * k
  BY Zenon DEF Cong
<1>2. PICK l \in Int : y = w + p * l
  BY Zenon DEF Cong
<1> DEFINE i == k + l
<1>3. i \in Int /\ p * i = p * k + p * l
  OBVIOUS
<1>4. x = w + p * i
  BY <1>1, <1>2, <1>3
<1> HIDE DEF i
<1> QED
  BY <1>3, <1>4 DEF Cong

LEMMA CongSum ==
  ASSUME NEW p \in Int, NEW x \in Int, NEW y \in Int, NEW u \in Int, NEW v \in Int,
         Cong(p, x, y), Cong(p, u, v)
  PROVE  Cong(p, x + u, y + v) /\ Cong(p, x - u, y - v)
<1>1. PICK k \in Int : x = y + p * k
  BY Zenon DEF Cong
<1>2. PICK l \in Int : u = v + p * l
  BY Zenon DEF Cong
<1> DEFINE i == k + l
           j == k - l
<1>3. i \in Int /\ p * i = p * k + p * l /\ j \in Int /\ p * j = p * k - p * l
  OBVIOUS
<1>4. x + u = (y + v) + p * i /\ x - u = (y - v) + p * j
  BY <1>1, <1>2, <1>3
<1> HIDE DEF i, j
<1> QED
  BY <1>3, <1>4 DEF Cong

LEMMA CongTimes ==
  ASSUME NEW p \in Int, NEW x \in Int, NEW y \in Int, NEW c \in Int, Cong(p, x, y)
  PROVE  Cong(p, c * x, c * y)
<1>1. PICK k \in Int : x = y + p * k
  BY Zenon DEF Cong
<1> DEFINE i == c * k
<1>2. i \in Int /\ p * i = c * (p * k)
  OBVIOUS
<1>3. c * x = c * y + c * (p * k)
  BY <1>1
<1>4. c * x = c * y + p * i
  BY <1>2, <1>3
<1> HIDE DEF i
<1> QED
  BY <1>2, <1>4 DEF Cong

LEMMA CongProduct ==
  ASSUME NEW p \in Int, NEW x \in Int, NEW y \in Int, NEW u \in Int, NEW v \in Int,
         Cong(p, x, y), Cong(p, u, v)
  PROVE  Cong(p, x * u, y * v)
<1>1. Cong(p, u * x, u * y)
  BY CongTimes
<1>2. Cong(p, y * u, y * v)
  BY CongTimes
<1>3. u * x = x * u /\ u * y = y * u /\ x * u \in Int /\ y * u \in Int /\ y * v \in Int
  OBVIOUS
<1>4. Cong(p, x * u, y * u)
  BY <1>1, <1>3
<1> DEFINE a == x * u
           b == y * u
           c == y * v
<1>5. a \in Int /\ b \in Int /\ c \in Int /\ Cong(p, a, b) /\ Cong(p, b, c)
  BY <1>2, <1>3, <1>4
<1> HIDE DEF a, b, c
<1>6. Cong(p, a, c)
  BY <1>5, CongTrans
<1> QED
  BY <1>6 DEF a, c

\* Numbers less than p apart that are equal modulo p are equal.
LEMMA CongEqual ==
  ASSUME NEW p \in Int, p > 0, NEW x \in Int, NEW y \in Int, Cong(p, x, y), -p < x - y, x - y < p
  PROVE  x = y
<1>1. PICK k \in Int : x = y + p * k
  BY Zenon DEF Cong
<1>2. CASE k = 0
  BY <1>1, <1>2
<1>3. CASE k >= 1
  <2>1. p * k >= p
    <3>1. p * k = p + p * (k - 1) /\ k - 1 >= 0
      BY <1>3
    <3>2. p * (k - 1) >= 0
      BY <1>3
    <3> QED
      BY <3>1, <3>2
  <2> QED
    BY <1>1, <2>1
<1>4. CASE k <= -1
  <2>1. p * k <= -p
    <3>1. p * k = -p + p * (k + 1) /\ k + 1 <= 0
      BY <1>4
    <3>2. p * (k + 1) <= 0
      BY <1>4
    <3> QED
      BY <3>1, <3>2
  <2> QED
    BY <1>1, <2>1
<1> QED
  BY <1>2, <1>3, <1>4

\* The moduli as numbers.
LEMMA Moduli == q = 12289 /\ q2 = 18433 /\ q \in Int /\ q2 \in Int
  BY SMT DEF q, q2

LEMMA ModInt == q \in Int /\ q2 \in Int
  BY SMT DEF q, q2

LEMMA CongBy ==
  ASSUME NEW p \in Int, NEW x \in Int, NEW y \in Int, NEW k \in Int, x = y + p * k
  PROVE  Cong(p, x, y)
  BY Zenon DEF Cong

LEMMA ResCong ==
  ASSUME NEW p \in Int, NEW t, t \in Int, NEW x \in Int, NEW y \in Int, Res(p, t, x), Cong(p, x, y)
  PROVE  Res(p, t, y)
<1>1. t \in 1..p /\ Cong(p, t, x)
  BY Zenon DEF Res
<1>2. Cong(p, t, y)
  BY <1>1, CongTrans, Zenon
<1> QED
  BY <1>1, <1>2, Zenon DEF Res

Poly == [Coef -> Int]

\* Coefficients that coef_signed_to_int can make residues of.
Within(p, x) == \A i \in Coef : -p < x[i] /\ x[i] <= p
\* d holds x as coefficients modulo p.
Value(p, d, x) == \A i \in Coef : Res(p, d[i], x[i])
\* d holds what x is at the roots w and -w of X^2 + 1 modulo p.
Roots(p, w, d, x) == Res(p, d[0], x[0] + w * x[1]) /\ Res(p, d[1], x[0] - w * x[1])

LEMMA RingOps ==
  ASSUME NEW x \in Poly, NEW y \in Poly
  PROVE  /\ Plus(x, y) \in Poly /\ Plus(x, y)[0] = x[0] + y[0] /\ Plus(x, y)[1] = x[1] + y[1]
         /\ Minus(x, y) \in Poly /\ Minus(x, y)[0] = x[0] - y[0] /\ Minus(x, y)[1] = x[1] - y[1]
         /\ Times(x, y) \in Poly /\ Times(x, y)[0] = x[0] * y[0] - x[1] * y[1]
         /\ Times(x, y)[1] = x[0] * y[1] + x[1] * y[0]
         /\ Adj(x) \in Poly /\ Adj(x)[0] = x[0] /\ Adj(x)[1] = -x[1]
         /\ x[0] \in Int /\ x[1] \in Int
  BY DEF Poly, Plus, Minus, Times, Adj, Coef

\* A product of values at w is the value of the product.
LEMMA RootProduct ==
  ASSUME NEW p \in Int, NEW w \in Int, Cong(p, w * w, -1), NEW x \in Poly, NEW y \in Poly
  PROVE  Cong(p, (x[0] + w * x[1]) * (y[0] + w * y[1]), Times(x, y)[0] + w * Times(x, y)[1])
<1> DEFINE a == x[0]
           b == x[1]
           c == y[0]
           d == y[1]
<1>1. a \in Int /\ b \in Int /\ c \in Int /\ d \in Int
  BY DEF Poly, Coef
<1>2. Times(x, y)[0] = a * c - b * d /\ Times(x, y)[1] = a * d + b * c
  BY RingOps, Zenon
<1> HIDE DEF a, b, c, d
<1>3. PICK k \in Int : w * w = -1 + p * k
  <2>1. -1 \in Int /\ w * w \in Int
    OBVIOUS
  <2> QED
    BY Zenon DEF Cong
<1> DEFINE l == (a + w * b) * (c + w * d)
           r == (a * c - b * d) + w * (a * d + b * c)
           i == k * (b * d)
<1>4. l \in Int /\ r \in Int /\ i \in Int
  BY <1>1
<1>5. l = r + ((w * w) * (b * d) + b * d)
  BY <1>1
<1>6. (w * w) * (b * d) = -(b * d) + p * i
  <2> DEFINE bd == b * d
             ww == w * w
             pk == p * k
  <2>1. bd \in Int /\ ww \in Int /\ pk \in Int /\ ww = -1 + pk
    BY <1>1, <1>3
  <2>2. pk * bd = p * i
    BY <1>1
  <2> HIDE DEF bd, ww, pk, i
  <2>3. ww * bd = -bd + pk * bd
    BY <2>1
  <2> QED
    BY <2>2, <2>3 DEF bd, ww
<1>7. b * d \in Int /\ p * i \in Int
  BY <1>1
<1>8. l = r + p * i
  BY <1>4, <1>5, <1>6, <1>7
<1> HIDE DEF l, r, i
<1>9. Cong(p, l, r)
  BY <1>4, <1>8, CongBy
<1> QED
  BY <1>2, <1>9, Zenon DEF l, r, a, b, c, d

\* The same at -w.
LEMMA OtherRootProduct ==
  ASSUME NEW p \in Int, NEW w \in Int, Cong(p, w * w, -1), NEW x \in Poly, NEW y \in Poly
  PROVE  Cong(p, (x[0] - w * x[1]) * (y[0] - w * y[1]), Times(x, y)[0] - w * Times(x, y)[1])
<1> DEFINE v == -w
<1>1. v \in Int /\ v * v = w * w
  OBVIOUS
<1>2. \A c \in Int : v * c = -(w * c)
  OBVIOUS
<1> HIDE DEF v
<1>3. Cong(p, v * v, -1)
  BY <1>1
<1>4. Cong(p, (x[0] + v * x[1]) * (y[0] + v * y[1]), Times(x, y)[0] + v * Times(x, y)[1])
  BY <1>1, <1>3, RootProduct, Zenon
<1>5. /\ x[0] \in Int /\ x[1] \in Int /\ y[0] \in Int /\ y[1] \in Int
      /\ Times(x, y)[0] \in Int /\ Times(x, y)[1] \in Int
  BY RingOps DEF Poly, Coef
<1>6. /\ x[0] + v * x[1] = x[0] - w * x[1] /\ y[0] + v * y[1] = y[0] - w * y[1]
      /\ Times(x, y)[0] + v * Times(x, y)[1] = Times(x, y)[0] - w * Times(x, y)[1]
  BY <1>2, <1>5
<1> QED
  BY <1>4, <1>6

LEMMA IndexIs ==
  /\ MQ!N = 2 /\ MQ!Idx = Coef /\ MQ2!N = 2 /\ MQ2!Idx = Coef /\ Ix = Coef
  /\ 2 ^ LogN = 2 /\ 2 ^ (LogN - 0) = 2 /\ 2 ^ 0 = 1 /\ 2 ^ (LogN - 1 - 0) = 1 /\ LogN = 1
<1>1. 2 ^ 1 = 2 /\ 2 ^ 0 = 1
  BY SMT
<1>2. LogN - 0 = 1 /\ LogN - 1 - 0 = 0 /\ LogN = 1
  BY DegreeAssumption
<1>3. 0..1 = Coef /\ 2 - 1 = 1
  BY DEF Coef
<1> QED
  BY <1>1, <1>2, <1>3, Zenon DEF MQ!N, MQ!Idx, MQ2!N, MQ2!Idx, Ix

LEMMA RootOps ==
  ASSUME NEW w \in Int, NEW x \in Poly, NEW y \in Poly
  PROVE  /\ x[0] + w * x[1] \in Int /\ x[0] - w * x[1] \in Int
         /\ Adj(x)[0] + w * Adj(x)[1] = x[0] - w * x[1] /\ Adj(x)[0] - w * Adj(x)[1] = x[0] + w * x[1]
         /\ Plus(x, y)[0] + w * Plus(x, y)[1] = (x[0] + w * x[1]) + (y[0] + w * y[1])
         /\ Plus(x, y)[0] - w * Plus(x, y)[1] = (x[0] - w * x[1]) + (y[0] - w * y[1])
         /\ Minus(x, y)[0] + w * Minus(x, y)[1] = (x[0] + w * x[1]) - (y[0] + w * y[1])
         /\ Minus(x, y)[0] - w * Minus(x, y)[1] = (x[0] - w * x[1]) - (y[0] - w * y[1])
<1>1. /\ x[0] \in Int /\ x[1] \in Int /\ y[0] \in Int /\ y[1] \in Int
      /\ Plus(x, y)[0] = x[0] + y[0] /\ Plus(x, y)[1] = x[1] + y[1]
      /\ Minus(x, y)[0] = x[0] - y[0] /\ Minus(x, y)[1] = x[1] - y[1]
      /\ Adj(x)[0] = x[0] /\ Adj(x)[1] = -x[1]
  BY RingOps, Zenon
<1> DEFINE a == x[0]
           b == x[1]
           c == y[0]
           d == y[1]
<1>2. a \in Int /\ b \in Int /\ c \in Int /\ d \in Int
  BY <1>1
<1> HIDE DEF a, b, c, d
<1>3. /\ w * (b + d) = w * b + w * d /\ w * (b - d) = w * b - w * d /\ w * (-b) = -(w * b)
      /\ w * b \in Int /\ w * d \in Int
  BY <1>2
<1>4. /\ a + w * b \in Int /\ a - w * b \in Int
      /\ a + w * (-b) = a - w * b /\ a - w * (-b) = a + w * b
      /\ (a + c) + w * (b + d) = (a + w * b) + (c + w * d)
      /\ (a + c) - w * (b + d) = (a - w * b) + (c - w * d)
      /\ (a - c) + w * (b - d) = (a + w * b) - (c + w * d)
      /\ (a - c) - w * (b - d) = (a - w * b) - (c - w * d)
  BY <1>2, <1>3
<1> QED
  BY <1>1, <1>4, Zenon DEF a, b, c, d

LEMMA RootPlus ==
  ASSUME NEW w \in Int, NEW x \in Poly, NEW y \in Poly
  PROVE  /\ Plus(x, y)[0] + w * Plus(x, y)[1] = (x[0] + w * x[1]) + (y[0] + w * y[1])
         /\ Plus(x, y)[0] - w * Plus(x, y)[1] = (x[0] - w * x[1]) + (y[0] - w * y[1])
  BY RootOps, Zenon

LEMMA RootMinus ==
  ASSUME NEW w \in Int, NEW x \in Poly, NEW y \in Poly
  PROVE  /\ Minus(x, y)[0] + w * Minus(x, y)[1] = (x[0] + w * x[1]) - (y[0] + w * y[1])
         /\ Minus(x, y)[0] - w * Minus(x, y)[1] = (x[0] - w * x[1]) - (y[0] - w * y[1])
  BY RootOps, Zenon

LEMMA RootAdj ==
  ASSUME NEW w \in Int, NEW x \in Poly
  PROVE  Adj(x) \in Poly /\ Adj(x)[0] + w * Adj(x)[1] = x[0] - w * x[1] /\ Adj(x)[0] - w * Adj(x)[1] = x[0] + w * x[1]
<1>1. Adj(x) \in Poly
  BY RingOps, Zenon
<1>2. Adj(x)[0] + w * Adj(x)[1] = x[0] - w * x[1] /\ Adj(x)[0] - w * Adj(x)[1] = x[0] + w * x[1]
  BY RootOps, Zenon
<1> QED
  BY <1>1, <1>2, Zenon

-----------------------------------------------------------------------------
(* The transforms modulo q.                                             *)

\* Multiplication by a constant that stands for e in Montgomery representation.
LEMMA MulByMQ ==
  ASSUME NEW t, NEW x \in Int, Res(q, t, x), NEW c \in 1..q, NEW e \in Int, Cong(q, c, R * e)
  PROVE  Res(q, MQ!mq_mmul(t, c), x * e)
<1> DEFINE tc == t * c
           m == MQ!mq_mred(tc)
           Re == R * e
           y == x * e
<1>1. t \in 1..q /\ Cong(q, t, x)
  BY Zenon DEF Res
<1>2. t \in Int /\ 1 <= t /\ t <= 12289 /\ c \in Int /\ 1 <= c /\ c <= 12289
  BY <1>1, Moduli, SMT
<1>3. tc \in Int /\ 1 <= tc /\ tc <= 151019521
  <2>1. 1 * 1 <= t * c /\ t * c <= 12289 * 12289
    BY <1>2, SMT
  <2> QED
    BY <1>2, <2>1, SMT
<1>4. MQ!mq_mmul(t, c) = m
  BY Zenon DEF MQ!mq_mmul
<1>5. Re \in Int /\ y \in Int /\ x * Re \in Int
  BY SMT DEF R
<1>6. Cong(q, tc, x * Re)
  <2>1. t \in Int /\ c \in Int
    BY <1>2, SMT
  <2> QED
    BY <1>1, <1>5, <2>1, ModInt, CongProduct, Zenon
<1> HIDE DEF tc
<1>7. /\ m \in Int /\ 1 <= m /\ m <= 12289
      /\ \E k \in Int : m * 4294967296 = tc + 12289 * k
  BY <1>3, MredQ, SMT
<1> HIDE DEF m, Re, y
<1>8. Cong(q, m, y)
  <2>1. PICK l \in Int : tc = x * Re + q * l
    BY <1>6, Zenon DEF Cong
  <2>2. PICK k \in Int : m * 4294967296 = tc + 12289 * k
    BY <1>7, SMT
  \* 11857 * 2^32 = 1 modulo q.
  <2> DEFINE i == 11857 * k + 11857 * l + 4143984639 * y - 4143984639 * m
  <2>3. x * Re = 4294967296 * y
    BY SMT DEF R, Re, y
  <2>4. i \in Int /\ m = y + q * i
    BY <1>5, <2>1, <1>7, <2>2, <2>3, Moduli, SMT
  <2> HIDE DEF i
  <2>5. m \in Int
    BY <1>7, SMT
  <2> QED
    BY <1>5, <2>4, <2>5, ModInt, CongBy, Zenon
<1>9. m \in 1..q
  BY <1>7, Moduli, SMT
<1> QED
  BY <1>4, <1>8, <1>9, Zenon DEF Res, y

\* What the operations on one coefficient compute.
LEMMA SumMQ ==
  ASSUME NEW s, NEW x \in Int, Res(q, s, x), NEW t, NEW y \in Int, Res(q, t, y)
  PROVE  Res(q, MQ!mq_add(s, t), x + y) /\ Res(q, MQ!mq_sub(s, t), x - y)
<1>1. s \in 1..q /\ Cong(q, s, x) /\ t \in 1..q /\ Cong(q, t, y)
  BY Zenon DEF Res
<1> DEFINE a == MQ!mq_add(s, t)
           b == MQ!mq_sub(s, t)
           v == s + t
           w == s - t
<1>2. /\ s \in Int /\ t \in Int /\ v \in Int /\ w \in Int /\ x + y \in Int /\ x - y \in Int
      /\ 0 \in Int /\ 1 \in Int /\ -1 \in Int
  BY <1>1, Moduli, SMT
<1>3. a \in 1..q /\ a \in Int /\ (a = v + q * 0 \/ a = v + q * (-1))
  <2>1. s \in Int /\ 1 <= s /\ s <= 12289 /\ t \in Int /\ 1 <= t /\ t <= 12289
    BY <1>1, Moduli, SMT
  <2>2. a = IF 12289 - (s + t) < 0 THEN s + t - 12289 ELSE s + t
    BY <2>1, SMT DEF MQ!mq_add, MQ!AddBack
  <2> HIDE DEF a
  <2> QED
    BY <2>1, <2>2, Moduli, SMT
<1>4. b \in 1..q /\ b \in Int /\ (b = w + q * 0 \/ b = w + q * 1)
  <2>1. s \in Int /\ 1 <= s /\ s <= 12289 /\ t \in Int /\ 1 <= t /\ t <= 12289
    BY <1>1, Moduli, SMT
  <2>2. b = IF t - s < 0 THEN s - t ELSE s - t + 12289
    BY <2>1, SMT DEF MQ!mq_sub, MQ!AddBack
  <2> HIDE DEF b
  <2> QED
    BY <2>1, <2>2, Moduli, SMT
<1>5. Cong(q, v, x + y) /\ Cong(q, w, x - y)
  BY <1>1, <1>2, ModInt, CongSum, Zenon
<1> HIDE DEF a, b, v, w
<1>6. Cong(q, a, v) /\ Cong(q, b, w)
  BY <1>2, <1>3, <1>4, ModInt, CongBy, Zenon
<1>7. Cong(q, a, x + y) /\ Cong(q, b, x - y)
  BY <1>2, <1>3, <1>4, <1>5, <1>6, ModInt, CongTrans, Zenon
<1> QED
  BY <1>3, <1>4, <1>7, Zenon DEF Res, a, b

LEMMA HalfMQ ==
  ASSUME NEW s, NEW x \in Int, Res(q, s, 2 * x)
  PROVE  Res(q, MQ!mq_half(s), x)
<1>1. s \in 1..q /\ Cong(q, s, 2 * x)
  BY Zenon DEF Res
<1>2. PICK k \in Int : s = 2 * x + q * k
  BY <1>1, Zenon DEF Cong
<1> DEFINE h == MQ!mq_half(s)
           i == IF 2 * h = s THEN h - x - 6144 * k ELSE h - x - 6144 * (k + 1)
<1>3. h \in 1..q /\ h \in Int /\ (2 * h = s \/ 2 * h = s + q)
  <2>1. s \in Int /\ 1 <= s /\ s <= 12289
    BY <1>1, Moduli, SMT
  <2>2. h = (IF s % 2 = 1 THEN s + 12289 ELSE s) \div 2
    BY <2>1, SMT DEF MQ!mq_half
  <2> HIDE DEF h
  <2> QED
    BY <2>1, <2>2, Moduli, SMT
<1> HIDE DEF h
<1>4. i \in Int /\ h = x + q * i
  BY <1>2, <1>3, Moduli, SMT
<1> HIDE DEF i
<1>5. Cong(q, h, x)
  BY <1>3, <1>4, ModInt, CongBy, Zenon
<1> QED
  BY <1>3, <1>5, Zenon DEF Res, h

\* The root w of X^2 + 1, half its inverse e, 2^32 (b) and its inverse (ri); and what the code
\* has for the first three in Montgomery representation.
gMQ == 11183
igMQ == 553
rMQ == 5664
wMQ == 10810
eMQ == 6884
bMQ == 10952
riMQ == 11857

LEMMA IntsMQ ==
  /\ gMQ \in 1..q /\ igMQ \in 1..q /\ rMQ \in 1..q /\ wMQ \in Int /\ eMQ \in Int
  /\ bMQ \in Int /\ riMQ \in Int /\ R \in Int
  BY SMT DEF gMQ, igMQ, rMQ, wMQ, eMQ, bMQ, riMQ, R, q

LEMMA ConstsMQ ==
  /\ Cong(q, gMQ, R * wMQ) /\ Cong(q, igMQ, R * eMQ) /\ Cong(q, rMQ, R * bMQ)
  /\ Cong(q, wMQ * wMQ, -1) /\ Cong(q, 2 * (wMQ * eMQ), 1)
  /\ Cong(q, riMQ * bMQ, 1) /\ Cong(q, R * riMQ, 1)
<1> DEFINE Rw == R * wMQ
           Re == R * eMQ
           Rb == R * bMQ
           ww == wMQ * wMQ
           we == 2 * (wMQ * eMQ)
           rb == riMQ * bMQ
           Rr == R * riMQ
           k1 == -3778061393
           k2 == -2405936599
           k3 == -3827689952
           k4 == 9509
           k5 == 12111
           k6 == 10567
           k7 == 4143984639
<1>1. /\ gMQ \in Int /\ Rw \in Int /\ k1 \in Int /\ gMQ = Rw + q * k1
      /\ igMQ \in Int /\ Re \in Int /\ k2 \in Int /\ igMQ = Re + q * k2
      /\ rMQ \in Int /\ Rb \in Int /\ k3 \in Int /\ rMQ = Rb + q * k3
  BY SMT DEF gMQ, igMQ, rMQ, wMQ, eMQ, bMQ, R, q
<1>2. /\ ww \in Int /\ -1 \in Int /\ k4 \in Int /\ ww = -1 + q * k4
      /\ we \in Int /\ 1 \in Int /\ k5 \in Int /\ we = 1 + q * k5
      /\ rb \in Int /\ k6 \in Int /\ rb = 1 + q * k6
      /\ Rr \in Int /\ k7 \in Int /\ Rr = 1 + q * k7
  BY SMT DEF wMQ, eMQ, bMQ, riMQ, R, q
<1> HIDE DEF Rw, Re, Rb, ww, we, rb, Rr, k1, k2, k3, k4, k5, k6, k7
<1>3. Cong(q, gMQ, Rw) /\ Cong(q, igMQ, Re) /\ Cong(q, rMQ, Rb)
  BY <1>1, ModInt, CongBy, Zenon
<1>4. Cong(q, ww, -1) /\ Cong(q, we, 1) /\ Cong(q, rb, 1) /\ Cong(q, Rr, 1)
  BY <1>2, ModInt, CongBy, Zenon
<1> QED
  BY <1>3, <1>4, Zenon DEF Rw, Re, Rb, ww, we, rb, Rr

\* Residues are integers.
LEMMA ResIntMQ == ASSUME NEW t, NEW x, Res(q, t, x) PROVE t \in Int /\ t \in 1..q
<1>1. t \in 1..q
  BY Zenon DEF Res
<1> QED
  BY <1>1, ModInt

\* One Montgomery product leaves a factor 2^-32.
LEMMA InnerMQ ==
  ASSUME NEW s, NEW x \in Int, Res(q, s, x), NEW t, NEW y \in Int, Res(q, t, y)
  PROVE  Res(q, MQ!mq_mmul(s, t), (x * y) * riMQ)
<1> DEFINE e1 == y * riMQ
           xy == x * y
<1>1. t \in 1..q /\ t \in Int /\ Cong(q, t, y)
  BY ResIntMQ, Zenon DEF Res
<1>2. e1 \in Int /\ R * riMQ \in Int /\ 1 \in Int
  BY IntsMQ
<1>3. Cong(q, t, R * e1)
  <2>1. Cong(q, y * (R * riMQ), y * 1)
    BY <1>2, ModInt, ConstsMQ, CongTimes, Zenon
  <2>2. y * (R * riMQ) = R * e1 /\ y * 1 = y /\ R * e1 \in Int
    BY IntsMQ
  <2>3. Cong(q, y, R * e1)
    BY <2>1, <2>2, ModInt, CongTurn
  <2> QED
    BY <1>1, <2>2, <2>3, ModInt, CongTrans, Zenon
<1>4. Res(q, MQ!mq_mmul(s, t), x * e1)
  <2> HIDE DEF e1
  <2> QED
    BY <1>1, <1>2, <1>3, MulByMQ, Zenon
<1>5. x * e1 = (x * y) * riMQ
  BY IntsMQ
<1> QED
  BY <1>4, <1>5, Zenon

\* The product by 2^64 takes it away.
LEMMA OuterMQ ==
  ASSUME NEW s, NEW x \in Int, Res(q, s, x * riMQ), NEW y \in Int, Cong(q, x, y)
  PROVE  Res(q, MQ!mq_mmul(s, rMQ), y)
<1> DEFINE xr == x * riMQ
           m == MQ!mq_mmul(s, rMQ)
           v == xr * bMQ
<1>1. xr \in Int /\ v \in Int /\ riMQ * bMQ \in Int /\ 1 \in Int
  BY IntsMQ
<1>2. Res(q, m, v)
  <2> HIDE DEF xr
  <2> QED
    BY <1>1, IntsMQ, ConstsMQ, MulByMQ, Zenon DEF xr
<1>3. Cong(q, v, x)
  <2>1. Cong(q, x * (riMQ * bMQ), x * 1)
    BY <1>1, ModInt, ConstsMQ, CongTimes, Zenon
  <2>2. x * (riMQ * bMQ) = v /\ x * 1 = x
    BY IntsMQ
  <2> QED
    BY <2>1, <2>2, Zenon
<1> HIDE DEF xr, v
<1>4. m \in Int
  BY <1>2, ResIntMQ, Zenon
<1> HIDE DEF m
<1>5. Cong(q, v, y)
  BY <1>1, <1>3, ModInt, CongTrans, Zenon
<1> QED
  BY <1>1, <1>2, <1>4, <1>5, ModInt, ResCong, Zenon DEF m

\* Two Montgomery products, the second by 2^64, are a product.
LEMMA ProductMQ ==
  ASSUME NEW s, NEW x \in Int, Res(q, s, x), NEW t, NEW y \in Int, Res(q, t, y),
         NEW v \in Int, Cong(q, x * y, v)
  PROVE  Res(q, MQ!mq_mmul(MQ!mq_mmul(s, t), rMQ), v)
<1> DEFINE u == MQ!mq_mmul(s, t)
           xy == x * y
<1>1. Res(q, u, xy * riMQ) /\ xy \in Int
  BY InnerMQ
<1>2. Cong(q, xy, v)
  OBVIOUS
<1> HIDE DEF u, xy
<1> QED
  BY <1>1, <1>2, OuterMQ, Zenon DEF u

LEMMA ForwardMQ ==
  ASSUME NEW d
  PROVE  /\ MQ!int_to_ntt(d)[0] = MQ!mq_add(d[0], MQ!mq_mmul(d[1], gMQ))
         /\ MQ!int_to_ntt(d)[1] = MQ!mq_sub(d[0], MQ!mq_mmul(d[1], gMQ))
<1> DEFINE E(h) == h = [lm \in 0..LogN |-> IF lm = 0 THEN d ELSE MQ!ForwardStage(h[lm - 1], lm - 1)]
           f == CHOOSE h : E(h)
           t == [lm \in 0..LogN |-> IF lm = 0 THEN d ELSE MQ!ForwardStage(d, 0)]
<1>0. 0 \in 0..LogN /\ 1 \in 0..LogN /\ (\A lm \in 0..LogN : lm = 0 \/ lm = 1) /\ 1 - 1 = 0 /\ 1 # 0
  BY IndexIs
<1>1. E(t)
  <2>1. t[0] = d
    BY <1>0, Zenon
  <2>2. ASSUME NEW lm \in 0..LogN
        PROVE  t[lm] = IF lm = 0 THEN d ELSE MQ!ForwardStage(t[lm - 1], lm - 1)
    <3>1. CASE lm = 0
      BY <2>1, <3>1, Zenon
    <3>2. CASE lm = 1
      <4>1. lm - 1 = 0 /\ lm # 0
        BY <3>2
      <4> QED
        BY <2>1, <4>1, Zenon
    <3> QED
      BY <1>0, <3>1, <3>2, Zenon
  <2>3. t = [lm \in 0..LogN |-> t[lm]]
    BY Zenon
  <2> QED
    BY <2>2, <2>3, Zenon
<1>2. E(f)
  <2> HIDE DEF E
  <2> QED
    BY <1>1, Zenon
<1>3. MQ!int_to_ntt(d) = f[LogN]
  BY Zenon DEF MQ!int_to_ntt
<1> HIDE DEF f, t
<1>4. f[0] = d
  BY <1>0, <1>2, Zenon
<1>5. f[1] = MQ!ForwardStage(d, 0)
  BY <1>0, <1>2, <1>4, Zenon
<1>6. /\ MQ!ForwardStage(d, 0)[0] = MQ!mq_add(d[0], MQ!mq_mmul(d[1], gMQ))
      /\ MQ!ForwardStage(d, 0)[1] = MQ!mq_sub(d[0], MQ!mq_mmul(d[1], gMQ))
  <2>1. /\ 0 \div 2 = 0 /\ 1 \div 2 = 0 /\ 0 + 1 = 1 /\ 2 \div 2 = 1 /\ 0 % 2 = 0 /\ 1 % 2 = 1
        /\ 0 < 1 /\ ~(1 < 1) /\ 1 - 1 = 0 /\ 0 \in Coef /\ 1 \in Coef
    BY DEF Coef
  <2>2. MQ!Idx = Coef /\ 2 ^ (LogN - 0) = 2 /\ 2 ^ 0 = 1
    BY IndexIs
  <2>3. MQ!ForwardStage(d, 0) =
            [k \in Coef |-> IF k % 2 < 1 THEN MQ!mq_add(d[k], MQ!mq_mmul(d[k + 1], gMQ))
                                         ELSE MQ!mq_sub(d[k - 1], MQ!mq_mmul(d[k], gMQ))]
    <3>1. ASSUME NEW k \in Coef
          PROVE  <<11183, 10651, 1669, 12036, 5517, 11593, 9397>>[(k \div 2) + 1] = gMQ
      <4>1. (k \div 2) + 1 = 1
        BY DEF Coef
      <4> QED
        BY <4>1, SMT DEF gMQ
    <3> QED
      BY <2>1, <2>2, <3>1, SMT DEF MQ!ForwardStage
  <2> QED
    BY <2>1, <2>3, SMT
<1> QED
  BY <1>3, <1>5, <1>6, IndexIs, Zenon

LEMMA InverseMQ ==
  ASSUME NEW d
  PROVE  /\ MQ!ntt_to_int(d)[0] = MQ!mq_half(MQ!mq_add(d[0], d[1]))
         /\ MQ!ntt_to_int(d)[1] = MQ!mq_mmul(MQ!mq_sub(d[0], d[1]), igMQ)
<1> DEFINE E(h) == h = [lm \in 0..LogN |-> IF lm = 0 THEN d ELSE MQ!InverseStage(h[lm - 1], lm - 1)]
           f == CHOOSE h : E(h)
           t == [lm \in 0..LogN |-> IF lm = 0 THEN d ELSE MQ!InverseStage(d, 0)]
<1>0. 0 \in 0..LogN /\ 1 \in 0..LogN /\ (\A lm \in 0..LogN : lm = 0 \/ lm = 1) /\ 1 - 1 = 0 /\ 1 # 0
  BY IndexIs
<1>1. E(t)
  <2>1. t[0] = d
    BY <1>0, Zenon
  <2>2. ASSUME NEW lm \in 0..LogN
        PROVE  t[lm] = IF lm = 0 THEN d ELSE MQ!InverseStage(t[lm - 1], lm - 1)
    <3>1. CASE lm = 0
      BY <2>1, <3>1, Zenon
    <3>2. CASE lm = 1
      <4>1. lm - 1 = 0 /\ lm # 0
        BY <3>2
      <4> QED
        BY <2>1, <4>1, Zenon
    <3> QED
      BY <1>0, <3>1, <3>2, Zenon
  <2>3. t = [lm \in 0..LogN |-> t[lm]]
    BY Zenon
  <2> QED
    BY <2>2, <2>3, Zenon
<1>2. E(f)
  <2> HIDE DEF E
  <2> QED
    BY <1>1, Zenon
<1>3. MQ!ntt_to_int(d) = f[LogN]
  BY Zenon DEF MQ!ntt_to_int
<1> HIDE DEF f, t
<1>4. f[0] = d
  BY <1>0, <1>2, Zenon
<1>5. f[1] = MQ!InverseStage(d, 0)
  BY <1>0, <1>2, <1>4, Zenon
<1>6. /\ MQ!InverseStage(d, 0)[0] = MQ!mq_half(MQ!mq_add(d[0], d[1]))
      /\ MQ!InverseStage(d, 0)[1] = MQ!mq_mmul(MQ!mq_sub(d[0], d[1]), igMQ)
  <2>1. /\ 0 \div 2 = 0 /\ 1 \div 2 = 0 /\ 0 + 1 = 1 /\ 2 * 1 = 2 /\ 0 % 2 = 0 /\ 1 % 2 = 1
        /\ 0 < 1 /\ ~(1 < 1) /\ 1 - 1 = 0 /\ 0 \in Coef /\ 1 \in Coef
    BY DEF Coef
  <2>2. MQ!Idx = Coef /\ 2 ^ (LogN - 1 - 0) = 1 /\ 2 ^ 0 = 1
    BY IndexIs
  <2>3. MQ!InverseStage(d, 0) =
            [k \in Coef |-> IF k % 2 < 1 THEN MQ!mq_half(MQ!mq_add(d[k], d[k + 1]))
                                         ELSE MQ!mq_mmul(MQ!mq_sub(d[k - 1], d[k]), igMQ)]
    <3>1. ASSUME NEW k \in Coef
          PROVE  <<553, 5310, 819, 1446, 348, 3386, 6271>>[(k \div 2) + 1] = igMQ
      <4>1. (k \div 2) + 1 = 1
        BY DEF Coef
      <4> QED
        BY <4>1, SMT DEF igMQ
    <3> QED
      BY <2>1, <2>2, <3>1, SMT DEF MQ!InverseStage
  <2> QED
    BY <2>1, <2>3, SMT
<1> QED
  BY <1>3, <1>5, <1>6, IndexIs, Zenon

\* int_to_ntt evaluates at the two roots of X^2 + 1.
LEMMA ToRootsMQ ==
  ASSUME NEW d, NEW x \in Poly, Value(q, d, x)
  PROVE  Roots(q, wMQ, MQ!int_to_ntt(d), x)
<1>1. Res(q, d[0], x[0]) /\ Res(q, d[1], x[1]) /\ x[0] \in Int /\ x[1] \in Int
  BY RingOps DEF Value, Coef
<1>2. Res(q, MQ!mq_mmul(d[1], gMQ), x[1] * wMQ)
  BY <1>1, IntsMQ, ConstsMQ, MulByMQ, Zenon
<1> DEFINE v == x[1] * wMQ
           t == MQ!mq_mmul(d[1], gMQ)
<1>3. v \in Int /\ v = wMQ * x[1]
  BY <1>1, IntsMQ
<1>4. Res(q, t, v)
  BY <1>2
<1> HIDE DEF v, t
<1>5. Res(q, MQ!mq_add(d[0], t), x[0] + v) /\ Res(q, MQ!mq_sub(d[0], t), x[0] - v)
  BY <1>1, <1>3, <1>4, SumMQ, Zenon
<1> QED
  BY <1>3, <1>5, ForwardMQ, Zenon DEF Roots, t

\* ntt_to_int interpolates.
LEMMA FromRootsMQ ==
  ASSUME NEW d, NEW x \in Poly, Roots(q, wMQ, d, x)
  PROVE  Value(q, MQ!ntt_to_int(d), x)
<1> DEFINE a == x[0]
           b == x[1]
           u == a + wMQ * b
           v == a - wMQ * b
           c == 2 * (wMQ * b)
           we == wMQ * eMQ
<1>1. Res(q, d[0], u) /\ Res(q, d[1], v)
  BY Zenon DEF Roots
<1>2. a \in Int /\ b \in Int
  BY RingOps, Zenon
<1>3. /\ u \in Int /\ v \in Int /\ u + v = 2 * a /\ u - v = c /\ c \in Int /\ c * eMQ \in Int
      /\ we \in Int /\ 2 * we \in Int /\ 1 \in Int /\ c * eMQ = b * (2 * we) /\ b * 1 = b
  <2> HIDE DEF a, b
  <2> QED
    BY <1>2, IntsMQ
<1> HIDE DEF u, v
<1>4. Res(q, MQ!mq_add(d[0], d[1]), 2 * a) /\ Res(q, MQ!mq_sub(d[0], d[1]), c)
  <2>1. Res(q, MQ!mq_add(d[0], d[1]), u + v) /\ Res(q, MQ!mq_sub(d[0], d[1]), u - v)
    BY <1>1, <1>3, SumMQ, Zenon
  <2> QED
    BY <1>3, <2>1
<1>5. Res(q, MQ!mq_half(MQ!mq_add(d[0], d[1])), a)
  BY <1>2, <1>4, HalfMQ, Zenon
<1> DEFINE t == MQ!mq_mmul(MQ!mq_sub(d[0], d[1]), igMQ)
<1>6. Res(q, t, c * eMQ)
  BY <1>3, <1>4, IntsMQ, ConstsMQ, MulByMQ, Zenon
<1>7. t \in Int
  BY <1>6, ResIntMQ, Zenon
<1> HIDE DEF t
<1>8. Cong(q, c * eMQ, b)
  <2>1. Cong(q, b * (2 * we), b * 1)
    BY <1>2, <1>3, ModInt, ConstsMQ, CongTimes, Zenon
  <2> QED
    BY <1>3, <2>1, Zenon
<1>9. Res(q, t, b)
  BY <1>2, <1>3, <1>6, <1>7, <1>8, ModInt, ResCong, Zenon
<1>10. ASSUME NEW i \in Coef PROVE Res(q, MQ!ntt_to_int(d)[i], x[i])
  <2>1. i = 0 \/ i = 1
    BY DEF Coef
  <2> QED
    BY <1>5, <1>9, <2>1, InverseMQ, Zenon DEF t
<1> QED
  BY <1>10, Zenon DEF Value

-----------------------------------------------------------------------------
(* The transforms modulo q'.                                             *)

\* Multiplication by a constant that stands for e in Montgomery representation.
LEMMA MulByMQ2 ==
  ASSUME NEW t, NEW x \in Int, Res(q2, t, x), NEW c \in 1..q2, NEW e \in Int, Cong(q2, c, R * e)
  PROVE  Res(q2, MQ2!mq_mmul(t, c), x * e)
<1> DEFINE tc == t * c
           m == MQ2!mq_mred(tc)
           Re == R * e
           y == x * e
<1>1. t \in 1..q2 /\ Cong(q2, t, x)
  BY Zenon DEF Res
<1>2. t \in Int /\ 1 <= t /\ t <= 18433 /\ c \in Int /\ 1 <= c /\ c <= 18433
  BY <1>1, Moduli, SMT
<1>3. tc \in Int /\ 1 <= tc /\ tc <= 339775489
  <2>1. 1 * 1 <= t * c /\ t * c <= 18433 * 18433
    BY <1>2, SMT
  <2> QED
    BY <1>2, <2>1, SMT
<1>4. MQ2!mq_mmul(t, c) = m
  BY Zenon DEF MQ2!mq_mmul
<1>5. Re \in Int /\ y \in Int /\ x * Re \in Int
  BY SMT DEF R
<1>6. Cong(q2, tc, x * Re)
  <2>1. t \in Int /\ c \in Int
    BY <1>2, SMT
  <2> QED
    BY <1>1, <1>5, <2>1, ModInt, CongProduct, Zenon
<1> HIDE DEF tc
<1>7. /\ m \in Int /\ 1 <= m /\ m <= 18433
      /\ \E k \in Int : m * 4294967296 = tc + 18433 * k
  BY <1>3, MredQ2, SMT
<1> HIDE DEF m, Re, y
<1>8. Cong(q2, m, y)
  <2>1. PICK l \in Int : tc = x * Re + q2 * l
    BY <1>6, Zenon DEF Cong
  <2>2. PICK k \in Int : m * 4294967296 = tc + 18433 * k
    BY <1>7, SMT
  \* 16975 * 2^32 = 1 modulo q'.
  <2> DEFINE i == 16975 * k + 16975 * l + 3955247103 * y - 3955247103 * m
  <2>3. x * Re = 4294967296 * y
    BY SMT DEF R, Re, y
  <2>4. i \in Int /\ m = y + q2 * i
    BY <1>5, <2>1, <1>7, <2>2, <2>3, Moduli, SMT
  <2> HIDE DEF i
  <2>5. m \in Int
    BY <1>7, SMT
  <2> QED
    BY <1>5, <2>4, <2>5, ModInt, CongBy, Zenon
<1>9. m \in 1..q2
  BY <1>7, Moduli, SMTT(30)
<1> QED
  BY <1>4, <1>8, <1>9, Zenon DEF Res, y

\* What the operations on one coefficient compute.
LEMMA SumMQ2 ==
  ASSUME NEW s, NEW x \in Int, Res(q2, s, x), NEW t, NEW y \in Int, Res(q2, t, y)
  PROVE  Res(q2, MQ2!mq_add(s, t), x + y) /\ Res(q2, MQ2!mq_sub(s, t), x - y)
<1>1. s \in 1..q2 /\ Cong(q2, s, x) /\ t \in 1..q2 /\ Cong(q2, t, y)
  BY Zenon DEF Res
<1> DEFINE a == MQ2!mq_add(s, t)
           b == MQ2!mq_sub(s, t)
           v == s + t
           w == s - t
<1>2. /\ s \in Int /\ t \in Int /\ v \in Int /\ w \in Int /\ x + y \in Int /\ x - y \in Int
      /\ 0 \in Int /\ 1 \in Int /\ -1 \in Int
  BY <1>1, Moduli, SMT
<1>3. a \in 1..q2 /\ a \in Int /\ (a = v + q2 * 0 \/ a = v + q2 * (-1))
  <2>1. s \in Int /\ 1 <= s /\ s <= 18433 /\ t \in Int /\ 1 <= t /\ t <= 18433
    BY <1>1, Moduli, SMTT(30)
  <2>2. a = IF 18433 - (s + t) < 0 THEN s + t - 18433 ELSE s + t
    BY <2>1, SMT DEF MQ2!mq_add, MQ2!AddBack
  <2> HIDE DEF a
  <2> QED
    BY <2>1, <2>2, Moduli, SMT
<1>4. b \in 1..q2 /\ b \in Int /\ (b = w + q2 * 0 \/ b = w + q2 * 1)
  <2>1. s \in Int /\ 1 <= s /\ s <= 18433 /\ t \in Int /\ 1 <= t /\ t <= 18433
    BY <1>1, Moduli, SMT
  <2>2. b = IF t - s < 0 THEN s - t ELSE s - t + 18433
    BY <2>1, SMT DEF MQ2!mq_sub, MQ2!AddBack
  <2> HIDE DEF b
  <2> QED
    BY <2>1, <2>2, Moduli, SMTT(30)
<1>5. Cong(q2, v, x + y) /\ Cong(q2, w, x - y)
  BY <1>1, <1>2, ModInt, CongSum, Zenon
<1> HIDE DEF a, b, v, w
<1>6. Cong(q2, a, v) /\ Cong(q2, b, w)
  BY <1>2, <1>3, <1>4, ModInt, CongBy, Zenon
<1>7. Cong(q2, a, x + y) /\ Cong(q2, b, x - y)
  BY <1>2, <1>3, <1>4, <1>5, <1>6, ModInt, CongTrans, Zenon
<1> QED
  BY <1>3, <1>4, <1>7, Zenon DEF Res, a, b

LEMMA HalfMQ2 ==
  ASSUME NEW s, NEW x \in Int, Res(q2, s, 2 * x)
  PROVE  Res(q2, MQ2!mq_half(s), x)
<1>1. s \in 1..q2 /\ Cong(q2, s, 2 * x)
  BY Zenon DEF Res
<1>2. PICK k \in Int : s = 2 * x + q2 * k
  BY <1>1, Zenon DEF Cong
<1> DEFINE h == MQ2!mq_half(s)
           i == IF 2 * h = s THEN h - x - 9216 * k ELSE h - x - 9216 * (k + 1)
<1>3. h \in 1..q2 /\ h \in Int /\ (2 * h = s \/ 2 * h = s + q2)
  <2>1. s \in Int /\ 1 <= s /\ s <= 18433
    BY <1>1, Moduli, SMT
  <2>2. h = (IF s % 2 = 1 THEN s + 18433 ELSE s) \div 2
    BY <2>1, SMT DEF MQ2!mq_half
  <2> HIDE DEF h
  <2> QED
    BY <2>1, <2>2, Moduli, SMT
<1> HIDE DEF h
<1>4. i \in Int /\ h = x + q2 * i
  BY <1>2, <1>3, Moduli, SMT
<1> HIDE DEF i
<1>5. Cong(q2, h, x)
  BY <1>3, <1>4, ModInt, CongBy, Zenon
<1> QED
  BY <1>3, <1>5, Zenon DEF Res, h

\* The root w of X^2 + 1, half its inverse e, 2^32 (b) and its inverse (ri); and what the code
\* has for the first three in Montgomery representation.
gMQ2 == 17110
igMQ2 == 9878
rMQ2 == 806
wMQ2 == 11902
eMQ2 == 12482
bMQ2 == 4564
riMQ2 == 16975

LEMMA IntsMQ2 ==
  /\ gMQ2 \in 1..q2 /\ igMQ2 \in 1..q2 /\ rMQ2 \in 1..q2 /\ wMQ2 \in Int /\ eMQ2 \in Int
  /\ bMQ2 \in Int /\ riMQ2 \in Int /\ R \in Int
  BY SMT DEF gMQ2, igMQ2, rMQ2, wMQ2, eMQ2, bMQ2, riMQ2, R, q2

LEMMA ConstsMQ2 ==
  /\ Cong(q2, gMQ2, R * wMQ2) /\ Cong(q2, igMQ2, R * eMQ2) /\ Cong(q2, rMQ2, R * bMQ2)
  /\ Cong(q2, wMQ2 * wMQ2, -1) /\ Cong(q2, 2 * (wMQ2 * eMQ2), 1)
  /\ Cong(q2, riMQ2 * bMQ2, 1) /\ Cong(q2, R * riMQ2, 1)
<1> DEFINE Rw == R * wMQ2
           Re == R * eMQ2
           Rb == R * bMQ2
           ww == wMQ2 * wMQ2
           we == 2 * (wMQ2 * eMQ2)
           rb == riMQ2 * bMQ2
           Rr == R * riMQ2
           k1 == -2773216554
           k2 == -2908359018
           k3 == -1063431386
           k4 == 7685
           k5 == 16119
           k6 == 4203
           k7 == 3955247103
<1>1. /\ gMQ2 \in Int /\ Rw \in Int /\ k1 \in Int /\ gMQ2 = Rw + q2 * k1
      /\ igMQ2 \in Int /\ Re \in Int /\ k2 \in Int /\ igMQ2 = Re + q2 * k2
      /\ rMQ2 \in Int /\ Rb \in Int /\ k3 \in Int /\ rMQ2 = Rb + q2 * k3
  BY SMT DEF gMQ2, igMQ2, rMQ2, wMQ2, eMQ2, bMQ2, R, q2
<1>2. /\ ww \in Int /\ -1 \in Int /\ k4 \in Int /\ ww = -1 + q2 * k4
      /\ we \in Int /\ 1 \in Int /\ k5 \in Int /\ we = 1 + q2 * k5
      /\ rb \in Int /\ k6 \in Int /\ rb = 1 + q2 * k6
      /\ Rr \in Int /\ k7 \in Int /\ Rr = 1 + q2 * k7
  BY SMT DEF wMQ2, eMQ2, bMQ2, riMQ2, R, q2
<1> HIDE DEF Rw, Re, Rb, ww, we, rb, Rr, k1, k2, k3, k4, k5, k6, k7
<1>3. Cong(q2, gMQ2, Rw) /\ Cong(q2, igMQ2, Re) /\ Cong(q2, rMQ2, Rb)
  BY <1>1, ModInt, CongBy, Zenon
<1>4. Cong(q2, ww, -1) /\ Cong(q2, we, 1) /\ Cong(q2, rb, 1) /\ Cong(q2, Rr, 1)
  BY <1>2, ModInt, CongBy, Zenon
<1> QED
  BY <1>3, <1>4, Zenon DEF Rw, Re, Rb, ww, we, rb, Rr

\* Residues are integers.
LEMMA ResIntMQ2 == ASSUME NEW t, NEW x, Res(q2, t, x) PROVE t \in Int /\ t \in 1..q2
<1>1. t \in 1..q2
  BY Zenon DEF Res
<1> QED
  BY <1>1, ModInt

\* One Montgomery product leaves a factor 2^-32.
LEMMA InnerMQ2 ==
  ASSUME NEW s, NEW x \in Int, Res(q2, s, x), NEW t, NEW y \in Int, Res(q2, t, y)
  PROVE  Res(q2, MQ2!mq_mmul(s, t), (x * y) * riMQ2)
<1> DEFINE e1 == y * riMQ2
           xy == x * y
<1>1. t \in 1..q2 /\ t \in Int /\ Cong(q2, t, y)
  BY ResIntMQ2, Zenon DEF Res
<1>2. e1 \in Int /\ R * riMQ2 \in Int /\ 1 \in Int
  BY IntsMQ2
<1>3. Cong(q2, t, R * e1)
  <2>1. Cong(q2, y * (R * riMQ2), y * 1)
    BY <1>2, ModInt, ConstsMQ2, CongTimes, Zenon
  <2>2. y * (R * riMQ2) = R * e1 /\ y * 1 = y /\ R * e1 \in Int
    BY IntsMQ2
  <2>3. Cong(q2, y, R * e1)
    BY <2>1, <2>2, ModInt, CongTurn
  <2> QED
    BY <1>1, <2>2, <2>3, ModInt, CongTrans, Zenon
<1>4. Res(q2, MQ2!mq_mmul(s, t), x * e1)
  <2> HIDE DEF e1
  <2> QED
    BY <1>1, <1>2, <1>3, MulByMQ2, Zenon
<1>5. x * e1 = (x * y) * riMQ2
  BY IntsMQ2
<1> QED
  BY <1>4, <1>5, Zenon

\* The product by 2^64 takes it away.
LEMMA OuterMQ2 ==
  ASSUME NEW s, NEW x \in Int, Res(q2, s, x * riMQ2), NEW y \in Int, Cong(q2, x, y)
  PROVE  Res(q2, MQ2!mq_mmul(s, rMQ2), y)
<1> DEFINE xr == x * riMQ2
           m == MQ2!mq_mmul(s, rMQ2)
           v == xr * bMQ2
<1>1. xr \in Int /\ v \in Int /\ riMQ2 * bMQ2 \in Int /\ 1 \in Int
  BY IntsMQ2
<1>2. Res(q2, m, v)
  <2> HIDE DEF xr
  <2> QED
    BY <1>1, IntsMQ2, ConstsMQ2, MulByMQ2, Zenon DEF xr
<1>3. Cong(q2, v, x)
  <2>1. Cong(q2, x * (riMQ2 * bMQ2), x * 1)
    BY <1>1, ModInt, ConstsMQ2, CongTimes, Zenon
  <2>2. x * (riMQ2 * bMQ2) = v /\ x * 1 = x
    BY IntsMQ2
  <2> QED
    BY <2>1, <2>2, Zenon
<1> HIDE DEF xr, v
<1>4. m \in Int
  BY <1>2, ResIntMQ2, Zenon
<1> HIDE DEF m
<1>5. Cong(q2, v, y)
  BY <1>1, <1>3, ModInt, CongTrans, Zenon
<1> QED
  BY <1>1, <1>2, <1>4, <1>5, ModInt, ResCong, Zenon DEF m

\* Two Montgomery products, the second by 2^64, are a product.
LEMMA ProductMQ2 ==
  ASSUME NEW s, NEW x \in Int, Res(q2, s, x), NEW t, NEW y \in Int, Res(q2, t, y),
         NEW v \in Int, Cong(q2, x * y, v)
  PROVE  Res(q2, MQ2!mq_mmul(MQ2!mq_mmul(s, t), rMQ2), v)
<1> DEFINE u == MQ2!mq_mmul(s, t)
           xy == x * y
<1>1. Res(q2, u, xy * riMQ2) /\ xy \in Int
  BY InnerMQ2
<1>2. Cong(q2, xy, v)
  OBVIOUS
<1> HIDE DEF u, xy
<1> QED
  BY <1>1, <1>2, OuterMQ2, Zenon DEF u

LEMMA ForwardMQ2 ==
  ASSUME NEW d
  PROVE  /\ MQ2!int_to_ntt(d)[0] = MQ2!mq_add(d[0], MQ2!mq_mmul(d[1], gMQ2))
         /\ MQ2!int_to_ntt(d)[1] = MQ2!mq_sub(d[0], MQ2!mq_mmul(d[1], gMQ2))
<1> DEFINE E(h) == h = [lm \in 0..LogN |-> IF lm = 0 THEN d ELSE MQ2!ForwardStage(h[lm - 1], lm - 1)]
           f == CHOOSE h : E(h)
           t == [lm \in 0..LogN |-> IF lm = 0 THEN d ELSE MQ2!ForwardStage(d, 0)]
<1>0. 0 \in 0..LogN /\ 1 \in 0..LogN /\ (\A lm \in 0..LogN : lm = 0 \/ lm = 1) /\ 1 - 1 = 0 /\ 1 # 0
  BY IndexIs
<1>1. E(t)
  <2>1. t[0] = d
    BY <1>0, Zenon
  <2>2. ASSUME NEW lm \in 0..LogN
        PROVE  t[lm] = IF lm = 0 THEN d ELSE MQ2!ForwardStage(t[lm - 1], lm - 1)
    <3>1. CASE lm = 0
      BY <2>1, <3>1, Zenon
    <3>2. CASE lm = 1
      <4>1. lm - 1 = 0 /\ lm # 0
        BY <3>2
      <4> QED
        BY <2>1, <4>1, Zenon
    <3> QED
      BY <1>0, <3>1, <3>2, Zenon
  <2>3. t = [lm \in 0..LogN |-> t[lm]]
    BY Zenon
  <2> QED
    BY <2>2, <2>3, Zenon
<1>2. E(f)
  <2> HIDE DEF E
  <2> QED
    BY <1>1, Zenon
<1>3. MQ2!int_to_ntt(d) = f[LogN]
  BY Zenon DEF MQ2!int_to_ntt
<1> HIDE DEF f, t
<1>4. f[0] = d
  BY <1>0, <1>2, Zenon
<1>5. f[1] = MQ2!ForwardStage(d, 0)
  BY <1>0, <1>2, <1>4, Zenon
<1>6. /\ MQ2!ForwardStage(d, 0)[0] = MQ2!mq_add(d[0], MQ2!mq_mmul(d[1], gMQ2))
      /\ MQ2!ForwardStage(d, 0)[1] = MQ2!mq_sub(d[0], MQ2!mq_mmul(d[1], gMQ2))
  <2>1. /\ 0 \div 2 = 0 /\ 1 \div 2 = 0 /\ 0 + 1 = 1 /\ 2 \div 2 = 1 /\ 0 % 2 = 0 /\ 1 % 2 = 1
        /\ 0 < 1 /\ ~(1 < 1) /\ 1 - 1 = 0 /\ 0 \in Coef /\ 1 \in Coef
    BY DEF Coef
  <2>2. MQ2!Idx = Coef /\ 2 ^ (LogN - 0) = 2 /\ 2 ^ 0 = 1
    BY IndexIs
  <2>3. MQ2!ForwardStage(d, 0) =
            [k \in Coef |-> IF k % 2 < 1 THEN MQ2!mq_add(d[k], MQ2!mq_mmul(d[k + 1], gMQ2))
                                         ELSE MQ2!mq_sub(d[k - 1], MQ2!mq_mmul(d[k], gMQ2))]
    <3>1. ASSUME NEW k \in Coef
          PROVE  <<17110, 12162, 16208, 10701, 9705, 3451, 5078>>[(k \div 2) + 1] = gMQ2
      <4>1. (k \div 2) + 1 = 1
        BY DEF Coef
      <4> QED
        BY <4>1, SMT DEF gMQ2
    <3> QED
      BY <2>1, <2>2, <3>1, SMT DEF MQ2!ForwardStage
  <2> QED
    BY <2>1, <2>3, SMT
<1> QED
  BY <1>3, <1>5, <1>6, IndexIs, Zenon

LEMMA InverseMQ2 ==
  ASSUME NEW d
  PROVE  /\ MQ2!ntt_to_int(d)[0] = MQ2!mq_half(MQ2!mq_add(d[0], d[1]))
         /\ MQ2!ntt_to_int(d)[1] = MQ2!mq_mmul(MQ2!mq_sub(d[0], d[1]), igMQ2)
<1> DEFINE E(h) == h = [lm \in 0..LogN |-> IF lm = 0 THEN d ELSE MQ2!InverseStage(h[lm - 1], lm - 1)]
           f == CHOOSE h : E(h)
           t == [lm \in 0..LogN |-> IF lm = 0 THEN d ELSE MQ2!InverseStage(d, 0)]
<1>0. 0 \in 0..LogN /\ 1 \in 0..LogN /\ (\A lm \in 0..LogN : lm = 0 \/ lm = 1) /\ 1 - 1 = 0 /\ 1 # 0
  BY IndexIs
<1>1. E(t)
  <2>1. t[0] = d
    BY <1>0, Zenon
  <2>2. ASSUME NEW lm \in 0..LogN
        PROVE  t[lm] = IF lm = 0 THEN d ELSE MQ2!InverseStage(t[lm - 1], lm - 1)
    <3>1. CASE lm = 0
      BY <2>1, <3>1, Zenon
    <3>2. CASE lm = 1
      <4>1. lm - 1 = 0 /\ lm # 0
        BY <3>2
      <4> QED
        BY <2>1, <4>1, Zenon
    <3> QED
      BY <1>0, <3>1, <3>2, Zenon
  <2>3. t = [lm \in 0..LogN |-> t[lm]]
    BY Zenon
  <2> QED
    BY <2>2, <2>3, Zenon
<1>2. E(f)
  <2> HIDE DEF E
  <2> QED
    BY <1>1, Zenon
<1>3. MQ2!ntt_to_int(d) = f[LogN]
  BY Zenon DEF MQ2!ntt_to_int
<1> HIDE DEF f, t
<1>4. f[0] = d
  BY <1>0, <1>2, Zenon
<1>5. f[1] = MQ2!InverseStage(d, 0)
  BY <1>0, <1>2, <1>4, Zenon
<1>6. /\ MQ2!InverseStage(d, 0)[0] = MQ2!mq_half(MQ2!mq_add(d[0], d[1]))
      /\ MQ2!InverseStage(d, 0)[1] = MQ2!mq_mmul(MQ2!mq_sub(d[0], d[1]), igMQ2)
  <2>1. /\ 0 \div 2 = 0 /\ 1 \div 2 = 0 /\ 0 + 1 = 1 /\ 2 * 1 = 2 /\ 0 % 2 = 0 /\ 1 % 2 = 1
        /\ 0 < 1 /\ ~(1 < 1) /\ 1 - 1 = 0 /\ 0 \in Coef /\ 1 \in Coef
    BY DEF Coef
  <2>2. MQ2!Idx = Coef /\ 2 ^ (LogN - 1 - 0) = 1 /\ 2 ^ 0 = 1
    BY IndexIs
  <2>3. MQ2!InverseStage(d, 0) =
            [k \in Coef |-> IF k % 2 < 1 THEN MQ2!mq_half(MQ2!mq_add(d[k], d[k + 1]))
                                         ELSE MQ2!mq_mmul(MQ2!mq_sub(d[k - 1], d[k]), igMQ2)]
    <3>1. ASSUME NEW k \in Coef
          PROVE  <<9878, 10329, 12352, 15894, 7491, 4364, 3866>>[(k \div 2) + 1] = igMQ2
      <4>1. (k \div 2) + 1 = 1
        BY DEF Coef
      <4> QED
        BY <4>1, SMT DEF igMQ2
    <3> QED
      BY <2>1, <2>2, <3>1, SMT DEF MQ2!InverseStage
  <2> QED
    BY <2>1, <2>3, SMT
<1> QED
  BY <1>3, <1>5, <1>6, IndexIs, Zenon

\* int_to_ntt evaluates at the two roots of X^2 + 1.
LEMMA ToRootsMQ2 ==
  ASSUME NEW d, NEW x \in Poly, Value(q2, d, x)
  PROVE  Roots(q2, wMQ2, MQ2!int_to_ntt(d), x)
<1>1. Res(q2, d[0], x[0]) /\ Res(q2, d[1], x[1]) /\ x[0] \in Int /\ x[1] \in Int
  BY RingOps DEF Value, Coef
<1>2. Res(q2, MQ2!mq_mmul(d[1], gMQ2), x[1] * wMQ2)
  BY <1>1, IntsMQ2, ConstsMQ2, MulByMQ2, Zenon
<1> DEFINE v == x[1] * wMQ2
           t == MQ2!mq_mmul(d[1], gMQ2)
<1>3. v \in Int /\ v = wMQ2 * x[1]
  BY <1>1, IntsMQ2
<1>4. Res(q2, t, v)
  BY <1>2
<1> HIDE DEF v, t
<1>5. Res(q2, MQ2!mq_add(d[0], t), x[0] + v) /\ Res(q2, MQ2!mq_sub(d[0], t), x[0] - v)
  BY <1>1, <1>3, <1>4, SumMQ2, Zenon
<1> QED
  BY <1>3, <1>5, ForwardMQ2, Zenon DEF Roots, t

\* ntt_to_int interpolates.
LEMMA FromRootsMQ2 ==
  ASSUME NEW d, NEW x \in Poly, Roots(q2, wMQ2, d, x)
  PROVE  Value(q2, MQ2!ntt_to_int(d), x)
<1> DEFINE a == x[0]
           b == x[1]
           u == a + wMQ2 * b
           v == a - wMQ2 * b
           c == 2 * (wMQ2 * b)
           we == wMQ2 * eMQ2
<1>1. Res(q2, d[0], u) /\ Res(q2, d[1], v)
  BY Zenon DEF Roots
<1>2. a \in Int /\ b \in Int
  BY RingOps, Zenon
<1>3. /\ u \in Int /\ v \in Int /\ u + v = 2 * a /\ u - v = c /\ c \in Int /\ c * eMQ2 \in Int
      /\ we \in Int /\ 2 * we \in Int /\ 1 \in Int /\ c * eMQ2 = b * (2 * we) /\ b * 1 = b
  <2> HIDE DEF a, b
  <2> QED
    BY <1>2, IntsMQ2
<1> HIDE DEF u, v
<1>4. Res(q2, MQ2!mq_add(d[0], d[1]), 2 * a) /\ Res(q2, MQ2!mq_sub(d[0], d[1]), c)
  <2>1. Res(q2, MQ2!mq_add(d[0], d[1]), u + v) /\ Res(q2, MQ2!mq_sub(d[0], d[1]), u - v)
    BY <1>1, <1>3, SumMQ2, Zenon
  <2> QED
    BY <1>3, <2>1
<1>5. Res(q2, MQ2!mq_half(MQ2!mq_add(d[0], d[1])), a)
  BY <1>2, <1>4, HalfMQ2, Zenon
<1> DEFINE t == MQ2!mq_mmul(MQ2!mq_sub(d[0], d[1]), igMQ2)
<1>6. Res(q2, t, c * eMQ2)
  BY <1>3, <1>4, IntsMQ2, ConstsMQ2, MulByMQ2, Zenon
<1>7. t \in Int
  BY <1>6, ResIntMQ2, Zenon
<1> HIDE DEF t
<1>8. Cong(q2, c * eMQ2, b)
  <2>1. Cong(q2, b * (2 * we), b * 1)
    BY <1>2, <1>3, ModInt, ConstsMQ2, CongTimes, Zenon
  <2> QED
    BY <1>3, <2>1, Zenon
<1>9. Res(q2, t, b)
  BY <1>2, <1>3, <1>6, <1>7, <1>8, ModInt, ResCong, Zenon
<1>10. ASSUME NEW i \in Coef PROVE Res(q2, MQ2!ntt_to_int(d)[i], x[i])
  <2>1. i = 0 \/ i = 1
    BY DEF Coef
  <2> QED
    BY <1>5, <1>9, <2>1, InverseMQ2, Zenon DEF t
<1> QED
  BY <1>10, Zenon DEF Value

-----------------------------------------------------------------------------
(* What the operations on arrays modulo q compute.                      *)

LEMMA MulNttMQ ==
  ASSUME NEW a, NEW b, NEW x \in Poly, NEW y \in Poly,
         Roots(q, wMQ, a, x), Roots(q, wMQ, b, y)
  PROVE  Roots(q, wMQ, MQ!mul_ntt(a, b), Times(x, y))
<1> DEFINE u1 == x[0] + wMQ * x[1]
           u2 == x[0] - wMQ * x[1]
           v1 == y[0] + wMQ * y[1]
           v2 == y[0] - wMQ * y[1]
           t1 == Times(x, y)[0] + wMQ * Times(x, y)[1]
           t2 == Times(x, y)[0] - wMQ * Times(x, y)[1]
<1>1. Res(q, a[0], u1) /\ Res(q, a[1], u2) /\ Res(q, b[0], v1) /\ Res(q, b[1], v2)
  BY Zenon DEF Roots
<1>2. u1 \in Int /\ u2 \in Int /\ v1 \in Int /\ v2 \in Int
  BY RootOps, IntsMQ, Zenon
<1>3. t1 \in Int /\ t2 \in Int
  <2>1. Times(x, y) \in Poly
    BY RingOps, Zenon
  <2> QED
    BY <2>1, RootOps, IntsMQ, Zenon
<1>4. Cong(q, u1 * v1, t1) /\ Cong(q, u2 * v2, t2)
  BY RootProduct, OtherRootProduct, ModInt, IntsMQ, ConstsMQ, Zenon
<1>5. /\ MQ!mul_ntt(a, b)[0] = MQ!mq_mmul(MQ!mq_mmul(a[0], b[0]), rMQ)
      /\ MQ!mul_ntt(a, b)[1] = MQ!mq_mmul(MQ!mq_mmul(a[1], b[1]), rMQ)
  BY IndexIs, Zenon DEF MQ!mul_ntt, Coef, rMQ
<1> HIDE DEF u1, u2, v1, v2, t1, t2
<1>6. Res(q, MQ!mul_ntt(a, b)[0], t1) /\ Res(q, MQ!mul_ntt(a, b)[1], t2)
  BY <1>1, <1>2, <1>3, <1>4, <1>5, ProductMQ, Zenon
<1> QED
  BY <1>6, Zenon DEF Roots, t1, t2

\* The NTT of the adjoint is the NTT backwards.
LEMMA AdjRootsMQ ==
  ASSUME NEW a, NEW x \in Poly, Roots(q, wMQ, a, x)
  PROVE  Res(q, a[1], Adj(x)[0] + wMQ * Adj(x)[1]) /\ Res(q, a[0], Adj(x)[0] - wMQ * Adj(x)[1])
<1>1. Res(q, a[0], x[0] + wMQ * x[1]) /\ Res(q, a[1], x[0] - wMQ * x[1])
  BY Zenon DEF Roots
<1>2. /\ Adj(x)[0] + wMQ * Adj(x)[1] = x[0] - wMQ * x[1]
      /\ Adj(x)[0] - wMQ * Adj(x)[1] = x[0] + wMQ * x[1]
  BY RootOps, IntsMQ, Zenon
<1> QED
  BY <1>1, <1>2, Zenon

\* a*adj(b) at the two roots, with the factor of one Montgomery product.
LEMMA AdjInnerMQ ==
  ASSUME NEW a, NEW b, NEW x \in Poly, NEW y \in Poly,
         Roots(q, wMQ, a, x), Roots(q, wMQ, b, y)
  PROVE  /\ \E k \in Int : /\ Res(q, MQ!mq_mmul(a[0], b[1]), k * riMQ)
                           /\ Cong(q, k, Times(x, Adj(y))[0] + wMQ * Times(x, Adj(y))[1])
         /\ \E k \in Int : /\ Res(q, MQ!mq_mmul(a[1], b[0]), k * riMQ)
                           /\ Cong(q, k, Times(x, Adj(y))[0] - wMQ * Times(x, Adj(y))[1])
<1> DEFINE u1 == x[0] + wMQ * x[1]
           u2 == x[0] - wMQ * x[1]
           v1 == Adj(y)[0] + wMQ * Adj(y)[1]
           v2 == Adj(y)[0] - wMQ * Adj(y)[1]
           c1 == u1 * v1
           c2 == u2 * v2
<1>1. Res(q, a[0], u1) /\ Res(q, a[1], u2)
  BY Zenon DEF Roots
<1>2. Res(q, b[1], v1) /\ Res(q, b[0], v2)
  BY AdjRootsMQ, Zenon
<1>3. Adj(y) \in Poly
  BY RingOps, Zenon
<1>4. u1 \in Int /\ u2 \in Int /\ v1 \in Int /\ v2 \in Int
  BY <1>3, RootOps, IntsMQ, Zenon
<1>5. /\ Cong(q, c1, Times(x, Adj(y))[0] + wMQ * Times(x, Adj(y))[1])
      /\ Cong(q, c2, Times(x, Adj(y))[0] - wMQ * Times(x, Adj(y))[1])
  BY <1>3, RootProduct, OtherRootProduct, ModInt, IntsMQ, ConstsMQ, Zenon
<1> HIDE DEF u1, u2, v1, v2
<1>6. c1 \in Int /\ c2 \in Int
  BY <1>4
<1>7. Res(q, MQ!mq_mmul(a[0], b[1]), c1 * riMQ) /\ Res(q, MQ!mq_mmul(a[1], b[0]), c2 * riMQ)
  BY <1>1, <1>2, <1>4, InnerMQ, Zenon
<1> HIDE DEF c1, c2
<1> QED
  BY <1>5, <1>6, <1>7, Zenon

\* The sum of two such products, times 2^64.
LEMMA SumOuterMQ ==
  ASSUME NEW s, NEW t, NEW u \in Int, NEW v \in Int,
         \E k \in Int : Res(q, s, k * riMQ) /\ Cong(q, k, u),
         \E k \in Int : Res(q, t, k * riMQ) /\ Cong(q, k, v)
  PROVE  Res(q, MQ!mq_mmul(MQ!mq_add(s, t), rMQ), u + v)
<1>1. PICK k \in Int : Res(q, s, k * riMQ) /\ Cong(q, k, u)
  BY Zenon
<1>2. PICK l \in Int : Res(q, t, l * riMQ) /\ Cong(q, l, v)
  BY Zenon
<1> DEFINE kr == k * riMQ
           lr == l * riMQ
           m == k + l
           w == u + v
           a == MQ!mq_add(s, t)
<1>3. kr \in Int /\ lr \in Int /\ m \in Int /\ w \in Int /\ kr + lr = m * riMQ
  BY IntsMQ
<1>4. Res(q, s, kr) /\ Res(q, t, lr)
  BY <1>1, <1>2, Zenon
<1>5. Cong(q, m, w)
  BY <1>1, <1>2, ModInt, CongSum, Zenon
<1> HIDE DEF kr, lr, m, w
<1>6. Res(q, a, kr + lr)
  BY <1>3, <1>4, SumMQ, Zenon
<1> HIDE DEF a
<1>7. Res(q, a, m * riMQ)
  BY <1>3, <1>6
<1>8. Res(q, MQ!mq_mmul(a, rMQ), w)
  BY <1>3, <1>5, <1>7, OuterMQ, Zenon
<1> QED
  BY <1>8, Zenon DEF a, w

\* muladj_x2_ntt is the squared norm of two polynomials together.
LEMMA MuladjX2MQ ==
  ASSUME NEW a, NEW b, NEW x \in Poly, NEW y \in Poly,
         Roots(q, wMQ, a, x), Roots(q, wMQ, b, y)
  PROVE  Roots(q, wMQ, MQ!muladj_x2_ntt(a, b), Const(mqpoly_sqnorm_small(x) + mqpoly_sqnorm_small(y)))
<1> DEFINE s == MQ!mq_mmul(a[0], a[1])
           t == MQ!mq_mmul(b[0], b[1])
           h == MQ!mq_mmul(MQ!mq_add(s, t), rMQ)
           u == mqpoly_sqnorm_small(x)
           v == mqpoly_sqnorm_small(y)
<1>1. /\ u \in Int /\ v \in Int
      /\ Times(x, Adj(x))[0] + wMQ * Times(x, Adj(x))[1] = u
      /\ Times(y, Adj(y))[0] + wMQ * Times(y, Adj(y))[1] = v
  <2>1. ASSUME NEW e \in Poly
        PROVE  /\ mqpoly_sqnorm_small(e) \in Int
               /\ Times(e, Adj(e))[0] + wMQ * Times(e, Adj(e))[1] = mqpoly_sqnorm_small(e)
    <3> DEFINE c == e[0]
               d == e[1]
    <3>1. c \in Int /\ d \in Int
      BY RingOps, Zenon
    <3>2. Adj(e) \in Poly /\ Adj(e)[0] = c /\ Adj(e)[1] = -d
      BY RingOps, Zenon
    <3>7. /\ Times(e, Adj(e))[0] = e[0] * Adj(e)[0] - e[1] * Adj(e)[1]
          /\ Times(e, Adj(e))[1] = e[0] * Adj(e)[1] + e[1] * Adj(e)[0]
      BY <3>2, RingOps, Zenon
    <3>3. Times(e, Adj(e))[0] = c * c - d * (-d) /\ Times(e, Adj(e))[1] = c * (-d) + d * c
      BY <3>2, <3>7, Zenon
    <3> HIDE DEF c, d
    <3>4. c * c - d * (-d) = c * c + d * d /\ c * (-d) + d * c = 0 /\ c * c + d * d \in Int
      BY <3>1
    <3>5. mqpoly_sqnorm_small(e) = c * c + d * d
      BY Zenon DEF mqpoly_sqnorm_small, c, d
    <3>6. wMQ * 0 = 0
      BY IntsMQ
    <3> QED
      BY <3>3, <3>4, <3>5, <3>6
  <2> QED
    BY <2>1, Zenon
<1>2. /\ \E k \in Int : Res(q, s, k * riMQ) /\ Cong(q, k, u)
      /\ \E k \in Int : Res(q, t, k * riMQ) /\ Cong(q, k, v)
  BY <1>1, AdjInnerMQ, ZenonT(40)
<1>3. /\ MQ!muladj_x2_ntt(a, b)[0] = h /\ MQ!muladj_x2_ntt(a, b)[1] = h
  <2>1. 2 * 0 < 2 /\ ~(2 * 1 < 2) /\ 2 - 1 - 0 = 1 /\ 2 - 1 - 1 = 0 /\ 0 \in Coef /\ 1 \in Coef
    BY DEF Coef
  <2> QED
    BY <2>1, IndexIs, SMT DEF MQ!muladj_x2_ntt, rMQ
<1> HIDE DEF s, t, h, u, v
<1>4. Res(q, h, u + v)
  BY <1>1, <1>2, SumOuterMQ, Zenon DEF h
<1>5. /\ Const(u + v)[0] + wMQ * Const(u + v)[1] = u + v
      /\ Const(u + v)[0] - wMQ * Const(u + v)[1] = u + v
  <2>1. Const(u + v)[0] = u + v /\ Const(u + v)[1] = 0
    BY DEF Const, Coef
  <2>2. wMQ * 0 = 0
    BY IntsMQ
  <2> QED
    BY <1>1, <2>1, <2>2
<1> QED
  BY <1>3, <1>4, <1>5, Zenon DEF Roots, u, v

\* Sums and differences, by value and by coefficient.
LEMMA SumRootsMQ ==
  ASSUME NEW a, NEW b, NEW x \in Poly, NEW y \in Poly,
         Roots(q, wMQ, a, x), Roots(q, wMQ, b, y)
  PROVE  Roots(q, wMQ, MQ!add(a, b), Plus(x, y)) /\ Roots(q, wMQ, MQ!sub(a, b), Minus(x, y))
<1> DEFINE u1 == x[0] + wMQ * x[1]
           u2 == x[0] - wMQ * x[1]
           v1 == y[0] + wMQ * y[1]
           v2 == y[0] - wMQ * y[1]
<1>1. Res(q, a[0], u1) /\ Res(q, a[1], u2) /\ Res(q, b[0], v1) /\ Res(q, b[1], v2)
  BY Zenon DEF Roots
<1>2. u1 \in Int /\ u2 \in Int /\ v1 \in Int /\ v2 \in Int
  BY RootOps, IntsMQ, Zenon
<1>3. /\ Plus(x, y)[0] + wMQ * Plus(x, y)[1] = u1 + v1
      /\ Plus(x, y)[0] - wMQ * Plus(x, y)[1] = u2 + v2
      /\ Minus(x, y)[0] + wMQ * Minus(x, y)[1] = u1 - v1
      /\ Minus(x, y)[0] - wMQ * Minus(x, y)[1] = u2 - v2
  BY RootOps, IntsMQ, ZenonT(40)
<1> HIDE DEF u1, u2, v1, v2
<1>4. /\ MQ!add(a, b)[0] = MQ!mq_add(a[0], b[0]) /\ MQ!add(a, b)[1] = MQ!mq_add(a[1], b[1])
      /\ MQ!sub(a, b)[0] = MQ!mq_sub(a[0], b[0]) /\ MQ!sub(a, b)[1] = MQ!mq_sub(a[1], b[1])
  BY IndexIs, Zenon DEF MQ!add, MQ!sub, Coef
<1>5. /\ Res(q, MQ!mq_add(a[0], b[0]), u1 + v1) /\ Res(q, MQ!mq_add(a[1], b[1]), u2 + v2)
      /\ Res(q, MQ!mq_sub(a[0], b[0]), u1 - v1) /\ Res(q, MQ!mq_sub(a[1], b[1]), u2 - v2)
  BY <1>1, <1>2, SumMQ, Zenon
<1> QED
  BY <1>3, <1>4, <1>5, Zenon DEF Roots

LEMMA SumValueMQ ==
  ASSUME NEW a, NEW b, NEW x \in Poly, NEW y \in Poly, Value(q, a, x), Value(q, b, y)
  PROVE  Value(q, MQ!add(a, b), Plus(x, y)) /\ Value(q, MQ!sub(a, b), Minus(x, y))
<1>1. ASSUME NEW i \in Coef
      PROVE  Res(q, MQ!add(a, b)[i], Plus(x, y)[i]) /\ Res(q, MQ!sub(a, b)[i], Minus(x, y)[i])
  <2>1. Res(q, a[i], x[i]) /\ Res(q, b[i], y[i])
    BY Zenon DEF Value
  <2>2. x[i] \in Int /\ y[i] \in Int
    BY Zenon DEF Poly
  <2>3. /\ Res(q, MQ!mq_add(a[i], b[i]), x[i] + y[i])
        /\ Res(q, MQ!mq_sub(a[i], b[i]), x[i] - y[i])
    BY <2>1, <2>2, SumMQ, Zenon
  <2>4. Plus(x, y)[i] = x[i] + y[i] /\ Minus(x, y)[i] = x[i] - y[i]
    BY Zenon DEF Plus, Minus
  <2>5. MQ!add(a, b)[i] = MQ!mq_add(a[i], b[i]) /\ MQ!sub(a, b)[i] = MQ!mq_sub(a[i], b[i])
    BY IndexIs, Zenon DEF MQ!add, MQ!sub
  <2> QED
    BY <2>3, <2>4, <2>5, Zenon
<1> QED
  BY <1>1, Zenon DEF Value

\* Small and signed coefficients become residues.
LEMMA SmallValueMQ ==
  ASSUME NEW x \in Poly, Within(q, x)
  PROVE  Value(q, MQ!small_to_int(x), x) /\ Value(q, MQ!signed_to_int(x), x)
<1>1. ASSUME NEW k \in Int, -q < k, k <= q PROVE Res(q, MQ!coef_signed_to_int(k), k)
  <2> DEFINE m == MQ!coef_signed_to_int(k)
  <2>1. m \in 1..q /\ m \in Int /\ (m = k + q * 0 \/ m = k + q * 1) /\ 0 \in Int /\ 1 \in Int
    <3>1. -12289 < k /\ k <= 12289
      BY <1>1, Moduli, SMT
    <3>2. m = IF -k < 0 THEN k ELSE k + 12289
      BY <3>1, SMT DEF MQ!coef_signed_to_int, MQ!AddBack
    <3> HIDE DEF m
    <3> QED
      BY <3>1, <3>2, Moduli, SMT
  <2> HIDE DEF m
  <2>2. Cong(q, m, k)
    BY <2>1, ModInt, CongBy, Zenon
  <2> QED
    BY <2>1, <2>2, Zenon DEF Res, m
<1>2. ASSUME NEW i \in Coef
      PROVE  Res(q, MQ!small_to_int(x)[i], x[i]) /\ Res(q, MQ!signed_to_int(x)[i], x[i])
  <2>1. /\ MQ!small_to_int(x)[i] = MQ!coef_signed_to_int(x[i])
        /\ MQ!signed_to_int(x)[i] = MQ!coef_signed_to_int(x[i])
    BY IndexIs, Zenon DEF MQ!small_to_int, MQ!signed_to_int
  <2>2. x[i] \in Int /\ -q < x[i] /\ x[i] <= q
    BY Zenon DEF Poly, Within
  <2> QED
    BY <1>1, <2>1, <2>2, Zenon
<1> QED
  BY <1>2, Zenon DEF Value

\* and residues become the representatives around zero.
LEMMA SignedIsCentredMQ ==
  ASSUME NEW a, NEW x \in Poly, Value(q, a, x)
  PROVE  MQ!int_to_signed(a) = Centred(x, q)
<1>1. ASSUME NEW t, NEW k \in Int, Res(q, t, k)
      PROVE  MQ!coef_int_to_signed(t) = IF k % q > q \div 2 THEN (k % q) - q ELSE k % q
  <2>1. t \in Int /\ t \in 1..q /\ Cong(q, t, k)
    BY <1>1, ResIntMQ, Zenon DEF Res
  <2>2. PICK j \in Int : t = k + q * j
    BY <2>1, Zenon DEF Cong
  <2>3. k % 12289 = IF t = 12289 THEN 0 ELSE t
    <3> DEFINE m == k % 12289
               d == k \div 12289
    <3>1. m \in Int /\ d \in Int /\ k = 12289 * d + m /\ 0 <= m /\ m < 12289
      BY SMT
    <3> HIDE DEF m, d
    <3>2. t = m + 12289 * (d + j) /\ 1 <= t /\ t <= 12289
      BY <2>1, <2>2, <3>1, Moduli, SMT
    <3>3. m = IF t = 12289 THEN 0 ELSE t
      BY <2>1, <3>1, <3>2, SMT
    <3>4. k % 12289 = m
      BY SMT DEF m
    <3> QED
      BY <2>1, <3>1, <3>3, <3>4, SMT
  <2>4. 1 <= t /\ t <= 12289
    BY <2>1, Moduli, SMT
  <2> QED
    BY <2>1, <2>3, <2>4, Moduli, SMT DEF MQ!coef_int_to_signed
<1>2. ASSUME NEW i \in Coef
      PROVE  MQ!coef_int_to_signed(a[i]) =
                 IF x[i] % q > q \div 2 THEN (x[i] % q) - q ELSE x[i] % q
  <2>1. Res(q, a[i], x[i]) /\ x[i] \in Int
    BY Zenon DEF Value, Poly
  <2> QED
    BY <1>1, <2>1, Zenon
<1> QED
  BY <1>2, IndexIs, Zenon DEF MQ!int_to_signed, Centred

-----------------------------------------------------------------------------
(* What the operations on arrays modulo q' compute.                      *)

LEMMA MulNttMQ2 ==
  ASSUME NEW a, NEW b, NEW x \in Poly, NEW y \in Poly,
         Roots(q2, wMQ2, a, x), Roots(q2, wMQ2, b, y)
  PROVE  Roots(q2, wMQ2, MQ2!mul_ntt(a, b), Times(x, y))
<1> DEFINE u1 == x[0] + wMQ2 * x[1]
           u2 == x[0] - wMQ2 * x[1]
           v1 == y[0] + wMQ2 * y[1]
           v2 == y[0] - wMQ2 * y[1]
           t1 == Times(x, y)[0] + wMQ2 * Times(x, y)[1]
           t2 == Times(x, y)[0] - wMQ2 * Times(x, y)[1]
<1>1. Res(q2, a[0], u1) /\ Res(q2, a[1], u2) /\ Res(q2, b[0], v1) /\ Res(q2, b[1], v2)
  BY Zenon DEF Roots
<1>2. u1 \in Int /\ u2 \in Int /\ v1 \in Int /\ v2 \in Int
  BY RootOps, IntsMQ2, Zenon
<1>3. t1 \in Int /\ t2 \in Int
  <2>1. Times(x, y) \in Poly
    BY RingOps, Zenon
  <2> QED
    BY <2>1, RootOps, IntsMQ2, Zenon
<1>4. Cong(q2, u1 * v1, t1) /\ Cong(q2, u2 * v2, t2)
  BY RootProduct, OtherRootProduct, ModInt, IntsMQ2, ConstsMQ2, Zenon
<1>5. /\ MQ2!mul_ntt(a, b)[0] = MQ2!mq_mmul(MQ2!mq_mmul(a[0], b[0]), rMQ2)
      /\ MQ2!mul_ntt(a, b)[1] = MQ2!mq_mmul(MQ2!mq_mmul(a[1], b[1]), rMQ2)
  BY IndexIs, Zenon DEF MQ2!mul_ntt, Coef, rMQ2
<1> HIDE DEF u1, u2, v1, v2, t1, t2
<1>6. Res(q2, MQ2!mul_ntt(a, b)[0], t1) /\ Res(q2, MQ2!mul_ntt(a, b)[1], t2)
  BY <1>1, <1>2, <1>3, <1>4, <1>5, ProductMQ2, Zenon
<1> QED
  BY <1>6, Zenon DEF Roots, t1, t2

\* The NTT of the adjoint is the NTT backwards.
LEMMA AdjRootsMQ2 ==
  ASSUME NEW a, NEW x \in Poly, Roots(q2, wMQ2, a, x)
  PROVE  Res(q2, a[1], Adj(x)[0] + wMQ2 * Adj(x)[1]) /\ Res(q2, a[0], Adj(x)[0] - wMQ2 * Adj(x)[1])
<1>1. Res(q2, a[0], x[0] + wMQ2 * x[1]) /\ Res(q2, a[1], x[0] - wMQ2 * x[1])
  BY Zenon DEF Roots
<1>2. /\ Adj(x)[0] + wMQ2 * Adj(x)[1] = x[0] - wMQ2 * x[1]
      /\ Adj(x)[0] - wMQ2 * Adj(x)[1] = x[0] + wMQ2 * x[1]
  BY RootOps, IntsMQ2, Zenon
<1> QED
  BY <1>1, <1>2, Zenon

\* a*adj(b) at the two roots, with the factor of one Montgomery product.
LEMMA AdjInnerMQ2 ==
  ASSUME NEW a, NEW b, NEW x \in Poly, NEW y \in Poly,
         Roots(q2, wMQ2, a, x), Roots(q2, wMQ2, b, y)
  PROVE  /\ \E k \in Int : /\ Res(q2, MQ2!mq_mmul(a[0], b[1]), k * riMQ2)
                           /\ Cong(q2, k, Times(x, Adj(y))[0] + wMQ2 * Times(x, Adj(y))[1])
         /\ \E k \in Int : /\ Res(q2, MQ2!mq_mmul(a[1], b[0]), k * riMQ2)
                           /\ Cong(q2, k, Times(x, Adj(y))[0] - wMQ2 * Times(x, Adj(y))[1])
<1> DEFINE u1 == x[0] + wMQ2 * x[1]
           u2 == x[0] - wMQ2 * x[1]
           v1 == Adj(y)[0] + wMQ2 * Adj(y)[1]
           v2 == Adj(y)[0] - wMQ2 * Adj(y)[1]
           c1 == u1 * v1
           c2 == u2 * v2
<1>1. Res(q2, a[0], u1) /\ Res(q2, a[1], u2)
  BY Zenon DEF Roots
<1>2. Res(q2, b[1], v1) /\ Res(q2, b[0], v2)
  BY AdjRootsMQ2, Zenon
<1>3. Adj(y) \in Poly
  BY RingOps, Zenon
<1>4. u1 \in Int /\ u2 \in Int /\ v1 \in Int /\ v2 \in Int
  BY <1>3, RootOps, IntsMQ2, Zenon
<1>5. /\ Cong(q2, c1, Times(x, Adj(y))[0] + wMQ2 * Times(x, Adj(y))[1])
      /\ Cong(q2, c2, Times(x, Adj(y))[0] - wMQ2 * Times(x, Adj(y))[1])
  BY <1>3, RootProduct, OtherRootProduct, ModInt, IntsMQ2, ConstsMQ2, Zenon
<1> HIDE DEF u1, u2, v1, v2
<1>6. c1 \in Int /\ c2 \in Int
  BY <1>4
<1>7. Res(q2, MQ2!mq_mmul(a[0], b[1]), c1 * riMQ2) /\ Res(q2, MQ2!mq_mmul(a[1], b[0]), c2 * riMQ2)
  BY <1>1, <1>2, <1>4, InnerMQ2, Zenon
<1> HIDE DEF c1, c2
<1> QED
  BY <1>5, <1>6, <1>7, Zenon

\* The sum of two such products, times 2^64.
LEMMA SumOuterMQ2 ==
  ASSUME NEW s, NEW t, NEW u \in Int, NEW v \in Int,
         \E k \in Int : Res(q2, s, k * riMQ2) /\ Cong(q2, k, u),
         \E k \in Int : Res(q2, t, k * riMQ2) /\ Cong(q2, k, v)
  PROVE  Res(q2, MQ2!mq_mmul(MQ2!mq_add(s, t), rMQ2), u + v)
<1>1. PICK k \in Int : Res(q2, s, k * riMQ2) /\ Cong(q2, k, u)
  BY Zenon
<1>2. PICK l \in Int : Res(q2, t, l * riMQ2) /\ Cong(q2, l, v)
  BY Zenon
<1> DEFINE kr == k * riMQ2
           lr == l * riMQ2
           m == k + l
           w == u + v
           a == MQ2!mq_add(s, t)
<1>3. kr \in Int /\ lr \in Int /\ m \in Int /\ w \in Int /\ kr + lr = m * riMQ2
  BY IntsMQ2
<1>4. Res(q2, s, kr) /\ Res(q2, t, lr)
  BY <1>1, <1>2, Zenon
<1>5. Cong(q2, m, w)
  BY <1>1, <1>2, ModInt, CongSum, Zenon
<1> HIDE DEF kr, lr, m, w
<1>6. Res(q2, a, kr + lr)
  BY <1>3, <1>4, SumMQ2, Zenon
<1> HIDE DEF a
<1>7. Res(q2, a, m * riMQ2)
  BY <1>3, <1>6
<1>8. Res(q2, MQ2!mq_mmul(a, rMQ2), w)
  BY <1>3, <1>5, <1>7, OuterMQ2, Zenon
<1> QED
  BY <1>8, Zenon DEF a, w

\* muladj_x2_ntt is the squared norm of two polynomials together.
LEMMA MuladjX2MQ2 ==
  ASSUME NEW a, NEW b, NEW x \in Poly, NEW y \in Poly,
         Roots(q2, wMQ2, a, x), Roots(q2, wMQ2, b, y)
  PROVE  Roots(q2, wMQ2, MQ2!muladj_x2_ntt(a, b), Const(mqpoly_sqnorm_small(x) + mqpoly_sqnorm_small(y)))
<1> DEFINE s == MQ2!mq_mmul(a[0], a[1])
           t == MQ2!mq_mmul(b[0], b[1])
           h == MQ2!mq_mmul(MQ2!mq_add(s, t), rMQ2)
           u == mqpoly_sqnorm_small(x)
           v == mqpoly_sqnorm_small(y)
<1>1. /\ u \in Int /\ v \in Int
      /\ Times(x, Adj(x))[0] + wMQ2 * Times(x, Adj(x))[1] = u
      /\ Times(y, Adj(y))[0] + wMQ2 * Times(y, Adj(y))[1] = v
  <2>1. ASSUME NEW e \in Poly
        PROVE  /\ mqpoly_sqnorm_small(e) \in Int
               /\ Times(e, Adj(e))[0] + wMQ2 * Times(e, Adj(e))[1] = mqpoly_sqnorm_small(e)
    <3> DEFINE c == e[0]
               d == e[1]
    <3>1. c \in Int /\ d \in Int
      BY RingOps, Zenon
    <3>2. Adj(e) \in Poly /\ Adj(e)[0] = c /\ Adj(e)[1] = -d
      BY RingOps, Zenon
    <3>7. /\ Times(e, Adj(e))[0] = e[0] * Adj(e)[0] - e[1] * Adj(e)[1]
          /\ Times(e, Adj(e))[1] = e[0] * Adj(e)[1] + e[1] * Adj(e)[0]
      BY <3>2, RingOps, Zenon
    <3>3. Times(e, Adj(e))[0] = c * c - d * (-d) /\ Times(e, Adj(e))[1] = c * (-d) + d * c
      BY <3>2, <3>7, Zenon
    <3> HIDE DEF c, d
    <3>4. c * c - d * (-d) = c * c + d * d /\ c * (-d) + d * c = 0 /\ c * c + d * d \in Int
      BY <3>1
    <3>5. mqpoly_sqnorm_small(e) = c * c + d * d
      BY Zenon DEF mqpoly_sqnorm_small, c, d
    <3>6. wMQ2 * 0 = 0
      BY IntsMQ2
    <3> QED
      BY <3>3, <3>4, <3>5, <3>6
  <2> QED
    BY <2>1, Zenon
<1>2. /\ \E k \in Int : Res(q2, s, k * riMQ2) /\ Cong(q2, k, u)
      /\ \E k \in Int : Res(q2, t, k * riMQ2) /\ Cong(q2, k, v)
  BY <1>1, AdjInnerMQ2, Zenon
<1>3. /\ MQ2!muladj_x2_ntt(a, b)[0] = h /\ MQ2!muladj_x2_ntt(a, b)[1] = h
  <2>1. 2 * 0 < 2 /\ ~(2 * 1 < 2) /\ 2 - 1 - 0 = 1 /\ 2 - 1 - 1 = 0 /\ 0 \in Coef /\ 1 \in Coef
    BY DEF Coef
  <2> QED
    BY <2>1, IndexIs, SMT DEF MQ2!muladj_x2_ntt, rMQ2
<1> HIDE DEF s, t, h, u, v
<1>4. Res(q2, h, u + v)
  BY <1>1, <1>2, SumOuterMQ2, Zenon DEF h
<1>5. /\ Const(u + v)[0] + wMQ2 * Const(u + v)[1] = u + v
      /\ Const(u + v)[0] - wMQ2 * Const(u + v)[1] = u + v
  <2>1. Const(u + v)[0] = u + v /\ Const(u + v)[1] = 0
    BY DEF Const, Coef
  <2>2. wMQ2 * 0 = 0
    BY IntsMQ2
  <2> QED
    BY <1>1, <2>1, <2>2
<1> QED
  BY <1>3, <1>4, <1>5, Zenon DEF Roots, u, v

\* Sums and differences, by value and by coefficient.
LEMMA SumRootsMQ2 ==
  ASSUME NEW a, NEW b, NEW x \in Poly, NEW y \in Poly,
         Roots(q2, wMQ2, a, x), Roots(q2, wMQ2, b, y)
  PROVE  Roots(q2, wMQ2, MQ2!add(a, b), Plus(x, y)) /\ Roots(q2, wMQ2, MQ2!sub(a, b), Minus(x, y))
<1> DEFINE u1 == x[0] + wMQ2 * x[1]
           u2 == x[0] - wMQ2 * x[1]
           v1 == y[0] + wMQ2 * y[1]
           v2 == y[0] - wMQ2 * y[1]
<1>1. Res(q2, a[0], u1) /\ Res(q2, a[1], u2) /\ Res(q2, b[0], v1) /\ Res(q2, b[1], v2)
  BY Zenon DEF Roots
<1>2. u1 \in Int /\ u2 \in Int /\ v1 \in Int /\ v2 \in Int
  BY RootOps, IntsMQ2, Zenon
<1>3. /\ Plus(x, y)[0] + wMQ2 * Plus(x, y)[1] = u1 + v1
      /\ Plus(x, y)[0] - wMQ2 * Plus(x, y)[1] = u2 + v2
      /\ Minus(x, y)[0] + wMQ2 * Minus(x, y)[1] = u1 - v1
      /\ Minus(x, y)[0] - wMQ2 * Minus(x, y)[1] = u2 - v2
  BY RootOps, IntsMQ2, Zenon
<1> HIDE DEF u1, u2, v1, v2
<1>4. /\ MQ2!add(a, b)[0] = MQ2!mq_add(a[0], b[0]) /\ MQ2!add(a, b)[1] = MQ2!mq_add(a[1], b[1])
      /\ MQ2!sub(a, b)[0] = MQ2!mq_sub(a[0], b[0]) /\ MQ2!sub(a, b)[1] = MQ2!mq_sub(a[1], b[1])
  BY IndexIs, Zenon DEF MQ2!add, MQ2!sub, Coef
<1>5. /\ Res(q2, MQ2!mq_add(a[0], b[0]), u1 + v1) /\ Res(q2, MQ2!mq_add(a[1], b[1]), u2 + v2)
      /\ Res(q2, MQ2!mq_sub(a[0], b[0]), u1 - v1) /\ Res(q2, MQ2!mq_sub(a[1], b[1]), u2 - v2)
  BY <1>1, <1>2, SumMQ2, Zenon
<1> QED
  BY <1>3, <1>4, <1>5, Zenon DEF Roots

LEMMA SumValueMQ2 ==
  ASSUME NEW a, NEW b, NEW x \in Poly, NEW y \in Poly, Value(q2, a, x), Value(q2, b, y)
  PROVE  Value(q2, MQ2!add(a, b), Plus(x, y)) /\ Value(q2, MQ2!sub(a, b), Minus(x, y))
<1>1. ASSUME NEW i \in Coef
      PROVE  Res(q2, MQ2!add(a, b)[i], Plus(x, y)[i]) /\ Res(q2, MQ2!sub(a, b)[i], Minus(x, y)[i])
  <2>1. Res(q2, a[i], x[i]) /\ Res(q2, b[i], y[i])
    BY Zenon DEF Value
  <2>2. x[i] \in Int /\ y[i] \in Int
    BY Zenon DEF Poly
  <2>3. /\ Res(q2, MQ2!mq_add(a[i], b[i]), x[i] + y[i])
        /\ Res(q2, MQ2!mq_sub(a[i], b[i]), x[i] - y[i])
    BY <2>1, <2>2, SumMQ2, Zenon
  <2>4. Plus(x, y)[i] = x[i] + y[i] /\ Minus(x, y)[i] = x[i] - y[i]
    BY Zenon DEF Plus, Minus
  <2>5. MQ2!add(a, b)[i] = MQ2!mq_add(a[i], b[i]) /\ MQ2!sub(a, b)[i] = MQ2!mq_sub(a[i], b[i])
    BY IndexIs, Zenon DEF MQ2!add, MQ2!sub
  <2> QED
    BY <2>3, <2>4, <2>5, Zenon
<1> QED
  BY <1>1, Zenon DEF Value

\* Small and signed coefficients become residues.
LEMMA SmallValueMQ2 ==
  ASSUME NEW x \in Poly, Within(q2, x)
  PROVE  Value(q2, MQ2!small_to_int(x), x) /\ Value(q2, MQ2!signed_to_int(x), x)
<1>1. ASSUME NEW k \in Int, -q2 < k, k <= q2 PROVE Res(q2, MQ2!coef_signed_to_int(k), k)
  <2> DEFINE m == MQ2!coef_signed_to_int(k)
  <2>1. m \in 1..q2 /\ m \in Int /\ (m = k + q2 * 0 \/ m = k + q2 * 1) /\ 0 \in Int /\ 1 \in Int
    <3>1. -18433 < k /\ k <= 18433
      BY <1>1, Moduli, SMT
    <3>2. m = IF -k < 0 THEN k ELSE k + 18433
      BY <3>1, SMT DEF MQ2!coef_signed_to_int, MQ2!AddBack
    <3> HIDE DEF m
    <3> QED
      BY <3>1, <3>2, Moduli, SMTT(30)
  <2> HIDE DEF m
  <2>2. Cong(q2, m, k)
    BY <2>1, ModInt, CongBy, Zenon
  <2> QED
    BY <2>1, <2>2, Zenon DEF Res, m
<1>2. ASSUME NEW i \in Coef
      PROVE  Res(q2, MQ2!small_to_int(x)[i], x[i]) /\ Res(q2, MQ2!signed_to_int(x)[i], x[i])
  <2>1. /\ MQ2!small_to_int(x)[i] = MQ2!coef_signed_to_int(x[i])
        /\ MQ2!signed_to_int(x)[i] = MQ2!coef_signed_to_int(x[i])
    BY IndexIs, Zenon DEF MQ2!small_to_int, MQ2!signed_to_int
  <2>2. x[i] \in Int /\ -q2 < x[i] /\ x[i] <= q2
    BY Zenon DEF Poly, Within
  <2> QED
    BY <1>1, <2>1, <2>2, Zenon
<1> QED
  BY <1>2, Zenon DEF Value

\* and residues become the representatives around zero.
LEMMA SignedIsCentredMQ2 ==
  ASSUME NEW a, NEW x \in Poly, Value(q2, a, x)
  PROVE  MQ2!int_to_signed(a) = Centred(x, q2)
<1>1. ASSUME NEW t, NEW k \in Int, Res(q2, t, k)
      PROVE  MQ2!coef_int_to_signed(t) = IF k % q2 > q2 \div 2 THEN (k % q2) - q2 ELSE k % q2
  <2>1. t \in Int /\ t \in 1..q2 /\ Cong(q2, t, k)
    BY <1>1, ResIntMQ2, Zenon DEF Res
  <2>2. PICK j \in Int : t = k + q2 * j
    BY <2>1, Zenon DEF Cong
  <2>3. k % 18433 = IF t = 18433 THEN 0 ELSE t
    <3> DEFINE m == k % 18433
               d == k \div 18433
    <3>1. m \in Int /\ d \in Int /\ k = 18433 * d + m /\ 0 <= m /\ m < 18433
      BY SMT
    <3> HIDE DEF m, d
    <3>2. t = m + 18433 * (d + j) /\ 1 <= t /\ t <= 18433
      BY <2>1, <2>2, <3>1, Moduli, SMT
    <3>3. m = IF t = 18433 THEN 0 ELSE t
      BY <2>1, <3>1, <3>2, SMT
    <3>4. k % 18433 = m
      BY SMT DEF m
    <3> QED
      BY <2>1, <3>1, <3>3, <3>4, SMT
  <2>4. 1 <= t /\ t <= 18433
    BY <2>1, Moduli, SMT
  <2> QED
    BY <2>1, <2>3, <2>4, Moduli, SMT DEF MQ2!coef_int_to_signed
<1>2. ASSUME NEW i \in Coef
      PROVE  MQ2!coef_int_to_signed(a[i]) =
                 IF x[i] % q2 > q2 \div 2 THEN (x[i] % q2) - q2 ELSE x[i] % q2
  <2>1. Res(q2, a[i], x[i]) /\ x[i] \in Int
    BY Zenon DEF Value, Poly
  <2> QED
    BY <1>1, <2>1, Zenon
<1> QED
  BY <1>2, IndexIs, Zenon DEF MQ2!int_to_signed, Centred

-----------------------------------------------------------------------------
(* The operations that one of the two rings has.                             *)

LEMMA MuladjNtt ==
  ASSUME NEW a, NEW b, NEW x \in Poly, NEW y \in Poly,
         Roots(q2, wMQ2, a, x), Roots(q2, wMQ2, b, y)
  PROVE  Roots(q2, wMQ2, MQ2!muladj_ntt(a, b), Times(x, Adj(y)))
<1> DEFINE u == Times(x, Adj(y))[0] + wMQ2 * Times(x, Adj(y))[1]
           v == Times(x, Adj(y))[0] - wMQ2 * Times(x, Adj(y))[1]
           s == MQ2!mq_mmul(a[0], b[1])
           t == MQ2!mq_mmul(a[1], b[0])
<1>1. /\ \E k \in Int : Res(q2, s, k * riMQ2) /\ Cong(q2, k, u)
      /\ \E k \in Int : Res(q2, t, k * riMQ2) /\ Cong(q2, k, v)
  BY AdjInnerMQ2, Zenon
<1>2. u \in Int /\ v \in Int
  <2>1. Times(x, Adj(y)) \in Poly
    <3>1. Adj(y) \in Poly
      BY RingOps, Zenon
    <3> QED
      BY <3>1, RingOps, Zenon
  <2> QED
    BY <2>1, RootOps, IntsMQ2, Zenon
<1>3. /\ MQ2!muladj_ntt(a, b)[0] = MQ2!mq_mmul(s, rMQ2)
      /\ MQ2!muladj_ntt(a, b)[1] = MQ2!mq_mmul(t, rMQ2)
  <2>1. 2 - 1 - 0 = 1 /\ 2 - 1 - 1 = 0 /\ 0 \in Coef /\ 1 \in Coef
    BY DEF Coef
  <2> QED
    BY <2>1, IndexIs, SMT DEF MQ2!muladj_ntt, rMQ2
<1> HIDE DEF s, t, u, v
<1>4. Res(q2, MQ2!mq_mmul(s, rMQ2), u)
  <2>1. PICK k \in Int : Res(q2, s, k * riMQ2) /\ Cong(q2, k, u)
    BY <1>1, Zenon
  <2> QED
    BY <1>2, <2>1, OuterMQ2, Zenon
<1>5. Res(q2, MQ2!mq_mmul(t, rMQ2), v)
  <2>1. PICK k \in Int : Res(q2, t, k * riMQ2) /\ Cong(q2, k, v)
    BY <1>1, Zenon
  <2> QED
    BY <1>2, <2>1, OuterMQ2, Zenon
<1> QED
  BY <1>3, <1>4, <1>5, Zenon DEF Roots, u, v

LEMMA MuladjAdd ==
  ASSUME NEW a, NEW b, NEW c, NEW d, NEW x \in Poly, NEW y \in Poly, NEW e \in Poly, NEW f \in Poly,
         Roots(q, wMQ, a, x), Roots(q, wMQ, b, y), Roots(q, wMQ, c, e), Roots(q, wMQ, d, f)
  PROVE  Roots(q, wMQ, MQ!muladj_add_muladj(a, b, c, d), Plus(Times(x, Adj(y)), Times(e, Adj(f))))
<1> DEFINE xy == Times(x, Adj(y))
           ef == Times(e, Adj(f))
           s == MQ!mq_mmul(a[0], b[1])
           t == MQ!mq_mmul(c[0], d[1])
           s1 == MQ!mq_mmul(a[1], b[0])
           t1 == MQ!mq_mmul(c[1], d[0])
           u == xy[0] + wMQ * xy[1]
           v == ef[0] + wMQ * ef[1]
           u1 == xy[0] - wMQ * xy[1]
           v1 == ef[0] - wMQ * ef[1]
<1>1. /\ \E k \in Int : Res(q, s, k * riMQ) /\ Cong(q, k, u)
      /\ \E k \in Int : Res(q, t, k * riMQ) /\ Cong(q, k, v)
      /\ \E k \in Int : Res(q, s1, k * riMQ) /\ Cong(q, k, u1)
      /\ \E k \in Int : Res(q, t1, k * riMQ) /\ Cong(q, k, v1)
  BY AdjInnerMQ, Zenon
<1>2. xy \in Poly /\ ef \in Poly
  <2>1. Adj(y) \in Poly /\ Adj(f) \in Poly
    BY RingOps, Zenon
  <2> QED
    BY <2>1, RingOps, Zenon
<1>3. /\ MQ!muladj_add_muladj(a, b, c, d)[0] = MQ!mq_mmul(MQ!mq_add(s, t), rMQ)
      /\ MQ!muladj_add_muladj(a, b, c, d)[1] = MQ!mq_mmul(MQ!mq_add(s1, t1), rMQ)
  <2>1. 2 - 1 - 0 = 1 /\ 2 - 1 - 1 = 0 /\ 0 \in Coef /\ 1 \in Coef
    BY DEF Coef
  <2> QED
    BY <2>1, IndexIs, SMT DEF MQ!muladj_add_muladj, rMQ
<1> HIDE DEF xy, ef, s, t, s1, t1
<1>4. u \in Int /\ v \in Int /\ u1 \in Int /\ v1 \in Int
  BY <1>2, RootOps, IntsMQ, Zenon
<1>5. Plus(xy, ef)[0] + wMQ * Plus(xy, ef)[1] = u + v /\ Plus(xy, ef)[0] - wMQ * Plus(xy, ef)[1] = u1 + v1
  BY <1>2, RootPlus, IntsMQ, ZenonT(40)
<1> HIDE DEF u, v, u1, v1
<1>6. /\ Res(q, MQ!mq_mmul(MQ!mq_add(s, t), rMQ), u + v)
      /\ Res(q, MQ!mq_mmul(MQ!mq_add(s1, t1), rMQ), u1 + v1)
  BY <1>1, <1>4, SumOuterMQ, Zenon
<1> QED
  BY <1>3, <1>5, <1>6, Zenon DEF Roots, xy, ef

LEMMA NegNtt ==
  ASSUME NEW a, NEW x \in Poly, Roots(q, wMQ, a, x)
  PROVE  Roots(q, wMQ, MQ!neg(a), Minus(Const(0), x))
<1> DEFINE u1 == x[0] + wMQ * x[1]
           u2 == x[0] - wMQ * x[1]
<1>1. Res(q, a[0], u1) /\ Res(q, a[1], u2)
  BY Zenon DEF Roots
<1>2. u1 \in Int /\ u2 \in Int
  BY RootOps, IntsMQ, Zenon
<1>3. Res(q, q, 0)
  <2>1. q \in 1..q /\ 0 \in Int /\ 1 \in Int /\ q = 0 + q * 1
    BY Moduli, SMT
  <2> QED
    BY <2>1, ModInt, CongBy, Zenon DEF Res
<1>4. Const(0) \in Poly /\ Const(0)[0] = 0 /\ Const(0)[1] = 0
  BY DEF Const, Poly, Coef
<1>5. /\ Minus(Const(0), x)[0] + wMQ * Minus(Const(0), x)[1] = 0 - u1
      /\ Minus(Const(0), x)[0] - wMQ * Minus(Const(0), x)[1] = 0 - u2
  <2>1. Const(0)[0] + wMQ * Const(0)[1] = 0 /\ Const(0)[0] - wMQ * Const(0)[1] = 0
    BY <1>4, IntsMQ
  <2>2. /\ Minus(Const(0), x)[0] + wMQ * Minus(Const(0), x)[1] = (Const(0)[0] + wMQ * Const(0)[1]) - u1
        /\ Minus(Const(0), x)[0] - wMQ * Minus(Const(0), x)[1] = (Const(0)[0] - wMQ * Const(0)[1]) - u2
    BY <1>4, RootMinus, IntsMQ, Zenon
  <2> QED
    BY <2>1, <2>2, Zenon
<1>6. MQ!neg(a)[0] = MQ!mq_sub(q, a[0]) /\ MQ!neg(a)[1] = MQ!mq_sub(q, a[1])
  <2>1. 0 \in Coef /\ 1 \in Coef
    BY DEF Coef
  <2> QED
    BY <2>1, IndexIs, SMT DEF MQ!neg, q
<1> HIDE DEF u1, u2
<1>7. Res(q, MQ!mq_sub(q, a[0]), 0 - u1) /\ Res(q, MQ!mq_sub(q, a[1]), 0 - u2)
  <2>1. 0 \in Int
    OBVIOUS
  <2> QED
    BY <1>1, <1>2, <1>3, <2>1, SumMQ, Zenon
<1> QED
  BY <1>5, <1>6, <1>7, Zenon DEF Roots

LEMMA ExtValue ==
  ASSUME NEW x \in [Coef -> 0..(q - 1)]
  PROVE  Value(q, MQ!ext_to_int(x), x) /\ x \in Poly
<1>1. ASSUME NEW k \in 0..(q - 1) PROVE k \in Int /\ Res(q, MQ!coef_ext_to_int(k), k)
  <2> DEFINE m == MQ!coef_ext_to_int(k)
  <2>1. k \in Int /\ m \in 1..q /\ m \in Int /\ (m = k + q * 0 \/ m = k + q * 1) /\ 0 \in Int /\ 1 \in Int
    BY Moduli, SMT DEF MQ!coef_ext_to_int
  <2> HIDE DEF m
  <2>2. Cong(q, m, k)
    BY <2>1, ModInt, CongBy, Zenon
  <2> QED
    BY <2>1, <2>2, Zenon DEF Res, m
<1>2. ASSUME NEW i \in Coef PROVE x[i] \in Int /\ Res(q, MQ!ext_to_int(x)[i], x[i])
  <2>1. MQ!ext_to_int(x)[i] = MQ!coef_ext_to_int(x[i])
    BY IndexIs, Zenon DEF MQ!ext_to_int
  <2>2. x[i] \in 0..(q - 1)
    BY Zenon
  <2> QED
    BY <1>1, <2>1, <2>2, Zenon
<1>3. x = [i \in Coef |-> x[i]]
  BY Zenon
<1> QED
  BY <1>2, <1>3, Zenon DEF Value, Poly

Scaled(c, x) == [i \in Coef |-> c * x[i]]

\* mulconst by 1/q = 3 modulo q'.
LEMMA ThirdValue ==
  ASSUME NEW a, NEW x \in Poly, Value(q2, a, x)
  PROVE  Value(q2, MQ2!mulconst(a, MQ2_IQ), Scaled(3, x))
<1> DEFINE c == MQ2!mq_mmul(MQ2_IQ, 806)
<1>1. Res(q2, MQ2_IQ, 3)
  <2>1. MQ2_IQ \in 1..q2 /\ MQ2_IQ \in Int /\ 3 \in Int /\ 0 \in Int /\ MQ2_IQ = 3 + q2 * 0
    BY Moduli, SMT DEF MQ2_IQ
  <2> QED
    BY <2>1, ModInt, CongBy, Zenon DEF Res
<1>2. Res(q2, c, 3 * bMQ2)
  <2>1. 3 \in Int
    OBVIOUS
  <2> QED
    BY <1>1, <2>1, IntsMQ2, ConstsMQ2, MulByMQ2, ZenonT(40) DEF rMQ2
<1>3. Cong(q2, c, R * 3) /\ c \in 1..q2
  <2>1. c \in Int /\ c \in 1..q2 /\ Cong(q2, c, 3 * bMQ2)
    BY <1>2, ResIntMQ2, ZenonT(40) DEF Res
  <2> HIDE DEF c
  <2> DEFINE u == 3 * bMQ2
             v == R * 3
             k == -699012
  <2>2. u \in Int /\ v \in Int /\ k \in Int /\ u = v + q2 * k
    BY SMT DEF R, bMQ2, q2
  <2>3. Cong(q2, c, u)
    BY <2>1
  <2> HIDE DEF u, v, k
  <2>4. Cong(q2, u, v)
    BY <2>2, ModInt, CongBy, Zenon
  <2>5. Cong(q2, c, v)
    BY <2>1, <2>2, <2>3, <2>4, ModInt, CongTrans, Zenon
  <2> QED
    BY <2>1, <2>5, Zenon DEF v
<1> HIDE DEF c
<1>4. ASSUME NEW i \in Coef PROVE Res(q2, MQ2!mulconst(a, MQ2_IQ)[i], Scaled(3, x)[i])
  <2>1. Res(q2, a[i], x[i]) /\ x[i] \in Int
    BY Zenon DEF Value, Poly
  <2>2. MQ2!mulconst(a, MQ2_IQ)[i] = MQ2!mq_mmul(a[i], c)
    BY IndexIs, Zenon DEF MQ2!mulconst, c
  <2>3. 3 \in Int
    OBVIOUS
  <2>4. Res(q2, MQ2!mq_mmul(a[i], c), x[i] * 3)
    BY <1>3, <2>1, <2>3, MulByMQ2, Zenon
  <2>5. x[i] * 3 = Scaled(3, x)[i]
    BY <2>1 DEF Scaled
  <2> QED
    BY <2>2, <2>4, <2>5, Zenon
<1> QED
  BY <1>4, Zenon DEF Value

-----------------------------------------------------------------------------
(* Polynomials that are equal modulo p.                                      *)

Equiv(p, x, y) == \A i \in Coef : Cong(p, x[i], y[i])

LEMMA ModCong ==
  ASSUME NEW p \in {q, q2}, NEW x \in Int
  PROVE  Cong(p, x % p, x) /\ x % p \in Int /\ 0 <= x % p /\ x % p < p
<1> DEFINE d == -(x \div p)
           m == x % p
<1>1. /\ p \in Int /\ d \in Int /\ m \in Int /\ m = x + p * d
      /\ 0 <= x % p /\ x % p < p
  <2>1. CASE p = 12289
    BY <2>1, SMT
  <2>2. CASE p = 18433
    BY <2>2, SMT
  <2> QED
    BY <2>1, <2>2, Moduli, SMT
<1> HIDE DEF d, m
<1>2. Cong(p, m, x)
  BY <1>1, CongBy, Zenon
<1> QED
  BY <1>1, <1>2, Zenon DEF m

LEMMA EquivSum ==
  ASSUME NEW p \in Int, NEW x \in Poly, NEW y \in Poly, NEW u \in Poly, NEW v \in Poly,
         Equiv(p, x, u), Equiv(p, y, v)
  PROVE  Equiv(p, Plus(x, y), Plus(u, v)) /\ Equiv(p, Minus(x, y), Minus(u, v))
<1>1. ASSUME NEW i \in Coef
      PROVE  Cong(p, Plus(x, y)[i], Plus(u, v)[i]) /\ Cong(p, Minus(x, y)[i], Minus(u, v)[i])
  <2>1. /\ x[i] \in Int /\ y[i] \in Int /\ u[i] \in Int /\ v[i] \in Int
        /\ Cong(p, x[i], u[i]) /\ Cong(p, y[i], v[i])
    BY Zenon DEF Poly, Equiv
  <2>2. Cong(p, x[i] + y[i], u[i] + v[i]) /\ Cong(p, x[i] - y[i], u[i] - v[i])
    BY <2>1, CongSum, Zenon
  <2> QED
    BY <2>2, Zenon DEF Plus, Minus
<1> QED
  BY <1>1, Zenon DEF Equiv

LEMMA EquivTimes ==
  ASSUME NEW p \in Int, NEW x \in Poly, NEW y \in Poly, NEW u \in Poly, NEW v \in Poly,
         Equiv(p, x, u), Equiv(p, y, v)
  PROVE  Equiv(p, Times(x, y), Times(u, v))
<1>1. /\ x[0] \in Int /\ y[0] \in Int /\ u[0] \in Int /\ v[0] \in Int
      /\ x[1] \in Int /\ y[1] \in Int /\ u[1] \in Int /\ v[1] \in Int
  BY RingOps, Zenon
<1>2. /\ Cong(p, x[0], u[0]) /\ Cong(p, x[1], u[1]) /\ Cong(p, y[0], v[0]) /\ Cong(p, y[1], v[1])
  BY Zenon DEF Equiv, Coef
<1>3. /\ Cong(p, x[0] * y[0], u[0] * v[0]) /\ Cong(p, x[1] * y[1], u[1] * v[1])
      /\ Cong(p, x[0] * y[1], u[0] * v[1]) /\ Cong(p, x[1] * y[0], u[1] * v[0])
  BY <1>1, <1>2, CongProduct, Zenon
<1> DEFINE a == x[0] * y[0]
           b == x[1] * y[1]
           c == x[0] * y[1]
           d == x[1] * y[0]
           a1 == u[0] * v[0]
           b1 == u[1] * v[1]
           c1 == u[0] * v[1]
           d1 == u[1] * v[0]
<1>4. /\ a \in Int /\ b \in Int /\ c \in Int /\ d \in Int
      /\ a1 \in Int /\ b1 \in Int /\ c1 \in Int /\ d1 \in Int
  BY <1>1
<1>5. Cong(p, a, a1) /\ Cong(p, b, b1) /\ Cong(p, c, c1) /\ Cong(p, d, d1)
  BY <1>3
<1>6. Times(x, y)[0] = a - b /\ Times(x, y)[1] = c + d /\ Times(u, v)[0] = a1 - b1 /\ Times(u, v)[1] = c1 + d1
  BY RingOps, Zenon
<1> HIDE DEF a, b, c, d, a1, b1, c1, d1
<1>7. Cong(p, a - b, a1 - b1) /\ Cong(p, c + d, c1 + d1)
  BY <1>4, <1>5, CongSum, Zenon
<1> QED
  BY <1>6, <1>7, Zenon DEF Equiv, Coef

LEMMA EquivSame == ASSUME NEW p \in Int, NEW x \in Poly PROVE Equiv(p, x, x)
  BY CongSame, Zenon DEF Equiv, Poly

LEMMA EquivTurn ==
  ASSUME NEW p \in Int, NEW x \in Poly, NEW y \in Poly, Equiv(p, x, y) PROVE Equiv(p, y, x)
<1>1. ASSUME NEW i \in Coef PROVE Cong(p, y[i], x[i])
  <2>1. x[i] \in Int /\ y[i] \in Int /\ Cong(p, x[i], y[i])
    BY Zenon DEF Poly, Equiv
  <2> QED
    BY <2>1, CongTurn, Zenon
<1> QED
  BY <1>1, Zenon DEF Equiv

LEMMA EquivTrans ==
  ASSUME NEW p \in Int, NEW x \in Poly, NEW y \in Poly, NEW u \in Poly, Equiv(p, x, y), Equiv(p, y, u)
  PROVE  Equiv(p, x, u)
<1>1. ASSUME NEW i \in Coef PROVE Cong(p, x[i], u[i])
  <2>1. x[i] \in Int /\ y[i] \in Int /\ u[i] \in Int /\ Cong(p, x[i], y[i]) /\ Cong(p, y[i], u[i])
    BY Zenon DEF Poly, Equiv
  <2> QED
    BY <2>1, CongTrans, Zenon
<1> QED
  BY <1>1, Zenon DEF Equiv

\* What an array holds, it holds modulo p.
LEMMA EquivRoots ==
  ASSUME NEW p \in Int, NEW w \in Int, NEW d, NEW x \in Poly, NEW y \in Poly,
         Roots(p, w, d, x), Equiv(p, x, y)
  PROVE  Roots(p, w, d, y)
<1> DEFINE u1 == x[0] + w * x[1]
           u2 == x[0] - w * x[1]
           v1 == y[0] + w * y[1]
           v2 == y[0] - w * y[1]
<1>1. Res(p, d[0], u1) /\ Res(p, d[1], u2)
  BY Zenon DEF Roots
<1>2. /\ x[0] \in Int /\ x[1] \in Int /\ y[0] \in Int /\ y[1] \in Int
      /\ u1 \in Int /\ u2 \in Int /\ v1 \in Int /\ v2 \in Int
  BY RingOps, RootOps, Zenon
<1>3. Cong(p, x[0], y[0]) /\ Cong(p, x[1], y[1])
  BY Zenon DEF Equiv, Coef
<1>4. Cong(p, w * x[1], w * y[1])
  BY <1>2, <1>3, CongTimes, Zenon
<1>5. Cong(p, u1, v1) /\ Cong(p, u2, v2)
  <2>1. w * x[1] \in Int /\ w * y[1] \in Int
    BY <1>2
  <2> QED
    BY <1>2, <1>3, <1>4, <2>1, CongSum, Zenon
<1>6. d[0] \in Int /\ d[1] \in Int
  <2>1. d[0] \in 1..p /\ d[1] \in 1..p
    BY <1>1, Zenon DEF Res
  <2> QED
    BY <2>1
<1> HIDE DEF u1, u2, v1, v2
<1>7. Res(p, d[0], v1) /\ Res(p, d[1], v2)
  BY <1>1, <1>2, <1>5, <1>6, ResCong, Zenon
<1> QED
  BY <1>7, Zenon DEF Roots, v1, v2

\* Centred is the representative around zero.
LEMMA CentredIs ==
  ASSUME NEW p \in {q, q2}, NEW x \in Poly
  PROVE  /\ Centred(x, p) \in Poly /\ Equiv(p, Centred(x, p), x)
         /\ \A i \in Coef : -p < 2 * Centred(x, p)[i] /\ 2 * Centred(x, p)[i] < p
<1>1. ASSUME NEW i \in Coef
      PROVE  /\ Centred(x, p)[i] \in Int /\ Cong(p, Centred(x, p)[i], x[i])
             /\ -p < 2 * Centred(x, p)[i] /\ 2 * Centred(x, p)[i] < p
  <2> DEFINE m == x[i] % p
             c == Centred(x, p)[i]
  <2>1. x[i] \in Int
    BY Zenon DEF Poly
  <2>2. c = IF m > p \div 2 THEN m - p ELSE m
    BY Zenon DEF Centred
  <2>3. Cong(p, m, x[i]) /\ m \in Int /\ 0 <= m /\ m < p
    BY <2>1, ModCong, Zenon
  <2>4. p \in Int /\ (p = 12289 \/ p = 18433)
    BY Moduli, SMT
  <2> HIDE DEF m, c
  <2>5. /\ c \in Int /\ (c = m + p * 0 \/ c = m + p * (-1)) /\ 0 \in Int /\ -1 \in Int
        /\ -p < 2 * c /\ 2 * c < p
    <3>1. CASE p = 12289
      BY <2>2, <2>3, <3>1, SMT
    <3>2. CASE p = 18433
      BY <2>2, <2>3, <3>2, SMT
    <3> QED
      BY <2>4, <3>1, <3>2, SMT
  <2>7. p \in Int
    BY <2>4
  <2>6. Cong(p, c, m)
    BY <2>3, <2>5, <2>7, CongBy, Zenon
  <2>8. Cong(p, c, x[i])
    BY <2>1, <2>3, <2>5, <2>6, <2>7, CongTrans, Zenon
  <2> QED
    BY <2>5, <2>8, Zenon DEF c
<1>2. Centred(x, p) = [i \in Coef |-> Centred(x, p)[i]]
  BY Zenon DEF Centred
<1> QED
  BY <1>1, <1>2, Zenon DEF Poly, Equiv

\* A short polynomial is the representative of its class.
LEMMA CentredUnique ==
  ASSUME NEW p \in {q, q2}, NEW x \in Poly, NEW y \in Poly, Equiv(p, x, y),
         \A i \in Coef : -p < 2 * y[i] /\ 2 * y[i] < p
  PROVE  Centred(x, p) = y
<1> DEFINE c == Centred(x, p)
<1>0. p \in Int /\ p > 0
  BY Moduli, SMT
<1>1. c \in Poly /\ Equiv(p, c, x) /\ \A i \in Coef : -p < 2 * c[i] /\ 2 * c[i] < p
  BY CentredIs, Zenon
<1> HIDE DEF c
<1>2. Equiv(p, c, y)
  BY <1>0, <1>1, EquivTrans, Zenon
<1>3. ASSUME NEW i \in Coef PROVE c[i] = y[i]
  <2>1. c[i] \in Int /\ y[i] \in Int /\ Cong(p, c[i], y[i])
    BY <1>1, <1>2, Zenon DEF Equiv, Poly
  <2>2. -p < 2 * c[i] /\ 2 * c[i] < p /\ -p < 2 * y[i] /\ 2 * y[i] < p
    BY <1>1, Zenon
  <2>3. -p < c[i] - y[i] /\ c[i] - y[i] < p
    BY <1>0, <2>1, <2>2
  <2> QED
    BY <1>0, <2>1, <2>3, CongEqual, Zenon
<1>4. c = [i \in Coef |-> c[i]] /\ y = [i \in Coef |-> y[i]]
  BY <1>1, Zenon DEF Poly
<1>5. c = y
  BY <1>3, <1>4, Zenon
<1> QED
  BY <1>5, Zenon DEF c

LEMMA CentredEquiv ==
  ASSUME NEW p \in {q, q2}, NEW x \in Poly, NEW y \in Poly, Equiv(p, x, y)
  PROVE  Centred(x, p) = Centred(y, p)
<1> DEFINE c == Centred(y, p)
<1>0. p \in Int
  BY ModInt, Zenon
<1>1. c \in Poly /\ Equiv(p, c, y) /\ \A i \in Coef : -p < 2 * c[i] /\ 2 * c[i] < p
  BY CentredIs, Zenon
<1> HIDE DEF c
<1>2. Equiv(p, x, c)
  BY <1>0, <1>1, EquivTurn, EquivTrans, Zenon
<1>3. Centred(x, p) = c
  BY <1>1, <1>2, CentredUnique, Zenon
<1> QED
  BY <1>3, Zenon DEF c

\* The ring is a ring.
LEMMA PolyEqual ==
  ASSUME NEW x \in Poly, NEW y \in Poly, x[0] = y[0], x[1] = y[1] PROVE x = y
  BY DEF Poly, Coef

LEMMA ConstPoly ==
  ASSUME NEW c \in Int
  PROVE  Const(c) \in Poly /\ Const(c)[0] = c /\ Const(c)[1] = 0
  BY DEF Const, Poly, Coef

LEMMA TimesComm == ASSUME NEW x \in Poly, NEW y \in Poly PROVE Times(x, y) = Times(y, x)
<1> DEFINE a == x[0]
           b == x[1]
           c == y[0]
           d == y[1]
<1>1. a \in Int /\ b \in Int /\ c \in Int /\ d \in Int
  BY RingOps, Zenon
<1>2. /\ Times(x, y)[0] = a * c - b * d /\ Times(x, y)[1] = a * d + b * c
      /\ Times(y, x)[0] = c * a - d * b /\ Times(y, x)[1] = c * b + d * a
      /\ Times(x, y) \in Poly /\ Times(y, x) \in Poly
  BY RingOps, Zenon
<1> HIDE DEF a, b, c, d
<1>3. a * c - b * d = c * a - d * b /\ a * d + b * c = c * b + d * a
  BY <1>1
<1> QED
  BY <1>2, <1>3, PolyEqual, Zenon

LEMMA TimesAssoc ==
  ASSUME NEW x \in Poly, NEW y \in Poly, NEW u \in Poly
  PROVE  Times(Times(x, y), u) = Times(x, Times(y, u))
<1> DEFINE a == x[0]
           b == x[1]
           c == y[0]
           d == y[1]
           e == u[0]
           f == u[1]
           xy == Times(x, y)
           yu == Times(y, u)
<1>1. a \in Int /\ b \in Int /\ c \in Int /\ d \in Int /\ e \in Int /\ f \in Int
  BY RingOps, Zenon
<1>2. xy \in Poly /\ xy[0] = a * c - b * d /\ xy[1] = a * d + b * c
  BY RingOps, Zenon
<1>3. yu \in Poly /\ yu[0] = c * e - d * f /\ yu[1] = c * f + d * e
  BY RingOps, Zenon
<1> HIDE DEF xy, yu
<1>4. /\ Times(xy, u)[0] = xy[0] * u[0] - xy[1] * u[1] /\ Times(xy, u)[1] = xy[0] * u[1] + xy[1] * u[0]
      /\ Times(xy, u) \in Poly
  BY <1>2, RingOps, Zenon
<1>5. /\ Times(x, yu)[0] = x[0] * yu[0] - x[1] * yu[1] /\ Times(x, yu)[1] = x[0] * yu[1] + x[1] * yu[0]
      /\ Times(x, yu) \in Poly
  BY <1>3, RingOps, Zenon
<1>6. /\ Times(xy, u)[0] = (a * c - b * d) * e - (a * d + b * c) * f
      /\ Times(xy, u)[1] = (a * c - b * d) * f + (a * d + b * c) * e
  BY <1>2, <1>4, Zenon
<1>7. /\ Times(x, yu)[0] = a * (c * e - d * f) - b * (c * f + d * e)
      /\ Times(x, yu)[1] = a * (c * f + d * e) + b * (c * e - d * f)
  BY <1>3, <1>5, Zenon
<1> HIDE DEF a, b, c, d, e, f
<1>8. /\ (a * c - b * d) * e - (a * d + b * c) * f = a * (c * e - d * f) - b * (c * f + d * e)
      /\ (a * c - b * d) * f + (a * d + b * c) * e = a * (c * f + d * e) + b * (c * e - d * f)
  BY <1>1
<1>9. Times(xy, u) = Times(x, yu)
  BY <1>4, <1>5, <1>6, <1>7, <1>8, PolyEqual, Zenon
<1> QED
  BY <1>9, Zenon DEF xy, yu

LEMMA TimesOne == ASSUME NEW x \in Poly PROVE Times(x, Const(1)) = x
<1>1. Const(1) \in Poly /\ Const(1)[0] = 1 /\ Const(1)[1] = 0
  BY ConstPoly
<1>2. Times(x, Const(1))[0] = x[0] * 1 - x[1] * 0 /\ Times(x, Const(1))[1] = x[0] * 0 + x[1] * 1
  <2>1. /\ Times(x, Const(1))[0] = x[0] * Const(1)[0] - x[1] * Const(1)[1]
        /\ Times(x, Const(1))[1] = x[0] * Const(1)[1] + x[1] * Const(1)[0]
    BY <1>1, RingOps, Zenon
  <2> QED
    BY <1>1, <2>1, Zenon
<1>3. x[0] \in Int /\ x[1] \in Int /\ Times(x, Const(1)) \in Poly
  BY <1>1, RingOps, Zenon
<1>4. Times(x, Const(1))[0] = x[0] /\ Times(x, Const(1))[1] = x[1]
  BY <1>2, <1>3
<1> QED
  BY <1>3, <1>4, PolyEqual, Zenon

LEMMA Distributes ==
  ASSUME NEW x \in Poly, NEW y \in Poly, NEW u \in Poly
  PROVE  /\ Times(x, Plus(y, u)) = Plus(Times(x, y), Times(x, u))
         /\ Times(x, Minus(y, u)) = Minus(Times(x, y), Times(x, u))
<1> DEFINE a == x[0]
           b == x[1]
           c == y[0]
           d == y[1]
           e == u[0]
           f == u[1]
           p == Plus(y, u)
           m == Minus(y, u)
           xy == Times(x, y)
           xu == Times(x, u)
<1>1. a \in Int /\ b \in Int /\ c \in Int /\ d \in Int /\ e \in Int /\ f \in Int
  BY RingOps, Zenon
<1>2. /\ p \in Poly /\ p[0] = c + e /\ p[1] = d + f /\ m \in Poly /\ m[0] = c - e /\ m[1] = d - f
  BY RingOps, Zenon
<1>3. /\ xy \in Poly /\ xy[0] = a * c - b * d /\ xy[1] = a * d + b * c
      /\ xu \in Poly /\ xu[0] = a * e - b * f /\ xu[1] = a * f + b * e
  BY RingOps, Zenon
<1> HIDE DEF p, m, xy, xu
<1>4. /\ Times(x, p) \in Poly /\ Times(x, p)[0] = x[0] * p[0] - x[1] * p[1]
      /\ Times(x, p)[1] = x[0] * p[1] + x[1] * p[0]
  BY <1>2, RingOps, Zenon
<1>5. /\ Times(x, m) \in Poly /\ Times(x, m)[0] = x[0] * m[0] - x[1] * m[1]
      /\ Times(x, m)[1] = x[0] * m[1] + x[1] * m[0]
  BY <1>2, RingOps, Zenon
<1>6. /\ Plus(xy, xu) \in Poly /\ Plus(xy, xu)[0] = xy[0] + xu[0] /\ Plus(xy, xu)[1] = xy[1] + xu[1]
      /\ Minus(xy, xu) \in Poly /\ Minus(xy, xu)[0] = xy[0] - xu[0] /\ Minus(xy, xu)[1] = xy[1] - xu[1]
  BY <1>3, RingOps, ZenonT(40)
<1>7. /\ Times(x, p)[0] = a * (c + e) - b * (d + f) /\ Times(x, p)[1] = a * (d + f) + b * (c + e)
      /\ Times(x, m)[0] = a * (c - e) - b * (d - f) /\ Times(x, m)[1] = a * (d - f) + b * (c - e)
      /\ Plus(xy, xu)[0] = (a * c - b * d) + (a * e - b * f)
      /\ Plus(xy, xu)[1] = (a * d + b * c) + (a * f + b * e)
      /\ Minus(xy, xu)[0] = (a * c - b * d) - (a * e - b * f)
      /\ Minus(xy, xu)[1] = (a * d + b * c) - (a * f + b * e)
  BY <1>2, <1>3, <1>4, <1>5, <1>6, Zenon
<1> HIDE DEF a, b, c, d, e, f
<1>8. /\ a * (c + e) - b * (d + f) = (a * c - b * d) + (a * e - b * f)
      /\ a * (d + f) + b * (c + e) = (a * d + b * c) + (a * f + b * e)
      /\ a * (c - e) - b * (d - f) = (a * c - b * d) - (a * e - b * f)
      /\ a * (d - f) + b * (c - e) = (a * d + b * c) - (a * f + b * e)
  BY <1>1
<1>10. Times(x, p) = Plus(xy, xu)
  <2>1. Times(x, p)[0] = Plus(xy, xu)[0] /\ Times(x, p)[1] = Plus(xy, xu)[1]
    BY <1>7, <1>8, Zenon
  <2> QED
    BY <1>4, <1>6, <2>1, PolyEqual, Zenon
<1>11. Times(x, m) = Minus(xy, xu)
  <2>1. Times(x, m)[0] = Minus(xy, xu)[0] /\ Times(x, m)[1] = Minus(xy, xu)[1]
    BY <1>7, <1>8, Zenon
  <2> QED
    BY <1>5, <1>6, <2>1, PolyEqual, Zenon
<1> QED
  BY <1>10, <1>11, Zenon DEF p, m, xy, xu

-----------------------------------------------------------------------------
(* The inverse of f modulo q, and the public key.                            *)

\* The inverse modulo q of the squared norm of f, as PublicKey chooses it, and of f.
NormInv(k) == CHOOSE i \in 1..(q - 1) : (mqpoly_sqnorm_small(k.f) * i) % q = 1
FInv(k) == Times(Adj(k.f), Const(NormInv(k)))

LEMMA KeyPolys ==
  ASSUME NEW k \in Keys
  PROVE  /\ k.f \in Poly /\ k.g \in Poly /\ k.F \in Poly /\ BigG(k) \in Poly
         /\ \A i \in Coef : /\ -127 <= k.f[i] /\ k.f[i] <= 127
                            /\ -127 <= k.g[i] /\ k.g[i] <= 127
                            /\ -127 <= k.F[i] /\ k.F[i] <= 127
                            /\ -127 <= BigG(k)[i] /\ BigG(k)[i] <= 127
         /\ Minus(Times(k.f, BigG(k)), Times(k.g, k.F)) = Const(q)
         /\ mqpoly_sqnorm_small(k.f) \in Int /\ mqpoly_sqnorm_small(k.f) % q # 0
<1>1. /\ k.f \in [Coef -> -127..127] /\ k.g \in [Coef -> -127..127]
      /\ k.F \in [Coef -> -127..127] /\ BigG(k) \in [Coef -> -127..127]
      /\ Minus(Times(k.f, BigG(k)), Times(k.g, k.F)) = Const(q)
      /\ mqpoly_sqnorm_small(k.f) % q # 0
  BY KeysAssumption, Zenon
<1>2. ASSUME NEW x \in [Coef -> -127..127]
      PROVE  x \in Poly /\ \A i \in Coef : -127 <= x[i] /\ x[i] <= 127
  BY DEF Poly
<1>3. /\ k.f \in Poly /\ k.g \in Poly /\ k.F \in Poly /\ BigG(k) \in Poly
      /\ \A i \in Coef : -127 <= k.f[i] /\ k.f[i] <= 127
      /\ \A i \in Coef : -127 <= k.g[i] /\ k.g[i] <= 127
      /\ \A i \in Coef : -127 <= k.F[i] /\ k.F[i] <= 127
      /\ \A i \in Coef : -127 <= BigG(k)[i] /\ BigG(k)[i] <= 127
  BY <1>1, <1>2, Zenon
<1>4. mqpoly_sqnorm_small(k.f) \in Int
  <2> DEFINE a == k.f[0]
             b == k.f[1]
  <2>1. a \in Int /\ b \in Int
    BY <1>3, RingOps, Zenon
  <2> HIDE DEF a, b
  <2>2. a * a + b * b \in Int
    BY <2>1
  <2> QED
    BY <2>2, Zenon DEF mqpoly_sqnorm_small, a, b
<1> QED
  BY <1>1, <1>3, <1>4, Zenon

\* A polynomial times its adjoint is its squared norm.
LEMMA NormIs ==
  ASSUME NEW x \in Poly
  PROVE  Times(x, Adj(x)) = Const(mqpoly_sqnorm_small(x))
<1> DEFINE a == x[0]
           b == x[1]
<1>1. a \in Int /\ b \in Int
  BY RingOps, Zenon
<1>2. Adj(x) \in Poly /\ Adj(x)[0] = a /\ Adj(x)[1] = -b
  BY RingOps, Zenon
<1>3. /\ Times(x, Adj(x))[0] = x[0] * Adj(x)[0] - x[1] * Adj(x)[1]
      /\ Times(x, Adj(x))[1] = x[0] * Adj(x)[1] + x[1] * Adj(x)[0]
      /\ Times(x, Adj(x)) \in Poly
  BY <1>2, RingOps, Zenon
<1>4. Times(x, Adj(x))[0] = a * a - b * (-b) /\ Times(x, Adj(x))[1] = a * (-b) + b * a
  BY <1>2, <1>3, Zenon
<1>5. mqpoly_sqnorm_small(x) = a * a + b * b
  BY Zenon DEF mqpoly_sqnorm_small
<1> HIDE DEF a, b
<1>6. a * a - b * (-b) = a * a + b * b /\ a * (-b) + b * a = 0
  BY <1>1
<1> DEFINE n == a * a + b * b
           t == Times(x, Adj(x))
<1>7. t[0] = n /\ t[1] = 0 /\ t \in Poly
  BY <1>3, <1>4, <1>6, Zenon
<1> HIDE DEF t, n
<1>8. t = Const(n)
  BY <1>7 DEF Const, Poly, Coef
<1> QED
  BY <1>5, <1>8, Zenon DEF t, n

LEMMA NormInverse ==
  ASSUME NEW k \in Keys
  PROVE  NormInv(k) \in Int /\ Cong(q, mqpoly_sqnorm_small(k.f) * NormInv(k), 1)
<1> DEFINE n == mqpoly_sqnorm_small(k.f)
           y == n % q
           i == MQ!mq_div(1, y)
<1>1. n \in Int /\ y # 0
  BY KeyPolys, Zenon
<1> HIDE DEF n
<1>2. y \in 1..(q - 1) /\ y \in Int /\ Cong(q, y, n)
  <2>1. q \in {q, q2}
    OBVIOUS
  <2>2. Cong(q, y, n) /\ y \in Int /\ 0 <= y /\ y < q
    BY <1>1, <2>1, ModCong, Zenon
  <2> QED
    BY <1>1, <2>2, ModInt
<1> HIDE DEF y
<1>3. i \in 1..q /\ (i * y) % q = 1
  BY <1>2, DivisionAssumption, Zenon
<1> HIDE DEF i
<1>4. i \in Int /\ i \in 1..(q - 1)
  <2>1. i \in Int /\ 1 <= i /\ i <= 12289
    BY <1>3, Moduli, SMT
  <2>2. (i * y) % 12289 = 1
    BY <1>3, Moduli, SMT
  <2>3. i # 12289
    <3>1. ASSUME i = 12289 PROVE FALSE
      <4>1. (12289 * y) % 12289 = 0
        BY <1>2, SMT
      <4> QED
        BY <2>2, <3>1, <4>1, SMT
    <3> QED
      BY <3>1, SMT
  <2> QED
    BY <2>1, <2>3, Moduli, SMT
<1>5. (n * i) % q = 1
  <2> DEFINE a == n * i
             b == i * y
             c == i * n
  <2>1. a \in Int /\ b \in Int /\ c \in Int /\ a = c
    BY <1>1, <1>2, <1>4
  <2>2. Cong(q, b, c)
    BY <1>1, <1>2, <1>4, ModInt, CongTimes, Zenon
  <2>3. b % q = 1
    BY <1>3
  <2> HIDE DEF a, b, c
  <2>4. PICK j \in Int : b = c + q * j
    BY <2>2, Zenon DEF Cong
  <2>5. b % 12289 = 1 /\ b = c + 12289 * j
    BY <2>3, <2>4, Moduli, SMT
  <2>6. c % 12289 = 1
    BY <2>1, <2>5, SMT
  <2>7. a % q = 1
    BY <2>1, <2>6, Moduli, SMT
  <2> QED
    BY <2>7, Zenon DEF a
<1>6. NormInv(k) \in 1..(q - 1) /\ (n * NormInv(k)) % q = 1
  BY <1>4, <1>5, Zenon DEF NormInv, n
<1> DEFINE v == NormInv(k)
           m == n * v
<1>7. v \in Int /\ m \in Int /\ m % q = 1
  <2>1. v \in Int
    BY <1>6, ModInt
  <2> HIDE DEF v
  <2>2. m \in Int
    BY <1>1, <2>1
  <2> QED
    BY <1>6, <2>1, <2>2 DEF v
<1> HIDE DEF m
<1>8. Cong(q, m, 1)
  <2>1. q \in {q, q2} /\ 1 \in Int
    OBVIOUS
  <2>2. Cong(q, 1, m)
    BY <1>7, <2>1, ModCong, Zenon
  <2> QED
    BY <1>7, <2>1, <2>2, ModInt, CongTurn, Zenon
<1> QED
  BY <1>7, <1>8, Zenon DEF m, n

\* FInv is the inverse of f modulo q, and g times F times it is G.
LEMMA InverseOfF ==
  ASSUME NEW k \in Keys
  PROVE  /\ FInv(k) \in Poly /\ Equiv(q, Times(k.f, FInv(k)), Const(1))
         /\ \A x \in Poly : Equiv(q, Times(Times(x, k.f), FInv(k)), x)
         /\ Equiv(q, Times(Times(k.g, k.F), FInv(k)), BigG(k))
<1> DEFINE f == k.f
           fi == FInv(k)
           n == mqpoly_sqnorm_small(k.f)
           v == NormInv(k)
<1>1. f \in Poly /\ k.g \in Poly /\ k.F \in Poly /\ BigG(k) \in Poly /\ n \in Int
  BY KeyPolys, Zenon
<1>2. v \in Int /\ Cong(q, n * v, 1)
  BY NormInverse, Zenon
<1>3. Adj(f) \in Poly /\ Const(v) \in Poly /\ Const(n) \in Poly /\ Const(1) \in Poly
  <2>1. 1 \in Int
    OBVIOUS
  <2> QED
    BY <1>1, <1>2, <2>1, RingOps, ConstPoly, Zenon
<1>4. fi \in Poly
  BY <1>3, RingOps, Zenon DEF FInv
<1>5. fi = Times(Adj(f), Const(v))
  BY Zenon DEF FInv
<1>6. Times(f, Adj(f)) = Const(n)
  BY <1>1, NormIs, Zenon
<1> HIDE DEF f, fi, n, v
<1>7. Times(f, fi) = Const(n * v)
  <2>1. Times(f, fi) = Times(Times(f, Adj(f)), Const(v))
    <3> DEFINE a == Adj(f)
               b == Const(v)
    <3>1. f \in Poly /\ a \in Poly /\ b \in Poly
      BY <1>1, <1>3, Zenon
    <3> HIDE DEF a, b
    <3>2. Times(Times(f, a), b) = Times(f, Times(a, b))
      BY <3>1, TimesAssoc, Zenon
    <3> QED
      BY <1>5, <3>2, Zenon DEF a, b
  <2>2. Times(Const(n), Const(v)) = Const(n * v)
    BY <1>1, <1>2 DEF Times, Const, Coef
  <2> QED
    BY <1>6, <2>1, <2>2, Zenon
<1>8. Equiv(q, Times(f, fi), Const(1))
  <2> DEFINE m == n * v
  <2>1. m \in Int /\ Cong(q, m, 1) /\ 0 \in Int /\ 1 \in Int
    BY <1>1, <1>2
  <2> HIDE DEF m
  <2>2. Cong(q, 0, 0)
    BY <2>1, ModInt, CongSame, Zenon
  <2>3. Const(m)[0] = m /\ Const(m)[1] = 0 /\ Const(1)[0] = 1 /\ Const(1)[1] = 0
    BY <2>1, ConstPoly, Zenon
  <2>4. Equiv(q, Const(m), Const(1))
    BY <2>1, <2>2, <2>3, Zenon DEF Equiv, Coef
  <2> QED
    BY <1>7, <2>4, Zenon DEF m
<1>9. ASSUME NEW x \in Poly PROVE Equiv(q, Times(Times(x, f), fi), x)
  <2>1. Times(Times(x, f), fi) = Times(x, Times(f, fi))
    BY <1>1, <1>4, TimesAssoc, Zenon
  <2>2. Times(f, fi) \in Poly
    BY <1>1, <1>4, RingOps, Zenon
  <2>3. Equiv(q, x, x)
    BY ModInt, EquivSame, Zenon
  <2>4. Equiv(q, Times(x, Times(f, fi)), Times(x, Const(1)))
    BY <1>3, <1>8, <2>2, <2>3, ModInt, EquivTimes, Zenon
  <2>5. Times(x, Const(1)) = x
    BY TimesOne, Zenon
  <2> QED
    BY <2>1, <2>4, <2>5, Zenon
<1>10. Equiv(q, Times(k.g, k.F), Times(BigG(k), f))
  <2> DEFINE a == Times(k.g, k.F)
             b == Times(BigG(k), f)
  <2>1. a \in Poly /\ b \in Poly
    BY <1>1, RingOps, Zenon
  <2>2. Minus(b, a) = Const(q)
    <3>1. Times(f, BigG(k)) = b
      BY <1>1, TimesComm, Zenon
    <3>2. Minus(Times(f, BigG(k)), a) = Const(q)
      BY KeyPolys, Zenon DEF f
    <3> QED
      BY <3>1, <3>2, Zenon
  <2> HIDE DEF a, b
  <2>3. a[0] = b[0] + q * (-1) /\ a[1] = b[1] + q * 0
    <3>1. Minus(b, a)[0] = b[0] - a[0] /\ Minus(b, a)[1] = b[1] - a[1] /\ a[0] \in Int /\ a[1] \in Int /\ b[0] \in Int /\ b[1] \in Int
      BY <2>1, RingOps, Zenon
    <3>2. Const(q)[0] = q /\ Const(q)[1] = 0
      BY ModInt, ConstPoly, Zenon
    <3>3. b[0] - a[0] = q /\ b[1] - a[1] = 0
      BY <2>2, <3>1, <3>2, Zenon
    <3>4. ASSUME NEW s \in Int, NEW t \in Int
          PROVE  (t - s = q => s = t + q * (-1)) /\ (t - s = 0 => s = t + q * 0)
      BY Moduli, SMT
    <3> QED
      BY <3>1, <3>3, <3>4, Zenon
  <2>4. a[0] \in Int /\ a[1] \in Int /\ b[0] \in Int /\ b[1] \in Int /\ -1 \in Int /\ 0 \in Int
    BY <2>1 DEF Poly, Coef
  <2>5. Cong(q, a[0], b[0]) /\ Cong(q, a[1], b[1])
    BY <2>3, <2>4, ModInt, CongBy, Zenon
  <2>6. Equiv(q, a, b)
    BY <2>5, Zenon DEF Equiv, Coef
  <2> QED
    BY <2>6, Zenon DEF a, b
<1>11. Equiv(q, Times(Times(k.g, k.F), fi), BigG(k))
  <2> DEFINE a == Times(k.g, k.F)
             b == Times(BigG(k), f)
  <2>1. a \in Poly /\ b \in Poly /\ Equiv(q, a, b)
    BY <1>1, <1>10, RingOps, Zenon
  <2>2. Equiv(q, Times(b, fi), BigG(k))
    BY <1>1, <1>9, Zenon
  <2> HIDE DEF a, b
  <2>3. Equiv(q, Times(a, fi), Times(b, fi))
    BY <1>4, <2>1, ModInt, EquivSame, EquivTimes, Zenon
  <2>4. Times(a, fi) \in Poly /\ Times(b, fi) \in Poly
    BY <1>4, <2>1, RingOps, Zenon
  <2>5. Equiv(q, Times(a, fi), BigG(k))
    BY <1>1, <2>2, <2>3, <2>4, ModInt, EquivTrans, Zenon
  <2> QED
    BY <2>5, Zenon DEF a
<1> QED
  BY <1>4, <1>8, <1>9, <1>11, Zenon DEF f, fi

\* inv_ntt's running products and inverses of two values.
LEMMA InvNttIs ==
  ASSUME NEW a
  PROVE  /\ MQ!inv_ntt(a).val[0] = MQ!mq_mmul(MQ!mq_div(1, MQ!mq_mmul(a[0], a[1])), a[1])
         /\ MQ!inv_ntt(a).val[1] = MQ!mq_mmul(MQ!mq_div(1, MQ!mq_mmul(a[0], a[1])), a[0])
<1> DEFINE p == MQ!Products(a)
           r == MQ!RunningInverse(a)
           d == MQ!mq_div(1, MQ!mq_mmul(a[0], a[1]))
<1>0. 0 \in Coef /\ 1 \in Coef /\ (\A i \in Coef : i = 0 \/ i = 1) /\ 1 - 1 = 0 /\ 1 # 0 /\ 2 - 1 = 1 /\ 0 + 1 = 1 /\ 0 # 1
  BY DEF Coef
<1>1. p[0] = a[0] /\ p[1] = MQ!mq_mmul(a[0], a[1])
  <2> DEFINE E(h) == h = [i \in Coef |-> IF i = 0 THEN a[0] ELSE MQ!mq_mmul(h[i - 1], a[i])]
             f == CHOOSE h : E(h)
             t == [i \in Coef |-> IF i = 0 THEN a[0] ELSE MQ!mq_mmul(a[0], a[i])]
  <2>1. E(t)
    <3>1. t[0] = a[0]
      BY <1>0, Zenon
    <3>2. ASSUME NEW i \in Coef
          PROVE  t[i] = IF i = 0 THEN a[0] ELSE MQ!mq_mmul(t[i - 1], a[i])
      <4>1. CASE i = 0
        BY <3>1, <4>1, Zenon
      <4>2. CASE i # 0
        <5>1. i = 1 /\ i - 1 = 0
          BY <1>0, <4>2
        <5> QED
          BY <3>1, <4>2, <5>1, Zenon
      <4> QED
        BY <4>1, <4>2, Zenon
    <3>3. t = [i \in Coef |-> t[i]]
      BY Zenon
    <3> QED
      BY <3>2, <3>3, Zenon
  <2>2. E(f)
    <3> HIDE DEF E
    <3> QED
      BY <2>1, Zenon
  <2>3. p = f
    <3>1. MQ!Idx = Coef
      BY IndexIs, Zenon
    <3> QED
      BY <3>1, Zenon DEF MQ!Products
  <2> HIDE DEF p, f, t
  <2>4. f[0] = a[0]
    BY <1>0, <2>2, Zenon
  <2>5. f[1] = MQ!mq_mmul(f[0], a[1])
    BY <1>0, <2>2, Zenon
  <2> QED
    BY <2>3, <2>4, <2>5, Zenon
<1>2. r[1] = d /\ r[0] = MQ!mq_mmul(d, a[1])
  <2> DEFINE E(h) == h = [i \in Coef |-> IF i = MQ!N - 1 THEN MQ!mq_div(1, p[i]) ELSE MQ!mq_mmul(h[i + 1], a[i + 1])]
             f == CHOOSE h : E(h)
             t == [i \in Coef |-> IF i = 1 THEN MQ!mq_div(1, p[i]) ELSE MQ!mq_mmul(MQ!mq_div(1, p[1]), a[i + 1])]
  <2>0. MQ!Idx = Coef /\ MQ!N - 1 = 1
    <3>1. MQ!Idx = Coef /\ MQ!N = 2
      BY IndexIs, Zenon
    <3> QED
      BY <1>0, <3>1, Zenon
  <2> HIDE DEF p
  <2>1. E(t)
    <3>1. t[1] = MQ!mq_div(1, p[1])
      BY <1>0, Zenon
    <3>2. ASSUME NEW i \in Coef
          PROVE  t[i] = IF i = MQ!N - 1 THEN MQ!mq_div(1, p[i]) ELSE MQ!mq_mmul(t[i + 1], a[i + 1])
      <4>1. CASE i = 1
        BY <2>0, <3>1, <4>1, Zenon
      <4>2. CASE i # 1
        <5>1. i = 0 /\ i + 1 = 1
          BY <1>0, <4>2
        <5> QED
          BY <2>0, <3>1, <4>2, <5>1, Zenon
      <4> QED
        BY <4>1, <4>2, Zenon
    <3>3. t = [i \in Coef |-> t[i]]
      BY Zenon
    <3> QED
      BY <3>2, <3>3, Zenon
  <2>2. E(f)
    <3> HIDE DEF E
    <3> QED
      BY <2>1, Zenon
  <2>3. r = f
    BY <2>0, Zenon DEF MQ!RunningInverse, p
  <2> HIDE DEF r, f, t
  <2>4. f[1] = MQ!mq_div(1, p[1])
    BY <1>0, <2>0, <2>2, Zenon
  <2>5. f[0] = MQ!mq_mmul(f[1], a[1])
    <3>1. f[0] = MQ!mq_mmul(f[0 + 1], a[0 + 1])
      BY <1>0, <2>0, <2>2, Zenon
    <3> QED
      BY <1>0, <3>1, Zenon
  <2> QED
    BY <1>1, <2>3, <2>4, <2>5, Zenon
<1>3. MQ!inv_ntt(a).val = [i \in Coef |-> IF i = 0 THEN r[0] ELSE MQ!mq_mmul(r[i], p[i - 1])]
  BY IndexIs, Zenon DEF MQ!inv_ntt
<1> HIDE DEF p, r, d
<1>4. MQ!inv_ntt(a).val[0] = r[0] /\ MQ!inv_ntt(a).val[1] = MQ!mq_mmul(r[1], p[0])
  <2>1. MQ!inv_ntt(a).val[1] = MQ!mq_mmul(r[1], p[1 - 1])
    BY <1>0, <1>3, Zenon
  <2> QED
    BY <1>0, <1>3, <2>1, Zenon
<1> QED
  BY <1>1, <1>2, <1>4, Zenon DEF d

\* inv_ntt inverts f: by the squared norm, which is the product of its two values.
LEMMA InvNtt ==
  ASSUME NEW k \in Keys, NEW a, Roots(q, wMQ, a, k.f)
  PROVE  Roots(q, wMQ, MQ!inv_ntt(a).val, FInv(k))
<1> DEFINE u == k.f[0] + wMQ * k.f[1]
           v == k.f[0] - wMQ * k.f[1]
           n == mqpoly_sqnorm_small(k.f)
           i == NormInv(k)
           p == MQ!mq_mmul(a[0], a[1])
           d == MQ!mq_div(1, p)
<1>1. Res(q, a[0], u) /\ Res(q, a[1], v)
  BY Zenon DEF Roots
<1>2. k.f \in Poly /\ n \in Int /\ n % q # 0 /\ i \in Int /\ Cong(q, n * i, 1)
  BY KeyPolys, NormInverse, Zenon
<1>3. u \in Int /\ v \in Int
  BY <1>2, RootOps, IntsMQ, Zenon
<1>4. Adj(k.f) \in Poly /\ Adj(k.f)[0] + wMQ * Adj(k.f)[1] = v /\ Adj(k.f)[0] - wMQ * Adj(k.f)[1] = u
  BY <1>2, RootAdj, IntsMQ, Zenon
<1>5. Cong(q, u * v, n)
  <2>1. Cong(q, u * v, Times(k.f, Adj(k.f))[0] + wMQ * Times(k.f, Adj(k.f))[1])
    <3>1. Cong(q, u * (Adj(k.f)[0] + wMQ * Adj(k.f)[1]), Times(k.f, Adj(k.f))[0] + wMQ * Times(k.f, Adj(k.f))[1])
      BY <1>2, <1>4, RootProduct, ModInt, IntsMQ, ConstsMQ, Zenon
    <3> QED
      BY <1>4, <3>1, Zenon
  <2>2. Times(k.f, Adj(k.f))[0] = n /\ Times(k.f, Adj(k.f))[1] = 0
    <3>1. Times(k.f, Adj(k.f)) = Const(n)
      BY <1>2, NormIs, Zenon
    <3> QED
      BY <1>2, <3>1, ConstPoly, Zenon
  <2>3. n + wMQ * 0 = n
    BY <1>2, IntsMQ
  <2> QED
    BY <2>1, <2>2, <2>3, Zenon
\* FInv at the two roots.
<1>6. /\ FInv(k) \in Poly /\ FInv(k)[0] + wMQ * FInv(k)[1] = v * i /\ FInv(k)[0] - wMQ * FInv(k)[1] = u * i
  <2>1. FInv(k) \in Poly
    BY InverseOfF, Zenon
  <2> DEFINE b == Adj(k.f)[0]
             c == Adj(k.f)[1]
  <2>2. b \in Int /\ c \in Int /\ b + wMQ * c = v /\ b - wMQ * c = u
    BY <1>4, RingOps, Zenon
  <2>3. FInv(k)[0] = b * i /\ FInv(k)[1] = c * i
    <3>1. Const(i) \in Poly /\ Const(i)[0] = i /\ Const(i)[1] = 0
      BY <1>2, ConstPoly, Zenon
    <3>2. /\ Times(Adj(k.f), Const(i))[0] = b * Const(i)[0] - c * Const(i)[1]
          /\ Times(Adj(k.f), Const(i))[1] = b * Const(i)[1] + c * Const(i)[0]
      BY <1>4, <3>1, RingOps, Zenon
    <3>3. Times(Adj(k.f), Const(i))[0] = b * i - c * 0 /\ Times(Adj(k.f), Const(i))[1] = b * 0 + c * i
      BY <3>1, <3>2, Zenon
    <3> HIDE DEF b, c, i
    <3>4. b * i - c * 0 = b * i /\ b * 0 + c * i = c * i
      BY <1>2, <2>2
    <3> QED
      BY <3>3, <3>4, Zenon DEF FInv, i
  <2> HIDE DEF b, c, u, v, i
  <2>4. b * i + wMQ * (c * i) = (b + wMQ * c) * i /\ b * i - wMQ * (c * i) = (b - wMQ * c) * i
    BY <1>2, <2>2, IntsMQ
  <2> QED
    BY <2>1, <2>2, <2>3, <2>4, Zenon
<1>7. /\ MQ!inv_ntt(a).val[0] = MQ!mq_mmul(d, a[1]) /\ MQ!inv_ntt(a).val[1] = MQ!mq_mmul(d, a[0])
  BY InvNttIs, Zenon
<1>8. Res(q, p, (u * v) * riMQ)
  BY <1>1, <1>3, InnerMQ, Zenon
<1> HIDE DEF u, v, n, i, p
<1> DEFINE m == (u * v) * riMQ
<1>9. m \in Int /\ u * v \in Int /\ Res(q, p, m) /\ p \in Int /\ p \in 1..q /\ Cong(q, p, m)
  <2>1. m \in Int /\ u * v \in Int
    BY <1>3, IntsMQ
  <2>2. Res(q, p, m)
    BY <1>8, Zenon
  <2> HIDE DEF m
  <2> QED
    BY <2>1, <2>2, ResIntMQ, Zenon DEF Res
\* p is not zero: otherwise q would divide n.
<1>10. p \in 1..(q - 1)
  <2> SUFFICES ASSUME p = q PROVE FALSE
    BY <1>9, ModInt
  <2> DEFINE pb == p * bMQ
             mb == m * bMQ
             uv == u * v
             z0 == q * bMQ
  <2>1. Cong(q, pb, mb) /\ pb \in Int /\ mb \in Int /\ uv \in Int /\ 0 \in Int
    <3> HIDE DEF m
    <3>1. Cong(q, bMQ * p, bMQ * m)
      BY <1>9, ModInt, IntsMQ, CongTimes, Zenon
    <3>2. bMQ * p = p * bMQ /\ bMQ * m = m * bMQ /\ p * bMQ \in Int /\ m * bMQ \in Int
      BY <1>9, IntsMQ
    <3>3. 0 \in Int
      OBVIOUS
    <3> QED
      BY <1>9, <3>1, <3>2, <3>3, Zenon
  <2>2. Cong(q, mb, uv)
    <3>1. Cong(q, uv * (riMQ * bMQ), uv * 1)
      <4>1. riMQ * bMQ \in Int /\ 1 \in Int
        BY IntsMQ
      <4> HIDE DEF uv
      <4> QED
        BY <2>1, <4>1, ModInt, ConstsMQ, CongTimes, Zenon
    <3>2. uv * (riMQ * bMQ) = mb /\ uv * 1 = uv
      <4> HIDE DEF uv
      <4>1. (uv * riMQ) * bMQ = uv * (riMQ * bMQ) /\ uv * 1 = uv
        BY <2>1, IntsMQ
      <4> QED
        BY <4>1, Zenon DEF uv
    <3> QED
      BY <3>1, <3>2, Zenon
  <2>3. Cong(q, pb, 0)
    <3>1. pb = 0 + q * bMQ
      BY IntsMQ, ModInt
    <3> QED
      BY <2>1, <3>1, ModInt, IntsMQ, CongBy, Zenon
  <2>4. Cong(q, uv, n)
    BY <1>5, Zenon
  <2> HIDE DEF pb, mb, uv
  <2>5. Cong(q, 0, n)
    BY <1>2, <2>1, <2>2, <2>3, <2>4, ModInt, CongTurn, CongTrans, Zenon
  <2>6. PICK j \in Int : 0 = n + q * j
    BY <2>5, Zenon DEF Cong
  <2>7. n % 12289 = 0
    BY <1>2, <2>6, Moduli, SMT
  <2> QED
    BY <1>2, <2>7, Moduli, SMT
<1>11. d \in 1..q /\ (d * p) % q = 1
  BY <1>10, DivisionAssumption, Zenon
<1> HIDE DEF d
<1>12. d \in Int /\ Cong(q, d * p, 1) /\ Res(q, d, d)
  <2>1. d \in Int
    BY <1>11, ModInt
  <2> DEFINE dp == d * p
  <2>2. dp \in Int /\ dp % q = 1
    BY <1>9, <1>11, <2>1
  <2> HIDE DEF dp
  <2>3. Cong(q, 1, dp) /\ 1 \in Int
    <3>1. q \in {q, q2} /\ 1 \in Int
      OBVIOUS
    <3> QED
      BY <2>2, <3>1, ModCong, Zenon
  <2>4. Cong(q, dp, 1)
    BY <2>2, <2>3, ModInt, CongTurn, Zenon
  <2>5. Cong(q, d, d)
    BY <2>1, ModInt, CongSame, Zenon
  <2> QED
    BY <1>11, <2>1, <2>4, <2>5, Zenon DEF Res, dp
\* So d is 2^32 times the inverse of n.
<1>13. Cong(q, d * riMQ, i)
  <2> DEFINE dr == d * riMQ
             ni == n * i
             uv == u * v
             e == dr * i
             dm == d * m
             dp == d * p
  <2>1. dr \in Int /\ ni \in Int /\ uv \in Int /\ dm \in Int /\ dp \in Int /\ e \in Int /\ 1 \in Int
    <3> HIDE DEF m
    <3> QED
      BY <1>2, <1>3, <1>9, <1>12, IntsMQ
  <2>2. Cong(q, dp, dm)
    BY <1>9, <1>12, ModInt, CongTimes, Zenon
  <2>3. dm = dr * uv
    <3> HIDE DEF uv
    <3>1. d * (uv * riMQ) = (d * riMQ) * uv
      BY <1>12, <2>1, IntsMQ
    <3> QED
      BY <3>1, Zenon DEF uv
  <2>4. Cong(q, uv, n) /\ Cong(q, ni, 1) /\ Cong(q, dp, 1)
    BY <1>2, <1>5, <1>12, Zenon
  <2> HIDE DEF dr, uv, dm, dp, m
  <2>5. Cong(q, dr * uv, dr * n) /\ dr * uv \in Int /\ dr * n \in Int
    <3>1. dr * uv \in Int /\ dr * n \in Int
      BY <1>2, <2>1
    <3> QED
      BY <1>2, <2>1, <2>4, <3>1, ModInt, CongTimes, Zenon
  \* 1 = d*p = dr*uv = dr*n, and so i = i*dr*n = dr*(n*i) = dr.
  <2>6. Cong(q, 1, dr * n)
    <3> DEFINE s == dr * uv
               t == dr * n
    <3>1. s \in Int /\ t \in Int /\ Cong(q, s, t) /\ dm = s
      BY <2>3, <2>5, Zenon
    <3> HIDE DEF s, t
    <3>2. Cong(q, 1, dm)
      BY <2>1, <2>2, <2>4, ModInt, CongTurn, CongTrans, Zenon
    <3>3. Cong(q, 1, t)
      BY <2>1, <3>1, <3>2, ModInt, CongTrans, Zenon
    <3> QED
      BY <3>3, Zenon DEF t
  <2>7. Cong(q, i * 1, i * (dr * n))
    BY <1>2, <2>1, <2>5, <2>6, ModInt, CongTimes, Zenon
  <2>8. Cong(q, dr * ni, dr * 1)
    <3> HIDE DEF ni
    <3> QED
      BY <2>1, <2>4, ModInt, CongTimes, Zenon
  <2>9. i * 1 = i /\ i * (dr * n) = dr * ni /\ dr * 1 = dr /\ dr * ni \in Int
    BY <1>2, <2>1
  <2>10. Cong(q, i, dr * ni) /\ Cong(q, dr * ni, dr)
    BY <2>7, <2>8, <2>9, Zenon
  <2>11. Cong(q, i, dr)
    <3> DEFINE s == dr * ni
    <3>1. s \in Int /\ Cong(q, i, s) /\ Cong(q, s, dr)
      BY <2>9, <2>10, Zenon
    <3> HIDE DEF s
    <3> QED
      BY <1>2, <2>1, <3>1, ModInt, CongTrans, Zenon
  <2>12. Cong(q, dr, i)
    BY <1>2, <2>1, <2>11, ModInt, CongTurn, Zenon
  <2> QED
    BY <2>12, Zenon DEF dr
<1>14. ASSUME NEW s, NEW x \in Int, Res(q, s, x)
       PROVE  Res(q, MQ!mq_mmul(d, s), x * i)
  <2> DEFINE dr == d * riMQ
             y == (d * x) * riMQ
             xi == x * i
             t == MQ!mq_mmul(d, s)
  <2>1. dr \in Int /\ y \in Int /\ xi \in Int /\ y = x * dr
    BY <1>2, <1>12, <1>14, IntsMQ
  <2>2. Res(q, t, y)
    BY <1>12, <1>14, InnerMQ, Zenon
  <2>3. Cong(q, x * dr, xi)
    <3>1. Cong(q, dr, i)
      BY <1>13, Zenon
    <3> HIDE DEF dr
    <3> QED
      BY <1>2, <2>1, <3>1, ModInt, CongTimes, Zenon
  <2>4. t \in Int
    BY <2>2, ResIntMQ, Zenon
  <2>5. Cong(q, y, xi)
    BY <2>1, <2>3, Zenon
  <2> HIDE DEF y, xi, t
  <2>6. Res(q, t, xi)
    BY <2>1, <2>2, <2>4, <2>5, ModInt, ResCong, Zenon
  <2> QED
    BY <2>6, Zenon DEF t, xi
<1>15. Res(q, MQ!mq_mmul(d, a[1]), v * i) /\ Res(q, MQ!mq_mmul(d, a[0]), u * i)
  BY <1>1, <1>3, <1>14, Zenon
<1> QED
  BY <1>6, <1>7, <1>15, Zenon DEF Roots

\* div_ntt multiplies by the inverse.
LEMMA DivNtt ==
  ASSUME NEW k \in Keys, NEW a, NEW b, NEW x \in Poly, Roots(q, wMQ, a, x), Roots(q, wMQ, b, k.f)
  PROVE  Roots(q, wMQ, MQ!div_ntt(a, b).val, Times(x, FInv(k)))
<1>1. Roots(q, wMQ, MQ!inv_ntt(b).val, FInv(k)) /\ FInv(k) \in Poly
  BY InvNtt, InverseOfF, Zenon
<1>2. MQ!div_ntt(a, b).val = MQ!mul_ntt(a, MQ!inv_ntt(b).val)
  BY Zenon DEF MQ!div_ntt, MQ!mul_ntt
<1> QED
  BY <1>1, <1>2, MulNttMQ, Zenon

\* The public key is g/f.
LEMMA PublicKeyIs ==
  ASSUME NEW k \in Keys
  PROVE  PublicKey[k] \in Poly /\ Equiv(q, PublicKey[k], Times(k.g, FInv(k)))
<1> DEFINE inv == CHOOSE i \in 1..(q - 1) : (mqpoly_sqnorm_small(k.f) * i) % q = 1
           af == Centred(Adj(k.f), q)
           s == [i \in Coef |-> af[i] * inv]
           fi == Centred(s, q)
           gf == Times(k.g, fi)
<1>1. PublicKey[k] = Centred(gf, q)
  BY Zenon DEF PublicKey
<1>2. inv = NormInv(k)
  BY Zenon DEF NormInv
<1>3. k.f \in Poly /\ k.g \in Poly /\ inv \in Int /\ q \in {q, q2} /\ FInv(k) \in Poly
  BY <1>2, KeyPolys, NormInverse, InverseOfF, Zenon
<1> HIDE DEF inv
<1>4. Adj(k.f) \in Poly
  BY <1>3, RingOps, Zenon
<1>5. af \in Poly /\ Equiv(q, af, Adj(k.f))
  BY <1>3, <1>4, CentredIs, Zenon
<1> HIDE DEF af
<1>6. s \in Poly /\ s = Times(af, Const(inv))
  <2>1. Const(inv) \in Poly /\ Const(inv)[0] = inv /\ Const(inv)[1] = 0
    BY <1>3, ConstPoly, Zenon
  <2>2. af[0] \in Int /\ af[1] \in Int
    BY <1>5, RingOps, Zenon
  <2>3. Times(af, Const(inv)) \in Poly /\ Times(af, Const(inv))[0] = af[0] * Const(inv)[0] - af[1] * Const(inv)[1]
        /\ Times(af, Const(inv))[1] = af[0] * Const(inv)[1] + af[1] * Const(inv)[0]
    BY <1>5, <2>1, RingOps, Zenon
  <2>4. Times(af, Const(inv))[0] = af[0] * inv - af[1] * 0 /\ Times(af, Const(inv))[1] = af[0] * 0 + af[1] * inv
    BY <2>1, <2>3, Zenon
  <2>5. af[0] * inv - af[1] * 0 = af[0] * inv /\ af[0] * 0 + af[1] * inv = af[1] * inv
    BY <1>3, <2>2
  <2>6. s[0] = af[0] * inv /\ s[1] = af[1] * inv /\ s \in Poly
    <3>1. ASSUME NEW i \in Coef PROVE af[i] * inv \in Int
      <4>1. af[i] \in Int
        BY <1>5, Zenon DEF Poly
      <4> QED
        BY <1>3, <4>1
    <3> QED
      BY <3>1, Zenon DEF Poly, Coef
  <2> HIDE DEF s
  <2> QED
    BY <2>3, <2>4, <2>5, <2>6, PolyEqual, Zenon
<1> HIDE DEF s
<1>7. Equiv(q, s, FInv(k))
  <2>1. Const(inv) \in Poly
    BY <1>3, ConstPoly, Zenon
  <2>2. Equiv(q, Times(af, Const(inv)), Times(Adj(k.f), Const(inv)))
    BY <1>4, <1>5, <2>1, ModInt, EquivSame, EquivTimes, Zenon
  <2> QED
    BY <1>2, <1>6, <2>2, Zenon DEF FInv
<1>8. fi \in Poly /\ Equiv(q, fi, s)
  BY <1>3, <1>6, CentredIs, Zenon
<1> HIDE DEF fi
<1>9. Equiv(q, fi, FInv(k))
  BY <1>3, <1>6, <1>7, <1>8, ModInt, EquivTrans, Zenon
<1>10. gf \in Poly /\ Equiv(q, gf, Times(k.g, FInv(k))) /\ Times(k.g, FInv(k)) \in Poly
  <2>1. gf \in Poly /\ Times(k.g, FInv(k)) \in Poly
    BY <1>3, <1>8, RingOps, Zenon
  <2>2. Equiv(q, k.g, k.g)
    BY <1>3, ModInt, EquivSame, Zenon
  <2>3. Equiv(q, gf, Times(k.g, FInv(k)))
    BY <1>3, <1>8, <1>9, <2>2, ModInt, EquivTimes, Zenon
  <2> QED
    BY <2>1, <2>3, Zenon
<1> HIDE DEF gf
<1> DEFINE c == Centred(gf, q)
<1>11. c \in Poly /\ Equiv(q, c, gf)
  BY <1>3, <1>10, CentredIs, Zenon
<1> HIDE DEF c
<1>12. Equiv(q, c, Times(k.g, FInv(k)))
  BY <1>10, <1>11, ModInt, EquivTrans, Zenon
<1> QED
  BY <1>1, <1>11, <1>12, Zenon DEF c

-----------------------------------------------------------------------------
(* The temporary area.                                                       *)

\* What it is for v to stand for x in each representation: a polynomial, or for the FFT
\* values the fraction itself.
Means(rep, v, x) ==
    CASE rep = "int"  -> Value(q, v, x)
      [] rep = "ntt"  -> Roots(q, wMQ, v, x)
      [] rep = "mod2" -> Value(q2, v, x)
      [] rep = "ntt2" -> Roots(q2, wMQ2, v, x)
      [] OTHER        -> v = x

\* The area holds x at this unit, in this representation.
Carries(m, at, rep, x) == Has(m, at, rep) /\ Means(rep, m[at].val, x)

\* From m to n nothing changes outside of these units.
Changes(m, n, units) == \A u \in Units : u \notin units => n[u] = m[u]

LEMMA MeansIs ==
  ASSUME NEW v, NEW x
  PROVE  /\ Means("int", v, x) <=> Value(q, v, x)
         /\ Means("ntt", v, x) <=> Roots(q, wMQ, v, x)
         /\ Means("mod2", v, x) <=> Value(q2, v, x)
         /\ Means("ntt2", v, x) <=> Roots(q2, wMQ2, v, x)
         /\ Means("small", v, x) <=> v = x
         /\ Means("ext", v, x) <=> v = x
         /\ Means("i16", v, x) <=> v = x
         /\ Means("i32", v, x) <=> v = x
         /\ Means("fsa", v, x) <=> v = x
         /\ Means("fft", v, x) <=> v = x
  BY SMT DEF Means

\* What a unit carries in a representation outside the two moduli is the value itself.
LEMMA CarriesIs ==
  ASSUME NEW m, NEW at, NEW rep, NEW x, Carries(m, at, rep, x),
         rep # "int", rep # "ntt", rep # "mod2", rep # "ntt2"
  PROVE  Has(m, at, rep) /\ m[at].val = x
  BY SMT DEF Carries, Means

LEMMA SizeIs ==
  /\ DOMAIN Size = {"small", "ext", "int", "ntt", "mod2", "ntt2", "i16", "i32", "fsa", "fft"}
  /\ Size["small"] = 1 /\ Size["ext"] = 2 /\ Size["int"] = 2 /\ Size["ntt"] = 2
  /\ Size["mod2"] = 2 /\ Size["ntt2"] = 2 /\ Size["i16"] = 2 /\ Size["i32"] = 4
  /\ Size["fsa"] = 4 /\ Size["fft"] = 8
  BY SMT DEF Size

LEMMA PutCarries ==
  ASSUME NEW m, NEW at \in Nat, NEW rep \in DOMAIN Size, at + Size[rep] <= 20,
         NEW v, NEW x, Means(rep, v, x)
  PROVE  /\ Carries(Put(m, at, rep, v), at, rep, x)
         /\ Changes(m, Put(m, at, rep, v), at..(at + Size[rep] - 1))
<1> DEFINE n == Put(m, at, rep, v)
<1>1. Size[rep] \in 1..8
  BY SizeIs, SMT
<1>2. \A u \in at..(at + Size[rep] - 1) : n[u] = [rep |-> rep, part |-> u - at, val |-> v]
  BY <1>1, SMT DEF Put, Units
<1>3. \A i \in 0..(Size[rep] - 1) : n[at + i] = [rep |-> rep, part |-> i, val |-> v]
  BY <1>1, <1>2, SMT
<1>4. n[at] = [rep |-> rep, part |-> 0, val |-> v]
  BY <1>1, <1>2, SMT
<1>5. Changes(m, n, at..(at + Size[rep] - 1))
  BY SMT DEF Put, Changes
<1> HIDE DEF n
<1>6. ASSUME NEW i \in 0..(Size[rep] - 1)
      PROVE  n[at + i].rep = rep /\ n[at + i].part = i /\ n[at + i].val = v
  <2> DEFINE cell == n[at + i]
  <2>1. cell = [rep |-> rep, part |-> i, val |-> v]
    BY <1>3, Zenon
  <2> HIDE DEF cell
  <2>2. cell.rep = rep /\ cell.part = i /\ cell.val = v
    BY <2>1, SMT
  <2> QED
    BY <2>2, Zenon DEF cell
<1>7. n[at].val = v
  BY <1>4, SMT
<1>9. Has(n, at, rep)
  BY <1>6, <1>7, Zenon DEF Has
<1>8. Carries(n, at, rep, x)
  BY <1>7, <1>9, Zenon DEF Carries
<1> QED
  BY <1>5, <1>8 DEF n

LEMMA PutPair ==
  ASSUME NEW m, NEW at \in 0..18, NEW rep \in {"ext", "int", "ntt", "mod2", "ntt2", "i16"},
         NEW v, NEW x, Means(rep, v, x), NEW n, n = Put(m, at, rep, v)
  PROVE  Carries(n, at, rep, x) /\ Changes(m, n, at..(at + 1))
<1>1. rep \in DOMAIN Size /\ Size[rep] = 2
  BY SizeIs, SMT
<1>2. at \in Nat /\ at + Size[rep] <= 20 /\ at + Size[rep] - 1 = at + 1
  BY <1>1, SMT
<1> QED
  BY <1>1, <1>2, PutCarries, SMT

LEMMA Frame ==
  ASSUME NEW m, NEW n, NEW units, Changes(m, n, units),
         NEW at \in Nat, NEW rep \in DOMAIN Size, at + Size[rep] <= 20,
         NEW x, Carries(m, at, rep, x), \A u \in at..(at + Size[rep] - 1) : u \notin units
  PROVE  Carries(n, at, rep, x)
<1>1. Size[rep] \in 1..8
  BY SizeIs, SMT
<1>2. \A u \in at..(at + Size[rep] - 1) : n[u] = m[u]
  BY <1>1, SMT DEF Changes, Units
<1>3. n[at] = m[at] /\ \A i \in 0..(Size[rep] - 1) : n[at + i] = m[at + i]
  BY <1>1, <1>2, SMT
<1>4. Has(n, at, rep)
  BY <1>3, SMT DEF Has, Carries
<1> QED
  BY <1>3, <1>4, Zenon DEF Carries

\* A copy of two units.
LEMMA MemcpyCarries ==
  ASSUME NEW m, NEW dst \in 0..18, NEW src \in 0..18, NEW rep \in DOMAIN Size, Size[rep] = 2,
         NEW x, Carries(m, src, rep, x)
  PROVE  Carries(Memcpy(m, dst, src), dst, rep, x) /\ Changes(m, Memcpy(m, dst, src), dst..(dst + 1))
<1> DEFINE n == Memcpy(m, dst, src)
<1>1. n[dst] = m[src] /\ n[dst + 1] = m[src + 1]
  BY SMT DEF Memcpy, Units
<1>2. Changes(m, n, dst..(dst + 1))
  BY SMT DEF Memcpy, Changes
<1> HIDE DEF n
<1>3. m[src].rep = rep /\ m[src].part = 0 /\ m[src + 1].rep = rep /\ m[src + 1].part = 1
      /\ m[src + 1].val = m[src].val
  BY SMT DEF Has, Carries
<1>4. Has(n, dst, rep)
  BY <1>1, <1>3, SMT DEF Has
<1>5. Carries(n, dst, rep, x)
  BY <1>1, <1>4 DEF Carries
<1> QED
  BY <1>2, <1>5 DEF n

LEMMA DoHash ==
  ASSUME NEW m, NEW x \in 0..18
  PROVE  /\ Carries(Apply(m, <<"hash_to_point", x>>), x, "ext", Hash[sig.nonce])
         /\ Changes(m, Apply(m, <<"hash_to_point", x>>), x..(x + 1))
<1>1. Apply(m, <<"hash_to_point", x>>) = Put(m, x, "ext", Hash[sig.nonce])
  BY SMT DEF Apply, Conv, Comb, Invert, Divide, Same, Crt, MuladjAddMuladj
<1>2. Means("ext", Hash[sig.nonce], Hash[sig.nonce])
  BY MeansIs, Zenon
<1> QED
  BY <1>1, <1>2, PutPair, Zenon

LEMMA DoSmallToInt ==
  ASSUME NEW m, NEW x \in 0..18, NEW y \in 0..18, NEW v \in Poly,
         Carries(m, x, "small", v), Within(q, v)
  PROVE  /\ Carries(Apply(m, <<"small_to_int", x, y>>), y, "int", v)
         /\ Changes(m, Apply(m, <<"small_to_int", x, y>>), y..(y + 1))
<1>1. Has(m, x, "small")
  BY Zenon DEF Carries
<1>2. Apply(m, <<"small_to_int", x, y>>) = Put(m, y, "int", MQ!small_to_int(m[x].val))
  BY <1>1, SMT DEF Apply, Conv, Comb, Invert, Divide, Same, Crt, MuladjAddMuladj
<1>3. m[x].val = v
  BY MeansIs, Zenon DEF Carries
<1>4. Value(q, MQ!small_to_int(m[x].val), v)
  BY <1>3, SmallValueMQ, Zenon
<1>5. Means("int", MQ!small_to_int(m[x].val), v)
  BY <1>4, MeansIs, Zenon
<1> QED
  BY <1>2, <1>5, PutPair, Zenon

LEMMA DoFToInt ==
  ASSUME NEW m, NEW x \in 0..18, key.F \in Poly, Within(q, key.F)
  PROVE  /\ Carries(Apply(m, <<"F to int", x>>), x, "int", key.F)
         /\ Changes(m, Apply(m, <<"F to int", x>>), x..(x + 1))
<1>1. Apply(m, <<"F to int", x>>) = Put(m, x, "int", MQ!small_to_int(key.F))
  BY SMT DEF Apply, Conv, Comb, Invert, Divide, Same, Crt, MuladjAddMuladj
<1>2. Value(q, MQ!small_to_int(key.F), key.F)
  BY SmallValueMQ, Zenon
<1>3. Means("int", MQ!small_to_int(key.F), key.F)
  BY <1>2, MeansIs, Zenon
<1> QED
  BY <1>1, <1>3, PutPair, Zenon

LEMMA DoExtToInt ==
  ASSUME NEW m, NEW x \in 0..18, NEW v \in [Coef -> 0..(q - 1)], Carries(m, x, "ext", v)
  PROVE  /\ Carries(Apply(m, <<"ext_to_int", x>>), x, "int", v)
         /\ Changes(m, Apply(m, <<"ext_to_int", x>>), x..(x + 1))
<1>1. Has(m, x, "ext")
  BY Zenon DEF Carries
<1>2. Apply(m, <<"ext_to_int", x>>) = Put(m, x, "int", MQ!ext_to_int(m[x].val))
  BY <1>1, SMT DEF Apply, Conv, Comb, Invert, Divide, Same, Crt, MuladjAddMuladj
<1>3. m[x].val = v
  BY MeansIs, Zenon DEF Carries
<1>4. Value(q, MQ!ext_to_int(m[x].val), v)
  BY <1>3, ExtValue, Zenon
<1>5. Means("int", MQ!ext_to_int(m[x].val), v)
  BY <1>4, MeansIs, Zenon
<1> QED
  BY <1>2, <1>5, PutPair, Zenon

LEMMA DoSignedToInt ==
  ASSUME NEW m, NEW x \in 0..18, NEW v \in Poly, Carries(m, x, "i16", v), Within(q, v)
  PROVE  /\ Carries(Apply(m, <<"signed_to_int", x>>), x, "int", v)
         /\ Changes(m, Apply(m, <<"signed_to_int", x>>), x..(x + 1))
<1>1. Has(m, x, "i16")
  BY Zenon DEF Carries
<1>2. Apply(m, <<"signed_to_int", x>>) = Put(m, x, "int", MQ!signed_to_int(m[x].val))
  BY <1>1, SMT DEF Apply, Conv, Comb, Invert, Divide, Same, Crt, MuladjAddMuladj
<1>3. m[x].val = v
  BY MeansIs, Zenon DEF Carries
<1>4. Value(q, MQ!signed_to_int(m[x].val), v)
  BY <1>3, SmallValueMQ, Zenon
<1>5. Means("int", MQ!signed_to_int(m[x].val), v)
  BY <1>4, MeansIs, Zenon
<1> QED
  BY <1>2, <1>5, PutPair, Zenon

LEMMA DoIntToSigned ==
  ASSUME NEW m, NEW x \in 0..18, NEW v \in Poly, Carries(m, x, "int", v)
  PROVE  /\ Carries(Apply(m, <<"int_to_signed", x>>), x, "i16", Centred(v, q))
         /\ Changes(m, Apply(m, <<"int_to_signed", x>>), x..(x + 1))
<1>1. Has(m, x, "int")
  BY Zenon DEF Carries
<1>2. Apply(m, <<"int_to_signed", x>>) = Put(m, x, "i16", MQ!int_to_signed(m[x].val))
  BY <1>1, SMT DEF Apply, Conv, Comb, Invert, Divide, Same, Crt, MuladjAddMuladj
<1>3. Value(q, m[x].val, v)
  BY MeansIs, Zenon DEF Carries
<1>4. MQ!int_to_signed(m[x].val) = Centred(v, q)
  BY <1>3, SignedIsCentredMQ, Zenon
<1>5. Means("i16", MQ!int_to_signed(m[x].val), Centred(v, q))
  BY <1>4, MeansIs, Zenon
<1> QED
  BY <1>2, <1>5, PutPair, Zenon

LEMMA DoIntToNtt ==
  ASSUME NEW m, NEW x \in 0..18, NEW v \in Poly, Carries(m, x, "int", v)
  PROVE  /\ Carries(Apply(m, <<"int_to_ntt", x>>), x, "ntt", v)
         /\ Changes(m, Apply(m, <<"int_to_ntt", x>>), x..(x + 1))
<1>1. Has(m, x, "int")
  BY Zenon DEF Carries
<1>2. Apply(m, <<"int_to_ntt", x>>) = Put(m, x, "ntt", MQ!int_to_ntt(m[x].val))
  BY <1>1, SMT DEF Apply, Conv, Comb, Invert, Divide, Same, Crt, MuladjAddMuladj
<1>3. Value(q, m[x].val, v)
  BY MeansIs, Zenon DEF Carries
<1>4. Roots(q, wMQ, MQ!int_to_ntt(m[x].val), v)
  BY <1>3, ToRootsMQ, Zenon
<1>5. Means("ntt", MQ!int_to_ntt(m[x].val), v)
  BY <1>4, MeansIs, Zenon
<1> QED
  BY <1>2, <1>5, PutPair, Zenon

LEMMA DoNttToInt ==
  ASSUME NEW m, NEW x \in 0..18, NEW v \in Poly, Carries(m, x, "ntt", v)
  PROVE  /\ Carries(Apply(m, <<"ntt_to_int", x>>), x, "int", v)
         /\ Changes(m, Apply(m, <<"ntt_to_int", x>>), x..(x + 1))
<1>1. Has(m, x, "ntt")
  BY Zenon DEF Carries
<1>2. Apply(m, <<"ntt_to_int", x>>) = Put(m, x, "int", MQ!ntt_to_int(m[x].val))
  BY <1>1, SMT DEF Apply, Conv, Comb, Invert, Divide, Same, Crt, MuladjAddMuladj
<1>3. Roots(q, wMQ, m[x].val, v)
  BY MeansIs, Zenon DEF Carries
<1>4. Value(q, MQ!ntt_to_int(m[x].val), v)
  BY <1>3, FromRootsMQ, Zenon
<1>5. Means("int", MQ!ntt_to_int(m[x].val), v)
  BY <1>4, MeansIs, Zenon
<1> QED
  BY <1>2, <1>5, PutPair, Zenon

LEMMA DoNeg ==
  ASSUME NEW m, NEW x \in 0..18, NEW v \in Poly, Carries(m, x, "ntt", v)
  PROVE  /\ Carries(Apply(m, <<"neg", x>>), x, "ntt", Minus(Const(0), v))
         /\ Changes(m, Apply(m, <<"neg", x>>), x..(x + 1))
<1>1. Has(m, x, "ntt")
  BY Zenon DEF Carries
<1>2. Apply(m, <<"neg", x>>) = Put(m, x, "ntt", MQ!neg(m[x].val))
  BY <1>1, SMT DEF Apply, Conv, Comb, Invert, Divide, Same, Crt, MuladjAddMuladj
<1>3. Roots(q, wMQ, m[x].val, v)
  BY MeansIs, Zenon DEF Carries
<1>4. Roots(q, wMQ, MQ!neg(m[x].val), Minus(Const(0), v))
  BY <1>3, NegNtt, Zenon
<1>5. Means("ntt", MQ!neg(m[x].val), Minus(Const(0), v))
  BY <1>4, MeansIs, Zenon
<1> QED
  BY <1>2, <1>5, PutPair, Zenon

LEMMA DoMulNtt ==
  ASSUME NEW m, NEW x \in 0..18, NEW y \in 0..18, NEW v \in Poly, NEW w \in Poly,
         Carries(m, x, "ntt", v), Carries(m, y, "ntt", w)
  PROVE  /\ Carries(Apply(m, <<"mul_ntt", x, y>>), x, "ntt", Times(v, w))
         /\ Changes(m, Apply(m, <<"mul_ntt", x, y>>), x..(x + 1))
<1>1. Has(m, x, "ntt") /\ Has(m, y, "ntt")
  BY Zenon DEF Carries
<1>2. Apply(m, <<"mul_ntt", x, y>>) = Put(m, x, "ntt", MQ!mul_ntt(m[x].val, m[y].val))
  BY <1>1, SMT DEF Apply, Conv, Comb, Invert, Divide, Same, Crt, MuladjAddMuladj
<1>3. Roots(q, wMQ, m[x].val, v) /\ Roots(q, wMQ, m[y].val, w)
  BY MeansIs, Zenon DEF Carries
<1>4. Roots(q, wMQ, MQ!mul_ntt(m[x].val, m[y].val), Times(v, w))
  BY <1>3, MulNttMQ, Zenon
<1>5. Means("ntt", MQ!mul_ntt(m[x].val, m[y].val), Times(v, w))
  BY <1>4, MeansIs, Zenon
<1> QED
  BY <1>2, <1>5, PutPair, Zenon

LEMMA DoSub ==
  ASSUME NEW m, NEW x \in 0..18, NEW y \in 0..18, NEW v \in Poly, NEW w \in Poly,
         Carries(m, x, "ntt", v), Carries(m, y, "ntt", w)
  PROVE  /\ Carries(Apply(m, <<"sub", x, y>>), x, "ntt", Minus(v, w))
         /\ Changes(m, Apply(m, <<"sub", x, y>>), x..(x + 1))
<1>1. Has(m, x, "ntt") /\ Has(m, y, "ntt")
  BY Zenon DEF Carries
<1>2. Apply(m, <<"sub", x, y>>) = Put(m, x, "ntt", MQ!sub(m[x].val, m[y].val))
  BY <1>1, SMT DEF Apply, Conv, Comb, Invert, Divide, Same, Crt, MuladjAddMuladj
<1>3. Roots(q, wMQ, m[x].val, v) /\ Roots(q, wMQ, m[y].val, w)
  BY MeansIs, Zenon DEF Carries
<1>4. Roots(q, wMQ, MQ!sub(m[x].val, m[y].val), Minus(v, w))
  BY <1>3, SumRootsMQ, Zenon
<1>5. Means("ntt", MQ!sub(m[x].val, m[y].val), Minus(v, w))
  BY <1>4, MeansIs, Zenon
<1> QED
  BY <1>2, <1>5, PutPair, Zenon

LEMMA DoMuladjX2 ==
  ASSUME NEW m, NEW x \in 0..18, NEW y \in 0..18, NEW v \in Poly, NEW w \in Poly,
         Carries(m, x, "ntt", v), Carries(m, y, "ntt", w)
  PROVE  /\ Carries(Apply(m, <<"muladj_x2_ntt", x, y>>), x, "ntt", Const(mqpoly_sqnorm_small(v) + mqpoly_sqnorm_small(w)))
         /\ Changes(m, Apply(m, <<"muladj_x2_ntt", x, y>>), x..(x + 1))
<1>1. Has(m, x, "ntt") /\ Has(m, y, "ntt")
  BY Zenon DEF Carries
<1>2. Apply(m, <<"muladj_x2_ntt", x, y>>) = Put(m, x, "ntt", MQ!muladj_x2_ntt(m[x].val, m[y].val))
  BY <1>1, SMT DEF Apply, Conv, Comb, Invert, Divide, Same, Crt, MuladjAddMuladj
<1>3. Roots(q, wMQ, m[x].val, v) /\ Roots(q, wMQ, m[y].val, w)
  BY MeansIs, Zenon DEF Carries
<1>4. Roots(q, wMQ, MQ!muladj_x2_ntt(m[x].val, m[y].val), Const(mqpoly_sqnorm_small(v) + mqpoly_sqnorm_small(w)))
  BY <1>3, MuladjX2MQ, Zenon
<1>5. Means("ntt", MQ!muladj_x2_ntt(m[x].val, m[y].val), Const(mqpoly_sqnorm_small(v) + mqpoly_sqnorm_small(w)))
  BY <1>4, MeansIs, Zenon
<1> QED
  BY <1>2, <1>5, PutPair, Zenon

LEMMA DoMuladjAdd ==
  ASSUME NEW m, NEW x \in 0..18, NEW y \in 0..18, NEW u \in 0..18, NEW w \in 0..18,
         NEW v \in Poly, NEW b \in Poly, NEW c \in Poly, NEW d \in Poly,
         Carries(m, x, "ntt", v), Carries(m, y, "ntt", b), Carries(m, u, "ntt", c),
         Carries(m, w, "ntt", d)
  PROVE  /\ Carries(Apply(m, <<"muladj_add_muladj", x, y, u, w>>), x, "ntt", Plus(Times(v, Adj(b)), Times(c, Adj(d))))
         /\ Changes(m, Apply(m, <<"muladj_add_muladj", x, y, u, w>>), x..(x + 1))
<1>1. Has(m, x, "ntt") /\ Has(m, y, "ntt") /\ Has(m, u, "ntt") /\ Has(m, w, "ntt")
  BY Zenon DEF Carries
<1>2. Apply(m, <<"muladj_add_muladj", x, y, u, w>>) = Put(m, x, "ntt", MQ!muladj_add_muladj(m[x].val, m[y].val, m[u].val, m[w].val))
  BY <1>1, SMT DEF Apply, Conv, Comb, Invert, Divide, Same, Crt, MuladjAddMuladj
<1>3. Roots(q, wMQ, m[x].val, v) /\ Roots(q, wMQ, m[y].val, b) /\ Roots(q, wMQ, m[u].val, c) /\ Roots(q, wMQ, m[w].val, d)
  BY MeansIs, Zenon DEF Carries
<1>4. Roots(q, wMQ, MQ!muladj_add_muladj(m[x].val, m[y].val, m[u].val, m[w].val), Plus(Times(v, Adj(b)), Times(c, Adj(d))))
  BY <1>3, MuladjAdd, Zenon
<1>5. Means("ntt", MQ!muladj_add_muladj(m[x].val, m[y].val, m[u].val, m[w].val), Plus(Times(v, Adj(b)), Times(c, Adj(d))))
  BY <1>4, MeansIs, SMT
<1> QED
  BY <1>2, <1>5, PutPair, Zenon

LEMMA DoSmallToMod2 ==
  ASSUME NEW m, NEW x \in 0..18, NEW y \in 0..18, NEW v \in Poly,
         Carries(m, x, "small", v), Within(q2, v)
  PROVE  /\ Carries(Apply(m, <<"small_to_mod2", x, y>>), y, "mod2", v)
         /\ Changes(m, Apply(m, <<"small_to_mod2", x, y>>), y..(y + 1))
<1>1. Has(m, x, "small")
  BY Zenon DEF Carries
<1>2. Apply(m, <<"small_to_mod2", x, y>>) = Put(m, y, "mod2", MQ2!small_to_int(m[x].val))
  BY <1>1, SMT DEF Apply, Conv, Comb, Invert, Divide, Same, Crt, MuladjAddMuladj, mq2poly_small_to_mod
<1>3. m[x].val = v
  BY MeansIs, Zenon DEF Carries
<1>4. Value(q2, MQ2!small_to_int(m[x].val), v)
  BY <1>3, SmallValueMQ2, Zenon
<1>5. Means("mod2", MQ2!small_to_int(m[x].val), v)
  BY <1>4, MeansIs, Zenon
<1> QED
  BY <1>2, <1>5, PutPair, Zenon

LEMMA DoFToMod2 ==
  ASSUME NEW m, NEW x \in 0..18, key.F \in Poly, Within(q2, key.F)
  PROVE  /\ Carries(Apply(m, <<"F to mod2", x>>), x, "mod2", key.F)
         /\ Changes(m, Apply(m, <<"F to mod2", x>>), x..(x + 1))
<1>1. Apply(m, <<"F to mod2", x>>) = Put(m, x, "mod2", MQ2!small_to_int(key.F))
  BY SMT DEF Apply, Conv, Comb, Invert, Divide, Same, Crt, MuladjAddMuladj, mq2poly_small_to_mod
<1>2. Value(q2, MQ2!small_to_int(key.F), key.F)
  BY SmallValueMQ2, Zenon
<1>3. Means("mod2", MQ2!small_to_int(key.F), key.F)
  BY <1>2, MeansIs, Zenon
<1> QED
  BY <1>1, <1>3, PutPair, Zenon

LEMMA DoSignedToMod2 ==
  ASSUME NEW m, NEW x \in 0..18, NEW v \in Poly, Carries(m, x, "i16", v), Within(q2, v)
  PROVE  /\ Carries(Apply(m, <<"signed_to_mod2", x>>), x, "mod2", v)
         /\ Changes(m, Apply(m, <<"signed_to_mod2", x>>), x..(x + 1))
<1>1. Has(m, x, "i16")
  BY Zenon DEF Carries
<1>2. Apply(m, <<"signed_to_mod2", x>>) = Put(m, x, "mod2", MQ2!signed_to_int(m[x].val))
  BY <1>1, SMT DEF Apply, Conv, Comb, Invert, Divide, Same, Crt, MuladjAddMuladj, mq2poly_signed_to_mod
<1>3. m[x].val = v
  BY MeansIs, Zenon DEF Carries
<1>4. Value(q2, MQ2!signed_to_int(m[x].val), v)
  BY <1>3, SmallValueMQ2, Zenon
<1>5. Means("mod2", MQ2!signed_to_int(m[x].val), v)
  BY <1>4, MeansIs, Zenon
<1> QED
  BY <1>2, <1>5, PutPair, Zenon

LEMMA DoMod2ToSigned ==
  ASSUME NEW m, NEW x \in 0..18, NEW v \in Poly, Carries(m, x, "mod2", v)
  PROVE  /\ Carries(Apply(m, <<"mod2_to_signed", x>>), x, "i16", Centred(v, q2))
         /\ Changes(m, Apply(m, <<"mod2_to_signed", x>>), x..(x + 1))
<1>1. Has(m, x, "mod2")
  BY Zenon DEF Carries
<1>2. Apply(m, <<"mod2_to_signed", x>>) = Put(m, x, "i16", MQ2!int_to_signed(m[x].val))
  BY <1>1, SMT DEF Apply, Conv, Comb, Invert, Divide, Same, Crt, MuladjAddMuladj, mq2poly_mod_to_signed
<1>3. Value(q2, m[x].val, v)
  BY MeansIs, Zenon DEF Carries
<1>4. MQ2!int_to_signed(m[x].val) = Centred(v, q2)
  BY <1>3, SignedIsCentredMQ2, Zenon
<1>5. Means("i16", MQ2!int_to_signed(m[x].val), Centred(v, q2))
  BY <1>4, MeansIs, Zenon
<1> QED
  BY <1>2, <1>5, PutPair, Zenon

LEMMA DoNTT2 ==
  ASSUME NEW m, NEW x \in 0..18, NEW v \in Poly, Carries(m, x, "mod2", v)
  PROVE  /\ Carries(Apply(m, <<"NTT2", x>>), x, "ntt2", v)
         /\ Changes(m, Apply(m, <<"NTT2", x>>), x..(x + 1))
<1>1. Has(m, x, "mod2")
  BY Zenon DEF Carries
<1>2. Apply(m, <<"NTT2", x>>) = Put(m, x, "ntt2", MQ2!int_to_ntt(m[x].val))
  BY <1>1, SMT DEF Apply, Conv, Comb, Invert, Divide, Same, Crt, MuladjAddMuladj, mq2poly_NTT
<1>3. Value(q2, m[x].val, v)
  BY MeansIs, Zenon DEF Carries
<1>4. Roots(q2, wMQ2, MQ2!int_to_ntt(m[x].val), v)
  BY <1>3, ToRootsMQ2, Zenon
<1>5. Means("ntt2", MQ2!int_to_ntt(m[x].val), v)
  BY <1>4, MeansIs, Zenon
<1> QED
  BY <1>2, <1>5, PutPair, Zenon

LEMMA DoiNTT2 ==
  ASSUME NEW m, NEW x \in 0..18, NEW v \in Poly, Carries(m, x, "ntt2", v)
  PROVE  /\ Carries(Apply(m, <<"iNTT2", x>>), x, "mod2", v)
         /\ Changes(m, Apply(m, <<"iNTT2", x>>), x..(x + 1))
<1>1. Has(m, x, "ntt2")
  BY Zenon DEF Carries
<1>2. Apply(m, <<"iNTT2", x>>) = Put(m, x, "mod2", MQ2!ntt_to_int(m[x].val))
  BY <1>1, SMT DEF Apply, Conv, Comb, Invert, Divide, Same, Crt, MuladjAddMuladj, mq2poly_iNTT
<1>3. Roots(q2, wMQ2, m[x].val, v)
  BY MeansIs, Zenon DEF Carries
<1>4. Value(q2, MQ2!ntt_to_int(m[x].val), v)
  BY <1>3, FromRootsMQ2, Zenon
<1>5. Means("mod2", MQ2!ntt_to_int(m[x].val), v)
  BY <1>4, MeansIs, Zenon
<1> QED
  BY <1>2, <1>5, PutPair, Zenon

LEMMA DoDivq2 ==
  ASSUME NEW m, NEW x \in 0..18, NEW v \in Poly, Carries(m, x, "mod2", v)
  PROVE  /\ Carries(Apply(m, <<"divq2", x>>), x, "mod2", Scaled(3, v))
         /\ Changes(m, Apply(m, <<"divq2", x>>), x..(x + 1))
<1>1. Has(m, x, "mod2")
  BY Zenon DEF Carries
<1>2. Apply(m, <<"divq2", x>>) = Put(m, x, "mod2", MQ2!mulconst(m[x].val, MQ2_IQ))
  BY <1>1, SMT DEF Apply, Conv, Comb, Invert, Divide, Same, Crt, MuladjAddMuladj, mq2poly_mulconst
<1>3. Value(q2, m[x].val, v)
  BY MeansIs, Zenon DEF Carries
<1>4. Value(q2, MQ2!mulconst(m[x].val, MQ2_IQ), Scaled(3, v))
  BY <1>3, ThirdValue, Zenon
<1>5. Means("mod2", MQ2!mulconst(m[x].val, MQ2_IQ), Scaled(3, v))
  BY <1>4, MeansIs, Zenon
<1> QED
  BY <1>2, <1>5, PutPair, Zenon

LEMMA DoMulNtt2 ==
  ASSUME NEW m, NEW x \in 0..18, NEW y \in 0..18, NEW v \in Poly, NEW w \in Poly,
         Carries(m, x, "ntt2", v), Carries(m, y, "ntt2", w)
  PROVE  /\ Carries(Apply(m, <<"mul_ntt2", x, y>>), x, "ntt2", Times(v, w))
         /\ Changes(m, Apply(m, <<"mul_ntt2", x, y>>), x..(x + 1))
<1>1. Has(m, x, "ntt2") /\ Has(m, y, "ntt2")
  BY Zenon DEF Carries
<1>2. Apply(m, <<"mul_ntt2", x, y>>) = Put(m, x, "ntt2", MQ2!mul_ntt(m[x].val, m[y].val))
  BY <1>1, SMT DEF Apply, Conv, Comb, Invert, Divide, Same, Crt, MuladjAddMuladj, mq2poly_mul_ntt
<1>3. Roots(q2, wMQ2, m[x].val, v) /\ Roots(q2, wMQ2, m[y].val, w)
  BY MeansIs, Zenon DEF Carries
<1>4. Roots(q2, wMQ2, MQ2!mul_ntt(m[x].val, m[y].val), Times(v, w))
  BY <1>3, MulNttMQ2, Zenon
<1>5. Means("ntt2", MQ2!mul_ntt(m[x].val, m[y].val), Times(v, w))
  BY <1>4, MeansIs, Zenon
<1> QED
  BY <1>2, <1>5, PutPair, Zenon

LEMMA DoMuladjNtt2 ==
  ASSUME NEW m, NEW x \in 0..18, NEW y \in 0..18, NEW v \in Poly, NEW w \in Poly,
         Carries(m, x, "ntt2", v), Carries(m, y, "ntt2", w)
  PROVE  /\ Carries(Apply(m, <<"muladj_ntt2", x, y>>), x, "ntt2", Times(v, Adj(w)))
         /\ Changes(m, Apply(m, <<"muladj_ntt2", x, y>>), x..(x + 1))
<1>1. Has(m, x, "ntt2") /\ Has(m, y, "ntt2")
  BY Zenon DEF Carries
<1>2. Apply(m, <<"muladj_ntt2", x, y>>) = Put(m, x, "ntt2", MQ2!muladj_ntt(m[x].val, m[y].val))
  BY <1>1, SMT DEF Apply, Conv, Comb, Invert, Divide, Same, Crt, MuladjAddMuladj, mq2poly_muladj_ntt
<1>3. Roots(q2, wMQ2, m[x].val, v) /\ Roots(q2, wMQ2, m[y].val, w)
  BY MeansIs, Zenon DEF Carries
<1>4. Roots(q2, wMQ2, MQ2!muladj_ntt(m[x].val, m[y].val), Times(v, Adj(w)))
  BY <1>3, MuladjNtt, Zenon
<1>5. Means("ntt2", MQ2!muladj_ntt(m[x].val, m[y].val), Times(v, Adj(w)))
  BY <1>4, MeansIs, Zenon
<1> QED
  BY <1>2, <1>5, PutPair, Zenon

LEMMA DoMuladjX2Ntt2 ==
  ASSUME NEW m, NEW x \in 0..18, NEW y \in 0..18, NEW v \in Poly, NEW w \in Poly,
         Carries(m, x, "ntt2", v), Carries(m, y, "ntt2", w)
  PROVE  /\ Carries(Apply(m, <<"muladj_x2_ntt2", x, y>>), x, "ntt2", Const(mqpoly_sqnorm_small(v) + mqpoly_sqnorm_small(w)))
         /\ Changes(m, Apply(m, <<"muladj_x2_ntt2", x, y>>), x..(x + 1))
<1>1. Has(m, x, "ntt2") /\ Has(m, y, "ntt2")
  BY Zenon DEF Carries
<1>2. Apply(m, <<"muladj_x2_ntt2", x, y>>) = Put(m, x, "ntt2", MQ2!muladj_x2_ntt(m[x].val, m[y].val))
  BY <1>1, SMT DEF Apply, Conv, Comb, Invert, Divide, Same, Crt, MuladjAddMuladj, mq2poly_muladj_x2_ntt
<1>3. Roots(q2, wMQ2, m[x].val, v) /\ Roots(q2, wMQ2, m[y].val, w)
  BY MeansIs, Zenon DEF Carries
<1>4. Roots(q2, wMQ2, MQ2!muladj_x2_ntt(m[x].val, m[y].val), Const(mqpoly_sqnorm_small(v) + mqpoly_sqnorm_small(w)))
  BY <1>3, MuladjX2MQ2, Zenon
<1>5. Means("ntt2", MQ2!muladj_x2_ntt(m[x].val, m[y].val), Const(mqpoly_sqnorm_small(v) + mqpoly_sqnorm_small(w)))
  BY <1>4, MeansIs, Zenon
<1> QED
  BY <1>2, <1>5, PutPair, Zenon

LEMMA DoAdd2 ==
  ASSUME NEW m, NEW x \in 0..18, NEW y \in 0..18, NEW v \in Poly, NEW w \in Poly,
         Carries(m, x, "mod2", v), Carries(m, y, "mod2", w)
  PROVE  /\ Carries(Apply(m, <<"add2", x, y>>), x, "mod2", Plus(v, w))
         /\ Changes(m, Apply(m, <<"add2", x, y>>), x..(x + 1))
<1>1. Has(m, x, "mod2") /\ Has(m, y, "mod2")
  BY Zenon DEF Carries
<1>2. Apply(m, <<"add2", x, y>>) = Put(m, x, "mod2", MQ2!add(m[x].val, m[y].val))
  BY <1>1, SMT DEF Apply, Conv, Comb, Invert, Divide, Same, Crt, MuladjAddMuladj, mq2poly_add
<1>3. Value(q2, m[x].val, v) /\ Value(q2, m[y].val, w)
  BY MeansIs, Zenon DEF Carries
<1>4. Value(q2, MQ2!add(m[x].val, m[y].val), Plus(v, w))
  BY <1>3, SumValueMQ2, Zenon
<1>5. Means("mod2", MQ2!add(m[x].val, m[y].val), Plus(v, w))
  BY <1>4, MeansIs, Zenon
<1> QED
  BY <1>2, <1>5, PutPair, Zenon

LEMMA DoAdd2Ntt ==
  ASSUME NEW m, NEW x \in 0..18, NEW y \in 0..18, NEW v \in Poly, NEW w \in Poly,
         Carries(m, x, "ntt2", v), Carries(m, y, "ntt2", w)
  PROVE  /\ Carries(Apply(m, <<"add2", x, y>>), x, "ntt2", Plus(v, w))
         /\ Changes(m, Apply(m, <<"add2", x, y>>), x..(x + 1))
<1>1. Has(m, x, "ntt2") /\ Has(m, y, "ntt2") /\ ~Has(m, x, "mod2")
  BY SizeIs, SMT DEF Carries, Has
<1>2. Apply(m, <<"add2", x, y>>) = Put(m, x, "ntt2", MQ2!add(m[x].val, m[y].val))
  BY <1>1, SMT DEF Apply, Conv, Comb, Invert, Divide, Same, Crt, MuladjAddMuladj, mq2poly_add
<1>3. Roots(q2, wMQ2, m[x].val, v) /\ Roots(q2, wMQ2, m[y].val, w)
  BY MeansIs, Zenon DEF Carries
<1>4. Roots(q2, wMQ2, MQ2!add(m[x].val, m[y].val), Plus(v, w))
  BY <1>3, SumRootsMQ2, Zenon
<1>5. Means("ntt2", MQ2!add(m[x].val, m[y].val), Plus(v, w))
  BY <1>4, MeansIs, Zenon
<1> QED
  BY <1>2, <1>5, PutPair, Zenon

LEMMA DoSub2 ==
  ASSUME NEW m, NEW x \in 0..18, NEW y \in 0..18, NEW v \in Poly, NEW w \in Poly,
         Carries(m, x, "mod2", v), Carries(m, y, "mod2", w)
  PROVE  /\ Carries(Apply(m, <<"sub2", x, y>>), x, "mod2", Minus(v, w))
         /\ Changes(m, Apply(m, <<"sub2", x, y>>), x..(x + 1))
<1>1. Has(m, x, "mod2") /\ Has(m, y, "mod2")
  BY Zenon DEF Carries
<1>2. Apply(m, <<"sub2", x, y>>) = Put(m, x, "mod2", MQ2!sub(m[x].val, m[y].val))
  BY <1>1, SMT DEF Apply, Conv, Comb, Invert, Divide, Same, Crt, MuladjAddMuladj, mq2poly_sub
<1>3. Value(q2, m[x].val, v) /\ Value(q2, m[y].val, w)
  BY MeansIs, Zenon DEF Carries
<1>4. Value(q2, MQ2!sub(m[x].val, m[y].val), Minus(v, w))
  BY <1>3, SumValueMQ2, Zenon
<1>5. Means("mod2", MQ2!sub(m[x].val, m[y].val), Minus(v, w))
  BY <1>4, MeansIs, Zenon
<1> QED
  BY <1>2, <1>5, PutPair, Zenon

LEMMA DoDecode ==
  ASSUME NEW m, NEW x \in 0..19
  PROVE  /\ Carries(Apply(m, <<"decode f", x>>), x, "small", key.f)
         /\ Changes(m, Apply(m, <<"decode f", x>>), x..x)
         /\ Carries(Apply(m, <<"decode g", x>>), x, "small", key.g)
         /\ Changes(m, Apply(m, <<"decode g", x>>), x..x)
<1>1. Apply(m, <<"decode f", x>>) = Put(m, x, "small", key.f)
  BY SMT DEF Apply, Conv, Comb, Invert, Divide, Same, Crt, MuladjAddMuladj
<1>2. Apply(m, <<"decode g", x>>) = Put(m, x, "small", key.g)
  BY SMT DEF Apply, Conv, Comb, Invert, Divide, Same, Crt, MuladjAddMuladj
<1>3. "small" \in DOMAIN Size /\ x \in Nat /\ x + Size["small"] <= 20 /\ x + Size["small"] - 1 = x
  BY SizeIs, SMT
<1>4. Means("small", key.f, key.f) /\ Means("small", key.g, key.g)
  BY MeansIs, Zenon
<1>5. Carries(Put(m, x, "small", key.f), x, "small", key.f) /\ Changes(m, Put(m, x, "small", key.f), x..x)
  BY <1>3, <1>4, PutCarries, Zenon
<1>6. Carries(Put(m, x, "small", key.g), x, "small", key.g) /\ Changes(m, Put(m, x, "small", key.g), x..x)
  BY <1>3, <1>4, PutCarries, Zenon
<1> QED
  BY <1>1, <1>2, <1>5, <1>6, Zenon

LEMMA DoMemcpy ==
  ASSUME NEW m, NEW x \in 0..18, NEW y \in 0..18, NEW rep \in {"ntt", "ntt2", "i16"},
         NEW v, Carries(m, y, rep, v)
  PROVE  /\ Carries(Apply(m, <<"memcpy", x, y>>), x, rep, v)
         /\ Changes(m, Apply(m, <<"memcpy", x, y>>), x..(x + 1))
<1>1. Apply(m, <<"memcpy", x, y>>) = Memcpy(m, x, y)
  BY SMT DEF Apply, Conv, Comb, Invert, Divide, Same, Crt, MuladjAddMuladj
<1>2. rep \in DOMAIN Size /\ Size[rep] = 2
  BY SizeIs, SMT
<1>3. Carries(Memcpy(m, x, y), x, rep, v) /\ Changes(m, Memcpy(m, x, y), x..(x + 1))
  BY <1>2, MemcpyCarries, Zenon
<1> QED
  BY <1>1, <1>3, Zenon

LEMMA SpoilChanges ==
  ASSUME NEW m, NEW at, NEW len
  PROVE  Changes(m, Spoil(m, at, len), at..(at + len - 1))
  BY SMT DEF Changes, Spoil

\* Scratch that does not overlap the result leaves it alone.
LEMMA PutThenSpoil ==
  ASSUME NEW m, NEW x \in 0..18, NEW y \in 0..18, x + 2 <= y \/ y + 2 <= x,
         NEW v, NEW a, Means("ntt", v, a), NEW n, n = Spoil(Put(m, x, "ntt", v), y, 2)
  PROVE  Carries(n, x, "ntt", a) /\ Changes(m, n, x..(x + 1) \cup y..(y + 1))
<1> DEFINE h == Put(m, x, "ntt", v)
<1>1. Carries(h, x, "ntt", a) /\ Changes(m, h, x..(x + 1))
  BY PutPair, Zenon
<1>2. n = Spoil(h, y, 2)
  OBVIOUS
<1> HIDE DEF h
<1>3. Changes(h, n, y..(y + 2 - 1))
  BY <1>2, SpoilChanges, Zenon
<1>4. y + 2 - 1 = y + 1
  BY SMT
<1>5. Changes(h, n, y..(y + 1))
  BY <1>3, <1>4, Zenon
<1>6. \A u \in x..(x + 1) : u \notin y..(y + 1)
  BY SMT
<1>7. x \in Nat /\ "ntt" \in DOMAIN Size /\ x + Size["ntt"] <= 20 /\ x + Size["ntt"] - 1 = x + 1
  BY SizeIs, SMT
<1>8. Carries(n, x, "ntt", a)
  BY <1>1, <1>5, <1>6, <1>7, Frame, SMT
<1>9. Changes(m, n, x..(x + 1) \cup y..(y + 1))
  BY <1>1, <1>5, Zenon DEF Changes
<1> QED
  BY <1>8, <1>9

LEMMA DoInvNtt ==
  ASSUME NEW m, NEW x \in 0..18, NEW y \in 0..18, x + 2 <= y \/ y + 2 <= x,
         NEW k \in Keys, Carries(m, x, "ntt", k.f)
  PROVE  /\ Carries(Apply(m, <<"inv_ntt", x, y>>), x, "ntt", FInv(k))
         /\ Changes(m, Apply(m, <<"inv_ntt", x, y>>), x..(x + 1) \cup y..(y + 1))
<1>1. Has(m, x, "ntt")
  BY Zenon DEF Carries
<1>2. Apply(m, <<"inv_ntt", x, y>>) = Spoil(Put(m, x, "ntt", MQ!inv_ntt(m[x].val).val), y, 2)
  BY <1>1, SMT DEF Apply, Conv, Comb, Invert, Divide, Same, Crt, MuladjAddMuladj
<1>3. Roots(q, wMQ, m[x].val, k.f)
  BY MeansIs, Zenon DEF Carries
<1>4. Roots(q, wMQ, MQ!inv_ntt(m[x].val).val, FInv(k))
  BY <1>3, InvNtt, Zenon
<1>5. Means("ntt", MQ!inv_ntt(m[x].val).val, FInv(k))
  BY <1>4, MeansIs, Zenon
<1> QED
  BY <1>2, <1>5, PutThenSpoil, Zenon

LEMMA DoDivNtt ==
  ASSUME NEW m, NEW x \in 0..18, NEW y \in 0..18, NEW u \in 0..18, x + 2 <= u \/ u + 2 <= x,
         NEW k \in Keys, NEW v \in Poly, Carries(m, x, "ntt", v), Carries(m, y, "ntt", k.f)
  PROVE  /\ Carries(Apply(m, <<"div_ntt", x, y, u>>), x, "ntt", Times(v, FInv(k)))
         /\ Changes(m, Apply(m, <<"div_ntt", x, y, u>>), x..(x + 1) \cup u..(u + 1))
<1> DEFINE r == MQ!div_ntt(m[x].val, m[y].val).val
<1>1. Has(m, x, "ntt") /\ Has(m, y, "ntt")
  BY Zenon DEF Carries
<1>2. Apply(m, <<"div_ntt", x, y, u>>) = Spoil(Put(m, x, "ntt", r), u, 2)
  BY <1>1, SMT DEF Apply, Conv, Comb, Invert, Divide, Same, Crt, MuladjAddMuladj
<1>3. Roots(q, wMQ, m[x].val, v) /\ Roots(q, wMQ, m[y].val, k.f)
  BY MeansIs, Zenon DEF Carries
<1>4. Roots(q, wMQ, r, Times(v, FInv(k)))
  BY <1>3, DivNtt, Zenon
<1> HIDE DEF r
<1>5. Means("ntt", r, Times(v, FInv(k)))
  BY <1>4, MeansIs, Zenon
<1> QED
  BY <1>2, <1>5, PutThenSpoil, Zenon

LEMMA PutWide ==
  ASSUME NEW m, NEW n, NEW v, NEW at \in Nat, NEW rep \in {"i32", "fsa", "fft"}, at + Size[rep] <= 20,
         n = Put(m, at, rep, v)
  PROVE  Carries(n, at, rep, v) /\ Changes(m, n, at..(at + Size[rep] - 1))
<1>1. rep \in DOMAIN Size /\ Means(rep, v, v)
  BY SizeIs, MeansIs, SMT
<1> QED
  BY <1>1, PutCarries, Zenon

\* Conversions to and among the FFT representations.
LEMMA DoFftSelfadj ==
  ASSUME NEW m, NEW x \in 0..16, NEW y \in 0..18, NEW v, Carries(m, y, "i16", v)
  PROVE  /\ Carries(Apply(m, <<"FFT_int16_selfadj", x, y>>), x, "fsa", fpoly_FFT_int16_selfadj(v))
         /\ Changes(m, Apply(m, <<"FFT_int16_selfadj", x, y>>), x..(x + 3))
<1>1. Has(m, y, "i16") /\ m[y].val = v
  BY MeansIs, Zenon DEF Carries
<1>2. Apply(m, <<"FFT_int16_selfadj", x, y>>) = Put(m, x, "fsa", fpoly_FFT_int16_selfadj(v))
  BY <1>1, SMT DEF Apply, Conv, Comb, Invert, Divide, Same, Crt, MuladjAddMuladj
<1>3. x \in Nat /\ x + Size["fsa"] <= 20 /\ x + Size["fsa"] - 1 = x + 3
  BY SizeIs, SMT
<1> QED
  BY <1>2, <1>3, PutWide, Zenon

LEMMA DoInvmul ==
  ASSUME NEW m, NEW x \in 0..16, NEW v, Carries(m, x, "fsa", v)
  PROVE  /\ Carries(Apply(m, <<"invmul_selfadj_fft", x>>), x, "fsa", fpoly_invmul_selfadj_fft(v))
         /\ Changes(m, Apply(m, <<"invmul_selfadj_fft", x>>), x..(x + 3))
<1>1. Has(m, x, "fsa") /\ m[x].val = v
  BY MeansIs, Zenon DEF Carries
<1>2. Apply(m, <<"invmul_selfadj_fft", x>>) = Put(m, x, "fsa", fpoly_invmul_selfadj_fft(v))
  BY <1>1, SMT DEF Apply, Conv, Comb, Invert, Divide, Same, Crt, MuladjAddMuladj
<1>3. x \in Nat /\ x + Size["fsa"] <= 20 /\ x + Size["fsa"] - 1 = x + 3
  BY SizeIs, SMT
<1> QED
  BY <1>2, <1>3, PutWide, Zenon

LEMMA DoFftInt32 ==
  ASSUME NEW m, NEW x \in 0..12, NEW y \in 0..16, NEW v, Carries(m, y, "i32", v)
  PROVE  /\ Carries(Apply(m, <<"FFT_int32", x, y>>), x, "fft", fpoly_FFT_int32(v))
         /\ Changes(m, Apply(m, <<"FFT_int32", x, y>>), x..(x + 7))
<1>1. Has(m, y, "i32") /\ m[y].val = v
  BY MeansIs, Zenon DEF Carries
<1>2. Apply(m, <<"FFT_int32", x, y>>) = Put(m, x, "fft", fpoly_FFT_int32(v))
  BY <1>1, SMT DEF Apply, Conv, Comb, Invert, Divide, Same, Crt, MuladjAddMuladj
<1>3. x \in Nat /\ x + Size["fft"] <= 20 /\ x + Size["fft"] - 1 = x + 7
  BY SizeIs, SMT
<1> QED
  BY <1>2, <1>3, PutWide, Zenon

LEMMA DoMulFft ==
  ASSUME NEW m, NEW x \in 0..12, NEW y \in 0..12, NEW v, NEW w,
         Carries(m, x, "fft", v), Carries(m, y, "fft", w)
  PROVE  /\ Carries(Apply(m, <<"mul_fft", x, y>>), x, "fft", fpoly_mul_fft(v, w))
         /\ Changes(m, Apply(m, <<"mul_fft", x, y>>), x..(x + 7))
<1>1. Has(m, x, "fft") /\ m[x].val = v /\ Has(m, y, "fft") /\ m[y].val = w
  BY MeansIs, Zenon DEF Carries
<1>2. Apply(m, <<"mul_fft", x, y>>) = Put(m, x, "fft", fpoly_mul_fft(v, w))
  BY <1>1, SMT DEF Apply, Conv, Comb, Invert, Divide, Same, Crt, MuladjAddMuladj
<1>3. x \in Nat /\ x + Size["fft"] <= 20 /\ x + Size["fft"] - 1 = x + 7
  BY SizeIs, SMT
<1> QED
  BY <1>2, <1>3, PutWide, Zenon

LEMMA DoDivSelfadj ==
  ASSUME NEW m, NEW x \in 0..12, NEW y \in 0..16, NEW v, NEW w,
         Carries(m, x, "fft", v), Carries(m, y, "fsa", w)
  PROVE  /\ Carries(Apply(m, <<"div_selfadj_fft", x, y>>), x, "fft", fpoly_div_selfadj_fft(v, w))
         /\ Changes(m, Apply(m, <<"div_selfadj_fft", x, y>>), x..(x + 7))
<1>1. Has(m, x, "fft") /\ m[x].val = v /\ Has(m, y, "fsa") /\ m[y].val = w
  BY MeansIs, Zenon DEF Carries
<1>2. Apply(m, <<"div_selfadj_fft", x, y>>) = Put(m, x, "fft", fpoly_div_selfadj_fft(v, w))
  BY <1>1, SMT DEF Apply, Conv, Comb, Invert, Divide, Same, Crt, MuladjAddMuladj
<1>3. x \in Nat /\ x + Size["fft"] <= 20 /\ x + Size["fft"] - 1 = x + 7
  BY SizeIs, SMT
<1> QED
  BY <1>2, <1>3, PutWide, Zenon

\* Coefficients of absolute value at most q*q'/2.
CrtRange(x) == \A i \in Coef : -113261568 <= x[i] /\ x[i] <= 113261568

\* The signed residues of a polynomial below q*q'/2 give it back.
LEMMA CrtOfResidues ==
  ASSUME NEW v \in Poly, CrtRange(v)
  PROVE  mq2mqpoly_CRT(Centred(v, q), Centred(v, q2)) = v
<1> DEFINE a == Centred(v, q)
           b == Centred(v, q2)
<1>1. /\ a \in Poly /\ Equiv(q, a, v) /\ (\A i \in Coef : -q < 2 * a[i] /\ 2 * a[i] < q)
      /\ b \in Poly /\ Equiv(q2, b, v) /\ (\A i \in Coef : -q2 < 2 * b[i] /\ 2 * b[i] < q2)
  BY CentredIs, Zenon
<1> HIDE DEF a, b
<1>2. \A i \in Coef : a[i] \in Int /\ b[i] \in Int /\ v[i] \in Int
  BY <1>1, SMT DEF Poly
<1>3. \A i \in Coef : CrtCoef(a[i], b[i]) = v[i]
  <2> TAKE i \in Coef
  <2>1. a[i] \in Int /\ b[i] \in Int /\ v[i] \in Int /\ Cong(q, a[i], v[i]) /\ Cong(q2, b[i], v[i])
    BY <1>1, <1>2, Zenon DEF Equiv
  <2>2. Cong(q, v[i], a[i]) /\ Cong(q2, v[i], b[i])
    BY <2>1, CongTurn, ModInt, Zenon
  <2>3. PICK k \in Int : v[i] = a[i] + q * k
    BY <2>2, Zenon DEF Cong
  <2>4. PICK l \in Int : v[i] = b[i] + q2 * l
    BY <2>2, Zenon DEF Cong
  <2> DEFINE e == v[i]
             c == a[i]
             d == b[i]
  <2>5. CrtCoef(c, d) = e
    <3>1. /\ k \in Int /\ l \in Int /\ e \in Int /\ -113261568 <= e /\ e <= 113261568
          /\ c \in Int /\ -6144 <= c /\ c <= 6144 /\ \E i0 \in Int : e = c + 12289 * i0
          /\ d \in Int /\ -9216 <= d /\ d <= 9216 /\ \E i0 \in Int : e = d + 18433 * i0
      BY <1>1, <2>1, <2>3, <2>4, Moduli, SMT DEF CrtRange
    <3> HIDE DEF e, c, d
    <3> QED
      BY <3>1, CrtRecovers, SMT
  <2> QED
    BY <2>5, Zenon
<1>4. mq2mqpoly_CRT(a, b) = [i \in Coef |-> CrtCoef(a[i], b[i])]
  BY IndexIs, Zenon DEF mq2mqpoly_CRT
<1>5. [i \in Coef |-> CrtCoef(a[i], b[i])] = [i \in Coef |-> v[i]]
  BY <1>3, Zenon
<1>6. v = [i \in Coef |-> v[i]]
  BY SMT DEF Poly
<1> QED
  BY <1>4, <1>5, <1>6, Zenon DEF a, b

LEMMA DoCrt ==
  ASSUME NEW m, NEW v \in Poly, CrtRange(v),
         Carries(m, 8, "i16", Centred(v, q)), Carries(m, 10, "i16", Centred(v, q2))
  PROVE  /\ Carries(Apply(m, <<"CRT", 12, 8, 10>>), 12, "i32", v)
         /\ Changes(m, Apply(m, <<"CRT", 12, 8, 10>>), 12..15)
<1>1. Has(m, 8, "i16") /\ m[8].val = Centred(v, q) /\ Has(m, 10, "i16") /\ m[10].val = Centred(v, q2)
  BY MeansIs, Zenon DEF Carries
<1>2. Apply(m, <<"CRT", 12, 8, 10>>) = Put(m, 12, "i32", mq2mqpoly_CRT(m[8].val, m[10].val))
  BY <1>1, SMT DEF Apply, Conv, Comb, Invert, Divide, Same, Crt, MuladjAddMuladj
<1>3. mq2mqpoly_CRT(m[8].val, m[10].val) = v
  BY <1>1, CrtOfResidues, Zenon
<1>4. 12 \in Nat /\ 12 + Size["i32"] <= 20 /\ 12 + Size["i32"] - 1 = 15
  BY SizeIs, SMT
<1> QED
  BY <1>2, <1>3, <1>4, PutWide, Zenon

-----------------------------------------------------------------------------
(* What the area holds at each statement of the loop body, for the key k, the *)
(* challenge c and the sampled z1 and z0.                                     *)

GramOf(k) == Const(mqpoly_sqnorm_small(k.f) + mqpoly_sqnorm_small(k.g))
CrossOf(k) == Plus(Times(k.F, Adj(k.f)), Times(BigG(k), Adj(k.g)))
cfMod(k, c) == Centred(Times(c, k.f), q)
cFMod(k, c) == Centred(Times(c, k.F), q)
NegcF(k, c) == Centred(Times(Minus(Const(0), k.F), c), q)
\* h = g/f modulo q.
H(k) == Times(k.g, FInv(k))

\* FFT values: the Gram value and q^2 over it, F*adj(f) + G*adj(g), q*(t1 - z1), their
\* product, and that over the Gram value.
GramFft(k) == fpoly_FFT_int16_selfadj(GramOf(k))
InvGramFft(k) == fpoly_invmul_selfadj_fft(GramFft(k))
CrossFft(k) == fpoly_FFT_int32(CrossOf(k))
Rest(k, c, z1) ==
    [re |-> cfMod(k, c)[0] - q * z1[0], im |-> cfMod(k, c)[1] - q * z1[1], den |-> q]
Moved(k, c, z1) == fpoly_mul_fft(Rest(k, c, z1), CrossFft(k))
Centre(k, c, z1) == fpoly_div_selfadj_fft(Moved(k, c, z1), GramFft(k))

\* Modulo q', where 3 is 1/q: z0 + (c*F mod q)/q, z1 - (c*f mod q)/q and s1.  Then s0.
Z0(k, c, z0) == Plus(Scaled(3, cFMod(k, c)), z0)
Z1(k, c, z1) == Minus(z1, Scaled(3, cfMod(k, c)))
SumS1(k, c, z1, z0) == Plus(Times(Z0(k, c, z0), k.f), Times(Z1(k, c, z1), k.F))
S1(k, c, z1, z0) == Centred(SumS1(k, c, z1, z0), q2)
S0(k, c, z1, z0) == Centred(Minus(c, Times(S1(k, c, z1, z0), H(k))), q)

\* From statement a on, up to statement b, x is at this unit.
Row(m, l, a, b, at, rep, x) == l \in a..b => Carries(m, at, rep, x)

\* What the scratch area holds before statement l.
Area(m, l, k, c, z1, z0) ==
    \* Written by GramBothModuli.
    /\ Row(m, l, 2, 11, 4, "small", k.f)
    /\ Row(m, l, 3, 3, 0, "mod2", k.f)
    /\ Row(m, l, 4, 8, 0, "ntt2", k.f)
    /\ Row(m, l, 5, 13, 5, "small", k.g)
    /\ Row(m, l, 7, 7, 2, "mod2", k.g)
    /\ Row(m, l, 8, 8, 2, "ntt2", k.g)
    /\ Row(m, l, 9, 9, 0, "ntt2", GramOf(k))
    /\ Row(m, l, 10, 10, 0, "mod2", GramOf(k))
    /\ Row(m, l, 11, 18, 0, "i16", Centred(GramOf(k), q2))
    /\ Row(m, l, 12, 12, 18, "int", k.f)
    /\ Row(m, l, 13, 29, 18, "ntt", k.f)
    /\ Row(m, l, 14, 14, 2, "int", k.g)
    /\ Row(m, l, 15, 15, 2, "ntt", k.g)
    /\ Row(m, l, 16, 16, 2, "ntt", GramOf(k))
    /\ Row(m, l, 17, 17, 2, "int", GramOf(k))
    /\ Row(m, l, 18, 18, 2, "i16", Centred(GramOf(k), q))
    /\ Row(m, l, 19, 19, 0, "i16", GramOf(k))
    \* Written by FirstCentre and the first sampling.
    /\ Row(m, l, 20, 20, 8, "fsa", GramFft(k))
    /\ Row(m, l, 21, 27, 8, "fsa", InvGramFft(k))
    /\ Row(m, l, 22, 22, 16, "ext", c)
    /\ Row(m, l, 23, 23, 16, "int", c)
    /\ Row(m, l, 24, 24, 16, "ntt", c)
    /\ Row(m, l, 25, 25, 16, "ntt", Times(c, k.f))
    /\ Row(m, l, 26, 26, 16, "int", Times(c, k.f))
    /\ Row(m, l, 27, 27, 16, "i16", cfMod(k, c))
    /\ Row(m, l, 28, 65, 0, "fft", Rest(k, c, z1))
    /\ Row(m, l, 28, 100, 16, "i16", z1)
    \* Written by RebuildG.
    /\ Row(m, l, 29, 38, 12, "ntt", k.f)
    /\ Row(m, l, 30, 37, 18, "ntt", FInv(k))
    /\ Row(m, l, 31, 31, 10, "small", k.g)
    /\ Row(m, l, 32, 32, 14, "int", k.g)
    /\ Row(m, l, 33, 38, 14, "ntt", k.g)
    /\ Row(m, l, 34, 34, 8, "int", k.F)
    /\ Row(m, l, 35, 38, 8, "ntt", k.F)
    /\ Row(m, l, 36, 36, 10, "ntt", k.g)
    /\ Row(m, l, 37, 37, 10, "ntt", Times(k.g, k.F))
    /\ Row(m, l, 38, 41, 10, "ntt", BigG(k))
    /\ Row(m, l, 39, 39, 8, "ntt", CrossOf(k))
    /\ Row(m, l, 40, 40, 8, "int", CrossOf(k))
    /\ Row(m, l, 41, 63, 8, "i16", Centred(CrossOf(k), q))
    /\ Row(m, l, 42, 42, 10, "int", BigG(k))
    /\ Row(m, l, 43, 43, 10, "i16", BigG(k))
    /\ Row(m, l, 44, 44, 10, "mod2", BigG(k))
    /\ Row(m, l, 45, 48, 10, "ntt2", BigG(k))
    /\ Row(m, l, 46, 46, 18, "small", k.g)
    /\ Row(m, l, 47, 47, 14, "mod2", k.g)
    /\ Row(m, l, 48, 53, 14, "ntt2", k.g)
    /\ Row(m, l, 49, 60, 10, "ntt2", Times(BigG(k), Adj(k.g)))
    /\ Row(m, l, 50, 50, 18, "small", k.f)
    /\ Row(m, l, 51, 51, 12, "mod2", k.f)
    /\ Row(m, l, 52, 59, 12, "ntt2", k.f)
    /\ Row(m, l, 53, 53, 18, "ntt2", k.f)
    /\ Row(m, l, 54, 54, 18, "ntt2", GramOf(k))
    /\ Row(m, l, 55, 55, 18, "mod2", GramOf(k))
    /\ Row(m, l, 56, 56, 18, "i16", Centred(GramOf(k), q2))
    /\ Row(m, l, 57, 66, 18, "i16", GramOf(k))
    \* Written by SecondCentre and the second sampling.
    /\ Row(m, l, 58, 58, 14, "mod2", k.F)
    /\ Row(m, l, 59, 59, 14, "ntt2", k.F)
    /\ Row(m, l, 60, 60, 14, "ntt2", Times(k.F, Adj(k.f)))
    /\ Row(m, l, 61, 61, 10, "ntt2", CrossOf(k))
    /\ Row(m, l, 62, 62, 10, "mod2", CrossOf(k))
    /\ Row(m, l, 63, 63, 10, "i16", Centred(CrossOf(k), q2))
    /\ Row(m, l, 64, 64, 12, "i32", CrossOf(k))
    /\ Row(m, l, 65, 65, 8, "fft", CrossFft(k))
    /\ Row(m, l, 66, 67, 0, "fft", Moved(k, c, z1))
    /\ Row(m, l, 67, 77, 8, "fsa", GramFft(k))
    /\ Row(m, l, 68, 77, 0, "fft", Centre(k, c, z1))
    /\ Row(m, l, 69, 69, 12, "ext", c)
    /\ Row(m, l, 70, 70, 12, "int", c)
    /\ Row(m, l, 71, 74, 12, "ntt", c)
    /\ Row(m, l, 72, 72, 18, "int", k.F)
    /\ Row(m, l, 73, 73, 18, "ntt", k.F)
    /\ Row(m, l, 74, 74, 18, "ntt", Minus(Const(0), k.F))
    /\ Row(m, l, 75, 75, 18, "ntt", Times(Minus(Const(0), k.F), c))
    /\ Row(m, l, 76, 76, 18, "int", Times(Minus(Const(0), k.F), c))
    /\ Row(m, l, 77, 77, 18, "i16", NegcF(k, c))
    /\ Row(m, l, 78, 95, 18, "i16", z0)
    \* Written by BuildS1.
    /\ Row(m, l, 79, 79, 2, "ext", c)
    /\ Row(m, l, 80, 80, 2, "int", c)
    /\ Row(m, l, 81, 120, 2, "ntt", c)
    /\ Row(m, l, 82, 103, 12, "small", k.f)
    /\ Row(m, l, 83, 83, 4, "int", k.f)
    /\ Row(m, l, 84, 115, 4, "ntt", k.f)
    /\ Row(m, l, 85, 85, 6, "int", k.F)
    /\ Row(m, l, 86, 90, 6, "ntt", k.F)
    /\ Row(m, l, 87, 87, 8, "ntt", c)
    /\ Row(m, l, 88, 88, 8, "ntt", Times(c, k.f))
    /\ Row(m, l, 89, 89, 8, "int", Times(c, k.f))
    /\ Row(m, l, 90, 98, 8, "i16", cfMod(k, c))
    /\ Row(m, l, 91, 91, 6, "ntt", Times(c, k.F))
    /\ Row(m, l, 92, 92, 6, "int", Times(c, k.F))
    /\ Row(m, l, 93, 93, 6, "i16", cFMod(k, c))
    /\ Row(m, l, 94, 94, 6, "mod2", cFMod(k, c))
    /\ Row(m, l, 95, 96, 6, "mod2", Scaled(3, cFMod(k, c)))
    /\ Row(m, l, 96, 96, 18, "mod2", z0)
    /\ Row(m, l, 97, 97, 6, "mod2", Z0(k, c, z0))
    /\ Row(m, l, 98, 107, 6, "ntt2", Z0(k, c, z0))
    /\ Row(m, l, 99, 99, 8, "mod2", cfMod(k, c))
    /\ Row(m, l, 100, 101, 8, "mod2", Scaled(3, cfMod(k, c)))
    /\ Row(m, l, 101, 101, 16, "mod2", z1)
    /\ Row(m, l, 102, 102, 16, "mod2", Z1(k, c, z1))
    /\ Row(m, l, 103, 108, 16, "ntt2", Z1(k, c, z1))
    /\ Row(m, l, 104, 104, 0, "mod2", k.f)
    /\ Row(m, l, 105, 107, 0, "ntt2", k.f)
    /\ Row(m, l, 106, 106, 10, "mod2", k.F)
    /\ Row(m, l, 107, 108, 10, "ntt2", k.F)
    /\ Row(m, l, 108, 109, 6, "ntt2", Times(Z0(k, c, z0), k.f))
    /\ Row(m, l, 109, 109, 16, "ntt2", Times(Z1(k, c, z1), k.F))
    /\ Row(m, l, 110, 110, 6, "ntt2", SumS1(k, c, z1, z0))
    /\ Row(m, l, 111, 111, 6, "mod2", SumS1(k, c, z1, z0))
    /\ Row(m, l, 112, 123, 6, "i16", S1(k, c, z1, z0))
    \* Written by BuildS0.
    /\ Row(m, l, 113, 113, 12, "small", k.g)
    /\ Row(m, l, 114, 114, 0, "int", k.g)
    /\ Row(m, l, 115, 115, 0, "ntt", k.g)
    /\ Row(m, l, 116, 119, 0, "ntt", H(k))
    /\ Row(m, l, 117, 117, 4, "i16", S1(k, c, z1, z0))
    /\ Row(m, l, 118, 118, 4, "int", S1(k, c, z1, z0))
    /\ Row(m, l, 119, 119, 4, "ntt", S1(k, c, z1, z0))
    /\ Row(m, l, 120, 120, 4, "ntt", Times(S1(k, c, z1, z0), H(k)))
    /\ Row(m, l, 121, 121, 2, "ntt", Minus(c, Times(S1(k, c, z1, z0), H(k))))
    /\ Row(m, l, 122, 122, 2, "int", Minus(c, Times(S1(k, c, z1, z0), H(k))))
    /\ Row(m, l, 123, 123, 2, "i16", S0(k, c, z1, z0))


\* The rest of the state: where the call is, the key and the norm it passed, the nonce, the
\* bits saved by adjust_save, and what the sampler returned.
Sampled1(k, c, z1) ==
    /\ z1 \in Poly /\ Within(q2, z1)
    /\ -19 * q <= Rest(k, c, z1).re /\ Rest(k, c, z1).re <= 19 * q
    /\ -19 * q <= Rest(k, c, z1).im /\ Rest(k, c, z1).im <= 19 * q
Sampled0(z0) == z0 \in Poly /\ Within(q2, z0)

CallState ==
    /\ (pc = "check" => line = 123) /\ (pc # "done" => ret = 0)
    /\ key \in Keys /\ (line \in 6..123 => Gram <= MAX_NORM)
    /\ sig = [header |-> sig.header, nonce |-> sig.nonce, kind |-> sig.kind, body |-> sig.body]
    /\ (pc = "body" \/ line > 1) => sig.nonce \in Nonces
    /\ line \in 19..56 =>
          /\ sig.kind = "adj"
          /\ sig.body[0] = NeedsAdjust(Centred(GramOf(key), q2)[0], Centred(GramOf(key), q)[0])
    /\ z = [t1 |-> z.t1, t0 |-> z.t0]
    /\ line \in 28..123 => Sampled1(key, Hash[sig.nonce], z.t1)
    /\ line \in 78..123 => Sampled0(z.t0)

AreaInv == Area(mem, line, key, Hash[sig.nonce], z.t1, z.t0)

LEMMA JoinLength ==
  ASSUME NEW S, NEW s \in Seq(S), NEW t \in Seq(S)
  PROVE  s \o t \in Seq(S) /\ Len(s \o t) = Len(s) + Len(t)
  OBVIOUS

LEMMA JoinFirst ==
  ASSUME NEW S, NEW s \in Seq(S), NEW t \in Seq(S), NEW i \in 1..Len(s)
  PROVE  (s \o t)[i] = s[i]
  BY SMT

LEMMA JoinSecond ==
  ASSUME NEW S, NEW s \in Seq(S), NEW t \in Seq(S), NEW i \in 1..Len(t)
  PROVE  (s \o t)[Len(s) + i] = t[i]
  BY SMT

\* The loop body, part by part.
LEMMA BodyParts ==
  /\ Len(Body) = 122 /\ Body[27] = <<"ffsamp", 16>> /\ Body[77] = <<"ffsamp", 18>>
  /\ \A i \in 1..18 : Body[i] = GramBothModuli[i]
  /\ \A i \in 1..8 : Body[18 + i] = FirstCentre[i]
  /\ \A i \in 1..29 : Body[27 + i] = RebuildG[i]
  /\ \A i \in 1..20 : Body[56 + i] = SecondCentre[i]
  /\ \A i \in 1..34 : Body[77 + i] = BuildS1[i]
  /\ \A i \in 1..11 : Body[111 + i] = BuildS0[i]
<1> DEFINE S == {GramBothModuli[i] : i \in 1..18} \cup {FirstCentre[i] : i \in 1..8}
                \cup {RebuildG[i] : i \in 1..29} \cup {SecondCentre[i] : i \in 1..20}
                \cup {BuildS1[i] : i \in 1..34} \cup {BuildS0[i] : i \in 1..11}
                \cup {<<"ffsamp", 16>>, <<"ffsamp", 18>>}
           first == <<<<"ffsamp", 16>>>>
           second == <<<<"ffsamp", 18>>>>
<1>1. /\ GramBothModuli = [i \in 1..18 |-> GramBothModuli[i]]
      /\ FirstCentre = [i \in 1..8 |-> FirstCentre[i]]
  BY DEF GramBothModuli, FirstCentre
<1>2. /\ RebuildG = [i \in 1..29 |-> RebuildG[i]]
      /\ SecondCentre = [i \in 1..20 |-> SecondCentre[i]]
  BY DEF RebuildG, SecondCentre
<1>3. BuildS1 = [i \in 1..34 |-> BuildS1[i]]
  BY DEF BuildS1
<1>4. BuildS0 = [i \in 1..11 |-> BuildS0[i]]
  BY DEF BuildS0
<1>5. /\ first \in Seq(S) /\ Len(first) = 1 /\ first[1] = <<"ffsamp", 16>>
      /\ second \in Seq(S) /\ Len(second) = 1 /\ second[1] = <<"ffsamp", 18>>
  <2>1. <<"ffsamp", 16>> \in S /\ <<"ffsamp", 18>> \in S
    OBVIOUS
  <2> HIDE DEF S
  <2> QED
    BY <2>1
<1>6. /\ \A i \in 1..18 : GramBothModuli[i] \in S
      /\ \A i \in 1..8 : FirstCentre[i] \in S
      /\ \A i \in 1..29 : RebuildG[i] \in S
      /\ \A i \in 1..20 : SecondCentre[i] \in S
      /\ \A i \in 1..34 : BuildS1[i] \in S
      /\ \A i \in 1..11 : BuildS0[i] \in S
  OBVIOUS
<1>7. Body = ((((((GramBothModuli \o FirstCentre) \o first) \o RebuildG) \o SecondCentre) \o second)
                 \o BuildS1) \o BuildS0
  BY DEF Body, first, second
<1> HIDE DEF S, first, second
<1>8. ASSUME NEW s, NEW n \in Nat, s = [i \in 1..n |-> s[i]], \A i \in 1..n : s[i] \in S
      PROVE  s \in Seq(S) /\ Len(s) = n
  BY <1>8
<1>9. /\ GramBothModuli \in Seq(S) /\ Len(GramBothModuli) = 18
      /\ FirstCentre \in Seq(S) /\ Len(FirstCentre) = 8
  BY <1>1, <1>6, <1>8, SMT
<1>10. /\ RebuildG \in Seq(S) /\ Len(RebuildG) = 29
       /\ SecondCentre \in Seq(S) /\ Len(SecondCentre) = 20
  BY <1>2, <1>6, <1>8, SMT
<1>11. BuildS1 \in Seq(S) /\ Len(BuildS1) = 34 /\ BuildS0 \in Seq(S) /\ Len(BuildS0) = 11
  BY <1>3, <1>4, <1>6, <1>8, SMT
<1> DEFINE b2 == GramBothModuli \o FirstCentre
           b3 == b2 \o first
           b4 == b3 \o RebuildG
           b5 == b4 \o SecondCentre
           b6 == b5 \o second
           b7 == b6 \o BuildS1
<1>9a. GramBothModuli \in Seq(S) /\ Len(GramBothModuli) = 18
  BY <1>9, Zenon
<1>9as. GramBothModuli \in Seq(S)
  BY <1>9a, Zenon
<1>9b. FirstCentre \in Seq(S) /\ Len(FirstCentre) = 8
  BY <1>9, Zenon
<1>9bs. FirstCentre \in Seq(S)
  BY <1>9b, Zenon
<1>10a. RebuildG \in Seq(S) /\ Len(RebuildG) = 29
  BY <1>10, Zenon
<1>10as. RebuildG \in Seq(S)
  BY <1>10a, Zenon
<1>10b. SecondCentre \in Seq(S) /\ Len(SecondCentre) = 20
  BY <1>10, Zenon
<1>10bs. SecondCentre \in Seq(S)
  BY <1>10b, Zenon
<1>11a. BuildS1 \in Seq(S) /\ Len(BuildS1) = 34
  BY <1>11, Zenon
<1>11as. BuildS1 \in Seq(S)
  BY <1>11a, Zenon
<1>11b. BuildS0 \in Seq(S) /\ Len(BuildS0) = 11
  BY <1>11, Zenon
<1>11bs. BuildS0 \in Seq(S)
  BY <1>11b, Zenon
<1>5a. first \in Seq(S) /\ Len(first) = 1
  BY <1>5, Zenon
<1>5as. first \in Seq(S)
  BY <1>5a, Zenon
<1>5b. second \in Seq(S) /\ Len(second) = 1
  BY <1>5, Zenon
<1>5bs. second \in Seq(S)
  BY <1>5b, Zenon
<1> HIDE DEF b2, b3, b4, b5, b6, b7
<1>12a. b2 = GramBothModuli \o FirstCentre
  BY Zenon DEF b2
<1>12b. b2 \in Seq(S) /\ Len(b2) = 26
  <2>1. b2 \in Seq(S) /\ Len(b2) = Len(GramBothModuli) + Len(FirstCentre)
    BY <1>12a, <1>9as, <1>9bs, JoinLength, Zenon
  <2> QED
    BY <2>1, <1>9a, <1>9b, SMT
<1>12bs. b2 \in Seq(S)
  BY <1>12b, Zenon
<1>12c. ASSUME NEW i \in 1..18 PROVE b2[i] = GramBothModuli[i]
  <2>1. i \in 1..Len(GramBothModuli)
    BY <1>12c, <1>9a, Zenon
  <2> QED
    BY <2>1, <1>12a, <1>9as, <1>9bs, JoinFirst, Zenon
<1>12d. ASSUME NEW i \in 1..8 PROVE b2[18 + i] = FirstCentre[i]
  <2>1. i \in 1..Len(FirstCentre)
    BY <1>12d, <1>9b, Zenon
  <2>2. b2[Len(GramBothModuli) + i] = FirstCentre[i]
    BY <2>1, <1>12a, <1>9as, <1>9bs, JoinSecond, Zenon
  <2> QED
    BY <2>2, <1>9a, Zenon
<1>13a. b3 = b2 \o first
  BY Zenon DEF b3
<1>13b. b3 \in Seq(S) /\ Len(b3) = 27
  <2>1. b3 \in Seq(S) /\ Len(b3) = Len(b2) + Len(first)
    BY <1>13a, <1>12bs, <1>5as, JoinLength, Zenon
  <2> QED
    BY <2>1, <1>12b, <1>5a, SMT
<1>13bs. b3 \in Seq(S)
  BY <1>13b, Zenon
<1>13c. ASSUME NEW i \in 1..26 PROVE b3[i] = b2[i]
  <2>1. i \in 1..Len(b2)
    BY <1>13c, <1>12b, Zenon
  <2> QED
    BY <2>1, <1>13a, <1>12bs, <1>5as, JoinFirst, Zenon
<1>13d. ASSUME NEW i \in 1..1 PROVE b3[26 + i] = first[i]
  <2>1. i \in 1..Len(first)
    BY <1>13d, <1>5a, Zenon
  <2>2. b3[Len(b2) + i] = first[i]
    BY <2>1, <1>13a, <1>12bs, <1>5as, JoinSecond, Zenon
  <2> QED
    BY <2>2, <1>12b, Zenon
<1>14a. b4 = b3 \o RebuildG
  BY Zenon DEF b4
<1>14b. b4 \in Seq(S) /\ Len(b4) = 56
  <2>1. b4 \in Seq(S) /\ Len(b4) = Len(b3) + Len(RebuildG)
    BY <1>14a, <1>13bs, <1>10as, JoinLength, Zenon
  <2> QED
    BY <2>1, <1>13b, <1>10a, SMT
<1>14bs. b4 \in Seq(S)
  BY <1>14b, Zenon
<1>14c. ASSUME NEW i \in 1..27 PROVE b4[i] = b3[i]
  <2>1. i \in 1..Len(b3)
    BY <1>14c, <1>13b, Zenon
  <2> QED
    BY <2>1, <1>14a, <1>13bs, <1>10as, JoinFirst, Zenon
<1>14d. ASSUME NEW i \in 1..29 PROVE b4[27 + i] = RebuildG[i]
  <2>1. i \in 1..Len(RebuildG)
    BY <1>14d, <1>10a, Zenon
  <2>2. b4[Len(b3) + i] = RebuildG[i]
    BY <2>1, <1>14a, <1>13bs, <1>10as, JoinSecond, Zenon
  <2> QED
    BY <2>2, <1>13b, Zenon
<1>15a. b5 = b4 \o SecondCentre
  BY Zenon DEF b5
<1>15b. b5 \in Seq(S) /\ Len(b5) = 76
  <2>1. b5 \in Seq(S) /\ Len(b5) = Len(b4) + Len(SecondCentre)
    BY <1>15a, <1>14bs, <1>10bs, JoinLength, Zenon
  <2> QED
    BY <2>1, <1>14b, <1>10b, SMT
<1>15bs. b5 \in Seq(S)
  BY <1>15b, Zenon
<1>15c. ASSUME NEW i \in 1..56 PROVE b5[i] = b4[i]
  <2>1. i \in 1..Len(b4)
    BY <1>15c, <1>14b, Zenon
  <2> QED
    BY <2>1, <1>15a, <1>14bs, <1>10bs, JoinFirst, Zenon
<1>15d. ASSUME NEW i \in 1..20 PROVE b5[56 + i] = SecondCentre[i]
  <2>1. i \in 1..Len(SecondCentre)
    BY <1>15d, <1>10b, Zenon
  <2>2. b5[Len(b4) + i] = SecondCentre[i]
    BY <2>1, <1>15a, <1>14bs, <1>10bs, JoinSecond, Zenon
  <2> QED
    BY <2>2, <1>14b, Zenon
<1>16a. b6 = b5 \o second
  BY Zenon DEF b6
<1>16b. b6 \in Seq(S) /\ Len(b6) = 77
  <2>1. b6 \in Seq(S) /\ Len(b6) = Len(b5) + Len(second)
    BY <1>16a, <1>15bs, <1>5bs, JoinLength, Zenon
  <2> QED
    BY <2>1, <1>15b, <1>5b, SMT
<1>16bs. b6 \in Seq(S)
  BY <1>16b, Zenon
<1>16c. ASSUME NEW i \in 1..76 PROVE b6[i] = b5[i]
  <2>1. i \in 1..Len(b5)
    BY <1>16c, <1>15b, Zenon
  <2> QED
    BY <2>1, <1>16a, <1>15bs, <1>5bs, JoinFirst, Zenon
<1>16d. ASSUME NEW i \in 1..1 PROVE b6[76 + i] = second[i]
  <2>1. i \in 1..Len(second)
    BY <1>16d, <1>5b, Zenon
  <2>2. b6[Len(b5) + i] = second[i]
    BY <2>1, <1>16a, <1>15bs, <1>5bs, JoinSecond, Zenon
  <2> QED
    BY <2>2, <1>15b, Zenon
<1>17a. b7 = b6 \o BuildS1
  BY Zenon DEF b7
<1>17b. b7 \in Seq(S) /\ Len(b7) = 111
  <2>1. b7 \in Seq(S) /\ Len(b7) = Len(b6) + Len(BuildS1)
    BY <1>17a, <1>16bs, <1>11as, JoinLength, Zenon
  <2> QED
    BY <2>1, <1>16b, <1>11a, SMT
<1>17bs. b7 \in Seq(S)
  BY <1>17b, Zenon
<1>17c. ASSUME NEW i \in 1..77 PROVE b7[i] = b6[i]
  <2>1. i \in 1..Len(b6)
    BY <1>17c, <1>16b, Zenon
  <2> QED
    BY <2>1, <1>17a, <1>16bs, <1>11as, JoinFirst, Zenon
<1>17d. ASSUME NEW i \in 1..34 PROVE b7[77 + i] = BuildS1[i]
  <2>1. i \in 1..Len(BuildS1)
    BY <1>17d, <1>11a, Zenon
  <2>2. b7[Len(b6) + i] = BuildS1[i]
    BY <2>1, <1>17a, <1>16bs, <1>11as, JoinSecond, Zenon
  <2> QED
    BY <2>2, <1>16b, Zenon
<1>18a. Body = b7 \o BuildS0
  BY <1>7, Zenon DEF b2, b3, b4, b5, b6, b7
<1>18b. Body \in Seq(S) /\ Len(Body) = 122
  <2>1. Body \in Seq(S) /\ Len(Body) = Len(b7) + Len(BuildS0)
    BY <1>18a, <1>17bs, <1>11bs, JoinLength, Zenon
  <2> QED
    BY <2>1, <1>17b, <1>11b, SMT
<1>18bs. Body \in Seq(S)
  BY <1>18b, Zenon
<1>18c. ASSUME NEW i \in 1..111 PROVE Body[i] = b7[i]
  <2>1. i \in 1..Len(b7)
    BY <1>18c, <1>17b, Zenon
  <2> QED
    BY <2>1, <1>18a, <1>17bs, <1>11bs, JoinFirst, Zenon
<1>18d. ASSUME NEW i \in 1..11 PROVE Body[111 + i] = BuildS0[i]
  <2>1. i \in 1..Len(BuildS0)
    BY <1>18d, <1>11b, Zenon
  <2>2. Body[Len(b7) + i] = BuildS0[i]
    BY <2>1, <1>18a, <1>17bs, <1>11bs, JoinSecond, Zenon
  <2> QED
    BY <2>2, <1>17b, Zenon
<1>20. ASSUME NEW i \in 1..77 PROVE Body[i] = b6[i]
  <2>1. i \in 1..111
    BY <1>20, SMT
  <2> QED
    BY <1>20, <2>1, <1>18c, <1>17c, Zenon
<1>21. ASSUME NEW i \in 1..34 PROVE Body[77 + i] = BuildS1[i]
  <2>1. 77 + i \in 1..111
    BY <1>21, SMT
  <2> QED
    BY <1>21, <2>1, <1>18c, <1>17d, Zenon
<1>22. ASSUME NEW i \in 1..56 PROVE Body[i] = b4[i]
  <2>1. i \in 1..77 /\ i \in 1..76
    BY <1>22, SMT
  <2> QED
    BY <1>22, <2>1, <1>20, <1>16c, <1>15c, Zenon
<1>23. ASSUME NEW i \in 1..20 PROVE Body[56 + i] = SecondCentre[i]
  <2>1. 56 + i \in 1..77 /\ 56 + i \in 1..76
    BY <1>23, SMT
  <2> QED
    BY <1>23, <2>1, <1>20, <1>16c, <1>15d, Zenon
<1>24. Body[77] = <<"ffsamp", 18>>
  <2>1. 77 \in 1..77 /\ 1 \in 1..1 /\ 76 + 1 = 77
    BY SMT
  <2>2. Body[77] = b6[77] /\ b6[76 + 1] = second[1]
    BY <2>1, <1>20, <1>16d, ZenonT(40)
  <2> QED
    BY <2>1, <2>2, <1>5, Zenon
<1>25. ASSUME NEW i \in 1..27 PROVE Body[i] = b3[i]
  <2>1. i \in 1..56
    BY <1>25, SMT
  <2> QED
    BY <1>25, <2>1, <1>22, <1>14c, Zenon
<1>26. ASSUME NEW i \in 1..29 PROVE Body[27 + i] = RebuildG[i]
  <2>1. 27 + i \in 1..56
    BY <1>26, SMT
  <2> QED
    BY <1>26, <2>1, <1>22, <1>14d, Zenon
<1>27. Body[27] = <<"ffsamp", 16>>
  <2>1. 27 \in 1..27 /\ 1 \in 1..1 /\ 26 + 1 = 27
    BY SMT
  <2>2. Body[27] = b3[27] /\ b3[26 + 1] = first[1]
    BY <2>1, <1>25, <1>13d, Zenon
  <2> QED
    BY <2>1, <2>2, <1>5, Zenon
<1>28. ASSUME NEW i \in 1..26 PROVE Body[i] = b2[i]
  <2>1. i \in 1..27
    BY <1>28, SMT
  <2> QED
    BY <1>28, <2>1, <1>25, <1>13c, Zenon
<1>29. ASSUME NEW i \in 1..18 PROVE Body[i] = GramBothModuli[i]
  <2>1. i \in 1..26
    BY <1>29, SMT
  <2> QED
    BY <1>29, <2>1, <1>28, <1>12c, Zenon
<1>30. ASSUME NEW i \in 1..8 PROVE Body[18 + i] = FirstCentre[i]
  <2>1. 18 + i \in 1..26
    BY <1>30, SMT
  <2> QED
    BY <1>30, <2>1, <1>28, <1>12d, Zenon
<1>31. Len(Body) = 122
  BY <1>18b, Zenon
<1> QED
  BY <1>18d, <1>21, <1>23, <1>24, <1>26, <1>27, <1>29, <1>30, <1>31, Zenon


-----------------------------------------------------------------------------
(* The values that the rows of the area name.                                *)

LEMMA ShortWithin ==
  ASSUME NEW x \in Poly, \A i \in Coef : -127 <= x[i] /\ x[i] <= 127
  PROVE  Within(q, x) /\ Within(q2, x)
<1>1. ASSUME NEW i \in Coef PROVE -q < x[i] /\ x[i] <= q /\ -q2 < x[i] /\ x[i] <= q2
  <2>1. x[i] \in Int /\ -127 <= x[i] /\ x[i] <= 127
    BY Zenon DEF Poly
  <2> QED
    BY <2>1, Moduli, SMT
<1> QED
  BY <1>1, Zenon DEF Within

\* Half of the products of two short coefficients.
LEMMA ShortProduct ==
  ASSUME NEW a \in -127..127, NEW b \in -127..127
  PROVE  a * b \in Int /\ -16129 <= a * b /\ a * b <= 16129
<1>1. /\ (127 - a) * (127 - b) >= 0 /\ (127 + a) * (127 + b) >= 0
      /\ (127 - a) * (127 + b) >= 0 /\ (127 + a) * (127 - b) >= 0
  BY SMT
<1>2. a * b \in Int
  BY SMT
<1>3. /\ (127 - a) * (127 - b) = 16129 - 127 * a - 127 * b + a * b
      /\ (127 + a) * (127 + b) = 16129 + 127 * a + 127 * b + a * b
      /\ (127 - a) * (127 + b) = 16129 - 127 * a + 127 * b - a * b
      /\ (127 + a) * (127 - b) = 16129 + 127 * a - 127 * b - a * b
  BY SMT
<1> DEFINE p == a * b
<1> HIDE DEF p
<1> QED
  BY <1>1, <1>2, <1>3, SMT DEF p

\* |F*adj(f)| is at most 2*127^2 and |F*adj(f) + G*adj(g)| at most 4*127^2.
HalfRange(x) == \A i \in Coef : -32258 <= x[i] /\ x[i] <= 32258
CrossRange(x) == \A i \in Coef : -64516 <= x[i] /\ x[i] <= 64516

LEMMA CrossShort ==
  ASSUME NEW k \in Keys
  PROVE  CrossOf(k) \in Poly /\ CrossRange(CrossOf(k))
<1> DEFINE x == Times(k.F, Adj(k.f))
           y == Times(BigG(k), Adj(k.g))
<1>1. ASSUME NEW a \in Poly, NEW b \in Poly,
             \A i \in Coef : -127 <= a[i] /\ a[i] <= 127, \A i \in Coef : -127 <= b[i] /\ b[i] <= 127
      PROVE  /\ Times(a, Adj(b)) \in Poly
             /\ HalfRange(Times(a, Adj(b)))
  <2> DEFINE a0 == a[0]
             a1 == a[1]
             b0 == b[0]
             b1 == b[1]
             t == Times(a, Adj(b))
  <2>1. a0 \in -127..127 /\ a1 \in -127..127 /\ b0 \in -127..127 /\ b1 \in -127..127
    BY <1>1, SMT DEF Poly, Coef
  <2>2. Adj(b) \in Poly /\ Adj(b)[0] = b0 /\ Adj(b)[1] = -b1
    BY <1>1, RingOps, Zenon
  <2>3. t \in Poly /\ t[0] = a[0] * Adj(b)[0] - a[1] * Adj(b)[1] /\ t[1] = a[0] * Adj(b)[1] + a[1] * Adj(b)[0]
    BY <1>1, <2>2, RingOps, Zenon
  <2>4. t[0] = a0 * b0 - a1 * (-b1) /\ t[1] = a0 * (-b1) + a1 * b0
    BY <2>2, <2>3, Zenon
  <2> HIDE DEF a0, a1, b0, b1, t
  <2>5. -b1 \in -127..127
    BY <2>1, SMT
  <2> DEFINE c1 == -b1
             p == a0 * b0
             r == a1 * c1
             s == a0 * c1
             u == a1 * b0
  <2> HIDE DEF c1
  <2>a. c1 \in -127..127
    BY <2>5, Zenon DEF c1
  <2>6. /\ p \in Int /\ -16129 <= p /\ p <= 16129 /\ r \in Int /\ -16129 <= r /\ r <= 16129
        /\ s \in Int /\ -16129 <= s /\ s <= 16129 /\ u \in Int /\ -16129 <= u /\ u <= 16129
    <3>1. p \in Int /\ -16129 <= p /\ p <= 16129
      BY <2>1, ShortProduct, SMT
    <3>2. r \in Int /\ -16129 <= r /\ r <= 16129
      BY <2>1, <2>a, ShortProduct, SMT
    <3>3. s \in Int /\ -16129 <= s /\ s <= 16129
      BY <2>1, <2>a, ShortProduct, SMT
    <3>4. u \in Int /\ -16129 <= u /\ u <= 16129
      BY <2>1, ShortProduct, SMT
    <3> HIDE DEF p, r, s, u
    <3> QED
      BY <3>1, <3>2, <3>3, <3>4, SMT
  <2>7. t[0] = p - r /\ t[1] = s + u
    BY <2>4, Zenon DEF c1
  <2> HIDE DEF p, r, s, u
  <2>8. HalfRange(t)
    BY <2>6, <2>7, SMT DEF Coef, HalfRange
  <2> QED
    BY <2>3, <2>8, Zenon DEF t
<1>2. x \in Poly /\ HalfRange(x) /\ y \in Poly /\ HalfRange(y)
  BY <1>1, KeyPolys, ZenonT(40)
<1>3. CrossOf(k) = Plus(x, y)
  BY Zenon DEF CrossOf
<1> HIDE DEF x, y
<1>4. Plus(x, y) \in Poly /\ CrossRange(Plus(x, y))
  BY <1>2, SMT DEF Poly, HalfRange, CrossRange, Plus, Coef
<1> QED
  BY <1>3, <1>4, Zenon

LEMMA KeyValues ==
  ASSUME NEW k \in Keys
  PROVE  /\ k.f \in Poly /\ k.g \in Poly /\ k.F \in Poly /\ BigG(k) \in Poly /\ FInv(k) \in Poly
         /\ Within(q, k.f) /\ Within(q, k.g) /\ Within(q, k.F)
         /\ Within(q2, k.f) /\ Within(q2, k.g) /\ Within(q2, k.F) /\ Within(q2, BigG(k))
         /\ GramOf(k) \in Poly /\ CrossOf(k) \in Poly /\ CrtRange(CrossOf(k)) /\ H(k) \in Poly
         /\ Times(k.g, k.F) \in Poly /\ Times(Times(k.g, k.F), FInv(k)) \in Poly
         /\ Times(BigG(k), Adj(k.g)) \in Poly /\ Times(k.F, Adj(k.f)) \in Poly
         /\ Minus(Const(0), k.F) \in Poly
<1>1. /\ k.f \in Poly /\ k.g \in Poly /\ k.F \in Poly /\ BigG(k) \in Poly
      /\ \A i \in Coef : -127 <= k.f[i] /\ k.f[i] <= 127
      /\ \A i \in Coef : -127 <= k.g[i] /\ k.g[i] <= 127
      /\ \A i \in Coef : -127 <= k.F[i] /\ k.F[i] <= 127
      /\ \A i \in Coef : -127 <= BigG(k)[i] /\ BigG(k)[i] <= 127
  BY KeyPolys, ZenonT(40)
<1>2. FInv(k) \in Poly
  BY InverseOfF, Zenon
<1>3. Adj(k.f) \in Poly /\ Adj(k.g) \in Poly /\ Const(0) \in Poly
  <2>1. 0 \in Int
    OBVIOUS
  <2> QED
    BY <1>1, <2>1, RingOps, ConstPoly, Zenon
<1>4. GramOf(k) \in Poly
  <2> DEFINE s == mqpoly_sqnorm_small(k.f)
             t == mqpoly_sqnorm_small(k.g)
  <2>1. k.f[0] \in Int /\ k.f[1] \in Int /\ k.g[0] \in Int /\ k.g[1] \in Int
    BY <1>1, RingOps, Zenon
  <2>2. s \in Int /\ t \in Int
    BY <2>1, SMT DEF mqpoly_sqnorm_small
  <2> HIDE DEF s, t
  <2>3. s + t \in Int
    BY <2>2, SMT
  <2> QED
    BY <2>3, ConstPoly, Zenon DEF GramOf, s, t
<1>5. CrossOf(k) \in Poly /\ CrtRange(CrossOf(k))
  <2>1. CrossOf(k) \in Poly /\ CrossRange(CrossOf(k))
    BY CrossShort, Zenon
  <2> QED
    BY <2>1, SMT DEF CrossRange, CrtRange, Poly
<1>6. H(k) \in Poly
  BY <1>1, <1>2, RingOps, Zenon DEF H
<1>7. Times(k.g, k.F) \in Poly
  BY <1>1, RingOps, Zenon
<1>8. /\ Times(Times(k.g, k.F), FInv(k)) \in Poly
      /\ Times(BigG(k), Adj(k.g)) \in Poly /\ Times(k.F, Adj(k.f)) \in Poly
      /\ Minus(Const(0), k.F) \in Poly
  BY <1>1, <1>2, <1>3, <1>7, RingOps, Zenon
<1> QED
  BY <1>1, <1>2, <1>4, <1>5, <1>6, <1>7, <1>8, ShortWithin, Zenon

\* The same value under another name.
LEMMA KeyNames ==
  ASSUME NEW k \in Keys
  PROVE  /\ Const(mqpoly_sqnorm_small(k.f) + mqpoly_sqnorm_small(k.g)) = GramOf(k)
         /\ Const(mqpoly_sqnorm_small(k.g) + mqpoly_sqnorm_small(k.f)) = GramOf(k)
         /\ Plus(Times(BigG(k), Adj(k.g)), Times(k.F, Adj(k.f))) = CrossOf(k)
         /\ Plus(Times(k.F, Adj(k.f)), Times(BigG(k), Adj(k.g))) = CrossOf(k)
         /\ Centred(BigG(k), q) = BigG(k)
<1>1. Const(mqpoly_sqnorm_small(k.g) + mqpoly_sqnorm_small(k.f)) = GramOf(k)
  <2> DEFINE s == mqpoly_sqnorm_small(k.f)
             t == mqpoly_sqnorm_small(k.g)
  <2>0. k.f \in Poly /\ k.g \in Poly
    BY KeyPolys, Zenon
  <2>1. k.f[0] \in Int /\ k.f[1] \in Int /\ k.g[0] \in Int /\ k.g[1] \in Int
    BY <2>0, RingOps, Zenon
  <2>2. s \in Int /\ t \in Int
    BY <2>1, SMT DEF mqpoly_sqnorm_small
  <2> HIDE DEF s, t
  <2>3. s + t = t + s
    BY <2>2, SMT
  <2> QED
    BY <2>3, Zenon DEF GramOf, s, t
<1>2. Plus(Times(BigG(k), Adj(k.g)), Times(k.F, Adj(k.f))) = CrossOf(k)
  <2> DEFINE x == Times(k.F, Adj(k.f))
             y == Times(BigG(k), Adj(k.g))
  <2>1. x \in Poly /\ y \in Poly
    BY KeyValues, Zenon
  <2> HIDE DEF x, y
  <2>2. Plus(x, y) = Plus(y, x)
    BY <2>1, SMT DEF Plus, Poly, Coef
  <2> QED
    BY <2>2, Zenon DEF CrossOf, x, y
<1>3. Centred(BigG(k), q) = BigG(k)
  <2>1. BigG(k) \in Poly /\ \A i \in Coef : -127 <= BigG(k)[i] /\ BigG(k)[i] <= 127
    BY KeyPolys, Zenon
  <2>2. Equiv(q, BigG(k), BigG(k))
    BY <2>1, ModInt, EquivSame, Zenon
  <2>3. \A i \in Coef : -q < 2 * BigG(k)[i] /\ 2 * BigG(k)[i] < q
    BY <2>1, Moduli, SMT DEF Poly
  <2>4. q \in {q, q2}
    OBVIOUS
  <2> QED
    BY <2>1, <2>2, <2>3, <2>4, CentredUnique, Zenon
<1> QED
  BY <1>1, <1>2, <1>3, Zenon DEF GramOf, CrossOf

\* Congruent polynomials have the same values modulo q.
LEMMA CarriesEquiv ==
  ASSUME NEW m, NEW at, NEW x \in Poly, NEW y \in Poly, Carries(m, at, "ntt", x), Equiv(q, x, y)
  PROVE  Carries(m, at, "ntt", y)
<1>1. Has(m, at, "ntt") /\ Roots(q, wMQ, m[at].val, x)
  BY MeansIs, Zenon DEF Carries
<1>2. Roots(q, wMQ, m[at].val, y)
  BY <1>1, IntsMQ, ModInt, EquivRoots, Zenon
<1> QED
  BY <1>1, <1>2, MeansIs, Zenon DEF Carries

LEMMA HashValues ==
  ASSUME NEW k \in Keys, NEW c \in [Coef -> 0..(q - 1)]
  PROVE  /\ c \in Poly /\ Times(c, k.f) \in Poly /\ Times(c, k.F) \in Poly
         /\ Times(k.F, c) = Times(c, k.F)
         /\ Times(Minus(Const(0), k.F), c) \in Poly
         /\ cfMod(k, c) \in Poly /\ cFMod(k, c) \in Poly /\ NegcF(k, c) \in Poly
         /\ Within(q2, cfMod(k, c)) /\ Within(q2, cFMod(k, c))
         /\ Scaled(3, cfMod(k, c)) \in Poly /\ Scaled(3, cFMod(k, c)) \in Poly
<1>1. k.f \in Poly /\ k.F \in Poly /\ Minus(Const(0), k.F) \in Poly
  BY KeyValues, Zenon
<1>2. c \in Poly
  BY ExtValue, Zenon
<1>3. /\ Times(c, k.f) \in Poly /\ Times(c, k.F) \in Poly /\ Times(k.F, c) = Times(c, k.F)
      /\ Times(Minus(Const(0), k.F), c) \in Poly
  BY <1>1, <1>2, RingOps, TimesComm, Zenon
<1>4. ASSUME NEW x \in Poly
      PROVE  Centred(x, q) \in Poly /\ Within(q2, Centred(x, q)) /\ Scaled(3, Centred(x, q)) \in Poly
  <2> DEFINE y == Centred(x, q)
  <2>1. q \in {q, q2}
    OBVIOUS
  <2>2. y \in Poly /\ \A i \in Coef : -q < 2 * y[i] /\ 2 * y[i] < q
    BY <1>4, <2>1, CentredIs, Zenon
  <2> HIDE DEF y
  <2>3. Within(q2, y) /\ Scaled(3, y) \in Poly
    BY <2>2, Moduli, SMT DEF Within, Scaled, Poly
  <2> QED
    BY <2>2, <2>3, Zenon DEF y
<1>5. /\ cfMod(k, c) \in Poly /\ Within(q2, cfMod(k, c)) /\ Scaled(3, cfMod(k, c)) \in Poly
      /\ cFMod(k, c) \in Poly /\ Within(q2, cFMod(k, c)) /\ Scaled(3, cFMod(k, c)) \in Poly
  BY <1>3, <1>4, Zenon DEF cfMod, cFMod
<1>6. NegcF(k, c) \in Poly
  BY <1>3, <1>4, Zenon DEF NegcF
<1> QED
  BY <1>2, <1>3, <1>5, <1>6, Zenon

LEMMA S1Values ==
  ASSUME NEW k \in Keys, NEW c \in [Coef -> 0..(q - 1)], NEW z1 \in Poly, NEW z0 \in Poly
  PROVE  /\ Z0(k, c, z0) \in Poly /\ Z1(k, c, z1) \in Poly
         /\ Times(Z0(k, c, z0), k.f) \in Poly /\ Times(Z1(k, c, z1), k.F) \in Poly
         /\ SumS1(k, c, z1, z0) \in Poly /\ S1(k, c, z1, z0) \in Poly /\ Within(q, S1(k, c, z1, z0))
         /\ Times(S1(k, c, z1, z0), H(k)) \in Poly
         /\ Minus(c, Times(S1(k, c, z1, z0), H(k))) \in Poly
<1>1. /\ k.f \in Poly /\ k.F \in Poly /\ H(k) \in Poly /\ c \in Poly
      /\ Scaled(3, cfMod(k, c)) \in Poly /\ Scaled(3, cFMod(k, c)) \in Poly
  BY KeyValues, HashValues, Zenon
<1>2. Z0(k, c, z0) \in Poly /\ Z1(k, c, z1) \in Poly
  BY <1>1, RingOps, Zenon DEF Z0, Z1
<1>3. Times(Z0(k, c, z0), k.f) \in Poly /\ Times(Z1(k, c, z1), k.F) \in Poly
  BY <1>1, <1>2, RingOps, Zenon
<1>4. SumS1(k, c, z1, z0) \in Poly
  BY <1>3, RingOps, Zenon DEF SumS1
<1>5. S1(k, c, z1, z0) \in Poly /\ Within(q, S1(k, c, z1, z0))
  <2> DEFINE y == Centred(SumS1(k, c, z1, z0), q2)
  <2>1. q2 \in {q, q2}
    OBVIOUS
  <2>2. y \in Poly /\ \A i \in Coef : -q2 < 2 * y[i] /\ 2 * y[i] < q2
    BY <1>4, <2>1, CentredIs, Zenon
  <2> HIDE DEF y
  <2>3. Within(q, y)
    BY <2>2, Moduli, SMT DEF Within, Poly
  <2> QED
    BY <2>2, <2>3, Zenon DEF y, S1
<1>6. Times(S1(k, c, z1, z0), H(k)) \in Poly
  BY <1>1, <1>5, RingOps, Zenon
<1> QED
  BY <1>1, <1>2, <1>3, <1>4, <1>5, <1>6, RingOps, Zenon

\* A polynomial at this unit lies outside of these units, and stays when only those change.
Apart(at, rep, units) ==
    /\ at \in Nat /\ rep \in DOMAIN Size /\ at + Size[rep] <= 20
    /\ \A u \in at..(at + Size[rep] - 1) : u \notin units

LEMMA Kept ==
  ASSUME NEW m, NEW n, NEW units, Changes(m, n, units), NEW at, NEW rep, Apart(at, rep, units),
         NEW x, Carries(m, at, rep, x)
  PROVE  Carries(n, at, rep, x)
  BY Frame, Zenon DEF Apart

-----------------------------------------------------------------------------
(* Every statement of the loop body takes the area from one line to the next: *)
(* it reads what the rows say it reads, writes what they say it writes, and   *)
(* leaves the rest of what is still needed alone.                            *)

LEMMA GramLines ==
  ASSUME NEW k \in Keys, k = key, NEW c \in [Coef -> 0..(q - 1)], c = Hash[sig.nonce],
         NEW z1, NEW z0, NEW m,
         NEW j \in 1..18, j # 5, j # 18, Area(m, j, k, c, z1, z0)
  PROVE  Area(Apply(m, GramBothModuli[j]), j + 1, k, c, z1, z0)
<1>a. /\ k.f \in Poly /\ Within(q2, k.f) /\ k.g \in Poly /\ Within(q2, k.g)
      /\ GramOf(k) \in Poly /\ Within(q, k.f) /\ Within(q, k.g)
  BY KeyValues, HashValues, Zenon
<1>1. CASE j = 1
  <2> DEFINE n == Apply(m, GramBothModuli[1])
  <2>1. GramBothModuli[1] = <<"decode f", 4>>
    BY Zenon DEF GramBothModuli
  <2>3. 4 \in 0..19
    BY SMT
  <2>4. Carries(n, 4, "small", k.f) /\ Changes(m, n, 4..4)
    BY <1>a, <2>1, <2>3, DoDecode, Zenon
  <2> HIDE DEF n
  <2>5. Area(n, 2, k, c, z1, z0)
    BY <2>4, SMT DEF Area, Row
  <2> QED
    BY <1>1, <2>5 DEF n
<1>2. CASE j = 2
  <2> DEFINE n == Apply(m, GramBothModuli[2])
  <2>1. GramBothModuli[2] = <<"small_to_mod2", 4, 0>>
    BY Zenon DEF GramBothModuli
  <2>2. Carries(m, 4, "small", k.f)
    BY <1>2, SMT DEF Area, Row
  <2>3. /\ 4 \in 0..18 /\ 0 \in 0..18
    BY SMT
  <2>4. Apart(4, "small", 0..(0 + 1))
    BY SizeIs, SMT DEF Apart
  <2>5. Carries(n, 0, "mod2", k.f) /\ Changes(m, n, 0..(0 + 1))
    BY <1>a, <2>1, <2>2, <2>3, DoSmallToMod2, Zenon
  <2> HIDE DEF n
  <2>6. Area(n, 3, k, c, z1, z0)
    BY <2>2, <2>4, <2>5, Kept, SMT DEF Area, Row
  <2> QED
    BY <1>2, <2>6 DEF n
<1>3. CASE j = 3
  <2> DEFINE n == Apply(m, GramBothModuli[3])
  <2>1. GramBothModuli[3] = <<"NTT2", 0>>
    BY Zenon DEF GramBothModuli
  <2>2. /\ Carries(m, 0, "mod2", k.f) /\ Carries(m, 4, "small", k.f)
    BY <1>3, SMT DEF Area, Row
  <2>3. 0 \in 0..18
    BY SMT
  <2>4. Apart(4, "small", 0..(0 + 1))
    BY SizeIs, SMT DEF Apart
  <2>5. Carries(n, 0, "ntt2", k.f) /\ Changes(m, n, 0..(0 + 1))
    BY <1>a, <2>1, <2>2, <2>3, DoNTT2, Zenon
  <2> HIDE DEF n
  <2>6. Area(n, 4, k, c, z1, z0)
    BY <2>2, <2>4, <2>5, Kept, SMT DEF Area, Row
  <2> QED
    BY <1>3, <2>6 DEF n
<1>4. CASE j = 4
  <2> DEFINE n == Apply(m, GramBothModuli[4])
  <2>1. GramBothModuli[4] = <<"decode g", 5>>
    BY Zenon DEF GramBothModuli
  <2>2. /\ Carries(m, 4, "small", k.f) /\ Carries(m, 0, "ntt2", k.f)
    BY <1>4, SMT DEF Area, Row
  <2>3. 5 \in 0..19
    BY SMT
  <2>4. /\ Apart(4, "small", 5..5) /\ Apart(0, "ntt2", 5..5)
    BY SizeIs, SMT DEF Apart
  <2>5. Carries(n, 5, "small", k.g) /\ Changes(m, n, 5..5)
    BY <1>a, <2>1, <2>3, DoDecode, Zenon
  <2> HIDE DEF n
  <2>6. Area(n, 5, k, c, z1, z0)
    BY <2>2, <2>4, <2>5, Kept, SMT DEF Area, Row
  <2> QED
    BY <1>4, <2>6 DEF n
<1>6. CASE j = 6
  <2> DEFINE n == Apply(m, GramBothModuli[6])
  <2>1. GramBothModuli[6] = <<"small_to_mod2", 5, 2>>
    BY Zenon DEF GramBothModuli
  <2>2. /\ Carries(m, 5, "small", k.g) /\ Carries(m, 4, "small", k.f)
        /\ Carries(m, 0, "ntt2", k.f)
    BY <1>6, SMT DEF Area, Row
  <2>3. /\ 5 \in 0..18 /\ 2 \in 0..18
    BY SMT
  <2>4. /\ Apart(4, "small", 2..(2 + 1)) /\ Apart(0, "ntt2", 2..(2 + 1))
        /\ Apart(5, "small", 2..(2 + 1))
    BY SizeIs, SMT DEF Apart
  <2>5. Carries(n, 2, "mod2", k.g) /\ Changes(m, n, 2..(2 + 1))
    BY <1>a, <2>1, <2>2, <2>3, DoSmallToMod2, Zenon
  <2> HIDE DEF n
  <2>6. Area(n, 7, k, c, z1, z0)
    BY <2>2, <2>4, <2>5, Kept, SMT DEF Area, Row
  <2> QED
    BY <1>6, <2>6 DEF n
<1>7. CASE j = 7
  <2> DEFINE n == Apply(m, GramBothModuli[7])
  <2>1. GramBothModuli[7] = <<"NTT2", 2>>
    BY Zenon DEF GramBothModuli
  <2>2. /\ Carries(m, 2, "mod2", k.g) /\ Carries(m, 4, "small", k.f)
        /\ Carries(m, 0, "ntt2", k.f) /\ Carries(m, 5, "small", k.g)
    BY <1>7, SMT DEF Area, Row
  <2>3. 2 \in 0..18
    BY SMT
  <2>4. /\ Apart(4, "small", 2..(2 + 1)) /\ Apart(0, "ntt2", 2..(2 + 1))
        /\ Apart(5, "small", 2..(2 + 1))
    BY SizeIs, SMT DEF Apart
  <2>5. Carries(n, 2, "ntt2", k.g) /\ Changes(m, n, 2..(2 + 1))
    BY <1>a, <2>1, <2>2, <2>3, DoNTT2, Zenon
  <2> HIDE DEF n
  <2>6. Area(n, 8, k, c, z1, z0)
    BY <2>2, <2>4, <2>5, Kept, SMT DEF Area, Row
  <2> QED
    BY <1>7, <2>6 DEF n
<1>8. CASE j = 8
  <2> DEFINE n == Apply(m, GramBothModuli[8])
  <2>1. GramBothModuli[8] = <<"muladj_x2_ntt2", 0, 2>>
    BY Zenon DEF GramBothModuli
  <2>2. /\ Carries(m, 0, "ntt2", k.f) /\ Carries(m, 2, "ntt2", k.g)
        /\ Carries(m, 4, "small", k.f) /\ Carries(m, 5, "small", k.g)
    BY <1>8, SMT DEF Area, Row
  <2>3. /\ 0 \in 0..18 /\ 2 \in 0..18
    BY SMT
  <2>4. /\ Apart(4, "small", 0..(0 + 1)) /\ Apart(5, "small", 0..(0 + 1))
    BY SizeIs, SMT DEF Apart
  <2>5. Carries(n, 0, "ntt2", Const(mqpoly_sqnorm_small(k.f) + mqpoly_sqnorm_small(k.g))) /\ Changes(m, n, 0..(0 + 1))
    BY <1>a, <2>1, <2>2, <2>3, DoMuladjX2Ntt2, Zenon
  <2>6. Carries(n, 0, "ntt2", GramOf(k))
    BY <2>5, KeyNames, Zenon
  <2> HIDE DEF n
  <2>7. Area(n, 9, k, c, z1, z0)
    BY <2>2, <2>4, <2>5, <2>6, Kept, SMT DEF Area, Row
  <2> QED
    BY <1>8, <2>7 DEF n
<1>9. CASE j = 9
  <2> DEFINE n == Apply(m, GramBothModuli[9])
  <2>1. GramBothModuli[9] = <<"iNTT2", 0>>
    BY Zenon DEF GramBothModuli
  <2>2. /\ Carries(m, 0, "ntt2", GramOf(k)) /\ Carries(m, 4, "small", k.f)
        /\ Carries(m, 5, "small", k.g)
    BY <1>9, SMT DEF Area, Row
  <2>3. 0 \in 0..18
    BY SMT
  <2>4. /\ Apart(4, "small", 0..(0 + 1)) /\ Apart(5, "small", 0..(0 + 1))
    BY SizeIs, SMT DEF Apart
  <2>5. Carries(n, 0, "mod2", GramOf(k)) /\ Changes(m, n, 0..(0 + 1))
    BY <1>a, <2>1, <2>2, <2>3, DoiNTT2, Zenon
  <2> HIDE DEF n
  <2>6. Area(n, 10, k, c, z1, z0)
    BY <2>2, <2>4, <2>5, Kept, SMT DEF Area, Row
  <2> QED
    BY <1>9, <2>6 DEF n
<1>10. CASE j = 10
  <2> DEFINE n == Apply(m, GramBothModuli[10])
  <2>1. GramBothModuli[10] = <<"mod2_to_signed", 0>>
    BY Zenon DEF GramBothModuli
  <2>2. /\ Carries(m, 0, "mod2", GramOf(k)) /\ Carries(m, 4, "small", k.f)
        /\ Carries(m, 5, "small", k.g)
    BY <1>10, SMT DEF Area, Row
  <2>3. 0 \in 0..18
    BY SMT
  <2>4. /\ Apart(4, "small", 0..(0 + 1)) /\ Apart(5, "small", 0..(0 + 1))
    BY SizeIs, SMT DEF Apart
  <2>5. Carries(n, 0, "i16", Centred(GramOf(k), q2)) /\ Changes(m, n, 0..(0 + 1))
    BY <1>a, <2>1, <2>2, <2>3, DoMod2ToSigned, Zenon
  <2> HIDE DEF n
  <2>6. Area(n, 11, k, c, z1, z0)
    BY <2>2, <2>4, <2>5, Kept, SMT DEF Area, Row
  <2> QED
    BY <1>10, <2>6 DEF n
<1>11. CASE j = 11
  <2> DEFINE n == Apply(m, GramBothModuli[11])
  <2>1. GramBothModuli[11] = <<"small_to_int", 4, 18>>
    BY Zenon DEF GramBothModuli
  <2>2. /\ Carries(m, 4, "small", k.f) /\ Carries(m, 5, "small", k.g)
        /\ Carries(m, 0, "i16", Centred(GramOf(k), q2))
    BY <1>11, SMT DEF Area, Row
  <2>3. /\ 4 \in 0..18 /\ 18 \in 0..18
    BY SMT
  <2>4. /\ Apart(5, "small", 18..(18 + 1)) /\ Apart(0, "i16", 18..(18 + 1))
    BY SizeIs, SMT DEF Apart
  <2>5. Carries(n, 18, "int", k.f) /\ Changes(m, n, 18..(18 + 1))
    BY <1>a, <2>1, <2>2, <2>3, DoSmallToInt, Zenon
  <2> HIDE DEF n
  <2>6. Area(n, 12, k, c, z1, z0)
    BY <2>2, <2>4, <2>5, Kept, SMT DEF Area, Row
  <2> QED
    BY <1>11, <2>6 DEF n
<1>12. CASE j = 12
  <2> DEFINE n == Apply(m, GramBothModuli[12])
  <2>1. GramBothModuli[12] = <<"int_to_ntt", 18>>
    BY Zenon DEF GramBothModuli
  <2>2. /\ Carries(m, 18, "int", k.f) /\ Carries(m, 5, "small", k.g)
        /\ Carries(m, 0, "i16", Centred(GramOf(k), q2))
    BY <1>12, SMT DEF Area, Row
  <2>3. 18 \in 0..18
    BY SMT
  <2>4. /\ Apart(5, "small", 18..(18 + 1)) /\ Apart(0, "i16", 18..(18 + 1))
    BY SizeIs, SMT DEF Apart
  <2>5. Carries(n, 18, "ntt", k.f) /\ Changes(m, n, 18..(18 + 1))
    BY <1>a, <2>1, <2>2, <2>3, DoIntToNtt, Zenon
  <2> HIDE DEF n
  <2>6. Area(n, 13, k, c, z1, z0)
    BY <2>2, <2>4, <2>5, Kept, SMT DEF Area, Row
  <2> QED
    BY <1>12, <2>6 DEF n
<1>13. CASE j = 13
  <2> DEFINE n == Apply(m, GramBothModuli[13])
  <2>1. GramBothModuli[13] = <<"small_to_int", 5, 2>>
    BY Zenon DEF GramBothModuli
  <2>2. /\ Carries(m, 5, "small", k.g) /\ Carries(m, 0, "i16", Centred(GramOf(k), q2))
        /\ Carries(m, 18, "ntt", k.f)
    BY <1>13, SMT DEF Area, Row
  <2>3. /\ 5 \in 0..18 /\ 2 \in 0..18
    BY SMT
  <2>4. /\ Apart(0, "i16", 2..(2 + 1)) /\ Apart(18, "ntt", 2..(2 + 1))
    BY SizeIs, SMT DEF Apart
  <2>5. Carries(n, 2, "int", k.g) /\ Changes(m, n, 2..(2 + 1))
    BY <1>a, <2>1, <2>2, <2>3, DoSmallToInt, Zenon
  <2> HIDE DEF n
  <2>6. Area(n, 14, k, c, z1, z0)
    BY <2>2, <2>4, <2>5, Kept, SMT DEF Area, Row
  <2> QED
    BY <1>13, <2>6 DEF n
<1>14. CASE j = 14
  <2> DEFINE n == Apply(m, GramBothModuli[14])
  <2>1. GramBothModuli[14] = <<"int_to_ntt", 2>>
    BY Zenon DEF GramBothModuli
  <2>2. /\ Carries(m, 2, "int", k.g) /\ Carries(m, 0, "i16", Centred(GramOf(k), q2))
        /\ Carries(m, 18, "ntt", k.f)
    BY <1>14, SMT DEF Area, Row
  <2>3. 2 \in 0..18
    BY SMT
  <2>4. /\ Apart(0, "i16", 2..(2 + 1)) /\ Apart(18, "ntt", 2..(2 + 1))
    BY SizeIs, SMT DEF Apart
  <2>5. Carries(n, 2, "ntt", k.g) /\ Changes(m, n, 2..(2 + 1))
    BY <1>a, <2>1, <2>2, <2>3, DoIntToNtt, Zenon
  <2> HIDE DEF n
  <2>6. Area(n, 15, k, c, z1, z0)
    BY <2>2, <2>4, <2>5, Kept, SMT DEF Area, Row
  <2> QED
    BY <1>14, <2>6 DEF n
<1>15. CASE j = 15
  <2> DEFINE n == Apply(m, GramBothModuli[15])
  <2>1. GramBothModuli[15] = <<"muladj_x2_ntt", 2, 18>>
    BY Zenon DEF GramBothModuli
  <2>2. /\ Carries(m, 2, "ntt", k.g) /\ Carries(m, 18, "ntt", k.f)
        /\ Carries(m, 0, "i16", Centred(GramOf(k), q2))
    BY <1>15, SMT DEF Area, Row
  <2>3. /\ 2 \in 0..18 /\ 18 \in 0..18
    BY SMT
  <2>4. /\ Apart(0, "i16", 2..(2 + 1)) /\ Apart(18, "ntt", 2..(2 + 1))
    BY SizeIs, SMT DEF Apart
  <2>5. Carries(n, 2, "ntt", Const(mqpoly_sqnorm_small(k.g) + mqpoly_sqnorm_small(k.f))) /\ Changes(m, n, 2..(2 + 1))
    BY <1>a, <2>1, <2>2, <2>3, DoMuladjX2, Zenon
  <2>6. Carries(n, 2, "ntt", GramOf(k))
    BY <2>5, KeyNames, Zenon
  <2> HIDE DEF n
  <2>7. Area(n, 16, k, c, z1, z0)
    BY <2>2, <2>4, <2>5, <2>6, Kept, SMT DEF Area, Row
  <2> QED
    BY <1>15, <2>7 DEF n
<1>16. CASE j = 16
  <2> DEFINE n == Apply(m, GramBothModuli[16])
  <2>1. GramBothModuli[16] = <<"ntt_to_int", 2>>
    BY Zenon DEF GramBothModuli
  <2>2. /\ Carries(m, 2, "ntt", GramOf(k)) /\ Carries(m, 0, "i16", Centred(GramOf(k), q2))
        /\ Carries(m, 18, "ntt", k.f)
    BY <1>16, SMT DEF Area, Row
  <2>3. 2 \in 0..18
    BY SMT
  <2>4. /\ Apart(0, "i16", 2..(2 + 1)) /\ Apart(18, "ntt", 2..(2 + 1))
    BY SizeIs, SMT DEF Apart
  <2>5. Carries(n, 2, "int", GramOf(k)) /\ Changes(m, n, 2..(2 + 1))
    BY <1>a, <2>1, <2>2, <2>3, DoNttToInt, Zenon
  <2> HIDE DEF n
  <2>6. Area(n, 17, k, c, z1, z0)
    BY <2>2, <2>4, <2>5, Kept, SMT DEF Area, Row
  <2> QED
    BY <1>16, <2>6 DEF n
<1>17. CASE j = 17
  <2> DEFINE n == Apply(m, GramBothModuli[17])
  <2>1. GramBothModuli[17] = <<"int_to_signed", 2>>
    BY Zenon DEF GramBothModuli
  <2>2. /\ Carries(m, 2, "int", GramOf(k)) /\ Carries(m, 0, "i16", Centred(GramOf(k), q2))
        /\ Carries(m, 18, "ntt", k.f)
    BY <1>17, SMT DEF Area, Row
  <2>3. 2 \in 0..18
    BY SMT
  <2>4. /\ Apart(0, "i16", 2..(2 + 1)) /\ Apart(18, "ntt", 2..(2 + 1))
    BY SizeIs, SMT DEF Apart
  <2>5. Carries(n, 2, "i16", Centred(GramOf(k), q)) /\ Changes(m, n, 2..(2 + 1))
    BY <1>a, <2>1, <2>2, <2>3, DoIntToSigned, Zenon
  <2> HIDE DEF n
  <2>6. Area(n, 18, k, c, z1, z0)
    BY <2>2, <2>4, <2>5, Kept, SMT DEF Area, Row
  <2> QED
    BY <1>17, <2>6 DEF n
<1> QED
  BY <1>1, <1>2, <1>3, <1>4, <1>6, <1>7, <1>8, <1>9, <1>10, <1>11, <1>12, <1>13, <1>14, <1>15, <1>16, <1>17, SMT

\* The statements of FirstCentre.
LEMMA FirstLines ==
  ASSUME NEW k \in Keys, k = key, NEW c \in [Coef -> 0..(q - 1)], c = Hash[sig.nonce],
         NEW z1, NEW z0, NEW m,
         NEW j \in 1..8, Area(m, 18 + j, k, c, z1, z0)
  PROVE  Area(Apply(m, FirstCentre[j]), 18 + j + 1, k, c, z1, z0)
<1>a. /\ c \in Poly /\ k.f \in Poly /\ Times(c, k.f) \in Poly
  BY KeyValues, HashValues, Zenon
<1>1. CASE j = 1
  <2> DEFINE n == Apply(m, FirstCentre[1])
  <2>1. FirstCentre[1] = <<"FFT_int16_selfadj", 8, 0>>
    BY Zenon DEF FirstCentre
  <2>2. /\ Carries(m, 0, "i16", GramOf(k)) /\ Carries(m, 18, "ntt", k.f)
    BY <1>1, SMT DEF Area, Row
  <2>3. /\ 8 \in 0..16 /\ 0 \in 0..18
    BY SMT
  <2>4. Apart(18, "ntt", 8..(8 + 3))
    BY SizeIs, SMT DEF Apart
  <2>5. Carries(n, 8, "fsa", fpoly_FFT_int16_selfadj(GramOf(k))) /\ Changes(m, n, 8..(8 + 3))
    BY <1>a, <2>1, <2>2, <2>3, DoFftSelfadj, Zenon
  <2>6. Carries(n, 8, "fsa", GramFft(k))
    BY <2>5, Zenon DEF GramFft
  <2> HIDE DEF n
  <2>7. Area(n, 20, k, c, z1, z0)
    BY <2>2, <2>4, <2>5, <2>6, Kept, SMT DEF Area, Row
  <2> QED
    BY <1>1, <2>7 DEF n
<1>2. CASE j = 2
  <2> DEFINE n == Apply(m, FirstCentre[2])
  <2>1. FirstCentre[2] = <<"invmul_selfadj_fft", 8>>
    BY Zenon DEF FirstCentre
  <2>2. /\ Carries(m, 8, "fsa", GramFft(k)) /\ Carries(m, 18, "ntt", k.f)
    BY <1>2, SMT DEF Area, Row
  <2>3. 8 \in 0..16
    BY SMT
  <2>4. Apart(18, "ntt", 8..(8 + 3))
    BY SizeIs, SMT DEF Apart
  <2>5. Carries(n, 8, "fsa", fpoly_invmul_selfadj_fft(GramFft(k))) /\ Changes(m, n, 8..(8 + 3))
    BY <1>a, <2>1, <2>2, <2>3, DoInvmul, Zenon
  <2>6. Carries(n, 8, "fsa", InvGramFft(k))
    BY <2>5, Zenon DEF InvGramFft
  <2> HIDE DEF n
  <2>7. Area(n, 21, k, c, z1, z0)
    BY <2>2, <2>4, <2>5, <2>6, Kept, SMT DEF Area, Row
  <2> QED
    BY <1>2, <2>7 DEF n
<1>3. CASE j = 3
  <2> DEFINE n == Apply(m, FirstCentre[3])
  <2>1. FirstCentre[3] = <<"hash_to_point", 16>>
    BY Zenon DEF FirstCentre
  <2>2. /\ Carries(m, 18, "ntt", k.f) /\ Carries(m, 8, "fsa", InvGramFft(k))
    BY <1>3, SMT DEF Area, Row
  <2>3. 16 \in 0..18
    BY SMT
  <2>4. /\ Apart(18, "ntt", 16..(16 + 1)) /\ Apart(8, "fsa", 16..(16 + 1))
    BY SizeIs, SMT DEF Apart
  <2>5. Carries(n, 16, "ext", c) /\ Changes(m, n, 16..(16 + 1))
    BY <1>a, <2>1, <2>3, DoHash, Zenon
  <2> HIDE DEF n
  <2>6. Area(n, 22, k, c, z1, z0)
    BY <2>2, <2>4, <2>5, Kept, SMT DEF Area, Row
  <2> QED
    BY <1>3, <2>6 DEF n
<1>4. CASE j = 4
  <2> DEFINE n == Apply(m, FirstCentre[4])
  <2>1. FirstCentre[4] = <<"ext_to_int", 16>>
    BY Zenon DEF FirstCentre
  <2>2. /\ Carries(m, 16, "ext", c) /\ Carries(m, 18, "ntt", k.f)
        /\ Carries(m, 8, "fsa", InvGramFft(k))
    BY <1>4, SMT DEF Area, Row
  <2>3. 16 \in 0..18
    BY SMT
  <2>4. /\ Apart(18, "ntt", 16..(16 + 1)) /\ Apart(8, "fsa", 16..(16 + 1))
    BY SizeIs, SMT DEF Apart
  <2>5. Carries(n, 16, "int", c) /\ Changes(m, n, 16..(16 + 1))
    BY <1>a, <2>1, <2>2, <2>3, DoExtToInt, Zenon
  <2> HIDE DEF n
  <2>6. Area(n, 23, k, c, z1, z0)
    BY <2>2, <2>4, <2>5, Kept, SMT DEF Area, Row
  <2> QED
    BY <1>4, <2>6 DEF n
<1>5. CASE j = 5
  <2> DEFINE n == Apply(m, FirstCentre[5])
  <2>1. FirstCentre[5] = <<"int_to_ntt", 16>>
    BY Zenon DEF FirstCentre
  <2>2. /\ Carries(m, 16, "int", c) /\ Carries(m, 18, "ntt", k.f)
        /\ Carries(m, 8, "fsa", InvGramFft(k))
    BY <1>5, SMT DEF Area, Row
  <2>3. 16 \in 0..18
    BY SMT
  <2>4. /\ Apart(18, "ntt", 16..(16 + 1)) /\ Apart(8, "fsa", 16..(16 + 1))
    BY SizeIs, SMT DEF Apart
  <2>5. Carries(n, 16, "ntt", c) /\ Changes(m, n, 16..(16 + 1))
    BY <1>a, <2>1, <2>2, <2>3, DoIntToNtt, Zenon
  <2> HIDE DEF n
  <2>6. Area(n, 24, k, c, z1, z0)
    BY <2>2, <2>4, <2>5, Kept, SMT DEF Area, Row
  <2> QED
    BY <1>5, <2>6 DEF n
<1>6. CASE j = 6
  <2> DEFINE n == Apply(m, FirstCentre[6])
  <2>1. FirstCentre[6] = <<"mul_ntt", 16, 18>>
    BY Zenon DEF FirstCentre
  <2>2. /\ Carries(m, 16, "ntt", c) /\ Carries(m, 18, "ntt", k.f)
        /\ Carries(m, 8, "fsa", InvGramFft(k))
    BY <1>6, SMT DEF Area, Row
  <2>3. /\ 16 \in 0..18 /\ 18 \in 0..18
    BY SMT
  <2>4. /\ Apart(18, "ntt", 16..(16 + 1)) /\ Apart(8, "fsa", 16..(16 + 1))
    BY SizeIs, SMT DEF Apart
  <2>5. Carries(n, 16, "ntt", Times(c, k.f)) /\ Changes(m, n, 16..(16 + 1))
    BY <1>a, <2>1, <2>2, <2>3, DoMulNtt, Zenon
  <2> HIDE DEF n
  <2>6. Area(n, 25, k, c, z1, z0)
    BY <2>2, <2>4, <2>5, Kept, SMT DEF Area, Row
  <2> QED
    BY <1>6, <2>6 DEF n
<1>7. CASE j = 7
  <2> DEFINE n == Apply(m, FirstCentre[7])
  <2>1. FirstCentre[7] = <<"ntt_to_int", 16>>
    BY Zenon DEF FirstCentre
  <2>2. /\ Carries(m, 16, "ntt", Times(c, k.f)) /\ Carries(m, 18, "ntt", k.f)
        /\ Carries(m, 8, "fsa", InvGramFft(k))
    BY <1>7, SMT DEF Area, Row
  <2>3. 16 \in 0..18
    BY SMT
  <2>4. /\ Apart(18, "ntt", 16..(16 + 1)) /\ Apart(8, "fsa", 16..(16 + 1))
    BY SizeIs, SMT DEF Apart
  <2>5. Carries(n, 16, "int", Times(c, k.f)) /\ Changes(m, n, 16..(16 + 1))
    BY <1>a, <2>1, <2>2, <2>3, DoNttToInt, Zenon
  <2> HIDE DEF n
  <2>6. Area(n, 26, k, c, z1, z0)
    BY <2>2, <2>4, <2>5, Kept, SMT DEF Area, Row
  <2> QED
    BY <1>7, <2>6 DEF n
<1>8. CASE j = 8
  <2> DEFINE n == Apply(m, FirstCentre[8])
  <2>1. FirstCentre[8] = <<"int_to_signed", 16>>
    BY Zenon DEF FirstCentre
  <2>2. /\ Carries(m, 16, "int", Times(c, k.f)) /\ Carries(m, 18, "ntt", k.f)
        /\ Carries(m, 8, "fsa", InvGramFft(k))
    BY <1>8, SMT DEF Area, Row
  <2>3. 16 \in 0..18
    BY SMT
  <2>4. /\ Apart(18, "ntt", 16..(16 + 1)) /\ Apart(8, "fsa", 16..(16 + 1))
    BY SizeIs, SMT DEF Apart
  <2>5. Carries(n, 16, "i16", Centred(Times(c, k.f), q)) /\ Changes(m, n, 16..(16 + 1))
    BY <1>a, <2>1, <2>2, <2>3, DoIntToSigned, Zenon
  <2>6. Carries(n, 16, "i16", cfMod(k, c))
    BY <2>5, Zenon DEF cfMod
  <2> HIDE DEF n
  <2>7. Area(n, 27, k, c, z1, z0)
    BY <2>2, <2>4, <2>5, <2>6, Kept, SMT DEF Area, Row
  <2> QED
    BY <1>8, <2>7 DEF n
<1> QED
  BY <1>1, <1>2, <1>3, <1>4, <1>5, <1>6, <1>7, <1>8, SMT

\* The statements of RebuildG.
LEMMA RebuildLines ==
  ASSUME NEW k \in Keys, k = key, NEW c \in [Coef -> 0..(q - 1)], c = Hash[sig.nonce],
         NEW z1, NEW z0, NEW m,
         NEW j \in 1..29, j # 29, Area(m, 27 + j, k, c, z1, z0)
  PROVE  Area(Apply(m, RebuildG[j]), 27 + j + 1, k, c, z1, z0)
<1>a. /\ k.g \in Poly /\ Within(q, k.g) /\ k.F \in Poly /\ Within(q, k.F)
      /\ Times(k.g, k.F) \in Poly /\ FInv(k) \in Poly /\ k.f \in Poly /\ BigG(k) \in Poly
      /\ CrossOf(k) \in Poly /\ Within(q2, BigG(k)) /\ Within(q2, k.g) /\ Within(q2, k.f)
      /\ GramOf(k) \in Poly
  BY KeyValues, HashValues, Zenon
<1>1. CASE j = 1
  <2> DEFINE n == Apply(m, RebuildG[1])
  <2>1. RebuildG[1] = <<"memcpy", 12, 18>>
    BY Zenon DEF RebuildG
  <2>2. /\ Carries(m, 18, "ntt", k.f) /\ Carries(m, 0, "fft", Rest(k, c, z1))
        /\ Carries(m, 16, "i16", z1)
    BY <1>1, SMT DEF Area, Row
  <2>3. /\ 12 \in 0..18 /\ 18 \in 0..18 /\ "ntt" \in {"ntt", "ntt2", "i16"}
    BY SMT
  <2>4. /\ Apart(18, "ntt", 12..(12 + 1)) /\ Apart(0, "fft", 12..(12 + 1))
        /\ Apart(16, "i16", 12..(12 + 1))
    BY SizeIs, SMT DEF Apart
  <2>5. Carries(n, 12, "ntt", k.f) /\ Changes(m, n, 12..(12 + 1))
    BY <1>a, <2>1, <2>2, <2>3, DoMemcpy, Zenon
  <2> HIDE DEF n
  <2>6. Area(n, 29, k, c, z1, z0)
    BY <2>2, <2>4, <2>5, Kept, SMT DEF Area, Row
  <2> QED
    BY <1>1, <2>6 DEF n
<1>2. CASE j = 2
  <2> DEFINE n == Apply(m, RebuildG[2])
  <2>1. RebuildG[2] = <<"inv_ntt", 18, 10>>
    BY Zenon DEF RebuildG
  <2>2. /\ Carries(m, 18, "ntt", k.f) /\ Carries(m, 0, "fft", Rest(k, c, z1))
        /\ Carries(m, 16, "i16", z1) /\ Carries(m, 12, "ntt", k.f)
    BY <1>2, SMT DEF Area, Row
  <2>3. /\ 18 \in 0..18 /\ 10 \in 0..18 /\ (18 + 2 <= 10 \/ 10 + 2 <= 18)
    BY SMT
  <2>4. /\ Apart(0, "fft", 18..(18 + 1) \cup 10..(10 + 1))
        /\ Apart(16, "i16", 18..(18 + 1) \cup 10..(10 + 1))
        /\ Apart(12, "ntt", 18..(18 + 1) \cup 10..(10 + 1))
    BY SizeIs, SMT DEF Apart
  <2>5. Carries(n, 18, "ntt", FInv(k)) /\ Changes(m, n, 18..(18 + 1) \cup 10..(10 + 1))
    BY <1>a, <2>1, <2>2, <2>3, DoInvNtt, Zenon
  <2> HIDE DEF n
  <2>6. Area(n, 30, k, c, z1, z0)
    BY <2>2, <2>4, <2>5, Kept, SMT DEF Area, Row
  <2> QED
    BY <1>2, <2>6 DEF n
<1>3. CASE j = 3
  <2> DEFINE n == Apply(m, RebuildG[3])
  <2>1. RebuildG[3] = <<"decode g", 10>>
    BY Zenon DEF RebuildG
  <2>2. /\ Carries(m, 0, "fft", Rest(k, c, z1)) /\ Carries(m, 16, "i16", z1)
        /\ Carries(m, 12, "ntt", k.f) /\ Carries(m, 18, "ntt", FInv(k))
    BY <1>3, SMT DEF Area, Row
  <2>3. 10 \in 0..19
    BY SMT
  <2>4. /\ Apart(0, "fft", 10..10) /\ Apart(16, "i16", 10..10) /\ Apart(12, "ntt", 10..10)
        /\ Apart(18, "ntt", 10..10)
    BY SizeIs, SMT DEF Apart
  <2>5. Carries(n, 10, "small", k.g) /\ Changes(m, n, 10..10)
    BY <1>a, <2>1, <2>3, DoDecode, Zenon
  <2> HIDE DEF n
  <2>6. Area(n, 31, k, c, z1, z0)
    BY <2>2, <2>4, <2>5, Kept, SMT DEF Area, Row
  <2> QED
    BY <1>3, <2>6 DEF n
<1>4. CASE j = 4
  <2> DEFINE n == Apply(m, RebuildG[4])
  <2>1. RebuildG[4] = <<"small_to_int", 10, 14>>
    BY Zenon DEF RebuildG
  <2>2. /\ Carries(m, 10, "small", k.g) /\ Carries(m, 0, "fft", Rest(k, c, z1))
        /\ Carries(m, 16, "i16", z1) /\ Carries(m, 12, "ntt", k.f)
        /\ Carries(m, 18, "ntt", FInv(k))
    BY <1>4, SMT DEF Area, Row
  <2>3. /\ 10 \in 0..18 /\ 14 \in 0..18
    BY SMT
  <2>4. /\ Apart(0, "fft", 14..(14 + 1)) /\ Apart(16, "i16", 14..(14 + 1))
        /\ Apart(12, "ntt", 14..(14 + 1)) /\ Apart(18, "ntt", 14..(14 + 1))
    BY SizeIs, SMT DEF Apart
  <2>5. Carries(n, 14, "int", k.g) /\ Changes(m, n, 14..(14 + 1))
    BY <1>a, <2>1, <2>2, <2>3, DoSmallToInt, Zenon
  <2> HIDE DEF n
  <2>6. Area(n, 32, k, c, z1, z0)
    BY <2>2, <2>4, <2>5, Kept, SMT DEF Area, Row
  <2> QED
    BY <1>4, <2>6 DEF n
<1>5. CASE j = 5
  <2> DEFINE n == Apply(m, RebuildG[5])
  <2>1. RebuildG[5] = <<"int_to_ntt", 14>>
    BY Zenon DEF RebuildG
  <2>2. /\ Carries(m, 14, "int", k.g) /\ Carries(m, 0, "fft", Rest(k, c, z1))
        /\ Carries(m, 16, "i16", z1) /\ Carries(m, 12, "ntt", k.f)
        /\ Carries(m, 18, "ntt", FInv(k))
    BY <1>5, SMT DEF Area, Row
  <2>3. 14 \in 0..18
    BY SMT
  <2>4. /\ Apart(0, "fft", 14..(14 + 1)) /\ Apart(16, "i16", 14..(14 + 1))
        /\ Apart(12, "ntt", 14..(14 + 1)) /\ Apart(18, "ntt", 14..(14 + 1))
    BY SizeIs, SMT DEF Apart
  <2>5. Carries(n, 14, "ntt", k.g) /\ Changes(m, n, 14..(14 + 1))
    BY <1>a, <2>1, <2>2, <2>3, DoIntToNtt, Zenon
  <2> HIDE DEF n
  <2>6. Area(n, 33, k, c, z1, z0)
    BY <2>2, <2>4, <2>5, Kept, SMT DEF Area, Row
  <2> QED
    BY <1>5, <2>6 DEF n
<1>6. CASE j = 6
  <2> DEFINE n == Apply(m, RebuildG[6])
  <2>1. RebuildG[6] = <<"F to int", 8>>
    BY Zenon DEF RebuildG
  <2>2. /\ Carries(m, 0, "fft", Rest(k, c, z1)) /\ Carries(m, 16, "i16", z1)
        /\ Carries(m, 12, "ntt", k.f) /\ Carries(m, 18, "ntt", FInv(k))
        /\ Carries(m, 14, "ntt", k.g)
    BY <1>6, SMT DEF Area, Row
  <2>3. 8 \in 0..18
    BY SMT
  <2>4. /\ Apart(0, "fft", 8..(8 + 1)) /\ Apart(16, "i16", 8..(8 + 1))
        /\ Apart(12, "ntt", 8..(8 + 1)) /\ Apart(18, "ntt", 8..(8 + 1))
        /\ Apart(14, "ntt", 8..(8 + 1))
    BY SizeIs, SMT DEF Apart
  <2>5. Carries(n, 8, "int", k.F) /\ Changes(m, n, 8..(8 + 1))
    BY <1>a, <2>1, <2>3, DoFToInt, Zenon
  <2> HIDE DEF n
  <2>6. Area(n, 34, k, c, z1, z0)
    BY <2>2, <2>4, <2>5, Kept, SMT DEF Area, Row
  <2> QED
    BY <1>6, <2>6 DEF n
<1>7. CASE j = 7
  <2> DEFINE n == Apply(m, RebuildG[7])
  <2>1. RebuildG[7] = <<"int_to_ntt", 8>>
    BY Zenon DEF RebuildG
  <2>2. /\ Carries(m, 8, "int", k.F) /\ Carries(m, 0, "fft", Rest(k, c, z1))
        /\ Carries(m, 16, "i16", z1) /\ Carries(m, 12, "ntt", k.f)
        /\ Carries(m, 18, "ntt", FInv(k)) /\ Carries(m, 14, "ntt", k.g)
    BY <1>7, SMT DEF Area, Row
  <2>3. 8 \in 0..18
    BY SMT
  <2>4. /\ Apart(0, "fft", 8..(8 + 1)) /\ Apart(16, "i16", 8..(8 + 1))
        /\ Apart(12, "ntt", 8..(8 + 1)) /\ Apart(18, "ntt", 8..(8 + 1))
        /\ Apart(14, "ntt", 8..(8 + 1))
    BY SizeIs, SMT DEF Apart
  <2>5. Carries(n, 8, "ntt", k.F) /\ Changes(m, n, 8..(8 + 1))
    BY <1>a, <2>1, <2>2, <2>3, DoIntToNtt, Zenon
  <2> HIDE DEF n
  <2>6. Area(n, 35, k, c, z1, z0)
    BY <2>2, <2>4, <2>5, Kept, SMT DEF Area, Row
  <2> QED
    BY <1>7, <2>6 DEF n
<1>8. CASE j = 8
  <2> DEFINE n == Apply(m, RebuildG[8])
  <2>1. RebuildG[8] = <<"memcpy", 10, 14>>
    BY Zenon DEF RebuildG
  <2>2. /\ Carries(m, 14, "ntt", k.g) /\ Carries(m, 0, "fft", Rest(k, c, z1))
        /\ Carries(m, 16, "i16", z1) /\ Carries(m, 12, "ntt", k.f)
        /\ Carries(m, 18, "ntt", FInv(k)) /\ Carries(m, 8, "ntt", k.F)
    BY <1>8, SMT DEF Area, Row
  <2>3. /\ 10 \in 0..18 /\ 14 \in 0..18 /\ "ntt" \in {"ntt", "ntt2", "i16"}
    BY SMT
  <2>4. /\ Apart(0, "fft", 10..(10 + 1)) /\ Apart(16, "i16", 10..(10 + 1))
        /\ Apart(12, "ntt", 10..(10 + 1)) /\ Apart(18, "ntt", 10..(10 + 1))
        /\ Apart(14, "ntt", 10..(10 + 1)) /\ Apart(8, "ntt", 10..(10 + 1))
    BY SizeIs, SMT DEF Apart
  <2>5. Carries(n, 10, "ntt", k.g) /\ Changes(m, n, 10..(10 + 1))
    BY <1>a, <2>1, <2>2, <2>3, DoMemcpy, Zenon
  <2> HIDE DEF n
  <2>6. Area(n, 36, k, c, z1, z0)
    BY <2>2, <2>4, <2>5, Kept, SMT DEF Area, Row
  <2> QED
    BY <1>8, <2>6 DEF n
<1>9. CASE j = 9
  <2> DEFINE n == Apply(m, RebuildG[9])
  <2>1. RebuildG[9] = <<"mul_ntt", 10, 8>>
    BY Zenon DEF RebuildG
  <2>2. /\ Carries(m, 10, "ntt", k.g) /\ Carries(m, 8, "ntt", k.F)
        /\ Carries(m, 0, "fft", Rest(k, c, z1)) /\ Carries(m, 16, "i16", z1)
        /\ Carries(m, 12, "ntt", k.f) /\ Carries(m, 18, "ntt", FInv(k))
        /\ Carries(m, 14, "ntt", k.g)
    BY <1>9, SMT DEF Area, Row
  <2>3. /\ 10 \in 0..18 /\ 8 \in 0..18
    BY SMT
  <2>4. /\ Apart(0, "fft", 10..(10 + 1)) /\ Apart(16, "i16", 10..(10 + 1))
        /\ Apart(12, "ntt", 10..(10 + 1)) /\ Apart(18, "ntt", 10..(10 + 1))
        /\ Apart(14, "ntt", 10..(10 + 1)) /\ Apart(8, "ntt", 10..(10 + 1))
    BY SizeIs, SMT DEF Apart
  <2>5. Carries(n, 10, "ntt", Times(k.g, k.F)) /\ Changes(m, n, 10..(10 + 1))
    BY <1>a, <2>1, <2>2, <2>3, DoMulNtt, Zenon
  <2> HIDE DEF n
  <2>6. Area(n, 37, k, c, z1, z0)
    BY <2>2, <2>4, <2>5, Kept, SMT DEF Area, Row
  <2> QED
    BY <1>9, <2>6 DEF n
<1>10. CASE j = 10
  <2> DEFINE n == Apply(m, RebuildG[10])
  <2>1. RebuildG[10] = <<"mul_ntt", 10, 18>>
    BY Zenon DEF RebuildG
  <2>2. /\ Carries(m, 10, "ntt", Times(k.g, k.F)) /\ Carries(m, 18, "ntt", FInv(k))
        /\ Carries(m, 0, "fft", Rest(k, c, z1)) /\ Carries(m, 16, "i16", z1)
        /\ Carries(m, 12, "ntt", k.f) /\ Carries(m, 14, "ntt", k.g)
        /\ Carries(m, 8, "ntt", k.F)
    BY <1>10, SMT DEF Area, Row
  <2>3. /\ 10 \in 0..18 /\ 18 \in 0..18
    BY SMT
  <2>4. /\ Apart(0, "fft", 10..(10 + 1)) /\ Apart(16, "i16", 10..(10 + 1))
        /\ Apart(12, "ntt", 10..(10 + 1)) /\ Apart(14, "ntt", 10..(10 + 1))
        /\ Apart(8, "ntt", 10..(10 + 1))
    BY SizeIs, SMT DEF Apart
  <2>5. Carries(n, 10, "ntt", Times(Times(k.g, k.F), FInv(k))) /\ Changes(m, n, 10..(10 + 1))
    BY <1>a, <2>1, <2>2, <2>3, DoMulNtt, Zenon
  <2>6. Carries(n, 10, "ntt", BigG(k))
    BY <2>5, InverseOfF, KeyValues, CarriesEquiv, Zenon
  <2> HIDE DEF n
  <2>7. Area(n, 38, k, c, z1, z0)
    BY <2>2, <2>4, <2>5, <2>6, Kept, SMT DEF Area, Row
  <2> QED
    BY <1>10, <2>7 DEF n
<1>11. CASE j = 11
  <2> DEFINE n == Apply(m, RebuildG[11])
  <2>1. RebuildG[11] = <<"muladj_add_muladj", 8, 12, 10, 14>>
    BY Zenon DEF RebuildG
  <2>2. /\ Carries(m, 8, "ntt", k.F) /\ Carries(m, 12, "ntt", k.f)
        /\ Carries(m, 10, "ntt", BigG(k)) /\ Carries(m, 14, "ntt", k.g)
        /\ Carries(m, 0, "fft", Rest(k, c, z1)) /\ Carries(m, 16, "i16", z1)
    BY <1>11, SMT DEF Area, Row
  <2>3. /\ 8 \in 0..18 /\ 12 \in 0..18 /\ 10 \in 0..18 /\ 14 \in 0..18
    BY SMT
  <2>4. /\ Apart(0, "fft", 8..(8 + 1)) /\ Apart(16, "i16", 8..(8 + 1))
        /\ Apart(10, "ntt", 8..(8 + 1))
    BY SizeIs, SMT DEF Apart
  <2>5. Carries(n, 8, "ntt", Plus(Times(k.F, Adj(k.f)), Times(BigG(k), Adj(k.g)))) /\ Changes(m, n, 8..(8 + 1))
    BY <1>a, <2>1, <2>2, <2>3, DoMuladjAdd, ZenonT(40)
  <2>6. Carries(n, 8, "ntt", CrossOf(k))
    BY <2>5, KeyNames, Zenon
  <2> HIDE DEF n
  <2>7. Area(n, 39, k, c, z1, z0)
    BY <2>2, <2>4, <2>5, <2>6, Kept, SMT DEF Area, Row
  <2> QED
    BY <1>11, <2>7 DEF n
<1>12. CASE j = 12
  <2> DEFINE n == Apply(m, RebuildG[12])
  <2>1. RebuildG[12] = <<"ntt_to_int", 8>>
    BY Zenon DEF RebuildG
  <2>2. /\ Carries(m, 8, "ntt", CrossOf(k)) /\ Carries(m, 0, "fft", Rest(k, c, z1))
        /\ Carries(m, 16, "i16", z1) /\ Carries(m, 10, "ntt", BigG(k))
    BY <1>12, SMT DEF Area, Row
  <2>3. 8 \in 0..18
    BY SMT
  <2>4. /\ Apart(0, "fft", 8..(8 + 1)) /\ Apart(16, "i16", 8..(8 + 1))
        /\ Apart(10, "ntt", 8..(8 + 1))
    BY SizeIs, SMT DEF Apart
  <2>5. Carries(n, 8, "int", CrossOf(k)) /\ Changes(m, n, 8..(8 + 1))
    BY <1>a, <2>1, <2>2, <2>3, DoNttToInt, Zenon
  <2> HIDE DEF n
  <2>6. Area(n, 40, k, c, z1, z0)
    BY <2>2, <2>4, <2>5, Kept, SMT DEF Area, Row
  <2> QED
    BY <1>12, <2>6 DEF n
<1>13. CASE j = 13
  <2> DEFINE n == Apply(m, RebuildG[13])
  <2>1. RebuildG[13] = <<"int_to_signed", 8>>
    BY Zenon DEF RebuildG
  <2>2. /\ Carries(m, 8, "int", CrossOf(k)) /\ Carries(m, 0, "fft", Rest(k, c, z1))
        /\ Carries(m, 16, "i16", z1) /\ Carries(m, 10, "ntt", BigG(k))
    BY <1>13, SMT DEF Area, Row
  <2>3. 8 \in 0..18
    BY SMT
  <2>4. /\ Apart(0, "fft", 8..(8 + 1)) /\ Apart(16, "i16", 8..(8 + 1))
        /\ Apart(10, "ntt", 8..(8 + 1))
    BY SizeIs, SMT DEF Apart
  <2>5. Carries(n, 8, "i16", Centred(CrossOf(k), q)) /\ Changes(m, n, 8..(8 + 1))
    BY <1>a, <2>1, <2>2, <2>3, DoIntToSigned, Zenon
  <2> HIDE DEF n
  <2>6. Area(n, 41, k, c, z1, z0)
    BY <2>2, <2>4, <2>5, Kept, SMT DEF Area, Row
  <2> QED
    BY <1>13, <2>6 DEF n
<1>14. CASE j = 14
  <2> DEFINE n == Apply(m, RebuildG[14])
  <2>1. RebuildG[14] = <<"ntt_to_int", 10>>
    BY Zenon DEF RebuildG
  <2>2. /\ Carries(m, 10, "ntt", BigG(k)) /\ Carries(m, 0, "fft", Rest(k, c, z1))
        /\ Carries(m, 16, "i16", z1) /\ Carries(m, 8, "i16", Centred(CrossOf(k), q))
    BY <1>14, SMT DEF Area, Row
  <2>3. 10 \in 0..18
    BY SMT
  <2>4. /\ Apart(0, "fft", 10..(10 + 1)) /\ Apart(16, "i16", 10..(10 + 1))
        /\ Apart(8, "i16", 10..(10 + 1))
    BY SizeIs, SMT DEF Apart
  <2>5. Carries(n, 10, "int", BigG(k)) /\ Changes(m, n, 10..(10 + 1))
    BY <1>a, <2>1, <2>2, <2>3, DoNttToInt, Zenon
  <2> HIDE DEF n
  <2>6. Area(n, 42, k, c, z1, z0)
    BY <2>2, <2>4, <2>5, Kept, SMT DEF Area, Row
  <2> QED
    BY <1>14, <2>6 DEF n
<1>15. CASE j = 15
  <2> DEFINE n == Apply(m, RebuildG[15])
  <2>1. RebuildG[15] = <<"int_to_signed", 10>>
    BY Zenon DEF RebuildG
  <2>2. /\ Carries(m, 10, "int", BigG(k)) /\ Carries(m, 0, "fft", Rest(k, c, z1))
        /\ Carries(m, 16, "i16", z1) /\ Carries(m, 8, "i16", Centred(CrossOf(k), q))
    BY <1>15, SMT DEF Area, Row
  <2>3. 10 \in 0..18
    BY SMT
  <2>4. /\ Apart(0, "fft", 10..(10 + 1)) /\ Apart(16, "i16", 10..(10 + 1))
        /\ Apart(8, "i16", 10..(10 + 1))
    BY SizeIs, SMT DEF Apart
  <2>5. Carries(n, 10, "i16", Centred(BigG(k), q)) /\ Changes(m, n, 10..(10 + 1))
    BY <1>a, <2>1, <2>2, <2>3, DoIntToSigned, Zenon
  <2>6. Carries(n, 10, "i16", BigG(k))
    BY <2>5, KeyNames, Zenon
  <2> HIDE DEF n
  <2>7. Area(n, 43, k, c, z1, z0)
    BY <2>2, <2>4, <2>5, <2>6, Kept, SMT DEF Area, Row
  <2> QED
    BY <1>15, <2>7 DEF n
<1>16. CASE j = 16
  <2> DEFINE n == Apply(m, RebuildG[16])
  <2>1. RebuildG[16] = <<"signed_to_mod2", 10>>
    BY Zenon DEF RebuildG
  <2>2. /\ Carries(m, 10, "i16", BigG(k)) /\ Carries(m, 0, "fft", Rest(k, c, z1))
        /\ Carries(m, 16, "i16", z1) /\ Carries(m, 8, "i16", Centred(CrossOf(k), q))
    BY <1>16, SMT DEF Area, Row
  <2>3. 10 \in 0..18
    BY SMT
  <2>4. /\ Apart(0, "fft", 10..(10 + 1)) /\ Apart(16, "i16", 10..(10 + 1))
        /\ Apart(8, "i16", 10..(10 + 1))
    BY SizeIs, SMT DEF Apart
  <2>5. Carries(n, 10, "mod2", BigG(k)) /\ Changes(m, n, 10..(10 + 1))
    BY <1>a, <2>1, <2>2, <2>3, DoSignedToMod2, Zenon
  <2> HIDE DEF n
  <2>6. Area(n, 44, k, c, z1, z0)
    BY <2>2, <2>4, <2>5, Kept, SMT DEF Area, Row
  <2> QED
    BY <1>16, <2>6 DEF n
<1>17. CASE j = 17
  <2> DEFINE n == Apply(m, RebuildG[17])
  <2>1. RebuildG[17] = <<"NTT2", 10>>
    BY Zenon DEF RebuildG
  <2>2. /\ Carries(m, 10, "mod2", BigG(k)) /\ Carries(m, 0, "fft", Rest(k, c, z1))
        /\ Carries(m, 16, "i16", z1) /\ Carries(m, 8, "i16", Centred(CrossOf(k), q))
    BY <1>17, SMT DEF Area, Row
  <2>3. 10 \in 0..18
    BY SMT
  <2>4. /\ Apart(0, "fft", 10..(10 + 1)) /\ Apart(16, "i16", 10..(10 + 1))
        /\ Apart(8, "i16", 10..(10 + 1))
    BY SizeIs, SMT DEF Apart
  <2>5. Carries(n, 10, "ntt2", BigG(k)) /\ Changes(m, n, 10..(10 + 1))
    BY <1>a, <2>1, <2>2, <2>3, DoNTT2, Zenon
  <2> HIDE DEF n
  <2>6. Area(n, 45, k, c, z1, z0)
    BY <2>2, <2>4, <2>5, Kept, SMT DEF Area, Row
  <2> QED
    BY <1>17, <2>6 DEF n
<1>18. CASE j = 18
  <2> DEFINE n == Apply(m, RebuildG[18])
  <2>1. RebuildG[18] = <<"decode g", 18>>
    BY Zenon DEF RebuildG
  <2>2. /\ Carries(m, 0, "fft", Rest(k, c, z1)) /\ Carries(m, 16, "i16", z1)
        /\ Carries(m, 8, "i16", Centred(CrossOf(k), q)) /\ Carries(m, 10, "ntt2", BigG(k))
    BY <1>18, SMT DEF Area, Row
  <2>3. 18 \in 0..19
    BY SMT
  <2>4. /\ Apart(0, "fft", 18..18) /\ Apart(16, "i16", 18..18) /\ Apart(8, "i16", 18..18)
        /\ Apart(10, "ntt2", 18..18)
    BY SizeIs, SMT DEF Apart
  <2>5. Carries(n, 18, "small", k.g) /\ Changes(m, n, 18..18)
    BY <1>a, <2>1, <2>3, DoDecode, Zenon
  <2> HIDE DEF n
  <2>6. Area(n, 46, k, c, z1, z0)
    BY <2>2, <2>4, <2>5, Kept, SMT DEF Area, Row
  <2> QED
    BY <1>18, <2>6 DEF n
<1>19. CASE j = 19
  <2> DEFINE n == Apply(m, RebuildG[19])
  <2>1. RebuildG[19] = <<"small_to_mod2", 18, 14>>
    BY Zenon DEF RebuildG
  <2>2. /\ Carries(m, 18, "small", k.g) /\ Carries(m, 0, "fft", Rest(k, c, z1))
        /\ Carries(m, 16, "i16", z1) /\ Carries(m, 8, "i16", Centred(CrossOf(k), q))
        /\ Carries(m, 10, "ntt2", BigG(k))
    BY <1>19, SMT DEF Area, Row
  <2>3. /\ 18 \in 0..18 /\ 14 \in 0..18
    BY SMT
  <2>4. /\ Apart(0, "fft", 14..(14 + 1)) /\ Apart(16, "i16", 14..(14 + 1))
        /\ Apart(8, "i16", 14..(14 + 1)) /\ Apart(10, "ntt2", 14..(14 + 1))
    BY SizeIs, SMT DEF Apart
  <2>5. Carries(n, 14, "mod2", k.g) /\ Changes(m, n, 14..(14 + 1))
    BY <1>a, <2>1, <2>2, <2>3, DoSmallToMod2, Zenon
  <2> HIDE DEF n
  <2>6. Area(n, 47, k, c, z1, z0)
    BY <2>2, <2>4, <2>5, Kept, SMT DEF Area, Row
  <2> QED
    BY <1>19, <2>6 DEF n
<1>20. CASE j = 20
  <2> DEFINE n == Apply(m, RebuildG[20])
  <2>1. RebuildG[20] = <<"NTT2", 14>>
    BY Zenon DEF RebuildG
  <2>2. /\ Carries(m, 14, "mod2", k.g) /\ Carries(m, 0, "fft", Rest(k, c, z1))
        /\ Carries(m, 16, "i16", z1) /\ Carries(m, 8, "i16", Centred(CrossOf(k), q))
        /\ Carries(m, 10, "ntt2", BigG(k))
    BY <1>20, SMT DEF Area, Row
  <2>3. 14 \in 0..18
    BY SMT
  <2>4. /\ Apart(0, "fft", 14..(14 + 1)) /\ Apart(16, "i16", 14..(14 + 1))
        /\ Apart(8, "i16", 14..(14 + 1)) /\ Apart(10, "ntt2", 14..(14 + 1))
    BY SizeIs, SMT DEF Apart
  <2>5. Carries(n, 14, "ntt2", k.g) /\ Changes(m, n, 14..(14 + 1))
    BY <1>a, <2>1, <2>2, <2>3, DoNTT2, Zenon
  <2> HIDE DEF n
  <2>6. Area(n, 48, k, c, z1, z0)
    BY <2>2, <2>4, <2>5, Kept, SMT DEF Area, Row
  <2> QED
    BY <1>20, <2>6 DEF n
<1>21. CASE j = 21
  <2> DEFINE n == Apply(m, RebuildG[21])
  <2>1. RebuildG[21] = <<"muladj_ntt2", 10, 14>>
    BY Zenon DEF RebuildG
  <2>2. /\ Carries(m, 10, "ntt2", BigG(k)) /\ Carries(m, 14, "ntt2", k.g)
        /\ Carries(m, 0, "fft", Rest(k, c, z1)) /\ Carries(m, 16, "i16", z1)
        /\ Carries(m, 8, "i16", Centred(CrossOf(k), q))
    BY <1>21, SMT DEF Area, Row
  <2>3. /\ 10 \in 0..18 /\ 14 \in 0..18
    BY SMT
  <2>4. /\ Apart(0, "fft", 10..(10 + 1)) /\ Apart(16, "i16", 10..(10 + 1))
        /\ Apart(8, "i16", 10..(10 + 1)) /\ Apart(14, "ntt2", 10..(10 + 1))
    BY SizeIs, SMT DEF Apart
  <2>5. Carries(n, 10, "ntt2", Times(BigG(k), Adj(k.g))) /\ Changes(m, n, 10..(10 + 1))
    BY <1>a, <2>1, <2>2, <2>3, DoMuladjNtt2, Zenon
  <2> HIDE DEF n
  <2>6. Area(n, 49, k, c, z1, z0)
    BY <2>2, <2>4, <2>5, Kept, SMT DEF Area, Row
  <2> QED
    BY <1>21, <2>6 DEF n
<1>22. CASE j = 22
  <2> DEFINE n == Apply(m, RebuildG[22])
  <2>1. RebuildG[22] = <<"decode f", 18>>
    BY Zenon DEF RebuildG
  <2>2. /\ Carries(m, 0, "fft", Rest(k, c, z1)) /\ Carries(m, 16, "i16", z1)
        /\ Carries(m, 8, "i16", Centred(CrossOf(k), q)) /\ Carries(m, 14, "ntt2", k.g)
        /\ Carries(m, 10, "ntt2", Times(BigG(k), Adj(k.g)))
    BY <1>22, SMT DEF Area, Row
  <2>3. 18 \in 0..19
    BY SMT
  <2>4. /\ Apart(0, "fft", 18..18) /\ Apart(16, "i16", 18..18) /\ Apart(8, "i16", 18..18)
        /\ Apart(14, "ntt2", 18..18) /\ Apart(10, "ntt2", 18..18)
    BY SizeIs, SMT DEF Apart
  <2>5. Carries(n, 18, "small", k.f) /\ Changes(m, n, 18..18)
    BY <1>a, <2>1, <2>3, DoDecode, Zenon
  <2> HIDE DEF n
  <2>6. Area(n, 50, k, c, z1, z0)
    BY <2>2, <2>4, <2>5, Kept, SMT DEF Area, Row
  <2> QED
    BY <1>22, <2>6 DEF n
<1>23. CASE j = 23
  <2> DEFINE n == Apply(m, RebuildG[23])
  <2>1. RebuildG[23] = <<"small_to_mod2", 18, 12>>
    BY Zenon DEF RebuildG
  <2>2. /\ Carries(m, 18, "small", k.f) /\ Carries(m, 0, "fft", Rest(k, c, z1))
        /\ Carries(m, 16, "i16", z1) /\ Carries(m, 8, "i16", Centred(CrossOf(k), q))
        /\ Carries(m, 14, "ntt2", k.g) /\ Carries(m, 10, "ntt2", Times(BigG(k), Adj(k.g)))
    BY <1>23, SMT DEF Area, Row
  <2>3. /\ 18 \in 0..18 /\ 12 \in 0..18
    BY SMT
  <2>4. /\ Apart(0, "fft", 12..(12 + 1)) /\ Apart(16, "i16", 12..(12 + 1))
        /\ Apart(8, "i16", 12..(12 + 1)) /\ Apart(14, "ntt2", 12..(12 + 1))
        /\ Apart(10, "ntt2", 12..(12 + 1))
    BY SizeIs, SMT DEF Apart
  <2>5. Carries(n, 12, "mod2", k.f) /\ Changes(m, n, 12..(12 + 1))
    BY <1>a, <2>1, <2>2, <2>3, DoSmallToMod2, Zenon
  <2> HIDE DEF n
  <2>6. Area(n, 51, k, c, z1, z0)
    BY <2>2, <2>4, <2>5, Kept, SMT DEF Area, Row
  <2> QED
    BY <1>23, <2>6 DEF n
<1>24. CASE j = 24
  <2> DEFINE n == Apply(m, RebuildG[24])
  <2>1. RebuildG[24] = <<"NTT2", 12>>
    BY Zenon DEF RebuildG
  <2>2. /\ Carries(m, 12, "mod2", k.f) /\ Carries(m, 0, "fft", Rest(k, c, z1))
        /\ Carries(m, 16, "i16", z1) /\ Carries(m, 8, "i16", Centred(CrossOf(k), q))
        /\ Carries(m, 14, "ntt2", k.g) /\ Carries(m, 10, "ntt2", Times(BigG(k), Adj(k.g)))
    BY <1>24, SMT DEF Area, Row
  <2>3. 12 \in 0..18
    BY SMT
  <2>4. /\ Apart(0, "fft", 12..(12 + 1)) /\ Apart(16, "i16", 12..(12 + 1))
        /\ Apart(8, "i16", 12..(12 + 1)) /\ Apart(14, "ntt2", 12..(12 + 1))
        /\ Apart(10, "ntt2", 12..(12 + 1))
    BY SizeIs, SMT DEF Apart
  <2>5. Carries(n, 12, "ntt2", k.f) /\ Changes(m, n, 12..(12 + 1))
    BY <1>a, <2>1, <2>2, <2>3, DoNTT2, Zenon
  <2> HIDE DEF n
  <2>6. Area(n, 52, k, c, z1, z0)
    BY <2>2, <2>4, <2>5, Kept, SMT DEF Area, Row
  <2> QED
    BY <1>24, <2>6 DEF n
<1>25. CASE j = 25
  <2> DEFINE n == Apply(m, RebuildG[25])
  <2>1. RebuildG[25] = <<"memcpy", 18, 12>>
    BY Zenon DEF RebuildG
  <2>2. /\ Carries(m, 12, "ntt2", k.f) /\ Carries(m, 0, "fft", Rest(k, c, z1))
        /\ Carries(m, 16, "i16", z1) /\ Carries(m, 8, "i16", Centred(CrossOf(k), q))
        /\ Carries(m, 14, "ntt2", k.g) /\ Carries(m, 10, "ntt2", Times(BigG(k), Adj(k.g)))
    BY <1>25, SMT DEF Area, Row
  <2>3. /\ 18 \in 0..18 /\ 12 \in 0..18 /\ "ntt2" \in {"ntt", "ntt2", "i16"}
    BY SMT
  <2>4. /\ Apart(0, "fft", 18..(18 + 1)) /\ Apart(16, "i16", 18..(18 + 1))
        /\ Apart(8, "i16", 18..(18 + 1)) /\ Apart(14, "ntt2", 18..(18 + 1))
        /\ Apart(10, "ntt2", 18..(18 + 1)) /\ Apart(12, "ntt2", 18..(18 + 1))
    BY SizeIs, SMT DEF Apart
  <2>5. Carries(n, 18, "ntt2", k.f) /\ Changes(m, n, 18..(18 + 1))
    BY <1>a, <2>1, <2>2, <2>3, DoMemcpy, Zenon
  <2> HIDE DEF n
  <2>6. Area(n, 53, k, c, z1, z0)
    BY <2>2, <2>4, <2>5, Kept, SMT DEF Area, Row
  <2> QED
    BY <1>25, <2>6 DEF n
<1>26. CASE j = 26
  <2> DEFINE n == Apply(m, RebuildG[26])
  <2>1. RebuildG[26] = <<"muladj_x2_ntt2", 18, 14>>
    BY Zenon DEF RebuildG
  <2>2. /\ Carries(m, 18, "ntt2", k.f) /\ Carries(m, 14, "ntt2", k.g)
        /\ Carries(m, 0, "fft", Rest(k, c, z1)) /\ Carries(m, 16, "i16", z1)
        /\ Carries(m, 8, "i16", Centred(CrossOf(k), q))
        /\ Carries(m, 10, "ntt2", Times(BigG(k), Adj(k.g))) /\ Carries(m, 12, "ntt2", k.f)
    BY <1>26, SMT DEF Area, Row
  <2>3. /\ 18 \in 0..18 /\ 14 \in 0..18
    BY SMT
  <2>4. /\ Apart(0, "fft", 18..(18 + 1)) /\ Apart(16, "i16", 18..(18 + 1))
        /\ Apart(8, "i16", 18..(18 + 1)) /\ Apart(10, "ntt2", 18..(18 + 1))
        /\ Apart(12, "ntt2", 18..(18 + 1))
    BY SizeIs, SMT DEF Apart
  <2>5. Carries(n, 18, "ntt2", Const(mqpoly_sqnorm_small(k.f) + mqpoly_sqnorm_small(k.g))) /\ Changes(m, n, 18..(18 + 1))
    BY <1>a, <2>1, <2>2, <2>3, DoMuladjX2Ntt2, Zenon
  <2>6. Carries(n, 18, "ntt2", GramOf(k))
    BY <2>5, KeyNames, Zenon
  <2> HIDE DEF n
  <2>7. Area(n, 54, k, c, z1, z0)
    BY <2>2, <2>4, <2>5, <2>6, Kept, SMT DEF Area, Row
  <2> QED
    BY <1>26, <2>7 DEF n
<1>27. CASE j = 27
  <2> DEFINE n == Apply(m, RebuildG[27])
  <2>1. RebuildG[27] = <<"iNTT2", 18>>
    BY Zenon DEF RebuildG
  <2>2. /\ Carries(m, 18, "ntt2", GramOf(k)) /\ Carries(m, 0, "fft", Rest(k, c, z1))
        /\ Carries(m, 16, "i16", z1) /\ Carries(m, 8, "i16", Centred(CrossOf(k), q))
        /\ Carries(m, 10, "ntt2", Times(BigG(k), Adj(k.g))) /\ Carries(m, 12, "ntt2", k.f)
    BY <1>27, SMT DEF Area, Row
  <2>3. 18 \in 0..18
    BY SMT
  <2>4. /\ Apart(0, "fft", 18..(18 + 1)) /\ Apart(16, "i16", 18..(18 + 1))
        /\ Apart(8, "i16", 18..(18 + 1)) /\ Apart(10, "ntt2", 18..(18 + 1))
        /\ Apart(12, "ntt2", 18..(18 + 1))
    BY SizeIs, SMT DEF Apart
  <2>5. Carries(n, 18, "mod2", GramOf(k)) /\ Changes(m, n, 18..(18 + 1))
    BY <1>a, <2>1, <2>2, <2>3, DoiNTT2, Zenon
  <2> HIDE DEF n
  <2>6. Area(n, 55, k, c, z1, z0)
    BY <2>2, <2>4, <2>5, Kept, SMT DEF Area, Row
  <2> QED
    BY <1>27, <2>6 DEF n
<1>28. CASE j = 28
  <2> DEFINE n == Apply(m, RebuildG[28])
  <2>1. RebuildG[28] = <<"mod2_to_signed", 18>>
    BY Zenon DEF RebuildG
  <2>2. /\ Carries(m, 18, "mod2", GramOf(k)) /\ Carries(m, 0, "fft", Rest(k, c, z1))
        /\ Carries(m, 16, "i16", z1) /\ Carries(m, 8, "i16", Centred(CrossOf(k), q))
        /\ Carries(m, 10, "ntt2", Times(BigG(k), Adj(k.g))) /\ Carries(m, 12, "ntt2", k.f)
    BY <1>28, SMT DEF Area, Row
  <2>3. 18 \in 0..18
    BY SMT
  <2>4. /\ Apart(0, "fft", 18..(18 + 1)) /\ Apart(16, "i16", 18..(18 + 1))
        /\ Apart(8, "i16", 18..(18 + 1)) /\ Apart(10, "ntt2", 18..(18 + 1))
        /\ Apart(12, "ntt2", 18..(18 + 1))
    BY SizeIs, SMT DEF Apart
  <2>5. Carries(n, 18, "i16", Centred(GramOf(k), q2)) /\ Changes(m, n, 18..(18 + 1))
    BY <1>a, <2>1, <2>2, <2>3, DoMod2ToSigned, Zenon
  <2> HIDE DEF n
  <2>6. Area(n, 56, k, c, z1, z0)
    BY <2>2, <2>4, <2>5, Kept, SMT DEF Area, Row
  <2> QED
    BY <1>28, <2>6 DEF n
<1> QED
  BY <1>1, <1>2, <1>3, <1>4, <1>5, <1>6, <1>7, <1>8, <1>9, <1>10, <1>11, <1>12, <1>13, <1>14, <1>15, <1>16, <1>17, <1>18, <1>19, <1>20, <1>21, <1>22, <1>23, <1>24, <1>25, <1>26, <1>27, <1>28, SMT

\* The statements of SecondCentre.
LEMMA SecondLines ==
  ASSUME NEW k \in Keys, k = key, NEW c \in [Coef -> 0..(q - 1)], c = Hash[sig.nonce],
         NEW z1, NEW z0, NEW m,
         NEW j \in 1..20, Area(m, 56 + j, k, c, z1, z0)
  PROVE  Area(Apply(m, SecondCentre[j]), 56 + j + 1, k, c, z1, z0)
<1>a. /\ k.F \in Poly /\ Within(q2, k.F) /\ k.f \in Poly
      /\ Times(BigG(k), Adj(k.g)) \in Poly /\ Times(k.F, Adj(k.f)) \in Poly
      /\ CrossOf(k) \in Poly /\ CrtRange(CrossOf(k)) /\ c \in Poly /\ Within(q, k.F)
      /\ Minus(Const(0), k.F) \in Poly /\ Times(Minus(Const(0), k.F), c) \in Poly
  BY KeyValues, HashValues, Zenon
<1>1. CASE j = 1
  <2> DEFINE n == Apply(m, SecondCentre[1])
  <2>1. SecondCentre[1] = <<"F to mod2", 14>>
    BY Zenon DEF SecondCentre
  <2>2. /\ Carries(m, 0, "fft", Rest(k, c, z1)) /\ Carries(m, 16, "i16", z1)
        /\ Carries(m, 8, "i16", Centred(CrossOf(k), q))
        /\ Carries(m, 10, "ntt2", Times(BigG(k), Adj(k.g))) /\ Carries(m, 12, "ntt2", k.f)
        /\ Carries(m, 18, "i16", GramOf(k))
    BY <1>1, SMT DEF Area, Row
  <2>3. 14 \in 0..18
    BY SMT
  <2>4. /\ Apart(0, "fft", 14..(14 + 1)) /\ Apart(16, "i16", 14..(14 + 1))
        /\ Apart(8, "i16", 14..(14 + 1)) /\ Apart(10, "ntt2", 14..(14 + 1))
        /\ Apart(12, "ntt2", 14..(14 + 1)) /\ Apart(18, "i16", 14..(14 + 1))
    BY SizeIs, SMT DEF Apart
  <2>5. Carries(n, 14, "mod2", k.F) /\ Changes(m, n, 14..(14 + 1))
    BY <1>a, <2>1, <2>3, DoFToMod2, Zenon
  <2> HIDE DEF n
  <2>6. Area(n, 58, k, c, z1, z0)
    BY <2>2, <2>4, <2>5, Kept, SMT DEF Area, Row
  <2> QED
    BY <1>1, <2>6 DEF n
<1>2. CASE j = 2
  <2> DEFINE n == Apply(m, SecondCentre[2])
  <2>1. SecondCentre[2] = <<"NTT2", 14>>
    BY Zenon DEF SecondCentre
  <2>2. /\ Carries(m, 14, "mod2", k.F) /\ Carries(m, 0, "fft", Rest(k, c, z1))
        /\ Carries(m, 16, "i16", z1) /\ Carries(m, 8, "i16", Centred(CrossOf(k), q))
        /\ Carries(m, 10, "ntt2", Times(BigG(k), Adj(k.g))) /\ Carries(m, 12, "ntt2", k.f)
        /\ Carries(m, 18, "i16", GramOf(k))
    BY <1>2, SMT DEF Area, Row
  <2>3. 14 \in 0..18
    BY SMT
  <2>4. /\ Apart(0, "fft", 14..(14 + 1)) /\ Apart(16, "i16", 14..(14 + 1))
        /\ Apart(8, "i16", 14..(14 + 1)) /\ Apart(10, "ntt2", 14..(14 + 1))
        /\ Apart(12, "ntt2", 14..(14 + 1)) /\ Apart(18, "i16", 14..(14 + 1))
    BY SizeIs, SMT DEF Apart
  <2>5. Carries(n, 14, "ntt2", k.F) /\ Changes(m, n, 14..(14 + 1))
    BY <1>a, <2>1, <2>2, <2>3, DoNTT2, Zenon
  <2> HIDE DEF n
  <2>6. Area(n, 59, k, c, z1, z0)
    BY <2>2, <2>4, <2>5, Kept, SMT DEF Area, Row
  <2> QED
    BY <1>2, <2>6 DEF n
<1>3. CASE j = 3
  <2> DEFINE n == Apply(m, SecondCentre[3])
  <2>1. SecondCentre[3] = <<"muladj_ntt2", 14, 12>>
    BY Zenon DEF SecondCentre
  <2>2. /\ Carries(m, 14, "ntt2", k.F) /\ Carries(m, 12, "ntt2", k.f)
        /\ Carries(m, 0, "fft", Rest(k, c, z1)) /\ Carries(m, 16, "i16", z1)
        /\ Carries(m, 8, "i16", Centred(CrossOf(k), q))
        /\ Carries(m, 10, "ntt2", Times(BigG(k), Adj(k.g)))
        /\ Carries(m, 18, "i16", GramOf(k))
    BY <1>3, SMT DEF Area, Row
  <2>3. /\ 14 \in 0..18 /\ 12 \in 0..18
    BY SMT
  <2>4. /\ Apart(0, "fft", 14..(14 + 1)) /\ Apart(16, "i16", 14..(14 + 1))
        /\ Apart(8, "i16", 14..(14 + 1)) /\ Apart(10, "ntt2", 14..(14 + 1))
        /\ Apart(18, "i16", 14..(14 + 1))
    BY SizeIs, SMT DEF Apart
  <2>5. Carries(n, 14, "ntt2", Times(k.F, Adj(k.f))) /\ Changes(m, n, 14..(14 + 1))
    BY <1>a, <2>1, <2>2, <2>3, DoMuladjNtt2, Zenon
  <2> HIDE DEF n
  <2>6. Area(n, 60, k, c, z1, z0)
    BY <2>2, <2>4, <2>5, Kept, SMT DEF Area, Row
  <2> QED
    BY <1>3, <2>6 DEF n
<1>4. CASE j = 4
  <2> DEFINE n == Apply(m, SecondCentre[4])
  <2>1. SecondCentre[4] = <<"add2", 10, 14>>
    BY Zenon DEF SecondCentre
  <2>2. /\ Carries(m, 10, "ntt2", Times(BigG(k), Adj(k.g)))
        /\ Carries(m, 14, "ntt2", Times(k.F, Adj(k.f)))
        /\ Carries(m, 0, "fft", Rest(k, c, z1)) /\ Carries(m, 16, "i16", z1)
        /\ Carries(m, 8, "i16", Centred(CrossOf(k), q)) /\ Carries(m, 18, "i16", GramOf(k))
    BY <1>4, SMT DEF Area, Row
  <2>3. /\ 10 \in 0..18 /\ 14 \in 0..18
    BY SMT
  <2>4. /\ Apart(0, "fft", 10..(10 + 1)) /\ Apart(16, "i16", 10..(10 + 1))
        /\ Apart(8, "i16", 10..(10 + 1)) /\ Apart(18, "i16", 10..(10 + 1))
    BY SizeIs, SMT DEF Apart
  <2>5. Carries(n, 10, "ntt2", Plus(Times(BigG(k), Adj(k.g)), Times(k.F, Adj(k.f)))) /\ Changes(m, n, 10..(10 + 1))
    BY <1>a, <2>1, <2>2, <2>3, DoAdd2Ntt, Zenon
  <2>6. Carries(n, 10, "ntt2", CrossOf(k))
    BY <2>5, KeyNames, Zenon
  <2> HIDE DEF n
  <2>7. Area(n, 61, k, c, z1, z0)
    BY <2>2, <2>4, <2>5, <2>6, Kept, SMT DEF Area, Row
  <2> QED
    BY <1>4, <2>7 DEF n
<1>5. CASE j = 5
  <2> DEFINE n == Apply(m, SecondCentre[5])
  <2>1. SecondCentre[5] = <<"iNTT2", 10>>
    BY Zenon DEF SecondCentre
  <2>2. /\ Carries(m, 10, "ntt2", CrossOf(k)) /\ Carries(m, 0, "fft", Rest(k, c, z1))
        /\ Carries(m, 16, "i16", z1) /\ Carries(m, 8, "i16", Centred(CrossOf(k), q))
        /\ Carries(m, 18, "i16", GramOf(k))
    BY <1>5, SMT DEF Area, Row
  <2>3. 10 \in 0..18
    BY SMT
  <2>4. /\ Apart(0, "fft", 10..(10 + 1)) /\ Apart(16, "i16", 10..(10 + 1))
        /\ Apart(8, "i16", 10..(10 + 1)) /\ Apart(18, "i16", 10..(10 + 1))
    BY SizeIs, SMT DEF Apart
  <2>5. Carries(n, 10, "mod2", CrossOf(k)) /\ Changes(m, n, 10..(10 + 1))
    BY <1>a, <2>1, <2>2, <2>3, DoiNTT2, Zenon
  <2> HIDE DEF n
  <2>6. Area(n, 62, k, c, z1, z0)
    BY <2>2, <2>4, <2>5, Kept, SMT DEF Area, Row
  <2> QED
    BY <1>5, <2>6 DEF n
<1>6. CASE j = 6
  <2> DEFINE n == Apply(m, SecondCentre[6])
  <2>1. SecondCentre[6] = <<"mod2_to_signed", 10>>
    BY Zenon DEF SecondCentre
  <2>2. /\ Carries(m, 10, "mod2", CrossOf(k)) /\ Carries(m, 0, "fft", Rest(k, c, z1))
        /\ Carries(m, 16, "i16", z1) /\ Carries(m, 8, "i16", Centred(CrossOf(k), q))
        /\ Carries(m, 18, "i16", GramOf(k))
    BY <1>6, SMT DEF Area, Row
  <2>3. 10 \in 0..18
    BY SMT
  <2>4. /\ Apart(0, "fft", 10..(10 + 1)) /\ Apart(16, "i16", 10..(10 + 1))
        /\ Apart(8, "i16", 10..(10 + 1)) /\ Apart(18, "i16", 10..(10 + 1))
    BY SizeIs, SMT DEF Apart
  <2>5. Carries(n, 10, "i16", Centred(CrossOf(k), q2)) /\ Changes(m, n, 10..(10 + 1))
    BY <1>a, <2>1, <2>2, <2>3, DoMod2ToSigned, Zenon
  <2> HIDE DEF n
  <2>6. Area(n, 63, k, c, z1, z0)
    BY <2>2, <2>4, <2>5, Kept, SMT DEF Area, Row
  <2> QED
    BY <1>6, <2>6 DEF n
<1>7. CASE j = 7
  <2> DEFINE n == Apply(m, SecondCentre[7])
  <2>1. SecondCentre[7] = <<"CRT", 12, 8, 10>>
    BY Zenon DEF SecondCentre
  <2>2. /\ Carries(m, 8, "i16", Centred(CrossOf(k), q))
        /\ Carries(m, 10, "i16", Centred(CrossOf(k), q2))
        /\ Carries(m, 0, "fft", Rest(k, c, z1)) /\ Carries(m, 16, "i16", z1)
        /\ Carries(m, 18, "i16", GramOf(k))
    BY <1>7, SMT DEF Area, Row
  <2>3. /\ Apart(0, "fft", 12..15) /\ Apart(16, "i16", 12..15) /\ Apart(18, "i16", 12..15)
    BY SizeIs, SMT DEF Apart
  <2>4. Carries(n, 12, "i32", CrossOf(k)) /\ Changes(m, n, 12..15)
    BY <1>a, <2>1, <2>2, DoCrt, Zenon
  <2> HIDE DEF n
  <2>5. /\ Carries(n, 0, "fft", Rest(k, c, z1)) /\ Carries(n, 16, "i16", z1)
        /\ Carries(n, 18, "i16", GramOf(k))
    BY <2>2, <2>3, <2>4, Kept, SMT
  <2>6. Area(n, 64, k, c, z1, z0)
    BY <2>4, <2>5, SMT DEF Area, Row
  <2> QED
    BY <1>7, <2>6 DEF n
<1>8. CASE j = 8
  <2> DEFINE n == Apply(m, SecondCentre[8])
  <2>1. SecondCentre[8] = <<"FFT_int32", 8, 12>>
    BY Zenon DEF SecondCentre
  <2>2. /\ Carries(m, 12, "i32", CrossOf(k)) /\ Carries(m, 0, "fft", Rest(k, c, z1))
        /\ Carries(m, 16, "i16", z1) /\ Carries(m, 18, "i16", GramOf(k))
    BY <1>8, SMT DEF Area, Row
  <2>3. /\ 8 \in 0..12 /\ 12 \in 0..16
    BY SMT
  <2>4. /\ Apart(0, "fft", 8..(8 + 7)) /\ Apart(16, "i16", 8..(8 + 7))
        /\ Apart(18, "i16", 8..(8 + 7))
    BY SizeIs, SMT DEF Apart
  <2>5. Carries(n, 8, "fft", fpoly_FFT_int32(CrossOf(k))) /\ Changes(m, n, 8..(8 + 7))
    BY <1>a, <2>1, <2>2, <2>3, DoFftInt32, Zenon
  <2>6. Carries(n, 8, "fft", CrossFft(k))
    BY <2>5, Zenon DEF CrossFft
  <2> HIDE DEF n
  <2>7. Area(n, 65, k, c, z1, z0)
    BY <2>2, <2>4, <2>5, <2>6, Kept, SMT DEF Area, Row
  <2> QED
    BY <1>8, <2>7 DEF n
<1>9. CASE j = 9
  <2> DEFINE n == Apply(m, SecondCentre[9])
  <2>1. SecondCentre[9] = <<"mul_fft", 0, 8>>
    BY Zenon DEF SecondCentre
  <2>2. /\ Carries(m, 0, "fft", Rest(k, c, z1)) /\ Carries(m, 8, "fft", CrossFft(k))
        /\ Carries(m, 16, "i16", z1) /\ Carries(m, 18, "i16", GramOf(k))
    BY <1>9, SMT DEF Area, Row
  <2>3. /\ 0 \in 0..12 /\ 8 \in 0..12
    BY SMT
  <2>4. /\ Apart(16, "i16", 0..(0 + 7)) /\ Apart(18, "i16", 0..(0 + 7))
    BY SizeIs, SMT DEF Apart
  <2>5. Carries(n, 0, "fft", fpoly_mul_fft(Rest(k, c, z1), CrossFft(k))) /\ Changes(m, n, 0..(0 + 7))
    BY <1>a, <2>1, <2>2, <2>3, DoMulFft, Zenon
  <2>6. Carries(n, 0, "fft", Moved(k, c, z1))
    BY <2>5, Zenon DEF Moved
  <2> HIDE DEF n
  <2>7. Area(n, 66, k, c, z1, z0)
    BY <2>2, <2>4, <2>5, <2>6, Kept, SMT DEF Area, Row
  <2> QED
    BY <1>9, <2>7 DEF n
<1>10. CASE j = 10
  <2> DEFINE n == Apply(m, SecondCentre[10])
  <2>1. SecondCentre[10] = <<"FFT_int16_selfadj", 8, 18>>
    BY Zenon DEF SecondCentre
  <2>2. /\ Carries(m, 18, "i16", GramOf(k)) /\ Carries(m, 16, "i16", z1)
        /\ Carries(m, 0, "fft", Moved(k, c, z1))
    BY <1>10, SMT DEF Area, Row
  <2>3. /\ 8 \in 0..16 /\ 18 \in 0..18
    BY SMT
  <2>4. /\ Apart(16, "i16", 8..(8 + 3)) /\ Apart(0, "fft", 8..(8 + 3))
    BY SizeIs, SMT DEF Apart
  <2>5. Carries(n, 8, "fsa", fpoly_FFT_int16_selfadj(GramOf(k))) /\ Changes(m, n, 8..(8 + 3))
    BY <1>a, <2>1, <2>2, <2>3, DoFftSelfadj, Zenon
  <2>6. Carries(n, 8, "fsa", GramFft(k))
    BY <2>5, Zenon DEF GramFft
  <2> HIDE DEF n
  <2>7. Area(n, 67, k, c, z1, z0)
    BY <2>2, <2>4, <2>5, <2>6, Kept, SMT DEF Area, Row
  <2> QED
    BY <1>10, <2>7 DEF n
<1>11. CASE j = 11
  <2> DEFINE n == Apply(m, SecondCentre[11])
  <2>1. SecondCentre[11] = <<"div_selfadj_fft", 0, 8>>
    BY Zenon DEF SecondCentre
  <2>2. /\ Carries(m, 0, "fft", Moved(k, c, z1)) /\ Carries(m, 8, "fsa", GramFft(k))
        /\ Carries(m, 16, "i16", z1)
    BY <1>11, SMT DEF Area, Row
  <2>3. /\ 0 \in 0..12 /\ 8 \in 0..16
    BY SMT
  <2>4. /\ Apart(16, "i16", 0..(0 + 7)) /\ Apart(8, "fsa", 0..(0 + 7))
    BY SizeIs, SMT DEF Apart
  <2>5. Carries(n, 0, "fft", fpoly_div_selfadj_fft(Moved(k, c, z1), GramFft(k))) /\ Changes(m, n, 0..(0 + 7))
    BY <1>a, <2>1, <2>2, <2>3, DoDivSelfadj, Zenon
  <2>6. Carries(n, 0, "fft", Centre(k, c, z1))
    BY <2>5, Zenon DEF Centre
  <2> HIDE DEF n
  <2>7. Area(n, 68, k, c, z1, z0)
    BY <2>2, <2>4, <2>5, <2>6, Kept, SMT DEF Area, Row
  <2> QED
    BY <1>11, <2>7 DEF n
<1>12. CASE j = 12
  <2> DEFINE n == Apply(m, SecondCentre[12])
  <2>1. SecondCentre[12] = <<"hash_to_point", 12>>
    BY Zenon DEF SecondCentre
  <2>2. /\ Carries(m, 16, "i16", z1) /\ Carries(m, 8, "fsa", GramFft(k))
        /\ Carries(m, 0, "fft", Centre(k, c, z1))
    BY <1>12, SMT DEF Area, Row
  <2>3. 12 \in 0..18
    BY SMT
  <2>4. /\ Apart(16, "i16", 12..(12 + 1)) /\ Apart(8, "fsa", 12..(12 + 1))
        /\ Apart(0, "fft", 12..(12 + 1))
    BY SizeIs, SMT DEF Apart
  <2>5. Carries(n, 12, "ext", c) /\ Changes(m, n, 12..(12 + 1))
    BY <1>a, <2>1, <2>3, DoHash, Zenon
  <2> HIDE DEF n
  <2>6. Area(n, 69, k, c, z1, z0)
    BY <2>2, <2>4, <2>5, Kept, SMT DEF Area, Row
  <2> QED
    BY <1>12, <2>6 DEF n
<1>13. CASE j = 13
  <2> DEFINE n == Apply(m, SecondCentre[13])
  <2>1. SecondCentre[13] = <<"ext_to_int", 12>>
    BY Zenon DEF SecondCentre
  <2>2. /\ Carries(m, 12, "ext", c) /\ Carries(m, 16, "i16", z1)
        /\ Carries(m, 8, "fsa", GramFft(k)) /\ Carries(m, 0, "fft", Centre(k, c, z1))
    BY <1>13, SMT DEF Area, Row
  <2>3. 12 \in 0..18
    BY SMT
  <2>4. /\ Apart(16, "i16", 12..(12 + 1)) /\ Apart(8, "fsa", 12..(12 + 1))
        /\ Apart(0, "fft", 12..(12 + 1))
    BY SizeIs, SMT DEF Apart
  <2>5. Carries(n, 12, "int", c) /\ Changes(m, n, 12..(12 + 1))
    BY <1>a, <2>1, <2>2, <2>3, DoExtToInt, Zenon
  <2> HIDE DEF n
  <2>6. Area(n, 70, k, c, z1, z0)
    BY <2>2, <2>4, <2>5, Kept, SMT DEF Area, Row
  <2> QED
    BY <1>13, <2>6 DEF n
<1>14. CASE j = 14
  <2> DEFINE n == Apply(m, SecondCentre[14])
  <2>1. SecondCentre[14] = <<"int_to_ntt", 12>>
    BY Zenon DEF SecondCentre
  <2>2. /\ Carries(m, 12, "int", c) /\ Carries(m, 16, "i16", z1)
        /\ Carries(m, 8, "fsa", GramFft(k)) /\ Carries(m, 0, "fft", Centre(k, c, z1))
    BY <1>14, SMT DEF Area, Row
  <2>3. 12 \in 0..18
    BY SMT
  <2>4. /\ Apart(16, "i16", 12..(12 + 1)) /\ Apart(8, "fsa", 12..(12 + 1))
        /\ Apart(0, "fft", 12..(12 + 1))
    BY SizeIs, SMT DEF Apart
  <2>5. Carries(n, 12, "ntt", c) /\ Changes(m, n, 12..(12 + 1))
    BY <1>a, <2>1, <2>2, <2>3, DoIntToNtt, Zenon
  <2> HIDE DEF n
  <2>6. Area(n, 71, k, c, z1, z0)
    BY <2>2, <2>4, <2>5, Kept, SMT DEF Area, Row
  <2> QED
    BY <1>14, <2>6 DEF n
<1>15. CASE j = 15
  <2> DEFINE n == Apply(m, SecondCentre[15])
  <2>1. SecondCentre[15] = <<"F to int", 18>>
    BY Zenon DEF SecondCentre
  <2>2. /\ Carries(m, 16, "i16", z1) /\ Carries(m, 8, "fsa", GramFft(k))
        /\ Carries(m, 0, "fft", Centre(k, c, z1)) /\ Carries(m, 12, "ntt", c)
    BY <1>15, SMT DEF Area, Row
  <2>3. 18 \in 0..18
    BY SMT
  <2>4. /\ Apart(16, "i16", 18..(18 + 1)) /\ Apart(8, "fsa", 18..(18 + 1))
        /\ Apart(0, "fft", 18..(18 + 1)) /\ Apart(12, "ntt", 18..(18 + 1))
    BY SizeIs, SMT DEF Apart
  <2>5. Carries(n, 18, "int", k.F) /\ Changes(m, n, 18..(18 + 1))
    BY <1>a, <2>1, <2>3, DoFToInt, Zenon
  <2> HIDE DEF n
  <2>6. Area(n, 72, k, c, z1, z0)
    BY <2>2, <2>4, <2>5, Kept, SMT DEF Area, Row
  <2> QED
    BY <1>15, <2>6 DEF n
<1>16. CASE j = 16
  <2> DEFINE n == Apply(m, SecondCentre[16])
  <2>1. SecondCentre[16] = <<"int_to_ntt", 18>>
    BY Zenon DEF SecondCentre
  <2>2. /\ Carries(m, 18, "int", k.F) /\ Carries(m, 16, "i16", z1)
        /\ Carries(m, 8, "fsa", GramFft(k)) /\ Carries(m, 0, "fft", Centre(k, c, z1))
        /\ Carries(m, 12, "ntt", c)
    BY <1>16, SMT DEF Area, Row
  <2>3. 18 \in 0..18
    BY SMT
  <2>4. /\ Apart(16, "i16", 18..(18 + 1)) /\ Apart(8, "fsa", 18..(18 + 1))
        /\ Apart(0, "fft", 18..(18 + 1)) /\ Apart(12, "ntt", 18..(18 + 1))
    BY SizeIs, SMT DEF Apart
  <2>5. Carries(n, 18, "ntt", k.F) /\ Changes(m, n, 18..(18 + 1))
    BY <1>a, <2>1, <2>2, <2>3, DoIntToNtt, Zenon
  <2> HIDE DEF n
  <2>6. Area(n, 73, k, c, z1, z0)
    BY <2>2, <2>4, <2>5, Kept, SMT DEF Area, Row
  <2> QED
    BY <1>16, <2>6 DEF n
<1>17. CASE j = 17
  <2> DEFINE n == Apply(m, SecondCentre[17])
  <2>1. SecondCentre[17] = <<"neg", 18>>
    BY Zenon DEF SecondCentre
  <2>2. /\ Carries(m, 18, "ntt", k.F) /\ Carries(m, 16, "i16", z1)
        /\ Carries(m, 8, "fsa", GramFft(k)) /\ Carries(m, 0, "fft", Centre(k, c, z1))
        /\ Carries(m, 12, "ntt", c)
    BY <1>17, SMT DEF Area, Row
  <2>3. 18 \in 0..18
    BY SMT
  <2>4. /\ Apart(16, "i16", 18..(18 + 1)) /\ Apart(8, "fsa", 18..(18 + 1))
        /\ Apart(0, "fft", 18..(18 + 1)) /\ Apart(12, "ntt", 18..(18 + 1))
    BY SizeIs, SMT DEF Apart
  <2>5. Carries(n, 18, "ntt", Minus(Const(0), k.F)) /\ Changes(m, n, 18..(18 + 1))
    BY <1>a, <2>1, <2>2, <2>3, DoNeg, Zenon
  <2> HIDE DEF n
  <2>6. Area(n, 74, k, c, z1, z0)
    BY <2>2, <2>4, <2>5, Kept, SMT DEF Area, Row
  <2> QED
    BY <1>17, <2>6 DEF n
<1>18. CASE j = 18
  <2> DEFINE n == Apply(m, SecondCentre[18])
  <2>1. SecondCentre[18] = <<"mul_ntt", 18, 12>>
    BY Zenon DEF SecondCentre
  <2>2. /\ Carries(m, 18, "ntt", Minus(Const(0), k.F)) /\ Carries(m, 12, "ntt", c)
        /\ Carries(m, 16, "i16", z1) /\ Carries(m, 8, "fsa", GramFft(k))
        /\ Carries(m, 0, "fft", Centre(k, c, z1))
    BY <1>18, SMT DEF Area, Row
  <2>3. /\ 18 \in 0..18 /\ 12 \in 0..18
    BY SMT
  <2>4. /\ Apart(16, "i16", 18..(18 + 1)) /\ Apart(8, "fsa", 18..(18 + 1))
        /\ Apart(0, "fft", 18..(18 + 1))
    BY SizeIs, SMT DEF Apart
  <2>5. Carries(n, 18, "ntt", Times(Minus(Const(0), k.F), c)) /\ Changes(m, n, 18..(18 + 1))
    BY <1>a, <2>1, <2>2, <2>3, DoMulNtt, Zenon
  <2> HIDE DEF n
  <2>6. Area(n, 75, k, c, z1, z0)
    BY <2>2, <2>4, <2>5, Kept, SMT DEF Area, Row
  <2> QED
    BY <1>18, <2>6 DEF n
<1>19. CASE j = 19
  <2> DEFINE n == Apply(m, SecondCentre[19])
  <2>1. SecondCentre[19] = <<"ntt_to_int", 18>>
    BY Zenon DEF SecondCentre
  <2>2. /\ Carries(m, 18, "ntt", Times(Minus(Const(0), k.F), c))
        /\ Carries(m, 16, "i16", z1) /\ Carries(m, 8, "fsa", GramFft(k))
        /\ Carries(m, 0, "fft", Centre(k, c, z1))
    BY <1>19, SMT DEF Area, Row
  <2>3. 18 \in 0..18
    BY SMT
  <2>4. /\ Apart(16, "i16", 18..(18 + 1)) /\ Apart(8, "fsa", 18..(18 + 1))
        /\ Apart(0, "fft", 18..(18 + 1))
    BY SizeIs, SMT DEF Apart
  <2>5. Carries(n, 18, "int", Times(Minus(Const(0), k.F), c)) /\ Changes(m, n, 18..(18 + 1))
    BY <1>a, <2>1, <2>2, <2>3, DoNttToInt, Zenon
  <2> HIDE DEF n
  <2>6. Area(n, 76, k, c, z1, z0)
    BY <2>2, <2>4, <2>5, Kept, SMT DEF Area, Row
  <2> QED
    BY <1>19, <2>6 DEF n
<1>20. CASE j = 20
  <2> DEFINE n == Apply(m, SecondCentre[20])
  <2>1. SecondCentre[20] = <<"int_to_signed", 18>>
    BY Zenon DEF SecondCentre
  <2>2. /\ Carries(m, 18, "int", Times(Minus(Const(0), k.F), c))
        /\ Carries(m, 16, "i16", z1) /\ Carries(m, 8, "fsa", GramFft(k))
        /\ Carries(m, 0, "fft", Centre(k, c, z1))
    BY <1>20, SMT DEF Area, Row
  <2>3. 18 \in 0..18
    BY SMT
  <2>4. /\ Apart(16, "i16", 18..(18 + 1)) /\ Apart(8, "fsa", 18..(18 + 1))
        /\ Apart(0, "fft", 18..(18 + 1))
    BY SizeIs, SMT DEF Apart
  <2>5. Carries(n, 18, "i16", Centred(Times(Minus(Const(0), k.F), c), q)) /\ Changes(m, n, 18..(18 + 1))
    BY <1>a, <2>1, <2>2, <2>3, DoIntToSigned, Zenon
  <2>6. Carries(n, 18, "i16", NegcF(k, c))
    BY <2>5, Zenon DEF NegcF
  <2> HIDE DEF n
  <2>7. Area(n, 77, k, c, z1, z0)
    BY <2>2, <2>4, <2>5, <2>6, Kept, SMT DEF Area, Row
  <2> QED
    BY <1>20, <2>7 DEF n
<1> QED
  BY <1>1, <1>2, <1>3, <1>4, <1>5, <1>6, <1>7, <1>8, <1>9, <1>10, <1>11, <1>12, <1>13, <1>14, <1>15, <1>16, <1>17, <1>18, <1>19, <1>20, SMT

\* The statements of BuildS1.
LEMMA S1Lines ==
  ASSUME NEW k \in Keys, k = key, NEW c \in [Coef -> 0..(q - 1)], c = Hash[sig.nonce],
         NEW z1 \in Poly, Within(q2, z1), NEW z0 \in Poly, Within(q2, z0), NEW m,
         NEW j \in 1..34, Area(m, 77 + j, k, c, z1, z0)
  PROVE  Area(Apply(m, BuildS1[j]), 77 + j + 1, k, c, z1, z0)
<1>a. /\ c \in Poly /\ k.f \in Poly /\ Within(q, k.f) /\ k.F \in Poly /\ Within(q, k.F)
      /\ Times(c, k.f) \in Poly /\ Times(c, k.F) \in Poly /\ cFMod(k, c) \in Poly
      /\ Within(q2, cFMod(k, c)) /\ z0 \in Poly /\ Within(q2, z0)
      /\ Scaled(3, cFMod(k, c)) \in Poly /\ Z0(k, c, z0) \in Poly /\ cfMod(k, c) \in Poly
      /\ Within(q2, cfMod(k, c)) /\ z1 \in Poly /\ Within(q2, z1)
      /\ Scaled(3, cfMod(k, c)) \in Poly /\ Z1(k, c, z1) \in Poly /\ Within(q2, k.f)
      /\ Within(q2, k.F) /\ Times(Z0(k, c, z0), k.f) \in Poly
      /\ Times(Z1(k, c, z1), k.F) \in Poly /\ SumS1(k, c, z1, z0) \in Poly
  BY KeyValues, HashValues, S1Values, Zenon
<1>1. CASE j = 1
  <2> DEFINE n == Apply(m, BuildS1[1])
  <2>1. BuildS1[1] = <<"hash_to_point", 2>>
    BY Zenon DEF BuildS1
  <2>2. /\ Carries(m, 16, "i16", z1) /\ Carries(m, 18, "i16", z0)
    BY <1>1, SMT DEF Area, Row
  <2>3. 2 \in 0..18
    BY SMT
  <2>4. /\ Apart(16, "i16", 2..(2 + 1)) /\ Apart(18, "i16", 2..(2 + 1))
    BY SizeIs, SMT DEF Apart
  <2>5. Carries(n, 2, "ext", c) /\ Changes(m, n, 2..(2 + 1))
    BY <1>a, <2>1, <2>3, DoHash, Zenon
  <2> HIDE DEF n
  <2>6. Area(n, 79, k, c, z1, z0)
    BY <2>2, <2>4, <2>5, Kept, SMT DEF Area, Row
  <2> QED
    BY <1>1, <2>6 DEF n
<1>2. CASE j = 2
  <2> DEFINE n == Apply(m, BuildS1[2])
  <2>1. BuildS1[2] = <<"ext_to_int", 2>>
    BY Zenon DEF BuildS1
  <2>2. /\ Carries(m, 2, "ext", c) /\ Carries(m, 16, "i16", z1)
        /\ Carries(m, 18, "i16", z0)
    BY <1>2, SMT DEF Area, Row
  <2>3. 2 \in 0..18
    BY SMT
  <2>4. /\ Apart(16, "i16", 2..(2 + 1)) /\ Apart(18, "i16", 2..(2 + 1))
    BY SizeIs, SMT DEF Apart
  <2>5. Carries(n, 2, "int", c) /\ Changes(m, n, 2..(2 + 1))
    BY <1>a, <2>1, <2>2, <2>3, DoExtToInt, Zenon
  <2> HIDE DEF n
  <2>6. Area(n, 80, k, c, z1, z0)
    BY <2>2, <2>4, <2>5, Kept, SMT DEF Area, Row
  <2> QED
    BY <1>2, <2>6 DEF n
<1>3. CASE j = 3
  <2> DEFINE n == Apply(m, BuildS1[3])
  <2>1. BuildS1[3] = <<"int_to_ntt", 2>>
    BY Zenon DEF BuildS1
  <2>2. /\ Carries(m, 2, "int", c) /\ Carries(m, 16, "i16", z1)
        /\ Carries(m, 18, "i16", z0)
    BY <1>3, SMT DEF Area, Row
  <2>3. 2 \in 0..18
    BY SMT
  <2>4. /\ Apart(16, "i16", 2..(2 + 1)) /\ Apart(18, "i16", 2..(2 + 1))
    BY SizeIs, SMT DEF Apart
  <2>5. Carries(n, 2, "ntt", c) /\ Changes(m, n, 2..(2 + 1))
    BY <1>a, <2>1, <2>2, <2>3, DoIntToNtt, Zenon
  <2> HIDE DEF n
  <2>6. Area(n, 81, k, c, z1, z0)
    BY <2>2, <2>4, <2>5, Kept, SMT DEF Area, Row
  <2> QED
    BY <1>3, <2>6 DEF n
<1>4. CASE j = 4
  <2> DEFINE n == Apply(m, BuildS1[4])
  <2>1. BuildS1[4] = <<"decode f", 12>>
    BY Zenon DEF BuildS1
  <2>2. /\ Carries(m, 16, "i16", z1) /\ Carries(m, 18, "i16", z0)
        /\ Carries(m, 2, "ntt", c)
    BY <1>4, SMT DEF Area, Row
  <2>3. 12 \in 0..19
    BY SMT
  <2>4. /\ Apart(16, "i16", 12..12) /\ Apart(18, "i16", 12..12) /\ Apart(2, "ntt", 12..12)
    BY SizeIs, SMT DEF Apart
  <2>5. Carries(n, 12, "small", k.f) /\ Changes(m, n, 12..12)
    BY <1>a, <2>1, <2>3, DoDecode, Zenon
  <2> HIDE DEF n
  <2>6. Area(n, 82, k, c, z1, z0)
    BY <2>2, <2>4, <2>5, Kept, SMT DEF Area, Row
  <2> QED
    BY <1>4, <2>6 DEF n
<1>5. CASE j = 5
  <2> DEFINE n == Apply(m, BuildS1[5])
  <2>1. BuildS1[5] = <<"small_to_int", 12, 4>>
    BY Zenon DEF BuildS1
  <2>2. /\ Carries(m, 12, "small", k.f) /\ Carries(m, 16, "i16", z1)
        /\ Carries(m, 18, "i16", z0) /\ Carries(m, 2, "ntt", c)
    BY <1>5, SMT DEF Area, Row
  <2>3. /\ 12 \in 0..18 /\ 4 \in 0..18
    BY SMT
  <2>4. /\ Apart(16, "i16", 4..(4 + 1)) /\ Apart(18, "i16", 4..(4 + 1))
        /\ Apart(2, "ntt", 4..(4 + 1)) /\ Apart(12, "small", 4..(4 + 1))
    BY SizeIs, SMT DEF Apart
  <2>5. Carries(n, 4, "int", k.f) /\ Changes(m, n, 4..(4 + 1))
    BY <1>a, <2>1, <2>2, <2>3, DoSmallToInt, Zenon
  <2> HIDE DEF n
  <2>6. Area(n, 83, k, c, z1, z0)
    BY <2>2, <2>4, <2>5, Kept, SMT DEF Area, Row
  <2> QED
    BY <1>5, <2>6 DEF n
<1>6. CASE j = 6
  <2> DEFINE n == Apply(m, BuildS1[6])
  <2>1. BuildS1[6] = <<"int_to_ntt", 4>>
    BY Zenon DEF BuildS1
  <2>2. /\ Carries(m, 4, "int", k.f) /\ Carries(m, 16, "i16", z1)
        /\ Carries(m, 18, "i16", z0) /\ Carries(m, 2, "ntt", c)
        /\ Carries(m, 12, "small", k.f)
    BY <1>6, SMT DEF Area, Row
  <2>3. 4 \in 0..18
    BY SMT
  <2>4. /\ Apart(16, "i16", 4..(4 + 1)) /\ Apart(18, "i16", 4..(4 + 1))
        /\ Apart(2, "ntt", 4..(4 + 1)) /\ Apart(12, "small", 4..(4 + 1))
    BY SizeIs, SMT DEF Apart
  <2>5. Carries(n, 4, "ntt", k.f) /\ Changes(m, n, 4..(4 + 1))
    BY <1>a, <2>1, <2>2, <2>3, DoIntToNtt, Zenon
  <2> HIDE DEF n
  <2>6. Area(n, 84, k, c, z1, z0)
    BY <2>2, <2>4, <2>5, Kept, SMT DEF Area, Row
  <2> QED
    BY <1>6, <2>6 DEF n
<1>7. CASE j = 7
  <2> DEFINE n == Apply(m, BuildS1[7])
  <2>1. BuildS1[7] = <<"F to int", 6>>
    BY Zenon DEF BuildS1
  <2>2. /\ Carries(m, 16, "i16", z1) /\ Carries(m, 18, "i16", z0)
        /\ Carries(m, 2, "ntt", c) /\ Carries(m, 12, "small", k.f)
        /\ Carries(m, 4, "ntt", k.f)
    BY <1>7, SMT DEF Area, Row
  <2>3. 6 \in 0..18
    BY SMT
  <2>4. /\ Apart(16, "i16", 6..(6 + 1)) /\ Apart(18, "i16", 6..(6 + 1))
        /\ Apart(2, "ntt", 6..(6 + 1)) /\ Apart(12, "small", 6..(6 + 1))
        /\ Apart(4, "ntt", 6..(6 + 1))
    BY SizeIs, SMT DEF Apart
  <2>5. Carries(n, 6, "int", k.F) /\ Changes(m, n, 6..(6 + 1))
    BY <1>a, <2>1, <2>3, DoFToInt, Zenon
  <2> HIDE DEF n
  <2>6. Area(n, 85, k, c, z1, z0)
    BY <2>2, <2>4, <2>5, Kept, SMT DEF Area, Row
  <2> QED
    BY <1>7, <2>6 DEF n
<1>8. CASE j = 8
  <2> DEFINE n == Apply(m, BuildS1[8])
  <2>1. BuildS1[8] = <<"int_to_ntt", 6>>
    BY Zenon DEF BuildS1
  <2>2. /\ Carries(m, 6, "int", k.F) /\ Carries(m, 16, "i16", z1)
        /\ Carries(m, 18, "i16", z0) /\ Carries(m, 2, "ntt", c)
        /\ Carries(m, 12, "small", k.f) /\ Carries(m, 4, "ntt", k.f)
    BY <1>8, SMT DEF Area, Row
  <2>3. 6 \in 0..18
    BY SMT
  <2>4. /\ Apart(16, "i16", 6..(6 + 1)) /\ Apart(18, "i16", 6..(6 + 1))
        /\ Apart(2, "ntt", 6..(6 + 1)) /\ Apart(12, "small", 6..(6 + 1))
        /\ Apart(4, "ntt", 6..(6 + 1))
    BY SizeIs, SMT DEF Apart
  <2>5. Carries(n, 6, "ntt", k.F) /\ Changes(m, n, 6..(6 + 1))
    BY <1>a, <2>1, <2>2, <2>3, DoIntToNtt, Zenon
  <2> HIDE DEF n
  <2>6. Area(n, 86, k, c, z1, z0)
    BY <2>2, <2>4, <2>5, Kept, SMT DEF Area, Row
  <2> QED
    BY <1>8, <2>6 DEF n
<1>9. CASE j = 9
  <2> DEFINE n == Apply(m, BuildS1[9])
  <2>1. BuildS1[9] = <<"memcpy", 8, 2>>
    BY Zenon DEF BuildS1
  <2>2. /\ Carries(m, 2, "ntt", c) /\ Carries(m, 16, "i16", z1)
        /\ Carries(m, 18, "i16", z0) /\ Carries(m, 12, "small", k.f)
        /\ Carries(m, 4, "ntt", k.f) /\ Carries(m, 6, "ntt", k.F)
    BY <1>9, SMT DEF Area, Row
  <2>3. /\ 8 \in 0..18 /\ 2 \in 0..18 /\ "ntt" \in {"ntt", "ntt2", "i16"}
    BY SMT
  <2>4. /\ Apart(16, "i16", 8..(8 + 1)) /\ Apart(18, "i16", 8..(8 + 1))
        /\ Apart(2, "ntt", 8..(8 + 1)) /\ Apart(12, "small", 8..(8 + 1))
        /\ Apart(4, "ntt", 8..(8 + 1)) /\ Apart(6, "ntt", 8..(8 + 1))
    BY SizeIs, SMT DEF Apart
  <2>5. Carries(n, 8, "ntt", c) /\ Changes(m, n, 8..(8 + 1))
    BY <1>a, <2>1, <2>2, <2>3, DoMemcpy, Zenon
  <2> HIDE DEF n
  <2>6. Area(n, 87, k, c, z1, z0)
    BY <2>2, <2>4, <2>5, Kept, SMT DEF Area, Row
  <2> QED
    BY <1>9, <2>6 DEF n
<1>10. CASE j = 10
  <2> DEFINE n == Apply(m, BuildS1[10])
  <2>1. BuildS1[10] = <<"mul_ntt", 8, 4>>
    BY Zenon DEF BuildS1
  <2>2. /\ Carries(m, 8, "ntt", c) /\ Carries(m, 4, "ntt", k.f)
        /\ Carries(m, 16, "i16", z1) /\ Carries(m, 18, "i16", z0)
        /\ Carries(m, 2, "ntt", c) /\ Carries(m, 12, "small", k.f)
        /\ Carries(m, 6, "ntt", k.F)
    BY <1>10, SMT DEF Area, Row
  <2>3. /\ 8 \in 0..18 /\ 4 \in 0..18
    BY SMT
  <2>4. /\ Apart(16, "i16", 8..(8 + 1)) /\ Apart(18, "i16", 8..(8 + 1))
        /\ Apart(2, "ntt", 8..(8 + 1)) /\ Apart(12, "small", 8..(8 + 1))
        /\ Apart(4, "ntt", 8..(8 + 1)) /\ Apart(6, "ntt", 8..(8 + 1))
    BY SizeIs, SMT DEF Apart
  <2>5. Carries(n, 8, "ntt", Times(c, k.f)) /\ Changes(m, n, 8..(8 + 1))
    BY <1>a, <2>1, <2>2, <2>3, DoMulNtt, Zenon
  <2> HIDE DEF n
  <2>6. Area(n, 88, k, c, z1, z0)
    BY <2>2, <2>4, <2>5, Kept, SMT DEF Area, Row
  <2> QED
    BY <1>10, <2>6 DEF n
<1>11. CASE j = 11
  <2> DEFINE n == Apply(m, BuildS1[11])
  <2>1. BuildS1[11] = <<"ntt_to_int", 8>>
    BY Zenon DEF BuildS1
  <2>2. /\ Carries(m, 8, "ntt", Times(c, k.f)) /\ Carries(m, 16, "i16", z1)
        /\ Carries(m, 18, "i16", z0) /\ Carries(m, 2, "ntt", c)
        /\ Carries(m, 12, "small", k.f) /\ Carries(m, 4, "ntt", k.f)
        /\ Carries(m, 6, "ntt", k.F)
    BY <1>11, SMT DEF Area, Row
  <2>3. 8 \in 0..18
    BY SMT
  <2>4. /\ Apart(16, "i16", 8..(8 + 1)) /\ Apart(18, "i16", 8..(8 + 1))
        /\ Apart(2, "ntt", 8..(8 + 1)) /\ Apart(12, "small", 8..(8 + 1))
        /\ Apart(4, "ntt", 8..(8 + 1)) /\ Apart(6, "ntt", 8..(8 + 1))
    BY SizeIs, SMT DEF Apart
  <2>5. Carries(n, 8, "int", Times(c, k.f)) /\ Changes(m, n, 8..(8 + 1))
    BY <1>a, <2>1, <2>2, <2>3, DoNttToInt, Zenon
  <2> HIDE DEF n
  <2>6. Area(n, 89, k, c, z1, z0)
    BY <2>2, <2>4, <2>5, Kept, SMT DEF Area, Row
  <2> QED
    BY <1>11, <2>6 DEF n
<1>12. CASE j = 12
  <2> DEFINE n == Apply(m, BuildS1[12])
  <2>1. BuildS1[12] = <<"int_to_signed", 8>>
    BY Zenon DEF BuildS1
  <2>2. /\ Carries(m, 8, "int", Times(c, k.f)) /\ Carries(m, 16, "i16", z1)
        /\ Carries(m, 18, "i16", z0) /\ Carries(m, 2, "ntt", c)
        /\ Carries(m, 12, "small", k.f) /\ Carries(m, 4, "ntt", k.f)
        /\ Carries(m, 6, "ntt", k.F)
    BY <1>12, SMT DEF Area, Row
  <2>3. 8 \in 0..18
    BY SMT
  <2>4. /\ Apart(16, "i16", 8..(8 + 1)) /\ Apart(18, "i16", 8..(8 + 1))
        /\ Apart(2, "ntt", 8..(8 + 1)) /\ Apart(12, "small", 8..(8 + 1))
        /\ Apart(4, "ntt", 8..(8 + 1)) /\ Apart(6, "ntt", 8..(8 + 1))
    BY SizeIs, SMT DEF Apart
  <2>5. Carries(n, 8, "i16", Centred(Times(c, k.f), q)) /\ Changes(m, n, 8..(8 + 1))
    BY <1>a, <2>1, <2>2, <2>3, DoIntToSigned, Zenon
  <2>6. Carries(n, 8, "i16", cfMod(k, c))
    BY <2>5, Zenon DEF cfMod
  <2> HIDE DEF n
  <2>7. Area(n, 90, k, c, z1, z0)
    BY <2>2, <2>4, <2>5, <2>6, Kept, SMT DEF Area, Row
  <2> QED
    BY <1>12, <2>7 DEF n
<1>13. CASE j = 13
  <2> DEFINE n == Apply(m, BuildS1[13])
  <2>1. BuildS1[13] = <<"mul_ntt", 6, 2>>
    BY Zenon DEF BuildS1
  <2>2. /\ Carries(m, 6, "ntt", k.F) /\ Carries(m, 2, "ntt", c)
        /\ Carries(m, 16, "i16", z1) /\ Carries(m, 18, "i16", z0)
        /\ Carries(m, 12, "small", k.f) /\ Carries(m, 4, "ntt", k.f)
        /\ Carries(m, 8, "i16", cfMod(k, c))
    BY <1>13, SMT DEF Area, Row
  <2>3. /\ 6 \in 0..18 /\ 2 \in 0..18
    BY SMT
  <2>4. /\ Apart(16, "i16", 6..(6 + 1)) /\ Apart(18, "i16", 6..(6 + 1))
        /\ Apart(2, "ntt", 6..(6 + 1)) /\ Apart(12, "small", 6..(6 + 1))
        /\ Apart(4, "ntt", 6..(6 + 1)) /\ Apart(8, "i16", 6..(6 + 1))
    BY SizeIs, SMT DEF Apart
  <2>5. Carries(n, 6, "ntt", Times(k.F, c)) /\ Changes(m, n, 6..(6 + 1))
    BY <1>a, <2>1, <2>2, <2>3, DoMulNtt, Zenon
  <2>6. Carries(n, 6, "ntt", Times(c, k.F))
    BY <2>5, HashValues, Zenon
  <2> HIDE DEF n
  <2>7. Area(n, 91, k, c, z1, z0)
    BY <2>2, <2>4, <2>5, <2>6, Kept, SMT DEF Area, Row
  <2> QED
    BY <1>13, <2>7 DEF n
<1>14. CASE j = 14
  <2> DEFINE n == Apply(m, BuildS1[14])
  <2>1. BuildS1[14] = <<"ntt_to_int", 6>>
    BY Zenon DEF BuildS1
  <2>2. /\ Carries(m, 6, "ntt", Times(c, k.F)) /\ Carries(m, 16, "i16", z1)
        /\ Carries(m, 18, "i16", z0) /\ Carries(m, 2, "ntt", c)
        /\ Carries(m, 12, "small", k.f) /\ Carries(m, 4, "ntt", k.f)
        /\ Carries(m, 8, "i16", cfMod(k, c))
    BY <1>14, SMT DEF Area, Row
  <2>3. 6 \in 0..18
    BY SMT
  <2>4. /\ Apart(16, "i16", 6..(6 + 1)) /\ Apart(18, "i16", 6..(6 + 1))
        /\ Apart(2, "ntt", 6..(6 + 1)) /\ Apart(12, "small", 6..(6 + 1))
        /\ Apart(4, "ntt", 6..(6 + 1)) /\ Apart(8, "i16", 6..(6 + 1))
    BY SizeIs, SMT DEF Apart
  <2>5. Carries(n, 6, "int", Times(c, k.F)) /\ Changes(m, n, 6..(6 + 1))
    BY <1>a, <2>1, <2>2, <2>3, DoNttToInt, Zenon
  <2> HIDE DEF n
  <2>6. Area(n, 92, k, c, z1, z0)
    BY <2>2, <2>4, <2>5, Kept, SMT DEF Area, Row
  <2> QED
    BY <1>14, <2>6 DEF n
<1>15. CASE j = 15
  <2> DEFINE n == Apply(m, BuildS1[15])
  <2>1. BuildS1[15] = <<"int_to_signed", 6>>
    BY Zenon DEF BuildS1
  <2>2. /\ Carries(m, 6, "int", Times(c, k.F)) /\ Carries(m, 16, "i16", z1)
        /\ Carries(m, 18, "i16", z0) /\ Carries(m, 2, "ntt", c)
        /\ Carries(m, 12, "small", k.f) /\ Carries(m, 4, "ntt", k.f)
        /\ Carries(m, 8, "i16", cfMod(k, c))
    BY <1>15, SMT DEF Area, Row
  <2>3. 6 \in 0..18
    BY SMT
  <2>4. /\ Apart(16, "i16", 6..(6 + 1)) /\ Apart(18, "i16", 6..(6 + 1))
        /\ Apart(2, "ntt", 6..(6 + 1)) /\ Apart(12, "small", 6..(6 + 1))
        /\ Apart(4, "ntt", 6..(6 + 1)) /\ Apart(8, "i16", 6..(6 + 1))
    BY SizeIs, SMT DEF Apart
  <2>5. Carries(n, 6, "i16", Centred(Times(c, k.F), q)) /\ Changes(m, n, 6..(6 + 1))
    BY <1>a, <2>1, <2>2, <2>3, DoIntToSigned, Zenon
  <2>6. Carries(n, 6, "i16", cFMod(k, c))
    BY <2>5, Zenon DEF cFMod
  <2> HIDE DEF n
  <2>7. Area(n, 93, k, c, z1, z0)
    BY <2>2, <2>4, <2>5, <2>6, Kept, SMT DEF Area, Row
  <2> QED
    BY <1>15, <2>7 DEF n
<1>16. CASE j = 16
  <2> DEFINE n == Apply(m, BuildS1[16])
  <2>1. BuildS1[16] = <<"signed_to_mod2", 6>>
    BY Zenon DEF BuildS1
  <2>2. /\ Carries(m, 6, "i16", cFMod(k, c)) /\ Carries(m, 16, "i16", z1)
        /\ Carries(m, 18, "i16", z0) /\ Carries(m, 2, "ntt", c)
        /\ Carries(m, 12, "small", k.f) /\ Carries(m, 4, "ntt", k.f)
        /\ Carries(m, 8, "i16", cfMod(k, c))
    BY <1>16, SMT DEF Area, Row
  <2>3. 6 \in 0..18
    BY SMT
  <2>4. /\ Apart(16, "i16", 6..(6 + 1)) /\ Apart(18, "i16", 6..(6 + 1))
        /\ Apart(2, "ntt", 6..(6 + 1)) /\ Apart(12, "small", 6..(6 + 1))
        /\ Apart(4, "ntt", 6..(6 + 1)) /\ Apart(8, "i16", 6..(6 + 1))
    BY SizeIs, SMT DEF Apart
  <2>5. Carries(n, 6, "mod2", cFMod(k, c)) /\ Changes(m, n, 6..(6 + 1))
    BY <1>a, <2>1, <2>2, <2>3, DoSignedToMod2, Zenon
  <2> HIDE DEF n
  <2>6. Area(n, 94, k, c, z1, z0)
    BY <2>2, <2>4, <2>5, Kept, SMT DEF Area, Row
  <2> QED
    BY <1>16, <2>6 DEF n
<1>17. CASE j = 17
  <2> DEFINE n == Apply(m, BuildS1[17])
  <2>1. BuildS1[17] = <<"divq2", 6>>
    BY Zenon DEF BuildS1
  <2>2. /\ Carries(m, 6, "mod2", cFMod(k, c)) /\ Carries(m, 16, "i16", z1)
        /\ Carries(m, 18, "i16", z0) /\ Carries(m, 2, "ntt", c)
        /\ Carries(m, 12, "small", k.f) /\ Carries(m, 4, "ntt", k.f)
        /\ Carries(m, 8, "i16", cfMod(k, c))
    BY <1>17, SMT DEF Area, Row
  <2>3. 6 \in 0..18
    BY SMT
  <2>4. /\ Apart(16, "i16", 6..(6 + 1)) /\ Apart(18, "i16", 6..(6 + 1))
        /\ Apart(2, "ntt", 6..(6 + 1)) /\ Apart(12, "small", 6..(6 + 1))
        /\ Apart(4, "ntt", 6..(6 + 1)) /\ Apart(8, "i16", 6..(6 + 1))
    BY SizeIs, SMT DEF Apart
  <2>5. Carries(n, 6, "mod2", Scaled(3, cFMod(k, c))) /\ Changes(m, n, 6..(6 + 1))
    BY <1>a, <2>1, <2>2, <2>3, DoDivq2, Zenon
  <2> HIDE DEF n
  <2>6. Area(n, 95, k, c, z1, z0)
    BY <2>2, <2>4, <2>5, Kept, SMT DEF Area, Row
  <2> QED
    BY <1>17, <2>6 DEF n
<1>18. CASE j = 18
  <2> DEFINE n == Apply(m, BuildS1[18])
  <2>1. BuildS1[18] = <<"signed_to_mod2", 18>>
    BY Zenon DEF BuildS1
  <2>2. /\ Carries(m, 18, "i16", z0) /\ Carries(m, 16, "i16", z1)
        /\ Carries(m, 2, "ntt", c) /\ Carries(m, 12, "small", k.f)
        /\ Carries(m, 4, "ntt", k.f) /\ Carries(m, 8, "i16", cfMod(k, c))
        /\ Carries(m, 6, "mod2", Scaled(3, cFMod(k, c)))
    BY <1>18, SMT DEF Area, Row
  <2>3. 18 \in 0..18
    BY SMT
  <2>4. /\ Apart(16, "i16", 18..(18 + 1)) /\ Apart(2, "ntt", 18..(18 + 1))
        /\ Apart(12, "small", 18..(18 + 1)) /\ Apart(4, "ntt", 18..(18 + 1))
        /\ Apart(8, "i16", 18..(18 + 1)) /\ Apart(6, "mod2", 18..(18 + 1))
    BY SizeIs, SMT DEF Apart
  <2>5. Carries(n, 18, "mod2", z0) /\ Changes(m, n, 18..(18 + 1))
    BY <1>a, <2>1, <2>2, <2>3, DoSignedToMod2, Zenon
  <2> HIDE DEF n
  <2>6. Area(n, 96, k, c, z1, z0)
    BY <2>2, <2>4, <2>5, Kept, SMT DEF Area, Row
  <2> QED
    BY <1>18, <2>6 DEF n
<1>19. CASE j = 19
  <2> DEFINE n == Apply(m, BuildS1[19])
  <2>1. BuildS1[19] = <<"add2", 6, 18>>
    BY Zenon DEF BuildS1
  <2>2. /\ Carries(m, 6, "mod2", Scaled(3, cFMod(k, c))) /\ Carries(m, 18, "mod2", z0)
        /\ Carries(m, 16, "i16", z1) /\ Carries(m, 2, "ntt", c)
        /\ Carries(m, 12, "small", k.f) /\ Carries(m, 4, "ntt", k.f)
        /\ Carries(m, 8, "i16", cfMod(k, c))
    BY <1>19, SMT DEF Area, Row
  <2>3. /\ 6 \in 0..18 /\ 18 \in 0..18
    BY SMT
  <2>4. /\ Apart(16, "i16", 6..(6 + 1)) /\ Apart(2, "ntt", 6..(6 + 1))
        /\ Apart(12, "small", 6..(6 + 1)) /\ Apart(4, "ntt", 6..(6 + 1))
        /\ Apart(8, "i16", 6..(6 + 1))
    BY SizeIs, SMT DEF Apart
  <2>5. Carries(n, 6, "mod2", Plus(Scaled(3, cFMod(k, c)), z0)) /\ Changes(m, n, 6..(6 + 1))
    BY <1>a, <2>1, <2>2, <2>3, DoAdd2, Zenon
  <2>6. Carries(n, 6, "mod2", Z0(k, c, z0))
    BY <2>5, Zenon DEF Z0
  <2> HIDE DEF n
  <2>7. Area(n, 97, k, c, z1, z0)
    BY <2>2, <2>4, <2>5, <2>6, Kept, SMT DEF Area, Row
  <2> QED
    BY <1>19, <2>7 DEF n
<1>20. CASE j = 20
  <2> DEFINE n == Apply(m, BuildS1[20])
  <2>1. BuildS1[20] = <<"NTT2", 6>>
    BY Zenon DEF BuildS1
  <2>2. /\ Carries(m, 6, "mod2", Z0(k, c, z0)) /\ Carries(m, 16, "i16", z1)
        /\ Carries(m, 2, "ntt", c) /\ Carries(m, 12, "small", k.f)
        /\ Carries(m, 4, "ntt", k.f) /\ Carries(m, 8, "i16", cfMod(k, c))
    BY <1>20, SMT DEF Area, Row
  <2>3. 6 \in 0..18
    BY SMT
  <2>4. /\ Apart(16, "i16", 6..(6 + 1)) /\ Apart(2, "ntt", 6..(6 + 1))
        /\ Apart(12, "small", 6..(6 + 1)) /\ Apart(4, "ntt", 6..(6 + 1))
        /\ Apart(8, "i16", 6..(6 + 1))
    BY SizeIs, SMT DEF Apart
  <2>5. Carries(n, 6, "ntt2", Z0(k, c, z0)) /\ Changes(m, n, 6..(6 + 1))
    BY <1>a, <2>1, <2>2, <2>3, DoNTT2, Zenon
  <2> HIDE DEF n
  <2>6. Area(n, 98, k, c, z1, z0)
    BY <2>2, <2>4, <2>5, Kept, SMT DEF Area, Row
  <2> QED
    BY <1>20, <2>6 DEF n
<1>21. CASE j = 21
  <2> DEFINE n == Apply(m, BuildS1[21])
  <2>1. BuildS1[21] = <<"signed_to_mod2", 8>>
    BY Zenon DEF BuildS1
  <2>2. /\ Carries(m, 8, "i16", cfMod(k, c)) /\ Carries(m, 16, "i16", z1)
        /\ Carries(m, 2, "ntt", c) /\ Carries(m, 12, "small", k.f)
        /\ Carries(m, 4, "ntt", k.f) /\ Carries(m, 6, "ntt2", Z0(k, c, z0))
    BY <1>21, SMT DEF Area, Row
  <2>3. 8 \in 0..18
    BY SMT
  <2>4. /\ Apart(16, "i16", 8..(8 + 1)) /\ Apart(2, "ntt", 8..(8 + 1))
        /\ Apart(12, "small", 8..(8 + 1)) /\ Apart(4, "ntt", 8..(8 + 1))
        /\ Apart(6, "ntt2", 8..(8 + 1))
    BY SizeIs, SMT DEF Apart
  <2>5. Carries(n, 8, "mod2", cfMod(k, c)) /\ Changes(m, n, 8..(8 + 1))
    BY <1>a, <2>1, <2>2, <2>3, DoSignedToMod2, Zenon
  <2> HIDE DEF n
  <2>6. Area(n, 99, k, c, z1, z0)
    BY <2>2, <2>4, <2>5, Kept, SMT DEF Area, Row
  <2> QED
    BY <1>21, <2>6 DEF n
<1>22. CASE j = 22
  <2> DEFINE n == Apply(m, BuildS1[22])
  <2>1. BuildS1[22] = <<"divq2", 8>>
    BY Zenon DEF BuildS1
  <2>2. /\ Carries(m, 8, "mod2", cfMod(k, c)) /\ Carries(m, 16, "i16", z1)
        /\ Carries(m, 2, "ntt", c) /\ Carries(m, 12, "small", k.f)
        /\ Carries(m, 4, "ntt", k.f) /\ Carries(m, 6, "ntt2", Z0(k, c, z0))
    BY <1>22, SMT DEF Area, Row
  <2>3. 8 \in 0..18
    BY SMT
  <2>4. /\ Apart(16, "i16", 8..(8 + 1)) /\ Apart(2, "ntt", 8..(8 + 1))
        /\ Apart(12, "small", 8..(8 + 1)) /\ Apart(4, "ntt", 8..(8 + 1))
        /\ Apart(6, "ntt2", 8..(8 + 1))
    BY SizeIs, SMT DEF Apart
  <2>5. Carries(n, 8, "mod2", Scaled(3, cfMod(k, c))) /\ Changes(m, n, 8..(8 + 1))
    BY <1>a, <2>1, <2>2, <2>3, DoDivq2, Zenon
  <2> HIDE DEF n
  <2>6. Area(n, 100, k, c, z1, z0)
    BY <2>2, <2>4, <2>5, Kept, SMT DEF Area, Row
  <2> QED
    BY <1>22, <2>6 DEF n
<1>23. CASE j = 23
  <2> DEFINE n == Apply(m, BuildS1[23])
  <2>1. BuildS1[23] = <<"signed_to_mod2", 16>>
    BY Zenon DEF BuildS1
  <2>2. /\ Carries(m, 16, "i16", z1) /\ Carries(m, 2, "ntt", c)
        /\ Carries(m, 12, "small", k.f) /\ Carries(m, 4, "ntt", k.f)
        /\ Carries(m, 6, "ntt2", Z0(k, c, z0))
        /\ Carries(m, 8, "mod2", Scaled(3, cfMod(k, c)))
    BY <1>23, SMT DEF Area, Row
  <2>3. 16 \in 0..18
    BY SMT
  <2>4. /\ Apart(2, "ntt", 16..(16 + 1)) /\ Apart(12, "small", 16..(16 + 1))
        /\ Apart(4, "ntt", 16..(16 + 1)) /\ Apart(6, "ntt2", 16..(16 + 1))
        /\ Apart(8, "mod2", 16..(16 + 1))
    BY SizeIs, SMT DEF Apart
  <2>5. Carries(n, 16, "mod2", z1) /\ Changes(m, n, 16..(16 + 1))
    BY <1>a, <2>1, <2>2, <2>3, DoSignedToMod2, Zenon
  <2> HIDE DEF n
  <2>6. Area(n, 101, k, c, z1, z0)
    BY <2>2, <2>4, <2>5, Kept, SMT DEF Area, Row
  <2> QED
    BY <1>23, <2>6 DEF n
<1>24. CASE j = 24
  <2> DEFINE n == Apply(m, BuildS1[24])
  <2>1. BuildS1[24] = <<"sub2", 16, 8>>
    BY Zenon DEF BuildS1
  <2>2. /\ Carries(m, 16, "mod2", z1) /\ Carries(m, 8, "mod2", Scaled(3, cfMod(k, c)))
        /\ Carries(m, 2, "ntt", c) /\ Carries(m, 12, "small", k.f)
        /\ Carries(m, 4, "ntt", k.f) /\ Carries(m, 6, "ntt2", Z0(k, c, z0))
    BY <1>24, SMT DEF Area, Row
  <2>3. /\ 16 \in 0..18 /\ 8 \in 0..18
    BY SMT
  <2>4. /\ Apart(2, "ntt", 16..(16 + 1)) /\ Apart(12, "small", 16..(16 + 1))
        /\ Apart(4, "ntt", 16..(16 + 1)) /\ Apart(6, "ntt2", 16..(16 + 1))
    BY SizeIs, SMT DEF Apart
  <2>5. Carries(n, 16, "mod2", Minus(z1, Scaled(3, cfMod(k, c)))) /\ Changes(m, n, 16..(16 + 1))
    BY <1>a, <2>1, <2>2, <2>3, DoSub2, Zenon
  <2>6. Carries(n, 16, "mod2", Z1(k, c, z1))
    BY <2>5, Zenon DEF Z1
  <2> HIDE DEF n
  <2>7. Area(n, 102, k, c, z1, z0)
    BY <2>2, <2>4, <2>5, <2>6, Kept, SMT DEF Area, Row
  <2> QED
    BY <1>24, <2>7 DEF n
<1>25. CASE j = 25
  <2> DEFINE n == Apply(m, BuildS1[25])
  <2>1. BuildS1[25] = <<"NTT2", 16>>
    BY Zenon DEF BuildS1
  <2>2. /\ Carries(m, 16, "mod2", Z1(k, c, z1)) /\ Carries(m, 2, "ntt", c)
        /\ Carries(m, 12, "small", k.f) /\ Carries(m, 4, "ntt", k.f)
        /\ Carries(m, 6, "ntt2", Z0(k, c, z0))
    BY <1>25, SMT DEF Area, Row
  <2>3. 16 \in 0..18
    BY SMT
  <2>4. /\ Apart(2, "ntt", 16..(16 + 1)) /\ Apart(12, "small", 16..(16 + 1))
        /\ Apart(4, "ntt", 16..(16 + 1)) /\ Apart(6, "ntt2", 16..(16 + 1))
    BY SizeIs, SMT DEF Apart
  <2>5. Carries(n, 16, "ntt2", Z1(k, c, z1)) /\ Changes(m, n, 16..(16 + 1))
    BY <1>a, <2>1, <2>2, <2>3, DoNTT2, Zenon
  <2> HIDE DEF n
  <2>6. Area(n, 103, k, c, z1, z0)
    BY <2>2, <2>4, <2>5, Kept, SMT DEF Area, Row
  <2> QED
    BY <1>25, <2>6 DEF n
<1>26. CASE j = 26
  <2> DEFINE n == Apply(m, BuildS1[26])
  <2>1. BuildS1[26] = <<"small_to_mod2", 12, 0>>
    BY Zenon DEF BuildS1
  <2>2. /\ Carries(m, 12, "small", k.f) /\ Carries(m, 2, "ntt", c)
        /\ Carries(m, 4, "ntt", k.f) /\ Carries(m, 6, "ntt2", Z0(k, c, z0))
        /\ Carries(m, 16, "ntt2", Z1(k, c, z1))
    BY <1>26, SMT DEF Area, Row
  <2>3. /\ 12 \in 0..18 /\ 0 \in 0..18
    BY SMT
  <2>4. /\ Apart(2, "ntt", 0..(0 + 1)) /\ Apart(4, "ntt", 0..(0 + 1))
        /\ Apart(6, "ntt2", 0..(0 + 1)) /\ Apart(16, "ntt2", 0..(0 + 1))
    BY SizeIs, SMT DEF Apart
  <2>5. Carries(n, 0, "mod2", k.f) /\ Changes(m, n, 0..(0 + 1))
    BY <1>a, <2>1, <2>2, <2>3, DoSmallToMod2, Zenon
  <2> HIDE DEF n
  <2>6. Area(n, 104, k, c, z1, z0)
    BY <2>2, <2>4, <2>5, Kept, SMT DEF Area, Row
  <2> QED
    BY <1>26, <2>6 DEF n
<1>27. CASE j = 27
  <2> DEFINE n == Apply(m, BuildS1[27])
  <2>1. BuildS1[27] = <<"NTT2", 0>>
    BY Zenon DEF BuildS1
  <2>2. /\ Carries(m, 0, "mod2", k.f) /\ Carries(m, 2, "ntt", c)
        /\ Carries(m, 4, "ntt", k.f) /\ Carries(m, 6, "ntt2", Z0(k, c, z0))
        /\ Carries(m, 16, "ntt2", Z1(k, c, z1))
    BY <1>27, SMT DEF Area, Row
  <2>3. 0 \in 0..18
    BY SMT
  <2>4. /\ Apart(2, "ntt", 0..(0 + 1)) /\ Apart(4, "ntt", 0..(0 + 1))
        /\ Apart(6, "ntt2", 0..(0 + 1)) /\ Apart(16, "ntt2", 0..(0 + 1))
    BY SizeIs, SMT DEF Apart
  <2>5. Carries(n, 0, "ntt2", k.f) /\ Changes(m, n, 0..(0 + 1))
    BY <1>a, <2>1, <2>2, <2>3, DoNTT2, Zenon
  <2> HIDE DEF n
  <2>6. Area(n, 105, k, c, z1, z0)
    BY <2>2, <2>4, <2>5, Kept, SMT DEF Area, Row
  <2> QED
    BY <1>27, <2>6 DEF n
<1>28. CASE j = 28
  <2> DEFINE n == Apply(m, BuildS1[28])
  <2>1. BuildS1[28] = <<"F to mod2", 10>>
    BY Zenon DEF BuildS1
  <2>2. /\ Carries(m, 2, "ntt", c) /\ Carries(m, 4, "ntt", k.f)
        /\ Carries(m, 6, "ntt2", Z0(k, c, z0)) /\ Carries(m, 16, "ntt2", Z1(k, c, z1))
        /\ Carries(m, 0, "ntt2", k.f)
    BY <1>28, SMT DEF Area, Row
  <2>3. 10 \in 0..18
    BY SMT
  <2>4. /\ Apart(2, "ntt", 10..(10 + 1)) /\ Apart(4, "ntt", 10..(10 + 1))
        /\ Apart(6, "ntt2", 10..(10 + 1)) /\ Apart(16, "ntt2", 10..(10 + 1))
        /\ Apart(0, "ntt2", 10..(10 + 1))
    BY SizeIs, SMT DEF Apart
  <2>5. Carries(n, 10, "mod2", k.F) /\ Changes(m, n, 10..(10 + 1))
    BY <1>a, <2>1, <2>3, DoFToMod2, Zenon
  <2> HIDE DEF n
  <2>6. Area(n, 106, k, c, z1, z0)
    BY <2>2, <2>4, <2>5, Kept, SMT DEF Area, Row
  <2> QED
    BY <1>28, <2>6 DEF n
<1>29. CASE j = 29
  <2> DEFINE n == Apply(m, BuildS1[29])
  <2>1. BuildS1[29] = <<"NTT2", 10>>
    BY Zenon DEF BuildS1
  <2>2. /\ Carries(m, 10, "mod2", k.F) /\ Carries(m, 2, "ntt", c)
        /\ Carries(m, 4, "ntt", k.f) /\ Carries(m, 6, "ntt2", Z0(k, c, z0))
        /\ Carries(m, 16, "ntt2", Z1(k, c, z1)) /\ Carries(m, 0, "ntt2", k.f)
    BY <1>29, SMT DEF Area, Row
  <2>3. 10 \in 0..18
    BY SMT
  <2>4. /\ Apart(2, "ntt", 10..(10 + 1)) /\ Apart(4, "ntt", 10..(10 + 1))
        /\ Apart(6, "ntt2", 10..(10 + 1)) /\ Apart(16, "ntt2", 10..(10 + 1))
        /\ Apart(0, "ntt2", 10..(10 + 1))
    BY SizeIs, SMT DEF Apart
  <2>5. Carries(n, 10, "ntt2", k.F) /\ Changes(m, n, 10..(10 + 1))
    BY <1>a, <2>1, <2>2, <2>3, DoNTT2, Zenon
  <2> HIDE DEF n
  <2>6. Area(n, 107, k, c, z1, z0)
    BY <2>2, <2>4, <2>5, Kept, SMT DEF Area, Row
  <2> QED
    BY <1>29, <2>6 DEF n
<1>30. CASE j = 30
  <2> DEFINE n == Apply(m, BuildS1[30])
  <2>1. BuildS1[30] = <<"mul_ntt2", 6, 0>>
    BY Zenon DEF BuildS1
  <2>2. /\ Carries(m, 6, "ntt2", Z0(k, c, z0)) /\ Carries(m, 0, "ntt2", k.f)
        /\ Carries(m, 2, "ntt", c) /\ Carries(m, 4, "ntt", k.f)
        /\ Carries(m, 16, "ntt2", Z1(k, c, z1)) /\ Carries(m, 10, "ntt2", k.F)
    BY <1>30, SMT DEF Area, Row
  <2>3. /\ 6 \in 0..18 /\ 0 \in 0..18
    BY SMT
  <2>4. /\ Apart(2, "ntt", 6..(6 + 1)) /\ Apart(4, "ntt", 6..(6 + 1))
        /\ Apart(16, "ntt2", 6..(6 + 1)) /\ Apart(10, "ntt2", 6..(6 + 1))
    BY SizeIs, SMT DEF Apart
  <2>5. Carries(n, 6, "ntt2", Times(Z0(k, c, z0), k.f)) /\ Changes(m, n, 6..(6 + 1))
    BY <1>a, <2>1, <2>2, <2>3, DoMulNtt2, Zenon
  <2> HIDE DEF n
  <2>6. Area(n, 108, k, c, z1, z0)
    BY <2>2, <2>4, <2>5, Kept, SMT DEF Area, Row
  <2> QED
    BY <1>30, <2>6 DEF n
<1>31. CASE j = 31
  <2> DEFINE n == Apply(m, BuildS1[31])
  <2>1. BuildS1[31] = <<"mul_ntt2", 16, 10>>
    BY Zenon DEF BuildS1
  <2>2. /\ Carries(m, 16, "ntt2", Z1(k, c, z1)) /\ Carries(m, 10, "ntt2", k.F)
        /\ Carries(m, 2, "ntt", c) /\ Carries(m, 4, "ntt", k.f)
        /\ Carries(m, 6, "ntt2", Times(Z0(k, c, z0), k.f))
    BY <1>31, SMT DEF Area, Row
  <2>3. /\ 16 \in 0..18 /\ 10 \in 0..18
    BY SMT
  <2>4. /\ Apart(2, "ntt", 16..(16 + 1)) /\ Apart(4, "ntt", 16..(16 + 1))
        /\ Apart(6, "ntt2", 16..(16 + 1))
    BY SizeIs, SMT DEF Apart
  <2>5. Carries(n, 16, "ntt2", Times(Z1(k, c, z1), k.F)) /\ Changes(m, n, 16..(16 + 1))
    BY <1>a, <2>1, <2>2, <2>3, DoMulNtt2, Zenon
  <2> HIDE DEF n
  <2>6. Area(n, 109, k, c, z1, z0)
    BY <2>2, <2>4, <2>5, Kept, SMT DEF Area, Row
  <2> QED
    BY <1>31, <2>6 DEF n
<1>32. CASE j = 32
  <2> DEFINE n == Apply(m, BuildS1[32])
  <2>1. BuildS1[32] = <<"add2", 6, 16>>
    BY Zenon DEF BuildS1
  <2>2. /\ Carries(m, 6, "ntt2", Times(Z0(k, c, z0), k.f))
        /\ Carries(m, 16, "ntt2", Times(Z1(k, c, z1), k.F)) /\ Carries(m, 2, "ntt", c)
        /\ Carries(m, 4, "ntt", k.f)
    BY <1>32, SMT DEF Area, Row
  <2>3. /\ 6 \in 0..18 /\ 16 \in 0..18
    BY SMT
  <2>4. /\ Apart(2, "ntt", 6..(6 + 1)) /\ Apart(4, "ntt", 6..(6 + 1))
    BY SizeIs, SMT DEF Apart
  <2>5. Carries(n, 6, "ntt2", Plus(Times(Z0(k, c, z0), k.f), Times(Z1(k, c, z1), k.F))) /\ Changes(m, n, 6..(6 + 1))
    BY <1>a, <2>1, <2>2, <2>3, DoAdd2Ntt, Zenon
  <2>6. Carries(n, 6, "ntt2", SumS1(k, c, z1, z0))
    BY <2>5, Zenon DEF SumS1
  <2> HIDE DEF n
  <2>7. Area(n, 110, k, c, z1, z0)
    BY <2>2, <2>4, <2>5, <2>6, Kept, SMT DEF Area, Row
  <2> QED
    BY <1>32, <2>7 DEF n
<1>33. CASE j = 33
  <2> DEFINE n == Apply(m, BuildS1[33])
  <2>1. BuildS1[33] = <<"iNTT2", 6>>
    BY Zenon DEF BuildS1
  <2>2. /\ Carries(m, 6, "ntt2", SumS1(k, c, z1, z0)) /\ Carries(m, 2, "ntt", c)
        /\ Carries(m, 4, "ntt", k.f)
    BY <1>33, SMT DEF Area, Row
  <2>3. 6 \in 0..18
    BY SMT
  <2>4. /\ Apart(2, "ntt", 6..(6 + 1)) /\ Apart(4, "ntt", 6..(6 + 1))
    BY SizeIs, SMT DEF Apart
  <2>5. Carries(n, 6, "mod2", SumS1(k, c, z1, z0)) /\ Changes(m, n, 6..(6 + 1))
    BY <1>a, <2>1, <2>2, <2>3, DoiNTT2, Zenon
  <2> HIDE DEF n
  <2>6. Area(n, 111, k, c, z1, z0)
    BY <2>2, <2>4, <2>5, Kept, SMT DEF Area, Row
  <2> QED
    BY <1>33, <2>6 DEF n
<1>34. CASE j = 34
  <2> DEFINE n == Apply(m, BuildS1[34])
  <2>1. BuildS1[34] = <<"mod2_to_signed", 6>>
    BY Zenon DEF BuildS1
  <2>2. /\ Carries(m, 6, "mod2", SumS1(k, c, z1, z0)) /\ Carries(m, 2, "ntt", c)
        /\ Carries(m, 4, "ntt", k.f)
    BY <1>34, SMT DEF Area, Row
  <2>3. 6 \in 0..18
    BY SMT
  <2>4. /\ Apart(2, "ntt", 6..(6 + 1)) /\ Apart(4, "ntt", 6..(6 + 1))
    BY SizeIs, SMT DEF Apart
  <2>5. Carries(n, 6, "i16", Centred(SumS1(k, c, z1, z0), q2)) /\ Changes(m, n, 6..(6 + 1))
    BY <1>a, <2>1, <2>2, <2>3, DoMod2ToSigned, Zenon
  <2>6. Carries(n, 6, "i16", S1(k, c, z1, z0))
    BY <2>5, Zenon DEF S1
  <2> HIDE DEF n
  <2>7. Area(n, 112, k, c, z1, z0)
    BY <2>2, <2>4, <2>5, <2>6, Kept, SMT DEF Area, Row
  <2> QED
    BY <1>34, <2>7 DEF n
<1> QED
  BY <1>1, <1>2, <1>3, <1>4, <1>5, <1>6, <1>7, <1>8, <1>9, <1>10, <1>11, <1>12, <1>13, <1>14, <1>15, <1>16, <1>17, <1>18, <1>19, <1>20, <1>21, <1>22, <1>23, <1>24, <1>25, <1>26, <1>27, <1>28, <1>29, <1>30, <1>31, <1>32, <1>33, <1>34, SMT

\* The statements of BuildS0.
LEMMA S0Lines ==
  ASSUME NEW k \in Keys, k = key, NEW c \in [Coef -> 0..(q - 1)], c = Hash[sig.nonce],
         NEW z1 \in Poly, Within(q2, z1), NEW z0 \in Poly, Within(q2, z0), NEW m,
         NEW j \in 1..11, Area(m, 111 + j, k, c, z1, z0)
  PROVE  Area(Apply(m, BuildS0[j]), 111 + j + 1, k, c, z1, z0)
<1>a. /\ k.g \in Poly /\ Within(q, k.g) /\ k.f \in Poly /\ S1(k, c, z1, z0) \in Poly
      /\ Within(q, S1(k, c, z1, z0)) /\ H(k) \in Poly /\ c \in Poly
      /\ Times(S1(k, c, z1, z0), H(k)) \in Poly
      /\ Minus(c, Times(S1(k, c, z1, z0), H(k))) \in Poly
  BY KeyValues, HashValues, S1Values, Zenon
<1>1. CASE j = 1
  <2> DEFINE n == Apply(m, BuildS0[1])
  <2>1. BuildS0[1] = <<"decode g", 12>>
    BY Zenon DEF BuildS0
  <2>2. /\ Carries(m, 2, "ntt", c) /\ Carries(m, 4, "ntt", k.f)
        /\ Carries(m, 6, "i16", S1(k, c, z1, z0))
    BY <1>1, SMT DEF Area, Row
  <2>3. 12 \in 0..19
    BY SMT
  <2>4. /\ Apart(2, "ntt", 12..12) /\ Apart(4, "ntt", 12..12) /\ Apart(6, "i16", 12..12)
    BY SizeIs, SMT DEF Apart
  <2>5. Carries(n, 12, "small", k.g) /\ Changes(m, n, 12..12)
    BY <1>a, <2>1, <2>3, DoDecode, Zenon
  <2> HIDE DEF n
  <2>6. Area(n, 113, k, c, z1, z0)
    BY <2>2, <2>4, <2>5, Kept, SMT DEF Area, Row
  <2> QED
    BY <1>1, <2>6 DEF n
<1>2. CASE j = 2
  <2> DEFINE n == Apply(m, BuildS0[2])
  <2>1. BuildS0[2] = <<"small_to_int", 12, 0>>
    BY Zenon DEF BuildS0
  <2>2. /\ Carries(m, 12, "small", k.g) /\ Carries(m, 2, "ntt", c)
        /\ Carries(m, 4, "ntt", k.f) /\ Carries(m, 6, "i16", S1(k, c, z1, z0))
    BY <1>2, SMT DEF Area, Row
  <2>3. /\ 12 \in 0..18 /\ 0 \in 0..18
    BY SMT
  <2>4. /\ Apart(2, "ntt", 0..(0 + 1)) /\ Apart(4, "ntt", 0..(0 + 1))
        /\ Apart(6, "i16", 0..(0 + 1))
    BY SizeIs, SMT DEF Apart
  <2>5. Carries(n, 0, "int", k.g) /\ Changes(m, n, 0..(0 + 1))
    BY <1>a, <2>1, <2>2, <2>3, DoSmallToInt, Zenon
  <2> HIDE DEF n
  <2>6. Area(n, 114, k, c, z1, z0)
    BY <2>2, <2>4, <2>5, Kept, SMT DEF Area, Row
  <2> QED
    BY <1>2, <2>6 DEF n
<1>3. CASE j = 3
  <2> DEFINE n == Apply(m, BuildS0[3])
  <2>1. BuildS0[3] = <<"int_to_ntt", 0>>
    BY Zenon DEF BuildS0
  <2>2. /\ Carries(m, 0, "int", k.g) /\ Carries(m, 2, "ntt", c)
        /\ Carries(m, 4, "ntt", k.f) /\ Carries(m, 6, "i16", S1(k, c, z1, z0))
    BY <1>3, SMT DEF Area, Row
  <2>3. 0 \in 0..18
    BY SMT
  <2>4. /\ Apart(2, "ntt", 0..(0 + 1)) /\ Apart(4, "ntt", 0..(0 + 1))
        /\ Apart(6, "i16", 0..(0 + 1))
    BY SizeIs, SMT DEF Apart
  <2>5. Carries(n, 0, "ntt", k.g) /\ Changes(m, n, 0..(0 + 1))
    BY <1>a, <2>1, <2>2, <2>3, DoIntToNtt, Zenon
  <2> HIDE DEF n
  <2>6. Area(n, 115, k, c, z1, z0)
    BY <2>2, <2>4, <2>5, Kept, SMT DEF Area, Row
  <2> QED
    BY <1>3, <2>6 DEF n
<1>4. CASE j = 4
  <2> DEFINE n == Apply(m, BuildS0[4])
  <2>1. BuildS0[4] = <<"div_ntt", 0, 4, 12>>
    BY Zenon DEF BuildS0
  <2>2. /\ Carries(m, 0, "ntt", k.g) /\ Carries(m, 4, "ntt", k.f)
        /\ Carries(m, 2, "ntt", c) /\ Carries(m, 6, "i16", S1(k, c, z1, z0))
    BY <1>4, SMT DEF Area, Row
  <2>3. /\ 0 \in 0..18 /\ 4 \in 0..18 /\ 12 \in 0..18 /\ (0 + 2 <= 12 \/ 12 + 2 <= 0)
    BY SMT
  <2>4. /\ Apart(2, "ntt", 0..(0 + 1) \cup 12..(12 + 1))
        /\ Apart(6, "i16", 0..(0 + 1) \cup 12..(12 + 1))
    BY SizeIs, SMT DEF Apart
  <2>5. Carries(n, 0, "ntt", Times(k.g, FInv(k))) /\ Changes(m, n, 0..(0 + 1) \cup 12..(12 + 1))
    BY <1>a, <2>1, <2>2, <2>3, DoDivNtt, Zenon
  <2>6. Carries(n, 0, "ntt", H(k))
    BY <2>5, Zenon DEF H
  <2> HIDE DEF n
  <2>7. Area(n, 116, k, c, z1, z0)
    BY <2>2, <2>4, <2>5, <2>6, Kept, SMT DEF Area, Row
  <2> QED
    BY <1>4, <2>7 DEF n
<1>5. CASE j = 5
  <2> DEFINE n == Apply(m, BuildS0[5])
  <2>1. BuildS0[5] = <<"memcpy", 4, 6>>
    BY Zenon DEF BuildS0
  <2>2. /\ Carries(m, 6, "i16", S1(k, c, z1, z0)) /\ Carries(m, 2, "ntt", c)
        /\ Carries(m, 0, "ntt", H(k))
    BY <1>5, SMT DEF Area, Row
  <2>3. /\ 4 \in 0..18 /\ 6 \in 0..18 /\ "i16" \in {"ntt", "ntt2", "i16"}
    BY SMT
  <2>4. /\ Apart(2, "ntt", 4..(4 + 1)) /\ Apart(6, "i16", 4..(4 + 1))
        /\ Apart(0, "ntt", 4..(4 + 1))
    BY SizeIs, SMT DEF Apart
  <2>5. Carries(n, 4, "i16", S1(k, c, z1, z0)) /\ Changes(m, n, 4..(4 + 1))
    BY <1>a, <2>1, <2>2, <2>3, DoMemcpy, Zenon
  <2> HIDE DEF n
  <2>6. Area(n, 117, k, c, z1, z0)
    BY <2>2, <2>4, <2>5, Kept, SMT DEF Area, Row
  <2> QED
    BY <1>5, <2>6 DEF n
<1>6. CASE j = 6
  <2> DEFINE n == Apply(m, BuildS0[6])
  <2>1. BuildS0[6] = <<"signed_to_int", 4>>
    BY Zenon DEF BuildS0
  <2>2. /\ Carries(m, 4, "i16", S1(k, c, z1, z0)) /\ Carries(m, 2, "ntt", c)
        /\ Carries(m, 6, "i16", S1(k, c, z1, z0)) /\ Carries(m, 0, "ntt", H(k))
    BY <1>6, SMT DEF Area, Row
  <2>3. 4 \in 0..18
    BY SMT
  <2>4. /\ Apart(2, "ntt", 4..(4 + 1)) /\ Apart(6, "i16", 4..(4 + 1))
        /\ Apart(0, "ntt", 4..(4 + 1))
    BY SizeIs, SMT DEF Apart
  <2>5. Carries(n, 4, "int", S1(k, c, z1, z0)) /\ Changes(m, n, 4..(4 + 1))
    BY <1>a, <2>1, <2>2, <2>3, DoSignedToInt, Zenon
  <2> HIDE DEF n
  <2>6. Area(n, 118, k, c, z1, z0)
    BY <2>2, <2>4, <2>5, Kept, SMT DEF Area, Row
  <2> QED
    BY <1>6, <2>6 DEF n
<1>7. CASE j = 7
  <2> DEFINE n == Apply(m, BuildS0[7])
  <2>1. BuildS0[7] = <<"int_to_ntt", 4>>
    BY Zenon DEF BuildS0
  <2>2. /\ Carries(m, 4, "int", S1(k, c, z1, z0)) /\ Carries(m, 2, "ntt", c)
        /\ Carries(m, 6, "i16", S1(k, c, z1, z0)) /\ Carries(m, 0, "ntt", H(k))
    BY <1>7, SMT DEF Area, Row
  <2>3. 4 \in 0..18
    BY SMT
  <2>4. /\ Apart(2, "ntt", 4..(4 + 1)) /\ Apart(6, "i16", 4..(4 + 1))
        /\ Apart(0, "ntt", 4..(4 + 1))
    BY SizeIs, SMT DEF Apart
  <2>5. Carries(n, 4, "ntt", S1(k, c, z1, z0)) /\ Changes(m, n, 4..(4 + 1))
    BY <1>a, <2>1, <2>2, <2>3, DoIntToNtt, Zenon
  <2> HIDE DEF n
  <2>6. Area(n, 119, k, c, z1, z0)
    BY <2>2, <2>4, <2>5, Kept, SMT DEF Area, Row
  <2> QED
    BY <1>7, <2>6 DEF n
<1>8. CASE j = 8
  <2> DEFINE n == Apply(m, BuildS0[8])
  <2>1. BuildS0[8] = <<"mul_ntt", 4, 0>>
    BY Zenon DEF BuildS0
  <2>2. /\ Carries(m, 4, "ntt", S1(k, c, z1, z0)) /\ Carries(m, 0, "ntt", H(k))
        /\ Carries(m, 2, "ntt", c) /\ Carries(m, 6, "i16", S1(k, c, z1, z0))
    BY <1>8, SMT DEF Area, Row
  <2>3. /\ 4 \in 0..18 /\ 0 \in 0..18
    BY SMT
  <2>4. /\ Apart(2, "ntt", 4..(4 + 1)) /\ Apart(6, "i16", 4..(4 + 1))
    BY SizeIs, SMT DEF Apart
  <2>5. Carries(n, 4, "ntt", Times(S1(k, c, z1, z0), H(k))) /\ Changes(m, n, 4..(4 + 1))
    BY <1>a, <2>1, <2>2, <2>3, DoMulNtt, Zenon
  <2> HIDE DEF n
  <2>6. Area(n, 120, k, c, z1, z0)
    BY <2>2, <2>4, <2>5, Kept, SMT DEF Area, Row
  <2> QED
    BY <1>8, <2>6 DEF n
<1>9. CASE j = 9
  <2> DEFINE n == Apply(m, BuildS0[9])
  <2>1. BuildS0[9] = <<"sub", 2, 4>>
    BY Zenon DEF BuildS0
  <2>2. /\ Carries(m, 2, "ntt", c) /\ Carries(m, 4, "ntt", Times(S1(k, c, z1, z0), H(k)))
        /\ Carries(m, 6, "i16", S1(k, c, z1, z0))
    BY <1>9, SMT DEF Area, Row
  <2>3. /\ 2 \in 0..18 /\ 4 \in 0..18
    BY SMT
  <2>4. Apart(6, "i16", 2..(2 + 1))
    BY SizeIs, SMT DEF Apart
  <2>5. Carries(n, 2, "ntt", Minus(c, Times(S1(k, c, z1, z0), H(k)))) /\ Changes(m, n, 2..(2 + 1))
    BY <1>a, <2>1, <2>2, <2>3, DoSub, Zenon
  <2> HIDE DEF n
  <2>6. Area(n, 121, k, c, z1, z0)
    BY <2>2, <2>4, <2>5, Kept, SMT DEF Area, Row
  <2> QED
    BY <1>9, <2>6 DEF n
<1>10. CASE j = 10
  <2> DEFINE n == Apply(m, BuildS0[10])
  <2>1. BuildS0[10] = <<"ntt_to_int", 2>>
    BY Zenon DEF BuildS0
  <2>2. /\ Carries(m, 2, "ntt", Minus(c, Times(S1(k, c, z1, z0), H(k))))
        /\ Carries(m, 6, "i16", S1(k, c, z1, z0))
    BY <1>10, SMT DEF Area, Row
  <2>3. 2 \in 0..18
    BY SMT
  <2>4. Apart(6, "i16", 2..(2 + 1))
    BY SizeIs, SMT DEF Apart
  <2>5. Carries(n, 2, "int", Minus(c, Times(S1(k, c, z1, z0), H(k)))) /\ Changes(m, n, 2..(2 + 1))
    BY <1>a, <2>1, <2>2, <2>3, DoNttToInt, Zenon
  <2> HIDE DEF n
  <2>6. Area(n, 122, k, c, z1, z0)
    BY <2>2, <2>4, <2>5, Kept, SMT DEF Area, Row
  <2> QED
    BY <1>10, <2>6 DEF n
<1>11. CASE j = 11
  <2> DEFINE n == Apply(m, BuildS0[11])
  <2>1. BuildS0[11] = <<"int_to_signed", 2>>
    BY Zenon DEF BuildS0
  <2>2. /\ Carries(m, 2, "int", Minus(c, Times(S1(k, c, z1, z0), H(k))))
        /\ Carries(m, 6, "i16", S1(k, c, z1, z0))
    BY <1>11, SMT DEF Area, Row
  <2>3. 2 \in 0..18
    BY SMT
  <2>4. Apart(6, "i16", 2..(2 + 1))
    BY SizeIs, SMT DEF Apart
  <2>5. Carries(n, 2, "i16", Centred(Minus(c, Times(S1(k, c, z1, z0), H(k))), q)) /\ Changes(m, n, 2..(2 + 1))
    BY <1>a, <2>1, <2>2, <2>3, DoIntToSigned, Zenon
  <2>6. Carries(n, 2, "i16", S0(k, c, z1, z0))
    BY <2>5, Zenon DEF S0
  <2> HIDE DEF n
  <2>7. Area(n, 123, k, c, z1, z0)
    BY <2>2, <2>4, <2>5, <2>6, Kept, SMT DEF Area, Row
  <2> QED
    BY <1>11, <2>7 DEF n
<1> QED
  BY <1>1, <1>2, <1>3, <1>4, <1>5, <1>6, <1>7, <1>8, <1>9, <1>10, <1>11, SMT

-----------------------------------------------------------------------------
(* Where the statements that are actions of their own stand.                 *)

LEMMA SpecialNames ==
  /\ GramBothModuli[5][1] = "check norm" /\ GramBothModuli[18][1] = "adjust_save"
  /\ RebuildG[29][1] = "adjust"
  BY Zenon DEF GramBothModuli, RebuildG

LEMMA PlainGramBothModuli ==
  ASSUME NEW j \in 1..18, j # 5, j # 18
  PROVE  GramBothModuli[j][1] \notin Special
<1>1. /\ GramBothModuli[1][1] \notin Special /\ GramBothModuli[2][1] \notin Special
      /\ GramBothModuli[3][1] \notin Special /\ GramBothModuli[4][1] \notin Special
      /\ GramBothModuli[6][1] \notin Special /\ GramBothModuli[7][1] \notin Special
  BY Zenon DEF GramBothModuli, Special
<1>2. /\ GramBothModuli[8][1] \notin Special /\ GramBothModuli[9][1] \notin Special
      /\ GramBothModuli[10][1] \notin Special /\ GramBothModuli[11][1] \notin Special
      /\ GramBothModuli[12][1] \notin Special /\ GramBothModuli[13][1] \notin Special
  BY Zenon DEF GramBothModuli, Special
<1>3. /\ GramBothModuli[14][1] \notin Special /\ GramBothModuli[15][1] \notin Special
      /\ GramBothModuli[16][1] \notin Special /\ GramBothModuli[17][1] \notin Special
  BY Zenon DEF GramBothModuli, Special
<1> QED
  BY <1>1, <1>2, <1>3, SMT

LEMMA PlainFirstCentre ==
  ASSUME NEW j \in 1..8
  PROVE  FirstCentre[j][1] \notin Special
<1>1. /\ FirstCentre[1][1] \notin Special /\ FirstCentre[2][1] \notin Special
      /\ FirstCentre[3][1] \notin Special /\ FirstCentre[4][1] \notin Special
      /\ FirstCentre[5][1] \notin Special /\ FirstCentre[6][1] \notin Special
  BY Zenon DEF FirstCentre, Special
<1>2. /\ FirstCentre[7][1] \notin Special /\ FirstCentre[8][1] \notin Special
  BY Zenon DEF FirstCentre, Special
<1> QED
  BY <1>1, <1>2, SMT

LEMMA PlainRebuildG ==
  ASSUME NEW j \in 1..29, j # 29
  PROVE  RebuildG[j][1] \notin Special
<1>1. /\ RebuildG[1][1] \notin Special /\ RebuildG[2][1] \notin Special
      /\ RebuildG[3][1] \notin Special /\ RebuildG[4][1] \notin Special
      /\ RebuildG[5][1] \notin Special /\ RebuildG[6][1] \notin Special
  BY Zenon DEF RebuildG, Special
<1>2. /\ RebuildG[7][1] \notin Special /\ RebuildG[8][1] \notin Special
      /\ RebuildG[9][1] \notin Special /\ RebuildG[10][1] \notin Special
      /\ RebuildG[11][1] \notin Special /\ RebuildG[12][1] \notin Special
  BY Zenon DEF RebuildG, Special
<1>3. /\ RebuildG[13][1] \notin Special /\ RebuildG[14][1] \notin Special
      /\ RebuildG[15][1] \notin Special /\ RebuildG[16][1] \notin Special
      /\ RebuildG[17][1] \notin Special /\ RebuildG[18][1] \notin Special
  BY Zenon DEF RebuildG, Special
<1>4. /\ RebuildG[19][1] \notin Special /\ RebuildG[20][1] \notin Special
      /\ RebuildG[21][1] \notin Special /\ RebuildG[22][1] \notin Special
      /\ RebuildG[23][1] \notin Special /\ RebuildG[24][1] \notin Special
  BY Zenon DEF RebuildG, Special
<1>5. /\ RebuildG[25][1] \notin Special /\ RebuildG[26][1] \notin Special
      /\ RebuildG[27][1] \notin Special /\ RebuildG[28][1] \notin Special
  BY Zenon DEF RebuildG, Special
<1> QED
  BY <1>1, <1>2, <1>3, <1>4, <1>5, SMT

LEMMA PlainSecondCentre ==
  ASSUME NEW j \in 1..20
  PROVE  SecondCentre[j][1] \notin Special
<1>1. /\ SecondCentre[1][1] \notin Special /\ SecondCentre[2][1] \notin Special
      /\ SecondCentre[3][1] \notin Special /\ SecondCentre[4][1] \notin Special
      /\ SecondCentre[5][1] \notin Special /\ SecondCentre[6][1] \notin Special
  BY Zenon DEF SecondCentre, Special
<1>2. /\ SecondCentre[7][1] \notin Special /\ SecondCentre[8][1] \notin Special
      /\ SecondCentre[9][1] \notin Special /\ SecondCentre[10][1] \notin Special
      /\ SecondCentre[11][1] \notin Special /\ SecondCentre[12][1] \notin Special
  BY Zenon DEF SecondCentre, Special
<1>3. /\ SecondCentre[13][1] \notin Special /\ SecondCentre[14][1] \notin Special
      /\ SecondCentre[15][1] \notin Special /\ SecondCentre[16][1] \notin Special
      /\ SecondCentre[17][1] \notin Special /\ SecondCentre[18][1] \notin Special
  BY Zenon DEF SecondCentre, Special
<1>4. /\ SecondCentre[19][1] \notin Special /\ SecondCentre[20][1] \notin Special
  BY Zenon DEF SecondCentre, Special
<1> QED
  BY <1>1, <1>2, <1>3, <1>4, SMT

LEMMA PlainBuildS1 ==
  ASSUME NEW j \in 1..34
  PROVE  BuildS1[j][1] \notin Special
<1>1. /\ BuildS1[1][1] \notin Special /\ BuildS1[2][1] \notin Special
      /\ BuildS1[3][1] \notin Special /\ BuildS1[4][1] \notin Special
      /\ BuildS1[5][1] \notin Special /\ BuildS1[6][1] \notin Special
  BY Zenon DEF BuildS1, Special
<1>2. /\ BuildS1[7][1] \notin Special /\ BuildS1[8][1] \notin Special
      /\ BuildS1[9][1] \notin Special /\ BuildS1[10][1] \notin Special
      /\ BuildS1[11][1] \notin Special /\ BuildS1[12][1] \notin Special
  BY Zenon DEF BuildS1, Special
<1>3. /\ BuildS1[13][1] \notin Special /\ BuildS1[14][1] \notin Special
      /\ BuildS1[15][1] \notin Special /\ BuildS1[16][1] \notin Special
      /\ BuildS1[17][1] \notin Special /\ BuildS1[18][1] \notin Special
  BY Zenon DEF BuildS1, Special
<1>4. /\ BuildS1[19][1] \notin Special /\ BuildS1[20][1] \notin Special
      /\ BuildS1[21][1] \notin Special /\ BuildS1[22][1] \notin Special
      /\ BuildS1[23][1] \notin Special /\ BuildS1[24][1] \notin Special
  BY Zenon DEF BuildS1, Special
<1>5. /\ BuildS1[25][1] \notin Special /\ BuildS1[26][1] \notin Special
      /\ BuildS1[27][1] \notin Special /\ BuildS1[28][1] \notin Special
      /\ BuildS1[29][1] \notin Special /\ BuildS1[30][1] \notin Special
  BY Zenon DEF BuildS1, Special
<1>6. /\ BuildS1[31][1] \notin Special /\ BuildS1[32][1] \notin Special
      /\ BuildS1[33][1] \notin Special /\ BuildS1[34][1] \notin Special
  BY Zenon DEF BuildS1, Special
<1> QED
  BY <1>1, <1>2, <1>3, <1>4, <1>5, <1>6, SMT

LEMMA PlainBuildS0 ==
  ASSUME NEW j \in 1..11
  PROVE  BuildS0[j][1] \notin Special
<1>1. /\ BuildS0[1][1] \notin Special /\ BuildS0[2][1] \notin Special
      /\ BuildS0[3][1] \notin Special /\ BuildS0[4][1] \notin Special
      /\ BuildS0[5][1] \notin Special /\ BuildS0[6][1] \notin Special
  BY Zenon DEF BuildS0, Special
<1>2. /\ BuildS0[7][1] \notin Special /\ BuildS0[8][1] \notin Special
      /\ BuildS0[9][1] \notin Special /\ BuildS0[10][1] \notin Special
      /\ BuildS0[11][1] \notin Special
  BY Zenon DEF BuildS0, Special
<1> QED
  BY <1>1, <1>2, SMT

LEMMA SpecialLines ==
  ASSUME NEW l \in 1..122
  PROVE  /\ Body[l][1] = "check norm" <=> l = 5
         /\ Body[l][1] = "adjust_save" <=> l = 18
         /\ Body[l][1] = "adjust" <=> l = 56
         /\ Body[l][1] = "ffsamp" <=> l \in {27, 77}
         /\ Body[l][1] \notin Special <=> l \notin {5, 18, 27, 56, 77}
<1>1. /\ Body[5][1] = "check norm" /\ Body[18][1] = "adjust_save" /\ Body[56][1] = "adjust"
      /\ Body[27][1] = "ffsamp" /\ Body[77][1] = "ffsamp"
  <2>1. 5 \in 1..18 /\ 18 \in 1..18 /\ 29 \in 1..29
    BY SMT
  <2>2. Body[5] = GramBothModuli[5] /\ Body[18] = GramBothModuli[18] /\ Body[27 + 29] = RebuildG[29]
    BY <2>1, BodyParts, Zenon
  <2>3. 27 + 29 = 56
    BY SMT
  <2>4. Body[56] = RebuildG[29]
    BY <2>2, <2>3, Zenon
  <2>5. Body[27] = <<"ffsamp", 16>> /\ Body[77] = <<"ffsamp", 18>>
    BY BodyParts, Zenon
  <2>6. Body[27][1] = "ffsamp" /\ Body[77][1] = "ffsamp"
    BY <2>5, SMT
  <2> QED
    BY <2>2, <2>4, <2>6, SpecialNames, Zenon
<1>2. ASSUME l \notin {5, 18, 27, 56, 77} PROVE Body[l][1] \notin Special
  <2>1. CASE l \in 1..18
    BY <1>2, <2>1, BodyParts, PlainGramBothModuli, SMT
  <2>2. CASE l \in 19..26
    <3>1. l - 18 \in 1..8 /\ 18 + (l - 18) = l
      BY <2>2, SMT
    <3> QED
      BY <3>1, BodyParts, PlainFirstCentre, SMT
  <2>3. CASE l \in 28..55
    <3>1. l - 27 \in 1..28 /\ 27 + (l - 27) = l
      BY <2>3, SMT
    <3> QED
      BY <3>1, BodyParts, PlainRebuildG, SMT
  <2>4. CASE l \in 57..76
    <3>1. l - 56 \in 1..20 /\ 56 + (l - 56) = l
      BY <2>4, SMT
    <3> QED
      BY <3>1, BodyParts, PlainSecondCentre, SMT
  <2>5. CASE l \in 78..111
    <3>1. l - 77 \in 1..34 /\ 77 + (l - 77) = l
      BY <2>5, SMT
    <3> QED
      BY <3>1, BodyParts, PlainBuildS1, SMT
  <2>6. CASE l \in 112..122
    <3>1. l - 111 \in 1..11 /\ 111 + (l - 111) = l
      BY <2>6, SMT
    <3> QED
      BY <3>1, BodyParts, PlainBuildS0, SMT
  <2> QED
    BY <1>2, <2>1, <2>2, <2>3, <2>4, <2>5, <2>6, SMT
<1> DEFINE a == "check norm"
           b == "adjust_save"
           d == "adjust"
           e == "ffsamp"
<1>3. /\ a \in Special /\ b \in Special /\ d \in Special /\ e \in Special
      /\ a # b /\ a # d /\ a # e /\ b # d /\ b # e /\ d # e
  BY Zenon DEF Special
<1>4. Body[5][1] = a /\ Body[18][1] = b /\ Body[56][1] = d /\ Body[27][1] = e /\ Body[77][1] = e
  BY <1>1, Zenon
<1> HIDE DEF a, b, d, e
<1>5. /\ Body[l][1] = a <=> l = 5
      /\ Body[l][1] = b <=> l = 18
      /\ Body[l][1] = d <=> l = 56
      /\ Body[l][1] = e <=> l \in {27, 77}
      /\ Body[l][1] \notin Special <=> l \notin {5, 18, 27, 56, 77}
  <2>1. CASE l \in {5, 18, 27, 56, 77}
    BY <1>3, <1>4, <2>1, SMT
  <2>2. CASE l \notin {5, 18, 27, 56, 77}
    BY <1>2, <1>3, <2>2, SMT
  <2> QED
    BY <2>1, <2>2
<1> QED
  BY <1>5, Zenon DEF a, b, d, e

-----------------------------------------------------------------------------
(* The steps of the call.                                                    *)

LEMMA CallKnown ==
  ASSUME CallOK, CallState, pc = "body" \/ line > 1
  PROVE  key \in Keys /\ Hash[sig.nonce] \in [Coef -> 0..(q - 1)]
<1>1. key \in Keys /\ sig.nonce \in Nonces
  BY Zenon DEF CallState
<1>2. Hash \in [Nonces -> [Coef -> 0..(q - 1)]]
  BY HashAssumption, Zenon DEF Coef
<1> QED
  BY <1>1, <1>2, Zenon

\* A statement takes the area to the next line.
LEMMA LineArea ==
  ASSUME NEW l \in 1..122, l \notin {5, 18, 27, 56, 77}, NEW k \in Keys, k = key,
         NEW c \in [Coef -> 0..(q - 1)], c = Hash[sig.nonce], NEW z1, NEW z0,
         l \in 78..122 => z1 \in Poly /\ Within(q2, z1) /\ z0 \in Poly /\ Within(q2, z0),
         NEW m, Area(m, l, k, c, z1, z0)
  PROVE  Area(Apply(m, Body[l]), l + 1, k, c, z1, z0)
<1>1. CASE l \in 1..18
  <2>1. Body[l] = GramBothModuli[l]
    BY <1>1, BodyParts, Zenon
  <2>2. l # 5 /\ l # 18
    BY SMT
  <2>3. Area(Apply(m, GramBothModuli[l]), l + 1, k, c, z1, z0)
    BY <1>1, <2>2, GramLines, Zenon
  <2> QED
    BY <2>1, <2>3, Zenon
<1>2. CASE l \in 19..26
  <2> DEFINE j == l - 18
  <2>1. j \in 1..8 /\ 18 + j = l
    BY <1>2, SMT
  <2> HIDE DEF j
  <2>2. Body[18 + j] = FirstCentre[j]
    BY <2>1, BodyParts, Zenon
  <2>3. Area(m, 18 + j, k, c, z1, z0)
    BY <2>1, Zenon
  <2>4. Area(Apply(m, FirstCentre[j]), 18 + j + 1, k, c, z1, z0)
    BY <2>1, <2>3, FirstLines, Zenon
  <2> QED
    BY <2>1, <2>2, <2>4, Zenon
<1>3. CASE l \in 28..55
  <2> DEFINE j == l - 27
  <2>1. j \in 1..29 /\ j # 29 /\ 27 + j = l
    BY <1>3, SMT
  <2> HIDE DEF j
  <2>2. Body[27 + j] = RebuildG[j]
    BY <2>1, BodyParts, Zenon
  <2>3. Area(m, 27 + j, k, c, z1, z0)
    BY <2>1, Zenon
  <2>4. Area(Apply(m, RebuildG[j]), 27 + j + 1, k, c, z1, z0)
    BY <2>1, <2>3, RebuildLines, Zenon
  <2> QED
    BY <2>1, <2>2, <2>4, Zenon
<1>4. CASE l \in 57..76
  <2> DEFINE j == l - 56
  <2>1. j \in 1..20 /\ 56 + j = l
    BY <1>4, SMT
  <2> HIDE DEF j
  <2>2. Body[56 + j] = SecondCentre[j]
    BY <2>1, BodyParts, Zenon
  <2>3. Area(m, 56 + j, k, c, z1, z0)
    BY <2>1, Zenon
  <2>4. Area(Apply(m, SecondCentre[j]), 56 + j + 1, k, c, z1, z0)
    BY <2>1, <2>3, SecondLines, Zenon
  <2> QED
    BY <2>1, <2>2, <2>4, Zenon
<1>5. CASE l \in 78..111
  <2> DEFINE j == l - 77
  <2>1. j \in 1..34 /\ 77 + j = l /\ l \in 78..122
    BY <1>5, SMT
  <2> HIDE DEF j
  <2>2. Body[77 + j] = BuildS1[j]
    BY <2>1, BodyParts, Zenon
  <2>3. Area(m, 77 + j, k, c, z1, z0) /\ z1 \in Poly /\ Within(q2, z1) /\ z0 \in Poly /\ Within(q2, z0)
    BY <2>1, Zenon
  <2>4. Area(Apply(m, BuildS1[j]), 77 + j + 1, k, c, z1, z0)
    BY <2>1, <2>3, S1Lines, Zenon
  <2> QED
    BY <2>1, <2>2, <2>4, Zenon
<1>6. CASE l \in 112..122
  <2> DEFINE j == l - 111
  <2>1. j \in 1..11 /\ 111 + j = l /\ l \in 78..122
    BY <1>6, SMT
  <2> HIDE DEF j
  <2>2. Body[111 + j] = BuildS0[j]
    BY <2>1, BodyParts, Zenon
  <2>3. Area(m, 111 + j, k, c, z1, z0) /\ z1 \in Poly /\ Within(q2, z1) /\ z0 \in Poly /\ Within(q2, z0)
    BY <2>1, Zenon
  <2>4. Area(Apply(m, BuildS0[j]), 111 + j + 1, k, c, z1, z0)
    BY <2>1, <2>3, S0Lines, Zenon
  <2> QED
    BY <2>1, <2>2, <2>4, Zenon
<1> QED
  BY <1>1, <1>2, <1>3, <1>4, <1>5, <1>6, SMT

LEMMA StatementStep ==
  ASSUME CallOK, CallState, AreaInv, Statement
  PROVE  AreaInv'
<1> DEFINE k == key
           c == Hash[sig.nonce]
           z1 == z.t1
           z0 == z.t0
           l == line
<1>1. pc = "body" /\ Body[l][1] \notin Special
  BY Zenon DEF Statement
<1>2. l \in 1..122
  BY <1>1, BodyParts, SMT DEF CallOK
<1>3. l \notin {5, 18, 27, 56, 77}
  BY <1>1, <1>2, SpecialLines, Zenon
<1>4. k \in Keys /\ c \in [Coef -> 0..(q - 1)]
  BY <1>1, CallKnown, Zenon
<1>5. l \in 78..122 => z1 \in Poly /\ Within(q2, z1) /\ z0 \in Poly /\ Within(q2, z0)
  <2>1. l \in 78..122 => l \in 28..123 /\ l \in 78..123
    BY <1>2, SMT
  <2> QED
    BY <2>1, Zenon DEF CallState, Sampled1, Sampled0
<1>6. Area(mem, l, k, c, z1, z0)
  BY Zenon DEF AreaInv
<1> HIDE DEF k, c, z1, z0, l
<1>7. k = key /\ c = Hash[sig.nonce]
  BY Zenon DEF k, c
<1>8. Area(Apply(mem, Body[l]), l + 1, k, c, z1, z0)
  BY <1>2, <1>3, <1>4, <1>5, <1>6, <1>7, LineArea, Zenon
<1>9. mem' = Apply(mem, Body[line]) /\ line' = line + 1 /\ key' = key /\ sig' = sig /\ z' = z
  BY Zenon DEF Statement, Advance
<1> QED
  BY <1>8, <1>9, Zenon DEF AreaInv, k, c, z1, z0, l

\* f*G - g*F = q with short G and F needs f and g to be long enough.
LEMMA NormSum ==
  ASSUME NEW k \in Keys
  PROVE  /\ mqpoly_sqnorm_small(k.f) + mqpoly_sqnorm_small(k.g) \in Int
         /\ mqpoly_sqnorm_small(k.f) + mqpoly_sqnorm_small(k.g) >= 2352
<1> DEFINE f0 == k.f[0]
           f1 == k.f[1]
           g0 == k.g[0]
           g1 == k.g[1]
           F0 == k.F[0]
           F1 == k.F[1]
           G0 == BigG(k)[0]
           G1 == BigG(k)[1]
           fG == Times(k.f, BigG(k))
           gF == Times(k.g, k.F)
           n == mqpoly_sqnorm_small(k.f) + mqpoly_sqnorm_small(k.g)
<1>1. /\ k.f \in Poly /\ k.g \in Poly /\ k.F \in Poly /\ BigG(k) \in Poly
      /\ \A i \in Coef : -127 <= k.F[i] /\ k.F[i] <= 127
      /\ \A i \in Coef : -127 <= BigG(k)[i] /\ BigG(k)[i] <= 127
      /\ Minus(Times(k.f, BigG(k)), Times(k.g, k.F)) = Const(q)
  BY KeyPolys, Zenon
<1>2. /\ f0 \in Int /\ f1 \in Int /\ g0 \in Int /\ g1 \in Int
      /\ F0 \in -127..127 /\ F1 \in -127..127 /\ G0 \in -127..127 /\ G1 \in -127..127
  BY <1>1, SMT DEF Poly, Coef
<1>3. fG[0] = f0 * G0 - f1 * G1 /\ gF[0] = g0 * F0 - g1 * F1 /\ fG \in Poly /\ gF \in Poly
  BY <1>1, RingOps, ZenonT(40)
<1>4. Minus(fG, gF)[0] = fG[0] - gF[0]
  BY <1>3, RingOps, Zenon
<1>5. Const(q)[0] = q
  BY ModInt, ConstPoly, Zenon
<1>6. (f0 * G0 - f1 * G1) - (g0 * F0 - g1 * F1) = q
  BY <1>1, <1>3, <1>4, <1>5, Zenon
<1>7. n = (f0 * f0 + f1 * f1) + (g0 * g0 + g1 * g1)
  BY Zenon DEF mqpoly_sqnorm_small
<1> HIDE DEF f0, f1, g0, g1, F0, F1, G0, G1, fG, gF, n
\* Each product is at most 127 times the absolute value h, and h is at most (x^2 + 24^2)/48.
<1>8. ASSUME NEW x \in Int, NEW y \in -127..127
      PROVE  \E h \in Int : -127 * h <= x * y /\ x * y <= 127 * h /\ 48 * h <= x * x + 576
  <2> DEFINE h == IF x >= 0 THEN x ELSE -x
  <2>1. h \in Int /\ h >= 0 /\ (h = x \/ h = -x) /\ h * h = x * x
    BY SMT
  <2>2. (h - 24) * (h - 24) >= 0 /\ (h - 24) * (h - 24) = h * h - 48 * h + 576
    BY <2>1, SMT
  <2>3. h * (127 - y) >= 0 /\ h * (127 + y) >= 0
    BY <2>1, SMT
  <2>4. h * (127 - y) = 127 * h - h * y /\ h * (127 + y) = 127 * h + h * y
    BY <2>1, SMT
  <2>5. x * y = h * y \/ x * y = -(h * y)
    BY <2>1, SMT
  <2> DEFINE hy == h * y
             xy == x * y
             hh == h * h
             xx == x * x
  <2>6. hy \in Int /\ xy \in Int /\ hh \in Int /\ xx \in Int
    BY <2>1, SMT
  <2>7. /\ hh - 48 * h + 576 >= 0 /\ hh = xx
        /\ 127 * h - hy >= 0 /\ 127 * h + hy >= 0 /\ (xy = hy \/ xy = -hy)
    BY <2>1, <2>2, <2>3, <2>4, <2>5
  <2> HIDE DEF h, hy, xy, hh, xx
  <2>8. -127 * h <= xy /\ xy <= 127 * h /\ 48 * h <= xx + 576
    BY <2>1, <2>6, <2>7, SMT
  <2> QED
    BY <2>1, <2>8 DEF xy, xx
<1>9. /\ \E h \in Int : -127 * h <= f0 * G0 /\ f0 * G0 <= 127 * h /\ 48 * h <= f0 * f0 + 576
      /\ \E h \in Int : -127 * h <= f1 * G1 /\ f1 * G1 <= 127 * h /\ 48 * h <= f1 * f1 + 576
      /\ \E h \in Int : -127 * h <= g0 * F0 /\ g0 * F0 <= 127 * h /\ 48 * h <= g0 * g0 + 576
      /\ \E h \in Int : -127 * h <= g1 * F1 /\ g1 * F1 <= 127 * h /\ 48 * h <= g1 * g1 + 576
  BY <1>2, <1>8, ZenonT(40)
<1> DEFINE p0 == f0 * G0
           p1 == f1 * G1
           r0 == g0 * F0
           r1 == g1 * F1
           s0 == f0 * f0
           s1 == f1 * f1
           t0 == g0 * g0
           t1 == g1 * g1
<1>10. /\ p0 \in Int /\ p1 \in Int /\ r0 \in Int /\ r1 \in Int
       /\ s0 \in Int /\ s1 \in Int /\ t0 \in Int /\ t1 \in Int
  BY <1>2, SMT
<1>11. /\ \E h \in Int : -127 * h <= p0 /\ p0 <= 127 * h /\ 48 * h <= s0 + 576
       /\ \E h \in Int : -127 * h <= p1 /\ p1 <= 127 * h /\ 48 * h <= s1 + 576
       /\ \E h \in Int : -127 * h <= r0 /\ r0 <= 127 * h /\ 48 * h <= t0 + 576
       /\ \E h \in Int : -127 * h <= r1 /\ r1 <= 127 * h /\ 48 * h <= t1 + 576
       /\ (p0 - p1) - (r0 - r1) = q /\ n = (s0 + s1) + (t0 + t1)
  BY <1>6, <1>7, <1>9
<1> HIDE DEF p0, p1, r0, r1, s0, s1, t0, t1
<1>12. n \in Int /\ n >= 2352
  BY <1>10, <1>11, Moduli, SMT
<1> QED
  BY <1>12 DEF n

\* The saved bit moves the signed value modulo q' to the Gram value.
LEMMA GramAdjusted ==
  ASSUME NEW k \in Keys, mqpoly_sqnorm_small(k.f) + mqpoly_sqnorm_small(k.g) <= MAX_NORM,
         NEW a, a = Centred(GramOf(k), q2), NEW b, b = Centred(GramOf(k), q)
  PROVE  /\ mq2mqpoly_adjust_save(1, a, b).val = GramOf(k)
         /\ mq2mqpoly_adjust_save(1, a, b).adj[0] = NeedsAdjust(a[0], b[0])
         /\ \A adj : adj[0] = NeedsAdjust(a[0], b[0]) => mq2mqpoly_adjust(1, a, adj) = GramOf(k)
<1> DEFINE n == mqpoly_sqnorm_small(k.f) + mqpoly_sqnorm_small(k.g)
           x == GramOf(k)
<1>1. n \in Int /\ n >= 2352 /\ n <= 16822
  BY NormSum, SMT DEF MAX_NORM
<1>0. n \in Int
  BY NormSum
<1>2. x \in Poly /\ x[0] = n /\ x[1] = 0
  BY <1>0, ConstPoly, Zenon DEF GramOf
<1>3. q \in {q, q2} /\ q2 \in {q, q2}
  OBVIOUS
<1>4. /\ a \in Poly /\ Equiv(q2, a, x) /\ \A i \in Coef : -q2 < 2 * a[i] /\ 2 * a[i] < q2
      /\ b \in Poly /\ Equiv(q, b, x) /\ \A i \in Coef : -q < 2 * b[i] /\ 2 * b[i] < q
  BY <1>2, <1>3, CentredIs, Zenon
<1> HIDE DEF n, x
<1>5. /\ a[0] \in Int /\ a[1] \in Int /\ b[0] \in Int /\ x[0] \in Int /\ x[1] \in Int
      /\ 0 \in Coef /\ 1 \in Coef
  BY <1>2, <1>4, SMT DEF Poly, Coef
<1>6. Cong(q2, a[0], x[0]) /\ Cong(q2, a[1], x[1]) /\ Cong(q, b[0], x[0])
  BY <1>4, <1>5, Zenon DEF Equiv
<1>7. (\E j \in Int : x[0] = a[0] + q2 * j) /\ (\E j \in Int : x[0] = b[0] + q * j)
      /\ (\E j \in Int : a[1] = x[1] + q2 * j)
  <2>1. Cong(q2, x[0], a[0]) /\ Cong(q, x[0], b[0])
    BY <1>5, <1>6, ModInt, CongTurn, Zenon
  <2>2. \E j \in Int : x[0] = a[0] + q2 * j
    BY <2>1, Zenon DEF Cong
  <2>3. \E j \in Int : x[0] = b[0] + q * j
    BY <2>1, Zenon DEF Cong
  <2>4. \E j \in Int : a[1] = x[1] + q2 * j
    BY <1>6, Zenon DEF Cong
  <2> QED
    BY <2>2, <2>3, <2>4
<1>8. /\ -q2 < 2 * a[0] /\ 2 * a[0] < q2 /\ -q2 < 2 * a[1] /\ 2 * a[1] < q2
      /\ -q < 2 * b[0] /\ 2 * b[0] < q
  BY <1>4, <1>5, Zenon
<1> DEFINE a0 == a[0]
           a1 == a[1]
           b0 == b[0]
<1>9. /\ a0 \in Int /\ -9216 <= a0 /\ a0 <= 9216 /\ b0 \in Int /\ -6144 <= b0 /\ b0 <= 6144
      /\ (\E j \in Int : n = a0 + 18433 * j) /\ (\E j \in Int : n = b0 + 12289 * j)
  <2>1. a0 \in Int /\ b0 \in Int /\ (\E j \in Int : n = a0 + q2 * j) /\ (\E j \in Int : n = b0 + q * j)
    BY <1>2, <1>5, <1>7, Zenon
  <2>2. -q2 < 2 * a0 /\ 2 * a0 < q2 /\ -q < 2 * b0 /\ 2 * b0 < q
    BY <1>8
  <2> HIDE DEF a0, b0
  <2>3. (\E j \in Int : n = a0 + 18433 * j) /\ (\E j \in Int : n = b0 + 12289 * j)
    <3> DEFINE big == 18433
               mid == 12289
    <3>1. q2 = big /\ q = mid
      BY Moduli
    <3> HIDE DEF big, mid
    <3>2. (\E j \in Int : n = a0 + big * j) /\ (\E j \in Int : n = b0 + mid * j)
      BY <2>1, <3>1, Zenon
    <3> QED
      BY <3>2 DEF big, mid
  <2>4. -9216 <= a0 /\ a0 <= 9216 /\ -6144 <= b0 /\ b0 <= 6144
    BY <2>1, <2>2, SMT DEF q, q2
  <2> QED
    BY <2>1, <2>3, <2>4
<1>10. a1 = 0
  <2>1. a1 \in Int /\ (\E j \in Int : a1 = 0 + q2 * j) /\ -q2 < 2 * a1 /\ 2 * a1 < q2
    BY <1>2, <1>5, <1>7, <1>8, Zenon
  <2> HIDE DEF a1
  <2> QED
    BY <2>1, Moduli, SMT
<1> HIDE DEF a0, b0
<1>11. Adjusted(a0, NeedsAdjust(a0, b0)) = n
  BY <1>1, <1>9, AdjustRecovers, SMT
<1>12. DOMAIN a = Coef /\ DOMAIN x = Coef /\ x = [i \in Coef |-> x[i]]
  BY <1>2, <1>4, Zenon DEF Poly
<1>13. ASSUME NEW adj, adj[0] = NeedsAdjust(a0, b0)
       PROVE  [i \in DOMAIN a |-> IF i < 1 THEN Adjusted(a[i], adj[i]) ELSE a[i]] = x
  <2>1. Adjusted(a[0], adj[0]) = x[0]
    <3>1. Adjusted(a[0], adj[0]) = Adjusted(a0, NeedsAdjust(a0, b0))
      BY <1>13, Zenon DEF a0
    <3> QED
      BY <1>2, <1>11, <3>1
  <2>2. a[1] = x[1]
    BY <1>2, <1>10
  <2>3. ASSUME NEW i \in Coef PROVE (IF i < 1 THEN Adjusted(a[i], adj[i]) ELSE a[i]) = x[i]
    <3>1. i = 0 \/ i = 1
      BY SMT DEF Coef
    <3>2. 0 < 1 /\ ~(1 < 1)
      BY SMT
    <3> QED
      BY <2>1, <2>2, <3>1, <3>2
  <2> QED
    BY <1>12, <2>3, Zenon
<1>14. \A adj : adj[0] = NeedsAdjust(a[0], b[0]) => mq2mqpoly_adjust(1, a, adj) = x
  BY <1>13, Zenon DEF mq2mqpoly_adjust, a0, b0
<1> DEFINE bits == [i \in 0..(1 - 1) |-> NeedsAdjust(a[i], b[i])]
<1>15. bits[0] = NeedsAdjust(a0, b0)
  BY SMT DEF a0, b0
<1>16. /\ mq2mqpoly_adjust_save(1, a, b).adj = bits
       /\ mq2mqpoly_adjust_save(1, a, b).val = [i \in DOMAIN a |-> IF i < 1 THEN Adjusted(a[i], bits[i]) ELSE a[i]]
  BY Zenon DEF mq2mqpoly_adjust_save
<1> HIDE DEF bits
<1>17. mq2mqpoly_adjust_save(1, a, b).val = x
  <2>1. [i \in DOMAIN a |-> IF i < 1 THEN Adjusted(a[i], bits[i]) ELSE a[i]] = x
    BY <1>13, <1>15, Zenon
  <2> QED
    BY <1>16, <2>1, Zenon
<1> QED
  BY <1>14, <1>15, <1>16, <1>17, Zenon DEF a0, b0, x

\* CallState after a statement, from what it does to the signature buffer and the samples.
LEMMA OneLine ==
  ASSUME CallOK, CallState, pc = "body", Advance, key' = key, ret' = ret,
         sig' = [header |-> sig'.header, nonce |-> sig.nonce, kind |-> sig'.kind, body |-> sig'.body],
         z' = [t1 |-> z'.t1, t0 |-> z'.t0],
         line = 5 => Gram <= MAX_NORM,
         line = 18 =>
             /\ sig'.kind = "adj"
             /\ sig'.body[0] = NeedsAdjust(Centred(GramOf(key), q2)[0], Centred(GramOf(key), q)[0]),
         line # 18 => sig' = sig,
         line # 27 => z'.t1 = z.t1, line = 27 => Sampled1(key, Hash[sig.nonce], z'.t1),
         line # 77 => z'.t0 = z.t0, line = 77 => Sampled0(z'.t0)
  PROVE  CallState'
<1>1. /\ line' = line + 1 /\ line \in 1..122 /\ line' \in 2..123 /\ pc' \in {"body", "check"}
      /\ (pc' = "check" => line' = 123)
  BY BodyParts, SMT DEF Advance, CallOK
<1>2. sig'.nonce = sig.nonce
  <2> DEFINE hd == sig'.header
             kd == sig'.kind
             bd == sig'.body
             nc == sig.nonce
             sg == sig'
  <2>1. sg = [header |-> hd, nonce |-> nc, kind |-> kd, body |-> bd]
    OBVIOUS
  <2> HIDE DEF hd, kd, bd, nc, sg
  <2>2. sg.nonce = nc
    BY <2>1
  <2> QED
    BY <2>2 DEF sg, nc
<1>3. (pc' = "check" => line' = 123) /\ (pc' # "done" => ret' = 0)
  BY <1>1, SMT DEF CallState
<1>4. key' \in Keys /\ (line' \in 6..123 => Gram' <= MAX_NORM)
  <2>1. Gram' = Gram
    BY Zenon DEF Gram
  <2>2. line' \in 6..123 => line = 5 \/ line \in 6..123
    BY <1>1, SMT
  <2> QED
    BY <2>1, <2>2, Zenon DEF CallState
<1>5. sig' = [header |-> sig'.header, nonce |-> sig'.nonce, kind |-> sig'.kind, body |-> sig'.body]
  BY <1>2, Zenon
<1>6. sig'.nonce \in Nonces
  BY <1>2, Zenon DEF CallState
<1>7. line' \in 19..56 =>
          /\ sig'.kind = "adj"
          /\ sig'.body[0] = NeedsAdjust(Centred(GramOf(key'), q2)[0], Centred(GramOf(key'), q)[0])
  <2>1. line' \in 19..56 => line = 18 \/ (line # 18 /\ line \in 19..56)
    BY <1>1, SMT
  <2> QED
    BY <2>1, Zenon DEF CallState
<1>8. line' \in 28..123 => Sampled1(key', Hash[sig'.nonce], z'.t1)
  <2>1. line' \in 28..123 => line = 27 \/ (line # 27 /\ line \in 28..123)
    BY <1>1, SMT
  <2> QED
    BY <1>2, <2>1, Zenon DEF CallState
<1>9. line' \in 78..123 => Sampled0(z'.t0)
  <2>1. line' \in 78..123 => line = 77 \/ (line # 77 /\ line \in 78..123)
    BY <1>1, SMT
  <2> QED
    BY <2>1, Zenon DEF CallState
<1> QED
  BY <1>3, <1>4, <1>5, <1>6, <1>7, <1>8, <1>9, Zenon DEF CallState

\* The statements that touch neither.
LEMMA QuietLine ==
  ASSUME CallOK, CallState, pc = "body", line \notin {5, 18, 27, 77},
         Advance, UNCHANGED <<key, sig, z, ret>>
  PROVE  CallState'
<1>1. line # 5 /\ line # 18 /\ line # 27 /\ line # 77
  OBVIOUS
<1>2. key' = key /\ sig' = sig /\ z' = z /\ ret' = ret
  BY Zenon
<1>3. /\ sig' = [header |-> sig'.header, nonce |-> sig.nonce, kind |-> sig'.kind, body |-> sig'.body]
      /\ z' = [t1 |-> z'.t1, t0 |-> z'.t0] /\ z'.t1 = z.t1 /\ z'.t0 = z.t0
  BY <1>2, ZenonT(40) DEF CallState
<1> QED
  BY <1>1, <1>2, <1>3, OneLine, Zenon

\* The line of each special statement.
LEMMA LineOf ==
  ASSUME CallOK, pc = "body"
  PROVE  /\ line \in 1..122
         /\ At("check norm") <=> line = 5
         /\ At("adjust_save") <=> line = 18
         /\ At("adjust") <=> line = 56
         /\ At("ffsamp") /\ Body[line][2] = 16 <=> line = 27
         /\ At("ffsamp") /\ Body[line][2] = 18 <=> line = 77
<1>1. line \in 1..122
  BY BodyParts, SMT DEF CallOK
<1>2. /\ At("check norm") <=> line = 5
      /\ At("adjust_save") <=> line = 18
      /\ At("adjust") <=> line = 56
      /\ At("ffsamp") <=> line \in {27, 77}
  BY <1>1, SpecialLines, Zenon DEF At
<1>3. Body[27][2] = 16 /\ Body[77][2] = 18
  BY BodyParts, SMT
<1>4. 16 # 18
  OBVIOUS
<1>5. line \in {27, 77} <=> line = 27 \/ line = 77
  OBVIOUS
<1> QED
  BY <1>1, <1>2, <1>3, <1>4, <1>5, ZenonT(40)

\* The norm test reads f and g, and is the bound on Gram that later lines rely on.
LEMMA CheckNormStep ==
  ASSUME CallOK, CallState, AreaInv, CheckNorm
  PROVE  AreaInv' /\ CallState' /\ (pc' = "done" => ret' = 0 /\ Gram' > MAX_NORM)
<1> DEFINE k == key
           c == Hash[sig.nonce]
           z1 == z.t1
           z0 == z.t0
           m == mem
<1>1. At("check norm") /\ pc = "body"
  BY Zenon DEF CheckNorm, At
<1>2. line = 5
  BY <1>1, LineOf, Zenon
<1>3. key' = key /\ counter' = counter /\ mem' = mem /\ sig' = sig /\ z' = z /\ ret' = ret
  BY Zenon DEF CheckNorm
<1>4. Area(m, 5, k, c, z1, z0)
  BY <1>2, Zenon DEF AreaInv
<1> HIDE DEF k, c, z1, z0, m
<1>5. Carries(m, 4, "small", k.f) /\ Carries(m, 5, "small", k.g) /\ Carries(m, 0, "ntt2", k.f)
  BY <1>4, SMT DEF Area, Row
<1>6. Area(m, 6, k, c, z1, z0)
  BY <1>5, SMT DEF Area, Row
<1>7. mem[4].val = key.f /\ mem[5].val = key.g
  <2>1. m[4].val = k.f /\ m[5].val = k.g
    BY <1>5, CarriesIs, SMT
  <2> QED
    BY <2>1 DEF m, k
<1>8. Gram = mqpoly_sqnorm_small(mem[4].val) + mqpoly_sqnorm_small(mem[5].val)
  BY <1>7, Zenon DEF Gram
<1>9. Gram \in Int
  <2>1. key \in Keys
    BY Zenon DEF CallState
  <2> QED
    BY <2>1, NormSum DEF Gram
<1>10. Gram' = Gram
  BY <1>3, Zenon DEF Gram
<1>11. CASE Gram > MAX_NORM
  <2>1. pc' = "done" /\ line' = line
    BY <1>8, <1>11, Zenon DEF CheckNorm
  <2>2. AreaInv'
    BY <1>3, <2>1, Zenon DEF AreaInv
  <2>3. ret' = 0
    <3>1. pc # "done"
      BY <1>1
    <3> QED
      BY <1>3, <3>1, Zenon DEF CallState
  <2>4. line \notin 6..123 /\ line \notin 19..56 /\ line \notin 28..123 /\ line \notin 78..123
    BY <1>2, SMT
  <2>5. "done" # "check"
    OBVIOUS
  <2>6. CallState'
    BY <1>1, <1>3, <2>1, <2>3, <2>4, <2>5, Zenon DEF CallState
  <2> QED
    BY <1>10, <1>11, <2>2, <2>3, <2>6
<1>12. CASE ~(Gram > MAX_NORM)
  <2>1. Advance
    BY <1>8, <1>12, Zenon DEF CheckNorm
  <2>2. Gram <= MAX_NORM
    BY <1>9, <1>12 DEF MAX_NORM
  <2>3. line' = 6 /\ pc' # "done"
    BY <1>2, <2>1, BodyParts, SMT DEF Advance
  <2>4. Area(mem, 6, key, Hash[sig.nonce], z.t1, z.t0)
    BY <1>6 DEF k, c, z1, z0, m
  <2>5. AreaInv'
    BY <1>3, <2>3, <2>4, Zenon DEF AreaInv
  <2>6. line # 18 /\ line # 27 /\ line # 77
    BY <1>2
  <2>7. /\ sig' = [header |-> sig'.header, nonce |-> sig.nonce, kind |-> sig'.kind, body |-> sig'.body]
        /\ z' = [t1 |-> z'.t1, t0 |-> z'.t0] /\ z'.t1 = z.t1 /\ z'.t0 = z.t0
    BY <1>3, Zenon DEF CallState
  <2>8. CallState'
    BY <1>1, <1>3, <2>1, <2>2, <2>6, <2>7, OneLine, Zenon
  <2> QED
    BY <2>3, <2>5, <2>8, Zenon
<1> QED
  BY <1>11, <1>12, Zenon

\* adjust_save makes the Gram value whole and puts the bit that did so into the buffer.
LEMMA AdjustSaveStep ==
  ASSUME CallOK, CallState, AreaInv, AdjustSave
  PROVE  AreaInv' /\ CallState' /\ pc' # "done"
<1> DEFINE k == key
           c == Hash[sig.nonce]
           z1 == z.t1
           z0 == z.t0
           m == mem
           r == mq2mqpoly_adjust_save(1, mem[0].val, mem[2].val)
           n == Put(m, 0, "i16", r.val)
<1>1. At("adjust_save") /\ pc = "body"
  BY Zenon DEF AdjustSave, At
<1>2. line = 18
  BY <1>1, LineOf, Zenon
<1>3. /\ key' = key /\ z' = z /\ ret' = ret /\ mem' = n /\ Advance
      /\ sig' = [sig EXCEPT !.kind = "adj", !.body = r.adj]
  BY Zenon DEF AdjustSave
<1>4. Area(m, 18, k, c, z1, z0)
  BY <1>2, Zenon DEF AreaInv
<1>5. k \in Keys
  BY Zenon DEF CallState
<1>6. mqpoly_sqnorm_small(k.f) + mqpoly_sqnorm_small(k.g) <= MAX_NORM
  <2>1. line \in 6..123
    BY <1>2
  <2> QED
    BY <2>1, Zenon DEF CallState, Gram
<1> HIDE DEF c, z1, z0, m, k
<1>7. /\ Carries(m, 0, "i16", Centred(GramOf(k), q2)) /\ Carries(m, 2, "i16", Centred(GramOf(k), q))
      /\ Carries(m, 18, "ntt", k.f)
  BY <1>4, SMT DEF Area, Row
<1>8. m[0].val = Centred(GramOf(k), q2) /\ m[2].val = Centred(GramOf(k), q)
  BY <1>7, CarriesIs, SMT
<1>9. /\ r.val = GramOf(k)
      /\ r.adj[0] = NeedsAdjust(Centred(GramOf(k), q2)[0], Centred(GramOf(k), q)[0])
  <2> DEFINE a == m[0].val
             b == m[2].val
  <2>1. a = Centred(GramOf(k), q2) /\ b = Centred(GramOf(k), q)
    BY <1>8
  <2>2. r = mq2mqpoly_adjust_save(1, a, b)
    BY Zenon DEF m
  <2> HIDE DEF a, b, r
  <2>3. /\ mq2mqpoly_adjust_save(1, a, b).val = GramOf(k)
        /\ mq2mqpoly_adjust_save(1, a, b).adj[0] = NeedsAdjust(a[0], b[0])
    BY <1>5, <1>6, <2>1, GramAdjusted, SMT
  <2> QED
    BY <2>1, <2>2, <2>3, Zenon
<1> HIDE DEF r
<1>10. Means("i16", r.val, GramOf(k))
  BY <1>9, MeansIs, Zenon
<1>11. 0 \in 0..18
  BY SMT
<1>12. Carries(n, 0, "i16", GramOf(k)) /\ Changes(m, n, 0..(0 + 1))
  BY <1>10, <1>11, PutPair, Zenon
<1>13. Apart(18, "ntt", 0..(0 + 1))
  BY SizeIs, SMT DEF Apart
<1> HIDE DEF n
<1>14. Carries(n, 18, "ntt", k.f)
  BY <1>7, <1>12, <1>13, Kept, SMT
<1>15. Area(n, 19, k, c, z1, z0)
  BY <1>12, <1>14, SMT DEF Area, Row
<1>16. sig' = [header |-> sig.header, nonce |-> sig.nonce, kind |-> "adj", body |-> r.adj]
  <2> DEFINE hd == sig.header
             nc == sig.nonce
             kd == sig.kind
             bd == sig.body
  <2>1. sig = [header |-> hd, nonce |-> nc, kind |-> kd, body |-> bd]
    BY Zenon DEF CallState
  <2> HIDE DEF hd, nc, kd, bd
  <2>2. sig' = [header |-> hd, nonce |-> nc, kind |-> "adj", body |-> r.adj]
    BY <1>3, <2>1
  <2> QED
    BY <2>2 DEF hd, nc
<1>17. /\ sig'.header = sig.header /\ sig'.nonce = sig.nonce /\ sig'.kind = "adj"
       /\ sig'.body = r.adj
  <2> DEFINE hd == sig.header
             nc == sig.nonce
             bd == r.adj
             sg == sig'
  <2>1. sg = [header |-> hd, nonce |-> nc, kind |-> "adj", body |-> bd]
    BY <1>16
  <2> HIDE DEF hd, nc, bd, sg
  <2>2. sg.header = hd /\ sg.nonce = nc /\ sg.kind = "adj" /\ sg.body = bd
    BY <2>1
  <2> QED
    BY <2>2 DEF hd, nc, bd, sg
<1>18. line' = 19 /\ pc' # "done"
  BY <1>2, <1>3, BodyParts, SMT DEF Advance
<1>19. AreaInv'
  <2>1. Area(mem', 19, key', Hash[sig'.nonce], z'.t1, z'.t0)
    BY <1>3, <1>15, <1>17 DEF k, c, z1, z0
  <2> QED
    BY <1>18, <2>1, Zenon DEF AreaInv
<1>20. line # 5 /\ line # 27 /\ line # 77 /\ line = 18
  BY <1>2
<1>21. z' = [t1 |-> z'.t1, t0 |-> z'.t0] /\ z'.t1 = z.t1 /\ z'.t0 = z.t0
  BY <1>3, Zenon DEF CallState
<1>22. /\ sig' = [header |-> sig'.header, nonce |-> sig.nonce, kind |-> sig'.kind, body |-> sig'.body]
       /\ sig'.kind = "adj"
       /\ sig'.body[0] = NeedsAdjust(Centred(GramOf(key), q2)[0], Centred(GramOf(key), q)[0])
  BY <1>9, <1>16, <1>17, Zenon DEF k
<1>23. CallState'
  BY <1>1, <1>3, <1>20, <1>21, <1>22, OneLine, Zenon
<1> QED
  BY <1>18, <1>19, <1>23

\* The bit kept in the buffer makes the second copy of the Gram value whole.
LEMMA AdjustStep ==
  ASSUME CallOK, CallState, AreaInv, Adjust
  PROVE  AreaInv' /\ CallState' /\ pc' # "done"
<1> DEFINE k == key
           c == Hash[sig.nonce]
           z1 == z.t1
           z0 == z.t0
           m == mem
           bits == sig.body
           v == mq2mqpoly_adjust(1, mem[18].val, bits)
           n == Put(m, 18, "i16", v)
<1>1. At("adjust") /\ pc = "body"
  BY Zenon DEF Adjust, At
<1>2. line = 56
  BY <1>1, LineOf, Zenon
<1>3. key' = key /\ z' = z /\ ret' = ret /\ mem' = n /\ Advance /\ sig' = sig
  BY Zenon DEF Adjust
<1>4. Area(m, 56, k, c, z1, z0)
  BY <1>2, Zenon DEF AreaInv
<1>5. k \in Keys
  BY Zenon DEF CallState
<1>6. mqpoly_sqnorm_small(k.f) + mqpoly_sqnorm_small(k.g) <= MAX_NORM
  <2>1. line \in 6..123
    BY <1>2
  <2> QED
    BY <2>1, Zenon DEF CallState, Gram
<1>7. bits[0] = NeedsAdjust(Centred(GramOf(k), q2)[0], Centred(GramOf(k), q)[0])
  <2>1. line \in 19..56
    BY <1>2
  <2> QED
    BY <2>1, Zenon DEF CallState
<1> HIDE DEF c, z1, z0, m, k, bits
<1>8. /\ Carries(m, 18, "i16", Centred(GramOf(k), q2))
      /\ Carries(m, 0, "fft", Rest(k, c, z1)) /\ Carries(m, 16, "i16", z1)
      /\ Carries(m, 8, "i16", Centred(CrossOf(k), q))
      /\ Carries(m, 10, "ntt2", Times(BigG(k), Adj(k.g))) /\ Carries(m, 12, "ntt2", k.f)
  BY <1>4, SMT DEF Area, Row
<1>9. m[18].val = Centred(GramOf(k), q2)
  <2>1. Carries(m, 18, "i16", Centred(GramOf(k), q2))
    BY <1>8
  <2> QED
    BY <2>1, CarriesIs, SMT
<1>10. v = GramOf(k)
  <2> DEFINE a == Centred(GramOf(k), q2)
             b == Centred(GramOf(k), q)
  <2>1. v = mq2mqpoly_adjust(1, a, bits)
    BY <1>9, Zenon DEF m
  <2>2. bits[0] = NeedsAdjust(a[0], b[0]) /\ a = Centred(GramOf(k), q2) /\ b = Centred(GramOf(k), q)
    BY <1>7
  <2> HIDE DEF a, b, v
  <2>3. \A adj : adj[0] = NeedsAdjust(a[0], b[0]) => mq2mqpoly_adjust(1, a, adj) = GramOf(k)
    BY <1>5, <1>6, <2>2, GramAdjusted, SMT
  <2> QED
    BY <2>1, <2>2, <2>3, Zenon
<1> HIDE DEF v
<1>11. Means("i16", v, GramOf(k))
  BY <1>10, MeansIs, Zenon
<1>12. 18 \in 0..18
  BY SMT
<1>13. Carries(n, 18, "i16", GramOf(k)) /\ Changes(m, n, 18..(18 + 1))
  BY <1>11, <1>12, PutPair, Zenon
<1>14. /\ Apart(0, "fft", 18..(18 + 1)) /\ Apart(16, "i16", 18..(18 + 1))
       /\ Apart(8, "i16", 18..(18 + 1)) /\ Apart(10, "ntt2", 18..(18 + 1))
       /\ Apart(12, "ntt2", 18..(18 + 1))
  BY SizeIs, SMT DEF Apart
<1> HIDE DEF n
<1>15. /\ Carries(n, 0, "fft", Rest(k, c, z1)) /\ Carries(n, 16, "i16", z1)
       /\ Carries(n, 8, "i16", Centred(CrossOf(k), q))
       /\ Carries(n, 10, "ntt2", Times(BigG(k), Adj(k.g))) /\ Carries(n, 12, "ntt2", k.f)
  BY <1>8, <1>13, <1>14, Kept, SMT
<1>16. Area(n, 57, k, c, z1, z0)
  BY <1>13, <1>15, SMT DEF Area, Row
<1>17. line' = 57 /\ pc' # "done"
  BY <1>2, <1>3, BodyParts, SMT DEF Advance
<1>18. AreaInv'
  <2>1. Area(mem', 57, key', Hash[sig'.nonce], z'.t1, z'.t0)
    BY <1>3, <1>16 DEF k, c, z1, z0
  <2> QED
    BY <1>17, <2>1, Zenon DEF AreaInv
<1>19. line \notin {5, 18, 27, 77}
  BY <1>2
<1>20. UNCHANGED <<key, sig, z, ret>>
  BY <1>3
<1>21. CallState'
  BY <1>1, <1>3, <1>19, <1>20, QuietLine, Zenon
<1> QED
  BY <1>17, <1>18, <1>21

\* Rounding down keeps a bound.
LEMMA FloorBound ==
  ASSUME NEW n \in Int, NEW d \in Int, d > 0, NEW b \in Int, -(b * d) <= n, n <= b * d
  PROVE  n \div d \in Int /\ -b <= n \div d /\ n \div d <= b
<1> DEFINE x == n \div d
           r == n % d
           dx == d * x
           db == b * d
<1>1. x \in Int /\ r \in Int /\ n = dx + r /\ 0 <= r /\ r < d /\ dx \in Int /\ db \in Int
  BY SMT
<1>2. -db <= n /\ n <= db
  OBVIOUS
<1> HIDE DEF x, r
<1>3. x <= b
  <2>1. SUFFICES ASSUME x >= b + 1 PROVE FALSE
    BY <1>1, SMT
  <2>2. d * (x - b - 1) >= 0
    BY <1>1, <2>1, SMT
  <2>3. d * (x - b - 1) = dx - db - d
    BY <1>1, SMT
  <2> HIDE DEF dx, db
  <2> QED
    BY <1>1, <1>2, <2>2, <2>3, SMT
<1>4. -b <= x
  <2>1. SUFFICES ASSUME x <= -b - 1 PROVE FALSE
    BY <1>1, SMT
  <2>2. d * (-b - 1 - x) >= 0
    BY <1>1, <2>1, SMT
  <2>3. d * (-b - 1 - x) = -db - d - dx
    BY <1>1, SMT
  <2> HIDE DEF dx, db
  <2> QED
    BY <1>1, <1>2, <2>2, <2>3, SMT
<1> QED
  BY <1>1, <1>3, <1>4 DEF x

\* A value of the first sampling, and what it leaves of the centre.
LEMMA FirstSample ==
  ASSUME NEW d \in Int, -q < 2 * d, 2 * d < q, NEW o \in -18..19
  PROVE  /\ (d \div q) + o \in Int /\ -q2 < (d \div q) + o /\ (d \div q) + o <= q2
         /\ -19 * q <= d - q * ((d \div q) + o) /\ d - q * ((d \div q) + o) <= 19 * q
<1>1. d \div 12289 \in {-1, 0} /\ 0 <= d - 12289 * (d \div 12289) /\ d - 12289 * (d \div 12289) < 12289
  BY SMT DEF q
<1> QED
  BY <1>1, SMT DEF q, q2

LEMMA SamplesAre ==
  ASSUME NEW re, NEW im, NEW den, NEW s \in Samples(re, im, den)
  PROVE  \E o0 \in Offsets, o1 \in Offsets :
            s = [i \in Coef |-> IF i = 0 THEN (re \div den) + o0 ELSE (im \div den) + o1]
<1> DEFINE a0 == re \div den
           a1 == im \div den
<1>1. s \in {[i \in Coef |-> IF i = 0 THEN a0 + o0 ELSE a1 + o1] : o0, o1 \in Offsets}
  BY DEF Samples
<1> HIDE DEF a0, a1
<1>2. \E o0 \in Offsets, o1 \in Offsets : s = [i \in Coef |-> IF i = 0 THEN a0 + o0 ELSE a1 + o1]
  BY <1>1
<1> QED
  BY <1>2 DEF a0, a1

LEMMA FirstSampled ==
  ASSUME NEW k \in Keys, NEW c \in [Coef -> 0..(q - 1)],
         NEW z1 \in Samples(cfMod(k, c)[0], cfMod(k, c)[1], q)
  PROVE  Sampled1(k, c, z1)
<1> DEFINE x == Times(c, k.f)
           dz == cfMod(k, c)
<1>1. x \in Poly /\ dz = Centred(x, q)
  BY HashValues, Zenon DEF cfMod
<1>2. /\ dz \in Poly /\ \A i \in Coef : -q < 2 * dz[i] /\ 2 * dz[i] < q
  <2>1. q \in {q, q2}
    OBVIOUS
  <2> QED
    BY <1>1, <2>1, CentredIs, Zenon
<1>3. dz[0] \in Int /\ dz[1] \in Int /\ 0 \in Coef /\ 1 \in Coef /\ 1 # 0
  BY <1>2, SMT DEF Poly, Coef
<1> HIDE DEF dz, x
<1>4. PICK o0 \in Offsets, o1 \in Offsets :
         z1 = [i \in Coef |-> IF i = 0 THEN (dz[0] \div q) + o0 ELSE (dz[1] \div q) + o1]
  <2>1. z1 \in Samples(dz[0], dz[1], q)
    BY Zenon DEF dz
  <2> QED
    <3> DEFINE d0 == dz[0]
               d1 == dz[1]
    <3>1. z1 \in Samples(d0, d1, q)
      BY <2>1
    <3> HIDE DEF d0, d1
    <3>2. \E o0 \in Offsets, o1 \in Offsets :
             z1 = [i \in Coef |-> IF i = 0 THEN (d0 \div q) + o0 ELSE (d1 \div q) + o1]
      BY <3>1, SamplesAre
    <3> QED
      BY <3>2 DEF d0, d1
<1>5. o0 \in -18..19 /\ o1 \in -18..19
  BY OffsetsAssumption
<1> DEFINE y0 == (dz[0] \div q) + o0
           y1 == (dz[1] \div q) + o1
<1>6. /\ y0 \in Int /\ -q2 < y0 /\ y0 <= q2
      /\ -19 * q <= dz[0] - q * y0 /\ dz[0] - q * y0 <= 19 * q
  BY <1>2, <1>3, <1>5, FirstSample, Zenon
<1>7. /\ y1 \in Int /\ -q2 < y1 /\ y1 <= q2
      /\ -19 * q <= dz[1] - q * y1 /\ dz[1] - q * y1 <= 19 * q
  BY <1>2, <1>3, <1>5, FirstSample, Zenon
<1>8. z1 = [i \in Coef |-> IF i = 0 THEN y0 ELSE y1]
  BY <1>4
<1> HIDE DEF y0, y1
<1>9. z1[0] = y0 /\ z1[1] = y1
  BY <1>3, <1>8, Zenon
<1>10. z1 \in Poly /\ Within(q2, z1)
  <2>1. \A i \in Coef : i = 0 \/ i = 1
    BY DEF Coef
  <2>2. z1 \in [Coef -> Int]
    BY <1>6, <1>7, <1>8, Zenon
  <2>3. Within(q2, z1)
    BY <1>6, <1>7, <1>9, <2>1, Zenon DEF Within
  <2> QED
    BY <2>2, <2>3, Zenon DEF Poly
<1> DEFINE re == dz[0] - q * z1[0]
           im == dz[1] - q * z1[1]
<1>11. Rest(k, c, z1).re = re /\ Rest(k, c, z1).im = im
  <2>1. Rest(k, c, z1) = [re |-> re, im |-> im, den |-> q]
    BY Zenon DEF Rest, dz
  <2> HIDE DEF re, im
  <2> QED
    BY <2>1, SMT
<1>12. -19 * q <= re /\ re <= 19 * q /\ -19 * q <= im /\ im <= 19 * q
  BY <1>6, <1>7, <1>9, Zenon
<1> HIDE DEF re, im
<1> QED
  BY <1>10, <1>11, <1>12, Zenon DEF Sampled1

\* The FFT values as fractions.
LEMMA CentreIs ==
  ASSUME NEW k \in Keys, NEW c \in [Coef -> 0..(q - 1)], NEW z1 \in Poly
  PROVE  /\ GramFft(k) = [num |-> mqpoly_sqnorm_small(k.f) + mqpoly_sqnorm_small(k.g), den |-> 1]
         /\ Rest(k, c, z1).re = cfMod(k, c)[0] - q * z1[0] /\ Rest(k, c, z1).re \in Int
         /\ Rest(k, c, z1).im = cfMod(k, c)[1] - q * z1[1] /\ Rest(k, c, z1).im \in Int
         /\ CrossOf(k)[0] \in Int /\ CrossOf(k)[1] \in Int
         /\ Centre(k, c, z1) =
               [re |-> Rest(k, c, z1).re * CrossOf(k)[0] - Rest(k, c, z1).im * CrossOf(k)[1],
                im |-> Rest(k, c, z1).im * CrossOf(k)[0] + Rest(k, c, z1).re * CrossOf(k)[1],
                den |-> q * (mqpoly_sqnorm_small(k.f) + mqpoly_sqnorm_small(k.g))]
<1> DEFINE n == mqpoly_sqnorm_small(k.f) + mqpoly_sqnorm_small(k.g)
           r0 == cfMod(k, c)[0] - q * z1[0]
           r1 == cfMod(k, c)[1] - q * z1[1]
           x0 == CrossOf(k)[0]
           x1 == CrossOf(k)[1]
<1>1. n \in Int
  BY NormSum
<1>2. GramOf(k)[0] = n
  BY <1>1, ConstPoly, Zenon DEF GramOf
<1>3. GramFft(k) = [num |-> n, den |-> 1]
  BY <1>2, Zenon DEF GramFft, fpoly_FFT_int16_selfadj
<1>4. cfMod(k, c) \in Poly /\ CrossOf(k) \in Poly
  BY HashValues, KeyValues, Zenon
<1>5. r0 \in Int /\ r1 \in Int /\ x0 \in Int /\ x1 \in Int
  BY <1>4, SMT DEF Poly, Coef, q
<1>6. Rest(k, c, z1) = [re |-> r0, im |-> r1, den |-> q]
  BY Zenon DEF Rest
<1>7. CrossFft(k) = [re |-> x0, im |-> x1, den |-> 1]
  BY Zenon DEF CrossFft, fpoly_FFT_int32
<1> HIDE DEF n, r0, r1, x0, x1
<1>8. Rest(k, c, z1).re = r0 /\ Rest(k, c, z1).im = r1 /\ Rest(k, c, z1).den = q
  BY <1>6, SMT
<1>9. CrossFft(k).re = x0 /\ CrossFft(k).im = x1 /\ CrossFft(k).den = 1
  BY <1>7, SMT
<1> DEFINE m0 == r0 * x0 - r1 * x1
           m1 == r1 * x0 + r0 * x1
           d0 == q * 1
<1>10. Moved(k, c, z1) = [re |-> m0, im |-> m1, den |-> d0]
  BY <1>8, <1>9, Zenon DEF Moved, fpoly_mul_fft
<1>11. m0 \in Int /\ m1 \in Int /\ d0 = q
  BY <1>5, SMT DEF q
<1> HIDE DEF m0, m1, d0
<1>12. Moved(k, c, z1).re = m0 /\ Moved(k, c, z1).im = m1 /\ Moved(k, c, z1).den = d0
  BY <1>10, SMT
<1>13. GramFft(k).num = n /\ GramFft(k).den = 1
  BY <1>3, SMT
<1>14. Centre(k, c, z1) = [re |-> m0 * 1, im |-> m1 * 1, den |-> d0 * n]
  BY <1>12, <1>13, Zenon DEF Centre, fpoly_div_selfadj_fft
<1>15. m0 * 1 = m0 /\ m1 * 1 = m1
  BY <1>11, SMT
<1>16. Centre(k, c, z1) = [re |-> m0, im |-> m1, den |-> q * n]
  BY <1>11, <1>14, <1>15, Zenon
<1> QED
  BY <1>3, <1>5, <1>8, <1>16, Zenon DEF m0, m1, n, r0, r1, x0, x1

LEMMA ProductBound ==
  ASSUME NEW a \in Int, NEW b \in Int, NEW c \in Int, NEW d \in Int,
         -c <= a, a <= c, -d <= b, b <= d
  PROVE  a * b \in Int /\ -(c * d) <= a * b /\ a * b <= c * d
<1> DEFINE ab == a * b
           cd == c * d
           ad == a * d
           cb == c * b
<1>1. ab \in Int /\ cd \in Int /\ ad \in Int /\ cb \in Int
  BY SMT
<1>2. (c - a) * (d + b) >= 0 /\ (c + a) * (d - b) >= 0 /\ (c - a) * (d - b) >= 0 /\ (c + a) * (d + b) >= 0
  BY SMT
<1>3. /\ (c - a) * (d + b) = cd + cb - ad - ab /\ (c + a) * (d - b) = cd - cb + ad - ab
      /\ (c - a) * (d - b) = cd - cb - ad + ab /\ (c + a) * (d + b) = cd + cb + ad + ab
  BY SMT
<1>4. /\ cd + cb - ad - ab >= 0 /\ cd - cb + ad - ab >= 0
      /\ cd - cb - ad + ab >= 0 /\ cd + cb + ad + ab >= 0
  BY <1>2, <1>3
<1> HIDE DEF ab, cd, ad, cb
<1>5. -cd <= ab /\ ab <= cd
  BY <1>1, <1>4, SMT
<1> QED
  BY <1>1, <1>5 DEF ab, cd

\* What CrossShort and NormSum bound.
CrossCoef(x) == x \in Int /\ -64516 <= x /\ x <= 64516
LongGram(n) == n \in Int /\ n >= 2352

\* A value of the second sampling.
LEMMA SecondSample ==
  ASSUME NEW r \in Int, -19 * q <= r, r <= 19 * q, NEW s \in Int, -19 * q <= s, s <= 19 * q,
         NEW x, CrossCoef(x), NEW y, CrossCoef(y),
         NEW d \in Int, -q < 2 * d, 2 * d < q, NEW n, LongGram(n), NEW o \in -18..19,
         NEW m, m = r * x - s * y \/ m = r * x + s * y
  PROVE  /\ ((m + d * n) \div (q * n)) + o \in Int
         /\ -q2 < ((m + d * n) \div (q * n)) + o /\ ((m + d * n) \div (q * n)) + o <= q2
<1> DEFINE rx == r * x
           sy == s * y
           dn == d * n
           t == q * n
           u == m + dn
           bound == 19 * q
           limit == bound * 64516
<1>0. /\ x \in Int /\ -64516 <= x /\ x <= 64516 /\ y \in Int /\ -64516 <= y /\ y <= 64516
      /\ n \in Int /\ n >= 2352
  BY DEF CrossCoef, LongGram
<1>1. /\ bound \in Int /\ -bound <= r /\ r <= bound /\ -bound <= s /\ s <= bound
      /\ 64516 \in Int /\ limit = 15063905356
  BY SMT DEF q
<1>2. rx \in Int /\ -limit <= rx /\ rx <= limit
  <2> HIDE DEF bound
  <2> QED
    BY <1>0, <1>1, ProductBound, SMT
<1>3. sy \in Int /\ -limit <= sy /\ sy <= limit
  <2> HIDE DEF bound
  <2> QED
    BY <1>0, <1>1, ProductBound, SMT
<1>4. dn \in Int /\ -t <= dn /\ dn <= t
  <2>1. q \in Int /\ -q <= d /\ d <= q /\ n \in Int /\ -n <= n /\ n <= n
    BY <1>0, SMT DEF q
  <2> QED
    BY <2>1, ProductBound, SMT
<1>5. t \in Int /\ t = 12289 * n
  BY <1>0, SMT DEF q
<1>6. m = rx - sy \/ m = rx + sy
  OBVIOUS
<1> HIDE DEF rx, sy, dn, t, limit
<1>7. u \in Int /\ t > 0 /\ -(1044 * t) <= u /\ u <= 1044 * t
  BY <1>0, <1>1, <1>2, <1>3, <1>4, <1>5, <1>6, SMT
<1> HIDE DEF u
<1>8. u \div t \in Int /\ -1044 <= u \div t /\ u \div t <= 1044
  <2>1. 1044 \in Int
    OBVIOUS
  <2> QED
    BY <1>5, <1>7, <2>1, FloorBound, SMT
<1> DEFINE w == u \div t
<1>9. w = (m + d * n) \div (q * n)
  BY DEF u, t, dn
<1>10. w \in Int /\ -1044 <= w /\ w <= 1044
  BY <1>8
<1> HIDE DEF w
<1>11. w + o \in Int /\ -q2 < w + o /\ w + o <= q2
  BY <1>10, SMT DEF q2
<1> QED
  BY <1>9, <1>11

LEMMA SecondSampled ==
  ASSUME NEW k \in Keys, NEW c \in [Coef -> 0..(q - 1)], NEW z1, Sampled1(k, c, z1),
         NEW n, n = mqpoly_sqnorm_small(k.f) + mqpoly_sqnorm_small(k.g),
         NEW dz \in Poly, \A i \in Coef : -q < 2 * dz[i] /\ 2 * dz[i] < q,
         NEW t, t = Centre(k, c, z1),
         NEW z0 \in Samples(t.re + dz[0] * n, t.im + dz[1] * n, q * n)
  PROVE  Sampled0(z0)
<1> DEFINE r == Rest(k, c, z1).re
           s == Rest(k, c, z1).im
           x == CrossOf(k)[0]
           y == CrossOf(k)[1]
           m0 == r * x - s * y
           m1 == s * x + r * y
           d0 == dz[0]
           d1 == dz[1]
<1>1. n \in Int /\ LongGram(n)
  BY NormSum DEF LongGram
<1>2. z1 \in Poly
  BY Zenon DEF Sampled1
<1>3. r \in Int /\ s \in Int /\ x \in Int /\ y \in Int
  BY <1>2, CentreIs, Zenon
<1>4. -19 * q <= r /\ r <= 19 * q /\ -19 * q <= s /\ s <= 19 * q
  BY Zenon DEF Sampled1
<1>5. CrossCoef(x) /\ CrossCoef(y)
  <2>1. CrossRange(CrossOf(k))
    BY CrossShort, Zenon
  <2>2. -64516 <= x /\ x <= 64516 /\ -64516 <= y /\ y <= 64516
    BY <2>1, SMT DEF CrossRange, Coef
  <2> QED
    BY <1>3, <2>2 DEF CrossCoef
<1>6. t = [re |-> m0, im |-> m1, den |-> q * n]
  BY <1>2, CentreIs, Zenon
<1>7. 0 \in Coef /\ 1 \in Coef /\ 1 # 0
  BY DEF Coef
<1>8. d0 \in Int /\ d1 \in Int /\ -q < 2 * d0 /\ 2 * d0 < q /\ -q < 2 * d1 /\ 2 * d1 < q
  BY <1>7, Zenon DEF Poly
<1> HIDE DEF r, s, x, y
<1>9. m0 \in Int /\ m1 \in Int
  BY <1>3
<1>10. m1 = s * x + r * y
  OBVIOUS
<1>11. ASSUME NEW o \in -18..19
       PROVE  /\ ((m0 + d0 * n) \div (q * n)) + o \in Int
              /\ -q2 < ((m0 + d0 * n) \div (q * n)) + o /\ ((m0 + d0 * n) \div (q * n)) + o <= q2
  <2> HIDE DEF d0, d1
  <2>1. m0 = r * x - s * y
    OBVIOUS
  <2> HIDE DEF m0
  <2> QED
    BY <1>1, <1>3, <1>4, <1>5, <1>8, <1>11, <2>1, SecondSample, ZenonT(40)
<1>12. ASSUME NEW o \in -18..19
       PROVE  /\ ((m1 + d1 * n) \div (q * n)) + o \in Int
              /\ -q2 < ((m1 + d1 * n) \div (q * n)) + o /\ ((m1 + d1 * n) \div (q * n)) + o <= q2
  <2> HIDE DEF d0, d1, m1
  <2> QED
    BY <1>1, <1>3, <1>4, <1>5, <1>8, <1>10, <1>12, SecondSample, ZenonT(40)
<1> DEFINE re == m0 + d0 * n
           im == m1 + d1 * n
<1>13. z0 \in Samples(re, im, q * n)
  <2> HIDE DEF m0, m1
  <2>1. t.re = m0 /\ t.im = m1
    BY <1>6, SMT
  <2> QED
    BY <2>1, Zenon
<1>14. PICK o0 \in Offsets, o1 \in Offsets :
         z0 = [i \in Coef |-> IF i = 0 THEN (re \div (q * n)) + o0 ELSE (im \div (q * n)) + o1]
  <2> HIDE DEF re, im
  <2> QED
    BY <1>13, SamplesAre
<1>15. o0 \in -18..19 /\ o1 \in -18..19
  BY OffsetsAssumption
<1> DEFINE y0 == (re \div (q * n)) + o0
           y1 == (im \div (q * n)) + o1
<1>16. y0 \in Int /\ -q2 < y0 /\ y0 <= q2
  BY <1>11, <1>15
<1>17. y1 \in Int /\ -q2 < y1 /\ y1 <= q2
  BY <1>12, <1>15
<1>18. z0 = [i \in Coef |-> IF i = 0 THEN y0 ELSE y1]
  BY <1>14
<1> HIDE DEF y0, y1
<1>19. z0[0] = y0 /\ z0[1] = y1
  BY <1>7, <1>18, Zenon
<1>20. \A i \in Coef : i = 0 \/ i = 1
  BY DEF Coef
<1>21. z0 \in [Coef -> Int]
  BY <1>16, <1>17, <1>18, Zenon
<1>22. Within(q2, z0)
  BY <1>16, <1>17, <1>19, <1>20, Zenon DEF Within
<1> QED
  BY <1>21, <1>22, Zenon DEF Sampled0, Poly

\* The samples are put into z one at a time.
LEMMA NewSample ==
  ASSUME z = [t1 |-> z.t1, t0 |-> z.t0], NEW s
  PROVE  /\ [z EXCEPT !.t1 = s] = [t1 |-> s, t0 |-> z.t0]
         /\ [z EXCEPT !.t0 = s] = [t1 |-> z.t1, t0 |-> s]
         /\ [t1 |-> s, t0 |-> z.t0].t1 = s /\ [t1 |-> s, t0 |-> z.t0].t0 = z.t0
         /\ [t1 |-> z.t1, t0 |-> s].t1 = z.t1 /\ [t1 |-> z.t1, t0 |-> s].t0 = s
<1> DEFINE a == z.t1
           b == z.t0
<1>1. z = [t1 |-> a, t0 |-> b]
  OBVIOUS
<1> HIDE DEF a, b
<1>2. [z EXCEPT !.t1 = s] = [t1 |-> s, t0 |-> b]
  BY <1>1
<1>3. [z EXCEPT !.t0 = s] = [t1 |-> a, t0 |-> s]
  BY <1>1
<1>4. [t1 |-> s, t0 |-> b].t1 = s /\ [t1 |-> s, t0 |-> b].t0 = b
  OBVIOUS
<1>5. [t1 |-> a, t0 |-> s].t1 = a /\ [t1 |-> a, t0 |-> s].t0 = s
  OBVIOUS
<1> QED
  BY <1>2, <1>3, <1>4, <1>5 DEF a, b

\* The first sampling: the values of z1, and what is left of the centre.
LEMMA FfSamp1Step ==
  ASSUME CallOK, CallState, AreaInv, FfSamp1
  PROVE  AreaInv' /\ CallState' /\ pc' # "done"
<1> DEFINE k == key
           c == Hash[sig.nonce]
           m == mem
           dz == cfMod(k, c)
<1>1. At("ffsamp") /\ Body[line][2] = 16 /\ pc = "body"
  BY Zenon DEF FfSamp1, At
<1>2. line = 27
  BY <1>1, LineOf, Zenon
<1>3. key' = key /\ sig' = sig /\ ret' = ret /\ Advance
  BY Zenon DEF FfSamp1
<1>4. k \in Keys /\ c \in [Coef -> 0..(q - 1)]
  BY <1>1, CallKnown, Zenon
<1>5. Area(m, 27, k, c, z.t1, z.t0)
  BY <1>2, Zenon DEF AreaInv
<1> HIDE DEF k, c, m
<1>6. Carries(m, 16, "i16", dz) /\ Carries(m, 18, "ntt", k.f)
  BY <1>5, SMT DEF Area, Row
<1>7. mem[16].val = dz
  <2>1. m[16].val = dz
    BY <1>6, CarriesIs, SMT
  <2> QED
    BY <2>1 DEF m
<1> HIDE DEF dz
<1> DEFINE rest(s) == [re |-> dz[0] - q * s[0], im |-> dz[1] - q * s[1], den |-> q]
           m1 == Spoil(m, 8, 8)
           m2(s) == Put(m1, 0, "fft", rest(s))
           m3(s) == Put(m2(s), 16, "i16", s)
<1>8. PICK z1 \in Samples(dz[0], dz[1], q) : mem' = m3(z1) /\ z' = [z EXCEPT !.t1 = z1]
  BY <1>7, Zenon DEF FfSamp1, m
<1>9. Sampled1(k, c, z1)
  BY <1>4, FirstSampled, Zenon DEF dz
<1>10. rest(z1) = Rest(k, c, z1)
  BY Zenon DEF Rest, dz
<1>11. z = [t1 |-> z.t1, t0 |-> z.t0]
  BY Zenon DEF CallState
<1>12. z' = [t1 |-> z'.t1, t0 |-> z'.t0] /\ z'.t1 = z1 /\ z'.t0 = z.t0
  BY <1>8, <1>11, NewSample, Zenon
<1> DEFINE n1 == m1
           n2 == m2(z1)
           n3 == m3(z1)
<1>13. Changes(m, n1, 8..(8 + 8 - 1))
  BY SpoilChanges, Zenon
<1>14. Carries(n2, 0, "fft", Rest(k, c, z1)) /\ Changes(n1, n2, 0..(0 + 8 - 1))
  <2>1. n2 = Put(n1, 0, "fft", Rest(k, c, z1))
    BY <1>10, Zenon
  <2>2. 0 \in Nat /\ "fft" \in {"i32", "fsa", "fft"} /\ 0 + Size["fft"] <= 20 /\ Size["fft"] = 8
    BY SizeIs
  <2> HIDE DEF n1, n2
  <2>3. Carries(n2, 0, "fft", Rest(k, c, z1)) /\ Changes(n1, n2, 0..(0 + Size["fft"] - 1))
    BY <2>1, <2>2, PutWide, Zenon
  <2> QED
    BY <2>2, <2>3, Zenon
<1>15. Carries(n3, 16, "i16", z1) /\ Changes(n2, n3, 16..(16 + 1))
  <2>1. Means("i16", z1, z1)
    BY MeansIs, Zenon
  <2>2. 16 \in 0..18
    BY SMT
  <2>3. n3 = Put(n2, 16, "i16", z1)
    OBVIOUS
  <2> HIDE DEF n2, n3
  <2> QED
    BY <2>1, <2>2, <2>3, PutPair, Zenon
<1>16. mem' = n3
  BY <1>8
<1> HIDE DEF n1, n2, n3
<1>17. /\ Apart(18, "ntt", 8..(8 + 8 - 1)) /\ Apart(18, "ntt", 0..(0 + 8 - 1))
       /\ Apart(18, "ntt", 16..(16 + 1)) /\ Apart(0, "fft", 16..(16 + 1))
  BY SizeIs, SMT DEF Apart
<1>18. Carries(n1, 18, "ntt", k.f)
  BY <1>6, <1>13, <1>17, Kept, SMT
<1>19. Carries(n2, 18, "ntt", k.f)
  BY <1>14, <1>17, <1>18, Kept, SMT
<1>20. Carries(n3, 18, "ntt", k.f) /\ Carries(n3, 0, "fft", Rest(k, c, z1))
  BY <1>14, <1>15, <1>17, <1>19, Kept, SMT
<1>21. \A z0 : Area(n3, 28, k, c, z1, z0)
  BY <1>15, <1>20, SMT DEF Area, Row
<1>22. line' = 28 /\ pc' # "done"
  BY <1>2, <1>3, BodyParts, SMT DEF Advance
<1>23. AreaInv'
  <2>1. Area(n3, 28, key, Hash[sig.nonce], z1, z.t0)
    BY <1>21 DEF k, c
  <2> QED
    BY <1>3, <1>12, <1>16, <1>22, <2>1, Zenon DEF AreaInv
<1>24. CallState'
  <2>1. line # 5 /\ line # 18 /\ line = 27 /\ line # 77
    BY <1>2
  <2>2. sig' = [header |-> sig'.header, nonce |-> sig.nonce, kind |-> sig'.kind, body |-> sig'.body]
    BY <1>3, Zenon DEF CallState
  <2>3. Sampled1(key, Hash[sig.nonce], z'.t1)
    BY <1>9, <1>12, Zenon DEF k, c
  <2> QED
    BY <1>1, <1>3, <1>12, <2>1, <2>2, <2>3, OneLine, Zenon
<1> QED
  BY <1>22, <1>23, <1>24

\* The second sampling.
LEMMA FfSamp2Step ==
  ASSUME CallOK, CallState, AreaInv, FfSamp2
  PROVE  AreaInv' /\ CallState' /\ pc' # "done"
<1> DEFINE k == key
           c == Hash[sig.nonce]
           z1 == z.t1
           m == mem
           dz == NegcF(k, c)
           t == Centre(k, c, z1)
           n == mqpoly_sqnorm_small(k.f) + mqpoly_sqnorm_small(k.g)
<1>1. At("ffsamp") /\ Body[line][2] = 18 /\ pc = "body"
  BY Zenon DEF FfSamp2, At
<1>2. line = 77
  BY <1>1, LineOf, Zenon
<1>3. key' = key /\ sig' = sig /\ ret' = ret /\ Advance
  BY Zenon DEF FfSamp2
<1>4. k \in Keys /\ c \in [Coef -> 0..(q - 1)]
  BY <1>1, CallKnown, Zenon
<1>5. Area(m, 77, k, c, z1, z.t0)
  BY <1>2, Zenon DEF AreaInv
<1>6. Sampled1(k, c, z1)
  <2>1. line \in 28..123
    BY <1>2
  <2> QED
    BY <2>1, Zenon DEF CallState
<1> HIDE DEF k, c, z1, m
<1>7. Carries(m, 0, "fft", t) /\ Carries(m, 18, "i16", dz) /\ Carries(m, 16, "i16", z1)
  BY <1>5, SMT DEF Area, Row
<1>8. mem[0].val = t /\ mem[18].val = dz
  <2>1. m[0].val = t /\ m[18].val = dz
    BY <1>7, CarriesIs, SMT
  <2> QED
    BY <2>1 DEF m
<1>9. t.den \div q = n /\ t.den = q * n
  <2>1. z1 \in Poly
    BY <1>6, Zenon DEF Sampled1
  <2> DEFINE re == Rest(k, c, z1).re * CrossOf(k)[0] - Rest(k, c, z1).im * CrossOf(k)[1]
             im == Rest(k, c, z1).im * CrossOf(k)[0] + Rest(k, c, z1).re * CrossOf(k)[1]
             d == q * n
  <2>2. t = [re |-> re, im |-> im, den |-> d]
    BY <1>4, <2>1, CentreIs, Zenon
  <2>3. n \in Int
    BY <1>4, NormSum
  <2>4. d \div q = n
    <3> HIDE DEF n
    <3> QED
      BY <2>3, SMT DEF q
  <2> HIDE DEF re, im, d, t
  <2>5. t.den = d
    BY <2>2, SMT
  <2> QED
    BY <2>4, <2>5 DEF d
<1> HIDE DEF dz, t
<1>10. /\ dz \in Poly /\ \A i \in Coef : -q < 2 * dz[i] /\ 2 * dz[i] < q
  <2>1. q \in {q, q2}
    OBVIOUS
  <2>2. Times(Minus(Const(0), k.F), c) \in Poly
    BY <1>4, HashValues, Zenon
  <2> QED
    BY <2>1, <2>2, CentredIs, Zenon DEF dz, NegcF
<1> DEFINE m1 == Spoil(m, 0, 16)
           m2(s) == Put(m1, 18, "i16", s)
<1>11. PICK z0 \in Samples(t.re + dz[0] * n, t.im + dz[1] * n, q * n) :
          mem' = m2(z0) /\ z' = [z EXCEPT !.t0 = z0]
  <2> HIDE DEF n
  <2>1. \E s \in Samples(t.re + dz[0] * (t.den \div q), t.im + dz[1] * (t.den \div q), t.den) :
          mem' = m2(s) /\ z' = [z EXCEPT !.t0 = s]
    BY <1>8, Zenon DEF FfSamp2, m
  <2> HIDE DEF m2
  <2> QED
    BY <1>9, <2>1, Zenon
<1>12. Sampled0(z0)
  BY <1>4, <1>6, <1>10, SecondSampled, Zenon DEF t
<1>13. z = [t1 |-> z.t1, t0 |-> z.t0]
  BY Zenon DEF CallState
<1>14. z' = [t1 |-> z'.t1, t0 |-> z'.t0] /\ z'.t1 = z.t1 /\ z'.t0 = z0
  BY <1>11, <1>13, NewSample, Zenon
<1> DEFINE n1 == m1
           n2 == m2(z0)
<1>15. Changes(m, n1, 0..(0 + 16 - 1))
  BY SpoilChanges, Zenon
<1>16. Carries(n2, 18, "i16", z0) /\ Changes(n1, n2, 18..(18 + 1))
  <2>1. Means("i16", z0, z0)
    BY MeansIs, Zenon
  <2>2. 18 \in 0..18
    BY SMT
  <2>3. n2 = Put(n1, 18, "i16", z0)
    OBVIOUS
  <2> HIDE DEF n1, n2
  <2> QED
    BY <2>1, <2>2, <2>3, PutPair, Zenon
<1>17. mem' = n2
  BY <1>11
<1> HIDE DEF n1, n2
<1>18. Apart(16, "i16", 0..(0 + 16 - 1)) /\ Apart(16, "i16", 18..(18 + 1))
  BY SizeIs, SMT DEF Apart
<1>19. Carries(n1, 16, "i16", z1)
  BY <1>7, <1>15, <1>18, Kept, SMT
<1>20. Carries(n2, 16, "i16", z1)
  BY <1>16, <1>18, <1>19, Kept, SMT
<1>21. Area(n2, 78, k, c, z1, z0)
  BY <1>16, <1>20, SMT DEF Area, Row
<1>22. line' = 78 /\ pc' # "done"
  BY <1>2, <1>3, BodyParts, SMT DEF Advance
<1>23. AreaInv'
  <2>1. Area(n2, 78, key, Hash[sig.nonce], z.t1, z0)
    BY <1>21 DEF k, c, z1
  <2> QED
    BY <1>3, <1>14, <1>17, <1>22, <2>1, Zenon DEF AreaInv
<1>24. CallState'
  <2>1. line # 5 /\ line # 18 /\ line # 27 /\ line = 77
    BY <1>2
  <2>2. sig' = [header |-> sig'.header, nonce |-> sig.nonce, kind |-> sig'.kind, body |-> sig'.body]
    BY <1>3, Zenon DEF CallState
  <2>3. Sampled0(z'.t0)
    BY <1>12, <1>14, Zenon
  <2> QED
    BY <1>1, <1>3, <1>14, <2>1, <2>2, <2>3, OneLine, Zenon
<1> QED
  BY <1>22, <1>23, <1>24

\* A new attempt starts with an area of junk.
LEMMA AttemptStep ==
  ASSUME CallOK, CallState, AreaInv, Attempt
  PROVE  AreaInv' /\ CallState' /\ (pc' = "done" => ret' = 0 /\ counter' = MaxAttempts)
<1>1. pc = "attempt" /\ key' = key /\ counter' = counter /\ z' = z /\ ret' = ret
  BY Zenon DEF Attempt
<1>2. ret' = 0
  <2>1. pc # "done"
    BY <1>1
  <2> QED
    BY <1>1, <2>1, Zenon DEF CallState
<1>3. CASE counter = MaxAttempts /\ pc' = "done" /\ UNCHANGED <<line, mem, sig>>
  <2>1. line' = line /\ mem' = mem /\ sig' = sig /\ pc' = "done"
    BY <1>3
  <2>2. AreaInv'
    BY <1>1, <2>1, Zenon DEF AreaInv
  <2>3. pc' # "check" /\ pc' # "body" /\ (line > 1 => line > 1)
    BY <2>1
  <2>4. CallState'
    BY <1>1, <1>2, <2>1, <2>3, Zenon DEF CallState, Gram
  <2> QED
    BY <1>1, <1>2, <1>3, <2>2, <2>4, Zenon
<1>4. CASE /\ \E nonce \in Nonces : sig' = [sig EXCEPT !.nonce = nonce]
           /\ mem' = AllJunk /\ pc' = "body" /\ line' = 1
  <2> DEFINE hd == sig.header
             nc == sig.nonce
             kd == sig.kind
             bd == sig.body
             sg == sig'
  <2>1. PICK nonce \in Nonces : sg = [sig EXCEPT !.nonce = nonce]
    BY <1>4
  <2>2. sig = [header |-> hd, nonce |-> nc, kind |-> kd, body |-> bd]
    BY Zenon DEF CallState
  <2> HIDE DEF hd, nc, kd, bd, sg
  <2>3. sg = [header |-> hd, nonce |-> nonce, kind |-> kd, body |-> bd]
    BY <2>1, <2>2
  <2>4. sg.header = hd /\ sg.nonce = nonce /\ sg.kind = kd /\ sg.body = bd
    BY <2>3
  <2>5. sig'.nonce \in Nonces
    BY <2>4 DEF sg
  <2>6. sig' = [header |-> sig'.header, nonce |-> sig'.nonce, kind |-> sig'.kind, body |-> sig'.body]
    BY <2>3, <2>4, Zenon DEF sg
  <2>7. line' \notin 6..123 /\ line' \notin 19..56 /\ line' \notin 28..123 /\ line' \notin 78..123
    BY <1>4
  <2>8. pc' # "check" /\ pc' # "done"
    BY <1>4
  <2>9. CallState'
    BY <1>1, <1>2, <2>5, <2>6, <2>7, <2>8, Zenon DEF CallState
  <2>10. \A m, k, c, z1, z0 : Area(m, 1, k, c, z1, z0)
    BY SMT DEF Area, Row
  <2>11. AreaInv'
    BY <1>4, <2>10, Zenon DEF AreaInv
  <2> QED
    BY <2>8, <2>9, <2>11
<1> QED
  BY <1>3, <1>4, Zenon DEF Attempt

\* What is tested against the norm bound is (s0, s1), and s1 is what a signature contains.
LEMMA CheckStep ==
  ASSUME CallOK, CallState, AreaInv, Check
  PROVE  /\ AreaInv' /\ CallState'
         /\ pc' = "done" =>
               LET k == key
                   c == Hash[sig.nonce]
               IN  /\ ret' # 0 /\ sig'.kind = "s2" /\ sig'.header = 49 /\ sig'.nonce = sig.nonce
                   /\ key' = key /\ sig'.body = S1(k, c, z.t1, z.t0)
                   /\ Acceptable(S0(k, c, z.t1, z.t0), S1(k, c, z.t1, z.t0))
<1> DEFINE k == key
           c == Hash[sig.nonce]
           z1 == z.t1
           z0 == z.t0
           m == mem
           s1 == S1(k, c, z1, z0)
           s0 == S0(k, c, z1, z0)
<1>1. pc = "check" /\ key' = key /\ line' = line /\ mem' = mem /\ z' = z
  BY Zenon DEF Check
<1>2. line = 123
  BY <1>1, Zenon DEF CallState
<1>3. Area(m, 123, k, c, z1, z0)
  BY <1>2, Zenon DEF AreaInv
<1> HIDE DEF k, c, z1, z0, m
<1>4. Carries(m, 6, "i16", s1) /\ Carries(m, 2, "i16", s0)
  BY <1>3, SMT DEF Area, Row
<1>5. mem[6].val = s1 /\ mem[2].val = s0
  <2>1. m[6].val = s1 /\ m[2].val = s0
    BY <1>4, CarriesIs, SMT
  <2> QED
    BY <2>1 DEF m
<1> HIDE DEF s0, s1
<1>6. pc # "done" /\ line > 1
  BY <1>1, <1>2
<1>7. ret = 0
  BY <1>6, Zenon DEF CallState
<1>8. line \notin 19..56
  BY <1>2
<1>9. CASE pc' = "attempt" /\ UNCHANGED <<sig, ret>>
  <2>1. pc' = "attempt" /\ sig' = sig /\ ret' = ret
    BY <1>9
  <2>2. AreaInv'
    BY <1>1, <2>1, Zenon DEF AreaInv
  <2>3. pc' # "check" /\ pc' # "done"
    BY <2>1
  <2>4. CallState'
    BY <1>1, <1>6, <1>7, <2>1, <2>3, Zenon DEF CallState, Gram
  <2> QED
    BY <2>2, <2>3, <2>4
<1>10. CASE /\ Acceptable(mem[2].val, mem[6].val)
            /\ sig' = [sig EXCEPT !.header = 48 + LogN, !.kind = "s2", !.body = mem[6].val]
            /\ ret' = 41 + 2 * 2 ^ LogN /\ pc' = "done" /\ UNCHANGED counter
  <2>1. 48 + LogN = 49 /\ 41 + 2 * 2 ^ LogN = 45
    <3>1. LogN = 1 /\ 2 ^ LogN = 2
      BY IndexIs, Zenon
    <3> DEFINE e == 2 ^ LogN
    <3>2. e = 2
      BY <3>1
    <3> HIDE DEF e
    <3>3. 48 + LogN = 49 /\ 41 + 2 * e = 45
      BY <3>1, <3>2
    <3> QED
      BY <3>3 DEF e
  <2> DEFINE hd == sig.header
             nc == sig.nonce
             kd == sig.kind
             bd == sig.body
             sg == sig'
  <2>2. sg = [sig EXCEPT !.header = 49, !.kind = "s2", !.body = s1] /\ ret' = 45
    BY <1>5, <1>10, <2>1, Zenon
  <2>3. sig = [header |-> hd, nonce |-> nc, kind |-> kd, body |-> bd]
    BY Zenon DEF CallState
  <2> HIDE DEF hd, nc, kd, bd, sg
  <2>4. sg = [header |-> 49, nonce |-> nc, kind |-> "s2", body |-> s1]
    BY <2>2, <2>3
  <2>5. sg.header = 49 /\ sg.nonce = nc /\ sg.kind = "s2" /\ sg.body = s1
    BY <2>4
  <2>6. sig'.header = 49 /\ sig'.nonce = sig.nonce /\ sig'.kind = "s2" /\ sig'.body = s1
    BY <2>5 DEF sg, nc
  <2>7. sig' = [header |-> sig'.header, nonce |-> sig'.nonce, kind |-> sig'.kind, body |-> sig'.body]
    BY <2>4, <2>5, Zenon DEF sg
  <2>8. AreaInv'
    BY <1>1, <2>6, Zenon DEF AreaInv
  <2>9. pc' = "done" /\ pc' # "check" /\ ret' # 0
    BY <1>10, <2>2
  <2>10. CallState'
    BY <1>1, <1>6, <1>8, <2>6, <2>7, <2>9, Zenon DEF CallState, Gram
  <2>11. Acceptable(s0, s1)
    BY <1>5, <1>10, Zenon
  <2> QED
    BY <1>1, <2>6, <2>8, <2>9, <2>10, <2>11, Zenon DEF s0, s1, k, c, z1, z0
<1> QED
  BY <1>9, <1>10, Zenon DEF Check

\* The invariant of the call.
CallInv == CallOK /\ CallState /\ AreaInv

LEMMA CallStep ==
  ASSUME CallInv, Next
  PROVE  CallInv'
<1>1. CallOK /\ CallState /\ AreaInv
  BY Zenon DEF CallInv
<1>2. CallOK'
  <2>1. CASE vars' = vars
    BY <1>1, <2>1 DEF vars, CallOK
  <2>2. CASE vars' # vars
    BY <1>1, <2>2, StepAdvances
  <2> QED
    BY <2>1, <2>2
<1>3. CASE Attempt
  BY <1>1, <1>2, <1>3, AttemptStep, Zenon DEF CallInv
<1>4. CASE Statement
  <2>1. AreaInv'
    BY <1>1, <1>4, StatementStep, Zenon
  <2>2. pc = "body" /\ Body[line][1] \notin Special /\ Advance /\ UNCHANGED <<key, sig, z, ret>>
    BY <1>4 DEF Statement
  <2>3. line \notin {5, 18, 27, 77}
    <3>1. line \notin {5, 18, 27, 56, 77}
      <4>1. line \in 1..122
        BY <1>1, <2>2, LineOf, Zenon
      <4> QED
        BY <2>2, <4>1, SpecialLines, Zenon
    <3> QED
      BY <3>1
  <2>4. CallState'
    BY <1>1, <2>2, <2>3, QuietLine, Zenon
  <2> QED
    BY <1>2, <2>1, <2>4, Zenon DEF CallInv
<1>5. CASE CheckNorm
  BY <1>1, <1>2, <1>5, CheckNormStep, Zenon DEF CallInv
<1>6. CASE AdjustSave
  BY <1>1, <1>2, <1>6, AdjustSaveStep, Zenon DEF CallInv
<1>7. CASE Adjust
  BY <1>1, <1>2, <1>7, AdjustStep, Zenon DEF CallInv
<1>8. CASE FfSamp1
  BY <1>1, <1>2, <1>8, FfSamp1Step, Zenon DEF CallInv
<1>9. CASE FfSamp2
  BY <1>1, <1>2, <1>9, FfSamp2Step, Zenon DEF CallInv
<1>10. CASE Check
  BY <1>1, <1>2, <1>10, CheckStep, Zenon DEF CallInv
<1>11. CASE Returned
  <2>1. UNCHANGED <<key, counter, pc, line, mem, sig, z, ret>>
    BY <1>11 DEF Returned, vars
  <2> QED
    BY <1>1, <1>2, <2>1, ZenonT(40) DEF CallInv, CallState, AreaInv, Gram, Sampled1, Sampled0
<1> QED
  BY <1>3, <1>4, <1>5, <1>6, <1>7, <1>8, <1>9, <1>10, <1>11, Zenon DEF Next

LEMMA CallStart == Init => CallInv
<1> SUFFICES ASSUME Init PROVE CallInv
  OBVIOUS
<1>1. key \in Keys /\ pc = "attempt" /\ line = 1 /\ ret = 0 /\ sig = NoSig /\ z = [t1 |-> <<>>, t0 |-> <<>>]
  BY Zenon DEF Init
<1>2. CallOK
  BY BodyLength, AttemptsAssumption DEF Init, CallOK
<1>3. \A m, k, c, z1, z0 : Area(m, 1, k, c, z1, z0)
  BY SMT DEF Area, Row
<1>4. AreaInv
  BY <1>1, <1>3, Zenon DEF AreaInv
<1>5. sig = [header |-> sig.header, nonce |-> sig.nonce, kind |-> sig.kind, body |-> sig.body]
  BY <1>1 DEF NoSig
<1>6. z = [t1 |-> z.t1, t0 |-> z.t0]
  BY <1>1
<1>7. /\ pc # "check" /\ pc # "body" /\ ~(line > 1)
      /\ line \notin 6..123 /\ line \notin 19..56 /\ line \notin 28..123 /\ line \notin 78..123
  BY <1>1
<1>8. CallState
  BY <1>1, <1>5, <1>6, <1>7, Zenon DEF CallState
<1> QED
  BY <1>2, <1>4, <1>8, Zenon DEF CallInv

\* At every statement of every call the area holds what its rows say.
LEMMA CallHolds == Spec => []CallInv
<1>1. CallInv /\ [Next]_vars => CallInv'
  <2> SUFFICES ASSUME CallInv, [Next]_vars PROVE CallInv'
    OBVIOUS
  <2>1. CASE Next
    BY <2>1, CallStep, Zenon
  <2>2. CASE vars' = vars
    <3>1. UNCHANGED <<key, counter, pc, line, mem, sig, z, ret>>
      BY <2>2 DEF vars
    <3>2. CallOK'
      BY <2>2 DEF vars, CallOK, CallInv
    <3> QED
      BY <3>1, <3>2, ZenonT(40) DEF CallInv, CallState, AreaInv, Gram, Sampled1, Sampled0
  <2> QED
    BY <2>1, <2>2
<1> QED
  BY <1>1, CallStart, PTL DEF Spec

-----------------------------------------------------------------------------
(* What the sampler is given.                                                *)

LEMMA NegcFIs ==
  ASSUME NEW k \in Keys, NEW c \in [Coef -> 0..(q - 1)]
  PROVE  NegcF(k, c) = Centred(Minus(Const(0), Times(c, k.F)), q)
<1> DEFINE o == Const(0)
           F == k.F
           x == Times(Minus(o, F), c)
           y == Minus(o, Times(c, F))
           c0 == c[0]
           c1 == c[1]
           F0 == F[0]
           F1 == F[1]
           n0 == Minus(o, F)[0]
           n1 == Minus(o, F)[1]
<1>1. o \in Poly /\ o[0] = 0 /\ o[1] = 0
  BY ConstPoly, SMT
<1>2. F \in Poly /\ c \in Poly
  BY KeyPolys, HashValues, Zenon
<1> HIDE DEF o, F
<1>3. Minus(o, F) \in Poly /\ n0 = 0 - F0 /\ n1 = 0 - F1
  <2>1. Minus(o, F) \in Poly /\ n0 = o[0] - F0 /\ n1 = o[1] - F1
    BY <1>1, <1>2, RingOps, Zenon
  <2> QED
    BY <1>1, <2>1, Zenon
<1>4. Times(c, F) \in Poly /\ Times(c, F)[0] = c0 * F0 - c1 * F1 /\ Times(c, F)[1] = c0 * F1 + c1 * F0
  BY <1>2, RingOps, Zenon
<1>5. /\ x \in Poly /\ y \in Poly
      /\ x[0] = n0 * c0 - n1 * c1 /\ x[1] = n0 * c1 + n1 * c0
  BY <1>1, <1>2, <1>3, <1>4, RingOps, Zenon
<1>6. y[0] = o[0] - Times(c, F)[0] /\ y[1] = o[1] - Times(c, F)[1]
  BY <1>1, <1>4, RingOps, Zenon
<1>7. y[0] = 0 - (c0 * F0 - c1 * F1) /\ y[1] = 0 - (c0 * F1 + c1 * F0)
  BY <1>1, <1>4, <1>6, Zenon
<1>8. c0 \in Int /\ c1 \in Int /\ F0 \in Int /\ F1 \in Int
  BY <1>2, SMT DEF Poly, Coef
<1> HIDE DEF n0, n1, c0, c1, F0, F1
<1>9. /\ n0 * c0 - n1 * c1 = 0 - (c0 * F0 - c1 * F1)
      /\ n0 * c1 + n1 * c0 = 0 - (c0 * F1 + c1 * F0)
  BY <1>3, <1>8, SMT
<1>10. x[0] = y[0] /\ x[1] = y[1]
  BY <1>5, <1>7, <1>9, Zenon
<1> HIDE DEF x, y
<1>11. x = y
  BY <1>5, <1>10, PolyEqual, Zenon
<1> QED
  BY <1>11, Zenon DEF NegcF, x, y, o, F

\* (t1 - z1) times F*adj(f) + G*adj(g), as polynomials.
LEMMA CentreProduct ==
  ASSUME NEW k \in Keys, NEW c \in [Coef -> 0..(q - 1)], NEW z1 \in Poly,
         NEW u, u = Minus(cfMod(k, c), [i \in Coef |-> q * z1[i]]), NEW t, t = Times(u, CrossOf(k))
  PROVE  Centre(k, c, z1) =
            [re |-> t[0], im |-> t[1], den |-> q * (mqpoly_sqnorm_small(k.f) + mqpoly_sqnorm_small(k.g))]
<1> DEFINE v == [i \in Coef |-> q * z1[i]]
           x == CrossOf(k)
           r == Rest(k, c, z1).re
           s == Rest(k, c, z1).im
<1>1. v \in Poly /\ v[0] = q * z1[0] /\ v[1] = q * z1[1]
  BY SMT DEF Poly, Coef, q
<1>2. cfMod(k, c) \in Poly /\ x \in Poly
  BY HashValues, KeyValues, Zenon
<1> HIDE DEF v, x
<1>3. u \in Poly /\ u[0] = cfMod(k, c)[0] - v[0] /\ u[1] = cfMod(k, c)[1] - v[1]
  <2> DEFINE d == cfMod(k, c)
  <2>1. u = Minus(d, v) /\ d \in Poly
    BY <1>2 DEF v
  <2> HIDE DEF d
  <2> DEFINE e == Minus(d, v)
  <2>2. e \in Poly /\ e[0] = d[0] - v[0] /\ e[1] = d[1] - v[1]
    BY <1>1, <2>1, RingOps, Zenon
  <2>3. u = e
    BY <2>1
  <2> HIDE DEF e
  <2> QED
    BY <2>2, <2>3 DEF d
<1>4. t[0] = u[0] * x[0] - u[1] * x[1] /\ t[1] = u[0] * x[1] + u[1] * x[0]
  BY <1>2, <1>3, RingOps, Zenon DEF x
<1>5. r = u[0] /\ s = u[1] /\ r \in Int /\ s \in Int /\ x[0] \in Int /\ x[1] \in Int
  BY <1>1, <1>3, CentreIs, Zenon DEF x
<1> DEFINE m0 == r * x[0] - s * x[1]
           m1 == s * x[0] + r * x[1]
           n == q * (mqpoly_sqnorm_small(k.f) + mqpoly_sqnorm_small(k.g))
<1>6. Centre(k, c, z1) = [re |-> m0, im |-> m1, den |-> n]
  BY CentreIs, Zenon DEF x
<1> DEFINE x0 == x[0]
           x1 == x[1]
<1>7. m0 = t[0] /\ m1 = t[1]
  <2>1. t[0] = r * x0 - s * x1 /\ t[1] = r * x1 + s * x0
    BY <1>4, <1>5, Zenon
  <2>2. r \in Int /\ s \in Int /\ x0 \in Int /\ x1 \in Int
    BY <1>5
  <2> HIDE DEF r, s, x0, x1
  <2>3. r * x1 + s * x0 = s * x0 + r * x1
    BY <2>2, SMT
  <2> QED
    BY <2>1, <2>3, Zenon DEF x0, x1
<1> HIDE DEF m0, m1, n
<1>8. Centre(k, c, z1) = [re |-> t[0], im |-> t[1], den |-> n]
  BY <1>6, <1>7, Zenon
<1> QED
  BY <1>8 DEF n

\* At its two calls the sampler finds the two centres and Gram values of ffSampling, each
\* in the representation it reads, for every key, challenge and sampler.
THEOREM SamplerGetsInputs == Spec => []SamplerInputs
<1>1. CallInv => SamplerInputs
  <2> SUFFICES ASSUME CallInv PROVE SamplerInputs
    OBVIOUS
  <2> DEFINE k == key
             c == Hash[sig.nonce]
             z1 == z.t1
             m == mem
             n == mqpoly_sqnorm_small(k.f) + mqpoly_sqnorm_small(k.g)
  <2>1. CallOK /\ CallState /\ AreaInv
    BY Zenon DEF CallInv
  <2>2. Gram = n /\ Cross = CrossOf(k) /\ cf = Times(c, k.f) /\ cF = Times(c, k.F)
    BY Zenon DEF Gram, Cross, CrossOf, cf, cF, Challenge
  <2>3. ASSUME At("ffsamp"), Body[line][2] = 16
        PROVE  /\ Has(mem, 8, "fsa") /\ mem[8].val = [num |-> q * q, den |-> Gram]
               /\ Has(mem, 16, "i16") /\ mem[16].val = Centred(cf, q)
    <3>1. pc = "body"
      BY <2>3, Zenon DEF At
    <3>2. line = 27
      BY <2>1, <2>3, <3>1, LineOf, Zenon
    <3>3. k \in Keys /\ c \in [Coef -> 0..(q - 1)]
      BY <2>1, <3>1, CallKnown, Zenon
    <3>4. Area(m, 27, k, c, z1, z.t0)
      BY <2>1, <3>2, Zenon DEF AreaInv
    <3> HIDE DEF k, c, z1, m
    <3>5. Carries(m, 16, "i16", cfMod(k, c)) /\ Carries(m, 8, "fsa", InvGramFft(k))
      BY <3>4, SMT DEF Area, Row
    <3>6. /\ Has(m, 16, "i16") /\ m[16].val = cfMod(k, c)
          /\ Has(m, 8, "fsa") /\ m[8].val = InvGramFft(k)
      BY <3>5, CarriesIs, SMT
    <3>7. InvGramFft(k) = [num |-> q * q, den |-> n]
      <4>1. GramOf(k)[0] = n
        <5>1. n \in Int
          BY <3>3, NormSum
        <5> QED
          BY <5>1, ConstPoly, Zenon DEF GramOf
      <4>2. GramFft(k) = [num |-> n, den |-> 1]
        BY <4>1, Zenon DEF GramFft, fpoly_FFT_int16_selfadj
      <4> HIDE DEF n
      <4>3. GramFft(k).num = n /\ GramFft(k).den = 1
        BY <4>2, SMT
      <4> DEFINE e == q * q
      <4>4. InvGramFft(k) = [num |-> e * 1, den |-> n]
        BY <4>3, Zenon DEF InvGramFft, fpoly_invmul_selfadj_fft
      <4>5. e * 1 = e
        BY ModInt, SMT
      <4> QED
        BY <4>4, <4>5, Zenon
    <3> QED
      BY <2>2, <3>6, <3>7, Zenon DEF m, cfMod
  <2>4. ASSUME At("ffsamp"), Body[line][2] = 18
        PROVE  /\ Has(mem, 18, "i16") /\ mem[18].val = Centred(Minus(Const(0), cF), q)
               /\ Has(mem, 8, "fsa") /\ mem[8].val = [num |-> Gram, den |-> 1]
               /\ Has(mem, 0, "fft")
               /\ LET u == Minus(Centred(cf, q), [i \in Coef |-> q * z.t1[i]])
                      t == Times(u, Cross)
                  IN  mem[0].val = [re |-> t[0], im |-> t[1], den |-> q * Gram]
    <3>1. pc = "body"
      BY <2>4, Zenon DEF At
    <3>2. line = 77
      BY <2>1, <2>4, <3>1, LineOf, Zenon
    <3>3. k \in Keys /\ c \in [Coef -> 0..(q - 1)]
      BY <2>1, <3>1, CallKnown, Zenon
    <3>4. Area(m, 77, k, c, z1, z.t0)
      BY <2>1, <3>2, Zenon DEF AreaInv
    <3>5. z1 \in Poly
      <4>1. line \in 28..123
        BY <3>2
      <4> QED
        BY <2>1, <4>1, Zenon DEF CallState, Sampled1
    <3> HIDE DEF k, c, z1, m
    <3>6. /\ Carries(m, 18, "i16", NegcF(k, c)) /\ Carries(m, 8, "fsa", GramFft(k))
          /\ Carries(m, 0, "fft", Centre(k, c, z1))
      BY <3>4, SMT DEF Area, Row
    <3>7. /\ Has(m, 18, "i16") /\ m[18].val = NegcF(k, c)
          /\ Has(m, 8, "fsa") /\ m[8].val = GramFft(k)
          /\ Has(m, 0, "fft") /\ m[0].val = Centre(k, c, z1)
      BY <3>6, CarriesIs, SMT
    <3>8. GramFft(k) = [num |-> n, den |-> 1]
      BY <3>3, <3>5, CentreIs, Zenon
    <3>9. NegcF(k, c) = Centred(Minus(Const(0), cF), q)
      BY <2>2, <3>3, NegcFIs, Zenon DEF k, c
    <3> DEFINE u == Minus(cfMod(k, c), [i \in Coef |-> q * z1[i]])
               t == Times(u, CrossOf(k))
    <3>10. Centre(k, c, z1) = [re |-> t[0], im |-> t[1], den |-> q * n]
      <4>1. u = Minus(cfMod(k, c), [i \in Coef |-> q * z1[i]]) /\ t = Times(u, CrossOf(k))
        OBVIOUS
      <4> HIDE DEF u, t
      <4> QED
        BY <3>3, <3>5, <4>1, CentreProduct, Zenon
    <3>11. u = Minus(Centred(cf, q), [i \in Coef |-> q * z.t1[i]])
      BY <2>2, Zenon DEF cfMod, z1, k, c
    <3>12. t = Times(u, Cross)
      BY <2>2, Zenon DEF k
    <3> HIDE DEF u, t
    <3> QED
      BY <2>2, <3>7, <3>8, <3>9, <3>10, <3>11, <3>12, Zenon DEF m, k
  <2> QED
    BY <2>3, <2>4, Zenon DEF SamplerInputs
<1> QED
  BY <1>1, CallHolds, PTL

-----------------------------------------------------------------------------
(* The vector that is tested is (c, 0) minus a lattice point.                *)

LEMMA ExactQuotient ==
  ASSUME NEW x \in Poly, NEW y \in Poly, Equiv(q, x, y)
  PROVE  /\ Quo(Minus(x, y), q) \in Poly
         /\ \A i \in Coef : q * Quo(Minus(x, y), q)[i] = x[i] - y[i]
<1> DEFINE a == Quo(Minus(x, y), q)
<1>1. a = [i \in Coef |-> (x[i] - y[i]) \div q]
  BY Zenon DEF Quo, Minus
<1>2. ASSUME NEW i \in Coef
      PROVE  (x[i] - y[i]) \div q \in Int /\ q * ((x[i] - y[i]) \div q) = x[i] - y[i]
  <2> DEFINE s == x[i]
             t == y[i]
  <2>1. s \in Int /\ t \in Int /\ \E j \in Int : s = t + q * j
    BY Zenon DEF Poly, Equiv, Cong
  <2> HIDE DEF s, t
  <2>2. PICK j \in Int : s = t + q * j
    BY <2>1
  <2>3. s - t = 12289 * j
    BY <2>1, <2>2, SMT DEF q
  <2>4. (12289 * j) \div 12289 = j
    BY SMT
  <2>5. (s - t) \div q = j
    BY <2>3, <2>4 DEF q
  <2>6. q * j = s - t
    BY <2>3 DEF q
  <2> QED
    BY <2>5, <2>6 DEF s, t
<1> HIDE DEF a
<1>3. a \in [Coef -> Int]
  BY <1>1, <1>2, Zenon
<1>4. ASSUME NEW i \in Coef PROVE q * a[i] = x[i] - y[i]
  BY <1>1, <1>2, Zenon
<1> QED
  BY <1>3, <1>4, Zenon DEF Poly, a

LEMMA ScaledIs ==
  ASSUME NEW x \in Poly
  PROVE  Scaled(3, x) \in Poly /\ Scaled(3, x) = Times(x, Const(3))
<1>1. x[0] \in Int /\ x[1] \in Int
  BY RingOps, Zenon
<1>2. 3 \in Int
  OBVIOUS
<1>3. Const(3) \in Poly /\ Const(3)[0] = 3 /\ Const(3)[1] = 0
  BY <1>2, ConstPoly, Zenon
<1>4. Scaled(3, x) \in Poly /\ Scaled(3, x)[0] = 3 * x[0] /\ Scaled(3, x)[1] = 3 * x[1]
  BY SMT DEF Scaled, Poly, Coef
<1>5. /\ Times(x, Const(3)) \in Poly
      /\ Times(x, Const(3))[0] = x[0] * Const(3)[0] - x[1] * Const(3)[1]
      /\ Times(x, Const(3))[1] = x[0] * Const(3)[1] + x[1] * Const(3)[0]
  BY <1>3, RingOps, Zenon
<1> DEFINE x0 == x[0]
           x1 == x[1]
<1>6. Times(x, Const(3))[0] = x0 * 3 - x1 * 0 /\ Times(x, Const(3))[1] = x0 * 0 + x1 * 3
  BY <1>3, <1>5, Zenon
<1>7. x0 * 3 - x1 * 0 = 3 * x0 /\ x0 * 0 + x1 * 3 = 3 * x1
  BY <1>1, SMT
<1>8. Times(x, Const(3))[0] = 3 * x0 /\ Times(x, Const(3))[1] = 3 * x1
  BY <1>6, <1>7, Zenon
<1>9. Scaled(3, x) = Times(x, Const(3))
  BY <1>4, <1>5, <1>8, PolyEqual, Zenon
<1> QED
  BY <1>4, <1>9

\* f*(3*c*F) is F*(3*c*f).
LEMMA CrossTerms ==
  ASSUME NEW k \in Keys, NEW c \in Poly
  PROVE  Times(k.f, Scaled(3, Times(c, k.F))) = Times(k.F, Scaled(3, Times(c, k.f)))
<1> DEFINE f == k.f
           F == k.F
           t == Const(3)
<1>1. f \in Poly /\ F \in Poly
  BY KeyPolys, Zenon
<1>2. t \in Poly
  <2>1. 3 \in Int
    OBVIOUS
  <2> QED
    BY <2>1, ConstPoly, Zenon
<1>3. Times(c, F) \in Poly /\ Times(c, f) \in Poly
  BY <1>1, RingOps, Zenon
<1>4. Scaled(3, Times(c, F)) = Times(Times(c, F), t) /\ Scaled(3, Times(c, f)) = Times(Times(c, f), t)
  BY <1>3, ScaledIs, Zenon
<1> HIDE DEF f, F, t
<1>5. ASSUME NEW x \in Poly, NEW y \in Poly
      PROVE  Times(x, Times(Times(c, y), t)) = Times(Times(c, Times(x, y)), t)
  <2>0. Times(c, y) \in Poly /\ Times(c, x) \in Poly
    BY RingOps, Zenon
  <2>1. Times(x, Times(c, y)) = Times(Times(x, c), y)
    BY TimesAssoc, Zenon
  <2>2. Times(x, Times(Times(c, y), t)) = Times(Times(x, Times(c, y)), t)
    BY <1>2, <2>0, TimesAssoc, ZenonT(40)
  <2>3. Times(x, c) = Times(c, x)
    BY TimesComm, Zenon
  <2>4. Times(Times(c, x), y) = Times(c, Times(x, y))
    BY TimesAssoc, Zenon
  <2> QED
    BY <2>1, <2>2, <2>3, <2>4, Zenon
<1>6. Times(f, F) = Times(F, f)
  BY <1>1, TimesComm, Zenon
<1>7. Times(f, Times(Times(c, F), t)) = Times(F, Times(Times(c, f), t))
  <2>1. Times(f, Times(Times(c, F), t)) = Times(Times(c, Times(f, F)), t)
    BY <1>1, <1>5, Zenon
  <2>2. Times(F, Times(Times(c, f), t)) = Times(Times(c, Times(F, f)), t)
    BY <1>1, <1>5, Zenon
  <2> QED
    BY <1>6, <2>1, <2>2, Zenon
<1> QED
  BY <1>4, <1>7, Zenon DEF f, F

\* Undoing a reduction modulo q divides by q exactly, which modulo q' is multiplication by 3.
LEMMA ThirdIsQuotient ==
  ASSUME NEW u \in Poly, NEW x \in Poly, NEW y \in Poly, Equiv(q, x, y)
  PROVE  Equiv(q2, Plus(u, Quo(Minus(x, y), q)), Minus(Plus(Scaled(3, x), u), Scaled(3, y)))
<1> DEFINE a == Quo(Minus(x, y), q)
<1>1. a \in Poly /\ \A i \in Coef : q * a[i] = x[i] - y[i]
  BY ExactQuotient, Zenon
<1> HIDE DEF a
<1>2. ASSUME NEW i \in Coef
      PROVE  Cong(q2, Plus(u, a)[i], Minus(Plus(Scaled(3, x), u), Scaled(3, y))[i])
  <2> DEFINE u1 == u[i]
             a1 == a[i]
             x1 == x[i]
             y1 == y[i]
             j == -2 * a1
  <2>1. u1 \in Int /\ a1 \in Int /\ x1 \in Int /\ y1 \in Int /\ q * a1 = x1 - y1
    BY <1>1, Zenon DEF Poly
  <2>2. /\ Plus(u, a)[i] = u1 + a1
        /\ Minus(Plus(Scaled(3, x), u), Scaled(3, y))[i] = (3 * x1 + u1) - 3 * y1
    BY Zenon DEF Plus, Minus, Scaled
  <2> HIDE DEF u1, a1, x1, y1
  <2>3. j \in Int /\ u1 + a1 = ((3 * x1 + u1) - 3 * y1) + q2 * j
    BY <2>1, SMT DEF q, q2
  <2> DEFINE l == u1 + a1
             r == (3 * x1 + u1) - 3 * y1
  <2>4. l \in Int /\ r \in Int /\ q2 \in Int
    BY <2>1, ModInt
  <2>5. l = r + q2 * j
    BY <2>3
  <2> HIDE DEF l, r, j
  <2>6. Cong(q2, l, r)
    BY <2>3, <2>4, <2>5, CongBy, Zenon
  <2> QED
    BY <2>2, <2>6, Zenon DEF l, r
<1> QED
  BY <1>2, Zenon DEF Equiv, a

LEMMA LatticeS1 ==
  ASSUME NEW k \in Keys, NEW c \in [Coef -> 0..(q - 1)], NEW z1 \in Poly, NEW z0 \in Poly,
         NEW y0, y0 = Plus(z0, Quo(Minus(cFMod(k, c), Times(c, k.F)), q)),
         NEW y1, y1 = Plus(z1, Quo(Minus(Times(c, k.f), cfMod(k, c)), q)),
         NEW v, v = Plus(Times(k.f, y0), Times(k.F, y1))
  PROVE  y0 \in Poly /\ y1 \in Poly /\ v \in Poly /\ S1(k, c, z1, z0) = Centred(v, q2)
<1> DEFINE f == k.f
           F == k.F
           cf0 == Times(c, f)
           cF0 == Times(c, F)
           rf == cfMod(k, c)
           rF == cFMod(k, c)
           T == Scaled(3, cF0)
           U == Scaled(3, cf0)
           a == Z0(k, c, z0)
           b == Z1(k, c, z1)
<1>1. f \in Poly /\ F \in Poly
  BY KeyPolys, Zenon
<1>2. c \in Poly /\ cf0 \in Poly /\ cF0 \in Poly /\ rf \in Poly /\ rF \in Poly
  BY HashValues, Zenon
<1>3. T \in Poly /\ U \in Poly
  BY <1>2, ScaledIs, Zenon
<1>4. a \in Poly /\ b \in Poly
  BY S1Values, Zenon
<1>5. Equiv(q, rf, cf0) /\ Equiv(q, rF, cF0)
  <2>1. q \in {q, q2}
    OBVIOUS
  <2>2. rf = Centred(cf0, q) /\ rF = Centred(cF0, q)
    BY Zenon DEF cfMod, cFMod
  <2> HIDE DEF cf0, cF0, rf, rF
  <2> QED
    BY <1>2, <2>1, <2>2, CentredIs, Zenon
<1>6. Equiv(q, cf0, rf)
  <2> HIDE DEF cf0, rf
  <2> QED
    BY <1>2, <1>5, ModInt, EquivTurn, Zenon
<1>7. a = Plus(Scaled(3, rF), z0) /\ b = Minus(z1, Scaled(3, rf))
  BY Zenon DEF Z0, Z1
<1>8. SumS1(k, c, z1, z0) = Plus(Times(a, f), Times(b, F))
  BY Zenon DEF SumS1
<1>9. Times(f, T) = Times(F, U)
  BY <1>2, CrossTerms, Zenon
<1>10. y0 = Plus(z0, Quo(Minus(rF, cF0), q)) /\ y1 = Plus(z1, Quo(Minus(cf0, rf), q))
       /\ v = Plus(Times(f, y0), Times(F, y1))
  OBVIOUS
<1>11. Scaled(3, rf) \in Poly /\ Scaled(3, rF) \in Poly
  BY <1>2, ScaledIs, Zenon
<1> DEFINE A == Minus(a, T)
           B == Plus(b, U)
<1> HIDE DEF a, b, f, F, cf0, cF0, rf, rF
<1>12. Quo(Minus(rF, cF0), q) \in Poly /\ Quo(Minus(cf0, rf), q) \in Poly
  BY <1>2, <1>5, <1>6, ExactQuotient, Zenon
<1>13. y0 \in Poly /\ y1 \in Poly
  BY <1>10, <1>12, RingOps, Zenon
<1>14. Times(f, y0) \in Poly /\ Times(F, y1) \in Poly
  BY <1>1, <1>13, RingOps, Zenon
<1>15. v \in Poly
  <2> DEFINE x == Times(f, y0)
             y == Times(F, y1)
  <2>1. x \in Poly /\ y \in Poly /\ v = Plus(x, y)
    BY <1>10, <1>14
  <2> HIDE DEF x, y
  <2>2. Plus(x, y) \in Poly
    BY <2>1, RingOps, Zenon
  <2> QED
    BY <2>1, <2>2
<1>16. Equiv(q2, y0, A)
  <2>1. Equiv(q2, Plus(z0, Quo(Minus(rF, cF0), q)), Minus(Plus(Scaled(3, rF), z0), Scaled(3, cF0)))
    BY <1>2, <1>5, ThirdIsQuotient, Zenon
  <2> QED
    BY <1>7, <1>10, <2>1, Zenon
<1>17. Equiv(q2, y1, B)
  <2>1. Equiv(q2, Plus(z1, Quo(Minus(cf0, rf), q)), Minus(Plus(Scaled(3, cf0), z1), Scaled(3, rf)))
    BY <1>2, <1>6, ThirdIsQuotient, Zenon
  <2> DEFINE W == Scaled(3, rf)
  <2>2. W \in Poly /\ B = Plus(Minus(z1, W), U)
    BY <1>7, <1>11, Zenon
  <2> HIDE DEF W, U
  <2>3. Minus(Plus(U, z1), W) = Plus(Minus(z1, W), U)
    <3>1. ASSUME NEW i \in Coef PROVE (U[i] + z1[i]) - W[i] = (z1[i] - W[i]) + U[i]
      BY <1>3, <2>2, SMT DEF Poly
    <3> QED
      BY <3>1, Zenon DEF Plus, Minus
  <2> QED
    BY <1>10, <2>1, <2>2, <2>3, Zenon DEF U, W
<1> HIDE DEF T, U
<1>18. A \in Poly /\ B \in Poly
  BY <1>3, <1>4, RingOps, Zenon
<1>19. Times(f, A) = Minus(Times(f, a), Times(f, T)) /\ Times(F, B) = Plus(Times(F, b), Times(F, U))
  <2>1. Times(f, A) = Minus(Times(f, a), Times(f, T))
    <3>1. f \in Poly /\ a \in Poly /\ T \in Poly
      BY <1>1, <1>3, <1>4
    <3> QED
      BY <3>1, Distributes, Zenon
  <2>2. Times(F, B) = Plus(Times(F, b), Times(F, U))
    <3>1. F \in Poly /\ b \in Poly /\ U \in Poly
      BY <1>1, <1>3, <1>4
    <3> QED
      BY <3>1, Distributes, Zenon
  <2> QED
    BY <2>1, <2>2
<1>20. Times(f, a) = Times(a, f) /\ Times(F, b) = Times(b, F)
  BY <1>1, <1>4, TimesComm, Zenon
<1> HIDE DEF A, B
<1>21. Plus(Times(f, A), Times(F, B)) = SumS1(k, c, z1, z0)
  <2> DEFINE x == Times(a, f)
             y == Times(b, F)
             w == Times(f, T)
  <2>1. x \in Poly /\ y \in Poly
    BY <1>1, <1>4, RingOps, Zenon
  <2>2. w \in Poly
    BY <1>1, <1>3, RingOps, Zenon
  <2>3. Times(f, A) = Minus(x, w) /\ Times(F, B) = Plus(y, w) /\ SumS1(k, c, z1, z0) = Plus(x, y)
    BY <1>8, <1>9, <1>19, <1>20, Zenon
  <2> HIDE DEF x, y, w
  <2>4. Plus(Minus(x, w), Plus(y, w)) = Plus(x, y)
    <3>1. ASSUME NEW i \in Coef PROVE (x[i] - w[i]) + (y[i] + w[i]) = x[i] + y[i]
      BY <2>1, <2>2, SMT DEF Poly
    <3> QED
      BY <3>1, Zenon DEF Plus, Minus
  <2> QED
    BY <2>3, <2>4, Zenon
<1>22. f \in Poly /\ F \in Poly /\ q2 \in Int /\ Equiv(q2, f, f) /\ Equiv(q2, F, F)
  BY <1>1, ModInt, EquivSame, Zenon
<1>23. Equiv(q2, Times(f, y0), Times(f, A)) /\ Equiv(q2, Times(F, y1), Times(F, B))
  BY <1>13, <1>16, <1>17, <1>18, <1>22, EquivTimes, Zenon
<1>24. Times(f, A) \in Poly /\ Times(F, B) \in Poly
  BY <1>1, <1>18, RingOps, Zenon
<1>25. Equiv(q2, v, SumS1(k, c, z1, z0))
  <2>1. Equiv(q2, Plus(Times(f, y0), Times(F, y1)), Plus(Times(f, A), Times(F, B)))
    <3> DEFINE x == Times(f, y0)
               y == Times(F, y1)
               s == Times(f, A)
               t == Times(F, B)
    <3>1. x \in Poly /\ y \in Poly /\ s \in Poly /\ t \in Poly /\ Equiv(q2, x, s) /\ Equiv(q2, y, t)
      BY <1>14, <1>23, <1>24
    <3> HIDE DEF x, y, s, t
    <3>2. Equiv(q2, Plus(x, y), Plus(s, t))
      BY <1>22, <3>1, EquivSum, Zenon
    <3> QED
      BY <3>2 DEF x, y, s, t
  <2> QED
    BY <1>10, <1>21, <2>1, Zenon
<1>26. SumS1(k, c, z1, z0) \in Poly
  BY S1Values, Zenon
<1>27. Centred(v, q2) = Centred(SumS1(k, c, z1, z0), q2)
  <2>1. q2 \in {q, q2}
    OBVIOUS
  <2> QED
    BY <1>15, <1>25, <1>26, <2>1, CentredEquiv, Zenon
<1> QED
  BY <1>13, <1>15, <1>27, Zenon DEF S1

LEMMA LatticeS0 ==
  ASSUME NEW k \in Keys, NEW c \in [Coef -> 0..(q - 1)], NEW y0 \in Poly, NEW y1 \in Poly
  PROVE  Centred(Minus(c, Times(Plus(Times(k.f, y0), Times(k.F, y1)), H(k))), q)
         = Centred(Minus(c, Plus(Times(k.g, y0), Times(BigG(k), y1))), q)
<1> DEFINE f == k.f
           F == k.F
           g == k.g
           G == BigG(k)
           e == FInv(k)
           h == H(k)
<1>1. f \in Poly /\ F \in Poly /\ g \in Poly /\ G \in Poly /\ e \in Poly /\ h \in Poly /\ c \in Poly
  BY KeyValues, HashValues, Zenon
<1>2. h = Times(g, e)
  BY Zenon DEF H
<1>3. (\A x \in Poly : Equiv(q, Times(Times(x, f), e), x)) /\ Equiv(q, Times(Times(g, F), e), G)
  BY InverseOfF, Zenon
<1> HIDE DEF f, F, g, G, e, h
<1>4. q \in Int
  BY ModInt
<1>4a. ASSUME NEW w \in Poly PROVE Times(w, h) = Times(Times(w, g), e)
  <2>1. g \in Poly /\ e \in Poly
    BY <1>1
  <2>2. Times(Times(w, g), e) = Times(w, Times(g, e))
    BY <2>1, TimesAssoc, Zenon
  <2> QED
    BY <1>2, <2>2, Zenon
<1>5. ASSUME NEW x \in Poly, NEW y \in Poly
      PROVE  Times(Times(x, y), h) = Times(Times(Times(g, y), x), e) /\ Times(g, y) \in Poly
  <2>1. Times(x, y) \in Poly /\ Times(g, y) \in Poly
    BY <1>1, RingOps, Zenon
  <2>2. Times(Times(x, y), h) = Times(Times(Times(x, y), g), e)
    BY <1>4a, <2>1, Zenon
  <2>3. Times(Times(x, y), g) = Times(x, Times(y, g))
    <3>1. g \in Poly
      BY <1>1
    <3> QED
      BY <3>1, TimesAssoc, Zenon
  <2>4. Times(y, g) = Times(g, y)
    BY <1>1, TimesComm, Zenon
  <2>5. Times(x, Times(g, y)) = Times(Times(g, y), x)
    BY <2>1, TimesComm, Zenon
  <2> QED
    BY <2>1, <2>2, <2>3, <2>4, <2>5, Zenon
<1>6. Equiv(q, Times(Times(f, y0), h), Times(g, y0))
  BY <1>1, <1>3, <1>5, Zenon
<1>7. Equiv(q, Times(Times(F, y1), h), Times(G, y1))
  <2> DEFINE w == Times(Times(g, F), e)
  <2>1. Times(g, F) \in Poly /\ Times(g, y1) \in Poly
    BY <1>1, RingOps, Zenon
  <2>2. w \in Poly
    BY <1>1, <2>1, RingOps, Zenon
  <2>3. Times(Times(F, y1), h) = Times(Times(Times(g, y1), F), e)
    BY <1>1, <1>5, Zenon
  <2>4. Times(Times(g, y1), F) = Times(g, Times(y1, F))
    <3>1. g \in Poly /\ F \in Poly
      BY <1>1
    <3> QED
      BY <3>1, TimesAssoc, Zenon
  <2>5. Times(y1, F) = Times(F, y1)
    BY <1>1, TimesComm, Zenon
  <2>6. Times(g, Times(F, y1)) = Times(Times(g, F), y1)
    <3>1. g \in Poly /\ F \in Poly
      BY <1>1
    <3> QED
      BY <3>1, TimesAssoc, Zenon
  <2>7. Times(Times(g, F), y1) = Times(y1, Times(g, F))
    BY <2>1, TimesComm, Zenon
  <2>8. Times(Times(y1, Times(g, F)), e) = Times(y1, w)
    <3> DEFINE x == Times(g, F)
    <3>1. x \in Poly /\ e \in Poly
      BY <1>1, <2>1
    <3> HIDE DEF x
    <3>2. Times(Times(y1, x), e) = Times(y1, Times(x, e))
      BY <3>1, TimesAssoc, Zenon
    <3> QED
      BY <3>2 DEF x
  <2>9. Times(y1, w) = Times(w, y1)
    BY <2>2, TimesComm, Zenon
  <2>10. Times(Times(F, y1), h) = Times(w, y1)
    BY <2>3, <2>4, <2>5, <2>6, <2>7, <2>8, <2>9, Zenon
  <2>11. Equiv(q, w, G)
    BY <1>3
  <2> HIDE DEF w
  <2>12. Equiv(q, y1, y1)
    BY <1>4, EquivSame, Zenon
  <2>13. Equiv(q, Times(w, y1), Times(G, y1))
    BY <1>1, <1>4, <2>2, <2>11, <2>12, EquivTimes, Zenon
  <2> QED
    BY <2>10, <2>13, Zenon
<1> DEFINE p == Times(f, y0)
           r == Times(F, y1)
           s == Times(p, h)
           t == Times(r, h)
           a == Times(g, y0)
           b == Times(G, y1)
<1>8. p \in Poly /\ r \in Poly /\ a \in Poly /\ b \in Poly
  BY <1>1, RingOps, Zenon
<1>9. Equiv(q, s, a) /\ Equiv(q, t, b)
  BY <1>6, <1>7
<1> HIDE DEF p, r, a, b
<1>10. s \in Poly /\ t \in Poly /\ Plus(p, r) \in Poly /\ Plus(a, b) \in Poly
  BY <1>1, <1>8, RingOps, Zenon
<1>11. Times(Plus(p, r), h) = Plus(s, t)
  <2>1. Times(Plus(p, r), h) = Times(h, Plus(p, r)) /\ s = Times(h, p) /\ t = Times(h, r)
    BY <1>1, <1>8, <1>10, TimesComm, Zenon
  <2>2. Times(h, Plus(p, r)) = Plus(Times(h, p), Times(h, r))
    <3>1. h \in Poly /\ p \in Poly /\ r \in Poly
      BY <1>1, <1>8
    <3> QED
      BY <3>1, Distributes, Zenon
  <2> QED
    BY <2>1, <2>2, Zenon
<1> HIDE DEF s, t
<1>12. Equiv(q, Plus(s, t), Plus(a, b)) /\ Plus(s, t) \in Poly
  BY <1>4, <1>8, <1>9, <1>10, EquivSum, RingOps, Zenon
<1> DEFINE m == Plus(s, t)
           n == Plus(a, b)
<1>13. m \in Poly /\ n \in Poly /\ Equiv(q, m, n)
  BY <1>10, <1>12
<1> HIDE DEF m, n
<1>14. Equiv(q, c, c)
  BY <1>1, <1>4, EquivSame, Zenon
<1>15. Minus(c, m) \in Poly /\ Minus(c, n) \in Poly
  BY <1>1, <1>13, RingOps, Zenon
<1>16. Equiv(q, Minus(c, m), Minus(c, n))
  BY <1>1, <1>4, <1>13, <1>14, EquivSum, Zenon
<1>17. Centred(Minus(c, m), q) = Centred(Minus(c, n), q)
  <2> DEFINE x == Minus(c, m)
             y == Minus(c, n)
  <2>1. x \in Poly /\ y \in Poly /\ Equiv(q, x, y) /\ q \in {q, q2}
    BY <1>15, <1>16
  <2> HIDE DEF x, y
  <2>2. Centred(x, q) = Centred(y, q)
    BY <2>1, CentredEquiv, Zenon
  <2> QED
    BY <2>2 DEF x, y
<1> QED
  BY <1>11, <1>17, Zenon DEF m, n, p, r, a, b, f, F, g, G, h

\* The vector that is tested is (c, 0) minus a point of the key's lattice, for every key,
\* challenge and sampler: s1 as its residue modulo q' and, if that is s1 itself, s0 as its
\* residue modulo q.
THEOREM SignatureVector == Spec => []SignatureIsLatticeVector
<1>1. CallInv => SignatureIsLatticeVector
  <2> SUFFICES ASSUME CallInv, pc = "check"
               PROVE  LET y0 == Plus(z.t0, Quo(Minus(Centred(cF, q), cF), q))
                          y1 == Plus(z.t1, Quo(Minus(cf, Centred(cf, q)), q))
                          s1 == Plus(Times(key.f, y0), Times(key.F, y1))
                          s0 == Minus(Challenge, Plus(Times(key.g, y0), Times(BigG(key), y1)))
                      IN  /\ Has(mem, 6, "i16") /\ mem[6].val = Centred(s1, q2)
                          /\ Has(mem, 2, "i16")
                          /\ mem[6].val = s1 => mem[2].val = Centred(s0, q)
    BY Zenon DEF SignatureIsLatticeVector
  <2> DEFINE k == key
             c == Hash[sig.nonce]
             z1 == z.t1
             z0 == z.t0
             m == mem
             y0 == Plus(z0, Quo(Minus(cFMod(k, c), Times(c, k.F)), q))
             y1 == Plus(z1, Quo(Minus(Times(c, k.f), cfMod(k, c)), q))
             v == Plus(Times(k.f, y0), Times(k.F, y1))
             w == Minus(c, Plus(Times(k.g, y0), Times(BigG(k), y1)))
  <2>1. CallOK /\ CallState /\ AreaInv
    BY Zenon DEF CallInv
  <2>2. line = 123
    BY <2>1, Zenon DEF CallState
  <2>3. line > 1 /\ line \in 28..123 /\ line \in 78..123
    BY <2>2
  <2>4. k \in Keys /\ c \in [Coef -> 0..(q - 1)]
    BY <2>1, <2>3, CallKnown, Zenon
  <2>5. z1 \in Poly /\ z0 \in Poly
    BY <2>1, <2>3, Zenon DEF CallState, Sampled1, Sampled0
  <2>6. Area(m, 123, k, c, z1, z0)
    BY <2>1, <2>2, Zenon DEF AreaInv
  <2>7. /\ cF = Times(c, k.F) /\ Centred(cF, q) = cFMod(k, c)
        /\ cf = Times(c, k.f) /\ Centred(cf, q) = cfMod(k, c) /\ Challenge = c
    BY Zenon DEF cF, cf, cFMod, cfMod, Challenge
  <2>8. /\ y0 = Plus(z.t0, Quo(Minus(Centred(cF, q), cF), q))
        /\ y1 = Plus(z.t1, Quo(Minus(cf, Centred(cf, q)), q))
    BY <2>7, Zenon
  <2> HIDE DEF k, c, z1, z0, m
  <2>9. Carries(m, 6, "i16", S1(k, c, z1, z0)) /\ Carries(m, 2, "i16", S0(k, c, z1, z0))
    BY <2>6, SMT DEF Area, Row
  <2>10. /\ Has(m, 6, "i16") /\ m[6].val = S1(k, c, z1, z0)
         /\ Has(m, 2, "i16") /\ m[2].val = S0(k, c, z1, z0)
    BY <2>9, CarriesIs, SMT
  <2>11. /\ y0 = Plus(z0, Quo(Minus(cFMod(k, c), Times(c, k.F)), q))
         /\ y1 = Plus(z1, Quo(Minus(Times(c, k.f), cfMod(k, c)), q))
    OBVIOUS
  <2> HIDE DEF y0, y1
  <2>12. v = Plus(Times(k.f, y0), Times(k.F, y1))
    OBVIOUS
  <2> HIDE DEF v
  <2>13. y0 \in Poly /\ y1 \in Poly /\ S1(k, c, z1, z0) = Centred(v, q2)
    BY <2>4, <2>5, <2>11, <2>12, LatticeS1, SMTT(60)
  <2>14. S1(k, c, z1, z0) = v => S0(k, c, z1, z0) = Centred(w, q)
    <3> SUFFICES ASSUME S1(k, c, z1, z0) = v PROVE S0(k, c, z1, z0) = Centred(w, q)
      OBVIOUS
    <3>1. S0(k, c, z1, z0) = Centred(Minus(c, Times(v, H(k))), q)
      BY Zenon DEF S0
    <3>2. Centred(Minus(c, Times(Plus(Times(k.f, y0), Times(k.F, y1)), H(k))), q) = Centred(w, q)
      BY <2>4, <2>13, LatticeS0, Zenon
    <3> QED
      BY <2>12, <3>1, <3>2, Zenon
  <2> HIDE DEF w
  <2>15. /\ Has(mem, 6, "i16") /\ mem[6].val = Centred(v, q2) /\ Has(mem, 2, "i16")
         /\ mem[6].val = v => mem[2].val = Centred(w, q)
    BY <2>10, <2>13, <2>14, Zenon DEF m
  <2>16. /\ v = Plus(Times(key.f, y0), Times(key.F, y1))
         /\ w = Minus(Challenge, Plus(Times(key.g, y0), Times(BigG(key), y1)))
    BY <2>7, <2>12, Zenon DEF w, k
  <2> QED
    BY <2>8, <2>15, <2>16, Zenon
<1> QED
  BY <1>1, CallHolds, PTL

-----------------------------------------------------------------------------
(* What is returned.                                                         *)

\* The verifier's c - s2*h is what the signer tested.
LEMMA VerifierS0 ==
  ASSUME NEW k \in Keys, NEW c \in [Coef -> 0..(q - 1)], NEW s \in Poly
  PROVE  Centred(Minus(c, Centred(Times(s, PublicKey[k]), q)), q) = Centred(Minus(c, Times(s, H(k))), q)
<1> DEFINE p == PublicKey[k]
           h == H(k)
           x == Times(s, p)
           y == Times(s, h)
           r == Centred(x, q)
<1>1. p \in Poly /\ Equiv(q, p, h)
  BY PublicKeyIs, Zenon DEF H
<1>2. h \in Poly /\ c \in Poly
  BY KeyValues, HashValues, Zenon
<1> HIDE DEF p, h
<1>3. x \in Poly /\ y \in Poly
  BY <1>1, <1>2, RingOps, Zenon
<1>4. q \in Int /\ q \in {q, q2}
  BY ModInt
<1>5. Equiv(q, x, y)
  <2>1. Equiv(q, s, s)
    BY <1>4, EquivSame, Zenon
  <2> QED
    BY <1>1, <1>2, <1>4, <2>1, EquivTimes, Zenon
<1> HIDE DEF x, y
<1>6. r \in Poly /\ Equiv(q, r, x)
  BY <1>3, <1>4, CentredIs, Zenon
<1> HIDE DEF r
<1>7. Equiv(q, r, y)
  BY <1>3, <1>4, <1>5, <1>6, EquivTrans, Zenon
<1>8. Equiv(q, c, c)
  BY <1>2, <1>4, EquivSame, Zenon
<1> DEFINE a == Minus(c, r)
           b == Minus(c, y)
<1>9. a \in Poly /\ b \in Poly
  BY <1>2, <1>3, <1>6, RingOps, Zenon
<1>10. Equiv(q, a, b)
  BY <1>2, <1>3, <1>4, <1>6, <1>7, <1>8, EquivSum, Zenon
<1> HIDE DEF a, b
<1>11. Centred(a, q) = Centred(b, q)
  BY <1>4, <1>9, <1>10, CentredEquiv, Zenon
<1> QED
  BY <1>11, Zenon DEF a, b, r, x, y, p, h

LEMMA AcceptableBounds ==
  ASSUME NEW x \in Poly, NEW y \in Poly, Acceptable(x, y)
  PROVE  /\ \A i \in Coef : y[i] \in -B_INF..B_INF /\ x[i] \in -B_INF..B_INF
         /\ mqpoly_sqnorm_small(x) + mqpoly_sqnorm_small(y) <= SQBETA
<1> DEFINE a == mqpoly_sqnorm_binf_signed(x)
           b == mqpoly_sqnorm_binf_signed(y)
<1>1. mqpoly_sqnorm_is_acceptable(IF Saturated \in {a, b} THEN Saturated ELSE a + b)
  BY Zenon DEF Acceptable
<1> HIDE DEF a, b
<1>2. a # Saturated /\ b # Saturated
  BY <1>1, Zenon DEF mqpoly_sqnorm_is_acceptable
<1>3. a + b <= SQBETA
  BY <1>1, <1>2, Zenon DEF mqpoly_sqnorm_is_acceptable
<1>4. ASSUME NEW u \in Poly, mqpoly_sqnorm_binf_signed(u) # Saturated
      PROVE  /\ mqpoly_sqnorm_binf_signed(u) = mqpoly_sqnorm_small(u)
             /\ \A i \in Coef : u[i] \in -B_INF..B_INF
  <2>1. ~ \E i \in Coef : u[i] > B_INF \/ u[i] < -B_INF
    BY <1>4, Zenon DEF mqpoly_sqnorm_binf_signed
  <2>2. mqpoly_sqnorm_binf_signed(u) = mqpoly_sqnorm_small(u)
    BY <2>1, Zenon DEF mqpoly_sqnorm_binf_signed
  <2>3. ASSUME NEW i \in Coef PROVE u[i] \in -B_INF..B_INF
    <3>1. u[i] \in Int /\ ~(u[i] > B_INF) /\ ~(u[i] < -B_INF)
      BY <2>1, Zenon DEF Poly
    <3> QED
      BY <3>1, SMT DEF B_INF
  <2> QED
    BY <2>2, <2>3
<1>5. a = mqpoly_sqnorm_small(x) /\ \A i \in Coef : x[i] \in -B_INF..B_INF
  BY <1>2, <1>4, Zenon DEF a
<1>6. b = mqpoly_sqnorm_small(y) /\ \A i \in Coef : y[i] \in -B_INF..B_INF
  BY <1>2, <1>4, Zenon DEF b
<1> QED
  BY <1>3, <1>5, <1>6, Zenon

-----------------------------------------------------------------------------
(* What is returned verifies.                                                *)

\* The verifier's test passes for the vector that the signer accepted.
LEMMA AcceptedVerifies ==
  ASSUME NEW k \in Keys, NEW c \in [Coef -> 0..(q - 1)], NEW z1 \in Poly, NEW z0 \in Poly,
         Acceptable(S0(k, c, z1, z0), S1(k, c, z1, z0)),
         NEW s, s = S1(k, c, z1, z0),
         NEW t, t = Centred(Minus(c, Centred(Times(s, PublicKey[k]), q)), q)
  PROVE  /\ \A i \in Coef : s[i] \in -B_INF..B_INF /\ t[i] \in -B_INF..B_INF
         /\ mqpoly_sqnorm_small(t) + mqpoly_sqnorm_small(s) <= SQBETA
<1> DEFINE u == S1(k, c, z1, z0)
           x == Minus(c, Times(u, H(k)))
           y == Centred(x, q)
<1>1. u \in Poly /\ x \in Poly
  BY S1Values, Zenon
<1>2. Centred(Minus(c, Centred(Times(u, PublicKey[k]), q)), q) = y
  <2>1. \A v \in Poly : Centred(Minus(c, Centred(Times(v, PublicKey[k]), q)), q)
                        = Centred(Minus(c, Times(v, H(k))), q)
    BY VerifierS0, Zenon
  <2> QED
    BY <1>1, <2>1, Zenon
<1>3. Acceptable(y, u)
  BY Zenon DEF S0
<1> HIDE DEF u, x
<1>4. y \in Poly
  <2>1. q \in {q, q2}
    OBVIOUS
  <2> QED
    BY <1>1, <2>1, CentredIs, Zenon
<1> HIDE DEF y
<1>5. /\ \A i \in Coef : u[i] \in -B_INF..B_INF /\ y[i] \in -B_INF..B_INF
      /\ mqpoly_sqnorm_small(y) + mqpoly_sqnorm_small(u) <= SQBETA
  BY <1>1, <1>3, <1>4, AcceptableBounds, Zenon
<1>6. s = u
  BY DEF u
<1>7. t = y
  BY <1>2, <1>6, Zenon
<1> QED
  BY <1>5, <1>6, <1>7, Zenon

\* Only Attempt, CheckNorm and Check end the call.
LEMMA VerifiesStep ==
  ASSUME CallInv, OutputVerifies, Next
  PROVE  OutputVerifies'
<1>1. CallOK /\ CallState /\ AreaInv
  BY Zenon DEF CallInv
<1>2. CASE Attempt
  <2>1. pc' = "done" => ret' = 0 /\ counter' = MaxAttempts
    BY <1>1, <1>2, AttemptStep, Zenon
  <2> QED
    BY <2>1, Zenon DEF OutputVerifies
<1>3. CASE Statement
  <2>1. pc' # "done"
    BY <1>3, Zenon DEF Statement, Advance
  <2> QED
    BY <2>1, Zenon DEF OutputVerifies
<1>4. CASE CheckNorm
  <2>1. pc' = "done" => ret' = 0 /\ Gram' > MAX_NORM
    BY <1>1, <1>4, CheckNormStep, Zenon
  <2> QED
    BY <2>1, Zenon DEF OutputVerifies
<1>5. CASE AdjustSave
  <2>1. pc' # "done"
    BY <1>1, <1>5, AdjustSaveStep, Zenon
  <2> QED
    BY <2>1, Zenon DEF OutputVerifies
<1>6. CASE Adjust
  <2>1. pc' # "done"
    BY <1>1, <1>6, AdjustStep, Zenon
  <2> QED
    BY <2>1, Zenon DEF OutputVerifies
<1>7. CASE FfSamp1
  <2>1. pc' # "done"
    BY <1>1, <1>7, FfSamp1Step, Zenon
  <2> QED
    BY <2>1, Zenon DEF OutputVerifies
<1>8. CASE FfSamp2
  <2>1. pc' # "done"
    BY <1>1, <1>8, FfSamp2Step, Zenon
  <2> QED
    BY <2>1, Zenon DEF OutputVerifies
<1>9. CASE Check
  <2> DEFINE k == key
             c == Hash[sig.nonce]
             z1 == z.t1
             z0 == z.t0
             s == sig'.body
             t == Centred(Minus(c, Centred(Times(s, PublicKey[k]), q)), q)
  <2> SUFFICES ASSUME pc' = "done" PROVE OutputVerifies'
    BY Zenon DEF OutputVerifies
  <2>1. /\ ret' # 0 /\ sig'.kind = "s2" /\ sig'.header = 49 /\ sig'.nonce = sig.nonce
        /\ key' = key /\ sig'.body = S1(k, c, z1, z0)
        /\ Acceptable(S0(k, c, z1, z0), S1(k, c, z1, z0))
    BY <1>1, <1>9, CheckStep, Zenon
  <2>2. pc = "check"
    BY <1>9, Zenon DEF Check
  <2>3. line = 123
    BY <1>1, <2>2, Zenon DEF CallState
  <2>4. line > 1 /\ line \in 28..123 /\ line \in 78..123
    BY <2>3
  <2>5. k \in Keys /\ c \in [Coef -> 0..(q - 1)]
    BY <1>1, <2>4, CallKnown, Zenon
  <2>6. z1 \in Poly /\ z0 \in Poly
    BY <1>1, <2>4, Zenon DEF CallState, Sampled1, Sampled0
  <2>7. Challenge' = c
    BY <2>1, Zenon DEF Challenge
  <2> HIDE DEF k, c, z1, z0
  <2>8. s = S1(k, c, z1, z0) /\ t = Centred(Minus(c, Centred(Times(s, PublicKey[k]), q)), q)
    BY <2>1
  <2> HIDE DEF s, t
  <2>9. /\ \A i \in Coef : s[i] \in -B_INF..B_INF /\ t[i] \in -B_INF..B_INF
        /\ mqpoly_sqnorm_small(t) + mqpoly_sqnorm_small(s) <= SQBETA
    BY <2>1, <2>5, <2>6, <2>8, AcceptedVerifies, SMTT(60)
  <2>10. t = Centred(Minus(Challenge', Centred(Times(sig'.body, PublicKey[key']), q)), q)
    BY <2>1, <2>7, <2>8, Zenon DEF s, k
  <2> QED
    BY <2>1, <2>9, <2>10, Zenon DEF OutputVerifies, s
<1>10. CASE Returned
  <2>1. UNCHANGED <<key, counter, pc, line, mem, sig, z, ret>>
    BY <1>10 DEF Returned, vars
  <2> QED
    BY <2>1, Zenon DEF OutputVerifies, Challenge, Gram
<1> QED
  BY <1>2, <1>3, <1>4, <1>5, <1>6, <1>7, <1>8, <1>9, <1>10, Zenon DEF Next

\* Whatever the key, the challenges and the sampler, a signature that sign_core returns passes
\* the verifier's norm test under the public key g/f, and a return of 0 means that the key's
\* norm is too large or that every attempt was used up.
THEOREM SignatureVerifies == Spec => []OutputVerifies
<1>1. Init => OutputVerifies
  <2> SUFFICES ASSUME Init PROVE OutputVerifies
    OBVIOUS
  <2>1. pc = "attempt"
    BY Zenon DEF Init
  <2>2. pc # "done"
    BY <2>1
  <2> QED
    BY <2>2, Zenon DEF OutputVerifies
<1>2. CallInv /\ OutputVerifies /\ [Next]_vars => OutputVerifies'
  <2> SUFFICES ASSUME CallInv, OutputVerifies, [Next]_vars PROVE OutputVerifies'
    OBVIOUS
  <2>1. CASE Next
    BY <2>1, VerifiesStep, Zenon
  <2>2. CASE vars' = vars
    <3>1. UNCHANGED <<key, counter, pc, line, mem, sig, z, ret>>
      BY <2>2 DEF vars
    <3> QED
      BY <3>1, Zenon DEF OutputVerifies, Challenge, Gram
  <2> QED
    BY <2>1, <2>2
<1> QED
  BY <1>1, <1>2, CallHolds, PTL DEF Spec

=============================================================================
