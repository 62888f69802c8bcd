------------------------------- MODULE FfSamp -------------------------------
(***************************************************************************)
(* ffsamp_fft() of fndsa_sign_sampler.c: fast Fourier sampling in one work *)
(* area of 2n reals.  The recursion is a stack of frames; each step is the *)
(* code between two recursive calls.  The target is t + dz/q: t is in the  *)
(* work area (or implicitly zero), dz is added at the leaves only, where   *)
(* the sample replaces it.  The integer sampler is any integer of Zs.      *)
(***************************************************************************)
EXTENDS Fpoly, Sequences

CONSTANTS
    LogN,      \* degree
    Q,         \* 12289
    Zs,        \* outcomes of the integer sampler
    Targets,   \* target polynomials t (integers)
    Grams,     \* self-adjoint polynomials a, by FFT values
    Hashes,    \* contents of dz
    Junk       \* what an unset slot of the work area holds

ASSUME SampAssumption == LogN \in 2..LogMax /\ Zs \subseteq Int /\ Junk \in Real

VARIABLES
    tmp,     \* the work area
    stack,   \* frames [logn, base, init0, noout, pc], innermost last
    dz,      \* hashed values, then samples
    off,     \* ss->off
    leaves,  \* history: centre and variance handed to the sampler for each dz index
    input    \* history: t, a, dz and flags of the call

vars == <<tmp, stack, dz, off, leaves, input>>

Size == 2 * 2 ^ LogN
Coefs == 0..(2 ^ LogN - 1)

-----------------------------------------------------------------------------

Sub(mem, base, len) == Eager([i \in 0..(len - 1) |-> mem[base + i]])
Put(mem, base, arr) ==
    Eager([i \in DOMAIN mem |-> IF i - base \in DOMAIN arr THEN arr[i - base] ELSE mem[i]])
Copy(mem, dst, src, len) == Put(mem, dst, Sub(mem, src, len))

\* The FFT of a small integer polynomial.
FftOf(c) == fpoly_FFT_int32(LogN, [w \in 0..(2 * 2 ^ LogN - 1) |-> IF w < 2 ^ LogN THEN c[w] ELSE 0], 0)

\* sign_core calls it with t = 0 and output, then with t and no output.
Init ==
    /\ \E t \in Targets, a \in Grams, h \in Hashes, init0 \in BOOLEAN, noout \in BOOLEAN :
        /\ ~(init0 /\ noout)
        /\ input = [t |-> IF init0 THEN [i \in Coefs |-> 0] ELSE FftOf(t), a |-> a, h |-> h,
                    noout |-> noout]
        /\ tmp = Put(Put([i \in 0..(Size - 1) |-> Junk], 2 ^ LogN, a), 0,
                     IF init0 THEN <<>> ELSE FftOf(t))
        /\ stack = <<[logn |-> LogN, base |-> 0, init0 |-> init0, noout |-> noout, pc |-> "enter"]>>
        /\ dz = h
        \* ffsamp_fft(): ss->off = 1 << (logn - 1).
        /\ off = 2 ^ (LogN - 1)
        /\ leaves = [j \in Coefs |-> <<0, 0>>]

Top == stack[Len(stack)]
Pop == SubSeq(stack, 1, Len(stack) - 1)

\* ffsamp_fft_inner() up to its first recursive call.
InnerBefore ==
    /\ stack # <<>> /\ Top.pc = "enter" /\ Top.logn > 1
    /\ LET n    == 2 ^ Top.logn
           hn   == n \div 2
           qn   == n \div 4
           t0   == Top.base
           t4   == t0 + hn
           t6   == t4 + qn
           t8   == t0 + n
           t12  == t8 + hn
           t14  == t12 + qn
           sa   == fpoly_split_selfadj_fft(Top.logn, Sub(tmp, t8, hn))
           m1   == Put(Put(tmp, t12, sa.a0), t14, sa.b1)
           st   == fpoly_split_fft(Top.logn, Sub(m1, t0, n))
           m2   == IF Top.init0 THEN m1 ELSE Put(Put(m1, t0, st.f0), t8, st.f1)
           m3   == Copy(m2, t4, t12, qn)
           ldl  == fpoly_LDL_fft(Top.logn - 1, Sub(m3, t4, qn), Sub(m3, t14, qn))
       IN  /\ tmp' = Put(Put(m3, t6, ldl.e), t12, ldl.d)
           /\ stack' = Append(Append(Pop, [Top EXCEPT !.pc = "between"]),
                              [logn |-> Top.logn - 1, base |-> t8, init0 |-> Top.init0,
                               noout |-> FALSE, pc |-> "enter"])
    /\ UNCHANGED <<dz, off, leaves, input>>

\* Mutant: the second call is made with the target alone, without u1*L10.
InnerBetweenNoCorrection ==
    /\ stack # <<>> /\ Top.pc = "between"
    /\ LET n    == 2 ^ Top.logn
           hn   == n \div 2
           t0   == Top.base
           t4   == t0 + hn
           t8   == t0 + n
           t12  == t8 + hn
           m1   == Copy(Copy(tmp, t12, t4, hn), t4, t8, hn)
           m2   == IF Top.init0 THEN m1 ELSE Copy(m1, t8, t0, hn)
           m3   == Put(m2, t0, [i \in 0..(hn - 1) |-> 0])
       IN  /\ tmp' = IF Top.init0 THEN Copy(m3, t8, t0, hn) ELSE m3
           /\ stack' = Append(Append(Pop, [Top EXCEPT !.pc = "after"]),
                              [logn |-> Top.logn - 1, base |-> t8, init0 |-> FALSE,
                               noout |-> Top.noout, pc |-> "enter"])
    /\ UNCHANGED <<dz, off, leaves, input>>

\* Between the recursive calls: t0' = t0 + u1*L10.
InnerBetween ==
    /\ stack # <<>> /\ Top.pc = "between"
    /\ LET n    == 2 ^ Top.logn
           hn   == n \div 2
           t0   == Top.base
           t4   == t0 + hn
           t8   == t0 + n
           t12  == t8 + hn
           t14  == t12 + n \div 4
           m1   == Copy(Copy(tmp, t12, t4, hn), t4, t8, hn)
           m2   == IF Top.init0 THEN m1 ELSE Copy(m1, t8, t0, hn)
           m3   == Put(m2, t0, fpoly_mul_iXadj_fft(Top.logn - 1, Sub(m2, t4, hn), Sub(m2, t14, n \div 4)))
       IN  /\ tmp' = IF Top.init0 THEN Copy(m3, t8, t0, hn)
                     ELSE Put(m3, t8, fpoly_add(Sub(m3, t8, hn), Sub(m3, t0, hn)))
           /\ stack' = Append(Append(Pop, [Top EXCEPT !.pc = "after"]),
                              [logn |-> Top.logn - 1, base |-> t8, init0 |-> FALSE,
                               noout |-> Top.noout, pc |-> "enter"])
    /\ UNCHANGED <<dz, off, leaves, input>>

\* Mutant: the correction u1*L10 is left in u0.
InnerAfterCorrected ==
    /\ stack # <<>> /\ Top.pc = "after"
    /\ LET n    == 2 ^ Top.logn
           hn   == n \div 2
           t8   == Top.base + n
           m2   == Copy(tmp, t8 + hn, Top.base + hn, hn)
       IN  tmp' = IF Top.noout THEN tmp
                  ELSE Put(m2, Top.base, fpoly_merge_fft(Top.logn, Sub(m2, t8, hn), Sub(m2, t8 + hn, hn)))
    /\ stack' = Pop
    /\ UNCHANGED <<dz, off, leaves, input>>

\* After the second call: u = merge(u0, u1), unless the output is not needed.
InnerAfter ==
    /\ stack # <<>> /\ Top.pc = "after"
    /\ LET n    == 2 ^ Top.logn
           hn   == n \div 2
           t0   == Top.base
           t4   == t0 + hn
           t8   == t0 + n
           t12  == t8 + hn
           m1   == Put(tmp, t8, fpoly_sub(Sub(tmp, t8, hn), Sub(tmp, t0, hn)))
           m2   == Copy(m1, t12, t4, hn)
       IN  tmp' = IF Top.noout THEN tmp
                  ELSE Put(m2, t0, fpoly_merge_fft(Top.logn, Sub(m2, t8, hn), Sub(m2, t12, hn)))
    /\ stack' = Pop
    /\ UNCHANGED <<dz, off, leaves, input>>

\* The base offset is the bit reversal of a decrementing counter.
DeepestIndex(o) == Rev(LogN - 1, o)

\* ffsamp_fft_deepest(): two samples with the variance of tmp[2].
Deepest ==
    /\ stack # <<>> /\ Top.pc = "enter" /\ Top.logn = 1
    /\ LET j    == DeepestIndex(off - 1)
           j2   == j + 2 ^ (LogN - 1)
           b    == Top.base
           centre(k, i) == fpr_add(fpr_mul(fpr_of32(dz[k]), fpr_inv(fpr_of32(Q))),
                                   IF Top.init0 THEN 0 ELSE tmp[b + i])
       IN  \E z0, z1 \in Zs :
            /\ dz' = [dz EXCEPT ![j] = z0, ![j2] = z1]
            /\ leaves' = [leaves EXCEPT ![j] = <<centre(j, 0), tmp[b + 2]>>,
                                        ![j2] = <<centre(j2, 1), tmp[b + 2]>>]
            /\ tmp' = IF Top.noout THEN tmp
                      ELSE [tmp EXCEPT ![b] = fpr_sub(centre(j, 0), fpr_of32(z0)),
                                       ![b + 1] = fpr_sub(centre(j2, 1), fpr_of32(z1))]
    /\ off' = off - 1
    /\ stack' = Pop
    /\ UNCHANGED input

\* The call has returned.
Finished == stack = <<>> /\ UNCHANGED vars

Next == InnerBefore \/ InnerBetween \/ InnerAfter \/ Deepest \/ Finished

Spec == Init /\ [][Next]_vars

-----------------------------------------------------------------------------

FullTarget == [u \in Slots(LogN) |->
    FPC_ADD(At(input.t, u, HalfN(LogN)), Scale(fpr_inv(fpr_of32(Q)), Eval(LogN, input.h, u)))]

-----------------------------------------------------------------------------

\* When ffsamp_fft returns, every coefficient has been sampled once, with the centre
\* and the variance that the exact recursion prescribes for the samples drawn so far:
\* adding dz at the leaves only, the implicit zero target, the reordering by the
\* decrementing counter and the shared work area lose nothing.
SamplesNearestPlane ==
    stack = <<>> =>
        /\ off = 0
        /\ leaves = Centres(LogN, FullTarget, [u \in Slots(LogN) |-> <<input.a[u], 0>>], dz)

\* The output that the second half of sign_core consumes is t + dz/q - z.
OutputIsDifference ==
    stack = <<>> /\ ~input.noout =>
        \A u \in Slots(LogN) :
            At(tmp, u, HalfN(LogN)) = FPC_SUB(FullTarget[u], Eval(LogN, dz, u))
=============================================================================
