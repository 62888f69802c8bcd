------------------------------ MODULE SignCore ------------------------------
(***************************************************************************)
(* sign_core() of fndsa_sign_core.c: one signature, from the raw private   *)
(* key f | g | F and the signing seed to (nonce, s2).  The computation     *)
(* runs in a temporary area of 20n bytes that every polynomial shares: the *)
(* model keeps it as 20 units of n bytes, so that tmpK of the code is unit *)
(* K, and records for every unit which representation it holds.  Reading a *)
(* unit in a representation it does not hold yields junk, and junk spreads.*)
(*                                                                         *)
(* The degree is n = 2 (LogN = 1): the ring is Z[X]/(X^2+1), the modular   *)
(* arithmetic is that of the code, digit for digit, and the one FFT value  *)
(* of a polynomial is itself, kept as an exact fraction instead of the     *)
(* code's emulated doubles.  ffsamp_fft is the sampler's contract: it      *)
(* replaces dz by integers near its centre.                                *)
(***************************************************************************)
EXTENDS FalconPoly, Sequences

CONSTANTS
    Keys,          \* private keys [f, g, F]
    Nonces,        \* 40-byte nonces the SHAKE context can give
    Hash,          \* hash_to_point: the challenge for each nonce (coefficients in [0,q-1])
    Offsets,       \* distances of a sampled integer from the floor of its centre
    MaxAttempts    \* 27 in the code

ASSUME DegreeAssumption == LogN = 1
ASSUME AttemptsAssumption == MaxAttempts \in Nat \ {0}

\* hash_to_point's coefficients are below q; gaussian0 of the sampler gives at most 18, and
\* z = b + (2b-1)*gaussian0 is what is added to the floor.
ASSUME HashAssumption == Hash \in [Nonces -> [{0, 1} -> 0..(q - 1)]]
ASSUME OffsetsAssumption == Offsets \subseteq -18..19

MAX_NORM == 16822   \* (1.17)^2 * q
SQBETA == 101498    \* SQBETA[1]
B_INF == 840

VARIABLES
    key,      \* sign_key_fgF
    counter,  \* attempts made so far
    pc,       \* "attempt", "body", "check" or "done"
    line,     \* the next statement of the loop body
    mem,      \* the temporary area, unit by unit
    sig,      \* the output buffer: header byte, nonce at 1, body at 41
    z,        \* history: the integers sampled for t1 and t0'
    ret       \* return value: the signature length, 0 on failure

vars == <<key, counter, pc, line, mem, sig, z, ret>>

-----------------------------------------------------------------------------
(* The temporary area.                                                     *)

Units == 0..19

\* Units that a polynomial takes in each representation: small (int8_t); ext, int and
\* ntt modulo q; mod2 and ntt2 modulo q'; i16 and i32 signed; fsa (self-adjoint FFT), fft.
Size == [small |-> 1, ext |-> 2, int |-> 2, ntt |-> 2, mod2 |-> 2, ntt2 |-> 2,
         i16 |-> 2, i32 |-> 4, fsa |-> 4, fft |-> 8]

Junk == [rep |-> "junk", part |-> 0, val |-> 0]
AllJunk == [u \in Units |-> Junk]

Spoil(m, at, len) == [u \in Units |-> IF u \in at..(at + len - 1) THEN Junk ELSE m[u]]

Put(m, at, rep, v) ==
    [u \in Units |-> IF u \in at..(at + Size[rep] - 1)
                     THEN [rep |-> rep, part |-> u - at, val |-> v] ELSE m[u]]

\* A whole polynomial of this representation starts at this unit.
Has(m, at, rep) ==
    \A k \in 0..(Size[rep] - 1) :
        m[at + k].rep = rep /\ m[at + k].part = k /\ m[at + k].val = m[at].val

\* dst <- Op(src); dst <- Op(dst, src).
Conv(m, src, from, dst, to, Op(_)) ==
    IF Has(m, src, from) THEN Put(m, dst, to, Op(m[src].val)) ELSE Spoil(m, dst, Size[to])

Comb(m, dst, r1, src, r2, to, Op(_, _)) ==
    IF Has(m, dst, r1) /\ Has(m, src, r2)
    THEN Put(m, dst, to, Op(m[dst].val, m[src].val)) ELSE Spoil(m, dst, Size[to])

Memcpy(m, dst, src) ==
    [u \in Units |-> IF u \in {dst, dst + 1} THEN m[src + u - dst] ELSE m[u]]

-----------------------------------------------------------------------------
(* FFT values, exact: a self-adjoint one is num/den, any other one is      *)
(* (re + i*im)/den.                                                        *)

fpoly_FFT_int16_selfadj(a) == [num |-> a[0], den |-> 1]
fpoly_FFT_int32(a) == [re |-> a[0], im |-> a[1], den |-> 1]
fpoly_invmul_selfadj_fft(a) == [num |-> q * q * a.den, den |-> a.num]
fpoly_mul_fft(a, b) ==
    [re |-> a.re * b.re - a.im * b.im, im |-> a.im * b.re + a.re * b.im, den |-> a.den * b.den]
fpoly_div_selfadj_fft(a, b) ==
    [re |-> a.re * b.den, im |-> a.im * b.den, den |-> a.den * b.num]

-----------------------------------------------------------------------------
(* What a statement <<function, unit(s)>> of the loop body does to the     *)
(* area.                                                                   *)

\* mqpoly_inv_ntt and mqpoly_div_ntt also overwrite the array they are given as scratch.
Invert(m, at, scratch) ==
    Spoil(Conv(m, at, "ntt", at, "ntt", LAMBDA a : MQ!inv_ntt(a).val), scratch, 2)
Divide(m, at, by, scratch) ==
    Spoil(Comb(m, at, "ntt", by, "ntt", "ntt", LAMBDA a, b : MQ!div_ntt(a, b).val), scratch, 2)

\* tmp a <- a*adj(b) + c*adj(d).
MuladjAddMuladj(m, a, b, c, d) ==
    IF Has(m, a, "ntt") /\ Has(m, b, "ntt") /\ Has(m, c, "ntt") /\ Has(m, d, "ntt")
    THEN Put(m, a, "ntt", MQ!muladj_add_muladj(m[a].val, m[b].val, m[c].val, m[d].val))
    ELSE Spoil(m, a, 2)

Same(m, dst, src, Op(_, _)) ==
    IF Has(m, dst, "mod2") THEN Comb(m, dst, "mod2", src, "mod2", "mod2", Op)
                           ELSE Comb(m, dst, "ntt2", src, "ntt2", "ntt2", Op)

Crt(m, dst, a, b) ==
    IF Has(m, a, "i16") /\ Has(m, b, "i16")
    THEN Put(m, dst, "i32", mq2mqpoly_CRT(m[a].val, m[b].val)) ELSE Spoil(m, dst, 4)

Apply(m, s) ==
    LET f == s[1]
        x == s[2]
        y == s[3]
    IN
    CASE f = "decode f"      -> Put(m, x, "small", key.f)
      [] f = "decode g"      -> Put(m, x, "small", key.g)
      [] f = "hash_to_point" -> Put(m, x, "ext", Hash[sig.nonce])
      [] f = "memcpy"        -> Memcpy(m, x, y)
      \* modulo q
      [] f = "small_to_int"   -> Conv(m, x, "small", y, "int", MQ!small_to_int)
      [] f = "F to int"       -> Put(m, x, "int", MQ!small_to_int(key.F))
      [] f = "ext_to_int"     -> Conv(m, x, "ext", x, "int", MQ!ext_to_int)
      [] f = "signed_to_int"  -> Conv(m, x, "i16", x, "int", MQ!signed_to_int)
      [] f = "int_to_signed"  -> Conv(m, x, "int", x, "i16", MQ!int_to_signed)
      [] f = "int_to_ntt"     -> Conv(m, x, "int", x, "ntt", MQ!int_to_ntt)
      [] f = "ntt_to_int"     -> Conv(m, x, "ntt", x, "int", MQ!ntt_to_int)
      [] f = "neg"            -> Conv(m, x, "ntt", x, "ntt", MQ!neg)
      [] f = "mul_ntt"        -> Comb(m, x, "ntt", y, "ntt", "ntt", MQ!mul_ntt)
      [] f = "sub"            -> Comb(m, x, "ntt", y, "ntt", "ntt", MQ!sub)
      [] f = "muladj_x2_ntt"  -> Comb(m, x, "ntt", y, "ntt", "ntt", MQ!muladj_x2_ntt)
      [] f = "inv_ntt"        -> Invert(m, x, y)
      [] f = "div_ntt"        -> Divide(m, x, y, s[4])
      [] f = "muladj_add_muladj" -> MuladjAddMuladj(m, x, y, s[4], s[5])
      \* modulo q'
      [] f = "small_to_mod2"  -> Conv(m, x, "small", y, "mod2", mq2poly_small_to_mod)
      [] f = "F to mod2"      -> Put(m, x, "mod2", mq2poly_small_to_mod(key.F))
      [] f = "signed_to_mod2" -> Conv(m, x, "i16", x, "mod2", mq2poly_signed_to_mod)
      [] f = "mod2_to_signed" -> Conv(m, x, "mod2", x, "i16", mq2poly_mod_to_signed)
      [] f = "NTT2"           -> Conv(m, x, "mod2", x, "ntt2", mq2poly_NTT)
      [] f = "iNTT2"          -> Conv(m, x, "ntt2", x, "mod2", mq2poly_iNTT)
      [] f = "divq2"          -> Conv(m, x, "mod2", x, "mod2",
                                      LAMBDA a : mq2poly_mulconst(a, MQ2_IQ))
      [] f = "mul_ntt2"       -> Comb(m, x, "ntt2", y, "ntt2", "ntt2", mq2poly_mul_ntt)
      [] f = "muladj_ntt2"    -> Comb(m, x, "ntt2", y, "ntt2", "ntt2", mq2poly_muladj_ntt)
      [] f = "muladj_x2_ntt2" -> Comb(m, x, "ntt2", y, "ntt2", "ntt2", mq2poly_muladj_x2_ntt)
      [] f = "add2"           -> Same(m, x, y, mq2poly_add)
      [] f = "sub2"           -> Same(m, x, y, mq2poly_sub)
      \* FFT
      [] f = "FFT_int16_selfadj"  -> Conv(m, y, "i16", x, "fsa", fpoly_FFT_int16_selfadj)
      [] f = "FFT_int32"          -> Conv(m, y, "i32", x, "fft", fpoly_FFT_int32)
      [] f = "invmul_selfadj_fft" -> Conv(m, x, "fsa", x, "fsa", fpoly_invmul_selfadj_fft)
      [] f = "mul_fft"            -> Comb(m, x, "fft", y, "fft", "fft", fpoly_mul_fft)
      [] f = "div_selfadj_fft"    -> Comb(m, x, "fft", y, "fsa", "fft", fpoly_div_selfadj_fft)
      [] f = "CRT"                -> Crt(m, x, y, s[4])

-----------------------------------------------------------------------------
(* The statements of the loop body.                                        *)

\* f*adj(f) + g*adj(g) modulo q' (tmp0) and modulo q (tmp2); f modulo q stays in tmp18.
GramBothModuli == <<
    <<"decode f", 4>>, <<"small_to_mod2", 4, 0>>, <<"NTT2", 0>>,
    <<"decode g", 5>>, <<"check norm", 4, 5>>, <<"small_to_mod2", 5, 2>>, <<"NTT2", 2>>,
    <<"muladj_x2_ntt2", 0, 2>>, <<"iNTT2", 0>>, <<"mod2_to_signed", 0>>,
    <<"small_to_int", 4, 18>>, <<"int_to_ntt", 18>>,
    <<"small_to_int", 5, 2>>, <<"int_to_ntt", 2>>,
    <<"muladj_x2_ntt", 2, 18>>, <<"ntt_to_int", 2>>, <<"int_to_signed", 2>>,
    <<"adjust_save", 0, 2>> >>

\* q^2/(f*adj(f) + g*adj(g)) (tmp8) and c*f mod q (tmp16).
FirstCentre == <<
    <<"FFT_int16_selfadj", 8, 0>>, <<"invmul_selfadj_fft", 8>>,
    <<"hash_to_point", 16>>, <<"ext_to_int", 16>>, <<"int_to_ntt", 16>>,
    <<"mul_ntt", 16, 18>>, <<"ntt_to_int", 16>>, <<"int_to_signed", 16>> >>

\* G, then F*adj(f) + G*adj(g) modulo q (tmp8), G*adj(g) modulo q' (tmp10) and
\* f*adj(f) + g*adj(g) modulo q' (tmp18).
RebuildG == <<
    <<"memcpy", 12, 18>>, <<"inv_ntt", 18, 10>>,
    <<"decode g", 10>>, <<"small_to_int", 10, 14>>, <<"int_to_ntt", 14>>,
    <<"F to int", 8>>, <<"int_to_ntt", 8>>,
    <<"memcpy", 10, 14>>, <<"mul_ntt", 10, 8>>, <<"mul_ntt", 10, 18>>,
    <<"muladj_add_muladj", 8, 12, 10, 14>>, <<"ntt_to_int", 8>>, <<"int_to_signed", 8>>,
    <<"ntt_to_int", 10>>, <<"int_to_signed", 10>>, <<"signed_to_mod2", 10>>, <<"NTT2", 10>>,
    <<"decode g", 18>>, <<"small_to_mod2", 18, 14>>, <<"NTT2", 14>>,
    <<"muladj_ntt2", 10, 14>>,
    <<"decode f", 18>>, <<"small_to_mod2", 18, 12>>, <<"NTT2", 12>>,
    <<"memcpy", 18, 12>>, <<"muladj_x2_ntt2", 18, 14>>, <<"iNTT2", 18>>,
    <<"mod2_to_signed", 18>>, <<"adjust", 18>> >>

\* t0 of the second sampling (tmp0), its Gram value (tmp8) and -c*F mod q (tmp18).
SecondCentre == <<
    <<"F to mod2", 14>>, <<"NTT2", 14>>, <<"muladj_ntt2", 14, 12>>, <<"add2", 10, 14>>,
    <<"iNTT2", 10>>, <<"mod2_to_signed", 10>>, <<"CRT", 12, 8, 10>>,
    <<"FFT_int32", 8, 12>>, <<"mul_fft", 0, 8>>,
    <<"FFT_int16_selfadj", 8, 18>>, <<"div_selfadj_fft", 0, 8>>,
    <<"hash_to_point", 12>>, <<"ext_to_int", 12>>, <<"int_to_ntt", 12>>,
    <<"F to int", 18>>, <<"int_to_ntt", 18>>, <<"neg", 18>>,
    <<"mul_ntt", 18, 12>>, <<"ntt_to_int", 18>>, <<"int_to_signed", 18>> >>

\* Mutant: f is decoded over z0 in tmp18.
BuildS1Clobber == <<
    <<"hash_to_point", 2>>, <<"ext_to_int", 2>>, <<"int_to_ntt", 2>>,
    <<"decode f", 18>>, <<"small_to_int", 18, 4>>, <<"int_to_ntt", 4>>,
    <<"F to int", 6>>, <<"int_to_ntt", 6>>,
    <<"memcpy", 8, 2>>, <<"mul_ntt", 8, 4>>, <<"ntt_to_int", 8>>, <<"int_to_signed", 8>>,
    <<"mul_ntt", 6, 2>>, <<"ntt_to_int", 6>>, <<"int_to_signed", 6>>,
    <<"signed_to_mod2", 6>>, <<"divq2", 6>>, <<"signed_to_mod2", 18>>, <<"add2", 6, 18>> >>

\* s1 = f*(z0 + (c*F mod q)/q) + F*(z1 - (c*f mod q)/q) modulo q' (tmp6).
BuildS1 == <<
    <<"hash_to_point", 2>>, <<"ext_to_int", 2>>, <<"int_to_ntt", 2>>,
    <<"decode f", 12>>, <<"small_to_int", 12, 4>>, <<"int_to_ntt", 4>>,
    <<"F to int", 6>>, <<"int_to_ntt", 6>>,
    <<"memcpy", 8, 2>>, <<"mul_ntt", 8, 4>>, <<"ntt_to_int", 8>>, <<"int_to_signed", 8>>,
    <<"mul_ntt", 6, 2>>, <<"ntt_to_int", 6>>, <<"int_to_signed", 6>>,
    <<"signed_to_mod2", 6>>, <<"divq2", 6>>, <<"signed_to_mod2", 18>>, <<"add2", 6, 18>>,
    <<"NTT2", 6>>,
    <<"signed_to_mod2", 8>>, <<"divq2", 8>>, <<"signed_to_mod2", 16>>, <<"sub2", 16, 8>>,
    <<"NTT2", 16>>,
    <<"small_to_mod2", 12, 0>>, <<"NTT2", 0>>, <<"F to mod2", 10>>, <<"NTT2", 10>>,
    <<"mul_ntt2", 6, 0>>, <<"mul_ntt2", 16, 10>>, <<"add2", 6, 16>>,
    <<"iNTT2", 6>>, <<"mod2_to_signed", 6>> >>

\* s0 = c - s1*h mod q (tmp2), with h = g/f.
BuildS0 == <<
    <<"decode g", 12>>, <<"small_to_int", 12, 0>>, <<"int_to_ntt", 0>>,
    <<"div_ntt", 0, 4, 12>>,
    <<"memcpy", 4, 6>>, <<"signed_to_int", 4>>, <<"int_to_ntt", 4>>,
    <<"mul_ntt", 4, 0>>, <<"sub", 2, 4>>, <<"ntt_to_int", 2>>, <<"int_to_signed", 2>> >>

-----------------------------------------------------------------------------
(* Actions.                                                                *)

Body == GramBothModuli \o FirstCentre \o <<<<"ffsamp", 16>>>>
            \o RebuildG \o SecondCentre \o <<<<"ffsamp", 18>>>>
            \o BuildS1 \o BuildS0

Special == {"check norm", "adjust_save", "adjust", "ffsamp"}

Coef == {0, 1}

mqpoly_sqnorm_small(a) == a[0] * a[0] + a[1] * a[1]

NoSig == [header |-> 0, nonce |-> 0, kind |-> "empty", body |-> <<>>]

Init ==
    /\ key \in Keys
    /\ counter = 0
    /\ pc = "attempt" /\ line = 1
    /\ mem = AllJunk
    /\ sig = NoSig
    /\ z = [t1 |-> <<>>, t0 |-> <<>>]
    /\ ret = 0

\* A new SHAKE context gives the nonce, written where it will be in the signature.  What
\* an earlier attempt left in the area counts as junk.
Attempt ==
    /\ pc = "attempt"
    /\ \/ /\ counter < MaxAttempts
          /\ \E nonce \in Nonces : sig' = [sig EXCEPT !.nonce = nonce]
          /\ mem' = AllJunk
          /\ pc' = "body" /\ line' = 1
       \/ /\ counter = MaxAttempts
          /\ pc' = "done"
          /\ UNCHANGED <<line, mem, sig>>
    /\ UNCHANGED <<key, counter, z, ret>>

\* The next statement of the body is s; then on to the one after it.
At(f) == pc = "body" /\ Body[line][1] = f
Advance ==
    /\ line' = line + 1
    /\ pc' = IF line = Len(Body) THEN "check" ELSE "body"

Statement ==
    /\ pc = "body" /\ Body[line][1] \notin Special
    /\ mem' = Apply(mem, Body[line])
    /\ Advance
    /\ UNCHANGED <<key, counter, sig, z, ret>>

\* A key with too large a norm ends the whole call.
CheckNorm ==
    /\ At("check norm")
    /\ Has(mem, 4, "small") /\ Has(mem, 5, "small")
    /\ IF mqpoly_sqnorm_small(mem[4].val) + mqpoly_sqnorm_small(mem[5].val) > MAX_NORM
       THEN pc' = "done" /\ UNCHANGED line
       ELSE Advance
    /\ UNCHANGED <<key, counter, mem, sig, z, ret>>

\* The adjustment bits go to sig + 41, where s2 will be.
AdjustSave ==
    /\ At("adjust_save")
    /\ Has(mem, 0, "i16") /\ Has(mem, 2, "i16")
    /\ LET r == mq2mqpoly_adjust_save(1, mem[0].val, mem[2].val)
       IN  /\ mem' = Put(mem, 0, "i16", r.val)
           /\ sig' = [sig EXCEPT !.kind = "adj", !.body = r.adj]
    /\ Advance
    /\ UNCHANGED <<key, counter, z, ret>>

Adjust ==
    /\ At("adjust")
    /\ Has(mem, 18, "i16") /\ sig.kind = "adj"
    /\ mem' = Put(mem, 18, "i16", mq2mqpoly_adjust(1, mem[18].val, sig.body))
    /\ Advance
    /\ UNCHANGED <<key, counter, sig, z, ret>>

\* The integers ffsamp_fft may put in dz for the centre (re + i*im)/den.
Samples(re, im, den) ==
    {[i \in Coef |-> IF i = 0 THEN re \div den + o0 ELSE im \div den + o1] : o0, o1 \in Offsets}

\* ffsamp_fft with FLAG_INIT0 on dz = tmp16: centre dz/q, a in tmp8.  It leaves t1 - z1 in
\* tmp0 and z1 in tmp16; the rest up to tmp16 was its scratch.
FfSamp1 ==
    /\ At("ffsamp") /\ Body[line][2] = 16
    /\ Has(mem, 8, "fsa") /\ Has(mem, 16, "i16")
    /\ LET dz == mem[16].val
       IN  \E z1 \in Samples(dz[0], dz[1], q) :
              /\ mem' = Put(Put(Spoil(mem, 8, 8), 0, "fft",
                                [re |-> dz[0] - q * z1[0], im |-> dz[1] - q * z1[1], den |-> q]),
                            16, "i16", z1)
              /\ z' = [z EXCEPT !.t1 = z1]
    /\ Advance
    /\ UNCHANGED <<key, counter, sig, ret>>

\* ffsamp_fft with FLAG_NOOUT on dz = tmp18: centre tmp0 + dz/q, a in tmp8.  It leaves z0 in
\* tmp18; everything up to tmp16 was its scratch.
FfSamp2 ==
    /\ At("ffsamp") /\ Body[line][2] = 18
    /\ Has(mem, 0, "fft") /\ Has(mem, 8, "fsa") /\ Has(mem, 18, "i16")
    /\ LET t == mem[0].val
           dz == mem[18].val
           scale == t.den \div q
       IN  \E z0 \in Samples(t.re + dz[0] * scale, t.im + dz[1] * scale, t.den) :
              /\ mem' = Put(Spoil(mem, 0, 16), 18, "i16", z0)
              /\ z' = [z EXCEPT !.t0 = z0]
    /\ Advance
    /\ UNCHANGED <<key, counter, sig, ret>>

\* Squared norm, saturated (-1 for 2^32-1) when a coefficient exceeds B_INF.
Saturated == -1
mqpoly_sqnorm_binf_signed(a) ==
    IF \E i \in Coef : a[i] > B_INF \/ a[i] < -B_INF THEN Saturated
                                                     ELSE mqpoly_sqnorm_small(a)

mqpoly_sqnorm_is_acceptable(sqn) == sqn # Saturated /\ sqn <= SQBETA

\* Mutant: the norm of s1 is not counted.
AcceptableS0Only(s0, s1) == mqpoly_sqnorm_is_acceptable(mqpoly_sqnorm_binf_signed(s0))

Acceptable(s0, s1) ==
    LET sqn0 == mqpoly_sqnorm_binf_signed(s0)
        sqn1 == mqpoly_sqnorm_binf_signed(s1)
    IN  mqpoly_sqnorm_is_acceptable(
            IF Saturated \in {sqn0, sqn1} THEN Saturated ELSE sqn0 + sqn1)

\* Mutant: a rejected vector does not count as an attempt.
CheckUncounted ==
    /\ pc = "check"
    /\ Has(mem, 2, "i16") /\ Has(mem, 6, "i16")
    /\ \/ /\ ~Acceptable(mem[2].val, mem[6].val)
          /\ pc' = "attempt"
          /\ UNCHANGED <<sig, ret>>
       \/ /\ Acceptable(mem[2].val, mem[6].val)
          /\ sig' = [sig EXCEPT !.header = 48 + LogN, !.kind = "s2", !.body = mem[6].val]
          /\ ret' = 41 + 2 * 2 ^ LogN
          /\ pc' = "done"
    /\ UNCHANGED <<key, counter, line, mem, z>>

\* Too long a vector: another attempt.  Otherwise s1 becomes the body of the signature.
Check ==
    /\ pc = "check"
    /\ Has(mem, 2, "i16") /\ Has(mem, 6, "i16")
    /\ \/ /\ ~Acceptable(mem[2].val, mem[6].val)
          /\ counter' = counter + 1
          /\ pc' = "attempt"
          /\ UNCHANGED <<sig, ret>>
       \/ /\ Acceptable(mem[2].val, mem[6].val)
          /\ sig' = [sig EXCEPT !.header = 48 + LogN, !.kind = "s2", !.body = mem[6].val]
          /\ ret' = 41 + 2 * 2 ^ LogN
          /\ pc' = "done"
          /\ UNCHANGED counter
    /\ UNCHANGED <<key, line, mem, z>>

Returned == pc = "done" /\ UNCHANGED vars

Next == Attempt \/ Statement \/ CheckNorm \/ AdjustSave \/ Adjust \/ FfSamp1 \/ FfSamp2
           \/ Check \/ Returned

Spec == Init /\ [][Next]_vars

-----------------------------------------------------------------------------
(* Reference definitions, in Z[X]/(X^2 + 1).                               *)

Const(k) == [i \in Coef |-> IF i = 0 THEN k ELSE 0]
Plus(x, y) == [i \in Coef |-> x[i] + y[i]]
Minus(x, y) == [i \in Coef |-> x[i] - y[i]]
Times(x, y) == [i \in Coef |-> IF i = 0 THEN x[0] * y[0] - x[1] * y[1]
                                        ELSE x[0] * y[1] + x[1] * y[0]]
Adj(x) == [i \in Coef |-> IF i = 0 THEN x[0] ELSE -x[1]]
Quo(x, k) == [i \in Coef |-> x[i] \div k]
Centred(x, p) == [i \in Coef |-> IF x[i] % p > p \div 2 THEN (x[i] % p) - p ELSE x[i] % p]

\* f*G - g*F = q determines G.
BigG(k) == Quo(Times(Plus(Const(q), Times(k.g, k.F)), Adj(k.f)), mqpoly_sqnorm_small(k.f))

\* The public key h = g/f mod q.
PublicKey == [k \in Keys |->
    LET inv == CHOOSE i \in 1..(q - 1) : (mqpoly_sqnorm_small(k.f) * i) % q = 1
        fi == Centred([i \in Coef |-> Centred(Adj(k.f), q)[i] * inv], q)
    IN  Centred(Times(k.g, fi), q)]

\* What keygen guarantees of a key: f*G - g*F = q, coefficients that fit (solve_NTRU's
\* limit of 127 on F and G, int8_t for f and g), and an f that is invertible modulo q.
ASSUME KeysAssumption ==
    \A k \in Keys :
        /\ k.f \in [Coef -> -127..127] /\ k.g \in [Coef -> -127..127]
        /\ k.F \in [Coef -> -127..127] /\ BigG(k) \in [Coef -> -127..127]
        /\ Minus(Times(k.f, BigG(k)), Times(k.g, k.F)) = Const(q)
        /\ mqpoly_sqnorm_small(k.f) % q # 0

Challenge == Hash[sig.nonce]
Gram == mqpoly_sqnorm_small(key.f) + mqpoly_sqnorm_small(key.g)
Cross == Plus(Times(key.F, Adj(key.f)), Times(BigG(key), Adj(key.g)))
cf == Times(Challenge, key.f)
cF == Times(Challenge, key.F)

\* Both calls of the sampler find in the shared area, each in the representation the
\* sampler reads it in, exactly the centre and the Gram value of ffSampling: c*f mod q and
\* q^2/(f*adj(f) + g*adj(g)) first; then -c*F mod q, (t1 - z1)*(F*adj(f) + G*adj(g)) /
\* (f*adj(f) + g*adj(g)) and f*adj(f) + g*adj(g), although that sum exceeds q'/2 and G is not
\* stored.
SamplerInputs ==
    /\ At("ffsamp") /\ Body[line][2] = 16 =>
          /\ Has(mem, 8, "fsa") /\ mem[8].val = [num |-> q * q, den |-> Gram]
          /\ Has(mem, 16, "i16") /\ mem[16].val = Centred(cf, q)
    /\ At("ffsamp") /\ Body[line][2] = 18 =>
          /\ Has(mem, 18, "i16") /\ mem[18].val = Centred(Minus(Const(0), cF), q)
          /\ Has(mem, 8, "fsa") /\ mem[8].val = [num |-> Gram, den |-> 1]
          /\ Has(mem, 0, "fft")
          /\ LET u == Minus(Centred(cf, q), [i \in Coef |-> q * z.t1[i]])
                 t == Times(u, Cross)
             IN  mem[0].val = [re |-> t[0], im |-> t[1], den |-> q * Gram]

\* The vector tested against the norm bound is (c,0) minus a lattice point: with
\* Z0 = z0 + r0 and Z1 = z1 + r1 undoing the two reductions modulo q, it is
\* (c - g*Z0 - G*Z1, f*Z0 + F*Z1), s1 modulo q' and s0 modulo q.
SignatureIsLatticeVector ==
    pc = "check" =>
        LET Z0 == Plus(z.t0, Quo(Minus(Centred(cF, q), cF), q))
            Z1 == Plus(z.t1, Quo(Minus(cf, Centred(cf, q)), q))
            s1 == Plus(Times(key.f, Z0), Times(key.F, Z1))
            s0 == Minus(Challenge, Plus(Times(key.g, Z0), Times(BigG(key), Z1)))
        IN  /\ Has(mem, 6, "i16") /\ mem[6].val = Centred(s1, q2)
            /\ Has(mem, 2, "i16")
            /\ mem[6].val = s1 => mem[2].val = Centred(s0, q)

\* A signature that leaves sign_core verifies: with the nonce in the buffer, c - s2*h mod q
\* and s2 are within the bounds; a return of 0 means an invalid key or that every attempt
\* was used up.
OutputVerifies ==
    pc = "done" =>
        \/ /\ ret # 0 /\ sig.kind = "s2" /\ sig.header = 49
           /\ LET s2 == sig.body
                  s0 == Centred(Minus(Challenge, Centred(Times(s2, PublicKey[key]), q)), q)
              IN  /\ \A i \in Coef : s2[i] \in -B_INF..B_INF /\ s0[i] \in -B_INF..B_INF
                  /\ mqpoly_sqnorm_small(s0) + mqpoly_sqnorm_small(s2) <= SQBETA
        \/ ret = 0 /\ (Gram > MAX_NORM \/ counter = MaxAttempts)

\* How far the call has come.
Progress ==
    counter * (Len(Body) + 3) +
        (CASE pc = "attempt" -> 0
           [] pc = "body"    -> line
           [] pc = "check"   -> Len(Body) + 1
           [] pc = "done"    -> Len(Body) + 2)

\* Whatever the key and the sampler, every step brings the call closer to its return: a
\* rejected vector uses up one of the MaxAttempts attempts.  (With no deadlock before
\* "done" this is termination.)
SignAdvances == [][Progress' > Progress /\ counter' <= MaxAttempts]_vars

=============================================================================
