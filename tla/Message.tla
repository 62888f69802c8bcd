------------------------------- MODULE Message -------------------------------
(***************************************************************************)
(* What is hashed before a signature: the message representative mu        *)
(* (fndsa_util.c) and the hedged signing seed (fndsa_sign.c), and the      *)
(* checks of sign_wrapper() around them.  SHAKE256 is a symbol: its output *)
(* is one token that carries its whole input.  A byte is <<"b", value>>.   *)
(* Then hash-to-point, on the 16-bit samples taken from SHAKE256:          *)
(* hash_to_point() of fndsa_util.c, which reads whole blocks, and          *)
(* hash_to_point_vartime() and hash_to_point_ct() of the first             *)
(* implementation's common.c.  samples[k] is sample k, from 1.             *)
(***************************************************************************)
EXTENDS Integers, Sequences, Once

CONSTANTS
    CtxMax,   \* longest context, 255 in the code
    OidMax,   \* longest object identifier, 127 in the code
    Block,    \* bytes extracted at a time by hash_to_point(), 136 in the code
    Over      \* oversampling of hash_to_point_ct(), overtab[logn] in the code

ASSUME CtxAssumption == CtxMax \in Nat \ {0}
ASSUME HashAssumption == Block \in Nat \ {0} /\ Block % 2 = 0 /\ Over \in 0..1023

B(x) == <<"b", x>>
BytesOf(s) == [i \in DOMAIN s |-> B(s[i])]
Shake256(input) == << <<"H", input>> >>

\* An identifier is "null", or the sequence of its bytes up to the end of the
\* object identifier; the raw one is <<0>>.
RawId == <<0>>
ExternalMu == <<254>>

hashed_vrfykey_from_vrfykey(vrfy_key) == Shake256(BytesOf(vrfy_key))

\* The bytes injected for mu, or "no" when the parameters are refused.  A context
\* is [null, s, len]; hashed_vkey is NULL when empty.
CtxRefused(ctx) == (ctx.null /\ ctx.len # 0) \/ ctx.len > CtxMax
\* Mutant: the length of the context is not injected.
MuNoLength(hashed_vkey, ctx, id, hv) ==
    IF hashed_vkey = <<>> \/ CtxRefused(ctx) THEN <<>>
    ELSE CASE id[1] = 0 -> hashed_vkey \o BytesOf(<<0>> \o ctx.s \o hv)
           [] id[1] = 6 /\ id[2] <= OidMax -> hashed_vkey \o BytesOf(<<1>> \o ctx.s \o id \o hv)
           [] OTHER -> <<>>
MuInput(hashed_vkey, ctx, id, hv) ==
    IF hashed_vkey = <<>> \/ CtxRefused(ctx) THEN <<>>
    ELSE CASE id[1] = 0 -> hashed_vkey \o BytesOf(<<0, ctx.len>> \o ctx.s \o hv)
           [] id[1] = 6 /\ id[2] <= OidMax ->
                hashed_vkey \o BytesOf(<<1, ctx.len>> \o ctx.s \o id \o hv)
           [] OTHER -> <<>>
compute_mu(hashed_vkey, ctx, id, hv) ==
    LET in == MuInput(hashed_vkey, ctx, id, hv) IN IF in = <<>> THEN <<>> ELSE Shake256(in)

\* The pieces given to the callback; a caller that streams a raw message adds hv.
compute_mu_start(hashed_vkey, ctx) ==
    IF CtxRefused(ctx) THEN <<>>
    ELSE <<hashed_vkey, <<B(0)>>, <<B(ctx.len)>> >>
         \o (IF ctx.len > 0 THEN <<BytesOf(ctx.s)>> ELSE <<>>)

-----------------------------------------------------------------------------
fg_nbits(logn) == IF logn <= 5 THEN 8 ELSE IF logn <= 7 THEN 7 ELSE IF logn <= 9 THEN 6 ELSE 5
FNDSA_SIGN_KEY_SIZE(logn) ==
    65 + (12 - (IF logn >= 6 THEN 1 ELSE 0) - (IF logn >= 8 THEN 1 ELSE 0)
             - (IF logn >= 10 THEN 1 ELSE 0)) * 2 ^ (logn - 2)
FNDSA_SIGNATURE_SIZE(logn) ==
    LET k(c) == c \div 2 ^ (10 - logn)
    IN  44 + 3 * k(256) + 2 * k(128) + 3 * k(64) + 2 * k(16) - 2 * k(2) - 8 * k(1)

\* The buffer first holds the hash of f and g, then the system's entropy when no
\* seed is given, then the result.  rng is what sysrng() writes, <<>> if it fails;
\* seed is [null, s].
make_seedbuf(fg, mu, seed, rng) ==
    LET inject == BytesOf(<<2026, 830>>) \o Shake256(BytesOf(fg)) \o mu
    IN  IF ~seed.null THEN Shake256(inject \o BytesOf(seed.s))
        ELSE IF rng = <<>> THEN <<>> ELSE Shake256(inject \o BytesOf(rng))

\* The seed of fndsa_falcon_sign_seeded_temp(): its own identifier, the raw key
\* and the message itself.
falcon_seedbuf(fg, msg, seed) ==
    Shake256(BytesOf(<<2026, 830>>) \o BytesOf(<<45>>) \o Shake256(BytesOf(fg)) \o BytesOf(msg)
             \o BytesOf(seed))

\* The size of the working area: the caller's, or that of the wrapper for logn.
\* Mutant: the smallest wrapper also serves degree 64.
StackShort(logn) == 20 * (IF logn \in 7..10 THEN 2 ^ logn ELSE 32) + 31
StackTmp(logn) == 20 * (IF logn \in 6..10 THEN 2 ^ logn ELSE 32) + 31

\* A request r of sign_wrapper(), with the tests up to sign_step1().  The result is
\* [ret |-> "no"], the size, or the mu, seed and working area of the signature.
sign_wrapper(r) ==
    LET mu == IF r.id = ExternalMu
              THEN (IF r.hvLen # 64 THEN <<>> ELSE BytesOf(r.hv))
              ELSE compute_mu(IF r.keyLen < 65 THEN <<>> ELSE Shake256(BytesOf(r.vkey)),
                              r.ctx, IF r.id = <<>> THEN RawId ELSE r.id, r.hv)
        area == IF r.tmpNull THEN StackTmp(r.logn) ELSE r.tmpLen
        no == [ret |-> "no"]
    IN  IF r.keyLen = 0 \/ r.head # 80 THEN no
        ELSE IF r.logn \notin (IF r.weak THEN 2..8 ELSE 9..10) THEN no
        ELSE IF r.keyLen # FNDSA_SIGN_KEY_SIZE(r.logn) THEN no
        ELSE IF r.sigNull THEN [ret |-> "size", size |-> FNDSA_SIGNATURE_SIZE(r.logn)]
        ELSE IF r.sigLen < FNDSA_SIGNATURE_SIZE(r.logn) \/ mu = <<>> THEN no
        ELSE IF ~r.tmpNull /\ r.tmpLen < 20 * 2 ^ r.logn + 31 THEN no
        ELSE LET seedbuf == make_seedbuf(r.fg, mu, r.seed, r.rng)
             IN  IF seedbuf = <<>> THEN no
                 ELSE [ret |-> "sign", mu |-> mu, seed |-> seedbuf, area |-> area]

\* sign_step1() aligns the area at address addr to 32 bytes: what is left of it.
Aligned(addr, area) == area - ((32 - (addr % 32)) % 32)

\* fndsa_sign() and its seven variants: weak degrees or not, a seed given or not,
\* a working area given or not.
EntryPoints == [weak : BOOLEAN, seeded : BOOLEAN, temp : BOOLEAN]

-----------------------------------------------------------------------------
\* while (w >= 12289) w -= 12289
Reduce(w) == w % 12289

\* Bytes j, j+1 of the block extracted last; blocks counts the extractions.
HashStep(st, samples) ==
    LET b == IF st.j = Block THEN st.blocks + 1 ELSE st.blocks
        j == IF st.j = Block THEN 0 ELSE st.j
        w == samples[(b - 1) * (Block \div 2) + (j \div 2) + 1]
    IN  [blocks |-> b, j |-> j + 2, c |-> IF w < 61445 THEN Append(st.c, Reduce(w)) ELSE st.c]
HashStart == [blocks |-> 0, j |-> Block, c |-> <<>>]
HashIteration(st, n, samples) == IF Len(st.c) = n THEN st ELSE HashStep(st, samples)
hash_to_point(n, samples) ==
    LET st[k \in 0..Len(samples)] ==
            IF k = 0 THEN HashStart
            ELSE With(st[k - 1], LAMBDA t : HashIteration(t, n, samples))
    IN  st[Len(samples)].c

KeepSample(c, n, w) == IF Len(c) < n /\ w < 61445 THEN Append(c, Reduce(w)) ELSE c
hash_to_point_vartime(n, samples) ==
    LET c[k \in 0..Len(samples)] ==
            IF k = 0 THEN <<>>
            ELSE With(c[k - 1], LAMBDA x : KeepSample(x, n, samples[k]))
    IN  c[Len(samples)]

\* The branchless reduction: 24578 twice, 12289 once, all ones when refused.
ReduceCt(w) ==
    LET r1 == IF w >= 24578 THEN w - 24578 ELSE w
        r2 == IF r1 >= 24578 THEN r1 - 24578 ELSE r1
        r3 == IF r2 >= 12289 THEN r2 - 12289 ELSE r2
    IN  IF w >= 61445 THEN 65535 ELSE r3

\* Mutant: the jump is computed after v has been advanced.
SqueezeStepLate(st, u, p) ==
    LET sv == st.a[u]
        valid == sv < 32768
        v == IF valid THEN st.v + 1 ELSE st.v
        move == valid /\ u >= p /\ ((u - v) \div p) % 2 = 1
    IN  [v |-> v, a |-> IF move THEN [st.a EXCEPT ![u] = st.a[u - p], ![u - p] = sv] ELSE st.a]
\* Entry u of a pass by p slots: v is where its value must finally go.  x, tt1 and
\* tt2 are one array here.
SqueezeStep(st, u, p) ==
    LET sv == st.a[u]
        valid == sv < 32768
        move == valid /\ u >= p /\ ((u - st.v) \div p) % 2 = 1
    IN  [v |-> IF valid THEN st.v + 1 ELSE st.v,
         a |-> IF move THEN [st.a EXCEPT ![u] = st.a[u - p], ![u - p] = sv] ELSE st.a]
SqueezePass(a, m, p) ==
    LET st[u \in 0..m] == IF u = 0 THEN [v |-> 0, a |-> a]
                          ELSE With(st[u - 1], LAMBDA t : SqueezeStep(t, u - 1, p))
    IN  st[m].a
\* for (p = 1; p <= over; p <<= 1)
Passes == CHOOSE k \in 0..10 : 2 ^ k > Over /\ (k = 0 \/ 2 ^ (k - 1) <= Over)
Squeezed(m, samples) ==
    LET a[k \in 0..Passes] ==
            IF k = 0 THEN [u \in 0..(m - 1) |-> ReduceCt(samples[u + 1])]
            ELSE With(a[k - 1], LAMBDA x : SqueezePass(x, m, 2 ^ (k - 1)))
    IN  a[Passes]
hash_to_point_ct(n, samples) ==
    LET a == Squeezed(n + Over, samples) IN [i \in 1..n |-> a[i - 1]]
=============================================================================
