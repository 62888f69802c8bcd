------------------------------ MODULE CodecCheck ------------------------------
(***************************************************************************)
(* Jobs for the codecs, for hash-to-point and for the hashed inputs of a   *)
(* signature: one is picked, and the properties compare what the functions *)
(* of the other modules return for it.                                     *)
(***************************************************************************)
EXTENDS LegacyCodec, Message

CONSTANTS
    CompLen,   \* bytes of BB bits in a compressed signature of two coefficients
    CoefMax,   \* largest coefficient to compress, in absolute value
    HVals,     \* coefficients modulo q to encode, some of them out of range
    Bytes8,    \* bytes of strings given to the first implementation's decoders
    HashN,     \* coefficients hashed to
    MsgBytes   \* bytes of contexts and messages

ASSUME CompJobAssumption == CompLen \in Nat /\ CoefMax \in Nat
ASSUME HashNAssumption == HashN \in Nat

VARIABLE job

Seqs(S, len) == [1..len -> S]
UpTo(S, len) == UNION {Seqs(S, k) : k \in 0..len}

\* Sample k: a multiple of q plus k, the largest kept value, or the first refused one.
Sample(k, class) == CASE class = 0 -> 12289 * (k % 5) + k [] class = 1 -> 61444 [] OTHER -> 61445

\* Requests that differ in what is signed; two bytes stand for a message of 64.
Request(ctx, id, hv, seed) ==
    [weak |-> TRUE, head |-> 80, logn |-> 2, keyLen |-> FNDSA_SIGN_KEY_SIZE(2), vkey |-> <<1>>,
     fg |-> <<7>>, ctx |-> [null |-> FALSE, s |-> ctx, len |-> Len(ctx)], id |-> id, hv |-> hv,
     hvLen |-> IF Len(hv) = 2 THEN 64 ELSE Len(hv), seed |-> [null |-> FALSE, s |-> <<seed>>], rng |-> <<>>,
     sigNull |-> FALSE, sigLen |-> 1000, tmpNull |-> TRUE, tmpLen |-> 0]
Ids == {<<>>, <<6, 0>>, <<6, 1, 0>>, <<6, 1, 1>>, <<6, 2, 0, 1>>, <<7>>, ExternalMu}

Init == job = [kind |-> "idle"]

CompString == \E d \in Seqs(0..(2 ^ BB - 1), CompLen) : job' = [kind |-> "string", d |-> d]
CompVector == \E s \in Seqs(-CoefMax..CoefMax, 2) : job' = [kind |-> "vector", s |-> s]
TrimVector ==
    \E nbits \in 5..8 : \E f \in Seqs({-(2 ^ (nbits - 1)), -1, 2 ^ (nbits - 1) - 1}, 4),
                           g \in {-6, 0, 9} :
        job' = [kind |-> "trim", nbits |-> nbits, f |-> f \o <<g, f[2], g, f[1]>>]
PublicVector == \E h \in Seqs(HVals, 4) : job' = [kind |-> "public", h |-> h]
LegacyString == \E d \in Seqs(Bytes8, 4) : job' = [kind |-> "legacy", d |-> d]
Hash == \E p \in Seqs(0..2, HashN + Over) : job' = [kind |-> "hash", s |-> [k \in DOMAIN p |-> Sample(k, p[k])]]
\* Two requests that differ in at most the message, or in the context and the message.
SignTwo ==
    \E id1, id2 \in Ids, c1, c2 \in UpTo(MsgBytes, 1), h1, h2 \in UpTo(MsgBytes, 2), s \in 0..1 :
        job' = [kind |-> "sign", r1 |-> Request(c1, id1, h1, 0), r2 |-> Request(c2, id2, h2, s)]
\* A request to any entry point, with sizes at their bounds.
SignOne ==
    \E e \in EntryPoints, logn \in 1..11, dk \in -1..1, ds \in -1..0, dt \in -1..1, addr \in {0, 1, 31},
       null \in BOOLEAN, rng \in {<<>>, <<3>>} :
        job' = [kind |-> "entry", addr |-> addr,
                   r |-> [Request(<<>>, <<>>, <<1>>, 0) EXCEPT
                             !.weak = e.weak, !.logn = logn, !.sigNull = null,
                             !.keyLen = IF logn \in 2..10 THEN FNDSA_SIGN_KEY_SIZE(logn) + dk ELSE 0,
                             !.sigLen = IF logn \in 2..10 THEN FNDSA_SIGNATURE_SIZE(logn) + ds ELSE 0,
                             !.tmpNull = ~e.temp, !.tmpLen = 20 * 2 ^ logn + 31 + dt,
                             !.seed = [null |-> ~e.seeded, s |-> <<0>>], !.rng = rng]]

Pick ==
    /\ job.kind = "idle"
    /\ \/ CompString \/ CompVector \/ TrimVector \/ PublicVector \/ LegacyString
       \/ Hash \/ SignTwo \/ SignOne
Done == job.kind # "idle" /\ job' = [kind |-> "idle"]
Next == Pick \/ Done
Spec == Init /\ [][Next]_job

-----------------------------------------------------------------------------
BitsOf(s) == LET b[i \in 0..Len(s)] == IF i = 0 THEN 0 ELSE b[i - 1] + BB + 1 + (Abs(s[i]) \div 2 ^ LowBits)
             IN  b[Len(s)]
InBound(s) == \A i \in DOMAIN s : Abs(s[i]) <= B_INF

\* comp_decode() and comp_encode() are inverse of each other: a string is accepted
\* only if it is the encoding of the vector it gives, so a signature has one
\* encoding (no minus zero, no bits after the last coefficient, no other padding),
\* and a vector is refused exactly when a coefficient is too large or the bits do
\* not fit in dlen bytes.
CompressedCanonical ==
    /\ job.kind = "string" =>
         \E r \in {comp_decode(2, job.d)} :
             r.ok => InBound(r.s) /\ comp_encode(r.s, CompLen) = [ok |-> TRUE, s |-> job.d]
    /\ job.kind = "vector" =>
         \A dlen \in 1..(CompLen + 1) :
             \E e \in {comp_encode(job.s, dlen)} :
                 /\ e.ok <=> InBound(job.s) /\ BitsOf(job.s) <= BB * dlen
                 /\ e.ok => comp_decode(2, e.s) = [ok |-> TRUE, s |-> job.s]

\* trim_i8_decode() returns what trim_i8_encode() was given, the unrolled decoders
\* doing what the loop does; mqpoly_decode() returns what mqpoly_encode() was given
\* and refuses it exactly when a coefficient is not below q.  In the first
\* implementation, fixed-width strings are accepted only as the encoding of what they
\* give; compressed ones need not be (minus zero and bits after the last coefficient
\* pass), but what they give encodes in as many bytes as were used, and encoding then
\* decoding is the identity.
KeyCodecsInverse ==
    /\ job.kind = "trim" =>
         \E d \in {trim_i8_encode(job.f, job.nbits)} :
             /\ trim_i8_decode(3, d, job.nbits) = job.f
             /\ TrimLoop(d, job.nbits, job.nbits) = job.f
    /\ job.kind = "public" =>
         \E r \in {mqpoly_decode(4, mqpoly_encode(job.h))} :
             /\ r.ok <=> \A i \in 1..4 : job.h[i] < 12289
             /\ r.ok => r.s = job.h
    /\ job.kind = "legacy" =>
         /\ \E r \in {modq_decode(2, job.d)} : r.ok => modq_encode(4, r.s) = [ok |-> TRUE, s |-> job.d]
         /\ \E r \in {legacy_trim_i8_decode(4, 7, job.d)} :
                r.ok => legacy_trim_i8_encode(4, r.s, 7) = [ok |-> TRUE, s |-> job.d]
         /\ \E r \in {trim_i16_decode(2, 13, job.d)} :
                r.ok => trim_i16_encode(4, r.s, 13) = [ok |-> TRUE, s |-> job.d]
    /\ job.kind = "public" =>
         \E e \in {modq_encode(7, job.h)} :
             /\ e.ok <=> \A i \in 1..4 : job.h[i] < 12289
             /\ e.ok => modq_decode(4, e.s) = [ok |-> TRUE, s |-> job.h, v |-> 7]
    /\ job.kind = "string" =>
         \E r \in {legacy_comp_decode(2, job.d)} :
             r.ok => \E e \in {legacy_comp_encode(r.v, r.s)} : e.ok /\ Len(e.s) = r.v
    /\ job.kind = "vector" =>
         \E e \in {legacy_comp_encode(2 * CompLen, job.s)} :
             e.ok => legacy_comp_decode(2, e.s) = [ok |-> TRUE, s |-> job.s, v |-> Len(e.s)]

\* The samples below 5*12289, in order.
Low(w) == w < 61445
KeepLow(c, w) == IF Low(w) THEN Append(c, w) ELSE c
Kept(s) == LET c[k \in 0..Len(s)] == IF k = 0 THEN <<>> ELSE KeepLow(c[k - 1], s[k]) IN c[Len(s)]

\* Whatever samples are refused, the three versions of hash-to-point return the
\* first kept samples modulo q, in order, as long as n of the n + Over are kept:
\* the constant-time one, which moves values down in passes of 1, 2, 4... slots,
\* never loses one.
HashWaysAgree ==
    job.kind = "hash" =>
        LET kept == Kept(job.s)
            ref == [i \in 1..HashN |-> kept[i] % 12289]
        IN  Len(kept) >= HashN =>
                /\ hash_to_point(HashN, job.s) = ref
                /\ hash_to_point_vartime(HashN, job.s) = ref
                /\ hash_to_point_ct(HashN, job.s) = ref

EffectiveId(r) == IF r.id = <<>> THEN RawId ELSE r.id
\* Two requests share a representative mu only if they sign the same thing, and a
\* signing seed only if they also got the same entropy; streaming a raw message
\* through fndsa_compute_mu_start() hashes the same bytes as fndsa_compute_mu();
\* the Falcon entry point never derives the FN-DSA seed.
SignedInputsBound ==
    job.kind = "sign" =>
        \E x \in {sign_wrapper(job.r1)}, y \in {sign_wrapper(job.r2)} :
            LET r1 == job.r1
                r2 == job.r2
                vkey == Shake256(BytesOf(r1.vkey))
                pieces == compute_mu_start(vkey, r1.ctx)
                flat[k \in 0..Len(pieces)] == IF k = 0 THEN <<>> ELSE flat[k - 1] \o pieces[k]
            IN  /\ x.ret = "sign" /\ y.ret = "sign" =>
                     /\ x.mu = y.mu => /\ EffectiveId(r1) = EffectiveId(r2) /\ r1.hv = r2.hv
                                       /\ EffectiveId(r1) # ExternalMu => r1.ctx = r2.ctx
                     /\ x.seed = y.seed => x.mu = y.mu /\ r1.seed = r2.seed
                     /\ falcon_seedbuf(r1.fg, r1.hv, r1.seed.s) # x.seed
                /\ EffectiveId(r1) = RawId =>
                     flat[Len(pieces)] \o BytesOf(r1.hv) = MuInput(vkey, r1.ctx, RawId, r1.hv)

\* When a request reaches sign_core(), 20*n bytes are left of the working area
\* after it is aligned, given by the caller or on the stack, for every degree; and
\* the bytes hashed for hedging are exactly the f and g of a key of the right
\* length: header, f and g, F on 8 bits, hashed public key.
SigningRoom ==
    job.kind = "entry" =>
        \E x \in {sign_wrapper(job.r)} :
            LET n == 2 ^ job.r.logn
                hashed == fg_nbits(job.r.logn) * (n \div 4)
            IN  x.ret = "sign" =>
                    /\ Aligned(job.addr, x.area) >= 20 * n
                    /\ job.r.keyLen = 1 + hashed + n + 64
=============================================================================
