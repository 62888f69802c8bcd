-------------------------------- MODULE Shake --------------------------------
(***************************************************************************)
(* The streaming SHAKE and SHA-3 contexts of fndsa_sha3.c.  A byte is the  *)
(* set of its bits that are 1; a string of bytes is a function on 0..len-1.*)
(* A context is [A, dptr, rate] as in the code.                            *)
(***************************************************************************)
EXTENDS Keccak, Sequences

Byte == SUBSET (0..7)

\* A[v >> 3] ^= byte << ((v & 7) << 3), for the clen bytes in[pos..] at v = dptr...
XorBytes(A, dptr, in, pos, clen) ==
    [i \in Lanes |->
        LET vs == {v \in dptr..(dptr + clen - 1) : v \div 8 = i}
        IN  IF vs = {} THEN A[i]
            ELSE XorL(A[i], UNION {{8 * (v % 8) + b : b \in in[pos + v - dptr]} : v \in vs})]
XorByte(A, v, byte) == XorBytes(A, v, [u \in {0} |-> byte], 0, 1)
StateByte(A, v) == {b \in 0..7 : 8 * (v % 8) + b \in A[v \div 8]}

Least(x, y) == IF x < y THEN x ELSE y

shake_init(size) == [A |-> [i \in Lanes |-> {}], dptr |-> 0, rate |-> 200 - (size \div 4)]

\* Mutant: a block that ends with the chunk is left for the next call.
InjectStepLate(s, in, len) ==
    LET clen == Least(s.rate - s.dptr, len - s.pos)
        A == XorBytes(s.A, s.dptr, in, s.pos, clen)
    IN  IF len = s.pos THEN s
        ELSE IF s.dptr + clen = s.rate /\ s.pos + clen < len
        THEN [s EXCEPT !.A = process_block(A), !.dptr = 0, !.pos = @ + clen]
        ELSE [s EXCEPT !.A = A, !.dptr = @ + clen, !.pos = @ + clen]

\* One iteration of shake_inject()'s loop, pos bytes of the input being consumed.
InjectStep(s, in, len) ==
    LET clen == Least(s.rate - s.dptr, len - s.pos)
        A == XorBytes(s.A, s.dptr, in, s.pos, clen)
    IN  IF len = s.pos THEN s
        ELSE IF s.dptr + clen = s.rate
        THEN [s EXCEPT !.A = process_block(A), !.dptr = 0, !.pos = @ + clen]
        ELSE [s EXCEPT !.A = A, !.dptr = @ + clen, !.pos = @ + clen]
shake_inject(sc, in, len) ==
    LET s[k \in 0..(len \div sc.rate + 2)] ==
            IF k = 0 THEN [A |-> sc.A, dptr |-> sc.dptr, rate |-> sc.rate, pos |-> 0]
            ELSE With(s[k - 1], LAMBDA p : InjectStep(p, in, len))
    IN  With(s[len \div sc.rate + 2], LAMBDA e : [A |-> e.A, dptr |-> e.dptr, rate |-> e.rate])

Pad(A, dptr, rate, first) == XorByte(XorByte(A, dptr, first), rate - 1, {7})

shake_flip(sc) ==
    [sc EXCEPT !.A = Pad(@, sc.dptr, sc.rate, {0, 1, 2, 3, 4}), !.dptr = sc.rate]

\* One iteration of shake_extract()'s loop; buf # NULL appends to out.
ExtractStep(s, len, null) ==
    IF len = 0 \/ s.left = 0 THEN s
    ELSE With(IF s.dptr = s.rate THEN [s EXCEPT !.A = process_block(@), !.dptr = 0] ELSE s,
              LAMBDA t :
                LET clen == Least(t.rate - t.dptr, t.left)
                    bytes == [u \in 1..clen |-> StateByte(t.A, t.dptr + u - 1)]
                IN  [t EXCEPT !.dptr = @ + clen, !.left = @ - clen,
                              !.out = IF null THEN @ ELSE @ \o bytes])
\* The context and the bytes written.
shake_extract(sc, len, null) ==
    LET s[k \in 0..(len \div sc.rate + 2)] ==
            IF k = 0 THEN [A |-> sc.A, dptr |-> sc.dptr, rate |-> sc.rate, left |-> len, out |-> <<>>]
            ELSE With(s[k - 1], LAMBDA p : ExtractStep(p, len, null))
    IN  With(s[len \div sc.rate + 2],
             LAMBDA e : [sc |-> [A |-> e.A, dptr |-> e.dptr, rate |-> e.rate], out |-> e.out])

sha3_init(size) == shake_init(size)
sha3_update(sc, in, len) == shake_inject(sc, in, len)
\* The reinitialized context and the digest.
sha3_close(sc) ==
    LET len == (200 - sc.rate) \div 2
    IN  With(process_block(Pad(sc.A, sc.dptr, sc.rate, {1, 2})),
             LAMBDA A : [sc |-> sha3_init(8 * len), out |-> [u \in 1..len |-> StateByte(A, u - 1)]])

-----------------------------------------------------------------------------
\* The sponge of FIPS 202 on the first len bytes of in, suffix being 0x1F or
\* 0x06: output byte p for p in from..(from + n - 1).
PaddedByte(in, len, suffix, rate, p) ==
    (IF p < len THEN in[p] ELSE IF p = len THEN suffix ELSE {})
    \cup (IF p = rate * (len \div rate + 1) - 1 THEN {7} ELSE {})
SpongeBlocks(in, len, suffix, rate) ==
    LET absorbed[k \in 0..(len \div rate + 1)] ==
            IF k = 0 THEN [i \in Lanes |-> {}]
            ELSE With(absorbed[k - 1], LAMBDA A : KeccakF([i \in Lanes |->
                     {b \in Bits : (b \in A[i]) #
                         (8 * i < rate /\ (b % 8) \in PaddedByte(in, len, suffix, rate,
                                                       rate * (k - 1) + 8 * i + (b \div 8)))}]))
    IN  absorbed[len \div rate + 1]
Squeezed(A, blocks) ==
    LET s[k \in 0..blocks] == IF k = 0 THEN A ELSE With(s[k - 1], KeccakF)
    IN  s[blocks]
Sponge(in, len, suffix, rate, from, n) ==
    With(SpongeBlocks(in, len, suffix, rate), LAMBDA A :
        With([k \in (from \div rate)..((from + n) \div rate) |-> Squeezed(A, k)], LAMBDA S :
            [u \in 1..n |-> LET p == from + u - 1 IN StateByte(S[p \div rate], p % rate)]))
=============================================================================
