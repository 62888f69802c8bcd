-------------------------------- MODULE Codec --------------------------------
(***************************************************************************)
(* fndsa_codec.c: the encodings of private polynomials (trim_i8), public   *)
(* polynomials (mqpoly) and signatures (comp).  Strings of bytes are       *)
(* sequences of numbers.  The compressed format is stated for bytes of BB  *)
(* bits, the sign and BB-1 low bits of a coefficient filling one byte as   *)
(* the code's 1 + 7 bits do; the other two have their own widths.          *)
(* A decoder returns [ok, s].                                              *)
(***************************************************************************)
EXTENDS Integers, Sequences, Once

CONSTANTS
    BB,      \* bits in a byte of the compressed format, 8 in the code
    B_INF    \* bound on a coefficient's absolute value, 840 in the code

\* The high part of a coefficient is at most 6 zeros and a one in the code:
\* fewer bits than a byte.
ASSUME CompAssumption == BB \in 2..8 /\ B_INF \in 1..(2 ^ (BB - 1) * (BB - 1) - 1)

Bad == [ok |-> FALSE, s |-> <<>>]
Abs(x) == IF x < 0 THEN -x ELSE x

-----------------------------------------------------------------------------
\* Bit p of a stream of bytes, least significant bit first.
BitLE(d, p) == (d[(p \div 8) + 1] \div 2 ^ (p % 8)) % 2
\* The number whose bits 0..len-1 are bit(0)..bit(len-1); two's complement.
Unsigned(bit(_), len) ==
    LET v[k \in 0..len] == IF k = 0 THEN 0 ELSE v[k - 1] + bit(k - 1) * 2 ^ (k - 1)
    IN  v[len]
Signed(bit(_), len) == Unsigned(bit, len - 1) - bit(len - 1) * 2 ^ (len - 1)

\* Coefficient i occupies bits i*nbits... of the output; an incomplete byte is
\* not written.
trim_i8_encode(f, nbits) ==
    LET stream(p) == ((f[(p \div nbits) + 1] % 2 ^ nbits) \div 2 ^ (p % nbits)) % 2
    IN  [j \in 1..((Len(f) * nbits) \div 8) |-> Unsigned(LAMBDA k : stream(8 * (j - 1) + k), 8)]

\* 32-bit words as sets of bits, for the two unrolled decoders.
Word(d, j, bytes) == {b \in 0..(8 * bytes - 1) : BitLE(d, 8 * j + b) = 1}
Shl(x, k) == {b + k : b \in {c \in x : c + k < 32}}
Shr(x, k) == {b - k : b \in {c \in x : c >= k}}
\* (int32_t)y >> k
Asr(y, k) == Signed(LAMBDA b : IF b + k \in y THEN 1 ELSE 0, 32 - k)

\* Eight coefficients from the six bytes at j.
Unrolled6(d, j) ==
    LET x0 == Word(d, j, 4)
        x1 == Word(d, j + 4, 2)
        y == << Shl(x0, 26), Shl(x0, 20), Shl(x0, 14), Shl(x0, 8), Shl(x0, 2),
                Shl(x1, 28) \cup Shr(x0, 4), Shl(x1, 22), Shl(x1, 16) >>
    IN  [k \in 1..8 |-> Asr(y[k], 26)]
\* Mutant: the coefficient that straddles the two words loses the second one's bits.
Unrolled5NoCarry(d, j) ==
    LET x0 == Word(d, j, 4)
        x1 == Word(d, j + 4, 1)
        y == << Shl(x0, 27), Shl(x0, 22), Shl(x0, 17), Shl(x0, 12), Shl(x0, 7), Shl(x0, 2),
                Shr(x0, 3), Shl(x1, 24) >>
    IN  [k \in 1..8 |-> Asr(y[k], 27)]
\* Eight coefficients from the five bytes at j.
Unrolled5(d, j) ==
    LET x0 == Word(d, j, 4)
        x1 == Word(d, j + 4, 1)
        y == << Shl(x0, 27), Shl(x0, 22), Shl(x0, 17), Shl(x0, 12), Shl(x0, 7), Shl(x0, 2),
                Shl(x1, 29) \cup Shr(x0, 3), Shl(x1, 24) >>
    IN  [k \in 1..8 |-> Asr(y[k], 27)]
\* The loop for the other widths: as many coefficients as the bytes complete.
TrimLoop(d, needed, nbits) ==
    [i \in 1..((8 * needed) \div nbits) |-> Signed(LAMBDA k : BitLE(d, nbits * (i - 1) + k), nbits)]

trim_i8_decode(logn, d, nbits) ==
    LET n == 2 ^ logn
        needed == (n * nbits) \div 8
    IN  IF logn >= 3 /\ nbits = 6
        THEN [i \in 1..n |-> Unrolled6(d, 6 * ((i - 1) \div 8))[((i - 1) % 8) + 1]]
        ELSE IF logn >= 3 /\ nbits = 5
        THEN [i \in 1..n |-> Unrolled5(d, 5 * ((i - 1) \div 8))[((i - 1) % 8) + 1]]
        ELSE TrimLoop(d, needed, nbits)

-----------------------------------------------------------------------------
\* Four coefficients of 14 bits in seven bytes.
EncodeFour(h) ==
    << h[1] % 256,
       ((h[1] \div 256) + 64 * h[2]) % 256,
       (h[2] \div 4) % 256,
       ((h[2] \div 1024) + 16 * h[3]) % 256,
       (h[3] \div 16) % 256,
       ((h[3] \div 4096) + 4 * h[4]) % 256,
       h[4] \div 64 >>
mqpoly_encode(h) ==
    [j \in 1..(7 * (Len(h) \div 4)) |->
        LET g == (j - 1) \div 7 IN EncodeFour(SubSeq(h, 4 * g + 1, 4 * g + 4))[((j - 1) % 7) + 1]]

DecodeFour(d) ==
    << (d[1] + 256 * d[2]) % 16384,
       ((d[2] \div 64) + 4 * d[3] + 1024 * d[4]) % 16384,
       ((d[4] \div 16) + 16 * d[5] + 4096 * d[6]) % 16384,
       (d[6] \div 4) + 64 * d[7] >>
\* ov keeps its upper bits when every h - 12289 is negative.
mqpoly_decode(n, d) ==
    LET h == [i \in 1..n |-> LET g == (i - 1) \div 4
                             IN  DecodeFour(SubSeq(d, 7 * g + 1, 7 * g + 7))[((i - 1) % 4) + 1]]
    IN  IF \A i \in 1..n : h[i] < 12289 THEN [ok |-> TRUE, s |-> h] ELSE Bad

-----------------------------------------------------------------------------
LowBits == BB - 1

\* Move the full bytes of the accumulator to the output.
Flush(st, dlen) ==
    LET full == st.acc_len \div BB
    IN  IF Len(st.d) + full > dlen THEN [st EXCEPT !.ok = FALSE]
        ELSE [ok |-> TRUE,
              d |-> st.d \o [k \in 1..full |-> (st.acc \div 2 ^ (BB * (k - 1))) % 2 ^ BB],
              acc |-> st.acc \div 2 ^ (BB * full),
              acc_len |-> st.acc_len % BB]

\* Append coefficient x: sign, low bits, then the high part in unary.
CompAppend(st, x, dlen) ==
    LET w == Abs(x)
        sw == IF x < 0 THEN 1 ELSE 0
        wh == w \div 2 ^ LowBits
    IN  IF ~st.ok \/ w > B_INF THEN [st EXCEPT !.ok = FALSE]
        ELSE Flush([st EXCEPT
                 !.acc = @ + (sw + 2 * (w % 2 ^ LowBits)) * 2 ^ st.acc_len
                           + 2 ^ (st.acc_len + BB + wh),
                 !.acc_len = @ + BB + wh + 1], dlen)

comp_encode(s, dlen) ==
    LET st[i \in 0..Len(s)] ==
            IF i = 0 THEN [ok |-> TRUE, d |-> <<>>, acc |-> 0, acc_len |-> 0]
            ELSE With(st[i - 1], LAMBDA t : CompAppend(t, s[i], dlen))
    IN  With(st[Len(s)], LAMBDA t :
            IF ~t.ok \/ (t.acc_len > 0 /\ Len(t.d) >= dlen) THEN Bad
            ELSE LET d == IF t.acc_len > 0 THEN Append(t.d, t.acc % 2 ^ BB) ELSE t.d
                 IN  [ok |-> TRUE, s |-> [j \in 1..dlen |-> IF j <= Len(d) THEN d[j] ELSE 0]])

ctz32_nonzero(acc) == CHOOSE z \in 0..(2 * BB) : acc % 2 ^ (z + 1) = 2 ^ z

\* Mutant: minus zero is accepted.
TakeNoZeroTest(st, t, m0) ==
    LET tz == ctz32_nonzero(st.acc)
        m == m0 + tz * 2 ^ LowBits
    IN  IF m > B_INF THEN [st EXCEPT !.ok = FALSE]
        ELSE [st EXCEPT !.acc = @ \div 2 ^ (tz + 1), !.acc_len = @ - (tz + 1),
                        !.s = Append(@, IF t = 1 THEN -m ELSE m)]
\* The unary part, once the accumulator is not zero, and the coefficient.
Take(st, t, m0) ==
    LET tz == ctz32_nonzero(st.acc)
        m == m0 + tz * 2 ^ LowBits
    IN  IF m > B_INF \/ (m = 0 /\ t # 0) THEN [st EXCEPT !.ok = FALSE]
        ELSE [st EXCEPT !.acc = @ \div 2 ^ (tz + 1), !.acc_len = @ - (tz + 1),
                        !.s = Append(@, IF t = 1 THEN -m ELSE m)]
\* One coefficient; j bytes have been read.
CompNext(st, d) ==
    IF ~st.ok \/ st.j >= Len(d) THEN [st EXCEPT !.ok = FALSE]
    ELSE LET acc1 == st.acc + d[st.j + 1] * 2 ^ st.acc_len
             t == acc1 % 2
             m == (acc1 \div 2) % 2 ^ LowBits
             acc2 == acc1 \div 2 ^ BB
         IN  IF acc2 # 0 THEN Take([st EXCEPT !.acc = acc2, !.j = @ + 1], t, m)
             ELSE IF st.j + 1 >= Len(d) \/ d[st.j + 2] = 0 THEN [st EXCEPT !.ok = FALSE]
             ELSE Take([st EXCEPT !.acc = d[st.j + 2] * 2 ^ st.acc_len, !.acc_len = @ + BB,
                                  !.j = @ + 2], t, m)
comp_decode(n, d) ==
    LET st[i \in 0..n] ==
            IF i = 0 THEN [ok |-> TRUE, s |-> <<>>, acc |-> 0, acc_len |-> 0, j |-> 0]
            ELSE With(st[i - 1], LAMBDA t : CompNext(t, d))
    IN  With(st[n], LAMBDA t :
            IF t.ok /\ t.acc = 0 /\ \A j \in (t.j + 1)..Len(d) : d[j] = 0
            THEN [ok |-> TRUE, s |-> t.s] ELSE Bad)
=============================================================================
