---------------------------- MODULE LegacyCodec ----------------------------
(***************************************************************************)
(* codec.c of the first implementation: the same kinds of values, packed   *)
(* with the most significant bit first.  Encoders return [ok, s] with the  *)
(* bytes in s, decoders [ok, s, v] with v the number of bytes used.  The   *)
(* accumulators hold at most 31 bits, so a decoder's position in the string*)
(* of bits stands for acc and acc_len.                                     *)
(***************************************************************************)
EXTENDS Codec

\* Bit p of a string of bytes of b bits.
BitBE(d, p, b) == (d[(p \div b) + 1] \div 2 ^ (b - 1 - (p % b))) % 2
Ceil(x, b) == (x + b - 1) \div b
\* Bits p..p+len-1 as a number.
FieldBE(d, p, len, b) == Unsigned(LAMBDA k : BitBE(d, p + len - 1 - k, b), len)
\* The bytes of the string of bits bit(0)..bit(len-1), padded with zeros.
PackBE(bit(_), len, b) ==
    [j \in 1..Ceil(len, b) |->
        Unsigned(LAMBDA k : LET p == b * (j - 1) + b - 1 - k IN IF p < len THEN bit(p) ELSE 0, b)]

LegacyBad == [ok |-> FALSE, s |-> <<>>, v |-> 0]

\* Coefficients of bits bits each, every one in range and the output large enough.
FixedEncode(x, bits, max_out_len, inRange(_)) ==
    IF (\E u \in DOMAIN x : ~inRange(x[u])) \/ Ceil(Len(x) * bits, 8) > max_out_len THEN Bad
    ELSE [ok |-> TRUE,
          s |-> PackBE(LAMBDA p : ((x[(p \div bits) + 1] % 2 ^ bits) \div 2 ^ (bits - 1 - (p % bits))) % 2,
                       Len(x) * bits, 8)]
\* The reverse; the unused bits of the last byte must be zero.
FixedDecode(n, bits, in, value(_), valid(_)) ==
    LET in_len == Ceil(n * bits, 8)
        x == [u \in 1..n |-> value(FieldBE(in, bits * (u - 1), bits, 8))]
    IN  IF in_len > Len(in) THEN LegacyBad
        ELSE IF (\A u \in 1..n : valid(x[u])) /\ (\A p \in (n * bits)..(8 * in_len - 1) : BitBE(in, p, 8) = 0)
        THEN [ok |-> TRUE, s |-> x, v |-> in_len] ELSE LegacyBad

modq_encode(max_out_len, x) == FixedEncode(x, 14, max_out_len, LAMBDA c : c < 12289)
modq_decode(n, in) == FixedDecode(n, 14, in, LAMBDA w : w, LAMBDA c : c < 12289)

TwosComplement(w, bits) == IF w >= 2 ^ (bits - 1) THEN w - 2 ^ bits ELSE w
\* Both trim formats refuse -2^(bits-1).
Trimmed(c, bits) == Abs(c) < 2 ^ (bits - 1)
trim_i16_encode(max_out_len, x, bits) == FixedEncode(x, bits, max_out_len, LAMBDA c : Trimmed(c, bits))
trim_i16_decode(n, bits, in) ==
    FixedDecode(n, bits, in, LAMBDA w : TwosComplement(w, bits), LAMBDA c : c # -(2 ^ (bits - 1)))
legacy_trim_i8_encode(max_out_len, x, bits) ==
    FixedEncode(x, bits, max_out_len, LAMBDA c : Trimmed(c, bits))
\* Mutant: the most negative value is accepted.
TrimDecodeNoTest(n, bits, in) ==
    FixedDecode(n, bits, in, LAMBDA w : TwosComplement(w, bits), LAMBDA c : TRUE)
legacy_trim_i8_decode(n, bits, in) ==
    FixedDecode(n, bits, in, LAMBDA w : TwosComplement(w, bits), LAMBDA c : c # -(2 ^ (bits - 1)))

-----------------------------------------------------------------------------
\* The compressed format, on bytes of BB bits; LegacyMax is 2047 in the code.
LegacyMax == 2 ^ (LowBits + 4) - 1

\* The bits of one coefficient.
CompBits(x) ==
    LET w == Abs(x)
    IN  <<IF x < 0 THEN 1 ELSE 0>>
        \o [k \in 1..LowBits |-> (w \div 2 ^ (LowBits - k)) % 2]
        \o [k \in 1..(w \div 2 ^ LowBits) |-> 0] \o <<1>>
legacy_comp_encode(max_out_len, x) ==
    LET bits[u \in 0..Len(x)] == IF u = 0 THEN <<>> ELSE bits[u - 1] \o CompBits(x[u])
    IN  IF \E u \in DOMAIN x : Abs(x[u]) > LegacyMax THEN Bad
        ELSE With(bits[Len(x)], LAMBDA all :
                IF Ceil(Len(all), BB) > max_out_len THEN Bad
                ELSE [ok |-> TRUE, s |-> PackBE(LAMBDA p : all[p + 1], Len(all), BB)])

\* One coefficient at bit position st.p.
LegacyCompNext(st, in) ==
    LET end == BB * Len(in)
        m0 == FieldBE(in, st.p + 1, LowBits, BB)
        ones == {q \in (st.p + BB)..(end - 1) : BitBE(in, q, BB) = 1}
        one == CHOOSE q \in ones : \A r \in ones : q <= r
        m == m0 + (one - st.p - BB) * 2 ^ LowBits
    IN  IF ~st.ok \/ st.p + BB > end \/ ones = {} THEN [st EXCEPT !.ok = FALSE]
        ELSE IF m > LegacyMax THEN [st EXCEPT !.ok = FALSE]
        ELSE [ok |-> TRUE, p |-> one + 1,
              s |-> Append(st.s, IF BitBE(in, st.p, BB) = 1 THEN -m ELSE m)]
legacy_comp_decode(n, in) ==
    LET st[u \in 0..n] == IF u = 0 THEN [ok |-> TRUE, s |-> <<>>, p |-> 0]
                          ELSE With(st[u - 1], LAMBDA t : LegacyCompNext(t, in))
    IN  With(st[n], LAMBDA t :
            IF t.ok THEN [ok |-> TRUE, s |-> t.s, v |-> Ceil(t.p, BB)] ELSE LegacyBad)

\* Widths by logn, from 1.
max_fg_bits == <<8, 8, 8, 8, 8, 7, 7, 6, 6, 5>>
max_FG_bits == <<8, 8, 8, 8, 8, 8, 8, 8, 8, 8>>
max_sig_bits == <<10, 11, 11, 12, 12, 12, 12, 12, 12, 12>>
=============================================================================
