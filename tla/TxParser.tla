------------------------------ MODULE TxParser ------------------------------
(***************************************************************************)
(* The transaction format of src/transaction: parsing, serialising and the  *)
(* checks on the memo.  A raw transaction is a sequence of bytes; the field *)
(* sizes are parameters, so that TLC can use the real ones or short ones.   *)
(***************************************************************************)
EXTENDS Integers, Sequences

CONSTANTS NonceLen, ValueLen,   \* sizeof(uint64_t) in the code
          ADDRESS_LEN, TOKEN_ADDRESS_LEN, MAX_TX_LEN, MAX_MEMO_LEN

ASSUME SizesAssumption ==
  /\ NonceLen \in Nat /\ ValueLen \in Nat
  /\ ADDRESS_LEN \in Nat /\ TOKEN_ADDRESS_LEN \in Nat \ {0}
  /\ MAX_TX_LEN \in Nat /\ MAX_MEMO_LEN \in Nat

Byte == 0..255

\* n bytes of raw from offset off, as buffer_t hands them out.
Slice(raw, off, n) == SubSeq(raw, off + 1, off + n)

\* buffer_read_u64(..., BE) and the little-endian numbers of a varint.
BigEndian(b) ==
  LET v[i \in 0..Len(b)] == IF i = 0 THEN 0 ELSE 256 * v[i - 1] + b[i]
  IN  v[Len(b)]

LittleEndian(b) ==
  LET v[i \in 0..Len(b)] == IF i = 0 THEN 0 ELSE 256 * v[i - 1] + b[Len(b) + 1 - i]
  IN  v[Len(b)]

(***************************************************************************)
(* varint_read of the SDK behind buffer_read_varint: one byte below 0xFD,   *)
(* or a prefix and 2, 4 or 8 bytes.  A read past the end consumes nothing   *)
(* and leaves the value 0.                                                  *)
(***************************************************************************)
VarintExtra(p) == CASE p < 253 -> 0 [] p = 253 -> 2 [] p = 254 -> 4 [] OTHER -> 8

buffer_read_varint(raw, off) ==
  LET avail == Len(raw) - off
      extra == VarintExtra(raw[off + 1])
  IN  IF avail < 1 \/ avail < 1 + extra
      THEN [ok |-> FALSE, size |-> 0, value |-> 0]
      ELSE [ok |-> TRUE, size |-> 1 + extra,
            value |-> IF extra = 0 THEN raw[off + 1]
                      ELSE LittleEndian(Slice(raw, off + 1, extra))]

\* The shortest encoding, for the lengths a transaction can have.
varint_write(n) == IF n < 253 THEN <<n>> ELSE <<253, n % 256, n \div 256>>

transaction_utils_check_encoding(memo) == \A i \in 1..Len(memo) : memo[i] <= 127

\* Copies the memo into a buffer of dst_len bytes, with a final NUL.
transaction_utils_format_memo(memo, dst_len) ==
  ~(Len(memo) > MAX_MEMO_LEN \/ dst_len < Len(memo) + 1)

(***************************************************************************)
(* Mutant: bytes after the memo are ignored.                                *)
(***************************************************************************)
DeserializePrefix(raw, is_token) ==
  LET tokenOff == NonceLen + ADDRESS_LEN
      valueOff == tokenOff + (IF is_token THEN TOKEN_ADDRESS_LEN ELSE 0)
      lenOff   == valueOff + ValueLen
      len      == buffer_read_varint(raw, lenOff)
      memoOff  == lenOff + len.size
  IN  IF Len(raw) > MAX_TX_LEN \/ Len(raw) < lenOff \/ Len(raw) < memoOff + len.value
         \/ ~transaction_utils_check_encoding(Slice(raw, memoOff, len.value))
      THEN [status |-> "WRONG_LENGTH_ERROR"]
      ELSE [status |-> "PARSING_OK",
            nonce |-> BigEndian(Slice(raw, 0, NonceLen)),
            to |-> Slice(raw, NonceLen, ADDRESS_LEN),
            token_address |-> IF is_token THEN Slice(raw, tokenOff, TOKEN_ADDRESS_LEN) ELSE <<>>,
            value |-> BigEndian(Slice(raw, valueOff, ValueLen)),
            fee |-> 0,
            memo |-> Slice(raw, memoOff, len.value)]

(***************************************************************************)
(* transaction_deserialize: the offset moves over nonce, to, token address, *)
(* value, memo length and memo.  The result is a status and, when it is     *)
(* PARSING_OK, the transaction; the fields set before an error are never    *)
(* read.  The test of the memo length is the code's own conjunction.        *)
(***************************************************************************)
transaction_deserialize(raw, is_token) ==
  LET toOff    == NonceLen
      tokenOff == toOff + ADDRESS_LEN
      valueOff == tokenOff + (IF is_token THEN TOKEN_ADDRESS_LEN ELSE 0)
      lenOff   == valueOff + ValueLen
      size     == Len(raw)
      len      == buffer_read_varint(raw, lenOff)
      memoOff  == lenOff + len.size
      Fail(s)  == [status |-> s]
  IN  IF size > MAX_TX_LEN THEN Fail("WRONG_LENGTH_ERROR")
      ELSE IF size < toOff THEN Fail("NONCE_PARSING_ERROR")
      ELSE IF size < tokenOff THEN Fail("TO_PARSING_ERROR")
      ELSE IF size < valueOff THEN Fail("TOKEN_ADDRESS_PARSING_ERROR")
      ELSE IF size < lenOff THEN Fail("VALUE_PARSING_ERROR")
      ELSE IF ~len.ok /\ len.value > MAX_MEMO_LEN THEN Fail("MEMO_LENGTH_ERROR")
      ELSE IF size < memoOff + len.value THEN Fail("MEMO_PARSING_ERROR")
      ELSE IF ~transaction_utils_check_encoding(Slice(raw, memoOff, len.value))
           THEN Fail("MEMO_ENCODING_ERROR")
      ELSE IF memoOff + len.value # size THEN Fail("WRONG_LENGTH_ERROR")
      ELSE [status |-> "PARSING_OK",
            nonce |-> BigEndian(Slice(raw, 0, NonceLen)),
            to |-> Slice(raw, toOff, ADDRESS_LEN),
            token_address |-> IF is_token THEN Slice(raw, tokenOff, TOKEN_ADDRESS_LEN) ELSE <<>>,
            value |-> BigEndian(Slice(raw, valueOff, ValueLen)),
            fee |-> 0,
            memo |-> Slice(raw, memoOff, len.value)]

\* Big-endian bytes of a number, write_u64_be: rest[i] is the number shifted right by i bytes.
ToBytes(v, n) ==
  LET rest[i \in 0..n] == IF i = 0 THEN v ELSE rest[i - 1] \div 256
  IN  [i \in 1..n |-> rest[n - i] % 256]

\* transaction_serialize: -1 (here <<>>) when the result does not fit.
transaction_serialize(tx, out_len) ==
  LET out == ToBytes(tx.nonce, NonceLen) \o tx.to \o ToBytes(tx.value, ValueLen)
             \o varint_write(Len(tx.memo)) \o tx.memo
  IN  IF Len(out) > out_len THEN <<>> ELSE out

\* The memo length is written in the raw transaction, and in its shortest form.
HasShortLength(raw, is_token) ==
  LET off == NonceLen + ADDRESS_LEN + ValueLen
             + (IF is_token THEN TOKEN_ADDRESS_LEN ELSE 0)
      len == buffer_read_varint(raw, off)
  IN  len.ok /\ len.size = Len(varint_write(len.value))

=============================================================================
