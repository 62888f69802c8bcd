--------------------------- MODULE AppMain_proofs ---------------------------
(***************************************************************************)
(* Proofs about AppMain and TxParser for every set of chunks, paths, token *)
(* descriptors and exchange parameters, and for every field size.          *)
(***************************************************************************)
EXTENDS AppMain, Induction

(* The inductive invariant, part by part. *)

\* The fields of G_context.
ContextFields == {"state", "req_type", "path", "pk", "is_token_tx", "token_info", "raw_tx",
                  "transaction", "m_hash"}

\* A context has these fields; a request for an address holds no raw transaction and is
\* never parsed.
ContextOK(c) ==
  /\ DOMAIN c = ContextFields
  /\ c.is_token_tx \in BOOLEAN
  /\ c.state \in {"STATE_NONE", "STATE_PARSED", "STATE_APPROVED"}
  /\ c.req_type \in ReqTypes
  /\ c.raw_tx \in Seq(Byte) /\ Len(c.raw_tx) <= MAX_TX_LEN
  /\ c.pk # None => c.req_type = "CONFIRM_ADDRESS" /\ c.raw_tx = <<>>
  /\ c.state # "STATE_NONE" => c.req_type # "CONFIRM_ADDRESS"

\* A parsed transaction is what the hashed bytes say, read as the request's kind.
ParsedOK(c) ==
  c.state # "STATE_NONE" =>
    /\ c.req_type = ReqType(c.is_token_tx)
    /\ c.m_hash \in Seq(Byte)
    /\ c.transaction = transaction_deserialize(c.m_hash, c.is_token_tx)
    /\ c.transaction.status = "PARSING_OK"

\* While a transaction is on the screen its request is the parsed one, the page shows what
\* its bytes say, and no exchange is running.
ReviewPage ==
  screen.page = "review" =>
    /\ running = "device" /\ G_context.state = "STATE_PARSED"
    /\ [amount |-> screen.amount, to |-> screen.to, unit |-> screen.unit]
         = ViewOf(G_context.m_hash, G_context.is_token_tx)

\* A promise exists only inside an exchange.
PromiseInv == running # "swap" => G_swap_validated = None

\* s is a prefix of t.
PrefixOf(s, t) == Len(s) <= Len(t) /\ \A i \in 1..Len(s) : s[i] = t[i]

\* What was reviewed parses, and the request has only grown since.
ReviewedInv ==
  reviewed # <<>> =>
    /\ reviewed \in Seq(Byte)
    /\ G_context.req_type = ReqType(G_context.is_token_tx)
    /\ transaction_deserialize(reviewed, G_context.is_token_tx).status = "PARSING_OK"
    /\ PrefixOf(reviewed, G_context.raw_tx)

AppInv ==
  /\ running \in {"off", "device", "swap"} /\ pending \in BOOLEAN
  /\ ContextOK(G_context) /\ ParsedOK(G_context)
  /\ WaitingHasReview /\ ReviewPage /\ PromiseInv /\ ReviewedInv

-----------------------------------------------------------------------------
(* The parser. *)

\* A transaction that parses: the memo's length is read behind the fixed fields and the
\* memo reaches to the end.
LEMMA ParsedLength ==
  ASSUME NEW raw \in Seq(Byte), NEW is_token \in BOOLEAN,
         transaction_deserialize(raw, is_token).status = "PARSING_OK"
  PROVE  LET len == buffer_read_varint(raw, HeaderLen(is_token))
         IN  /\ Len(raw) >= HeaderLen(is_token) /\ Len(raw) <= MAX_TX_LEN
             /\ HeaderLen(is_token) + len.size + len.value = Len(raw)
             /\ transaction_deserialize(raw, is_token).fee = 0
  BY SizesAssumption DEF transaction_deserialize, HeaderLen

\* The memo length is determined by the bytes it is read from: a longer buffer with the
\* same beginning has the same one, where the shorter has any.
LEMMA VarintOfPrefix ==
  ASSUME NEW s \in Seq(Byte), NEW t \in Seq(Byte), PrefixOf(s, t), NEW off \in Nat,
         buffer_read_varint(s, off).ok
  PROVE  buffer_read_varint(t, off) = buffer_read_varint(s, off)
  <1> DEFINE extra == VarintExtra(s[off + 1])
  <1>1. extra \in {0, 2, 4, 8}
    BY DEF VarintExtra
  <1>2. Len(s) \in Nat /\ Len(t) \in Nat
    OBVIOUS
  <1>3. off + 1 + extra <= Len(s)
    BY <1>1, <1>2 DEF buffer_read_varint
  <1>4. t[off + 1] = s[off + 1]
    BY <1>1, <1>2, <1>3 DEF PrefixOf
  <1>5. Slice(t, off + 1, extra) = Slice(s, off + 1, extra)
    <2>1. \A i \in (off + 2)..(off + 1 + extra) : t[i] = s[i]
      BY <1>1, <1>2, <1>3 DEF PrefixOf
    <2> HIDE DEF extra
    <2> QED
      BY <1>1, <1>2, <1>3, <2>1 DEF Slice, PrefixOf
  <1>6. Len(t) - off >= 1 + extra /\ Len(s) - off >= 1 + extra
    BY <1>1, <1>2, <1>3 DEF PrefixOf
  <1>7. /\ ~(Len(t) - off < 1 \/ Len(t) - off < 1 + extra)
        /\ ~(Len(s) - off < 1 \/ Len(s) - off < 1 + extra)
    <2> HIDE DEF extra
    <2> QED
      BY <1>1, <1>2, <1>6
  <1> QED
    BY <1>4, <1>5, <1>7 DEF buffer_read_varint

\* A memo length that cannot be read counts as 0 and takes no bytes.
LEMMA UnreadVarint ==
  ASSUME NEW raw, NEW off, ~buffer_read_varint(raw, off).ok
  PROVE  buffer_read_varint(raw, off).size = 0 /\ buffer_read_varint(raw, off).value = 0
  BY DEF buffer_read_varint

\* A transaction that is a proper prefix of another ends before its memo length.
LEMMA PrefixHasNoLength ==
  ASSUME NEW s \in Seq(Byte), NEW t \in Seq(Byte), PrefixOf(s, t), s # t,
         NEW is_token \in BOOLEAN,
         transaction_deserialize(s, is_token).status = "PARSING_OK",
         transaction_deserialize(t, is_token).status = "PARSING_OK"
  PROVE  Len(s) = HeaderLen(is_token)
  <1> DEFINE off == HeaderLen(is_token)
             ls  == buffer_read_varint(s, off)
             lt  == buffer_read_varint(t, off)
  <1>1. off \in Nat
    BY SizesAssumption DEF HeaderLen
  <1>2. Len(s) # Len(t)
    BY DEF PrefixOf
  <1>3. off + ls.size + ls.value = Len(s) /\ off + lt.size + lt.value = Len(t)
    BY ParsedLength
  <1>4. CASE ls.ok
    <2>1. lt = ls
      BY <1>1, <1>4, VarintOfPrefix
    <2> HIDE DEF ls, lt
    <2> QED
      BY <1>2, <1>3, <2>1
  <1>5. CASE ~ls.ok
    <2>1. ls.size = 0 /\ ls.value = 0
      BY <1>5, UnreadVarint
    <2> HIDE DEF ls, lt
    <2> QED
      BY <1>1, <1>3, <2>1
  <1> QED
    BY <1>4, <1>5

-----------------------------------------------------------------------------
(* The serializer. *)

\* What buffer_read_u64 has read after i bytes: the recursion of BigEndian has a solution,
\* and it is a number throughout.
LEMMA BigEndianSteps ==
  ASSUME NEW b \in Seq(Byte)
  PROVE  \E v \in [0..Len(b) -> Nat] :
           /\ v[0] = 0 /\ \A i \in 1..Len(b) : v[i] = 256 * v[i - 1] + b[i]
           /\ BigEndian(b) = v[Len(b)]
  <1> DEFINE L == Len(b)
             Step(v, i) == IF i = 0 THEN 0 ELSE 256 * v[i - 1] + b[i]
             E == {n \in Nat : n <= L =>
                     \E v \in [0..n -> Nat] : \A i \in 0..n : v[i] = Step(v, i)}
  <1>0. L \in Nat /\ \A i \in 1..L : b[i] \in Nat
    <2>1. L \in Nat /\ \A i \in 1..L : b[i] \in Byte
      OBVIOUS
    <2>2. Byte \subseteq Nat
      BY DEF Byte
    <2> QED
      BY <2>1, <2>2
  <1>1. 0 \in E
    <2>1. \A i \in 0..0 : [j \in 0..0 |-> 0][i] = Step([j \in 0..0 |-> 0], i)
      OBVIOUS
    <2>2. [j \in 0..0 |-> 0] \in [0..0 -> Nat]
      OBVIOUS
    <2> QED
      BY <2>1, <2>2
  <1>2. ASSUME NEW n \in Nat, n \in E PROVE n + 1 \in E
    <2> SUFFICES ASSUME n + 1 <= L
                 PROVE  \E v \in [0..(n + 1) -> Nat] : \A i \in 0..(n + 1) : v[i] = Step(v, i)
      <3> HIDE DEF Step, L
      <3> QED
        OBVIOUS
    <2>1. PICK v \in [0..n -> Nat] : \A i \in 0..n : v[i] = Step(v, i)
      BY <1>0, <1>2
    <2> DEFINE w == [i \in 0..(n + 1) |-> IF i <= n THEN v[i] ELSE 256 * v[n] + b[n + 1]]
    <2>2. w \in [0..(n + 1) -> Nat]
      BY <1>0, <2>1
    <2>3. ASSUME NEW i \in 0..(n + 1) PROVE w[i] = Step(w, i)
      <3>1. CASE i <= n
        BY <2>1, <3>1
      <3>2. CASE i = n + 1
        BY <3>2
      <3> QED
        BY <3>1, <3>2
    <2> HIDE DEF w, Step
    <2> QED
      BY <2>2, <2>3
  <1>3. Nat \subseteq E
    <2> HIDE DEF E
    <2> QED
      BY <1>1, <1>2, NatSetInduction
  <1>4. PICK f \in [0..L -> Nat] : \A i \in 0..L : f[i] = Step(f, i)
    <2>1. L \in E
      BY <1>0, <1>3
    <2> HIDE DEF Step, L
    <2> QED
      BY <1>0, <2>1
  <1> DEFINE v == CHOOSE g : g = [i \in 0..L |-> IF i = 0 THEN 0 ELSE 256 * g[i - 1] + b[i]]
  <1>5. f = [i \in 0..L |-> IF i = 0 THEN 0 ELSE 256 * f[i - 1] + b[i]]
    BY <1>4
  <1>6. v = [i \in 0..L |-> IF i = 0 THEN 0 ELSE 256 * v[i - 1] + b[i]]
    <2> HIDE DEF L
    <2> QED
      BY <1>5
  <1>7. BigEndian(b) = v[L]
    BY DEF BigEndian
  <1> HIDE DEF v
  <1> DEFINE T == {n \in Nat : n <= L => v[n] \in Nat}
  <1>8. 0 \in T
    BY <1>0, <1>6
  <1>9. ASSUME NEW n \in Nat, n \in T PROVE n + 1 \in T
    BY <1>0, <1>6, <1>9
  <1>10. Nat \subseteq T
    <2> HIDE DEF T
    <2> QED
      BY <1>8, <1>9, NatSetInduction
  <1>11. v \in [0..L -> Nat]
    <2>1. ASSUME NEW n \in 0..L PROVE v[n] \in Nat
      <3>1. n \in T
        <4> HIDE DEF T
        <4> QED
          BY <1>0, <1>10, <2>1
      <3> QED
        BY <1>0, <2>1, <3>1
    <2>2. v = [n \in 0..L |-> v[n]]
      BY <1>6, Zenon
    <2> HIDE DEF L
    <2> QED
      BY <2>1, <2>2
  <1>12. v[0] = 0 /\ \A i \in 1..L : v[i] = 256 * v[i - 1] + b[i]
    BY <1>0, <1>6
  <1> QED
    BY <1>7, <1>11, <1>12

\* write_u64_be writes the bytes that buffer_read_u64 read, for a number of any width.
LEMMA BigEndianBytes ==
  ASSUME NEW b \in Seq(Byte)
  PROVE  ToBytes(BigEndian(b), Len(b)) = b
  <1> DEFINE L == Len(b)
  <1>1. PICK v \in [0..L -> Nat] :
           /\ v[0] = 0 /\ \A i \in 1..L : v[i] = 256 * v[i - 1] + b[i]
           /\ BigEndian(b) = v[L]
    BY BigEndianSteps
  <1>2. L \in Nat /\ b = [i \in 1..L |-> b[i]] /\ \A i \in 1..L : b[i] \in Byte
    OBVIOUS
  <1> DEFINE x == v[L]
             q == [j \in 0..L |-> v[L - j]]
             rest == CHOOSE r : r = [i \in 0..L |-> IF i = 0 THEN x ELSE r[i - 1] \div 256]
  <1> HIDE DEF L
  <1>3. ASSUME NEW i \in 1..L
        PROVE  v[i] \div 256 = v[i - 1] /\ v[i] % 256 = b[i]
    <2>1. v[i - 1] \in Nat
      BY <1>2
    <2>2. b[i] \in 0..255
      BY <1>2 DEF Byte
    <2>3. v[i] = 256 * v[i - 1] + b[i]
      BY <1>1
    <2>4. ASSUME NEW m \in Nat, NEW d \in 0..255
          PROVE  (256 * m + d) \div 256 = m /\ (256 * m + d) % 256 = d
      OBVIOUS
    <2>5. /\ (256 * v[i - 1] + b[i]) \div 256 = v[i - 1]
          /\ (256 * v[i - 1] + b[i]) % 256 = b[i]
      BY <2>1, <2>2, <2>4, Zenon
    <2> QED
      BY <2>3, <2>5, Zenon
  <1>4. q = [i \in 0..L |-> IF i = 0 THEN x ELSE q[i - 1] \div 256]
    <2>1. ASSUME NEW i \in 0..L PROVE q[i] = IF i = 0 THEN x ELSE q[i - 1] \div 256
      <3>1. CASE i = 0
        BY <1>2, <3>1
      <3>2. CASE i # 0
        <4>1. /\ i - 1 \in 0..L /\ L - i + 1 \in 1..L /\ L - (i - 1) = L - i + 1
              /\ (L - i + 1) - 1 = L - i
          BY <1>2, <3>2
        <4>2. q[i - 1] = v[L - i + 1] /\ q[i] = v[L - i]
          BY <4>1
        <4>3. v[L - i + 1] \div 256 = v[L - i]
          BY <1>3, <4>1
        <4> QED
          BY <3>2, <4>2, <4>3
      <3> QED
        BY <3>1, <3>2
    <2> HIDE DEF x
    <2> QED
      BY <2>1
  <1>5. rest = [i \in 0..L |-> IF i = 0 THEN x ELSE rest[i - 1] \div 256]
    <2> HIDE DEF x, q
    <2> QED
      BY <1>4
  <1> HIDE DEF rest
  <1> DEFINE T == {n \in Nat : n <= L => rest[n] = q[n]}
  <1>6. 0 \in T
    BY <1>2, <1>4, <1>5
  <1>7. ASSUME NEW n \in Nat, n \in T PROVE n + 1 \in T
    <2> SUFFICES ASSUME n + 1 <= L PROVE rest[n + 1] = q[n + 1]
      OBVIOUS
    <2> HIDE DEF q, x
    <2>1. n \in 0..L /\ n + 1 \in 0..L /\ n + 1 # 0 /\ (n + 1) - 1 = n
      <3>1. L \in Nat
        BY <1>2
      <3> HIDE DEF T
      <3> QED
        BY <3>1
    <2>2. rest[n] = q[n]
      BY <1>7, <2>1
    <2> QED
      BY <1>4, <1>5, <2>1, <2>2
  <1>8. Nat \subseteq T
    <2> HIDE DEF T
    <2> QED
      BY <1>6, <1>7, NatSetInduction
  <1>9. \A i \in 1..L : rest[L - i] % 256 = b[i]
    <2> SUFFICES ASSUME NEW i \in 1..L PROVE rest[L - i] % 256 = b[i]
      OBVIOUS
    <2>1. L - i \in Nat /\ L - i <= L /\ L - (L - i) = i /\ L - i \in 0..L
      BY <1>2
    <2>2. rest[L - i] = v[i]
      BY <1>8, <2>1
    <2> QED
      BY <1>3, <2>2
  <1>10. ToBytes(x, L) = [i \in 1..L |-> rest[L - i] % 256]
    BY DEF ToBytes, rest
  <1>11. [i \in 1..L |-> rest[L - i] % 256] = [i \in 1..L |-> b[i]]
    BY <1>9
  <1> QED
    BY <1>1, <1>2, <1>10, <1>11 DEF L

\* The elements of a buffer are bytes.
LEMMA ByteRange ==
  ASSUME NEW b \in Seq(Byte), NEW i \in 1..Len(b)
  PROVE  b[i] \in Nat /\ b[i] \in 0..255
  <1>1. b[i] \in Byte
    OBVIOUS
  <1>2. Byte \subseteq Nat /\ Byte = 0..255
    BY DEF Byte
  <1> QED
    BY <1>1, <1>2, Zenon

\* Buffers with the same bytes are the same.
LEMMA SameBytes ==
  ASSUME NEW s \in Seq(Byte), NEW t \in Seq(Byte), Len(s) = Len(t),
         \A i \in 1..Len(s) : s[i] = t[i]
  PROVE  s = t
  <1>1. s = [i \in 1..Len(s) |-> s[i]] /\ t = [i \in 1..Len(t) |-> t[i]]
    OBVIOUS
  <1>2. [i \in 1..Len(s) |-> s[i]] = [i \in 1..Len(s) |-> t[i]]
    BY Zenon
  <1> QED
    BY <1>1, <1>2, Zenon

\* The bytes of a slice.
LEMMA SliceBytes ==
  ASSUME NEW raw \in Seq(Byte), NEW off \in Nat, NEW n \in Nat, off + n <= Len(raw)
  PROVE  /\ Slice(raw, off, n) \in Seq(Byte) /\ Len(Slice(raw, off, n)) = n
         /\ \A i \in 1..n : Slice(raw, off, n)[i] = raw[off + i]
  BY DEF Slice

\* Adjacent slices join.
LEMMA SlicesJoin ==
  ASSUME NEW raw \in Seq(Byte), NEW off \in Nat, NEW n \in Nat, off + n <= Len(raw)
  PROVE  Slice(raw, 0, off) \o Slice(raw, off, n) = Slice(raw, 0, off + n)
  <1> DEFINE s == Slice(raw, 0, off)
             t == Slice(raw, off, n)
             u == Slice(raw, 0, off + n)
  <1>1. Len(raw) \in Nat /\ 0 + off <= Len(raw) /\ 0 + (off + n) <= Len(raw) /\ off + n \in Nat
    OBVIOUS
  <1>2. /\ s \in Seq(Byte) /\ Len(s) = off /\ \A i \in 1..off : s[i] = raw[i]
        /\ t \in Seq(Byte) /\ Len(t) = n /\ \A i \in 1..n : t[i] = raw[off + i]
        /\ u \in Seq(Byte) /\ Len(u) = off + n /\ \A i \in 1..(off + n) : u[i] = raw[i]
    BY <1>1, SliceBytes
  <1> HIDE DEF s, t, u
  <1>3. s \o t \in Seq(Byte) /\ Len(s \o t) = off + n
    BY <1>2
  <1>4. ASSUME NEW i \in 1..(off + n)
        PROVE  (s \o t)[i] = u[i]
    <2>1. CASE i <= off
      <3>1. i \in 1..off
        BY <2>1
      <3>2. (s \o t)[i] = s[i]
        BY <1>2, <3>1
      <3> QED
        BY <1>2, <3>1, <3>2
    <2>2. CASE i > off
      <3>1. i - off \in 1..n /\ off + (i - off) = i
        BY <2>2
      <3>2. (s \o t)[i] = t[i - off]
        BY <1>2, <2>2
      <3> QED
        BY <1>2, <3>1, <3>2
    <2>3. i <= off \/ i > off
      OBVIOUS
    <2> QED
      BY <2>1, <2>2, <2>3, Zenon
  <1> QED
    BY <1>2, <1>3, <1>4, SameBytes DEF s, t, u

\* The two bytes of a memo length above 252, least significant first.
LEMMA TwoBytes ==
  ASSUME NEW b \in Seq(Byte), Len(b) = 2
  PROVE  LittleEndian(b) = 256 * b[2] + b[1]
  <1> DEFINE f == [i \in 0..2 |-> IF i = 0 THEN 0 ELSE IF i = 1 THEN b[2] ELSE 256 * b[2] + b[1]]
             v == CHOOSE g : g = [i \in 0..2 |-> IF i = 0 THEN 0
                                                 ELSE 256 * g[i - 1] + b[2 + 1 - i]]
  <1>1. b[1] \in Nat /\ b[2] \in Nat
    BY ByteRange
  <1>2. ASSUME NEW i \in 0..2
        PROVE  f[i] = IF i = 0 THEN 0 ELSE 256 * f[i - 1] + b[2 + 1 - i]
    <2>1. CASE i = 0
      BY <2>1
    <2>2. CASE i = 1
      BY <1>1, <2>2
    <2>3. CASE i = 2
      BY <1>1, <2>3
    <2> QED
      BY <2>1, <2>2, <2>3
  <1>3. f = [i \in 0..2 |-> IF i = 0 THEN 0 ELSE 256 * f[i - 1] + b[2 + 1 - i]]
    BY <1>2
  <1>4. v = [i \in 0..2 |-> IF i = 0 THEN 0 ELSE 256 * v[i - 1] + b[2 + 1 - i]]
    <2> HIDE DEF f
    <2> QED
      BY <1>3
  <1>5. LittleEndian(b) = v[2]
    BY DEF LittleEndian
  <1> HIDE DEF v
  <1>6. v[0] = 0
    BY <1>4
  <1>7. v[1] = 256 * v[0] + b[2]
    BY <1>4
  <1>8. v[2] = 256 * v[1] + b[1]
    BY <1>4
  <1> QED
    BY <1>1, <1>5, <1>6, <1>7, <1>8

\* A memo length in its shortest form is written back as it was read.
LEMMA VarintBytes ==
  ASSUME NEW raw \in Seq(Byte), NEW off \in Nat, NEW len,
         len = buffer_read_varint(raw, off), len.ok, len.size = Len(varint_write(len.value))
  PROVE  /\ len.size \in Nat /\ len.value \in Nat /\ off + len.size <= Len(raw)
         /\ varint_write(len.value) = Slice(raw, off, len.size)
  <1> DEFINE p == raw[off + 1]
             extra == VarintExtra(p)
  <1>1. Len(raw) \in Nat
    OBVIOUS
  <1>2. extra \in {0, 2, 4, 8} /\ (extra = 0 => p < 253) /\ (extra = 2 => p = 253)
    BY DEF VarintExtra
  <1>3. ~(Len(raw) - off < 1 \/ Len(raw) - off < 1 + extra)
    BY DEF buffer_read_varint
  <1>4. /\ len.size = 1 + extra
        /\ len.value = IF extra = 0 THEN p ELSE LittleEndian(Slice(raw, off + 1, extra))
    BY <1>3 DEF buffer_read_varint
  <1>5. off + 1 + extra <= Len(raw)
    BY <1>1, <1>2, <1>3
  <1>6. p \in Nat
    <2>1. off + 1 \in 1..Len(raw)
      BY <1>1, <1>2, <1>5
    <2> QED
      BY <2>1, ByteRange
  <1>7. CASE len.value < 253
    <2>1. varint_write(len.value) = <<len.value>>
      BY <1>7 DEF varint_write
    <2>2. len.size = 1
      BY <2>1
    <2>3. extra = 0
      <3> HIDE DEF extra
      <3> QED
        BY <1>2, <1>4, <2>2
    <2>4. len.value = p /\ off + 1 <= Len(raw)
      BY <1>1, <1>4, <1>5, <2>3
    <2>5. Slice(raw, off, 1) = <<p>>
      <3>1. /\ Slice(raw, off, 1) \in Seq(Byte) /\ Len(Slice(raw, off, 1)) = 1
            /\ Slice(raw, off, 1)[1] = raw[off + 1]
        <4>1. off + 1 \in 1..Len(raw)
          BY <1>1, <2>4
        <4> HIDE DEF p, extra
        <4>2. Slice(raw, off, 1) = SubSeq(raw, off + 1, off + 1)
          BY DEF Slice
        <4>3. SubSeq(raw, off + 1, off + 1) = [i \in 1..1 |-> raw[off + i]]
          BY <1>1, <4>1
        <4>4. raw[off + 1] \in Byte
          BY <4>1
        <4> DEFINE one == [i \in 1..1 |-> raw[off + i]]
        <4>5. one \in Seq(Byte) /\ Len(one) = 1 /\ one[1] = raw[off + 1]
          BY <4>4
        <4>6. Slice(raw, off, 1) = one
          BY <4>2, <4>3, Zenon
        <4> HIDE DEF one
        <4> QED
          BY <4>5, <4>6
      <3> QED
        BY <3>1
    <2> QED
      BY <1>6, <2>1, <2>2, <2>4, <2>5
  <1>8. CASE ~(len.value < 253)
    <2> DEFINE n == len.value
    <2>1. varint_write(n) = <<253, n % 256, n \div 256>>
      BY <1>8 DEF varint_write
    <2>2a. len.size = 3
      BY <2>1
    <2>2. extra = 2
      <3> HIDE DEF extra
      <3> QED
        BY <1>2, <1>4, <2>2a
    <2>3. p = 253 /\ off + 3 <= Len(raw)
      BY <1>1, <1>2, <1>5, <2>2
    <2>4. n = LittleEndian(Slice(raw, off + 1, 2))
      BY <1>4, <2>2
    <2>5. /\ Slice(raw, off + 1, 2) \in Seq(Byte) /\ Len(Slice(raw, off + 1, 2)) = 2
          /\ Slice(raw, off + 1, 2)[1] = raw[off + 2]
          /\ Slice(raw, off + 1, 2)[2] = raw[off + 3]
      <3>1. off + 1 \in Nat /\ (off + 1) + 2 <= Len(raw)
        BY <1>1, <2>3
      <3>2. /\ Slice(raw, off + 1, 2) \in Seq(Byte) /\ Len(Slice(raw, off + 1, 2)) = 2
            /\ \A i \in 1..2 : Slice(raw, off + 1, 2)[i] = raw[(off + 1) + i]
        BY <1>1, <3>1 DEF Slice
      <3>3. (off + 1) + 1 = off + 2 /\ (off + 1) + 2 = off + 3
        OBVIOUS
      <3> QED
        BY <3>2, <3>3
    <2>6. n = 256 * raw[off + 3] + raw[off + 2]
      BY <2>4, <2>5, TwoBytes
    <2>7. /\ raw[off + 2] \in 0..255 /\ raw[off + 3] \in Nat
      <3>1. off + 2 \in 1..Len(raw) /\ off + 3 \in 1..Len(raw)
        BY <1>1, <2>3
      <3> QED
        BY <3>1, ByteRange
    <2>8. n \in Nat /\ n % 256 = raw[off + 2] /\ n \div 256 = raw[off + 3]
      <3> DEFINE m == raw[off + 3]
                 d == raw[off + 2]
      <3>1. m \in Nat /\ d \in 0..255 /\ n = 256 * m + d
        BY <2>6, <2>7
      <3> HIDE DEF m, d, n
      <3>2. n \in Nat /\ n % 256 = d /\ n \div 256 = m
        BY <3>1
      <3> QED
        BY <3>2 DEF m, d, n
    <2>9. /\ Slice(raw, off, 3) \in Seq(Byte) /\ Len(Slice(raw, off, 3)) = 3
          /\ Slice(raw, off, 3)[1] = raw[off + 1] /\ Slice(raw, off, 3)[2] = raw[off + 2]
          /\ Slice(raw, off, 3)[3] = raw[off + 3]
      <3>1. /\ Slice(raw, off, 3) \in Seq(Byte) /\ Len(Slice(raw, off, 3)) = 3
            /\ \A i \in 1..3 : Slice(raw, off, 3)[i] = raw[off + i]
        BY <1>1, <2>3 DEF Slice
      <3> QED
        BY <3>1
    <2>10. Slice(raw, off, 3) = <<253, n % 256, n \div 256>>
      BY <2>3, <2>8, <2>9
    <2> QED
      BY <2>1, <2>2, <2>3, <2>8, <2>10
  <1> QED
    BY <1>7, <1>8

\* The fields of a transaction that parses are slices of its bytes.
LEMMA ParsedFields ==
  ASSUME NEW raw \in Seq(Byte),
         transaction_deserialize(raw, FALSE).status = "PARSING_OK"
  PROVE  LET tx  == transaction_deserialize(raw, FALSE)
             off == HeaderLen(FALSE)
             len == buffer_read_varint(raw, off)
         IN  /\ tx.nonce = BigEndian(Slice(raw, 0, NonceLen))
             /\ tx.to = Slice(raw, NonceLen, ADDRESS_LEN)
             /\ tx.value = BigEndian(Slice(raw, NonceLen + ADDRESS_LEN, ValueLen))
             /\ tx.memo = Slice(raw, off + len.size, len.value)
  <1> DEFINE off == NonceLen + ADDRESS_LEN + ValueLen
  <1>1. HeaderLen(FALSE) = off /\ (NonceLen + ADDRESS_LEN + 0) + ValueLen = off
        /\ NonceLen + ADDRESS_LEN + 0 = NonceLen + ADDRESS_LEN
    BY SizesAssumption DEF HeaderLen
  <1> QED
    BY <1>1 DEF transaction_deserialize

\* Serializing what was parsed gives back the bytes, for every size of the fields, when they
\* give the memo length in its shortest form.
LEMMA SerializeParsed ==
  ASSUME NEW raw \in Seq(Byte),
         transaction_deserialize(raw, FALSE).status = "PARSING_OK",
         HasShortLength(raw, FALSE)
  PROVE  transaction_serialize(transaction_deserialize(raw, FALSE), MAX_TX_LEN) = raw
  <1> DEFINE tx  == transaction_deserialize(raw, FALSE)
             n1  == NonceLen
             n2  == n1 + ADDRESS_LEN
             off == n2 + ValueLen
             len == buffer_read_varint(raw, off)
             mem == off + len.size
  <1>1. /\ n1 \in Nat /\ ADDRESS_LEN \in Nat /\ ValueLen \in Nat /\ n2 \in Nat /\ off \in Nat
        /\ HeaderLen(FALSE) = off /\ Len(raw) \in Nat /\ MAX_TX_LEN \in Nat
    BY SizesAssumption DEF HeaderLen
  <1>2. len.ok /\ len.size = Len(varint_write(len.value))
    BY SizesAssumption DEF HasShortLength
  <1>3. off <= Len(raw) /\ Len(raw) <= MAX_TX_LEN /\ off + len.size + len.value = Len(raw)
    BY <1>1, ParsedLength
  <1>4. /\ tx.nonce = BigEndian(Slice(raw, 0, n1))
        /\ tx.to = Slice(raw, n1, ADDRESS_LEN)
        /\ tx.value = BigEndian(Slice(raw, n2, ValueLen))
        /\ tx.memo = Slice(raw, mem, len.value)
    BY <1>1, ParsedFields
  <1> HIDE DEF tx, len
  <1>5. /\ len.size \in Nat /\ len.value \in Nat /\ mem <= Len(raw)
        /\ varint_write(len.value) = Slice(raw, off, len.size)
    BY <1>1, <1>2, VarintBytes DEF len
  <1>6. mem \in Nat /\ mem + len.value = Len(raw) /\ n1 <= Len(raw) /\ n2 <= Len(raw)
    BY <1>1, <1>3, <1>5
  <1>7. ToBytes(tx.nonce, NonceLen) = Slice(raw, 0, n1)
    <2>1. Slice(raw, 0, n1) \in Seq(Byte) /\ Len(Slice(raw, 0, n1)) = n1
      BY <1>1, <1>6 DEF Slice
    <2> QED
      BY <1>4, <2>1, BigEndianBytes
  <1>8. ToBytes(tx.value, ValueLen) = Slice(raw, n2, ValueLen)
    <2>1. Slice(raw, n2, ValueLen) \in Seq(Byte) /\ Len(Slice(raw, n2, ValueLen)) = ValueLen
      BY <1>1, <1>3, SliceBytes
    <2> QED
      BY <1>4, <2>1, BigEndianBytes
  <1>9. Len(tx.memo) = len.value
    BY <1>4, <1>5, <1>6, SliceBytes
  <1> HIDE DEF mem
  <1>10. /\ Slice(raw, 0, n1) \o Slice(raw, n1, ADDRESS_LEN) = Slice(raw, 0, n2)
         /\ Slice(raw, 0, n2) \o Slice(raw, n2, ValueLen) = Slice(raw, 0, off)
         /\ Slice(raw, 0, off) \o Slice(raw, off, len.size) = Slice(raw, 0, mem)
         /\ Slice(raw, 0, mem) \o Slice(raw, mem, len.value) = Slice(raw, 0, Len(raw))
    <2>1. /\ n1 + ADDRESS_LEN <= Len(raw) /\ n2 + ValueLen <= Len(raw)
          /\ off + len.size <= Len(raw) /\ mem + len.value <= Len(raw)
      BY <1>1, <1>3, <1>5, <1>6 DEF mem
    <2>2. Slice(raw, 0, n1) \o Slice(raw, n1, ADDRESS_LEN) = Slice(raw, 0, n2)
      BY <1>1, <2>1, SlicesJoin
    <2>3. Slice(raw, 0, n2) \o Slice(raw, n2, ValueLen) = Slice(raw, 0, off)
      BY <1>1, <2>1, SlicesJoin
    <2>4. Slice(raw, 0, off) \o Slice(raw, off, len.size) = Slice(raw, 0, mem)
      <3> HIDE DEF off
      <3> QED
        BY <1>1, <1>5, <2>1, SlicesJoin DEF mem
    <2>5. Slice(raw, 0, mem) \o Slice(raw, mem, len.value) = Slice(raw, 0, Len(raw))
      BY <1>5, <1>6, <2>1, SlicesJoin
    <2> QED
      BY <2>2, <2>3, <2>4, <2>5
  <1>11. Slice(raw, 0, Len(raw)) = raw
    BY DEF Slice
  <1>12. ToBytes(tx.nonce, NonceLen) \o tx.to \o ToBytes(tx.value, ValueLen)
           \o varint_write(Len(tx.memo)) \o tx.memo = raw
    BY <1>4, <1>5, <1>7, <1>8, <1>9, <1>10, <1>11
  <1>13. ~(Len(raw) > MAX_TX_LEN)
    BY <1>1, <1>3
  <1>14. transaction_serialize(tx, MAX_TX_LEN) = raw
    BY <1>12, <1>13, Zenon DEF transaction_serialize
  <1> QED
    BY <1>14 DEF tx

-----------------------------------------------------------------------------
(* Contexts. *)

\* A request without transaction bytes is well formed, whatever its kind.
LEMMA EmptyContextOK ==
  ASSUME NEW c, DOMAIN c = ContextFields, c.state = "STATE_NONE", c.req_type \in ReqTypes,
         c.pk # None => c.req_type = "CONFIRM_ADDRESS", c.is_token_tx = FALSE, c.raw_tx = <<>>
  PROVE  ContextOK(c) /\ ParsedOK(c)
  <1>1. <<>> \in Seq(Byte) /\ Len(<<>>) <= MAX_TX_LEN
    BY SizesAssumption
  <1> QED
    BY <1>1 DEF ContextOK, ParsedOK

\* The fields of the cleared context.
LEMMA ZeroFields ==
  /\ DOMAIN ZeroContext = ContextFields /\ ZeroContext.state = "STATE_NONE"
  /\ ZeroContext.req_type = "CONFIRM_ADDRESS" /\ ZeroContext.pk = None
  /\ ZeroContext.is_token_tx = FALSE /\ ZeroContext.raw_tx = <<>>
  BY DEF ZeroContext, ContextFields

\* The cleared context is well formed.
LEMMA ZeroContextOK == ContextOK(ZeroContext) /\ ParsedOK(ZeroContext)
  BY ZeroFields, EmptyContextOK DEF ReqTypes

\* A new request is well formed.
LEMMA FreshContextOK ==
  ASSUME NEW kind \in ReqTypes, NEW path, NEW c,
         c = [ZeroContext EXCEPT !.req_type = kind, !.path = path]
  PROVE  DOMAIN c = ContextFields /\ c.req_type = kind /\ ContextOK(c) /\ ParsedOK(c)
  <1>1. /\ DOMAIN c = ContextFields /\ c.state = "STATE_NONE" /\ c.req_type = kind
        /\ c.pk = None /\ c.is_token_tx = FALSE /\ c.raw_tx = <<>>
    BY ZeroFields DEF ContextFields
  <1> QED
    BY <1>1, EmptyContextOK

\* So is a request for an address with the key derived for it.
LEMMA PubkeyContextOK ==
  ASSUME NEW path, NEW pk, NEW fresh, NEW c,
         fresh = [ZeroContext EXCEPT !.req_type = "CONFIRM_ADDRESS", !.path = path],
         c = [fresh EXCEPT !.pk = pk]
  PROVE  ContextOK(c) /\ ParsedOK(c)
  <1>1. /\ DOMAIN fresh = ContextFields /\ fresh.state = "STATE_NONE"
        /\ fresh.req_type = "CONFIRM_ADDRESS"
        /\ fresh.is_token_tx = FALSE /\ fresh.raw_tx = <<>>
    BY ZeroFields DEF ContextFields
  <1>2. /\ DOMAIN c = ContextFields /\ c.state = "STATE_NONE"
        /\ c.req_type = "CONFIRM_ADDRESS" /\ c.is_token_tx = FALSE /\ c.raw_tx = <<>>
    BY <1>1 DEF ContextFields
  <1> QED
    BY <1>2, EmptyContextOK DEF ReqTypes

\* Appending keeps a prefix.
LEMMA AppendPrefix ==
  ASSUME NEW s \in Seq(Byte), NEW t \in Seq(Byte)
  PROVE  s \o t \in Seq(Byte) /\ Len(s \o t) = Len(s) + Len(t) /\ PrefixOf(s, s \o t)
  <1>1. s \o t \in Seq(Byte) /\ Len(s \o t) = Len(s) + Len(t)
    OBVIOUS
  <1>2. \A i \in 1..Len(s) : s[i] = (s \o t)[i]
    OBVIOUS
  <1>3. Len(s) <= Len(s) + Len(t)
    OBVIOUS
  <1> QED
    BY <1>1, <1>2, <1>3 DEF PrefixOf

\* A chunk that accumulate_transaction_data accepts keeps the context well formed, and
\* what it held is a prefix of what it holds.
LEMMA AppendContextOK ==
  ASSUME ContextOK(G_context), ParsedOK(G_context), NEW data \in Chunks,
         NEW is_token \in BOOLEAN, NEW c,
         accumulate_transaction_data(data, is_token) = "SWO_SUCCESS",
         c = [G_context EXCEPT !.raw_tx = @ \o data]
  PROVE  /\ ContextOK(c) /\ ParsedOK(c)
         /\ c.req_type = ReqType(is_token) /\ c.req_type = G_context.req_type
         /\ c.is_token_tx = G_context.is_token_tx
         /\ PrefixOf(G_context.raw_tx, c.raw_tx)
  <1> DEFINE g == G_context
             raw == g.raw_tx \o data
  <1>1. data \in Seq(Byte) /\ g.raw_tx \in Seq(Byte)
    BY ChunksAssumption DEF ContextOK
  <1>2. g.req_type = ReqType(is_token) /\ Len(g.raw_tx) + Len(data) <= MAX_TX_LEN
    BY <1>1, SizesAssumption DEF accumulate_transaction_data
  <1>3. /\ DOMAIN c = ContextFields /\ c.state = g.state /\ c.req_type = g.req_type
        /\ c.pk = g.pk /\ c.is_token_tx = g.is_token_tx /\ c.raw_tx = raw
        /\ c.transaction = g.transaction /\ c.m_hash = g.m_hash
    BY DEF ContextOK, ContextFields
  <1>4. raw \in Seq(Byte) /\ Len(raw) <= MAX_TX_LEN /\ PrefixOf(g.raw_tx, raw)
    BY <1>1, <1>2, AppendPrefix
  <1>5. g.req_type # "CONFIRM_ADDRESS"
    BY <1>2 DEF ReqType
  <1> HIDE DEF raw
  <1>6. ContextOK(c) /\ ParsedOK(c)
    BY <1>3, <1>4, <1>5 DEF ContextOK, ParsedOK
  <1> QED
    BY <1>2, <1>3, <1>4, <1>6

\* process_transaction keeps the request and its bytes, and on success leaves what they say.
LEMMA ProcessedContext ==
  ASSUME NEW ctx, ContextOK(ctx), ParsedOK(ctx), NEW is_token \in BOOLEAN,
         ctx.req_type = ReqType(is_token)
  PROVE  LET done == process_transaction(ctx, is_token)
             tx   == transaction_deserialize(ctx.raw_tx, is_token)
         IN  /\ ContextOK(done.ctx) /\ ParsedOK(done.ctx)
             /\ done.ctx.req_type = ctx.req_type /\ done.ctx.raw_tx = ctx.raw_tx
             /\ done.ctx.is_token_tx = is_token
             /\ done.err = "SWO_SUCCESS" =>
                  /\ tx.status = "PARSING_OK" /\ done.ctx.state = "STATE_PARSED"
                  /\ done.ctx.transaction = tx /\ done.ctx.m_hash = ctx.raw_tx
                  /\ is_token => done.ctx.token_info = get_token_info(tx.token_address)
  <1> DEFINE done == process_transaction(ctx, is_token)
             tx   == transaction_deserialize(ctx.raw_tx, is_token)
             info == get_token_info(tx.token_address)
             flagged == [ctx EXCEPT !.is_token_tx = is_token]
  <1>1. /\ DOMAIN flagged = ContextFields /\ flagged.state = ctx.state
        /\ flagged.req_type = ctx.req_type /\ flagged.pk = ctx.pk
        /\ flagged.is_token_tx = is_token /\ flagged.raw_tx = ctx.raw_tx
        /\ flagged.transaction = ctx.transaction /\ flagged.m_hash = ctx.m_hash
    BY DEF ContextOK, ContextFields
  <1>2. ctx.state # "STATE_NONE" => ctx.is_token_tx = is_token
    BY DEF ContextOK, ParsedOK, ReqType
  <1>3. CASE tx.status # "PARSING_OK" \/ (is_token /\ info = None)
    <2>1. done = [err |-> "SWO_INCORRECT_DATA", ctx |-> flagged]
      BY <1>3 DEF process_transaction
    <2> HIDE DEF done, flagged, tx, info
    <2>2. ContextOK(flagged) /\ ParsedOK(flagged)
      BY <1>1, <1>2 DEF ContextOK, ParsedOK
    <2>3. done.err # "SWO_SUCCESS" /\ done.ctx = flagged
      BY <2>1
    <2> QED
      BY <1>1, <2>2, <2>3 DEF done, tx
  <1>4. CASE ~(tx.status # "PARSING_OK" \/ (is_token /\ info = None))
    <2> DEFINE c == [flagged EXCEPT !.transaction = tx,
                                    !.token_info = IF is_token THEN info ELSE @,
                                    !.state = "STATE_PARSED",
                                    !.m_hash = ctx.raw_tx]
    <2>1. done = [err |-> "SWO_SUCCESS", ctx |-> c]
      BY <1>4 DEF process_transaction
    <2>2. ctx.req_type # "CONFIRM_ADDRESS"
      BY DEF ReqType
    <2> HIDE DEF flagged, info, done, tx
    <2>3. /\ DOMAIN c = ContextFields /\ c.state = "STATE_PARSED" /\ c.req_type = ctx.req_type
          /\ c.pk = ctx.pk /\ c.is_token_tx = is_token /\ c.raw_tx = ctx.raw_tx
          /\ is_token => c.token_info = info
          /\ c.transaction = tx /\ c.m_hash = ctx.raw_tx
      BY <1>1 DEF ContextFields
    <2> HIDE DEF c
    <2>4. ContextOK(c)
      BY <2>2, <2>3 DEF ContextOK
    <2>5. ParsedOK(c)
      BY <1>4, <2>3 DEF ContextOK, ParsedOK, tx
    <2>6. done.ctx = c
      BY <2>1
    <2> QED
      BY <1>4, <2>3, <2>4, <2>5, <2>6 DEF done, tx, info
  <1> QED
    BY <1>3, <1>4

\* The user's choice, or a page that is not shown, changes only the state.
LEMMA StateContextOK ==
  ASSUME NEW ctx, ContextOK(ctx), ParsedOK(ctx), ctx.state = "STATE_PARSED",
         NEW s \in {"STATE_NONE", "STATE_APPROVED"}, NEW c, c = [ctx EXCEPT !.state = s]
  PROVE  /\ ContextOK(c) /\ ParsedOK(c)
         /\ c.req_type = ctx.req_type /\ c.raw_tx = ctx.raw_tx
         /\ c.is_token_tx = ctx.is_token_tx
  <1>1. /\ DOMAIN c = ContextFields /\ c.state = s /\ c.req_type = ctx.req_type
        /\ c.pk = ctx.pk /\ c.is_token_tx = ctx.is_token_tx /\ c.raw_tx = ctx.raw_tx
        /\ c.transaction = ctx.transaction /\ c.m_hash = ctx.m_hash
    BY DEF ContextOK, ContextFields
  <1>2. ContextOK(c) /\ ParsedOK(c)
    BY <1>1 DEF ContextOK, ParsedOK
  <1> QED
    BY <1>1, <1>2

-----------------------------------------------------------------------------
(* Every step keeps the invariant. *)

\* Only the two kinds of review are reviews.
LEMMA PlainPages ==
  \A s \in {Menu, Status, Warning, NoScreen} : ~IsReview(s) /\ s.page # "review"
  BY DEF Menu, Status, Warning, NoScreen, IsReview

\* The invariant holds at the start of the application.
LEMMA InitAppInv == Init => AppInv
  <1> SUFFICES ASSUME Init PROVE AppInv
    OBVIOUS
  <1>1. ContextOK(G_context) /\ ParsedOK(G_context)
    BY ZeroContextOK DEF Init
  <1>2. WaitingHasReview /\ ReviewPage
    BY PlainPages DEF Init, WaitingHasReview, ReviewPage
  <1> QED
    BY <1>1, <1>2 DEF Init, AppInv, PromiseInv, ReviewedInv

\* The start and the end of a session clear everything the invariant relates.
LEMMA ClearStep ==
  ASSUME running' \in {"off", "device", "swap"}, pending' = FALSE,
         G_context' = ZeroContext, screen' \in {Menu, NoScreen}, reviewed' = <<>>,
         running' # "swap" => G_swap_validated' = None
  PROVE  AppInv'
  <1>1. ContextOK(G_context)' /\ ParsedOK(G_context)'
    BY ZeroContextOK
  <1>2. WaitingHasReview' /\ ReviewPage'
    BY PlainPages DEF WaitingHasReview, ReviewPage
  <1> QED
    BY <1>1, <1>2 DEF AppInv, PromiseInv, ReviewedInv

\* Steps that touch nothing the invariant relates: answers to commands without effect,
\* the exchange's questions.
LEMMA QuietStep ==
  ASSUME AppInv, UNCHANGED <<running, G_context, g_dynamic_token_info, screen, pending,
                             G_swap_validated, reviewed>>
  PROVE  AppInv'
  BY DEF AppInv, ContextOK, ParsedOK, WaitingHasReview, ReviewPage, PromiseInv, ReviewedInv,
         ViewOf, get_token_info, get_dynamic_token_info, get_hardcoded_token_info

\* A request that is well formed, reviewed as before or not at all, is answered at once.
LEMMA AnswerStep ==
  ASSUME AppInv, Ready, NEW r, Reply(r), UNCHANGED G_swap_validated,
         ContextOK(G_context)', ParsedOK(G_context)', ReviewedInv'
  PROVE  AppInv'
  <1>1. WaitingHasReview' /\ ReviewPage'
    <2>1. ~IsReview(screen)
      BY DEF AppInv, WaitingHasReview, Ready
    <2> QED
      BY <2>1 DEF Reply, WaitingHasReview, ReviewPage, IsReview
  <1> QED
    BY <1>1 DEF AppInv, Reply, PromiseInv

\* The user's page changes while no request waits: menu, status and warning.
LEMMA PageStep ==
  ASSUME AppInv, screen \in {Menu, Status, Warning}, screen' \in {Menu, Status, Warning},
         UNCHANGED <<running, ctxVars, pending, G_swap_validated>>
  PROVE  AppInv'
  <1>1. WaitingHasReview' /\ ReviewPage'
    BY PlainPages DEF AppInv, WaitingHasReview, ReviewPage
  <1> QED
    BY <1>1 DEF AppInv, ContextOK, ParsedOK, PromiseInv, ReviewedInv, ctxVars

\* Start and the exchange's start, the end of a session.
LEMMA SessionStep ==
  ASSUME AppInv,
         Start \/ Stop \/ (\E p \in SwapParams : swap_copy_transaction_parameters(p))
  PROVE  AppInv'
  <1>1. CASE Start
    BY <1>1, ClearStep DEF Start, app_main
  <1>2. CASE Stop
    BY <1>2, ClearStep DEF Stop, PoweredOff
  <1>3. ASSUME NEW p \in SwapParams, swap_copy_transaction_parameters(p) PROVE AppInv'
    BY <1>3, ClearStep DEF swap_copy_transaction_parameters, app_main
  <1> QED
    BY <1>1, <1>2, <1>3

\* GET_PUBLIC_KEY, with its address review.
LEMMA handler_get_public_keyStep ==
  ASSUME AppInv, NEW path \in Paths \cup {None}, NEW display \in BOOLEAN,
         NEW derives \in BOOLEAN, handler_get_public_key(path, display, derives)
  PROVE  AppInv'
  <1> DEFINE p == IF path = None THEN PartialPath ELSE path
             fresh == [ZeroContext EXCEPT !.req_type = "CONFIRM_ADDRESS", !.path = p]
             done == [fresh EXCEPT !.pk = path]
  <1>1. Ready /\ reviewed' = <<>> /\ UNCHANGED G_swap_validated
    BY DEF handler_get_public_key
  <1>2. ContextOK(fresh) /\ ParsedOK(fresh)
    <2> HIDE DEF p
    <2> QED
      BY FreshContextOK DEF ReqTypes
  <1>3. ContextOK(done) /\ ParsedOK(done)
    <2> HIDE DEF p
    <2> QED
      BY PubkeyContextOK
  <1>4. \/ \E r : G_context' = fresh /\ Reply(r)
        \/ \E r : G_context' = done /\ Reply(r)
        \/ G_context' = done /\ Review(ui_display_address(done))
    BY DEF handler_get_public_key
  <1> HIDE DEF fresh, done
  <1>5. ContextOK(G_context)' /\ ParsedOK(G_context)' /\ ReviewedInv'
    BY <1>1, <1>2, <1>3, <1>4 DEF ReviewedInv
  <1>6. ASSUME NEW r, Reply(r) PROVE AppInv'
    BY <1>1, <1>5, <1>6, AnswerStep
  <1>7. CASE Review(ui_display_address(done))
    <2>1. screen'.page = "address" /\ pending' = TRUE /\ running' = running
      BY <1>7 DEF Review, ui_display_address
    <2>2. WaitingHasReview' /\ ReviewPage'
      BY <2>1 DEF WaitingHasReview, ReviewPage, IsReview
    <2> QED
      BY <1>1, <1>5, <2>1, <2>2 DEF AppInv, PromiseInv
  <1> QED
    BY <1>4, <1>6, <1>7

\* PROVIDE_TOKEN_INFO.
LEMMA handler_provide_token_infoStep ==
  ASSUME AppInv, NEW d \in Descriptors, handler_provide_token_info(d)
  PROVE  AppInv'
  <1>1. Ready /\ (\E r : Reply(r)) /\ UNCHANGED <<ctxVars, G_swap_validated>>
    BY DEF handler_provide_token_info
  <1>2. ContextOK(G_context)' /\ ParsedOK(G_context)' /\ ReviewedInv'
    BY <1>1 DEF AppInv, ContextOK, ParsedOK, ReviewedInv, ctxVars
  <1> QED
    BY <1>1, <1>2, AnswerStep

\* The first chunk of SIGN_TX, which holds the path.
LEMMA init_transaction_contextStep ==
  ASSUME AppInv, NEW path \in Paths \cup {None}, NEW is_token \in BOOLEAN,
         init_transaction_context(path, is_token)
  PROVE  AppInv'
  <1> DEFINE p == IF path = None THEN PartialPath ELSE path
  <1>1. /\ Ready /\ (\E r : Reply(r)) /\ reviewed' = <<>> /\ UNCHANGED G_swap_validated
        /\ G_context' = [ZeroContext EXCEPT !.req_type = ReqType(is_token), !.path = p]
    BY DEF init_transaction_context
  <1>2. ReqType(is_token) \in ReqTypes
    BY DEF ReqType, ReqTypes
  <1> HIDE DEF p
  <1>3. ContextOK(G_context)' /\ ParsedOK(G_context)' /\ ReviewedInv'
    BY <1>1, <1>2, FreshContextOK DEF ReviewedInv
  <1> QED
    BY <1>1, <1>3, AnswerStep

\* A request that grew, of the same kind, was reviewed as before.
LEMMA GrownReviewed ==
  ASSUME ContextOK(G_context), ContextOK(G_context'), ReviewedInv, UNCHANGED reviewed,
         G_context'.req_type = G_context.req_type,
         G_context'.is_token_tx \in BOOLEAN,
         G_context.req_type = ReqType(G_context'.is_token_tx) \/
           G_context'.is_token_tx = G_context.is_token_tx,
         PrefixOf(G_context.raw_tx, G_context'.raw_tx)
  PROVE  ReviewedInv'
  <1> SUFFICES ASSUME reviewed # <<>>
               PROVE  /\ reviewed \in Seq(Byte)
                      /\ G_context'.req_type = ReqType(G_context'.is_token_tx)
                      /\ transaction_deserialize(reviewed, G_context'.is_token_tx).status
                           = "PARSING_OK"
                      /\ PrefixOf(reviewed, G_context'.raw_tx)
    BY DEF ReviewedInv
  <1>1. G_context'.is_token_tx = G_context.is_token_tx
    BY DEF ReviewedInv, ContextOK, ReqType
  <1>2. PrefixOf(reviewed, G_context'.raw_tx)
    <2>1. /\ Len(reviewed) \in Nat /\ Len(G_context.raw_tx) \in Nat
          /\ Len(G_context'.raw_tx) \in Nat
      BY DEF ReviewedInv, ContextOK
    <2> QED
      BY <2>1 DEF ReviewedInv, PrefixOf
  <1> QED
    BY <1>1, <1>2 DEF ReviewedInv

\* Every sequence is a prefix of itself.
LEMMA PrefixOfItself ==
  ASSUME NEW s \in Seq(Byte)
  PROVE  PrefixOf(s, s)
  BY DEF PrefixOf

\* A later chunk of SIGN_TX that is kept for more to come, or that ends the request with an error.
LEMMA sign_tx_chunkStep ==
  ASSUME AppInv, NEW data \in Chunks, NEW more \in BOOLEAN, NEW is_token \in BOOLEAN,
         sign_tx_chunk(data, more, is_token)
  PROVE  AppInv'
  <1> DEFINE err  == accumulate_transaction_data(data, is_token)
             ctx  == [G_context EXCEPT !.raw_tx = @ \o data]
             done == process_transaction(ctx, is_token)
  <1>1. Ready /\ (\E r : Reply(r)) /\ UNCHANGED <<reviewed, G_swap_validated>>
    BY DEF sign_tx_chunk
  <1>2. \/ UNCHANGED G_context
        \/ err = "SWO_SUCCESS" /\ G_context' = ctx
        \/ err = "SWO_SUCCESS" /\ G_context' = done.ctx
    BY DEF sign_tx_chunk
  <1> HIDE DEF ctx, done
  <1>3. ContextOK(G_context) /\ ParsedOK(G_context) /\ ReviewedInv
    BY DEF AppInv
  <1>4. CASE UNCHANGED G_context
    <2>1. ContextOK(G_context)' /\ ParsedOK(G_context)' /\ ReviewedInv'
      BY <1>1, <1>3, <1>4 DEF ReviewedInv
    <2> QED
      BY <1>1, <2>1, AnswerStep
  <1>5. CASE err = "SWO_SUCCESS" /\ (G_context' = ctx \/ G_context' = done.ctx)
    <2>1. /\ ContextOK(ctx) /\ ParsedOK(ctx) /\ ctx.req_type = ReqType(is_token)
          /\ ctx.req_type = G_context.req_type /\ ctx.is_token_tx = G_context.is_token_tx
          /\ PrefixOf(G_context.raw_tx, ctx.raw_tx)
      BY <1>3, <1>5, AppendContextOK DEF ctx
    <2>2. /\ ContextOK(done.ctx) /\ ParsedOK(done.ctx) /\ done.ctx.req_type = ctx.req_type
          /\ done.ctx.raw_tx = ctx.raw_tx /\ done.ctx.is_token_tx = is_token
      BY <2>1, ProcessedContext DEF done
    <2>3. ContextOK(G_context)' /\ ParsedOK(G_context)'
      BY <1>5, <2>1, <2>2
    <2>4. /\ G_context'.req_type = G_context.req_type
          /\ PrefixOf(G_context.raw_tx, G_context'.raw_tx)
          /\ G_context'.is_token_tx \in BOOLEAN
          /\ \/ G_context.req_type = ReqType(G_context'.is_token_tx)
             \/ G_context'.is_token_tx = G_context.is_token_tx
      BY <1>5, <2>1, <2>2 DEF ContextOK
    <2>5. ReviewedInv'
      BY <1>1, <1>3, <2>3, <2>4, GrownReviewed
    <2> QED
      BY <1>1, <2>3, <2>5, AnswerStep
  <1> QED
    BY <1>2, <1>4, <1>5

\* The page of a transaction shows what its bytes say: "Blind-sign" in a token transaction
\* is refused, so that a page never shows a token's amount in BOL.
LEMMA PageShowsBytes ==
  ASSUME NEW ctx, NEW is_token \in BOOLEAN, ctx.req_type = ReqType(is_token),
         ctx.transaction = transaction_deserialize(ctx.m_hash, is_token),
         is_token => ctx.token_info = get_token_info(ctx.transaction.token_address),
         NEW page, page = ui_display_transaction(ctx, is_token), page # None
  PROVE  /\ page.page = "review"
         /\ [amount |-> page.amount, to |-> page.to, unit |-> page.unit]
              = ViewOf(ctx.m_hash, is_token)
  <1> DEFINE tx == transaction_deserialize(ctx.m_hash, is_token)
             unit == IF is_token THEN get_token_info(tx.token_address) ELSE NativeUnit
  <1>1. ReqType(TRUE) # ReqType(FALSE)
    BY DEF ReqType
  <1>2. /\ page.page = "review" /\ page.amount = tx.value /\ page.to = Hex(tx.to)
        /\ page.unit = unit
    <2>1. PICK blind \in BOOLEAN :
            page = ui_display_transaction_bs_token_choice(ctx, blind, is_token)
      <3>1. CASE ctx.transaction.memo = BlindMemo
        <4>1. page = ui_display_transaction_bs_token_choice(ctx, TRUE, FALSE)
          BY <3>1 DEF ui_display_transaction
        <4>2. is_token = FALSE
          BY <1>1, <4>1 DEF ui_display_transaction_bs_token_choice
        <4> QED
          BY <4>1, <4>2
      <3>2. CASE ctx.transaction.memo # BlindMemo
        BY <3>2 DEF ui_display_transaction
      <3> QED
        BY <3>1, <3>2
    <2>2. \E token : page = [page |-> "review", blind |-> blind,
             amount |-> ctx.transaction.value,
             unit |-> IF is_token THEN ctx.token_info ELSE NativeUnit,
             token |-> token, to |-> Hex(ctx.transaction.to)]
      BY <2>1, Zenon DEF ui_display_transaction_bs_token_choice
    <2>3. /\ page.page = "review" /\ page.amount = ctx.transaction.value
          /\ page.unit = (IF is_token THEN ctx.token_info ELSE NativeUnit)
          /\ page.to = Hex(ctx.transaction.to)
      BY <2>2
    <2> QED
      BY <2>3
  <1>3. ViewOf(ctx.m_hash, is_token) = [amount |-> tx.value, to |-> Hex(tx.to), unit |-> unit]
    BY DEF ViewOf
  <1> QED
    BY <1>2, <1>3

\* The last chunk of SIGN_TX, up to the review on the screen.
LEMMA sign_tx_reviewStep ==
  ASSUME AppInv, NEW data \in Chunks, NEW is_token \in BOOLEAN, sign_tx_review(data, is_token)
  PROVE  AppInv'
  <1> DEFINE ctx  == [G_context EXCEPT !.raw_tx = @ \o data]
             done == process_transaction(ctx, is_token)
             page == ui_display_transaction(done.ctx, is_token)
             hidden == [done.ctx EXCEPT !.state = "STATE_NONE"]
  <1>1. /\ Ready /\ running = "device" /\ done.err = "SWO_SUCCESS"
        /\ accumulate_transaction_data(data, is_token) = "SWO_SUCCESS"
        /\ UNCHANGED <<g_dynamic_token_info, G_swap_validated>>
        /\ \/ /\ page = None /\ G_context' = hidden
              /\ (\E r : Reply(r)) /\ UNCHANGED reviewed
           \/ /\ page # None /\ G_context' = done.ctx /\ Review(page)
              /\ reviewed' = ctx.raw_tx
    BY DEF sign_tx_review
  <1>2. ContextOK(G_context) /\ ParsedOK(G_context) /\ ReviewedInv
    BY DEF AppInv
  <1> HIDE DEF ctx, done, page
  <1>3. /\ ContextOK(ctx) /\ ParsedOK(ctx) /\ ctx.req_type = ReqType(is_token)
        /\ ctx.req_type = G_context.req_type /\ PrefixOf(G_context.raw_tx, ctx.raw_tx)
    BY <1>1, <1>2, AppendContextOK DEF ctx
  <1>4. LET tx == transaction_deserialize(ctx.raw_tx, is_token)
        IN  /\ ContextOK(done.ctx) /\ ParsedOK(done.ctx)
            /\ done.ctx.req_type = ctx.req_type /\ done.ctx.raw_tx = ctx.raw_tx
            /\ done.ctx.is_token_tx = is_token /\ done.ctx.state = "STATE_PARSED"
            /\ tx.status = "PARSING_OK" /\ done.ctx.transaction = tx
            /\ done.ctx.m_hash = ctx.raw_tx
            /\ is_token => done.ctx.token_info = get_token_info(tx.token_address)
    BY <1>1, <1>3, ProcessedContext DEF done
  <1>5. CASE page = None
    <2>1. /\ ContextOK(hidden) /\ ParsedOK(hidden) /\ hidden.req_type = ctx.req_type
          /\ hidden.raw_tx = ctx.raw_tx /\ hidden.is_token_tx = is_token
      BY <1>4, StateContextOK
    <2> HIDE DEF hidden
    <2>2. ContextOK(G_context)' /\ ParsedOK(G_context)'
      BY <1>1, <1>5, <2>1
    <2>3. ReviewedInv'
      BY <1>1, <1>2, <1>3, <1>5, <2>1, <2>2, GrownReviewed
    <2> QED
      BY <1>1, <1>5, <2>2, <2>3, AnswerStep
  <1>6. CASE page # None
    <2>1. G_context' = done.ctx /\ Review(page) /\ reviewed' = ctx.raw_tx
      BY <1>1, <1>6
    <2>2. /\ page.page = "review"
          /\ [amount |-> page.amount, to |-> page.to, unit |-> page.unit]
               = ViewOf(done.ctx.m_hash, is_token)
      <3>1. /\ done.ctx.req_type = ReqType(is_token)
            /\ done.ctx.transaction = transaction_deserialize(done.ctx.m_hash, is_token)
            /\ is_token => done.ctx.token_info
                             = get_token_info(done.ctx.transaction.token_address)
        BY <1>3, <1>4
      <3>2. page = ui_display_transaction(done.ctx, is_token)
        BY DEF page
      <3> HIDE DEF hidden
      <3> QED
        BY <1>6, <3>1, <3>2, PageShowsBytes
    <2>3. ContextOK(G_context)' /\ ParsedOK(G_context)'
      BY <1>4, <2>1
    <2>4. WaitingHasReview'
      BY <2>1, <2>2 DEF Review, WaitingHasReview, IsReview
    <2>5. ReviewPage'
      BY <1>1, <1>4, <2>1, <2>2 DEF Review, ReviewPage, ViewOf, get_token_info,
         get_dynamic_token_info, get_hardcoded_token_info
    <2>6. ReviewedInv'
      BY <1>3, <1>4, <2>1, PrefixOfItself DEF ReviewedInv, ContextOK
    <2> QED
      BY <1>1, <2>1, <2>3, <2>4, <2>5, <2>6 DEF AppInv, Review, PromiseInv
  <1> QED
    BY <1>5, <1>6

\* The user's answer ends the review.
LEMMA validateStep ==
  ASSUME AppInv, NEW choice \in BOOLEAN, NEW signs \in BOOLEAN,
         validate_pubkey(choice) \/ validate_transaction(choice, signs)
  PROVE  AppInv'
  <1>1. /\ pending' = FALSE /\ screen' = Status
        /\ UNCHANGED <<running, G_swap_validated, reviewed>>
    BY DEF validate_pubkey, validate_transaction, ctxVars
  <1>2. WaitingHasReview' /\ ReviewPage'
    BY <1>1, PlainPages DEF WaitingHasReview, ReviewPage
  <1>3. /\ ContextOK(G_context)' /\ ParsedOK(G_context)'
        /\ G_context'.req_type = G_context.req_type /\ G_context'.raw_tx = G_context.raw_tx
        /\ G_context'.is_token_tx = G_context.is_token_tx
    <2>1. CASE validate_pubkey(choice)
      BY <2>1 DEF validate_pubkey, ctxVars, AppInv
    <2>2. CASE validate_transaction(choice, signs)
      <3>1. ContextOK(G_context) /\ ParsedOK(G_context) /\ G_context.state = "STATE_PARSED"
        BY <2>2 DEF validate_transaction, AppInv, ReviewPage
      <3>2. PICK s \in {"STATE_NONE", "STATE_APPROVED"} :
              G_context' = [G_context EXCEPT !.state = s]
        BY <2>2 DEF validate_transaction, SignOutcome
      <3> QED
        BY <3>1, <3>2, StateContextOK
    <2> QED
      BY <2>1, <2>2
  <1>4. ReviewedInv'
    BY <1>1, <1>3 DEF AppInv, ReviewedInv
  <1> QED
    BY <1>1, <1>2, <1>3, <1>4 DEF AppInv, PromiseInv

\* A command without effect, and what the exchange asks while the application is off.
LEMMA NoEffectStep ==
  ASSUME AppInv,
         \/ handler_get_version
         \/ \E p \in SwapParams : swap_refuse_parameters(p)
         \/ \E q \in AddressQueries : swap_handle_check_address(q)
         \/ \E q \in AmountQueries : swap_handle_get_printable_amount(q)
  PROVE  AppInv'
  <1>1. CASE handler_get_version
    BY <1>1, QuietStep DEF handler_get_version, Ready, Reply, ctxVars, AppInv
  <1>2. ASSUME NEW p \in SwapParams, swap_refuse_parameters(p) PROVE AppInv'
    BY <1>2, QuietStep DEF swap_refuse_parameters, ctxVars
  <1>3. ASSUME NEW q \in AddressQueries, swap_handle_check_address(q) PROVE AppInv'
    BY <1>3, QuietStep DEF swap_handle_check_address, ctxVars
  <1>4. ASSUME NEW q \in AmountQueries, swap_handle_get_printable_amount(q) PROVE AppInv'
    BY <1>4, QuietStep DEF swap_handle_get_printable_amount, ctxVars
  <1> QED
    BY <1>1, <1>2, <1>3, <1>4

\* The menu.
LEMMA MenuStep ==
  ASSUME AppInv,
         \/ ui_menu_main
         \/ \E switch \in {1, 2} : controls_callback(switch)
         \/ \E confirm \in BOOLEAN : review_warning_choice(confirm)
  PROVE  AppInv'
  <1>1. /\ screen \in {Menu, Status, Warning} /\ screen' \in {Menu, Status, Warning}
        /\ UNCHANGED <<running, ctxVars, pending, G_swap_validated>>
    BY DEF ui_menu_main, controls_callback, review_warning_choice
  <1> QED
    BY <1>1, PageStep

\* The dispatcher.
LEMMA apdu_dispatcherStep ==
  ASSUME AppInv, apdu_dispatcher
  PROVE  AppInv'
  <1>1. CASE handler_get_version
    BY <1>1, NoEffectStep
  <1>2. ASSUME NEW data \in Chunks, NEW is_token \in BOOLEAN, NEW signs \in BOOLEAN,
               check_and_sign_swap_tx(data, is_token, signs)
        PROVE  AppInv'
    BY <1>2, ClearStep DEF check_and_sign_swap_tx, PoweredOff
  <1> QED
    BY <1>1, <1>2, handler_get_public_keyStep, handler_provide_token_infoStep,
       init_transaction_contextStep, sign_tx_chunkStep, sign_tx_reviewStep
       DEF apdu_dispatcher

\* Every step keeps the invariant.
LEMMA NextAppInv == AppInv /\ [Next]_vars => AppInv'
  <1> SUFFICES ASSUME AppInv, [Next]_vars PROVE AppInv'
    OBVIOUS
  <1>1. CASE Start \/ Stop
    BY <1>1, SessionStep
  <1>2. CASE apdu_dispatcher
    BY <1>2, apdu_dispatcherStep
  <1>3. CASE User
    BY <1>3, validateStep, MenuStep DEF User
  <1>4. CASE Exchange
    BY <1>4, SessionStep, NoEffectStep DEF Exchange
  <1>5. CASE UNCHANGED vars
    BY <1>5, QuietStep DEF vars
  <1> QED
    BY <1>1, <1>2, <1>3, <1>4, <1>5 DEF Next

\* AppInv holds in every reachable state.
THEOREM AppInvariance == Spec => []AppInv
  BY InitAppInv, NextAppInv, PTL DEF Spec

-----------------------------------------------------------------------------
(* The properties. *)

\* The request in G_context is well typed: the raw transaction never outgrows its buffer, and
\* a request of one kind never holds results of another (handler_sign_tx,
\* handler_get_public_key).
THEOREM AppTypeCorrect == Spec => []TypeOK
  <1>1. AppInv => TypeOK
    BY DEF AppInv, ContextOK, TypeOK
  <1> QED
    BY <1>1, AppInvariance, PTL

\* An answer is owed exactly while a review is on the screen (review_choice, io_send_sw).
THEOREM AlwaysAnswered == Spec => []WaitingHasReview
  <1>1. AppInv => WaitingHasReview
    BY DEF AppInv
  <1> QED
    BY <1>1, AppInvariance, PTL

\* The bytes that are hashed are the serialisation of the transaction under review, for
\* every size of nonce, address and value, when they give the memo length in its shortest
\* form (transaction_deserialize, transaction_serialize).
THEOREM HashedSerialized == Spec => []HashedIsSerialized
  <1>1. AppInv => HashedIsSerialized
    <2> SUFFICES ASSUME AppInv, G_context.state = "STATE_PARSED", ~G_context.is_token_tx,
                        HasShortLength(G_context.m_hash, FALSE)
                 PROVE  G_context.m_hash
                          = transaction_serialize(G_context.transaction, MAX_TX_LEN)
      BY DEF HashedIsSerialized
    <2>1. G_context.is_token_tx = FALSE
      BY DEF AppInv, ContextOK
    <2>2. /\ G_context.m_hash \in Seq(Byte)
          /\ G_context.transaction = transaction_deserialize(G_context.m_hash, FALSE)
          /\ G_context.transaction.status = "PARSING_OK"
      BY <2>1 DEF AppInv, ParsedOK
    <2> QED
      BY <2>2, SerializeParsed
  <1> QED
    BY <1>1, AppInvariance, PTL

\* The settings keep their three switches.
StorageInv == DOMAIN N_storage = {"initialized", "dummy1_allowed", "dummy2_allowed"}

\* No step but the answer to the warning turns the second switch on.
LEMMA NextStorage ==
  ASSUME StorageInv, [Next]_vars
  PROVE  /\ StorageInv'
         /\ ~N_storage.dummy2_allowed /\ N_storage'.dummy2_allowed => screen = Warning
  <1>1. CASE UNCHANGED N_storage
    BY <1>1 DEF StorageInv
  <1>2. CASE N_storage' = InitStorage
    BY <1>2 DEF StorageInv, InitStorage
  <1>3. ASSUME NEW switch \in {1, 2}, controls_callback(switch)
        PROVE  StorageInv' /\ (N_storage'.dummy2_allowed => N_storage.dummy2_allowed)
    <2>1. \/ UNCHANGED N_storage
          \/ N_storage' = [N_storage EXCEPT !.dummy1_allowed = ~@]
          \/ N_storage.dummy2_allowed /\ N_storage' = [N_storage EXCEPT !.dummy2_allowed = ~@]
      BY <1>3 DEF controls_callback
    <2> QED
      BY <2>1 DEF StorageInv
  <1>4. ASSUME NEW confirm \in BOOLEAN, review_warning_choice(confirm)
        PROVE  StorageInv' /\ screen = Warning
    BY <1>4 DEF StorageInv, review_warning_choice
  <1>5. CASE Start \/ Stop
    BY <1>1, <1>2, <1>5 DEF Start, Stop, app_main
  <1>6. CASE apdu_dispatcher
    BY <1>1, <1>6 DEF apdu_dispatcher, handler_get_version, handler_get_public_key,
       handler_provide_token_info, init_transaction_context, sign_tx_chunk, sign_tx_review,
       check_and_sign_swap_tx
  <1>7. CASE User
    BY <1>1, <1>3, <1>4, <1>7 DEF User, validate_pubkey, validate_transaction, ui_menu_main
  <1>8. CASE Exchange
    BY <1>1, <1>2, <1>8 DEF Exchange, swap_copy_transaction_parameters, app_main,
       swap_refuse_parameters, swap_handle_check_address, swap_handle_get_printable_amount
  <1> QED
    BY <1>1, <1>5, <1>6, <1>7, <1>8 DEF Next, vars

\* The second switch is turned on only from the warning page (controls_callback,
\* review_warning_choice).
THEOREM Warned == Spec => WarnedBeforeOn
  <1>1. Init => StorageInv
    BY DEF Init, StorageInv
  <1>2. StorageInv /\ [Next]_vars => StorageInv'
    BY NextStorage
  <1>3. StorageInv /\ [Next]_vars
          => [~N_storage.dummy2_allowed /\ N_storage'.dummy2_allowed => screen = Warning]_vars
    BY NextStorage
  <1> QED
    BY <1>1, <1>2, <1>3, PTL DEF Spec, WarnedBeforeOn

\* A second review of a request needs a chunk that was accepted and parses.
LEMMA NextReviewed ==
  ASSUME AppInv, [Next]_vars, reviewed # <<>>, reviewed' \notin {<<>>, reviewed}
  PROVE  Len(reviewed) = HeaderLen(G_context.is_token_tx)
  <1>1. PICK data \in Chunks, is_token \in BOOLEAN : sign_tx_review(data, is_token)
    <2>1. CASE Start \/ Stop
      BY <2>1 DEF Start, Stop, app_main, PoweredOff
    <2>2. CASE apdu_dispatcher
      BY <2>2 DEF apdu_dispatcher, handler_get_version, handler_get_public_key,
         handler_provide_token_info, init_transaction_context, sign_tx_chunk,
         check_and_sign_swap_tx, PoweredOff, ctxVars
    <2>3. CASE User
      BY <2>3 DEF User, validate_pubkey, validate_transaction, ui_menu_main,
         controls_callback, review_warning_choice, ctxVars
    <2>4. CASE Exchange
      BY <2>4 DEF Exchange, swap_copy_transaction_parameters, app_main, ctxVars,
         swap_refuse_parameters, swap_handle_check_address, swap_handle_get_printable_amount
    <2> QED
      BY <2>1, <2>2, <2>3, <2>4 DEF Next, vars
  <1> DEFINE ctx  == [G_context EXCEPT !.raw_tx = @ \o data]
             done == process_transaction(ctx, is_token)
  <1>2. /\ accumulate_transaction_data(data, is_token) = "SWO_SUCCESS"
        /\ done.err = "SWO_SUCCESS" /\ reviewed' = ctx.raw_tx
    BY <1>1 DEF sign_tx_review
  <1>3. ContextOK(G_context) /\ ParsedOK(G_context)
    BY DEF AppInv
  <1> HIDE DEF ctx, done
  <1>4. /\ ContextOK(ctx) /\ ParsedOK(ctx) /\ ctx.req_type = ReqType(is_token)
        /\ ctx.req_type = G_context.req_type /\ PrefixOf(G_context.raw_tx, ctx.raw_tx)
    BY <1>2, <1>3, AppendContextOK DEF ctx
  <1>5. transaction_deserialize(ctx.raw_tx, is_token).status = "PARSING_OK"
    BY <1>2, <1>4, ProcessedContext DEF done
  <1>6. /\ reviewed \in Seq(Byte) /\ PrefixOf(reviewed, G_context.raw_tx)
        /\ G_context.req_type = ReqType(G_context.is_token_tx)
        /\ transaction_deserialize(reviewed, G_context.is_token_tx).status = "PARSING_OK"
    BY DEF AppInv, ReviewedInv
  <1>7. G_context.is_token_tx = is_token
    BY <1>3, <1>4, <1>6 DEF ContextOK, ReqType
  <1>8. PrefixOf(reviewed, ctx.raw_tx)
    BY <1>3, <1>4, <1>6 DEF PrefixOf, ContextOK
  <1>9. ctx.raw_tx \in Seq(Byte) /\ reviewed # ctx.raw_tx
    BY <1>2, <1>4 DEF ContextOK
  <1> QED
    BY <1>5, <1>6, <1>7, <1>8, <1>9, PrefixHasNoLength

\* A request is reviewed a second time only when the first transaction ended before its memo
\* length: for every field size, no other transaction is a proper prefix of a transaction
\* (transaction_deserialize, accumulate_transaction_data).
THEOREM OneReview == Spec => ReviewedOnce
  <1>1. AppInv /\ [Next]_vars
          => [reviewed # <<>> /\ reviewed' \notin {<<>>, reviewed}
                => Len(reviewed) = HeaderLen(G_context.is_token_tx)]_vars
    BY NextReviewed
  <1> QED
    BY <1>1, AppInvariance, PTL DEF Spec, ReviewedOnce

-----------------------------------------------------------------------------
(* The refinement of Approval. *)

\* A view is not None.
LEMMA ViewsAreSome ==
  ASSUME NEW a, NEW b, NEW c
  PROVE  [amount |-> a, to |-> b, unit |-> c] # None
  BY DEF None

\* Outside a review nothing is shown.
LEMMA NothingShown ==
  ASSUME AppInv, ~pending
  PROVE  Shown = None /\ screen.page # "review"
  BY DEF AppInv, WaitingHasReview, IsReview, Shown

\* An answer that is no signature, or none, with the screen left alone or without a
\* transaction, and the promise kept or forgotten.
LEMMA ElseStep ==
  ASSUME resp' # None => resp'.kind # "signature",
         UNCHANGED screen \/ screen'.page # "review",
         G_swap_validated' \in {G_swap_validated, None}
  PROVE  A!Else
  <1>1. Signed' = None
    BY DEF Signed
  <1>2. Shown' \in {Shown, None}
    BY DEF Shown
  <1> QED
    BY <1>1, <1>2 DEF A!Else

\* An answer with a status word.
LEMMA StatusStep ==
  ASSUME NEW s, resp' = Sw(s), UNCHANGED screen \/ screen'.page # "review",
         G_swap_validated' \in {G_swap_validated, None}
  PROVE  A!Else
  BY ElseStep DEF Sw

\* What a signature says depends on its bytes and on the token slot only.
LEMMA SignatureView ==
  ASSUME NEW ctx, resp' = helper_send_response_sig(ctx), UNCHANGED g_dynamic_token_info
  PROVE  Signed' = ViewOf(ctx.m_hash, ctx.is_token_tx)
  <1>1. resp'.kind = "signature" /\ resp'.hash = ctx.m_hash /\ resp'.is_token = ctx.is_token_tx
    BY DEF helper_send_response_sig
  <1>2. resp' # None
    BY DEF helper_send_response_sig, None
  <1>3. Signed' = ViewOf(resp.hash, resp.is_token)'
    BY <1>1, <1>2 DEF Signed
  <1> QED
    BY <1>1, <1>3 DEF ViewOf, get_token_info, get_dynamic_token_info, get_hardcoded_token_info

\* The application starts as Approval does.
LEMMA StartApproval ==
  ASSUME AppInv, Start \/ Stop
  PROVE  A!Next
  <1>1. /\ resp' = None /\ G_swap_validated' = None /\ screen' \in {Menu, NoScreen}
    BY DEF Start, Stop, app_main, PoweredOff
  <1>2. screen'.page # "review"
    BY <1>1, PlainPages
  <1> QED
    BY <1>1, <1>2, ElseStep DEF A!Next

\* An exchange begins with its promise.
LEMMA BeginApproval ==
  ASSUME AppInv, NEW p \in SwapParams, swap_copy_transaction_parameters(p)
  PROVE  A!Begin
  <1>1. running = "off" /\ resp' = None /\ screen' = NoScreen
    BY DEF swap_copy_transaction_parameters, app_main
  <1>2. Shown = None
    BY <1>1 DEF AppInv, ReviewPage, Shown
  <1>3. Shown' = None
    BY <1>1, PlainPages DEF Shown
  <1>4. Signed' = None
    BY <1>1 DEF Signed
  <1>5. G_swap_validated' # None
    BY DEF swap_copy_transaction_parameters, None
  <1> QED
    BY <1>2, <1>3, <1>4, <1>5 DEF A!Begin

\* The answers of the commands that show no transaction.
LEMMA CommandApproval ==
  ASSUME AppInv,
         \/ handler_get_version
         \/ \E path \in Paths \cup {None}, display, derives \in BOOLEAN :
              handler_get_public_key(path, display, derives)
         \/ \E d \in Descriptors : handler_provide_token_info(d)
         \/ \E path \in Paths \cup {None}, is_token \in BOOLEAN :
              init_transaction_context(path, is_token)
         \/ \E data \in Chunks, more, is_token \in BOOLEAN : sign_tx_chunk(data, more, is_token)
  PROVE  A!Else
  <1>1. CASE handler_get_version
    BY <1>1, StatusStep DEF handler_get_version, Reply
  <1>2. ASSUME NEW path \in Paths \cup {None}, NEW display \in BOOLEAN,
               NEW derives \in BOOLEAN, handler_get_public_key(path, display, derives)
        PROVE  A!Else
    <2>1. UNCHANGED G_swap_validated
      BY <1>2 DEF handler_get_public_key
    <2>2. \/ \E s : Reply(Sw(s))
          \/ \E c : Review(ui_display_address(c))
          \/ \E c : Reply(helper_send_response_pubkey(c))
      BY <1>2 DEF handler_get_public_key
    <2>3. ASSUME NEW s, Reply(Sw(s)) PROVE A!Else
      BY <2>1, <2>3, StatusStep DEF Reply
    <2>4. ASSUME NEW c, Review(ui_display_address(c)) PROVE A!Else
      BY <2>1, <2>4, ElseStep DEF Review, ui_display_address
    <2>5. ASSUME NEW c, Reply(helper_send_response_pubkey(c)) PROVE A!Else
      BY <2>1, <2>5, ElseStep DEF Reply, helper_send_response_pubkey
    <2> QED
      BY <2>2, <2>3, <2>4, <2>5
  <1>3. ASSUME NEW d \in Descriptors, handler_provide_token_info(d) PROVE A!Else
    BY <1>3, StatusStep DEF handler_provide_token_info, Reply
  <1>4. ASSUME NEW path \in Paths \cup {None}, NEW is_token \in BOOLEAN,
               init_transaction_context(path, is_token)
        PROVE  A!Else
    BY <1>4, StatusStep DEF init_transaction_context, Reply
  <1>5. ASSUME NEW data \in Chunks, NEW more \in BOOLEAN, NEW is_token \in BOOLEAN,
               sign_tx_chunk(data, more, is_token)
        PROVE  A!Else
    <2>1. UNCHANGED G_swap_validated /\ \E s : Reply(Sw(s))
      BY <1>5 DEF sign_tx_chunk
    <2> QED
      BY <2>1, StatusStep DEF Reply
  <1> QED
    BY <1>1, <1>2, <1>3, <1>4, <1>5

\* A review appears only while none is shown.
LEMMA AskApproval ==
  ASSUME AppInv, NEW data \in Chunks, NEW is_token \in BOOLEAN, sign_tx_review(data, is_token)
  PROVE  A!Next
  <1> DEFINE ctx  == [G_context EXCEPT !.raw_tx = @ \o data]
             done == process_transaction(ctx, is_token)
             page == ui_display_transaction(done.ctx, is_token)
  <1>1. /\ Ready /\ UNCHANGED G_swap_validated
        /\ \/ \E s : Reply(Sw(s))
           \/ page # None /\ Review(page)
    BY DEF sign_tx_review
  <1>2. ASSUME NEW s, Reply(Sw(s)) PROVE A!Next
    BY <1>1, <1>2, StatusStep DEF Reply, A!Next
  <1>3. CASE page # None /\ Review(page)
    <2>1. Shown = None
      BY <1>1, NothingShown DEF Ready
    <2>2. screen' = page /\ resp' = None
      BY <1>3 DEF Review
    <2>3. page.page = "review"
      <3> HIDE DEF done
      <3> QED
        BY <1>3 DEF ui_display_transaction, ui_display_transaction_bs_token_choice
    <2> HIDE DEF page
    <2>4. Shown' # None
      BY <2>2, <2>3, ViewsAreSome DEF Shown
    <2>5. Signed' = None
      BY <2>2 DEF Signed
    <2> QED
      BY <1>1, <2>1, <2>4, <2>5 DEF A!Next, A!Ask
  <1> QED
    BY <1>1, <1>2, <1>3

\* A signature after a review is for what was shown.
LEMMA AcceptApproval ==
  ASSUME AppInv, NEW choice \in BOOLEAN, NEW signs \in BOOLEAN,
         validate_transaction(choice, signs)
  PROVE  A!Next
  <1>1. /\ pending /\ screen.page = "review" /\ screen' = Status
        /\ UNCHANGED <<g_dynamic_token_info, G_swap_validated>>
    BY DEF validate_transaction
  <1>2. screen'.page # "review"
    BY <1>1, PlainPages
  <1>3. CASE choice /\ signs
    <2>1. resp' = helper_send_response_sig(G_context)
      BY <1>3 DEF validate_transaction, SignOutcome
    <2>2. Signed' = ViewOf(G_context.m_hash, G_context.is_token_tx)
      BY <1>1, <2>1, SignatureView
    <2>3. Shown = ViewOf(G_context.m_hash, G_context.is_token_tx)
      BY <1>1 DEF AppInv, ReviewPage, Shown
    <2>4. Shown # None
      BY <1>1, ViewsAreSome DEF Shown
    <2>5. Shown' = None
      BY <1>2 DEF Shown
    <2> QED
      BY <1>1, <2>2, <2>3, <2>4, <2>5 DEF A!Next, A!Accept
  <1>4. CASE ~(choice /\ signs)
    <2>1. \E s : resp' = Sw(s)
      BY <1>4 DEF validate_transaction, SignOutcome
    <2> QED
      BY <1>1, <1>2, <2>1, StatusStep DEF A!Next
  <1> QED
    BY <1>3, <1>4

\* A signature in an exchange keeps the promise and uses it up.
LEMMA DeliverApproval ==
  ASSUME AppInv, NEW data \in Chunks, NEW is_token \in BOOLEAN, NEW signs \in BOOLEAN,
         check_and_sign_swap_tx(data, is_token, signs)
  PROVE  A!Next
  <1> DEFINE ctx  == [G_context EXCEPT !.raw_tx = @ \o data]
             done == process_transaction(ctx, is_token)
             tx   == transaction_deserialize(ctx.raw_tx, is_token)
  <1>1. /\ accumulate_transaction_data(data, is_token) = "SWO_SUCCESS"
        /\ G_swap_validated' = None /\ screen' = NoScreen /\ UNCHANGED g_dynamic_token_info
        /\ \/ \E s : resp' = Sw(s)
           \/ /\ done.err = "SWO_SUCCESS" /\ swap_check_validity(done.ctx)
              /\ resp' = helper_send_response_sig(done.ctx)
    BY DEF check_and_sign_swap_tx, PoweredOff, SignOutcome
  <1>2. screen'.page # "review"
    BY <1>1, PlainPages
  <1>3. ASSUME NEW s, resp' = Sw(s) PROVE A!Next
    BY <1>1, <1>2, <1>3, StatusStep DEF A!Next
  <1>4. CASE /\ done.err = "SWO_SUCCESS" /\ swap_check_validity(done.ctx)
             /\ resp' = helper_send_response_sig(done.ctx)
    <2> HIDE DEF ctx, done
    <2>1. /\ ContextOK(ctx) /\ ParsedOK(ctx) /\ ctx.req_type = ReqType(is_token)
      BY <1>1, AppendContextOK DEF ctx, AppInv
    <2>2. /\ done.ctx.is_token_tx = is_token /\ done.ctx.m_hash = ctx.raw_tx
          /\ done.ctx.transaction = tx /\ tx.status = "PARSING_OK"
          /\ is_token => done.ctx.token_info = get_token_info(tx.token_address)
      BY <1>4, <2>1, ProcessedContext DEF done
    <2>3. tx.fee = 0
      BY <2>1, <2>2, ParsedLength DEF ContextOK
    <2>4. Signed' = ViewOf(ctx.raw_tx, is_token)
      BY <1>1, <1>4, <2>2, SignatureView
    <2> DEFINE unit == IF is_token THEN get_token_info(tx.token_address) ELSE NativeUnit
    <2>5. ViewOf(ctx.raw_tx, is_token) = [amount |-> tx.value, to |-> Hex(tx.to), unit |-> unit]
      BY DEF ViewOf
    <2> HIDE DEF tx
    <2>6. /\ G_swap_validated # None
          /\ is_token = (G_swap_validated.unit # NativeUnit)
          /\ is_token => get_token_info(tx.token_address) = G_swap_validated.unit
          /\ G_swap_validated.amount = tx.value
          /\ G_swap_validated.fee = tx.fee
          /\ G_swap_validated.recipient = Hex(tx.to)
      BY <1>4, <2>2 DEF swap_check_validity, is_token_swap
    <2>7. unit = G_swap_validated.unit
      BY <2>6
    <2> HIDE DEF unit
    <2>8. Keeps(Signed', G_swap_validated)
      BY <2>3, <2>4, <2>5, <2>6, <2>7 DEF Keeps
    <2>9. Signed' # None
      BY <2>4, <2>5, ViewsAreSome
    <2>10. Shown' = None
      BY <1>2 DEF Shown
    <2> QED
      BY <1>1, <2>6, <2>8, <2>9, <2>10 DEF A!Next, A!Deliver
  <1> QED
    BY <1>1, <1>3, <1>4

\* The menu leaves what is shown, promised and signed as it was.
LEMMA MenuApproval ==
  ASSUME AppInv,
         \/ ui_menu_main
         \/ \E switch \in {1, 2} : controls_callback(switch)
         \/ \E confirm \in BOOLEAN : review_warning_choice(confirm)
  PROVE  UNCHANGED <<Shown, G_swap_validated, Signed>>
  <1>1. /\ screen \in {Menu, Status, Warning} /\ screen' \in {Menu, Status, Warning}
        /\ UNCHANGED <<G_swap_validated, resp, g_dynamic_token_info>>
    BY DEF ui_menu_main, controls_callback, review_warning_choice
  <1>2. Shown = None /\ Shown' = None
    BY <1>1, PlainPages DEF Shown
  <1>3. Signed' = Signed
    BY <1>1 DEF Signed, ViewOf, get_token_info, get_dynamic_token_info,
       get_hardcoded_token_info
  <1> QED
    BY <1>1, <1>2, <1>3

\* What the exchange asks while the application is off.
LEMMA QueryApproval ==
  ASSUME \/ \E p \in SwapParams : swap_refuse_parameters(p)
         \/ \E q \in AddressQueries : swap_handle_check_address(q)
         \/ \E q \in AmountQueries : swap_handle_get_printable_amount(q)
  PROVE  A!Else
  <1>1. ASSUME NEW p \in SwapParams, swap_refuse_parameters(p) PROVE A!Else
    BY <1>1, StatusStep DEF swap_refuse_parameters
  <1>2. ASSUME NEW q \in AddressQueries, swap_handle_check_address(q) PROVE A!Else
    BY <1>2, StatusStep DEF swap_handle_check_address
  <1>3. ASSUME NEW q \in AmountQueries, swap_handle_get_printable_amount(q) PROVE A!Else
    <2>1. resp'.kind # "signature"
      BY <1>3 DEF swap_handle_get_printable_amount, Sw
    <2> QED
      BY <1>3, <2>1, ElseStep DEF swap_handle_get_printable_amount
  <1> QED
    BY <1>1, <1>2, <1>3

\* Every step of AppMain is a step of Approval or a stutter.
LEMMA NextApproval == AppInv /\ [Next]_vars => [A!Next]_<<Shown, G_swap_validated, Signed>>
  <1> SUFFICES ASSUME AppInv, [Next]_vars
               PROVE  A!Next \/ UNCHANGED <<Shown, G_swap_validated, Signed>>
    OBVIOUS
  <1>1. CASE Start \/ Stop
    BY <1>1, StartApproval
  <1>2. CASE apdu_dispatcher
    BY <1>2, CommandApproval, AskApproval, DeliverApproval DEF apdu_dispatcher, A!Next
  <1>3. CASE User
    <2>1. ASSUME NEW choice \in BOOLEAN, validate_pubkey(choice) PROVE A!Next
      <3>1. screen' = Status /\ UNCHANGED G_swap_validated /\ resp'.kind # "signature"
        BY <2>1 DEF validate_pubkey, helper_send_response_pubkey, Sw
      <3>2. screen'.page # "review"
        BY <3>1, PlainPages
      <3> QED
        BY <3>1, <3>2, ElseStep DEF A!Next
    <2> QED
      BY <1>3, <2>1, AcceptApproval, MenuApproval DEF User
  <1>4. CASE Exchange
    BY <1>4, BeginApproval, QueryApproval DEF Exchange, A!Next
  <1>5. CASE UNCHANGED vars
    BY <1>5 DEF vars, Shown, Signed, ViewOf, get_token_info, get_dynamic_token_info,
       get_hardcoded_token_info
  <1> QED
    BY <1>1, <1>2, <1>3, <1>4, <1>5 DEF Next

\* A signature leaves the device only for the transaction on the screen when the user
\* accepts, or once for a transaction that keeps the exchange's promise, for every sequence
\* of chunks, descriptors, address requests and restarts (validate_transaction,
\* check_and_sign_swap_tx).
THEOREM Approved == Spec => ImplementsApproval
  <1>1. Init => A!Init
    BY PlainPages DEF Init, A!Init, Shown, Signed
  <1> QED
    BY <1>1, AppInvariance, NextApproval, PTL DEF Spec, ImplementsApproval, A!Spec

=============================================================================
