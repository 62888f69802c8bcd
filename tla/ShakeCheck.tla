----------------------------- MODULE ShakeCheck -----------------------------
(***************************************************************************)
(* A caller of the streaming hash functions: it injects the message Msg in *)
(* chunks of any lengths, flips the context and extracts in chunks, or     *)
(* closes it as SHA-3 and starts again.  The first implementation's context*)
(* is driven through the same SHAKE calls.                                 *)
(***************************************************************************)
EXTENDS LegacyShake

CONSTANTS
    Size,       \* the size given to shake_init(): 256
    Chunks,     \* lengths of one injection
    MaxIn,      \* bound on the bytes injected between two flips
    OutChunks,  \* lengths of one extraction
    MaxOut,     \* bound on the bytes extracted
    Msg         \* the message

ASSUME ShakeAssumption ==
    /\ Size = 256
    /\ Chunks \subseteq Nat /\ MaxIn \in Nat
    /\ OutChunks \subseteq Nat /\ MaxOut \in Nat
    /\ Msg \in [0..(MaxIn - 1) -> Byte]

VARIABLES
    asm,        \* how the first implementation was compiled
    sc,         \* the context
    lsc,        \* the first implementation's
    phase,      \* "inject" or "extract"
    inLen,      \* bytes injected
    outLen,     \* bytes extracted
    got         \* what the last call returned
vars == <<asm, sc, lsc, phase, inLen, outLen, got>>

\* A message, as an instance of Msg.
SampleMsg == [i \in 0..(MaxIn - 1) |-> {b \in 0..7 : ((29 * i + 17) \div 2 ^ b) % 2 = 1}]

Nothing == [kind |-> "none", len |-> 0, from |-> 0, bytes |-> <<>>, legacy |-> <<>>]

Init ==
    /\ asm \in BOOLEAN
    /\ sc = shake_init(Size)
    /\ lsc = i_shake256_init
    /\ phase = "inject" /\ inLen = 0 /\ outLen = 0 /\ got = Nothing

Inject ==
    /\ phase = "inject"
    /\ \E len \in Chunks :
         /\ inLen + len <= MaxIn
         /\ LET in == [u \in 0..(len - 1) |-> Msg[inLen + u]]
            IN  /\ sc' = shake_inject(sc, in, len)
                /\ lsc' = i_shake256_inject(asm, lsc, in, len)
         /\ inLen' = inLen + len
    /\ got' = Nothing
    /\ UNCHANGED <<asm, phase, outLen>>

Flip ==
    /\ phase = "inject"
    /\ sc' = shake_flip(sc)
    /\ lsc' = i_shake256_flip(lsc)
    /\ phase' = "extract"
    /\ got' = Nothing
    /\ UNCHANGED <<asm, inLen, outLen>>

\* The first implementation has no way to skip output: it extracts and drops it.
Extract ==
    /\ phase = "extract"
    /\ \E len \in OutChunks, null \in BOOLEAN :
         /\ outLen + len <= MaxOut
         /\ \E x \in {shake_extract(sc, len, null)}, y \in {i_shake256_extract(asm, lsc, len)} :
              /\ sc' = x.sc
              /\ lsc' = y.sc
              /\ got' = IF null THEN Nothing
                        ELSE [kind |-> "shake", len |-> inLen, from |-> outLen,
                              bytes |-> x.out, legacy |-> y.out]
         /\ outLen' = outLen + len
    /\ UNCHANGED <<asm, phase, inLen>>

Close ==
    /\ phase = "inject"
    /\ \E x \in {sha3_close(sc)} :
         /\ sc' = x.sc
         /\ got' = [kind |-> "sha3", len |-> inLen, from |-> 0, bytes |-> x.out, legacy |-> x.out]
    /\ lsc' = i_shake256_init
    /\ inLen' = 0
    /\ UNCHANGED <<asm, phase, outLen>>

Next == Inject \/ Flip \/ Extract \/ Close
Spec == Init /\ [][Next]_vars

-----------------------------------------------------------------------------
Suffix(kind) == IF kind = "shake" THEN {0, 1, 2, 3, 4} ELSE {1, 2}

\* What a call returns is the standard's sponge output for the whole message, at
\* the position the previous extractions reached, however shake_inject() and
\* shake_extract() were called: with lengths that end just before, at or just
\* after a block, with empty chunks, with skipped output, and after sha3_close()
\* has reset the context.  Both permutations of the first implementation agree.
StreamIsSponge ==
    got.kind # "none" =>
        \E ref \in {Sponge(Msg, got.len, Suffix(got.kind), sc.rate, got.from, Len(got.bytes))} :
            got.bytes = ref /\ got.legacy = ref
=============================================================================
