----------------------------- MODULE MCFalconLR -----------------------------
(* Small instances of FalconLR for TLC. *)
EXTENDS FalconLR, TLC

CONSTANTS m1, m2, msg1, msg2, hs, r1, r2

\* First chunk, the one that straddles s2 byte 1024, one beyond a 512 key, the last one of
\* a 1024 key, the first one past its end.
MCChunks == {0, 4, 5, 8, 9}

TrngSymmetry == Permutations(TrngSeeds)

NoneUnlucky == {}

\* Signing msg2 with the host-fed seed fails at both degrees.
MCUnlucky == {SigOf(d, Priv(s), msg2, hs) : d \in Degrees, s \in Seeds}
=============================================================================
