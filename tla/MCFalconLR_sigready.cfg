\* The signing instance, against the comment on sig_ready in globals.h.
SPECIFICATION Spec
CONSTANTS
    m1 = m1  m2 = m2  msg1 = msg1  msg2 = msg2  hs = hs  r1 = r1  r2 = r2
    Mnemonics = {m1}
    Msgs = {msg1, msg2}
    HostSeeds = {hs}
    TrngSeeds = {r1}
    Chunks <- MCChunks
    Unlucky <- MCUnlucky
SYMMETRY TrngSymmetry
CHECK_DEADLOCK TRUE
INVARIANT SigReadyNamesSignature
