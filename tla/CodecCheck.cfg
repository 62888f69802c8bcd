\* Every compressed string of four 4-bit bytes, every refusal pattern of eight samples, and
\* values at the bounds of the fixed-width formats.
SPECIFICATION Spec
CONSTANTS
    BB = 4
    B_INF = 20
    CompLen = 4
    CoefMax = 22
    HVals = {0, 1, 8191, 12288, 12289, 16383}
    Bytes8 = {0, 1, 16, 64, 127, 128, 192, 255}
    Block = 4
    Over = 5
    HashN = 3
    CtxMax = 1
    OidMax = 1
    MsgBytes = {0, 1}
INVARIANTS
    CompressedCanonical
    KeyCodecsInverse
    HashWaysAgree
    SignedInputsBound
    SigningRoom
