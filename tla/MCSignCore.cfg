\* Five keys, four challenges, sampled integers up to 4 above the floor of their centre (far
\* enough to be rejected), two attempts.
SPECIFICATION Spec
CONSTANTS
    LogN = 1
    Keys <- MCKeys
    Nonces <- MCNonces
    Hash <- MCHash
    Offsets = {0, 1, 4}
    MaxAttempts = 2
CHECK_DEADLOCK TRUE
INVARIANTS SamplerInputs SignatureIsLatticeVector OutputVerifies
PROPERTIES SignAdvances
