\* ffsamp_fft at degree 8, every outcome of eight integer samples out of two values.
SPECIFICATION Spec
CONSTANTS
    P = 46271  LogMax = 4  W <- MCW
    LogN = 3  Q = 12289
    Zs <- MCZs  Targets <- MCTargets  Grams <- MCGrams  Hashes <- MCHashes
    Junk = 17
INVARIANTS SamplesNearestPlane OutputIsDifference
