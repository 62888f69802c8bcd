\* The FFT codes at degrees 2 to 16, and legacy signing at degrees 2, 4 and 8.
SPECIFICATION Spec
CONSTANTS
    P = 46271  LogMax = 4  W <- MCW
    Inputs <- MCInputs  Keys <- MCKeys  Hashed <- MCHashed
INVARIANTS FftEvaluates SplitMergeExact SlotOperations LdlAgrees SigningWaysAgree LegacyNearestPlane LegacyVerifies
