\* The functions return: a behaviour ends with the last iteration, or the handler.
SPECIFICATION MCSpec
CONSTANTS
    WB = 3
    Base = 8
    Half = 4
    Squarings = 2
    PRIMES <- P3
    LPRIMES <- L3
    Operands <- MCOperands
    Longs <- MCLongs
    Shorts <- MCShorts
    Factor = {1, 90, 127}
    Degrees = {2, 3, 4, 5, 6, 7, 8, 9, 10}
CHECK_DEADLOCK FALSE
INVARIANTS BezoutCorrect WideZintExact KeygenMemory
