SPECIFICATION Spec
CONSTANTS
    Values8 = 4
    Values16 = 8
    Values32 = 32
    Values64 = 64
    Literals <- MCLiterals
    NaN = NaN
    Inf = Inf
    NegInf = NegInf
    NegZero = NegZero
    Subnormal = Subnormal
    Tiny = Tiny
    Huge = Huge
INVARIANTS
    RoundTrip
    WideningIsLossless
CHECK_DEADLOCK FALSE
