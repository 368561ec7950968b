\* All operands of div64_u64 in words of 3 bits and double words of 6.
CONSTANT W = 3
SPECIFICATION MathSpec
INVARIANT
    Divide64Exact
