\* NVSHandle driven by an application that keeps one error_code across calls and clears it at will, so calls begin with a clear or a stale error_code.
SPECIFICATION Spec
CONSTANTS
    k15 = k15
    k16 = k16
    k15b = k15b
    Keys = {k15, k16}
    KeyLen <- MCKeyLen
    NamespaceLens = {15, 16}
    U8Values = {0, 1, 2}
    Chars = {"a"}
    NUL = NUL
    MaxStrLen = 1
    ReuseErrorCode = TRUE
    MaxReboots = 1
INVARIANTS TypeOK ReadsReturnWritten
\* A call on the null handle crashes the program; once the resets are used
\* up, no step follows it.
CHECK_DEADLOCK FALSE
