\* A get after a failed constructor dereferences the null handle (any set or commit would too: none checks handle).
SPECIFICATION Spec
CONSTANTS
    k15 = k15
    k16 = k16
    k15b = k15b
    Keys = {k15, k16}
    KeyLen <- MCKeyLen
    NamespaceLens = {15, 16}
    U8Values = {0, 1, 2}
    Chars = {"a"}
    NUL = NUL
    MaxStrLen = 1
    ReuseErrorCode = FALSE
    MaxReboots = 1
INVARIANT NoNullHandleUse
\* A call on the null handle crashes the program; once the resets are used
\* up, no step follows it.
CHECK_DEADLOCK FALSE
