\* A kept error_code is never cleared by a successful call: Key_Not_Found
\* from a get of one key outlives it into a get of another key.
SPECIFICATION Spec
CONSTANTS
    k15 = k15
    k16 = k16
    k15b = k15b
    Keys = {k15, k15b, k16}
    KeyLen <- MCKeyLen
    NamespaceLens = {15, 16}
    U8Values = {0, 1, 2}
    Chars = {"a"}
    NUL = NUL
    MaxStrLen = 1
    ReuseErrorCode = TRUE
    MaxReboots = 0
INVARIANT ErrorCodeReportsCall
\* A call on the null handle crashes the program; once the resets are used
\* up, no step follows it.
CHECK_DEADLOCK FALSE
