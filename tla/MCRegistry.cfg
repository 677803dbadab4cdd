SPECIFICATION Spec
CONSTANTS
    c1 = c1
    c2 = c2
    a = a
    b = b
    Conn = {c1, c2, c3}
    d = d
    Name = {a, b, d}
    NoName = NoName
    LongName = LongName
    MaxUsers = 2
    Fd = {4, 5, 6}
    c3 = c3
    MaxLines <- MCLines
    Entered <- MCEntered
    Typed <- MCTyped
INVARIANTS UniqueNames Wired InStep ReadsOnlyReady Agreement
PROPERTIES RoundComplete LeavesOnlyOnCause
CHECK_DEADLOCK FALSE
