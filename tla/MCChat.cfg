SPECIFICATION FairSpec
CONSTANTS
    c1 = c1
    c2 = c2
    a = a
    b = b
    Conn = {c1, c2}
    Name = {a, b}
    NoName = NoName
    LongName = LongName
    MaxUsers = 2
    Fd = {4, 5, 6}
    MaxLines <- MCLines
    Entered <- MCEntered
    Typed <- MCTyped
INVARIANTS TypeOK KeyMatches AtMostOnceInOrder Authentic
PROPERTIES Directory Admitted  GoneRemoved
CHECK_DEADLOCK FALSE
