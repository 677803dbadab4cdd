SPECIFICATION FairSpec
CONSTANTS
    c1 = c1
    c2 = c2
    a = a
    Conn = {c1, c2}
    Name = {a}
    NoName = NoName
    LongName = LongName
    MaxUsers = 2
    Fd = {4, 5, 6}
    MaxLines <- MCLines
    Entered <- MCEntered
    Typed <- MCTyped
PROPERTY NeverStuck
CHECK_DEADLOCK FALSE
