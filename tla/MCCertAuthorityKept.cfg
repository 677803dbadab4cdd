SPECIFICATION Spec
CONSTANTS
    r1 = r1
    r2 = r2
    a = a
    b = b
    long = long
    empty = empty
    Run = {r1, r2}
    Name = {a, b, ServerName}
    Nameless = {}
    Server = Server
    ServerName = ServerName
    None = None
    MaxUsers = 3
    MaxStarts = 1
    MaxServerStarts = 1
    Entering <- MCEntering
    Cut <- MCCut
INVARIANT MembersCertified
CHECK_DEADLOCK FALSE
