SPECIFICATION FairSpec
CONSTANTS
    r1 = r1
    r2 = r2
    a = a
    b = b
    long = long
    empty = empty
    Run = {r1, r2}
    Name = {a, b, long, empty, ServerName}
    Nameless = {empty}
    Server = Server
    ServerName = ServerName
    None = None
    MaxUsers = 1
    MaxStarts = 2
    MaxServerStarts = 1
    Entering <- MCEntering
    Cut <- MCCut
INVARIANTS TypeOK TableBacked KeptWhileAlone ToldIsForgotten
PROPERTIES ServerProves Answered Forgotten
CHECK_DEADLOCK FALSE
