SPECIFICATION Spec
CONSTANTS
    a = a
    b = b
    c = c
    User = {a, b, c}
    Nobody = Nobody
    Absent = Absent
    Torn = Torn
    Garbage = Garbage
    MaxSecrets = 4
    MaxHolds = 0
    Peers <- MCPeers
    MaxAsks <- MCAsks
    MaxTicks <- MCTicks
    MaxLines <- MCLines
    MaxTurns <- MCTurns
INVARIANTS TypeOK KeyParts OnlyPeerReads
CHECK_DEADLOCK FALSE
