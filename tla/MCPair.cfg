SPECIFICATION FairSpec
CONSTANTS
    a = a
    b = b
    User = {a, b}
    Nobody = Nobody
    Absent = Absent
    Torn = Torn
    Garbage = Garbage
    MaxSecrets = 4
    MaxHolds = 1
    Peers <- MCPeers
    MaxAsks <- MCAsks
    MaxTicks <- MCTicks
    MaxLines <- MCLines
    MaxTurns <- MCTurns
INVARIANTS FirstExchangeAgrees TextsInOrder
PROPERTY AnswerArrives
CHECK_DEADLOCK FALSE
