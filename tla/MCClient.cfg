SPECIFICATION FairSpec
CONSTANTS
    bob = bob
    Peer = {bob}
    NoPeer = NoPeer
    MaxLines = 3
    MaxTicks = 1
    MaxFrames = 1
INVARIANTS TypeOK StaysWhileRunning
PROPERTIES  KilledIsRemoved WhoAnswered
CHECK_DEADLOCK FALSE
