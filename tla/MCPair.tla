--------------------------------- MODULE MCPair --------------------------------
\* Two users: both may ask, the timer of one repeats the INIT, the other may restart.
EXTENDS E2E, TLC

CONSTANTS a, b

MCPeers == a :> {b} @@ b :> {a}
MCAsks  == a :> 1 @@ b :> 1
MCTicks == a :> 1 @@ b :> 0
MCLines == a :> 2 @@ b :> 0
MCTurns == a :> 0 @@ b :> 2
================================================================================
