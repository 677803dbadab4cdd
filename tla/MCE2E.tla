--------------------------------- MODULE MCE2E ---------------------------------
\* Alice asks Bob and Carol for keys and writes to them, Bob may leave; so a packet may
\* reach Carol that was meant for Bob.
EXTENDS E2E, TLC

CONSTANTS a, b, c

MCPeers  == a :> {b, c} @@ b :> {a} @@ c :> {a}
MCAsks   == a :> 2 @@ b :> 1 @@ c :> 1
MCTicks  == a :> 0 @@ b :> 0 @@ c :> 0
MCLines  == a :> 1 @@ b :> 0 @@ c :> 0
MCTurns  == a :> 0 @@ b :> 1 @@ c :> 0
================================================================================
