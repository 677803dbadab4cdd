------------------------------- MODULE MCFraming -------------------------------
\* One thread that writes (main before the timer runs; the server is the same without a
\* child), or main and the timer of a client.
EXTENDS Framing, TLC

CONSTANTS main, timer, child

OneWriterFrames == main :> 3
TwoWritersFrames == main :> 2 @@ timer :> 2

================================================================================
