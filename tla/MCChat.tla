-------------------------------- MODULE MCChat --------------------------------
\* Two users who chat: c1 selects, sends and selects again with its text; c2 has a name of
\* its own or that of c1, answers once, selects a name too long, or leaves.
EXTENDS ChatServer

CONSTANTS c1, c2, a, b

MCEntered == c1 :> {a} @@ c2 :> {a, b}
MCTyped == c1 :> {<<"text", NoName>>, <<"chat", b>>, <<"at", b>>} @@
           c2 :> {<<"bareAt", a>>, <<"quit", NoName>>, <<"chat", LongName>>}
MCLines == c1 :> 2 @@ c2 :> 1
===============================================================================
