-------------------------------- MODULE MCStuck --------------------------------
\* Two client runs whose users enter the same name and type nothing.
EXTENDS ChatServer

CONSTANTS c1, c2, a

MCEntered == [c \in Conn |-> {a}]
MCTyped == [c \in Conn |-> {<<"quit", NoName>>}]
MCLines == [c \in Conn |-> 0]
===============================================================================
