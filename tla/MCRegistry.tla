------------------------------ MODULE MCRegistry ------------------------------
\* Three client runs compete for two slots: a name and a descriptor are
\* reused after their first holder left, the table fills up, and names are refused; users
\* leave by /quit, by an empty line, and by one that does not decrypt.
EXTENDS ChatServer

CONSTANTS c1, c2, c3, a, b, d

MCEntered == c1 :> {a} @@ c2 :> {b} @@ c3 :> {a, d, NoName, LongName}
MCTyped == [c \in Conn |-> IF c = c1 THEN {<<"quit", NoName>>, <<"empty", NoName>>}
                          ELSE {<<"who", NoName>>, <<"garbled", NoName>>}]
MCLines == [c \in Conn |-> IF c = c3 THEN 0 ELSE 1]
===============================================================================
