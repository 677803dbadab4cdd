------------------------------- MODULE Directory -------------------------------
(***************************************************************************)
(* What the chat server promises, without sockets, handshakes, indices or  *)
(* a scan: a directory of distinct names, the name each user talks to, and *)
(* the frames each user is sent.                                           *)
(***************************************************************************)
EXTENDS Sequences

CONSTANTS
    Conn,
    Name,     \* names that can be registered
    NoName,   \* no name
    Target    \* what may be given as the name to talk to

VARIABLES
    online,  \* the name each connection is registered under, or NoName
    talk,    \* the name each registered connection has selected, or NoName
    out      \* the frames written to each connection

vars == <<online, talk, out>>

Online(n) == n # NoName /\ \E c \in Conn : online[c] = n
Members   == {online[c] : c \in Conn} \ {NoName}

Init == /\ online = [c \in Conn |-> NoName]
        /\ talk = [c \in Conn |-> NoName]
        /\ out = [c \in Conn |-> <<>>]

Add(h, d, kind, from, who) ==
    [h EXCEPT ![d] = Append(@, [kind |-> kind, from |-> from, who |-> who])]
Answer(h, c, kind) == Add(h, c, kind, online[c], {})

\* A name enters the directory only if nobody has it.
Join(c, n) ==
    /\ online[c] = NoName /\ ~Online(n)
    /\ online' = [online EXCEPT ![c] = n]
    /\ UNCHANGED <<talk, out>>

\* A user leaves; those who selected its name keep it selected.
Leave(c) ==
    /\ online[c] # NoName
    /\ online' = [online EXCEPT ![c] = NoName]
    /\ talk' = [talk EXCEPT ![c] = NoName]
    /\ UNCHANGED out

\* /who answers the asker with exactly the names online.
Who(c) ==
    /\ online[c] # NoName
    /\ out' = Add(out, c, "who", online[c], Members)
    /\ UNCHANGED <<online, talk>>

\* A selection succeeds if and only if the name is online.
Choose(c, n) ==
    /\ online[c] # NoName
    /\ IF Online(n)
       THEN talk' = [talk EXCEPT ![c] = n] /\ out' = Answer(out, c, "nowchatting")
       ELSE UNCHANGED talk /\ out' = Answer(out, c, "nouser")
    /\ UNCHANGED online

\* A text goes to the holder of the selected name, under the sender's name.
SayFrom(t, h, c) ==
    \/ t[c] = NoName /\ out' = Answer(h, c, "nochat") /\ talk' = t
    \/ /\ t[c] # NoName /\ ~Online(t[c])
       /\ out' = Answer(h, c, "nolonger") /\ talk' = [t EXCEPT ![c] = NoName]
    \/ /\ t[c] # NoName
       /\ \E d \in Conn : online[d] = t[c] /\ out' = Add(h, d, "msg", online[c], {})
       /\ talk' = t

Say(c) == online[c] # NoName /\ SayFrom(talk, out, c) /\ UNCHANGED online

\* "@n text" selects and says in one step; a failed selection does not stop the text.
SayTo(c, n) ==
    /\ online[c] # NoName
    /\ IF Online(n)
       THEN SayFrom([talk EXCEPT ![c] = n], out, c)
       ELSE SayFrom(talk, Answer(out, c, "nouser"), c)
    /\ UNCHANGED online

Next == \E c \in Conn :
    \/ Leave(c) \/ Who(c) \/ Say(c)
    \/ \E n \in Name : Join(c, n)
    \/ \E n \in Target : Choose(c, n) \/ SayTo(c, n)

Spec == Init /\ [][Next]_vars

================================================================================
