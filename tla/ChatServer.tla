------------------------------ MODULE ChatServer ------------------------------
(***************************************************************************)
(* The chat server: one process that multiplexes a listening socket and    *)
(* the sockets of its registered users with select(), runs the handshake   *)
(* and the registration of a new connection inline, and serves one line of *)
(* each readable user per round (src/server/server.c, users.c, chat.c).    *)
(*                                                                         *)
(* A connection c \in Conn is one run of src/client/client.c; its two TCP  *)
(* directions are the queues inq[c] (client to server) and, towards the    *)
(* client, outq[c] for the handshake and heard[c] for everything written   *)
(* after registration.  heard[c] is never consumed: the child process of   *)
(* the client prints it in order and nothing the server does depends on    *)
(* how far it got.  A session key is identified by the connection whose    *)
(* Diffie-Hellman exchange produced it.                                    *)
(*                                                                         *)
(* A client writes a frame in two calls, the length and the body, and the  *)
(* server reads it in two; select() returns with the first byte.  A frame  *)
(* is in inq[c] when it is there whole; while it is there in part c is in  *)
(* `writing`, and a server that reads it waits.                            *)
(***************************************************************************)
EXTENDS Naturals, Sequences, FiniteSets, SequencesExt

CONSTANTS
    Conn,      \* client runs; each connects at most once
    Name,      \* usernames of 1 to 19 bytes
    NoName,    \* the empty string
    LongName,  \* any username that does not fit into MAX_USERNAME bytes
    MaxUsers,  \* MAX_USERS of users.h
    Fd,        \* descriptors accept() can return
    Entered,   \* Entered[c]: what the user of c may answer to the name prompt
    Typed,     \* Typed[c]: the lines <<kind, to>> the user of c may type
    MaxLines   \* bound: MaxLines[c] lines are typed by the user of c

NoFd == 0
AnyName == Name \cup {NoName, LongName}

\* "garbled" is a line whose bytes and those of a frame of the timer thread were mixed.
LineKinds == {"who", "chat", "at", "bareAt", "text", "empty", "garbled", "quit"}
Lines     == LineKinds \X AnyName

ASSUME NameAssumption == NoName \notin Name /\ LongName \notin Name /\ NoName # LongName
ASSUME FdAssumption   == Fd \subseteq Nat \ {NoFd} /\ IsFiniteSet(Fd) /\ Cardinality(Fd) > MaxUsers
ASSUME SizeAssumption == MaxUsers \in Nat \ {0} /\ MaxLines \in [Conn -> Nat]
ASSUME UserAssumption == Entered \in [Conn -> SUBSET AnyName] /\ Typed \in [Conn -> SUBSET Lines]

VARIABLES
    \* the server process
    pc,       \* where the select() loop is, or "dead"
    idx,      \* i of the scan loop
    cur,      \* c of main: the descriptor being registered
    readfds,  \* user descriptors select() reported
    served,   \* history: descriptors read in this round
    users,    \* users[0..user_count-1]
    fds,      \* the open descriptors and the connection each one is
    stale,    \* lines whose text may linger in plaintext[]
    \* the certificate authority, as the server sees it
    caUp,
    \* the clients
    phase,    \* where client c is
    uname,    \* the name its user entered
    sent,     \* the number of lines it has sent
    writing,  \* the clients that have written a line in part
    \* the network
    backlog,  \* connections waiting in the accept queue
    inq, outq, heard

serverVars == <<pc, idx, cur, readfds, served, users, fds, stale>>
clientVars == <<phase, uname, sent, writing>>
netVars    == <<backlog, inq, outq, heard>>
vars       == <<serverVars, caUp, clientVars, netVars>>

--------------------------------------------------------------------------------
(* Frames and queues *)

\* A frame of the client: a handshake message, a name, or a typed line. k numbers the lines.
Frame(kind, to, k) == [kind |-> kind, to |-> to, k |-> k]
Frames == [kind : {"challenge", "share", "name"} \cup LineKinds, to : AnyName, k : Nat]

Garbage == <<>>   \* bytes of plaintext[] that were never received

\* What the server writes to a registered user: an answer to, or the text of, line `line`
\* of the user called `from`, encrypted with `key`; `body` is the line whose text it shows.
Out(u, kind, from, line, body, who) ==
    [key |-> u.key, kind |-> kind, from |-> from.name, src |-> fds[from.sock],
     line |-> line, body |-> body, who |-> who]

ReplyKinds == {"who", "nouser", "nowchatting", "nochat", "nolonger", "msg"}
Outs == [key : Conn, kind : ReplyKinds, from : AnyName, src : Conn, line : Frames,
         body : (Conn \X Nat) \cup {Garbage}, who : Seq(AnyName)]

Users == [name : Name, sock : Fd, chat_with : AnyName, key : Conn]

Gone(c)    == phase[c] = "gone"
EOF(c)     == inq[c] = <<>> /\ Gone(c)

\* There is a byte or the end of file to read.
Readable(c) == inq[c] # <<>> \/ c \in writing \/ Gone(c)

\* receive_command returns when the whole frame is there; until then, or until end of file, it
\* waits in read_all.
Consume(c) == inq[c] # <<>> /\ inq' = [inq EXCEPT ![c] = Tail(@)]
SendTo(c, ms) == outq' = [outq EXCEPT ![c] = @ \o ms]

\* The client's end is still open at the server: accepted, or waiting to be accepted.
Held(c) == /\ pc # "dead"
           /\ (\E f \in DOMAIN fds : fds[f] = c) \/ (\E i \in DOMAIN backlog : backlog[i] = c)

Registered(c) == \E i \in DOMAIN users : users[i].sock \in DOMAIN fds /\ fds[users[i].sock] = c

\* The server goes on at p, unless it wrote to a client that is gone and SIGPIPE ended it.
Goto(p) ==
    \/ pc' = p
    \/ /\ \E c \in Conn : Gone(c) /\ (heard'[c] # heard[c] \/ outq'[c] # outq[c])
       /\ pc' = "dead"

\* Seeded fault: the loop ends at user_count - 1.
FindUserShort(us, n) ==
    IF \E j \in 1..(Len(us) - 1) : us[j].name = n
    THEN CHOOSE j \in 1..(Len(us) - 1) : us[j].name = n
    ELSE 0

\* find_user, with 0 for -1.
FindUser(us, n) ==
    IF \E j \in 1..Len(us) : us[j].name = n
    THEN CHOOSE j \in 1..Len(us) : us[j].name = n /\ \A k \in 1..(j-1) : us[k].name # n
    ELSE 0

Close(fd) == fds' = [f \in DOMAIN fds \ {fd} |-> fds[f]]

--------------------------------------------------------------------------------
Init ==
    /\ pc = "select" /\ idx = 1 /\ cur = NoFd /\ readfds = {} /\ served = {}
    /\ users = <<>> /\ fds = [f \in {} |-> f] /\ stale = {}
    /\ caUp = TRUE
    /\ phase = [c \in Conn |-> "idle"] /\ uname = [c \in Conn |-> NoName]
    /\ sent = [c \in Conn |-> 0] /\ writing = {}
    /\ backlog = <<>>
    /\ inq = [c \in Conn |-> <<>>] /\ outq = [c \in Conn |-> <<>>]
    /\ heard = [c \in Conn |-> <<>>]

--------------------------------------------------------------------------------
(* The server: one round is Select, at most one registration, and the scan. *)

Socks == {users[i].sock : i \in DOMAIN users}


Ready == {f \in Socks : Readable(fds[f])}

\* Seeded fault: FD_ZERO outside the loop keeps the bits of earlier rounds.
SelectKeepsBits ==
    /\ pc = "select"
    /\ readfds' = readfds \cup Ready /\ served' = {}
    /\ \/ backlog # <<>> /\ pc' = "accept" /\ UNCHANGED idx
       \/ backlog = <<>> /\ Ready # {} /\ pc' = "scan" /\ idx' = 1
    /\ UNCHANGED <<cur, users, fds, stale, caUp, clientVars, netVars>>

\* select() returns: a waiting connection is taken first, then the ready users.
Select ==
    /\ pc = "select"
    /\ readfds' = Ready /\ served' = {}
    /\ \/ backlog # <<>> /\ pc' = "accept" /\ UNCHANGED idx
       \/ backlog = <<>> /\ Ready # {} /\ pc' = "scan" /\ idx' = 1
    /\ UNCHANGED <<cur, users, fds, stale, caUp, clientVars, netVars>>

\* accept() returns the lowest free descriptor; the certificate is written to it.
Accept ==
    /\ pc = "accept"
    /\ \E fd \in Fd \ DOMAIN fds :
         /\ \A f \in Fd : f < fd => f \in DOMAIN fds
         /\ fds' = [f \in DOMAIN fds \cup {fd} |-> IF f = fd THEN Head(backlog) ELSE fds[f]]
         /\ cur' = fd
    /\ backlog' = Tail(backlog)
    /\ SendTo(Head(backlog), <<"cert">>)
    /\ UNCHANGED <<inq, heard>>
    /\ Goto("challenge")
    /\ UNCHANGED <<idx, readfds, served, users, stale, caUp, clientVars>>

\* Seeded fault: an error path without close(c).
DropLeaks ==
    /\ UNCHANGED fds /\ cur' = NoFd /\ idx' = 1
    /\ UNCHANGED <<readfds, served, users, stale, caUp, clientVars, backlog, heard>>
    /\ Goto("scan")

\* register_client gives up: the descriptor is closed and the scan begins.
Drop ==
    /\ Close(cur) /\ cur' = NoFd /\ idx' = 1
    /\ UNCHANGED <<readfds, served, users, stale, caUp, clientVars, backlog, heard>>
    /\ Goto("scan")

\* Seeded fault: the signature is sent without waiting for the challenge.
ChallengeUnread ==
    /\ pc = "challenge"
    /\ SendTo(fds[cur], <<"sig", "share">>) /\ UNCHANGED <<inq, heard>>
    /\ Goto("share")
    /\ UNCHANGED <<idx, cur, readfds, served, users, fds, stale, caUp, clientVars, backlog>>

\* The blocking read of the challenge, whose result is ignored; signature and share are
\* written, and a failing write of the share ends the registration.
Challenge ==
    /\ pc = "challenge"
    /\ LET c == fds[cur] IN
         /\ Consume(c) \/ (EOF(c) /\ UNCHANGED inq)
         /\ SendTo(c, <<"sig", "share">>)
         /\ \/ /\ UNCHANGED heard
               /\ Goto("share")
               /\ UNCHANGED <<idx, cur, readfds, served, users, fds, stale, caUp, clientVars, backlog>>
            \/ Gone(c) /\ Drop

\* Seeded fault: the result of this read is not checked either, and the read is repeated.
ShareIgnoresEOF ==
    /\ pc = "share"
    /\ Consume(fds[cur]) /\ pc' = "name"
    /\ UNCHANGED <<idx, cur, readfds, served, users, fds, stale, caUp, clientVars,
                   backlog, outq, heard>>

\* The blocking read of the client's share; end of file drops the connection.
Share ==
    /\ pc = "share"
    /\ LET c == fds[cur] IN
         \/ /\ Consume(c) /\ pc' = "name"
            /\ UNCHANGED <<idx, cur, readfds, served, users, fds, stale, caUp, clientVars,
                           backlog, outq, heard>>
         \/ EOF(c) /\ UNCHANGED <<inq, outq>> /\ Drop

\* The name loop of register_client, one action per way a round of it can end.
Naming(c, n) == /\ pc = "name" /\ c = fds[cur]
                /\ inq[c] # <<>> /\ n = Head(inq[c]).to /\ Consume(c)

\* receive_command returned 0 or -1: end of file, an empty name, or one that does not fit.
\* The last one has already overrun username[]: the process may also end there.
NameLost ==
    /\ \/ pc = "name" /\ EOF(fds[cur]) /\ UNCHANGED <<inq, outq>> /\ Drop
       \/ Naming(fds[cur], NoName) /\ UNCHANGED outq /\ Drop
       \/ Naming(fds[cur], LongName) /\ UNCHANGED outq /\ Drop
       \/ /\ Naming(fds[cur], LongName) /\ pc' = "dead"
          /\ UNCHANGED <<idx, cur, readfds, served, users, fds, stale, caUp, clientVars,
                         backlog, outq, heard>>

NameTaken ==
    \E n \in Name :
      /\ Naming(fds[cur], n)
      /\ FindUser(users, n) # 0
      /\ SendTo(fds[cur], <<"taken">>) /\ UNCHANGED heard
      /\ Goto("name")
      /\ UNCHANGED <<idx, cur, readfds, served, users, fds, stale, caUp, clientVars, backlog>>

ServerFull ==
    \E n \in Name :
      /\ Naming(fds[cur], n)
      /\ FindUser(users, n) = 0 /\ Len(users) >= MaxUsers
      /\ SendTo(fds[cur], <<"full">>)
      /\ Drop

\* Seeded fault: user_count++ is missing.
RegisterWithoutCount ==
    \E n \in Name :
      /\ Naming(fds[cur], n)
      /\ FindUser(users, n) = 0 /\ Len(users) < MaxUsers
      /\ SendTo(fds[cur], <<"ok">>) /\ UNCHANGED heard
      /\ cur' = NoFd /\ idx' = 1
      /\ Goto("scan")
      /\ UNCHANGED <<readfds, served, users, fds, stale, caUp, clientVars, backlog>>

Register ==
    \E n \in Name :
      /\ Naming(fds[cur], n)
      /\ FindUser(users, n) = 0 /\ Len(users) < MaxUsers
      /\ users' = Append(users, [name |-> n, sock |-> cur, chat_with |-> NoName, key |-> fds[cur]])
      /\ SendTo(fds[cur], <<"ok">>) /\ UNCHANGED heard
      /\ cur' = NoFd /\ idx' = 1
      /\ Goto("scan")
      /\ UNCHANGED <<readfds, served, fds, stale, caUp, clientVars, backlog>>

EndScan ==
    /\ pc = "scan" /\ idx > Len(users) /\ pc' = "select"
    /\ UNCHANGED <<idx, cur, readfds, served, users, fds, stale, caUp, clientVars, netVars>>

Skip ==
    /\ pc = "scan" /\ idx <= Len(users) /\ users[idx].sock \notin readfds
    /\ idx' = idx + 1
    /\ UNCHANGED <<pc, cur, readfds, served, users, fds, stale, caUp, clientVars, netVars>>

\* It is the turn of users[idx], which select() reported; Line is what it will read.
Turn == pc = "scan" /\ idx <= Len(users) /\ users[idx].sock \in readfds
Peer == fds[users[idx].sock]
Line == Head(inq[Peer])
Read == Consume(Peer) /\ served' = served \cup {users[idx].sock}

\* Decryption fails, or the line is empty: receive_command returned -1 or 0.
Unusable == Line.kind \in {"empty", "garbled"} \/ users[idx].key # Peer

QuitAt(removed, next) ==
    /\ users' = RemoveAt(users, removed)
    /\ Close(users[idx].sock)
    /\ idx' = next
    /\ pc' \in {pc} \cup (IF caUp THEN {} ELSE {"dead"})
    /\ UNCHANGED <<cur, readfds, stale, caUp, clientVars, backlog, outq, heard>>

\* Seeded faults: no i-- after service_quit, two of them, and user_count-- without the shift.
QuitSkipsNext == QuitAt(idx, idx + 1)
QuitStepsBack == QuitAt(idx, idx - 1)
QuitDropsLast == QuitAt(Len(users), idx)

\* service_quit: the CA is told, the socket closed, the later entries move down, and the scan
\* looks at the same index again.  Without a CA the notification writes to an unconnected
\* socket, or dereferences the missing host entry.
Quit == QuitAt(idx, idx)

\* Seeded fault: end of file of a registered user is not handled.
ServeQuitIgnoresEOF == Turn /\ Read /\ (Unusable \/ Line.kind = "quit") /\ Quit

ServeQuit ==
    /\ Turn
    /\ \/ EOF(Peer) /\ served' = served \cup {users[idx].sock} /\ UNCHANGED inq
       \/ Read /\ (Unusable \/ Line.kind = "quit")
    /\ Quit

\* A usable line of one of the kinds is read; after the handler the scan moves on, unless a
\* name in the line overran the MAX_USERNAME bytes it was copied to and the process ended.
Command(kinds) == Turn /\ Read /\ ~Unusable /\ Line.kind \in kinds
Overrun == Line.to = LongName /\ pc' = "dead"
Done ==
    /\ idx' = idx + 1
    /\ UNCHANGED <<cur, readfds, fds, caUp, clientVars, backlog, outq>>
    /\ Goto("scan") \/ Overrun

\* The frames h after one more, r, for the user u; and answers to the user at idx.
Put(h, u, r) == [h EXCEPT ![fds[u.sock]] = Append(@, r)]
Answer(h, kind, who) == Put(h, users[idx], Out(users[idx], kind, users[idx], Line, Garbage, who))

ServeWho ==
    /\ Command({"who"})
    /\ heard' = Answer(heard, "who", [i \in DOMAIN users |-> users[i].name])
    /\ UNCHANGED <<users, stale>>
    /\ Done

\* Seeded fault: chat_with is set before find_user was asked.
WithChatUnchecked(n) == [users EXCEPT ![idx].chat_with = n]

\* service_chat and service_chat_username select an online user; the latter says nothing then.
WithChat(n)   == IF FindUser(users, n) = 0 THEN users ELSE [users EXCEPT ![idx].chat_with = n]
NotFound(n, found) == IF FindUser(users, n) = 0 THEN Answer(heard, "nouser", <<>>) ELSE found

ServeChat ==
    /\ Command({"chat"})
    /\ users' = WithChat(Line.to)
    /\ heard' = NotFound(Line.to, Answer(heard, "nowchatting", <<>>))
    /\ UNCHANGED stale
    /\ Done

\* Seeded faults in service_message: the sender's key, the recipient's name, no name test.
MessageUnderSenderKey(us, h, body) ==
    LET u == us[idx]
        j == FindUser(us, u.chat_with)
    IN  /\ u.chat_with # NoName /\ j # 0 /\ users' = us
        /\ heard' = Put(h, us[j], Out(u, "msg", u, Line, body, <<>>))
MessageUnderOtherName(us, h, body) ==
    LET j == FindUser(us, us[idx].chat_with)
    IN  /\ us[idx].chat_with # NoName /\ j # 0 /\ users' = us
        /\ heard' = Put(h, us[j], Out(us[j], "msg", us[j], Line, body, <<>>))
MessageToAll(us, h, body) ==
    /\ us[idx].chat_with # NoName /\ users' = us
    /\ heard' = [c \in Conn |->
         IF Registered(c) THEN Append(h[c], Out(us[idx], "msg", us[idx], Line, body, <<>>)) ELSE h[c]]

\* service_message for users[idx], from the table us and the frames h written so far.
Message(us, h, body) ==
    LET u == us[idx]
        j == FindUser(us, u.chat_with)
    IN  \/ /\ u.chat_with = NoName
           /\ users' = us /\ heard' = Answer(h, "nochat", <<>>)
        \/ /\ u.chat_with # NoName /\ j # 0
           /\ users' = us /\ heard' = Put(h, us[j], Out(us[j], "msg", u, Line, body, <<>>))
        \/ /\ u.chat_with # NoName /\ j = 0
           /\ users' = [us EXCEPT ![idx].chat_with = NoName]
           /\ heard' = Answer(h, "nolonger", <<>>)

Id == <<Peer, Line.k>>

ServeText ==
    /\ Command({"text"})
    /\ Message(users, heard, Id)
    /\ stale' = stale \cup {Id}
    /\ Done

\* "@n text": select n if online, then forward the text whether or not n was found.
ServeAt ==
    /\ Command({"at"})
    /\ Message(WithChat(Line.to), NotFound(Line.to, heard), Id)
    /\ stale' = stale \cup {Id}
    /\ Done

\* "@n" alone: the message pointer lies behind the terminating NUL, and what is forwarded is
\* what plaintext[] holds there: the tail of an earlier line of any user, or garbage.
ServeBareAt ==
    /\ Command({"bareAt"})
    /\ \E body \in stale \cup {Garbage} : Message(WithChat(Line.to), NotFound(Line.to, heard), body)
    /\ UNCHANGED stale
    /\ Done

ServerNext ==
    \/ Select \/ Accept \/ Challenge \/ Share
    \/ NameLost \/ NameTaken \/ ServerFull \/ Register
    \/ EndScan \/ Skip \/ ServeQuit \/ ServeWho \/ ServeChat \/ ServeText \/ ServeAt \/ ServeBareAt

--------------------------------------------------------------------------------
(* A client, and the CA *)

Write(c, f) == inq' = [inq EXCEPT ![c] = Append(@, f)]

Connect(c) ==
    /\ phase[c] = "idle" /\ pc # "dead"
    /\ \E n \in Entered[c] : uname' = [uname EXCEPT ![c] = n]
    /\ phase' = [phase EXCEPT ![c] = "cert"]
    /\ backlog' = Append(backlog, c)
    /\ UNCHANGED <<serverVars, caUp, sent, writing, inq, outq, heard>>

\* In phase p the client reads the handshake message m, answers with f and enters phase q.
Step(c, p, m, f, q) ==
    /\ phase[c] = p /\ outq[c] # <<>> /\ Head(outq[c]) \in m
    /\ outq' = [outq EXCEPT ![c] = Tail(@)]
    /\ Write(c, f)
    /\ phase' = [phase EXCEPT ![c] = q]
    /\ UNCHANGED <<serverVars, caUp, uname, sent, writing, backlog, heard>>

Hello(c)    == Step(c, "cert",  {"cert"},  Frame("challenge", NoName, 0), "proof")
Proof(c)    == Step(c, "proof", {"sig"},   Frame("share", NoName, 0),     "share")
KeyAgree(c) == Step(c, "share", {"share"}, Frame("name", uname[c], 0),    "naming")

\* Any answer but success makes the client send the same name again.
Retry(c)    == Step(c, "naming", {"taken", "full"}, Frame("name", uname[c], 0), "naming")

Success(c) ==
    /\ phase[c] = "naming" /\ outq[c] # <<>> /\ Head(outq[c]) = "ok"
    /\ outq' = [outq EXCEPT ![c] = Tail(@)]
    /\ phase' = [phase EXCEPT ![c] = "chatting"]
    /\ UNCHANGED <<serverVars, caUp, uname, sent, writing, backlog, inq, heard>>

\* The user enters a line: its length is written...
Begin(c) ==
    /\ phase[c] = "chatting" /\ Held(c) /\ c \notin writing
    /\ sent[c] < MaxLines[c] /\ Typed[c] # {}
    /\ writing' = writing \cup {c}
    /\ UNCHANGED <<serverVars, caUp, phase, uname, sent, netVars>>

\* ... and its body; after /quit the parent is gone and the child only reads.
Type(c) ==
    /\ phase[c] = "chatting" /\ Held(c) /\ c \in writing
    /\ writing' = writing \ {c}
    /\ \E t \in Typed[c] :
         /\ Write(c, Frame(t[1], t[2], sent[c] + 1))
         /\ phase' = [phase EXCEPT ![c] = IF t[1] = "quit" THEN "quitting" ELSE @]
    /\ sent' = [sent EXCEPT ![c] = @ + 1]
    /\ UNCHANGED <<serverVars, caUp, uname, backlog, outq, heard>>

\* The frame was one of the timer, and the parent ends at /quit or at the end of input before
\* the body is written; the child keeps the socket open.
Abandon(c) ==
    /\ phase[c] = "chatting" /\ c \in writing
    /\ phase' = [phase EXCEPT ![c] = "quitting"]
    /\ UNCHANGED <<serverVars, caUp, uname, sent, writing, netVars>>

\* The client rejects the server or is killed (the socket closes), in any phase...
Die(c) ==
    /\ phase[c] \notin {"idle", "gone"}
    /\ phase' = [phase EXCEPT ![c] = "gone"]
    /\ UNCHANGED <<serverVars, caUp, uname, sent, writing, netVars>>

\* ... or it has read everything and finds that the server closed the connection.
Closed(c) ==
    /\ phase[c] \notin {"idle", "gone"} /\ ~Held(c)
    /\ outq[c] = <<>>
    /\ phase' = [phase EXCEPT ![c] = "gone"]
    /\ UNCHANGED <<serverVars, caUp, uname, sent, writing, netVars>>

CaStop ==
    /\ caUp /\ caUp' = FALSE
    /\ UNCHANGED <<serverVars, clientVars, netVars>>

ClientCode(c) == \/ Hello(c) \/ Proof(c) \/ KeyAgree(c) \/ Retry(c) \/ Success(c)
                 \/ Type(c) \/ Closed(c)

Next ==
    \/ ServerNext
    \/ \E c \in Conn : Connect(c) \/ ClientCode(c) \/ Begin(c) \/ Abandon(c) \/ Die(c)
    \/ CaStop

Spec == Init /\ [][Next]_vars

\* The scheduler runs the server and the code of a connected client, which writes the body
\* after the length; nobody has to start a client, enter a line, end it or stop the CA.
FairSpec == Spec /\ WF_vars(ServerNext) /\ \A c \in Conn : WF_vars(ClientCode(c))

--------------------------------------------------------------------------------
(* Properties *)

Phases == {"idle", "cert", "proof", "share", "naming", "chatting", "quitting", "gone"}
Places == {"select", "accept", "challenge", "share", "name", "scan", "dead"}
Handshake == {"challenge", "share", "name"}

\* Every variable has its type; the scan index never runs past the slot after the last user.
TypeOK ==
    /\ pc \in Places /\ idx \in Nat \ {0} /\ cur \in Fd \cup {NoFd}
    /\ readfds \subseteq Fd /\ served \subseteq Fd
    /\ users \in Seq(Users)
    /\ DOMAIN fds \subseteq Fd /\ fds \in [DOMAIN fds -> Conn]
    /\ stale \subseteq Conn \X Nat
    /\ caUp \in BOOLEAN
    /\ phase \in [Conn -> Phases] /\ uname \in [Conn -> AnyName] /\ sent \in [Conn -> Nat]
    /\ writing \subseteq Conn
    /\ backlog \in Seq(Conn)
    /\ inq \in [Conn -> Seq(Frames)]
    /\ outq \in [Conn -> Seq({"cert", "sig", "share", "taken", "full", "ok"})]
    /\ heard \in [Conn -> Seq(Outs)]

\* No two entries of users[] carry the same name (strcmp lookups would always find the first
\* one), and there are never more than MAX_USERS of them.
UniqueNames ==
    /\ \A i, j \in DOMAIN users : users[i].name = users[j].name => i = j
    /\ Len(users) <= MaxUsers

\* Every entry of users[] holds an open socket of its own, bound to the connection that
\* entered this name and agreed on this key, also after descriptors were closed and reused;
\* and every open descriptor belongs to an entry or to the registration in progress.
Wired ==
    /\ \A i \in DOMAIN users :
         /\ users[i].sock \in DOMAIN fds
         /\ users[i].key = fds[users[i].sock]
         /\ users[i].name = uname[fds[users[i].sock]]
    /\ \A i, j \in DOMAIN users : users[i].sock = users[j].sock => i = j
    /\ pc # "dead" =>
         /\ \A f, g \in DOMAIN fds : fds[f] = fds[g] => f = g
         /\ DOMAIN fds = Socks \cup ({cur} \ {NoFd})
         /\ cur \notin Socks
         /\ pc \in Handshake <=> cur # NoFd

\* What makes the three above inductive: who is waiting in the accept queue and who is not.
Queued ==
    /\ pc = "accept" => backlog # <<>>
    /\ \A i \in DOMAIN backlog : phase[backlog[i]] # "idle"
    /\ \A f \in DOMAIN fds : phase[fds[f]] # "idle"
    /\ \A i, j \in DOMAIN backlog : backlog[i] = backlog[j] => i = j
    /\ \A i \in DOMAIN backlog, f \in DOMAIN fds : backlog[i] # fds[f]

\* The two ends of a handshake stay in step: whatever the server reads next is the message
\* the client sent for that place, from the challenge to the name its user entered, and a
\* waiting client has neither sent nor been sent anything.
At(c, ph, out, in) == phase[c] \in {ph, "gone"} /\ outq[c] = out /\ inq[c] = in
Expected(c) ==
    LET challenge == Frame("challenge", NoName, 0)
        share     == Frame("share", NoName, 0)
        name      == Frame("name", uname[c], 0)
    IN  \/ /\ pc = "challenge"
           /\ At(c, "cert", <<"cert">>, <<>>) \/ At(c, "proof", <<>>, <<challenge>>)
        \/ /\ pc = "share"
           /\ \/ At(c, "proof", <<"sig", "share">>, <<>>)
              \/ At(c, "share", <<"share">>, <<share>>)
              \/ At(c, "naming", <<>>, <<share, name>>)
              \/ Gone(c) /\ inq[c] = <<>>
        \/ /\ pc = "name"
           /\ \/ At(c, "share", <<"share">>, <<>>)
              \/ At(c, "naming", <<>>, <<name>>)
              \/ At(c, "naming", <<"taken">>, <<>>)
InStep ==
    /\ \A c \in Conn : phase[c] = "idle" => inq[c] = <<>> /\ outq[c] = <<>>
    /\ \A i \in DOMAIN backlog :
         /\ phase[backlog[i]] \in {"cert", "gone"}
         /\ inq[backlog[i]] = <<>> /\ outq[backlog[i]] = <<>>
    /\ pc \in Handshake => Expected(fds[cur])

Table == TypeOK /\ UniqueNames /\ Wired /\ Queued
IInv == Table /\ InStep

\* The scan never begins to read a user who has not a byte or the end of file to give: select()
\* saw one, and neither the registration in between nor the scan itself has used it up.  What
\* the read then waits for is at most the rest of a frame this user has begun to write.
ReadsOnlyReady == Turn => Readable(Peer)

\* What makes it inductive: select()'s answer stays true for every user not yet read.
Pending(i) == users[i].sock \in readfds => Readable(fds[users[i].sock])
StillReady ==
    /\ pc \in {"accept"} \cup Handshake => readfds \subseteq Socks /\ \A i \in DOMAIN users : Pending(i)
    /\ pc = "scan" => \A i \in DOMAIN users : i >= idx => Pending(i)

\* A scan that ends has read every user select() had reported, also those that moved down
\* over the index of a user who quit (the i-- of server.c).
RoundComplete == [][pc = "scan" /\ pc' = "select" => readfds \subseteq served]_vars

Asks(c, kind) == inq[c] # <<>> /\ Head(inq[c]).kind \in kind

\* Removing one user never removes another: an entry disappears only when its own client is
\* gone, or its next line is /quit, empty, or one that does not decrypt because the main and
\* the timer thread of the client wrote at once.
LeavesOnlyOnCause ==
    [][\A c \in Conn : Registered(c) /\ ~Registered(c)' =>
         Gone(c) \/ Asks(c, {"quit", "empty", "garbled"})]_vars

\* A client that was told "User Registration Successful." and whose connection the server
\* still holds is in users[]; a client in users[] got that answer or has yet to read it.
Agreement ==
    \A c \in Conn :
      /\ phase[c] \in {"chatting", "quitting"} /\ Held(c) => Registered(c)
      /\ Registered(c) => \/ phase[c] \in {"chatting", "quitting", "gone"}
                          \/ phase[c] = "naming" /\ Len(outq[c]) > 0 /\ Last(outq[c]) = "ok"

\* Every frame written to a connection is encrypted with the key of that connection, the
\* recipient's and not the sender's, also after users[] was compacted.
KeyMatches == \A c \in Conn : \A i \in DOMAIN heard[c] : heard[c][i].key = c

Msgs(c) == {i \in DOMAIN heard[c] : heard[c][i].kind = "msg"}

\* A line is delivered to at most one connection and at most once, and the lines of one
\* sender reach one receiver in the order they were typed.
AtMostOnceInOrder ==
    \A c, d \in Conn : \A i \in Msgs(c), j \in Msgs(d) :
      LET m == heard[c][i]
          n == heard[d][j]
      IN  /\ m.src = n.src /\ m.line.k = n.line.k => c = d /\ i = j
          /\ m.src = n.src /\ c = d /\ i < j => m.line.k < n.line.k

\* The name a message is shown under is the one its sender registered, never that of a later
\* user of the same slot or descriptor, and the text is the sender's line, unless the line
\* was a bare "@name".
Authentic ==
    \A c \in Conn : \A i \in Msgs(c) :
      LET m == heard[c][i]
      IN  m.from = uname[m.src] /\ (m.line.kind # "bareAt" => m.body = <<m.src, m.line.k>>)

\* The directory in terms of the table: the name and the selection of every registered
\* client, and what its user is shown of the frames h.
OnlineAs == [c \in Conn |-> IF Registered(c) THEN uname[c] ELSE NoName]
TalkingTo == [c \in Conn |-> IF Registered(c)
                             THEN (CHOOSE u \in ToSet(users) : fds[u.sock] = c).chat_with
                             ELSE NoName]
Shown(h) == [c \in Conn |-> [i \in DOMAIN h[c] |->
              [kind |-> h[c][i].kind, from |-> h[c][i].from, who |-> ToSet(h[c][i].who)]]]

\* The table of users, the descriptors and the scan implement a directory of names.
D == INSTANCE Directory WITH Target <- AnyName,
       online <- OnlineAs, talk <- TalkingTo, out <- Shown(heard)
Directory == D!Spec

(* Liveness, under FairSpec *)

\* The two ways in which one client can hold the only loop of the server, until it is killed:
\* its name is taken and it asks for it again and again, or the server waits for the rest of a
\* frame whose writer has ended while the child of that client keeps the connection open.
Refusing == pc = "name" /\ ~Gone(fds[cur]) /\ FindUser(users, uname[fds[cur]]) # 0
Awaiting == Turn /\ inq[Peer] = <<>> /\ Peer \in writing /\ phase[Peer] = "quitting"
HeldUp   == Refusing \/ Awaiting

\* A client that connects ends up registered, or gone, unless the server is held up for ever by
\* one client (which may be this one, when its name is taken).
Admitted == \A c \in Conn :
    phase[c] = "cert" ~> phase[c] \in {"chatting", "quitting", "gone"} \/ []HeldUp


\* The entry of a client that is gone is removed and never made again, unless the server ends,
\* or is held up for ever, be it by the next run of the same user asking for the same name.
GoneRemoved == \A c \in Conn :
    Gone(c) ~> [](~Registered(c) \/ pc = "dead") \/ []HeldUp

(* What the documentation promises and the code does not keep *)

\* SERVER.md:141 "the server does not get stuck waiting for one particular client."
NeverStuck == []<>(pc \in {"select", "dead"})

================================================================================
