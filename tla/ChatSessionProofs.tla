--------------------------- MODULE ChatSessionProofs ---------------------------
(***************************************************************************)
(* Proofs on top of the wiring of the table.  The scan: select()'s answer  *)
(* stays true for every user it has not reached, so no read is begun with  *)
(* nothing there, and each round reads everybody who was reported.  The    *)
(* sessions: who is in users[], from the answer that says so to the        *)
(* command, or the end of the connection, that ends it.  The frames: each  *)
(* is encrypted for the user it is written to, a message carries the name  *)
(* and the text of the client that sent it, and the messages of one client *)
(* to another are lines of its own, in order and once.  Last, every step   *)
(* of the server maps to a step of the directory of Directory.tla or to    *)
(* none.                                                                   *)
(***************************************************************************)
EXTENDS ChatServerProofs

--------------------------------------------------------------------------------
(* The scan begins no read without a byte, or the end of file, to read *)

\* Steps that leave the table and the descriptors, and take nothing from a queue.
LEMMA ReadyKept ==
    ASSUME IInv, StillReady, UNCHANGED <<pc, idx, readfds, users, fds>>,
           \A c \in Conn : Readable(c) => Readable(c)'
    PROVE  StillReady'
<1>1. \A i \in DOMAIN users : fds[users[i].sock] \in Conn
  BY TableFacts
<1>2. \A i \in DOMAIN users : Pending(i) => Pending(i)'
  BY <1>1 DEF Pending
<1>3. Socks' = Socks
  BY DEF Socks
<1> QED BY <1>2, <1>3 DEF StillReady

LEMMA ClientReady ==
    ASSUME IInv, StillReady, NEW c \in Conn, Connect(c) \/ ClientCode(c) \/ Begin(c) \/ Abandon(c) \/ Die(c)
    PROVE  StillReady'
<1>1. inq \in [Conn -> Seq(Frames)] /\ phase \in [Conn -> Phases]
  BY DEF IInv, Table, TypeOK
<1>2. \A f : Append(inq[c], f) # <<>>
  <2> TAKE f
  <2>1. Len(Append(inq[c], f)) = Len(inq[c]) + 1 /\ Len(inq[c]) \in Nat
    BY <1>1
  <2> QED BY <2>1
<1>3. UNCHANGED <<pc, idx, readfds, users, fds>>
  BY Zenon DEF Connect, ClientCode, Hello, Proof, KeyAgree, Retry, Step, Success, Closed, Type, Begin, Abandon, Die,
               serverVars
<1>4. inq' = inq \/ \E f : Write(c, f)
  BY Zenon DEF Connect, ClientCode, Hello, Proof, KeyAgree, Retry, Step, Success, Closed, Type, Begin, Abandon, Die,
               netVars
<1>5. \A d \in Conn : inq[d] # <<>> => inq'[d] # <<>>
  BY <1>1, <1>2, <1>4 DEF Write
<1>6. /\ phase' = [phase EXCEPT ![c] = phase'[c]]
      /\ Gone(c) => phase'[c] = "gone"
  BY <1>1 DEF Gone, Connect, ClientCode, Hello, Proof, KeyAgree, Retry, Step, Success, Closed, Type, Begin, Abandon, Die
<1>7. \A d \in Conn : Gone(d) => Gone(d)'
  BY <1>1, <1>6 DEF Gone
\* Only the body of a line ends its writing, and then the line is there.
<1>8. writing \subseteq writing' \/ (writing' = writing \ {c} /\ \E f : Write(c, f))
  BY Zenon DEF Connect, ClientCode, Hello, Proof, KeyAgree, Retry, Step, Success, Closed, Type, Begin, Abandon, Die
<1>9. \A d \in Conn : Readable(d) => Readable(d)'
  BY <1>1, <1>2, <1>5, <1>7, <1>8 DEF Readable, Write, Gone
<1> QED BY <1>3, <1>9, ReadyKept

\* The connections of two entries differ, and so does that of the registration in progress.
LEMMA OtherPeer ==
    ASSUME IInv, pc # "dead", NEW i \in 1..Len(users)
    PROVE  /\ fds[users[i].sock] \in Conn /\ users[i].sock \in DOMAIN fds
           /\ \A j \in 1..Len(users) : j # i => fds[users[j].sock] # fds[users[i].sock]
           /\ pc \in Handshake => users[i].sock # cur /\ fds[users[i].sock] # fds[cur]
<1>1. /\ \A j \in 1..Len(users) : users[j].sock \in DOMAIN fds
      /\ DOMAIN users = 1..Len(users) /\ fds[users[i].sock] \in Conn
  BY TableFacts
<1>2. \A j \in 1..Len(users) : j # i => fds[users[j].sock] # fds[users[i].sock]
  BY <1>1 DEF IInv, Table, Wired
<1>3. ASSUME pc \in Handshake PROVE users[i].sock # cur /\ fds[users[i].sock] # fds[cur]
  <2>1. cur \in DOMAIN fds /\ cur \notin Socks
    BY <1>3, HandshakeFacts
  <2>2. users[i].sock \in Socks
    BY <1>1 DEF Socks
  <2> QED BY <1>1, <2>1, <2>2 DEF IInv, Table, Wired
<1> QED BY <1>1, <1>2, <1>3

LEMMA RegistrationReady ==
    ASSUME IInv, StillReady, pc \in {"accept"} \cup Handshake,
           Accept \/ Challenge \/ Share \/ NameLost \/ NameTaken \/ ServerFull \/ Register
    PROVE  StillReady'
<1> USE DEF clientVars
<1> DEFINE n == Len(users)
<1>1. n \in Nat /\ DOMAIN users = 1..n /\ users \in Seq(Users) /\ pc # "dead"
  BY TableFacts DEF IInv, Table, TypeOK, Handshake
<1>2. readfds \subseteq Socks /\ \A i \in 1..n : Pending(i)
  BY <1>1 DEF StillReady
<1>3. UNCHANGED <<readfds, phase, writing>> /\ (users' = users \/ Register)
  BY Zenon DEF Accept, Challenge, Share, NameLost, NameTaken, ServerFull, Register, Drop
<1>4. \A i \in 1..n : /\ users'[i] = users[i] /\ inq'[fds[users[i].sock]] = inq[fds[users[i].sock]]
                      /\ fds'[users[i].sock] = fds[users[i].sock]
  <2> TAKE i \in 1..n
  <2>1. /\ fds[users[i].sock] \in Conn /\ users[i].sock \in DOMAIN fds
        /\ pc \in Handshake => users[i].sock # cur /\ fds[users[i].sock] # fds[cur]
    BY <1>1, OtherPeer
  <2>2. users'[i] = users[i]
    <3>1. CASE Register
      <4>1. PICK m \in Name : users' = Append(users, [name |-> m, sock |-> cur, chat_with |-> NoName,
                                                      key |-> fds[cur]])
        BY <3>1 DEF Register
      <4> QED BY <4>1, <1>1
    <3>2. CASE users' = users
      BY <3>2
    <3> QED BY <1>3, <3>1, <3>2
  <2>3. fds'[users[i].sock] = fds[users[i].sock]
    <3>1. CASE Accept
      BY <2>1, <3>1 DEF Accept
    <3>2. CASE pc \in Handshake /\ (fds' = fds \/ Close(cur))
      BY <2>1, <3>2 DEF Close
    <3>3. Accept \/ (pc \in Handshake /\ (fds' = fds \/ Close(cur)))
      BY DEF Challenge, Share, NameLost, NameTaken, ServerFull, Register, Drop, Naming, Handshake
    <3> QED BY <3>1, <3>2, <3>3
  <2>4. inq'[fds[users[i].sock]] = inq[fds[users[i].sock]]
    <3>1. inq' = inq \/ (pc \in Handshake /\ Consume(fds[cur]))
      BY Zenon DEF Accept, Challenge, Share, NameLost, NameTaken, ServerFull, Register, Drop, Naming, Handshake
    <3>2. inq \in [Conn -> Seq(Frames)]
      BY DEF IInv, Table, TypeOK
    <3> QED BY <2>1, <3>1, <3>2 DEF Consume
  <2> QED BY <2>2, <2>3, <2>4
<1>5. \A i \in 1..n : Pending(i)' /\ users'[i].sock \in Socks
  BY <1>1, <1>2, <1>3, <1>4 DEF Pending, Readable, Gone, Socks
<1>6. CASE users' = users
  <2>1. Socks' = Socks
    BY <1>6 DEF Socks
  <2> QED BY <1>1, <1>2, <1>3, <1>5, <1>6, <2>1 DEF StillReady
<1>7. CASE Register
  <2>1. PICK m \in Name : users' = Append(users, [name |-> m, sock |-> cur, chat_with |-> NoName,
                                                  key |-> fds[cur]])
    BY <1>7 DEF Register
  <2>2. pc = "name" /\ pc' \in {"scan", "dead"}
    BY <1>7 DEF Register, Naming, Goto
  <2>3. cur \notin Socks
    BY <2>2, HandshakeFacts DEF Handshake
  <2>4. DOMAIN users' = 1..(n + 1) /\ users'[n + 1].sock = cur
    BY <1>1, <2>1
  <2>5. ASSUME NEW i \in 1..(n + 1) PROVE Pending(i)'
    <3>1. CASE i \in 1..n
      BY <1>5, <3>1
    <3>2. CASE i = n + 1
      <4>1. users'[i].sock \notin readfds'
        BY <2>3, <2>4, <1>2, <1>3, <3>2
      <4> QED BY <4>1 DEF Pending
    <3> QED BY <1>1, <3>1, <3>2
  <2>6. \A i \in DOMAIN users' : Pending(i)'
    BY <2>4, <2>5
  <2> QED BY <2>2, <2>6 DEF StillReady, Handshake
<1> QED BY <1>3, <1>6, <1>7

LEMMA ScanReady ==
    ASSUME IInv, StillReady, Turn,
           ServeQuit \/ ServeWho \/ ServeChat \/ ServeText \/ ServeAt \/ ServeBareAt
    PROVE  StillReady'
<1> USE DEF clientVars
<1> DEFINE n == Len(users)
<1>1. /\ n \in Nat /\ DOMAIN users = 1..n /\ users \in Seq(Users) /\ idx \in 1..n
      /\ pc = "scan" /\ pc # "dead" /\ Peer \in Conn
      /\ inq \in [Conn -> Seq(Frames)]
  BY TableFacts, TurnFacts DEF IInv, Table, TypeOK
<1>2. \A i \in 1..n : i >= idx => Pending(i)
  BY <1>1 DEF StillReady
<1>3. /\ UNCHANGED <<readfds, phase, writing>> /\ (inq' = inq \/ Consume(Peer)) /\ pc' \in {"scan", "dead"}
  BY <1>1, SMTT(30) DEF ServeQuit, Quit, QuitAt, ServeWho, ServeChat, ServeText, ServeAt, ServeBareAt,
              Command, Done, Read, Goto, Overrun
<1>4. \A i \in 1..n : i # idx =>
        /\ fds[users[i].sock] \in Conn /\ users[i].sock \in DOMAIN fds
        /\ users[i].sock # users[idx].sock
        /\ inq'[fds[users[i].sock]] = inq[fds[users[i].sock]]
  <2> SUFFICES ASSUME NEW i \in 1..n, i # idx
               PROVE  /\ fds[users[i].sock] \in Conn /\ users[i].sock \in DOMAIN fds
                      /\ users[i].sock # users[idx].sock
                      /\ inq'[fds[users[i].sock]] = inq[fds[users[i].sock]]
    OBVIOUS
  <2>1. fds[users[i].sock] \in Conn /\ users[i].sock \in DOMAIN fds /\ fds[users[i].sock] # Peer
    BY <1>1, OtherPeer DEF Peer
  <2> QED BY <2>1, <1>1, <1>3 DEF Consume, Peer
\* The handlers that keep their user move on by one.
<1>5. CASE ServeWho \/ ServeChat \/ ServeText \/ ServeAt \/ ServeBareAt
  <2>1. idx' = idx + 1 /\ fds' = fds
    BY <1>5 DEF ServeWho, ServeChat, ServeText, ServeAt, ServeBareAt, Done
  <2>2. DOMAIN users' = 1..n /\ \A i \in 1..n : users'[i].sock = users[i].sock
    <3>1. users' \in Seq(Users) /\ Same(users', users)
      BY <1>5, TableKept
    <3> QED BY <3>1, <1>1, LenProperties DEF Same
  <2>3. ASSUME NEW i \in 1..n, i >= idx' PROVE Pending(i)'
    <3>1. i # idx /\ i >= idx /\ Pending(i)
      BY <1>1, <1>2, <2>1, <2>3
    <3>2. users'[i].sock = users[i].sock /\ fds'[users'[i].sock] = fds[users[i].sock]
      BY <2>1, <2>2
    <3>3. inq'[fds[users[i].sock]] = inq[fds[users[i].sock]]
      BY <1>4, <3>1
    <3> QED BY <1>3, <3>1, <3>2, <3>3 DEF Pending, Readable, Gone
  <2> QED BY <1>3, <2>2, <2>3 DEF StillReady, Handshake
\* After service_quit the same index holds the next user.
<1>6. CASE ServeQuit
  <2>1. /\ idx' = idx /\ users' = RemoveAt(users, idx) /\ Close(users[idx].sock)
    BY <1>6 DEF ServeQuit, Quit, QuitAt
  <2>2. /\ Len(users') = n - 1 /\ users' \in Seq(Users)
        /\ \A k \in 1..(n - 1) : users'[k] = IF k < idx THEN users[k] ELSE users[k + 1]
    BY <1>1, <2>1, RemoveAtProperties
  <2>3. DOMAIN users' = 1..(n - 1)
    BY <2>2, LenProperties
  <2>4. ASSUME NEW k \in 1..(n - 1), k >= idx PROVE Pending(k)'
    <3>1. /\ k + 1 \in 1..n /\ k + 1 # idx /\ k + 1 >= idx /\ users'[k] = users[k + 1]
      BY <1>1, <2>2, <2>4
    <3>2. fds'[users[k + 1].sock] = fds[users[k + 1].sock]
      BY <1>4, <2>1, <3>1 DEF Close
    <3>3. Pending(k + 1)
      BY <1>2, <3>1
    <3> QED BY <1>3, <1>4, <3>1, <3>2, <3>3 DEF Pending, Readable, Gone
  <2> QED BY <1>3, <2>1, <2>3, <2>4 DEF StillReady, Handshake
<1> QED BY <1>5, <1>6

LEMMA ReadyInit == Init => StillReady
BY DEF Init, StillReady, Handshake

LEMMA ReadyNext == IInv /\ StillReady /\ [Next]_vars => StillReady'
<1> SUFFICES ASSUME IInv, StillReady, [Next]_vars PROVE StillReady'
  OBVIOUS
<1>1. CASE Select
  <2>1. Len(users) \in Nat /\ DOMAIN users = 1..Len(users)
    BY TableFacts
  <2>2. /\ UNCHANGED <<users, fds, inq, phase, writing>> /\ readfds' = Ready
        /\ pc' \in {"accept", "scan"}
    BY <1>1 DEF Select, clientVars, netVars
  <2>3. Ready \subseteq Socks /\ Socks' = Socks
    BY <2>2 DEF Ready, Socks
  <2>4. \A i \in DOMAIN users' : Pending(i)'
    BY <2>2 DEF Pending, Ready, Readable, Gone
  <2> QED BY <2>2, <2>3, <2>4 DEF StillReady
<1>2. CASE EndScan
  BY <1>2 DEF EndScan, StillReady, Handshake
<1>3. CASE Skip
  <2>1. idx' = idx + 1 /\ UNCHANGED <<pc, readfds, users, fds, inq, phase, writing>> /\ idx \in Nat
        /\ pc = "scan"
    BY <1>3 DEF Skip, clientVars, netVars, IInv, Table, TypeOK
  <2>2. DOMAIN users = 1..Len(users) /\ Len(users) \in Nat
    BY TableFacts
  <2>3. \A i \in DOMAIN users : i >= idx + 1 => Pending(i)
    BY <2>1, <2>2 DEF StillReady
  <2>4. \A i \in DOMAIN users : Pending(i) => Pending(i)'
    BY <2>1 DEF Pending, Readable, Gone
  <2> QED BY <2>1, <2>3, <2>4 DEF StillReady, Handshake
<1>4. CASE Accept \/ Challenge \/ Share \/ NameLost \/ NameTaken \/ ServerFull \/ Register
  <2>1. pc \in {"accept"} \cup Handshake
    BY <1>4 DEF Accept, Challenge, Share, NameLost, NameTaken, ServerFull, Register, Naming, Handshake
  <2> QED BY <1>4, <2>1, RegistrationReady
<1>5. CASE ServeQuit \/ ServeWho \/ ServeChat \/ ServeText \/ ServeAt \/ ServeBareAt
  <2>1. Turn
    BY <1>5 DEF ServeQuit, ServeWho, ServeChat, ServeText, ServeAt, ServeBareAt, Command
  <2> QED BY <1>5, <2>1, ScanReady
<1>6. ASSUME NEW c \in Conn, Connect(c) \/ ClientCode(c) \/ Begin(c) \/ Abandon(c) \/ Die(c) PROVE StillReady'
  BY <1>6, ClientReady
<1>7. CASE CaStop \/ UNCHANGED vars
  <2>1. UNCHANGED <<pc, idx, readfds, users, fds, inq, phase, writing>>
    BY <1>7 DEF CaStop, vars, serverVars, clientVars, netVars
  <2> QED BY <2>1, ReadyKept DEF Readable, Gone
<1> QED BY <1>1, <1>2, <1>3, <1>4, <1>5, <1>6, <1>7 DEF Next, ServerNext

\* Whatever the clients do between select() and the read, the scan begins no read without a byte
\* or the end of file to read.  (It may then wait for the rest of the frame.)
THEOREM ScanReadsReady == Spec => []ReadsOnlyReady
<1>1. IInv /\ StillReady => ReadsOnlyReady
  <2> SUFFICES ASSUME IInv, StillReady, Turn PROVE Readable(Peer)
    BY DEF ReadsOnlyReady
  <2>1. idx \in 1..Len(users) /\ pc = "scan" /\ idx \in DOMAIN users /\ idx >= idx
    BY TurnFacts, TableFacts
  <2> QED BY <2>1 DEF StillReady, Pending, Turn, Peer
<1>2. Spec => []StillReady
  BY ReadyInit, ReadyNext, Inductive, PTL DEF Spec
<1> QED BY <1>1, <1>2, Inductive, PTL

--------------------------------------------------------------------------------
(* Who is in the table *)

\* The first n entries keep their sockets and these their connections.
Kept(n) == \A i \in 1..n : /\ i \in DOMAIN users' /\ users'[i].sock = users[i].sock
                           /\ users[i].sock \in DOMAIN fds' /\ fds'[users[i].sock] = fds[users[i].sock]

\* Every step but service_quit keeps the entries, and only Register makes one.
LEMMA EntriesKept ==
    ASSUME IInv, [Next]_vars, ~ServeQuit
    PROVE  /\ Kept(Len(users))
           /\ ~Register => DOMAIN users' = 1..Len(users)
<1> DEFINE n == Len(users)
<1>1. /\ n \in Nat /\ DOMAIN users = 1..n /\ users \in Seq(Users)
      /\ \A i \in 1..n : users[i].sock \in DOMAIN fds
  BY TableFacts DEF IInv, Table, TypeOK
<1>2. CASE UNCHANGED <<users, fds>>
  BY <1>1, <1>2 DEF Kept
<1>3. CASE Accept
  <2>1. users' = users /\ \A f \in DOMAIN fds : f \in DOMAIN fds' /\ fds'[f] = fds[f]
    BY <1>3 DEF Accept
  <2> QED BY <2>1, <1>1 DEF Kept
<1>4. CASE Drop /\ pc \in Handshake
  <2>1. users' = users /\ cur \notin Socks
    BY <1>4, HandshakeFacts DEF Drop
  <2>2. \A i \in 1..n : users[i].sock # cur
    BY <2>1, <1>1 DEF Socks
  <2> QED BY <2>1, <2>2, <1>1, <1>4 DEF Kept, Drop, Close
<1>5. CASE Register
  <2>1. PICK m \in Name : users' = Append(users, [name |-> m, sock |-> cur, chat_with |-> NoName,
                                                  key |-> fds[cur]])
    BY <1>5 DEF Register
  <2>2. fds' = fds
    BY <1>5 DEF Register
  <2>3. \A i \in 1..n : i \in DOMAIN users' /\ users'[i] = users[i]
    BY <2>1, <1>1
  <2> QED BY <2>2, <2>3, <1>1, <1>5 DEF Kept
<1>6. CASE ServeWho \/ ServeChat \/ ServeText \/ ServeAt \/ ServeBareAt
  <2>1. users' \in Seq(Users) /\ Same(users', users)
    BY <1>6, TableKept
  <2>2. fds' = fds
    BY <1>6 DEF ServeWho, ServeChat, ServeText, ServeAt, ServeBareAt, Done
  <2>3. DOMAIN users' = 1..n
    BY <2>1, LenProperties DEF Same
  <2> QED BY <2>1, <2>2, <2>3, <1>1 DEF Kept, Same
<1>7. CASE Challenge \/ Share \/ NameLost \/ NameTaken \/ ServerFull
  <2>1. pc \in Handshake
    BY <1>7 DEF Challenge, Share, NameLost, NameTaken, ServerFull, Naming, Handshake
  <2>2. Drop \/ UNCHANGED <<users, fds>>
    BY <1>7, Zenon DEF Challenge, Share, NameLost, NameTaken, ServerFull
  <2> QED BY <2>1, <2>2, <1>2, <1>4
<1>8. CASE Select \/ EndScan \/ Skip
  BY <1>8, <1>2 DEF Select, EndScan, Skip
<1>9. ASSUME NEW c \in Conn, Connect(c) \/ ClientCode(c) \/ Begin(c) \/ Abandon(c) \/ Die(c)
      PROVE  UNCHANGED <<users, fds>>
  BY <1>9, Zenon DEF Connect, ClientCode, Hello, Proof, KeyAgree, Retry, Step, Success, Closed, Type, Begin, Abandon, Die,
                     serverVars
<1>10. CASE CaStop \/ UNCHANGED vars
  BY <1>10, <1>2 DEF CaStop, vars, serverVars
<1> QED BY <1>2, <1>3, <1>5, <1>6, <1>7, <1>8, <1>9, <1>10 DEF Next, ServerNext

\* After service_quit each entry is one of the others.
LEMMA QuitKept ==
    ASSUME IInv, ServeQuit
    PROVE  /\ idx \in 1..Len(users) /\ users' \in Seq(Users) /\ Len(users') = Len(users) - 1
           /\ \A i \in (1..Len(users)) \ {idx} : \E k \in DOMAIN users' :
                users'[k] = users[i] /\ users[i].sock \in DOMAIN fds' /\ fds'[users[i].sock] = fds[users[i].sock]
           /\ \A k \in DOMAIN users' : \E i \in (1..Len(users)) \ {idx} :
                users'[k] = users[i] /\ fds'[users[i].sock] = fds[users[i].sock]
<1> DEFINE n == Len(users)
<1>1. Turn /\ users' = RemoveAt(users, idx) /\ Close(users[idx].sock)
  BY DEF ServeQuit, Quit, QuitAt
<1>2. /\ n \in Nat /\ DOMAIN users = 1..n /\ users \in Seq(Users) /\ idx \in 1..n
      /\ \A i \in 1..n : users[i].sock \in DOMAIN fds
  BY <1>1, TableFacts, TurnFacts DEF IInv, Table, TypeOK
<1>3. /\ Len(users') = n - 1 /\ users' \in Seq(Users)
      /\ \A k \in 1..(n - 1) : users'[k] = IF k < idx THEN users[k] ELSE users[k + 1]
  BY <1>1, <1>2, RemoveAtProperties
<1>4. DOMAIN users' = 1..(n - 1)
  BY <1>3, LenProperties
<1>5. \A i \in (1..n) \ {idx} : users[i].sock \in DOMAIN fds' /\ fds'[users[i].sock] = fds[users[i].sock]
  BY <1>1, <1>2 DEF Close, IInv, Table, Wired
<1>6. \A i \in (1..n) \ {idx} : \E k \in 1..(n - 1) : users'[k] = users[i]
  <2> TAKE i \in (1..n) \ {idx}
  <2>1. CASE i < idx
    <3>1. i \in 1..(n - 1) /\ users'[i] = users[i]
      BY <2>1, <1>2, <1>3
    <3> QED BY <3>1
  <2>2. CASE i > idx
    <3>1. i - 1 \in 1..(n - 1) /\ ~(i - 1 < idx) /\ (i - 1) + 1 = i
      BY <2>2, <1>2
    <3>2. users'[i - 1] = users[i]
      BY <3>1, <1>3
    <3> QED BY <3>1, <3>2
  <2> QED BY <2>1, <2>2, <1>2
<1>7. \A k \in 1..(n - 1) : \E i \in (1..n) \ {idx} : users'[k] = users[i]
  <2> TAKE k \in 1..(n - 1)
  <2>1. CASE k < idx
    <3>1. k \in (1..n) \ {idx} /\ users'[k] = users[k]
      BY <2>1, <1>2, <1>3
    <3> QED BY <3>1
  <2>2. CASE ~(k < idx)
    <3>1. k + 1 \in (1..n) \ {idx} /\ users'[k] = users[k + 1]
      BY <2>2, <1>2, <1>3
    <3> QED BY <3>1
  <2> QED BY <2>1, <2>2
<1>8. \A i \in (1..n) \ {idx} : \E k \in DOMAIN users' :
        users'[k] = users[i] /\ users[i].sock \in DOMAIN fds' /\ fds'[users[i].sock] = fds[users[i].sock]
  BY <1>4, <1>5, <1>6
<1>9. \A k \in DOMAIN users' : \E i \in (1..n) \ {idx} :
        users'[k] = users[i] /\ fds'[users[i].sock] = fds[users[i].sock]
  BY <1>4, <1>5, <1>7
<1> QED BY <1>2, <1>3, <1>8, <1>9

--------------------------------------------------------------------------------
(* Nobody leaves without a cause *)

\* A step that removes an entry is service_quit for that entry's own client.
LEMMA LeaverHasCause ==
    ASSUME IInv, [Next]_vars, NEW c \in Conn, Registered(c), ~Registered(c)'
    PROVE  Gone(c) \/ Asks(c, {"quit", "empty", "garbled"})
<1>1. PICK i \in 1..Len(users) : users[i].sock \in DOMAIN fds /\ fds[users[i].sock] = c
  BY TableFacts DEF Registered
<1>2. ServeQuit
  <2> SUFFICES ASSUME ~ServeQuit PROVE FALSE
    OBVIOUS
  <2>1. /\ i \in DOMAIN users' /\ users'[i].sock = users[i].sock
        /\ users[i].sock \in DOMAIN fds' /\ fds'[users[i].sock] = c
    BY <1>1, EntriesKept DEF Kept
  <2> QED BY <2>1 DEF Registered
<1>3. i = idx
  <2> SUFFICES ASSUME i # idx PROVE FALSE
    OBVIOUS
  <2>1. PICK k \in DOMAIN users' :
          users'[k] = users[i] /\ users[i].sock \in DOMAIN fds' /\ fds'[users[i].sock] = fds[users[i].sock]
    BY <1>1, <1>2, QuitKept
  <2> QED BY <2>1, <1>1 DEF Registered
<1>4. Peer = c /\ users[idx].key = Peer
  BY <1>1, <1>3, TableFacts DEF Peer, IInv, Table, Wired
<1>5. EOF(Peer) \/ (Read /\ (Unusable \/ Line.kind = "quit"))
  BY <1>2 DEF ServeQuit
<1>6. CASE EOF(Peer)
  BY <1>4, <1>6 DEF EOF
<1>7. CASE Read /\ (Unusable \/ Line.kind = "quit")
  BY <1>4, <1>7 DEF Read, Consume, Unusable, Line, Asks
<1> QED BY <1>5, <1>6, <1>7

\* Removing one user never removes another, for any table.
THEOREM NobodyIsRemovedForAnother == Spec => LeavesOnlyOnCause
<1>1. IInv /\ [Next]_vars =>
        [\A c \in Conn : Registered(c) /\ ~Registered(c)' =>
           Gone(c) \/ Asks(c, {"quit", "empty", "garbled"})]_vars
  BY LeaverHasCause
<1> QED BY <1>1, Inductive, PTL DEF Spec, LeavesOnlyOnCause

--------------------------------------------------------------------------------
(* The client and the server agree on who is registered *)

\* The client of an entry was told, or the answer is the next and only thing it will read.
Told(c) == \/ phase[c] \in {"chatting", "quitting", "gone"}
           \/ phase[c] = "naming" /\ outq[c] = <<"ok">>
AllTold == \A i \in 1..Len(users) : Told(fds[users[i].sock])

\* No step takes this away from the client of an entry.
LEMMA ToldStable ==
    ASSUME IInv, AllTold, [Next]_vars, NEW i \in 1..Len(users), NEW c \in Conn, c = fds[users[i].sock]
    PROVE  Told(c)'
<1> USE DEF serverVars, clientVars, netVars
<1>1. /\ phase \in [Conn -> Phases] /\ outq \in [Conn -> Seq(Greetings)]
      /\ users[i].sock \in DOMAIN fds /\ Told(c) /\ phase[c] # "idle"
  BY TableFacts DEF IInv, Table, TypeOK, Greetings, AllTold, Queued
<1>2. ASSUME phase'[c] = phase[c], outq'[c] = outq[c] PROVE Told(c)'
  BY <1>1, <1>2 DEF Told
<1>3. CASE Accept
  <2>1. backlog \in Seq(Conn) /\ backlog # <<>> /\ SendTo(Head(backlog), <<"cert">>) /\ phase' = phase
    BY <1>3 DEF Accept, IInv, Table, TypeOK, Queued
  <2>2. 1 \in DOMAIN backlog /\ Head(backlog) = backlog[1]
    BY <2>1, TailProperties
  <2>3. Head(backlog) # c
    BY <2>2, <1>1 DEF IInv, Table, Queued
  <2> QED BY <2>1, <2>3, <1>1, <1>2 DEF SendTo
<1>4. CASE Challenge \/ Share \/ NameLost \/ NameTaken \/ ServerFull \/ Register
  <2>1. pc \in Handshake /\ pc # "dead"
    BY <1>4 DEF Challenge, Share, NameLost, NameTaken, ServerFull, Register, Naming, Handshake
  <2>2. fds[cur] # c
    BY <2>1, OtherPeer
  <2>3. phase' = phase
    BY <1>4, Zenon DEF Challenge, Share, NameLost, NameTaken, ServerFull, Register, Drop
  <2>4. outq' = outq \/ \E ms : SendTo(fds[cur], ms)
    BY <1>4, Zenon DEF Challenge, Share, NameLost, NameTaken, ServerFull, Register
  <2> QED BY <2>2, <2>3, <2>4, <1>1, <1>2 DEF SendTo
<1>5. CASE Select \/ EndScan \/ Skip \/ ServeQuit \/ ServeWho \/ ServeChat \/ ServeText \/ ServeAt \/ ServeBareAt
           \/ CaStop \/ UNCHANGED vars
  <2>1. UNCHANGED <<phase, outq>>
    BY <1>5, Zenon DEF Select, EndScan, Skip, ServeQuit, Quit, QuitAt, ServeWho, ServeChat, ServeText,
                       ServeAt, ServeBareAt, Done, CaStop, vars
  <2> QED BY <2>1, <1>2
<1>6. ASSUME NEW d \in Conn, Connect(d) \/ ClientCode(d) \/ Begin(d) \/ Abandon(d) \/ Die(d)
      PROVE  Told(c)'
  <2>1. CASE d # c
    <3>1. phase'[c] = phase[c]
      BY <1>1, <1>6, <2>1 DEF Connect, ClientCode, Hello, Proof, KeyAgree, Retry, Step, Success, Closed, Type, Begin, Abandon, Die
    <3>2. outq'[c] = outq[c]
      BY <1>1, <1>6, <2>1 DEF Connect, ClientCode, Hello, Proof, KeyAgree, Retry, Step, Success, Closed, Type, Begin, Abandon, Die
    <3> QED BY <3>1, <3>2, <1>2
  <2>2. CASE d = c
    <3>1. ~Connect(c) /\ ~Hello(c) /\ ~Proof(c) /\ ~KeyAgree(c)
      BY <1>1 DEF Connect, Hello, Proof, KeyAgree, Step, Told
    <3>2. ~Retry(c)
      <4>1. outq[c] = <<"ok">> => Head(outq[c]) = "ok"
        OBVIOUS
      <4> QED BY <4>1, <1>1 DEF Retry, Step, Told
    <3>3. phase'[c] \in {"chatting", "quitting", "gone"}
      BY <1>1, <1>6, <2>2, <3>1, <3>2 DEF ClientCode, Success, Closed, Type, Begin, Abandon, Die
    <3> QED BY <3>3 DEF Told
  <2> QED BY <2>1, <2>2
<1> QED BY <1>3, <1>4, <1>5, <1>6 DEF Next, ServerNext

LEMMA ToldNext == IInv /\ AllTold /\ [Next]_vars => AllTold'
<1> SUFFICES ASSUME IInv, AllTold, [Next]_vars PROVE AllTold'
  OBVIOUS
<1> DEFINE n == Len(users)
<1>1. \A i \in 1..n : \E c \in Conn : c = fds[users[i].sock] /\ Told(c)'
  <2> TAKE i \in 1..n
  <2>1. PICK c \in Conn : c = fds[users[i].sock]
    BY TableFacts
  <2>2. Told(c)'
    BY <2>1, ToldStable
  <2> QED BY <2>1, <2>2
<1>2. Len(users) \in Nat /\ users' \in Seq(Users)
  BY NextInv, TableFacts DEF IInv, Table, TypeOK
<1>3. DOMAIN users' = 1..Len(users') /\ Len(users') \in Nat
  BY <1>2, LenProperties
<1>4. CASE ServeQuit
  <2>1. \A k \in DOMAIN users' : \E i \in 1..n :
          users'[k] = users[i] /\ fds'[users[i].sock] = fds[users[i].sock]
    BY <1>4, QuitKept
  <2>2. ASSUME NEW k \in 1..Len(users') PROVE Told(fds[users[k].sock])'
    <3>1. PICK i \in 1..n : users'[k] = users[i] /\ fds'[users[i].sock] = fds[users[i].sock]
      BY <2>1, <1>3
    <3>2. PICK c \in Conn : c = fds[users[i].sock] /\ Told(c)'
      BY <1>1
    <3>3. fds'[users'[k].sock] = c
      BY <3>1, <3>2
    <3> QED BY <3>2, <3>3
  <2> QED BY <2>2 DEF AllTold
<1>5. CASE ~ServeQuit /\ ~Register
  <2>1. Kept(n) /\ DOMAIN users' = 1..n
    BY <1>5, EntriesKept
  <2>2. ASSUME NEW k \in 1..n PROVE Told(fds[users[k].sock])'
    <3>1. PICK c \in Conn : c = fds[users[k].sock] /\ Told(c)'
      BY <1>1
    <3>2. fds'[users'[k].sock] = c
      BY <2>1, <3>1 DEF Kept
    <3> QED BY <3>1, <3>2
  <2>3. Len(users') = n
    BY <2>1, <1>2, <1>3
  <2> QED BY <2>2, <2>3 DEF AllTold
<1>6. CASE Register
  <2>1. ~ServeQuit
    BY <1>6 DEF Register, Naming, ServeQuit, Turn
  <2>2. Kept(n)
    BY <2>1, EntriesKept
  <2>3. PICK m \in Name : /\ Naming(fds[cur], m) /\ SendTo(fds[cur], <<"ok">>) /\ fds' = fds /\ phase' = phase
                          /\ users' = Append(users, [name |-> m, sock |-> cur, chat_with |-> NoName,
                                                     key |-> fds[cur]])
    BY <1>6 DEF Register, clientVars
  <2>4. Len(users') = n + 1 /\ users'[n + 1].sock = cur
    BY <1>2, <2>3 DEF IInv, Table, TypeOK
  <2>5. \E c \in Conn : c = fds[cur] /\ Told(c)'
    <3>1. pc = "name" /\ inq[fds[cur]] # <<>> /\ fds[cur] \in Conn
      BY <2>3, HandshakeFacts DEF Naming, Handshake
    <3>2. PICK c \in Conn : c = fds[cur]
      BY <3>1
    <3>3. phase[c] \in {"naming", "gone"} /\ outq[c] = <<>>
      BY <3>1, <3>2 DEF IInv, InStep, Expected, At, Handshake
    <3>4. outq \in [Conn -> Seq(Greetings)] /\ <<>> \o <<"ok">> = <<"ok">>
      BY DEF IInv, Table, TypeOK, Greetings
    <3>5. outq'[c] = <<"ok">>
      BY <2>3, <3>2, <3>3, <3>4 DEF SendTo
    <3>6. Told(c)'
      BY <2>3, <3>3, <3>5 DEF Told
    <3> QED BY <3>2, <3>6
  <2>6. ASSUME NEW k \in 1..Len(users') PROVE Told(fds[users[k].sock])'
    <3>1. CASE k \in 1..n
      <4>1. PICK c \in Conn : c = fds[users[k].sock] /\ Told(c)'
        BY <3>1, <1>1
      <4>2. fds'[users'[k].sock] = c
        BY <3>1, <2>2, <4>1 DEF Kept
      <4> QED BY <4>1, <4>2
    <3>2. CASE k = n + 1
      <4>1. PICK c \in Conn : c = fds[cur] /\ Told(c)'
        BY <2>5
      <4>2. fds'[users'[k].sock] = c
        BY <3>2, <2>3, <2>4, <4>1
      <4> QED BY <4>1, <4>2
    <3> QED BY <3>1, <3>2, <1>2, <2>4
  <2> QED BY <2>6 DEF AllTold
<1> QED BY <1>4, <1>5, <1>6

LEMMA ToldInit == Init => AllTold
BY EmptySeq DEF Init, AllTold

\* A client that chats and whose connection the server holds is in users[], and a client in
\* users[] was told so or will be.
THEOREM ClientAndServerAgree == Spec => []Agreement
<1>1. IInv /\ AllTold => Agreement
  <2> SUFFICES ASSUME IInv, AllTold, NEW c \in Conn
               PROVE  /\ phase[c] \in {"chatting", "quitting"} /\ Held(c) => Registered(c)
                      /\ Registered(c) => \/ phase[c] \in {"chatting", "quitting", "gone"}
                                          \/ phase[c] = "naming" /\ Len(outq[c]) > 0 /\ Last(outq[c]) = "ok"
    BY DEF Agreement
  <2>1. ASSUME phase[c] \in {"chatting", "quitting"}, Held(c) PROVE Registered(c)
    <3>1. pc # "dead" /\ ~ \E i \in DOMAIN backlog : backlog[i] = c
      BY <2>1 DEF Held, IInv, InStep
    <3>2. PICK f \in DOMAIN fds : fds[f] = c
      BY <2>1, <3>1 DEF Held
    <3>3. f # cur
      <4> SUFFICES ASSUME f = cur PROVE FALSE
        OBVIOUS
      <4>1. cur # NoFd
        BY TableFacts, FdAssumption
      <4>2. pc \in Handshake
        BY <3>1, <4>1 DEF IInv, Table, Wired
      <4>3. Expected(c)
        BY <3>2, <4>2 DEF IInv, InStep
      <4> QED BY <4>3, <2>1 DEF Expected, At, Gone
    <3>4. f \in Socks
      BY <3>1, <3>3 DEF IInv, Table, Wired
    <3> QED BY <3>2, <3>4 DEF Socks, Registered
  <2>2. ASSUME Registered(c)
        PROVE  \/ phase[c] \in {"chatting", "quitting", "gone"}
               \/ phase[c] = "naming" /\ Len(outq[c]) > 0 /\ Last(outq[c]) = "ok"
    <3>1. Told(c)
      BY <2>2, TableFacts DEF Registered, AllTold
    <3>2. Len(<<"ok">>) = 1 /\ <<"ok">>[1] = "ok"
      OBVIOUS
    <3>3. Last(<<"ok">>) = "ok"
      BY <3>2 DEF Last
    <3>4. outq[c] = <<"ok">> => Len(outq[c]) > 0 /\ Last(outq[c]) = "ok"
      BY <3>2, <3>3
    <3> QED BY <3>1, <3>4 DEF Told
  <2> QED BY <2>1, <2>2
<1>2. Spec => []AllTold
  BY ToldInit, ToldNext, Inductive, PTL DEF Spec
<1> QED BY <1>1, <1>2, Inductive, PTL

\* Who waits in the accept queue has connected once and is not accepted yet.
THEOREM QueueIsApart == Spec => []Queued
<1>1. IInv => Queued
  BY DEF IInv, Table
<1> QED BY <1>1, Inductive, PTL

--------------------------------------------------------------------------------
(* A round reads everybody select() had reported *)

\* Who was reported and not read yet is still ahead of the scan.
Ahead(f) == \E i \in idx..Len(users) : users[i].sock = f
Covered == pc = "scan" => \A f \in readfds : f \in served \/ Ahead(f)

LEMMA CoveredByScan ==
    ASSUME IInv, Covered, Turn,
           ServeQuit \/ ServeWho \/ ServeChat \/ ServeText \/ ServeAt \/ ServeBareAt
    PROVE  Covered'
<1> DEFINE n == Len(users)
<1>1. /\ n \in Nat /\ DOMAIN users = 1..n /\ users \in Seq(Users) /\ idx \in 1..n /\ pc = "scan"
  BY TableFacts, TurnFacts DEF IInv, Table, TypeOK
<1>2. readfds' = readfds /\ served' = served \cup {users[idx].sock}
  BY DEF ServeQuit, Quit, QuitAt, ServeWho, ServeChat, ServeText, ServeAt, ServeBareAt, Command, Done, Read
<1>3. SUFFICES ASSUME NEW f \in readfds, f \notin served' PROVE Ahead(f)'
  BY <1>2 DEF Covered
<1>4. PICK i \in idx..n : users[i].sock = f
  BY <1>1, <1>2, <1>3 DEF Covered, Ahead
<1>5. i \in (idx + 1)..n
  BY <1>1, <1>2, <1>3, <1>4
<1>6. CASE ServeQuit
  <2>1. users' = RemoveAt(users, idx) /\ idx' = idx
    BY <1>6 DEF ServeQuit, Quit, QuitAt
  <2>2. /\ Len(users') = n - 1
        /\ \A k \in 1..(n - 1) : users'[k] = IF k < idx THEN users[k] ELSE users[k + 1]
    BY <1>1, <2>1, RemoveAtProperties
  <2>3. i - 1 \in 1..(n - 1) /\ ~(i - 1 < idx) /\ (i - 1) + 1 = i /\ i - 1 \in idx..(n - 1)
    BY <1>1, <1>5
  <2>4. users'[i - 1] = users[i]
    BY <2>2, <2>3
  <2> QED BY <2>1, <2>2, <2>3, <2>4, <1>4 DEF Ahead
<1>7. CASE ServeWho \/ ServeChat \/ ServeText \/ ServeAt \/ ServeBareAt
  <2>1. users' \in Seq(Users) /\ Same(users', users)
    BY <1>7, TableKept
  <2>2. idx' = idx + 1
    BY <1>7 DEF ServeWho, ServeChat, ServeText, ServeAt, ServeBareAt, Done
  <2>3. i \in 1..n
    BY <1>1, <1>4
  <2> QED BY <2>1, <2>2, <2>3, <1>4, <1>5 DEF Ahead, Same
<1> QED BY <1>6, <1>7

LEMMA CoveredNext == IInv /\ StillReady /\ Covered /\ [Next]_vars => Covered'
<1> SUFFICES ASSUME IInv, StillReady, Covered, [Next]_vars PROVE Covered'
  OBVIOUS
<1> DEFINE n == Len(users)
<1>1. n \in Nat /\ DOMAIN users = 1..n /\ Socks = {users[i].sock : i \in 1..n} /\ idx \in Nat \ {0}
  BY TableFacts DEF IInv, Table, TypeOK
<1>2. CASE Select
  <2>1. users' = users /\ readfds' = Ready /\ Ready \subseteq Socks /\ (pc' = "scan" => idx' = 1)
    BY <1>2 DEF Select, Ready
  <2> QED BY <2>1, <1>1 DEF Covered, Ahead
<1>3. CASE EndScan \/ Accept
  <2>1. pc' # "scan"
    BY <1>3 DEF EndScan, Accept, Goto
  <2> QED BY <2>1 DEF Covered
<1>4. CASE Skip
  <2>1. /\ pc = "scan" /\ idx \in 1..n /\ users[idx].sock \notin readfds /\ idx' = idx + 1
        /\ UNCHANGED <<users, readfds, served>>
    BY <1>1, <1>4 DEF Skip
  <2>2. ASSUME NEW f \in readfds, f \notin served PROVE Ahead(f)'
    <3>1. PICK i \in idx..n : users[i].sock = f
      BY <2>1, <2>2 DEF Covered, Ahead
    <3>2. i \in (idx + 1)..n
      BY <2>1, <3>1, <1>1
    <3> QED BY <2>1, <3>1, <3>2 DEF Ahead
  <2> QED BY <2>1, <2>2 DEF Covered
<1>5. CASE Challenge \/ Share \/ NameLost \/ NameTaken \/ ServerFull \/ Register
  <2>1. pc \in Handshake /\ ~ServeQuit /\ pc # "scan"
    BY <1>5 DEF Challenge, Share, NameLost, NameTaken, ServerFull, Register, Naming, Handshake, ServeQuit, Turn
  <2>2. readfds' = readfds /\ (pc' = "scan" => idx' = 1)
    BY <1>5 DEF Challenge, Share, NameLost, NameTaken, ServerFull, Register, Drop, Goto
  <2>3. readfds \subseteq Socks
    BY <2>1 DEF StillReady
  <2>4. Kept(n)
    BY <2>1, EntriesKept
  <2>5. users' \in Seq(Users)
    BY NextInv DEF IInv, Table, TypeOK
  <2>6. DOMAIN users' = 1..Len(users') /\ Len(users') \in Nat
    BY <2>5, LenProperties
  <2>7. ASSUME NEW f \in readfds, pc' = "scan" PROVE Ahead(f)'
    <3>1. PICK i \in 1..n : users[i].sock = f
      BY <2>3, <2>7, <1>1
    <3>2. i \in 1..Len(users') /\ users'[i].sock = f
      BY <2>4, <2>6, <3>1 DEF Kept
    <3> QED BY <2>2, <2>7, <3>2 DEF Ahead
  <2> QED BY <2>2, <2>7 DEF Covered
<1>6. CASE ServeQuit \/ ServeWho \/ ServeChat \/ ServeText \/ ServeAt \/ ServeBareAt
  <2>1. Turn
    BY <1>6 DEF ServeQuit, ServeWho, ServeChat, ServeText, ServeAt, ServeBareAt, Command
  <2> QED BY <1>6, <2>1, CoveredByScan
<1>7. ASSUME NEW c \in Conn, Connect(c) \/ ClientCode(c) \/ Begin(c) \/ Abandon(c) \/ Die(c)
      PROVE  UNCHANGED serverVars
  BY <1>7, Zenon DEF Connect, ClientCode, Hello, Proof, KeyAgree, Retry, Step, Success, Closed, Type, Begin, Abandon, Die,
                     serverVars
<1>8. CaStop \/ UNCHANGED vars => UNCHANGED serverVars
  BY DEF CaStop, vars
<1>9. UNCHANGED serverVars => Covered'
  BY DEF serverVars, Covered, Ahead
<1> QED BY <1>2, <1>3, <1>4, <1>5, <1>6, <1>7, <1>8, <1>9 DEF Next, ServerNext

\* A scan that ends has read every user select() had reported, for any table.
THEOREM RoundsAreComplete == Spec => RoundComplete
<1>1. IInv /\ Covered /\ [Next]_vars => [pc = "scan" /\ pc' = "select" => readfds \subseteq served]_vars
  <2> SUFFICES ASSUME IInv, Covered, [Next]_vars, pc = "scan", pc' = "select" PROVE readfds \subseteq served
    OBVIOUS
  <2>1. EndScan
    <3>1. CASE ServerNext
      BY <3>1 DEF ServerNext, Select, Accept, Challenge, Share, NameLost, NameTaken, ServerFull, Register,
                  Naming, Drop, Goto, EndScan, Skip, ServeQuit, Quit, QuitAt, ServeWho, ServeChat, ServeText,
                  ServeAt, ServeBareAt, Done, Overrun
    <3>2. ASSUME NEW c \in Conn, Connect(c) \/ ClientCode(c) \/ Begin(c) \/ Abandon(c) \/ Die(c) PROVE pc' = pc
      BY <3>2, Zenon DEF Connect, ClientCode, Hello, Proof, KeyAgree, Retry, Step, Success, Closed, Type, Begin, Abandon, Die,
                         serverVars
    <3>3. CaStop \/ UNCHANGED vars => pc' = pc
      BY DEF CaStop, vars, serverVars
    <3> QED BY <3>1, <3>2, <3>3 DEF Next
  <2>2. idx > Len(users) /\ idx \in Nat /\ Len(users) \in Nat
    BY <2>1, TableFacts DEF EndScan, IInv, Table, TypeOK
  <2>3. \A f : ~Ahead(f)
    BY <2>2 DEF Ahead
  <2> QED BY <2>3 DEF Covered
<1>2. Init => Covered
  BY DEF Init, Covered
<1>3. Spec => []StillReady
  BY ReadyInit, ReadyNext, Inductive, PTL DEF Spec
<1>4. Spec => []Covered
  BY <1>2, <1>3, CoveredNext, Inductive, PTL DEF Spec
<1> QED BY <1>1, <1>4, Inductive, PTL DEF Spec, RoundComplete

--------------------------------------------------------------------------------
(* The frames of a user *)

\* A frame for c is under c's key; its source has connected, so that the name it entered
\* does not change any more; and a message has the name and, with one exception, the text.
Good(c, r) ==
    /\ r.key = c
    /\ phase[r.src] # "idle"
    /\ r.kind = "msg" => /\ r.from = uname[r.src]
                         /\ r.line.kind # "bareAt" => r.body = <<r.src, r.line.k>>

GoodIn(h) == \A c \in Conn : \A i \in 1..Len(h[c]) : Good(c, h[c][i])

--------------------------------------------------------------------------------
(* What the handlers of the scan write *)

LEMMA PutGood ==
    ASSUME NEW h \in [Conn -> Seq(Outs)], GoodIn(h), NEW u, fds[u.sock] \in Conn,
           NEW r \in Outs, Good(fds[u.sock], r)
    PROVE  GoodIn(Put(h, u, r))
<1> DEFINE d == fds[u.sock]
           g == Put(h, u, r)
<1>1. SUFFICES ASSUME NEW c \in Conn, NEW i \in 1..Len(g[c]) PROVE Good(c, g[c][i])
  BY DEF GoodIn
<1>2. h[c] \in Seq(Outs) /\ Len(h[c]) \in Nat
  BY LenProperties
<1>3. CASE c = d
  <2>1. g[c] = Append(h[c], r)
    BY <1>3 DEF Put
  <2>2. /\ Len(Append(h[c], r)) = Len(h[c]) + 1
        /\ \A k \in 1..Len(h[c]) : Append(h[c], r)[k] = h[c][k]
        /\ Append(h[c], r)[Len(h[c]) + 1] = r
    BY <1>2, AppendProperties
  <2>3. i \in 1..Len(h[c]) \/ i = Len(h[c]) + 1
    BY <2>1, <2>2, <1>2
  <2> QED BY <2>1, <2>2, <2>3, <1>3 DEF GoodIn
<1>4. CASE c # d
  <2>1. g[c] = h[c]
    BY <1>4 DEF Put
  <2> QED BY <2>1 DEF GoodIn
<1> QED BY <1>3, <1>4

\* Wired: the key of an entry is the connection its socket is, and its name that of the client.
LEMMA OutGood ==
    ASSUME IInv, Turn, NEW i \in 1..Len(users),
           NEW u, u.sock = users[i].sock, u.key = users[i].key,
           NEW v, v.sock = users[idx].sock, v.name = users[idx].name,
           NEW kind, NEW body, NEW who,
           kind = "msg" => Line.kind = "bareAt" \/ body = Id
    PROVE  Good(fds[u.sock], Out(u, kind, v, Line, body, who))
<1>1. /\ idx \in 1..Len(users) /\ users[idx].sock \in DOMAIN fds /\ DOMAIN users = 1..Len(users)
  BY TurnFacts, TableFacts
<1>2. u.key = fds[u.sock] /\ v.name = uname[fds[v.sock]]
  BY <1>1 DEF IInv, Table, Wired
<1>3. phase[fds[v.sock]] # "idle"
  BY <1>1 DEF IInv, Table, Queued
<1>4. fds[v.sock] = Peer
  BY DEF Peer
<1> QED BY <1>2, <1>3, <1>4 DEF Good, Out, Id

LEMMA AnswerGood ==
    ASSUME IInv, Turn, Line \in Frames, NEW h \in [Conn -> Seq(Outs)], GoodIn(h),
           NEW kind \in ReplyKinds \ {"msg"}, NEW who \in Seq(AnyName)
    PROVE  GoodIn(Answer(h, kind, who))
<1> DEFINE r == Out(users[idx], kind, users[idx], Line, Garbage, who)
<1>1. /\ idx \in 1..Len(users) /\ users[idx] \in Users /\ users[idx].sock \in DOMAIN fds
      /\ fds[users[idx].sock] \in Conn
  BY TurnFacts, TableFacts
<1>2. r \in Outs
  BY <1>1, OutType
<1>3. Good(fds[users[idx].sock], r)
  BY <1>1, OutGood
<1> HIDE DEF r
<1>4. GoodIn(Put(h, users[idx], r))
  BY <1>1, <1>2, <1>3, PutGood
<1> QED BY <1>4 DEF Answer, r

LEMMA MessageGood ==
    ASSUME IInv, Turn, Line \in Frames, NEW us \in Seq(Users), Same(us, users),
           NEW h \in [Conn -> Seq(Outs)], GoodIn(h),
           NEW body \in (Conn \X Nat) \cup {Garbage}, Line.kind = "bareAt" \/ body = Id,
           Message(us, h, body)
    PROVE  GoodIn(heard')
<1> DEFINE u == us[idx]
           j == FindUser(us, u.chat_with)
           r == Out(us[j], "msg", u, Line, body, <<>>)
<1>0. /\ idx \in 1..Len(us) /\ Len(us) = Len(users) /\ Len(us) \in Nat
      /\ u \in Users /\ u.sock = users[idx].sock /\ u.name = users[idx].name
      /\ u.sock \in DOMAIN fds
  BY TurnFacts, TableFacts, ElementOfSeq DEF Same
<1>1. Distinct(us)
  BY TableFacts DEF Distinct, Same
<1>2. j \in 0..Len(us)
  BY <1>1, FindUserProperties
<1>3. <<>> \in Seq(AnyName)
  BY EmptySeq
<1>4. CASE heard' = Answer(h, "nochat", <<>>) \/ heard' = Answer(h, "nolonger", <<>>)
  BY <1>3, <1>4, AnswerGood DEF ReplyKinds
<1>5. CASE j # 0 /\ heard' = Put(h, us[j], r)
  <2>1. /\ j \in 1..Len(users) /\ us[j] \in Users /\ us[j].sock = users[j].sock
        /\ us[j].key = users[j].key
        /\ us[j].sock \in DOMAIN fds /\ fds[us[j].sock] \in Conn
    BY <1>0, <1>2, <1>5, ElementOfSeq, TableFacts DEF Same
  <2>2. r \in Outs
    BY <1>0, <1>3, <2>1, OutType DEF ReplyKinds
  <2>3. Good(fds[us[j].sock], r)
    BY <1>0, <2>1, OutGood
  <2> HIDE DEF r
  <2> QED BY <1>5, <2>1, <2>2, <2>3, PutGood
<1> QED BY <1>4, <1>5 DEF Message

LEMMA HandlerGood ==
    ASSUME IInv, GoodIn(heard), ServeWho \/ ServeChat \/ ServeText \/ ServeAt \/ ServeBareAt
    PROVE  GoodIn(heard')
<1>1. Turn /\ Read
  BY DEF ServeWho, ServeChat, ServeText, ServeAt, ServeBareAt, Command
<1>2. /\ Line \in Frames /\ Id \in Conn \X Nat /\ Line.to \in AnyName
      /\ heard \in [Conn -> Seq(Outs)] /\ stale \subseteq Conn \X Nat
      /\ users \in Seq(Users) /\ Same(users, users) /\ <<>> \in Seq(AnyName)
  BY <1>1, LineType, EmptySeq DEF IInv, Table, TypeOK, Frames, Same
<1>3. WithChat(Line.to) \in Seq(Users) /\ Same(WithChat(Line.to), users)
  BY <1>1, <1>2, WithChatType
<1>4. /\ NotFound(Line.to, heard) \in [Conn -> Seq(Outs)]
      /\ GoodIn(NotFound(Line.to, heard))
  <2>1. GoodIn(Answer(heard, "nouser", <<>>))
    BY <1>1, <1>2, AnswerGood DEF ReplyKinds
  <2> QED BY <1>1, <1>2, <2>1, NotFoundType DEF NotFound
<1>5. CASE ServeWho
  <2>1. [i \in DOMAIN users |-> users[i].name] \in Seq(AnyName)
    <3>1. \A i \in 1..Len(users) : users[i].name \in AnyName
      BY TableFacts DEF Users, AnyName
    <3> QED BY <3>1, TableFacts
  <2> QED BY <1>1, <1>2, <1>5, <2>1, AnswerGood DEF ServeWho, ReplyKinds
<1>6. CASE ServeChat
  <2>1. GoodIn(Answer(heard, "nowchatting", <<>>)) /\ GoodIn(Answer(heard, "nouser", <<>>))
    BY <1>1, <1>2, AnswerGood DEF ReplyKinds
  <2> QED BY <1>6, <2>1 DEF ServeChat, NotFound
<1>7. CASE ServeText
  BY <1>1, <1>2, <1>7, MessageGood DEF ServeText
<1>8. CASE ServeAt
  BY <1>1, <1>2, <1>3, <1>4, <1>8, MessageGood DEF ServeAt
<1>9. CASE ServeBareAt
  <2>1. PICK body \in stale \cup {Garbage} : Message(WithChat(Line.to), NotFound(Line.to, heard), body)
    BY <1>9 DEF ServeBareAt
  <2>2. Line.kind = "bareAt" /\ body \in (Conn \X Nat) \cup {Garbage}
    BY <1>2, <1>9 DEF ServeBareAt, Command
  <2> QED BY <1>1, <1>2, <1>3, <1>4, <2>1, <2>2, MessageGood
<1> QED BY <1>5, <1>6, <1>7, <1>8, <1>9

--------------------------------------------------------------------------------
(* Every other step writes no frame, and changes the name of an idle client at most *)

LEMMA FramesKept ==
    ASSUME IInv, GoodIn(heard), UNCHANGED heard,
           \A c \in Conn : phase[c] # "idle" => phase'[c] # "idle" /\ uname'[c] = uname[c]
    PROVE  GoodIn(heard)'
<1>1. SUFFICES ASSUME NEW c \in Conn, NEW i \in 1..Len(heard[c]) PROVE Good(c, heard[c][i])'
  BY DEF GoodIn
<1>2. heard[c] \in Seq(Outs)
  BY DEF IInv, Table, TypeOK
<1>3. heard[c][i] \in Outs
  BY <1>2, ElementOfSeq
<1>4. heard[c][i].src \in Conn /\ Good(c, heard[c][i])
  BY <1>3 DEF Outs, GoodIn
<1> QED BY <1>4 DEF Good

LEMMA GoodNext == IInv /\ GoodIn(heard) /\ [Next]_vars => GoodIn(heard)'
<1> SUFFICES ASSUME IInv, GoodIn(heard), [Next]_vars PROVE GoodIn(heard)'
  OBVIOUS
<1> USE DEF serverVars, clientVars, netVars
<1>1. CASE ServeWho \/ ServeChat \/ ServeText \/ ServeAt \/ ServeBareAt
  <2>1. GoodIn(heard')
    BY <1>1, HandlerGood
  <2>2. UNCHANGED <<phase, uname>>
    BY <1>1 DEF ServeWho, ServeChat, ServeText, ServeAt, ServeBareAt, Done
  <2> QED BY <2>1, <2>2 DEF GoodIn, Good
<1>2. CASE Select \/ Accept \/ Challenge \/ Share \/ NameLost \/ NameTaken \/ ServerFull
           \/ Register \/ EndScan \/ Skip \/ ServeQuit
  <2>1. UNCHANGED <<phase, uname, heard>>
    BY <1>2, Zenon DEF Select, Accept, Challenge, Share, NameLost, NameTaken, ServerFull, Register,
                       EndScan, Skip, ServeQuit, Quit, QuitAt, Drop
  <2> QED BY <2>1, FramesKept
<1>3. ASSUME NEW c \in Conn, Connect(c) \/ ClientCode(c) \/ Begin(c) \/ Abandon(c) \/ Die(c) PROVE GoodIn(heard)'
  <2>1. phase \in [Conn -> Phases] /\ uname \in [Conn -> AnyName]
    BY DEF IInv, Table, TypeOK
  <2>2. CASE Connect(c)
    <3>1. /\ phase[c] = "idle" /\ UNCHANGED heard
          /\ \A d \in Conn : d # c => phase'[d] = phase[d] /\ uname'[d] = uname[d]
      BY <2>1, <2>2 DEF Connect
    <3> QED BY <3>1, FramesKept
  <2>3. CASE ClientCode(c) \/ Begin(c) \/ Abandon(c) \/ Die(c)
    <3>1. UNCHANGED <<uname, heard>>
      BY <2>3, Zenon DEF ClientCode, Hello, Proof, KeyAgree, Retry, Step, Success, Closed, Type, Begin, Abandon, Die
    <3>2. \A d \in Conn : phase[d] # "idle" => phase'[d] # "idle"
      BY <2>1, <2>3 DEF ClientCode, Hello, Proof, KeyAgree, Retry, Step, Success, Closed, Type, Begin, Abandon, Die
    <3> QED BY <3>1, <3>2, FramesKept
  <2> QED BY <1>3, <2>2, <2>3
<1>4. CASE CaStop \/ UNCHANGED vars
  <2>1. UNCHANGED <<phase, uname, heard>>
    BY <1>4 DEF CaStop, vars
  <2> QED BY <2>1, FramesKept
<1> QED BY <1>1, <1>2, <1>3, <1>4 DEF Next, ServerNext

LEMMA GoodInit == Init => GoodIn(heard)
BY EmptySeq DEF Init, GoodIn

LEMMA FramesGood == Spec => []GoodIn(heard)
BY GoodInit, GoodNext, Inductive, PTL DEF Spec

LEMMA HeardDomain ==
    ASSUME IInv, NEW c \in Conn
    PROVE  DOMAIN heard[c] = 1..Len(heard[c])
<1>1. heard[c] \in Seq(Outs)
  BY DEF IInv, Table, TypeOK
<1> QED BY <1>1, LenProperties

\* Whatever the number of users and however often the table was compacted and descriptors
\* were reused, a frame is encrypted with the key of the connection it is written to.
THEOREM FramesAreForTheirReceiver == Spec => []KeyMatches
<1>1. IInv /\ GoodIn(heard) => KeyMatches
  BY HeardDomain DEF KeyMatches, GoodIn, Good
<1> QED BY <1>1, FramesGood, Inductive, PTL

\* A message is shown under the name its sender registered, and its text is the line that
\* client typed, unless the line was a bare "@name".
THEOREM MessagesAreAuthentic == Spec => []Authentic
<1>1. IInv /\ GoodIn(heard) => Authentic
  BY HeardDomain DEF Authentic, Msgs, GoodIn, Good
<1> QED BY <1>1, FramesGood, Inductive, PTL

--------------------------------------------------------------------------------
(* What a handler adds to the frames: answers, and at most one message *)

Old(h, c, i)    == i \in 1..Len(heard[c]) /\ h[c][i] = heard[c][i]
New(h, d, c, i) == /\ c = d /\ i = Len(h[d]) /\ i > Len(heard[d])
                   /\ h[c][i].src = Peer /\ h[c][i].line = Line
IsMsg(h, c, i)  == h[c][i].kind = "msg"

\* h has no message that heard does not have; or one, the line just read, as the last frame of d.
Quiet(h) == \A c \in Conn : /\ Len(heard[c]) <= Len(h[c])
                            /\ \A i \in 1..Len(h[c]) : IsMsg(h, c, i) => Old(h, c, i)
OneNew(h, d) == \A c \in Conn : \A i \in 1..Len(h[c]) : IsMsg(h, c, i) => Old(h, c, i) \/ New(h, d, c, i)

\* g is h with r after the frames of d.
Extended(g, h, d, r) == /\ Len(h[d]) \in Nat /\ Len(g[d]) = Len(h[d]) + 1
                        /\ g[d][Len(h[d]) + 1] = r
                        /\ \A i \in 1..Len(h[d]) : g[d][i] = h[d][i]
                        /\ \A c \in Conn : c # d => g[c] = h[c]

LEMMA PutElements ==
    ASSUME NEW h \in [Conn -> Seq(Outs)], NEW u, NEW d \in Conn, d = fds[u.sock], NEW r \in Outs
    PROVE  Extended(Put(h, u, r), h, d, r)
<1>1. h[d] \in Seq(Outs) /\ Len(h[d]) \in Nat
  BY LenProperties
<1>2. Put(h, u, r)[d] = Append(h[d], r) /\ \A c \in Conn : c # d => Put(h, u, r)[c] = h[c]
  BY DEF Put
<1> QED BY <1>1, <1>2, AppendProperties DEF Extended

LEMMA AnswerQuiet ==
    ASSUME IInv, Turn, Line \in Frames, NEW h \in [Conn -> Seq(Outs)], Quiet(h),
           NEW kind \in ReplyKinds \ {"msg"}, NEW who \in Seq(AnyName)
    PROVE  Quiet(Answer(h, kind, who))
<1> DEFINE r == Out(users[idx], kind, users[idx], Line, Garbage, who)
           g == Put(h, users[idx], r)
<1>1. users[idx] \in Users /\ users[idx].sock \in DOMAIN fds
  BY TurnFacts
<1>2. PICK d \in Conn : d = fds[users[idx].sock]
  BY <1>1, TableFacts
<1>3. r \in Outs /\ r.kind # "msg"
  <2>1. r \in Outs
    BY <1>1, OutType
  <2> QED BY <2>1 DEF Out
<1> HIDE DEF r
<1>4. /\ Len(h[d]) \in Nat /\ Len(g[d]) = Len(h[d]) + 1 /\ g[d][Len(h[d]) + 1] = r
      /\ \A i \in 1..Len(h[d]) : g[d][i] = h[d][i]
      /\ \A c \in Conn : c # d => g[c] = h[c]
  <2>1. Extended(g, h, d, r)
    BY <1>2, <1>3, PutElements
  <2> QED BY <2>1 DEF Extended
<1> HIDE DEF g
<1>5. ASSUME NEW c \in Conn
      PROVE  /\ Len(heard[c]) <= Len(g[c])
             /\ \A i \in 1..Len(g[c]) : IsMsg(g, c, i) => Old(g, c, i)
  <2>1. CASE c # d
    BY <2>1, <1>4 DEF Quiet, IsMsg, Old
  <2>2. CASE c = d
    <3>1. Len(heard[c]) \in Nat /\ Len(heard[c]) <= Len(h[c])
      BY LenProperties DEF Quiet, IInv, Table, TypeOK
    <3>2. ASSUME NEW i \in 1..Len(g[c]), IsMsg(g, c, i) PROVE Old(g, c, i)
      <4>1. i # Len(h[d]) + 1
        BY <2>2, <3>2, <1>3, <1>4 DEF IsMsg
      <4>2. i \in 1..Len(h[d]) /\ g[d][i] = h[d][i]
        BY <2>2, <3>2, <4>1, <1>4
      <4> QED BY <2>2, <3>2, <4>2 DEF Quiet, IsMsg, Old
    <3> QED BY <2>2, <3>1, <3>2, <1>4
  <2> QED BY <2>1, <2>2
<1>6. Quiet(g)
  BY <1>5 DEF Quiet
<1> QED BY <1>6 DEF Answer, g, r

LEMMA MessageAddsOne ==
    ASSUME IInv, Turn, Line \in Frames, NEW us \in Seq(Users), Same(us, users),
           NEW h \in [Conn -> Seq(Outs)], Quiet(h), NEW body \in (Conn \X Nat) \cup {Garbage},
           Message(us, h, body)
    PROVE  \E d \in Conn : OneNew(heard', d)
<1> DEFINE u == us[idx]
           j == FindUser(us, u.chat_with)
           r == Out(us[j], "msg", u, Line, body, <<>>)
<1>0. /\ idx \in 1..Len(us) /\ Len(us) = Len(users) /\ Len(us) \in Nat
      /\ u \in Users /\ u.sock = users[idx].sock /\ u.sock \in DOMAIN fds /\ Peer \in Conn
  BY TurnFacts, TableFacts, ElementOfSeq DEF Same
<1>1. j \in 0..Len(us)
  <2>1. Distinct(us)
    BY TableFacts DEF Distinct, Same
  <2> QED BY <2>1, FindUserProperties
<1>2. <<>> \in Seq(AnyName)
  BY EmptySeq
<1>3. CASE heard' = Answer(h, "nochat", <<>>) \/ heard' = Answer(h, "nolonger", <<>>)
  <2>1. Quiet(heard')
    BY <1>2, <1>3, AnswerQuiet DEF ReplyKinds
  <2>2. OneNew(heard', Peer)
    BY <2>1 DEF Quiet, OneNew
  <2> QED BY <2>2, <1>0
<1>4. CASE j # 0 /\ heard' = Put(h, us[j], r)
  <2>1. us[j] \in Users /\ us[j].sock \in DOMAIN fds
    BY <1>0, <1>1, <1>4, ElementOfSeq, TableFacts DEF Same
  <2>2. PICK d \in Conn : d = fds[us[j].sock]
    BY <2>1, TableFacts
  <2>3. r \in Outs /\ r.src = Peer /\ r.line = Line
    <3>1. r \in Outs
      BY <1>0, <1>2, <2>1, OutType DEF ReplyKinds
    <3> QED BY <3>1, <1>0 DEF Out, Peer
  <2> HIDE DEF r
  <2>4. /\ Len(h[d]) \in Nat /\ Len(heard'[d]) = Len(h[d]) + 1 /\ heard'[d][Len(h[d]) + 1] = r
        /\ \A i \in 1..Len(h[d]) : heard'[d][i] = h[d][i]
        /\ \A c \in Conn : c # d => heard'[c] = h[c]
    <3>1. Extended(Put(h, us[j], r), h, d, r)
      BY <2>2, <2>3, PutElements
    <3> QED BY <3>1, <1>4 DEF Extended
  <2>5. Len(heard[d]) \in Nat /\ Len(heard[d]) <= Len(h[d])
    BY LenProperties DEF Quiet, IInv, Table, TypeOK
  <2>6. ASSUME NEW c \in Conn, NEW i \in 1..Len(heard'[c]), IsMsg(heard', c, i)
        PROVE  Old(heard', c, i) \/ New(heard', d, c, i)
    <3>1. CASE c # d
      BY <2>4, <2>6, <3>1 DEF Quiet, IsMsg, Old
    <3>2. CASE c = d /\ i \in 1..Len(h[d])
      BY <2>4, <2>6, <3>2 DEF Quiet, IsMsg, Old
    <3>3. CASE c = d /\ i = Len(h[d]) + 1
      BY <2>3, <2>4, <2>5, <3>3 DEF New
    <3> QED BY <2>4, <2>6, <3>1, <3>2, <3>3
  <2> QED BY <2>6 DEF OneNew
<1> QED BY <1>3, <1>4 DEF Message

LEMMA HandlerAddsOne ==
    ASSUME IInv, ServeWho \/ ServeChat \/ ServeText \/ ServeAt \/ ServeBareAt
    PROVE  \E d \in Conn : OneNew(heard', d)
<1>1. Turn /\ Read /\ Peer \in Conn
  BY TurnFacts DEF ServeWho, ServeChat, ServeText, ServeAt, ServeBareAt, Command
<1>2. /\ Line \in Frames /\ Id \in Conn \X Nat /\ Line.to \in AnyName
      /\ heard \in [Conn -> Seq(Outs)] /\ stale \subseteq Conn \X Nat
      /\ users \in Seq(Users) /\ Same(users, users) /\ <<>> \in Seq(AnyName)
  BY <1>1, LineType, EmptySeq DEF IInv, Table, TypeOK, Frames, Same
<1>3. WithChat(Line.to) \in Seq(Users) /\ Same(WithChat(Line.to), users)
  BY <1>1, <1>2, WithChatType
<1>4. Quiet(heard)
  <2>1. \A c \in Conn : Len(heard[c]) \in Nat
    BY <1>2, LenProperties
  <2> QED BY <2>1 DEF Quiet, Old
<1>5. \A g \in [Conn -> Seq(Outs)] : Quiet(g) => Quiet(NotFound(Line.to, g))
  <2>1. Quiet(Answer(heard, "nouser", <<>>))
    BY <1>1, <1>2, <1>4, AnswerQuiet DEF ReplyKinds
  <2> QED BY <2>1 DEF NotFound
<1>6. NotFound(Line.to, heard) \in [Conn -> Seq(Outs)] /\ Quiet(NotFound(Line.to, heard))
  BY <1>1, <1>2, <1>4, <1>5, NotFoundType
<1>7. Quiet(heard') => OneNew(heard', Peer)
  BY DEF Quiet, OneNew
<1>8. CASE ServeWho
  <2>1. [i \in DOMAIN users |-> users[i].name] \in Seq(AnyName)
    <3>1. \A i \in 1..Len(users) : users[i].name \in AnyName
      BY TableFacts DEF Users, AnyName
    <3> QED BY <3>1, TableFacts
  <2>2. Quiet(heard')
    BY <1>1, <1>2, <1>4, <1>8, <2>1, AnswerQuiet DEF ServeWho, ReplyKinds
  <2> QED BY <2>2, <1>1, <1>7
<1>9. CASE ServeChat
  <2>1. /\ Answer(heard, "nowchatting", <<>>) \in [Conn -> Seq(Outs)]
        /\ Quiet(Answer(heard, "nowchatting", <<>>))
    BY <1>1, <1>2, <1>4, AnswerType, AnswerQuiet DEF ReplyKinds
  <2>2. Quiet(heard')
    BY <1>5, <1>9, <2>1 DEF ServeChat
  <2> QED BY <2>2, <1>1, <1>7
<1>10. CASE ServeText
  BY <1>1, <1>2, <1>4, <1>10, MessageAddsOne DEF ServeText
<1>11. CASE ServeAt
  BY <1>1, <1>2, <1>3, <1>6, <1>11, MessageAddsOne DEF ServeAt
<1>12. CASE ServeBareAt
  <2>1. PICK body \in stale \cup {Garbage} : Message(WithChat(Line.to), NotFound(Line.to, heard), body)
    BY <1>12 DEF ServeBareAt
  <2>2. body \in (Conn \X Nat) \cup {Garbage}
    BY <1>2, <2>1
  <2> QED BY <1>1, <1>2, <1>3, <1>6, <2>1, <2>2, MessageAddsOne
<1> QED BY <1>8, <1>9, <1>10, <1>11, <1>12

--------------------------------------------------------------------------------
(* The lines of a client are numbered, and a message is older than what is still unread *)

Numbered(q, last) ==
    /\ \A i \in 1..Len(q) : q[i].k <= last /\ (q[i].kind \in LineKinds => q[i].k # 0)
    /\ \A i, j \in 1..Len(q) : i < j /\ q[j].k # 0 => q[i].k < q[j].k
Before(k, q, last) == k <= last /\ \A j \in 1..Len(q) : q[j].k # 0 => k < q[j].k

\* A queue q with the last number n becomes r with m.
Advance(q, n, r, m) ==
    \/ r = q /\ m = n
    \/ q # <<>> /\ r = Tail(q) /\ m = n
    \/ \E f \in Frames : /\ r = Append(q, f)
                        /\ \/ f.k = 0 /\ f.kind \notin LineKinds /\ m = n
                           \/ f.k = n + 1 /\ m = n + 1

LEMMA AdvanceNumbered ==
    ASSUME NEW q \in Seq(Frames), NEW r \in Seq(Frames), NEW n \in Nat, NEW m \in Nat,
           Advance(q, n, r, m), Numbered(q, n)
    PROVE  /\ Numbered(r, m)
           /\ \A k \in Nat : Before(k, q, n) => Before(k, r, m)
<1>1. /\ Len(q) \in Nat /\ Len(r) \in Nat
      /\ \A i \in 1..Len(q) : q[i].k \in Nat
      /\ \A i \in 1..Len(r) : r[i].k \in Nat
  <2>1. \A f \in Frames : f.k \in Nat
    BY DEF Frames
  <2> QED BY <2>1, LenProperties, ElementOfSeq
<1>2. CASE r = q /\ m = n
  BY <1>2
<1>3. CASE q # <<>> /\ r = Tail(q) /\ m = n
  <2>1. /\ Len(r) = Len(q) - 1
        /\ \A j \in 1..Len(r) : j + 1 \in 1..Len(q) /\ r[j] = q[j + 1]
    BY <1>1, <1>3, HeadTailProperties
  <2>2. Numbered(r, m)
    <3>1. \A i \in 1..Len(r) : r[i].k <= m /\ (r[i].kind \in LineKinds => r[i].k # 0)
      BY <2>1, <1>3 DEF Numbered
    <3>2. ASSUME NEW i \in 1..Len(r), NEW j \in 1..Len(r), i < j, r[j].k # 0 PROVE r[i].k < r[j].k
      <4>1. i + 1 < j + 1 /\ i + 1 \in 1..Len(q) /\ j + 1 \in 1..Len(q) /\ r[i] = q[i + 1] /\ r[j] = q[j + 1]
        BY <2>1, <3>2
      <4> QED BY <3>2, <4>1 DEF Numbered
    <3> QED BY <3>1, <3>2 DEF Numbered
  <2>3. \A k \in Nat : Before(k, q, n) => Before(k, r, m)
    BY <2>1, <1>3 DEF Before
  <2> QED BY <2>2, <2>3
<1>4. ASSUME NEW f \in Frames, r = Append(q, f),
             \/ f.k = 0 /\ f.kind \notin LineKinds /\ m = n
             \/ f.k = n + 1 /\ m = n + 1
      PROVE  Numbered(r, m) /\ \A k \in Nat : Before(k, q, n) => Before(k, r, m)
  <2>1. /\ Len(r) = Len(q) + 1 /\ r[Len(q) + 1] = f
        /\ \A i \in 1..Len(q) : r[i] = q[i]
    BY <1>4, AppendProperties
  <2>2. \A i \in 1..Len(r) : i \in 1..Len(q) \/ i = Len(q) + 1
    BY <2>1, <1>1
  <2>3. f.k <= m /\ (f.kind \in LineKinds => f.k # 0) /\ n <= m
    BY <1>4
  <2>4. ASSUME NEW i \in 1..Len(r) PROVE r[i].k <= m /\ (r[i].kind \in LineKinds => r[i].k # 0)
    <3>1. CASE i \in 1..Len(q)
      <4>1. r[i] = q[i] /\ q[i].k <= n /\ q[i].k \in Nat /\ (q[i].kind \in LineKinds => q[i].k # 0)
        BY <2>1, <3>1, <1>1 DEF Numbered
      <4> QED BY <4>1, <2>3
    <3>2. CASE i = Len(q) + 1
      BY <2>1, <2>3, <3>2
    <3> QED BY <2>2, <3>1, <3>2
  <2>5. ASSUME NEW i \in 1..Len(r), NEW j \in 1..Len(r), i < j, r[j].k # 0 PROVE r[i].k < r[j].k
    <3>1. i \in 1..Len(q) /\ r[i] = q[i] /\ q[i].k <= n /\ q[i].k \in Nat
      BY <2>1, <2>2, <2>5, <1>1 DEF Numbered
    <3>2. CASE j \in 1..Len(q)
      BY <2>1, <2>5, <3>1, <3>2 DEF Numbered
    <3>3. CASE j = Len(q) + 1
      <4>1. r[j].k = n + 1
        BY <2>1, <2>5, <3>3, <1>4
      <4> QED BY <3>1, <4>1
    <3> QED BY <2>2, <3>2, <3>3
  <2>6. ASSUME NEW k \in Nat, Before(k, q, n) PROVE Before(k, r, m)
    <3>1. k <= n /\ k <= m
      BY <2>3, <2>6 DEF Before
    <3>2. ASSUME NEW j \in 1..Len(r), r[j].k # 0 PROVE k < r[j].k
      <4>1. CASE j \in 1..Len(q)
        BY <2>1, <2>6, <3>2, <4>1 DEF Before
      <4>2. CASE j = Len(q) + 1
        <5>1. r[j].k = n + 1
          BY <2>1, <3>2, <4>2, <1>4
        <5> QED BY <3>1, <5>1
      <4> QED BY <2>2, <4>1, <4>2
    <3> QED BY <3>1, <3>2 DEF Before
  <2> QED BY <2>4, <2>5, <2>6 DEF Numbered
<1> QED BY <1>2, <1>3, <1>4 DEF Advance

\* Every step advances the queue of every client.
LEMMA QueuesAdvance ==
    ASSUME IInv, [Next]_vars, NEW c \in Conn
    PROVE  Advance(inq[c], sent[c], inq'[c], sent'[c])
<1> USE DEF serverVars, clientVars, netVars
<1>1. inq \in [Conn -> Seq(Frames)] /\ sent \in [Conn -> Nat] /\ uname \in [Conn -> AnyName]
  BY DEF IInv, Table, TypeOK
<1>2. ASSUME sent' = sent, inq' = inq \/ \E d \in Conn : Consume(d)
      PROVE  Advance(inq[c], sent[c], inq'[c], sent'[c])
  BY <1>1, <1>2 DEF Consume, Advance
<1>3. CASE Challenge \/ Share \/ NameLost \/ NameTaken \/ ServerFull \/ Register
  <2>1. pc \in Handshake
    BY <1>3 DEF Challenge, Share, NameLost, NameTaken, ServerFull, Register, Naming, Handshake
  <2>2. fds[cur] \in Conn
    BY <2>1, HandshakeFacts
  <2>3. sent' = sent
    BY <1>3, Zenon DEF Challenge, Share, NameLost, NameTaken, ServerFull, Register, Drop
  <2>4. inq' = inq \/ Consume(fds[cur])
    BY <1>3, Zenon DEF Challenge, Share, NameLost, NameTaken, ServerFull, Register, Naming
  <2> QED BY <2>2, <2>3, <2>4, <1>2
<1>4. CASE ServeQuit \/ ServeWho \/ ServeChat \/ ServeText \/ ServeAt \/ ServeBareAt
  <2>1. Turn
    BY <1>4 DEF ServeQuit, ServeWho, ServeChat, ServeText, ServeAt, ServeBareAt, Command
  <2>2. Peer \in Conn
    BY <2>1, TurnFacts
  <2>3. sent' = sent
    BY <1>4, Zenon DEF ServeQuit, Quit, QuitAt, ServeWho, ServeChat, ServeText, ServeAt, ServeBareAt, Done
  <2>4. inq' = inq \/ Consume(Peer)
    BY <1>4, Zenon DEF ServeQuit, ServeWho, ServeChat, ServeText, ServeAt, ServeBareAt, Command, Read
  <2> QED BY <2>2, <2>3, <2>4, <1>2
<1>5. CASE Select \/ Accept \/ EndScan \/ Skip \/ CaStop \/ UNCHANGED vars
  <2>1. UNCHANGED <<inq, sent>>
    BY <1>5, Zenon DEF Select, Accept, EndScan, Skip, CaStop, vars
  <2> QED BY <2>1, <1>2
<1>6. ASSUME NEW d \in Conn, Connect(d) \/ Success(d) \/ Closed(d) \/ Begin(d) \/ Abandon(d) \/ Die(d)
      PROVE  Advance(inq[c], sent[c], inq'[c], sent'[c])
  <2>1. UNCHANGED <<inq, sent>>
    BY <1>6, Zenon DEF Connect, Success, Closed, Begin, Abandon, Die
  <2> QED BY <2>1, <1>2
<1>7. ASSUME NEW d \in Conn, Hello(d) \/ Proof(d) \/ KeyAgree(d) \/ Retry(d)
      PROVE  Advance(inq[c], sent[c], inq'[c], sent'[c])
  <2>1. PICK f \in Frames : f.k = 0 /\ f.kind \notin LineKinds /\ Write(d, f) /\ sent' = sent
    <3>1. /\ Frame("challenge", NoName, 0) \in Frames /\ Frame("share", NoName, 0) \in Frames
          /\ Frame("name", uname[d], 0) \in Frames
      BY <1>1 DEF Frame, Frames, AnyName
    <3> DEFINE P(f) == f.k = 0 /\ f.kind \notin LineKinds
    <3>2. /\ P(Frame("challenge", NoName, 0)) /\ P(Frame("share", NoName, 0))
          /\ P(Frame("name", uname[d], 0))
      BY DEF Frame, LineKinds
    <3>3. /\ sent' = sent
          /\ \/ Write(d, Frame("challenge", NoName, 0)) \/ Write(d, Frame("share", NoName, 0))
             \/ Write(d, Frame("name", uname[d], 0))
      BY <1>7, Zenon DEF Hello, Proof, KeyAgree, Retry, Step
    <3> QED BY <3>1, <3>2, <3>3
  <2>2. inq'[c] = IF c = d THEN Append(inq[c], f) ELSE inq[c]
    BY <1>1, <2>1 DEF Write
  <2> QED BY <2>1, <2>2 DEF Advance
<1>8. ASSUME NEW d \in Conn, Type(d)
      PROVE  Advance(inq[c], sent[c], inq'[c], sent'[c])
  <2>1. PICK t \in Typed[d] : Write(d, Frame(t[1], t[2], sent[d] + 1)) /\ sent' = [sent EXCEPT ![d] = @ + 1]
    BY <1>8 DEF Type
  <2>0. Frame(t[1], t[2], sent[d] + 1) \in Frames
    BY <1>1, UserAssumption DEF Lines, Frame, Frames
  <2>2. PICK f \in Frames : f = Frame(t[1], t[2], sent[d] + 1)
    BY <2>0
  <2>3. f.k = sent[d] + 1
    BY <2>2 DEF Frame
  <2>4. inq'[c] = (IF c = d THEN Append(inq[c], f) ELSE inq[c])
    BY <1>1, <2>1, <2>2 DEF Write
  <2>5. sent'[c] = (IF c = d THEN sent[c] + 1 ELSE sent[c])
    BY <1>1, <2>1
  <2>6. CASE c = d
    BY <2>3, <2>4, <2>5, <2>6 DEF Advance
  <2>7. CASE c # d
    BY <2>4, <2>5, <2>7 DEF Advance
  <2> QED BY <2>6, <2>7
<1> QED BY <1>3, <1>4, <1>5, <1>6, <1>7, <1>8 DEF Next, ServerNext, ClientCode

--------------------------------------------------------------------------------
(* In order and once *)

Source(h, c, i) == h[c][i].src
Number(h, c, i) == h[c][i].line.k

\* Every queue is numbered, every message is older than what its sender has not been read of,
\* and two messages of one sender differ, the later one by a higher number.
QueuesNumbered == \A c \in Conn : Numbered(inq[c], sent[c])
Older(h) == \A c \in Conn : \A i \in 1..Len(h[c]) :
    IsMsg(h, c, i) => Before(Number(h, c, i), inq[Source(h, c, i)], sent[Source(h, c, i)])
Apart(h, c, i, d, j) ==
    /\ Number(h, c, i) = Number(h, d, j) => c = d /\ i = j
    /\ c = d /\ i < j => Number(h, c, i) < Number(h, d, j)
Ordered(h) == \A c, d \in Conn : \A i \in 1..Len(h[c]), j \in 1..Len(h[d]) :
    IsMsg(h, c, i) /\ IsMsg(h, d, j) /\ Source(h, c, i) = Source(h, d, j) => Apart(h, c, i, d, j)

LEMMA HeardType ==
    ASSUME IInv, NEW c \in Conn, NEW i \in 1..Len(heard[c])
    PROVE  Source(heard, c, i) \in Conn /\ Number(heard, c, i) \in Nat /\ Len(heard[c]) \in Nat
<1>1. heard[c] \in Seq(Outs)
  BY DEF IInv, Table, TypeOK
<1>2. heard[c][i] \in Outs /\ Len(heard[c]) \in Nat
  BY <1>1, ElementOfSeq, LenProperties
<1> QED BY <1>2 DEF Source, Number, Outs, Frames

\* What was older than the unread lines of its sender stays so.
LEMMA NumberedNext ==
    ASSUME IInv, [Next]_vars, QueuesNumbered
    PROVE  /\ QueuesNumbered'
           /\ \A c \in Conn, k \in Nat : Before(k, inq[c], sent[c]) => Before(k, inq'[c], sent'[c])
<1>1. ASSUME NEW c \in Conn
      PROVE  /\ Numbered(inq'[c], sent'[c])
             /\ \A k \in Nat : Before(k, inq[c], sent[c]) => Before(k, inq'[c], sent'[c])
  <2>1. inq[c] \in Seq(Frames) /\ sent[c] \in Nat
    BY DEF IInv, Table, TypeOK
  <2>2. inq'[c] \in Seq(Frames) /\ sent'[c] \in Nat
    BY NextInv DEF IInv, Table, TypeOK
  <2>3. Advance(inq[c], sent[c], inq'[c], sent'[c]) /\ Numbered(inq[c], sent[c])
    BY QueuesAdvance DEF QueuesNumbered
  <2> QED BY <2>1, <2>2, <2>3, AdvanceNumbered
<1> QED BY <1>1 DEF QueuesNumbered, Numbered

LEMMA OrderKept ==
    ASSUME IInv, [Next]_vars, QueuesNumbered, Older(heard), Ordered(heard), heard' = heard
    PROVE  Older(heard)' /\ Ordered(heard)'
<1>1. ASSUME NEW c \in Conn, NEW i \in 1..Len(heard[c]), IsMsg(heard, c, i)
      PROVE  Before(Number(heard, c, i), inq'[Source(heard, c, i)], sent'[Source(heard, c, i)])
  <2>1. PICK s \in Conn, k \in Nat : s = Source(heard, c, i) /\ k = Number(heard, c, i)
    BY HeardType
  <2>2. Before(k, inq[s], sent[s])
    BY <1>1, <2>1 DEF Older
  <2> QED BY <2>1, <2>2, NumberedNext
<1> QED BY <1>1 DEF Older, Ordered, IsMsg, Source, Number, Apart, Before

LEMMA OrderByHandler ==
    ASSUME IInv, [Next]_vars, QueuesNumbered, Older(heard), Ordered(heard),
           ServeWho \/ ServeChat \/ ServeText \/ ServeAt \/ ServeBareAt
    PROVE  Older(heard)' /\ Ordered(heard)'
<1>1. /\ Turn /\ Peer \in Conn /\ Line.kind \in LineKinds /\ Consume(Peer) /\ sent' = sent
  BY TurnFacts DEF ServeWho, ServeChat, ServeText, ServeAt, ServeBareAt, Command, Read, Done, LineKinds,
                   clientVars
<1>2. PICK p \in Conn : p = Peer
  BY <1>1
<1>3. PICK line \in Frames : line = Line
  BY <1>1, LineType DEF ServeWho, ServeChat, ServeText, ServeAt, ServeBareAt, Command
<1>4. /\ inq[p] \in Seq(Frames) /\ inq[p] # <<>> /\ inq'[p] = Tail(inq[p]) /\ line = Head(inq[p])
  BY <1>1, <1>2, <1>3 DEF Consume, Line, IInv, Table, TypeOK
<1>5. /\ Len(inq[p]) \in Nat /\ 1 \in 1..Len(inq[p]) /\ line = inq[p][1]
      /\ Len(inq'[p]) = Len(inq[p]) - 1
      /\ \A j \in 1..Len(inq'[p]) : j + 1 \in 1..Len(inq[p]) /\ inq'[p][j] = inq[p][j + 1]
  BY <1>4, HeadTailProperties, LenProperties, EmptySeq
<1>6. line.k \in Nat /\ line.k # 0 /\ line.k <= sent[p]
  BY <1>1, <1>3, <1>5 DEF QueuesNumbered, Numbered, Frames
<1>7. Before(line.k, inq'[p], sent'[p])
  <2>1. ASSUME NEW j \in 1..Len(inq'[p]), inq'[p][j].k # 0 PROVE line.k < inq'[p][j].k
    <3>1. j + 1 \in 1..Len(inq[p]) /\ inq'[p][j] = inq[p][j + 1] /\ 1 < j + 1
      BY <1>5
    <3> QED BY <3>1, <2>1, <1>5 DEF QueuesNumbered, Numbered
  <2> QED BY <2>1, <1>1, <1>6 DEF Before
\* Every message of this client so far is older than the line.
<1>8. ASSUME NEW c \in Conn, NEW i \in 1..Len(heard[c]), IsMsg(heard, c, i), Source(heard, c, i) = p
      PROVE  Number(heard, c, i) < line.k
  BY <1>5, <1>6, <1>8 DEF Older, Before
<1>9. PICK d \in Conn : OneNew(heard', d)
  BY HandlerAddsOne
<1>10. ASSUME NEW c \in Conn, NEW i \in 1..Len(heard'[c]), IsMsg(heard', c, i)
       PROVE  \/ /\ i \in 1..Len(heard[c]) /\ IsMsg(heard, c, i)
                 /\ Source(heard', c, i) = Source(heard, c, i)
                 /\ Number(heard', c, i) = Number(heard, c, i)
              \/ /\ c = d /\ i = Len(heard'[d]) /\ i > Len(heard[d])
                 /\ Source(heard', c, i) = p /\ Number(heard', c, i) = line.k
  BY <1>2, <1>3, <1>9, <1>10 DEF OneNew, Old, New, IsMsg, Source, Number
<1>11. ASSUME NEW c \in Conn, NEW i \in 1..Len(heard'[c]), IsMsg(heard', c, i)
       PROVE  Before(Number(heard', c, i), inq'[Source(heard', c, i)], sent'[Source(heard', c, i)])
  <2>1. CASE /\ i \in 1..Len(heard[c]) /\ IsMsg(heard, c, i)
             /\ Source(heard', c, i) = Source(heard, c, i) /\ Number(heard', c, i) = Number(heard, c, i)
    <3>1. PICK s \in Conn, k \in Nat : s = Source(heard, c, i) /\ k = Number(heard, c, i)
      BY <2>1, HeardType
    <3>2. Before(k, inq[s], sent[s])
      BY <2>1, <3>1 DEF Older
    <3> QED BY <2>1, <3>1, <3>2, NumberedNext
  <2>2. CASE Source(heard', c, i) = p /\ Number(heard', c, i) = line.k
    BY <2>2, <1>7
  <2> QED BY <1>10, <1>11, <2>1, <2>2
<1>12. ASSUME NEW c \in Conn, NEW e \in Conn, NEW i \in 1..Len(heard'[c]), NEW j \in 1..Len(heard'[e]),
              IsMsg(heard', c, i), IsMsg(heard', e, j), Source(heard', c, i) = Source(heard', e, j)
       PROVE  Apart(heard', c, i, e, j)
  <2> DEFINE old(x, y) == /\ y \in 1..Len(heard[x]) /\ IsMsg(heard, x, y)
                          /\ Source(heard', x, y) = Source(heard, x, y)
                          /\ Number(heard', x, y) = Number(heard, x, y)
             new(x, y) == /\ x = d /\ y = Len(heard'[d]) /\ y > Len(heard[d])
                          /\ Source(heard', x, y) = p /\ Number(heard', x, y) = line.k
  <2>1. (old(c, i) \/ new(c, i)) /\ (old(e, j) \/ new(e, j))
    BY <1>10, <1>12
  <2>2. CASE old(c, i) /\ old(e, j)
    <3>1. Source(heard, c, i) = Source(heard, e, j)
      BY <2>2, <1>12
    <3>2. Apart(heard, c, i, e, j)
      BY <2>2, <3>1 DEF Ordered
    <3> QED BY <2>2, <3>2 DEF Apart
  <2>3. CASE old(c, i) /\ new(e, j)
    <3>1. Number(heard, c, i) < line.k /\ Number(heard, c, i) \in Nat
      BY <2>3, <1>8, <1>12, HeardType
    <3> QED BY <2>3, <3>1, <1>6 DEF Apart
  <2>4. CASE new(c, i) /\ old(e, j)
    <3>1. Number(heard, e, j) < line.k /\ Number(heard, e, j) \in Nat /\ Len(heard[e]) \in Nat
      BY <2>4, <1>8, <1>12, HeardType
    <3>2. ~(c = e /\ i < j)
      BY <2>4, <3>1
    <3> QED BY <2>4, <3>1, <3>2, <1>6 DEF Apart
  <2>5. CASE new(c, i) /\ new(e, j)
    <3>1. c = e /\ i = j /\ i \in Nat
      BY <2>5
    <3> QED BY <3>1 DEF Apart
  <2> QED BY <2>1, <2>2, <2>3, <2>4, <2>5
<1>13. Older(heard)'
  BY <1>11 DEF Older, IsMsg, Source, Number, Before
<1>14. Ordered(heard)'
  BY <1>12 DEF Ordered, IsMsg, Source, Number, Apart
<1> QED BY <1>13, <1>14

LEMMA OrderNext ==
    IInv /\ QueuesNumbered /\ Older(heard) /\ Ordered(heard) /\ [Next]_vars
      => (QueuesNumbered /\ Older(heard) /\ Ordered(heard))'
<1> SUFFICES ASSUME IInv, QueuesNumbered, Older(heard), Ordered(heard), [Next]_vars
             PROVE  (QueuesNumbered /\ Older(heard) /\ Ordered(heard))'
  OBVIOUS
<1>1. QueuesNumbered'
  BY NumberedNext
<1>2. CASE ServeWho \/ ServeChat \/ ServeText \/ ServeAt \/ ServeBareAt
  BY <1>1, <1>2, OrderByHandler
<1>3. CASE heard' = heard
  BY <1>1, <1>3, OrderKept
<1>4. CASE Select \/ Accept \/ Challenge \/ Share \/ NameLost \/ NameTaken \/ ServerFull
           \/ Register \/ EndScan \/ Skip \/ ServeQuit \/ CaStop \/ UNCHANGED vars
  BY <1>3, <1>4, Zenon DEF Select, Accept, Challenge, Share, NameLost, NameTaken, ServerFull, Register,
       EndScan, Skip, ServeQuit, Quit, QuitAt, Drop, CaStop, vars, netVars
<1>5. ASSUME NEW c \in Conn, Connect(c) \/ ClientCode(c) \/ Begin(c) \/ Abandon(c) \/ Die(c) PROVE heard' = heard
  BY <1>5, Zenon DEF Connect, ClientCode, Hello, Proof, KeyAgree, Retry, Step, Success, Closed, Type, Begin, Abandon, Die,
                     netVars
<1> QED BY <1>2, <1>3, <1>4, <1>5 DEF Next, ServerNext

\* Whatever the order in which users type, leave and are moved in the table, a line is
\* delivered to one connection at most and once at most, and never overtaken by a later line
\* of the same sender.
THEOREM MessagesAreInOrder == Spec => []AtMostOnceInOrder
<1>1. Init => QueuesNumbered /\ Older(heard) /\ Ordered(heard)
  <2>1. Len(<<>>) = 0
    BY EmptySeq
  <2> QED BY <2>1 DEF Init, QueuesNumbered, Numbered, Older, Ordered
<1>2. Spec => [](QueuesNumbered /\ Older(heard) /\ Ordered(heard))
  BY <1>1, OrderNext, Inductive, PTL DEF Spec
<1>3. IInv /\ Ordered(heard) => AtMostOnceInOrder
  <2> SUFFICES ASSUME IInv, Ordered(heard), NEW c \in Conn, NEW d \in Conn,
                      NEW i \in Msgs(c), NEW j \in Msgs(d)
               PROVE  /\ heard[c][i].src = heard[d][j].src /\ heard[c][i].line.k = heard[d][j].line.k
                           => c = d /\ i = j
                      /\ heard[c][i].src = heard[d][j].src /\ c = d /\ i < j
                           => heard[c][i].line.k < heard[d][j].line.k
    BY DEF AtMostOnceInOrder
  <2>1. /\ i \in 1..Len(heard[c]) /\ j \in 1..Len(heard[d]) /\ IsMsg(heard, c, i) /\ IsMsg(heard, d, j)
    BY HeardDomain DEF Msgs, IsMsg
  <2>2. Source(heard, c, i) = Source(heard, d, j) => Apart(heard, c, i, d, j)
    BY <2>1 DEF Ordered
  <2> QED BY <2>2 DEF Source, Number, Apart
<1> QED BY <1>2, <1>3, Inductive, PTL

--------------------------------------------------------------------------------
(* The refinement of Directory *)

\* The table us, over the descriptors fs, binds distinct connections to the names they entered.
Bound(us, fs, un) ==
    /\ us \in Seq(Users)
    /\ \A i \in 1..Len(us) : /\ us[i].sock \in DOMAIN fs /\ fs[us[i].sock] \in Conn
                             /\ us[i].name = un[fs[us[i].sock]]
    /\ \A i, j \in 1..Len(us) : fs[us[i].sock] = fs[us[j].sock] => i = j

\* The mapping of ChatServer, for any table.
In(us, fs, c) == \E i \in DOMAIN us : us[i].sock \in DOMAIN fs /\ fs[us[i].sock] = c
OnlineIn(us, fs, un) == [c \in Conn |-> IF In(us, fs, c) THEN un[c] ELSE NoName]
TalkingIn(us, fs) == [c \in Conn |-> IF In(us, fs, c)
                                     THEN (CHOOSE u \in ToSet(us) : fs[u.sock] = c).chat_with
                                     ELSE NoName]

LEMMA MappedNow == OnlineAs = OnlineIn(users, fds, uname) /\ TalkingTo = TalkingIn(users, fds)
BY DEF OnlineAs, TalkingTo, OnlineIn, TalkingIn, In, Registered

LEMMA MappedNext == /\ OnlineAs' = OnlineIn(users', fds', uname')
                    /\ TalkingTo' = TalkingIn(users', fds')
BY DEF OnlineAs, TalkingTo, OnlineIn, TalkingIn, In, Registered

LEMMA BoundNow ==
    ASSUME IInv, pc # "dead"
    PROVE  Bound(users, fds, uname)
<1>1. \A i \in 1..Len(users) : /\ users[i].sock \in DOMAIN fds /\ fds[users[i].sock] \in Conn
                               /\ users[i].name = uname[fds[users[i].sock]]
  BY TableFacts DEF IInv, Table, Wired
<1>2. \A i, j \in 1..Len(users) : fds[users[i].sock] = fds[users[j].sock] => i = j
  BY TableFacts DEF IInv, Table, Wired
<1> QED BY <1>1, <1>2 DEF Bound, IInv, Table, TypeOK

\* The mapping at the connection of an entry, and at any other.
LEMMA MappedEntry ==
    ASSUME NEW us, NEW fs, NEW un, Bound(us, fs, un), NEW i \in 1..Len(us)
    PROVE  /\ OnlineIn(us, fs, un)[fs[us[i].sock]] = us[i].name
           /\ TalkingIn(us, fs)[fs[us[i].sock]] = us[i].chat_with
<1> DEFINE c == fs[us[i].sock]
           P(u) == u \in ToSet(us) /\ fs[u.sock] = c
<1>1. us \in Seq(Users) /\ DOMAIN us = 1..Len(us) /\ c \in Conn
  BY LenProperties DEF Bound
<1>2. In(us, fs, c)
  BY <1>1 DEF In, Bound
<1>3. P(us[i])
  BY <1>1 DEF ToSet
<1>4. \A u : P(u) => u = us[i]
  BY <1>1 DEF ToSet, Bound
<1>5. (CHOOSE u \in ToSet(us) : fs[u.sock] = c) = us[i]
  BY <1>3, <1>4
<1> QED BY <1>1, <1>2, <1>5 DEF OnlineIn, TalkingIn, Bound

LEMMA MappedOther ==
    ASSUME NEW us, NEW fs, NEW un, Bound(us, fs, un), NEW c \in Conn,
           \A i \in 1..Len(us) : fs[us[i].sock] # c
    PROVE  OnlineIn(us, fs, un)[c] = NoName /\ TalkingIn(us, fs)[c] = NoName
<1>1. us \in Seq(Users) /\ DOMAIN us = 1..Len(us)
  BY LenProperties DEF Bound
<1>2. ~In(us, fs, c)
  BY <1>1 DEF In
<1> QED BY <1>2 DEF OnlineIn, TalkingIn

\* vs over gs has the entries of us over fs, up to what they have selected and the numbers of
\* their sockets.
Alike(us, fs, un, vs, gs, vn) ==
    /\ vs \in Seq(Users) /\ Len(vs) = Len(us)
    /\ \A i \in 1..Len(us) :
         /\ vs[i].name = us[i].name
         /\ vs[i].sock \in DOMAIN gs /\ gs[vs[i].sock] = fs[us[i].sock]
         /\ vn[fs[us[i].sock]] = un[fs[us[i].sock]]

LEMMA AlikeBound ==
    ASSUME NEW us, NEW fs, NEW un, Bound(us, fs, un),
           NEW vs, NEW gs, NEW vn, Alike(us, fs, un, vs, gs, vn)
    PROVE  Bound(vs, gs, vn)
BY DEF Bound, Alike

\* Then the names online are the same; and so are the selections, but for the entries whose
\* selection differs.
LEMMA AlikeMapped ==
    ASSUME NEW us, NEW fs, NEW un, Bound(us, fs, un),
           NEW vs, NEW gs, NEW vn, Alike(us, fs, un, vs, gs, vn)
    PROVE  /\ OnlineIn(vs, gs, vn) = OnlineIn(us, fs, un)
           /\ \A c \in Conn : \/ TalkingIn(vs, gs)[c] = TalkingIn(us, fs)[c]
                              \/ \E i \in 1..Len(us) : c = fs[us[i].sock] /\ vs[i].chat_with # us[i].chat_with
<1>0. Bound(vs, gs, vn)
  BY AlikeBound
<1>1. ASSUME NEW c \in Conn
      PROVE  /\ OnlineIn(vs, gs, vn)[c] = OnlineIn(us, fs, un)[c]
             /\ \/ TalkingIn(vs, gs)[c] = TalkingIn(us, fs)[c]
                \/ \E i \in 1..Len(us) : c = fs[us[i].sock] /\ vs[i].chat_with # us[i].chat_with
  <2>1. CASE \E i \in 1..Len(us) : fs[us[i].sock] = c
    <3>1. PICK i \in 1..Len(us) : fs[us[i].sock] = c
      BY <2>1
    <3>2. i \in 1..Len(vs) /\ gs[vs[i].sock] = c /\ vs[i].name = us[i].name
      BY <3>1 DEF Alike
    <3>3. OnlineIn(us, fs, un)[c] = us[i].name /\ TalkingIn(us, fs)[c] = us[i].chat_with
      BY <3>1, MappedEntry
    <3>4. OnlineIn(vs, gs, vn)[c] = vs[i].name /\ TalkingIn(vs, gs)[c] = vs[i].chat_with
      BY <1>0, <3>2, MappedEntry
    <3> QED BY <3>1, <3>2, <3>3, <3>4
  <2>2. CASE \A i \in 1..Len(us) : fs[us[i].sock] # c
    <3>1. \A i \in 1..Len(vs) : gs[vs[i].sock] # c
      BY <2>2 DEF Alike
    <3>2. OnlineIn(us, fs, un)[c] = NoName /\ TalkingIn(us, fs)[c] = NoName
      BY <2>2, MappedOther
    <3>3. OnlineIn(vs, gs, vn)[c] = NoName /\ TalkingIn(vs, gs)[c] = NoName
      BY <1>0, <3>1, MappedOther
    <3> QED BY <3>2, <3>3
  <2> QED BY <2>1, <2>2
<1>2. OnlineIn(vs, gs, vn) = OnlineIn(us, fs, un)
  <2>1. \A c \in Conn : OnlineIn(vs, gs, vn)[c] = OnlineIn(us, fs, un)[c]
    BY <1>1
  <2> QED BY <2>1 DEF OnlineIn
<1> QED BY <1>1, <1>2

LEMMA SameMapped ==
    ASSUME NEW us, NEW fs, NEW un, Bound(us, fs, un),
           NEW vs, NEW gs, NEW vn, Alike(us, fs, un, vs, gs, vn),
           \A i \in 1..Len(us) : vs[i].chat_with = us[i].chat_with
    PROVE  OnlineIn(vs, gs, vn) = OnlineIn(us, fs, un) /\ TalkingIn(vs, gs) = TalkingIn(us, fs)
<1>1. \A c \in Conn : TalkingIn(vs, gs)[c] = TalkingIn(us, fs)[c]
  BY AlikeMapped
<1>2. TalkingIn(vs, gs) = TalkingIn(us, fs)
  BY <1>1 DEF TalkingIn
<1> QED BY <1>2, AlikeMapped

Selected(us, k, n) == [us EXCEPT ![k].chat_with = n]

\* Setting the selection of one entry changes it for the connection of that entry alone.
LEMMA SelectMapped ==
    ASSUME NEW us, NEW fs, NEW un, Bound(us, fs, un), NEW k \in 1..Len(us), NEW n \in AnyName
    PROVE  /\ OnlineIn(Selected(us, k, n), fs, un) = OnlineIn(us, fs, un)
           /\ TalkingIn(Selected(us, k, n), fs) = [TalkingIn(us, fs) EXCEPT ![fs[us[k].sock]] = n]
<1> DEFINE new == [us[k] EXCEPT !.chat_with = n]
           vs == Selected(us, k, n)
           c == fs[us[k].sock]
<1>1. us \in Seq(Users) /\ us[k] \in Users /\ c \in Conn
  BY ElementOfSeq DEF Bound
<1>2. new \in Users /\ new.name = us[k].name /\ new.sock = us[k].sock /\ new.chat_with = n
  BY <1>1 DEF Users
<1>0. vs = [us EXCEPT ![k] = new]
  BY DEF Selected
<1> HIDE DEF new, vs
<1>3. /\ vs \in Seq(Users) /\ Len(vs) = Len(us)
      /\ \A i \in 1..Len(us) : vs[i] = IF i = k THEN new ELSE us[i]
  BY <1>0, <1>1, <1>2, ExceptSeq
<1>4. Alike(us, fs, un, vs, fs, un)
  BY <1>2, <1>3 DEF Alike, Bound
<1>5. Bound(vs, fs, un) /\ OnlineIn(vs, fs, un) = OnlineIn(us, fs, un)
  BY <1>4, AlikeBound, AlikeMapped
<1>6. TalkingIn(vs, fs)[c] = n
  BY <1>2, <1>3, <1>5, MappedEntry
<1>7. \A d \in Conn : d # c => TalkingIn(vs, fs)[d] = TalkingIn(us, fs)[d]
  BY <1>3, <1>4, AlikeMapped
<1>8. TalkingIn(vs, fs) = [TalkingIn(us, fs) EXCEPT ![c] = n]
  <2>1. /\ TalkingIn(vs, fs) = [d \in Conn |-> TalkingIn(vs, fs)[d]]
        /\ TalkingIn(us, fs) = [d \in Conn |-> TalkingIn(us, fs)[d]]
    BY DEF TalkingIn
  <2> QED BY <2>1, <1>6, <1>7
<1> QED BY <1>5, <1>8 DEF vs

--------------------------------------------------------------------------------
(* What the users are shown *)

\* A frame as the directory sees it.
Face(r) == [kind |-> r.kind, from |-> r.from, who |-> ToSet(r.who)]
FacesIn(s) == [i \in DOMAIN s |-> Face(s[i])]
Faces == [kind : ReplyKinds, from : AnyName, who : SUBSET AnyName]

LEMMA FaceType ==
    ASSUME NEW r \in Outs
    PROVE  Face(r) \in Faces
<1>1. r.who \in Seq(AnyName) /\ r.kind \in ReplyKinds /\ r.from \in AnyName
  BY DEF Outs
<1>2. ToSet(r.who) \subseteq AnyName
  BY <1>1, ElementOfSeq, LenProperties DEF ToSet
<1> QED BY <1>1, <1>2 DEF Face, Faces

LEMMA FacesOf ==
    ASSUME NEW s \in Seq(Outs)
    PROVE  /\ FacesIn(s) \in Seq(Faces) /\ Len(FacesIn(s)) = Len(s)
           /\ \A i \in 1..Len(s) : FacesIn(s)[i] = Face(s[i])
<1>1. Len(s) \in Nat /\ DOMAIN s = 1..Len(s) /\ \A i \in 1..Len(s) : Face(s[i]) \in Faces
  BY LenProperties, ElementOfSeq, FaceType
<1> HIDE DEF Face, Faces
<1>2. [i \in 1..Len(s) |-> Face(s[i])] \in [1..Len(s) -> Faces]
  BY <1>1
<1>3. \A n \in Nat : [1..n -> Faces] \subseteq Seq(Faces)
  BY SeqDef
<1> QED BY <1>1, <1>2, <1>3 DEF FacesIn

LEMMA FacesAppend ==
    ASSUME NEW s \in Seq(Outs), NEW r \in Outs
    PROVE  FacesIn(Append(s, r)) = Append(FacesIn(s), Face(r))
<1> DEFINE t == Append(s, r)
           f == FacesIn(s)
           g == FacesIn(t)
           a == Append(f, Face(r))
<1>1. /\ t \in Seq(Outs) /\ Len(t) = Len(s) + 1 /\ t[Len(s) + 1] = r
      /\ \A i \in 1..Len(s) : t[i] = s[i]
  BY AppendProperties
<1>2. Len(s) \in Nat /\ DOMAIN s = 1..Len(s) /\ DOMAIN t = 1..(Len(s) + 1)
  BY <1>1, LenProperties
<1> HIDE DEF t
<1>3. f \in Seq(Faces) /\ Len(f) = Len(s) /\ \A i \in 1..Len(s) : f[i] = Face(s[i])
  BY FacesOf
<1>4. g \in Seq(Faces) /\ Len(g) = Len(s) + 1 /\ \A i \in 1..(Len(s) + 1) : g[i] = Face(t[i])
  BY <1>1, FacesOf
<1>5. Face(r) \in Faces
  BY FaceType
<1> HIDE DEF f, g
<1>6. /\ a \in Seq(Faces) /\ Len(a) = Len(s) + 1 /\ a[Len(s) + 1] = Face(r)
      /\ \A i \in 1..Len(s) : a[i] = f[i]
  BY <1>3, <1>5, AppendProperties
<1> HIDE DEF a
<1>7. \A i \in 1..Len(g) : g[i] = a[i]
  BY <1>1, <1>2, <1>3, <1>4, <1>6
<1>8. g = a
  BY <1>4, <1>6, <1>7, SeqEqual
<1> QED BY <1>8 DEF a, f, g, t

\* Writing a frame for the entry u is adding its face for the connection of u.
LEMMA PutShown ==
    ASSUME NEW h \in [Conn -> Seq(Outs)], NEW u, fds[u.sock] \in Conn, NEW r \in Outs
    PROVE  Shown(Put(h, u, r)) = D!Add(Shown(h), fds[u.sock], r.kind, r.from, ToSet(r.who))
<1> DEFINE d == fds[u.sock]
           p == Put(h, u, r)
<1>1. \A g : Shown(g) = [c \in Conn |-> FacesIn(g[c])]
  BY DEF Shown, FacesIn, Face
<1>2. p[d] = Append(h[d], r) /\ \A c \in Conn : c # d => p[c] = h[c]
  BY DEF Put
<1>3. d \in Conn /\ h[d] \in Seq(Outs)
  OBVIOUS
<1>4. FacesIn(p[d]) = Append(FacesIn(h[d]), Face(r))
  BY <1>2, <1>3, FacesAppend
<1> HIDE DEF p, d
<1>5. Shown(p) = [Shown(h) EXCEPT ![d] = Append(@, Face(r))]
  BY <1>1, <1>2, <1>3, <1>4
<1> QED BY <1>5 DEF D!Add, Face, p, d

--------------------------------------------------------------------------------
(* The handlers of the scan *)

LEMMA AtTurn ==
    ASSUME IInv, Turn
    PROVE  /\ idx \in 1..Len(users) /\ users[idx] \in Users /\ Peer \in Conn
           /\ Bound(users, fds, uname)
           /\ OnlineAs[Peer] = users[idx].name /\ OnlineAs[Peer] # NoName
<1>1. idx \in 1..Len(users) /\ users[idx] \in Users /\ Peer \in Conn /\ pc = "scan"
  BY TurnFacts
<1>2. Bound(users, fds, uname)
  BY <1>1, BoundNow
<1>3. OnlineAs[Peer] = users[idx].name
  BY <1>1, <1>2, MappedNow, MappedEntry DEF Peer
<1>4. users[idx].name # NoName
  BY <1>1, NameAssumption DEF Users
<1> QED BY <1>1, <1>2, <1>3, <1>4

LEMMA SameAlike ==
    ASSUME Bound(users, fds, uname), NEW us \in Seq(Users), Same(us, users)
    PROVE  /\ Alike(users, fds, uname, us, fds, uname)
           /\ Bound(us, fds, uname) /\ OnlineIn(us, fds, uname) = OnlineAs
<1>1. Alike(users, fds, uname, us, fds, uname)
  BY DEF Alike, Same, Bound
<1> QED BY <1>1, AlikeBound, AlikeMapped, MappedNow

\* find_user finds exactly the names online, also after a selection.
LEMMA FoundIsOnline ==
    ASSUME IInv, Bound(users, fds, uname), NEW us \in Seq(Users), Same(us, users), NEW n
    PROVE  /\ D!Online(n) <=> FindUser(us, n) # 0
           /\ FindUser(us, n) # 0 => /\ FindUser(us, n) \in 1..Len(us)
                                     /\ us[FindUser(us, n)] \in Users
                                     /\ fds[us[FindUser(us, n)].sock] \in Conn
                                     /\ OnlineAs[fds[us[FindUser(us, n)].sock]] = n
<1> DEFINE j == FindUser(us, n)
<1>1. Distinct(us)
  BY TableFacts DEF Distinct, Same
<1>2. Bound(us, fds, uname) /\ OnlineIn(us, fds, uname) = OnlineAs
  BY SameAlike
<1>3. Len(us) \in Nat
  BY LenProperties
<1>4. /\ j \in 0..Len(us)
      /\ j # 0 => us[j].name = n
      /\ j = 0 => \A k \in 1..Len(us) : us[k].name # n
  BY <1>1, FindUserProperties
<1> HIDE DEF j
<1>5. ASSUME j # 0
      PROVE  /\ j \in 1..Len(us) /\ us[j] \in Users /\ fds[us[j].sock] \in Conn
             /\ OnlineAs[fds[us[j].sock]] = n /\ n # NoName
  <2>1. j \in 1..Len(us) /\ us[j] \in Users
    BY <1>3, <1>4, <1>5, ElementOfSeq
  <2>2. OnlineAs[fds[us[j].sock]] = us[j].name /\ fds[us[j].sock] \in Conn
    BY <1>2, <2>1, MappedEntry DEF Bound
  <2> QED BY <1>4, <1>5, <2>1, <2>2, NameAssumption DEF Users
<1>6. ASSUME D!Online(n), j = 0
      PROVE  FALSE
  <2>1. PICK c \in Conn : OnlineAs[c] = n /\ n # NoName
    BY <1>6 DEF D!Online
  <2>2. PICK i \in 1..Len(us) : fds[us[i].sock] = c
    BY <1>2, <2>1, MappedOther
  <2>3. us[i].name = n
    BY <1>2, <2>1, <2>2, MappedEntry
  <2> QED BY <1>4, <1>6, <2>3
<1>7. D!Online(n) <=> j # 0
  BY <1>5, <1>6 DEF D!Online
<1> QED BY <1>5, <1>7 DEF j

\* The names /who answers with are those of the directory.
LEMMA MembersAreNames ==
    ASSUME IInv, Bound(users, fds, uname)
    PROVE  D!Members = ToSet([i \in DOMAIN users |-> users[i].name])
<1>1. DOMAIN users = 1..Len(users) /\ \A i \in 1..Len(users) : users[i] \in Users
  BY TableFacts
<1>2. OnlineAs = OnlineIn(users, fds, uname)
  BY MappedNow
<1>3. \A i \in 1..Len(users) : users[i].name \in D!Members
  <2> TAKE i \in 1..Len(users)
  <2>1. OnlineAs[fds[users[i].sock]] = users[i].name /\ fds[users[i].sock] \in Conn
    BY <1>2, MappedEntry DEF Bound
  <2>2. users[i].name # NoName
    BY <1>1, NameAssumption DEF Users
  <2> QED BY <2>1, <2>2 DEF D!Members
<1>4. ASSUME NEW n \in D!Members
      PROVE  \E i \in 1..Len(users) : users[i].name = n
  <2>1. PICK c \in Conn : OnlineAs[c] = n /\ n # NoName
    BY <1>4 DEF D!Members
  <2>2. PICK i \in 1..Len(users) : fds[users[i].sock] = c
    BY <1>2, <2>1, MappedOther
  <2> QED BY <1>2, <2>1, <2>2, MappedEntry
<1>5. ToSet([i \in DOMAIN users |-> users[i].name]) = {users[i].name : i \in 1..Len(users)}
  BY <1>1 DEF ToSet
<1> QED BY <1>3, <1>4, <1>5

LEMMA AnswerShown ==
    ASSUME IInv, Turn, Line \in Frames, NEW h \in [Conn -> Seq(Outs)],
           NEW kind \in ReplyKinds, NEW who \in Seq(AnyName)
    PROVE  Shown(Answer(h, kind, who)) = D!Add(Shown(h), Peer, kind, OnlineAs[Peer], ToSet(who))
<1> DEFINE r == Out(users[idx], kind, users[idx], Line, Garbage, who)
<1>1. /\ users[idx] \in Users /\ users[idx].sock \in DOMAIN fds /\ fds[users[idx].sock] \in Conn
      /\ fds[users[idx].sock] = Peer /\ OnlineAs[Peer] = users[idx].name
  BY TurnFacts, AtTurn DEF Peer
<1>2. r \in Outs
  BY <1>1, OutType
<1>3. r.kind = kind /\ r.from = OnlineAs[Peer] /\ r.who = who
  BY <1>1 DEF Out
<1> HIDE DEF r
<1>4. Shown(Put(h, users[idx], r)) = D!Add(Shown(h), fds[users[idx].sock], r.kind, r.from, ToSet(r.who))
  BY <1>1, <1>2, PutShown
<1> QED BY <1>1, <1>3, <1>4 DEF Answer, r

\* An answer without names is the Answer of the directory.
LEMMA PlainAnswerShown ==
    ASSUME IInv, Turn, Line \in Frames, NEW h \in [Conn -> Seq(Outs)], NEW kind \in ReplyKinds
    PROVE  Shown(Answer(h, kind, <<>>)) = D!Answer(Shown(h), Peer, kind)
<1>1. <<>> \in Seq(AnyName) /\ ToSet(<<>>) = {}
  BY EmptySeq DEF ToSet
<1> QED BY <1>1, AnswerShown DEF D!Answer

\* service_chat's selection is the directory's.
LEMMA ChosenMapped ==
    ASSUME IInv, Turn, NEW n \in AnyName
    PROVE  TalkingIn(WithChat(n), fds) = IF D!Online(n) THEN [TalkingTo EXCEPT ![Peer] = n] ELSE TalkingTo
<1>1. /\ idx \in 1..Len(users) /\ Bound(users, fds, uname) /\ users \in Seq(Users)
      /\ Same(users, users)
  BY AtTurn DEF Bound, Same
<1>2. D!Online(n) <=> FindUser(users, n) # 0
  BY <1>1, FoundIsOnline
<1>3. TalkingTo = TalkingIn(users, fds)
  BY MappedNow
<1>4. TalkingIn(Selected(users, idx, n), fds) = [TalkingTo EXCEPT ![Peer] = n]
  BY <1>1, <1>3, SelectMapped DEF Peer
<1> QED BY <1>2, <1>3, <1>4 DEF WithChat, Selected

\* service_message says what the directory's Say says.
LEMMA MessageSays ==
    ASSUME IInv, Turn, Line \in Frames, NEW us \in Seq(Users), Same(us, users),
           NEW h \in [Conn -> Seq(Outs)], NEW body \in (Conn \X Nat) \cup {Garbage},
           Message(us, h, body), UNCHANGED <<fds, uname>>
    PROVE  OnlineAs' = OnlineAs /\ D!SayFrom(TalkingIn(us, fds), Shown(h), Peer)
<1> DEFINE u == us[idx]
           j == FindUser(us, u.chat_with)
           t == TalkingIn(us, fds)
<1>1. /\ idx \in 1..Len(users) /\ Peer \in Conn /\ Bound(users, fds, uname)
      /\ OnlineAs[Peer] = users[idx].name
  BY AtTurn
<1>2. Bound(us, fds, uname) /\ OnlineIn(us, fds, uname) = OnlineAs
  BY <1>1, SameAlike
<1>3. /\ idx \in 1..Len(us) /\ u \in Users /\ fds[u.sock] = Peer /\ u.name = OnlineAs[Peer]
      /\ u.sock \in DOMAIN fds
  BY <1>1, TurnFacts, ElementOfSeq DEF Same, Peer
<1>4. t[Peer] = u.chat_with
  BY <1>2, <1>3, MappedEntry
<1>5. TalkingTo' = TalkingIn(users', fds) /\ OnlineAs' = OnlineIn(users', fds, uname)
  BY MappedNext
<1>6. CASE u.chat_with = NoName /\ users' = us /\ heard' = Answer(h, "nochat", <<>>)
  <2>1. Shown(heard') = D!Answer(Shown(h), Peer, "nochat")
    BY <1>6, PlainAnswerShown DEF ReplyKinds
  <2>2. Shown(heard)' = Shown(heard')
    BY DEF Shown
  <2> QED BY <1>2, <1>4, <1>5, <1>6, <2>1, <2>2 DEF D!SayFrom
<1>7. CASE /\ u.chat_with # NoName /\ j # 0 /\ users' = us
           /\ heard' = Put(h, us[j], Out(us[j], "msg", u, Line, body, <<>>))
  <2> DEFINE d == fds[us[j].sock]
             r == Out(us[j], "msg", u, Line, body, <<>>)
  <2>1. us[j] \in Users /\ d \in Conn /\ OnlineAs[d] = u.chat_with
    BY <1>1, <1>7, FoundIsOnline
  <2>2. <<>> \in Seq(AnyName) /\ ToSet(<<>>) = {}
    BY EmptySeq DEF ToSet
  <2>3. r \in Outs
    BY <1>3, <2>1, <2>2, OutType DEF ReplyKinds
  <2>4. r.kind = "msg" /\ r.from = OnlineAs[Peer] /\ r.who = <<>>
    BY <1>3 DEF Out
  <2> HIDE DEF r
  <2>5. Shown(Put(h, us[j], r)) = D!Add(Shown(h), d, r.kind, r.from, ToSet(r.who))
    BY <2>1, <2>3, PutShown
  <2>6. Shown(heard)' = Shown(heard')
    BY DEF Shown
  <2>7. Shown(heard)' = D!Add(Shown(h), d, "msg", OnlineAs[Peer], {})
    BY <1>7, <2>2, <2>4, <2>5, <2>6 DEF r
  <2> HIDE DEF d
  <2> QED BY <1>2, <1>4, <1>5, <1>7, <2>1, <2>7 DEF D!SayFrom
<1>8. CASE /\ u.chat_with # NoName /\ j = 0
           /\ users' = [us EXCEPT ![idx].chat_with = NoName]
           /\ heard' = Answer(h, "nolonger", <<>>)
  <2>1. Shown(heard') = D!Answer(Shown(h), Peer, "nolonger")
    BY <1>8, PlainAnswerShown DEF ReplyKinds
  <2>2. Shown(heard)' = Shown(heard')
    BY DEF Shown
  <2>3. ~D!Online(u.chat_with)
    BY <1>1, <1>8, FoundIsOnline
  <2>4. /\ OnlineIn(users', fds, uname) = OnlineIn(us, fds, uname)
        /\ TalkingIn(users', fds) = [t EXCEPT ![Peer] = NoName]
    <3>1. NoName \in AnyName
      BY DEF AnyName
    <3>2. users' = Selected(us, idx, NoName)
      BY <1>8 DEF Selected
    <3> QED BY <1>2, <1>3, <3>1, <3>2, SelectMapped
  <2> QED BY <1>2, <1>4, <1>5, <1>8, <2>1, <2>2, <2>3, <2>4 DEF D!SayFrom
<1> QED BY <1>6, <1>7, <1>8 DEF Message

LEMMA HandlerMaps ==
    ASSUME IInv, ServeWho \/ ServeChat \/ ServeText \/ ServeAt \/ ServeBareAt
    PROVE  D!Next
<1>1. Turn /\ Read /\ UNCHANGED <<fds, uname>>
  BY DEF ServeWho, ServeChat, ServeText, ServeAt, ServeBareAt, Command, Done, clientVars
<1>2. /\ Line \in Frames /\ Id \in Conn \X Nat /\ Line.to \in AnyName
      /\ heard \in [Conn -> Seq(Outs)] /\ stale \subseteq Conn \X Nat
      /\ users \in Seq(Users) /\ Same(users, users)
  BY <1>1, LineType DEF IInv, Table, TypeOK, Frames, Same
<1>3. /\ Peer \in Conn /\ Bound(users, fds, uname) /\ OnlineAs[Peer] # NoName
      /\ TalkingTo = TalkingIn(users, fds) /\ OnlineAs = OnlineIn(users, fds, uname)
      /\ TalkingTo' = TalkingIn(users', fds) /\ OnlineAs' = OnlineIn(users', fds, uname)
  BY <1>1, AtTurn, MappedNow, MappedNext
<1>4. Shown(heard)' = Shown(heard')
  BY DEF Shown
<1>5. /\ WithChat(Line.to) \in Seq(Users) /\ Same(WithChat(Line.to), users)
      /\ NotFound(Line.to, heard) \in [Conn -> Seq(Outs)]
      /\ OnlineIn(WithChat(Line.to), fds, uname) = OnlineAs
      /\ TalkingIn(WithChat(Line.to), fds) = IF D!Online(Line.to) THEN [TalkingTo EXCEPT ![Peer] = Line.to]
                                                                  ELSE TalkingTo
  BY <1>1, <1>2, <1>3, WithChatType, NotFoundType, SameAlike, ChosenMapped
<1>6. /\ D!Online(Line.to) <=> FindUser(users, Line.to) # 0
      /\ Shown(Answer(heard, "nouser", <<>>)) = D!Answer(Shown(heard), Peer, "nouser")
      /\ Shown(Answer(heard, "nowchatting", <<>>)) = D!Answer(Shown(heard), Peer, "nowchatting")
  BY <1>1, <1>2, <1>3, FoundIsOnline, PlainAnswerShown DEF ReplyKinds
<1>7. CASE ServeWho
  <2>1. [i \in DOMAIN users |-> users[i].name] \in Seq(AnyName)
    <3>1. \A i \in 1..Len(users) : users[i].name \in AnyName
      BY TableFacts DEF Users, AnyName
    <3> QED BY <3>1, TableFacts
  <2>2. heard' = Answer(heard, "who", [i \in DOMAIN users |-> users[i].name]) /\ users' = users
    BY <1>7 DEF ServeWho
  <2>3. D!Members = ToSet([i \in DOMAIN users |-> users[i].name])
    BY <1>3, MembersAreNames
  <2>4. Shown(heard') = D!Add(Shown(heard), Peer, "who", OnlineAs[Peer], D!Members)
    BY <1>1, <1>2, <2>1, <2>2, <2>3, AnswerShown DEF ReplyKinds
  <2>5. D!Who(Peer)
    BY <1>3, <1>4, <2>2, <2>4 DEF D!Who
  <2> QED BY <1>3, <2>5 DEF D!Next
<1>8. CASE ServeChat
  <2>1. users' = WithChat(Line.to) /\ heard' = NotFound(Line.to, Answer(heard, "nowchatting", <<>>))
    BY <1>8 DEF ServeChat
  <2>2. Shown(heard') = IF D!Online(Line.to) THEN D!Answer(Shown(heard), Peer, "nowchatting")
                                             ELSE D!Answer(Shown(heard), Peer, "nouser")
    BY <1>6, <2>1 DEF NotFound
  <2>3. D!Choose(Peer, Line.to)
    BY <1>3, <1>4, <1>5, <2>1, <2>2 DEF D!Choose
  <2> QED BY <1>2, <1>3, <2>3 DEF D!Next
<1>9. CASE ServeText
  <2>1. Message(users, heard, Id)
    BY <1>9 DEF ServeText
  <2>2. OnlineAs' = OnlineAs /\ D!SayFrom(TalkingTo, Shown(heard), Peer)
    BY <1>1, <1>2, <1>3, <2>1, MessageSays
  <2>3. D!Say(Peer)
    BY <1>3, <2>2 DEF D!Say
  <2> QED BY <1>3, <2>3 DEF D!Next
<1>10. CASE ServeAt \/ ServeBareAt
  <2>1. PICK body \in (Conn \X Nat) \cup {Garbage} :
          Message(WithChat(Line.to), NotFound(Line.to, heard), body)
    BY <1>2, <1>10 DEF ServeAt, ServeBareAt
  <2>2. /\ OnlineAs' = OnlineAs
        /\ D!SayFrom(TalkingIn(WithChat(Line.to), fds), Shown(NotFound(Line.to, heard)), Peer)
    BY <1>1, <1>2, <1>5, <2>1, MessageSays
  <2>3. Shown(NotFound(Line.to, heard)) = IF D!Online(Line.to) THEN Shown(heard)
                                                               ELSE D!Answer(Shown(heard), Peer, "nouser")
    BY <1>6 DEF NotFound
  <2>4. D!SayTo(Peer, Line.to)
    BY <1>3, <1>5, <2>2, <2>3 DEF D!SayTo
  <2> QED BY <1>2, <1>3, <2>4 DEF D!Next
<1> QED BY <1>7, <1>8, <1>9, <1>10

--------------------------------------------------------------------------------
(* Joining and leaving *)

LEMMA RegisterMaps ==
    ASSUME IInv, IInv', Register
    PROVE  D!Next
<1> DEFINE n == Len(users)
           c == fds[cur]
<1>1. PICK m \in Name :
        /\ FindUser(users, m) = 0 /\ pc = "name"
        /\ users' = Append(users, [name |-> m, sock |-> cur, chat_with |-> NoName, key |-> fds[cur]])
        /\ UNCHANGED <<fds, uname, heard>>
  BY DEF Register, Naming, clientVars
<1>2. c \in Conn /\ cur \in DOMAIN fds /\ cur \notin Socks /\ cur \in Fd
  BY <1>1, HandshakeFacts, TableFacts DEF Handshake
<1>3. Bound(users, fds, uname) /\ users \in Seq(Users) /\ n \in Nat /\ DOMAIN users = 1..n
  BY <1>1, BoundNow, TableFacts DEF Bound
<1>4. \A i \in 1..n : fds[users[i].sock] # c
  <2>1. \A f, g \in DOMAIN fds : fds[f] = fds[g] => f = g
    BY <1>1 DEF IInv, Table, Wired
  <2> QED BY <1>2, <2>1, TableFacts
<1>5. OnlineAs[c] = NoName /\ TalkingTo[c] = NoName
  BY <1>2, <1>3, <1>4, MappedNow, MappedOther
<1>6. ~D!Online(m)
  <2>1. Same(users, users)
    BY DEF Same
  <2> QED BY <1>1, <1>3, <2>1, FoundIsOnline
<1> DEFINE e == [name |-> m, sock |-> cur, chat_with |-> NoName, key |-> fds[cur]]
<1>7. e \in Users /\ e.name = m /\ e.sock = cur /\ e.chat_with = NoName
  BY <1>2 DEF Users, AnyName
<1> HIDE DEF e
<1>8. /\ users' \in Seq(Users) /\ Len(users') = n + 1 /\ users'[n + 1] = e
      /\ \A i \in 1..n : users'[i] = users[i]
  BY <1>1, <1>3, <1>7, AppendProperties DEF e
<1>9. m = uname[c]
  <2>1. n + 1 \in DOMAIN users'
    BY <1>3, <1>8, LenProperties
  <2> QED BY <1>1, <1>7, <1>8, <2>1 DEF IInv, Table, Wired
<1> HIDE DEF c
<1>10. Bound(users', fds, uname)
  <2>1. \A i \in 1..(n + 1) : i \in 1..n \/ i = n + 1
    BY <1>3
  <2>2. fds[cur] = c
    BY DEF c
  <2> QED BY <1>2, <1>3, <1>4, <1>7, <1>8, <1>9, <2>1, <2>2 DEF Bound
<1>11. /\ OnlineAs' = OnlineIn(users', fds, uname) /\ OnlineAs = OnlineIn(users, fds, uname)
       /\ TalkingTo' = TalkingIn(users', fds) /\ TalkingTo = TalkingIn(users, fds)
  BY <1>1, MappedNow, MappedNext
<1>12. OnlineAs'[c] = m /\ TalkingTo'[c] = NoName
  <2>1. n + 1 \in 1..Len(users') /\ fds[users'[n + 1].sock] = c
    BY <1>3, <1>7, <1>8 DEF c
  <2> QED BY <1>7, <1>8, <1>10, <1>11, <2>1, MappedEntry
<1>13. ASSUME NEW d \in Conn, d # c
       PROVE  OnlineAs'[d] = OnlineAs[d] /\ TalkingTo'[d] = TalkingTo[d]
  <2>1. CASE \E i \in 1..n : fds[users[i].sock] = d
    <3>1. PICK i \in 1..n : fds[users[i].sock] = d
      BY <2>1
    <3>2. i \in 1..Len(users') /\ users'[i] = users[i]
      BY <1>3, <1>8
    <3> QED BY <1>3, <1>10, <1>11, <3>1, <3>2, MappedEntry
  <2>2. CASE \A i \in 1..n : fds[users[i].sock] # d
    <3>1. \A i \in 1..Len(users') : fds[users'[i].sock] # d
      BY <1>3, <1>7, <1>8, <1>13, <2>2 DEF c
    <3> QED BY <1>3, <1>10, <1>11, <2>2, <3>1, MappedOther
  <2> QED BY <2>1, <2>2
<1>14. OnlineAs' = [OnlineAs EXCEPT ![c] = m]
  BY <1>2, <1>11, <1>12, <1>13 DEF OnlineIn
<1>15. TalkingTo' = TalkingTo
  BY <1>2, <1>5, <1>11, <1>12, <1>13 DEF TalkingIn
<1>16. Shown(heard)' = Shown(heard)
  BY <1>1 DEF Shown
<1>17. D!Join(c, m)
  BY <1>5, <1>6, <1>14, <1>15, <1>16 DEF D!Join
<1> QED BY <1>2, <1>17 DEF D!Next, c

LEMMA QuitMaps ==
    ASSUME IInv, IInv', ServeQuit
    PROVE  D!Next
<1> DEFINE n == Len(users)
           c == Peer
<1>1. Turn /\ UNCHANGED <<uname, heard>>
  BY DEF ServeQuit, Quit, QuitAt, clientVars
<1>2. c \in Conn /\ idx \in 1..n /\ Bound(users, fds, uname) /\ OnlineAs[c] # NoName
  BY <1>1, AtTurn
<1>3. /\ users' \in Seq(Users) /\ DOMAIN users' = 1..Len(users')
      /\ \A i \in (1..n) \ {idx} : \E k \in DOMAIN users' :
           users'[k] = users[i] /\ users[i].sock \in DOMAIN fds' /\ fds'[users[i].sock] = fds[users[i].sock]
      /\ \A k \in DOMAIN users' : \E i \in (1..n) \ {idx} :
           users'[k] = users[i] /\ fds'[users[i].sock] = fds[users[i].sock]
  BY QuitKept, LenProperties
<1> DEFINE From(k, i) == users'[k] = users[i] /\ fds'[users'[k].sock] = fds[users[i].sock]
<1>4. \A k \in DOMAIN users' : \E i \in (1..n) \ {idx} : From(k, i)
  BY <1>3
<1> HIDE DEF n
<1>5. Bound(users', fds', uname)
  <2>1. ASSUME NEW k \in DOMAIN users'
        PROVE  /\ users'[k].sock \in DOMAIN fds' /\ fds'[users'[k].sock] \in Conn
               /\ users'[k].name = uname[fds'[users'[k].sock]]
    BY <1>1, <1>2, <1>3, <2>1 DEF IInv, Table, Wired, Bound, n
  <2>2. ASSUME NEW k \in DOMAIN users', NEW l \in DOMAIN users',
               fds'[users'[k].sock] = fds'[users'[l].sock]
        PROVE  k = l
    <3>1. PICK i \in 1..n : From(k, i)
      BY <1>4
    <3>2. PICK j \in 1..n : From(l, j)
      BY <1>4
    <3>3. i = j
      BY <1>2, <2>2, <3>1, <3>2 DEF Bound, n
    <3> QED BY <3>1, <3>2, <3>3 DEF IInv, Table, Wired
  <2> QED BY <1>3, <2>1, <2>2 DEF Bound
<1>6. /\ OnlineAs' = OnlineIn(users', fds', uname) /\ OnlineAs = OnlineIn(users, fds, uname)
      /\ TalkingTo' = TalkingIn(users', fds') /\ TalkingTo = TalkingIn(users, fds)
  BY <1>1, MappedNow, MappedNext
<1>7. OnlineAs'[c] = NoName /\ TalkingTo'[c] = NoName
  <2>1. \A k \in 1..Len(users') : fds'[users'[k].sock] # c
    <3> TAKE k \in 1..Len(users')
    <3>1. PICK i \in (1..n) \ {idx} : From(k, i)
      BY <1>3, <1>4
    <3>2. fds[users[i].sock] # fds[users[idx].sock]
      BY <1>2 DEF Bound, n
    <3> QED BY <3>1, <3>2 DEF Peer
  <2> QED BY <1>2, <1>5, <1>6, <2>1, MappedOther
<1>8. ASSUME NEW d \in Conn, d # c
      PROVE  OnlineAs'[d] = OnlineAs[d] /\ TalkingTo'[d] = TalkingTo[d]
  <2>1. CASE \E i \in 1..n : fds[users[i].sock] = d
    <3>1. PICK i \in 1..n : fds[users[i].sock] = d
      BY <2>1
    <3>2. i # idx
      BY <1>8, <3>1 DEF Peer
    <3>3. PICK k \in 1..Len(users') : users'[k] = users[i] /\ fds'[users'[k].sock] = d
      BY <1>3, <3>1, <3>2
    <3>4. OnlineAs'[d] = users'[k].name /\ TalkingTo'[d] = users'[k].chat_with
      BY <1>5, <1>6, <3>3, MappedEntry
    <3>5. OnlineAs[d] = users[i].name /\ TalkingTo[d] = users[i].chat_with
      BY <1>2, <1>6, <3>1, MappedEntry DEF n
    <3> QED BY <3>3, <3>4, <3>5
  <2>2. CASE \A i \in 1..n : fds[users[i].sock] # d
    <3>1. \A k \in 1..Len(users') : fds'[users'[k].sock] # d
      <4> TAKE k \in 1..Len(users')
      <4>1. PICK i \in 1..n : From(k, i)
        BY <1>3, <1>4
      <4> QED BY <2>2, <4>1
    <3> QED BY <1>2, <1>5, <1>6, <2>2, <3>1, MappedOther DEF n
  <2> QED BY <2>1, <2>2
<1> HIDE DEF c
<1>9. OnlineAs' = [OnlineAs EXCEPT ![c] = NoName]
  <2>1. OnlineAs = [d \in Conn |-> OnlineAs[d]] /\ OnlineAs' = [d \in Conn |-> OnlineAs'[d]]
    BY DEF OnlineAs
  <2> QED BY <1>2, <1>7, <1>8, <2>1
<1>10. TalkingTo' = [TalkingTo EXCEPT ![c] = NoName]
  <2>1. TalkingTo = [d \in Conn |-> TalkingTo[d]] /\ TalkingTo' = [d \in Conn |-> TalkingTo'[d]]
    BY DEF TalkingTo
  <2> QED BY <1>2, <1>7, <1>8, <2>1
<1>11. Shown(heard)' = Shown(heard)
  BY <1>1 DEF Shown
<1>12. D!Leave(c)
  BY <1>2, <1>9, <1>10, <1>11 DEF D!Leave
<1> QED BY <1>2, <1>12 DEF D!Next

--------------------------------------------------------------------------------
(* The steps the directory does not see *)

LEMMA TableUntouched ==
    ASSUME IInv, UNCHANGED <<users, fds, heard>>,
           \A c \in Conn : phase[c] # "idle" => uname'[c] = uname[c]
    PROVE  UNCHANGED D!vars
<1>1. \A c \in Conn : Registered(c)' = Registered(c)
  BY DEF Registered
<1>2. \A c \in Conn : Registered(c) => uname'[c] = uname[c]
  BY DEF Registered, IInv, Table, Queued
<1>3. OnlineAs' = OnlineAs
  BY <1>1, <1>2 DEF OnlineAs
<1>4. TalkingTo' = TalkingTo
  BY <1>1 DEF TalkingTo
<1>5. Shown(heard)' = Shown(heard)
  BY DEF Shown
<1> QED BY <1>3, <1>4, <1>5 DEF D!vars

\* A descriptor that is no user's is opened or closed.
LEMMA OtherDescriptor ==
    ASSUME IInv, [Next]_vars, pc # "dead", ~ServeQuit, UNCHANGED <<users, uname, heard>>
    PROVE  UNCHANGED D!vars
<1>1. Bound(users, fds, uname)
  BY BoundNow
<1>2. Alike(users, fds, uname, users', fds', uname')
  <2>1. Kept(Len(users))
    BY EntriesKept
  <2> QED BY <1>1, <2>1 DEF Alike, Kept, Bound
<1>3. OnlineAs' = OnlineAs /\ TalkingTo' = TalkingTo
  BY <1>1, <1>2, SameMapped, MappedNow, MappedNext
<1>4. Shown(heard)' = Shown(heard)
  BY DEF Shown
<1> QED BY <1>3, <1>4 DEF D!vars

LEMMA StepMaps == IInv /\ IInv' /\ [Next]_vars => [D!Next]_(D!vars)
<1> SUFFICES ASSUME IInv, IInv', [Next]_vars PROVE D!Next \/ UNCHANGED D!vars
  OBVIOUS
<1> USE DEF serverVars, clientVars, netVars
<1>1. CASE ServeWho \/ ServeChat \/ ServeText \/ ServeAt \/ ServeBareAt
  BY <1>1, HandlerMaps
<1>2. CASE Register
  BY <1>2, RegisterMaps
<1>3. CASE ServeQuit
  BY <1>3, QuitMaps
<1>4. CASE (Accept \/ Challenge \/ Share \/ NameLost \/ NameTaken \/ ServerFull) /\ ~ServeQuit
  <2>1. pc # "dead"
    BY <1>4 DEF Accept, Challenge, Share, NameLost, NameTaken, ServerFull, Naming
  <2>2. UNCHANGED <<users, uname, heard>>
    BY <1>4, Zenon DEF Accept, Challenge, Share, NameLost, NameTaken, ServerFull, Drop
  <2> QED BY <1>4, <2>1, <2>2, OtherDescriptor
<1>5. CASE Select \/ EndScan \/ Skip \/ CaStop \/ UNCHANGED vars
  BY <1>5, TableUntouched DEF Select, EndScan, Skip, CaStop, vars
<1>6. ASSUME NEW c \in Conn, Connect(c) \/ ClientCode(c) \/ Begin(c) \/ Abandon(c) \/ Die(c)
      PROVE  UNCHANGED D!vars
  <2>1. CASE Connect(c)
    <3>1. uname \in [Conn -> AnyName]
      BY DEF IInv, Table, TypeOK
    <3>2. /\ phase[c] = "idle" /\ UNCHANGED <<users, fds, heard>>
          /\ \A d \in Conn : d # c => uname'[d] = uname[d]
      BY <2>1, <3>1 DEF Connect
    <3> QED BY <3>2, TableUntouched
  <2>2. CASE ClientCode(c) \/ Begin(c) \/ Abandon(c) \/ Die(c)
    <3>1. UNCHANGED <<users, fds, heard, uname>>
      BY <2>2, Zenon DEF ClientCode, Hello, Proof, KeyAgree, Retry, Step, Success, Closed, Type, Begin, Abandon, Die
    <3> QED BY <3>1, TableUntouched
  <2> QED BY <1>6, <2>1, <2>2
<1> QED BY <1>1, <1>2, <1>3, <1>4, <1>5, <1>6 DEF Next, ServerNext

LEMMA InitMaps == Init => D!Init
<1> SUFFICES ASSUME Init PROVE D!Init
  OBVIOUS
<1>1. \A c \in Conn : ~Registered(c)
  BY DEF Init, Registered
<1>2. \A c \in Conn : FacesIn(heard[c]) = <<>>
  BY DEF Init, FacesIn
<1>3. Shown(heard) = [c \in Conn |-> FacesIn(heard[c])]
  BY DEF Shown, FacesIn, Face
<1>4. Shown(heard) = [c \in Conn |-> <<>>]
  BY <1>2, <1>3
<1>5. /\ OnlineAs = [c \in Conn |-> NoName]
      /\ TalkingTo = [c \in Conn |-> NoName]
  BY <1>1 DEF OnlineAs, TalkingTo
<1> QED BY <1>4, <1>5 DEF D!Init

\* The table of users, the descriptors and the scan implement a directory of names: for every
\* interleaving, however descriptors are reused and entries moved, each step of the server is a
\* step of the directory or changes nothing a user could tell.
THEOREM ServerIsADirectory == Spec => Directory
BY InitMaps, StepMaps, Inductive, PTL DEF Spec, Directory, D!Spec

================================================================================
