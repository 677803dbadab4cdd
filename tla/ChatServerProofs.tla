--------------------------- MODULE ChatServerProofs ---------------------------
(***************************************************************************)
(* For every set of connections, names and descriptors: the types, the     *)
(* distinct names and the wiring of users[] to descriptors, connections    *)
(* and keys (IInv), by induction over the steps of the specification.      *)
(***************************************************************************)
EXTENDS ChatServer, SequenceLemmas, TLAPS

--------------------------------------------------------------------------------
(* Operators *)

LEMMA AppendToOne ==
    ASSUME NEW S, NEW x \in S, NEW y \in S
    PROVE  Append(<<x>>, y) = <<x, y>>
<1>1. <<x>> \in Seq(S) /\ Len(<<x>>) = 1 /\ <<x>>[1] = x
  OBVIOUS
<1>2. <<x, y>> \in Seq(S) /\ Len(<<x, y>>) = 2 /\ <<x, y>>[1] = x /\ <<x, y>>[2] = y
  OBVIOUS
<1>3. /\ Append(<<x>>, y) \in Seq(S) /\ Len(Append(<<x>>, y)) = 2
      /\ \A i \in 1..1 : Append(<<x>>, y)[i] = <<x>>[i]
      /\ Append(<<x>>, y)[2] = y
  BY <1>1, AppendProperties
<1> DEFINE a == Append(<<x>>, y)
           b == <<x, y>>
<1>4. a \in Seq(S) /\ b \in Seq(S) /\ Len(a) = Len(b) /\ Len(b) = 2
  BY <1>2, <1>3
<1>5. \A i \in 1..2 : a[i] = b[i]
  <2>1. a[1] = b[1]
    BY <1>1, <1>2, <1>3
  <2>2. a[2] = b[2]
    BY <1>2, <1>3
  <2>3. \A i \in 1..2 : i = 1 \/ i = 2
    OBVIOUS
  <2> HIDE DEF a, b
  <2> QED BY <2>1, <2>2, <2>3
<1> HIDE DEF a, b
<1>6. a = b
  BY <1>4, <1>5, SeqEqual
<1> QED BY <1>6 DEF a, b

Distinct(us) == \A i, j \in 1..Len(us) : us[i].name = us[j].name => i = j

\* In a table of distinct names find_user returns the entry of that name, or 0 for none.
LEMMA FindUserProperties ==
    ASSUME NEW us \in Seq(Users), Distinct(us), NEW n
    PROVE  /\ FindUser(us, n) \in 0..Len(us)
           /\ FindUser(us, n) # 0 => us[FindUser(us, n)].name = n
           /\ FindUser(us, n) = 0 => \A j \in 1..Len(us) : us[j].name # n
<1>0. Len(us) \in Nat
  BY LenProperties
<1>1. CASE \E j \in 1..Len(us) : us[j].name = n
  <2>1. PICK j \in 1..Len(us) : us[j].name = n
    BY <1>1
  <2>2. \A k \in 1..(j-1) : us[k].name # n
    BY <2>1, <1>0 DEF Distinct
  <2>3. \E i \in 1..Len(us) : us[i].name = n /\ \A k \in 1..(i-1) : us[k].name # n
    BY <2>1, <2>2
  <2>4. FindUser(us, n) = CHOOSE i \in 1..Len(us) : us[i].name = n /\ \A k \in 1..(i-1) : us[k].name # n
    BY <1>1 DEF FindUser
  <2>5. FindUser(us, n) \in 1..Len(us) /\ us[FindUser(us, n)].name = n
    BY <2>3, <2>4
  <2> QED BY <2>5, <1>0
<1>2. CASE ~ \E j \in 1..Len(us) : us[j].name = n
  BY <1>2, <1>0 DEF FindUser
<1> QED BY <1>1, <1>2

--------------------------------------------------------------------------------
(* What the invariant says at the places where the server acts *)

\* Two tables with the same entries up to chat_with.
Same(us, vs) ==
    /\ Len(us) = Len(vs)
    /\ \A i \in 1..Len(vs) : us[i].name = vs[i].name /\ us[i].sock = vs[i].sock /\ us[i].key = vs[i].key

LEMMA TableFacts ==
    ASSUME IInv
    PROVE  /\ Len(users) \in Nat /\ DOMAIN users = 1..Len(users)
           /\ \A i \in 1..Len(users) : users[i] \in Users /\ users[i].sock \in DOMAIN fds
           /\ \A f \in DOMAIN fds : f \in Fd /\ fds[f] \in Conn
           /\ Distinct(users)
           /\ Socks = {users[i].sock : i \in 1..Len(users)}
<1>1. users \in Seq(Users)
  BY DEF IInv, Table, TypeOK
<1>2. Len(users) \in Nat /\ DOMAIN users = 1..Len(users)
  BY <1>1, LenProperties
<1>3. \A i \in 1..Len(users) : users[i] \in Users
  BY <1>1, ElementOfSeq
<1>4. \A i \in 1..Len(users) : users[i].sock \in DOMAIN fds
  BY <1>2 DEF IInv, Table, Wired
<1>5. \A f \in DOMAIN fds : f \in Fd /\ fds[f] \in Conn
  BY DEF IInv, Table, TypeOK
<1>6. Distinct(users)
  BY <1>2 DEF IInv, Table, UniqueNames, Distinct
<1> QED BY <1>2, <1>3, <1>4, <1>5, <1>6 DEF Socks

LEMMA HandshakeFacts ==
    ASSUME IInv, pc \in Handshake
    PROVE  cur \in DOMAIN fds /\ fds[cur] \in Conn /\ cur \notin Socks /\ cur # NoFd
<1>1. pc # "dead"
  BY DEF Handshake
<1>2. cur # NoFd /\ cur \notin Socks /\ DOMAIN fds = Socks \cup ({cur} \ {NoFd})
  BY <1>1 DEF IInv, Table, Wired
<1> QED BY <1>2, TableFacts

LEMMA ScanFacts ==
    ASSUME IInv, pc # "dead", pc \notin Handshake
    PROVE  cur = NoFd /\ DOMAIN fds = Socks
BY DEF IInv, Table, Wired

LEMMA TurnFacts ==
    ASSUME IInv, Turn
    PROVE  /\ idx \in 1..Len(users) /\ users[idx] \in Users /\ users[idx].sock \in DOMAIN fds
           /\ Peer \in Conn /\ pc = "scan"
<1>1. idx \in Nat \ {0}
  BY DEF IInv, Table, TypeOK
<1>2. idx \in 1..Len(users)
  BY <1>1, TableFacts DEF Turn
<1> QED BY <1>2, TableFacts DEF Turn, Peer

--------------------------------------------------------------------------------
(* Types of the queues *)

Greetings == {"cert", "sig", "share", "taken", "full", "ok"}

LEMMA ConsumeType ==
    ASSUME IInv, NEW c \in Conn, Consume(c)
    PROVE  inq' \in [Conn -> Seq(Frames)] /\ Head(inq[c]) \in Frames
<1>1. inq \in [Conn -> Seq(Frames)]
  BY DEF IInv, Table, TypeOK
<1>2. inq[c] \in Seq(Frames) /\ inq[c] # <<>>
  BY <1>1 DEF Consume
<1>3. Head(inq[c]) \in Frames /\ Tail(inq[c]) \in Seq(Frames)
  BY <1>2, HeadTailProperties
<1> QED BY <1>1, <1>3 DEF Consume

LEMMA WriteType ==
    ASSUME IInv, NEW c \in Conn, NEW f \in Frames, Write(c, f)
    PROVE  inq' \in [Conn -> Seq(Frames)]
<1>1. inq \in [Conn -> Seq(Frames)]
  BY DEF IInv, Table, TypeOK
<1>2. Append(inq[c], f) \in Seq(Frames)
  BY <1>1, AppendProperties
<1> QED BY <1>1, <1>2 DEF Write

LEMMA SendType ==
    ASSUME IInv, NEW c \in Conn, NEW ms \in Seq(Greetings), SendTo(c, ms)
    PROVE  outq' \in [Conn -> Seq(Greetings)]
<1>1. outq \in [Conn -> Seq(Greetings)]
  BY DEF IInv, Table, TypeOK, Greetings
<1>2. outq[c] \o ms \in Seq(Greetings)
  BY <1>1, ConcatProperties
<1> QED BY <1>1, <1>2 DEF SendTo

LEMMA PutType ==
    ASSUME NEW h \in [Conn -> Seq(Outs)], NEW u, fds[u.sock] \in Conn, NEW r \in Outs
    PROVE  Put(h, u, r) \in [Conn -> Seq(Outs)]
<1>1. Append(h[fds[u.sock]], r) \in Seq(Outs)
  BY AppendProperties
<1> QED BY <1>1 DEF Put

\* A frame about two entries of the table, or of one with the same entries, is well formed.
LEMMA OutType ==
    ASSUME IInv, NEW u \in Users, NEW v \in Users, v.sock \in DOMAIN fds,
           NEW kind \in ReplyKinds, NEW line \in Frames,
           NEW body \in (Conn \X Nat) \cup {Garbage}, NEW who \in Seq(AnyName)
    PROVE  Out(u, kind, v, line, body, who) \in Outs
<1>1. fds[v.sock] \in Conn
  BY TableFacts
<1>2. u.key \in Conn /\ v.name \in AnyName
  BY DEF Users, AnyName
<1> QED BY <1>1, <1>2 DEF Out, Outs

--------------------------------------------------------------------------------
(* Steps, grouped by what they leave alone *)

\* The client's own steps change its phase, and append to or consume queues.
LEMMA ClientStep ==
    ASSUME IInv, UNCHANGED <<serverVars, uname, backlog, heard>>, caUp' \in BOOLEAN,
           phase' \in [Conn -> Phases], \A c \in Conn : phase[c] # "idle" => phase'[c] # "idle",
           sent' \in [Conn -> Nat], writing' \subseteq Conn, inq' \in [Conn -> Seq(Frames)], outq' \in [Conn -> Seq(Greetings)]
    PROVE  Table'
<1> USE DEF serverVars
<1>1. TypeOK'
  BY DEF IInv, Table, TypeOK, Greetings
<1>2. UniqueNames'
  BY DEF IInv, Table, UniqueNames
<1>3. Wired'
  BY DEF IInv, Table, Wired, Socks, Handshake
<1>4. Queued'
  <2>1. \A i \in DOMAIN backlog : backlog[i] \in Conn
    BY ElementOfSeq, LenProperties DEF IInv, Table, TypeOK
  <2>2. \A f \in DOMAIN fds : fds[f] \in Conn
    BY TableFacts
  <2> QED BY <2>1, <2>2 DEF IInv, Table, Queued
<1> QED BY <1>1, <1>2, <1>3, <1>4 DEF Table

\* A registration goes on, or the process ends in it: only queues and the place change.
LEMMA HandshakeStep ==
    ASSUME IInv, pc \in Handshake, pc' \in Handshake \cup {"dead"},
           UNCHANGED <<idx, cur, readfds, served, users, fds, stale, caUp, clientVars, backlog, heard>>,
           inq' \in [Conn -> Seq(Frames)], outq' \in [Conn -> Seq(Greetings)]
    PROVE  Table'
<1> USE DEF clientVars
<1>1. TypeOK'
  BY DEF IInv, Table, TypeOK, Greetings, Handshake, Places
<1>2. UniqueNames'
  BY DEF IInv, Table, UniqueNames
<1>3. Wired'
  BY DEF IInv, Table, Wired, Socks, Handshake
<1>4. Queued'
  BY DEF IInv, Table, Queued, Handshake
<1> QED BY <1>1, <1>2, <1>3, <1>4 DEF Table

\* A registration is given up.
LEMMA DropStep ==
    ASSUME IInv, pc \in Handshake, Drop,
           inq' \in [Conn -> Seq(Frames)], outq' \in [Conn -> Seq(Greetings)]
    PROVE  Table'
<1> USE DEF Drop, clientVars
<1>0. pc' \in {"scan", "dead"}
  BY DEF Goto
<1>1. /\ DOMAIN fds' = DOMAIN fds \ {cur}
      /\ \A f \in DOMAIN fds' : fds'[f] = fds[f] /\ f \in DOMAIN fds
      /\ fds' = [f \in DOMAIN fds' |-> fds'[f]]
  BY DEF Close
<1>2. fds' \in [DOMAIN fds' -> Conn] /\ DOMAIN fds' \subseteq Fd
  BY <1>1, TableFacts
<1>3. TypeOK'
  BY <1>0, <1>2 DEF IInv, Table, TypeOK, Greetings, Places
<1>4. UniqueNames'
  BY DEF IInv, Table, UniqueNames
<1>5. Wired'
  <2>1. cur \notin Socks /\ cur \in DOMAIN fds /\ cur # NoFd /\ pc # "dead"
    BY HandshakeFacts DEF Handshake
  <2>2. \A i \in DOMAIN users : users[i].sock \in Socks
    BY DEF Socks
  <2>3. \A i \in DOMAIN users : users[i].sock \in DOMAIN fds' /\ fds'[users[i].sock] = fds[users[i].sock]
    BY <2>1, <2>2, <1>1 DEF IInv, Table, Wired
  <2>4. Socks' = Socks /\ DOMAIN fds' = Socks
    BY <2>1, <1>1 DEF IInv, Table, Wired, Socks
  <2>5. \A f, g \in DOMAIN fds' : fds'[f] = fds'[g] => f = g
    BY <2>1, <1>1 DEF IInv, Table, Wired
  <2>6. NoFd \notin Socks
    BY <1>2, <2>4, FdAssumption
  <2>7. /\ \A i \in DOMAIN users' :
             /\ users'[i].sock \in DOMAIN fds'
             /\ users'[i].key = fds'[users'[i].sock]
             /\ users'[i].name = uname'[fds'[users'[i].sock]]
        /\ \A i, j \in DOMAIN users' : users'[i].sock = users'[j].sock => i = j
    BY <2>3 DEF IInv, Table, Wired
  <2> QED BY <2>4, <2>5, <2>6, <2>7, <1>0 DEF Wired, Handshake
<1>6. Queued'
  BY <1>0, <1>1 DEF IInv, Table, Queued
<1> QED BY <1>3, <1>4, <1>5, <1>6 DEF Table

\* A handler of the scan changes at most chat_with of an entry, and writes frames.
LEMMA ServedStep ==
    ASSUME IInv, Turn, Read, Done, users' \in Seq(Users), Same(users', users),
           heard' \in [Conn -> Seq(Outs)], stale' \subseteq Conn \X Nat
    PROVE  Table'
<1> USE DEF Done, clientVars
<1>0. /\ pc' \in {"scan", "dead"} /\ pc = "scan" /\ Peer \in Conn /\ idx \in 1..Len(users)
      /\ users[idx] \in Users
  BY TurnFacts DEF Goto, Overrun
<1>1. TypeOK'
  <2>1. inq' \in [Conn -> Seq(Frames)]
    BY <1>0, ConsumeType DEF Read
  <2>2. served' \subseteq Fd
    BY <1>0 DEF Read, Users, IInv, Table, TypeOK
  <2>3. idx' \in Nat \ {0}
    BY <1>0
  <2> QED BY <1>0, <2>1, <2>2, <2>3 DEF IInv, Table, TypeOK, Places
<1>2. DOMAIN users' = 1..Len(users) /\ DOMAIN users = 1..Len(users)
  BY LenProperties, TableFacts DEF Same
<1>3. UniqueNames'
  BY <1>2 DEF IInv, Table, UniqueNames, Same
<1>4. Socks' = Socks
  BY <1>2 DEF Socks, Same
<1>5. Wired'
  BY <1>0, <1>2, <1>4 DEF IInv, Table, Wired, Same, Handshake
<1>6. Queued'
  BY <1>0 DEF IInv, Table, Queued
<1> QED BY <1>1, <1>3, <1>5, <1>6 DEF Table

\* service_quit: the table, the descriptors and the names shrink together.
LEMMA QuitStep ==
    ASSUME IInv, Turn, Quit, served' \subseteq Fd, inq' \in [Conn -> Seq(Frames)]
    PROVE  Table'
<1> USE DEF Quit, QuitAt, clientVars
<1> DEFINE n == Len(users)
           old(k) == IF k < idx THEN k ELSE k + 1
<1>0. /\ pc' \in {"scan", "dead"} /\ pc = "scan" /\ idx \in 1..n /\ n \in Nat
      /\ users \in Seq(Users) /\ DOMAIN users = 1..n
  BY TurnFacts, TableFacts DEF IInv, Table, TypeOK
<1>1. /\ users' \in Seq(Users) /\ Len(users') = n - 1
      /\ \A k \in 1..(n - 1) : users'[k] = IF k < idx THEN users[k] ELSE users[k + 1]
  BY <1>0, RemoveAtProperties
<1>2. DOMAIN users' = 1..(n - 1)
  BY <1>1, LenProperties
<1>3. \A k \in 1..(n - 1) : users'[k] = users[old(k)] /\ old(k) \in (1..n) \ {idx}
  BY <1>0, <1>1
<1>4. \A k, l \in 1..(n - 1) : old(k) = old(l) => k = l
  BY <1>0
<1>5. \A m \in (1..n) \ {idx} : \E k \in 1..(n - 1) : old(k) = m
  <2> TAKE m \in (1..n) \ {idx}
  <2>1. CASE m < idx
    BY <2>1, <1>0
  <2>2. CASE m > idx
    <3>1. m - 1 \in 1..(n - 1) /\ old(m - 1) = m
      BY <2>2, <1>0
    <3> QED BY <3>1
  <2> QED BY <2>1, <2>2, <1>0
<1> HIDE DEF old
<1>6. /\ DOMAIN fds' = DOMAIN fds \ {users[idx].sock}
      /\ \A f \in DOMAIN fds' : fds'[f] = fds[f] /\ f \in DOMAIN fds
      /\ fds' = [f \in DOMAIN fds' |-> fds'[f]]
  BY DEF Close
<1>7. fds' \in [DOMAIN fds' -> Conn] /\ DOMAIN fds' \subseteq Fd
  BY <1>6, TableFacts
<1>8. TypeOK'
  BY <1>0, <1>1, <1>7 DEF IInv, Table, TypeOK, Places
<1>9. UniqueNames'
  <2>1. \A k, l \in 1..(n - 1) : users'[k].name = users'[l].name => k = l
    BY <1>0, <1>3, <1>4 DEF IInv, Table, UniqueNames
  <2>2. n <= MaxUsers
    BY DEF IInv, Table, UniqueNames
  <2>3. MaxUsers \in Nat
    BY SizeAssumption
  <2>4. Len(users') <= MaxUsers
    BY <2>2, <2>3, <1>0, <1>1
  <2> QED BY <2>1, <2>4, <1>2 DEF UniqueNames
<1>10. Wired'
  <2>1. \A k \in 1..(n - 1) : users'[k].sock # users[idx].sock
    BY <1>0, <1>3 DEF IInv, Table, Wired
  <2>2. \A k, l \in 1..(n - 1) : users'[k].sock = users'[l].sock => k = l
    BY <1>0, <1>3, <1>4 DEF IInv, Table, Wired
  <2>3. \A k \in 1..(n - 1) :
          /\ users'[k].sock \in DOMAIN fds'
          /\ users'[k].key = fds'[users'[k].sock]
          /\ users'[k].name = uname'[fds'[users'[k].sock]]
    <3> TAKE k \in 1..(n - 1)
    <3>1. old(k) \in 1..n /\ users'[k] = users[old(k)]
      BY <1>3
    <3>2. users[old(k)].sock \in DOMAIN fds'
      BY <3>1, <2>1, <1>0, <1>6 DEF IInv, Table, Wired
    <3> QED BY <3>1, <3>2, <1>0, <1>6 DEF IInv, Table, Wired
  <2>4. Socks' = Socks \ {users[idx].sock}
    <3>1. \A k \in 1..(n - 1) : users'[k].sock \in Socks \ {users[idx].sock}
      BY <2>1, <1>3, <1>0 DEF Socks
    <3>2. \A m \in (1..n) \ {idx} : \E k \in 1..(n - 1) : users'[k].sock = users[m].sock
      BY <1>3, <1>5
    <3>3. Socks' = {users'[k].sock : k \in 1..(n - 1)} /\ Socks = {users[m].sock : m \in 1..n}
      BY <1>0, <1>2 DEF Socks
    <3>4. Socks' \subseteq Socks \ {users[idx].sock}
      BY <3>1, <3>3
    <3>5. Socks \ {users[idx].sock} \subseteq Socks'
      BY <3>2, <3>3
    <3> QED BY <3>4, <3>5
  <2>5. cur = NoFd /\ DOMAIN fds = Socks
    BY <1>0, ScanFacts DEF Handshake
  <2>6. \A f, g \in DOMAIN fds' : fds'[f] = fds'[g] => f = g
    BY <1>0, <1>6 DEF IInv, Table, Wired
  <2>7. NoFd \notin Socks
    BY <2>5, TableFacts, FdAssumption
  <2>8. DOMAIN fds' = Socks'
    BY <2>4, <2>5, <1>6
  <2> QED BY <1>0, <1>2, <2>2, <2>3, <2>4, <2>5, <2>6, <2>7, <2>8, SMTT(30) DEF Wired, Handshake
<1>11. Queued'
  BY <1>0, <1>6 DEF IInv, Table, Queued
<1> QED BY <1>8, <1>9, <1>10, <1>11 DEF Table

\* accept() takes the first waiting connection and a descriptor that is free.
LEMMA AcceptStep ==
    ASSUME IInv, Accept
    PROVE  Table'
<1> USE DEF Accept, clientVars
<1> DEFINE h == Head(backlog)
<1>0. /\ pc = "accept" /\ pc' \in {"challenge", "dead"} /\ backlog \in Seq(Conn) /\ backlog # <<>>
      /\ h \in Conn /\ Tail(backlog) \in Seq(Conn) /\ Len(Tail(backlog)) = Len(backlog) - 1
      /\ \A k \in 1..(Len(backlog) - 1) : Tail(backlog)[k] = backlog[k + 1]
      /\ Len(backlog) \in Nat /\ DOMAIN backlog = 1..Len(backlog)
      /\ DOMAIN Tail(backlog) = 1..(Len(backlog) - 1)
  <2>1. pc = "accept" /\ pc' \in {"challenge", "dead"} /\ backlog \in Seq(Conn) /\ backlog # <<>>
    BY DEF Goto, IInv, Table, TypeOK, Queued
  <2>2. Tail(backlog) \in Seq(Conn)
    BY <2>1, HeadTailProperties
  <2> QED BY <2>1, <2>2, HeadTailProperties, LenProperties
<1>1. h = backlog[1] /\ 1 \in 1..Len(backlog)
  BY <1>0, EmptySeq
<1> HIDE DEF h
<1>2. PICK fd \in Fd \ DOMAIN fds :
        fds' = [f \in DOMAIN fds \cup {fd} |-> IF f = fd THEN h ELSE fds[f]] /\ cur' = fd
  BY DEF h
<1>3. /\ DOMAIN fds' = DOMAIN fds \cup {fd} /\ fds'[fd] = h
      /\ \A f \in DOMAIN fds : fds'[f] = fds[f]
      /\ fds' = [f \in DOMAIN fds' |-> fds'[f]]
  BY <1>2
<1>4. /\ fds' \in [DOMAIN fds' -> Conn] /\ DOMAIN fds' \subseteq Fd
      /\ cur' \in Fd /\ cur' # NoFd
  BY <1>0, <1>2, <1>3, TableFacts, FdAssumption
<1>5. cur = NoFd /\ DOMAIN fds = Socks
  BY <1>0, ScanFacts DEF Handshake
<1>6. TypeOK'
  <2>1. <<"cert">> \in Seq(Greetings)
    BY DEF Greetings
  <2>2. outq' \in [Conn -> Seq(Greetings)]
    BY <2>1, <1>0, SendType DEF h
  <2>3. backlog' \in Seq(Conn)
    BY <1>0
  <2> QED BY <1>0, <1>4, <2>2, <2>3 DEF IInv, Table, TypeOK, Places, Greetings
<1>7. UniqueNames'
  BY DEF IInv, Table, UniqueNames
<1>8. \A f \in DOMAIN fds : fds[f] # h
  BY <1>0, <1>1 DEF IInv, Table, Queued
<1>9. Wired'
  <2>1. \A f, g \in DOMAIN fds' : fds'[f] = fds'[g] => f = g
    BY <1>0, <1>3, <1>8 DEF IInv, Table, Wired
  <2>2. /\ Socks' = Socks /\ DOMAIN fds' = Socks \cup ({cur'} \ {NoFd}) /\ cur' \notin Socks
    BY <1>2, <1>3, <1>4, <1>5 DEF Socks
  <2>3. /\ \A i \in DOMAIN users' :
             /\ users'[i].sock \in DOMAIN fds'
             /\ users'[i].key = fds'[users'[i].sock]
             /\ users'[i].name = uname'[fds'[users'[i].sock]]
        /\ \A i, j \in DOMAIN users' : users'[i].sock = users'[j].sock => i = j
    BY <1>3 DEF IInv, Table, Wired
  <2> QED BY <2>1, <2>2, <2>3, <1>0, <1>4 DEF Wired, Handshake
<1>10. Queued'
  <2>1. \A i \in 1..(Len(backlog) - 1) : backlog'[i] = backlog[i + 1] /\ i + 1 \in DOMAIN backlog
    BY <1>0
  <2>2. DOMAIN backlog' = 1..(Len(backlog) - 1)
    BY <1>0
  <2>3. \A i \in DOMAIN backlog' : backlog'[i] # h /\ phase'[backlog'[i]] # "idle"
    <3> TAKE i \in DOMAIN backlog'
    <3>1. i + 1 # 1 /\ backlog'[i] = backlog[i + 1] /\ i + 1 \in DOMAIN backlog
      BY <2>1, <2>2, <1>0
    <3> QED BY <3>1, <1>0, <1>1 DEF IInv, Table, Queued
  <2>4. \A i, j \in DOMAIN backlog' : backlog'[i] = backlog'[j] => i = j
    <3> TAKE i, j \in DOMAIN backlog'
    <3>1. backlog'[i] = backlog'[j] => i + 1 = j + 1
      BY <2>1, <2>2 DEF IInv, Table, Queued
    <3> QED BY <3>1, <2>2, <1>0
  <2>5. phase'[h] # "idle"
    BY <1>0, <1>1 DEF IInv, Table, Queued
  <2>6. \A f \in DOMAIN fds' : phase'[fds'[f]] # "idle"
    BY <2>5, <1>3 DEF IInv, Table, Queued
  <2>7. \A i \in DOMAIN backlog', f \in DOMAIN fds' : backlog'[i] # fds'[f]
    BY <2>1, <2>2, <2>3, <1>3 DEF IInv, Table, Queued
  <2> QED BY <2>3, <2>4, <2>6, <2>7, <1>0 DEF Queued
<1> QED BY <1>6, <1>7, <1>9, <1>10 DEF Table

\* A new entry: its name is not in the table, its descriptor is in no other entry.
LEMMA RegisterStep ==
    ASSUME IInv, Register
    PROVE  Table'
<1> DEFINE c == fds[cur]
<1>1. PICK n \in Name :
        /\ Naming(c, n) /\ FindUser(users, n) = 0 /\ Len(users) < MaxUsers
        /\ users' = Append(users, [name |-> n, sock |-> cur, chat_with |-> NoName, key |-> c])
        /\ SendTo(c, <<"ok">>)
  BY DEF Register
<1>2. /\ pc = "name" /\ pc' \in {"scan", "dead"} /\ users \in Seq(Users) /\ cur' = NoFd /\ idx' = 1
      /\ UNCHANGED <<readfds, served, fds, stale, caUp, phase, uname, sent, writing, backlog, heard>>
  BY <1>1 DEF Register, clientVars, Naming, Goto, IInv, Table, TypeOK
<1>3. cur \in DOMAIN fds /\ cur \in Fd /\ c \in Conn /\ cur \notin Socks /\ cur # NoFd
  BY <1>2, HandshakeFacts, TableFacts DEF Handshake
<1> DEFINE new == [name |-> n, sock |-> cur, chat_with |-> NoName, key |-> c]
           m == Len(users)
<1>4. new \in Users
  BY <1>3 DEF Users, AnyName
<1>5. /\ users' \in Seq(Users) /\ Len(users') = m + 1 /\ users'[m + 1] = new
      /\ \A i \in 1..m : users'[i] = users[i]
  BY <1>1, <1>2, <1>4, AppendProperties
<1>6. m \in Nat /\ DOMAIN users = 1..m /\ DOMAIN users' = 1..(m + 1)
  BY <1>5, LenProperties, TableFacts
<1>7. /\ Len(users') = m + 1 /\ users'[m + 1].name = n /\ users'[m + 1].sock = cur
      /\ users'[m + 1].key = c
  BY <1>5
<1> HIDE DEF new, m
<1>8. inq' \in [Conn -> Seq(Frames)] /\ outq' \in [Conn -> Seq(Greetings)]
  <2>1. <<"ok">> \in Seq(Greetings)
    BY DEF Greetings
  <2> QED BY <2>1, <1>1, <1>3, ConsumeType, SendType DEF Naming
<1>9. TypeOK'
  BY <1>2, <1>5, <1>8 DEF IInv, Table, TypeOK, Places, Greetings
<1>10. UniqueNames'
  <2>1. \A j \in 1..m : users[j].name # n
    BY <1>1, <1>2, <1>6, TableFacts, FindUserProperties DEF m
  <2>2. \A i, j \in 1..(m + 1) : users'[i].name = users'[j].name => i = j
    BY <2>1, <1>5, <1>6, <1>7 DEF IInv, Table, UniqueNames
  <2>3. MaxUsers \in Nat
    BY SizeAssumption
  <2>4. Len(users') <= MaxUsers
    BY <2>3, <1>1, <1>6, <1>7 DEF m
  <2> QED BY <2>2, <2>4, <1>6 DEF UniqueNames
<1>11. Wired'
  <2>1. n = uname[c]
    <3>1. inq[c] # <<>> /\ n = Head(inq[c]).to
      BY <1>1 DEF Naming
    <3>2. inq[c] = <<Frame("name", uname[c], 0)>>
      BY <1>2, <3>1 DEF IInv, InStep, Expected, At, Handshake
    <3> QED BY <3>1, <3>2 DEF Frame
  <2>2. Socks' = Socks \cup {cur}
    <3>1. Socks = {users[i].sock : i \in 1..m} /\ Socks' = {users'[i].sock : i \in 1..(m + 1)}
      BY <1>6 DEF Socks
    <3> QED BY <3>1, <1>5, <1>6, <1>7
  <2>3. DOMAIN fds = Socks \cup {cur} /\ pc # "dead"
    BY <1>2, <1>3 DEF IInv, Table, Wired
  <2>4. \A i \in 1..m : users[i].sock # cur /\ users'[i] = users[i]
    BY <1>3, <1>5, <1>6 DEF Socks
  <2>5. \A i, j \in 1..(m + 1) : users'[i].sock = users'[j].sock => i = j
    BY <2>4, <1>6, <1>7 DEF IInv, Table, Wired
  <2>6. \A i \in 1..(m + 1) :
          /\ users'[i].sock \in DOMAIN fds
          /\ users'[i].key = fds[users'[i].sock]
          /\ users'[i].name = uname[fds[users'[i].sock]]
    <3> TAKE i \in 1..(m + 1)
    <3>1. CASE i = m + 1
      BY <3>1, <2>1, <1>3, <1>7
    <3>2. CASE i # m + 1
      <4>1. i \in 1..m
        BY <3>2, <1>6
      <4> QED BY <4>1, <2>4, <1>6 DEF IInv, Table, Wired
    <3> QED BY <3>1, <3>2
  <2>7. \A f, g \in DOMAIN fds : fds[f] = fds[g] => f = g
    BY <2>3 DEF IInv, Table, Wired
  <2>8. NoFd \notin Socks \cup {cur}
    BY <2>3, TableFacts, FdAssumption
  <2> QED BY <2>2, <2>3, <2>5, <2>6, <2>7, <2>8, <1>2, <1>6 DEF Wired, Handshake
<1>12. Queued'
  BY <1>2 DEF IInv, Table, Queued
<1> QED BY <1>9, <1>10, <1>11, <1>12 DEF Table

--------------------------------------------------------------------------------
(* The handlers of the scan *)

LEMMA LineType ==
    ASSUME IInv, Turn, Read
    PROVE  Line \in Frames /\ Id \in Conn \X Nat
<1>1. Peer \in Conn /\ Line \in Frames
  BY TurnFacts, ConsumeType DEF Read, Line
<1>2. Line.k \in Nat
  BY <1>1 DEF Frames
<1> QED BY <1>1, <1>2 DEF Id

LEMMA AnswerType ==
    ASSUME IInv, Turn, Line \in Frames, NEW h \in [Conn -> Seq(Outs)],
           NEW kind \in ReplyKinds, NEW who \in Seq(AnyName)
    PROVE  Answer(h, kind, who) \in [Conn -> Seq(Outs)]
<1>1. users[idx] \in Users /\ users[idx].sock \in DOMAIN fds /\ fds[users[idx].sock] \in Conn
  BY TurnFacts, TableFacts
<1>2. Out(users[idx], kind, users[idx], Line, Garbage, who) \in Outs
  BY <1>1, OutType
<1> QED BY <1>1, <1>2, PutType DEF Answer

\* Selecting keeps the entries; the table stays a table.
LEMMA WithChatType ==
    ASSUME IInv, Turn, NEW n \in AnyName
    PROVE  WithChat(n) \in Seq(Users) /\ Same(WithChat(n), users)
<1> DEFINE new == [users[idx] EXCEPT !.chat_with = n]
<1>0. users \in Seq(Users) /\ idx \in 1..Len(users) /\ users[idx] \in Users
  BY TurnFacts DEF IInv, Table, TypeOK
<1>1. /\ new \in Users /\ new.name = users[idx].name /\ new.sock = users[idx].sock
      /\ new.key = users[idx].key
  BY <1>0 DEF Users
<1>2. WithChat(n) \in {users, [users EXCEPT ![idx] = new]}
  BY DEF WithChat
<1> HIDE DEF new
<1>3. /\ [users EXCEPT ![idx] = new] \in Seq(Users)
      /\ Len([users EXCEPT ![idx] = new]) = Len(users)
      /\ \A j \in 1..Len(users) : [users EXCEPT ![idx] = new][j] = IF j = idx THEN new ELSE users[j]
  BY <1>0, <1>1, ExceptSeq
<1>4. Same([users EXCEPT ![idx] = new], users)
  BY <1>1, <1>3 DEF Same
<1>5. Same(users, users)
  BY DEF Same
<1> QED BY <1>0, <1>2, <1>3, <1>4, <1>5

\* service_message keeps the entries and writes one well-formed frame.
LEMMA MessageType ==
    ASSUME IInv, Turn, Line \in Frames, NEW us \in Seq(Users), Same(us, users),
           NEW h \in [Conn -> Seq(Outs)], NEW body \in (Conn \X Nat) \cup {Garbage},
           Message(us, h, body)
    PROVE  users' \in Seq(Users) /\ Same(users', users) /\ heard' \in [Conn -> Seq(Outs)]
<1> DEFINE u == us[idx]
           j == FindUser(us, u.chat_with)
           new == [u EXCEPT !.chat_with = NoName]
<1>0. /\ idx \in 1..Len(us) /\ Len(us) = Len(users) /\ Len(us) \in Nat
      /\ u \in Users /\ u.sock \in DOMAIN fds
  BY TurnFacts, TableFacts, ElementOfSeq DEF Same
<1>1. Distinct(us)
  BY TableFacts DEF Distinct, Same
<1>2. j \in 0..Len(us)
  BY <1>1, FindUserProperties
<1>3. <<>> \in Seq(AnyName)
  BY EmptySeq
<1>4. CASE u.chat_with = NoName /\ users' = us /\ heard' = Answer(h, "nochat", <<>>)
  BY <1>3, <1>4, AnswerType DEF ReplyKinds
<1>5. CASE /\ u.chat_with # NoName /\ j # 0 /\ users' = us
           /\ heard' = Put(h, us[j], Out(us[j], "msg", u, Line, body, <<>>))
  <2>1. us[j] \in Users /\ us[j].sock \in DOMAIN fds /\ fds[us[j].sock] \in Conn
    BY <1>0, <1>2, <1>5, ElementOfSeq, TableFacts DEF Same
  <2>2. Out(us[j], "msg", u, Line, body, <<>>) \in Outs
    BY <1>0, <1>3, <2>1, OutType DEF ReplyKinds
  <2> QED BY <1>5, <2>1, <2>2, PutType
<1>6. CASE /\ users' = [us EXCEPT ![idx].chat_with = NoName]
           /\ heard' = Answer(h, "nolonger", <<>>)
  <2>1. heard' \in [Conn -> Seq(Outs)]
    BY <1>3, <1>6, AnswerType DEF ReplyKinds
  <2>2. /\ new \in Users /\ new.name = u.name /\ new.sock = u.sock /\ new.key = u.key
        /\ users' = [us EXCEPT ![idx] = new]
    BY <1>0, <1>6 DEF Users, AnyName
  <2> HIDE DEF new
  <2>3. /\ users' \in Seq(Users) /\ Len(users') = Len(us)
        /\ \A i \in 1..Len(us) : users'[i] = IF i = idx THEN new ELSE us[i]
    BY <1>0, <2>2, ExceptSeq
  <2> QED BY <1>0, <2>1, <2>2, <2>3 DEF Same
<1> QED BY <1>4, <1>5, <1>6 DEF Message

LEMMA NotFoundType ==
    ASSUME IInv, Turn, Line \in Frames, NEW n, NEW found \in [Conn -> Seq(Outs)]
    PROVE  NotFound(n, found) \in [Conn -> Seq(Outs)]
<1>1. <<>> \in Seq(AnyName) /\ heard \in [Conn -> Seq(Outs)]
  BY EmptySeq DEF IInv, Table, TypeOK
<1>2. Answer(heard, "nouser", <<>>) \in [Conn -> Seq(Outs)]
  BY <1>1, AnswerType DEF ReplyKinds
<1> QED BY <1>2 DEF NotFound

\* A handler keeps the entries up to chat_with, and writes well-formed frames.
LEMMA TableKept ==
    ASSUME IInv, ServeWho \/ ServeChat \/ ServeText \/ ServeAt \/ ServeBareAt
    PROVE  /\ users' \in Seq(Users) /\ Same(users', users)
           /\ heard' \in [Conn -> Seq(Outs)] /\ stale' \subseteq Conn \X Nat
<1>1. Turn /\ Read /\ Done
  BY DEF ServeWho, ServeChat, ServeText, ServeAt, ServeBareAt, Command
<1>2. /\ Line \in Frames /\ Id \in Conn \X Nat /\ Line.to \in AnyName
      /\ heard \in [Conn -> Seq(Outs)] /\ stale \subseteq Conn \X Nat
      /\ users \in Seq(Users) /\ Same(users, users) /\ <<>> \in Seq(AnyName)
  BY <1>1, LineType, EmptySeq DEF IInv, Table, TypeOK, Frames, Same
<1>3. WithChat(Line.to) \in Seq(Users) /\ Same(WithChat(Line.to), users)
  BY <1>1, <1>2, WithChatType
<1>4. NotFound(Line.to, heard) \in [Conn -> Seq(Outs)]
  BY <1>1, <1>2, NotFoundType
<1>5. CASE ServeWho
  <2>1. [i \in DOMAIN users |-> users[i].name] \in Seq(AnyName)
    <3>1. \A i \in 1..Len(users) : users[i].name \in AnyName
      BY TableFacts DEF Users, AnyName
    <3> QED BY <3>1, TableFacts
  <2>2. heard' \in [Conn -> Seq(Outs)]
    BY <1>1, <1>2, <1>5, <2>1, AnswerType DEF ServeWho, ReplyKinds
  <2> QED BY <1>1, <1>2, <1>5, <2>2 DEF ServeWho
<1>6. CASE ServeChat
  <2>1. Answer(heard, "nowchatting", <<>>) \in [Conn -> Seq(Outs)]
    BY <1>1, <1>2, AnswerType DEF ReplyKinds
  <2>2. heard' \in [Conn -> Seq(Outs)]
    BY <1>1, <1>2, <1>6, <2>1, NotFoundType DEF ServeChat
  <2> QED BY <1>1, <1>2, <1>3, <1>6, <2>2 DEF ServeChat
<1>7. CASE ServeText
  <2>1. Message(users, heard, Id) /\ stale' = stale \cup {Id}
    BY <1>7 DEF ServeText
  <2>2. users' \in Seq(Users) /\ Same(users', users) /\ heard' \in [Conn -> Seq(Outs)]
    BY <1>1, <1>2, <2>1, MessageType
  <2> QED BY <1>1, <1>2, <2>1, <2>2
<1>8. CASE ServeAt
  <2>1. Message(WithChat(Line.to), NotFound(Line.to, heard), Id) /\ stale' = stale \cup {Id}
    BY <1>8 DEF ServeAt
  <2>2. users' \in Seq(Users) /\ Same(users', users) /\ heard' \in [Conn -> Seq(Outs)]
    BY <1>1, <1>2, <1>3, <1>4, <2>1, MessageType
  <2> QED BY <1>1, <1>2, <2>1, <2>2
<1>9. CASE ServeBareAt
  <2>1. PICK body \in stale \cup {Garbage} : Message(WithChat(Line.to), NotFound(Line.to, heard), body)
    BY <1>9 DEF ServeBareAt
  <2>2. users' \in Seq(Users) /\ Same(users', users) /\ heard' \in [Conn -> Seq(Outs)]
    BY <1>1, <1>2, <1>3, <1>4, <2>1, MessageType
  <2>3. stale' = stale
    BY <1>9 DEF ServeBareAt
  <2> QED BY <1>1, <1>2, <2>2, <2>3
<1> QED BY <1>5, <1>6, <1>7, <1>8, <1>9

\* Every handler that leaves its user in the table.
LEMMA HandlerStep ==
    ASSUME IInv, ServeWho \/ ServeChat \/ ServeText \/ ServeAt \/ ServeBareAt
    PROVE  Table'
<1>1. Turn /\ Read /\ Done
  BY DEF ServeWho, ServeChat, ServeText, ServeAt, ServeBareAt, Command
<1> QED BY <1>1, TableKept, ServedStep

--------------------------------------------------------------------------------
(* Every step keeps the table *)

\* Between two rounds, and where the scan has nothing to read, only the place moves.
LEMMA RoundStep ==
    ASSUME IInv, Select \/ EndScan \/ Skip
    PROVE  Table'
<1> USE DEF clientVars, netVars
<1>0. /\ UNCHANGED <<cur, users, fds, stale, caUp, phase, uname, sent, writing, backlog, inq, outq, heard>>
      /\ pc \in {"select", "scan"} /\ pc' \in {"accept", "select", "scan"}
      /\ pc' = "accept" => backlog # <<>>
  BY DEF Select, EndScan, Skip
<1>1. Socks \subseteq Fd
  BY TableFacts
<1>2. idx' \in Nat \ {0} /\ readfds' \subseteq Fd /\ served' \subseteq Fd
  <2>1. idx \in Nat \ {0} /\ readfds \subseteq Fd /\ served \subseteq Fd
    BY DEF IInv, Table, TypeOK
  <2>2. Ready \subseteq Fd
    BY <1>1 DEF Ready
  <2> QED BY <2>1, <2>2 DEF Select, EndScan, Skip
<1>3. TypeOK'
  BY <1>0, <1>2 DEF IInv, Table, TypeOK, Places
<1>4. UniqueNames'
  BY <1>0 DEF IInv, Table, UniqueNames
<1>5. Wired'
  BY <1>0 DEF IInv, Table, Wired, Socks, Handshake
<1>6. Queued'
  BY <1>0 DEF IInv, Table, Queued
<1> QED BY <1>3, <1>4, <1>5, <1>6 DEF Table

\* The steps of the handshake and of the name loop.
LEMMA RegistrationStep ==
    ASSUME IInv, Challenge \/ Share \/ NameLost \/ NameTaken \/ ServerFull
    PROVE  Table'
<1> DEFINE c == fds[cur]
           typed == inq' \in [Conn -> Seq(Frames)] /\ outq' \in [Conn -> Seq(Greetings)]
<1>1. pc \in Handshake
  BY DEF Challenge, Share, NameLost, NameTaken, ServerFull, Naming, Handshake
<1>2. c \in Conn
  BY <1>1, HandshakeFacts
<1> HIDE DEF c
<1>3. inq \in [Conn -> Seq(Frames)] /\ outq \in [Conn -> Seq(Greetings)]
  BY DEF IInv, Table, TypeOK, Greetings
<1>4. \A ms \in Seq(Greetings) : SendTo(c, ms) => outq' \in [Conn -> Seq(Greetings)]
  BY <1>2, SendType
<1>5. Consume(c) => inq' \in [Conn -> Seq(Frames)]
  BY <1>2, ConsumeType
<1>6. /\ <<"sig", "share">> \in Seq(Greetings)
      /\ <<"taken">> \in Seq(Greetings) /\ <<"full">> \in Seq(Greetings)
  BY DEF Greetings
<1>7. CASE Challenge
  <2>1. typed
    BY <1>3, <1>4, <1>5, <1>6, <1>7 DEF Challenge, c
  <2>2. CASE Drop
    BY <1>1, <2>1, <2>2, DropStep
  <2>3. CASE /\ UNCHANGED <<idx, cur, readfds, served, users, fds, stale, caUp, clientVars, backlog, heard>>
             /\ Goto("share")
    BY <1>1, <2>1, <2>3, HandshakeStep DEF Goto, Handshake
  <2> QED BY <1>7, <2>2, <2>3 DEF Challenge
<1>8. CASE Share
  <2>1. typed
    BY <1>3, <1>5, <1>8, Zenon DEF Share, c
  <2>2. CASE Drop
    BY <1>1, <2>1, <2>2, DropStep
  <2>3. CASE /\ UNCHANGED <<idx, cur, readfds, served, users, fds, stale, caUp, clientVars, backlog, heard>>
             /\ pc' = "name"
    BY <1>1, <2>1, <2>3, HandshakeStep DEF Handshake
  <2> QED BY <1>8, <2>2, <2>3 DEF Share
<1>9. CASE NameLost
  <2>1. typed
    BY <1>3, <1>5, <1>9, Zenon DEF NameLost, Naming, Drop, c
  <2>2. CASE Drop
    BY <1>1, <2>1, <2>2, DropStep
  <2>3. CASE /\ UNCHANGED <<idx, cur, readfds, served, users, fds, stale, caUp, clientVars, backlog, heard>>
             /\ pc' = "dead"
    BY <1>1, <2>1, <2>3, HandshakeStep
  <2> QED BY <1>9, <2>2, <2>3 DEF NameLost
<1>10. CASE NameTaken
  <2>1. typed
    BY <1>4, <1>5, <1>6, <1>10 DEF NameTaken, Naming, c
  <2>2. /\ UNCHANGED <<idx, cur, readfds, served, users, fds, stale, caUp, clientVars, backlog, heard>>
        /\ Goto("name")
    BY <1>10 DEF NameTaken
  <2> QED BY <1>1, <2>1, <2>2, HandshakeStep DEF Goto, Handshake
<1>11. CASE ServerFull
  <2>1. typed /\ Drop
    BY <1>4, <1>5, <1>6, <1>11 DEF ServerFull, Naming, c
  <2> QED BY <1>1, <2>1, DropStep
<1> QED BY <1>7, <1>8, <1>9, <1>10, <1>11

\* A client run starts: it was nowhere before.
LEMMA ConnectStep ==
    ASSUME IInv, NEW c \in Conn, Connect(c)
    PROVE  Table'
<1> USE DEF serverVars
<1>1. PICK n \in Entered[c] : uname' = [uname EXCEPT ![c] = n]
  BY DEF Connect
<1>2. /\ phase[c] = "idle" /\ pc # "dead" /\ phase' = [phase EXCEPT ![c] = "cert"]
      /\ backlog' = Append(backlog, c) /\ backlog \in Seq(Conn) /\ n \in AnyName
      /\ UNCHANGED <<pc, idx, cur, readfds, served, users, fds, stale, caUp, sent, writing, inq, outq, heard>>
      /\ phase \in [Conn -> Phases] /\ uname \in [Conn -> AnyName]
  BY UserAssumption DEF Connect, IInv, Table, TypeOK
<1>3. /\ backlog' \in Seq(Conn) /\ Len(backlog') = Len(backlog) + 1 /\ backlog' # <<>>
      /\ \A i \in 1..Len(backlog) : backlog'[i] = backlog[i]
      /\ backlog'[Len(backlog) + 1] = c
  BY <1>2, AppendProperties
<1>4. /\ Len(backlog) \in Nat /\ DOMAIN backlog = 1..Len(backlog)
      /\ DOMAIN backlog' = 1..(Len(backlog) + 1)
      /\ \A i \in 1..Len(backlog) : backlog[i] \in Conn
  BY <1>2, <1>3, LenProperties, ElementOfSeq
<1>5. TypeOK'
  BY <1>1, <1>2, <1>3 DEF IInv, Table, TypeOK, Phases
<1>6. UniqueNames'
  BY <1>2 DEF IInv, Table, UniqueNames
<1>7. \A f \in DOMAIN fds : fds[f] # c /\ fds[f] \in Conn
  BY <1>2, TableFacts DEF IInv, Table, Queued
<1>8. Wired'
  <2>1. \A i \in DOMAIN users : users[i].sock \in DOMAIN fds
    BY DEF IInv, Table, Wired
  <2>2. \A i \in DOMAIN users : uname'[fds[users[i].sock]] = uname[fds[users[i].sock]]
    BY <2>1, <1>1, <1>2, <1>7
  <2> QED BY <2>2, <1>2 DEF IInv, Table, Wired, Socks, Handshake
<1>9. Queued'
  <2>1. \A i \in 1..Len(backlog) : backlog[i] # c
    BY <1>2, <1>4 DEF IInv, Table, Queued
  <2>2. \A i, j \in 1..(Len(backlog) + 1) : backlog'[i] = backlog'[j] => i = j
    BY <2>1, <1>3, <1>4 DEF IInv, Table, Queued
  <2>3. \A i \in 1..(Len(backlog) + 1) : phase'[backlog'[i]] # "idle"
    <3> TAKE i \in 1..(Len(backlog) + 1)
    <3>1. CASE i = Len(backlog) + 1
      BY <3>1, <1>2, <1>3
    <3>2. CASE i \in 1..Len(backlog)
      BY <3>2, <2>1, <1>2, <1>3, <1>4 DEF IInv, Table, Queued
    <3> QED BY <3>1, <3>2, <1>4
  <2>4. \A i \in 1..(Len(backlog) + 1), f \in DOMAIN fds : backlog'[i] # fds[f]
    BY <1>3, <1>4, <1>7 DEF IInv, Table, Queued
  <2>5. \A f \in DOMAIN fds : phase'[fds[f]] # "idle"
    BY <1>2, <1>7 DEF IInv, Table, Queued
  <2> QED BY <2>2, <2>3, <2>4, <2>5, <1>2, <1>3, <1>4 DEF Queued
<1> QED BY <1>5, <1>6, <1>8, <1>9 DEF Table

--------------------------------------------------------------------------------
(* Every step keeps the two ends of a handshake in step *)

\* Steps that end in no registration and touch the queues of one connection d at most.
LEMMA InStepElsewhere ==
    ASSUME IInv, pc' \notin Handshake, UNCHANGED <<phase, backlog>>,
           NEW d, d \in Conn => phase[d] # "idle" /\ \A i \in DOMAIN backlog : backlog[i] # d,
           \A c \in Conn : c # d => inq'[c] = inq[c] /\ outq'[c] = outq[c]
    PROVE  InStep'
<1>1. \A i \in DOMAIN backlog : backlog[i] \in Conn /\ backlog[i] # d
  BY ElementOfSeq, LenProperties, SMTT(30) DEF IInv, Table, TypeOK
<1>2. \A i \in DOMAIN backlog :
        inq'[backlog[i]] = inq[backlog[i]] /\ outq'[backlog[i]] = outq[backlog[i]]
  BY <1>1
<1> QED BY <1>2 DEF IInv, InStep

\* The server's steps within a registration; c is its client.
LEMMA InStepServer ==
    ASSUME IInv, NEW c \in Conn, pc \in Handshake, c = fds[cur],
           UNCHANGED <<phase, backlog, fds, cur>>,
           \A d \in Conn : d # c => inq'[d] = inq[d] /\ outq'[d] = outq[d],
           pc' \in Handshake => Expected(c)'
    PROVE  InStep'
<1>1. cur \in DOMAIN fds
  BY HandshakeFacts
<1>2. phase[c] # "idle" /\ \A i \in DOMAIN backlog : backlog[i] # c /\ backlog[i] \in Conn
  BY <1>1, ElementOfSeq, LenProperties DEF IInv, Table, Queued, TypeOK
<1>3. \A i \in DOMAIN backlog :
        inq'[backlog[i]] = inq[backlog[i]] /\ outq'[backlog[i]] = outq[backlog[i]]
  BY <1>2
<1>4. \A d \in Conn : phase'[d] = "idle" => inq'[d] = <<>> /\ outq'[d] = <<>>
  BY <1>2 DEF IInv, InStep
<1>5. pc' \in Handshake => Expected(fds[cur])'
  OBVIOUS
<1> QED BY <1>3, <1>4, <1>5 DEF IInv, InStep

\* A step of client c.
LEMMA InStepClient ==
    ASSUME IInv, NEW c \in Conn, UNCHANGED <<pc, fds, cur, backlog, uname>>,
           phase[c] # "idle", phase'[c] # "idle",
           \A d \in Conn : d # c => inq'[d] = inq[d] /\ outq'[d] = outq[d] /\ phase'[d] = phase[d],
           (\E i \in DOMAIN backlog : backlog[i] = c) =>
              phase'[c] = "gone" /\ inq'[c] = inq[c] /\ outq'[c] = outq[c],
           pc \in Handshake /\ c = fds[cur] => Expected(c)'
    PROVE  InStep'
<1>1. \A i \in DOMAIN backlog : backlog[i] \in Conn
  BY ElementOfSeq, LenProperties DEF IInv, Table, TypeOK
<1>2. \A d \in Conn : phase'[d] = "idle" => inq'[d] = <<>> /\ outq'[d] = <<>>
  BY DEF IInv, InStep
<1>3. \A i \in DOMAIN backlog' :
        /\ phase'[backlog'[i]] \in {"cert", "gone"}
        /\ inq'[backlog'[i]] = <<>> /\ outq'[backlog'[i]] = <<>>
  BY <1>1 DEF IInv, InStep
<1>4. ASSUME pc \in Handshake, c # fds[cur]
      PROVE  Expected(fds[cur])'
  <2>1. fds[cur] \in Conn
    BY <1>4, HandshakeFacts
  <2>2. Expected(fds[cur])
    BY <1>4 DEF IInv, InStep
  <2> QED BY <2>1, <2>2, <1>4 DEF Expected, At, Gone
<1>5. pc' \in Handshake => Expected(fds[cur])'
  BY <1>4
<1> QED BY <1>2, <1>3, <1>5 DEF InStep

LEMMA ServerInStep ==
    ASSUME IInv, ServerNext
    PROVE  InStep'
<1> USE DEF clientVars, netVars
<1>1. CASE Select \/ EndScan \/ Skip
  <2>1. pc' \notin Handshake /\ UNCHANGED <<phase, backlog, inq, outq>>
    BY <1>1 DEF Select, EndScan, Skip, Handshake
  <2> QED BY <2>1 DEF IInv, InStep
<1>2. CASE Accept
  <2>1. /\ backlog \in Seq(Conn) /\ backlog # <<>> /\ pc' \in {"challenge", "dead"}
        /\ phase' = phase /\ inq' = inq /\ fds'[cur'] = Head(backlog)
        /\ backlog' = Tail(backlog) /\ SendTo(Head(backlog), <<"cert">>)
    BY <1>2 DEF Accept, Goto, IInv, Table, TypeOK, Queued
  <2>2. /\ Head(backlog) = backlog[1] /\ 1 \in DOMAIN backlog /\ Head(backlog) \in Conn
        /\ \A i \in DOMAIN backlog' : backlog'[i] = backlog[i + 1] /\ i + 1 \in DOMAIN backlog /\ i + 1 # 1
        /\ \A i \in DOMAIN backlog : backlog[i] \in Conn
    <3>1. Tail(backlog) \in Seq(Conn) /\ Len(Tail(backlog)) = Len(backlog) - 1
      BY <2>1, HeadTailProperties
    <3>2. DOMAIN Tail(backlog) = 1..(Len(backlog) - 1) /\ DOMAIN backlog = 1..Len(backlog) /\ Len(backlog) \in Nat
      BY <2>1, <3>1, LenProperties
    <3>3. \A i \in 1..(Len(backlog) - 1) : Tail(backlog)[i] = backlog[i + 1]
      BY <2>1, <3>1, HeadTailProperties
    <3>4. Len(backlog) # 0
      BY <2>1, EmptySeq
    <3>5. Head(backlog) = backlog[1] /\ Head(backlog) \in Conn
      BY <2>1, HeadTailProperties
    <3>6. \A i \in DOMAIN backlog : backlog[i] \in Conn
      BY <2>1, <3>2, ElementOfSeq
    <3> QED BY <2>1, <3>2, <3>3, <3>4, <3>5, <3>6
  <2>0. PICK h \in Conn : h = Head(backlog)
    BY <2>2
  <2>3. /\ phase[h] \in {"cert", "gone"} /\ inq[h] = <<>> /\ outq[h] = <<>>
        /\ \A i \in DOMAIN backlog' : backlog'[i] # h
    BY <2>0, <2>2 DEF IInv, InStep, Table, Queued
  <2>4. outq'[h] = <<"cert">> /\ \A d \in Conn : d # h => outq'[d] = outq[d]
    <3>1. outq \in [Conn -> Seq(Greetings)] /\ <<"cert">> \in Seq(Greetings)
      BY DEF IInv, Table, TypeOK, Greetings
    <3>2. <<>> \o <<"cert">> = <<"cert">>
      BY <3>1, ConcatEmptySeq
    <3> QED BY <2>0, <2>1, <2>2, <2>3, <3>1, <3>2 DEF SendTo
  <2>5. \A d \in Conn : phase'[d] = "idle" => inq'[d] = <<>> /\ outq'[d] = <<>>
    BY <2>1, <2>3, <2>4 DEF IInv, InStep
  <2>6. \A i \in DOMAIN backlog' :
          /\ phase'[backlog'[i]] \in {"cert", "gone"}
          /\ inq'[backlog'[i]] = <<>> /\ outq'[backlog'[i]] = <<>>
    BY <2>1, <2>2, <2>3, <2>4 DEF IInv, InStep
  <2>7. pc' = "challenge" => Expected(h)'
    BY <2>1, <2>3, <2>4 DEF Expected, At
  <2>8. pc' \in Handshake => Expected(fds[cur])'
    BY <2>0, <2>1, <2>7 DEF Handshake
  <2> QED BY <2>5, <2>6, <2>8 DEF InStep
<1>3. ASSUME pc \in Handshake,
             Challenge \/ Share \/ NameLost \/ NameTaken \/ ServerFull \/ Register
      PROVE  InStep'
  <2>1. fds[cur] \in Conn /\ cur \in DOMAIN fds
    BY <1>3, HandshakeFacts
  <2>0. PICK c \in Conn : c = fds[cur]
    BY <2>1
  <2>2. inq \in [Conn -> Seq(Frames)] /\ outq \in [Conn -> Seq(Greetings)]
    BY DEF IInv, Table, TypeOK, Greetings
  <2>3. phase[c] # "idle" /\ \A i \in DOMAIN backlog : backlog[i] # c
    BY <2>0, <2>1 DEF IInv, Table, Queued
  <2>4. Expected(c)
    BY <1>3, <2>0 DEF IInv, InStep
  <2>5. UNCHANGED <<phase, uname, backlog>>
    BY <1>3 DEF Challenge, Share, NameLost, NameTaken, ServerFull, Register, Drop
  <2>6. (inq' = inq \/ Consume(c)) /\ (outq' = outq \/ \E ms \in Seq(Greetings) : SendTo(c, ms))
    <3>1. /\ <<"sig", "share">> \in Seq(Greetings) /\ <<"ok">> \in Seq(Greetings)
          /\ <<"taken">> \in Seq(Greetings) /\ <<"full">> \in Seq(Greetings)
      BY DEF Greetings
    <3> QED BY <1>3, <2>0, <3>1, Zenon
            DEF Challenge, Share, NameLost, NameTaken, ServerFull, Register, Naming, Drop
  <2>7. \A d \in Conn : d # c => inq'[d] = inq[d] /\ outq'[d] = outq[d]
    BY <2>2, <2>6 DEF Consume, SendTo
  <2>8. CASE pc' \notin Handshake
    BY <2>0, <2>1, <2>3, <2>5, <2>7, <2>8, InStepElsewhere
  <2>9. CASE pc' \in Handshake
    <3>1. UNCHANGED <<fds, cur>> /\ (\/ Challenge /\ pc' = "share" /\ ~Drop
                                     \/ Share /\ pc' = "name" /\ ~Drop
                                     \/ NameTaken /\ pc' = "name")
      BY <1>3, <2>9 DEF Challenge, Share, NameLost, NameTaken, ServerFull, Register, Drop,
                        Goto, Handshake
    <3>2. CASE Challenge /\ pc' = "share"
      <4>1. pc = "challenge" /\ SendTo(c, <<"sig", "share">>)
            /\ (Consume(c) \/ (EOF(c) /\ inq' = inq))
        BY <2>0, <3>2 DEF Challenge
      <4>2. CASE Consume(c)
        <5>1. inq[c] = <<Frame("challenge", NoName, 0)>> /\ phase[c] \in {"proof", "gone"} /\ outq[c] = <<>>
          BY <2>4, <4>1, <4>2 DEF Expected, At, Consume
        <5>2. inq'[c] = <<>> /\ outq'[c] = <<"sig", "share">>
          BY <2>0, <2>1, <2>2, <4>1, <4>2, <5>1 DEF Consume, SendTo
        <5> QED BY <3>1, <3>2, <5>1, <5>2, <2>0, <2>1, <2>5, <2>7, <1>3, InStepServer DEF Expected, At
      <4>3. CASE EOF(c) /\ inq' = inq
        <5>1. Expected(c)'
          BY <3>2, <4>3, <2>5 DEF EOF, Gone, Expected
        <5> QED BY <3>1, <5>1, <2>0, <2>1, <2>5, <2>7, <1>3, InStepServer
      <4> QED BY <4>1, <4>2, <4>3
    <3>3. CASE Share /\ pc' = "name" /\ ~Drop
      <4>1. pc = "share" /\ Consume(c) /\ outq' = outq
        BY <2>0, <3>3 DEF Share
      <4>2. \/ At(c, "share", <<"share">>, <<Frame("share", NoName, 0)>>)
            \/ At(c, "naming", <<>>, <<Frame("share", NoName, 0), Frame("name", uname[c], 0)>>)
        BY <2>4, <4>1 DEF Expected, At, Consume
      <4>3. CASE At(c, "share", <<"share">>, <<Frame("share", NoName, 0)>>)
        <5>1. inq'[c] = <<>>
          BY <2>0, <2>1, <2>2, <4>1, <4>3 DEF Consume, At
        <5>2. Expected(c)'
          BY <5>1, <4>1, <4>3, <3>3, <2>5 DEF Expected, At
        <5> QED BY <3>1, <5>2, <2>0, <2>1, <2>5, <2>7, <1>3, InStepServer
      <4>4. CASE At(c, "naming", <<>>, <<Frame("share", NoName, 0), Frame("name", uname[c], 0)>>)
        <5>1. inq'[c] = <<Frame("name", uname[c], 0)>>
          BY <2>0, <2>1, <2>2, <4>1, <4>4 DEF Consume, At
        <5>2. Expected(c)'
          BY <5>1, <4>1, <4>4, <3>3, <2>5 DEF Expected, At
        <5> QED BY <3>1, <5>2, <2>0, <2>1, <2>5, <2>7, <1>3, InStepServer
      <4> QED BY <4>2, <4>3, <4>4
    <3>4. CASE NameTaken /\ pc' = "name"
      <4>1. pc = "name" /\ Consume(c) /\ SendTo(c, <<"taken">>)
        BY <2>0, <3>4 DEF NameTaken, Naming
      <4>2. At(c, "naming", <<>>, <<Frame("name", uname[c], 0)>>)
        BY <2>4, <4>1 DEF Expected, At, Consume
      <4>3. inq'[c] = <<>> /\ outq'[c] = <<"taken">>
        BY <2>0, <2>1, <2>2, <4>1, <4>2 DEF Consume, SendTo, At
      <4>4. Expected(c)'
        BY <4>2, <4>3, <3>4, <2>5 DEF Expected, At
      <4> QED BY <3>1, <4>4, <2>0, <2>1, <2>5, <2>7, <1>3, InStepServer
    <3> QED BY <3>1, <3>2, <3>3, <3>4
  <2> QED BY <2>8, <2>9
<1>4. ASSUME Turn, ServeQuit \/ ServeWho \/ ServeChat \/ ServeText \/ ServeAt \/ ServeBareAt
      PROVE  InStep'
  <2>1. Peer \in Conn /\ users[idx].sock \in DOMAIN fds /\ pc = "scan"
    BY <1>4, TurnFacts
  <2>2. phase[Peer] # "idle" /\ \A i \in DOMAIN backlog : backlog[i] # Peer
    BY <2>1 DEF IInv, Table, Queued, Peer
  <2>3. UNCHANGED <<phase, backlog, outq>> /\ (Consume(Peer) \/ inq' = inq) /\ pc' \notin Handshake
    BY <1>4, <2>1 DEF ServeQuit, Quit, QuitAt, ServeWho, ServeChat, ServeText, ServeAt, ServeBareAt,
                      Command, Done, Read, Goto, Overrun, Handshake
  <2>4. \A d \in Conn : d # Peer => inq'[d] = inq[d] /\ outq'[d] = outq[d]
    BY <2>3 DEF Consume, IInv, Table, TypeOK
  <2> QED BY <2>2, <2>3, <2>4, InStepElsewhere
<1>5. Challenge \/ Share \/ NameLost \/ NameTaken \/ ServerFull \/ Register => pc \in Handshake
  BY DEF Challenge, Share, NameLost, NameTaken, ServerFull, Register, Naming, Handshake
<1>6. ServeQuit \/ ServeWho \/ ServeChat \/ ServeText \/ ServeAt \/ ServeBareAt => Turn
  BY DEF ServeQuit, ServeWho, ServeChat, ServeText, ServeAt, ServeBareAt, Command
<1> QED BY <1>1, <1>2, <1>3, <1>4, <1>5, <1>6 DEF ServerNext

\* A client connects: it enters the queue having sent and been sent nothing.
LEMMA ConnectInStep ==
    ASSUME IInv, NEW c \in Conn, Connect(c)
    PROVE  InStep'
<1> USE DEF serverVars
<1>1. PICK n \in Entered[c] : uname' = [uname EXCEPT ![c] = n]
  BY DEF Connect
<1>2. /\ phase[c] = "idle" /\ phase' = [phase EXCEPT ![c] = "cert"]
      /\ backlog' = Append(backlog, c) /\ backlog \in Seq(Conn)
      /\ UNCHANGED <<pc, cur, fds, inq, outq>>
      /\ phase \in [Conn -> Phases] /\ uname \in [Conn -> AnyName]
  BY DEF Connect, IInv, Table, TypeOK
<1>3. /\ \A i \in 1..Len(backlog) : backlog'[i] = backlog[i] /\ backlog[i] \in Conn
      /\ backlog'[Len(backlog) + 1] = c
      /\ DOMAIN backlog = 1..Len(backlog) /\ Len(backlog) \in Nat
      /\ DOMAIN backlog' = 1..(Len(backlog) + 1)
  <2>1. backlog' \in Seq(Conn) /\ Len(backlog') = Len(backlog) + 1
    BY <1>2, AppendProperties
  <2> QED BY <1>2, <2>1, AppendProperties, LenProperties, ElementOfSeq
<1>4. \A d \in Conn : phase'[d] = "idle" => inq'[d] = <<>> /\ outq'[d] = <<>>
  BY <1>2 DEF IInv, InStep
<1>5. \A i \in DOMAIN backlog' :
        /\ phase'[backlog'[i]] \in {"cert", "gone"}
        /\ inq'[backlog'[i]] = <<>> /\ outq'[backlog'[i]] = <<>>
  <2> TAKE i \in DOMAIN backlog'
  <2>1. CASE i = Len(backlog) + 1
    BY <2>1, <1>2, <1>3 DEF IInv, InStep
  <2>2. CASE i \in 1..Len(backlog)
    <3>1. backlog'[i] = backlog[i] /\ backlog[i] \in Conn /\ backlog[i] # c
      BY <2>2, <1>2, <1>3 DEF IInv, Table, Queued
    <3> QED BY <3>1, <2>2, <1>2, <1>3 DEF IInv, InStep
  <2> QED BY <2>1, <2>2, <1>3
<1>6. ASSUME pc \in Handshake
      PROVE  Expected(fds[cur])'
  <2>1. fds[cur] \in Conn /\ cur \in DOMAIN fds /\ Expected(fds[cur])
    BY <1>6, HandshakeFacts DEF IInv, InStep
  <2>2. fds[cur] # c
    BY <2>1, <1>2 DEF IInv, Table, Queued
  <2> QED BY <2>1, <2>2, <1>1, <1>2 DEF Expected, At, Gone
<1> QED BY <1>2, <1>4, <1>5, <1>6 DEF InStep

\* The other steps of a client keep the table and stay in step.
LEMMA ClientNext ==
    ASSUME IInv, NEW c \in Conn, ClientCode(c) \/ Begin(c) \/ Abandon(c) \/ Die(c)
    PROVE  Table' /\ InStep'
<1> USE DEF serverVars, netVars
<1> DEFINE others == \A d \in Conn : d # c => /\ inq'[d] = inq[d] /\ outq'[d] = outq[d]
                                             /\ phase'[d] = phase[d]
<1>1. /\ inq \in [Conn -> Seq(Frames)] /\ outq \in [Conn -> Seq(Greetings)]
      /\ phase \in [Conn -> Phases] /\ uname \in [Conn -> AnyName] /\ sent \in [Conn -> Nat]
      /\ caUp \in BOOLEAN /\ writing \subseteq Conn
  BY DEF IInv, Table, TypeOK, Greetings
<1>2. \A i \in DOMAIN backlog : backlog[i] = c => phase[c] \in {"cert", "gone"} /\ outq[c] = <<>>
  BY DEF IInv, InStep
<1>3. pc \in Handshake => Expected(fds[cur])
  BY DEF IInv, InStep
<1>4. outq[c] # <<>> => /\ Tail(outq[c]) \in Seq(Greetings)
                        /\ [outq EXCEPT ![c] = Tail(@)] \in [Conn -> Seq(Greetings)]
  BY <1>1, HeadTailProperties
<1>0. writing' \subseteq Conn
  BY <1>1 DEF ClientCode, Hello, Proof, KeyAgree, Retry, Step, Success, Closed, Type, Begin, Abandon, Die
<1>5. \A f \in Frames : Write(c, f) => inq' \in [Conn -> Seq(Frames)]
  BY WriteType
\* A handshake message m is answered with f: enough that the new queues are expected.
<1>6. ASSUME NEW p \in Phases \ {"idle", "gone"}, NEW q \in Phases \ {"idle"}, NEW m,
             NEW f \in Frames, Step(c, p, m, f, q),
             pc \in Handshake /\ c = fds[cur] => Expected(c)'
      PROVE  Table' /\ InStep'
  <2>1. /\ phase[c] = p /\ outq[c] # <<>> /\ outq' = [outq EXCEPT ![c] = Tail(@)]
        /\ Write(c, f) /\ phase' = [phase EXCEPT ![c] = q]
        /\ UNCHANGED <<serverVars, caUp, uname, sent, backlog, heard>>
    BY <1>6 DEF Step
  <2>2. inq' \in [Conn -> Seq(Frames)] /\ outq' \in [Conn -> Seq(Greetings)]
        /\ phase' \in [Conn -> Phases]
    BY <1>1, <1>4, <1>5, <2>1
  <2>3. others /\ phase[c] # "idle" /\ phase'[c] # "idle"
    BY <1>1, <2>1 DEF Write
  <2>4. Table'
    BY <1>0, <1>1, <2>1, <2>2, <2>3, ClientStep
  <2>5. ~ \E i \in DOMAIN backlog : backlog[i] = c
    BY <1>2, <2>1
  <2>6. InStep'
    BY <1>6, <2>1, <2>3, <2>5, InStepClient
  <2> QED BY <2>4, <2>6
<1>7. /\ Frame("challenge", NoName, 0) \in Frames /\ Frame("share", NoName, 0) \in Frames
      /\ Frame("name", uname[c], 0) \in Frames
  BY <1>1 DEF Frame, Frames, AnyName
\* What Expected says to a client in a phase, with a message to read.
<1>8. ASSUME NEW f \in Frames, outq[c] # <<>>, outq' = [outq EXCEPT ![c] = Tail(@)], Write(c, f)
      PROVE  /\ \A x : outq[c] = <<x>> => outq'[c] = <<>>
             /\ \A x, y : outq[c] = <<x, y>> => outq'[c] = <<y>>
             /\ inq[c] = <<>> => inq'[c] = <<f>>
             /\ \A g \in Frames : inq[c] = <<g>> => inq'[c] = <<g, f>>
  <2>1. outq'[c] = Tail(outq[c]) /\ inq'[c] = Append(inq[c], f)
    BY <1>1, <1>8 DEF Write
  <2>2. \A x : Tail(<<x>>) = <<>>
    OBVIOUS
  <2>3. \A x, y : Tail(<<x, y>>) = <<y>>
    OBVIOUS
  <2>4. Append(<<>>, f) = <<f>>
    OBVIOUS
  <2>5. \A g \in Frames : Append(<<g>>, f) = <<g, f>>
    BY AppendToOne
  <2> QED BY <2>1, <2>2, <2>3, <2>4, <2>5
<1>9. CASE Hello(c)
  <2>1. ASSUME pc \in Handshake, c = fds[cur]
        PROVE  Expected(c)'
    <3>1. pc = "challenge" /\ At(c, "cert", <<"cert">>, <<>>) /\ pc' = pc
      BY <1>3, <1>9, <2>1 DEF Hello, Step, Expected, At, Gone
    <3>2. outq'[c] = <<>> /\ inq'[c] = <<Frame("challenge", NoName, 0)>> /\ phase'[c] = "proof"
      BY <3>1, <1>1, <1>7, <1>8, <1>9 DEF Hello, Step, At
    <3> QED BY <3>1, <3>2 DEF Expected, At
  <2> QED BY <1>6, <1>7, <1>9, <2>1 DEF Hello, Phases
<1>10. CASE Proof(c)
  <2>1. ASSUME pc \in Handshake, c = fds[cur]
        PROVE  Expected(c)'
    <3>1. pc = "share" /\ At(c, "proof", <<"sig", "share">>, <<>>) /\ pc' = pc
      BY <1>3, <1>10, <2>1 DEF Proof, Step, Expected, At, Gone
    <3>2. outq'[c] = <<"share">> /\ inq'[c] = <<Frame("share", NoName, 0)>> /\ phase'[c] = "share"
      BY <3>1, <1>1, <1>7, <1>8, <1>10 DEF Proof, Step, At
    <3> QED BY <3>1, <3>2 DEF Expected, At
  <2> QED BY <1>6, <1>7, <1>10, <2>1 DEF Proof, Phases
<1>11. CASE KeyAgree(c)
  <2>1. ASSUME pc \in Handshake, c = fds[cur]
        PROVE  Expected(c)'
    <3>1. /\ \/ pc = "share" /\ At(c, "share", <<"share">>, <<Frame("share", NoName, 0)>>)
             \/ pc = "name" /\ At(c, "share", <<"share">>, <<>>)
          /\ pc' = pc /\ uname' = uname
      BY <1>3, <1>11, <2>1 DEF KeyAgree, Step, Expected, At, Gone
    <3>2. outq'[c] = <<>> /\ phase'[c] = "naming"
      BY <3>1, <1>1, <1>7, <1>8, <1>11 DEF KeyAgree, Step, At
    <3>3. \/ pc = "share" /\ inq'[c] = <<Frame("share", NoName, 0), Frame("name", uname[c], 0)>>
          \/ pc = "name" /\ inq'[c] = <<Frame("name", uname[c], 0)>>
      BY <3>1, <1>7, <1>8, <1>11 DEF KeyAgree, Step, At
    <3> QED BY <3>1, <3>2, <3>3 DEF Expected, At
  <2> QED BY <1>6, <1>7, <1>11, <2>1 DEF KeyAgree, Phases
<1>12. CASE Retry(c)
  <2>1. ASSUME pc \in Handshake, c = fds[cur]
        PROVE  Expected(c)'
    <3>1. pc = "name" /\ At(c, "naming", <<"taken">>, <<>>) /\ pc' = pc /\ uname' = uname
      BY <1>3, <1>12, <2>1 DEF Retry, Step, Expected, At, Gone
    <3>2. outq'[c] = <<>> /\ inq'[c] = <<Frame("name", uname[c], 0)>> /\ phase'[c] = "naming"
      BY <3>1, <1>1, <1>7, <1>8, <1>12 DEF Retry, Step, At
    <3> QED BY <3>1, <3>2 DEF Expected, At
  <2> QED BY <1>6, <1>7, <1>12, <2>1 DEF Retry, Phases
<1>13. CASE Success(c)
  <2>1. /\ phase[c] = "naming" /\ outq[c] # <<>> /\ Head(outq[c]) = "ok"
        /\ outq' = [outq EXCEPT ![c] = Tail(@)] /\ phase' = [phase EXCEPT ![c] = "chatting"]
        /\ UNCHANGED <<serverVars, caUp, uname, sent, backlog, inq, heard>>
    BY <1>13 DEF Success
  <2>2. outq' \in [Conn -> Seq(Greetings)] /\ phase' \in [Conn -> Phases] /\ others
    BY <1>1, <1>4, <2>1 DEF Phases
  <2>3. Table'
    BY <1>0, <1>1, <2>1, <2>2, ClientStep
  <2>4. ~(pc \in Handshake /\ c = fds[cur])
    BY <1>3, <2>1 DEF Expected, At, Gone
  <2>5. phase'[c] # "idle" /\ ~ \E i \in DOMAIN backlog : backlog[i] = c
    BY <1>1, <1>2, <2>1
  <2>6. InStep'
    BY <2>1, <2>2, <2>4, <2>5, InStepClient
  <2> QED BY <2>3, <2>6
<1>14. CASE Type(c)
  <2>1. PICK t \in Typed[c] :
          /\ Write(c, Frame(t[1], t[2], sent[c] + 1))
          /\ phase' = [phase EXCEPT ![c] = IF t[1] = "quit" THEN "quitting" ELSE @]
    BY <1>14 DEF Type
  <2>2. /\ phase[c] = "chatting" /\ sent' = [sent EXCEPT ![c] = @ + 1]
        /\ UNCHANGED <<serverVars, caUp, uname, backlog, outq, heard>>
    BY <1>14 DEF Type
  <2>3. Frame(t[1], t[2], sent[c] + 1) \in Frames
    BY <1>1, UserAssumption DEF Lines, Frame, Frames
  <2>4. /\ inq' \in [Conn -> Seq(Frames)] /\ phase' \in [Conn -> Phases] /\ sent' \in [Conn -> Nat]
        /\ others /\ phase'[c] \in {"chatting", "quitting"}
    BY <1>1, <1>5, <2>1, <2>2, <2>3 DEF Phases, Write
  <2>5. Table'
    BY <1>0, <1>1, <2>2, <2>4, ClientStep
  <2>6. ~(pc \in Handshake /\ c = fds[cur]) /\ ~ \E i \in DOMAIN backlog : backlog[i] = c
    BY <1>2, <1>3, <2>2 DEF Expected, At, Gone
  <2>7. InStep'
    BY <2>2, <2>4, <2>6, InStepClient
  <2> QED BY <2>5, <2>7
<1>15. CASE Die(c) \/ Closed(c)
  <2>1. /\ phase[c] # "idle" /\ phase' = [phase EXCEPT ![c] = "gone"]
        /\ UNCHANGED <<serverVars, caUp, uname, sent, backlog, inq, outq, heard>>
    BY <1>15 DEF Die, Closed
  <2>2. phase' \in [Conn -> Phases] /\ others /\ phase'[c] = "gone"
    BY <1>1, <2>1 DEF Phases
  <2>3. Table'
    BY <1>0, <1>1, <2>1, <2>2, ClientStep
  <2>4. pc \in Handshake /\ c = fds[cur] => Expected(c)'
    BY <1>3, <2>1, <2>2 DEF Expected, At, Gone
  <2>5. InStep'
    BY <2>1, <2>2, <2>4, InStepClient
  <2> QED BY <2>3, <2>5
\* A line begun, or abandoned: the queues stay as they are.
<1>16. CASE Begin(c) \/ Abandon(c)
  <2>1. /\ phase[c] = "chatting" /\ phase'[c] \in {"chatting", "quitting"}
        /\ phase' = [phase EXCEPT ![c] = phase'[c]]
        /\ UNCHANGED <<serverVars, caUp, uname, sent, backlog, inq, outq, heard>>
    BY <1>1, <1>16 DEF Begin, Abandon
  <2>2. phase' \in [Conn -> Phases] /\ others
    BY <1>1, <2>1 DEF Phases
  <2>3. Table'
    BY <1>0, <1>1, <2>1, <2>2, ClientStep
  <2>4. ~(pc \in Handshake /\ c = fds[cur]) /\ ~ \E i \in DOMAIN backlog : backlog[i] = c
    BY <1>2, <1>3, <2>1 DEF Expected, At, Gone
  <2>5. InStep'
    BY <2>1, <2>2, <2>4, InStepClient
  <2> QED BY <2>3, <2>5
<1> QED BY <1>9, <1>10, <1>11, <1>12, <1>13, <1>14, <1>15, <1>16 DEF ClientCode

--------------------------------------------------------------------------------
(* The theorems *)

LEMMA InitInv == Init => IInv
<1> SUFFICES ASSUME Init PROVE IInv
  OBVIOUS
<1>1. <<>> \in Seq(Users) /\ <<>> \in Seq(Conn) /\ <<>> \in Seq(Frames) /\ <<>> \in Seq(Greetings)
      /\ <<>> \in Seq(Outs) /\ Len(<<>>) = 0 /\ DOMAIN <<>> = {}
  BY EmptySeq
<1>2. TypeOK
  BY <1>1 DEF Init, TypeOK, Places, Phases, AnyName, Greetings
<1>3. UniqueNames
  BY <1>1, SizeAssumption DEF Init, UniqueNames
<1>4. Wired
  BY <1>1 DEF Init, Wired, Socks, Handshake
<1>5. Queued /\ InStep
  BY <1>1 DEF Init, Queued, InStep, Handshake
<1> QED BY <1>2, <1>3, <1>4, <1>5 DEF IInv, Table

LEMMA NextInv == IInv /\ [Next]_vars => IInv'
<1> SUFFICES ASSUME IInv, [Next]_vars PROVE IInv'
  OBVIOUS
<1>1. CASE ServerNext
  <2>1. InStep'
    BY <1>1, ServerInStep
  <2>2. Table'
    <3>1. CASE Select \/ EndScan \/ Skip
      BY <3>1, RoundStep
    <3>2. CASE Accept
      BY <3>2, AcceptStep
    <3>3. CASE Challenge \/ Share \/ NameLost \/ NameTaken \/ ServerFull
      BY <3>3, RegistrationStep
    <3>4. CASE Register
      BY <3>4, RegisterStep
    <3>5. CASE ServeQuit
      <4>1. Turn /\ Quit
        BY <3>5 DEF ServeQuit
      <4>2. Peer \in Conn /\ users[idx].sock \in Fd /\ served \subseteq Fd
            /\ inq \in [Conn -> Seq(Frames)]
        BY <4>1, TurnFacts DEF Users, IInv, Table, TypeOK
      <4>3. served' \subseteq Fd /\ inq' \in [Conn -> Seq(Frames)]
        BY <3>5, <4>2, ConsumeType DEF ServeQuit, Read
      <4> QED BY <4>1, <4>3, QuitStep
    <3>6. CASE ServeWho \/ ServeChat \/ ServeText \/ ServeAt \/ ServeBareAt
      BY <3>6, HandlerStep
    <3> QED BY <1>1, <3>1, <3>2, <3>3, <3>4, <3>5, <3>6 DEF ServerNext
  <2> QED BY <2>1, <2>2 DEF IInv
<1>2. ASSUME NEW c \in Conn, Connect(c) PROVE IInv'
  BY <1>2, ConnectStep, ConnectInStep DEF IInv
<1>3. ASSUME NEW c \in Conn, ClientCode(c) \/ Begin(c) \/ Abandon(c) \/ Die(c) PROVE IInv'
  BY <1>3, ClientNext DEF IInv
<1>4. CASE CaStop \/ UNCHANGED vars
  <2>1. UNCHANGED <<serverVars, clientVars, netVars>> /\ caUp' \in BOOLEAN
    BY <1>4 DEF CaStop, vars, IInv, Table, TypeOK
  <2>2. TypeOK'
    BY <2>1 DEF IInv, Table, TypeOK, serverVars, clientVars, netVars
  <2>3. UniqueNames' /\ Wired'
    BY <2>1 DEF IInv, Table, UniqueNames, Wired, Socks, serverVars, clientVars
  <2>4. Queued' /\ InStep'
    BY <2>1 DEF IInv, Table, Queued, InStep, Expected, At, Gone, serverVars, clientVars, netVars
  <2> QED BY <2>2, <2>3, <2>4 DEF IInv, Table
<1> QED BY <1>1, <1>2, <1>3, <1>4 DEF Next

\* The strengthened invariant holds in every reachable state.
THEOREM Inductive == Spec => []IInv
BY InitInv, NextInv, PTL DEF Spec

\* Every variable keeps its type, for every set of clients, names and descriptors.
THEOREM TypeCorrect == Spec => []TypeOK
<1>1. IInv => TypeOK
  BY DEF IInv, Table
<1> QED BY <1>1, Inductive, PTL

\* users[] never holds a name twice and never more than MAX_USERS entries.
THEOREM NamesAreUnique == Spec => []UniqueNames
<1>1. IInv => UniqueNames
  BY DEF IInv, Table
<1> QED BY <1>1, Inductive, PTL

\* users[], the open descriptors, the connections and the session keys stay bound to each
\* other through accept, failed registrations, compaction and reuse of descriptors.
THEOREM TableIsWired == Spec => []Wired
<1>1. IInv => Wired
  BY DEF IInv, Table
<1> QED BY <1>1, Inductive, PTL

\* In a handshake the server always reads the message it expects.
THEOREM HandshakeInStep == Spec => []InStep
<1>1. IInv => InStep
  BY DEF IInv
<1> QED BY <1>1, Inductive, PTL

================================================================================
