---------------------------------- MODULE E2E ----------------------------------
(***************************************************************************)
(* End-to-end keys between users (src/client/e2e.c, driven by client.c).   *)
(*                                                                         *)
(* After registration a client is two processes and three threads that     *)
(* share only files and a socket: the parent's main thread obeys the       *)
(* terminal, the parent's timer thread repeats the INIT every minute, and  *)
(* the child obeys what the server forwards.  Per peer there are three     *)
(* files: e2e_secret (own Diffie-Hellman secret), e2e_pending (the share   *)
(* of an INIT not answered yet) and e2e_key.  fopen(path, "w") empties a   *)
(* file and fclose fills it: in between another thread finds it Torn, its  *)
(* fscanf fails, and it goes on with a buffer nobody wrote, Garbage.       *)
(*                                                                         *)
(* The parent's two threads write the length and the body of a frame to    *)
(* the same socket with no lock: one may write into the frame of the other *)
(* (Framing with two writers).  The server then reads what decrypts to     *)
(* nothing and removes the user, as it does at an empty line.              *)
(*                                                                         *)
(* The server is the relay that ChatServer is shown to implement: "@p m"   *)
(* selects p if p is online and sends m to the user selected by then.      *)
(* Diffie-Hellman is symbolic: secret s stands for its share too, the key  *)
(* made from s and the share t is {s, t}, and a text opens only under the  *)
(* key it was closed with.                                                 *)
(***************************************************************************)
EXTENDS Naturals, Sequences, FiniteSets

CONSTANTS
    User,
    Nobody,      \* current_peer or chat_with empty
    Absent,      \* the file does not exist
    Torn,        \* the file is open for writing and still empty
    Garbage,     \* what a scan of a Torn file leaves in the buffer
    Peers,       \* Peers[x]: names the user of x gives to /e2e
    MaxSecrets,  \* bound on the secrets generated
    MaxAsks,     \* MaxAsks[x] bounds the /e2e commands of the user of x
    MaxTicks,    \* MaxTicks[x] bounds the firings of the timer of x
    MaxLines,    \* MaxLines[x] bounds the texts the user of x types
    MaxTurns,    \* MaxTurns[x] bounds how often the client of x ends or starts again
    MaxHolds     \* bound on the holds of the server by other clients

Secret == 1..MaxSecrets

ASSUME UserAssumption ==
    /\ Nobody \notin User /\ Peers \in [User -> SUBSET User]
    /\ MaxAsks \in [User -> Nat] /\ MaxTicks \in [User -> Nat]
    /\ MaxLines \in [User -> Nat] /\ MaxTurns \in [User -> Nat]
ASSUME FileAssumption ==
    /\ MaxSecrets \in Nat /\ MaxHolds \in Nat
    /\ Absent # Torn /\ Absent # Garbage /\ Torn # Garbage
    /\ {Absent, Torn, Garbage} \cap Secret = {}
    /\ \A s, t \in Secret \cup {Garbage} : {s, t} \notin {Absent, Torn, Garbage}

VARIABLES
    secret, pending, key,  \* the files of x about p
    peer,                  \* current_peer of the parent of x
    main, timer, child,    \* what the threads of x are in the middle of
    running,               \* the client of x runs
    made,                  \* history: the secrets generated, in order
    asks, ticks, lines, turns,  \* how often each bounded event happened
    up,                    \* lines on their way to the server
    broken,                \* behind them, one frame was written into another, or an empty line
    down,                  \* frames on their way to the child
    online, talk,          \* users[] and chat_with of the server
    held,                  \* a client holds the loop of the server for ever
    shown                  \* history: texts the child of x decrypted and printed

files   == <<secret, pending, key>>
threads == <<peer, main, timer, child, running>>
bounds  == <<asks, ticks, lines, turns>>
server  == <<online, talk, held>>
net     == <<up, broken, down>>
vars    == <<files, threads, made, bounds, server, net, shown>>

--------------------------------------------------------------------------------
Idle == [at |-> "idle", to |-> Nobody, mine |-> Absent, other |-> Absent]

\* fopen(path, "w") and fclose of one file of x about p.
Open(f, x, p)    == [f EXCEPT ![x][p] = Torn]
Save(f, x, p, v) == [f EXCEPT ![x][p] = v]
\* Seeded fault: an empty file is taken for its content.
ScanTorn(v) == v

\* fscanf of a file.
Scan(v) == IF v = Torn THEN Garbage ELSE v

\* derive_aes_key of secret_maker: the same for (s, share of t) and (t, share of s).
Key(s, t) == {s, t}

\* Seeded fault: the result of EVP_DecryptFinal_ex is not looked at.
OpensAnything(k, c) == k # Absent

\* decrypt_message succeeds with k on what was encrypted with c.
Opens(k, c) == k = c /\ k # Garbage /\ Garbage \notin k

Break(x) == broken' = [broken EXCEPT ![x] = TRUE] /\ UNCHANGED up

\* send_command of one thread while the other is `beside` it: when that is about to send too,
\* the length of one frame may come before the body of the other.  What follows is not read.
Send(x, m, beside) ==
    \/ /\ up' = IF online[x] /\ ~broken[x] THEN [up EXCEPT ![x] = Append(@, m)] ELSE up
       /\ UNCHANGED broken
    \/ beside.at = "send" /\ Break(x)
Packet(to, kind, share, under, line) ==
    [to |-> to, kind |-> kind, share |-> share, under |-> under, line |-> line]

\* e2e_generate_pair for a file about p; `with` is the share it will be combined with.
Fresh == Len(made) + 1
Generate(x, p, with) ==
    Fresh \in Secret /\ made' = Append(made, [by |-> x, for |-> p, with |-> with])

Init ==
    /\ secret  = [x \in User |-> [p \in User |-> Absent]]
    /\ pending = [x \in User |-> [p \in User |-> Absent]]
    /\ key     = [x \in User |-> [p \in User |-> Absent]]
    /\ peer = [x \in User |-> Nobody]
    /\ main = [x \in User |-> Idle] /\ timer = [x \in User |-> Idle] /\ child = [x \in User |-> Idle]
    /\ running = [x \in User |-> TRUE]
    /\ made = <<>>
    /\ asks = [x \in User |-> 0] /\ ticks = [x \in User |-> 0]
    /\ lines = [x \in User |-> 0] /\ turns = [x \in User |-> 0]
    /\ up = [x \in User |-> <<>>] /\ down = [x \in User |-> <<>>]
    /\ broken = [x \in User |-> FALSE] /\ held = FALSE
    /\ online = [x \in User |-> TRUE] /\ talk = [x \in User |-> Nobody]
    /\ shown = [x \in User |-> <<>>]

--------------------------------------------------------------------------------
(* The main thread of the parent *)

\* "/e2e p": with a pending request of p it is answered (e2e_create_ack), otherwise one is
\* made (e2e_create_init). The pending share is read and the secret file opened.
E2eCommand(x, p) ==
    /\ running[x] /\ main[x].at = "idle" /\ p \in Peers[x] /\ asks[x] < MaxAsks[x]
    /\ asks' = [asks EXCEPT ![x] = @ + 1]
    /\ LET share == Scan(pending[x][p]) IN
         /\ Generate(x, p, share)
         /\ main' = [main EXCEPT ![x] = [at |-> "secret", to |-> p, mine |-> Fresh, other |-> share]]
    /\ peer' = [peer EXCEPT ![x] = p]
    /\ secret' = Open(secret, x, p)
    /\ UNCHANGED <<pending, key, timer, child, running, ticks, lines, turns, server, net, shown>>

\* The later file operations of e2e_create_ack, in their order; e2e_create_init has the first.
SaveSecret(x) ==
    /\ main[x].at = "secret"
    /\ secret' = Save(secret, x, main[x].to, main[x].mine)
    /\ main' = [main EXCEPT ![x].at = IF main[x].other = Absent THEN "send" ELSE "key"]
    /\ UNCHANGED <<pending, key, peer, timer, child, running, made, bounds, server, net, shown>>

OpenKey(x) ==
    /\ main[x].at = "key"
    /\ key' = Open(key, x, main[x].to)
    /\ main' = [main EXCEPT ![x].at = "save"]
    /\ UNCHANGED <<secret, pending, peer, timer, child, running, made, bounds, server, net, shown>>

SaveKey(x) ==
    /\ main[x].at = "save"
    /\ key' = Save(key, x, main[x].to, Key(main[x].mine, main[x].other))
    /\ main' = [main EXCEPT ![x].at = "remove"]
    /\ UNCHANGED <<secret, pending, peer, timer, child, running, made, bounds, server, net, shown>>

RemovePending(x) ==
    /\ main[x].at = "remove"
    /\ pending' = Save(pending, x, main[x].to, Absent)
    /\ main' = [main EXCEPT ![x].at = "send"]
    /\ UNCHANGED <<secret, key, peer, timer, child, running, made, bounds, server, net, shown>>

\* Seeded fault: the acknowledgement carries the share it answers.
AckEchoes(x) ==
    /\ main[x].at = "send"
    /\ Send(x, IF main[x].other = Absent
               THEN Packet(main[x].to, "init", main[x].mine, Absent, <<>>)
               ELSE Packet(main[x].to, "ack", main[x].other, Absent, <<>>), timer[x])
    /\ main' = [main EXCEPT ![x] = Idle]
    /\ UNCHANGED <<files, peer, timer, child, running, made, bounds, server, down, shown>>

SendPacket(x) ==
    /\ main[x].at = "send"
    /\ Send(x, Packet(main[x].to, IF main[x].other = Absent THEN "init" ELSE "ack",
                      main[x].mine, Absent, <<>>), timer[x])
    /\ main' = [main EXCEPT ![x] = Idle]
    /\ UNCHANGED <<files, peer, timer, child, running, made, bounds, server, down, shown>>

\* Any other line: encrypted for current_peer if there is a key file, and sent as it is to
\* whomever the server has selected if there is none; the empty line among these is an end
\* to the server.  A line is <<author, number, for>>.
TypeLine(x) ==
    /\ running[x] /\ main[x].at = "idle" /\ lines[x] < MaxLines[x]
    /\ lines' = [lines EXCEPT ![x] = @ + 1]
    /\ LET p    == peer[x]
           line == <<x, lines[x] + 1, p>>
       IN  IF p # Nobody /\ key[x][p] # Absent
           THEN Send(x, Packet(p, "msg", Absent, Scan(key[x][p]), line), timer[x])
           ELSE Send(x, Packet(Nobody, "plain", Absent, Absent, line), timer[x]) \/ Break(x)
    /\ UNCHANGED <<files, threads, made, asks, ticks, turns, server, down, shown>>

--------------------------------------------------------------------------------
(* The timer thread of the parent: current_peer is read where it is used, once for the path *)
(* of the secret file and again for the address of the packet, which is sent later. *)

TimerInit(x) ==
    /\ running[x] /\ timer[x].at = "idle" /\ peer[x] # Nobody /\ ticks[x] < MaxTicks[x]
    /\ ticks' = [ticks EXCEPT ![x] = @ + 1]
    /\ Generate(x, peer[x], Absent)
    /\ secret' = Open(secret, x, peer[x])
    /\ timer' = [timer EXCEPT ![x] = [Idle EXCEPT !.at = "secret", !.to = peer[x], !.mine = Fresh]]
    /\ UNCHANGED <<pending, key, peer, main, child, running, asks, lines, turns, server, net, shown>>

TimerSaveSecret(x) ==
    /\ timer[x].at = "secret"
    /\ secret' = Save(secret, x, timer[x].to, timer[x].mine)
    /\ timer' = [timer EXCEPT ![x].at = "address"]
    /\ UNCHANGED <<pending, key, peer, main, child, running, made, bounds, server, net, shown>>

TimerAddress(x) ==
    /\ timer[x].at = "address"
    /\ timer' = [timer EXCEPT ![x] = [at |-> "send", to |-> peer[x], mine |-> timer[x].mine, other |-> Absent]]
    /\ UNCHANGED <<files, peer, main, child, running, made, bounds, server, net, shown>>

TimerSend(x) ==
    /\ timer[x].at = "send"
    /\ Send(x, Packet(timer[x].to, "init", timer[x].mine, Absent, <<>>), main[x])
    /\ timer' = [timer EXCEPT ![x] = Idle]
    /\ UNCHANGED <<files, peer, main, child, running, made, bounds, server, down, shown>>

--------------------------------------------------------------------------------
(* The child: one frame at a time, whose sender is the name before the colon *)

Received(x, kind) == running[x] /\ child[x].at = "idle" /\ down[x] # <<>> /\ Head(down[x]).kind = kind
Frame(x) == Head(down[x])
NextFrame(x) == down' = [down EXCEPT ![x] = Tail(@)]

ProcessInit(x) ==
    /\ Received(x, "init") /\ NextFrame(x)
    /\ pending' = Open(pending, x, Frame(x).from)
    /\ child' = [child EXCEPT ![x] = [Idle EXCEPT !.at = "pending", !.to = Frame(x).from,
                                                  !.other = Frame(x).share]]
    /\ UNCHANGED <<secret, key, peer, main, timer, running, made, bounds, server, up, broken, shown>>

SavePending(x) ==
    /\ child[x].at = "pending"
    /\ pending' = Save(pending, x, child[x].to, child[x].other)
    /\ child' = [child EXCEPT ![x] = Idle]
    /\ UNCHANGED <<secret, key, peer, main, timer, running, made, bounds, server, net, shown>>

\* Seeded fault: the secret is looked up under current_peer instead of the sender.
AckOfCurrentPeer(x) ==
    /\ Received(x, "ack") /\ NextFrame(x)
    /\ peer[x] # Nobody
    /\ key' = Open(key, x, peer[x])
    /\ child' = [child EXCEPT ![x] = [Idle EXCEPT !.at = "ack", !.to = peer[x],
                             !.mine = Scan(secret[x][peer[x]]), !.other = Frame(x).share]]
    /\ UNCHANGED <<secret, pending, peer, main, timer, running, made, bounds, server, up, broken, shown>>

\* Seeded fault: the pending share is looked up where the own secret is meant.
AckNeedsPending(x) ==
    /\ Received(x, "ack") /\ NextFrame(x)
    /\ LET p == Frame(x).from IN
         \/ /\ pending[x][p] = Absent
            /\ UNCHANGED <<key, child>>
         \/ /\ pending[x][p] # Absent
            /\ key' = Open(key, x, p)
            /\ child' = [child EXCEPT ![x] = [at |-> "ack", to |-> p, mine |-> Scan(pending[x][p]),
                                              other |-> Frame(x).share]]
    /\ UNCHANGED <<secret, pending, peer, main, timer, running, made, bounds, server, up, broken, shown>>

\* e2e_process_ack: without a secret for the sender nothing happens; otherwise the key is
\* computed from whatever secret the file holds by now.
ProcessAck(x) ==
    /\ Received(x, "ack") /\ NextFrame(x)
    /\ LET p == Frame(x).from IN
         \/ /\ secret[x][p] = Absent
            /\ UNCHANGED <<key, child>>
         \/ /\ secret[x][p] # Absent
            /\ key' = Open(key, x, p)
            /\ child' = [child EXCEPT ![x] = [at |-> "ack", to |-> p, mine |-> Scan(secret[x][p]),
                                              other |-> Frame(x).share]]
    /\ UNCHANGED <<secret, pending, peer, main, timer, running, made, bounds, server, up, broken, shown>>

\* "E2E key established with p."
SaveAckKey(x) ==
    /\ child[x].at = "ack"
    /\ key' = Save(key, x, child[x].to, Key(child[x].mine, child[x].other))
    /\ child' = [child EXCEPT ![x] = Idle]
    /\ UNCHANGED <<secret, pending, peer, main, timer, running, made, bounds, server, net, shown>>

\* Seeded fault: the frame is printed and stays first in the buffer.
PrintAgain(x) ==
    /\ Received(x, "msg") /\ Len(shown[x]) < 3
    /\ LET p == Frame(x).from IN
         shown' = IF key[x][p] # Absent /\ Opens(Scan(key[x][p]), Frame(x).under)
                  THEN [shown EXCEPT ![x] = Append(@, [from |-> p, line |-> Frame(x).line])]
                  ELSE shown
    /\ UNCHANGED <<files, threads, made, bounds, server, net>>

\* e2e_decrypt: a text that does not open is dropped without a word.
ProcessMsg(x) ==
    /\ Received(x, "msg") /\ NextFrame(x)
    /\ LET p == Frame(x).from IN
         shown' = IF key[x][p] # Absent /\ Opens(Scan(key[x][p]), Frame(x).under)
                  THEN [shown EXCEPT ![x] = Append(@, [from |-> p, line |-> Frame(x).line])]
                  ELSE shown
    /\ UNCHANGED <<files, threads, made, bounds, server, up, broken>>

PrintPlain(x) ==
    /\ Received(x, "plain") /\ NextFrame(x)
    /\ UNCHANGED <<files, threads, made, bounds, server, up, broken, shown>>

--------------------------------------------------------------------------------
(* The server, and the end and the restart of a client, whose files stay *)

Deliver(t, x, m) ==
    down' = IF running[t]
            THEN [down EXCEPT ![t] = Append(@, [from |-> x, kind |-> m.kind, share |-> m.share,
                                                under |-> m.under, line |-> m.line])]
            ELSE down

Relay(x) ==
    /\ ~held /\ online[x] /\ up[x] # <<>>
    /\ up' = [up EXCEPT ![x] = Tail(@)]
    /\ LET m == Head(up[x])
           t == IF m.to # Nobody /\ online[m.to] THEN m.to ELSE talk[x]
       IN  \/ t = Nobody /\ UNCHANGED <<talk, down>>
           \/ t # Nobody /\ online[t] /\ talk' = [talk EXCEPT ![x] = t] /\ Deliver(t, x, m)
           \/ /\ t # Nobody /\ ~online[t]
              /\ talk' = [talk EXCEPT ![x] = Nobody] /\ UNCHANGED down
    /\ UNCHANGED <<files, threads, made, bounds, broken, online, held, shown>>

\* All processes of the client end, at any point of any thread; SIGPIPE may be the reason
\* when the server has removed the user.
Stop(x) ==
    /\ running[x] /\ turns[x] < MaxTurns[x]
    /\ turns' = [turns EXCEPT ![x] = @ + 1]
    /\ running' = [running EXCEPT ![x] = FALSE]
    /\ peer' = [peer EXCEPT ![x] = Nobody]
    /\ main' = [main EXCEPT ![x] = Idle] /\ timer' = [timer EXCEPT ![x] = Idle]
    /\ child' = [child EXCEPT ![x] = Idle]
    /\ down' = [down EXCEPT ![x] = <<>>]
    /\ UNCHANGED <<files, made, asks, ticks, lines, server, up, broken, shown>>

\* service_quit: the server has read the last line, and then the end of file, an empty line or
\* what does not decrypt.
RemoveUser(x) ==
    /\ ~held /\ online[x] /\ up[x] = <<>> /\ (~running[x] \/ broken[x])
    /\ online' = [online EXCEPT ![x] = FALSE]
    /\ talk' = [talk EXCEPT ![x] = Nobody]
    /\ UNCHANGED <<files, threads, made, bounds, net, held, shown>>

\* The user starts the client again in the same directory and registers the same name...
Start(x) ==
    /\ ~held /\ ~running[x] /\ ~online[x] /\ turns[x] < MaxTurns[x]
    /\ turns' = [turns EXCEPT ![x] = @ + 1]
    /\ running' = [running EXCEPT ![x] = TRUE]
    /\ online' = [online EXCEPT ![x] = TRUE]
    /\ broken' = [broken EXCEPT ![x] = FALSE]
    /\ UNCHANGED <<files, peer, main, timer, child, made, asks, ticks, lines, talk, held, up, down, shown>>

\* ... or starts it before the server has removed the earlier run: the name is taken, and the
\* server, which asks for another one until the client gives up, never comes to remove it.
StartRefused(x) ==
    /\ ~held /\ ~running[x] /\ online[x] /\ turns[x] < MaxTurns[x]
    /\ turns' = [turns EXCEPT ![x] = @ + 1]
    /\ held' = TRUE
    /\ UNCHANGED <<files, threads, made, asks, ticks, lines, online, talk, net, shown>>

\* Somebody else's client does so, or the rest of its frame never comes (HeldUp of ChatServer).
Hold == /\ ~held /\ MaxHolds > 0 /\ held' = TRUE
        /\ UNCHANGED <<files, threads, made, bounds, online, talk, net, shown>>

--------------------------------------------------------------------------------
Main(x)  == SaveSecret(x) \/ OpenKey(x) \/ SaveKey(x) \/ RemovePending(x) \/ SendPacket(x)
Timer(x) == TimerSaveSecret(x) \/ TimerAddress(x) \/ TimerSend(x)
Child(x) == ProcessInit(x) \/ SavePending(x) \/ ProcessAck(x) \/ SaveAckKey(x) \/ ProcessMsg(x) \/ PrintPlain(x)
Server(x) == Relay(x) \/ RemoveUser(x)

Next ==
    \/ \E x \in User :
         \/ \E p \in User : E2eCommand(x, p)
         \/ TypeLine(x) \/ TimerInit(x) \/ Stop(x) \/ Start(x) \/ StartRefused(x)
         \/ Main(x) \/ Timer(x) \/ Child(x) \/ Server(x)
    \/ Hold

Spec == Init /\ [][Next]_vars

\* Threads that are in the middle of something go on, and the server serves everyone unless
\* it is held; nobody has to type, stop or start anything.
FairSpec == Spec /\ \A x \in User :
    WF_vars(Main(x)) /\ WF_vars(Timer(x)) /\ WF_vars(Child(x)) /\ WF_vars(Server(x))

--------------------------------------------------------------------------------
(* Properties *)

Kinds   == {"init", "ack", "msg", "plain"}
KeyOf   == {{s, t} : s, t \in Secret \cup {Garbage}}
Line    == {<<>>} \cup (User \X Nat \X (User \cup {Nobody}))
Doing(places) == [at : places, to : User \cup {Nobody}, mine : Secret \cup {Absent, Garbage},
                  other : Secret \cup {Absent, Garbage}]

\* Every variable has its type.
TypeOK ==
    /\ secret  \in [User -> [User -> Secret \cup {Absent, Torn}]]
    /\ pending \in [User -> [User -> Secret \cup {Absent, Torn}]]
    /\ key     \in [User -> [User -> KeyOf \cup {Absent, Torn}]]
    /\ peer \in [User -> User \cup {Nobody}]
    /\ main  \in [User -> Doing({"idle", "secret", "key", "save", "remove", "send"})]
    /\ timer \in [User -> Doing({"idle", "secret", "address", "send"})]
    /\ child \in [User -> Doing({"idle", "pending", "ack"})]
    /\ running \in [User -> BOOLEAN] /\ online \in [User -> BOOLEAN]
    /\ broken \in [User -> BOOLEAN] /\ held \in BOOLEAN
    /\ made \in Seq([by : User, for : User, with : Secret \cup {Absent, Garbage}])
    /\ Len(made) <= MaxSecrets
    /\ asks \in [User -> Nat] /\ ticks \in [User -> Nat]
    /\ lines \in [User -> Nat] /\ turns \in [User -> Nat]
    /\ up \in [User -> Seq([to : User \cup {Nobody}, kind : Kinds, share : Secret \cup {Absent},
                     under : KeyOf \cup {Absent, Garbage}, line : Line])]
    /\ down \in [User -> Seq([from : User, kind : Kinds, share : Secret \cup {Absent},
                     under : KeyOf \cup {Absent, Garbage}, line : Line])]
    /\ talk \in [User -> User \cup {Nobody}]
    /\ shown \in [User -> Seq([from : User, line : Line])]

Proper(k) == k \notin {Absent, Torn} /\ Garbage \notin k

\* A key file of x about p joins a secret of x with a secret of p, also when an INIT or an ACK
\* reached somebody else than it was meant for, or files survived a restart of either.
KeyParts == \A x, p \in User :
    Proper(key[x][p]) => {made[s].by : s \in key[x][p]} = {x, p}

\* A text is decrypted and printed only by the user it was encrypted for, and under the name
\* of its author: also if the server forwarded it to the user selected before.
OnlyPeerReads == \A y \in User : \A i \in DOMAIN shown[y] :
    LET m == shown[y][i] IN m.line[1] = m.from /\ m.line[3] = y

\* The texts of one author are printed at most once and in the order they were typed.
TextsInOrder == \A y \in User : \A i, j \in DOMAIN shown[y] :
    i < j /\ shown[y][i].from = shown[y][j].from => shown[y][i].line[2] < shown[y][j].line[2]

MadeBy(x) == {s \in DOMAIN made : made[s].by = x}

\* As long as two users have generated one secret each, the keys they have for each other are
\* the same.
FirstExchangeAgrees == \A x, p \in User :
    /\ Proper(key[x][p]) /\ Proper(key[p][x])
    /\ Cardinality(MadeBy(x)) = 1 /\ Cardinality(MadeBy(p)) = 1
    => key[x][p] = key[p][x]

(* Liveness, under FairSpec *)

\* An answer that is about to be sent to a user who asked makes a key there, unless one of the
\* two stops, the server removes one whose threads wrote into each other's frames, or who sent
\* an empty line, or a client holds the server.
AnswerArrives == \A p \in User : \A x \in Peers[p] :
    (main[p].at = "send" /\ main[p].other # Absent /\ main[p].to = x /\ secret[x][p] # Absent)
      ~> \/ key[x][p] \notin {Absent, Torn}
         \/ ~running[x] \/ ~running[p] \/ ~online[x] \/ ~online[p] \/ held

(* What the program tells its user and does not keep *)

\* e2e.c:278 "E2E key established with %s.": a key that is saved was computed by the peer too,
\* leaving aside answers made from a Torn file.
EstablishedIsShared == \A x, p \in User : Proper(key[x][p]) =>
    \E s, t \in key[x][p] : made[s].with \in {t, Garbage}

================================================================================
