--------------------------------- MODULE Client ---------------------------------
(***************************************************************************)
(* A registered client as two processes (src/client/client.c from fork()   *)
(* on): the parent reads the terminal and writes to the socket, and so     *)
(* does its timer thread; the child reads the socket; both processes hold  *)
(* it open.  Of the server: the socket of this user, what it does with a   *)
(* line as far as this user can see it, and the end of the user.  Key      *)
(* files are shared by the two processes and survive them; that they are   *)
(* written in several steps is in E2E, how frames are cut into bytes is in *)
(* Framing.                                                                *)
(*                                                                         *)
(* send_command writes the length and the body of a frame without a lock.  *)
(* Here the timer's frame is written in two steps and the parent's in one: *)
(* when the two meet, neither is read as it was written, whichever of them *)
(* was begun first.                                                        *)
(***************************************************************************)
EXTENDS Naturals, Sequences, SequencesExt

CONSTANTS
    Peer,       \* names of other users
    NoPeer,     \* current_peer is empty
    MaxLines,   \* bound: lines typed
    MaxTicks,   \* bound: rounds of the timer
    MaxFrames   \* bound: frames that reach the user from others

ASSUME PeerAssumption == NoPeer \notin Peer
ASSUME BoundAssumption == {MaxLines, MaxTicks, MaxFrames} \subseteq Nat

VARIABLES
    parent, child,  \* "running", "ended" or "killed"
    timer,          \* the timer thread: "idle", or "sending" when a length is written
    peer,           \* current_peer
    secret, pending, key,  \* the peers there is a file for
    up,             \* what was written to the server and is not yet read
    broken,         \* an empty line was written, or one frame into another
    down,           \* frames to the child, not yet read
    member,         \* the user is in users[] and the server's socket is open
    server, held,   \* the server runs; another client holds its loop for ever
    typed, ticks, relayed, \* how many lines were typed, rounds of the timer, frames from others
    asked,          \* how many lines were /who, up to where the stream broke
    sealed,         \* how many of these were encrypted for a peer
    listed          \* how many lists of users the child has shown

files  == <<secret, pending, key>>
counts == <<typed, ticks, relayed, asked, sealed>>
vars   == <<parent, child, timer, peer, files, up, broken, down, member, server, held, counts, listed>>

Init == /\ parent = "running" /\ child = "running" /\ timer = "idle"
        /\ peer = NoPeer /\ pending = {}
        \* Exchanges of earlier runs leave a secret and a key.
        /\ key \in SUBSET Peer /\ secret = key
        /\ up = <<>> /\ broken = FALSE /\ down = <<>>
        /\ member = TRUE /\ server = TRUE /\ held = FALSE
        /\ typed = 0 /\ ticks = 0 /\ relayed = 0 /\ asked = 0 /\ sealed = 0 /\ listed = 0

--------------------------------------------------------------------------------
(* The parent. *)

\* Nothing written now is read as it is written.
Damaged == broken \/ timer = "sending"

\* write_all; after the server closed the connection, SIGPIPE may end the process.
Write(q, next) ==
    \/ member /\ up' = q /\ parent' = next
    \/ ~member /\ UNCHANGED up /\ parent' \in {next, "ended"}

\* send_command; the server removes the user at an empty line, and reads nothing after it.
Send(kind, next) ==
    /\ Write(Append(up, IF Damaged THEN "lost" ELSE kind), next)
    /\ broken' = (Damaged \/ kind = "empty")

Typing == parent = "running" /\ typed < MaxLines /\ typed' = typed + 1

\* "/e2e p": an answer if p has asked, a request if not.
E2eCommand(p) ==
    /\ Typing
    /\ peer' = p /\ secret' = secret \cup {p}
    /\ IF p \in pending THEN key' = key \cup {p} /\ pending' = pending \ {p}
       ELSE UNCHANGED <<key, pending>>
    /\ Send("line", "running")
    /\ UNCHANGED <<child, timer, down, member, server, held, ticks, relayed, asked, sealed, listed>>

\* e2e_encrypt finds a key for current_peer.
Seals == peer # NoPeer /\ peer \in key

Count(kind) ==
    IF kind = "who" /\ ~Damaged
    THEN asked' = asked + 1 /\ sealed' = sealed + (IF Seals THEN 1 ELSE 0)
    ELSE UNCHANGED <<asked, sealed>>

\* Seeded fault: what was sent encrypted is sent again as it is.
LineTwice(kind) ==
    /\ Typing
    /\ Write(IF Seals /\ ~Damaged THEN up \o <<"line", kind>> ELSE Append(up, kind), "running")
    /\ broken' = (Damaged \/ kind = "empty")
    /\ Count(kind)
    /\ UNCHANGED <<child, timer, peer, files, down, member, server, held, ticks, relayed, listed>>

\* "/who", a text, or an empty line: encrypted for current_peer if there is a key, sent as it is
\* if not.
Line(kind) ==
    /\ Typing
    /\ Send(IF Seals THEN "line" ELSE kind, "running")
    /\ Count(kind)
    /\ UNCHANGED <<child, timer, peer, files, down, member, server, held, ticks, relayed, listed>>

\* "/quit" goes to the server, with or without a key, and ends the parent.
QuitCommand ==
    /\ Typing /\ Send("quit", "ended")
    /\ UNCHANGED <<child, timer, peer, files, down, member, server, held, ticks, relayed, asked, sealed, listed>>

\* fgets returns NULL: the parent ends and tells nobody.
EndOfInput ==
    /\ parent = "running" /\ parent' = "ended"
    /\ UNCHANGED <<child, timer, peer, files, up, broken, down, member, server, held, counts, listed>>

\* A signal ends both processes.
Kill == /\ parent = "running" \/ child = "running"
        /\ parent' = "killed" /\ child' = "killed"
        /\ UNCHANGED <<timer, peer, files, up, broken, down, member, server, held, counts, listed>>

\* The timer makes a request for current_peer and writes its length...
TimerBegin ==
    /\ parent = "running" /\ timer = "idle" /\ peer # NoPeer
    /\ ticks < MaxTicks /\ ticks' = ticks + 1
    /\ secret' = secret \cup {peer} /\ timer' = "sending"
    /\ Write(Append(up, IF broken THEN "lost" ELSE "head"), "running")
    /\ UNCHANGED <<child, peer, pending, key, broken, down, member, server, held, typed, relayed, asked, sealed, listed>>

\* ... and its body, which follows the length, or what the parent has written in between.
TimerEnd ==
    /\ parent = "running" /\ timer = "sending" /\ timer' = "idle"
    /\ Write(IF up # <<>> /\ Last(up) = "head" THEN Append(Front(up), "line") ELSE Append(up, "body"),
             "running")
    /\ UNCHANGED <<child, peer, files, broken, down, member, server, held, counts, listed>>

--------------------------------------------------------------------------------
(* The child. *)

\* Seeded fault: break instead of continue after an answer was processed.
ReceiveBreaks ==
    /\ child = "running" /\ down # <<>> /\ down' = Tail(down)
    /\ LET f == Head(down) IN
         /\ listed' = IF f.kind = "list" THEN listed + 1 ELSE listed
         /\ pending' = IF f.kind = "init" THEN pending \cup {f.from} ELSE pending
         /\ key' = IF f.kind = "ack" /\ f.from \in secret THEN key \cup {f.from} ELSE key
         /\ child' = IF f.kind = "ack" THEN "ended" ELSE child
    /\ UNCHANGED <<parent, timer, peer, secret, up, broken, member, server, held, counts>>

\* A list is shown, a request or an answer to one is processed; texts change nothing here.
Receive ==
    /\ child = "running" /\ down # <<>> /\ down' = Tail(down)
    /\ LET f == Head(down) IN
         /\ listed' = IF f.kind = "list" THEN listed + 1 ELSE listed
         /\ pending' = IF f.kind = "init" THEN pending \cup {f.from} ELSE pending
         /\ key' = IF f.kind = "ack" /\ f.from \in secret THEN key \cup {f.from} ELSE key
    /\ UNCHANGED <<parent, child, timer, peer, secret, up, broken, member, server, held, counts>>

\* receive_command returns 0: the server has closed the connection.
Closed == ~member /\ down = <<>>

Leave == /\ child = "running" /\ Closed /\ child' = "ended"
         /\ UNCHANGED <<parent, timer, peer, files, up, broken, down, member, server, held, counts, listed>>

--------------------------------------------------------------------------------
(* The server, for this user. *)

Frame(kind, from) == [kind |-> kind, from |-> from]

Reads(kind) == member /\ ~held /\ up # <<>> /\ Head(up) = kind

\* Seeded fault: the list goes to the user who is selected.
ServeWhoElsewhere ==
    /\ Reads("who") /\ up' = Tail(up)
    /\ UNCHANGED <<parent, child, timer, peer, files, broken, down, member, server, held, counts, listed>>
\* /who is answered; other lines may be, as far as this user sees them.
ServeWho ==
    /\ Reads("who") /\ up' = Tail(up)
    /\ down' = Append(down, Frame("list", NoPeer))
    /\ UNCHANGED <<parent, child, timer, peer, files, broken, member, server, held, counts, listed>>

ServeLine ==
    /\ Reads("line") /\ up' = Tail(up)
    /\ down' \in {down, Append(down, Frame("note", NoPeer))}
    /\ UNCHANGED <<parent, child, timer, peer, files, broken, member, server, held, counts, listed>>

\* Nobody holds the other end any more.
Abandoned == parent # "running" /\ child # "running"

\* Seeded fault: only the command is noticed.
HungUpOnQuit == up # <<>> /\ Head(up) = "quit"
\* receive_command returned 0 or -1, or the line is "/quit": an empty line; a length whose bytes
\* are those of several frames; the end of the connection, also within a frame.
HungUp == \/ up # <<>> /\ Head(up) \in {"quit", "empty"}
          \/ up # <<>> /\ Head(up) = "head" /\ (Contains(up, "body") \/ Abandoned)
          \/ up = <<>> /\ Abandoned

\* service_quit.
LetGo ==
    /\ member' = FALSE /\ up' = IF up = <<>> THEN up ELSE Tail(up)
    /\ UNCHANGED <<parent, child, timer, peer, files, broken, down, server, held, counts, listed>>

ServeQuit == member /\ ~held /\ HungUp /\ LetGo

\* What the parent wrote after the timer's length may already be as long as that says.
ReadTorn == Reads("head") /\ Len(up) > 1 /\ LetGo

\* Another user's packet or text is forwarded.
Relay(p, kind) ==
    /\ member /\ ~held /\ relayed < MaxFrames /\ relayed' = relayed + 1
    /\ down' = Append(down, Frame(kind, p))
    /\ UNCHANGED <<parent, child, timer, peer, files, up, broken, member, server, held, typed, ticks, asked, sealed, listed>>

\* A client whose name is taken, or the rest of whose frame never comes, holds the loop for
\* ever (HeldUp of ChatServer).  When it does so for a time, the server is only slow.
Hold == /\ server /\ ~held /\ held' = TRUE
        /\ UNCHANGED <<parent, child, timer, peer, files, up, broken, down, member, server, counts, listed>>

ServerEnds ==
    /\ server /\ server' = FALSE /\ member' = FALSE
    /\ UNCHANGED <<parent, child, timer, peer, files, up, broken, down, held, counts, listed>>

--------------------------------------------------------------------------------
ParentNext == \/ \E p \in Peer : E2eCommand(p)
              \/ \E kind \in {"who", "line", "empty"} : Line(kind)
              \/ QuitCommand \/ EndOfInput \/ Kill \/ TimerBegin \/ TimerEnd
ChildNext == Receive \/ Leave
ServerNext == ServeWho \/ ServeLine \/ ServeQuit
Next == ParentNext \/ ChildNext \/ ServerNext \/ ReadTorn \/ Hold \/ ServerEnds
        \/ \E p \in Peer, kind \in {"init", "ack", "text"} : Relay(p, kind)

Spec == Init /\ [][Next]_vars
\* The child and the server are scheduled; nobody need type, ask, or end.  That the server
\* comes to this user when nobody holds it is LineServed and GoneRemoved of ChatServer.
FairSpec == Spec /\ WF_vars(ChildNext) /\ WF_vars(ServerNext)

--------------------------------------------------------------------------------
(* Properties. *)

\* Every variable keeps its type; there are no more lists than lines that asked for one.
TypeOK ==
    /\ {parent, child} \subseteq {"running", "ended", "killed"}
    /\ timer \in {"idle", "sending"}
    /\ peer \in Peer \cup {NoPeer}
    /\ secret \subseteq Peer /\ pending \subseteq Peer /\ key \subseteq Peer
    /\ up \in Seq({"who", "line", "quit", "empty", "head", "body", "lost"})
    /\ down \in Seq([kind : {"list", "note", "init", "ack", "text"}, from : Peer \cup {NoPeer}])
    /\ {broken, member, server, held} \subseteq BOOLEAN
    /\ typed \in 0..MaxLines /\ ticks \in 0..MaxTicks /\ relayed \in 0..MaxFrames
    /\ sealed <= asked /\ asked <= typed /\ listed + sealed <= asked

\* As long as the server runs, a user whose parent runs is removed only after an empty line or
\* a frame written into another; and the child does not stop before the server let go of the
\* user: apart from those two cases neither process ends the other's session.
StaysWhileRunning == /\ parent = "running" /\ server /\ ~broken => member
                     /\ child = "ended" => ~member /\ down = <<>>

\* After /quit, or an empty line, the server removes the user and the child ends, whatever is on
\* its way, unless another client holds the server for ever.
Quitting == \E i \in DOMAIN up : up[i] \in {"quit", "empty"}

\* A user whose two processes were killed, and be it within a frame, is removed, unless another
\* client (a next run of the same user is one) holds the server for ever.
KilledIsRemoved == parent = "killed" ~> ~member \/ held

\* /who that goes to the server, and no empty line or mixed frames before it, is answered by a
\* list, unless somebody ends first or another client holds the server for ever.
WhoAnswered == \A n \in 1..MaxLines :
    (asked - sealed >= n) ~> (listed >= n \/ ~server \/ held \/ child = "killed")

=================================================================================
