-------------------------------- MODULE Framing --------------------------------
(***************************************************************************)
(* One direction of a session as bytes (services.c and the message format  *)
(* of aes.c, the same in src/client and src/server): threads of a process  *)
(* write frames to a socket, each as a length and a body with calls of     *)
(* their own; the socket buffers what fits; the other program reads.  From *)
(* client to server the threads are main and the timer, and the child of   *)
(* the client keeps a copy of the socket; from server to client there is   *)
(* one thread and no copy.                                                 *)
(*                                                                         *)
(* Bytes are grouped into units: the length is Header units, the body one  *)
(* unit for the initialisation vector, one per unit of text and one for    *)
(* the tag.  A unit says what was written, which is all that ciphertext    *)
(* tells a reader: a body opens if it is exactly one body that was sealed, *)
(* and bytes taken for a length that are not one announce anything.        *)
(***************************************************************************)
EXTENDS Naturals, Sequences, FiniteSets

CONSTANTS
    Writer,     \* threads that write to the socket
    Main,       \* the one whose return from main ends the process
    Keeper,     \* other processes with a copy of the socket, which never write
    Header,     \* units of a length
    Texts,      \* lengths of texts, in units
    Capacity,   \* units the socket buffers
    Limit,      \* units of the buffer for a body, ENCRYPTED_BUFFER_SIZE
    MaxFrames   \* bound: MaxFrames[w] frames are sent by w

Overhead == 2

ASSUME WriterAssumption == Main \in Writer
ASSUME UnitAssumption == /\ {Header, Capacity} \subseteq Nat \ {0} /\ Limit \in Nat
                         /\ Texts \subseteq Nat /\ MaxFrames \in [Writer -> Nat]
ASSUME TextsFit == \A t \in Texts : Overhead + t <= Limit

VARIABLES
    running,  \* the writing process runs
    keepers,  \* who else holds its end of the socket
    busy,     \* threads in send_command
    frame,    \* the frame each thread writes, or wrote last
    at,       \* units of it that are written
    wire,     \* units written and not yet read
    part,     \* what receive_command reads: "length" or "body"
    need,     \* len of the read_all in progress
    have,     \* what that read_all has read
    received, \* the frames whose texts receive_command returned
    result    \* "reading", or why the reader's loop ended: "closed" (0), "failed" (-1)

writing == <<running, keepers, busy, frame, at>>
reading == <<part, need, have, received, result>>
vars == <<writing, wire, reading>>

Frame == [by : Writer, nr : Nat, text : Nat]
Unit(f, i) == [of |-> f, pos |-> i]
Body(f) == Overhead + f.text
Size(f) == Header + Body(f)
Less(m, n) == IF m < n THEN m ELSE n

Init == /\ running = TRUE /\ keepers = Keeper
        /\ busy = {} /\ at = [w \in Writer |-> 0] /\ wire = <<>>
        /\ frame = [w \in Writer |-> [by |-> w, nr |-> 0, text |-> 0]]
        /\ part = "length" /\ need = Header /\ have = <<>>
        /\ received = <<>> /\ result = "reading"

--------------------------------------------------------------------------------
(* The writing process. *)

\* A thread calls send_command; encryption takes no other thread's turn.
Begin(w, t) ==
    /\ running /\ w \notin busy /\ frame[w].nr < MaxFrames[w]
    /\ busy' = busy \cup {w} /\ at' = [at EXCEPT ![w] = 0]
    /\ frame' = [frame EXCEPT ![w] = [by |-> w, nr |-> @.nr + 1, text |-> t]]
    /\ UNCHANGED <<running, keepers, wire, reading>>

\* What the current write_all has left: of the length, then of the body.
Rest(w) == (IF at[w] < Header THEN Header ELSE Size(frame[w])) - at[w]

Chunk(w, k) == [i \in 1..k |-> Unit(frame[w], at[w] + i)]

\* Where write_all goes on after write took k units.
\* Seeded fault: a short write is taken for a whole one.
WrittenOnce(w, k) == at[w] + Rest(w)
Written(w, k) == at[w] + k

\* write(): as much as fits now, while another thread may write between two calls.
Write(w) ==
    /\ running /\ w \in busy /\ result = "reading" /\ Len(wire) < Capacity
    /\ LET k == Less(Rest(w), Capacity - Len(wire))
       IN  /\ wire' = wire \o Chunk(w, k)
           /\ at' = [at EXCEPT ![w] = Written(w, k)]
           /\ busy' = IF at'[w] = Size(frame[w]) THEN busy \ {w} ELSE busy
    /\ UNCHANGED <<running, keepers, frame, reading>>

\* The reader closed the connection: SIGPIPE ends the process.
Broken == /\ running /\ busy # {} /\ result # "reading"
          /\ running' = FALSE
          /\ UNCHANGED <<keepers, busy, frame, at, wire, reading>>

\* main returns, between two of its own frames; the other threads end where they are.
Return == /\ running /\ Main \notin busy
          /\ running' = FALSE
          /\ UNCHANGED <<keepers, busy, frame, at, wire, reading>>

\* A signal ends all processes; what was not acknowledged may be lost.
Kill == /\ running \/ keepers # {}
        /\ running' = FALSE /\ keepers' = {}
        /\ \E n \in 0..Len(wire) : wire' = SubSeq(wire, 1, n)
        /\ UNCHANGED <<busy, frame, at, reading>>

\* The child leaves its loop when the other end closed the connection.
KeeperCloses == /\ keepers # {} /\ result # "reading" /\ keepers' = {}
                /\ UNCHANGED <<running, busy, frame, at, wire, reading>>

--------------------------------------------------------------------------------
(* receive_command. *)

\* Seeded fault: read_all returns after the first read().
CompleteAtOnce(n) == n > 0 \/ n = need
\* read_all has what it was asked for.
Complete(n) == n = need

\* Seeded fault: read_all goes on when read() returns 0.
NoEnd == FALSE
\* read() returns 0: nobody holds the other end any more.
AtEnd == wire = <<>> /\ ~running /\ keepers = {}

\* read(): several units at once are several of these steps.
Read == /\ result = "reading" /\ wire # <<>> /\ ~Complete(Len(have))
        /\ have' = Append(have, Head(wire)) /\ wire' = Tail(wire)
        /\ UNCHANGED <<writing, part, need, received, result>>

EndOfFile == /\ result = "reading" /\ ~Complete(Len(have)) /\ AtEnd
             /\ result' = "closed"
             /\ UNCHANGED <<writing, wire, part, need, have, received>>

\* The numbers the units of a length may stand for.
Announced(units) ==
    IF /\ Len(units) = Header
       /\ \A i \in DOMAIN units : units[i] = Unit(units[1].of, i)
    THEN {Body(units[1].of)}
    ELSE 0..(Limit + 1)

\* Seeded fault: the tag is not looked at.
OpensUntagged(units) == Len(units) >= Overhead
\* decrypt_message: the tag matches what was sealed, as a whole, and nothing else.
Opens(units) == /\ Len(units) >= Overhead
                /\ Len(units) = Body(units[1].of)
                /\ \A i \in DOMAIN units : units[i] = Unit(units[1].of, Header + i)

TakeLength ==
    /\ result = "reading" /\ part = "length" /\ Complete(Len(have))
    /\ \E len \in Announced(have) :
        \/ /\ len = 0 /\ result' = "closed"         \* read_all of nothing returns 0
           /\ UNCHANGED <<part, need, have>>
        \/ /\ len > Limit /\ result' = "failed"
           /\ UNCHANGED <<part, need, have>>
        \/ /\ len \in 1..Limit /\ part' = "body" /\ need' = len /\ have' = <<>>
           /\ UNCHANGED result
    /\ UNCHANGED <<writing, wire, received>>

\* Seeded fault: the next length is read with the size of the last body.
TakeBodyKeepsNeed ==
    /\ result = "reading" /\ part = "body" /\ Complete(Len(have)) /\ Opens(have)
    /\ received' = Append(received, have[1].of)
    /\ result' = IF have[1].of.text = 0 THEN "closed" ELSE "reading"
    /\ part' = "length" /\ have' = <<>>
    /\ UNCHANGED <<writing, wire, need>>

\* A text is returned to the loop; one of no length is 0 to it, as the end is.
TakeBody ==
    /\ result = "reading" /\ part = "body" /\ Complete(Len(have)) /\ Opens(have)
    /\ received' = Append(received, have[1].of)
    /\ result' = IF have[1].of.text = 0 THEN "closed" ELSE "reading"
    /\ part' = "length" /\ need' = Header /\ have' = <<>>
    /\ UNCHANGED <<writing, wire>>

Reject ==
    /\ result = "reading" /\ part = "body" /\ Complete(Len(have)) /\ ~Opens(have)
    /\ result' = "failed"
    /\ UNCHANGED <<writing, wire, part, need, have, received>>

--------------------------------------------------------------------------------
WriterNext == (\E w \in Writer : Write(w) \/ \E t \in Texts : Begin(w, t))
              \/ Broken \/ Return \/ Kill \/ KeeperCloses
ReaderNext == Read \/ EndOfFile \/ TakeLength \/ TakeBody \/ Reject
Next == WriterNext \/ ReaderNext

Spec == Init /\ [][Next]_vars
\* Threads in the middle of a write and the reader are scheduled; a child whose
\* read returned goes on.  Nobody need send, return or be killed.
FairSpec == /\ Spec /\ WF_vars(ReaderNext) /\ WF_vars(KeeperCloses)
            /\ \A w \in Writer : WF_vars(Write(w))

--------------------------------------------------------------------------------
(* Properties. *)

\* Every variable keeps its type (services.c).
TypeOK ==
    /\ running \in BOOLEAN /\ keepers \subseteq Keeper /\ busy \subseteq Writer
    /\ frame \in [Writer -> Frame] /\ at \in [Writer -> Nat]
    /\ \A w \in Writer : at[w] <= Size(frame[w])
    /\ wire \in Seq([of : Frame, pos : Nat]) /\ have \in Seq([of : Frame, pos : Nat])
    /\ Len(wire) <= Capacity
    /\ part \in {"length", "body"} /\ need \in Nat /\ Len(have) <= need
    /\ received \in Seq(Frame) /\ result \in {"reading", "closed", "failed"}

\* The receiver reads a length and then exactly the bytes of that message: no
\* length is too large and no body fails to open (receive_command).
FrameIsWhole == result # "failed"

\* What is received was sent, and of each thread it is the first frames it sent, in
\* order, none left out and none twice, however the writes are cut and mixed.
Upto(w) == {i \in DOMAIN received : received[i].by = w}
ReceivedInOrder ==
    \A i \in DOMAIN received :
        LET w == received[i].by
            n == Cardinality({j \in Upto(w) : j <= i})
        IN  received[i].nr = n /\ n <= frame[w].nr /\ (n = frame[w].nr => received[i] = frame[w])

\* The reader does not stay in the middle of a frame: the rest of it comes, or
\* the connection ends.
InFrame == result = "reading" /\ (part = "body" \/ have # <<>>)
FrameIsFinished == InFrame ~> ~InFrame

\* A frame that was begun is received, unless the connection ends.
Received(w, n) == \E i \in DOMAIN received : received[i].by = w /\ received[i].nr = n
Delivered == \A w \in Writer : \A n \in 1..MaxFrames[w] :
    (frame[w].nr >= n) ~> (Received(w, n) \/ result # "reading")

\* The connection is a queue of frames: those written to their last unit and not yet
\* received, by the numbers the one thread gave them.
IsLast(u) == u.pos = Size(u.of)
Under ==
    LET s == have \o wire
        whole == {s[i].of : i \in {j \in DOMAIN s : IsLast(s[j])}}
    IN  [n \in 1..Cardinality(whole) |-> CHOOSE f \in whole : f.nr = Len(received) + n]
NoText(f) == f.text = 0
Queue == INSTANCE FrameQueue WITH
    Frame <- UNION {[by : {w}, nr : 1..MaxFrames[w], text : Texts] : w \in Writer},
    Empty <- NoText, queue <- Under, received <- received,
    sending <- (running \/ keepers # {}), receiving <- (result = "reading")
FrameQueue == Queue!Spec

================================================================================
