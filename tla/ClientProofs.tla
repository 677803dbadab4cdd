----------------------------- MODULE ClientProofs -----------------------------
(***************************************************************************)
(* For every set of peers and any number of lines, timer rounds and        *)
(* frames: the types and the account of /who lines and lists, and that     *)
(* neither process of a client ends the session of the other, an empty     *)
(* line and mixed frames excepted.                                         *)
(***************************************************************************)
EXTENDS Client, SequenceLemmas

Sent    == {"who", "line", "quit", "empty", "head", "body", "lost"}
Kinds   == {"list", "note", "init", "ack", "text"}
Lists   == [kind : {"list"}, from : Peer \cup {NoPeer}]

\* A request names the peer who sent it.
Frames  == {f \in [kind : Kinds, from : Peer \cup {NoPeer}] : f.kind = "init" => f.from \in Peer}

\* Every line that asked is sealed, on its way, answered on its way, or shown, or was lost with
\* the session.
Account == /\ {asked, sealed, listed} \subseteq Nat
           /\ CountOf(up, {"who"}) + CountOf(down, Lists) + listed + sealed <= asked

\* In a stream q that is not broken (b) there is nothing but frames, and at its end the length
\* of the frame the timer (t) is writing; a running parent (p) has not sent "/quit".  What is
\* written to a user who is not registered (m) never gets into it.
Clean(q, b, p, t, m) ==
    ~b => /\ \A i \in DOMAIN q :
               /\ q[i] \notin {"empty", "body", "lost"}
               /\ q[i] = "head" => i = Len(q) /\ (p = "running" /\ m => t = "sending")
               /\ p = "running" => q[i] # "quit"
          /\ p = "running" /\ t = "sending" /\ m => q # <<>> /\ q[Len(q)] = "head"
Stream == Clean(up, broken, parent, timer, member)

Named == down \in Seq(Frames)

IInv == TypeOK /\ Account /\ StaysWhileRunning /\ Stream /\ Named

--------------------------------------------------------------------------------
(* The stream to the server *)

\* A frame is added, or a length.
LEMMA CleanAppend ==
    ASSUME NEW q \in Seq(Sent), NEW k \in {"who", "line", "quit", "head"}, NEW r, NEW u,
           Clean(q, FALSE, "running", "idle", TRUE),
           k = "quit" => r # "running", u = IF k = "head" THEN "sending" ELSE "idle"
    PROVE  Clean(Append(q, k), FALSE, r, u, TRUE)
<1> DEFINE a == Append(q, k)
<1>1. /\ Len(q) \in Nat /\ DOMAIN q = 1..Len(q) /\ k \in Sent
  BY LenProperties DEF Sent
<1>2. /\ a \in Seq(Sent) /\ a[Len(q) + 1] = k
      /\ \A i \in DOMAIN q : a[i] = q[i]
      /\ \A i \in DOMAIN a : i \in DOMAIN q \/ i = Len(q) + 1
  BY <1>1, AppendElements
<1>3. Len(a) = Len(q) + 1
  BY <1>1, AppendProperties
<1>4. \A i \in DOMAIN q : q[i] \notin {"empty", "body", "lost", "head", "quit"}
  BY DEF Clean
<1> HIDE DEF a
<1>5. \A i \in DOMAIN a : /\ a[i] \notin {"empty", "body", "lost"}
                          /\ a[i] = "head" => i = Len(a) /\ u = "sending"
                          /\ r = "running" => a[i] # "quit"
  BY <1>1, <1>2, <1>3, <1>4
<1>6. u = "sending" => a # <<>> /\ a[Len(a)] = "head"
  BY <1>1, <1>2, <1>3, EmptySeq
<1> QED BY <1>5, <1>6 DEF Clean, a

\* A sequence without its last element.
LEMMA FrontOfSeq ==
    ASSUME NEW S, NEW s \in Seq(S), s # <<>>
    PROVE  /\ Front(s) \in Seq(S) /\ Len(Front(s)) = Len(s) - 1
           /\ \A i \in 1..(Len(s) - 1) : Front(s)[i] = s[i]
           /\ s = Append(Front(s), s[Len(s)])
<1>1. Len(s) \in Nat /\ Len(s) # 0
  BY LenProperties, EmptySeq
<1>2. 1 \in 1..(Len(s) + 1) /\ Len(s) - 1 \in 0..Len(s) /\ Len(s) \in 1..Len(s)
  BY <1>1
<1>3. /\ Front(s) \in Seq(S) /\ Len(Front(s)) = Len(s) - 1
      /\ \A i \in 1..(Len(s) - 1) : Front(s)[i] = s[i]
  <2> DEFINE n == Len(s) - 1
             f == SubSeq(s, 1, n)
  <2>1. 1 \in Int /\ n \in Int /\ \A i \in 1..n : i \in 1..Len(s)
    BY <1>1
  <2>2. \A i \in 1..n : s[i] \in S
    BY <2>1, ElementOfSeq
  <2>3. f = Front(s)
    BY DEF Front
  <2> HIDE DEF f
  <2>4. /\ f \in Seq(S) /\ Len(f) = IF 1 <= n THEN n - 1 + 1 ELSE 0
        /\ \A i \in 1..(n - 1 + 1) : f[i] = s[1 + i - 1]
    BY <2>1, <2>2, SubSeqProperties DEF f
  <2>5. Len(f) = n
    <3>1. n \in Nat
      BY <1>1
    <3>2. (IF 1 <= n THEN n - 1 + 1 ELSE 0) = n
      <4> HIDE DEF n
      <4> QED BY <3>1
    <3> QED BY <2>4, <3>2
  <2>6. \A i \in 1..n : i \in 1..(n - 1 + 1) /\ 1 + i - 1 = i
    BY <2>1
  <2>7. \A i \in 1..n : f[i] = s[i]
    BY <2>4, <2>6
  <2> QED BY <2>3, <2>4, <2>5, <2>7
<1>4. s[Len(s)] \in S
  BY <1>2, ElementOfSeq
<1>5. /\ Append(Front(s), s[Len(s)]) \in Seq(S) /\ Len(Append(Front(s), s[Len(s)])) = Len(s)
      /\ \A i \in 1..Len(s) : Append(Front(s), s[Len(s)])[i] = s[i]
  BY <1>1, <1>3, <1>4, AppendProperties
<1> QED BY <1>3, <1>5, SeqEqual

\* The body of the timer's frame follows its length.
LEMMA CleanEnd ==
    ASSUME NEW q \in Seq(Sent), Clean(q, FALSE, "running", "sending", TRUE)
    PROVE  /\ q # <<>> /\ Last(q) = "head" /\ Append(Front(q), "line") \in Seq(Sent)
           /\ CountOf(Append(Front(q), "line"), {"who"}) = CountOf(q, {"who"})
           /\ Clean(Append(Front(q), "line"), FALSE, "running", "idle", TRUE)
<1> DEFINE f == Front(q)
<1>1. q # <<>> /\ q[Len(q)] = "head" /\ Len(q) \in Nat /\ DOMAIN q = 1..Len(q)
  BY LenProperties DEF Clean
<1>2. f \in Seq(Sent) /\ Len(f) = Len(q) - 1 /\ \A i \in 1..(Len(q) - 1) : f[i] = q[i]
  BY <1>1, FrontOfSeq
<1>3. q = Append(f, "head")
  BY <1>1, FrontOfSeq
<1>4. DOMAIN f = 1..(Len(q) - 1)
  BY <1>2, LenProperties
<1>5. {"line", "head"} \subseteq Sent
  BY DEF Sent
<1> HIDE DEF f
<1>6. /\ CountOf(Append(f, "line"), {"who"}) = CountOf(f, {"who"}) + 0
      /\ CountOf(Append(f, "head"), {"who"}) = CountOf(f, {"who"}) + 0
  BY <1>2, <1>5, CountAppend
<1>7. Clean(f, FALSE, "running", "idle", TRUE)
  BY <1>1, <1>2, <1>4 DEF Clean
<1>8. Clean(Append(f, "line"), FALSE, "running", "idle", TRUE)
  BY <1>2, <1>7, CleanAppend
<1>9. Append(f, "line") \in Seq(Sent)
  BY <1>2, <1>5, AppendProperties
<1> QED BY <1>1, <1>3, <1>6, <1>8, <1>9 DEF Last, f

\* The server takes the first frame; when that is only a length, the user is gone.
LEMMA CleanTail ==
    ASSUME NEW q \in Seq(Sent), q # <<>>, NEW b \in BOOLEAN, NEW p, NEW t, NEW m \in BOOLEAN,
           Clean(q, b, p, t, m)
    PROVE  /\ Clean(Tail(q), b, p, t, FALSE)
           /\ Head(q) # "head" => Clean(Tail(q), b, p, t, m)
           /\ ~b => /\ Head(q) \notin {"empty", "body", "lost"}
                    /\ p = "running" => Head(q) # "quit"
                    /\ Head(q) = "head" => Len(q) = 1
<1>1. /\ Len(q) \in Nat /\ DOMAIN q = 1..Len(q) /\ Head(q) = q[1] /\ 1 \in DOMAIN q
      /\ Tail(q) \in Seq(Sent)
      /\ \A i \in DOMAIN Tail(q) : i + 1 \in DOMAIN q /\ Tail(q)[i] = q[i + 1]
  BY TailProperties, LenProperties
<1>2. Len(Tail(q)) = Len(q) - 1 /\ DOMAIN Tail(q) = 1..(Len(q) - 1)
  BY <1>1, HeadTailProperties, LenProperties
<1>3. ASSUME ~b
      PROVE  \A i \in DOMAIN Tail(q) :
               /\ Tail(q)[i] \notin {"empty", "body", "lost"}
               /\ Tail(q)[i] = "head" => i = Len(Tail(q)) /\ (p = "running" /\ m => t = "sending")
               /\ p = "running" => Tail(q)[i] # "quit"
  BY <1>1, <1>2, <1>3 DEF Clean
<1>4. ASSUME ~b, p = "running", t = "sending", m, Head(q) # "head"
      PROVE  Tail(q) # <<>> /\ Tail(q)[Len(Tail(q))] = "head"
  <2>1. q[Len(q)] = "head"
    BY <1>4 DEF Clean
  <2>2. Len(q) > 1 /\ Len(q) - 1 \in DOMAIN Tail(q)
    BY <1>1, <1>2, <1>4, <2>1
  <2>3. Tail(q)[Len(q) - 1] = q[Len(q) - 1 + 1]
    BY <1>1, <2>2
  <2>4. Tail(q) # <<>>
    <3>1. Len(<<>>) = 0 /\ Len(Tail(q)) # 0
      BY <1>1, <1>2, <2>2, EmptySeq
    <3> QED BY <3>1
  <2> QED BY <1>1, <1>2, <2>1, <2>3, <2>4
<1>5. Clean(Tail(q), b, p, t, FALSE)
  BY <1>3 DEF Clean
<1>6. Head(q) # "head" => Clean(Tail(q), b, p, t, m)
  BY <1>3, <1>4 DEF Clean
<1> QED BY <1>1, <1>5, <1>6 DEF Clean

--------------------------------------------------------------------------------
(* The queues *)

\* A queue of such frames is a queue of frames.
LEMMA FramesAreTyped ==
    ASSUME NEW q \in Seq(Frames)
    PROVE  q \in Seq([kind : {"list", "note", "init", "ack", "text"}, from : Peer \cup {NoPeer}])
<1> DEFINE All == [kind : {"list", "note", "init", "ack", "text"}, from : Peer \cup {NoPeer}]
<1>1. Frames \subseteq All
  BY DEF Frames, Kinds
<1>2. /\ Len(q) \in Nat /\ q \in [1..Len(q) -> Frames]
  BY LenProperties
<1> HIDE DEF All
<1>3. q \in [1..Len(q) -> All]
  BY <1>1, <1>2
<1>4. q \in Seq(All)
  BY <1>2, <1>3
<1> QED BY <1>4 DEF All

\* What the invariant says of the two queues.
LEMMA QueueFacts ==
    ASSUME IInv
    PROVE  /\ up \in Seq(Sent) /\ DOMAIN up = 1..Len(up) /\ Len(up) \in Nat
           /\ broken \in BOOLEAN /\ member \in BOOLEAN
           /\ Clean(up, broken, parent, timer, member)
           /\ down \in Seq(Frames)
           /\ CountOf(up, {"who"}) \in Nat /\ CountOf(down, Lists) \in Nat
           /\ {asked, sealed, listed, typed, relayed} \subseteq Nat
           /\ CountOf(up, {"who"}) + CountOf(down, Lists) + listed + sealed <= asked
<1>1. up \in Seq(Sent) /\ down \in Seq(Frames) /\ typed \in Nat /\ relayed \in Nat
  BY BoundAssumption DEF IInv, TypeOK, Named, Sent
<1>2. broken \in BOOLEAN /\ member \in BOOLEAN /\ Clean(up, broken, parent, timer, member)
  BY DEF IInv, TypeOK, Stream
<1> QED BY <1>1, <1>2, LenProperties, CountType DEF IInv, Account

LEMMA UpAppend ==
    ASSUME IInv, NEW k \in Sent
    PROVE  /\ Append(up, k) \in Seq(Sent)
           /\ CountOf(Append(up, k), {"who"}) = CountOf(up, {"who"}) + (IF k = "who" THEN 1 ELSE 0)
<1>1. up \in Seq(Sent)
  BY QueueFacts
<1>2. CountOf(Append(up, k), {"who"}) = CountOf(up, {"who"}) + (IF k \in {"who"} THEN 1 ELSE 0)
  BY <1>1, CountAppend
<1> QED BY <1>1, <1>2, AppendProperties

LEMMA UpTail ==
    ASSUME IInv, up # <<>>, up' = Tail(up)
    PROVE  /\ up' \in Seq(Sent) /\ CountOf(up', {"who"}) \in Nat
           /\ CountOf(up, {"who"}) = CountOf(up', {"who"}) + (IF Head(up) = "who" THEN 1 ELSE 0)
<1>1. up \in Seq(Sent)
  BY QueueFacts
<1>2. CountOf(up, {"who"}) = CountOf(Tail(up), {"who"}) + (IF Head(up) = "who" THEN 1 ELSE 0)
  BY <1>1, CountTail
<1>3. Tail(up) \in Seq(Sent)
  BY <1>1, TailProperties
<1>4. CountOf(Tail(up), {"who"}) \in Nat
  BY <1>3, CountType
<1> QED BY <1>2, <1>3, <1>4

LEMMA DownAppend ==
    ASSUME IInv, NEW f \in Frames, down' = Append(down, f)
    PROVE  /\ down' \in Seq(Frames)
           /\ CountOf(down', Lists) = CountOf(down, Lists) + (IF f.kind = "list" THEN 1 ELSE 0)
<1>1. down \in Seq(Frames)
  BY QueueFacts
<1>2. CountOf(Append(down, f), Lists) = CountOf(down, Lists) + (IF f \in Lists THEN 1 ELSE 0)
  BY <1>1, CountAppend
<1>3. f \in Lists <=> f.kind = "list"
  BY DEF Frames, Kinds, Lists
<1> QED BY <1>1, <1>2, <1>3, AppendProperties

LEMMA DownTail ==
    ASSUME IInv, down # <<>>, down' = Tail(down)
    PROVE  /\ down' \in Seq(Frames) /\ Head(down) \in Frames /\ CountOf(down', Lists) \in Nat
           /\ CountOf(down, Lists) = CountOf(down', Lists) + (IF Head(down).kind = "list" THEN 1 ELSE 0)
<1>1. down \in Seq(Frames)
  BY QueueFacts
<1>2. Tail(down) \in Seq(Frames) /\ Head(down) \in Frames
  BY <1>1, HeadTailProperties
<1>3. CountOf(down, Lists) = CountOf(Tail(down), Lists) + (IF Head(down) \in Lists THEN 1 ELSE 0)
  BY <1>1, CountTail
<1>4. Head(down) \in Lists <=> Head(down).kind = "list"
  BY <1>2 DEF Frames, Kinds, Lists
<1>5. CountOf(Tail(down), Lists) \in Nat
  BY <1>2, CountType
<1> QED BY <1>2, <1>3, <1>4, <1>5

LEMMA Spare ==
    ASSUME NEW a \in Nat, NEW t \in Nat, NEW b \in Nat, NEW s \in Nat, NEW d \in Nat, a + d + t <= b + s
    PROVE  a + t <= b + s
OBVIOUS

\* What is sent, shown, or sealed of a /who line is paid for by a line that asked: arithmetic.
LEMMA Balance ==
    ASSUME NEW v \in Nat, NEW w \in Nat, NEW l \in Nat, NEW m \in Nat, NEW d \in Nat,
           NEW s \in Nat, NEW t \in Nat, NEW n \in Nat, NEW o \in Nat, NEW a \in Nat, NEW b \in Nat,
           w + m + o <= v + l + n + d, v + l + n + s <= a, a + d + t <= b + s
    PROVE  w + m + o + t <= b
OBVIOUS

LEMMA BalanceShown ==
    ASSUME NEW n \in Nat, NEW s \in Nat, NEW t \in Nat, NEW a \in Nat, NEW b \in Nat,
           n + s <= a, a + t <= b + s
    PROVE  n + t <= b
OBVIOUS

--------------------------------------------------------------------------------
(* The parent *)

\* The parent or its timer writes, so that the stream to a registered user is q; d lines that
\* ask are added to it.
LEMMA WriteStep ==
    ASSUME IInv, parent = "running", NEW q \in Seq(Sent), NEW next \in {"running", "ended"}, Write(q, next),
           NEW d \in Nat, CountOf(q, {"who"}) <= CountOf(up, {"who"}) + d,
           asked' \in Nat, sealed' \in Nat, asked + d + sealed' <= asked' + sealed,
           sealed' <= asked', asked' <= typed', typed' \in 0..MaxLines, ticks' \in 0..MaxTicks,
           timer' \in {"idle", "sending"}, broken' \in BOOLEAN, ~broken' => ~broken,
           member => Clean(q, broken', next, timer', TRUE),
           UNCHANGED <<child, down, member, server, held, relayed, listed>>,
           peer' \in Peer \cup {NoPeer}, secret' \subseteq Peer, pending' \subseteq Peer, key' \subseteq Peer
    PROVE  IInv'
<1>1. /\ CountOf(up, {"who"}) \in Nat /\ CountOf(down, Lists) \in Nat
      /\ {asked, sealed, listed, typed, relayed} \subseteq Nat
      /\ CountOf(up, {"who"}) + CountOf(down, Lists) + listed + sealed <= asked
      /\ up \in Seq(Sent) /\ member \in BOOLEAN
  BY QueueFacts DEF IInv, TypeOK
<1>2. /\ up' \in Seq(Sent) /\ parent' \in {"running", "ended"} /\ CountOf(up', {"who"}) \in Nat
      /\ CountOf(up', {"who"}) <= CountOf(up, {"who"}) + d
  <2>1. CASE up' = q
    BY <2>1, CountType DEF Write
  <2>2. CASE up' = up
    <3>1. CountOf(up', {"who"}) = CountOf(up, {"who"})
      BY <2>2
    <3>2. CountOf(up', {"who"}) <= CountOf(up, {"who"}) + d
      BY <1>1, <3>1, SMTT(30)
    <3> QED BY <1>1, <2>2, <3>1, <3>2 DEF Write
  <2> QED BY <2>1, <2>2 DEF Write
<1>3. Stream'
  <2>1. CASE member
    BY <2>1, <1>1 DEF Write, Stream
  <2>2. CASE ~member
    <3>1. Clean(up, broken, parent, timer, member) /\ broken \in BOOLEAN
      BY QueueFacts
    <3>2. Clean(up, broken', parent', timer', FALSE)
      BY <3>1 DEF Clean
    <3> QED BY <2>2, <3>2, <1>1 DEF Write, Stream
  <2> QED BY <2>1, <2>2
<1>4. CountOf(up', {"who"}) + CountOf(down', Lists) + listed' + sealed' <= asked'
  <2> DEFINE v == CountOf(up, {"who"})
             w == CountOf(up', {"who"})
             l == CountOf(down, Lists)
             m == CountOf(down', Lists)
  <2>1. /\ v \in Nat /\ w \in Nat /\ l \in Nat /\ w <= v + d
        /\ v + l + listed + sealed <= asked
    BY <1>1, <1>2
  <2>2. m = l /\ listed' = listed
    <3>1. down' = down /\ listed' = listed
      OBVIOUS
    <3> QED BY <3>1
  <2>3. listed \in Nat /\ sealed \in Nat /\ asked \in Nat
    BY <1>1
  <2> HIDE DEF v, w, l, m
  <2>4. w + l + listed <= v + l + listed + d
    BY <2>1, <2>3
  <2>5. w + l + listed + sealed' <= asked'
    BY <2>1, <2>3, <2>4, Balance
  <2> QED BY <2>2, <2>5 DEF w, m
<1>5. TypeOK'
  <2>1. listed' + sealed' <= asked'
    <3>1. listed \in Nat /\ sealed \in Nat /\ asked \in Nat /\ listed + sealed <= asked
      BY <1>1 DEF IInv, TypeOK
    <3>2. listed' = listed /\ asked + sealed' <= asked' + sealed
      <4>1. /\ asked \in Nat /\ sealed' \in Nat /\ asked' \in Nat /\ sealed \in Nat /\ d \in Nat
            /\ asked + d + sealed' <= asked' + sealed
        BY <1>1
      <4>2. asked + sealed' <= asked' + sealed
        BY <4>1, Spare
      <4> QED BY <4>2
    <3>3. listed + sealed' <= asked'
      BY <3>1, <3>2, BalanceShown
    <3> QED BY <3>2, <3>3
  <2> QED BY <1>2, <2>1 DEF IInv, TypeOK, Sent
<1>6. Account' /\ Named'
  BY <1>1, <1>4 DEF Account, Named, IInv
<1>7. StaysWhileRunning'
  BY DEF IInv, StaysWhileRunning
<1> QED BY <1>3, <1>5, <1>6, <1>7 DEF IInv

\* A line is sent, or lost because the server let go of the user.
LEMMA SendStep ==
    ASSUME IInv, NEW k \in {"who", "line", "quit", "empty"}, NEW next \in {"running", "ended"},
           parent = "running", Send(k, next), k = "quit" => next = "ended",
           UNCHANGED <<child, timer, down, member, server, held, ticks, relayed, listed>>,
           peer' \in Peer \cup {NoPeer}, secret' \subseteq Peer, pending' \subseteq Peer, key' \subseteq Peer,
           typed < MaxLines, typed' = typed + 1,
           \/ k = "who" /\ ~Damaged /\ asked' = asked + 1 /\ sealed' = sealed
           \/ k # "who" /\ asked' = asked + 1 /\ sealed' = sealed + 1
           \/ (k # "who" \/ Damaged) /\ UNCHANGED <<asked, sealed>>
    PROVE  IInv'
<1> DEFINE w == IF Damaged THEN "lost" ELSE k
           d == IF w = "who" THEN 1 ELSE 0
           q == Append(up, w)
<1>1. /\ {asked, sealed, typed} \subseteq Nat /\ up \in Seq(Sent)
      /\ sealed <= asked /\ asked <= typed /\ typed \in 0..MaxLines /\ ticks \in 0..MaxTicks
      /\ timer \in {"idle", "sending"} /\ broken \in BOOLEAN
  BY QueueFacts DEF IInv, TypeOK
<1>2. /\ w \in Sent /\ d \in Nat
  BY DEF Sent
<1>3. Write(q, next) /\ broken' = (Damaged \/ k = "empty")
  BY DEF Send
<1>4. broken' \in BOOLEAN /\ (~broken' => ~broken)
  BY <1>1, <1>3 DEF Damaged
<1>5. q \in Seq(Sent) /\ CountOf(q, {"who"}) = CountOf(up, {"who"}) + d
  BY <1>2, UpAppend
<1>6. /\ asked' \in Nat /\ sealed' \in Nat /\ asked + d + sealed' <= asked' + sealed
      /\ sealed' <= asked' /\ asked' <= typed'
  BY <1>1
<1>7. member => Clean(q, broken', next, timer', TRUE)
  <2> SUFFICES ASSUME member PROVE Clean(q, broken', next, timer', TRUE)
    OBVIOUS
  <2>1. CASE broken'
    BY <2>1 DEF Clean
  <2>2. CASE ~broken'
    <3>1. w = k /\ ~broken /\ timer = "idle" /\ k \in {"who", "line", "quit"}
      BY <2>2, <1>1, <1>3 DEF Damaged
    <3>2. Clean(up, FALSE, "running", "idle", TRUE)
      BY <3>1 DEF IInv, Stream, Clean
    <3>3. Clean(Append(up, k), FALSE, next, "idle", TRUE)
      BY <3>1, <3>2, <1>1, CleanAppend
    <3> QED BY <3>1, <3>3, <2>2 DEF Clean
  <2> QED BY <2>1, <2>2, <1>4
<1>8. typed' \in 0..MaxLines /\ ticks' \in 0..MaxTicks /\ timer' \in {"idle", "sending"}
  BY <1>1, BoundAssumption
<1>9. CountOf(q, {"who"}) <= CountOf(up, {"who"}) + d
  BY <1>2, <1>5, CountType
<1> HIDE DEF d, q
<1> QED BY <1>2, <1>3, <1>4, <1>5, <1>6, <1>7, <1>8, <1>9, WriteStep

\* The length of a frame of the timer is written, or its body.
LEMMA TimerStep ==
    ASSUME IInv, TimerBegin \/ TimerEnd
    PROVE  IInv'
<1> USE DEF counts, files
<1>1. /\ asked' \in Nat /\ sealed' \in Nat /\ asked + 0 + sealed' <= asked' + sealed
      /\ sealed' <= asked' /\ asked' <= typed' /\ typed' \in 0..MaxLines
      /\ UNCHANGED <<broken, child, down, member, server, held, relayed, listed>>
      /\ broken' \in BOOLEAN /\ parent = "running"
  BY QueueFacts, SMTT(30) DEF TimerBegin, TimerEnd, IInv, TypeOK
<1>2. /\ peer' \in Peer \cup {NoPeer} /\ secret' \subseteq Peer /\ pending' \subseteq Peer
      /\ key' \subseteq Peer /\ up \in Seq(Sent)
  BY QueueFacts DEF TimerBegin, TimerEnd, IInv, TypeOK
<1>3. CountOf(up, {"who"}) \in Nat
  BY QueueFacts
<1>4. ASSUME NEW q \in Seq(Sent), Write(q, "running"), CountOf(q, {"who"}) <= CountOf(up, {"who"}) + 0,
             ticks' \in 0..MaxTicks, timer' \in {"idle", "sending"},
             member => Clean(q, broken', "running", timer', TRUE)
      PROVE  IInv'
  BY <1>1, <1>2, <1>4, WriteStep
<1>5. ASSUME NEW k \in Sent \ {"who"}
      PROVE  Append(up, k) \in Seq(Sent) /\ CountOf(Append(up, k), {"who"}) <= CountOf(up, {"who"}) + 0
  BY <1>3, UpAppend
<1>6. CASE TimerBegin
  <2> DEFINE k == IF broken THEN "lost" ELSE "head"
             q == Append(up, k)
  <2>1. k \in Sent \ {"who"} /\ Write(q, "running") /\ timer' = "sending" /\ timer = "idle"
    BY <1>6 DEF TimerBegin, Sent
  <2>2. ticks' \in 0..MaxTicks
    BY <1>6, BoundAssumption DEF TimerBegin, IInv, TypeOK
  <2>3. ASSUME member PROVE Clean(q, broken', "running", timer', TRUE)
    <3>1. CASE broken
      BY <3>1, <1>1 DEF Clean
    <3>2. CASE ~broken
      <4>1. Clean(up, FALSE, "running", "idle", TRUE)
        BY <3>2, <2>1, <2>3, <1>1 DEF IInv, Stream, Clean
      <4>2. Clean(Append(up, "head"), FALSE, "running", "sending", TRUE)
        BY <4>1, <1>2, CleanAppend
      <4> QED BY <4>2, <3>2, <2>1, <1>1 DEF Clean
    <3> QED BY <3>1, <3>2
  <2>4. q \in Seq(Sent) /\ CountOf(q, {"who"}) <= CountOf(up, {"who"}) + 0
    BY <2>1, <1>5
  <2> HIDE DEF q
  <2> QED BY <2>1, <2>2, <2>3, <2>4, <1>4
<1>7. CASE TimerEnd
  <2>1. timer' = "idle" /\ timer = "sending" /\ ticks' \in 0..MaxTicks
    BY <1>7 DEF TimerEnd, IInv, TypeOK
  <2>2. CASE member /\ ~broken
    <3>1. Clean(up, FALSE, "running", "sending", TRUE)
      BY <2>1, <2>2, <1>1 DEF IInv, Stream, Clean
    <3> DEFINE q == Append(Front(up), "line")
    <3>2. /\ up # <<>> /\ Last(up) = "head" /\ q \in Seq(Sent)
          /\ CountOf(q, {"who"}) = CountOf(up, {"who"})
          /\ Clean(q, FALSE, "running", "idle", TRUE)
      BY <3>1, <1>2, CleanEnd
    <3>3. Write(q, "running")
      BY <1>7, <3>2 DEF TimerEnd
    <3>4. Clean(q, broken', "running", timer', TRUE)
      BY <3>2, <2>1, <2>2, <1>1 DEF Clean
    <3>5. CountOf(q, {"who"}) <= CountOf(up, {"who"}) + 0
      BY <3>2, <1>3
    <3> HIDE DEF q
    <3> QED BY <3>2, <3>3, <3>4, <3>5, <2>1, <1>4
  <2>3. CASE broken /\ ~(up # <<>> /\ Last(up) = "head")
    <3>1. Write(Append(up, "body"), "running")
      BY <1>7, <2>3 DEF TimerEnd
    <3>2. "body" \in Sent \ {"who"}
      BY DEF Sent
    <3>3. Clean(Append(up, "body"), broken', "running", timer', TRUE)
      BY <2>3, <1>1 DEF Clean
    <3> QED BY <3>1, <3>2, <3>3, <2>1, <1>4, <1>5
  <2>4. CASE broken /\ up # <<>> /\ Last(up) = "head"
    <3> DEFINE q == Append(Front(up), "line")
    <3>1. up = Append(Front(up), "head") /\ Front(up) \in Seq(Sent)
      BY <2>4, <1>2, FrontOfSeq DEF Last
    <3>2. {"line", "head"} \subseteq Sent
      BY DEF Sent
    <3>3. /\ CountOf(q, {"who"}) = CountOf(Front(up), {"who"}) + 0
          /\ CountOf(Append(Front(up), "head"), {"who"}) = CountOf(Front(up), {"who"}) + 0
      BY <3>1, <3>2, CountAppend
    <3>4. q \in Seq(Sent)
      BY <3>1, <3>2, AppendProperties
    <3>5. Write(q, "running")
      BY <1>7, <2>4 DEF TimerEnd
    <3>6. CountOf(q, {"who"}) <= CountOf(up, {"who"}) + 0
      <4>1. CountOf(up, {"who"}) = CountOf(Front(up), {"who"}) + 0
        BY <3>1, <3>3
      <4>2. CountOf(q, {"who"}) = CountOf(up, {"who"})
        BY <3>3, <4>1
      <4> QED BY <4>2, <1>3
    <3> HIDE DEF q
    <3>7. Clean(q, broken', "running", timer', TRUE)
      BY <2>4, <1>1 DEF Clean
    <3> QED BY <3>4, <3>5, <3>6, <3>7, <2>1, <1>4
  <2>5. CASE ~member
    <3> DEFINE q == IF up # <<>> /\ Last(up) = "head" THEN Append(Front(up), "line") ELSE Append(up, "body")
    <3>1. Write(up, "running")
      BY <1>7, <2>5 DEF TimerEnd, Write
    <3>2. CountOf(up, {"who"}) <= CountOf(up, {"who"}) + 0
      BY <1>3
    <3> QED BY <3>1, <3>2, <2>1, <2>5, <1>2, <1>4
  <2>6. broken \in BOOLEAN /\ member \in BOOLEAN
    BY DEF IInv, TypeOK
  <2> QED BY <2>2, <2>3, <2>4, <2>5, <2>6
<1> QED BY <1>6, <1>7

LEMMA ParentStep ==
    ASSUME IInv, ParentNext
    PROVE  IInv'
<1> USE DEF counts, files
<1>1. ASSUME NEW p \in Peer, E2eCommand(p) PROVE IInv'
  <2>1. /\ peer' \in Peer \cup {NoPeer} /\ secret' \subseteq Peer /\ pending' \subseteq Peer
        /\ key' \subseteq Peer
    BY <1>1 DEF E2eCommand, IInv, TypeOK
  <2> QED BY <1>1, <2>1, SendStep DEF E2eCommand, Typing
<1>2. ASSUME NEW kind \in {"who", "line", "empty"}, Line(kind) PROVE IInv'
  <2>1. /\ peer' \in Peer \cup {NoPeer} /\ secret' \subseteq Peer /\ pending' \subseteq Peer
        /\ key' \subseteq Peer
    BY <1>2 DEF Line, IInv, TypeOK
  <2>2. {asked, sealed} \subseteq Nat
    BY QueueFacts
  <2>3. CASE Seals
    BY <1>2, <2>1, <2>2, <2>3, SendStep DEF Line, Count, Typing
  <2>4. CASE ~Seals
    BY <1>2, <2>1, <2>2, <2>4, SendStep DEF Line, Count, Typing
  <2> QED BY <2>3, <2>4
<1>3. CASE QuitCommand
  <2>1. /\ peer' \in Peer \cup {NoPeer} /\ secret' \subseteq Peer /\ pending' \subseteq Peer
        /\ key' \subseteq Peer
    BY <1>3 DEF QuitCommand, IInv, TypeOK
  <2> QED BY <1>3, <2>1, SendStep DEF QuitCommand, Typing
<1>4. CASE EndOfInput \/ Kill
  BY <1>4 DEF EndOfInput, Kill, IInv, TypeOK, Account, StaysWhileRunning, Stream, Clean, Named
<1> QED BY <1>1, <1>2, <1>3, <1>4, TimerStep DEF ParentNext

--------------------------------------------------------------------------------
(* The child and the server *)

\* A step that moves frames and lists, and may end the session or the child.
LEMMA FlowStep ==
    ASSUME IInv, UNCHANGED <<parent, timer, broken, peer, secret, held, typed, ticks, asked, sealed>>,
           child' \in {"running", "ended", "killed"}, pending' \subseteq Peer, key' \subseteq Peer,
           {member', server'} \subseteq BOOLEAN, relayed' \in 0..MaxFrames, listed' \in Nat,
           up' \in Seq(Sent), down' \in Seq(Frames),
           CountOf(up', {"who"}) + CountOf(down', Lists) + listed' <=
             CountOf(up, {"who"}) + CountOf(down, Lists) + listed,
           CountOf(up', {"who"}) \in Nat, CountOf(down', Lists) \in Nat,
           parent = "running" /\ server' /\ ~broken => member',
           child' = "ended" => ~member' /\ down' = <<>>,
           Clean(up', broken, parent, timer, member')
    PROVE  IInv'
<1>1. /\ CountOf(up, {"who"}) \in Nat /\ CountOf(down, Lists) \in Nat
      /\ {asked, sealed, listed, typed, relayed} \subseteq Nat
      /\ CountOf(up, {"who"}) + CountOf(down, Lists) + listed + sealed <= asked
  BY QueueFacts
<1>2. CountOf(up', {"who"}) + CountOf(down', Lists) + listed' + sealed' <= asked'
  <2>1. /\ listed \in Nat /\ sealed \in Nat /\ asked \in Nat /\ sealed' = sealed /\ asked' = asked
    BY <1>1
  <2>2. asked + 0 + sealed' <= asked' + sealed /\ 0 \in Nat /\ sealed' \in Nat /\ asked' \in Nat
    BY <2>1
  <2>3. CountOf(up', {"who"}) + CountOf(down', Lists) + listed' <=
             CountOf(up, {"who"}) + CountOf(down, Lists) + listed + 0
    BY <1>1, <2>1
  <2> QED BY <1>1, <2>1, <2>2, <2>3, Balance, SMTT(30)
<1>3. TypeOK'
  <2>1. /\ CountOf(up', {"who"}) \in Nat /\ CountOf(down', Lists) \in Nat
        /\ listed' \in Nat /\ sealed' \in Nat /\ asked' \in Nat
    BY <1>1
  <2>2. /\ listed \in Nat /\ sealed \in Nat /\ asked \in Nat
        /\ CountOf(up, {"who"}) + CountOf(down, Lists) + listed + sealed <= asked
        /\ sealed' = sealed /\ asked' = asked
    BY <1>1
  <2>3. listed' + sealed' <= asked'
    <3> DEFINE v == CountOf(up', {"who"})
               m == CountOf(down', Lists)
               n == listed'
               t == sealed'
    <3>1. v \in Nat /\ m \in Nat /\ n \in Nat /\ t \in Nat /\ v + m + n + t <= asked'
      BY <1>2, <2>1
    <3> HIDE DEF v, m, n, t
    <3>2. n + t <= asked'
      BY <2>1, <3>1
    <3> QED BY <3>2 DEF n, t
  <2> QED BY <2>3, FramesAreTyped DEF IInv, TypeOK, Sent
<1>4. Account' /\ Named'
  BY <1>1, <1>2 DEF Account, Named
<1> QED BY <1>3, <1>4 DEF IInv, StaysWhileRunning, Stream

LEMMA ChildStep ==
    ASSUME IInv, ChildNext
    PROVE  IInv'
<1> USE DEF counts, files
<1>1. CASE Receive
  <2>1. /\ down' \in Seq(Frames) /\ Head(down) \in Frames /\ CountOf(down', Lists) \in Nat
        /\ CountOf(down, Lists) = CountOf(down', Lists) + (IF Head(down).kind = "list" THEN 1 ELSE 0)
        /\ down # <<>>
    BY <1>1, DownTail DEF Receive
  <2>2. /\ listed' = IF Head(down).kind = "list" THEN listed + 1 ELSE listed
        /\ UNCHANGED <<parent, child, timer, peer, secret, up, broken, member, server, held, counts>>
    BY <1>1 DEF Receive
  <2>3. pending' \subseteq Peer /\ key' \subseteq Peer
    BY <1>1, <2>1 DEF Receive, Frames, IInv, TypeOK
  <2>4. /\ CountOf(up', {"who"}) = CountOf(up, {"who"}) /\ CountOf(up, {"who"}) \in Nat
        /\ listed \in Nat /\ up' \in Seq(Sent)
    BY <2>2, QueueFacts
  <2>5. /\ listed' \in Nat /\ CountOf(down, Lists) \in Nat
        /\ CountOf(up', {"who"}) + CountOf(down', Lists) + listed' <=
             CountOf(up, {"who"}) + CountOf(down, Lists) + listed
    BY <2>1, <2>2, <2>4, QueueFacts, SMTT(30)
  <2>6. /\ child' \in {"running", "ended", "killed"} /\ child' # "ended"
        /\ {member', server'} \subseteq BOOLEAN /\ relayed' \in 0..MaxFrames
        /\ parent = "running" /\ server' /\ ~broken => member'
        /\ Clean(up', broken, parent, timer, member')
    BY <1>1, <2>1, <2>2 DEF Receive, IInv, TypeOK, StaysWhileRunning, Stream
  <2> QED BY <2>1, <2>2, <2>3, <2>4, <2>5, <2>6, FlowStep
<1>2. CASE Leave
  BY <1>2 DEF Leave, Closed, IInv, TypeOK, Account, StaysWhileRunning, Stream, Named
<1> QED BY <1>1, <1>2 DEF ChildNext

\* What the server takes from its queue and what it adds to the other.
LEMMA ServeStep ==
    ASSUME IInv, member, up # <<>>, Head(up) # "head", up' = Tail(up), NEW f \in Frames,
           down' = down \/ down' = Append(down, f), f.kind = "list" => Head(up) = "who",
           UNCHANGED <<parent, child, timer, peer, files, broken, member, server, held, counts, listed>>
    PROVE  IInv'
<1> USE DEF counts, files
<1>1. /\ up' \in Seq(Sent) /\ CountOf(up', {"who"}) \in Nat
      /\ CountOf(up, {"who"}) = CountOf(up', {"who"}) + (IF Head(up) = "who" THEN 1 ELSE 0)
  BY UpTail
<1>0. Clean(up', broken, parent, timer, member')
  BY CleanTail, QueueFacts DEF IInv, Stream
<1>2. /\ down' \in Seq(Frames) /\ CountOf(down', Lists) \in Nat /\ CountOf(down, Lists) \in Nat
      /\ CountOf(down', Lists) <= CountOf(down, Lists) + (IF f.kind = "list" THEN 1 ELSE 0)
      /\ listed \in Nat
  <2>1. CASE down' = down
    BY <2>1, QueueFacts
  <2>2. CASE down' = Append(down, f)
    <3>1. /\ down' \in Seq(Frames)
          /\ CountOf(down', Lists) = CountOf(down, Lists) + (IF f.kind = "list" THEN 1 ELSE 0)
      BY <2>2, DownAppend
    <3>2. CountOf(down', Lists) \in Nat /\ CountOf(down, Lists) \in Nat /\ listed \in Nat
      BY <3>1, CountType, QueueFacts
    <3> QED BY <3>1, <3>2
  <2> QED BY <2>1, <2>2
<1>3. CountOf(up', {"who"}) + CountOf(down', Lists) + listed' <=
        CountOf(up, {"who"}) + CountOf(down, Lists) + listed
  BY <1>1, <1>2
<1>4. /\ child' \in {"running", "ended", "killed"} /\ child' # "ended"
      /\ pending' \subseteq Peer /\ key' \subseteq Peer
      /\ {member', server'} \subseteq BOOLEAN /\ relayed' \in 0..MaxFrames /\ listed' \in Nat
      /\ parent = "running" /\ server' /\ ~broken => member'
  BY <1>2 DEF IInv, TypeOK, StaysWhileRunning
<1> QED BY <1>0, <1>1, <1>2, <1>3, <1>4, FlowStep

\* A running parent's user is let go of only when the stream is broken.
LEMMA HungUpHasCause ==
    ASSUME IInv, HungUp
    PROVE  parent # "running" \/ broken
<1> SUFFICES ASSUME parent = "running", ~broken PROVE FALSE
  BY DEF IInv, TypeOK
<1>1. /\ up \in Seq(Sent) /\ DOMAIN up = 1..Len(up) /\ broken \in BOOLEAN /\ member \in BOOLEAN
      /\ Clean(up, broken, parent, timer, member)
  BY QueueFacts
<1>2. up # <<>> => Head(up) \notin {"quit", "empty"}
  BY <1>1, CleanTail
<1>3. ~Contains(up, "body")
  BY <1>1 DEF Contains, Clean
<1> QED BY <1>2, <1>3 DEF HungUp, Abandoned

\* The server lets go of the user.
LEMMA RemovalStep ==
    ASSUME IInv, LetGo, parent # "running" \/ broken
    PROVE  IInv'
<1> USE DEF counts, files
<1>1. Clean(up', broken, parent, timer, FALSE)
  <2>1. /\ up \in Seq(Sent) /\ Clean(up, broken, parent, timer, member)
        /\ broken \in BOOLEAN /\ member \in BOOLEAN
    BY QueueFacts
  <2>2. Clean(up, broken, parent, timer, FALSE)
    BY <2>1 DEF Clean
  <2>3. up # <<>> => Clean(Tail(up), broken, parent, timer, FALSE)
    BY <2>1, CleanTail
  <2> QED BY <2>2, <2>3 DEF LetGo
<1>2. /\ up' \in Seq(Sent) /\ CountOf(up', {"who"}) \in Nat
      /\ CountOf(up', {"who"}) <= CountOf(up, {"who"})
  <2>1. CASE up = <<>>
    BY <2>1, QueueFacts DEF LetGo
  <2>2. CASE up # <<>>
    <3>1. up' = Tail(up)
      BY <2>2 DEF LetGo
    <3> QED BY <2>2, <3>1, UpTail
  <2> QED BY <2>1, <2>2
<1>3. /\ CountOf(down', Lists) = CountOf(down, Lists) /\ CountOf(down, Lists) \in Nat
      /\ listed' = listed /\ listed \in Nat /\ CountOf(up, {"who"}) \in Nat /\ down' \in Seq(Frames)
  BY QueueFacts DEF LetGo
<1>4. CountOf(up', {"who"}) + CountOf(down', Lists) + listed' <=
        CountOf(up, {"who"}) + CountOf(down, Lists) + listed
  BY <1>2, <1>3
<1>5. /\ child' \in {"running", "ended", "killed"} /\ member' = FALSE
      /\ child' = "ended" => down' = <<>>
      /\ pending' \subseteq Peer /\ key' \subseteq Peer /\ server' \in BOOLEAN
      /\ relayed' \in 0..MaxFrames
      /\ UNCHANGED <<parent, timer, broken, peer, secret, held, typed, ticks, asked, sealed>>
  BY DEF LetGo, IInv, TypeOK, StaysWhileRunning
<1>6. parent = "running" /\ server' /\ ~broken => member'
  OBVIOUS
<1> QED BY <1>1, <1>2, <1>3, <1>4, <1>5, <1>6, FlowStep

LEMMA ServerStep ==
    ASSUME IInv, ServerNext
    PROVE  IInv'
<1> USE DEF counts, files
<1>1. Frame("list", NoPeer) \in Frames /\ Frame("note", NoPeer) \in Frames
  BY DEF Frame, Frames, Kinds
<1>2. CASE ServeWho
  BY <1>1, <1>2, ServeStep DEF ServeWho, Reads
<1>3. CASE ServeLine
  <2>1. Frame("note", NoPeer).kind # "list"
    BY DEF Frame
  <2> QED BY <1>1, <1>3, <2>1, ServeStep DEF ServeLine, Reads
<1>4. CASE ServeQuit
  BY <1>4, HungUpHasCause, RemovalStep DEF ServeQuit
<1> QED BY <1>2, <1>3, <1>4 DEF ServerNext

LEMMA TornStep ==
    ASSUME IInv, ReadTorn
    PROVE  IInv'
<1>1. broken
  <2>1. /\ up # <<>> /\ Head(up) = "head" /\ Len(up) > 1 /\ up \in Seq(Sent) /\ Len(up) \in Nat
        /\ Clean(up, broken, parent, timer, member) /\ broken \in BOOLEAN /\ member \in BOOLEAN
    BY QueueFacts DEF ReadTorn, Reads
  <2>2. ~broken => Len(up) = 1
    BY <2>1, CleanTail
  <2>3. Len(up) # 1
    <3> DEFINE n == Len(up)
    <3>1. n > 1 /\ n \in Nat
      BY <2>1
    <3> HIDE DEF n
    <3>2. n # 1
      BY <3>1
    <3> QED BY <3>2 DEF n
  <2> QED BY <2>2, <2>3, Zenon
<1> QED BY <1>1, RemovalStep DEF ReadTorn

LEMMA RelayStep ==
    ASSUME IInv, NEW p \in Peer, NEW kind \in {"init", "ack", "text"}, Relay(p, kind)
    PROVE  IInv'
<1> USE DEF counts, files
<1>1. Frame(kind, p) \in Frames /\ Frame(kind, p).kind # "list"
  BY DEF Frame, Frames, Kinds
<1>2. /\ down' \in Seq(Frames) /\ CountOf(down', Lists) = CountOf(down, Lists)
      /\ CountOf(down, Lists) \in Nat
  BY <1>1, DownAppend, QueueFacts DEF Relay
<1>3. /\ up' \in Seq(Sent) /\ CountOf(up', {"who"}) = CountOf(up, {"who"})
      /\ CountOf(up, {"who"}) \in Nat /\ listed' = listed /\ listed \in Nat
      /\ Clean(up', broken, parent, timer, member')
  BY QueueFacts DEF Relay, IInv, Stream
<1>4. CountOf(up', {"who"}) + CountOf(down', Lists) + listed' <=
        CountOf(up, {"who"}) + CountOf(down, Lists) + listed
  BY <1>2, <1>3
<1>5. /\ child' \in {"running", "ended", "killed"} /\ child' # "ended"
      /\ pending' \subseteq Peer /\ key' \subseteq Peer
      /\ {member', server'} \subseteq BOOLEAN /\ relayed' \in 0..MaxFrames
      /\ parent = "running" /\ server' /\ ~broken => member'
      /\ UNCHANGED <<parent, timer, broken, peer, secret, held, typed, ticks, asked, sealed>>
  BY BoundAssumption DEF Relay, IInv, TypeOK, StaysWhileRunning
<1> QED BY <1>2, <1>3, <1>4, <1>5, FlowStep

LEMMA ServerEndsStep ==
    ASSUME IInv, ServerEnds \/ Hold
    PROVE  IInv'
<1> USE DEF counts, files
<1>1. CASE Hold
  BY <1>1 DEF Hold, IInv, TypeOK, Account, StaysWhileRunning, Stream, Named
<1>2. CASE ServerEnds
  <2>1. Clean(up, broken, parent, timer, FALSE)
    BY QueueFacts DEF Clean
  <2>2. Stream'
    BY <1>2, <2>1 DEF ServerEnds, Stream
  <2>3. TypeOK' /\ Account' /\ StaysWhileRunning' /\ Named'
    BY <1>2 DEF ServerEnds, IInv, TypeOK, Account, StaysWhileRunning, Named
  <2> QED BY <2>2, <2>3 DEF IInv
<1> QED BY <1>1, <1>2

--------------------------------------------------------------------------------
(* The theorems *)

LEMMA InitInv == Init => IInv
<1> SUFFICES ASSUME Init PROVE IInv
  OBVIOUS
<1>1. up \in Seq(Sent) /\ down \in Seq(Frames) /\ up = <<>> /\ down = <<>>
  BY DEF Init
<1>2. CountOf(up, {"who"}) = 0 /\ CountOf(down, Lists) = 0
  BY <1>1, CountEmpty
<1>3. TypeOK
  <2>1. MaxLines \in Nat /\ MaxTicks \in Nat /\ MaxFrames \in Nat
    BY BoundAssumption
  <2>2. 0 \in 0..MaxLines /\ 0 \in 0..MaxTicks /\ 0 \in 0..MaxFrames
    BY <2>1
  <2>3. up \in Seq(Sent) /\ down \in Seq([kind : {"list", "note", "init", "ack", "text"}, from : Peer \cup {NoPeer}])
    BY <1>1, EmptySeq
  <2>4. sealed <= asked /\ asked <= typed /\ listed + sealed <= asked
    BY DEF Init
  <2> QED BY <2>2, <2>3, <2>4 DEF Init, TypeOK, Sent
<1>4. Stream
  BY <1>1, EmptySeq DEF Init, Stream, Clean
<1> QED BY <1>1, <1>2, <1>3, <1>4 DEF Init, IInv, Account, Named, StaysWhileRunning

LEMMA NextInv == IInv /\ [Next]_vars => IInv'
<1> SUFFICES ASSUME IInv, [Next]_vars PROVE IInv'
  OBVIOUS
<1>1. CASE Next
  BY <1>1, ParentStep, ChildStep, ServerStep, TornStep, ServerEndsStep, RelayStep DEF Next
<1>2. CASE UNCHANGED vars
  BY <1>2 DEF vars, files, counts, IInv, TypeOK, Account, StaysWhileRunning, Stream, Named
<1> QED BY <1>1, <1>2

LEMMA Invariant == Spec => []IInv
BY InitInv, NextInv, PTL DEF Spec

\* A client keeps its types, and never shows more lists than it sent /who lines in the clear.
THEOREM ClientTypes == Spec => []TypeOK
<1>1. IInv => TypeOK
  BY DEF IInv
<1> QED BY <1>1, Invariant, PTL

\* While the parent reads the terminal and the server runs the user stays in users[], until an
\* empty line is typed or the timer's frame and a line are written into each other; and the
\* child stops only when the server has let go of the user and nothing is left to show.
THEOREM NeitherEndsTheOther == Spec => []StaysWhileRunning
<1>1. IInv => StaysWhileRunning
  BY DEF IInv
<1> QED BY <1>1, Invariant, PTL

===============================================================================
