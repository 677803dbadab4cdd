----------------------------- MODULE FramingProofs -----------------------------
(***************************************************************************)
(* Theorems about Framing, for every size of the socket's buffer and of    *)
(* frames: with one thread that writes the receiver never meets a frame    *)
(* that is not whole, and the stream implements a queue of frames; with    *)
(* any number of threads it receives only what was sent, of each thread    *)
(* in order, none left out and none twice.                                 *)
(***************************************************************************)
EXTENDS Framing, SequenceLemmas, FiniteSetTheorems, TLAPS

Units == [of : Frame, pos : Nat]

USE DEF Overhead

LEMMA SizeType ==
    ASSUME NEW f \in Frame
    PROVE  /\ Body(f) \in Nat /\ Body(f) = 2 + f.text /\ Size(f) \in Nat
           /\ Size(f) = Header + Body(f) /\ Header \in Nat /\ Header > 0
BY UnitAssumption DEF Frame, Body, Size

\* A chunk is the next units of a thread's frame, as many as there is room for.
LEMMA ChunkType ==
    ASSUME TypeOK, NEW w \in Writer, NEW k \in Nat
    PROVE  /\ Chunk(w, k) \in Seq(Units) /\ Len(Chunk(w, k)) = k
           /\ \A i \in 1..k : Chunk(w, k)[i] = Unit(frame[w], at[w] + i)
<1>1. \A i \in 1..k : Unit(frame[w], at[w] + i) \in Units
  BY DEF TypeOK, Unit, Units
<1>2. Chunk(w, k) \in [1..k -> Units]
  BY <1>1 DEF Chunk
<1>3. Chunk(w, k) \in Seq(Units) /\ Len(Chunk(w, k)) = k
  BY <1>2, SMT
<1> QED BY <1>3 DEF Chunk

LEMMA RestType ==
    ASSUME TypeOK, NEW w \in Writer
    PROVE  Rest(w) \in Nat /\ at[w] \in Nat /\ at[w] + Rest(w) <= Size(frame[w])
           /\ Size(frame[w]) \in Nat /\ frame[w] \in Frame
           /\ (at[w] < Size(frame[w]) => Rest(w) > 0)
<1>1. frame[w] \in Frame /\ at[w] \in Nat /\ at[w] <= Size(frame[w])
  BY DEF TypeOK
<1> QED BY <1>1, SizeType DEF Rest

\* Every variable keeps its type, for any number of threads.
THEOREM TypesAreKept == Spec => []TypeOK
<1>1. Init => TypeOK
  <2> SUFFICES ASSUME Init PROVE TypeOK
    OBVIOUS
  <2>1. \A w \in Writer : [by |-> w, nr |-> 0, text |-> 0] \in Frame
    BY DEF Frame
  <2>2. frame \in [Writer -> Frame] /\ at \in [Writer -> Nat]
    BY <2>1 DEF Init
  <2>3. \A w \in Writer : at[w] <= Size(frame[w])
    <3> TAKE w \in Writer
    <3>1. frame[w] \in Frame /\ at[w] = 0
      BY <2>2 DEF Init
    <3> QED BY <3>1, SizeType
  <2>4. wire = <<>> /\ have = <<>> /\ received = <<>>
    BY DEF Init
  <2>5. /\ running \in BOOLEAN /\ keepers \subseteq Keeper /\ busy \subseteq Writer
        /\ part \in {"length", "body"} /\ need = Header /\ result \in {"reading", "closed", "failed"}
    BY DEF Init
  <2> QED BY <2>2, <2>3, <2>4, <2>5, UnitAssumption DEF TypeOK
<1>2. TypeOK /\ [Next]_vars => TypeOK'
  <2> SUFFICES ASSUME TypeOK, [Next]_vars PROVE TypeOK'
    OBVIOUS
  <2>1. ASSUME NEW w \in Writer, NEW t \in Texts, Begin(w, t) PROVE TypeOK'
    <3>1. t \in Nat /\ frame[w] \in Frame
      BY UnitAssumption DEF TypeOK
    <3>2. [by |-> w, nr |-> frame[w].nr + 1, text |-> t] \in Frame
      BY <3>1 DEF Frame
    <3>3. frame' \in [Writer -> Frame] /\ at' \in [Writer -> Nat]
      BY <2>1, <3>2 DEF TypeOK, Begin
    <3>4. \A v \in Writer : at'[v] <= Size(frame'[v])
      <4> TAKE v \in Writer
      <4>1. CASE v = w
        <5>1. at'[v] = 0 /\ frame'[v] \in Frame
          BY <2>1, <3>3, <4>1 DEF TypeOK, Begin
        <5> QED BY <5>1, SizeType
      <4>2. CASE v # w
        BY <2>1, <4>2 DEF TypeOK, Begin
      <4> QED BY <4>1, <4>2
    <3> QED BY <2>1, <3>3, <3>4 DEF TypeOK, Begin, reading
  <2>2. ASSUME NEW w \in Writer, Write(w) PROVE TypeOK'
    <3> DEFINE k == Less(Rest(w), Capacity - Len(wire))
    <3>0. wire \in Seq(Units) /\ Len(wire) \in Nat /\ Capacity \in Nat /\ Len(wire) < Capacity
      BY <2>2, UnitAssumption, LenProperties DEF TypeOK, Units, Write
    <3>1. k \in Nat /\ k <= Rest(w) /\ k <= Capacity - Len(wire)
      BY <3>0, RestType DEF Less
    <3>2. wire' = wire \o Chunk(w, k) /\ at' = [at EXCEPT ![w] = at[w] + k]
      BY <2>2 DEF Write, Written
    <3> HIDE DEF k
    <3>3. wire' \in Seq(Units) /\ Len(wire') = Len(wire) + k
      BY <3>0, <3>1, <3>2, ChunkType, ConcatProperties
    <3>4. at' \in [Writer -> Nat] /\ \A v \in Writer : at'[v] <= Size(frame[v])
      BY <3>1, <3>2, RestType DEF TypeOK
    <3> QED BY <2>2, <3>0, <3>1, <3>3, <3>4 DEF TypeOK, Write, Units, reading
  <2>3. CASE Broken \/ Return \/ KeeperCloses
    BY <2>3 DEF TypeOK, Broken, Return, KeeperCloses, reading
  <2>4. CASE Kill
    <3>1. PICK n \in 0..Len(wire) : wire' = SubSeq(wire, 1, n)
      BY <2>4 DEF Kill
    <3>2. wire \in Seq(Units) /\ Len(wire) \in Nat /\ Capacity \in Nat /\ Len(wire) <= Capacity
      BY UnitAssumption, LenProperties DEF TypeOK, Units
    <3>3. wire' \in Seq(Units) /\ Len(wire') = n
      BY <3>1, <3>2, SubSeqProperties, ElementOfSeq
    <3>4. running' = FALSE /\ keepers' = {} /\ UNCHANGED <<busy, frame, at, part, need, have, received, result>>
      BY <2>4 DEF Kill, reading
    <3>5. Len(wire') <= Capacity
      BY <3>2, <3>3
    <3> HIDE <3>1
    <3> QED BY <3>3, <3>4, <3>5 DEF TypeOK, Units
  <2>5. CASE Read
    <3>1. wire \in Seq(Units) /\ have \in Seq(Units) /\ wire # <<>>
      BY <2>5 DEF TypeOK, Read, Units
    <3>2. Head(wire) \in Units /\ Tail(wire) \in Seq(Units) /\ Len(Tail(wire)) = Len(wire) - 1
      BY <3>1, HeadTailProperties
    <3>3. Append(have, Head(wire)) \in Seq(Units) /\ Len(Append(have, Head(wire))) = Len(have) + 1
      BY <3>1, <3>2, AppendProperties
    <3>4. Len(have) \in Nat /\ Len(wire) \in Nat /\ Capacity \in Nat /\ Len(have) # need
      BY <2>5, <3>1, LenProperties, UnitAssumption DEF Read, Complete
    <3> QED BY <2>5, <3>2, <3>3, <3>4 DEF TypeOK, Read, Units, writing
  <2>6. CASE EndOfFile \/ Reject
    BY <2>6 DEF TypeOK, EndOfFile, Reject, writing
  <2>7. CASE TakeLength
    <3>1. Len(<<>>) = 0 /\ <<>> \in Seq([of : Frame, pos : Nat])
      OBVIOUS
    <3>2. UNCHANGED <<running, keepers, busy, frame, at, wire, received>>
      BY <2>7 DEF TakeLength, writing
    <3>3. PICK len \in Announced(have) :
            \/ result' = "closed" /\ UNCHANGED <<part, need, have>>
            \/ result' = "failed" /\ UNCHANGED <<part, need, have>>
            \/ len \in 1..Limit /\ part' = "body" /\ need' = len /\ have' = <<>> /\ UNCHANGED result
      BY <2>7 DEF TakeLength
    <3>4. CASE have' = <<>> /\ need' \in 1..Limit /\ part' = "body" /\ UNCHANGED result
      BY <3>1, <3>2, <3>4 DEF TypeOK
    <3>5. CASE result' \in {"closed", "failed"} /\ UNCHANGED <<part, need, have>>
      BY <3>2, <3>5 DEF TypeOK
    <3> QED BY <3>3, <3>4, <3>5
  <2>8. CASE TakeBody
    <3>1. have \in Seq(Units) /\ Len(have) >= 2
      BY <2>8 DEF TypeOK, TakeBody, Opens, Units
    <3>2. have[1].of \in Frame
      <4>1. Len(have) \in Nat
        BY <3>1, LenProperties
      <4>2. 1 \in 1..Len(have)
        BY <3>1, <4>1
      <4>3. have[1] \in Units
        BY <3>1, <4>2, ElementOfSeq
      <4> QED BY <4>3 DEF Units
    <3>3. received' \in Seq(Frame)
      BY <2>8, <3>2, AppendProperties DEF TypeOK, TakeBody
    <3>4. have' = <<>> /\ need' = Header /\ Header \in Nat /\ part' = "length" /\ result' \in {"closed", "reading"}
      BY <2>8, UnitAssumption DEF TakeBody
    <3> QED BY <2>8, <3>3, <3>4 DEF TypeOK, TakeBody, writing
  <2>9. CASE UNCHANGED vars
    BY <2>9 DEF TypeOK, vars, writing, reading
  <2> QED BY <2>1, <2>2, <2>3, <2>4, <2>5, <2>6, <2>7, <2>8, <2>9 DEF Next, WriterNext, ReaderNext
<1> QED BY <1>1, <1>2, PTL DEF Spec

--------------------------------------------------------------------------------
(* One thread writes.  What was written and not yet taken from the stream, as a *)
(* sequence of units, is in line: it begins where the reader is, ends where the *)
(* thread is, and goes through the frames without a gap.                        *)

Flow == have \o wire
Mine == frame[Main]

\* Where a unit stands, in relation to any unit before it.
Straight(s) ==
    /\ \A i, j \in DOMAIN s : i <= j =>
          IF s[i].pos + (j - i) <= Size(s[i].of)
          THEN s[j] = Unit(s[i].of, s[i].pos + (j - i))
          ELSE s[j].of.nr > s[i].of.nr
    /\ \A i \in DOMAIN s : i + 1 \in DOMAIN s /\ s[i].pos = Size(s[i].of) =>
          s[i + 1].pos = 1 /\ s[i + 1].of.nr = s[i].of.nr + 1

\* The units are of frames that were sent.
Known(s) == \A i \in DOMAIN s :
    /\ s[i].pos \in 1..Size(s[i].of) /\ s[i].of.by = Main /\ s[i].of.text \in Texts
    /\ s[i].of.nr \in 1..Mine.nr /\ (s[i].of.nr = Mine.nr => s[i].of = Mine)

\* The last unit is the one the thread wrote last.
Tip(s) == running /\ s # <<>> =>
    IF at[Main] > 0 THEN s[Len(s)] = Unit(Mine, at[Main])
    ELSE s[Len(s)].of.nr = Mine.nr - 1 /\ s[Len(s)].pos = Size(s[Len(s)].of)

\* The first unit is the one the reader expects.
First(s) == s # <<>> =>
    /\ s[1].of.nr = Len(received) + 1
    /\ s[1].pos = IF part = "length" THEN 1 ELSE Header + 1
    /\ part = "body" => Body(s[1].of) = need

\* When the reader has taken all there is, the thread goes on where the reader is.
Met(s) == running /\ s = <<>> =>
    IF part = "length"
    THEN IF Main \in busy THEN at[Main] = 0 /\ Mine.nr = Len(received) + 1
         ELSE Mine.nr = Len(received)
    ELSE /\ Main \in busy /\ at[Main] = Header
         /\ Body(Mine) = need /\ Mine.nr = Len(received) + 1

Working == /\ Mine.by = Main
           /\ IF Main \in busy THEN Mine.nr > 0 /\ at[Main] < Size(Mine)
              ELSE Mine.nr = 0 \/ at[Main] = Size(Mine)
           /\ Mine.nr > 0 => Mine.text \in Texts

Got == \A i \in DOMAIN received :
    /\ received[i].by = Main /\ received[i].nr = i /\ i <= Mine.nr
    /\ i = Mine.nr => received[i] = Mine

Awaited == IF part = "length" THEN need = Header ELSE need \in 2..Limit

InLine(s) == Straight(s) /\ Known(s) /\ Tip(s) /\ First(s) /\ Met(s)
OneInv == InLine(Flow) /\ Working /\ Got /\ Awaited /\ FrameIsWhole

\* The elements of two sequences put together.
LEMMA Joined ==
    ASSUME NEW h \in Seq(Units), NEW w \in Seq(Units)
    PROVE  /\ Len(h) \in Nat /\ Len(w) \in Nat /\ Len(h \o w) = Len(h) + Len(w)
           /\ h \o w \in Seq(Units) /\ DOMAIN (h \o w) = 1..Len(h \o w)
           /\ \A i \in 1..Len(h \o w) : (h \o w)[i] \in Units
           /\ \A i \in 1..Len(h) : (h \o w)[i] = h[i]
           /\ \A i \in 1..Len(w) : (h \o w)[Len(h) + i] = w[i]
<1>2. Len(h) \in Nat /\ Len(w) \in Nat
  BY LenProperties
<1>3. /\ h \o w \in Seq(Units) /\ Len(h \o w) = Len(h) + Len(w)
      /\ \A i \in 1..(Len(h) + Len(w)) :
            (h \o w)[i] = IF i <= Len(h) THEN h[i] ELSE w[i - Len(h)]
  BY ConcatProperties
<1>4. DOMAIN (h \o w) = 1..Len(h \o w)
  BY <1>3, LenProperties
<1>5. \A i \in 1..Len(h \o w) : (h \o w)[i] \in Units
  BY <1>3, ElementOfSeq
<1>6. \A i \in 1..Len(w) : (h \o w)[Len(h) + i] = w[i]
  <2> TAKE i \in 1..Len(w)
  <2>1. Len(h) + i \in 1..(Len(h) + Len(w)) /\ ~(Len(h) + i <= Len(h))
        /\ Len(h) + i - Len(h) = i
    BY <1>2
  <2> QED BY <2>1, <1>3
<1>7. \A i \in 1..Len(h) : (h \o w)[i] = h[i]
  BY <1>2, <1>3
<1> QED BY <1>2, <1>3, <1>4, <1>5, <1>6, <1>7

LEMMA FlowType ==
    ASSUME TypeOK
    PROVE  /\ have \in Seq(Units) /\ wire \in Seq(Units) /\ Flow \in Seq(Units)
           /\ Len(have) \in Nat /\ Len(wire) \in Nat /\ Len(Flow) = Len(have) + Len(wire)
           /\ DOMAIN Flow = 1..Len(Flow)
           /\ \A i \in 1..Len(Flow) : Flow[i] \in Units
           /\ \A i \in 1..Len(have) : Flow[i] = have[i]
           /\ \A i \in 1..Len(wire) : Flow[Len(have) + i] = wire[i]
<1>1. have \in Seq(Units) /\ wire \in Seq(Units)
  BY DEF TypeOK, Units
<1> QED BY <1>1, Joined DEF Flow

LEMMA FlowTypeNext ==
    ASSUME TypeOK'
    PROVE  /\ have' \in Seq(Units) /\ wire' \in Seq(Units) /\ Flow' \in Seq(Units)
           /\ Len(have') \in Nat /\ Len(wire') \in Nat /\ Len(Flow') = Len(have') + Len(wire')
           /\ DOMAIN Flow' = 1..Len(Flow')
           /\ \A i \in 1..Len(Flow') : Flow'[i] \in Units
           /\ \A i \in 1..Len(have') : Flow'[i] = have'[i]
           /\ \A i \in 1..Len(wire') : Flow'[Len(have') + i] = wire'[i]
<1>1. have' \in Seq(Units) /\ wire' \in Seq(Units)
  BY DEF TypeOK, Units
<1>2. Flow' = have' \o wire'
  BY DEF Flow
<1> QED BY <1>1, <1>2, Joined

\* What the type says of a unit.
LEMMA UnitFacts ==
    ASSUME NEW u \in Units
    PROVE  /\ u.of \in Frame /\ u.pos \in Nat /\ u.of.by \in Writer /\ u.of.nr \in Nat /\ u.of.text \in Nat
           /\ Size(u.of) \in Nat /\ Size(u.of) = Header + 2 + u.of.text /\ Size(u.of) > Header
           /\ Header \in Nat /\ Header > 0
<1>1. u.of \in Frame /\ u.pos \in Nat
  BY DEF Units
<1> QED BY <1>1, SizeType DEF Frame

\* What the type says of a thread.
LEMMA WriterFacts ==
    ASSUME TypeOK, NEW w \in Writer
    PROVE  /\ frame[w] \in Frame /\ frame[w].nr \in Nat /\ at[w] \in Nat /\ at[w] <= Size(frame[w])
           /\ Size(frame[w]) \in Nat /\ Size(frame[w]) > Header /\ Header \in Nat /\ Header > 0
<1>1. frame[w] \in Frame /\ at[w] \in Nat /\ at[w] <= Size(frame[w])
  BY DEF TypeOK
<1> QED BY <1>1, SizeType DEF Frame

\* What TypeOK says of a stream.
LEMMA StreamFacts ==
    ASSUME NEW s \in Seq(Units)
    PROVE  /\ DOMAIN s = 1..Len(s) /\ Len(s) \in Nat
           /\ \A i \in 1..Len(s) :
                /\ s[i] \in Units /\ s[i].of \in Frame /\ s[i].pos \in Nat /\ s[i].of.by \in Writer
                /\ s[i].of.nr \in Nat /\ Size(s[i].of) \in Nat /\ Size(s[i].of) > Header
<1>1. DOMAIN s = 1..Len(s) /\ Len(s) \in Nat
  BY LenProperties
<1>2. \A i \in 1..Len(s) : s[i] \in Units
  BY <1>1, ElementOfSeq
<1> QED BY <1>1, <1>2, UnitFacts

\* Taking what was read leaves the rest of the stream.
LEMMA FlowTake ==
    ASSUME TypeOK, TypeOK', wire' = wire, have' = <<>>
    PROVE  /\ Flow \in Seq(Units) /\ Flow' \in Seq(Units) /\ Len(have) \in Nat /\ Len(Flow') \in Nat
           /\ Len(Flow) = Len(have) + Len(Flow')
           /\ \A i \in 1..Len(have) : Flow[i] = have[i]
           /\ \A i \in 1..Len(Flow') : Flow'[i] = Flow[Len(have) + i]
<1>1. /\ have \in Seq(Units) /\ wire \in Seq(Units) /\ Flow \in Seq(Units)
      /\ Len(have) \in Nat /\ Len(wire) \in Nat /\ Len(Flow) = Len(have) + Len(wire)
      /\ \A i \in 1..Len(have) : Flow[i] = have[i]
      /\ \A i \in 1..Len(wire) : Flow[Len(have) + i] = wire[i]
  BY FlowType
<1>2. Flow' = wire
  BY <1>1, ConcatEmptySeq DEF Flow
<1> QED BY <1>1, <1>2

\* A part of a stream in line, from the unit after the d-th on, is in line.
LEMMA PartOf ==
    ASSUME NEW s \in Seq(Units), NEW t \in Seq(Units), NEW d \in Nat,
           d + Len(t) <= Len(s), \A i \in 1..Len(t) : t[i] = s[i + d],
           Straight(s), Known(s)
    PROVE  Straight(t) /\ Known(t)
<1>0. Len(s) \in Nat /\ Len(t) \in Nat /\ DOMAIN s = 1..Len(s) /\ DOMAIN t = 1..Len(t)
  BY LenProperties
<1>1. \A i \in DOMAIN t : i + d \in DOMAIN s /\ t[i] = s[i + d] /\ i \in Nat
  BY <1>0
<1>2. Known(t)
  BY <1>1 DEF Known
<1>3. ASSUME NEW i \in DOMAIN t, NEW j \in DOMAIN t, i <= j
      PROVE  IF t[i].pos + (j - i) <= Size(t[i].of)
             THEN t[j] = Unit(t[i].of, t[i].pos + (j - i))
             ELSE t[j].of.nr > t[i].of.nr
  <2>1. (j + d) - (i + d) = j - i /\ i + d <= j + d
    BY <1>1, <1>3
  <2> QED BY <1>1, <2>1 DEF Straight
<1>4. ASSUME NEW i \in DOMAIN t, i + 1 \in DOMAIN t, t[i].pos = Size(t[i].of)
      PROVE  t[i + 1].pos = 1 /\ t[i + 1].of.nr = t[i].of.nr + 1
  <2>1. i + d \in DOMAIN s /\ (i + d) + 1 \in DOMAIN s /\ t[i] = s[i + d] /\ t[i + 1] = s[(i + d) + 1]
    <3>1. (i + 1) + d = (i + d) + 1
      BY <1>1
    <3> QED BY <1>1, <1>4, <3>1
  <2> QED BY <2>1, <1>4 DEF Straight
<1> QED BY <1>2, <1>3, <1>4 DEF Straight

\* A step that moves nothing along the stream keeps it in line.
LEMMA Still ==
    ASSUME OneInv, Flow' = Flow, UNCHANGED <<busy, frame, at, received, part, need>>,
           running' => running, result' # "failed"
    PROVE  OneInv'
<1>1. Mine' = Mine
  BY DEF Mine
<1>2. Straight(Flow') /\ Known(Flow)'
  BY <1>1 DEF OneInv, InLine, Known
<1>3. Tip(Flow)' /\ First(Flow)' /\ Met(Flow)'
  BY <1>1 DEF OneInv, InLine, Tip, First, Met
<1>4. Working' /\ Got' /\ Awaited'
  BY <1>1 DEF OneInv, Working, Got, Awaited
<1>5. Straight(Flow)'
  BY <1>2 DEF Straight
<1> QED BY <1>2, <1>3, <1>4, <1>5 DEF OneInv, InLine, FrameIsWhole

\* t is s with k more units of f, the first a units of which were written before.
Grown(s, t, f, a, k) ==
    /\ Len(t) = Len(s) + k /\ a + k <= Size(f)
    /\ \A i \in 1..Len(s) : t[i] = s[i]
    /\ \A m \in 1..k : t[Len(s) + m] = Unit(f, a + m)
    /\ \A i \in DOMAIN s : s[i].of.nr <= f.nr
    /\ s # <<>> => IF a > 0 THEN s[Len(s)] = Unit(f, a)
                    ELSE s[Len(s)].of.nr = f.nr - 1 /\ s[Len(s)].pos = Size(s[Len(s)].of)

\* Units of the thread's frame, after those it wrote already, keep the stream in line.
LEMMA Extended ==
    ASSUME NEW s \in Seq(Units), NEW t \in Seq(Units), NEW f \in Frame, NEW a \in Nat, NEW k \in Nat \ {0},
           Straight(s), Grown(s, t, f, a, k)
    PROVE  Straight(t)
<1> DEFINE L == Len(s)
<1>0. L \in Nat /\ DOMAIN s = 1..L /\ DOMAIN t = 1..(L + k) /\ Size(f) \in Nat /\ a + k <= Size(f)
  BY LenProperties, SizeType DEF Grown
<1>1. \A i \in 1..L : s[i] \in Units /\ s[i].of \in Frame /\ Size(s[i].of) \in Nat /\ s[i].pos \in Nat /\ s[i].of.nr \in Nat
  <2>1. \A i \in 1..L : s[i] \in Units
    BY <1>0, ElementOfSeq
  <2>2. \A i \in 1..L : s[i].of \in Frame /\ s[i].pos \in Nat
    BY <2>1 DEF Units
  <2> QED BY <2>1, <2>2, SizeType DEF Frame
<1>2. L > 0 => s # <<>>
  BY DEF L
<1>3. f.nr \in Nat
  BY DEF Frame
<1> HIDE DEF L
<1>4. /\ \A i \in 1..L : t[i] = s[i]
      /\ \A m \in 1..k : t[L + m] = Unit(f, a + m)
      /\ \A i \in 1..L : s[i].of.nr <= f.nr
      /\ L > 0 => IF a > 0 THEN s[L] = Unit(f, a)
                  ELSE s[L].of.nr = f.nr - 1 /\ s[L].pos = Size(s[L].of)
  BY <1>0, <1>2 DEF L, Grown
<1>5. ASSUME NEW i \in 1..L
      PROVE  IF s[i].pos + (L - i) <= Size(s[i].of)
             THEN s[L] = Unit(s[i].of, s[i].pos + (L - i))
             ELSE s[L].of.nr > s[i].of.nr
  <2>1. i \in DOMAIN s /\ L \in DOMAIN s /\ i <= L
    BY <1>0
  <2> QED BY <2>1 DEF Straight
<1>6. ASSUME NEW i \in 1..L, NEW m \in 1..k
      PROVE  IF s[i].pos + ((L + m) - i) <= Size(s[i].of)
             THEN t[L + m] = Unit(s[i].of, s[i].pos + ((L + m) - i))
             ELSE t[L + m].of.nr > s[i].of.nr
  <2>0. /\ s[i].pos \in Nat /\ Size(s[i].of) \in Nat /\ s[i].of.nr \in Nat
        /\ i \in Nat /\ m \in Nat /\ m > 0 /\ L \in Nat
    BY <1>0, <1>1
  <2>1. t[L + m] = Unit(f, a + m) /\ a + m <= Size(f) /\ L > 0
    BY <1>0, <1>4
  <2>2. t[L + m].of = f
    BY <2>1 DEF Unit
  <2>3. CASE s[i].pos + (L - i) <= Size(s[i].of)
    <3>1. s[L] = Unit(s[i].of, s[i].pos + (L - i))
      BY <2>3, <1>5
    <3>2. s[L].of = s[i].of /\ s[L].pos = s[i].pos + (L - i)
      BY <3>1 DEF Unit
    <3>3. CASE a > 0
      <4>1. s[L].of = f /\ s[L].pos = a
        BY <1>4, <2>1, <3>3 DEF Unit
      <4>2. s[i].of = f /\ s[i].pos + (L - i) = a
        BY <3>2, <4>1
      <4>4. s[i].pos + (L - i) = a
        BY <4>2
      <4>3. s[i].pos + ((L + m) - i) = a + m
        <5> DEFINE p == s[i].pos
        <5>1. p \in Nat /\ p + (L - i) = a
          BY <2>0, <4>4
        <5> HIDE DEF p
        <5>2. p + ((L + m) - i) = a + m
          BY <2>0, <5>1
        <5> QED BY <5>2 DEF p
      <4> QED BY <2>1, <4>2, <4>3
    <3>4. CASE ~(a > 0)
      <4>1. s[L].of.nr = f.nr - 1 /\ s[L].pos = Size(s[L].of)
        BY <1>4, <2>1, <3>4
      <4>2. s[i].of.nr = f.nr - 1 /\ s[i].pos + (L - i) = Size(s[i].of)
        BY <3>2, <4>1
      <4>5. s[i].pos + (L - i) = Size(s[i].of)
        BY <4>2
      <4>3. ~(s[i].pos + ((L + m) - i) <= Size(s[i].of))
        BY <2>0, <4>5
      <4>4. f.nr > s[i].of.nr
        BY <1>3, <2>0, <4>2
      <4> QED BY <2>2, <4>3, <4>4
    <3> QED BY <3>3, <3>4
  <2>4. CASE ~(s[i].pos + (L - i) <= Size(s[i].of))
    <3>1. s[L].of.nr > s[i].of.nr
      BY <2>4, <1>5
    <3>2. L \in 1..L
      BY <2>1, <1>0
    <3>3. s[L].of.nr <= f.nr /\ s[L].of.nr \in Nat
      BY <3>2, <1>1, <1>4
    <3>4. f.nr > s[i].of.nr
      BY <3>1, <3>3, <2>0, <1>3
    <3>5. ~(s[i].pos + ((L + m) - i) <= Size(s[i].of))
      BY <2>4, <2>0
    <3> QED BY <2>2, <3>4, <3>5
  <2> QED BY <2>3, <2>4
<1>7. ASSUME NEW i \in 1..(L + k), NEW j \in 1..(L + k), i <= j
      PROVE  IF t[i].pos + (j - i) <= Size(t[i].of)
             THEN t[j] = Unit(t[i].of, t[i].pos + (j - i))
             ELSE t[j].of.nr > t[i].of.nr
  <2>1. CASE j \in 1..L
    <3>1. i \in DOMAIN s /\ j \in DOMAIN s /\ t[i] = s[i] /\ t[j] = s[j]
      BY <2>1, <1>0, <1>4, <1>7
    <3> QED BY <3>1, <1>7 DEF Straight
  <2>2. CASE i \in 1..L /\ j \notin 1..L
    <3>1. j - L \in 1..k /\ j = L + (j - L) /\ t[i] = s[i]
      BY <2>2, <1>0, <1>4
    <3>2. PICK m \in 1..k : j = L + m
      BY <3>1
    <3>3. IF s[i].pos + ((L + m) - i) <= Size(s[i].of)
          THEN t[L + m] = Unit(s[i].of, s[i].pos + ((L + m) - i))
          ELSE t[L + m].of.nr > s[i].of.nr
      BY <2>2, <1>6
    <3>4. j - i = (L + m) - i /\ t[i] = s[i] /\ t[j] = t[L + m]
      <4>1. i \in Int /\ m \in Int /\ L \in Int
        BY <1>0
      <4> QED BY <3>1, <3>2, <4>1
    <3> QED BY <3>3, <3>4
  <2>3. CASE i \notin 1..L
    <3>1. i - L \in 1..k /\ j - L \in 1..k /\ L + (j - L) = j /\ L + (i - L) = i
      BY <2>3, <1>0, <1>7
    <3>2. t[i] = Unit(f, a + (i - L)) /\ t[j] = Unit(f, a + (j - L))
      BY <3>1, <1>4
    <3>3. t[i].of = f /\ t[i].pos = a + (i - L)
      BY <3>2 DEF Unit
    <3>4. t[i].pos + (j - i) = a + (j - L) /\ a + (j - L) <= Size(f)
      BY <3>1, <3>3, <1>0
    <3> QED BY <3>2, <3>3, <3>4
  <2> QED BY <2>1, <2>2, <2>3
<1>8. ASSUME NEW i \in 1..(L + k), i + 1 \in 1..(L + k), t[i].pos = Size(t[i].of)
      PROVE  t[i + 1].pos = 1 /\ t[i + 1].of.nr = t[i].of.nr + 1
  <2>1. CASE i + 1 \in 1..L
    <3>1. i \in DOMAIN s /\ i + 1 \in DOMAIN s /\ t[i] = s[i] /\ t[i + 1] = s[i + 1]
      BY <2>1, <1>0, <1>4
    <3> QED BY <3>1, <1>8 DEF Straight
  <2>2. CASE i = L
    <3>1. t[i] = s[L] /\ t[i + 1] = Unit(f, a + 1) /\ L > 0 /\ a + 1 <= Size(f)
      BY <2>2, <1>0, <1>4
    <3>2. CASE a > 0
      <4>1. t[i].of = f /\ t[i].pos = a
        BY <3>1, <3>2, <1>4 DEF Unit
      <4> QED BY <4>1, <3>1, <1>0, <1>8
    <3>3. CASE ~(a > 0)
      <4>1. s[L].of.nr = f.nr - 1 /\ a = 0
        BY <3>1, <3>3, <1>4
      <4>2. t[i + 1].of = f /\ t[i + 1].pos = 1
        BY <3>1, <4>1 DEF Unit
      <4>3. f.nr = s[L].of.nr + 1
        <5>1. s[L].of.nr \in Nat
          BY <3>1, <1>0, <1>1
        <5> QED BY <4>1, <5>1, <1>3
      <4> QED BY <4>2, <4>3, <3>1
    <3> QED BY <3>2, <3>3
  <2>3. CASE i \notin 1..L
    <3>1. i - L \in 1..k /\ i + 1 - L \in 1..k /\ L + (i - L) = i
      BY <2>3, <1>0, <1>8
    <3>2. t[i].of = f /\ t[i].pos = a + (i - L)
      <4>1. t[i] = Unit(f, a + (i - L))
        BY <3>1, <1>4
      <4> QED BY <4>1 DEF Unit
    <3> QED BY <3>1, <3>2, <1>0, <1>8
  <2> QED BY <2>1, <2>2, <2>3, <1>0
<1> QED BY <1>0, <1>7, <1>8 DEF Straight

\* At the beginning nothing is written and nothing is awaited but a length.
LEMMA OneInit == ASSUME Writer = {Main}, Init PROVE OneInv
<1>1. /\ have = <<>> /\ wire = <<>> /\ received = <<>> /\ busy = {} /\ part = "length"
      /\ need = Header /\ result = "reading" /\ at[Main] = 0 /\ Mine = [by |-> Main, nr |-> 0, text |-> 0]
  BY WriterAssumption DEF Init, Mine
<1>2. Flow = <<>> /\ DOMAIN <<>> = {} /\ Len(<<>>) = 0
  BY <1>1 DEF Flow
<1>3. Straight(<<>>) /\ Known(<<>>) /\ Tip(<<>>) /\ First(<<>>)
  BY <1>2 DEF Straight, Known, Tip, First
<1>4. Met(<<>>)
  BY <1>1, <1>2 DEF Met
<1>5. Working /\ Got /\ Awaited /\ FrameIsWhole
  BY <1>1, <1>2 DEF Working, Got, Awaited, FrameIsWhole
<1> QED BY <1>2, <1>3, <1>4, <1>5 DEF OneInv, InLine

\* What TypeOK says of the one thread.
LEMMA MineType ==
    ASSUME TypeOK
    PROVE  /\ Mine \in Frame /\ Mine.nr \in Nat /\ at[Main] \in Nat /\ at[Main] <= Size(Mine)
           /\ Size(Mine) \in Nat /\ Size(Mine) = Header + Body(Mine) /\ Body(Mine) = 2 + Mine.text
           /\ Mine.text \in Nat /\ Header \in Nat /\ Header > 0
           /\ received \in Seq(Frame) /\ Len(received) \in Nat /\ DOMAIN received = 1..Len(received)
<1>1. Mine \in Frame /\ at[Main] \in Nat /\ at[Main] <= Size(Mine)
  BY WriterAssumption DEF TypeOK, Mine
<1>2. received \in Seq(Frame)
  BY DEF TypeOK
<1> QED BY <1>1, <1>2, SizeType, LenProperties DEF Frame

\* A kill cuts the stream off.
LEMMA FlowKill ==
    ASSUME TypeOK, TypeOK', Kill
    PROVE  /\ running' = FALSE /\ UNCHANGED <<busy, frame, at, part, need, have, received, result>>
           /\ Flow \in Seq(Units) /\ Flow' \in Seq(Units) /\ Len(Flow) \in Nat /\ Len(Flow') \in Nat
           /\ Len(Flow') <= Len(Flow) /\ \A i \in 1..Len(Flow') : Flow'[i] = Flow[i]
<1>1. PICK n \in 0..Len(wire) : wire' = SubSeq(wire, 1, n)
  BY DEF Kill
<1>2. running' = FALSE /\ UNCHANGED <<busy, frame, at, part, need, have, received, result>>
  BY DEF Kill, reading
<1>3. /\ wire \in Seq(Units) /\ Len(wire) \in Nat /\ Len(wire') = n
      /\ \A i \in 1..n : wire'[i] = wire[i]
  <2>1. wire \in Seq(Units) /\ Len(wire) \in Nat
    BY FlowType
  <2>2. \A i \in 1..n : wire[i] \in Units
    BY <2>1, ElementOfSeq
  <2>3. 1 \in Int /\ n \in Int
    BY <2>1
  <2>4. /\ Len(SubSeq(wire, 1, n)) = IF 1 <= n THEN n - 1 + 1 ELSE 0
        /\ \A i \in 1..(n - 1 + 1) : SubSeq(wire, 1, n)[i] = wire[1 + i - 1]
    BY <2>2, <2>3, SubSeqProperties
  <2>5. n - 1 + 1 = n /\ \A i \in 1..n : 1 + i - 1 = i
    BY <2>1
  <2> QED BY <1>1, <2>1, <2>4, <2>5
<1>4. /\ Flow \in Seq(Units) /\ Flow' \in Seq(Units) /\ Len(Flow) \in Nat /\ Len(Flow') \in Nat
      /\ Len(Flow') <= Len(Flow) /\ \A i \in 1..Len(Flow') : Flow'[i] = Flow[i]
  <2>1. /\ Flow \in Seq(Units) /\ Len(Flow) = Len(have) + Len(wire) /\ Len(have) \in Nat
        /\ \A i \in 1..Len(have) : Flow[i] = have[i]
        /\ \A i \in 1..Len(wire) : Flow[Len(have) + i] = wire[i]
    BY FlowType
  <2>2. /\ Flow' \in Seq(Units) /\ Len(Flow') = Len(have') + Len(wire')
        /\ \A i \in 1..Len(have') : Flow'[i] = have'[i]
        /\ \A i \in 1..Len(wire') : Flow'[Len(have') + i] = wire'[i]
    BY FlowTypeNext
  <2>3. have' = have
    BY <1>2
  <2>4. ASSUME NEW i \in 1..(Len(have) + n) PROVE Flow'[i] = Flow[i]
    <3>1. CASE i \in 1..Len(have)
      BY <3>1, <2>1, <2>2, <2>3
    <3>2. CASE i \notin 1..Len(have)
      <4>1. PICK j \in 1..n : i = Len(have) + j
        <5>1. i - Len(have) \in 1..n /\ i = Len(have) + (i - Len(have))
          BY <3>2, <2>1, <2>4
        <5> QED BY <5>1
      <4>2. Flow'[Len(have) + j] = wire'[j] /\ Flow[Len(have) + j] = wire[j] /\ wire'[j] = wire[j]
        BY <1>3, <2>1, <2>2, <2>3
      <4> QED BY <4>1, <4>2
    <3> QED BY <3>1, <3>2
  <2> QED BY <1>3, <2>1, <2>2, <2>3, <2>4
<1> QED BY <1>2, <1>4

\* It ends the thread, too.
LEMMA OneKill == ASSUME TypeOK, TypeOK', OneInv, Kill PROVE OneInv'
<1>2. running' = FALSE /\ UNCHANGED <<busy, frame, at, part, need, have, received, result>>
  BY FlowKill
<1>4. /\ Flow \in Seq(Units) /\ Flow' \in Seq(Units) /\ Len(Flow) \in Nat /\ Len(Flow') \in Nat
      /\ Len(Flow') <= Len(Flow) /\ \A i \in 1..Len(Flow') : Flow'[i] = Flow[i]
  BY FlowKill
<1>5. Mine' = Mine
  BY <1>2 DEF Mine
<1>6. Straight(Flow') /\ Known(Flow')
  <2>1. 0 \in Nat /\ 0 + Len(Flow') <= Len(Flow) /\ \A i \in 1..Len(Flow') : Flow'[i] = Flow[i + 0]
    BY <1>4
  <2> QED BY <1>4, <2>1, PartOf DEF OneInv, InLine
<1>7. Straight(Flow)' /\ Known(Flow)'
  BY <1>5, <1>6 DEF Straight, Known
<1>8. Tip(Flow)' /\ Met(Flow)'
  BY <1>2 DEF Tip, Met
<1>9. First(Flow)'
  <2>1. CASE Flow' = <<>>
    BY <2>1 DEF First
  <2>2. CASE Flow' # <<>>
    <3>1. 1 \in 1..Len(Flow')
      BY <2>2, <1>4, EmptySeq
    <3>2. Flow # <<>> /\ Flow'[1] = Flow[1]
      <4>1. Len(Flow) > 0
        BY <3>1, <1>4
      <4>2. Len(<<>>) = 0
        OBVIOUS
      <4> QED BY <3>1, <4>1, <4>2, <1>4
    <3> QED BY <3>2, <1>2 DEF First, OneInv, InLine
  <2> QED BY <2>1, <2>2
<1>10. Working' /\ Got' /\ Awaited' /\ FrameIsWhole'
  BY <1>2, <1>5 DEF OneInv, Working, Got, Awaited, FrameIsWhole
<1> QED BY <1>7, <1>8, <1>9, <1>10 DEF OneInv, InLine

\* A step of the reader that takes nothing out of the stream.
LEMMA OneRead == ASSUME TypeOK, TypeOK', OneInv, Read PROVE OneInv'
<1>1. wire # <<>> /\ have' = Append(have, Head(wire)) /\ wire' = Tail(wire)
      /\ result' = result /\ UNCHANGED <<running, busy, frame, at, received, part, need>>
  BY DEF Read, writing
<1>2. have \in Seq(Units) /\ wire \in Seq(Units)
  BY FlowType
<1>3. Append(have, Head(wire)) \o Tail(wire) = have \o wire
  BY <1>1, <1>2, SMT
<1>4. Flow' = Flow
  BY <1>1, <1>3 DEF Flow
<1> QED BY <1>1, <1>4, Still DEF OneInv, FrameIsWhole

LEMMA OneBegin ==
    ASSUME Writer = {Main}, TypeOK, TypeOK', OneInv, NEW t \in Texts, Begin(Main, t)
    PROVE  OneInv'
<1>1. /\ running /\ Main \notin busy /\ busy' = busy \cup {Main} /\ Flow' = Flow /\ at'[Main] = 0
      /\ Mine' = [by |-> Main, nr |-> Mine.nr + 1, text |-> t]
      /\ UNCHANGED <<running, part, need, received, result>>
  BY WriterAssumption DEF Begin, TypeOK, Mine, Flow, reading
<1>2. Mine'.nr = Mine.nr + 1 /\ Mine'.by = Main /\ Mine'.text = t /\ Mine.nr \in Nat /\ t \in Nat
  BY <1>1, MineType, UnitAssumption
<1>3. /\ Straight(Flow) /\ Known(Flow) /\ Tip(Flow) /\ First(Flow) /\ Met(Flow)
      /\ Working /\ Got /\ Awaited /\ FrameIsWhole
  BY DEF OneInv, InLine
<1>4. Known(Flow)' /\ Straight(Flow)'
  <2>1. ASSUME NEW i \in DOMAIN Flow
        PROVE  Flow[i].of.nr \in 1..(Mine.nr + 1) /\ Flow[i].of.nr # Mine.nr + 1
    BY <1>2, <1>3 DEF Known
  <2> QED BY <1>1, <1>2, <1>3, <2>1 DEF Known, Straight
<1>5. Tip(Flow)'
  <2> SUFFICES ASSUME Flow # <<>>
               PROVE  Flow[Len(Flow)].of.nr = Mine'.nr - 1 /\ Flow[Len(Flow)].pos = Size(Flow[Len(Flow)].of)
    BY <1>1 DEF Tip
  <2>1. Len(Flow) \in DOMAIN Flow /\ Flow[Len(Flow)].of.nr >= 1
    <3>1. Len(Flow) \in DOMAIN Flow
      BY FlowType, EmptySeq
    <3> QED BY <3>1, <1>2, <1>3 DEF Known
  <2>2. Mine.nr > 0
    BY <2>1, <1>2, <1>3 DEF Known
  <2>3. at[Main] = Size(Mine) /\ at[Main] > 0
    BY <1>1, <1>2, <1>3, <2>2, MineType DEF Working
  <2>4. Flow[Len(Flow)] = Unit(Mine, at[Main])
    BY <1>1, <1>3, <2>3 DEF Tip
  <2>5. Flow[Len(Flow)].of = Mine /\ Flow[Len(Flow)].pos = at[Main]
    BY <2>4 DEF Unit
  <2> QED BY <1>2, <2>3, <2>5
<1>6. First(Flow)'
  BY <1>1, <1>3 DEF First
<1>7. Met(Flow)'
  BY <1>1, <1>2, <1>3 DEF Met
<1>8. Working'
  <2>1. Mine' \in Frame
    BY WriterAssumption DEF TypeOK, Mine
  <2>2. Size(Mine') \in Nat /\ Size(Mine') > 0
    BY <2>1, SizeType
  <2> QED BY <1>1, <1>2, <2>2 DEF Working
<1>9. Got'
  <2>1. ASSUME NEW i \in DOMAIN received
        PROVE  received[i].by = Main /\ received[i].nr = i /\ i <= Mine.nr /\ i \in Nat
    BY <1>3, MineType DEF Got
  <2>2. \A i \in DOMAIN received : i <= Mine.nr + 1 /\ i # Mine.nr + 1
    BY <2>1, <1>2
  <2> QED BY <1>1, <1>2, <2>1, <2>2 DEF Got
<1>10. Awaited' /\ FrameIsWhole'
  BY <1>1, <1>3 DEF Awaited, FrameIsWhole
<1> QED BY <1>4, <1>5, <1>6, <1>7, <1>8, <1>9, <1>10 DEF OneInv, InLine

\* A write adds its chunk to the end of the stream.
LEMMA FlowWrite ==
    ASSUME TypeOK, NEW w \in Writer, NEW k \in Nat, wire' = wire \o Chunk(w, k), have' = have
    PROVE  /\ Flow' \in Seq(Units) /\ Len(Flow') = Len(Flow) + k /\ Len(Flow) \in Nat
           /\ \A i \in 1..Len(Flow) : Flow'[i] = Flow[i]
           /\ \A m \in 1..k : Flow'[Len(Flow) + m] = Unit(frame[w], at[w] + m)
<1> DEFINE c == Chunk(w, k)
<1>1. c \in Seq(Units) /\ Len(c) = k /\ \A m \in 1..k : c[m] = Unit(frame[w], at[w] + m)
  BY ChunkType
<1> HIDE DEF c
<1>2. have \o (wire \o c) = (have \o wire) \o c
  <2>1. have \in Seq(Units) /\ wire \in Seq(Units)
    BY FlowType
  <2> QED BY <1>1, <2>1, ConcatAssociative, SMTT(30)
<1>3. Flow' = Flow \o c
  BY <1>2 DEF Flow, c
<1> QED BY <1>1, <1>3, FlowType, Joined

LEMMA OneWrite ==
    ASSUME Writer = {Main}, TypeOK, TypeOK', OneInv, Write(Main)
    PROVE  OneInv'
<1> DEFINE k == Less(Rest(Main), Capacity - Len(wire))
<1>1. /\ running /\ Main \in busy /\ UNCHANGED <<running, frame, part, need, have, received, result>>
      /\ wire' = wire \o Chunk(Main, k) /\ at' = [at EXCEPT ![Main] = at[Main] + k]
      /\ busy' = IF at'[Main] = Size(frame[Main]) THEN busy \ {Main} ELSE busy
      /\ Len(wire) < Capacity
  BY DEF Write, Written, reading
<1>2. /\ Straight(Flow) /\ Known(Flow) /\ Tip(Flow) /\ First(Flow) /\ Met(Flow)
      /\ Working /\ Got /\ Awaited /\ FrameIsWhole
  BY DEF OneInv, InLine
<1>3. Mine' = Mine /\ frame[Main] = Mine /\ Mine.nr > 0 /\ at[Main] < Size(Mine)
  BY <1>1, <1>2 DEF Mine, Working
<1>4. k \in Nat \ {0} /\ at[Main] + k <= Size(Mine)
  <2>1. Rest(Main) \in Nat /\ Rest(Main) > 0 /\ at[Main] + Rest(Main) <= Size(Mine) /\ at[Main] \in Nat /\ Size(Mine) \in Nat
    BY <1>3, WriterAssumption, RestType
  <2>2. Len(wire) \in Nat /\ Capacity \in Nat
    BY FlowType, UnitAssumption
  <2> QED BY <1>1, <2>1, <2>2 DEF Less
<1> HIDE DEF k
<1>5. at'[Main] = at[Main] + k /\ at[Main] \in Nat
  BY <1>1, WriterAssumption DEF TypeOK
<1>6. /\ Flow' \in Seq(Units) /\ Len(Flow') = Len(Flow) + k /\ Len(Flow) \in Nat
      /\ \A i \in 1..Len(Flow) : Flow'[i] = Flow[i]
      /\ \A m \in 1..k : Flow'[Len(Flow) + m] = Unit(Mine, at[Main] + m)
  BY <1>1, <1>3, <1>4, WriterAssumption, FlowWrite
<1>7. DOMAIN Flow = 1..Len(Flow) /\ DOMAIN Flow' = 1..(Len(Flow) + k)
  BY FlowType, FlowTypeNext, <1>6
<1>8. Straight(Flow')
  <2>1. \A i \in DOMAIN Flow : Flow[i].of.nr <= Mine.nr
    BY <1>2, MineType DEF Known
  <2>2. Grown(Flow, Flow', Mine, at[Main], k)
    <3>1. Flow # <<>> => IF at[Main] > 0 THEN Flow[Len(Flow)] = Unit(Mine, at[Main])
                         ELSE /\ Flow[Len(Flow)].of.nr = Mine.nr - 1
                              /\ Flow[Len(Flow)].pos = Size(Flow[Len(Flow)].of)
      BY <1>1, <1>2 DEF Tip
    <3>2. /\ Len(Flow') = Len(Flow) + k /\ at[Main] + k <= Size(Mine)
          /\ \A i \in 1..Len(Flow) : Flow'[i] = Flow[i]
          /\ \A m \in 1..k : Flow'[Len(Flow) + m] = Unit(Mine, at[Main] + m)
      BY <1>4, <1>6
    <3> QED BY <2>1, <3>1, <3>2, Zenon DEF Grown
  <2> QED BY <1>2, <1>4, <1>5, <1>6, <2>2, FlowType, MineType, Extended
<1>9. Known(Flow)'
  <2> SUFFICES ASSUME NEW i \in DOMAIN Flow'
               PROVE  /\ Flow'[i].pos \in 1..Size(Flow'[i].of) /\ Flow'[i].of.by = Main /\ Flow'[i].of.text \in Texts
                      /\ Flow'[i].of.nr \in 1..Mine.nr /\ (Flow'[i].of.nr = Mine.nr => Flow'[i].of = Mine)
    BY <1>3 DEF Known
  <2>1. CASE i \in 1..Len(Flow)
    BY <2>1, <1>2, <1>6, <1>7 DEF Known
  <2>2. CASE i \notin 1..Len(Flow)
    <3>1. PICK m \in 1..k : i = Len(Flow) + m
      <4>1. i - Len(Flow) \in 1..k /\ i = Len(Flow) + (i - Len(Flow))
        BY <2>2, <1>4, <1>6, <1>7
      <4> QED BY <4>1
    <3>2. Flow'[i].of = Mine /\ Flow'[i].pos = at[Main] + m
      <4>1. Flow'[Len(Flow) + m] = Unit(Mine, at[Main] + m)
        BY <1>6
      <4>2. Flow'[i] = Unit(Mine, at[Main] + m)
        BY <3>1, <4>1
      <4> QED BY <4>2 DEF Unit
    <3>3. at[Main] + m \in 1..Size(Mine) /\ Mine.nr \in 1..Mine.nr
      <4>1. m \in Nat /\ m > 0 /\ m <= k /\ k \in Nat
        BY <1>4
      <4>5. Size(Mine) \in Nat
        BY MineType
      <4>2. at[Main] + m <= Size(Mine) /\ at[Main] + m \in Nat /\ at[Main] + m > 0
        BY <4>1, <4>5, <1>4, <1>5
      <4>3. Mine.nr \in Nat
        BY MineType
      <4>4. at[Main] + m \in 1..Size(Mine)
        BY <4>1, <4>2, <4>5
      <4> QED BY <4>3, <4>4, <1>3
    <3> QED BY <3>2, <3>3, <1>2, <1>3 DEF Working
  <2> QED BY <2>1, <2>2
<1>10. Tip(Flow)'
  <2>1. k \in 1..k /\ at'[Main] > 0
    BY <1>4, <1>5
  <2>2. Flow'[Len(Flow')] = Unit(Mine, at[Main] + k)
    BY <2>1, <1>6
  <2> QED BY <2>1, <2>2, <1>3, <1>5 DEF Tip
<1>11. First(Flow)'
  <2>1. CASE Flow = <<>>
    <3>1. Len(Flow) = 0 /\ 1 \in 1..k
      BY <2>1, <1>4
    <3>2. Flow'[1] = Unit(Mine, at[Main] + 1)
      BY <3>1, <1>6
    <3>3. Flow'[1].of = Mine /\ Flow'[1].pos = at[Main] + 1
      BY <3>2 DEF Unit
    <3> QED BY <2>1, <3>3, <1>1, <1>2 DEF First, Met
  <2>2. CASE Flow # <<>>
    <3>1. 1 \in 1..Len(Flow)
      BY <2>2, <1>6, FlowType, EmptySeq
    <3>2. Flow'[1] = Flow[1]
      BY <3>1, <1>6
    <3> QED BY <2>2, <3>2, <1>1, <1>2 DEF First
  <2> QED BY <2>1, <2>2
<1>12. Met(Flow)'
  <2>1. Flow' # <<>>
    BY <1>4, <1>6
  <2> QED BY <2>1 DEF Met
<1>13. Working'
  <2>1. at'[Main] <= Size(Mine) /\ at'[Main] \in Nat /\ Size(Mine) \in Nat
    BY <1>4, <1>5, MineType
  <2>2. Mine.by = Main /\ Mine.text \in Texts
    BY <1>2, <1>3 DEF Working
  <2>3. Main \in busy' <=> at'[Main] # Size(Mine)
    BY <1>1, <1>3
  <2> QED BY <1>3, <2>1, <2>2, <2>3 DEF Working
<1>14. Got' /\ Awaited' /\ FrameIsWhole' /\ Straight(Flow)'
  BY <1>1, <1>2, <1>3, <1>8 DEF Got, Awaited, FrameIsWhole, Straight
<1> QED BY <1>9, <1>10, <1>11, <1>12, <1>13, <1>14 DEF OneInv, InLine

\* What the reader has read, while it reads a length or a body, is its first units.
LEMMA HaveIsStraight ==
    ASSUME Writer = {Main}, TypeOK, OneInv, have # <<>>
    PROVE  LET g == have[1].of
               o == IF part = "length" THEN 0 ELSE Header
           IN  /\ g \in Frame /\ g = Flow[1].of /\ have[1] = Flow[1] /\ have[1].pos = o + 1
               /\ g.nr = Len(received) + 1 /\ g.text \in Texts /\ g.by = Main
               /\ g.nr <= Mine.nr /\ (g.nr = Mine.nr => g = Mine)
               /\ part = "body" => Body(g) = need
               /\ \A i \in 1..Len(Flow) : o + i <= Size(g) => Flow[i] = Unit(g, o + i)
<1> DEFINE g == have[1].of
           o == IF part = "length" THEN 0 ELSE Header
<1>1. /\ 1 \in 1..Len(have) /\ 1 \in 1..Len(Flow) /\ Flow # <<>> /\ DOMAIN Flow = 1..Len(Flow)
      /\ have[1] = Flow[1] /\ Len(Flow) \in Nat /\ Flow[1] \in Units
  <2>1. /\ have \in Seq(Units) /\ Len(have) \in Nat /\ Len(wire) \in Nat /\ Len(Flow) = Len(have) + Len(wire)
        /\ \A i \in 1..Len(have) : Flow[i] = have[i]
        /\ \A i \in 1..Len(Flow) : Flow[i] \in Units
        /\ DOMAIN Flow = 1..Len(Flow)
    BY FlowType
  <2>2. Len(have) > 0
    BY <2>1, EmptySeq
  <2>3. Len(<<>>) = 0
    OBVIOUS
  <2> QED BY <2>1, <2>2, <2>3
<1>2. Straight(Flow) /\ Known(Flow) /\ First(Flow)
  BY DEF OneInv, InLine
<1>3. part \in {"length", "body"} /\ Header \in Nat
  BY UnitAssumption DEF TypeOK
<1>4. /\ g.nr = Len(received) + 1 /\ have[1].pos = o + 1 /\ (part = "body" => Body(g) = need)
  BY <1>1, <1>2, <1>3 DEF First
<1>5. /\ g.text \in Texts /\ g.by = Main /\ g.nr \in 1..Mine.nr /\ (g.nr = Mine.nr => g = Mine)
  BY <1>1, <1>2 DEF Known
<1>6. g \in Frame /\ o \in Nat /\ g.nr <= Mine.nr
  BY <1>1, <1>3, <1>5, MineType DEF Units
<1>7. ASSUME NEW i \in 1..Len(Flow), o + i <= Size(g)
      PROVE  Flow[i] = Unit(g, o + i)
  <2>1. 1 \in DOMAIN Flow /\ i \in DOMAIN Flow /\ 1 <= i /\ i \in Nat
    BY <1>1
  <2>2. (o + 1) + (i - 1) = o + i
    BY <2>1, <1>6
  <2>3. IF Flow[1].pos + (i - 1) <= Size(Flow[1].of)
        THEN Flow[i] = Unit(Flow[1].of, Flow[1].pos + (i - 1))
        ELSE Flow[i].of.nr > Flow[1].of.nr
    BY <2>1, <1>2 DEF Straight
  <2>4. Flow[1].pos = o + 1 /\ Flow[1].of = g
    BY <1>1, <1>4
  <2> QED BY <2>2, <2>3, <2>4, <1>7
<1> QED BY <1>1, <1>4, <1>5, <1>6, <1>7

\* Taking what was read out of the stream leaves the rest in line.
LEMMA Taken ==
    ASSUME TypeOK, TypeOK', OneInv, wire' = wire, have' = <<>>, UNCHANGED frame
    PROVE  /\ Flow' = wire /\ Straight(wire) /\ Known(wire)' /\ Len(Flow) = Len(have) + Len(wire)
           /\ wire # <<>> => /\ wire[1] = Flow[Len(have) + 1] /\ 1 \in 1..Len(wire)
                             /\ wire[Len(wire)] = Flow[Len(Flow)]
           /\ wire = <<>> => Flow = have
<1>1. /\ have \in Seq(Units) /\ wire \in Seq(Units) /\ Flow \in Seq(Units)
      /\ Len(have) \in Nat /\ Len(wire) \in Nat /\ Len(Flow) = Len(have) + Len(wire)
      /\ \A i \in 1..Len(wire) : Flow[Len(have) + i] = wire[i]
  BY FlowType
<1>2. Flow' = wire
  BY <1>1, ConcatEmptySeq DEF Flow
<1>3. Straight(wire) /\ Known(wire)
  <2>1. Straight(Flow) /\ Known(Flow)
    BY DEF OneInv, InLine
  <2>2. Len(have) + Len(wire) <= Len(Flow) /\ \A i \in 1..Len(wire) : wire[i] = Flow[i + Len(have)]
    BY <1>1
  <2> QED BY <1>1, <2>1, <2>2, PartOf
<1>4. Known(wire)'
  <2>1. Mine' = Mine
    BY DEF Mine
  <2> QED BY <1>3, <2>1 DEF Known
<1>5. ASSUME wire # <<>>
      PROVE  wire[1] = Flow[Len(have) + 1] /\ 1 \in 1..Len(wire) /\ wire[Len(wire)] = Flow[Len(Flow)]
  <2>1. Len(wire) > 0
    BY <1>1, <1>5, EmptySeq
  <2>2. 1 \in 1..Len(wire) /\ Len(wire) \in 1..Len(wire)
    BY <1>1, <2>1
  <2> QED BY <1>1, <2>2
<1>6. ASSUME wire = <<>> PROVE Flow = have
  BY <1>1, <1>6, ConcatEmptySeq DEF Flow
<1> QED BY <1>1, <1>2, <1>3, <1>4, <1>5, <1>6

\* A length that was read whole is that of the frame after the last received.
LEMMA LengthRead ==
    ASSUME Writer = {Main}, TypeOK, OneInv, TakeLength
    PROVE  LET g == have[1].of
           IN  /\ have # <<>> /\ g \in Frame /\ g.nr = Len(received) + 1
               /\ g.nr <= Mine.nr /\ (g.nr = Mine.nr => g = Mine)
               /\ Size(g) = Header + Body(g) /\ Body(g) \in 2..Limit
               /\ \A i \in 1..Len(Flow) : i <= Header + 1 => Flow[i] = Unit(g, i)
               /\ part' = "body" /\ need' = Body(g) /\ have' = <<>> /\ result' = result
<1>1. /\ part = "length" /\ Len(have) = need /\ result = "reading"
      /\ UNCHANGED <<running, busy, frame, at, wire, received>>
  BY DEF TakeLength, Complete, writing
<1>2. need = Header /\ Header \in Nat /\ Header > 0
  BY <1>1, UnitAssumption DEF OneInv, Awaited
<1>3. have # <<>>
  BY <1>1, <1>2
<1> DEFINE g == have[1].of
<1>4. /\ g \in Frame /\ have[1] = Flow[1] /\ g.nr = Len(received) + 1 /\ g.text \in Texts
      /\ g.nr <= Mine.nr /\ (g.nr = Mine.nr => g = Mine)
      /\ \A i \in 1..Len(Flow) : 0 + i <= Size(g) => Flow[i] = Unit(g, 0 + i)
  BY <1>1, <1>3, HaveIsStraight
<1>5. /\ Size(g) = Header + Body(g) /\ Body(g) = 2 + g.text /\ g.text \in Nat /\ Body(g) \in 2..Limit
  <2>1. g.text \in Nat /\ 2 + g.text <= Limit /\ Limit \in Nat
    BY <1>4, TextsFit, UnitAssumption
  <2> QED BY <1>4, <2>1, SizeType
<1>6. \A i \in 1..Len(Flow) : i <= Header + 1 => Flow[i] = Unit(g, i)
  <2> TAKE i \in 1..Len(Flow)
  <2>1. i \in Nat /\ 0 + i = i /\ (i <= Header + 1 => i <= Size(g))
    <3>1. Size(g) \in Nat /\ Size(g) >= Header + 1
      BY <1>2, <1>5, SMTT(30)
    <3>2. i \in Nat
      BY FlowType
    <3> HIDE DEF g
    <3> QED BY <1>2, <3>1, <3>2
  <2> QED BY <1>4, <2>1
<1>7. \A i \in DOMAIN have : have[i] = Unit(g, i)
  <2> TAKE i \in DOMAIN have
  <2>1. i \in 1..Len(have) /\ i \in 1..Len(Flow) /\ have[i] = Flow[i] /\ i <= Header + 1
    <3>1. DOMAIN have = 1..Len(have)
      BY FlowType, LenProperties
    <3> QED BY <1>1, <1>2, <3>1, FlowType
  <2> QED BY <1>6, <2>1
<1>8. Announced(have) = {Body(g)}
  BY <1>1, <1>2, <1>7 DEF Announced
<1>9. part' = "body" /\ need' = Body(g) /\ have' = <<>> /\ result' = result
  <2>1. PICK len \in Announced(have) :
          \/ len = 0
          \/ len > Limit
          \/ len \in 1..Limit /\ part' = "body" /\ need' = len /\ have' = <<>> /\ UNCHANGED result
    BY DEF TakeLength
  <2>2. len = Body(g)
    BY <1>8, <2>1
  <2>3. Limit \in Nat
    BY UnitAssumption
  <2>4. ~(len = 0) /\ ~(len > Limit)
    BY <1>5, <2>2, <2>3
  <2> QED BY <2>1, <2>2, <2>4
<1> QED BY <1>3, <1>4, <1>5, <1>6, <1>9

LEMMA OneTakeLength ==
    ASSUME Writer = {Main}, TypeOK, TypeOK', OneInv, TakeLength
    PROVE  OneInv'
<1>1. /\ part = "length" /\ Len(have) = need /\ result = "reading"
      /\ UNCHANGED <<running, busy, frame, at, wire, received>>
  BY DEF TakeLength, Complete, writing
<1>2. need = Header /\ Header \in Nat /\ Header > 0
  BY <1>1, UnitAssumption DEF OneInv, Awaited
<1> DEFINE g == have[1].of
<1>9. /\ have # <<>> /\ g \in Frame /\ g.nr = Len(received) + 1
      /\ g.nr <= Mine.nr /\ (g.nr = Mine.nr => g = Mine)
      /\ Size(g) = Header + Body(g) /\ Body(g) \in 2..Limit
      /\ \A i \in 1..Len(Flow) : i <= Header + 1 => Flow[i] = Unit(g, i)
      /\ part' = "body" /\ need' = Body(g) /\ have' = <<>> /\ result' = result
  BY LengthRead
<1> HIDE DEF g
<1>10. /\ Flow' = wire /\ Straight(wire) /\ Known(wire)' /\ Len(Flow) = Header + Len(wire)
       /\ wire # <<>> => /\ wire[1] = Flow[Header + 1] /\ 1 \in 1..Len(wire)
                         /\ wire[Len(wire)] = Flow[Len(Flow)]
       /\ wire = <<>> => Flow = have
  BY <1>1, <1>2, <1>9, Taken
<1>11. Mine' = Mine /\ Tip(Flow) /\ Working /\ Got
  BY <1>1 DEF Mine, OneInv, InLine
<1>12. Straight(Flow)' /\ Known(Flow)'
  BY <1>1, <1>10 DEF Straight, Known
<1>13. Tip(Flow)'
  <2>1. wire # <<>> => Flow # <<>>
    BY <1>10, FlowType
  <2> QED BY <1>1, <1>10, <1>11, <2>1 DEF Tip
<1>14. First(Flow)'
  <2> SUFFICES ASSUME wire # <<>>
               PROVE  wire[1].of.nr = Len(received) + 1 /\ wire[1].pos = Header + 1 /\ Body(wire[1].of) = need'
    BY <1>1, <1>9, <1>10 DEF First
  <2>1. Header + 1 \in 1..Len(Flow)
    <3>1. Len(wire) \in Nat /\ Len(wire) > 0
      BY <1>10, FlowType
    <3> QED BY <1>2, <1>10, <3>1
  <2>2. wire[1] = Unit(g, Header + 1)
    BY <1>2, <1>9, <1>10, <2>1
  <2>3. wire[1].of = g /\ wire[1].pos = Header + 1
    BY <2>2 DEF Unit
  <2> QED BY <1>9, <2>3
<1>15. Met(Flow)'
  <2> SUFFICES ASSUME running, wire = <<>>
               PROVE  Main \in busy /\ at[Main] = Header /\ Body(Mine) = need' /\ Mine.nr = Len(received) + 1
    BY <1>1, <1>9, <1>10, <1>11 DEF Met
  <2>1. Len(Flow) = Header /\ Flow # <<>> /\ Header \in 1..Len(Flow)
    <3>1. Len(wire) = 0
      OBVIOUS
    <3> QED BY <1>2, <1>9, <1>10, <3>1
  <2>2. Flow[Len(Flow)] = Unit(g, Header)
    BY <1>2, <1>9, <2>1
  <2>3. Flow[Len(Flow)].of = g /\ Flow[Len(Flow)].pos = Header
    BY <2>2 DEF Unit
  <2>4. Header # Size(g)
    BY <1>2, <1>9
  <2>5. at[Main] > 0 /\ Flow[Len(Flow)] = Unit(Mine, at[Main])
    BY <1>11, <2>1, <2>3, <2>4 DEF Tip
  <2>6. g = Mine /\ at[Main] = Header
    BY <2>3, <2>5 DEF Unit
  <2>7. Mine.nr > 0 /\ at[Main] # Size(Mine) /\ Mine.nr # 0
    BY <1>9, <2>4, <2>6, MineType
  <2> QED BY <1>9, <1>11, <2>6, <2>7 DEF Working
<1>16. Working' /\ Got' /\ FrameIsWhole'
  BY <1>1, <1>9, <1>11 DEF Working, Got, FrameIsWhole
<1>17. Awaited'
  BY <1>9 DEF Awaited
<1> QED BY <1>12, <1>13, <1>14, <1>15, <1>16, <1>17 DEF OneInv, InLine

\* A body that was read whole opens, and is of the frame after the last received.
LEMMA BodyOpens ==
    ASSUME Writer = {Main}, TypeOK, OneInv, part = "body", Len(have) = need
    PROVE  /\ have # <<>> /\ Opens(have) /\ have[1].of \in Frame
           /\ have[1].of.nr = Len(received) + 1 /\ have[1].of.by = Main
           /\ have[1].of.nr <= Mine.nr /\ (have[1].of.nr = Mine.nr => have[1].of = Mine)
           /\ Flow[Len(have)] = Unit(have[1].of, Size(have[1].of)) /\ Len(have) \in 1..Len(Flow)
<1>1. need \in 2..Limit /\ Limit \in Nat
  BY UnitAssumption DEF OneInv, Awaited
<1>2. have # <<>> /\ Len(have) >= 2 /\ Len(have) \in Nat
  BY <1>1
<1> DEFINE g == have[1].of
<1>3. /\ g \in Frame /\ g.nr = Len(received) + 1 /\ g.by = Main
      /\ g.nr <= Mine.nr /\ (g.nr = Mine.nr => g = Mine) /\ Body(g) = need
      /\ \A i \in 1..Len(Flow) : Header + i <= Size(g) => Flow[i] = Unit(g, Header + i)
  BY <1>2, HaveIsStraight
<1> HIDE DEF g
<1>4. Size(g) = Header + need /\ Header \in Nat
  BY <1>3, SizeType
<1>5. /\ DOMAIN have = 1..Len(have) /\ \A i \in 1..Len(have) : Flow[i] = have[i]
      /\ Len(Flow) \in Nat /\ Len(have) <= Len(Flow)
  BY FlowType, LenProperties
<1>6. \A i \in DOMAIN have : have[i] = Unit(g, Header + i)
  <2> TAKE i \in DOMAIN have
  <2>1. i \in 1..Len(Flow) /\ Header + i <= Size(g) /\ have[i] = Flow[i]
    BY <1>2, <1>4, <1>5
  <2> QED BY <1>3, <2>1
<1>7. Opens(have)
  BY <1>2, <1>3, <1>6 DEF Opens, g
<1>8. Len(have) \in 1..Len(Flow) /\ Flow[Len(have)] = Unit(g, Size(g))
  <2>1. Len(have) \in DOMAIN have /\ Len(have) \in 1..Len(Flow)
    BY <1>2, <1>5
  <2> QED BY <1>4, <1>5, <1>6, <2>1
<1> QED BY <1>2, <1>3, <1>7, <1>8 DEF g

LEMMA OneTakeBody ==
    ASSUME Writer = {Main}, TypeOK, TypeOK', OneInv, TakeBody
    PROVE  OneInv'
<1> DEFINE g == have[1].of
<1>1. /\ part = "body" /\ Len(have) = need /\ received' = Append(received, g)
      /\ part' = "length" /\ need' = Header /\ have' = <<>> /\ result' \in {"closed", "reading"}
      /\ UNCHANGED <<running, busy, frame, at, wire>>
  BY DEF TakeBody, Complete, writing
<1>2. /\ have # <<>> /\ g \in Frame /\ g.nr = Len(received) + 1 /\ g.by = Main
      /\ g.nr <= Mine.nr /\ (g.nr = Mine.nr => g = Mine)
      /\ Flow[Len(have)] = Unit(g, Size(g)) /\ Len(have) \in 1..Len(Flow)
  BY <1>1, BodyOpens
<1> HIDE DEF g
<1>3. Flow[Len(have)].of = g /\ Flow[Len(have)].pos = Size(g)
  BY <1>2 DEF Unit
<1>4. /\ Flow' = wire /\ Straight(wire) /\ Known(wire)' /\ Len(Flow) = Len(have) + Len(wire)
      /\ wire # <<>> => /\ wire[1] = Flow[Len(have) + 1] /\ 1 \in 1..Len(wire)
                        /\ wire[Len(wire)] = Flow[Len(Flow)]
      /\ wire = <<>> => Flow = have
  BY <1>1, Taken
<1>5. Mine' = Mine /\ Tip(Flow) /\ Straight(Flow) /\ Working /\ Got
  BY <1>1 DEF Mine, OneInv, InLine
<1>6. /\ received \in Seq(Frame) /\ Len(received) \in Nat /\ DOMAIN received = 1..Len(received)
      /\ Len(received') = Len(received) + 1 /\ DOMAIN received' = 1..(Len(received) + 1)
      /\ received'[Len(received) + 1] = g /\ \A i \in 1..Len(received) : received'[i] = received[i]
  <2>1. received \in Seq(Frame) /\ Len(received) \in Nat /\ DOMAIN received = 1..Len(received)
    BY MineType
  <2>2. /\ received' \in Seq(Frame) /\ Len(received') = Len(received) + 1
        /\ received'[Len(received) + 1] = g /\ \A i \in 1..Len(received) : received'[i] = received[i]
    BY <1>1, <1>2, <2>1, AppendProperties
  <2>3. DOMAIN received' = 1..Len(received')
    BY <2>2, LenProperties
  <2> QED BY <2>1, <2>2, <2>3
<1>7. Straight(Flow)' /\ Known(Flow)'
  BY <1>1, <1>4 DEF Straight, Known
<1>8. Tip(Flow)'
  <2>1. wire # <<>> => Flow # <<>>
    BY <1>4, FlowType
  <2> QED BY <1>1, <1>4, <1>5, <2>1 DEF Tip
<1>9. First(Flow)'
  <2> SUFFICES ASSUME wire # <<>> PROVE wire[1].of.nr = Len(received) + 2 /\ wire[1].pos = 1
    <3>1. Len(received) + 1 + 1 = Len(received) + 2
      BY <1>6
    <3> QED BY <1>1, <1>4, <1>6, <3>1 DEF First
  <2>1. Len(have) \in DOMAIN Flow /\ Len(have) + 1 \in DOMAIN Flow
    <3>1. DOMAIN Flow = 1..Len(Flow) /\ Len(have) \in Nat /\ Len(wire) \in Nat
      BY FlowType
    <3> QED BY <1>2, <1>4, <3>1
  <2>2. wire[1].pos = 1 /\ wire[1].of.nr = g.nr + 1
    BY <1>3, <1>4, <1>5, <2>1 DEF Straight
  <2> QED BY <1>2, <1>6, <2>2
<1>10. Met(Flow)'
  <2> SUFFICES ASSUME running, wire = <<>>
               PROVE  IF Main \in busy THEN at[Main] = 0 /\ Mine.nr = Len(received) + 2
                      ELSE Mine.nr = Len(received) + 1
    <3>1. Len(received) + 1 + 1 = Len(received) + 2
      BY <1>6
    <3> QED BY <1>1, <1>4, <1>5, <1>6, <3>1 DEF Met
  <2>1. Flow = have /\ Flow # <<>> /\ Flow[Len(Flow)].of = g /\ Flow[Len(Flow)].pos = Size(g)
    BY <1>2, <1>3, <1>4
  <2>2. CASE at[Main] > 0
    <3>1. g = Mine /\ at[Main] = Size(Mine)
      <4>1. Flow[Len(Flow)] = Unit(Mine, at[Main])
        BY <1>5, <2>1, <2>2 DEF Tip
      <4>2. Flow[Len(Flow)].of = Mine /\ Flow[Len(Flow)].pos = at[Main]
        BY <4>1 DEF Unit
      <4> QED BY <2>1, <4>2
    <3>2. Main \notin busy
      BY <1>5, <3>1, MineType DEF Working
    <3> QED BY <1>2, <3>1, <3>2
  <2>3. CASE ~(at[Main] > 0)
    <3>1. g.nr = Mine.nr - 1 /\ at[Main] = 0 /\ Mine.nr \in Nat /\ Size(Mine) > 0
      BY <1>5, <2>1, <2>3, MineType DEF Tip
    <3>2. Mine.nr = Len(received) + 2 /\ Mine.nr # 0
      BY <1>2, <1>6, <3>1
    <3>3. Main \in busy
      BY <1>5, <3>1, <3>2, MineType DEF Working
    <3> QED BY <3>1, <3>2, <3>3
  <2> QED BY <2>2, <2>3
<1>11. Got'
  <2> SUFFICES ASSUME NEW i \in 1..(Len(received) + 1)
               PROVE  /\ received'[i].by = Main /\ received'[i].nr = i /\ i <= Mine.nr
                      /\ i = Mine.nr => received'[i] = Mine
    BY <1>5, <1>6 DEF Got
  <2>1. CASE i \in 1..Len(received)
    BY <2>1, <1>5, <1>6 DEF Got
  <2>2. CASE i = Len(received) + 1
    BY <2>2, <1>2, <1>6
  <2> QED BY <2>1, <2>2, <1>6
<1>12. Working' /\ Awaited' /\ FrameIsWhole'
  BY <1>1, <1>5 DEF Working, Awaited, FrameIsWhole
<1> QED BY <1>7, <1>8, <1>9, <1>10, <1>11, <1>12 DEF OneInv, InLine

LEMMA OneInvariant == ASSUME Writer = {Main} PROVE Spec => [](TypeOK /\ OneInv)
<1>1. Init => OneInv
  BY OneInit
<1>2. TypeOK /\ TypeOK' /\ OneInv /\ [Next]_vars => OneInv'
  <2> SUFFICES ASSUME TypeOK, TypeOK', OneInv, [Next]_vars PROVE OneInv'
    OBVIOUS
  <2>1. ASSUME NEW w \in Writer, NEW t \in Texts, Begin(w, t) PROVE OneInv'
    BY <2>1, OneBegin
  <2>2. ASSUME NEW w \in Writer, Write(w) PROVE OneInv'
    BY <2>2, OneWrite
  <2>3. CASE Broken \/ Return \/ KeeperCloses
    <3>1. /\ UNCHANGED <<busy, frame, at, wire, have, received, part, need, result>>
          /\ running' => running
      BY <2>3 DEF Broken, Return, KeeperCloses, reading
    <3> QED BY <3>1, Still DEF Flow, OneInv, FrameIsWhole
  <2>4. CASE Kill
    BY <2>4, OneKill
  <2>5. CASE Read
    BY <2>5, OneRead
  <2>6. CASE EndOfFile
    BY <2>6, Still DEF EndOfFile, writing, Flow
  <2>7. CASE TakeLength
    BY <2>7, OneTakeLength
  <2>8. CASE TakeBody
    BY <2>8, OneTakeBody
  <2>9. CASE Reject
    BY <2>9, BodyOpens DEF Reject, Complete
  <2>10. CASE UNCHANGED vars
    BY <2>10, Still DEF vars, writing, reading, Flow, OneInv, FrameIsWhole
  <2> QED BY <2>1, <2>2, <2>3, <2>4, <2>5, <2>6, <2>7, <2>8, <2>9, <2>10 DEF Next, WriterNext, ReaderNext
<1> QED BY <1>1, <1>2, TypesAreKept, PTL DEF Spec

\* With one thread that writes, no frame is ever too long for the receiver and none
\* fails to open, however read() and write() cut the stream (receive_command).
THEOREM FramesAreWhole == ASSUME Writer = {Main} PROVE Spec => []FrameIsWhole
<1>1. OneInv => FrameIsWhole
  BY DEF OneInv
<1> QED BY <1>1, OneInvariant, PTL

--------------------------------------------------------------------------------
(* With one thread that writes, Framing implements FrameQueue.  The queue is     *)
(* carried along: q holds the frames whose last unit is in the stream, numbered  *)
(* from the next to receive on, and is complete up to what the thread writes.    *)

\* W is the set of the elements of q, whose numbers follow n.
Holds(q, W, n) == /\ \A f : f \in W <=> \E k \in DOMAIN q : q[k] = f
                  /\ \A k \in DOMAIN q : q[k].nr = n + k

Whole(s) == {s[i].of : i \in {j \in DOMAIN s : IsLast(s[j])}}

Behind(s, q) == Holds(q, Whole(s), Len(received))

Counted(q) == running => Len(received) + Len(q) = IF Main \in busy THEN Mine.nr - 1 ELSE Mine.nr

QueueInv == /\ Mine.nr <= MaxFrames[Main]
            /\ \E q \in Seq(Frame) : Behind(Flow, q) /\ Counted(q)

\* Such a sequence is read off the set by the numbers.
LEMMA ByNumber ==
    ASSUME NEW q \in Seq(Frame), NEW W, NEW n \in Nat, Holds(q, W, n)
    PROVE  q = [k \in 1..Cardinality(W) |-> CHOOSE f \in W : f.nr = n + k]
<1>1. Len(q) \in Nat /\ DOMAIN q = 1..Len(q)
  BY LenProperties
<1>2. Cardinality(W) = Len(q)
  <2>1. q \in [1..Len(q) -> W]
    BY <1>1, SeqDef DEF Holds
  <2>2. \A j, k \in 1..Len(q) : q[j] = q[k] => j = k
    <3>1. \A j \in 1..Len(q) : q[j].nr = n + j
      BY <1>1 DEF Holds
    <3>2. \A j, k \in 1..Len(q) : n + j = n + k => j = k
      BY <1>1
    <3> QED BY <3>1, <3>2, SMTT(30)
  <2>3. q \in Injection(1..Len(q), W)
    BY <2>1, <2>2 DEF Injection, IsInjective
  <2>4. q \in Surjection(1..Len(q), W)
    BY <1>1, <2>1 DEF Surjection, Holds
  <2>5. IsFiniteSet(1..Len(q)) /\ Cardinality(1..Len(q)) = Len(q)
    <3>1. 1 \in Int /\ Len(q) \in Int /\ (1 > Len(q) => Len(q) = 0) /\ Len(q) - 1 + 1 = Len(q)
      BY <1>1
    <3> QED BY <3>1, FS_Interval
  <2> QED BY <2>3, <2>4, <2>5, FS_Surjection
<1>3. ASSUME NEW k \in 1..Len(q) PROVE q[k] = CHOOSE f \in W : f.nr = n + k
  <2>1. q[k] \in W /\ q[k].nr = n + k
    BY <1>1 DEF Holds
  <2>2. ASSUME NEW f \in W, f.nr = n + k PROVE f = q[k]
    <3>1. PICK j \in 1..Len(q) : q[j] = f /\ f.nr = n + j
      BY <1>1 DEF Holds
    <3>2. j = k
      BY <1>1, <2>2, <3>1
    <3> QED BY <3>1, <3>2
  <2> QED BY <2>1, <2>2
<1>4. q \in [1..Len(q) -> Frame]
  BY <1>1, SeqDef
<1>5. q = [k \in 1..Len(q) |-> q[k]]
  BY <1>4
<1> QED BY <1>2, <1>3, <1>5

LEMMA UnderNow ==
    ASSUME TypeOK, NEW q \in Seq(Frame), Behind(Flow, q)
    PROVE  Under = q
<1>1. Len(received) \in Nat
  BY MineType
<1>2. q = [k \in 1..Cardinality(Whole(Flow)) |-> CHOOSE f \in Whole(Flow) : f.nr = Len(received) + k]
  BY <1>1, ByNumber DEF Behind
<1> QED BY <1>2 DEF Under, Whole, Flow

LEMMA UnderNext ==
    ASSUME TypeOK', NEW q \in Seq(Frame), Behind(Flow, q)'
    PROVE  Under' = q
<1>1. Len(received') \in Nat
  BY LenProperties DEF TypeOK
<1>2. Holds(q, Whole(Flow'), Len(received'))
  BY DEF Behind, Holds, Whole
<1>3. q = [k \in 1..Cardinality(Whole(Flow')) |-> CHOOSE f \in Whole(Flow') : f.nr = Len(received') + k]
  BY <1>1, <1>2, ByNumber
<1> QED BY <1>3 DEF Under, Whole, Flow

\* A frame is whole where its last unit is.
LEMMA InWhole ==
    ASSUME NEW s
    PROVE  \A f : f \in Whole(s) <=> \E i \in DOMAIN s : s[i].pos = Size(s[i].of) /\ s[i].of = f
BY DEF Whole, IsLast

LEMMA QueueInit == ASSUME TypeOK, Init PROVE QueueInv /\ Queue!Init
<1>1. have = <<>> /\ wire = <<>> /\ received = <<>> /\ busy = {} /\ Mine.nr = 0 /\ running /\ result = "reading"
  BY WriterAssumption DEF Init, Mine
<1>2. Flow = <<>> /\ <<>> \in Seq(Frame) /\ Len(<<>>) = 0 /\ DOMAIN <<>> = {}
  BY <1>1, EmptySeq DEF Flow
<1>3. Whole(<<>>) = {}
  BY <1>2 DEF Whole
<1>4. Behind(Flow, <<>>) /\ Counted(<<>>)
  BY <1>1, <1>2, <1>3 DEF Behind, Holds, Counted
<1>5. Mine.nr <= MaxFrames[Main]
  <2>1. MaxFrames[Main] \in Nat
    BY UnitAssumption, WriterAssumption
  <2> QED BY <1>1, <2>1
<1>6. Under = <<>>
  BY <1>2, <1>4, UnderNow
<1> QED BY <1>1, <1>2, <1>4, <1>5, <1>6 DEF QueueInv, Queue!Init

\* The thread writes the last unit of its frame, or none that is last.
LEMMA QueueWrite ==
    ASSUME Writer = {Main}, TypeOK, OneInv, NEW q \in Seq(Frame), Behind(Flow, q), Counted(q), Write(Main)
    PROVE  \E p \in {q, Append(q, Mine)} : Behind(Flow, p)' /\ Counted(p)'
<1>0. PICK k, f, s, t : k = Less(Rest(Main), Capacity - Len(wire)) /\ f = Mine /\ s = Flow /\ t = Flow'
  OBVIOUS
<1>1. /\ running /\ Main \in busy /\ UNCHANGED <<running, frame, have, received>>
      /\ wire' = wire \o Chunk(Main, k) /\ at' = [at EXCEPT ![Main] = at[Main] + k]
      /\ busy' = IF at'[Main] = Size(frame[Main]) THEN busy \ {Main} ELSE busy
      /\ Len(wire) < Capacity
  BY <1>0 DEF Write, Written, reading
<1>2. Mine' = f /\ frame[Main] = f /\ f.nr \in Nat /\ at[Main] < Size(f) /\ at[Main] \in Nat /\ Size(f) \in Nat
  BY <1>0, <1>1, MineType DEF Mine, OneInv, Working
<1>3. k \in Nat \ {0} /\ at[Main] + k <= Size(f)
  <2>1. Rest(Main) \in Nat /\ Rest(Main) > 0 /\ at[Main] + Rest(Main) <= Size(f)
    BY <1>2, WriterAssumption, RestType
  <2>2. Len(wire) \in Nat /\ Capacity \in Nat
    BY FlowType, UnitAssumption
  <2> QED BY <1>0, <1>1, <1>2, <2>1, <2>2 DEF Less
<1>4. at'[Main] = at[Main] + k
  BY <1>1, WriterAssumption DEF TypeOK
<1>5. PICK L : L = Len(s)
  OBVIOUS
<1>6. /\ L \in Nat /\ DOMAIN s = 1..L /\ DOMAIN t = 1..(L + k)
      /\ \A i \in 1..L : t[i] = s[i]
      /\ \A m \in 1..k : t[L + m].of = f /\ t[L + m].pos = at[Main] + m
  <2>1. /\ t \in Seq(Units) /\ Len(t) = L + k /\ L \in Nat
        /\ \A i \in 1..L : t[i] = s[i]
        /\ \A m \in 1..k : t[L + m] = Unit(f, at[Main] + m)
    BY <1>0, <1>1, <1>2, <1>3, <1>5, WriterAssumption, FlowWrite
  <2>2. DOMAIN s = 1..L
    BY <1>0, <1>5, FlowType
  <2>3. DOMAIN t = 1..(L + k)
    BY <2>1, LenProperties
  <2>4. ASSUME NEW m \in 1..k PROVE t[L + m].of = f /\ t[L + m].pos = at[Main] + m
    <3>1. t[L + m] = Unit(f, at[Main] + m)
      BY <2>1
    <3> QED BY <3>1 DEF Unit
  <2> QED BY <2>1, <2>2, <2>3, <2>4
<1>7. /\ \A i \in DOMAIN s : i \in DOMAIN t /\ t[i] = s[i]
      /\ \A j \in DOMAIN t : j \in DOMAIN s \/ \E m \in 1..k : j = L + m
      /\ \A m \in 1..k : L + m \in DOMAIN t
  <2>1. \A j \in 1..(L + k) : j \in 1..L \/ (j - L \in 1..k /\ j = L + (j - L))
    BY <1>3, <1>6
  <2>2. \A m \in 1..k : L + m \in 1..(L + k)
    BY <1>3, <1>6
  <2>3. \A i \in 1..L : i \in 1..(L + k)
    BY <1>3, <1>6
  <2> QED BY <1>6, <2>1, <2>2, <2>3
<1>8. Holds(q, Whole(s), Len(received)) /\ Len(received) \in Nat /\ Len(q) \in Nat
  BY <1>0, MineType, LenProperties DEF Behind
<1>9. Len(received) + Len(q) = f.nr - 1
  BY <1>0, <1>1 DEF Counted
<1>10. CASE at[Main] + k # Size(f)
  <2>1. \A m \in 1..k : at[Main] + m # Size(f)
    BY <1>2, <1>3, <1>10
  <2>2. \A g : g \in Whole(t) <=> g \in Whole(s)
    <3>1. \A g : g \in Whole(s) => g \in Whole(t)
      BY <1>7, InWhole
    <3>2. ASSUME NEW g \in Whole(t) PROVE g \in Whole(s)
      <4>1. PICK j \in DOMAIN t : t[j].pos = Size(t[j].of) /\ t[j].of = g
        BY InWhole
      <4>2. j \in DOMAIN s
        BY <1>6, <1>7, <2>1, <4>1
      <4> QED BY <1>7, <4>1, <4>2, InWhole
    <3> QED BY <3>1, <3>2
  <2>3. Holds(q, Whole(t), Len(received))
    BY <1>8, <2>2 DEF Holds
  <2>4. Behind(Flow, q)'
    BY <1>0, <1>1, <2>3 DEF Behind, Holds, Whole
  <2>5. Counted(q)'
    BY <1>1, <1>2, <1>4, <1>9, <1>10 DEF Counted
  <2> QED BY <2>4, <2>5
<1>11. CASE at[Main] + k = Size(f)
  <2>1. k \in 1..k
    BY <1>3
  <2>2. \A m \in 1..k : at[Main] + m = Size(f) => m = k
    BY <1>2, <1>3, <1>11
  <2>3. \A g : g \in Whole(t) <=> g \in Whole(s) \/ g = f
    <3>1. f \in Whole(t)
      BY <1>6, <1>7, <1>11, <2>1, InWhole
    <3>2. \A g : g \in Whole(s) => g \in Whole(t)
      BY <1>7, InWhole
    <3>3. ASSUME NEW g \in Whole(t) PROVE g \in Whole(s) \/ g = f
      <4>1. PICK j \in DOMAIN t : t[j].pos = Size(t[j].of) /\ t[j].of = g
        BY InWhole
      <4>2. CASE j \in DOMAIN s
        BY <1>7, <4>1, <4>2, InWhole
      <4>3. CASE \E m \in 1..k : j = L + m
        BY <1>6, <4>1, <4>3
      <4> QED BY <1>7, <4>2, <4>3
    <3> QED BY <3>1, <3>2, <3>3
  <2>4. PICK p : p = Append(q, f)
    OBVIOUS
  <2>5. /\ p \in Seq(Frame) /\ Len(p) = Len(q) + 1
        /\ Len(q) + 1 \in DOMAIN p /\ p[Len(q) + 1] = f
        /\ \A i \in DOMAIN q : i \in DOMAIN p /\ p[i] = q[i]
        /\ \A j \in DOMAIN p : j \in DOMAIN q \/ j = Len(q) + 1
    <3>1. f \in Frame
      BY <1>0, MineType
    <3> QED BY <2>4, <3>1, AppendElements, AppendProperties
  <2>6. Holds(p, Whole(t), Len(received))
    <3>1. \A g : g \in Whole(t) <=> \E j \in DOMAIN p : p[j] = g
      BY <1>8, <2>3, <2>5 DEF Holds
    <3>2. f.nr = Len(received) + (Len(q) + 1)
      BY <1>2, <1>8, <1>9
    <3>3. \A j \in DOMAIN p : p[j].nr = Len(received) + j
      BY <1>8, <2>5, <3>2 DEF Holds
    <3> QED BY <3>1, <3>3 DEF Holds
  <2>7. Behind(Flow, p)'
    BY <1>0, <1>1, <2>6 DEF Behind, Holds, Whole
  <2>8. Counted(p)'
    <3>1. Len(received) + Len(p) = f.nr
      BY <1>2, <1>8, <1>9, <2>5
    <3>2. Main \notin busy'
      BY <1>1, <1>2, <1>4, <1>11
    <3> QED BY <1>1, <1>2, <3>1, <3>2 DEF Counted
  <2> QED BY <1>0, <2>4, <2>7, <2>8
<1> QED BY <1>10, <1>11

LEMMA Prefix ==
    ASSUME NEW q \in Seq(Frame), NEW n \in 0..Len(q)
    PROVE  /\ SubSeq(q, 1, n) \in Seq(Frame) /\ Len(SubSeq(q, 1, n)) = n
           /\ DOMAIN SubSeq(q, 1, n) = 1..n
           /\ \A k \in 1..n : k \in DOMAIN q /\ SubSeq(q, 1, n)[k] = q[k]
<1>1. Len(q) \in Nat /\ DOMAIN q = 1..Len(q) /\ n \in Nat /\ n <= Len(q)
  BY LenProperties
<1>2. \A i \in 1..n : i \in DOMAIN q /\ q[i] \in Frame
  <2>1. \A i \in 1..n : i \in DOMAIN q
    BY <1>1
  <2> QED BY <2>1, ElementOfSeq
<1>3. 1 \in Int /\ n \in Int
  BY <1>1
<1>4. /\ SubSeq(q, 1, n) \in Seq(Frame) /\ Len(SubSeq(q, 1, n)) = IF 1 <= n THEN n - 1 + 1 ELSE 0
      /\ \A i \in 1..(n - 1 + 1) : SubSeq(q, 1, n)[i] = q[1 + i - 1]
  BY <1>2, <1>3, SubSeqProperties
<1>5. n - 1 + 1 = n /\ \A i \in 1..n : 1 + i - 1 = i
  BY <1>1
<1>6. Len(SubSeq(q, 1, n)) = n /\ \A i \in 1..n : SubSeq(q, 1, n)[i] = q[i]
  BY <1>1, <1>4, <1>5
<1>7. DOMAIN SubSeq(q, 1, n) = 1..n
  BY <1>4, <1>6, LenProperties
<1> QED BY <1>2, <1>4, <1>6, <1>7

\* A kill loses an end of the queue: what is left ends in the frame of the last unit that is left,
\* or in the one before.
LEMMA QueueKill ==
    ASSUME Writer = {Main}, TypeOK, TypeOK', OneInv, NEW q \in Seq(Frame), Behind(Flow, q), Kill
    PROVE  \E n \in 0..Len(q) : Behind(Flow, SubSeq(q, 1, n))' /\ Counted(SubSeq(q, 1, n))'
<1>0. PICK s, t, L, M, R : s = Flow /\ t = Flow' /\ L = Len(s) /\ M = Len(t) /\ R = Len(received)
  OBVIOUS
<1>1. running' = FALSE /\ UNCHANGED received
  BY FlowKill
<1>2. /\ s \in Seq(Units) /\ t \in Seq(Units) /\ L \in Nat /\ M \in Nat /\ M <= L
      /\ DOMAIN s = 1..L /\ DOMAIN t = 1..M /\ \A i \in 1..M : t[i] = s[i]
      /\ \A i \in 1..M : i \in 1..L
  <2>1. /\ s \in Seq(Units) /\ t \in Seq(Units) /\ L \in Nat /\ M \in Nat /\ M <= L
        /\ \A i \in 1..M : t[i] = s[i]
    BY <1>0, FlowKill
  <2>2. \A x \in Seq(Units) : DOMAIN x = 1..Len(x)
    BY StreamFacts
  <2>3. \A i \in 1..M : i \in 1..L
    BY <2>1
  <2> QED BY <1>0, <2>1, <2>2, <2>3
<1>3. Straight(s) /\ Known(s) /\ Holds(q, Whole(s), R)
  BY <1>0 DEF OneInv, InLine, Behind
<1>4. \A i \in 1..L : s[i].of.nr \in Nat /\ s[i].pos \in Nat /\ Size(s[i].of) \in Nat /\ i \in Nat
  <2>1. \A x \in Seq(Units) : \A i \in 1..Len(x) :
           x[i].of.nr \in Nat /\ x[i].pos \in Nat /\ Size(x[i].of) \in Nat
    BY StreamFacts
  <2>2. \A i \in 1..L : i \in Nat
    BY <1>2
  <2> QED BY <1>0, <1>2, <2>1, <2>2
<1>5. R \in Nat /\ Len(q) \in Nat /\ DOMAIN q = 1..Len(q)
  BY <1>0, MineType, LenProperties
\* The frames up to number R + c are those whose last unit is left.
<1> DEFINE Cut(c) == \A i \in 1..L : s[i].pos = Size(s[i].of) =>
                        (i <= M <=> s[i].of.nr <= R + c)
<1>6. \E c \in Int : Cut(c)
  <2>1. CASE M = 0
    <3>1. ASSUME NEW i \in 1..L, s[i].pos = Size(s[i].of) PROVE ~(i <= M) /\ ~(s[i].of.nr <= R + (-R))
      <4>1. s[i].of.nr >= 1
        BY <1>2, <1>3, <1>4, <3>1, SMTT(30) DEF Known
      <4> QED BY <1>4, <1>5, <2>1, <3>1, <4>1
    <3>2. -R \in Int
      BY <1>5
    <3> QED BY <3>1, <3>2
  <2>2. CASE M # 0
    <3>0. PICK u : u = s[M]
      OBVIOUS
    <3>1. M \in 1..L /\ M \in DOMAIN s /\ u.of.nr \in Nat /\ u.pos \in Nat /\ Size(u.of) \in Nat
      <4>1. M \in 1..L
        BY <1>2, <2>2
      <4> QED BY <1>2, <1>4, <3>0, <4>1
    <3>2. u.pos <= Size(u.of)
      BY <1>3, <3>0, <3>1 DEF Known
    <3>3. ASSUME NEW i \in 1..L, s[i].pos = Size(s[i].of), i < M PROVE s[i].of.nr < u.of.nr
      <4>1. IF s[i].pos + (M - i) <= Size(s[i].of)
            THEN s[M] = Unit(s[i].of, s[i].pos + (M - i))
            ELSE s[M].of.nr > s[i].of.nr
        <5>1. i \in DOMAIN s /\ i <= M
          BY <1>2, <1>4, <3>3
        <5> QED BY <1>3, <3>1, <5>1 DEF Straight
      <4>2. ~(s[i].pos + (M - i) <= Size(s[i].of))
        BY <1>2, <1>4, <3>3
      <4> QED BY <1>4, <3>0, <3>1, <4>1, <4>2
    <3>4. ASSUME NEW i \in 1..L, s[i].pos = Size(s[i].of), i > M
          PROVE  IF u.pos = Size(u.of) THEN s[i].of.nr > u.of.nr ELSE s[i].of.nr >= u.of.nr
      <4>1. IF u.pos + (i - M) <= Size(u.of)
            THEN s[i] = Unit(u.of, u.pos + (i - M))
            ELSE s[i].of.nr > u.of.nr
        <5>1. i \in DOMAIN s /\ M <= i
          BY <1>2, <1>4, <3>4
        <5> QED BY <1>3, <3>0, <3>1, <5>1 DEF Straight
      <4>2. CASE u.pos + (i - M) <= Size(u.of)
        <5>1. s[i].of = u.of
          BY <4>1, <4>2 DEF Unit
        <5>2. u.pos # Size(u.of)
          BY <1>2, <1>4, <3>1, <3>4, <4>2
        <5> QED BY <3>1, <5>1, <5>2
      <4>3. CASE ~(u.pos + (i - M) <= Size(u.of))
        BY <1>4, <3>1, <4>1, <4>3
      <4> QED BY <4>2, <4>3
    <3>5. CASE u.pos = Size(u.of)
      <4>1. u.of.nr - R \in Int /\ R + (u.of.nr - R) = u.of.nr
        BY <1>5, <3>1
      <4>2. Cut(u.of.nr - R)
        <5> SUFFICES ASSUME NEW i \in 1..L, s[i].pos = Size(s[i].of)
                     PROVE  i <= M <=> s[i].of.nr <= u.of.nr
          BY <4>1
        <5>1. s[i].of.nr \in Nat /\ i \in Nat
          BY <1>4
        <5>2. i < M \/ i = M \/ i > M
          BY <1>2, <5>1
        <5>3. (i < M => s[i].of.nr < u.of.nr) /\ (i > M => s[i].of.nr > u.of.nr)
              /\ (i = M => s[i].of.nr = u.of.nr)
          BY <3>0, <3>3, <3>4, <3>5
        <5> QED BY <1>2, <3>1, <5>1, <5>2, <5>3
      <4> QED BY <4>1, <4>2
    <3>6. CASE u.pos # Size(u.of)
      <4>1. u.of.nr - 1 - R \in Int /\ R + (u.of.nr - 1 - R) = u.of.nr - 1
        BY <1>5, <3>1
      <4>2. Cut(u.of.nr - 1 - R)
        <5> SUFFICES ASSUME NEW i \in 1..L, s[i].pos = Size(s[i].of)
                     PROVE  i <= M <=> s[i].of.nr <= u.of.nr - 1
          BY <4>1
        <5>1. s[i].of.nr \in Nat /\ i \in Nat
          BY <1>4
        <5>2. i < M \/ i > M
          BY <1>2, <3>0, <3>6, <5>1
        <5>3. (i < M => s[i].of.nr < u.of.nr) /\ (i > M => s[i].of.nr >= u.of.nr)
          BY <3>3, <3>4, <3>6
        <5> QED BY <1>2, <3>1, <5>1, <5>2, <5>3
      <4> QED BY <4>1, <4>2
    <3> QED BY <3>5, <3>6
  <2> QED BY <2>1, <2>2
<1>7. PICK c \in Int : Cut(c)
  BY <1>6
<1>8. PICK n \in 0..Len(q) : \A k \in 1..Len(q) : k <= n <=> k <= c
  <2>1. CASE c < 0
    <3>1. 0 \in 0..Len(q) /\ \A k \in 1..Len(q) : ~(k <= 0) /\ ~(k <= c)
      BY <1>5, <2>1
    <3> QED BY <3>1
  <2>2. CASE c >= 0 /\ c <= Len(q)
    <3>1. c \in 0..Len(q)
      BY <1>5, <2>2
    <3> QED BY <3>1
  <2>3. CASE c > Len(q)
    <3>1. Len(q) \in 0..Len(q) /\ \A k \in 1..Len(q) : k <= Len(q) /\ k <= c
      BY <1>5, <2>3
    <3> QED BY <3>1
  <2> QED BY <1>5, <2>1, <2>2, <2>3
<1>9. PICK p : p = SubSeq(q, 1, n)
  OBVIOUS
<1>10. p \in Seq(Frame) /\ DOMAIN p = 1..n /\ \A k \in 1..n : k \in DOMAIN q /\ p[k] = q[k]
  BY <1>9, Prefix
<1>11. \A k \in DOMAIN q : k \in 1..n <=> q[k].nr <= R + c
  <2>1. \A k \in 1..Len(q) : (k \in 1..n <=> k <= c) /\ (k <= c <=> R + k <= R + c)
    BY <1>5, <1>8
  <2> QED BY <1>3, <1>5, <2>1 DEF Holds
<1>12. \A g : g \in Whole(t) <=> g \in Whole(s) /\ g.nr <= R + c
  <2>1. ASSUME NEW g \in Whole(t) PROVE g \in Whole(s) /\ g.nr <= R + c
    <3>1. PICK i \in DOMAIN t : t[i].pos = Size(t[i].of) /\ t[i].of = g
      BY InWhole
    <3>2. i \in 1..L /\ i \in DOMAIN s /\ s[i].pos = Size(s[i].of) /\ s[i].of = g /\ i <= M
      BY <1>2, <3>1
    <3> QED BY <1>7, <3>2, InWhole
  <2>2. ASSUME NEW g \in Whole(s), g.nr <= R + c PROVE g \in Whole(t)
    <3>1. PICK i \in DOMAIN s : s[i].pos = Size(s[i].of) /\ s[i].of = g
      BY InWhole
    <3>2. i \in DOMAIN t
      BY <1>2, <1>7, <2>2, <3>1
    <3> QED BY <1>2, <3>1, <3>2, InWhole
  <2> QED BY <2>1, <2>2
<1> HIDE DEF Cut
<1>13. Holds(p, Whole(t), R)
  <2>1. \A g : g \in Whole(t) <=> \E k \in DOMAIN p : p[k] = g
    BY <1>3, <1>10, <1>11, <1>12 DEF Holds
  <2>2. \A k \in DOMAIN p : p[k].nr = R + k
    BY <1>3, <1>10 DEF Holds
  <2> QED BY <2>1, <2>2 DEF Holds
<1>14. Behind(Flow, p)' /\ Counted(p)'
  BY <1>0, <1>1, <1>13 DEF Behind, Holds, Whole, Counted
<1> QED BY <1>9, <1>14 DEF Behind, Counted

\* While a length or a part of a body is read, no frame is whole before what is read.
LEMMA QueueOpen ==
    ASSUME Writer = {Main}, TypeOK, OneInv, part = "length" \/ Len(have) # need
    PROVE  \A i \in 1..Len(have) : i \in DOMAIN Flow /\ Flow[i].pos # Size(Flow[i].of)
<1> SUFFICES ASSUME NEW i \in 1..Len(have)
             PROVE  i \in DOMAIN Flow /\ Flow[i].pos # Size(Flow[i].of)
  OBVIOUS
<1>1. /\ Len(have) \in Nat /\ need \in Nat /\ Len(have) <= need /\ Header \in Nat /\ have # <<>>
      /\ i \in DOMAIN Flow /\ i \in Nat /\ i <= Len(have) /\ i \in 1..Len(Flow)
  <2>1. /\ Len(have) \in Nat /\ need \in Nat /\ Len(have) <= need /\ Len(wire) \in Nat
        /\ Len(Flow) = Len(have) + Len(wire) /\ DOMAIN Flow = 1..Len(Flow)
    BY FlowType DEF TypeOK
  <2>2. i \in 1..Len(Flow) /\ i \in Nat /\ i <= Len(have) /\ Len(have) # 0
    BY <2>1
  <2>3. Len(<<>>) = 0
    OBVIOUS
  <2> QED BY <2>1, <2>2, <2>3, UnitAssumption
<1>2. PICK g, o : g = have[1].of /\ o = IF part = "length" THEN 0 ELSE Header
  OBVIOUS
<1>3. /\ g \in Frame /\ (part = "body" => Body(g) = need)
      /\ o + i <= Size(g) => Flow[i] = Unit(g, o + i)
  BY <1>1, <1>2, HaveIsStraight
<1>4. Size(g) \in Nat /\ Size(g) = Header + Body(g) /\ Body(g) \in Nat /\ Body(g) > 0
  <2>1. g.text \in Nat
    BY <1>3 DEF Frame
  <2> QED BY <1>3, <2>1, SizeType
<1>5. o + i < Size(g)
  <2>1. CASE part = "length"
    <3>1. need = Header
      BY <2>1 DEF OneInv, Awaited
    <3> QED BY <1>1, <1>2, <1>4, <2>1, <3>1
  <2>2. CASE part = "body"
    <3>1. Len(have) < Body(g) /\ o = Header
      BY <1>1, <1>2, <1>3, <2>2
    <3> QED BY <1>1, <1>4, <3>1
  <2> QED BY <2>1, <2>2 DEF TypeOK
<1>6. Flow[i].of = g /\ Flow[i].pos = o + i
  <2>1. Flow[i] = Unit(g, o + i)
    BY <1>1, <1>2, <1>3, <1>4, <1>5
  <2> QED BY <2>1 DEF Unit
<1> QED BY <1>1, <1>2, <1>4, <1>5, <1>6

LEMMA QueueTakeLength ==
    ASSUME Writer = {Main}, TypeOK, TypeOK', OneInv, NEW q \in Seq(Frame), Behind(Flow, q), Counted(q), TakeLength
    PROVE  Behind(Flow, q)' /\ Counted(q)' /\ result' = result
<1>1. /\ part = "length" /\ UNCHANGED <<running, busy, frame, received, wire>>
      /\ have' = <<>> /\ result' = result
  BY LengthRead DEF TakeLength, writing
<1>2. PICK s, t, B : s = Flow /\ t = Flow' /\ B = Len(have)
  OBVIOUS
<1>3. \A i \in 1..B : i \in DOMAIN s /\ s[i].pos # Size(s[i].of)
  BY <1>1, <1>2, QueueOpen
<1>4. /\ DOMAIN s = 1..Len(s) /\ DOMAIN t = 1..Len(t) /\ Len(s) \in Nat /\ Len(t) \in Nat /\ B \in Nat
      /\ Len(s) = B + Len(t) /\ \A j \in 1..Len(t) : t[j] = s[B + j]
  <2>1. /\ Flow \in Seq(Units) /\ Flow' \in Seq(Units) /\ Len(have) \in Nat /\ Len(Flow') \in Nat
        /\ Len(Flow) = Len(have) + Len(Flow')
        /\ \A i \in 1..Len(Flow') : Flow'[i] = Flow[Len(have) + i]
    BY <1>1, FlowTake
  <2>2. \A x \in Seq(Units) : DOMAIN x = 1..Len(x) /\ Len(x) \in Nat
    BY StreamFacts
  <2> QED BY <1>2, <2>1, <2>2
<1>5. /\ \A j \in DOMAIN t : B + j \in DOMAIN s /\ t[j] = s[B + j]
      /\ \A i \in DOMAIN s : i \in 1..B \/ \E j \in DOMAIN t : t[j] = s[i]
  <2>1. \A j \in 1..Len(t) : B + j \in 1..Len(s)
    BY <1>4
  <2>2. ASSUME NEW i \in 1..Len(s), i \notin 1..B PROVE \E j \in 1..Len(t) : t[j] = s[i]
    <3>1. i - B \in 1..Len(t) /\ B + (i - B) = i
      BY <1>4, <2>2
    <3> QED BY <1>4, <3>1
  <2> QED BY <1>4, <2>1, <2>2
<1>6. \A g : g \in Whole(t) <=> g \in Whole(s)
  <2>1. ASSUME NEW g \in Whole(t) PROVE g \in Whole(s)
    BY <1>5, InWhole
  <2>2. ASSUME NEW g \in Whole(s) PROVE g \in Whole(t)
    <3>1. PICK i \in DOMAIN s : s[i].pos = Size(s[i].of) /\ s[i].of = g
      BY InWhole
    <3>2. PICK j \in DOMAIN t : t[j] = s[i]
      BY <1>3, <1>5, <3>1
    <3> QED BY <3>1, <3>2, InWhole
  <2> QED BY <2>1, <2>2
<1>7. Holds(q, Whole(t), Len(received))
  BY <1>2, <1>6 DEF Behind, Holds
<1> QED BY <1>1, <1>2, <1>7 DEF Behind, Holds, Whole, Counted, Mine

\* The frame whose body is opened is the head of the queue.
LEMMA QueueTakeBody ==
    ASSUME Writer = {Main}, TypeOK, TypeOK', OneInv, NEW q \in Seq(Frame), Behind(Flow, q), Counted(q), TakeBody
    PROVE  q # <<>> /\ Head(q) = have[1].of /\ Behind(Flow, Tail(q))' /\ Counted(Tail(q))'
<1>1. /\ part = "body" /\ Len(have) = need /\ received' = Append(received, have[1].of)
      /\ have' = <<>> /\ UNCHANGED <<running, busy, frame, wire>>
  BY DEF TakeBody, Complete, writing
<1>2. PICK s, t, B, R, f : s = Flow /\ t = Flow' /\ B = Len(have) /\ R = Len(received) /\ f = have[1].of
  OBVIOUS
<1>3. /\ f \in Frame /\ f.nr = R + 1 /\ s[B].of = f /\ s[B].pos = Size(f) /\ B \in DOMAIN s
  <2>1. /\ f \in Frame /\ f.nr = R + 1 /\ s[B] = Unit(f, Size(f)) /\ B \in 1..Len(s)
    BY <1>1, <1>2, BodyOpens
  <2>2. DOMAIN s = 1..Len(s)
    BY <1>2, FlowType
  <2> QED BY <2>1, <2>2 DEF Unit
<1>4. /\ DOMAIN s = 1..Len(s) /\ DOMAIN t = 1..Len(t) /\ Len(s) \in Nat /\ Len(t) \in Nat /\ B \in Nat
      /\ s \in Seq(Units) /\ Len(s) = B + Len(t) /\ \A j \in 1..Len(t) : t[j] = s[B + j]
  <2>1. /\ Flow \in Seq(Units) /\ Flow' \in Seq(Units) /\ Len(have) \in Nat /\ Len(Flow') \in Nat
        /\ Len(Flow) = Len(have) + Len(Flow')
        /\ \A i \in 1..Len(Flow') : Flow'[i] = Flow[Len(have) + i]
    BY <1>1, FlowTake
  <2>2. \A x \in Seq(Units) : DOMAIN x = 1..Len(x) /\ Len(x) \in Nat
    BY StreamFacts
  <2> QED BY <1>2, <2>1, <2>2
<1>5. Straight(s) /\ Holds(q, Whole(s), R) /\ R \in Nat
  BY <1>2, MineType DEF Behind, OneInv, InLine
<1>6. \A j \in DOMAIN t : B + j \in DOMAIN s /\ t[j] = s[B + j] /\ t[j].of.nr > f.nr
  <2>1. \A j \in 1..Len(t) : B + j \in 1..Len(s) /\ B <= B + j /\ (B + j) - B > 0 /\ (B + j) - B \in Nat
    BY <1>4
  <2>2. ASSUME NEW j \in 1..Len(t) PROVE s[B + j].of.nr > f.nr
    <3>1. IF s[B].pos + ((B + j) - B) <= Size(s[B].of)
          THEN s[B + j] = Unit(s[B].of, s[B].pos + ((B + j) - B))
          ELSE s[B + j].of.nr > s[B].of.nr
      BY <1>3, <1>4, <1>5, <2>1 DEF Straight
    <3>2. ~(Size(f) + ((B + j) - B) <= Size(f))
      <4>1. Size(f) \in Nat
        BY <1>3, SizeType
      <4>2. (B + j) - B > 0 /\ (B + j) - B \in Nat
        BY <2>1
      <4> QED BY <4>1, <4>2
    <3> QED BY <1>3, <3>1, <3>2
  <2> QED BY <1>4, <2>1, <2>2
<1>7. \A i \in DOMAIN s : s[i].pos = Size(s[i].of) /\ s[i].of # f => \E j \in DOMAIN t : t[j] = s[i]
  <2> SUFFICES ASSUME NEW i \in DOMAIN s, s[i].pos = Size(s[i].of), s[i].of # f
               PROVE  \E j \in DOMAIN t : t[j] = s[i]
    OBVIOUS
  <2>1. CASE i \in 1..B
    <3>1. i <= B /\ i \in Nat /\ B - i \in Nat
      BY <1>4, <2>1
    <3>2. IF s[i].pos + (B - i) <= Size(s[i].of)
          THEN s[B] = Unit(s[i].of, s[i].pos + (B - i))
          ELSE s[B].of.nr > s[i].of.nr
      BY <1>3, <1>5, <3>1 DEF Straight
    <3>3. s[i].of # s[B].of
      BY <1>3
    <3>4. s[i].of.nr < R + 1 /\ s[i].of.nr \in Nat
      <4>1. s[i].of.nr \in Nat
        BY <1>4, StreamFacts
      <4>2. s[B] # Unit(s[i].of, s[i].pos + (B - i))
        BY <3>3 DEF Unit
      <4>3. s[B].of.nr > s[i].of.nr
        BY <3>2, <4>2
      <4> QED BY <1>3, <1>5, <4>1, <4>3
    <3>5. PICK k \in DOMAIN q : q[k] = s[i].of /\ q[k].nr = R + k
      BY <1>5, InWhole DEF Holds
    <3>6. k \in Nat /\ k > 0
      BY LenProperties
    <3> QED BY <1>5, <3>4, <3>5, <3>6
  <2>2. CASE i \notin 1..B
    <3>1. i - B \in 1..Len(t) /\ B + (i - B) = i
      BY <1>4, <2>2
    <3> QED BY <1>4, <3>1
  <2> QED BY <2>1, <2>2
<1>8. /\ Len(q) \in Nat /\ DOMAIN q = 1..Len(q) /\ 1 \in DOMAIN q /\ q[1] = f /\ q # <<>>
  <2>1. Len(q) \in Nat /\ DOMAIN q = 1..Len(q)
    BY LenProperties
  <2>2. PICK k \in DOMAIN q : q[k] = f /\ q[k].nr = R + k
    BY <1>3, <1>5, InWhole DEF Holds
  <2>3. k = 1
    BY <1>3, <1>5, <2>1, <2>2
  <2>4. Len(q) > 0 /\ Len(<<>>) = 0
    BY <2>1, <2>2
  <2> QED BY <2>1, <2>2, <2>3, <2>4
<1>9. PICK p : p = Tail(q)
  OBVIOUS
<1>10. /\ p \in Seq(Frame) /\ Head(q) = f /\ Len(p) = Len(q) - 1
       /\ \A j \in DOMAIN p : j + 1 \in DOMAIN q /\ p[j] = q[j + 1] /\ j \in Nat /\ j > 0
       /\ \A i \in DOMAIN q : i # 1 => i - 1 \in DOMAIN p /\ p[i - 1] = q[i]
  <2>1. /\ p \in Seq(Frame) /\ Head(q) = f
        /\ \A j \in DOMAIN p : j + 1 \in DOMAIN q /\ p[j] = q[j + 1]
        /\ \A i \in DOMAIN q : i # 1 => i - 1 \in DOMAIN p /\ p[i - 1] = q[i]
    BY <1>8, <1>9, TailProperties
  <2>2. Len(p) = Len(q) - 1
    BY <1>8, <1>9, HeadTailProperties
  <2>3. \A j \in DOMAIN p : j \in Nat /\ j > 0
    BY <2>1, LenProperties
  <2> QED BY <2>1, <2>2, <2>3
<1>11. Len(received') = R + 1
  <2>1. received \in Seq(Frame)
    BY MineType
  <2> QED BY <1>1, <1>2, <1>3, <2>1, AppendProperties
<1>12. Holds(p, Whole(t), R + 1)
  <2>1. ASSUME NEW g \in Whole(t) PROVE \E j \in DOMAIN p : p[j] = g
    <3>1. PICK i \in DOMAIN t : t[i].pos = Size(t[i].of) /\ t[i].of = g
      BY InWhole
    <3>2. g \in Whole(s) /\ g.nr > f.nr
      BY <1>6, <3>1, InWhole
    <3>3. PICK k \in DOMAIN q : q[k] = g /\ g.nr = R + k
      BY <1>5, <3>2 DEF Holds
    <3>4. k # 1
      BY <1>3, <1>5, <3>2, <3>3
    <3> QED BY <1>10, <3>3, <3>4
  <2>2. ASSUME NEW j \in DOMAIN p PROVE p[j] \in Whole(t) /\ p[j].nr = (R + 1) + j
    <3>1. p[j].nr = R + (j + 1) /\ p[j] \in Whole(s)
      BY <1>5, <1>10 DEF Holds
    <3>2. R + (j + 1) = (R + 1) + j /\ R + (j + 1) # R + 1
      BY <1>5, <1>10, SMTT(30)
    <3>3. PICK i \in DOMAIN s : s[i].pos = Size(s[i].of) /\ s[i].of = p[j]
      BY <3>1, InWhole
    <3>4. p[j] # f
      BY <1>3, <3>1, <3>2
    <3>5. PICK k \in DOMAIN t : t[k] = s[i]
      BY <1>7, <3>3, <3>4
    <3> QED BY <3>1, <3>2, <3>3, <3>5, InWhole
  <2> QED BY <2>1, <2>2 DEF Holds
<1>13. Behind(Flow, p)'
  BY <1>2, <1>11, <1>12 DEF Behind, Holds, Whole
<1>14. Counted(p)'
  <2>1. Len(received') + Len(p) = R + Len(q)
    BY <1>5, <1>8, <1>10, <1>11
  <2> QED BY <1>1, <1>2, <2>1 DEF Counted, Mine
<1> QED BY <1>2, <1>8, <1>9, <1>10, <1>13, <1>14 DEF Behind, Counted

\* Every step of the bytes is a step of the queue or none.
LEMMA QueueStep ==
    ASSUME Writer = {Main}, TypeOK, TypeOK', OneInv, QueueInv, [Next]_vars
    PROVE  QueueInv' /\ [Queue!Next]_(Queue!vars)
<1>1. PICK q \in Seq(Frame) : Behind(Flow, q) /\ Counted(q)
  BY DEF QueueInv
<1>2. Under = q
  BY <1>1, UnderNow
<1>3. Mine.nr <= MaxFrames[Main] /\ MaxFrames[Main] \in Nat
  BY UnitAssumption, WriterAssumption DEF QueueInv
<1>4. \A p \in Seq(Frame) : Behind(Flow, p)' => Under' = p
  BY UnderNext
<1>5. ASSUME UNCHANGED <<frame, received>>, Flow' = Flow, running' => running /\ busy' = busy
      PROVE  QueueInv' /\ Under' = Under
  <2>1. Behind(Flow, q)'
    BY <1>1, <1>5 DEF Behind, Holds, Whole
  <2>2. Counted(q)'
    BY <1>1, <1>5 DEF Counted, Mine
  <2> QED BY <1>1, <1>2, <1>3, <1>4, <1>5, <2>1, <2>2 DEF QueueInv, Mine
<1>6. ASSUME NEW t \in Texts, Begin(Main, t) PROVE QueueInv' /\ UNCHANGED Queue!vars
  <2>1. /\ running /\ Main \notin busy /\ busy' = busy \cup {Main} /\ Flow' = Flow
        /\ Mine'.nr = Mine.nr + 1 /\ frame[Main].nr < MaxFrames[Main]
        /\ UNCHANGED <<running, keepers, received, result>>
    BY <1>6, WriterAssumption DEF Begin, TypeOK, Mine, Flow, reading
  <2>2. Mine.nr \in Nat /\ Mine.nr < MaxFrames[Main]
    BY <2>1, MineType DEF Mine
  <2>3. Behind(Flow, q)'
    BY <1>1, <2>1 DEF Behind, Holds, Whole
  <2>4. Counted(q)'
    BY <1>1, <2>1, <2>2 DEF Counted
  <2>5. QueueInv'
    BY <1>1, <1>3, <2>1, <2>2, <2>3, <2>4 DEF QueueInv
  <2> QED BY <1>2, <1>4, <2>1, <2>3, <2>5 DEF Queue!vars
<1>7. CASE Write(Main)
  <2>1. UNCHANGED <<running, keepers, frame, received, result>> /\ running
    BY <1>7 DEF Write, reading
  <2>2. PICK p \in {q, Append(q, Mine)} : Behind(Flow, p)' /\ Counted(p)'
    BY <1>1, <1>7, QueueWrite
  <2>3. Mine \in Frame /\ Mine' = Mine
    BY <2>1, MineType DEF Mine
  <2>4. p \in Seq(Frame)
    BY <2>3, AppendProperties
  <2>5. Under' = p /\ QueueInv'
    BY <1>3, <1>4, <2>2, <2>3, <2>4 DEF QueueInv
  <2>6. CASE p = q
    BY <1>2, <2>1, <2>5, <2>6 DEF Queue!vars
  <2>7. CASE p = Append(q, Mine)
    <3>1. Mine \in UNION {[by : {w}, nr : 1..MaxFrames[w], text : Texts] : w \in Writer}
      <4>1. Mine.nr > 0 /\ Mine.by = Main /\ Mine.text \in Texts /\ Mine.nr \in Nat
        BY <1>7, MineType DEF OneInv, Working, Write
      <4>2. Mine.nr \in 1..MaxFrames[Main]
        BY <1>3, <4>1
      <4>3. Mine = [by |-> Mine.by, nr |-> Mine.nr, text |-> Mine.text]
        BY <2>3 DEF Frame
      <4>4. Mine \in [by : {Main}, nr : 1..MaxFrames[Main], text : Texts]
        BY <4>1, <4>2, <4>3
      <4> QED BY <4>4, WriterAssumption
    <3>2. Queue!Send(Mine)
      BY <1>2, <2>1, <2>5, <2>7 DEF Queue!Send
    <3> QED BY <2>5, <3>1, <3>2 DEF Queue!Next
  <2> QED BY <2>2, <2>5, <2>6, <2>7
<1>8. CASE Broken \/ Return \/ KeeperCloses
  <2>1. /\ UNCHANGED <<busy, frame, at, wire, have, received, result>> /\ Flow' = Flow
        /\ running' => running
        /\ running' \/ keepers' # {} => running \/ keepers # {}
    BY <1>8 DEF Broken, Return, KeeperCloses, reading, Flow
  <2>2. QueueInv' /\ Under' = Under
    BY <1>5, <2>1
  <2>3. CASE (running' \/ keepers' # {}) <=> (running \/ keepers # {})
    BY <2>1, <2>2, <2>3 DEF Queue!vars
  <2>4. CASE ~((running' \/ keepers' # {}) <=> (running \/ keepers # {}))
    <3>1. Queue!Leave
      BY <2>1, <2>2, <2>4 DEF Queue!Leave
    <3> QED BY <2>2, <3>1 DEF Queue!Next
  <2> QED BY <2>3, <2>4
<1>9. CASE Kill
  <2>1. running' = FALSE /\ keepers' = {} /\ UNCHANGED <<frame, received, result>>
    BY <1>9 DEF Kill, reading
  <2>2. PICK n \in 0..Len(q) : Behind(Flow, SubSeq(q, 1, n))' /\ Counted(SubSeq(q, 1, n))'
    BY <1>1, <1>9, QueueKill
  <2>3. PICK p : p = SubSeq(q, 1, n)
    OBVIOUS
  <2>4. p \in Seq(Frame) /\ Behind(Flow, p)' /\ Counted(p)'
    BY <2>2, <2>3, Prefix DEF Behind, Counted
  <2>5. Under' = p /\ QueueInv'
    BY <1>3, <1>4, <2>1, <2>4 DEF QueueInv, Mine
  <2>6. Queue!Kill
    BY <1>2, <2>1, <2>2, <2>3, <2>5 DEF Queue!Kill
  <2> QED BY <2>5, <2>6 DEF Queue!Next
<1>10. CASE Read
  <2>1. /\ wire # <<>> /\ have' = Append(have, Head(wire)) /\ wire' = Tail(wire)
        /\ UNCHANGED <<running, keepers, busy, frame, received, result>>
    BY <1>10 DEF Read, writing
  <2>2. have \in Seq(Units) /\ wire \in Seq(Units)
    BY FlowType
  <2>3. Append(have, Head(wire)) \o Tail(wire) = have \o wire
    BY <2>1, <2>2, SMT
  <2>4. Flow' = Flow
    BY <2>1, <2>3 DEF Flow
  <2> QED BY <1>5, <2>1, <2>4 DEF Queue!vars
<1>11. CASE EndOfFile
  <2>1. /\ UNCHANGED <<running, keepers, busy, frame, wire, have, received>>
        /\ result = "reading" /\ result' = "closed" /\ Len(have) # need
        /\ wire = <<>> /\ ~running /\ keepers = {} /\ Flow' = Flow
    BY <1>11 DEF EndOfFile, AtEnd, Complete, writing, Flow
  <2>2. q = <<>>
    <3>1. \A i \in 1..Len(have) : i \in DOMAIN Flow /\ Flow[i].pos # Size(Flow[i].of)
      BY <2>1, QueueOpen
    <3>2. Len(Flow) = Len(have) /\ DOMAIN Flow = 1..Len(Flow)
      <4>1. Len(Flow) = Len(have) + Len(wire) /\ Len(have) \in Nat /\ DOMAIN Flow = 1..Len(Flow)
        BY FlowType
      <4>2. Len(wire) = 0
        BY <2>1
      <4> QED BY <4>1, <4>2
    <3>3. \A g : g \notin Whole(Flow)
      BY <3>1, <3>2, InWhole
    <3>4. DOMAIN q = {}
      BY <1>1, <3>3 DEF Behind, Holds
    <3>5. Len(q) \in Nat /\ DOMAIN q = 1..Len(q)
      BY LenProperties
    <3>6. Len(q) = 0
      BY <3>4, <3>5
    <3> QED BY <3>6, EmptySeq
  <2>3. QueueInv' /\ Under' = Under
    BY <1>5, <2>1
  <2>4. Queue!End
    BY <1>2, <2>1, <2>2, <2>3 DEF Queue!End
  <2> QED BY <2>3, <2>4 DEF Queue!Next
<1>12. CASE TakeLength
  <2>1. Behind(Flow, q)' /\ Counted(q)' /\ result' = result
    BY <1>1, <1>12, QueueTakeLength
  <2>2. UNCHANGED <<running, keepers, frame, received>>
    BY <1>12 DEF TakeLength, writing
  <2> QED BY <1>1, <1>2, <1>3, <1>4, <2>1, <2>2 DEF QueueInv, Queue!vars, Mine
<1>13. CASE TakeBody
  <2>1. q # <<>> /\ Head(q) = have[1].of /\ Behind(Flow, Tail(q))' /\ Counted(Tail(q))'
    BY <1>1, <1>13, QueueTakeBody
  <2>2. /\ UNCHANGED <<running, keepers, frame>> /\ result = "reading"
        /\ received' = Append(received, have[1].of)
        /\ result' = IF have[1].of.text = 0 THEN "closed" ELSE "reading"
    BY <1>13 DEF TakeBody, writing
  <2>3. PICK p : p = Tail(q)
    OBVIOUS
  <2>4. p \in Seq(Frame) /\ Behind(Flow, p)' /\ Counted(p)'
    BY <2>1, <2>3, HeadTailProperties DEF Behind, Counted
  <2>5. Under' = p /\ QueueInv'
    BY <1>3, <1>4, <2>2, <2>4 DEF QueueInv, Mine
  <2>6. (result' = "reading") = ~NoText(Head(q))
    BY <2>1, <2>2 DEF NoText
  <2>7. Queue!Receive
    BY <1>2, <2>1, <2>2, <2>3, <2>5, <2>6 DEF Queue!Receive
  <2> QED BY <2>5, <2>7 DEF Queue!Next
<1>14. CASE Reject
  BY <1>14, BodyOpens DEF Reject, Complete
<1>15. CASE UNCHANGED vars
  <2>1. /\ UNCHANGED <<running, keepers, busy, frame, received, result>> /\ Flow' = Flow
    BY <1>15 DEF vars, writing, reading, Flow
  <2> QED BY <1>5, <2>1 DEF Queue!vars
<1> QED BY <1>6, <1>7, <1>8, <1>9, <1>10, <1>11, <1>12, <1>13, <1>14, <1>15
     DEF Next, WriterNext, ReaderNext

\* With one thread that writes, length, body, short writes and short reads are a queue of frames:
\* each step of the two programs is a step of the queue or none (send_command, receive_command).
THEOREM StreamIsAQueue == ASSUME Writer = {Main} PROVE Spec => FrameQueue
<1>1. TypeOK /\ Init => QueueInv /\ Queue!Init
  BY QueueInit
<1>2. TypeOK /\ TypeOK' /\ OneInv /\ QueueInv /\ [Next]_vars => QueueInv' /\ [Queue!Next]_(Queue!vars)
  BY QueueStep
<1> QED BY <1>1, <1>2, OneInvariant, PTL DEF Spec, FrameQueue, Queue!Spec

--------------------------------------------------------------------------------
(* Any number of threads write, and their chunks mix.  Every unit in the stream *)
(* is the first that is missed of its thread or follows one that is there; what *)
(* is missed is only what was taken for a length, taken, since the last body    *)
(* that opened.  A body that opens is whole, so its own length was taken before *)
(* it: that are as many units as were taken, and nothing else was.              *)

\* How many frames of w were received.
Num(w) == Cardinality(Upto(w))

\* v is the unit its thread writes after u.
Follows(u, v) ==
    /\ v.of.by = u.of.by
    /\ IF u.pos = Size(u.of) THEN v.of.nr = u.of.nr + 1 /\ v.pos = 1
       ELSE v.of = u.of /\ v.pos = u.pos + 1

\* The unit after the last that was taken of its thread; taken is what was taken for a length.
Opening(u, taken) == /\ u.of.nr = Num(u.of.by) + 1
                     /\ u.pos = 1 \/ <<u.of.by, u.pos - 1>> \in taken

\* No unit is ahead of its thread.
Sent(s) == \A i \in DOMAIN s :
    /\ s[i].pos \in 1..Size(s[i].of) /\ s[i].of.nr <= frame[s[i].of.by].nr
    /\ s[i].of.nr = frame[s[i].of.by].nr =>
          s[i].of = frame[s[i].of.by] /\ s[i].pos <= at[s[i].of.by]

Sorted(s) == \A i, j \in DOMAIN s : i < j /\ s[i].of.by = s[j].of.by =>
    \/ s[i].of.nr < s[j].of.nr
    \/ s[i].of = s[j].of /\ s[i].pos < s[j].pos

Chained(s, taken) == \A j \in DOMAIN s :
    Opening(s[j], taken) \/ \E i \in DOMAIN s : i < j /\ Follows(s[i], s[j])

Fresh(s, taken) == \A j \in DOMAIN s :
    /\ s[j].of.nr > Num(s[j].of.by)
    /\ s[j].of.nr = Num(s[j].of.by) + 1 => <<s[j].of.by, s[j].pos>> \notin taken

\* The last unit w wrote is there, or was taken, or was received.
Reached(w, s, taken) ==
    IF at[w] > 0
    THEN \/ \E i \in DOMAIN s : s[i] = Unit(frame[w], at[w])
         \/ frame[w].nr = Num(w) + 1 /\ <<w, at[w]>> \in taken
         \/ frame[w].nr = Num(w) /\ at[w] = Size(frame[w])
    ELSE \/ frame[w].nr = 0
         \/ \E i \in DOMAIN s : /\ s[i].of.by = w /\ s[i].of.nr = frame[w].nr - 1
                                /\ s[i].pos = Size(s[i].of)
         \/ frame[w].nr = Num(w) + 1
Reaches(s, taken) == running => \A w \in Writer : Reached(w, s, taken)

\* While a body is read as many units were taken as a length has, of each thread the first.
Lengths(taken) ==
    /\ IsFiniteSet(taken) /\ Cardinality(taken) = (IF part = "body" THEN Header ELSE 0)
    /\ \A w \in Writer, p \in 1..Header : <<w, p>> \in taken =>
          /\ frame[w].nr > Num(w) /\ \A q \in 1..p : <<w, q>> \in taken
          /\ frame[w].nr = Num(w) + 1 => p <= at[w]

Mixed(s, taken) == /\ Sent(s) /\ Sorted(s) /\ Chained(s, taken) /\ Fresh(s, taken)
                   /\ Reaches(s, taken) /\ Lengths(taken)

AtWork == \A w \in Writer :
    /\ frame[w].by = w
    /\ IF w \in busy THEN frame[w].nr > 0 /\ at[w] < Size(frame[w])
       ELSE frame[w].nr = 0 \/ at[w] = Size(frame[w])

Ahead == \A w \in Writer : Num(w) <= frame[w].nr

ManyInv == /\ AtWork /\ Ahead /\ ReceivedInOrder
           /\ part = "length" => need = Header
           /\ result = "reading" => \E taken \in SUBSET (Writer \X (1..Header)) : Mixed(Flow, taken)

LEMMA NumType ==
    ASSUME TypeOK, NEW w
    PROVE  IsFiniteSet(Upto(w)) /\ Num(w) \in Nat
<1>1. Len(received) \in Nat /\ DOMAIN received = 1..Len(received)
  BY MineType
<1>2. IsFiniteSet(1..Len(received)) /\ Upto(w) \in SUBSET (1..Len(received))
  BY <1>1, FS_Interval DEF Upto
<1> QED BY <1>2, FS_Subset, FS_CardinalityType DEF Num

\* The frame received last is the next one of its thread.
LEMMA NumGrows ==
    ASSUME TypeOK, NEW f \in Frame, received' = Append(received, f)
    PROVE  /\ DOMAIN received = 1..Len(received) /\ Len(received) \in Nat
           /\ DOMAIN received' = 1..(Len(received) + 1)
           /\ received'[Len(received) + 1] = f
           /\ \A i \in 1..Len(received) : received'[i] = received[i]
           /\ Upto(f.by)' = Upto(f.by) \cup {Len(received) + 1}
           /\ Num(f.by)' = Num(f.by) + 1
           /\ \A v : v # f.by => Upto(v)' = Upto(v) /\ Num(v)' = Num(v)
<1> DEFINE n == Len(received)
<1>1. received \in Seq(Frame) /\ n \in Nat /\ DOMAIN received = 1..n
  BY MineType
<1>2. /\ received' \in Seq(Frame) /\ Len(received') = n + 1
      /\ received'[n + 1] = f /\ \A i \in 1..n : received'[i] = received[i]
  BY <1>1, AppendProperties
<1>3. DOMAIN received' = 1..(n + 1)
  BY <1>2, LenProperties
<1> HIDE DEF n
<1>4. Upto(f.by)' = Upto(f.by) \cup {n + 1} /\ n + 1 \notin Upto(f.by)
  BY <1>1, <1>2, <1>3 DEF Upto
<1>5. Num(f.by)' = Num(f.by) + 1
  <2>1. IsFiniteSet(Upto(f.by))
    BY NumType
  <2> QED BY <1>4, <2>1, FS_AddElement DEF Num
<1>6. ASSUME NEW v, v # f.by PROVE Upto(v)' = Upto(v) /\ Num(v)' = Num(v)
  <2>1. Upto(v)' = Upto(v)
    BY <1>1, <1>2, <1>3, <1>6 DEF Upto
  <2> QED BY <2>1 DEF Num
<1> QED BY <1>1, <1>2, <1>3, <1>4, <1>5, <1>6 DEF n

\* What ReceivedInOrder says of the i-th frame.
Place(i) == Cardinality({j \in Upto(received[i].by) : j <= i})
InPlace(i) == /\ received[i].nr = Place(i) /\ Place(i) <= frame[received[i].by].nr
              /\ Place(i) = frame[received[i].by].nr => received[i] = frame[received[i].by]

LEMMA InOrderMeans == ReceivedInOrder <=> \A i \in DOMAIN received : InPlace(i)
BY DEF ReceivedInOrder, InPlace, Place

\* Receiving the next frame of a thread keeps what is received in order.
LEMMA InOrderAppend ==
    ASSUME TypeOK, ReceivedInOrder, NEW f \in Frame, received' = Append(received, f), UNCHANGED frame,
           f.nr = Num(f.by) + 1, f.nr <= frame[f.by].nr, f.nr = frame[f.by].nr => f = frame[f.by]
    PROVE  ReceivedInOrder'
<1>0. PICK n : n = Len(received)
  OBVIOUS
<1>1. /\ DOMAIN received = 1..n /\ n \in Nat /\ DOMAIN received' = 1..(n + 1) /\ received'[n + 1] = f
      /\ \A i \in 1..n : received'[i] = received[i]
      /\ Upto(f.by)' = Upto(f.by) \cup {n + 1} /\ Num(f.by)' = Num(f.by) + 1
      /\ \A v : v # f.by => Upto(v)' = Upto(v)
  BY <1>0, NumGrows
<1>2. \A v : Upto(v) \subseteq 1..n
  BY <1>1 DEF Upto
<1>3. ASSUME NEW i \in 1..n PROVE Place(i)' = Place(i)
  <2>1. ASSUME NEW v PROVE {j \in Upto(v)' : j <= i} = {j \in Upto(v) : j <= i}
    <3>1. Upto(v)' \subseteq Upto(v) \cup {n + 1} /\ Upto(v) \subseteq Upto(v)'
      BY <1>1
    <3>2. ~(n + 1 <= i)
      BY <1>1
    <3> QED BY <3>1, <3>2
  <2>2. PICK v : v = received[i].by
    OBVIOUS
  <2>3. received'[i].by = v
    BY <1>1, <2>2
  <2>4. Place(i)' = Cardinality({j \in Upto(v)' : j <= i})
    BY <2>3 DEF Place, Upto
  <2> QED BY <2>1, <2>2, <2>4 DEF Place
<1>4. Place(n + 1)' = Num(f.by)'
  <2>1. \A j \in Upto(f.by)' : j <= n + 1
    BY <1>1, <1>2
  <2>2. {j \in Upto(f.by)' : j <= n + 1} = Upto(f.by)'
    BY <2>1
  <2>3. Upto(received[n + 1].by)' = Upto(f.by)'
    BY <1>1 DEF Upto
  <2> QED BY <2>2, <2>3 DEF Place, Num
<1>5. ASSUME NEW i \in 1..(n + 1) PROVE InPlace(i)'
  <2>1. CASE i = n + 1
    BY <1>1, <1>4, <2>1 DEF InPlace
  <2>2. CASE i # n + 1
    <3>1. i \in 1..n
      BY <1>1, <2>2
    <3>2. InPlace(i)
      BY <1>1, <3>1, InOrderMeans
    <3> QED BY <1>1, <1>3, <3>1, <3>2 DEF InPlace
  <2> QED BY <2>1, <2>2
<1>6. \A i \in DOMAIN received' : InPlace(i)'
  BY <1>1, <1>5
<1>7. ReceivedInOrder' <=> \A i \in DOMAIN received' : InPlace(i)'
  BY DEF ReceivedInOrder, InPlace, Place
<1> QED BY <1>6, <1>7

\* The stream after a step, named.
LEMMA MixedNext ==
    ASSUME NEW s, s = Flow', NEW taken, Mixed(s, taken)'
    PROVE  Mixed(Flow, taken)'
BY DEF Mixed, Sent, Sorted, Chained, Fresh, Reaches, Reached, Lengths

LEMMA ManyInit == ASSUME Init PROVE ManyInv
<1>1. /\ have = <<>> /\ wire = <<>> /\ received = <<>> /\ busy = {} /\ part = "length" /\ need = Header
      /\ \A w \in Writer : at[w] = 0 /\ frame[w].by = w /\ frame[w].nr = 0
  BY DEF Init
<1>2. Flow = <<>> /\ DOMAIN <<>> = {} /\ Len(<<>>) = 0
  BY <1>1 DEF Flow
<1>3. \A w : Upto(w) = {} /\ Num(w) = 0
  BY <1>1, <1>2, FS_EmptySet DEF Upto, Num
<1>4. AtWork /\ Ahead
  BY <1>1, <1>3 DEF AtWork, Ahead
<1>8. ReceivedInOrder
  BY <1>1, <1>2 DEF ReceivedInOrder
<1>5. Reaches(<<>>, {})
  <2>1. \A w \in Writer : ~(at[w] > 0)
    BY <1>1
  <2> QED BY <1>1, <2>1 DEF Reaches, Reached
<1>6. Lengths({})
  BY <1>1, FS_EmptySet DEF Lengths
<1>7. Mixed(<<>>, {})
  BY <1>2, <1>5, <1>6 DEF Mixed, Sent, Sorted, Chained, Fresh
<1> QED BY <1>1, <1>2, <1>4, <1>7, <1>8 DEF ManyInv

\* Nothing is received: what was received stays in order while frames get later.
LEMMA InOrderStays ==
    ASSUME TypeOK, ReceivedInOrder, UNCHANGED received,
           \A w \in Writer : frame'[w] = frame[w] \/ frame'[w].nr = frame[w].nr + 1
    PROVE  ReceivedInOrder' /\ \A v : Upto(v)' = Upto(v) /\ Num(v)' = Num(v)
<1>1. \A v : Upto(v)' = Upto(v) /\ Num(v)' = Num(v)
  BY DEF Upto, Num
<1>2. ASSUME NEW i \in DOMAIN received PROVE InPlace(i)'
  <2>1. InPlace(i)
    BY <1>2, InOrderMeans
  <2>2. Place(i)' = Place(i)
    BY DEF Place, Upto
  <2>3. received[i] \in Frame
    BY <1>2, MineType, ElementOfSeq
  <2>4. received[i].by \in Writer /\ Place(i) \in Nat
    BY <2>1, <2>3 DEF Frame, InPlace
  <2>5. frame[received[i].by].nr \in Nat
    BY <2>4, WriterFacts
  <2> QED BY <2>1, <2>2, <2>4, <2>5 DEF InPlace
<1>3. ReceivedInOrder' <=> \A i \in DOMAIN received' : InPlace(i)'
  BY DEF ReceivedInOrder, InPlace, Place
<1> QED BY <1>1, <1>2, <1>3

\* A step that moves nothing along the stream.
LEMMA ManyStill ==
    ASSUME ManyInv, UNCHANGED <<busy, frame, at, received, part, need>>, running' => running,
           result' = "reading" => result = "reading" /\ Flow' = Flow
    PROVE  ManyInv'
<1>1. AtWork' /\ Ahead' /\ ReceivedInOrder' /\ (part' = "length" => need' = Header)
  BY DEF ManyInv, AtWork, Ahead, ReceivedInOrder, Num, Upto
<1>2. ASSUME result' = "reading"
      PROVE  \E taken \in SUBSET (Writer \X (1..Header)) : Mixed(Flow, taken)'
  <2>1. PICK taken \in SUBSET (Writer \X (1..Header)) : Mixed(Flow, taken)
    BY <1>2 DEF ManyInv
  <2>2. PICK s : s = Flow
    OBVIOUS
  <2>3. \A v : Num(v)' = Num(v)
    BY DEF Num, Upto
  <2>4. Mixed(s, taken)'
    <3>1. Mixed(s, taken)
      BY <2>1, <2>2
    <3>2. Sent(s)' /\ Sorted(s)' /\ Lengths(taken)'
      BY <2>3, <3>1 DEF Mixed, Sent, Sorted, Lengths
    <3>3. Chained(s, taken)' /\ Fresh(s, taken)'
      BY <2>3, <3>1 DEF Mixed, Chained, Opening, Fresh
    <3>4. Reaches(s, taken)'
      BY <2>3, <3>1 DEF Mixed, Reaches, Reached
    <3> QED BY <3>2, <3>3, <3>4 DEF Mixed
  <2> QED BY <1>2, <2>2, <2>4, MixedNext
<1> QED BY <1>1, <1>2 DEF ManyInv

LEMMA ManyBegin ==
    ASSUME TypeOK, TypeOK', ManyInv, NEW w \in Writer, NEW t \in Texts, Begin(w, t)
    PROVE  ManyInv'
<1>1. /\ running /\ w \notin busy /\ busy' = busy \cup {w} /\ Flow' = Flow
      /\ at'[w] = 0 /\ frame'[w] = [by |-> w, nr |-> frame[w].nr + 1, text |-> t]
      /\ \A v \in Writer : v # w => at'[v] = at[v] /\ frame'[v] = frame[v]
      /\ UNCHANGED <<running, part, need, received, result>>
  BY DEF Begin, TypeOK, Flow, reading
<1>2. /\ frame'[w].nr = frame[w].nr + 1 /\ frame'[w].by = w /\ frame[w].nr \in Nat
      /\ at[w] \in Nat /\ Size(frame[w]) \in Nat /\ Size(frame[w]) > Header /\ Header \in Nat
  BY <1>1, WriterFacts
<1>3. AtWork /\ Ahead /\ ReceivedInOrder /\ (part = "length" => need = Header)
  BY DEF ManyInv
<1>4. ReceivedInOrder' /\ \A v : Num(v)' = Num(v)
  BY <1>1, <1>2, <1>3, InOrderStays
<1>5. AtWork'
  <2>1. frame'[w] \in Frame /\ Size(frame'[w]) \in Nat /\ Size(frame'[w]) > 0
    BY SizeType, SMTT(30) DEF TypeOK
  <2> QED BY <1>1, <1>2, <1>3, <2>1 DEF AtWork
<1>6. Ahead'
  BY <1>1, <1>2, <1>3, <1>4, NumType DEF Ahead
<1>7. ASSUME result' = "reading"
      PROVE  \E taken \in SUBSET (Writer \X (1..Header)) : Mixed(Flow, taken)'
  <2>1. PICK taken \in SUBSET (Writer \X (1..Header)) : Mixed(Flow, taken)
    BY <1>1, <1>7 DEF ManyInv
  <2>2. PICK s : s = Flow
    OBVIOUS
  <2>3. /\ Sent(s) /\ Sorted(s) /\ Chained(s, taken) /\ Fresh(s, taken) /\ Reaches(s, taken) /\ Lengths(taken)
        /\ s \in Seq(Units)
    BY <2>1, <2>2, FlowType DEF Mixed
  <2>4. /\ DOMAIN s = 1..Len(s)
        /\ \A i \in DOMAIN s : s[i].of.by \in Writer /\ s[i].of.nr \in Nat /\ s[i].pos \in Nat
    BY <2>3, StreamFacts
  <2>5. Sent(s)' /\ Sorted(s)'
    BY <1>1, <1>2, <2>3, <2>4, SMTT(30) DEF Sent, Sorted
  <2>6. Chained(s, taken)' /\ Fresh(s, taken)'
    BY <1>4, <2>3 DEF Chained, Opening, Fresh
  <2>7. Lengths(taken)'
    <3>1. Num(w) \in Nat
      BY NumType
    <3> QED BY <1>1, <1>2, <1>4, <2>3, <3>1, SMTT(30) DEF Lengths
  <2>8. Reaches(s, taken)'
    <3>1. ASSUME NEW v \in Writer, v # w PROVE Reached(v, s, taken)'
      BY <1>1, <1>4, <2>3, <3>1 DEF Reaches, Reached
    <3>2. Reached(w, s, taken)'
      <4>1. Reached(w, s, taken) /\ frame[w].by = w
        BY <1>1, <1>3, <2>3 DEF Reaches, AtWork
      <4>2. CASE frame[w].nr = 0
        <5>1. Num(w) = 0
          BY <1>2, <1>3, <4>2, NumType DEF Ahead
        <5> QED BY <1>1, <1>2, <1>4, <4>2, <5>1 DEF Reached
      <4>3. CASE frame[w].nr # 0
        <5>1. at[w] = Size(frame[w]) /\ at[w] > Header /\ frame'[w].nr - 1 = frame[w].nr
          BY <1>1, <1>2, <1>3, <4>3 DEF AtWork
        <5>2. <<w, at[w]>> \notin taken
          BY <1>2, <2>1, <5>1
        <5>3. \/ \E i \in DOMAIN s : s[i] = Unit(frame[w], at[w])
              \/ frame[w].nr = Num(w)
          BY <1>2, <4>1, <5>1, <5>2 DEF Reached
        <5>4. ASSUME NEW i \in DOMAIN s, s[i] = Unit(frame[w], at[w])
              PROVE  s[i].of.by = w /\ s[i].of.nr = frame'[w].nr - 1 /\ s[i].pos = Size(s[i].of)
          BY <4>1, <5>1, <5>4 DEF Unit
        <5> QED BY <1>1, <1>2, <1>4, <5>3, <5>4 DEF Reached
      <4> QED BY <4>2, <4>3
    <3> QED BY <3>1, <3>2 DEF Reaches
  <2>9. Mixed(s, taken)'
    BY <2>5, <2>6, <2>7, <2>8 DEF Mixed
  <2> QED BY <1>1, <2>2, <2>9, MixedNext
<1> QED BY <1>1, <1>3, <1>4, <1>5, <1>6, <1>7 DEF ManyInv

LEMMA ManyKill ==
    ASSUME TypeOK, TypeOK', ManyInv, Kill
    PROVE  ManyInv'
<1>1. /\ running' = FALSE /\ UNCHANGED <<busy, frame, at, part, need, have, received, result>>
      /\ Flow \in Seq(Units) /\ Flow' \in Seq(Units) /\ Len(Flow) \in Nat /\ Len(Flow') \in Nat
      /\ Len(Flow') <= Len(Flow) /\ \A i \in 1..Len(Flow') : Flow'[i] = Flow[i]
  BY FlowKill
<1>2. \A v : Num(v)' = Num(v)
  BY <1>1 DEF Num, Upto
<1>3. AtWork' /\ Ahead' /\ ReceivedInOrder' /\ (part' = "length" => need' = Header)
  BY <1>1 DEF ManyInv, AtWork, Ahead, ReceivedInOrder, Num, Upto
<1>4. ASSUME result' = "reading"
      PROVE  \E taken \in SUBSET (Writer \X (1..Header)) : Mixed(Flow, taken)'
  <2>1. PICK taken \in SUBSET (Writer \X (1..Header)) : Mixed(Flow, taken)
    BY <1>1, <1>4 DEF ManyInv
  <2>2. PICK s, t : s = Flow /\ t = Flow'
    OBVIOUS
  <2>3. /\ Sent(s) /\ Sorted(s) /\ Chained(s, taken) /\ Fresh(s, taken) /\ Lengths(taken)
    BY <2>1, <2>2 DEF Mixed
  <2>4. /\ DOMAIN s = 1..Len(s) /\ DOMAIN t = 1..Len(t) /\ Len(s) \in Nat /\ Len(t) \in Nat
        /\ Len(t) <= Len(s) /\ \A i \in 1..Len(t) : t[i] = s[i]
    BY <1>1, <2>2, LenProperties
  <2>5. /\ \A i \in DOMAIN t : i \in DOMAIN s /\ t[i] = s[i] /\ i \in Nat
        /\ \A j \in DOMAIN t : \A i \in DOMAIN s : i < j => i \in DOMAIN t
    BY <2>4
  <2>6. Sent(t)' /\ Sorted(t)' /\ Lengths(taken)' /\ Reaches(t, taken)'
    BY <1>1, <1>2, <2>3, <2>5 DEF Sent, Sorted, Lengths, Reaches
  <2>7. Chained(t, taken)' /\ Fresh(t, taken)'
    <3>1. ASSUME NEW j \in DOMAIN t
          PROVE  \/ Opening(t[j], taken)'
                 \/ \E i \in DOMAIN t : i < j /\ Follows(t[i], t[j])
      <4>1. Opening(s[j], taken) \/ \E i \in DOMAIN s : i < j /\ Follows(s[i], s[j])
        BY <2>3, <2>5 DEF Chained
      <4>2. \A u : Opening(u, taken)' <=> Opening(u, taken)
        BY <1>2 DEF Opening
      <4> QED BY <2>5, <4>1, <4>2
    <3> QED BY <1>2, <2>3, <2>5, <3>1 DEF Chained, Fresh, Follows
  <2>8. Mixed(t, taken)'
    BY <2>6, <2>7 DEF Mixed
  <2> QED BY <2>2, <2>8, MixedNext
<1> QED BY <1>3, <1>4 DEF ManyInv

\* The next unit of a thread follows the one it wrote last, or the last that was taken of it.
LEMMA NextUnit ==
    ASSUME TypeOK, NEW w \in Writer, w \in busy, AtWork, running, NEW s \in Seq(Units),
           NEW taken \in SUBSET (Writer \X (1..Header)), Mixed(s, taken), NEW u, u = Unit(frame[w], at[w] + 1)
    PROVE  /\ frame[w].nr > Num(w)
           /\ Opening(u, taken) \/ \E i \in DOMAIN s : Follows(s[i], u)
<1>1. /\ frame[w].by = w /\ frame[w].nr > 0 /\ at[w] < Size(frame[w])
      /\ at[w] \in Nat /\ frame[w].nr \in Nat /\ Size(frame[w]) \in Nat /\ Num(w) \in Nat
  BY WriterFacts, NumType DEF AtWork
<1>2. u.of = frame[w] /\ u.pos = at[w] + 1
  BY DEF Unit
<1>3. Reached(w, s, taken) /\ Fresh(s, taken) /\ Lengths(taken)
  BY DEF Mixed, Reaches
<1>4. CASE at[w] > 0
  <2>1. CASE \E i \in DOMAIN s : s[i] = Unit(frame[w], at[w])
    <3>1. PICK i \in DOMAIN s : s[i] = Unit(frame[w], at[w])
      BY <2>1
    <3>2. s[i].of = frame[w] /\ s[i].pos = at[w]
      BY <3>1 DEF Unit
    <3>3. Follows(s[i], u)
      BY <1>1, <1>2, <3>2 DEF Follows
    <3> QED BY <1>1, <1>3, <3>2, <3>3 DEF Fresh
  <2>2. CASE frame[w].nr = Num(w) + 1 /\ <<w, at[w]>> \in taken
    <3>1. u.pos - 1 = at[w] /\ u.of.by = w
      BY <1>1, <1>2
    <3>2. Opening(u, taken)
      BY <1>2, <2>2, <3>1 DEF Opening
    <3> QED BY <1>1, <2>2, <3>2
  <2>3. ~(frame[w].nr = Num(w) /\ at[w] = Size(frame[w]))
    BY <1>1
  <2> QED BY <1>3, <1>4, <2>1, <2>2, <2>3 DEF Reached
<1>5. CASE ~(at[w] > 0)
  <2>1. CASE \E i \in DOMAIN s : s[i].of.by = w /\ s[i].of.nr = frame[w].nr - 1 /\ s[i].pos = Size(s[i].of)
    <3>1. PICK i \in DOMAIN s : s[i].of.by = w /\ s[i].of.nr = frame[w].nr - 1 /\ s[i].pos = Size(s[i].of)
      BY <2>1
    <3>2. Follows(s[i], u)
      BY <1>1, <1>2, <1>5, <3>1, SMTT(30) DEF Follows
    <3>3. s[i].of.nr > Num(w)
      BY <1>3, <3>1 DEF Fresh
    <3> QED BY <1>1, <3>1, <3>2, <3>3
  <2>2. CASE frame[w].nr = Num(w) + 1
    <3>1. Opening(u, taken)
      BY <1>1, <1>2, <1>5, <2>2 DEF Opening
    <3> QED BY <1>1, <2>2, <3>1
  <2> QED BY <1>1, <1>3, <1>5, <2>1, <2>2 DEF Reached
<1> QED BY <1>4, <1>5

LEMMA ManyWrite ==
    ASSUME TypeOK, TypeOK', ManyInv, NEW w \in Writer, Write(w)
    PROVE  ManyInv'
<1>0. PICK k : k = Less(Rest(w), Capacity - Len(wire))
  OBVIOUS
<1>1. /\ running /\ w \in busy /\ UNCHANGED <<running, frame, part, need, have, received, result>>
      /\ wire' = wire \o Chunk(w, k) /\ at' = [at EXCEPT ![w] = at[w] + k]
      /\ busy' = IF at'[w] = Size(frame[w]) THEN busy \ {w} ELSE busy
      /\ Len(wire) < Capacity /\ result = "reading"
  BY <1>0 DEF Write, Written, reading
<1>2. AtWork /\ Ahead /\ ReceivedInOrder /\ (part = "length" => need = Header)
  BY DEF ManyInv
<1>3. /\ frame[w].by = w /\ frame[w].nr > 0 /\ at[w] < Size(frame[w])
      /\ at[w] \in Nat /\ frame[w].nr \in Nat /\ Size(frame[w]) \in Nat
  BY <1>1, <1>2, WriterFacts DEF AtWork
<1>4. k \in Nat \ {0} /\ at[w] + k <= Size(frame[w])
  <2>1. Rest(w) \in Nat /\ Rest(w) > 0 /\ at[w] + Rest(w) <= Size(frame[w])
    BY <1>3, RestType
  <2>2. Len(wire) \in Nat /\ Capacity \in Nat
    BY FlowType, UnitAssumption
  <2> QED BY <1>0, <1>1, <1>3, <2>1, <2>2 DEF Less
<1>5. at'[w] = at[w] + k /\ \A v \in Writer : v # w => at'[v] = at[v]
  BY <1>1 DEF TypeOK
<1>6. AtWork'
  <2>1. /\ frame[w].by = w /\ at'[w] <= Size(frame[w]) /\ at'[w] \in Nat
        /\ IF at'[w] = Size(frame[w]) THEN w \notin busy' ELSE w \in busy'
    BY <1>1, <1>3, <1>4, <1>5
  <2>2. IF w \in busy' THEN frame[w].nr > 0 /\ at'[w] < Size(frame[w])
        ELSE frame[w].nr = 0 \/ at'[w] = Size(frame[w])
    BY <1>3, <2>1
  <2>3. \A v \in Writer : v # w => (v \in busy' <=> v \in busy)
    BY <1>1
  <2> QED BY <1>1, <1>2, <1>5, <2>1, <2>2, <2>3 DEF AtWork
<1>7. Ahead' /\ ReceivedInOrder' /\ \A v : Num(v)' = Num(v)
  BY <1>1, <1>2 DEF Ahead, ReceivedInOrder, Num, Upto
<1>8. PICK taken \in SUBSET (Writer \X (1..Header)) : Mixed(Flow, taken)
  BY <1>1 DEF ManyInv
<1>9. PICK s, t, L : s = Flow /\ t = Flow' /\ L = Len(s)
  OBVIOUS
<1>10. /\ s \in Seq(Units) /\ t \in Seq(Units) /\ L \in Nat /\ DOMAIN s = 1..L /\ DOMAIN t = 1..(L + k)
       /\ \A i \in 1..L : t[i] = s[i]
       /\ \A m \in 1..k : t[L + m] = Unit(frame[w], at[w] + m)
  <2>1. /\ t \in Seq(Units) /\ Len(t) = L + k /\ L \in Nat
        /\ \A i \in 1..L : t[i] = s[i]
        /\ \A m \in 1..k : t[L + m] = Unit(frame[w], at[w] + m)
    BY <1>1, <1>4, <1>9, FlowWrite
  <2>2. s \in Seq(Units)
    BY <1>9, FlowType
  <2> QED BY <1>9, <2>1, <2>2, LenProperties
<1>11. /\ \A i \in DOMAIN s : i \in DOMAIN t /\ t[i] = s[i] /\ i \in Nat /\ i <= L
       /\ \A j \in DOMAIN t : j \in DOMAIN s \/ \E m \in 1..k : j = L + m
       /\ \A m \in 1..k : /\ m \in Nat /\ L + m \in DOMAIN t /\ L + m \notin DOMAIN s
                          /\ t[L + m].of = frame[w] /\ t[L + m].pos = at[w] + m
  <2>1. \A j \in 1..(L + k) : j \in 1..L \/ (j - L \in 1..k /\ j = L + (j - L))
    BY <1>4, <1>10
  <2>2. ASSUME NEW m \in 1..k PROVE t[L + m].of = frame[w] /\ t[L + m].pos = at[w] + m
    <3>1. t[L + m] = Unit(frame[w], at[w] + m)
      BY <1>10
    <3> QED BY <3>1 DEF Unit
  <2>3. \A m \in 1..k : m \in Nat /\ L + m \in 1..(L + k) /\ L + m \notin 1..L
    BY <1>4, <1>10
  <2>4. \A i \in 1..L : i \in 1..(L + k) /\ i \in Nat /\ i <= L
    BY <1>4, <1>10
  <2> QED BY <1>10, <2>1, <2>2, <2>3, <2>4
<1>12. /\ Sent(s) /\ Sorted(s) /\ Chained(s, taken) /\ Fresh(s, taken) /\ Reaches(s, taken) /\ Lengths(taken)
       /\ Mixed(s, taken)
  BY <1>8, <1>9 DEF Mixed
<1>13. \A i \in DOMAIN s : s[i].of.by \in Writer /\ s[i].of.nr \in Nat /\ s[i].pos \in Nat
  BY <1>10, StreamFacts
<1>14. Sent(t)'
  <2>1. ASSUME NEW j \in DOMAIN t
        PROVE  /\ t[j].pos \in 1..Size(t[j].of) /\ t[j].of.nr <= frame[t[j].of.by].nr
               /\ t[j].of.nr = frame[t[j].of.by].nr =>
                     t[j].of = frame[t[j].of.by] /\ t[j].pos <= at'[t[j].of.by]
    <3>1. CASE j \in DOMAIN s
      <4>1. t[j] = s[j] /\ t[j].of.by \in Writer /\ at[t[j].of.by] <= at'[t[j].of.by] /\ t[j].pos \in Nat
            /\ at[t[j].of.by] \in Nat /\ at'[t[j].of.by] \in Nat
        BY <1>3, <1>4, <1>5, <1>11, <1>13, <3>1, WriterFacts
      <4>2. /\ s[j].pos \in 1..Size(s[j].of) /\ s[j].of.nr <= frame[s[j].of.by].nr
            /\ s[j].of.nr = frame[s[j].of.by].nr =>
                  s[j].of = frame[s[j].of.by] /\ s[j].pos <= at[s[j].of.by]
        BY <1>12, <3>1 DEF Sent
      <4> QED BY <4>1, <4>2
    <3>2. CASE \E m \in 1..k : j = L + m
      <4>1. PICK m \in 1..k : j = L + m
        BY <3>2
      <4>2. t[j].of = frame[w] /\ t[j].pos = at[w] + m /\ frame[w].by = w
        BY <1>3, <1>11, <4>1
      <4>3. at[w] + m \in 1..Size(frame[w]) /\ at[w] + m <= at'[w]
        BY <1>3, <1>4, <1>5
      <4> QED BY <1>3, <4>2, <4>3
    <3> QED BY <1>11, <3>1, <3>2
  <2> QED BY <1>1, <2>1 DEF Sent
<1>15. Sorted(t)
  <2>1. ASSUME NEW i \in DOMAIN t, NEW j \in DOMAIN t, i < j, t[i].of.by = t[j].of.by
        PROVE  \/ t[i].of.nr < t[j].of.nr
               \/ t[i].of = t[j].of /\ t[i].pos < t[j].pos
    <3>1. CASE j \in DOMAIN s
      <4>1. i \in DOMAIN s
        BY <1>4, <1>10, <2>1, <3>1
      <4> QED BY <1>11, <1>12, <2>1, <3>1, <4>1 DEF Sorted
    <3>2. CASE i \in DOMAIN s /\ \E m \in 1..k : j = L + m
      <4>1. PICK m \in 1..k : j = L + m
        BY <3>2
      <4>2. t[j].of = frame[w] /\ t[j].pos = at[w] + m /\ t[i] = s[i] /\ s[i].of.by = w /\ m \in Nat /\ m > 0
        BY <1>3, <1>11, <2>1, <3>2, <4>1
      <4>3. /\ s[i].of.nr <= frame[w].nr
            /\ s[i].of.nr = frame[w].nr => s[i].of = frame[w] /\ s[i].pos <= at[w]
        BY <1>12, <3>2, <4>2 DEF Sent
      <4>4. s[i].of.nr \in Nat /\ s[i].pos \in Nat
        BY <1>13, <3>2
      <4> QED BY <1>3, <4>2, <4>3, <4>4
    <3>3. CASE i \notin DOMAIN s /\ j \notin DOMAIN s
      <4>1. PICK m \in 1..k, n \in 1..k : i = L + m /\ j = L + n
        BY <1>11, <3>3
      <4>2. m < n /\ m \in Nat /\ n \in Nat
        BY <1>10, <1>11, <2>1, <4>1
      <4> QED BY <1>3, <1>11, <4>1, <4>2
    <3> QED BY <1>11, <3>1, <3>2, <3>3
  <2> QED BY <2>1 DEF Sorted
<1>16. frame[w].nr > Num(w)
  BY <1>1, <1>2, <1>10, <1>12, NextUnit
<1>17. Chained(t, taken)'
  <2>1. \A u : Opening(u, taken)' <=> Opening(u, taken)
    BY <1>7 DEF Opening
  <2>2. ASSUME NEW j \in DOMAIN t
        PROVE  Opening(t[j], taken) \/ \E i \in DOMAIN t : i < j /\ Follows(t[i], t[j])
    <3>1. CASE j \in DOMAIN s
      BY <1>11, <1>12, <3>1 DEF Chained
    <3>2. CASE j = L + 1
      <4>1. t[j] = Unit(frame[w], at[w] + 1) /\ 1 \in 1..k
        BY <1>4, <1>10, <3>2
      <4>2. Opening(t[j], taken) \/ \E i \in DOMAIN s : Follows(s[i], t[j])
        BY <1>1, <1>2, <1>10, <1>12, <4>1, NextUnit
      <4>3. \A i \in DOMAIN s : i < j
        BY <1>10, <1>11, <3>2
      <4> QED BY <1>11, <4>2, <4>3
    <3>3. CASE j \notin DOMAIN s /\ j # L + 1
      <4>1. PICK m \in 1..k : j = L + m /\ m # 1
        BY <1>11, <3>3
      <4>2. m - 1 \in 1..k /\ L + (m - 1) < L + m /\ at[w] + (m - 1) + 1 = at[w] + m
            /\ at[w] + (m - 1) # Size(frame[w])
        <5>1. m \in Nat /\ m - 1 \in 1..k /\ m <= k /\ k \in Nat
          BY <1>4, <4>1
        <5>2. L + (m - 1) < L + m
          BY <1>10, <5>1
        <5>4. at[w] + (m - 1) + 1 = at[w] + m
          BY <1>3, <5>1
        <5>3. at[w] + (m - 1) < at[w] + k /\ at[w] + k <= Size(frame[w])
          BY <1>3, <1>4, <5>1
        <5> QED BY <1>3, <5>1, <5>2, <5>3, <5>4
      <4>3. /\ t[L + m].of = frame[w] /\ t[L + m].pos = at[w] + m
            /\ t[L + (m - 1)].of = frame[w] /\ t[L + (m - 1)].pos = at[w] + (m - 1)
            /\ L + (m - 1) \in DOMAIN t
        BY <1>11, <4>1, <4>2
      <4>4. Follows(t[L + (m - 1)], t[L + m])
        BY <4>2, <4>3 DEF Follows
      <4> QED BY <4>1, <4>2, <4>3, <4>4
    <3> QED BY <3>1, <3>2, <3>3
  <2> QED BY <2>1, <2>2 DEF Chained, Follows
<1>18. Fresh(t, taken)'
  <2>1. ASSUME NEW j \in DOMAIN t
        PROVE  /\ t[j].of.nr > Num(t[j].of.by)
               /\ t[j].of.nr = Num(t[j].of.by) + 1 => <<t[j].of.by, t[j].pos>> \notin taken
    <3>1. CASE j \in DOMAIN s
      BY <1>11, <1>12, <3>1 DEF Fresh
    <3>2. CASE \E m \in 1..k : j = L + m
      <4>1. PICK m \in 1..k : j = L + m
        BY <3>2
      <4>2. t[j].of = frame[w] /\ t[j].pos = at[w] + m /\ frame[w].by = w /\ m \in Nat /\ m > 0
        BY <1>3, <1>11, <4>1
      <4>3. ASSUME frame[w].nr = Num(w) + 1 PROVE <<w, at[w] + m>> \notin taken
        <5>1. SUFFICES ASSUME <<w, at[w] + m>> \in taken PROVE FALSE
          OBVIOUS
        <5>2. at[w] + m \in 1..Header
          BY <5>1
        <5>3. at[w] + m <= at[w]
          BY <1>12, <4>3, <5>1, <5>2 DEF Lengths
        <5> QED BY <1>3, <4>2, <5>3
      <4> QED BY <1>16, <4>2, <4>3
    <3> QED BY <1>11, <3>1, <3>2
  <2> QED BY <1>7, <2>1 DEF Fresh
<1>19. Reaches(t, taken)'
  <2>1. ASSUME NEW v \in Writer, v # w PROVE Reached(v, t, taken)'
    <3>1. Reached(v, s, taken)
      BY <1>1, <1>12, <2>1 DEF Reaches
    <3>2. at'[v] = at[v] /\ frame'[v] = frame[v]
      BY <1>1, <1>5, <2>1
    <3>3. CASE at[v] > 0
      BY <1>7, <1>11, <3>1, <3>2, <3>3 DEF Reached
    <3>4. CASE ~(at[v] > 0)
      BY <1>7, <1>11, <3>1, <3>2, <3>4 DEF Reached
    <3> QED BY <3>3, <3>4
  <2>2. Reached(w, t, taken)'
    <3>1. at'[w] > 0 /\ k \in 1..k
      BY <1>3, <1>4, <1>5
    <3>2. L + k \in DOMAIN t /\ t[L + k] = Unit(frame'[w], at'[w])
      BY <1>1, <1>5, <1>10, <1>11, <3>1
    <3> QED BY <3>1, <3>2 DEF Reached
  <2> QED BY <2>1, <2>2 DEF Reaches
<1>20. Lengths(taken)'
  <2>1. ASSUME NEW v \in Writer, NEW p \in 1..Header, <<v, p>> \in taken
        PROVE  /\ frame'[v].nr > Num(v)' /\ \A q \in 1..p : <<v, q>> \in taken
               /\ frame'[v].nr = Num(v)' + 1 => p <= at'[v]
    <3>1. /\ frame[v].nr > Num(v) /\ \A q \in 1..p : <<v, q>> \in taken
          /\ frame[v].nr = Num(v) + 1 => p <= at[v]
      BY <1>12, <2>1 DEF Lengths
    <3>2. at[v] <= at'[v] /\ at[v] \in Nat /\ at'[v] \in Nat /\ p \in Nat
      BY <1>3, <1>4, <1>5, WriterFacts
    <3> QED BY <1>1, <1>7, <3>1, <3>2
  <2> QED BY <1>1, <1>12, <2>1 DEF Lengths
<1>21. Mixed(t, taken)'
  BY <1>14, <1>15, <1>17, <1>18, <1>19, <1>20 DEF Mixed, Sorted
<1> QED BY <1>1, <1>2, <1>6, <1>7, <1>9, <1>21, MixedNext DEF ManyInv

\* When nothing is missed, the first units of the stream, as many as a length has, are the first
\* of the next frames of their threads: the i-th has at most i - 1 of its thread before it.
LEMMA BeginsFrames ==
    ASSUME TypeOK, NEW s \in Seq(Units), Sent(s), Chained(s, {}), NEW i \in DOMAIN s, i <= Header
    PROVE  /\ s[i].of.nr = Num(s[i].of.by) + 1 /\ s[i].pos \in 1..i
           /\ \A q \in 1..s[i].pos : \E k \in DOMAIN s : k <= i /\ s[k].of.by = s[i].of.by /\ s[k].pos = q
<1> DEFINE Begins(j) == /\ s[j].of.nr = Num(s[j].of.by) + 1 /\ s[j].pos \in 1..j
                        /\ \A q \in 1..s[j].pos : \E k \in DOMAIN s :
                              k <= j /\ s[k].of.by = s[j].of.by /\ s[k].pos = q
           S == {n \in Nat : \A j \in DOMAIN s : j <= n /\ j <= Header => Begins(j)}
<1>1. /\ DOMAIN s = 1..Len(s) /\ Len(s) \in Nat /\ Header \in Nat
      /\ \A j \in DOMAIN s : /\ s[j].pos \in Nat /\ s[j].pos > 0 /\ Size(s[j].of) > Header
                             /\ Size(s[j].of) \in Nat /\ j \in Nat /\ j > 0
  <2>1. DOMAIN s = 1..Len(s) /\ Len(s) \in Nat
    BY StreamFacts
  <2>2. ASSUME NEW j \in DOMAIN s
        PROVE  s[j].pos \in Nat /\ s[j].pos > 0 /\ Size(s[j].of) > Header /\ Size(s[j].of) \in Nat
    <3>1. s[j].pos \in Nat /\ Size(s[j].of) > Header /\ Size(s[j].of) \in Nat
      BY <2>1, <2>2, StreamFacts
    <3>2. s[j].pos \in 1..Size(s[j].of)
      BY DEF Sent
    <3> QED BY <3>1, <3>2
  <2>3. Header \in Nat
    BY UnitAssumption
  <2> QED BY <2>1, <2>2, <2>3
<1>2. 0 \in S
  BY <1>1
<1>3. ASSUME NEW n \in Nat, n \in S, NEW j \in DOMAIN s, j <= n + 1, j <= Header
      PROVE  Begins(j)
  <2>1. \A k \in DOMAIN s : k < j => Begins(k) /\ k <= Header
    <3>1. \A k \in DOMAIN s : k < j => k <= n /\ k <= Header
      BY <1>1, <1>3
    <3> QED BY <1>3, <3>1
  <2>2. CASE Opening(s[j], {})
    <3>1. s[j].of.nr = Num(s[j].of.by) + 1 /\ s[j].pos = 1
      BY <2>2 DEF Opening
    <3>2. \A q \in 1..s[j].pos : q = 1
      BY <3>1
    <3>3. 1 \in 1..j /\ j <= j
      BY <1>1, <1>3
    <3> QED BY <3>1, <3>2, <3>3
  <2>3. CASE \E k \in DOMAIN s : k < j /\ Follows(s[k], s[j])
    <3>1. PICK k \in DOMAIN s : k < j /\ Follows(s[k], s[j])
      BY <2>3
    <3>2. Begins(k) /\ k <= Header
      BY <2>1, <3>1
    <3>3. s[k].pos # Size(s[k].of)
      BY <1>1, <3>2
    <3>4. s[j].of = s[k].of /\ s[j].pos = s[k].pos + 1
      BY <3>1, <3>3 DEF Follows
    <3>5. s[j].pos \in 1..j
      BY <1>1, <3>1, <3>2, <3>4
    <3>6. ASSUME NEW q \in 1..s[j].pos
          PROVE  \E m \in DOMAIN s : m <= j /\ s[m].of.by = s[j].of.by /\ s[m].pos = q
      <4>1. CASE q = s[j].pos
        BY <1>1, <4>1
      <4>2. CASE q # s[j].pos
        <5>1. q \in 1..s[k].pos
          BY <1>1, <3>4, <4>2
        <5>2. PICK m \in DOMAIN s : m <= k /\ s[m].of.by = s[k].of.by /\ s[m].pos = q
          BY <3>2, <5>1
        <5>3. m <= j
          BY <1>1, <3>1, <5>2
        <5> QED BY <3>4, <5>2, <5>3
      <4> QED BY <4>1, <4>2
    <3> QED BY <3>2, <3>4, <3>5, <3>6
  <2> QED BY <2>2, <2>3 DEF Chained
<1> HIDE DEF Begins
<1>4. \A n \in Nat : n \in S => n + 1 \in S
  BY <1>3
<1>5. i \in S
  <2>1. i \in Nat
    BY <1>1
  <2> HIDE DEF S
  <2> QED BY <1>2, <1>4, <2>1, SetInduction
<1>6. Begins(i)
  <2>1. i <= i
    BY <1>1
  <2> QED BY <1>5, <2>1
<1> QED BY <1>6 DEF Begins

\* What is taken for a length, as units of their threads.
TakenOf(s) == {<<s[i].of.by, s[i].pos>> : i \in 1..Header}

\* They are as many as a length has, and of each thread the first of the next frame.
LEMMA LengthTaken ==
    ASSUME TypeOK, NEW s \in Seq(Units), Header <= Len(s), Sent(s), Sorted(s), Chained(s, {})
    PROVE  /\ TakenOf(s) \in SUBSET (Writer \X (1..Header))
           /\ IsFiniteSet(TakenOf(s)) /\ Cardinality(TakenOf(s)) = Header
           /\ \A w \in Writer, p \in 1..Header : <<w, p>> \in TakenOf(s) =>
                 /\ frame[w].nr > Num(w) /\ \A q \in 1..p : <<w, q>> \in TakenOf(s)
                 /\ frame[w].nr = Num(w) + 1 => p <= at[w]
           /\ \A i \in 1..Header : /\ i \in DOMAIN s /\ <<s[i].of.by, s[i].pos>> \in TakenOf(s)
                                   /\ s[i].of.nr = Num(s[i].of.by) + 1 /\ s[i].pos \in 1..Header
<1>1. /\ DOMAIN s = 1..Len(s) /\ Len(s) \in Nat /\ Header \in Nat
      /\ \A i \in 1..Header : i \in DOMAIN s /\ i \in Nat /\ i <= Header
  BY StreamFacts, UnitAssumption
<1>2. ASSUME NEW i \in 1..Header
      PROVE  /\ <<s[i].of.by, s[i].pos>> \in TakenOf(s) /\ s[i].of.by \in Writer
             /\ s[i].of.nr = Num(s[i].of.by) + 1 /\ s[i].pos \in 1..Header
             /\ \A q \in 1..s[i].pos : \E k \in DOMAIN s : k <= i /\ s[k].of.by = s[i].of.by /\ s[k].pos = q
  <2>1. /\ s[i].of.nr = Num(s[i].of.by) + 1 /\ s[i].pos \in 1..i
        /\ \A q \in 1..s[i].pos : \E k \in DOMAIN s : k <= i /\ s[k].of.by = s[i].of.by /\ s[k].pos = q
    BY <1>1, BeginsFrames
  <2>2. s[i].of.by \in Writer
    BY <1>1, StreamFacts
  <2>3. s[i].pos \in 1..Header
    BY <1>1, <2>1
  <2> QED BY <2>1, <2>2, <2>3 DEF TakenOf
<1>3. TakenOf(s) \in SUBSET (Writer \X (1..Header))
  <2>1. ASSUME NEW u \in TakenOf(s) PROVE u \in Writer \X (1..Header)
    <3>1. PICK i \in 1..Header : u = <<s[i].of.by, s[i].pos>>
      BY <2>1 DEF TakenOf
    <3>2. s[i].of.by \in Writer /\ s[i].pos \in 1..Header
      BY <1>2
    <3> QED BY <3>1, <3>2
  <2> QED BY <2>1
<1>4. IsFiniteSet(TakenOf(s)) /\ Cardinality(TakenOf(s)) = Header
  <2> DEFINE g == [i \in 1..Header |-> <<s[i].of.by, s[i].pos>>]
  <2>1. g \in Surjection(1..Header, TakenOf(s))
    BY DEF Surjection, TakenOf
  <2>2. g \in Injection(1..Header, TakenOf(s))
    <3>1. ASSUME NEW i \in 1..Header, NEW j \in 1..Header, g[i] = g[j], i < j PROVE FALSE
      <4>1. s[i].of.by = s[j].of.by /\ s[i].pos = s[j].pos
        BY <3>1
      <4>2. s[i].of.nr = s[j].of.nr /\ s[i].of.nr \in Nat /\ s[i].pos \in Nat
        <5>1. s[i].of.nr \in Nat /\ s[i].pos \in Nat
          BY <1>1, StreamFacts
        <5>2. s[i].of.nr = Num(s[i].of.by) + 1
          BY <1>2
        <5>3. s[j].of.nr = Num(s[j].of.by) + 1
          BY <1>2
        <5> QED BY <4>1, <5>1, <5>2, <5>3
      <4> QED BY <1>1, <3>1, <4>1, <4>2 DEF Sorted
    <3>2. \A i, j \in 1..Header : g[i] = g[j] => i = j
      <4>1. \A i, j \in 1..Header : i < j \/ j < i \/ i = j
        BY <1>1
      <4> HIDE DEF g
      <4> QED BY <3>1, <4>1
    <3>3. g \in [1..Header -> TakenOf(s)]
      BY DEF TakenOf
    <3> HIDE DEF g
    <3> QED BY <3>2, <3>3 DEF Injection, IsInjective
  <2>3. IsFiniteSet(1..Header) /\ Cardinality(1..Header) = Header
    <3>1. 1 \in Int /\ Header \in Int /\ (1 > Header => Header = 0)
      BY <1>1
    <3> QED BY <1>1, <3>1, FS_Interval
  <2> HIDE DEF g
  <2> QED BY <2>1, <2>2, <2>3, FS_Surjection
<1>5. ASSUME NEW w \in Writer, NEW p \in 1..Header, <<w, p>> \in TakenOf(s)
      PROVE  /\ frame[w].nr > Num(w) /\ \A q \in 1..p : <<w, q>> \in TakenOf(s)
             /\ frame[w].nr = Num(w) + 1 => p <= at[w]
  <2>1. PICK i \in 1..Header : s[i].of.by = w /\ s[i].pos = p
    BY <1>5 DEF TakenOf
  <2>2. s[i].of.nr = Num(w) + 1 /\ s[i].of.nr <= frame[w].nr /\ (s[i].of.nr = frame[w].nr => p <= at[w])
    BY <1>1, <1>2, <2>1 DEF Sent
  <2>3. Num(w) \in Nat /\ frame[w].nr \in Nat
    BY NumType, WriterFacts
  <2>4. ASSUME NEW q \in 1..p PROVE <<w, q>> \in TakenOf(s)
    <3>1. PICK k \in DOMAIN s : k <= i /\ s[k].of.by = w /\ s[k].pos = q
      BY <1>2, <2>1
    <3>2. k \in 1..Header
      BY <1>1, <3>1
    <3> QED BY <3>1, <3>2 DEF TakenOf
  <2> QED BY <2>2, <2>3, <2>4
<1> QED BY <1>1, <1>2, <1>3, <1>4, <1>5

LEMMA ManyTakeLength ==
    ASSUME TypeOK, TypeOK', ManyInv, TakeLength
    PROVE  ManyInv'
<1>1. /\ part = "length" /\ Len(have) = need /\ result = "reading"
      /\ UNCHANGED <<running, busy, frame, at, wire, received>>
  BY DEF TakeLength, Complete, writing
<1>2. need = Header /\ Header \in Nat /\ Header > 0
  BY <1>1, UnitAssumption DEF ManyInv
<1>3. \A v : Num(v)' = Num(v)
  BY <1>1 DEF Num, Upto
<1>4. AtWork' /\ Ahead' /\ ReceivedInOrder'
  BY <1>1 DEF ManyInv, AtWork, Ahead, ReceivedInOrder, Num, Upto
<1>5. CASE result' # "reading" /\ UNCHANGED <<part, need, have>>
  BY <1>2, <1>4, <1>5 DEF ManyInv
<1>6. CASE part' = "body" /\ have' = <<>>
  <2>1. PICK none \in SUBSET (Writer \X (1..Header)) : Mixed(Flow, none)
    BY <1>1 DEF ManyInv
  <2>2. PICK s, t : s = Flow /\ t = Flow'
    OBVIOUS
  <2>3. Sent(s) /\ Sorted(s) /\ Chained(s, none) /\ Fresh(s, none) /\ Reaches(s, none) /\ Lengths(none)
    BY <2>1, <2>2 DEF Mixed
  <2>4. none = {}
    BY <1>1, <2>3, FS_EmptySet DEF Lengths
  <2>5. /\ s \in Seq(Units) /\ t \in Seq(Units) /\ DOMAIN s = 1..Len(s) /\ DOMAIN t = 1..Len(t)
        /\ Len(s) \in Nat /\ Len(t) \in Nat /\ Len(s) = Header + Len(t)
        /\ \A i \in 1..Len(t) : t[i] = s[Header + i]
    BY <1>1, <1>2, <1>6, <2>2, FlowTake, LenProperties
  <2>6. /\ \A i \in DOMAIN t : Header + i \in DOMAIN s /\ t[i] = s[Header + i] /\ i \in Nat /\ i > 0
        /\ \A i \in DOMAIN s : i \in 1..Header \/ \E j \in DOMAIN t : i = Header + j /\ t[j] = s[i]
        /\ \A i, j \in Nat : i < j <=> Header + i < Header + j
    <3>1. \A i \in 1..Len(t) : Header + i \in 1..Len(s) /\ i \in Nat /\ i > 0
      BY <1>2, <2>5
    <3>2. ASSUME NEW i \in 1..Len(s), i \notin 1..Header PROVE \E j \in 1..Len(t) : i = Header + j
      <4>1. i - Header \in 1..Len(t) /\ i = Header + (i - Header)
        BY <1>2, <2>5, <3>2
      <4> QED BY <4>1
    <3>3. \A i, j \in Nat : i < j <=> Header + i < Header + j
      BY <1>2
    <3> QED BY <2>5, <3>1, <3>2, <3>3
  <2> DEFINE taken == TakenOf(s)
  <2>7. /\ taken \in SUBSET (Writer \X (1..Header)) /\ IsFiniteSet(taken) /\ Cardinality(taken) = Header
        /\ \A w \in Writer, p \in 1..Header : <<w, p>> \in taken =>
              /\ frame[w].nr > Num(w) /\ \A q \in 1..p : <<w, q>> \in taken
              /\ frame[w].nr = Num(w) + 1 => p <= at[w]
        /\ \A i \in 1..Header : /\ i \in DOMAIN s /\ <<s[i].of.by, s[i].pos>> \in taken
                                /\ s[i].of.nr = Num(s[i].of.by) + 1 /\ s[i].pos \in 1..Header
    <3>1. Header <= Len(s)
      BY <1>2, <2>5
    <3> QED BY <2>3, <2>4, <2>5, <3>1, LengthTaken
  <2>8. \A i \in DOMAIN s : /\ Size(s[i].of) > Header /\ Size(s[i].of) \in Nat /\ s[i].pos \in Nat
                            /\ s[i].of.nr \in Nat
    BY <2>5, StreamFacts
  <2>9. \A p \in 1..Header : p \in Nat /\ p <= Header
    BY <1>2
  <2>10. ASSUME NEW i \in 1..Header PROVE s[i].pos # Size(s[i].of)
    <3>1. s[i].pos <= Header /\ s[i].pos \in Nat /\ Size(s[i].of) > Header /\ Size(s[i].of) \in Nat
      BY <2>7, <2>8, <2>9
    <3> QED BY <1>2, <3>1
  <2> HIDE DEF taken
  <2>11. Sent(t)' /\ Sorted(t)'
    <3>1. Sent(t)
      BY <2>3, <2>6 DEF Sent
    <3>2. Sorted(t)
      BY <2>3, <2>6 DEF Sorted
    <3> QED BY <1>1, <3>1, <3>2 DEF Sent, Sorted
  <2>12. Chained(t, taken)'
    <3>1. ASSUME NEW j \in DOMAIN t
          PROVE  Opening(t[j], taken)' \/ \E i \in DOMAIN t : i < j /\ Follows(t[i], t[j])
      <4>1. t[j] = s[Header + j] /\ Header + j \in DOMAIN s
        BY <2>6
      <4>2. CASE Opening(s[Header + j], {})
        BY <1>3, <4>1, <4>2 DEF Opening
      <4>3. CASE \E i \in DOMAIN s : i < Header + j /\ Follows(s[i], s[Header + j])
        <5>1. PICK i \in DOMAIN s : i < Header + j /\ Follows(s[i], s[Header + j])
          BY <4>3
        <5>2. CASE i \in 1..Header
          <6>1. t[j].of = s[i].of /\ t[j].pos = s[i].pos + 1
            BY <2>10, <4>1, <5>1, <5>2 DEF Follows
          <6>2. t[j].of.nr = Num(t[j].of.by) + 1 /\ t[j].pos - 1 = s[i].pos
            <7>1. s[i].of.nr = Num(s[i].of.by) + 1 /\ s[i].pos \in Nat
              BY <2>7, <2>8, <5>1, <5>2
            <7> QED BY <6>1, <7>1
          <6>3. <<t[j].of.by, t[j].pos - 1>> \in taken
            BY <2>7, <5>2, <6>1, <6>2
          <6> QED BY <1>3, <6>2, <6>3 DEF Opening
        <5>3. CASE \E k \in DOMAIN t : i = Header + k /\ t[k] = s[i]
          BY <2>6, <4>1, <5>1, <5>3
        <5> QED BY <2>6, <5>2, <5>3
      <4> QED BY <2>3, <2>4, <4>1, <4>2, <4>3 DEF Chained
    <3> QED BY <3>1 DEF Chained, Follows
  <2>13. Fresh(t, taken)'
    <3>1. ASSUME NEW j \in DOMAIN t
          PROVE  /\ t[j].of.nr > Num(t[j].of.by)
                 /\ t[j].of.nr = Num(t[j].of.by) + 1 => <<t[j].of.by, t[j].pos>> \notin taken
      <4>1. t[j] = s[Header + j] /\ Header + j \in DOMAIN s
        BY <2>6
      <4>2. ASSUME t[j].of.nr = Num(t[j].of.by) + 1, <<t[j].of.by, t[j].pos>> \in taken PROVE FALSE
        <5>1. PICK i \in 1..Header : s[i].of.by = t[j].of.by /\ s[i].pos = t[j].pos
          BY <4>2 DEF taken, TakenOf
        <5>2. s[i].of.nr = t[j].of.nr /\ i \in DOMAIN s
          BY <2>7, <4>2, <5>1
        <5>3. i < Header + j
          BY <1>2, <2>6, <2>9
        <5> QED BY <2>3, <2>8, <4>1, <5>1, <5>2, <5>3 DEF Sorted
      <4> QED BY <2>3, <4>1, <4>2 DEF Fresh
    <3> QED BY <1>3, <3>1 DEF Fresh
  <2>14. Reaches(t, taken)'
    <3>1. ASSUME running, NEW w \in Writer PROVE Reached(w, t, taken)'
      <4>1. Reached(w, s, {})
        BY <2>3, <2>4, <3>1 DEF Reaches
      <4>2. CASE at[w] > 0
        <5>1. ASSUME NEW i \in 1..Header, s[i] = Unit(frame[w], at[w])
              PROVE  frame[w].nr = Num(frame[w].by) + 1 /\ <<frame[w].by, at[w]>> \in taken
          <6>1. s[i].of = frame[w] /\ s[i].pos = at[w]
            BY <5>1 DEF Unit
          <6> QED BY <2>7, <6>1
        <5>2. frame[w].by = w
          BY DEF ManyInv, AtWork
        <5> QED BY <1>1, <1>3, <2>6, <4>1, <4>2, <5>1, <5>2 DEF Reached
      <4>3. CASE ~(at[w] > 0)
        <5>1. \A i \in DOMAIN s : s[i].pos = Size(s[i].of) => \E j \in DOMAIN t : t[j] = s[i]
          BY <2>6, <2>10
        <5> QED BY <1>1, <1>3, <4>1, <4>3, <5>1 DEF Reached
      <4> QED BY <4>2, <4>3
    <3> QED BY <1>1, <3>1 DEF Reaches
  <2>15. Lengths(taken)'
    BY <1>1, <1>3, <1>6, <2>7 DEF Lengths
  <2>16. Mixed(t, taken)'
    BY <2>11, <2>12, <2>13, <2>14, <2>15 DEF Mixed
  <2> QED BY <1>4, <1>6, <2>2, <2>7, <2>16, MixedNext DEF ManyInv
<1> QED BY <1>5, <1>6 DEF TakeLength

\* The units that were taken for a length are the length of the body that comes next.
LEMMA OwnLength ==
    ASSUME TypeOK, NEW s \in Seq(Units), NEW taken \in SUBSET (Writer \X (1..Header)), Mixed(s, taken),
           part = "body", 1 \in DOMAIN s, s[1].pos = Header + 1
    PROVE  s[1].of.nr = Num(s[1].of.by) + 1 /\ taken = {s[1].of.by} \X (1..Header)
<1>1. PICK w : w = s[1].of.by
  OBVIOUS
<1>2. /\ DOMAIN s = 1..Len(s) /\ Len(s) \in Nat /\ w \in Writer /\ Header \in Nat /\ Header > 0
      /\ \A i \in DOMAIN s : ~(i < 1)
  <2>1. DOMAIN s = 1..Len(s) /\ Len(s) \in Nat /\ w \in Writer
    BY <1>1, StreamFacts
  <2> QED BY <2>1, UnitAssumption
<1>3. Opening(s[1], taken)
  BY <1>2 DEF Mixed, Chained
<1>4. s[1].of.nr = Num(w) + 1 /\ <<w, Header>> \in taken /\ Header \in 1..Header
  BY <1>1, <1>2, <1>3 DEF Opening
<1>5. {w} \X (1..Header) \subseteq taken
  <2>1. \A q \in 1..Header : <<w, q>> \in taken
    BY <1>2, <1>4 DEF Mixed, Lengths
  <2> QED BY <2>1
<1>6. Cardinality({w} \X (1..Header)) = Header
  <2>1. IsFiniteSet({w}) /\ Cardinality({w}) = 1
    BY FS_Singleton
  <2>2. IsFiniteSet(1..Header) /\ Cardinality(1..Header) = Header
    <3>1. 1 \in Int /\ Header \in Int /\ ~(1 > Header) /\ Header - 1 + 1 = Header
      BY <1>2
    <3> QED BY <3>1, FS_Interval
  <2>3. Cardinality({w} \X (1..Header)) = 1 * Header
    BY <2>1, <2>2, FS_Product, ZenonT(30)
  <2> QED BY <1>2, <2>3
<1>7. IsFiniteSet(taken) /\ Cardinality(taken) = Header
  BY DEF Mixed, Lengths
<1>8. taken = {w} \X (1..Header)
  BY <1>5, <1>6, <1>7, FS_Subset
<1> QED BY <1>1, <1>4, <1>8

LEMMA ManyTakeBody ==
    ASSUME TypeOK, TypeOK', ManyInv, TakeBody
    PROVE  ManyInv'
<1>1. /\ part = "body" /\ result = "reading" /\ Opens(have) /\ received' = Append(received, have[1].of)
      /\ part' = "length" /\ need' = Header /\ have' = <<>>
      /\ UNCHANGED <<running, busy, frame, at, wire>>
  BY DEF TakeBody, writing
<1>2. PICK f, w, B, s, t : f = have[1].of /\ w = f.by /\ B = Len(have) /\ s = Flow /\ t = Flow'
  OBVIOUS
<1>3. /\ B \in Nat /\ B >= 2 /\ B = Body(f) /\ Header \in Nat
      /\ \A i \in 1..B : have[i] = Unit(f, Header + i)
      /\ have[1] \in Units
  <2>1. have \in Seq(Units) /\ B \in Nat /\ DOMAIN have = 1..B
    BY <1>2, FlowType, LenProperties
  <2>2. B >= 2 /\ B = Body(f) /\ \A i \in 1..B : have[i] = Unit(f, Header + i)
    BY <1>1, <1>2, <2>1 DEF Opens
  <2>3. 1 \in DOMAIN have
    BY <2>1, <2>2
  <2>4. have[1] \in Units
    BY <2>1, <2>3, ElementOfSeq
  <2> QED BY <2>1, <2>2, <2>4, UnitAssumption
<1>4. f \in Frame /\ w \in Writer /\ f.nr \in Nat /\ Size(f) = Header + B /\ Size(f) \in Nat
  <2>1. f \in Frame /\ w \in Writer /\ f.nr \in Nat
    BY <1>2, <1>3, UnitFacts
  <2> QED BY <1>3, <2>1, SizeType
<1>5. /\ s \in Seq(Units) /\ t \in Seq(Units) /\ Len(s) \in Nat /\ Len(t) \in Nat /\ Len(s) = B + Len(t)
      /\ \A i \in 1..B : s[i] = have[i]
      /\ \A i \in 1..Len(t) : t[i] = s[B + i]
  <2>1. wire' = wire /\ have' = <<>>
    BY <1>1
  <2>2. /\ Flow \in Seq(Units) /\ Flow' \in Seq(Units) /\ Len(have) \in Nat /\ Len(Flow') \in Nat
        /\ Len(Flow) = Len(have) + Len(Flow')
        /\ \A i \in 1..Len(have) : Flow[i] = have[i]
        /\ \A i \in 1..Len(Flow') : Flow'[i] = Flow[Len(have) + i]
    BY <2>1, FlowTake
  <2>3. Len(s) \in Nat
    BY <1>2, FlowType
  <2> QED BY <1>2, <2>2, <2>3
<1>6. /\ \A i \in 1..B : /\ i \in DOMAIN s /\ s[i].of = f /\ s[i].pos = Header + i
                         /\ i \in Nat /\ i > 0 /\ i <= B
      /\ \A j \in DOMAIN t : B + j \in DOMAIN s /\ t[j] = s[B + j] /\ j \in Nat /\ j > 0
      /\ \A i \in DOMAIN s : i \in 1..B \/ \E j \in DOMAIN t : i = B + j /\ t[j] = s[i]
  <2>1. DOMAIN s = 1..Len(s) /\ DOMAIN t = 1..Len(t)
    <3>1. \A x \in Seq(Units) : DOMAIN x = 1..Len(x)
      BY StreamFacts
    <3> QED BY <1>5, <3>1
  <2>2. ASSUME NEW i \in 1..B PROVE s[i].of = f /\ s[i].pos = Header + i
    <3>1. s[i] = Unit(f, Header + i)
      BY <1>3, <1>5
    <3> QED BY <3>1 DEF Unit
  <2>3. \A i \in 1..B : i \in 1..Len(s) /\ i \in Nat /\ i > 0 /\ i <= B
    BY <1>3, <1>5
  <2>4. \A j \in 1..Len(t) : B + j \in 1..Len(s) /\ j \in Nat /\ j > 0
    BY <1>3, <1>5
  <2>5. ASSUME NEW i \in 1..Len(s), i \notin 1..B PROVE \E j \in 1..Len(t) : i = B + j
    <3>1. i - B \in 1..Len(t) /\ i = B + (i - B)
      BY <1>3, <1>5, <2>5
    <3> QED BY <3>1
  <2> QED BY <1>5, <2>1, <2>2, <2>3, <2>4, <2>5, SMTT(30)
<1>7. PICK taken \in SUBSET (Writer \X (1..Header)) : Mixed(s, taken)
  BY <1>1, <1>2 DEF ManyInv
<1>8. Sent(s) /\ Sorted(s) /\ Chained(s, taken) /\ Fresh(s, taken) /\ Reaches(s, taken)
  BY <1>7 DEF Mixed
<1>9. 1 \in 1..B /\ B \in 1..B
  BY <1>3
<1>10. f.nr = Num(w) + 1 /\ taken = {w} \X (1..Header)
  <2>1. 1 \in DOMAIN s /\ s[1].of = f /\ s[1].pos = Header + 1
    BY <1>6, <1>9
  <2> QED BY <1>1, <1>2, <1>5, <1>7, <2>1, OwnLength
<1>11. f.nr <= frame[w].nr /\ (f.nr = frame[w].nr => f = frame[w] /\ Size(f) <= at[w])
  <2>1. B \in DOMAIN s /\ s[B].of = f /\ s[B].pos = Size(f)
    BY <1>4, <1>6, <1>9
  <2> QED BY <1>2, <1>8, <2>1 DEF Sent
<1>12. Num(w)' = f.nr /\ \A v : v # w => Num(v)' = Num(v)
  BY <1>1, <1>2, <1>4, <1>10, NumGrows
<1>13. AtWork /\ Ahead /\ ReceivedInOrder
  BY DEF ManyInv
<1>14. AtWork' /\ Ahead' /\ ReceivedInOrder'
  <2>1. Ahead'
    BY <1>1, <1>11, <1>12, <1>13 DEF Ahead
  <2>2. ReceivedInOrder'
    BY <1>1, <1>2, <1>4, <1>10, <1>11, <1>13, InOrderAppend
  <2> QED BY <1>1, <1>13, <2>1, <2>2 DEF AtWork
<1>15. Sent(t)' /\ Sorted(t)'
  <2>1. \A i, j \in DOMAIN t : i < j => B + i < B + j
    BY <1>3, <1>6
  <2>2. Sent(t)
    BY <1>6, <1>8 DEF Sent
  <2>3. Sorted(t)
    BY <1>6, <1>8, <2>1 DEF Sorted
  <2> QED BY <1>1, <2>2, <2>3 DEF Sent, Sorted
<1>16. /\ \A i \in DOMAIN s : /\ s[i].of.by \in Writer /\ s[i].of.nr \in Nat /\ s[i].pos \in Nat
                              /\ s[i].pos \in 1..Size(s[i].of)
  BY <1>5, <1>8, StreamFacts DEF Sent
\* What comes after the body is later than all of it.
<1>17. ASSUME NEW j \in DOMAIN t, t[j].of.by = w
       PROVE  t[j].of.nr > f.nr
  <2>1. /\ B \in DOMAIN s /\ s[B].of = f /\ s[B].pos = Size(f) /\ B < B + j
        /\ B + j \in DOMAIN s /\ t[j] = s[B + j]
    BY <1>3, <1>4, <1>6, <1>9, <1>17
  <2>2. f.nr < t[j].of.nr \/ (f = t[j].of /\ Size(f) < t[j].pos)
    BY <1>2, <1>8, <1>17, <2>1 DEF Sorted
  <2>3. t[j].pos \in Nat /\ t[j].pos <= Size(t[j].of) /\ t[j].of.nr \in Nat
    BY <1>16, <2>1
  <2> QED BY <1>4, <2>2, <2>3
<1>18. Chained(t, {})'
  <2>1. ASSUME NEW j \in DOMAIN t
        PROVE  \/ t[j].of.nr = Num(t[j].of.by)' + 1 /\ t[j].pos = 1
               \/ \E i \in DOMAIN t : i < j /\ Follows(t[i], t[j])
    <3>1. t[j] = s[B + j] /\ B + j \in DOMAIN s /\ t[j].pos \in Nat /\ t[j].of.nr \in Nat /\ t[j].of.by \in Writer
      BY <1>6, <1>16
    <3>2. CASE Opening(t[j], taken)
      <4>1. t[j].of.by # w
        BY <1>4, <1>10, <1>17, <3>1, <3>2 DEF Opening
      <4>2. t[j].pos = 1
        BY <1>10, <3>2, <4>1 DEF Opening
      <4> QED BY <1>12, <3>2, <4>1, <4>2 DEF Opening
    <3>3. CASE \E i \in 1..B : Follows(s[i], t[j])
      <4>1. PICK i \in 1..B : Follows(s[i], t[j])
        BY <3>3
      <4>2. t[j].of.by = w /\ t[j].of.nr > f.nr
        BY <1>2, <1>6, <1>17, <4>1 DEF Follows
      <4>3. t[j].of.nr = f.nr + 1 /\ t[j].pos = 1
        BY <1>4, <1>6, <4>1, <4>2 DEF Follows
      <4> QED BY <1>12, <4>2, <4>3
    <3>4. CASE \E i \in DOMAIN t : B + i < B + j /\ Follows(t[i], t[j])
      BY <1>3, <1>6, <3>4
    <3>5. \/ Opening(t[j], taken)
          \/ \E i \in DOMAIN s : i < B + j /\ Follows(s[i], t[j])
      BY <1>8, <3>1 DEF Chained
    <3> QED BY <1>6, <3>2, <3>3, <3>4, <3>5
  <2> QED BY <2>1 DEF Chained, Opening, Follows
<1>19. Fresh(t, {})'
  <2>1. ASSUME NEW j \in DOMAIN t PROVE t[j].of.nr > Num(t[j].of.by)'
    <3>1. CASE t[j].of.by = w
      BY <1>12, <1>17, <3>1
    <3>2. CASE t[j].of.by # w
      <4>1. s[B + j].of.nr > Num(s[B + j].of.by) /\ t[j] = s[B + j]
        BY <1>6, <1>8 DEF Fresh
      <4>2. PICK v : v = t[j].of.by
        OBVIOUS
      <4>3. Num(v)' = Num(v)
        BY <1>12, <3>2, <4>2
      <4> QED BY <4>1, <4>2, <4>3
    <3> QED BY <3>1, <3>2
  <2> QED BY <2>1 DEF Fresh
<1>20. Reaches(t, {})'
  <2>1. ASSUME running, NEW v \in Writer, v # w PROVE Reached(v, t, {})'
    <3>1. Reached(v, s, taken) /\ frame[v].by = v
      BY <1>8, <1>13, <2>1 DEF Reaches, AtWork
    <3>2. \A i \in DOMAIN s : s[i].of.by = v => \E j \in DOMAIN t : t[j] = s[i]
      BY <1>2, <1>6, <2>1
    <3>3. CASE at[v] > 0
      <4>1. <<v, at[v]>> \notin taken
        BY <1>10, <2>1
      <4>2. \A i \in DOMAIN s : s[i] = Unit(frame[v], at[v]) => s[i].of.by = v
        BY <3>1 DEF Unit
      <4> QED BY <1>1, <1>12, <2>1, <3>1, <3>2, <3>3, <4>1, <4>2 DEF Reached
    <3>4. CASE ~(at[v] > 0)
      BY <1>1, <1>12, <2>1, <3>1, <3>2, <3>4 DEF Reached
    <3> QED BY <3>3, <3>4
  <2>2. ASSUME running PROVE Reached(w, t, {})'
    <3>1. Reached(w, s, taken) /\ frame[w].by = w
      BY <1>4, <1>8, <1>13, <2>2 DEF Reaches, AtWork
    <3>2. /\ at[w] \in Nat /\ at[w] <= Size(frame[w]) /\ frame[w].nr \in Nat /\ Num(w) \in Nat
          /\ Size(f) > 0
      BY <1>3, <1>4, WriterFacts, NumType
    <3>3. CASE frame[w].nr = f.nr
      <4>1. at[w] = Size(frame[w]) /\ at[w] > 0 /\ frame[w].nr = Num(w)'
        BY <1>4, <1>11, <1>12, <3>2, <3>3
      <4> QED BY <1>1, <4>1 DEF Reached
    <3>4. CASE frame[w].nr # f.nr
      <4>1. \A i \in 1..B : s[i] # Unit(frame[w], at[w])
        BY <1>6, <3>4 DEF Unit
      <4>2. CASE at[w] > 0
        <5>1. frame[w].nr # Num(w) + 1 /\ frame[w].nr # Num(w)
          BY <1>10, <1>11, <3>2, <3>4
        <5>2. \E i \in DOMAIN s : s[i] = Unit(frame[w], at[w])
          BY <3>1, <4>2, <5>1 DEF Reached
        <5>3. \E j \in DOMAIN t : t[j] = Unit(frame[w], at[w])
          BY <1>6, <4>1, <5>2
        <5> QED BY <1>1, <4>2, <5>3 DEF Reached
      <4>3. CASE ~(at[w] > 0)
        <5>1. frame[w].nr # Num(w) + 1 /\ frame[w].nr # 0
          BY <1>10, <1>11, <3>2, <3>4
        <5>2. PICK i \in DOMAIN s : /\ s[i].of.by = w /\ s[i].of.nr = frame[w].nr - 1
                                    /\ s[i].pos = Size(s[i].of)
          BY <3>1, <4>3, <5>1 DEF Reached
        <5>3. CASE i \in 1..B
          <6>1. frame[w].nr = Num(w)' + 1
            BY <1>4, <1>6, <1>12, <3>2, <5>2, <5>3
          <6> QED BY <1>1, <4>3, <6>1 DEF Reached
        <5>4. CASE i \notin 1..B
          <6>1. \E j \in DOMAIN t : t[j] = s[i]
            BY <1>6, <5>4
          <6> QED BY <1>1, <4>3, <5>2, <6>1 DEF Reached
        <5> QED BY <5>3, <5>4
      <4> QED BY <4>2, <4>3
    <3> QED BY <3>3, <3>4
  <2> QED BY <1>1, <2>1, <2>2 DEF Reaches
<1>21. Lengths({})'
  BY <1>1, FS_EmptySet DEF Lengths
<1>22. Mixed(t, {})'
  BY <1>15, <1>18, <1>19, <1>20, <1>21 DEF Mixed
<1>23. Mixed(Flow, {})'
  BY <1>2, <1>22, MixedNext
<1> QED BY <1>1, <1>14, <1>23 DEF ManyInv

\* The inductive invariant for any number of threads.
LEMMA ManyInvariant == Spec => [](TypeOK /\ ManyInv)
<1>1. Init => ManyInv
  BY ManyInit
<1>2. TypeOK /\ TypeOK' /\ ManyInv /\ [Next]_vars => ManyInv'
  <2> SUFFICES ASSUME TypeOK, TypeOK', ManyInv, [Next]_vars PROVE ManyInv'
    OBVIOUS
  <2>1. ASSUME NEW w \in Writer, Write(w) PROVE ManyInv'
    BY <2>1, ManyWrite
  <2>2. ASSUME NEW w \in Writer, NEW t \in Texts, Begin(w, t) PROVE ManyInv'
    BY <2>2, ManyBegin
  <2>3. CASE Broken \/ Return \/ KeeperCloses
    <3>1. /\ UNCHANGED <<busy, frame, at, wire, have, received, part, need, result>>
          /\ running' => running
      BY <2>3 DEF Broken, Return, KeeperCloses, reading
    <3> QED BY <3>1, ManyStill DEF Flow
  <2>4. CASE Kill
    BY <2>4, ManyKill
  <2>5. CASE Read
    <3>1. /\ wire # <<>> /\ have' = Append(have, Head(wire)) /\ wire' = Tail(wire)
          /\ result' = result /\ UNCHANGED <<running, busy, frame, at, received, part, need>>
      BY <2>5 DEF Read, writing
    <3>2. have \in Seq(Units) /\ wire \in Seq(Units)
      BY FlowType
    <3>3. Append(have, Head(wire)) \o Tail(wire) = have \o wire
      BY <3>1, <3>2, SMT
    <3>4. Flow' = Flow
      BY <3>1, <3>3 DEF Flow
    <3> QED BY <3>1, <3>4, ManyStill
  <2>6. CASE EndOfFile \/ Reject
    <3>1. /\ UNCHANGED <<running, busy, frame, at, wire, have, received, part, need>>
          /\ result' # "reading"
      BY <2>6 DEF EndOfFile, Reject, writing
    <3> QED BY <3>1, ManyStill
  <2>7. CASE TakeLength
    BY <2>7, ManyTakeLength
  <2>8. CASE TakeBody
    BY <2>8, ManyTakeBody
  <2>9. CASE UNCHANGED vars
    BY <2>9, ManyStill DEF vars, writing, reading, Flow
  <2> QED BY <2>1, <2>2, <2>3, <2>4, <2>5, <2>6, <2>7, <2>8, <2>9 DEF Next, WriterNext, ReaderNext
<1> QED BY <1>1, <1>2, TypesAreKept, PTL DEF Spec

\* What is received is what was sent: of each thread its first frames, in order, none left out
\* and none twice, for any number of threads and however their writes are cut and mixed
\* (send_command of main and of the timer, receive_command).
THEOREM FramesAreInOrder == Spec => []ReceivedInOrder
<1>1. ManyInv => ReceivedInOrder
  BY DEF ManyInv
<1> QED BY <1>1, ManyInvariant, PTL

================================================================================
