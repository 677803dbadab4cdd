------------------------------- MODULE E2EProofs --------------------------------
(***************************************************************************)
(* Theorems about E2E, for any users, any number of secrets, and threads   *)
(* that interleave in any way.                                             *)
(*                                                                         *)
(* The argument follows a share from the thread that generated its secret  *)
(* over the packets and files to the key it ends in: wherever something    *)
(* that came from p is kept, p made it (Origins), because a frame names    *)
(* its sender whoever it reaches.  The same holds of texts: one that is on *)
(* its way carries its author and the key of author and addressee.         *)
(***************************************************************************)
EXTENDS E2E, SequenceLemmas, FiniteSetTheorems, TLAPS

\* The made secrets up to md: s, if it is one, was generated by x.
By(md, x, s) == s \in Secret => s \in DOMAIN md /\ md[s].by = x

\* k, if it is a key that was computed from two secrets, joins one of x with one of p.
Joins(md, x, p, k) ==
    k \in KeyOf /\ Garbage \notin k => k \subseteq DOMAIN md /\ {md[s].by : s \in k} = {x, p}

\* What x sends is its own: the share of an exchange, and the author and the key of a text.
FromSender(md, x, m) ==
    /\ m.kind \in {"init", "ack"} => m.share \in Secret /\ By(md, x, m.share)
    /\ m.kind = "msg" => /\ m.line \in User \X Nat \X User /\ m.line[1] = x
                         /\ Joins(md, x, m.line[3], m.under)

\* A thread that is busy has what it needs for its next steps.
MainBusy(x) == LET t == main[x] IN
    /\ t.at # "idle" => t.to \in User /\ t.mine \in Secret
    /\ t.at \in {"key", "save", "remove"} => t.other # Absent
TimerBusy(x) == LET t == timer[x] IN
    /\ t.at # "idle" => t.mine \in Secret
    /\ t.at = "secret" => t.to \in User
ChildBusy(x) == LET t == child[x] IN
    /\ t.at # "idle" => t.to \in User /\ t.other \in Secret
    /\ t.at = "ack" => t.mine # Absent
Busy == \A x \in User : MainBusy(x) /\ TimerBusy(x) /\ ChildBusy(x)

\* Where each thing came from: files, threads, packets.
FilesFrom(md) == \A x, p \in User :
    /\ By(md, x, secret[x][p]) /\ By(md, p, pending[x][p]) /\ Joins(md, x, p, key[x][p])
ThreadsFrom(md) == \A x \in User :
    /\ By(md, x, main[x].mine) /\ By(md, main[x].to, main[x].other)
    /\ By(md, x, timer[x].mine)
    /\ By(md, x, child[x].mine) /\ By(md, child[x].to, child[x].other)
UpFrom(md)   == \A x \in User : \A i \in DOMAIN up[x] : FromSender(md, x, up[x][i])
DownFrom(md) == \A y \in User : \A i \in DOMAIN down[y] : FromSender(md, down[y][i].from, down[y][i])
Origins(md)  == FilesFrom(md) /\ ThreadsFrom(md) /\ UpFrom(md) /\ DownFrom(md)

IInv == TypeOK /\ Busy /\ Origins(made) /\ OnlyPeerReads

--------------------------------------------------------------------------------
(* The values. *)

LEMMA Values ==
    /\ \A k \in KeyOf : k \notin {Absent, Torn, Garbage}
    /\ \A s \in Secret : s \notin {Absent, Torn, Garbage} /\ s \in Nat
    /\ \A v \in Secret \cup {Absent, Torn} : Scan(v) \in Secret \cup {Absent, Garbage}
    /\ \A v \in KeyOf \cup {Absent, Torn} : Scan(v) \in KeyOf \cup {Absent, Garbage}
    /\ Absent # Torn /\ Absent # Garbage /\ Torn # Garbage
<1>1. \A k \in KeyOf : k \notin {Absent, Torn, Garbage}
  BY FileAssumption DEF KeyOf
<1>2. \A s \in Secret : s \notin {Absent, Torn, Garbage} /\ s \in Nat
  BY FileAssumption DEF Secret
<1> QED BY <1>1, <1>2, FileAssumption DEF Scan

\* Scanning a file does not change who made its content.
LEMMA ScanBy ==
    ASSUME NEW md, NEW x, NEW v, By(md, x, v)
    PROVE  By(md, x, Scan(v))
BY Values DEF By, Scan

LEMMA ScanJoins ==
    ASSUME NEW md, NEW x, NEW p, NEW v, Joins(md, x, p, v)
    PROVE  Joins(md, x, p, Scan(v))
BY Values DEF Joins, Scan

\* A key made of a secret of x and a share of p joins the two.
LEMMA KeyJoins ==
    ASSUME NEW md, NEW x, NEW p, NEW s \in Secret \cup {Garbage}, NEW t \in Secret \cup {Garbage},
           By(md, x, s), By(md, p, t)
    PROVE  Key(s, t) \in KeyOf /\ Joins(md, x, p, Key(s, t))
<1>1. Key(s, t) \in KeyOf
  BY DEF Key, KeyOf
<1>2. ASSUME Garbage \notin Key(s, t)
      PROVE  Key(s, t) \subseteq DOMAIN md /\ {md[e].by : e \in Key(s, t)} = {x, p}
  <2>1. s \in DOMAIN md /\ md[s].by = x /\ t \in DOMAIN md /\ md[t].by = p
    BY <1>2 DEF Key, By
  <2> QED BY <2>1 DEF Key
<1> QED BY <1>1, <1>2 DEF Joins

\* What holds of the secrets made so far holds when one more is made.
LEMMA Grows ==
    ASSUME NEW R, NEW md \in Seq(R), NEW r \in R
    PROVE  /\ \A x, s : By(md, x, s) => By(Append(md, r), x, s)
           /\ \A x, p, k : Joins(md, x, p, k) => Joins(Append(md, r), x, p, k)
           /\ \A x, m : FromSender(md, x, m) => FromSender(Append(md, r), x, m)
<1>1. /\ DOMAIN md \subseteq DOMAIN Append(md, r)
      /\ \A i \in DOMAIN md : Append(md, r)[i] = md[i]
  OBVIOUS
<1>2. ASSUME NEW x, NEW s, By(md, x, s) PROVE By(Append(md, r), x, s)
  BY <1>1, <1>2 DEF By
<1>3. ASSUME NEW x, NEW p, NEW k, Joins(md, x, p, k) PROVE Joins(Append(md, r), x, p, k)
  <2>1. SUFFICES ASSUME k \in KeyOf, Garbage \notin k
                 PROVE  k \subseteq DOMAIN Append(md, r) /\ {Append(md, r)[s].by : s \in k} = {x, p}
    BY DEF Joins
  <2>2. k \subseteq DOMAIN md /\ {md[s].by : s \in k} = {x, p}
    BY <1>3, <2>1 DEF Joins
  <2>3. \A s \in k : Append(md, r)[s] = md[s]
    BY <1>1, <2>2
  <2> HIDE DEF Joins
  <2>4. {Append(md, r)[s].by : s \in k} = {md[s].by : s \in k}
    BY <2>3
  <2> QED BY <1>1, <2>2, <2>4
<1>4. ASSUME NEW x, NEW m, FromSender(md, x, m) PROVE FromSender(Append(md, r), x, m)
  BY <1>2, <1>3, <1>4 DEF FromSender
<1> QED BY <1>2, <1>3, <1>4

LEMMA OriginsGrow ==
    ASSUME NEW R, made \in Seq(R), NEW r \in R, Origins(made)
    PROVE  Origins(Append(made, r))
<1>1. FilesFrom(Append(made, r))
  BY Grows DEF Origins, FilesFrom
<1>2. ThreadsFrom(Append(made, r))
  BY Grows DEF Origins, ThreadsFrom
<1>3. UpFrom(Append(made, r))
  BY Grows DEF Origins, UpFrom
<1>4. DownFrom(Append(made, r))
  BY Grows DEF Origins, DownFrom
<1> QED BY <1>1, <1>2, <1>3, <1>4 DEF Origins

--------------------------------------------------------------------------------
(* Types, and what a busy thread has. *)

\* The parts of the type invariant.
FileTypes ==
    /\ secret  \in [User -> [User -> Secret \cup {Absent, Torn}]]
    /\ pending \in [User -> [User -> Secret \cup {Absent, Torn}]]
    /\ key     \in [User -> [User -> KeyOf \cup {Absent, Torn}]]
ThreadTypes ==
    /\ main  \in [User -> Doing({"idle", "secret", "key", "save", "remove", "send"})]
    /\ timer \in [User -> Doing({"idle", "secret", "address", "send"})]
    /\ child \in [User -> Doing({"idle", "pending", "ack"})]
CountTypes ==
    /\ peer \in [User -> User \cup {Nobody}]
    /\ running \in [User -> BOOLEAN] /\ online \in [User -> BOOLEAN]
    /\ broken \in [User -> BOOLEAN] /\ held \in BOOLEAN
    /\ talk \in [User -> User \cup {Nobody}]
    /\ asks \in [User -> Nat] /\ ticks \in [User -> Nat]
    /\ lines \in [User -> Nat] /\ turns \in [User -> Nat]
MadeType ==
    /\ made \in Seq([by : User, for : User, with : Secret \cup {Absent, Garbage}])
    /\ Len(made) <= MaxSecrets
UpPacket   == [to : User \cup {Nobody}, kind : Kinds, share : Secret \cup {Absent},
               under : KeyOf \cup {Absent, Garbage}, line : Line]
DownPacket == [from : User, kind : Kinds, share : Secret \cup {Absent},
               under : KeyOf \cup {Absent, Garbage}, line : Line]
Printed    == [from : User, line : Line]
NetTypes ==
    /\ up \in [User -> Seq(UpPacket)] /\ down \in [User -> Seq(DownPacket)]
    /\ shown \in [User -> Seq(Printed)]

LEMMA TypeParts == TypeOK <=> FileTypes /\ ThreadTypes /\ CountTypes /\ MadeType /\ NetTypes
BY DEF TypeOK, FileTypes, ThreadTypes, CountTypes, MadeType, NetTypes, UpPacket, DownPacket, Printed

LEMMA TypeInit == Init => TypeOK /\ Busy
<1> SUFFICES ASSUME Init PROVE TypeOK /\ Busy
  OBVIOUS
<1>1. made = <<>> /\ Len(made) = 0 /\ MaxSecrets \in Nat
  BY FileAssumption DEF Init
<1>2. TypeOK
  <2>1. FileTypes /\ CountTypes
    BY DEF Init, FileTypes, CountTypes
  <2>2. ThreadTypes
    BY DEF Init, ThreadTypes, Idle, Doing
  <2>3. MadeType /\ NetTypes
    BY <1>1 DEF Init, MadeType, NetTypes
  <2> QED BY <2>1, <2>2, <2>3, TypeParts
<1>3. Busy
  BY Values DEF Init, Busy, MainBusy, TimerBusy, ChildBusy, Idle
<1> QED BY <1>2, <1>3

\* A thread that goes to another place keeps its locals.
LEMMA Goes ==
    ASSUME NEW S, NEW t \in [User -> Doing(S)], NEW x \in User, NEW a
    PROVE  [t EXCEPT ![x].at = a] =
           [t EXCEPT ![x] = [at |-> a, to |-> t[x].to, mine |-> t[x].mine, other |-> t[x].other]]
<1>1. t[x] \in Doing(S)
  OBVIOUS
<1>2. ASSUME NEW r \in Doing(S)
      PROVE  [r EXCEPT !.at = a] = [at |-> a, to |-> r.to, mine |-> r.mine, other |-> r.other]
  BY DEF Doing
<1>3. [t[x] EXCEPT !.at = a] = [at |-> a, to |-> t[x].to, mine |-> t[x].mine, other |-> t[x].other]
  BY <1>1, <1>2
<1> QED BY <1>3


\* The same for the steps of main and timer that do so.
LEMMA GoesOn ==
    ASSUME TypeOK, NEW x \in User
    PROVE  /\ SaveSecret(x) => main' = [main EXCEPT ![x] =
                 [at |-> IF main[x].other = Absent THEN "send" ELSE "key", to |-> main[x].to,
                  mine |-> main[x].mine, other |-> main[x].other]]
           /\ OpenKey(x) => main' = [main EXCEPT ![x] =
                 [at |-> "save", to |-> main[x].to, mine |-> main[x].mine, other |-> main[x].other]]
           /\ SaveKey(x) => main' = [main EXCEPT ![x] =
                 [at |-> "remove", to |-> main[x].to, mine |-> main[x].mine, other |-> main[x].other]]
           /\ RemovePending(x) => main' = [main EXCEPT ![x] =
                 [at |-> "send", to |-> main[x].to, mine |-> main[x].mine, other |-> main[x].other]]
           /\ TimerSaveSecret(x) => timer' = [timer EXCEPT ![x] =
                 [at |-> "address", to |-> timer[x].to, mine |-> timer[x].mine, other |-> timer[x].other]]
<1>1. /\ main \in [User -> Doing({"idle", "secret", "key", "save", "remove", "send"})]
      /\ timer \in [User -> Doing({"idle", "secret", "address", "send"})]
  BY DEF TypeOK
<1>2. ASSUME SaveSecret(x)
      PROVE  main' = [main EXCEPT ![x] = [at |-> IF main[x].other = Absent THEN "send" ELSE "key",
                                       to |-> main[x].to, mine |-> main[x].mine, other |-> main[x].other]]
  <2> DEFINE a == IF main[x].other = Absent THEN "send" ELSE "key"
  <2>1. main' = [main EXCEPT ![x].at = a]
    BY <1>2 DEF SaveSecret
  <2> HIDE DEF a
  <2>2. main' = [main EXCEPT ![x] = [at |-> a, to |-> main[x].to,
                                     mine |-> main[x].mine, other |-> main[x].other]]
    BY <1>1, <2>1, Goes
  <2> QED BY <2>2 DEF a
<1>3. ASSUME OpenKey(x)
      PROVE  main' = [main EXCEPT ![x] = [at |-> "save", to |-> main[x].to,
                                        mine |-> main[x].mine, other |-> main[x].other]]
  <2>1. main' = [main EXCEPT ![x].at = "save"]
    BY <1>3 DEF OpenKey
  <2> QED BY <1>1, <2>1, Goes
<1>4. ASSUME SaveKey(x)
      PROVE  main' = [main EXCEPT ![x] = [at |-> "remove", to |-> main[x].to,
                                        mine |-> main[x].mine, other |-> main[x].other]]
  <2>1. main' = [main EXCEPT ![x].at = "remove"]
    BY <1>4 DEF SaveKey
  <2> QED BY <1>1, <2>1, Goes
<1>5. ASSUME RemovePending(x)
      PROVE  main' = [main EXCEPT ![x] = [at |-> "send", to |-> main[x].to,
                                        mine |-> main[x].mine, other |-> main[x].other]]
  <2>1. main' = [main EXCEPT ![x].at = "send"]
    BY <1>5 DEF RemovePending
  <2> QED BY <1>1, <2>1, Goes
<1>6. ASSUME TimerSaveSecret(x)
      PROVE  timer' = [timer EXCEPT ![x] = [at |-> "address", to |-> timer[x].to,
                                        mine |-> timer[x].mine, other |-> timer[x].other]]
  <2>1. timer' = [timer EXCEPT ![x].at = "address"]
    BY <1>6 DEF TimerSaveSecret
  <2> QED BY <1>1, <2>1, Goes
<1> QED BY <1>2, <1>3, <1>4, <1>5, <1>6

\* What is sent is appended, or lost.
LEMMA Sends ==
    ASSUME TypeOK, NEW x \in User, NEW m, NEW b, Send(x, m, b)
    PROVE  /\ up' = up \/ up' = [up EXCEPT ![x] = Append(@, m)]
           /\ broken' \in [User -> BOOLEAN]
BY DEF TypeOK, Send, Break

LEMMA HeadTypes ==
    ASSUME TypeOK, NEW x \in User
    PROVE  /\ up[x] # <<>> => Head(up[x]) \in UpPacket
           /\ down[x] # <<>> => Head(down[x]) \in DownPacket
<1>1. up[x] \in Seq(UpPacket) /\ down[x] \in Seq(DownPacket)
  BY TypeParts DEF NetTypes
<1> QED BY <1>1

\* The files hold secrets, shares and keys.
LEMMA FilesTyped ==
    ASSUME TypeOK, Busy, [Next]_vars
    PROVE  FileTypes'
<1>1. ASSUME NEW x \in User, NEW p \in User, E2eCommand(x, p) PROVE FileTypes'
  BY <1>1 DEF TypeOK, FileTypes, E2eCommand, Generate, Fresh, Open
<1>2. ASSUME NEW x \in User, SaveSecret(x) PROVE FileTypes'
  BY <1>2 DEF TypeOK, FileTypes, SaveSecret, Save, Busy, MainBusy
<1>3. ASSUME NEW x \in User, OpenKey(x) PROVE FileTypes'
  BY <1>3 DEF TypeOK, FileTypes, OpenKey, Open
<1>4. ASSUME NEW x \in User, SaveKey(x) PROVE FileTypes'
  <2>1. main[x].mine \in Secret /\ main[x].other \in Secret \cup {Garbage}
    BY <1>4 DEF TypeOK, Doing, SaveKey, Busy, MainBusy
  <2>2. Key(main[x].mine, main[x].other) \in KeyOf
    BY <2>1 DEF Key, KeyOf
  <2> QED BY <1>4, <2>2 DEF TypeOK, FileTypes, SaveKey, Save
<1>5. ASSUME NEW x \in User, RemovePending(x) PROVE FileTypes'
  BY <1>5 DEF TypeOK, FileTypes, RemovePending, Save
<1>6. ASSUME NEW x \in User, TimerInit(x) PROVE FileTypes'
  BY <1>6 DEF TypeOK, FileTypes, TimerInit, Generate, Fresh, Open
<1>7. ASSUME NEW x \in User, TimerSaveSecret(x) PROVE FileTypes'
  BY <1>7 DEF TypeOK, FileTypes, TimerSaveSecret, TimerAddress, Save, Busy, TimerBusy
<1>8. ASSUME NEW x \in User, ProcessInit(x) PROVE FileTypes'
  <2>1. Head(down[x]) \in DownPacket
    BY <1>8, HeadTypes DEF ProcessInit, Received
  <2>2. PICK m \in DownPacket : m = Head(down[x])
    BY <2>1
  <2>3. m.from \in User
    BY DEF DownPacket
  <2>4. UNCHANGED <<secret, key>> /\ pending' = Open(pending, x, m.from)
    BY <1>8, <2>2 DEF ProcessInit, Frame
  <2>5. Open(pending, x, m.from) \in [User -> [User -> Secret \cup {Absent, Torn}]]
    BY <2>3, TypeParts DEF FileTypes, Open
  <2> QED BY <2>4, <2>5, TypeParts DEF FileTypes
<1>9. ASSUME NEW x \in User, SavePending(x) PROVE FileTypes'
  BY <1>9 DEF TypeOK, FileTypes, SavePending, Save, Busy, ChildBusy
<1>10. ASSUME NEW x \in User, ProcessAck(x) PROVE FileTypes'
  <2>1. Head(down[x]) \in DownPacket
    BY <1>10, HeadTypes DEF ProcessAck, Received
  <2>2. PICK m \in DownPacket : m = Head(down[x])
    BY <2>1
  <2>3. m.from \in User
    BY DEF DownPacket
  <2>4. UNCHANGED <<secret, pending>> /\ (key' = key \/ key' = Open(key, x, m.from))
    BY <1>10, <2>2 DEF ProcessAck, Frame
  <2>5. Open(key, x, m.from) \in [User -> [User -> KeyOf \cup {Absent, Torn}]]
    BY <2>3, TypeParts DEF FileTypes, Open
  <2> QED BY <2>4, <2>5, TypeParts DEF FileTypes
<1>11. ASSUME NEW x \in User, SaveAckKey(x) PROVE FileTypes'
  <2>1. child[x].mine \in Secret \cup {Garbage} /\ child[x].other \in Secret
    BY <1>11 DEF TypeOK, Doing, SaveAckKey, Busy, ChildBusy
  <2>2. Key(child[x].mine, child[x].other) \in KeyOf
    BY <2>1 DEF Key, KeyOf
  <2> QED BY <1>11, <2>2 DEF TypeOK, FileTypes, SaveAckKey, Save
<1>12. ASSUME NEW x \in User, SendPacket(x) \/ TypeLine(x) \/ TimerAddress(x) \/ TimerSend(x) \/ ProcessMsg(x) \/
                        PrintPlain(x) \/ Relay(x) \/ Stop(x) \/ RemoveUser(x) \/
                        Start(x) \/ StartRefused(x)
      PROVE  FileTypes'
  BY <1>12 DEF TypeOK, FileTypes, files, SendPacket, TypeLine, TimerAddress, TimerSend, ProcessMsg, PrintPlain, Relay,
     Stop, RemoveUser, Start, StartRefused
<1>13. CASE Hold \/ UNCHANGED vars
  BY <1>13 DEF Hold, TypeOK, FileTypes, files, vars
<1> QED BY <1>1, <1>2, <1>3, <1>4, <1>5, <1>6, <1>7, <1>8, <1>9, <1>10, <1>11, <1>12, <1>13 DEF Next,
           Main, Timer, Child, Server

\* The threads are at their places, with secrets and shares.
LEMMA ThreadsTyped ==
    ASSUME TypeOK, Busy, [Next]_vars
    PROVE  ThreadTypes'
<1>1. ASSUME NEW x \in User, NEW p \in User, E2eCommand(x, p) PROVE ThreadTypes'
  <2>1. Scan(pending[x][p]) \in Secret \cup {Absent, Garbage}
    BY Values DEF TypeOK
  <2> QED BY <1>1, <2>1 DEF TypeOK, ThreadTypes, Doing, E2eCommand, Generate
<1>2. ASSUME NEW x \in User, SaveSecret(x) PROVE ThreadTypes'
  <2>1. main[x] \in Doing({"idle", "secret", "key", "save", "remove", "send"})
    BY DEF TypeOK
  <2> QED BY <1>2, <2>1, GoesOn DEF TypeOK, ThreadTypes, Doing, SaveSecret
<1>3. ASSUME NEW x \in User, OpenKey(x) PROVE ThreadTypes'
  <2>1. main[x] \in Doing({"idle", "secret", "key", "save", "remove", "send"})
    BY DEF TypeOK
  <2> QED BY <1>3, <2>1, GoesOn DEF TypeOK, ThreadTypes, Doing, OpenKey
<1>4. ASSUME NEW x \in User, SaveKey(x) PROVE ThreadTypes'
  <2>1. main[x] \in Doing({"idle", "secret", "key", "save", "remove", "send"})
    BY DEF TypeOK
  <2> QED BY <1>4, <2>1, GoesOn DEF TypeOK, ThreadTypes, Doing, SaveKey
<1>5. ASSUME NEW x \in User, RemovePending(x) PROVE ThreadTypes'
  <2>1. main[x] \in Doing({"idle", "secret", "key", "save", "remove", "send"})
    BY DEF TypeOK
  <2> QED BY <1>5, <2>1, GoesOn DEF TypeOK, ThreadTypes, Doing, RemovePending
<1>6. ASSUME NEW x \in User, SendPacket(x) PROVE ThreadTypes'
  BY <1>6 DEF TypeOK, ThreadTypes, Idle, Doing, SendPacket
<1>7. ASSUME NEW x \in User, TimerInit(x) PROVE ThreadTypes'
  BY <1>7 DEF TypeOK, ThreadTypes, Idle, Doing, TimerInit, Generate
<1>8. ASSUME NEW x \in User, TimerSaveSecret(x) PROVE ThreadTypes'
  <2>1. timer[x] \in Doing({"idle", "secret", "address", "send"})
    BY DEF TypeOK
  <2> QED BY <1>8, <2>1, GoesOn DEF TypeOK, ThreadTypes, Doing, TimerSaveSecret
<1>17. ASSUME NEW x \in User, TimerAddress(x) PROVE ThreadTypes'
  <2>1. timer[x] \in Doing({"idle", "secret", "address", "send"}) /\ peer[x] \in User \cup {Nobody}
    BY DEF TypeOK
  <2> QED BY <1>17, <2>1 DEF TypeOK, ThreadTypes, Doing, TimerAddress
<1>9. ASSUME NEW x \in User, TimerSend(x) PROVE ThreadTypes'
  BY <1>9 DEF TypeOK, ThreadTypes, Idle, Doing, TimerSend
<1>10. ASSUME NEW x \in User, ProcessInit(x) PROVE ThreadTypes'
  <2>1. Head(down[x]) \in DownPacket
    BY <1>10, HeadTypes DEF ProcessInit, Received
  <2> QED BY <1>10, <2>1 DEF TypeOK, ThreadTypes, Idle, Doing, DownPacket, ProcessInit, Frame
<1>11. ASSUME NEW x \in User, SavePending(x) PROVE ThreadTypes'
  BY <1>11 DEF TypeOK, ThreadTypes, Idle, Doing, SavePending
<1>12. ASSUME NEW x \in User, ProcessAck(x) PROVE ThreadTypes'
  <2>1. Head(down[x]) \in DownPacket
    BY <1>12, HeadTypes DEF ProcessAck, Received
  <2>3. \A p \in User : Scan(secret[x][p]) \in Secret \cup {Absent, Garbage}
    BY Values, TypeParts DEF FileTypes
  <2>4. PICK m \in DownPacket : m = Head(down[x])
    BY <2>1
  <2> QED BY <1>12, <2>3, <2>4, TypeParts DEF ThreadTypes, Doing, DownPacket, ProcessAck, Frame
<1>13. ASSUME NEW x \in User, SaveAckKey(x) PROVE ThreadTypes'
  BY <1>13 DEF TypeOK, ThreadTypes, Idle, Doing, SaveAckKey
<1>14. ASSUME NEW x \in User, Stop(x) PROVE ThreadTypes'
  BY <1>14 DEF TypeOK, ThreadTypes, Idle, Doing, Stop
<1>15. ASSUME NEW x \in User, TypeLine(x) \/ ProcessMsg(x) \/ PrintPlain(x) \/ Relay(x) \/
                        RemoveUser(x) \/ Start(x) \/ StartRefused(x)
      PROVE  ThreadTypes'
  BY <1>15 DEF TypeOK, ThreadTypes, threads, TypeLine, ProcessMsg, PrintPlain, Relay, RemoveUser, Start, StartRefused
<1>16. CASE Hold \/ UNCHANGED vars
  BY <1>16 DEF Hold, TypeOK, ThreadTypes, threads, vars
<1> QED BY <1>1, <1>2, <1>3, <1>4, <1>5, <1>6, <1>7, <1>8, <1>9, <1>10, <1>11, <1>12, <1>13, <1>14,
           <1>15, <1>16, <1>17 DEF Next, Main, Timer, Child, Server

\* The parent, the server and the bounds.
LEMMA CountsTyped ==
    ASSUME TypeOK, Busy, [Next]_vars
    PROVE  CountTypes'
<1>1. ASSUME NEW x \in User, NEW p \in User, E2eCommand(x, p) PROVE CountTypes'
  BY <1>1, TypeParts DEF CountTypes, E2eCommand, threads, server, bounds, net
<1>2. ASSUME NEW x \in User, TypeLine(x) PROVE CountTypes'
  <2>1. broken' \in [User -> BOOLEAN]
    BY <1>2, Sends DEF TypeLine, Break, TypeOK
  <2> QED BY <1>2, <2>1, TypeParts DEF CountTypes, TypeLine, threads, server
<1>10. ASSUME NEW x \in User, SendPacket(x) \/ TimerSend(x) PROVE CountTypes'
  <2>1. broken' \in [User -> BOOLEAN]
    BY <1>10, Sends DEF SendPacket, TimerSend
  <2> QED BY <1>10, <2>1, TypeParts DEF CountTypes, SendPacket, TimerSend, server, bounds
<1>3. ASSUME NEW x \in User, TimerInit(x) PROVE CountTypes'
  BY <1>3, TypeParts DEF CountTypes, TimerInit, threads, server, bounds, net
<1>4. ASSUME NEW x \in User, Relay(x) PROVE CountTypes'
  <2>1. Head(up[x]) \in UpPacket
    BY <1>4, HeadTypes DEF Relay
  <2>2. Head(up[x]).to \in User \cup {Nobody} /\ talk[x] \in User \cup {Nobody}
    BY <2>1 DEF UpPacket, TypeOK
  <2>3. \E t \in User \cup {Nobody} : talk' \in {talk, [talk EXCEPT ![x] = t]}
    BY <1>4, <2>2 DEF Relay
  <2>4. talk' \in [User -> User \cup {Nobody}]
    <3>1. talk \in [User -> User \cup {Nobody}]
      BY DEF TypeOK
    <3> QED BY <2>3, <3>1
  <2>5. UNCHANGED <<peer, running, online, broken, held, asks, ticks, lines, turns>>
    BY <1>4 DEF Relay, threads, bounds
  <2> QED BY <2>4, <2>5, TypeParts DEF CountTypes
<1>5. ASSUME NEW x \in User, Stop(x) PROVE CountTypes'
  BY <1>5, TypeParts DEF CountTypes, Stop, threads, server, bounds, net
<1>6. ASSUME NEW x \in User, RemoveUser(x) PROVE CountTypes'
  BY <1>6, TypeParts DEF CountTypes, RemoveUser, threads, server, bounds, net
<1>7. ASSUME NEW x \in User, Start(x) PROVE CountTypes'
  BY <1>7, TypeParts DEF CountTypes, Start
<1>11. ASSUME NEW x \in User, StartRefused(x) PROVE CountTypes'
  BY <1>11, TypeParts DEF CountTypes, StartRefused, threads, net
<1>8. ASSUME NEW x \in User, SaveSecret(x) \/ OpenKey(x) \/ SaveKey(x) \/ RemovePending(x) \/
                        TimerSaveSecret(x) \/ TimerAddress(x) \/ ProcessInit(x) \/
                        SavePending(x) \/ ProcessAck(x) \/ SaveAckKey(x) \/ ProcessMsg(x) \/
                        PrintPlain(x)
      PROVE  CountTypes'
  BY <1>8 DEF TypeOK, CountTypes, threads, server, bounds, net, SaveSecret, OpenKey, SaveKey, RemovePending,
     TimerSaveSecret, TimerAddress, ProcessInit, SavePending, ProcessAck, SaveAckKey,
     ProcessMsg, PrintPlain
<1>9. CASE Hold \/ UNCHANGED vars
  BY <1>9 DEF Hold, TypeOK, CountTypes, threads, server, bounds, net, vars
<1> QED BY <1>1, <1>2, <1>3, <1>4, <1>5, <1>6, <1>7, <1>8, <1>9, <1>10, <1>11 DEF Next, Main, Timer, Child, Server

\* The secrets that were made.
LEMMA MadeTyped ==
    ASSUME TypeOK, Busy, [Next]_vars
    PROVE  MadeType'
<1>1. ASSUME NEW x \in User, NEW p \in User, E2eCommand(x, p) PROVE MadeType'
  <2>1. Scan(pending[x][p]) \in Secret \cup {Absent, Garbage}
    BY Values DEF TypeOK
  <2> QED BY <1>1, <2>1, FileAssumption DEF TypeOK, MadeType, E2eCommand, Generate, Fresh, Secret
<1>2. ASSUME NEW x \in User, TimerInit(x) PROVE MadeType'
  BY <1>2, FileAssumption DEF TypeOK, MadeType, TimerInit, Generate, Fresh, Secret
<1>3. ASSUME NEW x \in User, SaveSecret(x) \/ OpenKey(x) \/ SaveKey(x) \/ RemovePending(x) \/
                        SendPacket(x) \/ TypeLine(x) \/ TimerSaveSecret(x) \/ TimerAddress(x) \/ TimerSend(x) \/
                        ProcessInit(x) \/ SavePending(x) \/ ProcessAck(x) \/ SaveAckKey(x) \/
                        ProcessMsg(x) \/ PrintPlain(x) \/ Relay(x) \/ Stop(x) \/
                        RemoveUser(x) \/ Start(x) \/ StartRefused(x)
      PROVE  MadeType'
  BY <1>3 DEF TypeOK, MadeType, SaveSecret, OpenKey, SaveKey, RemovePending, SendPacket, TypeLine,
     TimerSaveSecret, TimerAddress, TimerSend, ProcessInit, SavePending, ProcessAck, SaveAckKey, ProcessMsg,
     PrintPlain, Relay, Stop, RemoveUser, Start, StartRefused
<1>4. CASE Hold \/ UNCHANGED vars
  BY <1>4 DEF Hold, TypeOK, MadeType, vars
<1> QED BY <1>1, <1>2, <1>3, <1>4 DEF Next, Main, Timer, Child, Server

\* The lines, the frames and what was printed.
LEMMA NetTyped ==
    ASSUME TypeOK, Busy, [Next]_vars
    PROVE  NetTypes'
<1>1. ASSUME NEW x \in User, SendPacket(x) PROVE NetTypes'
  <2>1. main[x].to \in User \cup {Nobody} /\ main[x].mine \in Secret
    BY <1>1 DEF TypeOK, Doing, SendPacket, Busy, MainBusy
  <2> DEFINE m == Packet(main[x].to, IF main[x].other = Absent THEN "init" ELSE "ack", main[x].mine, Absent, <<>>)
  <2>2. m \in UpPacket
    BY <1>1, <2>1 DEF Packet, UpPacket, Kinds, Line
  <2>3. up' = up \/ up' = [up EXCEPT ![x] = Append(@, m)]
    BY <1>1, Sends DEF SendPacket
  <2> HIDE DEF m
  <2>4. up' \in [User -> Seq(UpPacket)]
    <3>1. up \in [User -> Seq(UpPacket)]
      BY TypeParts DEF NetTypes
    <3>2. Append(up[x], m) \in Seq(UpPacket)
      BY <2>2, <3>1
    <3> QED BY <2>3, <3>1, <3>2
  <2> QED BY <1>1, <2>4, TypeParts DEF NetTypes, SendPacket
<1>2. ASSUME NEW x \in User, TypeLine(x) PROVE NetTypes'
  <2>1. peer[x] \in User \cup {Nobody} /\ lines[x] + 1 \in Nat
    BY DEF TypeOK
  <2>2. peer[x] # Nobody => Scan(key[x][peer[x]]) \in KeyOf \cup {Absent, Garbage}
    BY <2>1, Values DEF TypeOK
  <2>3. PICK m \in UpPacket : up' = up \/ up' = [up EXCEPT ![x] = Append(@, m)]
    <3> DEFINE l == <<x, lines[x] + 1, peer[x]>>
    <3>1. l \in Line
      BY <2>1 DEF Line
    <3>2. Packet(Nobody, "plain", Absent, Absent, l) \in UpPacket
      BY <3>1 DEF Packet, UpPacket, Kinds
    <3>3. peer[x] # Nobody => Packet(peer[x], "msg", Absent, Scan(key[x][peer[x]]), l) \in UpPacket
      BY <2>1, <2>2, <3>1 DEF Packet, UpPacket, Kinds
    <3>4. CASE peer[x] # Nobody /\ key[x][peer[x]] # Absent
      BY <1>2, <3>3, <3>4, Sends DEF TypeLine
    <3>5. CASE ~(peer[x] # Nobody /\ key[x][peer[x]] # Absent)
      BY <1>2, <3>2, <3>5, Sends DEF TypeLine, Break
    <3> QED BY <3>4, <3>5
  <2>4. up' \in [User -> Seq(UpPacket)]
    <3>1. up \in [User -> Seq(UpPacket)]
      BY TypeParts DEF NetTypes
    <3>2. Append(up[x], m) \in Seq(UpPacket)
      BY <3>1
    <3> QED BY <2>3, <3>1, <3>2
  <2> QED BY <1>2, <2>4, TypeParts DEF NetTypes, TypeLine
<1>3. ASSUME NEW x \in User, TimerSend(x) PROVE NetTypes'
  <2>1. timer[x].to \in User \cup {Nobody} /\ timer[x].mine \in Secret
    BY <1>3 DEF TypeOK, Doing, TimerSend, Busy, TimerBusy
  <2> DEFINE m == Packet(timer[x].to, "init", timer[x].mine, Absent, <<>>)
  <2>2. m \in UpPacket
    BY <1>3, <2>1 DEF Packet, UpPacket, Kinds, Line
  <2>3. up' = up \/ up' = [up EXCEPT ![x] = Append(@, m)]
    BY <1>3, Sends DEF TimerSend
  <2> HIDE DEF m
  <2>4. up' \in [User -> Seq(UpPacket)]
    <3>1. up \in [User -> Seq(UpPacket)]
      BY TypeParts DEF NetTypes
    <3>2. Append(up[x], m) \in Seq(UpPacket)
      BY <2>2, <3>1
    <3> QED BY <2>3, <3>1, <3>2
  <2> QED BY <1>3, <2>4, TypeParts DEF NetTypes, TimerSend
<1>4. ASSUME NEW x \in User, ProcessInit(x) PROVE NetTypes'
  <2>1. down[x] \in Seq(DownPacket) /\ down[x] # <<>>
    BY <1>4, TypeParts DEF NetTypes, ProcessInit, Received
  <2> QED BY <1>4, <2>1, TypeParts DEF NetTypes, ProcessInit, NextFrame
<1>5. ASSUME NEW x \in User, ProcessAck(x) PROVE NetTypes'
  <2>1. down[x] \in Seq(DownPacket) /\ down[x] # <<>>
    BY <1>5, TypeParts DEF NetTypes, ProcessAck, Received
  <2> QED BY <1>5, <2>1, TypeParts DEF NetTypes, ProcessAck, NextFrame
<1>6. ASSUME NEW x \in User, ProcessMsg(x) PROVE NetTypes'
  <2>1. down[x] \in Seq(DownPacket) /\ down[x] # <<>>
    BY <1>6, TypeParts DEF NetTypes, ProcessMsg, Received
  <2>2. Head(down[x]) \in DownPacket
    BY <2>1
  <2>3. [from |-> Head(down[x]).from, line |-> Head(down[x]).line] \in Printed
    BY <2>2 DEF DownPacket, Printed
  <2> QED BY <1>6, <2>1, <2>3, TypeParts DEF NetTypes, ProcessMsg, Frame, NextFrame
<1>7. ASSUME NEW x \in User, PrintPlain(x) PROVE NetTypes'
  <2>1. down[x] \in Seq(DownPacket) /\ down[x] # <<>>
    BY <1>7, TypeParts DEF NetTypes, PrintPlain, Received
  <2> QED BY <1>7, <2>1, TypeParts DEF NetTypes, PrintPlain, NextFrame
<1>8. ASSUME NEW x \in User, Relay(x) PROVE NetTypes'
  <2>1. up[x] \in Seq(UpPacket) /\ up[x] # <<>>
    BY <1>8, TypeParts DEF NetTypes, Relay
  <2>2. Head(up[x]) \in UpPacket
    BY <2>1
  <2>3. PICK m \in UpPacket : m = Head(up[x])
    BY <2>2
  <2> DEFINE frame == [from |-> x, kind |-> m.kind, share |-> m.share, under |-> m.under, line |-> m.line]
  <2>4. frame \in DownPacket
    BY DEF UpPacket, DownPacket
  <2>5. m.to \in User \cup {Nobody} /\ talk[x] \in User \cup {Nobody}
    BY DEF UpPacket, TypeOK
  <2>6. \/ down' = down
        \/ \E t \in User : down' = [down EXCEPT ![t] = Append(@, frame)]
    BY <1>8, <2>3, <2>5 DEF Relay, Deliver
  <2> HIDE DEF frame
  <2>7. \A t \in User : [down EXCEPT ![t] = Append(@, frame)] \in [User -> Seq(DownPacket)]
    BY <2>4, TypeParts DEF NetTypes
  <2>8. down' \in [User -> Seq(DownPacket)]
    BY <2>6, <2>7, TypeParts DEF NetTypes
  <2> QED BY <1>8, <2>1, <2>8, TypeParts DEF NetTypes, Relay
<1>9. ASSUME NEW x \in User, Stop(x) PROVE NetTypes'
  BY <1>9, TypeParts DEF NetTypes, Stop
<1>10. ASSUME NEW x \in User, \E p \in User : E2eCommand(x, p) \/ SaveSecret(x) \/ OpenKey(x) \/ SaveKey(x) \/
                        RemovePending(x) \/ TimerInit(x) \/ TimerSaveSecret(x) \/ TimerAddress(x) \/ SavePending(x) \/
                        SaveAckKey(x) \/ RemoveUser(x) \/ Start(x) \/ StartRefused(x)
      PROVE  NetTypes'
  BY <1>10 DEF TypeOK, NetTypes, UpPacket, DownPacket, Printed, net, E2eCommand, SaveSecret, OpenKey,
     SaveKey, RemovePending, TimerInit, TimerSaveSecret, TimerAddress, SavePending, SaveAckKey, RemoveUser, Start, StartRefused
<1>11. CASE Hold \/ UNCHANGED vars
  BY <1>11 DEF Hold, TypeOK, NetTypes, UpPacket, DownPacket, Printed, net, vars
<1> QED BY <1>1, <1>2, <1>3, <1>4, <1>5, <1>6, <1>7, <1>8, <1>9, <1>10, <1>11 DEF Next, Main, Timer,
           Child, Server

LEMMA TypeNext == TypeOK /\ Busy /\ [Next]_vars => TypeOK'
BY FilesTyped, ThreadsTyped, CountsTyped, MadeTyped, NetTyped
   DEF TypeOK, FileTypes, ThreadTypes, CountTypes, MadeType, NetTypes, UpPacket, DownPacket, Printed

--------------------------------------------------------------------------------
(* A busy thread keeps what it needs. *)

\* The first line or frame of a queue is from its sender.
LEMMA HeadFrom ==
    ASSUME TypeOK, NEW md, NEW x \in User
    PROVE  /\ UpFrom(md) /\ up[x] # <<>> => FromSender(md, x, Head(up[x]))
           /\ DownFrom(md) /\ down[x] # <<>> => FromSender(md, Head(down[x]).from, Head(down[x]))
<1>1. up[x] \in Seq(UpPacket) /\ down[x] \in Seq(DownPacket)
  BY TypeParts DEF NetTypes
<1>2. /\ up[x] # <<>> => 1 \in DOMAIN up[x] /\ Head(up[x]) = up[x][1]
      /\ down[x] # <<>> => 1 \in DOMAIN down[x] /\ Head(down[x]) = down[x][1]
  BY <1>1
<1> QED BY <1>2 DEF UpFrom, DownFrom

\* A busy thread keeps what it needs.
LEMMA BusyNext ==
    ASSUME TypeOK, Busy, DownFrom(made), [Next]_vars
    PROVE  Busy'
<1>1. ASSUME NEW x \in User, NEW p \in User, E2eCommand(x, p) PROVE Busy'
  <2>1. Fresh \in Secret
    BY <1>1 DEF E2eCommand, Generate
  <2> QED BY <1>1, <2>1 DEF Busy, MainBusy, TimerBusy, ChildBusy, E2eCommand, TypeOK
<1>2. ASSUME NEW x \in User, SaveSecret(x) PROVE Busy'
  <2>1. main' = [main EXCEPT ![x] = [at |-> IF main[x].other = Absent THEN "send" ELSE "key",
             to |-> main[x].to, mine |-> main[x].mine, other |-> main[x].other]]
    BY <1>2, GoesOn
  <2>2. UNCHANGED <<timer, child>> /\ main[x].at # "idle"
    BY <1>2 DEF SaveSecret
  <2>3. main \in [User -> Doing({"idle", "secret", "key", "save", "remove", "send"})]
    BY DEF TypeOK
  <2> QED BY <2>1, <2>2, <2>3 DEF Busy, MainBusy, TimerBusy, ChildBusy
<1>3. ASSUME NEW x \in User, OpenKey(x) PROVE Busy'
  <2>1. main' = [main EXCEPT ![x] = [at |-> "save",
             to |-> main[x].to, mine |-> main[x].mine, other |-> main[x].other]]
    BY <1>3, GoesOn
  <2>2. UNCHANGED <<timer, child>> /\ main[x].at # "idle"
    BY <1>3 DEF OpenKey
  <2>3. main \in [User -> Doing({"idle", "secret", "key", "save", "remove", "send"})]
    BY DEF TypeOK
  <2>4. main[x].at \in {"key", "save"}
    BY <1>3 DEF OpenKey
  <2> QED BY <2>1, <2>2, <2>3, <2>4 DEF Busy, MainBusy, TimerBusy, ChildBusy
<1>4. ASSUME NEW x \in User, SaveKey(x) PROVE Busy'
  <2>1. main' = [main EXCEPT ![x] = [at |-> "remove",
             to |-> main[x].to, mine |-> main[x].mine, other |-> main[x].other]]
    BY <1>4, GoesOn
  <2>2. UNCHANGED <<timer, child>> /\ main[x].at # "idle"
    BY <1>4 DEF SaveKey
  <2>3. main \in [User -> Doing({"idle", "secret", "key", "save", "remove", "send"})]
    BY DEF TypeOK
  <2>4. main[x].at \in {"key", "save"}
    BY <1>4 DEF SaveKey
  <2> QED BY <2>1, <2>2, <2>3, <2>4 DEF Busy, MainBusy, TimerBusy, ChildBusy
<1>5. ASSUME NEW x \in User, RemovePending(x) PROVE Busy'
  <2>1. main' = [main EXCEPT ![x] = [at |-> "send",
             to |-> main[x].to, mine |-> main[x].mine, other |-> main[x].other]]
    BY <1>5, GoesOn
  <2>2. UNCHANGED <<timer, child>> /\ main[x].at # "idle"
    BY <1>5 DEF RemovePending
  <2>3. main \in [User -> Doing({"idle", "secret", "key", "save", "remove", "send"})]
    BY DEF TypeOK
  <2> QED BY <2>1, <2>2, <2>3 DEF Busy, MainBusy, TimerBusy, ChildBusy
<1>6. ASSUME NEW x \in User, SendPacket(x) PROVE Busy'
  BY <1>6, Values DEF Busy, MainBusy, TimerBusy, ChildBusy, Idle, SendPacket, TypeOK
<1>7. ASSUME NEW x \in User, TimerInit(x) PROVE Busy'
  <2>1. Fresh \in Secret /\ peer[x] \in User
    BY <1>7 DEF TimerInit, Generate, TypeOK
  <2> QED BY <1>7, <2>1 DEF Busy, MainBusy, TimerBusy, ChildBusy, TimerInit, Idle, TypeOK
<1>8. ASSUME NEW x \in User, TimerSaveSecret(x) PROVE Busy'
  <2>1. timer' = [timer EXCEPT ![x] = [at |-> "address",
             to |-> timer[x].to, mine |-> timer[x].mine, other |-> timer[x].other]]
    BY <1>8, GoesOn
  <2>2. UNCHANGED <<main, child>> /\ timer[x].at # "idle"
    BY <1>8 DEF TimerSaveSecret
  <2>3. timer \in [User -> Doing({"idle", "secret", "address", "send"})]
    BY DEF TypeOK
  <2> QED BY <2>1, <2>2, <2>3 DEF Busy, MainBusy, TimerBusy, ChildBusy
<1>17. ASSUME NEW x \in User, TimerAddress(x) PROVE Busy'
  <2>1. timer' = [timer EXCEPT ![x] = [at |-> "send", to |-> peer[x],
                                       mine |-> timer[x].mine, other |-> Absent]]
    BY <1>17 DEF TimerAddress
  <2>2. UNCHANGED <<main, child>> /\ timer[x].at # "idle"
    BY <1>17 DEF TimerAddress
  <2>3. timer \in [User -> Doing({"idle", "secret", "address", "send"})]
    BY DEF TypeOK
  <2> QED BY <2>1, <2>2, <2>3 DEF Busy, MainBusy, TimerBusy, ChildBusy
<1>9. ASSUME NEW x \in User, TimerSend(x) PROVE Busy'
  BY <1>9, Values DEF Busy, MainBusy, TimerBusy, ChildBusy, Idle, TimerSend, TypeOK
<1>10. ASSUME NEW x \in User, ProcessInit(x) PROVE Busy'
  <2>1. PICK m \in DownPacket : m = Head(down[x])
    BY <1>10, HeadTypes DEF ProcessInit, Received
  <2>2. m.from \in User /\ m.share \in Secret
    BY <1>10, <2>1, HeadFrom DEF ProcessInit, Received, FromSender, DownPacket
  <2> QED BY <1>10, <2>1, <2>2 DEF Busy, MainBusy, TimerBusy, ChildBusy, Idle, ProcessInit, Frame, TypeOK
<1>11. ASSUME NEW x \in User, SavePending(x) PROVE Busy'
  BY <1>11, Values DEF Busy, MainBusy, TimerBusy, ChildBusy, Idle, SavePending, TypeOK
<1>12. ASSUME NEW x \in User, ProcessAck(x) PROVE Busy'
  <2>1. PICK m \in DownPacket : m = Head(down[x])
    BY <1>12, HeadTypes DEF ProcessAck, Received
  <2>2. m.from \in User /\ m.share \in Secret
    BY <1>12, <2>1, HeadFrom DEF ProcessAck, Received, FromSender, DownPacket
  <2>3. secret[x][m.from] # Absent => Scan(secret[x][m.from]) # Absent
    BY <2>2, Values DEF TypeOK, Scan
  <2>4. /\ UNCHANGED <<main, timer>>
        /\ \/ child' = child
           \/ /\ secret[x][m.from] # Absent
              /\ child' = [child EXCEPT ![x] = [at |-> "ack", to |-> m.from,
                               mine |-> Scan(secret[x][m.from]), other |-> m.share]]
    BY <1>12, <2>1 DEF ProcessAck, Frame
  <2>5. child \in [User -> Doing({"idle", "pending", "ack"})]
    BY DEF TypeOK
  <2>6. CASE child' = child
    BY <2>4, <2>6 DEF Busy, MainBusy, TimerBusy, ChildBusy
  <2>7. CASE child' # child
    BY <2>2, <2>3, <2>4, <2>5, <2>7 DEF Busy, MainBusy, TimerBusy, ChildBusy
  <2> QED BY <2>6, <2>7
<1>13. ASSUME NEW x \in User, SaveAckKey(x) PROVE Busy'
  BY <1>13, Values DEF Busy, MainBusy, TimerBusy, ChildBusy, Idle, SaveAckKey, TypeOK
<1>14. ASSUME NEW x \in User, Stop(x) PROVE Busy'
  BY <1>14, Values DEF Busy, MainBusy, TimerBusy, ChildBusy, Idle, Stop, TypeOK
<1>15. ASSUME NEW x \in User, TypeLine(x) \/ ProcessMsg(x) \/ PrintPlain(x) \/ Relay(x) \/
                        RemoveUser(x) \/ Start(x) \/ StartRefused(x)
      PROVE  Busy'
  BY <1>15 DEF Busy, MainBusy, TimerBusy, ChildBusy, threads, TypeLine, ProcessMsg, PrintPlain, Relay,
     RemoveUser, Start, StartRefused
<1>16. CASE Hold \/ UNCHANGED vars
  BY <1>16 DEF Hold, Busy, MainBusy, TimerBusy, ChildBusy, threads, vars
<1> QED BY <1>1, <1>2, <1>3, <1>4, <1>5, <1>6, <1>7, <1>8, <1>9, <1>10, <1>11, <1>12, <1>13, <1>14,
           <1>15, <1>16, <1>17 DEF Next, Main, Timer, Child, Server

--------------------------------------------------------------------------------
(* Origins. *)

\* Whoever is asked: marks are not secrets and not keys.
LEMMA Marks ==
    ASSUME NEW md, NEW x, NEW p, NEW v \in {Absent, Torn, Garbage}
    PROVE  By(md, x, v) /\ Joins(md, x, p, v)
BY Values DEF By, Joins

\* The secret that a step makes is made by the user of that step.
LEMMA FreshBy ==
    ASSUME TypeOK, NEW x \in User, NEW p \in User, NEW w \in Secret \cup {Absent, Garbage},
           Generate(x, p, w), NEW md, md = made'
    PROVE  By(md, x, Fresh)
<1>1. [by |-> x, for |-> p, with |-> w] \in [by : User, for : User, with : Secret \cup {Absent, Garbage}]
  OBVIOUS
<1>2. /\ Len(made) + 1 \in DOMAIN Append(made, [by |-> x, for |-> p, with |-> w])
      /\ Append(made, [by |-> x, for |-> p, with |-> w])[Len(made) + 1] = [by |-> x, for |-> p, with |-> w]
  BY <1>1 DEF TypeOK
<1> QED BY <1>2 DEF By, Fresh, Generate

\* Files hold own secrets, the shares of the user in their name, and keys of the two.
LEMMA FilesOrigin ==
    ASSUME NEW md, md = made', TypeOK, Busy, FilesFrom(md), ThreadsFrom(md), DownFrom(md), [Next]_vars
    PROVE  FilesFrom(md)'
<1>1. ASSUME NEW x \in User, NEW p \in User, E2eCommand(x, p) PROVE FilesFrom(md)'
  BY <1>1, Marks DEF FilesFrom, E2eCommand, Generate, Fresh, Open, TypeOK
<1>2. ASSUME NEW x \in User, SaveSecret(x) PROVE FilesFrom(md)'
  BY <1>2 DEF FilesFrom, ThreadsFrom, SaveSecret, Save, TypeOK
<1>3. ASSUME NEW x \in User, OpenKey(x) PROVE FilesFrom(md)'
  BY <1>3, Marks DEF FilesFrom, OpenKey, Open, TypeOK
<1>4. ASSUME NEW x \in User, SaveKey(x) PROVE FilesFrom(md)'
  <2>1. main[x].mine \in Secret /\ main[x].other \in Secret \cup {Garbage}
    BY <1>4 DEF TypeOK, Doing, SaveKey, Busy, MainBusy
  <2>2. Joins(md, x, main[x].to, Key(main[x].mine, main[x].other))
    BY <2>1, KeyJoins DEF ThreadsFrom
  <2> QED BY <1>4, <2>2 DEF FilesFrom, SaveKey, Save, TypeOK
<1>5. ASSUME NEW x \in User, RemovePending(x) PROVE FilesFrom(md)'
  BY <1>5, Marks DEF FilesFrom, RemovePending, Save, TypeOK
<1>6. ASSUME NEW x \in User, TimerInit(x) PROVE FilesFrom(md)'
  BY <1>6, Marks DEF FilesFrom, TimerInit, Generate, Fresh, Open, TypeOK
<1>7. ASSUME NEW x \in User, TimerSaveSecret(x) PROVE FilesFrom(md)'
  BY <1>7 DEF FilesFrom, ThreadsFrom, TimerSaveSecret, TimerAddress, Save, TypeOK
<1>8. ASSUME NEW x \in User, ProcessInit(x) PROVE FilesFrom(md)'
  <2>1. PICK f \in User : f = Frame(x).from
    BY <1>8, HeadTypes DEF ProcessInit, Received, Frame, DownPacket
  <2>2. UNCHANGED <<secret, key>> /\ pending' = Open(pending, x, f)
    BY <1>8, <2>1 DEF ProcessInit
  <2>3. FilesFrom(md) /\ \A p \in User : By(md, p, Torn) /\ Joins(md, x, p, Torn)
    BY Marks
  <2> QED BY <2>2, <2>3 DEF FilesFrom, Open, TypeOK
<1>9. ASSUME NEW x \in User, SavePending(x) PROVE FilesFrom(md)'
  BY <1>9 DEF FilesFrom, ThreadsFrom, SavePending, Save, TypeOK
<1>10. ASSUME NEW x \in User, ProcessAck(x) PROVE FilesFrom(md)'
  <2>1. PICK f \in User : f = Frame(x).from
    BY <1>10, HeadTypes DEF ProcessAck, Received, Frame, DownPacket
  <2>2. UNCHANGED <<secret, pending>> /\ (key' = key \/ key' = Open(key, x, f))
    BY <1>10, <2>1 DEF ProcessAck
  <2>3. FilesFrom(md) /\ \A p \in User : By(md, p, Torn) /\ Joins(md, x, p, Torn)
    BY Marks
  <2>4. CASE key' = key
    BY <2>2, <2>4 DEF FilesFrom
  <2>5. CASE key' = Open(key, x, f)
    BY <2>2, <2>3, <2>5 DEF FilesFrom, Open, TypeOK
  <2> QED BY <2>2, <2>4, <2>5
<1>11. ASSUME NEW x \in User, SaveAckKey(x) PROVE FilesFrom(md)'
  <2>1. child[x].mine \in Secret \cup {Garbage} /\ child[x].other \in Secret
    BY <1>11 DEF TypeOK, Doing, SaveAckKey, Busy, ChildBusy
  <2>2. Joins(md, x, child[x].to, Key(child[x].mine, child[x].other))
    BY <2>1, KeyJoins DEF ThreadsFrom
  <2> QED BY <1>11, <2>2 DEF FilesFrom, SaveAckKey, Save, TypeOK
<1>12. ASSUME NEW x \in User, SendPacket(x) \/ TypeLine(x) \/ TimerAddress(x) \/ TimerSend(x) \/ ProcessMsg(x) \/
                        PrintPlain(x) \/ Relay(x) \/ Stop(x) \/ RemoveUser(x) \/
                        Start(x) \/ StartRefused(x)
      PROVE  FilesFrom(md)'
  BY <1>12 DEF FilesFrom, files, SendPacket, TypeLine, TimerAddress, TimerSend, ProcessMsg, PrintPlain, Relay, Stop,
     RemoveUser, Start, StartRefused
<1>13. CASE Hold \/ UNCHANGED vars
  BY <1>13 DEF Hold, FilesFrom, files, vars
<1> QED BY <1>1, <1>2, <1>3, <1>4, <1>5, <1>6, <1>7, <1>8, <1>9, <1>10, <1>11, <1>12, <1>13 DEF Next,
           Main, Timer, Child, Server

\* Threads hold own secrets and shares of the user they deal with.
LEMMA ThreadsOrigin ==
    ASSUME NEW md, md = made', TypeOK, Busy, FilesFrom(md), ThreadsFrom(md), DownFrom(md), [Next]_vars
    PROVE  ThreadsFrom(md)'
<1>1. ASSUME NEW x \in User, NEW p \in User, E2eCommand(x, p) PROVE ThreadsFrom(md)'
  <2>1. Scan(pending[x][p]) \in Secret \cup {Absent, Garbage}
    BY Values DEF TypeOK
  <2>2. By(md, x, Fresh)
    BY <1>1, <2>1, FreshBy DEF E2eCommand
  <2>3. By(md, p, Scan(pending[x][p]))
    BY ScanBy DEF FilesFrom
  <2> QED BY <1>1, <2>2, <2>3 DEF ThreadsFrom, E2eCommand, TypeOK
<1>2. ASSUME NEW x \in User, SaveSecret(x) PROVE ThreadsFrom(md)'
  <2>1. main' = [main EXCEPT ![x] = [at |-> IF main[x].other = Absent THEN "send" ELSE "key",
             to |-> main[x].to, mine |-> main[x].mine, other |-> main[x].other]]
    BY <1>2, GoesOn
  <2>2. UNCHANGED <<timer, child>> /\ main[x].at # "idle"
    BY <1>2 DEF SaveSecret
  <2>3. main \in [User -> Doing({"idle", "secret", "key", "save", "remove", "send"})]
    BY DEF TypeOK
  <2> QED BY <2>1, <2>2, <2>3 DEF ThreadsFrom
<1>3. ASSUME NEW x \in User, OpenKey(x) PROVE ThreadsFrom(md)'
  <2>1. main' = [main EXCEPT ![x] = [at |-> "save",
             to |-> main[x].to, mine |-> main[x].mine, other |-> main[x].other]]
    BY <1>3, GoesOn
  <2>2. UNCHANGED <<timer, child>> /\ main[x].at # "idle"
    BY <1>3 DEF OpenKey
  <2>3. main \in [User -> Doing({"idle", "secret", "key", "save", "remove", "send"})]
    BY DEF TypeOK
  <2> QED BY <2>1, <2>2, <2>3 DEF ThreadsFrom
<1>4. ASSUME NEW x \in User, SaveKey(x) PROVE ThreadsFrom(md)'
  <2>1. main' = [main EXCEPT ![x] = [at |-> "remove",
             to |-> main[x].to, mine |-> main[x].mine, other |-> main[x].other]]
    BY <1>4, GoesOn
  <2>2. UNCHANGED <<timer, child>> /\ main[x].at # "idle"
    BY <1>4 DEF SaveKey
  <2>3. main \in [User -> Doing({"idle", "secret", "key", "save", "remove", "send"})]
    BY DEF TypeOK
  <2> QED BY <2>1, <2>2, <2>3 DEF ThreadsFrom
<1>5. ASSUME NEW x \in User, RemovePending(x) PROVE ThreadsFrom(md)'
  <2>1. main' = [main EXCEPT ![x] = [at |-> "send",
             to |-> main[x].to, mine |-> main[x].mine, other |-> main[x].other]]
    BY <1>5, GoesOn
  <2>2. UNCHANGED <<timer, child>> /\ main[x].at # "idle"
    BY <1>5 DEF RemovePending
  <2>3. main \in [User -> Doing({"idle", "secret", "key", "save", "remove", "send"})]
    BY DEF TypeOK
  <2> QED BY <2>1, <2>2, <2>3 DEF ThreadsFrom
<1>6. ASSUME NEW x \in User, SendPacket(x) PROVE ThreadsFrom(md)'
  BY <1>6, Marks DEF ThreadsFrom, Idle, SendPacket, TypeOK
<1>7. ASSUME NEW x \in User, TimerInit(x) PROVE ThreadsFrom(md)'
  <2>1. By(md, x, Fresh)
    BY <1>7, FreshBy DEF TimerInit, TypeOK
  <2> QED BY <1>7, <2>1, Marks DEF ThreadsFrom, TimerInit, Idle, TypeOK
<1>8. ASSUME NEW x \in User, TimerSaveSecret(x) PROVE ThreadsFrom(md)'
  <2>1. timer' = [timer EXCEPT ![x] = [at |-> "address",
             to |-> timer[x].to, mine |-> timer[x].mine, other |-> timer[x].other]]
    BY <1>8, GoesOn
  <2>2. UNCHANGED <<main, child>> /\ timer[x].at # "idle"
    BY <1>8 DEF TimerSaveSecret
  <2>3. timer \in [User -> Doing({"idle", "secret", "address", "send"})]
    BY DEF TypeOK
  <2> QED BY <2>1, <2>2, <2>3 DEF ThreadsFrom
<1>17. ASSUME NEW x \in User, TimerAddress(x) PROVE ThreadsFrom(md)'
  <2>1. timer' = [timer EXCEPT ![x] = [at |-> "send", to |-> peer[x],
                                       mine |-> timer[x].mine, other |-> Absent]]
    BY <1>17 DEF TimerAddress
  <2>2. UNCHANGED <<main, child>>
    BY <1>17 DEF TimerAddress
  <2>3. timer \in [User -> Doing({"idle", "secret", "address", "send"})]
    BY DEF TypeOK
  <2> QED BY <2>1, <2>2, <2>3 DEF ThreadsFrom
<1>9. ASSUME NEW x \in User, TimerSend(x) PROVE ThreadsFrom(md)'
  BY <1>9, Marks DEF ThreadsFrom, Idle, TimerSend, TypeOK
<1>10. ASSUME NEW x \in User, ProcessInit(x) PROVE ThreadsFrom(md)'
  <2>1. PICK m \in DownPacket : m = Head(down[x])
    BY <1>10, HeadTypes DEF ProcessInit, Received
  <2>2. m.from \in User /\ By(md, m.from, m.share)
    BY <1>10, <2>1, HeadFrom DEF ProcessInit, Received, FromSender, DownPacket
  <2> QED BY <1>10, <2>1, <2>2, Marks DEF ThreadsFrom, Idle, ProcessInit, Frame, TypeOK
<1>11. ASSUME NEW x \in User, SavePending(x) PROVE ThreadsFrom(md)'
  BY <1>11, Marks DEF ThreadsFrom, Idle, SavePending, TypeOK
<1>12. ASSUME NEW x \in User, ProcessAck(x) PROVE ThreadsFrom(md)'
  <2>1. PICK m \in DownPacket : m = Head(down[x])
    BY <1>12, HeadTypes DEF ProcessAck, Received
  <2>2. m.from \in User /\ By(md, m.from, m.share)
    BY <1>12, <2>1, HeadFrom DEF ProcessAck, Received, FromSender, DownPacket
  <2>3. By(md, x, Scan(secret[x][m.from]))
    BY <2>2, ScanBy DEF FilesFrom
  <2>4. /\ UNCHANGED <<main, timer>>
        /\ \/ child' = child
           \/ /\ secret[x][m.from] # Absent
              /\ child' = [child EXCEPT ![x] = [at |-> "ack", to |-> m.from,
                               mine |-> Scan(secret[x][m.from]), other |-> m.share]]
    BY <1>12, <2>1 DEF ProcessAck, Frame
  <2>5. child \in [User -> Doing({"idle", "pending", "ack"})]
    BY DEF TypeOK
  <2>6. CASE child' = child
    BY <2>4, <2>6 DEF ThreadsFrom
  <2>7. CASE child' # child
    BY <2>2, <2>3, <2>4, <2>5, <2>7 DEF ThreadsFrom
  <2> QED BY <2>6, <2>7
<1>13. ASSUME NEW x \in User, SaveAckKey(x) PROVE ThreadsFrom(md)'
  BY <1>13, Marks DEF ThreadsFrom, Idle, SaveAckKey, TypeOK
<1>14. ASSUME NEW x \in User, Stop(x) PROVE ThreadsFrom(md)'
  BY <1>14, Marks DEF ThreadsFrom, Idle, Stop, TypeOK
<1>15. ASSUME NEW x \in User, TypeLine(x) \/ ProcessMsg(x) \/ PrintPlain(x) \/ Relay(x) \/
                        RemoveUser(x) \/ Start(x) \/ StartRefused(x)
      PROVE  ThreadsFrom(md)'
  BY <1>15 DEF ThreadsFrom, threads, TypeLine, ProcessMsg, PrintPlain, Relay, RemoveUser, Start, StartRefused
<1>16. CASE Hold \/ UNCHANGED vars
  BY <1>16 DEF Hold, ThreadsFrom, threads, vars
<1> QED BY <1>1, <1>2, <1>3, <1>4, <1>5, <1>6, <1>7, <1>8, <1>9, <1>10, <1>11, <1>12, <1>13, <1>14,
           <1>15, <1>16, <1>17 DEF Next, Main, Timer, Child, Server

\* Queues: what is in one after a line was appended, and after its head was taken.
LEMMA Appended ==
    ASSUME NEW S, NEW q \in Seq(S), NEW e
    PROVE  \A i \in DOMAIN Append(q, e) : Append(q, e)[i] = e \/ (i \in DOMAIN q /\ Append(q, e)[i] = q[i])
OBVIOUS

LEMMA Taken ==
    ASSUME NEW S, NEW q \in Seq(S), q # <<>>
    PROVE  \A i \in DOMAIN Tail(q) : i + 1 \in DOMAIN q /\ Tail(q)[i] = q[i + 1]
OBVIOUS

LEMMA SentUp ==
    ASSUME TypeOK, NEW md, UpFrom(md), NEW x \in User, NEW m, FromSender(md, x, m), NEW b, Send(x, m, b)
    PROVE  UpFrom(md)'
<1>1. /\ up[x] \in Seq(UpPacket) /\ up \in [User -> Seq(UpPacket)]
      /\ up' = up \/ up' = [up EXCEPT ![x] = Append(up[x], m)]
  BY Sends, TypeParts DEF NetTypes
<1>2. \A i \in DOMAIN Append(up[x], m) : FromSender(md, x, Append(up[x], m)[i])
  BY <1>1, Appended DEF UpFrom
<1> QED BY <1>1, <1>2 DEF UpFrom

\* What a user sends is its own.
LEMMA UpOrigin ==
    ASSUME NEW md, md = made', TypeOK, Busy, FilesFrom(md), ThreadsFrom(md), UpFrom(md), [Next]_vars
    PROVE  UpFrom(md)'
<1>1. ASSUME NEW x \in User, SendPacket(x) PROVE UpFrom(md)'
  <2> DEFINE m == Packet(main[x].to, IF main[x].other = Absent THEN "init" ELSE "ack", main[x].mine, Absent, <<>>)
  <2>1. FromSender(md, x, m)
    BY <1>1 DEF SendPacket, Packet, FromSender, ThreadsFrom, Busy, MainBusy
  <2> QED BY <1>1, <2>1, SentUp DEF SendPacket
<1>2. ASSUME NEW x \in User, TypeLine(x) PROVE UpFrom(md)'
  <2> DEFINE l == <<x, lines[x] + 1, peer[x]>>
  <2>1. CASE peer[x] # Nobody /\ key[x][peer[x]] # Absent
    <3>1. peer[x] \in User /\ lines[x] + 1 \in Nat
      BY <2>1 DEF TypeOK
    <3>2. l \in User \X Nat \X User /\ l[1] = x /\ l[3] = peer[x]
      BY <3>1
    <3>3. Joins(md, x, peer[x], Scan(key[x][peer[x]]))
      BY <3>1, ScanJoins DEF FilesFrom
    <3>4. FromSender(md, x, Packet(peer[x], "msg", Absent, Scan(key[x][peer[x]]), l))
      BY <3>2, <3>3 DEF Packet, FromSender
    <3>5. Send(x, Packet(peer[x], "msg", Absent, Scan(key[x][peer[x]]), l), timer[x])
      BY <1>2, <2>1 DEF TypeLine
    <3> QED BY <3>4, <3>5, SentUp
  <2>2. CASE ~(peer[x] # Nobody /\ key[x][peer[x]] # Absent)
    <3>1. FromSender(md, x, Packet(Nobody, "plain", Absent, Absent, l))
      BY DEF Packet, FromSender
    <3>2. Send(x, Packet(Nobody, "plain", Absent, Absent, l), timer[x]) \/ up' = up
      BY <1>2, <2>2 DEF TypeLine, Break
    <3>3. CASE up' = up
      BY <3>3 DEF UpFrom
    <3> QED BY <3>1, <3>2, <3>3, SentUp
  <2> QED BY <2>1, <2>2
<1>3. ASSUME NEW x \in User, TimerSend(x) PROVE UpFrom(md)'
  <2> DEFINE m == Packet(timer[x].to, "init", timer[x].mine, Absent, <<>>)
  <2>1. FromSender(md, x, m)
    BY <1>3 DEF TimerSend, Packet, FromSender, ThreadsFrom, Busy, TimerBusy
  <2> QED BY <1>3, <2>1, SentUp DEF TimerSend
<1>4. ASSUME NEW x \in User, Relay(x) PROVE UpFrom(md)'
  <2>1. up[x] \in Seq(UpPacket) /\ up[x] # <<>> /\ up \in [User -> Seq(UpPacket)]
    BY <1>4, TypeParts DEF NetTypes, Relay
  <2>2. up' = [up EXCEPT ![x] = Tail(up[x])]
    BY <1>4 DEF Relay
  <2>3. \A i \in DOMAIN Tail(up[x]) : FromSender(md, x, Tail(up[x])[i])
    BY <2>1, Taken DEF UpFrom
  <2> QED BY <2>1, <2>2, <2>3 DEF UpFrom
<1>5. ASSUME NEW x \in User, \E p \in User : E2eCommand(x, p) \/ SaveSecret(x) \/ OpenKey(x) \/ SaveKey(x) \/
                        RemovePending(x) \/ TimerInit(x) \/ TimerSaveSecret(x) \/ TimerAddress(x) \/ ProcessInit(x) \/
                        SavePending(x) \/ ProcessAck(x) \/ SaveAckKey(x) \/ ProcessMsg(x) \/
                        PrintPlain(x) \/ Stop(x) \/ RemoveUser(x) \/ Start(x) \/ StartRefused(x)
      PROVE  UpFrom(md)'
  BY <1>5 DEF UpFrom, net, E2eCommand, SaveSecret, OpenKey, SaveKey, RemovePending, TimerInit,
     TimerSaveSecret, TimerAddress, ProcessInit, SavePending, ProcessAck, SaveAckKey, ProcessMsg, PrintPlain, Stop,
     RemoveUser, Start, StartRefused
<1>6. CASE Hold \/ UNCHANGED vars
  BY <1>6 DEF Hold, UpFrom, net, vars
<1> QED BY <1>1, <1>2, <1>3, <1>4, <1>5, <1>6 DEF Next, Main, Timer, Child, Server

LEMMA NextDown ==
    ASSUME TypeOK, NEW md, DownFrom(md), NEW x \in User, down[x] # <<>>, NextFrame(x)
    PROVE  DownFrom(md)'
<1>1. down[x] \in Seq(DownPacket) /\ down' = [down EXCEPT ![x] = Tail(down[x])] /\ down \in [User -> Seq(DownPacket)]
  BY TypeParts DEF NetTypes, NextFrame
<1>2. \A i \in DOMAIN Tail(down[x]) : FromSender(md, Tail(down[x])[i].from, Tail(down[x])[i])
  BY <1>1, Taken DEF DownFrom
<1> QED BY <1>1, <1>2 DEF DownFrom

\* A frame is from the user it names, whoever it reaches.
LEMMA DownOrigin ==
    ASSUME NEW md, TypeOK, UpFrom(md), DownFrom(md), [Next]_vars
    PROVE  DownFrom(md)'
<1>1. ASSUME NEW x \in User, ProcessInit(x) PROVE DownFrom(md)'
  BY <1>1, NextDown DEF ProcessInit, Received
<1>2. ASSUME NEW x \in User, ProcessAck(x) PROVE DownFrom(md)'
  BY <1>2, NextDown DEF ProcessAck, Received
<1>3. ASSUME NEW x \in User, ProcessMsg(x) PROVE DownFrom(md)'
  BY <1>3, NextDown DEF ProcessMsg, Received
<1>4. ASSUME NEW x \in User, PrintPlain(x) PROVE DownFrom(md)'
  BY <1>4, NextDown DEF PrintPlain, Received
<1>5. ASSUME NEW x \in User, Relay(x) PROVE DownFrom(md)'
  <2>1. PICK m \in UpPacket : m = Head(up[x])
    BY <1>5, HeadTypes DEF Relay
  <2> DEFINE frame == [from |-> x, kind |-> m.kind, share |-> m.share, under |-> m.under, line |-> m.line]
  <2>2. FromSender(md, x, frame) /\ frame.from = x
    BY <1>5, <2>1, HeadFrom DEF Relay, FromSender
  <2>3. m.to \in User \cup {Nobody} /\ talk[x] \in User \cup {Nobody}
    BY DEF UpPacket, TypeOK
  <2>4. down' = down \/ \E t \in User : down' = [down EXCEPT ![t] = Append(@, frame)]
    BY <1>5, <2>1, <2>3 DEF Relay, Deliver
  <2> HIDE DEF frame
  <2>5. ASSUME NEW t \in User, down' = [down EXCEPT ![t] = Append(@, frame)] PROVE DownFrom(md)'
    <3>1. down[t] \in Seq(DownPacket) /\ down \in [User -> Seq(DownPacket)]
      BY TypeParts DEF NetTypes
    <3>2. \A i \in DOMAIN Append(down[t], frame) :
             FromSender(md, Append(down[t], frame)[i].from, Append(down[t], frame)[i])
      BY <2>2, <3>1, Appended DEF DownFrom
    <3> QED BY <2>5, <3>1, <3>2 DEF DownFrom
  <2> QED BY <2>4, <2>5 DEF DownFrom
<1>6. ASSUME NEW x \in User, Stop(x) PROVE DownFrom(md)'
  <2>1. down' = [down EXCEPT ![x] = <<>>] /\ down \in [User -> Seq(DownPacket)]
    BY <1>6, TypeParts DEF NetTypes, Stop
  <2> QED BY <2>1 DEF DownFrom
<1>7. ASSUME NEW x \in User, \E p \in User : E2eCommand(x, p) \/ SaveSecret(x) \/ OpenKey(x) \/ SaveKey(x) \/
                        RemovePending(x) \/ SendPacket(x) \/ TypeLine(x) \/ TimerInit(x) \/
                        TimerSaveSecret(x) \/ TimerAddress(x) \/ TimerSend(x) \/ SavePending(x) \/ SaveAckKey(x) \/
                        RemoveUser(x) \/ Start(x) \/ StartRefused(x)
      PROVE  DownFrom(md)'
  BY <1>7 DEF DownFrom, net, E2eCommand, SaveSecret, OpenKey, SaveKey, RemovePending, SendPacket,
     TypeLine, TimerInit, TimerSaveSecret, TimerAddress, TimerSend, SavePending, SaveAckKey, RemoveUser, Start, StartRefused
<1>8. CASE Hold \/ UNCHANGED vars
  BY <1>8 DEF Hold, DownFrom, net, vars
<1> QED BY <1>1, <1>2, <1>3, <1>4, <1>5, <1>6, <1>7, <1>8 DEF Next, Main, Timer, Child, Server

--------------------------------------------------------------------------------
(* The theorems about secrets, keys and readers. *)

\* Only what is encrypted with the key of author and addressee is printed.
LEMMA OnlyPeerNext ==
    ASSUME TypeOK, FilesFrom(made), DownFrom(made), OnlyPeerReads, [Next]_vars
    PROVE  OnlyPeerReads'
<1>1. ASSUME NEW x \in User, ProcessMsg(x) PROVE OnlyPeerReads'
  <2>1. PICK m \in DownPacket : m = Head(down[x])
    BY <1>1, HeadTypes DEF ProcessMsg, Received
  <2>2. m.from \in User /\ FromSender(made, m.from, m) /\ m.kind = "msg"
    BY <1>1, <2>1, HeadFrom DEF ProcessMsg, Received, DownPacket
  <2>3. CASE key[x][m.from] # Absent /\ Opens(Scan(key[x][m.from]), m.under)
    <3>1. m.under \in KeyOf /\ Garbage \notin m.under /\ key[x][m.from] = m.under
      BY <2>2, <2>3, Values DEF Opens, Scan, TypeOK
    <3>2. /\ {made[s].by : s \in m.under} = {x, m.from}
          /\ {made[s].by : s \in m.under} = {m.from, m.line[3]}
      BY <2>2, <3>1 DEF FilesFrom, FromSender, Joins
    <3>3. m.line[3] = x /\ m.line[1] = m.from
      BY <2>2, <3>2 DEF FromSender
    <3> DEFINE e == [from |-> m.from, line |-> m.line]
    <3>4. shown' = [shown EXCEPT ![x] = Append(shown[x], e)]
      BY <1>1, <2>1, <2>3 DEF ProcessMsg, Frame
    <3>5. shown \in [User -> Seq(Printed)] /\ shown[x] \in Seq(Printed) /\ e \in Printed
      BY <2>2, TypeParts DEF NetTypes, DownPacket, Printed
    <3>6. \A i \in DOMAIN Append(shown[x], e) :
            LET r == Append(shown[x], e)[i] IN r.line[1] = r.from /\ r.line[3] = x
      BY <3>3, <3>5, AppendElements DEF OnlyPeerReads
    <3> HIDE DEF e
    <3> QED BY <3>4, <3>5, <3>6 DEF OnlyPeerReads
  <2>4. CASE ~(key[x][m.from] # Absent /\ Opens(Scan(key[x][m.from]), m.under))
    BY <1>1, <2>1, <2>4 DEF ProcessMsg, Frame, OnlyPeerReads
  <2> QED BY <2>3, <2>4
<1>2. ASSUME NEW x \in User, \E p \in User : E2eCommand(x, p) \/ SaveSecret(x) \/ OpenKey(x) \/ SaveKey(x) \/
                        RemovePending(x) \/ SendPacket(x) \/ TypeLine(x) \/ TimerInit(x) \/
                        TimerSaveSecret(x) \/ TimerAddress(x) \/ TimerSend(x) \/ ProcessInit(x) \/ SavePending(x) \/
                        ProcessAck(x) \/ SaveAckKey(x) \/ PrintPlain(x) \/ Relay(x) \/
                        Stop(x) \/ RemoveUser(x) \/ Start(x) \/ StartRefused(x)
      PROVE  OnlyPeerReads'
  <2>1. UNCHANGED shown
    BY <1>2 DEF E2eCommand, SaveSecret, OpenKey, SaveKey, RemovePending, SendPacket, TypeLine,
       TimerInit, TimerSaveSecret, TimerAddress, TimerSend, ProcessInit, SavePending, ProcessAck,
       SaveAckKey, PrintPlain, Relay, Stop, RemoveUser, Start, StartRefused
  <2> QED BY <2>1 DEF OnlyPeerReads
<1>3. CASE Hold \/ UNCHANGED vars
  BY <1>3 DEF Hold, OnlyPeerReads, vars
<1> QED BY <1>1, <1>2, <1>3 DEF Next, Main, Timer, Child, Server

LEMMA OriginsNext ==
    ASSUME TypeOK, Busy, Origins(made), [Next]_vars
    PROVE  Origins(made)'
<1>1. Origins(made')
  <2>1. CASE made' = made
    BY <2>1
  <2>2. ASSUME NEW x \in User, NEW p \in User, E2eCommand(x, p) PROVE Origins(made')
    <3>1. Scan(pending[x][p]) \in Secret \cup {Absent, Garbage}
      BY Values DEF TypeOK
    <3>2. PICK r \in [by : User, for : User, with : Secret \cup {Absent, Garbage}] : made' = Append(made, r)
      BY <2>2, <3>1 DEF E2eCommand, Generate
    <3> QED BY <3>2, OriginsGrow DEF TypeOK
  <2>3. ASSUME NEW x \in User, TimerInit(x) PROVE Origins(made')
    <3>1. peer[x] \in User
      BY <2>3 DEF TypeOK, TimerInit
    <3>2. PICK r \in [by : User, for : User, with : Secret \cup {Absent, Garbage}] : made' = Append(made, r)
      BY <2>3, <3>1 DEF TimerInit, Generate
    <3> QED BY <3>2, OriginsGrow DEF TypeOK
  <2>4. \/ made' = made
        \/ \E x, p \in User : E2eCommand(x, p)
        \/ \E x \in User : TimerInit(x)
    <3>1. ASSUME NEW x \in User, Main(x) \/ Timer(x) \/ TypeLine(x) PROVE made' = made
      BY <3>1, Zenon DEF Main, Timer, SaveSecret, OpenKey, SaveKey, RemovePending, SendPacket, TypeLine,
         TimerSaveSecret, TimerAddress, TimerSend
    <3>2. ASSUME NEW x \in User, Child(x) \/ Server(x) PROVE made' = made
      BY <3>2, Zenon DEF Child, Server, ProcessInit, SavePending, ProcessAck, SaveAckKey, ProcessMsg,
         PrintPlain, Relay, RemoveUser
    <3>3. ASSUME NEW x \in User, Stop(x) \/ Start(x) \/ StartRefused(x) PROVE made' = made
      BY <3>3, Zenon DEF Stop, Start, StartRefused
    <3>4. CASE Hold \/ UNCHANGED vars
      BY <3>4, Zenon DEF Hold, vars
    <3> QED BY <3>1, <3>2, <3>3, <3>4, Zenon DEF Next
  <2> QED BY <2>1, <2>2, <2>3, <2>4
<1>2. PICK md : md = made'
  OBVIOUS
<1>3. FilesFrom(md) /\ ThreadsFrom(md) /\ UpFrom(md) /\ DownFrom(md)
  BY <1>1, <1>2 DEF Origins
<1>4. FilesFrom(md)' /\ ThreadsFrom(md)' /\ UpFrom(md)' /\ DownFrom(md)'
  BY <1>2, <1>3, FilesOrigin, ThreadsOrigin, UpOrigin, DownOrigin
<1> QED BY <1>2, <1>4 DEF Origins, FilesFrom, ThreadsFrom, UpFrom, DownFrom

LEMMA InitInv == Init => IInv
<1> SUFFICES ASSUME Init PROVE IInv
  OBVIOUS
<1>1. Origins(made)
  <2>1. FilesFrom(made)
    BY Marks DEF Init, FilesFrom
  <2>2. ThreadsFrom(made)
    BY Marks DEF Init, Idle, ThreadsFrom
  <2>3. UpFrom(made) /\ DownFrom(made)
    BY DEF Init, UpFrom, DownFrom
  <2> QED BY <2>1, <2>2, <2>3 DEF Origins
<1>2. OnlyPeerReads
  BY DEF Init, OnlyPeerReads
<1> QED BY <1>1, <1>2, TypeInit DEF IInv

\* The invariant holds whatever users, threads and the server do.
THEOREM Invariant == Spec => []IInv
<1>1. IInv /\ [Next]_vars => IInv'
  <2> SUFFICES ASSUME IInv, [Next]_vars PROVE IInv'
    OBVIOUS
  <2>1. TypeOK /\ Busy /\ Origins(made) /\ OnlyPeerReads /\ FilesFrom(made) /\ DownFrom(made)
    BY DEF IInv, Origins
  <2>2. TypeOK' /\ Busy' /\ OnlyPeerReads'
    BY <2>1, TypeNext, BusyNext, OnlyPeerNext
  <2>3. Origins(made)'
    BY <2>1, OriginsNext
  <2> QED BY <2>2, <2>3 DEF IInv
<1> QED BY <1>1, InitInv, PTL DEF Spec

\* Files, threads and packets hold what they are for, torn reads included (e2e.c).
THEOREM TypesHold == Spec => []TypeOK
<1>1. IInv => TypeOK
  BY DEF IInv
<1> QED BY <1>1, Invariant, PTL

LEMMA KeyPartsOf == IInv => KeyParts
<1> SUFFICES ASSUME IInv, NEW x \in User, NEW p \in User, Proper(key[x][p])
             PROVE  {made[s].by : s \in key[x][p]} = {x, p}
  BY DEF KeyParts
<1>1. key[x][p] \in KeyOf /\ Garbage \notin key[x][p]
  BY DEF IInv, TypeOK, Proper
<1> QED BY <1>1 DEF IInv, Origins, FilesFrom, Joins

\* A key file of x about p is made from a secret of each of the two, whoever packets reached.
THEOREM KeysJoinTheTwo == Spec => []KeyParts
BY KeyPartsOf, Invariant, PTL

\* A text is printed by its addressee only, under the name of its author (e2e_decrypt).
THEOREM OnlyAddresseeReads == Spec => []OnlyPeerReads
<1>1. IInv => OnlyPeerReads
  BY DEF IInv
<1> QED BY <1>1, Invariant, PTL

\* Two users who generated one secret each have the same key, if each has one.
THEOREM OneExchangeAgrees == Spec => []FirstExchangeAgrees
<1>1. IInv => FirstExchangeAgrees
  <2> SUFFICES ASSUME IInv, NEW x \in User, NEW p \in User,
                      Proper(key[x][p]), Proper(key[p][x]),
                      Cardinality(MadeBy(x)) = 1, Cardinality(MadeBy(p)) = 1
               PROVE  key[x][p] = key[p][x]
    BY DEF FirstExchangeAgrees
  <2>1. /\ {made[s].by : s \in key[x][p]} = {x, p} /\ key[x][p] \subseteq DOMAIN made
        /\ {made[s].by : s \in key[p][x]} = {x, p} /\ key[p][x] \subseteq DOMAIN made
    <3>1. /\ key[x][p] \in KeyOf /\ Garbage \notin key[x][p]
          /\ key[p][x] \in KeyOf /\ Garbage \notin key[p][x]
      BY DEF IInv, TypeOK, Proper
    <3>2. Joins(made, x, p, key[x][p]) /\ Joins(made, p, x, key[p][x])
      BY DEF IInv, Origins, FilesFrom
    <3> QED BY <3>1, <3>2 DEF Joins
  <2>2. IsFiniteSet(MadeBy(x)) /\ IsFiniteSet(MadeBy(p))
    <3>1. /\ IsFiniteSet(1..Len(made))
          /\ MadeBy(x) \in SUBSET (1..Len(made)) /\ MadeBy(p) \in SUBSET (1..Len(made))
      <4>1. Len(made) \in Int /\ DOMAIN made = 1..Len(made)
        BY DEF IInv, TypeOK
      <4>2. IsFiniteSet(1..Len(made))
        BY <4>1, FS_Interval
      <4> QED BY <4>1, <4>2 DEF MadeBy
    <3>2. IsFiniteSet(MadeBy(x))
      BY <3>1, FS_Subset
    <3>3. IsFiniteSet(MadeBy(p))
      BY <3>1, FS_Subset
    <3> QED BY <3>2, <3>3
  <2>3. PICK s, t : MadeBy(x) = {s} /\ MadeBy(p) = {t}
    <3>1. \E s : MadeBy(x) = {s}
      BY <2>2, FS_Singleton
    <3>2. \E t : MadeBy(p) = {t}
      BY <2>2, FS_Singleton
    <3> QED BY <3>1, <3>2
  <2>4. s \in DOMAIN made /\ made[s].by = x /\ t \in DOMAIN made /\ made[t].by = p
    BY <2>3 DEF MadeBy
  <2>5. ASSUME NEW k, {made[e].by : e \in k} = {x, p}, k \subseteq DOMAIN made
        PROVE  k = {s, t}
    <3>1. \A e \in k : made[e].by = x \/ made[e].by = p
      BY <2>5
    <3>2. \A e \in k : e = s \/ e = t
      BY <2>3, <2>5, <3>1 DEF MadeBy
    <3>3. s \in k
      <4>1. PICK e \in k : made[e].by = x
        BY <2>5
      <4> QED BY <2>3, <2>5, <4>1 DEF MadeBy
    <3>4. t \in k
      <4>1. PICK e \in k : made[e].by = p
        BY <2>5
      <4> QED BY <2>3, <2>5, <4>1 DEF MadeBy
    <3> QED BY <3>2, <3>3, <3>4
  <2> QED BY <2>1, <2>5
<1> QED BY <1>1, Invariant, PTL

--------------------------------------------------------------------------------
(* The order of texts: those of one author that are printed come before those that wait for *)
(* the child, these before those that wait for the server, and these before the next one.   *)

Num(m) == m.line[2]
IsText(m) == m.kind = "msg"

\* n is below the numbers of all texts of x in the queues u to the server, and in the queue of
\* frames q.
UpAfter(u, x, n) == \A j \in DOMAIN u[x] : IsText(u[x][j]) => n < Num(u[x][j])
DownAfter(q, x, n) == \A j \in DOMAIN q : IsText(q[j]) /\ q[j].from = x => n < Num(q[j])

UpInOrder(u, l) == \A x \in User :
    /\ \A i \in DOMAIN u[x] : IsText(u[x][i]) => Num(u[x][i]) \in Nat /\ Num(u[x][i]) <= l[x]
    /\ \A i, j \in DOMAIN u[x] : i < j /\ IsText(u[x][i]) /\ IsText(u[x][j]) => Num(u[x][i]) < Num(u[x][j])
\* What is known of text n of x once it left the queue to the server.
Known(x, n, u, l) == n \in Nat /\ n <= l[x] /\ UpAfter(u, x, n)
DownInOrder(d, u, l) == \A y \in User :
    /\ \A i \in DOMAIN d[y] : IsText(d[y][i]) => Known(d[y][i].from, Num(d[y][i]), u, l)
    /\ \A i, j \in DOMAIN d[y] : i < j /\ IsText(d[y][i]) /\ IsText(d[y][j]) /\ d[y][i].from = d[y][j].from
         => Num(d[y][i]) < Num(d[y][j])
ShownInOrder(s, d, u, l) == \A y \in User :
    /\ \A i \in DOMAIN s[y] : Known(s[y][i].from, Num(s[y][i]), u, l) /\ DownAfter(d[y], s[y][i].from, Num(s[y][i]))
    /\ \A i, j \in DOMAIN s[y] : i < j /\ s[y][i].from = s[y][j].from => Num(s[y][i]) < Num(s[y][j])
\* What is known stays known; line m of x may take the next number; a queue
\* gets m at its end; the front of a queue is taken.
Keeps(u, l, u1, l1) == \A x \in User : \A n \in Nat : Known(x, n, u, l) => Known(x, n, u1, l1)
Counts(l, x, m, l1) == \/ ~IsText(m) /\ l1 = l
                       \/ Num(m) = l[x] + 1 /\ l1 = [l EXCEPT ![x] = l[x] + 1]
Adds(u, x, m, u1) == u1 = [u EXCEPT ![x] = Append(u[x], m)]
Takes(u, x, u1) == u[x] # <<>> /\ u1 = [u EXCEPT ![x] = Tail(u[x])]
InOrder(u, d, s, l) == UpInOrder(u, l) /\ DownInOrder(d, u, l) /\ ShownInOrder(s, d, u, l)

\* What is known of a text stays known when only the numbers grow and queues keep their order.
LEMMA StaysInOrder ==
    ASSUME NEW d \in [User -> Seq(DownPacket)], NEW s \in [User -> Seq(Printed)],
           NEW u \in [User -> Seq(UpPacket)], NEW l \in [User -> Nat],
           NEW u1 \in [User -> Seq(UpPacket)], NEW l1 \in [User -> Nat],
           DownInOrder(d, u, l), ShownInOrder(s, d, u, l),
           Keeps(u, l, u1, l1)
    PROVE  DownInOrder(d, u1, l1) /\ ShownInOrder(s, d, u1, l1)
<1>1. ASSUME NEW y \in User, NEW i \in DOMAIN d[y] PROVE d[y][i].from \in User
  <2>1. d[y][i] \in DownPacket
    OBVIOUS
  <2> QED BY <2>1 DEF DownPacket
<1>2. ASSUME NEW y \in User, NEW i \in DOMAIN s[y] PROVE s[y][i].from \in User
  <2>1. s[y][i] \in Printed
    OBVIOUS
  <2> QED BY <2>1 DEF Printed
<1>3. \A x \in User : \A n : Known(x, n, u, l) => Known(x, n, u1, l1)
  BY DEF Known, Keeps
<1> QED BY <1>1, <1>2, <1>3 DEF DownInOrder, ShownInOrder

\* A line is appended to those on their way to the server: a text takes the next number.
LEMMA SendOrder ==
    ASSUME NEW u \in [User -> Seq(UpPacket)], NEW d \in [User -> Seq(DownPacket)],
           NEW s \in [User -> Seq(Printed)], NEW l \in [User -> Nat], InOrder(u, d, s, l),
           NEW x \in User, NEW m \in UpPacket, NEW u1, Adds(u, x, m, u1),
           NEW l1, Counts(l, x, m, l1)
    PROVE  InOrder(u1, d, s, l1)
<1> DEFINE q == Append(u[x], m)
<1>1. /\ Len(u[x]) + 1 \in DOMAIN q /\ q[Len(u[x]) + 1] = m
      /\ \A i \in DOMAIN u[x] : i \in DOMAIN q /\ q[i] = u[x][i]
      /\ \A j \in DOMAIN q : j \in DOMAIN u[x] \/ j = Len(u[x]) + 1
      /\ \A j \in DOMAIN u[x] : j \in Nat /\ j <= Len(u[x])
      /\ Len(u[x]) \in Nat
  BY AppendElements
<1>2. u1[x] = q /\ \A z \in User : z # x => u1[z] = u[z] /\ l1[z] = l[z]
  BY DEF Counts, Adds
<1>3. /\ \A z \in User : l1[z] \in Nat /\ l[z] \in Nat /\ l[z] <= l1[z]
      /\ IsText(m) => Num(m) = l[x] + 1 /\ l1[x] = l[x] + 1
  BY DEF Counts
<1> HIDE DEF q
<1>4. UpInOrder(u1, l1)
  <2>1. /\ \A i \in DOMAIN q : IsText(q[i]) => Num(q[i]) \in Nat /\ Num(q[i]) <= l1[x]
        /\ \A i, j \in DOMAIN q : i < j /\ IsText(q[i]) /\ IsText(q[j]) => Num(q[i]) < Num(q[j])
    <3>1. /\ \A i \in DOMAIN u[x] : IsText(u[x][i]) => Num(u[x][i]) \in Nat /\ Num(u[x][i]) <= l[x]
          /\ \A i, j \in DOMAIN u[x] : i < j /\ IsText(u[x][i]) /\ IsText(u[x][j]) => Num(u[x][i]) < Num(u[x][j])
      BY DEF InOrder, UpInOrder
    <3>2. ASSUME NEW i \in DOMAIN q, IsText(q[i]) PROVE Num(q[i]) \in Nat /\ Num(q[i]) <= l1[x]
      <4>1. CASE i \in DOMAIN u[x]
        <5>1. q[i] = u[x][i]
          BY <1>1, <4>1
        <5>2. Num(q[i]) \in Nat /\ Num(q[i]) <= l[x]
          BY <3>1, <3>2, <4>1, <5>1
        <5> QED BY <1>3, <5>2
      <4>2. CASE i = Len(u[x]) + 1
        BY <1>1, <1>3, <3>2, <4>2
      <4> QED BY <1>1, <4>1, <4>2
    <3>0. ASSUME NEW i \in DOMAIN q, NEW j \in DOMAIN q, i < j PROVE i \in DOMAIN u[x] /\ q[i] = u[x][i]
      <4>1. j <= Len(u[x]) + 1 /\ Len(u[x]) \in Nat /\ j \in Nat
        BY <1>1
      <4>2. i # Len(u[x]) + 1
        BY <3>0, <4>1
      <4> QED BY <1>1, <4>2
    <3>3. ASSUME NEW i \in DOMAIN q, NEW j \in DOMAIN q, i < j, IsText(q[i]), IsText(q[j])
          PROVE  Num(q[i]) < Num(q[j])
      <4>1. i \in DOMAIN u[x] /\ q[i] = u[x][i]
        BY <3>0, <3>3
      <4>2. CASE j \in DOMAIN u[x]
        BY <1>1, <3>1, <3>3, <4>1, <4>2
      <4>3. CASE j = Len(u[x]) + 1
        BY <1>1, <1>3, <3>1, <3>3, <4>1, <4>3
      <4> QED BY <1>1, <4>2, <4>3
    <3> QED BY <3>2, <3>3
  <2> QED BY <1>2, <2>1 DEF InOrder, UpInOrder
<1>5. ASSUME NEW z \in User, NEW n \in Nat, Known(z, n, u, l) PROVE Known(z, n, u1, l1)
  <2>1. n <= l1[z]
    BY <1>3, <1>5 DEF Known
  <2>2. UpAfter(u1, z, n)
    <3>1. UpAfter(u, z, n) /\ n <= l[z]
      BY <1>5 DEF Known
    <3>2. CASE z = x
      <4>1. ASSUME NEW j \in DOMAIN q, IsText(q[j]) PROVE n < Num(q[j])
        <5>1. CASE j \in DOMAIN u[x]
          BY <1>1, <3>1, <3>2, <4>1, <5>1 DEF UpAfter
        <5>2. CASE j = Len(u[x]) + 1
          <6>1. Num(q[j]) = l[x] + 1
            BY <1>1, <1>3, <4>1, <5>2
          <6> QED BY <1>3, <3>1, <3>2, <6>1
        <5> QED BY <1>1, <5>1, <5>2
      <4> QED BY <1>2, <3>2, <4>1 DEF UpAfter
    <3>3. CASE z # x
      BY <1>2, <3>1, <3>3 DEF UpAfter
    <3> QED BY <3>2, <3>3
  <2> QED BY <1>5, <2>1, <2>2 DEF Known
<1>6. DownInOrder(d, u1, l1) /\ ShownInOrder(s, d, u1, l1)
  <2>1. DownInOrder(d, u, l) /\ ShownInOrder(s, d, u, l)
    BY DEF InOrder
  <2>2. u1 \in [User -> Seq(UpPacket)]
    BY AppendElements DEF Adds
  <2>3. l1 \in [User -> Nat]
    <3>1. l[x] + 1 \in Nat /\ (l1 = l \/ l1 = [l EXCEPT ![x] = l[x] + 1])
      BY DEF Counts
    <3> QED BY <3>1
  <2>4. Keeps(u, l, u1, l1)
    BY <1>5 DEF Keeps
  <2> QED BY <2>1, <2>2, <2>3, <2>4, StaysInOrder
<1> QED BY <1>4, <1>6 DEF InOrder

\* A line takes its number and is not sent.
LEMMA SkipOrder ==
    ASSUME NEW u \in [User -> Seq(UpPacket)], NEW d \in [User -> Seq(DownPacket)],
           NEW s \in [User -> Seq(Printed)], NEW l \in [User -> Nat], InOrder(u, d, s, l),
           NEW x \in User, NEW l1, l1 = [l EXCEPT ![x] = l[x] + 1]
    PROVE  InOrder(u, d, s, l1)
<1>1. l1 \in [User -> Nat] /\ \A z \in User : l[z] \in Nat /\ l[z] <= l1[z]
  <2>1. l[x] + 1 \in Nat /\ l[x] <= l[x] + 1
    OBVIOUS
  <2> QED BY <2>1
<1>2. UpInOrder(u, l1)
  BY <1>1 DEF InOrder, UpInOrder
<1>3. Keeps(u, l, u, l1)
  BY <1>1 DEF Keeps, Known
<1>4. DownInOrder(d, u, l1) /\ ShownInOrder(s, d, u, l1)
  <2>1. DownInOrder(d, u, l) /\ ShownInOrder(s, d, u, l)
    BY DEF InOrder
  <2>2. ASSUME NEW k \in [User -> Nat], Keeps(u, l, u, k)
        PROVE  DownInOrder(d, u, k) /\ ShownInOrder(s, d, u, k)
    BY <2>1, <2>2, StaysInOrder
  <2> QED BY <1>1, <1>3, <2>2
<1> QED BY <1>2, <1>4 DEF InOrder

\* Frames are lost at the front of a queue, or all of them.
LEMMA DropOrder ==
    ASSUME NEW u, NEW d \in [User -> Seq(DownPacket)], NEW s, NEW l, InOrder(u, d, s, l), NEW x \in User,
           NEW d1, \/ d[x] # <<>> /\ d1 = [d EXCEPT ![x] = Tail(d[x])]
                   \/ d1 = [d EXCEPT ![x] = <<>>]
    PROVE  InOrder(u, d1, s, l)
<1>1. \A y \in User : \E k \in {0, 1} : \A j \in DOMAIN d1[y] :
        j + k \in DOMAIN d[y] /\ d1[y][j] = d[y][j + k] /\ j \in Nat
  <2>1. CASE d[x] # <<>> /\ d1 = [d EXCEPT ![x] = Tail(d[x])]
    <3>1. \A j \in DOMAIN Tail(d[x]) : j + 1 \in DOMAIN d[x] /\ Tail(d[x])[j] = d[x][j + 1] /\ j \in Nat
      BY <2>1, TailProperties
    <3> QED BY <2>1, <3>1
  <2>2. CASE d1 = [d EXCEPT ![x] = <<>>]
    BY <2>2
  <2> QED BY <2>1, <2>2
<1>2. DownInOrder(d1, u, l)
  <2> SUFFICES ASSUME NEW y \in User
               PROVE  /\ \A i \in DOMAIN d1[y] : IsText(d1[y][i]) => Known(d1[y][i].from, Num(d1[y][i]), u, l)
                      /\ \A i, j \in DOMAIN d1[y] :
                           i < j /\ IsText(d1[y][i]) /\ IsText(d1[y][j]) /\ d1[y][i].from = d1[y][j].from
                             => Num(d1[y][i]) < Num(d1[y][j])
    BY DEF DownInOrder
  <2>1. PICK k \in {0, 1} : \A j \in DOMAIN d1[y] : j + k \in DOMAIN d[y] /\ d1[y][j] = d[y][j + k] /\ j \in Nat
    BY <1>1
  <2> QED BY <2>1 DEF InOrder, DownInOrder
<1>3. \A y \in User : \A z, n : DownAfter(d[y], z, n) => DownAfter(d1[y], z, n)
  BY <1>1 DEF DownAfter
<1>4. ShownInOrder(s, d1, u, l)
  BY <1>3 DEF InOrder, ShownInOrder
<1> QED BY <1>2, <1>4 DEF InOrder

\* The next line is taken from its queue.
LEMMA TakeOrder ==
    ASSUME NEW u \in [User -> Seq(UpPacket)], NEW d \in [User -> Seq(DownPacket)],
           NEW s \in [User -> Seq(Printed)], NEW l \in [User -> Nat], InOrder(u, d, s, l),
           NEW x \in User, NEW u1, Takes(u, x, u1)
    PROVE  /\ InOrder(u1, d, s, l)
           /\ IsText(u[x][1]) => /\ Num(u[x][1]) \in Nat /\ Num(u[x][1]) <= l[x]
                                 /\ UpAfter(u1, x, Num(u[x][1]))
           /\ \A n : UpAfter(u, x, n) /\ IsText(u[x][1]) => n < Num(u[x][1])
<1> DEFINE q == Tail(u[x])
<1>1. /\ 1 \in DOMAIN u[x]
      /\ \A j \in DOMAIN q : j + 1 \in DOMAIN u[x] /\ q[j] = u[x][j + 1] /\ j \in Nat /\ j > 0
  BY TailProperties DEF Takes
<1>2. u1[x] = q /\ \A z \in User : z # x => u1[z] = u[z]
  BY DEF Takes
<1> HIDE DEF q
<1>3. \A z \in User : \A n : UpAfter(u, z, n) => UpAfter(u1, z, n)
  BY <1>1, <1>2 DEF UpAfter
<1>4. UpInOrder(u1, l)
  <2>1. /\ \A i \in DOMAIN q : IsText(q[i]) => Num(q[i]) \in Nat /\ Num(q[i]) <= l[x]
        /\ \A i, j \in DOMAIN q : i < j /\ IsText(q[i]) /\ IsText(q[j]) => Num(q[i]) < Num(q[j])
    BY <1>1 DEF InOrder, UpInOrder
  <2> QED BY <1>2, <2>1 DEF InOrder, UpInOrder
<1>5. \A z \in User : \A n \in Nat : Known(z, n, u, l) => Known(z, n, u1, l)
  BY <1>3 DEF Known
<1>6. IsText(u[x][1]) => UpAfter(u1, x, Num(u[x][1]))
  BY <1>1, <1>2 DEF InOrder, UpInOrder, UpAfter
<1>7. DownInOrder(d, u1, l) /\ ShownInOrder(s, d, u1, l)
  <2>1. DownInOrder(d, u, l) /\ ShownInOrder(s, d, u, l)
    BY DEF InOrder
  <2>2. u1 \in [User -> Seq(UpPacket)]
    BY TailProperties DEF Takes
  <2>3. Keeps(u, l, u1, l)
    BY <1>5 DEF Keeps
  <2> QED BY <2>1, <2>2, <2>3, StaysInOrder
<1>8. IsText(u[x][1]) => Num(u[x][1]) \in Nat /\ Num(u[x][1]) <= l[x]
  BY <1>1 DEF InOrder, UpInOrder
<1>9. \A n : UpAfter(u, x, n) /\ IsText(u[x][1]) => n < Num(u[x][1])
  BY <1>1 DEF UpAfter
<1> QED BY <1>4, <1>6, <1>7, <1>8, <1>9 DEF InOrder

\* It is appended to the frames for a user, whose texts of the same author come before it.
LEMMA ForwardOrder ==
    ASSUME NEW u, NEW d \in [User -> Seq(DownPacket)], NEW s \in [User -> Seq(Printed)], NEW l,
           InOrder(u, d, s, l), NEW f \in DownPacket, NEW t \in User,
           IsText(f) => /\ Known(f.from, Num(f), u, l)
                        /\ \A i \in DOMAIN d[t] : IsText(d[t][i]) /\ d[t][i].from = f.from => Num(d[t][i]) < Num(f)
                        /\ \A i \in DOMAIN s[t] : s[t][i].from = f.from => Num(s[t][i]) < Num(f),
           NEW d1, d1 = [d EXCEPT ![t] = Append(d[t], f)]
    PROVE  InOrder(u, d1, s, l)
<1> DEFINE q == Append(d[t], f)
<1>1. /\ Len(d[t]) + 1 \in DOMAIN q /\ q[Len(d[t]) + 1] = f
      /\ \A i \in DOMAIN d[t] : i \in DOMAIN q /\ q[i] = d[t][i]
      /\ \A j \in DOMAIN q : j \in DOMAIN d[t] \/ j = Len(d[t]) + 1
      /\ \A j \in DOMAIN d[t] : j \in Nat /\ j <= Len(d[t])
      /\ Len(d[t]) \in Nat
  BY AppendElements
<1>2. d1[t] = q /\ \A y \in User : y # t => d1[y] = d[y]
  OBVIOUS
<1> HIDE DEF q
<1>3. DownInOrder(d1, u, l)
  <2>1. /\ \A i \in DOMAIN q : IsText(q[i]) => Known(q[i].from, Num(q[i]), u, l)
        /\ \A i, j \in DOMAIN q : i < j /\ IsText(q[i]) /\ IsText(q[j]) /\ q[i].from = q[j].from
             => Num(q[i]) < Num(q[j])
    <3>1. /\ \A i \in DOMAIN d[t] : IsText(d[t][i]) => Known(d[t][i].from, Num(d[t][i]), u, l)
          /\ \A i, j \in DOMAIN d[t] : i < j /\ IsText(d[t][i]) /\ IsText(d[t][j]) /\ d[t][i].from = d[t][j].from
               => Num(d[t][i]) < Num(d[t][j])
      BY DEF InOrder, DownInOrder
    <3>2. ASSUME NEW i \in DOMAIN q, IsText(q[i]) PROVE Known(q[i].from, Num(q[i]), u, l)
      <4>1. CASE i \in DOMAIN d[t]
        BY <1>1, <3>1, <3>2, <4>1
      <4>2. CASE i = Len(d[t]) + 1
        BY <1>1, <3>2, <4>2
      <4> QED BY <1>1, <4>1, <4>2
    <3>0. ASSUME NEW i \in DOMAIN q, NEW j \in DOMAIN q, i < j PROVE i \in DOMAIN d[t] /\ q[i] = d[t][i]
      <4>1. j <= Len(d[t]) + 1 /\ Len(d[t]) \in Nat /\ j \in Nat
        BY <1>1
      <4>2. i # Len(d[t]) + 1
        BY <3>0, <4>1
      <4> QED BY <1>1, <4>2
    <3>3. ASSUME NEW i \in DOMAIN q, NEW j \in DOMAIN q, i < j, IsText(q[i]), IsText(q[j]), q[i].from = q[j].from
          PROVE  Num(q[i]) < Num(q[j])
      <4>1. i \in DOMAIN d[t] /\ q[i] = d[t][i]
        BY <3>0, <3>3
      <4>2. CASE j \in DOMAIN d[t]
        BY <1>1, <3>1, <3>3, <4>1, <4>2
      <4>3. CASE j = Len(d[t]) + 1
        BY <1>1, <3>3, <4>1, <4>3
      <4> QED BY <1>1, <4>2, <4>3
    <3> QED BY <3>2, <3>3
  <2> QED BY <1>2, <2>1 DEF InOrder, DownInOrder
<1>4. ShownInOrder(s, d1, u, l)
  <2>1. \A i \in DOMAIN s[t] : DownAfter(q, s[t][i].from, Num(s[t][i]))
    BY <1>1 DEF InOrder, ShownInOrder, DownAfter
  <2> QED BY <1>2, <2>1 DEF InOrder, ShownInOrder
<1> QED BY <1>3, <1>4 DEF InOrder

\* A text is printed: it comes after those that were.
LEMMA PrintOrder ==
    ASSUME NEW u, NEW d \in [User -> Seq(DownPacket)], NEW s \in [User -> Seq(Printed)], NEW l,
           InOrder(u, d, s, l), NEW x \in User, d[x] # <<>>, IsText(d[x][1]),
           NEW d1, d1 = [d EXCEPT ![x] = Tail(d[x])], NEW e \in Printed, e.from = d[x][1].from, e.line = d[x][1].line,
           NEW s1, s1 = [s EXCEPT ![x] = Append(s[x], e)]
    PROVE  InOrder(u, d1, s1, l)
<1>1. InOrder(u, d1, s, l)
  BY DropOrder
<1> DEFINE q == Append(s[x], e)
<1>2. /\ 1 \in DOMAIN d[x]
      /\ \A j \in DOMAIN Tail(d[x]) : j + 1 \in DOMAIN d[x] /\ Tail(d[x])[j] = d[x][j + 1] /\ j \in Nat /\ j > 0
  BY TailProperties
<1>3. /\ Len(s[x]) + 1 \in DOMAIN q /\ q[Len(s[x]) + 1] = e
      /\ \A i \in DOMAIN s[x] : i \in DOMAIN q /\ q[i] = s[x][i]
      /\ \A j \in DOMAIN q : j \in DOMAIN s[x] \/ j = Len(s[x]) + 1
      /\ \A j \in DOMAIN s[x] : j \in Nat /\ j <= Len(s[x])
      /\ Len(s[x]) \in Nat
  BY AppendElements
<1>4. /\ s1[x] = q /\ \A y \in User : y # x => s1[y] = s[y]
      /\ d1[x] = Tail(d[x])
  OBVIOUS
<1> HIDE DEF q
<1>5. Num(e) = Num(d[x][1])
  BY DEF Num
<1>6. Known(e.from, Num(e), u, l) /\ DownAfter(Tail(d[x]), e.from, Num(e))
  BY <1>2, <1>5 DEF InOrder, DownInOrder, Known, DownAfter
<1>7. \A i \in DOMAIN s[x] : s[x][i].from = e.from => Num(s[x][i]) < Num(e)
  BY <1>2, <1>5 DEF InOrder, ShownInOrder, DownAfter
<1>8. /\ \A i \in DOMAIN q : Known(q[i].from, Num(q[i]), u, l) /\ DownAfter(d1[x], q[i].from, Num(q[i]))
      /\ \A i, j \in DOMAIN q : i < j /\ q[i].from = q[j].from => Num(q[i]) < Num(q[j])
  <2>1. /\ \A i \in DOMAIN s[x] : Known(s[x][i].from, Num(s[x][i]), u, l) /\ DownAfter(d1[x], s[x][i].from, Num(s[x][i]))
        /\ \A i, j \in DOMAIN s[x] : i < j /\ s[x][i].from = s[x][j].from => Num(s[x][i]) < Num(s[x][j])
    BY <1>1 DEF InOrder, ShownInOrder
  <2>2. \A i \in DOMAIN q : Known(q[i].from, Num(q[i]), u, l) /\ DownAfter(d1[x], q[i].from, Num(q[i]))
    BY <1>3, <1>4, <1>6, <2>1
  <2>3. ASSUME NEW i \in DOMAIN q, NEW j \in DOMAIN q, i < j, q[i].from = q[j].from
        PROVE  Num(q[i]) < Num(q[j])
    <3>1. i \in DOMAIN s[x] /\ q[i] = s[x][i]
      BY <1>3, <2>3
    <3>2. CASE j \in DOMAIN s[x]
      BY <1>3, <2>1, <2>3, <3>1, <3>2
    <3>3. CASE j = Len(s[x]) + 1
      BY <1>3, <1>7, <2>3, <3>1, <3>3
    <3> QED BY <1>3, <3>2, <3>3
  <2> QED BY <2>2, <2>3
<1>9. ShownInOrder(s1, d1, u, l)
  BY <1>1, <1>4, <1>8 DEF InOrder, ShownInOrder
<1> QED BY <1>1, <1>9 DEF InOrder

\* The state of the four variables.
Now == InOrder(up, down, shown, lines)

LEMMA OrderNext ==
    ASSUME IInv, Now, [Next]_vars
    PROVE  Now'
<1>1. /\ TypeOK /\ Busy /\ up \in [User -> Seq(UpPacket)] /\ down \in [User -> Seq(DownPacket)]
      /\ shown \in [User -> Seq(Printed)] /\ lines \in [User -> Nat]
  BY TypeParts DEF IInv, NetTypes, CountTypes
<1>2. ASSUME NEW x \in User, SendPacket(x) PROVE Now'
  <2> DEFINE m == Packet(main[x].to, IF main[x].other = Absent THEN "init" ELSE "ack", main[x].mine, Absent, <<>>)
  <2>1. main[x].to \in User \cup {Nobody} /\ main[x].mine \in Secret
    BY <1>1, <1>2 DEF TypeOK, Doing, SendPacket, Busy, MainBusy
  <2>2. m \in UpPacket /\ ~IsText(m)
    BY <2>1 DEF IsText, Packet, UpPacket, Kinds, Line
  <2>3. /\ up' = up \/ up' = [up EXCEPT ![x] = Append(up[x], m)]
        /\ UNCHANGED <<down, shown, lines>>
    BY <1>1, <1>2, Sends DEF SendPacket, bounds
  <2> HIDE DEF m
  <2>4. CASE up' = up
    BY <2>3, <2>4 DEF Now
  <2>5. CASE up' = [up EXCEPT ![x] = Append(up[x], m)]
    BY <1>1, <2>2, <2>3, <2>5, SendOrder DEF Now, Counts, Adds
  <2> QED BY <2>3, <2>4, <2>5
<1>3. ASSUME NEW x \in User, TimerSend(x) PROVE Now'
  <2> DEFINE m == Packet(timer[x].to, "init", timer[x].mine, Absent, <<>>)
  <2>1. timer[x].to \in User \cup {Nobody} /\ timer[x].mine \in Secret
    BY <1>1, <1>3 DEF TypeOK, Doing, TimerSend, Busy, TimerBusy
  <2>2. m \in UpPacket /\ ~IsText(m)
    BY <2>1 DEF IsText, Packet, UpPacket, Kinds, Line
  <2>3. /\ up' = up \/ up' = [up EXCEPT ![x] = Append(up[x], m)]
        /\ UNCHANGED <<down, shown, lines>>
    BY <1>1, <1>3, Sends DEF TimerSend, bounds
  <2> HIDE DEF m
  <2>4. CASE up' = up
    BY <2>3, <2>4 DEF Now
  <2>5. CASE up' = [up EXCEPT ![x] = Append(up[x], m)]
    BY <1>1, <2>2, <2>3, <2>5, SendOrder DEF Now, Counts, Adds
  <2> QED BY <2>3, <2>4, <2>5
<1>4. ASSUME NEW x \in User, TypeLine(x) PROVE Now'
  <2> DEFINE l == <<x, lines[x] + 1, peer[x]>>
  <2>1. peer[x] \in User \cup {Nobody} /\ lines[x] + 1 \in Nat /\ l \in Line /\ l[2] = lines[x] + 1
    BY <1>1 DEF TypeOK, Line
  <2>2. PICK m \in UpPacket : /\ up' = up \/ up' = [up EXCEPT ![x] = Append(up[x], m)]
                              /\ Num(m) = lines[x] + 1
    <3>1. CASE peer[x] # Nobody /\ key[x][peer[x]] # Absent
      <4>1. Scan(key[x][peer[x]]) \in KeyOf \cup {Absent, Garbage}
        BY <1>1, <2>1, <3>1, Values DEF TypeOK
      <4>2. /\ Packet(peer[x], "msg", Absent, Scan(key[x][peer[x]]), l) \in UpPacket
            /\ Num(Packet(peer[x], "msg", Absent, Scan(key[x][peer[x]]), l)) = lines[x] + 1
        BY <2>1, <3>1, <4>1 DEF Packet, UpPacket, Kinds, Num
      <4> QED BY <1>1, <1>4, <3>1, <4>2, Sends DEF TypeLine
    <3>2. CASE ~(peer[x] # Nobody /\ key[x][peer[x]] # Absent)
      <4>1. /\ Packet(Nobody, "plain", Absent, Absent, l) \in UpPacket
            /\ Num(Packet(Nobody, "plain", Absent, Absent, l)) = lines[x] + 1
        BY <2>1 DEF Packet, UpPacket, Kinds, Num
      <4> QED BY <1>1, <1>4, <3>2, <4>1, Sends DEF TypeLine, Break
    <3> QED BY <3>1, <3>2
  <2>3. lines' = [lines EXCEPT ![x] = lines[x] + 1] /\ UNCHANGED <<down, shown>>
    BY <1>4 DEF TypeLine
  <2>4. CASE up' = up
    BY <1>1, <2>3, <2>4, SkipOrder DEF Now
  <2>5. CASE up' = [up EXCEPT ![x] = Append(up[x], m)]
    BY <1>1, <2>2, <2>3, <2>5, SendOrder DEF Now, Counts, Adds
  <2> QED BY <2>2, <2>4, <2>5
<1>5. ASSUME NEW x \in User, ProcessInit(x) \/ ProcessAck(x) \/ PrintPlain(x) PROVE Now'
  <2>1. /\ UNCHANGED <<up, shown, lines>> /\ down[x] # <<>>
        /\ down' = [down EXCEPT ![x] = Tail(down[x])]
    BY <1>5 DEF ProcessInit, ProcessAck, PrintPlain, Received, NextFrame, bounds
  <2> QED BY <1>1, <2>1, DropOrder DEF Now
<1>6. ASSUME NEW x \in User, Stop(x) PROVE Now'
  <2>1. UNCHANGED <<up, shown, lines>> /\ down' = [down EXCEPT ![x] = <<>>]
    BY <1>6 DEF Stop
  <2> QED BY <1>1, <2>1, DropOrder DEF Now
<1>7. ASSUME NEW x \in User, ProcessMsg(x) PROVE Now'
  <2>1. PICK m \in DownPacket : m = Head(down[x])
    BY <1>1, <1>7, HeadTypes DEF ProcessMsg, Received
  <2>2. /\ UNCHANGED <<up, lines>> /\ down[x] # <<>> /\ m.kind = "msg"
        /\ down' = [down EXCEPT ![x] = Tail(down[x])]
        /\ \/ shown' = shown
           \/ shown' = [shown EXCEPT ![x] = Append(shown[x], [from |-> m.from, line |-> m.line])]
    BY <1>7, <2>1 DEF ProcessMsg, Received, Frame, NextFrame, bounds
  <2>3. CASE shown' = shown
    BY <1>1, <2>2, <2>3, DropOrder DEF Now
  <2>4. CASE shown' # shown
    <3> DEFINE e == [from |-> m.from, line |-> m.line]
    <3>1. e \in Printed /\ e.from = m.from /\ e.line = m.line
      BY DEF DownPacket, Printed
    <3>2. shown' = [shown EXCEPT ![x] = Append(shown[x], e)]
      BY <2>2, <2>4
    <3>3. m = down[x][1] /\ IsText(m)
      BY <1>1, <2>1, <2>2 DEF IsText
    <3> HIDE DEF e
    <3> QED BY <1>1, <2>2, <3>1, <3>2, <3>3, PrintOrder DEF Now
  <2> QED BY <2>3, <2>4
<1>8. ASSUME NEW x \in User, Relay(x) PROVE Now'
  <2>1. PICK m \in UpPacket : m = Head(up[x]) /\ up[x] # <<>>
    BY <1>1, <1>8, HeadTypes DEF Relay
  <2> DEFINE frame == [from |-> x, kind |-> m.kind, share |-> m.share, under |-> m.under, line |-> m.line]
  <2>2. frame \in DownPacket /\ frame.kind = m.kind /\ frame.line = m.line /\ frame.from = x
    BY DEF UpPacket, DownPacket
  <2>3. m.to \in User \cup {Nobody} /\ talk[x] \in User \cup {Nobody}
    BY <1>1 DEF UpPacket, TypeOK
  <2>4. down' = down \/ \E t \in User : down' = [down EXCEPT ![t] = Append(down[t], frame)]
    BY <1>8, <2>1, <2>3 DEF Relay, Deliver
  <2>5. up' = [up EXCEPT ![x] = Tail(up[x])] /\ UNCHANGED <<shown, lines>>
    BY <1>8 DEF Relay, bounds
  <2> HIDE DEF frame
  <2>6. m = up[x][1] /\ Num(frame) = Num(m) /\ (IsText(frame) <=> IsText(m))
    BY <1>1, <2>1, <2>2 DEF Num, IsText
  <2>7. /\ InOrder(up', down, shown, lines)
        /\ IsText(m) => Num(m) \in Nat /\ Num(m) <= lines[x] /\ UpAfter(up', x, Num(m))
        /\ \A n : UpAfter(up, x, n) /\ IsText(m) => n < Num(m)
    <3>1. PICK u1 : u1 = up'
      OBVIOUS
    <3>2. /\ InOrder(u1, down, shown, lines)
          /\ IsText(up[x][1]) => /\ Num(up[x][1]) \in Nat /\ Num(up[x][1]) <= lines[x]
                                 /\ UpAfter(u1, x, Num(up[x][1]))
          /\ \A n : UpAfter(up, x, n) /\ IsText(up[x][1]) => n < Num(up[x][1])
      <4>1. InOrder(up, down, shown, lines) /\ Takes(up, x, u1)
        BY <2>1, <2>5, <3>1 DEF Now, Takes
      <4> QED BY <1>1, <4>1, TakeOrder
    <3> QED BY <2>6, <3>1, <3>2
  <2>8. IsText(frame) => Known(x, Num(frame), up', lines)
    BY <2>2, <2>6, <2>7 DEF Known
  <2>9. ASSUME IsText(frame), NEW t \in User
        PROVE  /\ \A i \in DOMAIN down[t] : IsText(down[t][i]) /\ down[t][i].from = frame.from
                     => Num(down[t][i]) < Num(frame)
               /\ \A i \in DOMAIN shown[t] : shown[t][i].from = frame.from => Num(shown[t][i]) < Num(frame)
    <3>1. /\ \A i \in DOMAIN down[t] : IsText(down[t][i]) => UpAfter(up, down[t][i].from, Num(down[t][i]))
          /\ \A i \in DOMAIN shown[t] : UpAfter(up, shown[t][i].from, Num(shown[t][i]))
      BY DEF Now, InOrder, DownInOrder, ShownInOrder, Known
    <3> QED BY <2>2, <2>6, <2>7, <2>9, <3>1
  <2>10. CASE down' = down
    BY <2>5, <2>7, <2>10 DEF Now
  <2>11. ASSUME NEW t \in User, down' = [down EXCEPT ![t] = Append(down[t], frame)] PROVE Now'
    BY <1>1, <2>2, <2>5, <2>7, <2>8, <2>9, <2>11, ForwardOrder DEF Now
  <2> QED BY <2>4, <2>10, <2>11
<1>9. ASSUME NEW x \in User, \E p \in User : E2eCommand(x, p) \/ SaveSecret(x) \/ OpenKey(x) \/ SaveKey(x) \/
                        RemovePending(x) \/ TimerInit(x) \/ TimerSaveSecret(x) \/ TimerAddress(x) \/ SavePending(x) \/
                        SaveAckKey(x) \/ RemoveUser(x) \/ Start(x) \/ StartRefused(x)
      PROVE  Now'
  <2>1. UNCHANGED <<up, down, shown, lines>>
    BY <1>9 DEF net, bounds, E2eCommand, SaveSecret, OpenKey, SaveKey, RemovePending, TimerInit,
           TimerSaveSecret, TimerAddress, SavePending, SaveAckKey, RemoveUser, Start, StartRefused
  <2> QED BY <2>1 DEF Now
<1>10. CASE Hold \/ UNCHANGED vars
  BY <1>10 DEF Hold, vars, net, bounds, Now
<1> QED BY <1>2, <1>3, <1>4, <1>5, <1>6, <1>7, <1>8, <1>9, <1>10 DEF Next, Main, Timer, Child, Server

\* The texts of one author are printed at most once and in the order they were typed, over
\* restarts of either client and whoever the server forwards them to (e2e_decrypt).
THEOREM TextsAreInOrder == Spec => []TextsInOrder
<1>1. Init => Now
  BY DEF Init, Now, InOrder, UpInOrder, DownInOrder, ShownInOrder
<1>2. IInv /\ Now /\ [Next]_vars => Now'
  BY OrderNext
<1>3. Now => TextsInOrder
  BY DEF Now, InOrder, ShownInOrder, TextsInOrder, Num
<1> QED BY <1>1, <1>2, <1>3, Invariant, PTL DEF Spec

=================================================================================
