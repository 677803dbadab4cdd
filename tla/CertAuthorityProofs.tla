-------------------------- MODULE CertAuthorityProofs --------------------------
(***************************************************************************)
(* For any runs, names and bounds: the table of the CA agrees with its     *)
(* files, a reported departure is carried out, and the certificate of a    *)
(* run that is alone under its name is kept.                               *)
(***************************************************************************)
EXTENDS CertAuthority, SequenceLemmas, TLAPS

Entries == [name : Name, cert : Certs]
Conns   == [kind : {"csr", "root", "delete", "server"}, from : Run \cup {Server}, name : Name]

--------------------------------------------------------------------------------
(* The table *)

\* find_user_certificate finds the name if it is there.
LEMMA FindEntryProperties ==
    ASSUME table \in Seq(Entries), NEW n \in Name
    PROVE  /\ FindEntry(n) # 0 => FindEntry(n) \in DOMAIN table /\ table[FindEntry(n)].name = n
           /\ FindEntry(n) = 0 => \A i \in DOMAIN table : table[i].name # n
<1>1. DOMAIN table = 1..Len(table) /\ Len(table) \in Nat
  BY LenProperties
<1>2. CASE \E i \in DOMAIN table : table[i].name = n
  <2>1. FindEntry(n) = CHOOSE i \in DOMAIN table : table[i].name = n
    BY <1>2 DEF FindEntry
  <2>2. FindEntry(n) \in DOMAIN table /\ table[FindEntry(n)].name = n
    BY <1>2, <2>1
  <2> QED BY <2>2, <1>1
<1>3. CASE ~ \E i \in DOMAIN table : table[i].name = n
  BY <1>3 DEF FindEntry
<1> QED BY <1>2, <1>3

\* The names of a table are distinct.
Distinct(t) == \A i, j \in DOMAIN t : t[i].name = t[j].name => i = j

\* t is the table without the entry of n, if there is one, and otherwise the same.
Without(t, n) ==
    /\ t \in Seq(Entries) /\ Distinct(t)
    /\ \A j \in DOMAIN t : \E i \in DOMAIN table : t[j] = table[i] /\ table[i].name # n
    /\ \A i \in DOMAIN table : table[i].name # n => \E j \in DOMAIN t : t[j] = table[i]

\* delete_user_certificate takes out that entry, and touches no other file.
LEMMA DeleteProperties ==
    ASSUME table \in Seq(Entries), Distinct(table), files \in [Name -> Certs \cup {None}],
           NEW n \in Name, Delete(n)
    PROVE  /\ Without(table', n)
           /\ files' \in [Name -> Certs \cup {None}]
           /\ \A m \in Name \ {n} : files'[m] = files[m]
<1> DEFINE k == FindEntry(n)
<1>1. DOMAIN table = 1..Len(table) /\ Len(table) \in Nat
  BY LenProperties
<1>2. CASE k = 0
  <2>1. table' = table /\ files' = files
    BY <1>2 DEF Delete
  <2>2. \A i \in DOMAIN table : table[i].name # n
    BY <1>2, FindEntryProperties
  <2> QED BY <2>1, <2>2 DEF Without, Distinct
<1>3. CASE k # 0
  <2>1. k \in 1..Len(table) /\ table[k].name = n
    BY <1>1, <1>3, FindEntryProperties
  <2>2. table' = RemoveAt(table, k) /\ files' = [files EXCEPT ![n] = None]
    BY <1>3 DEF Delete
  <2> HIDE DEF k
  <2>3. /\ table' \in Seq(Entries) /\ Len(table') = Len(table) - 1
        /\ \A j \in 1..(Len(table) - 1) : table'[j] = IF j < k THEN table[j] ELSE table[j + 1]
    BY <2>1, <2>2, RemoveAtProperties
  <2>4. DOMAIN table' = 1..(Len(table) - 1)
    BY <2>3, LenProperties
  <2> DEFINE from(j) == IF j < k THEN j ELSE j + 1
  <2>5. \A j \in DOMAIN table' : /\ from(j) \in DOMAIN table /\ table'[j] = table[from(j)]
                                 /\ from(j) # k
    BY <1>1, <2>1, <2>3, <2>4
  <2>6. \A i \in DOMAIN table : i # k => \E j \in DOMAIN table' : table'[j] = table[i]
    <3> SUFFICES ASSUME NEW i \in DOMAIN table, i # k
                 PROVE  \E j \in DOMAIN table' : table'[j] = table[i]
      OBVIOUS
    <3>1. CASE i < k
      BY <3>1, <1>1, <2>1, <2>3, <2>4
    <3>2. CASE i > k
      <4>1. i - 1 \in DOMAIN table' /\ ~(i - 1 < k) /\ (i - 1) + 1 = i
        BY <3>2, <1>1, <2>1, <2>4
      <4> QED BY <4>1, <2>3, <2>4
    <3> QED BY <3>1, <3>2, <1>1, <2>1
  <2>7. \A i, j \in DOMAIN table' : from(i) = from(j) => i = j
    BY <2>4, <2>1, <1>1
  <2>8. Distinct(table')
    <3> HIDE DEF from
    <3> QED BY <2>5, <2>7 DEF Distinct
  <2>9. \A i \in DOMAIN table : i # k <=> table[i].name # n
    BY <2>1, <1>1 DEF Distinct
  <2> HIDE DEF from
  <2> QED BY <2>2, <2>3, <2>5, <2>6, <2>8, <2>9 DEF Without
<1> QED BY <1>2, <1>3

\* Storing a certificate leaves one entry of that name, which holds it, and the others.
LEMMA StoreProperties ==
    ASSUME table \in Seq(Entries), Distinct(table), NEW n \in Name, NEW c \in Certs
    PROVE  LET t == Store(n, c)
               e == [name |-> n, cert |-> c]
           IN  /\ t \in Seq(Entries) /\ Distinct(t)
               /\ \A j \in DOMAIN t : t[j] = e \/ \E i \in DOMAIN table : t[j] = table[i] /\ table[i].name # n
               /\ \A i \in DOMAIN table : table[i].name # n => \E j \in DOMAIN t : t[j] = table[i]
               /\ \E j \in DOMAIN t : t[j] = e
<1> DEFINE k == FindEntry(n)
           t == Store(n, c)
           e == [name |-> n, cert |-> c]
<1>1. DOMAIN table = 1..Len(table) /\ Len(table) \in Nat
  BY LenProperties
<1>2. e \in Entries /\ e.name = n
  BY DEF Entries
<1>3. CASE k = 0
  <2>1. t = Append(table, e)
    BY <1>3 DEF Store
  <2>2. \A i \in DOMAIN table : table[i].name # n
    BY <1>3, FindEntryProperties
  <2> HIDE DEF e, t
  <2>3. /\ t \in Seq(Entries)
        /\ Len(table) + 1 \in DOMAIN t /\ t[Len(table) + 1] = e
        /\ \A i \in DOMAIN table : i \in DOMAIN t /\ t[i] = table[i]
        /\ \A j \in DOMAIN t : j \in DOMAIN table \/ j = Len(table) + 1
    BY <2>1, <1>2, AppendElements
  <2>4. Distinct(t)
    BY <2>2, <2>3, <1>2 DEF Distinct
  <2> QED BY <2>2, <2>3, <2>4 DEF e, t
<1>4. CASE k # 0
  <2>1. k \in DOMAIN table /\ table[k].name = n
    BY <1>4, FindEntryProperties
  <2>2. t = [table EXCEPT ![k].cert = c]
    BY <1>4 DEF Store
  <2>3. table[k] \in Entries
    BY <2>1, <1>1, ElementOfSeq
  <2>4. [table[k] EXCEPT !.cert = c] = e
    BY <2>1, <2>3 DEF Entries
  <2> HIDE DEF e, t, k
  <2>5. t = [table EXCEPT ![k] = e]
    BY <2>2, <2>4
  <2>6. t \in Seq(Entries) /\ DOMAIN t = DOMAIN table
    BY <2>1, <2>5, <1>1, <1>2, ExceptSeq
  <2>7. \A j \in DOMAIN table : t[j] = IF j = k THEN e ELSE table[j]
    BY <2>5
  <2>8. \A j \in DOMAIN table : t[j].name = table[j].name
    BY <2>7, <2>1, <1>2
  <2>9. Distinct(t)
    BY <2>6, <2>8 DEF Distinct
  <2>10. \A j \in DOMAIN table : j # k => table[j].name # n
    BY <2>1 DEF Distinct
  <2> QED BY <2>1, <2>6, <2>7, <2>9, <2>10 DEF e, t
<1> QED BY <1>3, <1>4

--------------------------------------------------------------------------------
(* Types *)

USE RunAssumption, NameAssumption, BoundAssumption

LEMMA CertType ==
    ASSUME TypeOK, NEW n \in Name, NEW h \in Run \cup {Server}
    PROVE  Cert(n, h) \in Certs
BY DEF Cert, Certs, TypeOK

LEMMA StoredNames ==
    ASSUME NEW n \in Name
    PROVE  StoredAs(n) \subseteq Name /\ (n \notin Nameless => StoredAs(n) = {Cut[n]})
BY DEF StoredAs

\* The server has one name, and so has a user whose name it accepts.
LEMMA ProperNames ==
    /\ StoredAs(ServerName) = {ServerName}
    /\ \A n \in Name : Proper(n) => StoredAs(n) = {n}
BY DEF StoredAs, Proper

LEMMA ConnType ==
    ASSUME NEW k \in {"csr", "root", "delete", "server"}, NEW h \in Run \cup {Server}, NEW n \in Name
    PROVE  Conn(k, h, n) \in Conns
BY DEF Conn, Conns


\* Signing keeps the types of the table, the files and the queue.
LEMMA SignType ==
    ASSUME TypeOK, TableBacked, NEW h \in Run \cup {Server}, NEW n \in Name, NEW m \in Name,
           Sign(h, n, m), queue # <<>>
    PROVE  /\ caUp' \in BOOLEAN /\ epoch' = epoch
           /\ table' \in Seq(Entries) /\ files' \in [Name -> Certs \cup {None}]
           /\ queue' \in Seq(Conns)
<1>1. /\ table \in Seq(Entries) /\ Distinct(table) /\ queue \in Seq(Conns)
      /\ Cert(n, h) \in Certs /\ files \in [Name -> Certs \cup {None}] /\ caUp \in BOOLEAN
  BY CertType DEF TypeOK, TableBacked, Distinct, Entries, Conns
<1>2. Store(m, Cert(n, h)) \in Seq(Entries) /\ Tail(queue) \in Seq(Conns)
  BY <1>1, StoreProperties, TailProperties
<1>3. CASE table' = Store(m, Cert(n, h)) /\ Save(h, n, m) /\ Next1
  BY <1>1, <1>2, <1>3 DEF Save, Next1
<1>4. CASE CaEnds
  <2>1. <<>> \in Seq(Entries) /\ <<>> \in Seq(Conns)
    OBVIOUS
  <2> QED BY <1>1, <1>4, <2>1 DEF CaEnds, CaDown
<1> QED BY <1>3, <1>4 DEF Sign

LEMMA Bounds == MaxStarts \in Nat \ {0} /\ MaxServerStarts \in Nat \ {0}
OBVIOUS

LEMMA InitType == Init => TypeOK
<1> SUFFICES ASSUME Init PROVE TypeOK
  OBVIOUS
<1>1. epoch \in 1..MaxStarts /\ starts \in 0..MaxServerStarts /\ 0 \in 0..MaxStarts
  BY Bounds DEF Init
<1>2. table = <<>> /\ queue = <<>>
  BY DEF Init
<1>3. table \in Seq([name : Name, cert : Certs])
  BY <1>2
<1>4. queue \in Seq([kind : {"csr", "root", "delete", "server"}, from : Run \cup {Server}, name : Name])
  BY <1>2
<1> QED BY <1>1, <1>3, <1>4 DEF Init, TypeOK, Phases

\* What ServeCsr does for the run r, with the common name read as m.
Answer(r, m) ==
    /\ Complete(r)
    /\ \/ /\ Sign(r, entered[r], m)
          /\ IF Gone(r) \/ ~caUp' THEN UNCHANGED <<phase, got>>
             ELSE Move(r, "signed") /\ got' = [got EXCEPT ![r] = Cert(entered[r], r)]
       \/ Gone(r) /\ Save(r, entered[r], m) /\ CaDown /\ UNCHANGED <<phase, got>>
       \/ entered[r] \in Nameless /\ CaEnds /\ UNCHANGED <<phase, got>>

\* Every step keeps the types.
LEMMA NextType == TypeOK /\ TableBacked /\ Next => TypeOK'
<1> SUFFICES ASSUME TypeOK, TableBacked, Next PROVE TypeOK'
  OBVIOUS
<1> USE DEF Entries, Conns
<1>1. table \in Seq(Entries) /\ Distinct(table) /\ queue \in Seq(Conns)
  BY DEF TypeOK, TableBacked, Distinct
<1>2. queue # <<>> => queue[1] \in Conns /\ Head(queue) = queue[1] /\ Tail(queue) \in Seq(Conns)
  BY <1>1, TailProperties
<1> HIDE DEF Entries, Conns
<1>3. ASSUME NEW k \in {"csr", "root", "delete", "server"}, NEW h \in Run \cup {Server}, NEW n \in Name
      PROVE  Append(queue, Conn(k, h, n)) \in Seq(Conns)
  BY <1>1, ConnType, AppendElements
<1>4. ASSUME NEW r \in Run
      PROVE  Cert(entered[r], r) \in Certs /\ entered[r] \in Name /\ StoredAs(entered[r]) \subseteq Name
  <2>1. entered[r] \in Name
    BY DEF TypeOK
  <2> QED BY <2>1, CertType, StoredNames
<1>5. \A q : q \in Seq(Conns) <=> q \in Seq([kind : {"csr", "root", "delete", "server"},
                                             from : Run \cup {Server}, name : Name])
  BY DEF Conns
<1>6. \A t : t \in Seq(Entries) <=> t \in Seq([name : Name, cert : Certs])
  BY DEF Entries
<1>7. <<>> \in Seq(Entries) /\ <<>> \in Seq(Conns)
  OBVIOUS
<1>8. ASSUME NEW r \in Run, NEW ph \in Phases, Move(r, ph) PROVE phase' \in [Run -> Phases]
  BY <1>8 DEF Move, TypeOK
<1>9. Phases = {"idle", "asking", "signed", "fetching", "joining", "online", "refused", "gone"}
  BY DEF Phases
<1>10. CASE ServeCsr
  <2>1. queue # <<>> BY <1>10 DEF ServeCsr, Serve
  <2>7. PICK r \in Run : \E m \in StoredAs(entered[r]) : Answer(r, m)
    BY <1>10 DEF ServeCsr, Answer
  <2>5. PICK m \in StoredAs(entered[r]) : Answer(r, m)
    BY <2>7
  <2>2. \/ /\ Sign(r, entered[r], m)
           /\ IF Gone(r) \/ ~caUp' THEN UNCHANGED <<phase, got>>
              ELSE Move(r, "signed") /\ got' = [got EXCEPT ![r] = Cert(entered[r], r)]
        \/ Gone(r) /\ Save(r, entered[r], m) /\ CaDown /\ UNCHANGED <<phase, got>>
        \/ CaEnds /\ UNCHANGED <<phase, got>>
    BY <2>5 DEF Answer
  <2>6. m \in Name
    BY <1>4
  <2>3. CASE Sign(r, entered[r], m)
    <3>1. /\ caUp' \in BOOLEAN /\ epoch' = epoch
          /\ table' \in Seq(Entries) /\ files' \in [Name -> Certs \cup {None}]
          /\ queue' \in Seq(Conns)
      BY <2>1, <2>3, <2>6, <1>4, SignType
    <3>2. phase' \in [Run -> Phases] /\ got' \in [Run -> Certs \cup {None}]
      <4>1. CASE phase' = phase /\ got' = got
        BY <4>1 DEF TypeOK
      <4>2. CASE Move(r, "signed") /\ got' = [got EXCEPT ![r] = Cert(entered[r], r)]
        BY <4>2, <1>4, <1>8, <1>9 DEF TypeOK
      <4> QED BY <2>2, <4>1, <4>2
    <3> QED BY <3>1, <3>2, <1>5, <1>6, <1>10 DEF TypeOK, ServeCsr, srvVars
  <2>4. CASE ((Save(r, entered[r], m) /\ CaDown) \/ CaEnds) /\ UNCHANGED <<phase, got>>
    <3>1. files' \in [Name -> Certs \cup {None}] /\ CaDown
      BY <2>4, <2>6, <1>4 DEF Save, CaEnds, TypeOK
    <3> QED BY <2>4, <3>1, <1>5, <1>6, <1>7, <1>10 DEF TypeOK, ServeCsr, CaDown, srvVars
  <2> QED BY <2>2, <2>3, <2>4
<1>11. CASE ServeRoot
  <2>1. PICK r \in Run :
          \/ /\ Next1 /\ UNCHANGED <<table, files>>
             /\ IF Gone(r) THEN UNCHANGED <<phase, root>>
                ELSE Move(r, "joining") /\ root' = [root EXCEPT ![r] = epoch]
          \/ Gone(r) /\ CaEnds /\ UNCHANGED <<phase, root>>
    BY <1>11 DEF ServeRoot
  <2>2. phase' \in [Run -> Phases] /\ root' \in [Run -> 0..MaxStarts]
    <3>1. epoch \in 0..MaxStarts
      BY Bounds DEF TypeOK
    <3>2. root' \in [Run -> 0..MaxStarts]
      BY <2>1, <3>1 DEF TypeOK
    <3>3. phase' \in [Run -> Phases]
      BY <2>1, <1>8, <1>9 DEF TypeOK
    <3> QED BY <3>2, <3>3
  <2>3. queue' \in Seq(Conns) /\ table' \in Seq(Entries) /\ epoch' = epoch /\ files' = files /\ caUp' \in BOOLEAN
    BY <1>1, <1>2, <1>7, <1>11, <2>1 DEF ServeRoot, Serve, Next1, CaEnds, CaDown, TypeOK
  <2> QED BY <1>5, <1>6, <1>11, <2>2, <2>3 DEF ServeRoot, TypeOK, srvVars
<1>12. CASE ServeDelete
  <2>1. queue # <<>> /\ Head(queue).name \in Name /\ Delete(Head(queue).name)
    BY <1>12, <1>2 DEF ServeDelete, Serve, Conns
  <2>2. table' \in Seq(Entries) /\ files' \in [Name -> Certs \cup {None}]
    BY <2>1, <1>1, DeleteProperties DEF Without, TypeOK
  <2> QED BY <1>2, <1>5, <1>6, <1>12, <2>1, <2>2 DEF ServeDelete, Next1, TypeOK, srvVars, runVars
<1>13. CASE ServeServer
  <2>1. queue # <<>> BY <1>13 DEF ServeServer, Serve
  <2>2. CASE /\ Sign(Server, ServerName, ServerName)
             /\ IF ~caUp' THEN UNCHANGED <<srv, srvCert>>
                ELSE srv' = "up" /\ srvCert' = IF ReadsCertificate THEN Cert(ServerName, Server) ELSE None
    <3>1. /\ caUp' \in BOOLEAN /\ epoch' = epoch
          /\ table' \in Seq(Entries) /\ files' \in [Name -> Certs \cup {None}]
          /\ queue' \in Seq(Conns)
      BY <2>1, <2>2, SignType
    <3>2. srv' \in {"down", "enrolling", "up"} /\ srvCert' \in Certs \cup {None}
      BY <2>2, CertType DEF TypeOK
    <3> QED BY <3>1, <3>2, <1>5, <1>6, <1>13 DEF TypeOK, ServeServer, runVars
  <2>3. CASE CaEnds /\ UNCHANGED <<srv, srvCert>>
    BY <2>3, <1>5, <1>6, <1>7, <1>13 DEF TypeOK, ServeServer, CaEnds, CaDown, runVars
  <2> QED BY <1>13, <2>2, <2>3 DEF ServeServer
<1>14. CASE ServeCutOff
  BY <1>14, <1>1, <1>2, <1>5, <1>6, <1>7
     DEF ServeCutOff, Serve, Next1, CaEnds, CaDown, TypeOK, srvVars, runVars
<1>15. CASE CaStop
  BY <1>15, <1>5, <1>6, <1>7 DEF CaStop, CaEnds, CaDown, TypeOK, srvVars, runVars
<1>16. CASE CaStart
  BY <1>16 DEF CaStart, TypeOK, srvVars, runVars
<1>17. CASE ServerUnanswered
  BY <1>17 DEF ServerUnanswered, TypeOK, caVars, runVars
<1>18. ASSUME NEW r \in Run, Quit(r) PROVE TypeOK'
  <2>1. entered[r] \in Name
    BY <1>4
  <2>2. CASE caUp /\ queue' = Append(queue, Conn("delete", Server, entered[r])) /\ told' = told \cup {r}
             /\ members' = members \ {r}
             /\ UNCHANGED <<caUp, epoch, table, files, srv, srvCert, starts, runVars>>
    BY <2>1, <2>2, <1>3, <1>5 DEF TypeOK, runVars
  <2>3. CASE members' = members \ {r} /\ UNCHANGED <<caVars, told, srv, srvCert, starts, runVars>>
    BY <2>3 DEF TypeOK, caVars, runVars
  <2>4. CASE ServerEnds /\ UNCHANGED <<caVars, told>>
    BY <2>4, <1>9 DEF TypeOK, ServerEnds, caVars
  <2> QED BY <1>18, <2>2, <2>3, <2>4 DEF Quit
<1>19. ASSUME NEW r \in Run, Register(r) PROVE TypeOK'
  BY <1>19, <1>8, <1>9 DEF Register, TypeOK, caVars
<1>28. ASSUME NEW r \in Run, TurnAway(r) PROVE TypeOK'
  <2>1. CASE Move(r, "gone") /\ UNCHANGED <<srvVars, entered, wrote, got, root>>
    BY <1>28, <2>1, <1>8, <1>9 DEF TurnAway, TypeOK, caVars, srvVars
  <2>2. CASE ServerEnds
    BY <1>28, <2>2, <1>9 DEF TurnAway, ServerEnds, TypeOK, caVars
  <2> QED BY <1>28, <2>1, <2>2 DEF TurnAway
<1>20. ASSUME NEW r \in Run, Reject(r) PROVE TypeOK'
  BY <1>20, <1>8, <1>9 DEF Reject, TypeOK, caVars, srvVars
<1>21. CASE ServerStart
  <2>1. queue' \in Seq(Conns)
    <3>1. Conn("server", Server, ServerName) \in Conns
      BY <1>3, NameAssumption
    <3> QED BY <1>21, <1>1, <3>1 DEF ServerStart
  <2>2. starts' \in 0..MaxServerStarts
    BY <1>21, Bounds DEF ServerStart, TypeOK
  <2> QED BY <2>1, <2>2, <1>5, <1>21 DEF ServerStart, TypeOK, runVars
<1>22. CASE ServerStop
  BY <1>22, <1>9 DEF ServerStop, ServerEnds, TypeOK, caVars
<1>23. ASSUME NEW r \in Run, Enrol(r) PROVE TypeOK'
  <2>1. queue' \in Seq(Conns)
    BY <1>23, <1>1, <1>3, <1>4 DEF Enrol
  <2> QED BY <2>1, <1>5, <1>8, <1>9, <1>23 DEF Enrol, TypeOK, srvVars
<1>24. ASSUME NEW r \in Run, Write(r) PROVE TypeOK'
  BY <1>24 DEF Write, TypeOK, caVars, srvVars
<1>25. ASSUME NEW r \in Run, Unanswered(r) PROVE TypeOK'
  BY <1>25, <1>8, <1>9 DEF Unanswered, TypeOK, caVars, srvVars
<1>26. ASSUME NEW r \in Run, Download(r) PROVE TypeOK'
  <2>1. queue' \in Seq(Conns)
    BY <1>26, <1>1, <1>3, <1>4, SMTT(30) DEF Download
  <2>2. phase' \in [Run -> Phases] /\ wrote' \in [Run -> {"none", "some", "all"}]
    BY <1>26, <1>8, <1>9 DEF Download, TypeOK
  <2> QED BY <2>1, <2>2, <1>5, <1>26 DEF Download, TypeOK, srvVars
<1>27. ASSUME NEW r \in Run, Leave(r) PROVE TypeOK'
  BY <1>27, <1>8, <1>9 DEF Leave, TypeOK, caVars, srvVars
<1> QED
  BY <1>10, <1>11, <1>12, <1>13, <1>14, <1>15, <1>16, <1>17, <1>18, <1>19, <1>20, <1>21,
     <1>22, <1>23, <1>24, <1>25, <1>26, <1>27, <1>28 DEF Next, CaNext, ServerNext, ClientCode

--------------------------------------------------------------------------------
(* The invariant *)

\* A connection in the accept queue fits what its sender does: it was made for the name of the
\* run, a run that waits for the CA is not registered, and a departure was one.
Client(c) == c.kind \in {"csr", "root"}
Place(c)  == IF c.kind = "csr" THEN "asking" ELSE "fetching"
Fits(c) ==
    /\ Client(c) => /\ c.from \in Run /\ c.name = entered[c.from]
                    /\ phase[c.from] \in {Place(c), "gone"} /\ c.from \notin members \cup told
    /\ c.kind = "delete" => \E q \in Run : c.name = entered[q] /\ Proper(entered[q]) /\ Gone(q)

\* Each run has one connection at a time; nothing is kept of a CA that is down.
Requests ==
    /\ ~caUp => table = <<>> /\ queue = <<>>
    /\ \A i \in DOMAIN queue : Fits(queue[i])
    /\ \A i, j \in DOMAIN queue :
         Client(queue[i]) /\ Client(queue[j]) /\ queue[i].from = queue[j].from => i = j

\* Members are online or have left unnoticed, reported runs have left, both had proper names, and
\* a certificate is never newer than the root key.
Runs ==
    /\ \A r \in members : phase[r] \in {"online", "gone"}
    /\ \A r \in told : Gone(r)
    /\ \A r \in members \cup told : Proper(entered[r])
    /\ \A r \in Run : got[r] # None => got[r].root <= epoch

\* An entry is found under a name the CA reads for that which its holder entered.
Holders == \A i \in DOMAIN table :
    table[i].cert.holder \in Run => table[i].name \in StoredAs(entered[table[i].cert.holder])

Inv == TypeOK /\ TableBacked /\ Requests /\ Runs /\ Holders /\ ToldIsForgotten /\ KeptWhileAlone

LEMMA InitInv == Init => Inv
BY InitType DEF Inv, Init, TableBacked, Requests, Runs, Holders, ToldIsForgotten, KeptWhileAlone

\* Nobody who left comes back, no run is idle again, and each keeps the name it was given.
LEMMA Onward ==
    ASSUME TypeOK, Next
    PROVE  entered' = entered /\ \A r \in Run : (Gone(r) => Gone(r)') /\ (phase'[r] = "idle" => phase[r] = "idle")
<1> USE DEF TypeOK, Move, Gone
<1>1. CASE CaNext
  BY <1>1 DEF CaNext, ServeCsr, ServeRoot, ServeDelete, ServeServer, ServeCutOff, runVars
<1>2. CASE CaStop \/ CaStart
  BY <1>2 DEF CaStop, CaStart, runVars
<1>3. CASE ServerUnanswered \/ ServerStart \/ ServerStop
  BY <1>3 DEF ServerUnanswered, ServerStart, ServerStop, ServerEnds, runVars
<1>4. CASE \E r \in Run : Quit(r) \/ Register(r) \/ TurnAway(r) \/ Reject(r)
  BY <1>4 DEF Quit, Register, TurnAway, Reject, ServerEnds, runVars
<1>5. CASE \E r \in Run : Enrol(r) \/ ClientCode(r) \/ Leave(r)
  BY <1>5 DEF Enrol, ClientCode, Write, Unanswered, Download, Leave
<1> QED BY <1>1, <1>2, <1>3, <1>4, <1>5 DEF Next, ServerNext

--------------------------------------------------------------------------------
(* The accept queue *)

\* A request in the queue still fits its sender after the step.
StillAsking(c) ==
    Client(c) /\ Fits(c) => phase'[c.from] \in {Place(c), "gone"} /\ c.from \notin members' \cup told'

LEMMA FitsKept ==
    ASSUME TypeOK, Next, NEW c \in Conns, Fits(c), StillAsking(c)
    PROVE  Fits(c)'
BY Onward DEF Fits, StillAsking, Conns, Client, Place

\* What Requests says of the connections of a queue.
QueueFits ==
    /\ \A i \in DOMAIN queue : Fits(queue[i])
    /\ \A i, j \in DOMAIN queue :
         Client(queue[i]) /\ Client(queue[j]) /\ queue[i].from = queue[j].from => i = j

\* The queue has one connection more, one less, or the same.
LEMMA SameQueue ==
    ASSUME TypeOK, Next, queue \in Seq(Conns), QueueFits, queue' = queue,
           \A i \in DOMAIN queue : StillAsking(queue[i])
    PROVE  QueueFits'
<1>1. \A i \in DOMAIN queue : queue[i] \in Conns
  BY LenProperties, ElementOfSeq
<1>2. ASSUME NEW i \in DOMAIN queue PROVE Fits(queue[i])'
  <2> DEFINE c == queue[i]
  <2>1. c \in Conns /\ Fits(c) /\ StillAsking(c)
    BY <1>1 DEF QueueFits
  <2> HIDE DEF c
  <2>2. \A d \in Conns : Fits(d) /\ StillAsking(d) => Fits(d)'
    BY FitsKept
  <2>3. queue'[i] = queue[i]
    OBVIOUS
  <2> QED BY <2>1, <2>2, <2>3 DEF c, Fits
<1> QED BY <1>2 DEF QueueFits

LEMMA ShorterQueue ==
    ASSUME TypeOK, Next, queue \in Seq(Conns), QueueFits, queue # <<>>, queue' = Tail(queue),
           \A i \in DOMAIN queue : i # 1 => StillAsking(queue[i])
    PROVE  QueueFits'
<1>1. \A i \in DOMAIN queue : queue[i] \in Conns
  BY LenProperties, ElementOfSeq
<1>2. \A j \in DOMAIN queue' : j + 1 \in DOMAIN queue /\ queue'[j] = queue[j + 1] /\ j + 1 # 1 /\ j \in Nat
  <2>1. DOMAIN queue' = 1..Len(queue') /\ Len(queue') \in Nat
    BY TailProperties, LenProperties
  <2> QED BY <2>1, TailProperties
<1>3. \A d \in Conns : Fits(d) /\ StillAsking(d) => Fits(d)'
  BY FitsKept
<1>4. ASSUME NEW j \in DOMAIN queue' PROVE Fits(queue[j])'
  BY <1>1, <1>2, <1>3 DEF QueueFits, Fits
<1>5. \A i, j \in DOMAIN queue' : i + 1 = j + 1 => i = j
  BY <1>2
<1> QED BY <1>2, <1>4, <1>5 DEF QueueFits, Client

LEMMA LongerQueue ==
    ASSUME TypeOK, Next, queue \in Seq(Conns), QueueFits, NEW c \in Conns, queue' = Append(queue, c),
           \A i \in DOMAIN queue : StillAsking(queue[i]),
           Fits(c)',
           Client(c) => \A i \in DOMAIN queue : ~(Client(queue[i]) /\ queue[i].from = c.from)
    PROVE  QueueFits'
<1>1. \A i \in DOMAIN queue : queue[i] \in Conns
  BY LenProperties, ElementOfSeq
<1>2. /\ Len(queue) + 1 \in DOMAIN queue' /\ queue'[Len(queue) + 1] = c
      /\ \A i \in DOMAIN queue : i \in DOMAIN queue' /\ queue'[i] = queue[i]
      /\ \A j \in DOMAIN queue' : j \in DOMAIN queue \/ j = Len(queue) + 1
      /\ Len(queue) + 1 \notin DOMAIN queue
  BY AppendElements
<1>3. \A d \in Conns : Fits(d) /\ StillAsking(d) => Fits(d)'
  BY FitsKept
<1>4. ASSUME NEW j \in DOMAIN queue' PROVE Fits(queue[j])'
  BY <1>1, <1>2, <1>3, SMTT(30) DEF QueueFits, Fits
<1> QED BY <1>2, <1>4 DEF QueueFits, Client

\* A deletion that waits is still there, unless it was the one just served.
LEMMA DeletingKept ==
    ASSUME queue \in Seq(Conns), NEW n, Deleting(n)
    PROVE  /\ queue' = queue => Deleting(n)'
           /\ \A c \in Conns : queue' = Append(queue, c) => Deleting(n)'
           /\ queue # <<>> /\ queue' = Tail(queue) /\ ~(Head(queue).kind = "delete" /\ Head(queue).name = n)
                => Deleting(n)'
<1>1. PICK i \in DOMAIN queue : queue[i].kind = "delete" /\ queue[i].name = n
  BY DEF Deleting
<1>2. ASSUME NEW c \in Conns, queue' = Append(queue, c) PROVE Deleting(n)'
  BY <1>1, <1>2, AppendElements DEF Deleting
<1>3. ASSUME queue # <<>>, queue' = Tail(queue), ~(Head(queue).kind = "delete" /\ Head(queue).name = n)
      PROVE  Deleting(n)'
  <2>1. i # 1
    BY <1>1, <1>3, TailProperties
  <2>2. i - 1 \in DOMAIN queue' /\ queue'[i - 1] = queue[i]
    BY <1>3, <2>1, TailProperties
  <2> QED BY <1>1, <2>2 DEF Deleting
<1> QED BY <1>1, <1>2, <1>3 DEF Deleting

--------------------------------------------------------------------------------
(* Steps that change the table, and those that leave it *)

Table == TableBacked /\ Holders /\ KeptWhileAlone

\* The hypotheses of KeptWhileAlone held before, if only phases moved on.
LEMMA TableLeft ==
    ASSUME Inv, Next, UNCHANGED <<caUp, epoch, table, files, got>>
    PROVE  Table'
<1>1. TableBacked'
  BY DEF Inv, TableBacked, StoredAs
<1>3. Holders'
  <2>1. entered' = entered
    BY Onward DEF Inv
  <2> QED BY <2>1 DEF Inv, Holders, StoredAs
<1>2. KeptWhileAlone'
  BY Onward DEF Inv, KeptWhileAlone, Alone
<1> QED BY <1>1, <1>2, <1>3 DEF Table

\* A CA that has ended, or was down, has an empty table.
LEMMA TableLost == ASSUME ~caUp', table' = <<>> PROVE Table'
BY DEF Table, TableBacked, Holders, KeptWhileAlone

LEMMA EntryNames == table \in Seq(Entries) => \A i \in DOMAIN table : table[i].name \in Name
<1>1. table \in Seq(Entries) => \A i \in DOMAIN table : table[i] \in Entries
  BY LenProperties, ElementOfSeq
<1> QED BY <1>1 DEF Entries

\* A certificate of the holder h is stored under a name the CA reads for its own.
LEMMA TableSigned ==
    ASSUME Inv, Next, NEW h \in Run \cup {Server}, NEW n \in Name, NEW m \in StoredAs(n),
           h = Server => n = ServerName,
           h \in Run => n = entered[h] /\ phase[h] # "idle",
           table' = Store(m, Cert(n, h)), Save(h, n, m), epoch' = epoch, caUp' = caUp,
           \/ got' = got /\ (h \in Run => Gone(h))
           \/ h \in Run /\ got' = [got EXCEPT ![h] = Cert(n, h)]
    PROVE  Table'
<1> DEFINE c == Cert(n, h)
           e == [name |-> m, cert |-> c]
<1>1. table \in Seq(Entries) /\ Distinct(table) /\ c \in Certs /\ files \in [Name -> Certs \cup {None}]
  BY CertType DEF Inv, TypeOK, TableBacked, Distinct, Entries
<1>2. c.name = n /\ c.holder = h /\ c.root = epoch
  BY DEF Cert
<1> HIDE DEF c
<1>3. /\ Distinct(table')
      /\ \A j \in DOMAIN table' : table'[j] = e \/ \E i \in DOMAIN table : table'[j] = table[i] /\ table[i].name # m
      /\ \A i \in DOMAIN table : table[i].name # m => \E j \in DOMAIN table' : table'[j] = table[i]
      /\ \E j \in DOMAIN table' : table'[j] = e
  <2>1. m \in Name
    BY StoredNames
  <2> QED BY <1>1, <2>1, StoreProperties DEF c
<1>4. files' = [files EXCEPT ![m] = c]
  BY DEF Save, c
<1>5. \A i \in DOMAIN table : table[i].name \in Name
  BY <1>1, EntryNames
<1>6. \A j \in DOMAIN table' : /\ table'[j].name \in StoredAs(table'[j].cert.name)
                              /\ table'[j].cert.root = epoch
                              /\ files'[table'[j].name] = table'[j].cert
  <2> SUFFICES ASSUME NEW j \in DOMAIN table'
               PROVE  /\ table'[j].name \in StoredAs(table'[j].cert.name)
                      /\ table'[j].cert.root = epoch /\ files'[table'[j].name] = table'[j].cert
    OBVIOUS
  <2>1. m \in Name
    BY StoredNames
  <2>2. CASE table'[j] = e
    BY <2>1, <2>2, <1>1, <1>2, <1>4
  <2>3. CASE \E i \in DOMAIN table : table'[j] = table[i] /\ table[i].name # m
    BY <2>3, <1>1, <1>4, <1>5 DEF Inv, TableBacked
  <2> QED BY <2>2, <2>3, <1>3
<1>7. TableBacked'
  BY <1>3, <1>6 DEF TableBacked, Distinct, StoredAs
<1>8. Holders'
  <2>1. entered' = entered
    BY Onward DEF Inv
  <2> QED BY <1>2, <1>3, <2>1, RunAssumption DEF Inv, Holders
<1>9. KeptWhileAlone'
  <2> SUFFICES ASSUME NEW r \in Run, caUp, got'[r] # None, got'[r].root = epoch,
                      ~Gone(r)', Alone(r)', entered'[r] \notin Nameless, Cut[entered'[r]] # ServerName
               PROVE  \E i \in DOMAIN table' : table'[i] = [name |-> Cut[entered'[r]], cert |-> got'[r]]
    BY DEF KeptWhileAlone
  <2>0. entered' = entered /\ entered[r] \in Name
    BY Onward DEF Inv, TypeOK
  <2>1. ~Gone(r) /\ Alone(r)
    BY Onward DEF Inv, Alone
  <2>4. StoredAs(entered[r]) = {Cut[entered[r]]}
    BY <2>0, StoredNames
  <2>2. CASE h = r
    <3>1. got' = [got EXCEPT ![r] = c]
      BY <2>1, <2>2, RunAssumption DEF c
    <3>2. got'[r] = c
      BY <3>1 DEF Inv, TypeOK
    <3>3. m = Cut[entered[r]]
      BY <2>2, <2>4, RunAssumption
    <3> QED BY <1>3, <2>0, <3>2, <3>3
  <2>3. CASE h # r
    <3>1. m # Cut[entered[r]]
      <4>1. CASE h = Server
        BY <4>1, <2>0, ProperNames
      <4>2. CASE h \in Run
        BY <4>2, <2>1, <2>3, <2>4 DEF Alone
      <4> QED BY <4>1, <4>2
    <3>2. got'[r] = got[r]
      BY <2>3 DEF Inv, TypeOK
    <3>3. \E i \in DOMAIN table : table[i] = [name |-> Cut[entered[r]], cert |-> got[r]]
      BY <2>0, <2>1, <3>2 DEF Inv, KeptWhileAlone
    <3> QED BY <1>3, <2>0, <3>1, <3>2, <3>3
  <2> QED BY <2>2, <2>3
<1> QED BY <1>7, <1>8, <1>9 DEF Table

\* The deletion of a name some departed run had entered.
LEMMA TableShrunk ==
    ASSUME Inv, Next, NEW q \in Run, Gone(q), Proper(entered[q]), Delete(entered[q]), UNCHANGED <<caUp, epoch, got>>
    PROVE  Table'
<1> DEFINE n == entered[q]
<1>1. table \in Seq(Entries) /\ Distinct(table) /\ files \in [Name -> Certs \cup {None}] /\ n \in Name
  BY DEF Inv, TypeOK, TableBacked, Distinct, Entries
<1>2. Without(table', n) /\ \A m \in Name \ {n} : files'[m] = files[m]
  BY <1>1, DeleteProperties
<1>3. \A i \in DOMAIN table : table[i].name \in Name
  BY <1>1, EntryNames
<1>4. TableBacked'
  BY <1>2, <1>3 DEF Without, Distinct, Inv, TableBacked
<1>7. entered' = entered
  BY Onward DEF Inv
<1>5. Holders'
  BY <1>2, <1>7 DEF Without, Inv, Holders
<1>6. KeptWhileAlone'
  <2> SUFFICES ASSUME NEW r \in Run, caUp, got[r] # None, got[r].root = epoch,
                      ~Gone(r)', Alone(r)', entered'[r] \notin Nameless, Cut[entered'[r]] # ServerName
               PROVE  \E i \in DOMAIN table' : table'[i] = [name |-> Cut[entered'[r]], cert |-> got[r]]
    BY DEF KeptWhileAlone
  <2>1. ~Gone(r) /\ Alone(r) /\ entered[r] \in Name
    BY Onward DEF Inv, TypeOK, Alone
  <2>2. Cut[entered[r]] # n
    <3>1. n \in StoredAs(entered[q]) /\ StoredAs(entered[r]) = {Cut[entered[r]]}
      BY <1>1, <1>7, <2>1, ProperNames, StoredNames
    <3>2. q # r /\ phase[q] # "idle"
      BY <2>1 DEF Gone
    <3> QED BY <2>1, <3>1, <3>2 DEF Alone
  <2>3. \E i \in DOMAIN table : table[i] = [name |-> Cut[entered[r]], cert |-> got[r]]
    BY <1>7, <2>1 DEF Inv, KeptWhileAlone
  <2> QED BY <1>2, <1>7, <2>2, <2>3 DEF Without
<1> QED BY <1>4, <1>5, <1>6 DEF Table

--------------------------------------------------------------------------------
(* Every step keeps the invariant *)

\* An entry of a reported run stays only with its deletion.
LEMMA ToldSame ==
    ASSUME Inv, Next, table' = table, told' = told,
           \A n \in Name : Deleting(n) => Deleting(n)'
    PROVE  ToldIsForgotten'
BY Onward DEF Inv, TypeOK, ToldIsForgotten

LEMMA ToldSigned ==
    ASSUME Inv, Next, NEW h \in Run \cup {Server}, NEW n \in Name, NEW k \in Name, h \notin told,
           told' = told, table' = Store(k, Cert(n, h)),
           \A m \in Name : Deleting(m) => Deleting(m)'
    PROVE  ToldIsForgotten'
<1>1. table \in Seq(Entries) /\ Distinct(table) /\ Cert(n, h) \in Certs
  BY CertType DEF Inv, TypeOK, TableBacked, Distinct, Entries
<1>2. \A j \in DOMAIN table' : table'[j].cert = Cert(n, h) \/ \E i \in DOMAIN table : table'[j] = table[i]
  BY <1>1, StoreProperties
<1>3. Cert(n, h).holder = h
  BY DEF Cert
<1>4. entered' = entered /\ \A r \in told : entered[r] \in Name
  BY Onward DEF Inv, TypeOK
<1> QED BY <1>2, <1>3, <1>4 DEF Inv, ToldIsForgotten

LEMMA ToldDeleted ==
    ASSUME Inv, Next, Serve("delete"), Delete(Head(queue).name), queue' = Tail(queue), told' = told
    PROVE  ToldIsForgotten'
<1> DEFINE n == Head(queue).name
<1>1. table \in Seq(Entries) /\ Distinct(table) /\ queue \in Seq(Conns) /\ files \in [Name -> Certs \cup {None}]
  BY DEF Inv, TypeOK, TableBacked, Distinct, Entries, Conns
<1>2. queue # <<>> /\ n \in Name
  <2>1. queue # <<>> BY DEF Serve
  <2>2. Head(queue) \in Conns BY <1>1, <2>1, TailProperties
  <2> QED BY <2>1, <2>2 DEF Conns
<1>3. Without(table', n)
  BY <1>1, <1>2, DeleteProperties
<1>4. \A m \in Name : m # n /\ Deleting(m) => Deleting(m)'
  BY <1>1, <1>2, DeletingKept
<1>7. entered' = entered
  BY Onward DEF Inv
<1> SUFFICES ASSUME NEW r \in told, NEW j \in DOMAIN table', table'[j].cert.holder = r
             PROVE  Deleting(entered[r])'
  BY DEF ToldIsForgotten
<1>5. PICK i \in DOMAIN table : table'[j] = table[i] /\ table[i].name # n
  BY <1>3 DEF Without
<1>6. r \in Run /\ entered[r] \in Name /\ entered[r] # n /\ Deleting(entered[r])
  <2>1. r \in Run /\ entered[r] \in Name /\ Proper(entered[r]) /\ Deleting(entered[r])
    BY <1>5 DEF Inv, TypeOK, Runs, ToldIsForgotten
  <2>2. table[i].name \in StoredAs(entered[r])
    BY <1>5, <2>1 DEF Inv, Holders
  <2>3. table[i].name = entered[r]
    BY <2>1, <2>2, ProperNames
  <2> QED BY <1>5, <2>1, <2>3
<1> QED BY <1>4, <1>6, <1>7 DEF Deleting

\* The invariant after a step, from its parts.
LEMMA Together ==
    ASSUME Inv, Next, Table', QueueFits', Runs', ToldIsForgotten',
           ~caUp' => table' = <<>> /\ queue' = <<>>
    PROVE  Inv'
BY NextType DEF Inv, Table, QueueFits, Requests

\* A CA that ends forgets the table and its queue.
LEMMA CaDownKeeps ==
    ASSUME Inv, Next, CaDown, Runs' PROVE Inv'
<1>1. Table'
  BY TableLost DEF CaDown
<1>2. QueueFits' /\ ToldIsForgotten'
  BY DEF CaDown, QueueFits, ToldIsForgotten
<1> QED BY <1>1, <1>2, Together DEF CaDown

\* A step that leaves the CA and what it gave alone; the queue may get a connection.
LEMMA CaLeft ==
    ASSUME Inv, Next, UNCHANGED <<caUp, epoch, table, files, got>>, Runs',
           \A i \in DOMAIN queue : StillAsking(queue[i]),
           \/ queue' = queue
           \/ \E c \in Conns :
                /\ caUp /\ queue' = Append(queue, c) /\ Fits(c)'
                /\ Client(c) => \A i \in DOMAIN queue : ~(Client(queue[i]) /\ queue[i].from = c.from),
           \/ told' = told
           \/ \E r \in Run : told' = told \cup {r} /\ Deleting(entered[r])'
    PROVE  Inv'
<1>1. queue \in Seq(Conns) /\ QueueFits /\ TypeOK
  BY DEF Inv, TypeOK, Conns, Requests, QueueFits
<1>2. Table'
  BY TableLeft
<1>3. QueueFits'
  BY <1>1, SameQueue, LongerQueue
<1>4. \A n \in Name : Deleting(n) => Deleting(n)'
  BY <1>1, DeletingKept
<1>5. ToldIsForgotten'
  <2>1. entered' = entered /\ told \subseteq Run /\ \A r \in Run : entered[r] \in Name
    BY Onward DEF Inv, TypeOK
  <2> QED BY <1>4, <2>1 DEF Inv, ToldIsForgotten
<1>6. ~caUp' => table' = <<>> /\ queue' = <<>>
  BY DEF Inv, Requests
<1> QED BY <1>2, <1>3, <1>5, <1>6, Together

\* A certificate is signed: the head of the queue is done, and a client that asked moves on.
LEMMA SignKeeps ==
    ASSUME Inv, Next, caUp, queue # <<>>, Runs', told' = told,
           NEW h \in Run \cup {Server}, NEW n \in Name, NEW m \in StoredAs(n), h \notin told,
           h = Server => n = ServerName,
           h \in Run => n = entered[h] /\ phase[h] # "idle",
           table' = Store(m, Cert(n, h)), Save(h, n, m), Next1,
           \/ got' = got /\ (h \in Run => Gone(h))
           \/ h \in Run /\ got' = [got EXCEPT ![h] = Cert(n, h)],
           Head(queue).kind # "delete",
           \A i \in DOMAIN queue : i # 1 => StillAsking(queue[i])
    PROVE  Inv'
<1>1. queue \in Seq(Conns) /\ QueueFits /\ TypeOK
  BY DEF Inv, TypeOK, Conns, Requests, QueueFits
<1>2. QueueFits'
  BY <1>1, ShorterQueue DEF Next1
<1>3. \A k \in Name : Deleting(k) => Deleting(k)'
  BY <1>1, DeletingKept DEF Next1
<1>6. m \in Name
  BY StoredNames
<1>4. ToldIsForgotten'
  BY <1>3, <1>6, ToldSigned
<1>5. Table'
  BY TableSigned DEF Next1
<1> QED BY <1>2, <1>4, <1>5, Together DEF Next1

LEMMA RunsKept ==
    ASSUME Inv, Next, UNCHANGED <<epoch, told, got>>,
           \A r \in members' : r \in members \/ (phase'[r] = "online" /\ Proper(entered[r])),
           \A r \in members : phase'[r] \in {phase[r], "gone"}
    PROVE  Runs'
BY Onward DEF Inv, TypeOK, Runs

\* One case per action.
LEMMA NextInv == Inv /\ Next => Inv'
<1> SUFFICES ASSUME Inv, Next PROVE Inv'
  OBVIOUS
<1>1. /\ TypeOK /\ queue \in Seq(Conns) /\ QueueFits /\ Requests /\ Runs
      /\ members \subseteq Run /\ told \subseteq Run /\ phase \in [Run -> Phases]
      /\ entered' = entered /\ \A r \in Run : entered[r] \in Name
  BY Onward DEF Inv, TypeOK, Conns, Requests, QueueFits
<1>2. \A i \in DOMAIN queue : queue[i] \in Conns /\ Fits(queue[i])
  BY <1>1, LenProperties, ElementOfSeq DEF QueueFits
<1>3. queue # <<>> => Head(queue) = queue[1] /\ 1 \in DOMAIN queue
  BY <1>1, TailProperties
\* Senders whose phase does not change, or who leave, still fit their request.
<1>4. ASSUME UNCHANGED told, \A r \in members' : r \in members \/ phase[r] = "joining",
             \A r \in Run : phase[r] \in {"asking", "fetching", "gone"} => phase'[r] \in {phase[r], "gone"}
      PROVE  \A i \in DOMAIN queue : StillAsking(queue[i])
  BY <1>1, <1>2, <1>4 DEF StillAsking, Fits, Client, Place
\* The sender of the request that is served moves on; the others still fit theirs.
<1>5. ASSUME queue # <<>>, NEW r \in Run, Client(queue[1]), queue[1].from = r, UNCHANGED <<members, told>>,
             \A q \in Run \ {r} : phase'[q] = phase[q]
      PROVE  \A i \in DOMAIN queue : i # 1 => StillAsking(queue[i])
  <2> SUFFICES ASSUME NEW i \in DOMAIN queue, i # 1, Client(queue[i]), Fits(queue[i])
               PROVE  phase'[queue[i].from] \in {Place(queue[i]), "gone"} /\ queue[i].from \notin members \cup told
    BY <1>5 DEF StillAsking
  <2>1. queue[i].from # r
    BY <1>1, <1>3, <1>5 DEF QueueFits
  <2> QED BY <1>5, <2>1 DEF Fits
<1>6. CASE ServeCsr
  <2>6. PICK r \in Run : \E m \in StoredAs(entered[r]) : Answer(r, m)
    BY <1>6 DEF ServeCsr, Answer
  <2>7. PICK m \in StoredAs(entered[r]) : Answer(r, m)
    BY <2>6
  <2>1. /\ Complete(r)
        /\ \/ /\ Sign(r, entered[r], m)
              /\ IF Gone(r) \/ ~caUp' THEN UNCHANGED <<phase, got>>
                 ELSE Move(r, "signed") /\ got' = [got EXCEPT ![r] = Cert(entered[r], r)]
           \/ Gone(r) /\ Save(r, entered[r], m) /\ CaDown /\ UNCHANGED <<phase, got>>
           \/ CaEnds /\ UNCHANGED <<phase, got>>
    BY <2>7 DEF Answer
  <2>2. /\ queue # <<>> /\ caUp /\ queue[1].kind = "csr" /\ queue[1].from = r
        /\ phase[r] \in {"asking", "gone"} /\ r \notin members \cup told /\ Client(queue[1])
    BY <1>2, <1>3, <1>6, <2>1 DEF ServeCsr, Serve, Complete, Fits, Client, Place
  <2>3. UNCHANGED <<members, told>>
    BY <1>6 DEF ServeCsr, srvVars
  <2>4. CASE CaDown /\ UNCHANGED <<phase, got>>
    <3>1. Runs'
      BY <1>1, <2>3, <2>4 DEF Runs, CaDown, Gone
    <3> QED BY <2>4, <3>1, CaDownKeeps
  <2>5. CASE /\ table' = Store(m, Cert(entered[r], r)) /\ Save(r, entered[r], m) /\ Next1
             /\ IF Gone(r) THEN UNCHANGED <<phase, got>>
                ELSE Move(r, "signed") /\ got' = [got EXCEPT ![r] = Cert(entered[r], r)]
    <3>1. \A q \in Run \ {r} : phase'[q] = phase[q]
      BY <1>1, <2>5 DEF Move
    <3>2. \A i \in DOMAIN queue : i # 1 => StillAsking(queue[i])
      BY <1>5, <2>2, <2>3, <3>1
    <3>3. Runs'
      <4>1. epoch' = epoch
        BY <2>5 DEF Next1
      <4>2. got' \in {got, [got EXCEPT ![r] = Cert(entered[r], r)]} /\ got \in [Run -> Certs \cup {None}]
        BY <2>5, <1>1 DEF TypeOK
      <4>3. Cert(entered[r], r).root = epoch /\ epoch \in Nat
        BY <1>1, Bounds DEF Cert, TypeOK
      <4>4. \A q \in Run : got'[q] # None => got'[q].root <= epoch
        BY <1>1, <4>2, <4>3 DEF Runs
      <4>5. \A q \in members \cup told : phase'[q] = phase[q]
        BY <1>1, <2>2, <3>1
      <4> QED BY <1>1, <2>3, <4>1, <4>4, <4>5 DEF Runs, Gone
    <3>4. entered[r] \in Name /\ r # Server
      BY <1>1, RunAssumption
    <3>5. Head(queue).kind # "delete" /\ phase[r] # "idle" /\ told' = told
      BY <1>3, <2>2, <2>3
    <3>6. \/ got' = got /\ (r \in Run => Gone(r))
          \/ r \in Run /\ got' = [got EXCEPT ![r] = Cert(entered[r], r)]
      BY <2>5 DEF Gone
    <3> QED BY <2>2, <2>5, <3>2, <3>3, <3>4, <3>5, <3>6, SignKeeps
  <2> QED BY <2>1, <2>2, <2>4, <2>5 DEF Sign, Next1, CaEnds, CaDown
<1>7. ASSUME caUp, queue # <<>>, Head(queue).kind # "delete", Next1,
             UNCHANGED <<table, files, members, got, told>>,
             \A i \in DOMAIN queue : i # 1 => StillAsking(queue[i]),
             \A q \in members \cup told : phase'[q] = phase[q]
      PROVE  Inv'
  <2>1. QueueFits'
    BY <1>1, <1>7, ShorterQueue DEF Next1
  <2>2. Table'
    BY <1>7, TableLeft DEF Next1
  <2>3. \A m \in Name : Deleting(m) => Deleting(m)'
    BY <1>1, <1>7, DeletingKept DEF Next1
  <2>4. ToldIsForgotten'
    BY <1>7, <2>3, ToldSame
  <2>5. Runs'
    BY <1>1, <1>7 DEF Runs, Gone, Next1
  <2> QED BY <1>7, <2>1, <2>2, <2>4, <2>5, Together DEF Next1
<1>8. ASSUME CaEnds, UNCHANGED <<members, told, got>>,
             \A q \in members \cup told : phase'[q] = phase[q]
      PROVE  Inv'
  <2>1. Runs'
    BY <1>1, <1>8 DEF Runs, Gone, CaEnds, CaDown
  <2> QED BY <1>8, <2>1, CaDownKeeps DEF CaEnds
<1>9. CASE ServeRoot
  <2>1. PICK r \in Run :
          /\ Complete(r)
          /\ \/ /\ Next1 /\ UNCHANGED <<table, files>>
                /\ IF Gone(r) THEN UNCHANGED <<phase, root>>
                   ELSE Move(r, "joining") /\ root' = [root EXCEPT ![r] = epoch]
             \/ Gone(r) /\ CaEnds /\ UNCHANGED <<phase, root>>
    BY <1>9 DEF ServeRoot
  <2>2. /\ queue # <<>> /\ caUp /\ Head(queue).kind # "delete" /\ queue[1].from = r
        /\ r \notin members \cup told /\ Client(queue[1])
    BY <1>2, <1>3, <1>9, <2>1 DEF ServeRoot, Serve, Complete, Fits, Client
  <2>3. UNCHANGED <<members, told, got>>
    BY <1>9 DEF ServeRoot, srvVars
  <2>4. \A q \in Run \ {r} : phase'[q] = phase[q]
    BY <1>1, <2>1 DEF Move
  <2>5. \A q \in members \cup told : phase'[q] = phase[q]
    BY <1>1, <2>2, <2>4
  <2>6. \A i \in DOMAIN queue : i # 1 => StillAsking(queue[i])
    BY <1>5, <2>2, <2>3, <2>4
  <2> QED BY <1>7, <1>8, <2>1, <2>2, <2>3, <2>5, <2>6
<1>10. CASE ServeCutOff
  <2>1. caUp /\ queue # <<>> /\ Head(queue).kind # "delete" /\ UNCHANGED <<members, told, got, phase>>
    BY <1>10 DEF ServeCutOff, Serve, srvVars, runVars
  <2>2. CASE Next1 /\ UNCHANGED <<table, files>>
    <3>1. \A i \in DOMAIN queue : StillAsking(queue[i])
      BY <1>4, <2>1
    <3> QED BY <1>7, <2>1, <2>2, <3>1
  <2>3. CASE CaEnds
    BY <1>8, <2>1, <2>3
  <2> QED BY <1>10, <2>2, <2>3 DEF ServeCutOff
<1>11. CASE ServeDelete
  <2>1. caUp /\ queue # <<>> /\ Next1 /\ Delete(Head(queue).name) /\ UNCHANGED <<members, told, got, phase>>
    BY <1>11 DEF ServeDelete, Serve, srvVars, runVars
  <2>2. PICK q \in Run : Head(queue).name = entered[q] /\ Proper(entered[q]) /\ Gone(q)
    BY <1>2, <1>3, <1>11 DEF ServeDelete, Serve, Fits
  <2>3. Table'
    BY <2>1, <2>2, TableShrunk DEF Next1
  <2>4. ToldIsForgotten'
    BY <1>11, <2>1, ToldDeleted DEF ServeDelete, Next1
  <2>5. \A i \in DOMAIN queue : StillAsking(queue[i])
    BY <1>4, <2>1
  <2>6. QueueFits'
    BY <1>1, <2>1, <2>5, ShorterQueue DEF Next1
  <2>7. Runs'
    BY <1>1, <2>1 DEF Runs, Gone, Next1
  <2> QED BY <2>1, <2>3, <2>4, <2>6, <2>7, Together DEF Next1
<1>12. CASE ServeServer
  <2>1. /\ caUp /\ queue # <<>> /\ Head(queue).kind # "delete"
        /\ UNCHANGED <<members, told, got, phase>>
    BY <1>12 DEF ServeServer, Serve, runVars
  <2>2. CASE CaEnds
    BY <1>8, <2>1, <2>2
  <2>3. CASE table' = Store(ServerName, Cert(ServerName, Server)) /\ Save(Server, ServerName, ServerName) /\ Next1
    <3>1. \A i \in DOMAIN queue : StillAsking(queue[i])
      BY <1>4, <2>1
    <3>2. Runs'
      BY <1>1, <2>1, <2>3 DEF Runs, Gone, Next1
    <3>3. Server \notin Run /\ Server \notin told /\ ServerName \in StoredAs(ServerName)
      BY <1>1, RunAssumption, ProperNames
    <3> QED BY <2>1, <2>3, <3>1, <3>2, <3>3, SignKeeps, NameAssumption
  <2> QED BY <1>12, <2>2, <2>3 DEF ServeServer, Sign
<1>13. CASE CaStop
  BY <1>8, <1>13 DEF CaStop, srvVars, runVars
<1>14. CASE CaStart
  <2>1. /\ UNCHANGED <<table, files, queue, members, told, got, phase>> /\ epoch' = epoch + 1
        /\ table = <<>> /\ queue = <<>> /\ epoch \in Nat
    BY <1>1, <1>14, Bounds DEF CaStart, srvVars, runVars, Requests, TypeOK
  <2>2. \A r \in Run : got[r] # None => got[r].root <= epoch /\ got[r].root \in Nat
    BY <1>1 DEF Runs, TypeOK, Certs
  <2>3. Runs'
    BY <1>1, <2>1, <2>2 DEF Runs, Gone
  <2>4. \A r \in Run : got[r] # None => got[r].root # epoch'
    BY <2>1, <2>2
  <2>5. Table' /\ QueueFits' /\ ToldIsForgotten'
    BY <2>1, <2>4 DEF Table, TableBacked, Holders, KeptWhileAlone, QueueFits, ToldIsForgotten
  <2> QED BY <1>14, <2>3, <2>5, Together DEF CaStart
<1>15. CASE ServerUnanswered
  <2>1. UNCHANGED <<caUp, epoch, table, files, queue, told, got, members, phase>>
    BY <1>15 DEF ServerUnanswered, caVars, runVars
  <2>2. \A i \in DOMAIN queue : StillAsking(queue[i])
    BY <1>4, <2>1
  <2>3. Runs'
    BY <1>1, <2>1 DEF Runs, Gone
  <2> QED BY <2>1, <2>2, <2>3, CaLeft
<1>16. ASSUME NEW r \in Run, Quit(r) PROVE Inv'
  <2>1. Gone(r) /\ r \in members /\ entered[r] \in Name /\ Proper(entered[r])
    BY <1>1, <1>16 DEF Quit, Runs
  <2>2. CASE /\ caUp /\ queue' = Append(queue, Conn("delete", Server, entered[r])) /\ told' = told \cup {r}
             /\ members' = members \ {r}
             /\ UNCHANGED <<caUp, epoch, table, files, srv, srvCert, starts, runVars>>
    <3>8. PICK c \in Conns : c = Conn("delete", Server, entered[r])
      BY <2>1, ConnType
    <3>1. UNCHANGED <<phase, got>>
      BY <2>2 DEF runVars
    <3>2. c \in Conns /\ ~Client(c) /\ c.kind = "delete" /\ c.name = entered[r]
      BY <3>8 DEF Conn, Client
    <3>3. queue' = Append(queue, c)
      BY <2>2, <3>8
    <3>4. Fits(c)'
      <4>1. entered' = entered
        BY <2>2 DEF runVars
      <4>2. c.name = entered'[r] /\ Proper(entered[r])' /\ Gone(r)'
        BY <2>1, <3>1, <3>2, <4>1 DEF Gone, Proper
      <4> QED BY <3>2, <4>2 DEF Fits, Client
    <3>5. Deleting(entered[r])'
      BY <1>1, <3>2, <3>3, AppendElements DEF Deleting
    <3>6. \A i \in DOMAIN queue : StillAsking(queue[i])
      BY <1>1, <1>2, <2>1, <2>2, <3>1 DEF StillAsking, Fits
    <3>7. Runs'
      BY <1>1, <2>1, <2>2, <3>1 DEF Runs, Gone
    <3> QED BY <2>2, <3>1, <3>2, <3>3, <3>4, <3>5, <3>6, <3>7, CaLeft
  <2>3. CASE members' = members \ {r} /\ UNCHANGED <<caVars, told, srv, srvCert, starts, runVars>>
    <3>1. UNCHANGED <<caUp, epoch, table, files, queue, told, got, phase>>
      BY <2>3 DEF caVars, runVars
    <3>2. \A i \in DOMAIN queue : StillAsking(queue[i])
      BY <1>4, <2>3, <3>1
    <3>3. Runs'
      BY <1>1, <2>3, <3>1 DEF Runs, Gone
    <3> QED BY <3>1, <3>2, <3>3, CaLeft
  <2>4. CASE ServerEnds /\ UNCHANGED <<caVars, told>>
    <3>1. UNCHANGED <<caUp, epoch, table, files, queue, told, got>> /\ members' = {}
      BY <2>4 DEF caVars, ServerEnds
    <3>2. \A q \in Run : phase'[q] = phase[q] \/ phase[q] \in {"online", "refused"}
      BY <1>1, <2>4 DEF ServerEnds
    <3>3. \A i \in DOMAIN queue : StillAsking(queue[i])
      BY <1>4, <3>1, <3>2
    <3>4. Runs'
      BY <1>1, <3>1, <3>2 DEF Runs, Gone
    <3> QED BY <3>1, <3>3, <3>4, CaLeft
  <2> QED BY <1>16, <2>2, <2>3, <2>4 DEF Quit
<1>17. ASSUME UNCHANGED <<caUp, epoch, table, files, queue, told, got>>,
              \A q \in members' :
                q \in members \/ (phase[q] = "joining" /\ phase'[q] = "online" /\ Proper(entered[q])),
              \A q \in members : phase'[q] \in {phase[q], "gone"},
              \A q \in Run : phase[q] \in {"asking", "fetching", "gone"} => phase'[q] \in {phase[q], "gone"}
       PROVE  Inv'
  <2>1. \A i \in DOMAIN queue : StillAsking(queue[i])
    BY <1>4, <1>17
  <2>2. Runs'
    BY <1>17, RunsKept
  <2> QED BY <1>17, <2>1, <2>2, CaLeft
<1>18. CASE \E r \in Run : Register(r) \/ TurnAway(r) \/ Reject(r) \/ Leave(r) \/ Write(r)
  <2>1. PICK r \in Run : Register(r) \/ TurnAway(r) \/ Reject(r) \/ Leave(r) \/ Write(r)
    BY <1>18
  <2>2. UNCHANGED <<caUp, epoch, table, files, queue, told, got>>
    BY <2>1 DEF Register, TurnAway, ServerEnds, Reject, Leave, Write, caVars
  <2>5. CASE TurnAway(r)
    <3>1. members' \subseteq members /\ \A q \in Run : phase'[q] \in {phase[q], "gone"}
      BY <1>1, <2>5 DEF TurnAway, ServerEnds, Move, srvVars
    <3> QED BY <1>1, <1>17, <2>2, <3>1
  <2>3. CASE Register(r)
    <3>1. phase[r] = "joining" /\ members' \subseteq members \cup {r} /\ Proper(entered[r])
          /\ (r \in members' \ members => phase'[r] = "online")
      BY <1>1, <2>3 DEF Register, Move
    <3>2. \A q \in Run \ {r} : phase'[q] = phase[q]
      BY <1>1, <2>3 DEF Register, Move
    <3>3. r \notin members
      BY <1>1, <3>1 DEF Runs
    <3> QED BY <1>1, <1>17, <2>2, <3>1, <3>2, <3>3
  <2>4. CASE Reject(r) \/ Leave(r) \/ Write(r)
    <3>1. members' = members /\ \A q \in Run : phase'[q] \in {phase[q], "gone"}
      BY <1>1, <2>4 DEF Reject, Leave, Write, Move, srvVars
    <3> QED BY <1>1, <1>17, <2>2, <3>1
  <2> QED BY <2>1, <2>3, <2>4, <2>5
<1>19. CASE ServerStop
  <2>1. UNCHANGED <<caUp, epoch, table, files, queue, told, got>> /\ members' = {}
    BY <1>19 DEF ServerStop, ServerEnds, caVars
  <2>2. \A q \in Run : phase'[q] = phase[q] \/ (phase[q] \in {"online", "refused"} /\ phase'[q] = "gone")
    BY <1>1, <1>19 DEF ServerStop, ServerEnds
  <2> QED BY <1>1, <1>17, <2>1, <2>2
<1>20. CASE ServerStart
  <2>1. UNCHANGED <<caUp, epoch, table, files, told, got, phase>> /\ members' = {}
    BY <1>20 DEF ServerStart, runVars
  <2>2. \A i \in DOMAIN queue : StillAsking(queue[i])
    BY <1>4, <2>1
  <2>3. Runs'
    BY <1>1, <2>1 DEF Runs, Gone
  <2> DEFINE c == Conn("server", Server, ServerName)
  <2>4. c \in Conns /\ ~Client(c) /\ c.kind = "server"
    BY ConnType, NameAssumption DEF Conn, Client
  <2>5. Fits(c)'
    BY <2>4 DEF Fits, Client
  <2>6. queue' = queue \/ (caUp /\ queue' = Append(queue, c))
    BY <1>20 DEF ServerStart
  <2> HIDE DEF c
  <2> QED BY <2>1, <2>2, <2>3, <2>4, <2>5, <2>6, CaLeft
<1>21. ASSUME NEW r \in Run, Unanswered(r) PROVE Inv'
  <2>1. UNCHANGED <<caUp, epoch, table, files, queue, told, got, members>>
    BY <1>21 DEF Unanswered, caVars, srvVars
  <2>2. /\ phase[r] \in {"asking", "fetching"} /\ \A q \in Run \ {r} : phase'[q] = phase[q]
        /\ \A i \in DOMAIN queue : Client(queue[i]) => queue[i].from # r
    BY <1>1, <1>2, <1>21 DEF Unanswered, Move, Waiting, Fits, Client, Place
  <2>3. \A i \in DOMAIN queue : StillAsking(queue[i])
    BY <1>1, <2>1, <2>2 DEF StillAsking, Fits
  <2>4. r \notin members \cup told
    BY <1>1, <2>2 DEF Runs, Gone
  <2>5. Runs'
    BY <1>1, <2>1, <2>2, <2>4 DEF Runs, Gone
  <2> QED BY <2>1, <2>3, <2>5, CaLeft
<1>22. ASSUME NEW r \in Run, NEW c \in Conns, NEW p \in Phases, UNCHANGED <<caUp, epoch, table, files, told, got, members>>,
              phase[r] \in {"idle", "signed"}, Move(r, p), p # "online",
              queue' = queue \/ (caUp /\ queue' = Append(queue, c)),
              Client(c), c.from = r, c.name = entered[r], queue' = queue \/ p = Place(c)
       PROVE  Inv'
  <2>1. \A q \in Run \ {r} : phase'[q] = phase[q]
    BY <1>1, <1>22 DEF Move
  <2>2. \A i \in DOMAIN queue : Client(queue[i]) => queue[i].from # r
    BY <1>1, <1>2, <1>22 DEF Fits, Place
  <2>3. \A i \in DOMAIN queue : StillAsking(queue[i])
    BY <1>1, <1>22, <2>1, <2>2 DEF StillAsking, Fits
  <2>4. r \notin members \cup told
    BY <1>1, <1>22 DEF Runs, Gone
  <2>5. Runs'
    BY <1>1, <1>22, <2>1, <2>4 DEF Runs, Gone
  <2>6. CASE queue' = queue
    BY <1>22, <2>3, <2>5, <2>6, CaLeft
  <2>7. CASE caUp /\ queue' = Append(queue, c) /\ p = Place(c)
    <3>1. phase'[r] = p
      BY <1>1, <1>22 DEF Move
    <3>2. c.kind # "delete" /\ Place(c)' = Place(c) /\ Client(c)' = Client(c)
      BY <1>22 DEF Client, Place
    <3>3. Fits(c)'
      <4>1. entered' = entered
        BY <1>1, <1>22, Onward
      <4> QED BY <1>22, <2>4, <2>7, <3>1, <3>2, <4>1 DEF Fits
    <3> QED BY <1>22, <2>2, <2>3, <2>5, <2>7, <3>3, CaLeft
  <2> QED BY <1>22, <2>6, <2>7
<1>23. ASSUME NEW r \in Run, Enrol(r) \/ Download(r) PROVE Inv'
  <2>1. entered[r] \in Name
    BY <1>1
  <2>6. PICK c \in Conns : c = Conn(IF Enrol(r) THEN "csr" ELSE "root", r, entered[r])
    BY <2>1, ConnType
  <2>2. c \in Conns /\ Client(c) /\ c.from = r /\ c.name = entered[r]
        /\ Place(c) = IF Enrol(r) THEN "asking" ELSE "fetching"
    BY <2>6 DEF Conn, Client, Place
  <2>3. UNCHANGED <<caUp, epoch, table, files, told, got, members>>
    BY <1>23 DEF Enrol, Download, srvVars
  <2>4. phase[r] \in {"idle", "signed"} /\ (Enrol(r) => phase[r] = "idle") /\ (Download(r) => phase[r] = "signed")
    BY <1>23 DEF Enrol, Download
  <2>5. \E p \in Phases : Move(r, p) /\ p # "online"
           /\ (queue' = queue \/ (caUp /\ queue' = Append(queue, c) /\ p = Place(c)))
    BY <1>23, <2>2, <2>4, <2>6 DEF Enrol, Download, Phases
  <2> QED BY <1>22, <2>2, <2>3, <2>4, <2>5
<1> QED
  BY <1>6, <1>9, <1>10, <1>11, <1>12, <1>13, <1>14, <1>15, <1>16, <1>18, <1>19, <1>20, <1>21, <1>23
     DEF Next, CaNext, ServerNext, ClientCode

LEMMA StutterInv == Inv /\ UNCHANGED vars => Inv'
<1> SUFFICES ASSUME Inv, UNCHANGED vars PROVE Inv'
  OBVIOUS
<1> USE DEF Inv, vars, caVars, srvVars, runVars
<1>1. TypeOK'
  BY DEF TypeOK
<1>2. TableBacked' /\ Holders'
  BY DEF TableBacked, Holders, StoredAs
<1>3. Requests'
  BY DEF Requests, Fits, Client, Place, Gone, Proper
<1>4. Runs' /\ ToldIsForgotten'
  BY DEF Runs, ToldIsForgotten, Deleting, Gone, Proper
<1>5. KeptWhileAlone'
  BY DEF KeptWhileAlone, Alone, Gone, StoredAs
<1> QED BY <1>1, <1>2, <1>3, <1>4, <1>5

\* The strengthened invariant holds of every behaviour of the CA, the server and the runs.
THEOREM Invariant == Spec => []Inv
<1>1. Init => Inv
  BY InitInv
<1>2. Inv /\ [Next]_vars => Inv'
  BY NextInv, StutterInv
<1> QED BY <1>1, <1>2, PTL DEF Spec

\* The variables of the CA model keep their types: no entry loses its certificate.
THEOREM TypesCorrect == Spec => []TypeOK
<1>1. Inv => TypeOK
  BY DEF Inv
<1> QED BY <1>1, Invariant, PTL

\* Table and files of the CA agree through enrolments, replacements, deletions and restarts.
THEOREM TableAgreesWithFiles == Spec => []TableBacked
<1>1. Inv => TableBacked
  BY DEF Inv
<1> QED BY <1>1, Invariant, PTL

\* A departure the CA was told of leaves no entry, or its deletion is still waiting.
THEOREM ReportedIsForgotten == Spec => []ToldIsForgotten
<1>1. Inv => ToldIsForgotten
  BY DEF Inv
<1> QED BY <1>1, Invariant, PTL

\* The certificate of a run that is alone under its name is kept while the CA runs.
THEOREM CertificateIsKept == Spec => []KeptWhileAlone
<1>1. Inv => KeptWhileAlone
  BY DEF Inv
<1> QED BY <1>1, Invariant, PTL

\* The number whose sign decides whether the server reads its certificate.
LEMMA CertificateIsRead == ReadsCertificate
<1>1. Swapped(CertLen) = <<10, 3, 0, 0>>
  BY DEF Swapped, Reverse, CertLen
<1> QED BY <1>1 DEF ReadsCertificate, Negative

\* Whenever the CA answers the server's request, the server has a certificate of the root key.
THEOREM ServerHasCertificate == Spec => ServerProves
<1>1. ASSUME srv = "enrolling", srv' = "up", Waiting(Server, "server"), Next
      PROVE  srvCert' = Cert(ServerName, Server)
  <2>1. ServeServer
    BY <1>1, Zenon DEF Next, CaNext, TurnAway, ServerNext, ClientCode, ServeCsr, ServeRoot, ServeDelete, ServeCutOff,
            CaStop, CaStart, ServerUnanswered, ServerStart, ServerStop, Quit, Register, Reject, Enrol, Write,
            Unanswered, Download, Leave, srvVars, ServerEnds
  <2> QED BY <1>1, <2>1, CertificateIsRead DEF ServeServer
<1>2. [Next]_vars => [srv = "enrolling" /\ srv' = "up" /\ Waiting(Server, "server") =>
                       srvCert' = Cert(ServerName, Server)]_vars
  BY <1>1 DEF vars, srvVars
<1> QED BY <1>2, PTL DEF Spec, ServerProves

================================================================================
