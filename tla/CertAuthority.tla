----------------------------- MODULE CertAuthority -----------------------------
(***************************************************************************)
(* The certificate authority (src/cert-auth/cert-auth.c, services.c): one  *)
(* process that serves one connection at a time from its accept queue,     *)
(* signs requests, keeps the certificates in users[] and in files, and     *)
(* deletes them when the chat server reports that a user left.  With it,   *)
(* as far as it meets the CA: the chat server, which enrols at start-up    *)
(* (server.c) and sends the deletions (users.c), and the runs of the       *)
(* client, which enrol, fetch the root certificate, validate the server's  *)
(* (src/client/cert.c) and register.                                       *)
(*                                                                         *)
(* The key the CA generates at each start is the number of the start.  A   *)
(* certificate is its subject, the holder of its key and the root key that *)
(* signed it.  The answer of the CA reaches a waiting client in the step   *)
(* that writes it.  Request 3 (look up) is sent by nobody and changes      *)
(* nothing, so it is left out.                                             *)
(***************************************************************************)
EXTENDS Naturals, Sequences, SequencesExt

CONSTANTS
    Run,             \* runs of the client program
    Name,            \* usernames
    Entering,         \* bound: who may enter which name, as functions from runs to names
    Cut,             \* Cut[n]: the first MAX_USERNAME - 1 bytes of n
    Nameless,        \* names of which no common name is made: empty, or longer than 64 bytes
    Server,          \* the chat server as holder of a certificate
    ServerName,      \* its common name, "chat-app-server"
    None,            \* no certificate, no file, NULL
    MaxUsers,        \* MAX_USERS of cert-auth/services.h
    MaxStarts,       \* bound: how often the CA is started
    MaxServerStarts  \* bound: how often the server is started

ASSUME RunAssumption == Entering \subseteq [Run -> Name] /\ Server \notin Run
ASSUME NameAssumption ==
    /\ ServerName \in Name \ Nameless /\ Cut[ServerName] = ServerName
    /\ Cut \in [Name -> Name] /\ \A n \in Name : Cut[Cut[n]] = Cut[n]
ASSUME NoneAssumption ==
    None \notin [name : Name, holder : Run \cup {Server}, root : Nat \ {0}]
ASSUME BoundAssumption == {MaxUsers, MaxStarts, MaxServerStarts} \subseteq Nat \ {0}

VARIABLES
    \* the CA
    caUp,      \* the process runs
    epoch,     \* number of its starts, and of the root key it generated last
    table,     \* users[0..user_count-1]
    files,     \* files[n]: what cert-key/users/n.crt holds
    queue,     \* connections in the order they were made
    \* the chat server
    srv,       \* "down", "enrolling" or "up"
    srvCert,   \* server_cert
    starts,    \* number of its starts
    members,   \* the runs in users[] of the server
    \* the client runs
    entered,   \* the name the user entered
    phase,     \* where each is
    wrote,     \* how much of its request it has written
    got,       \* the certificate it was sent
    root,      \* the root key it downloaded
    \* history
    told       \* runs whose departure was reported to the CA

caVars  == <<caUp, epoch, table, files, queue>>
srvVars == <<srv, srvCert, starts, members>>
runVars == <<entered, phase, wrote, got, root>>
vars    == <<caVars, srvVars, runVars, told>>

Cert(n, h) == [name |-> n, holder |-> h, root |-> epoch]
Certs      == [name : Name, holder : Run \cup {Server}, root : Nat \ {0}]
Conn(k, r, n) == [kind |-> k, from |-> r, name |-> n]

\* A client that fails to add the common name goes on: the CA then finds what its stack held,
\* often the name it read last.
StoredAs(n) == IF n \in Nameless THEN {Cut[m] : m \in Name} ELSE {Cut[n]}

\* What the server takes for a name of a user.
Proper(n) == n \notin Nameless /\ Cut[n] = n

Gone(r) == phase[r] = "gone"
Move(r, p) == phase' = [phase EXCEPT ![r] = p]
Waiting(h, k) == \E i \in DOMAIN queue : queue[i].kind = k /\ queue[i].from = h
Deleting(n)   == \E i \in DOMAIN queue : queue[i].kind = "delete" /\ queue[i].name = n

\* register_client repeats its name loop for a client whose name is taken, and the server
\* does nothing else meanwhile.
Serving == srv = "up" /\ \A r \in Run : phase[r] # "refused"

--------------------------------------------------------------------------------
(* The table, 0 for -1 *)

\* Seeded fault: the loop ends one entry early.
FindEntryShort(n) ==
    IF \E i \in 1..(Len(table) - 1) : table[i].name = n
    THEN CHOOSE i \in 1..(Len(table) - 1) : table[i].name = n
    ELSE 0

\* Seeded fault: strcmp without == 0.
FindEntryOther(n) ==
    IF \E i \in DOMAIN table : table[i].name # n
    THEN CHOOSE i \in DOMAIN table : table[i].name # n
    ELSE 0

FindEntry(n) ==
    IF \E i \in DOMAIN table : table[i].name = n
    THEN CHOOSE i \in DOMAIN table : table[i].name = n
    ELSE 0

\* Seeded fault: a new entry whatever find_user_certificate said.
StoreAppend(n, c) == Append(table, [name |-> n, cert |-> c])

\* The entry of n is replaced, or a new one appended.
Store(n, c) ==
    IF FindEntry(n) = 0
    THEN Append(table, [name |-> n, cert |-> c])
    ELSE [table EXCEPT ![FindEntry(n)].cert = c]

\* Seeded fault: the certificate is freed and nothing else.
DeleteKeepsEntry(n) ==
    IF FindEntry(n) = 0 THEN UNCHANGED <<table, files>>
    ELSE /\ table' = [table EXCEPT ![FindEntry(n)].cert = None]
         /\ files' = [files EXCEPT ![n] = None]

\* delete_user_certificate: without an entry neither table nor file is touched.
Delete(n) ==
    IF FindEntry(n) = 0 THEN UNCHANGED <<table, files>>
    ELSE /\ table' = RemoveAt(table, FindEntry(n))
         /\ files' = [files EXCEPT ![n] = None]

--------------------------------------------------------------------------------
Init ==
    /\ caUp = TRUE /\ epoch = 1 /\ table = <<>> /\ queue = <<>>
    /\ files = [n \in Name |-> None]
    /\ srv = "down" /\ srvCert = None /\ starts = 0 /\ members = {}
    /\ entered \in Entering
    /\ phase = [r \in Run |-> "idle"] /\ wrote = [r \in Run |-> "none"]
    /\ got = [r \in Run |-> None] /\ root = [r \in Run |-> 0]
    /\ told = {}

--------------------------------------------------------------------------------
(* The CA *)

\* The process ends: the table and the waiting connections go with it, the files stay.
CaDown == caUp' = FALSE /\ table' = <<>> /\ queue' = <<>> /\ UNCHANGED epoch
CaEnds == CaDown /\ UNCHANGED files

CaStop == caUp /\ CaEnds /\ UNCHANGED <<srvVars, runVars, told>>

\* A start generates a new root key and an empty table; it does not read the files.
CaStart ==
    /\ ~caUp /\ epoch < MaxStarts
    /\ caUp' = TRUE /\ epoch' = epoch + 1
    /\ UNCHANGED <<table, files, queue, srvVars, runVars, told>>

\* The connection at the head of the queue is accepted, served and closed.
Serve(k) == caUp /\ queue # <<>> /\ Head(queue).kind = k
Next1    == queue' = Tail(queue) /\ UNCHANGED <<caUp, epoch>>

\* Seeded fault: the certificate is saved only with a new entry.
SignSavesOnce(h, n, m) ==
    /\ table' = Store(m, Cert(n, h))
    /\ files' = [files EXCEPT ![m] = IF FindEntry(m) = 0 THEN Cert(n, h) ELSE @]
    /\ Next1

\* A certificate for n is made for the holder h, stored under m and saved.  A new name in a
\* full table is written behind users[], which the process may not survive.
Save(h, n, m) == files' = [files EXCEPT ![m] = Cert(n, h)]
Sign(h, n, m) ==
    \/ table' = Store(m, Cert(n, h)) /\ Save(h, n, m) /\ Next1
    \/ FindEntry(m) = 0 /\ Len(table) >= MaxUsers /\ CaEnds

\* Clients whose whole request is there, and those that ended before they wrote all of it.
Complete(r) == r = Head(queue).from /\ wrote[r] = "all"
CutOff(r)   == r = Head(queue).from /\ wrote[r] # "all" /\ Gone(r)

\* If the client is gone when it is answered, SIGPIPE may end the process; so may a common name
\* that was never set, which need not end within its buffer.
ServeCsr ==
    /\ Serve("csr")
    /\ \E r \in Run : \E m \in StoredAs(entered[r]) :
         /\ Complete(r)
         /\ \/ /\ Sign(r, entered[r], m)
               /\ IF Gone(r) \/ ~caUp' THEN UNCHANGED <<phase, got>>
                  ELSE Move(r, "signed") /\ got' = [got EXCEPT ![r] = Cert(entered[r], r)]
            \/ Gone(r) /\ Save(r, entered[r], m) /\ CaDown /\ UNCHANGED <<phase, got>>
            \/ entered[r] \in Nameless /\ CaEnds /\ UNCHANGED <<phase, got>>
    /\ UNCHANGED <<srvVars, entered, wrote, root, told>>

ServeRoot ==
    /\ Serve("root")
    /\ \E r \in Run :
         /\ Complete(r)
         /\ \/ /\ Next1 /\ UNCHANGED <<table, files>>
               /\ IF Gone(r) THEN UNCHANGED <<phase, root>>
                  ELSE Move(r, "joining") /\ root' = [root EXCEPT ![r] = epoch]
            \/ Gone(r) /\ CaEnds /\ UNCHANGED <<phase, root>>
    /\ UNCHANGED <<srvVars, entered, wrote, got, told>>

ServeDelete ==
    /\ Serve("delete")
    /\ Delete(Head(queue).name)
    /\ Next1
    /\ UNCHANGED <<srvVars, runVars, told>>

\* Seeded fault: the read is repeated until the request is there.
ServeCutOffWaits == FALSE

\* The results of read() are ignored.  With no request at all, `request` is what the stack
\* held: most values mean nothing, some make the process parse what is not there.  With a
\* request and no CSR, d2i_X509_REQ returns NULL, which is dereferenced.
ServeCutOff ==
    /\ Serve("csr") \/ Serve("root")
    /\ \E r \in Run :
         /\ CutOff(r)
         /\ \/ wrote[r] = "none" /\ Next1 /\ UNCHANGED <<table, files>>
            \/ CaEnds
    /\ UNCHANGED <<srvVars, runVars, told>>

--------------------------------------------------------------------------------
(* The server's enrolment: its lengths are in network order, those of the CA in the order *)
(* of the host.  A 32-bit length is its four bytes, the most significant first.           *)

Swapped(len) == Reverse(len)     \* htonl, ntohl on the hosts the images are built for
Negative(len) == len[1] >= 128   \* as an int

CsrLen  == <<0, 0, 2, 139>>      \* 651 bytes
\* Seeded fault: 128 bytes more, say for an extension.
LongerCertLen == <<0, 0, 3, 138>>
CertLen == <<0, 0, 3, 10>>       \* 778 bytes

\* The CA asks malloc for as many bytes as the swapped length says; without them it ends.
HugeRequest == Swapped(CsrLen)[1] # 0

\* read_all takes its length as an int: a negative one reads nothing, one that is too large
\* reads until the CA closes the connection.
ReadsCertificate == ~Negative(Swapped(CertLen))

\* generate_server_key, generate_server_csr, connect and the three writes.  Without a CA the
\* first write ends the process, or, as process 1 of its container, it goes on to listen.
ServerStart ==
    /\ srv = "down" /\ starts < MaxServerStarts
    /\ starts' = starts + 1 /\ members' = {} /\ srvCert' = None
    /\ \/ caUp /\ srv' = "enrolling" /\ queue' = Append(queue, Conn("server", Server, ServerName))
       \/ ~caUp /\ srv' \in {"up", "down"} /\ UNCHANGED queue
    /\ UNCHANGED <<caUp, epoch, table, files, runVars, told>>

ServeServer ==
    /\ Serve("server")
    /\ \/ /\ Sign(Server, ServerName, ServerName)
          /\ IF ~caUp' THEN UNCHANGED <<srv, srvCert>>
             ELSE srv' = "up" /\ srvCert' = IF ReadsCertificate THEN Cert(ServerName, Server) ELSE None
       \/ HugeRequest /\ CaEnds /\ UNCHANGED <<srv, srvCert>>
    /\ UNCHANGED <<starts, members, runVars, told>>

\* The CA ended before it answered: the server has no certificate and listens all the same,
\* or a write to the closed connection ended it.
ServerUnanswered ==
    /\ srv = "enrolling" /\ ~Waiting(Server, "server")
    /\ srv' \in {"up", "down"}
    /\ UNCHANGED <<caVars, srvCert, starts, members, runVars, told>>

\* The server ends; the clients it served find their connections closed.
ServerEnds ==
    /\ srv' = "down" /\ members' = {}
    /\ phase' = [r \in Run |-> IF phase[r] \in {"online", "refused"} THEN "gone" ELSE phase[r]]
    /\ UNCHANGED <<srvCert, starts, wrote, entered, got, root>>

ServerStop == srv = "up" /\ ServerEnds /\ UNCHANGED <<caVars, told>>

\* Seeded fault: a user who is gone is removed without the message to the CA.
QuitUntold(r) ==
    /\ Serving /\ r \in members /\ Gone(r)
    /\ members' = members \ {r} /\ told' = told \cup {r}
    /\ UNCHANGED <<caVars, srv, srvCert, starts, runVars>>

\* service_quit: the CA is sent the name, and the user is removed.  Without a CA the name of
\* its host, or the connection, is missing, which may end the server.
Quit(r) ==
    /\ Serving /\ r \in members /\ Gone(r)
    /\ \/ /\ caUp
          /\ queue' = Append(queue, Conn("delete", Server, entered[r]))
          /\ told' = told \cup {r}
          /\ members' = members \ {r}
          /\ UNCHANGED <<caUp, epoch, table, files, srv, srvCert, starts, runVars>>
       \/ /\ ~caUp
          /\ members' = members \ {r}
          /\ UNCHANGED <<caVars, told, srv, srvCert, starts, runVars>>
       \/ ~caUp /\ ServerEnds /\ UNCHANGED <<caVars, told>>

--------------------------------------------------------------------------------
(* A run of the client *)

\* generate_client_csr and connect; the request follows in two writes.  Without a CA the write
\* to the unconnected socket ends the client, or it goes on without a certificate.
Enrol(r) ==
    /\ phase[r] = "idle"
    /\ \/ caUp /\ Move(r, "asking") /\ queue' = Append(queue, Conn("csr", r, entered[r]))
       \/ ~caUp /\ (Move(r, "signed") \/ Move(r, "gone")) /\ UNCHANGED queue
    /\ UNCHANGED <<caUp, epoch, table, files, srvVars, wrote, entered, got, root, told>>

\* The request number, and, when a certificate is asked for, the CSR after it.
Write(r) ==
    /\ phase[r] \in {"asking", "fetching"} /\ wrote[r] # "all"
    /\ wrote' = [wrote EXCEPT ![r] =
                   IF phase[r] = "asking" /\ @ = "none" THEN "some" ELSE "all"]
    /\ UNCHANGED <<caVars, srvVars, phase, entered, got, root, told>>

\* The CA ended before it answered: the client goes on with NULL, or SIGPIPE ends it.
Unanswered(r) ==
    /\ \/ phase[r] = "asking" /\ ~Waiting(r, "csr") /\ (Move(r, "signed") \/ Move(r, "gone"))
       \/ phase[r] = "fetching" /\ ~Waiting(r, "root") /\ (Move(r, "joining") \/ Move(r, "gone"))
    /\ UNCHANGED <<caVars, srvVars, wrote, entered, got, root, told>>

\* download_ca_certificate: a second connection.
Download(r) ==
    /\ phase[r] = "signed"
    /\ \/ /\ caUp /\ Move(r, "fetching") /\ wrote' = [wrote EXCEPT ![r] = "none"]
          /\ queue' = Append(queue, Conn("root", r, entered[r]))
       \/ /\ ~caUp /\ (Move(r, "joining") \/ Move(r, "gone"))
          /\ UNCHANGED <<wrote, queue>>
    /\ UNCHANGED <<caUp, epoch, table, files, srvVars, entered, got, root, told>>

\* validate_server_certificate: signed by the root key that was downloaded, and the name.
Valid(r) == srvCert # None /\ srvCert.root = root[r] /\ srvCert.name = ServerName

\* There is no server, or its certificate is missing or not valid.
Reject(r) ==
    /\ phase[r] = "joining" /\ (srv # "up" \/ (Serving /\ ~Valid(r)))
    /\ Move(r, "gone")
    /\ UNCHANGED <<caVars, srvVars, wrote, entered, got, root, told>>

\* register_client: the name is free, or it is not and the client asks for ever.
Register(r) ==
    /\ phase[r] = "joining" /\ Serving /\ Valid(r) /\ Proper(entered[r])
    /\ IF \E q \in members : entered[q] = entered[r]
       THEN Move(r, "refused") /\ UNCHANGED members
       ELSE Move(r, "online") /\ members' = members \cup {r}
    /\ UNCHANGED <<caVars, srv, srvCert, starts, wrote, entered, got, root, told>>

\* register_client closes the connection of a client whose name is empty or too long.  A long
\* one was decrypted into MAX_USERNAME bytes before, which the server may not survive.
TurnAway(r) ==
    /\ phase[r] = "joining" /\ Serving /\ Valid(r) /\ ~Proper(entered[r])
    /\ \/ Move(r, "gone") /\ UNCHANGED <<srvVars, wrote, entered, got, root>>
       \/ Cut[entered[r]] # entered[r] /\ ServerEnds
    /\ UNCHANGED <<caVars, told>>

\* The user leaves, or the run is killed, wherever it is.
Leave(r) ==
    /\ phase[r] \notin {"idle", "gone"} /\ Move(r, "gone")
    /\ UNCHANGED <<caVars, srvVars, wrote, entered, got, root, told>>

--------------------------------------------------------------------------------
CaNext     == ServeCsr \/ ServeRoot \/ ServeDelete \/ ServeServer \/ ServeCutOff
ServerNext == ServerUnanswered \/ \E r \in Run : Quit(r) \/ Register(r) \/ TurnAway(r) \/ Reject(r)
ClientCode(r) == Write(r) \/ Unanswered(r) \/ Download(r)

Next ==
    \/ CaNext \/ CaStop \/ CaStart
    \/ ServerNext \/ ServerStart \/ ServerStop
    \/ \E r \in Run : Enrol(r) \/ ClientCode(r) \/ Leave(r)

Spec == Init /\ [][Next]_vars

\* The three programs run while they can; nobody has to start or stop any of them, nor leave.
FairSpec == /\ Spec /\ WF_vars(CaNext) /\ WF_vars(ServerNext)
            /\ \A r \in Run : WF_vars(ClientCode(r))

--------------------------------------------------------------------------------
(* Properties *)

Phases == {"idle", "asking", "signed", "fetching", "joining", "online", "refused", "gone"}

\* Every variable has its type; no entry of the table is without its certificate.
TypeOK ==
    /\ caUp \in BOOLEAN /\ epoch \in 1..MaxStarts
    /\ table \in Seq([name : Name, cert : Certs])
    /\ files \in [Name -> Certs \cup {None}]
    /\ queue \in Seq([kind : {"csr", "root", "delete", "server"},
                      from : Run \cup {Server}, name : Name])
    /\ srv \in {"down", "enrolling", "up"} /\ srvCert \in Certs \cup {None}
    /\ starts \in 0..MaxServerStarts /\ members \subseteq Run
    /\ entered \in [Run -> Name]
    /\ phase \in [Run -> Phases] /\ wrote \in [Run -> {"none", "some", "all"}]
    /\ got \in [Run -> Certs \cup {None}] /\ root \in [Run -> 0..MaxStarts]
    /\ told \subseteq Run

\* The table of the CA has one entry per name, made since the CA started, and the file of
\* that name holds the same certificate, whatever was replaced, deleted or shifted since; it
\* is the name the certificate was made for, as far as the CA reads it.
TableBacked ==
    /\ \A i, j \in DOMAIN table : table[i].name = table[j].name => i = j
    /\ \A i \in DOMAIN table :
         /\ table[i].name \in StoredAs(table[i].cert.name) /\ table[i].cert.root = epoch
         /\ files[table[i].name] = table[i].cert

\* While a run has not left, and no run whose name the CA may store under the same one was
\* started, the CA keeps the certificate it signed for it, whoever else enrols, leaves, dies
\* half-way or is deleted.  Left out are names without a common name, which are stored under
\* any, and those that are cut to the server's.
Alone(r) == \A q \in Run \ {r} :
    StoredAs(entered[q]) \cap StoredAs(entered[r]) # {} => phase[q] = "idle"
KeptWhileAlone ==
    \A r \in Run :
      /\ caUp /\ got[r] # None /\ got[r].root = epoch
      /\ ~Gone(r) /\ Alone(r) /\ entered[r] \notin Nameless /\ Cut[entered[r]] # ServerName
      => \E i \in DOMAIN table : table[i] = [name |-> Cut[entered[r]], cert |-> got[r]]

\* Once the server reported a departure, the entry of that run is gone, or the report is
\* still waiting in the accept queue of the CA.
ToldIsForgotten ==
    \A r \in told : \A i \in DOMAIN table :
      table[i].cert.holder = r => Deleting(entered[r])

\* A server whose request the CA answers reads a certificate of the present root key, although
\* the two ends disagree on the byte order of every length they exchange.
ServerProves ==
    [][srv = "enrolling" /\ srv' = "up" /\ Waiting(Server, "server") =>
         srvCert' = Cert(ServerName, Server)]_vars

\* A run that asks for a certificate or the root is answered, or goes on without or ends,
\* whatever the runs before it in the accept queue did.
Answered == \A r \in Run : phase[r] \in {"asking", "fetching"} ~> phase[r] \notin {"asking", "fetching"}

\* The entry of a registered user who left disappears, unless the CA or the server ends, or
\* the server is held by a client whose name is taken.
Forgotten ==
    \A r \in Run : r \in members /\ Gone(r) ~>
      \/ r \notin members /\ \A i \in DOMAIN table : table[i].cert.holder # r
      \/ ~caUp \/ ~Serving

(* What the documentation promises and the code does not keep *)

\* DOCKER.md:208 the CA is responsible for "storing user certificates": the one it signed for a
\* user who is online is there, as long as it was not restarted and nobody who is there has a
\* name the CA stores under the same one.
MembersCertified ==
    \A r \in Run :
      /\ caUp /\ phase[r] = "online" /\ got[r] # None /\ got[r].root = epoch
      /\ \A q \in Run \ {r} :
           StoredAs(entered[q]) \cap StoredAs(entered[r]) # {} => phase[q] \in {"idle", "gone"}
      => \E i \in DOMAIN table : table[i].cert = got[r]

================================================================================
