------------------------------ MODULE MatrixServer ------------------------------
(* Vylegzhanin_FE's server: a select loop over the clients, and a database of  *)
(* matrices that is written to its file when the server object is destroyed.   *)
EXTENDS Matrices, SequencesExt, FiniteSetsExt

CONSTANTS Fd,       \* descriptors, one for every client that ever comes
          Listener, \* server_fd_
          Sent,     \* the matrices that clients send
          MaxHandled \* bounds the messages that are sent and not lost

(* What the constants must satisfy.                                            *)
MatrixAssumption ==
  /\ Fd \subseteq Nat /\ Listener \notin Fd /\ MaxHandled \in Nat
  /\ \A a \in Sent : IsMatrix(a)

VARIABLES up, time_to_stop,
          data,     \* data_: the sets of all widths together
          file,     \* temp.dbase: of every width, its matrices in the order of the set
          clients,  \* clients_
          rfds,     \* rfds_ after select
          it,       \* position of the loop over the clients, 0 outside it
          pending,  \* a connection waits for accept
          conn,     \* of a descriptor: "unused", "open", "gone"
          message,  \* what has come in: NoMessage, or a message, whole or not
          handled,
          stored    \* history: matrices a client was told are in, and which no one cleared

vars == << up, time_to_stop, data, file, clients, rfds, it, pending, conn, message, handled, stored >>

NoMessage == [code |-> "none"]
Standard(mat, whole) == [code |-> "Q_STANDARD", mat |-> mat, whole |-> whole]
(* Beside the codes of the protocol: another number, and a message whose       *)
(* length is BUFFER_SIZE, the only one that is refused as too long.            *)
Plain == {[code |-> c] : c \in {"Q_CLEAR", "Q_SHUTDOWN", "unknown", "too_long"}}

-------------------------------------------------------------------------------
(* The database.                                                               *)
MatricesWithWidth(d, m) == {a \in d : a.m = m}

(* Mutant: it is the columns that are looked up.                               *)
MultiplierByWidth(mat) == MatricesWithWidth(data, mat.m)

(* What a matrix is multiplied by; without any it is inserted.                 *)
Multipliers(mat) == MatricesWithWidth(data, mat.n)

InteractWithMatrix(mat) ==
  IF Multipliers(mat) = {} THEN (data \ MatricesWithWidth(data, mat.m)) \cup InsertMatrix(MatricesWithWidth(data, mat.m), mat)
  ELSE data

SaveToFile ==
  [m \in {a.m : a \in data} |->
     LET set == InOrder(MatricesWithWidth(data, m))
     IN [i \in DOMAIN set |-> [n |-> set[i].n, ints |-> WriteToOstream(set[i])]]]

ReadSet(list, m) ==
  LET upTo[k \in 0 .. Len(list)] ==
        IF k = 0 THEN {} ELSE InsertMatrix(upTo[k - 1], FromStream(list[k].n, m, list[k].ints))
  IN upTo[Len(list)]

ReloadFromFile(f) == UNION {ReadSet(f[m], m) : m \in DOMAIN f}

-------------------------------------------------------------------------------
Quiet == /\ clients' = << Listener >> /\ rfds' = {} /\ it' = 0 /\ pending' = FALSE /\ time_to_stop' = FALSE
         /\ conn' = [fd \in Fd |-> "unused"] /\ message' = [fd \in Fd |-> NoMessage]

Init ==
  /\ up = TRUE /\ time_to_stop = FALSE /\ data = {} /\ file = << >>
  /\ clients = << Listener >> /\ rfds = {} /\ it = 0 /\ pending = FALSE
  /\ conn = [fd \in Fd |-> "unused"] /\ message = [fd \in Fd |-> NoMessage]
  /\ handled = 0 /\ stored = {}

(* MainLoop has ended, however it was: the destructor saves.                   *)
Off == up' = FALSE /\ file' = SaveToFile /\ data' = {} /\ Quiet

(* A signal, and SIGPIPE is one, ends the process without it.                  *)
Dies == /\ up' = FALSE /\ data' = {} /\ stored' = ReloadFromFile(file) /\ Quiet
        /\ UNCHANGED file

Killed == up /\ Dies /\ UNCHANGED handled

Start ==
  /\ ~up /\ up' = TRUE /\ data' = ReloadFromFile(file)
  /\ UNCHANGED << time_to_stop, file, clients, rfds, it, pending, conn, message, handled, stored >>

-------------------------------------------------------------------------------
(* The clients.  client.py sends one message and waits for the answer; one     *)
(* that is killed may leave half a message behind.                             *)
Server == << up, time_to_stop, data, file, clients, rfds, it, handled, stored >>

Connect ==
  /\ up /\ ~pending /\ (\E fd \in Fd : conn[fd] = "unused") /\ pending' = TRUE
  /\ UNCHANGED << Server, conn, message >>

Send(fd, msg) ==
  /\ up /\ conn[fd] = "open" /\ message[fd] = NoMessage
  /\ handled + Cardinality({f \in Fd : message[f] # NoMessage}) < MaxHandled
  /\ message' = [message EXCEPT ![fd] = msg] /\ UNCHANGED << Server, pending, conn >>

Finish(fd) ==
  /\ up /\ conn[fd] = "open" /\ message[fd].code = "Q_STANDARD"
  /\ message' = [message EXCEPT ![fd] = Standard(@.mat, TRUE)] /\ UNCHANGED << Server, pending, conn >>

Leave(fd) ==
  /\ up /\ conn[fd] = "open" /\ conn' = [conn EXCEPT ![fd] = "gone"]
  /\ UNCHANGED << Server, pending, message >>

-------------------------------------------------------------------------------
(* MainLoop.  A round visits the clients that select has found, then accepts.  *)
Readable == {fd \in Fd : conn[fd] = "gone" \/ message[fd] # NoMessage} \cap Range(clients)

Select ==
  /\ up /\ it = 0 /\ (Readable # {} \/ pending)
  /\ rfds' = Readable \cup (IF pending THEN {Listener} ELSE {}) /\ it' = 2
  /\ UNCHANGED << up, time_to_stop, data, file, clients, pending, conn, message, handled, stored >>

Visited == {i \in it .. Len(clients) : clients[i] \in rfds}
Fit(i) == up /\ it # 0 /\ Visited # {} /\ i = Min(Visited)

(* With its descriptor a client takes its place in the vector: the next one    *)
(* moves there and waits for the next round.                                   *)
Forget(i) ==
  /\ Fit(i) /\ conn[clients[i]] = "gone" /\ message[clients[i]] = NoMessage
  /\ clients' = RemoveAt(clients, i) /\ it' = i + 1
  /\ UNCHANGED << up, time_to_stop, data, file, rfds, pending, conn, message, handled, stored >>

Handles(i, code) ==
  /\ Fit(i) /\ message[clients[i]].code = code /\ handled' = handled + 1

Goes(i) ==
  /\ message' = [message EXCEPT ![clients[i]] = NoMessage] /\ it' = i + 1
  /\ UNCHANGED << up, file, clients, rfds, pending, conn >>

(* An answer is several writes: the later ones to a client that has gone may   *)
(* raise SIGPIPE.                                                              *)
AnswerKills(i) == conn[clients[i]] = "gone" /\ Dies

Interact(i, mat) ==
  /\ data' = InteractWithMatrix(mat)
  /\ stored' = IF Multipliers(mat) = {} THEN stored \cup {mat} ELSE stored
  /\ UNCHANGED time_to_stop

(* A message that was cut: its own answer is sent, and what is in the buffer   *)
(* is handled all the same: what has come and then zeros, without dimensions   *)
(* no matrix.  recv waits for the rest as long as the client is there.            *)
HandleQuery(i) ==
  LET msg == message[clients[i]]
  IN /\ Handles(i, "Q_STANDARD")
     /\ msg.whole \/ conn[clients[i]] = "gone"
     /\ \/ /\ Goes(i)
           /\ \/ msg.whole /\ Interact(i, msg.mat)
              \/ ~msg.whole /\ \E came \in 0 .. msg.mat.n * msg.mat.m - 1 : Interact(i, FromBuffer(msg.mat, came))
              \/ ~msg.whole /\ UNCHANGED << data, stored, time_to_stop >>
        \/ AnswerKills(i)

ClearDatabase(i) ==
  /\ Handles(i, "Q_CLEAR")
  /\ \/ Goes(i) /\ data' = {} /\ stored' = {} /\ UNCHANGED time_to_stop
     \/ AnswerKills(i)

Shutdown(i) ==
  /\ Handles(i, "Q_SHUTDOWN")
  /\ \/ Goes(i) /\ time_to_stop' = TRUE /\ UNCHANGED << data, stored >>
     \/ AnswerKills(i)

(* Nothing is answered.                                                        *)
Unknown(i) == Handles(i, "unknown") /\ Goes(i) /\ UNCHANGED << data, stored, time_to_stop >>

(* QueryException leaves the loop: the client is told, the server is off.      *)
TooLong(i) ==
  /\ Handles(i, "too_long")
  /\ \/ Off /\ UNCHANGED stored
     \/ AnswerKills(i)

NewFd == Min({fd \in Fd : conn[fd] = "unused"})

EndOfRound ==
  /\ up /\ it # 0 /\ Visited = {} /\ UNCHANGED << handled, stored >>
  /\ IF time_to_stop THEN Off
     ELSE /\ it' = 0 /\ rfds' = {} /\ UNCHANGED << up, time_to_stop, data, file, message >>
          /\ IF Listener \in rfds
             THEN /\ clients' = Append(clients, NewFd) /\ conn' = [conn EXCEPT ![NewFd] = "open"]
                  /\ pending' = FALSE
             ELSE UNCHANGED << clients, conn, pending >>

InteractWithCurrentClient ==
  \E i \in DOMAIN clients :
    Forget(i) \/ HandleQuery(i) \/ ClearDatabase(i) \/ Shutdown(i) \/ Unknown(i) \/ TooLong(i)

Client ==
  \/ Connect
  \/ \E fd \in Fd : Finish(fd) \/ Leave(fd) \/ \E msg \in Plain \cup {Standard(a, FALSE) : a \in Sent} : Send(fd, msg)

Next == Client \/ Select \/ InteractWithCurrentClient \/ EndOfRound \/ Start \/ Killed

Spec == Init /\ [][Next]_vars

-------------------------------------------------------------------------------
(* README: the products with a matrix are returned, "if the list is empty, the *)
(* matrix is added": of two matrices in the database at most one could have    *)
(* been multiplied by the other as it came, so no two, and no three in a ring, *)
(* multiply each other both ways round, after whatever clears and restarts.    *)
(* The order of the set tells any two apart, no product that is asked for      *)
(* throws, and one by one or multiplied before, two of them give the same.     *)
(* And a matrix the client was told of is there until someone clears or a      *)
(* signal ends the process: every other end of MainLoop saves it.              *)
MatricesKept ==
  /\ \A a, b \in data : a # b /\ a.n = b.m =>
       b.n # a.m /\ \A c \in data \ {a, b} : ~(b.n = c.m /\ c.n = a.m)
  /\ \A a, b \in data : a # b => Less(a, b) # Less(b, a)
  /\ \A mat \in Sent : \A a \in Multipliers(mat) :
       /\ Consistent(a, mat)
       /\ \A b \in Multipliers(a) : Product(b, Product(a, mat)) = Product(Product(b, a), mat)
  /\ up => stored \subseteq data
================================================================================
