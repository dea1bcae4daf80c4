--------------------------- MODULE SimpleServer_proofs ---------------------------
(***************************************************************************)
(* Proofs about SimpleServer: the server closes no connection that its      *)
(* client still wants, and runs no request for another client's pid, for    *)
(* any connections, descriptors, backlog and number of requests, and        *)
(* whoever types a wrong key, is killed or ends the server.                 *)
(***************************************************************************)
EXTENDS SimpleServer, Positions_proofs, FiniteSetTheorems

States == {"new", "dialed", "waitKey", "ready", "asked", "sending", "refused", "done", "gone"}
Packets == {"right", "wrong", "ask", "disconnect", "half", "exit", "rest"}
Points == {"select", "scan", "key", "keyDone", "read", "readDone", "hung", "dead"}

TypeOK ==
  /\ st \in [Conn -> States] /\ inbox \in [Conn -> Seq(Packets)]
  /\ queue \in Seq(Conn) /\ stale \in Seq(Fd)
  /\ DOMAIN owner \subseteq Fd /\ owner \in [DOMAIN owner -> Conn]
  /\ pc \in Points /\ cur = [fd |-> cur.fd, pid |-> cur.pid, msg |-> cur.msg]

(* A connection waits in the queue or has one descriptor, and has been made.   *)
Apart ==
  /\ \A f, g \in DOMAIN owner : owner[f] = owner[g] => f = g
  /\ \A i, j \in 1 .. Len(queue) : queue[i] = queue[j] => i = j
  /\ \A f \in DOMAIN owner : \A i \in 1 .. Len(queue) : owner[f] # queue[i]
  /\ \A f \in DOMAIN owner : st[owner[f]] # "new"
  /\ \A i \in 1 .. Len(queue) : st[queue[i]] \in {"dialed", "waitKey", "gone"}

(* What a client has sent and the server has not read.                         *)
Spoken ==
  \A c \in Conn :
    /\ st[c] \in {"new", "dialed", "ready", "done", "refused"} => inbox[c] = << >>
    /\ st[c] = "sending" => inbox[c] = << "half" >>

(* The descriptors of a round are looked at once each, and have something to   *)
(* read or to be told when they are.                                           *)
Round ==
  /\ ready \subseteq DOMAIN owner \cup {Listener}
  /\ \A f \in ready \ {Listener} : HasInput(f)
  /\ Listener \in ready => queue # << >>

(* Whom the handler under way serves, and how far it is.                       *)
Handling ==
  /\ pc \in {"key", "keyDone", "read", "readDone"} => cur.fd \in DOMAIN owner \ ready
  /\ pc # "dead" => \A f \in DOMAIN owner :
       st[owner[f]] \in {"dialed", "waitKey"} => pc = "key" /\ f = cur.fd
  /\ pc = "key" => st[owner[cur.fd]] \in {"dialed", "waitKey", "gone"}
  /\ pc = "keyDone" /\ cur.msg = "wrong" => st[owner[cur.fd]] \in {"refused", "gone"}
  /\ pc = "read" => inbox[owner[cur.fd]] # << >>
  /\ pc = "readDone" /\ cur.msg = "disconnect" => st[owner[cur.fd]] \in {"done", "gone"}

Over == {"refused", "done", "gone"}

(* As long as the process lives, what is to be closed is not wanted any more.  *)
Unwanted ==
  pc # "dead" => \A i \in 1 .. Len(stale) : stale[i] \in DOMAIN owner /\ st[owner[stale[i]]] \in Over

Inv == TypeOK /\ Apart /\ Spoken /\ Round /\ Handling /\ Unwanted

-----------------------------------------------------------------------------
LEMMA ServerInit == Init => Inv
<1> SUFFICES ASSUME Init PROVE Inv
  OBVIOUS
<1>1. st = [c \in Conn |-> "new"] /\ inbox = [c \in Conn |-> << >>]
      /\ queue = << >> /\ owner = << >> /\ stale = << >> /\ ready = {} /\ pc = "select"
      /\ cur = NoHandler
  BY DEF Init
<1>2. DOMAIN owner = {} /\ Len(queue) = 0 /\ Len(stale) = 0
  BY <1>1
<1>3. TypeOK
  <2>1. st \in [Conn -> States] /\ inbox \in [Conn -> Seq(Packets)]
    BY <1>1 DEF States
  <2>2. queue \in Seq(Conn) /\ stale \in Seq(Fd)
    BY <1>1
  <2>3. owner \in [DOMAIN owner -> Conn]
    BY <1>1
  <2> QED BY <1>1, <1>2, <2>1, <2>2, <2>3 DEF TypeOK, Points, NoHandler
<1>4. Apart /\ Round /\ Unwanted
  BY <1>1, <1>2 DEF Apart, Round, Unwanted
<1>5. Spoken /\ Handling
  BY <1>1, <1>2 DEF Spoken, Handling
<1> QED BY <1>3, <1>4, <1>5 DEF Inv

-----------------------------------------------------------------------------
(* The clients: a step of one that has been made before.                   *)
LEMMA ClientMoves ==
  ASSUME Inv, NEW c \in Conn, NEW s \in States, st[c] # "new", s # "new",
         st' = [st EXCEPT ![c] = s],
         inbox' \in [Conn -> Seq(Packets)],
         \A d \in Conn \ {c} : inbox'[d] = inbox[d],
         inbox[c] # << >> => inbox'[c] # << >>,
         UNCHANGED <<queue, serverVars>>,
         s \in {"dialed", "waitKey"} => st[c] \in {"dialed", "waitKey"},
         st[c] \in {"dialed", "waitKey"} => s \in {"waitKey", "gone"},
         st[c] \in Over => s \in {st[c], "gone"},
         s \in {"new", "dialed", "ready", "done", "refused"} => inbox'[c] = << >>,
         s = "sending" => inbox'[c] = << "half" >>,
         st[c] = "gone" => s = "gone"
  PROVE  Inv'
<1> USE DEF serverVars
<1>1. TypeOK'
  BY DEF Inv, TypeOK
<1>2. /\ st'[c] = s /\ \A d \in Conn \ {c} : st'[d] = st[d]
  BY DEF Inv, TypeOK
<1>3. (\A f \in DOMAIN owner : owner[f] \in Conn) /\ (\A i \in 1 .. Len(queue) : queue[i] \in Conn)
  BY DEF Inv, TypeOK
<1>4. \A i \in 1 .. Len(stale) : stale[i] \in Fd
  BY DEF Inv, TypeOK
<1>5. Apart'
  BY <1>2, <1>3 DEF Inv, Apart
<1>6. Spoken'
  BY <1>2 DEF Inv, Spoken
<1>7. Round'
  <2>1. ASSUME NEW f \in ready \ {Listener} PROVE HasInput(f)'
    <3>1. owner[f] \in Conn /\ (inbox[owner[f]] # << >> \/ st[owner[f]] = "gone")
      BY <1>3, <2>1 DEF Inv, Round, HasInput
    <3> QED BY <1>2, <3>1 DEF HasInput
  <2> QED BY <2>1 DEF Inv, Round
<1>8. Handling'
  BY <1>2, <1>3 DEF Inv, Handling, Over
<1>9. Unwanted'
  BY <1>2, <1>3 DEF Inv, Unwanted, Over
<1> QED BY <1>1, <1>5, <1>6, <1>7, <1>8, <1>9 DEF Inv

LEMMA SendAppends ==
  ASSUME TypeOK, NEW c \in Conn, NEW packet \in Packets, Send(c, packet)
  PROVE  /\ inbox' \in [Conn -> Seq(Packets)] /\ inbox'[c] = Append(inbox[c], packet)
         /\ inbox'[c] # << >> /\ \A d \in Conn \ {c} : inbox'[d] = inbox[d]
<1>1. inbox[c] \in Seq(Packets)
  BY DEF TypeOK
<1>2. Append(inbox[c], packet) \in Seq(Packets) /\ Append(inbox[c], packet) # << >>
  BY <1>1
<1> QED BY <1>2 DEF TypeOK, Send

LEMMA ClientInv ==
  ASSUME Inv, NEW c \in Conn, ClientStep(c)
  PROVE  Inv'
<1>1. TypeOK /\ st[c] \in States /\ inbox[c] \in Seq(Packets)
  BY DEF Inv, TypeOK
<1>2. /\ st[c] \in {"new", "dialed", "ready", "done", "refused"} => inbox[c] = << >>
      /\ st[c] = "sending" => inbox[c] = << "half" >>
  BY DEF Inv, Spoken
<1>3. CASE Connect(c)
  <2>1. /\ st[c] = "new" /\ st' = [st EXCEPT ![c] = "dialed"] /\ queue' = Append(queue, c)
        /\ inbox' = inbox /\ UNCHANGED serverVars
    BY <1>3 DEF Connect
  <2>2. st' \in [Conn -> States] /\ st'[c] = "dialed" /\ \A d \in Conn \ {c} : st'[d] = st[d]
    BY <1>1, <2>1 DEF TypeOK, States
  <2>3. /\ queue' \in Seq(Conn) /\ Len(queue') = Len(queue) + 1 /\ Len(queue) \in Nat
        /\ queue'[Len(queue) + 1] = c /\ \A i \in 1 .. Len(queue) : queue'[i] = queue[i] /\ queue[i] \in Conn
    BY <1>1, <2>1 DEF TypeOK
  <2>4. (\A f \in DOMAIN owner : owner[f] \in Conn /\ owner[f] # c) /\ \A i \in 1 .. Len(queue) : queue[i] # c
    BY <2>1 DEF Inv, TypeOK, Apart
  <2>5. TypeOK'
    BY <1>1, <2>1, <2>2, <2>3 DEF TypeOK, serverVars
  <2>6. Apart'
    <3>1. \A i \in 1 .. Len(queue') : i \in 1 .. Len(queue) \/ i = Len(queue) + 1
      BY <2>3
    <3>2. \A i, j \in 1 .. Len(queue') : queue'[i] = queue'[j] => i = j
      BY <2>3, <2>4, <3>1 DEF Inv, Apart
    <3>3. \A f \in DOMAIN owner : \A i \in 1 .. Len(queue') : owner[f] # queue'[i]
      BY <2>3, <2>4, <3>1 DEF Inv, Apart
    <3>4. \A i \in 1 .. Len(queue') : st'[queue'[i]] \in {"dialed", "waitKey", "gone"}
      BY <2>2, <2>3, <2>4, <3>1 DEF Inv, Apart
    <3>5. \A f \in DOMAIN owner : st'[owner[f]] # "new"
      BY <2>2, <2>4 DEF Inv, Apart
    <3> QED BY <2>1, <3>2, <3>3, <3>4, <3>5 DEF Inv, Apart, serverVars
  <2>7. Spoken'
    BY <1>2, <2>1, <2>2 DEF Inv, Spoken
  <2>8. Round'
    <3>1. queue' # << >>
      BY <2>3
    <3>2. ASSUME NEW f \in ready \ {Listener} PROVE HasInput(f)'
      <4>1. f \in DOMAIN owner /\ HasInput(f)
        BY <3>2 DEF Inv, Round
      <4> QED BY <2>1, <2>2, <2>4, <4>1 DEF HasInput, serverVars
    <3> QED BY <2>1, <3>1, <3>2 DEF Inv, Round, serverVars
  <2>9. Handling'
    BY <2>1, <2>2, <2>4 DEF Inv, Handling, serverVars
  <2>10. Unwanted'
    BY <2>1, <2>2, <2>4 DEF Inv, Unwanted, serverVars
  <2> QED BY <2>5, <2>6, <2>7, <2>8, <2>9, <2>10 DEF Inv
<1>4. CASE SendKey(c)
  <2> DEFINE packet == IF c \in BadKey THEN "wrong" ELSE "right"
  <2>1. packet \in Packets /\ Send(c, packet) /\ st[c] = "dialed" /\ st' = [st EXCEPT ![c] = "waitKey"]
        /\ UNCHANGED <<queue, serverVars>>
    BY <1>4 DEF SendKey, Packets
  <2> HIDE DEF packet
  <2>2. "waitKey" \in States
    BY DEF States
  <2> QED BY <1>1, <2>1, <2>2, SendAppends, ClientMoves DEF Over
<1>5. CASE Ask(c)
  <2>1. PICK r \in Requests(c) : Send(c, r) /\ st' = [st EXCEPT ![c] = IF r = "half" THEN "sending" ELSE "asked"]
    BY <1>5 DEF Ask
  <2>2. r \in Packets
    BY DEF Requests, Packets
  <2>3. st[c] = "ready" /\ UNCHANGED <<queue, serverVars>>
    BY <1>5 DEF Ask
  <2>4. inbox'[c] = << r >>
    BY <1>1, <1>2, <2>1, <2>2, <2>3, SendAppends
  <2>5. CASE r = "half"
    <3>1. "sending" \in States /\ st' = [st EXCEPT ![c] = "sending"]
      BY <2>1, <2>5 DEF States
    <3> QED BY <1>1, <2>1, <2>2, <2>3, <2>4, <2>5, <3>1, SendAppends, ClientMoves DEF Over
  <2>6. CASE r # "half"
    <3>1. "asked" \in States /\ st' = [st EXCEPT ![c] = "asked"]
      BY <2>1, <2>6 DEF States
    <3> QED BY <1>1, <2>1, <2>2, <2>3, <3>1, SendAppends, ClientMoves DEF Over
  <2> QED BY <2>5, <2>6
<1>6. CASE SendRest(c)
  <2>1. "rest" \in Packets /\ Send(c, "rest") /\ st[c] = "sending" /\ st' = [st EXCEPT ![c] = "asked"]
        /\ UNCHANGED <<queue, serverVars>>
    BY <1>6 DEF SendRest, Packets
  <2>2. "asked" \in States
    BY DEF States
  <2> QED BY <1>1, <2>1, <2>2, SendAppends, ClientMoves DEF Over
<1>7. CASE Leave(c) \/ Killed(c)
  <2>1. st[c] # "new" /\ st' = [st EXCEPT ![c] = "gone"] /\ inbox' = inbox /\ UNCHANGED <<queue, serverVars>>
    BY <1>7 DEF Leave, Killed
  <2>2. "gone" \in States /\ inbox' \in [Conn -> Seq(Packets)]
    BY <1>1, <2>1 DEF States, TypeOK
  <2> QED BY <2>1, <2>2, ClientMoves DEF Over
<1> QED BY <1>3, <1>4, <1>5, <1>6, <1>7 DEF ClientStep

-----------------------------------------------------------------------------
(* The server.  Steps that change nothing of the clients.                  *)
LEMMA SelectInv == ASSUME Inv, Select PROVE Inv'
<1>1. /\ ready' = Readable /\ pc = "select" /\ pc' = "scan"
      /\ UNCHANGED <<st, inbox, queue, owner, stale, cur>>
  BY DEF Select, clientVars
<1>2. Listener \notin DOMAIN owner
  BY ServerAssumption DEF Inv, TypeOK, Listener
<1>3. TypeOK' /\ Apart' /\ Spoken' /\ Unwanted'
  BY <1>1 DEF Inv, TypeOK, Points, Apart, Spoken, Unwanted
<1>4. Round'
  BY <1>1, <1>2 DEF Round, Readable, HasInput
<1>5. Handling'
  BY <1>1 DEF Inv, Handling
<1> QED BY <1>3, <1>4, <1>5 DEF Inv

LEMMA AcceptFailsInv == ASSUME Inv, AcceptFails PROVE Inv'
<1>1. ready' = {} /\ pc = "scan" /\ UNCHANGED <<st, inbox, queue, owner, stale, cur, pc>>
  BY DEF AcceptFails, Visiting, clientVars
<1>2. TypeOK' /\ Apart' /\ Spoken' /\ Unwanted' /\ Round' /\ Handling'
  BY <1>1 DEF Inv, TypeOK, Apart, Spoken, Unwanted, Round, Handling
<1> QED BY <1>2 DEF Inv

(* A handler ends, or none begins: its descriptor may have become stale.   *)
LEMMA HandlerEnds ==
  ASSUME Inv, pc \in {"keyDone", "readDone"}, pc' \in {"scan", "dead"}, cur' = NoHandler,
         UNCHANGED <<st, inbox, queue, owner, ready>>,
         stale' = stale \/ (stale' = Append(stale, cur.fd) /\ (pc' = "dead" \/ st[owner[cur.fd]] \in Over))
  PROVE  Inv'
<1>1. cur.fd \in DOMAIN owner /\ cur.fd \in Fd /\ stale \in Seq(Fd)
  BY DEF Inv, Handling, TypeOK
<1>2. stale' \in Seq(Fd)
  BY <1>1
<1>3. TypeOK' /\ Apart' /\ Spoken'
  BY <1>2 DEF Inv, TypeOK, Points, NoHandler, Apart, Spoken
<1>4. Round'
  BY DEF Inv, Round, HasInput
<1>5. Handling'
  BY DEF Inv, Handling
<1>6. Unwanted'
  <2> SUFFICES ASSUME pc' # "dead", NEW i \in 1 .. Len(stale')
               PROVE  stale'[i] \in DOMAIN owner /\ st[owner[stale'[i]]] \in Over
    BY DEF Unwanted
  <2>1. \A j \in 1 .. Len(stale) : stale[j] \in DOMAIN owner /\ st[owner[stale[j]]] \in Over
    BY DEF Inv, Unwanted
  <2>2. CASE stale' = stale
    BY <2>1, <2>2
  <2>3. CASE stale' = Append(stale, cur.fd) /\ st[owner[cur.fd]] \in Over
    <3>1. stale'[i] = cur.fd \/ (i \in 1 .. Len(stale) /\ stale'[i] = stale[i])
      BY <1>1, <2>3
    <3> QED BY <1>1, <2>1, <2>3, <3>1
  <2> QED BY <2>2, <2>3
<1> QED BY <1>3, <1>4, <1>5, <1>6 DEF Inv

LEMMA KeyDoneInv == ASSUME Inv, Registered \/ Refused PROVE Inv'
<1>1. CASE Registered
  BY <1>1, HandlerEnds DEF Registered, clientVars
<1>2. CASE Refused
  <2>1. st[owner[cur.fd]] \in Over
    BY <1>2 DEF Refused, Inv, Handling, Over
  <2> QED BY <1>2, <2>1, HandlerEnds DEF Refused, clientVars
<1> QED BY <1>1, <1>2

LEMMA FinishInv == ASSUME Inv, Finish PROVE Inv'
<1>1. /\ pc = "readDone" /\ cur' = NoHandler /\ pc' = IF cur.msg = "exit" THEN "dead" ELSE "scan"
      /\ UNCHANGED <<st, inbox, queue, owner, ready>>
  BY DEF Finish, clientVars
<1>2. CASE cur.msg \in {"disconnect", "exit"}
  <2>1. stale' = Append(stale, cur.fd)
    BY <1>2 DEF Finish, CloseFd
  <2>2. pc' = "dead" \/ st[owner[cur.fd]] \in Over
    BY <1>1, <1>2 DEF Inv, Handling, Over
  <2> QED BY <1>1, <2>1, <2>2, HandlerEnds
<1>3. CASE cur.msg \notin {"disconnect", "exit"}
  BY <1>1, <1>3, HandlerEnds DEF Finish
<1> QED BY <1>2, <1>3

(* The end of a request that never comes, and of the process.              *)
LEMMA StopsInv == ASSUME Inv, Hang \/ BrokenPipe PROVE Inv'
<1>1. /\ pc \in {"read", "keyDone", "readDone"} /\ pc' \in {"hung", "dead"}
      /\ UNCHANGED <<st, inbox, queue, owner, stale, ready, cur>>
  BY DEF Hang, BrokenPipe, clientVars
<1>2. TypeOK' /\ Apart' /\ Spoken' /\ Round' /\ Handling' /\ Unwanted'
  BY <1>1 DEF Inv, TypeOK, Points, Apart, Spoken, Round, HasInput, Handling, Unwanted
<1> QED BY <1>2 DEF Inv

(* A descriptor that is ready without data is that of a client who closed. *)
LEMMA PeekClosedInv == ASSUME Inv, NEW fd \in ready, PeekClosed(fd) PROVE Inv'
<1>1. /\ fd # Listener /\ pc = "scan" /\ inbox[owner[fd]] = << >>
      /\ stale' = Append(stale, fd) /\ ready' = ready \ {fd}
      /\ UNCHANGED <<st, inbox, queue, owner, pc, cur>>
  BY DEF PeekClosed, Visiting, CloseFd, clientVars
<1>2. fd \in DOMAIN owner /\ fd \in Fd /\ stale \in Seq(Fd)
  BY <1>1 DEF Inv, Round, TypeOK
<1>3. st[owner[fd]] \in Over
  BY <1>1 DEF Inv, Round, HasInput, Over
<1>4. stale' \in Seq(Fd)
  BY <1>1, <1>2
<1>5. TypeOK' /\ Apart' /\ Spoken'
  BY <1>1, <1>4 DEF Inv, TypeOK, Apart, Spoken
<1>6. Round' /\ Handling'
  BY <1>1 DEF Inv, Round, HasInput, Handling
<1>7. Unwanted'
  <2>1. \A j \in 1 .. Len(stale) : stale[j] \in DOMAIN owner /\ st[owner[stale[j]]] \in Over
    BY <1>1 DEF Inv, Unwanted
  <2>2. ASSUME NEW i \in 1 .. Len(stale')
        PROVE  stale'[i] \in DOMAIN owner /\ st[owner[stale'[i]]] \in Over
    <3>1. stale'[i] = fd \/ (i \in 1 .. Len(stale) /\ stale'[i] = stale[i])
      BY <1>1, <1>2
    <3> QED BY <1>2, <1>3, <2>1, <3>1
  <2> QED BY <1>1, <2>2 DEF Unwanted
<1> QED BY <1>5, <1>6, <1>7 DEF Inv

LEMMA StartReadInv == ASSUME Inv, NEW fd \in ready, StartRead(fd) PROVE Inv'
<1>1. /\ fd # Listener /\ pc = "scan" /\ inbox[owner[fd]] # << >> /\ ready' = ready \ {fd}
      /\ UNCHANGED <<st, inbox, queue, owner, stale>>
      /\ \/ UNCHANGED <<pc, cur>>
         \/ pc' = "read" /\ \E p : cur' = [NoHandler EXCEPT !.fd = fd, !.pid = p]
  BY DEF StartRead, Visiting, clientVars
<1>2. fd \in DOMAIN owner
  BY <1>1 DEF Inv, Round
<1>3. cur' = [fd |-> cur'.fd, pid |-> cur'.pid, msg |-> cur'.msg] /\ (pc' = "read" => cur'.fd = fd)
  <2>1. CASE UNCHANGED <<pc, cur>>
    BY <1>1, <2>1 DEF Inv, TypeOK
  <2>2. CASE \E p : cur' = [NoHandler EXCEPT !.fd = fd, !.pid = p]
    BY <2>2 DEF NoHandler
  <2> QED BY <1>1, <2>1, <2>2
<1>4. TypeOK' /\ Apart' /\ Spoken' /\ Unwanted'
  BY <1>1, <1>3, ZenonT(40) DEF Inv, TypeOK, Points, Apart, Spoken, Unwanted
<1>5. Round'
  BY <1>1 DEF Inv, Round, HasInput
<1>6. Handling'
  <2>1. pc' \in {"scan", "read"}
    BY <1>1
  <2> QED BY <1>1, <1>2, <1>3, <2>1 DEF Inv, Handling
<1> QED BY <1>4, <1>5, <1>6 DEF Inv

-----------------------------------------------------------------------------
(* Steps that change a client, or its descriptor.                          *)
LEMMA AcceptInv == ASSUME Inv, Accept PROVE Inv'
<1> DEFINE fd == Min(FreeFds)
           c == Head(queue)
<1>1. fd \in Fd /\ fd \notin DOMAIN owner /\ fd # Listener
  <2>1. FreeFds \in SUBSET Nat /\ FreeFds # {} /\ FreeFds \subseteq Fd
    BY ServerAssumption DEF Accept, FreeFds
  <2>2. fd \in FreeFds
    BY <2>1, MinOfNaturals
  <2> QED BY <2>2, ServerAssumption DEF FreeFds, Listener
<1>2. /\ pc = "scan" /\ pc' = "key" /\ Listener \in ready /\ ready' = ready \ {Listener}
      /\ owner' = [f \in DOMAIN owner \cup {fd} |-> IF f = fd THEN c ELSE owner[f]]
      /\ cur' = [NoHandler EXCEPT !.fd = fd] /\ queue' = Tail(queue)
      /\ UNCHANGED <<st, inbox, stale>>
  BY DEF Accept, Visiting, clientVars
<1> HIDE DEF fd
<1>3. queue \in Seq(Conn) /\ queue # << >>
  BY <1>2 DEF Inv, TypeOK, Round
<1>4. /\ c = queue[1] /\ c \in Conn /\ 1 \in 1 .. Len(queue)
      /\ queue' \in Seq(Conn) /\ Len(queue') = Len(queue) - 1
      /\ \A i \in 1 .. Len(queue') : queue'[i] = queue[i + 1] /\ i + 1 \in 1 .. Len(queue) /\ i + 1 # 1
  BY <1>2, <1>3
<1> HIDE DEF c
<1>5. /\ DOMAIN owner' = DOMAIN owner \cup {fd} /\ owner'[fd] = c
      /\ \A f \in DOMAIN owner : owner'[f] = owner[f] /\ f # fd
  BY <1>1, <1>2
<1>6. cur' = [fd |-> cur'.fd, pid |-> cur'.pid, msg |-> cur'.msg] /\ cur'.fd = fd
  BY <1>2 DEF NoHandler
<1>7. TypeOK'
  BY <1>1, <1>2, <1>4, <1>5, <1>6 DEF Inv, TypeOK, Points
<1>8. Apart'
  <2>1. \A f, g \in DOMAIN owner' : owner'[f] = owner'[g] => f = g
    BY <1>4, <1>5 DEF Inv, Apart
  <2>2. \A i, j \in 1 .. Len(queue') : queue'[i] = queue'[j] => i = j
    <3> SUFFICES ASSUME NEW i \in 1 .. Len(queue'), NEW j \in 1 .. Len(queue'), queue'[i] = queue'[j]
                 PROVE  i = j
      OBVIOUS
    <3>1. i + 1 = j + 1
      BY <1>4 DEF Inv, Apart
    <3> QED BY <3>1
  <2>3. \A f \in DOMAIN owner' : \A i \in 1 .. Len(queue') : owner'[f] # queue'[i]
    <3> SUFFICES ASSUME NEW f \in DOMAIN owner', NEW i \in 1 .. Len(queue') PROVE owner'[f] # queue'[i]
      OBVIOUS
    <3>1. queue'[i] = queue[i + 1] /\ i + 1 \in 1 .. Len(queue) /\ i + 1 # 1
      BY <1>4
    <3>2. queue[i + 1] # queue[1]
      BY <1>4, <3>1 DEF Inv, Apart
    <3> QED BY <1>4, <1>5, <3>1, <3>2 DEF Inv, Apart
  <2>4. \A f \in DOMAIN owner' : st[owner'[f]] # "new"
    BY <1>4, <1>5 DEF Inv, Apart
  <2>5. \A i \in 1 .. Len(queue') : st[queue'[i]] \in {"dialed", "waitKey", "gone"}
    BY <1>4 DEF Inv, Apart
  <2> QED BY <1>2, <2>1, <2>2, <2>3, <2>4, <2>5 DEF Apart
<1>9. Spoken'
  BY <1>2 DEF Inv, Spoken
<1>10. Round'
  BY <1>2, <1>5 DEF Inv, Round, HasInput
<1>11. Handling'
  <2>1. cur'.fd \in DOMAIN owner' \ ready'
    BY <1>1, <1>2, <1>5, <1>6 DEF Inv, Round
  <2>2. st[c] \in {"dialed", "waitKey", "gone"}
    BY <1>4 DEF Inv, Apart
  <2>3. \A f \in DOMAIN owner : st[owner[f]] \notin {"dialed", "waitKey"}
    BY <1>2 DEF Inv, Handling
  <2> QED BY <1>2, <1>5, <1>6, <2>1, <2>2, <2>3 DEF Handling
<1>12. Unwanted'
  BY <1>2, <1>5 DEF Inv, Unwanted
<1> QED BY <1>7, <1>8, <1>9, <1>10, <1>11, <1>12 DEF Inv

(* A handler has read all its client sent: the message is m, and the       *)
(* client becomes s.                                                       *)
HasRead(s, m) ==
  /\ s \in States /\ s \notin {"new", "dialed", "waitKey", "sending"}
  /\ \/ pc = "key" /\ pc' = "keyDone" /\ (m = "wrong" => s \in {"refused", "gone"})
     \/ pc = "read" /\ pc' = "readDone" /\ (m = "disconnect" => s \in {"done", "gone"})
  /\ cur' = [cur EXCEPT !.msg = m] /\ UNCHANGED <<queue, owner, stale, ready>>
  /\ inbox' = [inbox EXCEPT ![owner[cur.fd]] = << >>] /\ st' = [st EXCEPT ![owner[cur.fd]] = s]
  /\ st[owner[cur.fd]] \in {"refused", "done", "gone"} => s = st[owner[cur.fd]]

LEMMA HandlerReads ==
  ASSUME Inv, NEW s, NEW m, HasRead(s, m)
  PROVE  Inv'
<1> USE DEF HasRead
<1> DEFINE c == owner[cur.fd]
<1>1. cur.fd \in DOMAIN owner \ ready /\ c \in Conn /\ TypeOK
  BY DEF Inv, Handling, TypeOK
<1>2. cur' = [fd |-> cur'.fd, pid |-> cur'.pid, msg |-> cur'.msg] /\ cur'.fd = cur.fd /\ cur'.msg = m
  BY <1>1 DEF TypeOK
<1>3. st'[c] = s /\ inbox'[c] = << >> /\ \A d \in Conn \ {c} : st'[d] = st[d] /\ inbox'[d] = inbox[d]
  BY <1>1 DEF TypeOK
<1>4. \A f \in DOMAIN owner : owner[f] \in Conn /\ (f # cur.fd => owner[f] # c)
  BY <1>1 DEF Inv, Apart, TypeOK
<1>5. \A i \in 1 .. Len(queue) : queue[i] \in Conn /\ queue[i] # c
  BY <1>1 DEF Inv, Apart, TypeOK
<1>6. TypeOK'
  BY <1>1, <1>2 DEF TypeOK, Points
<1>7. Apart'
  BY <1>3, <1>4, <1>5 DEF Inv, Apart
<1>8. Spoken'
  BY <1>3 DEF Inv, Spoken
<1>9. Round'
  <2>1. ASSUME NEW f \in ready \ {Listener} PROVE HasInput(f)'
    <3>1. f \in DOMAIN owner /\ f # cur.fd /\ HasInput(f)
      BY <1>1, <2>1 DEF Inv, Round
    <3> QED BY <1>3, <1>4, <3>1 DEF HasInput
  <2> QED BY <2>1 DEF Inv, Round
<1>10. Handling'
  <2>1. \A f \in DOMAIN owner : st'[owner[f]] \notin {"dialed", "waitKey"}
    <3> SUFFICES ASSUME NEW f \in DOMAIN owner PROVE st'[owner[f]] \notin {"dialed", "waitKey"}
      OBVIOUS
    <3>1. CASE f = cur.fd
      BY <1>3, <3>1
    <3>2. CASE f # cur.fd
      BY <1>3, <1>4, <3>2 DEF Inv, Handling
    <3> QED BY <3>1, <3>2
  <2> QED BY <1>1, <1>2, <1>3, <2>1 DEF Handling
<1>11. Unwanted'
  BY <1>3, <1>4 DEF Inv, Unwanted, Over
<1> QED BY <1>6, <1>7, <1>8, <1>9, <1>10, <1>11 DEF Inv

LEMMA ReadKeyInv == ASSUME Inv, ReadKey PROVE Inv'
<1> DEFINE c == owner[cur.fd]
           right == inbox[c] # << >> /\ Head(inbox[c]) = "right"
           s == IF st[c] # "waitKey" THEN st[c] ELSE IF right THEN "ready" ELSE "refused"
           m == IF right THEN "right" ELSE "wrong"
<1>1. /\ pc = "key" /\ pc' = "keyDone" /\ HasInput(cur.fd) /\ cur' = [cur EXCEPT !.msg = m]
      /\ inbox' = [inbox EXCEPT ![c] = << >>] /\ UNCHANGED <<queue, owner, stale, ready>>
  BY DEF ReadKey
<1>2. c \in Conn /\ st \in [Conn -> States]
  BY <1>1 DEF Inv, Handling, TypeOK
<1>3. st' = [st EXCEPT ![c] = s]
  BY <1>2 DEF ReadKey
<1>4. st[c] \in {"dialed", "waitKey", "gone"}
  BY <1>1 DEF Inv, Handling
<1>5. st[c] # "dialed"
  BY <1>1, <1>2 DEF Inv, Spoken, HasInput
<1>6. /\ s \in States /\ s \notin {"new", "dialed", "waitKey", "sending"}
      /\ st[c] \in {"refused", "done", "gone"} => s = st[c]
      /\ m = "wrong" => s \in {"refused", "gone"}
  BY <1>4, <1>5 DEF States
<1> HIDE DEF s, m, right
<1>7. HasRead(s, m)
  BY <1>1, <1>3, <1>6 DEF HasRead
<1> QED BY <1>7, HandlerReads

(* A request that is whole is one that its client waits for, or has left.  *)
LEMMA AnswerInv == ASSUME Inv, Answer PROVE Inv'
<1> DEFINE c == owner[cur.fd]
           m == Head(inbox[c])
           s == IF st[c] # "asked" THEN st[c] ELSE IF m = "disconnect" THEN "done" ELSE "ready"
<1>1. c \in Conn /\ st \in [Conn -> States] /\ cur = [fd |-> cur.fd, pid |-> cur.pid, msg |-> cur.msg]
  BY DEF Answer, Inv, Handling, TypeOK
<1>2. /\ pc = "read" /\ pc' = "readDone" /\ cur' = [cur EXCEPT !.msg = m] /\ Last(inbox[c]) # "half"
      /\ inbox' = [inbox EXCEPT ![c] = << >>] /\ UNCHANGED <<queue, owner, stale, ready>>
  BY DEF Answer
<1>3. cur'.msg = m
  BY <1>1, <1>2
<1>4. st' = [st EXCEPT ![c] = s]
  BY <1>1, <1>3 DEF Answer
<1>5. inbox[c] # << >> /\ st[c] \notin {"dialed", "waitKey"}
  BY <1>2 DEF Inv, Handling
<1>6. st[c] # "sending"
  <2>1. Last(<< "half" >>) = "half"
    BY DEF Last
  <2> QED BY <1>1, <1>2, <2>1 DEF Inv, Spoken
<1>7. st[c] \in {"asked", "gone"}
  BY <1>1, <1>5, <1>6 DEF Inv, Spoken, States
<1>8. /\ s \in States /\ s \notin {"new", "dialed", "waitKey", "sending"}
      /\ st[c] \in {"refused", "done", "gone"} => s = st[c]
      /\ m = "disconnect" => s \in {"done", "gone"}
  BY <1>7 DEF States
<1> HIDE DEF s, m
<1>9. HasRead(s, m)
  BY <1>2, <1>4, <1>8 DEF HasRead
<1> QED BY <1>9, HandlerReads

LEMMA SweepInv == ASSUME Inv, Sweep PROVE Inv'
<1>1. /\ pc = "scan" /\ ready = {} /\ pc' = "select" /\ stale' = << >>
      /\ UNCHANGED <<st, inbox, queue, ready, cur>>
  BY DEF Sweep, RoundOver, clientVars
<1>2. /\ DOMAIN owner' \subseteq DOMAIN owner /\ owner' = [f \in DOMAIN owner' |-> owner[f]]
      /\ \A f \in DOMAIN owner' : owner'[f] = owner[f]
  BY DEF Sweep, CloseAll
<1>3. stale' \in Seq(Fd) /\ Len(stale') = 0
  BY <1>1
<1>4. TypeOK' /\ Unwanted'
  BY <1>1, <1>2, <1>3 DEF Inv, TypeOK, Points, Unwanted
<1>5. Apart' /\ Spoken'
  BY <1>1, <1>2 DEF Inv, Apart, Spoken
<1>6. Round' /\ Handling'
  BY <1>1, <1>2 DEF Inv, Round, Handling
<1> QED BY <1>4, <1>5, <1>6 DEF Inv

LEMMA ServerStepInv == Inv /\ [Next]_vars => Inv'
<1> SUFFICES ASSUME Inv, [Next]_vars PROVE Inv'
  OBVIOUS
<1>1. CASE UNCHANGED vars
  BY <1>1 DEF vars, serverVars, clientVars, Inv, TypeOK, Apart, Spoken, Round, HasInput, Handling, Unwanted
<1>2. CASE Select \/ Accept \/ AcceptFails \/ ReadKey \/ Registered \/ Refused
  BY <1>2, SelectInv, AcceptInv, AcceptFailsInv, ReadKeyInv, KeyDoneInv
<1>3. CASE \E fd \in ready : PeekClosed(fd) \/ StartRead(fd)
  BY <1>3, PeekClosedInv, StartReadInv
<1>4. CASE Answer \/ Hang \/ Finish \/ Sweep \/ BrokenPipe
  BY <1>4, AnswerInv, StopsInv, FinishInv, SweepInv
<1>5. CASE \E c \in Conn : ClientStep(c)
  BY <1>5, ClientInv
<1> QED BY <1>1, <1>2, <1>3, <1>4, <1>5 DEF Next, ServerStep

-----------------------------------------------------------------------------
(* Only the end of a round closes descriptors, and only the stale ones.    *)
LEMMA ClosedAreStale ==
  ASSUME [Next]_vars, NEW fd \in DOMAIN owner \ DOMAIN owner'
  PROVE  pc = "scan" /\ fd \in ToSet(stale)
<1>1. CASE Sweep
  BY <1>1 DEF Sweep, RoundOver, CloseAll
<1>2. CASE Accept
  BY <1>2 DEF Accept
<1>3. CASE UNCHANGED owner
  BY <1>3
<1>4. Sweep \/ Accept \/ UNCHANGED owner
  BY DEF Next, ServerStep, ClientStep, vars, serverVars, Select, AcceptFails, ReadKey, Registered, Refused,
         PeekClosed, StartRead, Answer, Hang, Finish, BrokenPipe,
         Connect, SendKey, Ask, SendRest, Leave, Killed
<1> QED BY <1>1, <1>2, <1>3, <1>4

(* The server closes the connection of no client that still wants it: who  *)
(* was refused, has disconnected or has closed is all a stale descriptor   *)
(* belongs to, however descriptors are reused and rounds are cut short.    *)
THEOREM ServerNoCut == Spec => NoCut
<1> DEFINE A == \A fd \in DOMAIN owner \ DOMAIN owner' : st[owner[fd]] \in {"refused", "done", "gone"}
<1>1. Inv /\ [Next]_vars => [A]_vars
  <2> SUFFICES ASSUME Inv, [Next]_vars, NEW fd \in DOMAIN owner \ DOMAIN owner'
               PROVE  st[owner[fd]] \in {"refused", "done", "gone"}
    OBVIOUS
  <2>1. pc = "scan" /\ fd \in ToSet(stale)
    BY ClosedAreStale
  <2>2. PICK i \in 1 .. Len(stale) : fd = stale[i]
    <3>1. stale \in Seq(Fd)
      BY DEF Inv, TypeOK
    <3>2. DOMAIN stale = 1 .. Len(stale)
      BY <3>1
    <3> QED BY <2>1, <3>2 DEF ToSet
  <2> QED BY <2>1, <2>2 DEF Inv, Unwanted, Over
<1>2. Spec => [][A]_vars
  BY <1>1, ServerInit, ServerStepInv, PTL DEF Spec
<1> QED BY <1>2 DEF NoCut

-----------------------------------------------------------------------------
(* The sockets that have a pid.                                            *)
Socket == [fd : Fd, pid : Nat \cup {NoPid}]

PidTypes ==
  /\ sockets \in Seq(Socket) /\ session = [c \in Conn |-> session[c]] /\ IsFiniteSet(pids)

(* f is open, its client has the pid p, and nobody is about to close it.       *)
Owned(f, p) ==
  /\ f \in DOMAIN owner /\ p = session[owner[f]]
  /\ \A j \in 1 .. Len(stale) : stale[j] # f

AllOwned ==
  \A i \in 1 .. Len(sockets) : sockets[i].pid # NoPid => Owned(sockets[i].fd, sockets[i].pid)

(* Each socket with a pid is of the client that has it; a descriptor whose key *)
(* is still being read has no such socket left from an earlier client.         *)
Pids ==
  /\ PidTypes /\ AllOwned
  /\ pc \in {"key", "keyDone"} =>
       /\ \A j \in 1 .. Len(stale) : stale[j] # cur.fd
       /\ \A i \in 1 .. Len(sockets) : sockets[i].pid # NoPid => sockets[i].fd # cur.fd
  /\ NotAnothersPid

LEMMA PidsInit == Init => Pids
<1> SUFFICES ASSUME Init PROVE Pids
  OBVIOUS
<1>1. sockets = << >> /\ session = [c \in Conn |-> NoPid] /\ pids = {} /\ pc = "select"
  BY DEF Init
<1>2. sockets \in Seq(Socket) /\ Len(sockets) = 0
  BY <1>1
<1>3. IsFiniteSet(pids)
  BY <1>1, FS_EmptySet
<1> QED BY <1>1, <1>2, <1>3 DEF Pids, PidTypes, AllOwned, NotAnothersPid

(* Server::Close leaves the sockets of the other descriptors; find_if      *)
(* returns one of its own.                                                 *)
LEMMA WithoutKeeps ==
  ASSUME PidTypes, NEW fd
  PROVE  /\ Without(fd) \in Seq(Socket)
         /\ \A i \in 1 .. Len(Without(fd)) : \E k \in 1 .. Len(sockets) :
              Without(fd)[i] = sockets[k] /\ sockets[k].fd # fd
<1> DEFINE K == {i \in DOMAIN sockets : sockets[i].fd # fd}
<1>1. sockets \in Seq(Socket) /\ DOMAIN sockets = 1 .. Len(sockets)
  BY DEF PidTypes
<1>2. K \in SUBSET (1 .. Len(sockets)) /\ \A k \in K : k \in 1 .. Len(sockets) /\ sockets[k].fd # fd
  BY <1>1
<1>3. Without(fd) = Picked(sockets, K)
  BY DEF Without
<1> HIDE DEF K
<1>4. Picked(sockets, K) \in Seq(Socket)
      /\ \A i \in 1 .. Len(Picked(sockets, K)) : \E k \in K : Picked(sockets, K)[i] = sockets[k]
  BY <1>1, <1>2, PickedElements, Zenon
<1> QED BY <1>2, <1>3, <1>4

LEMMA SocketsOfFd ==
  ASSUME PidTypes, NEW fd, SocketsOf(fd) # << >>
  PROVE  \E k \in 1 .. Len(sockets) : Head(SocketsOf(fd)) = sockets[k] /\ sockets[k].fd = fd
<1> DEFINE K == {i \in DOMAIN sockets : sockets[i].fd = fd}
<1>1. sockets \in Seq(Socket) /\ DOMAIN sockets = 1 .. Len(sockets)
  BY DEF PidTypes
<1>2. K \in SUBSET (1 .. Len(sockets)) /\ \A k \in K : k \in 1 .. Len(sockets) /\ sockets[k].fd = fd
  BY <1>1
<1>3. SocketsOf(fd) = Picked(sockets, K)
  BY DEF SocketsOf
<1> HIDE DEF K
<1>4. Picked(sockets, K) \in Seq(Socket)
      /\ \A i \in 1 .. Len(Picked(sockets, K)) : \E k \in K : Picked(sockets, K)[i] = sockets[k]
  BY <1>1, <1>2, PickedElements, Zenon
<1>5. 1 \in 1 .. Len(SocketsOf(fd)) /\ Head(SocketsOf(fd)) = SocketsOf(fd)[1]
  BY <1>3, <1>4
<1> QED BY <1>2, <1>3, <1>4, <1>5

(* What is closed has no socket with a pid any more.                       *)
LEMMA CloseFdPids ==
  ASSUME Pids, TypeOK, NEW fd \in Fd, CloseFd(fd), UNCHANGED <<owner, session>>
  PROVE  /\ sockets' \in Seq(Socket)
         /\ AllOwned'
<1>1. sockets' = Without(fd) /\ stale' = Append(stale, fd)
  BY DEF CloseFd
<1>2. \A j \in 1 .. Len(stale') : stale'[j] = fd \/ (j \in 1 .. Len(stale) /\ stale'[j] = stale[j])
  BY <1>1 DEF TypeOK
<1>3. PidTypes
  BY DEF Pids, AllOwned
<1>4. AllOwned'
  <2> SUFFICES ASSUME NEW i \in 1 .. Len(sockets'), sockets'[i].pid # NoPid
               PROVE  /\ sockets'[i].fd \in DOMAIN owner' /\ sockets'[i].pid = session'[owner'[sockets'[i].fd]]
                      /\ \A j \in 1 .. Len(stale') : stale'[j] # sockets'[i].fd
    BY DEF AllOwned, Owned
  <2>1. PICK k \in 1 .. Len(sockets) : sockets'[i] = sockets[k] /\ sockets[k].fd # fd
    BY <1>1, <1>3, WithoutKeeps
  <2>2. Owned(sockets[k].fd, sockets[k].pid)
    BY <2>1 DEF Pids, AllOwned
  <2> QED BY <1>2, <2>1, <2>2 DEF Owned
<1>5. sockets' \in Seq(Socket)
  BY <1>1, <1>3, WithoutKeeps
<1> QED BY <1>4, <1>5

-----------------------------------------------------------------------------
LEMMA AcceptPids == ASSUME Inv, Pids, Accept PROVE Pids'
<1> DEFINE fd == Min(FreeFds)
<1>1. fd \in Fd /\ fd \notin DOMAIN owner
  <2>1. FreeFds \in SUBSET Nat /\ FreeFds # {} /\ FreeFds \subseteq Fd
    BY ServerAssumption DEF Accept, FreeFds
  <2>2. fd \in FreeFds
    BY <2>1, MinOfNaturals
  <2> QED BY <2>2 DEF FreeFds
<1>2. /\ pc = "scan" /\ pc' = "key" /\ UNCHANGED <<sockets, stale, pids, session>>
      /\ owner' = [f \in DOMAIN owner \cup {fd} |-> IF f = fd THEN Head(queue) ELSE owner[f]]
      /\ cur' = [NoHandler EXCEPT !.fd = fd]
  BY DEF Accept, Visiting
<1> HIDE DEF fd
<1>3. DOMAIN owner' = DOMAIN owner \cup {fd} /\ \A f \in DOMAIN owner : owner'[f] = owner[f] /\ f # fd
  BY <1>1, <1>2
<1>4. cur'.fd = fd
  BY <1>2 DEF NoHandler
<1>5. \A j \in 1 .. Len(stale) : stale[j] # fd
  BY <1>1, <1>2 DEF Inv, Unwanted
<1>6. PidTypes'
  BY <1>2 DEF Pids, PidTypes, AllOwned
<1>7. ASSUME NEW i \in 1 .. Len(sockets), sockets[i].pid # NoPid
      PROVE  Owned(sockets[i].fd, sockets[i].pid)' /\ sockets[i].fd # fd
  <2>1. Owned(sockets[i].fd, sockets[i].pid)
    BY <1>7 DEF Pids, AllOwned
  <2> QED BY <1>2, <1>3, <2>1 DEF Owned
<1>8. AllOwned'
  BY <1>2, <1>7 DEF AllOwned
<1> QED BY <1>2, <1>4, <1>5, <1>6, <1>7, <1>8 DEF Pids, NotAnothersPid

LEMMA RegisteredPids == ASSUME Inv, Pids, Registered PROVE Pids'
<1> DEFINE pid == Cardinality(pids)
           c == owner[cur.fd]
           e == [fd |-> cur.fd, pid |-> pid]
<1>1. /\ pc = "keyDone" /\ pc' = "scan" /\ UNCHANGED <<owner, stale>>
      /\ pids' = pids \cup {pid} /\ session' = [session EXCEPT ![c] = pid]
      /\ sockets' = Append(sockets, e)
  BY DEF Registered
<1>2. cur.fd \in DOMAIN owner /\ cur.fd \in Fd /\ c \in Conn
  BY <1>1 DEF Inv, Handling, TypeOK
<1>3. sockets \in Seq(Socket) /\ session = [d \in Conn |-> session[d]] /\ IsFiniteSet(pids)
  BY DEF Pids, PidTypes, AllOwned
<1>4. pid \in Nat /\ IsFiniteSet(pids')
  BY <1>1, <1>3, FS_CardinalityType, FS_AddElement
<1> HIDE DEF pid
<1>5. e \in Socket /\ e.fd = cur.fd /\ e.pid = pid
  BY <1>2, <1>4 DEF Socket
<1> HIDE DEF e
<1>6. sockets' \in Seq(Socket)
  BY <1>1, <1>3, <1>5
<1>7. \A i \in 1 .. Len(sockets') : sockets'[i] = e \/ (i \in 1 .. Len(sockets) /\ sockets'[i] = sockets[i])
  BY <1>1, <1>3, <1>5
<1>8. session' = [d \in Conn |-> session'[d]] /\ session'[c] = pid /\ \A d \in Conn \ {c} : session'[d] = session[d]
  BY <1>1, <1>2, <1>3
<1>9. AllOwned'
  <2> SUFFICES ASSUME NEW i \in 1 .. Len(sockets'), sockets'[i].pid # NoPid
               PROVE  /\ sockets'[i].fd \in DOMAIN owner' /\ sockets'[i].pid = session'[owner'[sockets'[i].fd]]
                      /\ \A j \in 1 .. Len(stale') : stale'[j] # sockets'[i].fd
    BY DEF AllOwned, Owned
  <2>1. CASE sockets'[i] = e
    BY <1>1, <1>2, <1>5, <1>8, <2>1 DEF Pids, AllOwned, Owned
  <2>2. CASE i \in 1 .. Len(sockets) /\ sockets'[i] = sockets[i]
    <3>1. Owned(sockets[i].fd, sockets[i].pid) /\ sockets[i].fd # cur.fd
      BY <1>1, <2>2 DEF Pids, AllOwned
    <3>2. owner[sockets[i].fd] \in Conn \ {c}
      BY <1>2, <3>1 DEF Owned, Inv, TypeOK, Apart
    <3> QED BY <1>1, <1>8, <2>2, <3>1, <3>2 DEF Owned
  <2> QED BY <1>7, <2>1, <2>2
<1> QED BY <1>1, <1>4, <1>6, <1>8, <1>9 DEF Pids, PidTypes, AllOwned, NotAnothersPid

LEMMA RefusedPids == ASSUME Inv, Pids, Refused PROVE Pids'
<1> DEFINE e == [fd |-> cur.fd, pid |-> NoPid]
           w == Without(cur.fd)
<1>1. /\ pc = "keyDone" /\ pc' = "scan" /\ UNCHANGED <<owner, pids, session>>
      /\ sockets' = Append(w, e) /\ stale' = Append(stale, cur.fd)
  BY DEF Refused
<1>2. cur.fd \in Fd /\ stale \in Seq(Fd)
  BY <1>1 DEF Inv, Handling, TypeOK
<1>3. /\ w \in Seq(Socket)
      /\ \A i \in 1 .. Len(w) : \E k \in 1 .. Len(sockets) : w[i] = sockets[k] /\ sockets[k].fd # cur.fd
  BY WithoutKeeps DEF Pids, AllOwned
<1>4. e \in Socket /\ e.pid = NoPid
  BY <1>2 DEF Socket
<1> HIDE DEF w, e
<1>5. sockets' \in Seq(Socket)
  BY <1>1, <1>3, <1>4
<1>6. \A i \in 1 .. Len(sockets') : sockets'[i] = e \/ (i \in 1 .. Len(w) /\ sockets'[i] = w[i])
  BY <1>1, <1>3, <1>4
<1>7. \A j \in 1 .. Len(stale') : stale'[j] = cur.fd \/ (j \in 1 .. Len(stale) /\ stale'[j] = stale[j])
  BY <1>1, <1>2
<1>8. AllOwned'
  <2> SUFFICES ASSUME NEW i \in 1 .. Len(sockets'), sockets'[i].pid # NoPid
               PROVE  /\ sockets'[i].fd \in DOMAIN owner' /\ sockets'[i].pid = session'[owner'[sockets'[i].fd]]
                      /\ \A j \in 1 .. Len(stale') : stale'[j] # sockets'[i].fd
    BY DEF AllOwned, Owned
  <2>1. PICK k \in 1 .. Len(sockets) : sockets'[i] = sockets[k] /\ sockets[k].fd # cur.fd
    BY <1>3, <1>4, <1>6
  <2>2. Owned(sockets[k].fd, sockets[k].pid)
    BY <2>1 DEF Pids, AllOwned
  <2> QED BY <1>1, <1>7, <2>1, <2>2 DEF Owned
<1> QED BY <1>1, <1>5, <1>8 DEF Pids, PidTypes, AllOwned, NotAnothersPid

LEMMA PeekClosedPids == ASSUME Inv, Pids, NEW fd \in ready, PeekClosed(fd) PROVE Pids'
<1>1. /\ fd # Listener /\ pc = "scan" /\ pc' = "scan" /\ CloseFd(fd) /\ UNCHANGED <<owner, pids, session>>
  BY DEF PeekClosed, Visiting
<1>2. fd \in Fd /\ TypeOK
  BY <1>1 DEF Inv, Round, TypeOK
<1> QED BY <1>1, <1>2, CloseFdPids DEF Pids, PidTypes, AllOwned, NotAnothersPid

(* The pid that the handler gets is of the client of this descriptor.      *)
LEMMA StartReadPids == ASSUME Inv, Pids, NEW fd \in ready, StartRead(fd) PROVE Pids'
<1>1. pc = "scan" /\ UNCHANGED <<owner, sockets, stale, pids, session>>
  BY DEF StartRead, Visiting
<1>2. NotAnothersPid' /\ pc' \notin {"key", "keyDone"}
  <2>1. CASE SocketsOf(fd) = << >>
    BY <1>1, <2>1 DEF StartRead, NotAnothersPid
  <2>2. CASE SocketsOf(fd) # << >>
    <3>1. pc' = "read" /\ cur' = [NoHandler EXCEPT !.fd = fd, !.pid = Head(SocketsOf(fd)).pid]
      BY <2>2 DEF StartRead
    <3>2. cur'.fd = fd /\ cur'.pid = Head(SocketsOf(fd)).pid
      BY <3>1 DEF NoHandler
    <3>3. PICK k \in 1 .. Len(sockets) : Head(SocketsOf(fd)) = sockets[k] /\ sockets[k].fd = fd
      BY <2>2, SocketsOfFd DEF Pids, AllOwned
    <3>4. sockets[k].pid # NoPid => Owned(fd, sockets[k].pid)
      BY <3>3 DEF Pids, AllOwned
    <3> QED BY <1>1, <3>1, <3>2, <3>3, <3>4 DEF Owned, NotAnothersPid
  <2> QED BY <2>1, <2>2
<1> QED BY <1>1, <1>2 DEF Pids, PidTypes, AllOwned, Owned

LEMMA FinishPids == ASSUME Inv, Pids, Finish PROVE Pids'
<1>1. pc = "readDone" /\ pc' \in {"scan", "dead"} /\ UNCHANGED <<owner, pids, session>>
  BY DEF Finish
<1>2. cur.fd \in Fd /\ TypeOK
  BY <1>1 DEF Inv, Handling, TypeOK
<1>3. CASE cur.msg \in {"disconnect", "exit"}
  <2>1. CloseFd(cur.fd)
    BY <1>3 DEF Finish
  <2> QED BY <1>1, <1>2, <2>1, CloseFdPids DEF Pids, PidTypes, AllOwned, NotAnothersPid
<1>4. CASE cur.msg \notin {"disconnect", "exit"}
  <2>1. UNCHANGED <<sockets, stale>>
    BY <1>4 DEF Finish
  <2> QED BY <1>1, <2>1 DEF Pids, PidTypes, AllOwned, Owned, NotAnothersPid
<1> QED BY <1>3, <1>4

LEMMA SweepPids == ASSUME Inv, Pids, Sweep PROVE Pids'
<1>1. pc' = "select" /\ stale' = << >> /\ UNCHANGED <<sockets, pids, session>>
  BY DEF Sweep
<1>2. /\ DOMAIN owner' = DOMAIN owner \ ToSet(stale) /\ \A f \in DOMAIN owner' : owner'[f] = owner[f]
  BY DEF Sweep, CloseAll
<1>3. \A x \in ToSet(stale) : \E j \in 1 .. Len(stale) : x = stale[j]
  <2>1. DOMAIN stale = 1 .. Len(stale)
    BY DEF Inv, TypeOK
  <2> QED BY <2>1 DEF ToSet
<1>4. ASSUME NEW i \in 1 .. Len(sockets), sockets[i].pid # NoPid
      PROVE  Owned(sockets[i].fd, sockets[i].pid)'
  <2>1. Owned(sockets[i].fd, sockets[i].pid)
    BY <1>4 DEF Pids, AllOwned
  <2>2. sockets[i].fd \in DOMAIN owner'
    BY <1>2, <1>3, <2>1 DEF Owned
  <2>3. 1 .. Len(stale') = {}
    BY <1>1
  <2> QED BY <1>1, <1>2, <2>1, <2>2, <2>3 DEF Owned
<1> QED BY <1>1, <1>4 DEF Pids, PidTypes, AllOwned, NotAnothersPid

(* The other steps change neither sockets nor descriptors.                 *)
LEMMA OtherPids ==
  ASSUME Inv, Pids, UNCHANGED <<owner, sockets, stale, session>>, IsFiniteSet(pids'),
         pc' \in {"key", "keyDone"} => pc \in {"key", "keyDone"} /\ cur'.fd = cur.fd,
         pc' = "read" => pc = "read" /\ cur' = cur
  PROVE  Pids'
BY DEF Pids, PidTypes, AllOwned, Owned, NotAnothersPid

LEMMA ReadPids == ASSUME Inv, Pids, ReadKey \/ Answer PROVE Pids'
<1>1. cur = [fd |-> cur.fd, pid |-> cur.pid, msg |-> cur.msg] /\ IsFiniteSet(pids)
  BY DEF Inv, TypeOK, Pids, PidTypes
<1>2. CASE ReadKey
  <2>1. \E m : cur' = [cur EXCEPT !.msg = m]
    BY <1>2 DEF ReadKey
  <2>2. cur'.fd = cur.fd
    BY <1>1, <2>1
  <2> QED BY <1>1, <1>2, <2>2, OtherPids DEF ReadKey
<1>3. CASE Answer
  <2>1. IsFiniteSet(pids')
    BY <1>1, <1>3, FS_AddElement DEF Answer
  <2> QED BY <1>3, <2>1, OtherPids DEF Answer
<1> QED BY <1>2, <1>3

LEMMA PidsStep == Inv /\ Pids /\ [Next]_vars => Pids'
<1> SUFFICES ASSUME Inv, Pids, [Next]_vars PROVE Pids'
  OBVIOUS
<1>1. CASE UNCHANGED vars
  BY <1>1, OtherPids DEF vars, serverVars, Pids, PidTypes
<1>2. CASE Select \/ AcceptFails \/ Hang \/ BrokenPipe
  <2>1. UNCHANGED <<owner, sockets, stale, session, pids>> /\ pc' \notin {"key", "keyDone", "read"}
    BY <1>2 DEF Select, AcceptFails, Visiting, Hang, BrokenPipe
  <2> QED BY <2>1, OtherPids DEF Pids, PidTypes, AllOwned
<1>3. CASE Accept \/ ReadKey \/ Registered \/ Refused
  BY <1>3, AcceptPids, ReadPids, RegisteredPids, RefusedPids
<1>4. CASE \E fd \in ready : PeekClosed(fd) \/ StartRead(fd)
  BY <1>4, PeekClosedPids, StartReadPids
<1>5. CASE Answer \/ Finish \/ Sweep
  BY <1>5, ReadPids, FinishPids, SweepPids
<1>6. CASE \E c \in Conn : ClientStep(c)
  <2>1. UNCHANGED serverVars
    BY <1>6 DEF ClientStep, Connect, SendKey, Ask, SendRest, Leave, Killed
  <2> QED BY <2>1, OtherPids DEF serverVars, Pids, PidTypes
<1> QED BY <1>1, <1>2, <1>3, <1>4, <1>5, <1>6 DEF Next, ServerStep

(* A request runs for the pid of the client that made it or for none:      *)
(* find_if in Listen looks for a descriptor only, but a socket that has a  *)
(* pid is erased before its descriptor is closed and given to a new client. *)
THEOREM ServerNotAnothersPid == Spec => []NotAnothersPid
<1>1. Init => Inv /\ Pids
  BY ServerInit, PidsInit
<1>2. Inv /\ Pids /\ [Next]_vars => (Inv /\ Pids)'
  BY ServerStepInv, PidsStep
<1>3. Pids => NotAnothersPid
  BY DEF Pids, AllOwned
<1> QED BY <1>1, <1>2, <1>3, PTL DEF Spec
=============================================================================
