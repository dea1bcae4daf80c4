---------------------------- MODULE SimpleServer ----------------------------
(***************************************************************************)
(* The server of StudentDatabase: the select loop of Server::Listen, the   *)
(* handlers that main of db_server.cpp gives it, and the clients.          *)
(*                                                                         *)
(* Listen runs each handler in a thread of its own and waits for it: the   *)
(* future that std::async returns joins the thread when it is destroyed.   *)
(* The two threads are therefore one sequence of steps, named by pc.       *)
(*                                                                         *)
(* A client is one connection of client.py: it sends the key, waits for    *)
(* the answer, then sends one request at a time and waits for its answer.  *)
(* A request longer than a segment may arrive in two parts.  A client of   *)
(* Mortal may be killed at any moment.                                     *)
(***************************************************************************)
EXTENDS Positions, FiniteSets, SequencesExt, FiniteSetsExt

CONSTANTS
  Conn,        \* the connections, each made at most once
  Fd,          \* the descriptors the process may use for connections
  BadKey,      \* the connections whose client types a wrong key
  Mortal,      \* the connections whose client may be killed
  Exiting,     \* the connections whose client may make the exit request
  Backlog,     \* _backlog
  MaxRequests  \* bound: requests per connection

ASSUME ServerAssumption ==
  /\ IsFiniteSet(Conn) /\ IsFiniteSet(Fd)
  /\ Fd \subseteq Nat \ {0}
  /\ BadKey \subseteq Conn /\ Mortal \subseteq Conn /\ Exiting \subseteq Conn
  /\ Backlog \in Nat
  /\ MaxRequests \in Nat

VARIABLES
  st,        \* what each client is doing
  asks,      \* per client, the requests it has made
  inbox,     \* per connection, the packets the server has not read
  queue,     \* connections made and not accepted yet
  owner,     \* the open descriptors, each with its connection
  sockets,   \* _clientSockets
  stale,     \* _staleFileDescriptors
  ready,     \* the rest of clientSocketSet in this round of the loop
  pc,        \* what the server is doing
  cur,       \* the handler under way: its socket and what it read
  pids,      \* the keys of DataBase::_indexes
  session    \* per connection, the pid that RegisterUser gave it

clientVars == <<st, asks>>
serverVars == <<owner, sockets, stale, ready, pc, cur, pids, session>>
vars == <<st, asks, inbox, queue, serverVars>>

Listener == 0   \* stands for _socket, whose descriptor is the smallest
NoPid == -1     \* _pid of a ClientSocket before SetPID

NoHandler == [fd |-> Listener, pid |-> NoPid, msg |-> "none"]

Init ==
  /\ st = [c \in Conn |-> "new"]
  /\ asks = [c \in Conn |-> 0]
  /\ inbox = [c \in Conn |-> <<>>]
  /\ queue = <<>>
  /\ owner = <<>>
  /\ sockets = <<>>
  /\ stale = <<>>
  /\ ready = {}
  /\ pc = "select"
  /\ cur = NoHandler
  /\ pids = {}
  /\ session = [c \in Conn |-> NoPid]

-----------------------------------------------------------------------------
(* The clients.                                                            *)
Connect(c) ==
  /\ pc # "dead"
  /\ st[c] = "new"
  /\ Len(queue) <= Backlog   \* listen(n) queues n + 1 connections
  /\ st' = [st EXCEPT ![c] = "dialed"]
  /\ queue' = Append(queue, c)
  /\ UNCHANGED <<asks, inbox, serverVars>>

Send(c, packet) == inbox' = [inbox EXCEPT ![c] = Append(@, packet)]

SendKey(c) ==
  /\ st[c] = "dialed"
  /\ st' = [st EXCEPT ![c] = "waitKey"]
  /\ Send(c, IF c \in BadKey THEN "wrong" ELSE "right")
  /\ UNCHANGED <<asks, queue, serverVars>>

(* "half" is the first part of a request that does not end the line.       *)
Requests(c) == {"ask", "disconnect", "half"} \cup (IF c \in Exiting THEN {"exit"} ELSE {})

Ask(c) ==
  /\ st[c] = "ready"
  /\ asks[c] < MaxRequests
  /\ asks' = [asks EXCEPT ![c] = @ + 1]
  /\ \E r \in Requests(c) :
       /\ Send(c, r)
       /\ st' = [st EXCEPT ![c] = IF r = "half" THEN "sending" ELSE "asked"]
  /\ UNCHANGED <<queue, serverVars>>

SendRest(c) ==
  /\ st[c] = "sending"
  /\ st' = [st EXCEPT ![c] = "asked"]
  /\ Send(c, "rest")
  /\ UNCHANGED <<asks, queue, serverVars>>

(* A client who was refused or has disconnected closes its end; any other  *)
(* may do so between two requests.                                         *)
Leave(c) ==
  /\ st[c] \in {"ready", "refused", "done"}
  /\ st' = [st EXCEPT ![c] = "gone"]
  /\ UNCHANGED <<asks, inbox, queue, serverVars>>

Killed(c) ==
  /\ c \in Mortal
  /\ st[c] \notin {"new", "gone"}
  /\ st' = [st EXCEPT ![c] = "gone"]
  /\ UNCHANGED <<asks, inbox, queue, serverVars>>

-----------------------------------------------------------------------------
(* Server::Close(fd): the sockets of fd are erased, fd is to be closed.    *)
Without(fd) == Picked(sockets, {i \in DOMAIN sockets : sockets[i].fd # fd})

(* Mutants of CloseFd: the socket stays in _clientSockets; the descriptor  *)
(* is not put in the list of the stale ones.                               *)
CloseFdOnly(fd) ==
  /\ sockets' = sockets
  /\ stale' = Append(stale, fd)

CloseFdForgotten(fd) ==
  /\ sockets' = Without(fd)
  /\ stale' = stale

CloseFd(fd) ==
  /\ sockets' = Without(fd)
  /\ stale' = Append(stale, fd)

(* select() returns the descriptors that have data or an end of file.      *)
HasInput(fd) == inbox[owner[fd]] # <<>> \/ st[owner[fd]] = "gone"

Readable ==
  {fd \in DOMAIN owner : HasInput(fd)}
  \cup (IF queue # <<>> THEN {Listener} ELSE {})

Select ==
  /\ pc = "select"
  /\ Readable # {}
  /\ ready' = Readable
  /\ pc' = "scan"
  /\ UNCHANGED <<clientVars, inbox, queue, owner, sockets, stale, cur, pids, session>>

(* The for loop visits the descriptors by increasing number.               *)
Visiting(fd) == pc = "scan" /\ fd \in ready /\ \A g \in ready : fd <= g

-----------------------------------------------------------------------------
(* A new client: accept gives the smallest descriptor that is free.        *)
FreeFds == Fd \ DOMAIN owner

Accept ==
  /\ Visiting(Listener)
  /\ FreeFds # {}
  /\ LET fd == Min(FreeFds) IN
       /\ owner' = [f \in DOMAIN owner \cup {fd} |->
                      IF f = fd THEN Head(queue) ELSE owner[f]]
       /\ cur' = [NoHandler EXCEPT !.fd = fd]
  /\ queue' = Tail(queue)
  /\ ready' = ready \ {Listener}
  /\ pc' = "key"
  /\ UNCHANGED <<clientVars, inbox, sockets, stale, pids, session>>

(* accept fails: break leaves the for loop, the other descriptors of this  *)
(* round are not looked at.                                                *)
AcceptFails ==
  /\ Visiting(Listener)
  /\ FreeFds = {}
  /\ ready' = {}
  /\ UNCHANGED <<clientVars, inbox, queue, owner, sockets, stale, pc, cur, pids, session>>

(* The accept handler blocks in `is >> key' until the client has sent it   *)
(* or has closed; then it answers.  The buffer of the stream, and whatever *)
(* else it read, goes with the handler.                                    *)
ReadKey ==
  /\ pc = "key"
  /\ HasInput(cur.fd)
  /\ LET c == owner[cur.fd]
         right == inbox[c] # <<>> /\ Head(inbox[c]) = "right"
     IN /\ cur' = [cur EXCEPT !.msg = IF right THEN "right" ELSE "wrong"]
        /\ inbox' = [inbox EXCEPT ![c] = <<>>]
        /\ st' = [st EXCEPT ![c] = IF @ # "waitKey" THEN @
                                   ELSE IF right THEN "ready" ELSE "refused"]
  /\ pc' = "keyDone"
  /\ UNCHANGED <<asks, queue, owner, sockets, stale, ready, pids, session>>

(* Mutant: Listen does not add the ClientSocket.                          *)
RegisteredUnlisted ==
  /\ pc = "keyDone"
  /\ cur.msg = "right"
  /\ LET pid == Cardinality(pids) IN
       /\ pids' = pids \cup {pid}
       /\ session' = [session EXCEPT ![owner[cur.fd]] = pid]
  /\ pc' = "scan"
  /\ cur' = NoHandler
  /\ UNCHANGED <<clientVars, inbox, queue, owner, sockets, stale, ready>>

(* DataBase::RegisterUser and SetPID; then Listen adds the ClientSocket.   *)
Registered ==
  /\ pc = "keyDone"
  /\ cur.msg = "right"
  /\ LET pid == Cardinality(pids) IN
       /\ pids' = pids \cup {pid}
       /\ session' = [session EXCEPT ![owner[cur.fd]] = pid]
       /\ sockets' = Append(sockets, [fd |-> cur.fd, pid |-> pid])
  /\ pc' = "scan"
  /\ cur' = NoHandler
  /\ UNCHANGED <<clientVars, inbox, queue, owner, stale, ready>>

(* A wrong key: Close runs in the handler, BEFORE Listen adds the          *)
(* ClientSocket, which therefore stays in _clientSockets without a pid.    *)
Refused ==
  /\ pc = "keyDone"
  /\ cur.msg = "wrong"
  /\ sockets' = Append(Without(cur.fd), [fd |-> cur.fd, pid |-> NoPid])
  /\ stale' = Append(stale, cur.fd)
  /\ pc' = "scan"
  /\ cur' = NoHandler
  /\ UNCHANGED <<clientVars, inbox, queue, owner, ready, pids, session>>

-----------------------------------------------------------------------------
(* recv with MSG_PEEK returns 0: the client has closed.                    *)
PeekClosed(fd) ==
  /\ Visiting(fd) /\ fd # Listener
  /\ inbox[owner[fd]] = <<>>
  /\ CloseFd(fd)
  /\ ready' = ready \ {fd}
  /\ UNCHANGED <<clientVars, inbox, queue, owner, pc, cur, pids, session>>

(* find_if takes the first ClientSocket of the descriptor; without one the *)
(* data stays where it is.                                                 *)
SocketsOf(fd) == Picked(sockets, {i \in DOMAIN sockets : sockets[i].fd = fd})

StartRead(fd) ==
  /\ Visiting(fd) /\ fd # Listener
  /\ inbox[owner[fd]] # <<>>
  /\ ready' = ready \ {fd}
  /\ IF SocketsOf(fd) = <<>> THEN UNCHANGED <<pc, cur>>
     ELSE /\ pc' = "read"
          /\ cur' = [NoHandler EXCEPT !.fd = fd, !.pid = Head(SocketsOf(fd)).pid]
  /\ UNCHANGED <<clientVars, inbox, queue, owner, sockets, stale, pids, session>>

(* The read handler has the whole request: DataBase::Process runs it for   *)
(* the pid of the socket (an unknown pid gets an entry in _indexes), then  *)
(* the answer is sent.                                                     *)
Answer ==
  /\ pc = "read"
  /\ LET c == owner[cur.fd] IN
       /\ Last(inbox[c]) # "half"
       /\ cur' = [cur EXCEPT !.msg = Head(inbox[c])]
       /\ inbox' = [inbox EXCEPT ![c] = <<>>]
       /\ st' = [st EXCEPT ![c] = IF @ # "asked" THEN @
                                  ELSE IF cur'.msg = "disconnect" THEN "done" ELSE "ready"]
  /\ pids' = IF cur'.msg \in {"ask", "half"} THEN pids \cup {cur.pid} ELSE pids
  /\ pc' = "readDone"
  /\ UNCHANGED <<asks, queue, owner, sockets, stale, ready, session>>

(* `while (is.get() != '\7')' at the end of file: it never returns.        *)
Hang ==
  /\ pc = "read"
  /\ LET c == owner[cur.fd] IN inbox[c] = <<"half">> /\ st[c] = "gone"
  /\ pc' = "hung"
  /\ UNCHANGED <<clientVars, inbox, queue, owner, sockets, stale, ready, cur, pids, session>>

Finish ==
  /\ pc = "readDone"
  /\ IF cur.msg \in {"disconnect", "exit"} THEN CloseFd(cur.fd)
     ELSE UNCHANGED <<sockets, stale>>
  /\ pc' = IF cur.msg = "exit" THEN "dead" ELSE "scan"
  /\ cur' = NoHandler
  /\ UNCHANGED <<clientVars, inbox, queue, owner, ready, pids, session>>

(* The handlers send at least twice, the last time when the stream is      *)
(* destroyed: a send after the client's reset raises SIGPIPE, which ends   *)
(* the process.                                                            *)
BrokenPipe ==
  /\ pc \in {"keyDone", "readDone"}
  /\ st[owner[cur.fd]] = "gone"
  /\ pc' = "dead"
  /\ UNCHANGED <<clientVars, inbox, queue, owner, sockets, stale, ready, cur, pids, session>>

-----------------------------------------------------------------------------
(* The end of a round: the stale descriptors are closed.                   *)
RoundOver == pc = "scan" /\ ready = {}

CloseAll(fds) == owner' = [f \in DOMAIN owner \ fds |-> owner[f]]

(* Mutant of Sweep: _staleFileDescriptors is not cleared.                  *)
SweepKeepingStale ==
  /\ RoundOver
  /\ CloseAll(ToSet(stale))
  /\ pc' = "select"
  /\ UNCHANGED <<clientVars, inbox, queue, sockets, stale, ready, cur, pids, session>>

Sweep ==
  /\ RoundOver
  /\ CloseAll(ToSet(stale))
  /\ stale' = <<>>
  /\ pc' = "select"
  /\ UNCHANGED <<clientVars, inbox, queue, sockets, ready, cur, pids, session>>

-----------------------------------------------------------------------------
ServerStep ==
  \/ Select
  \/ Accept \/ AcceptFails \/ ReadKey \/ Registered \/ Refused
  \/ \E fd \in ready : PeekClosed(fd) \/ StartRead(fd)
  \/ Answer \/ Hang \/ Finish
  \/ Sweep

ClientStep(c) == Connect(c) \/ SendKey(c) \/ Ask(c) \/ SendRest(c) \/ Leave(c) \/ Killed(c)

Next == ServerStep \/ BrokenPipe \/ \E c \in Conn : ClientStep(c)

Spec == Init /\ [][Next]_vars

(* The server runs; a client that is not killed sends its key, and the     *)
(* rest of a request it began, and closes a connection it is done with.    *)
Fairness ==
  /\ WF_vars(ServerStep)
  /\ \A c \in Conn :
       WF_vars(SendKey(c)) /\ WF_vars(SendRest(c)) /\ WF_vars(st[c] # "ready" /\ Leave(c))

FairSpec == Spec /\ Fairness

-----------------------------------------------------------------------------
(* A request never runs for the pid of ANOTHER client, though descriptors  *)
(* are reused by later clients and find_if in Listen looks for the         *)
(* descriptor, not for the client.                                         *)
NotAnothersPid == pc = "read" => cur.pid \in {NoPid, session[owner[cur.fd]]}

(* The server closes the connection of no client that still wants it: a    *)
(* stale descriptor is never one that a new connection has got since.      *)
NoCut ==
  [][\A fd \in DOMAIN owner \ DOMAIN owner' :
        st[owner[fd]] \in {"refused", "done", "gone"}]_vars

-----------------------------------------------------------------------------
(* A client that is killed can end the server: by the rest of a request    *)
(* that never comes, or by SIGPIPE.                                        *)
Serving == pc \notin {"hung", "dead"}

(* With no descriptor left for a connection that waits, Listen does nothing *)
(* but fail to accept: no other socket is looked at, no end of one is seen. *)
Starved == <>[](FreeFds = {} /\ queue # <<>>)

(* Whoever sends a key or a request is eventually answered, whatever the   *)
(* other clients do between their requests, as long as the server serves.  *)
Answered ==
  Starved \/ \A c \in Conn : \A s \in {"waitKey", "asked"} :
                (Serving /\ st[c] = s) ~> (~Serving \/ st[c] # s)

(* The server eventually closes its end of every connection whose client   *)
(* has closed (server.cpp, the comment before the recv with MSG_PEEK), the *)
(* clients that were killed included, unless it ends or starves.           *)
Gone(c) == st[c] = "gone"
Released(c) == c \notin ToSet(queue) /\ \A fd \in DOMAIN owner : owner[fd] # c

ClosureSeen == Starved \/ \A c \in Conn : Gone(c) ~> (~Serving \/ Released(c))
=============================================================================
