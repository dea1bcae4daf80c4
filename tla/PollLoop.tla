--------------------------------- MODULE PollLoop ---------------------------------
(* The loop around poll of ser_tcp.cpp, ser_bat.cpp and KutuzovOO/server.cpp:  *)
(* an array of slots, the first for the listening socket, and blocking reads.  *)
(* One thread visits the slots that poll marked, in order.  The loop of        *)
(* Menshikh_DA/serv.cpp has no Stops: it closes after a failed read only.      *)
EXTENDS Integers, FiniteSets, SequencesExt, FiniteSetsExt

CONSTANTS Fd,       \* descriptors accept may return, the lowest free one first
          Listener, \* the listening socket
          MaxSlots, \* 100 in the code
          MaxUnread \* bounds the requests a client sends ahead

ASSUME LoopAssumption ==
  /\ Fd \subseteq Nat /\ Listener \notin Fd
  /\ MaxSlots \in Nat \ {0} /\ MaxUnread \in Nat \ {0}

VARIABLES running,
          act_set, \* [fd, pollin], pollin being what is left of revents
          conn,    \* of a descriptor: "free", "open", or "gone" when its client has closed it
          unread,  \* requests that have come in
          pending  \* is a connection waiting for accept?

loopvars == << running, act_set, conn, unread, pending >>

Slot(fd) == [fd |-> fd, pollin |-> FALSE]

LoopInit ==
  /\ running = TRUE /\ act_set = << Slot(Listener) >>
  /\ conn = [fd \in Fd |-> "free"] /\ unread = [fd \in Fd |-> 0] /\ pending = FALSE

-------------------------------------------------------------------------------
(* The clients, no more of them at a time than there are descriptors.          *)
Connect ==
  /\ running /\ ~pending /\ (\E fd \in Fd : conn[fd] = "free") /\ pending' = TRUE
  /\ UNCHANGED << running, act_set, conn, unread >>

Send(fd) ==
  /\ running /\ conn[fd] = "open" /\ unread[fd] < MaxUnread
  /\ unread' = [unread EXCEPT ![fd] = @ + 1]
  /\ UNCHANGED << running, act_set, conn, pending >>

Leave(fd) ==
  /\ running /\ conn[fd] = "open" /\ conn' = [conn EXCEPT ![fd] = "gone"]
  /\ UNCHANGED << running, act_set, unread, pending >>

-------------------------------------------------------------------------------
(* poll marks what can be read without waiting: a request, or the end of the   *)
(* connection.  A closed descriptor makes it return at once and marks nothing. *)
PollIn(fd) ==
  IF fd = Listener THEN pending ELSE conn[fd] = "gone" \/ (conn[fd] = "open" /\ unread[fd] > 0)

Marked == {i \in DOMAIN act_set : act_set[i].pollin}

Poll ==
  /\ running /\ Marked = {}
  /\ \E i \in DOMAIN act_set : PollIn(act_set[i].fd)
  /\ act_set' = [i \in DOMAIN act_set |-> [act_set[i] EXCEPT !.pollin = PollIn(act_set[i].fd)]]
  /\ UNCHANGED << running, conn, unread, pending >>

(* The slot the loop has come to, and the array once its mark is cleared.      *)
Visits(i) == running /\ Marked # {} /\ i = Min(Marked)
Cleared(i) == [act_set EXCEPT ![i].pollin = FALSE]

NewFd == Min({fd \in Fd : conn[fd] = "free"})

(* Mutant: the new slot is marked.                                             *)
AcceptedMarked ==
  /\ act_set' = Append(Cleared(1), [fd |-> NewFd, pollin |-> TRUE])
  /\ conn' = [conn EXCEPT ![NewFd] = "open"] /\ unread' = [unread EXCEPT ![NewFd] = 0]

Accepted ==
  /\ act_set' = Append(Cleared(1), Slot(NewFd))
  /\ conn' = [conn EXCEPT ![NewFd] = "open"] /\ unread' = [unread EXCEPT ![NewFd] = 0]

(* With the array full the connection is closed again.                         *)
Accept ==
  /\ Visits(1) /\ pending' = FALSE /\ UNCHANGED running
  /\ \/ Len(act_set) < MaxSlots /\ Accepted
     \/ Len(act_set) = MaxSlots /\ act_set' = Cleared(1) /\ UNCHANGED << conn, unread >>

(* Mutant: the last slot goes, and does not move first.                        *)
WithoutLast(i) == IF i < Len(act_set) THEN Front(Cleared(i)) ELSE Cleared(i)

(* The last slot takes the place of one that is closed, but a last slot stays  *)
(* where it is.                                                                *)
Without(i) ==
  IF i < Len(act_set) THEN Front([Cleared(i) EXCEPT ![i] = Last(act_set)]) ELSE Cleared(i)

Close(i) ==
  /\ act_set' = Without(i) /\ conn' = [conn EXCEPT ![act_set[i].fd] = "free"]
  /\ unread' = [unread EXCEPT ![act_set[i].fd] = 0]
  /\ UNCHANGED << running, pending >>

(* The end of the connection, or an error as the descriptor is closed.         *)
ReadsEnd(i) == Visits(i) /\ i > 1 /\ unread[act_set[i].fd] = 0 /\ conn[act_set[i].fd] \in {"gone", "free"}
ReadFails(i) == ReadsEnd(i) /\ Close(i)

Reads(i) == Visits(i) /\ i > 1 /\ unread[act_set[i].fd] > 0
Consumes(i) ==
  /\ act_set' = Cleared(i) /\ unread' = [unread EXCEPT ![act_set[i].fd] = @ - 1]
  /\ UNCHANGED << conn, pending >>

(* ser_tcp.cpp writes a request back, or closes at "stop": wherever in the     *)
(* buffer that stands, in which the end of a longer message may still be.      *)
Echoes(i) == Reads(i) /\ Consumes(i) /\ UNCHANGED running

Stops(i) == Reads(i) /\ Close(i)

(* The write to a client that has closed: SIGPIPE.                             *)
Dies(i) ==
  /\ Reads(i) /\ conn[act_set[i].fd] = "gone" /\ running' = FALSE
  /\ UNCHANGED << act_set, conn, unread, pending >>

(* Nothing to read and not closed: the whole loop waits for this client.       *)
Blocked ==
  \E i \in DOMAIN act_set :
    Visits(i) /\ i > 1 /\ conn[act_set[i].fd] = "open" /\ unread[act_set[i].fd] = 0

-------------------------------------------------------------------------------
(* The echo server.                                                            *)
EchoStep ==
  \/ Poll \/ Accept
  \/ \E i \in DOMAIN act_set : ReadFails(i) \/ Echoes(i) \/ Stops(i) \/ Dies(i)

EchoNext == EchoStep \/ Connect \/ \E fd \in Fd : Send(fd) \/ Leave(fd)

-------------------------------------------------------------------------------
(* A last slot keeps a closed descriptor, the next accept returns it, and two  *)
(* slots have it: poll marks both for one request, and the read for the second *)
(* holds up every client.  Nothing but such a pair makes the loop wait.        *)
BlockedByTwin ==
  \A i \in DOMAIN act_set :
    Visits(i) /\ i > 1 /\ conn[act_set[i].fd] = "open" /\ unread[act_set[i].fd] = 0
      => \E j \in DOMAIN act_set : j # i /\ act_set[j].fd = act_set[i].fd

(* A request that has come in is read, unless the loop waits for another one   *)
(* or a signal has ended it.                                                   *)
ReadAtLast ==
  \A fd \in Fd : unread[fd] > 0 ~> (unread[fd] = 0 \/ Blocked \/ ~running)
================================================================================
