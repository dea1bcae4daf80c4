---------------------------------- MODULE Chat ----------------------------------
(* Romanova_EA's chat: datagrams to a server that knows its users by name and  *)
(* sends what it gets to all of them.  The network may lose a datagram, hand   *)
(* it over twice, or later than one that was sent after it.                    *)
EXTENDS Integers, FiniteSets, SequencesExt

CONSTANTS Client,   \* a client stands for its address too
          Name, NameOf, \* the nickname that each one entered
          MaxSent   \* bounds the datagrams of all clients together

(* What the constants must satisfy.                                            *)
ChatAssumption == NameOf \in [Client -> Name] /\ MaxSent \in Nat

VARIABLES up,
          Users,   \* the list: [name, ip]
          state,   \* of a client: "alive", "told" that the server ended, "ended"
          toServer, \* datagrams under way: [type, from, n], n telling them apart
          ending,  \* clients an MT_KILL_FS is under way to; what else they are sent they only print
          sent,
          heard    \* history: clients of whom something was handled since a quit of their name

vars == << up, Users, state, toServer, ending, sent, heard >>

Init ==
  /\ up = TRUE /\ Users = << >> /\ state = [c \in Client |-> "alive"]
  /\ toServer = {} /\ ending = {} /\ sent = 0 /\ heard = {}

-------------------------------------------------------------------------------
(* A line of a client: quit and kill are its last, and so is the one it waits  *)
(* for when it is told of the end.                                             *)
SendData(c, type) ==
  /\ state[c] # "ended" /\ sent < MaxSent /\ sent' = sent + 1
  /\ toServer' = toServer \cup {[type |-> type, from |-> c, n |-> sent]}
  /\ state' = IF type = "MT_MESSAGE" /\ state[c] = "alive" THEN state ELSE [state EXCEPT ![c] = "ended"]
  /\ UNCHANGED << up, Users, ending, heard >>

Lose ==
  /\ \/ (\E d \in toServer : toServer' = toServer \ {d}) /\ UNCHANGED ending
     \/ (\E c \in ending : ending' = ending \ {c}) /\ UNCHANGED toServer
  /\ UNCHANGED << up, Users, state, sent, heard >>

(* Its thread: only the news of the server's end change anything.              *)
Receive(c) ==
  /\ state[c] = "alive" /\ c \in ending /\ ending' = ending \ {c} /\ state' = [state EXCEPT ![c] = "told"]
  /\ UNCHANGED << up, Users, toServer, sent, heard >>

-------------------------------------------------------------------------------
(* The server.                                                                 *)
Found(name) == SelectInSeq(Users, LAMBDA u : u.name = name)

(* A name that is known keeps the address it came from first.                  *)
Added(c) == IF Found(NameOf[c]) = 0 THEN Append(Users, [name |-> NameOf[c], ip |-> c]) ELSE Users

(* Mutant: it is the sender's address that is looked for.                      *)
ErasedByAddress(users, c) == SelectSeq(users, LAMBDA u : u.ip # c)

Erased(users, c) ==
  LET i == SelectInSeq(users, LAMBDA u : u.name = NameOf[c])
  IN IF i = 0 THEN users ELSE RemoveAt(users, i)

(* An answer goes to everyone in the list, as a quit or a kill has left it.    *)
Answer(users, type) ==
  ending' = IF type = "MT_KILL_TS" THEN ending \cup {users[i].ip : i \in DOMAIN users} ELSE ending

(* Whoever is not known is taken in first, even to quit or to kill.            *)
Handle(d) ==
  LET users == IF d.type = "MT_QUIT_TS" THEN Erased(Added(d.from), d.from) ELSE Added(d.from)
      same == {c \in Client : NameOf[c] = NameOf[d.from]}
  IN /\ up /\ Users' = users
     /\ up' = (d.type # "MT_KILL_TS")
     /\ Answer(users, d.type)
     /\ toServer' \in {toServer, toServer \ {d}}
     /\ heard' = IF d.type = "MT_QUIT_TS" THEN heard \ same ELSE heard \cup {d.from}
     /\ UNCHANGED << state, sent >>

(* The server is started again and knows nobody.                               *)
Start ==
  /\ ~up /\ up' = TRUE /\ Users' = << >> /\ heard' = {}
  /\ UNCHANGED << state, toServer, ending, sent >>

Next ==
  \/ \E c \in Client : \E type \in {"MT_MESSAGE", "MT_QUIT_TS", "MT_KILL_TS"} : SendData(c, type)
  \/ Lose \/ Start
  \/ \E d \in toServer : Handle(d)
  \/ \E c \in Client : Receive(c)

Spec == Init /\ [][Next]_vars

-------------------------------------------------------------------------------
(* Of the clients that were heard under a name since it last quit just one is  *)
(* sent what is said: a second one of the same name, or the same user come     *)
(* back from another port, hears nothing; and nobody is sent anything whose    *)
(* name has quit, unless a datagram of his was still under way.                *)
OneOfEachName ==
  up => \A name \in Name :
          LET entries == {i \in DOMAIN Users : Users[i].name = name}
              ofName == {c \in heard : NameOf[c] = name}
          IN IF ofName = {} THEN entries = {} ELSE \E i \in entries : entries = {i} /\ Users[i].ip \in ofName
================================================================================
