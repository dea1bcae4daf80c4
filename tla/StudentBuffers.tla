----------------------------- MODULE StudentBuffers -----------------------------
(* PoroshinBA's database: every user has a copy of what user 0 loaded at the   *)
(* start, and a buffer that its queries change.  The select server hands one   *)
(* connection or query at a time to its handler and waits for it.  The lists   *)
(* by name are only ever written and are left out.                             *)
EXTENDS FiniteSets, SequencesExt, FiniteSetsExt, Positions

CONSTANTS Student,   \* [name, group, rating, info]
          Inserted,  \* those that "insert" and "remove" may give: their info is empty
          Client,
          FileName, Database, \* "__database.csv" is one of the files
          Files,     \* contents of all files at the start
          Criteria,  \* of select: the names a word is found in, or the bounds of a group or a rating
          MaxUser,   \* bounds the numbers of users
          MaxQueries \* bounds the queries, those before a restart included

Groups == {s.group : s \in Student}

(* What the constants must satisfy.                                            *)
BuffersAssumption ==
  /\ IsFiniteSet(Student) /\ Inserted \subseteq Student /\ Database \in FileName
  /\ {s.rating : s \in Student} \subseteq Int /\ Groups \subseteq Int /\ Files \subseteq [FileName -> Seq(Student)]

VARIABLES up,
          users,   \* Users
          copied,  \* group_data_copied: of a user and a group, its students_by_rating
          buffer,
          files,
          pid,     \* of a client: its user, -1 without a connection
          greeting, \* clients, at most one, whose first byte the accept handler waits for
          hung,    \* the server waits for the rest of a query, or for what a dead client sends
          queries

vars == << up, users, copied, buffer, files, pid, greeting, hung, queries >>

-------------------------------------------------------------------------------
(* One group's list.                                                           *)
Insert(list, s) ==
  LET i == SelectInSeq(list, LAMBDA t : t.rating >= s.rating)
  IN IF i = 0 THEN Append(list, s) ELSE InsertAt(list, i, s)

(* The first run of students equal to s is erased; a later one stays.          *)
First(list, s) == SelectInSeq(list, LAMBDA t : t = s)
RunEnd(list, i) == Max({k \in i .. Len(list) : \A j \in i .. k : list[j] = list[i]})

Removed(list, s) ==
  LET i == First(list, s)
  IN IF i = 0 THEN list ELSE SubSeq(list, 1, i - 1) \o SubSeq(list, RunEnd(list, i) + 1, Len(list))

(* One turn of a select's loop: at is where its iterator stands.               *)
(* Mutant: the iterator that erase returns is moved on.                        *)
TurnPast(at, keeps) ==
  IF at.i > Len(at.list) THEN at
  ELSE IF at.list[at.i] \in keeps THEN [at EXCEPT !.i = @ + 1]
  ELSE [list |-> Removed(at.list, at.list[at.i]), i |-> First(at.list, at.list[at.i]) + 1]

Turn(at, keeps) ==
  IF at.i > Len(at.list) THEN at
  ELSE IF at.list[at.i] \in keeps THEN [at EXCEPT !.i = @ + 1]
  ELSE [list |-> Removed(at.list, at.list[at.i]), i |-> First(at.list, at.list[at.i])]

Selected(list, keeps) ==
  LET upTo[turn \in 0 .. Len(list)] ==
        IF turn = 0 THEN [list |-> list, i |-> 1] ELSE Turn(upTo[turn - 1], keeps)
  IN upTo[Len(list)].list

(* The criteria: the bounds are left out for groups, and not for ratings.      *)
Admits(crit, s) ==
  CASE crit.field = "name" -> s.name \in crit.names
    [] crit.field = "group" -> s.group > crit.more /\ s.group < crit.less
    [] crit.field = "rating" -> s.rating >= crit.more /\ s.rating <= crit.less

-------------------------------------------------------------------------------
NoGroups == [g \in Groups |-> << >>]
Only(b) == [u \in {0} |-> b]

Inserts(b, students) ==
  LET upTo[n \in 0 .. Len(students)] ==
        IF n = 0 THEN b ELSE [upTo[n - 1] EXCEPT ![students[n].group] = Insert(@, students[n])]
  IN upTo[Len(students)]

Init ==
  /\ up = FALSE /\ users = {0} /\ copied = Only(NoGroups) /\ buffer = Only(NoGroups)
  /\ files \in Files /\ pid = [c \in Client |-> -1] /\ greeting = {} /\ hung = FALSE /\ queries = 0

(* main loads the database for user 0 and listens.                             *)
Start ==
  /\ ~up /\ up' = TRUE
  /\ buffer' = Only(Inserts(NoGroups, files[Database])) /\ copied' = buffer'
  /\ UNCHANGED << users, files, pid, greeting, hung, queries >>

Ends == /\ up' = FALSE /\ users' = {0} /\ copied' = Only(NoGroups) /\ buffer' = Only(NoGroups)
        /\ pid' = [c \in Client |-> -1] /\ hung' = FALSE /\ greeting' = {} /\ UNCHANGED files

Killed == up /\ Ends /\ UNCHANGED queries

With(f, u, b) == [v \in DOMAIN f \cup {u} |-> IF v = u THEN b ELSE f[v]]
Without(f, u) == [v \in DOMAIN f \ {u} |-> f[v]]

(* The loop of the server stands in select. *)
Ready == up /\ ~hung /\ greeting = {}

Accept(c) ==
  /\ Ready /\ pid[c] = -1 /\ Max(users) < MaxUser
  /\ greeting' = {c}
  /\ UNCHANGED << up, users, copied, buffer, files, pid, hung, queries >>

RegisterUser(c) ==
  LET u == Max(users) + 1
  IN /\ ~hung /\ c \in greeting /\ greeting' = {}
     /\ users' = users \cup {u} /\ pid' = [pid EXCEPT ![c] = u]
     /\ copied' = With(copied, u, copied[0]) /\ buffer' = With(buffer, u, copied[0])
     /\ UNCHANGED << up, files, hung, queries >>

(* A client that leaves without disconnect leaves its user behind.             *)
Leave(c) ==
  /\ Ready /\ pid[c] # -1 /\ pid' = [pid EXCEPT ![c] = -1]
  /\ UNCHANGED << up, users, copied, buffer, files, greeting, hung, queries >>

(* At an end of file get gives EOF for ever, and both handlers wait for a byte *)
(* that is not that: a client that says nothing and leaves holds the server.   *)
LeaveSilent(c) ==
  /\ ~hung /\ c \in greeting /\ hung' = TRUE
  /\ UNCHANGED << up, users, copied, buffer, files, pid, greeting, queries >>

Asks(c) == /\ Ready /\ pid[c] # -1 /\ queries < MaxQueries /\ queries' = queries + 1

InBuffer(c, b) == buffer' = [buffer EXCEPT ![pid[c]] = b] /\ UNCHANGED << up, users, copied, files, pid, greeting, hung >>

InsertQuery(c, s) == Asks(c) /\ InBuffer(c, Inserts(buffer[pid[c]], << s >>))

RemoveQuery(c, s) ==
  Asks(c) /\ InBuffer(c, [buffer[pid[c]] EXCEPT ![s.group] = Removed(@, s)])

Select(c, crit) ==
  /\ Asks(c)
  /\ InBuffer(c, [g \in Groups |-> Selected(buffer[pid[c]][g], {s \in Student : Admits(crit, s)})])

Renew(c) == Asks(c) /\ InBuffer(c, copied[pid[c]])

(* The old copy is cleared, the buffer is not: what is read comes on top of it.*)
Load(c, f) ==
  LET b == Inserts(buffer[pid[c]], files[f])
  IN /\ Asks(c) /\ buffer' = [buffer EXCEPT ![pid[c]] = b] /\ copied' = [copied EXCEPT ![pid[c]] = b]
     /\ UNCHANGED << up, users, files, pid, greeting, hung >>

(* The groups follow each other in whatever order the hash table has them.     *)
Save(c, f) ==
  /\ Asks(c)
  /\ \E order \in SetToSeqs(Groups) :
       files' = [files EXCEPT ![f] = FlattenSeq([i \in DOMAIN order |-> buffer[pid[c]][order[i]]])]
  /\ UNCHANGED << up, users, copied, buffer, pid, greeting, hung >>

(* sort and print answer and change nothing, and so does what is incorrect.    *)
PrintQuery(c) == Asks(c) /\ UNCHANGED << up, users, copied, buffer, files, pid, greeting, hung >>

Disconnect(c) ==
  /\ Asks(c) /\ users' = users \ {pid[c]} /\ pid' = [pid EXCEPT ![c] = -1]
  /\ copied' = Without(copied, pid[c]) /\ buffer' = Without(buffer, pid[c])
  /\ UNCHANGED << up, files, greeting, hung >>

Exit(c) == Asks(c) /\ Ends

(* A query without its last word takes the end of the message for it, and the  *)
(* one thread waits for another end that its client has no reason to send; and *)
(* so it does when the client is killed within a query.                        *)
Short(c) == Asks(c) /\ hung' = TRUE /\ UNCHANGED << up, users, copied, buffer, files, pid, greeting >>

Process(c) ==
  \/ \E s \in Inserted : InsertQuery(c, s) \/ RemoveQuery(c, s)
  \/ \E crit \in Criteria : Select(c, crit)
  \/ \E f \in FileName : Load(c, f) \/ Save(c, f)
  \/ Renew(c) \/ PrintQuery(c) \/ Disconnect(c) \/ Exit(c) \/ Short(c)

Next == Start \/ Killed \/ \E c \in Client : Accept(c) \/ RegisterUser(c) \/ Leave(c) \/ LeaveSilent(c) \/ Process(c)

Spec == Init /\ [][Next]_vars

-------------------------------------------------------------------------------
Admitted(list, crit) == Picked(list, {i \in DOMAIN list : Admits(crit, list[i])})

(* A select keeps just the students its criterion admits, in their order,      *)
(* though remove erases only the first of several runs of equal students.      *)
SelectIsFilter ==
  [][\A c \in Client : \A crit \in Criteria : Select(c, crit) =>
       \A g \in Groups : buffer'[pid[c]][g] = Admitted(buffer[pid[c]][g], crit)]_vars
================================================================================
