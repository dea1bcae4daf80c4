-------------------------- MODULE StudentDatabase --------------------------
(***************************************************************************)
(* The classes DataHolder and DataBase of StudentDatabase, with the file   *)
(* __database.csv and the life of the server process around them.          *)
(*                                                                         *)
(* A request is one action, except the two that run a loop over ids        *)
(* (delete, remove) and the one that truncates a file before it writes it  *)
(* (save): these hold `job' until they are done.  Handlers run one at a    *)
(* time (Server::Listen waits for each), so no other request starts while  *)
(* a job is under way; the process may die at any moment.                  *)
(***************************************************************************)
EXTENDS StudentIndex, Sequences, FiniteSets

CONSTANTS
  Students,     \* the records that clients add
  Queries,      \* the queries that clients make
  RemoveLists,  \* the lists of ids that clients remove
  CommaName,    \* the names that contain the separator of the file
  MaxRecords,   \* bound: records added in one life of the process
  MaxUsers      \* bound: sessions registered in one life of the process

ASSUME DatabaseAssumption ==
  /\ Students \subseteq Student
  /\ Queries \subseteq Query
  /\ RemoveLists \subseteq SUBSET Nat
  /\ CommaName \subseteq Value
  /\ MaxRecords \in Nat
  /\ MaxUsers \in Nat

VARIABLES
  up,      \* the process is running
  data,    \* _data: every record ever inserted, data[id + 1] has the id
  base,    \* DataHolder::_index: the index of the students of the database
  sel,     \* _indexes: per user, the index of the last selection
  job,     \* the request in progress
  file,    \* the records in the database file, in order
  ub       \* this process has executed undefined behaviour

vars == <<up, data, base, sel, job, file, ub>>

Ids == 0 .. Len(data) - 1

(* A ClientSocket that was never given a pid has (size_t)-1, which the key *)
(* type int of _indexes turns into -1.                                     *)
NoPid == -1

Pid == {NoPid} \cup Nat

NoJob == [kind |-> "none", pid |-> NoPid, todo |-> {}]

Job == [kind : {"none", "delete", "remove", "save"}, pid : Pid, todo : SUBSET Nat]

Init ==
  /\ up = FALSE
  /\ data = <<>>
  /\ base = EmptyIndex
  /\ sel = <<>>
  /\ job = NoJob
  /\ file = <<>>
  /\ ub = FALSE

Idle == up /\ job = NoJob

-----------------------------------------------------------------------------
(* _indexes[pid] for reading and for writing: operator[] of a map creates  *)
(* the entry it does not find.                                             *)
SelOf(p) == IF p \in DOMAIN sel THEN sel[p] ELSE EmptyIndex

WithSel(p, idx) ==
  [x \in DOMAIN sel \cup {p} |-> IF x = p THEN idx ELSE sel[x]]

(* DataBase::RegisterUser: a new session starts with everything selected.  *)
NextPid == Cardinality(DOMAIN sel)

Register ==
  /\ Idle
  /\ NextPid < MaxUsers
  /\ sel' = WithSel(NextPid, base)
  /\ UNCHANGED <<up, data, base, job, file, ub>>

(* Mutants of Add: the id is taken after push_back, the id is one too      *)
(* small, or it is the size of the index instead of that of _data.         *)
AddWithId(s, id) ==
  /\ Idle
  /\ Len(data) < MaxRecords
  /\ data' = Append(data, s)
  /\ base' = IndexInsert(base, id, s)
  /\ UNCHANGED <<up, sel, job, file, ub>>

AddIdAfterPush(s) == AddWithId(s, Len(data) + 1)
AddIdTooSmall(s)  == AddWithId(s, Len(data) - 1)
AddIdOfIndex(s)   == AddWithId(s, Cardinality(base.ids))

(* DataBase::Add and DataHolder::Insert                                    *)
Add(s) ==
  /\ Idle
  /\ Len(data) < MaxRecords
  /\ data' = Append(data, s)
  /\ base' = IndexInsert(base, Len(data), s)
  /\ UNCHANGED <<up, sel, job, file, ub>>

(* DataBase::Select: the query runs on the index of the database.          *)
Select(p, q) ==
  /\ Idle
  /\ \E answer \in Answers(base, q) : sel' = WithSel(p, IndexOf(answer, data))
  /\ IF Undefined(base, q)
     THEN \E junk \in SUBSET base.ids :
            base' = Corrupted(base, Damaged(base, q), junk)
     ELSE base' = base
  /\ ub' = (ub \/ Undefined(base, q))
  /\ UNCHANGED <<up, data, job, file>>

(* DataBase::Reselect: the query runs on the selection it replaces, the    *)
(* damage of an undefined query goes with it.                              *)
Reselect(p, q) ==
  /\ Idle
  /\ \E answer \in Answers(SelOf(p), q) : sel' = WithSel(p, IndexOf(answer, data))
  /\ ub' = (ub \/ Undefined(SelOf(p), q))
  /\ UNCHANGED <<up, data, base, job, file>>

(* DataBase::Print changes nothing but the entry that operator[] creates.  *)
PrintSelection(p) ==
  /\ Idle
  /\ sel' = WithSel(p, SelOf(p))
  /\ UNCHANGED <<up, data, base, job, file, ub>>

-----------------------------------------------------------------------------
(* DataBase::Delete(pid): the ids of the selection, removed one by one     *)
(* from the index of the database; then the selection is cleared.          *)
DeleteBegin(p) ==
  /\ Idle
  /\ job' = [kind |-> "delete", pid |-> p, todo |-> SelOf(p).ids]
  /\ sel' = WithSel(p, SelOf(p))
  /\ UNCHANGED <<up, data, base, file, ub>>

(* DataBase::Delete(pid, ids): a list of ids the client typed.             *)
RemoveBegin(p, ids) ==
  /\ Idle
  /\ job' = [kind |-> "remove", pid |-> p, todo |-> ids]
  /\ UNCHANGED <<up, data, base, sel, file, ub>>

(* One turn of either loop.  An id that names no record is in no index.    *)
RemoveOne(id) ==
  /\ up
  /\ job.kind \in {"delete", "remove"}
  /\ id \in job.todo
  /\ job' = [job EXCEPT !.todo = @ \ {id}]
  /\ base' = IF id \in Ids THEN IndexRemove(base, id, data[id+1]) ELSE base
  /\ sel' = IF job.kind = "delete" THEN sel
            ELSE WithSel(job.pid,
                         IF id \in Ids
                         THEN IndexRemove(SelOf(job.pid), id, data[id+1])
                         ELSE SelOf(job.pid))
  /\ UNCHANGED <<up, data, file, ub>>

RemoveEnd ==
  /\ up
  /\ job.kind \in {"delete", "remove"}
  /\ job.todo = {}
  /\ job' = NoJob
  /\ sel' = IF job.kind = "delete" THEN WithSel(job.pid, EmptyIndex) ELSE sel
  /\ UNCHANGED <<up, data, base, file, ub>>

-----------------------------------------------------------------------------
(* The strictly increasing sequences of all the members of S.              *)
Enumerations(S) ==
  {e \in [1 .. Cardinality(S) -> S] : \A i, j \in DOMAIN e : i < j => e[i] < e[j]}

(* DataHolder::Save(file): opening the stream truncates the file, ...      *)
SaveBegin ==
  /\ Idle
  /\ job' = [NoJob EXCEPT !.kind = "save"]
  /\ file' = <<>>
  /\ UNCHANGED <<up, data, base, sel, ub>>

(* ... then one record per id of the index is written, by increasing id.   *)
SaveEnd ==
  /\ up
  /\ job.kind = "save"
  /\ \E e \in Enumerations(base.ids) :
       file' = [i \in DOMAIN e |-> data[e[i]+1]]
  /\ job' = NoJob
  /\ UNCHANGED <<up, data, base, sel, ub>>

(***************************************************************************)
(* What Load makes of a file.  A name ends at the first comma: the rest of *)
(* a name that has one is read as a group, which fails.  The failed stream *)
(* leaves group 0 and the rating of the record before (or the value of an  *)
(* uninitialised double), that record is inserted, and the loop ends.      *)
(***************************************************************************)
FirstSplit(lines) ==
  {i \in DOMAIN lines : /\ lines[i]["name"] \in CommaName
                        /\ \A j \in 1 .. i-1 : lines[j]["name"] \notin CommaName}

Mangled(lines, i) ==
  {s \in Student : /\ s["name"] \notin CommaName
                   /\ s["group"] = 0
                   /\ i > 1 => s["rating"] = lines[i-1]["rating"]}

Loaded(lines) ==
  {d \in {lines} : FirstSplit(lines) = {}}
  \cup UNION {{Append(SubSeq(lines, 1, i-1), s) : s \in Mangled(lines, i)} :
                i \in FirstSplit(lines)}

(* main of db_server.cpp: a new process loads the file.                    *)
Start ==
  /\ ~up
  /\ up' = TRUE
  /\ \E d \in Loaded(file) :
       /\ data' = d
       /\ base' = IndexOf(0 .. Len(d) - 1, d)
  /\ UNCHANGED <<sel, job, file, ub>>

(* The process ends: a client's exit request, a kill, a fault.             *)
Stop ==
  /\ up
  /\ up' = FALSE
  /\ data' = <<>>
  /\ base' = EmptyIndex
  /\ sel' = <<>>
  /\ job' = NoJob
  /\ ub' = FALSE
  /\ UNCHANGED file

(* Mutant of Disconnect: the session is erased when its user leaves.       *)
DisconnectErasing(p) ==
  /\ Idle
  /\ sel' = [x \in DOMAIN sel \ {p} |-> sel[x]]
  /\ UNCHANGED <<up, data, base, job, file, ub>>

(* The disconnect request closes the connection; the entry of the session  *)
(* in _indexes stays (EraseUser has no caller).                            *)
Disconnect(p) ==
  /\ Idle
  /\ sel' = sel
  /\ UNCHANGED <<up, data, base, job, file, ub>>

-----------------------------------------------------------------------------
User == DOMAIN sel \cup {NoPid}

Lookup(p, q) == Select(p, q) \/ Reselect(p, q)

Request(p) ==
  \/ PrintSelection(p)
  \/ Disconnect(p)
  \/ DeleteBegin(p)
  \/ \E ids \in RemoveLists : RemoveBegin(p, ids)

(* Every step but the lookups.                                             *)
Maintenance ==
  \/ Start
  \/ Stop
  \/ Register
  \/ \E s \in Students : Add(s)
  \/ \E p \in User : Request(p)
  \/ \E id \in job.todo : RemoveOne(id)
  \/ RemoveEnd
  \/ SaveBegin
  \/ SaveEnd

Next ==
  \/ \E p \in User, q \in Queries : Lookup(p, q)
  \/ Maintenance

Spec == Init /\ [][Next]_vars

-----------------------------------------------------------------------------
(* Every variable holds a value of its type.                               *)
TypeOK ==
  /\ up \in BOOLEAN
  /\ data \in Seq(Student)
  /\ base \in Index
  /\ DOMAIN sel \subseteq Pid
  /\ sel \in [DOMAIN sel -> Index]
  /\ job \in Job
  /\ file \in Seq(Student)
  /\ ub \in BOOLEAN

(***************************************************************************)
(* The four parts of the index of the database (the ids, the maps by name, *)
(* by group and by rating) describe the same students, whatever was added, *)
(* deleted, removed and loaded, and in the middle of a delete: Remove      *)
(* finds each id in the buckets of its own name, group and rating.  Only a *)
(* query that freed buckets breaks this.                                   *)
(***************************************************************************)
BaseAgrees == ~ub => base = IndexOf(base.ids, data)

(* So do those of every user, also after a remove took single ids out of   *)
(* a selection (DataBase::Delete(pid, ids)).                               *)
SelectionsAgree == ~ub => \A p \in DOMAIN sel : sel[p] = IndexOf(sel[p].ids, data)

(* No index names an id beyond _data, though selections keep ids of        *)
(* students that others have deleted: _data.at(id) in Print never throws   *)
(* and _data[id] in ConstructIndex and Save never reads out of bounds.     *)
KnownIds ==
  /\ base.ids \subseteq Ids
  /\ \A p \in DOMAIN sel : sel[p].ids \subseteq Ids

(* The pid that RegisterUser gives next, the size of _indexes, is not the  *)
(* pid of a user who has a selection, though the entry of -1 counts too.   *)
NextPidIsFree == NextPid \notin DOMAIN sel

(* A removed id never returns while the process lives: a selection that    *)
(* kept it can never come to name another student.                         *)
NoResurrection ==
  [][up /\ up' => \A id \in Ids \ base.ids : id \notin base'.ids]_vars

-----------------------------------------------------------------------------
(***************************************************************************)
(* The inductive invariant behind the properties above.  Damaged buckets   *)
(* too hold only ids of records; all pids are smaller than the number of   *)
(* sessions; a process that is down has no session; the user of a request  *)
(* in progress is one who may make requests.                               *)
(***************************************************************************)
InRange(idx) ==
  /\ idx.ids \subseteq Ids
  /\ \A c \in Column, v \in Value : idx.by[c][v] \subseteq Ids

AllInRange == InRange(base) /\ \A p \in DOMAIN sel : InRange(sel[p])

PidsBelowSize ==
  /\ IsFiniteSet(DOMAIN sel)
  /\ \A p \in DOMAIN sel : p < Cardinality(DOMAIN sel)

DownIsEmpty == ~up => DOMAIN sel = {}

IndInv ==
  /\ TypeOK
  /\ AllInRange
  /\ BaseAgrees
  /\ SelectionsAgree
  /\ PidsBelowSize
  /\ DownIsEmpty
  /\ job.pid \in User

-----------------------------------------------------------------------------
(* What the comments and the help text say and the code does not do.       *)

(* A server that starts has every student of the file that was saved.      *)
StartLoadsAll == [][Start => Len(data') = Len(file)]_vars
=============================================================================
