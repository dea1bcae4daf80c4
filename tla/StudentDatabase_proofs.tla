----------------------- MODULE StudentDatabase_proofs -----------------------
(***************************************************************************)
(* Proofs about the two student databases.                                 *)
(* StudentDatabase: the types, the agreement of the parts of every index,  *)
(* the range of the ids and the freshness of the pids; and that            *)
(* StudentService implements StudentStore: every request of the database   *)
(* maps to one step of the store, or to none; and that its parser of       *)
(* conditions is the grammar (ConditionParser, the last part).             *)
(* LoginovaIrene: that merging conditions keeps what they mean (Comand),   *)
(* that the hash, the trees and the lists agree, and that a selection is   *)
(* what the conditions admit (StudentGroups).                              *)
(***************************************************************************)
EXTENDS StudentService, StudentGroups, Comand, ConditionParser, Positions_proofs,
        FiniteSetTheorems, SequenceTheorems, TLAPS

-----------------------------------------------------------------------------
(* Facts about the operators on indexes.                                   *)

(* The empty index is the index of no id.                                  *)
LEMMA EmptyIndexOf ==
  ASSUME NEW d
  PROVE  EmptyIndex = IndexOf({}, d)
BY DEF EmptyIndex, IndexOf

(* The index built for some ids of the records is an index.                *)
LEMMA IndexOfType ==
  ASSUME NEW d, NEW S \in SUBSET Nat
  PROVE  /\ IndexOf(S, d) \in Index
         /\ IndexOf(S, d).ids = S
BY DEF IndexOf, Index

LEMMA EmptyIndexType == EmptyIndex \in Index /\ EmptyIndex.ids = {}
BY DEF EmptyIndex, Index

(* Appending a record does not change the index of older ids.              *)
LEMMA IndexOfAppend ==
  ASSUME NEW d \in Seq(Student), NEW s \in Student,
         NEW S \in SUBSET (0 .. Len(d) - 1)
  PROVE  IndexOf(S, Append(d, s)) = IndexOf(S, d)
<1>1. \A id \in S : Append(d, s)[id+1] = d[id+1]
  OBVIOUS
<1> QED BY <1>1 DEF IndexOf

(* Insert extends the index of S to the index of S with the new id.        *)
LEMMA InsertAgrees ==
  ASSUME NEW d \in Seq(Student), NEW s \in Student,
         NEW S \in SUBSET (0 .. Len(d) - 1)
  PROVE  IndexInsert(IndexOf(S, d), Len(d), s)
           = IndexOf(S \cup {Len(d)}, Append(d, s))
<1> DEFINE e == Append(d, s)
<1>1. Len(d) \notin S
  OBVIOUS
<1>2. /\ \A id \in S : e[id+1] = d[id+1]
      /\ e[Len(d)+1] = s
  BY AppendProperties
<1>3. \A c \in Column : s[c] \in Value
  BY DEF Student
<1>4. ASSUME NEW c \in Column, NEW v \in Value
      PROVE  {id \in S \cup {Len(d)} : e[id+1][c] = v}
               = IF v = s[c] THEN {id \in S : d[id+1][c] = v} \cup {Len(d)}
                             ELSE {id \in S : d[id+1][c] = v}
  BY <1>2
<1> HIDE DEF e
<1>5. [c \in Column |-> [v \in Value |-> {id \in S \cup {Len(d)} : e[id+1][c] = v}]]
        = [c \in Column |->
             [[v \in Value |-> {id \in S : d[id+1][c] = v}]
                EXCEPT ![s[c]] = @ \cup {Len(d)}]]
  <2> SUFFICES ASSUME NEW c \in Column
               PROVE  [v \in Value |-> {id \in S \cup {Len(d)} : e[id+1][c] = v}]
                        = [[v \in Value |-> {id \in S : d[id+1][c] = v}]
                             EXCEPT ![s[c]] = @ \cup {Len(d)}]
    OBVIOUS
  <2> QED BY <1>3, <1>4
<1> QED BY <1>1, <1>5, ZenonT(40) DEF IndexInsert, IndexOf, e

(* Remove takes exactly the id out of the index of S: a bucket of size 1   *)
(* that the id belongs to holds nothing else.                              *)
LEMMA RemoveAgrees ==
  ASSUME NEW d \in Seq(Student), NEW S \in SUBSET (0 .. Len(d) - 1),
         NEW id \in 0 .. Len(d) - 1
  PROVE  IndexRemove(IndexOf(S, d), id, d[id+1]) = IndexOf(S \ {id}, d)
<1> DEFINE s == d[id+1]
<1>1. CASE id \notin S
  <2>1. S \ {id} = S
    BY <1>1
  <2> QED BY <1>1, <2>1 DEF IndexRemove, IndexOf
<1>2. CASE id \in S
  <2>1. s \in Student /\ \A c \in Column : s[c] \in Value
    BY DEF Student
  <2>2. ASSUME NEW c \in Column, NEW v \in Value
        PROVE  {x \in S \ {id} : d[x+1][c] = v}
                 = IF v = s[c] THEN BucketErase({x \in S : d[x+1][c] = v}, id)
                               ELSE {x \in S : d[x+1][c] = v}
    BY <1>2 DEF BucketErase, IsSingleton
  <2>3. [c \in Column |-> [v \in Value |-> {x \in S \ {id} : d[x+1][c] = v}]]
          = [c \in Column |->
               [[v \in Value |-> {x \in S : d[x+1][c] = v}]
                  EXCEPT ![s[c]] = BucketErase(@, id)]]
    <3> HIDE DEF s
    <3> SUFFICES ASSUME NEW c \in Column
                 PROVE  [v \in Value |-> {x \in S \ {id} : d[x+1][c] = v}]
                          = [[v \in Value |-> {x \in S : d[x+1][c] = v}]
                               EXCEPT ![s[c]] = BucketErase(@, id)]
      OBVIOUS
    <3> QED BY <2>1, <2>2
  <2> QED BY <1>2, <2>3, ZenonT(40) DEF IndexRemove, IndexOf
<1> QED BY <1>1, <1>2
-----------------------------------------------------------------------------
(* Facts about queries and about the map of selections.                    *)

(* Whatever a query does to an index whose buckets hold ids of records     *)
(* only, it selects ids of records.                                        *)
LEMMA AnswersInRange ==
  ASSUME NEW idx \in Index, InRange(idx), NEW q \in Query,
         NEW said \in Answers(idx, q)
  PROVE  said \subseteq Ids
<1>1. ASSUME NEW l \in Leaf, NEW a \in FindByCondition(idx, l)
      PROVE  a \subseteq Ids
  <2>1. Collect(idx, l) \subseteq Ids
    BY DEF Collect, Visited, InRange, Leaf
  <2> QED BY <1>1, <2>1 DEF FindByCondition, InRange
<1>2. q.lhs \in Leaf /\ q.rhs \in Leaf /\ q.op \in {"EMPTY", "ONE", "AND", "OR"}
  BY DEF Query
<1>3. CASE Undefined(idx, q)
  BY <1>3 DEF Answers, InRange
<1>4. CASE ~Undefined(idx, q) /\ q.op = "EMPTY"
  BY <1>4 DEF Answers
<1>5. CASE ~Undefined(idx, q) /\ q.op = "ONE"
  BY <1>1, <1>2, <1>5 DEF Answers
<1>6. CASE ~Undefined(idx, q) /\ q.op \in {"AND", "OR"}
  <2>1. PICK a \in FindByCondition(idx, q.lhs), b \in FindByCondition(idx, q.rhs) :
          said = IF q.op = "AND" THEN a \cap b ELSE a \cup b
    BY <1>6 DEF Answers
  <2>2. a \subseteq Ids /\ b \subseteq Ids
    BY <1>1, <1>2
  <2> QED BY <2>1, <2>2
<1> QED BY <1>2, <1>3, <1>4, <1>5, <1>6

(* The index of ids of records is in range.                                *)
LEMMA IndexOfInRange ==
  ASSUME NEW S, S \subseteq Ids, NEW d
  PROVE  InRange(IndexOf(S, d))
BY DEF InRange, IndexOf

LEMMA EmptyInRange == InRange(EmptyIndex)
BY DEF InRange, EmptyIndex

(* Writing one entry of the map of selections.                             *)
LEMMA WithSelFacts ==
  ASSUME TypeOK, NEW p \in Pid, NEW idx \in Index
  PROVE  /\ DOMAIN WithSel(p, idx) = DOMAIN sel \cup {p}
         /\ DOMAIN WithSel(p, idx) \subseteq Pid
         /\ WithSel(p, idx) \in [DOMAIN WithSel(p, idx) -> Index]
         /\ WithSel(p, idx)[p] = idx
         /\ \A x \in DOMAIN sel \ {p} : WithSel(p, idx)[x] = sel[x]
BY DEF WithSel, TypeOK

(* Reading one.                                                            *)
LEMMA SelOfFacts ==
  ASSUME IndInv, NEW p
  PROVE  /\ SelOf(p) \in Index
         /\ InRange(SelOf(p))
         /\ ~ub => SelOf(p) = IndexOf(SelOf(p).ids, data)
<1>1. CASE p \in DOMAIN sel
  BY <1>1 DEF SelOf, IndInv, TypeOK, AllInRange, SelectionsAgree
<1>2. CASE p \notin DOMAIN sel
  BY <1>2, EmptyInRange, EmptyIndexType, EmptyIndexOf DEF SelOf
<1> QED BY <1>1, <1>2

(* The pids stay below the number of sessions when the map gains an entry  *)
(* for a user who may make requests, or for the next pid.                  *)
LEMMA PidsStayBelow ==
  ASSUME TypeOK, PidsBelowSize, NEW p \in User \cup {NextPid}
  PROVE  /\ IsFiniteSet(DOMAIN sel \cup {p})
         /\ \A x \in DOMAIN sel \cup {p} : x < Cardinality(DOMAIN sel \cup {p})
<1> DEFINE D == DOMAIN sel
<1>1. IsFiniteSet(D) /\ Cardinality(D) \in Nat
  BY FS_CardinalityType DEF PidsBelowSize
<1>2. \A x \in D : x \in Int /\ x < Cardinality(D)
  BY DEF PidsBelowSize, TypeOK, Pid, NoPid
<1>3. CASE p \in D
  <2>1. D \cup {p} = D
    BY <1>3
  <2> QED BY <1>1, <1>2, <2>1
<1>4. CASE p \notin D
  <2>1. Cardinality(D \cup {p}) = Cardinality(D) + 1 /\ IsFiniteSet(D \cup {p})
    BY <1>1, <1>4, FS_AddElement
  <2>2. p \in Int /\ p < Cardinality(D) + 1
    BY <1>1, <1>4 DEF User, NextPid, NoPid
  <2> QED BY <1>1, <1>2, <2>1, <2>2
<1> QED BY <1>3, <1>4
-----------------------------------------------------------------------------
(* The inductive invariant.                                                *)

(* A request that writes one entry of the map of selections keeps all that *)
(* the invariant says of the map.                                          *)
LEMMA SelStep ==
  ASSUME IndInv, NEW p \in User \cup {NextPid}, NEW idx \in Index,
         InRange(idx), ub => ub', ~ub' => idx = IndexOf(idx.ids, data),
         sel' = WithSel(p, idx), data' = data
  PROVE  /\ DOMAIN sel' = DOMAIN sel \cup {p}
         /\ DOMAIN sel' \subseteq Pid
         /\ sel' \in [DOMAIN sel' -> Index]
         /\ (\A x \in DOMAIN sel : InRange(sel[x]))'
         /\ SelectionsAgree'
         /\ PidsBelowSize'
<1>1. TypeOK /\ PidsBelowSize /\ AllInRange /\ SelectionsAgree
  BY DEF IndInv
<1>2. p \in Pid
  BY <1>1, FS_CardinalityType DEF User, NextPid, Pid, PidsBelowSize, TypeOK
<1>3. /\ DOMAIN sel' = DOMAIN sel \cup {p}
      /\ DOMAIN sel' \subseteq Pid
      /\ sel' \in [DOMAIN sel' -> Index]
      /\ sel'[p] = idx
      /\ \A x \in DOMAIN sel \ {p} : sel'[x] = sel[x]
  BY <1>1, <1>2, WithSelFacts
<1>4. \A x \in DOMAIN sel' : sel'[x] = idx \/ (x \in DOMAIN sel /\ sel'[x] = sel[x])
  BY <1>3
<1>5. (\A x \in DOMAIN sel : InRange(sel[x]))'
  BY <1>1, <1>4 DEF InRange, Ids, AllInRange
<1>6. SelectionsAgree'
  BY <1>1, <1>4 DEF SelectionsAgree
<1>7. PidsBelowSize'
  BY <1>1, <1>3, PidsStayBelow DEF PidsBelowSize
<1> QED BY <1>3, <1>5, <1>6, <1>7

(* The values of a process that is down.                                   *)
LEMMA DownTypes ==
  /\ <<>> \in Seq(Student)
  /\ NoJob \in Job /\ NoJob.pid = NoPid
  /\ \A f : f = <<>> => DOMAIN f = {} /\ f \in [{} -> Index]
<1>1. NoJob \in Job /\ NoJob.pid = NoPid
  BY DEF NoJob, Job, Pid
<1>2. ASSUME NEW f, f = <<>>
      PROVE  DOMAIN f = {} /\ f \in [{} -> Index]
  <2>1. f = [x \in {} |-> EmptyIndex]
    BY <1>2
  <2> QED BY <2>1
<1> QED BY <1>1, <1>2

(* The initial state: no process, no record, no session.                   *)
LEMMA InitInv == Init => IndInv
<1> SUFFICES ASSUME Init PROVE IndInv
  OBVIOUS
<1>1. DOMAIN sel = {} /\ sel \in [{} -> Index]
  BY DownTypes DEF Init
<1>2. IsFiniteSet({})
  BY FS_EmptySet
<1>3. TypeOK
  BY <1>1, DownTypes, EmptyIndexType DEF Init, TypeOK
<1>4. AllInRange
  BY <1>1, EmptyInRange DEF Init, AllInRange
<1>5. BaseAgrees
  BY EmptyIndexOf, EmptyIndexType DEF Init, BaseAgrees
<1> QED
  BY <1>1, <1>2, <1>3, <1>4, <1>5
  DEF Init, IndInv, SelectionsAgree, PidsBelowSize, DownIsEmpty, User, NoJob

LEMMA StartInv == IndInv /\ Start => IndInv'
<1> SUFFICES ASSUME IndInv, Start PROVE IndInv'
  OBVIOUS
<1>1. PICK d \in Loaded(file) : data' = d /\ base' = IndexOf(0 .. Len(d) - 1, d)
  BY DEF Start
<1>2. d \in Seq(Student)
  <2>1. CASE d = file
    BY <2>1 DEF IndInv, TypeOK
  <2>2. CASE d # file
    <3>1. PICK i \in FirstSplit(file) :
            \E s \in Mangled(file, i) : d = Append(SubSeq(file, 1, i-1), s)
      BY <1>1, <2>2 DEF Loaded
    <3>a. PICK s \in Mangled(file, i) : d = Append(SubSeq(file, 1, i-1), s)
      BY <3>1
    <3>2. file \in Seq(Student) /\ i \in 1 .. Len(file) /\ s \in Student
      BY DEF IndInv, TypeOK, FirstSplit, Mangled
    <3>3. SubSeq(file, 1, i-1) \in Seq(Student)
      BY <3>2
    <3> QED BY <3>a, <3>2, <3>3
  <2> QED BY <2>1, <2>2
<1>3. 0 .. Len(d) - 1 \in SUBSET Nat
  BY <1>2
<1>4. base' \in Index /\ base'.ids = 0 .. Len(data') - 1
  BY <1>1, <1>3, IndexOfType
<1>5. DOMAIN sel = {} /\ sel' = sel
  BY DEF IndInv, Start, DownIsEmpty
<1>6. TypeOK'
  BY <1>1, <1>2, <1>4, <1>5 DEF Start, IndInv, TypeOK
<1>7. AllInRange'
  BY <1>1, <1>3, <1>5 DEF AllInRange, InRange, Ids, IndexOf
<1>8. BaseAgrees'
  BY <1>1, <1>4 DEF BaseAgrees
<1> QED
  BY <1>5, <1>6, <1>7, <1>8
  DEF IndInv, SelectionsAgree, PidsBelowSize, DownIsEmpty, User, Start

LEMMA StopInv == IndInv /\ Stop => IndInv'
<1> SUFFICES ASSUME IndInv, Stop PROVE IndInv'
  OBVIOUS
<1>1. DOMAIN sel' = {} /\ sel' \in [{} -> Index]
  BY DownTypes DEF Stop
<1>2. IsFiniteSet({})
  BY FS_EmptySet
<1>3. TypeOK'
  BY <1>1, DownTypes, EmptyIndexType DEF Stop, IndInv, TypeOK
<1>4. AllInRange'
  BY <1>1 DEF Stop, AllInRange, InRange, EmptyIndex
<1>5. BaseAgrees'
  BY EmptyIndexOf, EmptyIndexType DEF Stop, BaseAgrees
<1> QED
  BY <1>1, <1>2, <1>3, <1>4, <1>5
  DEF Stop, IndInv, SelectionsAgree, PidsBelowSize, DownIsEmpty, User, NoJob

LEMMA RegisterInv == IndInv /\ Register => IndInv'
<1> SUFFICES ASSUME IndInv, Register PROVE IndInv'
  OBVIOUS
<1>1. /\ base \in Index
      /\ InRange(base)
      /\ ub' = ub
      /\ ~ub' => base = IndexOf(base.ids, data)
      /\ sel' = WithSel(NextPid, base)
      /\ data' = data
  BY DEF Register, IndInv, TypeOK, AllInRange, BaseAgrees
<1>2. /\ DOMAIN sel' = DOMAIN sel \cup {NextPid}
      /\ DOMAIN sel' \subseteq Pid
      /\ sel' \in [DOMAIN sel' -> Index]
      /\ (\A x \in DOMAIN sel : InRange(sel[x]))'
      /\ SelectionsAgree'
      /\ PidsBelowSize'
  BY <1>1, SelStep
<1>3. TypeOK'
  BY <1>2 DEF Register, IndInv, TypeOK
<1>4. AllInRange' /\ BaseAgrees'
  BY <1>2 DEF Register, IndInv, AllInRange, InRange, Ids, BaseAgrees
<1> QED
  BY <1>2, <1>3, <1>4 DEF Register, Idle, IndInv, DownIsEmpty, User

LEMMA AddInv ==
  ASSUME NEW s \in Students
  PROVE  IndInv /\ Add(s) => IndInv'
<1> SUFFICES ASSUME IndInv, Add(s) PROVE IndInv'
  OBVIOUS
<1>1. /\ data \in Seq(Student) /\ s \in Student
      /\ data' = Append(data, s)
      /\ base' = IndexInsert(base, Len(data), s)
      /\ base.ids \subseteq 0 .. Len(data) - 1
  BY DatabaseAssumption DEF Add, IndInv, TypeOK, AllInRange, InRange, Ids
<1>2. data' \in Seq(Student) /\ Len(data') = Len(data) + 1
  BY <1>1
<1>3. Ids \subseteq Ids' /\ Len(data) \in Ids' /\ Len(data) \notin base.ids
  BY <1>1, <1>2 DEF Ids
<1>4. /\ base' \in Index
      /\ base'.ids = base.ids \cup {Len(data)}
      /\ \A c \in Column, v \in Value :
           base'.by[c][v] \subseteq base.by[c][v] \cup {Len(data)}
  BY <1>1, <1>3 DEF IndexInsert, Index, IndInv, TypeOK, Student
<1>5. TypeOK'
  BY <1>2, <1>4 DEF Add, IndInv, TypeOK
<1>6. AllInRange'
  BY <1>3, <1>4 DEF Add, IndInv, AllInRange, InRange
<1>7. BaseAgrees'
  <2> SUFFICES ASSUME ~ub PROVE base' = IndexOf(base'.ids, data')
    BY DEF BaseAgrees, Add
  <2>1. base = IndexOf(base.ids, data)
    BY DEF IndInv, BaseAgrees
  <2> QED BY <1>1, <1>4, <2>1, InsertAgrees
<1>8. SelectionsAgree'
  <2> SUFFICES ASSUME ~ub, NEW p \in DOMAIN sel
               PROVE  sel[p] = IndexOf(sel[p].ids, data')
    BY DEF SelectionsAgree, Add
  <2>1. sel[p] = IndexOf(sel[p].ids, data) /\ sel[p].ids \subseteq 0 .. Len(data) - 1
    BY DEF IndInv, SelectionsAgree, AllInRange, InRange, Ids
  <2> QED BY <1>1, <2>1, IndexOfAppend
<1> QED
  BY <1>5, <1>6, <1>7, <1>8
  DEF Add, Idle, IndInv, PidsBelowSize, DownIsEmpty, User
LEMMA SelectInv ==
  ASSUME NEW p \in User, NEW q \in Queries
  PROVE  IndInv /\ Select(p, q) => IndInv'
<1> SUFFICES ASSUME IndInv, Select(p, q) PROVE IndInv'
  OBVIOUS
<1>1. /\ data \in Seq(Student) /\ base \in Index /\ InRange(base) /\ q \in Query
      /\ data' = data
  BY DatabaseAssumption DEF Select, IndInv, TypeOK, AllInRange
<1>2. PICK said \in Answers(base, q) : sel' = WithSel(p, IndexOf(said, data))
  BY DEF Select
<1>3. said \subseteq Ids
  BY <1>1, AnswersInRange
<1>4. said \in SUBSET Nat
  BY <1>1, <1>3 DEF Ids
<1>5. /\ DOMAIN sel' = DOMAIN sel \cup {p}
      /\ DOMAIN sel' \subseteq Pid
      /\ sel' \in [DOMAIN sel' -> Index]
      /\ (\A x \in DOMAIN sel : InRange(sel[x]))'
      /\ SelectionsAgree'
      /\ PidsBelowSize'
  BY <1>1, <1>2, <1>3, <1>4, IndexOfType, IndexOfInRange, SelStep DEF Select
<1>6. /\ base' \in Index
      /\ base'.ids = base.ids
      /\ \A c \in Column, v \in Value :
           base'.by[c][v] \subseteq base.by[c][v] \cup base.ids
  <2>1. CASE Undefined(base, q)
    <3>1. PICK junk \in SUBSET base.ids :
            base' = Corrupted(base, Damaged(base, q), junk)
      BY <2>1 DEF Select
    <3> DEFINE B == Damaged(base, q)
               by == [c \in Column |-> [v \in Value |->
                        IF <<c, v>> \in B THEN junk ELSE base.by[c][v]]]
    <3>2. base' = [base EXCEPT !.by = by]
      BY <3>1 DEF Corrupted
    <3> HIDE DEF B
    <3>3. junk \in SUBSET Nat
      BY <1>1, <3>1 DEF Index
    <3>4. by \in [Column -> [Value -> SUBSET Nat]]
      BY <1>1, <3>3 DEF Index
    <3>5. \A c \in Column, v \in Value : by[c][v] \subseteq base.by[c][v] \cup base.ids
      BY <3>1
    <3> HIDE DEF by
    <3> QED BY <1>1, <3>2, <3>4, <3>5 DEF Index
  <2>2. CASE ~Undefined(base, q)
    BY <1>1, <2>2 DEF Select
  <2> QED BY <2>1, <2>2
<1>7. TypeOK'
  BY <1>5, <1>6 DEF Select, IndInv, TypeOK
<1>8. AllInRange'
  BY <1>1, <1>5, <1>6 DEF AllInRange, InRange, Ids
<1>9. BaseAgrees'
  BY DEF Select, IndInv, BaseAgrees
<1> QED
  BY <1>5, <1>7, <1>8, <1>9 DEF Select, Idle, IndInv, DownIsEmpty, User

(* The requests that change nothing but one selection.                     *)
LEMMA OneSelectionInv ==
  ASSUME IndInv, NEW p \in User, NEW idx \in Index, InRange(idx),
         ~ub' => idx = IndexOf(idx.ids, data), ub => ub', ub' \in BOOLEAN,
         sel' = WithSel(p, idx), up, job' \in Job, job'.pid \in User,
         UNCHANGED <<up, data, base, file>>
  PROVE  IndInv'
<1>1. /\ DOMAIN sel' = DOMAIN sel \cup {p}
      /\ DOMAIN sel' \subseteq Pid
      /\ sel' \in [DOMAIN sel' -> Index]
      /\ (\A x \in DOMAIN sel : InRange(sel[x]))'
      /\ SelectionsAgree'
      /\ PidsBelowSize'
  BY SelStep
<1>2. TypeOK'
  BY <1>1 DEF IndInv, TypeOK
<1>3. AllInRange' /\ BaseAgrees'
  BY <1>1 DEF IndInv, AllInRange, InRange, Ids, BaseAgrees
<1> QED
  BY <1>1, <1>2, <1>3 DEF IndInv, DownIsEmpty, User

LEMMA ReselectInv ==
  ASSUME NEW p \in User, NEW q \in Queries
  PROVE  IndInv /\ Reselect(p, q) => IndInv'
<1> SUFFICES ASSUME IndInv, Reselect(p, q) PROVE IndInv'
  OBVIOUS
<1>1. SelOf(p) \in Index /\ InRange(SelOf(p)) /\ q \in Query
  BY DatabaseAssumption, SelOfFacts
<1>2. PICK said \in Answers(SelOf(p), q) : sel' = WithSel(p, IndexOf(said, data))
  BY DEF Reselect
<1>3. said \subseteq Ids
  BY <1>1, AnswersInRange
<1>4. said \in SUBSET Nat
  BY <1>3 DEF Ids, IndInv, TypeOK
<1>5. IndexOf(said, data) \in Index /\ IndexOf(said, data).ids = said
  BY <1>4, IndexOfType
<1>6. InRange(IndexOf(said, data))
  BY <1>3, IndexOfInRange
<1>7. ub' \in BOOLEAN /\ (ub => ub')
  BY DEF Reselect, IndInv, TypeOK
<1>8. job' \in Job /\ job'.pid \in User
  BY DEF Reselect, IndInv, TypeOK
<1> QED
  BY <1>2, <1>5, <1>6, <1>7, <1>8, OneSelectionInv DEF Reselect, Idle

LEMMA PrintInv ==
  ASSUME NEW p \in User
  PROVE  IndInv /\ PrintSelection(p) => IndInv'
<1> SUFFICES ASSUME IndInv, PrintSelection(p) PROVE IndInv'
  OBVIOUS
<1>1. SelOf(p) \in Index /\ InRange(SelOf(p)) /\ (~ub => SelOf(p) = IndexOf(SelOf(p).ids, data))
  BY SelOfFacts
<1>2. ub' = ub /\ ub \in BOOLEAN /\ job' \in Job /\ job'.pid \in User
  BY DEF PrintSelection, IndInv, TypeOK
<1> QED BY <1>1, <1>2, OneSelectionInv DEF PrintSelection, Idle

LEMMA DeleteBeginInv ==
  ASSUME NEW p \in User
  PROVE  IndInv /\ DeleteBegin(p) => IndInv'
<1> SUFFICES ASSUME IndInv, DeleteBegin(p) PROVE IndInv'
  OBVIOUS
<1>1. SelOf(p) \in Index /\ InRange(SelOf(p)) /\ (~ub => SelOf(p) = IndexOf(SelOf(p).ids, data))
  BY SelOfFacts
<1>2. p \in Pid
  BY DEF User, IndInv, TypeOK, Pid
<1>3. ub' = ub /\ ub \in BOOLEAN /\ job' \in Job /\ job'.pid \in User
  BY <1>1, <1>2 DEF DeleteBegin, IndInv, TypeOK, Job, Index
<1> QED BY <1>1, <1>3, OneSelectionInv DEF DeleteBegin, Idle

(* The steps that change neither the records nor any index.                *)
LEMMA NoIndexInv ==
  ASSUME IndInv, job' \in Job, job'.pid \in User, file' \in Seq(Student),
         UNCHANGED <<up, data, base, sel, ub>>
  PROVE  IndInv'
BY DEF IndInv, TypeOK, AllInRange, InRange, Ids, BaseAgrees, SelectionsAgree,
       PidsBelowSize, DownIsEmpty, User

LEMMA RemoveBeginInv ==
  ASSUME NEW p \in User, NEW ids \in RemoveLists
  PROVE  IndInv /\ RemoveBegin(p, ids) => IndInv'
<1> SUFFICES ASSUME IndInv, RemoveBegin(p, ids) PROVE IndInv'
  OBVIOUS
<1>1. p \in Pid /\ ids \in SUBSET Nat
  BY DatabaseAssumption DEF User, IndInv, TypeOK, Pid
<1>2. job' \in Job /\ job'.pid \in User
  BY <1>1 DEF RemoveBegin, Job
<1> QED BY <1>2, NoIndexInv DEF RemoveBegin, IndInv, TypeOK

LEMMA SaveInv == IndInv /\ (SaveBegin \/ SaveEnd) => IndInv'
<1>1. ASSUME IndInv, SaveBegin PROVE IndInv'
  <2>1. job' \in Job /\ job'.pid \in User
    BY <1>1, DownTypes DEF SaveBegin, NoJob, Job, User
  <2>2. file' \in Seq(Student)
    BY <1>1, DownTypes DEF SaveBegin
  <2> QED BY <1>1, <2>1, <2>2, NoIndexInv DEF SaveBegin
<1>2. ASSUME IndInv, SaveEnd PROVE IndInv'
  <2>1. job' \in Job /\ job'.pid \in User
    BY <1>2, DownTypes DEF SaveEnd, User
  <2>2. PICK e \in Enumerations(base.ids) : file' = [i \in DOMAIN e |-> data[e[i]+1]]
    BY <1>2 DEF SaveEnd
  <2>3. /\ base.ids \subseteq 0 .. Len(data) - 1
        /\ data \in Seq(Student)
    BY <1>2 DEF IndInv, AllInRange, InRange, Ids, TypeOK
  <2>4. IsFiniteSet(base.ids) /\ Cardinality(base.ids) \in Nat
    <3>1. IsFiniteSet(0 .. Len(data) - 1)
      BY <2>3, FS_Interval
    <3> QED BY <2>3, <3>1, FS_Subset, FS_CardinalityType
  <2>5. e \in [1 .. Cardinality(base.ids) -> base.ids]
    BY <2>2 DEF Enumerations
  <2>6. \A i \in DOMAIN e : data[e[i]+1] \in Student
    BY <2>3, <2>5
  <2>7. file' \in Seq(Student)
    BY <2>2, <2>4, <2>5, <2>6
  <2> QED BY <1>2, <2>1, <2>7, NoIndexInv DEF SaveEnd
<1> QED BY <1>1, <1>2

(* One id of a delete or a remove: where the index of the database agreed  *)
(* with the records, it still does without the id, and so does the         *)
(* selection of the user.                                                  *)
LEMMA IndexRemoveStep ==
  ASSUME data \in Seq(Student), NEW idx \in Index, InRange(idx), NEW id \in Ids
  PROVE  /\ IndexRemove(idx, id, data[id+1]) \in Index
         /\ InRange(IndexRemove(idx, id, data[id+1]))
         /\ idx = IndexOf(idx.ids, data) =>
              IndexRemove(idx, id, data[id+1])
                = IndexOf(IndexRemove(idx, id, data[id+1]).ids, data)
<1> DEFINE s == data[id+1]
<1>1. id \in 0 .. Len(data) - 1 /\ id \in Nat
  BY DEF Ids
<1>2. s \in Student
  BY <1>1
<1>3. \A c \in Column : s[c] \in Value
  BY <1>2 DEF Student
<1> HIDE DEF s
<1>4. CASE id \notin idx.ids
  BY <1>4 DEF IndexRemove, s
<1>5. CASE id \in idx.ids
  <2> DEFINE by == [c \in Column |->
                      [idx.by[c] EXCEPT ![s[c]] = BucketErase(@, id)]]
  <2>1. IndexRemove(idx, id, s) = [ids |-> idx.ids \ {id}, by |-> by]
    BY <1>5 DEF IndexRemove
  <2>2. \A c \in Column, v \in Value : by[c][v] \subseteq idx.by[c][v]
    BY <1>3 DEF BucketErase, Index
  <2>3. by \in [Column -> [Value -> SUBSET Nat]]
    BY <1>3 DEF BucketErase, Index
  <2> HIDE DEF by
  <2>4. IndexRemove(idx, id, s) \in Index
    BY <2>1, <2>3 DEF Index
  <2>5. InRange(IndexRemove(idx, id, s))
    BY <2>1, <2>2 DEF InRange
  <2>6. ASSUME idx = IndexOf(idx.ids, data)
        PROVE  IndexRemove(idx, id, s) = IndexOf(IndexRemove(idx, id, s).ids, data)
    <3>1. IndexRemove(IndexOf(idx.ids, data), id, s) = IndexOf(idx.ids \ {id}, data)
      BY <1>1, RemoveAgrees DEF s, InRange, Ids
    <3>2. IndexRemove(idx, id, s).ids = idx.ids \ {id}
      BY <2>1
    <3> QED BY <2>6, <3>1, <3>2
  <2> QED BY <2>4, <2>5, <2>6 DEF s
<1> QED BY <1>4, <1>5

LEMMA RemoveOneInv ==
  ASSUME NEW id \in job.todo
  PROVE  IndInv /\ RemoveOne(id) => IndInv'
<1> SUFFICES ASSUME IndInv, RemoveOne(id) PROVE IndInv'
  OBVIOUS
<1>1. /\ data \in Seq(Student) /\ base \in Index /\ InRange(base) /\ job.pid \in User
      /\ job \in Job /\ ub' = ub /\ ub \in BOOLEAN /\ data' = data /\ up /\ up' = up
  BY DEF RemoveOne, IndInv, TypeOK, AllInRange
<1>2. job' \in Job /\ job'.pid = job.pid
  BY <1>1 DEF RemoveOne, Job
<1>3. /\ base' \in Index
      /\ InRange(base')
      /\ ~ub => base' = IndexOf(base'.ids, data)
  BY <1>1, IndexRemoveStep DEF RemoveOne, IndInv, BaseAgrees
<1> DEFINE idx == IF id \in Ids THEN IndexRemove(SelOf(job.pid), id, data[id+1])
                                 ELSE SelOf(job.pid)
<1>4. /\ idx \in Index
      /\ InRange(idx)
      /\ ~ub => idx = IndexOf(idx.ids, data)
  BY <1>1, SelOfFacts, IndexRemoveStep
<1>5. sel' = sel \/ sel' = WithSel(job.pid, idx)
  BY DEF RemoveOne
<1> HIDE DEF idx
<1>6. /\ DOMAIN sel' = DOMAIN sel \/ DOMAIN sel' = DOMAIN sel \cup {job.pid}
      /\ DOMAIN sel' \subseteq Pid
      /\ sel' \in [DOMAIN sel' -> Index]
      /\ (\A x \in DOMAIN sel : InRange(sel[x]))'
      /\ SelectionsAgree'
      /\ PidsBelowSize'
  <2>1. CASE sel' = sel
    BY <1>1, <2>1 DEF IndInv, TypeOK, AllInRange, InRange, Ids, SelectionsAgree, PidsBelowSize
  <2>2. CASE sel' = WithSel(job.pid, idx)
    BY <1>1, <1>4, <2>2, SelStep
  <2> QED BY <1>5, <2>1, <2>2
<1>7. TypeOK'
  BY <1>1, <1>2, <1>3, <1>6 DEF RemoveOne, IndInv, TypeOK
<1>8. AllInRange'
  BY <1>1, <1>3, <1>6 DEF AllInRange, InRange, Ids
<1>9. BaseAgrees'
  BY <1>1, <1>3 DEF BaseAgrees
<1> QED
  BY <1>1, <1>2, <1>6, <1>7, <1>8, <1>9 DEF IndInv, DownIsEmpty, User

LEMMA RemoveEndInv == IndInv /\ RemoveEnd => IndInv'
<1> SUFFICES ASSUME IndInv, RemoveEnd PROVE IndInv'
  OBVIOUS
<1>1. /\ job.pid \in User /\ job' \in Job /\ job'.pid \in User
      /\ ub' = ub /\ ub \in BOOLEAN
  BY DownTypes DEF RemoveEnd, IndInv, TypeOK, User
<1>2. CASE job.kind = "delete"
  BY <1>1, <1>2, EmptyIndexType, EmptyInRange, EmptyIndexOf, OneSelectionInv DEF RemoveEnd
<1>3. CASE job.kind # "delete"
  BY <1>1, <1>3, NoIndexInv DEF RemoveEnd, IndInv, TypeOK
<1> QED BY <1>2, <1>3

LEMMA DisconnectInv ==
  ASSUME NEW p \in User
  PROVE  IndInv /\ Disconnect(p) => IndInv'
BY NoIndexInv DEF Disconnect, IndInv, TypeOK

LEMMA StutterInv == IndInv /\ UNCHANGED vars => IndInv'
BY NoIndexInv DEF vars, IndInv, TypeOK

(***************************************************************************)
(* The inductive invariant holds in every reachable state, whatever the    *)
(* students, the queries, the lists of ids and the bounds.                 *)
(***************************************************************************)
THEOREM Inductive == Spec => []IndInv
<1>1. IndInv /\ [Next]_vars => IndInv'
  <2> SUFFICES ASSUME IndInv, [Next]_vars PROVE IndInv'
    OBVIOUS
  <2>1. ASSUME NEW p \in User, NEW q \in Queries, Lookup(p, q) PROVE IndInv'
    BY <2>1, SelectInv, ReselectInv DEF Lookup
  <2>2. ASSUME NEW p \in User, Request(p) PROVE IndInv'
    BY <2>2, PrintInv, DisconnectInv, DeleteBeginInv, RemoveBeginInv DEF Request
  <2> QED
    BY <2>1, <2>2, StartInv, StopInv, RegisterInv, AddInv, RemoveOneInv, RemoveEndInv,
       SaveInv, StutterInv DEF Next, Maintenance
<1> QED BY <1>1, InitInv, PTL DEF Spec

(* Every variable keeps its type.                                          *)
THEOREM TypeCorrect == Spec => []TypeOK
<1>1. IndInv => TypeOK
  BY DEF IndInv
<1> QED BY <1>1, Inductive, PTL

(* The ids and the three maps of the index of the database agree: Remove   *)
(* and Insert keep it the index that would be built from scratch.          *)
THEOREM BaseAgreement == Spec => []BaseAgrees
<1>1. IndInv => BaseAgrees
  BY DEF IndInv
<1> QED BY <1>1, Inductive, PTL

(* The same for the selection of every user.                               *)
THEOREM SelectionAgreement == Spec => []SelectionsAgree
<1>1. IndInv => SelectionsAgree
  BY DEF IndInv
<1> QED BY <1>1, Inductive, PTL

(* No index names an id that has no record: Print, Save and ConstructIndex *)
(* never read beyond _data.                                                *)
THEOREM IdsKnown == Spec => []KnownIds
<1>1. IndInv => KnownIds
  BY DEF IndInv, AllInRange, InRange, KnownIds
<1> QED BY <1>1, Inductive, PTL

(* RegisterUser never gives a pid that is in use, though it numbers users  *)
(* by the size of a map that also holds the entry of the pid -1.           *)
THEOREM FreshPid == Spec => []NextPidIsFree
<1>1. IndInv => NextPidIsFree
  <2> SUFFICES ASSUME IndInv, NextPid \in DOMAIN sel PROVE FALSE
    BY DEF NextPidIsFree
  <2>1. Cardinality(DOMAIN sel) \in Nat
    BY FS_CardinalityType DEF IndInv, PidsBelowSize
  <2> QED BY <2>1 DEF IndInv, PidsBelowSize, NextPid
<1> QED BY <1>1, Inductive, PTL

(* A removed id stays removed: ids of new records are beyond all others,   *)
(* and no other request puts an id into the index of the database.         *)
THEOREM RemovedForGood == Spec => NoResurrection
<1> DEFINE A == up /\ up' => \A id \in Ids \ base.ids : id \notin base'.ids
<1>1. IndInv /\ [Next]_vars => [A]_vars
  <2> SUFFICES ASSUME IndInv, Next, up, up', NEW id \in Ids \ base.ids
               PROVE  id \notin base'.ids
    OBVIOUS
  <2>1. base \in Index /\ data \in Seq(Student) /\ id < Len(data)
    BY DEF IndInv, TypeOK, Ids
  <2>2. base' = base => id \notin base'.ids
    OBVIOUS
  <2>3. ASSUME NEW s \in Students, Add(s) PROVE id \notin base'.ids
    BY <2>1, <2>3 DEF Add, IndexInsert
  <2>4. ASSUME NEW p \in User, NEW q \in Queries, Select(p, q)
        PROVE  id \notin base'.ids
    BY <2>1, <2>4 DEF Select, Corrupted, Index
  <2>5. ASSUME NEW p \in User, Request(p) PROVE id \notin base'.ids
    BY <2>2, <2>5 DEF Request, PrintSelection, Disconnect, DeleteBegin, RemoveBegin
  <2>6. ASSUME NEW x \in job.todo, RemoveOne(x) PROVE id \notin base'.ids
    BY <2>1, <2>6 DEF RemoveOne, IndexRemove
  <2>7. ASSUME NEW p \in User, NEW q \in Queries, Lookup(p, q)
        PROVE  id \notin base'.ids
    BY <2>2, <2>4, <2>7 DEF Lookup, Reselect
  <2> QED
    BY <2>2, <2>3, <2>5, <2>6, <2>7
    DEF Next, Maintenance, Start, Stop, Register, RemoveEnd, SaveBegin, SaveEnd
<1> QED BY <1>1, Inductive, PTL DEF Spec, NoResurrection

-----------------------------------------------------------------------------
(* What a query selects from an index that agrees with the records.        *)

(* One comparison whose lookup frees nothing.                              *)
LEMMA LeafPromise ==
  ASSUME NEW S, S \subseteq Ids, data \in Seq(Student), NEW l \in Leaf,
         Freed(IndexOf(S, data), l) = {},
         NEW a \in FindByCondition(IndexOf(S, data), l)
  PROVE  Store!MustSelect(l, S) \subseteq a /\ a \subseteq Store!MaySelect(l, S)
<1> DEFINE idx == IndexOf(S, data)
<1>1. /\ l.col \in Column /\ l.cmp \in Comparison /\ l.val \in Int /\ l.to \in Int
      /\ idx.ids = S
      /\ \A k \in Value : idx.by[l.col][k] = {id \in S : data[id+1][l.col] = k}
  BY ValueAssumption DEF Leaf, IndexOf
<1>2. \A id \in S : data[id+1][l.col] \in Value /\ data[id+1][l.col] \in Int
  <2> SUFFICES ASSUME NEW id \in S
               PROVE  data[id+1][l.col] \in Value /\ data[id+1][l.col] \in Int
    OBVIOUS
  <2>1. id+1 \in 1 .. Len(data)
    BY DEF Ids
  <2>2. data[id+1] \in Student
    BY <2>1
  <2> QED BY <1>1, <2>2, ValueAssumption DEF Student
<1> HIDE DEF idx
<1>3. Collect(idx, l) = {id \in S : data[id+1][l.col] \in Visited(l)}
  BY <1>1, <1>2 DEF Collect, Visited
<1>4. CASE l.cmp \in Negative
  <2>1. a = S
    BY <1>1, <1>4 DEF FindByCondition, idx
  <2>2. Present(idx, l) = {}
    <3>1. Freed(idx, l) = {l.col} \X Present(idx, l)
      BY <1>4 DEF Freed
    <3>2. Freed(idx, l) = {}
      BY DEF idx
    <3>3. ASSUME NEW k \in Present(idx, l) PROVE FALSE
      <4>1. <<l.col, k>> \in {l.col} \X Present(idx, l)
        OBVIOUS
      <4> QED BY <3>1, <3>2, <4>1
    <3> QED BY <3>3
  <2>3. \A id \in S : data[id+1][l.col] \notin Visited(l)
    BY <1>1, <1>2, <2>2 DEF Present, Visited
  <2> QED
    BY <1>2, <1>4, <2>1, <2>3
    DEF Negative, Pattern, Visited, Store!MustSelect, Store!MaySelect, Store!MayMatch, Store!MustMatch
<1>5. CASE l.cmp \notin Negative
  <2>1. a = Collect(idx, l) \/ (a = {} /\ l.cmp = ">")
    BY <1>5 DEF FindByCondition, idx
  <2> QED
    BY <1>1, <1>2, <1>3, <1>5, <2>1
    DEF Comparison, Negative, Pattern, Visited,
        Store!MustSelect, Store!MaySelect, Store!MayMatch, Store!MustMatch
<1> QED BY <1>4, <1>5

(* A whole query.                                                          *)
LEMMA QueryPromise ==
  ASSUME NEW S, S \subseteq Ids, data \in Seq(Student), NEW q \in Query,
         ~Undefined(IndexOf(S, data), q),
         NEW a \in Answers(IndexOf(S, data), q)
  PROVE  Store!Promised(q, S, a)
<1> DEFINE idx == IndexOf(S, data)
<1>1. q.lhs \in Leaf /\ q.rhs \in Leaf /\ q.op \in {"EMPTY", "ONE", "AND", "OR"}
  BY DEF Query
<1>2. ASSUME NEW l \in Leaves(q) PROVE Freed(idx, l) = {}
  BY <1>2 DEF Undefined, Damaged
<1> HIDE DEF idx
<1>3. CASE q.op = "EMPTY"
  BY <1>3 DEF Answers, Store!Promised, idx
<1>4. CASE q.op = "ONE"
  BY <1>1, <1>2, <1>4, LeafPromise DEF Answers, Store!Promised, Leaves, idx
<1>5. CASE q.op \in {"AND", "OR"}
  <2>1. PICK b \in FindByCondition(idx, q.lhs), c \in FindByCondition(idx, q.rhs) :
          a = IF q.op = "AND" THEN b \cap c ELSE b \cup c
    BY <1>5 DEF Answers, idx
  <2>2. /\ Store!MustSelect(q.lhs, S) \subseteq b /\ b \subseteq Store!MaySelect(q.lhs, S)
        /\ Store!MustSelect(q.rhs, S) \subseteq c /\ c \subseteq Store!MaySelect(q.rhs, S)
    BY <1>1, <1>2, <1>5, LeafPromise DEF Leaves, idx
  <2> QED BY <1>5, <2>1, <2>2 DEF Store!Promised
<1> QED BY <1>1, <1>3, <1>4, <1>5

(* Only a query with a negative comparison is undefined.                   *)
LEMMA UndefinedIsRisky ==
  ASSUME NEW idx, NEW q, Undefined(idx, q)
  PROVE  Store!Risky(q)
<1>1. PICK l \in Leaves(q) : Freed(idx, l) # {}
  BY DEF Undefined, Damaged
<1>2. l.cmp \in Negative
  BY <1>1 DEF Freed
<1> QED BY <1>1, <1>2 DEF Store!Risky, Store!Leaves, Leaves, Store!Negative, Negative

-----------------------------------------------------------------------------
(* The selections of the store are the ids of the selections' indexes.     *)
View == [p \in DOMAIN sel |-> sel[p].ids]

ViewPut(p, S) == [x \in DOMAIN View \cup {p} |-> IF x = p THEN S ELSE View[x]]

LEMMA ViewStep ==
  ASSUME NEW p, NEW idx, sel' = WithSel(p, idx)
  PROVE  View' = ViewPut(p, idx.ids)
BY DEF WithSel, View, ViewPut

LEMMA ViewOfIs ==
  ASSUME NEW p
  PROVE  Store!ViewOf(p) = SelOf(p).ids
BY EmptyIndexType DEF SelOf, Store!ViewOf

LEMMA ViewStays ==
  ASSUME sel' = sel
  PROVE  View' = View
BY DEF View

-----------------------------------------------------------------------------
(* One lemma per operation: the step of the store it maps to.              *)

LEMMA StartOpens == IndInv' /\ Start => Store!Open
<1> SUFFICES ASSUME IndInv', Start PROVE Store!Open
  OBVIOUS
<1>1. PICK d : data' = d /\ base' = IndexOf(0 .. Len(d) - 1, d)
  BY DEF Start
<1>2. base'.ids = 0 .. Len(data') - 1
  BY <1>1 DEF IndexOf
<1>3. data' \in Seq(Student)
  BY DEF IndInv, TypeOK
<1>4. View' = View
  BY ViewStays DEF Start
<1> QED BY <1>2, <1>3, <1>4 DEF Start, Store!Open, View, Store!Student, Student, Store!Column, Column

LEMMA StopCloses == Stop => Store!Close
<1> SUFFICES ASSUME Stop PROVE Store!Close
  OBVIOUS
<1>1. sel' = <<>> /\ DOMAIN sel' = {}
  BY DEF Stop
<1>2. View' = <<>>
  BY <1>1 DEF View
<1> QED BY <1>2, EmptyIndexType DEF Stop, Store!Close, View

LEMMA RegisterIsNew == IndInv /\ Register => \E p \in DOMAIN View' : Store!NewUser(p)
<1> SUFFICES ASSUME IndInv, Register PROVE \E p \in DOMAIN View' : Store!NewUser(p)
  OBVIOUS
<1>1. NextPid \notin DOMAIN sel
  <2>1. Cardinality(DOMAIN sel) \in Nat
    BY FS_CardinalityType DEF IndInv, PidsBelowSize
  <2> QED BY <2>1 DEF IndInv, PidsBelowSize, NextPid
<1>2. View' = ViewPut(NextPid, base.ids)
  BY ViewStep DEF Register
<1>3. NextPid \in DOMAIN View'
  BY DEF View, Register, WithSel
<1> QED BY <1>1, <1>2, <1>3 DEF Register, Idle, Store!NewUser, Store!SetView, View, ViewPut

LEMMA AddInserts ==
  ASSUME NEW s \in Students
  PROVE  IndInv /\ Add(s) => Store!Insert(s)
<1> SUFFICES ASSUME IndInv, Add(s) PROVE Store!Insert(s)
  OBVIOUS
<1>1. data \in Seq(Student) /\ base.ids \subseteq 0 .. Len(data) - 1
  BY DEF IndInv, TypeOK, AllInRange, InRange, Ids
<1>2. Len(data) \notin base.ids
  BY <1>1
<1>3. base'.ids = base.ids \cup {Len(data)}
  BY <1>2 DEF Add, IndexInsert
<1>4. View' = View
  BY ViewStays DEF Add
<1> QED BY <1>3, <1>4 DEF Add, Idle, Store!Insert, View

LEMMA SelectChooses ==
  ASSUME NEW p \in User, NEW q \in Queries, IndInv, Select(p, q),
         asked' = <<p, q, "all">>
  PROVE  Store!Choose(p, q, "all")
<1>1. /\ data \in Seq(Student) /\ base \in Index /\ InRange(base) /\ q \in Query
      /\ base.ids \subseteq Ids /\ ub \in BOOLEAN
  BY DatabaseAssumption DEF IndInv, TypeOK, AllInRange, InRange
<1>2. PICK said \in Answers(base, q) : sel' = WithSel(p, IndexOf(said, data))
  BY DEF Select
<1>3. said \in SUBSET Ids
  BY <1>1, AnswersInRange
<1>4. View' = ViewPut(p, said)
  BY <1>2, ViewStep DEF IndexOf
<1>5. ~ub' => Store!Promised(q, base.ids, said)
  BY <1>1, QueryPromise DEF Select, IndInv, BaseAgrees
<1>6. ub' \in {ub, ub \/ Store!Risky(q)}
  BY <1>1, UndefinedIsRisky DEF Select
<1>7. base'.ids = base.ids
  BY <1>1 DEF Select, Corrupted, Index
<1> QED
  BY <1>3, <1>4, <1>5, <1>6, <1>7
  DEF Select, Idle, Store!Choose, Store!SetView, View, ViewPut, Store!Known, Ids

LEMMA ReselectChooses ==
  ASSUME NEW p \in User, NEW q \in Queries, IndInv, Reselect(p, q),
         asked' = <<p, q, "selection">>
  PROVE  Store!Choose(p, q, "selection")
<1>1. /\ data \in Seq(Student) /\ SelOf(p) \in Index /\ InRange(SelOf(p)) /\ q \in Query
      /\ SelOf(p).ids \subseteq Ids /\ ub \in BOOLEAN
      /\ ~ub => SelOf(p) = IndexOf(SelOf(p).ids, data)
  BY DatabaseAssumption, SelOfFacts DEF IndInv, TypeOK, InRange
<1>2. PICK said \in Answers(SelOf(p), q) : sel' = WithSel(p, IndexOf(said, data))
  BY DEF Reselect
<1>3. said \in SUBSET Ids
  BY <1>1, AnswersInRange
<1>4. View' = ViewPut(p, said) /\ Store!ViewOf(p) = SelOf(p).ids
  BY <1>2, ViewStep, ViewOfIs DEF IndexOf
<1>5. ~ub' => Store!Promised(q, SelOf(p).ids, said)
  BY <1>1, QueryPromise DEF Reselect
<1>6. ub' \in {ub, ub \/ Store!Risky(q)}
  BY <1>1, UndefinedIsRisky DEF Reselect
<1> QED
  BY <1>3, <1>4, <1>5, <1>6
  DEF Reselect, Idle, Store!Choose, Store!SetView, View, ViewPut, Store!Known, Ids

LEMMA PrintLooks ==
  ASSUME NEW p, PrintSelection(p) \/ DeleteBegin(p)
  PROVE  Store!Look(p)
<1>1. View' = ViewPut(p, SelOf(p).ids) /\ Store!ViewOf(p) = SelOf(p).ids
  BY ViewStep, ViewOfIs DEF PrintSelection, DeleteBegin
<1> QED BY <1>1 DEF PrintSelection, DeleteBegin, Idle, Store!Look, Store!SetView, View, ViewPut

LEMMA RemoveOneDrops ==
  ASSUME NEW id \in job.todo, NEW p, p = job.pid, IndInv, RemoveOne(id)
  PROVE  \/ id \in Ids /\ Store!Drop(id, p)
         \/ Store!Look(p)
         \/ UNCHANGED <<up, data, base.ids, View, ub>>
<1>1. ASSUME NEW idx \in Index, NEW s PROVE IndexRemove(idx, id, s).ids = idx.ids \ {id}
  BY <1>1 DEF IndexRemove
<1>2. base \in Index /\ SelOf(p) \in Index
  BY SelOfFacts DEF IndInv, TypeOK
<1>3. CASE id \in Ids
  <2>1. base'.ids = base.ids \ {id}
    BY <1>1, <1>2, <1>3 DEF RemoveOne
  <2>2. CASE job.kind = "delete"
    <3>1. View' = View
      BY <2>2, ViewStays DEF RemoveOne
    <3> QED BY <1>3, <2>1, <3>1 DEF RemoveOne, Store!Drop, Store!SetView, View, ViewPut
  <2>3. CASE job.kind # "delete"
    <3>1. sel' = WithSel(p, IndexRemove(SelOf(p), id, data[id+1]))
      BY <1>3, <2>3 DEF RemoveOne
    <3>2. View' = ViewPut(p, SelOf(p).ids \ {id})
          /\ Store!ViewOf(p) = SelOf(p).ids
      BY <1>1, <1>2, <3>1, ViewStep, ViewOfIs
    <3> QED BY <1>3, <2>1, <3>2 DEF RemoveOne, Store!Drop, Store!SetView, View, ViewPut
  <2> QED BY <2>2, <2>3
<1>4. CASE id \notin Ids
  <2>1. CASE job.kind = "delete"
    <3>1. View' = View
      BY <2>1, ViewStays DEF RemoveOne
    <3> QED BY <1>4, <3>1 DEF RemoveOne
  <2>2. CASE job.kind # "delete"
    <3>1. sel' = WithSel(p, SelOf(p))
      BY <1>4, <2>2 DEF RemoveOne
    <3>2. View' = ViewPut(p, SelOf(p).ids)
          /\ Store!ViewOf(p) = SelOf(p).ids
      BY <3>1, ViewStep, ViewOfIs
    <3> QED BY <1>4, <3>2 DEF RemoveOne, Store!Look, Store!SetView, View, ViewPut
  <2> QED BY <2>1, <2>2
<1> QED BY <1>3, <1>4

LEMMA RemoveEndForgets ==
  ASSUME NEW p, p = job.pid, RemoveEnd
  PROVE  Store!Forget(p) \/ UNCHANGED <<up, data, base.ids, View, ub>>
<1>1. CASE job.kind = "delete"
  <2>1. View' = ViewPut(p, {})
    BY <1>1, ViewStep, EmptyIndexType DEF RemoveEnd
  <2> QED BY <2>1 DEF RemoveEnd, Store!Forget, Store!SetView, View, ViewPut
<1>2. CASE job.kind # "delete"
  BY <1>2, ViewStays DEF RemoveEnd
<1> QED BY <1>1, <1>2

(* The requests that the store does not see.                               *)
LEMMA Unseen ==
  ASSUME UNCHANGED <<up, data, base, sel, ub>>
  PROVE  UNCHANGED <<up, data, base.ids, View, ub>>
BY ViewStays

-----------------------------------------------------------------------------
(***************************************************************************)
(* The database with its indexes, its loops over ids, its file and its     *)
(* restarts implements the store, for all students, queries and lists.     *)
(***************************************************************************)
THEOREM ServiceImplementsStore == ServiceSpec => ImplementsStore
<1>1. ServiceInit => Store!StoreInit
  <2> SUFFICES ASSUME ServiceInit PROVE Store!StoreInit
    OBVIOUS
  <2>1. View = <<>>
    BY DEF ServiceInit, Init, View
  <2> QED BY <2>1, EmptyIndexType DEF ServiceInit, Init, Store!StoreInit, View, Store!NoQuery
<1>2. ServiceInit /\ [][ServiceNext]_serviceVars => Spec
  <2>1. ServiceInit => Init
    BY DEF ServiceInit
  <2>2. [ServiceNext]_serviceVars => [Next]_vars
    BY DEF ServiceNext, Next, Answer, Lookup, serviceVars
  <2> QED BY <2>1, <2>2, PTL DEF Spec
<1>3. IndInv /\ IndInv' /\ [ServiceNext]_serviceVars => [Store!StoreNext]_(Store!storeVars)
  <2> SUFFICES ASSUME IndInv, IndInv', [ServiceNext]_serviceVars
               PROVE  [Store!StoreNext]_(Store!storeVars)
    OBVIOUS
  <2>1. User = Store!StoreUser
    BY DEF User, NoPid, Store!StoreUser
  <2>2. ASSUME NEW p \in User, NEW q \in Queries, Answer(p, q)
        PROVE  Store!StoreNext
    BY <2>1, <2>2, SelectChooses, ReselectChooses DEF Answer, Store!StoreNext
  <2>3. ASSUME Maintenance, asked' = <<>>
        PROVE  Store!StoreNext
    <3>1. asked' = Store!NoQuery
      BY <2>3 DEF Store!NoQuery
    <3>2. ASSUME NEW p \in User, Request(p) PROVE Store!StoreNext
      <4>1. CASE PrintSelection(p) \/ DeleteBegin(p)
        BY <2>1, <3>1, <4>1, PrintLooks DEF Store!StoreNext
      <4>2. CASE UNCHANGED <<up, data, base, sel, ub>>
        BY <3>1, <4>2, Unseen DEF Store!StoreNext, View
      <4> QED BY <3>2, <4>1, <4>2 DEF Request, Disconnect, RemoveBegin
    <3>3. ASSUME NEW id \in job.todo, RemoveOne(id) PROVE Store!StoreNext
      <4>1. PICK p \in Store!StoreUser : p = job.pid
        BY <2>1 DEF IndInv
      <4>2. Ids = Store!Known
        BY DEF Ids, Store!Known
      <4> QED BY <3>1, <3>3, <4>1, <4>2, RemoveOneDrops DEF Store!StoreNext, View
    <3>4. ASSUME RemoveEnd PROVE Store!StoreNext
      <4>1. PICK p \in Store!StoreUser : p = job.pid
        BY <2>1 DEF IndInv
      <4> QED BY <3>1, <3>4, <4>1, RemoveEndForgets DEF Store!StoreNext, View
    <3>5. ASSUME SaveBegin \/ SaveEnd PROVE Store!StoreNext
      BY <3>1, <3>5, Unseen DEF SaveBegin, SaveEnd, Store!StoreNext, View
    <3>6. ASSUME NEW s \in Students, Add(s) PROVE Store!StoreNext
      <4>1. s \in Store!Student
        BY DatabaseAssumption DEF Store!Student, Student, Store!Column, Column
      <4>2. Store!Insert(s)
        BY <3>6, AddInserts
      <4> QED BY <3>1, <4>1, <4>2 DEF Store!StoreNext
    <3>7. ASSUME Start PROVE Store!StoreNext
      BY <3>1, <3>7, StartOpens DEF Store!StoreNext
    <3>8. ASSUME Stop PROVE Store!StoreNext
      BY <3>1, <3>8, StopCloses DEF Store!StoreNext
    <3>9. ASSUME Register PROVE Store!StoreNext
      <4>1. PICK p \in DOMAIN View' : Store!NewUser(p)
        BY <3>9, RegisterIsNew
      <4>2. \E x \in DOMAIN View' : Store!NewUser(x)
        BY <4>1
      <4> QED BY <3>1, <4>2 DEF Store!StoreNext, View
    <3> QED BY <2>3, <3>2, <3>3, <3>4, <3>5, <3>6, <3>7, <3>8, <3>9 DEF Maintenance
  <2>4. ASSUME UNCHANGED serviceVars
        PROVE  UNCHANGED Store!storeVars
    BY <2>4 DEF serviceVars, vars, Store!storeVars
  <2> QED BY <2>2, <2>3, <2>4 DEF ServiceNext
<1> QED BY <1>1, <1>2, <1>3, Inductive, PTL DEF ServiceSpec, ImplementsStore, Store!StoreSpec

-------------------------------------------------------------------------------
(* LoginovaIrene: the loop of a sort keeps the meaning of the conditions.      *)
CondType == [cond : Conds, value : Int]

Between == Lowest .. Highest

BoundsType == [min : Int, max : Int, eqMin : BOOLEAN, eqMax : BOOLEAN,
               great : Seq(CondType), less : Seq(CondType), equal : Seq(CondType),
               excluded : SUBSET Int, ok : BOOLEAN]

(* The conditions kept are those of the bounds.                                *)
IsLower(b) == b.great = << Condition(IF b.eqMin THEN "GE" ELSE "GT", b.min) >>
IsUpper(b) == b.less = << Condition(IF b.eqMax THEN "LE" ELSE "LT", b.max) >>
IsEqual(b) == \E e \in Int : b.equal = << Condition("EQ", e) >>

Shape(b) ==
  /\ b \in BoundsType /\ IsFiniteSet(b.excluded)
  /\ (b.great = << >> /\ b.min = Lowest /\ b.eqMin) \/ IsLower(b)
  /\ (b.less = << >> /\ b.max = Highest /\ b.eqMax) \/ IsUpper(b)
  /\ (b.equal = << >>) \/ IsEqual(b)

(* The values that bounds leave.                                               *)
Permits(b, v) ==
  b.ok /\ InBounds(b, v) /\ v \notin b.excluded /\ (b.equal # << >> => v = b.equal[1].value)

LEMMA ConditionTyped ==
  ASSUME NEW cond \in Conds, NEW value \in Int
  PROVE  /\ Condition(cond, value) \in CondType
         /\ Condition(cond, value).cond = cond /\ Condition(cond, value).value = value
BY DEF Condition, CondType

LEMMA HoldsIs ==
  ASSUME NEW c, NEW v
  PROVE  /\ c.cond = "EQ" => (Holds(c, v) <=> v = c.value)
         /\ c.cond = "NE" => (Holds(c, v) <=> v # c.value)
         /\ c.cond = "LT" => (Holds(c, v) <=> v < c.value)
         /\ c.cond = "GT" => (Holds(c, v) <=> v > c.value)
         /\ c.cond = "LE" => (Holds(c, v) <=> v <= c.value)
         /\ c.cond = "GE" => (Holds(c, v) <=> v >= c.value)
BY DEF Holds

LEMMA TightenUpperKeeps ==
  ASSUME NEW b, Shape(b), NEW c \in CondType, c.cond \in {"LT", "LE"}
  PROVE  /\ Shape(TightenUpper(b, c))
         /\ \A v \in Between : Permits(TightenUpper(b, c), v) <=> Permits(b, v) /\ Holds(c, v)
<1> DEFINE t == TightenUpper(b, c)
<1>0. c.value \in Int /\ c = Condition(c.cond, c.value) /\ << c >> \in Seq(CondType)
  BY DEF CondType, Condition
<1>1. /\ b \in BoundsType /\ b.max \in Int /\ b.eqMax \in BOOLEAN /\ b.min \in Int /\ b.eqMin \in BOOLEAN
      /\ Between \subseteq Int
  BY BoundsAssumption DEF Shape, BoundsType, Between
<1>2. CASE c.value < b.max \/ (c.value = b.max /\ c.cond = "LT")
  <2>1. t = [b EXCEPT !.max = c.value, !.eqMax = c.cond = "LE", !.less = << c >>]
    BY <1>2 DEF TightenUpper
  <2>2. /\ t \in BoundsType /\ t.max = c.value /\ t.eqMax = (c.cond = "LE") /\ t.less = << c >>
        /\ t.min = b.min /\ t.eqMin = b.eqMin /\ t.great = b.great /\ t.equal = b.equal
        /\ t.excluded = b.excluded /\ t.ok = b.ok
    BY <1>0, <1>1, <2>1 DEF BoundsType
  <2> HIDE DEF t
  <2>3. IsUpper(t)
    BY <1>0, <2>2 DEF IsUpper
  <2>4. Shape(t)
    BY <2>2, <2>3 DEF Shape, IsLower, IsEqual
  <2>5. ASSUME NEW v \in Between PROVE Permits(t, v) <=> Permits(b, v) /\ Holds(c, v)
    <3>1. InBounds(t, v) <=> InBounds(b, v) /\ Holds(c, v)
      <4>1. v \in Int
        BY <1>1
      <4>2. CASE c.cond = "LT"
        <5>1. ~t.eqMax /\ (Holds(c, v) <=> v < c.value)
          BY <2>2, <4>2, HoldsIs
        <5> QED BY <1>0, <1>1, <1>2, <2>2, <4>1, <5>1 DEF InBounds
      <4>3. CASE c.cond = "LE"
        <5>1. t.eqMax /\ (Holds(c, v) <=> v <= c.value)
          BY <2>2, <4>3, HoldsIs
        <5>2. c.value < b.max
          BY <1>2, <4>3
        <5> QED BY <1>0, <1>1, <2>2, <4>1, <5>1, <5>2 DEF InBounds
      <4> QED BY <4>2, <4>3
    <3> QED BY <2>2, <3>1 DEF Permits
  <2> QED BY <2>4, <2>5 DEF t
<1>3. CASE ~(c.value < b.max \/ (c.value = b.max /\ c.cond = "LT"))
  <2>1. t = b
    BY <1>3 DEF TightenUpper
  <2>2. ASSUME NEW v \in Between, InBounds(b, v) PROVE Holds(c, v)
    <3>1. v \in Int
      BY <1>1
    <3>2. CASE c.cond = "LT"
      <4>1. Holds(c, v) <=> v < c.value
        BY <3>2, HoldsIs
      <4> QED BY <1>0, <1>1, <1>3, <2>2, <3>1, <3>2, <4>1 DEF InBounds
    <3>3. CASE c.cond = "LE"
      <4>1. Holds(c, v) <=> v <= c.value
        BY <3>3, HoldsIs
      <4> QED BY <1>0, <1>1, <1>3, <2>2, <3>1, <3>3, <4>1 DEF InBounds
    <3> QED BY <3>2, <3>3
  <2> QED BY <2>1, <2>2 DEF Permits
<1> QED BY <1>2, <1>3

LEMMA TightenLowerKeeps ==
  ASSUME NEW b, Shape(b), NEW c \in CondType, c.cond \in {"GT", "GE"}
  PROVE  /\ Shape(TightenLower(b, c))
         /\ \A v \in Between : Permits(TightenLower(b, c), v) <=> Permits(b, v) /\ Holds(c, v)
<1> DEFINE t == TightenLower(b, c)
<1>0. c.value \in Int /\ c = Condition(c.cond, c.value) /\ << c >> \in Seq(CondType)
  BY DEF CondType, Condition
<1>1. /\ b \in BoundsType /\ b.max \in Int /\ b.eqMax \in BOOLEAN /\ b.min \in Int /\ b.eqMin \in BOOLEAN
      /\ Between \subseteq Int
  BY BoundsAssumption DEF Shape, BoundsType, Between
<1>2. CASE c.value > b.min \/ (c.value = b.min /\ c.cond = "GT")
  <2>1. t = [b EXCEPT !.min = c.value, !.eqMin = c.cond = "GE", !.great = << c >>]
    BY <1>2 DEF TightenLower
  <2>2. /\ t \in BoundsType /\ t.min = c.value /\ t.eqMin = (c.cond = "GE") /\ t.great = << c >>
        /\ t.max = b.max /\ t.eqMax = b.eqMax /\ t.less = b.less /\ t.equal = b.equal
        /\ t.excluded = b.excluded /\ t.ok = b.ok
    BY <1>0, <1>1, <2>1 DEF BoundsType
  <2> HIDE DEF t
  <2>3. IsLower(t)
    BY <1>0, <2>2 DEF IsLower
  <2>4. Shape(t)
    BY <2>2, <2>3 DEF Shape, IsUpper, IsEqual
  <2>5. ASSUME NEW v \in Between PROVE Permits(t, v) <=> Permits(b, v) /\ Holds(c, v)
    <3>1. InBounds(t, v) <=> InBounds(b, v) /\ Holds(c, v)
      <4>1. v \in Int
        BY <1>1
      <4>2. CASE c.cond = "GT"
        <5>1. ~t.eqMin /\ (Holds(c, v) <=> v > c.value)
          BY <2>2, <4>2, HoldsIs
        <5> QED BY <1>0, <1>1, <1>2, <2>2, <4>1, <5>1 DEF InBounds
      <4>3. CASE c.cond = "GE"
        <5>1. t.eqMin /\ (Holds(c, v) <=> v >= c.value)
          BY <2>2, <4>3, HoldsIs
        <5>2. c.value > b.min
          BY <1>2, <4>3
        <5> QED BY <1>0, <1>1, <2>2, <4>1, <5>1, <5>2 DEF InBounds
      <4> QED BY <4>2, <4>3
    <3> QED BY <2>2, <3>1 DEF Permits
  <2> QED BY <2>4, <2>5 DEF t
<1>3. CASE ~(c.value > b.min \/ (c.value = b.min /\ c.cond = "GT"))
  <2>1. t = b
    BY <1>3 DEF TightenLower
  <2>2. ASSUME NEW v \in Between, InBounds(b, v) PROVE Holds(c, v)
    <3>1. v \in Int
      BY <1>1
    <3>2. CASE c.cond = "GT"
      <4>1. Holds(c, v) <=> v > c.value
        BY <3>2, HoldsIs
      <4> QED BY <1>0, <1>1, <1>3, <2>2, <3>1, <3>2, <4>1 DEF InBounds
    <3>3. CASE c.cond = "GE"
      <4>1. Holds(c, v) <=> v >= c.value
        BY <3>3, HoldsIs
      <4> QED BY <1>0, <1>1, <1>3, <2>2, <3>1, <3>3, <4>1 DEF InBounds
    <3> QED BY <3>2, <3>3
  <2> QED BY <2>1, <2>2 DEF Permits
<1> QED BY <1>2, <1>3

LEMMA EquateKeeps ==
  ASSUME NEW b, Shape(b), NEW c \in CondType, c.cond = "EQ"
  PROVE  /\ Shape(Equate(b, c))
         /\ \A v \in Between : Permits(Equate(b, c), v) <=> Permits(b, v) /\ Holds(c, v)
<1> DEFINE t == Equate(b, c)
<1>0. /\ c.value \in Int /\ c = Condition("EQ", c.value) /\ << c >> \in Seq(CondType) /\ << c >> # << >>
      /\ << c >>[1] = c
  BY DEF CondType, Condition
<1>1. b \in BoundsType /\ b.ok \in BOOLEAN
  BY DEF Shape, BoundsType
<1>2. CASE b.equal = << >>
  <2>1. t = [b EXCEPT !.equal = << c >>]
    BY <1>2 DEF Equate
  <2>2. /\ t \in BoundsType /\ t.equal = << c >> /\ t.ok = b.ok
        /\ t.max = b.max /\ t.eqMax = b.eqMax /\ t.less = b.less
        /\ t.min = b.min /\ t.eqMin = b.eqMin /\ t.great = b.great /\ t.excluded = b.excluded
    BY <1>0, <1>1, <2>1 DEF BoundsType
  <2> HIDE DEF t
  <2>3. Shape(t)
    BY <1>0, <2>2 DEF Shape, IsLower, IsUpper, IsEqual
  <2>4. ASSUME NEW v \in Between PROVE Permits(t, v) <=> Permits(b, v) /\ Holds(c, v)
    BY <1>0, <1>2, <2>2 DEF Permits, InBounds, Holds
  <2> QED BY <2>3, <2>4 DEF t
<1>3. CASE b.equal # << >>
  <2>1. t = [b EXCEPT !.ok = @ /\ b.equal[1].value = c.value]
    BY <1>3 DEF Equate
  <2>2. /\ t \in BoundsType /\ t.equal = b.equal /\ t.ok = (b.ok /\ b.equal[1].value = c.value)
        /\ t.max = b.max /\ t.eqMax = b.eqMax /\ t.less = b.less
        /\ t.min = b.min /\ t.eqMin = b.eqMin /\ t.great = b.great /\ t.excluded = b.excluded
    BY <1>0, <1>1, <2>1 DEF BoundsType
  <2> HIDE DEF t
  <2>3. Shape(t)
    BY <2>2 DEF Shape, IsLower, IsUpper, IsEqual
  <2>4. ASSUME NEW v \in Between PROVE Permits(t, v) <=> Permits(b, v) /\ Holds(c, v)
    BY <1>0, <1>3, <2>2 DEF Permits, InBounds, Holds
  <2> QED BY <2>3, <2>4 DEF t
<1> QED BY <1>2, <1>3

LEMMA ExcludeKeeps ==
  ASSUME NEW b, Shape(b), NEW c \in CondType, c.cond = "NE"
  PROVE  LET t == [b EXCEPT !.excluded = @ \cup {c.value}]
         IN /\ Shape(t)
            /\ \A v \in Between : Permits(t, v) <=> Permits(b, v) /\ Holds(c, v)
<1> DEFINE t == [b EXCEPT !.excluded = @ \cup {c.value}]
<1>0. c.value \in Int
  BY DEF CondType
<1>1. b \in BoundsType /\ IsFiniteSet(b.excluded)
  BY DEF Shape
<1>2. /\ t \in BoundsType /\ t.excluded = b.excluded \cup {c.value}
      /\ t.equal = b.equal /\ t.ok = b.ok
      /\ t.max = b.max /\ t.eqMax = b.eqMax /\ t.less = b.less
      /\ t.min = b.min /\ t.eqMin = b.eqMin /\ t.great = b.great
  BY <1>0, <1>1 DEF BoundsType
<1> HIDE DEF t
<1>3. IsFiniteSet(t.excluded)
  BY <1>1, <1>2, FS_AddElement
<1>4. Shape(t)
  BY <1>2, <1>3 DEF Shape, IsLower, IsUpper, IsEqual
<1>5. ASSUME NEW v \in Between PROVE Permits(t, v) <=> Permits(b, v) /\ Holds(c, v)
  BY <1>2 DEF Permits, InBounds, Holds
<1> QED BY <1>4, <1>5 DEF t

LEMMA TightenKeeps ==
  ASSUME NEW b, Shape(b), NEW c \in CondType
  PROVE  /\ Shape(Tighten(b, c))
         /\ \A v \in Between : Permits(Tighten(b, c), v) <=> Permits(b, v) /\ Holds(c, v)
<1>1. CASE c.cond \in {"LT", "LE"}
  BY <1>1, TightenUpperKeeps DEF Tighten
<1>2. CASE c.cond \in {"GT", "GE"}
  BY <1>2, TightenLowerKeeps DEF Tighten
<1>3. CASE c.cond = "NE"
  <2>1. Tighten(b, c) = [b EXCEPT !.excluded = @ \cup {c.value}]
    BY <1>3 DEF Tighten
  <2> QED BY <1>3, <2>1, ExcludeKeeps
<1>4. CASE c.cond = "EQ"
  BY <1>4, EquateKeeps DEF Tighten
<1> QED BY <1>1, <1>2, <1>3, <1>4 DEF CondType, Conds

LEMMA BoundsShape ==
  /\ Shape(Bounds)
  /\ \A v \in Between : Permits(Bounds, v)
<1>1. /\ Bounds \in BoundsType /\ Bounds.excluded = {} /\ Bounds.great = << >> /\ Bounds.less = << >>
      /\ Bounds.equal = << >> /\ Bounds.min = Lowest /\ Bounds.max = Highest
      /\ Bounds.eqMin = TRUE /\ Bounds.eqMax = TRUE /\ Bounds.ok = TRUE
  BY BoundsAssumption DEF Bounds, BoundsType
<1>2. IsFiniteSet({})
  BY FS_EmptySet
<1>3. \A v \in Between : v \in Int /\ Lowest <= v /\ v <= Highest
  BY BoundsAssumption DEF Between
<1> QED BY <1>1, <1>2, <1>3, BoundsAssumption DEF Shape, Permits, InBounds

TightenedSoFar(lst, f) == [n \in 0 .. Len(lst) |-> IF n = 0 THEN Bounds ELSE Tighten(f[n - 1], lst[n])]

LEMMA TightenedRule ==
  ASSUME NEW lst \in Seq(CondType)
  PROVE  \E f \in [0 .. Len(lst) -> {b \in BoundsType : Shape(b)}] :
           /\ f[0] = Bounds /\ Tightened(lst) = f[Len(lst)]
           /\ \A i \in 1 .. Len(lst) : f[i] = Tighten(f[i - 1], lst[i])
<1> DEFINE N == Len(lst)
           W == {b \in BoundsType : Shape(b)}
           first == Bounds
           Step(m, i) == Tighten(m, lst[i])
           step == [x \in (1 .. N) \X W |-> Step(x[2], x[1])]
           F == CHOOSE f : f = TightenedSoFar(lst, f)
<1>1. N \in Nat /\ first \in W /\ \A i \in 1 .. N : \A m \in W : Step(m, i) \in W
  <2>1. N \in Nat /\ \A i \in 1 .. N : lst[i] \in CondType
    OBVIOUS
  <2>2. ASSUME NEW m \in W, NEW i \in 1 .. N PROVE Step(m, i) \in W
    <3>1. Shape(Tighten(m, lst[i]))
      BY <2>1, TightenKeeps
    <3> QED BY <3>1 DEF Shape
  <2>3. first \in W
    BY BoundsShape DEF Shape
  <2> HIDE DEF N, W, first, Step
  <2> QED BY <2>1, <2>2, <2>3
<1>2. Tightened(lst) = F[N]
  BY DEF Tightened, TightenedSoFar
<1>3. ASSUME NEW f PROVE TightenedSoFar(lst, f) = [n \in 0 .. N |-> IF n = 0 THEN first ELSE Step(f[n - 1], n)]
  BY DEF TightenedSoFar
<1> HIDE DEF N, W, F, first, Step
<1>4. step \in [(1 .. N) \X W -> W] /\ \A i \in 1 .. N : \A m \in W : step[<< i, m >>] = Step(m, i)
  BY <1>1
<1> HIDE DEF step
<1>5. PICK g : Defined(g, N, W, first, step)
  BY <1>1, <1>4, Recursion, Zenon
<1>6. g = TightenedSoFar(lst, g)
  <2>1. g \in [0 .. N -> W] /\ g[0] = first /\ \A i \in 1 .. N : g[i] = step[<< i, g[i - 1] >>]
    BY <1>5 DEF Defined
  <2>2. \A i \in 1 .. N : g[i] = Step(g[i - 1], i)
    <3> TAKE i \in 1 .. N
    <3>1. i - 1 \in 0 .. N
      BY <1>1
    <3> QED BY <1>4, <2>1, <3>1
  <2>3. \A i \in 0 .. N : g[i] = IF i = 0 THEN first ELSE Step(g[i - 1], i)
    BY <1>1, <2>1, <2>2
  <2> DEFINE G == [n \in 0 .. N |-> IF n = 0 THEN first ELSE Step(g[n - 1], n)]
  <2>4. g = G
    BY <2>1, <2>3
  <2>5. TightenedSoFar(lst, g) = G
    BY <1>3
  <2> QED BY <2>4, <2>5
<1>7. F = TightenedSoFar(lst, F)
  BY <1>6 DEF F
<1> DEFINE R == [k \in 1 .. N |-> Step(F[k - 1], k)]
<1>8. F = [k \in 0 .. N |-> IF k = 0 THEN first ELSE R[k]]
  <2>1. \A k \in 0 .. N : k # 0 => k \in 1 .. N
    BY <1>1
  <2> QED BY <1>3, <1>7, <2>1
<1>9. \A k \in 1 .. N : F[k - 1] \in W => R[k] = step[<< k, F[k - 1] >>]
  BY <1>4
<1> HIDE DEF R
<1>10. Defined(F, N, W, first, step)
  BY <1>1, <1>4, <1>8, <1>9, RuleFollowed
<1>11. F \in [0 .. N -> W] /\ F[0] = first /\ \A i \in 1 .. N : F[i] = step[<< i, F[i - 1] >>]
  BY <1>10 DEF Defined
<1>12. \A i \in 1 .. N : F[i] = Step(F[i - 1], i)
  <2> TAKE i \in 1 .. N
  <2>1. i - 1 \in 0 .. N
    BY <1>1
  <2> QED BY <1>4, <1>11, <2>1
<1> QED BY <1>2, <1>11, <1>12 DEF N, W, first, Step

LEMMA TightenedMeans ==
  ASSUME NEW lst \in Seq(CondType)
  PROVE  /\ Shape(Tightened(lst))
         /\ \A v \in Between : Permits(Tightened(lst), v) <=> Meaning(lst, v)
<1> DEFINE N == Len(lst)
           Upto(n, v) == \A i \in 1 .. n : Holds(lst[i], v)
<1>1. PICK f \in [0 .. N -> {b \in BoundsType : Shape(b)}] :
        /\ f[0] = Bounds /\ Tightened(lst) = f[N]
        /\ \A i \in 1 .. N : f[i] = Tighten(f[i - 1], lst[i])
  BY TightenedRule
<1>2. N \in Nat /\ DOMAIN lst = 1 .. N /\ \A i \in 1 .. N : lst[i] \in CondType
  OBVIOUS
<1> HIDE DEF N
<1> DEFINE T == {n \in Nat : n <= N => \A v \in Between : Permits(f[n], v) <=> Upto(n, v)}
<1>3. 0 \in T
  BY <1>1, BoundsShape
<1>4. ASSUME NEW n \in Nat, n \in T PROVE n + 1 \in T
  <2> SUFFICES ASSUME n + 1 <= N, NEW v \in Between PROVE Permits(f[n + 1], v) <=> Upto(n + 1, v)
    OBVIOUS
  <2>1. n + 1 \in 1 .. N /\ (n + 1) - 1 = n /\ n \in 0 .. N
    BY <1>2
  <2>2. f[n + 1] = Tighten(f[n], lst[n + 1]) /\ Shape(f[n]) /\ lst[n + 1] \in CondType
    BY <1>1, <1>2, <2>1
  <2>3. Permits(f[n + 1], v) <=> Permits(f[n], v) /\ Holds(lst[n + 1], v)
    BY <2>2, TightenKeeps
  <2>4. Permits(f[n], v) <=> Upto(n, v)
    BY <1>2, <1>4, <2>1
  <2>5. Upto(n + 1, v) <=> Upto(n, v) /\ Holds(lst[n + 1], v)
    <3>1. \A i \in 1 .. n + 1 : i \in 1 .. n \/ i = n + 1
      OBVIOUS
    <3>2. n + 1 \in 1 .. n + 1 /\ \A i \in 1 .. n : i \in 1 .. n + 1
      OBVIOUS
    <3> QED BY <3>1, <3>2
  <2> QED BY <2>3, <2>4, <2>5
<1> HIDE DEF T
<1>5. \A n \in Nat : n \in T
  BY <1>3, <1>4, Induction
<1>6. \A v \in Between : Permits(f[N], v) <=> Upto(N, v)
  BY <1>2, <1>5 DEF T
<1>7. Shape(f[N])
  BY <1>1, <1>2
<1> QED BY <1>1, <1>2, <1>6, <1>7 DEF Meaning

LEMMA LeastExists ==
  ASSUME NEW S \in SUBSET Int, IsFiniteSet(S), S # {}
  PROVE  /\ \E v \in S : \A w \in S : v <= w
         /\ \E v \in S : \A w \in S : w <= v
<1> DEFINE above == {p \in S \X S : p[1] < p[2]}
           below == {p \in S \X S : p[2] < p[1]}
<1>1. \A x, y \in S : (<< x, y >> \in above <=> x < y) /\ (<< x, y >> \in below <=> y < x)
  OBVIOUS
<1> HIDE DEF above, below
<1>2. IsOrderOf(S, above) /\ IsOrderOf(S, below)
  BY <1>1 DEF IsOrderOf
<1>3. HasForemost(S, above) /\ HasForemost(S, below)
  BY <1>2, ForemostExists
<1>4. PICK a \in S : \A x \in S \ {a} : << a, x >> \in above
  BY <1>3 DEF HasForemost
<1>5. PICK z \in S : \A x \in S \ {z} : << z, x >> \in below
  BY <1>3 DEF HasForemost
<1>6. \A w \in S : a <= w
  <2> TAKE w \in S
  <2>1. CASE w = a
    BY <2>1
  <2>2. CASE w # a
    <3>1. << a, w >> \in above
      BY <1>4, <2>2
    <3>2. a < w
      BY <1>1, <3>1
    <3> QED BY <3>2
  <2> QED BY <2>1, <2>2
<1>7. \A w \in S : w <= z
  <2> TAKE w \in S
  <2>1. CASE w = z
    BY <2>1
  <2>2. CASE w # z
    <3>1. << z, w >> \in below
      BY <1>5, <2>2
    <3>2. w < z
      BY <1>1, <3>1
    <3> QED BY <3>2
  <2> QED BY <2>1, <2>2
<1> QED BY <1>6, <1>7

LEMMA UpwardsIs ==
  ASSUME NEW S \in SUBSET Int, IsFiniteSet(S)
  PROVE  /\ Upwards(S) \in Seq(S)
         /\ \A x \in S : \E i \in 1 .. Len(Upwards(S)) : Upwards(S)[i] = x
         /\ \A i, j \in 1 .. Len(Upwards(S)) : i < j => Upwards(S)[i] < Upwards(S)[j]
<1> DEFINE above == {p \in S \X S : p[1] < p[2]}
<1>1. \A x, y \in S : << x, y >> \in above <=> x < y
  OBVIOUS
<1>2. Upwards(S) = Arranged(S, above)
  BY DEF Upwards
<1> HIDE DEF above
<1>3. IsOrderOf(S, above)
  BY <1>1 DEF IsOrderOf
<1> DEFINE q == Arranged(S, above)
<1>4. /\ q \in Seq(S) /\ \A x \in S : \E i \in 1 .. Len(q) : q[i] = x
      /\ \A i, j \in 1 .. Len(q) : i < j => << q[i], q[j] >> \in above
  BY <1>3, ArrangedIs
<1> HIDE DEF q
<1>5. \A i \in 1 .. Len(q) : q[i] \in S
  BY <1>4
<1> QED BY <1>1, <1>2, <1>4, <1>5 DEF q

(* The bounds that become strict.                                              *)
CutFirst(b) == IF Cut(b) = {} THEN {} ELSE {CHOOSE v \in Cut(b) : \A w \in Cut(b) : v <= w}

CutLast(b) == IF Cut(b) = {} THEN {v \in AboveMin(b) : \A w \in AboveMin(b) : v <= w}
              ELSE {CHOOSE v \in Cut(b) : \A w \in Cut(b) : w <= v}

HitsMin(col, b) == IF col = "name" THEN \E v \in CutFirst(b) : v # b.min ELSE b.min \in CutFirst(b)
HitsMax(col, b) == IF col = "name" THEN \E v \in CutLast(b) : v # b.max ELSE b.max \in CutLast(b)

LEMMA ExcludingFields ==
  ASSUME NEW col, NEW b
  PROVE  Excluding(col, b) = [b EXCEPT !.excluded = Cut(b),
                                       !.eqMin = @ /\ ~HitsMin(col, b),
                                       !.great = IF HitsMin(col, b) THEN SetCond(@, "GT") ELSE @,
                                       !.eqMax = @ /\ ~HitsMax(col, b),
                                       !.less = IF HitsMax(col, b) THEN SetCond(@, "LT") ELSE @]
BY Zenon DEF Excluding, HitsMin, HitsMax, CutFirst, CutLast

LEMMA HitsAre ==
  ASSUME NEW col, NEW b, Shape(b), b.min <= b.max
  PROVE  /\ HitsMin(col, b) \in BOOLEAN /\ HitsMax(col, b) \in BOOLEAN
         /\ col # "name" => (HitsMin(col, b) <=> b.min \in b.excluded)
         /\ col # "name" => (HitsMax(col, b) <=> b.max \in b.excluded)
         /\ b.excluded = {} => ~HitsMin(col, b) /\ ~HitsMax(col, b)
         /\ Cut(b) = {v \in b.excluded : b.min <= v /\ v <= b.max}
         /\ Cut(b) \in SUBSET Int /\ IsFiniteSet(Cut(b))
<1>1. /\ b.excluded \in SUBSET Int /\ IsFiniteSet(b.excluded) /\ b.min \in Int /\ b.max \in Int
  BY DEF Shape, BoundsType
<1>2. Cut(b) = {v \in b.excluded : b.min <= v /\ v <= b.max}
  BY <1>1 DEF Cut, AboveMin
<1>3. Cut(b) \in SUBSET Int /\ IsFiniteSet(Cut(b))
  <2>1. Cut(b) \subseteq b.excluded
    BY <1>2
  <2> QED BY <1>1, <2>1, FS_Subset
<1>4. HitsMin(col, b) \in BOOLEAN /\ HitsMax(col, b) \in BOOLEAN
  <2>1. CASE col = "name"
    BY <2>1 DEF HitsMin, HitsMax
  <2>2. CASE col # "name"
    BY <2>2 DEF HitsMin, HitsMax
  <2> QED BY <2>1, <2>2
<1>5. ASSUME Cut(b) # {} PROVE /\ \E v \in Cut(b) : CutFirst(b) = {v} /\ \A w \in Cut(b) : v <= w
                              /\ \E v \in Cut(b) : CutLast(b) = {v} /\ \A w \in Cut(b) : w <= v
  <2>1. /\ \E v \in Cut(b) : \A w \in Cut(b) : v <= w
        /\ \E v \in Cut(b) : \A w \in Cut(b) : w <= v
    BY <1>3, <1>5, LeastExists
  <2> QED BY <1>5, <2>1 DEF CutFirst, CutLast
<1>6. col # "name" => (HitsMin(col, b) <=> b.min \in b.excluded)
  <2> SUFFICES ASSUME col # "name" PROVE b.min \in CutFirst(b) <=> b.min \in b.excluded
    BY DEF HitsMin
  <2>1. b.min \in Cut(b) <=> b.min \in b.excluded
    BY <1>1, <1>2
  <2>2. CASE Cut(b) = {}
    BY <2>1, <2>2 DEF CutFirst
  <2>3. CASE Cut(b) # {}
    <3>1. PICK v \in Cut(b) : CutFirst(b) = {v} /\ \A w \in Cut(b) : v <= w
      BY <1>5, <2>3
    <3>2. v \in Int /\ b.min <= v
      BY <1>2, <1>3
    <3> QED BY <1>1, <2>1, <3>1, <3>2
  <2> QED BY <2>2, <2>3
<1>7. col # "name" => (HitsMax(col, b) <=> b.max \in b.excluded)
  <2> SUFFICES ASSUME col # "name" PROVE b.max \in CutLast(b) <=> b.max \in b.excluded
    BY DEF HitsMax
  <2>1. b.max \in Cut(b) <=> b.max \in b.excluded
    BY <1>1, <1>2
  <2>2. CASE Cut(b) = {}
    <3>1. b.max \notin b.excluded
      BY <2>1, <2>2
    <3> QED BY <2>2, <3>1 DEF CutLast, AboveMin
  <2>3. CASE Cut(b) # {}
    <3>1. PICK v \in Cut(b) : CutLast(b) = {v} /\ \A w \in Cut(b) : w <= v
      BY <1>5, <2>3
    <3>2. v \in Int /\ v <= b.max
      BY <1>2, <1>3
    <3> QED BY <1>1, <2>1, <3>1, <3>2
  <2> QED BY <2>2, <2>3
<1>8. b.excluded = {} => ~HitsMin(col, b) /\ ~HitsMax(col, b)
  <2> SUFFICES ASSUME b.excluded = {} PROVE CutFirst(b) = {} /\ CutLast(b) = {}
    BY DEF HitsMin, HitsMax
  <2>1. Cut(b) = {} /\ AboveMin(b) = {}
    BY DEF Cut, AboveMin
  <2> QED BY <2>1 DEF CutFirst, CutLast
<1> QED BY <1>2, <1>3, <1>4, <1>6, <1>7, <1>8

LEMMA SetCondIs ==
  ASSUME NEW cond \in Conds, NEW old \in Conds, NEW value \in Int
  PROVE  /\ SetCond(<< Condition(old, value) >>, cond) = << Condition(cond, value) >>
         /\ SetCond(<< >>, cond) = << >>
<1> DEFINE one == << Condition(old, value) >>
<1>1. one \in Seq(CondType) /\ Len(one) = 1 /\ one[1].value = value /\ DOMAIN one = {1}
  BY ConditionTyped
<1> HIDE DEF one
<1>2. SetCond(one, cond) = [i \in {1} |-> Condition(cond, value)]
  BY <1>1 DEF SetCond
<1>3. SetCond(<< >>, cond) = << >>
  BY DEF SetCond
<1> QED BY <1>2, <1>3 DEF one

(* What is kept of a list that is not yet pinched: as Shape, but that a bound  *)
(* which nothing set may have become strict.                                   *)
Trimmed(b) ==
  /\ b \in BoundsType /\ IsFiniteSet(b.excluded)
  /\ (b.great = << >> /\ b.min = Lowest) \/ IsLower(b)
  /\ (b.less = << >> /\ b.max = Highest) \/ IsUpper(b)
  /\ (b.equal = << >>) \/ IsEqual(b)
  /\ \A v \in b.excluded : b.min <= v /\ v <= b.max

LEMMA ExcludingIs ==
  ASSUME NEW col, NEW b, Shape(b), b.min <= b.max
  PROVE  LET e == Excluding(col, b)
         IN /\ Trimmed(e)
            /\ e.min = b.min /\ e.max = b.max /\ e.equal = b.equal /\ e.ok = b.ok
            /\ (e.eqMin => b.eqMin) /\ (e.eqMax => b.eqMax)
            /\ e.excluded = {v \in b.excluded : b.min <= v /\ v <= b.max}
            /\ col # "name" \/ b.excluded = {} =>
                 /\ (e.eqMin <=> b.eqMin /\ b.min \notin b.excluded)
                 /\ (e.eqMax <=> b.eqMax /\ b.max \notin b.excluded)
            /\ (e.great = << >> <=> b.great = << >>) /\ (e.less = << >> <=> b.less = << >>)
<1> DEFINE e == Excluding(col, b)
           hitsMin == HitsMin(col, b)
           hitsMax == HitsMax(col, b)
<1>1. /\ hitsMin \in BOOLEAN /\ hitsMax \in BOOLEAN
      /\ col # "name" => (hitsMin <=> b.min \in b.excluded)
      /\ col # "name" => (hitsMax <=> b.max \in b.excluded)
      /\ b.excluded = {} => ~hitsMin /\ ~hitsMax
      /\ Cut(b) = {v \in b.excluded : b.min <= v /\ v <= b.max}
      /\ Cut(b) \in SUBSET Int /\ IsFiniteSet(Cut(b))
  BY HitsAre
<1>2. e = [b EXCEPT !.excluded = Cut(b), !.eqMin = @ /\ ~hitsMin,
                    !.great = IF hitsMin THEN SetCond(@, "GT") ELSE @,
                    !.eqMax = @ /\ ~hitsMax,
                    !.less = IF hitsMax THEN SetCond(@, "LT") ELSE @]
  BY ExcludingFields
<1>3. b \in BoundsType /\ b.eqMin \in BOOLEAN /\ b.eqMax \in BOOLEAN /\ b.min \in Int /\ b.max \in Int
  BY DEF Shape, BoundsType
<1> DEFINE great == IF hitsMin THEN SetCond(b.great, "GT") ELSE b.great
           less == IF hitsMax THEN SetCond(b.less, "LT") ELSE b.less
<1>4. /\ (b.great = << >> /\ great = << >> /\ b.min = Lowest)
         \/ (b.great # << >> /\ great = << Condition(IF b.eqMin /\ ~hitsMin THEN "GE" ELSE "GT", b.min) >>)
      /\ (b.less = << >> /\ less = << >> /\ b.max = Highest)
         \/ (b.less # << >> /\ less = << Condition(IF b.eqMax /\ ~hitsMax THEN "LE" ELSE "LT", b.max) >>)
  <2>1. {"GT", "GE", "LT", "LE"} \subseteq Conds
    BY DEF Conds
  <2>2. /\ (b.great = << >> /\ b.min = Lowest) \/ b.great = << Condition(IF b.eqMin THEN "GE" ELSE "GT", b.min) >>
        /\ (b.less = << >> /\ b.max = Highest) \/ b.less = << Condition(IF b.eqMax THEN "LE" ELSE "LT", b.max) >>
    BY DEF Shape, IsLower, IsUpper
  <2>3. CASE ~hitsMin /\ ~hitsMax
    BY <2>2, <2>3
  <2>4. SetCond(<< >>, "GT") = << >> /\ SetCond(<< >>, "LT") = << >>
    BY <1>3, <2>1, SetCondIs
  <2>5. b.great # << >> => SetCond(b.great, "GT") = << Condition("GT", b.min) >>
    <3>1. \A old \in {"GT", "GE"} : SetCond(<< Condition(old, b.min) >>, "GT") = << Condition("GT", b.min) >>
      BY <1>3, <2>1, SetCondIs
    <3> QED BY <2>2, <3>1, Zenon
  <2>6. b.less # << >> => SetCond(b.less, "LT") = << Condition("LT", b.max) >>
    <3>1. \A old \in {"LT", "LE"} : SetCond(<< Condition(old, b.max) >>, "LT") = << Condition("LT", b.max) >>
      BY <1>3, <2>1, SetCondIs
    <3> QED BY <2>2, <3>1, Zenon
  <2> HIDE DEF hitsMin, hitsMax
  <2> QED BY <2>2, <2>4, <2>5, <2>6
<1>5. great \in Seq(CondType) /\ less \in Seq(CondType)
  <2>1. Condition(IF b.eqMin /\ ~hitsMin THEN "GE" ELSE "GT", b.min) \in CondType
    BY <1>3, ConditionTyped DEF Conds
  <2>2. Condition(IF b.eqMax /\ ~hitsMax THEN "LE" ELSE "LT", b.max) \in CondType
    BY <1>3, ConditionTyped DEF Conds
  <2> HIDE DEF great, less
  <2>3. \A c \in CondType : << c >> \in Seq(CondType)
    OBVIOUS
  <2>4. << >> \in Seq(CondType)
    OBVIOUS
  <2> QED BY <1>4, <2>1, <2>2, <2>3, <2>4, Zenon
<1> HIDE DEF hitsMin, hitsMax
<1>6. /\ e.excluded = Cut(b) /\ e.eqMin = (b.eqMin /\ ~hitsMin) /\ e.great = great
      /\ e.eqMax = (b.eqMax /\ ~hitsMax) /\ e.less = less /\ e.equal = b.equal /\ e.ok = b.ok
      /\ e.min = b.min /\ e.max = b.max /\ e \in BoundsType
  <2> HIDE DEF e
  <2>1. e = [b EXCEPT !.excluded = Cut(b), !.eqMin = @ /\ ~hitsMin, !.great = great,
                      !.eqMax = @ /\ ~hitsMax, !.less = less]
    BY <1>2
  <2> HIDE DEF great, less
  <2> QED BY <1>1, <1>3, <1>5, <2>1 DEF BoundsType
<1> HIDE DEF e, great, less
<1>7. Trimmed(e)
  <2>1. (e.great = << >> /\ e.min = Lowest) \/ IsLower(e)
    BY <1>4, <1>6 DEF IsLower
  <2>2. (e.less = << >> /\ e.max = Highest) \/ IsUpper(e)
    BY <1>4, <1>6 DEF IsUpper
  <2>3. (e.equal = << >>) \/ IsEqual(e)
    BY <1>6 DEF Shape, IsEqual
  <2>4. \A v \in e.excluded : e.min <= v /\ v <= e.max
    BY <1>1, <1>6
  <2> QED BY <1>1, <1>6, <2>1, <2>2, <2>3, <2>4 DEF Trimmed
<1>8. (e.great = << >> <=> b.great = << >>) /\ (e.less = << >> <=> b.less = << >>)
  <2>1. \A x : << x >> # << >>
    OBVIOUS
  <2> QED BY <1>4, <1>6, <2>1, Zenon
<1> QED BY <1>1, <1>6, <1>7, <1>8 DEF e

(* The bounds that are left are drawn from the conditions of the list.         *)
Drawn(b, C) ==
  /\ b.great # << >> => \E c \in C : c.value = b.min
  /\ b.less # << >> => \E c \in C : c.value = b.max
  /\ b.equal # << >> => \E c \in C : c.value = b.equal[1].value
  /\ \A x \in b.excluded : \E c \in C : c.cond = "NE" /\ c.value = x

LEMMA TightenDrawn ==
  ASSUME NEW C \in SUBSET CondType, NEW b, Shape(b), Drawn(b, C), NEW c \in C
  PROVE  Drawn(Tighten(b, c), C)
<1> DEFINE t == Tighten(b, c)
<1>1. b \in BoundsType /\ c \in CondType
  BY DEF Shape
<1>2. CASE c.cond \in {"LT", "LE"}
  <2>1. t = TightenUpper(b, c)
    BY <1>2 DEF Tighten
  <2>2. CASE t = b
    BY <2>2
  <2>3. CASE t = [b EXCEPT !.max = c.value, !.eqMax = c.cond = "LE", !.less = << c >>]
    <3>1. /\ t.max = c.value /\ t.great = b.great /\ t.min = b.min /\ t.equal = b.equal
          /\ t.excluded = b.excluded
      BY <1>1, <2>3 DEF BoundsType
    <3> QED BY <3>1 DEF Drawn
  <2> QED BY <2>1, <2>2, <2>3 DEF TightenUpper
<1>3. CASE c.cond \in {"GT", "GE"}
  <2>1. t = TightenLower(b, c)
    BY <1>3 DEF Tighten
  <2>2. CASE t = b
    BY <2>2
  <2>3. CASE t = [b EXCEPT !.min = c.value, !.eqMin = c.cond = "GE", !.great = << c >>]
    <3>1. /\ t.min = c.value /\ t.less = b.less /\ t.max = b.max /\ t.equal = b.equal
          /\ t.excluded = b.excluded
      BY <1>1, <2>3 DEF BoundsType
    <3> QED BY <3>1 DEF Drawn
  <2> QED BY <2>1, <2>2, <2>3 DEF TightenLower
<1>4. CASE c.cond = "NE"
  <2>1. t = [b EXCEPT !.excluded = @ \cup {c.value}]
    BY <1>4 DEF Tighten
  <2>2. /\ t.excluded = b.excluded \cup {c.value} /\ t.great = b.great /\ t.min = b.min
        /\ t.less = b.less /\ t.max = b.max /\ t.equal = b.equal
    BY <1>1, <2>1 DEF BoundsType
  <2> QED BY <1>4, <2>2 DEF Drawn
<1>5. CASE c.cond = "EQ"
  <2>1. t = Equate(b, c)
    BY <1>5 DEF Tighten
  <2>2. CASE b.equal = << >>
    <3>1. t = [b EXCEPT !.equal = << c >>]
      BY <2>1, <2>2 DEF Equate
    <3>2. /\ t.equal = << c >> /\ t.great = b.great /\ t.min = b.min
          /\ t.less = b.less /\ t.max = b.max /\ t.excluded = b.excluded
      BY <1>1, <3>1 DEF BoundsType
    <3>3. t.equal[1] = c
      BY <3>2
    <3> QED BY <3>2, <3>3 DEF Drawn
  <2>3. CASE b.equal # << >>
    <3>1. t = [b EXCEPT !.ok = @ /\ b.equal[1].value = c.value]
      BY <2>1, <2>3 DEF Equate
    <3>2. /\ t.equal = b.equal /\ t.great = b.great /\ t.min = b.min
          /\ t.less = b.less /\ t.max = b.max /\ t.excluded = b.excluded
      BY <1>1, <3>1 DEF BoundsType
    <3> QED BY <3>2 DEF Drawn
  <2> QED BY <2>2, <2>3
<1> QED BY <1>1, <1>2, <1>3, <1>4, <1>5 DEF CondType, Conds

LEMMA TightenedDrawn ==
  ASSUME NEW C \in SUBSET CondType, NEW lst \in Seq(C)
  PROVE  Drawn(Tightened(lst), C)
<1> DEFINE N == Len(lst)
<1>0. lst \in Seq(CondType)
  OBVIOUS
<1>1. PICK f \in [0 .. N -> {b \in BoundsType : Shape(b)}] :
        /\ f[0] = Bounds /\ Tightened(lst) = f[N]
        /\ \A i \in 1 .. N : f[i] = Tighten(f[i - 1], lst[i])
  BY <1>0, TightenedRule
<1>2. N \in Nat /\ \A i \in 1 .. N : lst[i] \in C
  OBVIOUS
<1> HIDE DEF N
<1> DEFINE T == {n \in Nat : n <= N => Drawn(f[n], C)}
<1>3. 0 \in T
  <2>1. Bounds.great = << >> /\ Bounds.less = << >> /\ Bounds.equal = << >> /\ Bounds.excluded = {}
    BY DEF Bounds
  <2> QED BY <1>1, <2>1 DEF Drawn
<1>4. ASSUME NEW n \in Nat, n \in T PROVE n + 1 \in T
  <2> SUFFICES ASSUME n + 1 <= N PROVE Drawn(f[n + 1], C)
    OBVIOUS
  <2>1. n + 1 \in 1 .. N /\ (n + 1) - 1 = n /\ n \in 0 .. N
    BY <1>2
  <2>2. f[n + 1] = Tighten(f[n], lst[n + 1]) /\ Shape(f[n]) /\ lst[n + 1] \in C
    BY <1>1, <1>2, <2>1
  <2>3. Drawn(f[n], C)
    BY <1>2, <1>4, <2>1
  <2> QED BY <2>2, <2>3, TightenDrawn
<1> HIDE DEF T
<1>5. \A n \in Nat : n \in T
  BY <1>3, <1>4, Induction
<1> QED BY <1>1, <1>2, <1>5 DEF T

(* Where the bounds meet, no value is let through that was not before, and     *)
(* what is refused lets none through.                                          *)
LEMMA PinchedIs ==
  ASSUME NEW col, NEW e, Trimmed(e)
  PROVE  LET p == Pinched(col, e)
         IN /\ p \in BoundsType
            /\ p.min = e.min /\ p.max = e.max /\ p.eqMin = e.eqMin /\ p.eqMax = e.eqMax
            /\ p.great = e.great /\ p.excluded = e.excluded
            /\ p.equal = << >> \/ IsEqual(p)
            /\ e.min # e.max => p = e
            /\ e.min = e.max =>
                 /\ p.less = << Condition("EQ", e.max) >>
                 /\ p.equal = IF e.equal = << >> /\ col # "rating" THEN << Condition("EQ", e.max) >> ELSE e.equal
                 /\ p.ok = (e.ok /\ e.eqMin /\ e.eqMax /\ (e.equal = << >> \/ e.equal[1].value = e.min))
            /\ \A v \in Int : Permits(p, v) <=> Permits(e, v)
<1> DEFINE point == << Condition("EQ", e.max) >>
           equal == IF e.equal = << >> /\ col # "rating" THEN point ELSE e.equal
           p == Pinched(col, e)
<1>1. /\ e \in BoundsType /\ e.min \in Int /\ e.max \in Int
      /\ e.eqMin \in BOOLEAN /\ e.eqMax \in BOOLEAN /\ e.ok \in BOOLEAN
      /\ e.equal \in Seq(CondType) /\ e.great \in Seq(CondType) /\ e.excluded \in SUBSET Int
  BY DEF Trimmed, BoundsType
<1>2. CASE e.min # e.max
  <2>1. p = e
    BY <1>2 DEF Pinched
  <2> QED BY <1>1, <1>2, <2>1 DEF Trimmed
<1>3. CASE e.min = e.max
  <2>1. point \in Seq(CondType) /\ point[1].value = e.max /\ point # << >>
    <3>1. Condition("EQ", e.max) \in CondType /\ Condition("EQ", e.max).value = e.max
      BY <1>1, ConditionTyped DEF Conds
    <3> QED BY <3>1
  <2> HIDE DEF point
  <2>2. equal \in Seq(CondType)
    BY <1>1, <2>1
  <2> DEFINE ok == e.ok /\ e.eqMin /\ e.eqMax /\ (e.equal = << >> \/ e.equal[1].value = e.min)
  <2>3. p = [e EXCEPT !.less = point, !.equal = equal, !.ok = ok]
    BY <1>3 DEF Pinched, point
  <2> HIDE DEF equal, p
  <2>4. ok \in BOOLEAN
    OBVIOUS
  <2> HIDE DEF ok
  <2>5. /\ p \in BoundsType /\ p.min = e.min /\ p.max = e.max /\ p.eqMin = e.eqMin /\ p.eqMax = e.eqMax
        /\ p.great = e.great /\ p.excluded = e.excluded /\ p.less = point /\ p.equal = equal /\ p.ok = ok
    BY <1>1, <2>1, <2>2, <2>3, <2>4 DEF BoundsType
  <2>6. p.equal = << >> \/ IsEqual(p)
    BY <1>1, <2>5 DEF Trimmed, IsEqual, equal, point
  <2>7. ASSUME NEW v \in Int PROVE Permits(p, v) <=> Permits(e, v)
    <3>1. InBounds(p, v) <=> InBounds(e, v)
      BY <2>5 DEF InBounds
    <3>2. ASSUME InBounds(e, v) PROVE v = e.max /\ e.eqMin /\ e.eqMax
      BY <1>1, <1>3, <3>2 DEF InBounds
    <3>3. CASE e.equal = << >>
      <4>1. p.equal # << >> => p.equal[1].value = e.max
        BY <2>1, <2>5, <3>3 DEF equal
      <4>2. ok <=> e.ok /\ e.eqMin /\ e.eqMax
        BY <3>3 DEF ok
      <4> QED BY <2>5, <3>1, <3>2, <3>3, <4>1, <4>2 DEF Permits
    <3>4. CASE e.equal # << >>
      <4>1. p.equal = e.equal
        BY <2>5, <3>4 DEF equal
      <4>2. ok <=> e.ok /\ e.eqMin /\ e.eqMax /\ e.equal[1].value = e.min
        BY <3>4 DEF ok
      <4> QED BY <1>3, <2>5, <3>1, <3>2, <3>4, <4>1, <4>2 DEF Permits
    <3> QED BY <3>3, <3>4
  <2> QED BY <1>3, <2>5, <2>6, <2>7 DEF p, ok, equal, point
<1> QED BY <1>2, <1>3

(* What a sort leaves: a lower and an upper bound, if any, and the excluded    *)
(* values upwards; or one equality; or what rat_sort leaves of bounds that     *)
(* meet.                                                                       *)
OneOf(conds) == {<< >>} \cup {<< Condition(x[1], x[2]) >> : x \in conds \X Int}

NotList(q) == [i \in DOMAIN q |-> Condition("NE", q[i])]

InOrder(lst) ==
  \E g \in OneOf({"GT", "GE"}), l \in OneOf({"LT", "LE"}), q \in Seq(Int) :
    Rising(q) /\ lst = (g \o l) \o NotList(q)

OneEqual(lst) == \E x \in Int : lst = << Condition("EQ", x) >>

LowerAndEqual(lst) == \E x \in Int : lst = << Condition("GE", x), Condition("EQ", x) >>

Form(col, lst) == InOrder(lst) \/ OneEqual(lst) \/ (col = "rating" /\ LowerAndEqual(lst))

LEMMA MeaningConcat ==
  ASSUME NEW s \in Seq(CondType), NEW t \in Seq(CondType), NEW v
  PROVE  Meaning(s \o t, v) <=> Meaning(s, v) /\ Meaning(t, v)
<1>1. /\ s \o t \in Seq(CondType) /\ Len(s \o t) = Len(s) + Len(t)
      /\ \A i \in 1 .. Len(s) + Len(t) : (s \o t)[i] = IF i <= Len(s) THEN s[i] ELSE t[i - Len(s)]
  BY ConcatProperties
<1>2. DOMAIN (s \o t) = 1 .. Len(s) + Len(t) /\ DOMAIN s = 1 .. Len(s) /\ DOMAIN t = 1 .. Len(t)
      /\ Len(s) \in Nat /\ Len(t) \in Nat
  BY <1>1
<1>3. ASSUME Meaning(s \o t, v) PROVE Meaning(s, v) /\ Meaning(t, v)
  <2>1. ASSUME NEW i \in 1 .. Len(s) PROVE Holds(s[i], v)
    <3>1. i \in 1 .. Len(s) + Len(t) /\ (s \o t)[i] = s[i]
      BY <1>1, <1>2
    <3> QED BY <1>2, <1>3, <3>1 DEF Meaning
  <2>2. ASSUME NEW i \in 1 .. Len(t) PROVE Holds(t[i], v)
    <3>1. Len(s) + i \in 1 .. Len(s) + Len(t) /\ ~(Len(s) + i <= Len(s)) /\ (Len(s) + i) - Len(s) = i
      BY <1>2
    <3>2. (s \o t)[Len(s) + i] = t[i]
      BY <1>1, <3>1
    <3> QED BY <1>2, <1>3, <3>1, <3>2 DEF Meaning
  <2> QED BY <1>2, <2>1, <2>2 DEF Meaning
<1>4. ASSUME Meaning(s, v), Meaning(t, v) PROVE Meaning(s \o t, v)
  <2> SUFFICES ASSUME NEW i \in 1 .. Len(s) + Len(t) PROVE Holds((s \o t)[i], v)
    BY <1>2 DEF Meaning
  <2>1. CASE i <= Len(s)
    <3>1. i \in 1 .. Len(s) /\ (s \o t)[i] = s[i]
      BY <1>1, <1>2, <2>1
    <3> QED BY <1>2, <1>4, <3>1 DEF Meaning
  <2>2. CASE ~(i <= Len(s))
    <3>1. i - Len(s) \in 1 .. Len(t) /\ (s \o t)[i] = t[i - Len(s)]
      BY <1>1, <1>2, <2>2
    <3> QED BY <1>2, <1>4, <3>1 DEF Meaning
  <2> QED BY <2>1, <2>2
<1> QED BY <1>3, <1>4

LEMMA MeaningOfFew ==
  ASSUME NEW v
  PROVE  /\ Meaning(<< >>, v)
         /\ \A c : Meaning(<< c >>, v) <=> Holds(c, v)
<1>1. ASSUME NEW c PROVE DOMAIN << c >> = {1} /\ << c >>[1] = c
  OBVIOUS
<1> QED BY <1>1 DEF Meaning

LEMMA NotListIs ==
  ASSUME NEW q \in Seq(Int)
  PROVE  /\ NotList(q) \in Seq(CondType) /\ Len(NotList(q)) = Len(q) /\ DOMAIN NotList(q) = 1 .. Len(q)
         /\ \A i \in 1 .. Len(q) : NotList(q)[i].cond = "NE" /\ NotList(q)[i].value = q[i]
         /\ \A v : Meaning(NotList(q), v) <=> \A i \in 1 .. Len(q) : v # q[i]
         /\ q = << >> => NotList(q) = << >>
<1>1. DOMAIN q = 1 .. Len(q) /\ Len(q) \in Nat /\ \A i \in 1 .. Len(q) : q[i] \in Int
  OBVIOUS
<1>2. ASSUME NEW i \in 1 .. Len(q)
      PROVE  /\ Condition("NE", q[i]) \in CondType /\ Condition("NE", q[i]).cond = "NE"
             /\ Condition("NE", q[i]).value = q[i]
  BY <1>1, <1>2, ConditionTyped DEF Conds
<1>3. NotList(q) = [i \in 1 .. Len(q) |-> Condition("NE", q[i])]
  BY <1>1 DEF NotList
<1>4. NotList(q) \in Seq(CondType) /\ Len(NotList(q)) = Len(q) /\ DOMAIN NotList(q) = 1 .. Len(q)
  BY <1>1, <1>2, <1>3
<1>5. \A i \in 1 .. Len(q) : NotList(q)[i].cond = "NE" /\ NotList(q)[i].value = q[i]
  BY <1>2, <1>3
<1>6. \A v : Meaning(NotList(q), v) <=> \A i \in 1 .. Len(q) : v # q[i]
  BY <1>4, <1>5, HoldsIs DEF Meaning
<1>7. q = << >> => NotList(q) = << >>
  BY <1>4
<1> QED BY <1>4, <1>5, <1>6, <1>7

Within(col) == IF col = "name" THEN (Lowest + 1) .. (Highest - 1) ELSE Between

(* A bound that no condition set, and that an excluded value made strict.      *)
Covered(col, e) ==
  \A v \in Within(col) : /\ e.great = << >> /\ ~e.eqMin /\ v = e.min => v \in e.excluded
                         /\ e.less = << >> /\ ~e.eqMax /\ v = e.max => v \in e.excluded

LEMMA BoundMeans ==
  ASSUME NEW col, NEW e, Trimmed(e), Covered(col, e), NEW v \in Within(col), v \notin e.excluded
  PROVE  /\ e.great \in Seq(CondType) /\ e.less \in Seq(CondType)
         /\ Meaning(e.great, v) <=> v > e.min \/ (e.eqMin /\ v = e.min)
         /\ e.less = << >> \/ IsUpper(e) => (Meaning(e.less, v) <=> v < e.max \/ (e.eqMax /\ v = e.max))
<1>1. /\ e \in BoundsType /\ e.min \in Int /\ e.max \in Int /\ e.eqMin \in BOOLEAN /\ e.eqMax \in BOOLEAN
      /\ e.great \in Seq(CondType) /\ e.less \in Seq(CondType)
  BY DEF Trimmed, BoundsType
<1>2. v \in Int /\ Lowest <= v /\ v <= Highest
  BY BoundsAssumption DEF Within, Between
<1>3. Meaning(e.great, v) <=> v > e.min \/ (e.eqMin /\ v = e.min)
  <2>1. CASE IsLower(e)
    <3> DEFINE c == Condition(IF e.eqMin THEN "GE" ELSE "GT", e.min)
    <3>1. c.value = e.min /\ c.cond = IF e.eqMin THEN "GE" ELSE "GT"
      BY DEF Condition
    <3>2. Meaning(e.great, v) <=> Holds(c, v)
      BY <2>1, MeaningOfFew DEF IsLower
    <3> HIDE DEF c
    <3>3. CASE e.eqMin
      <4>1. Holds(c, v) <=> v >= e.min
        BY <3>1, <3>3, HoldsIs
      <4> QED BY <1>1, <1>2, <3>2, <3>3, <4>1
    <3>4. CASE ~e.eqMin
      <4>1. Holds(c, v) <=> v > e.min
        BY <3>1, <3>4, HoldsIs
      <4> QED BY <1>1, <1>2, <3>2, <3>4, <4>1
    <3> QED BY <3>3, <3>4
  <2>2. CASE e.great = << >> /\ e.min = Lowest
    <3>1. Meaning(e.great, v)
      BY <2>2, MeaningOfFew
    <3>2. v = e.min => e.eqMin
      BY <2>2 DEF Covered
    <3> QED BY <1>1, <1>2, <2>2, <3>1, <3>2
  <2> QED BY <2>1, <2>2 DEF Trimmed
<1>4. CASE IsUpper(e)
  <2> DEFINE c == Condition(IF e.eqMax THEN "LE" ELSE "LT", e.max)
  <2>1. c.value = e.max /\ c.cond = IF e.eqMax THEN "LE" ELSE "LT"
    BY DEF Condition
  <2>2. Meaning(e.less, v) <=> Holds(c, v)
    BY <1>4, MeaningOfFew DEF IsUpper
  <2> HIDE DEF c
  <2>3. CASE e.eqMax
    <3>1. Holds(c, v) <=> v <= e.max
      BY <2>1, <2>3, HoldsIs
    <3> QED BY <1>1, <1>2, <1>3, <2>2, <2>3, <3>1
  <2>4. CASE ~e.eqMax
    <3>1. Holds(c, v) <=> v < e.max
      BY <2>1, <2>4, HoldsIs
    <3> QED BY <1>1, <1>2, <1>3, <2>2, <2>4, <3>1
  <2> QED BY <2>3, <2>4
<1>5. CASE ~IsUpper(e)
  <2> SUFFICES ASSUME e.less = << >> PROVE Meaning(e.less, v) <=> v < e.max \/ (e.eqMax /\ v = e.max)
    BY <1>1, <1>3, <1>5
  <2>1. e.max = Highest
    BY <1>5 DEF Trimmed
  <2>2. Meaning(e.less, v)
    BY MeaningOfFew
  <2>3. v = e.max => e.eqMax
    BY DEF Covered
  <2> QED BY <1>1, <1>2, <2>1, <2>2, <2>3
<1> QED BY <1>4, <1>5

LEMMA FewConcat ==
  ASSUME NEW a \in CondType, NEW c \in CondType
  PROVE  << a >> \o << c >> = << a, c >> /\ << >> \o << c >> = << c >>
<1>1. << a >> \in Seq(CondType) /\ << c >> \in Seq(CondType) /\ << a, c >> \in Seq(CondType)
      /\ Len(<< a >>) = 1 /\ Len(<< c >>) = 1 /\ Len(<< a, c >>) = 2
  OBVIOUS
<1> DEFINE t == << a >> \o << c >>
<1>2. t \in Seq(CondType) /\ Len(t) = 2 /\ t[1] = a /\ t[2] = c
  BY <1>1, ConcatProperties
<1> HIDE DEF t
<1>3. \A i \in 1 .. 2 : t[i] = << a, c >>[i]
  <2>1. \A i \in 1 .. 2 : i = 1 \/ i = 2
    OBVIOUS
  <2> QED BY <1>2, <2>1
<1>4. t = << a, c >>
  BY <1>1, <1>2, <1>3, SeqEqual
<1>5. << >> \o << c >> = << c >>
  BY <1>1, ConcatEmptySeq
<1> QED BY <1>4, <1>5 DEF t

LEMMA OneOfHas ==
  ASSUME NEW conds, NEW cond \in conds, NEW x \in Int
  PROVE  << Condition(cond, x) >> \in OneOf(conds) /\ << >> \in OneOf(conds)
<1>1. << cond, x >> \in conds \X Int /\ << cond, x >>[1] = cond /\ << cond, x >>[2] = x
  OBVIOUS
<1> QED BY <1>1, Zenon DEF OneOf

LEMMA SomeBound ==
  ASSUME NEW e, Trimmed(e), e.min = e.max
  PROVE  e.great # << >> \/ e.less # << >>
<1> SUFFICES ASSUME e.great = << >>, e.less = << >> PROVE FALSE
  OBVIOUS
<1>1. \A y : << y >> # << >>
  OBVIOUS
<1>2. ~IsLower(e) /\ ~IsUpper(e)
  BY <1>1 DEF IsLower, IsUpper
<1>3. e.min = Lowest /\ e.max = Highest
  BY <1>2 DEF Trimmed
<1>4. Lowest = Highest
  BY <1>3
<1> QED BY <1>4, BoundsAssumption

LEMMA JoinedIs ==
  ASSUME NEW b \in BoundsType, IsFiniteSet(b.excluded)
  PROVE  \E q \in Seq(Int) :
           /\ Rising(q) /\ Excluded(b) = NotList(q) /\ Joined(b) = (b.great \o b.less) \o NotList(q)
           /\ NotList(q) \in Seq(CondType) /\ Joined(b) \in Seq(CondType)
           /\ {q[i] : i \in 1 .. Len(q)} = b.excluded
<1> DEFINE q == Upwards(b.excluded)
<1>1. /\ b.excluded \in SUBSET Int /\ b.great \in Seq(CondType) /\ b.less \in Seq(CondType)
  BY DEF BoundsType
<1>2. /\ q \in Seq(b.excluded) /\ \A x \in b.excluded : \E i \in 1 .. Len(q) : q[i] = x
      /\ \A i, j \in 1 .. Len(q) : i < j => q[i] < q[j]
  BY <1>1, UpwardsIs
<1>3. Excluded(b) = NotList(q) /\ Joined(b) = (b.great \o b.less) \o NotList(q)
  BY DEF Excluded, NotList, Joined
<1> HIDE DEF q
<1>4. q \in Seq(Int) /\ \A i \in 1 .. Len(q) : q[i] \in b.excluded
  BY <1>1, <1>2
<1>5. NotList(q) \in Seq(CondType)
  BY <1>4, NotListIs
<1>6. (b.great \o b.less) \o NotList(q) \in Seq(CondType)
  BY <1>1, <1>5
<1>7. {q[i] : i \in 1 .. Len(q)} = b.excluded
  BY <1>2, <1>4
<1>8. Rising(q)
  BY <1>2 DEF Rising, RisesTo
<1> QED BY <1>3, <1>4, <1>5, <1>6, <1>7, <1>8

LEMMA MeaningJoined ==
  ASSUME NEW b \in BoundsType, IsFiniteSet(b.excluded), NEW v
  PROVE  Meaning(Joined(b), v) <=> Meaning(b.great, v) /\ Meaning(b.less, v) /\ v \notin b.excluded
<1>1. PICK q \in Seq(Int) :
        /\ Joined(b) = (b.great \o b.less) \o NotList(q) /\ NotList(q) \in Seq(CondType)
        /\ {q[i] : i \in 1 .. Len(q)} = b.excluded
  BY JoinedIs
<1>2. b.great \in Seq(CondType) /\ b.less \in Seq(CondType) /\ b.great \o b.less \in Seq(CondType)
  BY DEF BoundsType
<1>3. Meaning(NotList(q), v) <=> v \notin b.excluded
  BY <1>1, NotListIs
<1>4. Meaning(b.great \o b.less, v) <=> Meaning(b.great, v) /\ Meaning(b.less, v)
  BY <1>2, MeaningConcat
<1> DEFINE gl == b.great \o b.less
<1>5. gl \in Seq(CondType)
  BY <1>2
<1> HIDE DEF gl
<1>6. Meaning(gl \o NotList(q), v) <=> Meaning(gl, v) /\ Meaning(NotList(q), v)
  BY <1>1, <1>5, MeaningConcat
<1> QED BY <1>1, <1>3, <1>4, <1>6 DEF gl

LEMMA JoinedValues ==
  ASSUME NEW b \in BoundsType, IsFiniteSet(b.excluded), NEW i \in DOMAIN Joined(b)
  PROVE  \/ \E k \in DOMAIN b.great : Joined(b)[i] = b.great[k]
         \/ \E k \in DOMAIN b.less : Joined(b)[i] = b.less[k]
         \/ Joined(b)[i].cond = "NE" /\ Joined(b)[i].value \in b.excluded
<1>1. PICK q \in Seq(Int) :
        /\ Joined(b) = (b.great \o b.less) \o NotList(q) /\ NotList(q) \in Seq(CondType)
        /\ {q[k] : k \in 1 .. Len(q)} = b.excluded
  BY JoinedIs
<1> DEFINE gl == b.great \o b.less
           n == NotList(q)
<1>2. b.great \in Seq(CondType) /\ b.less \in Seq(CondType) /\ gl \in Seq(CondType)
  BY DEF BoundsType
<1>3. /\ Len(gl) = Len(b.great) + Len(b.less)
      /\ \A k \in 1 .. Len(gl) : gl[k] = IF k <= Len(b.great) THEN b.great[k] ELSE b.less[k - Len(b.great)]
  BY <1>2, ConcatProperties
<1>4. Len(n) = Len(q) /\ \A k \in 1 .. Len(q) : n[k].cond = "NE" /\ n[k].value = q[k]
  BY NotListIs
<1>5. /\ Len(gl \o n) = Len(gl) + Len(n) /\ DOMAIN (gl \o n) = 1 .. Len(gl) + Len(n)
      /\ \A k \in 1 .. Len(gl) + Len(n) : (gl \o n)[k] = IF k <= Len(gl) THEN gl[k] ELSE n[k - Len(gl)]
  <2>1. n \in Seq(CondType)
    BY <1>1
  <2> HIDE DEF gl, n
  <2> QED BY <1>2, <2>1, ConcatProperties
<1> DEFINE j == gl \o n
<1>6. Joined(b) = j
  BY <1>1
<1>7. Len(b.great) \in Nat /\ Len(b.less) \in Nat /\ Len(q) \in Nat
      /\ DOMAIN b.great = 1 .. Len(b.great) /\ DOMAIN b.less = 1 .. Len(b.less)
  BY <1>2
<1> DEFINE G == Len(b.great)
           L == Len(b.less)
           Q == Len(q)
<1>8. /\ i \in 1 .. (G + L) + Q
      /\ \A k \in 1 .. (G + L) + Q : j[k] = IF k <= G + L THEN gl[k] ELSE n[k - (G + L)]
      /\ \A k \in 1 .. G + L : gl[k] = IF k <= G THEN b.great[k] ELSE b.less[k - G]
  <2>1. Len(gl) = G + L /\ Len(n) = Q
    BY <1>3, <1>4
  <2>2. i \in DOMAIN j
    BY <1>6
  <2>3. DOMAIN j = 1 .. Len(gl) + Len(n) /\ \A k \in 1 .. Len(gl) + Len(n) : j[k] = IF k <= Len(gl) THEN gl[k] ELSE n[k - Len(gl)]
    BY <1>5
  <2>4. \A k \in 1 .. Len(gl) : gl[k] = IF k <= G THEN b.great[k] ELSE b.less[k - G]
    BY <1>3
  <2> HIDE DEF gl, n, j, G, L, Q
  <2> QED BY <2>1, <2>2, <2>3, <2>4
<1>9. G \in Nat /\ L \in Nat /\ Q \in Nat
  BY <1>7
<1>10. /\ DOMAIN b.great = 1 .. G /\ DOMAIN b.less = 1 .. L
       /\ \A k \in 1 .. Q : n[k].cond = "NE" /\ n[k].value \in b.excluded
  BY <1>1, <1>4, <1>7
<1> HIDE DEF gl, n, j, G, L, Q
<1>11. CASE i <= G
  <2>1. i \in 1 .. G + L /\ i \in 1 .. G /\ i <= G + L
    BY <1>8, <1>9, <1>11
  <2>2. j[i] = b.great[i]
    BY <1>8, <1>11, <2>1
  <2> QED BY <1>6, <1>10, <2>1, <2>2
<1>12. CASE ~(i <= G) /\ i <= G + L
  <2>1. i - G \in 1 .. L /\ i \in 1 .. G + L
    BY <1>8, <1>9, <1>12
  <2>2. j[i] = b.less[i - G]
    BY <1>8, <1>12, <2>1
  <2> QED BY <1>6, <1>10, <2>1, <2>2
<1>13. CASE ~(i <= G + L)
  <2>1. i - (G + L) \in 1 .. Q
    BY <1>8, <1>9, <1>13
  <2>2. j[i] = n[i - (G + L)]
    BY <1>8, <1>13
  <2> QED BY <1>6, <1>10, <2>1, <2>2
<1> QED BY <1>11, <1>12, <1>13

(* The last step of a sort, where no bound is lost.                            *)
LEMMA SettledIs ==
  ASSUME NEW col \in Columns, NEW e, Trimmed(e), Covered(col, e), e.min <= e.max,
         col # "name" /\ e.eqMax => e.max \notin e.excluded,
         Pinched(col, e).ok
  PROVE  LET s == Settled(Pinched(col, e))
         IN /\ s.list \in Seq(CondType) /\ s.ok \in BOOLEAN
            /\ s.ok => Form(col, s.list)
            /\ ~s.ok => s.list = << >> \/ OneEqual(s.list)
            /\ \A v \in Within(col) : s.ok /\ Meaning(s.list, v) <=> Permits(e, v)
            /\ \A i \in DOMAIN s.list :
                 \/ s.list[i].cond = "NE" /\ s.list[i].value \in e.excluded
                 \/ /\ s.list[i].cond # "NE"
                    /\ \/ e.great # << >> /\ s.list[i].value = e.min
                       \/ e.less # << >> /\ s.list[i].value = e.max
                       \/ e.equal # << >> /\ s.list[i].value = e.equal[1].value
<1> DEFINE p == Pinched(col, e)
           s == Settled(p)
<1>1. /\ p \in BoundsType
      /\ p.min = e.min /\ p.max = e.max /\ p.eqMin = e.eqMin /\ p.eqMax = e.eqMax
      /\ p.great = e.great /\ p.excluded = e.excluded
      /\ p.equal = << >> \/ IsEqual(p)
      /\ e.min # e.max => p = e
      /\ e.min = e.max =>
           /\ p.less = << Condition("EQ", e.max) >>
           /\ p.equal = IF e.equal = << >> /\ col # "rating" THEN << Condition("EQ", e.max) >> ELSE e.equal
           /\ p.ok = (e.ok /\ e.eqMin /\ e.eqMax /\ (e.equal = << >> \/ e.equal[1].value = e.min))
      /\ \A v \in Int : Permits(p, v) <=> Permits(e, v)
  BY PinchedIs
<1>2. p.ok
  OBVIOUS
<1>3. /\ e \in BoundsType /\ e.min \in Int /\ e.max \in Int /\ e.eqMin \in BOOLEAN /\ e.eqMax \in BOOLEAN
      /\ e.excluded \in SUBSET Int /\ IsFiniteSet(e.excluded) /\ e.great \in Seq(CondType)
  BY DEF Trimmed, BoundsType
<1>4. Within(col) \subseteq Int
  BY BoundsAssumption DEF Within, Between
<1> HIDE DEF p
<1>5. CASE IsEqual(p)
  <2>1. PICK x \in Int : p.equal = << Condition("EQ", x) >>
    BY <1>5 DEF IsEqual
  <2>2. Condition("EQ", x) \in CondType /\ Condition("EQ", x).cond = "EQ" /\ Condition("EQ", x).value = x
    BY ConditionTyped DEF Conds
  <2>3. /\ p.equal # << >> /\ p.equal[1].value = x /\ p.equal \in Seq(CondType)
        /\ DOMAIN p.equal = {1} /\ p.equal[1].cond = "EQ"
    BY <2>1, <2>2
  <2>4. s = [ok |-> InBounds(p, x) /\ x \notin p.excluded, list |-> IF InBounds(p, x) THEN p.equal ELSE << >>]
    BY <2>3 DEF Settled
  <2>5. /\ s.list \in Seq(CondType) /\ s.ok \in BOOLEAN /\ (s.ok <=> InBounds(p, x) /\ x \notin p.excluded)
        /\ s.list = IF InBounds(p, x) THEN p.equal ELSE << >>
    <3> DEFINE ok == InBounds(p, x) /\ x \notin p.excluded
               rest == IF InBounds(p, x) THEN p.equal ELSE << >>
    <3>1. ok \in BOOLEAN /\ rest \in Seq(CondType)
      BY <2>3
    <3>2. s = [ok |-> ok, list |-> rest]
      BY <2>4
    <3> HIDE DEF s, ok, rest
    <3>3. s.ok = ok /\ s.list = rest
      BY <3>2
    <3> QED BY <3>1, <3>3 DEF ok, rest
  <2>6. \A v : Meaning(p.equal, v) <=> v = x
    BY <2>1, <2>2, MeaningOfFew, HoldsIs
  <2> HIDE DEF s
  <2>7. ASSUME NEW v \in Within(col) PROVE s.ok /\ Meaning(s.list, v) <=> Permits(e, v)
    <3>1. Permits(e, v) <=> Permits(p, v)
      BY <1>1, <1>4
    <3>2. Permits(p, v) <=> InBounds(p, v) /\ v \notin p.excluded /\ v = x
      BY <1>2, <2>3 DEF Permits
    <3> QED BY <2>5, <2>6, <3>1, <3>2
  <2>8. \A i \in DOMAIN p.equal :
          /\ p.equal[i].cond # "NE"
          /\ \/ e.great # << >> /\ p.equal[i].value = e.min
             \/ e.less # << >> /\ p.equal[i].value = e.max
             \/ e.equal # << >> /\ p.equal[i].value = e.equal[1].value
    <3>1. CASE p.equal = e.equal
      BY <2>3, <3>1
    <3>2. CASE p.equal # e.equal
      <4>1. e.min = e.max /\ x = e.max
        <5>1. e.min = e.max /\ p.equal = << Condition("EQ", e.max) >>
          BY <1>1, <3>2
        <5>2. Condition("EQ", e.max).value = e.max
          BY DEF Condition
        <5> DEFINE c == Condition("EQ", e.max)
        <5> HIDE DEF c
        <5>3. p.equal[1] = c
          BY <5>1 DEF c
        <5> QED BY <2>3, <5>1, <5>2, <5>3 DEF c
      <4>2. e.great # << >> \/ e.less # << >>
        BY <4>1, SomeBound
      <4> QED BY <2>3, <4>1, <4>2
    <3> QED BY <3>1, <3>2
  <2>9. s.ok => Form(col, s.list)
    BY <2>1, <2>5 DEF Form, OneEqual
  <2>10. ~s.ok => s.list = << >> \/ OneEqual(s.list)
    BY <2>1, <2>5 DEF OneEqual
  <2>11. \A i \in DOMAIN s.list : i \in DOMAIN p.equal /\ s.list[i] = p.equal[i]
    BY <2>5
  <2> QED BY <2>5, <2>7, <2>8, <2>9, <2>10, <2>11 DEF s, p
<1>6. CASE p.equal = << >>
  <2>1. s = [ok |-> TRUE, list |-> Joined(p)]
    BY <1>6 DEF Settled
  <2>2. s.ok = TRUE /\ s.list = Joined(p)
    BY <2>1
  <2> HIDE DEF s
  <2>3. PICK q \in Seq(Int) :
          /\ Rising(q) /\ Joined(p) = (p.great \o p.less) \o NotList(q)
          /\ Joined(p) \in Seq(CondType) /\ {q[i] : i \in 1 .. Len(q)} = p.excluded
    BY <1>1, <1>3, JoinedIs
  <2>4. ASSUME NEW v \in Within(col) PROVE s.ok /\ Meaning(s.list, v) <=> Permits(e, v)
    <3>1. Permits(e, v) <=> InBounds(p, v) /\ v \notin e.excluded
      BY <1>1, <1>2, <1>4, <1>6 DEF Permits
    <3>2. Meaning(s.list, v) <=> Meaning(e.great, v) /\ Meaning(p.less, v) /\ v \notin e.excluded
      BY <1>1, <1>3, <2>2, MeaningJoined
    <3>3. CASE v \in e.excluded
      BY <3>1, <3>2, <3>3
    <3>4. CASE v \notin e.excluded
      <4>1. /\ Meaning(e.great, v) <=> v > e.min \/ (e.eqMin /\ v = e.min)
            /\ e.less = << >> \/ IsUpper(e) => (Meaning(e.less, v) <=> v < e.max \/ (e.eqMax /\ v = e.max))
        BY <3>4, BoundMeans
      <4>2. CASE e.min # e.max
        <5>1. p.less = e.less /\ (e.less = << >> \/ IsUpper(e))
          BY <1>1, <4>2 DEF Trimmed
        <5> QED BY <1>1, <2>2, <3>1, <3>2, <3>4, <4>1, <5>1 DEF InBounds
      <4>3. CASE e.min = e.max
        <5>1. Meaning(p.less, v) <=> v = e.max
          <6>1. Condition("EQ", e.max).cond = "EQ" /\ Condition("EQ", e.max).value = e.max
            BY DEF Condition
          <6> DEFINE c == Condition("EQ", e.max)
          <6>2. p.less = << c >>
            BY <1>1, <4>3
          <6> HIDE DEF c
          <6>3. Meaning(p.less, v) <=> Holds(c, v)
            BY <6>2, MeaningOfFew
          <6> QED BY <6>1, <6>3, HoldsIs DEF c
        <5>2. e.eqMin /\ e.eqMax
          BY <1>1, <1>2, <4>3
        <5>3. v \in Int
          BY <1>4
        <5> QED BY <1>1, <1>3, <2>2, <3>1, <3>2, <3>4, <4>1, <4>3, <5>1, <5>2, <5>3 DEF InBounds
      <4> QED BY <4>2, <4>3
    <3> QED BY <3>3, <3>4
  <2>5. Form(col, s.list)
    <3>1. e.great \in OneOf({"GT", "GE"})
      <4>1. e.great = << >> \/ e.great = << Condition(IF e.eqMin THEN "GE" ELSE "GT", e.min) >>
        BY DEF Trimmed, IsLower
      <4> QED BY <1>3, <4>1, OneOfHas
    <3>2. CASE e.min # e.max
      <4>1. e.less \in OneOf({"LT", "LE"})
        <5>1. e.less = << >> \/ e.less = << Condition(IF e.eqMax THEN "LE" ELSE "LT", e.max) >>
          BY DEF Trimmed, IsUpper
        <5> QED BY <1>3, <5>1, OneOfHas
      <4>2. s.list = (e.great \o e.less) \o NotList(q)
        BY <1>1, <2>2, <2>3, <3>2
      <4> QED BY <2>3, <3>1, <4>1, <4>2 DEF Form, InOrder
    <3>3. CASE e.min = e.max
      <4>1. col = "rating" /\ e.eqMin /\ e.eqMax /\ p.less = << Condition("EQ", e.max) >>
        <5>1. \A x : << x >> # << >>
          OBVIOUS
        <5> QED BY <1>1, <1>2, <1>6, <3>3, <5>1
      <4>2. e.excluded = {}
        <5>1. \A v \in e.excluded : v = e.max
          <6> TAKE v \in e.excluded
          <6>1. e.min <= v /\ v <= e.max /\ v \in Int
            BY <1>3 DEF Trimmed
          <6> QED BY <1>3, <3>3, <6>1
        <5> QED BY <4>1, <5>1
      <4>3. q = << >>
        <5>1. \A i \in 1 .. Len(q) : q[i] \in {}
          BY <1>1, <2>3, <4>2
        <5> QED BY <5>1
      <4>4. NotList(q) = << >>
        BY <4>3, NotListIs
      <4>5. Condition("EQ", e.max) \in CondType /\ Condition("GE", e.max) \in CondType
        BY <1>3, ConditionTyped DEF Conds
      <4>6. s.list = (e.great \o << Condition("EQ", e.max) >>) \o << >>
        BY <1>1, <2>2, <2>3, <4>1, <4>4
      <4>7. e.great = << >> \/ e.great = << Condition("GE", e.max) >>
        BY <3>3, <4>1 DEF Trimmed, IsLower
      <4>8. \A a, c \in CondType : /\ (<< >> \o << c >>) \o << >> = << c >>
                                   /\ (<< a >> \o << c >>) \o << >> = << a, c >>
        <5> TAKE a \in CondType, c \in CondType
        <5>1. << a >> \o << c >> = << a, c >> /\ << >> \o << c >> = << c >>
          BY FewConcat
        <5>2. << c >> \in Seq(CondType) /\ << a, c >> \in Seq(CondType)
          OBVIOUS
        <5>3. << c >> \o << >> = << c >> /\ << a, c >> \o << >> = << a, c >>
          BY <5>2, ConcatEmptySeq
        <5> QED BY <5>1, <5>3
      <4>9. s.list = << Condition("EQ", e.max) >> \/ s.list = << Condition("GE", e.max), Condition("EQ", e.max) >>
        BY <4>5, <4>6, <4>7, <4>8, Zenon
      <4> QED BY <1>3, <4>1, <4>9 DEF Form, OneEqual, LowerAndEqual
    <3> QED BY <3>2, <3>3
  <2>6. ASSUME NEW i \in DOMAIN s.list
        PROVE  \/ s.list[i].cond = "NE" /\ s.list[i].value \in e.excluded
               \/ /\ s.list[i].cond # "NE"
                  /\ \/ e.great # << >> /\ s.list[i].value = e.min
                     \/ e.less # << >> /\ s.list[i].value = e.max
                     \/ e.equal # << >> /\ s.list[i].value = e.equal[1].value
    <3>1. \/ \E k \in DOMAIN p.great : s.list[i] = p.great[k]
          \/ \E k \in DOMAIN p.less : s.list[i] = p.less[k]
          \/ s.list[i].cond = "NE" /\ s.list[i].value \in p.excluded
      BY <1>1, <1>3, <2>2, <2>6, JoinedValues
    <3>2. ASSUME NEW k \in DOMAIN e.great
          PROVE  e.great[k].cond # "NE" /\ e.great # << >> /\ e.great[k].value = e.min
      <4>1. e.great = << Condition(IF e.eqMin THEN "GE" ELSE "GT", e.min) >>
        BY DEF Trimmed, IsLower
      <4> DEFINE c == Condition(IF e.eqMin THEN "GE" ELSE "GT", e.min)
      <4>2. c.cond # "NE" /\ c.value = e.min
        BY DEF Condition
      <4> HIDE DEF c
      <4>3. k = 1 /\ e.great[1] = c /\ e.great # << >>
        BY <4>1 DEF c
      <4> QED BY <4>2, <4>3
    <3>3. ASSUME NEW k \in DOMAIN p.less
          PROVE  /\ p.less[k].cond # "NE"
                 /\ \/ e.great # << >> /\ p.less[k].value = e.min
                    \/ e.less # << >> /\ p.less[k].value = e.max
      <4>1. CASE e.min # e.max
        <5>1. p.less = e.less
          BY <1>1, <4>1
        <5>2. e.less = << Condition(IF e.eqMax THEN "LE" ELSE "LT", e.max) >>
          BY <5>1 DEF Trimmed, IsUpper
        <5> DEFINE c == Condition(IF e.eqMax THEN "LE" ELSE "LT", e.max)
        <5>3. c.cond # "NE" /\ c.value = e.max
          BY DEF Condition
        <5> HIDE DEF c
        <5>4. k = 1 /\ e.less[1] = c /\ e.less # << >>
          BY <5>1, <5>2 DEF c
        <5> QED BY <5>1, <5>3, <5>4
      <4>2. CASE e.min = e.max
        <5> DEFINE c == Condition("EQ", e.max)
        <5>1. c.cond # "NE" /\ c.value = e.max
          BY DEF Condition
        <5>2. p.less = << c >>
          BY <1>1, <4>2
        <5> HIDE DEF c
        <5>3. p.less[k] = c
          BY <5>2
        <5>4. e.great # << >> \/ e.less # << >>
          BY <4>2, SomeBound
        <5> QED BY <4>2, <5>1, <5>3, <5>4
      <4> QED BY <4>1, <4>2
    <3> QED BY <1>1, <3>1, <3>2, <3>3
  <2> QED BY <2>2, <2>3, <2>4, <2>5, <2>6 DEF s, p
<1> QED BY <1>1, <1>5, <1>6

LEMMA SortIs ==
  ASSUME NEW col \in Columns, NEW C \in SUBSET CondType, NEW lst \in Seq(C)
  PROVE  LET s == Sort(col, lst)
         IN /\ s.list \in Seq(CondType) /\ s.ok \in BOOLEAN
            /\ s.ok => Form(col, s.list)
            /\ ~s.ok => s.list = << >> \/ OneEqual(s.list)
            /\ \A v \in Within(col) : s.ok /\ Meaning(s.list, v) => Meaning(lst, v)
            /\ col # "name" \/ (\A c \in C : c.cond # "NE") =>
                 \A v \in Within(col) : Meaning(lst, v) => s.ok /\ Meaning(s.list, v)
            /\ \A i \in DOMAIN s.list :
                 \E c \in C : s.list[i].value = c.value /\ (s.list[i].cond = "NE" => c.cond = "NE")
<1> DEFINE s == Sort(col, lst)
           b == Tightened(lst)
           e == Excluding(col, b)
           p == Pinched(col, e)
           exact == col # "name" \/ \A c \in C : c.cond # "NE"
<1>0. lst \in Seq(CondType)
  OBVIOUS
<1>1. Shape(b) /\ \A v \in Between : Permits(b, v) <=> Meaning(lst, v)
  BY <1>0, TightenedMeans
<1>2. Drawn(b, C)
  BY TightenedDrawn
<1>3. Within(col) \subseteq Between /\ Between \subseteq Int
  BY BoundsAssumption DEF Within, Between
<1>4. b \in BoundsType /\ b.min \in Int /\ b.max \in Int /\ b.excluded \in SUBSET Int /\ b.eqMin \in BOOLEAN /\ b.eqMax \in BOOLEAN
  BY <1>1 DEF Shape, BoundsType
<1>5. s = IF lst = << >> THEN [ok |-> TRUE, list |-> << >>]
          ELSE IF ~b.ok \/ b.min > b.max \/ ~p.ok THEN Refused
          ELSE Settled(p)
  BY DEF Sort
<1>6. << >> \in Seq(CondType) /\ DOMAIN << >> = {}
  OBVIOUS
<1> HIDE DEF s, b, e, p
<1>7. CASE lst = << >>
  <2>1. s.ok = TRUE /\ s.list = << >>
    BY <1>5, <1>7
  <2>2. Form(col, << >>)
    <3>1. << >> \in OneOf({"GT", "GE"}) /\ << >> \in OneOf({"LT", "LE"}) /\ << >> \in Seq(Int)
      BY DEF OneOf
    <3>2. NotList(<< >>) = << >> /\ Rising(<< >>)
      <4>1. NotList(<< >>) = << >>
        BY <3>1, NotListIs
      <4>2. Len(<< >>) = 0 /\ 1 .. 0 = {}
        OBVIOUS
      <4> QED BY <4>1, <4>2 DEF Rising, RisesTo
    <3>3. << >> = (<< >> \o << >>) \o << >>
      OBVIOUS
    <3>4. << >> = (<< >> \o << >>) \o NotList(<< >>)
      BY <3>2, <3>3
    <3>5. InOrder(<< >>)
      BY <3>1, <3>2, <3>4, Zenon DEF InOrder
    <3> QED BY <3>5 DEF Form
  <2>3. \A v : Meaning(<< >>, v)
    BY MeaningOfFew
  <2> QED BY <1>6, <1>7, <2>1, <2>2, <2>3 DEF s
<1>8. CASE lst # << >> /\ (~b.ok \/ b.min > b.max \/ ~p.ok)
  <2>1. s.ok = FALSE /\ s.list = << >>
    BY <1>5, <1>8 DEF Refused
  <2>2. ASSUME exact, NEW v \in Within(col), Meaning(lst, v) PROVE FALSE
    <3>1. Permits(b, v) /\ v \in Int
      BY <1>1, <1>3, <2>2
    <3>2. b.ok /\ InBounds(b, v)
      BY <3>1 DEF Permits
    <3>3. b.min <= b.max
      BY <1>4, <3>1, <3>2 DEF InBounds
    <3>4. ~p.ok
      BY <1>4, <1>8, <3>2, <3>3
    <3>5. /\ Trimmed(e) /\ e.min = b.min /\ e.max = b.max /\ e.equal = b.equal /\ e.ok = b.ok
          /\ e.excluded = {x \in b.excluded : b.min <= x /\ x <= b.max}
          /\ col # "name" \/ b.excluded = {} =>
               /\ (e.eqMin <=> b.eqMin /\ b.min \notin b.excluded)
               /\ (e.eqMax <=> b.eqMax /\ b.max \notin b.excluded)
      BY <1>1, <3>3, ExcludingIs DEF e
    <3>6. col # "name" \/ b.excluded = {}
      BY <1>2, <2>2 DEF Drawn
    <3>7. InBounds(e, v)
      <4>1. v \notin b.excluded
        BY <3>1 DEF Permits
      <4> QED BY <3>2, <3>5, <3>6, <4>1 DEF InBounds
    <3>8. Permits(e, v)
      BY <3>1, <3>5, <3>7 DEF Permits
    <3>9. Permits(p, v)
      BY <3>1, <3>5, <3>8, PinchedIs DEF p
    <3> QED BY <3>4, <3>9 DEF Permits
  <2>3. exact => \A v \in Within(col) : Meaning(lst, v) => s.ok /\ Meaning(s.list, v)
    BY <2>2
  <2> QED BY <1>6, <2>1, <2>3 DEF s
<1>9. CASE lst # << >> /\ b.ok /\ ~(b.min > b.max) /\ p.ok
  <2>1. s = Settled(p)
    BY <1>5, <1>9
  <2>2. b.min <= b.max
    BY <1>4, <1>9
  <2>3. /\ Trimmed(e) /\ e.min = b.min /\ e.max = b.max /\ e.equal = b.equal /\ e.ok = b.ok
        /\ (e.eqMin => b.eqMin) /\ (e.eqMax => b.eqMax)
        /\ e.excluded = {x \in b.excluded : b.min <= x /\ x <= b.max}
        /\ col # "name" \/ b.excluded = {} =>
             /\ (e.eqMin <=> b.eqMin /\ b.min \notin b.excluded)
             /\ (e.eqMax <=> b.eqMax /\ b.max \notin b.excluded)
        /\ (e.great = << >> <=> b.great = << >>) /\ (e.less = << >> <=> b.less = << >>)
    BY <1>1, <2>2, ExcludingIs DEF e
  <2>4. Covered(col, e)
    <3> SUFFICES ASSUME NEW v \in Within(col)
                 PROVE  /\ e.great = << >> /\ ~e.eqMin /\ v = e.min => v \in e.excluded
                        /\ e.less = << >> /\ ~e.eqMax /\ v = e.max => v \in e.excluded
      BY DEF Covered
    <3>1. \A y : << y >> # << >>
      OBVIOUS
    <3>2. /\ e.great = << >> => b.min = Lowest /\ b.eqMin
          /\ e.less = << >> => b.max = Highest /\ b.eqMax
      BY <1>1, <2>3, <3>1 DEF Shape, IsLower, IsUpper
    <3>3. CASE col = "name"
      <4>1. v # Lowest /\ v # Highest
        BY <3>3, BoundsAssumption DEF Within
      <4> QED BY <2>3, <3>2, <4>1
    <3>4. CASE col # "name"
      BY <1>4, <2>2, <2>3, <3>2, <3>4
    <3> QED BY <3>3, <3>4
  <2>5. col # "name" /\ e.eqMax => e.max \notin e.excluded
    BY <2>3
  <2>6. e.min <= e.max /\ Pinched(col, e).ok
    BY <1>9, <2>2, <2>3 DEF p
  <2>7. /\ s.list \in Seq(CondType) /\ s.ok \in BOOLEAN
        /\ s.ok => Form(col, s.list)
        /\ ~s.ok => s.list = << >> \/ OneEqual(s.list)
        /\ \A v \in Within(col) : s.ok /\ Meaning(s.list, v) <=> Permits(e, v)
        /\ \A i \in DOMAIN s.list :
             \/ s.list[i].cond = "NE" /\ s.list[i].value \in e.excluded
             \/ /\ s.list[i].cond # "NE"
                /\ \/ e.great # << >> /\ s.list[i].value = e.min
                   \/ e.less # << >> /\ s.list[i].value = e.max
                   \/ e.equal # << >> /\ s.list[i].value = e.equal[1].value
    <3> HIDE DEF e
    <3>1. s = Settled(Pinched(col, e))
      BY <2>1 DEF p
    <3> QED BY <2>3, <2>4, <2>5, <2>6, <3>1, SettledIs
  <2>8. ASSUME NEW v \in Within(col), Permits(e, v) PROVE Meaning(lst, v)
    <3>1. v \in Int /\ v \in Between
      BY <1>3
    <3>2. InBounds(b, v)
      BY <2>3, <2>8 DEF Permits, InBounds
    <3>3. v \notin b.excluded
      <4>1. b.min <= v /\ v <= b.max
        BY <1>4, <3>1, <3>2 DEF InBounds
      <4> QED BY <2>3, <2>8, <4>1 DEF Permits
    <3>4. Permits(b, v)
      BY <2>3, <2>8, <3>2, <3>3 DEF Permits
    <3> QED BY <1>1, <3>1, <3>4
  <2>9. ASSUME exact, NEW v \in Within(col), Meaning(lst, v) PROVE Permits(e, v)
    <3>1. Permits(b, v)
      BY <1>1, <1>3, <2>9
    <3>2. col # "name" \/ b.excluded = {}
      BY <1>2, <2>9 DEF Drawn
    <3>3. InBounds(e, v)
      BY <2>3, <3>1, <3>2 DEF InBounds, Permits
    <3> QED BY <2>3, <3>1, <3>3 DEF Permits
  <2>10. \A i \in DOMAIN s.list :
           \E c \in C : s.list[i].value = c.value /\ (s.list[i].cond = "NE" => c.cond = "NE")
    <3> TAKE i \in DOMAIN s.list
    <3>1. CASE s.list[i].cond = "NE" /\ s.list[i].value \in e.excluded
      BY <1>2, <2>3, <3>1 DEF Drawn
    <3>2. CASE s.list[i].cond # "NE"
      BY <1>2, <2>3, <2>7, <3>2 DEF Drawn
    <3> QED BY <2>7, <3>1, <3>2
  <2>11. exact => \A v \in Within(col) : Meaning(lst, v) => s.ok /\ Meaning(s.list, v)
    BY <2>7, <2>9
  <2>12. \A v \in Within(col) : s.ok /\ Meaning(s.list, v) => Meaning(lst, v)
    BY <2>7, <2>8
  <2> QED BY <2>7, <2>10, <2>11, <2>12 DEF s
<1> QED BY <1>7, <1>8, <1>9

-------------------------------------------------------------------------------
(* How such a list is read.                                                    *)
Vals(q) == {q[i] : i \in 1 .. Len(q)}

LEMMA SkipTo ==
  ASSUME NEW n, NEW v
  PROVE  LET I == {i \in 1 .. Len(n) : ~(v > n[i].value)}
         IN Skip(n, v) = IF I # {} THEN (IF Min(I) = 0 THEN << >> ELSE SubSeq(n, Min(I), Len(n))) ELSE << >>
<1> DEFINE I == {i \in 1 .. Len(n) : ~(v > n[i].value)}
<1>1. SelectInSeq(n, LAMBDA c : ~(v > c.value)) = IF I # {} THEN Min(I) ELSE 0
  BY Zenon DEF SelectInSeq
<1> QED BY <1>1, Zenon DEF Skip

LEMMA SkipIs ==
  ASSUME NEW q \in Seq(Int), Rising(q), NEW v \in Int
  PROVE  \E t \in Seq(Int) :
           /\ Rising(t) /\ Skip(NotList(q), v) = NotList(t)
           /\ Vals(t) = {x \in Vals(q) : v <= x}
           /\ (NotList(t) # << >> /\ Head(NotList(t)).value = v) <=> v \in Vals(q)
<1> DEFINE n == NotList(q)
           I == {i \in 1 .. Len(n) : ~(v > n[i].value)}
           k == IF I # {} THEN Min(I) ELSE 0
<1>1. /\ n \in Seq(CondType) /\ Len(n) = Len(q) /\ DOMAIN n = 1 .. Len(q)
      /\ \A i \in 1 .. Len(q) : n[i].cond = "NE" /\ n[i].value = q[i]
  BY NotListIs
<1>2. Len(q) \in Nat /\ \A i \in 1 .. Len(q) : q[i] \in Int
  OBVIOUS
<1>3. k = IF I # {} THEN Min(I) ELSE 0
  OBVIOUS
<1>4. Skip(n, v) = IF k = 0 THEN << >> ELSE SubSeq(n, k, Len(n))
  BY SkipTo, Zenon
<1>5. I = {i \in 1 .. Len(q) : v <= q[i]}
  BY <1>1, <1>2
<1> HIDE DEF k, I, n
<1>6. CASE I = {}
  <2>1. Skip(n, v) = << >> /\ NotList(<< >>) = << >> /\ << >> \in Seq(Int)
    <3>1. << >> \in Seq(Int)
      OBVIOUS
    <3>2. NotList(<< >>) = << >>
      BY <3>1, NotListIs
    <3> QED BY <1>3, <1>4, <1>6, <3>1, <3>2
  <2>2. \A i \in 1 .. Len(q) : ~(v <= q[i])
    BY <1>5, <1>6
  <2>3. Len(<< >>) = 0 /\ 1 .. 0 = {}
    OBVIOUS
  <2>4. Rising(<< >>) /\ Vals(<< >>) = {}
    BY <2>3 DEF Rising, RisesTo, Vals
  <2>5. {x \in Vals(q) : v <= x} = {}
    BY <2>2 DEF Vals
  <2>6. v \notin Vals(q)
    BY <2>2 DEF Vals
  <2> QED BY <2>1, <2>4, <2>5, <2>6, Zenon DEF n
<1>7. CASE I # {}
  <2>1. I \subseteq Nat
    BY <1>2, <1>5
  <2>2. k \in I /\ \A y \in I : k <= y
    BY <1>3, <1>7, <2>1, MinOfNaturals
  <2>3. k \in 1 .. Len(q) /\ v <= q[k] /\ k # 0 /\ \A i \in 1 .. Len(q) : v <= q[i] => k <= i
    BY <1>2, <1>5, <2>2
  <2> DEFINE t == SubSeq(q, k, Len(q))
             M == Len(q) - k + 1
  <2>4. /\ t \in Seq(Int) /\ Len(t) = M /\ \A i \in 1 .. M : t[i] = q[k + i - 1]
    BY <1>2, <2>3
  <2>5. M \in Nat /\ M >= 1 /\ \A i \in 1 .. M : k + i - 1 \in 1 .. Len(q)
    BY <1>2, <2>3
  <2> DEFINE rest == SubSeq(n, k, Len(n))
  <2>6. /\ rest \in Seq(CondType) /\ Len(rest) = M /\ \A i \in 1 .. M : rest[i] = n[k + i - 1]
    BY <1>1, <1>2, <2>3
  <2> HIDE DEF t, M, rest
  <2>7. NotList(t) \in Seq(CondType) /\ Len(NotList(t)) = M /\ \A i \in 1 .. M : NotList(t)[i] = Condition("NE", t[i])
    <3>1. DOMAIN t = 1 .. M
      BY <2>4, <2>5
    <3> QED BY <2>4, <3>1, NotListIs DEF NotList
  <2>8. rest = NotList(t)
    <3>1. \A i \in 1 .. Len(q) : n[i] = Condition("NE", q[i])
      BY <1>2 DEF n, NotList
    <3>2. \A i \in 1 .. M : rest[i] = NotList(t)[i]
      BY <2>4, <2>5, <2>6, <2>7, <3>1
    <3> QED BY <2>5, <2>6, <2>7, <3>2, SeqEqual
  <2>9. Skip(n, v) = NotList(t)
    BY <1>4, <2>3, <2>8 DEF rest
  <2>10. Rising(t)
    <3> SUFFICES ASSUME NEW i \in 1 .. M, NEW j \in 1 .. M, i < j PROVE t[i] < t[j]
      BY <2>4 DEF Rising, RisesTo
    <3>1. k + i - 1 \in 1 .. Len(q) /\ k + j - 1 \in 1 .. Len(q) /\ k + i - 1 < k + j - 1
      BY <2>5, <2>3
    <3>2. q[k + i - 1] < q[k + j - 1]
      BY <3>1 DEF Rising, RisesTo
    <3> QED BY <2>4, <3>2
  <2>11. Vals(t) = {x \in Vals(q) : v <= x}
    <3>1. ASSUME NEW i \in 1 .. M PROVE t[i] \in Vals(q) /\ v <= t[i]
      <4>1. k + i - 1 \in 1 .. Len(q) /\ t[i] = q[k + i - 1]
        BY <2>4, <2>5
      <4>2. CASE i = 1
        <5>1. k + i - 1 = k
          BY <2>3, <4>2
        <5> QED BY <2>3, <4>1, <5>1 DEF Vals
      <4>3. CASE i # 1
        <5>1. k < k + i - 1
          BY <2>3, <2>5, <4>3
        <5>2. q[k] < q[k + i - 1]
          BY <2>3, <4>1, <5>1 DEF Rising, RisesTo
        <5> QED BY <1>2, <2>3, <4>1, <5>2 DEF Vals
      <4> QED BY <4>2, <4>3
    <3>2. ASSUME NEW i \in 1 .. Len(q), v <= q[i] PROVE q[i] \in Vals(t)
      <4>1. k <= i
        BY <2>3, <3>2
      <4>2. i - k + 1 \in 1 .. M /\ k + (i - k + 1) - 1 = i
        BY <1>2, <2>3, <4>1 DEF M
      <4>3. t[i - k + 1] = q[i]
        BY <2>4, <4>2
      <4> QED BY <2>4, <4>2, <4>3 DEF Vals
    <3>3. \A x \in Vals(t) : x \in Vals(q) /\ v <= x
      BY <2>4, <3>1 DEF Vals
    <3>4. \A x \in Vals(q) : v <= x => x \in Vals(t)
      BY <3>2 DEF Vals
    <3> QED BY <3>3, <3>4
  <2>12. NotList(t) # << >> /\ Head(NotList(t)).value = q[k]
    <3>1. Head(NotList(t)) = NotList(t)[1] /\ NotList(t) # << >>
      BY <2>5, <2>7
    <3>2. 1 \in 1 .. M /\ k + 1 - 1 = k
      BY <2>3, <2>5
    <3>3. t[1] = q[k]
      BY <2>4, <3>2
    <3>4. NotList(t)[1].value = t[1]
      BY <2>4, <2>5, <3>2, NotListIs
    <3> QED BY <3>1, <3>3, <3>4
  <2>13. q[k] = v <=> v \in Vals(q)
    <3>1. ASSUME NEW i \in 1 .. Len(q), v = q[i] PROVE q[k] = v
      <4>1. k <= i
        BY <1>2, <2>3, <3>1
      <4>2. CASE k = i
        BY <3>1, <4>2
      <4>3. CASE k < i
        <5>1. q[k] < q[i]
          BY <2>3, <4>3 DEF Rising, RisesTo
        <5> QED BY <1>2, <2>3, <3>1, <5>1
      <4> QED BY <2>3, <4>1, <4>2, <4>3
    <3> QED BY <2>3, <3>1 DEF Vals
  <2> QED BY <2>4, <2>9, <2>10, <2>11, <2>12, <2>13 DEF n
<1> QED BY <1>6, <1>7

LEMMA NotExcludedIs ==
  ASSUME NEW q \in Seq(Int), Rising(q), NEW v \in Int
  PROVE  NotExcluded(NotList(q), v) <=> v \notin Vals(q)
<1>1. PICK t \in Seq(Int) :
        /\ Skip(NotList(q), v) = NotList(t)
        /\ (NotList(t) # << >> /\ Head(NotList(t)).value = v) <=> v \in Vals(q)
  BY SkipIs
<1> QED BY <1>1 DEF NotExcluded

LEMMA PrependIs ==
  ASSUME NEW c \in CondType, NEW s \in Seq(CondType)
  PROVE  /\ << c >> \o s \in Seq(CondType) /\ << c >> \o s # << >>
         /\ Head(<< c >> \o s) = c /\ Tail(<< c >> \o s) = s
<1> DEFINE t == << c >> \o s
<1>1. << c >> \in Seq(CondType) /\ Len(<< c >>) = 1 /\ << c >>[1] = c /\ Len(s) \in Nat
  OBVIOUS
<1>2. /\ t \in Seq(CondType) /\ Len(t) = 1 + Len(s)
      /\ \A i \in 1 .. 1 + Len(s) : t[i] = IF i <= 1 THEN << c >>[i] ELSE s[i - 1]
  BY <1>1, ConcatProperties
<1> HIDE DEF t
<1>3. t[1] = c /\ t # << >>
  BY <1>1, <1>2
<1>4. Head(t) = c /\ Tail(t) \in Seq(CondType) /\ Len(Tail(t)) = Len(s)
      /\ \A i \in 1 .. Len(s) : Tail(t)[i] = t[i + 1]
  BY <1>1, <1>2, <1>3
<1>5. \A i \in 1 .. Len(s) : Tail(t)[i] = s[i]
  <2> TAKE i \in 1 .. Len(s)
  <2>1. i + 1 \in 1 .. 1 + Len(s) /\ ~(i + 1 <= 1) /\ (i + 1) - 1 = i
    BY <1>1
  <2> QED BY <1>2, <1>4, <2>1
<1>6. Tail(t) = s
  BY <1>4, <1>5, SeqEqual
<1> QED BY <1>2, <1>3, <1>4, <1>6 DEF t

(* A lower bound is passed before an upper one, an upper one before the rest.  *)
Stage(c1, c2, g, rest, lst) ==
  /\ Past(Past(lst, {c1}), {c2}) = rest /\ Past(lst, {c1, c2}) = rest
  /\ \A v : Meets(lst, {c1}, v) /\ Meets(Past(lst, {c1}), {c2}, v) <=> Meaning(g, v)
  /\ g = << >> => lst = rest
  /\ g # << >> => /\ lst # << >> /\ Head(lst) = g[1] /\ g[1] \in CondType /\ g[1].cond \in {c1, c2}
                     /\ g = << g[1] >>
  /\ lst \in Seq(CondType) /\ g \in Seq(CondType)

LEMMA StageIs ==
  ASSUME NEW c1 \in Conds, NEW c2 \in Conds, c1 # c2, NEW g \in OneOf({c1, c2}),
         NEW rest \in Seq(CondType), ~StartsWith(rest, {c1, c2}),
         NEW lst, lst = g \o rest
  PROVE  Stage(c1, c2, g, rest, lst)
<1> USE DEF Stage
<1>1. CASE g = << >>
  <2>1. lst = rest
    BY <1>1, ConcatEmptySeq
  <2>2. ~StartsWith(lst, {c1}) /\ ~StartsWith(lst, {c2}) /\ ~StartsWith(lst, {c1, c2})
    BY <2>1 DEF StartsWith
  <2>3. << >> \in Seq(CondType)
    OBVIOUS
  <2>4. Past(lst, {c1}) = lst /\ Past(lst, {c2}) = lst /\ Past(lst, {c1, c2}) = lst
    BY <2>2 DEF Past
  <2> QED BY <1>1, <2>1, <2>2, <2>3, <2>4, MeaningOfFew DEF Meets
<1>2. CASE g # << >>
  <2>1. PICK x \in {c1, c2} \X Int : g = << Condition(x[1], x[2]) >>
    BY <1>2 DEF OneOf
  <2> DEFINE c == Condition(x[1], x[2])
  <2>2. x[1] \in Conds /\ x[2] \in Int /\ x[1] \in {c1, c2}
    OBVIOUS
  <2>3. c \in CondType /\ c.cond = x[1]
    BY <2>2, ConditionTyped
  <2> HIDE DEF c
  <2>4. g = << c >>
    BY <2>1 DEF c
  <2>5. g[1] = c /\ g \in Seq(CondType) /\ lst = << c >> \o rest
    BY <2>3, <2>4
  <2>6. lst \in Seq(CondType) /\ lst # << >> /\ Head(lst) = c /\ Tail(lst) = rest
    BY <2>3, <2>5, PrependIs
  <2>7. \A v : Meaning(g, v) <=> Holds(c, v)
    BY <2>4, MeaningOfFew
  <2>8. StartsWith(lst, {c1, c2}) /\ Past(lst, {c1, c2}) = rest
    BY <2>2, <2>3, <2>6 DEF StartsWith, Past
  <2>9. ~StartsWith(rest, {c1}) /\ ~StartsWith(rest, {c2})
    BY DEF StartsWith
  <2>10. CASE c.cond = c1
    <3>1. StartsWith(lst, {c1}) /\ Past(lst, {c1}) = rest /\ Past(rest, {c2}) = rest
      BY <2>6, <2>9, <2>10 DEF StartsWith, Past
    <3>2. \A v : Meets(lst, {c1}, v) /\ Meets(Past(lst, {c1}), {c2}, v) <=> Holds(c, v)
      BY <2>6, <2>9, <3>1 DEF Meets
    <3> QED BY <1>2, <2>2, <2>3, <2>4, <2>5, <2>6, <2>7, <2>8, <3>1, <3>2
  <2>11. CASE c.cond = c2
    <3>1. ~StartsWith(lst, {c1}) /\ Past(lst, {c1}) = lst /\ StartsWith(lst, {c2}) /\ Past(lst, {c2}) = rest
      BY <2>6, <2>11 DEF StartsWith, Past
    <3>2. \A v : Meets(lst, {c1}, v) /\ Meets(Past(lst, {c1}), {c2}, v) <=> Holds(c, v)
      BY <2>6, <3>1 DEF Meets
    <3> QED BY <1>2, <2>2, <2>3, <2>4, <2>5, <2>6, <2>7, <2>8, <3>1, <3>2
  <2> QED BY <2>2, <2>3, <2>10, <2>11
<1> QED BY <1>1, <1>2

LEMMA LowerStage ==
  ASSUME NEW g \in OneOf({"GT", "GE"}), NEW rest \in Seq(CondType), ~StartsWith(rest, {"GT", "GE"}),
         NEW lst, lst = g \o rest
  PROVE  /\ Past(Past(lst, {"GT"}), {"GE"}) = rest /\ Past(lst, {"GT", "GE"}) = rest
         /\ \A v : Meets(lst, {"GT"}, v) /\ Meets(Past(lst, {"GT"}), {"GE"}, v) <=> Meaning(g, v)
         /\ g = << >> => lst = rest
         /\ g # << >> => /\ lst # << >> /\ Head(lst) = g[1] /\ g[1] \in CondType /\ g[1].cond \in {"GT", "GE"}
                         /\ g = << g[1] >>
         /\ lst \in Seq(CondType) /\ g \in Seq(CondType)
<1>1. "GT" \in Conds /\ "GE" \in Conds /\ "GT" # "GE"
  BY DEF Conds
<1>2. Stage("GT", "GE", g, rest, lst)
  BY <1>1, StageIs, Zenon
<1> QED BY <1>2, Zenon DEF Stage

LEMMA UpperStage ==
  ASSUME NEW g \in OneOf({"LT", "LE"}), NEW rest \in Seq(CondType), ~StartsWith(rest, {"LT", "LE"}),
         NEW lst, lst = g \o rest
  PROVE  /\ Past(Past(lst, {"LT"}), {"LE"}) = rest /\ Past(lst, {"LT", "LE"}) = rest
         /\ \A v : Meets(lst, {"LT"}, v) /\ Meets(Past(lst, {"LT"}), {"LE"}, v) <=> Meaning(g, v)
         /\ g = << >> => lst = rest
         /\ g # << >> => /\ lst # << >> /\ Head(lst) = g[1] /\ g[1] \in CondType /\ g[1].cond \in {"LT", "LE"}
                         /\ g = << g[1] >>
         /\ lst \in Seq(CondType) /\ g \in Seq(CondType)
<1>1. "LT" \in Conds /\ "LE" \in Conds /\ "LT" # "LE"
  BY DEF Conds
<1>2. Stage("LT", "LE", g, rest, lst)
  BY <1>1, StageIs, Zenon
<1> QED BY <1>2, Zenon DEF Stage

(* A list in order, taken apart.                                               *)
Parts(lst, g, l, q) ==
  /\ g \in OneOf({"GT", "GE"}) /\ l \in OneOf({"LT", "LE"}) /\ q \in Seq(Int) /\ Rising(q)
  /\ lst = (g \o l) \o NotList(q)

LEMMA StartsIs ==
  ASSUME NEW lst, NEW g, NEW l, NEW q, Parts(lst, g, l, q)
  PROVE  /\ lst = g \o (l \o NotList(q)) /\ l \o NotList(q) \in Seq(CondType) /\ NotList(q) \in Seq(CondType)
         /\ g \in Seq(CondType) /\ l \in Seq(CondType)
         /\ ~StartsWith(NotList(q), {"GT", "GE", "LT", "LE", "EQ"})
         /\ ~StartsWith(l \o NotList(q), {"GT", "GE", "EQ"})
         /\ ~StartsWith(lst, {"EQ"})
<1> DEFINE n == NotList(q)
<1>1. /\ g \in OneOf({"GT", "GE"}) /\ l \in OneOf({"LT", "LE"}) /\ q \in Seq(Int)
      /\ lst = (g \o l) \o n
  BY DEF Parts
<1>2. n \in Seq(CondType) /\ Len(n) = Len(q) /\ \A i \in 1 .. Len(q) : n[i].cond = "NE"
  BY <1>1, NotListIs
<1> HIDE DEF n
<1>3. ~StartsWith(n, {"GT", "GE", "LT", "LE", "EQ"})
  <2> SUFFICES ASSUME n # << >> PROVE Head(n).cond = "NE"
    BY DEF StartsWith
  <2>1. 1 \in 1 .. Len(q) /\ Head(n) = n[1]
    BY <1>2
  <2> QED BY <1>2, <2>1
<1>4. "LT" \in Conds /\ "LE" \in Conds /\ "GT" \in Conds /\ "GE" \in Conds
  BY DEF Conds
<1>5. ~StartsWith(n, {"LT", "LE"})
  BY <1>3 DEF StartsWith
<1> DEFINE r == l \o n
<1>6. /\ l = << >> => r = n
      /\ l # << >> => r # << >> /\ Head(r) = l[1] /\ l[1].cond \in {"LT", "LE"}
      /\ r \in Seq(CondType) /\ l \in Seq(CondType)
  BY <1>1, <1>2, <1>5, UpperStage
<1> HIDE DEF r
<1>7. ~StartsWith(r, {"GT", "GE", "EQ"}) /\ ~StartsWith(r, {"GT", "GE"})
  BY <1>3, <1>6 DEF StartsWith
<1>8. g \in Seq(CondType)
  <2> DEFINE whole == g \o r
  <2>1. whole = g \o r
    OBVIOUS
  <2> HIDE DEF whole
  <2> QED BY <1>1, <1>6, <1>7, <2>1, LowerStage
<1>9. lst = g \o r
  <2>1. (g \o l) \o n = g \o (l \o n)
    BY <1>2, <1>6, <1>8, ConcatAssociative
  <2> QED BY <1>1, <2>1 DEF r
<1>10. /\ g = << >> => lst = r
       /\ g # << >> => /\ lst # << >> /\ Head(lst) = g[1] /\ g[1] \in CondType /\ g[1].cond \in {"GT", "GE"}
                       /\ g = << g[1] >>
  <2>1. g \in OneOf({"GT", "GE"})
    BY <1>1
  <2>2. r \in Seq(CondType) /\ ~StartsWith(r, {"GT", "GE"})
    BY <1>6, <1>7
  <2> QED BY <1>9, <2>1, <2>2, LowerStage
<1>11. ~StartsWith(lst, {"EQ"})
  BY <1>7, <1>10 DEF StartsWith
<1> QED BY <1>2, <1>3, <1>6, <1>7, <1>8, <1>9, <1>11 DEF r, n

LEMMA AdmitsInOrder ==
  ASSUME NEW lst, NEW g, NEW l, NEW q, Parts(lst, g, l, q), NEW v \in Int
  PROVE  Admits(lst, v) <=> Meaning(g, v) /\ Meaning(l, v) /\ v \notin Vals(q)
<1> DEFINE n == NotList(q)
           r == l \o n
<1>1. /\ g \in OneOf({"GT", "GE"}) /\ l \in OneOf({"LT", "LE"}) /\ q \in Seq(Int) /\ Rising(q)
  BY DEF Parts
<1>2. /\ lst = g \o r /\ r \in Seq(CondType) /\ n \in Seq(CondType)
      /\ ~StartsWith(n, {"LT", "LE"}) /\ ~StartsWith(r, {"GT", "GE"}) /\ ~StartsWith(lst, {"EQ"})
  <2>1. ~StartsWith(n, {"GT", "GE", "LT", "LE", "EQ"}) /\ ~StartsWith(r, {"GT", "GE", "EQ"})
    BY StartsIs
  <2> QED BY <2>1, StartsIs DEF StartsWith
<1>3. NotExcluded(n, v) <=> v \notin Vals(q)
  BY <1>1, NotExcludedIs
<1>4. "LT" \in Conds /\ "LE" \in Conds /\ "GT" \in Conds /\ "GE" \in Conds
  BY DEF Conds
<1> HIDE DEF n
<1>5. /\ Past(Past(r, {"LT"}), {"LE"}) = n
      /\ Meets(r, {"LT"}, v) /\ Meets(Past(r, {"LT"}), {"LE"}, v) <=> Meaning(l, v)
  BY <1>1, <1>2, UpperStage
<1> HIDE DEF r
<1>6. /\ Past(Past(lst, {"GT"}), {"GE"}) = r
      /\ Meets(lst, {"GT"}, v) /\ Meets(Past(lst, {"GT"}), {"GE"}, v) <=> Meaning(g, v)
  BY <1>1, <1>2, LowerStage
<1>7. Admits(lst, v) <=> /\ Meets(lst, {"GT"}, v) /\ Meets(Past(lst, {"GT"}), {"GE"}, v)
                          /\ Meets(r, {"LT"}, v) /\ Meets(Past(r, {"LT"}), {"LE"}, v)
                          /\ NotExcluded(n, v)
  BY <1>2, <1>5, <1>6, Zenon DEF Admits
<1> QED BY <1>3, <1>5, <1>6, <1>7

LEMMA BoundHolds ==
  ASSUME NEW c1, NEW c2, NEW g \in OneOf({c1, c2}), {c1, c2} \subseteq Conds, g # << >>, NEW v
  PROVE  Meaning(g, v) <=> Holds(g[1], v)
<1>1. PICK x \in {c1, c2} \X Int : g = << Condition(x[1], x[2]) >>
  BY DEF OneOf
<1> DEFINE c == Condition(x[1], x[2])
<1> HIDE DEF c
<1>2. g = << c >> /\ g[1] = c
  BY <1>1 DEF c
<1> QED BY <1>2, MeaningOfFew

LEMMA IntervalIs ==
  ASSUME NEW lst, NEW g, NEW l, NEW q, Parts(lst, g, l, q), NEW min \in Int, NEW max \in Int
  PROVE  LET r == Interval(lst, min, max)
         IN /\ r.min = (IF g # << >> THEN g[1].value ELSE min) /\ r.min \in Int
            /\ r.max = (IF l # << >> THEN l[1].value ELSE max) /\ r.max \in Int
            /\ r.signMin \in BOOLEAN /\ r.signMax \in BOOLEAN
            /\ r.signMin => g # << >>
            /\ r.signMax => l # << >>
            /\ r.excluded = NotList(q)
            /\ \A v \in Int : ~Below(r, v) <=> IF g # << >> THEN Meaning(g, v) ELSE v > min
            /\ \A v \in Int : ~Above(r, v) <=> IF l # << >> THEN Meaning(l, v) ELSE v < max
<1> DEFINE n == NotList(q)
           rest == l \o n
           r == Interval(lst, min, max)
<1>1. /\ g \in OneOf({"GT", "GE"}) /\ l \in OneOf({"LT", "LE"}) /\ q \in Seq(Int) /\ Rising(q)
  BY DEF Parts
<1>2. /\ lst = g \o rest /\ rest \in Seq(CondType) /\ n \in Seq(CondType)
      /\ ~StartsWith(n, {"LT", "LE"}) /\ ~StartsWith(rest, {"GT", "GE"})
  <2>1. ~StartsWith(n, {"GT", "GE", "LT", "LE", "EQ"}) /\ ~StartsWith(rest, {"GT", "GE", "EQ"})
    BY StartsIs
  <2> QED BY <2>1, StartsIs DEF StartsWith
<1>4. "LT" \in Conds /\ "LE" \in Conds /\ "GT" \in Conds /\ "GE" \in Conds
  BY DEF Conds
<1> HIDE DEF n
<1>5. /\ Past(rest, {"LT", "LE"}) = n
      /\ l = << >> => rest = n
      /\ l # << >> => rest # << >> /\ Head(rest) = l[1] /\ l[1] \in CondType /\ l[1].cond \in {"LT", "LE"}
  BY <1>1, <1>2, UpperStage
<1> HIDE DEF rest
<1>6. /\ Past(lst, {"GT", "GE"}) = rest
      /\ g = << >> => lst = rest
      /\ g # << >> => lst # << >> /\ Head(lst) = g[1] /\ g[1] \in CondType /\ g[1].cond \in {"GT", "GE"}
  BY <1>1, <1>2, LowerStage
<1>7. /\ StartsWith(lst, {"GT", "GE"}) <=> g # << >>
      /\ StartsWith(lst, {"GE"}) <=> g # << >> /\ g[1].cond = "GE"
  BY <1>2, <1>6 DEF StartsWith
<1>8. /\ StartsWith(rest, {"LT", "LE"}) <=> l # << >>
      /\ StartsWith(rest, {"LE"}) <=> l # << >> /\ l[1].cond = "LE"
  BY <1>2, <1>5 DEF StartsWith
<1> DEFINE lo == IF g # << >> THEN g[1].value ELSE min
           hi == IF l # << >> THEN l[1].value ELSE max
           signLo == StartsWith(lst, {"GE"})
           signHi == StartsWith(rest, {"LE"})
<1>9. signLo \in BOOLEAN /\ signHi \in BOOLEAN
  BY DEF StartsWith
<1>10. lo \in Int /\ hi \in Int
  BY <1>5, <1>6 DEF CondType
<1>11. r = [min |-> lo, max |-> hi, signMin |-> signLo, signMax |-> signHi, excluded |-> n]
  BY <1>5, <1>6, <1>7, <1>8 DEF Interval
<1> HIDE DEF r
<1>12. r.min = lo /\ r.max = hi /\ r.signMin = signLo /\ r.signMax = signHi /\ r.excluded = n
  BY <1>11
<1>13. ASSUME NEW v \in Int PROVE ~Below(r, v) <=> IF g # << >> THEN Meaning(g, v) ELSE v > min
  <2>0. Below(r, v) <=> v < lo \/ (v = lo /\ ~signLo)
    BY <1>12 DEF Below
  <2>1. CASE g = << >>
    BY <1>7, <2>0, <2>1
  <2>2. CASE g # << >>
    <3>1. Meaning(g, v) <=> Holds(g[1], v)
      BY <1>1, <1>4, <2>2, BoundHolds
    <3>2. lo = g[1].value /\ (signLo <=> g[1].cond = "GE")
      BY <1>7, <2>2
    <3> HIDE DEF lo, signLo
    <3>3. CASE g[1].cond = "GE"
      <4>1. Holds(g[1], v) <=> v >= g[1].value
        BY <3>3, HoldsIs
      <4> QED BY <1>10, <2>0, <2>2, <3>1, <3>2, <3>3, <4>1
    <3>4. CASE g[1].cond = "GT"
      <4>1. Holds(g[1], v) <=> v > g[1].value
        BY <3>4, HoldsIs
      <4> QED BY <1>10, <2>0, <2>2, <3>1, <3>2, <3>4, <4>1
    <3> QED BY <1>6, <2>2, <3>3, <3>4
  <2> QED BY <2>1, <2>2
<1>14. ASSUME NEW v \in Int PROVE ~Above(r, v) <=> IF l # << >> THEN Meaning(l, v) ELSE v < max
  <2>0. Above(r, v) <=> v > hi \/ (v = hi /\ ~signHi)
    BY <1>12 DEF Above
  <2>1. CASE l = << >>
    BY <1>8, <2>0, <2>1
  <2>2. CASE l # << >>
    <3>1. Meaning(l, v) <=> Holds(l[1], v)
      BY <1>1, <1>4, <2>2, BoundHolds
    <3>2. hi = l[1].value /\ (signHi <=> l[1].cond = "LE")
      BY <1>8, <2>2
    <3> HIDE DEF hi, signHi
    <3>3. CASE l[1].cond = "LE"
      <4>1. Holds(l[1], v) <=> v <= l[1].value
        BY <3>3, HoldsIs
      <4> QED BY <1>10, <2>0, <2>2, <3>1, <3>2, <3>3, <4>1
    <3>4. CASE l[1].cond = "LT"
      <4>1. Holds(l[1], v) <=> v < l[1].value
        BY <3>4, HoldsIs
      <4> QED BY <1>10, <2>0, <2>2, <3>1, <3>2, <3>4, <4>1
    <3> QED BY <1>5, <2>2, <3>3, <3>4
  <2> QED BY <2>1, <2>2
<1>15. signLo => g # << >>
  BY <1>7
<1>16. signHi => l # << >>
  BY <1>8
<1> HIDE DEF signLo, signHi
<1> QED BY <1>9, <1>10, <1>12, <1>13, <1>14, <1>15, <1>16 DEF r, n

LEMMA AdmitsEqual ==
  ASSUME NEW x \in Int, NEW v
  PROVE  /\ StartsWith(<< Condition("EQ", x) >>, {"EQ"})
         /\ Head(<< Condition("EQ", x) >>).value = x
         /\ Admits(<< Condition("EQ", x) >>, v) <=> v = x
         /\ Meaning(<< Condition("EQ", x) >>, v) <=> v = x
<1> DEFINE c == Condition("EQ", x)
<1>1. c \in CondType /\ c.cond = "EQ" /\ c.value = x
  BY ConditionTyped DEF Conds
<1> HIDE DEF c
<1>2. << c >> # << >> /\ Head(<< c >>) = c
  OBVIOUS
<1>3. StartsWith(<< c >>, {"EQ"})
  BY <1>1, <1>2 DEF StartsWith
<1>4. Admits(<< c >>, v) <=> v = x
  BY <1>1, <1>2, <1>3 DEF Admits
<1>5. Meaning(<< c >>, v) <=> v = x
  BY <1>1, MeaningOfFew, HoldsIs
<1> QED BY <1>1, <1>2, <1>3, <1>4, <1>5 DEF c

(* Such a list lets through what its conditions mean.                          *)
LEMMA AdmitsForm ==
  ASSUME NEW col, NEW lst \in Seq(CondType), Form(col, lst), NEW v \in Int,
         ~(Len(lst) = 2 /\ lst[2].cond = "EQ")
  PROVE  Admits(lst, v) <=> Meaning(lst, v)
<1>1. CASE InOrder(lst)
  <2>1. PICK g, l, q : Parts(lst, g, l, q)
    BY <1>1 DEF InOrder, Parts
  <2>2. /\ lst = g \o (l \o NotList(q)) /\ l \o NotList(q) \in Seq(CondType) /\ NotList(q) \in Seq(CondType)
        /\ g \in Seq(CondType) /\ l \in Seq(CondType)
    BY <2>1, StartsIs
  <2>3. Admits(lst, v) <=> Meaning(g, v) /\ Meaning(l, v) /\ v \notin Vals(q)
    BY <2>1, AdmitsInOrder
  <2>4. Meaning(NotList(q), v) <=> v \notin Vals(q)
    <3>1. q \in Seq(Int)
      BY <2>1 DEF Parts
    <3>2. Meaning(NotList(q), v) <=> \A j \in 1 .. Len(q) : q[j] # v
      BY <3>1, NotListIs
    <3>3. v \in Vals(q) <=> \E j \in DOMAIN q : v = q[j]
      BY DEF Vals
    <3>4. DOMAIN q = 1 .. Len(q)
      BY <3>1
    <3> QED BY <3>2, <3>3, <3>4
  <2> DEFINE r == l \o NotList(q)
  <2>5. Meaning(r, v) <=> Meaning(l, v) /\ Meaning(NotList(q), v)
    BY <2>2, MeaningConcat
  <2> HIDE DEF r
  <2>6. Meaning(g \o r, v) <=> Meaning(g, v) /\ Meaning(r, v)
    BY <2>2, MeaningConcat DEF r
  <2> QED BY <2>2, <2>3, <2>4, <2>5, <2>6 DEF r
<1>2. CASE OneEqual(lst)
  BY <1>2, AdmitsEqual DEF OneEqual
<1>3. CASE LowerAndEqual(lst)
  <2>1. PICK x \in Int : lst = << Condition("GE", x), Condition("EQ", x) >>
    BY <1>3 DEF LowerAndEqual
  <2> DEFINE c == Condition("EQ", x)
  <2>2. c.cond = "EQ"
    BY DEF Condition
  <2> HIDE DEF c
  <2>3. Len(lst) = 2 /\ lst[2] = c
    BY <2>1 DEF c
  <2> QED BY <2>2, <2>3
<1> QED BY <1>1, <1>2, <1>3 DEF Form

-------------------------------------------------------------------------------
(* LoginovaIrene, one column: what is in force between two requests.           *)
Sat(col, conds) == {v \in Named(col) : Meaning(conds, v)}

Agrees(col, conds, ans, may, exc) ==
  /\ col \in Columns /\ conds \in Seq(CondType) /\ exc \in BOOLEAN
  /\ ans # "counter" =>
       /\ ~(col = "name" /\ exc) => Sat(col, conds) = may
       /\ col = "name" => Sat(col, conds) \subseteq may
       /\ col = "name" /\ ~exc => ~Excludes(conds)
  /\ ans = "counter" => ~Excludes(conds) /\ (~(col = "name" /\ exc) => may = {})
  /\ ans = "ok" => Form(col, conds)

LEMMA NamedWithin ==
  ASSUME NEW col
  PROVE  Named(col) \subseteq Within(col) /\ Named(col) \subseteq Int
<1>1. Compared \subseteq Lowest .. Highest /\ Lowest \in Int /\ Highest \in Int
  BY ComparedAssumption, BoundsAssumption
<1>2. CASE col = "name"
  <2>1. Named(col) = Compared \ {Lowest, Highest}
    BY <1>2 DEF Named
  <2>2. ASSUME NEW v \in Compared \ {Lowest, Highest} PROVE v \in (Lowest + 1) .. (Highest - 1)
    BY <1>1
  <2>3. Within(col) = (Lowest + 1) .. (Highest - 1)
    BY <1>2 DEF Within
  <2>4. \A v \in (Lowest + 1) .. (Highest - 1) : v \in Int
    OBVIOUS
  <2>5. \A v \in Named(col) : v \in Within(col) /\ v \in Int
    BY <2>1, <2>2, <2>3, <2>4
  <2> QED BY <2>5
<1>3. CASE col # "name"
  BY <1>1, <1>3 DEF Named, Within, Between
<1> QED BY <1>2, <1>3

LEMMA ConcatHas ==
  ASSUME NEW s \in Seq(CondType), NEW t \in Seq(CondType), NEW i \in DOMAIN (s \o t)
  PROVE  (\E k \in DOMAIN s : (s \o t)[i] = s[k]) \/ (\E k \in DOMAIN t : (s \o t)[i] = t[k])
<1>1. /\ s \o t \in Seq(CondType) /\ Len(s \o t) = Len(s) + Len(t)
      /\ \A k \in 1 .. Len(s) + Len(t) : (s \o t)[k] = IF k <= Len(s) THEN s[k] ELSE t[k - Len(s)]
  BY ConcatProperties
<1>2. Len(s) \in Nat /\ Len(t) \in Nat /\ DOMAIN s = 1 .. Len(s) /\ DOMAIN t = 1 .. Len(t)
      /\ i \in 1 .. Len(s) + Len(t)
  BY <1>1
<1>3. CASE i <= Len(s)
  <2>1. i \in 1 .. Len(s) /\ (s \o t)[i] = s[i]
    BY <1>1, <1>2, <1>3
  <2> QED BY <1>2, <2>1
<1>4. CASE ~(i <= Len(s))
  <2>1. i - Len(s) \in 1 .. Len(t) /\ (s \o t)[i] = t[i - Len(s)]
    BY <1>1, <1>2, <1>4
  <2> QED BY <1>2, <2>1
<1> QED BY <1>3, <1>4

LEMMA PartsEqualNone ==
  ASSUME NEW lst, NEW g, NEW l, NEW q, Parts(lst, g, l, q), NEW i \in DOMAIN lst
  PROVE  lst[i].cond # "EQ"
<1> DEFINE n == NotList(q)
           r == l \o n
<1>1. /\ lst = g \o r /\ r \in Seq(CondType) /\ n \in Seq(CondType)
      /\ g \in Seq(CondType) /\ l \in Seq(CondType)
  BY StartsIs
<1>2. /\ g \in OneOf({"GT", "GE"}) /\ l \in OneOf({"LT", "LE"}) /\ q \in Seq(Int)
  BY DEF Parts
<1>3. ASSUME NEW c1 \in Conds \ {"EQ"}, NEW c2 \in Conds \ {"EQ"}, NEW m \in OneOf({c1, c2}), NEW k \in DOMAIN m
      PROVE  m[k].cond # "EQ"
  <2>1. m # << >>
    BY <1>3
  <2>2. PICK x \in {c1, c2} \X Int : m = << Condition(x[1], x[2]) >>
    BY <1>3, <2>1 DEF OneOf
  <2> DEFINE c == Condition(x[1], x[2])
  <2>3. c.cond # "EQ"
    BY DEF Condition
  <2> HIDE DEF c
  <2>4. m = << c >>
    BY <2>2 DEF c
  <2> QED BY <2>3, <2>4
<1>4. {"GT", "GE", "LT", "LE"} \subseteq Conds \ {"EQ"}
  BY DEF Conds
<1>5. /\ \A k \in DOMAIN g : g[k].cond # "EQ"
      /\ \A k \in DOMAIN l : l[k].cond # "EQ"
  BY <1>2, <1>3, <1>4, Zenon
<1>6. \A k \in DOMAIN n : n[k].cond # "EQ"
  BY <1>2, NotListIs
<1> HIDE DEF n
<1>7. \A k \in DOMAIN r : r[k].cond # "EQ"
  BY <1>1, <1>5, <1>6, ConcatHas
<1> HIDE DEF r
<1> QED BY <1>1, <1>5, <1>7, ConcatHas

LEMMA ExcludesConcat ==
  ASSUME NEW s \in Seq(CondType), NEW t \in Seq(CondType), Excludes(s \o t)
  PROVE  Excludes(s) \/ Excludes(t)
BY ConcatHas DEF Excludes

(* The conditions of a request join those in force.                            *)
LEMMA JoinsForce ==
  ASSUME NEW col, NEW lst, NEW ans, NEW may, NEW exc, Agrees(col, lst, ans, may, exc),
         NEW conds \in Seq(CondType),
         NEW may2, may2 = Sat(col, conds) \cap (IF ans = "counter" THEN Sat(col, lst) ELSE may),
         NEW exc2, exc2 = (Excludes(conds) \/ (ans # "counter" /\ exc))
  PROVE  /\ conds \o lst \in Seq(CondType) /\ exc2 \in BOOLEAN
         /\ ~(col = "name" /\ exc2) => Sat(col, conds \o lst) = may2
         /\ col = "name" => Sat(col, conds \o lst) \subseteq may2
         /\ col = "name" /\ ~exc2 => ~Excludes(conds \o lst)
<1>1. lst \in Seq(CondType)
  BY DEF Agrees
<1>2. conds \o lst \in Seq(CondType)
  BY <1>1
<1>3. Excludes(conds) \in BOOLEAN
  BY DEF Excludes
<1>4. exc2 \in BOOLEAN
  BY <1>3 DEF Agrees
<1>5. Sat(col, conds \o lst) = Sat(col, conds) \cap Sat(col, lst)
  <2>1. \A v : Meaning(conds \o lst, v) <=> Meaning(conds, v) /\ Meaning(lst, v)
    BY <1>1, MeaningConcat
  <2> QED BY <2>1 DEF Sat
<1>6. Excludes(conds \o lst) => Excludes(conds) \/ Excludes(lst)
  BY <1>1, ExcludesConcat
<1> DEFINE full == conds \o lst
<1> HIDE DEF full
<1>7. CASE ans = "counter"
  <2>1. ~Excludes(lst)
    BY <1>7 DEF Agrees
  <2>2. may2 = Sat(col, full)
    BY <1>5, <1>7 DEF full
  <2> QED BY <1>2, <1>4, <1>6, <1>7, <2>1, <2>2 DEF full
<1>8. CASE ans # "counter"
  <2>1. may2 = Sat(col, conds) \cap may /\ (exc2 <=> Excludes(conds) \/ exc)
    BY <1>8
  <2>2. /\ ~(col = "name" /\ exc) => Sat(col, lst) = may
        /\ col = "name" => Sat(col, lst) \subseteq may
        /\ col = "name" /\ ~exc => ~Excludes(lst)
    BY <1>8 DEF Agrees
  <2> QED BY <1>2, <1>4, <1>5, <1>6, <2>1, <2>2
<1> QED BY <1>7, <1>8

LEMMA SortKeeps ==
  ASSUME NEW col \in Columns, NEW full \in Seq(CondType), NEW may2, NEW exc2 \in BOOLEAN,
         ~(col = "name" /\ exc2) => Sat(col, full) = may2,
         col = "name" => Sat(col, full) \subseteq may2,
         col = "name" /\ ~exc2 => ~Excludes(full)
  PROVE  Agrees(col, Sort(col, full).list, IF Sort(col, full).ok THEN "ok" ELSE "counter", may2, exc2)
<1> DEFINE C == {full[i] : i \in DOMAIN full}
           s == Sort(col, full)
<1>1. C \in SUBSET CondType /\ full \in Seq(C)
  <2>1. DOMAIN full = 1 .. Len(full) /\ Len(full) \in Nat /\ \A i \in 1 .. Len(full) : full[i] \in CondType
    OBVIOUS
  <2>2. full = [i \in 1 .. Len(full) |-> full[i]]
    OBVIOUS
  <2>3. \A i \in 1 .. Len(full) : full[i] \in C
    BY <2>1
  <2> HIDE DEF C
  <2>4. full \in Seq(C)
    BY <2>1, <2>2, <2>3
  <2> QED BY <2>1, <2>4 DEF C
<1>2. Excludes(full) <=> \E c \in C : c.cond = "NE"
  BY DEF Excludes
<1> HIDE DEF C
<1>3. /\ s.list \in Seq(CondType) /\ s.ok \in BOOLEAN
      /\ s.ok => Form(col, s.list)
      /\ ~s.ok => s.list = << >> \/ OneEqual(s.list)
      /\ \A v \in Within(col) : s.ok /\ Meaning(s.list, v) => Meaning(full, v)
      /\ col # "name" \/ (\A c \in C : c.cond # "NE") =>
           \A v \in Within(col) : Meaning(full, v) => s.ok /\ Meaning(s.list, v)
      /\ \A i \in DOMAIN s.list :
           \E c \in C : s.list[i].value = c.value /\ (s.list[i].cond = "NE" => c.cond = "NE")
  BY <1>1, SortIs
<1>4. Named(col) \subseteq Within(col)
  BY NamedWithin
<1> HIDE DEF s
<1>5. s.ok => Sat(col, s.list) \subseteq Sat(col, full)
  BY <1>3, <1>4 DEF Sat
<1>6. ASSUME ~(col = "name" /\ exc2)
      PROVE  (s.ok => Sat(col, s.list) = may2) /\ (~s.ok => may2 = {})
  <2>1. col # "name" \/ \A c \in C : c.cond # "NE"
    BY <1>2, <1>6
  <2>2. \A v \in Named(col) : Meaning(full, v) => s.ok /\ Meaning(s.list, v)
    BY <1>3, <1>4, <2>1
  <2>3. Sat(col, full) = may2
    BY <1>6
  <2> QED BY <1>5, <2>2, <2>3 DEF Sat
<1>7. col = "name" /\ ~exc2 => ~Excludes(s.list)
  BY <1>2, <1>3 DEF Excludes
<1>8. ~s.ok => ~Excludes(s.list)
  <2> SUFFICES ASSUME ~s.ok, NEW i \in DOMAIN s.list PROVE s.list[i].cond # "NE"
    BY DEF Excludes
  <2>1. CASE s.list = << >>
    BY <2>1
  <2>2. CASE OneEqual(s.list)
    <3>1. PICK x \in Int : s.list = << Condition("EQ", x) >>
      BY <2>2 DEF OneEqual
    <3> DEFINE c == Condition("EQ", x)
    <3>2. c.cond = "EQ"
      BY DEF Condition
    <3> HIDE DEF c
    <3>3. s.list[i] = c
      BY <3>1 DEF c
    <3> QED BY <3>2, <3>3
  <2> QED BY <1>3, <2>1, <2>2
<1>9. CASE s.ok
  <2>1. Agrees(col, s.list, "ok", may2, exc2)
    BY <1>3, <1>5, <1>6, <1>7, <1>9 DEF Agrees
  <2> QED BY <1>9, <2>1 DEF s
<1>10. CASE ~s.ok
  <2>1. Agrees(col, s.list, "counter", may2, exc2)
    BY <1>3, <1>6, <1>8, <1>10 DEF Agrees
  <2> QED BY <1>10, <2>1 DEF s
<1> QED BY <1>3, <1>9, <1>10

ComandInv == Agrees(column, list, answer, allowed, excluding)

LEMMA ComandInitInv == ComandInit => ComandInv
<1> SUFFICES ASSUME ComandInit PROVE ComandInv
  OBVIOUS
<1>1. column \in Columns /\ list = << >> /\ answer = "none" /\ allowed = Named(column) /\ excluding = FALSE
  BY DEF ComandInit
<1>2. << >> \in Seq(CondType) /\ DOMAIN << >> = {}
  OBVIOUS
<1>3. ~Excludes(<< >>)
  BY <1>2 DEF Excludes
<1>4. Sat(column, << >>) = Named(column)
  BY MeaningOfFew DEF Sat
<1> QED BY <1>1, <1>2, <1>3, <1>4 DEF ComandInv, Agrees

LEMMA ConditionsTyped ==
  /\ \A c \in ConditionOf(column) : << c >> \in Seq(CondType)
  /\ \A conds \in Requests : conds \in Seq(CondType)
<1>1. \A c \in ConditionOf(column) : c \in CondType
  BY NamedWithin DEF ConditionOf, CondType
<1>2. \A c \in CondType : << c >> \in Seq(CondType)
  OBVIOUS
<1>3. << >> \in Seq(CondType)
  OBVIOUS
<1> QED BY <1>1, <1>2, <1>3, Zenon DEF Requests

LEMMA ComandStepInv == ComandInv /\ [ComandNext]_comandVars => ComandInv'
<1> SUFFICES ASSUME ComandInv, [ComandNext]_comandVars PROVE ComandInv'
  OBVIOUS
<1>1. Agrees(column, list, answer, allowed, excluding) /\ column \in Columns /\ list \in Seq(CondType)
  BY DEF ComandInv, Agrees
<1>2. ASSUME NEW conds \in Seq(CondType), Give(conds)
      PROVE  /\ conds \o list \in Seq(CondType) /\ excluding' \in BOOLEAN
             /\ ~(column = "name" /\ excluding') => Sat(column, conds \o list) = allowed'
             /\ column = "name" => Sat(column, conds \o list) \subseteq allowed'
             /\ column = "name" /\ ~excluding' => ~Excludes(conds \o list)
  <2>1. /\ allowed' = Sat(column, conds) \cap (IF answer = "counter" THEN Sat(column, list) ELSE allowed)
        /\ excluding' = (Excludes(conds) \/ (answer # "counter" /\ excluding))
    BY <1>2 DEF Give, Satisfying, Sat
  <2> QED BY <1>1, <2>1, JoinsForce
<1>3. ASSUME NEW conds \in Requests, AnalyzeColumn(conds) PROVE ComandInv'
  <2>1. conds \in Seq(CondType)
    BY ConditionsTyped
  <2>2. /\ Give(conds) /\ column' = column
        /\ list' = Sort(column, conds \o list).list
        /\ answer' = IF Sort(column, conds \o list).ok THEN "ok" ELSE "counter"
    BY <1>3 DEF AnalyzeColumn
  <2> DEFINE full == conds \o list
  <2>3. /\ full \in Seq(CondType) /\ excluding' \in BOOLEAN
        /\ ~(column = "name" /\ excluding') => Sat(column, full) = allowed'
        /\ column = "name" => Sat(column, full) \subseteq allowed'
        /\ column = "name" /\ ~excluding' => ~Excludes(full)
    BY <1>2, <2>1, <2>2
  <2>4. list' = Sort(column, full).list /\ answer' = IF Sort(column, full).ok THEN "ok" ELSE "counter"
    BY <2>2
  <2> HIDE DEF full
  <2>5. Agrees(column, list', answer', allowed', excluding')
    BY <1>1, <2>3, <2>4, SortKeeps
  <2> QED BY <2>2, <2>5 DEF ComandInv, Agrees, Sat, Form
<1>4. ASSUME NEW conds \in Requests, Fault(conds) PROVE ComandInv'
  <2>1. UNCHANGED << column, list, answer, allowed, excluding >>
    BY <1>4 DEF Fault
  <2> QED BY <2>1 DEF ComandInv, Agrees, Sat
<1>5. ASSUME NEW c \in ConditionOf(column), MalformedColumn(c) PROVE ComandInv'
  <2>1. << c >> \in Seq(CondType)
    BY ConditionsTyped
  <2>2. Give(<< c >>) /\ column' = column /\ list' = << c >> \o list /\ answer' = "malformed"
    BY <1>5 DEF MalformedColumn
  <2>3. /\ list' \in Seq(CondType) /\ excluding' \in BOOLEAN
        /\ ~(column = "name" /\ excluding') => Sat(column, list') = allowed'
        /\ column = "name" => Sat(column, list') \subseteq allowed'
        /\ column = "name" /\ ~excluding' => ~Excludes(list')
    BY <1>2, <2>1, <2>2
  <2>4. Agrees(column, list', answer', allowed', excluding')
    BY <1>1, <2>2, <2>3 DEF Agrees
  <2> QED BY <2>2, <2>4 DEF ComandInv, Agrees, Sat
<1>6. CASE UNCHANGED comandVars
  BY <1>6 DEF comandVars, ComandInv, Agrees, Sat
<1>7. CASE ComandNext
  BY <1>3, <1>4, <1>5, <1>7 DEF ComandNext
<1> QED BY <1>6, <1>7

LEMMA ComandInvMeans == ComandInv => KeepsMeaning
<1> SUFFICES ASSUME ComandInv PROVE KeepsMeaning
  OBVIOUS
<1>1. /\ column \in Columns /\ list \in Seq(CondType)
      /\ answer # "counter" =>
           /\ ~(column = "name" /\ excluding) => Sat(column, list) = allowed
           /\ column = "name" => Sat(column, list) \subseteq allowed
      /\ answer = "counter" => (~(column = "name" /\ excluding) => allowed = {})
      /\ answer = "ok" => Form(column, list)
  BY DEF ComandInv, Agrees
<1>2. ASSUME answer = "ok", ~BothBoundsKept PROVE Admitted = Sat(column, list)
  <2>1. \A v \in Named(column) : Admits(list, v) <=> Meaning(list, v)
    BY <1>1, <1>2, AdmitsForm, NamedWithin DEF BothBoundsKept
  <2> QED BY <2>1 DEF Admitted, Sat
<1>3. ASSUME answer = "ok", column = "name" PROVE ~BothBoundsKept
  <2> SUFFICES ASSUME Len(list) = 2, list[2].cond = "EQ" PROVE FALSE
    BY DEF BothBoundsKept
  <2>1. CASE InOrder(list)
    <3>1. PICK g, l, q : Parts(list, g, l, q)
      BY <2>1 DEF InOrder, Parts
    <3>2. \A i \in DOMAIN list : list[i].cond # "EQ"
      BY <3>1, PartsEqualNone
    <3> QED BY <1>1, <3>2
  <2>2. CASE OneEqual(list)
    <3>1. PICK x \in Int : list = << Condition("EQ", x) >>
      BY <2>2 DEF OneEqual
    <3> QED BY <3>1
  <2> QED BY <1>1, <1>3, <2>1, <2>2 DEF Form
<1> QED BY <1>1, <1>2, <1>3 DEF KeepsMeaning

(* A request that is answered leaves a list that admits what satisfies every   *)
(* condition in force, and no more: merging, cutting and reordering the        *)
(* conditions lose nothing, whatever the bounds, the values and the requests,  *)
(* and a request refused as contradictory has contradicted those in force.     *)
THEOREM ComandKeepsMeaning == ComandSpec => []KeepsMeaning
<1>1. ComandInv /\ [ComandNext]_comandVars => ComandInv'
  BY ComandStepInv
<1> QED BY <1>1, ComandInitInv, ComandInvMeans, PTL DEF ComandSpec

-------------------------------------------------------------------------------
(* LoginovaIrene, the tree of a group: a name is looked for along one path.    *)
Paths == Seq({"left", "right"})

Upto(p, k) == SubSeq(p, 1, k)

Follows(tree, s, p) ==
  \A k \in 1 .. Len(p) :
    LET above == Upto(p, k - 1)
    IN above \in DOMAIN tree /\ tree[above].name # s.name /\ p[k] = Side(s, tree[above])

Ends(tree, s, p) == p \notin DOMAIN tree \/ tree[p].name = s.name

TreeSet == UNION {[P -> Pupil] : P \in SUBSET Paths}

GoodTree(tree) ==
  /\ tree \in TreeSet /\ IsFiniteSet(DOMAIN tree)
  /\ \A p \in DOMAIN tree : Follows(tree, tree[p], p)

LEMMA PupilTyped ==
  /\ Pupil \subseteq [name : Int, rating : Int, group : 100 .. 699]
  /\ \A s \in Pupil : s.name \in Int /\ s.rating \in Int /\ s.group \in 100 .. 699 /\ s.group \in Int
                      /\ Lowest < s.name /\ s.name < Highest
<1>1. Lowest \in Int /\ Highest \in Int /\ \A v \in (Lowest + 1) .. (Highest - 1) : v \in Int /\ Lowest < v /\ v < Highest
  BY BoundsAssumption
<1>2. ASSUME NEW s \in Pupil
      PROVE  /\ s \in [name : Int, rating : Int, group : 100 .. 699]
             /\ s.name \in Int /\ s.rating \in Int /\ s.group \in 100 .. 699 /\ s.group \in Int
             /\ Lowest < s.name /\ s.name < Highest
  <2>1. s \in [name : (Lowest + 1) .. (Highest - 1), rating : Int, group : 100 .. 699]
    BY PupilAssumption
  <2>2. s.name \in (Lowest + 1) .. (Highest - 1) /\ s.rating \in Int /\ s.group \in 100 .. 699
        /\ s = [name |-> s.name, rating |-> s.rating, group |-> s.group]
    BY <2>1
  <2>3. s.name \in Int /\ Lowest < s.name /\ s.name < Highest
    BY <1>1, <2>2
  <2> QED BY <2>2, <2>3
<1> QED BY <1>2

LEMMA TreeTyped ==
  ASSUME NEW tree, GoodTree(tree)
  PROVE  /\ DOMAIN tree \in SUBSET Paths /\ tree \in [DOMAIN tree -> Pupil]
         /\ \A p \in DOMAIN tree : tree[p] \in Pupil /\ tree[p].name \in Int /\ p \in Paths
         /\ IsFiniteSet(DOMAIN tree) /\ Cardinality(DOMAIN tree) \in Nat
<1>1. PICK P \in SUBSET Paths : tree \in [P -> Pupil]
  BY DEF GoodTree, TreeSet
<1>2. DOMAIN tree = P
  BY <1>1
<1>3. IsFiniteSet(DOMAIN tree) /\ Cardinality(DOMAIN tree) \in Nat
  BY FS_CardinalityType DEF GoodTree
<1> QED BY <1>1, <1>2, <1>3, PupilTyped

LEMMA PathFacts ==
  ASSUME NEW p \in Paths
  PROVE  /\ Len(p) \in Nat /\ DOMAIN p = 1 .. Len(p) /\ \A k \in 1 .. Len(p) : p[k] \in {"left", "right"}
         /\ \A k \in 0 .. Len(p) : /\ Upto(p, k) \in Paths /\ Len(Upto(p, k)) = k
                                   /\ \A i \in 1 .. k : Upto(p, k)[i] = p[i]
         /\ Upto(p, Len(p)) = p
         /\ \A k \in 0 .. Len(p) : \A j \in 0 .. k : Upto(Upto(p, k), j) = Upto(p, j)
         /\ \A side \in {"left", "right"} :
              /\ Append(p, side) \in Paths /\ Len(Append(p, side)) = Len(p) + 1
              /\ Append(p, side)[Len(p) + 1] = side /\ \A i \in 1 .. Len(p) : Append(p, side)[i] = p[i]
              /\ \A k \in 0 .. Len(p) : Upto(Append(p, side), k) = Upto(p, k)
<1>1. /\ Len(p) \in Nat /\ DOMAIN p = 1 .. Len(p) /\ \A k \in 1 .. Len(p) : p[k] \in {"left", "right"}
  BY DEF Paths
<1>2. ASSUME NEW q \in Paths, NEW k \in 0 .. Len(q)
      PROVE  Upto(q, k) \in Paths /\ Len(Upto(q, k)) = k /\ \A i \in 1 .. k : Upto(q, k)[i] = q[i]
  BY DEF Paths, Upto
<1>3. ASSUME NEW q \in Paths, NEW r \in Paths, NEW k \in 0 .. Len(q), k <= Len(r), \A i \in 1 .. k : q[i] = r[i]
      PROVE  Upto(q, k) = Upto(r, k)
  <2>1. Len(q) \in Nat /\ Len(r) \in Nat
    BY DEF Paths
  <2>2. Upto(q, k) = [i \in 1 .. k |-> q[i]] /\ Upto(r, k) = [i \in 1 .. k |-> r[i]]
    BY <1>3, <2>1 DEF Upto, Paths
  <2> QED BY <1>3, <2>2
<1>4. Upto(p, Len(p)) = p
  BY DEF Upto, Paths
<1>5. ASSUME NEW k \in 0 .. Len(p), NEW j \in 0 .. k PROVE Upto(Upto(p, k), j) = Upto(p, j)
  <2>1. Upto(p, k) \in Paths /\ Len(Upto(p, k)) = k /\ \A i \in 1 .. k : Upto(p, k)[i] = p[i]
    BY <1>2
  <2>2. j <= Len(p) /\ j \in 0 .. Len(Upto(p, k)) /\ \A i \in 1 .. j : i \in 1 .. k
    BY <1>1, <2>1
  <2> HIDE DEF Upto
  <2> QED BY <1>3, <2>1, <2>2
<1>6. ASSUME NEW side \in {"left", "right"}
      PROVE  /\ Append(p, side) \in Paths /\ Len(Append(p, side)) = Len(p) + 1
             /\ Append(p, side)[Len(p) + 1] = side /\ \A i \in 1 .. Len(p) : Append(p, side)[i] = p[i]
             /\ \A k \in 0 .. Len(p) : Upto(Append(p, side), k) = Upto(p, k)
  <2>1. /\ Append(p, side) \in Paths /\ Len(Append(p, side)) = Len(p) + 1
        /\ Append(p, side)[Len(p) + 1] = side /\ \A i \in 1 .. Len(p) : Append(p, side)[i] = p[i]
    BY DEF Paths
  <2>2. ASSUME NEW k \in 0 .. Len(p) PROVE Upto(Append(p, side), k) = Upto(p, k)
    <3>1. k \in 0 .. Len(Append(p, side)) /\ k <= Len(p) /\ \A i \in 1 .. k : i \in 1 .. Len(p)
      BY <1>1, <2>1
    <3> QED BY <1>3, <2>1, <3>1
  <2> QED BY <2>1, <2>2
<1> QED BY <1>1, <1>2, <1>4, <1>5, <1>6

LEMMA SideIs ==
  ASSUME NEW s, NEW t
  PROVE  /\ Side(s, t) \in {"left", "right"}
         /\ s.name > t.name => Side(s, t) = "right"
         /\ ~(s.name > t.name) => Side(s, t) = "left"
BY DEF Side

(* tree::add and the search for a name, a step of the walk at a time.          *)
PlaceSoFar(tree, s, f) ==
  [depth \in 0 .. Cardinality(DOMAIN tree) |->
     IF depth = 0 THEN << >>
     ELSE LET path == f[depth - 1]
          IN IF path \notin DOMAIN tree \/ tree[path].name = s.name THEN path
             ELSE Append(path, Side(s, tree[path]))]

LEMMA PlaceRule ==
  ASSUME NEW tree, GoodTree(tree), NEW s
  PROVE  \E f \in [0 .. Cardinality(DOMAIN tree) -> Paths] :
           /\ f[0] = << >> /\ TreePlace(tree, s) = f[Cardinality(DOMAIN tree)]
           /\ \A i \in 1 .. Cardinality(DOMAIN tree) :
                f[i] = IF f[i - 1] \notin DOMAIN tree \/ tree[f[i - 1]].name = s.name THEN f[i - 1]
                       ELSE Append(f[i - 1], Side(s, tree[f[i - 1]]))
<1> DEFINE N == Cardinality(DOMAIN tree)
           W == Paths
           first == << >>
           Step(m, i) == IF m \notin DOMAIN tree \/ tree[m].name = s.name THEN m ELSE Append(m, Side(s, tree[m]))
           step == [x \in (1 .. N) \X W |-> Step(x[2], x[1])]
           F == CHOOSE f : f = PlaceSoFar(tree, s, f)
<1>1. N \in Nat /\ first \in W /\ \A m \in W : \A i \in 1 .. N : Step(m, i) \in W
  <2>1. N \in Nat
    BY TreeTyped
  <2>2. << >> \in Paths
    BY DEF Paths
  <2>3. ASSUME NEW m \in Paths PROVE Append(m, Side(s, tree[m])) \in Paths
    BY PathFacts, SideIs
  <2> QED BY <2>1, <2>2, <2>3
<1>2. TreePlace(tree, s) = F[N]
  BY DEF TreePlace, PlaceSoFar
<1>3. ASSUME NEW f PROVE PlaceSoFar(tree, s, f) = [n \in 0 .. N |-> IF n = 0 THEN first ELSE Step(f[n - 1], n)]
  BY DEF PlaceSoFar
<1> HIDE DEF N, W, F, first, Step
<1>4. step \in [(1 .. N) \X W -> W] /\ \A i \in 1 .. N : \A m \in W : step[<< i, m >>] = Step(m, i)
  BY <1>1
<1> HIDE DEF step
<1>5. PICK g : Defined(g, N, W, first, step)
  BY <1>1, <1>4, Recursion, Zenon
<1>6. g = PlaceSoFar(tree, s, g)
  <2>1. g \in [0 .. N -> W] /\ g[0] = first /\ \A i \in 1 .. N : g[i] = step[<< i, g[i - 1] >>]
    BY <1>5 DEF Defined
  <2>2. \A i \in 1 .. N : g[i] = Step(g[i - 1], i)
    <3> TAKE i \in 1 .. N
    <3>1. i - 1 \in 0 .. N
      BY <1>1
    <3> QED BY <1>4, <2>1, <3>1
  <2>3. \A i \in 0 .. N : g[i] = IF i = 0 THEN first ELSE Step(g[i - 1], i)
    BY <1>1, <2>1, <2>2
  <2> DEFINE G == [n \in 0 .. N |-> IF n = 0 THEN first ELSE Step(g[n - 1], n)]
  <2>4. g = G
    BY <2>1, <2>3
  <2>5. PlaceSoFar(tree, s, g) = G
    BY <1>3
  <2> QED BY <2>4, <2>5
<1>7. F = PlaceSoFar(tree, s, F)
  BY <1>6 DEF F
<1> DEFINE R == [k \in 1 .. N |-> Step(F[k - 1], k)]
<1>8. F = [k \in 0 .. N |-> IF k = 0 THEN first ELSE R[k]]
  <2>1. \A k \in 0 .. N : k # 0 => k \in 1 .. N
    BY <1>1
  <2> QED BY <1>3, <1>7, <2>1
<1>9. \A k \in 1 .. N : F[k - 1] \in W => R[k] = step[<< k, F[k - 1] >>]
  BY <1>4
<1> HIDE DEF R
<1>10. Defined(F, N, W, first, step)
  BY <1>1, <1>4, <1>8, <1>9, RuleFollowed
<1>11. F \in [0 .. N -> W] /\ F[0] = first /\ \A i \in 1 .. N : F[i] = step[<< i, F[i - 1] >>]
  BY <1>10 DEF Defined
<1>12. \A i \in 1 .. N : F[i] = Step(F[i - 1], i)
  <2> TAKE i \in 1 .. N
  <2>1. i - 1 \in 0 .. N
    BY <1>1
  <2> QED BY <1>4, <1>11, <2>1
<1> QED BY <1>2, <1>11, <1>12 DEF N, W, first, Step

LEMMA GoesOn ==
  ASSUME NEW tree, NEW s, NEW p \in Paths, Follows(tree, s, p), p \in DOMAIN tree, tree[p].name # s.name
  PROVE  Append(p, Side(s, tree[p])) \in Paths /\ Follows(tree, s, Append(p, Side(s, tree[p])))
<1> DEFINE side == Side(s, tree[p])
           q == Append(p, side)
<1>0. side \in {"left", "right"}
  BY SideIs
<1> HIDE DEF side
<1>1. /\ q \in Paths /\ Len(q) = Len(p) + 1 /\ q[Len(p) + 1] = side
      /\ \A i \in 1 .. Len(p) : q[i] = p[i]
      /\ \A k \in 0 .. Len(p) : Upto(q, k) = Upto(p, k)
      /\ Len(p) \in Nat /\ Upto(p, Len(p)) = p
  BY <1>0, PathFacts
<1> HIDE DEF q
<1>2. ASSUME NEW k \in 1 .. Len(q)
      PROVE  /\ Upto(q, k - 1) \in DOMAIN tree /\ tree[Upto(q, k - 1)].name # s.name
             /\ q[k] = Side(s, tree[Upto(q, k - 1)])
  <2>1. CASE k = Len(p) + 1
    <3>1. k - 1 = Len(p) /\ Len(p) \in 0 .. Len(p)
      BY <1>1, <2>1
    <3>2. Upto(q, k - 1) = p
      BY <1>1, <3>1
    <3> QED BY <1>1, <2>1, <3>2 DEF side
  <2>2. CASE k # Len(p) + 1
    <3>1. k \in 1 .. Len(p) /\ k - 1 \in 0 .. Len(p)
      BY <1>1, <2>2
    <3>2. Upto(q, k - 1) = Upto(p, k - 1) /\ q[k] = p[k]
      BY <1>1, <3>1
    <3> QED BY <3>1, <3>2 DEF Follows
  <2> QED BY <2>1, <2>2
<1>3. Follows(tree, s, q)
  BY <1>2 DEF Follows
<1> QED BY <1>1, <1>3 DEF q, side

LEMMA AboveIn ==
  ASSUME NEW tree, NEW s, NEW p \in Paths, Follows(tree, s, p), p \in DOMAIN tree
  PROVE  \A k \in 0 .. Len(p) : Upto(p, k) \in DOMAIN tree
<1> TAKE k \in 0 .. Len(p)
<1>1. Len(p) \in Nat /\ Upto(p, Len(p)) = p
  BY PathFacts
<1>2. CASE k = Len(p)
  BY <1>1, <1>2
<1>3. CASE k # Len(p)
  <2>1. k + 1 \in 1 .. Len(p) /\ (k + 1) - 1 = k
    BY <1>1, <1>3
  <2> QED BY <2>1 DEF Follows
<1> QED BY <1>2, <1>3

LEMMA ShortPaths ==
  ASSUME NEW tree, GoodTree(tree), NEW s, NEW p \in Paths, Follows(tree, s, p), p \in DOMAIN tree
  PROVE  Len(p) < Cardinality(DOMAIN tree)
<1> DEFINE n == Len(p)
           h == [k \in 0 .. n |-> Upto(p, k)]
<1>1. n \in Nat /\ \A k \in 0 .. n : Len(Upto(p, k)) = k
  BY PathFacts
<1>2. \A k \in 0 .. n : Upto(p, k) \in DOMAIN tree
  BY AboveIn
<1> HIDE DEF n
<1>3. h \in Injection(0 .. n, DOMAIN tree)
  <2>1. \A k, m \in 0 .. n : h[k] = h[m] => k = m
    <3> TAKE k, m \in 0 .. n
    <3>1. Len(h[k]) = k /\ Len(h[m]) = m
      BY <1>1
    <3> QED BY <3>1
  <2> QED BY <1>2, <2>1 DEF Injection, IsInjective
<1>4. IsFiniteSet(DOMAIN tree) /\ Cardinality(DOMAIN tree) \in Nat
  BY TreeTyped
<1>5. Cardinality(0 .. n) <= Cardinality(DOMAIN tree)
  BY <1>3, <1>4, FS_Injection
<1>6. Cardinality(0 .. n) = n + 1
  BY <1>1, FS_Interval
<1> QED BY <1>1, <1>4, <1>5, <1>6 DEF n

(* The walk ends where the name is, or where it would be.                      *)
LEMMA PlaceIs ==
  ASSUME NEW tree, GoodTree(tree), NEW s
  PROVE  /\ TreePlace(tree, s) \in Paths /\ Follows(tree, s, TreePlace(tree, s))
         /\ Ends(tree, s, TreePlace(tree, s))
<1> DEFINE N == Cardinality(DOMAIN tree)
<1>1. PICK f \in [0 .. N -> Paths] :
           /\ f[0] = << >> /\ TreePlace(tree, s) = f[N]
           /\ \A i \in 1 .. N :
                f[i] = IF f[i - 1] \notin DOMAIN tree \/ tree[f[i - 1]].name = s.name THEN f[i - 1]
                       ELSE Append(f[i - 1], Side(s, tree[f[i - 1]]))
  BY PlaceRule
<1>2. N \in Nat
  BY TreeTyped
<1> HIDE DEF N
<1> DEFINE Good(d) == Follows(tree, s, f[d]) /\ (Ends(tree, s, f[d]) \/ Len(f[d]) = d)
           S == {d \in Nat : d <= N => Good(d)}
<1>3. 0 \in S
  <2>1. Len(<< >>) = 0 /\ Follows(tree, s, << >>)
    BY DEF Follows
  <2> QED BY <1>1, <2>1
<1>4. ASSUME NEW d \in Nat, d \in S PROVE d + 1 \in S
  <2> SUFFICES ASSUME d + 1 <= N PROVE Good(d + 1)
    OBVIOUS
  <2>1. d + 1 \in 1 .. N /\ (d + 1) - 1 = d /\ d \in 0 .. N /\ d <= N
    BY <1>2
  <2> DEFINE p == f[d]
  <2>2. p \in Paths /\ Follows(tree, s, p) /\ (Ends(tree, s, p) \/ Len(p) = d)
    BY <1>1, <1>4, <2>1
  <2>3. f[d + 1] = IF p \notin DOMAIN tree \/ tree[p].name = s.name THEN p ELSE Append(p, Side(s, tree[p]))
    BY <1>1, <2>1
  <2> HIDE DEF p
  <2>4. CASE Ends(tree, s, p)
    <3>1. f[d + 1] = p
      BY <2>3, <2>4 DEF Ends
    <3> QED BY <2>2, <2>4, <3>1
  <2>5. CASE ~Ends(tree, s, p)
    <3>1. f[d + 1] = Append(p, Side(s, tree[p])) /\ p \in DOMAIN tree /\ tree[p].name # s.name
      BY <2>3, <2>5 DEF Ends
    <3>2. Follows(tree, s, f[d + 1])
      BY <2>2, <3>1, GoesOn
    <3>3. Len(f[d + 1]) = Len(p) + 1
      BY <2>2, <3>1, PathFacts, SideIs
    <3> QED BY <2>2, <2>5, <3>2, <3>3
  <2> QED BY <2>4, <2>5
<1> HIDE DEF S
<1>5. N \in S
  BY <1>2, <1>3, <1>4, Induction
<1>6. Good(N) /\ f[N] \in Paths
  BY <1>1, <1>2, <1>5 DEF S
<1>7. Ends(tree, s, f[N])
  <2> SUFFICES ASSUME ~Ends(tree, s, f[N]) PROVE FALSE
    OBVIOUS
  <2>1. f[N] \in DOMAIN tree /\ Len(f[N]) = N
    BY <1>6 DEF Ends
  <2>2. Len(f[N]) < N
    BY <1>6, <2>1, ShortPaths DEF N
  <2> QED BY <1>2, <2>1, <2>2
<1> QED BY <1>1, <1>6, <1>7

(* There is one such place.                                                    *)
LEMMA PlaceUnique ==
  ASSUME NEW tree, NEW s, NEW p \in Paths, Follows(tree, s, p), Ends(tree, s, p),
         NEW q \in Paths, Follows(tree, s, q), Ends(tree, s, q)
  PROVE  p = q
<1>1. /\ Len(p) \in Nat /\ Upto(p, Len(p)) = p /\ Len(q) \in Nat /\ Upto(q, Len(q)) = q
      /\ p = [i \in 1 .. Len(p) |-> p[i]] /\ q = [i \in 1 .. Len(q) |-> q[i]]
  BY PathFacts DEF Paths
<1>2. ASSUME NEW k \in Nat, k <= Len(p), k <= Len(q), \A i \in 1 .. k : p[i] = q[i] PROVE Upto(p, k) = Upto(q, k)
  <2>1. Upto(p, k) = [i \in 1 .. k |-> p[i]] /\ Upto(q, k) = [i \in 1 .. k |-> q[i]]
    BY <1>2 DEF Upto, Paths
  <2> QED BY <1>2, <2>1
<1> DEFINE S == {k \in Nat : k <= Len(p) /\ k <= Len(q) => \A i \in 1 .. k : p[i] = q[i]}
<1>3. 0 \in S
  OBVIOUS
<1>4. ASSUME NEW k \in Nat, k \in S PROVE k + 1 \in S
  <2> SUFFICES ASSUME k + 1 <= Len(p), k + 1 <= Len(q), NEW i \in 1 .. k + 1 PROVE p[i] = q[i]
    OBVIOUS
  <2>1. k <= Len(p) /\ k <= Len(q) /\ \A j \in 1 .. k : p[j] = q[j]
    BY <1>1, <1>4
  <2>2. Upto(p, k) = Upto(q, k)
    BY <1>2, <2>1
  <2>3. k + 1 \in 1 .. Len(p) /\ k + 1 \in 1 .. Len(q) /\ (k + 1) - 1 = k
    BY <1>1
  <2>4. p[k + 1] = Side(s, tree[Upto(p, k)]) /\ q[k + 1] = Side(s, tree[Upto(q, k)])
    BY <2>3 DEF Follows
  <2>5. i \in 1 .. k \/ i = k + 1
    OBVIOUS
  <2> QED BY <2>1, <2>2, <2>4, <2>5
<1> HIDE DEF S
<1>5. \A k \in Nat : k \in S
  BY <1>3, <1>4, Induction
<1>6. \A k \in Nat : k <= Len(p) /\ k <= Len(q) => Upto(p, k) = Upto(q, k) /\ \A i \in 1 .. k : p[i] = q[i]
  BY <1>2, <1>5 DEF S
<1>7. ~(Len(p) < Len(q))
  <2> SUFFICES ASSUME Len(p) < Len(q) PROVE FALSE
    OBVIOUS
  <2>1. Len(p) + 1 \in 1 .. Len(q) /\ (Len(p) + 1) - 1 = Len(p) /\ Len(p) <= Len(q) /\ Len(p) <= Len(p)
    BY <1>1
  <2>2. Upto(q, Len(p)) = p
    BY <1>1, <1>6, <2>1
  <2>3. p \in DOMAIN tree /\ tree[p].name # s.name
    BY <2>1, <2>2 DEF Follows
  <2> QED BY <2>3 DEF Ends
<1>8. ~(Len(q) < Len(p))
  <2> SUFFICES ASSUME Len(q) < Len(p) PROVE FALSE
    OBVIOUS
  <2>1. Len(q) + 1 \in 1 .. Len(p) /\ (Len(q) + 1) - 1 = Len(q) /\ Len(q) <= Len(p) /\ Len(q) <= Len(q)
    BY <1>1
  <2>2. Upto(p, Len(q)) = q
    BY <1>1, <1>6, <2>1
  <2>3. q \in DOMAIN tree /\ tree[q].name # s.name
    BY <2>1, <2>2 DEF Follows
  <2> QED BY <2>3 DEF Ends
<1>9. Len(p) = Len(q) /\ Len(p) <= Len(q) /\ Len(p) <= Len(p)
  <2>1. Len(p) \in Nat /\ Len(q) \in Nat
    BY <1>1
  <2> QED BY <1>7, <1>8, <2>1
<1>10. \A i \in 1 .. Len(p) : p[i] = q[i]
  BY <1>1, <1>6, <1>9
<1> QED BY <1>1, <1>9, <1>10

(* Where a tree holds a name, the search of the name finds it; no two of its   *)
(* students have one name.                                                     *)
LEMMA SameFollows ==
  ASSUME NEW tree, NEW s, NEW t, s.name = t.name, NEW p
  PROVE  /\ Follows(tree, s, p) <=> Follows(tree, t, p)
         /\ Ends(tree, s, p) <=> Ends(tree, t, p)
<1>1. \A u : Side(s, u) = Side(t, u)
  BY DEF Side
<1> QED BY <1>1 DEF Follows, Ends

LEMMA TreeFindsNames ==
  ASSUME NEW tree, GoodTree(tree)
  PROVE  /\ \A p \in DOMAIN tree : \A s : s.name = tree[p].name => TreePlace(tree, s) = p
         /\ \A p, q \in DOMAIN tree : tree[p].name = tree[q].name => p = q
         /\ \A s : InTree(tree, s) <=> \E p \in DOMAIN tree : tree[p].name = s.name
<1>1. ASSUME NEW p \in DOMAIN tree, NEW s, s.name = tree[p].name PROVE TreePlace(tree, s) = p
  <2>1. p \in Paths /\ Follows(tree, tree[p], p) /\ Ends(tree, tree[p], p)
    BY TreeTyped DEF GoodTree, Ends
  <2>2. Follows(tree, s, p) /\ Ends(tree, s, p)
    BY <1>1, <2>1, SameFollows
  <2> QED BY <2>1, <2>2, PlaceIs, PlaceUnique
<1>2. ASSUME NEW s PROVE InTree(tree, s) <=> \E p \in DOMAIN tree : tree[p].name = s.name
  <2>1. ASSUME InTree(tree, s) PROVE \E p \in DOMAIN tree : tree[p].name = s.name
    <3>1. TreePlace(tree, s) \in DOMAIN tree /\ Ends(tree, s, TreePlace(tree, s))
      BY <2>1, PlaceIs DEF InTree
    <3> QED BY <3>1 DEF Ends
  <2>2. ASSUME NEW p \in DOMAIN tree, tree[p].name = s.name PROVE InTree(tree, s)
    BY <1>1, <2>2 DEF InTree
  <2> QED BY <2>1, <2>2
<1>3. ASSUME NEW p \in DOMAIN tree, NEW q \in DOMAIN tree, tree[p].name = tree[q].name PROVE p = q
  <2>1. TreePlace(tree, tree[q]) = p /\ TreePlace(tree, tree[q]) = q
    BY <1>1, <1>3
  <2> QED BY <2>1
<1> QED BY <1>1, <1>2, <1>3

LEMMA TreeAddKeeps ==
  ASSUME NEW tree, GoodTree(tree), NEW s \in Pupil, ~InTree(tree, s)
  PROVE  LET new == TreeAdd(tree, s)
         IN /\ GoodTree(new) /\ Range(new) = Range(tree) \cup {s}
            /\ Cardinality(DOMAIN new) = Cardinality(DOMAIN tree) + 1
<1> DEFINE place == TreePlace(tree, s)
           D == DOMAIN tree \cup {place}
           new == [path \in D |-> IF path = place THEN s ELSE tree[path]]
<1>1. place \in Paths /\ Follows(tree, s, place) /\ place \notin DOMAIN tree
  BY PlaceIs DEF InTree
<1>2. /\ DOMAIN tree \in SUBSET Paths /\ \A p \in DOMAIN tree : tree[p] \in Pupil
      /\ IsFiniteSet(DOMAIN tree) /\ Cardinality(DOMAIN tree) \in Nat
  BY TreeTyped
<1>3. TreeAdd(tree, s) = new
  BY DEF TreeAdd
<1> HIDE DEF place
<1>4. /\ DOMAIN new = D /\ new[place] = s /\ \A p \in DOMAIN tree : p \in D /\ new[p] = tree[p]
      /\ D \in SUBSET Paths /\ place \in D
  BY <1>1, <1>2
<1>5. new \in TreeSet
  <2>1. new \in [D -> Pupil]
    BY <1>2
  <2> QED BY <1>4, <2>1 DEF TreeSet
<1>6. IsFiniteSet(D) /\ Cardinality(D) = Cardinality(DOMAIN tree) + 1
  BY <1>1, <1>2, FS_AddElement
<1> HIDE DEF new, D
<1>7. ASSUME NEW t, NEW p \in Paths, Follows(tree, t, p) PROVE Follows(new, t, p)
  <2>1. \A k \in 1 .. Len(p) : Upto(p, k - 1) \in DOMAIN tree /\ tree[Upto(p, k - 1)].name # t.name
                               /\ p[k] = Side(t, tree[Upto(p, k - 1)])
    BY <1>7 DEF Follows
  <2>2. \A k \in 1 .. Len(p) : Upto(p, k - 1) \in DOMAIN new /\ new[Upto(p, k - 1)].name # t.name
                               /\ p[k] = Side(t, new[Upto(p, k - 1)])
    BY <1>4, <2>1
  <2> QED BY <2>2 DEF Follows
<1>8. ASSUME NEW p \in D PROVE Follows(new, new[p], p)
  <2>1. CASE p = place
    BY <1>1, <1>4, <1>7, <2>1
  <2>2. CASE p # place
    <3>1. p \in DOMAIN tree /\ p \in Paths /\ Follows(tree, tree[p], p)
      BY <1>2, <2>2 DEF GoodTree, D
    <3> QED BY <1>4, <1>7, <3>1
  <2> QED BY <2>1, <2>2
<1>9. Range(new) = Range(tree) \cup {s}
  <2>1. \A p \in D : p = place \/ p \in DOMAIN tree
    BY DEF D
  <2> QED BY <1>4, <2>1 DEF Range
<1>10. GoodTree(new)
  BY <1>4, <1>5, <1>6, <1>8 DEF GoodTree
<1> QED BY <1>3, <1>4, <1>6, <1>9, <1>10

LEMMA FirstTree ==
  ASSUME NEW s \in Pupil
  PROVE  LET new == [path \in {<< >>} |-> s]
         IN GoodTree(new) /\ Range(new) = {s} /\ Cardinality(DOMAIN new) = 1
<1> DEFINE root0 == << >>
           new == [path \in {root0} |-> s]
<1>1. root0 \in Paths /\ Len(root0) = 0
  BY DEF Paths
<1> HIDE DEF root0
<1>2. DOMAIN new = {root0} /\ new[root0] = s /\ new \in [{root0} -> Pupil] /\ {root0} \in SUBSET Paths
  BY <1>1
<1>3. IsFiniteSet({root0}) /\ Cardinality({root0}) = 1
  BY FS_Singleton
<1> HIDE DEF new
<1>4. GoodTree(new)
  <2>1. \A k : k \notin 1 .. Len(root0)
    BY <1>1
  <2>2. Follows(new, s, root0)
    BY <2>1 DEF Follows
  <2>3. new \in TreeSet
    BY <1>2 DEF TreeSet
  <2> QED BY <1>2, <1>3, <2>2, <2>3 DEF GoodTree
<1>5. Range(new) = {s}
  BY <1>2 DEF Range
<1> QED BY <1>2, <1>3, <1>4, <1>5 DEF new, root0

-------------------------------------------------------------------------------
(* The list of a group increases: a new student goes to a place that keeps it  *)
(* so.                                                                         *)
Increases(lst) == \A i, j \in 1 .. Len(lst) : i < j => lst[i].rating <= lst[j].rating

Slipped(lst, k, s) ==
  [i \in 1 .. Len(lst) + 1 |-> IF i <= k THEN lst[i] ELSE IF i = k + 1 THEN s ELSE lst[i - 1]]

LEMMA GlueIs ==
  ASSUME NEW V, NEW s \in Seq(V), NEW t \in Seq(V)
  PROVE  /\ s \o t \in Seq(V) /\ Len(s \o t) = Len(s) + Len(t) /\ Len(s) \in Nat /\ Len(t) \in Nat
         /\ \A k \in 1 .. Len(s) + Len(t) : (s \o t)[k] = IF k <= Len(s) THEN s[k] ELSE t[k - Len(s)]
BY ConcatProperties

Slips(p, V, lst, k, s) ==
  /\ p \in [1 .. Len(lst) + 1 -> V] /\ p \in Seq(V) /\ Len(p) = Len(lst) + 1
  /\ \A i \in 1 .. Len(lst) + 1 : p[i] = IF i <= k THEN lst[i] ELSE IF i = k + 1 THEN s ELSE lst[i - 1]

LEMMA SlippedIs ==
  ASSUME NEW V, NEW lst \in Seq(V), NEW k \in 0 .. Len(lst), NEW s \in V
  PROVE  Slips(Slipped(lst, k, s), V, lst, k, s)
<1> DEFINE n == Len(lst)
<1>1. n \in Nat /\ k \in Nat /\ k <= n /\ \A i \in 1 .. n : lst[i] \in V
  OBVIOUS
<1> HIDE DEF n
<1> DEFINE e(i) == IF i <= k THEN lst[i] ELSE IF i = k + 1 THEN s ELSE lst[i - 1]
           p == [i \in 1 .. n + 1 |-> e(i)]
<1>2. ASSUME NEW i \in 1 .. n + 1 PROVE e(i) \in V
  <2>1. CASE i <= k
    <3>1. i \in 1 .. n
      BY <1>1, <2>1
    <3> QED BY <1>1, <2>1, <3>1
  <2>2. CASE i = k + 1
    BY <1>1, <2>2
  <2>3. CASE i > k + 1
    <3>1. i - 1 \in 1 .. n /\ ~(i <= k) /\ i # k + 1
      BY <1>1, <2>3
    <3> QED BY <1>1, <3>1
  <2> QED BY <1>1, <2>1, <2>2, <2>3
<1>3. Slipped(lst, k, s) = p
  BY DEF Slipped, n
<1>4. (\A i \in 1 .. n + 1 : p[i] = e(i)) /\ DOMAIN p = 1 .. n + 1
  OBVIOUS
<1>5. p \in [1 .. n + 1 -> V]
  BY <1>2
<1> HIDE DEF p
<1>6. p \in Seq(V) /\ Len(p) = n + 1
  BY <1>1, <1>5
<1> QED BY <1>3, <1>4, <1>5, <1>6 DEF n, Slips

LEMMA InsertSlips ==
  ASSUME NEW V, NEW lst \in Seq(V), NEW k \in 0 .. Len(lst), NEW s \in V
  PROVE  InsertAt(lst, k + 1, s) = Slipped(lst, k, s)
<1> DEFINE n == Len(lst)
           a == SubSeq(lst, 1, k)
           b == SubSeq(lst, k + 1, n)
           m == << s >>
<1>1. n \in Nat /\ k \in Nat /\ k <= n /\ \A i \in 1 .. n : lst[i] \in V
  OBVIOUS
<1>2. a \in Seq(V) /\ Len(a) = k /\ \A i \in 1 .. k : a[i] = lst[i]
  BY <1>1
<1>3. b \in Seq(V) /\ Len(b) = n - k /\ \A i \in 1 .. n - k : b[i] = lst[i + k]
  BY <1>1
<1>4. m \in Seq(V) /\ Len(m) = 1 /\ m[1] = s
  OBVIOUS
<1>5. InsertAt(lst, k + 1, s) = (a \o m) \o b
  <2>1. (k + 1) - 1 = k
    BY <1>1
  <2> QED BY <2>1 DEF InsertAt
<1> HIDE DEF a, b, m, n
<1> DEFINE c == a \o m
           d == c \o b
<1>6. c \in Seq(V) /\ Len(c) = k + 1 /\ \A i \in 1 .. k + 1 : c[i] = IF i <= k THEN a[i] ELSE m[i - k]
  <2>1. c \in Seq(V) /\ Len(c) = Len(a) + Len(m)
        /\ \A i \in 1 .. Len(a) + Len(m) : c[i] = IF i <= Len(a) THEN a[i] ELSE m[i - Len(a)]
    BY <1>2, <1>4, GlueIs
  <2> HIDE DEF c
  <2> QED BY <1>2, <1>4, <2>1
<1> HIDE DEF c
<1>7. d \in Seq(V) /\ Len(d) = (k + 1) + (n - k)
      /\ \A i \in 1 .. (k + 1) + (n - k) : d[i] = IF i <= k + 1 THEN c[i] ELSE b[i - (k + 1)]
  <2>1. d \in Seq(V) /\ Len(d) = Len(c) + Len(b)
        /\ \A i \in 1 .. Len(c) + Len(b) : d[i] = IF i <= Len(c) THEN c[i] ELSE b[i - Len(c)]
    BY <1>3, <1>6, GlueIs
  <2> HIDE DEF d
  <2> QED BY <1>3, <1>6, <2>1
<1>8. (k + 1) + (n - k) = n + 1 /\ n + 1 \in Nat
  BY <1>1
<1> HIDE DEF d
<1>9. \A i \in 1 .. n + 1 : d[i] = IF i <= k THEN lst[i] ELSE IF i = k + 1 THEN s ELSE lst[i - 1]
  <2> TAKE i \in 1 .. n + 1
  <2>1. CASE i <= k
    <3>1. i \in 1 .. k /\ i \in 1 .. k + 1 /\ i <= k + 1
      BY <1>1, <2>1
    <3>2. d[i] = c[i] /\ c[i] = a[i] /\ a[i] = lst[i]
      BY <1>2, <1>6, <1>7, <1>8, <2>1, <3>1
    <3> QED BY <2>1, <3>2
  <2>2. CASE i = k + 1
    <3>1. i \in 1 .. k + 1 /\ i <= k + 1 /\ ~(i <= k) /\ i - k = 1
      BY <1>1, <2>2
    <3>2. d[i] = c[i] /\ c[i] = m[1]
      BY <1>6, <1>7, <1>8, <3>1
    <3> QED BY <1>4, <2>2, <3>1, <3>2
  <2>3. CASE i > k + 1
    <3>1. i - (k + 1) \in 1 .. n - k /\ (i - (k + 1)) + k = i - 1 /\ ~(i <= k + 1) /\ ~(i <= k) /\ i # k + 1
      BY <1>1, <2>3
    <3>2. d[i] = b[i - (k + 1)]
      BY <1>7, <1>8, <3>1
    <3> QED BY <1>3, <3>1, <3>2
  <2> QED BY <1>1, <2>1, <2>2, <2>3
<1>10. d \in Seq(V) /\ Len(d) = n + 1
  BY <1>7, <1>8
<1> DEFINE p == Slipped(lst, k, s)
<1>11. p \in [1 .. n + 1 -> V] /\ \A i \in 1 .. n + 1 : p[i] = IF i <= k THEN lst[i] ELSE IF i = k + 1 THEN s ELSE lst[i - 1]
  <2>1. Slips(p, V, lst, k, s)
    BY SlippedIs
  <2> HIDE DEF p
  <2> QED BY <2>1 DEF Slips, n
<1> HIDE DEF p
<1>12. d = p
  <2>1. p \in Seq(V) /\ Len(p) = n + 1
    BY <1>1, <1>11
  <2> QED BY <1>9, <1>10, <1>11, <2>1, SeqEqual
<1> QED BY <1>5, <1>12 DEF p, c, d

LEMMA EndsSlip ==
  ASSUME NEW V, NEW lst \in Seq(V), NEW s \in V
  PROVE  << s >> \o lst = Slipped(lst, 0, s) /\ Append(lst, s) = Slipped(lst, Len(lst), s)
<1> DEFINE m == << s >>
           d == m \o lst
           e == Append(lst, s)
           n == Len(lst)
           p == Slipped(lst, 0, s)
           q == Slipped(lst, n, s)
<1>1. n \in Nat /\ m \in Seq(V) /\ Len(m) = 1 /\ m[1] = s /\ 0 \in 0 .. n /\ n \in 0 .. n /\ n + 1 \in Nat
  OBVIOUS
<1> HIDE DEF m
<1>2. d \in Seq(V) /\ Len(d) = 1 + n /\ \A i \in 1 .. 1 + n : d[i] = IF i <= 1 THEN m[i] ELSE lst[i - 1]
  <2>1. d \in Seq(V) /\ Len(d) = Len(m) + Len(lst)
        /\ \A i \in 1 .. Len(m) + Len(lst) : d[i] = IF i <= Len(m) THEN m[i] ELSE lst[i - Len(m)]
    BY <1>1, GlueIs
  <2> HIDE DEF d
  <2> QED BY <1>1, <2>1
<1>3. e \in Seq(V) /\ Len(e) = n + 1 /\ e[n + 1] = s /\ \A i \in 1 .. n : e[i] = lst[i]
  OBVIOUS
<1>4. /\ p \in [1 .. n + 1 -> V] /\ q \in [1 .. n + 1 -> V]
      /\ \A i \in 1 .. n + 1 : p[i] = IF i <= 0 THEN lst[i] ELSE IF i = 0 + 1 THEN s ELSE lst[i - 1]
      /\ \A i \in 1 .. n + 1 : q[i] = IF i <= n THEN lst[i] ELSE IF i = n + 1 THEN s ELSE lst[i - 1]
  <2>1. Slips(p, V, lst, 0, s) /\ Slips(q, V, lst, n, s)
    BY <1>1, SlippedIs
  <2> HIDE DEF p, q
  <2> QED BY <2>1 DEF Slips
<1> HIDE DEF d, e, n, p, q
<1>5. \A i \in 1 .. n + 1 : d[i] = p[i]
  <2> TAKE i \in 1 .. n + 1
  <2>1. i \in 1 .. 1 + n /\ ~(i <= 0) /\ (i = 1 \/ ~(i <= 1))
    BY <1>1
  <2>2. CASE i = 1
    BY <1>1, <1>2, <1>4, <2>1, <2>2
  <2>3. CASE i # 1
    BY <1>1, <1>2, <1>4, <2>1, <2>3
  <2> QED BY <2>2, <2>3
<1>6. \A i \in 1 .. n + 1 : e[i] = q[i]
  <2> TAKE i \in 1 .. n + 1
  <2>1. (i \in 1 .. n /\ i <= n) \/ (i = n + 1 /\ ~(i <= n))
    BY <1>1
  <2> QED BY <1>3, <1>4, <2>1
<1>7. Len(d) = n + 1
  BY <1>1, <1>2
<1>8. d = p /\ e = q
  <2>1. p \in Seq(V) /\ Len(p) = n + 1 /\ q \in Seq(V) /\ Len(q) = n + 1
    BY <1>1, <1>4
  <2>2. d = p
    BY <1>2, <1>5, <1>7, <2>1, SeqEqual
  <2>3. e = q
    BY <1>3, <1>6, <2>1, SeqEqual
  <2> QED BY <2>2, <2>3
<1> QED BY <1>8 DEF d, e, p, q, m, n

LEMMA ListAddSlips ==
  ASSUME NEW lst \in Seq(Pupil), Increases(lst), NEW s \in Pupil
  PROVE  \E k \in 0 .. Len(lst) :
           /\ ListAdd(lst, s) = Slipped(lst, k, s)
           /\ \A i \in 1 .. Len(lst) : (i <= k => lst[i].rating <= s.rating) /\ (~(i <= k) => s.rating <= lst[i].rating)
<1> DEFINE n == Len(lst)
           rest == Tail(lst)
           I == {i \in 1 .. Len(rest) : rest[i].rating > s.rating}
           above == SelectInSeq(rest, LAMBDA t : t.rating > s.rating)
<1>1. n \in Nat /\ \A i \in 1 .. n : lst[i] \in Pupil /\ lst[i].rating \in Int
  BY PupilTyped
<1>2. s.rating \in Int
  BY PupilTyped
<1>3. CASE lst = << >>
  <2>1. ListAdd(lst, s) = << s >> \o lst /\ n = 0 /\ 0 \in 0 .. n
    BY <1>3 DEF ListAdd
  <2>2. \A i \in 1 .. n : FALSE
    BY <2>1
  <2> QED BY <2>1, <2>2, EndsSlip
<1>4. CASE lst # << >> /\ s.rating <= lst[1].rating
  <2>1. ListAdd(lst, s) = << s >> \o lst /\ 0 \in 0 .. n
    BY <1>1, <1>4 DEF ListAdd
  <2>2. \A i \in 1 .. n : ~(i <= 0) /\ s.rating <= lst[i].rating
    <3> TAKE i \in 1 .. n
    <3>1. i = 1 \/ (1 \in 1 .. n /\ 1 < i)
      BY <1>1
    <3>2. lst[1].rating <= lst[i].rating
      <4>1. lst[1].rating \in Int
        BY <1>1, <3>1
      <4> QED BY <3>1, <4>1 DEF Increases
    <3>3. 1 \in 1 .. n
      BY <1>1
    <3> QED BY <1>1, <1>2, <1>4, <3>2, <3>3
  <2> QED BY <2>1, <2>2, EndsSlip
<1>5. CASE lst # << >> /\ ~(s.rating <= lst[1].rating)
  <2>1. n >= 1 /\ Len(rest) = n - 1 /\ \A i \in 1 .. n - 1 : rest[i] = lst[i + 1]
    BY <1>5
  <2>2. ListAdd(lst, s) = IF above = 0 THEN Append(lst, s) ELSE InsertAt(lst, above + 1, s)
    BY <1>5 DEF ListAdd
  <2>3. above = IF I # {} THEN Min(I) ELSE 0
    BY DEF SelectInSeq
  <2>4. lst[1].rating <= s.rating
    <3>1. 1 \in 1 .. n
      BY <1>1, <2>1
    <3> QED BY <1>1, <1>2, <1>5, <3>1
  <2> HIDE DEF above, n
  <2>5. CASE I = {}
    <3>1. ListAdd(lst, s) = Append(lst, s) /\ n \in 0 .. n
      BY <1>1, <2>2, <2>3, <2>5
    <3>2. ASSUME NEW i \in 1 .. n PROVE i <= n /\ lst[i].rating <= s.rating
      <4>0. i <= n
        BY <1>1
      <4>1. CASE i = 1
        BY <2>4, <4>0, <4>1
      <4>2. CASE i # 1
        <5>1. i - 1 \in 1 .. n - 1 /\ (i - 1) + 1 = i
          BY <1>1, <4>2
        <5>2. rest[i - 1] = lst[i] /\ ~(rest[i - 1].rating > s.rating)
          BY <2>1, <2>5, <5>1
        <5>3. lst[i].rating \in Int
          BY <1>1
        <5>4. ~(lst[i].rating > s.rating)
          BY <5>2
        <5> QED BY <1>2, <4>0, <5>3, <5>4
      <4> QED BY <4>1, <4>2
    <3> QED BY <3>1, <3>2, EndsSlip DEF n
  <2>6. CASE I # {}
    <3>1. I \in SUBSET Nat /\ \A i \in I : i \in 1 .. n - 1 /\ lst[i + 1].rating > s.rating
      BY <1>1, <2>1
    <3>2. above \in I /\ \A y \in I : above <= y
      BY <2>3, <2>6, <3>1, MinOfNaturals
    <3>3. above \in 1 .. n - 1 /\ lst[above + 1].rating > s.rating /\ above \in 0 .. n /\ above # 0
      BY <1>1, <3>1, <3>2
    <3>4. ListAdd(lst, s) = Slipped(lst, above, s)
      BY <2>2, <3>3, InsertSlips DEF n
    <3>5. ASSUME NEW i \in 1 .. n PROVE (i <= above => lst[i].rating <= s.rating) /\ (~(i <= above) => s.rating <= lst[i].rating)
      <4>1. CASE i <= above
        <5>1. CASE i = 1
          BY <2>4, <4>1, <5>1
        <5>2. CASE i # 1
          <6>1. i - 1 \in 1 .. n - 1 /\ (i - 1) + 1 = i /\ ~(above <= i - 1)
            BY <1>1, <3>3, <4>1, <5>2
          <6>2. i - 1 \notin I
            BY <3>2, <6>1
          <6>3. ~(rest[i - 1].rating > s.rating) /\ rest[i - 1] = lst[i]
            BY <2>1, <6>1, <6>2
          <6>4. lst[i].rating \in Int
            BY <1>1
          <6>5. ~(lst[i].rating > s.rating)
            BY <6>3
          <6> QED BY <1>2, <4>1, <6>4, <6>5
        <5> QED BY <5>1, <5>2
      <4>2. CASE ~(i <= above)
        <5>1. above + 1 \in 1 .. n /\ (above + 1 = i \/ above + 1 < i)
          BY <1>1, <3>3, <4>2
        <5>2. lst[above + 1].rating <= lst[i].rating
          <6>1. lst[i].rating \in Int
            BY <1>1
          <6> QED BY <5>1, <6>1 DEF Increases, n
        <5>3. lst[above + 1].rating \in Int /\ lst[i].rating \in Int
          BY <1>1, <5>1
        <5> QED BY <1>2, <3>3, <4>2, <5>2, <5>3
      <4> QED BY <4>1, <4>2
    <3> QED BY <3>3, <3>4, <3>5 DEF n
  <2> QED BY <2>5, <2>6
<1> QED BY <1>3, <1>4, <1>5

LEMMA ListAddKeeps ==
  ASSUME NEW lst \in Seq(Pupil), Increases(lst), IsInjective(lst), NEW s \in Pupil, s \notin Range(lst)
  PROVE  LET new == ListAdd(lst, s)
         IN /\ new \in Seq(Pupil) /\ Increases(new) /\ IsInjective(new) /\ Len(new) = Len(lst) + 1
            /\ Range(new) = Range(lst) \cup {s}
<1> DEFINE n == Len(lst)
           new == ListAdd(lst, s)
<1>1. PICK k \in 0 .. n :
        /\ new = Slipped(lst, k, s)
        /\ \A i \in 1 .. n : (i <= k => lst[i].rating <= s.rating) /\ (~(i <= k) => s.rating <= lst[i].rating)
  BY ListAddSlips
<1>2. /\ n \in Nat /\ k \in Nat /\ k <= n /\ DOMAIN lst = 1 .. n
      /\ \A i \in 1 .. n : lst[i] \in Pupil /\ lst[i].rating \in Int
      /\ s.rating \in Int
  BY PupilTyped
<1>3. /\ new \in Seq(Pupil) /\ Len(new) = n + 1 /\ DOMAIN new = 1 .. n + 1
      /\ \A i \in 1 .. n + 1 : new[i] = IF i <= k THEN lst[i] ELSE IF i = k + 1 THEN s ELSE lst[i - 1]
  <2>1. Slips(new, Pupil, lst, k, s)
    BY <1>1, SlippedIs
  <2> HIDE DEF new
  <2> QED BY <2>1 DEF Slips
<1> HIDE DEF new, n
<1>4. ASSUME NEW i \in 1 .. n + 1
      PROVE  \/ i <= k /\ i \in 1 .. n /\ new[i] = lst[i]
             \/ i = k + 1 /\ new[i] = s
             \/ i > k + 1 /\ i - 1 \in 1 .. n /\ new[i] = lst[i - 1] /\ ~(i - 1 <= k)
  <2>1. \/ i <= k /\ i \in 1 .. n
        \/ i = k + 1 /\ ~(i <= k)
        \/ i > k + 1 /\ i - 1 \in 1 .. n /\ ~(i <= k) /\ i # k + 1 /\ ~(i - 1 <= k)
    BY <1>2
  <2> QED BY <1>3, <2>1
<1>5. \A i, j \in 1 .. n : lst[i] = lst[j] => i = j
  BY <1>2 DEF IsInjective
<1>6. \A i \in 1 .. n : lst[i] # s
  BY <1>2 DEF Range
<1>7. \A i, j \in 1 .. n : i < j => lst[i].rating <= lst[j].rating
  BY DEF Increases, n
<1>8. IsInjective(new)
  <2> SUFFICES ASSUME NEW i \in 1 .. n + 1, NEW j \in 1 .. n + 1, new[i] = new[j] PROVE i = j
    BY <1>3 DEF IsInjective
  <2>1. /\ \/ i <= k /\ i \in 1 .. n /\ new[i] = lst[i]
           \/ i = k + 1 /\ new[i] = s
           \/ i > k + 1 /\ i - 1 \in 1 .. n /\ new[i] = lst[i - 1] /\ ~(i - 1 <= k)
        /\ \/ j <= k /\ j \in 1 .. n /\ new[j] = lst[j]
           \/ j = k + 1 /\ new[j] = s
           \/ j > k + 1 /\ j - 1 \in 1 .. n /\ new[j] = lst[j - 1] /\ ~(j - 1 <= k)
    BY <1>4
  <2> QED BY <1>2, <1>5, <1>6, <2>1
<1>9. Increases(new)
  <2> SUFFICES ASSUME NEW i \in 1 .. n + 1, NEW j \in 1 .. n + 1, i < j PROVE new[i].rating <= new[j].rating
    BY <1>3 DEF Increases
  <2>1. \/ i <= k /\ i \in 1 .. n /\ new[i] = lst[i]
        \/ i = k + 1 /\ new[i] = s
        \/ i > k + 1 /\ i - 1 \in 1 .. n /\ new[i] = lst[i - 1] /\ ~(i - 1 <= k)
    BY <1>4
  <2>2. \/ j <= k /\ j \in 1 .. n /\ new[j] = lst[j]
        \/ j = k + 1 /\ new[j] = s
        \/ j > k + 1 /\ j - 1 \in 1 .. n /\ new[j] = lst[j - 1] /\ ~(j - 1 <= k)
    BY <1>4
  <2>3. CASE i <= k /\ i \in 1 .. n /\ new[i] = lst[i]
    <3>1. new[i].rating <= s.rating
      BY <1>1, <2>3
    <3>2. j - 1 \in 1 .. n /\ ~(j - 1 <= k) => s.rating <= lst[j - 1].rating
      BY <1>1 DEF n
    <3>3. j \in 1 .. n => new[i].rating <= lst[j].rating
      BY <1>7, <2>3
    <3> QED BY <1>2, <2>2, <2>3, <3>1, <3>2, <3>3
  <2>4. CASE i = k + 1 /\ new[i] = s
    <3>1. j > k + 1
      BY <1>2, <2>4
    <3>2. j - 1 \in 1 .. n /\ new[j] = lst[j - 1] /\ ~(j - 1 <= k)
      BY <1>2, <2>2, <3>1
    <3> QED BY <1>1, <2>4, <3>2 DEF n
  <2>5. CASE i > k + 1 /\ i - 1 \in 1 .. n /\ new[i] = lst[i - 1] /\ ~(i - 1 <= k)
    <3>1. j > k + 1 /\ i - 1 < j - 1
      BY <1>2, <2>5
    <3>2. j - 1 \in 1 .. n /\ new[j] = lst[j - 1]
      BY <1>2, <2>2, <3>1
    <3> QED BY <1>7, <2>5, <3>1, <3>2
  <2> QED BY <2>1, <2>3, <2>4, <2>5
<1>10. Range(new) = Range(lst) \cup {s}
  <2>1. ASSUME NEW x \in Range(new) PROVE x \in Range(lst) \cup {s}
    <3>1. PICK i \in 1 .. n + 1 : x = new[i]
      BY <1>3 DEF Range
    <3>2. new[i] = s \/ \E j \in 1 .. n : new[i] = lst[j]
      BY <1>4
    <3> QED BY <1>2, <3>1, <3>2 DEF Range
  <2>2. k + 1 \in 1 .. n + 1 /\ new[k + 1] = s
    <3>1. k + 1 \in 1 .. n + 1 /\ ~(k + 1 <= k)
      BY <1>2
    <3> QED BY <1>3, <3>1
  <2>3. ASSUME NEW j \in 1 .. n PROVE \E i \in 1 .. n + 1 : new[i] = lst[j]
    <3>1. CASE j <= k
      <4>1. j \in 1 .. n + 1
        BY <1>2
      <4> QED BY <1>3, <3>1, <4>1
    <3>2. CASE ~(j <= k)
      <4>1. j + 1 \in 1 .. n + 1 /\ ~(j + 1 <= k) /\ j + 1 # k + 1 /\ (j + 1) - 1 = j
        BY <1>2, <3>2
      <4>2. new[j + 1] = lst[j]
        BY <1>3, <4>1
      <4> QED BY <4>1, <4>2
    <3> QED BY <3>1, <3>2
  <2>4. ASSUME NEW x \in Range(lst) PROVE x \in Range(new)
    <3>1. PICK j \in 1 .. n : x = lst[j]
      BY <1>2 DEF Range
    <3>2. PICK i \in 1 .. n + 1 : new[i] = lst[j]
      BY <2>3
    <3> QED BY <1>3, <3>1, <3>2 DEF Range
  <2>5. s \in Range(new)
    BY <1>3, <2>2 DEF Range
  <2> QED BY <2>1, <2>4, <2>5
<1> QED BY <1>3, <1>8, <1>9, <1>10 DEF new, n

(* A group: the tree and the list have the same students, of that group.       *)
NodeSet == [group : 100 .. 699, tree : TreeSet, list : Seq(Pupil)]

GoodNode(node) ==
  /\ node \in NodeSet
  /\ GoodTree(node.tree) /\ Increases(node.list) /\ IsInjective(node.list)
  /\ \A s \in Range(node.list) : s.group = node.group
  /\ Range(node.tree) = Range(node.list) /\ Cardinality(DOMAIN node.tree) = Len(node.list)

LEMMA AddToKeeps ==
  ASSUME NEW node, GoodNode(node), NEW s \in Pupil, s.group = node.group
  PROVE  /\ GoodNode(AddTo(node, s)) /\ AddTo(node, s).group = node.group
         /\ Range(node.list) \subseteq Range(AddTo(node, s).list)
<1>1. CASE InTree(node.tree, s)
  BY <1>1 DEF AddTo
<1>2. CASE ~InTree(node.tree, s)
  <2> DEFINE tree == TreeAdd(node.tree, s)
             lst == ListAdd(node.list, s)
             new == [node EXCEPT !.tree = tree, !.list = lst]
  <2>1. AddTo(node, s) = new
    BY <1>2 DEF AddTo
  <2>2. node \in NodeSet /\ GoodTree(node.tree) /\ node.list \in Seq(Pupil) /\ Cardinality(DOMAIN node.tree) = Len(node.list)
        /\ Range(node.tree) = Range(node.list)
    BY DEF GoodNode, NodeSet
  <2>3. GoodTree(tree) /\ Range(tree) = Range(node.tree) \cup {s}
        /\ Cardinality(DOMAIN tree) = Cardinality(DOMAIN node.tree) + 1
    BY <1>2, <2>2, TreeAddKeeps
  <2>4. s \notin Range(node.list)
    <3> SUFFICES ASSUME s \in Range(node.tree) PROVE FALSE
      BY <2>2
    <3>1. PICK p \in DOMAIN node.tree : node.tree[p] = s
      BY DEF Range
    <3> QED BY <1>2, <2>2, <3>1, TreeFindsNames
  <2>5. lst \in Seq(Pupil) /\ Increases(lst) /\ IsInjective(lst) /\ Len(lst) = Len(node.list) + 1
        /\ Range(lst) = Range(node.list) \cup {s}
    BY <2>2, <2>4, ListAddKeeps DEF GoodNode
  <2>6. tree \in TreeSet
    BY <2>3 DEF GoodTree
  <2> HIDE DEF tree, lst
  <2>7. new \in NodeSet /\ new.group = node.group /\ new.tree = tree /\ new.list = lst
    BY <2>2, <2>5, <2>6 DEF NodeSet
  <2> HIDE DEF new
  <2>8. \A t \in Range(new.list) : t.group = new.group
    BY <2>5, <2>7 DEF GoodNode
  <2>9. Range(new.tree) = Range(new.list) /\ Cardinality(DOMAIN new.tree) = Len(new.list)
    BY <2>2, <2>3, <2>5, <2>7
  <2>10. GoodNode(new)
    BY <2>3, <2>5, <2>7, <2>8, <2>9 DEF GoodNode
  <2> QED BY <2>1, <2>5, <2>7, <2>10
<1> QED BY <1>1, <1>2

LEMMA GroupOfIs ==
  ASSUME NEW s \in Pupil
  PROVE  GoodNode(GroupOf(s)) /\ GroupOf(s).group = s.group
<1> DEFINE tree == [path \in {<< >>} |-> s]
           lst == << s >>
           new == [group |-> s.group, tree |-> tree, list |-> lst]
<1>1. GoodTree(tree) /\ Range(tree) = {s} /\ Cardinality(DOMAIN tree) = 1
  BY FirstTree
<1>2. lst \in Seq(Pupil) /\ Len(lst) = 1 /\ DOMAIN lst = {1} /\ lst[1] = s
  OBVIOUS
<1>3. GroupOf(s) = new
  BY DEF GroupOf
<1> HIDE DEF tree, lst
<1>4. tree \in TreeSet
  BY <1>1 DEF GoodTree
<1>5. new \in NodeSet /\ new.group = s.group /\ new.tree = tree /\ new.list = lst
  BY <1>2, <1>4, PupilTyped DEF NodeSet
<1> HIDE DEF new
<1>6. Range(lst) = {s} /\ IsInjective(lst)
  BY <1>2 DEF Range, IsInjective
<1>7. Increases(lst)
  <2>1. \A i, j \in 1 .. 1 : ~(i < j)
    OBVIOUS
  <2> QED BY <1>2, <2>1 DEF Increases
<1> QED BY <1>1, <1>2, <1>3, <1>5, <1>6, <1>7 DEF GoodNode

(* The chains of the hash.                                                     *)
GoodChain(i, chain) ==
  /\ chain \in Seq(NodeSet)
  /\ \A j \in 1 .. Len(chain) : GoodNode(chain[j]) /\ hash_fun(chain[j].group) = i
  /\ \A j, k \in 1 .. Len(chain) : chain[j].group = chain[k].group => j = k

GoodHash(hash) == hash \in [Indexes -> Seq(NodeSet)] /\ \A i \in Indexes : GoodChain(i, hash[i])

HashBase(hash) == {s \in Pupil : \E i \in Indexes : \E j \in 1 .. Len(hash[i]) : s \in Range(hash[i][j].list)}

LEMMA HashFunIs ==
  /\ \A g \in 100 .. 699 : hash_fun(g) \in Indexes
  /\ \A g, f \in 100 .. 699 : g <= f => hash_fun(g) <= hash_fun(f)
  /\ hash_fun(100) = 0 /\ hash_fun(699) = 5
BY DEF hash_fun, Indexes

LEMMA ChainAddKeeps ==
  ASSUME NEW s \in Pupil, NEW chain, GoodChain(hash_fun(s.group), chain)
  PROVE  LET new == ChainAdd(chain, s)
         IN /\ GoodChain(hash_fun(s.group), new)
            /\ Len(chain) <= Len(new) /\ \A j \in 1 .. Len(chain) : Range(chain[j].list) \subseteq Range(new[j].list)
<1> DEFINE n == Len(chain)
           x == hash_fun(s.group)
           I == {i \in 1 .. n : chain[i].group = s.group}
           i == SelectInSeq(chain, LAMBDA node : node.group = s.group)
           new == ChainAdd(chain, s)
<1>1. i = IF I # {} THEN Min(I) ELSE 0
  BY DEF SelectInSeq
<1>2. new = IF i = 0 THEN Append(chain, GroupOf(s)) ELSE [chain EXCEPT ![i] = AddTo(@, s)]
  BY DEF ChainAdd
<1>3. /\ n \in Nat /\ chain \in Seq(NodeSet) /\ \A j \in 1 .. n : chain[j] \in NodeSet
      /\ \A j \in 1 .. n : GoodNode(chain[j]) /\ hash_fun(chain[j].group) = x
      /\ \A j, k \in 1 .. n : chain[j].group = chain[k].group => j = k
  BY DEF GoodChain
<1> HIDE DEF i, new
<1>4. CASE I = {}
  <2> DEFINE e == GroupOf(s)
  <2>1. i = 0
    BY <1>1, <1>4
  <2>2. new = Append(chain, e)
    BY <1>2, <2>1
  <2>3. GoodNode(e) /\ e.group = s.group /\ e \in NodeSet
    BY GroupOfIs DEF GoodNode
  <2> HIDE DEF e
  <2>4. new \in Seq(NodeSet) /\ Len(new) = n + 1 /\ new[n + 1] = e /\ \A j \in 1 .. n : new[j] = chain[j]
    BY <1>3, <2>2, <2>3
  <2>5. \A j \in 1 .. n + 1 : j \in 1 .. n \/ j = n + 1
    BY <1>3
  <2> HIDE DEF x
  <2>6. \A j \in 1 .. n + 1 : GoodNode(new[j]) /\ hash_fun(new[j].group) = x
    BY <1>3, <2>3, <2>4, <2>5 DEF x
  <2>7. \A j \in 1 .. n : chain[j].group # s.group
    BY <1>4
  <2> HIDE DEF I, n
  <2>8. ASSUME NEW j \in 1 .. n + 1, NEW k \in 1 .. n + 1, new[j].group = new[k].group PROVE j = k
    <3>1. j \in 1 .. n \/ j = n + 1
      BY <2>5
    <3>2. k \in 1 .. n \/ k = n + 1
      BY <2>5
    <3> QED BY <1>3, <2>3, <2>4, <2>7, <2>8, <3>1, <3>2
  <2>9. GoodChain(x, new)
    BY <2>4, <2>6, <2>8 DEF GoodChain
  <2> QED BY <1>3, <2>4, <2>9 DEF x, n, new
<1>5. CASE I # {}
  <2>1. I \in SUBSET Nat
    BY <1>3
  <2>2. i \in I
    BY <1>1, <1>5, <2>1, MinOfNaturals
  <2>3. i \in 1 .. n /\ chain[i].group = s.group /\ i # 0
    BY <1>3, <2>2
  <2> DEFINE e == AddTo(chain[i], s)
  <2>4. new = [chain EXCEPT ![i] = e]
    BY <1>2, <2>3
  <2>5. GoodNode(e) /\ e.group = s.group /\ e \in NodeSet /\ Range(chain[i].list) \subseteq Range(e.list)
    <3> DEFINE y == chain[i]
    <3>1. GoodNode(y) /\ s.group = y.group
      BY <1>3, <2>3
    <3> HIDE DEF y
    <3>2. GoodNode(AddTo(y, s)) /\ AddTo(y, s).group = y.group /\ Range(y.list) \subseteq Range(AddTo(y, s).list)
      BY <3>1, AddToKeeps
    <3>3. AddTo(y, s) \in NodeSet
      BY <3>2 DEF GoodNode
    <3> QED BY <3>1, <3>2, <3>3 DEF y
  <2> HIDE DEF e
  <2>6. new \in Seq(NodeSet) /\ Len(new) = n /\ new[i] = e /\ \A j \in 1 .. n : j # i => new[j] = chain[j]
    BY <1>3, <2>3, <2>4, <2>5
  <2> HIDE DEF x, I
  <2>7. \A j \in 1 .. n : new[j].group = chain[j].group
    BY <2>3, <2>5, <2>6
  <2>8. \A j \in 1 .. n : GoodNode(new[j]) /\ hash_fun(new[j].group) = x
    BY <1>3, <2>5, <2>6, <2>7
  <2>9. GoodChain(x, new)
    BY <1>3, <2>6, <2>7, <2>8 DEF GoodChain
  <2>10. \A j \in 1 .. n : Range(chain[j].list) \subseteq Range(new[j].list)
    BY <2>5, <2>6
  <2> QED BY <1>3, <2>6, <2>9, <2>10 DEF x, new
<1> QED BY <1>4, <1>5

LEMMA HashAddKeeps ==
  ASSUME NEW hash, GoodHash(hash), NEW s \in Pupil
  PROVE  GoodHash(HashAdd(hash, s)) /\ HashBase(hash) \subseteq HashBase(HashAdd(hash, s))
<1> DEFINE x == hash_fun(s.group)
           c == ChainAdd(hash[x], s)
           new == HashAdd(hash, s)
<1>1. x \in Indexes
  BY PupilTyped, HashFunIs
<1>2. hash \in [Indexes -> Seq(NodeSet)] /\ \A i \in Indexes : GoodChain(i, hash[i])
  BY DEF GoodHash
<1>3. GoodChain(x, c) /\ Len(hash[x]) <= Len(c) /\ \A j \in 1 .. Len(hash[x]) : Range(hash[x][j].list) \subseteq Range(c[j].list)
  BY <1>1, <1>2, ChainAddKeeps
<1>4. new = [hash EXCEPT ![x] = c]
  BY DEF HashAdd
<1>5. c \in Seq(NodeSet)
  BY <1>3 DEF GoodChain
<1> HIDE DEF x, c, new
<1>6. new \in [Indexes -> Seq(NodeSet)] /\ new[x] = c /\ \A i \in Indexes : i # x => new[i] = hash[i]
  BY <1>1, <1>2, <1>4, <1>5
<1>7. GoodHash(new)
  BY <1>2, <1>3, <1>6 DEF GoodHash
<1>8. ASSUME NEW t \in HashBase(hash) PROVE t \in HashBase(new)
  <2>1. PICK i \in Indexes : \E j \in 1 .. Len(hash[i]) : t \in Range(hash[i][j].list)
    BY DEF HashBase
  <2>2. PICK j \in 1 .. Len(hash[i]) : t \in Range(hash[i][j].list)
    BY <2>1
  <2>3. t \in Pupil
    BY DEF HashBase
  <2>4. j \in 1 .. Len(new[i]) /\ t \in Range(new[i][j].list)
    <3>1. CASE i = x
      <4>1. Len(c) \in Nat /\ Len(hash[x]) \in Nat
        BY <1>2, <1>5
      <4> QED BY <1>3, <1>6, <2>2, <3>1, <4>1
    <3>2. CASE i # x
      BY <1>6, <2>2, <3>2
    <3> QED BY <3>1, <3>2
  <2> QED BY <2>3, <2>4 DEF HashBase
<1> QED BY <1>7, <1>8 DEF new

(* The hash that the contents gives.                                               *)
FillSoFar(contents, f) ==
  [n \in 0 .. Len(contents) |-> IF n = 0 THEN [i \in Indexes |-> << >>] ELSE HashAdd(f[n - 1], contents[n])]

LEMMA FillIs ==
  ASSUME NEW contents \in Seq(Pupil)
  PROVE  GoodHash(fill(contents))
<1> SUFFICES \E f \in [0 .. Len(contents) -> {h \in [Indexes -> Seq(NodeSet)] : GoodHash(h)}] :
               /\ f[0] = [i \in Indexes |-> << >>] /\ fill(contents) = f[Len(contents)]
               /\ \A i \in 1 .. Len(contents) : f[i] = HashAdd(f[i - 1], contents[i])
  <2>1. PICK f \in [0 .. Len(contents) -> {h \in [Indexes -> Seq(NodeSet)] : GoodHash(h)}] : fill(contents) = f[Len(contents)]
    OBVIOUS
  <2>2. Len(contents) \in 0 .. Len(contents)
    OBVIOUS
  <2> QED BY <2>1, <2>2
<1> DEFINE N == Len(contents)
           W == {h \in [Indexes -> Seq(NodeSet)] : GoodHash(h)}
           first == [i \in Indexes |-> << >>]
           Step(m, i) == HashAdd(m, contents[i])
           step == [x \in (1 .. N) \X W |-> Step(x[2], x[1])]
           F == CHOOSE f : f = FillSoFar(contents, f)
<1>1. N \in Nat /\ first \in W /\ \A m \in W : \A i \in 1 .. N : Step(m, i) \in W
  <2>1. N \in Nat /\ \A i \in 1 .. N : contents[i] \in Pupil
    OBVIOUS
  <2>2. << >> \in Seq(NodeSet) /\ Len(<< >>) = 0
    OBVIOUS
  <2>3. \A j : j \notin 1 .. Len(<< >>)
    BY <2>2
  <2>4. \A i \in Indexes : GoodChain(i, << >>)
    BY <2>2, <2>3 DEF GoodChain
  <2>5. first \in W
    BY <2>2, <2>4 DEF GoodHash
  <2>6. ASSUME NEW m \in W, NEW i \in 1 .. N PROVE Step(m, i) \in W
    <3>1. GoodHash(HashAdd(m, contents[i]))
      BY <2>1, HashAddKeeps
    <3> QED BY <3>1 DEF GoodHash
  <2> QED BY <2>1, <2>5, <2>6
<1>2. fill(contents) = F[N]
  BY DEF fill, FillSoFar
<1>3. ASSUME NEW f PROVE FillSoFar(contents, f) = [n \in 0 .. N |-> IF n = 0 THEN first ELSE Step(f[n - 1], n)]
  BY DEF FillSoFar
<1> HIDE DEF N, W, F, first, Step
<1>4. step \in [(1 .. N) \X W -> W] /\ \A i \in 1 .. N : \A m \in W : step[<< i, m >>] = Step(m, i)
  BY <1>1
<1> HIDE DEF step
<1>5. PICK g : Defined(g, N, W, first, step)
  BY <1>1, <1>4, Recursion, Zenon
<1>6. g = FillSoFar(contents, g)
  <2>1. g \in [0 .. N -> W] /\ g[0] = first /\ \A i \in 1 .. N : g[i] = step[<< i, g[i - 1] >>]
    BY <1>5 DEF Defined
  <2>2. \A i \in 1 .. N : g[i] = Step(g[i - 1], i)
    <3> TAKE i \in 1 .. N
    <3>1. i - 1 \in 0 .. N
      BY <1>1
    <3> QED BY <1>4, <2>1, <3>1
  <2>3. \A i \in 0 .. N : g[i] = IF i = 0 THEN first ELSE Step(g[i - 1], i)
    BY <1>1, <2>1, <2>2
  <2> DEFINE G == [n \in 0 .. N |-> IF n = 0 THEN first ELSE Step(g[n - 1], n)]
  <2>4. g = G
    BY <2>1, <2>3
  <2>5. FillSoFar(contents, g) = G
    BY <1>3
  <2> QED BY <2>4, <2>5
<1>7. F = FillSoFar(contents, F)
  BY <1>6 DEF F
<1> DEFINE R == [k \in 1 .. N |-> Step(F[k - 1], k)]
<1>8. F = [k \in 0 .. N |-> IF k = 0 THEN first ELSE R[k]]
  <2>1. \A k \in 0 .. N : k # 0 => k \in 1 .. N
    BY <1>1
  <2> QED BY <1>3, <1>7, <2>1
<1>9. \A k \in 1 .. N : F[k - 1] \in W => R[k] = step[<< k, F[k - 1] >>]
  BY <1>4
<1> HIDE DEF R
<1>10. Defined(F, N, W, first, step)
  BY <1>1, <1>4, <1>8, <1>9, RuleFollowed
<1>11. F \in [0 .. N -> W] /\ F[0] = first /\ \A i \in 1 .. N : F[i] = step[<< i, F[i - 1] >>]
  BY <1>10 DEF Defined
<1>12. \A i \in 1 .. N : F[i] = Step(F[i - 1], i)
  <2> TAKE i \in 1 .. N
  <2>1. i - 1 \in 0 .. N
    BY <1>1
  <2> QED BY <1>4, <1>11, <2>1
<1> QED BY <1>2, <1>11, <1>12 DEF N, W, first, Step

-------------------------------------------------------------------------------
(* Every element of what FlattenSeq returns has one place in the sequences.    *)
Places(ss, n) == {x \in Nat \X Nat : x[1] \in 1 .. n /\ x[2] \in 1 .. Len(ss[x[1]])}

GluesAs(h, ss, n, q) ==
  /\ h \in [1 .. Len(q) -> Places(ss, n)]
  /\ \A k, m \in 1 .. Len(q) : h[k] = h[m] => k = m
  /\ \A x \in Places(ss, n) : \E k \in 1 .. Len(q) : h[k] = x
  /\ \A k \in 1 .. Len(q) : q[k] = ss[h[k][1]][h[k][2]]

LEMMA PlacesAre ==
  ASSUME NEW ss, NEW n
  PROVE  /\ \A i \in 1 .. n : \A j \in 1 .. Len(ss[i]) : i \in Nat /\ j \in Nat => << i, j >> \in Places(ss, n)
         /\ \A x \in Places(ss, n) : /\ x[1] \in 1 .. n /\ x[2] \in 1 .. Len(ss[x[1]])
                                     /\ x = << x[1], x[2] >> /\ x[1] \in Nat /\ x[2] \in Nat
BY DEF Places

LEMMA GlueStep ==
  ASSUME NEW V, NEW ss \in Seq(Seq(V)), NEW n \in Nat, n + 1 <= Len(ss),
         NEW q \in Seq(V), NEW h, GluesAs(h, ss, n, q)
  PROVE  \E g : GluesAs(g, ss, n + 1, q \o ss[n + 1])
<1> DEFINE a == Len(q)
           t == ss[n + 1]
           b == Len(t)
           r == q \o t
           g == [k \in 1 .. a + b |-> IF k <= a THEN h[k] ELSE << n + 1, k - a >>]
<1>1. t \in Seq(V) /\ n + 1 \in 1 .. Len(ss)
  OBVIOUS
<1>2. r \in Seq(V) /\ Len(r) = a + b /\ a \in Nat /\ b \in Nat
      /\ \A k \in 1 .. a + b : r[k] = IF k <= a THEN q[k] ELSE t[k - a]
  BY <1>1, GlueIs
<1>3. /\ h \in [1 .. a -> Places(ss, n)]
      /\ \A k, m \in 1 .. a : h[k] = h[m] => k = m
      /\ \A x \in Places(ss, n) : \E k \in 1 .. a : h[k] = x
      /\ \A k \in 1 .. a : q[k] = ss[h[k][1]][h[k][2]]
  BY DEF GluesAs
<1> HIDE DEF r, a, b, t
<1>4. ASSUME NEW k \in 1 .. a + b
      PROVE  \/ k \in 1 .. a /\ k <= a /\ g[k] = h[k]
             \/ k - a \in 1 .. b /\ ~(k <= a) /\ g[k] = << n + 1, k - a >>
  BY <1>2
<1>5. \A x \in Places(ss, n) : x \in Places(ss, n + 1) /\ x[1] # n + 1
  <2> TAKE x \in Places(ss, n)
  <2>1. x[1] \in 1 .. n /\ x[2] \in 1 .. Len(ss[x[1]]) /\ x = << x[1], x[2] >> /\ x[1] \in Nat /\ x[2] \in Nat
    BY PlacesAre
  <2>2. x[1] \in 1 .. n + 1 /\ x[1] # n + 1
    BY <2>1
  <2>3. << x[1], x[2] >> \in Places(ss, n + 1)
    BY <2>1, <2>2, PlacesAre
  <2> QED BY <2>1, <2>2, <2>3
<1>6. \A j \in 1 .. b : << n + 1, j >> \in Places(ss, n + 1)
  <2> TAKE j \in 1 .. b
  <2>1. n + 1 \in 1 .. n + 1 /\ n + 1 \in Nat /\ j \in Nat /\ j \in 1 .. Len(ss[n + 1])
    BY <1>2 DEF b, t
  <2> QED BY <2>1, PlacesAre
<1>7. \A x \in Places(ss, n + 1) : x \in Places(ss, n) \/ \E j \in 1 .. b : x = << n + 1, j >>
  <2> TAKE x \in Places(ss, n + 1)
  <2>1. x[1] \in 1 .. n + 1 /\ x[2] \in 1 .. Len(ss[x[1]]) /\ x = << x[1], x[2] >> /\ x[1] \in Nat /\ x[2] \in Nat
    BY PlacesAre
  <2>2. CASE x[1] = n + 1
    BY <2>1, <2>2 DEF b, t
  <2>3. CASE x[1] # n + 1
    <3>1. x[1] \in 1 .. n
      BY <2>1, <2>3
    <3> QED BY <2>1, <3>1, PlacesAre
  <2> QED BY <2>2, <2>3
<1>8. DOMAIN g = 1 .. a + b
  OBVIOUS
<1>9. g = [k \in 1 .. a + b |-> g[k]]
  OBVIOUS
<1> HIDE DEF g
<1>10. g \in [1 .. a + b -> Places(ss, n + 1)]
  <2>1. \A k \in 1 .. a + b : g[k] \in Places(ss, n + 1)
    <3> TAKE k \in 1 .. a + b
    <3>1. CASE k \in 1 .. a /\ g[k] = h[k]
      BY <1>3, <1>5, <3>1
    <3>2. CASE k - a \in 1 .. b /\ g[k] = << n + 1, k - a >>
      BY <1>6, <3>2
    <3> QED BY <1>4, <3>1, <3>2
  <2> QED BY <1>9, <2>1
<1>11. \A j, m : << n + 1, j >>[1] = n + 1 /\ << n + 1, j >>[2] = j
  OBVIOUS
<1>12. ASSUME NEW k \in 1 .. a + b, NEW m \in 1 .. a + b, g[k] = g[m] PROVE k = m
  <2>1. \/ k \in 1 .. a /\ k <= a /\ g[k] = h[k]
        \/ k - a \in 1 .. b /\ ~(k <= a) /\ g[k] = << n + 1, k - a >>
    BY <1>4
  <2>2. \/ m \in 1 .. a /\ m <= a /\ g[m] = h[m]
        \/ m - a \in 1 .. b /\ ~(m <= a) /\ g[m] = << n + 1, m - a >>
    BY <1>4
  <2>3. CASE k \in 1 .. a /\ g[k] = h[k]
    <3>1. g[k][1] # n + 1
      BY <1>3, <1>5, <2>3
    <3> QED BY <1>3, <1>11, <1>12, <2>2, <2>3, <3>1
  <2>4. CASE k - a \in 1 .. b /\ g[k] = << n + 1, k - a >>
    <3>1. g[m][1] = n + 1 /\ g[m][2] = k - a
      BY <1>11, <1>12, <2>4
    <3>2. ~(m \in 1 .. a /\ g[m] = h[m])
      BY <1>3, <1>5, <3>1
    <3>3. m - a = k - a
      BY <1>11, <2>2, <3>1, <3>2
    <3> QED BY <1>2, <3>3
  <2> QED BY <2>1, <2>3, <2>4
<1>13. ASSUME NEW x \in Places(ss, n + 1) PROVE \E k \in 1 .. a + b : g[k] = x
  <2>1. CASE x \in Places(ss, n)
    <3>1. PICK k \in 1 .. a : h[k] = x
      BY <1>3, <2>1
    <3>2. k \in 1 .. a + b /\ k <= a /\ ~(k - a \in 1 .. b)
      BY <1>2
    <3> QED BY <1>4, <3>1, <3>2
  <2>2. ASSUME NEW j \in 1 .. b, x = << n + 1, j >> PROVE \E k \in 1 .. a + b : g[k] = x
    <3>1. a + j \in 1 .. a + b /\ ~(a + j <= a) /\ (a + j) - a = j
      BY <1>2
    <3>2. g[a + j] = << n + 1, (a + j) - a >>
      BY <1>4, <3>1
    <3> QED BY <2>2, <3>1, <3>2
  <2> QED BY <1>7, <2>1, <2>2
<1>14. ASSUME NEW k \in 1 .. a + b PROVE r[k] = ss[g[k][1]][g[k][2]]
  <2>1. CASE k \in 1 .. a /\ k <= a /\ g[k] = h[k]
    BY <1>2, <1>3, <2>1
  <2>2. CASE k - a \in 1 .. b /\ ~(k <= a) /\ g[k] = << n + 1, k - a >>
    <3>1. r[k] = t[k - a] /\ g[k][1] = n + 1 /\ g[k][2] = k - a
      BY <1>2, <1>11, <2>2
    <3> QED BY <3>1 DEF t
  <2> QED BY <1>4, <2>1, <2>2
<1>15. GluesAs(g, ss, n + 1, r)
  <2>1. 1 .. Len(r) = 1 .. a + b
    BY <1>2
  <2> QED BY <2>1, <1>10, <1>12, <1>13, <1>14 DEF GluesAs
<1> QED BY <1>15 DEF r, t

LEMMA FlattenPlaces ==
  ASSUME NEW V, NEW ss \in Seq(Seq(V))
  PROVE  FlattenSeq(ss) \in Seq(V) /\ \E h : GluesAs(h, ss, Len(ss), FlattenSeq(ss))
<1>1. CASE Len(ss) = 0
  <2> DEFINE h == [k \in 1 .. 0 |-> k]
             q == FlattenSeq(ss)
  <2>1. q = ss /\ ss = << >>
    BY <1>1 DEF FlattenSeq
  <2>2. q \in Seq(V) /\ Len(q) = 0 /\ (\A k : k \notin 1 .. Len(q)) /\ \A k : k \notin 1 .. Len(ss)
    BY <1>1, <2>1
  <2>3. 1 .. Len(q) = 1 .. 0
    BY <2>2
  <2> HIDE DEF q
  <2>4. \A x \in Places(ss, Len(ss)) : FALSE
    BY <2>2 DEF Places
  <2>5. h \in [1 .. Len(q) -> Places(ss, Len(ss))]
    <3>1. \A k \in 1 .. 0 : FALSE
      OBVIOUS
    <3> QED BY <2>3, <3>1
  <2>6. GluesAs(h, ss, Len(ss), q)
    BY <2>2, <2>4, <2>5 DEF GluesAs
  <2> QED BY <2>2, <2>6 DEF q
<1>2. CASE Len(ss) > 0
  <2> DEFINE N == Len(ss)
  <2>1. PICK f \in [1 .. N -> Seq(V)] : f[1] = ss[1] /\ Glued(ss) = f[N] /\ \A i \in 2 .. N : f[i] = f[i - 1] \o ss[i]
    BY <1>2, GluedRule
  <2>2. FlattenSeq(ss) = Glued(ss)
    BY <1>2 DEF FlattenSeq, Glued, FlattenSoFar
  <2>3. N \in Nat /\ N >= 1 /\ \A i \in 1 .. N : ss[i] \in Seq(V)
    BY <1>2
  <2> HIDE DEF N
  <2> DEFINE Good(k) == \E h : GluesAs(h, ss, k, f[k])
             S == {k \in Nat : k + 1 <= N => Good(k + 1)}
  <2>4. 0 \in S
    <3> DEFINE h == [k \in 1 .. 0 |-> k]
               none == << >>
    <3>1. none \in Seq(V) /\ Len(none) = 0 /\ (\A k : k \notin 1 .. Len(none)) /\ 1 .. Len(none) = 1 .. 0
      OBVIOUS
    <3> HIDE DEF none
    <3>2. \A x \in Places(ss, 0) : FALSE
      BY DEF Places
    <3>3. h \in [1 .. Len(none) -> Places(ss, 0)]
      <4>1. \A k \in 1 .. 0 : FALSE
        OBVIOUS
      <4> QED BY <3>1, <4>1
    <3>4. GluesAs(h, ss, 0, none)
      BY <3>1, <3>2, <3>3 DEF GluesAs
    <3>5. 0 + 1 <= Len(ss) /\ 0 \in Nat /\ 1 \in 1 .. N
      BY <2>3 DEF N
    <3>6. \E g : GluesAs(g, ss, 0 + 1, none \o ss[0 + 1])
      BY <3>1, <3>4, <3>5, GlueStep
    <3>7. none \o ss[1] = f[1]
      <4>1. ss[1] \in Seq(V)
        BY <2>3, <3>5
      <4> QED BY <2>1, <4>1 DEF none
    <3>8. 0 + 1 = 1
      OBVIOUS
    <3>9. \E g : GluesAs(g, ss, 0 + 1, f[0 + 1])
      BY <3>6, <3>7, <3>8
    <3> QED BY <3>9
  <2>5. ASSUME NEW k \in Nat, k \in S PROVE k + 1 \in S
    <3> SUFFICES ASSUME (k + 1) + 1 <= N PROVE Good((k + 1) + 1)
      OBVIOUS
    <3>1. (k + 1) + 1 \in 2 .. N /\ ((k + 1) + 1) - 1 = k + 1 /\ k + 1 \in 1 .. N /\ k + 1 \in Nat /\ k + 1 <= N
      BY <2>3
    <3>2. f[k + 1] \in Seq(V) /\ f[(k + 1) + 1] = f[k + 1] \o ss[(k + 1) + 1]
      BY <2>1, <3>1
    <3>3. PICK h : GluesAs(h, ss, k + 1, f[k + 1])
      BY <2>5, <3>1
    <3> DEFINE m == k + 1
    <3>4. m \in Nat /\ m + 1 <= Len(ss)
      BY <3>1 DEF N
    <3> HIDE DEF m
    <3>5. GluesAs(h, ss, m, f[m]) /\ f[m] \in Seq(V)
      BY <3>2, <3>3 DEF m
    <3>6. \E g : GluesAs(g, ss, m + 1, f[m] \o ss[m + 1])
      BY <3>4, <3>5, GlueStep
    <3> QED BY <3>2, <3>6 DEF m
  <2> HIDE DEF S
  <2>6. \A k \in Nat : k \in S
    BY <2>4, <2>5, Induction
  <2>7. N - 1 \in Nat /\ (N - 1) + 1 = N /\ N \in 1 .. N
    BY <2>3
  <2>8. N - 1 \in S
    BY <2>6, <2>7
  <2>9. \E h : GluesAs(h, ss, N, f[N])
    BY <2>7, <2>8 DEF S
  <2> QED BY <2>1, <2>2, <2>7, <2>9 DEF N
<1>3. Len(ss) \in Nat
  OBVIOUS
<1> QED BY <1>1, <1>2, <1>3

-------------------------------------------------------------------------------
(* The order in which a recursion visits the paths of a tree.                  *)
Turns(p, q, first, i) ==
  /\ i \in DOMAIN p \cap DOMAIN q
  /\ p[i] = first /\ q[i] # first /\ \A j \in 1 .. i - 1 : p[j] = q[j]

Leads(p, q) == Len(p) < Len(q) /\ \A i \in DOMAIN p : p[i] = q[i]

LEMMA BeforeIs ==
  ASSUME NEW p, NEW q, NEW first
  PROVE  Before(p, q, first) <=> Leads(p, q) \/ \E i : Turns(p, q, first, i)
BY DEF Before, Leads, Turns

LEMMA BeforeTransitive ==
  ASSUME NEW p \in Paths, NEW q \in Paths, NEW r \in Paths, NEW first,
         Before(p, q, first), Before(q, r, first)
  PROVE  Before(p, r, first)
<1>1. /\ Len(p) \in Nat /\ DOMAIN p = 1 .. Len(p) /\ Len(q) \in Nat /\ DOMAIN q = 1 .. Len(q)
      /\ Len(r) \in Nat /\ DOMAIN r = 1 .. Len(r)
  BY PathFacts
<1>2. CASE Leads(p, q) /\ Leads(q, r)
  <2>1. Leads(p, r)
    <3>1. \A i \in 1 .. Len(p) : i \in 1 .. Len(q)
      BY <1>1, <1>2 DEF Leads
    <3> QED BY <1>1, <1>2, <3>1 DEF Leads
  <2> QED BY <2>1, BeforeIs
<1>3. ASSUME Leads(p, q), NEW i, Turns(q, r, first, i) PROVE Before(p, r, first)
  <2>1. i \in 1 .. Len(q) /\ i \in 1 .. Len(r) /\ q[i] = first /\ r[i] # first /\ \A j \in 1 .. i - 1 : q[j] = r[j]
    BY <1>1, <1>3 DEF Turns
  <2>2. Len(p) < Len(q) /\ \A j \in 1 .. Len(p) : p[j] = q[j]
    BY <1>1, <1>3 DEF Leads
  <2>3. CASE i <= Len(p)
    <3>1. i \in 1 .. Len(p) /\ \A j \in 1 .. i - 1 : j \in 1 .. Len(p)
      BY <1>1, <2>1, <2>3
    <3>2. Turns(p, r, first, i)
      BY <1>1, <2>1, <2>2, <3>1 DEF Turns
    <3> QED BY <3>2, BeforeIs
  <2>4. CASE ~(i <= Len(p))
    <3>1. Len(p) < Len(r) /\ \A j \in 1 .. Len(p) : j \in 1 .. i - 1
      BY <1>1, <2>1, <2>4
    <3>2. Leads(p, r)
      BY <1>1, <2>1, <2>2, <3>1 DEF Leads
    <3> QED BY <3>2, BeforeIs
  <2> QED BY <2>3, <2>4
<1>4. ASSUME NEW i, Turns(p, q, first, i), Leads(q, r) PROVE Before(p, r, first)
  <2>1. i \in 1 .. Len(p) /\ i \in 1 .. Len(q) /\ p[i] = first /\ q[i] # first /\ \A j \in 1 .. i - 1 : p[j] = q[j]
    BY <1>1, <1>4 DEF Turns
  <2>2. Len(q) < Len(r) /\ \A j \in 1 .. Len(q) : q[j] = r[j]
    BY <1>1, <1>4 DEF Leads
  <2>3. i \in 1 .. Len(r) /\ \A j \in 1 .. i - 1 : j \in 1 .. Len(q)
    BY <1>1, <2>1, <2>2
  <2>4. Turns(p, r, first, i)
    BY <1>1, <2>1, <2>2, <2>3 DEF Turns
  <2> QED BY <2>4, BeforeIs
<1>5. ASSUME NEW i, Turns(p, q, first, i), NEW k, Turns(q, r, first, k) PROVE Before(p, r, first)
  <2>1. i \in 1 .. Len(p) /\ i \in 1 .. Len(q) /\ p[i] = first /\ q[i] # first /\ \A j \in 1 .. i - 1 : p[j] = q[j]
    BY <1>1, <1>5 DEF Turns
  <2>2. k \in 1 .. Len(q) /\ k \in 1 .. Len(r) /\ q[k] = first /\ r[k] # first /\ \A j \in 1 .. k - 1 : q[j] = r[j]
    BY <1>1, <1>5 DEF Turns
  <2>3. CASE i < k
    <3>1. i \in 1 .. k - 1 /\ i \in 1 .. Len(r) /\ \A j \in 1 .. i - 1 : j \in 1 .. k - 1
      BY <1>1, <2>1, <2>2, <2>3
    <3>2. Turns(p, r, first, i)
      BY <1>1, <2>1, <2>2, <3>1 DEF Turns
    <3> QED BY <3>2, BeforeIs
  <2>4. CASE k < i
    <3>1. k \in 1 .. i - 1 /\ k \in 1 .. Len(p) /\ \A j \in 1 .. k - 1 : j \in 1 .. i - 1
      BY <1>1, <2>1, <2>2, <2>4
    <3>2. Turns(p, r, first, k)
      BY <1>1, <2>1, <2>2, <3>1 DEF Turns
    <3> QED BY <3>2, BeforeIs
  <2>5. i # k
    BY <2>1, <2>2
  <2>6. i < k \/ k < i
    BY <1>1, <2>1, <2>2, <2>5
  <2> QED BY <2>3, <2>4, <2>6
<1> QED BY <1>2, <1>3, <1>4, <1>5, BeforeIs

LEMMA BeforeTotal ==
  ASSUME NEW p \in Paths, NEW q \in Paths, NEW first \in {"left", "right"}, p # q
  PROVE  Before(p, q, first) \/ Before(q, p, first)
<1>1. /\ Len(p) \in Nat /\ DOMAIN p = 1 .. Len(p) /\ Len(q) \in Nat /\ DOMAIN q = 1 .. Len(q)
      /\ (\A k \in 1 .. Len(p) : p[k] \in {"left", "right"}) /\ \A k \in 1 .. Len(q) : q[k] \in {"left", "right"}
  BY PathFacts
<1>2. p = [i \in 1 .. Len(p) |-> p[i]] /\ q = [i \in 1 .. Len(q) |-> q[i]]
  BY DEF Paths
<1> DEFINE D == {i \in 1 .. Len(p) : i \in 1 .. Len(q) /\ p[i] # q[i]}
<1>3. CASE D # {}
  <2> DEFINE i == Min(D)
  <2>1. D \in SUBSET Nat
    BY <1>1
  <2>2. i \in D /\ \A y \in D : i <= y
    BY <1>3, <2>1, MinOfNaturals
  <2>3. i \in 1 .. Len(p) /\ i \in 1 .. Len(q) /\ p[i] # q[i]
    BY <2>2
  <2> HIDE DEF i
  <2>4. \A j \in 1 .. i - 1 : p[j] = q[j]
    <3> TAKE j \in 1 .. i - 1
    <3>1. j \in 1 .. Len(p) /\ j \in 1 .. Len(q) /\ ~(i <= j)
      BY <1>1, <2>3
    <3> QED BY <2>2, <3>1
  <2>5. p[i] = first \/ q[i] = first
    <3>1. p[i] \in {"left", "right"} /\ q[i] \in {"left", "right"}
      BY <1>1, <2>3
    <3> QED BY <2>3, <3>1
  <2>6. Turns(p, q, first, i) \/ Turns(q, p, first, i)
    BY <1>1, <2>3, <2>4, <2>5 DEF Turns
  <2> QED BY <2>6, BeforeIs
<1>4. CASE D = {}
  <2>1. \A i \in 1 .. Len(p) : i \in 1 .. Len(q) => p[i] = q[i]
    BY <1>4
  <2> HIDE DEF D
  <2>2. Len(p) # Len(q)
    <3> SUFFICES ASSUME Len(p) = Len(q) PROVE FALSE
      OBVIOUS
    <3> QED BY <1>2, <2>1
  <2>3. CASE Len(p) < Len(q)
    <3>1. \A i \in 1 .. Len(p) : i \in 1 .. Len(q)
      BY <1>1, <2>3
    <3>2. Leads(p, q)
      BY <1>1, <2>1, <2>3, <3>1 DEF Leads
    <3> QED BY <3>2, BeforeIs
  <2>4. CASE Len(q) < Len(p)
    <3>1. \A i \in 1 .. Len(q) : i \in 1 .. Len(p)
      BY <1>1, <2>4
    <3>2. Leads(q, p)
      BY <1>1, <2>1, <2>4, <3>1 DEF Leads
    <3> QED BY <3>2, BeforeIs
  <2>5. Len(p) < Len(q) \/ Len(q) < Len(p)
    <3>1. Len(p) \in Nat /\ Len(q) \in Nat
      BY <1>1
    <3> QED BY <2>2, <3>1
  <2> QED BY <2>3, <2>4, <2>5
<1> QED BY <1>3, <1>4

LEMMA BeforeIsOrder ==
  ASSUME NEW P \in SUBSET Paths, NEW first \in {"left", "right"}
  PROVE  IsOrderOf(P, {x \in P \X P : Before(x[1], x[2], first)})
<1> DEFINE O == {x \in P \X P : Before(x[1], x[2], first)}
<1>1. \A p, q \in P : << p, q >> \in O <=> Before(p, q, first)
  OBVIOUS
<1> HIDE DEF O
<1>2. ASSUME NEW p \in P PROVE ~Before(p, p, first)
  <2>1. Len(p) \in Nat
    BY PathFacts
  <2> QED BY <2>1, BeforeIs DEF Leads, Turns
<1>3. \A p, q \in P : p # q => Before(p, q, first) \/ Before(q, p, first)
  BY BeforeTotal
<1>4. \A p, q, r \in P : Before(p, q, first) /\ Before(q, r, first) => Before(p, r, first)
  BY BeforeTransitive
<1>5. IsOrderOf(P, O)
  BY <1>1, <1>2, <1>3, <1>4 DEF IsOrderOf
<1> QED BY <1>5 DEF O

LEMMA VisitsIs ==
  ASSUME NEW tree, GoodTree(tree), NEW P \in SUBSET DOMAIN tree, NEW first \in {"left", "right"}
  PROVE  LET v == Visits(tree, P, first)
         IN /\ v \in Seq(Pupil) /\ IsInjective(v) /\ Range(v) = {tree[p] : p \in P} /\ Len(v) = Cardinality(P)
<1> DEFINE O == {x \in P \X P : Before(x[1], x[2], first)}
           w == Arranged(P, O)
           n == Cardinality(P)
           v == [i \in DOMAIN w |-> tree[w[i]]]
<1>1. P \in SUBSET Paths /\ IsFiniteSet(P)
  <2>1. DOMAIN tree \in SUBSET Paths /\ IsFiniteSet(DOMAIN tree)
    BY TreeTyped
  <2> QED BY <2>1, FS_Subset
<1>2. IsOrderOf(P, O)
  BY <1>1, BeforeIsOrder
<1>3. Visits(tree, P, first) = v
  BY DEF Visits
<1> HIDE DEF O
<1>4. /\ w \in Seq(P) /\ Len(w) = n
      /\ \A x \in P : \E i \in 1 .. Len(w) : w[i] = x
      /\ \A i, j \in 1 .. Len(w) : i < j => << w[i], w[j] >> \in O
  BY <1>1, <1>2, ArrangedIs
<1>5. n \in Nat /\ DOMAIN w = 1 .. n
  <2>1. n \in Nat
    BY <1>1, FS_CardinalityType
  <2> HIDE DEF w, n
  <2> QED BY <1>4, <2>1
<1> HIDE DEF w, n
<1>6. \A i \in 1 .. n : w[i] \in P
  BY <1>4
<1>7. \A i, j \in 1 .. n : w[i] = w[j] => i = j
  <2> SUFFICES ASSUME NEW i \in 1 .. n, NEW j \in 1 .. n, w[i] = w[j], i # j PROVE FALSE
    OBVIOUS
  <2>1. i < j \/ j < i
    OBVIOUS
  <2>2. << w[i], w[j] >> \in O \/ << w[j], w[i] >> \in O
    BY <1>4, <2>1
  <2>3. << w[i], w[i] >> \in O /\ w[i] \in P
    BY <1>6, <2>2
  <2> QED BY <1>2, <2>3 DEF IsOrderOf
<1>8. \A p \in P : tree[p] \in Pupil
  BY TreeTyped
<1>9. DOMAIN v = 1 .. n /\ \A i \in 1 .. n : v[i] = tree[w[i]]
  BY <1>5
<1>10. v \in [1 .. n -> Pupil]
  BY <1>5, <1>6, <1>8
<1> HIDE DEF v
<1>11. v \in Seq(Pupil) /\ Len(v) = n
  BY <1>5, <1>10
<1>12. IsInjective(v)
  <2> SUFFICES ASSUME NEW i \in 1 .. n, NEW j \in 1 .. n, v[i] = v[j] PROVE i = j
    BY <1>9 DEF IsInjective
  <2>1. w[i] \in DOMAIN tree /\ w[j] \in DOMAIN tree /\ tree[w[i]].name = tree[w[j]].name
    BY <1>6, <1>9
  <2> QED BY <1>7, <2>1, TreeFindsNames
<1>13. Range(v) = {tree[p] : p \in P}
  BY <1>4, <1>6, <1>9 DEF Range
<1> QED BY <1>3, <1>11, <1>12, <1>13 DEF n

(* What print writes of a group: its students from the list, and again from    *)
(* the tree.                                                                   *)
LEMMA PieceIs ==
  ASSUME NEW node, GoodNode(node)
  PROVE  LET p == node.list \o rec_write(node.tree)
         IN /\ p \in Seq(Pupil) /\ \A j \in 1 .. Len(p) : p[j] \in Range(node.list)
            /\ \A s \in Range(node.list) : \E a, b \in 1 .. Len(p) :
                 a # b /\ p[a] = s /\ p[b] = s /\ \A j \in 1 .. Len(p) : p[j] = s => j = a \/ j = b
<1> DEFINE tree == node.tree
           lst == node.list
           v == Visits(tree, DOMAIN tree, "right")
           m == Len(lst)
           p == lst \o v
<1>1. /\ GoodTree(tree) /\ lst \in Seq(Pupil) /\ IsInjective(lst) /\ Range(tree) = Range(lst)
      /\ Cardinality(DOMAIN tree) = m
  BY DEF GoodNode, NodeSet
<1>2. rec_write(tree) = v
  BY DEF rec_write
<1>3. v \in Seq(Pupil) /\ IsInjective(v) /\ Range(v) = {tree[q] : q \in DOMAIN tree} /\ Len(v) = m
  <2>1. "right" \in {"left", "right"}
    OBVIOUS
  <2> HIDE DEF tree
  <2>2. DOMAIN tree \in SUBSET DOMAIN tree
    OBVIOUS
  <2> QED BY <1>1, <2>1, <2>2, VisitsIs
<1>4. Range(v) = Range(lst)
  BY <1>1, <1>3 DEF Range
<1> HIDE DEF tree, lst, v
<1>5. p \in Seq(Pupil) /\ Len(p) = Len(lst) + Len(v) /\ \A k \in 1 .. Len(lst) + Len(v) : p[k] = IF k <= Len(lst) THEN lst[k] ELSE v[k - Len(lst)]
  BY <1>1, <1>3, GlueIs
<1>6. m \in Nat /\ DOMAIN lst = 1 .. m /\ DOMAIN v = 1 .. m
  BY <1>1, <1>3
<1> HIDE DEF p, m
<1>7. Len(p) = m + m /\ \A k \in 1 .. m + m : p[k] = IF k <= m THEN lst[k] ELSE v[k - m]
  BY <1>3, <1>5 DEF m
<1>8. ASSUME NEW k \in 1 .. m + m
      PROVE  (k \in 1 .. m /\ p[k] = lst[k]) \/ (k - m \in 1 .. m /\ ~(k <= m) /\ p[k] = v[k - m])
  <2>1. (k \in 1 .. m /\ k <= m) \/ (k - m \in 1 .. m /\ ~(k <= m))
    BY <1>6
  <2> QED BY <1>7, <2>1
<1>9. ASSUME NEW j \in 1 .. m + m PROVE p[j] \in Range(lst)
  <2>1. CASE j \in 1 .. m /\ p[j] = lst[j]
    BY <1>6, <2>1 DEF Range
  <2>2. CASE j - m \in 1 .. m /\ p[j] = v[j - m]
    <3>1. p[j] \in Range(v)
      BY <1>6, <2>2 DEF Range
    <3> QED BY <1>4, <3>1
  <2> QED BY <1>8, <2>1, <2>2
<1>10. ASSUME NEW s \in Range(lst)
       PROVE  \E a, b \in 1 .. m + m :
                a # b /\ p[a] = s /\ p[b] = s /\ \A j \in 1 .. m + m : p[j] = s => j = a \/ j = b
  <2>1. PICK a \in 1 .. m : lst[a] = s
    BY <1>6 DEF Range
  <2>2. s \in Range(v)
    BY <1>4
  <2>3. PICK c \in 1 .. m : v[c] = s
    BY <1>6, <2>2 DEF Range
  <2> DEFINE b == m + c
  <2>4. a \in 1 .. m + m /\ a <= m /\ b \in 1 .. m + m /\ ~(b <= m) /\ b - m = c /\ a # b
    BY <1>6
  <2>5. p[a] = s
    BY <1>7, <2>1, <2>4
  <2>6. p[b] = s
    BY <1>7, <2>3, <2>4
  <2>7. ASSUME NEW j \in 1 .. m + m, p[j] = s PROVE j = a \/ j = b
    <3>1. CASE j \in 1 .. m /\ p[j] = lst[j]
      BY <1>1, <1>6, <2>1, <2>7, <3>1 DEF IsInjective
    <3>2. CASE j - m \in 1 .. m /\ p[j] = v[j - m]
      <4>1. j - m = c
        BY <1>3, <1>6, <2>3, <2>7, <3>2 DEF IsInjective
      <4> QED BY <1>6, <4>1
    <3> QED BY <1>8, <3>1, <3>2
  <2> HIDE DEF b
  <2> QED BY <2>4, <2>5, <2>6, <2>7
<1> QED BY <1>2, <1>5, <1>7, <1>9, <1>10 DEF p, tree, lst

LEMMA FunctionSeq ==
  ASSUME NEW V, NEW n \in Nat, NEW s \in [1 .. n -> V]
  PROVE  s \in Seq(V) /\ Len(s) = n
OBVIOUS

NodesOf(nodes, hash) ==
  /\ nodes \in Seq(NodeSet) /\ \A i \in 1 .. Len(nodes) : GoodNode(nodes[i])
  /\ \A i, j \in 1 .. Len(nodes) : nodes[i].group = nodes[j].group => i = j
  /\ \A i \in 1 .. Len(nodes) : \E x \in Indexes : \E j \in 1 .. Len(hash[x]) : nodes[i] = hash[x][j]
  /\ \A x \in Indexes : \A j \in 1 .. Len(hash[x]) : \E i \in 1 .. Len(nodes) : nodes[i] = hash[x][j]

LEMMA NodesIn ==
  ASSUME NEW hash, GoodHash(hash)
  PROVE  NodesOf(FlattenSeq([k \in 1 .. Cardinality(Indexes) |-> hash[k - 1]]), hash)
<1> DEFINE ss == [k \in 1 .. 6 |-> hash[k - 1]]
           nodes == FlattenSeq([k \in 1 .. Cardinality(Indexes) |-> hash[k - 1]])
<1>1. Cardinality(Indexes) = 6
  <2>1. PICK a \in Int, b \in Int : a = 0 /\ b = 5
    OBVIOUS
  <2>2. Cardinality(a .. b) = IF a > b THEN 0 ELSE b - a + 1
    BY FS_Interval
  <2>3. Cardinality(a .. b) = 6
    BY <2>1, <2>2
  <2> QED BY <2>1, <2>3 DEF Indexes
<1>0. nodes = FlattenSeq(ss)
  BY <1>1
<1> HIDE DEF nodes
<1>2. hash \in [Indexes -> Seq(NodeSet)] /\ \A x \in Indexes : GoodChain(x, hash[x])
  BY DEF GoodHash
<1>3. \A k \in 1 .. 6 : k - 1 \in Indexes
  BY DEF Indexes
<1>4. \A k \in 1 .. 6 : ss[k] = hash[k - 1] /\ ss[k] \in Seq(NodeSet)
  BY <1>2, <1>3
<1>5. ss \in [1 .. 6 -> Seq(NodeSet)]
  BY <1>2, <1>3
<1> HIDE DEF ss
<1>6. ss \in Seq(Seq(NodeSet)) /\ Len(ss) = 6
  BY <1>5, FunctionSeq
<1>7. nodes \in Seq(NodeSet) /\ \E h : GluesAs(h, ss, Len(ss), nodes)
  BY <1>6, <1>0, FlattenPlaces
<1>8. PICK h : GluesAs(h, ss, 6, nodes)
  BY <1>6, <1>7
<1>9. ASSUME NEW i \in 1 .. Len(nodes)
      PROVE  /\ h[i] \in Places(ss, 6)
             /\ h[i][1] \in 1 .. 6 /\ h[i][1] - 1 \in Indexes /\ h[i][2] \in 1 .. Len(hash[h[i][1] - 1])
             /\ nodes[i] = hash[h[i][1] - 1][h[i][2]]
             /\ h[i] = << h[i][1], h[i][2] >>
  <2>1. h[i] \in Places(ss, 6) /\ nodes[i] = ss[h[i][1]][h[i][2]]
    BY <1>8 DEF GluesAs
  <2>2. h[i][1] \in 1 .. 6 /\ h[i][2] \in 1 .. Len(ss[h[i][1]]) /\ h[i] = << h[i][1], h[i][2] >>
    BY <2>1, PlacesAre
  <2> QED BY <1>3, <1>4, <2>1, <2>2
<1>10. \A i \in 1 .. Len(nodes) : GoodNode(nodes[i])
  BY <1>2, <1>9 DEF GoodChain
<1>11. ASSUME NEW i \in 1 .. Len(nodes), NEW j \in 1 .. Len(nodes), nodes[i].group = nodes[j].group PROVE i = j
  <2> DEFINE x == h[i][1] - 1
             y == h[j][1] - 1
             a == h[i][2]
             b == h[j][2]
  <2>1. x \in Indexes /\ y \in Indexes /\ a \in 1 .. Len(hash[x]) /\ b \in 1 .. Len(hash[y])
        /\ nodes[i] = hash[x][a] /\ nodes[j] = hash[y][b] /\ h[i][1] \in 1 .. 6 /\ h[j][1] \in 1 .. 6
        /\ h[i] = << h[i][1], a >> /\ h[j] = << h[j][1], b >>
    BY <1>9
  <2>2. x = y => h[i][1] = h[j][1]
    BY <2>1
  <2> HIDE DEF x, y, a, b
  <2>3. hash_fun(nodes[i].group) = x /\ hash_fun(nodes[j].group) = y
    BY <1>2, <2>1 DEF GoodChain
  <2>4. x = y
    BY <1>11, <2>3
  <2>5. a = b
    BY <1>2, <1>11, <2>1, <2>4 DEF GoodChain
  <2>6. h[i] = h[j]
    BY <2>1, <2>2, <2>4, <2>5
  <2> QED BY <1>8, <2>6 DEF GluesAs
<1>12. ASSUME NEW x \in Indexes, NEW j \in 1 .. Len(hash[x]) PROVE \E i \in 1 .. Len(nodes) : nodes[i] = hash[x][j]
  <2> DEFINE k == x + 1
             place == << k, j >>
  <2>1. k \in 1 .. 6 /\ k - 1 = x /\ k \in Nat /\ x \in Int
    BY DEF Indexes
  <2>2. Len(hash[x]) \in Nat
    BY <1>2
  <2>3. j \in Nat /\ j \in 1 .. Len(ss[k])
    BY <1>4, <2>1, <2>2
  <2> HIDE DEF k
  <2>4. place \in Places(ss, 6)
    BY <2>1, <2>3, PlacesAre
  <2>5. place[1] = k /\ place[2] = j
    OBVIOUS
  <2> HIDE DEF place
  <2>6. PICK i \in 1 .. Len(nodes) : h[i] = place
    BY <1>8, <2>4 DEF GluesAs
  <2>7. nodes[i] = hash[x][j]
    BY <1>9, <2>1, <2>5, <2>6
  <2> QED BY <2>7
<1>13. \A i \in 1 .. Len(nodes) : \E x \in Indexes : \E j \in 1 .. Len(hash[x]) : nodes[i] = hash[x][j]
  BY <1>9
<1>14. NodesOf(nodes, hash)
  BY <1>7, <1>10, <1>11, <1>12, <1>13 DEF NodesOf
<1> QED BY <1>14 DEF nodes

(* print writes each student of the base twice, and nobody else.               *)
LEMMA WrittenTwice ==
  ASSUME NEW hash, GoodHash(hash)
  PROVE  LET lines == Written(hash)
         IN /\ \A s \in HashBase(hash) : Cardinality({k \in DOMAIN lines : lines[k] = s}) = 2
            /\ Range(lines) \subseteq HashBase(hash)
<1> DEFINE nodes == FlattenSeq([k \in 1 .. Cardinality(Indexes) |-> hash[k - 1]])
           n == Len(nodes)
           piece(i) == nodes[i].list \o rec_write(nodes[i].tree)
           pp == [i \in 1 .. n |-> piece(i)]
           lines == Written(hash)
<1>1. /\ nodes \in Seq(NodeSet) /\ \A i \in 1 .. n : GoodNode(nodes[i])
      /\ \A i, j \in 1 .. n : nodes[i].group = nodes[j].group => i = j
      /\ \A i \in 1 .. n : \E x \in Indexes : \E j \in 1 .. Len(hash[x]) : nodes[i] = hash[x][j]
      /\ \A x \in Indexes : \A j \in 1 .. Len(hash[x]) : \E i \in 1 .. n : nodes[i] = hash[x][j]
  <2>1. NodesOf(nodes, hash)
    BY NodesIn
  <2> HIDE DEF nodes
  <2> QED BY <2>1 DEF NodesOf
<1>2. lines = FlattenSeq([i \in DOMAIN nodes |-> piece(i)])
  BY DEF Written
<1> HIDE DEF nodes
<1>3. n \in Nat /\ DOMAIN nodes = 1 .. n
  BY <1>1
<1>4. lines = FlattenSeq(pp)
  BY <1>2, <1>3
<1> HIDE DEF lines
<1>5. ASSUME NEW i \in 1 .. n
      PROVE  /\ piece(i) \in Seq(Pupil) /\ \A j \in 1 .. Len(piece(i)) : piece(i)[j] \in Range(nodes[i].list)
             /\ \A s \in Range(nodes[i].list) : \E a, b \in 1 .. Len(piece(i)) :
                  a # b /\ piece(i)[a] = s /\ piece(i)[b] = s /\ \A j \in 1 .. Len(piece(i)) : piece(i)[j] = s => j = a \/ j = b
             /\ \A s \in Range(nodes[i].list) : s.group = nodes[i].group
  <2> DEFINE node == nodes[i]
  <2>1. GoodNode(node)
    BY <1>1
  <2> HIDE DEF node
  <2>2. /\ node.list \o rec_write(node.tree) \in Seq(Pupil)
        /\ \A j \in 1 .. Len(node.list \o rec_write(node.tree)) : (node.list \o rec_write(node.tree))[j] \in Range(node.list)
        /\ \A s \in Range(node.list) : \E a, b \in 1 .. Len(node.list \o rec_write(node.tree)) :
                  a # b /\ (node.list \o rec_write(node.tree))[a] = s /\ (node.list \o rec_write(node.tree))[b] = s
                  /\ \A j \in 1 .. Len(node.list \o rec_write(node.tree)) :
                       (node.list \o rec_write(node.tree))[j] = s => j = a \/ j = b
    BY <2>1, PieceIs
  <2>3. \A s \in Range(node.list) : s.group = node.group
    BY <2>1 DEF GoodNode
  <2> QED BY <2>2, <2>3 DEF node
<1> HIDE DEF piece
<1>6. \A i \in 1 .. n : pp[i] = piece(i)
  OBVIOUS
<1>7. pp \in [1 .. n -> Seq(Pupil)]
  BY <1>5
<1> HIDE DEF pp
<1>8. pp \in Seq(Seq(Pupil)) /\ Len(pp) = n
  BY <1>3, <1>7, FunctionSeq
<1>9. lines \in Seq(Pupil) /\ \E h : GluesAs(h, pp, n, lines)
  BY <1>4, <1>8, FlattenPlaces
<1>10. PICK h : GluesAs(h, pp, n, lines)
  BY <1>9
<1> DEFINE m == Len(lines)
<1>11. m \in Nat /\ DOMAIN lines = 1 .. m
  BY <1>9
<1>12. ASSUME NEW k \in 1 .. m
       PROVE  /\ h[k] = << h[k][1], h[k][2] >> /\ h[k][1] \in 1 .. n /\ h[k][2] \in 1 .. Len(pp[h[k][1]])
              /\ lines[k] = pp[h[k][1]][h[k][2]]
              /\ lines[k] \in Range(nodes[h[k][1]].list)
  <2>1. h[k] \in Places(pp, n) /\ lines[k] = pp[h[k][1]][h[k][2]]
    BY <1>10 DEF GluesAs
  <2>2. h[k][1] \in 1 .. n /\ h[k][2] \in 1 .. Len(pp[h[k][1]]) /\ h[k] = << h[k][1], h[k][2] >>
    BY <2>1, PlacesAre
  <2> QED BY <1>5, <1>6, <2>1, <2>2
<1>13. Range(lines) \subseteq HashBase(hash)
  <2> SUFFICES ASSUME NEW k \in 1 .. m PROVE lines[k] \in HashBase(hash)
    BY <1>11 DEF Range
  <2>1. PICK x \in Indexes : \E j \in 1 .. Len(hash[x]) : nodes[h[k][1]] = hash[x][j]
    BY <1>1, <1>12
  <2>2. lines[k] \in Pupil
    BY <1>9
  <2>3. PICK j \in 1 .. Len(hash[x]) : nodes[h[k][1]] = hash[x][j]
    BY <2>1
  <2>4. lines[k] \in Range(hash[x][j].list)
    BY <1>12, <2>3
  <2> QED BY <2>2, <2>4 DEF HashBase
<1>14. ASSUME NEW s \in HashBase(hash) PROVE Cardinality({k \in DOMAIN lines : lines[k] = s}) = 2
  <2>1. PICK x \in Indexes : \E j \in 1 .. Len(hash[x]) : s \in Range(hash[x][j].list)
    BY DEF HashBase
  <2>2. PICK j \in 1 .. Len(hash[x]) : s \in Range(hash[x][j].list)
    BY <2>1
  <2>3. PICK i \in 1 .. n : nodes[i] = hash[x][j]
    BY <1>1
  <2>4. s \in Range(nodes[i].list)
    BY <2>2, <2>3
  <2>5. PICK a \in 1 .. Len(pp[i]), b \in 1 .. Len(pp[i]) :
          a # b /\ pp[i][a] = s /\ pp[i][b] = s /\ \A y \in 1 .. Len(pp[i]) : pp[i][y] = s => y = a \/ y = b
    <3>1. \E a, b \in 1 .. Len(piece(i)) :
            a # b /\ piece(i)[a] = s /\ piece(i)[b] = s /\ \A y \in 1 .. Len(piece(i)) : piece(i)[y] = s => y = a \/ y = b
      BY <1>5, <2>4
    <3>2. pp[i] = piece(i)
      BY <1>6
    <3> QED BY <3>1, <3>2
  <2>6. Len(pp[i]) \in Nat /\ i \in Nat
    <3>1. pp[i] \in Seq(Pupil)
      BY <1>7
    <3> QED BY <3>1
  <2> DEFINE pa == << i, a >>
             pb == << i, b >>
  <2>7. pa \in Places(pp, n) /\ pb \in Places(pp, n)
    BY <2>6, PlacesAre
  <2>8. pa[1] = i /\ pa[2] = a /\ pb[1] = i /\ pb[2] = b
    OBVIOUS
  <2>9. \A y : y[1] = i /\ y[2] = a /\ y = << y[1], y[2] >> => y = pa
    OBVIOUS
  <2>10. \A y : y[1] = i /\ y[2] = b /\ y = << y[1], y[2] >> => y = pb
    OBVIOUS
  <2> HIDE DEF pa, pb
  <2>11. PICK ka \in 1 .. m : h[ka] = pa
    BY <1>10, <2>7 DEF GluesAs
  <2>12. PICK kb \in 1 .. m : h[kb] = pb
    BY <1>10, <2>7 DEF GluesAs
  <2>13. ka # kb /\ lines[ka] = s /\ lines[kb] = s
    BY <1>12, <2>5, <2>8, <2>11, <2>12
  <2>14. ASSUME NEW k \in 1 .. m, lines[k] = s PROVE k = ka \/ k = kb
    <3>1. h[k][1] \in 1 .. n /\ s \in Range(nodes[h[k][1]].list)
      BY <1>12, <2>14
    <3>2. nodes[h[k][1]].group = nodes[i].group
      <4>1. s.group = nodes[i].group
        BY <1>5, <2>4
      <4>2. s.group = nodes[h[k][1]].group
        BY <1>5, <3>1
      <4> QED BY <4>1, <4>2
    <3>3. h[k][1] = i
      BY <1>1, <3>1, <3>2
    <3>4. h[k][2] = a \/ h[k][2] = b
      BY <1>12, <2>5, <2>14, <3>3
    <3>5. h[k] = pa \/ h[k] = pb
      BY <1>12, <2>9, <2>10, <3>3, <3>4
    <3> QED BY <1>10, <2>11, <2>12, <3>5 DEF GluesAs
  <2> DEFINE K == {k \in DOMAIN lines : lines[k] = s}
  <2>15. K = {ka} \cup {kb}
    BY <1>11, <2>13, <2>14
  <2>16. IsFiniteSet({ka}) /\ Cardinality({ka}) = 1 /\ kb \notin {ka}
    BY <2>13, FS_Singleton
  <2>17. Cardinality({ka} \cup {kb}) = Cardinality({ka}) + 1
    BY <2>16, FS_AddElement
  <2> DEFINE size == Cardinality({ka} \cup {kb})
  <2>18. size = 2
    <3> DEFINE one == Cardinality({ka})
    <3>1. one = 1 /\ size = one + 1
      BY <2>16, <2>17
    <3> HIDE DEF one, size
    <3> QED BY <3>1
  <2>19. Cardinality(K) = size
    BY <2>15
  <2> HIDE DEF K, size
  <2>20. Cardinality(K) = 2
    BY <2>18, <2>19
  <2> QED BY <2>20 DEF K
<1> QED BY <1>13, <1>14 DEF lines

-------------------------------------------------------------------------------
LEMMA BaseIs ==
  ASSUME GoodHash(root)
  PROVE  Base = HashBase(root) /\ \A node \in Nodes : GoodNode(node)
<1>1. root \in [Indexes -> Seq(NodeSet)] /\ \A i \in Indexes : GoodChain(i, root[i])
  BY DEF GoodHash
<1>2. \A i \in Indexes : DOMAIN root[i] = 1 .. Len(root[i])
  BY <1>1
<1>3. \A i \in Indexes : \A j \in 1 .. Len(root[i]) : root[i][j] \in Nodes
  BY <1>2 DEF Nodes, Range
<1>4. ASSUME NEW node \in Nodes PROVE \E i \in Indexes : \E j \in 1 .. Len(root[i]) : node = root[i][j]
  BY <1>2 DEF Nodes, Range
<1>5. \A node \in Nodes : GoodNode(node)
  BY <1>1, <1>4 DEF GoodChain
<1>6. ASSUME NEW s \in Base PROVE s \in HashBase(root)
  <2>1. PICK node \in Nodes : s \in Range(node.list)
    BY DEF Base
  <2>2. PICK i \in Indexes : \E j \in 1 .. Len(root[i]) : node = root[i][j]
    BY <1>4
  <2>3. node.list \in Seq(Pupil)
    BY <1>5 DEF GoodNode, NodeSet
  <2>4. s \in Pupil
    BY <2>1, <2>3 DEF Range
  <2> QED BY <2>1, <2>2, <2>4 DEF HashBase
<1>7. ASSUME NEW s \in HashBase(root) PROVE s \in Base
  BY <1>3 DEF HashBase, Base
<1> QED BY <1>5, <1>6, <1>7

GroupsInv == GoodHash(root) /\ (reply.kind = "printed" => reply.lines = Written(root))

LEMMA GroupsInvMeans == GroupsInv => StructuresAgree
<1> SUFFICES ASSUME GroupsInv PROVE StructuresAgree
  OBVIOUS
<1>1. GoodHash(root) /\ Base = HashBase(root) /\ \A node \in Nodes : GoodNode(node)
  BY BaseIs DEF GroupsInv
<1>2. ASSUME NEW i \in Indexes, NEW j \in DOMAIN root[i], NEW k \in DOMAIN root[i]
      PROVE  hash_fun(root[i][j].group) = i /\ (root[i][j].group = root[i][k].group => j = k)
  <2>1. GoodChain(i, root[i]) /\ DOMAIN root[i] = 1 .. Len(root[i])
    BY <1>1 DEF GoodHash
  <2> QED BY <2>1 DEF GoodChain
<1>3. ASSUME NEW node \in Nodes
      PROVE  /\ Range(node.tree) = Range(node.list)
             /\ Cardinality(DOMAIN node.tree) = Len(node.list)
             /\ \A path \in DOMAIN node.tree : TreePlace(node.tree, node.tree[path]) = path
             /\ \A s \in Range(node.list) : s.group = node.group
             /\ \A k \in 1 .. Len(node.list) - 1 : node.list[k].rating <= node.list[k + 1].rating
  <2>1. GoodNode(node)
    BY <1>1
  <2>2. GoodTree(node.tree) /\ Increases(node.list) /\ Len(node.list) \in Nat
    BY <2>1 DEF GoodNode, NodeSet
  <2>3. \A path \in DOMAIN node.tree : TreePlace(node.tree, node.tree[path]) = path
    BY <2>2, TreeFindsNames
  <2>4. ASSUME NEW k \in 1 .. Len(node.list) - 1 PROVE node.list[k].rating <= node.list[k + 1].rating
    <3>1. k \in 1 .. Len(node.list) /\ k + 1 \in 1 .. Len(node.list) /\ k < k + 1
      BY <2>2
    <3> QED BY <2>2, <3>1 DEF Increases
  <2> QED BY <2>1, <2>3, <2>4 DEF GoodNode
<1>4. ASSUME reply.kind = "printed"
      PROVE  /\ \A s \in Base : Cardinality({k \in DOMAIN reply.lines : reply.lines[k] = s}) = 2
             /\ Range(reply.lines) \subseteq Base
  <2>1. reply.lines = Written(root)
    BY <1>4 DEF GroupsInv
  <2> DEFINE lines == Written(root)
  <2>2. /\ \A s \in HashBase(root) : Cardinality({k \in DOMAIN lines : lines[k] = s}) = 2
        /\ Range(lines) \subseteq HashBase(root)
    BY <1>1, WrittenTwice
  <2> HIDE DEF lines
  <2>3. reply.lines = lines
    BY <2>1 DEF lines
  <2> QED BY <1>1, <2>2, <2>3
<1> QED BY <1>2, <1>3, <1>4 DEF StructuresAgree

LEMMA GroupsInitInv == GroupsInit => GroupsInv
<1> SUFFICES ASSUME GroupsInit PROVE GroupsInv
  OBVIOUS
<1>1. PICK contents \in Files : root = fill(contents)
  BY DEF GroupsInit
<1>2. contents \in Seq(Pupil)
  BY PupilAssumption
<1>3. GoodHash(root)
  BY <1>1, <1>2, FillIs
<1>4. reply.kind # "printed"
  BY DEF GroupsInit, Words, ReplyWith
<1> QED BY <1>3, <1>4 DEF GroupsInv

LEMMA RepliesAre ==
  /\ Words.kind = "words"
  /\ \A fd, kind, lines : /\ ReplyWith(fd, kind, lines).to = fd
                          /\ ReplyWith(fd, kind, lines).kind = kind
                          /\ ReplyWith(fd, kind, lines).lines = lines
BY DEF Words, ReplyWith

LEMMA GroupsStepInv == GroupsInv /\ [GroupsNext]_groupsVars => GroupsInv'
<1> SUFFICES ASSUME GroupsInv, [GroupsNext]_groupsVars PROVE GroupsInv'
  OBVIOUS
<1>1. GoodHash(root) /\ (reply.kind = "printed" => reply.lines = Written(root))
  BY DEF GroupsInv
<1>2. ASSUME UNCHANGED << root, reply >> PROVE GroupsInv'
  BY <1>1, <1>2 DEF GroupsInv
<1>3. ASSUME UNCHANGED root, reply'.kind # "printed" PROVE GroupsInv'
  BY <1>1, <1>3 DEF GroupsInv
<1>4. CASE UNCHANGED groupsVars
  BY <1>2, <1>4 DEF groupsVars
<1>5. CASE Connect
  BY <1>2, <1>5 DEF Connect
<1>6. ASSUME NEW fd \in Fd, Lost(fd) \/ Broken(fd) PROVE GroupsInv'
  BY <1>2, <1>6 DEF Lost, Broken
<1>7. ASSUME NEW fd \in Fd, Unknown(fd) \/ Quit(fd) \/ stop(fd) \/ sess_write(fd) PROVE GroupsInv'
  BY <1>3, <1>7, RepliesAre DEF Unknown, Quit, stop, sess_write, Answered
<1>8. ASSUME NEW fd \in Fd, base_write(fd) PROVE GroupsInv'
  <2>1. UNCHANGED root /\ reply' = ReplyWith(fd, "printed", Written(root))
    BY <1>8 DEF base_write, Answered
  <2> QED BY <1>1, <2>1, RepliesAre DEF GroupsInv
<1>9. ASSUME NEW fd \in Fd, NEW s \in Pupil, Insert(fd, s) PROVE GroupsInv'
  <2>1. root' = HashAdd(root, s) /\ reply' = Words
    BY <1>9 DEF Insert, Answered
  <2>2. GoodHash(root')
    BY <1>1, <2>1, HashAddKeeps
  <2> QED BY <2>1, <2>2, RepliesAre DEF GroupsInv
<1>10. ASSUME NEW fd \in Fd, NEW given \in Given, select(fd, given) PROVE GroupsInv'
  <2>1. UNCHANGED root /\ reply'.kind # "printed"
    BY <1>10, RepliesAre DEF select, Answered
  <2> QED BY <1>3, <2>1
<1>11. ASSUME NEW fd \in Fd, NEW given \in Given, reselect(fd, given) PROVE GroupsInv'
  <2>1. UNCHANGED root /\ reply'.kind # "printed"
    BY <1>11, RepliesAre DEF reselect, Answered
  <2> QED BY <1>3, <2>1
<1>12. ASSUME NEW fd \in Fd, NEW given \in Given, NEW kept, Malformed(fd, given, kept) PROVE GroupsInv'
  <2>1. UNCHANGED root /\ reply'.kind # "printed"
    BY <1>12, RepliesAre DEF Malformed, Answered
  <2> QED BY <1>3, <2>1
<1> QED BY <1>4, <1>5, <1>6, <1>7, <1>8, <1>9, <1>10, <1>11, <1>12 DEF GroupsNext, Handle

(* LoginovaIrene: in every reachable state the hash keeps its form (each group *)
(* in the chain of its index, a search tree of its students and a list of the  *)
(* same that increases), and what print answered is what is written of it.     *)
THEOREM GroupsInductive == GroupsSpec => []GroupsInv
<1> QED BY GroupsInitInv, GroupsStepInv, PTL DEF GroupsSpec

(* LoginovaIrene: in every reachable state the hash, the trees and the lists   *)
(* hold the same students, each where a search finds it, and print writes      *)
(* every one of them twice and nobody else.                                    *)
THEOREM GroupsStructuresAgree == GroupsSpec => []StructuresAgree
<1> QED BY GroupsInductive, GroupsInvMeans, PTL

-------------------------------------------------------------------------------
(* LoginovaIrene, a selection: how the excluded values of a list are read,     *)
(* whichever conditions they are written as.                                   *)
Values(e) == {e[i].value : i \in 1 .. Len(e)}

Ascends(e) == e \in Seq(CondType) /\ \A i, j \in 1 .. Len(e) : i < j => e[i].value < e[j].value

LEMMA SkipOf ==
  ASSUME NEW e, Ascends(e), NEW v \in Int
  PROVE  /\ Ascends(Skip(e, v)) /\ Values(Skip(e, v)) = {x \in Values(e) : v <= x}
         /\ (Skip(e, v) # << >> /\ Head(Skip(e, v)).value = v) <=> v \in Values(e)
<1> DEFINE n == Len(e)
           I == {i \in 1 .. Len(e) : ~(v > e[i].value)}
           k == IF I # {} THEN Min(I) ELSE 0
<1>1. /\ e \in Seq(CondType) /\ n \in Nat /\ \A i \in 1 .. n : e[i] \in CondType /\ e[i].value \in Int
      /\ \A i, j \in 1 .. n : i < j => e[i].value < e[j].value
  <2>1. e \in Seq(CondType) /\ \A i, j \in 1 .. n : i < j => e[i].value < e[j].value
    BY DEF Ascends
  <2>2. n \in Nat /\ \A i \in 1 .. n : e[i] \in CondType
    BY <2>1
  <2>3. \A x \in CondType : x.value \in Int
    BY DEF CondType
  <2> QED BY <2>1, <2>2, <2>3
<1>2. Skip(e, v) = IF k = 0 THEN << >> ELSE SubSeq(e, k, Len(e))
  BY SkipTo, Zenon
<1>3. I = {i \in 1 .. n : v <= e[i].value} /\ k = IF I # {} THEN Min(I) ELSE 0
  BY <1>1
<1> HIDE DEF k, I
<1>4. CASE I = {}
  <2>1. Skip(e, v) = << >>
    BY <1>2, <1>3, <1>4
  <2>2. \A i \in 1 .. n : ~(v <= e[i].value)
    BY <1>3, <1>4
  <2>3. << >> \in Seq(CondType) /\ Len(<< >>) = 0 /\ 1 .. 0 = {}
    OBVIOUS
  <2>4. Ascends(<< >>) /\ Values(<< >>) = {}
    BY <2>3 DEF Ascends, Values
  <2>5. \A x \in Values(e) : ~(v <= x)
    BY <2>2 DEF Values
  <2>6. v \notin Values(e)
    BY <2>5
  <2> QED BY <2>1, <2>4, <2>5, <2>6
<1>5. CASE I # {}
  <2>1. I \subseteq Nat
    BY <1>1, <1>3
  <2>2. k \in I /\ \A y \in I : k <= y
    BY <1>3, <1>5, <2>1, MinOfNaturals
  <2>3. k \in 1 .. n /\ v <= e[k].value /\ k # 0 /\ \A i \in 1 .. n : v <= e[i].value => k <= i
    BY <1>3, <2>2
  <2> DEFINE t == SubSeq(e, k, Len(e))
             m == n - k + 1
  <2>4. /\ t \in Seq(CondType) /\ Len(t) = m /\ \A i \in 1 .. m : t[i] = e[k + i - 1]
    BY <1>1, <2>3
  <2>5. m \in Nat /\ m >= 1 /\ \A i \in 1 .. m : k + i - 1 \in 1 .. n /\ k <= k + i - 1
    BY <1>1, <2>3
  <2>6. \A i \in 1 .. n : k <= i => i - k + 1 \in 1 .. m /\ k + (i - k + 1) - 1 = i
    BY <1>1, <2>3
  <2>7. Skip(e, v) = t
    BY <1>2, <2>3
  <2> HIDE DEF t, m
  <2>8. Ascends(t)
    <3> SUFFICES ASSUME NEW i \in 1 .. m, NEW j \in 1 .. m, i < j PROVE t[i].value < t[j].value
      BY <2>4 DEF Ascends
    <3>1. k + i - 1 \in 1 .. n /\ k + j - 1 \in 1 .. n /\ k + i - 1 < k + j - 1
      BY <2>5, <2>3
    <3> QED BY <1>1, <2>4, <3>1
  <2>9. ASSUME NEW i \in 1 .. n, k <= i PROVE v <= e[i].value
    <3>1. CASE i = k
      BY <2>3, <3>1
    <3>2. CASE i # k
      <4>1. e[k].value < e[i].value
        BY <1>1, <2>3, <2>9, <3>2
      <4> QED BY <1>1, <2>3, <4>1
    <3> QED BY <3>1, <3>2
  <2>10. ASSUME NEW i \in 1 .. m PROVE t[i].value \in Values(e) /\ v <= t[i].value
    BY <2>4, <2>5, <2>9 DEF Values
  <2>11. ASSUME NEW i \in 1 .. n, v <= e[i].value PROVE e[i].value \in Values(t)
    <3>1. i - k + 1 \in 1 .. m /\ t[i - k + 1] = e[i]
      BY <2>3, <2>4, <2>6, <2>11
    <3> QED BY <2>4, <3>1 DEF Values
  <2>12. Values(t) = {x \in Values(e) : v <= x}
    <3>1. \A x \in Values(t) : x \in Values(e) /\ v <= x
      BY <2>4, <2>10 DEF Values
    <3>2. \A x \in Values(e) : v <= x => x \in Values(t)
      BY <2>11 DEF Values
    <3> QED BY <3>1, <3>2
  <2>13. t # << >> /\ Head(t).value = e[k].value
    <3>1. Head(t) = t[1] /\ t # << >>
      BY <2>4, <2>5
    <3>2. 1 \in 1 .. m /\ k + 1 - 1 = k
      BY <2>3, <2>5
    <3> QED BY <2>4, <3>1, <3>2
  <2>14. e[k].value = v <=> v \in Values(e)
    <3>1. ASSUME NEW i \in 1 .. n, v = e[i].value PROVE e[k].value = v
      <4>1. k <= i /\ v <= e[k].value
        BY <1>1, <2>3, <3>1
      <4>2. CASE k = i
        BY <3>1, <4>2
      <4>3. CASE k < i
        <5>1. e[k].value < e[i].value
          BY <1>1, <2>3, <4>3
        <5> QED BY <1>1, <2>3, <3>1, <4>1, <5>1
      <4> QED BY <2>3, <4>1, <4>2, <4>3
    <3> QED BY <2>3, <3>1 DEF Values
  <2> QED BY <2>7, <2>8, <2>12, <2>13, <2>14
<1> QED BY <1>4, <1>5

LEMMA NotExcludedOf ==
  ASSUME NEW e, Ascends(e), NEW v \in Int
  PROVE  NotExcluded(e, v) <=> v \notin Values(e)
BY SkipOf DEF NotExcluded

LEMMA NotListAscends ==
  ASSUME NEW q \in Seq(Int), Rising(q)
  PROVE  Ascends(NotList(q)) /\ Values(NotList(q)) = Vals(q)
<1>1. /\ NotList(q) \in Seq(CondType) /\ Len(NotList(q)) = Len(q)
      /\ \A i \in 1 .. Len(q) : NotList(q)[i].value = q[i]
  BY NotListIs
<1> QED BY <1>1 DEF Ascends, Values, Vals, Rising, RisesTo

(* The interval that a walk is given agrees with sel_gr, sel_rat and sel_name, *)
(* but for the default bounds.                                                 *)
Inside(r, v) == ~Below(r, v) /\ ~Above(r, v) /\ v \notin Values(r.excluded)

IntervalFor(lst, min, max, r) ==
  /\ r.min \in Int /\ r.max \in Int /\ r.signMin \in BOOLEAN /\ r.signMax \in BOOLEAN
  /\ Ascends(r.excluded)
  /\ r.min = min \/ \E i \in 1 .. Len(lst) : r.min = lst[i].value
  /\ r.max = max \/ \E i \in 1 .. Len(lst) : r.max = lst[i].value
  /\ \A v \in Int : Inside(r, v) => Admits(lst, v)
  /\ \A v \in Int : Admits(lst, v) /\ min < v /\ v < max => Inside(r, v)

LEMMA PartsInterval ==
  ASSUME NEW lst, NEW g, NEW l, NEW q, Parts(lst, g, l, q), NEW min \in Int, NEW max \in Int
  PROVE  IntervalFor(lst, min, max, Interval(lst, min, max))
<1> DEFINE r == Interval(lst, min, max)
<1>1. /\ r.min = (IF g # << >> THEN g[1].value ELSE min) /\ r.min \in Int
      /\ r.max = (IF l # << >> THEN l[1].value ELSE max) /\ r.max \in Int
      /\ r.signMin \in BOOLEAN /\ r.signMax \in BOOLEAN
      /\ r.excluded = NotList(q)
      /\ \A v \in Int : ~Below(r, v) <=> IF g # << >> THEN Meaning(g, v) ELSE v > min
      /\ \A v \in Int : ~Above(r, v) <=> IF l # << >> THEN Meaning(l, v) ELSE v < max
  BY IntervalIs
<1> HIDE DEF r
<1>2. /\ g \in OneOf({"GT", "GE"}) /\ l \in OneOf({"LT", "LE"}) /\ q \in Seq(Int) /\ Rising(q)
      /\ lst = (g \o l) \o NotList(q)
  BY DEF Parts
<1>3. Ascends(r.excluded) /\ Values(r.excluded) = Vals(q)
  BY <1>1, <1>2, NotListAscends
<1>4. \A v \in Int : Admits(lst, v) <=> Meaning(g, v) /\ Meaning(l, v) /\ v \notin Vals(q)
  BY AdmitsInOrder
<1>5. \A v : Meaning(<< >>, v)
  BY MeaningOfFew
<1>6. \A v \in Int : Inside(r, v) <=> /\ IF g # << >> THEN Meaning(g, v) ELSE v > min
                                      /\ IF l # << >> THEN Meaning(l, v) ELSE v < max
                                      /\ v \notin Vals(q)
  BY <1>1, <1>3 DEF Inside
<1>7. ASSUME NEW v \in Int, Inside(r, v) PROVE Admits(lst, v)
  BY <1>4, <1>5, <1>6, <1>7
<1>8. ASSUME NEW v \in Int, Admits(lst, v), min < v, v < max PROVE Inside(r, v)
  BY <1>4, <1>6, <1>8
<1>9. g \in Seq(CondType) /\ l \in Seq(CondType) /\ l \o NotList(q) \in Seq(CondType) /\ lst = g \o (l \o NotList(q))
      /\ NotList(q) \in Seq(CondType)
  BY StartsIs
<1>10. ASSUME NEW s \in Seq(CondType), NEW t \in Seq(CondType)
       PROVE  /\ \A i \in 1 .. Len(s) : i \in 1 .. Len(s \o t) /\ (s \o t)[i] = s[i]
              /\ \A i \in 1 .. Len(t) : Len(s) + i \in 1 .. Len(s \o t) /\ (s \o t)[Len(s) + i] = t[i]
  OBVIOUS
<1>11. \A x \in {"GT", "GE", "LT", "LE"} \X Int : << Condition(x[1], x[2]) >> # << >> => Len(<< Condition(x[1], x[2]) >>) = 1
  OBVIOUS
<1>12. (g # << >> => Len(g) = 1) /\ (l # << >> => Len(l) = 1)
  BY <1>2 DEF OneOf
<1>13. g # << >> => \E i \in 1 .. Len(lst) : r.min = lst[i].value
  <2> SUFFICES ASSUME g # << >> PROVE \E i \in 1 .. Len(lst) : r.min = lst[i].value
    OBVIOUS
  <2> DEFINE t == l \o NotList(q)
  <2>1. 1 \in 1 .. Len(g)
    BY <1>12
  <2> HIDE DEF t
  <2>2. 1 \in 1 .. Len(g \o t) /\ (g \o t)[1] = g[1]
    BY <1>9, <1>10, <2>1 DEF t
  <2> QED BY <1>1, <1>9, <2>2 DEF t
<1>14. l # << >> => \E i \in 1 .. Len(lst) : r.max = lst[i].value
  <2> SUFFICES ASSUME l # << >> PROVE \E i \in 1 .. Len(lst) : r.max = lst[i].value
    OBVIOUS
  <2> DEFINE t == l \o NotList(q)
  <2>1. 1 \in 1 .. Len(l)
    BY <1>12
  <2>2. 1 \in 1 .. Len(t) /\ t[1] = l[1]
    BY <1>9, <1>10, <2>1
  <2> HIDE DEF t
  <2>3. Len(g) + 1 \in 1 .. Len(g \o t) /\ (g \o t)[Len(g) + 1] = t[1]
    BY <1>9, <1>10, <2>2 DEF t
  <2> QED BY <1>1, <1>9, <2>2, <2>3 DEF t
<1>15. IntervalFor(lst, min, max, r)
  BY <1>1, <1>3, <1>7, <1>8, <1>13, <1>14 DEF IntervalFor
<1> QED BY <1>15 DEF r

LEMMA PairInterval ==
  ASSUME NEW lst, LowerAndEqual(lst), NEW min \in Int, NEW max \in Int
  PROVE  IntervalFor(lst, min, max, Interval(lst, min, max)) /\ ~StartsWith(lst, {"EQ"})
<1>1. PICK x \in Int : lst = << Condition("GE", x), Condition("EQ", x) >>
  BY DEF LowerAndEqual
<1> DEFINE c == Condition("GE", x)
           d == Condition("EQ", x)
           e == << d >>
           r == Interval(lst, min, max)
<1>2. c \in CondType /\ c.cond = "GE" /\ c.value = x /\ d \in CondType /\ d.cond = "EQ" /\ d.value = x
  BY ConditionTyped DEF Conds
<1> HIDE DEF c, d
<1>3. lst = << c, d >>
  BY <1>1 DEF c, d
<1>4. lst # << >> /\ Head(lst) = c /\ Tail(lst) = e /\ e # << >> /\ Head(e) = d /\ Len(lst) = 2 /\ lst[1] = c
      /\ Len(e) = 1 /\ e[1] = d /\ e \in Seq(CondType)
  BY <1>2, <1>3
<1> HIDE DEF e
<1>5. /\ StartsWith(lst, {"GT", "GE"}) /\ StartsWith(lst, {"GE"}) /\ ~StartsWith(lst, {"GT"}) /\ ~StartsWith(lst, {"EQ"})
      /\ ~StartsWith(e, {"LT", "LE"}) /\ ~StartsWith(e, {"LE"}) /\ ~StartsWith(e, {"LT"})
  BY <1>2, <1>4 DEF StartsWith
<1>6. /\ Past(lst, {"GT", "GE"}) = e /\ Past(lst, {"GT"}) = lst /\ Past(lst, {"GE"}) = e
      /\ Past(e, {"LT", "LE"}) = e /\ Past(e, {"LT"}) = e /\ Past(e, {"LE"}) = e
  BY <1>4, <1>5 DEF Past
<1> DEFINE low == StartsWith(lst, {"GE"})
           high == StartsWith(e, {"LE"})
<1>7. r = [min |-> x, max |-> max, signMin |-> low, signMax |-> high, excluded |-> e]
  BY <1>2, <1>4, <1>5, <1>6 DEF Interval
<1> HIDE DEF r
<1>14. low \in BOOLEAN /\ high \in BOOLEAN /\ low /\ ~high
  BY <1>5 DEF StartsWith
<1> HIDE DEF low, high
<1>8. r.min = x /\ r.max = max /\ r.signMin = low /\ r.signMax = high /\ r.excluded = e
  BY <1>7
<1>9. Ascends(e) /\ Values(e) = {x}
  <2>1. \A i, j \in 1 .. 1 : ~(i < j)
    OBVIOUS
  <2>2. 1 .. Len(e) = {1}
    BY <1>4
  <2> QED BY <1>2, <1>4, <2>1, <2>2 DEF Ascends, Values
<1>10. ASSUME NEW v \in Int PROVE Admits(lst, v) <=> v > x
  <2>1. NotExcluded(e, v) <=> v # x
    BY <1>9, NotExcludedOf
  <2>2. /\ Meets(lst, {"GT"}, v) /\ (Meets(lst, {"GE"}, v) <=> Holds(c, v))
        /\ Meets(e, {"LT"}, v) /\ Meets(e, {"LE"}, v)
    BY <1>4, <1>5 DEF Meets
  <2>3. Holds(c, v) <=> v >= x
    BY <1>2, HoldsIs
  <2>4. Admits(lst, v) <=> Holds(c, v) /\ NotExcluded(e, v)
    BY <1>5, <1>6, <2>2 DEF Admits
  <2> QED BY <2>1, <2>3, <2>4
<1>11. ASSUME NEW v \in Int PROVE Inside(r, v) <=> v > x /\ v < max
  BY <1>8, <1>9, <1>14 DEF Inside, Below, Above
<1>12. \E i \in 1 .. Len(lst) : r.min = lst[i].value
  <2>1. 1 \in 1 .. Len(lst) /\ r.min = lst[1].value
    BY <1>2, <1>4, <1>8
  <2> QED BY <2>1
<1>13. IntervalFor(lst, min, max, r)
  BY <1>8, <1>9, <1>10, <1>11, <1>12, <1>14 DEF IntervalFor
<1> QED BY <1>5, <1>13 DEF r

LEMMA IntervalAgrees ==
  ASSUME NEW col, NEW lst, Form(col, lst), NEW min \in Int, NEW max \in Int
  PROVE  \/ StartsWith(lst, {"EQ"}) /\ OneEqual(lst)
         \/ ~StartsWith(lst, {"EQ"}) /\ IntervalFor(lst, min, max, Interval(lst, min, max))
<1>1. CASE InOrder(lst)
  <2>1. PICK g, l, q : Parts(lst, g, l, q)
    BY <1>1 DEF InOrder, Parts
  <2>2. ~StartsWith(lst, {"EQ"})
    BY <2>1, StartsIs
  <2> QED BY <2>1, <2>2, PartsInterval
<1>2. CASE OneEqual(lst)
  BY <1>2, AdmitsEqual DEF OneEqual
<1>3. CASE LowerAndEqual(lst)
  BY <1>3, PairInterval
<1> QED BY <1>1, <1>2, <1>3 DEF Form

(* A part of a sequence without repetition, and sequences glued together that  *)
(* have nothing in common.                                                     *)
LEMMA PickedOnce ==
  ASSUME NEW V, NEW s \in Seq(V), IsInjective(s), NEW K \in SUBSET (1 .. Len(s))
  PROVE  LET p == Picked(s, K)
         IN p \in Seq(V) /\ IsInjective(p) /\ Range(p) = {s[k] : k \in K}
<1> DEFINE p == Picked(s, K)
<1>1. p \in Seq(V) /\ \E h : Tells(h, s, K, p)
  BY PickedTells
<1> HIDE DEF p
<1>2. PICK h : Tells(h, s, K, p)
  BY <1>1
<1> DEFINE m == Len(p)
<1>3. /\ h \in [1 .. m -> K] /\ \A i \in 1 .. m : p[i] = s[h[i]]
      /\ \A i, j \in 1 .. m : i < j => h[i] < h[j]
      /\ \A k \in K : \E i \in 1 .. m : h[i] = k
  BY <1>2 DEF Tells
<1>4. m \in Nat /\ DOMAIN p = 1 .. m /\ Len(s) \in Nat /\ DOMAIN s = 1 .. Len(s)
  BY <1>1
<1> HIDE DEF m
<1>5. \A i \in 1 .. m : h[i] \in K /\ h[i] \in 1 .. Len(s) /\ h[i] \in Int
  <2> TAKE i \in 1 .. m
  <2>1. h[i] \in K
    BY <1>3
  <2>2. K \subseteq 1 .. Len(s)
    OBVIOUS
  <2>3. h[i] \in 1 .. Len(s)
    BY <2>1, <2>2
  <2> QED BY <2>1, <2>3
<1>6. ASSUME NEW i \in 1 .. m, NEW j \in 1 .. m, p[i] = p[j] PROVE i = j
  <2>1. s[h[i]] = s[h[j]]
    BY <1>3, <1>6
  <2>2. h[i] = h[j]
    BY <1>4, <1>5, <2>1 DEF IsInjective
  <2>3. ~(i < j) /\ ~(j < i)
    BY <1>3, <1>5, <2>2
  <2> QED BY <1>4, <2>3
<1>7. IsInjective(p)
  BY <1>4, <1>6 DEF IsInjective
<1>8. Range(p) = {s[k] : k \in K}
  <2>1. ASSUME NEW x \in Range(p) PROVE x \in {s[k] : k \in K}
    <3>1. PICK i \in 1 .. m : x = p[i]
      BY <1>4 DEF Range
    <3> QED BY <1>3, <1>5, <3>1
  <2>2. ASSUME NEW k \in K PROVE s[k] \in Range(p)
    <3>1. PICK i \in 1 .. m : h[i] = k
      BY <1>3
    <3> QED BY <1>3, <1>4, <3>1 DEF Range
  <2> QED BY <2>1, <2>2
<1> QED BY <1>1, <1>7, <1>8 DEF p

GluedOnce(q, V, ss, n) ==
  q \in Seq(V) /\ IsInjective(q) /\ \A x : x \in Range(q) <=> \E i \in 1 .. n : x \in Range(ss[i])

LEMMA FlattenOnce ==
  ASSUME NEW V, NEW n \in Nat, NEW ss \in [1 .. n -> Seq(V)],
         \A i \in 1 .. n : IsInjective(ss[i]),
         \A i, j \in 1 .. n : \A x : x \in Range(ss[i]) /\ x \in Range(ss[j]) => i = j
  PROVE  GluedOnce(FlattenSeq(ss), V, ss, n)
<1> DEFINE q == FlattenSeq(ss)
           m == Len(q)
<1>1. ss \in Seq(Seq(V)) /\ Len(ss) = n
  BY FunctionSeq
<1>2. q \in Seq(V) /\ \E h : GluesAs(h, ss, n, q)
  BY <1>1, FlattenPlaces
<1> HIDE DEF q
<1>3. PICK h : GluesAs(h, ss, n, q)
  BY <1>2
<1>4. m \in Nat /\ DOMAIN q = 1 .. m
  BY <1>2
<1>5. \A i \in 1 .. n : ss[i] \in Seq(V) /\ Len(ss[i]) \in Nat /\ DOMAIN ss[i] = 1 .. Len(ss[i]) /\ i \in Nat
  OBVIOUS
<1> HIDE DEF m
<1>6. ASSUME NEW k \in 1 .. m
      PROVE  /\ h[k][1] \in 1 .. n /\ h[k][2] \in 1 .. Len(ss[h[k][1]]) /\ h[k] = << h[k][1], h[k][2] >>
             /\ q[k] = ss[h[k][1]][h[k][2]] /\ q[k] \in Range(ss[h[k][1]])
  <2>1. h[k] \in Places(ss, n) /\ q[k] = ss[h[k][1]][h[k][2]]
    BY <1>3 DEF GluesAs, m
  <2>2. h[k][1] \in 1 .. n /\ h[k][2] \in 1 .. Len(ss[h[k][1]]) /\ h[k] = << h[k][1], h[k][2] >>
    BY <2>1, PlacesAre
  <2>3. h[k][2] \in DOMAIN ss[h[k][1]]
    BY <1>5, <2>2
  <2> QED BY <2>1, <2>2, <2>3 DEF Range
<1>7. ASSUME NEW k \in 1 .. m, NEW j \in 1 .. m, q[k] = q[j] PROVE k = j
  <2>1. h[k][1] = h[j][1]
    <3>1. q[k] \in Range(ss[h[k][1]]) /\ q[k] \in Range(ss[h[j][1]])
      BY <1>6, <1>7
    <3> QED BY <1>6, <3>1
  <2> DEFINE i == h[k][1]
  <2>2. h[k][2] = h[j][2]
    <3>1. i \in 1 .. n /\ h[k][2] \in DOMAIN ss[i] /\ h[j][2] \in DOMAIN ss[i] /\ ss[i][h[k][2]] = ss[i][h[j][2]]
      BY <1>5, <1>6, <1>7, <2>1
    <3>2. IsInjective(ss[i])
      BY <3>1
    <3> HIDE DEF i
    <3> QED BY <3>1, <3>2 DEF IsInjective
  <2>3. h[k] = h[j]
    <3>1. h[k] = << h[k][1], h[k][2] >>
      BY <1>6
    <3>2. h[j] = << h[j][1], h[j][2] >>
      BY <1>6
    <3>3. << h[k][1], h[k][2] >> = << h[j][1], h[j][2] >>
      BY <2>1, <2>2
    <3> QED BY <3>1, <3>2, <3>3, Zenon
  <2> QED BY <1>3, <2>3 DEF GluesAs, m
<1>8. IsInjective(q)
  BY <1>4, <1>7 DEF IsInjective
<1>9. ASSUME NEW x, x \in Range(q) PROVE \E i \in 1 .. n : x \in Range(ss[i])
  <2>1. PICK k \in 1 .. m : x = q[k]
    BY <1>4, <1>9 DEF Range
  <2> QED BY <1>6, <2>1
<1>10. ASSUME NEW x, NEW i \in 1 .. n, x \in Range(ss[i]) PROVE x \in Range(q)
  <2>1. PICK j \in 1 .. Len(ss[i]) : x = ss[i][j]
    BY <1>5, <1>10 DEF Range
  <2> DEFINE y == << i, j >>
  <2>2. y \in Places(ss, n) /\ y[1] = i /\ y[2] = j
    BY <1>5, PlacesAre
  <2> HIDE DEF y
  <2>3. PICK k \in 1 .. m : h[k] = y
    BY <1>3, <2>2 DEF GluesAs, m
  <2>4. q[k] = x
    BY <1>6, <2>1, <2>2, <2>3
  <2> QED BY <1>4, <2>4 DEF Range
<1>11. GluedOnce(q, V, ss, n)
  BY <1>2, <1>8, <1>9, <1>10 DEF GluedOnce
<1> QED BY <1>11 DEF q

(* The walk through a list reads the excluded ratings along, and leaves out    *)
(* what it should.                                                             *)
Walks == {w \in [over : BOOLEAN, excluded : Seq(CondType), found : Seq(Pupil)] : Ascends(w.excluded)}

StepOf(r, w, s, new) ==
  /\ new \in Walks
  /\ w.over \/ Below(r, s.rating) => new = w
  /\ ~w.over /\ ~Below(r, s.rating) /\ Above(r, s.rating) =>
       new.over /\ new.excluded = w.excluded /\ new.found = w.found
  /\ ~w.over /\ ~Below(r, s.rating) /\ ~Above(r, s.rating) =>
       /\ ~new.over /\ Values(new.excluded) = {x \in Values(w.excluded) : s.rating <= x}
       /\ s.rating \in Values(w.excluded) => new.found = w.found
       /\ s.rating \notin Values(w.excluded) => new.found = Append(w.found, s)

LEMMA RatingStepIs ==
  ASSUME NEW r, NEW w \in Walks, NEW s \in Pupil
  PROVE  StepOf(r, w, s, RatingStep(r, w, s))
<1> DEFINE v == s.rating
           rest == Skip(w.excluded, v)
           hit == rest # << >> /\ Head(rest).value = v
           new == RatingStep(r, w, s)
<1>1. v \in Int
  BY PupilTyped
<1>2. /\ w \in [over : BOOLEAN, excluded : Seq(CondType), found : Seq(Pupil)] /\ Ascends(w.excluded)
      /\ w.over \in BOOLEAN /\ w.found \in Seq(Pupil)
  BY DEF Walks
<1>3. Ascends(rest) /\ Values(rest) = {x \in Values(w.excluded) : v <= x} /\ (hit <=> v \in Values(w.excluded))
  BY <1>1, <1>2, SkipOf
<1>4. rest \in Seq(CondType)
  BY <1>3 DEF Ascends
<1>5. new = IF w.over \/ Below(r, v) THEN w
            ELSE IF Above(r, v) THEN [w EXCEPT !.over = TRUE]
            ELSE [w EXCEPT !.excluded = rest, !.found = IF hit THEN @ ELSE Append(@, s)]
  BY DEF RatingStep
<1> HIDE DEF rest, hit, new
<1>6. ASSUME w.over \/ Below(r, v) PROVE StepOf(r, w, s, new)
  BY <1>5, <1>6 DEF StepOf
<1>7. ASSUME ~w.over /\ ~Below(r, v) /\ Above(r, v) PROVE StepOf(r, w, s, new)
  <2>1. new = [w EXCEPT !.over = TRUE]
    BY <1>5, <1>7
  <2>2. new.over = TRUE /\ new.excluded = w.excluded /\ new.found = w.found
        /\ new \in [over : BOOLEAN, excluded : Seq(CondType), found : Seq(Pupil)]
    BY <1>2, <2>1
  <2>3. new \in Walks
    BY <1>2, <2>2 DEF Walks
  <2> QED BY <1>7, <2>2, <2>3 DEF StepOf
<1>8. ASSUME ~w.over /\ ~Below(r, v) /\ ~Above(r, v) PROVE StepOf(r, w, s, new)
  <2> DEFINE more == IF hit THEN w.found ELSE Append(w.found, s)
  <2>1. new = [w EXCEPT !.excluded = rest, !.found = more]
    BY <1>5, <1>8
  <2>2. more \in Seq(Pupil)
    BY <1>2
  <2>3. (v \in Values(w.excluded) => more = w.found) /\ (v \notin Values(w.excluded) => more = Append(w.found, s))
    BY <1>3
  <2> HIDE DEF more
  <2>4. new.over = w.over /\ new.excluded = rest /\ new.found = more
        /\ new \in [over : BOOLEAN, excluded : Seq(CondType), found : Seq(Pupil)]
    BY <1>2, <1>4, <2>1, <2>2
  <2>5. new \in Walks
    BY <1>3, <2>4 DEF Walks
  <2> QED BY <1>3, <1>8, <2>3, <2>4, <2>5 DEF StepOf
<1>9. StepOf(r, w, s, new)
  BY <1>6, <1>7, <1>8
<1> QED BY <1>9 DEF new

WalkSoFar(r, lst, f) ==
  [n \in 0 .. Len(lst) |->
     IF n = 0 THEN [over |-> FALSE, excluded |-> r.excluded, found |-> << >>] ELSE RatingStep(r, f[n - 1], lst[n])]

WalkOf(f, r, lst) ==
  /\ f \in [0 .. Len(lst) -> Walks] /\ f[0] = [over |-> FALSE, excluded |-> r.excluded, found |-> << >>]
  /\ \A i \in 1 .. Len(lst) : f[i] = RatingStep(r, f[i - 1], lst[i])

LEMMA ListWalkRule ==
  ASSUME NEW lst \in Seq(Pupil), NEW conds, ~StartsWith(conds, {"EQ"}),
         Ascends(Interval(conds, Lowest, Highest).excluded)
  PROVE  \E f : WalkOf(f, Interval(conds, Lowest, Highest), lst) /\ sub_select_list(lst, conds) = f[Len(lst)].found
<1> DEFINE r == Interval(conds, Lowest, Highest)
           last(f) == f[Len(lst)].found
<1>0. Ascends(r.excluded)
  OBVIOUS
<1> HIDE DEF r
<1> SUFFICES \E f \in [0 .. Len(lst) -> Walks] :
               /\ f[0] = [over |-> FALSE, excluded |-> r.excluded, found |-> << >>]
               /\ sub_select_list(lst, conds) = f[Len(lst)].found
               /\ \A i \in 1 .. Len(lst) : f[i] = RatingStep(r, f[i - 1], lst[i])
  BY DEF WalkOf, r
<1> DEFINE N == Len(lst)
           W == Walks
           first == [over |-> FALSE, excluded |-> r.excluded, found |-> << >>]
           Step(m, i) == RatingStep(r, m, lst[i])
           step == [x \in (1 .. N) \X W |-> Step(x[2], x[1])]
           F == CHOOSE f : f = WalkSoFar(r, lst, f)
<1>1. N \in Nat /\ first \in W /\ \A i \in 1 .. N : \A m \in W : Step(m, i) \in W
  <2>1. N \in Nat /\ \A i \in 1 .. N : lst[i] \in Pupil
    OBVIOUS
  <2>2. first \in Walks
    <3>1. r.excluded \in Seq(CondType)
      BY <1>0 DEF Ascends
    <3>2. first \in [over : BOOLEAN, excluded : Seq(CondType), found : Seq(Pupil)] /\ first.excluded = r.excluded
      BY <3>1
    <3> QED BY <1>0, <3>2 DEF Walks
  <2>3. ASSUME NEW i \in 1 .. N, NEW m \in Walks PROVE RatingStep(r, m, lst[i]) \in Walks
    BY <2>1, RatingStepIs DEF StepOf
  <2> QED BY <2>1, <2>2, <2>3
<1>2. sub_select_list(lst, conds) = F[N].found
  BY DEF sub_select_list, r, WalkSoFar
<1>3. ASSUME NEW f PROVE WalkSoFar(r, lst, f) = [n \in 0 .. N |-> IF n = 0 THEN first ELSE Step(f[n - 1], n)]
  BY DEF WalkSoFar
<1> HIDE DEF N, W, F, first, Step
<1>4. step \in [(1 .. N) \X W -> W] /\ \A i \in 1 .. N : \A m \in W : step[<< i, m >>] = Step(m, i)
  BY <1>1
<1> HIDE DEF step
<1>5. PICK g : Defined(g, N, W, first, step)
  BY <1>1, <1>4, Recursion, Zenon
<1>6. g = WalkSoFar(r, lst, g)
  <2>1. g \in [0 .. N -> W] /\ g[0] = first /\ \A i \in 1 .. N : g[i] = step[<< i, g[i - 1] >>]
    BY <1>5 DEF Defined
  <2>2. \A i \in 1 .. N : g[i] = Step(g[i - 1], i)
    <3> TAKE i \in 1 .. N
    <3>1. i - 1 \in 0 .. N
      BY <1>1
    <3> QED BY <1>4, <2>1, <3>1
  <2>3. \A i \in 0 .. N : g[i] = IF i = 0 THEN first ELSE Step(g[i - 1], i)
    BY <1>1, <2>1, <2>2
  <2> DEFINE G == [n \in 0 .. N |-> IF n = 0 THEN first ELSE Step(g[n - 1], n)]
  <2>4. g = G
    BY <2>1, <2>3
  <2>5. WalkSoFar(r, lst, g) = G
    BY <1>3
  <2> QED BY <2>4, <2>5
<1>7. F = WalkSoFar(r, lst, F)
  BY <1>6 DEF F
<1> DEFINE R == [k \in 1 .. N |-> Step(F[k - 1], k)]
<1>8. F = [k \in 0 .. N |-> IF k = 0 THEN first ELSE R[k]]
  <2>1. \A k \in 0 .. N : k # 0 => k \in 1 .. N
    BY <1>1
  <2> QED BY <1>3, <1>7, <2>1
<1>9. \A k \in 1 .. N : F[k - 1] \in W => R[k] = step[<< k, F[k - 1] >>]
  BY <1>4
<1> HIDE DEF R
<1>10. Defined(F, N, W, first, step)
  BY <1>1, <1>4, <1>8, <1>9, RuleFollowed
<1>11. F \in [0 .. N -> W] /\ F[0] = first /\ \A i \in 1 .. N : F[i] = step[<< i, F[i - 1] >>]
  BY <1>10 DEF Defined
<1>12. \A i \in 1 .. N : F[i] = Step(F[i - 1], i)
  <2> TAKE i \in 1 .. N
  <2>1. i - 1 \in 0 .. N
    BY <1>1
  <2> QED BY <1>4, <1>11, <2>1
<1> QED BY <1>2, <1>11, <1>12 DEF N, W, first, Step

(* How far the walk is: what it has read of the excluded ratings no later      *)
(* student has, and it has stopped where all that follows is above.            *)
WalkIs(r, lst, w, n) ==
  /\ w.over => \A j \in n + 1 .. Len(lst) : Above(r, lst[j].rating)
  /\ \A x \in Values(w.excluded) : x \in Values(r.excluded)
  /\ \A x \in Values(r.excluded) : x \in Values(w.excluded) \/ \A j \in n + 1 .. Len(lst) : x < lst[j].rating

LEMMA WalkStep ==
  ASSUME NEW r, r.max \in Int, NEW lst \in Seq(Pupil), Increases(lst), Ascends(r.excluded),
         NEW w \in Walks, NEW i \in 1 .. Len(lst), WalkIs(r, lst, w, i - 1),
         NEW new, StepOf(r, w, lst[i], new)
  PROVE  /\ WalkIs(r, lst, new, i)
         /\ new.found = IF Inside(r, lst[i].rating) THEN Append(w.found, lst[i]) ELSE w.found
<1> DEFINE m == Len(lst)
           v == lst[i].rating
<1>1. m \in Nat /\ i \in 1 .. m /\ (i - 1) + 1 = i /\ i \in i .. m /\ \A j \in i + 1 .. m : j \in i .. m /\ j \in 1 .. m /\ i < j
  OBVIOUS
<1>2. \A j \in 1 .. m : lst[j].rating \in Int
  BY PupilTyped
<1>3. \A j \in i + 1 .. m : v <= lst[j].rating
  BY <1>1 DEF Increases
<1>4. \A x \in Values(r.excluded) : x \in Int
  <2>1. r.excluded \in Seq(CondType)
    BY DEF Ascends
  <2>2. \A x \in CondType : x.value \in Int
    BY DEF CondType
  <2>3. \A j \in 1 .. Len(r.excluded) : r.excluded[j] \in CondType
    BY <2>1
  <2> QED BY <2>2, <2>3 DEF Values
<1>5. /\ w.over => \A j \in i .. m : Above(r, lst[j].rating)
      /\ \A x \in Values(w.excluded) : x \in Values(r.excluded)
      /\ \A x \in Values(r.excluded) : x \in Values(w.excluded) \/ \A j \in i .. m : x < lst[j].rating
  BY <1>1 DEF WalkIs
<1>6. v \in Int /\ (w.over => Above(r, v))
  BY <1>1, <1>2, <1>5
<1> HIDE DEF m
<1>7. ASSUME w.over \/ Below(r, v) PROVE WalkIs(r, lst, new, i) /\ new.found = w.found /\ ~Inside(r, v)
  <2>1. new = w
    BY <1>7 DEF StepOf
  <2>2. ~Inside(r, v)
    BY <1>6, <1>7 DEF Inside
  <2>3. WalkIs(r, lst, w, i)
    BY <1>1, <1>5 DEF WalkIs, m
  <2> QED BY <2>1, <2>2, <2>3
<1>8. ASSUME ~w.over, ~Below(r, v), Above(r, v) PROVE WalkIs(r, lst, new, i) /\ new.found = w.found /\ ~Inside(r, v)
  <2>1. new.over /\ new.excluded = w.excluded /\ new.found = w.found
    BY <1>8 DEF StepOf
  <2>2. \A j \in i + 1 .. m : Above(r, lst[j].rating)
    <3> TAKE j \in i + 1 .. m
    <3>1. v > r.max \/ (v = r.max /\ ~r.signMax)
      BY <1>8 DEF Above
    <3>2. lst[j].rating \in Int /\ v <= lst[j].rating
      BY <1>1, <1>2, <1>3
    <3> QED BY <1>6, <3>1, <3>2 DEF Above
  <2>3. ~Inside(r, v)
    BY <1>8 DEF Inside
  <2> QED BY <1>1, <1>5, <2>1, <2>2, <2>3 DEF WalkIs, m
<1>9. ASSUME ~w.over, ~Below(r, v), ~Above(r, v)
      PROVE  /\ WalkIs(r, lst, new, i)
             /\ Inside(r, v) => new.found = Append(w.found, lst[i])
             /\ ~Inside(r, v) => new.found = w.found
  <2>1. /\ ~new.over /\ Values(new.excluded) = {x \in Values(w.excluded) : v <= x}
        /\ v \in Values(w.excluded) => new.found = w.found
        /\ v \notin Values(w.excluded) => new.found = Append(w.found, lst[i])
    BY <1>9 DEF StepOf
  <2>2. v \in Values(w.excluded) <=> v \in Values(r.excluded)
    BY <1>1, <1>5, <1>6
  <2>3. Inside(r, v) <=> v \notin Values(w.excluded)
    BY <1>9, <2>2 DEF Inside
  <2>4. ASSUME NEW x \in Values(r.excluded)
        PROVE  x \in Values(new.excluded) \/ \A j \in i + 1 .. m : x < lst[j].rating
    <3>1. CASE x \in Values(w.excluded) /\ v <= x
      BY <2>1, <3>1
    <3>2. CASE ~(v <= x)
      <4> SUFFICES ASSUME NEW j \in i + 1 .. m PROVE x < lst[j].rating
        OBVIOUS
      <4>1. lst[j].rating \in Int /\ v <= lst[j].rating /\ x \in Int
        BY <1>1, <1>2, <1>3, <1>4
      <4> QED BY <1>6, <3>2, <4>1
    <3>3. CASE x \notin Values(w.excluded)
      BY <1>1, <1>5, <3>3
    <3> QED BY <3>1, <3>2, <3>3
  <2>5. WalkIs(r, lst, new, i)
    BY <1>5, <2>1, <2>4 DEF WalkIs, m
  <2> QED BY <2>1, <2>3, <2>5
<1> QED BY <1>7, <1>8, <1>9

LEMMA ListWalkIs ==
  ASSUME NEW lst \in Seq(Pupil), Increases(lst), NEW conds, ~StartsWith(conds, {"EQ"}),
         IntervalFor(conds, Lowest, Highest, Interval(conds, Lowest, Highest))
  PROVE  sub_select_list(lst, conds) =
           Picked(lst, {i \in 1 .. Len(lst) : Inside(Interval(conds, Lowest, Highest), lst[i].rating)})
<1> DEFINE r == Interval(conds, Lowest, Highest)
           N == Len(lst)
           K == {i \in 1 .. Len(lst) : Inside(r, lst[i].rating)}
           found == sub_select_list(lst, conds)
<1>1. r.max \in Int /\ Ascends(r.excluded)
  BY DEF IntervalFor
<1>2. PICK f : WalkOf(f, r, lst) /\ found = f[N].found
  BY <1>1, ListWalkRule
<1> HIDE DEF r, found
<1>3. PICK g : Picks(g, Pupil, lst, K)
  BY PickedRule
<1>4. N \in Nat
  OBVIOUS
<1>5. /\ f \in [0 .. N -> Walks] /\ f[0] = [over |-> FALSE, excluded |-> r.excluded, found |-> << >>]
      /\ \A i \in 1 .. N : f[i] = RatingStep(r, f[i - 1], lst[i])
  BY <1>2 DEF WalkOf
<1>6. /\ g[0] = << >> /\ \A i \in 1 .. N : g[i] = IF i \in K THEN Append(g[i - 1], lst[i]) ELSE g[i - 1]
      /\ Picked(lst, K) = g[N]
  BY <1>3 DEF Picks
<1>7. \A i \in 1 .. N : i \in K <=> Inside(r, lst[i].rating)
  OBVIOUS
<1> HIDE DEF K
<1> DEFINE S == {n \in 0 .. N : WalkIs(r, lst, f[n], n) /\ f[n].found = g[n]}
<1>8. 0 \in S
  <2>1. f[0].over = FALSE /\ f[0].excluded = r.excluded /\ f[0].found = << >>
    BY <1>5
  <2> QED BY <1>4, <1>6, <2>1 DEF WalkIs
<1>9. ASSUME NEW n \in S, n + 1 \in 0 .. N PROVE n + 1 \in S
  <2> DEFINE i == n + 1
  <2>1. i \in 1 .. N /\ i - 1 = n /\ n \in 0 .. N
    BY <1>4, <1>9
  <2>2. f[n] \in Walks /\ lst[i] \in Pupil /\ f[i] = RatingStep(r, f[n], lst[i])
    BY <1>5, <2>1
  <2>3. StepOf(r, f[n], lst[i], f[i])
    BY <2>2, RatingStepIs
  <2>4. WalkIs(r, lst, f[n], i - 1) /\ f[n].found = g[n]
    BY <1>9, <2>1
  <2> HIDE DEF i, S
  <2>5. /\ WalkIs(r, lst, f[i], i)
        /\ f[i].found = IF Inside(r, lst[i].rating) THEN Append(f[n].found, lst[i]) ELSE f[n].found
    BY <1>1, <2>1, <2>2, <2>3, <2>4, WalkStep
  <2>6. g[i] = IF i \in K THEN Append(g[n], lst[i]) ELSE g[n]
    BY <1>6, <2>1
  <2>7. f[i].found = g[i]
    BY <1>7, <2>1, <2>4, <2>5, <2>6
  <2>8. i \in 0 .. N
    BY <1>9 DEF i
  <2> QED BY <2>5, <2>7, <2>8 DEF S, i
<1> HIDE DEF S
<1>10. N \in S
  <2> DEFINE T == {n \in Nat : n \in 0 .. N => n \in S}
  <2>1. 0 \in T
    BY <1>8
  <2>2. ASSUME NEW n \in Nat, n \in T PROVE n + 1 \in T
    <3>1. n + 1 \in Nat /\ (n + 1 \in 0 .. N => n \in 0 .. N)
      BY <1>4
    <3>2. n \in 0 .. N => n \in S
      BY <2>2
    <3>3. n + 1 \in 0 .. N => n + 1 \in S
      BY <1>9, <3>1, <3>2
    <3> QED BY <3>1, <3>3
  <2> HIDE DEF T
  <2>3. N \in T
    BY <1>4, <2>1, <2>2, Induction
  <2> QED BY <1>4, <2>3 DEF T
<1> QED BY <1>2, <1>6, <1>10 DEF S, K, r, found

(* What is selected of a list by its ratings.                                  *)
ByRating(res, lst, conds) ==
  /\ res \in Seq(Pupil) /\ IsInjective(res) /\ Range(res) \subseteq Range(lst)
  /\ \A s \in Range(res) : Admits(conds, s.rating)
  /\ \A s \in Range(lst) : Admits(conds, s.rating) /\ Lowest < s.rating /\ s.rating < Highest => s \in Range(res)

LEMMA PickedByRating ==
  ASSUME NEW lst \in Seq(Pupil), IsInjective(lst), NEW conds, NEW K \in SUBSET (1 .. Len(lst)),
         \A k \in K : Admits(conds, lst[k].rating),
         \A k \in 1 .. Len(lst) : Admits(conds, lst[k].rating) /\ Lowest < lst[k].rating /\ lst[k].rating < Highest => k \in K
  PROVE  ByRating(Picked(lst, K), lst, conds)
<1> DEFINE p == Picked(lst, K)
<1>1. p \in Seq(Pupil) /\ IsInjective(p) /\ Range(p) = {lst[k] : k \in K}
  BY PickedOnce
<1>2. DOMAIN lst = 1 .. Len(lst)
  OBVIOUS
<1> HIDE DEF p
<1>3. ASSUME NEW s \in Range(p) PROVE s \in Range(lst) /\ Admits(conds, s.rating)
  <2>1. PICK k \in K : s = lst[k]
    BY <1>1
  <2>2. k \in 1 .. Len(lst)
    OBVIOUS
  <2> QED BY <1>2, <2>1, <2>2 DEF Range
<1>4. ASSUME NEW s \in Range(lst), Admits(conds, s.rating), Lowest < s.rating, s.rating < Highest PROVE s \in Range(p)
  <2>1. PICK k \in 1 .. Len(lst) : s = lst[k]
    BY <1>2 DEF Range
  <2>2. k \in K
    BY <1>4, <2>1
  <2> QED BY <1>1, <2>1, <2>2
<1>5. ByRating(p, lst, conds)
  BY <1>1, <1>3, <1>4 DEF ByRating
<1> QED BY <1>5 DEF p

LEMMA ListSelects ==
  ASSUME NEW lst \in Seq(Pupil), Increases(lst), IsInjective(lst), NEW conds, Form("rating", conds)
  PROVE  ByRating(sub_select_list(lst, conds), lst, conds)
<1> DEFINE r == Interval(conds, Lowest, Highest)
<1>0. Lowest \in Int /\ Highest \in Int
  BY BoundsAssumption
<1>1. \/ StartsWith(conds, {"EQ"}) /\ OneEqual(conds)
      \/ ~StartsWith(conds, {"EQ"}) /\ IntervalFor(conds, Lowest, Highest, r)
  BY <1>0, IntervalAgrees
<1>2. \A k \in 1 .. Len(lst) : lst[k] \in Pupil /\ lst[k].rating \in Int
  BY PupilTyped
<1> HIDE DEF r
<1>3. CASE StartsWith(conds, {"EQ"}) /\ OneEqual(conds)
  <2>1. PICK x \in Int : conds = << Condition("EQ", x) >>
    BY <1>3 DEF OneEqual
  <2>2. Head(conds).value = x /\ \A v : Admits(conds, v) <=> v = x
    BY <2>1, AdmitsEqual
  <2> DEFINE K == {i \in DOMAIN lst : lst[i].rating = x /\ \A j \in 1 .. i : lst[j].rating <= x}
  <2>3. sub_select_list(lst, conds) = Picked(lst, K)
    BY <1>3, <2>2 DEF sub_select_list, EqualInList
  <2>4. K \in SUBSET (1 .. Len(lst)) /\ DOMAIN lst = 1 .. Len(lst)
    OBVIOUS
  <2>5. \A k \in K : Admits(conds, lst[k].rating)
    BY <2>2
  <2>6. ASSUME NEW k \in 1 .. Len(lst), Admits(conds, lst[k].rating) PROVE k \in K
    <3>1. lst[k].rating = x
      BY <2>2, <2>6
    <3>2. ASSUME NEW j \in 1 .. k PROVE lst[j].rating <= x
      <4>1. j \in 1 .. Len(lst) /\ (j = k \/ j < k)
        OBVIOUS
      <4> QED BY <1>2, <3>1, <4>1 DEF Increases
    <3> QED BY <2>4, <3>1, <3>2
  <2> HIDE DEF K
  <2>7. ByRating(Picked(lst, K), lst, conds)
    BY <2>4, <2>5, <2>6, PickedByRating
  <2> QED BY <2>3, <2>7
<1>4. CASE ~StartsWith(conds, {"EQ"}) /\ IntervalFor(conds, Lowest, Highest, r)
  <2> DEFINE K == {i \in 1 .. Len(lst) : Inside(r, lst[i].rating)}
  <2>1. sub_select_list(lst, conds) = Picked(lst, K)
    BY <1>4, ListWalkIs DEF r
  <2>2. /\ \A v \in Int : Inside(r, v) => Admits(conds, v)
        /\ \A v \in Int : Admits(conds, v) /\ Lowest < v /\ v < Highest => Inside(r, v)
    BY <1>4 DEF IntervalFor
  <2>3. K \in SUBSET (1 .. Len(lst)) /\ \A k \in 1 .. Len(lst) : k \in K <=> Inside(r, lst[k].rating)
    OBVIOUS
  <2> HIDE DEF K
  <2>4. ByRating(Picked(lst, K), lst, conds)
    BY <1>2, <2>2, <2>3, PickedByRating
  <2> QED BY <2>1, <2>4
<1> QED BY <1>1, <1>3, <1>4

(* What is selected of a tree by its names, and the ratings of what is found.  *)
ByName(res, tree, names, ratings) ==
  /\ res \in Seq(Pupil) /\ IsInjective(res) /\ Range(res) \subseteq Range(tree)
  /\ \A s \in Range(res) : Admits(names, s.name) /\ Admits(ratings, s.rating)
  /\ \A s \in Range(tree) : Admits(names, s.name) /\ Admits(ratings, s.rating) => s \in Range(res)

LEMMA EqualSelects ==
  ASSUME NEW tree, GoodTree(tree), NEW x \in Int, NEW names, \A v : Admits(names, v) <=> v = x, NEW ratings
  PROVE  ByName(EqualInTree(tree, x, ratings), tree, names, ratings)
<1> DEFINE t == [name |-> x]
           path == TreePlace(tree, t)
           hit == path \in DOMAIN tree /\ Admits(ratings, tree[path].rating)
           res == EqualInTree(tree, x, ratings)
<1>1. t.name = x
  OBVIOUS
<1>2. res = IF hit THEN << tree[path] >> ELSE << >>
  BY DEF EqualInTree
<1> HIDE DEF t
<1>3. path \in DOMAIN tree => tree[path].name = x
  BY <1>1, PlaceIs DEF Ends
<1>4. \A p \in DOMAIN tree : tree[p].name = x => path = p
  BY <1>1, TreeFindsNames
<1>5. \A p \in DOMAIN tree : tree[p] \in Pupil
  BY TreeTyped
<1> HIDE DEF path, res
<1>6. CASE hit
  <2> DEFINE s == tree[path]
  <2>1. s \in Pupil /\ s.name = x /\ path \in DOMAIN tree /\ Admits(ratings, s.rating)
    BY <1>3, <1>5, <1>6
  <2>2. res = << s >>
    BY <1>2, <1>6
  <2>3. s \in Range(tree)
    BY <2>1 DEF Range
  <2>4. ASSUME NEW u \in Range(tree), u.name = x PROVE u = s
    <3>1. PICK p \in DOMAIN tree : u = tree[p]
      BY DEF Range
    <3> QED BY <1>4, <2>4, <3>1
  <2> HIDE DEF s
  <2>5. res \in Seq(Pupil) /\ Range(res) = {s} /\ IsInjective(res)
    BY <2>1, <2>2 DEF Range, IsInjective
  <2>6. ByName(res, tree, names, ratings)
    BY <2>1, <2>3, <2>4, <2>5 DEF ByName
  <2> QED BY <2>6 DEF res
<1>7. CASE ~hit
  <2>1. res = << >>
    BY <1>2, <1>7
  <2>2. res \in Seq(Pupil) /\ Range(res) = {} /\ IsInjective(res)
    BY <2>1 DEF Range, IsInjective
  <2>3. ASSUME NEW u \in Range(tree), u.name = x, Admits(ratings, u.rating) PROVE FALSE
    <3>1. PICK p \in DOMAIN tree : u = tree[p]
      BY DEF Range
    <3> QED BY <1>4, <1>7, <2>3, <3>1
  <2>4. ByName(res, tree, names, ratings)
    BY <2>2, <2>3 DEF ByName
  <2> QED BY <2>4 DEF res
<1> QED BY <1>6, <1>7

(* The walk through a tree reaches every student within the bounds.            *)
Reached(tree, r) == {p \in DOMAIN tree : \A k \in DOMAIN p : p[k] \in Sides(r, tree[SubSeq(p, 1, k - 1)].name)}

LEMMA SidesIs ==
  ASSUME NEW r, r.min \in Int, r.max \in Int, NEW v \in Int
  PROVE  /\ Sides(r, v) = {"left", "right"} <=> ~Below(r, v) /\ ~Above(r, v)
         /\ \A w \in Int : ~Below(r, w) /\ ~Above(r, w) =>
              /\ w > v => "right" \in Sides(r, v)
              /\ w < v => "left" \in Sides(r, v)
<1>1. CASE v < r.min
  BY <1>1 DEF Sides, Below, Above
<1>2. CASE ~(v < r.min) /\ v > r.max
  BY <1>2 DEF Sides, Below, Above
<1>3. CASE ~(v < r.min) /\ ~(v > r.max) /\ Below(r, v)
  <2>1. Sides(r, v) = {"right"}
    BY <1>3 DEF Sides
  <2>2. v = r.min /\ ~r.signMin
    BY <1>3 DEF Below
  <2> QED BY <1>3, <2>1, <2>2 DEF Below
<1>4. CASE ~(v < r.min) /\ ~(v > r.max) /\ ~Below(r, v) /\ Above(r, v)
  <2>1. Sides(r, v) = {"left"}
    BY <1>4 DEF Sides
  <2>2. v = r.max /\ ~r.signMax
    BY <1>4 DEF Above
  <2> QED BY <1>4, <2>1, <2>2 DEF Above
<1>5. CASE ~(v < r.min) /\ ~(v > r.max) /\ ~Below(r, v) /\ ~Above(r, v)
  <2>1. Sides(r, v) = {"left", "right"}
    BY <1>5 DEF Sides
  <2> QED BY <1>5, <2>1
<1> QED BY <1>1, <1>2, <1>3, <1>4, <1>5

LEMMA ReachesInside ==
  ASSUME NEW tree, GoodTree(tree), NEW r, r.min \in Int, r.max \in Int, NEW p \in DOMAIN tree,
         ~Below(r, tree[p].name), ~Above(r, tree[p].name)
  PROVE  p \in Reached(tree, r)
<1> SUFFICES ASSUME NEW k \in DOMAIN p PROVE p[k] \in Sides(r, tree[SubSeq(p, 1, k - 1)].name)
  BY DEF Reached
<1> DEFINE s == tree[p]
           above == Upto(p, k - 1)
<1>1. /\ \A q \in DOMAIN tree : tree[q] \in Pupil /\ tree[q].name \in Int /\ q \in Paths
      /\ s.name \in Int
  BY TreeTyped
<1>2. DOMAIN p = 1 .. Len(p)
  BY <1>1, PathFacts
<1>3. above \in DOMAIN tree /\ tree[above].name # s.name /\ p[k] = Side(s, tree[above])
  <2>1. Follows(tree, s, p) /\ k \in 1 .. Len(p)
    BY <1>2 DEF GoodTree
  <2> QED BY <2>1 DEF Follows
<1>4. above = SubSeq(p, 1, k - 1)
  BY DEF Upto
<1> DEFINE t == tree[above]
<1>5. t.name \in Int /\ t.name # s.name
  BY <1>1, <1>3
<1>6. ~Below(r, s.name) /\ ~Above(r, s.name)
  OBVIOUS
<1>7. p[k] = Side(s, t)
  BY <1>3
<1> HIDE DEF s, t, above
<1>8. p[k] \in Sides(r, t.name)
  <2>1. CASE s.name > t.name
    <3>1. Side(s, t) = "right"
      BY <2>1, SideIs
    <3> QED BY <1>1, <1>5, <1>6, <1>7, <2>1, <3>1, SidesIs
  <2>2. CASE s.name < t.name
    <3>1. Side(s, t) = "left"
      BY <1>1, <1>5, <2>2, SideIs
    <3> QED BY <1>1, <1>5, <1>6, <1>7, <2>2, <3>1, SidesIs
  <2> QED BY <1>1, <1>5, <2>1, <2>2
<1> QED BY <1>4, <1>8 DEF t

LEMMA IntervalSelects ==
  ASSUME NEW tree, GoodTree(tree), NEW names, NEW ratings, NEW r, IntervalFor(names, Lowest, Highest, r)
  PROVE  ByName(rec_sel_tree(tree, r, ratings), tree, names, ratings)
<1> DEFINE P == Reached(tree, r)
           v == Visits(tree, P, "left")
           K == {i \in DOMAIN v : Sides(r, v[i].name) = {"left", "right"} /\ Suits(v[i], r.excluded, ratings)}
           res == rec_sel_tree(tree, r, ratings)
<1>1. /\ r.min \in Int /\ r.max \in Int /\ Ascends(r.excluded)
      /\ \A y \in Int : Inside(r, y) => Admits(names, y)
      /\ \A y \in Int : Admits(names, y) /\ Lowest < y /\ y < Highest => Inside(r, y)
  BY DEF IntervalFor
<1>2. res = Picked(v, K)
  BY DEF rec_sel_tree, Reached
<1>3. P \in SUBSET DOMAIN tree
  BY DEF Reached
<1> HIDE DEF P
<1>4. v \in Seq(Pupil) /\ IsInjective(v) /\ Range(v) = {tree[p] : p \in P}
  <2>1. "left" \in {"left", "right"}
    OBVIOUS
  <2> QED BY <1>3, <2>1, VisitsIs
<1> HIDE DEF v, res
<1>5. DOMAIN v = 1 .. Len(v) /\ K \in SUBSET (1 .. Len(v))
  BY <1>4
<1>6. ASSUME NEW i \in DOMAIN v
      PROVE  i \in K <=> Inside(r, v[i].name) /\ Admits(ratings, v[i].rating)
  <2>1. v[i].name \in Int
    BY <1>4, <1>5, PupilTyped
  <2>2. Sides(r, v[i].name) = {"left", "right"} <=> ~Below(r, v[i].name) /\ ~Above(r, v[i].name)
    BY <1>1, <2>1, SidesIs
  <2>3. NotExcluded(r.excluded, v[i].name) <=> v[i].name \notin Values(r.excluded)
    BY <1>1, <2>1, NotExcludedOf
  <2> QED BY <2>2, <2>3 DEF Suits, Inside
<1> HIDE DEF K
<1>7. res \in Seq(Pupil) /\ IsInjective(res) /\ Range(res) = {v[k] : k \in K}
  BY <1>2, <1>4, <1>5, PickedOnce
<1>8. ASSUME NEW s \in Range(res) PROVE s \in Range(tree) /\ Admits(names, s.name) /\ Admits(ratings, s.rating)
  <2>1. PICK k \in K : s = v[k]
    BY <1>7
  <2>2. k \in DOMAIN v
    BY <1>5
  <2>3. s \in Range(v)
    BY <2>1, <2>2 DEF Range
  <2>4. PICK p \in P : s = tree[p]
    BY <1>4, <2>3
  <2>5. s \in Range(tree)
    BY <1>3, <2>4 DEF Range
  <2>6. s.name \in Int
    BY <1>3, <2>4, TreeTyped
  <2> QED BY <1>1, <1>6, <2>1, <2>2, <2>5, <2>6
<1>9. ASSUME NEW s \in Range(tree), Admits(names, s.name), Admits(ratings, s.rating) PROVE s \in Range(res)
  <2>1. PICK p \in DOMAIN tree : s = tree[p]
    BY DEF Range
  <2>2. s.name \in Int /\ Lowest < s.name /\ s.name < Highest
    BY <2>1, TreeTyped, PupilTyped
  <2>3. Inside(r, s.name)
    BY <1>1, <1>9, <2>2
  <2>4. p \in P
    BY <1>1, <2>1, <2>3, ReachesInside DEF Inside, P
  <2>5. s \in Range(v)
    BY <1>4, <2>1, <2>4
  <2>6. PICK i \in DOMAIN v : s = v[i]
    BY <2>5 DEF Range
  <2>7. i \in K
    BY <1>6, <1>9, <2>3, <2>6
  <2> QED BY <1>7, <2>6, <2>7
<1>10. ByName(res, tree, names, ratings)
  BY <1>7, <1>8, <1>9 DEF ByName
<1> QED BY <1>10 DEF res

LEMMA TreeSelects ==
  ASSUME NEW tree, GoodTree(tree), NEW names, Form("name", names), NEW ratings
  PROVE  ByName(sub_select_tree(tree, names, ratings), tree, names, ratings)
<1> DEFINE r == Interval(names, Lowest, Highest)
<1>0. Lowest \in Int /\ Highest \in Int
  BY BoundsAssumption
<1>1. \/ StartsWith(names, {"EQ"}) /\ OneEqual(names)
      \/ ~StartsWith(names, {"EQ"}) /\ IntervalFor(names, Lowest, Highest, r)
  BY <1>0, IntervalAgrees
<1> HIDE DEF r
<1>2. CASE StartsWith(names, {"EQ"}) /\ OneEqual(names)
  <2>1. PICK x \in Int : names = << Condition("EQ", x) >>
    BY <1>2 DEF OneEqual
  <2>2. Head(names).value = x /\ \A v : Admits(names, v) <=> v = x
    BY <2>1, AdmitsEqual
  <2>3. sub_select_tree(tree, names, ratings) = EqualInTree(tree, x, ratings)
    BY <1>2, <2>2 DEF sub_select_tree
  <2> QED BY <2>2, <2>3, EqualSelects
<1>3. CASE ~StartsWith(names, {"EQ"}) /\ IntervalFor(names, Lowest, Highest, r)
  <2>1. sub_select_tree(tree, names, ratings) = rec_sel_tree(tree, r, ratings)
    BY <1>3 DEF sub_select_tree, r
  <2> QED BY <1>3, <2>1, IntervalSelects
<1> QED BY <1>1, <1>2, <1>3

(* A selection from some groups, before their numbers are looked at.           *)
Sorted(c) ==
  /\ \A col \in Columns : Form(col, c[col])
  /\ \A i \in 1 .. Len(c["group"]) : c["group"][i].value \in 100 .. 699

Suited(c, s) == Admits(c["rating"], s.rating) /\ Admits(c["name"], s.name)

BeyondDefaults(c, s) == c["name"] = << >> /\ ~(Lowest < s.rating /\ s.rating < Highest)

Chosen(res, S, c) ==
  /\ res \in Seq(Pupil) /\ IsInjective(res) /\ Range(res) \subseteq S
  /\ \A s \in Range(res) : Suited(c, s)
  /\ \A s \in S : Suited(c, s) /\ ~BeyondDefaults(c, s) => s \in Range(res)

LEMMA AdmitsAll == ASSUME NEW v \in Int PROVE Admits(<< >>, v)
<1>1. << >> \in OneOf({"GT", "GE"}) /\ << >> \in OneOf({"LT", "LE"}) /\ << >> \in Seq(Int)
  BY DEF OneOf
<1>2. NotList(<< >>) = << >> /\ Len(<< >>) = 0
  BY <1>1, NotListIs
<1>3. (<< >> \o << >>) \o << >> = << >>
  OBVIOUS
<1>4. Rising(<< >>) /\ Vals(<< >>) = {}
  BY <1>2 DEF Rising, RisesTo, Vals
<1>5. Parts(<< >>, << >>, << >>, << >>)
  BY <1>1, <1>2, <1>3, <1>4 DEF Parts
<1>6. Admits(<< >>, v) <=> Meaning(<< >>, v) /\ Meaning(<< >>, v) /\ v \notin Vals(<< >>)
  BY <1>5, AdmitsInOrder
<1> QED BY <1>4, <1>6, MeaningOfFew

LEMMA NodeSelects ==
  ASSUME NEW node, GoodNode(node), NEW c, Sorted(c)
  PROVE  Chosen(sub_select_group(node, c), Range(node.list), c)
<1> DEFINE res == sub_select_group(node, c)
           names == c["name"]
           ratings == c["rating"]
           lst == node.list
           tree == node.tree
<1>1. /\ lst \in Seq(Pupil) /\ Increases(lst) /\ IsInjective(lst) /\ GoodTree(tree)
      /\ Range(tree) = Range(lst)
  BY DEF GoodNode, NodeSet
<1>2. Form("name", names) /\ Form("rating", ratings)
  BY DEF Sorted, Columns
<1>3. /\ names # << >> => res = sub_select_tree(tree, names, ratings)
      /\ names = << >> => res = sub_select_list(lst, ratings)
  BY DEF sub_select_group
<1>4. \A s \in Range(lst) : s.name \in Int
  BY <1>1, PupilTyped DEF Range
<1>5. \A s : /\ Suited(c, s) <=> Admits(ratings, s.rating) /\ Admits(names, s.name)
             /\ BeyondDefaults(c, s) <=> names = << >> /\ ~(Lowest < s.rating /\ s.rating < Highest)
  BY DEF Suited, BeyondDefaults
<1> HIDE DEF res, names, ratings, lst, tree
<1>6. CASE names # << >>
  <2>1. ByName(res, tree, names, ratings)
    BY <1>1, <1>2, <1>3, <1>6, TreeSelects
  <2>2. Chosen(res, Range(lst), c)
    BY <1>1, <1>5, <1>6, <2>1 DEF ByName, Chosen
  <2> QED BY <2>2 DEF res, lst
<1>7. CASE names = << >>
  <2>1. ByRating(res, lst, ratings)
    BY <1>1, <1>2, <1>3, <1>7, ListSelects
  <2>2. \A s \in Range(lst) : Admits(names, s.name)
    BY <1>4, <1>7, AdmitsAll
  <2>3. Chosen(res, Range(lst), c)
    BY <1>5, <1>7, <2>1, <2>2 DEF ByRating, Chosen
  <2> QED BY <2>3 DEF res, lst
<1> QED BY <1>6, <1>7

OfGroups(nodes) ==
  /\ nodes \in Seq(NodeSet) /\ \A i \in 1 .. Len(nodes) : GoodNode(nodes[i])
  /\ \A i, j \in 1 .. Len(nodes) : nodes[i].group = nodes[j].group => i = j

StudentsOf(nodes) == {s \in Pupil : \E i \in 1 .. Len(nodes) : s \in Range(nodes[i].list)}

LEMMA FromNodesSelects ==
  ASSUME NEW nodes, OfGroups(nodes), NEW c, Sorted(c)
  PROVE  Chosen(FromNodes(nodes, c), StudentsOf(nodes), c)
<1> DEFINE n == Len(nodes)
           piece(i) == sub_select_group(nodes[i], c)
           pp == [i \in 1 .. n |-> piece(i)]
           res == FromNodes(nodes, c)
<1>1. /\ nodes \in Seq(NodeSet) /\ \A i \in 1 .. n : GoodNode(nodes[i])
      /\ \A i, j \in 1 .. n : nodes[i].group = nodes[j].group => i = j
  BY DEF OfGroups
<1>2. n \in Nat /\ DOMAIN nodes = 1 .. n
  BY <1>1
<1>3. res = FlattenSeq(pp)
  BY <1>2 DEF FromNodes
<1>4. \A i \in 1 .. n : Chosen(piece(i), Range(nodes[i].list), c)
  BY <1>1, NodeSelects
<1> HIDE DEF res, piece
<1>5. ASSUME NEW i \in 1 .. n
      PROVE  /\ pp[i] = piece(i) /\ pp[i] \in Seq(Pupil) /\ IsInjective(pp[i])
             /\ \A x \in Range(pp[i]) : x \in Range(nodes[i].list) /\ x.group = nodes[i].group /\ x \in Pupil
  <2>1. pp[i] = piece(i)
    OBVIOUS
  <2>2. piece(i) \in Seq(Pupil) /\ IsInjective(piece(i)) /\ Range(piece(i)) \subseteq Range(nodes[i].list)
    BY <1>4 DEF Chosen
  <2> DEFINE node == nodes[i]
  <2>3. GoodNode(node)
    BY <1>1
  <2> HIDE DEF node, pp
  <2>4. node.list \in Seq(Pupil) /\ \A s \in Range(node.list) : s.group = node.group /\ s \in Pupil
    BY <2>3 DEF GoodNode, NodeSet, Range
  <2> QED BY <2>1, <2>2, <2>4 DEF node
<1>6. pp \in [1 .. n -> Seq(Pupil)]
  BY <1>5
<1> HIDE DEF pp
<1>7. ASSUME NEW i \in 1 .. n, NEW j \in 1 .. n, NEW x, x \in Range(pp[i]), x \in Range(pp[j]) PROVE i = j
  <2>1. x.group = nodes[i].group
    BY <1>5, <1>7
  <2>2. x.group = nodes[j].group
    BY <1>5, <1>7
  <2> QED BY <1>1, <2>1, <2>2
<1>8. GluedOnce(FlattenSeq(pp), Pupil, pp, n)
  <2> HIDE DEF n
  <2> QED BY <1>2, <1>5, <1>6, <1>7, FlattenOnce
<1>9. res \in Seq(Pupil) /\ IsInjective(res) /\ \A x : x \in Range(res) <=> \E i \in 1 .. n : x \in Range(pp[i])
  BY <1>3, <1>8 DEF GluedOnce
<1>10. ASSUME NEW s \in Range(res) PROVE s \in StudentsOf(nodes) /\ Suited(c, s)
  <2>1. PICK i \in 1 .. n : s \in Range(pp[i])
    BY <1>9
  <2>2. Suited(c, s)
    BY <1>4, <1>5, <2>1 DEF Chosen
  <2>3. s \in Pupil /\ s \in Range(nodes[i].list)
    BY <1>5, <2>1
  <2> QED BY <2>2, <2>3 DEF StudentsOf
<1>11. ASSUME NEW s \in StudentsOf(nodes), Suited(c, s), ~BeyondDefaults(c, s) PROVE s \in Range(res)
  <2>1. PICK i \in 1 .. n : s \in Range(nodes[i].list)
    BY DEF StudentsOf
  <2>2. s \in Range(pp[i])
    BY <1>4, <1>5, <1>11, <2>1 DEF Chosen
  <2> QED BY <1>9, <2>2
<1>12. Chosen(res, StudentsOf(nodes), c)
  BY <1>9, <1>10, <1>11 DEF Chosen
<1> QED BY <1>12 DEF res

(* Some groups of one chain.                                                   *)
LEMMA PartOfChain ==
  ASSUME NEW x, NEW chain, GoodChain(x, chain), NEW K \in SUBSET (1 .. Len(chain))
  PROVE  /\ OfGroups(Picked(chain, K))
         /\ \A s \in Pupil : s \in StudentsOf(Picked(chain, K)) <=> \E k \in K : s \in Range(chain[k].list)
<1> DEFINE nodes == Picked(chain, K)
           m == Len(nodes)
<1>1. /\ chain \in Seq(NodeSet) /\ \A j \in 1 .. Len(chain) : GoodNode(chain[j])
      /\ \A j, k \in 1 .. Len(chain) : chain[j].group = chain[k].group => j = k
  BY DEF GoodChain
<1>2. DOMAIN chain = 1 .. Len(chain)
  BY <1>1
<1>3. IsInjective(chain)
  BY <1>1, <1>2 DEF IsInjective
<1>4. nodes \in Seq(NodeSet) /\ IsInjective(nodes) /\ Range(nodes) = {chain[k] : k \in K}
  <2> HIDE DEF nodes
  <2>1. chain \in Seq(NodeSet)
    BY <1>1
  <2> QED BY <1>3, <2>1, PickedOnce, Zenon DEF nodes
<1> HIDE DEF nodes
<1>5. DOMAIN nodes = 1 .. m
  BY <1>4
<1>6. ASSUME NEW i \in 1 .. m PROVE \E k \in K : k \in 1 .. Len(chain) /\ nodes[i] = chain[k]
  <2>1. nodes[i] \in Range(nodes)
    BY <1>5 DEF Range
  <2>2. PICK k \in K : nodes[i] = chain[k]
    BY <1>4, <2>1
  <2>3. k \in 1 .. Len(chain)
    OBVIOUS
  <2> QED BY <2>2, <2>3
<1>7. ASSUME NEW i \in 1 .. m PROVE GoodNode(nodes[i])
  BY <1>1, <1>6
<1>8. ASSUME NEW i \in 1 .. m, NEW j \in 1 .. m, nodes[i].group = nodes[j].group PROVE i = j
  <2>1. PICK k \in 1 .. Len(chain) : nodes[i] = chain[k]
    BY <1>6
  <2>2. PICK l \in 1 .. Len(chain) : nodes[j] = chain[l]
    BY <1>6
  <2>3. k = l
    BY <1>1, <1>8, <2>1, <2>2
  <2>4. nodes[i] = nodes[j]
    BY <2>1, <2>2, <2>3
  <2> QED BY <1>4, <1>5, <2>4 DEF IsInjective
<1>9. OfGroups(nodes)
  BY <1>4, <1>7, <1>8 DEF OfGroups
<1>10. ASSUME NEW s \in Pupil, s \in StudentsOf(nodes) PROVE \E k \in K : s \in Range(chain[k].list)
  <2>1. PICK i \in 1 .. m : s \in Range(nodes[i].list)
    BY <1>10 DEF StudentsOf
  <2> QED BY <1>6, <2>1
<1>11. ASSUME NEW s \in Pupil, NEW k \in K, s \in Range(chain[k].list) PROVE s \in StudentsOf(nodes)
  <2>1. chain[k] \in Range(nodes)
    BY <1>4
  <2>2. PICK i \in 1 .. m : nodes[i] = chain[k]
    BY <1>5, <2>1 DEF Range
  <2> QED BY <1>11, <2>2 DEF StudentsOf
<1> QED BY <1>9, <1>10, <1>11 DEF nodes

LEMMA GroupsAreNumbers ==
  /\ \A g \in 100 .. 699 : g \in Int /\ 100 <= g /\ g <= 699
  /\ \A i \in Indexes : i \in Int
  /\ 100 \in 100 .. 699 /\ 699 \in 100 .. 699
BY DEF Indexes

(* Where the students of a hash are.                                           *)
LEMMA InHash ==
  ASSUME NEW hash, GoodHash(hash)
  PROVE  /\ \A x \in Indexes : GoodChain(x, hash[x]) /\ DOMAIN hash[x] = 1 .. Len(hash[x])
         /\ \A x \in Indexes : \A j \in 1 .. Len(hash[x]) :
              /\ hash[x][j].group \in 100 .. 699
              /\ \A s \in Range(hash[x][j].list) :
                   s \in HashBase(hash) /\ s \in Pupil /\ s.group = hash[x][j].group /\ x = hash_fun(s.group)
         /\ \A s \in HashBase(hash) : /\ s \in Pupil /\ s.group \in 100 .. 699 /\ hash_fun(s.group) \in Indexes
                                      /\ \E j \in 1 .. Len(hash[hash_fun(s.group)]) :
                                           /\ s \in Range(hash[hash_fun(s.group)][j].list)
                                           /\ hash[hash_fun(s.group)][j].group = s.group
<1>1. ASSUME NEW x \in Indexes PROVE GoodChain(x, hash[x]) /\ DOMAIN hash[x] = 1 .. Len(hash[x])
  <2>1. hash[x] \in Seq(NodeSet) /\ GoodChain(x, hash[x])
    BY DEF GoodHash
  <2> QED BY <2>1
<1>2. ASSUME NEW x \in Indexes, NEW j \in 1 .. Len(hash[x])
      PROVE  /\ hash[x][j].group \in 100 .. 699
             /\ \A s \in Range(hash[x][j].list) :
                  s \in HashBase(hash) /\ s \in Pupil /\ s.group = hash[x][j].group /\ x = hash_fun(s.group)
  <2> DEFINE node == hash[x][j]
  <2>1. GoodNode(node) /\ hash_fun(node.group) = x
    BY <1>1 DEF GoodChain
  <2>2. \A s \in Pupil : s \in Range(node.list) => s \in HashBase(hash)
    BY DEF HashBase
  <2> HIDE DEF node
  <2>3. node.group \in 100 .. 699 /\ node.list \in Seq(Pupil) /\ \A s \in Range(node.list) : s.group = node.group
    BY <2>1 DEF GoodNode, NodeSet
  <2>4. \A s \in Range(node.list) : s \in Pupil
    BY <2>3 DEF Range
  <2> QED BY <2>1, <2>2, <2>3, <2>4 DEF node
<1>3. ASSUME NEW s \in HashBase(hash)
      PROVE  /\ s \in Pupil /\ s.group \in 100 .. 699 /\ hash_fun(s.group) \in Indexes
             /\ \E j \in 1 .. Len(hash[hash_fun(s.group)]) :
                  s \in Range(hash[hash_fun(s.group)][j].list) /\ hash[hash_fun(s.group)][j].group = s.group
  <2>1. s \in Pupil /\ \E x \in Indexes : \E j \in 1 .. Len(hash[x]) : s \in Range(hash[x][j].list)
    BY DEF HashBase
  <2>2. PICK x \in Indexes : \E j \in 1 .. Len(hash[x]) : s \in Range(hash[x][j].list)
    BY <2>1
  <2>3. PICK j \in 1 .. Len(hash[x]) : s \in Range(hash[x][j].list)
    BY <2>2
  <2>4. s.group = hash[x][j].group /\ x = hash_fun(s.group)
    BY <1>2, <2>3
  <2>5. s.group \in 100 .. 699
    BY <1>2, <2>4
  <2> QED BY <2>1, <2>3, <2>4, <2>5
<1> QED BY <1>1, <1>2, <1>3

(* do_select.                                                                  *)
AtDefaults(c, s) == s.group \in {100, 699} \/ BeyondDefaults(c, s)

Selected(res, c, hash) ==
  /\ res \in Seq(Pupil) /\ IsInjective(res) /\ Range(res) \subseteq HashBase(hash)
  /\ \A s \in Range(res) : Fits(c, s)
  /\ \A s \in HashBase(hash) : Fits(c, s) /\ ~AtDefaults(c, s) => s \in Range(res)

LEMMA EqualGroup ==
  ASSUME GoodHash(root), NEW c, Sorted(c), NEW x \in 100 .. 699,
         \A v : Admits(c["group"], v) <=> v = x
  PROVE  Selected(FromNodes(Picked(root[hash_fun(x)], {i \in DOMAIN root[hash_fun(x)] : root[hash_fun(x)][i].group = x}), c), c, root)
<1> DEFINE y == hash_fun(x)
           chain == root[y]
           K == {i \in DOMAIN chain : chain[i].group = x}
           nodes == Picked(chain, K)
           res == FromNodes(nodes, c)
<1>1. y \in Indexes
  BY HashFunIs
<1>2. GoodChain(y, chain) /\ DOMAIN chain = 1 .. Len(chain)
  BY <1>1, InHash
<1>3. \A j \in 1 .. Len(chain) : \A s \in Range(chain[j].list) : s \in HashBase(root) /\ s \in Pupil /\ s.group = chain[j].group
  BY <1>1, InHash
<1>4. ASSUME NEW s \in HashBase(root), s.group = x
      PROVE  s \in Pupil /\ \E j \in 1 .. Len(chain) : s \in Range(chain[j].list) /\ chain[j].group = x
  BY <1>4, InHash
<1> HIDE DEF y, chain
<1>5. K \in SUBSET (1 .. Len(chain)) /\ \A k \in 1 .. Len(chain) : k \in K <=> chain[k].group = x
  BY <1>2
<1> HIDE DEF K
<1>6. OfGroups(nodes) /\ \A s \in Pupil : s \in StudentsOf(nodes) <=> \E k \in K : s \in Range(chain[k].list)
  BY <1>2, <1>5, PartOfChain
<1> HIDE DEF nodes
<1>7. Chosen(res, StudentsOf(nodes), c)
  BY <1>6, FromNodesSelects
<1> HIDE DEF res
<1>8. \A s : Fits(c, s) <=> Admits(c["group"], s.group) /\ Suited(c, s)
  BY DEF Fits, Suited
<1>9. ASSUME NEW s \in Range(res) PROVE s \in HashBase(root) /\ Fits(c, s)
  <2>1. s \in StudentsOf(nodes) /\ Suited(c, s)
    BY <1>7 DEF Chosen
  <2>2. s \in Pupil
    BY <2>1 DEF StudentsOf
  <2>3. PICK k \in K : s \in Range(chain[k].list)
    BY <1>6, <2>1, <2>2
  <2>4. k \in 1 .. Len(chain) /\ chain[k].group = x
    BY <1>5
  <2>5. s \in HashBase(root) /\ s.group = x
    BY <1>3, <2>3, <2>4
  <2> QED BY <1>8, <2>1, <2>5
<1>10. ASSUME NEW s \in HashBase(root), Fits(c, s), ~AtDefaults(c, s) PROVE s \in Range(res)
  <2>1. s.group = x /\ Suited(c, s) /\ ~BeyondDefaults(c, s)
    BY <1>8, <1>10 DEF AtDefaults
  <2>2. s \in Pupil /\ \E j \in 1 .. Len(chain) : s \in Range(chain[j].list) /\ chain[j].group = x
    BY <1>4, <2>1
  <2>3. \E k \in K : s \in Range(chain[k].list)
    BY <1>5, <2>2
  <2>4. s \in StudentsOf(nodes)
    BY <1>6, <2>2, <2>3
  <2> QED BY <1>7, <2>1, <2>4 DEF Chosen
<1>11. Selected(res, c, root)
  <2>1. res \in Seq(Pupil) /\ IsInjective(res)
    BY <1>7 DEF Chosen
  <2> QED BY <1>9, <1>10, <2>1 DEF Selected
<1> QED BY <1>11 DEF res, nodes, K, chain, y

WithinGroup(r, node) == ~Below(r, node.group) /\ ~Above(r, node.group) /\ NotExcluded(r.excluded, node.group)

GroupsWithin(r, chain) == Picked(chain, {i \in DOMAIN chain : WithinGroup(r, chain[i])})

ByGroup(r, c) ==
  FlattenSeq([k \in 1 .. hash_fun(r.max) - hash_fun(r.min) + 1 |-> FromNodes(GroupsWithin(r, root[hash_fun(r.min) + k - 1]), c)])

LEMMA PieceOfChain ==
  ASSUME GoodHash(root), NEW c, Sorted(c), NEW r, Ascends(r.excluded), NEW x \in Indexes
  PROVE  /\ Chosen(FromNodes(GroupsWithin(r, root[x]), c), StudentsOf(GroupsWithin(r, root[x])), c)
         /\ \A s : s \in StudentsOf(GroupsWithin(r, root[x])) <=>
                     s \in HashBase(root) /\ x = hash_fun(s.group) /\ Inside(r, s.group)
<1> DEFINE chain == root[x]
           K == {i \in DOMAIN chain : WithinGroup(r, chain[i])}
           nodes == Picked(chain, K)
<1>1. GoodChain(x, chain) /\ DOMAIN chain = 1 .. Len(chain)
  BY InHash
<1>2. \A j \in 1 .. Len(chain) : /\ chain[j].group \in 100 .. 699
                                 /\ \A s \in Range(chain[j].list) :
                                      s \in HashBase(root) /\ s \in Pupil /\ s.group = chain[j].group /\ x = hash_fun(s.group)
  BY InHash
<1>3. ASSUME NEW s \in HashBase(root), x = hash_fun(s.group)
      PROVE  s \in Pupil /\ \E j \in 1 .. Len(chain) : s \in Range(chain[j].list) /\ chain[j].group = s.group
  BY <1>3, InHash
<1> HIDE DEF chain
<1>4. K \in SUBSET (1 .. Len(chain)) /\ \A k \in 1 .. Len(chain) : k \in K <=> Inside(r, chain[k].group)
  <2>1. K \in SUBSET (1 .. Len(chain)) /\ \A k \in 1 .. Len(chain) : k \in K <=> WithinGroup(r, chain[k])
    BY <1>1
  <2>2. \A k \in 1 .. Len(chain) : NotExcluded(r.excluded, chain[k].group) <=> chain[k].group \notin Values(r.excluded)
    <3> TAKE k \in 1 .. Len(chain)
    <3>1. chain[k].group \in 100 .. 699
      BY <1>2
    <3>2. chain[k].group \in Int
      BY <3>1, GroupsAreNumbers
    <3> QED BY <3>2, NotExcludedOf
  <2> HIDE DEF K
  <2> QED BY <2>1, <2>2 DEF WithinGroup, Inside
<1>5. GroupsWithin(r, chain) = nodes
  BY DEF GroupsWithin
<1> HIDE DEF K
<1>6. OfGroups(nodes) /\ \A s \in Pupil : s \in StudentsOf(nodes) <=> \E k \in K : s \in Range(chain[k].list)
  BY <1>1, <1>4, PartOfChain
<1> HIDE DEF nodes
<1>7. Chosen(FromNodes(nodes, c), StudentsOf(nodes), c)
  BY <1>6, FromNodesSelects
<1>8. ASSUME NEW s, s \in StudentsOf(nodes) PROVE s \in HashBase(root) /\ x = hash_fun(s.group) /\ Inside(r, s.group)
  <2>1. s \in Pupil
    BY <1>8 DEF StudentsOf
  <2>2. PICK k \in K : s \in Range(chain[k].list)
    BY <1>6, <1>8, <2>1
  <2>3. k \in 1 .. Len(chain) /\ Inside(r, chain[k].group)
    BY <1>4
  <2> QED BY <1>2, <2>2, <2>3
<1>9. ASSUME NEW s \in HashBase(root), x = hash_fun(s.group), Inside(r, s.group) PROVE s \in StudentsOf(nodes)
  <2>1. s \in Pupil /\ \E j \in 1 .. Len(chain) : s \in Range(chain[j].list) /\ chain[j].group = s.group
    BY <1>3, <1>9
  <2>2. \E k \in K : s \in Range(chain[k].list)
    BY <1>4, <1>9, <2>1
  <2> QED BY <1>6, <2>1, <2>2
<1> QED BY <1>5, <1>7, <1>8, <1>9 DEF chain

LEMMA ByGroupSelects ==
  ASSUME GoodHash(root), NEW c, Sorted(c), NEW r, IntervalFor(c["group"], 100, 699, r)
  PROVE  Selected(ByGroup(r, c), c, root)
<1> DEFINE first == hash_fun(r.min)
           m == hash_fun(r.max) - first + 1
           n == IF m > 0 THEN m ELSE 0
           nodes(k) == GroupsWithin(r, root[first + k - 1])
           piece(k) == FromNodes(nodes(k), c)
           pp == [k \in 1 .. n |-> piece(k)]
           res == ByGroup(r, c)
<1>1. /\ r.min \in Int /\ r.max \in Int /\ Ascends(r.excluded)
      /\ r.min = 100 \/ \E i \in 1 .. Len(c["group"]) : r.min = c["group"][i].value
      /\ r.max = 699 \/ \E i \in 1 .. Len(c["group"]) : r.max = c["group"][i].value
      /\ \A v \in Int : Inside(r, v) => Admits(c["group"], v)
      /\ \A v \in Int : Admits(c["group"], v) /\ 100 < v /\ v < 699 => Inside(r, v)
  BY DEF IntervalFor
<1>2. r.min \in 100 .. 699 /\ r.max \in 100 .. 699
  <2>1. \A i \in 1 .. Len(c["group"]) : c["group"][i].value \in 100 .. 699
    BY DEF Sorted
  <2>2. r.min \in 100 .. 699
    <3>1. CASE r.min = 100
      BY <3>1, GroupsAreNumbers
    <3>2. CASE \E i \in 1 .. Len(c["group"]) : r.min = c["group"][i].value
      BY <2>1, <3>2
    <3> QED BY <1>1, <3>1, <3>2
  <2>3. r.max \in 100 .. 699
    <3>1. CASE r.max = 699
      BY <3>1, GroupsAreNumbers
    <3>2. CASE \E i \in 1 .. Len(c["group"]) : r.max = c["group"][i].value
      BY <2>1, <3>2
    <3> QED BY <1>1, <3>1, <3>2
  <2> QED BY <2>2, <2>3
<1>3. first \in Indexes /\ hash_fun(r.max) \in Indexes
  BY <1>2, HashFunIs
<1>4. first \in Int /\ m \in Int /\ n \in Nat /\ 1 .. m = 1 .. n /\ \A k \in 1 .. n : first + k - 1 \in Indexes
  BY <1>3 DEF Indexes
<1>5. res = FlattenSeq(pp)
  BY <1>4 DEF ByGroup
<1>6. ASSUME NEW k \in 1 .. n
      PROVE  /\ Chosen(piece(k), StudentsOf(nodes(k)), c)
             /\ \A s : s \in StudentsOf(nodes(k)) <=>
                         s \in HashBase(root) /\ first + k - 1 = hash_fun(s.group) /\ Inside(r, s.group)
  <2> DEFINE x == first + k - 1
  <2>1. x \in Indexes
    BY <1>4
  <2> HIDE DEF x
  <2>2. /\ Chosen(FromNodes(GroupsWithin(r, root[x]), c), StudentsOf(GroupsWithin(r, root[x])), c)
        /\ \A s : s \in StudentsOf(GroupsWithin(r, root[x])) <=>
                    s \in HashBase(root) /\ x = hash_fun(s.group) /\ Inside(r, s.group)
    BY <1>1, <2>1, PieceOfChain
  <2> QED BY <2>2 DEF x
<1> HIDE DEF nodes, piece, res
<1>7. ASSUME NEW k \in 1 .. n
      PROVE  /\ pp[k] = piece(k) /\ pp[k] \in Seq(Pupil) /\ IsInjective(pp[k])
             /\ \A s \in Range(pp[k]) : /\ s \in HashBase(root) /\ first + k - 1 = hash_fun(s.group)
                                        /\ Inside(r, s.group) /\ Suited(c, s)
  <2>1. pp[k] = piece(k)
    OBVIOUS
  <2> HIDE DEF pp, n, m, first
  <2>2. /\ piece(k) \in Seq(Pupil) /\ IsInjective(piece(k)) /\ Range(piece(k)) \subseteq StudentsOf(nodes(k))
        /\ \A s \in Range(piece(k)) : Suited(c, s)
    BY <1>6 DEF Chosen
  <2> QED BY <1>6, <2>1, <2>2
<1>8. pp \in [1 .. n -> Seq(Pupil)]
  BY <1>7
<1>9. \A k \in 1 .. n : k \in Int
  BY <1>4
<1> HIDE DEF pp, first, m, n
<1>10. ASSUME NEW i \in 1 .. n, NEW j \in 1 .. n, NEW s, s \in Range(pp[i]), s \in Range(pp[j]) PROVE i = j
  <2>1. first + i - 1 = hash_fun(s.group)
    BY <1>7, <1>10
  <2>2. first + j - 1 = hash_fun(s.group)
    BY <1>7, <1>10
  <2>3. first + i - 1 = first + j - 1
    BY <2>1, <2>2
  <2> QED BY <1>4, <1>9, <2>3
<1>11. GluedOnce(FlattenSeq(pp), Pupil, pp, n)
  <2>1. \A i \in 1 .. n : IsInjective(pp[i])
    BY <1>7
  <2>2. \A i, j \in 1 .. n : \A x : x \in Range(pp[i]) /\ x \in Range(pp[j]) => i = j
    BY <1>10
  <2>3. n \in Nat
    BY <1>4
  <2> QED BY <1>8, <2>1, <2>2, <2>3, FlattenOnce
<1>12. res \in Seq(Pupil) /\ IsInjective(res) /\ \A x : x \in Range(res) <=> \E i \in 1 .. n : x \in Range(pp[i])
  BY <1>5, <1>11 DEF GluedOnce
<1>13. ASSUME NEW s \in HashBase(root) PROVE s.group \in 100 .. 699 /\ s.group \in Int
  <2>1. s.group \in 100 .. 699
    BY InHash
  <2> QED BY <2>1, GroupsAreNumbers
<1>14. \A s : Fits(c, s) <=> Admits(c["group"], s.group) /\ Suited(c, s)
  BY DEF Fits, Suited
<1>15. ASSUME NEW s \in Range(res) PROVE s \in HashBase(root) /\ Fits(c, s)
  <2>1. PICK k \in 1 .. n : s \in Range(pp[k])
    BY <1>12
  <2>2. s \in HashBase(root) /\ Inside(r, s.group) /\ Suited(c, s)
    BY <1>7, <2>1
  <2> QED BY <1>1, <1>13, <1>14, <2>2
<1>16. ASSUME NEW s \in HashBase(root), Fits(c, s), ~AtDefaults(c, s) PROVE s \in Range(res)
  <2>1. Admits(c["group"], s.group) /\ Suited(c, s) /\ ~BeyondDefaults(c, s) /\ s.group \notin {100, 699}
    BY <1>14, <1>16 DEF AtDefaults
  <2>2. s.group \in 100 .. 699 /\ s.group \in Int /\ 100 < s.group /\ s.group < 699
    <3>1. s.group \in 100 .. 699 /\ s.group # 100 /\ s.group # 699
      BY <1>13, <2>1
    <3> QED BY <3>1, GroupsAreNumbers
  <2>3. Inside(r, s.group)
    BY <1>1, <2>1, <2>2
  <2>4. r.min <= s.group /\ s.group <= r.max
    BY <1>1, <2>2, <2>3 DEF Inside, Below, Above
  <2>5. first <= hash_fun(s.group) /\ hash_fun(s.group) <= hash_fun(r.max)
    BY <1>2, <2>2, <2>4, HashFunIs DEF first
  <2>6. hash_fun(s.group) \in Int /\ hash_fun(r.max) \in Int
    <3>1. hash_fun(s.group) \in Indexes
      BY <2>2, HashFunIs
    <3> QED BY <1>3, <3>1, GroupsAreNumbers
  <2> DEFINE k == hash_fun(s.group) - first + 1
  <2>7. k \in 1 .. n /\ first + k - 1 = hash_fun(s.group)
    <3>1. m = hash_fun(r.max) - first + 1 /\ n = IF m > 0 THEN m ELSE 0
      BY DEF m, n
    <3> QED BY <1>4, <2>5, <2>6, <3>1
  <2> HIDE DEF k
  <2>8. s \in StudentsOf(nodes(k))
    BY <1>6, <2>3, <2>7
  <2>9. s \in Range(pp[k])
    BY <1>6, <1>7, <2>1, <2>7, <2>8 DEF Chosen
  <2> QED BY <1>12, <2>7, <2>9
<1>17. Selected(res, c, root)
  BY <1>12, <1>15, <1>16 DEF Selected
<1> QED BY <1>17 DEF res

LEMMA DoSelects ==
  ASSUME GoodHash(root), NEW c, Sorted(c)
  PROVE  Selected(do_select(c), c, root)
<1> DEFINE conds == c["group"]
           r == Interval(conds, 100, 699)
<1>1. Form("group", conds) /\ \A i \in 1 .. Len(conds) : conds[i].value \in 100 .. 699
  BY DEF Sorted, Columns
<1>2. 100 \in Int /\ 699 \in Int
  OBVIOUS
<1>3. \/ StartsWith(conds, {"EQ"}) /\ OneEqual(conds)
      \/ ~StartsWith(conds, {"EQ"}) /\ IntervalFor(conds, 100, 699, r)
  BY <1>1, <1>2, IntervalAgrees
<1>4. CASE StartsWith(conds, {"EQ"}) /\ OneEqual(conds)
  <2>1. PICK x \in Int : conds = << Condition("EQ", x) >>
    BY <1>4 DEF OneEqual
  <2>2. Head(conds).value = x /\ \A v : Admits(conds, v) <=> v = x
    BY <2>1, AdmitsEqual
  <2>3. Len(conds) = 1 /\ conds[1].value = x
    <3>1. Condition("EQ", x).value = x
      BY ConditionTyped DEF Conds
    <3> QED BY <2>1, <3>1
  <2>4. x \in 100 .. 699
    BY <1>1, <2>3
  <2> DEFINE chain == root[hash_fun(x)]
  <2>5. do_select(c) = FromNodes(Picked(chain, {i \in DOMAIN chain : chain[i].group = x}), c)
    BY <1>4, <2>2 DEF do_select
  <2>6. Selected(FromNodes(Picked(chain, {i \in DOMAIN chain : chain[i].group = x}), c), c, root)
    BY <2>2, <2>4, EqualGroup
  <2> HIDE DEF chain
  <2> QED BY <2>5, <2>6
<1>5. CASE ~StartsWith(conds, {"EQ"}) /\ IntervalFor(conds, 100, 699, r)
  <2>1. do_select(c) = ByGroup(r, c)
    BY <1>5 DEF do_select, ByGroup, GroupsWithin, WithinGroup
  <2> HIDE DEF r
  <2> QED BY <1>5, <2>1, ByGroupSelects
<1> QED BY <1>3, <1>4, <1>5

(* The conditions in force, and what a request adds to them.                   *)
GroupConds == {c \in CondType : c.value \in 100 .. 699}

CmdTyped(c) == c \in [Columns -> Seq(CondType)] /\ c["group"] \in Seq(GroupConds)

LEMMA PutInFront ==
  ASSUME NEW C, NEW s \in Seq(C), NEW t \in Seq(C)
  PROVE  Reverse(s) \o t \in Seq(C)
<1>1. Len(s) \in Nat /\ \A i \in 1 .. Len(s) : (Len(s) - i) + 1 \in 1 .. Len(s)
  OBVIOUS
<1>2. \A i \in 1 .. Len(s) : s[(Len(s) - i) + 1] \in C
  BY <1>1
<1>3. Reverse(s) \in Seq(C)
  BY <1>1, <1>2 DEF Reverse
<1> QED BY <1>3

LEMMA SeqWithin ==
  ASSUME NEW A, NEW B, NEW s \in Seq(A), \A i \in 1 .. Len(s) : s[i] \in B
  PROVE  s \in Seq(B)
<1>1. Len(s) \in Nat /\ s = [i \in 1 .. Len(s) |-> s[i]]
  OBVIOUS
<1> QED BY <1>1

LEMMA GivenTyped ==
  ASSUME NEW given \in Given
  PROVE  CmdTyped(given)
<1>1. given \in [Columns -> Seq([cond : Conds, value : {v \in Int : v < Highest}])]
  BY GivenAssumption
<1> DEFINE G == [cond : Conds, value : {v \in Int : v < Highest}]
<1>2. G \subseteq CondType
  BY DEF CondType
<1> HIDE DEF G
<1>3. ASSUME NEW col \in Columns PROVE given[col] \in Seq(CondType)
  <2>1. given[col] \in Seq(G)
    BY <1>1 DEF G
  <2>2. \A i \in 1 .. Len(given[col]) : given[col][i] \in G
    BY <2>1
  <2>3. \A i \in 1 .. Len(given[col]) : given[col][i] \in CondType
    BY <1>2, <2>2
  <2> QED BY <2>1, <2>3, SeqWithin
<1>4. given \in [Columns -> Seq(CondType)]
  BY <1>1, <1>3
<1>5. "group" \in Columns
  BY DEF Columns
<1>6. given["group"] \in Seq(CondType) /\ DOMAIN given["group"] = 1 .. Len(given["group"])
  BY <1>3, <1>5
<1>7. \A i \in 1 .. Len(given["group"]) : given["group"][i].value \in 100 .. 699
  BY <1>6, GivenAssumption
<1>8. \A i \in 1 .. Len(given["group"]) : given["group"][i] \in GroupConds
  BY <1>6, <1>7 DEF GroupConds
<1>9. given["group"] \in Seq(GroupConds)
  BY <1>6, <1>8, SeqWithin
<1> QED BY <1>4, <1>9 DEF CmdTyped

LEMMA ExtendedTyped ==
  ASSUME CmdTyped(cmd), NEW given \in Given
  PROVE  CmdTyped(Extended(given))
<1>1. CmdTyped(given)
  BY GivenTyped
<1>2. "group" \in Columns
  BY DEF Columns
<1>3. \A col \in Columns : Reverse(given[col]) \o cmd[col] \in Seq(CondType)
  BY <1>1, PutInFront DEF CmdTyped
<1>4. Reverse(given["group"]) \o cmd["group"] \in Seq(GroupConds)
  BY <1>1, PutInFront DEF CmdTyped
<1> QED BY <1>2, <1>3, <1>4 DEF Extended, CmdTyped

(* What the sorts leave.                                                       *)
LEMMA SortedTyped ==
  ASSUME NEW e, CmdTyped(e), NEW c, c = [col \in Columns |-> Sort(col, e[col]).list]
  PROVE  CmdTyped(c) /\ ((\A col \in Columns : Sort(col, e[col]).ok) => Sorted(c))
<1>1. "group" \in Columns
  BY DEF Columns
<1>2. e \in [Columns -> Seq(CondType)] /\ e["group"] \in Seq(GroupConds)
  BY DEF CmdTyped
<1>3. ASSUME NEW col \in Columns
      PROVE  Sort(col, e[col]).list \in Seq(CondType) /\ (Sort(col, e[col]).ok => Form(col, Sort(col, e[col]).list))
  <2>1. e[col] \in Seq(CondType)
    BY <1>2
  <2> QED BY <2>1, SortIs
<1>4. GroupConds \in SUBSET CondType
  BY DEF GroupConds
<1>5. \A i \in DOMAIN Sort("group", e["group"]).list :
        \E x \in GroupConds : Sort("group", e["group"]).list[i].value = x.value
  BY <1>1, <1>2, <1>4, SortIs
<1>6. c["group"] = Sort("group", e["group"]).list
  BY <1>1
<1>7. c["group"] \in Seq(CondType) /\ DOMAIN c["group"] = 1 .. Len(c["group"])
  BY <1>1, <1>3, <1>6
<1>8. \A i \in 1 .. Len(c["group"]) : c["group"][i].value \in 100 .. 699
  BY <1>5, <1>6, <1>7 DEF GroupConds
<1>9. ASSUME NEW i \in 1 .. Len(c["group"]) PROVE c["group"][i] \in GroupConds
  <2>1. c["group"][i] \in CondType
    BY <1>7
  <2> QED BY <1>8, <2>1 DEF GroupConds
<1>10. c["group"] \in Seq(GroupConds)
  BY <1>7, <1>9, SeqWithin
<1>11. CmdTyped(c)
  BY <1>3, <1>10 DEF CmdTyped
<1>12. ASSUME \A col \in Columns : Sort(col, e[col]).ok PROVE Sorted(c)
  <2>1. \A col \in Columns : Form(col, c[col])
    BY <1>3, <1>12
  <2> QED BY <1>8, <2>1 DEF Sorted
<1> QED BY <1>11, <1>12

(* The inductive invariant of the selections.                                  *)
Session(s) == s \in Seq(Pupil) /\ IsInjective(s) /\ Range(s) \subseteq HashBase(root)

SelectionInv ==
  /\ sess \in [Fd -> Seq(Pupil)] /\ \A fd \in Fd : Session(sess[fd])
  /\ CmdTyped(cmd)
  /\ reply.kind = "selected" => reply.to \in Fd /\ Selected(sess[reply.to], cmd, root)

LEMMA NoSession == Session(<< >>)
<1>1. << >> \in Seq(Pupil) /\ DOMAIN << >> = {}
  OBVIOUS
<1>2. IsInjective(<< >>) /\ Range(<< >>) = {}
  BY <1>1 DEF IsInjective, Range
<1> QED BY <1>1, <1>2 DEF Session

LEMMA SelectionInit == GroupsInit => SelectionInv
<1> SUFFICES ASSUME GroupsInit PROVE SelectionInv
  OBVIOUS
<1>1. cmd = [col \in Columns |-> << >>] /\ sess = [fd \in Fd |-> << >>] /\ reply.kind = "words"
  BY RepliesAre DEF GroupsInit
<1>2. << >> \in Seq(CondType) /\ << >> \in Seq(GroupConds) /\ << >> \in Seq(Pupil) /\ "group" \in Columns
  BY DEF Columns
<1>3. CmdTyped(cmd)
  BY <1>1, <1>2 DEF CmdTyped
<1>4. sess \in [Fd -> Seq(Pupil)] /\ \A fd \in Fd : Session(sess[fd])
  BY <1>1, <1>2, NoSession
<1> QED BY <1>1, <1>3, <1>4 DEF SelectionInv

(* A request that leaves the base alone and replaces one session.              *)
LEMMA SessionReplaced ==
  ASSUME SelectionInv, UNCHANGED root, CmdTyped(cmd'), NEW fd \in Fd, NEW new, Session(new),
         sess' = [sess EXCEPT ![fd] = new],
         reply'.kind = "selected" => reply'.to = fd /\ Selected(new, cmd', root)
  PROVE  SelectionInv'
<1>1. sess \in [Fd -> Seq(Pupil)] /\ \A other \in Fd : Session(sess[other])
  BY DEF SelectionInv
<1>2. new \in Seq(Pupil)
  BY DEF Session
<1>3. sess' \in [Fd -> Seq(Pupil)] /\ sess'[fd] = new /\ \A other \in Fd : other # fd => sess'[other] = sess[other]
  BY <1>1, <1>2
<1>5. ASSUME NEW other \in Fd PROVE Session(sess[other])'
  <2>1. sess'[other] \in Seq(Pupil) /\ IsInjective(sess'[other]) /\ Range(sess'[other]) \subseteq HashBase(root)
    BY <1>1, <1>3 DEF Session
  <2> QED BY <2>1 DEF Session
<1> QED BY <1>3, <1>5 DEF SelectionInv

LEMMA SessionsKept ==
  ASSUME SelectionInv, HashBase(root) \subseteq HashBase(root'), UNCHANGED << cmd, sess >>,
         reply'.kind # "selected"
  PROVE  SelectionInv'
<1>1. /\ sess \in [Fd -> Seq(Pupil)] /\ CmdTyped(cmd)
      /\ \A fd \in Fd : sess[fd] \in Seq(Pupil) /\ IsInjective(sess[fd]) /\ Range(sess[fd]) \subseteq HashBase(root)
  BY DEF SelectionInv, Session
<1>2. \A fd \in Fd : Session(sess[fd])'
  BY <1>1 DEF Session
<1> QED BY <1>1, <1>2 DEF SelectionInv

(* What analyze leaves, by the sorts or where it returns 1.                    *)
LEMMA AnalyzeTyped ==
  ASSUME CmdTyped(cmd), NEW given \in Given, Analyze(given)
  PROVE  CmdTyped(cmd') /\ (Compatible(given) => Sorted(cmd'))
<1> DEFINE e == Extended(given)
<1>1. CmdTyped(e)
  BY ExtendedTyped
<1>2. cmd' = [col \in Columns |-> Sort(col, e[col]).list]
  BY DEF Analyze
<1>3. Compatible(given) <=> \A col \in Columns : Sort(col, e[col]).ok
  BY DEF Compatible
<1> HIDE DEF e
<1> QED BY <1>1, <1>2, <1>3, SortedTyped

LEMMA SelectKeeps ==
  ASSUME GroupsInv, SelectionInv, NEW fd \in Fd, NEW given \in Given, select(fd, given)
  PROVE  SelectionInv'
<1>1. UNCHANGED root /\ Analyze(given)
  BY DEF select
<1>2. CmdTyped(cmd') /\ (Compatible(given) => Sorted(cmd'))
  BY <1>1, AnalyzeTyped DEF SelectionInv
<1>3. CASE Compatible(given)
  <2>1. sess' = [sess EXCEPT ![fd] = do_select(cmd')] /\ reply' = ReplyWith(fd, "selected", << >>)
    BY <1>3 DEF select, Answered
  <2>2. Selected(do_select(cmd'), cmd', root)
    BY <1>2, <1>3, DoSelects DEF GroupsInv
  <2>3. Session(do_select(cmd'))
    BY <2>2 DEF Selected, Session
  <2> DEFINE new == do_select(cmd')
  <2>4. reply'.to = fd /\ Session(new) /\ Selected(new, cmd', root) /\ sess' = [sess EXCEPT ![fd] = new]
    BY <2>1, <2>2, <2>3, RepliesAre
  <2> HIDE DEF new
  <2> QED BY <1>1, <1>2, <2>4, SessionReplaced
<1>4. CASE ~Compatible(given)
  <2>1. sess' = [sess EXCEPT ![fd] = << >>] /\ reply' = Words
    BY <1>4 DEF select, Answered
  <2> QED BY <1>1, <1>2, <2>1, NoSession, SessionReplaced, RepliesAre
<1> QED BY <1>3, <1>4

LEMMA ReselectKeeps ==
  ASSUME SelectionInv, NEW fd \in Fd, NEW given \in Given, reselect(fd, given)
  PROVE  SelectionInv'
<1>1. UNCHANGED root /\ Analyze(given) /\ reply' = Words
  BY DEF reselect, Answered
<1>2. CmdTyped(cmd')
  BY <1>1, AnalyzeTyped DEF SelectionInv
<1>3. sess \in [Fd -> Seq(Pupil)] /\ Session(sess[fd])
  BY DEF SelectionInv
<1>4. CASE Compatible(given)
  <2> DEFINE old == sess[fd]
             K == {i \in DOMAIN old : Fits(cmd', old[i])}
             new == Picked(old, K)
  <2>1. sess' = [sess EXCEPT ![fd] = new]
    BY <1>4 DEF reselect
  <2>2. old \in Seq(Pupil) /\ IsInjective(old) /\ Range(old) \subseteq HashBase(root)
    BY <1>3 DEF Session
  <2> HIDE DEF old
  <2>3. DOMAIN old = 1 .. Len(old) /\ K \in SUBSET (1 .. Len(old))
    BY <2>2
  <2> HIDE DEF K
  <2>4. new \in Seq(Pupil) /\ IsInjective(new) /\ Range(new) = {old[k] : k \in K}
    BY <2>2, <2>3, PickedOnce
  <2>5. {old[k] : k \in K} \subseteq Range(old)
    BY <2>3 DEF Range
  <2>6. Session(new)
    BY <2>2, <2>4, <2>5 DEF Session
  <2> HIDE DEF new
  <2> QED BY <1>1, <1>2, <2>1, <2>6, SessionReplaced, RepliesAre
<1>5. CASE ~Compatible(given)
  <2>1. sess' = [sess EXCEPT ![fd] = sess[fd]]
    BY <1>3, <1>5 DEF reselect
  <2> QED BY <1>1, <1>2, <1>3, <2>1, SessionReplaced, RepliesAre
<1> QED BY <1>4, <1>5

LEMMA MalformedKeeps ==
  ASSUME SelectionInv, NEW fd \in Fd, NEW given \in Given, NEW kept, Session(kept), Malformed(fd, given, kept)
  PROVE  SelectionInv'
<1>1. /\ UNCHANGED root /\ cmd' = Extended(given) /\ reply' = Words
      /\ sess' = [sess EXCEPT ![fd] = kept]
  BY DEF Malformed, Answered
<1>2. CmdTyped(cmd')
  BY <1>1, ExtendedTyped DEF SelectionInv
<1> QED BY <1>1, <1>2, SessionReplaced, RepliesAre

LEMMA SelectionStep == GroupsInv /\ SelectionInv /\ [GroupsNext]_groupsVars => SelectionInv'
<1> SUFFICES ASSUME GroupsInv, SelectionInv, [GroupsNext]_groupsVars PROVE SelectionInv'
  OBVIOUS
<1>1. ASSUME UNCHANGED << root, cmd, sess, reply >> PROVE SelectionInv'
  <2>1. SelectionInv /\ root' = root /\ cmd' = cmd /\ sess' = sess /\ reply' = reply
    BY <1>1
  <2> QED BY <2>1 DEF SelectionInv, Session
<1>2. ASSUME UNCHANGED << root, cmd, sess >>, reply'.kind # "selected" PROVE SelectionInv'
  BY <1>2, SessionsKept
<1>3. CASE UNCHANGED groupsVars
  BY <1>1, <1>3 DEF groupsVars
<1>4. CASE Connect
  BY <1>1, <1>4 DEF Connect
<1>5. ASSUME NEW fd \in Fd, Lost(fd) \/ Broken(fd) PROVE SelectionInv'
  BY <1>1, <1>5 DEF Lost, Broken
<1>6. ASSUME NEW fd \in Fd, Unknown(fd) \/ Quit(fd) \/ stop(fd) \/ base_write(fd) \/ sess_write(fd) PROVE SelectionInv'
  <2>1. UNCHANGED << root, cmd, sess >>
    BY <1>6 DEF Unknown, Quit, stop, base_write, sess_write
  <2>2. reply'.kind # "selected"
    BY <1>6, RepliesAre DEF Unknown, Quit, stop, base_write, sess_write, Answered
  <2> QED BY <1>2, <2>1, <2>2
<1>7. ASSUME NEW fd \in Fd, NEW s \in Pupil, Insert(fd, s) PROVE SelectionInv'
  <2>1. root' = HashAdd(root, s) /\ reply' = Words /\ UNCHANGED << cmd, sess >>
    BY <1>7 DEF Insert, Answered
  <2>2. HashBase(root) \subseteq HashBase(root')
    BY <2>1, HashAddKeeps DEF GroupsInv
  <2> QED BY <2>1, <2>2, RepliesAre, SessionsKept
<1>8. ASSUME NEW fd \in Fd, NEW given \in Given, select(fd, given) \/ reselect(fd, given) PROVE SelectionInv'
  BY <1>8, SelectKeeps, ReselectKeeps
<1>9. ASSUME NEW fd \in Fd, NEW given \in Given, Malformed(fd, given, << >>) \/ Malformed(fd, given, sess[fd])
      PROVE SelectionInv'
  <2>1. Session(sess[fd])
    BY DEF SelectionInv
  <2> QED BY <1>9, <2>1, NoSession, MalformedKeeps
<1> QED BY <1>3, <1>4, <1>5, <1>6, <1>7, <1>8, <1>9 DEF GroupsNext, Handle

LEMMA SelectionMeans == GroupsInv /\ SelectionInv => SelectedIsAdmitted
<1> SUFFICES ASSUME GroupsInv, SelectionInv PROVE SelectedIsAdmitted
  OBVIOUS
<1>1. Base = HashBase(root)
  BY BaseIs DEF GroupsInv
<1>2. \A fd \in Fd : IsInjective(sess[fd]) /\ Range(sess[fd]) \subseteq Base
  BY <1>1 DEF SelectionInv, Session
<1>3. \A s : AtDefaults(cmd, s) <=> OnDefaultBound(s)
  BY DEF AtDefaults, BeyondDefaults, OnDefaultBound
<1>4. ASSUME reply.kind = "selected"
      PROVE  /\ \A s \in Range(sess[reply.to]) : Fits(cmd, s)
             /\ \A s \in Base : Fits(cmd, s) /\ ~OnDefaultBound(s) => s \in Range(sess[reply.to])
  <2>1. Selected(sess[reply.to], cmd, root)
    BY <1>4 DEF SelectionInv
  <2> QED BY <1>1, <1>3, <2>1 DEF Selected
<1> QED BY <1>2, <1>4 DEF SelectedIsAdmitted

(* LoginovaIrene: in every reachable state a selection that was answered has   *)
(* each student once, has none that the conditions in force do not let         *)
(* through, and misses none that they let through and the default bounds do    *)
(* not leave out; and every session, left behind or not, holds students of the *)
(* base, each once.                                                            *)
THEOREM GroupsSelectedIsAdmitted == GroupsSpec => []SelectedIsAdmitted
<1> QED BY GroupsInductive, SelectionInit, SelectionStep, SelectionMeans, PTL DEF GroupsSpec

-------------------------------------------------------------------------------
(* The loop of ParseExpression, a turn at a time.                            *)
LoopSoFar(ts, i, p, from, k, f) ==
  [n \in 0 .. k |-> IF n = 0 THEN FirstOperand(ts, i, from) ELSE NextOperand(ts, f[n-1], p, from)]

Loops(ts, i, p, from, f) ==
  /\ f[0] = FirstOperand(ts, i, from)
  /\ \A n \in 1 .. Len(ts) : f[n] = NextOperand(ts, f[n-1], p, from)

LEMMA LoopRule ==
  ASSUME NEW ts, Len(ts) \in Nat, NEW i, NEW p, NEW from
  PROVE  \E f : Loops(ts, i, p, from, f) /\ ParseExpression(ts, i, p, from) = f[Len(ts)]
<1> DEFINE S == {k \in Nat : \E f : f = LoopSoFar(ts, i, p, from, k, f)}
<1>1. 0 \in S
  <2> DEFINE g == LoopSoFar(ts, i, p, from, 0, << >>)
  <2>1. g = LoopSoFar(ts, i, p, from, 0, g)
    BY DEF LoopSoFar
  <2> QED BY <2>1
<1>2. ASSUME NEW k \in Nat, k \in S PROVE k + 1 \in S
  <2>1. PICK f : f = LoopSoFar(ts, i, p, from, k, f)
    BY <1>2
  <2> DEFINE g == LoopSoFar(ts, i, p, from, k + 1, f)
  <2>2. ASSUME NEW n \in 0 .. k PROVE g[n] = f[n]
    <3>1. n \in 0 .. k + 1
      OBVIOUS
    <3>2. LoopSoFar(ts, i, p, from, k, f)[n] = LoopSoFar(ts, i, p, from, k + 1, f)[n]
      BY <3>1, Zenon DEF LoopSoFar
    <3> QED BY <2>1, <3>2, Zenon
  <2>3. ASSUME NEW n \in 0 .. k + 1, n # 0 PROVE g[n-1] = f[n-1]
    <3>1. n - 1 \in 0 .. k
      BY <2>3
    <3> HIDE DEF g
    <3> QED BY <2>2, <3>1
  <2>4. LoopSoFar(ts, i, p, from, k + 1, f) = LoopSoFar(ts, i, p, from, k + 1, g)
    <3> HIDE DEF g
    <3> QED BY <2>3 DEF LoopSoFar
  <2>5. g = LoopSoFar(ts, i, p, from, k + 1, g)
    BY <2>4, Zenon
  <2> HIDE DEF g
  <2> QED BY <2>5
<1>3. Len(ts) \in S
  <2> HIDE DEF S
  <2> QED BY <1>1, <1>2, Induction
<1> DEFINE F == CHOOSE f : f = LoopSoFar(ts, i, p, from, Len(ts), f)
<1>4. ParseExpression(ts, i, p, from) = F[Len(ts)]
  BY DEF ParseExpression, LoopSoFar
<1>5. F = LoopSoFar(ts, i, p, from, Len(ts), F)
  <2>1. \E f : f = LoopSoFar(ts, i, p, from, Len(ts), f)
    BY <1>3
  <2> QED BY <2>1
<1> HIDE DEF F
<1>6. \A n \in 0 .. Len(ts) : F[n] = LoopSoFar(ts, i, p, from, Len(ts), F)[n]
  BY <1>5, Zenon
<1>7. Loops(ts, i, p, from, F)
  <2>1. 0 \in 0 .. Len(ts) /\ \A n \in 1 .. Len(ts) : n \in 0 .. Len(ts) /\ n # 0
    OBVIOUS
  <2>2. \A n \in 0 .. Len(ts) :
          LoopSoFar(ts, i, p, from, Len(ts), F)[n]
            = IF n = 0 THEN FirstOperand(ts, i, from) ELSE NextOperand(ts, F[n-1], p, from)
    BY DEF LoopSoFar
  <2> QED BY <1>6, <2>1, <2>2 DEF Loops
<1> QED BY <1>4, <1>7

-------------------------------------------------------------------------------
(* A parse returns where it stands, which is not before where it began.      *)
Reaches(ts, i, r) == r = Throw \/ (r = Parsed(r.at, r.node) /\ r.at \in i .. Len(ts) + 1)

AllReach(ts, i, from) == \A j \in i + 1 .. Len(ts) + 1 : \A p \in 0 .. 2 : Reaches(ts, j, from[j][p])

LEMMA ParsedIs ==
  \A at, node : /\ Parsed(at, node).at = at /\ Parsed(at, node).node = node
                /\ at # 0 => Parsed(at, node) # Throw
BY DEF Parsed, Throw

LEMMA TokenAt ==
  ASSUME NEW ts \in Seq(Token)
  PROVE  /\ Len(ts) \in Nat
         /\ \A i \in 1 .. Len(ts) : ts[i] \in Token
         /\ \A i \in 1 .. Len(ts) : ts[i].type = "LOGICAL_OP" => ts[i].value \in {"AND", "OR"}
         /\ \A i \in Int : AtEnd(ts, i) <=> i > Len(ts)
BY DEF Token, AtEnd

LEMMA FirstReaches ==
  ASSUME NEW ts \in Seq(Token), NEW i \in 1 .. Len(ts) + 1, NEW from, AllReach(ts, i, from)
  PROVE  Reaches(ts, i, FirstOperand(ts, i, from))
<1>1. Len(ts) \in Nat
  BY TokenAt
<1>2. CASE AtEnd(ts, i)
  <2>1. FirstOperand(ts, i, from) = Parsed(i, NullNode)
    BY <1>2 DEF FirstOperand
  <2> QED BY <2>1, ParsedIs DEF Reaches
<1>3. CASE ~AtEnd(ts, i) /\ ~HasType(ts, i, "PAREN_LEFT")
  <2>1. FirstOperand(ts, i, from) = ParseComparison(ts, i)
    BY <1>3 DEF FirstOperand
  <2>2. ParseComparison(ts, i) = Throw \/ (i + 2 <= Len(ts) /\ \E x : ParseComparison(ts, i) = Parsed(i + 3, x))
    <3>1. ParseComparison(ts, i) = Throw \/ (~AtEnd(ts, i+2) /\ \E x : ParseComparison(ts, i) = Parsed(i+3, x))
      BY Zenon DEF ParseComparison
    <3> QED BY <1>1, <3>1 DEF AtEnd
  <2> QED BY <1>1, <2>1, <2>2, ParsedIs DEF Reaches
<1>4. CASE ~AtEnd(ts, i) /\ HasType(ts, i, "PAREN_LEFT")
  <2> DEFINE inner == from[i+1][0]
  <2>1. FirstOperand(ts, i, from) = IF inner = Throw \/ ~Closes(ts, inner.at) THEN Throw
                                     ELSE Parsed(inner.at + 1, inner.node)
    BY <1>4 DEF FirstOperand
  <2>2. Reaches(ts, i + 1, inner)
    BY <1>1, <1>4 DEF AllReach, AtEnd
  <2> HIDE DEF inner
  <2>3. CASE inner = Throw \/ ~Closes(ts, inner.at)
    BY <2>1, <2>3 DEF Reaches
  <2>4. CASE inner # Throw /\ Closes(ts, inner.at)
    <3>1. inner.at \in i + 1 .. Len(ts) + 1 /\ inner.at <= Len(ts)
      BY <1>1, <2>2, <2>4 DEF Reaches, Closes, HasType, AtEnd
    <3> QED BY <1>1, <2>1, <2>4, <3>1, ParsedIs DEF Reaches
  <2> QED BY <2>3, <2>4
<1> QED BY <1>2, <1>3, <1>4

(* What a turn of the loop does with what it has.                            *)
Over(ts, left, p) ==
  \/ left = Throw \/ AtEnd(ts, left.at) \/ HasType(ts, left.at, "PAREN_RIGHT")
  \/ HasType(ts, left.at, "LOGICAL_OP") /\ ~Binds(ts[left.at].value, p)

LEMMA TurnOver ==
  ASSUME NEW ts, NEW left, NEW p, NEW from, Over(ts, left, p)
  PROVE  NextOperand(ts, left, p, from) = left
BY DEF NextOperand, Over, HasType, AtEnd

LEMMA TurnMoves ==
  ASSUME NEW ts, NEW left, NEW p, NEW from, ~Over(ts, left, p), NextOperand(ts, left, p, from) # Throw
  PROVE  LET op    == ts[left.at].value
             right == from[left.at + 1][Precedence(op)]
         IN /\ HasType(ts, left.at, "LOGICAL_OP") /\ Binds(op, p) /\ right # Throw
            /\ NextOperand(ts, left, p, from) = Parsed(right.at, <<op, left.node, right.node>>)
BY DEF NextOperand, Over, HasType, AtEnd

LEMMA TurnReaches ==
  ASSUME NEW ts \in Seq(Token), NEW i \in 1 .. Len(ts) + 1, NEW p, NEW from, AllReach(ts, i, from),
         NEW left, Reaches(ts, i, left)
  PROVE  Reaches(ts, i, NextOperand(ts, left, p, from))
<1>1. Len(ts) \in Nat
  BY TokenAt
<1> DEFINE op    == ts[left.at].value
           right == from[left.at + 1][Precedence(op)]
           new   == NextOperand(ts, left, p, from)
<1>2. CASE Over(ts, left, p)
  BY <1>2, TurnOver
<1>3. CASE ~Over(ts, left, p) /\ new = Throw
  BY <1>3 DEF Reaches
<1>4. CASE ~Over(ts, left, p) /\ new # Throw
  <2>1. HasType(ts, left.at, "LOGICAL_OP") /\ right # Throw /\ new = Parsed(right.at, <<op, left.node, right.node>>)
    BY <1>4, TurnMoves
  <2>2. left # Throw /\ left.at \in i .. Len(ts)
    BY <1>1, <1>4, <2>1 DEF Reaches, Over, HasType, AtEnd
  <2>3. Precedence(op) \in 0 .. 2
    BY DEF Precedence
  <2>4. Reaches(ts, left.at + 1, right)
    BY <1>1, <2>2, <2>3 DEF AllReach
  <2> HIDE DEF right, op, new
  <2>5. right.at \in i .. Len(ts) + 1
    BY <1>1, <2>1, <2>2, <2>4 DEF Reaches
  <2>6. Reaches(ts, i, new)
    BY <2>1, <2>5, ParsedIs DEF Reaches
  <2> QED BY <2>6 DEF new
<1> QED BY <1>2, <1>3, <1>4

(* The table of what the recursive calls return.                             *)
LEMMA LoopReaches ==
  ASSUME NEW ts \in Seq(Token), NEW i \in 1 .. Len(ts) + 1, NEW p, NEW from, AllReach(ts, i, from),
         NEW f, Loops(ts, i, p, from, f)
  PROVE  \A n \in 0 .. Len(ts) : Reaches(ts, i, f[n])
<1> DEFINE S == {n \in Nat : n <= Len(ts) => Reaches(ts, i, f[n])}
<1>1. Len(ts) \in Nat
  BY TokenAt
<1>2. 0 \in S
  BY FirstReaches DEF Loops
<1>3. ASSUME NEW n \in Nat, n \in S PROVE n + 1 \in S
  <2> SUFFICES ASSUME n + 1 <= Len(ts) PROVE Reaches(ts, i, f[n + 1])
    OBVIOUS
  <2>1. Reaches(ts, i, f[n])
    BY <1>1, <1>3
  <2>2. n + 1 \in 1 .. Len(ts) /\ (n + 1) - 1 = n
    BY <1>1
  <2>3. f[n + 1] = NextOperand(ts, f[n], p, from)
    BY <2>2 DEF Loops
  <2> QED BY <2>1, <2>3, TurnReaches
<1> HIDE DEF S
<1>4. \A n \in Nat : n \in S
  BY <1>2, <1>3, Induction
<1> QED BY <1>1, <1>4 DEF S

LEMMA ExpressionReaches ==
  ASSUME NEW ts \in Seq(Token), NEW i \in 1 .. Len(ts) + 1, NEW p, NEW from, AllReach(ts, i, from)
  PROVE  Reaches(ts, i, ParseExpression(ts, i, p, from))
<1>1. Len(ts) \in Nat
  BY TokenAt
<1>2. PICK f : Loops(ts, i, p, from, f) /\ ParseExpression(ts, i, p, from) = f[Len(ts)]
  BY <1>1, LoopRule
<1> QED BY <1>1, <1>2, LoopReaches

LEMMA ExpressionSame ==
  ASSUME NEW ts \in Seq(Token), NEW i \in 1 .. Len(ts) + 1, NEW p, NEW f, NEW g, AllReach(ts, i, f),
         \A j \in i + 1 .. Len(ts) + 1 : \A q \in 0 .. 2 : f[j][q] = g[j][q]
  PROVE  ParseExpression(ts, i, p, f) = ParseExpression(ts, i, p, g)
<1>1. Len(ts) \in Nat
  BY TokenAt
<1>2. PICK a : Loops(ts, i, p, f, a) /\ ParseExpression(ts, i, p, f) = a[Len(ts)]
  BY <1>1, LoopRule
<1>3. PICK b : Loops(ts, i, p, g, b) /\ ParseExpression(ts, i, p, g) = b[Len(ts)]
  BY <1>1, LoopRule
<1>4. a[0] = b[0]
  <2>1. HasType(ts, i, "PAREN_LEFT") => f[i+1][0] = g[i+1][0]
    BY <1>1 DEF HasType, AtEnd
  <2>2. FirstOperand(ts, i, f) = FirstOperand(ts, i, g)
    BY <2>1 DEF FirstOperand
  <2> QED BY <1>2, <1>3, <2>2 DEF Loops
<1> DEFINE S == {n \in Nat : n <= Len(ts) => a[n] = b[n]}
<1>5. 0 \in S
  BY <1>4
<1>6. ASSUME NEW n \in Nat, n \in S PROVE n + 1 \in S
  <2> SUFFICES ASSUME n + 1 <= Len(ts) PROVE a[n + 1] = b[n + 1]
    OBVIOUS
  <2>1. n \in 0 .. Len(ts) /\ n + 1 \in 1 .. Len(ts) /\ (n + 1) - 1 = n /\ a[n] = b[n]
    BY <1>1, <1>6
  <2>2. a[n + 1] = NextOperand(ts, a[n], p, f) /\ b[n + 1] = NextOperand(ts, a[n], p, g)
    BY <1>2, <1>3, <2>1 DEF Loops
  <2>3. Reaches(ts, i, a[n])
    BY <1>2, <2>1, LoopReaches
  <2> DEFINE left == a[n]
             op   == ts[left.at].value
  <2> HIDE DEF left
  <2>4. NextOperand(ts, left, p, f) = NextOperand(ts, left, p, g)
    <3>1. CASE left = Throw \/ AtEnd(ts, left.at)
      BY <3>1 DEF NextOperand
    <3>2. CASE left # Throw /\ ~AtEnd(ts, left.at)
      <4>1. left.at \in i .. Len(ts)
        BY <1>1, <2>3, <3>2 DEF Reaches, AtEnd, left
      <4>2. Precedence(op) \in 0 .. 2
        BY DEF Precedence
      <4>3. f[left.at + 1][Precedence(op)] = g[left.at + 1][Precedence(op)]
        BY <1>1, <4>1, <4>2
      <4> QED BY <4>3 DEF NextOperand
    <3> QED BY <3>1, <3>2
  <2> QED BY <2>2, <2>4 DEF left
<1> HIDE DEF S
<1>7. \A n \in Nat : n \in S
  BY <1>5, <1>6, Induction
<1> QED BY <1>1, <1>2, <1>3, <1>7 DEF S

(* The last places of the table, those from which k tokens are left.         *)
TableSoFar(ts, k, f) ==
  [i \in Len(ts) + 1 - k .. Len(ts) + 1 |-> [precedence \in 0 .. 2 |-> ParseExpression(ts, i, precedence, f)]]

Table(ts, f) ==
  \A i \in 1 .. Len(ts) + 1 : \A p \in 0 .. 2 : f[i][p] = ParseExpression(ts, i, p, f)

LEMMA TableReaches ==
  ASSUME NEW ts \in Seq(Token), NEW k \in 0 .. Len(ts), NEW f,
         \A i \in Len(ts) + 1 - k .. Len(ts) + 1 : \A p \in 0 .. 2 : f[i][p] = ParseExpression(ts, i, p, f)
  PROVE  \A i \in Len(ts) + 1 - k .. Len(ts) + 1 : AllReach(ts, i, f) /\ \A p \in 0 .. 2 : Reaches(ts, i, f[i][p])
<1> DEFINE N == Len(ts) + 1
           S == {n \in Nat : n <= k => AllReach(ts, N - n, f) /\ \A p \in 0 .. 2 : Reaches(ts, N - n, f[N - n][p])}
<1>1. Len(ts) \in Nat /\ N \in Nat
  BY TokenAt
<1>2. ASSUME NEW n \in 0 .. k, AllReach(ts, N - n, f) PROVE \A p \in 0 .. 2 : Reaches(ts, N - n, f[N - n][p])
  <2>1. N - n \in 1 .. N /\ N - n \in N - k .. N
    BY <1>1
  <2> TAKE p \in 0 .. 2
  <2>2. f[N - n][p] = ParseExpression(ts, N - n, p, f)
    BY <2>1
  <2> QED BY <1>2, <2>1, <2>2, ExpressionReaches
<1>3. 0 \in S
  <2>1. AllReach(ts, N - 0, f)
    BY <1>1 DEF AllReach
  <2> QED BY <1>1, <1>2, <2>1
<1>4. ASSUME NEW n \in Nat, n \in S PROVE n + 1 \in S
  <2> SUFFICES ASSUME n + 1 <= k
               PROVE  AllReach(ts, N - (n + 1), f) /\ \A p \in 0 .. 2 : Reaches(ts, N - (n + 1), f[N - (n + 1)][p])
    OBVIOUS
  <2>1. AllReach(ts, N - n, f) /\ \A p \in 0 .. 2 : Reaches(ts, N - n, f[N - n][p])
    BY <1>1, <1>4
  <2>2. \A j \in N - (n + 1) + 1 .. N : j = N - n \/ j \in N - n + 1 .. N
    BY <1>1
  <2>3. AllReach(ts, N - (n + 1), f)
    BY <2>1, <2>2 DEF AllReach
  <2>4. n + 1 \in 0 .. k
    BY <1>1
  <2> QED BY <1>2, <2>3, <2>4
<1> HIDE DEF S
<1>5. \A n \in Nat : n \in S
  BY <1>3, <1>4, Induction
<1> TAKE i \in Len(ts) + 1 - k .. Len(ts) + 1
<1>6. N - i \in Nat /\ N - i <= k /\ N - (N - i) = i
  BY <1>1
<1> QED BY <1>5, <1>6 DEF S

LEMMA TableExists ==
  ASSUME NEW ts \in Seq(Token)
  PROVE  \E f : f = TableSoFar(ts, Len(ts), f)
<1> DEFINE N == Len(ts) + 1
           S == {k \in Nat : k <= Len(ts) => \E f : f = TableSoFar(ts, k, f)}
<1>1. Len(ts) \in Nat /\ N \in Nat
  BY TokenAt
<1>2. 0 \in S
  <2> DEFINE g == TableSoFar(ts, 0, << >>)
  <2>1. ASSUME NEW i \in N - 0 .. N, NEW p \in 0 .. 2
        PROVE  ParseExpression(ts, i, p, << >>) = ParseExpression(ts, i, p, g)
    <3>1. i \in 1 .. N /\ \A j \in i + 1 .. N : FALSE
      BY <1>1
    <3>2. AllReach(ts, i, << >>)
      BY <3>1 DEF AllReach
    <3> HIDE DEF g
    <3> QED BY <3>1, <3>2, ExpressionSame
  <2>2. TableSoFar(ts, 0, << >>) = TableSoFar(ts, 0, g)
    <3> HIDE DEF g
    <3> QED BY <2>1 DEF TableSoFar
  <2>3. g = TableSoFar(ts, 0, g)
    BY <2>2
  <2> HIDE DEF g
  <2> QED BY <2>3
<1>3. ASSUME NEW k \in Nat, k \in S PROVE k + 1 \in S
  <2> SUFFICES ASSUME k + 1 <= Len(ts) PROVE \E f : f = TableSoFar(ts, k + 1, f)
    OBVIOUS
  <2>1. PICK f : f = TableSoFar(ts, k, f)
    BY <1>1, <1>3
  <2> DEFINE g == TableSoFar(ts, k + 1, f)
  <2>2. \A i \in N - k .. N : \A p \in 0 .. 2 : f[i][p] = ParseExpression(ts, i, p, f)
    <3> TAKE i \in N - k .. N
    <3>1. f[i] = TableSoFar(ts, k, f)[i]
      BY <2>1, Zenon
    <3>2. TableSoFar(ts, k, f)[i] = [precedence \in 0 .. 2 |-> ParseExpression(ts, i, precedence, f)]
      BY DEF TableSoFar
    <3> QED BY <3>1, <3>2
  <2>3. k \in 0 .. Len(ts)
    BY <1>1
  <2>4. \A i \in N - k .. N : AllReach(ts, i, f) /\ \A p \in 0 .. 2 : Reaches(ts, i, f[i][p])
    BY <2>2, <2>3, TableReaches
  <2>5. ASSUME NEW i \in N - k .. N, NEW p \in 0 .. 2 PROVE g[i][p] = f[i][p]
    <3>1. i \in N - (k + 1) .. N
      BY <1>1
    <3>2. g[i] = [precedence \in 0 .. 2 |-> ParseExpression(ts, i, precedence, f)]
      BY <3>1 DEF TableSoFar
    <3> QED BY <2>2, <3>2
  <2>6. \A i \in N - (k + 1) .. N : i \in 1 .. N /\ \A j \in i + 1 .. N : j \in N - k .. N
    BY <1>1
  <2> HIDE DEF g
  <2>7. ASSUME NEW i \in N - (k + 1) .. N, NEW p \in 0 .. 2
        PROVE  ParseExpression(ts, i, p, f) = ParseExpression(ts, i, p, g)
    <3>1. AllReach(ts, i, f)
      BY <2>4, <2>6 DEF AllReach
    <3> QED BY <2>5, <2>6, <3>1, ExpressionSame
  <2>8. TableSoFar(ts, k + 1, f) = TableSoFar(ts, k + 1, g)
    BY <2>7 DEF TableSoFar
  <2>9. g = TableSoFar(ts, k + 1, g)
    BY <2>8 DEF g
  <2> QED BY <2>9
<1> HIDE DEF S
<1>4. \A k \in Nat : k \in S
  BY <1>2, <1>3, Induction
<1> QED BY <1>1, <1>4 DEF S

LEMMA ConditionIs ==
  ASSUME NEW ts \in Seq(Token)
  PROVE  \E f : /\ Table(ts, f)
                /\ \A i \in 1 .. Len(ts) + 1 : AllReach(ts, i, f) /\ \A p \in 0 .. 2 : Reaches(ts, i, f[i][p])
                /\ ParseCondition(ts) = IF f[1][0] = Throw \/ ~AtEnd(ts, f[1][0].at) THEN Throw
                                         ELSE IF f[1][0].node = NullNode THEN Parsed(f[1][0].at, EmptyNode)
                                         ELSE f[1][0]
<1> DEFINE N == Len(ts) + 1
           F == CHOOSE f : f = [i \in 1 .. Len(ts) + 1 |-> [precedence \in 0 .. 2 |-> ParseExpression(ts, i, precedence, f)]]
<1>1. Len(ts) \in Nat /\ N \in Nat /\ N - Len(ts) = 1
  BY TokenAt
<1>2. \A f : TableSoFar(ts, Len(ts), f) = [i \in 1 .. Len(ts) + 1 |-> [precedence \in 0 .. 2 |-> ParseExpression(ts, i, precedence, f)]]
  BY <1>1 DEF TableSoFar
<1>3. F = [i \in 1 .. Len(ts) + 1 |-> [precedence \in 0 .. 2 |-> ParseExpression(ts, i, precedence, F)]]
  <2>1. \E f : f = [i \in 1 .. Len(ts) + 1 |-> [precedence \in 0 .. 2 |-> ParseExpression(ts, i, precedence, f)]]
    <3>1. PICK f : f = TableSoFar(ts, Len(ts), f)
      BY TableExists
    <3>2. f = [i \in 1 .. Len(ts) + 1 |-> [precedence \in 0 .. 2 |-> ParseExpression(ts, i, precedence, f)]]
      BY <1>2, <3>1
    <3> QED BY <3>2
  <2> QED BY <2>1, Zenon
<1>4. ParseCondition(ts) = IF F[1][0] = Throw \/ ~AtEnd(ts, F[1][0].at) THEN Throw
                            ELSE IF F[1][0].node = NullNode THEN Parsed(F[1][0].at, EmptyNode) ELSE F[1][0]
  BY DEF ParseCondition
<1> HIDE DEF F
<1>5. ASSUME NEW i \in 1 .. N, NEW p \in 0 .. 2 PROVE F[i][p] = ParseExpression(ts, i, p, F)
  <2> DEFINE G == [m \in 1 .. Len(ts) + 1 |-> [precedence \in 0 .. 2 |-> ParseExpression(ts, m, precedence, F)]]
  <2>1. G[i][p] = ParseExpression(ts, i, p, F)
    BY <1>5
  <2>2. F = G
    BY <1>3
  <2> HIDE DEF G
  <2> QED BY <2>1, <2>2
<1>6. Table(ts, F)
  BY <1>5 DEF Table
<1>7. \A i \in 1 .. N : AllReach(ts, i, F) /\ \A p \in 0 .. 2 : Reaches(ts, i, F[i][p])
  <2>1. Len(ts) \in 0 .. Len(ts) /\ Len(ts) + 1 - Len(ts) = 1
    BY <1>1
  <2>2. \A i \in Len(ts) + 1 - Len(ts) .. Len(ts) + 1 : \A p \in 0 .. 2 : F[i][p] = ParseExpression(ts, i, p, F)
    BY <1>5, <2>1
  <2>3. \A i \in Len(ts) + 1 - Len(ts) .. Len(ts) + 1 : AllReach(ts, i, F) /\ \A p \in 0 .. 2 : Reaches(ts, i, F[i][p])
    BY <2>1, <2>2, TableReaches
  <2> QED BY <2>1, <2>3
<1> QED BY <1>4, <1>6, <1>7

-------------------------------------------------------------------------------
(* The trees of every piece of a condition.                                  *)
TreesSoFar(ts, k, f) ==
  [n \in 0 .. k |-> [i \in 1 .. Len(ts) + 1 - n |-> [level \in 0 .. 2 |-> TreesOf(ts, i, n, level, f)]]]

LEMMA OperationSame ==
  ASSUME NEW ts, NEW i, NEW n \in Nat, NEW op, NEW level, NEW f, NEW g,
         \A m \in Nat : m < n => f[m] = g[m]
  PROVE  OperationTrees(ts, i, n, op, level, f) = OperationTrees(ts, i, n, op, level, g)
<1> DEFINE K == {k \in 0 .. n - 1 : ts[i+k].type = "LOGICAL_OP" /\ ts[i+k].value = op}
<1>1. \A k \in K : f[k] = g[k] /\ f[n-1-k] = g[n-1-k]
  OBVIOUS
<1> HIDE DEF K
<1>2. \A k \in K : {<<op, l, r>> : l \in f[k][i][level], r \in f[n-1-k][i+k+1][level+1]}
                     = {<<op, l, r>> : l \in g[k][i][level], r \in g[n-1-k][i+k+1][level+1]}
  BY <1>1
<1>3. UNION {{<<op, l, r>> : l \in f[k][i][level], r \in f[n-1-k][i+k+1][level+1]} : k \in K}
        = UNION {{<<op, l, r>> : l \in g[k][i][level], r \in g[n-1-k][i+k+1][level+1]} : k \in K}
  BY <1>2
<1> QED BY <1>3 DEF OperationTrees, K

LEMMA TreesSame ==
  ASSUME NEW ts, NEW i, NEW n \in Nat, NEW level, NEW f, NEW g,
         \A m \in Nat : m < n => f[m] = g[m]
  PROVE  TreesOf(ts, i, n, level, f) = TreesOf(ts, i, n, level, g)
<1>1. \A op, lv : OperationTrees(ts, i, n, op, lv, f) = OperationTrees(ts, i, n, op, lv, g)
  BY OperationSame
<1>2. n > 2 => f[n-2] = g[n-2]
  OBVIOUS
<1>3. PrimaryTrees(ts, i, n, f) = PrimaryTrees(ts, i, n, g)
  BY <1>2 DEF PrimaryTrees
<1> QED BY <1>1, <1>3 DEF TreesOf

LEMMA TreesExist ==
  ASSUME NEW ts, Len(ts) \in Nat
  PROVE  \E f : f = TreesSoFar(ts, Len(ts), f)
<1> DEFINE S == {k \in Nat : \E f : f = TreesSoFar(ts, k, f)}
<1>1. 0 \in S
  <2> DEFINE g == TreesSoFar(ts, 0, << >>)
  <2>1. \A n \in 0 .. 0 : \A i, level : TreesOf(ts, i, n, level, << >>) = TreesOf(ts, i, n, level, g)
    <3> TAKE n \in 0 .. 0
    <3> TAKE i, level
    <3>1. n \in Nat /\ \A m \in Nat : ~(m < n)
      OBVIOUS
    <3> HIDE DEF g
    <3> QED BY <3>1, TreesSame
  <2>2. TreesSoFar(ts, 0, << >>) = TreesSoFar(ts, 0, g)
    <3> HIDE DEF g
    <3> QED BY <2>1 DEF TreesSoFar
  <2>3. g = TreesSoFar(ts, 0, g)
    BY <2>2
  <2> HIDE DEF g
  <2> QED BY <2>3
<1>2. ASSUME NEW k \in Nat, k \in S PROVE k + 1 \in S
  <2>1. PICK f : f = TreesSoFar(ts, k, f)
    BY <1>2
  <2> DEFINE g == TreesSoFar(ts, k + 1, f)
  <2>2. ASSUME NEW n \in 0 .. k PROVE g[n] = f[n]
    <3>1. n \in 0 .. k + 1
      OBVIOUS
    <3>2. TreesSoFar(ts, k, f)[n] = TreesSoFar(ts, k + 1, f)[n]
      BY <3>1, Zenon DEF TreesSoFar
    <3> QED BY <2>1, <3>2, Zenon
  <2> HIDE DEF g
  <2>3. ASSUME NEW n \in 0 .. k + 1, NEW i, NEW level PROVE TreesOf(ts, i, n, level, f) = TreesOf(ts, i, n, level, g)
    <3>1. n \in Nat /\ \A m \in Nat : m < n => f[m] = g[m]
      BY <2>2
    <3> QED BY <3>1, TreesSame
  <2>4. TreesSoFar(ts, k + 1, f) = TreesSoFar(ts, k + 1, g)
    BY <2>3 DEF TreesSoFar
  <2>5. g = TreesSoFar(ts, k + 1, g)
    BY <2>4 DEF g
  <2> QED BY <2>5
<1> HIDE DEF S
<1>3. Len(ts) \in S
  BY <1>1, <1>2, Induction
<1> QED BY <1>3 DEF S

(* T has the trees of every piece: T[n][i][level], of the n tokens from i.   *)
Trees(ts, T) ==
  /\ T = TreesSoFar(ts, Len(ts), T)
  /\ \A m : ConditionTrees(ts, m) = T[m][1][0]

LEMMA TreesAre ==
  ASSUME NEW ts, Len(ts) \in Nat
  PROVE  \E T : Trees(ts, T)
<1> DEFINE F == CHOOSE of : of = [n \in 0 .. Len(ts) |-> [i \in 1 .. Len(ts) + 1 - n |->
                                    [level \in 0 .. 2 |-> TreesOf(ts, i, n, level, of)]]]
<1>1. \A m : ConditionTrees(ts, m) = F[m][1][0]
  BY DEF ConditionTrees
<1>2. F = TreesSoFar(ts, Len(ts), F)
  <2>1. \E f : f = TreesSoFar(ts, Len(ts), f)
    BY TreesExist
  <2> QED BY <2>1, Zenon DEF TreesSoFar
<1> HIDE DEF F
<1> QED BY <1>1, <1>2 DEF Trees

-------------------------------------------------------------------------------
(* The trees of the tokens from the i-th up to, but without, the j-th.       *)
Piece(T, i, j, level) == T[j - i][i][level]

(* The trees of a piece whose last operation is the token before j.          *)
JoinedAt(ts, T, i, j, op, level, t) ==
  \E k \in i .. j - 1 :
     /\ ts[k].type = "LOGICAL_OP" /\ ts[k].value = op
     /\ \E l \in Piece(T, i, k, level), r \in Piece(T, k + 1, j, level + 1) : t = <<op, l, r>>

Simple(ts, i, j, t) == j = i + 3 /\ t \in SimpleTrees(ts, i)

Nested(ts, T, i, j, t) ==
  /\ j > i + 2 /\ ts[i].type = "PAREN_LEFT" /\ ts[j-1].type = "PAREN_RIGHT"
  /\ t \in Piece(T, i + 1, j - 1, 0)

LEMMA JoinedAtIs ==
  ASSUME NEW ts, NEW T, NEW i \in Int, NEW j \in Int, i <= j, NEW op, NEW level, NEW t
  PROVE  t \in OperationTrees(ts, i, j - i, op, level, T) <=> JoinedAt(ts, T, i, j, op, level, t)
<1> DEFINE n == j - i
           K == {k \in 0 .. n - 1 : ts[i+k].type = "LOGICAL_OP" /\ ts[i+k].value = op}
           Set(k) == {<<op, l, r>> : l \in T[k][i][level], r \in T[n-1-k][i+k+1][level+1]}
<1>1. t \in OperationTrees(ts, i, n, op, level, T) <=> \E k \in K : t \in Set(k)
  BY DEF OperationTrees
<1>2. ASSUME NEW k \in 0 .. n - 1
      PROVE  t \in Set(k) <=> \E l \in Piece(T, i, i + k, level), r \in Piece(T, i + k + 1, j, level + 1) : t = <<op, l, r>>
  <2>1. (i + k) - i = k /\ j - (i + k + 1) = n - 1 - k
    OBVIOUS
  <2> HIDE DEF n
  <2> QED BY <2>1 DEF Piece
<1> HIDE DEF Set
<1>3. ASSUME NEW k \in K, t \in Set(k) PROVE JoinedAt(ts, T, i, j, op, level, t)
  <2>1. i + k \in i .. j - 1 /\ k \in 0 .. n - 1
    OBVIOUS
  <2> QED BY <1>2, <1>3, <2>1 DEF JoinedAt
<1>4. ASSUME JoinedAt(ts, T, i, j, op, level, t) PROVE \E k \in K : t \in Set(k)
  <2>1. PICK h \in i .. j - 1 : /\ ts[h].type = "LOGICAL_OP" /\ ts[h].value = op
                                /\ \E l \in Piece(T, i, h, level), r \in Piece(T, h + 1, j, level + 1) : t = <<op, l, r>>
    BY <1>4 DEF JoinedAt
  <2>2. h - i \in 0 .. n - 1 /\ i + (h - i) = h
    OBVIOUS
  <2>3. h - i \in K
    BY <2>1, <2>2
  <2>4. t \in Set(h - i)
    BY <1>2, <2>1, <2>2
  <2> QED BY <2>3, <2>4
<1> QED BY <1>1, <1>3, <1>4

LEMMA TreePieceIs ==
  ASSUME NEW ts, Len(ts) \in Nat, NEW T, Trees(ts, T), NEW i \in 1 .. Len(ts) + 1, NEW j \in i .. Len(ts) + 1,
         NEW level \in 0 .. 2, NEW t
  PROVE  t \in Piece(T, i, j, level) <=>
           \/ Simple(ts, i, j, t) \/ Nested(ts, T, i, j, t)
           \/ level < 2 /\ JoinedAt(ts, T, i, j, "AND", 1, t)
           \/ level < 1 /\ JoinedAt(ts, T, i, j, "OR", 0, t)
<1> DEFINE n == j - i
<1>1. n \in 0 .. Len(ts) /\ i \in 1 .. Len(ts) + 1 - n /\ i <= j /\ i \in Int /\ j \in Int
  OBVIOUS
<1>2. T[n][i][level] = TreesOf(ts, i, n, level, T)
  <2>1. T[n] = TreesSoFar(ts, Len(ts), T)[n]
    BY Zenon DEF Trees
  <2>2. TreesSoFar(ts, Len(ts), T)[n] = [h \in 1 .. Len(ts) + 1 - n |-> [lv \in 0 .. 2 |-> TreesOf(ts, h, n, lv, T)]]
    BY <1>1, Zenon DEF TreesSoFar
  <2> HIDE DEF n
  <2> QED BY <1>1, <2>1, <2>2
<1>3. t \in PrimaryTrees(ts, i, n, T) <=> Simple(ts, i, j, t) \/ Nested(ts, T, i, j, t)
  <2>1. (n = 3 <=> j = i + 3) /\ (n > 2 <=> j > i + 2) /\ i + n - 1 = j - 1 /\ n - 2 = (j - 1) - (i + 1)
    BY <1>1
  <2> HIDE DEF n
  <2> QED BY <2>1 DEF PrimaryTrees, Simple, Nested, Piece
<1>4. \A op, lv : t \in OperationTrees(ts, i, n, op, lv, T) <=> JoinedAt(ts, T, i, j, op, lv, t)
  BY <1>1, JoinedAtIs
<1> HIDE DEF n
<1> QED BY <1>2, <1>3, <1>4 DEF TreesOf, Piece, n

-------------------------------------------------------------------------------
(* Every tree of the grammar is what the parser returns.  A piece is parsed  *)
(* to its end when a loop that stands there does not go on.                  *)
Stops(ts, j, p) ==
  \/ AtEnd(ts, j) \/ HasType(ts, j, "PAREN_RIGHT")
  \/ HasType(ts, j, "LOGICAL_OP") /\ ~Binds(ts[j].value, p)

LEMMA StopsAbove ==
  ASSUME NEW ts, NEW j
  PROVE  /\ Stops(ts, j, 0) => Stops(ts, j, 1)
         /\ Stops(ts, j, 1) => Stops(ts, j, 2)
BY DEF Stops, Binds, Precedence

LEMMA LoopStays ==
  ASSUME NEW ts, Len(ts) \in Nat, NEW i, NEW p, NEW from, NEW f, Loops(ts, i, p, from, f),
         NEW m \in 0 .. Len(ts), Over(ts, f[m], p)
  PROVE  f[Len(ts)] = f[m]
<1> DEFINE S == {d \in Nat : m + d <= Len(ts) => f[m + d] = f[m]}
<1>1. 0 \in S
  OBVIOUS
<1>2. ASSUME NEW d \in Nat, d \in S PROVE d + 1 \in S
  <2> SUFFICES ASSUME m + (d + 1) <= Len(ts) PROVE f[m + (d + 1)] = f[m]
    OBVIOUS
  <2>1. f[m + d] = f[m]
    BY <1>2
  <2>2. m + (d + 1) \in 1 .. Len(ts) /\ (m + (d + 1)) - 1 = m + d
    OBVIOUS
  <2>3. f[m + (d + 1)] = NextOperand(ts, f[m], p, from)
    BY <2>1, <2>2 DEF Loops
  <2> QED BY <2>3, TurnOver
<1> HIDE DEF S
<1>3. \A d \in Nat : d \in S
  BY <1>1, <1>2, Induction
<1>4. PICK d \in Nat : m + d = Len(ts)
  <2>1. Len(ts) - m \in Nat /\ m + (Len(ts) - m) = Len(ts)
    OBVIOUS
  <2> QED BY <2>1
<1> QED BY <1>3, <1>4 DEF S

LEMMA ParsedTo ==
  ASSUME NEW ts \in Seq(Token), NEW from, Table(ts, from), NEW i \in 1 .. Len(ts) + 1, NEW p \in 0 .. 2,
         NEW j, NEW t, Stops(ts, j, p),
         \A f : Loops(ts, i, p, from, f) => \E m \in 0 .. Len(ts) : f[m] = Parsed(j, t)
  PROVE  from[i][p] = Parsed(j, t)
<1>1. Len(ts) \in Nat
  BY TokenAt
<1>2. PICK f : Loops(ts, i, p, from, f) /\ ParseExpression(ts, i, p, from) = f[Len(ts)]
  BY <1>1, LoopRule
<1>3. PICK m \in 0 .. Len(ts) : f[m] = Parsed(j, t)
  BY <1>2
<1>4. Over(ts, f[m], p)
  BY <1>3, ParsedIs DEF Over, Stops
<1>5. f[Len(ts)] = f[m]
  BY <1>1, <1>2, <1>4, LoopStays
<1> QED BY <1>2, <1>3, <1>5 DEF Table

LEMMA TurnJoins ==
  ASSUME NEW ts \in Seq(Token), NEW k \in 1 .. Len(ts), NEW l, NEW p, NEW from, NEW j \in Nat \ {0}, NEW r,
         ts[k].type = "LOGICAL_OP", Binds(ts[k].value, p),
         from[k + 1][Precedence(ts[k].value)] = Parsed(j, r)
  PROVE  NextOperand(ts, Parsed(k, l), p, from) = Parsed(j, <<ts[k].value, l, r>>)
<1> DEFINE left == Parsed(k, l)
<1>1. left.at = k /\ left.node = l /\ left # Throw
  BY ParsedIs
<1>2. Parsed(j, r) # Throw /\ Parsed(j, r).at = j /\ Parsed(j, r).node = r
  BY ParsedIs
<1>3. Len(ts) \in Nat
  BY TokenAt
<1>4. ~AtEnd(ts, k) /\ HasType(ts, k, "LOGICAL_OP") /\ ~HasType(ts, k, "PAREN_RIGHT")
  BY <1>3 DEF AtEnd, HasType
<1> HIDE DEF left
<1>5. NextOperand(ts, left, p, from) = Parsed(j, <<ts[k].value, l, r>>)
  BY <1>1, <1>2, <1>4 DEF NextOperand
<1> QED BY <1>5 DEF left

LEMMA SimpleParsed ==
  ASSUME NEW ts \in Seq(Token), NEW i \in 1 .. Len(ts) + 1, NEW j \in 1 .. Len(ts) + 1, NEW t, Simple(ts, i, j, t),
         NEW from
  PROVE  FirstOperand(ts, i, from) = Parsed(j, t)
<1>1. Len(ts) \in Nat
  BY TokenAt
<1>2. /\ j = i + 3 /\ ts[i].type = "COLUMN" /\ ts[i+1].type = "COMPARE_OP"
      /\ ts[i+2].type \in ValueType(ts[i].value)
      /\ ts[i+2].type = "STRING" \/ ts[i+2].value \in NumberText
      /\ t = <<"LEAF", ts[i].value, ts[i+1].value, ts[i+2].value>>
  BY DEF Simple, SimpleTrees
<1>3. ~AtEnd(ts, i) /\ ~AtEnd(ts, i+1) /\ ~AtEnd(ts, i+2)
  BY <1>1, <1>2 DEF AtEnd
<1>4. HasType(ts, i, "COLUMN") /\ HasType(ts, i+1, "COMPARE_OP") /\ ~HasType(ts, i, "PAREN_LEFT")
  BY <1>2, <1>3 DEF HasType
<1>5. \/ ts[i].value = "name"
      \/ ts[i].value \in {"group", "rating"} /\ ts[i+2].value \in NumberText
  BY <1>2 DEF ValueType
<1>6. ParseComparison(ts, i) = Parsed(i+3, t)
  BY <1>2, <1>3, <1>4, <1>5 DEF ParseComparison
<1> QED BY <1>2, <1>3, <1>4, <1>6 DEF FirstOperand

(* What is said of the piece from i up to j.                                 *)
Complete(ts, from, T, i, j) ==
  /\ \A t \in Piece(T, i, j, 2) : FirstOperand(ts, i, from) = Parsed(j, t)
  /\ Stops(ts, j, 2) =>
       \A t \in Piece(T, i, j, 1) : \A p \in 0 .. 1 : \A f :
          Loops(ts, i, p, from, f) => \E m \in 0 .. j - i : f[m] = Parsed(j, t)
  /\ Stops(ts, j, 1) =>
       \A t \in Piece(T, i, j, 0) : \A f :
          Loops(ts, i, 0, from, f) => \E m \in 0 .. j - i : f[m] = Parsed(j, t)

Returns(from, i, p, r) == from[i][p] = r

LEMMA CompleteParsed ==
  ASSUME NEW ts \in Seq(Token), NEW from, Table(ts, from), NEW T, NEW i \in 1 .. Len(ts) + 1, NEW j \in i .. Len(ts) + 1,
         Complete(ts, from, T, i, j)
  PROVE  \A p \in 0 .. 2 : Stops(ts, j, p) => \A t \in Piece(T, i, j, p) : Returns(from, i, p, Parsed(j, t))
<1> SUFFICES ASSUME NEW p \in 0 .. 2, Stops(ts, j, p), NEW t \in Piece(T, i, j, p)
             PROVE  from[i][p] = Parsed(j, t)
  BY DEF Returns
<1>1. Len(ts) \in Nat
  BY TokenAt
<1>2. \A m \in 0 .. j - i : m \in 0 .. Len(ts)
  BY <1>1
<1>3. ASSUME NEW f, Loops(ts, i, p, from, f) PROVE \E m \in 0 .. Len(ts) : f[m] = Parsed(j, t)
  <2>1. CASE p = 2
    <3>1. f[0] = Parsed(j, t) /\ 0 \in 0 .. Len(ts)
      BY <1>1, <1>3, <2>1 DEF Loops, Complete
    <3> QED BY <3>1
  <2>2. CASE p = 1
    BY <1>2, <1>3, <2>2, StopsAbove DEF Complete
  <2>3. CASE p = 0
    BY <1>2, <1>3, <2>3, StopsAbove DEF Complete
  <2> QED BY <2>1, <2>2, <2>3
<1> QED BY <1>3, ParsedTo

Comes(f, n, r) == \E m \in 0 .. n : f[m] = r

(* An operation: the loop comes to its left operand, and turns once more.    *)
LEMMA JoinedParsed ==
  ASSUME NEW ts \in Seq(Token), NEW from, Table(ts, from), NEW T,
         NEW i \in 1 .. Len(ts) + 1, NEW j \in i .. Len(ts) + 1,
         NEW k \in i .. j - 1, NEW op \in {"AND", "OR"}, ts[k].type = "LOGICAL_OP", ts[k].value = op,
         NEW p \in 0 .. 1, Binds(op, p), NEW f, Loops(ts, i, p, from, f),
         NEW l, Comes(f, k - i, Parsed(k, l)),
         Complete(ts, from, T, k + 1, j), Stops(ts, j, Precedence(op)),
         NEW r \in Piece(T, k + 1, j, Precedence(op))
  PROVE  Comes(f, j - i, Parsed(j, <<op, l, r>>))
<1>1. Len(ts) \in Nat
  BY TokenAt
<1>2. k \in 1 .. Len(ts) /\ k + 1 \in 1 .. Len(ts) + 1 /\ j \in k + 1 .. Len(ts) + 1 /\ j \in Nat \ {0}
  BY <1>1
<1>3. Precedence(op) \in 0 .. 2
  BY DEF Precedence
<1>4. from[k + 1][Precedence(op)] = Parsed(j, r)
  <2>1. \A q \in 0 .. 2 : Stops(ts, j, q) => \A t \in Piece(T, k + 1, j, q) : Returns(from, k + 1, q, Parsed(j, t))
    BY <1>2, CompleteParsed
  <2>2. Returns(from, k + 1, Precedence(op), Parsed(j, r))
    BY <1>3, <2>1
  <2> QED BY <2>2 DEF Returns
<1>5. NextOperand(ts, Parsed(k, l), p, from) = Parsed(j, <<op, l, r>>)
  BY <1>2, <1>4, TurnJoins
<1>6. PICK m \in 0 .. k - i : f[m] = Parsed(k, l)
  BY DEF Comes
<1>7. m + 1 \in 1 .. Len(ts) /\ (m + 1) - 1 = m /\ m + 1 \in 0 .. j - i
  BY <1>1
<1>8. f[m + 1] = NextOperand(ts, f[m], p, from)
  BY <1>7 DEF Loops
<1> QED BY <1>5, <1>6, <1>7, <1>8 DEF Comes

LEMMA CompleteStep ==
  ASSUME NEW ts \in Seq(Token), NEW from, Table(ts, from), NEW T, Trees(ts, T),
         NEW i \in 1 .. Len(ts) + 1, NEW j \in i .. Len(ts) + 1,
         \A g \in 1 .. Len(ts) + 1 : \A h \in g .. Len(ts) + 1 : h - g < j - i => Complete(ts, from, T, g, h)
  PROVE  Complete(ts, from, T, i, j)
<1>1. Len(ts) \in Nat
  BY TokenAt
<1>2. ASSUME NEW t, Simple(ts, i, j, t) \/ Nested(ts, T, i, j, t) PROVE FirstOperand(ts, i, from) = Parsed(j, t)
  <2>1. CASE Simple(ts, i, j, t)
    BY <1>1, <2>1, SimpleParsed
  <2>2. CASE Nested(ts, T, i, j, t)
    <3>1. /\ j > i + 2 /\ ts[i].type = "PAREN_LEFT" /\ ts[j-1].type = "PAREN_RIGHT"
          /\ t \in Piece(T, i + 1, j - 1, 0)
      BY <2>2 DEF Nested
    <3>2. /\ i + 1 \in 1 .. Len(ts) + 1 /\ j - 1 \in i + 1 .. Len(ts) + 1 /\ (j - 1) - (i + 1) < j - i
          /\ j - 1 \in 1 .. Len(ts) /\ i \in 1 .. Len(ts) /\ 0 \in 0 .. 2
      BY <1>1, <3>1
    <3>3. HasType(ts, j - 1, "PAREN_RIGHT") /\ HasType(ts, i, "PAREN_LEFT") /\ ~AtEnd(ts, i)
      BY <3>1, <3>2 DEF HasType, AtEnd
    <3>4. Stops(ts, j - 1, 0)
      BY <3>3 DEF Stops
    <3>5. Complete(ts, from, T, i + 1, j - 1)
      BY <3>2
    <3>6. from[i + 1][0] = Parsed(j - 1, t)
      <4>1. \A p \in 0 .. 2 : Stops(ts, j - 1, p) => \A u \in Piece(T, i + 1, j - 1, p) : Returns(from, i + 1, p, Parsed(j - 1, u))
        BY <3>2, <3>5, CompleteParsed
      <4>2. Returns(from, i + 1, 0, Parsed(j - 1, t))
        BY <3>1, <3>2, <3>4, <4>1
      <4> QED BY <4>2 DEF Returns
    <3>7. Parsed(j - 1, t) # Throw /\ Parsed(j - 1, t).at = j - 1 /\ Parsed(j - 1, t).node = t /\ (j - 1) + 1 = j
      BY <3>2, ParsedIs
    <3> QED BY <3>3, <3>6, <3>7 DEF FirstOperand, Closes
  <2> QED BY <1>2, <2>1, <2>2
<1>3. \A t \in Piece(T, i, j, 2) : FirstOperand(ts, i, from) = Parsed(j, t)
  BY <1>1, <1>2, TreePieceIs
<1>4. ASSUME NEW p \in 0 .. 1, NEW f, Loops(ts, i, p, from, f), NEW t, Simple(ts, i, j, t) \/ Nested(ts, T, i, j, t)
      PROVE  \E m \in 0 .. j - i : f[m] = Parsed(j, t)
  <2>1. f[0] = Parsed(j, t) /\ 0 \in 0 .. j - i
    BY <1>1, <1>2, <1>4 DEF Loops
  <2> QED BY <2>1
<1>5. ASSUME Stops(ts, j, 2), NEW p \in 0 .. 1, NEW f, Loops(ts, i, p, from, f), NEW t, JoinedAt(ts, T, i, j, "AND", 1, t)
      PROVE  \E m \in 0 .. j - i : f[m] = Parsed(j, t)
  <2>1. PICK k \in i .. j - 1 : /\ ts[k].type = "LOGICAL_OP" /\ ts[k].value = "AND"
                                /\ \E l \in Piece(T, i, k, 1), r \in Piece(T, k + 1, j, 1 + 1) : t = <<"AND", l, r>>
    BY <1>5 DEF JoinedAt
  <2>2. PICK l \in Piece(T, i, k, 1), r \in Piece(T, k + 1, j, 2) : t = <<"AND", l, r>>
    BY <2>1
  <2>3. /\ k \in i .. Len(ts) + 1 /\ k - i < j - i /\ k + 1 \in 1 .. Len(ts) + 1 /\ j \in k + 1 .. Len(ts) + 1
        /\ j - (k + 1) < j - i /\ k <= Len(ts)
    BY <1>1
  <2>4. Complete(ts, from, T, i, k) /\ Complete(ts, from, T, k + 1, j)
    BY <2>3
  <2>5. Precedence("AND") = 2 /\ Binds("AND", p)
    BY DEF Binds, Precedence
  <2>6. Stops(ts, k, 2)
    BY <1>1, <2>1, <2>3 DEF Stops, HasType, AtEnd, Binds, Precedence
  <2>7. Comes(f, k - i, Parsed(k, l))
    BY <1>5, <2>4, <2>6 DEF Complete, Comes
  <2>8. "AND" \in {"AND", "OR"} /\ Stops(ts, j, Precedence("AND")) /\ r \in Piece(T, k + 1, j, Precedence("AND"))
    BY <1>5, <2>2, <2>5
  <2>9. Comes(f, j - i, Parsed(j, t))
    BY <1>5, <2>1, <2>2, <2>4, <2>5, <2>7, <2>8, JoinedParsed
  <2> QED BY <2>9 DEF Comes
<1>6. ASSUME Stops(ts, j, 1), NEW f, Loops(ts, i, 0, from, f), NEW t, JoinedAt(ts, T, i, j, "OR", 0, t)
      PROVE  \E m \in 0 .. j - i : f[m] = Parsed(j, t)
  <2>1. PICK k \in i .. j - 1 : /\ ts[k].type = "LOGICAL_OP" /\ ts[k].value = "OR"
                                /\ \E l \in Piece(T, i, k, 0), r \in Piece(T, k + 1, j, 0 + 1) : t = <<"OR", l, r>>
    BY <1>6 DEF JoinedAt
  <2>2. PICK l \in Piece(T, i, k, 0), r \in Piece(T, k + 1, j, 1) : t = <<"OR", l, r>>
    BY <2>1
  <2>3. /\ k \in i .. Len(ts) + 1 /\ k - i < j - i /\ k + 1 \in 1 .. Len(ts) + 1 /\ j \in k + 1 .. Len(ts) + 1
        /\ j - (k + 1) < j - i /\ k <= Len(ts)
    BY <1>1
  <2>4. Complete(ts, from, T, i, k) /\ Complete(ts, from, T, k + 1, j)
    BY <2>3
  <2>5. Precedence("OR") = 1 /\ Binds("OR", 0) /\ 0 \in 0 .. 1
    BY DEF Binds, Precedence
  <2>6. Stops(ts, k, 1)
    BY <1>1, <2>1, <2>3 DEF Stops, HasType, AtEnd, Binds, Precedence
  <2>7. Comes(f, k - i, Parsed(k, l))
    BY <1>6, <2>4, <2>6 DEF Complete, Comes
  <2>8. "OR" \in {"AND", "OR"} /\ Stops(ts, j, Precedence("OR")) /\ r \in Piece(T, k + 1, j, Precedence("OR"))
    BY <1>6, <2>2, <2>5
  <2>9. Comes(f, j - i, Parsed(j, t))
    BY <1>6, <2>1, <2>2, <2>4, <2>5, <2>7, <2>8, JoinedParsed
  <2> QED BY <2>9 DEF Comes
<1>7. ASSUME Stops(ts, j, 2), NEW t \in Piece(T, i, j, 1), NEW p \in 0 .. 1, NEW f, Loops(ts, i, p, from, f)
      PROVE  \E m \in 0 .. j - i : f[m] = Parsed(j, t)
  <2>1. Simple(ts, i, j, t) \/ Nested(ts, T, i, j, t) \/ JoinedAt(ts, T, i, j, "AND", 1, t)
    BY <1>1, <1>7, TreePieceIs
  <2> QED BY <1>4, <1>5, <1>7, <2>1
<1>8. ASSUME Stops(ts, j, 1), NEW t \in Piece(T, i, j, 0), NEW f, Loops(ts, i, 0, from, f)
      PROVE  \E m \in 0 .. j - i : f[m] = Parsed(j, t)
  <2>1. \/ Simple(ts, i, j, t) \/ Nested(ts, T, i, j, t)
        \/ JoinedAt(ts, T, i, j, "AND", 1, t) \/ JoinedAt(ts, T, i, j, "OR", 0, t)
    BY <1>1, <1>8, TreePieceIs
  <2>2. Stops(ts, j, 2) /\ 0 \in 0 .. 1
    BY <1>8, StopsAbove
  <2> QED BY <1>4, <1>5, <1>6, <1>8, <2>1, <2>2
<1> QED BY <1>3, <1>7, <1>8 DEF Complete

LEMMA AllComplete ==
  ASSUME NEW ts \in Seq(Token), NEW from, Table(ts, from), NEW T, Trees(ts, T)
  PROVE  \A i \in 1 .. Len(ts) + 1 : \A j \in i .. Len(ts) + 1 : Complete(ts, from, T, i, j)
<1> DEFINE S == {n \in Nat : \A i \in 1 .. Len(ts) + 1 : \A j \in i .. Len(ts) + 1 : j - i < n => Complete(ts, from, T, i, j)}
<1>1. Len(ts) \in Nat
  BY TokenAt
<1>2. 0 \in S
  BY <1>1
<1>3. ASSUME NEW n \in Nat, n \in S PROVE n + 1 \in S
  <2> SUFFICES ASSUME NEW i \in 1 .. Len(ts) + 1, NEW j \in i .. Len(ts) + 1, j - i < n + 1
               PROVE  Complete(ts, from, T, i, j)
    OBVIOUS
  <2>1. \A g \in 1 .. Len(ts) + 1 : \A h \in g .. Len(ts) + 1 : h - g < j - i => Complete(ts, from, T, g, h)
    BY <1>1, <1>3
  <2> QED BY <2>1, CompleteStep
<1> HIDE DEF S
<1>4. Len(ts) + 1 \in S
  <2>1. \A n \in Nat : n \in S
    BY <1>2, <1>3, Induction
  <2> QED BY <1>1, <2>1
<1> TAKE i \in 1 .. Len(ts) + 1
<1> TAKE j \in i .. Len(ts) + 1
<1>5. j - i < Len(ts) + 1
  BY <1>1
<1> QED BY <1>4, <1>5 DEF S

-------------------------------------------------------------------------------
(* Where the null node is in a tree.                                         *)
Operands(S) == UNION {{m[2], m[3]} : m \in {m \in S : m[1] \in {"AND", "OR"}}}

BelowSoFar(node, k, f) ==
  [n \in 0 .. k |-> IF n = 0 THEN {node}
                    ELSE UNION {{m[2], m[3]} : m \in {m \in f[n-1] : m[1] \in {"AND", "OR"}}}]

Beneath(node, k, f) == f[0] = {node} /\ \A n \in 1 .. k : f[n] = Operands(f[n-1])

LEMMA BelowRule ==
  ASSUME NEW node, NEW depth \in Nat
  PROVE  \E f : Beneath(node, depth, f) /\ (HasNull(node, depth) <=> \E n \in 0 .. depth : NullNode \in f[n])
<1> DEFINE S == {k \in Nat : \E f : f = BelowSoFar(node, k, f)}
<1>1. 0 \in S
  <2> DEFINE g == BelowSoFar(node, 0, << >>)
  <2>1. g = BelowSoFar(node, 0, g)
    BY DEF BelowSoFar
  <2> QED BY <2>1
<1>2. ASSUME NEW k \in Nat, k \in S PROVE k + 1 \in S
  <2>1. PICK f : f = BelowSoFar(node, k, f)
    BY <1>2
  <2> DEFINE g == BelowSoFar(node, k + 1, f)
  <2>2. ASSUME NEW n \in 0 .. k PROVE g[n] = f[n]
    <3>1. n \in 0 .. k + 1
      OBVIOUS
    <3>2. BelowSoFar(node, k, f)[n] = BelowSoFar(node, k + 1, f)[n]
      BY <3>1, Zenon DEF BelowSoFar
    <3> QED BY <2>1, <3>2, Zenon
  <2>3. ASSUME NEW n \in 0 .. k + 1, n # 0 PROVE g[n-1] = f[n-1]
    <3>1. n - 1 \in 0 .. k
      BY <2>3
    <3> HIDE DEF g
    <3> QED BY <2>2, <3>1
  <2>4. BelowSoFar(node, k + 1, f) = BelowSoFar(node, k + 1, g)
    <3> HIDE DEF g
    <3> QED BY <2>3 DEF BelowSoFar
  <2>5. g = BelowSoFar(node, k + 1, g)
    BY <2>4, Zenon
  <2> HIDE DEF g
  <2> QED BY <2>5
<1>3. depth \in S
  <2> HIDE DEF S
  <2> QED BY <1>1, <1>2, Induction
<1> DEFINE F == CHOOSE f : f = BelowSoFar(node, depth, f)
<1>4. HasNull(node, depth) <=> \E n \in 0 .. depth : NullNode \in F[n]
  BY DEF HasNull, BelowSoFar
<1>5. F = BelowSoFar(node, depth, F)
  <2>1. \E f : f = BelowSoFar(node, depth, f)
    BY <1>3
  <2> QED BY <2>1
<1> HIDE DEF F
<1>6. \A n \in 0 .. depth : F[n] = BelowSoFar(node, depth, F)[n]
  BY <1>5, Zenon
<1>7. Beneath(node, depth, F)
  <2>1. 0 \in 0 .. depth /\ \A n \in 1 .. depth : n \in 0 .. depth /\ n # 0
    OBVIOUS
  <2>2. \A n \in 0 .. depth : BelowSoFar(node, depth, F)[n] = IF n = 0 THEN {node} ELSE Operands(F[n-1])
    BY DEF BelowSoFar, Operands
  <2> QED BY <1>6, <2>1, <2>2 DEF Beneath
<1> QED BY <1>4, <1>7

LEMMA NullHasNull ==
  ASSUME NEW depth \in Nat
  PROVE  HasNull(NullNode, depth)
<1>1. PICK f : Beneath(NullNode, depth, f) /\ (HasNull(NullNode, depth) <=> \E n \in 0 .. depth : NullNode \in f[n])
  BY BelowRule
<1>2. 0 \in 0 .. depth /\ NullNode \in f[0]
  BY <1>1 DEF Beneath
<1> QED BY <1>1, <1>2

LEMMA OperandsOfMore == ASSUME NEW S, NEW R, S \subseteq R PROVE Operands(S) \subseteq Operands(R)
BY DEF Operands

LEMMA HasNullDeeper ==
  ASSUME NEW node, NEW d \in Nat, NEW e \in Nat, d <= e, HasNull(node, d)
  PROVE  HasNull(node, e)
<1>1. PICK f : Beneath(node, d, f) /\ (HasNull(node, d) <=> \E n \in 0 .. d : NullNode \in f[n])
  BY BelowRule
<1>2. PICK g : Beneath(node, e, g) /\ (HasNull(node, e) <=> \E n \in 0 .. e : NullNode \in g[n])
  BY BelowRule
<1> DEFINE S == {n \in Nat : n <= d => f[n] = g[n]}
<1>3. 0 \in S
  BY <1>1, <1>2 DEF Beneath
<1>4. ASSUME NEW n \in Nat, n \in S PROVE n + 1 \in S
  <2> SUFFICES ASSUME n + 1 <= d PROVE f[n + 1] = g[n + 1]
    OBVIOUS
  <2>1. n + 1 \in 1 .. d /\ n + 1 \in 1 .. e /\ (n + 1) - 1 = n /\ f[n] = g[n]
    BY <1>4
  <2> QED BY <1>1, <1>2, <2>1 DEF Beneath
<1> HIDE DEF S
<1>5. \A n \in Nat : n \in S
  BY <1>3, <1>4, Induction
<1>6. \A n \in 0 .. d : n \in 0 .. e /\ f[n] = g[n]
  BY <1>5 DEF S
<1> QED BY <1>1, <1>2, <1>6

LEMMA HasNullJoined ==
  ASSUME NEW op \in {"AND", "OR"}, NEW l, NEW r, NEW d \in Nat, HasNull(r, d)
  PROVE  HasNull(<<op, l, r>>, d + 1)
<1> DEFINE t == <<op, l, r>>
<1>1. PICK f : Beneath(r, d, f) /\ (HasNull(r, d) <=> \E n \in 0 .. d : NullNode \in f[n])
  BY BelowRule
<1>0. d + 1 \in Nat
  OBVIOUS
<1>2. PICK g : Beneath(t, d + 1, g) /\ (HasNull(t, d + 1) <=> \E n \in 0 .. d + 1 : NullNode \in g[n])
  BY <1>0, BelowRule
<1> DEFINE S == {n \in Nat : n <= d => f[n] \subseteq g[n + 1]}
<1>3. 0 \in S
  <2>1. t[1] = op /\ t[3] = r
    OBVIOUS
  <2> HIDE DEF t
  <2>2. r \in Operands({t})
    BY <2>1 DEF Operands
  <2>3. f[0] = {r} /\ g[0] = {t}
    BY <1>1, <1>2 DEF Beneath
  <2>4. 1 \in 1 .. d + 1 /\ 1 - 1 = 0 /\ 0 + 1 = 1
    OBVIOUS
  <2>5. g[1] = Operands(g[0])
    BY <1>2, <2>4 DEF Beneath
  <2> QED BY <2>2, <2>3, <2>5
<1>4. ASSUME NEW n \in Nat, n \in S PROVE n + 1 \in S
  <2> SUFFICES ASSUME n + 1 <= d PROVE f[n + 1] \subseteq g[(n + 1) + 1]
    OBVIOUS
  <2>1. n + 1 \in 1 .. d /\ (n + 1) + 1 \in 1 .. d + 1 /\ (n + 1) - 1 = n /\ ((n + 1) + 1) - 1 = n + 1
    OBVIOUS
  <2>2. f[n] \subseteq g[n + 1]
    BY <1>4
  <2>3. f[n + 1] = Operands(f[n])
    BY <1>1, <2>1 DEF Beneath
  <2>4. g[(n + 1) + 1] = Operands(g[n + 1])
    BY <1>2, <2>1 DEF Beneath
  <2> QED BY <2>2, <2>3, <2>4, OperandsOfMore
<1> HIDE DEF S, t
<1>5. \A n \in Nat : n \in S
  BY <1>3, <1>4, Induction
<1>6. \A n \in 0 .. d : n + 1 \in 0 .. d + 1 /\ f[n] \subseteq g[n + 1]
  BY <1>5 DEF S
<1>7. PICK n \in 0 .. d : NullNode \in f[n]
  BY <1>1
<1>8. HasNull(t, d + 1)
  BY <1>2, <1>6, <1>7
<1> QED BY <1>8 DEF t

-------------------------------------------------------------------------------
(* Whatever the parser returns is a tree of the grammar, up to where it      *)
(* stands; or it stands at the end, behind an operation, and lacks the       *)
(* last operand.                                                             *)
CutShort(ts, T, i, p, at, node) ==
  /\ at = Len(ts) + 1 /\ HasNull(node, Len(ts) + 1 - i)
  /\ i = Len(ts) + 1 \/ (HasType(ts, Len(ts), "LOGICAL_OP") /\ Piece(T, i, Len(ts), p) # {})

Whole(ts, T, i, p, at, node) ==
  i < at /\ ts[at-1].type # "LOGICAL_OP" /\ node \in Piece(T, i, at, p)

Filled(ts, i, node) == i <= Len(ts) => node # NullNode

Sound(ts, T, i, p, r) ==
  /\ Filled(ts, i, r.node)
  /\ \/ Whole(ts, T, i, p, r.at, r.node) /\ Stops(ts, r.at, p)
     \/ CutShort(ts, T, i, p, r.at, r.node)

(* In the loop the operations that bind tighter come first.                  *)
Going(ts, T, i, p, r) ==
  /\ Filled(ts, i, r.node)
  /\ \/ Whole(ts, T, i, IF p = 2 THEN 2 ELSE 1, r.at, r.node)
     \/ p = 0 /\ Whole(ts, T, i, 0, r.at, r.node) /\ Stops(ts, r.at, 1)
     \/ CutShort(ts, T, i, p, r.at, r.node)

AllSound(ts, T, i, from) ==
  \A j \in i + 1 .. Len(ts) + 1 : \A p \in 0 .. 2 : from[j][p] # Throw => Sound(ts, T, j, p, from[j][p])

LEMMA PieceGrows ==
  ASSUME NEW ts, Len(ts) \in Nat, NEW T, Trees(ts, T), NEW i \in 1 .. Len(ts) + 1, NEW j \in i .. Len(ts) + 1
  PROVE  Piece(T, i, j, 2) \subseteq Piece(T, i, j, 1) /\ Piece(T, i, j, 1) \subseteq Piece(T, i, j, 0)
<1>1. ASSUME NEW t \in Piece(T, i, j, 2) PROVE t \in Piece(T, i, j, 1)
  <2>1. Simple(ts, i, j, t) \/ Nested(ts, T, i, j, t)
    BY <1>1, TreePieceIs
  <2> QED BY <2>1, TreePieceIs
<1>2. ASSUME NEW t \in Piece(T, i, j, 1) PROVE t \in Piece(T, i, j, 0)
  <2>1. Simple(ts, i, j, t) \/ Nested(ts, T, i, j, t) \/ JoinedAt(ts, T, i, j, "AND", 1, t)
    BY <1>2, TreePieceIs
  <2> QED BY <2>1, TreePieceIs
<1> QED BY <1>1, <1>2

LEMMA ComparisonSound ==
  ASSUME NEW ts \in Seq(Token), WellTyped(ts), NEW i \in 1 .. Len(ts), ParseComparison(ts, i) # Throw
  PROVE  \E t : /\ ParseComparison(ts, i) = Parsed(i + 3, t) /\ i + 3 <= Len(ts) + 1
                /\ Simple(ts, i, i + 3, t) /\ t # NullNode /\ ts[i+2].type # "LOGICAL_OP"
<1>1. Len(ts) \in Nat
  BY TokenAt
<1> DEFINE col == ts[i].value
           t   == <<"LEAF", col, ts[i+1].value, ts[i+2].value>>
<1>2. HasType(ts, i, "COLUMN") /\ HasType(ts, i+1, "COMPARE_OP") /\ ~AtEnd(ts, i+2)
  BY DEF ParseComparison
<1>3. ts[i].type = "COLUMN" /\ ts[i+1].type = "COMPARE_OP" /\ i + 2 <= Len(ts)
  BY <1>1, <1>2 DEF HasType, AtEnd
<1>4. DOMAIN ts = 1 .. Len(ts)
  OBVIOUS
<1>5. ts[i+2].type \in ValueType(col)
  BY <1>2, <1>3, <1>4 DEF WellTyped
<1>6. \/ col = "name" /\ ts[i+2].type = "STRING"
      \/ col \in {"group", "rating"} /\ ts[i+2].type \in {"INTEGER", "FLOAT"}
  BY <1>5 DEF ValueType
<1>7. col \in {"group", "rating"} => ts[i+2].value \in NumberText
  BY DEF ParseComparison
<1>8. ParseComparison(ts, i) = Parsed(i + 3, t)
  BY <1>2, <1>6, <1>7 DEF ParseComparison
<1>9. Simple(ts, i, i + 3, t)
  BY <1>3, <1>5, <1>6, <1>7 DEF Simple, SimpleTrees
<1>10. t # NullNode /\ ts[i+2].type # "LOGICAL_OP"
  <2>1. t[1] = "LEAF" /\ NullNode[1] = "NULL"
    BY DEF NullNode
  <2> HIDE DEF t
  <2> QED BY <1>6, <2>1
<1> HIDE DEF t
<1> QED BY <1>1, <1>3, <1>8, <1>9, <1>10

LEMMA FirstSound ==
  ASSUME NEW ts \in Seq(Token), WellTyped(ts), NEW T, Trees(ts, T), NEW i \in 1 .. Len(ts) + 1, NEW p \in 0 .. 2,
         NEW from, AllReach(ts, i, from), AllSound(ts, T, i, from), FirstOperand(ts, i, from) # Throw
  PROVE  Going(ts, T, i, p, FirstOperand(ts, i, from))
<1> DEFINE r == FirstOperand(ts, i, from)
           q == IF p = 2 THEN 2 ELSE 1
<1>1. Len(ts) \in Nat
  BY TokenAt
<1>2. CASE AtEnd(ts, i)
  <2>1. i = Len(ts) + 1 /\ r = Parsed(i, NullNode) /\ ~(i <= Len(ts)) /\ Len(ts) + 1 - i = 0
    BY <1>1, <1>2 DEF AtEnd, FirstOperand
  <2>2. r.at = i /\ r.node = NullNode
    BY <2>1, ParsedIs
  <2>3. HasNull(NullNode, 0)
    BY NullHasNull
  <2> HIDE DEF r
  <2>4. Going(ts, T, i, p, r)
    BY <2>1, <2>2, <2>3 DEF Going, CutShort, Filled
  <2> QED BY <2>4 DEF r
<1>3. ASSUME NEW j \in i + 1 .. Len(ts) + 1, NEW t, Simple(ts, i, j, t) \/ Nested(ts, T, i, j, t),
             r = Parsed(j, t), t # NullNode, ts[j-1].type # "LOGICAL_OP"
      PROVE  Going(ts, T, i, p, r)
  <2>1. t \in Piece(T, i, j, q)
    <3>1. j \in i .. Len(ts) + 1 /\ q \in 0 .. 2
      BY <1>1
    <3> QED BY <1>1, <1>3, <3>1, TreePieceIs
  <2>2. r.at = j /\ r.node = t
    BY <1>3, ParsedIs
  <2>3. i < j
    BY <1>1
  <2> HIDE DEF r
  <2> QED BY <1>3, <2>1, <2>2, <2>3 DEF Going, Whole, Filled
<1>4. CASE ~AtEnd(ts, i) /\ ~HasType(ts, i, "PAREN_LEFT")
  <2>1. r = ParseComparison(ts, i) /\ i \in 1 .. Len(ts)
    BY <1>1, <1>4 DEF FirstOperand, AtEnd
  <2>2. PICK t : /\ ParseComparison(ts, i) = Parsed(i + 3, t) /\ i + 3 <= Len(ts) + 1
                 /\ Simple(ts, i, i + 3, t) /\ t # NullNode /\ ts[i+2].type # "LOGICAL_OP"
    BY <2>1, ComparisonSound
  <2>3. i + 3 \in i + 1 .. Len(ts) + 1 /\ (i + 3) - 1 = i + 2
    BY <1>1, <2>2
  <2> QED BY <1>3, <2>1, <2>2, <2>3
<1>5. CASE ~AtEnd(ts, i) /\ HasType(ts, i, "PAREN_LEFT")
  <2> DEFINE inner == from[i+1][0]
  <2>1. r = IF inner = Throw \/ ~Closes(ts, inner.at) THEN Throw ELSE Parsed(inner.at + 1, inner.node)
    BY <1>5 DEF FirstOperand
  <2>2. inner # Throw /\ Closes(ts, inner.at) /\ r = Parsed(inner.at + 1, inner.node)
    BY <2>1
  <2>3. i \in 1 .. Len(ts) /\ i + 1 \in i + 1 .. Len(ts) + 1 /\ 0 \in 0 .. 2
    BY <1>1, <1>5 DEF AtEnd
  <2>4. Reaches(ts, i + 1, inner) /\ Sound(ts, T, i + 1, 0, inner)
    BY <2>2, <2>3 DEF AllReach, AllSound
  <2> HIDE DEF inner
  <2>5. inner.at \in i + 1 .. Len(ts) /\ ts[inner.at].type = "PAREN_RIGHT"
    BY <1>1, <2>2, <2>4 DEF Reaches, Closes, HasType, AtEnd
  <2>6. Whole(ts, T, i + 1, 0, inner.at, inner.node)
    BY <1>1, <2>4, <2>5 DEF Sound, CutShort
  <2>7. inner.node # NullNode
    BY <1>1, <2>4, <2>5, <2>6 DEF Sound, Filled, Whole
  <2>8. ts[i].type = "PAREN_LEFT"
    BY <1>5 DEF HasType
  <2>9. Nested(ts, T, i, inner.at + 1, inner.node)
    <3>1. (inner.at + 1) - 1 = inner.at /\ inner.at + 1 > i + 2
      BY <1>1, <2>5, <2>6 DEF Whole
    <3> QED BY <2>5, <2>6, <2>8, <3>1 DEF Nested, Whole
  <2>10. inner.at + 1 \in i + 1 .. Len(ts) + 1 /\ (inner.at + 1) - 1 = inner.at
    BY <1>1, <2>5
  <2> QED BY <1>3, <2>2, <2>5, <2>7, <2>9, <2>10
<1> QED BY <1>2, <1>4, <1>5

(* The operation at k, with its operands on its two sides.                   *)
LEMMA Joins ==
  ASSUME NEW ts, Len(ts) \in Nat, NEW T, Trees(ts, T), NEW i \in 1 .. Len(ts) + 1, NEW j \in i .. Len(ts) + 1,
         NEW k \in i .. j - 1, ts[k].type = "LOGICAL_OP", NEW l, NEW r
  PROVE  /\ ts[k].value = "AND" /\ l \in Piece(T, i, k, 1) /\ r \in Piece(T, k + 1, j, 2)
              => <<"AND", l, r>> \in Piece(T, i, j, 1)
         /\ ts[k].value = "OR" /\ l \in Piece(T, i, k, 0) /\ r \in Piece(T, k + 1, j, 1)
              => <<"OR", l, r>> \in Piece(T, i, j, 0)
<1>1. ASSUME ts[k].value = "AND", l \in Piece(T, i, k, 1), r \in Piece(T, k + 1, j, 2)
      PROVE  <<"AND", l, r>> \in Piece(T, i, j, 1)
  <2> DEFINE t == <<"AND", l, r>>
  <2>1. JoinedAt(ts, T, i, j, "AND", 1, t)
    BY <1>1 DEF JoinedAt
  <2> HIDE DEF t
  <2>2. 1 \in 0 .. 2 /\ 1 < 2
    OBVIOUS
  <2>3. t \in Piece(T, i, j, 1)
    BY <2>1, <2>2, TreePieceIs
  <2> QED BY <2>3 DEF t
<1>2. ASSUME ts[k].value = "OR", l \in Piece(T, i, k, 0), r \in Piece(T, k + 1, j, 1)
      PROVE  <<"OR", l, r>> \in Piece(T, i, j, 0)
  <2> DEFINE t == <<"OR", l, r>>
  <2>1. JoinedAt(ts, T, i, j, "OR", 0, t)
    BY <1>2 DEF JoinedAt
  <2> HIDE DEF t
  <2>2. 0 \in 0 .. 2 /\ 0 < 1
    OBVIOUS
  <2>3. t \in Piece(T, i, j, 0)
    BY <2>1, <2>2, TreePieceIs
  <2> QED BY <2>3 DEF t
<1> QED BY <1>1, <1>2

(* The two ways to join: what is whole, and what is cut.                     *)
LEMMA JoinWhole ==
  ASSUME NEW ts \in Seq(Token), NEW T, Trees(ts, T), NEW i \in 1 .. Len(ts), NEW k \in i .. Len(ts),
         NEW op \in {"AND", "OR"}, ts[k].type = "LOGICAL_OP", ts[k].value = op,
         NEW p \in 0 .. 2, Binds(op, p), NEW l, NEW r, NEW at \in k + 1 .. Len(ts) + 1,
         Whole(ts, T, i, IF op = "AND" THEN 1 ELSE 0, k, l),
         Whole(ts, T, k + 1, Precedence(op), at, r), Stops(ts, at, Precedence(op))
  PROVE  Going(ts, T, i, p, Parsed(at, <<op, l, r>>))
<1> DEFINE t == <<op, l, r>>
           n == Parsed(at, t)
<1>1. Len(ts) \in Nat
  BY TokenAt
<1>2. n.at = at /\ n.node = t
  BY ParsedIs
<1>3. t # NullNode
  <2>1. t[1] = op /\ NullNode[1] = "NULL"
    BY DEF NullNode
  <2> HIDE DEF t
  <2> QED BY <2>1
<1>4. i \in 1 .. Len(ts) + 1 /\ at \in i .. Len(ts) + 1 /\ k \in i .. at - 1 /\ i < at
  BY <1>1
<1>5. ts[at-1].type # "LOGICAL_OP"
  BY DEF Whole
<1>6. CASE op = "AND"
  <2>1. l \in Piece(T, i, k, 1) /\ r \in Piece(T, k + 1, at, 2)
    BY <1>6 DEF Whole, Precedence
  <2>2. t \in Piece(T, i, at, 1)
    BY <1>1, <1>4, <1>6, <2>1, Joins
  <2>3. p # 2
    BY <1>6 DEF Binds, Precedence
  <2> HIDE DEF t, n
  <2>4. Going(ts, T, i, p, n)
    BY <1>2, <1>3, <1>4, <1>5, <2>2, <2>3 DEF Going, Whole, Filled
  <2> QED BY <2>4 DEF n, t
<1>7. CASE op = "OR"
  <2>1. l \in Piece(T, i, k, 0) /\ r \in Piece(T, k + 1, at, 1)
    BY <1>7 DEF Whole, Precedence
  <2>2. t \in Piece(T, i, at, 0)
    BY <1>1, <1>4, <1>7, <2>1, Joins
  <2>3. p = 0
    BY <1>7 DEF Binds, Precedence
  <2>4. Stops(ts, at, 1)
    BY <1>7 DEF Precedence
  <2> HIDE DEF t, n
  <2>5. Going(ts, T, i, p, n)
    BY <1>2, <1>3, <1>4, <1>5, <2>2, <2>3, <2>4 DEF Going, Whole, Filled
  <2> QED BY <2>5 DEF n, t
<1> QED BY <1>6, <1>7

LEMMA JoinCut ==
  ASSUME NEW ts \in Seq(Token), NEW T, Trees(ts, T), NEW i \in 1 .. Len(ts), NEW k \in i .. Len(ts),
         NEW op \in {"AND", "OR"}, ts[k].type = "LOGICAL_OP", ts[k].value = op,
         NEW p \in 0 .. 2, Binds(op, p), NEW l, NEW r, NEW at,
         Whole(ts, T, i, IF op = "AND" THEN 1 ELSE 0, k, l), Whole(ts, T, i, p, k, l),
         CutShort(ts, T, k + 1, Precedence(op), at, r)
  PROVE  Going(ts, T, i, p, Parsed(at, <<op, l, r>>))
<1> DEFINE t == <<op, l, r>>
           n == Parsed(at, t)
           N == Len(ts)
<1>1. N \in Nat
  BY TokenAt
<1>2. n.at = at /\ n.node = t
  BY ParsedIs
<1>3. t # NullNode
  <2>1. t[1] = op /\ NullNode[1] = "NULL"
    BY DEF NullNode
  <2> HIDE DEF t
  <2> QED BY <2>1
<1>4. at = N + 1 /\ HasNull(r, N + 1 - (k + 1))
  BY DEF CutShort
<1>5. HasNull(t, N + 1 - i)
  <2>1. N + 1 - (k + 1) \in Nat /\ (N + 1 - (k + 1)) + 1 \in Nat /\ N + 1 - i \in Nat
        /\ (N + 1 - (k + 1)) + 1 <= N + 1 - i
    BY <1>1
  <2>2. HasNull(t, (N + 1 - (k + 1)) + 1)
    BY <1>4, <2>1, HasNullJoined
  <2> HIDE DEF t
  <2> QED BY <2>1, <2>2, HasNullDeeper
<1>6. HasType(ts, N, "LOGICAL_OP") /\ Piece(T, i, N, p) # {}
  <2>1. CASE k = N
    <3>1. HasType(ts, N, "LOGICAL_OP")
      BY <1>1, <2>1 DEF HasType, AtEnd
    <3>2. l \in Piece(T, i, N, p)
      BY <2>1 DEF Whole
    <3> QED BY <3>1, <3>2
  <2>2. CASE k # N
    <3>1. HasType(ts, N, "LOGICAL_OP") /\ Piece(T, k + 1, N, Precedence(op)) # {}
      BY <1>1, <2>2 DEF CutShort
    <3>2. PICK s : s \in Piece(T, k + 1, N, Precedence(op))
      BY <3>1
    <3>3. i \in 1 .. N + 1 /\ N \in i .. N + 1 /\ k \in i .. N - 1
      BY <1>1, <2>2
    <3>4. CASE op = "AND"
      <4>1. l \in Piece(T, i, k, 1) /\ s \in Piece(T, k + 1, N, 2) /\ (p = 1 \/ p = 0)
        BY <3>2, <3>4 DEF Whole, Precedence, Binds
      <4>2. <<"AND", l, s>> \in Piece(T, i, N, 1)
        BY <1>1, <3>3, <3>4, <4>1, Joins
      <4>3. <<"AND", l, s>> \in Piece(T, i, N, 0)
        BY <1>1, <3>3, <4>2, PieceGrows
      <4> QED BY <3>1, <4>1, <4>2, <4>3
    <3>5. CASE op = "OR"
      <4>1. l \in Piece(T, i, k, 0) /\ s \in Piece(T, k + 1, N, 1) /\ p = 0
        BY <3>2, <3>5 DEF Whole, Precedence, Binds
      <4>2. <<"OR", l, s>> \in Piece(T, i, N, 0)
        BY <1>1, <3>3, <3>5, <4>1, Joins
      <4> QED BY <3>1, <4>1, <4>2
    <3> QED BY <3>4, <3>5
  <2> QED BY <2>1, <2>2
<1> HIDE DEF t, n
<1>7. Going(ts, T, i, p, n)
  BY <1>2, <1>3, <1>4, <1>5, <1>6 DEF Going, CutShort, Filled
<1> QED BY <1>7 DEF n, t

LEMMA TurnSound ==
  ASSUME NEW ts \in Seq(Token), NEW T, Trees(ts, T), NEW i \in 1 .. Len(ts) + 1, NEW p \in 0 .. 2,
         NEW from, AllReach(ts, i, from), AllSound(ts, T, i, from),
         NEW left, Reaches(ts, i, left), left # Throw, Going(ts, T, i, p, left), NextOperand(ts, left, p, from) # Throw
  PROVE  Going(ts, T, i, p, NextOperand(ts, left, p, from))
<1>1. Len(ts) \in Nat
  BY TokenAt
<1>2. CASE Over(ts, left, p)
  BY <1>2, TurnOver
<1>3. CASE ~Over(ts, left, p)
  <2> DEFINE k     == left.at
             op    == ts[k].value
             right == from[k + 1][Precedence(op)]
             new   == NextOperand(ts, left, p, from)
  <2>1. HasType(ts, k, "LOGICAL_OP") /\ Binds(op, p) /\ right # Throw /\ new = Parsed(right.at, <<op, left.node, right.node>>)
    BY <1>3, TurnMoves
  <2>2. k \in i .. Len(ts) /\ ts[k].type = "LOGICAL_OP" /\ k \in 1 .. Len(ts) /\ i \in 1 .. Len(ts)
    BY <1>1, <2>1 DEF Reaches, HasType, AtEnd
  <2>3. op \in {"AND", "OR"}
    BY <2>2, TokenAt
  <2>4. Precedence(op) \in 0 .. 2 /\ k + 1 \in i + 1 .. Len(ts) + 1
    BY <1>1, <2>2 DEF Precedence
  <2>5. Reaches(ts, k + 1, right) /\ Sound(ts, T, k + 1, Precedence(op), right)
    BY <2>1, <2>4 DEF AllReach, AllSound
  <2> HIDE DEF right, new
  <2>6. i \in 1 .. Len(ts) + 1 /\ k \in i .. Len(ts) + 1
    BY <1>1, <2>2
  <2>7. Piece(T, i, k, 2) \subseteq Piece(T, i, k, 1) /\ Piece(T, i, k, 1) \subseteq Piece(T, i, k, 0)
    BY <1>1, <2>6, PieceGrows
  <2>8. ~CutShort(ts, T, i, p, left.at, left.node)
    BY <1>1, <2>2 DEF CutShort
  <2>9. /\ Whole(ts, T, i, IF op = "AND" THEN 1 ELSE 0, k, left.node)
        /\ Whole(ts, T, i, p, k, left.node)
    <3>1. CASE op = "AND"
      <4>1. p # 2 /\ ~Stops(ts, k, 1)
        BY <1>1, <2>1, <2>2, <3>1 DEF Stops, HasType, AtEnd, Binds, Precedence
      <4>2. Whole(ts, T, i, 1, k, left.node)
        BY <2>8, <4>1 DEF Going
      <4> QED BY <2>7, <3>1, <4>1, <4>2 DEF Whole
    <3>2. CASE op = "OR"
      <4>1. p = 0
        BY <2>1, <3>2 DEF Binds, Precedence
      <4>2. Whole(ts, T, i, 1, k, left.node) \/ Whole(ts, T, i, 0, k, left.node)
        BY <2>8, <4>1 DEF Going
      <4> QED BY <2>7, <3>2, <4>1, <4>2 DEF Whole
    <3> QED BY <2>3, <3>1, <3>2
  <2>10. CASE Whole(ts, T, k + 1, Precedence(op), right.at, right.node) /\ Stops(ts, right.at, Precedence(op))
    <3>1. right.at \in k + 1 .. Len(ts) + 1
      BY <2>1, <2>5 DEF Reaches
    <3> HIDE DEF k, op
    <3>2. Going(ts, T, i, p, Parsed(right.at, <<op, left.node, right.node>>))
      BY <2>1, <2>2, <2>3, <2>9, <2>10, <3>1, JoinWhole DEF op
    <3> QED BY <2>1, <3>2 DEF new
  <2>11. CASE CutShort(ts, T, k + 1, Precedence(op), right.at, right.node)
    <3> HIDE DEF k, op
    <3>1. Going(ts, T, i, p, Parsed(right.at, <<op, left.node, right.node>>))
      BY <2>1, <2>2, <2>3, <2>9, <2>11, JoinCut DEF op
    <3> QED BY <2>1, <3>1 DEF new
  <2> QED BY <2>5, <2>10, <2>11 DEF Sound
<1> QED BY <1>2, <1>3

(* Every turn that is not the last moves on; so the loop is over at last.    *)
LEMMA LoopSound ==
  ASSUME NEW ts \in Seq(Token), WellTyped(ts), NEW T, Trees(ts, T), NEW i \in 1 .. Len(ts) + 1, NEW p \in 0 .. 2,
         NEW from, AllReach(ts, i, from), AllSound(ts, T, i, from), NEW f, Loops(ts, i, p, from, f)
  PROVE  \A n \in 0 .. Len(ts) : f[n] # Throw => Going(ts, T, i, p, f[n]) /\ (Over(ts, f[n], p) \/ f[n].at >= i + n)
<1> DEFINE Fine(n) == f[n] # Throw => Going(ts, T, i, p, f[n]) /\ (Over(ts, f[n], p) \/ f[n].at >= i + n)
           S == {n \in Nat : n <= Len(ts) => Fine(n)}
<1>1. Len(ts) \in Nat
  BY TokenAt
<1>2. \A n \in 0 .. Len(ts) : Reaches(ts, i, f[n])
  BY LoopReaches
<1>3. 0 \in S
  <2>1. f[0] = FirstOperand(ts, i, from)
    BY DEF Loops
  <2>2. f[0] # Throw => Going(ts, T, i, p, f[0])
    BY <2>1, FirstSound
  <2>3. f[0] # Throw => f[0].at >= i + 0
    BY <1>1, <1>2 DEF Reaches
  <2> QED BY <2>2, <2>3
<1>4. ASSUME NEW n \in Nat, n \in S PROVE n + 1 \in S
  <2> SUFFICES ASSUME n + 1 <= Len(ts), f[n + 1] # Throw
               PROVE  Going(ts, T, i, p, f[n + 1]) /\ (Over(ts, f[n + 1], p) \/ f[n + 1].at >= i + (n + 1))
    OBVIOUS
  <2>1. n + 1 \in 1 .. Len(ts) /\ n \in 0 .. Len(ts) /\ (n + 1) - 1 = n
    BY <1>1
  <2> DEFINE left == f[n]
  <2>2. f[n + 1] = NextOperand(ts, left, p, from)
    BY <2>1 DEF Loops
  <2>3. left # Throw
    <3>1. left = Throw => NextOperand(ts, left, p, from) = Throw
      BY DEF NextOperand
    <3> QED BY <2>2, <3>1
  <2>4. Reaches(ts, i, left) /\ Going(ts, T, i, p, left) /\ (Over(ts, left, p) \/ left.at >= i + n)
    BY <1>1, <1>2, <1>4, <2>1, <2>3
  <2> HIDE DEF left
  <2>5. Going(ts, T, i, p, f[n + 1])
    BY <2>2, <2>3, <2>4, TurnSound
  <2>6. CASE Over(ts, left, p)
    BY <2>2, <2>5, <2>6, TurnOver
  <2>7. CASE ~Over(ts, left, p)
    <3> DEFINE op    == ts[left.at].value
               right == from[left.at + 1][Precedence(op)]
    <3>1. HasType(ts, left.at, "LOGICAL_OP") /\ right # Throw /\ f[n + 1] = Parsed(right.at, <<op, left.node, right.node>>)
      BY <2>2, <2>7, TurnMoves
    <3>2. left.at \in i .. Len(ts)
      BY <1>1, <2>3, <2>4, <3>1 DEF Reaches, HasType, AtEnd
    <3>3. Precedence(op) \in 0 .. 2 /\ left.at + 1 \in i + 1 .. Len(ts) + 1
      BY <1>1, <3>2 DEF Precedence
    <3>4. Reaches(ts, left.at + 1, right)
      BY <3>3 DEF AllReach
    <3> HIDE DEF right, op
    <3>5. right.at >= left.at + 1 /\ right.at \in Int /\ f[n + 1].at = right.at
      BY <1>1, <3>1, <3>2, <3>4, ParsedIs DEF Reaches
    <3>6. f[n + 1].at >= i + (n + 1)
      BY <1>1, <2>4, <2>7, <3>2, <3>5
    <3> QED BY <2>5, <3>6
  <2> QED BY <2>6, <2>7
<1> HIDE DEF S
<1>5. \A n \in Nat : n \in S
  BY <1>3, <1>4, Induction
<1> QED BY <1>1, <1>5 DEF S

LEMMA ExpressionSound ==
  ASSUME NEW ts \in Seq(Token), WellTyped(ts), NEW T, Trees(ts, T), NEW i \in 1 .. Len(ts) + 1, NEW p \in 0 .. 2,
         NEW from, AllReach(ts, i, from), AllSound(ts, T, i, from), ParseExpression(ts, i, p, from) # Throw
  PROVE  Sound(ts, T, i, p, ParseExpression(ts, i, p, from))
<1>1. Len(ts) \in Nat
  BY TokenAt
<1>2. PICK f : Loops(ts, i, p, from, f) /\ ParseExpression(ts, i, p, from) = f[Len(ts)]
  BY <1>1, LoopRule
<1> DEFINE r == f[Len(ts)]
<1>3. r # Throw /\ Reaches(ts, i, r) /\ Going(ts, T, i, p, r) /\ (Over(ts, r, p) \/ r.at >= i + Len(ts))
  BY <1>1, <1>2, LoopReaches, LoopSound
<1> HIDE DEF r
<1>4. Stops(ts, r.at, p)
  <2>1. r.at >= i + Len(ts) => AtEnd(ts, r.at)
    BY <1>1, <1>3 DEF AtEnd, Reaches
  <2> QED BY <1>3, <2>1 DEF Over, Stops
<1>5. ASSUME Whole(ts, T, i, IF p = 2 THEN 2 ELSE 1, r.at, r.node) PROVE Whole(ts, T, i, p, r.at, r.node)
  <2>1. r.at \in i .. Len(ts) + 1
    BY <1>3 DEF Reaches
  <2>2. Piece(T, i, r.at, 1) \subseteq Piece(T, i, r.at, 0)
    BY <1>1, <2>1, PieceGrows
  <2> QED BY <1>5, <2>2 DEF Whole
<1>6. Sound(ts, T, i, p, r)
  BY <1>3, <1>4, <1>5 DEF Sound, Going
<1> QED BY <1>2, <1>6 DEF r

LEMMA TableSound ==
  ASSUME NEW ts \in Seq(Token), WellTyped(ts), NEW T, Trees(ts, T), NEW from, Table(ts, from),
         \A i \in 1 .. Len(ts) + 1 : AllReach(ts, i, from)
  PROVE  from[1][0] # Throw => Sound(ts, T, 1, 0, from[1][0])
<1> DEFINE N == Len(ts) + 1
           S == {n \in Nat : n < N => AllSound(ts, T, N - n, from)}
<1>1. Len(ts) \in Nat /\ N \in Nat
  BY TokenAt
<1>2. ASSUME NEW i \in 1 .. N, AllSound(ts, T, i, from), NEW p \in 0 .. 2, from[i][p] # Throw
      PROVE  Sound(ts, T, i, p, from[i][p])
  <2>1. from[i][p] = ParseExpression(ts, i, p, from) /\ AllReach(ts, i, from)
    BY DEF Table
  <2> QED BY <1>2, <2>1, ExpressionSound
<1>3. 0 \in S
  BY <1>1 DEF AllSound
<1>4. ASSUME NEW n \in Nat, n \in S PROVE n + 1 \in S
  <2> SUFFICES ASSUME n + 1 < N PROVE AllSound(ts, T, N - (n + 1), from)
    OBVIOUS
  <2>1. AllSound(ts, T, N - n, from) /\ N - n \in 1 .. N
    BY <1>1, <1>4
  <2>2. \A j \in N - (n + 1) + 1 .. N : j = N - n \/ j \in N - n + 1 .. N
    BY <1>1
  <2> QED BY <1>2, <2>1, <2>2 DEF AllSound
<1> HIDE DEF S
<1>5. \A n \in Nat : n \in S
  BY <1>3, <1>4, Induction
<1>6. PICK n \in Nat : n < N /\ N - n = 1
  <2>1. Len(ts) < N /\ N - Len(ts) = 1
    BY <1>1
  <2> QED BY <1>1, <2>1
<1>7. AllSound(ts, T, 1, from)
  BY <1>5, <1>6 DEF S
<1>8. 1 \in 1 .. N /\ 0 \in 0 .. 2
  BY <1>1
<1> QED BY <1>2, <1>7, <1>8

-------------------------------------------------------------------------------
(* A tree of the grammar is a node.                                          *)
LEMMA PieceFilled ==
  ASSUME NEW ts, Len(ts) \in Nat, NEW T, Trees(ts, T)
  PROVE  \A i \in 1 .. Len(ts) + 1 : \A j \in i .. Len(ts) + 1 : \A level \in 0 .. 2 :
            \A t \in Piece(T, i, j, level) : t # NullNode
<1> DEFINE F(i, j) == \A level \in 0 .. 2 : \A t \in Piece(T, i, j, level) : t # NullNode
           S == {n \in Nat : \A i \in 1 .. Len(ts) + 1 : \A j \in i .. Len(ts) + 1 : j - i < n => F(i, j)}
<1>1. 0 \in S
  OBVIOUS
<1>2. ASSUME NEW n \in Nat, n \in S PROVE n + 1 \in S
  <2> SUFFICES ASSUME NEW i \in 1 .. Len(ts) + 1, NEW j \in i .. Len(ts) + 1, j - i < n + 1,
                      NEW level \in 0 .. 2, NEW t \in Piece(T, i, j, level)
               PROVE  t # NullNode
    OBVIOUS
  <2>1. NullNode[1] = "NULL"
    BY DEF NullNode
  <2>2. ASSUME Simple(ts, i, j, t) PROVE t # NullNode
    <3>1. t[1] = "LEAF"
      BY <2>2 DEF Simple, SimpleTrees
    <3> QED BY <2>1, <3>1
  <2>3. ASSUME NEW op \in {"AND", "OR"}, NEW lv, JoinedAt(ts, T, i, j, op, lv, t) PROVE t # NullNode
    <3>1. t[1] = op
      BY <2>3 DEF JoinedAt
    <3> QED BY <2>1, <3>1
  <2>4. ASSUME Nested(ts, T, i, j, t) PROVE t # NullNode
    <3>1. j > i + 2 /\ t \in Piece(T, i + 1, j - 1, 0)
      BY <2>4 DEF Nested
    <3>2. /\ i + 1 \in 1 .. Len(ts) + 1 /\ j - 1 \in i + 1 .. Len(ts) + 1
          /\ (j - 1) - (i + 1) < n /\ 0 \in 0 .. 2
      BY <3>1
    <3>3. F(i + 1, j - 1)
      BY <1>2, <3>2
    <3> QED BY <3>1, <3>2, <3>3
  <2>5. \/ Simple(ts, i, j, t) \/ Nested(ts, T, i, j, t)
        \/ JoinedAt(ts, T, i, j, "AND", 1, t) \/ JoinedAt(ts, T, i, j, "OR", 0, t)
    BY TreePieceIs
  <2> QED BY <2>2, <2>3, <2>4, <2>5
<1> HIDE DEF S
<1>3. Len(ts) + 1 \in S
  <2>1. \A n \in Nat : n \in S
    BY <1>1, <1>2, Induction
  <2> QED BY <2>1
<1> HIDE DEF F
<1>4. ASSUME NEW i \in 1 .. Len(ts) + 1, NEW j \in i .. Len(ts) + 1 PROVE F(i, j)
  <2>1. j - i < Len(ts) + 1
    OBVIOUS
  <2> QED BY <1>3, <2>1 DEF S
<1> QED BY <1>4 DEF F

LEMMA WholeConditionIs ==
  ASSUME NEW ts, Len(ts) \in Nat, NEW T, Trees(ts, T)
  PROVE  /\ ConditionTrees(ts, Len(ts)) = Piece(T, 1, Len(ts) + 1, 0)
         /\ ConditionTrees(ts, Len(ts) - 1) = Piece(T, 1, Len(ts), 0)
<1>1. (Len(ts) + 1) - 1 = Len(ts)
  OBVIOUS
<1> QED BY <1>1 DEF Trees, Piece

LEMMA TreeIsParsed ==
  ASSUME NEW ts \in Seq(Token), NEW t \in ConditionTrees(ts, Len(ts))
  PROVE  ParseCondition(ts) = Parsed(Len(ts) + 1, t)
<1> DEFINE N == Len(ts) + 1
<1>1. Len(ts) \in Nat /\ N \in Nat /\ 1 \in 1 .. N /\ N \in 1 .. N /\ N # 0 /\ 0 \in 0 .. 2
  BY TokenAt
<1>2. PICK T : Trees(ts, T)
  BY <1>1, TreesAre
<1>3. PICK f : /\ Table(ts, f)
               /\ ParseCondition(ts) = IF f[1][0] = Throw \/ ~AtEnd(ts, f[1][0].at) THEN Throw
                                        ELSE IF f[1][0].node = NullNode THEN Parsed(f[1][0].at, EmptyNode)
                                        ELSE f[1][0]
  BY ConditionIs
<1>4. t \in Piece(T, 1, N, 0)
  BY <1>1, <1>2, WholeConditionIs
<1>5. AtEnd(ts, N) /\ Stops(ts, N, 0)
  BY <1>1 DEF AtEnd, Stops
<1>6. Complete(ts, f, T, 1, N)
  BY <1>1, <1>2, <1>3, AllComplete
<1>7. Returns(f, 1, 0, Parsed(N, t))
  BY <1>1, <1>3, <1>4, <1>5, <1>6, CompleteParsed
<1>8. t # NullNode
  BY <1>1, <1>2, <1>4, PieceFilled
<1>9. f[1][0] = Parsed(N, t)
  BY <1>7 DEF Returns
<1>10. Parsed(N, t) # Throw /\ Parsed(N, t).at = N /\ Parsed(N, t).node = t
  BY <1>1, ParsedIs
<1> QED BY <1>3, <1>5, <1>8, <1>9, <1>10

LEMMA AcceptedIs ==
  ASSUME NEW ts \in Seq(Token), Accepted(ts), ts # << >>, WellTyped(ts)
  PROVE  IF HasType(ts, Len(ts), "LOGICAL_OP")
         THEN /\ HasNull(ParseCondition(ts).node, Len(ts))
              /\ ConditionTrees(ts, Len(ts) - 1) # {}
         ELSE ParseCondition(ts).node \in ConditionTrees(ts, Len(ts))
<1> DEFINE N == Len(ts) + 1
<1>1. Len(ts) \in Nat /\ N \in Nat /\ 1 <= Len(ts) /\ N # 1
  <2>1. Len(ts) \in Nat /\ Len(ts) # 0
    BY TokenAt
  <2> QED BY <2>1
<1>2. PICK T : Trees(ts, T)
  BY <1>1, TreesAre
<1>3. PICK f : /\ Table(ts, f)
               /\ \A i \in 1 .. Len(ts) + 1 : AllReach(ts, i, f) /\ \A p \in 0 .. 2 : Reaches(ts, i, f[i][p])
               /\ ParseCondition(ts) = IF f[1][0] = Throw \/ ~AtEnd(ts, f[1][0].at) THEN Throw
                                        ELSE IF f[1][0].node = NullNode THEN Parsed(f[1][0].at, EmptyNode)
                                        ELSE f[1][0]
  BY ConditionIs
<1> DEFINE r == f[1][0]
<1>4. r # Throw /\ AtEnd(ts, r.at)
  BY <1>3 DEF Accepted
<1>5. Sound(ts, T, 1, 0, r)
  BY <1>2, <1>3, <1>4, TableSound
<1>6. Reaches(ts, 1, r)
  <2>1. 1 \in 1 .. Len(ts) + 1 /\ 0 \in 0 .. 2
    BY <1>1
  <2> QED BY <1>3, <2>1
<1>7. ParseCondition(ts) = r
  <2>1. r.node # NullNode
    BY <1>1, <1>5 DEF Sound, Filled
  <2> QED BY <1>3, <1>4, <2>1
<1> HIDE DEF r
<1>8. r.at = N /\ N - 1 = Len(ts)
  BY <1>1, <1>4, <1>6 DEF Reaches, AtEnd
<1>9. CASE HasType(ts, Len(ts), "LOGICAL_OP")
  <2>1. ~Whole(ts, T, 1, 0, r.at, r.node)
    BY <1>1, <1>8, <1>9 DEF Whole, HasType
  <2>2. CutShort(ts, T, 1, 0, r.at, r.node)
    BY <1>5, <2>1 DEF Sound
  <2>3. HasNull(r.node, Len(ts)) /\ Piece(T, 1, Len(ts), 0) # {}
    BY <1>1, <1>8, <2>2 DEF CutShort
  <2> QED BY <1>1, <1>2, <1>7, <1>9, <2>3, WholeConditionIs
<1>10. CASE ~HasType(ts, Len(ts), "LOGICAL_OP")
  <2>1. ~CutShort(ts, T, 1, 0, r.at, r.node)
    BY <1>1, <1>10 DEF CutShort
  <2>2. r.node \in Piece(T, 1, N, 0)
    BY <1>5, <1>8, <2>1 DEF Sound, Whole
  <2> QED BY <1>1, <1>2, <1>7, <1>10, <2>2, WholeConditionIs
<1> QED BY <1>9, <1>10

-------------------------------------------------------------------------------
(* What is typed is a sequence of tokens, whatever words it is typed in.     *)
TypedInv == typed \in Seq(TypedWords)

LEMMA TokensType == ASSUME TypedInv PROVE tokens \in Seq(Token)
<1>1. \A i \in 1 .. Len(typed) : typed[i] \in Seq(Token)
  BY ParserAssumption DEF TypedInv
<1>2. typed \in Seq(Seq(Token))
  <2>1. Len(typed) \in Nat /\ typed = [i \in 1 .. Len(typed) |-> typed[i]]
    BY DEF TypedInv
  <2> HIDE DEF TypedInv
  <2>2. typed \in [1 .. Len(typed) -> Seq(Token)]
    BY <1>1, <2>1
  <2> QED BY <2>1, <2>2
<1> QED BY <1>2, FlattenPlaces DEF tokens

(* The parser and the grammar agree on every condition that can be typed:    *)
(* every tree of the grammar is what ParseExpression returns, and whatever   *)
(* it accepts, of the right types, is a condition of the grammar, or one     *)
(* without its last operand.                                                 *)
THEOREM ParserParsesGrammar == TypingSpec => []ParserIsGrammar
<1>1. TypingInit => TypedInv
  BY DEF TypingInit, TypedInv
<1>2. TypedInv /\ [TypingNext]_typed => TypedInv'
  BY DEF TypedInv, TypingNext, Type
<1>3. TypedInv => ParserIsGrammar
  <2> SUFFICES ASSUME TypedInv PROVE ParserIsGrammar
    OBVIOUS
  <2>1. tokens \in Seq(Token)
    BY TokensType
  <2>2. GrammarIsParsed
    BY <2>1, TreeIsParsed DEF GrammarIsParsed
  <2>3. AcceptedIsCondition
    <3> DEFINE ts == tokens
    <3>1. ts \in Seq(Token)
      BY <2>1
    <3> HIDE DEF ts
    <3>2. Accepted(ts) /\ ts # << >> /\ WellTyped(ts) =>
            IF HasType(ts, Len(ts), "LOGICAL_OP")
            THEN /\ HasNull(ParseCondition(ts).node, Len(ts))
                 /\ ConditionTrees(ts, Len(ts) - 1) # {}
            ELSE ParseCondition(ts).node \in ConditionTrees(ts, Len(ts))
      BY <3>1, AcceptedIs
    <3> QED BY <3>2 DEF AcceptedIsCondition, ts
  <2> QED BY <2>2, <2>3 DEF ParserIsGrammar
<1> QED BY <1>1, <1>2, <1>3, PTL DEF TypingSpec
===============================================================================
