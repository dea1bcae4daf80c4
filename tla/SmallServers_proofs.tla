--------------------------- MODULE SmallServers_proofs ---------------------------
(* Proofs about the small servers, for any clients, texts, students, names and *)
(* matrices: the chat sends to one client of each name that is heard, the text *)
(* editor and its client stay in step and quit's text comes back, the student  *)
(* buffers' select is a filter, the text server's blocks change and are        *)
(* searched as was asked, and the matrix server keeps what it was sent.        *)
EXTENDS SmallServers, SequencesExt, Positions_proofs

LEMMA RunsAlone == Spec => M!Spec /\ E!Spec /\ B!Spec /\ C!Spec /\ D!Spec
<1>1. Init => M!Init /\ E!Init /\ B!Init /\ C!Init /\ D!Init
  BY DEF Init
<1>2. [Next]_vars =>
        [M!Next]_(M!vars) /\ [E!Next]_(E!vars) /\ [B!Next]_(B!vars) /\ [C!Next]_(C!vars) /\ [D!Next]_(D!tvars)
  BY DEF Next, vars, mvars, evars, bvars, cvars, tvars, M!vars, E!vars, B!vars, C!vars, D!tvars
<1> QED BY <1>1, <1>2, PTL DEF Spec, M!Spec, E!Spec, B!Spec, C!Spec, D!Spec

-------------------------------------------------------------------------------
(* The chat: the users of a name, and the clients that were heard under it.    *)
UserType == [name : Name, ip : Talker]
Entries(list, name) == {i \in 1 .. Len(list) : list[i].name = name}
OfName(set, name) == {c \in set : NameOf[c] = name}

(* Of one name: nobody, or one client that was heard.                          *)
OneOf(list, set, name) ==
  IF OfName(set, name) = {} THEN Entries(list, name) = {}
  ELSE \E i \in Entries(list, name) : Entries(list, name) = {i} /\ list[i].ip \in OfName(set, name)

ChatTypes ==
  /\ NameOf \in [Talker -> Name]
  /\ Users \in Seq(UserType) /\ heard \subseteq Talker /\ \A d \in toServer : d.from \in Talker

ChatInv == ChatTypes /\ (cUp => \A name \in Name : OneOf(Users, heard, name))

LEMMA AddedOne ==
  ASSUME ChatTypes, NEW c \in Talker, \A name \in Name : OneOf(Users, heard, name)
  PROVE  C!Added(c) \in Seq(UserType) /\ \A name \in Name : OneOf(C!Added(c), heard \cup {c}, name)
<1> DEFINE I == {i \in 1 .. Len(Users) : Users[i].name = NameOf[c]}
           new == [name |-> NameOf[c], ip |-> c]
           n == Len(Users)
<1>1. I = Entries(Users, NameOf[c]) /\ NameOf[c] \in Name /\ I \in SUBSET Nat /\ 0 \notin I
  BY DEF Entries, ChatTypes
<1>2. C!Found(NameOf[c]) = IF I # {} THEN Min(I) ELSE 0
  BY DEF C!Found, C!SelectInSeq, C!Min, Min
<1>3. ASSUME NEW name \in Name
      PROVE  OfName(heard \cup {c}, name) = IF name = NameOf[c] THEN OfName(heard, name) \cup {c} ELSE OfName(heard, name)
  BY DEF OfName
<1>4. CASE I = {}
  <2>1. C!Added(c) = Append(Users, new)
    BY <1>2, <1>4 DEF C!Added
  <2>2. new \in UserType /\ new.name = NameOf[c] /\ new.ip = c
    BY <1>1 DEF UserType
  <2> DEFINE list == Append(Users, new)
  <2>3. list \in Seq(UserType) /\ Len(list) = n + 1 /\ n \in Nat /\ list[n + 1] = new /\ \A i \in 1 .. n : list[i] = Users[i]
    <3> HIDE DEF new
    <3> QED BY <2>2 DEF ChatTypes
  <2> HIDE DEF list, new, n
  <2>4. ASSUME NEW name \in Name
        PROVE  Entries(list, name) = IF name = NameOf[c] THEN Entries(Users, name) \cup {n + 1} ELSE Entries(Users, name)
    <3>1. \A i : i \in 1 .. n + 1 <=> i \in 1 .. n \/ i = n + 1
      BY <2>3
    <3>2. n = Len(Users)
      BY DEF n
    <3> QED BY <2>2, <2>3, <3>1, <3>2 DEF Entries
  <2>5. ASSUME NEW name \in Name PROVE OneOf(list, heard \cup {c}, name)
    <3>1. CASE name = NameOf[c]
      <4>1. Entries(list, name) = {n + 1} /\ list[n + 1].ip = c
        BY <1>1, <1>4, <2>2, <2>3, <2>4, <3>1
      <4>2. c \in OfName(heard \cup {c}, name)
        BY <1>3, <3>1
      <4> QED BY <4>1, <4>2 DEF OneOf
    <3>2. CASE name # NameOf[c]
      <4>1. Entries(list, name) = Entries(Users, name) /\ OfName(heard \cup {c}, name) = OfName(heard, name)
        BY <1>3, <2>4, <3>2
      <4>2. \A i \in Entries(Users, name) : list[i] = Users[i]
        BY <2>3 DEF Entries, n
      <4> QED BY <4>1, <4>2 DEF OneOf
    <3> QED BY <3>1, <3>2
  <2> QED BY <2>1, <2>3, <2>5 DEF list
<1>5. CASE I # {}
  <2>1. Min(I) # 0
    BY <1>1, <1>5, MinOfNaturals
  <2>2. C!Added(c) = Users
    BY <1>2, <1>5, <2>1 DEF C!Added
  <2>3. OfName(heard, NameOf[c]) # {}
    BY <1>1, <1>5 DEF OneOf
  <2>4. ASSUME NEW name \in Name PROVE OneOf(Users, heard \cup {c}, name)
    <3>1. OfName(heard, name) = {} <=> OfName(heard \cup {c}, name) = {}
      BY <1>3, <2>3
    <3>2. OfName(heard, name) \subseteq OfName(heard \cup {c}, name)
      BY <1>3
    <3> QED BY <3>1, <3>2 DEF OneOf
  <2> QED BY <2>2, <2>4 DEF ChatTypes
<1> QED BY <1>4, <1>5

LEMMA ErasedNone ==
  ASSUME NameOf \in [Talker -> Name], NEW c \in Talker, NEW list \in Seq(UserType), NEW set \in SUBSET Talker,
         \A name \in Name : OneOf(list, set, name), c \in set
  PROVE  /\ C!Erased(list, c) \in Seq(UserType)
         /\ \A name \in Name : OneOf(C!Erased(list, c), set \ {d \in Talker : NameOf[d] = NameOf[c]}, name)
<1> DEFINE own == NameOf[c]
           t == C!Erased(list, c)
           rest == set \ {d \in Talker : NameOf[d] = own}
<1>1. PICK k \in Entries(list, own) : Entries(list, own) = {k}
  <2>1. own \in Name /\ c \in OfName(set, own)
    BY DEF OfName
  <2> QED BY <2>1 DEF OneOf
<1>2. k \in 1 .. Len(list) /\ k \in Nat /\ 1 <= k /\ k <= k + 1 /\ k <= Len(list) /\ k - (k - 1) = 1 /\ k # 0
  BY <1>1 DEF Entries
<1>3. C!SelectInSeq(list, LAMBDA u : u.name = own) = k
  <2>1. {i \in 1 .. Len(list) : list[i].name = own} = {k}
    BY <1>1 DEF Entries
  <2>2. Min({k}) = k
    <3>1. {k} \in SUBSET Nat /\ {k} # {}
      BY <1>2
    <3>2. Min({k}) \in {k}
      BY <3>1, MinOfNaturals, Zenon
    <3> QED BY <3>2
  <2> QED BY <2>1, <2>2 DEF C!SelectInSeq, C!Min, Min
<1>4. t = SubSeq(list, 1, k - 1) \o SubSeq(list, k + 1, Len(list))
  BY <1>2, <1>3 DEF C!Erased, C!RemoveAt
<1> HIDE DEF t
<1>5. /\ t \in Seq(UserType) /\ Len(t) = Len(list) - 1
      /\ \A i \in 1 .. Len(t) : t[i] = IF i < k THEN list[i] ELSE list[i + 1]
  <2>1. /\ t \in Seq(UserType) /\ Len(t) = Len(list) - (k - (k - 1))
        /\ \A i \in 1 .. Len(t) : t[i] = IF i < k THEN list[i] ELSE list[i + (k - (k - 1))]
    BY <1>2, <1>4, CutOut
  <2> QED BY <1>2, <2>1
<1>6. ASSUME NEW name \in Name, name # own
      PROVE  OfName(rest, name) = OfName(set, name)
  BY <1>6 DEF OfName
<1>7. OfName(rest, own) = {}
  BY DEF OfName
<1>8. ASSUME NEW name \in Name PROVE OneOf(t, rest, name)
  <2>1. CASE name = own
    <3>1. Entries(t, own) = {}
      <4> SUFFICES ASSUME NEW i \in 1 .. Len(t), t[i].name = own PROVE FALSE
        BY DEF Entries
      <4> DEFINE j == IF i < k THEN i ELSE i + 1
      <4>1. j \in 1 .. Len(list) /\ j # k /\ t[i] = list[j]
        BY <1>2, <1>5
      <4>2. j \in Entries(list, own)
        BY <4>1 DEF Entries
      <4> QED BY <1>1, <4>1, <4>2
    <3> QED BY <1>7, <2>1, <3>1 DEF OneOf
  <2>2. CASE name # own /\ OfName(set, name) = {}
    <3>1. Entries(t, name) = {}
      <4> SUFFICES ASSUME NEW i \in 1 .. Len(t), t[i].name = name PROVE FALSE
        BY DEF Entries
      <4> DEFINE j == IF i < k THEN i ELSE i + 1
      <4>1. j \in 1 .. Len(list) /\ t[i] = list[j]
        BY <1>2, <1>5
      <4>2. j \in Entries(list, name)
        BY <4>1 DEF Entries
      <4> QED BY <2>2, <4>2 DEF OneOf
    <3> QED BY <1>6, <2>2, <3>1 DEF OneOf
  <2>3. CASE name # own /\ OfName(set, name) # {}
    <3>1. PICK j \in Entries(list, name) : Entries(list, name) = {j} /\ list[j].ip \in OfName(set, name)
      BY <2>3 DEF OneOf
    <3>2. j \in 1 .. Len(list) /\ list[j].name = name /\ j # k
      BY <1>1, <2>3, <3>1 DEF Entries
    <3> DEFINE h == IF j < k THEN j ELSE j - 1
    <3>3. h \in 1 .. Len(t) /\ t[h] = list[j]
      BY <1>2, <1>5, <3>2
    <3>4. ASSUME NEW i \in 1 .. Len(t), t[i].name = name PROVE i = h
      <4> DEFINE m == IF i < k THEN i ELSE i + 1
      <4>1. m \in 1 .. Len(list) /\ t[i] = list[m] /\ m # k
        BY <1>2, <1>5
      <4>2. m = j
        BY <3>1, <3>4, <4>1 DEF Entries
      <4> QED BY <1>2, <3>2, <4>1, <4>2
    <3> HIDE DEF h
    <3>5. Entries(t, name) = {h}
      BY <3>2, <3>3, <3>4 DEF Entries
    <3> QED BY <1>6, <2>3, <3>1, <3>3, <3>5 DEF OneOf
  <2> QED BY <2>1, <2>2, <2>3
<1> QED BY <1>5, <1>8 DEF t

LEMMA ChatInitInv == ASSUME C!ChatAssumption PROVE C!Init => ChatInv
<1> SUFFICES ASSUME C!Init PROVE ChatInv
  OBVIOUS
<1>1. Users = << >> /\ heard = {} /\ toServer = {} /\ NameOf \in [Talker -> Name]
  BY DEF C!Init, C!ChatAssumption
<1>2. \A name \in Name : OfName(heard, name) = {} /\ Entries(Users, name) = {}
  BY <1>1 DEF OfName, Entries
<1>3. \A name \in Name : OneOf(Users, heard, name)
  BY <1>2 DEF OneOf
<1> QED BY <1>1, <1>3 DEF ChatInv, ChatTypes

LEMMA ChatNextInv == ASSUME ChatInv, [C!Next]_(C!vars) PROVE ChatInv'
<1>1. CASE UNCHANGED << cUp, Users, heard >> /\ toServer' \subseteq toServer
  BY <1>1 DEF ChatInv, ChatTypes, OneOf, Entries, OfName
<1>2. ASSUME NEW c \in Talker, NEW type, C!SendData(c, type) PROVE ChatInv'
  <2>1. UNCHANGED << cUp, Users, heard >> /\ \A d \in toServer' : d.from \in Talker
    BY <1>2 DEF C!SendData, ChatInv, ChatTypes
  <2> QED BY <2>1 DEF ChatInv, ChatTypes, OneOf, Entries, OfName
<1>3. ASSUME C!Start PROVE ChatInv'
  <2>1. Users' = << >> /\ heard' = {} /\ toServer' = toServer
    BY <1>3 DEF C!Start
  <2>2. \A name \in Name : OfName(heard', name) = {} /\ Entries(Users', name) = {}
    BY <2>1 DEF OfName, Entries
  <2>3. \A name \in Name : OneOf(Users', heard', name)
    BY <2>2 DEF OneOf
  <2> QED BY <2>1, <2>3 DEF ChatInv, ChatTypes, OneOf, Entries, OfName
<1>4. ASSUME NEW d \in toServer, C!Handle(d) PROVE ChatInv'
  <2> DEFINE c == d.from
             same == {k \in Talker : NameOf[k] = NameOf[c]}
  <2>1. c \in Talker /\ cUp /\ toServer' \subseteq toServer
    BY <1>4 DEF C!Handle, ChatInv, ChatTypes
  <2>2. C!Added(c) \in Seq(UserType) /\ \A name \in Name : OneOf(C!Added(c), heard \cup {c}, name)
    BY <2>1, AddedOne DEF ChatInv
  <2>3. CASE d.type # "MT_QUIT_TS"
    <3>1. Users' = C!Added(c) /\ heard' = heard \cup {c}
      BY <1>4, <2>3 DEF C!Handle
    <3>2. \A name \in Name : OneOf(Users', heard', name)
      BY <2>2, <3>1
    <3>3. ChatTypes'
      BY <2>1, <2>2, <3>1 DEF ChatInv, ChatTypes
    <3> QED BY <3>2, <3>3 DEF ChatInv, OneOf, Entries, OfName
  <2>4. CASE d.type = "MT_QUIT_TS"
    <3>1. Users' = C!Erased(C!Added(c), c) /\ heard' = heard \ same
      BY <1>4, <2>4 DEF C!Handle
    <3>2. heard \ same = (heard \cup {c}) \ same
      BY <2>1
    <3>3. /\ C!Erased(C!Added(c), c) \in Seq(UserType)
          /\ \A name \in Name : OneOf(C!Erased(C!Added(c), c), (heard \cup {c}) \ same, name)
      <4> DEFINE list == C!Added(c)
                 set == heard \cup {c}
      <4>1. /\ NameOf \in [Talker -> Name] /\ set \in SUBSET Talker /\ c \in set /\ list \in Seq(UserType)
            /\ \A name \in Name : OneOf(list, set, name)
        BY <2>1, <2>2 DEF ChatInv, ChatTypes
      <4> HIDE DEF list, set, c
      <4> QED BY <2>1, <4>1, ErasedNone DEF list, set
    <3>4. \A name \in Name : OneOf(Users', heard', name)
      BY <3>1, <3>2, <3>3
    <3>5. ChatTypes'
      BY <2>1, <3>1, <3>3 DEF ChatInv, ChatTypes
    <3> QED BY <3>4, <3>5 DEF ChatInv, OneOf, Entries, OfName
  <2> QED BY <2>3, <2>4
<1>5. C!Lose \/ (\E c \in Talker : C!Receive(c)) \/ UNCHANGED C!vars
        => UNCHANGED << cUp, Users, heard >> /\ toServer' \subseteq toServer
  BY DEF C!Lose, C!Receive, C!vars
<1> QED BY <1>1, <1>2, <1>3, <1>4, <1>5 DEF C!Next

(* Of the clients heard under a name just one is sent what is said, and nobody *)
(* whose name has quit, whatever the network does to the datagrams.            *)
THEOREM ChatOneOfEachName == Spec => []OneOfEachName
<1>1. C!ChatAssumption
  BY SmallAssumption
<1>2. C!Init => ChatInv
  BY <1>1, ChatInitInv
<1>3. ChatInv /\ [C!Next]_(C!vars) => ChatInv'
  BY ChatNextInv
<1>4. ChatInv => OneOfEachName
  <2>1. Users \in Seq(UserType) => DOMAIN Users = 1 .. Len(Users)
    OBVIOUS
  <2> QED BY <2>1 DEF ChatInv, ChatTypes, OneOf, Entries, OfName, OneOfEachName, C!OneOfEachName
<1> QED BY <1>2, <1>3, <1>4, RunsAlone, PTL DEF C!Spec

-------------------------------------------------------------------------------
(* The text editor: loops over paragraphs, of which proper ones stay proper.   *)
SameLength(t, V) == {u \in Seq(V) : Len(u) = Len(t)}

CopiedSoFar(t, start, n, step, f) ==
  [k \in 0 .. n |->
     IF k = 0 THEN t ELSE [f[k - 1] EXCEPT ![start + (k - 1) * step] = f[k - 1][start + k * step]]]

LEMMA CopiedRule ==
  ASSUME NEW V, NEW t \in Seq(V), NEW start \in Int, NEW n \in Nat, NEW step \in Int,
         \A k \in 1 .. n : start + (k - 1) * step \in 1 .. Len(t) /\ start + k * step \in 1 .. Len(t)
  PROVE  \E f \in [0 .. n -> SameLength(t, V)] :
           /\ f[0] = t /\ E!Copied(t, start, n, step) = f[n]
           /\ \A i \in 1 .. n : f[i] = [f[i - 1] EXCEPT ![start + (i - 1) * step] = f[i - 1][start + i * step]]
<1> DEFINE N == n
           W == SameLength(t, V)
           first == t
           Step(m, i) == [m EXCEPT ![start + (i - 1) * step] = m[start + i * step]]
           turn == [x \in (1 .. N) \X W |-> Step(x[2], x[1])]
           F == CHOOSE f : f = CopiedSoFar(t, start, n, step, f)
<1>1. N \in Nat /\ first \in W /\ \A i \in 1 .. N : \A m \in W : Step(m, i) \in W
  <2>1. t \in SameLength(t, V)
    BY DEF SameLength
  <2>2. ASSUME NEW i \in 1 .. n, NEW m \in SameLength(t, V) PROVE Step(m, i) \in SameLength(t, V)
    <3> DEFINE a == start + (i - 1) * step
               b == start + i * step
    <3>1. a \in 1 .. Len(t) /\ b \in 1 .. Len(t)
      OBVIOUS
    <3>2. Step(m, i) = [m EXCEPT ![a] = m[b]]
      OBVIOUS
    <3> HIDE DEF a, b, Step
    <3> QED BY <3>1, <3>2 DEF SameLength
  <2> QED BY <2>1, <2>2
<1>2. E!Copied(t, start, n, step) = F[N]
  BY DEF E!Copied, CopiedSoFar
<1>3. ASSUME NEW f PROVE CopiedSoFar(t, start, n, step, f) = [i \in 0 .. N |-> IF i = 0 THEN first ELSE Step(f[i - 1], i)]
  BY DEF CopiedSoFar
<1> HIDE DEF N, W, F, first, Step
<1>4. turn \in [(1 .. N) \X W -> W] /\ \A i \in 1 .. N : \A m \in W : turn[<< i, m >>] = Step(m, i)
  BY <1>1
<1> HIDE DEF turn
<1>5. PICK g : Defined(g, N, W, first, turn)
  BY <1>1, <1>4, Recursion, Zenon
<1>6. g = CopiedSoFar(t, start, n, step, g)
  <2>1. g \in [0 .. N -> W] /\ g[0] = first /\ \A i \in 1 .. N : g[i] = turn[<< i, g[i - 1] >>]
    BY <1>5 DEF Defined
  <2>2. \A i \in 1 .. N : g[i] = Step(g[i - 1], i)
    <3> TAKE i \in 1 .. N
    <3>1. i - 1 \in 0 .. N
      BY <1>1
    <3> QED BY <1>4, <2>1, <3>1
  <2>3. \A i \in 0 .. N : g[i] = IF i = 0 THEN first ELSE Step(g[i - 1], i)
    BY <1>1, <2>1, <2>2
  <2> DEFINE G == [i \in 0 .. N |-> IF i = 0 THEN first ELSE Step(g[i - 1], i)]
  <2>4. g = G
    BY <2>1, <2>3
  <2>5. CopiedSoFar(t, start, n, step, g) = G
    BY <1>3
  <2> QED BY <2>4, <2>5
<1>7. F = CopiedSoFar(t, start, n, step, F)
  BY <1>6 DEF F
<1> DEFINE R == [k \in 1 .. N |-> Step(F[k - 1], k)]
<1>8. F = [k \in 0 .. N |-> IF k = 0 THEN first ELSE R[k]]
  <2>1. \A k \in 0 .. N : k # 0 => k \in 1 .. N
    BY <1>1
  <2> QED BY <1>3, <1>7, <2>1
<1>9. \A k \in 1 .. N : F[k - 1] \in W => R[k] = turn[<< k, F[k - 1] >>]
  BY <1>4
<1> HIDE DEF R
<1>10. Defined(F, N, W, first, turn)
  BY <1>1, <1>4, <1>8, <1>9, RuleFollowed
<1>11. F \in [0 .. N -> W] /\ F[0] = first /\ \A i \in 1 .. N : F[i] = turn[<< i, F[i - 1] >>]
  BY <1>10 DEF Defined
<1>12. \A i \in 1 .. N : F[i] = Step(F[i - 1], i)
  <2> TAKE i \in 1 .. N
  <2>1. i - 1 \in 0 .. N
    BY <1>1
  <2> QED BY <1>4, <1>11, <2>1
<1> QED BY <1>2, <1>11, <1>12 DEF N, W, first, Step

IsText(t) == \E V : t \in Seq(V) /\ \A v \in V : E!IsParagraph(v)

LEMMA CopiedText ==
  ASSUME NEW V, NEW t \in Seq(V), NEW start \in Int, NEW n \in Nat, NEW step \in Int,
         \A k \in 1 .. n : start + (k - 1) * step \in 1 .. Len(t) /\ start + k * step \in 1 .. Len(t)
  PROVE  E!Copied(t, start, n, step) \in SameLength(t, V)
<1>1. PICK f \in [0 .. n -> SameLength(t, V)] : E!Copied(t, start, n, step) = f[n]
  BY CopiedRule, SMTT(30)
<1>2. n \in 0 .. n
  OBVIOUS
<1> QED BY <1>1, <1>2

LEMMA SeqOfMore ==
  ASSUME NEW V, NEW W, V \subseteq W, NEW s \in Seq(V) PROVE s \in Seq(W)
<1>1. Len(s) \in Nat /\ s \in [1 .. Len(s) -> W]
  OBVIOUS
<1> QED BY <1>1

LEMMA AddText ==
  ASSUME NEW t, IsText(t), NEW p, E!IsParagraph(p), NEW k \in Int, k > 0, k <= Len(t) + 1
  PROVE  IsText(E!add(t, p, k))
<1>1. PICK V : t \in Seq(V) /\ \A v \in V : E!IsParagraph(v)
  BY DEF IsText
<1> DEFINE W == V \cup {p}
           m == Len(t)
           u == Append(t, p)
           c == E!Copied(u, m + 1, m + 1 - k, -1)
<1>2. t \in Seq(W) /\ m \in Nat
  BY <1>1, SeqOfMore
<1>3. u \in Seq(W) /\ Len(u) = m + 1
  BY <1>2
<1>4. m + 1 - k \in Nat /\ m + 1 \in Int /\ -1 \in Int
  BY <1>2
<1> HIDE DEF W, u, m
<1>5. \A i \in 1 .. m + 1 - k : (m + 1) + (i - 1) * (-1) \in 1 .. Len(u) /\ (m + 1) + i * (-1) \in 1 .. Len(u)
  BY <1>2, <1>3
<1>6. c \in SameLength(u, W)
  BY <1>3, <1>4, <1>5, CopiedText
<1>7. E!add(t, p, k) = [c EXCEPT ![k] = p]
  BY DEF E!add, u, m
<1> HIDE DEF c
<1>8. c \in Seq(W) /\ p \in W
  BY <1>6 DEF SameLength, W
<1>9. [c EXCEPT ![k] = p] \in Seq(W)
  <2>1. Len(c) \in Nat /\ c \in [1 .. Len(c) -> W]
    BY <1>8
  <2>2. [c EXCEPT ![k] = p] \in [1 .. Len(c) -> W]
    BY <1>8, <2>1
  <2> QED BY <2>1, <2>2
<1>10. \A v \in W : E!IsParagraph(v)
  BY <1>1 DEF W
<1> QED BY <1>7, <1>9, <1>10 DEF IsText

LEMMA DelText ==
  ASSUME NEW t, IsText(t), NEW k \in Int, k > 0, k <= Len(t)
  PROVE  IsText(E!del(t, k))
<1>1. PICK V : t \in Seq(V) /\ \A v \in V : E!IsParagraph(v)
  BY DEF IsText
<1> DEFINE m == Len(t)
           c == E!Copied(t, k, m - k, 1)
<1>2. m \in Nat /\ m - k \in Nat /\ 1 \in Int
  BY <1>1
<1>3. \A i \in 1 .. m - k : k + (i - 1) * 1 \in 1 .. Len(t) /\ k + i * 1 \in 1 .. Len(t)
  BY <1>1
<1> HIDE DEF m
<1>4. c \in SameLength(t, V)
  BY <1>1, <1>2, <1>3, CopiedText
<1>5. E!del(t, k) = SubSeq(c, 1, Len(c) - 1)
  BY DEF E!del, E!Front, m
<1> HIDE DEF c
<1>6. c \in Seq(V) /\ Len(c) = m /\ m - 1 \in Nat
  BY <1>1, <1>4 DEF SameLength, m
<1>7. SubSeq(c, 1, Len(c) - 1) \in Seq(V)
  BY <1>6
<1> QED BY <1>1, <1>5, <1>7 DEF IsText

(* FlattenSeq puts the sequences one after the other.                          *)
LEMMA FlattenRule ==
  ASSUME NEW V, NEW ss \in Seq(Seq(V)), Len(ss) > 0
  PROVE  \E f \in [1 .. Len(ss) -> Seq(V)] :
           /\ f[1] = ss[1] /\ FlattenSeq(ss) = f[Len(ss)]
           /\ \A i \in 2 .. Len(ss) : f[i] = f[i - 1] \o ss[i]
<1>1. FlattenSeq(ss) = Glued(ss)
  BY DEF FlattenSeq, Glued, FlattenSoFar
<1>2. PICK f \in [1 .. Len(ss) -> Seq(V)] :
        /\ f[1] = ss[1] /\ Glued(ss) = f[Len(ss)]
        /\ \A i \in 2 .. Len(ss) : f[i] = f[i - 1] \o ss[i]
  BY GluedRule
<1>3. FlattenSeq(ss) = f[Len(ss)]
  BY <1>1, <1>2
<1> QED BY <1>2, <1>3

(* Sequences that are not empty, the first of them of one element each.        *)
AllSingle(ss, i) == \A j \in 1 .. i : Len(ss[j]) = 1

LEMMA FlattenLong ==
  ASSUME NEW V, NEW ss \in Seq(Seq(V)), \A i \in 1 .. Len(ss) : Len(ss[i]) >= 1
  PROVE  /\ FlattenSeq(ss) \in Seq(V) /\ Len(FlattenSeq(ss)) >= Len(ss)
         /\ \A i \in 1 .. Len(ss) : AllSingle(ss, i) => FlattenSeq(ss)[i] = ss[i][1]
<1>1. CASE Len(ss) = 0
  <2>1. FlattenSeq(ss) = ss /\ ss = << >>
    BY <1>1 DEF FlattenSeq
  <2> QED BY <1>1, <2>1
<1>2. CASE Len(ss) > 0
  <2> DEFINE N == Len(ss)
             one(i) == AllSingle(ss, i)
  <2>1. PICK f \in [1 .. N -> Seq(V)] : f[1] = ss[1] /\ FlattenSeq(ss) = f[N] /\ \A i \in 2 .. N : f[i] = f[i - 1] \o ss[i]
    BY <1>2, FlattenRule
  <2>2. N \in Nat /\ N >= 1 /\ \A i \in 1 .. N : ss[i] \in Seq(V) /\ Len(ss[i]) \in Nat /\ Len(ss[i]) >= 1
    BY <1>2
  <2> HIDE DEF N
  <2>0. ASSUME NEW i \in Nat PROVE one(i + 1) => one(i) /\ Len(ss[i + 1]) = 1
    BY DEF AllSingle
  <2> HIDE DEF one
  <2> DEFINE Good(k) == /\ Len(f[k]) >= k
                        /\ one(k) => Len(f[k]) = k
                        /\ \A i \in 1 .. k : one(i) => f[k][i] = ss[i][1]
             S == {k \in Nat : k + 1 <= N => Good(k + 1)}
  <2>3. 0 \in S
    <3>1. 1 \in 1 .. N
      BY <2>2
    <3>2. \A i \in 1 .. 1 : i = 1
      OBVIOUS
    <3>3. one(1) => Len(ss[1]) = 1
      BY <2>0
    <3>4. Good(1)
      BY <2>1, <2>2, <3>1, <3>2, <3>3
    <3> HIDE DEF Good
    <3> QED BY <3>4
  <2>4. ASSUME NEW k \in Nat, k \in S PROVE k + 1 \in S
    <3> SUFFICES ASSUME (k + 1) + 1 <= N PROVE Good((k + 1) + 1)
      OBVIOUS
    <3> DEFINE j == k + 1
    <3>1. j \in Nat /\ j \in 1 .. N /\ j + 1 \in 2 .. N /\ (j + 1) - 1 = j /\ j + 1 \in 1 .. N
      BY <2>2
    <3>2. Good(j)
      BY <2>2, <2>4
    <3>3. f[j + 1] = f[j] \o ss[j + 1]
      BY <2>1, <3>1
    <3> DEFINE a == f[j]
               b == ss[j + 1]
    <3>4. a \in Seq(V) /\ b \in Seq(V) /\ Len(b) \in Nat /\ Len(b) >= 1 /\ Len(a) \in Nat
      BY <2>1, <2>2, <3>1
    <3>8. one(j + 1) => one(j) /\ Len(b) = 1
      BY <2>0, <3>1
    <3>9. Len(a) >= j /\ (one(j) => Len(a) = j) /\ \A i \in 1 .. j : one(i) => a[i] = ss[i][1]
      BY <3>2
    <3> HIDE DEF a, b, j
    <3>5. Len(a \o b) = Len(a) + Len(b) /\ (\A i \in 1 .. Len(a) : (a \o b)[i] = a[i])
          /\ \A i \in Len(a) + 1 .. Len(a) + Len(b) : (a \o b)[i] = b[i - Len(a)]
      BY <3>4
    <3> DEFINE ab == a \o b
    <3> HIDE DEF ab
    <3>10. Len(ab) = Len(a) + Len(b)
      BY <3>5 DEF ab
    <3>11. one(j + 1) => Len(a) = j /\ Len(b) = 1
      BY <3>8, <3>9
    <3>6. Len(ab) >= j + 1 /\ (one(j + 1) => Len(ab) = j + 1)
      <4>1. \A x \in Nat : \A y \in Nat : x >= j /\ y >= 1 => x + y >= j + 1
        BY <3>1
      <4>2. Len(ab) >= j + 1
        BY <3>4, <3>9, <3>10, <4>1
      <4>3. one(j + 1) => Len(ab) = j + 1
        BY <3>10, <3>11
      <4> QED BY <4>2, <4>3
    <3>7. ASSUME NEW i \in 1 .. j + 1, one(i) PROVE ab[i] = ss[i][1]
      <4>1. CASE i \in 1 .. j
        <5>1. i \in 1 .. Len(a)
          BY <3>1, <3>4, <3>9, <4>1
        <5> QED BY <3>5, <3>7, <3>9, <4>1, <5>1 DEF ab
      <4>2. CASE i = j + 1
        <5>1. Len(a) = j /\ Len(b) = 1
          BY <3>7, <3>8, <3>9, <4>2
        <5>2. i \in Len(a) + 1 .. Len(a) + Len(b) /\ i - Len(a) = 1
          BY <3>1, <4>2, <5>1
        <5>3. ab[i] = b[i - Len(a)]
          BY <3>5, <5>2 DEF ab
        <5> QED BY <4>2, <5>2, <5>3 DEF b
      <4>3. i \in 1 .. j \/ i = j + 1
        BY <3>1
      <4> QED BY <4>1, <4>2, <4>3
    <3> QED BY <3>3, <3>6, <3>7 DEF a, b, ab, j
  <2> HIDE DEF S, Good
  <2>5. \A k \in Nat : k \in S
    BY <2>3, <2>4, Induction
  <2>6. Good(N)
    <3>1. N - 1 \in Nat /\ (N - 1) + 1 = N
      BY <2>2
    <3>2. N - 1 \in S
      BY <2>5, <3>1
    <3> QED BY <2>2, <3>1, <3>2 DEF S
  <2>7. N \in 1 .. N
    BY <2>2
  <2> QED BY <2>1, <2>6, <2>7 DEF Good, N, one
<1>3. Len(ss) \in Nat
  OBVIOUS
<1> QED BY <1>1, <1>2, <1>3

(* The pieces of a line: hits within a piece, and one piece if it is short.    *)
LEMMA PieceProper ==
  ASSUME E!EditorAssumption, NEW p, E!IsParagraph(p), NEW k \in 1 .. E!Full(p) + 1
  PROVE  E!IsParagraph(E!Piece(p, k))
<1> DEFINE m == MaxLine
           n == p.length
           q == E!Full(p)
           r == n % m
           from == (k - 1) * m
           length == IF k <= q THEN m ELSE r
           found == {j - from : j \in {h \in p.found : h >= from /\ h + PatLen <= k * m}}
<1>1. PatLen \in Nat /\ m \in Nat \ {0} /\ n \in Nat /\ \A j \in p.found : j \in Nat /\ j + PatLen <= n
  BY DEF E!EditorAssumption, E!IsParagraph
<1>2. q = n \div m
  BY DEF E!Full
<1>3. q \in Nat /\ r \in Nat /\ n = q * m + r
  <2> HIDE DEF m, n, q
  <2>1. \A x \in Nat : \A y \in Nat \ {0} : x \div y \in Nat /\ x % y \in Nat /\ x = ((x \div y) * y) + (x % y)
    OBVIOUS
  <2> QED BY <1>1, <1>2, <2>1
<1>4. E!Piece(p, k) = [id |-> p.id, length |-> length, found |-> found]
  BY DEF E!Piece
<1>5. from \in Int /\ k * m = from + m /\ (k = q + 1 => from = q * m)
  <2>1. k \in Int /\ m \in Int /\ q \in Int
    BY <1>1, <1>3
  <2> HIDE DEF m, q
  <2>2. (k - 1) * m = k * m - m /\ k * m \in Int
    BY <2>1
  <2>3. k = q + 1 => k - 1 = q
    BY <2>1
  <2> QED BY <2>1, <2>2, <2>3
<1>6. k \in Nat /\ (k <= q \/ k = q + 1)
  BY <1>3
<1> HIDE DEF m, n, q, r, from
<1>7. length \in Nat
  BY <1>1, <1>3
<1>8. ASSUME NEW h \in p.found, h >= from, h + PatLen <= k * m
      PROVE  h - from \in Nat /\ (h - from) + PatLen <= length
  <2>0. h \in Nat /\ h + PatLen <= n
    BY <1>1
  <2>1. CASE k <= q
    BY <1>1, <1>5, <1>8, <2>0, <2>1
  <2>2. CASE k = q + 1
    <3>1. ~(k <= q)
      BY <1>3, <2>2
    <3>2. from + r = n
      BY <1>3, <1>5, <2>2
    <3> QED BY <1>1, <1>3, <1>5, <1>8, <2>0, <3>1, <3>2
  <2> QED BY <1>6, <2>1, <2>2
<1>9. \A j \in found : j \in Nat /\ j + PatLen <= length
  BY <1>8
<1> HIDE DEF length, found
<1> QED BY <1>4, <1>7, <1>9 DEF E!IsParagraph

LEMMA PiecesProper ==
  ASSUME E!EditorAssumption, NEW p, E!IsParagraph(p)
  PROVE  \E V : /\ E!Pieces(p) \in Seq(V) /\ Len(E!Pieces(p)) >= 1 /\ \A v \in V : E!IsParagraph(v)
                /\ p.length < MaxLine => E!Pieces(p) = << p >>
<1>1. CASE p.length < MaxLine
  <2>1. E!Pieces(p) = << p >>
    BY <1>1 DEF E!Pieces
  <2>2. << p >> \in Seq({p}) /\ Len(<< p >>) = 1 /\ \A v \in {p} : E!IsParagraph(v)
    OBVIOUS
  <2> WITNESS {p}
  <2> QED BY <2>1, <2>2
<1>2. CASE ~(p.length < MaxLine)
  <2> DEFINE n == E!Full(p) + 1
             V == {E!Piece(p, k) : k \in 1 .. n}
             s == [k \in 1 .. n |-> E!Piece(p, k)]
  <2>1. E!Pieces(p) = s
    BY <1>2 DEF E!Pieces
  <2>2. n \in Nat /\ n >= 1
    <3>1. p.length \in Nat /\ MaxLine \in Nat \ {0}
      BY DEF E!EditorAssumption, E!IsParagraph
    <3>2. \A x \in Nat : \A y \in Nat \ {0} : x \div y \in Nat
      OBVIOUS
    <3>3. E!Full(p) \in Nat
      BY <3>1, <3>2 DEF E!Full
    <3> QED BY <3>3
  <2>3. \A v \in V : E!IsParagraph(v)
    BY PieceProper
  <2>4. \A k \in 1 .. n : E!Piece(p, k) \in V
    OBVIOUS
  <2> HIDE DEF n, V
  <2>5. s \in Seq(V) /\ Len(s) = n
    BY <2>2, <2>4
  <2> HIDE DEF s
  <2>6. E!Pieces(p) \in Seq(V) /\ Len(E!Pieces(p)) >= 1
    BY <2>1, <2>2, <2>5
  <2> WITNESS V
  <2> QED BY <1>2, <2>3, <2>6
<1> QED BY <1>1, <1>2

(* What a start reads: as many paragraphs as the file has lines, and the lines *)
(* themselves up to the first that is long.                                    *)
AllShort(f, i) == \A j \in 1 .. i : f[j].length < MaxLine

LEMMA LoadedText ==
  ASSUME E!EditorAssumption, NEW f, IsText(f)
  PROVE  /\ IsText(E!Loaded(f)) /\ Len(E!Loaded(f)) = Len(f)
         /\ \A i \in 1 .. Len(f) : AllShort(f, i) => E!Loaded(f)[i] = f[i]
<1>1. PICK U : f \in Seq(U) /\ \A v \in U : E!IsParagraph(v)
  BY DEF IsText
<1> DEFINE n == Len(f)
           ss == [i \in DOMAIN f |-> E!Pieces(f[i])]
           lines == FlattenSeq(ss)
           V == UNION {{E!Pieces(f[i])[j] : j \in 1 .. Len(E!Pieces(f[i]))} : i \in 1 .. n}
<1>2. n \in Nat /\ DOMAIN f = 1 .. n /\ \A i \in 1 .. n : E!IsParagraph(f[i])
  BY <1>1
<1>3. ASSUME NEW i \in 1 .. n
      PROVE  /\ E!Pieces(f[i]) \in Seq(V) /\ Len(E!Pieces(f[i])) >= 1
             /\ \A j \in 1 .. Len(E!Pieces(f[i])) : E!IsParagraph(E!Pieces(f[i])[j])
             /\ f[i].length < MaxLine => E!Pieces(f[i]) = << f[i] >>
  <2> DEFINE ps == E!Pieces(f[i])
  <2>1. PICK W : /\ ps \in Seq(W) /\ Len(ps) >= 1 /\ \A v \in W : E!IsParagraph(v)
                 /\ f[i].length < MaxLine => ps = << f[i] >>
    BY <1>2, PiecesProper
  <2>2. \A j \in 1 .. Len(ps) : ps[j] \in V
    OBVIOUS
  <2> HIDE DEF ps, V
  <2>3. \A j \in 1 .. Len(ps) : E!IsParagraph(ps[j])
    BY <2>1
  <2>4. ps \in Seq(V)
    <3>1. Len(ps) \in Nat /\ ps = [j \in 1 .. Len(ps) |-> ps[j]]
      BY <2>1
    <3> QED BY <2>2, <3>1
  <2> QED BY <2>1, <2>3, <2>4 DEF ps
<1>4. ASSUME NEW v \in V PROVE E!IsParagraph(v)
  BY <1>3
<1>5. ss \in Seq(Seq(V)) /\ Len(ss) = n /\ \A i \in 1 .. n : ss[i] = E!Pieces(f[i])
  <2> HIDE DEF V
  <2>1. \A i \in 1 .. n : E!Pieces(f[i]) \in Seq(V)
    BY <1>3
  <2> QED BY <1>2, <2>1
<1> HIDE DEF ss, V, n
<1>6. /\ lines \in Seq(V) /\ Len(lines) >= n
      /\ \A i \in 1 .. n : AllSingle(ss, i) => lines[i] = ss[i][1]
  <2>1. \A i \in 1 .. Len(ss) : Len(ss[i]) >= 1
    BY <1>3, <1>5
  <2>2. /\ FlattenSeq(ss) \in Seq(V) /\ Len(FlattenSeq(ss)) >= Len(ss)
        /\ \A i \in 1 .. Len(ss) : AllSingle(ss, i) => FlattenSeq(ss)[i] = ss[i][1]
    BY <1>5, <2>1, FlattenLong
  <2> QED BY <1>5, <2>2
<1>7. E!Loaded(f) = SubSeq(lines, 1, n)
  BY DEF E!Loaded, E!FlattenSeq, FlattenSeq, ss, n
<1> HIDE DEF lines
<1> DEFINE t == SubSeq(lines, 1, n)
<1>8. t \in Seq(V) /\ Len(t) = n /\ \A i \in 1 .. n : t[i] = lines[i]
  BY <1>2, <1>6
<1> HIDE DEF t
<1>9. ASSUME NEW i \in 1 .. n, AllShort(f, i) PROVE t[i] = f[i]
  <2>1. ASSUME NEW j \in 1 .. i PROVE ss[j] = << f[j] >>
    <3>1. j \in 1 .. n
      BY <1>2
    <3> QED BY <1>3, <1>5, <1>9, <3>1 DEF AllShort
  <2>2. AllSingle(ss, i)
    <3>1. \A x : Len(<< x >>) = 1
      OBVIOUS
    <3> QED BY <2>1, <3>1 DEF AllSingle
  <2>3. i \in 1 .. i
    BY <1>2
  <2>4. ss[i][1] = f[i]
    BY <2>1, <2>3
  <2> QED BY <1>6, <1>8, <2>2, <2>4
<1>10. E!Loaded(f) = t
  BY <1>7 DEF t
<1>11. IsText(t)
  BY <1>4, <1>8 DEF IsText
<1> QED BY <1>8, <1>9, <1>10, <1>11 DEF n

(* A context that is no longer than the paragraph is written once.             *)
LEMMA OneWindow ==
  ASSUME E!EditorAssumption, NEW p, E!IsParagraph(p), NEW j \in p.found,
         NEW depth \in Nat, PatLen <= depth, depth <= p.length
  PROVE  E!Windows(p, j, depth) = 1
<1> DEFINE h == E!Half(depth)
           o == E!Odd(depth)
<1>1. PatLen \in Nat /\ p.length \in Nat /\ j \in Nat /\ j + PatLen <= p.length
  BY DEF E!EditorAssumption, E!IsParagraph
<1>2. h \in Nat /\ o \in Nat /\ depth = PatLen + h + h + o
  <2> DEFINE d == depth - PatLen
  <2>1. d \in Nat /\ depth = PatLen + d
    BY <1>1
  <2>2. h = d \div 2 /\ o = d % 2
    BY DEF E!Half, E!Odd
  <2> HIDE DEF d, h, o
  <2>3. d \div 2 \in Nat /\ d % 2 \in Nat /\ d % 2 = d - 2 * (d \div 2)
    <3>1. \A x \in Int : x % 2 = x - 2 * (x \div 2)
      OBVIOUS
    <3>2. \A x \in Nat : x \div 2 \in Nat /\ x % 2 \in Nat
      OBVIOUS
    <3> QED BY <2>1, <3>1, <3>2
  <2>4. h \in Nat /\ o \in Nat /\ d = 2 * h + o
    BY <2>1, <2>2, <2>3
  <2> QED BY <1>1, <2>1, <2>4
<1> DEFINE before == j >= h + o
           behind == j + PatLen + h <= p.length
<1>3. E!Windows(p, j, depth) =
        (IF before /\ behind THEN 1 ELSE 0) + (IF ~before /\ behind THEN 1 ELSE 0)
        + (IF before /\ j + PatLen + h > p.length THEN 1 ELSE 0) + (IF depth > p.length THEN 1 ELSE 0)
  BY DEF E!Windows, E!FitsBehind
<1> HIDE DEF h, o
<1>4. before \/ behind
  BY <1>1, <1>2
<1>5. ~behind <=> j + PatLen + h > p.length
  BY <1>1, <1>2
<1>6. ~(depth > p.length)
  BY <1>1
<1> QED BY <1>3, <1>4, <1>5, <1>6

LEMMA HitsFinite == ASSUME E!EditorAssumption, IsText(text) PROVE IsFiniteSet(E!Hits)
<1> DEFINE n == Len(text)
           founds == {text[i].found : i \in 1 .. n}
<1>1. n \in Nat /\ DOMAIN text = 1 .. n /\ \A i \in 1 .. n : E!IsParagraph(text[i])
  BY DEF IsText
<1>2. IsFiniteSet(1 .. n)
  BY <1>1, FS_Interval
<1>3. IsFiniteSet(founds)
  <2> DEFINE f == [i \in 1 .. n |-> text[i].found]
  <2>1. f \in Surjection(1 .. n, founds)
    BY DEF Surjection
  <2> HIDE DEF f, founds, n
  <2> QED BY <1>2, <2>1, FS_Surjection
<1>4. ASSUME NEW i \in 1 .. n PROVE IsFiniteSet(text[i].found)
  <2>1. text[i].length \in Nat /\ PatLen \in Nat /\ \A j \in text[i].found : j \in Nat /\ j + PatLen <= text[i].length
    BY <1>1 DEF E!IsParagraph, E!EditorAssumption
  <2> DEFINE m == text[i].length
  <2>2. IsFiniteSet(0 .. m)
    <3>1. 0 \in Int /\ m \in Int
      BY <2>1
    <3> HIDE DEF m
    <3> QED BY <3>1, FS_Interval
  <2>3. text[i].found \in SUBSET (0 .. m)
    BY <2>1
  <2> QED BY <2>2, <2>3, FS_Subset
<1>5. IsFiniteSet(UNION founds)
  <2>1. \A T \in founds : IsFiniteSet(T)
    BY <1>4
  <2> QED BY <1>3, <2>1, FS_UNION
<1>6. IsFiniteSet((1 .. n) \X UNION founds)
  BY <1>2, <1>5, FS_Product
<1>7. E!Hits \in SUBSET ((1 .. n) \X UNION founds)
  BY <1>1 DEF E!Hits
<1> QED BY <1>6, <1>7, FS_Subset

LEMMA WrittenSum ==
  ASSUME IsFiniteSet(E!Hits), NEW depth
  PROVE  E!Written(depth) = SumOver([h \in E!Hits |-> E!Windows(text[h[1]], h[2], depth)], E!Hits)
<1> DEFINE S == E!Hits
           W(h) == E!Windows(text[h[1]], h[2], depth)
           f == [h \in S |-> W(h)]
           Rule(g) == [s \in SUBSET S |->
                         IF s = {} THEN 0
                         ELSE W(CHOOSE x \in s : TRUE) + g[s \ {CHOOSE x \in s : TRUE}]]
           G == CHOOSE g : g = Rule(g)
<1>1. E!Written(depth) = G[S]
  BY DEF E!Written, E!MapThenSumSet, E!MapThenFoldSet
<1> HIDE DEF W
<1>2. ASSUME NEW g PROVE Rule(g) = Adding(S, f, g)
  <2>1. \A s \in SUBSET S : s # {} => f[CHOOSE x \in s : TRUE] = W(CHOOSE x \in s : TRUE)
    OBVIOUS
  <2> HIDE DEF f
  <2> QED BY <2>1 DEF Adding, AnyOf
<1>3. PICK g : g = Adding(S, f, g)
  BY AddingExists
<1>4. g = Rule(g)
  BY <1>2, <1>3
<1>5. G = Rule(G)
  BY <1>4, Zenon
<1>6. G = Adding(S, f, G)
  BY <1>2, <1>5
<1> HIDE DEF G, f, Rule
<1>7. AddsUp(G, S, f)
  BY <1>6, AddingAdds
<1>8. SumOver(f, S) = G[S]
  BY <1>7, <1>3, SameSum
<1> QED BY <1>1, <1>8 DEF f, W

(* The file has what quit wrote, or the lines it had written when it was       *)
(* killed.                                                                     *)
IsWritten(f, w, cut) ==
  IF cut THEN \E n \in 0 .. Len(w) : f = SubSeq(w, 1, n) ELSE f = w

EditorInv ==
  /\ IsText(text) /\ IsText(eFile) /\ IsText(wrote)
  /\ torn \in BOOLEAN /\ IsWritten(eFile, wrote, torn)
  /\ extra \in [Writer -> Int]
  /\ \A c \in Writer : c \notin deep => extra[c] = 0

LEMMA FilesAreTexts == ASSUME E!EditorAssumption, NEW f \in Drafts PROVE IsText(f)
<1>1. f \in Seq(E!ToSet(f)) /\ \A i \in DOMAIN f : E!IsParagraph(f[i])
  BY DEF E!EditorAssumption
<1>2. \A v \in E!ToSet(f) : E!IsParagraph(v)
  BY <1>1 DEF E!ToSet
<1> QED BY <1>1, <1>2 DEF IsText

LEMMA NoText == IsText(<< >>)
<1> DEFINE V == {p \in {0} : FALSE}
<1>1. \A v \in V : E!IsParagraph(v)
  OBVIOUS
<1> HIDE DEF V
<1>2. << >> \in Seq(V)
  OBVIOUS
<1> QED BY <1>1, <1>2 DEF IsText

(* What search writes is as much as its client reads, but for long contexts.   *)
LEMMA SearchInStep ==
  ASSUME E!EditorAssumption, EditorInv, NEW depth \in Nat, PatLen <= depth,
         \A h \in E!Hits : ~(depth > text[h[1]].length)
  PROVE  E!Written(depth) - Cardinality(E!Hits) = 0
<1> DEFINE f == [h \in E!Hits |-> E!Windows(text[h[1]], h[2], depth)]
<1>1. IsFiniteSet(E!Hits)
  BY HitsFinite DEF EditorInv
<1>2. ASSUME NEW h \in E!Hits PROVE f[h] = 1
  <2>1. h[1] \in DOMAIN text /\ h[2] \in text[h[1]].found
    BY DEF E!Hits
  <2>2. E!IsParagraph(text[h[1]])
    BY <2>1 DEF EditorInv, IsText
  <2>3. depth <= text[h[1]].length
    BY <2>2 DEF E!IsParagraph
  <2> QED BY <2>1, <2>2, <2>3, OneWindow
<1>3. E!Written(depth) = SumOver(f, E!Hits)
  BY <1>1, WrittenSum
<1> HIDE DEF f
<1>4. SumOver(f, E!Hits) = Cardinality(E!Hits)
  BY <1>1, <1>2, SumOfOnes
<1>5. Cardinality(E!Hits) \in Nat
  BY <1>1, FS_CardinalityType
<1> QED BY <1>3, <1>4, <1>5

LEMMA FirstLines ==
  ASSUME NEW w, IsText(w), NEW n \in 0 .. Len(w), NEW f, f = SubSeq(w, 1, n)
  PROVE  IsText(f) /\ Len(f) = n /\ \A i \in 1 .. n : f[i] = w[i]
<1>1. PICK V : w \in Seq(V) /\ \A v \in V : E!IsParagraph(v)
  BY DEF IsText
<1>2. f \in Seq(V) /\ Len(f) = n /\ \A i \in 1 .. n : f[i] = w[i]
  BY <1>1
<1> QED BY <1>1, <1>2 DEF IsText

LEMMA EditorInitInv == ASSUME E!EditorAssumption PROVE E!Init => EditorInv
<1> SUFFICES ASSUME E!Init PROVE EditorInv
  OBVIOUS
<1>1. eFile \in Drafts /\ text = << >> /\ wrote = eFile /\ torn = FALSE /\ extra = [c \in Writer |-> 0]
  BY DEF E!Init
<1>2. IsText(text) /\ IsText(eFile) /\ IsText(wrote)
  BY <1>1, FilesAreTexts, NoText
<1>3. IsWritten(eFile, wrote, torn)
  BY <1>1 DEF IsWritten
<1>4. extra = [c \in Writer |-> 0]
  BY <1>1
<1>5. extra \in [Writer -> Int] /\ \A c \in Writer : extra[c] = 0
  BY <1>4
<1>6. torn \in BOOLEAN
  BY <1>1
<1> QED BY <1>2, <1>3, <1>5, <1>6 DEF EditorInv

LEMMA EditorNextInv ==
  ASSUME E!EditorAssumption, EditorInv, [E!Next]_(E!vars)
  PROVE  EditorInv'
<1>1. CASE UNCHANGED << text, eFile, extra, deep, wrote, torn >>
  BY <1>1 DEF EditorInv, IsText, IsWritten
<1>2. ASSUME text' = << >>, extra' = [c \in Writer |-> 0], IsText(eFile'), IsText(wrote'), torn' \in BOOLEAN,
             IsWritten(eFile', wrote', torn')
      PROVE  EditorInv'
  BY <1>2, NoText DEF EditorInv
<1>3. ASSUME E!Start PROVE EditorInv'
  <2>1. text' = E!Loaded(eFile) /\ UNCHANGED << eFile, extra, deep, wrote, torn >>
    BY <1>3 DEF E!Start
  <2>2. IsText(text')
    BY <2>1, LoadedText DEF EditorInv
  <2> QED BY <2>1, <2>2 DEF EditorInv
<1>4. ASSUME E!Killed PROVE EditorInv'
  <2>1. text' = << >> /\ extra' = [c \in Writer |-> 0] /\ UNCHANGED << eFile, wrote, torn >>
    BY <1>4 DEF E!Killed, E!Gone
  <2>2. IsText(eFile') /\ IsText(wrote') /\ torn' \in BOOLEAN /\ IsWritten(eFile', wrote', torn')
    BY <2>1 DEF EditorInv
  <2> QED BY <1>2, <2>1, <2>2
<1>5. ASSUME NEW c \in Writer, E!Leave(c) PROVE EditorInv'
  <2>1. UNCHANGED << text, eFile, wrote, torn >> /\ extra' = [extra EXCEPT ![c] = 0] /\ deep' = deep \ {c}
    BY <1>5 DEF E!Leave
  <2>2. \A d \in Writer : d \notin deep' => extra'[d] = 0
    BY <2>1 DEF EditorInv
  <2> QED BY <2>1, <2>2 DEF EditorInv
<1>6. ASSUME NEW c \in Writer, E!Request(c) PROVE EditorInv'
  <2>1. ASSUME IsText(text'), E!Answered PROVE EditorInv'
    BY <2>1 DEF E!Answered, EditorInv
  <2>2. CASE E!Show(c)
    BY <2>1, <2>2 DEF E!Show, EditorInv
  <2>3. CASE E!Quit(c)
    <3>1. /\ eFile' = text /\ wrote' = text /\ torn' = FALSE
          /\ text' = << >> /\ extra' = [d \in Writer |-> 0]
      BY <2>3 DEF E!Quit, E!Writes
    <3>2. IsText(text) /\ IsWritten(eFile', wrote', torn')
      BY <3>1 DEF EditorInv, IsWritten
    <3> QED BY <1>2, <3>1, <3>2
  <2>7. ASSUME NEW lines \in 0 .. Len(text), E!KilledInQuit(c, lines) PROVE EditorInv'
    <3>1. /\ eFile' = SubSeq(text, 1, lines) /\ wrote' = text /\ torn' = TRUE
          /\ text' = << >> /\ extra' = [d \in Writer |-> 0]
      BY <2>7 DEF E!KilledInQuit, E!Writes
    <3>2. IsText(text) /\ IsText(eFile')
      BY <3>1, FirstLines DEF EditorInv
    <3>3. IsWritten(eFile', wrote', torn')
      BY <3>1 DEF IsWritten
    <3> QED BY <1>2, <3>1, <3>2, <3>3
  <2>4. ASSUME NEW n \in Numbers, E!Delete(c, n) PROVE EditorInv'
    <3>1. E!Answered /\ n \in Int /\ text' = IF n <= 0 \/ n > Len(text) THEN text ELSE E!del(text, n)
      BY <2>4 DEF E!Delete, E!EditorAssumption
    <3>2. IsText(text) /\ Len(text) \in Int
      BY DEF EditorInv, IsText
    <3>3. IsText(text')
      BY <3>1, <3>2, DelText
    <3> QED BY <2>1, <3>1, <3>3
  <2>5. ASSUME NEW n \in Numbers, NEW p \in Paragraph, E!Add(c, n, p) PROVE EditorInv'
    <3>1. /\ E!Answered /\ n \in Int /\ E!IsParagraph(p)
          /\ text' = IF n <= 0 \/ n > Len(text) + 1 THEN text ELSE E!add(text, p, n)
      BY <2>5 DEF E!Add, E!EditorAssumption
    <3>2. IsText(text) /\ Len(text) \in Int
      BY DEF EditorInv, IsText
    <3>3. IsText(text')
      BY <3>1, <3>2, AddText
    <3> QED BY <2>1, <3>1, <3>3
  <2>6. ASSUME NEW depth \in Depths, E!Search(c, depth) PROVE EditorInv'
    <3> DEFINE n == IF depth < PatLen THEN 0 ELSE E!Written(depth) - Cardinality(E!Hits)
               long == depth >= PatLen /\ \E h \in E!Hits : depth > text[h[1]].length
    <3>1. /\ UNCHANGED << text, eFile, wrote, torn >> /\ extra' = [extra EXCEPT ![c] = n]
          /\ deep' = IF long THEN deep \cup {c} ELSE deep
      <4>1. UNCHANGED << text, eFile, wrote, torn >>
        BY <2>6 DEF E!Search
      <4>2. extra' = [extra EXCEPT ![c] = n]
        <5>1. E!Cardinality(E!Hits) = Cardinality(E!Hits)
          BY DEF E!Cardinality, Cardinality
        <5> QED BY <2>6, <5>1 DEF E!Search
      <4>3. deep' = IF long THEN deep \cup {c} ELSE deep
        BY <2>6, Zenon DEF E!Search
      <4> QED BY <4>1, <4>2, <4>3
    <3>2. depth \in Nat /\ PatLen \in Nat
      BY DEF E!EditorAssumption
    <3>3. ~long => n = 0
      BY <3>2, SearchInStep
    <3>4. n \in Int
      <4>1. IsFiniteSet(E!Hits)
        BY HitsFinite DEF EditorInv
      <4>2. Cardinality(E!Hits) \in Nat
        BY <4>1, FS_CardinalityType
      <4>3. E!Written(depth) \in Nat
        <5> DEFINE f == [h \in E!Hits |-> E!Windows(text[h[1]], h[2], depth)]
        <5>1. \A h \in E!Hits : f[h] \in Nat
          BY DEF E!Windows
        <5>2. E!Written(depth) = SumOver(f, E!Hits)
          BY <4>1, WrittenSum
        <5> HIDE DEF f
        <5> QED BY <4>1, <5>1, <5>2, SumRule
      <4> QED BY <4>2, <4>3
    <3> HIDE DEF n, long
    <3>5. extra' \in [Writer -> Int]
      BY <3>1, <3>4 DEF EditorInv
    <3>6. \A d \in Writer : d \notin deep' => extra'[d] = 0
      BY <3>1, <3>3 DEF EditorInv
    <3> QED BY <3>1, <3>5, <3>6 DEF EditorInv
  <2> QED BY <1>6, <2>2, <2>3, <2>4, <2>5, <2>6, <2>7 DEF E!Request
<1>7. ASSUME NEW c \in Writer, E!Connect(c) PROVE UNCHANGED << text, eFile, extra, deep, wrote, torn >>
  BY <1>7 DEF E!Connect
<1>8. UNCHANGED E!vars => UNCHANGED << text, eFile, extra, deep, wrote, torn >>
  BY DEF E!vars
<1> QED BY <1>1, <1>3, <1>4, <1>5, <1>6, <1>7, <1>8 DEF E!Next

LEMMA EditorInvariant == Spec => []EditorInv
<1>1. E!EditorAssumption
  BY SmallAssumption
<1>2. E!Init => EditorInv
  BY <1>1, EditorInitInv
<1>3. EditorInv /\ [E!Next]_(E!vars) => EditorInv'
  BY <1>1, EditorNextInv
<1> QED BY <1>2, <1>3, RunsAlone, PTL DEF E!Spec

(* Whatever is searched for in whatever text, the client reads as many windows *)
(* as were written, unless the context was longer than a paragraph.            *)
THEOREM EditorInStep == Spec => []InStep
<1>1. EditorInv => InStep
  BY DEF EditorInv, InStep, E!InStep
<1> QED BY <1>1, EditorInvariant, PTL

(* A start after quit reads as many paragraphs as quit wrote, and after a quit *)
(* cut short no more: the same ones up to the first long line.                 *)
THEOREM EditorQuitComesBack == Spec => QuitComesBack
<1> DEFINE A == E!Start =>
                  /\ IF torn THEN Len(text') <= Len(wrote) ELSE Len(text') = Len(wrote)
                  /\ \A i \in DOMAIN text' :
                       (\A j \in 1 .. i : wrote[j].length < MaxLine) => text'[i] = wrote[i]
<1>1. EditorInv => [A]_(E!vars)
  <2> SUFFICES ASSUME EditorInv, E!Start
               PROVE  /\ IF torn THEN Len(text') <= Len(wrote) ELSE Len(text') = Len(wrote)
                      /\ \A i \in DOMAIN text' :
                           (\A j \in 1 .. i : wrote[j].length < MaxLine) => text'[i] = wrote[i]
    OBVIOUS
  <2> DEFINE n == Len(eFile)
  <2>1. text' = E!Loaded(eFile) /\ IsText(eFile) /\ IsText(wrote) /\ E!EditorAssumption /\ torn \in BOOLEAN
    BY SmallAssumption DEF E!Start, EditorInv
  <2>2. /\ IsText(text') /\ Len(text') = n
        /\ \A i \in 1 .. n : AllShort(eFile, i) => text'[i] = eFile[i]
    BY <2>1, LoadedText
  <2>3. Len(wrote) \in Nat /\ n \in Nat /\ DOMAIN text' = 1 .. n
    BY <2>1, <2>2 DEF IsText
  <2>4. /\ IF torn THEN n <= Len(wrote) ELSE n = Len(wrote)
        /\ \A i \in 1 .. n : eFile[i] = wrote[i]
    <3>1. CASE torn
      <4>1. PICK m \in 0 .. Len(wrote) : eFile = SubSeq(wrote, 1, m)
        BY <3>1 DEF EditorInv, IsWritten
      <4>2. n = m /\ \A i \in 1 .. m : eFile[i] = wrote[i]
        BY <2>1, <4>1, FirstLines
      <4> QED BY <2>3, <3>1, <4>2
    <3>2. CASE ~torn
      BY <3>2 DEF EditorInv, IsWritten
    <3> QED BY <3>1, <3>2
  <2> HIDE DEF n
  <2>5. ASSUME NEW i \in DOMAIN text', \A j \in 1 .. i : wrote[j].length < MaxLine PROVE text'[i] = wrote[i]
    <3>1. i \in 1 .. n /\ \A j \in 1 .. i : j \in 1 .. n
      BY <2>3
    <3>2. AllShort(eFile, i)
      BY <2>4, <2>5, <3>1 DEF AllShort
    <3> QED BY <2>2, <2>4, <3>1, <3>2
  <2> QED BY <2>2, <2>4, <2>5
<1>2. (Spec => []EditorInv) => (Spec => [][A]_(E!vars))
  BY <1>1, PTL
<1> QED BY <1>2, EditorInvariant DEF QuitComesBack, E!QuitComesBack

-------------------------------------------------------------------------------
(* The student buffers: one group's list.                                      *)
Kept(list, keeps) == {j \in 1 .. Len(list) : list[j] \in keeps}

LEMMA InsertType ==
  ASSUME NEW list \in Seq(Student), NEW s \in Student
  PROVE  B!Insert(list, s) \in Seq(Student)
<1> DEFINE I == {i \in 1 .. Len(list) : list[i].rating >= s.rating}
           i == B!SelectInSeq(list, LAMBDA t : t.rating >= s.rating)
<1>1. i = IF I # {} THEN Min(I) ELSE 0
  BY DEF B!SelectInSeq, B!Min, Min
<1>2. I \in SUBSET Nat /\ I \subseteq 1 .. Len(list)
  OBVIOUS
<1> HIDE DEF I
<1>3. i = 0 \/ i \in 1 .. Len(list)
  BY <1>1, <1>2, MinOfNaturals
<1>4. B!Insert(list, s) = IF i = 0 THEN Append(list, s) ELSE SubSeq(list, 1, i - 1) \o << s >> \o SubSeq(list, i, Len(list))
  BY DEF B!Insert, B!InsertAt
<1> HIDE DEF i
<1>5. CASE i = 0
  BY <1>4, <1>5
<1>6. CASE i \in 1 .. Len(list) /\ i # 0
  <2> DEFINE a == SubSeq(list, 1, i - 1)
             b == << s >>
             c == SubSeq(list, i, Len(list))
  <2>1. a \in Seq(Student) /\ b \in Seq(Student) /\ c \in Seq(Student)
    BY <1>6
  <2>2. B!Insert(list, s) = a \o b \o c
    BY <1>4, <1>6
  <2> HIDE DEF a, b, c
  <2> QED BY <2>1, <2>2
<1> QED BY <1>3, <1>5, <1>6

(* remove erases the first run of students equal to s.                         *)
LEMMA RemovedRule ==
  ASSUME NEW list \in Seq(Student), NEW k \in 1 .. Len(list), \A j \in 1 .. k - 1 : list[j] # list[k]
  PROVE  /\ B!First(list, list[k]) = k
         /\ \E e \in k .. Len(list) :
              /\ \A j \in k .. e : list[j] = list[k]
              /\ B!Removed(list, list[k]) = SubSeq(list, 1, k - 1) \o SubSeq(list, e + 1, Len(list))
<1> DEFINE m == Len(list)
           s == list[k]
           I == {j \in 1 .. m : list[j] = s}
           R == {e \in k .. m : \A j \in k .. e : list[j] = s}
<1>1. m \in Nat /\ k \in Nat /\ 1 <= k /\ k <= m
  OBVIOUS
<1>2. I \in SUBSET Nat /\ k \in I
  OBVIOUS
<1>3. Min(I) = k
  <2>1. Min(I) \in I /\ \A j \in I : Min(I) <= j
    BY <1>2, MinOfNaturals
  <2>2. \A j \in I : j \in Nat /\ j >= 1 /\ ~(j < k)
    OBVIOUS
  <2> DEFINE least == Min(I)
  <2>3. least \in I /\ least <= k
    BY <1>2, <2>1
  <2> HIDE DEF least
  <2>4. least \in Nat /\ ~(least < k)
    BY <2>2, <2>3
  <2>5. least = k
    BY <1>1, <2>3, <2>4
  <2> QED BY <2>5 DEF least
<1>4. B!First(list, s) = k
  <2>1. B!First(list, s) = IF I # {} THEN Min(I) ELSE 0
    BY DEF B!First, B!SelectInSeq, B!Min, Min
  <2> QED BY <1>2, <1>3, <2>1
<1>5. R \in SUBSET (0 .. m) /\ R # {}
  <2>1. \A j \in k .. k : j = k
    OBVIOUS
  <2>2. k \in R
    BY <1>1, <2>1
  <2> QED BY <1>1, <2>2
<1> DEFINE e == Max(R)
<1>6. e \in R
  <2> HIDE DEF R, m
  <2> QED BY <1>1, <1>5, MaxOfNaturals
<1>7. B!RunEnd(list, k) = e
  BY DEF B!RunEnd, B!Max, Max
<1> HIDE DEF e
<1>8. B!Removed(list, s) = SubSeq(list, 1, k - 1) \o SubSeq(list, e + 1, m)
  <2>1. B!Removed(list, s) =
          IF B!First(list, s) = 0 THEN list
          ELSE SubSeq(list, 1, B!First(list, s) - 1) \o SubSeq(list, B!RunEnd(list, B!First(list, s)) + 1, Len(list))
    BY DEF B!Removed
  <2> HIDE DEF s
  <2>2. B!Removed(list, s) =
          IF k = 0 THEN list ELSE SubSeq(list, 1, k - 1) \o SubSeq(list, B!RunEnd(list, k) + 1, Len(list))
    BY <1>4, <2>1, Zenon
  <2>3. k # 0
    BY <1>1
  <2> QED BY <1>7, <2>2, <2>3
<1> QED BY <1>4, <1>6, <1>8

LEMMA RemovedType ==
  ASSUME NEW list \in Seq(Student), NEW s
  PROVE  B!Removed(list, s) \in Seq(Student)
<1> DEFINE I == {j \in 1 .. Len(list) : list[j] = s}
<1>1. B!First(list, s) = IF I # {} THEN Min(I) ELSE 0
  BY DEF B!First, B!SelectInSeq, B!Min, Min
<1>2. CASE I = {}
  BY <1>1, <1>2 DEF B!Removed
<1>3. CASE I # {}
  <2> DEFINE k == Min(I)
  <2>1. I \in SUBSET Nat
    OBVIOUS
  <2>2. k \in I /\ \A j \in I : k <= j
    BY <1>3, <2>1, MinOfNaturals
  <2> HIDE DEF k
  <2>3. k \in 1 .. Len(list) /\ list[k] = s /\ k \in Nat
    BY <2>2
  <2>4. \A j \in 1 .. k - 1 : list[j] # list[k]
    BY <2>2, <2>3
  <2>5. PICK e \in k .. Len(list) : B!Removed(list, s) = SubSeq(list, 1, k - 1) \o SubSeq(list, e + 1, Len(list))
    BY <2>3, <2>4, RemovedRule
  <2>6. e \in Nat /\ 1 <= k /\ k <= e + 1 /\ e <= Len(list)
    BY <2>3
  <2> QED BY <2>3, <2>5, <2>6, CutOut
<1> QED BY <1>2, <1>3

(* A place in the loop of a select: what is before it is kept.                 *)
Places(keeps) ==
  {at \in [list : Seq(Student), i : Nat] :
     1 <= at.i /\ at.i <= Len(at.list) + 1 /\ \A j \in 1 .. at.i - 1 : at.list[j] \in keeps}

(* p is what a select is to leave of the list.                                 *)
Leaves(list, keeps, p) == \E h : Tells(h, list, Kept(list, keeps), p)

(* A turn comes nearer to the end and loses nothing that is to be kept.        *)
LEMMA TurnKeeps ==
  ASSUME NEW keeps, NEW at \in Places(keeps)
  PROVE  LET next == B!Turn(at, keeps)
         IN /\ next \in Places(keeps)
            /\ at.i <= Len(at.list) => Len(next.list) - next.i < Len(at.list) - at.i
            /\ ~(at.i <= Len(at.list)) => next = at
            /\ \A p : Len(p) \in Nat /\ Leaves(at.list, keeps, p) => Leaves(next.list, keeps, p)
<1> DEFINE list == at.list
           i == at.i
           m == Len(list)
           next == B!Turn(at, keeps)
<1>1. /\ list \in Seq(Student) /\ m \in Nat /\ i \in Nat /\ 1 <= i /\ i <= m + 1
      /\ \A j \in 1 .. i - 1 : list[j] \in keeps
      /\ at \in [list : Seq(Student), i : Nat]
  BY DEF Places
<1>2. CASE i > m
  BY <1>1, <1>2 DEF B!Turn
<1>3. CASE ~(i > m) /\ list[i] \in keeps
  <2>1. next = [at EXCEPT !.i = i + 1]
    BY <1>3 DEF B!Turn
  <2>2. next.list = list /\ next.i = i + 1 /\ next \in [list : Seq(Student), i : Nat]
    BY <1>1, <2>1
  <2> HIDE DEF next
  <2>3. \A j \in 1 .. i : list[j] \in keeps
    BY <1>1, <1>3
  <2>4. next \in Places(keeps)
    BY <1>1, <1>3, <2>2, <2>3 DEF Places
  <2> QED BY <1>1, <1>3, <2>2, <2>4 DEF next
<1>4. CASE ~(i > m) /\ list[i] \notin keeps
  <2>1. next = [list |-> B!Removed(list, list[i]), i |-> B!First(list, list[i])]
    BY <1>4 DEF B!Turn
  <2> HIDE DEF next
  <2>2. i \in 1 .. m /\ \A j \in 1 .. i - 1 : list[j] # list[i]
    BY <1>1, <1>4
  <2>3. PICK e \in i .. m :
          /\ \A j \in i .. e : list[j] = list[i]
          /\ B!Removed(list, list[i]) = SubSeq(list, 1, i - 1) \o SubSeq(list, e + 1, m)
    BY <1>1, <2>2, RemovedRule
  <2>4. B!First(list, list[i]) = i
    BY <1>1, <2>2, RemovedRule
  <2> DEFINE t == B!Removed(list, list[i])
             d == e - (i - 1)
  <2>5. e \in Nat /\ i <= e /\ e <= m /\ d \in Nat /\ d >= 1
    BY <1>1
  <2>6. t \in Seq(Student) /\ Len(t) = m - d /\ \A j \in 1 .. Len(t) : t[j] = IF j < i THEN list[j] ELSE list[j + d]
    <3>1. i <= e + 1
      BY <1>1, <2>5
    <3> DEFINE u == SubSeq(list, 1, i - 1) \o SubSeq(list, e + 1, Len(list))
    <3>2. t = u
      BY <2>3
    <3> HIDE DEF t
    <3>3. /\ u \in Seq(Student) /\ Len(u) = Len(list) - (e - (i - 1))
          /\ \A j \in 1 .. Len(u) : u[j] = IF j < i THEN list[j] ELSE list[j + (e - (i - 1))]
      <4> HIDE DEF list, i
      <4> QED BY <1>1, <2>5, <3>1, CutOut, ZenonT(40)
    <3> QED BY <3>2, <3>3
  <2>7. next.list = t /\ next.i = i
    BY <2>1, <2>4
  <2> HIDE DEF t, list, i, m, d
  <2>8. i <= Len(t) + 1 /\ Len(t) - i < m - i
    BY <1>1, <2>5, <2>6 DEF d
  <2>9. \A j \in 1 .. i - 1 : t[j] \in keeps
    BY <1>1, <2>6, <2>8
  <2>10. next \in Places(keeps)
    <3>1. next \in [list : Seq(Student), i : Nat]
      BY <1>1, <2>1, <2>4, <2>6 DEF t
    <3> QED BY <1>1, <2>7, <2>8, <2>9, <3>1 DEF Places
  <2>11. ASSUME NEW p, Len(p) \in Nat, Leaves(list, keeps, p) PROVE Leaves(t, keeps, p)
    <3> DEFINE K == Kept(list, keeps)
               L == Kept(t, keeps)
               n == Len(p)
    <3>1. PICK h : Tells(h, list, K, p)
      BY <2>11 DEF Leaves
    <3> DEFINE g == [x \in 1 .. n |-> IF h[x] < i THEN h[x] ELSE h[x] - d]
    <3>2. ASSUME NEW k \in K PROVE k \in 1 .. m /\ list[k] \in keeps /\ (k < i \/ k > e)
      <4>1. k \in 1 .. m /\ list[k] \in keeps
        BY DEF Kept, m
      <4>2. ~(i <= k /\ k <= e)
        BY <1>4, <2>3, <4>1
      <4> QED BY <1>1, <2>5, <4>1, <4>2
    <3>3. /\ \A x \in 1 .. n : h[x] \in K /\ p[x] = list[h[x]]
          /\ \A x, y \in 1 .. n : x < y => h[x] < h[y]
          /\ \A k \in K : \E x \in 1 .. n : h[x] = k
      BY <3>1 DEF Tells
    <3>4. ASSUME NEW x \in 1 .. n PROVE g[x] \in L /\ p[x] = t[g[x]]
      <4> DEFINE k == h[x]
      <4>1. k \in 1 .. m /\ list[k] \in keeps /\ (k < i \/ k > e) /\ p[x] = list[k]
        BY <3>2, <3>3
      <4>2. g[x] = IF k < i THEN k ELSE k - d
        OBVIOUS
      <4> HIDE DEF k, g
      <4>3. g[x] \in 1 .. Len(t) /\ t[g[x]] = list[k]
        <5>1. CASE k < i
          BY <1>1, <2>5, <2>6, <2>8, <4>1, <4>2, <5>1, SMTT(30)
        <5>2. CASE ~(k < i)
          <6>1. k - d \in 1 .. Len(t) /\ ~(k - d < i) /\ (k - d) + d = k
            BY <1>1, <2>5, <2>6, <4>1, <5>2 DEF d
          <6> QED BY <2>6, <4>2, <5>2, <6>1
        <5> QED BY <5>1, <5>2
      <4> QED BY <4>1, <4>3 DEF Kept
    <3>5. ASSUME NEW x \in 1 .. n, NEW y \in 1 .. n, x < y PROVE g[x] < g[y]
      <4>1. /\ h[x] \in 1 .. m /\ h[y] \in 1 .. m /\ h[x] < h[y]
            /\ (h[x] < i \/ h[x] > e) /\ (h[y] < i \/ h[y] > e)
        BY <3>2, <3>3, <3>5
      <4>2. g[x] = (IF h[x] < i THEN h[x] ELSE h[x] - d) /\ g[y] = (IF h[y] < i THEN h[y] ELSE h[y] - d)
        OBVIOUS
      <4> HIDE DEF g
      <4> QED BY <1>1, <2>5, <4>1, <4>2 DEF d
    <3>6. ASSUME NEW l \in L PROVE \E x \in 1 .. n : g[x] = l
      <4> DEFINE k == IF l < i THEN l ELSE l + d
      <4>1. l \in 1 .. Len(t) /\ t[l] \in keeps
        BY DEF Kept
      <4>2. k \in 1 .. m /\ t[l] = list[k]
        BY <1>1, <2>5, <2>6, <4>1
      <4>3. k \in K
        BY <4>1, <4>2 DEF Kept, m
      <4>4. PICK x \in 1 .. n : h[x] = k
        BY <3>3, <4>3
      <4>5. g[x] = IF k < i THEN k ELSE k - d
        BY <4>4
      <4> HIDE DEF g
      <4>6. g[x] = l
        BY <1>1, <2>5, <4>1, <4>5
      <4> QED BY <4>6
    <3>7. g = [x \in 1 .. n |-> g[x]]
      OBVIOUS
    <3> HIDE DEF g, K, L
    <3>8. Tells(g, t, L, p)
      BY <3>4, <3>5, <3>6, <3>7 DEF Tells
    <3> QED BY <3>8 DEF Leaves, L
  <2>12. i <= m /\ Len(next.list) - next.i < m - i
    BY <1>1, <1>4, <2>7, <2>8
  <2>13. \A p : Len(p) \in Nat /\ Leaves(list, keeps, p) => Leaves(next.list, keeps, p)
    BY <2>7, <2>11
  <2> QED BY <2>10, <2>12, <2>13 DEF next, list, i, m
<1> QED BY <1>2, <1>3, <1>4

SelectedSoFar(list, keeps, f) ==
  [n \in 0 .. Len(list) |-> IF n = 0 THEN [list |-> list, i |-> 1] ELSE B!Turn(f[n - 1], keeps)]

LEMMA SelectedRule ==
  ASSUME NEW keeps, NEW list \in Seq(Student)
  PROVE  \E f \in [0 .. Len(list) -> Places(keeps)] :
           /\ f[0] = [list |-> list, i |-> 1] /\ B!Selected(list, keeps) = f[Len(list)].list
           /\ \A i \in 1 .. Len(list) : f[i] = B!Turn(f[i - 1], keeps)
<1> DEFINE N == Len(list)
           W == Places(keeps)
           first == [list |-> list, i |-> 1]
           Step(m, i) == B!Turn(m, keeps)
           step == [x \in (1 .. N) \X W |-> Step(x[2], x[1])]
           F == CHOOSE f : f = SelectedSoFar(list, keeps, f)
<1>1. N \in Nat /\ first \in W /\ \A i \in 1 .. N : \A m \in W : Step(m, i) \in W
  <2>1. [list |-> list, i |-> 1] \in Places(keeps)
    BY DEF Places
  <2> QED BY <2>1, TurnKeeps
<1>2. B!Selected(list, keeps) = F[N].list
  BY DEF B!Selected, SelectedSoFar
<1>3. ASSUME NEW f PROVE SelectedSoFar(list, keeps, f) = [n \in 0 .. N |-> IF n = 0 THEN first ELSE Step(f[n - 1], n)]
  BY DEF SelectedSoFar
<1> HIDE DEF N, W, F, first, Step
<1>4. step \in [(1 .. N) \X W -> W] /\ \A i \in 1 .. N : \A m \in W : step[<< i, m >>] = Step(m, i)
  BY <1>1
<1> HIDE DEF step
<1>5. PICK g : Defined(g, N, W, first, step)
  BY <1>1, <1>4, Recursion, Zenon
<1>6. g = SelectedSoFar(list, keeps, g)
  <2>1. g \in [0 .. N -> W] /\ g[0] = first /\ \A i \in 1 .. N : g[i] = step[<< i, g[i - 1] >>]
    BY <1>5 DEF Defined
  <2>2. \A i \in 1 .. N : g[i] = Step(g[i - 1], i)
    <3> TAKE i \in 1 .. N
    <3>1. i - 1 \in 0 .. N
      BY <1>1
    <3> QED BY <1>4, <2>1, <3>1
  <2>3. \A i \in 0 .. N : g[i] = IF i = 0 THEN first ELSE Step(g[i - 1], i)
    BY <1>1, <2>1, <2>2
  <2> DEFINE G == [n \in 0 .. N |-> IF n = 0 THEN first ELSE Step(g[n - 1], n)]
  <2>4. g = G
    BY <2>1, <2>3
  <2>5. SelectedSoFar(list, keeps, g) = G
    BY <1>3
  <2> QED BY <2>4, <2>5
<1>7. F = SelectedSoFar(list, keeps, F)
  BY <1>6 DEF F
<1> DEFINE R == [k \in 1 .. N |-> Step(F[k - 1], k)]
<1>8. F = [k \in 0 .. N |-> IF k = 0 THEN first ELSE R[k]]
  <2>1. \A k \in 0 .. N : k # 0 => k \in 1 .. N
    BY <1>1
  <2> QED BY <1>3, <1>7, <2>1
<1>9. \A k \in 1 .. N : F[k - 1] \in W => R[k] = step[<< k, F[k - 1] >>]
  BY <1>4
<1> HIDE DEF R
<1>10. Defined(F, N, W, first, step)
  BY <1>1, <1>4, <1>8, <1>9, RuleFollowed
<1>11. F \in [0 .. N -> W] /\ F[0] = first /\ \A i \in 1 .. N : F[i] = step[<< i, F[i - 1] >>]
  BY <1>10 DEF Defined
<1>12. \A i \in 1 .. N : F[i] = Step(F[i - 1], i)
  <2> TAKE i \in 1 .. N
  <2>1. i - 1 \in 0 .. N
    BY <1>1
  <2> QED BY <1>4, <1>11, <2>1
<1> QED BY <1>2, <1>11, <1>12 DEF N, W, first, Step

LEMMA AllLeft ==
  ASSUME NEW list \in Seq(Student), NEW keeps, \A j \in 1 .. Len(list) : list[j] \in keeps,
         NEW p \in Seq(Student), Leaves(list, keeps, p)
  PROVE  list = p
<1> DEFINE n == Len(list)
           m == Len(p)
           id == [i \in 1 .. n |-> i]
<1>1. PICK h : Tells(h, list, Kept(list, keeps), p)
  BY DEF Leaves
<1>2. Kept(list, keeps) = 1 .. n
  BY DEF Kept
<1>3. n \in Nat /\ m \in Nat /\ id \in [1 .. n -> Nat] /\ \A i \in 1 .. n : id[i] = i
  OBVIOUS
<1>4. /\ h \in [1 .. m -> 1 .. n] /\ (\A i \in 1 .. m : p[i] = list[h[i]])
      /\ (\A i, j \in 1 .. m : i < j => h[i] < h[j])
      /\ \A k \in 1 .. n : \E i \in 1 .. m : h[i] = k
  BY <1>1, <1>2 DEF Tells
<1> HIDE DEF n, m, id
<1>5. h \in [1 .. m -> Nat] /\ RisesTo(h, m) /\ RisesTo(id, n)
  BY <1>3, <1>4 DEF RisesTo
<1>6. Among(h, m, id, n) /\ Among(id, n, h, m)
  <2>1. \A i \in 1 .. m : \E j \in 1 .. n : h[i] = id[j]
    <3> TAKE i \in 1 .. m
    <3>1. h[i] \in 1 .. n
      BY <1>4
    <3> QED BY <1>3, <3>1
  <2>2. \A i \in 1 .. n : \E j \in 1 .. m : id[i] = h[j]
    <3> TAKE i \in 1 .. n
    <3>1. PICK j \in 1 .. m : h[j] = i
      BY <1>4
    <3> QED BY <1>3, <3>1
  <2> QED BY <2>1, <2>2 DEF Among
<1>7. m = n /\ h = id
  BY <1>3, <1>5, <1>6, SameRisingFunctions
<1>8. \A i \in 1 .. n : p[i] = list[i]
  BY <1>3, <1>4, <1>7
<1>9. list = [i \in 1 .. n |-> list[i]] /\ p = [i \in 1 .. m |-> p[i]]
  BY DEF n, m
<1> QED BY <1>7, <1>8, <1>9

(* A select leaves the students that are to be kept, in their order.           *)
LEMMA SelectedFilters ==
  ASSUME NEW list \in Seq(Student), NEW keeps
  PROVE  B!Selected(list, keeps) = Picked(list, Kept(list, keeps)) /\ B!Selected(list, keeps) \in Seq(Student)
<1> DEFINE N == Len(list)
           p == Picked(list, Kept(list, keeps))
<1>1. N \in Nat
  OBVIOUS
<1>2. p \in Seq(Student) /\ Leaves(list, keeps, p)
  <2>1. Kept(list, keeps) \in SUBSET (1 .. Len(list))
    BY DEF Kept
  <2>2. Picked(list, Kept(list, keeps)) \in Seq(Student) /\ \E h : Tells(h, list, Kept(list, keeps), Picked(list, Kept(list, keeps)))
    BY <2>1, PickedTells
  <2> QED BY <2>2 DEF Leaves
<1>3. PICK f \in [0 .. N -> Places(keeps)] :
        /\ f[0] = [list |-> list, i |-> 1] /\ B!Selected(list, keeps) = f[N].list
        /\ \A i \in 1 .. N : f[i] = B!Turn(f[i - 1], keeps)
  BY SelectedRule
<1> HIDE DEF N, p
<1> DEFINE Good(k) == Leaves(f[k].list, keeps, p) /\ Len(f[k].list) - f[k].i < N - k
           S == {k \in Nat : k <= N => Good(k)}
<1>4. 0 \in S
  <2>1. f[0].list = list /\ f[0].i = 1 /\ N = Len(list)
    BY <1>3 DEF N
  <2>2. Good(0)
    BY <1>1, <1>2, <2>1
  <2> HIDE DEF Good
  <2> QED BY <2>2
<1>5. ASSUME NEW k \in Nat, k \in S PROVE k + 1 \in S
  <2> SUFFICES ASSUME k + 1 <= N PROVE Good(k + 1)
    OBVIOUS
  <2> DEFINE at == f[k]
             next == f[k + 1]
  <2>1. k + 1 \in 1 .. N /\ k \in 0 .. N /\ (k + 1) - 1 = k /\ Good(k)
    BY <1>1, <1>5
  <2>2. at \in Places(keeps) /\ next = B!Turn(at, keeps)
    BY <1>3, <2>1
  <2>3. Leaves(at.list, keeps, p) /\ Len(at.list) - at.i < N - k
    BY <2>1
  <2> HIDE DEF at
  <2>4. /\ B!Turn(at, keeps) \in Places(keeps)
        /\ at.i <= Len(at.list) => Len(B!Turn(at, keeps).list) - B!Turn(at, keeps).i < Len(at.list) - at.i
        /\ ~(at.i <= Len(at.list)) => B!Turn(at, keeps) = at
        /\ \A q : Len(q) \in Nat /\ Leaves(at.list, keeps, q) => Leaves(B!Turn(at, keeps).list, keeps, q)
    BY <2>2, TurnKeeps
  <2>5. /\ next \in Places(keeps)
        /\ at.i <= Len(at.list) => Len(next.list) - next.i < Len(at.list) - at.i
        /\ ~(at.i <= Len(at.list)) => next = at
        /\ \A q : Len(q) \in Nat /\ Leaves(at.list, keeps, q) => Leaves(next.list, keeps, q)
    BY <2>2, <2>4
  <2> HIDE DEF next
  <2>6. Leaves(next.list, keeps, p)
    BY <1>2, <2>3, <2>5
  <2>7. at.i \in Nat /\ Len(at.list) \in Nat /\ next.i \in Nat /\ Len(next.list) \in Nat /\ at.i <= Len(at.list) + 1
    BY <2>2, <2>5 DEF Places
  <2>8. Len(next.list) - next.i < N - (k + 1)
    BY <1>1, <2>3, <2>5, <2>7
  <2> QED BY <2>6, <2>8 DEF next
<1> HIDE DEF S, Good
<1>6. \A k \in Nat : k \in S
  BY <1>4, <1>5, Induction
<1>7. Good(N)
  BY <1>1, <1>6 DEF S
<1> DEFINE at == f[N]
<1>8. at \in Places(keeps) /\ Leaves(at.list, keeps, p) /\ Len(at.list) - at.i < N - N
  BY <1>1, <1>3, <1>7 DEF Good
<1> HIDE DEF at
<1>9. at.list \in Seq(Student) /\ \A j \in 1 .. Len(at.list) : at.list[j] \in keeps
  <2>1. /\ at.list \in Seq(Student) /\ at.i \in Nat /\ at.i <= Len(at.list) + 1
        /\ \A j \in 1 .. at.i - 1 : at.list[j] \in keeps
    BY <1>8 DEF Places
  <2>2. Len(at.list) \in Nat
    BY <2>1
  <2>3. at.i - 1 = Len(at.list)
    BY <1>1, <1>8, <2>1, <2>2
  <2> QED BY <2>1, <2>3
<1>10. at.list = p
  BY <1>2, <1>8, <1>9, AllLeft
<1> QED BY <1>2, <1>3, <1>10 DEF at, p

(* What is read or inserted, and what a save writes.                           *)
Buffers == [B!Groups -> Seq(Student)]

InsertsSoFar(b, students, f) ==
  [n \in 0 .. Len(students) |-> IF n = 0 THEN b ELSE [f[n - 1] EXCEPT ![students[n].group] = B!Insert(@, students[n])]]

LEMMA InsertsRule ==
  ASSUME NEW b \in Buffers, NEW students \in Seq(Student)
  PROVE  \E f \in [0 .. Len(students) -> Buffers] :
           /\ f[0] = b /\ B!Inserts(b, students) = f[Len(students)]
           /\ \A i \in 1 .. Len(students) : f[i] = [f[i - 1] EXCEPT ![students[i].group] = B!Insert(@, students[i])]
<1> DEFINE N == Len(students)
           W == Buffers
           first == b
           Step(m, i) == [m EXCEPT ![students[i].group] = B!Insert(@, students[i])]
           step == [x \in (1 .. N) \X W |-> Step(x[2], x[1])]
           F == CHOOSE f : f = InsertsSoFar(b, students, f)
<1>1. N \in Nat /\ first \in W /\ \A i \in 1 .. N : \A m \in W : Step(m, i) \in W
  <2> SUFFICES ASSUME NEW i \in 1 .. N, NEW m \in W PROVE Step(m, i) \in W
    OBVIOUS
  <2> DEFINE s == students[i]
  <2>1. s \in Student /\ s.group \in B!Groups
    BY DEF B!Groups
  <2>2. m[s.group] \in Seq(Student)
    BY <2>1 DEF Buffers
  <2>3. Step(m, i) = [m EXCEPT ![s.group] = B!Insert(m[s.group], s)]
    OBVIOUS
  <2>4. B!Insert(m[s.group], s) \in Seq(Student)
    BY <2>1, <2>2, InsertType
  <2> HIDE DEF s, Step
  <2> QED BY <2>1, <2>3, <2>4 DEF Buffers
<1>2. B!Inserts(b, students) = F[N]
  BY DEF B!Inserts, InsertsSoFar
<1>3. ASSUME NEW f PROVE InsertsSoFar(b, students, f) = [n \in 0 .. N |-> IF n = 0 THEN first ELSE Step(f[n - 1], n)]
  BY DEF InsertsSoFar
<1> HIDE DEF N, W, F, first, Step
<1>4. step \in [(1 .. N) \X W -> W] /\ \A i \in 1 .. N : \A m \in W : step[<< i, m >>] = Step(m, i)
  BY <1>1
<1> HIDE DEF step
<1>5. PICK g : Defined(g, N, W, first, step)
  BY <1>1, <1>4, Recursion, Zenon
<1>6. g = InsertsSoFar(b, students, g)
  <2>1. g \in [0 .. N -> W] /\ g[0] = first /\ \A i \in 1 .. N : g[i] = step[<< i, g[i - 1] >>]
    BY <1>5 DEF Defined
  <2>2. \A i \in 1 .. N : g[i] = Step(g[i - 1], i)
    <3> TAKE i \in 1 .. N
    <3>1. i - 1 \in 0 .. N
      BY <1>1
    <3> QED BY <1>4, <2>1, <3>1
  <2>3. \A i \in 0 .. N : g[i] = IF i = 0 THEN first ELSE Step(g[i - 1], i)
    BY <1>1, <2>1, <2>2
  <2> DEFINE G == [n \in 0 .. N |-> IF n = 0 THEN first ELSE Step(g[n - 1], n)]
  <2>4. g = G
    BY <2>1, <2>3
  <2>5. InsertsSoFar(b, students, g) = G
    BY <1>3
  <2> QED BY <2>4, <2>5
<1>7. F = InsertsSoFar(b, students, F)
  BY <1>6 DEF F
<1> DEFINE R == [k \in 1 .. N |-> Step(F[k - 1], k)]
<1>8. F = [k \in 0 .. N |-> IF k = 0 THEN first ELSE R[k]]
  <2>1. \A k \in 0 .. N : k # 0 => k \in 1 .. N
    BY <1>1
  <2> QED BY <1>3, <1>7, <2>1
<1>9. \A k \in 1 .. N : F[k - 1] \in W => R[k] = step[<< k, F[k - 1] >>]
  BY <1>4
<1> HIDE DEF R
<1>10. Defined(F, N, W, first, step)
  BY <1>1, <1>4, <1>8, <1>9, RuleFollowed
<1>11. F \in [0 .. N -> W] /\ F[0] = first /\ \A i \in 1 .. N : F[i] = step[<< i, F[i - 1] >>]
  BY <1>10 DEF Defined
<1>12. \A i \in 1 .. N : F[i] = Step(F[i - 1], i)
  <2> TAKE i \in 1 .. N
  <2>1. i - 1 \in 0 .. N
    BY <1>1
  <2> QED BY <1>4, <1>11, <2>1
<1> QED BY <1>2, <1>11, <1>12 DEF N, W, first, Step

LEMMA InsertsType ==
  ASSUME NEW b \in Buffers, NEW students \in Seq(Student)
  PROVE  B!Inserts(b, students) \in Buffers
<1>1. PICK f \in [0 .. Len(students) -> Buffers] : B!Inserts(b, students) = f[Len(students)]
  BY InsertsRule
<1>2. Len(students) \in 0 .. Len(students)
  OBVIOUS
<1> QED BY <1>1, <1>2

LEMMA FlattenType ==
  ASSUME NEW V, NEW ss \in Seq(Seq(V))
  PROVE  FlattenSeq(ss) \in Seq(V)
<1>1. CASE Len(ss) = 0
  <2>1. FlattenSeq(ss) = ss /\ ss = << >>
    BY <1>1 DEF FlattenSeq
  <2> QED BY <2>1
<1>2. CASE Len(ss) > 0
  <2>1. PICK f \in [1 .. Len(ss) -> Seq(V)] : FlattenSeq(ss) = f[Len(ss)]
    BY <1>2, FlattenRule
  <2>2. Len(ss) \in 1 .. Len(ss)
    BY <1>2
  <2> QED BY <2>1, <2>2
<1>3. Len(ss) \in Nat
  OBVIOUS
<1> QED BY <1>1, <1>2, <1>3

(* The users; each client that has one has its own, and nobody has user 0.     *)
BuffersInv ==
  /\ users \in SUBSET Nat /\ 0 \in users /\ \E n \in Nat : users \subseteq 0 .. n
  /\ copied \in [users -> Buffers] /\ buffer \in [users -> Buffers]
  /\ files \in [FileName -> Seq(Student)]
  /\ pid \in [User -> users \cup {-1}] /\ \A c \in User : pid[c] # 0
  /\ \A c, d \in User : c # d => pid[c] # pid[d] \/ pid[c] = -1
  /\ ~bUp => users = {0} /\ greeting = {}

(* Without a server there is user 0, and no client has a user.                 *)
Alone ==
  /\ users = {0} /\ copied \in [users -> Buffers] /\ buffer \in [users -> Buffers]
  /\ files \in [FileName -> Seq(Student)] /\ pid = [c \in User |-> -1] /\ greeting = {}

LEMMA OnlyTheFirst == Alone => BuffersInv
<1> SUFFICES ASSUME Alone PROVE BuffersInv
  OBVIOUS
<1>1. users \in SUBSET Nat /\ 0 \in users
  BY DEF Alone
<1>2. \E n \in Nat : users \subseteq 0 .. n
  <2>1. {0} \subseteq 0 .. 0 /\ 0 \in Nat
    OBVIOUS
  <2>2. users \subseteq 0 .. 0
    BY <2>1 DEF Alone
  <2> QED BY <2>1, <2>2
<1>3. \A c \in User : pid[c] = -1
  BY DEF Alone
<1>4. pid \in [User -> users \cup {-1}]
  BY DEF Alone
<1>5. \A c \in User : pid[c] # 0
  BY <1>3
<1> QED BY <1>1, <1>2, <1>3, <1>4, <1>5 DEF Alone, BuffersInv

LEMMA NoGroupsType == B!NoGroups \in Buffers
BY DEF B!NoGroups, Buffers

LEMMA OneUser == ASSUME NEW b \in Buffers PROVE B!Only(b) \in [{0} -> Buffers]
BY DEF B!Only

(* A user more, the one behind the last.                                       *)
LEMMA UserAdded ==
  ASSUME BuffersInv
  PROVE  LET u == B!Max(users) + 1
         IN /\ u \in Nat /\ u \notin users /\ u # 0
            /\ \E n \in Nat : users \cup {u} \subseteq 0 .. n
            /\ \A f \in [users -> Buffers] : B!With(f, u, copied[0]) \in [users \cup {u} -> Buffers]
<1> DEFINE m == B!Max(users)
<1>1. PICK n \in Nat : users \subseteq 0 .. n
  BY DEF BuffersInv
<1>2. 0 \in users /\ copied \in [users -> Buffers]
  BY DEF BuffersInv
<1>3. Max(users) \in users /\ \A y \in users : Max(users) >= y
  BY <1>1, <1>2, MaxOfNaturals
<1>4. m = Max(users)
  BY DEF B!Max, Max
<1> HIDE DEF m
<1>5. m \in users /\ \A y \in users : m >= y
  BY <1>3, <1>4
<1>6. m \in Nat /\ m + 1 \in Nat /\ m + 1 # 0 /\ m + 1 \notin users
  BY <1>1, <1>5
<1>7. users \cup {m + 1} \subseteq 0 .. n + 1 /\ n + 1 \in Nat
  BY <1>1, <1>5, <1>6
<1>8. \A f \in [users -> Buffers] : B!With(f, m + 1, copied[0]) \in [users \cup {m + 1} -> Buffers]
  BY <1>2 DEF B!With
<1> QED BY <1>6, <1>7, <1>8 DEF m

LEMMA BuffersInitInv == ASSUME B!BuffersAssumption PROVE B!Init => BuffersInv
<1> SUFFICES ASSUME B!Init PROVE Alone
  BY OnlyTheFirst
<1>1. /\ users = {0} /\ copied = B!Only(B!NoGroups) /\ buffer = B!Only(B!NoGroups)
      /\ files \in Tables /\ pid = [c \in User |-> -1] /\ greeting = {}
  BY DEF B!Init
<1>2. copied \in [users -> Buffers] /\ buffer \in [users -> Buffers]
  BY <1>1, NoGroupsType, OneUser
<1>3. files \in [FileName -> Seq(Student)]
  BY <1>1 DEF B!BuffersAssumption
<1> QED BY <1>1, <1>2, <1>3 DEF Alone

LEMMA EndsInv == ASSUME BuffersInv, B!Ends PROVE BuffersInv'
<1>1. /\ users' = {0} /\ copied' = B!Only(B!NoGroups) /\ buffer' = B!Only(B!NoGroups)
      /\ pid' = [c \in User |-> -1] /\ files' = files /\ greeting' = {}
  BY DEF B!Ends
<1>2. copied' \in [users' -> Buffers] /\ buffer' \in [users' -> Buffers]
  BY <1>1, NoGroupsType, OneUser
<1>3. files' \in [FileName -> Seq(Student)]
  BY <1>1 DEF BuffersInv
<1>4. Alone'
  BY <1>1, <1>2, <1>3 DEF Alone
<1>5. Alone' => BuffersInv'
  BY OnlyTheFirst, PTL
<1> QED BY <1>4, <1>5

(* A query that leaves the users as they are.                                  *)
LEMMA QueryKeeps ==
  ASSUME BuffersInv, UNCHANGED << bUp, users, pid, greeting >>, copied' \in [users -> Buffers],
         buffer' \in [users -> Buffers], files' \in [FileName -> Seq(Student)]
  PROVE  BuffersInv'
BY DEF BuffersInv

LEMMA ProcessInv ==
  ASSUME B!BuffersAssumption, BuffersInv, NEW c \in User, B!Process(c)
  PROVE  BuffersInv'
<1> DEFINE u == pid[c]
           same == UNCHANGED << bUp, users, copied, files, pid, greeting, hung >>
<1>1. Inserted \subseteq Student
  BY DEF B!BuffersAssumption
<1>2. ASSUME B!Asks(c) PROVE bUp /\ u \in users /\ buffer[u] \in Buffers /\ copied[u] \in Buffers
  BY <1>2 DEF B!Asks, B!Ready, BuffersInv
<1>3. ASSUME B!Asks(c), NEW b \in Buffers, B!InBuffer(c, b) PROVE BuffersInv'
  <2>1. buffer' = [buffer EXCEPT ![u] = b] /\ same
    BY <1>3 DEF B!InBuffer
  <2>2. buffer' \in [users -> Buffers]
    BY <1>2, <1>3, <2>1 DEF BuffersInv
  <2>3. copied' \in [users -> Buffers] /\ files' \in [FileName -> Seq(Student)]
    BY <2>1 DEF BuffersInv
  <2> QED BY <2>1, <2>2, <2>3, QueryKeeps
<1>4. ASSUME NEW s \in Inserted, B!InsertQuery(c, s) PROVE BuffersInv'
  <2>1. B!Asks(c) /\ B!InBuffer(c, B!Inserts(buffer[u], << s >>))
    BY <1>4 DEF B!InsertQuery
  <2>2. << s >> \in Seq(Student)
    BY <1>1
  <2>3. B!Inserts(buffer[u], << s >>) \in Buffers
    BY <1>2, <2>1, <2>2, InsertsType
  <2> QED BY <1>3, <2>1, <2>3
<1>5. ASSUME NEW s \in Inserted, B!RemoveQuery(c, s) PROVE BuffersInv'
  <2> DEFINE b == [buffer[u] EXCEPT ![s.group] = B!Removed(@, s)]
  <2>1. B!Asks(c) /\ B!InBuffer(c, b)
    BY <1>5 DEF B!RemoveQuery
  <2>2. s.group \in B!Groups
    BY <1>1 DEF B!Groups
  <2>3. buffer[u] \in Buffers
    BY <1>2, <2>1
  <2>4. B!Removed(buffer[u][s.group], s) \in Seq(Student)
    BY <2>2, <2>3, RemovedType DEF Buffers
  <2>5. b \in Buffers
    BY <2>2, <2>3, <2>4 DEF Buffers
  <2> HIDE DEF b
  <2> QED BY <1>3, <2>1, <2>5
<1>6. ASSUME NEW crit \in Criteria, B!Select(c, crit) PROVE BuffersInv'
  <2> DEFINE b == [g \in B!Groups |-> B!Selected(buffer[u][g], {s \in Student : B!Admits(crit, s)})]
  <2>1. B!Asks(c) /\ B!InBuffer(c, b)
    BY <1>6 DEF B!Select
  <2>2. b \in Buffers
    <3> SUFFICES ASSUME NEW g \in B!Groups
                 PROVE  B!Selected(buffer[u][g], {s \in Student : B!Admits(crit, s)}) \in Seq(Student)
      BY DEF Buffers
    <3>1. buffer[u][g] \in Seq(Student)
      BY <1>2, <2>1 DEF Buffers
    <3> QED BY <3>1, SelectedFilters
  <2> HIDE DEF b
  <2> QED BY <1>3, <2>1, <2>2
<1>7. ASSUME B!Renew(c) PROVE BuffersInv'
  BY <1>2, <1>3, <1>7 DEF B!Renew
<1>8. ASSUME NEW f \in FileName, B!Load(c, f) PROVE BuffersInv'
  <2> DEFINE b == B!Inserts(buffer[u], files[f])
  <2>1. B!Asks(c) /\ buffer' = [buffer EXCEPT ![u] = b] /\ copied' = [copied EXCEPT ![u] = b]
        /\ UNCHANGED << bUp, users, files, pid, greeting, hung >>
    BY <1>8 DEF B!Load
  <2>2. files[f] \in Seq(Student)
    BY DEF BuffersInv
  <2>3. b \in Buffers
    BY <1>2, <2>1, <2>2, InsertsType
  <2> HIDE DEF b
  <2>4. buffer' \in [users -> Buffers] /\ copied' \in [users -> Buffers]
    BY <1>2, <2>1, <2>3 DEF BuffersInv
  <2>5. files' \in [FileName -> Seq(Student)]
    BY <2>1 DEF BuffersInv
  <2> QED BY <2>1, <2>4, <2>5, QueryKeeps
<1>9. ASSUME NEW f \in FileName, B!Save(c, f) PROVE BuffersInv'
  <2>1. B!Asks(c) /\ UNCHANGED << bUp, users, copied, buffer, pid, greeting, hung >>
    BY <1>9 DEF B!Save
  <2>2. PICK order \in B!SetToSeqs(B!Groups) :
          files' = [files EXCEPT ![f] = B!FlattenSeq([i \in DOMAIN order |-> buffer[u][order[i]]])]
    BY <1>9 DEF B!Save
  <2> DEFINE n == B!Cardinality(B!Groups)
             ss == [i \in DOMAIN order |-> buffer[u][order[i]]]
  <2>3. n \in Nat
    <3>1. IsFiniteSet(Student)
      BY DEF B!BuffersAssumption, B!IsFiniteSet, IsFiniteSet
    <3> DEFINE h == [s \in Student |-> s.group]
    <3>2. h \in Surjection(Student, B!Groups)
      BY DEF Surjection, B!Groups
    <3> HIDE DEF h
    <3>3. IsFiniteSet(B!Groups)
      BY <3>1, <3>2, FS_Surjection
    <3>4. n = Cardinality(B!Groups)
      BY DEF B!Cardinality, Cardinality
    <3> QED BY <3>3, <3>4, FS_CardinalityType
  <2>4. order \in [1 .. n -> B!Groups]
    BY <2>2 DEF B!SetToSeqs
  <2>5. \A i \in 1 .. n : buffer[u][order[i]] \in Seq(Student)
    BY <1>2, <2>1, <2>4 DEF Buffers
  <2> HIDE DEF n
  <2>6. ss \in Seq(Seq(Student))
    BY <2>3, <2>4, <2>5
  <2>7. B!FlattenSeq(ss) = FlattenSeq(ss)
    BY DEF B!FlattenSeq, FlattenSeq
  <2>8. files' = [files EXCEPT ![f] = B!FlattenSeq(ss)]
    BY <2>2
  <2> HIDE DEF ss
  <2>9. FlattenSeq(ss) \in Seq(Student)
    BY <2>6, FlattenType
  <2>10. files' \in [FileName -> Seq(Student)]
    BY <2>7, <2>8, <2>9 DEF BuffersInv
  <2>11. copied' \in [users -> Buffers] /\ buffer' \in [users -> Buffers]
    BY <2>1 DEF BuffersInv
  <2> QED BY <2>1, <2>10, <2>11, QueryKeeps
<1>10. ASSUME B!PrintQuery(c) \/ B!Short(c) PROVE BuffersInv'
  <2>1. UNCHANGED << bUp, users, copied, buffer, files, pid, greeting >>
    BY <1>10 DEF B!PrintQuery, B!Short
  <2> QED BY <2>1 DEF BuffersInv
<1>11. ASSUME B!Disconnect(c) PROVE BuffersInv'
  <2>1. /\ B!Asks(c) /\ users' = users \ {u} /\ pid' = [pid EXCEPT ![c] = -1]
        /\ copied' = B!Without(copied, u) /\ buffer' = B!Without(buffer, u) /\ UNCHANGED << bUp, files >>
    BY <1>11 DEF B!Disconnect
  <2>2. bUp /\ u \in users /\ u # 0
    BY <1>2, <2>1 DEF BuffersInv
  <2>3. users' \in SUBSET Nat /\ 0 \in users' /\ \E n \in Nat : users' \subseteq 0 .. n
    BY <2>1, <2>2 DEF BuffersInv
  <2>4. copied' \in [users' -> Buffers] /\ buffer' \in [users' -> Buffers]
    BY <2>1 DEF BuffersInv, B!Without
  <2>5. \A d \in User : pid'[d] \in users' \cup {-1} /\ pid'[d] # 0 /\ (d # c => pid'[d] = pid[d])
    BY <2>1, <2>2 DEF BuffersInv
  <2>6. pid' \in [User -> users' \cup {-1}]
    BY <2>1, <2>5 DEF BuffersInv
  <2>7. \A d, e \in User : d # e => pid'[d] # pid'[e] \/ pid'[d] = -1
    BY <2>1, <2>5 DEF BuffersInv
  <2> QED BY <2>1, <2>2, <2>3, <2>4, <2>5, <2>6, <2>7 DEF BuffersInv
<1>12. ASSUME B!Exit(c) PROVE BuffersInv'
  BY <1>12, EndsInv DEF B!Exit
<1> HIDE DEF u, same
<1> QED BY <1>4, <1>5, <1>6, <1>7, <1>8, <1>9, <1>10, <1>11, <1>12 DEF B!Process

LEMMA RegisterInv ==
  ASSUME BuffersInv, NEW c \in User, B!RegisterUser(c)
  PROVE  BuffersInv'
<1> DEFINE u == B!Max(users) + 1
<1>1. /\ u \in Nat /\ u \notin users /\ u # 0
      /\ \E n \in Nat : users \cup {u} \subseteq 0 .. n
      /\ \A f \in [users -> Buffers] : B!With(f, u, copied[0]) \in [users \cup {u} -> Buffers]
  BY UserAdded
<1>2. /\ users' = users \cup {u} /\ pid' = [pid EXCEPT ![c] = u] /\ UNCHANGED << bUp, files >> /\ bUp
      /\ copied' = B!With(copied, u, copied[0]) /\ buffer' = B!With(buffer, u, copied[0])
  BY DEF B!RegisterUser, BuffersInv
<1> HIDE DEF u
<1>3. /\ users \in SUBSET Nat /\ 0 \in users /\ copied \in [users -> Buffers] /\ buffer \in [users -> Buffers]
      /\ files \in [FileName -> Seq(Student)] /\ pid \in [User -> users \cup {-1}]
      /\ \A d \in User : pid[d] # 0
      /\ \A d, e \in User : d # e => pid[d] # pid[e] \/ pid[d] = -1
  BY DEF BuffersInv
<1>4. users' \in SUBSET Nat /\ 0 \in users' /\ \E n \in Nat : users' \subseteq 0 .. n
  BY <1>1, <1>2, <1>3
<1>5. copied' \in [users' -> Buffers] /\ buffer' \in [users' -> Buffers]
  BY <1>1, <1>2, <1>3
<1>6. pid'[c] = u /\ u # -1 /\ \A d \in User : pid[d] # u /\ (d # c => pid'[d] = pid[d])
  BY <1>1, <1>2, <1>3
<1>7. pid' \in [User -> users' \cup {-1}]
  BY <1>2, <1>3
<1>8. \A d \in User : pid'[d] # 0
  BY <1>1, <1>3, <1>6
<1>9. \A d, e \in User : d # e => pid'[d] # pid'[e] \/ pid'[d] = -1
  BY <1>3, <1>6
<1>10. bUp' /\ files' \in [FileName -> Seq(Student)]
  BY <1>2, <1>3
<1> QED BY <1>4, <1>5, <1>7, <1>8, <1>9, <1>10 DEF BuffersInv

LEMMA BuffersNextInv ==
  ASSUME B!BuffersAssumption, BuffersInv, [B!Next]_(B!vars)
  PROVE  BuffersInv'
<1>1. ASSUME B!Start PROVE BuffersInv'
  <2> DEFINE b == B!Inserts(B!NoGroups, files[Database])
  <2>1. /\ ~bUp /\ buffer' = B!Only(b) /\ copied' = buffer' /\ bUp' /\ UNCHANGED << users, files, pid >>
    BY <1>1 DEF B!Start
  <2>2. files[Database] \in Seq(Student)
    BY DEF BuffersInv, B!BuffersAssumption
  <2>3. b \in Buffers
    BY <2>2, NoGroupsType, InsertsType
  <2> HIDE DEF b
  <2>4. users = {0}
    BY <2>1 DEF BuffersInv
  <2>5. copied' \in [users -> Buffers] /\ buffer' \in [users -> Buffers]
    BY <2>1, <2>3, <2>4, OneUser
  <2> QED BY <2>1, <2>4, <2>5 DEF BuffersInv
<1>2. ASSUME B!Killed PROVE BuffersInv'
  BY <1>2, EndsInv DEF B!Killed
<1>3. ASSUME UNCHANGED << bUp, users, copied, buffer, files, pid >>, greeting' = greeting \/ bUp PROVE BuffersInv'
  BY <1>3 DEF BuffersInv
<1>4. ASSUME NEW c \in User, B!Accept(c) PROVE BuffersInv'
  BY <1>3, <1>4 DEF B!Accept, B!Ready
<1>5. ASSUME NEW c \in User, B!LeaveSilent(c) PROVE BuffersInv'
  BY <1>3, <1>5 DEF B!LeaveSilent
<1>6. ASSUME NEW c \in User, B!Leave(c) PROVE BuffersInv'
  <2>1. pid' = [pid EXCEPT ![c] = -1] /\ UNCHANGED << bUp, users, copied, buffer, files, greeting >>
    BY <1>6 DEF B!Leave
  <2>2. \A d \in User : pid'[d] = IF d = c THEN -1 ELSE pid[d]
    BY <2>1 DEF BuffersInv
  <2>3. pid' \in [User -> users \cup {-1}]
    BY <2>1 DEF BuffersInv
  <2>4. \A d \in User : pid'[d] # 0
    BY <2>2 DEF BuffersInv
  <2>5. \A d, e \in User : d # e => pid'[d] # pid'[e] \/ pid'[d] = -1
    BY <2>2 DEF BuffersInv
  <2> QED BY <2>1, <2>3, <2>4, <2>5 DEF BuffersInv
<1>7. ASSUME NEW c \in User, B!RegisterUser(c) PROVE BuffersInv'
  BY <1>7, RegisterInv
<1>8. ASSUME NEW c \in User, B!Process(c) PROVE BuffersInv'
  BY <1>8, ProcessInv
<1>9. UNCHANGED B!vars => UNCHANGED << bUp, users, copied, buffer, files, pid, greeting >>
  BY DEF B!vars
<1> QED BY <1>1, <1>2, <1>3, <1>4, <1>5, <1>6, <1>7, <1>8, <1>9 DEF B!Next

LEMMA BuffersInvariant == Spec => []BuffersInv
<1>1. B!BuffersAssumption
  BY SmallAssumption
<1>2. B!Init => BuffersInv
  BY <1>1, BuffersInitInv
<1>3. BuffersInv /\ [B!Next]_(B!vars) => BuffersInv'
  BY <1>1, BuffersNextInv
<1> QED BY <1>2, <1>3, RunsAlone, PTL DEF B!Spec

(* Whatever a buffer has come to hold, a select leaves those of its students   *)
(* that the criterion admits, in their order.                                  *)
THEOREM BuffersSelectIsFilter == Spec => SelectIsFilter
<1> DEFINE A == \A c \in User : \A crit \in Criteria : B!Select(c, crit) =>
                  \A g \in B!Groups : buffer'[pid[c]][g] = B!Admitted(buffer[pid[c]][g], crit)
<1>1. BuffersInv => [A]_(B!vars)
  <2> SUFFICES ASSUME BuffersInv, NEW c \in User, NEW crit \in Criteria, B!Select(c, crit), NEW g \in B!Groups
               PROVE  buffer'[pid[c]][g] = B!Admitted(buffer[pid[c]][g], crit)
    OBVIOUS
  <2> DEFINE u == pid[c]
             list == buffer[u][g]
             keeps == {s \in Student : B!Admits(crit, s)}
             b == [h \in B!Groups |-> B!Selected(buffer[u][h], keeps)]
  <2>1. B!Asks(c) /\ B!InBuffer(c, b)
    BY DEF B!Select
  <2>2. u \in users /\ buffer \in [users -> Buffers]
    BY <2>1 DEF B!Asks, B!Ready, BuffersInv
  <2>3. list \in Seq(Student)
    BY <2>2 DEF Buffers
  <2>4. buffer' = [buffer EXCEPT ![u] = b]
    BY <2>1 DEF B!InBuffer
  <2>5. buffer'[u] = b
    BY <2>2, <2>4
  <2>6. buffer'[u][g] = B!Selected(list, keeps)
    BY <2>5
  <2> HIDE DEF keeps, list, u, b
  <2>7. B!Selected(list, keeps) = Picked(list, Kept(list, keeps))
    BY <2>3, SelectedFilters
  <2>8. Kept(list, keeps) = {i \in DOMAIN list : B!Admits(crit, list[i])}
    <3>1. DOMAIN list = 1 .. Len(list) /\ \A i \in DOMAIN list : list[i] \in Student
      BY <2>3
    <3> QED BY <3>1 DEF Kept, keeps
  <2>9. B!Admitted(list, crit) = Picked(list, {i \in DOMAIN list : B!Admits(crit, list[i])})
    BY DEF B!Admitted, B!Picked, Picked
  <2> QED BY <2>6, <2>7, <2>8, <2>9 DEF u, list
<1>2. (Spec => []BuffersInv) => (Spec => [][A]_(B!vars))
  BY <1>1, PTL
<1> QED BY <1>2, BuffersInvariant DEF SelectIsFilter, B!SelectIsFilter

-------------------------------------------------------------------------------
(* The text server: blocks, and strings that end within them.                  *)
Fits(b, s) ==
  /\ b.size \in Nat /\ s.size \in Nat
  /\ \A j \in b.found[s] : j \in Nat /\ j + s.size <= b.size

IsBlock(b) ==
  /\ b.extra \in Nat
  /\ b.size \in Nat
  /\ \A s \in D!Strings : Fits(b, s)
  /\ \A w \in Words : b.found[D!Whole(w)] \subseteq b.found[D!Read(w)]

IsBlocks(d) == \E V : d \in Seq(V) /\ \A v \in V : IsBlock(v)

(* What is read of a word is no longer than the word, and something of one     *)
(* that is not empty.                                                          *)
LEMMA WordsProper ==
  ASSUME D!TextAssumption, NEW w \in Words
  PROVE  /\ D!Whole(w) \in D!Strings /\ D!Whole(w).size = w.size /\ w.size \in Nat
         /\ D!Read(w) \in D!Strings /\ D!Read(w).size = D!Received(w) /\ D!Received(w) \in Nat
         /\ D!Received(w) <= w.size /\ (w.size # 0 => D!Received(w) # 0)
<1>1. w.size \in Nat /\ w.extra \in 0 .. w.size
  BY DEF D!TextAssumption
<1>2. D!Received(w) \in Nat /\ D!Received(w) <= w.size /\ (w.size # 0 => D!Received(w) # 0)
  BY <1>1 DEF D!Received
<1>3. D!Whole(w).size = w.size /\ D!Read(w).size = D!Received(w)
  BY DEF D!Whole, D!Read
<1>4. D!Whole(w) \in D!Strings /\ D!Read(w) \in D!Strings
  BY DEF D!Strings
<1> QED BY <1>1, <1>2, <1>3, <1>4

LEMMA CutProper ==
  ASSUME D!TextAssumption, NEW b \in Block
  PROVE  IsBlock(b) /\ IsBlock(D!Cut(b)) /\ D!Cut(b).id = b.id /\ (b.extra = 0 => D!Cut(b) = b)
<1> DEFINE size == D!Received(b)
           found == [s \in D!Strings |-> {j \in b.found[s] : j + s.size <= size}]
<1>1. /\ b = [id |-> b.id, size |-> b.size, found |-> b.found, extra |-> b.extra]
      /\ b.size \in Nat /\ b.extra \in 0 .. b.size
      /\ b.found \in [D!Strings -> SUBSET Nat]
      /\ \A s \in D!Strings : \A j \in b.found[s] : j + s.size <= b.size
      /\ \A w \in Words : b.found[D!Whole(w)] \subseteq b.found[D!Read(w)]
  BY DEF D!TextAssumption
<1>2. ASSUME NEW s \in D!Strings PROVE s.size \in Nat
  <2>1. \E w \in Words : s = D!Whole(w) \/ s = D!Read(w)
    BY DEF D!Strings
  <2> QED BY <2>1, WordsProper
<1>3. IsBlock(b)
  BY <1>1, <1>2 DEF IsBlock, Fits
<1>4. D!Cut(b) = [id |-> b.id, size |-> size, found |-> found, extra |-> b.extra]
  <2>1. D!Cut(b) = [b EXCEPT !.size = size, !.found = found]
    BY DEF D!Cut
  <2> HIDE DEF size, found
  <2> QED BY <1>1, <2>1
<1>5. size \in Nat /\ (b.extra = 0 => size = b.size)
  BY <1>1 DEF D!Received
<1> HIDE DEF size
<1>6. ASSUME NEW s \in D!Strings
      PROVE  found[s] = {j \in b.found[s] : j + s.size <= size} /\ \A j \in found[s] : j \in Nat /\ j + s.size <= size
  BY <1>1, <1>6
<1>7. ASSUME NEW w \in Words PROVE found[D!Whole(w)] \subseteq found[D!Read(w)]
  <2> SUFFICES ASSUME NEW j \in found[D!Whole(w)] PROVE j \in found[D!Read(w)]
    OBVIOUS
  <2>1. /\ D!Whole(w) \in D!Strings /\ D!Whole(w).size = w.size /\ w.size \in Nat
        /\ D!Read(w) \in D!Strings /\ D!Read(w).size \in Nat /\ D!Read(w).size <= w.size
    BY WordsProper
  <2>2. j \in b.found[D!Whole(w)] /\ j \in Nat /\ j + w.size <= size
    BY <1>6, <2>1
  <2>3. j \in b.found[D!Read(w)] /\ j + D!Read(w).size <= size
    BY <1>1, <1>5, <2>1, <2>2
  <2> QED BY <1>6, <2>1, <2>3
<1>8. b.extra = 0 => found = b.found
  <2> SUFFICES ASSUME b.extra = 0 PROVE found = b.found
    OBVIOUS
  <2>1. \A s \in D!Strings : found[s] = b.found[s]
    BY <1>1, <1>5, <1>6
  <2>2. found = [s \in D!Strings |-> found[s]] /\ b.found = [s \in D!Strings |-> b.found[s]]
    BY <1>1
  <2> HIDE DEF found
  <2> QED BY <2>1, <2>2
<1> HIDE DEF found
<1>9. IsBlock(D!Cut(b))
  BY <1>1, <1>2, <1>4, <1>5, <1>6, <1>7 DEF IsBlock, Fits
<1> QED BY <1>1, <1>3, <1>4, <1>5, <1>8, <1>9

LEMMA BlocksProper ==
  ASSUME D!TextAssumption
  PROVE  /\ \A b \in Block : IsBlock(b)
         /\ \A b \in Block : IsBlock(D!Cut(b)) /\ D!Cut(b).id = b.id /\ (b.extra = 0 => D!Cut(b) = b)
BY CutProper

LEMMA Joined ==
  ASSUME NEW V, NEW a \in Seq(V), NEW b \in Seq(V), NEW x, x = a \o b
  PROVE  /\ x \in Seq(V) /\ Len(x) = Len(a) + Len(b)
         /\ \A i \in 1 .. Len(a) : x[i] = a[i]
         /\ \A i \in 1 .. Len(b) : x[Len(a) + i] = b[i]
OBVIOUS

(* A block put in at k, and the others.                                        *)
LEMMA PutIn ==
  ASSUME NEW V, NEW d \in Seq(V), NEW k \in 1 .. Len(d) + 1, NEW e \in V, NEW t, t = D!InsertAt(d, k, e)
  PROVE  /\ t \in Seq(V) /\ Len(t) = Len(d) + 1 /\ t[k] = e
         /\ \A i \in 1 .. Len(d) : IF i < k THEN t[i] = d[i] ELSE t[i + 1] = d[i]
<1> DEFINE m == Len(d)
           a == SubSeq(d, 1, k - 1)
           b == << e >>
           c == SubSeq(d, k, m)
<1>1. t = a \o b \o c
  BY DEF D!InsertAt
<1>2. m \in Nat /\ k \in Nat /\ 1 <= k /\ k <= m + 1
  OBVIOUS
<1>3. a \in Seq(V) /\ Len(a) = k - 1 /\ \A i \in 1 .. k - 1 : a[i] = d[i]
  BY <1>2
<1>4. c \in Seq(V) /\ Len(c) = m - k + 1 /\ \A i \in 1 .. m - k + 1 : c[i] = d[k - 1 + i]
  BY <1>2
<1>5. b \in Seq(V) /\ Len(b) = 1 /\ b[1] = e
  OBVIOUS
<1> HIDE DEF a, b, c
<1>6. a \o b \in Seq(V) /\ Len(a \o b) = k /\ (a \o b)[k] = e /\ \A i \in 1 .. k - 1 : (a \o b)[i] = d[i]
  <2> DEFINE x == a \o b
  <2>1. /\ x \in Seq(V) /\ Len(x) = (k - 1) + 1
        /\ \A i \in 1 .. k - 1 : x[i] = a[i]
        /\ \A i \in 1 .. 1 : x[(k - 1) + i] = b[i]
    <3>0. a \in Seq(V) /\ b \in Seq(V) /\ x = a \o b
      BY <1>3, <1>5
    <3> HIDE DEF x
    <3>1. /\ x \in Seq(V) /\ Len(x) = Len(a) + Len(b)
          /\ \A i \in 1 .. Len(a) : x[i] = a[i]
          /\ \A i \in 1 .. Len(b) : x[Len(a) + i] = b[i]
      BY <3>0, Joined
    <3> QED BY <1>3, <1>5, <3>1
  <2> HIDE DEF x
  <2>2. x[k] = e
    <3>1. x[(k - 1) + 1] = b[1]
      BY <2>1
    <3> QED BY <1>2, <1>5, <3>1
  <2> QED BY <1>2, <1>3, <2>1, <2>2 DEF x
<1> DEFINE ab == a \o b
<1>7. ab \in Seq(V) /\ Len(ab) = k /\ ab[k] = e /\ (\A i \in 1 .. k - 1 : ab[i] = d[i]) /\ t = ab \o c
  BY <1>1, <1>6
<1> HIDE DEF ab, m
<1>8. /\ t \in Seq(V) /\ Len(t) = k + (m - k + 1)
      /\ \A i \in 1 .. k : t[i] = ab[i]
      /\ \A i \in 1 .. m - k + 1 : t[k + i] = c[i]
  <2>0. ab \in Seq(V) /\ c \in Seq(V) /\ t = ab \o c
    BY <1>4, <1>7
  <2>1. /\ t \in Seq(V) /\ Len(t) = Len(ab) + Len(c)
        /\ \A i \in 1 .. Len(ab) : t[i] = ab[i]
        /\ \A i \in 1 .. Len(c) : t[Len(ab) + i] = c[i]
    BY <2>0, Joined
  <2> QED BY <1>4, <1>7, <2>1
<1>9. Len(t) = m + 1
  BY <1>2, <1>8
<1>11. t[k] = e
  BY <1>2, <1>7, <1>8
<1>12. ASSUME NEW i \in 1 .. m PROVE IF i < k THEN t[i] = d[i] ELSE t[i + 1] = d[i]
  <2>1. CASE i < k
    BY <1>2, <1>7, <1>8, <2>1
  <2>2. CASE ~(i < k)
    <3> DEFINE j == i - k + 1
    <3>1. j \in 1 .. m - k + 1 /\ k + j = i + 1 /\ k - 1 + j = i
      BY <1>2, <2>2
    <3> HIDE DEF j
    <3>2. t[k + j] = d[k - 1 + j]
      BY <1>4, <1>8, <3>1
    <3> QED BY <2>2, <3>1, <3>2
  <2> QED BY <2>1, <2>2
<1> QED BY <1>8, <1>9, <1>11, <1>12 DEF m

LEMMA SameSeq ==
  ASSUME NEW V, NEW s \in Seq(V), NEW t \in Seq(V), Len(s) = Len(t), \A i \in 1 .. Len(s) : s[i] = t[i]
  PROVE  s = t
<1>1. s = [i \in 1 .. Len(s) |-> s[i]] /\ t = [i \in 1 .. Len(t) |-> t[i]]
  OBVIOUS
<1> QED BY <1>1

(* f[n] is what is left of the first n elements.                               *)
LeavesOut(f, V, t, ids) ==
  /\ f \in [0 .. Len(t) -> Seq(V)] /\ f[0] = << >>
  /\ \A i \in 1 .. Len(t) : f[i] = IF i \in ids THEN f[i - 1] ELSE Append(f[i - 1], t[i])

LEMMA OthersRule ==
  ASSUME NEW V, NEW t \in Seq(V), NEW ids
  PROVE  \E f : LeavesOut(f, V, t, ids) /\ D!Others(t, ids) = f[Len(t)]
<1> DEFINE K == DOMAIN t \ ids
<1>1. D!Others(t, ids) = Picked(t, K) /\ \A i \in 1 .. Len(t) : i \in K <=> i \notin ids
  BY DEF D!Others, D!Picked, Picked
<1> HIDE DEF K
<1>2. PICK f : Picks(f, V, t, K)
  BY PickedRule
<1>3. LeavesOut(f, V, t, ids) /\ Picked(t, K) = f[Len(t)]
  BY <1>1, <1>2 DEF Picks, LeavesOut
<1> QED BY <1>1, <1>3

(* Without the block that was put in the text is what it was.                  *)
LEMMA OthersOfPutIn ==
  ASSUME NEW V, NEW d \in Seq(V), NEW k \in 1 .. Len(d) + 1, NEW e \in V, NEW t, t = D!InsertAt(d, k, e)
  PROVE  D!Others(t, {k}) = d
<1> DEFINE N == Len(t)
<1>1. /\ t \in Seq(V) /\ Len(t) = Len(d) + 1 /\ t[k] = e
      /\ \A i \in 1 .. Len(d) : IF i < k THEN t[i] = d[i] ELSE t[i + 1] = d[i]
  BY PutIn
<1>2. PICK f : LeavesOut(f, V, t, {k}) /\ D!Others(t, {k}) = f[N]
  BY <1>1, OthersRule
<1>3. /\ f \in [0 .. N -> Seq(V)] /\ f[0] = << >>
      /\ \A i \in 1 .. N : f[i] = IF i = k THEN f[i - 1] ELSE Append(f[i - 1], t[i])
  BY <1>2 DEF LeavesOut
<1>4. Len(d) \in Nat /\ N = Len(d) + 1 /\ k \in 1 .. N
  BY <1>1
<1> DEFINE n(i) == IF i < k THEN i ELSE i - 1
           Good(i) == Len(f[i]) = n(i) /\ \A j \in 1 .. n(i) : f[i][j] = d[j]
           S == {i \in Nat : i <= N => Good(i)}
<1>5. 0 \in S
  BY <1>3, <1>4
<1>6. ASSUME NEW i \in Nat, i \in S PROVE i + 1 \in S
  <2> SUFFICES ASSUME i + 1 <= N PROVE Good(i + 1)
    OBVIOUS
  <2> DEFINE p == f[i]
             q == f[i + 1]
  <2>1. i \in 0 .. N /\ i + 1 \in 1 .. N /\ (i + 1) - 1 = i /\ i < N
    BY <1>4
  <2>2. p \in Seq(V) /\ Len(p) = n(i) /\ \A j \in 1 .. n(i) : p[j] = d[j]
    BY <1>3, <1>6, <2>1
  <2>3. q = IF i + 1 = k THEN p ELSE Append(p, t[i + 1])
    BY <1>3, <2>1
  <2> HIDE DEF p, q
  <2>4. CASE i + 1 = k
    BY <1>4, <2>1, <2>2, <2>3, <2>4 DEF q
  <2>5. CASE i + 1 # k
    <3>1. q = Append(p, t[i + 1])
      BY <2>1, <2>3, <2>5
    <3>2. t[i + 1] \in V /\ n(i) \in Nat /\ n(i + 1) = n(i) + 1 /\ n(i) + 1 \in 1 .. Len(d)
      BY <1>1, <1>4, <2>1, <2>5
    <3>3. t[i + 1] = d[n(i) + 1]
      BY <1>1, <1>4, <2>1, <2>5
    <3> HIDE DEF n
    <3>4. Len(q) = n(i) + 1 /\ q[n(i) + 1] = d[n(i) + 1] /\ \A j \in 1 .. n(i) : q[j] = d[j]
      BY <2>2, <3>1, <3>2, <3>3
    <3>5. \A j \in 1 .. n(i) + 1 : j = n(i) + 1 \/ j \in 1 .. n(i)
      BY <3>2
    <3>6. \A j \in 1 .. n(i) + 1 : q[j] = d[j]
      BY <3>4, <3>5
    <3> QED BY <3>2, <3>4, <3>6 DEF q
  <2> QED BY <2>4, <2>5
<1> HIDE DEF S, Good, n
<1>7. \A i \in Nat : i \in S
  BY <1>5, <1>6, Induction
<1>8. Good(N)
  BY <1>4, <1>7 DEF S
<1>9. n(N) = Len(d) /\ f[N] \in Seq(V)
  BY <1>3, <1>4 DEF n
<1>10. f[N] = d
  <2> DEFINE q == f[N]
  <2>1. q \in Seq(V) /\ Len(q) = Len(d) /\ \A j \in 1 .. Len(q) : q[j] = d[j]
    BY <1>8, <1>9 DEF Good
  <2> HIDE DEF q
  <2>2. q = d
    BY <2>1, SameSeq
  <2> QED BY <2>2 DEF q
<1> QED BY <1>2, <1>3, <1>10

LEMMA FindType ==
  ASSUME NEW b, NEW s, Fits(b, s), NEW at \in [hits : Seq(Nat), i : Nat]
  PROVE  /\ D!Find(at, b, s) \in [hits : Seq(Nat), i : Nat]
         /\ LET ahead == {j \in b.found[s] : j >= at.i}
            IN IF ahead = {} THEN D!Find(at, b, s) = at
               ELSE \E j \in ahead : /\ \A k \in ahead : j <= k
                                     /\ D!Find(at, b, s) = [hits |-> Append(at.hits, j), i |-> j + s.size]
<1> DEFINE ahead == {j \in b.found[s] : j >= at.i}
           j == Min(ahead)
<1>1. ahead \in SUBSET Nat
  BY DEF Fits
<1>2. D!Find(at, b, s) = IF ahead = {} THEN at ELSE [hits |-> Append(at.hits, j), i |-> j + s.size]
  BY DEF D!Find, D!Min, Min
<1>3. ahead # {} => j \in ahead /\ \A k \in ahead : j <= k
  BY <1>1, MinOfNaturals
<1> HIDE DEF ahead, j
<1>4. CASE ahead = {}
  BY <1>2, <1>4 DEF ahead
<1>5. CASE ahead # {}
  <2>0. j \in Nat
    BY <1>1, <1>3, <1>5
  <2>1. j + s.size \in Nat /\ at.hits \in Seq(Nat)
    BY <2>0 DEF Fits
  <2>2. Append(at.hits, j) \in Seq(Nat)
    BY <2>0, <2>1
  <2>3. D!Find(at, b, s) = [hits |-> Append(at.hits, j), i |-> j + s.size]
    BY <1>2, <1>5
  <2>4. D!Find(at, b, s) \in [hits : Seq(Nat), i : Nat]
    BY <2>1, <2>2, <2>3
  <2>5. \E l \in ahead : (\A k \in ahead : l <= k) /\ D!Find(at, b, s) = [hits |-> Append(at.hits, l), i |-> l + s.size]
    BY <1>3, <1>5, <2>3
  <2> QED BY <1>5, <2>4, <2>5 DEF ahead
<1> QED BY <1>4, <1>5

LEMMA MaxOfTwo == ASSUME NEW x \in Int, NEW y \in Int PROVE Max({x, y}) = IF y >= x THEN y ELSE x
BY DEF Max

LEMMA MinOfTwo == ASSUME NEW x \in Int, NEW y \in Int PROVE Min({x, y}) = IF x <= y THEN x ELSE y
BY DEF Min

HitsSoFar(b, s, f) ==
  [n \in 0 .. b.size |-> IF n = 0 THEN [hits |-> << >>, i |-> 0] ELSE D!Find(f[n - 1], b, s)]

LEMMA HitsRule ==
  ASSUME NEW b, NEW s, Fits(b, s)
  PROVE  \E f \in [0 .. b.size -> [hits : Seq(Nat), i : Nat]] :
           /\ f[0] = [hits |-> << >>, i |-> 0] /\ D!Hits(b, s) = f[b.size].hits
           /\ \A i \in 1 .. b.size : f[i] = D!Find(f[i - 1], b, s)
<1> DEFINE N == b.size
           W == [hits : Seq(Nat), i : Nat]
           first == [hits |-> << >>, i |-> 0]
           Step(m, i) == D!Find(m, b, s)
           step == [x \in (1 .. N) \X W |-> Step(x[2], x[1])]
           F == CHOOSE f : f = HitsSoFar(b, s, f)
<1>1. N \in Nat /\ first \in W /\ \A i \in 1 .. N : \A m \in W : Step(m, i) \in W
  <2>1. b.size \in Nat
    BY DEF Fits
  <2>2. ASSUME NEW at \in [hits : Seq(Nat), i : Nat] PROVE D!Find(at, b, s) \in [hits : Seq(Nat), i : Nat]
    BY FindType
  <2> QED BY <2>1, <2>2
<1>2. D!Hits(b, s) = F[N].hits
  BY DEF D!Hits, HitsSoFar
<1>3. ASSUME NEW f PROVE HitsSoFar(b, s, f) = [n \in 0 .. N |-> IF n = 0 THEN first ELSE Step(f[n - 1], n)]
  BY DEF HitsSoFar
<1> HIDE DEF N, W, F, first, Step
<1>4. step \in [(1 .. N) \X W -> W] /\ \A i \in 1 .. N : \A m \in W : step[<< i, m >>] = Step(m, i)
  BY <1>1
<1> HIDE DEF step
<1>5. PICK g : Defined(g, N, W, first, step)
  BY <1>1, <1>4, Recursion, Zenon
<1>6. g = HitsSoFar(b, s, g)
  <2>1. g \in [0 .. N -> W] /\ g[0] = first /\ \A i \in 1 .. N : g[i] = step[<< i, g[i - 1] >>]
    BY <1>5 DEF Defined
  <2>2. \A i \in 1 .. N : g[i] = Step(g[i - 1], i)
    <3> TAKE i \in 1 .. N
    <3>1. i - 1 \in 0 .. N
      BY <1>1
    <3> QED BY <1>4, <2>1, <3>1
  <2>3. \A i \in 0 .. N : g[i] = IF i = 0 THEN first ELSE Step(g[i - 1], i)
    BY <1>1, <2>1, <2>2
  <2> DEFINE G == [n \in 0 .. N |-> IF n = 0 THEN first ELSE Step(g[n - 1], n)]
  <2>4. g = G
    BY <2>1, <2>3
  <2>5. HitsSoFar(b, s, g) = G
    BY <1>3
  <2> QED BY <2>4, <2>5
<1>7. F = HitsSoFar(b, s, F)
  BY <1>6 DEF F
<1> DEFINE R == [k \in 1 .. N |-> Step(F[k - 1], k)]
<1>8. F = [k \in 0 .. N |-> IF k = 0 THEN first ELSE R[k]]
  <2>1. \A k \in 0 .. N : k # 0 => k \in 1 .. N
    BY <1>1
  <2> QED BY <1>3, <1>7, <2>1
<1>9. \A k \in 1 .. N : F[k - 1] \in W => R[k] = step[<< k, F[k - 1] >>]
  BY <1>4
<1> HIDE DEF R
<1>10. Defined(F, N, W, first, step)
  BY <1>1, <1>4, <1>8, <1>9, RuleFollowed
<1>11. F \in [0 .. N -> W] /\ F[0] = first /\ \A i \in 1 .. N : F[i] = step[<< i, F[i - 1] >>]
  BY <1>10 DEF Defined
<1>12. \A i \in 1 .. N : F[i] = Step(F[i - 1], i)
  <2> TAKE i \in 1 .. N
  <2>1. i - 1 \in 0 .. N
    BY <1>1
  <2> QED BY <1>4, <1>11, <2>1
<1> QED BY <1>2, <1>11, <1>12 DEF N, W, first, Step

(* The places of the hits: each is one of the word, and every place of the     *)
(* word is in a hit.                                                           *)
LEMMA HitsCover ==
  ASSUME NEW b, NEW s, Fits(b, s), s.size # 0
  PROVE  LET hits == D!Hits(b, s)
         IN /\ hits \in Seq(Nat)
            /\ \A k \in 1 .. Len(hits) : hits[k] \in b.found[s]
            /\ \A j \in b.found[s] : \E k \in 1 .. Len(hits) : hits[k] <= j /\ j < hits[k] + s.size
<1> DEFINE N == b.size
           W == [hits : Seq(Nat), i : Nat]
<1>1. N \in Nat
  BY DEF Fits
<1>2. PICK f \in [0 .. N -> W] :
        /\ f[0] = [hits |-> << >>, i |-> 0] /\ D!Hits(b, s) = f[N].hits
        /\ \A i \in 1 .. N : f[i] = D!Find(f[i - 1], b, s)
  BY HitsRule
<1> HIDE DEF N
<1> DEFINE Covers(at) ==
             /\ \A k \in 1 .. Len(at.hits) : at.hits[k] \in b.found[s]
             /\ \A j \in b.found[s] : j < at.i => \E k \in 1 .. Len(at.hits) : at.hits[k] <= j /\ j < at.hits[k] + s.size
           Done(at, n) == at.i >= n \/ \A j \in b.found[s] : j < at.i
           S == {n \in Nat : n <= N => Covers(f[n]) /\ Done(f[n], n)}
<1>3. 0 \in S
  <2>1. f[0].hits = << >> /\ f[0].i = 0 /\ Len(<< >>) = 0
    BY <1>2
  <2>2. \A j \in b.found[s] : ~(j < 0)
    BY DEF Fits
  <2>3. Covers(f[0])
    BY <2>1, <2>2
  <2> QED BY <2>1, <2>3
<1>4. ASSUME NEW n \in Nat, n \in S PROVE n + 1 \in S
  <2> SUFFICES ASSUME n + 1 <= N PROVE Covers(f[n + 1]) /\ Done(f[n + 1], n + 1)
    OBVIOUS
  <2> DEFINE at == f[n]
             next == f[n + 1]
             ahead == {j \in b.found[s] : j >= at.i}
  <2>1. n \in 0 .. N /\ n + 1 \in 1 .. N /\ (n + 1) - 1 = n
    BY <1>1
  <2>2. at \in W /\ Covers(at) /\ Done(at, n) /\ next = D!Find(at, b, s)
    BY <1>2, <1>4, <2>1
  <2> HIDE DEF at, next
  <2>3. at.hits \in Seq(Nat) /\ at.i \in Nat /\ Len(at.hits) \in Nat
    BY <2>2
  <2>4. IF ahead = {} THEN next = at
        ELSE \E j \in ahead : (\A k \in ahead : j <= k) /\ next = [hits |-> Append(at.hits, j), i |-> j + s.size]
    BY <2>2, FindType
  <2>5. \A j \in b.found[s] : j \in Nat
    BY DEF Fits
  <2>6. CASE ahead = {}
    <3>1. \A j \in b.found[s] : j < at.i
      BY <2>3, <2>5, <2>6
    <3> QED BY <2>2, <2>4, <2>6, <3>1 DEF at, next
  <2>7. CASE ahead # {}
    <3>1. PICK j \in ahead : (\A k \in ahead : j <= k) /\ next = [hits |-> Append(at.hits, j), i |-> j + s.size]
      BY <2>4, <2>7
    <3> DEFINE h == Append(at.hits, j)
    <3>2. j \in b.found[s] /\ j \in Nat /\ j >= at.i
      BY <2>5
    <3>3. h \in Seq(Nat) /\ Len(h) = Len(at.hits) + 1 /\ h[Len(h)] = j /\ \A k \in 1 .. Len(at.hits) : h[k] = at.hits[k]
      BY <2>3, <3>2
    <3> HIDE DEF h
    <3>4. next.hits = h /\ next.i = j + s.size
      BY <3>1 DEF h
    <3>5. \A k \in 1 .. Len(h) : k \in 1 .. Len(at.hits) \/ k = Len(h)
      BY <2>3, <3>3
    <3>6. \A k \in 1 .. Len(h) : h[k] \in b.found[s]
      BY <2>2, <3>2, <3>3, <3>5
    <3>7. ASSUME NEW l \in b.found[s], l < j + s.size
          PROVE  \E k \in 1 .. Len(h) : h[k] <= l /\ l < h[k] + s.size
      <4>0. l \in Nat
        BY <2>5
      <4>1. CASE l < at.i
        <5>1. PICK k \in 1 .. Len(at.hits) : at.hits[k] <= l /\ l < at.hits[k] + s.size
          BY <2>2, <4>1
        <5>2. k \in 1 .. Len(h) /\ h[k] = at.hits[k]
          BY <2>3, <3>3
        <5> QED BY <5>1, <5>2
      <4>2. CASE ~(l < at.i)
        <5>1. l \in ahead
          BY <2>3, <4>0, <4>2
        <5>2. j <= l
          BY <3>1, <5>1
        <5>3. Len(h) \in 1 .. Len(h)
          BY <2>3, <3>3
        <5> QED BY <3>3, <3>7, <5>2, <5>3
      <4> QED BY <4>1, <4>2
    <3>8. Covers(next)
      BY <3>4, <3>6, <3>7
    <3>9. at.i >= n
      <4>1. ~(j < at.i)
        BY <2>3, <3>2
      <4> QED BY <2>2, <3>2, <4>1
    <3>10. next.i >= n + 1
      <4>1. s.size \in Nat /\ s.size >= 1
        BY DEF Fits
      <4> QED BY <2>3, <3>2, <3>4, <3>9, <4>1
    <3> QED BY <3>8, <3>10 DEF next
  <2> QED BY <2>6, <2>7
<1> HIDE DEF S, Covers, Done
<1>5. \A n \in Nat : n \in S
  BY <1>3, <1>4, Induction
<1> DEFINE at == f[N]
<1>6. at \in W /\ Covers(at) /\ Done(at, N)
  BY <1>1, <1>2, <1>5 DEF S
<1>7. at.hits = D!Hits(b, s)
  BY <1>2
<1> HIDE DEF at
<1>8. at.hits \in Seq(Nat) /\ at.i \in Nat
  BY <1>6
<1>9. \A j \in b.found[s] : j < at.i
  <2> TAKE j \in b.found[s]
  <2>1. j \in Nat /\ j + s.size <= N /\ s.size \in Nat /\ s.size >= 1
    BY DEF Fits, N
  <2> QED BY <1>1, <1>6, <1>8, <2>1, SMTT(30) DEF Done
<1>10. /\ \A k \in 1 .. Len(at.hits) : at.hits[k] \in b.found[s]
       /\ \A j \in b.found[s] : \E k \in 1 .. Len(at.hits) : at.hits[k] <= j /\ j < at.hits[k] + s.size
  BY <1>6, <1>9 DEF Covers
<1> QED BY <1>7, <1>8, <1>10

(* A search that asks for a context that is not negative answers every block.  *)
LEMMA SearchAnswers ==
  ASSUME D!TextAssumption, NEW d, IsBlocks(d), NEW w \in Words, w.size # 0, NEW n \in Nat
  PROVE  /\ DOMAIN D!Search(d, D!Read(w), n) = DOMAIN d
         /\ \A i \in DOMAIN d : D!Surrounds(D!Search(d, D!Read(w), n)[i], d[i], w, n)
<1>1. PICK V : d \in Seq(V) /\ \A v \in V : IsBlock(v)
  BY DEF IsBlocks
<1> DEFINE s == D!Read(w)
<1>0. s \in D!Strings /\ s.size \in Nat /\ s.size # 0 /\ s.size = D!Received(w)
  BY WordsProper
<1>8. ASSUME NEW b, IsBlock(b) PROVE Fits(b, s) /\ b.size \in Nat /\ b.found[D!Whole(w)] \subseteq b.found[s]
  BY <1>0, <1>8 DEF IsBlock
<1> HIDE DEF s
<1> USE <1>0
<1> DEFINE half == n \div 2
           From(j) == IF j > half THEN j - half ELSE 0
           To(b, j) == IF j + s.size + half < b.size THEN j + s.size + half ELSE b.size
<1>2. half \in Nat
  OBVIOUS
<1> HIDE DEF half
<1>3. ASSUME NEW b, IsBlock(b)
      PROVE  LET hits == D!Hits(b, s)
             IN /\ D!Contexts(b, s, n) = [k \in DOMAIN hits |-> [from |-> From(hits[k]), to |-> To(b, hits[k])]]
                /\ DOMAIN hits = 1 .. Len(hits) /\ hits \in Seq(Nat)
                /\ \A k \in DOMAIN hits : hits[k] \in b.found[s] /\ hits[k] \in Nat /\ hits[k] + s.size <= b.size
                /\ \A j \in b.found[s] : \E k \in DOMAIN hits : hits[k] <= j /\ j < hits[k] + s.size
  <2> DEFINE hits == D!Hits(b, s)
  <2>1. /\ hits \in Seq(Nat)
        /\ \A k \in 1 .. Len(hits) : hits[k] \in b.found[s]
        /\ \A j \in b.found[s] : \E k \in 1 .. Len(hits) : hits[k] <= j /\ j < hits[k] + s.size
    BY <1>3, <1>8, HitsCover
  <2>2. D!Contexts(b, s, n) = [k \in DOMAIN hits |-> D!Context(b, hits[k], s, n)]
    BY DEF D!Contexts
  <2>3. \A j : D!Context(b, j, s, n) = [from |-> From(j), to |-> To(b, j)]
    BY DEF D!Context, half
  <2> HIDE DEF hits
  <2>4. D!Contexts(b, s, n) = [k \in DOMAIN hits |-> [from |-> From(hits[k]), to |-> To(b, hits[k])]]
    BY <2>2, <2>3
  <2>5. DOMAIN hits = 1 .. Len(hits)
    BY <2>1
  <2>6. \A k \in DOMAIN hits : hits[k] \in b.found[s] /\ hits[k] \in Nat /\ hits[k] + s.size <= b.size
    BY <1>3, <1>8, <2>1, <2>5 DEF Fits
  <2> QED BY <2>1, <2>4, <2>5, <2>6 DEF hits
<1>4. ASSUME NEW b, IsBlock(b), NEW j, j \in Nat, j + s.size <= b.size
      PROVE  /\ From(j) \in Nat /\ From(j) <= j /\ To(b, j) \in Nat /\ j + s.size <= To(b, j)
             /\ From(j) = Max({0, j - half}) /\ To(b, j) = Min({b.size, j + s.size + half})
  <2>1. b.size \in Nat
    BY <1>4, <1>8
  <2>2. From(j) \in Nat /\ From(j) <= j /\ To(b, j) \in Nat /\ j + s.size <= To(b, j)
    BY <1>2, <1>4, <2>1
  <2>3. From(j) = IF j - half >= 0 THEN j - half ELSE 0
    BY <1>2, <1>4
  <2>4. To(b, j) = IF b.size <= j + s.size + half THEN b.size ELSE j + s.size + half
    BY <1>2, <1>4, <2>1
  <2>5. j - half \in Int /\ j + s.size + half \in Int /\ b.size \in Int
    BY <1>2, <1>4, <2>1
  <2> HIDE DEF From, To
  <2>6. Max({0, j - half}) = (IF j - half >= 0 THEN j - half ELSE 0)
    BY <2>5, MaxOfTwo
  <2>7. Min({b.size, j + s.size + half}) = (IF b.size <= j + s.size + half THEN b.size ELSE j + s.size + half)
    BY <2>5, MinOfTwo
  <2> QED BY <2>2, <2>3, <2>4, <2>6, <2>7
<1> HIDE DEF From, To
<1>5. ASSUME NEW b, IsBlock(b) PROVE D!Surrounds(D!Contexts(b, s, n), b, w, n)
  <2> DEFINE hits == D!Hits(b, s)
             c == D!Contexts(b, s, n)
  <2>1. /\ c = [k \in DOMAIN hits |-> [from |-> From(hits[k]), to |-> To(b, hits[k])]]
        /\ \A k \in DOMAIN hits : hits[k] \in b.found[s] /\ hits[k] \in Nat /\ hits[k] + s.size <= b.size
        /\ \A j \in b.found[s] : \E k \in DOMAIN hits : hits[k] <= j /\ j < hits[k] + s.size
    BY <1>3, <1>5
  <2> HIDE DEF hits, c
  <2>2. ASSUME NEW k \in DOMAIN c
        PROVE  \E j \in b.found[s] : c[k] = [from |-> Max({0, j - half}), to |-> Min({b.size, j + s.size + half})]
    <3>1. /\ hits[k] \in b.found[s] /\ hits[k] \in Nat /\ hits[k] + s.size <= b.size
          /\ c[k] = [from |-> From(hits[k]), to |-> To(b, hits[k])]
      BY <2>1
    <3>2. From(hits[k]) = Max({0, hits[k] - half}) /\ To(b, hits[k]) = Min({b.size, hits[k] + s.size + half})
      BY <1>4, <1>5, <3>1
    <3> QED BY <3>1, <3>2
  <2>3. ASSUME NEW j \in b.found[s] PROVE \E k \in DOMAIN c : c[k].from <= j /\ j < c[k].to
    <3>1. PICK k \in DOMAIN hits : hits[k] <= j /\ j < hits[k] + s.size
      BY <2>1
    <3>2. /\ hits[k] \in Nat /\ hits[k] + s.size <= b.size /\ k \in DOMAIN c
          /\ c[k].from = From(hits[k]) /\ c[k].to = To(b, hits[k])
      BY <2>1
    <3>3. From(hits[k]) <= hits[k] /\ hits[k] + s.size <= To(b, hits[k]) /\ From(hits[k]) \in Nat /\ To(b, hits[k]) \in Nat
      BY <1>4, <1>5, <3>2
    <3>4. j \in Nat
      BY <1>5, <1>8 DEF Fits
    <3>5. From(hits[k]) <= j /\ j < To(b, hits[k])
      BY <3>1, <3>2, <3>3, <3>4
    <3> QED BY <3>2, <3>5
  <2>4. \A k \in DOMAIN c : \E j \in b.found[s] :
           c[k] = [from |-> D!Max({0, j - n \div 2}), to |-> D!Min({b.size, j + D!Received(w) + n \div 2})]
    BY <2>2 DEF half, D!Max, Max, D!Min, Min
  <2>5. b.found[s] \cup b.found[D!Whole(w)] = b.found[s]
    BY <1>5, <1>8
  <2> QED BY <2>3, <2>4, <2>5 DEF D!Surrounds, c, s
<1>6. D!Search(d, s, n) = [i \in 1 .. Len(d) |-> D!Contexts(d[i], s, n)]
  <2> DEFINE Breaks(b) == \E k \in DOMAIN D!Contexts(b, s, n) : D!Throws(D!Contexts(b, s, n)[k])
             bad == {i \in DOMAIN d : Breaks(d[i])}
             last == IF bad = {} THEN Len(d) ELSE D!Min(bad) - 1
  <2>1. D!Search(d, s, n) = [i \in 1 .. last |-> D!Contexts(d[i], s, n)]
    BY DEF D!Search
  <2>2. ASSUME NEW b, IsBlock(b) PROVE ~Breaks(b)
    <3> DEFINE hits == D!Hits(b, s)
               c == D!Contexts(b, s, n)
    <3>1. /\ c = [k \in DOMAIN hits |-> [from |-> From(hits[k]), to |-> To(b, hits[k])]]
          /\ \A k \in DOMAIN hits : hits[k] \in Nat /\ hits[k] + s.size <= b.size
      BY <1>3, <2>2
    <3> HIDE DEF hits, c
    <3>2. ASSUME NEW k \in DOMAIN c PROVE ~(c[k].from > c[k].to)
      <4>1. hits[k] \in Nat /\ hits[k] + s.size <= b.size /\ c[k].from = From(hits[k]) /\ c[k].to = To(b, hits[k])
        BY <3>1
      <4>2. From(hits[k]) <= hits[k] /\ hits[k] + s.size <= To(b, hits[k]) /\ From(hits[k]) \in Nat /\ To(b, hits[k]) \in Nat
        BY <1>4, <2>2, <4>1
      <4> QED BY <4>1, <4>2
    <3> QED BY <3>2 DEF c, D!Throws
  <2> HIDE DEF Breaks
  <2>3. bad = {}
    <3>1. \A i \in DOMAIN d : IsBlock(d[i])
      BY <1>1
    <3> QED BY <2>2, <3>1
  <2> QED BY <2>1, <2>3
<1>7. DOMAIN d = 1 .. Len(d) /\ \A i \in DOMAIN d : IsBlock(d[i])
  BY <1>1
<1> QED BY <1>5, <1>6, <1>7 DEF s

(* The blocks with the given numbers are gone, and no other.                   *)
DeletedSoFar(d, ids, f) ==
  [n \in 0 .. Len(d) |-> IF n = 0 THEN [list |-> d, it |-> 1] ELSE D!Visit(f[n - 1], n, ids)]

LEMMA NextTaken ==
  ASSUME NEW V, NEW a \in Seq(V), NEW s \in Seq(V), NEW k \in 1 .. Len(s)
  PROVE  /\ D!RemoveAt(a \o SubSeq(s, k, Len(s)), Len(a) + 1) = a \o SubSeq(s, k + 1, Len(s))
         /\ Append(a, s[k]) \o SubSeq(s, k + 1, Len(s)) = a \o SubSeq(s, k, Len(s))
<1> DEFINE n == Len(s)
           m == Len(a)
           b == SubSeq(s, k, n)
           c == SubSeq(s, k + 1, n)
           x == a \o b
           y == a \o c
           r == D!RemoveAt(x, m + 1)
           p == Append(a, s[k])
           z == p \o c
<1>1. n \in Nat /\ m \in Nat /\ k \in Nat /\ 1 <= k /\ k <= n
  OBVIOUS
<1>2. b \in Seq(V) /\ Len(b) = n - k + 1 /\ \A i \in 1 .. n - k + 1 : b[i] = s[k - 1 + i]
  BY <1>1
<1>3. c \in Seq(V) /\ Len(c) = n - k /\ \A i \in 1 .. n - k : c[i] = s[k + i]
  BY <1>1
<1>4. p \in Seq(V) /\ Len(p) = m + 1 /\ p[m + 1] = s[k] /\ \A i \in 1 .. m : p[i] = a[i]
  BY <1>1
<1> HIDE DEF b, c, p
<1>5. /\ x \in Seq(V) /\ Len(x) = m + (n - k + 1)
      /\ (\A i \in 1 .. m : x[i] = a[i]) /\ \A i \in 1 .. n - k + 1 : x[m + i] = b[i]
  <2>0. a \in Seq(V) /\ b \in Seq(V) /\ x = a \o b
    BY <1>2
  <2> HIDE DEF x
  <2>1. /\ x \in Seq(V) /\ Len(x) = Len(a) + Len(b)
        /\ \A i \in 1 .. Len(a) : x[i] = a[i]
        /\ \A i \in 1 .. Len(b) : x[Len(a) + i] = b[i]
    BY <2>0, Joined
  <2> QED BY <1>2, <2>1
<1>6. /\ y \in Seq(V) /\ Len(y) = m + (n - k)
      /\ (\A i \in 1 .. m : y[i] = a[i]) /\ \A i \in 1 .. n - k : y[m + i] = c[i]
  <2>0. a \in Seq(V) /\ c \in Seq(V) /\ y = a \o c
    BY <1>3
  <2> HIDE DEF y
  <2>1. /\ y \in Seq(V) /\ Len(y) = Len(a) + Len(c)
        /\ \A i \in 1 .. Len(a) : y[i] = a[i]
        /\ \A i \in 1 .. Len(c) : y[Len(a) + i] = c[i]
    BY <2>0, Joined
  <2> QED BY <1>3, <2>1
<1>7. /\ z \in Seq(V) /\ Len(z) = m + 1 + (n - k)
      /\ (\A i \in 1 .. m + 1 : z[i] = p[i]) /\ \A i \in 1 .. n - k : z[m + 1 + i] = c[i]
  <2>0. p \in Seq(V) /\ c \in Seq(V) /\ z = p \o c
    BY <1>3, <1>4
  <2> HIDE DEF z
  <2>1. /\ z \in Seq(V) /\ Len(z) = Len(p) + Len(c)
        /\ \A i \in 1 .. Len(p) : z[i] = p[i]
        /\ \A i \in 1 .. Len(c) : z[Len(p) + i] = c[i]
    BY <2>0, Joined
  <2> QED BY <1>3, <1>4, <2>1
<1> HIDE DEF x, y, z, n, m
<1>8. z = x
  <2>1. Len(z) = Len(x)
    BY <1>1, <1>5, <1>7
  <2>2. ASSUME NEW i \in 1 .. Len(z) PROVE z[i] = x[i]
    <3>1. CASE i \in 1 .. m
      BY <1>1, <1>4, <1>5, <1>7, <3>1
    <3>2. CASE i = m + 1
      <4>1. 1 \in 1 .. n - k + 1 /\ m + 1 \in 1 .. m + 1 /\ k - 1 + 1 = k
        BY <1>1
      <4> QED BY <1>2, <1>4, <1>5, <1>7, <3>2, <4>1
    <3>3. CASE i > m + 1
      <4> DEFINE j == i - (m + 1)
      <4>1. j \in 1 .. n - k /\ m + 1 + j = i /\ j + 1 \in 1 .. n - k + 1 /\ m + (j + 1) = i /\ k - 1 + (j + 1) = k + j
        BY <1>1, <1>7, <3>3
      <4> HIDE DEF j
      <4>2. z[m + 1 + j] = c[j] /\ c[j] = s[k + j]
        BY <1>3, <1>7, <4>1
      <4>3. x[m + (j + 1)] = b[j + 1] /\ b[j + 1] = s[k - 1 + (j + 1)]
        BY <1>2, <1>5, <4>1
      <4> QED BY <4>1, <4>2, <4>3
    <3> QED BY <1>1, <1>7, <3>1, <3>2, <3>3
  <2> QED BY <1>5, <1>7, <2>1, <2>2, SameSeq
<1>9. r = y
  <2> DEFINE e == m + 1
  <2>1. r = SubSeq(x, 1, e - 1) \o SubSeq(x, e + 1, Len(x))
    BY DEF D!RemoveAt
  <2>2. e \in Nat /\ 1 <= e /\ e <= e + 1 /\ e <= Len(x) /\ e - (e - 1) = 1
    BY <1>1, <1>5
  <2> HIDE DEF e, r
  <2>3. /\ r \in Seq(V) /\ Len(r) = Len(x) - (e - (e - 1))
        /\ \A i \in 1 .. Len(r) : r[i] = IF i < e THEN x[i] ELSE x[i + (e - (e - 1))]
    <3> DEFINE t == SubSeq(x, 1, e - 1) \o SubSeq(x, e + 1, Len(x))
    <3>1. x \in Seq(V)
      BY <1>5
    <3>2. /\ t \in Seq(V) /\ Len(t) = Len(x) - (e - (e - 1))
          /\ \A i \in 1 .. Len(t) : t[i] = IF i < e THEN x[i] ELSE x[i + (e - (e - 1))]
      BY <2>2, <3>1, CutOut, ZenonT(30)
    <3>3. r = t
      BY <2>1
    <3> HIDE DEF t
    <3> QED BY <3>2, <3>3
  <2>4. /\ r \in Seq(V) /\ Len(r) = m + (n - k)
        /\ \A i \in 1 .. Len(r) : r[i] = IF i < e THEN x[i] ELSE x[i + 1]
    BY <1>1, <1>5, <2>2, <2>3
  <2>5. ASSUME NEW i \in 1 .. Len(r) PROVE r[i] = y[i]
    <3>1. CASE i \in 1 .. m
      BY <1>1, <1>5, <1>6, <2>4, <3>1 DEF e
    <3>2. CASE i > m
      <4> DEFINE j == i - m
      <4>0. i \in Int /\ i > m /\ i <= m + (n - k)
        BY <2>4, <3>2
      <4>1. /\ j \in 1 .. n - k /\ m + j = i /\ j + 1 \in 1 .. n - k + 1 /\ m + (j + 1) = i + 1 /\ k - 1 + (j + 1) = k + j
            /\ ~(i < m + 1)
        BY <1>1, <4>0
      <4>2. r[i] = x[i + 1]
        BY <2>4, <4>1 DEF e
      <4> HIDE DEF j
      <4>3. y[m + j] = c[j] /\ c[j] = s[k + j]
        BY <1>3, <1>6, <4>1
      <4>4. x[m + (j + 1)] = b[j + 1] /\ b[j + 1] = s[k - 1 + (j + 1)]
        BY <1>2, <1>5, <4>1
      <4> QED BY <4>1, <4>2, <4>3, <4>4
    <3> QED BY <1>1, <2>4, <3>1, <3>2
  <2> QED BY <1>6, <2>4, <2>5, SameSeq DEF r
<1> QED BY <1>8, <1>9 DEF n, m, b, c, x, y, p, z

LEMMA DeleteIs ==
  ASSUME NEW V, NEW d \in Seq(V), NEW ids, ids \subseteq 1 .. Len(d)
  PROVE  D!Delete(d, ids) = D!Others(d, ids) /\ D!Delete(d, ids) \in Seq(V)
<1> DEFINE N == Len(d)
           F == CHOOSE f : f = DeletedSoFar(d, ids, f)
<1>1. N \in Nat
  OBVIOUS
<1>0. PICK f : LeavesOut(f, V, d, ids) /\ D!Others(d, ids) = f[N]
  BY OthersRule
<1>2. /\ f \in [0 .. N -> Seq(V)] /\ f[0] = << >> /\ D!Others(d, ids) = f[N]
      /\ \A i \in 1 .. N : f[i] = IF i \in ids THEN f[i - 1] ELSE Append(f[i - 1], d[i])
  BY <1>0 DEF LeavesOut
<1> DEFINE G(k) == [list |-> f[k] \o SubSeq(d, k + 1, N), it |-> Len(f[k]) + 1]
           g == [k \in 0 .. N |-> G(k)]
<1>3. ASSUME NEW k \in 1 .. N PROVE G(k) = D!Visit(G(k - 1), k, ids)
  <2> DEFINE a == f[k - 1]
             b == SubSeq(d, k, N)
             c == SubSeq(d, k + 1, N)
  <2>1. a \in Seq(V) /\ Len(a) \in Nat /\ d[k] \in V /\ (k - 1) + 1 = k
    <3>1. k - 1 \in 0 .. N /\ k \in Nat
      BY <1>1
    <3>2. a \in Seq(V)
      BY <1>2, <3>1
    <3> HIDE DEF a
    <3> QED BY <3>1, <3>2
  <2>2. D!RemoveAt(a \o b, Len(a) + 1) = a \o c /\ Append(a, d[k]) \o c = a \o b
    <3>1. k \in 1 .. Len(d)
      OBVIOUS
    <3> HIDE DEF a
    <3> QED BY <2>1, <3>1, NextTaken
  <2>3. G(k - 1) = [list |-> a \o b, it |-> Len(a) + 1]
    BY <2>1
  <2>4. Len(Append(a, d[k])) = Len(a) + 1
    <3> HIDE DEF a
    <3> QED BY <2>1
  <2>5. f[k] = IF k \in ids THEN a ELSE Append(a, d[k])
    BY <1>1, <1>2
  <2>6. G(k) = [list |-> f[k] \o c, it |-> Len(f[k]) + 1]
    OBVIOUS
  <2> HIDE DEF a, b, c, G
  <2> DEFINE at == G(k - 1)
  <2>7. at.list = a \o b /\ at.it = Len(a) + 1 /\ at = [list |-> at.list, it |-> at.it]
    BY <2>3
  <2> HIDE DEF at
  <2>8. CASE k \in ids
    <3> DEFINE x == D!RemoveAt(at.list, at.it)
    <3>1. D!Visit(at, k, ids) = [at EXCEPT !.list = x]
      BY <2>8 DEF D!Visit
    <3>2. x = a \o c
      BY <2>2, <2>7
    <3> HIDE DEF x
    <3>3. D!Visit(at, k, ids) = [list |-> x, it |-> Len(a) + 1]
      BY <2>7, <3>1
    <3> QED BY <2>5, <2>6, <2>8, <3>2, <3>3 DEF at
  <2>9. CASE k \notin ids
    <3>1. D!Visit(at, k, ids) = [at EXCEPT !.it = at.it + 1]
      BY <2>9 DEF D!Visit
    <3>2. D!Visit(at, k, ids) = [list |-> a \o b, it |-> Len(a) + 1 + 1]
      BY <2>7, <3>1
    <3>3. f[k] = Append(a, d[k])
      BY <2>5, <2>9
    <3>4. G(k) = [list |-> Append(a, d[k]) \o c, it |-> Len(Append(a, d[k])) + 1]
      BY <2>6, <3>3
    <3> QED BY <2>2, <2>4, <3>2, <3>4 DEF at
  <2> QED BY <2>8, <2>9
<1>4. G(0) = [list |-> d, it |-> 1]
  <2>1. SubSeq(d, 1, N) = d /\ << >> \o d = d /\ Len(<< >>) = 0
    OBVIOUS
  <2> QED BY <1>2, <2>1
<1> HIDE DEF G
<1>5. F = DeletedSoFar(d, ids, F)
  <2>1. g = [n \in 0 .. N |-> IF n = 0 THEN [list |-> d, it |-> 1] ELSE D!Visit(g[n - 1], n, ids)]
    <3>1. ASSUME NEW n \in 0 .. N PROVE G(n) = IF n = 0 THEN [list |-> d, it |-> 1] ELSE D!Visit(g[n - 1], n, ids)
      <4>1. CASE n = 0
        BY <1>4, <4>1
      <4>2. CASE n # 0
        <5>1. n \in 1 .. N /\ n - 1 \in 0 .. N
          BY <1>1, <4>2
        <5>2. g[n - 1] = G(n - 1)
          BY <5>1
        <5> HIDE DEF g
        <5> QED BY <1>3, <4>2, <5>1, <5>2
      <4> QED BY <4>1, <4>2
    <3> QED BY <3>1
  <2>2. g = DeletedSoFar(d, ids, g)
    BY <2>1 DEF DeletedSoFar
  <2> HIDE DEF g
  <2> QED BY <2>2
<1> HIDE DEF F
<1>6. \A k \in 0 .. N : F[k] = G(k)
  <2> DEFINE S == {k \in Nat : k <= N => F[k] = G(k)}
  <2>1. F[0] = [list |-> d, it |-> 1] /\ \A k \in 1 .. N : F[k] = D!Visit(F[k - 1], k, ids)
    <3> DEFINE R == DeletedSoFar(d, ids, F)
    <3>1. R[0] = [list |-> d, it |-> 1] /\ \A k \in 1 .. N : R[k] = D!Visit(F[k - 1], k, ids)
      BY <1>1 DEF DeletedSoFar
    <3> HIDE DEF R
    <3>2. F = R
      BY <1>5 DEF R
    <3> QED BY <3>1, <3>2
  <2>2. 0 \in S
    BY <1>4, <2>1
  <2>3. ASSUME NEW k \in Nat, k \in S PROVE k + 1 \in S
    <3> SUFFICES ASSUME k + 1 <= N PROVE F[k + 1] = G(k + 1)
      OBVIOUS
    <3>1. k + 1 \in 1 .. N /\ (k + 1) - 1 = k /\ F[k] = G(k)
      BY <1>1, <2>3
    <3> QED BY <1>3, <2>1, <3>1
  <2> HIDE DEF S
  <2>4. \A n \in Nat : n \in S
    BY <2>2, <2>3, Induction
  <2> QED BY <1>1, <2>4 DEF S
<1>7. G(N).list = f[N]
  <2> DEFINE q == f[N]
  <2>1. q \in Seq(V)
    BY <1>1, <1>2
  <2>2. SubSeq(d, N + 1, N) = << >>
    BY <1>1
  <2> HIDE DEF q
  <2>3. q \o << >> = q
    BY <2>1
  <2> QED BY <2>2, <2>3 DEF G, q
<1>8. CASE ids = {}
  <2>1. D!Delete(d, ids) = d
    BY <1>8 DEF D!Delete
  <2> DEFINE S == {k \in Nat : k <= N => G(k).list = d}
  <2>2. 0 \in S
    BY <1>4
  <2>3. ASSUME NEW k \in Nat, k \in S PROVE k + 1 \in S
    <3> SUFFICES ASSUME k + 1 <= N PROVE G(k + 1).list = d
      OBVIOUS
    <3>1. k + 1 \in 1 .. N /\ (k + 1) - 1 = k /\ G(k).list = d /\ k + 1 \notin ids
      BY <1>1, <1>8, <2>3
    <3>2. G(k + 1) = D!Visit(G(k), k + 1, ids)
      BY <1>3, <3>1
    <3>3. DOMAIN G(k) = {"list", "it"}
      BY DEF G
    <3> QED BY <3>1, <3>2, <3>3 DEF D!Visit
  <2> HIDE DEF S
  <2>4. N \in S
    BY <1>1, <2>2, <2>3, Induction
  <2> QED BY <1>1, <1>2, <1>7, <2>1, <2>4 DEF S
<1>9. CASE ids # {}
  <2> DEFINE top == Max(ids)
  <2>1. top \in ids /\ \A i \in ids : i <= top
    BY <1>1, <1>9, MaxOfPositions
  <2>2. D!Delete(d, ids) = F[top].list
    <3>1. ~\E id \in ids : id < 1 \/ id > Len(d)
      BY <1>1
    <3>2. D!Max(ids) = top
      BY DEF D!Max, Max
    <3> HIDE DEF top
    <3> QED BY <1>9, <3>1, <3>2 DEF D!Delete, DeletedSoFar, F
  <2> HIDE DEF top
  <2>3. top \in 1 .. N
    BY <2>1
  <2> DEFINE S == {k \in Nat : top + k <= N => G(top + k).list = G(top).list}
  <2>4. 0 \in S
    BY <2>3
  <2>5. ASSUME NEW k \in Nat, k \in S PROVE k + 1 \in S
    <3> SUFFICES ASSUME top + (k + 1) <= N PROVE G(top + (k + 1)).list = G(top).list
      OBVIOUS
    <3> DEFINE n == top + k + 1
    <3>1. n \in 1 .. N /\ n - 1 = top + k /\ top + (k + 1) = n /\ G(top + k).list = G(top).list /\ n > top
      BY <1>1, <2>3, <2>5
    <3> HIDE DEF n
    <3>2. n \notin ids
      BY <2>1, <2>3, <3>1
    <3>3. G(n) = D!Visit(G(n - 1), n, ids)
      BY <1>3, <3>1
    <3>4. DOMAIN G(n - 1) = {"list", "it"}
      BY DEF G
    <3>5. G(n).list = G(n - 1).list
      BY <3>2, <3>3, <3>4 DEF D!Visit
    <3> QED BY <3>1, <3>5
  <2> HIDE DEF S
  <2>6. N - top \in S
    BY <1>1, <2>3, <2>4, <2>5, Induction
  <2>7. top + (N - top) = N /\ N - top \in Nat /\ N <= N
    BY <1>1, <2>3
  <2>8. G(N).list = G(top).list
    BY <2>6, <2>7 DEF S
  <2>9. F[top] = G(top) /\ N \in 0 .. N
    BY <1>1, <1>6, <2>3
  <2> QED BY <1>2, <1>7, <2>2, <2>8, <2>9
<1> QED BY <1>8, <1>9


(* The blocks that clients sent, whole or cut, and what a client may ask.      *)
Held == Block \cup {D!Cut(b) : b \in Block}

TextInv ==
  /\ tData \in Seq(Held)
  /\ asks \in [Editor -> D!Request]
  /\ tClient \in [Editor -> {"away", "here", "sending", "waiting", "closing", "torn", "dead"}]
  /\ \A c \in Editor : tClient[c] \in {"away", "here", "dead"} => asks[c] = D!Nothing
  /\ answer = [c \in Editor |-> answer[c]]

LEMMA HeldProper ==
  ASSUME D!TextAssumption
  PROVE  /\ \A b \in Held : IsBlock(b)
         /\ \A d \in Seq(Held) : IsBlocks(d)
<1>1. \A b \in Held : IsBlock(b)
  BY BlocksProper DEF Held
<1> QED BY <1>1 DEF IsBlocks

(* What an add makes of the text, if anything.                                 *)
HasPutIn(t, d, n, e) == n \in DOMAIN t /\ D!Others(t, {n}) = d /\ t[n] = e

LEMMA AddIs ==
  ASSUME NEW d \in Seq(Held), NEW n \in Int, NEW e \in Held
  PROVE  /\ D!Add(d, n, e) \in Seq(Held)
         /\ D!Add(d, n, e) # d => HasPutIn(D!Add(d, n, e), d, n, e)
<1> DEFINE t == D!Add(d, n, e)
<1>1. CASE n - 1 > Len(d) \/ n - 1 < 0
  BY <1>1 DEF D!Add
<1>2. CASE ~(n - 1 > Len(d) \/ n - 1 < 0)
  <2>1. n \in 1 .. Len(d) + 1 /\ t = D!InsertAt(d, n, e)
    BY <1>2 DEF D!Add
  <2> HIDE DEF t
  <2>2. t \in Seq(Held) /\ Len(t) = Len(d) + 1 /\ t[n] = e
    BY <2>1, PutIn
  <2>3. D!Others(t, {n}) = d
    BY <2>1, OthersOfPutIn
  <2>4. n \in DOMAIN t
    BY <2>1, <2>2
  <2> QED BY <2>2, <2>3, <2>4 DEF HasPutIn, t
<1> QED BY <1>1, <1>2

(* What a delete makes of it.                                                  *)
LEMMA TakenOut ==
  ASSUME NEW d \in Seq(Held), NEW ids \in SUBSET Int, NEW t, t = D!Delete(d, ids)
  PROVE  /\ t \in Seq(Held)
         /\ t # d => ids \subseteq DOMAIN d /\ t = D!Others(d, ids)
<1>1. CASE ids = {} \/ \E id \in ids : id < 1 \/ id > Len(d)
  BY <1>1 DEF D!Delete
<1>2. CASE ~(ids = {} \/ \E id \in ids : id < 1 \/ id > Len(d))
  <2>1. ids \subseteq 1 .. Len(d) /\ DOMAIN d = 1 .. Len(d)
    BY <1>2
  <2>2. t = D!Others(d, ids) /\ t \in Seq(Held)
    BY <2>1, DeleteIs
  <2> QED BY <2>1, <2>2
<1> QED BY <1>1, <1>2

LEMMA RequestTypes ==
  ASSUME D!TextAssumption, NEW r \in D!Request
  PROVE  /\ r.what = "add" => r.n \in Int /\ r.block \in Block
         /\ r.what = "search" => r.n \in Int /\ r.word \in Words
         /\ r.what = "delete" => r.ids \in SUBSET Int
<1>0. Blocks \subseteq Int /\ Sizes \subseteq Int
  BY DEF D!TextAssumption
<1> DEFINE adds == [what : {"add"}, n : Blocks, block : Block]
           searches == [what : {"search"}, n : Sizes, word : Words]
           deletes == [what : {"delete"}, ids : SUBSET Blocks, ends : {TRUE}, ascii : BOOLEAN]
           endless == [what : {"delete"}, ids : {{}}, ends : {FALSE}, ascii : {TRUE}]
           plain == [what : {"show", "disconnect", "SHUTDOWN", "other"}, ascii : BOOLEAN]
<1>1. r \in adds \/ r \in searches \/ r \in deletes \/ r \in endless \/ r \in plain
  BY DEF D!Request
<1>3. r \in adds => r.what = "add" /\ r.n \in Int /\ r.block \in Block
  BY <1>0
<1>4. r \in searches => r.what = "search" /\ r.n \in Int /\ r.word \in Words
  BY <1>0
<1>5. r \in deletes \/ r \in endless => r.what = "delete" /\ r.ids \in SUBSET Int
  <2>1. r \in deletes => r.what = "delete" /\ r.ids \subseteq Blocks
    OBVIOUS
  <2>2. r \in endless => r.what = "delete" /\ r.ids = {}
    OBVIOUS
  <2> HIDE DEF deletes, endless
  <2> QED BY <1>0, <2>1, <2>2
<1>6. r \in plain => r.what \in {"show", "disconnect", "SHUTDOWN", "other"}
  OBVIOUS
<1> HIDE DEF adds, searches, deletes, endless, plain
<1> QED BY <1>1, <1>3, <1>4, <1>5, <1>6

LEMMA NothingAsked == D!Nothing \in D!Request /\ D!Nothing.what = "other"
BY DEF D!Nothing, D!Request

LEMMA TextInitInv == ASSUME D!TextAssumption PROVE D!Init => TextInv
<1> SUFFICES ASSUME D!Init PROVE TextInv
  OBVIOUS
<1>1. tData \in Seq(Block)
  BY DEF D!Init, D!TextAssumption
<1>2. tData \in Seq(Held)
  BY <1>1 DEF Held
<1> QED BY <1>2, NothingAsked DEF D!Init, TextInv

(* A request as a whole changes the text, and answers a search.                *)
TextStep ==
  /\ tData' # tData => \E c \in Editor :
          LET r == asks[c] IN
          /\ tClient[c] \in {"waiting", "closing"} /\ tClient'[c] # tClient[c]
          /\ \/ /\ r.what = "add" /\ r.n \in DOMAIN tData' /\ D!Others(tData', {r.n}) = tData
                /\ tData'[r.n].id = r.block.id /\ (r.block.extra = 0 => tData'[r.n] = r.block)
             \/ r.what = "delete" /\ r.ids \subseteq DOMAIN tData /\ tData' = D!Others(tData, r.ids)
  /\ \A c \in Editor :
          LET r == asks[c] IN
          answer'[c] # answer[c] /\ r.what = "search" /\ r.n >= 0 =>
            /\ DOMAIN answer'[c] = DOMAIN tData
            /\ \A i \in DOMAIN tData : D!Surrounds(answer'[c][i], tData[i], r.word, r.n)

LEMMA HandleTells ==
  ASSUME D!TextAssumption, TextInv, NEW c \in Editor, D!Handle(c)
  PROVE  TextInv' /\ TextStep
<1> DEFINE r == asks[c]
           gone == IF r.what = "disconnect" THEN "away" ELSE IF tClient[c] = "closing" THEN "dead" ELSE "here"
<1>1. /\ r \in D!Request /\ tData \in Seq(Held) /\ asks' = [asks EXCEPT ![c] = D!Nothing]
      /\ tClient[c] \in {"waiting", "closing"}
  BY DEF D!Handle, TextInv
<1>2. asks' \in [Editor -> D!Request] /\ \A d \in Editor : asks'[d] = IF d = c THEN D!Nothing ELSE asks[d]
  BY <1>1, NothingAsked DEF TextInv
<1>3. CASE D!ForEver(r)
  <2>1. UNCHANGED << tData, tClient, answer >>
    BY <1>3 DEF D!Handle
  <2> QED BY <1>1, <1>2, <2>1 DEF TextInv, TextStep
<1>4. CASE ~D!ForEver(r)
  <2>1. /\ tData' = CASE r.what = "add" -> D!Add(tData, r.n, D!Cut(r.block))
                      [] r.what = "delete" -> D!Delete(tData, r.ids)
                      [] OTHER -> tData
        /\ tClient' = [tClient EXCEPT ![c] = gone]
        /\ answer' = [answer EXCEPT ![c] = D!Answer(r)]
    BY <1>4 DEF D!Handle
  <2>2. gone \in {"away", "here", "dead"} /\ gone # tClient[c]
    BY <1>1
  <2> HIDE DEF r, gone
  <2>3. /\ tClient' \in [Editor -> {"away", "here", "sending", "waiting", "closing", "torn", "dead"}]
        /\ \A d \in Editor : tClient'[d] = IF d = c THEN gone ELSE tClient[d]
    BY <2>1, <2>2 DEF TextInv
  <2>4. \A d \in Editor : tClient'[d] \in {"away", "here", "dead"} => asks'[d] = D!Nothing
    BY <1>2, <2>3 DEF TextInv
  <2>5. /\ answer' = [d \in Editor |-> answer'[d]]
        /\ \A d \in Editor : answer'[d] = IF d = c THEN D!Answer(r) ELSE answer[d]
    BY <2>1 DEF TextInv
  <2>6. tData' \in Seq(Held) /\ (tData' # tData =>
          \/ /\ r.what = "add" /\ r.n \in DOMAIN tData' /\ D!Others(tData', {r.n}) = tData
             /\ tData'[r.n].id = r.block.id /\ (r.block.extra = 0 => tData'[r.n] = r.block)
          \/ r.what = "delete" /\ r.ids \subseteq DOMAIN tData /\ tData' = D!Others(tData, r.ids))
    <3>1. CASE r.what = "add"
      <4>1. tData' = D!Add(tData, r.n, D!Cut(r.block)) /\ r.n \in Int /\ r.block \in Block
        BY <1>1, <2>1, <3>1, RequestTypes DEF r
      <4>2. D!Cut(r.block) \in Held /\ D!Cut(r.block).id = r.block.id /\ (r.block.extra = 0 => D!Cut(r.block) = r.block)
        BY <4>1, BlocksProper DEF Held
      <4>3. /\ tData' \in Seq(Held)
            /\ tData' # tData => /\ r.n \in DOMAIN tData' /\ D!Others(tData', {r.n}) = tData
                                 /\ tData'[r.n] = D!Cut(r.block)
        <5>1. r.n \in Int /\ D!Cut(r.block) \in Held
          BY <4>1, <4>2
        <5>2. tData' \in Seq(Held) /\ (tData' # tData => HasPutIn(tData', tData, r.n, D!Cut(r.block)))
          BY <1>1, <4>1, <5>1, AddIs
        <5> QED BY <5>2 DEF HasPutIn
      <4> QED BY <3>1, <4>2, <4>3
    <3>2. CASE r.what = "delete"
      <4>1. tData' = D!Delete(tData, r.ids) /\ r.ids \in SUBSET Int
        BY <1>1, <2>1, <3>2, RequestTypes DEF r
      <4>2. tData' \in Seq(Held) /\ (tData' # tData => r.ids \subseteq DOMAIN tData /\ tData' = D!Others(tData, r.ids))
        BY <1>1, <4>1, TakenOut
      <4> QED BY <3>2, <4>2
    <3>3. CASE r.what \notin {"add", "delete"}
      BY <1>1, <2>1, <3>3
    <3> QED BY <3>1, <3>2, <3>3
  <2>7. ASSUME r.what = "search", r.n >= 0
        PROVE  DOMAIN D!Answer(r) = DOMAIN tData /\ \A i \in DOMAIN tData : D!Surrounds(D!Answer(r)[i], tData[i], r.word, r.n)
    <3>1. r.n \in Nat /\ r.word \in Words
      BY <1>1, <2>7, RequestTypes DEF r
    <3>2. CASE r.word.size = 0
      <4>1. D!Answer(r) = << >>
        BY <2>7, <3>2 DEF D!Answer
      <4>2. tData = << >>
        <5> DEFINE x == D!Context(tData[1], 0, D!Read(r.word), r.n)
        <5>1. tData = << >> \/ D!Throws(x)
          BY <1>4, <2>7, <3>2 DEF D!ForEver
        <5>2. ASSUME tData # << >> PROVE ~D!Throws(x)
          <6> DEFINE b == tData[1]
                     s == D!Read(r.word)
                     half == r.n \div 2
          <6>1. IsBlock(b)
            BY <1>1, <5>2, HeldProper
          <6>2. b.size \in Nat /\ s.size \in Nat
            BY <3>1, <6>1, WordsProper DEF IsBlock
          <6>3. half \in Nat
            BY <3>1
          <6>4. x = [from |-> IF 0 > half THEN 0 - half ELSE 0,
                     to |-> IF 0 + s.size + half < b.size THEN 0 + s.size + half ELSE b.size]
            BY <2>7 DEF D!Context
          <6> HIDE DEF x, b, s, half
          <6>5. x.from = 0 /\ x.to \in Nat
            BY <6>2, <6>3, <6>4
          <6> QED BY <6>5 DEF D!Throws
        <5> QED BY <5>1, <5>2
      <4>3. DOMAIN << >> = {}
        OBVIOUS
      <4> QED BY <4>1, <4>2, <4>3
    <3>3. CASE r.word.size # 0
      <4>1. D!Answer(r) = D!Search(tData, D!Read(r.word), r.n)
        BY <2>7, <3>3 DEF D!Answer
      <4>2. IsBlocks(tData)
        BY <1>1, HeldProper
      <4> QED BY <3>1, <3>3, <4>1, <4>2, SearchAnswers
    <3> QED BY <3>2, <3>3
  <2>8. TextInv'
    BY <1>2, <2>3, <2>4, <2>5, <2>6 DEF TextInv
  <2>9. tData' # tData => \E e \in Editor :
          LET q == asks[e] IN
          /\ tClient[e] \in {"waiting", "closing"} /\ tClient'[e] # tClient[e]
          /\ \/ /\ q.what = "add" /\ q.n \in DOMAIN tData' /\ D!Others(tData', {q.n}) = tData
                /\ tData'[q.n].id = q.block.id /\ (q.block.extra = 0 => tData'[q.n] = q.block)
             \/ q.what = "delete" /\ q.ids \subseteq DOMAIN tData /\ tData' = D!Others(tData, q.ids)
    BY <1>1, <2>2, <2>3, <2>6 DEF r
  <2>10. \A e \in Editor :
          LET q == asks[e] IN
          answer'[e] # answer[e] /\ q.what = "search" /\ q.n >= 0 =>
            /\ DOMAIN answer'[e] = DOMAIN tData
            /\ \A i \in DOMAIN tData : D!Surrounds(answer'[e][i], tData[i], q.word, q.n)
    BY <2>5, <2>7 DEF r
  <2> QED BY <2>8, <2>9, <2>10 DEF TextStep
<1> QED BY <1>3, <1>4

LEMMA TextNextInv ==
  ASSUME D!TextAssumption, TextInv, [D!Next]_(D!tvars)
  PROVE  TextInv' /\ (TextStep \/ UNCHANGED D!tvars)
<1> DEFINE States == {"away", "here", "sending", "waiting", "closing", "torn", "dead"}
<1>1. ASSUME NEW c \in Editor, NEW s \in States, tClient' = [tClient EXCEPT ![c] = s], UNCHANGED << tData, asks, answer >>,
             s \in {"away", "here", "dead"} => asks[c] = D!Nothing
      PROVE  TextInv' /\ TextStep
  <2>1. tClient' \in [Editor -> States] /\ \A d \in Editor : tClient'[d] = IF d = c THEN s ELSE tClient[d]
    BY <1>1 DEF TextInv
  <2> QED BY <1>1, <2>1 DEF TextInv, TextStep
<1>2. ASSUME NEW c \in Editor, NEW r \in D!Request, D!SendLength(c, r) PROVE TextInv' /\ TextStep
  <2>1. /\ tClient[c] = "here" /\ tClient' = [tClient EXCEPT ![c] = "sending"] /\ asks' = [asks EXCEPT ![c] = r]
        /\ answer' = [answer EXCEPT ![c] = << >>] /\ tData' = tData
    BY <1>2 DEF D!SendLength, D!Unread
  <2>2. tClient' \in [Editor -> States] /\ \A d \in Editor : tClient'[d] = IF d = c THEN "sending" ELSE tClient[d]
    BY <2>1 DEF TextInv
  <2>3. asks' \in [Editor -> D!Request] /\ \A d \in Editor : asks'[d] = IF d = c THEN r ELSE asks[d]
    BY <2>1 DEF TextInv
  <2>4. answer' = [d \in Editor |-> answer'[d]] /\ \A d \in Editor : d # c => answer'[d] = answer[d]
    BY <2>1 DEF TextInv
  <2>5. asks[c].what = "other"
    BY <2>1, NothingAsked DEF TextInv
  <2> HIDE DEF States
  <2>6. TextInv'
    BY <2>1, <2>2, <2>3, <2>4 DEF TextInv, States
  <2> QED BY <2>1, <2>4, <2>5, <2>6 DEF TextStep
<1>3. ASSUME NEW c \in Editor, D!SendText(c) PROVE TextInv' /\ TextStep
  BY <1>1, <1>3 DEF D!SendText, D!Unread
<1>4. ASSUME NEW c \in Editor, D!Die(c) PROVE TextInv' /\ TextStep
  <2> DEFINE s == CASE tClient[c] = "here" -> "dead" [] tClient[c] = "sending" -> "torn" [] tClient[c] = "waiting" -> "closing"
  <2>1. /\ tClient[c] \in {"here", "sending", "waiting"} /\ tClient' = [tClient EXCEPT ![c] = s]
        /\ UNCHANGED << tData, asks, answer >>
    BY <1>4 DEF D!Die, D!Unread
  <2>2. s \in States /\ (s \in {"away", "here", "dead"} => tClient[c] = "here")
    BY <2>1
  <2>3. s \in {"away", "here", "dead"} => asks[c] = D!Nothing
    BY <2>2 DEF TextInv
  <2> HIDE DEF s
  <2> QED BY <1>1, <2>1, <2>2, <2>3
<1>5. ASSUME NEW c \in Editor, D!Accept(c) PROVE TextInv' /\ TextStep
  <2>1. asks[c] = D!Nothing
    BY <1>5 DEF D!Accept, TextInv
  <2> QED BY <1>1, <1>5, <2>1 DEF D!Accept
<1>6. ASSUME NEW c \in Editor, D!Close(c) PROVE TextInv' /\ TextStep
  <2>1. asks[c] = D!Nothing
    BY <1>6 DEF D!Close, TextInv
  <2> QED BY <1>1, <1>6, <2>1 DEF D!Close
<1>7. ASSUME UNCHANGED << tData, tClient, asks, answer >> PROVE TextInv' /\ TextStep
  BY <1>7 DEF TextInv, TextStep
<1>8. ASSUME NEW c \in Editor, D!Wait(c) \/ D!Stuck(c) PROVE TextInv' /\ TextStep
  BY <1>7, <1>8 DEF D!Wait, D!Stuck
<1>9. ASSUME UNCHANGED D!tvars PROVE TextInv' /\ TextStep
  BY <1>7, <1>9 DEF D!tvars
<1> QED BY <1>2, <1>3, <1>4, <1>5, <1>6, <1>8, <1>9, HandleTells DEF D!Next

(* However the clients break off, the text changes only as one whole request   *)
(* says, and a search shows all places of what was read of the word, and so    *)
(* all places of the word, ASCII or not.                                       *)
THEOREM TextAsAsked == Spec => AsAsked
<1>1. D!TextAssumption
  BY SmallAssumption
<1>2. D!Init => TextInv
  BY <1>1, TextInitInv
<1>3. TextInv /\ [D!Next]_(D!tvars) => TextInv'
  BY <1>1, TextNextInv
<1>4. TextInv /\ [D!Next]_(D!tvars) => [TextStep]_(D!tvars)
  BY <1>1, TextNextInv
<1>5. D!Spec => [][TextStep]_(D!tvars)
  BY <1>2, <1>3, <1>4, PTL DEF D!Spec
<1> QED BY <1>5, RunsAlone DEF AsAsked, D!AsAsked, TextStep

-------------------------------------------------------------------------------
(* The matrix server: the place of an element among those that are written.    *)
PlaceOf(i, j, m) == (i - 1) * m + j
RowOf(p, m) == ((p - 1) \div m) + 1
ColumnOf(p, m) == ((p - 1) % m) + 1

LEMMA Further ==
  ASSUME NEW m \in Nat, NEW x \in Int, NEW y \in Int, x < y
  PROVE  x * m + m <= y * m
<1>1. (y - x) - 1 \in Nat
  OBVIOUS
<1>2. \A d \in Nat : d * m >= 0
  OBVIOUS
<1>3. ((y - x) - 1) * m >= 0
  BY <1>1, <1>2
<1>4. ((y - x) - 1) * m = y * m - (x * m + m)
  OBVIOUS
<1> QED BY <1>3, <1>4

LEMMA Divided ==
  ASSUME NEW m \in Nat, m > 0, NEW x \in Int
  PROVE  x \div m \in Int /\ x % m \in 0 .. m - 1 /\ x = (x \div m) * m + (x % m)
OBVIOUS

LEMMA CellAt ==
  ASSUME NEW n \in Nat, NEW m \in Nat, m > 0, NEW p \in 1 .. n * m
  PROVE  /\ RowOf(p, m) \in 1 .. n /\ ColumnOf(p, m) \in 1 .. m
         /\ PlaceOf(RowOf(p, m), ColumnOf(p, m), m) = p
<1> DEFINE q == (p - 1) \div m
           r == (p - 1) % m
<1>1. q \in Int /\ r \in 0 .. m - 1 /\ p - 1 = q * m + r
  BY Divided
<1>2. n * m \in Nat /\ p \in Int /\ 1 <= p /\ p <= n * m /\ 0 * m = 0
  OBVIOUS
<1> HIDE DEF q, r
<1>3. ~(q < 0)
  <2> SUFFICES ASSUME q < 0 PROVE FALSE
    OBVIOUS
  <2>1. q * m + m <= 0 * m
    BY <1>1, Further
  <2>2. q * m \in Int
    BY <1>1
  <2> QED BY <1>1, <1>2, <2>1, <2>2
<1>4. ~(n <= q)
  <2> SUFFICES ASSUME n <= q PROVE FALSE
    OBVIOUS
  <2>1. n * m <= q * m
    <3>1. CASE n = q
      BY <3>1, <1>2
    <3>2. CASE n < q
      <4>1. n * m + m <= q * m
        BY <1>1, <3>2, Further
      <4>2. q * m \in Int
        BY <1>1
      <4> QED BY <1>2, <4>1, <4>2
    <3> QED BY <1>1, <3>1, <3>2
  <2>2. q * m \in Int
    BY <1>1
  <2> QED BY <1>1, <1>2, <2>1, <2>2
<1>5. q + 1 \in 1 .. n /\ r + 1 \in 1 .. m
  BY <1>1, <1>3, <1>4
<1>6. ((q + 1) - 1) * m + (r + 1) = p
  <2>1. (q + 1) - 1 = q
    BY <1>1
  <2>2. q * m \in Int
    BY <1>1
  <2> QED BY <1>1, <1>2, <2>1, <2>2
<1> QED BY <1>5, <1>6 DEF q, r, RowOf, ColumnOf, PlaceOf

LEMMA PlaceIn ==
  ASSUME NEW n \in Nat, NEW m \in Nat, m > 0, NEW i \in 1 .. n, NEW j \in 1 .. m
  PROVE  /\ PlaceOf(i, j, m) \in 1 .. n * m
         /\ RowOf(PlaceOf(i, j, m), m) = i /\ ColumnOf(PlaceOf(i, j, m), m) = j
<1> DEFINE p == (i - 1) * m + j
<1>1. (i - 1) * m \in Nat /\ i * m \in Nat /\ n * m \in Nat /\ i * m = (i - 1) * m + m /\ i * m <= n * m
  <2>1. i \in Nat /\ i - 1 \in Nat
    OBVIOUS
  <2>2. \A x, y \in Nat : x * y \in Nat
    OBVIOUS
  <2>3. i * m = (i - 1) * m + m
    OBVIOUS
  <2>4. i * m <= n * m
    <3>1. CASE i = n
      BY <3>1, <2>2
    <3>2. CASE i < n
      <4>1. i * m + m <= n * m
        BY <3>2, Further
      <4> QED BY <2>1, <2>2, <4>1
    <3> QED BY <3>1, <3>2
  <2> QED BY <2>1, <2>2, <2>3, <2>4
<1>2. p \in 1 .. n * m /\ p - 1 = (i - 1) * m + (j - 1)
  BY <1>1
<1> DEFINE q == (p - 1) \div m
           r == (p - 1) % m
<1>3. p - 1 \in Int
  BY <1>2
<1> HIDE DEF p
<1>4. q \in Int /\ r \in 0 .. m - 1 /\ p - 1 = q * m + r
  BY <1>3, Divided
<1> HIDE DEF q, r
<1>5. q = i - 1
  <2>1. q * m \in Int
    BY <1>4
  <2>2. CASE q < i - 1
    <3>1. q * m + m <= (i - 1) * m
      BY <1>4, <2>2, Further
    <3> QED BY <1>1, <1>2, <1>4, <2>1, <3>1
  <2>3. CASE i - 1 < q
    <3>1. (i - 1) * m + m <= q * m
      BY <1>4, <2>3, Further
    <3> QED BY <1>1, <1>2, <1>4, <2>1, <3>1
  <2> QED BY <1>4, <2>2, <2>3
<1>6. r = j - 1
  BY <1>1, <1>2, <1>4, <1>5
<1>7. q + 1 = i /\ r + 1 = j
  BY <1>5, <1>6
<1> QED BY <1>2, <1>7 DEF p, q, r, RowOf, ColumnOf, PlaceOf

LEMMA MatrixParts ==
  ASSUME NEW a, M!IsMatrix(a)
  PROVE  /\ a.n \in Nat /\ a.m \in Nat /\ a.n > 0 /\ a.m > 0
         /\ a = [n |-> a.n, m |-> a.m, elems |-> a.elems]
         /\ a.elems \in [1 .. a.n -> [1 .. a.m -> Int]]
BY DEF M!IsMatrix, M!MatrixOf, M!Dimensions

LEMMA MatrixMade ==
  ASSUME NEW n \in Nat, NEW m \in Nat, n > 0, m > 0, NEW e \in [1 .. n -> [1 .. m -> Int]]
  PROVE  M!IsMatrix([n |-> n, m |-> m, elems |-> e])
BY DEF M!IsMatrix, M!MatrixOf, M!Dimensions

(* What is written holds every element, and is read back as it was.            *)
LEMMA WrittenIs ==
  ASSUME NEW a, M!IsMatrix(a)
  PROVE  /\ a.n * a.m \in Nat
         /\ M!WriteToOstream(a) \in [1 .. a.n * a.m -> Int]
         /\ \A i \in 1 .. a.n : \A j \in 1 .. a.m :
              /\ PlaceOf(i, j, a.m) \in 1 .. a.n * a.m
              /\ M!WriteToOstream(a)[PlaceOf(i, j, a.m)] = a.elems[i][j]
<1> DEFINE n == a.n
           m == a.m
<1>1. n \in Nat /\ m \in Nat /\ m > 0 /\ a.elems \in [1 .. n -> [1 .. m -> Int]]
  BY MatrixParts
<1>2. M!WriteToOstream(a) = [p \in 1 .. n * m |-> a.elems[RowOf(p, m)][ColumnOf(p, m)]]
  BY DEF M!WriteToOstream, RowOf, ColumnOf
<1> HIDE DEF n, m
<1>3. n * m \in Nat
  BY <1>1
<1>4. \A p \in 1 .. n * m : RowOf(p, m) \in 1 .. n /\ ColumnOf(p, m) \in 1 .. m
  BY <1>1, CellAt
<1>5. \A i \in 1 .. n : \A j \in 1 .. m :
        /\ PlaceOf(i, j, m) \in 1 .. n * m
        /\ RowOf(PlaceOf(i, j, m), m) = i /\ ColumnOf(PlaceOf(i, j, m), m) = j
  BY <1>1, PlaceIn
<1>6. M!WriteToOstream(a) \in [1 .. n * m -> Int]
  BY <1>1, <1>2, <1>4
<1>7. \A i \in 1 .. n : \A j \in 1 .. m :
        PlaceOf(i, j, m) \in 1 .. n * m /\ M!WriteToOstream(a)[PlaceOf(i, j, m)] = a.elems[i][j]
  BY <1>2, <1>5
<1> QED BY <1>3, <1>6, <1>7 DEF n, m

LEMMA StreamMatrix ==
  ASSUME NEW n \in Nat, NEW m \in Nat, n > 0, m > 0, NEW w \in [1 .. n * m -> Int]
  PROVE  M!IsMatrix(M!FromStream(n, m, w)) /\ M!FromStream(n, m, w).n = n /\ M!FromStream(n, m, w).m = m
<1> DEFINE e == [i \in 1 .. n |-> [j \in 1 .. m |-> w[PlaceOf(i, j, m)]]]
<1>1. M!FromStream(n, m, w) = [n |-> n, m |-> m, elems |-> e]
  BY DEF M!FromStream, PlaceOf
<1>2. \A i \in 1 .. n : \A j \in 1 .. m : PlaceOf(i, j, m) \in 1 .. n * m
  BY PlaceIn
<1>3. e \in [1 .. n -> [1 .. m -> Int]]
  BY <1>2
<1> HIDE DEF e
<1>4. M!IsMatrix([n |-> n, m |-> m, elems |-> e])
  BY <1>3, MatrixMade
<1> QED BY <1>1, <1>4

LEMMA ReadBack ==
  ASSUME NEW a, M!IsMatrix(a) PROVE M!FromStream(a.n, a.m, M!WriteToOstream(a)) = a
<1> DEFINE w == M!WriteToOstream(a)
<1>1. /\ a.elems \in [1 .. a.n -> [1 .. a.m -> Int]]
      /\ a = [n |-> a.n, m |-> a.m, elems |-> a.elems]
  BY MatrixParts
<1>2. \A i \in 1 .. a.n : \A j \in 1 .. a.m : w[PlaceOf(i, j, a.m)] = a.elems[i][j]
  BY WrittenIs
<1> HIDE DEF w
<1>3. a.elems = [i \in 1 .. a.n |-> [j \in 1 .. a.m |-> a.elems[i][j]]]
  BY <1>1
<1>4. [i \in 1 .. a.n |-> [j \in 1 .. a.m |-> w[PlaceOf(i, j, a.m)]]] = [i \in 1 .. a.n |-> [j \in 1 .. a.m |-> a.elems[i][j]]]
  BY <1>2
<1>5. M!FromStream(a.n, a.m, w) = [n |-> a.n, m |-> a.m, elems |-> a.elems]
  BY <1>3, <1>4 DEF M!FromStream, PlaceOf
<1> QED BY <1>1, <1>5 DEF w

LEMMA BufferMatrix ==
  ASSUME NEW a, M!IsMatrix(a), NEW came \in Nat
  PROVE  M!IsMatrix(M!FromBuffer(a, came)) /\ M!FromBuffer(a, came).n = a.n /\ M!FromBuffer(a, came).m = a.m
<1> DEFINE w == [p \in 1 .. a.n * a.m |-> IF p <= came THEN M!WriteToOstream(a)[p] ELSE 0]
<1>1. a.n \in Nat /\ a.m \in Nat /\ a.n > 0 /\ a.m > 0
  BY MatrixParts
<1>2. M!WriteToOstream(a) \in [1 .. a.n * a.m -> Int]
  BY WrittenIs
<1>3. w \in [1 .. a.n * a.m -> Int]
  BY <1>2
<1>4. M!FromBuffer(a, came) = M!FromStream(a.n, a.m, w)
  BY DEF M!FromBuffer
<1> HIDE DEF w
<1> QED BY <1>1, <1>3, <1>4, StreamMatrix

(* The order of the matrices tells any two of them apart.                      *)
FirstLess(v, w, n) == \E p \in 1 .. n : v[p] < w[p] /\ \A q \in 1 .. p - 1 : v[q] = w[q]

LEMMA FirstLessTotal ==
  ASSUME NEW n \in Nat, NEW v \in [1 .. n -> Int], NEW w \in [1 .. n -> Int], v # w
  PROVE  FirstLess(v, w, n) <=> ~FirstLess(w, v, n)
<1> DEFINE apart == {p \in 1 .. n : v[p] # w[p]}
           d == Min(apart)
<1>1. apart \in SUBSET Nat /\ apart # {}
  OBVIOUS
<1>2. d \in apart /\ \A y \in apart : d <= y
  BY <1>1, MinOfNaturals
<1> HIDE DEF d
<1>3. /\ d \in 1 .. n /\ v[d] \in Int /\ w[d] \in Int /\ v[d] # w[d]
      /\ \A q \in 1 .. d - 1 : v[q] = w[q]
  BY <1>2
<1> HIDE DEF apart
<1>4. ASSUME NEW x \in [1 .. n -> Int], NEW y \in [1 .. n -> Int],
             x[d] < y[d], \A q \in 1 .. d - 1 : x[q] = y[q]
      PROVE  FirstLess(x, y, n) /\ ~FirstLess(y, x, n)
  <2>1. FirstLess(x, y, n)
    BY <1>3, <1>4 DEF FirstLess
  <2>2. ASSUME NEW p \in 1 .. n, y[p] < x[p], \A q \in 1 .. p - 1 : y[q] = x[q] PROVE FALSE
    <3>1. x[d] \in Int /\ y[d] \in Int /\ x[p] \in Int /\ y[p] \in Int
      BY <1>3
    <3>2. CASE p = d
      BY <1>4, <2>2, <3>1, <3>2
    <3>3. CASE p < d
      <4>1. p \in 1 .. d - 1
        BY <1>3, <3>3
      <4> QED BY <1>4, <2>2, <3>1, <4>1
    <3>4. CASE d < p
      <4>1. d \in 1 .. p - 1
        BY <1>3, <3>4
      <4> QED BY <1>4, <2>2, <3>1, <4>1
    <3> QED BY <1>3, <3>2, <3>3, <3>4
  <2> QED BY <2>1, <2>2 DEF FirstLess
<1>5. CASE v[d] < w[d]
  BY <1>3, <1>4, <1>5
<1>6. CASE w[d] < v[d]
  BY <1>3, <1>4, <1>6
<1> QED BY <1>3, <1>5, <1>6

LEMMA FirstLessTransitive ==
  ASSUME NEW n \in Nat, NEW u \in [1 .. n -> Int], NEW v \in [1 .. n -> Int], NEW w \in [1 .. n -> Int],
         FirstLess(u, v, n), FirstLess(v, w, n)
  PROVE  FirstLess(u, w, n)
<1>1. PICK p \in 1 .. n : u[p] < v[p] /\ \A q \in 1 .. p - 1 : u[q] = v[q]
  BY DEF FirstLess
<1>2. PICK r \in 1 .. n : v[r] < w[r] /\ \A q \in 1 .. r - 1 : v[q] = w[q]
  BY DEF FirstLess
<1>3. CASE p <= r
  <2>1. u[p] < w[p]
    <3>1. CASE p = r
      BY <1>1, <1>2, <3>1
    <3>2. CASE p < r
      <4>1. p \in 1 .. r - 1
        BY <3>2
      <4> QED BY <1>1, <1>2, <4>1
    <3> QED BY <1>3, <3>1, <3>2
  <2>2. \A q \in 1 .. p - 1 : q \in 1 .. r - 1
    BY <1>3
  <2>3. \A q \in 1 .. p - 1 : u[q] = w[q]
    BY <1>1, <1>2, <2>2
  <2> QED BY <2>1, <2>3 DEF FirstLess
<1>4. CASE r < p
  <2>1. r \in 1 .. p - 1 /\ \A q \in 1 .. r - 1 : q \in 1 .. p - 1
    BY <1>4
  <2>2. u[r] < w[r] /\ \A q \in 1 .. r - 1 : u[q] = w[q]
    BY <1>1, <1>2, <2>1
  <2> QED BY <2>2 DEF FirstLess
<1> QED BY <1>3, <1>4

LEMMA LessIs ==
  ASSUME NEW a, NEW b, M!IsMatrix(a), M!IsMatrix(b)
  PROVE  M!Less(a, b) <=>
           \/ a.n < b.n
           \/ a.n = b.n /\ a.m < b.m
           \/ a.n = b.n /\ a.m = b.m /\ FirstLess(M!WriteToOstream(a), M!WriteToOstream(b), a.n * a.m)
<1>1. DOMAIN M!WriteToOstream(a) = 1 .. a.n * a.m
  BY WrittenIs
<1> QED BY <1>1 DEF M!Less, FirstLess

LEMMA SameWritten ==
  ASSUME NEW a, NEW b, M!IsMatrix(a), M!IsMatrix(b), a.n = b.n, a.m = b.m,
         M!WriteToOstream(a) = M!WriteToOstream(b)
  PROVE  a = b
<1>1. M!FromStream(a.n, a.m, M!WriteToOstream(a)) = a /\ M!FromStream(b.n, b.m, M!WriteToOstream(b)) = b
  BY ReadBack
<1> QED BY <1>1

LEMMA LessTotal ==
  ASSUME NEW a, NEW b, M!IsMatrix(a), M!IsMatrix(b), a # b
  PROVE  M!Less(a, b) <=> ~M!Less(b, a)
<1> DEFINE v == M!WriteToOstream(a)
           w == M!WriteToOstream(b)
           N == a.n * a.m
<1>1. a.n \in Nat /\ a.m \in Nat /\ b.n \in Nat /\ b.m \in Nat
  BY MatrixParts
<1>2. M!Less(a, b) <=> a.n < b.n \/ (a.n = b.n /\ a.m < b.m) \/ (a.n = b.n /\ a.m = b.m /\ FirstLess(v, w, N))
  BY LessIs
<1>3. M!Less(b, a) <=> b.n < a.n \/ (b.n = a.n /\ b.m < a.m) \/ (b.n = a.n /\ b.m = a.m /\ FirstLess(w, v, b.n * b.m))
  BY LessIs
<1>4. CASE a.n = b.n /\ a.m = b.m
  <2>1. v # w
    BY <1>4, SameWritten
  <2>2. N \in Nat /\ v \in [1 .. N -> Int] /\ w \in [1 .. N -> Int]
    BY <1>4, WrittenIs
  <2>3. b.n * b.m = N
    BY <1>4
  <2> HIDE DEF v, w, N
  <2>4. FirstLess(v, w, N) <=> ~FirstLess(w, v, N)
    BY <2>1, <2>2, FirstLessTotal
  <2> QED BY <1>1, <1>2, <1>3, <1>4, <2>3, <2>4
<1> HIDE DEF v, w, N
<1>5. CASE a.n = b.n /\ a.m # b.m
  BY <1>1, <1>2, <1>3, <1>5
<1>6. CASE a.n # b.n
  BY <1>1, <1>2, <1>3, <1>6
<1> QED BY <1>4, <1>5, <1>6

LEMMA LessTransitive ==
  ASSUME NEW a, NEW b, NEW c, M!IsMatrix(a), M!IsMatrix(b), M!IsMatrix(c), M!Less(a, b), M!Less(b, c)
  PROVE  M!Less(a, c)
<1> DEFINE u == M!WriteToOstream(a)
           v == M!WriteToOstream(b)
           w == M!WriteToOstream(c)
           N == a.n * a.m
<1>1. a.n \in Nat /\ a.m \in Nat /\ b.n \in Nat /\ b.m \in Nat /\ c.n \in Nat /\ c.m \in Nat
  BY MatrixParts
<1>2. a.n < b.n \/ (a.n = b.n /\ a.m < b.m) \/ (a.n = b.n /\ a.m = b.m /\ FirstLess(u, v, N))
  BY LessIs
<1>3. b.n < c.n \/ (b.n = c.n /\ b.m < c.m) \/ (b.n = c.n /\ b.m = c.m /\ FirstLess(v, w, b.n * b.m))
  BY LessIs
<1>4. M!Less(a, c) <=> a.n < c.n \/ (a.n = c.n /\ a.m < c.m) \/ (a.n = c.n /\ a.m = c.m /\ FirstLess(u, w, N))
  BY LessIs
<1>5. CASE a.n = b.n /\ a.m = b.m /\ b.n = c.n /\ b.m = c.m
  <2>1. b.n * b.m = N /\ c.n * c.m = N
    BY <1>5
  <2>2. N \in Nat /\ u \in [1 .. N -> Int]
    BY WrittenIs
  <2>3. v \in [1 .. N -> Int]
    BY <2>1, WrittenIs
  <2>4. w \in [1 .. N -> Int]
    BY <2>1, WrittenIs
  <2> HIDE DEF u, v, w, N
  <2>5. FirstLess(u, v, N) /\ FirstLess(v, w, N)
    BY <1>1, <1>2, <1>3, <1>5, <2>1
  <2>6. FirstLess(u, w, N)
    BY <2>2, <2>3, <2>4, <2>5, FirstLessTransitive
  <2> QED BY <1>4, <1>5, <2>6
<1> HIDE DEF u, v, w, N
<1>6. CASE ~(a.n = b.n /\ a.m = b.m /\ b.n = c.n /\ b.m = c.m)
  BY <1>1, <1>2, <1>3, <1>4, <1>6
<1> QED BY <1>5, <1>6

(* Nothing is less than itself.                                                *)
LEMMA LessNotItself ==
  ASSUME NEW a, M!IsMatrix(a) PROVE ~M!Less(a, a)
<1>1. a.n \in Nat /\ a.m \in Nat /\ a.n * a.m \in Nat /\ M!WriteToOstream(a) \in [1 .. a.n * a.m -> Int]
  BY MatrixParts, WrittenIs
<1>2. ~FirstLess(M!WriteToOstream(a), M!WriteToOstream(a), a.n * a.m)
  BY <1>1 DEF FirstLess
<1> QED BY <1>1, <1>2, LessIs

(* A set of matrices, which is written in its order and read back.             *)
AreMatrices(set) == \A a \in set : M!IsMatrix(a)

LEMMA InsertedOne ==
  ASSUME NEW set, AreMatrices(set), NEW x, M!IsMatrix(x)
  PROVE  M!InsertMatrix(set, x) = set \cup {x}
<1>1. CASE \E a \in set : ~M!Less(a, x) /\ ~M!Less(x, a)
  <2>1. PICK a \in set : ~M!Less(a, x) /\ ~M!Less(x, a)
    BY <1>1
  <2>2. a = x
    BY <2>1, LessTotal DEF AreMatrices
  <2> QED BY <1>1, <2>2 DEF M!InsertMatrix
<1>2. CASE ~\E a \in set : ~M!Less(a, x) /\ ~M!Less(x, a)
  BY <1>2 DEF M!InsertMatrix
<1> QED BY <1>1, <1>2

HasLeast(set) == \E a \in set : \A b \in set \ {a} : M!Less(a, b)

LEMMA LeastExists ==
  ASSUME NEW S, IsFiniteSet(S), AreMatrices(S), S # {}
  PROVE  HasLeast(S)
<1> DEFINE T == {s \in SUBSET S : s = {} \/ HasLeast(s)}
<1>1. ASSUME NEW s \in SUBSET S, \A x \in s : s \ {x} \in T PROVE s \in T
  <2> SUFFICES ASSUME s # {} PROVE HasLeast(s)
    OBVIOUS
  <2>1. PICK x \in s : TRUE
    OBVIOUS
  <2>2. CASE s \ {x} = {}
    BY <2>1, <2>2 DEF HasLeast
  <2>3. CASE s \ {x} # {}
    <3>1. PICK a \in s \ {x} : \A b \in (s \ {x}) \ {a} : M!Less(a, b)
      BY <1>1, <2>1, <2>3 DEF HasLeast
    <3>2. M!IsMatrix(a) /\ M!IsMatrix(x) /\ \A b \in s : M!IsMatrix(b)
      BY <2>1, <3>1 DEF AreMatrices
    <3>3. M!Less(a, x) <=> ~M!Less(x, a)
      BY <3>1, <3>2, LessTotal
    <3>4. CASE M!Less(a, x)
      <4>1. \A b \in s \ {a} : M!Less(a, b)
        BY <3>1, <3>4
      <4> QED BY <3>1, <4>1 DEF HasLeast
    <3>5. CASE M!Less(x, a)
      <4>1. \A b \in s \ {x} : M!Less(x, b)
        BY <3>1, <3>2, <3>5, LessTransitive
      <4> QED BY <2>1, <4>1 DEF HasLeast
    <3> QED BY <3>3, <3>4, <3>5
  <2> QED BY <2>2, <2>3
<1> HIDE DEF T
<1>2. \A s \in SUBSET S : s \in T
  BY <1>1, FiniteInduction
<1> QED BY <1>2 DEF T

LEMMA LeastIn ==
  ASSUME NEW S, IsFiniteSet(S), AreMatrices(S), S # {}
  PROVE  M!Least(S) \in S
BY LeastExists DEF HasLeast, M!Least

(* A rest of the set, or none.                                                 *)
LEMMA LeastOfRest ==
  ASSUME NEW S, IsFiniteSet(S), AreMatrices(S), NEW R \in SUBSET S
  PROVE  M!Least(R) \in S \cup {M!Least({})}
<1>1. CASE R = {}
  BY <1>1
<1>2. CASE R # {}
  <2>1. IsFiniteSet(R) /\ AreMatrices(R)
    BY PartFinite DEF AreMatrices
  <2>2. M!Least(R) \in R
    BY <1>2, <2>1, LeastIn
  <2> QED BY <2>2
<1> QED BY <1>1, <1>2

InOrderSoFar(S, f) ==
  [n \in 0 .. M!Cardinality(S) |-> IF n = 0 THEN << >> ELSE Append(f[n - 1], M!Least(S \ M!Range(f[n - 1])))]

(* The least of what is left follows.                                          *)
LEMMA InOrderRule ==
  ASSUME NEW S, IsFiniteSet(S), AreMatrices(S)
  PROVE  \E f \in [0 .. M!Cardinality(S) -> Seq(S \cup {M!Least({})})] :
           /\ f[0] = << >> /\ M!InOrder(S) = f[M!Cardinality(S)]
           /\ \A i \in 1 .. M!Cardinality(S) : f[i] = Append(f[i - 1], M!Least(S \ M!Range(f[i - 1])))
<1> DEFINE N == M!Cardinality(S)
           W == Seq(S \cup {M!Least({})})
           first == << >>
           Step(m, i) == Append(m, M!Least(S \ M!Range(m)))
           step == [x \in (1 .. N) \X W |-> Step(x[2], x[1])]
           F == CHOOSE f : f = InOrderSoFar(S, f)
<1>1. N \in Nat /\ first \in W /\ \A i \in 1 .. N : \A m \in W : Step(m, i) \in W
  <2>1. N \in Nat
    BY FS_CardinalityType DEF M!Cardinality, Cardinality
  <2>2. ASSUME NEW m \in W, NEW i \in 1 .. N PROVE Step(m, i) \in W
    <3>1. S \ M!Range(m) \in SUBSET S
      OBVIOUS
    <3>2. M!Least(S \ M!Range(m)) \in S \cup {M!Least({})}
      BY <3>1, LeastOfRest
    <3> QED BY <3>2
  <2>3. first \in W
    OBVIOUS
  <2> HIDE DEF N, W, first, Step
  <2> QED BY <2>1, <2>2, <2>3
<1>2. M!InOrder(S) = F[N]
  BY DEF M!InOrder, InOrderSoFar
<1>3. ASSUME NEW f PROVE InOrderSoFar(S, f) = [n \in 0 .. N |-> IF n = 0 THEN first ELSE Step(f[n - 1], n)]
  BY DEF InOrderSoFar
<1> HIDE DEF N, W, F, first, Step
<1>4. step \in [(1 .. N) \X W -> W] /\ \A i \in 1 .. N : \A m \in W : step[<< i, m >>] = Step(m, i)
  BY <1>1
<1> HIDE DEF step
<1>5. PICK g : Defined(g, N, W, first, step)
  BY <1>1, <1>4, Recursion, Zenon
<1>6. g = InOrderSoFar(S, g)
  <2>1. g \in [0 .. N -> W] /\ g[0] = first /\ \A i \in 1 .. N : g[i] = step[<< i, g[i - 1] >>]
    BY <1>5 DEF Defined
  <2>2. \A i \in 1 .. N : g[i] = Step(g[i - 1], i)
    <3> TAKE i \in 1 .. N
    <3>1. i - 1 \in 0 .. N
      BY <1>1
    <3> QED BY <1>4, <2>1, <3>1
  <2>3. \A i \in 0 .. N : g[i] = IF i = 0 THEN first ELSE Step(g[i - 1], i)
    BY <1>1, <2>1, <2>2
  <2> DEFINE G == [n \in 0 .. N |-> IF n = 0 THEN first ELSE Step(g[n - 1], n)]
  <2>4. g = G
    BY <2>1, <2>3
  <2>5. InOrderSoFar(S, g) = G
    BY <1>3
  <2> QED BY <2>4, <2>5
<1>7. F = InOrderSoFar(S, F)
  BY <1>6 DEF F
<1> DEFINE R == [k \in 1 .. N |-> Step(F[k - 1], k)]
<1>8. F = [k \in 0 .. N |-> IF k = 0 THEN first ELSE R[k]]
  <2>1. \A k \in 0 .. N : k # 0 => k \in 1 .. N
    BY <1>1
  <2> QED BY <1>3, <1>7, <2>1
<1>9. \A k \in 1 .. N : F[k - 1] \in W => R[k] = step[<< k, F[k - 1] >>]
  BY <1>4
<1> HIDE DEF R
<1>10. Defined(F, N, W, first, step)
  BY <1>1, <1>4, <1>8, <1>9, RuleFollowed
<1>11. F \in [0 .. N -> W] /\ F[0] = first /\ \A i \in 1 .. N : F[i] = step[<< i, F[i - 1] >>]
  BY <1>10 DEF Defined
<1>12. \A i \in 1 .. N : F[i] = Step(F[i - 1], i)
  <2> TAKE i \in 1 .. N
  <2>1. i - 1 \in 0 .. N
    BY <1>1
  <2> QED BY <1>4, <1>11, <2>1
<1> QED BY <1>2, <1>11, <1>12 DEF N, W, first, Step

LEMMA AddedToRange ==
  ASSUME NEW V, NEW s \in Seq(V), NEW x \in V
  PROVE  M!Range(Append(s, x)) = M!Range(s) \cup {x}
<1> DEFINE t == Append(s, x)
           n == Len(s)
<1>1. n \in Nat /\ DOMAIN s = 1 .. n /\ DOMAIN t = 1 .. n + 1 /\ t[n + 1] = x /\ \A i \in 1 .. n : t[i] = s[i]
  OBVIOUS
<1>2. \A i \in 1 .. n + 1 : i \in 1 .. n \/ i = n + 1
  BY <1>1
<1>3. n + 1 \in 1 .. n + 1 /\ \A i \in 1 .. n : i \in 1 .. n + 1
  BY <1>1
<1> HIDE DEF t, n
<1>4. M!Range(t) = M!Range(s) \cup {x}
  BY <1>1, <1>2, <1>3 DEF M!Range
<1> QED BY <1>4 DEF t

LEMMA InOrderHasAll ==
  ASSUME NEW S, IsFiniteSet(S), AreMatrices(S)
  PROVE  M!InOrder(S) \in Seq(S) /\ M!Range(M!InOrder(S)) = S
<1> DEFINE N == M!Cardinality(S)
           V == S \cup {M!Least({})}
<1>1. PICK f \in [0 .. N -> Seq(V)] :
        /\ f[0] = << >> /\ M!InOrder(S) = f[N]
        /\ \A i \in 1 .. N : f[i] = Append(f[i - 1], M!Least(S \ M!Range(f[i - 1])))
  BY InOrderRule
<1>2. N \in Nat /\ N = Cardinality(S)
  BY FS_CardinalityType DEF M!Cardinality, Cardinality
<1> HIDE DEF N
<1> DEFINE T == {k \in Nat : k <= N => /\ f[k] \in Seq(S) /\ M!Range(f[k]) \subseteq S
                                     /\ IsFiniteSet(M!Range(f[k])) /\ Cardinality(M!Range(f[k])) = k}
<1>3. 0 \in T
  <2>1. << >> \in Seq(S) /\ DOMAIN << >> = {}
    OBVIOUS
  <2>2. M!Range(<< >>) = {}
    BY <2>1 DEF M!Range
  <2>3. IsFiniteSet({}) /\ Cardinality({}) = 0
    BY FS_EmptySet
  <2> QED BY <1>1, <2>1, <2>2, <2>3
<1>4. ASSUME NEW k \in Nat, k \in T PROVE k + 1 \in T
  <2> SUFFICES ASSUME k + 1 <= N
               PROVE  /\ f[k + 1] \in Seq(S) /\ M!Range(f[k + 1]) \subseteq S
                      /\ IsFiniteSet(M!Range(f[k + 1])) /\ Cardinality(M!Range(f[k + 1])) = k + 1
    OBVIOUS
  <2> DEFINE s == f[k]
             R == S \ M!Range(s)
             x == M!Least(R)
  <2>1. s \in Seq(S) /\ M!Range(s) \subseteq S /\ IsFiniteSet(M!Range(s)) /\ Cardinality(M!Range(s)) = k
    BY <1>2, <1>4
  <2>2. f[k + 1] = Append(s, x)
    <3>1. k + 1 \in 1 .. N /\ (k + 1) - 1 = k
      BY <1>2
    <3> QED BY <1>1, <3>1
  <2> HIDE DEF s, T
  <2>3. R # {}
    <3> SUFFICES ASSUME R = {} PROVE FALSE
      OBVIOUS
    <3>1. M!Range(s) = S
      BY <2>1
    <3>2. k = N
      BY <1>2, <2>1, <3>1
    <3> QED BY <1>2, <3>2
  <2>4. IsFiniteSet(R) /\ AreMatrices(R)
    BY FS_Subset DEF AreMatrices
  <2>5. x \in R
    BY <2>3, <2>4, LeastIn
  <2> HIDE DEF x
  <2>6. Append(s, x) \in Seq(S) /\ M!Range(Append(s, x)) = M!Range(s) \cup {x}
    BY <2>1, <2>5, AddedToRange
  <2>7. /\ IsFiniteSet(M!Range(s) \cup {x})
        /\ Cardinality(M!Range(s) \cup {x}) = Cardinality(M!Range(s)) + 1
    BY <2>1, <2>5, FS_AddElement
  <2> QED BY <2>1, <2>2, <2>5, <2>6, <2>7
<1> HIDE DEF T
<1>5. \A k \in Nat : k \in T
  BY <1>3, <1>4, Induction
<1>6. f[N] \in Seq(S) /\ M!Range(f[N]) \subseteq S /\ Cardinality(M!Range(f[N])) = N
  BY <1>2, <1>5 DEF T
<1>7. M!Range(f[N]) = S
  BY <1>2, <1>6, FS_Subset
<1> QED BY <1>1, <1>6, <1>7

ReadSoFar(list, w, f) ==
  [n \in 0 .. Len(list) |-> IF n = 0 THEN {} ELSE M!InsertMatrix(f[n - 1], M!FromStream(list[n].n, w, list[n].ints))]

(* One matrix after the other comes in.                                        *)
LEMMA ReadSetRule ==
  ASSUME NEW V, NEW list \in Seq(V), NEW w
  PROVE  \E f \in [0 .. Len(list) -> SUBSET {M!FromStream(list[k].n, w, list[k].ints) : k \in 1 .. Len(list)}] :
           /\ f[0] = {} /\ M!ReadSet(list, w) = f[Len(list)]
           /\ \A i \in 1 .. Len(list) : f[i] = M!InsertMatrix(f[i - 1], M!FromStream(list[i].n, w, list[i].ints))
<1> DEFINE N == Len(list)
           W == SUBSET {M!FromStream(list[k].n, w, list[k].ints) : k \in 1 .. Len(list)}
           first == {}
           Step(m, i) == M!InsertMatrix(m, M!FromStream(list[i].n, w, list[i].ints))
           step == [x \in (1 .. N) \X W |-> Step(x[2], x[1])]
           F == CHOOSE f : f = ReadSoFar(list, w, f)
<1>1. N \in Nat /\ first \in W /\ \A i \in 1 .. N : \A m \in W : Step(m, i) \in W
  BY DEF M!InsertMatrix
<1>2. M!ReadSet(list, w) = F[N]
  BY DEF M!ReadSet, ReadSoFar
<1>3. ASSUME NEW f PROVE ReadSoFar(list, w, f) = [n \in 0 .. N |-> IF n = 0 THEN first ELSE Step(f[n - 1], n)]
  BY DEF ReadSoFar
<1> HIDE DEF N, W, F, first, Step
<1>4. step \in [(1 .. N) \X W -> W] /\ \A i \in 1 .. N : \A m \in W : step[<< i, m >>] = Step(m, i)
  BY <1>1
<1> HIDE DEF step
<1>5. PICK g : Defined(g, N, W, first, step)
  BY <1>1, <1>4, Recursion, Zenon
<1>6. g = ReadSoFar(list, w, g)
  <2>1. g \in [0 .. N -> W] /\ g[0] = first /\ \A i \in 1 .. N : g[i] = step[<< i, g[i - 1] >>]
    BY <1>5 DEF Defined
  <2>2. \A i \in 1 .. N : g[i] = Step(g[i - 1], i)
    <3> TAKE i \in 1 .. N
    <3>1. i - 1 \in 0 .. N
      BY <1>1
    <3> QED BY <1>4, <2>1, <3>1
  <2>3. \A i \in 0 .. N : g[i] = IF i = 0 THEN first ELSE Step(g[i - 1], i)
    BY <1>1, <2>1, <2>2
  <2> DEFINE G == [n \in 0 .. N |-> IF n = 0 THEN first ELSE Step(g[n - 1], n)]
  <2>4. g = G
    BY <2>1, <2>3
  <2>5. ReadSoFar(list, w, g) = G
    BY <1>3
  <2> QED BY <2>4, <2>5
<1>7. F = ReadSoFar(list, w, F)
  BY <1>6 DEF F
<1> DEFINE R == [k \in 1 .. N |-> Step(F[k - 1], k)]
<1>8. F = [k \in 0 .. N |-> IF k = 0 THEN first ELSE R[k]]
  <2>1. \A k \in 0 .. N : k # 0 => k \in 1 .. N
    BY <1>1
  <2> QED BY <1>3, <1>7, <2>1
<1>9. \A k \in 1 .. N : F[k - 1] \in W => R[k] = step[<< k, F[k - 1] >>]
  BY <1>4
<1> HIDE DEF R
<1>10. Defined(F, N, W, first, step)
  BY <1>1, <1>4, <1>8, <1>9, RuleFollowed
<1>11. F \in [0 .. N -> W] /\ F[0] = first /\ \A i \in 1 .. N : F[i] = step[<< i, F[i - 1] >>]
  BY <1>10 DEF Defined
<1>12. \A i \in 1 .. N : F[i] = Step(F[i - 1], i)
  <2> TAKE i \in 1 .. N
  <2>1. i - 1 \in 0 .. N
    BY <1>1
  <2> QED BY <1>4, <1>11, <2>1
<1> QED BY <1>2, <1>11, <1>12 DEF N, W, first, Step

LEMMA ReadSetIs ==
  ASSUME NEW V, NEW list \in Seq(V), NEW w,
         \A i \in 1 .. Len(list) : M!IsMatrix(M!FromStream(list[i].n, w, list[i].ints))
  PROVE  M!ReadSet(list, w) = {M!FromStream(list[i].n, w, list[i].ints) : i \in 1 .. Len(list)}
<1> DEFINE N == Len(list)
           Read(i) == M!FromStream(list[i].n, w, list[i].ints)
<1>1. PICK f \in [0 .. N -> SUBSET {Read(k) : k \in 1 .. N}] :
        /\ f[0] = {} /\ M!ReadSet(list, w) = f[N]
        /\ \A i \in 1 .. N : f[i] = M!InsertMatrix(f[i - 1], Read(i))
  BY ReadSetRule
<1>2. N \in Nat /\ \A i \in 1 .. N : M!IsMatrix(Read(i))
  OBVIOUS
<1> HIDE DEF N, Read
<1> DEFINE T == {k \in Nat : k <= N => f[k] = {Read(i) : i \in 1 .. k}}
<1>3. 0 \in T
  BY <1>1
<1>4. ASSUME NEW k \in Nat, k \in T PROVE k + 1 \in T
  <2> SUFFICES ASSUME k + 1 <= N PROVE f[k + 1] = {Read(i) : i \in 1 .. k + 1}
    OBVIOUS
  <2>1. k + 1 \in 1 .. N /\ (k + 1) - 1 = k /\ f[k] = {Read(i) : i \in 1 .. k} /\ \A i \in 1 .. k : i \in 1 .. N
    BY <1>2, <1>4
  <2>2. AreMatrices(f[k]) /\ M!IsMatrix(Read(k + 1))
    BY <1>2, <2>1 DEF AreMatrices
  <2>3. f[k + 1] = f[k] \cup {Read(k + 1)}
    BY <1>1, <2>1, <2>2, InsertedOne
  <2>4. \A i \in 1 .. k + 1 : i \in 1 .. k \/ i = k + 1
    OBVIOUS
  <2>5. k + 1 \in 1 .. k + 1 /\ \A i \in 1 .. k : i \in 1 .. k + 1
    OBVIOUS
  <2> QED BY <2>1, <2>3, <2>4, <2>5
<1> HIDE DEF T
<1>5. \A k \in Nat : k \in T
  BY <1>3, <1>4, Induction
<1>6. f[N] = {Read(i) : i \in 1 .. N}
  BY <1>2, <1>5 DEF T
<1> QED BY <1>1, <1>6 DEF N, Read

(* What SaveToFile writes of a width, ReloadFromFile reads.                    *)
Saved(set) == [i \in DOMAIN M!InOrder(set) |->
                [n |-> M!InOrder(set)[i].n, ints |-> M!WriteToOstream(M!InOrder(set)[i])]]

LEMMA SavedIsReadBack ==
  ASSUME NEW S, IsFiniteSet(S), AreMatrices(S), NEW w, \A a \in S : a.m = w
  PROVE  M!ReadSet(Saved(S), w) = S
<1> DEFINE s == M!InOrder(S)
           list == Saved(S)
           N == Len(s)
           Lists == {list[i] : i \in 1 .. N}
<1>1. s \in Seq(S) /\ M!Range(s) = S
  BY InOrderHasAll
<1>2. list = [i \in DOMAIN s |-> [n |-> s[i].n, ints |-> M!WriteToOstream(s[i])]]
  BY DEF Saved
<1> HIDE DEF s, list
<1>3. N \in Nat /\ DOMAIN s = 1 .. N /\ \A i \in 1 .. N : s[i] \in S
  BY <1>1
<1> HIDE DEF N
<1>4. \A i \in 1 .. N : list[i] \in Lists /\ list[i].n = s[i].n /\ list[i].ints = M!WriteToOstream(s[i])
  BY <1>2, <1>3
<1>5. list \in Seq(Lists) /\ Len(list) = N
  <2>1. list = [i \in 1 .. N |-> list[i]]
    BY <1>2, <1>3
  <2> HIDE DEF Lists
  <2> QED BY <1>3, <1>4, <2>1
<1> HIDE DEF Lists
<1>6. ASSUME NEW i \in 1 .. N PROVE M!FromStream(list[i].n, w, list[i].ints) = s[i] /\ M!IsMatrix(s[i])
  <2>1. s[i] \in S /\ M!IsMatrix(s[i]) /\ s[i].m = w
    BY <1>3 DEF AreMatrices
  <2>2. M!FromStream(s[i].n, s[i].m, M!WriteToOstream(s[i])) = s[i]
    BY <2>1, ReadBack
  <2> QED BY <1>4, <2>1, <2>2
<1>7. \A i \in 1 .. Len(list) : M!IsMatrix(M!FromStream(list[i].n, w, list[i].ints))
  BY <1>5, <1>6
<1>8. M!ReadSet(list, w) = {M!FromStream(list[i].n, w, list[i].ints) : i \in 1 .. Len(list)}
  BY <1>5, <1>7, ReadSetIs
<1>9. M!ReadSet(list, w) = {s[i] : i \in 1 .. N}
  BY <1>5, <1>6, <1>8
<1> QED BY <1>1, <1>3, <1>9 DEF list, M!Range

LEMMA ReloadsWhatWasSaved ==
  ASSUME IsFiniteSet(mData), AreMatrices(mData)
  PROVE  M!ReloadFromFile(M!SaveToFile) = mData
<1> DEFINE widths == {a.m : a \in mData}
           Of(w) == M!MatricesWithWidth(mData, w)
<1>1. M!SaveToFile = [w \in widths |-> Saved(Of(w))]
  BY DEF M!SaveToFile, Saved
<1>2. ASSUME NEW w \in widths PROVE M!ReadSet(Saved(Of(w)), w) = Of(w)
  <2>1. Of(w) \subseteq mData /\ \A a \in Of(w) : a.m = w
    BY DEF M!MatricesWithWidth
  <2> HIDE DEF Of
  <2>2. IsFiniteSet(Of(w)) /\ AreMatrices(Of(w))
    BY <2>1, FS_Subset DEF AreMatrices
  <2> QED BY <2>1, <2>2, SavedIsReadBack
<1> HIDE DEF Of
<1>3. M!ReloadFromFile(M!SaveToFile) = UNION {Of(w) : w \in widths}
  <2> HIDE DEF widths
  <2>1. DOMAIN M!SaveToFile = widths /\ \A w \in widths : M!SaveToFile[w] = Saved(Of(w))
    BY <1>1
  <2>2. M!ReloadFromFile(M!SaveToFile) = UNION {M!ReadSet(M!SaveToFile[w], w) : w \in widths}
    BY <2>1 DEF M!ReloadFromFile
  <2> QED BY <1>2, <2>1, <2>2
<1>4. UNION {Of(w) : w \in widths} = mData
  BY DEF Of, M!MatricesWithWidth
<1> QED BY <1>3, <1>4

(* Products: the elements are sums, and it does not matter what is multiplied  *)
(* first.                                                                      *)
Terms(a, b, i, j) == [k \in 1 .. a.m |-> a.elems[i][k] * b.elems[k][j]]

LEMMA TermsInts ==
  ASSUME NEW a, NEW b, M!IsMatrix(a), M!IsMatrix(b), a.m = b.n, NEW i \in 1 .. a.n, NEW j \in 1 .. b.m
  PROVE  /\ IntValues(Terms(a, b, i, j), a.m)
         /\ \A k \in 1 .. a.m : /\ a.elems[i][k] \in Int /\ b.elems[k][j] \in Int
                                /\ Terms(a, b, i, j)[k] = a.elems[i][k] * b.elems[k][j]
<1>1. a.elems \in [1 .. a.n -> [1 .. a.m -> Int]] /\ b.elems \in [1 .. b.n -> [1 .. b.m -> Int]]
  BY MatrixParts
<1>2. \A k \in 1 .. a.m : a.elems[i][k] \in Int /\ b.elems[k][j] \in Int
  BY <1>1
<1>3. \A x, y \in Int : x * y \in Int
  OBVIOUS
<1>4. \A k \in 1 .. a.m : Terms(a, b, i, j)[k] = a.elems[i][k] * b.elems[k][j]
  BY DEF Terms
<1> QED BY <1>2, <1>3, <1>4 DEF IntValues

IsProduct(p, a, b) ==
  /\ M!IsMatrix(p) /\ p.n = a.n /\ p.m = b.m
  /\ \A i \in 1 .. a.n : \A j \in 1 .. b.m : p.elems[i][j] = SumTo(Terms(a, b, i, j), a.m)

LEMMA ProductIs ==
  ASSUME NEW a, NEW b, M!IsMatrix(a), M!IsMatrix(b), a.m = b.n
  PROVE  IsProduct(M!Product(a, b), a, b)
<1> DEFINE e == [i \in 1 .. a.n |-> [j \in 1 .. b.m |-> SumTo(Terms(a, b, i, j), a.m)]]
<1>1. /\ a.n \in Nat /\ a.n > 0 /\ b.m \in Nat /\ b.m > 0 /\ a.m \in Nat
  BY MatrixParts
<1>2. \A i, j : M!Total([k \in 1 .. a.m |-> a.elems[i][k] * b.elems[k][j]]) = SumTo(Terms(a, b, i, j), a.m)
  <2> TAKE i, j
  <2> DEFINE t == [k \in 1 .. a.m |-> a.elems[i][k] * b.elems[k][j]]
  <2>1. [k \in 1 .. a.m |-> t[k]] = t
    OBVIOUS
  <2> HIDE DEF t
  <2>2. M!Total(t) = Total(t)
    BY DEF M!Total, Total
  <2>3. SumTo(t, a.m) = Total(t)
    BY <2>1 DEF SumTo
  <2>4. Terms(a, b, i, j) = t
    BY DEF Terms, t
  <2> QED BY <2>2, <2>3, <2>4 DEF t
<1>3. M!Product(a, b) = [n |-> a.n, m |-> b.m, elems |-> e]
  <2>1. M!Product(a, b) = [n |-> a.n, m |-> b.m, elems |->
          [i \in 1 .. a.n |-> [j \in 1 .. b.m |-> M!Total([k \in 1 .. a.m |-> a.elems[i][k] * b.elems[k][j]])]]]
    BY DEF M!Product
  <2> QED BY <1>2, <2>1
<1>4. ASSUME NEW i \in 1 .. a.n, NEW j \in 1 .. b.m PROVE SumTo(Terms(a, b, i, j), a.m) \in Int
  <2>1. IntValues(Terms(a, b, i, j), a.m)
    BY TermsInts
  <2>2. PICK F \in [0 .. a.m -> Int] : SumsUp(F, Terms(a, b, i, j), a.m) /\ SumTo(Terms(a, b, i, j), a.m) = F[a.m]
    BY <1>1, <2>1, SumToRule
  <2> QED BY <1>1, <2>2
<1>5. /\ e \in [1 .. a.n -> [1 .. b.m -> Int]]
      /\ \A i \in 1 .. a.n : \A j \in 1 .. b.m : e[i][j] = SumTo(Terms(a, b, i, j), a.m)
  BY <1>4
<1> HIDE DEF e
<1>6. M!IsMatrix([n |-> a.n, m |-> b.m, elems |-> e])
  BY <1>1, <1>5, MatrixMade
<1> QED BY <1>3, <1>5, <1>6 DEF IsProduct

LEMMA SameMatrix ==
  ASSUME NEW a, NEW b, M!IsMatrix(a), M!IsMatrix(b), a.n = b.n, a.m = b.m,
         \A i \in 1 .. a.n : \A j \in 1 .. a.m : a.elems[i][j] = b.elems[i][j]
  PROVE  a = b
<1>1. /\ a = [n |-> a.n, m |-> a.m, elems |-> a.elems] /\ a.elems \in [1 .. a.n -> [1 .. a.m -> Int]]
      /\ b = [n |-> b.n, m |-> b.m, elems |-> b.elems] /\ b.elems \in [1 .. a.n -> [1 .. a.m -> Int]]
  BY MatrixParts
<1>2. /\ a.elems = [i \in 1 .. a.n |-> [j \in 1 .. a.m |-> a.elems[i][j]]]
      /\ b.elems = [i \in 1 .. a.n |-> [j \in 1 .. a.m |-> b.elems[i][j]]]
  BY <1>1
<1>3. a.elems = b.elems
  BY <1>2
<1> QED BY <1>1, <1>3

LEMMA ProductAssociative ==
  ASSUME NEW b, NEW a, NEW x, M!IsMatrix(b), M!IsMatrix(a), M!IsMatrix(x), b.m = a.n, a.m = x.n
  PROVE  M!Product(b, M!Product(a, x)) = M!Product(M!Product(b, a), x)
<1> DEFINE ax == M!Product(a, x)
           ba == M!Product(b, a)
<1>1. IsProduct(ax, a, x) /\ M!IsMatrix(ax) /\ ax.n = a.n /\ ax.m = x.m
  <2>1. IsProduct(ax, a, x)
    BY ProductIs
  <2> QED BY <2>1 DEF IsProduct
<1>2. IsProduct(ba, b, a) /\ M!IsMatrix(ba) /\ ba.n = b.n /\ ba.m = a.m
  <2>1. IsProduct(ba, b, a)
    BY ProductIs
  <2> QED BY <2>1 DEF IsProduct
<1>3. \A k \in 1 .. a.n : \A j \in 1 .. x.m : ax.elems[k][j] = SumTo(Terms(a, x, k, j), a.m)
  BY <1>1 DEF IsProduct
<1>4. \A i \in 1 .. b.n : \A l \in 1 .. a.m : ba.elems[i][l] = SumTo(Terms(b, a, i, l), b.m)
  BY <1>2 DEF IsProduct
<1>5. b.m \in Nat /\ a.m \in Nat
  BY MatrixParts
<1> HIDE DEF ax, ba
<1>6. IsProduct(M!Product(b, ax), b, ax)
  BY <1>1, ProductIs
<1>7. IsProduct(M!Product(ba, x), ba, x)
  BY <1>2, ProductIs
<1>8. ASSUME NEW i \in 1 .. b.n, NEW j \in 1 .. x.m
      PROVE  M!Product(b, ax).elems[i][j] = M!Product(ba, x).elems[i][j]
  <2> DEFINE p == [k \in 1 .. b.m |-> [l \in 1 .. a.m |-> b.elems[i][k] * (a.elems[k][l] * x.elems[l][j])]]
             rows == Terms(b, ax, i, j)
             cols == Terms(ba, x, i, j)
  <2>1. M!Product(b, ax).elems[i][j] = SumTo(rows, b.m)
    BY <1>1, <1>6 DEF IsProduct
  <2>2. M!Product(ba, x).elems[i][j] = SumTo(cols, a.m)
    BY <1>2, <1>7 DEF IsProduct
  <2>3. \A k \in 1 .. b.m : b.elems[i][k] \in Int /\ rows[k] = b.elems[i][k] * ax.elems[k][j]
    BY <1>1, TermsInts
  <2>4. \A l \in 1 .. a.m : x.elems[l][j] \in Int /\ cols[l] = ba.elems[i][l] * x.elems[l][j]
    BY <1>2, TermsInts
  <2>5. \A k \in 1 .. b.m : /\ IntValues(Terms(a, x, k, j), a.m)
                            /\ \A l \in 1 .. a.m : /\ a.elems[k][l] \in Int
                                                   /\ Terms(a, x, k, j)[l] = a.elems[k][l] * x.elems[l][j]
    BY TermsInts
  <2>6. \A l \in 1 .. a.m : /\ IntValues(Terms(b, a, i, l), b.m)
                            /\ \A k \in 1 .. b.m : Terms(b, a, i, l)[k] = b.elems[i][k] * a.elems[k][l]
    BY TermsInts
  <2>7. \A k \in 1 .. b.m : \A l \in 1 .. a.m : p[k][l] = b.elems[i][k] * (a.elems[k][l] * x.elems[l][j])
    OBVIOUS
  <2> HIDE DEF p, rows, cols
  <2>8. \A u, v, w \in Int : u * (v * w) \in Int /\ u * (v * w) = w * (u * v)
    OBVIOUS
  <2>9. \A k \in 1 .. b.m : IntValues(p[k], a.m)
    BY <2>3, <2>4, <2>5, <2>7, <2>8 DEF IntValues
  <2>10. ASSUME NEW k \in 1 .. b.m PROVE rows[k] = SumTo(p[k], a.m)
    <3>1. \A l \in 1 .. a.m : p[k][l] = b.elems[i][k] * Terms(a, x, k, j)[l]
      BY <2>5, <2>7
    <3>2. b.elems[i][k] \in Int /\ IntValues(Terms(a, x, k, j), a.m)
      BY <2>3, <2>5
    <3>3. SumTo(p[k], a.m) = b.elems[i][k] * SumTo(Terms(a, x, k, j), a.m)
      BY <1>5, <3>1, <3>2, SumScaled
    <3>4. ax.elems[k][j] = SumTo(Terms(a, x, k, j), a.m)
      BY <1>3
    <3> QED BY <2>3, <3>3, <3>4
  <2>11. ASSUME NEW l \in 1 .. a.m PROVE cols[l] = SumTo([k \in 1 .. b.m |-> p[k][l]], b.m)
    <3> DEFINE col == [k \in 1 .. b.m |-> p[k][l]]
    <3>1. \A k \in 1 .. b.m : col[k] = p[k][l]
      OBVIOUS
    <3> HIDE DEF col
    <3>2. \A k \in 1 .. b.m : col[k] = x.elems[l][j] * Terms(b, a, i, l)[k]
      BY <2>3, <2>4, <2>5, <2>6, <2>7, <2>8, <3>1
    <3>3. x.elems[l][j] \in Int /\ IntValues(Terms(b, a, i, l), b.m)
      BY <2>4, <2>6
    <3>4. SumTo(col, b.m) = x.elems[l][j] * SumTo(Terms(b, a, i, l), b.m)
      BY <1>5, <3>2, <3>3, SumScaled
    <3>5. ba.elems[i][l] = SumTo(Terms(b, a, i, l), b.m)
      BY <1>4
    <3>6. SumTo(Terms(b, a, i, l), b.m) \in Int
      <4>1. PICK F \in [0 .. b.m -> Int] :
              SumsUp(F, Terms(b, a, i, l), b.m) /\ SumTo(Terms(b, a, i, l), b.m) = F[b.m]
        BY <1>5, <3>3, SumToRule
      <4> QED BY <1>5, <4>1
    <3>7. \A u, v \in Int : u * v = v * u
      OBVIOUS
    <3>8. cols[l] = SumTo(col, b.m)
      BY <2>4, <3>3, <3>4, <3>5, <3>6, <3>7
    <3> QED BY <3>8 DEF col
  <2>12. Exchanges(p, rows, cols, b.m, a.m)
    BY <2>9, <2>10, <2>11 DEF Exchanges
  <2>13. SumTo(rows, b.m) = SumTo(cols, a.m)
    BY <1>5, <2>12, SumExchanged
  <2> QED BY <2>1, <2>2, <2>13
<1>9. M!Product(b, ax) = M!Product(ba, x)
  <2> DEFINE u == M!Product(b, ax)
             v == M!Product(ba, x)
  <2>1. /\ M!IsMatrix(u) /\ u.n = b.n /\ u.m = x.m /\ M!IsMatrix(v) /\ v.n = b.n /\ v.m = x.m
        /\ \A i \in 1 .. b.n : \A j \in 1 .. x.m : u.elems[i][j] = v.elems[i][j]
    BY <1>1, <1>2, <1>6, <1>7, <1>8 DEF IsProduct
  <2> HIDE DEF u, v
  <2>2. u = v
    BY <2>1, SameMatrix
  <2> QED BY <2>2 DEF u, v
<1> QED BY <1>9 DEF ax, ba

(* What holds of the database, and of the file when it is read: of two         *)
(* matrices at most one could have been multiplied by the other as it came.    *)
NoRings(d) == \A a, b \in d : a # b /\ a.n = b.m => b.n # a.m /\ \A c \in d \ {a, b} : ~(b.n = c.m /\ c.n = a.m)
Proper(d) == IsFiniteSet(d) /\ AreMatrices(d) /\ NoRings(d)

DataInv ==
  /\ Proper(mData) /\ Proper(M!ReloadFromFile(mFile))
  /\ IF mUp THEN stored \subseteq mData ELSE mData = {} /\ stored \subseteq M!ReloadFromFile(mFile)

(* What the loop relies on: past the listener the vector has clients, and a    *)
(* connection that waits finds a descriptor.                                   *)
Messages == {M!NoMessage} \cup M!Plain \cup {M!Standard(a, TRUE) : a \in Matrix} \cup {M!Standard(a, FALSE) : a \in Matrix}

LoopInv ==
  /\ message \in [Fd -> Messages] /\ conn \in [Fd -> {"unused", "open", "gone"}]
  /\ clients \in Seq(Fd \cup {Listener}) /\ \A i \in 2 .. Len(clients) : clients[i] \in Fd
  /\ it \in Nat /\ (it = 0 \/ it >= 2)
  /\ pending => \E fd \in Fd : conn[fd] = "unused"
  /\ Listener \in rfds => pending

MatrixInv == DataInv /\ LoopInv

LEMMA NothingProper == Proper({})
BY FS_EmptySet DEF Proper, AreMatrices, NoRings

LEMMA ProperWithOne ==
  ASSUME NEW d, Proper(d), NEW x, M!IsMatrix(x), \A a \in d : a.m # x.n
  PROVE  Proper(d \cup {x})
<1>1. IsFiniteSet(d \cup {x})
  BY FS_AddElement DEF Proper
<1>2. AreMatrices(d \cup {x})
  BY DEF Proper, AreMatrices
<1>3. ASSUME NEW a \in d \cup {x}, NEW b \in d \cup {x}, a # b, a.n = b.m
      PROVE  b.n # a.m /\ \A c \in (d \cup {x}) \ {a, b} : ~(b.n = c.m /\ c.n = a.m)
  <2>1. CASE a \in d /\ b \in d
    <3>1. b.n # a.m /\ \A c \in d \ {a, b} : ~(b.n = c.m /\ c.n = a.m)
      BY <1>3, <2>1 DEF Proper, NoRings
    <3>2. a.m # x.n
      BY <2>1
    <3> QED BY <3>1, <3>2
  <2>2. CASE a = x /\ b \in d
    BY <1>3, <2>2
  <2>3. CASE a \in d /\ b = x
    BY <1>3, <2>3
  <2> QED BY <1>3, <2>1, <2>2, <2>3
<1> QED BY <1>1, <1>2, <1>3 DEF Proper, NoRings

(* A matrix that comes.                                                        *)
LEMMA InteractKeeps ==
  ASSUME DataInv, mUp, NEW i, NEW mat, M!IsMatrix(mat), M!Interact(i, mat)
  PROVE  Proper(mData') /\ stored' \subseteq mData'
<1>1. CASE M!Multipliers(mat) = {}
  <2> DEFINE w == M!MatricesWithWidth(mData, mat.m)
  <2>1. mData' = (mData \ w) \cup M!InsertMatrix(w, mat) /\ stored' = stored \cup {mat}
    BY <1>1 DEF M!Interact, M!InteractWithMatrix
  <2>2. w \subseteq mData /\ \A a \in mData : a.m # mat.n
    BY <1>1 DEF M!Multipliers, M!MatricesWithWidth
  <2> HIDE DEF w
  <2>3. AreMatrices(w)
    BY <2>2 DEF DataInv, Proper, AreMatrices
  <2>4. M!InsertMatrix(w, mat) = w \cup {mat}
    BY <2>3, InsertedOne
  <2>5. mData' = mData \cup {mat}
    BY <2>1, <2>2, <2>4
  <2>6. Proper(mData \cup {mat})
    BY <2>2, ProperWithOne DEF DataInv
  <2> QED BY <2>1, <2>5, <2>6 DEF DataInv
<1>2. CASE M!Multipliers(mat) # {}
  BY <1>2 DEF M!Interact, M!InteractWithMatrix, DataInv
<1> QED BY <1>1, <1>2

LEMMA OffKeeps ==
  ASSUME DataInv, mUp, M!Off, stored' = stored
  PROVE  DataInv'
<1>1. /\ mUp' = FALSE /\ mFile' = M!SaveToFile /\ mData' = {}
  BY DEF M!Off
<1>2. M!ReloadFromFile(mFile') = mData
  <2>1. IsFiniteSet(mData) /\ AreMatrices(mData)
    BY DEF DataInv, Proper
  <2>2. M!ReloadFromFile(M!SaveToFile) = mData
    BY <2>1, ReloadsWhatWasSaved
  <2> QED BY <1>1, <2>2
<1> QED BY <1>1, <1>2, NothingProper DEF DataInv

LEMMA DiesKeeps ==
  ASSUME DataInv, M!Dies
  PROVE  DataInv'
<1>1. mUp' = FALSE /\ mData' = {} /\ stored' = M!ReloadFromFile(mFile) /\ mFile' = mFile
  BY DEF M!Dies
<1> QED BY <1>1, NothingProper DEF DataInv

LEMMA QuietLoop == ASSUME M!Quiet, M!MatrixAssumption PROVE LoopInv'
<1>1. /\ clients' = << Listener >> /\ rfds' = {} /\ it' = 0 /\ pending' = FALSE
      /\ conn' = [fd \in Fd |-> "unused"] /\ message' = [fd \in Fd |-> M!NoMessage]
  BY DEF M!Quiet
<1>2. << Listener >> \in Seq(Fd \cup {Listener}) /\ \A i \in 2 .. Len(<< Listener >>) : << Listener >>[i] \in Fd
  OBVIOUS
<1>3. [fd \in Fd |-> M!NoMessage] \in [Fd -> Messages]
  BY DEF Messages
<1> QED BY <1>1, <1>2, <1>3 DEF LoopInv

LEMMA FitClient ==
  ASSUME LoopInv, M!MatrixAssumption, NEW i, M!Fit(i)
  PROVE  i \in Nat /\ i \in 2 .. Len(clients) /\ clients[i] \in Fd
<1>1. it \in Nat /\ it >= 2 /\ Len(clients) \in Nat
  BY DEF LoopInv, M!Fit
<1>2. M!Visited \in SUBSET Nat /\ M!Visited # {} /\ i = M!Min(M!Visited)
  BY <1>1 DEF M!Fit, M!Visited
<1>3. M!Min(M!Visited) = Min(M!Visited)
  BY DEF M!Min, Min
<1>4. i \in M!Visited
  BY <1>2, <1>3, MinOfNaturals
<1>5. i \in it .. Len(clients)
  BY <1>4 DEF M!Visited
<1> QED BY <1>1, <1>5 DEF LoopInv

LEMMA MatrixOfMessage ==
  ASSUME M!MatrixAssumption, NEW msg \in Messages, msg.code = "Q_STANDARD"
  PROVE  msg.mat \in Matrix /\ M!IsMatrix(msg.mat)
<1>1. msg # M!NoMessage
  BY DEF M!NoMessage
<1>2. msg \notin M!Plain
  BY DEF M!Plain
<1>3. PICK a \in Matrix : msg = M!Standard(a, TRUE) \/ msg = M!Standard(a, FALSE)
  BY <1>1, <1>2 DEF Messages
<1>4. msg.mat = a
  BY <1>3 DEF M!Standard
<1>5. M!IsMatrix(a)
  BY DEF M!MatrixAssumption
<1> QED BY <1>4, <1>5

LEMMA MatrixInitInv == ASSUME M!MatrixAssumption PROVE M!Init => MatrixInv
<1> SUFFICES ASSUME M!Init PROVE MatrixInv
  OBVIOUS
<1>1. /\ mUp /\ mData = {} /\ mFile = << >> /\ stored = {}
      /\ clients = << Listener >> /\ rfds = {} /\ it = 0 /\ pending = FALSE
      /\ conn = [fd \in Fd |-> "unused"] /\ message = [fd \in Fd |-> M!NoMessage]
  BY DEF M!Init
<1>2. M!ReloadFromFile(<< >>) = {}
  <2>1. DOMAIN << >> = {}
    OBVIOUS
  <2> QED BY <2>1 DEF M!ReloadFromFile
<1>3. DataInv
  BY <1>1, <1>2, NothingProper DEF DataInv
<1>4. << Listener >> \in Seq(Fd \cup {Listener}) /\ \A i \in 2 .. Len(<< Listener >>) : << Listener >>[i] \in Fd
  OBVIOUS
<1>5. [fd \in Fd |-> M!NoMessage] \in [Fd -> Messages]
  BY DEF Messages
<1>6. LoopInv
  BY <1>1, <1>4, <1>5 DEF LoopInv
<1> QED BY <1>3, <1>6 DEF MatrixInv

LEMMA NoMessageIn == M!NoMessage \in Messages
BY DEF Messages

LEMMA DataStays ==
  ASSUME DataInv, UNCHANGED << mUp, mData, mFile, stored >> PROVE DataInv'
BY DEF DataInv

LEMMA MatrixClientsKeep == ASSUME MatrixInv, M!MatrixAssumption, M!Client PROVE MatrixInv'
<1>1. CASE M!Connect
  <2>1. UNCHANGED << mUp, mData, mFile, stored, clients, rfds, it, conn, message >> /\ pending' = TRUE
        /\ \E fd \in Fd : conn[fd] = "unused"
    BY <1>1 DEF M!Connect, M!Server
  <2>2. DataInv'
    BY <2>1, DataStays DEF MatrixInv
  <2>3. LoopInv'
    BY <2>1 DEF MatrixInv, LoopInv
  <2> QED BY <2>2, <2>3 DEF MatrixInv
<1>2. ASSUME NEW fd \in Fd, NEW msg \in Messages,
             UNCHANGED << M!Server, pending, conn >>, message' = [message EXCEPT ![fd] = msg]
      PROVE  MatrixInv'
  <2>1. UNCHANGED << mUp, mData, mFile, stored, clients, rfds, it, pending, conn >>
    BY <1>2 DEF M!Server
  <2>2. DataInv'
    BY <2>1, DataStays DEF MatrixInv
  <2>3. message' \in [Fd -> Messages]
    BY <1>2 DEF MatrixInv, LoopInv
  <2>4. LoopInv'
    BY <2>1, <2>3 DEF MatrixInv, LoopInv
  <2> QED BY <2>2, <2>4 DEF MatrixInv
<1>3. ASSUME NEW fd \in Fd, M!Finish(fd) PROVE MatrixInv'
  <2>1. message[fd] \in Messages /\ message[fd].code = "Q_STANDARD"
    BY <1>3 DEF M!Finish, MatrixInv, LoopInv
  <2>2. message[fd].mat \in Matrix
    BY <2>1, MatrixOfMessage
  <2>3. M!Standard(message[fd].mat, TRUE) \in Messages
    BY <2>2 DEF Messages
  <2>4. UNCHANGED << M!Server, pending, conn >> /\ message' = [message EXCEPT ![fd] = M!Standard(message[fd].mat, TRUE)]
    BY <1>3 DEF M!Finish
  <2> QED BY <1>2, <2>3, <2>4
<1>4. ASSUME NEW fd \in Fd, M!Leave(fd) PROVE MatrixInv'
  <2>1. UNCHANGED << mUp, mData, mFile, stored, clients, rfds, it, pending, message >>
    BY <1>4 DEF M!Leave, M!Server
  <2>2. conn[fd] = "open" /\ conn' = [conn EXCEPT ![fd] = "gone"]
    BY <1>4 DEF M!Leave
  <2>3. DataInv'
    BY <2>1, DataStays DEF MatrixInv
  <2>4. LoopInv
    BY DEF MatrixInv
  <2>5. /\ conn' \in [Fd -> {"unused", "open", "gone"}]
        /\ pending => \E g \in Fd : conn'[g] = "unused"
    BY <2>2, <2>4 DEF LoopInv
  <2>6. LoopInv'
    BY <2>1, <2>4, <2>5 DEF LoopInv
  <2> QED BY <2>3, <2>6 DEF MatrixInv
<1>5. ASSUME NEW fd \in Fd, NEW msg \in M!Plain \cup {M!Standard(a, FALSE) : a \in Matrix}, M!Send(fd, msg)
      PROVE  MatrixInv'
  <2>1. msg \in Messages
    BY DEF Messages
  <2>2. UNCHANGED << M!Server, pending, conn >> /\ message' = [message EXCEPT ![fd] = msg]
    BY <1>5 DEF M!Send
  <2> QED BY <1>2, <2>1, <2>2
<1> QED BY <1>1, <1>3, <1>4, <1>5 DEF M!Client

LEMMA MatrixSelectKeeps == ASSUME MatrixInv, M!MatrixAssumption, M!Select PROVE MatrixInv'
<1>1. UNCHANGED << mUp, mData, mFile, stored, clients, pending, conn, message >> /\ it' = 2
  BY DEF M!Select
<1>2. rfds' = M!Readable \cup (IF pending THEN {Listener} ELSE {})
  BY DEF M!Select
<1>3. M!Readable \subseteq Fd /\ Listener \notin Fd
  BY DEF M!Readable, M!MatrixAssumption
<1>4. Listener \in rfds' => pending
  BY <1>2, <1>3
<1>5. DataInv'
  BY <1>1, DataStays DEF MatrixInv
<1>6. LoopInv'
  BY <1>1, <1>4 DEF MatrixInv, LoopInv
<1> QED BY <1>5, <1>6 DEF MatrixInv

LEMMA DiesInv == ASSUME MatrixInv, M!MatrixAssumption, M!Dies PROVE MatrixInv'
<1>1. M!Quiet
  BY DEF M!Dies
<1> QED BY <1>1, DiesKeeps, QuietLoop DEF MatrixInv

LEMMA OffInv == ASSUME MatrixInv, M!MatrixAssumption, mUp, M!Off, stored' = stored PROVE MatrixInv'
<1>1. M!Quiet
  BY DEF M!Off
<1> QED BY <1>1, OffKeeps, QuietLoop DEF MatrixInv

LEMMA TakenAway ==
  ASSUME NEW V, NEW s \in Seq(V), NEW i \in 1 .. Len(s)
  PROVE  M!RemoveAt(s, i) = [k \in 1 .. Len(s) - 1 |-> IF k < i THEN s[k] ELSE s[k + 1]]
<1> DEFINE t == M!RemoveAt(s, i)
<1>1. t = SubSeq(s, 1, i - 1) \o SubSeq(s, i + 1, Len(s))
  BY DEF M!RemoveAt
<1>2. i \in Nat /\ 1 <= i /\ i <= i + 1 /\ i <= Len(s) /\ Len(s) - (i - (i - 1)) = Len(s) - 1 /\ Len(s) \in Nat
  OBVIOUS
<1> HIDE DEF t
<1>3. /\ t \in Seq(V) /\ Len(t) = Len(s) - (i - (i - 1))
      /\ \A k \in 1 .. Len(t) : t[k] = IF k < i THEN s[k] ELSE s[k + (i - (i - 1))]
  <2> DEFINE u == SubSeq(s, 1, i - 1) \o SubSeq(s, i + 1, Len(s))
  <2>1. /\ u \in Seq(V) /\ Len(u) = Len(s) - (i - (i - 1))
        /\ \A k \in 1 .. Len(u) : u[k] = IF k < i THEN s[k] ELSE s[k + (i - (i - 1))]
    BY <1>2, CutOut, ZenonT(30)
  <2>2. t = u
    BY <1>1
  <2> HIDE DEF u
  <2> QED BY <2>1, <2>2
<1>4. \A k \in 1 .. Len(s) - 1 : t[k] = IF k < i THEN s[k] ELSE s[k + 1]
  BY <1>2, <1>3
<1>5. t = [k \in 1 .. Len(s) - 1 |-> t[k]]
  BY <1>2, <1>3
<1>6. t = [k \in 1 .. Len(s) - 1 |-> IF k < i THEN s[k] ELSE s[k + 1]]
  BY <1>4, <1>5
<1> QED BY <1>6 DEF t

LEMMA ForgetKeeps == ASSUME MatrixInv, M!MatrixAssumption, NEW i, M!Forget(i) PROVE MatrixInv'
<1>1. UNCHANGED << mUp, mData, mFile, stored, rfds, pending, conn, message >> /\ it' = i + 1
      /\ clients' = M!RemoveAt(clients, i) /\ M!Fit(i)
  BY DEF M!Forget
<1>2. LoopInv
  BY DEF MatrixInv
<1>3. i \in Nat /\ i \in 2 .. Len(clients)
  BY <1>1, <1>2, FitClient
<1> DEFINE n == Len(clients)
<1>4. n \in Nat /\ clients \in [1 .. n -> Fd \cup {Listener}] /\ \A k \in 2 .. n : clients[k] \in Fd
  BY <1>2 DEF LoopInv
<1>5. M!RemoveAt(clients, i) = [k \in 1 .. n - 1 |-> IF k < i THEN clients[k] ELSE clients[k + 1]]
  BY <1>2, <1>3, TakenAway DEF LoopInv
<1> HIDE DEF n
<1>6. \A k \in 1 .. n - 1 : k \in 1 .. n /\ k + 1 \in 1 .. n /\ k + 1 \in 2 .. n /\ (k >= 2 => k \in 2 .. n)
  BY <1>4
<1> DEFINE t == [k \in 1 .. n - 1 |-> IF k < i THEN clients[k] ELSE clients[k + 1]]
<1>7. n - 1 \in Nat /\ t \in [1 .. n - 1 -> Fd \cup {Listener}]
  BY <1>3, <1>4, <1>6 DEF n
<1>8. \A k \in 2 .. n - 1 : t[k] \in Fd
  BY <1>4, <1>6
<1> HIDE DEF t
<1>9. t \in Seq(Fd \cup {Listener}) /\ Len(t) = n - 1
  BY <1>7
<1>10. clients' = t
  BY <1>1, <1>5 DEF t
<1>11. DataInv'
  BY <1>1, DataStays DEF MatrixInv
<1>12. i + 1 \in Nat /\ i + 1 >= 2
  BY <1>3
<1>13. LoopInv'
  BY <1>1, <1>2, <1>8, <1>9, <1>10, <1>12 DEF LoopInv
<1> QED BY <1>11, <1>13 DEF MatrixInv

(* The message is handled, and the loop goes on.                               *)
LEMMA GoesKeeps ==
  ASSUME LoopInv, M!MatrixAssumption, NEW i, M!Fit(i), M!Goes(i) PROVE LoopInv'
<1>1. UNCHANGED << clients, rfds, pending, conn >> /\ it' = i + 1
      /\ message' = [message EXCEPT ![clients[i]] = M!NoMessage]
  BY DEF M!Goes
<1>2. i \in Nat /\ i \in 2 .. Len(clients)
  BY FitClient
<1>3. message' \in [Fd -> Messages]
  BY <1>1, NoMessageIn DEF LoopInv
<1>4. i + 1 \in Nat /\ i + 1 >= 2
  BY <1>2
<1> QED BY <1>1, <1>3, <1>4 DEF LoopInv

LEMMA QueryKeepsInv == ASSUME MatrixInv, M!MatrixAssumption, NEW i, M!HandleQuery(i) PROVE MatrixInv'
<1> DEFINE msg == message[clients[i]]
<1>1. M!Fit(i) /\ mUp /\ msg.code = "Q_STANDARD"
  BY DEF M!HandleQuery, M!Handles, M!Fit
<1>2. msg \in Messages
  BY <1>1, FitClient DEF MatrixInv, LoopInv
<1>3. M!IsMatrix(msg.mat)
  BY <1>1, <1>2, MatrixOfMessage
<1>4. CASE M!AnswerKills(i)
  BY <1>4, DiesInv DEF M!AnswerKills
<1>5. ASSUME M!Goes(i), NEW mat, M!IsMatrix(mat), M!Interact(i, mat) PROVE MatrixInv'
  <2>1. UNCHANGED << mUp, mFile >>
    BY <1>5 DEF M!Goes
  <2>2. Proper(mData') /\ stored' \subseteq mData'
    BY <1>1, <1>5, InteractKeeps DEF MatrixInv
  <2>3. DataInv'
    BY <1>1, <2>1, <2>2 DEF MatrixInv, DataInv
  <2>4. LoopInv'
    BY <1>1, <1>5, GoesKeeps DEF MatrixInv
  <2> QED BY <2>3, <2>4 DEF MatrixInv
<1>6. ASSUME M!Goes(i), UNCHANGED << mData, stored >> PROVE MatrixInv'
  <2>1. UNCHANGED << mUp, mFile >>
    BY <1>6 DEF M!Goes
  <2>2. DataInv'
    BY <1>6, <2>1, DataStays DEF MatrixInv
  <2>3. LoopInv'
    BY <1>1, <1>6, GoesKeeps DEF MatrixInv
  <2> QED BY <2>2, <2>3 DEF MatrixInv
<1>7. ASSUME M!Goes(i), NEW came \in 0 .. msg.mat.n * msg.mat.m - 1, M!Interact(i, M!FromBuffer(msg.mat, came))
      PROVE  MatrixInv'
  <2>1. came \in Nat
    OBVIOUS
  <2>2. M!IsMatrix(M!FromBuffer(msg.mat, came))
    BY <1>3, <2>1, BufferMatrix
  <2> QED BY <1>5, <1>7, <2>2
<1>8. \/ M!AnswerKills(i)
      \/ M!Goes(i) /\ M!Interact(i, msg.mat)
      \/ M!Goes(i) /\ \E came \in 0 .. msg.mat.n * msg.mat.m - 1 : M!Interact(i, M!FromBuffer(msg.mat, came))
      \/ M!Goes(i) /\ UNCHANGED << mData, stored >>
  BY DEF M!HandleQuery
<1> HIDE DEF msg
<1> QED BY <1>3, <1>4, <1>5, <1>6, <1>7, <1>8

LEMMA OtherQueriesKeep ==
  ASSUME MatrixInv, M!MatrixAssumption, NEW i,
         M!ClearDatabase(i) \/ M!Shutdown(i) \/ M!Unknown(i) \/ M!TooLong(i)
  PROVE  MatrixInv'
<1>1. M!Fit(i) /\ mUp
  BY DEF M!ClearDatabase, M!Shutdown, M!Unknown, M!TooLong, M!Handles, M!Fit
<1>2. CASE M!AnswerKills(i)
  BY <1>2, DiesInv DEF M!AnswerKills
<1>3. CASE M!Goes(i)
  <2>1. UNCHANGED << mUp, mFile >> /\ LoopInv'
    BY <1>1, <1>3, GoesKeeps DEF M!Goes, MatrixInv
  <2>2. CASE UNCHANGED << mData, stored >>
    BY <2>1, <2>2, DataStays DEF MatrixInv
  <2>3. CASE mData' = {} /\ stored' = {}
    BY <1>1, <2>1, <2>3, NothingProper DEF MatrixInv, DataInv
  <2>4. \/ UNCHANGED << mData, stored >>
        \/ mData' = {} /\ stored' = {}
        \/ M!AnswerKills(i)
        \/ M!Off /\ stored' = stored
    BY DEF M!ClearDatabase, M!Shutdown, M!Unknown, M!TooLong
  <2>5. CASE M!Off /\ stored' = stored
    BY <1>1, <2>5, OffInv
  <2> QED BY <1>2, <2>2, <2>3, <2>4, <2>5
<1>4. CASE M!Off /\ stored' = stored
  BY <1>1, <1>4, OffInv
<1>5. M!Goes(i) \/ M!AnswerKills(i) \/ (M!Off /\ stored' = stored)
  BY DEF M!ClearDatabase, M!Shutdown, M!Unknown, M!TooLong
<1> QED BY <1>2, <1>3, <1>4, <1>5

LEMMA EndOfRoundKeeps == ASSUME MatrixInv, M!MatrixAssumption, M!EndOfRound PROVE MatrixInv'
<1>1. mUp /\ stored' = stored
  BY DEF M!EndOfRound
<1>2. CASE time_to_stop
  <2>1. M!Off
    BY <1>2 DEF M!EndOfRound
  <2> QED BY <1>1, <2>1, OffInv
<1>3. CASE ~time_to_stop
  <2>1. it' = 0 /\ rfds' = {} /\ UNCHANGED << mUp, mData, mFile, message >>
    BY <1>3 DEF M!EndOfRound
  <2>2. DataInv'
    BY <1>1, <2>1, DataStays DEF MatrixInv
  <2>3. CASE Listener \notin rfds
    <3>1. UNCHANGED << clients, conn, pending >>
      BY <1>3, <2>3 DEF M!EndOfRound
    <3>2. LoopInv'
      BY <2>1, <3>1 DEF MatrixInv, LoopInv
    <3> QED BY <2>2, <3>2 DEF MatrixInv
  <2>4. CASE Listener \in rfds
    <3> DEFINE free == {fd \in Fd : conn[fd] = "unused"}
               new == M!NewFd
    <3>1. clients' = Append(clients, new) /\ conn' = [conn EXCEPT ![new] = "open"] /\ pending' = FALSE
      BY <1>3, <2>4 DEF M!EndOfRound
    <3>2. free \in SUBSET Nat /\ free # {}
      BY <2>4 DEF MatrixInv, LoopInv, M!MatrixAssumption
    <3>3. new = Min(free)
      BY DEF M!NewFd, M!Min, Min
    <3>4. Min(free) \in free
      BY <3>2, MinOfNaturals
    <3>5. new \in Fd
      BY <3>3, <3>4
    <3> HIDE DEF new, free
    <3>6. LoopInv
      BY DEF MatrixInv
    <3>7. conn' \in [Fd -> {"unused", "open", "gone"}]
      BY <3>1, <3>5, <3>6 DEF LoopInv
    <3>8. clients' \in Seq(Fd \cup {Listener}) /\ \A k \in 2 .. Len(clients') : clients'[k] \in Fd
      BY <3>1, <3>5, <3>6 DEF LoopInv
    <3>9. message' \in [Fd -> Messages]
      BY <2>1, <3>6 DEF LoopInv
    <3>10. LoopInv'
      BY <2>1, <3>1, <3>7, <3>8, <3>9 DEF LoopInv
    <3> QED BY <2>2, <3>10 DEF MatrixInv
  <2> QED BY <2>3, <2>4
<1> QED BY <1>2, <1>3

LEMMA MatrixNextInv ==
  ASSUME M!MatrixAssumption, MatrixInv, [M!Next]_(M!vars)
  PROVE  MatrixInv'
<1>1. CASE UNCHANGED M!vars
  BY <1>1 DEF M!vars, MatrixInv, DataInv, LoopInv
<1>2. CASE M!Start
  <2>1. /\ ~mUp /\ mUp' = TRUE /\ mData' = M!ReloadFromFile(mFile) /\ mFile' = mFile /\ stored' = stored
        /\ UNCHANGED << clients, rfds, it, pending, conn, message >>
    BY <1>2 DEF M!Start
  <2>2. DataInv'
    BY <2>1 DEF MatrixInv, DataInv
  <2>3. LoopInv'
    BY <2>1 DEF MatrixInv, LoopInv
  <2> QED BY <2>2, <2>3 DEF MatrixInv
<1>3. CASE M!Killed
  BY <1>3, DiesInv DEF M!Killed
<1>4. CASE M!InteractWithCurrentClient
  BY <1>4, ForgetKeeps, QueryKeepsInv, OtherQueriesKeep DEF M!InteractWithCurrentClient
<1>5. CASE M!Client
  BY <1>5, MatrixClientsKeep
<1>6. CASE M!Select
  BY <1>6, MatrixSelectKeeps
<1>7. CASE M!EndOfRound
  BY <1>7, EndOfRoundKeeps
<1> QED BY <1>1, <1>2, <1>3, <1>4, <1>5, <1>6, <1>7 DEF M!Next

(* After whatever clears, restarts and cut messages no two matrices of the     *)
(* database, and no three in a ring, multiply each other both ways round, any  *)
(* two are ordered, products that are asked for do not throw and are           *)
(* associative, and what a client was told of is there.                        *)
THEOREM MatrixMatricesKept == Spec => []MatricesKept
<1>1. M!MatrixAssumption
  BY SmallAssumption
<1>2. ASSUME MatrixInv PROVE MatricesKept
  <2>1. NoRings(mData) /\ AreMatrices(mData) /\ (mUp => stored \subseteq mData)
    BY <1>2 DEF MatrixInv, DataInv, Proper
  <2>2. \A a, b \in mData : a # b => M!Less(a, b) # M!Less(b, a)
    <3> SUFFICES ASSUME NEW a \in mData, NEW b \in mData, a # b PROVE M!Less(a, b) # M!Less(b, a)
      OBVIOUS
    <3>1. M!Less(a, b) <=> ~M!Less(b, a)
      BY <2>1, LessTotal DEF AreMatrices
    <3> QED BY <3>1, Zenon
  <2>3. ASSUME NEW mat \in Matrix, NEW a \in M!Multipliers(mat)
        PROVE  /\ M!Consistent(a, mat)
               /\ \A b \in M!Multipliers(a) : M!Product(b, M!Product(a, mat)) = M!Product(M!Product(b, a), mat)
    <3>1. M!IsMatrix(mat) /\ M!IsMatrix(a) /\ a.m = mat.n
      BY <1>1, <2>1 DEF M!MatrixAssumption, M!Multipliers, M!MatricesWithWidth, AreMatrices
    <3>2. ASSUME NEW b \in M!Multipliers(a)
          PROVE  M!Product(b, M!Product(a, mat)) = M!Product(M!Product(b, a), mat)
      <4>1. M!IsMatrix(b) /\ b.m = a.n
        BY <2>1 DEF M!Multipliers, M!MatricesWithWidth, AreMatrices
      <4> QED BY <3>1, <4>1, ProductAssociative
    <3> QED BY <3>1, <3>2 DEF M!Consistent
  <2> QED BY <2>1, <2>2, <2>3 DEF MatricesKept, M!MatricesKept, NoRings
<1>3. M!Init => MatrixInv
  BY <1>1, MatrixInitInv
<1>4. MatrixInv /\ [M!Next]_(M!vars) => MatrixInv'
  BY <1>1, MatrixNextInv
<1> QED BY <1>2, <1>3, <1>4, RunsAlone, PTL DEF M!Spec
==================================================================================
