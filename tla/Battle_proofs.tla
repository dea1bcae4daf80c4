------------------------------ MODULE Battle_proofs ------------------------------
(* Proofs about PollLoop and Battle, for any descriptors, slots, fleets and    *)
(* cells: a loop waits only for a descriptor that two slots have, two who play *)
(* have one turn between them, and who hits has it again.                      *)
EXTENDS Battle, Positions_proofs

SlotType == [fd : Fd \cup {Listener}, pollin : BOOLEAN]

SlotFds == {act_set[j].fd : j \in 2 .. Len(act_set)}

(* The slots; a connection that waits can be given a descriptor.               *)
Slots ==
  /\ act_set \in Seq(SlotType)
  /\ Len(act_set) > 0 /\ act_set[1].fd = Listener
  /\ SlotFds \subseteq Fd
  /\ conn \in [Fd -> {"free", "open", "gone"}] /\ unread \in [Fd -> Nat]
  /\ pending \in BOOLEAN /\ (act_set[1].pollin => pending)
  /\ pending => \E fd \in Fd : conn[fd] = "free"

(* A marked slot that is still to be visited can be read without waiting,      *)
(* unless a slot visited before it in the same round has the same descriptor.  *)
Answerable(i) ==
  \/ conn[act_set[i].fd] \in {"gone", "free"} \/ unread[act_set[i].fd] > 0
  \/ \E j \in DOMAIN act_set : act_set[j].fd = act_set[i].fd /\ \A m \in Marked : j < m

(* accept comes before the other visits of a round, and what it returns is the *)
(* descriptor of no marked slot.                                               *)
Marks ==
  /\ \A i \in Marked \ {1} : Answerable(i)
  /\ 1 \in Marked => \A i \in Marked \ {1} : conn[act_set[i].fd] # "free"

LoopInv == Slots /\ Marks

-------------------------------------------------------------------------------
LEMMA LoopInitInv == LoopInit => LoopInv
<1> SUFFICES ASSUME LoopInit PROVE LoopInv
  OBVIOUS
<1>1. act_set = << Slot(Listener) >> /\ conn = [fd \in Fd |-> "free"] /\ unread = [fd \in Fd |-> 0] /\ pending = FALSE
  BY DEF LoopInit
<1>2. Slot(Listener) \in SlotType /\ Slot(Listener).fd = Listener /\ Slot(Listener).pollin = FALSE
  BY DEF Slot, SlotType
<1>3. act_set \in Seq(SlotType) /\ Len(act_set) = 1 /\ act_set[1] = Slot(Listener)
  BY <1>1, <1>2
<1>4. SlotFds = {} /\ Marked = {}
  BY <1>2, <1>3 DEF SlotFds, Marked
<1>5. conn \in [Fd -> {"free", "open", "gone"}] /\ unread \in [Fd -> Nat]
  BY <1>1
<1>6. Len(act_set) > 0 /\ act_set[1].fd = Listener /\ act_set[1].pollin = FALSE
  BY <1>2, <1>3
<1>7. pending \in BOOLEAN /\ (act_set[1].pollin => pending) /\ (pending => \E fd \in Fd : conn[fd] = "free")
  BY <1>1, <1>6, Zenon
<1>8. Slots
  BY <1>3, <1>4, <1>5, <1>6, <1>7, Zenon DEF Slots
<1> QED BY <1>4, <1>8 DEF LoopInv, Marks

(* What the loop has come to is a marked slot, and no later one is marked      *)
(* before it.                                                                  *)
LEMMA Visited ==
  ASSUME Slots, NEW i, Visits(i)
  PROVE  i \in Marked /\ i \in DOMAIN act_set /\ act_set[i].pollin /\ \A m \in Marked : m \in Nat /\ i <= m
<1>1. Marked \subseteq Nat /\ Marked # {} /\ i = Min(Marked)
  BY DEF Marked, Slots, Visits
<1>2. i \in Marked /\ \A m \in Marked : m \in Nat /\ i <= m
  BY <1>1, MinOfNaturals
<1> QED BY <1>2 DEF Marked

(* A slot but the first has a descriptor of a connection.                      *)
LEMMA SlotFd ==
  ASSUME Slots, NEW i \in DOMAIN act_set
  PROVE  i \in 1 .. Len(act_set) /\ (i # 1 => act_set[i].fd \in SlotFds /\ act_set[i].fd \in Fd)
<1>1. i \in 1 .. Len(act_set) /\ Len(act_set) \in Nat
  BY DEF Slots
<1>2. i # 1 => i \in 2 .. Len(act_set)
  BY <1>1
<1> QED BY <1>1, <1>2 DEF Slots, SlotFds

(* With a connection waiting there is a descriptor for it.                     *)
LEMMA NewFdFree ==
  ASSUME Slots, pending
  PROVE  NewFd \in Fd /\ conn[NewFd] = "free"
<1> DEFINE S == {fd \in Fd : conn[fd] = "free"}
<1>1. S \in SUBSET Nat /\ S # {}
  BY LoopAssumption DEF Slots
<1>2. Min(S) \in S
  BY <1>1, MinOfNaturals
<1> QED BY <1>2 DEF NewFd

LEMMA ClearedKeeps ==
  ASSUME Slots, NEW i \in DOMAIN act_set
  PROVE  /\ Cleared(i) \in Seq(SlotType)
         /\ Len(Cleared(i)) = Len(act_set)
         /\ \A j \in 1 .. Len(act_set) : Cleared(i)[j].fd = act_set[j].fd
         /\ Cleared(i)[i].pollin = FALSE
         /\ \A j \in 1 .. Len(act_set) : j # i => Cleared(i)[j] = act_set[j]
<1> DEFINE s == [act_set[i] EXCEPT !.pollin = FALSE]
<1>1. act_set \in Seq(SlotType) /\ act_set[i] \in SlotType /\ i \in 1 .. Len(act_set)
  BY DEF Slots
<1>2. s \in SlotType /\ s.fd = act_set[i].fd /\ s.pollin = FALSE
  BY <1>1 DEF SlotType
<1>3. Cleared(i) = [act_set EXCEPT ![i] = s]
  BY DEF Cleared
<1> HIDE DEF s
<1> QED BY <1>1, <1>2, <1>3

(* A connection comes to its end, and nothing else is different.               *)
FdReleased(fd) == conn' = [conn EXCEPT ![fd] = "free"] /\ unread' = [unread EXCEPT ![fd] = 0]
FdRead(fd)   == conn' = conn /\ unread' = [unread EXCEPT ![fd] = @ - 1] /\ unread[fd] > 0

LEMMA FdMoves ==
  ASSUME Slots, NEW fd \in Fd, FdReleased(fd) \/ FdRead(fd)
  PROVE  /\ conn' \in [Fd -> {"free", "open", "gone"}] /\ unread' \in [Fd -> Nat]
         /\ \A f \in Fd : conn[f] = "free" => conn'[f] = "free"
         /\ \A f \in Fd \ {fd} : conn'[f] = conn[f] /\ unread'[f] = unread[f]
         /\ FdReleased(fd) => conn'[fd] = "free"
BY DEF Slots, FdReleased, FdRead

(* The mark of the slot visited is cleared, and its request read or its        *)
(* descriptor closed.                                                          *)
LEMMA ConsumesKeeps ==
  ASSUME LoopInv, NEW i, i > 1, Visits(i), act_set' = Cleared(i), UNCHANGED pending,
         FdReleased(act_set[i].fd) \/ FdRead(act_set[i].fd)
  PROVE  LoopInv' /\ SlotFds' = SlotFds
<1> DEFINE fd == act_set[i].fd
<1>1. Slots /\ i \in Marked /\ i \in DOMAIN act_set /\ \A m \in Marked : m \in Nat /\ i <= m
  BY Visited DEF LoopInv
<1>2. fd \in Fd /\ i \in 1 .. Len(act_set) /\ Len(act_set) \in Nat /\ 1 \in 1 .. Len(act_set)
  BY <1>1, SlotFd DEF Slots
<1>3. /\ act_set' \in Seq(SlotType) /\ Len(act_set') = Len(act_set)
      /\ \A j \in 1 .. Len(act_set) : act_set'[j].fd = act_set[j].fd
      /\ act_set'[i].pollin = FALSE
      /\ \A j \in 1 .. Len(act_set) : j # i => act_set'[j] = act_set[j]
  BY <1>1, ClearedKeeps
<1>4. /\ conn' \in [Fd -> {"free", "open", "gone"}] /\ unread' \in [Fd -> Nat]
      /\ \A f \in Fd : conn[f] = "free" => conn'[f] = "free"
      /\ \A f \in Fd \ {fd} : conn'[f] = conn[f] /\ unread'[f] = unread[f]
  BY <1>1, <1>2, FdMoves
<1>5. DOMAIN act_set' = DOMAIN act_set /\ DOMAIN act_set = 1 .. Len(act_set)
  BY <1>1, <1>3 DEF Slots
<1>6. SlotFds' = SlotFds
  BY <1>2, <1>3 DEF SlotFds
<1>7. Marked' = Marked \ {i}
  BY <1>3, <1>5 DEF Marked
<1>8. act_set'[1].fd = Listener /\ (act_set'[1].pollin => act_set[1].pollin)
  BY <1>1, <1>2, <1>3 DEF Slots
<1>9. Slots'
  BY <1>1, <1>2, <1>3, <1>4, <1>6, <1>8 DEF Slots
<1>10. ASSUME NEW m \in Marked' PROVE Answerable(m)'
  <2>1. m \in Marked /\ m # i /\ m # 1 /\ m \in DOMAIN act_set
    BY <1>1, <1>2, <1>7 DEF Marked
  <2>2. act_set'[m].fd = act_set[m].fd /\ act_set[m].fd \in Fd /\ Answerable(m)
    BY <1>1, <1>3, <2>1, SlotFd DEF LoopInv, Marks
  <2>3. CASE act_set[m].fd = fd
    <3>1. \A n \in Marked' : i < n
      BY <1>1, <1>2, <1>7
    <3> QED BY <1>1, <1>3, <1>5, <2>2, <2>3, <3>1 DEF Answerable
  <2>4. CASE act_set[m].fd # fd
    <3>1. CASE conn[act_set[m].fd] \in {"gone", "free"} \/ unread[act_set[m].fd] > 0
      BY <1>4, <2>2, <2>4, <3>1 DEF Answerable
    <3>2. ASSUME NEW j \in DOMAIN act_set, act_set[j].fd = act_set[m].fd, \A n \in Marked : j < n
          PROVE  Answerable(m)'
      <4>1. act_set'[j].fd = act_set'[m].fd /\ j \in DOMAIN act_set' /\ \A n \in Marked' : j < n
        BY <1>3, <1>5, <1>7, <2>2, <3>2
      <4> QED BY <4>1 DEF Answerable
    <3> QED BY <2>2, <3>1, <3>2 DEF Answerable
  <2> QED BY <2>3, <2>4
<1>11. 1 \notin Marked'
  BY <1>1, <1>2, <1>7
<1> QED BY <1>6, <1>9, <1>10, <1>11 DEF LoopInv, Marks

(* The last slot takes the place of the one that is closed, with its mark.     *)
LEMMA CloseKeeps ==
  ASSUME LoopInv, NEW i, i > 1, Visits(i), Close(i)
  PROVE  LoopInv' /\ SlotFds' \subseteq SlotFds
<1> DEFINE C == Cleared(i)
           M == [C EXCEPT ![i] = Last(act_set)]
           fd == act_set[i].fd
           L == Len(act_set)
<1>1. Slots /\ i \in Marked /\ i \in DOMAIN act_set /\ \A m \in Marked : m \in Nat /\ i <= m
  BY Visited DEF LoopInv
<1>2. fd \in Fd /\ i \in 1 .. L /\ L \in Nat /\ 1 \in 1 .. L
  BY <1>1, SlotFd DEF Slots
<1>3. act_set' = Without(i) /\ UNCHANGED pending /\ FdReleased(fd)
  BY DEF Close, FdReleased
<1>4. CASE i < L
  <2>1. /\ C \in Seq(SlotType) /\ Len(C) = L
        /\ \A j \in 1 .. L : C[j].fd = act_set[j].fd
        /\ \A j \in 1 .. L : j # i => C[j] = act_set[j]
    BY <1>1, ClearedKeeps
  <2>2. L \in 2 .. L /\ act_set \in Seq(SlotType)
    BY <1>1, <1>2, <1>4 DEF Slots
  <2>3. Last(act_set) = act_set[L] /\ Last(act_set) \in SlotType
    BY <2>2 DEF Last
  <2> HIDE DEF C
  <2>4. /\ M \in Seq(SlotType) /\ Len(M) = L
        /\ \A j \in 1 .. L : M[j] = IF j = i THEN act_set[L] ELSE C[j]
    BY <1>2, <2>1, <2>3
  <2> HIDE DEF M
  <2>5. act_set' = SubSeq(M, 1, L - 1)
    BY <1>3, <1>4, <2>4 DEF Without, Front, C, M
  <2>6. /\ act_set' \in Seq(SlotType) /\ Len(act_set') = L - 1 /\ Len(act_set') > 0
        /\ \A j \in 1 .. L - 1 : act_set'[j] = M[j]
    BY <1>2, <1>4, <2>4, <2>5
  <2>7. \A j \in 1 .. L - 1 : act_set'[j] = IF j = i THEN act_set[L] ELSE act_set[j]
    BY <1>2, <2>1, <2>4, <2>6
  <2>8. DOMAIN act_set = 1 .. L /\ DOMAIN act_set' = 1 .. L - 1
    BY <2>2, <2>6
  <2>9. /\ conn' \in [Fd -> {"free", "open", "gone"}] /\ unread' \in [Fd -> Nat]
        /\ \A f \in Fd : conn[f] = "free" => conn'[f] = "free"
        /\ \A f \in Fd \ {fd} : conn'[f] = conn[f] /\ unread'[f] = unread[f]
        /\ conn'[fd] = "free"
    BY <1>1, <1>2, <1>3, FdMoves
  <2>10. SlotFds' \subseteq SlotFds
    <3> SUFFICES ASSUME NEW j \in 2 .. L - 1 PROVE act_set'[j].fd \in SlotFds
      BY <2>6 DEF SlotFds
    <3>1. j \in 2 .. L /\ j \in 1 .. L - 1
      BY <1>2
    <3> QED BY <2>2, <2>7, <3>1 DEF SlotFds
  <2>11. act_set'[1] = act_set[1]
    BY <1>2, <1>4, <2>7
  <2>12. Slots'
    BY <1>1, <1>3, <2>6, <2>9, <2>10, <2>11 DEF Slots
  <2>13. ASSUME NEW m \in Marked'
         PROVE  m \in 1 .. L - 1 /\ i <= m /\ \E n \in Marked \ {1} : act_set[n].fd = act_set'[m].fd
    <3>1. m \in 1 .. L - 1 /\ act_set'[m].pollin
      BY <2>8 DEF Marked
    <3>2. CASE m = i
      <4>1. L \in Marked \ {1} /\ act_set[L].fd = act_set'[m].fd
        BY <1>2, <2>2, <2>7, <2>8, <3>1, <3>2 DEF Marked
      <4> QED BY <3>1, <3>2, <4>1
    <3>3. CASE m # i
      <4>1. m \in Marked /\ act_set[m].fd = act_set'[m].fd
        BY <1>2, <2>7, <2>8, <3>1, <3>3 DEF Marked
      <4> QED BY <1>1, <1>2, <3>1, <4>1
    <3> QED BY <3>2, <3>3
  <2>14. ASSUME NEW m \in Marked' PROVE Answerable(m)'
    <3>1. PICK n \in Marked \ {1} : act_set[n].fd = act_set'[m].fd
      BY <2>13
    <3>2. n \in DOMAIN act_set /\ n # 1 /\ Answerable(n)
      BY <3>1 DEF LoopInv, Marks, Marked
    <3>3. act_set[n].fd \in Fd
      BY <1>1, <3>2, SlotFd
    <3>4. CASE conn[act_set[n].fd] \in {"gone", "free"} \/ unread[act_set[n].fd] > 0
      BY <2>9, <3>1, <3>3, <3>4 DEF Answerable
    <3>5. ASSUME NEW j \in DOMAIN act_set, act_set[j].fd = act_set[n].fd, \A h \in Marked : j < h
          PROVE  Answerable(m)'
      <4>1. j < i /\ j \in 1 .. L - 1
        BY <1>1, <1>2, <1>4, <2>8, <3>5
      <4>2. act_set'[j] = act_set[j] /\ j \in DOMAIN act_set' /\ \A h \in Marked' : j < h
        BY <1>2, <2>7, <2>8, <2>13, <4>1
      <4> QED BY <3>1, <3>5, <4>2 DEF Answerable
    <3> QED BY <3>2, <3>4, <3>5 DEF Answerable
  <2>15. 1 \notin Marked'
    BY <1>2, <2>13
  <2> QED BY <2>10, <2>12, <2>14, <2>15 DEF LoopInv, Marks
<1>5. CASE ~(i < L)
  BY <1>3, <1>5, ConsumesKeeps DEF Without
<1> QED BY <1>4, <1>5

LEMMA PollKeeps ==
  ASSUME LoopInv, Poll
  PROVE  LoopInv' /\ SlotFds' = SlotFds
<1> DEFINE L == Len(act_set)
<1>1. Slots /\ \A i \in DOMAIN act_set : PollIn(act_set[i].fd) \in BOOLEAN
  BY DEF LoopInv, Slots, PollIn
<1>2. PollIn(act_set[1].fd) = pending
  BY <1>1 DEF Slots, PollIn
<1>3. act_set' = [i \in DOMAIN act_set |-> [act_set[i] EXCEPT !.pollin = PollIn(act_set[i].fd)]] /\ UNCHANGED << conn, unread, pending >>
  BY DEF Poll
<1>4. ASSUME NEW i \in 1 .. L
      PROVE  /\ act_set'[i] \in SlotType /\ act_set'[i].fd = act_set[i].fd
             /\ act_set'[i].pollin = PollIn(act_set[i].fd)
  <2> DEFINE b == PollIn(act_set[i].fd)
  <2>1. i \in DOMAIN act_set /\ b \in BOOLEAN /\ act_set[i] \in SlotType
    BY <1>1 DEF Slots
  <2>2. act_set'[i] = [act_set[i] EXCEPT !.pollin = b]
    BY <1>3, <2>1
  <2> HIDE DEF b
  <2>3. act_set'[i] \in SlotType /\ act_set'[i].fd = act_set[i].fd /\ act_set'[i].pollin = b
    BY <2>1, <2>2 DEF SlotType
  <2> QED BY <2>3 DEF b
<1>5. act_set' \in Seq(SlotType) /\ Len(act_set') = L /\ 1 \in 1 .. L /\ L \in Nat
  <2>1. DOMAIN act_set = 1 .. L /\ L \in Nat /\ L > 0
    BY <1>1 DEF Slots
  <2>2. act_set' \in [1 .. L -> SlotType]
    BY <1>3, <1>4, <2>1
  <2> QED BY <2>1, <2>2
<1>6. SlotFds' = SlotFds
  BY <1>4, <1>5 DEF SlotFds
<1>7. act_set'[1].fd = Listener /\ act_set'[1].pollin = pending
  BY <1>1, <1>2, <1>4, <1>5 DEF Slots
<1>8. Slots'
  BY <1>1, <1>3, <1>5, <1>6, <1>7 DEF Slots
<1>9. ASSUME NEW m \in Marked' \ {1} PROVE Answerable(m)' /\ conn'[act_set'[m].fd] # "free"
  <2>1. m \in 1 .. L /\ m \in DOMAIN act_set /\ act_set'[m].pollin
    BY <1>1, <1>5 DEF Marked, Slots
  <2>2. PollIn(act_set[m].fd) /\ act_set'[m].fd = act_set[m].fd
    BY <1>4, <2>1
  <2>3. act_set[m].fd # Listener
    BY <1>1, <2>1, SlotFd, LoopAssumption
  <2> QED BY <1>3, <2>2, <2>3 DEF PollIn, Answerable
<1> QED BY <1>6, <1>8, <1>9 DEF LoopInv, Marks

LEMMA AcceptKeeps ==
  ASSUME LoopInv, Accept
  PROVE  /\ LoopInv' /\ NewFd \in Fd
         /\ \/ Len(act_set) < MaxSlots /\ SlotFds' \subseteq SlotFds \cup {NewFd}
            \/ Len(act_set) = MaxSlots /\ SlotFds' = SlotFds
<1> DEFINE C == Cleared(1)
           L == Len(act_set)
<1>1. Slots /\ Visits(1) /\ pending' = FALSE
  BY DEF Accept, LoopInv
<1>2. 1 \in Marked /\ 1 \in DOMAIN act_set /\ act_set[1].pollin /\ \A m \in Marked : m \in Nat /\ 1 <= m
  BY <1>1, Visited
<1>3. NewFd \in Fd /\ conn[NewFd] = "free" /\ pending
  BY <1>1, <1>2, NewFdFree DEF Slots
<1>4. /\ C \in Seq(SlotType) /\ Len(C) = L
      /\ \A j \in 1 .. L : C[j].fd = act_set[j].fd
      /\ C[1].pollin = FALSE
      /\ \A j \in 1 .. L : j # 1 => C[j] = act_set[j]
  BY <1>1, <1>2, ClearedKeeps
<1>5. L \in Nat /\ DOMAIN act_set = 1 .. L /\ 1 \in 1 .. L /\ act_set[1].fd = Listener
  BY <1>1 DEF Slots
<1>6. \A m \in Marked \ {1} : Answerable(m) /\ conn[act_set[m].fd] # "free" /\ m \in DOMAIN act_set /\ act_set[m].fd \in Fd
  BY <1>1, <1>2, SlotFd DEF LoopInv, Marks, Marked
<1> HIDE DEF C
(* The marks that are left, whatever comes after the slots there are.          *)
<1>7. ASSUME Marked' = Marked \ {1}, DOMAIN act_set \subseteq DOMAIN act_set', \A j \in 1 .. L : act_set'[j].fd = act_set[j].fd,
             \A f \in Fd \ {NewFd} : conn'[f] = conn[f] /\ unread'[f] = unread[f]
      PROVE  Marks'
  <2> SUFFICES ASSUME NEW m \in Marked \ {1} PROVE Answerable(m)'
    BY <1>7 DEF Marks
  <2>1. act_set'[m].fd = act_set[m].fd /\ act_set[m].fd \in Fd \ {NewFd} /\ Answerable(m)
    BY <1>3, <1>5, <1>6, <1>7
  <2>2. CASE conn[act_set[m].fd] \in {"gone", "free"} \/ unread[act_set[m].fd] > 0
    BY <1>7, <2>1, <2>2 DEF Answerable
  <2>3. ASSUME NEW j \in DOMAIN act_set, act_set[j].fd = act_set[m].fd, \A n \in Marked : j < n
        PROVE  Answerable(m)'
    BY <1>2, <1>5, <2>3
  <2> QED BY <2>1, <2>2, <2>3 DEF Answerable
<1>8. CASE L < MaxSlots /\ Accepted
  <2>1. act_set' = Append(C, Slot(NewFd)) /\ conn' = [conn EXCEPT ![NewFd] = "open"] /\ unread' = [unread EXCEPT ![NewFd] = 0]
    BY <1>8 DEF Accepted, C
  <2>2. Slot(NewFd) \in SlotType /\ Slot(NewFd).fd = NewFd /\ Slot(NewFd).pollin = FALSE
    BY <1>3 DEF Slot, SlotType
  <2>3. /\ act_set' \in Seq(SlotType) /\ Len(act_set') = L + 1
        /\ \A j \in 1 .. L : act_set'[j] = C[j]
        /\ act_set'[L + 1] = Slot(NewFd)
    BY <1>4, <2>1, <2>2
  <2>4. SlotFds' \subseteq SlotFds \cup {NewFd}
    <3> SUFFICES ASSUME NEW j \in 2 .. L + 1 PROVE act_set'[j].fd \in SlotFds \cup {NewFd}
      BY <2>3 DEF SlotFds
    <3>1. CASE j = L + 1
      BY <2>2, <2>3, <3>1
    <3>2. CASE j \in 2 .. L
      BY <1>4, <1>5, <2>3, <3>2 DEF SlotFds
    <3> QED BY <1>5, <3>1, <3>2
  <2>5. act_set'[1].fd = Listener /\ act_set'[1].pollin = FALSE /\ Len(act_set') > 0
    BY <1>4, <1>5, <2>3
  <2>6. conn' \in [Fd -> {"free", "open", "gone"}] /\ unread' \in [Fd -> Nat]
        /\ \A f \in Fd \ {NewFd} : conn'[f] = conn[f] /\ unread'[f] = unread[f]
    BY <1>1, <1>3, <2>1 DEF Slots
  <2>7. SlotFds' \subseteq Fd
    BY <1>1, <1>3, <2>4 DEF Slots
  <2>8. Slots'
    BY <1>1, <2>3, <2>5, <2>6, <2>7 DEF Slots
  <2>9. Marked' = Marked \ {1}
    <3>1. DOMAIN act_set' = 1 .. L + 1
      BY <1>5, <2>3
    <3>2. \A j \in 1 .. L + 1 : act_set'[j].pollin <=> (j \in 1 .. L /\ j # 1 /\ act_set[j].pollin)
      BY <1>4, <1>5, <2>2, <2>3
    <3> QED BY <1>5, <3>1, <3>2 DEF Marked
  <2>10. Marks'
    BY <1>4, <1>5, <1>7, <2>3, <2>6, <2>9
  <2> QED BY <1>3, <1>8, <2>4, <2>8, <2>10 DEF LoopInv
<1>9. CASE L = MaxSlots /\ act_set' = Cleared(1) /\ UNCHANGED << conn, unread >>
  <2>1. act_set' = C
    BY <1>9 DEF C
  <2>2. SlotFds' = SlotFds
    BY <1>4, <1>5, <2>1 DEF SlotFds
  <2>3. Marked' = Marked \ {1}
    <3>1. DOMAIN act_set' = 1 .. L
      BY <1>4, <1>5, <2>1
    <3>2. \A j \in 1 .. L : act_set'[j].pollin <=> (j # 1 /\ act_set[j].pollin)
      BY <1>4, <1>5, <2>1
    <3> QED BY <1>5, <3>1, <3>2 DEF Marked
  <2>4. Marks'
    BY <1>4, <1>5, <1>7, <1>9, <2>1, <2>3
  <2>5. act_set'[1].fd = Listener /\ act_set'[1].pollin = FALSE /\ Len(act_set') > 0 /\ act_set' \in Seq(SlotType)
    BY <1>4, <1>5, <2>1
  <2>6. Slots'
    BY <1>1, <1>9, <2>2, <2>5 DEF Slots
  <2> QED BY <1>3, <1>9, <2>2, <2>4, <2>6 DEF LoopInv
<1> QED BY <1>1, <1>8, <1>9 DEF Accept

(* The clients take no request back.                                           *)
LEMMA ClientKeeps ==
  ASSUME LoopInv, Connect \/ \E fd \in Fd : Send(fd) \/ Leave(fd)
  PROVE  LoopInv' /\ SlotFds' = SlotFds
<1>1. Slots /\ UNCHANGED << act_set >>
  BY DEF LoopInv, Connect, Send, Leave
<1>2. /\ conn' \in [Fd -> {"free", "open", "gone"}] /\ unread' \in [Fd -> Nat]
      /\ \A f \in Fd : /\ conn[f] = "free" <=> conn'[f] = "free"
                       /\ conn[f] = "gone" => conn'[f] = "gone"
                       /\ unread[f] > 0 => unread'[f] > 0
  <2>1. CASE Connect
    BY <1>1, <2>1 DEF Connect, Slots
  <2>2. ASSUME NEW fd \in Fd, Send(fd)
        PROVE  /\ conn' \in [Fd -> {"free", "open", "gone"}] /\ unread' \in [Fd -> Nat]
               /\ conn' = conn /\ \A f \in Fd : unread[f] > 0 => unread'[f] > 0
    BY <1>1, <2>2 DEF Send, Slots
  <2>3. ASSUME NEW fd \in Fd, Leave(fd)
        PROVE  /\ conn' \in [Fd -> {"free", "open", "gone"}] /\ unread' = unread
               /\ \A f \in Fd : (conn[f] = "free" <=> conn'[f] = "free") /\ (conn[f] = "gone" => conn'[f] = "gone")
    BY <1>1, <2>3 DEF Leave, Slots
  <2> QED BY <1>1, <2>1, <2>2, <2>3 DEF Slots
<1>3. SlotFds' = SlotFds /\ Marked' = Marked
  BY <1>1 DEF SlotFds, Marked
<1>4. Slots'
  <2>1. (pending' = TRUE /\ \E fd \in Fd : conn[fd] = "free") \/ UNCHANGED pending
    BY DEF Connect, Send, Leave
  <2>2. (\E fd \in Fd : conn[fd] = "free") => \E fd \in Fd : conn'[fd] = "free"
    BY <1>2
  <2>3. CASE pending' = TRUE /\ \E fd \in Fd : conn[fd] = "free"
    BY <1>1, <1>2, <1>3, <2>2, <2>3 DEF Slots
  <2>4. CASE UNCHANGED pending
    BY <1>1, <1>2, <1>3, <2>2, <2>4 DEF Slots
  <2> QED BY <2>1, <2>3, <2>4
<1>5. ASSUME NEW i \in Marked \ {1}, Answerable(i) PROVE Answerable(i)'
  <2>1. act_set[i].fd \in Fd
    BY <1>1, SlotFd DEF Marked
  <2> QED BY <1>1, <1>2, <1>3, <1>5, <2>1 DEF Answerable
<1>6. \A i \in Marked \ {1} : act_set[i].fd \in Fd
  BY <1>1, SlotFd DEF Marked
<1>7. Marks'
  BY <1>1, <1>2, <1>3, <1>5, <1>6 DEF LoopInv, Marks
<1> QED BY <1>3, <1>4, <1>7 DEF LoopInv

LEMMA LoopStutters ==
  ASSUME LoopInv, UNCHANGED << act_set, conn, unread, pending >>
  PROVE  LoopInv' /\ SlotFds' = SlotFds
BY DEF LoopInv, Slots, SlotFds, Marks, Marked, Answerable

LEMMA NeverBlocked == LoopInv => BlockedByTwin
<1> SUFFICES ASSUME LoopInv, NEW i \in DOMAIN act_set, Visits(i), i > 1, conn[act_set[i].fd] = "open", unread[act_set[i].fd] = 0
             PROVE  \E j \in DOMAIN act_set : j # i /\ act_set[j].fd = act_set[i].fd
  BY DEF BlockedByTwin
<1>1. i \in Marked \ {1} /\ \A m \in Marked : m \in Nat
  BY Visited DEF LoopInv
<1>2. Answerable(i)
  BY <1>1 DEF LoopInv, Marks
<1>3. PICK j \in DOMAIN act_set : act_set[j].fd = act_set[i].fd /\ \A m \in Marked : j < m
  BY <1>2 DEF Answerable
<1>4. j \in Nat /\ i \in Nat /\ j < i
  BY <1>1, <1>3 DEF LoopInv, Slots
<1> QED BY <1>3, <1>4

LEMMA EchoKeeps == LoopInv /\ [EchoNext]_loopvars => LoopInv'
<1> SUFFICES ASSUME LoopInv, [EchoNext]_loopvars PROVE LoopInv'
  OBVIOUS
<1>1. ASSUME NEW i \in DOMAIN act_set, Visits(i), i > 1, Close(i) PROVE LoopInv'
  BY <1>1, CloseKeeps
<1>2. ASSUME NEW i \in DOMAIN act_set, Echoes(i) PROVE LoopInv'
  <2>1. Visits(i) /\ i > 1 /\ act_set' = Cleared(i) /\ UNCHANGED pending /\ FdRead(act_set[i].fd)
    BY <1>2 DEF Echoes, Reads, Consumes, FdRead
  <2> QED BY <2>1, ConsumesKeeps
<1>3. ASSUME NEW i \in DOMAIN act_set, ReadFails(i) \/ Stops(i) PROVE LoopInv'
  BY <1>1, <1>3 DEF ReadFails, ReadsEnd, Stops, Reads
<1>4. ASSUME NEW i \in DOMAIN act_set, Dies(i) PROVE LoopInv'
  BY <1>4, LoopStutters DEF Dies
<1>5. CASE UNCHANGED loopvars
  BY <1>5, LoopStutters DEF loopvars
<1>6. CASE Poll
  BY <1>6, PollKeeps
<1>7. CASE Accept
  BY <1>7, AcceptKeeps
<1>8. CASE Connect \/ \E fd \in Fd : Send(fd) \/ Leave(fd)
  BY <1>8, ClientKeeps
<1> QED BY <1>2, <1>3, <1>4, <1>5, <1>6, <1>7, <1>8 DEF EchoNext, EchoStep

(* The echo server waits in a read only for a descriptor that is in the array  *)
(* twice, whatever the descriptors and the slots: what poll has marked stays   *)
(* readable until the visit, but for what an earlier visit has read of it.     *)
THEOREM EchoBlockedByTwin == LoopInit /\ [][EchoNext]_loopvars => []BlockedByTwin
BY LoopInitInv, EchoKeeps, NeverBlocked, PTL

-------------------------------------------------------------------------------
(* The players.                                                                *)
IsPlayer(p) ==
  p = [status |-> p.status, queue |-> p.queue, numb |-> p.numb, qs |-> p.qs, game |-> p.game, ships |-> p.ships]

PlayersOK(players) == \A k \in DOMAIN players : IsPlayer(players[k]) /\ players[k].queue \in BOOLEAN

(* Who plays is in a game of two, and the two agree on it; who does not has no *)
(* game.                                                                       *)
Matched(players, k) ==
  LET p == players[k]
      o == players[Opponent(k, p.game)]
  IN /\ p.game[1] \in DOMAIN players /\ p.game[2] \in DOMAIN players
     /\ p.game = << p.game[1], p.game[2] >> /\ p.game[1] # p.game[2] /\ k \in {p.game[1], p.game[2]}
     /\ o.status = "InGame" /\ o.game = p.game /\ o.queue # p.queue /\ o.numb # p.numb

GamesAgree(players) ==
  \A k \in DOMAIN players :
    \/ players[k].status = "InGame" /\ Matched(players, k)
    \/ players[k].status = "FREE" /\ players[k].game = NoGame

Games == PlayersOK(Players) /\ GamesAgree(Players)

(* The descriptors of the slots have a Player each.                            *)
Seated == DOMAIN Players \subseteq Fd /\ SlotFds \subseteq DOMAIN Players

(* A Player's game is one of two, even when somebody in it asked for another,  *)
(* and numb_ says which of them the Player is.                                 *)
Sided(players) ==
  \A k \in DOMAIN players :
    LET p == players[k]
    IN p.game # NoGame =>
         /\ p.game = << p.game[1], p.game[2] >> /\ p.game[1] # p.game[2]
         /\ p.game[1] \in DOMAIN players /\ p.game[2] \in DOMAIN players
         /\ p.numb \in {1, 2} /\ k = p.game[p.numb]

Sound(players) == PlayersOK(players) /\ Sided(players)

Inv == LoopInv /\ Seated /\ Sound(Players) /\ (again \/ Games)

(* What HitsKeepTurn says of a step.                                           *)
HitKept ==
  \A k \in DOMAIN Players :
    Wounds(Players'[k]) \ Wounds(Players[k]) # {} =>
      \E f \in DOMAIN Players \ {k} :
        /\ Players[f].game # NoGame /\ k = Opponent(f, Players[f].game)
        /\ Players[f].queue /\ Players'[f].queue

-------------------------------------------------------------------------------
(* The games, by what is done to the players. *)

(* Who plays a game: its two, whichever of them is asked.                      *)
LEMMA Members ==
  ASSUME NEW P, GamesAgree(P), NEW f \in DOMAIN P, P[f].status = "InGame", NEW k \in DOMAIN P
  PROVE  k \in {P[f].game[1], P[f].game[2]} <=> P[k].status = "InGame" /\ P[k].game = P[f].game
<1>1. Matched(P, f)
  BY DEF GamesAgree
<1>2. ASSUME P[k].status = "InGame" PROVE Matched(P, k)
  BY <1>2 DEF GamesAgree
<1>3. ASSUME P[k].status = "InGame", P[k].game = P[f].game PROVE k \in {P[f].game[1], P[f].game[2]}
  BY <1>2, <1>3 DEF Matched
<1>4. ASSUME k \in {P[f].game[1], P[f].game[2]} PROVE P[k].status = "InGame" /\ P[k].game = P[f].game
  BY <1>1, <1>4 DEF Matched, Opponent
<1> QED BY <1>3, <1>4

(* Who plays and against whom is not changed by ships or wounds.               *)
LEMMA GamesKept ==
  ASSUME NEW P, NEW Q, GamesAgree(P), DOMAIN Q = DOMAIN P,
         \A k \in DOMAIN P : /\ Q[k].status = P[k].status /\ Q[k].game = P[k].game
                             /\ Q[k].numb = P[k].numb /\ Q[k].queue = P[k].queue
  PROVE  GamesAgree(Q)
<1> SUFFICES ASSUME NEW k \in DOMAIN P, P[k].status = "InGame", Matched(P, k) PROVE Matched(Q, k)
  BY DEF GamesAgree
<1>1. Opponent(k, P[k].game) \in DOMAIN P
  BY DEF Matched, Opponent
<1> QED BY <1>1 DEF Matched

(* A Player whose turn is set.                                                 *)
LEMMA TurnSet ==
  ASSUME NEW p, IsPlayer(p), NEW b
  PROVE  LET q == [p EXCEPT !.queue = b] IN
         IsPlayer(q) /\ q.queue = b /\ q.status = p.status /\ q.game = p.game /\ q.numb = p.numb
BY DEF IsPlayer

(* Passing the turn.                                                           *)
LEMMA ChangeQKeeps ==
  ASSUME NEW P, PlayersOK(P), GamesAgree(P), NEW f \in DOMAIN P, P[f].status = "InGame"
  PROVE  LET Q == ChangeQ(P, P[f].game) IN PlayersOK(Q) /\ GamesAgree(Q) /\ DOMAIN Q = DOMAIN P
           /\ Q[f].status = "InGame" /\ Q[f].game = P[f].game
<1> DEFINE game == P[f].game
           Q == ChangeQ(P, game)
           Turned(k) == ~P[k].queue
<1>1. /\ DOMAIN Q = DOMAIN P
      /\ \A k \in DOMAIN P : Q[k] = IF k \in {game[1], game[2]} THEN [P[k] EXCEPT !.queue = Turned(k)] ELSE P[k]
  BY DEF ChangeQ
<1>2. \A k \in DOMAIN P : Turned(k) \in BOOLEAN /\ (P[k].queue \in BOOLEAN => Turned(k) # P[k].queue)
  BY Zenon
<1>3. ASSUME NEW k \in DOMAIN P, NEW j \in DOMAIN P, P[k].queue \in BOOLEAN, P[j].queue \in BOOLEAN, P[k].queue # P[j].queue
      PROVE  Turned(k) # Turned(j)
  BY <1>3, Zenon
<1> HIDE DEF Q, Turned
<1>4. ASSUME NEW k \in DOMAIN P
      PROVE  /\ IsPlayer(Q[k]) /\ Q[k].queue \in BOOLEAN
             /\ Q[k].status = P[k].status /\ Q[k].game = P[k].game /\ Q[k].numb = P[k].numb
             /\ Q[k].queue = IF k \in {game[1], game[2]} THEN Turned(k) ELSE P[k].queue
  <2>1. IsPlayer(P[k]) /\ P[k].queue \in BOOLEAN
    BY DEF PlayersOK
  <2>2. CASE k \in {game[1], game[2]}
    <3>1. Q[k] = [P[k] EXCEPT !.queue = Turned(k)] /\ Turned(k) \in BOOLEAN
      BY <1>1, <1>2, <2>2
    <3>2. IsPlayer(Q[k]) /\ Q[k].queue = Turned(k) /\ Q[k].status = P[k].status
          /\ Q[k].game = P[k].game /\ Q[k].numb = P[k].numb
      BY <2>1, <3>1, TurnSet
    <3> QED BY <2>2, <3>1, <3>2
  <2>3. CASE k \notin {game[1], game[2]}
    BY <1>1, <2>1, <2>3
  <2> QED BY <2>2, <2>3
<1>5. ASSUME NEW k \in DOMAIN P, P[k].status = "InGame", Matched(P, k)
      PROVE  Matched(Q, k)
  <2> DEFINE o == Opponent(k, P[k].game)
  <2>1. o \in DOMAIN P /\ P[o].status = "InGame" /\ P[o].game = P[k].game
    BY <1>5 DEF Matched, Opponent
  <2>2. k \in {game[1], game[2]} <=> o \in {game[1], game[2]}
    BY <1>5, <2>1, Members
  <2>3. Q[o].queue # Q[k].queue
    <3>1. P[o].queue # P[k].queue /\ P[o].queue \in BOOLEAN /\ P[k].queue \in BOOLEAN
      BY <1>5, <2>1 DEF Matched, PlayersOK
    <3> QED BY <1>4, <1>3, <2>1, <2>2, <3>1
  <2>4. Q[o].status = "InGame" /\ Q[o].game = P[k].game /\ Q[o].numb # Q[k].numb /\ Q[k].game = P[k].game
    BY <1>4, <1>5, <2>1 DEF Matched
  <2> QED BY <1>1, <1>5, <2>3, <2>4 DEF Matched
<1>6. GamesAgree(Q)
  BY <1>1, <1>4, <1>5 DEF GamesAgree
<1> QED BY <1>1, <1>4, <1>6 DEF PlayersOK, Q

(* The end of a game.                                                          *)
LEMMA FreedKeeps ==
  ASSUME NEW P, PlayersOK(P), GamesAgree(P), NEW f \in DOMAIN P, P[f].status = "InGame"
  PROVE  LET Q == Freed(P, P[f].game) IN PlayersOK(Q) /\ GamesAgree(Q) /\ DOMAIN Q = DOMAIN P
<1> DEFINE game == P[f].game
           Q == Freed(P, game)
<1>1. /\ DOMAIN Q = DOMAIN P
      /\ \A k \in DOMAIN P : Q[k] = IF k \in {game[1], game[2]} THEN [P[k] EXCEPT !.status = "FREE", !.game = NoGame] ELSE P[k]
  BY DEF Freed
<1> HIDE DEF Q
<1>2. ASSUME NEW k \in DOMAIN P
      PROVE  /\ IsPlayer(Q[k]) /\ Q[k].queue \in BOOLEAN
             /\ k \in {game[1], game[2]} => Q[k].status = "FREE" /\ Q[k].game = NoGame
             /\ k \notin {game[1], game[2]} => Q[k] = P[k]
  BY <1>1 DEF PlayersOK, IsPlayer
<1>3. ASSUME NEW k \in DOMAIN P, k \notin {game[1], game[2]}, P[k].status = "InGame", Matched(P, k)
      PROVE  Matched(Q, k)
  <2> DEFINE o == Opponent(k, P[k].game)
  <2>1. o \in DOMAIN P /\ P[o].status = "InGame" /\ P[o].game = P[k].game
    BY <1>3 DEF Matched, Opponent
  <2>2. o \notin {game[1], game[2]}
    BY <1>3, <2>1, Members
  <2> QED BY <1>1, <1>2, <1>3, <2>1, <2>2 DEF Matched
<1>4. GamesAgree(Q)
  <2> SUFFICES ASSUME NEW k \in DOMAIN P
               PROVE  \/ Q[k].status = "InGame" /\ Matched(Q, k)
                      \/ Q[k].status = "FREE" /\ Q[k].game = NoGame
    BY <1>1 DEF GamesAgree
  <2>1. CASE k \in {game[1], game[2]}
    BY <1>2, <2>1
  <2>2. CASE k \notin {game[1], game[2]}
    <3>1. \/ P[k].status = "InGame" /\ Matched(P, k)
          \/ P[k].status = "FREE" /\ P[k].game = NoGame
      BY DEF GamesAgree
    <3>2. Q[k] = P[k]
      BY <1>2, <2>2
    <3> QED BY <1>3, <2>2, <3>1, <3>2
  <2> QED BY <2>1, <2>2
<1> QED BY <1>1, <1>2, <1>4 DEF PlayersOK, Q

(* The beginning of one, by two who are in none.                               *)
LEMMA PairedMatches ==
  ASSUME PlayersOK(Players), NEW fd \in DOMAIN Players, NEW k \in DOMAIN Players, k # fd
  PROVE  LET Q == Paired(fd, k) IN
         /\ PlayersOK(Q) /\ DOMAIN Q = DOMAIN Players
         /\ GamesAgree(Players) /\ Players[fd].status = "FREE" /\ Players[k].status = "FREE" => GamesAgree(Q)
<1> DEFINE Q == Paired(fd, k)
<1>1. /\ DOMAIN Q = DOMAIN Players
      /\ Q[fd] = [Players[fd] EXCEPT !.status = "InGame", !.numb = 1, !.game = << fd, k >>, !.queue = TRUE]
      /\ Q[k] = [Players[k] EXCEPT !.status = "InGame", !.numb = 2, !.game = << fd, k >>, !.queue = FALSE]
      /\ \A j \in DOMAIN Players \ {fd, k} : Q[j] = Players[j]
  BY DEF Paired
<1> HIDE DEF Q
<1>2. /\ IsPlayer(Q[fd]) /\ Q[fd].status = "InGame" /\ Q[fd].numb = 1 /\ Q[fd].game = << fd, k >> /\ Q[fd].queue = TRUE
      /\ IsPlayer(Q[k]) /\ Q[k].status = "InGame" /\ Q[k].numb = 2 /\ Q[k].game = << fd, k >> /\ Q[k].queue = FALSE
  BY <1>1, ZenonT(40) DEF PlayersOK, IsPlayer
<1>3. PlayersOK(Q)
  BY <1>1, <1>2 DEF PlayersOK
<1>4. ASSUME GamesAgree(Players), Players[fd].status = "FREE", Players[k].status = "FREE" PROVE GamesAgree(Q)
  <2>1. Matched(Q, fd) /\ Matched(Q, k)
    <3>1. Opponent(fd, << fd, k >>) = k /\ Opponent(k, << fd, k >>) = fd
      BY DEF Opponent
    <3>2. << fd, k >>[1] = fd /\ << fd, k >>[2] = k
      OBVIOUS
    <3>3. Q[fd].queue # Q[k].queue /\ Q[fd].numb # Q[k].numb
      BY <1>2
    <3> DEFINE g == << fd, k >>
    <3>4. g = << g[1], g[2] >> /\ g[1] \in DOMAIN Q /\ g[2] \in DOMAIN Q /\ g[1] # g[2] /\ {fd, k} = {g[1], g[2]}
      BY <1>1, <3>2
    <3>5. Q[fd].game = g /\ Q[k].game = g /\ Opponent(fd, g) = k /\ Opponent(k, g) = fd
      BY <1>2, <3>1
    <3> HIDE DEF g
    <3>6. Matched(Q, fd)
      BY <1>2, <3>3, <3>4, <3>5 DEF Matched
    <3>7. Matched(Q, k)
      BY <1>2, <3>3, <3>4, <3>5 DEF Matched
    <3> QED BY <3>6, <3>7
  <2>2. ASSUME NEW j \in DOMAIN Players \ {fd, k}, Players[j].status = "InGame", Matched(Players, j)
        PROVE  Matched(Q, j)
    <3>1. /\ Opponent(j, Players[j].game) \in DOMAIN Players
          /\ Players[Opponent(j, Players[j].game)].status = "InGame"
      BY <2>2 DEF Matched, Opponent
    <3>2. Opponent(j, Players[j].game) \notin {fd, k}
      BY <1>4, <3>1
    <3> QED BY <1>1, <2>2, <3>1, <3>2 DEF Matched
  <2> SUFFICES ASSUME NEW j \in DOMAIN Players
               PROVE  \/ Q[j].status = "InGame" /\ Matched(Q, j)
                      \/ Q[j].status = "FREE" /\ Q[j].game = NoGame
    BY <1>1 DEF GamesAgree
  <2>3. CASE j \in {fd, k}
    BY <1>2, <2>1, <2>3
  <2>4. CASE j \notin {fd, k}
    <3>1. \/ Players[j].status = "InGame" /\ Matched(Players, j)
          \/ Players[j].status = "FREE" /\ Players[j].game = NoGame
      BY <1>4 DEF GamesAgree
    <3>2. Q[j] = Players[j]
      BY <1>1, <2>4
    <3> QED BY <2>2, <2>4, <3>1, <3>2
  <2> QED BY <2>3, <2>4
<1> QED BY <1>1, <1>3, <1>4 DEF Q

-------------------------------------------------------------------------------
(* The games, by what the server does. *)

(* A wound changes ships and their number only.                                *)
LEMMA HitKeeps ==
  ASSUME NEW p, IsPlayer(p), NEW cell
  PROVE  LET q == Hit(p, cell) IN
         IsPlayer(q) /\ q.queue = p.queue /\ q.status = p.status /\ q.game = p.game /\ q.numb = p.numb
<1> DEFINE i == Min(Covering(p, cell))
           wounded == [p EXCEPT !.ships[i].status = @ \cup {cell}]
<1>1. IsPlayer(wounded) /\ wounded.queue = p.queue /\ wounded.status = p.status /\ wounded.game = p.game /\ wounded.numb = p.numb
  <2> HIDE DEF i
  <2> QED BY DEF IsPlayer
<1>2. Hit(p, cell) \in {p, wounded, [wounded EXCEPT !.qs = @ - 1]}
  BY DEF Hit
<1> HIDE DEF wounded
<1>3. LET q == [wounded EXCEPT !.qs = @ - 1] IN
      IsPlayer(q) /\ q.queue = p.queue /\ q.status = p.status /\ q.game = p.game /\ q.numb = p.numb
  BY <1>1 DEF IsPlayer
<1> QED BY <1>1, <1>2, <1>3

LEMMA InGame ==
  ASSUME Games, NEW fd \in DOMAIN Players, Players[fd].game # NoGame
  PROVE  Players[fd].status = "InGame"
BY DEF Games, GamesAgree

LEMMA PlayKeeps ==
  ASSUME Seated, Games, NEW fd \in DOMAIN Players, Play(fd)
  PROVE  again' \/ Games'
<1>1. CASE Free(fd) = {} /\ Says({fd})
  BY <1>1 DEF Says, Games, PlayersOK, GamesAgree, Matched
<1>2. CASE Players[fd].status = "InGame" /\ Free(fd) # {}
  BY <1>2 DEF Play
<1>3. CASE Players[fd].status # "InGame" /\ Free(fd) # {}
  <2> DEFINE k == Min(Free(fd))
  <2>1. Free(fd) \in SUBSET Nat
    BY LoopAssumption DEF Free, Seated
  <2>2. k \in Free(fd)
    BY <1>3, <2>1, MinOfNaturals
  <2>3. Players' = Paired(fd, k)
    BY <1>3 DEF Play
  <2>4. k \in DOMAIN Players /\ k # fd /\ Players[k].status = "FREE" /\ Players[fd].status = "FREE"
    BY <1>3, <2>2 DEF Free, Games, GamesAgree
  <2> HIDE DEF k
  <2> QED BY <2>3, <2>4, PairedMatches DEF Games
<1> QED BY <1>1, <1>2, <1>3 DEF Play

LEMMA ShipsKeeps ==
  ASSUME Games, NEW fd \in DOMAIN Players, NEW fleet, Ships(fd, fleet), Players[fd].game # NoGame
  PROVE  Games'
<1> DEFINE game == Players[fd].game
           P == [Players EXCEPT ![fd].ships = Placed(fleet), ![fd].qs = NShips]
<1>1. Players' = ChangeQ(P, game)
  BY DEF Ships
<1>2. DOMAIN P = DOMAIN Players
      /\ P[fd] = [Players[fd] EXCEPT !.ships = Placed(fleet), !.qs = NShips]
      /\ \A k \in DOMAIN Players \ {fd} : P[k] = Players[k]
  OBVIOUS
<1> HIDE DEF P
<1>3. \A k \in DOMAIN Players :
        /\ IsPlayer(P[k]) /\ P[k].queue = Players[k].queue
        /\ P[k].status = Players[k].status /\ P[k].game = Players[k].game /\ P[k].numb = Players[k].numb
  <2> SUFFICES ASSUME NEW k \in DOMAIN Players
               PROVE  /\ IsPlayer(P[k]) /\ P[k].queue = Players[k].queue
                      /\ P[k].status = Players[k].status /\ P[k].game = Players[k].game /\ P[k].numb = Players[k].numb
    OBVIOUS
  <2>1. IsPlayer(Players[k])
    BY DEF Games, PlayersOK
  <2>2. CASE k = fd
    BY <1>2, <2>1, <2>2 DEF IsPlayer
  <2>3. CASE k # fd
    BY <1>2, <2>1, <2>3
  <2> QED BY <2>2, <2>3
<1>4. PlayersOK(P) /\ GamesAgree(P)
  BY <1>2, <1>3, GamesKept DEF Games, PlayersOK
<1>5. P[fd].status = "InGame" /\ P[fd].game = game
  BY <1>3, InGame
<1>6. PlayersOK(ChangeQ(P, P[fd].game)) /\ GamesAgree(ChangeQ(P, P[fd].game))
  <2>1. fd \in DOMAIN P
    BY <1>2
  <2> HIDE DEF game
  <2> QED BY <1>4, <1>5, <2>1, ChangeQKeeps
<1>7. Players' = ChangeQ(P, P[fd].game)
  BY <1>1, <1>5
<1> HIDE DEF game
<1> QED BY <1>6, <1>7 DEF Games

LEMMA OverKeeps ==
  ASSUME NEW P, PlayersOK(P), GamesAgree(P), NEW f \in DOMAIN P, P[f].status = "InGame", Over(P, P[f].game)
  PROVE  Games' /\ DOMAIN Players' = DOMAIN P
BY FreedKeeps DEF Over, Told, Games

LEMMA MoveKeeps ==
  ASSUME Games, NEW fd \in DOMAIN Players, NEW cell, Move(fd, cell), Players[fd].game # NoGame
  PROVE  Games'
<1> DEFINE game == Players[fd].game
           k == game[3 - Players[fd].numb]
<1>1. Players[fd].status = "InGame"
  BY InGame
<1>2. CASE UNCHANGED Players
  BY <1>2 DEF Games, PlayersOK, GamesAgree, Matched
<1>3. CASE Missed(game, k)
  <2> DEFINE passed == ChangeQ(Players, game)
  <2>1. PlayersOK(passed) /\ GamesAgree(passed) /\ fd \in DOMAIN passed /\ passed[fd].status = "InGame" /\ passed[fd].game = game
    BY <1>1, ChangeQKeeps DEF Games
  <2> HIDE DEF passed
  <2>2. Over(passed, game) \/ Players' = passed
    BY <1>3 DEF Missed, Told, passed
  <2> QED BY <2>1, <2>2, OverKeeps DEF Games
<1>4. CASE Struck(game, k, cell)
  <2> DEFINE Q == [Players EXCEPT ![k] = Hit(Hit(@, cell), cell)]
  <2>1. Players' = Q
    BY <1>4 DEF Struck, Told
  <2>2. DOMAIN Q = DOMAIN Players /\ \A j \in DOMAIN Players : Q[j] = Players[j] \/ Q[j] = Hit(Hit(Players[j], cell), cell)
    OBVIOUS
  <2> HIDE DEF Q
  <2>3. \A j \in DOMAIN Players :
          /\ IsPlayer(Q[j]) /\ Q[j].queue = Players[j].queue
          /\ Q[j].status = Players[j].status /\ Q[j].game = Players[j].game /\ Q[j].numb = Players[j].numb
    BY <2>2, HitKeeps DEF Games, PlayersOK
  <2> QED BY <2>1, <2>2, <2>3, GamesKept DEF Games, PlayersOK
<1> QED BY <1>2, <1>3, <1>4 DEF Move, NotCommand, Says, Crash

LEMMA AnalysisKeeps ==
  ASSUME Seated, Games, NEW fd \in DOMAIN Players, Analysis(fd)
  PROVE  again' \/ Games'
<1>1. ASSUME UNCHANGED Players PROVE Games'
  BY <1>1 DEF Games, PlayersOK, GamesAgree, Matched
<1>2. CASE Play(fd)
  BY <1>2, PlayKeeps
<1>3. ASSUME NEW fleet \in Fleets, Ships(fd, fleet) PROVE Games'
  <2>1. Players[fd].game = NoGame => UNCHANGED Players
    BY <1>3 DEF Ships, Crash
  <2> QED BY <1>1, <1>3, <2>1, ShipsKeeps
<1>4. ASSUME NEW cell \in Cell, Move(fd, cell) PROVE Games'
  <2>1. Players[fd].game = NoGame => UNCHANGED Players
    BY <1>4 DEF Move, NotCommand, Says, Crash
  <2> QED BY <1>1, <1>4, <2>1, MoveKeeps
<1> QED BY <1>1, <1>2, <1>3, <1>4 DEF Analysis, ShowMy, ShowOther, NotCommand, Says, Crash

(* A request leaves the players there are, and who has asked again.            *)
LEMMA AnalysisDomain ==
  ASSUME NEW fd, Analysis(fd)
  PROVE  DOMAIN Players' = DOMAIN Players /\ (again => again')
<1>1. CASE UNCHANGED << Players, again >>
  BY <1>1
<1>2. CASE Play(fd)
  <2>1. CASE Says({fd})
    BY <2>1 DEF Says
  <2>2. CASE Players' = Paired(fd, Min(Free(fd))) /\ again' = (again \/ Players[fd].status = "InGame")
    <3>1. DOMAIN Players' = DOMAIN Players
      BY <2>2 DEF Paired
    <3> QED BY <2>2, <3>1
  <2> QED BY <1>2, <2>1, <2>2 DEF Play
<1>3. ASSUME NEW fleet, Ships(fd, fleet) PROVE DOMAIN Players' = DOMAIN Players /\ UNCHANGED again
  <2>1. CASE Crash
    BY <2>1 DEF Crash
  <2>2. CASE UNCHANGED again /\
             Players' = ChangeQ([Players EXCEPT ![fd].ships = Placed(fleet), ![fd].qs = NShips], Players[fd].game)
    BY <2>2 DEF ChangeQ
  <2> QED BY <1>3, <2>1, <2>2 DEF Ships
<1>4. ASSUME NEW cell, Move(fd, cell) PROVE DOMAIN Players' = DOMAIN Players /\ UNCHANGED again
  <2> DEFINE game == Players[fd].game
             k == game[3 - Players[fd].numb]
  <2>1. CASE UNCHANGED << Players, again >>
    BY <2>1
  <2>2. CASE Missed(game, k)
    BY <2>2 DEF Missed, Over, Told, Freed, ChangeQ
  <2>3. CASE Struck(game, k, cell)
    BY <2>3 DEF Struck, Told
  <2> QED BY <1>4, <2>1, <2>2, <2>3 DEF Move, NotCommand, Says, Crash
<1> QED BY <1>1, <1>2, <1>3, <1>4 DEF Analysis, ShowMy, ShowOther, NotCommand, Says, Crash

(* A Player that is new plays no game.                                         *)
LEMMA AcceptsGames ==
  ASSUME Games, Accepts
  PROVE  Games'
<1>1. CASE UNCHANGED Players
  BY <1>1 DEF Games, PlayersOK, GamesAgree, Matched
<1>2. CASE NewFd \notin DOMAIN Players
           /\ Players' = [k \in DOMAIN Players \cup {NewFd} |-> IF k = NewFd THEN NewPlayer ELSE Players[k]]
  <2> DEFINE Q == Players'
  <2>1. DOMAIN Q = DOMAIN Players \cup {NewFd} /\ Q[NewFd] = NewPlayer /\ \A k \in DOMAIN Players : Q[k] = Players[k]
    BY <1>2
  <2>2. IsPlayer(NewPlayer) /\ NewPlayer.queue \in BOOLEAN /\ NewPlayer.status = "FREE" /\ NewPlayer.game = NoGame
    BY DEF IsPlayer, NewPlayer
  <2> HIDE DEF Q
  <2>3. PlayersOK(Q)
    BY <2>1, <2>2 DEF Games, PlayersOK
  <2>4. ASSUME NEW k \in DOMAIN Players, Matched(Players, k) PROVE Matched(Q, k)
    <3>1. Opponent(k, Players[k].game) \in DOMAIN Players
      BY <2>4 DEF Matched, Opponent
    <3> QED BY <2>1, <2>4, <3>1 DEF Matched
  <2>5. GamesAgree(Q)
    BY <2>1, <2>2, <2>4 DEF Games, GamesAgree
  <2> QED BY <2>3, <2>5 DEF Games, Q
<1> QED BY <1>1, <1>2 DEF Accepts

-------------------------------------------------------------------------------
(* The players, whoever asked for another game. *)

(* What passing the turn, the end of a game and new ships have in common.      *)
Follows(P, Q) ==
  /\ DOMAIN Q = DOMAIN P
  /\ \A k \in DOMAIN P : /\ IsPlayer(Q[k]) /\ Q[k].queue \in BOOLEAN
                         /\ Q[k].numb = P[k].numb /\ Q[k].game \in {P[k].game, NoGame}

LEMMA SoundFollows ==
  ASSUME NEW P, NEW Q, Sound(P), Follows(P, Q)
  PROVE  Sound(Q)
<1>1. PlayersOK(Q)
  BY DEF Follows, PlayersOK
<1>2. ASSUME NEW k \in DOMAIN P, Q[k].game # NoGame PROVE Q[k].game = P[k].game /\ Q[k].numb = P[k].numb
  BY <1>2 DEF Follows
<1>3. Sided(Q)
  BY <1>2 DEF Sound, Sided, Follows
<1> QED BY <1>1, <1>3 DEF Sound

LEMMA ChangeQFollows ==
  ASSUME NEW P, PlayersOK(P), NEW game
  PROVE  LET Q == ChangeQ(P, game) IN Follows(P, Q) /\ \A k \in DOMAIN P : Q[k].ships = P[k].ships
<1> DEFINE Q == ChangeQ(P, game)
           Turned(k) == ~P[k].queue
<1>1. /\ DOMAIN Q = DOMAIN P
      /\ \A k \in DOMAIN P : Q[k] = IF k \in {game[1], game[2]} THEN [P[k] EXCEPT !.queue = Turned(k)] ELSE P[k]
  BY DEF ChangeQ
<1>2. \A k \in DOMAIN P : Turned(k) \in BOOLEAN
  BY Zenon
<1> HIDE DEF Q, Turned
<1>3. ASSUME NEW k \in DOMAIN P
      PROVE  /\ IsPlayer(Q[k]) /\ Q[k].queue \in BOOLEAN /\ Q[k].numb = P[k].numb
             /\ Q[k].game = P[k].game /\ Q[k].ships = P[k].ships
  <2>1. IsPlayer(P[k]) /\ P[k].queue \in BOOLEAN
    BY DEF PlayersOK
  <2>2. CASE k \in {game[1], game[2]}
    <3>1. Q[k] = [P[k] EXCEPT !.queue = Turned(k)] /\ Turned(k) \in BOOLEAN
      BY <1>1, <1>2, <2>2
    <3>2. Q[k].ships = P[k].ships
      BY <2>1, <3>1 DEF IsPlayer
    <3> QED BY <2>1, <3>1, <3>2, TurnSet
  <2>3. CASE k \notin {game[1], game[2]}
    BY <1>1, <2>1, <2>3
  <2> QED BY <2>2, <2>3
<1>4. Follows(P, Q)
  BY <1>1, <1>3 DEF Follows
<1> QED BY <1>3, <1>4 DEF Q

LEMMA FreedFollows ==
  ASSUME NEW P, PlayersOK(P), NEW game
  PROVE  LET Q == Freed(P, game) IN Follows(P, Q) /\ \A k \in DOMAIN P : Q[k].ships = P[k].ships
<1> DEFINE Q == Freed(P, game)
<1>1. /\ DOMAIN Q = DOMAIN P
      /\ \A k \in DOMAIN P : Q[k] = IF k \in {game[1], game[2]} THEN [P[k] EXCEPT !.status = "FREE", !.game = NoGame] ELSE P[k]
  BY DEF Freed
<1> HIDE DEF Q
<1>2. ASSUME NEW k \in DOMAIN P
      PROVE  /\ IsPlayer(Q[k]) /\ Q[k].queue \in BOOLEAN /\ Q[k].numb = P[k].numb
             /\ Q[k].game \in {P[k].game, NoGame} /\ Q[k].ships = P[k].ships
  BY <1>1 DEF PlayersOK, IsPlayer
<1>3. Follows(P, Q)
  BY <1>1, <1>2 DEF Follows
<1> QED BY <1>2, <1>3 DEF Q

(* Without new wounds there is nothing to keep.                                *)
LEMMA NoneHit ==
  ASSUME \A k \in DOMAIN Players : Players'[k].ships = Players[k].ships
  PROVE  HitKept
BY DEF HitKept, Wounds

LEMMA PlaySound ==
  ASSUME Seated, Sound(Players), NEW fd \in DOMAIN Players, Play(fd)
  PROVE  Sound(Players') /\ HitKept
<1>1. CASE Free(fd) = {} /\ Says({fd})
  BY <1>1, NoneHit DEF Says
<1>2. CASE Free(fd) # {}
  <2> DEFINE k == Min(Free(fd))
             Q == Players'
  <2>1. Free(fd) \in SUBSET Nat
    BY LoopAssumption DEF Free, Seated
  <2>2. k \in DOMAIN Players /\ k # fd
    BY <1>2, <2>1, MinOfNaturals DEF Free
  <2>3. Q = Paired(fd, k)
    BY <1>2 DEF Play
  <2> HIDE DEF k, Q
  <2>4. /\ DOMAIN Q = DOMAIN Players
        /\ Q[fd] = [Players[fd] EXCEPT !.status = "InGame", !.numb = 1, !.game = << fd, k >>, !.queue = TRUE]
        /\ Q[k] = [Players[k] EXCEPT !.status = "InGame", !.numb = 2, !.game = << fd, k >>, !.queue = FALSE]
        /\ \A j \in DOMAIN Players \ {fd, k} : Q[j] = Players[j]
    BY <2>2, <2>3 DEF Paired
  <2>5. /\ Q[fd].numb = 1 /\ Q[fd].game = << fd, k >> /\ Q[fd].ships = Players[fd].ships
        /\ Q[k].numb = 2 /\ Q[k].game = << fd, k >> /\ Q[k].ships = Players[k].ships
    BY <2>2, <2>4 DEF Sound, PlayersOK, IsPlayer
  <2>6. PlayersOK(Q)
    BY <2>2, <2>3, PairedMatches DEF Sound
  <2>7. \A j \in DOMAIN Players : Q[j].ships = Players[j].ships
    BY <2>4, <2>5
  <2>8. << fd, k >>[1] = fd /\ << fd, k >>[2] = k
    OBVIOUS
  <2>9. Sided(Q)
    <3> SUFFICES ASSUME NEW j \in DOMAIN Players, Q[j].game # NoGame
                 PROVE  /\ Q[j].game = << Q[j].game[1], Q[j].game[2] >> /\ Q[j].game[1] # Q[j].game[2]
                        /\ Q[j].game[1] \in DOMAIN Players /\ Q[j].game[2] \in DOMAIN Players
                        /\ Q[j].numb \in {1, 2} /\ j = Q[j].game[Q[j].numb]
      BY <2>4 DEF Sided
    <3>1. CASE j \in {fd, k}
      BY <2>2, <2>5, <2>8, <3>1
    <3>2. CASE j \notin {fd, k}
      BY <2>4, <3>2 DEF Sound, Sided
    <3> QED BY <3>1, <3>2
  <2> QED BY <2>6, <2>7, <2>9, NoneHit DEF Sound, Q
<1> QED BY <1>1, <1>2 DEF Play

(* New ships have no wounds.                                                   *)
LEMMA ShipsSound ==
  ASSUME Sound(Players), NEW fd \in DOMAIN Players, NEW fleet \in Fleets, Ships(fd, fleet)
  PROVE  Sound(Players') /\ HitKept
<1> DEFINE game == Players[fd].game
           P == [Players EXCEPT ![fd].ships = Placed(fleet), ![fd].qs = NShips]
           Q == ChangeQ(P, game)
<1>1. CASE Crash
  BY <1>1, NoneHit DEF Crash
<1>2. CASE Players' = Q
  <2>1. DOMAIN P = DOMAIN Players
        /\ P[fd] = [Players[fd] EXCEPT !.ships = Placed(fleet), !.qs = NShips]
        /\ \A k \in DOMAIN Players \ {fd} : P[k] = Players[k]
    OBVIOUS
  <2> HIDE DEF P, game
  <2>2. Follows(Players, P) /\ P[fd].ships = Placed(fleet)
    <3>1. /\ IsPlayer(P[fd]) /\ P[fd].queue \in BOOLEAN /\ P[fd].ships = Placed(fleet)
          /\ P[fd].numb = Players[fd].numb /\ P[fd].game = Players[fd].game
      <4>1. IsPlayer(Players[fd]) /\ Players[fd].queue \in BOOLEAN
        BY DEF Sound, PlayersOK
      <4> QED BY <2>1, <4>1 DEF IsPlayer
    <3> QED BY <2>1, <3>1 DEF Follows, Sound, PlayersOK
  <2>3. Sound(P)
    BY <2>2, SoundFollows
  <2>4. Follows(P, Q) /\ \A k \in DOMAIN P : Q[k].ships = P[k].ships
    BY <2>3, ChangeQFollows DEF Sound
  <2> HIDE DEF Q
  <2>5. Sound(Q)
    BY <2>3, <2>4, SoundFollows
  <2>6. Wounds(Q[fd]) = {}
    <3>1. DOMAIN fleet = 1 .. NShips
      BY BattleAssumption
    <3>2. Q[fd].ships = Placed(fleet)
      BY <2>1, <2>2, <2>4
    <3>3. \A i \in 1 .. NShips : Placed(fleet)[i].status = {}
      BY <3>1 DEF Placed
    <3> QED BY <3>2, <3>3 DEF Wounds
  <2>7. \A k \in DOMAIN Players \ {fd} : Wounds(Q[k]) = Wounds(Players[k])
    BY <2>1, <2>4 DEF Wounds
  <2> QED BY <1>2, <2>5, <2>6, <2>7 DEF HitKept
<1> QED BY <1>1, <1>2 DEF Ships

LEMMA MoveSound ==
  ASSUME Sound(Players), NEW fd \in DOMAIN Players, NEW cell, Players[fd].queue, Move(fd, cell)
  PROVE  Sound(Players') /\ HitKept
<1> DEFINE game == Players[fd].game
           numb == Players[fd].numb
           k == game[3 - numb]
<1>1. CASE UNCHANGED Players
  BY <1>1, NoneHit
<1>2. CASE Missed(game, k)
  <2> DEFINE passed == ChangeQ(Players, game)
             Q == Players'
  <2>1. Follows(Players, passed) /\ \A j \in DOMAIN Players : passed[j].ships = Players[j].ships
    BY ChangeQFollows DEF Sound
  <2>2. Sound(passed)
    BY <2>1, SoundFollows
  <2> HIDE DEF passed
  <2>3. Follows(passed, Freed(passed, game)) /\ \A j \in DOMAIN passed : Freed(passed, game)[j].ships = passed[j].ships
    BY <2>2, FreedFollows DEF Sound
  <2>4. Q \in {passed, Freed(passed, game)}
    BY <1>2 DEF Missed, Over, Told, passed
  <2> HIDE DEF Q
  <2>5. DOMAIN passed = DOMAIN Players
    BY <2>1 DEF Follows
  <2>6. Sound(Q) /\ \A j \in DOMAIN Players : Q[j].ships = Players[j].ships
    BY <2>1, <2>2, <2>3, <2>4, <2>5, SoundFollows
  <2> QED BY <2>6, NoneHit DEF Q
<1>3. CASE Struck(game, k, cell) /\ game # NoGame /\ numb # 0
  <2> DEFINE Q == [Players EXCEPT ![k] = Hit(Hit(@, cell), cell)]
  <2>1. Players' = Q
    BY <1>3 DEF Struck, Told
  <2>2. /\ game = << game[1], game[2] >> /\ game[1] # game[2] /\ game[1] \in DOMAIN Players /\ game[2] \in DOMAIN Players
        /\ numb \in {1, 2} /\ fd = game[numb]
    BY <1>3 DEF Sound, Sided
  <2>3. k \in DOMAIN Players /\ k # fd /\ k = Opponent(fd, game)
    <3>1. CASE numb = 1
      BY <2>2, <3>1 DEF Opponent
    <3>2. CASE numb = 2
      BY <2>2, <3>2 DEF Opponent
    <3> QED BY <2>2, <3>1, <3>2
  <2> HIDE DEF game, k
  <2>4. DOMAIN Q = DOMAIN Players /\ Q[k] = Hit(Hit(Players[k], cell), cell) /\ \A j \in DOMAIN Players \ {k} : Q[j] = Players[j]
    BY <2>3
  <2> HIDE DEF Q
  <2>5. Follows(Players, Q)
    <3>1. LET q == Q[k] IN IsPlayer(q) /\ q.queue = Players[k].queue /\ q.game = Players[k].game /\ q.numb = Players[k].numb
      BY <2>3, <2>4, HitKeeps DEF Sound, PlayersOK
    <3> QED BY <2>3, <2>4, <3>1 DEF Follows, Sound, PlayersOK
  <2>6. Sound(Q)
    BY <2>5, SoundFollows
  <2>7. \A j \in DOMAIN Players \ {k} : Wounds(Q[j]) = Wounds(Players[j])
    BY <2>4
  <2>8. Q[fd].queue
    BY <2>3, <2>4
  <2> QED BY <1>3, <2>1, <2>3, <2>6, <2>7, <2>8 DEF HitKept, game
<1> QED BY <1>1, <1>2, <1>3 DEF Move, NotCommand, Says, Crash

LEMMA AnalysisSound ==
  ASSUME Seated, Sound(Players), NEW fd \in DOMAIN Players, Analysis(fd)
  PROVE  Sound(Players') /\ HitKept
<1>1. CASE UNCHANGED Players
  BY <1>1, NoneHit
<1>2. CASE Play(fd)
  BY <1>2, PlaySound
<1>3. ASSUME NEW fleet \in Fleets, Ships(fd, fleet) PROVE Sound(Players') /\ HitKept
  BY <1>3, ShipsSound
<1>4. ASSUME NEW cell \in Cell, Players[fd].queue, Move(fd, cell) PROVE Sound(Players') /\ HitKept
  BY <1>4, MoveSound
<1> QED BY <1>1, <1>2, <1>3, <1>4 DEF Analysis, ShowMy, ShowOther, NotCommand, Says, Crash

-------------------------------------------------------------------------------
(* The steps. *)

LEMMA QuitKeeps ==
  ASSUME Inv, NEW i, i > 1, Visits(i), unread[act_set[i].fd] > 0, act_set[i].fd \in DOMAIN Players, Quit(i)
  PROVE  Inv' /\ HitKept
<1> DEFINE fd == act_set[i].fd
           game == Players[fd].game
<1>1. CASE game = NoGame
  <2>1. Consumes(i) /\ UNCHANGED << Players, again >>
    BY <1>1 DEF Quit, Crash
  <2>2. LoopInv' /\ SlotFds' = SlotFds
    BY <2>1, ConsumesKeeps DEF Inv, Consumes, FdRead
  <2> QED BY <2>1, <2>2, NoneHit DEF Inv, Seated, Games
<1>2. CASE game # NoGame
  <2>1. /\ Players' = Freed(Players, game) /\ act_set' = Cleared(i)
        /\ FdReleased(fd) /\ UNCHANGED << pending, again >>
    BY <1>2 DEF Quit, FdReleased
  <2>2. LoopInv' /\ SlotFds' = SlotFds
    BY <2>1, ConsumesKeeps DEF Inv
  <2>3. Follows(Players, Players') /\ \A k \in DOMAIN Players : Players'[k].ships = Players[k].ships
    BY <2>1, FreedFollows DEF Inv, Sound
  <2>4. Sound(Players') /\ HitKept
    BY <2>3, SoundFollows, NoneHit DEF Inv
  <2>5. Games => Games'
    BY <1>2, <2>1, InGame, FreedKeeps DEF Games
  <2> QED BY <2>1, <2>2, <2>3, <2>4, <2>5 DEF Inv, Seated, Follows
<1> QED BY <1>1, <1>2

LEMMA RequestKeeps ==
  ASSUME Inv, NEW i \in DOMAIN act_set, Request(i)
  PROVE  Inv' /\ HitKept
<1> DEFINE fd == act_set[i].fd
<1>1. i > 1 /\ Visits(i) /\ unread[fd] > 0
  BY DEF Request, Reads
<1>2. fd \in DOMAIN Players
  <2>1. fd \in SlotFds
    BY <1>1, SlotFd DEF Inv, LoopInv
  <2> QED BY <2>1 DEF Inv, Seated
<1>3. CASE Consumes(i) /\ Analysis(fd)
  <2>1. DOMAIN Players' = DOMAIN Players /\ (again => again')
    BY <1>3, AnalysisDomain
  <2>2. LoopInv' /\ SlotFds' = SlotFds
    BY <1>1, <1>3, ConsumesKeeps DEF Inv, Consumes, FdRead
  <2>3. again' \/ Games'
    BY <1>2, <1>3, <2>1, AnalysisKeeps DEF Inv
  <2>4. Sound(Players') /\ HitKept
    BY <1>2, <1>3, AnalysisSound DEF Inv
  <2> QED BY <2>1, <2>2, <2>3, <2>4 DEF Inv, Seated
<1>4. CASE Quit(i)
  BY <1>1, <1>2, <1>4, QuitKeeps
<1> QED BY <1>3, <1>4 DEF Request

LEMMA AcceptsKeeps ==
  ASSUME Inv, Accepts
  PROVE  Inv' /\ HitKept
<1>1. /\ LoopInv' /\ NewFd \in Fd
      /\ \/ Len(act_set) < MaxSlots /\ SlotFds' \subseteq SlotFds \cup {NewFd}
         \/ Len(act_set) = MaxSlots /\ SlotFds' = SlotFds
  BY AcceptKeeps DEF Inv, Accepts
<1>2. /\ again' = again
      /\ \/ UNCHANGED Players /\ (Len(act_set) < MaxSlots => NewFd \in DOMAIN Players)
         \/ /\ NewFd \notin DOMAIN Players
            /\ Players' = [k \in DOMAIN Players \cup {NewFd} |-> IF k = NewFd THEN NewPlayer ELSE Players[k]]
  BY DEF Accepts
<1>3. again' \/ Games'
  BY <1>2, AcceptsGames DEF Inv
<1>4. CASE UNCHANGED Players /\ (Len(act_set) < MaxSlots => NewFd \in DOMAIN Players)
  <2>1. Seated'
    BY <1>1, <1>4, LoopAssumption DEF Inv, Seated
  <2> QED BY <1>1, <1>3, <1>4, <2>1, NoneHit DEF Inv
<1>5. CASE NewFd \notin DOMAIN Players
           /\ Players' = [k \in DOMAIN Players \cup {NewFd} |-> IF k = NewFd THEN NewPlayer ELSE Players[k]]
  <2> DEFINE Q == Players'
  <2>1. DOMAIN Q = DOMAIN Players \cup {NewFd} /\ Q[NewFd] = NewPlayer /\ \A k \in DOMAIN Players : Q[k] = Players[k]
    BY <1>5
  <2>2. IsPlayer(NewPlayer) /\ NewPlayer.queue \in BOOLEAN /\ NewPlayer.game = NoGame
    BY DEF IsPlayer, NewPlayer
  <2>3. Seated'
    BY <1>1, <2>1 DEF Inv, Seated
  <2> HIDE DEF Q
  <2>4. PlayersOK(Q)
    BY <2>1, <2>2 DEF Inv, Sound, PlayersOK
  <2>5. Sided(Q)
    BY <2>1, <2>2 DEF Inv, Sound, Sided
  <2>6. HitKept
    BY <2>1, NoneHit DEF Q
  <2> QED BY <1>1, <1>3, <2>3, <2>4, <2>5, <2>6 DEF Inv, Sound, Q
<1> QED BY <1>2, <1>4, <1>5

LEMMA BattleInit == Init => Inv
<1> SUFFICES ASSUME Init PROVE Inv
  OBVIOUS
<1>1. LoopInit /\ DOMAIN Players = {}
  BY DEF Init
<1>2. LoopInv /\ SlotFds = {}
  BY <1>1, LoopInitInv DEF LoopInit, SlotFds
<1> QED BY <1>1, <1>2 DEF Inv, Seated, Sound, Sided, Games, PlayersOK, GamesAgree

LEMMA BattleStep == Inv /\ [Next]_vars => Inv' /\ [HitKept]_vars
<1> SUFFICES ASSUME Inv, [Next]_vars PROVE Inv' /\ HitKept
  OBVIOUS
<1>1. ASSUME LoopInv', SlotFds' \subseteq SlotFds, UNCHANGED << Players, again >> PROVE Inv' /\ HitKept
  BY <1>1, NoneHit DEF Inv, Seated, Games
<1>2. CASE UNCHANGED vars
  BY <1>1, <1>2, LoopStutters DEF vars, loopvars, Inv
<1>3. CASE Connect /\ Idle
  BY <1>1, <1>3, ClientKeeps DEF Idle, Inv
<1>4. ASSUME NEW fd \in Fd, Leave(fd), Idle PROVE Inv' /\ HitKept
  BY <1>1, <1>4, ClientKeeps DEF Idle, Inv
<1>5. ASSUME NEW fd \in Fd, Send(fd), UNCHANGED << Players, again >> PROVE Inv' /\ HitKept
  BY <1>1, <1>5, ClientKeeps DEF Inv
<1>6. CASE Poll /\ Idle
  BY <1>1, <1>6, PollKeeps DEF Idle, Inv
<1>7. ASSUME NEW i \in DOMAIN act_set, ReadFails(i), Idle PROVE Inv' /\ HitKept
  BY <1>1, <1>7, CloseKeeps DEF ReadFails, ReadsEnd, Idle, Inv
<1>8. CASE Accepts
  BY <1>8, AcceptsKeeps
<1>9. ASSUME NEW i \in DOMAIN act_set, Request(i) PROVE Inv' /\ HitKept
  BY <1>9, RequestKeeps
<1> QED BY <1>2, <1>3, <1>4, <1>5, <1>6, <1>7, <1>8, <1>9, BattleAssumption DEF Next, Client, Step

(* The sea battle waits in a read only for a descriptor that two slots have,   *)
(* "Quit" closing descriptors whose slots stay.                                *)
THEOREM BattleBlockedByTwin == Spec => []BlockedByTwin
<1>1. Inv => BlockedByTwin
  BY NeverBlocked DEF Inv
<1> QED BY BattleInit, BattleStep, <1>1, PTL DEF Spec

(* Two who play have the same game and one turn between them: what ChangeQ,    *)
(* Paired, Freed and the end of a game do to two players always fits.          *)
THEOREM BattleOneTurn == Spec => []OneTurn
<1>1. Inv => OneTurn
  BY DEF Inv, Games, GamesAgree, Matched, OneTurn
<1> QED BY BattleInit, BattleStep, <1>1, PTL DEF Spec

(* A ship is wounded by the opponent whose turn it is, who keeps the turn: also *)
(* between players whose games no longer agree, since one asked for another.   *)
THEOREM BattleHitsKeepTurn == Spec => HitsKeepTurn
<1>1. Spec => [][HitKept]_vars
  BY BattleInit, BattleStep, PTL DEF Spec
<1> QED BY <1>1 DEF HitsKeepTurn, HitKept
================================================================================
